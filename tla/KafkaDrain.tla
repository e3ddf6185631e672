----------------------------- MODULE KafkaDrain -----------------------------
(***************************************************************************)
(* NiFiKafkaDrain: the consumers of the NiFi event topic, on one partition *)
(* (offsets 1..N).  A handler parses an event, creates its document in one *)
(* transaction, runs the document pipeline, and commits the offset; every  *)
(* exception is routed to the DLQ table first, and when that fails too the *)
(* drain raises to its caller.                                             *)
(*                                                                         *)
(* The consumer object is a Kafka client: its position survives within the *)
(* process and is lost with it, a commit covers every earlier offset, and  *)
(* a rebalance fences the commits of the consumer that lost the partition. *)
(***************************************************************************)
EXTENDS Integers, FiniteSets

CONSTANTS
  Consumers,      \* processes draining the topic in one consumer group
  Keys,           \* (source, external_id) of the events
  N,              \* number of events in the partition
  KeyOf,          \* the key of the event at each offset
  Bad,            \* offsets of events the parser or the source check rejects
  MaxFaults,      \* bound on crashes, failed commits, routes and rebalances
  None            \* no offset

Offsets == 1..N

ASSUME OffsetsAssumption == N \in Nat /\ KeyOf \in [Offsets -> Keys] /\ Bad \subseteq Offsets
ASSUME DrainBoundsAssumption ==
  MaxFaults \in Nat /\ None \notin Offsets

VARIABLES
  committed,   \* the group's committed offset: the next event after a restart
  owner,       \* the consumer the partition is assigned to
  position,    \* per consumer, the next offset its poll returns
  pc,          \* per consumer, the statement of _handle_message it runs next
  cur,         \* per consumer, the event it is handling
  docs,        \* per key, the document's status
  dlq,         \* offsets with a DLQ row
  skipped,     \* offsets whose drain raised and whose consumer was used again
  runs,        \* per key, how often the pipeline was run on the document
  faults

vars == <<committed, owner, position, pc, cur, docs, dlq, skipped, runs, faults>>

PC == {"poll", "parse", "insert", "process", "commit", "route", "routed", "raised"}

KTypeOK ==
  /\ committed \in 1..(N + 1)
  /\ owner \in Consumers
  /\ position \in [Consumers -> 1..(N + 1)]
  /\ pc \in [Consumers -> PC]
  /\ cur \in [Consumers -> Offsets \cup {None}]
  /\ docs \in [Keys -> {"none", "pending", "indexed", "failed"}]
  /\ dlq \subseteq Offsets
  /\ skipped \subseteq Offsets
  /\ runs \in [Keys -> Nat]
  /\ faults \in 0..MaxFaults

Init ==
  /\ committed = 1
  /\ owner \in Consumers
  /\ position = [c \in Consumers |-> 1]
  /\ pc = [c \in Consumers |-> "poll"]
  /\ cur = [c \in Consumers |-> None]
  /\ docs = [k \in Keys |-> "none"]
  /\ dlq = {}
  /\ skipped = {}
  /\ runs = [k \in Keys |-> 0]
  /\ faults = 0

Key(c) == KeyOf[cur[c]]
At(c, s) == pc[c] = s
Goto(c, s) == pc' = [pc EXCEPT ![c] = s]
MoreFaults == faults < MaxFaults /\ faults' = faults + 1

-----------------------------------------------------------------------------
(* drain and _handle_message.                                              *)

Poll(c) ==
  /\ At(c, "poll")
  /\ owner = c
  /\ position[c] <= N
  /\ cur' = [cur EXCEPT ![c] = position[c]]
  /\ position' = [position EXCEPT ![c] = @ + 1]
  /\ Goto(c, "parse")
  /\ UNCHANGED <<committed, owner, docs, dlq, runs, faults, skipped>>

\* Empty or malformed value, unknown, disabled or foreign source.
Reject(c) ==
  /\ At(c, "parse")
  /\ cur[c] \in Bad
  /\ Goto(c, "route")
  /\ UNCHANGED <<committed, owner, position, cur, docs, dlq, runs, faults, skipped>>

\* The idempotency gate, first statement of _create_document.
SelectDocument(c) ==
  /\ At(c, "parse")
  /\ cur[c] \notin Bad
  /\ Goto(c, IF docs[Key(c)] = "none" THEN "insert" ELSE "commit")
  /\ UNCHANGED <<committed, owner, position, cur, docs, dlq, runs, faults, skipped>>

\* Mutant of InsertDocument: a document that is already there is taken over.
InsertOrTakeOver(c) ==
  /\ At(c, "insert")
  /\ docs' = [docs EXCEPT ![Key(c)] = "pending"]
  /\ Goto(c, "process")
  /\ UNCHANGED <<committed, owner, position, cur, dlq, runs, faults, skipped>>

\* create() and the commit of its transaction.  When another consumer has
\* inserted the key meanwhile, create() returns None (the event has a checksum)
\* or its family statements raise.
InsertDocument(c) ==
  /\ At(c, "insert")
  /\ \/ /\ docs[Key(c)] = "none"
        /\ docs' = [docs EXCEPT ![Key(c)] = "pending"]
        /\ Goto(c, "process")
     \/ /\ docs[Key(c)] # "none"
        /\ \E s \in {"commit", "route"} : Goto(c, s)
        /\ UNCHANGED docs
  /\ UNCHANGED <<committed, owner, position, cur, dlq, runs, faults, skipped>>

Process(c) ==
  /\ At(c, "process")
  /\ \/ docs' = [docs EXCEPT ![Key(c)] = "indexed"] /\ Goto(c, "commit")
     \/ docs' = [docs EXCEPT ![Key(c)] = "failed"] /\ Goto(c, "route")
  /\ runs' = [runs EXCEPT ![Key(c)] = @ + 1]
  /\ UNCHANGED <<committed, owner, position, cur, dlq, faults, skipped>>

\* Mutant of Done: the commit names the consumer's position plus one.
DoneBeyond(c) ==
  /\ committed' = position[c] + 1
  /\ cur' = [cur EXCEPT ![c] = None]
  /\ Goto(c, "poll")

\* Commit of the handled offset; a fenced consumer's commit raises.
Done(c) ==
  /\ committed' = cur[c] + 1
  /\ cur' = [cur EXCEPT ![c] = None]
  /\ Goto(c, "poll")

CommitOffset(c) ==
  /\ At(c, "commit")
  /\ \/ owner = c /\ Done(c)
     \/ owner # c /\ Goto(c, "route") /\ UNCHANGED <<committed, cur>>
  /\ UNCHANGED <<owner, position, docs, dlq, runs, faults, skipped>>

\* A statement, the pipeline or the commit raised: every handler of
\* _handle_message routes the event.
HandlerFails(c) ==
  /\ MoreFaults
  /\ pc[c] \in {"parse", "insert", "process", "commit"}
  /\ Goto(c, "route")
  /\ UNCHANGED <<committed, owner, position, cur, docs, dlq, runs, skipped>>

\* Mutant of RouteToDLQ: the sink reports success without the row.
RouteNowhere(c) ==
  /\ At(c, "route")
  /\ Goto(c, "routed")
  /\ UNCHANGED <<committed, owner, position, cur, docs, dlq, runs, faults, skipped>>

\* DatabaseDeadLetterSink.route, then the commit of _route_to_dlq_or_raise.
RouteToDLQ(c) ==
  /\ At(c, "route")
  /\ dlq' = dlq \cup {cur[c]}
  /\ Goto(c, "routed")
  /\ UNCHANGED <<committed, owner, position, cur, docs, runs, faults, skipped>>

\* Mutant of CommitRouted: the offset of a dead-lettered event is not committed.
RoutedUncommitted(c) ==
  /\ At(c, "routed")
  /\ cur' = [cur EXCEPT ![c] = None]
  /\ Goto(c, "poll")
  /\ UNCHANGED <<committed, owner, position, docs, dlq, runs, faults, skipped>>

CommitRouted(c) ==
  /\ At(c, "routed")
  /\ \/ owner = c /\ Done(c)
     \/ owner # c /\ Goto(c, "raised") /\ UNCHANGED <<committed, cur>>
  /\ UNCHANGED <<owner, position, docs, dlq, runs, faults, skipped>>

\* The DLQ insert, or the commit after it, raised out of drain.
DrainRaises(c) ==
  /\ MoreFaults
  /\ At(c, "route") \/ At(c, "routed")
  /\ Goto(c, "raised")
  /\ UNCHANGED <<committed, owner, position, cur, docs, dlq, runs, skipped>>

-----------------------------------------------------------------------------
(* The caller, the process and the broker.                                 *)

\* drain is called again with the consumer it was built with, whose position is
\* past the event that raised.
DrainAgain(c) ==
  /\ At(c, "raised")
  /\ skipped' = skipped \cup {cur[c]}
  /\ cur' = [cur EXCEPT ![c] = None]
  /\ Goto(c, "poll")
  /\ UNCHANGED <<committed, owner, position, docs, dlq, runs, faults>>

\* A new consumer starts from the committed offset.
FreshConsumer(c) ==
  /\ position' = [position EXCEPT ![c] = committed]
  /\ cur' = [cur EXCEPT ![c] = None]
  /\ Goto(c, "poll")

Restart(c) ==
  /\ At(c, "raised")
  /\ FreshConsumer(c)
  /\ UNCHANGED <<committed, owner, docs, dlq, runs, faults, skipped>>

Crash(c) ==
  /\ MoreFaults
  /\ pc[c] # "poll"
  /\ FreshConsumer(c)
  /\ UNCHANGED <<committed, owner, docs, dlq, runs, skipped>>

\* A handler slower than the group's poll interval loses the partition.
Rebalance(c) ==
  /\ MoreFaults
  /\ owner # c
  /\ At(c, "poll")
  /\ owner' = c
  /\ position' = [position EXCEPT ![c] = committed]
  /\ UNCHANGED <<committed, pc, cur, docs, dlq, runs, skipped>>

-----------------------------------------------------------------------------

Handle(c) ==
  \/ Poll(c) \/ Reject(c) \/ SelectDocument(c) \/ InsertDocument(c)
  \/ Process(c) \/ CommitOffset(c) \/ RouteToDLQ(c) \/ CommitRouted(c)
  \/ Restart(c)

Fault(c) == HandlerFails(c) \/ DrainRaises(c) \/ Crash(c) \/ Rebalance(c)

Next == \E c \in Consumers : Handle(c) \/ Fault(c) \/ DrainAgain(c)

Spec == Init /\ [][Next]_vars

\* The drain is invoked again for as long as there are events.
FairSpec == Spec /\ \A c \in Consumers : WF_vars(Handle(c))

-----------------------------------------------------------------------------
(* Properties.                                                             *)

\* An event below the committed offset has left a document or a DLQ row: no
\* crash, failed commit, failed DLQ insert or rebalance makes one vanish.  The
\* one exception is an event whose DLQ insert failed and whose consumer is used
\* again: the commit of the next event covers it.
OffsetsAccounted ==
  \A m \in Offsets :
    m < committed => \/ m \in dlq \cup skipped
                     \/ m \notin Bad /\ docs[KeyOf[m]] # "none"

\* Redelivery, duplicate events and two consumers on one event never run the
\* pipeline twice for a document.
RunOnce == \A k \in Keys : runs[k] <= 1

\* A rejected event or a failing commit never blocks the partition: every event
\* is committed past, or skipped as above.
EveryEventHandled == \A m \in Offsets : <>(m < committed \/ m \in skipped)

-----------------------------------------------------------------------------
(* What the documentation promises and the code does not keep.             *)

\* phase-09a-nifi-integration.md: "offsets are committed only after successful
\* processing or DLQ routing".
CommittedAfterOutcome ==
  \A m \in Offsets :
    m < committed => m \in dlq \/ (m \notin Bad /\ docs[KeyOf[m]] \in {"indexed", "failed"})
=============================================================================
