-------------------------- MODULE KafkaDrainProofs --------------------------
(***************************************************************************)
(* Proofs about KafkaDrain for every number of consumers, events and keys. *)
(* The inductive invariant ties each consumer's position to the events     *)
(* accounted for before it, and its statement to the document it handles.  *)
(***************************************************************************)
EXTENDS KafkaDrain, TLAPS

\* What OffsetsAccounted asks of one event.
Accounted(m) == m \in dlq \cup skipped \/ (m \notin Bad /\ docs[KeyOf[m]] # "none")

\* A consumer handles an event exactly while it is not polling.
Handling ==
  /\ \A c \in Consumers : pc[c] = "poll" <=> cur[c] = None
  /\ \A c \in Consumers : pc[c] # "poll" => cur[c] < position[c]

\* Every event a consumer has polled, but the one it handles, is accounted for.
PolledAccounted ==
  \A c \in Consumers, m \in Offsets : m < position[c] => m = cur[c] \/ Accounted(m)

\* What the statement reached says of the event: an offset to be committed
\* without a DLQ row has a document.
StatementKnows ==
  \A c \in Consumers :
    /\ pc[c] \in {"insert", "process", "commit"} => cur[c] \notin Bad
    /\ pc[c] \in {"process", "commit"} => docs[Key(c)] # "none"
    /\ pc[c] = "routed" => cur[c] \in dlq

\* The pipeline is about to run only on a document it has not run on, in one
\* consumer.
OneRunner ==
  /\ \A k \in Keys : docs[k] = "none" => runs[k] = 0
  /\ \A c \in Consumers : pc[c] = "process" => runs[Key(c)] = 0
  /\ \A c, d \in Consumers :
       c # d /\ pc[c] = "process" /\ pc[d] = "process" => Key(c) # Key(d)

OffsetInv == KTypeOK /\ Handling /\ PolledAccounted /\ StatementKnows /\ OffsetsAccounted
RunInv == OffsetInv /\ OneRunner /\ RunOnce

-----------------------------------------------------------------------------

LEMMA OffsetInvInit == Init => OffsetInv
BY OffsetsAssumption, DrainBoundsAssumption
DEF Init, OffsetInv, KTypeOK, Handling, PolledAccounted, StatementKnows, OffsetsAccounted,
    Offsets, PC

\* While a consumer handles an event, the event is an offset with a key.
LEMMA CurrentEvent ==
  ASSUME OffsetInv, NEW c \in Consumers, pc[c] # "poll"
  PROVE  /\ cur[c] \in Offsets /\ Key(c) \in Keys
         /\ cur[c] < position[c]
         /\ cur[c] + 1 \in 1..(N + 1)
BY OffsetsAssumption DEF OffsetInv, KTypeOK, Handling, Key, Offsets

\* No step undoes what accounts for an event.
LEMMA AccountedStays ==
  ASSUME OffsetInv, dlq \subseteq dlq', skipped \subseteq skipped',
         \A k \in Keys : docs[k] # "none" => docs'[k] # "none",
         NEW m \in Offsets, Accounted(m)
  PROVE  Accounted(m)'
BY OffsetsAssumption DEF Accounted

\* A commit of the event handled leaves no unaccounted event behind it.
LEMMA DoneAccounted ==
  ASSUME OffsetInv, NEW c \in Consumers, pc[c] \in {"commit", "routed"}, Done(c),
         UNCHANGED <<owner, position, docs, dlq, runs, faults, skipped>>
  PROVE  OffsetInv'
<1>1. /\ cur[c] \in Offsets /\ cur[c] < position[c] /\ cur[c] + 1 \in 1..(N + 1)
      /\ Accounted(cur[c])
  BY CurrentEvent DEF OffsetInv, StatementKnows, Accounted, Key
<1>2. \A m \in Offsets : Accounted(m)' <=> Accounted(m)
  BY DEF Accounted
<1>3. KTypeOK'
  BY <1>1 DEF Done, Goto, OffsetInv, KTypeOK, PC
<1>4. Handling' /\ StatementKnows'
  BY <1>1, DrainBoundsAssumption
  DEF Done, Goto, OffsetInv, KTypeOK, Handling, StatementKnows, Key
<1>5. PolledAccounted'
  BY <1>1, <1>2 DEF Done, OffsetInv, KTypeOK, PolledAccounted
<1>6. OffsetsAccounted'
  <2> SUFFICES ASSUME NEW m \in Offsets, m < committed'
               PROVE  Accounted(m)'
    BY DEF OffsetsAccounted, Accounted
  <2>1. m < position[c]
    BY <1>1, OffsetsAssumption DEF Done, OffsetInv, KTypeOK, Offsets
  <2> QED BY <1>1, <1>2, <2>1 DEF OffsetInv, PolledAccounted
<1> QED BY <1>3, <1>4, <1>5, <1>6 DEF OffsetInv

\* A consumer that starts from the committed offset.
LEMMA FreshInv ==
  ASSUME OffsetInv, NEW c \in Consumers, owner' \in Consumers, faults' \in 0..MaxFaults,
         position' = [position EXCEPT ![c] = committed],
         cur' = [cur EXCEPT ![c] = None], pc' = [pc EXCEPT ![c] = "poll"],
         UNCHANGED <<committed, docs, dlq, runs, skipped>>
  PROVE  OffsetInv'
<1>1. \A m \in Offsets : Accounted(m)' <=> Accounted(m)
  BY DEF Accounted
<1>2. KTypeOK'
  BY DEF OffsetInv, KTypeOK, PC
<1>3. Handling' /\ StatementKnows'
  BY DrainBoundsAssumption DEF OffsetInv, KTypeOK, Handling, StatementKnows, Key
<1>4. PolledAccounted'
  BY <1>1 DEF OffsetInv, KTypeOK, PolledAccounted, OffsetsAccounted, Accounted
<1>5. OffsetsAccounted'
  BY DEF OffsetInv, OffsetsAccounted
<1> QED BY <1>2, <1>3, <1>4, <1>5 DEF OffsetInv

\* A consumer goes from one statement to another with the same event.
LEMMA SameEvent ==
  ASSUME OffsetInv, NEW c \in Consumers, NEW s \in PC \ {"poll"},
         pc[c] # "poll", pc' = [pc EXCEPT ![c] = s],
         dlq \subseteq dlq', dlq' \subseteq Offsets, faults' \in 0..MaxFaults,
         docs' \in [Keys -> {"none", "pending", "indexed", "failed"}],
         runs' \in [Keys -> Nat],
         \A k \in Keys : docs[k] # "none" => docs'[k] # "none",
         s \in {"insert", "process", "commit"} => cur[c] \notin Bad,
         s \in {"process", "commit"} => docs'[Key(c)] # "none",
         s = "routed" => cur[c] \in dlq',
         UNCHANGED <<committed, owner, position, cur, skipped>>
  PROVE  OffsetInv'
<1>1. \A m \in Offsets : Accounted(m) => Accounted(m)'
  BY AccountedStays
<1>2. KTypeOK'
  BY DEF OffsetInv, KTypeOK
<1>3. Handling'
  BY DEF OffsetInv, KTypeOK, Handling
<1>4. PolledAccounted'
  BY <1>1 DEF OffsetInv, PolledAccounted
<1>5. StatementKnows'
  <2>1. \A d \in Consumers : Key(d)' = Key(d) /\ (pc[d] # "poll" => Key(d) \in Keys)
    BY CurrentEvent DEF Key
  <2> QED BY <2>1 DEF OffsetInv, KTypeOK, StatementKnows
<1>6. OffsetsAccounted'
  BY <1>1 DEF OffsetInv, OffsetsAccounted, Accounted
<1> QED BY <1>2, <1>3, <1>4, <1>5, <1>6 DEF OffsetInv

LEMMA HandleOffsetInv ==
  ASSUME OffsetInv, NEW c \in Consumers, Handle(c)
  PROVE  OffsetInv'
<1>0. faults \in 0..MaxFaults /\ dlq \subseteq Offsets /\ runs \in [Keys -> Nat]
      /\ docs \in [Keys -> {"none", "pending", "indexed", "failed"}]
  BY DEF OffsetInv, KTypeOK
<1>1. CASE Poll(c)
  <2>1. cur[c] = None /\ position[c] \in Offsets
    BY <1>1, OffsetsAssumption DEF Poll, At, OffsetInv, KTypeOK, Handling, Offsets
  <2>2. \A m \in Offsets : Accounted(m)' <=> Accounted(m)
    BY <1>1 DEF Poll, Accounted
  <2>3. KTypeOK'
    BY <1>1, <2>1, OffsetsAssumption DEF Poll, Goto, OffsetInv, KTypeOK, PC, Offsets
  <2>4. Handling' /\ StatementKnows'
    BY <1>1, <2>1, OffsetsAssumption, DrainBoundsAssumption
    DEF Poll, Goto, OffsetInv, KTypeOK, Handling, StatementKnows, Key, Offsets
  <2>5. PolledAccounted'
    BY <1>1, <2>1, <2>2, OffsetsAssumption, DrainBoundsAssumption
    DEF Poll, OffsetInv, KTypeOK, PolledAccounted, Offsets
  <2>6. OffsetsAccounted'
    BY <1>1 DEF Poll, OffsetInv, OffsetsAccounted
  <2> QED BY <2>3, <2>4, <2>5, <2>6 DEF OffsetInv
<1>2. CASE Reject(c)
  BY <1>0, <1>2, SameEvent DEF Reject, At, Goto, PC
<1>3. CASE SelectDocument(c)
  BY <1>0, <1>3, SameEvent DEF SelectDocument, At, Goto, PC
<1>4. CASE InsertDocument(c)
  <2>1. pc[c] = "insert" /\ Key(c) \in Keys /\ cur[c] \notin Bad
    BY <1>4, CurrentEvent DEF InsertDocument, At, OffsetInv, StatementKnows
  <2> QED BY <1>0, <1>4, <2>1, SameEvent DEF InsertDocument, Goto, PC
<1>5. CASE Process(c)
  <2>1. pc[c] = "process" /\ Key(c) \in Keys /\ cur[c] \notin Bad
    BY <1>5, CurrentEvent DEF Process, At, OffsetInv, StatementKnows
  <2> QED BY <1>0, <1>5, <2>1, SameEvent DEF Process, Goto, PC
<1>6. CASE CommitOffset(c)
  BY <1>0, <1>6, SameEvent, DoneAccounted DEF CommitOffset, At, Goto, PC
<1>7. CASE RouteToDLQ(c)
  <2>1. cur[c] \in Offsets
    BY <1>7, CurrentEvent DEF RouteToDLQ, At
  <2> QED BY <1>0, <1>7, <2>1, SameEvent DEF RouteToDLQ, At, Goto, PC
<1>8. CASE CommitRouted(c)
  BY <1>0, <1>8, SameEvent, DoneAccounted DEF CommitRouted, At, Goto, PC
<1>9. CASE Restart(c)
  BY <1>0, <1>9, FreshInv DEF Restart, FreshConsumer, Goto, OffsetInv, KTypeOK
<1> QED
  BY <1>1, <1>2, <1>3, <1>4, <1>5, <1>6, <1>7, <1>8, <1>9 DEF Handle

LEMMA FaultOffsetInv ==
  ASSUME OffsetInv, NEW c \in Consumers, Fault(c)
  PROVE  OffsetInv'
<1>0. /\ faults \in 0..MaxFaults /\ dlq \subseteq Offsets /\ runs \in [Keys -> Nat]
      /\ docs \in [Keys -> {"none", "pending", "indexed", "failed"}]
      /\ owner \in Consumers /\ MaxFaults \in Nat /\ pc \in [Consumers -> PC]
      /\ cur \in [Consumers -> Offsets \cup {None}]
  BY DrainBoundsAssumption DEF OffsetInv, KTypeOK
<1>a. MoreFaults => faults' \in 0..MaxFaults
  BY <1>0 DEF MoreFaults
<1>1. CASE HandlerFails(c)
  BY <1>0, <1>a, <1>1, SameEvent DEF HandlerFails, Goto, PC
<1>2. CASE DrainRaises(c)
  BY <1>0, <1>a, <1>2, SameEvent DEF DrainRaises, At, Goto, PC
<1>3. CASE Crash(c)
  BY <1>0, <1>a, <1>3, FreshInv DEF Crash, FreshConsumer, Goto
<1>4. CASE Rebalance(c)
  <2>1. cur' = [cur EXCEPT ![c] = None] /\ pc' = [pc EXCEPT ![c] = "poll"]
    BY <1>0, <1>4 DEF Rebalance, At, OffsetInv, Handling
  <2> QED BY <1>0, <1>a, <1>4, <2>1, FreshInv DEF Rebalance
<1> QED BY <1>1, <1>2, <1>3, <1>4 DEF Fault

\* The event that a drain gave up is skipped by the next call of the same consumer.
LEMMA DrainAgainOffsetInv ==
  ASSUME OffsetInv, NEW c \in Consumers, DrainAgain(c)
  PROVE  OffsetInv'
<1>1. cur[c] \in Offsets
  BY CurrentEvent DEF DrainAgain, At
<1>2. \A m \in Offsets : Accounted(m) => Accounted(m)'
  BY AccountedStays DEF DrainAgain
<1>3. KTypeOK'
  BY <1>1 DEF DrainAgain, Goto, OffsetInv, KTypeOK, PC
<1>4. Handling' /\ StatementKnows'
  BY DrainBoundsAssumption DEF DrainAgain, Goto, OffsetInv, KTypeOK, Handling, StatementKnows, Key
<1>5. PolledAccounted'
  BY <1>1, <1>2 DEF DrainAgain, OffsetInv, KTypeOK, PolledAccounted, Accounted
<1>6. OffsetsAccounted'
  BY <1>2 DEF DrainAgain, OffsetInv, OffsetsAccounted, Accounted
<1> QED BY <1>3, <1>4, <1>5, <1>6 DEF OffsetInv

LEMMA OffsetInvNext == OffsetInv /\ [Next]_vars => OffsetInv'
<1> SUFFICES ASSUME OffsetInv, [Next]_vars PROVE OffsetInv'
  OBVIOUS
<1>1. CASE UNCHANGED vars
  BY <1>1 DEF vars, OffsetInv, KTypeOK, Handling, PolledAccounted, StatementKnows,
              OffsetsAccounted, Accounted, Key
<1>2. CASE Next
  BY <1>2, HandleOffsetInv, FaultOffsetInv, DrainAgainOffsetInv DEF Next
<1> QED BY <1>1, <1>2

\* The type invariant of the consumers, the broker and the tables they write.
THEOREM DrainTypeCorrect == Spec => []KTypeOK
<1>1. OffsetInv => KTypeOK
  BY DEF OffsetInv
<1> QED BY <1>1, OffsetInvInit, OffsetInvNext, PTL DEF Spec

\* No crash, failed commit, failed DLQ insert or rebalance makes an event below
\* the committed offset vanish.
THEOREM OffsetsAccountedHolds == Spec => []OffsetsAccounted
<1>1. OffsetInv => OffsetsAccounted
  BY DEF OffsetInv
<1> QED BY <1>1, OffsetInvInit, OffsetInvNext, PTL DEF Spec

-----------------------------------------------------------------------------

LEMMA RunInvInit == Init => RunInv
BY OffsetInvInit, OffsetsAssumption DEF Init, RunInv, OneRunner, RunOnce

\* A step that runs no pipeline and starts none keeps OneRunner.
LEMMA NoNewRunner ==
  ASSUME RunInv, [Next]_vars, UNCHANGED <<docs, runs>>,
         \A c \in Consumers : pc'[c] = "process" => pc[c] = "process" /\ cur'[c] = cur[c]
  PROVE  OneRunner' /\ RunOnce'
BY DEF RunInv, OneRunner, RunOnce, Key

LEMMA RunInvNext == RunInv /\ [Next]_vars => RunInv'
<1> SUFFICES ASSUME RunInv, [Next]_vars PROVE OneRunner' /\ RunOnce'
  BY OffsetInvNext DEF RunInv
<1> USE DEF At, Goto
<1>0. OffsetInv /\ KTypeOK
  BY DEF RunInv, OffsetInv
<1>1. CASE UNCHANGED vars
  BY <1>1, NoNewRunner DEF vars
<1>2. ASSUME NEW c \in Consumers, InsertDocument(c)
      PROVE  OneRunner' /\ RunOnce'
  <2>1. Key(c) \in Keys /\ pc[c] = "insert"
    BY <1>0, <1>2, CurrentEvent DEF InsertDocument
  <2>2. CASE docs[Key(c)] = "none"
    <3>1. docs' = [docs EXCEPT ![Key(c)] = "pending"] /\ pc' = [pc EXCEPT ![c] = "process"]
      BY <1>2, <2>2 DEF InsertDocument
    <3>2. \A d \in Consumers : pc[d] = "process" => Key(d) \in Keys /\ Key(d) # Key(c)
      BY <1>0, <2>2, CurrentEvent DEF OffsetInv, StatementKnows
    <3>3. \A d \in Consumers : Key(d)' = Key(d)
      BY <1>2 DEF InsertDocument, Key
    <3> QED BY <1>0, <1>2, <2>1, <2>2, <3>1, <3>2, <3>3
            DEF InsertDocument, RunInv, KTypeOK, OneRunner, RunOnce
  <2>3. CASE docs[Key(c)] # "none"
    BY <1>0, <1>2, <2>3, NoNewRunner DEF InsertDocument, KTypeOK
  <2> QED BY <2>2, <2>3
<1>3. ASSUME NEW c \in Consumers, Process(c)
      PROVE  OneRunner' /\ RunOnce'
  <2>1. Key(c) \in Keys /\ pc[c] = "process" /\ runs[Key(c)] = 0
    BY <1>0, <1>3, CurrentEvent DEF Process, RunInv, OneRunner
  <2>2. \A d \in Consumers : Key(d)' = Key(d)
    BY <1>3 DEF Process, Key
  <2>3. \A d \in Consumers : pc'[d] = "process" => d # c /\ pc[d] = "process" /\ Key(d) # Key(c)
    BY <1>0, <1>3, <2>1 DEF Process, KTypeOK, RunInv, OneRunner
  <2>4. runs' = [runs EXCEPT ![Key(c)] = 1]
    BY <1>0, <1>3, <2>1 DEF Process, KTypeOK
  <2>5. \A k \in Keys : docs'[k] = "none" => docs[k] = "none" /\ k # Key(c)
    BY <1>0, <1>3, <2>1 DEF Process, KTypeOK
  <2>6. \A d \in Consumers : pc[d] = "process" => Key(d) \in Keys
    BY <1>0, CurrentEvent
  <2> QED BY <1>0, <2>1, <2>2, <2>3, <2>4, <2>5, <2>6 DEF RunInv, KTypeOK, OneRunner, RunOnce
<1>4. ASSUME NEW c \in Consumers,
             \/ Poll(c) \/ Reject(c) \/ SelectDocument(c) \/ CommitOffset(c)
             \/ RouteToDLQ(c) \/ CommitRouted(c) \/ Restart(c) \/ DrainAgain(c)
      PROVE  OneRunner' /\ RunOnce'
  BY <1>0, <1>4, NoNewRunner
  DEF Poll, Reject, SelectDocument, CommitOffset, Done, RouteToDLQ, CommitRouted, Restart,
      FreshConsumer, DrainAgain, KTypeOK
<1>5. ASSUME NEW c \in Consumers, Fault(c)
      PROVE  OneRunner' /\ RunOnce'
  BY <1>0, <1>5, NoNewRunner
  DEF Fault, HandlerFails, DrainRaises, Crash, FreshConsumer, Rebalance, KTypeOK
<1> QED BY <1>1, <1>2, <1>3, <1>4, <1>5 DEF Next, Handle

\* Redelivery, duplicates and several consumers never run the pipeline twice.
THEOREM RunOnceHolds == Spec => []RunOnce
<1>1. RunInv => RunOnce
  BY DEF RunInv
<1> QED BY <1>1, RunInvInit, RunInvNext, PTL DEF Spec
=============================================================================
