----------------------------- MODULE SourceSync -----------------------------
(***************************************************************************)
(* POST /admin/ingestion/{source_id}/sync-now: one transaction that walks  *)
(* the items of a source, creates a document (and a version of its family) *)
(* for each new content and enqueues its process_document job.             *)
(*                                                                         *)
(* Several requests may run at once.  writes[r] is what r's transaction    *)
(* has written; the unique index on document_version_families makes the    *)
(* second of two requests that insert the same family wait for the first.  *)
(* On PostgreSQL an error aborts the transaction: the per-item try goes on *)
(* to the next item, whose statements all fail, until the request fails.   *)
(***************************************************************************)
EXTENDS Integers, FiniteSets

CONSTANTS
  Requests,    \* concurrent sync-now requests for the source
  Items,       \* external ids of the source
  Contents,    \* content hashes of an item
  Dialects,    \* databases: "postgresql" in production, "sqlite" in the tests
  Connectors,  \* types of the source
  MaxEdits,    \* bound on changes of the source
  MaxFaults,   \* bound on database and connector errors
  None

ASSUME DialectAssumption == Dialects \subseteq {"postgresql", "sqlite"}
ASSUME ConnectorAssumption == Connectors \subseteq {"folder", "smb", "confluence"}
ASSUME SyncBoundsAssumption ==
  MaxEdits \in Nat /\ MaxFaults \in Nat /\ None \notin Contents
\* Items holds every external id the source may ever list, so there is one.
ASSUME ItemsAssumption == IsFiniteSet(Items) /\ Items # {} /\ IsFiniteSet(Contents)

Files == Items \X Contents
Row == [number : Nat \ {0}, latest : BOOLEAN]
ASSUME NoRowAssumption == None \notin Row /\ None \notin Files

VARIABLES
  dialect, connector,   \* the deployment: never changed
  source,     \* what the source holds: the content of every item, or None
  docs,       \* the committed documents of the source, by item and content
  family,     \* the committed families: per item, the content of the current document
  queued,     \* documents with a committed job
  dlq,        \* documents whose job could not be enqueued
  readable,   \* documents whose text or file a worker can read
  syncState,  \* ingestion_sources.last_sync_status
  pc,         \* per request, the statement it runs next
  todo,       \* per request, the items it has not visited
  cur,        \* per request, the item and content being created
  seen,       \* per request, what its walk has yielded
  writes,     \* per request, the documents, families and jobs it has written
  failed,     \* per request, the number of items whose creation raised
  edits, faults

sourceVars == <<dialect, connector, source, edits>>
table      == <<docs, family, queued, dlq, syncState>>
vars == <<sourceVars, table, readable, pc, todo, cur, seen, writes, failed, faults>>

PC == {"idle", "walk", "select", "family", "insert", "unlatest", "store", "fail", "aborted"}

NoDocs   == [f \in Files |-> None]
NoFamily == [i \in Items |-> None]
Nothing  == [docs |-> NoDocs, family |-> NoFamily, queued |-> {}, dlq |-> {}]

STypeOK ==
  /\ dialect \in Dialects /\ connector \in Connectors
  /\ source \in [Items -> Contents \cup {None}]
  /\ docs \in [Files -> Row \cup {None}]
  /\ family \in [Items -> Contents \cup {None}]
  /\ queued \subseteq Files /\ dlq \subseteq Files /\ readable \subseteq Files
  /\ syncState \in {None, "success", "partial_failure", "failed"}
  /\ pc \in [Requests -> PC]
  /\ todo \in [Requests -> SUBSET Items]
  /\ cur \in [Requests -> Files \cup {None}]
  /\ seen \in [Requests -> SUBSET Files]
  /\ writes \in [Requests -> [docs : [Files -> Row \cup {None}],
                               family : [Items -> Contents \cup {None}],
                               queued : SUBSET Files, dlq : SUBSET Files]]
  /\ failed \in [Requests -> 0..Cardinality(Items)]

Init ==
  /\ dialect \in Dialects /\ connector \in Connectors
  /\ source = [i \in Items |-> None]
  /\ docs = NoDocs /\ family = NoFamily /\ queued = {} /\ dlq = {} /\ readable = {}
  /\ syncState = None
  /\ pc = [r \in Requests |-> "idle"]
  /\ todo = [r \in Requests |-> {}]
  /\ cur = [r \in Requests |-> None]
  /\ seen = [r \in Requests |-> {}]
  /\ writes = [r \in Requests |-> Nothing]
  /\ failed = [r \in Requests |-> 0]
  /\ edits = 0 /\ faults = 0

Goto(r, s) == pc' = [pc EXCEPT ![r] = s]

\* What r's transaction reads: its own writes over the committed rows.
Doc(r, f)    == IF writes[r].docs[f] # None THEN writes[r].docs[f] ELSE docs[f]
Family(r, i) == IF writes[r].family[i] # None THEN writes[r].family[i] ELSE family[i]

\* A row or index entry that another open transaction has written.
FamilyLocked(r, i) == \E q \in Requests \ {r} : writes[q].family[i] # None

-----------------------------------------------------------------------------

\* A file is added or changed at the source.
Edit(i, c) ==
  /\ edits < MaxEdits
  /\ source[i] # c
  /\ source' = [source EXCEPT ![i] = c]
  /\ edits' = edits + 1
  /\ UNCHANGED <<dialect, connector, table, readable, pc, todo, cur, seen, writes, failed, faults>>

\* SQLite has one writer at a time.
MayStart(r) ==
  /\ pc[r] = "idle"
  /\ dialect = "sqlite" => \A q \in Requests : pc[q] = "idle"

\* Mutant of Start: the counters of the last sync are carried over.
StartCounting(r) ==
  /\ MayStart(r)
  /\ Goto(r, "walk")
  /\ todo' = [todo EXCEPT ![r] = Items]
  /\ seen' = [seen EXCEPT ![r] = {}]
  /\ UNCHANGED <<sourceVars, table, readable, cur, writes, failed, faults>>

Start(r) ==
  /\ MayStart(r)
  /\ Goto(r, "walk")
  /\ todo' = [todo EXCEPT ![r] = Items]
  /\ seen' = [seen EXCEPT ![r] = {}]
  /\ failed' = [failed EXCEPT ![r] = 0]
  /\ UNCHANGED <<sourceVars, table, readable, cur, writes, faults>>

\* The connector yields the next item, with the content it has now.
Visit(r, i) ==
  /\ pc[r] = "walk" \/ pc[r] = "aborted"
  /\ i \in todo[r]
  /\ todo' = [todo EXCEPT ![r] = @ \ {i}]
  /\ IF source[i] = None
     THEN UNCHANGED <<pc, cur, seen, failed>>
     ELSE /\ cur' = [cur EXCEPT ![r] = <<i, source[i]>>]
          /\ seen' = [seen EXCEPT ![r] = @ \cup {<<i, source[i]>>}]
          /\ IF pc[r] = "aborted"
             THEN failed' = [failed EXCEPT ![r] = @ + 1] /\ UNCHANGED pc
             ELSE Goto(r, "select") /\ UNCHANGED failed
  /\ UNCHANGED <<sourceVars, table, readable, writes, faults>>

\* DocumentRepository.create: the same content is skipped.
SelectSame(r) ==
  /\ pc[r] = "select"
  /\ Goto(r, IF Doc(r, cur[r]) # None THEN "walk" ELSE "family")
  /\ UNCHANGED <<sourceVars, table, readable, todo, cur, seen, writes, failed, faults>>

\* _get_or_create_version_family.
SelectFamily(r) ==
  /\ pc[r] = "family"
  /\ Goto(r, IF Family(r, cur[r][1]) = None THEN "insert" ELSE "unlatest")
  /\ UNCHANGED <<sourceVars, table, readable, todo, cur, seen, writes, failed, faults>>

InsertFamily(r) ==
  LET i == cur[r][1] IN
  /\ pc[r] = "insert"
  /\ ~ FamilyLocked(r, i)
  /\ IF family[i] # None
     THEN Goto(r, "fail") /\ UNCHANGED writes
     ELSE /\ writes' = [writes EXCEPT ![r].family[i] = cur[r][2]]
          /\ Goto(r, "store")
  /\ UNCHANGED <<sourceVars, table, readable, todo, cur, seen, failed, faults>>

\* Mutant of DropLatest: the older versions keep their flag.
DropLatestForgotten(r) ==
  LET i == cur[r][1] IN
  /\ pc[r] = "unlatest"
  /\ writes' = [writes EXCEPT ![r].family[i] = cur[r][2]]
  /\ Goto(r, "store")
  /\ UNCHANGED <<sourceVars, table, readable, todo, cur, seen, failed, faults>>

\* SET is_latest = 0 ... AND is_latest = 1, then the family's new current
\* document.  PostgreSQL has no operator boolean = integer.
DropLatest(r) ==
  LET i == cur[r][1] IN
  /\ pc[r] = "unlatest"
  /\ IF dialect = "postgresql"
     THEN Goto(r, "fail") /\ UNCHANGED writes
     ELSE /\ writes' = [writes EXCEPT
               ![r].family[i] = cur[r][2],
               ![r].docs = [f \in Files |->
                  IF f[1] = i /\ Doc(r, f) # None
                  THEN [Doc(r, f) EXCEPT !.latest = FALSE] ELSE @[f]]]
          /\ Goto(r, "store")
  /\ UNCHANGED <<sourceVars, table, readable, todo, cur, seen, failed, faults>>

NextNumber(r, i) == 1 + Cardinality({c \in Contents : Doc(r, <<i, c>>) # None})

\* Mutant of Store: the job is not enqueued.
StoreUnqueued(r) ==
  /\ pc[r] = "store"
  /\ writes' = [writes EXCEPT
       ![r].docs[cur[r]] = [number |-> NextNumber(r, cur[r][1]), latest |-> TRUE]]
  /\ readable' = readable \cup {cur[r]}
  /\ Goto(r, "walk")
  /\ UNCHANGED <<sourceVars, table, todo, cur, seen, failed, faults>>

\* The documents row and the job, and sync_now's finally clause, which unlinks
\* the temporary copy of an SMB file.
Store(r) ==
  /\ pc[r] = "store"
  /\ writes' = [writes EXCEPT
       ![r].docs[cur[r]] = [number |-> NextNumber(r, cur[r][1]), latest |-> TRUE],
       ![r].queued = @ \cup {cur[r]}]
  /\ readable' = IF connector = "smb" THEN readable ELSE readable \cup {cur[r]}
  /\ Goto(r, "walk")
  /\ UNCHANGED <<sourceVars, table, todo, cur, seen, failed, faults>>

\* enqueue_document raised after the document was inserted: a DLQ row stands
\* in for the job, where the transaction can still take it.
EnqueueFails(r) ==
  /\ faults < MaxFaults
  /\ pc[r] = "store"
  /\ faults' = faults + 1
  /\ IF dialect = "postgresql"
     THEN Goto(r, "fail") /\ UNCHANGED <<writes, failed>>
     ELSE /\ writes' = [writes EXCEPT
               ![r].docs[cur[r]] = [number |-> NextNumber(r, cur[r][1]), latest |-> TRUE],
               ![r].dlq = @ \cup {cur[r]}]
          /\ failed' = [failed EXCEPT ![r] = @ + 1]
          /\ Goto(r, "walk")
  /\ UNCHANGED <<sourceVars, table, readable, todo, cur, seen>>

\* A statement of create raised.
StatementFails(r) ==
  /\ faults < MaxFaults
  /\ pc[r] \in {"select", "family", "insert", "unlatest", "store"}
  /\ faults' = faults + 1
  /\ Goto(r, "fail")
  /\ UNCHANGED <<sourceVars, table, readable, todo, cur, seen, writes, failed>>

\* Mutant of ItemFails: the exception is swallowed without being counted.
ItemFailsUncounted(r) ==
  /\ pc[r] = "fail"
  /\ IF dialect = "postgresql"
     THEN writes' = [writes EXCEPT ![r] = Nothing] /\ Goto(r, "aborted")
     ELSE Goto(r, "walk") /\ UNCHANGED writes
  /\ UNCHANGED <<sourceVars, table, readable, todo, cur, seen, failed, faults>>

\* except Exception: failed_discovery += 1, and on to the next item.
ItemFails(r) ==
  /\ pc[r] = "fail"
  /\ failed' = [failed EXCEPT ![r] = @ + 1]
  /\ IF dialect = "postgresql"
     THEN writes' = [writes EXCEPT ![r] = Nothing] /\ Goto(r, "aborted")
     ELSE Goto(r, "walk") /\ UNCHANGED writes
  /\ UNCHANGED <<sourceVars, table, readable, todo, cur, seen, faults>>

\* The walk is over: record the outcome and commit.
Finish(r) ==
  /\ pc[r] = "walk"
  /\ todo[r] = {}
  /\ docs' = [f \in Files |-> Doc(r, f)]
  /\ family' = [i \in Items |-> Family(r, i)]
  /\ queued' = queued \cup writes[r].queued
  /\ dlq' = dlq \cup writes[r].dlq
  /\ syncState' = IF failed[r] > 0 THEN "partial_failure" ELSE "success"
  /\ writes' = [writes EXCEPT ![r] = Nothing]
  /\ Goto(r, "idle")
  /\ UNCHANGED <<sourceVars, readable, todo, cur, seen, failed, faults>>

\* Recording the outcome raises in an aborted transaction: 500.
FinishAborted(r) ==
  /\ pc[r] = "aborted"
  /\ todo[r] = {}
  /\ Goto(r, "idle")
  /\ UNCHANGED <<sourceVars, table, readable, todo, cur, seen, writes, failed, faults>>

\* The source cannot be validated or read.  The handler records "failed" in
\* its own transaction (a generator that raises half-way is not caught at
\* all), and the HTTPException that reports it rolls the record back.
SourceFails(r) ==
  /\ faults < MaxFaults
  /\ pc[r] = "walk" \/ pc[r] = "aborted"
  /\ faults' = faults + 1
  /\ writes' = [writes EXCEPT ![r] = Nothing]
  /\ failed' = [failed EXCEPT ![r] = 1]
  /\ Goto(r, "idle")
  /\ UNCHANGED <<sourceVars, table, readable, todo, cur, seen>>

Next ==
  \/ \E i \in Items, c \in Contents : Edit(i, c)
  \/ \E r \in Requests :
       \/ Start(r) \/ (\E i \in Items : Visit(r, i))
       \/ SelectSame(r) \/ SelectFamily(r) \/ InsertFamily(r) \/ DropLatest(r)
       \/ Store(r) \/ EnqueueFails(r) \/ StatementFails(r) \/ ItemFails(r)
       \/ Finish(r) \/ FinishAborted(r) \/ SourceFails(r)

Spec == Init /\ [][Next]_vars

-----------------------------------------------------------------------------
(* Properties.                                                             *)

VersionsOf(i) == {c \in Contents : docs[<<i, c>>] # None}

\* A family's versions are numbered 1..n, exactly the newest is the latest
\* one, and the family points to it - through edits back to an old content and
\* concurrent requests, and on PostgreSQL through failures between any two
\* statements (on SQLite the item's statements before the failing one remain).
FamilyConsistent ==
  faults = 0 \/ dialect = "postgresql" =>
    \A i \in Items :
      IF family[i] = None THEN VersionsOf(i) = {}
      ELSE /\ {docs[<<i, c>>].number : c \in VersionsOf(i)} = 1..Cardinality(VersionsOf(i))
           /\ \A c \in VersionsOf(i) :
                /\ docs[<<i, c>>].latest <=> c = family[i]
                /\ docs[<<i, c>>].latest <=> docs[<<i, c>>].number = Cardinality(VersionsOf(i))
           /\ family[i] \in VersionsOf(i)

\* A document is committed together with its job or with a DLQ row, whatever
\* fails: none is left pending with nothing to drive it.
EveryDocumentQueued == \A f \in Files : docs[f] # None => f \in queued \cup dlq

\* A sync that reports success has stored everything its walk has yielded.
SuccessStoresAll ==
  [][\A r \in Requests :
       pc[r] = "walk" /\ pc'[r] = "idle" /\ failed'[r] = 0 =>
         \A f \in seen[r] : docs'[f] # None]_vars

-----------------------------------------------------------------------------
(* What the documentation promises and the code does not keep.             *)

\* production-compose.md: "Changed file re-sync: a new version is created for
\* the same source item": an undisturbed sync stores what it has seen.
ChangedFileStored ==
  [][\A r \in Requests :
       pc[r] # "idle" /\ pc'[r] = "idle" => \A f \in seen[r] : docs'[f] # None]_vars

\* release-notes-rc.md lists the native SMB connector as supported: a queued
\* document can be read by the worker that claims its job.
QueuedIsReadable == queued \subseteq readable
=============================================================================
