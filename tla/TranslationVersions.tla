------------------------ MODULE TranslationVersions ------------------------
(***************************************************************************)
(* The translation versions of one document and the summary field          *)
(* documents.translation_quality: requests for a translation, views that   *)
(* queue an automatic one, the pipeline worker that completes a version    *)
(* after processing the document, and the slow worker.                     *)
(*                                                                         *)
(* Each operation is one READ COMMITTED transaction of several statements. *)
(* A statement sees what is committed and what its own transaction wrote   *)
(* (tx[p]); a row written by an open transaction is locked.  An INSERT     *)
(* waits for an open transaction that has inserted the same number, so two *)
(* transactions can wait for each other, and PostgreSQL aborts one.        *)
(***************************************************************************)
EXTENDS Integers, FiniteSets

CONSTANTS
  Requesters,    \* calls of POST /documents/{id}/translate
  Viewers,       \* users who open GET /preview/{id}
  Runners,       \* pipeline workers processing the document
  SlowWorkers,   \* callers of SlowWorker.process_document
  Threshold,     \* system_config auto_enrich.threshold
  MaxVersions,   \* bound on version rows
  MaxFaults,     \* bound on crashes and database errors
  None

Processes == Requesters \cup Viewers \cup Runners \cup SlowWorkers

ASSUME ProcessAssumption ==
  /\ Requesters \cap Viewers = {} /\ Requesters \cap Runners = {}
  /\ Requesters \cap SlowWorkers = {} /\ Viewers \cap Runners = {}
  /\ Viewers \cap SlowWorkers = {} /\ Runners \cap SlowWorkers = {}
ASSUME BoundsAssumption ==
  Threshold \in Nat \ {0} /\ MaxVersions \in Nat /\ MaxFaults \in Nat
ASSUME NoneAssumption ==
  None \notin Nat \cup {"fast", "same", "high", "pending_high", "unwritten"}

Ids == 1..MaxVersions
Row == [number : Nat \ {0},
        type   : {"ingestion", "manual", "auto_enrich"},
        status : {"pending", "running", "available", "failed"},
        text   : {None, "fast", "same", "high"}]
ASSUME RowAssumption == None \notin Row
Quality == {None, "fast", "pending_high", "high"}
Text == {None, "fast", "same"}

VARIABLES
  hasText,   \* whether extraction finds a text in the document: never changed
  versions,  \* the committed rows of document_translation_versions
  quality,   \* the committed documents.translation_quality
  payload,   \* the committed document_payloads.translated_text
  views,     \* the users with a committed row in document_views
  tx,        \* per process, what its open transaction has written
  pc,        \* per process, the statement it runs next
  seen,      \* per process, the translation_quality it has read
  number,    \* per process, the version number it has computed
  chosen,    \* per process, the row it is going to complete
  produced,  \* per process, the text its processing has produced
  faults

committed == <<hasText, versions, quality, payload, views>>
local == <<seen, number, chosen, produced>>
vars == <<committed, tx, pc, local, faults>>

Unread == [rows |-> [i \in Ids |-> None], quality |-> "unwritten",
           payload |-> "unwritten", views |-> {}]

VTypeOK ==
  /\ hasText \in BOOLEAN
  /\ versions \in [Ids -> Row \cup {None}]
  /\ quality \in Quality /\ payload \in Text /\ views \subseteq Viewers
  /\ tx \in [Processes -> [rows : [Ids -> Row \cup {None}],
                           quality : Quality \cup {"unwritten"},
                           payload : Text \cup {"unwritten"},
                           views : SUBSET Viewers]]
  /\ pc \in [Processes -> {"idle", "count", "existing", "number", "insert", "quality",
                           "processed", "find", "complete", "running", "translate",
                           "legacy", "commit"}]
  /\ seen \in [Processes -> Quality]
  /\ number \in [Processes -> Nat]
  /\ chosen \in [Processes -> Ids \cup {None}]
  /\ produced \in [Processes -> Text]
  /\ faults \in 0..MaxFaults

Init ==
  /\ hasText \in BOOLEAN
  /\ versions = [i \in Ids |-> None] /\ quality = None /\ payload = None /\ views = {}
  /\ tx = [p \in Processes |-> Unread]
  /\ pc = [p \in Processes |-> "idle"]
  /\ seen = [p \in Processes |-> None]
  /\ number = [p \in Processes |-> 0]
  /\ chosen = [p \in Processes |-> None]
  /\ produced = [p \in Processes |-> None]
  /\ faults = 0

-----------------------------------------------------------------------------
(* What a statement of p sees, and the locks it waits for. *)

Seen(p) == [i \in Ids |-> IF tx[p].rows[i] # None THEN tx[p].rows[i] ELSE versions[i]]
Rows(table) == {i \in Ids : table[i] # None}
Unfinished(table) == {i \in Rows(table) : table[i].status \in {"pending", "running"}}
Pending(table) == {i \in Rows(table) : table[i].status = "pending"}
Numbers(table) == {table[i].number : i \in Rows(table)}

\* A mutant: MAX without the increment.
MaxNumber(p) == CHOOSE n \in 0..MaxVersions :
  /\ \A m \in Numbers(Seen(p)) : m <= n
  /\ n = 0 \/ n \in Numbers(Seen(p))

\* COALESCE(MAX(version_number), 0) + 1
NextNumber(p) == CHOOSE n \in 1..(MaxVersions + 1) :
  /\ \A m \in Numbers(Seen(p)) : m < n
  /\ n = 1 \/ n - 1 \in Numbers(Seen(p))

Others(p) == Processes \ {p}
WritersOf(p, i) == {q \in Others(p) : tx[q].rows[i] # None}
QualityWriters(p) == {q \in Others(p) : tx[q].quality # "unwritten"}
NumberWriters(p) == {q \in Others(p) : number[p] \in Numbers(tx[q].rows)}

\* The open transactions that p's next statement waits for.
WaitsFor(p) ==
  CASE pc[p] = "insert" -> NumberWriters(p)
    [] pc[p] \in {"quality", "processed"} -> QualityWriters(p)
    [] pc[p] \in {"complete", "running"} -> WritersOf(p, chosen[p])
    [] pc[p] = "legacy" -> QualityWriters(p)
    [] OTHER -> {}
Granted(p) == WaitsFor(p) = {}

Goto(p, s) == pc' = [pc EXCEPT ![p] = s]
WriteRow(p, i, row) == tx' = [tx EXCEPT ![p].rows[i] = row]
WriteQuality(p, q) == tx' = [tx EXCEPT ![p].quality = q]

Reset(p) ==
  /\ Goto(p, "idle")
  /\ tx' = [tx EXCEPT ![p] = Unread]
  /\ seen' = [seen EXCEPT ![p] = None]
  /\ number' = [number EXCEPT ![p] = 0]
  /\ chosen' = [chosen EXCEPT ![p] = None]
  /\ produced' = [produced EXCEPT ![p] = None]

\* The bound on rows: an operation starts only while a row is left for it.
Room == Cardinality({p \in Processes : pc[p] # "idle"})
          < MaxVersions - Cardinality(Rows(versions))

-----------------------------------------------------------------------------
(* POST /documents/{id}/translate: an unfinished version of the language is *)
(* returned, else a pending one is created and the document is queued.     *)

RequestTranslation(p) ==
  /\ p \in Requesters /\ pc[p] = "idle" /\ Room
  /\ Unfinished(versions) = {}
  /\ Goto(p, "number")
  /\ UNCHANGED <<committed, tx, local, faults>>

SelectNumber(p) ==
  /\ pc[p] = "number"
  /\ number' = [number EXCEPT ![p] = NextNumber(p)]
  /\ Goto(p, "insert")
  /\ UNCHANGED <<committed, tx, seen, chosen, produced, faults>>

FreeId == CHOOSE i \in Ids :
  /\ versions[i] = None /\ \A p \in Processes : tx[p].rows[i] = None
TypeOf(p) == IF p \in Requesters THEN "manual"
             ELSE IF p \in Viewers THEN "auto_enrich" ELSE "ingestion"

\* A mutant: the constraint is missing.
NumberFreeUnchecked(p) == TRUE

\* The unique constraint on (document_id, version_number).
NumberFree(p) == number[p] \notin Numbers(versions)

InsertVersion(p) ==
  /\ pc[p] = "insert" /\ Granted(p) /\ NumberFree(p)
  /\ WriteRow(p, FreeId, [number |-> number[p], type |-> TypeOf(p),
                          status |-> "pending", text |-> None])
  /\ IF p \in Runners
     THEN /\ chosen' = [chosen EXCEPT ![p] = FreeId] /\ Goto(p, "complete")
     ELSE /\ Goto(p, "quality") /\ UNCHANGED chosen
  /\ UNCHANGED <<committed, seen, number, produced, faults>>

\* The error ends the request; run_once swallows it, and its commit of the
\* aborted transaction is a rollback.
InsertConflicts(p) ==
  /\ pc[p] = "insert" /\ Granted(p) /\ ~NumberFree(p)
  /\ Reset(p)
  /\ UNCHANGED <<committed, faults>>

QueueEnrichment(p) ==
  /\ pc[p] = "quality" /\ Granted(p)
  /\ WriteQuality(p, IF p \in SlowWorkers THEN "high" ELSE "pending_high")
  /\ Goto(p, "commit")
  /\ UNCHANGED <<committed, local, faults>>

-----------------------------------------------------------------------------
(* GET /preview/{id}: the view is recorded once per user, views are        *)
(* counted, and at the threshold a version is queued.                      *)

RecordView(p) ==
  /\ p \in Viewers /\ pc[p] = "idle" /\ Room
  /\ seen' = [seen EXCEPT ![p] = quality]
  /\ tx' = [tx EXCEPT ![p].views = {p} \ views]
  /\ Goto(p, "count")
  /\ UNCHANGED <<committed, number, chosen, produced, faults>>

CountViews(p) ==
  /\ pc[p] = "count"
  /\ IF /\ seen[p] \notin {"high", "pending_high"}
        /\ Cardinality(views \cup tx[p].views) >= Threshold
     THEN Goto(p, "existing") ELSE Goto(p, "commit")
  /\ UNCHANGED <<committed, tx, local, faults>>

SelectExisting(p) ==
  /\ pc[p] = "existing"
  /\ IF \E i \in Unfinished(versions) : versions[i].type = "auto_enrich"
     THEN Goto(p, "commit") ELSE Goto(p, "number")
  /\ UNCHANGED <<committed, tx, local, faults>>

\* The text of _generate_snippet for a preview without a version id: that of
\* the available version with the highest number, else the payload, else (None)
\* the original.
Available == {i \in Rows(versions) : versions[i].status = "available"}
Newest == CHOOSE i \in Available : \A j \in Available : versions[j].number <= versions[i].number

\* A mutant: no fallback to the payload.
VersionTextOnly == IF Available = {} THEN None ELSE versions[Newest].text

Snippet == IF Available # {} /\ versions[Newest].text # None
           THEN versions[Newest].text ELSE payload

-----------------------------------------------------------------------------
(* The pipeline worker: update_indexed in process_document, then the       *)
(* payload and the version of run_once.                                    *)

\* The translation, or the text itself when the translator fails.
Texts == IF hasText THEN {"fast", "same"} ELSE {None}
HighText == IF hasText THEN "high" ELSE None

ProcessDocument(p) ==
  /\ p \in Runners /\ pc[p] = "idle" /\ Room
  /\ \E text \in Texts : produced' = [produced EXCEPT ![p] = text]
  /\ Goto(p, "processed")
  /\ UNCHANGED <<committed, tx, seen, number, chosen, faults>>

\* A mutant: processing the document again leaves its quality alone.
WriteIndexedKeepsQuality(p) ==
  /\ pc[p] = "processed" /\ Granted(p)
  /\ tx' = [tx EXCEPT ![p].payload = produced[p], ![p].quality = quality]
  /\ Goto(p, IF produced[p] = None THEN "commit" ELSE "find")
  /\ UNCHANGED <<committed, local, faults>>

WriteIndexed(p) ==
  /\ pc[p] = "processed" /\ Granted(p)
  /\ tx' = [tx EXCEPT ![p].payload = produced[p],
                      ![p].quality = IF produced[p] = "fast" THEN "fast" ELSE None]
  /\ Goto(p, IF produced[p] = None THEN "commit" ELSE "find")
  /\ UNCHANGED <<committed, local, faults>>

FindUnfinished(p) ==
  /\ pc[p] = "find"
  /\ IF Unfinished(versions) = {}
     THEN Goto(p, "number") /\ UNCHANGED chosen
     ELSE /\ \E i \in Unfinished(versions) : chosen' = [chosen EXCEPT ![p] = i]
          /\ Goto(p, "complete")
  /\ UNCHANGED <<committed, tx, seen, number, produced, faults>>

CompleteVersion(p) ==
  /\ pc[p] = "complete" /\ Granted(p)
  /\ WriteRow(p, chosen[p], [Seen(p)[chosen[p]] EXCEPT !.status = "available",
                                                       !.text = produced[p]])
  /\ Goto(p, "commit")
  /\ UNCHANGED <<committed, local, faults>>

-----------------------------------------------------------------------------
(* The slow worker: the oldest pending version, or without one the whole   *)
(* document; its exceptions are logged and its transaction is committed.   *)

Oldest(S) == CHOOSE i \in S : \A j \in S : versions[i].number <= versions[j].number

SelectPending(p) ==
  /\ p \in SlowWorkers /\ pc[p] = "idle" /\ Room
  /\ IF Pending(versions) = {}
     THEN Goto(p, "legacy") /\ UNCHANGED chosen
     ELSE Goto(p, "running") /\ chosen' = [chosen EXCEPT ![p] = Oldest(Pending(versions))]
  /\ UNCHANGED <<committed, tx, seen, number, produced, faults>>

StartVersion(p) ==
  /\ pc[p] = "running" /\ Granted(p)
  /\ WriteRow(p, chosen[p], [versions[chosen[p]] EXCEPT !.status = "running"])
  /\ Goto(p, "translate")
  /\ UNCHANGED <<committed, local, faults>>

TranslateVersion(p) ==
  /\ pc[p] = "translate"
  /\ WriteRow(p, chosen[p], [tx[p].rows[chosen[p]] EXCEPT !.status = "available",
                                                          !.text = HighText])
  /\ Goto(p, "quality")
  /\ UNCHANGED <<committed, local, faults>>

\* Extraction or translation fails before the text is stored, or indexing
\* after it; COALESCE keeps a text that is there.
FailVersion(p) ==
  /\ pc[p] = "translate"
  /\ \E text \in {tx[p].rows[chosen[p]].text, HighText} :
       WriteRow(p, chosen[p], [tx[p].rows[chosen[p]] EXCEPT !.status = "failed", !.text = text])
  /\ Goto(p, "commit")
  /\ UNCHANGED <<committed, local, faults>>

EnrichLegacy(p) ==
  /\ pc[p] = "legacy" /\ Granted(p)
  /\ WriteQuality(p, "high")
  /\ Goto(p, "commit")
  /\ UNCHANGED <<committed, local, faults>>

FailLegacy(p) ==
  /\ pc[p] = "legacy"
  /\ Goto(p, "commit")
  /\ UNCHANGED <<committed, tx, local, faults>>

-----------------------------------------------------------------------------
(* The end of a transaction. *)

Commit(p) ==
  /\ pc[p] = "commit"
  /\ versions' = Seen(p)
  /\ quality' = IF tx[p].quality = "unwritten" THEN quality ELSE tx[p].quality
  /\ payload' = IF tx[p].payload = "unwritten" THEN payload ELSE tx[p].payload
  /\ views' = views \cup tx[p].views
  /\ Reset(p)
  /\ UNCHANGED <<hasText, faults>>

\* A mutant: no deadlock is detected.
NeverDeadlocked(p) == FALSE

\* p waits for q and q for p: PostgreSQL aborts one of them.
Deadlocked(p) == \E q \in WaitsFor(p) : p \in WaitsFor(q)
AbortDeadlock(p) ==
  /\ Deadlocked(p)
  /\ Reset(p)
  /\ UNCHANGED <<committed, faults>>

\* A crash, a lost connection, or an error of a statement.
Abort(p) ==
  /\ pc[p] # "idle" /\ faults < MaxFaults
  /\ faults' = faults + 1
  /\ Reset(p)
  /\ UNCHANGED committed

Start(p) == RequestTranslation(p) \/ RecordView(p) \/ ProcessDocument(p) \/ SelectPending(p)
Statement(p) ==
  \/ SelectNumber(p) \/ InsertVersion(p) \/ InsertConflicts(p) \/ QueueEnrichment(p)
  \/ CountViews(p) \/ SelectExisting(p)
  \/ WriteIndexed(p) \/ FindUnfinished(p) \/ CompleteVersion(p)
  \/ StartVersion(p) \/ TranslateVersion(p) \/ FailVersion(p)
  \/ EnrichLegacy(p) \/ FailLegacy(p)
  \/ Commit(p)

Next ==
  \E p \in Processes : Start(p) \/ Statement(p) \/ AbortDeadlock(p) \/ Abort(p)
Spec == Init /\ [][Next]_vars

\* The database runs a statement that is not waiting and hands a lock to the
\* transactions queued for it before later ones (strong fairness); its
\* deadlock detector runs after deadlock_timeout.
FairSpec == Spec /\ \A p \in Processes : SF_vars(Statement(p)) /\ WF_vars(AbortDeadlock(p))

-----------------------------------------------------------------------------
\* The committed version numbers of the document are 1, 2, ... without a
\* duplicate or a gap: MAX + 1 is read before the insert, by four writers, and
\* only the unique constraint and the wait behind it keep them apart.
NumbersDense ==
  /\ \A i, j \in Rows(versions) : i # j => versions[i].number # versions[j].number
  /\ Numbers(versions) = 1..Cardinality(Rows(versions))

\* A document listed by GET /admin/enrichment-queue (pending_high) has a
\* requested version that waits for a translation or whose translation failed:
\* it is never one whose requests have all been completed.
QueuedHasRequest ==
  quality = "pending_high" =>
    \E i \in Rows(versions) : /\ versions[i].type # "ingestion"
                              /\ versions[i].status # "available"

\* Once the preview shows a translation it never falls back to the original,
\* whichever transaction of a request, a worker or a failure commits next.
TranslationStaysShown == [][Snippet # None => Snippet' # None]_vars

\* Every transaction of a request or a pipeline worker ends: the request that
\* holds a version number and wants the document row and the worker that holds
\* the row and wants the number do not wait for each other for ever.
TransactionsEnd == \A p \in Requesters \cup Runners : pc[p] # "idle" ~> pc[p] = "idle"

\* docs/implementation/phase-05c-translation-versions.md:103 promises that
\* requests are deduplicated while one is pending or running.
OneManualPending ==
  \A i, j \in Unfinished(versions) :
    versions[i].type = "manual" /\ versions[j].type = "manual" => i = j
=============================================================================
