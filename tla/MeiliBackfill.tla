--------------------------- MODULE MeiliBackfill ---------------------------
(***************************************************************************)
(* The rollout of a new Meilisearch index: the backfill command fills the  *)
(* shadow index from the database, the indexes are swapped, the old one is *)
(* dropped.  Meanwhile pipeline workers index documents into the live      *)
(* index.  Meilisearch queues every write as a task, which names its index *)
(* and is processed in order; nobody but the caller of wait_for_task looks *)
(* at the outcome of a task.                                               *)
(***************************************************************************)
EXTENDS Integers, Sequences, FiniteSets

CONSTANTS
  Docs,       \* document ids, numbers since the command orders by id
  Texts,      \* translated texts: the sequences of the checksums of their chunks
  Groups,
  Workers,    \* pipeline workers
  PageSize, BatchSize,
  MaxRuns, MaxIngests, MaxFaults,  \* bounds on runs, documents ingested, failures
  None

ASSUME DocsAssumption == Docs \subseteq Nat /\ IsFiniteSet(Docs)
ASSUME SizesAssumption ==
  /\ PageSize \in Nat \ {0} /\ BatchSize \in Nat \ {0}
  /\ MaxRuns \in Nat /\ MaxIngests \in Nat /\ MaxFaults \in Nat

VARIABLES
  docs,      \* per document, its status and the text of its latest available version
  acl,       \* per document, the groups its source is granted to
  index,     \* the records of the live and of the shadow index
  tasks,     \* Meilisearch's queue
  stage,     \* how far the rollout has got
  pc,        \* the step the backfill command takes next
  offset, page,  \* its OFFSET, and the rows it has still to process
  text, groups,  \* what it has read for the first of them
  outbox,    \* the records it has still to send
  failed,    \* whether a document has failed in this run
  ingest,    \* per worker, the document it is processing, or None
  \* What has happened, for the properties:
  touched,   \* documents processed, or records lost, since the run began, and
             \* those it began with an outdated record of in the queue
  regranted, \* documents whose groups have changed since the run began
  leftover,  \* documents it began with a record of in or on its way to the shadow
             \* index that has other groups or a chunk they no longer have
  shifted,   \* whether a document has left the status indexed since the run began
  runs, ingests, faults

command == <<pc, offset, page, text, groups, outbox, failed, runs>>
database == <<docs, acl>>
meili == <<index, tasks, stage>>
history == <<touched, regranted, leftover, shifted>>
bvars == <<command, database, meili, ingest, history, ingests, faults>>

Init ==
  /\ docs \in [Docs -> {[status |-> "pending", text |-> None]}
                         \cup {[status |-> "indexed", text |-> t] : t \in Texts \cup {None}}]
  /\ acl \in [Docs -> SUBSET Groups]
  /\ index = [live |-> {}, shadow |-> {}] /\ tasks = <<>> /\ stage = "populate"
  /\ pc = "idle" /\ offset = 0 /\ page = {} /\ text = None /\ groups = {}
  /\ outbox = {} /\ failed = FALSE
  /\ ingest = [w \in Workers |-> None]
  /\ touched = {} /\ regranted = {} /\ leftover = {} /\ shifted = FALSE
  /\ runs = 0 /\ ingests = 0 /\ faults = 0

Fault == faults < MaxFaults /\ faults' = faults + 1

\* SearchChunkRecord.from_parts, which refuses a record without a group.
Records(d, t, gs) == {[doc |-> d, chunk |-> i, checksum |-> t[i], groups |-> gs] : i \in DOMAIN t}

-----------------------------------------------------------------------------
(* Meilisearch.                                                            *)

Send(task) == tasks' = Append(tasks, task)

\* add_documents replaces the records with the same primary key.
Added(old, new) ==
  {r \in old : \A n \in new : <<n.doc, n.chunk>> # <<r.doc, r.chunk>>} \cup new

ProcessTask ==
  LET task == Head(tasks)
  IN /\ tasks # <<>>
     /\ tasks' = Tail(tasks)
     /\ CASE task.kind = "add" ->
               /\ index' = [index EXCEPT ![task.index] = Added(@, task.records)]
               /\ UNCHANGED stage
          [] task.kind = "swap" ->
               /\ index' = [live |-> index.shadow, shadow |-> index.live]
               /\ stage' = "swapped"
          [] task.kind = "drop" ->
               /\ index' = [index EXCEPT !.shadow = {}]
               /\ UNCHANGED stage
     /\ UNCHANGED <<command, database, ingest, history, ingests, faults>>

\* A failed addition goes unnoticed; wait_for_task reports a failed swap.
TaskFails ==
  LET task == Head(tasks)
  IN /\ tasks # <<>> /\ Fault
     /\ tasks' = Tail(tasks)
     /\ touched' = touched \cup {r.doc : r \in task.records}
     /\ stage' = IF task.kind = "swap" THEN "populate" ELSE stage
     /\ UNCHANGED <<index, command, database, ingest, regranted, leftover, shifted, ingests>>

\* swap_indexes, after a run that exits with 0.
RequestSwap ==
  /\ stage = "populate" /\ pc = "done" /\ ~failed
  /\ Send([kind |-> "swap", records |-> {}])
  /\ stage' = "swapping"
  /\ UNCHANGED <<index, command, database, ingest, history, ingests, faults>>

\* drop_shadow_index, after wait_for_task.
RequestDrop ==
  /\ stage = "swapped"
  /\ Send([kind |-> "drop", records |-> {}])
  /\ stage' = "dropped"
  /\ UNCHANGED <<index, command, database, ingest, history, ingests, faults>>

-----------------------------------------------------------------------------
(* The backfill command.                                                   *)

others == <<database, index, stage, ingest, ingests>>

\* Records an earlier run has queued for the shadow index.
Queued ==
  UNION {tasks[k].records :
           k \in {l \in DOMAIN tasks : tasks[l].kind = "add" /\ tasks[l].index = "shadow"}}

\* Documents an earlier run has queued records of that are no longer theirs.
Outdated ==
  {d \in Docs : \E r \in Queued :
     /\ r.doc = d /\ docs[d].text # None /\ r.chunk \in DOMAIN docs[d].text
     /\ r.checksum # docs[d].text[r.chunk]}

\* A record as the document would have it now, but for its text.
Fits(r) ==
  /\ docs[r.doc].text # None /\ r.chunk \in DOMAIN docs[r.doc].text
  /\ r.groups = acl[r.doc]

\* Documents earlier runs have sent records of that do not fit any more.
Leftover == {d \in Docs : \E r \in index.shadow \cup Queued : r.doc = d /\ ~Fits(r)}

StartRun ==
  /\ pc \in {"idle", "done"} /\ stage = "populate" /\ runs < MaxRuns
  /\ pc' = "fetch" /\ offset' = 0 /\ failed' = FALSE /\ runs' = runs + 1
  /\ touched' = Outdated /\ shifted' = FALSE
  /\ regranted' = {} /\ leftover' = Leftover
  /\ UNCHANGED <<others, tasks, page, text, groups, outbox, faults>>

\* SELECT ... WHERE status = 'indexed' ORDER BY id LIMIT PageSize OFFSET offset
IndexedPage ==
  LET all == {d \in Docs : docs[d].status = "indexed"}
  IN {d \in all : Cardinality({e \in all : e <= d}) \in offset + 1 .. offset + PageSize}

FetchPage ==
  /\ pc = "fetch"
  /\ page' = IndexedPage
  /\ pc' = IF IndexedPage = {} THEN "done" ELSE "text"
  /\ UNCHANGED <<others, tasks, offset, text, groups, outbox, failed, runs, history, faults>>

\* A mutant: the offset is not advanced.
NextPageSame ==
  /\ pc = "text" /\ page = {}
  /\ pc' = "fetch"
  /\ UNCHANGED <<others, tasks, offset, page, text, groups, outbox, failed, runs, history, faults>>

NextPage ==
  /\ pc = "text" /\ page = {}
  /\ offset' = offset + PageSize
  /\ pc' = "fetch"
  /\ UNCHANGED <<others, tasks, page, text, groups, outbox, failed, runs, history, faults>>

First == CHOOSE d \in page : \A e \in page : d <= e

NextDocument ==
  /\ page' = page \ {First} /\ pc' = "text"
  /\ text' = None /\ groups' = {} /\ outbox' = {}
  /\ UNCHANGED <<others, offset, runs, history>>

\* The exception is logged and counted.
DocumentFails == NextDocument /\ failed' = TRUE /\ UNCHANGED tasks

\* _fetch_translated_text: a document without an available version is no failure.
ReadText ==
  /\ pc = "text" /\ page # {}
  /\ IF docs[First].text = None
     THEN NextDocument /\ UNCHANGED <<tasks, failed, faults>>
     ELSE /\ text' = docs[First].text
          /\ pc' = "groups"
          /\ UNCHANGED <<others, tasks, offset, page, groups, outbox, failed, runs, history, faults>>

ReadGroups ==
  /\ pc = "groups"
  /\ IF acl[First] = {}
     THEN DocumentFails /\ UNCHANGED faults
     ELSE /\ groups' = acl[First]
          /\ pc' = "compare"
          /\ UNCHANGED <<others, tasks, offset, page, text, outbox, failed, runs, history, faults>>

\* A mutant: the checksums are those of the live index.
ExistingInLive(d, i, sum) == \E r \in index.live : r.doc = d /\ r.chunk = i /\ r.checksum = sum

\* existing_chunk_checksums(shadow=True): tasks still queued are not seen.
Existing(d, i, sum) == \E r \in index.shadow : r.doc = d /\ r.chunk = i /\ r.checksum = sum

Compare ==
  /\ pc = "compare"
  /\ outbox' = {r \in Records(First, text, groups) : ~Existing(r.doc, r.chunk, r.checksum)}
  /\ pc' = "send"
  /\ UNCHANGED <<others, tasks, offset, page, text, groups, failed, runs, history, faults>>

SendBatch ==
  /\ pc = "send" /\ outbox # {}
  /\ LET batch == {r \in outbox : Cardinality({q \in outbox : q.chunk < r.chunk}) < BatchSize}
     IN /\ Send([kind |-> "add", index |-> "shadow", records |-> batch])
        /\ outbox' = outbox \ batch
  /\ UNCHANGED <<others, pc, offset, page, text, groups, failed, runs, history, faults>>

DocumentSent ==
  /\ pc = "send" /\ outbox = {}
  /\ NextDocument /\ UNCHANGED <<tasks, failed, faults>>

\* PostgreSQL or Meilisearch does not answer for this document.
StatementFails == pc \in {"groups", "compare", "send"} /\ Fault /\ DocumentFails

\* The command is stopped, or fetching a page fails.
StopRun ==
  /\ pc \notin {"idle", "done"} /\ Fault
  /\ pc' = "idle" /\ page' = {} /\ text' = None /\ groups' = {} /\ outbox' = {}
  /\ UNCHANGED <<others, tasks, offset, failed, runs, history>>

-----------------------------------------------------------------------------
(* The pipeline and the administrators.                                    *)

Touch(d) == touched' = touched \cup {d}

BeginIngest(w, d, t) ==
  /\ ingest[w] = None /\ ingests < MaxIngests
  /\ ingests' = ingests + 1
  /\ ingest' = [ingest EXCEPT ![w] = [doc |-> d, text |-> t, groups |-> acl[d], sent |-> FALSE]]
  /\ UNCHANGED <<command, database, meili, history, faults>>

\* index_batch into the live index; without groups no record is valid, and an
\* error is logged and no more.
SendLive(w) ==
  LET job == ingest[w]
  IN /\ job # None /\ ~job.sent
     /\ \/ job.groups # {} /\ UNCHANGED faults
           /\ Send([kind |-> "add", index |-> "live", records |-> Records(job.doc, job.text, job.groups)])
        \/ job.groups = {} /\ UNCHANGED <<tasks, faults>>
        \/ Fault /\ UNCHANGED tasks
     /\ Touch(job.doc)
     /\ ingest' = [ingest EXCEPT ![w].sent = TRUE]
     /\ UNCHANGED <<command, database, index, stage, regranted, leftover, shifted, ingests>>

\* The document is indexed, with a new available version of its translation.
CommitIngest(w) ==
  LET job == ingest[w]
  IN /\ job # None /\ job.sent
     /\ docs' = [docs EXCEPT ![job.doc] = [status |-> "indexed", text |-> job.text]]
     /\ Touch(job.doc)
     /\ ingest' = [ingest EXCEPT ![w] = None]
     /\ UNCHANGED <<command, acl, meili, regranted, leftover, shifted, ingests, faults>>

\* process_document fails: the document leaves the pages of the command.
FailIngest(w) ==
  LET job == ingest[w]
  IN /\ job # None /\ Fault
     /\ docs' = [docs EXCEPT ![job.doc].status = "failed"]
     /\ shifted' = (shifted \/ docs[job.doc].status = "indexed")
     /\ Touch(job.doc)
     /\ ingest' = [ingest EXCEPT ![w] = None]
     /\ UNCHANGED <<command, acl, meili, regranted, leftover, ingests>>

\* A group is granted the document's source, or no longer is.
Regrant(d, g) ==
  /\ ingests < MaxIngests /\ ingests' = ingests + 1
  /\ acl' = [acl EXCEPT ![d] = IF g \in @ THEN @ \ {g} ELSE @ \cup {g}]
  /\ regranted' = regranted \cup {d}
  /\ UNCHANGED <<command, docs, meili, ingest, touched, leftover, shifted, faults>>

-----------------------------------------------------------------------------
CommandStep ==
  \/ FetchPage \/ NextPage \/ ReadText \/ ReadGroups \/ Compare \/ SendBatch \/ DocumentSent
Next ==
  \/ StartRun \/ CommandStep \/ StatementFails \/ StopRun
  \/ ProcessTask \/ TaskFails \/ RequestSwap \/ RequestDrop
  \/ \E w \in Workers :
       \/ \E d \in Docs, t \in Texts : BeginIngest(w, d, t)
       \/ SendLive(w) \/ CommitIngest(w) \/ FailIngest(w)
  \/ \E d \in Docs, g \in Groups : Regrant(d, g)
Spec == Init /\ [][Next]_bvars

\* The command runs in a process of its own.
FairSpec == Spec /\ WF_bvars(CommandStep)

-----------------------------------------------------------------------------
\* The documents a run has to bring to the new index.
ToBring == {d \in Docs \ touched : docs[d].status = "indexed" /\ docs[d].text # None}

AllChunksLive(d) ==
  \A i \in DOMAIN docs[d].text :
    \E r \in index.live : r.doc = d /\ r.chunk = i /\ r.checksum = docs[d].text[i]
NothingElseLive(d) == \A r \in index.live : r.doc = d => Fits(r)

\* After the swap that a run without a failed document allows, the live index
\* has every chunk of every indexed document, except documents that were processed
\* or whose records were lost since the run began, or that it compared while an
\* outdated record of them was queued, and unless a document left the status
\* indexed meanwhile.  It has no other chunk of these documents and no record
\* with other groups than their source's, except of documents whose groups have
\* changed since the run began, or of which an earlier run had left such a record.
CompleteAfterSwap ==
  stage \in {"swapped", "dropped"} /\ ~shifted =>
    \A d \in ToBring :
      AllChunksLive(d) /\ (d \in regranted \cup leftover \/ NothingElseLive(d))

\* The command calls itself idempotent and safe to run again; it neither removes a
\* chunk that an earlier run has sent nor corrects its groups.
SafeToRerun ==
  stage \in {"swapped", "dropped"} /\ ~shifted =>
    \A d \in ToBring \ regranted : NothingElseLive(d)

\* A run ends, though documents become indexed and fail while it pages.
RunEnds == pc = "fetch" ~> pc \in {"idle", "done"}
=============================================================================
