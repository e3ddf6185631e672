--------------------------- MODULE PipelineIndexing ---------------------------
(***************************************************************************)
(* PipelineQueue with what a job does to the document: its status row (in  *)
(* the worker's transaction), the Elasticsearch document and the Qdrant    *)
(* points (outside any transaction).  Deployed workers only, pipeline and  *)
(* vector.                                                                 *)
(*                                                                         *)
(* The pipeline worker runs process_document for every job it claims, also *)
(* for the vector jobs.  A worker whose transaction has been aborted goes  *)
(* on writing to the search services until its next SQL statement.  The    *)
(* reaper is left out: with these workers nobody ever sees a running job   *)
(* (RunningNeverCommitted), so it finds none.                              *)
(*                                                                         *)
(* Documents have text.  Some carry attachments (e-mails, archives): the   *)
(* last stage of process_document creates a child document for each and    *)
(* processes it on the spot.  The children have no content hash, so a      *)
(* second run of the document finds the child's version family, and what   *)
(* it then does to the family is an error on PostgreSQL.  The stage logs   *)
(* the error and goes on, but the transaction of the whole job is lost.    *)
(***************************************************************************)
EXTENDS PipelineQueue

CONSTANT VectorOutage   \* whether the encoder or Qdrant may be down

ASSUME OutageAssumption == VectorOutage \in BOOLEAN

VARIABLES
  status,   \* the committed documents.status
  swrites,  \* per worker, the documents.status its transaction has written
  es,       \* documents with an Elasticsearch entry
  points,   \* per document, the families of chunks in the Qdrant collection
  stage,    \* per worker, how far it is with the document
  attached, \* documents that carry attachments
  children, \* per document, the committed status of its child document
  created   \* per worker, the children its transaction has created

kids  == <<attached, children, created>>
ivars == <<vars, status, swrites, es, points, stage, kids>>

DocStatus == {"absent", "pending", "indexed", "failed"}

ASSUME NoRowStatusAssumption == NoRow \notin DocStatus

Stages    == {"extract", "text", "delete", "upsert", "finish"}

\* Chunk ids name the writer: "<doc>-orig-<n>" and "<doc>-trans-<n>" by
\* process_document, "<doc>-<n>" by the vector worker.
Families == {"orig", "trans", "plain"}
Written(w) == IF w \in VectorWorkers THEN {"plain"} ELSE {"orig", "trans"}

NoStatus == [d \in Docs |-> NoRow]

ITypeOK ==
  /\ TypeOK
  /\ status \in [Docs -> DocStatus]
  /\ swrites \in [Workers -> [Docs -> DocStatus \cup {NoRow}]]
  /\ es \subseteq Docs
  /\ points \in [Docs -> SUBSET Families]
  /\ stage \in [Workers -> Stages]
  /\ attached \subseteq Docs
  /\ children \in [Docs -> DocStatus]
  /\ created \in [Workers -> [Docs -> DocStatus \cup {NoRow}]]

IInit ==
  /\ Init
  /\ status = [d \in Docs |-> "absent"]
  /\ swrites = [w \in Workers |-> NoStatus]
  /\ es = {}
  /\ points = [d \in Docs |-> {}]
  /\ stage = [w \in Workers |-> "extract"]
  /\ attached \in SUBSET Docs
  /\ children = [d \in Docs |-> "absent"]
  /\ created = [w \in Workers |-> NoStatus]

-----------------------------------------------------------------------------
(* The held row's document survives in jobs when an abort drops the write. *)
DocOf(w) == jobs[held[w]].doc

Working(w) == held[w] # NoJob /\ pc[w] \in {"work", "aborted"}
AtStage(w, s) == Working(w) /\ stage[w] = s
Goto(w, s) == stage' = [stage EXCEPT ![w] = s]

\* UPDATE documents waits for another transaction's row lock.
StatusUnlocked(w, d) == \A v \in Workers \ {w} : swrites[v][d] = NoRow

\* Mutant of WriteStatus: a status no reader knows.
WriteStatusError(w, s) ==
  /\ StatusUnlocked(w, DocOf(w))
  /\ swrites' = [swrites EXCEPT ![w][DocOf(w)] = IF s = "failed" THEN "error" ELSE s]

WriteStatus(w, s) ==
  /\ StatusUnlocked(w, DocOf(w))
  /\ swrites' = [swrites EXCEPT ![w][DocOf(w)] = s]

\* sync_now inserts the document, status 'pending', with its first job.
ISync(d) ==
  /\ status[d] = "absent"
  /\ Enqueue(d, "process_document")
  /\ status' = [status EXCEPT ![d] = "pending"]
  /\ UNCHANGED <<swrites, es, points, stage, kids>>

IClaim(w) ==
  /\ Claim(w)
  /\ Goto(w, "extract")
  /\ UNCHANGED <<status, swrites, es, points, kids>>

-----------------------------------------------------------------------------
(* process_document and the body of run_vector_once.                       *)

\* Mutant of Extracted: the search service's entry is skipped.
ExtractedNoText(w) ==
  /\ AtStage(w, "extract")
  /\ Goto(w, "delete")
  /\ UNCHANGED <<vars, status, swrites, es, points, kids>>

\* Text read (and translated, or encoded); on to the first index it writes.
Extracted(w) ==
  /\ AtStage(w, "extract")
  /\ Goto(w, IF w \in VectorWorkers THEN "delete" ELSE "text")
  /\ UNCHANGED <<vars, status, swrites, es, points, kids>>

TextIndexed(w) ==
  /\ AtStage(w, "text")
  /\ es' = es \cup {DocOf(w)}
  /\ Goto(w, "delete")
  /\ UNCHANGED <<vars, status, swrites, points, kids>>

\* Mutant of PointsDeleted: delete_existing left at its default.
PointsKept(w) ==
  /\ AtStage(w, "delete")
  /\ Goto(w, "upsert")
  /\ UNCHANGED <<vars, status, swrites, es, points, kids>>

\* upsert_chunks(delete_existing=True): a delete and then an upsert.
PointsDeleted(w) ==
  /\ AtStage(w, "delete")
  /\ points' = [points EXCEPT ![DocOf(w)] = {}]
  /\ Goto(w, "upsert")
  /\ UNCHANGED <<vars, status, swrites, es, kids>>

PointsUpserted(w) ==
  /\ AtStage(w, "upsert")
  /\ points' = [points EXCEPT ![DocOf(w)] = @ \cup Written(w)]
  /\ Goto(w, "finish")
  /\ UNCHANGED <<vars, status, swrites, es, kids>>

\* The encoder or Qdrant raised: process_document logs it and goes on.
VectorsSkipped(w) ==
  /\ VectorOutage
  /\ AtStage(w, "delete") \/ AtStage(w, "upsert")
  /\ w \in PipelineWorkers
  /\ Goto(w, "finish")
  /\ UNCHANGED <<vars, status, swrites, es, points, kids>>

\* Mutant of ProcessFails: the exception is raised without update_status.
ProcessFailsSilently(w) ==
  /\ stage[w] \in {"extract", "text"}
  /\ w \in PipelineWorkers
  /\ WorkFails(w)
  /\ UNCHANGED <<status, swrites, es, points, stage, kids>>

\* process_document marks the document failed and re-raises.
ProcessFails(w) ==
  /\ stage[w] \in {"extract", "text"}
  /\ w \in PipelineWorkers
  /\ WorkFails(w)
  /\ WriteStatus(w, "failed")
  /\ UNCHANGED <<status, es, points, stage, kids>>

\* The vector worker leaves the document's status alone.
VectorFails(w) ==
  /\ stage[w] = "extract" \/ (VectorOutage /\ stage[w] \in {"delete", "upsert"})
  /\ w \in VectorWorkers
  /\ WorkFails(w)
  /\ UNCHANGED <<status, swrites, es, points, stage, kids>>

\* update_indexed and mark_succeeded; the vector worker has only the latter.
Finished(w) ==
  /\ stage[w] = "finish"
  /\ WorkSucceeds(w)
  /\ w \in PipelineWorkers => DocOf(w) \notin attached
  /\ IF w \in PipelineWorkers THEN WriteStatus(w, "indexed") ELSE UNCHANGED swrites
  /\ UNCHANGED <<status, es, points, stage, kids>>

\* A document with attachments, run for the first time.
MeetsAttachments(w) ==
  /\ stage[w] = "finish"
  /\ pc[w] = "work"
  /\ w \in PipelineWorkers
  /\ DocOf(w) \in attached

\* Mutant of FinishedWithChildren: the children are committed when created.
ChildrenCommitted(w) ==
  /\ MeetsAttachments(w)
  /\ children[DocOf(w)] = "absent"
  /\ WorkSucceeds(w)
  /\ WriteStatus(w, "indexed")
  /\ children' = [children EXCEPT ![DocOf(w)] = "indexed"]
  /\ UNCHANGED <<status, es, points, stage, attached, created>>

\* The child is created and indexed; when that fails the exception is logged
\* and the child stays as it was inserted.
FinishedWithChildren(w) ==
  /\ MeetsAttachments(w)
  /\ children[DocOf(w)] = "absent"
  /\ WorkSucceeds(w)
  /\ WriteStatus(w, "indexed")
  /\ \E s \in {"pending", "indexed"} : created' = [created EXCEPT ![w][DocOf(w)] = s]
  /\ UNCHANGED <<status, es, points, stage, attached, children>>

\* Run again: "is_latest = 0 ... AND is_latest = 1" aborts the transaction.
ChildrenClash(w) ==
  /\ MeetsAttachments(w)
  /\ children[DocOf(w)] # "absent"
  /\ writes' = [writes EXCEPT ![w] = NoWrites]
  /\ pc' = [pc EXCEPT ![w] = "aborted"]
  /\ swrites' = [swrites EXCEPT ![w] = NoStatus]
  /\ UNCHANGED <<jobs, held, faults, status, es, points, stage, kids>>

\* What an aborted or dead transaction has written to the documents is gone.
Forgotten(w) ==
  /\ swrites' = [swrites EXCEPT ![w] = NoStatus]
  /\ created' = [created EXCEPT ![w] = NoStatus]

IEnqueue(w) ==
  /\ EnqueueSelect(w) \/ EnqueueInsert(w)
  /\ IF pc'[w] = "aborted" THEN Forgotten(w) ELSE UNCHANGED <<swrites, created>>
  /\ UNCHANGED <<status, es, points, stage, attached, children>>

Merged(old, new) == [d \in Docs |-> IF new[d] # NoRow THEN new[d] ELSE old[d]]

ICommit(w) ==
  /\ Commit(w)
  /\ status' = Merged(status, swrites[w])
  /\ children' = Merged(children, created[w])
  /\ Forgotten(w)
  /\ UNCHANGED <<es, points, stage, attached>>

IRollback(w) == Rollback(w) /\ UNCHANGED <<status, swrites, es, points, stage, kids>>

IFault(w) ==
  /\ DatabaseError(w) \/ Crash(w)
  /\ Forgotten(w)
  /\ UNCHANGED <<status, es, points, stage, attached, children>>

ITime(j) ==
  /\ BackoffElapses(j)
  /\ UNCHANGED <<status, swrites, es, points, stage, kids>>

-----------------------------------------------------------------------------

IWorkerStep(w) ==
  \/ IClaim(w)
  \/ Extracted(w) \/ TextIndexed(w) \/ PointsDeleted(w) \/ PointsUpserted(w)
  \/ VectorsSkipped(w) \/ ProcessFails(w) \/ VectorFails(w) \/ Finished(w)
  \/ FinishedWithChildren(w) \/ ChildrenClash(w)
  \/ IEnqueue(w) \/ ICommit(w) \/ IRollback(w)

INext ==
  \/ \E d \in Docs : ISync(d)
  \/ \E w \in Workers : IWorkerStep(w) \/ IFault(w)
  \/ \E j \in JobIds : ITime(j)

ISpec == IInit /\ [][INext]_ivars

IFairSpec == /\ ISpec
             /\ \A w \in Workers : WF_ivars(IWorkerStep(w))
             /\ \A j \in JobIds : WF_ivars(ITime(j))

-----------------------------------------------------------------------------
(* Properties.                                                             *)

\* A document the API reports as indexed can be found by text search, also
\* after crashes and aborted transactions between the two writes.
IndexedIsSearchable == \A d \in Docs : status[d] = "indexed" => d \in es

\* A document given up by its process_document job is reported failed, and a
\* document reported pending still has a queued job: nothing is lost silently.
StatusExplained ==
  \A d \in Docs :
    /\ status[d] = "pending" =>
         \E j \in JobIds : ActiveFor(jobs[j], d, "process_document")
    /\ \A j \in JobIds :
         /\ jobs[j] # NoRow
         /\ jobs[j].doc = d
         /\ jobs[j].type = "process_document"
         => /\ jobs[j].status = "dead_letter" => status[d] = "failed"
            /\ jobs[j].status = "succeeded" => d \in es

\* While no transaction has been aborted under a worker, the points of a document
\* come from one writer: the delete before every upsert and the order of the two
\* jobs keep the families apart.  A worker that goes on after an abort can upsert
\* behind another worker's delete, and leave points of both.
PointsFromOneWriter ==
  faults = 0 => \A d \in Docs : ~ ("plain" \in points[d] /\ "trans" \in points[d])

ProcessedDoc(d) == \E j \in JobIds : /\ jobs[j] # NoRow
                                    /\ jobs[j].doc = d
                                    /\ jobs[j].type = "process_document"
                                    /\ jobs[j].status = "succeeded"

\* The children of a document's attachments are committed with the success of its
\* process_document job and never without it: a crash, a retry or a second
\* worker on the job leaves neither half.
ChildrenWithSuccess ==
  \A d \in attached : children[d] # "absent" <=> ProcessedDoc(d)

\* Every ingested document comes to rest as indexed or failed.
DocumentsSettle ==
  \A d \in Docs : status[d] = "pending" ~> status[d] \in {"indexed", "failed"}

-----------------------------------------------------------------------------
(* What the code's comments promise and the workers together do not keep.  *)

\* worker.py: vector failures "do not turn a text-indexed document into a
\* failed document".
IndexedStaysIndexed ==
  [][\A d \in Docs : status[d] = "indexed" => status'[d] # "failed"]_ivars

\* worker.py: "Both original and translated text are chunked and indexed so
\* that vector search can match in either language."
AllDone(d) ==
  /\ \E j \in JobIds : jobs[j] # NoRow /\ jobs[j].doc = d
  /\ \A j \in JobIds : jobs[j] # NoRow /\ jobs[j].doc = d => jobs[j].status = "succeeded"

BothLanguages ==
  \A d \in Docs : AllDone(d) /\ points[d] # {} => "trans" \in points[d]

\* runner.py: an iteration marks "the job as succeeded, retry, or dead-letter
\* based on outcome", so a job that fails on every run is finished some day.
EveryJobFinishes ==
  \A j \in JobIds :
    jobs[j] # NoRow ~> (jobs[j] # NoRow /\ jobs[j].status \in Terminal)
=============================================================================
