---------------------------- MODULE PipelineQueue ----------------------------
(***************************************************************************)
(* The durable job queue of the ingestion pipeline (pipeline_jobs) and the *)
(* worker processes that drain it, at the grain of the SQL statements they *)
(* run against PostgreSQL in READ COMMITTED.                               *)
(*                                                                         *)
(* A transaction is an overlay: writes[w][j] is the version of row j that  *)
(* worker w has written and not committed, and a written row is a locked   *)
(* row.  Commit copies the overlay into jobs, rollback drops it.  The      *)
(* pipeline and vector workers run one transaction per loop iteration; the *)
(* translation and index workers run their whole loop in one transaction.  *)
(*                                                                         *)
(* A job id stands for the row's uuid and for its created_at: ids are      *)
(* handed out in increasing order, which is the order claim_next uses      *)
(* (priority is 0 for every job the program enqueues).                     *)
(***************************************************************************)
EXTENDS Integers, FiniteSets

CONSTANTS
  Docs,               \* documents, each found by a sync of its own source
  JobIds,             \* ids of pipeline_jobs rows, ordered by created_at
  PipelineWorkers,    \* services.pipeline.runner processes
  VectorWorkers,      \* services.pipeline.vector_worker processes
  TranslationWorkers, \* services.pipeline.translation_worker processes
  IndexWorkers,       \* services.pipeline.index_worker processes
  SeedTypes,          \* job types enqueued from outside the workers
  MaxAttempts,        \* the max_attempts column (default 5)
  MaxFaults,          \* bound on crashes, database errors and interrupts
  NoRow,              \* the row does not exist / is not written
  NoJob               \* the worker holds no job

JobTypes == {"process_document", "vector_index_document",
             "translate_document", "index_document"}
Statuses == {"pending", "running", "retry", "succeeded", "dead_letter"}
Active   == {"pending", "running", "retry"}
Terminal == {"succeeded", "dead_letter"}

\* due: run_after <= now.  stale: locked_at is older than the reaper's cutoff.
Job == [doc : Docs, type : JobTypes, status : Statuses, attempts : Nat,
        due : BOOLEAN, stale : BOOLEAN]

LongTx  == TranslationWorkers \cup IndexWorkers
ShortTx == PipelineWorkers \cup VectorWorkers
Workers == ShortTx \cup LongTx

ASSUME JobIdsAssumption == JobIds \subseteq Nat
ASSUME AttemptsAssumption == MaxAttempts \in Nat \ {0}
ASSUME FaultsAssumption == MaxFaults \in Nat
ASSUME SeedAssumption == SeedTypes \subseteq {"process_document", "translate_document"}
ASSUME NoRowAssumption == NoRow \notin Job
ASSUME NoJobAssumption == NoJob \notin JobIds
ASSUME KindsAssumption ==
  /\ PipelineWorkers \cap (VectorWorkers \cup LongTx) = {}
  /\ VectorWorkers \cap LongTx = {}
  /\ TranslationWorkers \cap IndexWorkers = {}

VARIABLES
  jobs,    \* the committed pipeline_jobs table
  writes,  \* per worker, the rows its open transaction has written
  pc,      \* per worker, the statement it runs next
  held,    \* per worker, the job returned by claim_next
  faults   \* crashes, database errors and interrupts so far

vars == <<jobs, writes, pc, held, faults>>

PC == {"loop", "claim", "work", "enqueue", "insert", "commit", "aborted", "stuck"}

NoWrites == [j \in JobIds |-> NoRow]

TypeOK ==
  /\ jobs \in [JobIds -> Job \cup {NoRow}]
  /\ writes \in [Workers -> [JobIds -> Job \cup {NoRow}]]
  /\ pc \in [Workers -> PC]
  /\ held \in [Workers -> JobIds \cup {NoJob}]
  /\ faults \in 0..MaxFaults

Init ==
  /\ jobs = [j \in JobIds |-> NoRow]
  /\ writes = [w \in Workers |-> NoWrites]
  /\ pc = [w \in Workers |-> "loop"]
  /\ held = [w \in Workers |-> NoJob]
  /\ faults = 0

-----------------------------------------------------------------------------
(* What a statement of a transaction sees: its own writes over the         *)
(* committed rows, and never another transaction's writes.                 *)

View(w) == [j \in JobIds |-> IF writes[w][j] # NoRow THEN writes[w][j] ELSE jobs[j]]

LockedByOther(w, j) == \E v \in Workers \ {w} : writes[v][j] # NoRow

ActiveFor(row, d, t) ==
  /\ row # NoRow
  /\ row.doc = d
  /\ row.type = t
  /\ row.status \in Active

Used == {j \in JobIds : jobs[j] # NoRow \/ \E w \in Workers : writes[w][j] # NoRow}
Later == {j \in JobIds : \A k \in Used : k < j}
NextId(j) == j \in Later /\ \A k \in Later : j <= k

NewJob(d, t) == [doc |-> d, type |-> t, status |-> "pending", attempts |-> 0,
                 due |-> TRUE, stale |-> FALSE]

-----------------------------------------------------------------------------
(* Producers.  sync_now creates the document and its process_document job  *)
(* in one transaction and enqueues only documents it has just created, so  *)
(* a document gets one job of a seed type.                                 *)

\* Mutant of Enqueue: the sync forgets which documents it has already queued.
EnqueueAgain(d, t) ==
  /\ t \in SeedTypes
  /\ \E j \in JobIds :
       /\ NextId(j)
       /\ jobs' = [jobs EXCEPT ![j] = NewJob(d, t)]
  /\ UNCHANGED <<writes, pc, held, faults>>

Enqueue(d, t) ==
  /\ t \in SeedTypes
  /\ \A j \in JobIds : jobs[j] # NoRow => <<jobs[j].doc, jobs[j].type>> # <<d, t>>
  /\ \E j \in JobIds :
       /\ NextId(j)
       /\ jobs' = [jobs EXCEPT ![j] = NewJob(d, t)]
  /\ UNCHANGED <<writes, pc, held, faults>>

-----------------------------------------------------------------------------
(* The worker loop.                                                        *)

\* The reaper at the top of the loop, in the transaction of the iteration.
\* It waits for the lock of every row it resets.
StaleFor(w) == {j \in JobIds : /\ View(w)[j] # NoRow
                               /\ View(w)[j].status = "running"
                               /\ View(w)[j].stale}

Reap(w) ==
  /\ pc[w] = "loop"
  /\ StaleFor(w) # {}
  /\ \A j \in StaleFor(w) : ~ LockedByOther(w, j)
  /\ writes' = [writes EXCEPT ![w] = [j \in JobIds |->
                  IF j \in StaleFor(w)
                  THEN [View(w)[j] EXCEPT !.status = "pending", !.stale = FALSE]
                  ELSE writes[w][j]]]
  /\ pc' = [pc EXCEPT ![w] = "claim"]
  /\ UNCHANGED <<jobs, held, faults>>

\* The job_types argument of claim_next: run_once passes none.
Claims(w) ==
  CASE w \in PipelineWorkers    -> JobTypes
    [] w \in VectorWorkers      -> {"vector_index_document"}
    [] w \in TranslationWorkers -> {"translate_document"}
    [] w \in IndexWorkers       -> {"index_document"}

\* A mutant: no SKIP LOCKED.
EligibleThoughLocked(w) == {j \in JobIds : /\ View(w)[j] # NoRow
                                           /\ View(w)[j].status \in {"pending", "retry"}
                                           /\ View(w)[j].due
                                           /\ View(w)[j].type \in Claims(w)}

Eligible(w) == {j \in JobIds : /\ View(w)[j] # NoRow
                               /\ View(w)[j].status \in {"pending", "retry"}
                               /\ View(w)[j].due
                               /\ View(w)[j].type \in Claims(w)
                               /\ ~ LockedByOther(w, j)}

\* A mutant: a status the table has no value for.
ClaimedAsProcessing(row) == [row EXCEPT !.status = "processing",
                                        !.attempts = row.attempts + 1]

Claimed(row) == [row EXCEPT !.status = "running", !.stale = FALSE,
                            !.attempts = row.attempts + 1]

\* Mutant of Claim: the claim is committed before the work starts.
ClaimCommitted(w) ==
  /\ pc[w] \in {"loop", "claim"}
  /\ \E j \in Eligible(w) :
       /\ \A k \in Eligible(w) : j <= k
       /\ writes' = [writes EXCEPT ![w][j] = Claimed(View(w)[j])]
       /\ jobs' = [jobs EXCEPT ![j] = Claimed(View(w)[j])]
       /\ held' = [held EXCEPT ![w] = j]
  /\ pc' = [pc EXCEPT ![w] = "work"]
  /\ UNCHANGED faults

Claim(w) ==
  /\ pc[w] \in {"loop", "claim"}
  /\ \E j \in Eligible(w) :
       /\ \A k \in Eligible(w) : j <= k
       /\ writes' = [writes EXCEPT ![w][j] = Claimed(View(w)[j])]
       /\ held' = [held EXCEPT ![w] = j]
  /\ pc' = [pc EXCEPT ![w] = "work"]
  /\ UNCHANGED <<jobs, faults>>

\* claim_next returns None: the short loops roll back, and the reap with it.
NothingToClaim(w) ==
  /\ pc[w] = "claim"
  /\ Eligible(w) = {}
  /\ writes' = [writes EXCEPT ![w] = IF w \in ShortTx THEN NoWrites ELSE @]
  /\ pc' = [pc EXCEPT ![w] = "loop"]
  /\ UNCHANGED <<jobs, held, faults>>

\* The job enqueued after a success; run_once adds one for its own type only.
FollowUp(w, t) ==
  CASE w \in PipelineWorkers /\ t = "process_document" -> {"vector_index_document"}
    [] w \in TranslationWorkers                        -> {"index_document"}
    [] w \in IndexWorkers                              -> {"vector_index_document"}
    [] OTHER                                           -> {}

\* Mutant of WorkSucceeds: the success is committed before the follow-up.
WorkSucceedsCommitting(w) ==
  /\ pc[w] = "work"
  /\ writes' = [writes EXCEPT ![w][held[w]].status = "succeeded"]
  /\ jobs' = [jobs EXCEPT ![held[w]] = writes'[w][held[w]]]
  /\ pc' = [pc EXCEPT ![w] = IF FollowUp(w, writes[w][held[w]].type) = {}
                             THEN "commit" ELSE "enqueue"]
  /\ UNCHANGED <<held, faults>>

WorkSucceeds(w) ==
  /\ pc[w] = "work"
  /\ writes' = [writes EXCEPT ![w][held[w]].status = "succeeded"]
  /\ pc' = [pc EXCEPT ![w] = IF FollowUp(w, writes[w][held[w]].type) = {}
                             THEN "commit" ELSE "enqueue"]
  /\ UNCHANGED <<jobs, held, faults>>

\* Mutant of Failed: one attempt too many.
FailedOffByOne(row) == IF row.attempts <= MaxAttempts
                       THEN [row EXCEPT !.status = "retry", !.due = FALSE]
                       ELSE [row EXCEPT !.status = "dead_letter"]

\* A service raised: mark_retry with a backoff, or mark_dead_letter.
Failed(row) == IF row.attempts < MaxAttempts
               THEN [row EXCEPT !.status = "retry", !.due = FALSE]
               ELSE [row EXCEPT !.status = "dead_letter"]

WorkFails(w) ==
  /\ pc[w] = "work"
  /\ writes' = [writes EXCEPT ![w][held[w]] = Failed(@)]
  /\ pc' = [pc EXCEPT ![w] = "commit"]
  /\ UNCHANGED <<jobs, held, faults>>

\* enqueue_document, first statement: an active job seen by this transaction
\* is returned instead of a new one.
EnqueueSelect(w) ==
  LET row == writes[w][held[w]] IN
  /\ pc[w] = "enqueue"
  /\ \E t \in FollowUp(w, row.type) :
       pc' = [pc EXCEPT ![w] =
                IF \E j \in JobIds : ActiveFor(View(w)[j], row.doc, t)
                THEN "commit" ELSE "insert"]
  /\ UNCHANGED <<jobs, writes, held, faults>>

\* Mutant of ConflictOpen: the insert does not wait for open transactions.
NeverConflicts(w, d, t) == FALSE

\* The INSERT and the partial unique index on active (document, type) rows:
\* it waits while another open transaction has touched a conflicting row.
ConflictOpen(w, d, t) ==
  \E j \in JobIds : /\ LockedByOther(w, j)
                    /\ \/ ActiveFor(jobs[j], d, t)
                       \/ \E v \in Workers \ {w} : ActiveFor(writes[v][j], d, t)

EnqueueInsert(w) ==
  LET row == writes[w][held[w]] IN
  /\ pc[w] = "insert"
  /\ \E t \in FollowUp(w, row.type) :
       /\ ~ ConflictOpen(w, row.doc, t)
       /\ IF \E j \in JobIds : ActiveFor(View(w)[j], row.doc, t)
          THEN \* IntegrityError: PostgreSQL aborts the transaction
               /\ writes' = [writes EXCEPT ![w] = NoWrites]
               /\ pc' = [pc EXCEPT ![w] = "aborted"]
          ELSE /\ \E j \in JobIds :
                    /\ NextId(j)
                    /\ writes' = [writes EXCEPT ![w][j] = NewJob(row.doc, t)]
               /\ pc' = [pc EXCEPT ![w] = "commit"]
  /\ UNCHANGED <<jobs, held, faults>>

\* The end of an iteration that ran a job.
Commit(w) ==
  /\ pc[w] = "commit"
  /\ w \in ShortTx
  /\ jobs' = View(w)
  /\ writes' = [writes EXCEPT ![w] = NoWrites]
  /\ pc' = [pc EXCEPT ![w] = "loop"]
  /\ held' = [held EXCEPT ![w] = NoJob]
  /\ UNCHANGED faults

\* The translation and index loops go on in the same transaction.
NextIteration(w) ==
  /\ pc[w] = "commit"
  /\ w \in LongTx
  /\ pc' = [pc EXCEPT ![w] = "loop"]
  /\ held' = [held EXCEPT ![w] = NoJob]
  /\ UNCHANGED <<jobs, writes, faults>>

-----------------------------------------------------------------------------
(* Faults.  A failed statement aborts the transaction: its writes are gone *)
(* and its row locks are free at once, while the worker may go on with the *)
(* document (the best-effort stages swallow exceptions) until it rolls     *)
(* back, or commits, which PostgreSQL turns into a rollback.               *)

DatabaseError(w) ==
  /\ faults < MaxFaults
  /\ pc[w] \notin {"aborted", "stuck"}
  /\ pc[w] = "loop" => w \in LongTx
  /\ writes' = [writes EXCEPT ![w] = NoWrites]
  /\ pc' = [pc EXCEPT ![w] = "aborted"]
  /\ faults' = faults + 1
  /\ UNCHANGED <<jobs, held>>

\* The long loops never roll back: every later statement raises again.
Rollback(w) ==
  /\ pc[w] = "aborted"
  /\ pc' = [pc EXCEPT ![w] = IF w \in ShortTx THEN "loop" ELSE "stuck"]
  /\ held' = [held EXCEPT ![w] = NoJob]
  /\ UNCHANGED <<jobs, writes, faults>>

\* Mutant of Crash: what the dying worker has written is committed.
CrashCommitting(w) ==
  /\ faults < MaxFaults
  /\ pc[w] # "loop" \/ writes[w] # NoWrites
  /\ jobs' = View(w)
  /\ writes' = [writes EXCEPT ![w] = NoWrites]
  /\ pc' = [pc EXCEPT ![w] = "loop"]
  /\ held' = [held EXCEPT ![w] = NoJob]
  /\ faults' = faults + 1

\* The process or its connection dies and the container is restarted; an
\* interrupted short loop closes its connection without a commit.
Crash(w) ==
  /\ faults < MaxFaults
  /\ pc[w] # "loop" \/ writes[w] # NoWrites
  /\ writes' = [writes EXCEPT ![w] = NoWrites]
  /\ pc' = [pc EXCEPT ![w] = "loop"]
  /\ held' = [held EXCEPT ![w] = NoJob]
  /\ faults' = faults + 1
  /\ UNCHANGED jobs

\* SIGINT ends a long loop between any two statements, and leaving the
\* "with engine.begin()" block commits what the loop has done so far.
Interrupt(w) ==
  /\ faults < MaxFaults
  /\ w \in LongTx
  /\ pc[w] \notin {"aborted", "stuck"}
  /\ pc[w] # "loop" \/ writes[w] # NoWrites
  /\ jobs' = View(w)
  /\ writes' = [writes EXCEPT ![w] = NoWrites]
  /\ pc' = [pc EXCEPT ![w] = "loop"]
  /\ held' = [held EXCEPT ![w] = NoJob]
  /\ faults' = faults + 1

-----------------------------------------------------------------------------
(* Time.                                                                   *)

\* run_after of a retry row passes, in the table or in a long transaction.
BackoffElapses(j) ==
  /\ \/ /\ jobs[j] # NoRow
        /\ ~ jobs[j].due
        /\ jobs' = [jobs EXCEPT ![j].due = TRUE]
        /\ UNCHANGED writes
     \/ \E w \in LongTx :
          /\ writes[w][j] # NoRow
          /\ ~ writes[w][j].due
          /\ writes' = [writes EXCEPT ![w][j].due = TRUE]
          /\ UNCHANGED jobs
  /\ UNCHANGED <<pc, held, faults>>

\* locked_at of a committed running row falls behind the reaper's cutoff.
LockAges(j) ==
  /\ jobs[j] # NoRow
  /\ jobs[j].status = "running"
  /\ ~ jobs[j].stale
  /\ jobs' = [jobs EXCEPT ![j].stale = TRUE]
  /\ UNCHANGED <<writes, pc, held, faults>>

-----------------------------------------------------------------------------

WorkerStep(w) ==
  \/ Reap(w) \/ Claim(w) \/ NothingToClaim(w)
  \/ WorkSucceeds(w) \/ WorkFails(w)
  \/ EnqueueSelect(w) \/ EnqueueInsert(w)
  \/ Commit(w) \/ NextIteration(w) \/ Rollback(w)

Fault(w) == DatabaseError(w) \/ Crash(w) \/ Interrupt(w)

Next ==
  \/ \E d \in Docs, t \in JobTypes : Enqueue(d, t)
  \/ \E w \in Workers : WorkerStep(w) \/ Fault(w)
  \/ \E j \in JobIds : BackoffElapses(j) \/ LockAges(j)

Spec == Init /\ [][Next]_vars

-----------------------------------------------------------------------------
(* Properties.                                                             *)

\* SKIP LOCKED: two workers work on the same job only when one of them has
\* already lost its transaction, so at most one of them can record a result.
OneLiveClaim ==
  \A v, w \in Workers :
    v # w /\ held[v] # NoJob /\ held[v] = held[w] =>
      pc[v] = "aborted" \/ pc[w] = "aborted"

\* The migration's partial unique index, under racing enqueues: never two
\* active committed jobs of one type for a document.
ActiveUnique ==
  \A j, k \in JobIds :
    j # k /\ jobs[j] # NoRow =>
      ~ (jobs[j].status \in Active /\ ActiveFor(jobs[k], jobs[j].doc, jobs[j].type))

\* With one transaction per iteration a crash between any two statements
\* leaves no abandoned claim: no other process ever sees "running".
RunningNeverCommitted ==
  \A j \in JobIds : jobs[j] # NoRow => jobs[j].status # "running"

\* Success of process_document and its vector job appear together, although
\* the failure of that enqueue is caught and logged in run_once.
SuccessHasFollowUp ==
  \A j \in JobIds :
    /\ jobs[j] # NoRow
    /\ jobs[j].type = "process_document"
    /\ jobs[j].status = "succeeded"
    => \E k \in JobIds : /\ jobs[k] # NoRow
                         /\ jobs[k].doc = jobs[j].doc
                         /\ jobs[k].type = "vector_index_document"

\* Retry accounting seen by the operator: a queued job has attempts left, a
\* dead-lettered one has used exactly max_attempts.
AttemptsAccount ==
  \A j \in JobIds : jobs[j] # NoRow =>
    CASE jobs[j].status = "pending"     -> jobs[j].attempts = 0
      [] jobs[j].status = "retry"       -> jobs[j].attempts \in 1..(MaxAttempts - 1)
      [] jobs[j].status = "dead_letter" -> jobs[j].attempts = MaxAttempts
      [] OTHER                          -> jobs[j].attempts \in 1..MaxAttempts
=============================================================================
