------------------------- MODULE PipelineQueueProofs -------------------------
(***************************************************************************)
(* Proofs about PipelineQueue, its history variable, its refinement of     *)
(* JobLifecycle and PipelineIndexing, for every set of documents, jobs and *)
(* workers and every bound.  The inductive invariant ties each worker's    *)
(* program counter to the rows its transaction has written (Shape) and     *)
(* says that a written row has one writer (Locks).                         *)
(***************************************************************************)
EXTENDS PipelineQueueRefinement, PipelineQueueHistory, PipelineIndexing, FiniteSetTheorems, TLAPS

Busy == {"work", "enqueue", "insert", "commit"}

Shape ==
  /\ \A w \in Workers : pc[w] \in {"aborted", "stuck"} => writes[w] = NoWrites
  /\ \A w \in Workers : pc[w] \in Busy =>
                          held[w] \in JobIds /\ writes[w][held[w]] # NoRow
  /\ \A w \in Workers : pc[w] \in {"loop", "claim", "stuck"} => held[w] = NoJob

Locks ==
  \A v, w \in Workers, j \in JobIds :
    v # w /\ writes[v][j] # NoRow => writes[w][j] = NoRow

IInv == TypeOK /\ Shape /\ Locks

-----------------------------------------------------------------------------

\* What a transaction sees is a table of rows.
LEMMA ViewType ==
  ASSUME TypeOK, NEW w \in Workers
  PROVE  View(w) \in [JobIds -> Job \cup {NoRow}]
BY DEF TypeOK, View

\* The rows the workers make are rows.
LEMMA RowTypes ==
  /\ \A d \in Docs, t \in JobTypes : NewJob(d, t) \in Job
  /\ \A row \in Job : Claimed(row) \in Job
  /\ \A row \in Job : Failed(row) \in Job
  /\ \A row \in Job : [row EXCEPT !.status = "succeeded"] \in Job
  /\ \A row \in Job : [row EXCEPT !.status = "pending", !.stale = FALSE] \in Job
  /\ \A row \in Job : [row EXCEPT !.due = TRUE] \in Job
  /\ \A row \in Job : [row EXCEPT !.stale = TRUE] \in Job
<1>1. \A d \in Docs, t \in JobTypes : NewJob(d, t) \in Job
  BY DEF NewJob, Job, Statuses
<1>2. \A row \in Job : Claimed(row) \in Job
  <2> SUFFICES ASSUME NEW row \in Job PROVE Claimed(row) \in Job
    OBVIOUS
  <2>1. row.attempts + 1 \in Nat
    BY DEF Job
  <2> DEFINE n == row.attempts + 1
  <2>2. [row EXCEPT !.status = "running", !.stale = FALSE, !.attempts = n] \in Job
    <3> HIDE DEF n
    <3> QED BY <2>1 DEF n, Job, Statuses
  <2> QED BY <2>2 DEF Claimed
<1>3. \A row \in Job : Failed(row) \in Job
  BY DEF Failed, Job, Statuses
<1>4. \A row \in Job : [row EXCEPT !.status = "succeeded"] \in Job
  BY DEF Job, Statuses
<1>5. \A row \in Job : [row EXCEPT !.status = "pending", !.stale = FALSE] \in Job
  BY DEF Job, Statuses
<1>6. \A row \in Job : [row EXCEPT !.due = TRUE] \in Job
  BY DEF Job, Statuses
<1>7. \A row \in Job : [row EXCEPT !.stale = TRUE] \in Job
  BY DEF Job, Statuses
<1> QED BY <1>1, <1>2, <1>3, <1>4, <1>5, <1>6, <1>7

\* Follow-ups are job types.
LEMMA FollowUpTypes ==
  \A w \in Workers, t \in JobTypes : FollowUp(w, t) \subseteq JobTypes
BY DEF FollowUp, JobTypes

LEMMA NoWritesType == NoWrites \in [JobIds -> Job \cup {NoRow}]
BY DEF NoWrites

-----------------------------------------------------------------------------

LEMMA InitIInv == Init => IInv
BY NoWritesType, FaultsAssumption DEF Init, IInv, TypeOK, Shape, Locks, NoWrites, PC, Busy

\* A step that changes only worker w's transaction and the rows named in "new".
LEMMA LocksStep ==
  ASSUME IInv, NEW w \in Workers, NEW row \in [JobIds -> Job \cup {NoRow}],
         writes' = [writes EXCEPT ![w] = row],
         \A j \in JobIds : row[j] # NoRow => writes[w][j] # NoRow \/ ~ LockedByOther(w, j)
  PROVE  Locks'
BY DEF IInv, TypeOK, Locks, LockedByOther

LEMMA EnqueueIInv ==
  ASSUME IInv, NEW d \in Docs, NEW t \in JobTypes, Enqueue(d, t)
  PROVE  IInv'
<1>1. PICK j \in JobIds : jobs' = [jobs EXCEPT ![j] = NewJob(d, t)]
  BY DEF Enqueue
<1>2. NewJob(d, t) \in Job
  BY RowTypes
<1>3. jobs' \in [JobIds -> Job \cup {NoRow}]
  BY <1>1, <1>2 DEF IInv, TypeOK
<1> QED BY <1>3 DEF Enqueue, IInv, TypeOK, Shape, Locks

LEMMA ReapIInv ==
  ASSUME IInv, NEW w \in Workers, Reap(w)
  PROVE  IInv'
<1> DEFINE row == [j \in JobIds |-> IF j \in StaleFor(w)
                     THEN [View(w)[j] EXCEPT !.status = "pending", !.stale = FALSE]
                     ELSE writes[w][j]]
<1>1. row \in [JobIds -> Job \cup {NoRow}]
  BY ViewType, RowTypes DEF IInv, StaleFor, TypeOK
<1>2. writes' = [writes EXCEPT ![w] = row]
  BY DEF Reap
<1>3. Locks'
  <2>1. \A j \in JobIds : row[j] # NoRow => writes[w][j] # NoRow \/ ~ LockedByOther(w, j)
    BY DEF Reap
  <2> QED BY <1>1, <1>2, <2>1, LocksStep
<1>4. TypeOK'
  BY <1>1, <1>2 DEF Reap, IInv, TypeOK, PC
<1>5. Shape'
  BY <1>2 DEF Reap, IInv, TypeOK, Shape, Busy
<1> QED BY <1>3, <1>4, <1>5 DEF IInv

LEMMA ClaimIInv ==
  ASSUME IInv, NEW w \in Workers, Claim(w)
  PROVE  IInv'
<1>1. PICK j \in Eligible(w) :
        /\ writes' = [writes EXCEPT ![w][j] = Claimed(View(w)[j])]
        /\ held' = [held EXCEPT ![w] = j]
  BY DEF Claim
<1>2. /\ j \in JobIds
      /\ View(w)[j] \in Job
      /\ ~ LockedByOther(w, j)
  BY ViewType DEF Eligible, IInv
<1> DEFINE row == [writes[w] EXCEPT ![j] = Claimed(View(w)[j])]
<1>3. /\ row \in [JobIds -> Job \cup {NoRow}]
      /\ row[j] # NoRow
      /\ writes' = [writes EXCEPT ![w] = row]
  BY <1>1, <1>2, RowTypes, NoRowAssumption DEF IInv, TypeOK
<1>4. Locks'
  <2>1. \A k \in JobIds : row[k] # NoRow => writes[w][k] # NoRow \/ ~ LockedByOther(w, k)
    BY <1>2 DEF IInv, TypeOK
  <2> HIDE DEF row
  <2> QED BY <1>3, <2>1, LocksStep
<1> HIDE DEF row
<1>5. TypeOK'
  BY <1>1, <1>2, <1>3 DEF Claim, IInv, TypeOK, PC
<1>6. Shape'
  BY <1>1, <1>2, <1>3 DEF Claim, IInv, TypeOK, Shape, Busy
<1> QED BY <1>4, <1>5, <1>6 DEF IInv

LEMMA NothingToClaimIInv ==
  ASSUME IInv, NEW w \in Workers, NothingToClaim(w)
  PROVE  IInv'
<1> DEFINE row == IF w \in ShortTx THEN NoWrites ELSE writes[w]
<1>1. /\ row \in [JobIds -> Job \cup {NoRow}]
      /\ writes' = [writes EXCEPT ![w] = row]
      /\ \A j \in JobIds : row[j] # NoRow => writes[w][j] # NoRow
  BY NoWritesType DEF NothingToClaim, IInv, TypeOK, NoWrites
<1> HIDE DEF row
<1>2. Locks'
  BY <1>1, LocksStep
<1>3. TypeOK'
  BY <1>1 DEF NothingToClaim, IInv, TypeOK, PC
<1>4. Shape'
  BY <1>1 DEF NothingToClaim, IInv, TypeOK, Shape, Busy
<1> QED BY <1>2, <1>3, <1>4 DEF IInv

\* The two outcomes of a job rewrite the row the worker already holds.
LEMMA OutcomeIInv ==
  ASSUME IInv, NEW w \in Workers, pc[w] = "work", NEW new \in Job,
         NEW next \in {"enqueue", "commit"},
         writes' = [writes EXCEPT ![w][held[w]] = new],
         pc' = [pc EXCEPT ![w] = next],
         UNCHANGED <<jobs, held, faults>>
  PROVE  IInv'
<1> DEFINE row == [writes[w] EXCEPT ![held[w]] = new]
<1>1. held[w] \in JobIds /\ writes[w][held[w]] # NoRow
  BY DEF IInv, Shape, Busy
<1>2. /\ row \in [JobIds -> Job \cup {NoRow}]
      /\ row[held[w]] # NoRow
      /\ writes' = [writes EXCEPT ![w] = row]
      /\ \A j \in JobIds : row[j] # NoRow => writes[w][j] # NoRow \/ ~ LockedByOther(w, j)
  BY <1>1, NoRowAssumption DEF IInv, TypeOK
<1> HIDE DEF row
<1>3. Locks'
  BY <1>2, LocksStep
<1>4. TypeOK'
  BY <1>2 DEF IInv, TypeOK, PC
<1>5. Shape'
  BY <1>1, <1>2 DEF IInv, TypeOK, Shape, Busy
<1> QED BY <1>3, <1>4, <1>5 DEF IInv

LEMMA WorkSucceedsIInv ==
  ASSUME IInv, NEW w \in Workers, WorkSucceeds(w)
  PROVE  IInv'
<1>1. writes[w][held[w]] \in Job
  BY DEF IInv, TypeOK, Shape, Busy, WorkSucceeds
<1> DEFINE new == [writes[w][held[w]] EXCEPT !.status = "succeeded"]
           next == IF FollowUp(w, writes[w][held[w]].type) = {} THEN "commit" ELSE "enqueue"
<1>2. new \in Job /\ next \in {"enqueue", "commit"}
  BY <1>1, RowTypes
<1>3. writes' = [writes EXCEPT ![w][held[w]] = new]
  BY DEF WorkSucceeds
<1>4. pc' = [pc EXCEPT ![w] = next] /\ pc[w] = "work" /\ UNCHANGED <<jobs, held, faults>>
  BY DEF WorkSucceeds
<1> HIDE DEF new, next
<1> QED BY <1>2, <1>3, <1>4, OutcomeIInv

LEMMA WorkFailsIInv ==
  ASSUME IInv, NEW w \in Workers, WorkFails(w)
  PROVE  IInv'
<1>1. writes[w][held[w]] \in Job
  BY DEF IInv, TypeOK, Shape, Busy, WorkFails
<1> DEFINE new == Failed(writes[w][held[w]])
<1>2. new \in Job
  BY <1>1, RowTypes
<1>3. writes' = [writes EXCEPT ![w][held[w]] = new]
  BY DEF WorkFails
<1>4. pc' = [pc EXCEPT ![w] = "commit"] /\ pc[w] = "work" /\ UNCHANGED <<jobs, held, faults>>
  BY DEF WorkFails
<1> HIDE DEF new
<1> QED BY <1>2, <1>3, <1>4, OutcomeIInv

LEMMA EnqueueSelectIInv ==
  ASSUME IInv, NEW w \in Workers, EnqueueSelect(w)
  PROVE  IInv'
<1>1. PICK next \in {"commit", "insert"} : pc' = [pc EXCEPT ![w] = next]
  BY DEF EnqueueSelect
<1> QED BY <1>1 DEF EnqueueSelect, IInv, TypeOK, Shape, Locks, PC, Busy

\* A transaction that loses its writes disturbs nobody.
LEMMA DropIInv ==
  ASSUME IInv, NEW w \in Workers, NEW next \in {"aborted", "loop"},
         writes' = [writes EXCEPT ![w] = NoWrites],
         pc' = [pc EXCEPT ![w] = next],
         held' = IF next = "loop" THEN [held EXCEPT ![w] = NoJob] ELSE held,
         jobs' \in [JobIds -> Job \cup {NoRow}], faults' \in 0..MaxFaults
  PROVE  IInv'
<1>1. Locks'
  <2>1. \A j \in JobIds : NoWrites[j] # NoRow => writes[w][j] # NoRow
    BY DEF NoWrites
  <2> QED BY <2>1, NoWritesType, LocksStep
<1>2. TypeOK'
  BY NoWritesType DEF IInv, TypeOK, PC
<1>3. Shape'
  BY DEF IInv, TypeOK, Shape, Busy
<1> QED BY <1>1, <1>2, <1>3 DEF IInv

LEMMA EnqueueInsertIInv ==
  ASSUME IInv, NEW w \in Workers, EnqueueInsert(w)
  PROVE  IInv'
<1> DEFINE row == writes[w][held[w]]
<1>1. row \in Job /\ held[w] \in JobIds /\ pc[w] = "insert"
  BY DEF IInv, TypeOK, Shape, Busy, EnqueueInsert
<1>2. PICK t \in FollowUp(w, row.type) :
        \/ /\ writes' = [writes EXCEPT ![w] = NoWrites]
           /\ pc' = [pc EXCEPT ![w] = "aborted"]
        \/ /\ \E j \in JobIds : NextId(j) /\ writes' = [writes EXCEPT ![w][j] = NewJob(row.doc, t)]
           /\ pc' = [pc EXCEPT ![w] = "commit"]
  BY DEF EnqueueInsert
<1>3. UNCHANGED <<jobs, held, faults>>
  BY DEF EnqueueInsert
<1>4. CASE writes' = [writes EXCEPT ![w] = NoWrites] /\ pc' = [pc EXCEPT ![w] = "aborted"]
  BY <1>3, <1>4, DropIInv DEF IInv, TypeOK
<1>5. CASE /\ \E j \in JobIds : NextId(j) /\ writes' = [writes EXCEPT ![w][j] = NewJob(row.doc, t)]
           /\ pc' = [pc EXCEPT ![w] = "commit"]
  <2>1. PICK j \in JobIds : NextId(j) /\ writes' = [writes EXCEPT ![w][j] = NewJob(row.doc, t)]
    BY <1>5
  <2>2. NewJob(row.doc, t) \in Job
    BY <1>1, <1>2, RowTypes, FollowUpTypes DEF Job
  <2>3. j \notin Used
    BY <2>1, JobIdsAssumption DEF NextId, Later
  <2> DEFINE new == [writes[w] EXCEPT ![j] = NewJob(row.doc, t)]
  <2>4. /\ new \in [JobIds -> Job \cup {NoRow}]
        /\ new[held[w]] # NoRow
        /\ writes' = [writes EXCEPT ![w] = new]
        /\ \A k \in JobIds : new[k] # NoRow => writes[w][k] # NoRow \/ ~ LockedByOther(w, k)
    BY <1>1, <2>1, <2>2, <2>3, NoRowAssumption DEF IInv, TypeOK, LockedByOther, Used
  <2> HIDE DEF new
  <2>5. Locks'
    BY <2>4, LocksStep
  <2>6. TypeOK'
    BY <2>4, <1>3, <1>5 DEF IInv, TypeOK, PC
  <2>7. Shape'
    BY <2>4, <1>1, <1>3, <1>5 DEF IInv, TypeOK, Shape, Busy
  <2> QED BY <2>5, <2>6, <2>7 DEF IInv
<1> QED BY <1>2, <1>4, <1>5

LEMMA CommitIInv ==
  ASSUME IInv, NEW w \in Workers, Commit(w)
  PROVE  IInv'
BY ViewType, DropIInv DEF Commit, IInv, TypeOK

LEMMA NextIterationIInv ==
  ASSUME IInv, NEW w \in Workers, NextIteration(w)
  PROVE  IInv'
BY DEF NextIteration, IInv, TypeOK, Shape, Locks, PC, Busy

LEMMA RollbackIInv ==
  ASSUME IInv, NEW w \in Workers, Rollback(w)
  PROVE  IInv'
BY DEF Rollback, IInv, TypeOK, Shape, Locks, PC, Busy

LEMMA FaultIInv ==
  ASSUME IInv, NEW w \in Workers, Fault(w)
  PROVE  IInv'
<1>1. faults < MaxFaults /\ faults' = faults + 1
  BY DEF Fault, DatabaseError, Crash, Interrupt
<1>2. faults' \in 0..MaxFaults
  BY <1>1, FaultsAssumption DEF IInv, TypeOK
<1>3. jobs' \in [JobIds -> Job \cup {NoRow}]
  BY ViewType DEF Fault, DatabaseError, Crash, Interrupt, IInv, TypeOK
<1>4. CASE DatabaseError(w)
  BY <1>2, <1>3, <1>4, DropIInv DEF DatabaseError
<1>5. CASE Crash(w)
  BY <1>2, <1>3, <1>5, DropIInv DEF Crash
<1>6. CASE Interrupt(w)
  BY <1>2, <1>3, <1>6, DropIInv DEF Interrupt
<1> QED BY <1>4, <1>5, <1>6 DEF Fault

LEMMA TimeIInv ==
  ASSUME IInv, NEW j \in JobIds, BackoffElapses(j) \/ LockAges(j)
  PROVE  IInv'
<1>1. CASE LockAges(j)
  BY <1>1, RowTypes DEF LockAges, IInv, TypeOK, Shape, Locks
<1>2. CASE /\ jobs[j] # NoRow
           /\ jobs' = [jobs EXCEPT ![j].due = TRUE]
           /\ UNCHANGED <<writes, pc, held, faults>>
  <2>1. [jobs[j] EXCEPT !.due = TRUE] \in Job
    BY <1>2, RowTypes DEF IInv, TypeOK
  <2>2. jobs' \in [JobIds -> Job \cup {NoRow}]
    BY <1>2, <2>1 DEF IInv, TypeOK
  <2> QED BY <1>2, <2>2 DEF IInv, TypeOK, Shape, Locks
<1>3. CASE \E w \in LongTx : /\ writes[w][j] # NoRow
                             /\ writes' = [writes EXCEPT ![w][j].due = TRUE]
                             /\ UNCHANGED <<jobs, pc, held, faults>>
  <2>1. PICK w \in LongTx : /\ writes[w][j] # NoRow
                            /\ writes' = [writes EXCEPT ![w][j].due = TRUE]
    BY <1>3
  <2> DEFINE new == [writes[w] EXCEPT ![j] = [writes[w][j] EXCEPT !.due = TRUE]]
  <2>2. w \in Workers /\ writes[w][j] \in Job
    BY <2>1 DEF Workers, IInv, TypeOK
  <2>3. [writes[w][j] EXCEPT !.due = TRUE] \in Job
    BY <2>2, RowTypes
  <2>4. /\ new \in [JobIds -> Job \cup {NoRow}]
        /\ writes' = [writes EXCEPT ![w] = new]
        /\ \A k \in JobIds : new[k] # NoRow <=> writes[w][k] # NoRow
    BY <2>1, <2>2, <2>3, NoRowAssumption DEF IInv, TypeOK
  <2>5. new # NoWrites /\ writes[w] # NoWrites
    BY <2>1, <2>4 DEF NoWrites
  <2> HIDE DEF new
  <2>6. Locks'
    BY <2>2, <2>4, LocksStep
  <2>7. TypeOK'
    BY <1>3, <2>2, <2>4 DEF IInv, TypeOK
  <2>8. Shape'
    BY <1>3, <2>2, <2>4, <2>5 DEF IInv, TypeOK, Shape, Busy
  <2> QED BY <2>6, <2>7, <2>8 DEF IInv
<1> QED BY <1>1, <1>2, <1>3 DEF BackoffElapses

LEMMA NextIInv == IInv /\ [Next]_vars => IInv'
<1> SUFFICES ASSUME IInv, [Next]_vars PROVE IInv'
  OBVIOUS
<1>1. CASE \E d \in Docs, t \in JobTypes : Enqueue(d, t)
  BY <1>1, EnqueueIInv
<1>2. CASE \E w \in Workers : WorkerStep(w)
  BY <1>2, ReapIInv, ClaimIInv, NothingToClaimIInv, WorkSucceedsIInv, WorkFailsIInv,
     EnqueueSelectIInv, EnqueueInsertIInv, CommitIInv, NextIterationIInv, RollbackIInv
     DEF WorkerStep
<1>3. CASE \E w \in Workers : Fault(w)
  BY <1>3, FaultIInv
<1>4. CASE \E j \in JobIds : BackoffElapses(j) \/ LockAges(j)
  BY <1>4, TimeIInv
<1>5. CASE UNCHANGED vars
  BY <1>5 DEF vars, IInv, TypeOK, Shape, Locks
<1> QED BY <1>1, <1>2, <1>3, <1>4, <1>5 DEF Next

\* The inductive invariant, for deployed and staged workers alike.
THEOREM Invariance == Spec => []IInv
<1> QED BY InitIInv, NextIInv, PTL DEF Spec

-----------------------------------------------------------------------------

\* The variables keep their types: in particular a worker that records an
\* outcome or enqueues a follow-up always does so for a row it has written.
THEOREM TypeCorrect == Spec => []TypeOK
<1>1. IInv => TypeOK
  BY DEF IInv
<1> QED BY <1>1, Invariance, PTL

LEMMA OneLiveClaimInv == IInv => OneLiveClaim
<1> SUFFICES ASSUME IInv, NEW v \in Workers, NEW w \in Workers, v # w,
                    held[v] # NoJob, held[v] = held[w],
                    pc[v] # "aborted", pc[w] # "aborted"
             PROVE  FALSE
  BY DEF OneLiveClaim
<1>1. pc[v] \in Busy /\ pc[w] \in Busy
  BY DEF IInv, TypeOK, Shape, PC, Busy
<1>2. /\ held[v] \in JobIds
      /\ writes[v][held[v]] # NoRow
      /\ writes[w][held[v]] # NoRow
  BY <1>1 DEF IInv, Shape
<1> QED BY <1>2 DEF IInv, Locks

\* At most one worker with a live transaction works on a job (SKIP LOCKED in
\* claim_next), whatever crashes, reaps and retries came before.
THEOREM OneLiveClaimHolds == Spec => []OneLiveClaim
<1> QED BY OneLiveClaimInv, Invariance, PTL

-----------------------------------------------------------------------------
(* Uniqueness of active jobs.  The committed rows alone are not inductive: *)
(* the invariant speaks of every version of a row, committed or written by *)
(* an open transaction, because an insert must not meet a row that is      *)
(* about to become visible.                                                *)

Version(r, j) == r = jobs[j] \/ \E w \in Workers : r = writes[w][j]

Clash(r, s) == /\ r # NoRow /\ s # NoRow
               /\ r.doc = s.doc /\ r.type = s.type
               /\ r.status \in Active /\ s.status \in Active

NoClash ==
  \A j, k \in JobIds : j # k =>
    \A r, s : Version(r, j) /\ Version(s, k) => ~ Clash(r, s)

\* A row never changes its document or type, and a row that is not yet
\* committed is a follow-up.
SameJob ==
  \A w \in Workers, j \in JobIds : writes[w][j] # NoRow =>
    IF jobs[j] # NoRow
    THEN writes[w][j].doc = jobs[j].doc /\ writes[w][j].type = jobs[j].type
    ELSE writes[w][j].type \in {"vector_index_document", "index_document"}

\* A worker finishes only jobs it claims, so none of the type it enqueues.
OwnFinished ==
  \A w \in Workers, j \in JobIds :
    writes[w][j] # NoRow /\ writes[w][j].status \notin Active =>
      \/ w \in LongTx /\ writes[w][j].type \in Claims(w)
      \/ w \in ShortTx /\ held[w] = j

WorkRuns ==
  \A w \in Workers :
    pc[w] \in Busy => /\ pc[w] = "work" => writes[w][held[w]].status = "running"
                      /\ writes[w][held[w]].type \in Claims(w)

UInv == IInv /\ NoClash /\ SameJob /\ OwnFinished /\ WorkRuns

\* s is a later version of the row r.
Derived(s, r) == s # NoRow =>
                   /\ r # NoRow
                   /\ s.doc = r.doc /\ s.type = r.type
                   /\ s.status \in Active => r.status \in Active

\* Steps that only derive versions from versions keep the index satisfied.
LEMMA NoClashStep ==
  ASSUME NoClash,
         \A j \in JobIds : \A s : Version(s, j)' => \E r : Version(r, j) /\ Derived(s, r)
  PROVE  NoClash'
BY DEF NoClash, Clash, Derived

\* A statement of w that rewrites rows it sees.
LEMMA OverlayStep ==
  ASSUME UInv, NEW w \in Workers, NEW row \in [JobIds -> Job \cup {NoRow}],
         writes' = [writes EXCEPT ![w] = row], UNCHANGED jobs,
         \A j \in JobIds : Derived(row[j], View(w)[j])
  PROVE  NoClash' /\ SameJob'
<1>1. ASSUME NEW j \in JobIds, NEW s, Version(s, j)'
      PROVE  \E r : Version(r, j) /\ Derived(s, r)
  <2>1. CASE s = jobs[j]
    BY <2>1 DEF Version, Derived
  <2>2. CASE s = row[j]
    <3>1. Version(View(w)[j], j)
      BY DEF Version, View
    <3> QED BY <2>2, <3>1
  <2>3. CASE \E v \in Workers \ {w} : s = writes[v][j]
    BY <2>3 DEF Version, Derived
  <2> QED BY <1>1, <2>1, <2>2, <2>3 DEF Version, UInv, IInv, TypeOK
<1>2. NoClash'
  BY <1>1, NoClashStep DEF UInv
<1>3. SameJob'
  <2> SUFFICES ASSUME NEW v \in Workers, NEW j \in JobIds, writes'[v][j] # NoRow
               PROVE  IF jobs[j] # NoRow
                      THEN /\ writes'[v][j].doc = jobs[j].doc
                           /\ writes'[v][j].type = jobs[j].type
                      ELSE writes'[v][j].type \in {"vector_index_document", "index_document"}
    BY DEF SameJob
  <2>1. CASE v # w
    BY <2>1 DEF UInv, SameJob, IInv, TypeOK
  <2>2. CASE v = w
    <3>1. writes'[v][j] = row[j]
      BY <2>2 DEF UInv, IInv, TypeOK
    <3>2. /\ View(w)[j] # NoRow
          /\ row[j].doc = View(w)[j].doc
          /\ row[j].type = View(w)[j].type
      BY <3>1 DEF Derived
    <3> QED BY <3>1, <3>2, <2>2 DEF UInv, SameJob, View
  <2> QED BY <2>1, <2>2
<1> QED BY <1>2, <1>3

\* A transaction that ends, with or without publishing what it wrote.
LEMMA EndStep ==
  ASSUME UInv, NEW w \in Workers, writes' = [writes EXCEPT ![w] = NoWrites],
         jobs' \in {jobs, View(w)}
  PROVE  NoClash' /\ SameJob'
<1>1. ASSUME NEW j \in JobIds, NEW s, Version(s, j)'
      PROVE  \E r : Version(r, j) /\ Derived(s, r)
  <2>1. CASE s = jobs'[j]
    BY <2>1 DEF Version, Derived, View
  <2>2. CASE \E v \in Workers : s = writes'[v][j]
    <3>1. PICK v \in Workers : s = writes'[v][j]
      BY <2>2
    <3>2. s = NoRow \/ s = writes[v][j]
      BY <3>1 DEF UInv, IInv, TypeOK, NoWrites
    <3> QED BY <3>2 DEF Version, Derived
  <2> QED BY <1>1, <2>1, <2>2 DEF Version
<1>2. NoClash'
  BY <1>1, NoClashStep DEF UInv
<1>3. SameJob'
  <2> SUFFICES ASSUME NEW v \in Workers, NEW j \in JobIds, writes'[v][j] # NoRow
               PROVE  IF jobs'[j] # NoRow
                      THEN /\ writes'[v][j].doc = jobs'[j].doc
                           /\ writes'[v][j].type = jobs'[j].type
                      ELSE writes'[v][j].type \in {"vector_index_document", "index_document"}
    BY DEF SameJob
  <2>1. v # w /\ writes'[v][j] = writes[v][j]
    BY DEF UInv, IInv, TypeOK, NoWrites
  <2>2. writes[w][j] = NoRow
    BY <2>1 DEF UInv, IInv, Locks
  <2>3. jobs'[j] = jobs[j]
    BY <2>2 DEF View
  <2> QED BY <2>1, <2>3 DEF UInv, SameJob
<1> QED BY <1>2, <1>3

LEMMA InitUInv == Init => UInv
<1> SUFFICES ASSUME Init PROVE UInv
  OBVIOUS
<1>1. IInv
  BY InitIInv
<1>2. NoClash
  BY DEF Init, NoClash, Version, Clash, NoWrites
<1>3. SameJob /\ OwnFinished /\ WorkRuns
  BY DEF Init, SameJob, OwnFinished, WorkRuns, NoWrites, Busy
<1> QED BY <1>1, <1>2, <1>3 DEF UInv

LEMMA EnqueueUInv ==
  ASSUME UInv, NEW d \in Docs, NEW t \in JobTypes, Enqueue(d, t)
  PROVE  UInv'
<1>1. PICK i \in JobIds : NextId(i) /\ jobs' = [jobs EXCEPT ![i] = NewJob(d, t)]
  BY DEF Enqueue
<1>2. i \notin Used
  BY <1>1, JobIdsAssumption DEF NextId, Later
<1>3. jobs[i] = NoRow /\ \A w \in Workers : writes[w][i] = NoRow
  BY <1>2 DEF Used
<1>4. UNCHANGED <<writes, pc, held>>
  BY DEF Enqueue
<1>5. NewJob(d, t) \in Job
  BY RowTypes
<1>6. /\ jobs'[i] = NewJob(d, t)
      /\ \A j \in JobIds : j # i => jobs'[j] = jobs[j]
  BY <1>1 DEF UInv, IInv, TypeOK
<1>7. t \notin {"vector_index_document", "index_document"}
  BY SeedAssumption DEF Enqueue
<1>8. \A j \in JobIds : \A r : Version(r, j) /\ r # NoRow => ~ (r.doc = d /\ r.type = t)
  <2> SUFFICES ASSUME NEW j \in JobIds, NEW r, Version(r, j), r # NoRow, r.doc = d, r.type = t
               PROVE  FALSE
    OBVIOUS
  <2>1. ~ (jobs[j] # NoRow /\ jobs[j].doc = d /\ jobs[j].type = t)
    BY DEF Enqueue
  <2>2. PICK w \in Workers : r = writes[w][j]
    BY <2>1 DEF Version
  <2> QED BY <2>1, <2>2, <1>7 DEF UInv, SameJob
<1>9. NoClash'
  <2> SUFFICES ASSUME NEW j \in JobIds, NEW k \in JobIds, j # k, NEW r, NEW s,
                      Version(r, j)', Version(s, k)', Clash(r, s)
               PROVE  FALSE
    BY DEF NoClash, Clash
  <2>1. \A m \in JobIds : \A q : Version(q, m)' /\ q # NoRow =>
          Version(q, m) \/ (m = i /\ q = NewJob(d, t))
    BY <1>4, <1>6 DEF Version
  <2>2. NewJob(d, t).doc = d /\ NewJob(d, t).type = t
    BY DEF NewJob
  <2>3. r # NoRow /\ s # NoRow /\ r.doc = s.doc /\ r.type = s.type
    BY DEF Clash
  <2>4. CASE Version(r, j) /\ Version(s, k)
    BY <2>4 DEF UInv, NoClash
  <2>5. CASE j = i /\ r = NewJob(d, t)
    <3>1. Version(s, k)
      BY <2>1, <2>3, <2>5
    <3> QED BY <3>1, <1>8, <2>2, <2>3, <2>5
  <2>6. CASE k = i /\ s = NewJob(d, t)
    <3>1. Version(r, j)
      BY <2>1, <2>3, <2>6
    <3> QED BY <3>1, <1>8, <2>2, <2>3, <2>6
  <2> QED BY <2>1, <2>3, <2>4, <2>5, <2>6
<1>10. SameJob'
  BY <1>3, <1>4, <1>6 DEF UInv, SameJob
<1>11. OwnFinished' /\ WorkRuns'
  BY <1>4 DEF UInv, OwnFinished, WorkRuns
<1> QED BY <1>9, <1>10, <1>11, EnqueueIInv DEF UInv

LEMMA ReapUInv ==
  ASSUME UInv, NEW w \in Workers, Reap(w)
  PROVE  UInv'
<1> DEFINE row == [j \in JobIds |-> IF j \in StaleFor(w)
                     THEN [View(w)[j] EXCEPT !.status = "pending", !.stale = FALSE]
                     ELSE writes[w][j]]
<1>1. row \in [JobIds -> Job \cup {NoRow}]
  BY ViewType, RowTypes DEF UInv, IInv, StaleFor, TypeOK
<1>2. writes' = [writes EXCEPT ![w] = row] /\ UNCHANGED <<jobs, held>>
  BY DEF Reap
<1>3. \A j \in JobIds : Derived(row[j], View(w)[j])
  <2> SUFFICES ASSUME NEW j \in JobIds PROVE Derived(row[j], View(w)[j])
    OBVIOUS
  <2>1. CASE j \in StaleFor(w)
    <3>1. View(w)[j] \in Job /\ View(w)[j].status = "running"
      BY <2>1, ViewType DEF StaleFor, UInv, IInv
    <3>2. row[j] = [View(w)[j] EXCEPT !.status = "pending", !.stale = FALSE]
      BY <2>1
    <3> HIDE DEF row
    <3> QED BY <3>1, <3>2, NoRowAssumption DEF Derived, Job, Active
  <2>2. CASE j \notin StaleFor(w)
    BY <2>2 DEF Derived, View
  <2> QED BY <2>1, <2>2
<1>4. \A j \in JobIds : row[j] # NoRow /\ row[j].status \notin Active =>
                          row[j] = writes[w][j]
  <2> SUFFICES ASSUME NEW j \in StaleFor(w) PROVE row[j].status \in Active
    BY DEF StaleFor
  <2>1. View(w)[j] \in Job /\ j \in JobIds
    BY ViewType DEF StaleFor, UInv, IInv
  <2>2. row[j] = [View(w)[j] EXCEPT !.status = "pending", !.stale = FALSE]
    BY <2>1
  <2> HIDE DEF row
  <2> QED BY <2>1, <2>2 DEF Job, Active
<1> HIDE DEF row
<1>5. NoClash' /\ SameJob'
  BY <1>1, <1>2, <1>3, OverlayStep
<1>6. OwnFinished'
  BY <1>2, <1>4 DEF UInv, IInv, TypeOK, OwnFinished
<1>7. WorkRuns'
  BY <1>2 DEF Reap, UInv, IInv, TypeOK, WorkRuns, Busy
<1> QED BY <1>5, <1>6, <1>7, ReapIInv DEF UInv

LEMMA ClaimUInv ==
  ASSUME UInv, NEW w \in Workers, Claim(w)
  PROVE  UInv'
<1>1. PICK j \in Eligible(w) :
        /\ writes' = [writes EXCEPT ![w][j] = Claimed(View(w)[j])]
        /\ held' = [held EXCEPT ![w] = j]
  BY DEF Claim
<1>2. /\ j \in JobIds
      /\ View(w)[j] \in Job
      /\ View(w)[j].status \in {"pending", "retry"}
      /\ View(w)[j].type \in Claims(w)
  BY ViewType DEF Eligible, UInv, IInv
<1> DEFINE new == Claimed(View(w)[j])
           row == [writes[w] EXCEPT ![j] = new]
<1>3. /\ new \in Job
      /\ new.doc = View(w)[j].doc
      /\ new.type = View(w)[j].type
      /\ new.status = "running"
  <2>1. new \in Job
    BY <1>2, RowTypes
  <2> QED BY <2>1, <1>2 DEF Claimed, Job
<1>4. /\ row \in [JobIds -> Job \cup {NoRow}]
      /\ row[j] = new
      /\ \A k \in JobIds : k # j => row[k] = writes[w][k]
      /\ writes' = [writes EXCEPT ![w] = row]
  BY <1>1, <1>2, <1>3 DEF UInv, IInv, TypeOK
<1> HIDE DEF new, row
<1>5. \A k \in JobIds : Derived(row[k], View(w)[k])
  <2> SUFFICES ASSUME NEW k \in JobIds PROVE Derived(row[k], View(w)[k])
    OBVIOUS
  <2>1. CASE k = j
    BY <2>1, <1>2, <1>3, <1>4, NoRowAssumption DEF Derived, Active
  <2>2. CASE k # j
    BY <2>2, <1>4 DEF Derived, View
  <2> QED BY <2>1, <2>2
<1>6. NoClash' /\ SameJob'
  <2>1. UNCHANGED jobs
    BY DEF Claim
  <2> QED BY <2>1, <1>4, <1>5, OverlayStep
<1>7. held[w] = NoJob /\ pc' = [pc EXCEPT ![w] = "work"]
  BY DEF Claim, UInv, IInv, Shape
<1>8. OwnFinished'
  <2> SUFFICES ASSUME NEW v \in Workers, NEW k \in JobIds,
                      writes'[v][k] # NoRow, writes'[v][k].status \notin Active
               PROVE  \/ v \in LongTx /\ writes'[v][k].type \in Claims(v)
                      \/ v \in ShortTx /\ held'[v] = k
    BY DEF OwnFinished
  <2>1. CASE v # w
    BY <2>1, <1>1, <1>4 DEF UInv, IInv, TypeOK, OwnFinished
  <2>2. CASE v = w
    <3>1. k # j
      BY <2>2, <1>3, <1>4 DEF UInv, IInv, TypeOK, Active
    <3>2. writes'[v][k] = writes[v][k]
      BY <2>2, <3>1, <1>4 DEF UInv, IInv, TypeOK
    <3> QED BY <2>2, <3>2, <1>7, NoJobAssumption DEF UInv, OwnFinished
  <2> QED BY <2>1, <2>2
<1>9. WorkRuns'
  <2>1. \A v \in Workers : v # w => writes'[v] = writes[v] /\ held'[v] = held[v] /\ pc'[v] = pc[v]
    BY <1>1, <1>4, <1>7 DEF UInv, IInv, TypeOK
  <2>2. writes'[w][held'[w]] = new /\ pc'[w] = "work"
    BY <1>1, <1>2, <1>4, <1>7 DEF UInv, IInv, TypeOK
  <2> QED BY <2>1, <2>2, <1>2, <1>3 DEF UInv, WorkRuns, Busy
<1> QED BY <1>6, <1>8, <1>9, ClaimIInv DEF UInv

\* The two outcomes again: the row stops running, the rest is untouched.
LEMMA OutcomeUInv ==
  ASSUME UInv, NEW w \in Workers, pc[w] = "work", NEW new \in Job,
         NEW next \in {"enqueue", "commit"},
         new.doc = writes[w][held[w]].doc, new.type = writes[w][held[w]].type,
         writes' = [writes EXCEPT ![w][held[w]] = new],
         pc' = [pc EXCEPT ![w] = next],
         UNCHANGED <<jobs, held, faults>>
  PROVE  UInv'
<1>1. /\ held[w] \in JobIds
      /\ writes[w][held[w]] # NoRow
      /\ writes[w][held[w]].status = "running"
      /\ writes[w][held[w]].type \in Claims(w)
  BY DEF UInv, IInv, Shape, WorkRuns, Busy
<1> DEFINE row == [writes[w] EXCEPT ![held[w]] = new]
<1>2. /\ row \in [JobIds -> Job \cup {NoRow}]
      /\ row[held[w]] = new
      /\ \A k \in JobIds : k # held[w] => row[k] = writes[w][k]
      /\ writes' = [writes EXCEPT ![w] = row]
  BY <1>1 DEF UInv, IInv, TypeOK
<1> HIDE DEF row
<1>3. \A k \in JobIds : Derived(row[k], View(w)[k])
  BY <1>1, <1>2 DEF Derived, View, Active
<1>4. NoClash' /\ SameJob'
  BY <1>2, <1>3, OverlayStep
<1>5. OwnFinished'
  BY <1>1, <1>2 DEF UInv, IInv, TypeOK, OwnFinished, Workers
<1>6. WorkRuns'
  BY <1>1, <1>2 DEF UInv, IInv, TypeOK, WorkRuns, Busy
<1> QED BY <1>4, <1>5, <1>6, OutcomeIInv DEF UInv

LEMMA WorkUInv ==
  ASSUME UInv, NEW w \in Workers, WorkSucceeds(w) \/ WorkFails(w)
  PROVE  UInv'
<1> DEFINE old == writes[w][held[w]]
<1>1. old \in Job /\ pc[w] = "work"
  BY DEF UInv, IInv, TypeOK, Shape, Busy, WorkSucceeds, WorkFails
<1>2. UNCHANGED <<jobs, held, faults>>
  BY DEF WorkSucceeds, WorkFails
<1>3. CASE WorkSucceeds(w)
  <2> DEFINE new == [old EXCEPT !.status = "succeeded"]
             next == IF FollowUp(w, old.type) = {} THEN "commit" ELSE "enqueue"
  <2>1. writes' = [writes EXCEPT ![w][held[w]] = new]
    BY <1>3 DEF WorkSucceeds
  <2>2. pc' = [pc EXCEPT ![w] = next]
    BY <1>3 DEF WorkSucceeds
  <2>3. new \in Job /\ new.doc = old.doc /\ new.type = old.type
    BY <1>1, RowTypes DEF Job
  <2>4. next \in {"enqueue", "commit"}
    OBVIOUS
  <2> HIDE DEF new, next
  <2> QED BY <1>1, <1>2, <2>1, <2>2, <2>3, <2>4, OutcomeUInv
<1>4. CASE WorkFails(w)
  <2> DEFINE new == Failed(old)
  <2>1. writes' = [writes EXCEPT ![w][held[w]] = new] /\ pc' = [pc EXCEPT ![w] = "commit"]
    BY <1>4 DEF WorkFails
  <2>2. new \in Job
    BY <1>1, RowTypes
  <2>3. new.doc = old.doc /\ new.type = old.type
    BY <1>1 DEF Failed, Job
  <2> HIDE DEF new
  <2> QED BY <1>1, <1>2, <2>1, <2>2, <2>3, OutcomeUInv
<1> QED BY <1>3, <1>4

\* A step of w that leaves the tables alone and never re-enters "work".
LEMMA ControlUInv ==
  ASSUME UInv, NEW w \in Workers, UNCHANGED <<jobs, writes>>, IInv',
         \/ /\ UNCHANGED held
            /\ pc[w] \in Busy
            /\ pc' \in {[pc EXCEPT ![w] = p] : p \in {"insert", "commit"}}
         \/ /\ held' = [held EXCEPT ![w] = NoJob]
            /\ pc' \in {[pc EXCEPT ![w] = p] : p \in {"loop", "stuck"}}
            /\ w \in LongTx \/ writes[w] = NoWrites
  PROVE  UInv'
<1>1. NoClash' /\ SameJob'
  BY DEF UInv, NoClash, Version, Clash, SameJob
<1>2. OwnFinished'
  <2> SUFFICES ASSUME NEW v \in Workers, NEW k \in JobIds,
                      writes[v][k] # NoRow, writes[v][k].status \notin Active
               PROVE  \/ v \in LongTx /\ writes[v][k].type \in Claims(v)
                      \/ v \in ShortTx /\ held'[v] = k
    BY DEF OwnFinished
  <2>1. CASE held'[v] = held[v]
    BY <2>1 DEF UInv, OwnFinished
  <2>2. CASE v = w /\ w \in LongTx
    BY <2>2, KindsAssumption DEF UInv, OwnFinished, LongTx, ShortTx
  <2>3. CASE v = w /\ writes[w] = NoWrites
    BY <2>3 DEF NoWrites
  <2> QED BY <2>1, <2>2, <2>3 DEF UInv, IInv, TypeOK
<1>3. WorkRuns'
  BY DEF UInv, IInv, TypeOK, WorkRuns, Busy
<1> QED BY <1>1, <1>2, <1>3 DEF UInv

\* A transaction that ends leaves nothing behind in the overlay.
LEMMA EndUInv ==
  ASSUME UInv, NEW w \in Workers, IInv',
         writes' = [writes EXCEPT ![w] = NoWrites], jobs' \in {jobs, View(w)},
         pc' \in {[pc EXCEPT ![w] = p] : p \in {"loop", "aborted"}},
         held' \in {held, [held EXCEPT ![w] = NoJob]}
  PROVE  UInv'
<1>1. NoClash' /\ SameJob'
  BY EndStep
<1>2. OwnFinished'
  BY DEF UInv, IInv, TypeOK, OwnFinished, NoWrites
<1>3. WorkRuns'
  BY DEF UInv, IInv, TypeOK, WorkRuns, Busy
<1> QED BY <1>1, <1>2, <1>3 DEF UInv

LEMMA NothingToClaimUInv ==
  ASSUME UInv, NEW w \in Workers, NothingToClaim(w)
  PROVE  UInv'
<1>1. IInv'
  BY NothingToClaimIInv DEF UInv
<1>2. CASE w \in ShortTx
  <2>1. /\ writes' = [writes EXCEPT ![w] = NoWrites]
        /\ pc' = [pc EXCEPT ![w] = "loop"]
        /\ jobs' = jobs /\ held' = held
    BY <1>2 DEF NothingToClaim
  <2> QED BY <1>1, <2>1, EndUInv
<1>3. CASE w \notin ShortTx
  <2>1. /\ writes' = writes /\ jobs' = jobs /\ held' = held
        /\ pc' = [pc EXCEPT ![w] = "loop"]
    BY <1>3 DEF NothingToClaim, UInv, IInv, TypeOK
  <2>2. held' = [held EXCEPT ![w] = NoJob]
    BY <2>1 DEF NothingToClaim, UInv, IInv, TypeOK, Shape
  <2>3. w \in LongTx
    BY <1>3 DEF Workers
  <2> QED BY <1>1, <2>1, <2>2, <2>3, ControlUInv
<1> QED BY <1>2, <1>3

LEMMA EnqueueSelectUInv ==
  ASSUME UInv, NEW w \in Workers, EnqueueSelect(w)
  PROVE  UInv'
<1>1. IInv'
  BY EnqueueSelectIInv DEF UInv
<1>2. PICK p \in {"insert", "commit"} : pc' = [pc EXCEPT ![w] = p]
  BY DEF EnqueueSelect
<1>3. pc[w] \in Busy /\ UNCHANGED <<jobs, writes, held>>
  BY DEF EnqueueSelect, Busy
<1> QED BY <1>1, <1>2, <1>3, ControlUInv

\* The key case: no other version of the new (document, type) is active.
LEMMA EnqueueInsertUInv ==
  ASSUME UInv, NEW w \in Workers, EnqueueInsert(w)
  PROVE  UInv'
<1> DEFINE row == writes[w][held[w]]
<1>1. /\ row \in Job /\ held[w] \in JobIds /\ pc[w] = "insert"
      /\ row.type \in Claims(w)
  BY DEF UInv, IInv, TypeOK, Shape, Busy, EnqueueInsert, WorkRuns
<1>2. IInv'
  BY EnqueueInsertIInv DEF UInv
<1>3. UNCHANGED <<jobs, held, faults>>
  BY DEF EnqueueInsert
<1>4. PICK t \in FollowUp(w, row.type) :
        /\ ~ ConflictOpen(w, row.doc, t)
        /\ \/ /\ writes' = [writes EXCEPT ![w] = NoWrites]
              /\ pc' = [pc EXCEPT ![w] = "aborted"]
           \/ /\ \A k \in JobIds : ~ ActiveFor(View(w)[k], row.doc, t)
              /\ \E j \in JobIds : NextId(j) /\ writes' = [writes EXCEPT ![w][j] = NewJob(row.doc, t)]
              /\ pc' = [pc EXCEPT ![w] = "commit"]
  BY DEF EnqueueInsert
<1>5. CASE writes' = [writes EXCEPT ![w] = NoWrites] /\ pc' = [pc EXCEPT ![w] = "aborted"]
  BY <1>2, <1>3, <1>5, EndUInv
<1>6. CASE /\ \A k \in JobIds : ~ ActiveFor(View(w)[k], row.doc, t)
           /\ \E j \in JobIds : NextId(j) /\ writes' = [writes EXCEPT ![w][j] = NewJob(row.doc, t)]
           /\ pc' = [pc EXCEPT ![w] = "commit"]
  <2>1. PICK j \in JobIds : NextId(j) /\ writes' = [writes EXCEPT ![w][j] = NewJob(row.doc, t)]
    BY <1>6
  <2>2. j \notin Used
    BY <2>1, JobIdsAssumption DEF NextId, Later
  <2>3. jobs[j] = NoRow /\ \A v \in Workers : writes[v][j] = NoRow
    BY <2>2 DEF Used
  <2> DEFINE new == NewJob(row.doc, t)
  <2>4. new.doc = row.doc /\ new.type = t /\ new.status = "pending"
    BY DEF NewJob
  <2>5. /\ writes'[w][j] = new
        /\ \A k \in JobIds : k # j => writes'[w][k] = writes[w][k]
        /\ \A v \in Workers : v # w => writes'[v] = writes[v]
    BY <2>1 DEF UInv, IInv, TypeOK
  <2> HIDE DEF new
  <2>6. (t \in {"vector_index_document", "index_document"} /\ t \notin Claims(w)) \/ w \in ShortTx
    BY <1>4, KindsAssumption DEF FollowUp, Claims, Workers, LongTx, ShortTx
  <2>7. t \in {"vector_index_document", "index_document"} /\ (w \in ShortTx => t # row.type)
    BY <1>4, KindsAssumption DEF FollowUp, Workers, LongTx, ShortTx
  <2>8. \A k \in JobIds : \A r : Version(r, k) /\ r # NoRow =>
          ~ (r.doc = row.doc /\ r.type = t /\ r.status \in Active)
    <3> SUFFICES ASSUME NEW k \in JobIds, NEW r, Version(r, k), r # NoRow,
                        r.doc = row.doc, r.type = t, r.status \in Active
                 PROVE  FALSE
      OBVIOUS
    <3>1. ActiveFor(r, row.doc, t)
      BY DEF ActiveFor
    <3>2. ~ \E v \in Workers \ {w} : r = writes[v][k]
      BY <3>1, <1>4 DEF ConflictOpen, LockedByOther
    <3>3. r # writes[w][k]
      BY <3>1, <1>6 DEF View
    <3>4. r = jobs[k]
      BY <3>2, <3>3 DEF Version
    <3>5. writes[w][k] # NoRow
      BY <3>1, <3>4, <1>6 DEF View
    <3>6. writes[w][k].doc = row.doc /\ writes[w][k].type = t
      BY <3>4, <3>5 DEF UInv, SameJob
    <3>7. writes[w][k].status \notin Active
      BY <3>5, <3>6, <1>6 DEF View, ActiveFor
    <3>8. \/ w \in LongTx /\ t \in Claims(w)
          \/ w \in ShortTx /\ held[w] = k
      BY <3>5, <3>6, <3>7 DEF UInv, OwnFinished
    <3> QED BY <3>6, <3>8, <2>6, <2>7, KindsAssumption DEF LongTx, ShortTx
  <2>9. NoClash'
    <3> SUFFICES ASSUME NEW k \in JobIds, NEW m \in JobIds, k # m, NEW r, NEW s,
                        Version(r, k)', Version(s, m)', Clash(r, s)
                 PROVE  FALSE
      BY DEF NoClash, Clash
    <3>1. \A n \in JobIds : \A q : Version(q, n)' => Version(q, n) \/ (n = j /\ q = new)
      BY <1>3, <2>5 DEF Version
    <3>2. r # NoRow /\ s # NoRow /\ r.doc = s.doc /\ r.type = s.type
          /\ r.status \in Active /\ s.status \in Active
      BY DEF Clash
    <3>3. CASE Version(r, k) /\ Version(s, m)
      BY <3>3 DEF UInv, NoClash
    <3>4. CASE k = j /\ r = new
      <4>1. Version(s, m)
        BY <3>1, <3>4
      <4> QED BY <4>1, <2>4, <2>8, <3>2, <3>4
    <3>5. CASE m = j /\ s = new
      <4>1. Version(r, k)
        BY <3>1, <3>5
      <4> QED BY <4>1, <2>4, <2>8, <3>2, <3>5
    <3> QED BY <3>1, <3>3, <3>4, <3>5
  <2>10. SameJob'
    BY <1>3, <2>3, <2>4, <2>5, <2>7 DEF UInv, SameJob
  <2>11. OwnFinished'
    BY <1>3, <2>4, <2>5 DEF UInv, OwnFinished, Active
  <2>12. WorkRuns'
    <3>1. held[w] # j
      BY <1>1, <2>3, NoRowAssumption
    <3>2. pc'[w] = "commit" /\ \A v \in Workers : v # w => pc'[v] = pc[v]
      BY <1>6 DEF UInv, IInv, TypeOK
    <3> QED BY <3>1, <3>2, <1>1, <1>3, <2>5 DEF UInv, WorkRuns, Busy
  <2> QED BY <1>2, <2>9, <2>10, <2>11, <2>12 DEF UInv
<1> QED BY <1>4, <1>5, <1>6

LEMMA FinishUInv ==
  ASSUME UInv, NEW w \in Workers, Commit(w) \/ NextIteration(w) \/ Rollback(w)
  PROVE  UInv'
<1>1. IInv'
  BY CommitIInv, NextIterationIInv, RollbackIInv DEF UInv
<1>2. CASE Commit(w)
  BY <1>1, <1>2, EndUInv DEF Commit
<1>3. CASE NextIteration(w)
  BY <1>1, <1>3, ControlUInv DEF NextIteration
<1>4. CASE Rollback(w)
  <2>1. writes[w] = NoWrites
    BY <1>4 DEF Rollback, UInv, IInv, Shape
  <2>2. PICK p \in {"loop", "stuck"} : pc' = [pc EXCEPT ![w] = p]
    BY <1>4 DEF Rollback
  <2>3. held' = [held EXCEPT ![w] = NoJob] /\ UNCHANGED <<jobs, writes>>
    BY <1>4 DEF Rollback
  <2> QED BY <1>1, <2>1, <2>2, <2>3, ControlUInv
<1> QED BY <1>2, <1>3, <1>4

LEMMA FaultUInv ==
  ASSUME UInv, NEW w \in Workers, Fault(w)
  PROVE  UInv'
<1>1. IInv'
  BY FaultIInv DEF UInv
<1>2. CASE DatabaseError(w)
  BY <1>1, <1>2, EndUInv DEF DatabaseError
<1>3. CASE Crash(w)
  BY <1>1, <1>3, EndUInv DEF Crash
<1>4. CASE Interrupt(w)
  BY <1>1, <1>4, EndUInv DEF Interrupt
<1> QED BY <1>2, <1>3, <1>4 DEF Fault

LEMMA TimeUInv ==
  ASSUME UInv, NEW j \in JobIds, BackoffElapses(j) \/ LockAges(j)
  PROVE  UInv'
<1>1. IInv'
  BY TimeIInv DEF UInv
<1>2. UNCHANGED <<pc, held, faults>>
  BY DEF BackoffElapses, LockAges
<1>3. CASE UNCHANGED writes
  <2>1. \A k \in JobIds : /\ jobs[k] = NoRow => jobs'[k] = NoRow
                          /\ jobs[k] # NoRow =>
                               /\ jobs'[k] # NoRow
                               /\ jobs'[k].doc = jobs[k].doc
                               /\ jobs'[k].type = jobs[k].type
                               /\ jobs'[k].status = jobs[k].status
    <3> SUFFICES ASSUME NEW k \in JobIds
                 PROVE  /\ jobs[k] = NoRow => jobs'[k] = NoRow
                        /\ jobs[k] # NoRow =>
                               /\ jobs'[k] # NoRow
                               /\ jobs'[k].doc = jobs[k].doc
                               /\ jobs'[k].type = jobs[k].type
                               /\ jobs'[k].status = jobs[k].status
      OBVIOUS
    <3>1. CASE jobs' = jobs
      BY <3>1
    <3>2. CASE /\ jobs[j] # NoRow
               /\ \/ jobs' = [jobs EXCEPT ![j].due = TRUE]
                  \/ jobs' = [jobs EXCEPT ![j].stale = TRUE]
      <4>1. jobs[j] \in Job
        BY <3>2 DEF UInv, IInv, TypeOK
      <4>2. CASE k = j
        <5>1. [jobs[j] EXCEPT !.due = TRUE] \in Job /\ [jobs[j] EXCEPT !.stale = TRUE] \in Job
          BY <4>1, RowTypes
        <5> QED BY <3>2, <4>1, <4>2, <5>1, NoRowAssumption DEF UInv, IInv, TypeOK, Job
      <4>3. CASE k # j
        BY <3>2, <4>3 DEF UInv, IInv, TypeOK
      <4> QED BY <4>2, <4>3
    <3> QED BY <3>1, <3>2, <1>3 DEF BackoffElapses, LockAges
  <2>2. NoClash'
    <3>1. ASSUME NEW k \in JobIds, NEW s, Version(s, k)'
          PROVE  \E r : Version(r, k) /\ Derived(s, r)
      <4>1. CASE s = jobs'[k]
        BY <4>1, <2>1 DEF Version, Derived
      <4>2. CASE \E w \in Workers : s = writes[w][k]
        BY <4>2 DEF Version, Derived
      <4> QED BY <3>1, <4>1, <4>2, <1>3 DEF Version
    <3> QED BY <3>1, NoClashStep DEF UInv
  <2>3. SameJob'
    BY <1>3, <2>1 DEF UInv, SameJob
  <2> QED BY <1>1, <1>2, <1>3, <2>2, <2>3 DEF UInv, OwnFinished, WorkRuns
<1>4. CASE \E w \in LongTx : /\ writes[w][j] # NoRow
                             /\ writes' = [writes EXCEPT ![w][j].due = TRUE]
                             /\ UNCHANGED jobs
  <2>1. PICK w \in LongTx : /\ writes[w][j] # NoRow
                            /\ writes' = [writes EXCEPT ![w][j].due = TRUE]
    BY <1>4
  <2> DEFINE new == [writes[w][j] EXCEPT !.due = TRUE]
             row == [writes[w] EXCEPT ![j] = new]
  <2>2. w \in Workers /\ writes[w][j] \in Job
    BY <2>1 DEF Workers, UInv, IInv, TypeOK
  <2>3. /\ new \in Job
        /\ new.doc = writes[w][j].doc
        /\ new.type = writes[w][j].type
        /\ new.status = writes[w][j].status
    BY <2>2, RowTypes DEF Job
  <2>4. /\ row \in [JobIds -> Job \cup {NoRow}]
        /\ row[j] = new
        /\ \A k \in JobIds : k # j => row[k] = writes[w][k]
        /\ writes' = [writes EXCEPT ![w] = row]
    BY <2>1, <2>2, <2>3 DEF UInv, IInv, TypeOK
  <2> HIDE DEF new, row
  <2>5. \A k \in JobIds : Derived(row[k], View(w)[k])
    BY <2>1, <2>3, <2>4 DEF Derived, View
  <2>6. NoClash' /\ SameJob'
    BY <1>4, <2>2, <2>4, <2>5, OverlayStep
  <2>7. \A v \in Workers, k \in JobIds :
          /\ writes'[v][k] # NoRow => writes[v][k] # NoRow
          /\ writes[v][k] # NoRow => /\ writes'[v][k].type = writes[v][k].type
                                     /\ writes'[v][k].status = writes[v][k].status
    BY <2>1, <2>2, <2>3, <2>4 DEF UInv, IInv, TypeOK
  <2>8. OwnFinished'
    BY <1>2, <2>7 DEF UInv, OwnFinished
  <2>9. WorkRuns'
    BY <1>2, <2>7 DEF UInv, IInv, Shape, WorkRuns
  <2> QED BY <1>1, <2>6, <2>8, <2>9 DEF UInv
<1> QED BY <1>3, <1>4 DEF BackoffElapses, LockAges

LEMMA NextUInv == UInv /\ [Next]_vars => UInv'
<1> SUFFICES ASSUME UInv, [Next]_vars PROVE UInv'
  OBVIOUS
<1>1. CASE \E d \in Docs, t \in JobTypes : Enqueue(d, t)
  BY <1>1, EnqueueUInv
<1>2. CASE \E w \in Workers : WorkerStep(w)
  BY <1>2, ReapUInv, ClaimUInv, NothingToClaimUInv, WorkUInv, EnqueueSelectUInv,
     EnqueueInsertUInv, FinishUInv DEF WorkerStep
<1>3. CASE \E w \in Workers : Fault(w)
  BY <1>3, FaultUInv
<1>4. CASE \E j \in JobIds : BackoffElapses(j) \/ LockAges(j)
  BY <1>4, TimeUInv
<1>5. CASE UNCHANGED vars
  <2>1. IInv'
    BY NextIInv DEF UInv
  <2> QED BY <1>5, <2>1
          DEF vars, UInv, NoClash, Version, Clash, SameJob, OwnFinished, WorkRuns
<1> QED BY <1>1, <1>2, <1>3, <1>4, <1>5 DEF Next

\* The partial unique index is never contradicted by what the table shows, for
\* any number of racing producers and workers of every kind.
THEOREM ActiveUniqueHolds == Spec => []ActiveUnique
<1>1. UInv => ActiveUnique
  <2> SUFFICES ASSUME UInv, NEW j \in JobIds, NEW k \in JobIds, j # k, jobs[j] # NoRow,
                      jobs[j].status \in Active,
                      ActiveFor(jobs[k], jobs[j].doc, jobs[j].type)
               PROVE  FALSE
    BY DEF ActiveUnique
  <2>1. Clash(jobs[j], jobs[k])
    BY DEF Clash, ActiveFor
  <2> QED BY <2>1 DEF UInv, NoClash, Version
<1> QED BY <1>1, InitUInv, NextUInv, PTL DEF Spec

-----------------------------------------------------------------------------
(* A success and its follow-up.  run_once enqueues the vector job between  *)
(* the outcome and the commit, so the commit publishes the success only    *)
(* with a view in which the job exists; a long transaction never finishes  *)
(* a process_document job, and what it commits takes no row away.          *)

Succeeded(row) ==
  row # NoRow /\ row.type = "process_document" /\ row.status = "succeeded"

\* A table of rows shows a vector job of the document.
Shows(table, d) ==
  \E k \in JobIds : /\ table[k] # NoRow
                    /\ table[k].doc = d
                    /\ table[k].type = "vector_index_document"

\* No row disappears, or changes its document or type.
RowsStay(old, new) ==
  \A k \in JobIds : old[k] # NoRow => /\ new[k] # NoRow
                                      /\ new[k].doc = old[k].doc
                                      /\ new[k].type = old[k].type

\* A transaction about to commit a success sees the vector job, its own or a
\* committed one.
ChainSeen ==
  \A w \in Workers :
    pc[w] = "commit" /\ Succeeded(writes[w][held[w]]) =>
      Shows(View(w), writes[w][held[w]].doc)

FInv == UInv /\ SuccessHasFollowUp /\ ChainSeen

LEMMA StaysShown ==
  ASSUME NEW old, NEW new, RowsStay(old, new), NEW d, Shows(old, d)
  PROVE  Shows(new, d)
BY DEF RowsStay, Shows

LEMMA CommittedShown ==
  SuccessHasFollowUp <=> \A j \in JobIds : Succeeded(jobs[j]) => Shows(jobs, jobs[j].doc)
BY DEF SuccessHasFollowUp, Succeeded, Shows

\* A commit publishes versions of the rows of the table.
LEMMA PublishStays ==
  ASSUME UInv, NEW w \in Workers
  PROVE  RowsStay(jobs, View(w))
BY DEF RowsStay, View, UInv, SameJob

\* Only run_once finishes a process_document job.
LEMMA OnlyRunOnce ==
  ASSUME UInv, NEW w \in Workers, NEW j \in JobIds, Succeeded(writes[w][j])
  PROVE  w \in PipelineWorkers /\ held[w] = j /\ pc[w] \in {"enqueue", "insert", "commit"}
<1>1. \/ w \in LongTx /\ writes[w][j].type \in Claims(w)
      \/ w \in ShortTx /\ held[w] = j
  BY DEF UInv, OwnFinished, Succeeded, Active
<1>2. ~ (w \in LongTx /\ writes[w][j].type \in Claims(w))
  BY KindsAssumption DEF Claims, LongTx, Succeeded
<1>3. held[w] = j
  BY <1>1, <1>2
<1>4. pc[w] \in Busy
  <2>1. pc[w] \notin {"aborted", "stuck"}
    BY DEF UInv, IInv, Shape, NoWrites, Succeeded
  <2>2. pc[w] \notin {"loop", "claim"}
    BY <1>3, NoJobAssumption DEF UInv, IInv, Shape
  <2> QED BY <2>1, <2>2 DEF UInv, IInv, TypeOK, PC, Busy
<1>5. pc[w] # "work" /\ writes[w][j].type \in Claims(w)
  BY <1>3, <1>4 DEF UInv, WorkRuns, Succeeded, Busy
<1>6. w \in PipelineWorkers
  BY <1>1, <1>2, <1>5, KindsAssumption DEF Claims, ShortTx, Succeeded
<1> QED BY <1>3, <1>4, <1>5, <1>6 DEF Busy

LEMMA HoldsProcess ==
  ASSUME UInv, NEW w \in Workers, pc[w] \in Busy,
         writes[w][held[w]].type = "process_document"
  PROVE  w \in PipelineWorkers
BY KindsAssumption DEF UInv, WorkRuns, Claims, Workers, LongTx, ShortTx

\* A step keeps the invariant when the table loses nothing and what is new in
\* it, or newly about to be committed, shows its vector job.
LEMMA FollowStep ==
  ASSUME FInv, UInv', RowsStay(jobs, jobs'),
         \A j \in JobIds : Succeeded(jobs'[j]) =>
           (Succeeded(jobs[j]) /\ jobs'[j].doc = jobs[j].doc) \/ Shows(jobs', jobs'[j].doc),
         \A v \in Workers : pc'[v] = "commit" /\ Succeeded(writes'[v][held'[v]]) =>
           \/ pc[v] = "commit" /\ held'[v] = held[v] /\ writes'[v] = writes[v]
           \/ Shows(View(v)', writes'[v][held'[v]].doc)
  PROVE  FInv'
<1>1. \A j \in JobIds : Succeeded(jobs'[j]) => Shows(jobs', jobs'[j].doc)
  BY CommittedShown, StaysShown DEF FInv
<1>2. SuccessHasFollowUp'
  BY <1>1 DEF SuccessHasFollowUp, Succeeded, Shows
<1>3. ASSUME NEW v \in Workers, pc'[v] = "commit", Succeeded(writes'[v][held'[v]])
      PROVE  Shows(View(v)', writes'[v][held'[v]].doc)
  <2>1. CASE pc[v] = "commit" /\ held'[v] = held[v] /\ writes'[v] = writes[v]
    <3>1. Shows(View(v), writes[v][held[v]].doc)
      BY <1>3, <2>1 DEF FInv, ChainSeen
    <3>2. RowsStay(View(v), View(v)')
      BY <2>1 DEF RowsStay, View
    <3> QED BY <2>1, <3>1, <3>2, StaysShown
  <2> QED BY <1>3, <2>1
<1>4. ChainSeen'
  BY <1>3 DEF ChainSeen, Succeeded, Shows
<1> QED BY <1>2, <1>4 DEF FInv

\* A step of w that leaves the table alone and does not arrive at its commit
\* with a success.
LEMMA QuietStep ==
  ASSUME FInv, UInv', NEW w \in Workers, UNCHANGED jobs,
         \A v \in Workers \ {w} : pc'[v] = pc[v] /\ held'[v] = held[v] /\ writes'[v] = writes[v],
         pc'[w] # "commit" \/ ~ Succeeded(writes'[w][held'[w]])
  PROVE  FInv'
<1>1. RowsStay(jobs, jobs')
  BY DEF RowsStay
<1> QED BY <1>1, FollowStep

LEMMA InitFInv == Init => FInv
BY InitUInv DEF Init, FInv, SuccessHasFollowUp, ChainSeen

LEMMA EnqueueFInv ==
  ASSUME FInv, UInv', NEW d \in Docs, NEW t \in JobTypes, Enqueue(d, t)
  PROVE  FInv'
<1>1. PICK j \in JobIds : NextId(j) /\ jobs' = [jobs EXCEPT ![j] = NewJob(d, t)]
  BY DEF Enqueue
<1>2. jobs[j] = NoRow
  BY <1>1, JobIdsAssumption DEF NextId, Later, Used
<1>3. jobs'[j] = NewJob(d, t) /\ \A k \in JobIds : k # j => jobs'[k] = jobs[k]
  BY <1>1 DEF FInv, UInv, IInv, TypeOK
<1>4. RowsStay(jobs, jobs')
  BY <1>2, <1>3 DEF RowsStay
<1>5. UNCHANGED <<writes, pc, held>>
  BY DEF Enqueue
<1> QED BY <1>3, <1>4, <1>5, FollowStep DEF Succeeded, NewJob

LEMMA QuietSteps ==
  ASSUME FInv, UInv', NEW w \in Workers,
         \/ Reap(w) \/ Claim(w) \/ NothingToClaim(w) \/ WorkSucceeds(w) \/ WorkFails(w)
         \/ NextIteration(w) \/ Rollback(w) \/ DatabaseError(w) \/ Crash(w)
  PROVE  FInv'
<1>1. UNCHANGED jobs
  BY DEF Reap, Claim, NothingToClaim, WorkSucceeds, WorkFails, NextIteration, Rollback,
         DatabaseError, Crash
<1>2. \A v \in Workers \ {w} : pc'[v] = pc[v] /\ held'[v] = held[v] /\ writes'[v] = writes[v]
  BY DEF Reap, Claim, NothingToClaim, WorkSucceeds, WorkFails, NextIteration, Rollback,
         DatabaseError, Crash, FInv, UInv, IInv, TypeOK
<1>3. pc'[w] # "commit" \/ ~ Succeeded(writes'[w][held'[w]])
  <2>1. CASE WorkFails(w)
    <3>1. held[w] \in JobIds /\ writes[w][held[w]] \in Job
      BY <2>1 DEF WorkFails, FInv, UInv, IInv, TypeOK, Shape, Busy
    <3>2. writes'[w][held'[w]] = Failed(writes[w][held[w]])
      BY <2>1, <3>1 DEF WorkFails, FInv, UInv, IInv, TypeOK
    <3>3. Failed(writes[w][held[w]]).status # "succeeded"
      BY <3>1 DEF Failed, Job
    <3> QED BY <3>2, <3>3 DEF Succeeded
  <2>2. CASE WorkSucceeds(w)
    <3>1. held[w] \in JobIds /\ writes[w][held[w]] \in Job
      BY <2>2 DEF WorkSucceeds, FInv, UInv, IInv, TypeOK, Shape, Busy
    <3>2. writes'[w][held'[w]] = [writes[w][held[w]] EXCEPT !.status = "succeeded"]
      BY <2>2, <3>1 DEF WorkSucceeds, FInv, UInv, IInv, TypeOK
    <3>3. writes'[w][held'[w]].type = writes[w][held[w]].type
      BY <3>1, <3>2 DEF Job
    <3>4. ASSUME Succeeded(writes'[w][held'[w]])
          PROVE  pc'[w] # "commit"
      <4>1. writes[w][held[w]].type = "process_document"
        BY <3>3, <3>4 DEF Succeeded
      <4>2. w \in PipelineWorkers
        BY <2>2, <4>1, HoldsProcess DEF WorkSucceeds, FInv, Busy
      <4>3. FollowUp(w, writes[w][held[w]].type) = {"vector_index_document"}
        BY <4>1, <4>2, KindsAssumption DEF FollowUp, LongTx
      <4>4. pc' = [pc EXCEPT ![w] = "enqueue"]
        BY <2>2, <4>3 DEF WorkSucceeds
      <4> QED BY <4>4 DEF FInv, UInv, IInv, TypeOK
    <3> QED BY <3>4
  <2>3. CASE ~ (WorkFails(w) \/ WorkSucceeds(w))
    BY <2>3 DEF Reap, Claim, NothingToClaim, NextIteration, Rollback, DatabaseError, Crash,
               FInv, UInv, IInv, TypeOK
  <2> QED BY <2>1, <2>2, <2>3
<1> QED BY <1>1, <1>2, <1>3, QuietStep

\* The two statements of enqueue_document reach the commit with the job in
\* sight.
LEMMA EnqueueDocumentFInv ==
  ASSUME FInv, UInv', NEW w \in Workers, EnqueueSelect(w) \/ EnqueueInsert(w)
  PROVE  FInv'
<1> DEFINE row == writes[w][held[w]]
<1>1. held[w] \in JobIds /\ row \in Job /\ held' = held /\ jobs' = jobs
  BY DEF EnqueueSelect, EnqueueInsert, FInv, UInv, IInv, TypeOK, Shape, Busy
<1>2. \A v \in Workers \ {w} : pc'[v] = pc[v] /\ held'[v] = held[v] /\ writes'[v] = writes[v]
  BY DEF EnqueueSelect, EnqueueInsert, FInv, UInv, IInv, TypeOK
<1>3. RowsStay(jobs, jobs')
  BY <1>1 DEF RowsStay
<1>4. ASSUME pc'[w] = "commit", Succeeded(writes'[w][held'[w]])
      PROVE  Shows(View(w)', writes'[w][held'[w]].doc)
  <2>1. w \in PipelineWorkers
    <3>1. writes'[w][held[w]].type = row.type
      <4>1. CASE EnqueueSelect(w)
        BY <4>1 DEF EnqueueSelect
      <4>2. CASE EnqueueInsert(w)
        <5>1. PICK t \in FollowUp(w, row.type), j \in JobIds :
                NextId(j) /\ writes' = [writes EXCEPT ![w][j] = NewJob(row.doc, t)]
          BY <1>4, <4>2 DEF EnqueueInsert, FInv, UInv, IInv, TypeOK
        <5>2. j # held[w]
          BY <1>1, <5>1, JobIdsAssumption, NoRowAssumption DEF NextId, Later, Used
        <5> QED BY <1>1, <5>1, <5>2 DEF FInv, UInv, IInv, TypeOK
      <4> QED BY <4>1, <4>2
    <3> QED BY <1>1, <1>4, <3>1, HoldsProcess
            DEF Succeeded, FInv, Busy, EnqueueSelect, EnqueueInsert
  <2>2. \A t, u : u \in FollowUp(w, t) => u = "vector_index_document"
    BY <2>1, KindsAssumption DEF FollowUp, LongTx
  <2>3. CASE EnqueueSelect(w)
    <3>1. writes' = writes
      BY <2>3 DEF EnqueueSelect
    <3>2. PICK t \in FollowUp(w, row.type) :
            pc' = [pc EXCEPT ![w] =
                     IF \E j \in JobIds : ActiveFor(View(w)[j], row.doc, t)
                     THEN "commit" ELSE "insert"]
      BY <2>3 DEF EnqueueSelect
    <3>3. \E j \in JobIds : ActiveFor(View(w)[j], row.doc, "vector_index_document")
      BY <2>2, <3>2, <1>4 DEF FInv, UInv, IInv, TypeOK
    <3>4. Shows(View(w), row.doc)
      BY <3>3 DEF Shows, ActiveFor
    <3>5. View(w)' = View(w)
      BY <1>1, <3>1 DEF View
    <3> QED BY <1>1, <3>1, <3>4, <3>5
  <2>4. CASE EnqueueInsert(w)
    <3>1. PICK t \in FollowUp(w, row.type), j \in JobIds :
            NextId(j) /\ writes' = [writes EXCEPT ![w][j] = NewJob(row.doc, t)]
      BY <2>4, <1>4 DEF EnqueueInsert, FInv, UInv, IInv, TypeOK
    <3>2. writes[w][j] = NoRow
      BY <3>1, JobIdsAssumption DEF NextId, Later, Used
    <3>3. j # held[w]
      BY <1>1, <3>2, NoRowAssumption
    <3> DEFINE new == NewJob(row.doc, t)
    <3>4. new.doc = row.doc /\ new.type = "vector_index_document" /\ new # NoRow
      <4>1. new \in Job
        BY <1>1, <2>2, RowTypes DEF Job, JobTypes
      <4> QED BY <2>2, <4>1, NoRowAssumption DEF NewJob
    <3>5. writes'[w][j] = new /\ writes'[w][held[w]] = row
      BY <3>1, <3>3, <1>1 DEF FInv, UInv, IInv, TypeOK
    <3> HIDE DEF new
    <3>6. View(w)'[j] = new
      BY <3>4, <3>5 DEF View
    <3>7. writes'[w][held'[w]].doc = row.doc
      BY <1>1, <3>5
    <3> QED BY <3>4, <3>6, <3>7 DEF Shows
  <2> QED BY <2>3, <2>4
<1> QED BY <1>1, <1>2, <1>3, <1>4, FollowStep

\* A commit publishes the success with the view that shows its job.
LEMMA PublishFInv ==
  ASSUME FInv, UInv', NEW w \in Workers, Commit(w) \/ Interrupt(w)
  PROVE  FInv'
<1>1. jobs' = View(w)
  BY DEF Commit, Interrupt
<1>2. RowsStay(jobs, jobs')
  BY <1>1, PublishStays DEF FInv
<1>3. pc'[w] = "loop"
      /\ \A v \in Workers \ {w} : pc'[v] = pc[v] /\ held'[v] = held[v] /\ writes'[v] = writes[v]
  BY DEF Commit, Interrupt, FInv, UInv, IInv, TypeOK
<1>4. ASSUME NEW j \in JobIds, Succeeded(jobs'[j])
      PROVE  (Succeeded(jobs[j]) /\ jobs'[j].doc = jobs[j].doc) \/ Shows(jobs', jobs'[j].doc)
  <2>1. CASE writes[w][j] = NoRow
    BY <1>1, <1>4, <2>1 DEF View
  <2>2. CASE writes[w][j] # NoRow
    <3>1. jobs'[j] = writes[w][j]
      BY <1>1, <2>2 DEF View
    <3>2. w \in PipelineWorkers /\ held[w] = j
      BY <1>4, <3>1, OnlyRunOnce DEF FInv
    <3>3. pc[w] = "commit"
      BY <3>2, KindsAssumption DEF Commit, Interrupt
    <3> QED BY <1>1, <1>4, <3>1, <3>2, <3>3 DEF FInv, ChainSeen
  <2> QED BY <2>1, <2>2
<1> QED BY <1>2, <1>3, <1>4, FollowStep

LEMMA TimeFInv ==
  ASSUME FInv, UInv', NEW j \in JobIds, BackoffElapses(j) \/ LockAges(j)
  PROVE  FInv'
<1>1. pc' = pc /\ held' = held
  BY DEF BackoffElapses, LockAges
<1>2. CASE UNCHANGED writes /\ jobs[j] # NoRow
           /\ jobs' \in {[jobs EXCEPT ![j].due = TRUE], [jobs EXCEPT ![j].stale = TRUE]}
  <2>1. jobs[j] \in Job
    BY <1>2 DEF FInv, UInv, IInv, TypeOK
  <2>2. [jobs[j] EXCEPT !.due = TRUE] \in Job /\ [jobs[j] EXCEPT !.stale = TRUE] \in Job
    BY <2>1, RowTypes
  <2>3. jobs'[j] # NoRow /\ jobs'[j].doc = jobs[j].doc /\ jobs'[j].type = jobs[j].type
        /\ jobs'[j].status = jobs[j].status
    <3>1. jobs'[j] \in {[jobs[j] EXCEPT !.due = TRUE], [jobs[j] EXCEPT !.stale = TRUE]}
      BY <1>2 DEF FInv, UInv, IInv, TypeOK
    <3> QED BY <2>1, <2>2, <3>1, NoRowAssumption DEF Job
  <2>4. \A k \in JobIds : k # j => jobs'[k] = jobs[k]
    BY <1>2 DEF FInv, UInv, IInv, TypeOK
  <2>5. RowsStay(jobs, jobs')
    BY <2>3, <2>4 DEF RowsStay
  <2> QED BY <1>1, <1>2, <2>3, <2>4, <2>5, FollowStep DEF Succeeded
<1>3. CASE \E w \in LongTx : writes' = [writes EXCEPT ![w][j].due = TRUE] /\ UNCHANGED jobs
  <2>1. PICK w \in LongTx : writes' = [writes EXCEPT ![w][j].due = TRUE] /\ UNCHANGED jobs
    BY <1>3
  <2>2. w \in Workers /\ w \notin PipelineWorkers
    BY KindsAssumption DEF Workers
  <2>3. \A v \in Workers \ {w} : writes'[v] = writes[v]
    BY <2>1 DEF FInv, UInv, IInv, TypeOK
  <2>4. pc'[w] # "commit" \/ ~ Succeeded(writes'[w][held'[w]])
    <3>1. pc'[w] = "commit" => writes'[w][held'[w]].type \in Claims(w)
      BY <2>2 DEF UInv, WorkRuns, Busy
    <3>2. "process_document" \notin Claims(w)
      BY KindsAssumption DEF Claims, LongTx
    <3> QED BY <3>1, <3>2 DEF Succeeded
  <2> QED BY <1>1, <2>1, <2>2, <2>3, <2>4, QuietStep
<1> QED BY <1>2, <1>3 DEF BackoffElapses, LockAges

LEMMA NextFInv == FInv /\ [Next]_vars => FInv'
<1> SUFFICES ASSUME FInv, [Next]_vars PROVE FInv'
  OBVIOUS
<1>0. UInv'
  BY NextUInv DEF FInv
<1>1. CASE \E d \in Docs, t \in JobTypes : Enqueue(d, t)
  BY <1>0, <1>1, EnqueueFInv
<1>2. CASE \E w \in Workers : WorkerStep(w) \/ Fault(w)
  BY <1>0, <1>2, QuietSteps, EnqueueDocumentFInv, PublishFInv DEF WorkerStep, Fault
<1>3. CASE \E j \in JobIds : BackoffElapses(j) \/ LockAges(j)
  BY <1>0, <1>3, TimeFInv
<1>4. CASE UNCHANGED vars
  BY <1>0, <1>4 DEF vars, FInv, SuccessHasFollowUp, ChainSeen, View, Succeeded, Shows
<1> QED BY <1>1, <1>2, <1>3, <1>4 DEF Next

\* A processed document has its vector job in the same commit or before it,
\* for any number of workers of every kind.
THEOREM SuccessHasFollowUpHolds == Spec => []SuccessHasFollowUp
<1>1. FInv => SuccessHasFollowUp
  BY DEF FInv
<1> QED BY <1>1, InitFInv, NextFInv, PTL DEF Spec

-----------------------------------------------------------------------------
(* The deployed workers, pipeline and vector: a job is attempted in one    *)
(* transaction.  The invariant says what an open transaction has written:  *)
(* the row of the job it holds, one attempt later than the table, and at   *)
(* most one more row, the follow-up of a success.                          *)

Deployed == TranslationWorkers = {} /\ IndexWorkers = {}

HasVectorRow(d) ==
  \E k \in JobIds : jobs[k] # NoRow /\ jobs[k].doc = d /\ jobs[k].type = "vector_index_document"

\* The job a worker holds is queued and due in the table; its own version of
\* the row is that of the next attempt.
Attempt(w) ==
  LET j == held[w] IN
  /\ jobs[j] # NoRow /\ jobs[j].status \in {"pending", "retry"} /\ jobs[j].due
  /\ jobs[j].type \in Claims(w)
  /\ writes[w][j].doc = jobs[j].doc /\ writes[w][j].type = jobs[j].type
  /\ writes[w][j].attempts = jobs[j].attempts + 1

\* What the statements so far have made of the attempt.
Outcome(w) ==
  LET row == writes[w][held[w]] IN
  /\ pc[w] = "work" => row.status = "running"
  /\ pc[w] \in {"enqueue", "insert"} =>
       w \in PipelineWorkers /\ row.status = "succeeded" /\ row.type = "process_document"
  /\ pc[w] = "commit" =>
       \/ /\ row.status = "succeeded"
          /\ row.type = "process_document" =>
               \/ HasVectorRow(row.doc)
               \/ \E k \in JobIds \ {held[w]} : writes[w][k] # NoRow
       \/ row.status = "retry" /\ row.attempts < MaxAttempts
       \/ row.status = "dead_letter" /\ row.attempts >= MaxAttempts

\* Any other row of the transaction is the new follow-up of a success.
Chained(w) ==
  LET row == writes[w][held[w]] IN
  /\ \A k \in JobIds \ {held[w]} : writes[w][k] # NoRow =>
       /\ pc[w] = "commit" /\ jobs[k] = NoRow
       /\ row.status = "succeeded" /\ row.type = "process_document"
       /\ writes[w][k] = NewJob(row.doc, "vector_index_document")
  /\ \A k, l \in JobIds \ {held[w]} : writes[w][k] # NoRow /\ writes[w][l] # NoRow => k = l

Attempting(w) ==
  /\ pc[w] \notin {"claim", "stuck"}
  /\ pc[w] = "loop" => writes[w] = NoWrites
  /\ pc[w] \in Busy => Attempt(w) /\ Outcome(w) /\ Chained(w)

AInv ==
  /\ IInv /\ RunningNeverCommitted /\ AttemptsAccount
  /\ \A w \in Workers : Attempting(w)

LEMMA OnlyShort ==
  ASSUME Deployed, NEW w \in Workers
  PROVE  /\ w \in ShortTx /\ w \notin LongTx /\ w \notin TranslationWorkers /\ w \notin IndexWorkers
         /\ w \notin PipelineWorkers => w \in VectorWorkers
BY DEF Deployed, Workers, LongTx, ShortTx

LEMMA InitAInv == Init => AInv
<1> SUFFICES ASSUME Init PROVE AInv
  OBVIOUS
<1>1. IInv
  BY InitIInv
<1>2. RunningNeverCommitted /\ AttemptsAccount
  BY DEF Init, RunningNeverCommitted, AttemptsAccount
<1> QED BY <1>1, <1>2 DEF Init, AInv, Attempting, Busy

\* A queued job has attempts left.
LEMMA QueuedAttempts ==
  ASSUME AInv, NEW j \in JobIds, jobs[j] # NoRow, jobs[j].status \in {"pending", "retry"}
  PROVE  jobs[j].attempts \in 0..(MaxAttempts - 1)
BY AttemptsAssumption DEF AInv, AttemptsAccount

\* A worker's part of the invariant speaks of its own rows, and of the rows of
\* the table they are versions of.
LEMMA AttemptingKept ==
  ASSUME AInv, NEW v \in Workers, writes'[v] = writes[v], pc'[v] = pc[v], held'[v] = held[v],
         \A k \in JobIds : writes[v][k] # NoRow => jobs'[k] = jobs[k],
         \A k \in JobIds : jobs[k] # NoRow => /\ jobs'[k] # NoRow
                                             /\ jobs'[k].doc = jobs[k].doc
                                             /\ jobs'[k].type = jobs[k].type
  PROVE  Attempting(v)'
<1>1. CASE pc[v] \in Busy
  <2>1. held[v] \in JobIds /\ jobs'[held[v]] = jobs[held[v]]
    BY <1>1 DEF AInv, IInv, Shape
  <2>2. \A d : HasVectorRow(d) => HasVectorRow(d)'
    BY DEF HasVectorRow
  <2>3. Attempt(v)'
    <3>1. Attempt(v)
      BY <1>1 DEF AInv, Attempting
    <3>2. Claims(v)' = Claims(v)
      BY DEF Claims
    <3> QED BY <2>1, <3>1, <3>2 DEF Attempt
  <2>4. Outcome(v)'
    BY <1>1, <2>2 DEF AInv, Attempting, Outcome
  <2>5. Chained(v)'
    <3>1. Chained(v)
      BY <1>1 DEF AInv, Attempting
    <3>2. \A k \in JobIds \ {held[v]} : writes'[v][k] # NoRow => jobs'[k] = NoRow
      BY <3>1 DEF Chained
    <3>3. \A d : NewJob(d, "vector_index_document")' = NewJob(d, "vector_index_document")
      BY DEF NewJob
    <3> QED BY <3>1, <3>2, <3>3 DEF Chained
  <2> QED BY <1>1, <2>3, <2>4, <2>5 DEF AInv, Attempting
<1>2. CASE pc[v] \notin Busy
  BY <1>2 DEF AInv, Attempting
<1> QED BY <1>1, <1>2

\* A step that touches one worker and not the table.
LEMMA AttemptStep ==
  ASSUME AInv, IInv', NEW w \in Workers, UNCHANGED jobs,
         \A v \in Workers \ {w} : writes'[v] = writes[v] /\ pc'[v] = pc[v] /\ held'[v] = held[v],
         Attempting(w)'
  PROVE  AInv'
<1>1. (RunningNeverCommitted /\ AttemptsAccount)'
  BY DEF AInv, RunningNeverCommitted, AttemptsAccount
<1>2. \A v \in Workers \ {w} : Attempting(v)'
  BY AttemptingKept
<1> QED BY <1>1, <1>2 DEF AInv

LEMMA EnqueueAInv ==
  ASSUME AInv, IInv', NEW d \in Docs, NEW t \in JobTypes, Enqueue(d, t)
  PROVE  AInv'
<1>1. PICK j \in JobIds : NextId(j) /\ jobs' = [jobs EXCEPT ![j] = NewJob(d, t)]
  BY DEF Enqueue
<1>2. jobs[j] = NoRow /\ \A w \in Workers : writes[w][j] = NoRow
  <2>1. j \notin Used
    BY <1>1, JobIdsAssumption DEF NextId, Later
  <2> QED BY <2>1 DEF Used
<1>3. \A k \in JobIds : jobs'[k] = IF k = j THEN NewJob(d, t) ELSE jobs[k]
  BY <1>1 DEF AInv, IInv, TypeOK
<1>4. NewJob(d, t).status = "pending" /\ NewJob(d, t).attempts = 0
  BY DEF NewJob
<1>5. \A v \in Workers : Attempting(v)'
  <2> SUFFICES ASSUME NEW v \in Workers PROVE Attempting(v)'
    OBVIOUS
  <2>1. UNCHANGED <<writes, pc, held>>
    BY DEF Enqueue
  <2> QED BY <1>2, <1>3, <2>1, AttemptingKept
<1>6. RunningNeverCommitted' /\ AttemptsAccount'
  BY <1>3, <1>4 DEF AInv, RunningNeverCommitted, AttemptsAccount
<1> QED BY <1>5, <1>6 DEF AInv

\* At the top of the loop a transaction has written nothing, so it sees the table.
LEMMA NothingStale ==
  ASSUME AInv, NEW w \in Workers, pc[w] = "loop"
  PROVE  (\A j \in JobIds : View(w)[j] = jobs[j]) /\ StaleFor(w) = {}
<1>1. \A j \in JobIds : View(w)[j] = jobs[j]
  BY DEF AInv, Attempting, View, NoWrites
<1> QED BY <1>1 DEF StaleFor, AInv, RunningNeverCommitted

LEMMA ClaimAInv ==
  ASSUME AInv, IInv', NEW w \in Workers, Claim(w)
  PROVE  AInv'
<1>0. pc[w] = "loop" /\ writes[w] = NoWrites
  BY DEF Claim, AInv, Attempting
<1>1. PICK j \in Eligible(w) :
        /\ writes' = [writes EXCEPT ![w][j] = Claimed(View(w)[j])]
        /\ held' = [held EXCEPT ![w] = j]
  BY DEF Claim
<1>2. /\ j \in JobIds /\ View(w)[j] = jobs[j] /\ jobs[j] \in Job /\ jobs[j] # NoRow
      /\ jobs[j].status \in {"pending", "retry"} /\ jobs[j].due /\ jobs[j].type \in Claims(w)
  BY <1>0, NothingStale DEF Eligible, AInv, IInv, TypeOK
<1> DEFINE new == Claimed(jobs[j])
<1>3. /\ new.doc = jobs[j].doc /\ new.type = jobs[j].type
      /\ new.status = "running" /\ new.attempts = jobs[j].attempts + 1
  BY <1>2 DEF Claimed, Job
<1> HIDE DEF new
<1>4. /\ \A v \in Workers \ {w} : writes'[v] = writes[v] /\ pc'[v] = pc[v] /\ held'[v] = held[v]
      /\ held'[w] = j /\ pc'[w] = "work"
      /\ \A k \in JobIds : writes'[w][k] = IF k = j THEN new ELSE NoRow
  BY <1>0, <1>1, <1>2 DEF Claim, AInv, IInv, TypeOK, NoWrites, new
<1>5. UNCHANGED jobs
  BY DEF Claim
<1>6. Attempting(w)'
  <2>1. Attempt(w)'
    BY <1>2, <1>3, <1>4, <1>5 DEF Attempt, Claims
  <2>2. Outcome(w)'
    BY <1>2, <1>3, <1>4 DEF Outcome
  <2>3. Chained(w)'
    BY <1>2, <1>4 DEF Chained
  <2> QED BY <1>4, <2>1, <2>2, <2>3 DEF Attempting
<1> QED BY <1>4, <1>5, <1>6, AttemptStep

\* The service returns or raises, and the row says so.
LEMMA WorkAInv ==
  ASSUME Deployed, AInv, IInv', NEW w \in Workers, WorkSucceeds(w) \/ WorkFails(w)
  PROVE  AInv'
<1> DEFINE j == held[w]
           old == writes[w][j]
<1>1. /\ pc[w] = "work" /\ Attempt(w) /\ Chained(w)
      /\ j \in JobIds /\ old \in Job /\ old # NoRow
  BY DEF WorkSucceeds, WorkFails, AInv, Attempting, Busy, IInv, Shape, TypeOK
<1>2. PICK new \in Job, next \in {"commit", "enqueue"} :
        /\ writes' = [writes EXCEPT ![w][j] = new] /\ pc' = [pc EXCEPT ![w] = next]
        /\ new.doc = old.doc /\ new.type = old.type /\ new.attempts = old.attempts
        /\ \/ /\ new.status = "succeeded"
              /\ next = IF FollowUp(w, old.type) = {} THEN "commit" ELSE "enqueue"
           \/ next = "commit" /\ new.status = "retry" /\ new.attempts < MaxAttempts
           \/ next = "commit" /\ new.status = "dead_letter" /\ new.attempts >= MaxAttempts
  <2>1. CASE WorkSucceeds(w)
    <3> DEFINE new == [old EXCEPT !.status = "succeeded"]
               next == IF FollowUp(w, old.type) = {} THEN "commit" ELSE "enqueue"
    <3>1. writes' = [writes EXCEPT ![w][j] = new] /\ pc' = [pc EXCEPT ![w] = next]
      BY <2>1 DEF WorkSucceeds
    <3>2. /\ new \in Job /\ new.doc = old.doc /\ new.type = old.type
          /\ new.attempts = old.attempts /\ new.status = "succeeded"
      BY <1>1, RowTypes DEF Job
    <3> HIDE DEF new
    <3> QED BY <3>1, <3>2
  <2>2. CASE WorkFails(w)
    <3> DEFINE new == Failed(old)
    <3>1. writes' = [writes EXCEPT ![w][j] = new] /\ pc' = [pc EXCEPT ![w] = "commit"]
      BY <2>2 DEF WorkFails
    <3>2. /\ new \in Job /\ new.doc = old.doc /\ new.type = old.type
          /\ new.attempts = old.attempts
      BY <1>1, RowTypes DEF Job, Failed
    <3>3. \/ new.status = "retry" /\ old.attempts < MaxAttempts
          \/ new.status = "dead_letter" /\ old.attempts >= MaxAttempts
      BY <1>1, AttemptsAssumption DEF Job, Failed
    <3> HIDE DEF new
    <3> QED BY <3>1, <3>2, <3>3
  <2> QED BY <2>1, <2>2
<1>3. UNCHANGED <<jobs, held>>
  BY DEF WorkSucceeds, WorkFails
<1>4. /\ \A v \in Workers \ {w} : writes'[v] = writes[v] /\ pc'[v] = pc[v] /\ held'[v] = held[v]
      /\ \A k \in JobIds : writes'[w][k] = IF k = j THEN new ELSE writes[w][k]
      /\ pc'[w] = next
  BY <1>1, <1>2, <1>3 DEF AInv, IInv, TypeOK
<1>5. Attempting(w)'
  <2>1. Attempt(w)'
    BY <1>1, <1>2, <1>3, <1>4 DEF Attempt, Claims
  <2>2. \A k \in JobIds \ {j} : writes'[w][k] = NoRow
    BY <1>1, <1>4 DEF Chained
  <2>3. Chained(w)'
    BY <2>2, <1>3 DEF Chained
  <2>4. new.type \in Claims(w)
    BY <1>1, <1>2 DEF Attempt
  <2>5. Outcome(w)'
    <3>1. next = "enqueue" => w \in PipelineWorkers /\ new.type = "process_document"
                              /\ new.status = "succeeded"
      BY <1>2, OnlyShort DEF FollowUp
    <3>2. new.type = "process_document" /\ new.status = "succeeded" => next = "enqueue"
      <4>1. new.type = "process_document" => w \in PipelineWorkers
        BY <2>4, OnlyShort, KindsAssumption DEF Claims
      <4> QED BY <1>2, <4>1 DEF FollowUp
    <3>3. held'[w] \in JobIds /\ writes'[w][held'[w]] = new
      BY <1>1, <1>3, <1>4
    <3> QED BY <1>2, <1>4, <3>1, <3>2, <3>3 DEF Outcome
  <2> QED BY <1>4, <2>1, <2>3, <2>5 DEF Attempting
<1> QED BY <1>3, <1>4, <1>5, AttemptStep

LEMMA SelectAInv ==
  ASSUME Deployed, AInv, IInv', NEW w \in Workers, EnqueueSelect(w)
  PROVE  AInv'
<1> DEFINE j == held[w]
           row == writes[w][j]
<1>1. /\ pc[w] = "enqueue" /\ Attempt(w) /\ Outcome(w) /\ Chained(w) /\ j \in JobIds
  BY DEF EnqueueSelect, AInv, Attempting, Busy, IInv, Shape
<1>2. /\ w \in PipelineWorkers /\ row.status = "succeeded" /\ row.type = "process_document"
      /\ \A k \in JobIds \ {j} : writes[w][k] = NoRow
  BY <1>1 DEF Outcome, Chained
<1> HIDE DEF row
<1>3. PICK next \in {"insert", "commit"} :
        /\ pc' = [pc EXCEPT ![w] = next]
        /\ next = "commit" =>
             \E k \in JobIds : ActiveFor(View(w)[k], row.doc, "vector_index_document")
  <2>1. FollowUp(w, row.type) = {"vector_index_document"}
    BY <1>2, OnlyShort DEF FollowUp
  <2> QED BY <2>1 DEF EnqueueSelect, row
<1> USE DEF row
<1>4. next = "commit" => HasVectorRow(row.doc)
  <2> SUFFICES ASSUME NEW k \in JobIds, ActiveFor(View(w)[k], row.doc, "vector_index_document")
               PROVE  HasVectorRow(row.doc)
    BY <1>3
  <2>1. k # j
    <3>1. View(w)[j].type = "process_document"
      BY <1>1, <1>2 DEF View, Attempt
    <3> QED BY <3>1 DEF ActiveFor
  <2>2. View(w)[k] = jobs[k]
    BY <1>2, <2>1 DEF View
  <2> QED BY <2>2 DEF ActiveFor, HasVectorRow
<1>5. /\ UNCHANGED <<jobs, writes, held>> /\ pc'[w] = next
      /\ \A v \in Workers \ {w} : pc'[v] = pc[v]
  BY <1>3 DEF EnqueueSelect, AInv, IInv, TypeOK
<1>6. Attempting(w)'
  <2>1. Attempt(w)'
    BY <1>1, <1>5 DEF Attempt, Claims
  <2>2. Outcome(w)'
    BY <1>2, <1>4, <1>5 DEF Outcome, HasVectorRow
  <2>3. Chained(w)'
    BY <1>2, <1>5 DEF Chained
  <2> QED BY <1>5, <2>1, <2>2, <2>3 DEF Attempting
<1> QED BY <1>5, <1>6, AttemptStep

LEMMA InsertAInv ==
  ASSUME Deployed, AInv, IInv', NEW w \in Workers, EnqueueInsert(w)
  PROVE  AInv'
<1> DEFINE j == held[w]
           row == writes[w][j]
           new == NewJob(row.doc, "vector_index_document")
<1>1. /\ pc[w] = "insert" /\ Attempt(w) /\ Outcome(w) /\ Chained(w)
      /\ j \in JobIds /\ row # NoRow /\ row \in Job
  BY DEF EnqueueInsert, AInv, Attempting, Busy, IInv, Shape, TypeOK
<1>2. /\ w \in PipelineWorkers /\ row.status = "succeeded" /\ row.type = "process_document"
      /\ \A k \in JobIds \ {j} : writes[w][k] = NoRow
  BY <1>1 DEF Outcome, Chained
<1>3. \/ writes' = [writes EXCEPT ![w] = NoWrites] /\ pc' = [pc EXCEPT ![w] = "aborted"]
      \/ /\ \E i \in JobIds : NextId(i) /\ writes' = [writes EXCEPT ![w][i] = new]
         /\ pc' = [pc EXCEPT ![w] = "commit"]
  <2>1. FollowUp(w, row.type) = {"vector_index_document"}
    BY <1>2, OnlyShort DEF FollowUp
  <2> HIDE DEF row
  <2> QED BY <2>1 DEF EnqueueInsert, row
<1>4. UNCHANGED <<jobs, held>>
  BY DEF EnqueueInsert
<1>5. CASE writes' = [writes EXCEPT ![w] = NoWrites] /\ pc' = [pc EXCEPT ![w] = "aborted"]
  <2>1. /\ \A v \in Workers \ {w} : writes'[v] = writes[v] /\ pc'[v] = pc[v]
        /\ pc'[w] = "aborted"
    BY <1>5 DEF AInv, IInv, TypeOK
  <2>2. Attempting(w)'
    BY <2>1 DEF Attempting, Busy
  <2> QED BY <1>4, <2>1, <2>2, AttemptStep
<1>6. CASE /\ \E i \in JobIds : NextId(i) /\ writes' = [writes EXCEPT ![w][i] = new]
           /\ pc' = [pc EXCEPT ![w] = "commit"]
  <2>1. PICK i \in JobIds : NextId(i) /\ writes' = [writes EXCEPT ![w][i] = new]
    BY <1>6
  <2>2. jobs[i] = NoRow /\ writes[w][i] = NoRow /\ i # j
    <3>1. i \notin Used
      BY <2>1, JobIdsAssumption DEF NextId, Later
    <3> QED BY <3>1, <1>1 DEF Used
  <2>3. new # NoRow /\ new \in Job
    <3>1. row.doc \in Docs /\ "vector_index_document" \in JobTypes
      BY <1>1 DEF Job, JobTypes
    <3> HIDE DEF row
    <3>2. new \in Job
      BY <3>1, RowTypes
    <3> QED BY <3>2, NoRowAssumption
  <2> HIDE DEF new
  <2>4. /\ \A v \in Workers \ {w} : writes'[v] = writes[v] /\ pc'[v] = pc[v]
        /\ pc'[w] = "commit"
        /\ \A k \in JobIds : writes'[w][k] = IF k = i THEN new ELSE writes[w][k]
    BY <1>6, <2>1 DEF AInv, IInv, TypeOK
  <2>5. writes'[w][held'[w]] = row /\ held'[w] = j
    BY <1>1, <1>4, <2>2, <2>4
  <2>6. Attempting(w)'
    <3>1. Attempt(w)'
      BY <1>1, <1>4, <2>5 DEF Attempt, Claims
    <3>2. Outcome(w)'
      BY <1>2, <2>2, <2>3, <2>4, <2>5 DEF Outcome
    <3>3. NewJob(row.doc, "vector_index_document")' = new
      BY <1>4, <2>5, <2>2, <2>4 DEF NewJob, new
    <3>4. Chained(w)'
      BY <1>2, <1>4, <2>2, <2>4, <2>5, <3>3 DEF Chained, new, NewJob
    <3> QED BY <2>4, <3>1, <3>2, <3>4 DEF Attempting
  <2> QED BY <1>4, <2>4, <2>6, AttemptStep
<1> QED BY <1>3, <1>5, <1>6

\* What a commit makes of a row of the table.
LEMMA CommittedRow ==
  ASSUME AInv, NEW w \in Workers, Commit(w), NEW k \in JobIds
  PROVE  LET j == held[w]
             row == writes[w][j] IN
         \/ k = j /\ jobs'[k] = row
         \/ k # j /\ writes[w][k] = NoRow /\ jobs'[k] = jobs[k]
         \/ /\ k # j /\ jobs[k] = NoRow
            /\ row.status = "succeeded" /\ row.type = "process_document"
            /\ jobs'[k] = NewJob(row.doc, "vector_index_document")
<1>1. pc[w] = "commit" /\ jobs' = View(w) /\ Chained(w)
  BY DEF Commit, AInv, Attempting, Busy
<1>2. held[w] \in JobIds /\ writes[w][held[w]] # NoRow
  BY <1>1 DEF AInv, IInv, Shape, Busy
<1>3. jobs'[k] = IF writes[w][k] # NoRow THEN writes[w][k] ELSE jobs[k]
  BY <1>1 DEF View
<1> QED BY <1>1, <1>2, <1>3 DEF Chained

\* The outcome a commit publishes, and the attempts it counts.
LEMMA OutcomeAttempts ==
  ASSUME AInv, NEW w \in Workers, Commit(w)
  PROVE  LET row == writes[w][held[w]] IN
         /\ row.status \in {"succeeded", "retry", "dead_letter"} /\ row.attempts \in 1..MaxAttempts
         /\ row.status = "retry" => row.attempts < MaxAttempts
         /\ row.status = "dead_letter" => row.attempts = MaxAttempts
<1> DEFINE j == held[w]
           row == writes[w][j]
<1>1. pc[w] = "commit" /\ Attempt(w) /\ Outcome(w) /\ j \in JobIds
  BY DEF Commit, AInv, Attempting, Busy, IInv, Shape
<1>2. jobs[j].attempts \in 0..(MaxAttempts - 1)
  BY <1>1, QueuedAttempts DEF Attempt
<1>3. row.attempts \in 1..MaxAttempts
  BY <1>1, <1>2, AttemptsAssumption DEF Attempt
<1> QED BY <1>1, <1>3, AttemptsAssumption DEF Outcome

\* An attempt is published whole.
LEMMA CommitAInv ==
  ASSUME AInv, IInv', NEW w \in Workers, Commit(w)
  PROVE  AInv'
<1> DEFINE j == held[w]
           row == writes[w][j]
<1>1. /\ pc[w] = "commit" /\ Attempt(w) /\ Outcome(w) /\ Chained(w)
      /\ j \in JobIds /\ row \in Job /\ row # NoRow
  BY DEF Commit, AInv, Attempting, Busy, IInv, Shape, TypeOK
<1>2. /\ \A v \in Workers \ {w} : writes'[v] = writes[v] /\ pc'[v] = pc[v] /\ held'[v] = held[v]
      /\ writes'[w] = NoWrites /\ pc'[w] = "loop" /\ held'[w] = NoJob
  BY DEF Commit, AInv, IInv, TypeOK
<1>3. \A k \in JobIds : jobs[k] # NoRow => /\ jobs'[k] # NoRow
                                          /\ jobs'[k].doc = jobs[k].doc
                                          /\ jobs'[k].type = jobs[k].type
  BY <1>1, CommittedRow DEF Attempt
<1>4. \A v \in Workers : Attempting(v)'
  <2>1. Attempting(w)'
    BY <1>2 DEF Attempting, Busy, NoWrites
  <2>2. ASSUME NEW v \in Workers, v # w PROVE Attempting(v)'
    <3>1. \A k \in JobIds : writes[v][k] # NoRow => jobs'[k] = jobs[k]
      BY <2>2 DEF AInv, IInv, Locks, Commit, View
    <3> QED BY <1>2, <1>3, <2>2, <3>1, AttemptingKept
  <2> QED BY <2>1, <2>2
<1>5. row.status \in {"succeeded", "retry", "dead_letter"} /\ row.attempts \in 1..MaxAttempts
      /\ (row.status = "retry" => row.attempts < MaxAttempts)
      /\ (row.status = "dead_letter" => row.attempts = MaxAttempts)
  BY OutcomeAttempts
<1>6. \A d : NewJob(d, "vector_index_document").status = "pending"
             /\ NewJob(d, "vector_index_document").attempts = 0
             /\ NewJob(d, "vector_index_document").doc = d
             /\ NewJob(d, "vector_index_document").type = "vector_index_document"
  BY DEF NewJob
<1>7. RunningNeverCommitted'
  BY <1>1, <1>5, <1>6, CommittedRow DEF AInv, RunningNeverCommitted
<1>8. AttemptsAccount'
  <2> SUFFICES ASSUME NEW k \in JobIds, jobs'[k] # NoRow
               PROVE  CASE jobs'[k].status = "pending"     -> jobs'[k].attempts = 0
                        [] jobs'[k].status = "retry"       -> jobs'[k].attempts \in 1..(MaxAttempts - 1)
                        [] jobs'[k].status = "dead_letter" -> jobs'[k].attempts = MaxAttempts
                        [] OTHER                           -> jobs'[k].attempts \in 1..MaxAttempts
    BY DEF AttemptsAccount
  <2>1. CASE jobs'[k] = jobs[k]
    BY <2>1 DEF AInv, AttemptsAccount
  <2>2. CASE jobs'[k] = row
    BY <1>5, <2>2, AttemptsAssumption
  <2>3. CASE \E d : jobs'[k] = NewJob(d, "vector_index_document")
    BY <1>6, <2>3
  <2> QED BY <2>1, <2>2, <2>3, CommittedRow
<1> QED BY <1>4, <1>7, <1>8 DEF AInv

\* A transaction that is lost leaves the table as it was.
LEMMA LostAInv ==
  ASSUME AInv, IInv', NEW w \in Workers, DatabaseError(w) \/ Crash(w) \/ Rollback(w), Deployed
  PROVE  AInv'
<1>1. UNCHANGED jobs
  BY DEF DatabaseError, Crash, Rollback
<1>2. /\ \A v \in Workers \ {w} : writes'[v] = writes[v] /\ pc'[v] = pc[v] /\ held'[v] = held[v]
      /\ pc'[w] \in {"loop", "aborted"} /\ writes'[w] = NoWrites
  <2>1. CASE Rollback(w)
    BY <2>1, OnlyShort DEF Rollback, AInv, IInv, TypeOK, Shape
  <2>2. CASE DatabaseError(w) \/ Crash(w)
    BY <2>2 DEF DatabaseError, Crash, AInv, IInv, TypeOK
  <2> QED BY <2>1, <2>2
<1>3. Attempting(w)'
  BY <1>2 DEF Attempting, Busy, NoWrites
<1> QED BY <1>1, <1>2, <1>3, AttemptStep

\* Time makes a retry due; no lock of a committed row can age.
LEMMA TimeAInv ==
  ASSUME Deployed, AInv, IInv', NEW j \in JobIds, BackoffElapses(j) \/ LockAges(j)
  PROVE  AInv' /\ jobs[j] \in Job /\ jobs' = [jobs EXCEPT ![j].due = TRUE]
<1>1. LongTx = {}
  BY DEF Deployed, LongTx
<1>2. ~ LockAges(j)
  BY DEF LockAges, AInv, RunningNeverCommitted
<1>3. /\ jobs[j] # NoRow /\ ~ jobs[j].due /\ jobs' = [jobs EXCEPT ![j].due = TRUE]
      /\ UNCHANGED <<writes, pc, held>>
  BY <1>1, <1>2 DEF BackoffElapses
<1>4. jobs[j] \in Job
  BY <1>3 DEF AInv, IInv, TypeOK
<1> DEFINE new == [jobs[j] EXCEPT !.due = TRUE]
<1>5. /\ new \in Job /\ new # NoRow /\ new.doc = jobs[j].doc /\ new.type = jobs[j].type
      /\ new.status = jobs[j].status /\ new.attempts = jobs[j].attempts
  <2>1. new \in Job
    BY <1>4, RowTypes
  <2> QED BY <1>4, <2>1, NoRowAssumption DEF Job
<1> HIDE DEF new
<1>6. \A k \in JobIds : jobs'[k] = IF k = j THEN new ELSE jobs[k]
  BY <1>3 DEF AInv, IInv, TypeOK, new
<1>7. \A v \in Workers : Attempting(v)'
  <2> SUFFICES ASSUME NEW v \in Workers PROVE Attempting(v)'
    OBVIOUS
  <2>1. writes[v][j] = NoRow
    <3>1. CASE pc[v] \in Busy
      BY <1>3, <3>1 DEF AInv, Attempting, Attempt, Chained
    <3>2. CASE pc[v] \notin Busy
      <4>1. pc[v] \in {"loop", "aborted"}
        BY <3>2 DEF AInv, Attempting, IInv, TypeOK, PC, Busy
      <4> QED BY <4>1 DEF AInv, Attempting, IInv, Shape, NoWrites
    <3> QED BY <3>1, <3>2
  <2> QED BY <1>3, <1>5, <1>6, <2>1, AttemptingKept
<1>8. RunningNeverCommitted'
  BY <1>3, <1>5, <1>6 DEF AInv, RunningNeverCommitted
<1>9. AttemptsAccount'
  BY <1>3, <1>5, <1>6 DEF AInv, AttemptsAccount
<1> QED BY <1>3, <1>4, <1>7, <1>8, <1>9 DEF AInv

\* Of the actions, the deployed workers take these.
LEMMA DeployedSteps ==
  ASSUME Deployed, AInv, NEW w \in Workers, WorkerStep(w) \/ Fault(w)
  PROVE  \/ Claim(w) \/ WorkSucceeds(w) \/ WorkFails(w) \/ EnqueueSelect(w) \/ EnqueueInsert(w)
         \/ Commit(w) \/ Rollback(w) \/ DatabaseError(w) \/ Crash(w)
<1>1. ~ Reap(w)
  BY NothingStale DEF Reap
<1>2. ~ NothingToClaim(w)
  BY DEF NothingToClaim, AInv, Attempting
<1>3. ~ NextIteration(w) /\ ~ Interrupt(w)
  BY OnlyShort DEF NextIteration, Interrupt
<1> QED BY <1>1, <1>2, <1>3 DEF WorkerStep, Fault

LEMMA NextAInv ==
  ASSUME Deployed, AInv, [Next]_vars
  PROVE  AInv'
<1>0. IInv'
  BY NextIInv DEF AInv
<1>1. CASE \E d \in Docs, t \in JobTypes : Enqueue(d, t)
  BY <1>0, <1>1, EnqueueAInv
<1>2. CASE \E w \in Workers : WorkerStep(w) \/ Fault(w)
  BY <1>0, <1>2, DeployedSteps, ClaimAInv, WorkAInv, SelectAInv, InsertAInv, CommitAInv, LostAInv
<1>3. CASE \E j \in JobIds : BackoffElapses(j) \/ LockAges(j)
  BY <1>0, <1>3, TimeAInv
<1>4. CASE UNCHANGED vars
  <2>1. (RunningNeverCommitted /\ AttemptsAccount)'
    BY <1>4 DEF vars, AInv, RunningNeverCommitted, AttemptsAccount
  <2>2. \A v \in Workers : Attempting(v)'
    BY <1>4, AttemptingKept DEF vars
  <2> QED BY <1>0, <2>1, <2>2 DEF AInv
<1> QED BY <1>1, <1>2, <1>3, <1>4 DEF Next

LEMMA DeployedInvariance == Deployed => (Spec => []AInv)
<1> SUFFICES ASSUME Deployed PROVE Spec => []AInv
  OBVIOUS
<1>1. AInv /\ [Next]_vars => AInv'
  BY NextAInv
<1> QED BY <1>1, InitAInv, PTL DEF Spec

\* With the deployed workers, a crash between any two statements leaves no
\* claim behind: nobody else ever reads "running".
THEOREM RunningNeverCommittedHolds == Deployed => (Spec => []RunningNeverCommitted)
<1> SUFFICES ASSUME Deployed PROVE Spec => []RunningNeverCommitted
  OBVIOUS
<1>1. AInv => RunningNeverCommitted
  BY DEF AInv
<1> QED BY <1>1, DeployedInvariance, PTL

\* A queued job has attempts left, a dead-lettered one has used them all.
THEOREM AttemptsAccountHolds == Deployed => (Spec => []AttemptsAccount)
<1> SUFFICES ASSUME Deployed PROVE Spec => []AttemptsAccount
  OBVIOUS
<1>1. AInv => AttemptsAccount
  BY DEF AInv
<1> QED BY <1>1, DeployedInvariance, PTL

-----------------------------------------------------------------------------
(* The refinement: with the deployed workers every step of the committed   *)
(* table is a step of JobLifecycle.  Only a sync and a commit change it.   *)

\* A row and its public columns.
LEMMA PublicRow ==
  ASSUME NEW row \in Job
  PROVE  /\ row # NoRow /\ Public(row) # NoRow
         /\ Public(row).doc = row.doc /\ Public(row).type = row.type
         /\ Public(row).status = row.status /\ Public(row).attempts = row.attempts
<1>1. row # NoRow
  BY NoRowAssumption
<1>2. Public(row) = [doc |-> row.doc, type |-> row.type,
                     status |-> row.status, attempts |-> row.attempts]
  BY <1>1 DEF Public
<1>3. Public(row) \in [doc : Docs, type : JobTypes, status : Statuses, attempts : Nat]
  BY <1>2 DEF Job
<1> QED BY <1>1, <1>2, <1>3, PublicAssumption

\* Two rows show the same when their public columns agree.
LEMMA PublicEqual ==
  ASSUME NEW r \in Job, NEW s \in Job,
         r.doc = s.doc, r.type = s.type, r.status = s.status, r.attempts = s.attempts
  PROVE  Public(r) = Public(s)
BY NoRowAssumption DEF Public

LEMMA CommittedTable ==
  ASSUME TypeOK
  PROVE  \A j \in JobIds : /\ Committed[j] = Public(jobs[j])
                           /\ Committed[j] = NoRow <=> jobs[j] = NoRow
                           /\ jobs[j] # NoRow => /\ jobs[j] \in Job
                                                /\ Committed[j].doc = jobs[j].doc
                                                /\ Committed[j].type = jobs[j].type
                                                /\ Committed[j].status = jobs[j].status
                                                /\ Committed[j].attempts = jobs[j].attempts
<1> SUFFICES ASSUME NEW j \in JobIds
             PROVE  /\ Committed[j] = Public(jobs[j])
                    /\ Committed[j] = NoRow <=> jobs[j] = NoRow
                    /\ jobs[j] # NoRow => /\ jobs[j] \in Job
                                         /\ Committed[j].doc = jobs[j].doc
                                         /\ Committed[j].type = jobs[j].type
                                         /\ Committed[j].status = jobs[j].status
                                         /\ Committed[j].attempts = jobs[j].attempts
  OBVIOUS
<1>1. Committed[j] = Public(jobs[j])
  BY DEF Committed
<1>2. jobs[j] \in Job \/ jobs[j] = NoRow
  BY DEF TypeOK
<1>3. jobs[j] = NoRow => Committed[j] = NoRow
  BY <1>1 DEF Public
<1> QED BY <1>1, <1>2, <1>3, PublicRow

\* The public columns of the row of an attempt.
LEMMA AttemptedRow ==
  ASSUME NEW r \in Job, NEW row \in Job, row.doc = r.doc, row.type = r.type
  PROVE  [Public(r) EXCEPT !.status = row.status, !.attempts = row.attempts] = Public(row)
<1> DEFINE P == [doc : Docs, type : JobTypes, status : Statuses, attempts : Nat]
           old == Public(r)
           new == [old EXCEPT !.status = row.status, !.attempts = row.attempts]
<1>1. /\ old \in P /\ old.doc = r.doc /\ old.type = r.type
      /\ row.status \in Statuses /\ row.attempts \in Nat
  <2>1. old = [doc |-> r.doc, type |-> r.type, status |-> r.status, attempts |-> r.attempts]
    BY NoRowAssumption DEF Public
  <2> QED BY <2>1 DEF Job
<1> HIDE DEF old
<1>2. /\ new \in P /\ new.doc = r.doc /\ new.type = r.type
      /\ new.status = row.status /\ new.attempts = row.attempts
  BY <1>1
<1>3. Public(row) = [doc |-> row.doc, type |-> row.type,
                     status |-> row.status, attempts |-> row.attempts]
  BY NoRowAssumption DEF Public
<1> HIDE DEF new
<1>4. new = Public(row)
  BY <1>2, <1>3
<1> QED BY <1>4 DEF new, old

LEMMA NewIsNew ==
  ASSUME NEW d \in Docs, NEW t \in JobTypes
  PROVE  Public(NewJob(d, t)) = Lifecycle!New(d, t)
<1>1. NewJob(d, t) # NoRow
  BY RowTypes, NoRowAssumption
<1> QED BY <1>1 DEF Public, NewJob, Lifecycle!New

LEMMA EnqueueRefines ==
  ASSUME TypeOK, NEW d \in Docs, NEW t \in JobTypes, Enqueue(d, t)
  PROVE  Lifecycle!Next
<1>1. PICK j \in JobIds : NextId(j) /\ jobs' = [jobs EXCEPT ![j] = NewJob(d, t)]
  BY DEF Enqueue
<1>2. jobs[j] = NoRow
  <2>1. j \notin Used
    BY <1>1, JobIdsAssumption DEF NextId, Later
  <2> QED BY <2>1 DEF Used
<1>3. Committed' = [Committed EXCEPT ![j] = Lifecycle!New(d, t)]
  BY <1>1, NewIsNew DEF Committed, TypeOK
<1>4. ~ \E k \in JobIds : Committed[k] # NoRow /\ Committed[k].doc = d /\ Committed[k].type = t
  BY CommittedTable DEF Enqueue
<1>5. Lifecycle!Submit(j)
  <2>1. Committed[j] = NoRow /\ t \in SeedTypes
    BY <1>2, CommittedTable DEF Enqueue
  <2> QED BY <1>3, <1>4, <2>1 DEF Lifecycle!Submit
<1> QED BY <1>5 DEF Lifecycle!Next

\* A commit is one attempt's outcome, with its follow-up.
LEMMA CommitRefines ==
  ASSUME AInv, AInv', NEW w \in Workers, Commit(w)
  PROVE  Lifecycle!Next
<1> DEFINE j == held[w]
           row == writes[w][j]
<1>1. /\ pc[w] = "commit" /\ Attempt(w) /\ Outcome(w) /\ Chained(w)
      /\ j \in JobIds /\ row \in Job /\ row # NoRow /\ TypeOK
  BY DEF Commit, AInv, Attempting, Busy, IInv, Shape, TypeOK
<1>2. /\ jobs[j] \in Job /\ Lifecycle!Queued(j) /\ Committed[j].doc = row.doc
      /\ Committed[j].type = row.type /\ row.attempts = Committed[j].attempts + 1
  BY <1>1, CommittedTable DEF Attempt, Lifecycle!Queued
<1>3. Public(row) = Lifecycle!Attempted(j, row.status)
  <2>1. row.doc = jobs[j].doc /\ row.type = jobs[j].type
    BY <1>1 DEF Attempt
  <2> HIDE DEF row
  <2>2. [Public(jobs[j]) EXCEPT !.status = row.status, !.attempts = row.attempts] = Public(row)
    BY <1>1, <1>2, <2>1, AttemptedRow
  <2>3. Committed[j] = Public(jobs[j])
    BY <1>1 DEF Committed
  <2> QED BY <1>2, <2>2, <2>3 DEF Lifecycle!Attempted
<1>4. \A k \in JobIds : Committed'[k] = Public(jobs'[k])
  BY DEF Committed
<1>5. CASE \A k \in JobIds \ {j} : writes[w][k] = NoRow
  <2>1. \A k \in JobIds : jobs'[k] = IF k = j THEN row ELSE jobs[k]
    BY <1>1, <1>5 DEF Commit, View
  <2>2. Committed' = [Committed EXCEPT ![j] = Public(row)]
    BY <2>1 DEF Committed
  <2>3. CASE row.status = "retry"
    <3>1. Committed[j].attempts + 1 < MaxAttempts
      BY <1>2, <2>3, OutcomeAttempts
    <3> QED BY <1>1, <1>2, <1>3, <2>2, <2>3, <3>1 DEF Lifecycle!Retry, Lifecycle!Next
  <2>4. CASE row.status = "dead_letter"
    <3>1. Committed[j].attempts + 1 = MaxAttempts
      BY <1>2, <2>4, OutcomeAttempts
    <3> QED BY <1>1, <1>2, <1>3, <2>2, <2>4, <3>1 DEF Lifecycle!GiveUp, Lifecycle!Next
  <2>5. CASE row.status = "succeeded"
    <3>1. row.type = "process_document" => HasVectorRow(row.doc)
      BY <1>1, <1>5, <2>5 DEF Outcome
    <3>2. Committed[j].type = "process_document" => Lifecycle!HasVectorJob(Committed[j].doc)
      BY <1>1, <1>2, <3>1, CommittedTable DEF HasVectorRow, Lifecycle!HasVectorJob
    <3> QED BY <1>1, <1>2, <1>3, <2>2, <2>5, <3>2 DEF Lifecycle!Finish, Lifecycle!Next
  <2> QED BY <2>3, <2>4, <2>5, OutcomeAttempts
<1>6. CASE \E k \in JobIds \ {j} : writes[w][k] # NoRow
  <2>1. PICK k \in JobIds \ {j} : writes[w][k] # NoRow
    BY <1>6
  <2>2. /\ jobs[k] = NoRow /\ row.status = "succeeded" /\ row.type = "process_document"
        /\ writes[w][k] = NewJob(row.doc, "vector_index_document")
        /\ \A l \in JobIds \ {j, k} : writes[w][l] = NoRow
    BY <1>1, <2>1 DEF Chained
  <2> DEFINE new == NewJob(row.doc, "vector_index_document")
  <2>3. \A l \in JobIds : jobs'[l] = IF l = j THEN row ELSE IF l = k THEN new ELSE jobs[l]
    BY <1>1, <2>1, <2>2 DEF Commit, View
  <2>4. Public(new) = Lifecycle!New(row.doc, "vector_index_document")
    BY <1>1, NewIsNew DEF Job, JobTypes
  <2> HIDE DEF new
  <2>5. Committed' = [Committed EXCEPT ![j] = Public(row), ![k] = Public(new)]
    BY <2>1, <2>3 DEF Committed
  <2>6. Committed[k] = NoRow
    BY <1>1, <2>1, <2>2, CommittedTable
  <2>7. Lifecycle!FinishAndChain(j)
    BY <1>2, <1>3, <2>1, <2>2, <2>4, <2>5, <2>6 DEF Lifecycle!FinishAndChain
  <2> QED BY <1>1, <2>7 DEF Lifecycle!Next
<1> QED BY <1>5, <1>6

LEMMA StepRefines ==
  ASSUME Deployed, AInv, AInv', [Next]_vars
  PROVE  [Lifecycle!Next]_Committed
<1>0. TypeOK
  BY DEF AInv, IInv
<1>1. CASE \E d \in Docs, t \in JobTypes : Enqueue(d, t)
  BY <1>0, <1>1, EnqueueRefines
<1>2. CASE \E w \in Workers : WorkerStep(w) \/ Fault(w)
  <2>1. PICK w \in Workers : WorkerStep(w) \/ Fault(w)
    BY <1>2
  <2>2. CASE Commit(w)
    BY <2>2, CommitRefines
  <2>3. CASE ~ Commit(w)
    <3>1. UNCHANGED jobs
      BY <2>1, <2>3, DeployedSteps
      DEF Claim, WorkSucceeds, WorkFails, EnqueueSelect, EnqueueInsert, Rollback, DatabaseError, Crash
    <3> QED BY <3>1 DEF Committed, Public
  <2> QED BY <2>2, <2>3
<1>3. CASE \E j \in JobIds : BackoffElapses(j) \/ LockAges(j)
  <2>1. PICK j \in JobIds : BackoffElapses(j) \/ LockAges(j)
    BY <1>3
  <2>2. IInv'
    BY DEF AInv
  <2>3. jobs[j] \in Job /\ jobs' = [jobs EXCEPT ![j].due = TRUE]
    BY <2>1, <2>2, TimeAInv
  <2> DEFINE new == [jobs[j] EXCEPT !.due = TRUE]
  <2>4. new \in Job
    BY <2>3, RowTypes
  <2>5. Public(new) = Public(jobs[j])
    <3>1. /\ new.doc = jobs[j].doc /\ new.type = jobs[j].type
          /\ new.status = jobs[j].status /\ new.attempts = jobs[j].attempts
      BY <2>3 DEF Job
    <3> HIDE DEF new
    <3> QED BY <2>3, <2>4, <3>1, PublicEqual
  <2>6. \A k \in JobIds : jobs'[k] = IF k = j THEN new ELSE jobs[k]
    BY <1>0, <2>3 DEF TypeOK
  <2> HIDE DEF new
  <2> QED BY <2>5, <2>6 DEF Committed
<1>4. CASE UNCHANGED vars
  BY <1>4 DEF vars, Committed, Public
<1> QED BY <1>1, <1>2, <1>3, <1>4 DEF Next

\* Whoever reads the table sees jobs move from attempt to attempt, success and
\* follow-up together, through every crash and race of the deployed workers.
THEOREM ImplementsLifecycleHolds == Deployed => (Spec => ImplementsLifecycle)
<1> SUFFICES ASSUME Deployed PROVE Spec => Lifecycle!Spec
  BY DEF ImplementsLifecycle
<1>1. Init => Lifecycle!Init
  BY DEF Init, Lifecycle!Init, Committed, Public
<1>2. AInv /\ AInv' /\ [Next]_vars => [Lifecycle!Next]_Committed
  BY StepRefines
<1> QED BY <1>1, <1>2, DeployedInvariance, PTL DEF Spec, Lifecycle!Spec

-----------------------------------------------------------------------------
(* The jobs of a document.  A deployed worker never loses its transaction  *)
(* to the unique index: a document has one process_document job, and one   *)
(* vector job that appears when that one succeeds.                         *)

OneProcessJob ==
  \A j, k \in JobIds :
    /\ jobs[j] # NoRow /\ jobs[j].type = "process_document"
    /\ jobs[k] # NoRow /\ jobs[k].type = "process_document" /\ jobs[k].doc = jobs[j].doc
    => j = k

VectorAfterProcess ==
  \A k \in JobIds : jobs[k] # NoRow /\ jobs[k].type = "vector_index_document" =>
    \E j \in JobIds : /\ jobs[j] # NoRow /\ jobs[j].type = "process_document"
                      /\ jobs[j].doc = jobs[k].doc /\ jobs[j].status = "succeeded"

OneVectorJob ==
  \A j, k \in JobIds :
    /\ jobs[j] # NoRow /\ jobs[j].type = "vector_index_document"
    /\ jobs[k] # NoRow /\ jobs[k].type = "vector_index_document" /\ jobs[k].doc = jobs[j].doc
    => j = k

JobsOfDocs == OneProcessJob /\ VectorAfterProcess /\ OneVectorJob

\* The first success of a document's process_document job brings its vector job.
LEMMA CommitJobs ==
  ASSUME AInv, JobsOfDocs, NEW w \in Workers, Commit(w)
  PROVE  JobsOfDocs'
<1> DEFINE j == held[w]
           row == writes[w][j]
<1>1. AInv /\ Attempt(w) /\ Chained(w) /\ j \in JobIds /\ row # NoRow /\ row \in Job
  BY DEF Commit, AInv, Attempting, Busy, IInv, Shape, TypeOK
<1>3. /\ jobs[j] # NoRow /\ jobs[j].status # "succeeded"
      /\ row.doc = jobs[j].doc /\ row.type = jobs[j].type
  BY <1>1 DEF Attempt
<1>4. \A d : /\ NewJob(d, "vector_index_document").doc = d
             /\ NewJob(d, "vector_index_document").type = "vector_index_document"
  BY DEF NewJob
<1>5. \A k \in JobIds : \/ k = j /\ jobs'[k] = row
                        \/ k # j /\ jobs'[k] = jobs[k]
                        \/ /\ k # j /\ jobs[k] = NoRow
                           /\ row.status = "succeeded" /\ row.type = "process_document"
                           /\ jobs'[k] = NewJob(row.doc, "vector_index_document")
  BY <1>1, CommittedRow
<1> HIDE DEF row
<1>7. OneProcessJob'
  <2>1. \A k \in JobIds : jobs'[k] # NoRow /\ jobs'[k].type = "process_document" =>
          /\ jobs[k] # NoRow /\ jobs[k].type = "process_document" /\ jobs'[k].doc = jobs[k].doc
    BY <1>3, <1>4, <1>5
  <2> QED BY <2>1 DEF JobsOfDocs, OneProcessJob
<1>8. VectorAfterProcess'
  <2> SUFFICES ASSUME NEW k \in JobIds, jobs'[k] # NoRow, jobs'[k].type = "vector_index_document"
               PROVE  \E m \in JobIds : /\ jobs'[m] # NoRow /\ jobs'[m].type = "process_document"
                                        /\ jobs'[m].doc = jobs'[k].doc /\ jobs'[m].status = "succeeded"
    BY DEF VectorAfterProcess
  <2>1. CASE jobs[k] # NoRow
    <3>1. jobs[k].type = "vector_index_document" /\ jobs[k].doc = jobs'[k].doc
      BY <1>3, <1>5, <2>1
    <3>2. PICK m \in JobIds : /\ jobs[m] # NoRow /\ jobs[m].type = "process_document"
                              /\ jobs[m].doc = jobs[k].doc /\ jobs[m].status = "succeeded"
      BY <2>1, <3>1 DEF JobsOfDocs, VectorAfterProcess
    <3>3. jobs'[m] = jobs[m]
      BY <1>3, <1>5, <3>2
    <3> QED BY <3>1, <3>2, <3>3
  <2>2. CASE jobs[k] = NoRow
    <3>1. /\ row.status = "succeeded" /\ row.type = "process_document"
          /\ jobs'[k] = NewJob(row.doc, "vector_index_document")
      BY <1>3, <1>5, <2>2
    <3>2. jobs'[j] = row /\ row # NoRow
      BY <1>1, <1>5 DEF row
    <3> QED BY <1>1, <1>4, <3>1, <3>2
  <2> QED BY <2>1, <2>2
<1>9. OneVectorJob'
  <2> SUFFICES ASSUME NEW k \in JobIds, jobs'[k] # NoRow, jobs'[k].type = "vector_index_document",
                      NEW l \in JobIds, jobs'[l] # NoRow, jobs'[l].type = "vector_index_document",
                      jobs'[k].doc = jobs'[l].doc
               PROVE  k = l
    BY DEF OneVectorJob
  <2>1. ASSUME NEW n \in JobIds, jobs'[n] # NoRow, jobs'[n].type = "vector_index_document", jobs[n] = NoRow
        PROVE  /\ n # j /\ writes[w][n] # NoRow /\ jobs'[n].doc = jobs[j].doc
               /\ jobs[j].type = "process_document"
    <3>1. n # j /\ row.type = "process_document" /\ jobs'[n] = NewJob(row.doc, "vector_index_document")
      BY <1>3, <1>5, <2>1
    <3>2. writes[w][n] # NoRow
      BY <2>1 DEF Commit, View
    <3> QED BY <1>3, <1>4, <3>1, <3>2
  <2>2. ASSUME NEW n \in JobIds, jobs'[n] # NoRow, jobs'[n].type = "vector_index_document", jobs[n] # NoRow
        PROVE  jobs[n].type = "vector_index_document" /\ jobs'[n].doc = jobs[n].doc
    BY <1>3, <1>5, <2>2
  <2>3. ASSUME NEW n \in JobIds, jobs[n] # NoRow, jobs[n].type = "vector_index_document",
               jobs[j].type = "process_document"
        PROVE  jobs[n].doc # jobs[j].doc
    BY <1>1, <1>3, <2>3 DEF JobsOfDocs, VectorAfterProcess, OneProcessJob
  <2>4. CASE jobs[k] = NoRow /\ jobs[l] = NoRow
    BY <1>1, <2>1, <2>4 DEF Chained
  <2>5. CASE jobs[k] # NoRow /\ jobs[l] # NoRow
    BY <2>2, <2>5 DEF JobsOfDocs, OneVectorJob
  <2>6. CASE jobs[k] = NoRow /\ jobs[l] # NoRow
    BY <2>1, <2>2, <2>3, <2>6
  <2>7. CASE jobs[k] # NoRow /\ jobs[l] = NoRow
    BY <2>1, <2>2, <2>3, <2>7
  <2> QED BY <2>4, <2>5, <2>6, <2>7
<1> QED BY <1>7, <1>8, <1>9 DEF JobsOfDocs

LEMMA EnqueueJobs ==
  ASSUME AInv, JobsOfDocs, NEW d \in Docs, NEW t \in JobTypes, Enqueue(d, t)
  PROVE  JobsOfDocs'
<1>1. PICK j \in JobIds : NextId(j) /\ jobs' = [jobs EXCEPT ![j] = NewJob(d, t)]
  BY DEF Enqueue
<1>2. jobs[j] = NoRow /\ TypeOK
  <2>1. j \notin Used
    BY <1>1, JobIdsAssumption DEF NextId, Later
  <2> QED BY <2>1 DEF Used, AInv, IInv
<1> DEFINE new == NewJob(d, t)
<1>3. new.doc = d /\ new.type = t
  BY DEF NewJob
<1> HIDE DEF new
<1>4. \A k \in JobIds : jobs'[k] = IF k = j THEN new ELSE jobs[k]
  BY <1>1, <1>2 DEF TypeOK, new
<1>5. /\ t # "vector_index_document"
      /\ \A k \in JobIds : jobs[k] # NoRow => ~ (jobs[k].doc = d /\ jobs[k].type = t)
  BY SeedAssumption DEF Enqueue
<1>7. OneProcessJob' /\ OneVectorJob'
  BY <1>2, <1>3, <1>4, <1>5 DEF JobsOfDocs, OneProcessJob, OneVectorJob
<1>8. VectorAfterProcess'
  <2> SUFFICES ASSUME NEW k \in JobIds, jobs'[k] # NoRow, jobs'[k].type = "vector_index_document"
               PROVE  \E m \in JobIds : /\ jobs'[m] # NoRow /\ jobs'[m].type = "process_document"
                                        /\ jobs'[m].doc = jobs'[k].doc /\ jobs'[m].status = "succeeded"
    BY DEF VectorAfterProcess
  <2>1. jobs[k] # NoRow /\ jobs'[k] = jobs[k]
    BY <1>3, <1>4, <1>5
  <2>2. PICK m \in JobIds : /\ jobs[m] # NoRow /\ jobs[m].type = "process_document"
                            /\ jobs[m].doc = jobs[k].doc /\ jobs[m].status = "succeeded"
    BY <2>1 DEF JobsOfDocs, VectorAfterProcess
  <2> QED BY <1>2, <1>4, <2>1, <2>2
<1> QED BY <1>7, <1>8 DEF JobsOfDocs

LEMMA TimeJobs ==
  ASSUME Deployed, AInv, IInv', JobsOfDocs, NEW j \in JobIds, BackoffElapses(j) \/ LockAges(j)
  PROVE  JobsOfDocs'
<1>1. jobs[j] \in Job /\ jobs' = [jobs EXCEPT ![j].due = TRUE] /\ TypeOK
  BY TimeAInv DEF AInv, IInv
<1> DEFINE new == [jobs[j] EXCEPT !.due = TRUE]
<1>2. new \in Job
  BY <1>1, RowTypes
<1>3. new.doc = jobs[j].doc /\ new.type = jobs[j].type /\ new.status = jobs[j].status
  BY <1>1 DEF Job
<1>4. \A k \in JobIds : jobs'[k] = IF k = j THEN new ELSE jobs[k]
  BY <1>1 DEF TypeOK
<1> HIDE DEF new
<1>5. \A k \in JobIds : /\ jobs[k] = NoRow <=> jobs'[k] = NoRow
                        /\ jobs'[k] # NoRow => /\ jobs'[k].doc = jobs[k].doc
                                               /\ jobs'[k].type = jobs[k].type
                                               /\ jobs'[k].status = jobs[k].status
  BY <1>1, <1>2, <1>3, <1>4, NoRowAssumption
<1> QED BY <1>5 DEF JobsOfDocs, OneProcessJob, VectorAfterProcess, OneVectorJob

LEMMA NextJobs ==
  ASSUME Deployed, AInv, AInv', JobsOfDocs, [Next]_vars
  PROVE  JobsOfDocs'
<1>1. CASE \E d \in Docs, t \in JobTypes : Enqueue(d, t)
  BY <1>1, EnqueueJobs
<1>2. CASE \E j \in JobIds : BackoffElapses(j) \/ LockAges(j)
  BY <1>2, TimeJobs DEF AInv
<1>3. CASE \E w \in Workers : Commit(w)
  BY <1>3, CommitJobs
<1>4. CASE UNCHANGED jobs
  BY <1>4 DEF JobsOfDocs, OneProcessJob, VectorAfterProcess, OneVectorJob
<1>5. CASE \E w \in Workers : WorkerStep(w) \/ Fault(w)
  BY <1>3, <1>4, <1>5, DeployedSteps
     DEF Claim, WorkSucceeds, WorkFails, EnqueueSelect, EnqueueInsert, Rollback, DatabaseError, Crash
<1> QED BY <1>1, <1>2, <1>4, <1>5 DEF Next, vars

\* The insert of a deployed worker meets no row: its document's only vector job
\* would be a sign that the job it holds has already succeeded.
LEMMA InsertFindsNone ==
  ASSUME Deployed, AInv, JobsOfDocs, NEW w \in Workers, EnqueueInsert(w)
  PROVE  pc' = [pc EXCEPT ![w] = "commit"]
<1> DEFINE j == held[w]
           row == writes[w][j]
<1>1. /\ pc[w] = "insert" /\ Attempt(w) /\ Outcome(w) /\ Chained(w) /\ j \in JobIds
  BY DEF EnqueueInsert, AInv, Attempting, Busy, IInv, Shape
<1>2. /\ w \in PipelineWorkers /\ row.type = "process_document"
      /\ \A k \in JobIds \ {j} : writes[w][k] = NoRow
      /\ jobs[j] # NoRow /\ jobs[j].doc = row.doc /\ jobs[j].type = "process_document"
      /\ jobs[j].status # "succeeded"
  BY <1>1 DEF Outcome, Chained, Attempt
<1>3. \A k \in JobIds : ~ ActiveFor(View(w)[k], row.doc, "vector_index_document")
  <2> SUFFICES ASSUME NEW k \in JobIds, ActiveFor(View(w)[k], row.doc, "vector_index_document")
               PROVE  FALSE
    OBVIOUS
  <2>1. k # j
    <3>1. View(w)[j].type = "process_document"
      BY <1>1, <1>2 DEF View
    <3> QED BY <3>1 DEF ActiveFor
  <2>2. jobs[k] # NoRow /\ jobs[k].doc = row.doc /\ jobs[k].type = "vector_index_document"
    BY <1>2, <2>1 DEF ActiveFor, View
  <2>3. PICK m \in JobIds : /\ jobs[m] # NoRow /\ jobs[m].type = "process_document"
                            /\ jobs[m].doc = row.doc /\ jobs[m].status = "succeeded"
    BY <2>2 DEF JobsOfDocs, VectorAfterProcess
  <2>4. m = j
    BY <1>1, <1>2, <2>3 DEF JobsOfDocs, OneProcessJob
  <2> QED BY <1>2, <2>3, <2>4
<1>4. FollowUp(w, row.type) = {"vector_index_document"}
  BY <1>2, OnlyShort DEF FollowUp
<1> HIDE DEF row
<1> QED BY <1>3, <1>4 DEF EnqueueInsert, row

-----------------------------------------------------------------------------
(* Claims and faults.  A claim that is counted neither by the table nor by *)
(* a worker that still holds the job has been paid for by a fault.         *)

Holders(j) == {w \in Workers : held[w] = j /\ pc[w] # "aborted"}
Live(j) == IF Holders(j) = {} THEN 0 ELSE 1
Counted(j) == IF jobs[j] = NoRow THEN 0 ELSE jobs[j].attempts

Paid == \A j \in JobIds : claims[j] <= faults + Counted(j) + Live(j)

CInv == AInv /\ JobsOfDocs /\ claims \in [JobIds -> Nat] /\ Paid

LEMMA CountsType ==
  ASSUME TypeOK, NEW j \in JobIds
  PROVE  Counted(j) \in Nat /\ Live(j) \in 0..1 /\ faults \in Nat
BY FaultsAssumption DEF TypeOK, Counted, Live, Job

LEMMA LiveHolders ==
  ASSUME IInv, NEW j \in JobIds
  PROVE  Cardinality(Holders(j)) = Live(j)
<1>1. OneLiveClaim
  BY OneLiveClaimInv
<1>2. CASE Holders(j) = {}
  BY <1>2, FS_EmptySet DEF Live
<1>3. CASE Holders(j) # {}
  <2>1. PICK w \in Holders(j) : TRUE
    BY <1>3
  <2>2. Holders(j) = {w}
    BY <1>1, <2>1, NoJobAssumption DEF OneLiveClaim, Holders
  <2> QED BY <1>3, <2>2, FS_Singleton DEF Live
<1> QED BY <1>2, <1>3

LEMMA InitCInv == HInit => CInv
<1> SUFFICES ASSUME HInit PROVE CInv
  OBVIOUS
<1>1. AInv
  BY InitAInv DEF HInit
<1>2. JobsOfDocs
  BY DEF HInit, Init, JobsOfDocs, OneProcessJob, VectorAfterProcess, OneVectorJob
<1>3. \A j \in JobIds : Counted(j) \in Nat /\ Live(j) \in 0..1 /\ faults \in Nat
  BY <1>1, CountsType DEF AInv, IInv
<1> QED BY <1>1, <1>2, <1>3 DEF HInit, CInv, Paid

\* A step in which no job is claimed and nothing that pays for claims is lost.
LEMMA PaidStep ==
  ASSUME CInv, AInv', JobsOfDocs',
         \A w \in Workers : held'[w] = held[w] \/ held'[w] = NoJob,
         claims' = [j \in JobIds |-> IF JustClaimed(j) THEN claims[j] + 1 ELSE claims[j]],
         \A j \in JobIds : faults + Counted(j) + Live(j) <= faults' + Counted(j)' + Live(j)'
  PROVE  CInv'
<1>1. \A j \in JobIds : ~ JustClaimed(j)
  BY NoJobAssumption DEF JustClaimed
<1>2. claims' \in [JobIds -> Nat] /\ \A j \in JobIds : claims'[j] = claims[j]
  BY <1>1 DEF CInv
<1>3. \A j \in JobIds : /\ Counted(j) \in Nat /\ Live(j) \in 0..1 /\ faults \in Nat
                        /\ Counted(j)' \in Nat /\ Live(j)' \in 0..1 /\ faults' \in Nat
  <2>1. TypeOK /\ TypeOK'
    BY DEF CInv, AInv, IInv
  <2>2. \A j \in JobIds : Counted(j) \in Nat /\ Live(j) \in 0..1 /\ faults \in Nat
    BY <2>1, CountsType
  <2>3. \A j \in JobIds : Counted(j)' \in Nat /\ Live(j)' \in 0..1 /\ faults' \in Nat
    BY <2>1, FaultsAssumption DEF TypeOK, Counted, Live, Job
  <2> QED BY <2>2, <2>3
<1>4. Paid'
  BY <1>2, <1>3 DEF CInv, Paid
<1> QED BY <1>2, <1>4 DEF CInv

LEMMA ClaimCInv ==
  ASSUME CInv, AInv', JobsOfDocs', NEW w \in Workers, Claim(w),
         claims' = [j \in JobIds |-> IF JustClaimed(j) THEN claims[j] + 1 ELSE claims[j]]
  PROVE  CInv'
<1>0. AInv /\ TypeOK /\ UNCHANGED <<jobs, faults>> /\ pc[w] = "loop" /\ held[w] = NoJob
  BY DEF CInv, AInv, IInv, Shape, Claim, Attempting
<1>1. PICK j \in Eligible(w) : held' = [held EXCEPT ![w] = j] /\ pc' = [pc EXCEPT ![w] = "work"]
  BY DEF Claim
<1>2. j \in JobIds /\ j # NoJob /\ ~ LockedByOther(w, j)
  BY NoJobAssumption DEF Eligible
<1>3. \A v \in Workers : /\ held'[v] = IF v = w THEN j ELSE held[v]
                         /\ pc'[v] = IF v = w THEN "work" ELSE pc[v]
  BY <1>0, <1>1 DEF TypeOK
<1>4. \A k \in JobIds : JustClaimed(k) <=> k = j
  BY <1>0, <1>2, <1>3 DEF JustClaimed
<1>5. Live(j) = 0 /\ Live(j)' = 1
  <2>1. \A v \in Workers \ {w} : held[v] = j => pc[v] = "aborted"
    <3> SUFFICES ASSUME NEW v \in Workers \ {w}, held[v] = j, pc[v] # "aborted" PROVE FALSE
      OBVIOUS
    <3>1. pc[v] \in Busy
      BY <1>0, <1>2 DEF AInv, IInv, TypeOK, Shape, PC, Busy
    <3>2. writes[v][j] # NoRow
      BY <1>0, <3>1 DEF AInv, IInv, Shape
    <3> QED BY <1>2, <3>2 DEF LockedByOther
  <2>2. Holders(j) = {} /\ w \in Holders(j)'
    BY <1>0, <1>2, <1>3, <2>1 DEF Holders
  <2> QED BY <2>2 DEF Live
<1>6. \A k \in JobIds \ {j} : Live(k)' = Live(k)
  <2>1. \A k \in JobIds \ {j} : Holders(k)' = Holders(k)
    BY <1>0, <1>3, NoJobAssumption DEF Holders
  <2> QED BY <2>1 DEF Live
<1>7. \A k \in JobIds : Counted(k)' = Counted(k)
  BY <1>0 DEF Counted
<1>8. /\ claims' \in [JobIds -> Nat]
      /\ \A k \in JobIds : claims'[k] = IF k = j THEN claims[k] + 1 ELSE claims[k]
  BY <1>4 DEF CInv
<1>9. Paid'
  <2> SUFFICES ASSUME NEW k \in JobIds PROVE claims'[k] <= faults' + Counted(k)' + Live(k)'
    BY DEF Paid
  <2>1. claims[k] \in Nat /\ Counted(k) \in Nat /\ faults \in Nat /\ Live(k) \in 0..1
        /\ claims[k] <= faults + Counted(k) + Live(k)
    BY <1>0, CountsType DEF CInv, Paid
  <2>2. CASE k = j
    BY <1>0, <1>5, <1>7, <1>8, <2>1, <2>2
  <2>3. CASE k # j
    BY <1>0, <1>6, <1>7, <1>8, <2>1, <2>3
  <2> QED BY <2>2, <2>3
<1> QED BY <1>8, <1>9 DEF CInv

\* The steps of a worker that leave the table and its hold alone.
LEMMA HoldCInv ==
  ASSUME Deployed, CInv, AInv', JobsOfDocs', NEW w \in Workers,
         WorkSucceeds(w) \/ WorkFails(w) \/ EnqueueSelect(w) \/ EnqueueInsert(w),
         claims' = [j \in JobIds |-> IF JustClaimed(j) THEN claims[j] + 1 ELSE claims[j]]
  PROVE  CInv'
<1>1. UNCHANGED <<jobs, held, faults>>
  BY DEF WorkSucceeds, WorkFails, EnqueueSelect, EnqueueInsert
<1>2. pc[w] # "aborted" /\ \E s \in {"commit", "enqueue", "insert"} : pc' = [pc EXCEPT ![w] = s]
  BY InsertFindsNone DEF CInv, WorkSucceeds, WorkFails, EnqueueSelect, EnqueueInsert
<1>3. \A v \in Workers : pc'[v] = "aborted" <=> pc[v] = "aborted"
  BY <1>2 DEF CInv, AInv, IInv, TypeOK
<1>4. \A k \in JobIds : Live(k)' = Live(k) /\ Counted(k)' = Counted(k)
  <2>1. \A k \in JobIds : Holders(k)' = Holders(k)
    BY <1>1, <1>3 DEF Holders
  <2> QED BY <1>1, <2>1 DEF Live, Counted
<1>6. \A k \in JobIds : faults + Counted(k) + Live(k) <= faults' + Counted(k)' + Live(k)'
  <2> SUFFICES ASSUME NEW k \in JobIds
               PROVE  faults + Counted(k) + Live(k) <= faults' + Counted(k)' + Live(k)'
    OBVIOUS
  <2>1. Counted(k) \in Nat /\ Live(k) \in 0..1 /\ faults \in Nat
    BY CountsType DEF CInv, AInv, IInv
  <2> QED BY <1>1, <1>4, <2>1
<1> QED BY <1>1, <1>6, PaidStep

\* A lost transaction costs a fault, unless it had been lost before.
LEMMA LostCInv ==
  ASSUME CInv, AInv', JobsOfDocs', NEW w \in Workers, DatabaseError(w) \/ Crash(w) \/ Rollback(w),
         claims' = [j \in JobIds |-> IF JustClaimed(j) THEN claims[j] + 1 ELSE claims[j]]
  PROVE  CInv'
<1>1. UNCHANGED jobs /\ TypeOK
  BY DEF DatabaseError, Crash, Rollback, CInv, AInv, IInv
<1>2. \A k \in JobIds : Counted(k)' = Counted(k)
  BY <1>1 DEF Counted
<1>3. \A v \in Workers : /\ held'[v] = held[v] \/ held'[v] = NoJob
                         /\ v # w => held'[v] = held[v] /\ pc'[v] = pc[v]
  BY <1>1 DEF DatabaseError, Crash, Rollback, TypeOK
<1>4. \A k \in JobIds : faults + Counted(k) + Live(k) <= faults' + Counted(k)' + Live(k)'
  <2> SUFFICES ASSUME NEW k \in JobIds
               PROVE  faults + Counted(k) + Live(k) <= faults' + Counted(k)' + Live(k)'
    OBVIOUS
  <2>1. Counted(k) \in Nat /\ Live(k) \in 0..1 /\ faults \in Nat /\ Live(k)' \in 0..1
    BY <1>1, CountsType DEF Live
  <2>2. CASE DatabaseError(w) \/ Crash(w)
    <3>1. faults' = faults + 1
      BY <2>2 DEF DatabaseError, Crash
    <3> QED BY <1>2, <2>1, <3>1
  <2>3. CASE Rollback(w)
    <3>1. faults' = faults /\ pc[w] = "aborted"
      BY <2>3 DEF Rollback
    <3>2. Holders(k) \subseteq Holders(k)'
      BY <1>3, <3>1 DEF Holders
    <3>3. Live(k) <= Live(k)'
      BY <3>2 DEF Live
    <3> QED BY <1>2, <2>1, <3>1, <3>3
  <2> QED BY <2>2, <2>3
<1> QED BY <1>3, <1>4, PaidStep

\* A commit counts the attempt of the claim it ends.
LEMMA CommitCInv ==
  ASSUME CInv, AInv', JobsOfDocs', NEW w \in Workers, Commit(w),
         claims' = [j \in JobIds |-> IF JustClaimed(j) THEN claims[j] + 1 ELSE claims[j]]
  PROVE  CInv'
<1> DEFINE j == held[w]
           row == writes[w][j]
<1>1. /\ AInv /\ TypeOK /\ Attempt(w) /\ Chained(w) /\ j \in JobIds /\ row # NoRow /\ row \in Job
      /\ pc[w] = "commit"
  BY DEF Commit, CInv, AInv, Attempting, Busy, IInv, Shape, TypeOK
<1>2. /\ faults' = faults
      /\ \A v \in Workers : /\ held'[v] = IF v = w THEN NoJob ELSE held[v]
                            /\ v # w => pc'[v] = pc[v]
  BY <1>1 DEF Commit, TypeOK
<1>3. /\ jobs[j] # NoRow /\ jobs[j].status # "succeeded" /\ row.attempts = jobs[j].attempts + 1
      /\ row.doc = jobs[j].doc /\ row.type = jobs[j].type
  BY <1>1 DEF Attempt
<1>4. \A d : /\ NewJob(d, "vector_index_document").attempts = 0
             /\ NewJob(d, "vector_index_document").doc = d
             /\ NewJob(d, "vector_index_document").type = "vector_index_document"
  BY DEF NewJob
<1>5. \A k \in JobIds : \/ k = j /\ jobs'[k] = row
                        \/ k # j /\ jobs'[k] = jobs[k]
                        \/ /\ k # j /\ jobs[k] = NoRow
                           /\ row.status = "succeeded" /\ row.type = "process_document"
                           /\ jobs'[k] = NewJob(row.doc, "vector_index_document")
  BY <1>1, CommittedRow
<1> HIDE DEF row
<1>6. \A k \in JobIds : faults + Counted(k) + Live(k) <= faults' + Counted(k)' + Live(k)'
  <2> SUFFICES ASSUME NEW k \in JobIds
               PROVE  faults + Counted(k) + Live(k) <= faults' + Counted(k)' + Live(k)'
    OBVIOUS
  <2>1. Counted(k) \in Nat /\ Live(k) \in 0..1 /\ faults \in Nat /\ Live(k)' \in 0..1
    BY <1>1, CountsType DEF Live
  <2>2. CASE k = j
    <3>1. Counted(k)' = Counted(k) + 1
      BY <1>1, <1>3, <1>5, <2>2 DEF Counted
    <3> QED BY <1>2, <2>1, <3>1
  <2>3. CASE k # j
    <3>1. Counted(k)' = Counted(k)
      <4>1. CASE jobs'[k] = jobs[k]
        BY <4>1 DEF Counted
      <4>2. CASE jobs[k] = NoRow /\ jobs'[k] = NewJob(row.doc, "vector_index_document")
        <5>1. jobs'[k].attempts = 0
          BY <1>4, <4>2
        <5> QED BY <4>2, <5>1 DEF Counted
      <4> QED BY <1>5, <2>3, <4>1, <4>2
    <3>2. Holders(k)' = Holders(k)
      BY <1>2, <2>3, NoJobAssumption DEF Holders
    <3>3. Live(k)' = Live(k)
      BY <3>2 DEF Live
    <3> QED BY <1>2, <2>1, <3>1, <3>3
  <2> QED BY <2>2, <2>3
<1> QED BY <1>2, <1>6, PaidStep

LEMMA EnqueueCInv ==
  ASSUME CInv, AInv', JobsOfDocs', NEW d \in Docs, NEW t \in JobTypes, Enqueue(d, t),
         claims' = [j \in JobIds |-> IF JustClaimed(j) THEN claims[j] + 1 ELSE claims[j]]
  PROVE  CInv'
<1>1. PICK j \in JobIds : NextId(j) /\ jobs' = [jobs EXCEPT ![j] = NewJob(d, t)]
  BY DEF Enqueue
<1>2. jobs[j] = NoRow /\ TypeOK
  <2>1. j \notin Used
    BY <1>1, JobIdsAssumption DEF NextId, Later
  <2> QED BY <2>1 DEF Used, CInv, AInv, IInv
<1> DEFINE new == NewJob(d, t)
<1>3. new.attempts = 0 /\ new.doc = d /\ new.type = t
  BY DEF NewJob
<1> HIDE DEF new
<1>4. \A k \in JobIds : jobs'[k] = IF k = j THEN new ELSE jobs[k]
  BY <1>1, <1>2 DEF TypeOK, new
<1>5. /\ UNCHANGED <<pc, held, faults>> /\ t # "vector_index_document"
      /\ \A k \in JobIds : jobs[k] # NoRow => ~ (jobs[k].doc = d /\ jobs[k].type = t)
  BY SeedAssumption DEF Enqueue
<1>6. \A k \in JobIds : faults + Counted(k) + Live(k) <= faults' + Counted(k)' + Live(k)'
  <2> SUFFICES ASSUME NEW k \in JobIds
               PROVE  faults + Counted(k) + Live(k) <= faults' + Counted(k)' + Live(k)'
    OBVIOUS
  <2>1. Counted(k) \in Nat /\ Live(k) \in 0..1 /\ faults \in Nat
    BY <1>2, CountsType
  <2>2. Counted(k)' = Counted(k)
    BY <1>2, <1>3, <1>4 DEF Counted
  <2>3. Live(k)' = Live(k)
    BY <1>5 DEF Live, Holders
  <2> QED BY <1>5, <2>1, <2>2, <2>3
<1> QED BY <1>5, <1>6, PaidStep

LEMMA TimeCInv ==
  ASSUME Deployed, CInv, AInv', JobsOfDocs', NEW j \in JobIds, BackoffElapses(j) \/ LockAges(j),
         claims' = [k \in JobIds |-> IF JustClaimed(k) THEN claims[k] + 1 ELSE claims[k]]
  PROVE  CInv'
<1>1. IInv'
  BY DEF AInv
<1>2. /\ jobs[j] \in Job /\ jobs' = [jobs EXCEPT ![j].due = TRUE] /\ TypeOK
      /\ UNCHANGED <<pc, held, faults>>
  BY <1>1, TimeAInv DEF CInv, AInv, IInv, BackoffElapses, LockAges
<1> DEFINE new == [jobs[j] EXCEPT !.due = TRUE]
<1>3. new \in Job
  BY <1>2, RowTypes
<1>4. /\ new.doc = jobs[j].doc /\ new.type = jobs[j].type
      /\ new.status = jobs[j].status /\ new.attempts = jobs[j].attempts
  BY <1>2 DEF Job
<1>5. \A k \in JobIds : jobs'[k] = IF k = j THEN new ELSE jobs[k]
  BY <1>2 DEF TypeOK
<1> HIDE DEF new
<1>6. \A k \in JobIds : /\ jobs[k] = NoRow <=> jobs'[k] = NoRow
                        /\ jobs'[k] # NoRow => /\ jobs'[k].doc = jobs[k].doc
                                               /\ jobs'[k].type = jobs[k].type
                                               /\ jobs'[k].status = jobs[k].status
                                               /\ jobs'[k].attempts = jobs[k].attempts
  BY <1>2, <1>3, <1>4, <1>5, NoRowAssumption
<1>8. \A k \in JobIds : faults + Counted(k) + Live(k) <= faults' + Counted(k)' + Live(k)'
  <2> SUFFICES ASSUME NEW k \in JobIds
               PROVE  faults + Counted(k) + Live(k) <= faults' + Counted(k)' + Live(k)'
    OBVIOUS
  <2>1. Counted(k) \in Nat /\ Live(k) \in 0..1 /\ faults \in Nat
    BY <1>2, CountsType
  <2>2. Counted(k)' = Counted(k)
    BY <1>6 DEF Counted
  <2>3. Live(k)' = Live(k)
    BY <1>2 DEF Live, Holders
  <2> QED BY <1>2, <2>1, <2>2, <2>3
<1> QED BY <1>2, <1>8, PaidStep

LEMMA NextCInv ==
  ASSUME Deployed, CInv, [HNext]_hvars
  PROVE  CInv'
<1>0. AInv' /\ JobsOfDocs'
  <2>1. [Next]_vars
    BY DEF HNext, hvars
  <2> QED BY <2>1, NextAInv, NextJobs DEF CInv
<1>1. CASE UNCHANGED hvars
  BY <1>0, <1>1 DEF hvars, vars, CInv, Paid, Counted, Live, Holders
<1>2. CASE HNext
  <2> USE <1>2 DEF HNext
  <2>2. CASE \E d \in Docs, t \in JobTypes : Enqueue(d, t)
    BY <1>0, <2>2, EnqueueCInv
  <2>3. CASE \E w \in Workers : WorkerStep(w) \/ Fault(w)
    BY <1>0, <2>3, DeployedSteps, ClaimCInv, HoldCInv, CommitCInv, LostCInv DEF CInv
  <2>4. CASE \E j \in JobIds : BackoffElapses(j) \/ LockAges(j)
    BY <1>0, <2>4, TimeCInv
  <2> QED BY <2>2, <2>3, <2>4 DEF Next
<1> QED BY <1>1, <1>2

\* A job is handed out more often than its attempts say only when a fault has
\* taken a transaction with it: no race of the deployed workers repeats work.
THEOREM ClaimsPaidForHolds == Deployed => (HSpec => []ClaimsPaidFor)
<1> SUFFICES ASSUME Deployed PROVE HSpec => []ClaimsPaidFor
  OBVIOUS
<1>1. CInv => ClaimsPaidFor
  <2> SUFFICES ASSUME CInv, NEW j \in JobIds
               PROVE  claims[j] <= faults + Counted(j) + Cardinality(Holders(j))
    BY DEF ClaimsPaidFor, Counted, Holders
  <2>1. Cardinality(Holders(j)) = Live(j)
    BY LiveHolders DEF CInv, AInv
  <2> QED BY <2>1 DEF CInv, Paid
<1>2. CInv /\ [HNext]_hvars => CInv'
  BY NextCInv
<1> QED BY <1>1, <1>2, InitCInv, PTL DEF HSpec

-----------------------------------------------------------------------------
(* PipelineIndexing: its types, and what the tables documents and          *)
(* pipeline_jobs and the two indexes say of each other.  The jobs move as  *)
(* in PipelineQueue but for one step, the abort by a second run over the   *)
(* attachments, so AInv is taken over step by step.                        *)

Ending == {"enqueue", "insert", "commit"}

\* What a worker holds stays a row of the table, also after an abort.
HeldRow(w) ==
  held[w] # NoJob => /\ held[w] \in JobIds /\ jobs[held[w]] # NoRow
                     /\ jobs[held[w]].type \in Claims(w)

\* This pipeline has jobs of two types.
TwoTypes ==
  \A j \in JobIds : jobs[j] # NoRow => jobs[j].type \in {"process_document", "vector_index_document"}

QueueInv == Deployed /\ AInv /\ JobsOfDocs /\ TwoTypes /\ \A w \in Workers : HeldRow(w)

\* What a transaction has written of the document it is about to end with.
StatusLocal(w) ==
  /\ \A d \in Docs : swrites[w][d] # NoRow =>
       /\ pc[w] \in Ending /\ d = DocOf(w)
       /\ swrites[w][d] \in {"failed", "indexed"}
       /\ swrites[w][d] = "indexed" => d \in es
  /\ w \in PipelineWorkers /\ pc[w] \in Ending =>
       LET row == writes[w][held[w]] IN
       /\ row.status = "succeeded" => swrites[w][DocOf(w)] = "indexed"
       /\ row.status \in {"retry", "dead_letter"} => swrites[w][DocOf(w)] = "failed"

\* The text index comes before the points, and before the end.
TextLocal(w) ==
  w \in PipelineWorkers /\ held[w] # NoJob /\ stage[w] \in {"delete", "upsert", "finish"} =>
    DocOf(w) \in es

\* Children are created by the end of a success, once.
CreatedLocal(w) ==
  LET row == writes[w][held[w]] IN
  /\ \A d \in Docs : created[w][d] # NoRow =>
       /\ pc[w] \in Ending /\ d = DocOf(w) /\ row.status = "succeeded"
       /\ row.type = "process_document" /\ created[w][d] \in {"pending", "indexed"}
  /\ /\ w \in PipelineWorkers /\ pc[w] \in Ending /\ row.status = "succeeded"
     /\ row.type = "process_document" /\ DocOf(w) \in attached
     => created[w][DocOf(w)] # NoRow

DocsInv ==
  /\ IndexedIsSearchable /\ StatusExplained /\ ChildrenWithSuccess
  /\ \A w \in Workers : StatusLocal(w) /\ TextLocal(w) /\ CreatedLocal(w)

\* Without faults a worker is aborted only behind its last write to the points,
\* and between its delete and its upsert nobody else writes them.
PointsInv ==
  faults = 0 =>
    /\ PointsFromOneWriter
    /\ \A w \in Workers :
         /\ pc[w] = "aborted" => stage[w] = "finish"
         /\ AtStage(w, "upsert") => points[DocOf(w)] = {}

IndexingInv == ITypeOK /\ QueueInv /\ DocsInv /\ PointsInv

-----------------------------------------------------------------------------
(* The queue's steps.                                                      *)

LEMMA IsDeployed == QueueInv => Deployed
BY DEF QueueInv

WStep(w) == IWorkerStep(w) \/ IFault(w)

LEMMA QueueSteps ==
  /\ \A w \in Workers : WStep(w) => \/ UNCHANGED vars \/ WorkerStep(w) \/ Fault(w) \/ ChildrenClash(w)
  /\ INext => [Next]_vars \/ \E w \in Workers : ChildrenClash(w)
<1>1. ASSUME NEW w \in Workers, WStep(w)
      PROVE  UNCHANGED vars \/ WorkerStep(w) \/ Fault(w) \/ ChildrenClash(w)
  BY <1>1
     DEF WStep, IWorkerStep, IFault, IClaim, Extracted, TextIndexed, PointsDeleted, PointsUpserted,
         VectorsSkipped, ProcessFails, VectorFails, Finished, FinishedWithChildren, IEnqueue, ICommit,
         IRollback, WorkerStep, Fault
<1>2. ASSUME NEW d \in Docs, ISync(d) PROVE Next
  BY <1>2 DEF ISync, Next, JobTypes
<1>3. ASSUME NEW j \in JobIds, ITime(j) PROVE Next
  BY <1>3 DEF ITime, Next
<1> QED BY <1>1, <1>2, <1>3 DEF INext, WStep, Next

\* What any step leaves of a row, and of a worker's hold.
LEMMA RowsKept ==
  ASSUME Deployed, AInv, [Next]_vars \/ (\E w \in Workers : ChildrenClash(w)), NEW j \in JobIds, jobs[j] # NoRow
  PROVE  jobs'[j] # NoRow /\ jobs'[j].doc = jobs[j].doc /\ jobs'[j].type = jobs[j].type
<1>1. CASE UNCHANGED jobs
  BY <1>1
<1>2. ASSUME NEW d \in Docs, NEW t \in JobTypes, Enqueue(d, t)
      PROVE  jobs'[j] # NoRow /\ jobs'[j].doc = jobs[j].doc /\ jobs'[j].type = jobs[j].type
  <2>1. PICK k \in JobIds : NextId(k) /\ jobs' = [jobs EXCEPT ![k] = NewJob(d, t)]
    BY <1>2 DEF Enqueue
  <2>2. k \notin Used
    BY <2>1, JobIdsAssumption DEF NextId, Later
  <2>3. jobs'[j] = jobs[j]
    BY <2>1, <2>2 DEF Used, AInv, IInv, TypeOK
  <2> QED BY <2>3
<1>3. ASSUME NEW w \in Workers, Commit(w)
      PROVE  jobs'[j] # NoRow /\ jobs'[j].doc = jobs[j].doc /\ jobs'[j].type = jobs[j].type
  <2>1. pc[w] = "commit" /\ Attempt(w) /\ held[w] \in JobIds /\ writes[w][held[w]] # NoRow
    BY <1>3 DEF Commit, AInv, Attempting, Busy, IInv, Shape
  <2> QED BY <1>3, <2>1, CommittedRow DEF Attempt
<1>4. ASSUME NEW k \in JobIds, BackoffElapses(k) \/ LockAges(k)
      PROVE  jobs'[j] # NoRow /\ jobs'[j].doc = jobs[j].doc /\ jobs'[j].type = jobs[j].type
  <2>1. IInv'
    BY <1>4, NextIInv DEF Next, AInv
  <2>2. jobs[k] \in Job /\ jobs' = [jobs EXCEPT ![k].due = TRUE]
    BY <1>4, <2>1, TimeAInv
  <2>3. [jobs[k] EXCEPT !.due = TRUE] \in Job /\ [jobs[k] EXCEPT !.due = TRUE].doc = jobs[k].doc
        /\ [jobs[k] EXCEPT !.due = TRUE].type = jobs[k].type
    BY <2>2, RowTypes DEF Job
  <2>4. jobs'[j] = IF j = k THEN [jobs[k] EXCEPT !.due = TRUE] ELSE jobs[j]
    BY <2>2 DEF AInv, IInv, TypeOK
  <2> QED BY <2>3, <2>4, NoRowAssumption
<1>5. ASSUME NEW w \in Workers, WorkerStep(w) \/ Fault(w)
      PROVE  UNCHANGED jobs \/ Commit(w)
  BY <1>5, DeployedSteps
     DEF Claim, WorkSucceeds, WorkFails, EnqueueSelect, EnqueueInsert, Rollback, DatabaseError, Crash
<1>6. ASSUME NEW w \in Workers, ChildrenClash(w) PROVE UNCHANGED jobs
  BY <1>6 DEF ChildrenClash
<1> QED BY <1>1, <1>2, <1>3, <1>4, <1>5, <1>6 DEF Next, vars

LEMMA WorkerFrame ==
  ASSUME ITypeOK, Deployed, AInv, NEW w \in Workers, WStep(w)
  PROVE  /\ \A v \in Workers : v # w => /\ pc'[v] = pc[v] /\ held'[v] = held[v] /\ writes'[v] = writes[v]
                                       /\ swrites'[v] = swrites[v] /\ created'[v] = created[v]
                                       /\ stage'[v] = stage[v]
         /\ held'[w] = held[w] \/ held'[w] = NoJob \/ pc'[w] = "work"
<1>1. ASSUME NEW v \in Workers, v # w
      PROVE  pc'[v] = pc[v] /\ held'[v] = held[v] /\ writes'[v] = writes[v]
  <2>1. CASE UNCHANGED vars
    BY <2>1 DEF vars
  <2>2. CASE ChildrenClash(w)
    BY <1>1, <2>2 DEF ChildrenClash, AInv, IInv, TypeOK
  <2>3. CASE WorkerStep(w) \/ Fault(w)
    BY <1>1, <2>3, DeployedSteps
       DEF Claim, WorkSucceeds, WorkFails, EnqueueSelect, EnqueueInsert, Commit, Rollback, DatabaseError,
           Crash, AInv, IInv, TypeOK
  <2> QED BY <2>1, <2>2, <2>3, QueueSteps
<1>2. ASSUME NEW v \in Workers, v # w
      PROVE  swrites'[v] = swrites[v] /\ created'[v] = created[v] /\ stage'[v] = stage[v]
  BY <1>2
     DEF WStep, IWorkerStep, IFault, IClaim, Extracted, TextIndexed, PointsDeleted, PointsUpserted,
         VectorsSkipped, ProcessFails, VectorFails, Finished, FinishedWithChildren, ChildrenClash, IEnqueue,
         ICommit, IRollback, Forgotten, WriteStatus, Goto, ITypeOK, kids
<1>3. held'[w] = held[w] \/ held'[w] = NoJob \/ pc'[w] = "work"
  <2>1. CASE UNCHANGED vars \/ ChildrenClash(w)
    BY <2>1 DEF vars, ChildrenClash
  <2>2. CASE WorkerStep(w) \/ Fault(w)
    BY <2>2, DeployedSteps
       DEF Claim, WorkSucceeds, WorkFails, EnqueueSelect, EnqueueInsert, Commit, Rollback, DatabaseError,
           Crash, AInv, IInv, TypeOK
  <2> QED BY <2>1, <2>2, QueueSteps
<1> QED BY <1>1, <1>2, <1>3

LEMMA ClashAInv ==
  ASSUME AInv, NEW w \in Workers, ChildrenClash(w)
  PROVE  AInv'
<1>1. /\ writes' = [writes EXCEPT ![w] = NoWrites] /\ pc' = [pc EXCEPT ![w] = "aborted"]
      /\ UNCHANGED <<jobs, held, faults>>
  BY DEF ChildrenClash
<1>2. IInv'
  BY <1>1, DropIInv DEF AInv, IInv, TypeOK
<1>3. /\ \A v \in Workers \ {w} : writes'[v] = writes[v] /\ pc'[v] = pc[v] /\ held'[v] = held[v]
      /\ pc'[w] = "aborted"
  BY <1>1 DEF AInv, IInv, TypeOK
<1>4. Attempting(w)'
  BY <1>3 DEF Attempting, Busy
<1> QED BY <1>1, <1>2, <1>3, <1>4, AttemptStep

LEMMA QueueInvStep ==
  ASSUME ITypeOK, QueueInv, [INext]_ivars
  PROVE  QueueInv'
<1>1. [Next]_vars \/ \E w \in Workers : ChildrenClash(w)
  BY QueueSteps DEF ivars
<1>2. AInv /\ AInv'
  BY <1>1, NextAInv, ClashAInv, IsDeployed DEF QueueInv
<1>3. JobsOfDocs'
  <2>1. CASE [Next]_vars
    BY <1>2, <2>1, NextJobs, IsDeployed DEF QueueInv
  <2>2. CASE \E w \in Workers : ChildrenClash(w)
    BY <2>2 DEF ChildrenClash, QueueInv, JobsOfDocs, OneProcessJob, VectorAfterProcess, OneVectorJob
  <2> QED BY <1>1, <2>1, <2>2
<1>4. TwoTypes'
  <2> SUFFICES ASSUME NEW j \in JobIds, jobs[j] = NoRow, jobs'[j] # NoRow
               PROVE  jobs'[j].type \in {"process_document", "vector_index_document"}
    BY <1>1, <1>2, RowsKept DEF QueueInv, TwoTypes
  <2>1. \A d, t : NewJob(d, t).type = t
    BY DEF NewJob
  <2>2. ASSUME NEW d \in Docs, ISync(d) PROVE jobs'[j].type = "process_document"
    BY <2>1, <2>2 DEF ISync, Enqueue, AInv, IInv, TypeOK, QueueInv
  <2>3. ASSUME NEW w \in Workers, ICommit(w) PROVE jobs'[j].type \in {"process_document", "vector_index_document"}
    <3>1. Commit(w) /\ pc[w] = "commit" /\ Attempt(w) /\ held[w] \in JobIds
      BY <1>2, <2>3 DEF ICommit, Commit, AInv, Attempting, Busy, IInv, Shape
    <3> QED BY <1>2, <2>1, <3>1, CommittedRow DEF Attempt
  <2>4. ASSUME NEW k \in JobIds, ITime(k) PROVE FALSE
    <3>1. BackoffElapses(k) /\ IInv'
      BY <1>2, <2>4 DEF ITime, AInv
    <3>2. jobs[k] \in Job /\ jobs' = [jobs EXCEPT ![k].due = TRUE]
      BY <1>2, <3>1, TimeAInv, IsDeployed
    <3>3. k # j
      BY <3>2, NoRowAssumption
    <3>4. jobs'[j] = jobs[j]
      BY <1>2, <3>2, <3>3 DEF AInv, IInv, TypeOK
    <3> QED BY <3>4
  <2>5. ASSUME NEW w \in Workers, WStep(w), ~ICommit(w) PROVE FALSE
    BY <2>5
       DEF WStep, IWorkerStep, IFault, IClaim, Extracted, TextIndexed, PointsDeleted, PointsUpserted,
           VectorsSkipped, ProcessFails, VectorFails, Finished, FinishedWithChildren, ChildrenClash, IEnqueue,
           IRollback, Claim, WorkFails, WorkSucceeds, EnqueueSelect, EnqueueInsert, Rollback, DatabaseError,
           Crash, vars
  <2>6. INext
    BY DEF ivars, vars
  <2> QED BY <2>2, <2>3, <2>4, <2>5, <2>6 DEF INext, WStep
<1>5. ASSUME NEW w \in Workers PROVE HeldRow(w)'
  <2>1. Claims(w)' = Claims(w)
    BY DEF Claims
  <2>2. CASE pc'[w] \in Busy
    BY <1>2, <2>1, <2>2 DEF AInv, Attempting, IInv, Shape, Attempt, HeldRow
  <2>3. CASE pc'[w] \notin Busy
    <3>1. held'[w] = NoJob \/ pc'[w] = "aborted"
      BY <1>2, <2>3 DEF AInv, IInv, TypeOK, Shape, PC, Busy
    <3>2. held'[w] = held[w] \/ held'[w] = NoJob
      <4>1. CASE \E v \in Workers : WStep(v)
        <5>1. PICK v \in Workers : WStep(v)
          BY <4>1
        <5> QED BY <1>2, <2>3, <5>1, IsDeployed, WorkerFrame DEF Busy
      <4>2. CASE ~ \E v \in Workers : WStep(v)
        BY <4>2 DEF INext, WStep, ISync, ITime, Enqueue, BackoffElapses, ivars, vars
      <4> QED BY <4>1, <4>2
    <3> QED BY <1>1, <1>2, <2>1, <3>2, RowsKept DEF QueueInv, HeldRow
  <2> QED BY <2>2, <2>3
<1>6. Deployed'
  BY DEF QueueInv, Deployed
<1> QED BY <1>2, <1>3, <1>4, <1>5, <1>6 DEF QueueInv

\* The job a worker is at, by the worker's own row and by the table's.
LEMMA BusyRow ==
  ASSUME ITypeOK, QueueInv, NEW w \in Workers, pc[w] \in Busy
  PROVE  LET j == held[w]
             row == writes[w][j] IN
         /\ j \in JobIds /\ j # NoJob /\ jobs[j] # NoRow /\ row # NoRow /\ row \in Job
         /\ row.doc = jobs[j].doc /\ row.type = jobs[j].type /\ jobs[j].status \in {"pending", "retry"}
         /\ DocOf(w) = jobs[j].doc /\ DocOf(w) \in Docs
         /\ row.type \in {"process_document", "vector_index_document"}
         /\ w \notin PipelineWorkers => row.type = "vector_index_document"
<1>1. Attempt(w) /\ held[w] \in JobIds /\ writes[w][held[w]] # NoRow /\ jobs[held[w]] # NoRow
  BY DEF QueueInv, AInv, Attempting, Attempt, IInv, Shape
<1>2. jobs[held[w]] \in Job /\ writes[w][held[w]] \in Job
  BY <1>1 DEF ITypeOK, TypeOK
<1>3. w \notin PipelineWorkers => Claims(w) = {"vector_index_document"}
  BY IsDeployed, OnlyShort DEF Claims
<1> QED BY <1>1, <1>2, <1>3, NoJobAssumption DEF Attempt, DocOf, QueueInv, TwoTypes, Job

\* One live worker per document: its jobs run one after the other.
LEMMA Sole ==
  ASSUME ITypeOK, QueueInv, NEW v \in Workers, NEW w \in Workers, pc[v] \in Busy, pc[w] \in Busy,
         DocOf(v) = DocOf(w)
  PROVE  v = w
<1>1. PICK j \in JobIds : j = held[v]
  BY BusyRow
<1>2. PICK k \in JobIds : k = held[w]
  BY BusyRow
<1>3. /\ jobs[j] # NoRow /\ jobs[j].status # "succeeded" /\ j # NoJob
      /\ jobs[k] # NoRow /\ jobs[k].status # "succeeded" /\ jobs[j].doc = jobs[k].doc
      /\ jobs[j].type \in {"process_document", "vector_index_document"}
      /\ jobs[k].type \in {"process_document", "vector_index_document"}
  BY <1>1, <1>2, BusyRow
<1>4. \/ jobs[j].type = "process_document" /\ jobs[k].type = "process_document"
      \/ jobs[j].type = "vector_index_document" /\ jobs[k].type = "vector_index_document"
  <2>1. ASSUME NEW m \in JobIds, jobs[m] # NoRow, jobs[m].type = "process_document",
               jobs[m].status # "succeeded", NEW n \in JobIds, jobs[n] # NoRow,
               jobs[n].type = "vector_index_document", jobs[n].doc = jobs[m].doc
        PROVE  FALSE
    <3>1. PICK l \in JobIds : /\ jobs[l] # NoRow /\ jobs[l].type = "process_document"
                              /\ jobs[l].doc = jobs[n].doc /\ jobs[l].status = "succeeded"
      BY <2>1 DEF QueueInv, JobsOfDocs, VectorAfterProcess
    <3>2. l = m
      BY <2>1, <3>1 DEF QueueInv, JobsOfDocs, OneProcessJob
    <3> QED BY <2>1, <3>1, <3>2
  <2>2. ~ (jobs[j].type = "process_document" /\ jobs[k].type = "vector_index_document")
    BY <1>3, <2>1
  <2>3. ~ (jobs[k].type = "process_document" /\ jobs[j].type = "vector_index_document")
    BY <1>3, <2>1
  <2> QED BY <1>3, <2>2, <2>3
<1>5. j = k
  BY <1>3, <1>4 DEF QueueInv, JobsOfDocs, OneProcessJob, OneVectorJob
<1>6. OneLiveClaim
  BY OneLiveClaimInv DEF QueueInv, AInv
<1> QED BY <1>1, <1>2, <1>3, <1>5, <1>6 DEF OneLiveClaim, Busy

-----------------------------------------------------------------------------
(* The documents' status and children, and the text index.                 *)

Locals(w) == StatusLocal(w) /\ TextLocal(w) /\ CreatedLocal(w)

Globals == IndexedIsSearchable /\ StatusExplained /\ ChildrenWithSuccess

\* Before its last statements a transaction has written nothing of a document.
LEMMA NothingWritten ==
  ASSUME NEW w \in Workers, Locals(w), pc[w] \notin Ending
  PROVE  \A d \in Docs : swrites[w][d] = NoRow /\ created[w][d] = NoRow
BY DEF Locals, StatusLocal, CreatedLocal

\* A step of others.
LEMMA LocalsKept ==
  ASSUME QueueInv, NEW v \in Workers, Locals(v), pc'[v] = pc[v], held'[v] = held[v],
         writes'[v] = writes[v], swrites'[v] = swrites[v], created'[v] = created[v],
         stage'[v] = stage[v], es \subseteq es', attached' = attached,
         held[v] # NoJob => jobs'[held[v]].doc = jobs[held[v]].doc
  PROVE  Locals(v)'
<1>1. pc[v] \in Ending => held[v] # NoJob
  BY NoJobAssumption DEF QueueInv, AInv, IInv, Shape, Busy, Ending
<1>2. held[v] # NoJob => DocOf(v)' = DocOf(v)
  BY DEF DocOf
<1>3. StatusLocal(v)'
  BY <1>1, <1>2 DEF Locals, StatusLocal
<1>4. TextLocal(v)'
  BY <1>2 DEF Locals, TextLocal
<1>5. CreatedLocal(v)'
  BY <1>1, <1>2 DEF Locals, CreatedLocal
<1> QED BY <1>3, <1>4, <1>5 DEF Locals

\* The worker itself, while it has nothing written.
LEMMA QuietLocals ==
  ASSUME NEW w \in Workers, pc'[w] \notin Ending,
         \A d \in Docs : swrites'[w][d] = NoRow /\ created'[w][d] = NoRow
  PROVE  StatusLocal(w)' /\ CreatedLocal(w)'
BY DEF StatusLocal, CreatedLocal

LEMMA GlobalsKept ==
  ASSUME Globals, UNCHANGED <<status, children, attached>>, es \subseteq es',
         \A k \in JobIds : /\ jobs[k] = NoRow <=> jobs'[k] = NoRow
                           /\ jobs'[k] # NoRow => /\ jobs'[k].doc = jobs[k].doc
                                                  /\ jobs'[k].type = jobs[k].type
                                                  /\ jobs'[k].status = jobs[k].status
  PROVE  Globals'
<1>1. IndexedIsSearchable'
  BY DEF Globals, IndexedIsSearchable
<1>2. StatusExplained'
  BY DEF Globals, StatusExplained, ActiveFor
<1>3. \A d : ProcessedDoc(d)' = ProcessedDoc(d)
  BY DEF ProcessedDoc
<1>4. ChildrenWithSuccess'
  BY <1>3 DEF Globals, ChildrenWithSuccess
<1> QED BY <1>1, <1>2, <1>4 DEF Globals

-----------------------------------------------------------------------------
(* A worker's own part, step by step.                                      *)

\* Claiming, and the stages up to the last.
LEMMA StagesLocals ==
  ASSUME ITypeOK, QueueInv, NEW w \in Workers, Locals(w),
         \/ IClaim(w) \/ Extracted(w) \/ TextIndexed(w) \/ PointsDeleted(w) \/ PointsUpserted(w)
         \/ VectorsSkipped(w)
  PROVE  Locals(w)'
<1>1. pc[w] \notin Ending /\ pc'[w] \notin Ending /\ UNCHANGED <<swrites, created>>
  <2>1. CASE IClaim(w)
    BY <2>1 DEF IClaim, Claim, kids, Ending, ITypeOK, TypeOK
  <2>2. CASE ~ IClaim(w)
    BY <2>2 DEF Extracted, TextIndexed, PointsDeleted, PointsUpserted, VectorsSkipped, AtStage, Working,
                kids, vars, Ending
  <2> QED BY <2>1, <2>2
<1>2. StatusLocal(w)' /\ CreatedLocal(w)'
  BY <1>1, NothingWritten, QuietLocals
<1>3. TextLocal(w)'
  <2>1. CASE IClaim(w)
    BY <2>1 DEF IClaim, Goto, ITypeOK, TextLocal
  <2>2. CASE ~ IClaim(w)
    <3>1. UNCHANGED <<jobs, held>> /\ DocOf(w)' = DocOf(w) /\ held[w] # NoJob
      BY <2>2 DEF Extracted, TextIndexed, PointsDeleted, PointsUpserted, VectorsSkipped, vars, DocOf,
                  AtStage, Working
    <3>2. CASE Extracted(w)
      BY <3>1, <3>2, KindsAssumption DEF Extracted, Goto, ITypeOK, TextLocal
    <3>3. CASE TextIndexed(w)
      BY <3>1, <3>3 DEF TextIndexed, Goto, ITypeOK, TextLocal
    <3>4. CASE PointsDeleted(w) \/ PointsUpserted(w) \/ VectorsSkipped(w)
      BY <3>1, <3>4
         DEF PointsDeleted, PointsUpserted, VectorsSkipped, AtStage, Goto, ITypeOK, TextLocal, Locals
    <3> QED BY <2>2, <3>2, <3>3, <3>4
  <2> QED BY <2>1, <2>2
<1> QED BY <1>2, <1>3 DEF Locals

\* The outcome of the work, with what goes into the documents' table.
LEMMA FailsLocals ==
  ASSUME ITypeOK, QueueInv, NEW w \in Workers, Locals(w), ProcessFails(w) \/ VectorFails(w)
  PROVE  Locals(w)'
<1>1. pc[w] = "work" /\ pc'[w] = "commit" /\ UNCHANGED <<jobs, held, es, stage, attached, created>>
  BY DEF ProcessFails, VectorFails, WorkFails, kids, ITypeOK, TypeOK
<1>2. DocOf(w)' = DocOf(w) /\ DocOf(w) \in Docs /\ held[w] \in JobIds
  BY <1>1, BusyRow DEF DocOf, Busy
<1>3. \A d \in Docs : swrites[w][d] = NoRow /\ created[w][d] = NoRow
  BY <1>1, NothingWritten DEF Ending
<1>4. writes'[w][held[w]] = Failed(writes[w][held[w]]) /\ writes[w][held[w]] \in Job
  BY <1>1, <1>2, BusyRow DEF ProcessFails, VectorFails, WorkFails, ITypeOK, TypeOK, Busy
<1>5. writes'[w][held[w]].status \in {"retry", "dead_letter"}
  BY <1>4 DEF Failed, Job
<1>6. TextLocal(w)'
  BY <1>1, <1>2 DEF Locals, TextLocal
<1>7. CreatedLocal(w)'
  BY <1>1, <1>3, <1>5 DEF CreatedLocal
<1>8. StatusLocal(w)'
  <2>1. CASE ProcessFails(w)
    <3>1. \A d \in Docs : swrites'[w][d] = IF d = DocOf(w) THEN "failed" ELSE NoRow
      BY <1>2, <1>3, <2>1 DEF ProcessFails, WriteStatus, ITypeOK
    <3> QED BY <1>1, <1>2, <1>5, <3>1 DEF StatusLocal, Ending
  <2>2. CASE VectorFails(w)
    <3>1. UNCHANGED swrites /\ w \notin PipelineWorkers
      BY <2>2, KindsAssumption DEF VectorFails
    <3> QED BY <1>3, <3>1 DEF StatusLocal
  <2> QED BY <2>1, <2>2
<1> QED BY <1>6, <1>7, <1>8 DEF Locals

LEMMA SuccessLocals ==
  ASSUME ITypeOK, QueueInv, Globals, NEW w \in Workers, Locals(w),
         Finished(w) \/ FinishedWithChildren(w)
  PROVE  Locals(w)'
<1>1. /\ pc[w] = "work" /\ pc'[w] \in {"commit", "enqueue"} /\ stage[w] = "finish"
      /\ UNCHANGED <<jobs, held, es, stage, attached>>
  BY DEF Finished, FinishedWithChildren, MeetsAttachments, WorkSucceeds, kids, ITypeOK, TypeOK
<1>2. DocOf(w)' = DocOf(w) /\ DocOf(w) \in Docs /\ held[w] \in JobIds /\ held[w] # NoJob
  BY <1>1, BusyRow DEF DocOf, Busy
<1>3. \A d \in Docs : swrites[w][d] = NoRow /\ created[w][d] = NoRow
  BY <1>1, NothingWritten DEF Ending
<1>4. /\ writes'[w][held[w]].status = "succeeded"
      /\ writes'[w][held[w]].type = writes[w][held[w]].type
  <2>1. writes[w][held[w]] \in Job /\ writes' = [writes EXCEPT ![w][held[w]].status = "succeeded"]
    BY <1>1, BusyRow DEF Finished, FinishedWithChildren, WorkSucceeds, Busy
  <2> QED BY <1>2, <2>1 DEF ITypeOK, TypeOK, Job
<1>5. TextLocal(w)'
  BY <1>1, <1>2 DEF Locals, TextLocal
<1>6. StatusLocal(w)'
  <2>1. CASE w \in PipelineWorkers
    <3>1. \A d \in Docs : swrites'[w][d] = IF d = DocOf(w) THEN "indexed" ELSE NoRow
      BY <1>2, <1>3, <2>1 DEF Finished, FinishedWithChildren, WriteStatus, ITypeOK
    <3>2. DocOf(w) \in es
      BY <1>1, <1>2, <2>1 DEF Locals, TextLocal
    <3> QED BY <1>1, <1>2, <1>4, <3>1, <3>2 DEF StatusLocal, Ending
  <2>2. CASE w \notin PipelineWorkers
    <3>1. UNCHANGED swrites
      BY <2>2 DEF Finished, FinishedWithChildren, MeetsAttachments
    <3> QED BY <1>3, <2>2, <3>1 DEF StatusLocal
  <2> QED BY <2>1, <2>2
<1>7. CreatedLocal(w)'
  <2>1. CASE Finished(w)
    BY <1>1, <1>2, <1>3, <2>1 DEF Finished, CreatedLocal, kids
  <2>2. CASE FinishedWithChildren(w)
    <3>1. PICK s \in {"pending", "indexed"} : created' = [created EXCEPT ![w][DocOf(w)] = s]
      BY <2>2 DEF FinishedWithChildren
    <3>2. \A d \in Docs : created'[w][d] = IF d = DocOf(w) THEN s ELSE NoRow
      BY <1>2, <1>3, <3>1 DEF ITypeOK
    <3>3. s # NoRow
      BY NoRowStatusAssumption DEF DocStatus
    <3>4. writes[w][held[w]].type = "process_document"
      <4>1. ~ ProcessedDoc(DocOf(w))
        BY <1>2, <2>2 DEF FinishedWithChildren, MeetsAttachments, Globals, ChildrenWithSuccess
      <4>2. jobs[held[w]].type # "vector_index_document"
        BY <1>1, <4>1, BusyRow DEF QueueInv, JobsOfDocs, VectorAfterProcess, ProcessedDoc, Busy
      <4> QED BY <1>1, <4>2, BusyRow DEF Busy
    <3> QED BY <1>1, <1>2, <1>4, <3>2, <3>3, <3>4 DEF CreatedLocal, Ending
  <2> QED BY <2>1, <2>2
<1> QED BY <1>5, <1>6, <1>7 DEF Locals

\* Enqueueing the follow-up writes another row; what aborts forgets.
LEMMA EnqueueLocals ==
  ASSUME ITypeOK, QueueInv, NEW w \in Workers, Locals(w), IEnqueue(w)
  PROVE  Locals(w)'
<1>1. pc[w] \in Ending /\ pc[w] \in Busy /\ UNCHANGED <<jobs, held, es, stage, attached>>
  BY DEF IEnqueue, EnqueueSelect, EnqueueInsert, Ending, Busy
<1>2. DocOf(w)' = DocOf(w) /\ held[w] \in JobIds /\ held[w] # NoJob /\ writes[w][held[w]] # NoRow
  BY <1>1, BusyRow DEF DocOf
<1>3. TextLocal(w)'
  BY <1>1, <1>2 DEF Locals, TextLocal
<1>4. CASE pc'[w] = "aborted"
  <2>1. \A d \in Docs : swrites'[w][d] = NoRow /\ created'[w][d] = NoRow
    BY <1>4 DEF IEnqueue, Forgotten, NoStatus, ITypeOK
  <2>2. StatusLocal(w)' /\ CreatedLocal(w)'
    BY <1>4, <2>1, QuietLocals DEF Ending
  <2> QED BY <1>3, <2>2 DEF Locals
<1>5. CASE pc'[w] # "aborted"
  <2>1. UNCHANGED <<swrites, created>>
    BY <1>5 DEF IEnqueue
  <2>2. pc'[w] \in Ending /\ writes'[w][held[w]] = writes[w][held[w]]
    <3>1. CASE EnqueueSelect(w)
      BY <3>1, <1>5 DEF EnqueueSelect, ITypeOK, TypeOK, Ending
    <3>2. CASE EnqueueInsert(w)
      <4>1. PICK t \in FollowUp(w, writes[w][held[w]].type), k \in JobIds :
              /\ NextId(k) /\ pc' = [pc EXCEPT ![w] = "commit"]
              /\ writes' = [writes EXCEPT ![w][k] = NewJob(writes[w][held[w]].doc, t)]
        BY <1>5, <3>2 DEF EnqueueInsert, ITypeOK, TypeOK
      <4>2. held[w] \in Used
        BY <1>2 DEF Used
      <4>3. k # held[w]
        BY <1>2, <4>1, <4>2, JobIdsAssumption DEF NextId, Later
      <4> QED BY <1>2, <4>1, <4>3 DEF ITypeOK, TypeOK, Ending
    <3> QED BY <3>1, <3>2 DEF IEnqueue
  <2>3. StatusLocal(w)'
    BY <1>1, <1>2, <2>1, <2>2 DEF Locals, StatusLocal
  <2>4. CreatedLocal(w)'
    BY <1>1, <1>2, <2>1, <2>2 DEF Locals, CreatedLocal
  <2> QED BY <1>3, <2>3, <2>4 DEF Locals
<1> QED BY <1>4, <1>5

\* What ends a transaction, or the iteration.
LEMMA LostLocals ==
  ASSUME ITypeOK, QueueInv, NEW w \in Workers, Locals(w),
         ChildrenClash(w) \/ IRollback(w) \/ IFault(w) \/ ICommit(w)
  PROVE  Locals(w)'
<1>1. /\ pc'[w] \notin Ending /\ UNCHANGED <<stage, attached, es>>
      /\ held'[w] = NoJob \/ (UNCHANGED jobs /\ held'[w] = held[w])
  <2>1. w \in ShortTx
    BY OnlyShort, IsDeployed
  <2> QED BY <2>1
          DEF ChildrenClash, IRollback, IFault, ICommit, Rollback, DatabaseError, Crash, Commit, Ending, kids,
              ITypeOK, TypeOK
<1>2. \A d \in Docs : swrites'[w][d] = NoRow /\ created'[w][d] = NoRow
  <2>1. CASE ChildrenClash(w)
    BY <2>1, NothingWritten
       DEF ChildrenClash, MeetsAttachments, NoStatus, Ending, ITypeOK, kids
  <2>2. CASE IRollback(w)
    BY <2>2, NothingWritten DEF IRollback, Rollback, Ending, kids
  <2>3. CASE IFault(w) \/ ICommit(w)
    BY <2>3 DEF IFault, ICommit, Forgotten, NoStatus, ITypeOK
  <2> QED BY <2>1, <2>2, <2>3
<1>3. TextLocal(w)'
  BY <1>1 DEF Locals, TextLocal, DocOf
<1> QED BY <1>1, <1>2, <1>3, QuietLocals DEF Locals

-----------------------------------------------------------------------------
(* The tables.                                                             *)

\* A commit publishes the outcome of the job with the document's status and
\* children: the job it finishes is the only process_document job of that
\* document, or the document's has succeeded before.
LEMMA CommitGlobals ==
  ASSUME ITypeOK, QueueInv, Globals, NEW w \in Workers, Locals(w), ICommit(w)
  PROVE  Globals'
<1> DEFINE j == held[w]
           row == writes[w][j]
           d0 == DocOf(w)
<1>1. /\ Commit(w) /\ pc[w] = "commit" /\ AInv
      /\ status' = Merged(status, swrites[w]) /\ children' = Merged(children, created[w])
      /\ UNCHANGED <<es, attached>>
  BY DEF ICommit, Commit, QueueInv
<1>2. /\ j \in JobIds /\ jobs[j] # NoRow /\ jobs[j].status # "succeeded" /\ row # NoRow
      /\ row.doc = d0 /\ jobs[j].doc = d0 /\ d0 \in Docs /\ row.type = jobs[j].type
      /\ row.type \in {"process_document", "vector_index_document"}
      /\ row.type = "process_document" => w \in PipelineWorkers
  BY <1>1, BusyRow DEF Busy
<1>3. row.status \in {"succeeded", "retry", "dead_letter"}
  BY <1>1, OutcomeAttempts
<1>4. /\ \A d \in Docs : swrites[w][d] # NoRow =>
           d = d0 /\ swrites[w][d] \in {"failed", "indexed"} /\ (swrites[w][d] = "indexed" => d \in es)
      /\ w \in PipelineWorkers => /\ row.status = "succeeded" => swrites[w][d0] = "indexed"
                                  /\ row.status \in {"retry", "dead_letter"} => swrites[w][d0] = "failed"
  BY <1>1 DEF Locals, StatusLocal, Ending
<1>5. /\ \A d \in Docs : created[w][d] # NoRow =>
           /\ d = d0 /\ row.status = "succeeded" /\ row.type = "process_document"
           /\ created[w][d] \in {"pending", "indexed"}
      /\ row.status = "succeeded" /\ row.type = "process_document" /\ d0 \in attached => created[w][d0] # NoRow
  BY <1>1, <1>2 DEF Locals, CreatedLocal, Ending
<1>6. \A d \in Docs : /\ status'[d] = IF swrites[w][d] # NoRow THEN swrites[w][d] ELSE status[d]
                      /\ children'[d] = IF created[w][d] # NoRow THEN created[w][d] ELSE children[d]
  BY <1>1 DEF Merged
<1>7. \A k \in JobIds : \/ k = j /\ jobs'[k] = row
                        \/ k # j /\ jobs'[k] = jobs[k]
                        \/ /\ k # j /\ jobs[k] = NoRow
                           /\ jobs'[k].type = "vector_index_document"
  <2>1. \A d : NewJob(d, "vector_index_document").type = "vector_index_document"
    BY DEF NewJob
  <2> QED BY <1>1, <2>1, CommittedRow
<1>8. \A k \in JobIds : jobs[k] # NoRow /\ jobs[k].type = "process_document" /\ jobs[k].doc = d0 =>
        k = j \/ jobs[k].status = "succeeded"
  BY <1>2 DEF QueueInv, JobsOfDocs, OneProcessJob, VectorAfterProcess
<1>9. "failed" # NoRow /\ "indexed" # NoRow
  BY NoRowStatusAssumption DEF DocStatus
<1> HIDE DEF row, d0
<1>10. IndexedIsSearchable'
  BY <1>1, <1>4, <1>6 DEF Globals, IndexedIsSearchable
<1>11. StatusExplained'
  <2> SUFFICES ASSUME NEW d \in Docs
               PROVE  /\ status'[d] = "pending" =>
                           \E k \in JobIds : ActiveFor(jobs'[k], d, "process_document")
                      /\ \A k \in JobIds :
                           jobs'[k] # NoRow /\ jobs'[k].doc = d /\ jobs'[k].type = "process_document" =>
                             /\ jobs'[k].status = "dead_letter" => status'[d] = "failed"
                             /\ jobs'[k].status = "succeeded" => d \in es'
    BY DEF StatusExplained, ActiveFor
  <2>1. ASSUME status'[d] = "pending" PROVE \E k \in JobIds : ActiveFor(jobs'[k], d, "process_document")
    <3>1. status[d] = "pending" /\ swrites[w][d] = NoRow
      BY <1>4, <1>6, <2>1
    <3>2. PICK k \in JobIds : ActiveFor(jobs[k], d, "process_document")
      BY <3>1 DEF Globals, StatusExplained
    <3>3. k # j
      BY <1>2, <1>3, <1>4, <1>9, <3>1, <3>2 DEF ActiveFor
    <3>4. jobs'[k] = jobs[k]
      BY <1>7, <3>2, <3>3 DEF ActiveFor
    <3> QED BY <3>2, <3>4
  <2>2. ASSUME NEW k \in JobIds, jobs'[k] # NoRow, jobs'[k].doc = d, jobs'[k].type = "process_document"
        PROVE  /\ jobs'[k].status = "dead_letter" => status'[d] = "failed"
               /\ jobs'[k].status = "succeeded" => d \in es'
    <3>1. CASE k = j
      BY <1>1, <1>2, <1>4, <1>6, <1>7, <1>9, <2>2, <3>1
    <3>2. CASE k # j
      <4>1. jobs'[k] = jobs[k]
        BY <1>7, <2>2, <3>2
      <4>2. jobs[k].status = "dead_letter" => status[d] = "failed" /\ swrites[w][d] = NoRow
        BY <1>4, <1>8, <2>2, <3>2, <4>1 DEF Globals, StatusExplained
      <4> QED BY <1>1, <1>6, <2>2, <4>1, <4>2 DEF Globals, StatusExplained
    <3> QED BY <3>1, <3>2
  <2> QED BY <2>1, <2>2
<1>12. ChildrenWithSuccess'
  <2> SUFFICES ASSUME NEW d \in Docs, d \in attached PROVE children'[d] # "absent" <=> ProcessedDoc(d)'
    BY <1>1 DEF ChildrenWithSuccess, ITypeOK
  <2>1. children[d] # "absent" <=> ProcessedDoc(d)
    BY DEF Globals, ChildrenWithSuccess
  <2>2. CASE d = d0 /\ row.status = "succeeded" /\ row.type = "process_document"
    <3>1. children'[d] # "absent"
      BY <1>5, <1>6, <2>2
    <3>2. ProcessedDoc(d)'
      BY <1>2, <1>7, <2>2 DEF ProcessedDoc
    <3> QED BY <3>1, <3>2
  <2>3. CASE ~ (d = d0 /\ row.status = "succeeded" /\ row.type = "process_document")
    <3>1. children'[d] = children[d]
      BY <1>5, <1>6, <2>3
    <3>2. ProcessedDoc(d)' <=> ProcessedDoc(d)
      BY <1>2, <1>7, <2>3 DEF ProcessedDoc
    <3> QED BY <2>1, <3>1, <3>2
  <2> QED BY <2>2, <2>3
<1> QED BY <1>10, <1>11, <1>12 DEF Globals

\* A sync brings a document and its process_document job.
LEMMA SyncGlobals ==
  ASSUME ITypeOK, QueueInv, Globals, NEW d0 \in Docs, ISync(d0)
  PROVE  Globals'
<1>1. PICK j \in JobIds : NextId(j) /\ jobs' = [jobs EXCEPT ![j] = NewJob(d0, "process_document")]
  BY DEF ISync, Enqueue
<1>2. jobs[j] = NoRow
  BY <1>1, JobIdsAssumption DEF NextId, Later, Used
<1>3. \A k \in JobIds : jobs'[k] = IF k = j THEN NewJob(d0, "process_document") ELSE jobs[k]
  BY <1>1 DEF ITypeOK, TypeOK
<1>4. /\ \A d \in Docs : status'[d] = IF d = d0 THEN "pending" ELSE status[d]
      /\ UNCHANGED <<es, attached, children>>
  BY DEF ISync, ITypeOK, kids
<1>5. \A k \in JobIds : jobs[k] # NoRow => <<jobs[k].doc, jobs[k].type>> # <<d0, "process_document">>
  BY DEF ISync, Enqueue
<1>6. /\ NewJob(d0, "process_document") # NoRow
      /\ NewJob(d0, "process_document").doc = d0 /\ NewJob(d0, "process_document").status = "pending"
      /\ NewJob(d0, "process_document").type = "process_document"
  BY RowTypes, NoRowAssumption DEF NewJob, JobTypes
<1> PICK new : new = NewJob(d0, "process_document")
  OBVIOUS
<1>7. IndexedIsSearchable'
  BY <1>4 DEF Globals, IndexedIsSearchable
<1>8. StatusExplained'
  <2> SUFFICES ASSUME NEW d \in Docs
               PROVE  /\ status'[d] = "pending" =>
                           \E k \in JobIds : ActiveFor(jobs'[k], d, "process_document")
                      /\ \A k \in JobIds :
                           jobs'[k] # NoRow /\ jobs'[k].doc = d /\ jobs'[k].type = "process_document" =>
                             /\ jobs'[k].status = "dead_letter" => status'[d] = "failed"
                             /\ jobs'[k].status = "succeeded" => d \in es'
    BY DEF StatusExplained, ActiveFor
  <2>1. CASE d = d0
    <3>1. ActiveFor(jobs'[j], d, "process_document")
      BY <1>3, <1>6, <2>1 DEF ActiveFor, Active
    <3> QED BY <1>3, <1>5, <1>6, <2>1, <3>1
  <2>2. CASE d # d0
    <3>1. status'[d] = status[d] /\ \A k \in JobIds : jobs[k] # NoRow => jobs'[k] = jobs[k]
      BY <1>2, <1>3, <1>4, <2>2
    <3> QED BY <1>3, <1>4, <1>6, <2>2, <3>1 DEF Globals, StatusExplained, ActiveFor
  <2> QED BY <2>1, <2>2
<1>9. \A d : ProcessedDoc(d)' <=> ProcessedDoc(d)
  BY <1>2, <1>3, <1>6 DEF ProcessedDoc
<1>10. ChildrenWithSuccess'
  BY <1>4, <1>9 DEF Globals, ChildrenWithSuccess
<1> QED BY <1>7, <1>8, <1>10 DEF Globals

LEMMA DocsInvStep ==
  ASSUME ITypeOK, QueueInv, DocsInv, [INext]_ivars
  PROVE  DocsInv'
<1>1. Globals /\ AInv /\ \A w \in Workers : Locals(w)
  BY DEF DocsInv, Globals, Locals, QueueInv
<1>2. ([Next]_vars \/ \E w \in Workers : ChildrenClash(w))
  BY QueueSteps DEF ivars
<1>3. \A v \in Workers : held[v] # NoJob => jobs'[held[v]].doc = jobs[held[v]].doc
  BY <1>1, <1>2, RowsKept DEF QueueInv, HeldRow
<1>4. CASE \E d \in Docs : ISync(d)
  <2>1. PICK d \in Docs : ISync(d)
    BY <1>4
  <2>2. Globals'
    BY <1>1, <2>1, SyncGlobals
  <2>3. \A v \in Workers : Locals(v)'
    BY <1>1, <1>3, <2>1, LocalsKept DEF ISync, Enqueue, kids
  <2> QED BY <2>2, <2>3 DEF DocsInv, Globals, Locals
<1>5. CASE \E j \in JobIds : ITime(j)
  <2>1. PICK j \in JobIds : ITime(j)
    BY <1>5
  <2>2. jobs[j] \in Job /\ jobs' = [jobs EXCEPT ![j].due = TRUE]
    <3>1. BackoffElapses(j) /\ IInv'
      BY <1>1, <2>1, NextIInv DEF ITime, AInv, Next
    <3> QED BY <1>1, <3>1, TimeAInv, IsDeployed
  <2>3. \A k \in JobIds : jobs'[k] = IF k = j THEN [jobs[j] EXCEPT !.due = TRUE] ELSE jobs[k]
    BY <2>2 DEF ITypeOK, TypeOK
  <2>4. /\ [jobs[j] EXCEPT !.due = TRUE] # NoRow /\ jobs[j] # NoRow
        /\ [jobs[j] EXCEPT !.due = TRUE].doc = jobs[j].doc
        /\ [jobs[j] EXCEPT !.due = TRUE].type = jobs[j].type
        /\ [jobs[j] EXCEPT !.due = TRUE].status = jobs[j].status
    <3>1. [jobs[j] EXCEPT !.due = TRUE] \in Job
      BY <2>2, RowTypes
    <3> QED BY <2>2, <3>1, NoRowAssumption DEF Job
  <2>5. Globals'
    BY <1>1, <2>1, <2>3, <2>4, GlobalsKept DEF ITime, kids
  <2>6. \A v \in Workers : Locals(v)'
    BY <1>1, <1>3, <2>1, IsDeployed, LocalsKept DEF ITime, BackoffElapses, kids, Deployed, LongTx
  <2> QED BY <2>5, <2>6 DEF DocsInv, Globals, Locals
<1>6. CASE \E w \in Workers : WStep(w)
  <2>1. PICK w \in Workers : WStep(w)
    BY <1>6
  <2>2. es \subseteq es' /\ attached' = attached
    BY <2>1
       DEF WStep, IWorkerStep, IFault, IClaim, Extracted, TextIndexed, PointsDeleted, PointsUpserted,
           VectorsSkipped, ProcessFails, VectorFails, Finished, FinishedWithChildren, ChildrenClash, IEnqueue,
           ICommit, IRollback, kids
  <2>3. Globals'
    <3>1. CASE ICommit(w)
      BY <1>1, <3>1, CommitGlobals
    <3>2. CASE ~ ICommit(w)
      <4>1. UNCHANGED <<jobs, status, children, attached>>
        BY <2>1, <3>2
           DEF WStep, IWorkerStep, IFault, IClaim, Extracted, TextIndexed, PointsDeleted, PointsUpserted,
               VectorsSkipped, ProcessFails, VectorFails, Finished, FinishedWithChildren, ChildrenClash,
               IEnqueue, IRollback, Claim, WorkFails, WorkSucceeds, EnqueueSelect, EnqueueInsert, Rollback,
               DatabaseError, Crash, vars, kids
      <4> QED BY <1>1, <2>2, <4>1, GlobalsKept
    <3> QED BY <3>1, <3>2
  <2>4. ASSUME NEW v \in Workers PROVE Locals(v)'
    <3>1. CASE v = w
      BY <1>1, <2>1, <3>1, StagesLocals, FailsLocals, SuccessLocals, EnqueueLocals, LostLocals
         DEF WStep, IWorkerStep
    <3>2. CASE v # w
      <4>1. /\ pc'[v] = pc[v] /\ held'[v] = held[v] /\ writes'[v] = writes[v]
            /\ swrites'[v] = swrites[v] /\ created'[v] = created[v] /\ stage'[v] = stage[v]
        BY <1>1, <2>1, <3>2, IsDeployed, WorkerFrame
      <4> QED BY <1>1, <1>3, <2>2, <4>1, LocalsKept
    <3> QED BY <3>1, <3>2
  <2> QED BY <2>3, <2>4 DEF DocsInv, Globals, Locals
<1>7. CASE UNCHANGED ivars
  <2>1. Globals'
    BY <1>1, <1>7, GlobalsKept DEF ivars, vars, kids
  <2>2. \A v \in Workers : Locals(v)'
    BY <1>1, <1>3, <1>7, LocalsKept DEF ivars, vars, kids
  <2> QED BY <2>1, <2>2 DEF DocsInv, Globals, Locals
<1> QED BY <1>4, <1>5, <1>6, <1>7 DEF INext, WStep

-----------------------------------------------------------------------------
(* The points.                                                             *)

LEMMA PointsInvStep ==
  ASSUME ITypeOK, QueueInv, PointsInv, [INext]_ivars
  PROVE  PointsInv'
<1> SUFFICES ASSUME faults' = 0
             PROVE  /\ \A d \in Docs : ~ ("plain" \in points'[d] /\ "trans" \in points'[d])
                    /\ \A v \in Workers :
                         /\ pc'[v] = "aborted" => stage'[v] = "finish"
                         /\ AtStage(v, "upsert")' => points'[DocOf(v)'] = {}
  BY DEF PointsInv, PointsFromOneWriter
<1>1. AInv /\ ([Next]_vars \/ \E w \in Workers : ChildrenClash(w))
  BY QueueSteps DEF ivars, QueueInv
<1>2. \A v \in Workers : held[v] # NoJob => /\ jobs'[held[v]].doc = jobs[held[v]].doc
                                           /\ jobs'[held[v]].doc = jobs'[held[v]].doc
  BY <1>1, RowsKept DEF QueueInv, HeldRow
<1>3. faults = 0
  <2>1. ASSUME NEW w \in Workers, WorkerStep(w) PROVE UNCHANGED faults
    BY <2>1
       DEF WorkerStep, Reap, Claim, NothingToClaim, WorkSucceeds, WorkFails, EnqueueSelect, EnqueueInsert,
           Commit, NextIteration, Rollback
  <2>2. ASSUME NEW w \in Workers, Fault(w) PROVE faults' = faults + 1
    BY <2>2 DEF Fault, DatabaseError, Crash, Interrupt
  <2>3. UNCHANGED faults \/ faults' = faults + 1
    BY <1>1, <2>1, <2>2 DEF ChildrenClash, Next, Enqueue, BackoffElapses, LockAges, vars
  <2>4. faults \in Nat
    BY FaultsAssumption DEF ITypeOK, TypeOK
  <2> QED BY <2>3, <2>4
<1>4. /\ \A d \in Docs : ~ ("plain" \in points[d] /\ "trans" \in points[d])
      /\ \A v \in Workers : /\ pc[v] = "aborted" => stage[v] = "finish"
                            /\ AtStage(v, "upsert") => points[DocOf(v)] = {}
  BY <1>3 DEF PointsInv, PointsFromOneWriter
\* A worker that stays where it is, at an untouched document.
<1>5. ASSUME NEW v \in Workers, pc'[v] = pc[v], stage'[v] = stage[v], held'[v] = held[v],
             AtStage(v, "upsert") => points'[DocOf(v)] = {}
      PROVE  /\ pc'[v] = "aborted" => stage'[v] = "finish"
             /\ AtStage(v, "upsert")' => points'[DocOf(v)'] = {}
  BY <1>2, <1>4, <1>5 DEF AtStage, Working, DocOf
<1>6. CASE UNCHANGED <<pc, stage, held, points>>
  BY <1>4, <1>5, <1>6
<1>7. CASE (\E d \in Docs : ISync(d)) \/ (\E j \in JobIds : ITime(j)) \/ UNCHANGED ivars
  BY <1>6, <1>7 DEF ISync, Enqueue, ITime, BackoffElapses, ivars, vars, kids
<1>8. CASE \E w \in Workers : WStep(w)
  <2>1. PICK w \in Workers : WStep(w)
    BY <1>8
  <2>2. \A v \in Workers : v # w => pc'[v] = pc[v] /\ held'[v] = held[v] /\ stage'[v] = stage[v]
    BY <1>1, <2>1, IsDeployed, WorkerFrame
  <2>3. ~ IFault(w)
    BY <1>3 DEF IFault, DatabaseError, Crash
  <2>4. CASE \/ IClaim(w) \/ Extracted(w) \/ TextIndexed(w) \/ VectorsSkipped(w) \/ ProcessFails(w)
             \/ VectorFails(w) \/ Finished(w) \/ FinishedWithChildren(w) \/ ChildrenClash(w)
             \/ IEnqueue(w) \/ ICommit(w) \/ IRollback(w)
    <3>1. UNCHANGED points
      BY <2>4
         DEF IClaim, Extracted, TextIndexed, VectorsSkipped, ProcessFails, VectorFails, Finished,
             FinishedWithChildren, ChildrenClash, IEnqueue, ICommit, IRollback
    <3>2. /\ pc'[w] = "aborted" => stage'[w] = "finish"
          /\ pc'[w] = "aborted" \/ pc'[w] # "work" \/ stage'[w] # "upsert"
      <4>1. CASE IClaim(w) \/ Extracted(w) \/ TextIndexed(w) \/ VectorsSkipped(w)
        BY <1>4, <4>1
           DEF IClaim, Claim, Extracted, TextIndexed, VectorsSkipped, AtStage, Goto, vars, ITypeOK, TypeOK
      <4>2. CASE ProcessFails(w) \/ VectorFails(w) \/ Finished(w) \/ FinishedWithChildren(w)
        BY <4>2
           DEF ProcessFails, VectorFails, Finished, FinishedWithChildren, WorkFails, WorkSucceeds, ITypeOK,
               TypeOK
      <4>3. CASE ChildrenClash(w)
        BY <4>3 DEF ChildrenClash, MeetsAttachments
      <4>4. CASE IEnqueue(w)
        <5>1. EnqueueInsert(w) => pc' = [pc EXCEPT ![w] = "commit"]
          BY <1>1, InsertFindsNone, IsDeployed DEF QueueInv
        <5> QED BY <4>4, <5>1 DEF IEnqueue, EnqueueSelect, ITypeOK, TypeOK
      <4>5. CASE ICommit(w) \/ IRollback(w)
        BY <4>5, IsDeployed, OnlyShort DEF ICommit, Commit, IRollback, Rollback, ITypeOK, TypeOK
      <4> QED BY <2>4, <4>1, <4>2, <4>3, <4>4, <4>5
    <3>3. ~ AtStage(w, "upsert")'
      BY <3>2 DEF AtStage, Working
    <3> QED BY <1>4, <1>5, <2>2, <3>1, <3>2, <3>3
  <2>5. CASE PointsDeleted(w)
    <3>1. /\ AtStage(w, "delete") /\ points' = [points EXCEPT ![DocOf(w)] = {}]
          /\ UNCHANGED <<pc, held>> /\ stage' = [stage EXCEPT ![w] = "upsert"]
          /\ DocOf(w)' = DocOf(w) /\ pc[w] = "work"
      BY <1>4, <2>5 DEF PointsDeleted, Goto, vars, DocOf, AtStage, Working
    <3>2. DocOf(w) \in Docs
      BY <3>1, BusyRow DEF Busy
    <3>3. \A d \in Docs : points'[d] = IF d = DocOf(w) THEN {} ELSE points[d]
      BY <3>1 DEF ITypeOK
    <3>4. ASSUME NEW v \in Workers, v # w, AtStage(v, "upsert") PROVE points'[DocOf(v)] = {}
      <4>1. pc[v] = "work"
        BY <1>4, <3>4 DEF AtStage, Working
      <4> QED BY <1>4, <3>3, <3>4, <4>1, BusyRow DEF Busy
    <3> QED BY <1>4, <1>5, <2>2, <3>1, <3>2, <3>3, <3>4
  <2>6. CASE PointsUpserted(w)
    <3>1. /\ AtStage(w, "upsert") /\ points' = [points EXCEPT ![DocOf(w)] = @ \cup Written(w)]
          /\ UNCHANGED <<pc, held>> /\ stage' = [stage EXCEPT ![w] = "finish"]
          /\ pc[w] = "work" /\ ~ AtStage(w, "upsert")'
      BY <1>4, <2>6 DEF PointsUpserted, Goto, vars, AtStage, Working, ITypeOK
    <3>2. DocOf(w) \in Docs /\ points[DocOf(w)] = {}
      BY <1>4, <3>1, BusyRow DEF Busy
    <3>3. \A d \in Docs : points'[d] = IF d = DocOf(w) THEN Written(w) ELSE points[d]
      BY <3>1, <3>2 DEF ITypeOK
    <3>4. ASSUME NEW v \in Workers, v # w, AtStage(v, "upsert") PROVE points'[DocOf(v)] = {}
      <4>1. pc[v] = "work"
        BY <1>4, <3>4 DEF AtStage, Working
      <4>2. DocOf(v) # DocOf(w)
        BY <3>1, <3>4, <4>1, Sole DEF Busy
      <4> QED BY <1>4, <3>3, <3>4, <4>1, <4>2, BusyRow DEF Busy
    <3>5. ~ ("plain" \in Written(w) /\ "trans" \in Written(w))
      BY DEF Written
    <3> QED BY <1>4, <1>5, <2>2, <3>1, <3>2, <3>3, <3>4, <3>5
  <2> QED BY <2>1, <2>3, <2>4, <2>5, <2>6 DEF WStep, IWorkerStep
<1> QED BY <1>7, <1>8 DEF INext, WStep

-----------------------------------------------------------------------------
(* Types.                                                                  *)

LEMMA MergedType ==
  ASSUME NEW old \in [Docs -> DocStatus], NEW new \in [Docs -> DocStatus \cup {NoRow}]
  PROVE  Merged(old, new) \in [Docs -> DocStatus]
BY DEF Merged

LEMMA OverlayType ==
  ASSUME NEW f \in [Workers -> [Docs -> DocStatus \cup {NoRow}]], NEW w \in Workers, NEW d \in Docs,
         NEW s \in DocStatus
  PROVE  [f EXCEPT ![w][d] = s] \in [Workers -> [Docs -> DocStatus \cup {NoRow}]]
OBVIOUS

LEMMA ITypeStep ==
  ASSUME ITypeOK, QueueInv, QueueInv', [INext]_ivars
  PROVE  ITypeOK'
<1>1. TypeOK'
  BY DEF QueueInv, AInv, IInv
<1> SUFFICES /\ status' \in [Docs -> DocStatus]
             /\ swrites' \in [Workers -> [Docs -> DocStatus \cup {NoRow}]]
             /\ es' \subseteq Docs
             /\ points' \in [Docs -> SUBSET Families]
             /\ stage' \in [Workers -> Stages]
             /\ attached' \subseteq Docs
             /\ children' \in [Docs -> DocStatus]
             /\ created' \in [Workers -> [Docs -> DocStatus \cup {NoRow}]]
  BY <1>1 DEF ITypeOK
<1>2. CASE \E d \in Docs : ISync(d)
  BY <1>2 DEF ISync, ITypeOK, DocStatus, kids
<1>3. CASE (\E j \in JobIds : ITime(j)) \/ UNCHANGED ivars
  BY <1>3 DEF ITime, ivars, ITypeOK, kids
<1>4. CASE \E w \in Workers : WStep(w)
  <2>1. PICK w \in Workers : WStep(w)
    BY <1>4
  <2>2. held[w] # NoJob => DocOf(w) \in Docs
    BY DEF QueueInv, HeldRow, DocOf, ITypeOK, TypeOK, Job
  <2>3. NoStatus \in [Docs -> DocStatus \cup {NoRow}]
    BY DEF NoStatus
  <2>4. CASE IClaim(w) \/ Extracted(w) \/ VectorsSkipped(w) \/ VectorFails(w) \/ IRollback(w)
    BY <2>4
       DEF IClaim, Extracted, VectorsSkipped, VectorFails, IRollback, Goto, ITypeOK, Stages, kids
  <2>5. CASE TextIndexed(w) \/ PointsDeleted(w) \/ PointsUpserted(w)
    <3>1. DocOf(w) \in Docs /\ Written(w) \subseteq Families
      BY <2>2, <2>5 DEF TextIndexed, PointsDeleted, PointsUpserted, AtStage, Working, Written, Families
    <3> QED BY <2>5, <3>1
            DEF TextIndexed, PointsDeleted, PointsUpserted, Goto, ITypeOK, Stages, kids
  <2>6. CASE ProcessFails(w) \/ Finished(w) \/ FinishedWithChildren(w)
    <3>1. DocOf(w) \in Docs
      BY <2>2, <2>6, BusyRow DEF ProcessFails, Finished, FinishedWithChildren, WorkFails, WorkSucceeds, Busy
    <3>2. "failed" \in DocStatus /\ "indexed" \in DocStatus /\ "pending" \in DocStatus
      BY DEF DocStatus
    <3>3. swrites' \in [Workers -> [Docs -> DocStatus \cup {NoRow}]]
      <4>1. \/ UNCHANGED swrites
            \/ \E s \in {"failed", "indexed"} : swrites' = [swrites EXCEPT ![w][DocOf(w)] = s]
        BY <2>6 DEF ProcessFails, Finished, FinishedWithChildren, WriteStatus
      <4>2. swrites \in [Workers -> [Docs -> DocStatus \cup {NoRow}]]
        BY DEF ITypeOK
      <4>3. \A s \in DocStatus : [swrites EXCEPT ![w][DocOf(w)] = s] \in [Workers -> [Docs -> DocStatus \cup {NoRow}]]
        BY <3>1, <4>2, OverlayType
      <4> QED BY <3>2, <4>1, <4>2, <4>3
    <3>4. created' \in [Workers -> [Docs -> DocStatus \cup {NoRow}]]
      <4>1. \/ UNCHANGED created
            \/ \E s \in {"pending", "indexed"} : created' = [created EXCEPT ![w][DocOf(w)] = s]
        BY <2>6 DEF ProcessFails, Finished, FinishedWithChildren, kids
      <4>2. created \in [Workers -> [Docs -> DocStatus \cup {NoRow}]]
        BY DEF ITypeOK
      <4>3. \A s \in DocStatus : [created EXCEPT ![w][DocOf(w)] = s] \in [Workers -> [Docs -> DocStatus \cup {NoRow}]]
        BY <3>1, <4>2, OverlayType
      <4> QED BY <3>2, <4>1, <4>2, <4>3
    <3> QED BY <2>6, <3>3, <3>4 DEF ProcessFails, Finished, FinishedWithChildren, ITypeOK, kids
  <2>7. CASE ChildrenClash(w) \/ IEnqueue(w) \/ IFault(w)
    BY <2>3, <2>7 DEF ChildrenClash, IEnqueue, IFault, Forgotten, ITypeOK, kids
  <2>8. CASE ICommit(w)
    BY <2>3, <2>8, MergedType DEF ICommit, Forgotten, ITypeOK
  <2> QED BY <2>1, <2>4, <2>5, <2>6, <2>7, <2>8 DEF WStep, IWorkerStep
<1> QED BY <1>2, <1>3, <1>4 DEF INext, WStep

-----------------------------------------------------------------------------
(* The theorems.                                                           *)

LEMMA InitIndexing == Deployed /\ IInit => IndexingInv
<1> SUFFICES ASSUME Deployed, IInit PROVE IndexingInv
  OBVIOUS
<1>1. ITypeOK
  BY InitIInv DEF IInit, ITypeOK, IInv, DocStatus, Stages, NoStatus
<1>2. QueueInv
  <2>1. \A w \in Workers : HeldRow(w)
    BY DEF IInit, Init, HeldRow
  <2> QED BY <2>1, InitAInv
          DEF IInit, Init, QueueInv, JobsOfDocs, OneProcessJob, VectorAfterProcess, OneVectorJob, TwoTypes
<1>3. Globals
  BY DEF IInit, Init, Globals, IndexedIsSearchable, StatusExplained, ChildrenWithSuccess, ProcessedDoc
<1>4. \A w \in Workers : Locals(w)
  BY DEF IInit, Init, Locals, StatusLocal, TextLocal, CreatedLocal, NoStatus, Ending
<1>5. PointsInv
  BY DEF IInit, Init, PointsInv, PointsFromOneWriter, AtStage, Working
<1> QED BY <1>1, <1>2, <1>3, <1>4, <1>5 DEF IndexingInv, DocsInv, Globals, Locals

LEMMA IndexingInvariance == Deployed => (ISpec => []IndexingInv)
<1> SUFFICES ASSUME Deployed PROVE ISpec => []IndexingInv
  OBVIOUS
<1>1. IndexingInv /\ [INext]_ivars => IndexingInv'
  BY QueueInvStep, DocsInvStep, PointsInvStep, ITypeStep DEF IndexingInv
<1> QED BY <1>1, InitIndexing, PTL DEF ISpec

\* The types of the pipeline's tables, indexes and transactions (the rows of
\* documents and pipeline_jobs, the Elasticsearch entries, the Qdrant points).
THEOREM IndexingTypeCorrect == Deployed => (ISpec => []ITypeOK)
<1> SUFFICES ASSUME Deployed PROVE ISpec => []ITypeOK
  OBVIOUS
<1>1. IndexingInv => ITypeOK
  BY DEF IndexingInv
<1> QED BY <1>1, IndexingInvariance, PTL

\* A document the API reports as indexed has been given to the text search,
\* whatever crashes and aborted transactions came between process_document's
\* write to Elasticsearch and the commit of its status.
THEOREM IndexedIsSearchableHolds == Deployed => (ISpec => []IndexedIsSearchable)
<1> SUFFICES ASSUME Deployed PROVE ISpec => []IndexedIsSearchable
  OBVIOUS
<1>1. IndexingInv => IndexedIsSearchable
  BY DEF IndexingInv, DocsInv
<1> QED BY <1>1, IndexingInvariance, PTL

\* Nothing is lost silently between pipeline_jobs and documents: a document
\* given up is reported failed, and a pending one still has a queued job.
THEOREM StatusExplainedHolds == Deployed => (ISpec => []StatusExplained)
<1> SUFFICES ASSUME Deployed PROVE ISpec => []StatusExplained
  OBVIOUS
<1>1. IndexingInv => StatusExplained
  BY DEF IndexingInv, DocsInv
<1> QED BY <1>1, IndexingInvariance, PTL

\* The children process_document creates for attachments are committed with
\* the success of its job, and never without it.
THEOREM ChildrenWithSuccessHolds == Deployed => (ISpec => []ChildrenWithSuccess)
<1> SUFFICES ASSUME Deployed PROVE ISpec => []ChildrenWithSuccess
  OBVIOUS
<1>1. IndexingInv => ChildrenWithSuccess
  BY DEF IndexingInv, DocsInv
<1> QED BY <1>1, IndexingInvariance, PTL

\* Until the first fault, a document's points in Qdrant come from one writer:
\* process_document or the vector worker, never a mix of their chunks.
THEOREM PointsFromOneWriterHolds == Deployed => (ISpec => []PointsFromOneWriter)
<1> SUFFICES ASSUME Deployed PROVE ISpec => []PointsFromOneWriter
  OBVIOUS
<1>1. IndexingInv => PointsFromOneWriter
  BY DEF IndexingInv, PointsInv, PointsFromOneWriter
<1> QED BY <1>1, IndexingInvariance, PTL
=============================================================================
