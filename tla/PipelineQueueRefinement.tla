----------------------- MODULE PipelineQueueRefinement -----------------------
(***************************************************************************)
(* The deployed workers (docker-compose.yml runs the pipeline and vector   *)
(* workers only) implement JobLifecycle: the committed table, without the  *)
(* columns only the workers read, changes by whole attempts.               *)
(***************************************************************************)
EXTENDS PipelineQueue

Public(row) == IF row = NoRow THEN NoRow
               ELSE [doc |-> row.doc, type |-> row.type,
                     status |-> row.status, attempts |-> row.attempts]

ASSUME PublicAssumption ==
  NoRow \notin [doc : Docs, type : JobTypes, status : Statuses, attempts : Nat]

Committed == [j \in JobIds |-> Public(jobs[j])]

Lifecycle == INSTANCE JobLifecycle WITH table <- Committed

\* Crashes, racing claims and aborted transactions never show: the table other
\* processes read goes from attempt to attempt, success and follow-up together.
ImplementsLifecycle == Lifecycle!Spec
=============================================================================
