----------------------------- MODULE JobLifecycle -----------------------------
(***************************************************************************)
(* What the job queue promises to whoever looks at the pipeline_jobs       *)
(* table: a job is attempted atomically.  One step takes a queued job to   *)
(* its next attempt's outcome - finished together with its follow-up,      *)
(* queued again, or dead-lettered - and nobody sees it half-way.           *)
(***************************************************************************)
EXTENDS Integers

CONSTANTS Docs, JobIds, SeedTypes, MaxAttempts, NoRow

VARIABLE table

New(d, t) == [doc |-> d, type |-> t, status |-> "pending", attempts |-> 0]

Queued(j) == table[j] # NoRow /\ table[j].status \in {"pending", "retry"}

Attempted(j, s) == [table[j] EXCEPT !.status = s, !.attempts = table[j].attempts + 1]

HasVectorJob(d) == \E k \in JobIds : /\ table[k] # NoRow
                                     /\ table[k].doc = d
                                     /\ table[k].type = "vector_index_document"

Init == table = [j \in JobIds |-> NoRow]

Submit(j) ==
  /\ table[j] = NoRow
  /\ \E d \in Docs, t \in SeedTypes :
       /\ ~ \E k \in JobIds : table[k] # NoRow /\ table[k].doc = d /\ table[k].type = t
       /\ table' = [table EXCEPT ![j] = New(d, t)]

Retry(j) ==
  /\ Queued(j)
  /\ table[j].attempts + 1 < MaxAttempts
  /\ table' = [table EXCEPT ![j] = Attempted(j, "retry")]

GiveUp(j) ==
  /\ Queued(j)
  /\ table[j].attempts + 1 = MaxAttempts
  /\ table' = [table EXCEPT ![j] = Attempted(j, "dead_letter")]

\* A job with nothing to follow it, or whose follow-up is already there.
Finish(j) ==
  /\ Queued(j)
  /\ table[j].type = "process_document" => HasVectorJob(table[j].doc)
  /\ table' = [table EXCEPT ![j] = Attempted(j, "succeeded")]

\* process_document finishes and its vector job appears in the same step.
FinishAndChain(j) ==
  /\ Queued(j)
  /\ table[j].type = "process_document"
  /\ \E k \in JobIds :
       /\ table[k] = NoRow
       /\ table' = [table EXCEPT ![j] = Attempted(j, "succeeded"),
                                 ![k] = New(table[j].doc, "vector_index_document")]

Next == \E j \in JobIds :
          Submit(j) \/ Retry(j) \/ GiveUp(j) \/ Finish(j) \/ FinishAndChain(j)

Spec == Init /\ [][Next]_table
=============================================================================
