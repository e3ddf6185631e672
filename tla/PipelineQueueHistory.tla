------------------------ MODULE PipelineQueueHistory ------------------------
(***************************************************************************)
(* PipelineQueue with a history variable: how often each job was handed to *)
(* a worker, including the claims whose transaction never committed and    *)
(* whose attempt the attempts column therefore does not know.              *)
(***************************************************************************)
EXTENDS PipelineQueue

VARIABLE claims   \* per job, the number of times claim_next returned it

hvars == <<vars, claims>>

HInit == Init /\ claims = [j \in JobIds |-> 0]

JustClaimed(j) == \E w \in Workers : held[w] # j /\ held'[w] = j

HNext ==
  /\ Next
  /\ claims' = [j \in JobIds |-> IF JustClaimed(j) THEN claims[j] + 1 ELSE claims[j]]

HSpec == HInit /\ [][HNext]_hvars

\* Every claim beyond the counted attempts is paid for by a crash or a database
\* error: work is repeated only after a fault, never by a race of two claims.
\* There is no bound without the faults: an attempt whose worker dies is rolled
\* back with the claim, whatever max_attempts says.
ClaimsPaidFor ==
  \A j \in JobIds :
    claims[j] <= faults + (IF jobs[j] = NoRow THEN 0 ELSE jobs[j].attempts)
                 + Cardinality({w \in Workers : held[w] = j /\ pc[w] # "aborted"})
=============================================================================
