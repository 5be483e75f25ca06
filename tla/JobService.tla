----------------------------- MODULE JobService ------------------------------
(***************************************************************************)
(* What a deflate pool promises whoever hands it jobs, without slots,      *)
(* queue, timers or messages: a job that is submitted settles once, by a   *)
(* worker or on the main thread, and closing settles every job there is.   *)
(* DeflatePool is shown to implement this; ParallelPlan is built on it.    *)
(***************************************************************************)
CONSTANTS
  Jobs,
  Poisoned  \* jobs whose compression on the main thread throws

VARIABLES
  outcome,  \* what became of each job
  closed

vars == <<outcome, closed>>

OnMainThread(j) == IF j \in Poisoned THEN "rejected" ELSE "main"
Settled == {"worker", "main", "rejected"}
Pending == {j \in Jobs : outcome[j] = "pending"}

Init ==
  /\ outcome = [j \in Jobs |-> "new"]
  /\ closed = FALSE

(* The jobs S are handed over.  Some may settle at once, on the main       *)
(* thread; behind a closed pool all of them do.                            *)
Submit(S) ==
  /\ \A j \in S : outcome[j] = "new"
  /\ \E now \in SUBSET S :
       /\ closed => now = S
       /\ outcome' = [j \in Jobs |-> IF j \in now THEN OnMainThread(j)
                                     ELSE IF j \in S THEN "pending" ELSE outcome[j]]
  /\ UNCHANGED closed

(* Some jobs settle together: an answer comes, or a worker is given up.    *)
Settle ==
  /\ \E S \in (SUBSET Pending) \ {{}}, answered \in SUBSET Pending :
       /\ answered \subseteq S
       /\ outcome' = [j \in Jobs |-> IF j \in answered THEN "worker"
                                     ELSE IF j \in S THEN OnMainThread(j) ELSE outcome[j]]
  /\ UNCHANGED closed

Close ==
  /\ ~closed
  /\ closed' = TRUE
  /\ outcome' = [j \in Jobs |-> IF j \in Pending THEN OnMainThread(j) ELSE outcome[j]]

Next == (\E j \in Jobs : Submit({j})) \/ Settle \/ Close

Spec == Init /\ [][Next]_vars
=============================================================================
