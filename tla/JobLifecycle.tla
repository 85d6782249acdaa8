---------------------------- MODULE JobLifecycle ----------------------------
(***************************************************************************)
(* What the queue promises of a job, with no workers, locks, transactions  *)
(* or faults: a pending job fails a bounded number of times or delivers    *)
(* its result, once, in one indivisible step.  JobQueue implements it.     *)
(***************************************************************************)
EXTENDS Naturals

CONSTANTS
  Jobs,
  MaxAttempts

VARIABLES
  state,     \* state[j]: the stage of j
  failures,  \* failures[j]: failed attempts since the last submission or retry
  results    \* results[j]: results of j that readers can see

lifecycle == <<state, failures, results>>

Stage == {"absent", "pending", "delivered", "failed", "cancelled"}

LifecycleTypeOK ==
  /\ state \in [Jobs -> Stage]
  /\ failures \in [Jobs -> 0..MaxAttempts]
  /\ results \in [Jobs -> Nat]

Init ==
  /\ state = [j \in Jobs |-> "absent"]
  /\ failures = [j \in Jobs |-> 0]
  /\ results = [j \in Jobs |-> 0]

Submit(j) ==
  /\ state[j] = "absent"
  /\ state' = [state EXCEPT ![j] = "pending"]
  /\ UNCHANGED <<failures, results>>

(* A failed attempt, with another to come. *)
Fail(j) ==
  /\ state[j] = "pending"
  /\ failures[j] + 1 < MaxAttempts
  /\ failures' = [failures EXCEPT ![j] = @ + 1]
  /\ UNCHANGED <<state, results>>

(* The last attempt fails. *)
GiveUp(j) ==
  /\ state[j] = "pending"
  /\ failures[j] + 1 = MaxAttempts
  /\ state' = [state EXCEPT ![j] = "failed"]
  /\ failures' = [failures EXCEPT ![j] = MaxAttempts]
  /\ UNCHANGED results

Deliver(j) ==
  /\ state[j] = "pending"
  /\ results[j] = 0
  /\ state' = [state EXCEPT ![j] = "delivered"]
  /\ results' = [results EXCEPT ![j] = 1]
  /\ UNCHANGED failures

Cancel(j) ==
  /\ state[j] = "pending"
  /\ state' = [state EXCEPT ![j] = "cancelled"]
  /\ UNCHANGED <<failures, results>>

Retry(j) ==
  /\ state[j] \in {"failed", "cancelled"}
  /\ state' = [state EXCEPT ![j] = "pending"]
  /\ failures' = [failures EXCEPT ![j] = 0]
  /\ UNCHANGED results

Next ==
  \E j \in Jobs :
    Submit(j) \/ Fail(j) \/ GiveUp(j) \/ Deliver(j) \/ Cancel(j) \/ Retry(j)

Spec == Init /\ [][Next]_lifecycle
=============================================================================
