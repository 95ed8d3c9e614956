---------------------------- MODULE JobLifecycle ----------------------------
(***************************************************************************)
(* What the outbox promises of a generation job, with no queue, worker,     *)
(* process or clock: an accepted job is open until it is done, failed or    *)
(* cancelled; its result is written by the very step that makes it done;    *)
(* failed jobs may be reopened, by a boot that finds them failed for a      *)
(* temporary reason; anything else is an operator's doing, who may retry or *)
(* cancel any job there is, and every retry is counted.                     *)
(***************************************************************************)
EXTENDS Integers

CONSTANT Jobs

VARIABLES state, results, retried

lifecycleVars == <<state, results, retried>>

Init == /\ state = [j \in Jobs |-> "absent"]
        /\ results = [j \in Jobs |-> 0]
        /\ retried = [j \in Jobs |-> 0]

Accept(j) ==
  /\ state[j] = "absent"
  /\ state' = [state EXCEPT ![j] = "open"]
  /\ UNCHANGED <<results, retried>>

Complete(j) ==
  /\ state[j] = "open"
  /\ state' = [state EXCEPT ![j] = "done"]
  /\ results' = [results EXCEPT ![j] = @ + 1]
  /\ UNCHANGED retried

Fail(j) ==
  /\ state[j] = "open"
  /\ state' = [state EXCEPT ![j] = "failed"]
  /\ UNCHANGED <<results, retried>>

Reopen(S) ==
  /\ \A j \in S : state[j] = "failed"
  /\ state' = [j \in Jobs |-> IF j \in S THEN "open" ELSE state[j]]
  /\ UNCHANGED <<results, retried>>

Retry(j) ==
  /\ state[j] # "absent"
  /\ state' = [state EXCEPT ![j] = "open"]
  /\ retried' = [retried EXCEPT ![j] = @ + 1]
  /\ UNCHANGED results

Cancel(j) ==
  /\ state[j] # "absent"
  /\ state' = [state EXCEPT ![j] = "cancelled"]
  /\ UNCHANGED <<results, retried>>

Next == \/ \E j \in Jobs : \/ Accept(j) \/ Complete(j) \/ Fail(j)
                           \/ Retry(j) \/ Cancel(j)
        \/ \E S \in SUBSET Jobs : Reopen(S)

Spec == Init /\ [][Next]_lifecycleVars
=============================================================================
