------------------------------ MODULE JobLanes ------------------------------
(***************************************************************************)
(* What GenerationJobs takes for granted of the in-memory queue: copies     *)
(* wait in two lanes, any free slot may take a copy of either lane, every   *)
(* copy is taken once, and no more slots are busy than there are.  Lanes    *)
(* are their lengths; a shutdown may throw the live lane away.              *)
(***************************************************************************)
EXTENDS Integers

CONSTANT Concurrency

VARIABLES live, backlog, busy

laneVars == <<live, backlog, busy>>

Init == live = 0 /\ backlog = 0 /\ busy = 0

Publish == live' = live + 1 /\ UNCHANGED <<backlog, busy>>

Reload == backlog' = backlog + 1 /\ UNCHANGED <<live, busy>>

(* One microtask may fill several slots; GenerationJobs lets them take      *)
(* their copies one after the other.                                        *)
Dequeue ==
  \E fromLive \in 0..live, fromBacklog \in 0..backlog :
    /\ busy + fromLive + fromBacklog <= Concurrency
    /\ live' = live - fromLive
    /\ backlog' = backlog - fromBacklog
    /\ busy' = busy + fromLive + fromBacklog

Release == busy > 0 /\ busy' = busy - 1 /\ UNCHANGED <<live, backlog>>

Discard == live' = 0 /\ UNCHANGED <<backlog, busy>>

Next == Publish \/ Reload \/ Dequeue \/ Release \/ Discard

Spec == Init /\ [][Next]_laneVars
=============================================================================
