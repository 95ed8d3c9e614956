-------------------------- MODULE InlineServerQueue --------------------------
(***************************************************************************)
(* The in-memory queue of the local runtime: two FIFO lanes, live capture   *)
(* before recovery, and one pool of Concurrency slots.  Every action is one *)
(* synchronous run of JavaScript; drain() is never called but scheduled as  *)
(* a microtask, so everything may happen between its scheduling and its     *)
(* run.  What a job is does not matter to the queue: a lane is its length.  *)
(***************************************************************************)
EXTENDS Integers

CONSTANTS
  Concurrency,   \* slots: resolveQueueConcurrency, at least 1
  MaxJobs        \* bound: jobs accepted over the life of the queue

ASSUME QueueAssumption ==
  Concurrency \in Nat \ {0} /\ MaxJobs \in Nat

VARIABLES
  waiting,          \* waiting.length: the live lane
  waitingRecovery,  \* waitingRecovery.length: the backlog lane
  active,           \* jobs of both lanes in a slot
  activeRecovery,   \* those of them from the backlog lane
  finished,         \* completed + failed
  started,          \* start() has installed a processor
  closed,
  drainScheduled,   \* a microtask will call drain()
  accepted,         \* history: jobs ever added
  dropped           \* history: jobs thrown away by close()

lanes == <<waiting, waitingRecovery>>
slots == <<active, activeRecovery>>
vars  == <<lanes, slots, finished, started, closed, drainScheduled, accepted, dropped>>

Least(a, b) == IF a < b THEN a ELSE b

recoveryBudget == IF Concurrency - 1 > 1 THEN Concurrency - 1 ELSE 1

liveActive == active - activeRecovery

-----------------------------------------------------------------------------
add ==
  /\ ~closed /\ accepted < MaxJobs
  /\ waiting' = waiting + 1
  /\ accepted' = accepted + 1
  /\ drainScheduled' = TRUE
  /\ UNCHANGED <<waitingRecovery, slots, finished, started, closed, dropped>>

addRecovery ==
  /\ ~closed /\ accepted < MaxJobs
  /\ waitingRecovery' = waitingRecovery + 1
  /\ accepted' = accepted + 1
  /\ drainScheduled' = TRUE
  /\ UNCHANGED <<waiting, slots, finished, started, closed, dropped>>

(* A closed queue may be started again, and will still drain nothing.       *)
start ==
  /\ ~started
  /\ started' = TRUE
  /\ drainScheduled' = TRUE
  /\ UNCHANGED <<lanes, slots, finished, closed, accepted, dropped>>

(* A variant the runs must reject: the slots in use are not counted.        *)
liveStartsUncounted == Least(waiting, Concurrency)

(* The two loops of drain(): live jobs take every free slot; backlog jobs   *)
(* start only with the live lane empty and no live job in a slot.           *)
liveStarts == Least(waiting, Concurrency - active)

(* Variants the runs must reject: recovery beside running live jobs, or     *)
(* recovery in every free slot.                                             *)
recoveryStartsBesideLive ==
  IF waiting > liveStarts THEN 0
  ELSE Least(waitingRecovery,
             Least(Concurrency - (active + liveStarts), recoveryBudget - activeRecovery))

recoveryStartsUnbudgeted ==
  IF waiting > liveStarts \/ liveActive + liveStarts > 0
  THEN 0 ELSE Least(waitingRecovery, Concurrency - active)

recoveryStarts ==
  IF waiting > liveStarts \/ liveActive + liveStarts > 0
  THEN 0
  ELSE Least(waitingRecovery,
             Least(Concurrency - active, recoveryBudget - activeRecovery))

(* A variant the runs must reject: the whole backlog lane is taken at once. *)
drainWholeBacklog ==
  /\ drainScheduled /\ started /\ ~closed
  /\ drainScheduled' = FALSE
  /\ waiting' = waiting - liveStarts
  /\ waitingRecovery' = IF recoveryStarts > 0 THEN 0 ELSE waitingRecovery
  /\ active' = active + liveStarts + recoveryStarts
  /\ activeRecovery' = activeRecovery + recoveryStarts
  /\ UNCHANGED <<finished, started, closed, accepted, dropped>>

drain ==
  /\ drainScheduled
  /\ drainScheduled' = FALSE
  /\ \/ /\ ~started \/ closed
        /\ UNCHANGED <<lanes, slots>>
     \/ /\ started /\ ~closed
        /\ waiting' = waiting - liveStarts
        /\ waitingRecovery' = waitingRecovery - recoveryStarts
        /\ active' = active + liveStarts + recoveryStarts
        /\ activeRecovery' = activeRecovery + recoveryStarts
  /\ UNCHANGED <<finished, started, closed, accepted, dropped>>

(* Variants the runs must reject: the old re-drain condition, and a finally *)
(* that does not remember the lane.                                         *)
settleLiveOnly(recovery) ==
  /\ IF recovery THEN activeRecovery > 0 ELSE liveActive > 0
  /\ active' = active - 1
  /\ activeRecovery' = IF recovery THEN activeRecovery - 1 ELSE activeRecovery
  /\ finished' = finished + 1
  /\ drainScheduled' = (drainScheduled \/ waiting > 0)
  /\ UNCHANGED <<lanes, started, closed, accepted, dropped>>

(* The processor's promise settles, one way or the other: run()'s finally.  *)
settle(recovery) ==
  /\ IF recovery THEN activeRecovery > 0 ELSE liveActive > 0
  /\ active' = active - 1
  /\ activeRecovery' = IF recovery THEN activeRecovery - 1 ELSE activeRecovery
  /\ finished' = finished + 1
  /\ drainScheduled' = (drainScheduled \/ waiting > 0 \/ waitingRecovery > 0)
  /\ UNCHANGED <<lanes, started, closed, accepted, dropped>>

(* The backlog lane keeps its jobs; nothing will ever take them.            *)
close ==
  /\ closed' = TRUE
  /\ waiting' = 0
  /\ dropped' = dropped + waiting
  /\ started' = FALSE
  /\ UNCHANGED <<waitingRecovery, slots, finished, drainScheduled, accepted>>

-----------------------------------------------------------------------------
Init ==
  /\ waiting = 0 /\ waitingRecovery = 0
  /\ active = 0 /\ activeRecovery = 0 /\ finished = 0
  /\ started = FALSE /\ closed = FALSE /\ drainScheduled = FALSE
  /\ accepted = 0 /\ dropped = 0

Next == \/ add \/ addRecovery \/ start \/ drain \/ close
        \/ \E recovery \in BOOLEAN : settle(recovery)

Spec == Init /\ [][Next]_vars

(* A microtask runs; a processor's promise settles; the service that makes  *)
(* a queue starts it.  Nothing obliges callers to add or to close.          *)
FairSpec == Spec /\ WF_vars(start) /\ WF_vars(drain)
                 /\ \A recovery \in BOOLEAN : WF_vars(settle(recovery))

-----------------------------------------------------------------------------
(* Properties.                                                              *)

(* Every variable stays in its type.                                        *)
TypeOK ==
  /\ waiting \in Nat /\ waitingRecovery \in Nat
  /\ active \in Nat /\ activeRecovery \in Nat /\ finished \in Nat
  /\ started \in BOOLEAN /\ closed \in BOOLEAN /\ drainScheduled \in BOOLEAN
  /\ accepted \in 0..MaxJobs /\ dropped \in Nat

(* The pool is never overfull, whatever was running when the live lane was  *)
(* served, and the backlog keeps to its budget ("unbounded concurrency OOMs *)
(* the machine", generation-drain.ts).                                      *)
SlotsBounded ==
  /\ activeRecovery <= active /\ active <= Concurrency
  /\ activeRecovery <= recoveryBudget

(* No lost wakeup: when no drain() is on its way, nothing that could run is *)
(* waiting.  "a finishing live job is exactly the moment recovery becomes   *)
(* eligible" (run).                                                         *)
NoLostWakeup ==
  started /\ ~closed /\ ~drainScheduled =>
    /\ waiting > 0 => active = Concurrency
    /\ waiting = 0 /\ liveActive = 0 /\ waitingRecovery > 0
         => activeRecovery = recoveryBudget

(* Every accepted job is waiting, running or finished, or was dropped by    *)
(* close(): none vanishes and none runs twice.                              *)
NoJobLost ==
  accepted = waiting + waitingRecovery + active + finished + dropped

(* The queue is no more than what GenerationJobs assumes: a copy leaves its *)
(* lane exactly when a slot takes it, several at a time if a drain() starts *)
(* several, and a slot is given back once per job.                          *)
Lanes == INSTANCE JobLanes WITH live <- waiting, backlog <- waitingRecovery, busy <- active

ImplementsLanes == Lanes!Spec

(* Strict priority: a backlog job starts only when no live job is waiting   *)
(* or running once the step is over.                                        *)
LiveFirst ==
  [][activeRecovery' > activeRecovery => waiting' = 0 /\ liveActive' = 0]_vars

(* "It still drains to completion whenever the system is idle, so yielding  *)
(* does not become starvation": both lanes clear once no more work comes.   *)
LanesClear ==
  /\ waiting > 0 ~> waiting = 0
  /\ waitingRecovery > 0 ~> waitingRecovery = 0 \/ closed
=============================================================================
