----------------------- MODULE InlineServerQueueProofs -----------------------
(***************************************************************************)
(* The safety of InlineServerQueue for every pool size.                     *)
(***************************************************************************)
EXTENDS InlineServerQueue, TLAPS

(* How many jobs one drain() starts: never more than wait, than are free,   *)
(* or than the budget allows; and no backlog job beside a live one.         *)
LEMMA DrainStarts ==
  ASSUME TypeOK, SlotsBounded
  PROVE  /\ liveStarts \in 0..waiting /\ liveStarts <= Concurrency - active
         /\ recoveryStarts \in 0..waitingRecovery
         /\ active + liveStarts + recoveryStarts <= Concurrency
         /\ activeRecovery + recoveryStarts <= recoveryBudget
         /\ recoveryStarts > 0 => liveStarts = waiting /\ liveActive + liveStarts = 0
BY QueueAssumption DEF TypeOK, SlotsBounded, liveStarts, recoveryStarts, Least,
   liveActive, recoveryBudget

(* What drain() leaves waiting is what found no slot.                       *)
LEMMA DrainExhausts ==
  ASSUME TypeOK, SlotsBounded
  PROVE  /\ waiting > liveStarts => active + liveStarts + recoveryStarts = Concurrency
         /\ waiting = liveStarts /\ liveActive + liveStarts = 0
              /\ waitingRecovery > recoveryStarts
            => activeRecovery + recoveryStarts = recoveryBudget
BY QueueAssumption DEF TypeOK, SlotsBounded, liveStarts, recoveryStarts, Least,
   liveActive, recoveryBudget

-----------------------------------------------------------------------------
(* The invariant that is inductive: the four safety properties together.    *)
(* NoLostWakeup needs the slot counts, the counts need the types.           *)
IInv == TypeOK /\ SlotsBounded /\ NoLostWakeup /\ NoJobLost

(* The type invariant in its two halves: the flags are for Zenon, the       *)
(* counters for SMT.                                                        *)
Flags    == started \in BOOLEAN /\ closed \in BOOLEAN /\ drainScheduled \in BOOLEAN
Counters == /\ waiting \in Nat /\ waitingRecovery \in Nat
            /\ active \in Nat /\ activeRecovery \in Nat /\ finished \in Nat
            /\ accepted \in 0..MaxJobs /\ dropped \in Nat

LEMMA FlagsKept == ASSUME Flags, Next PROVE Flags'
BY Zenon DEF Flags, Next, add, addRecovery, start, drain, close, settle, lanes, slots

LEMMA InitIInv == Init => IInv
<1> SUFFICES ASSUME Init PROVE IInv
  OBVIOUS
<1>1. Flags
  BY Zenon DEF Init, Flags
<1>2. Counters /\ SlotsBounded /\ NoJobLost
  BY QueueAssumption DEF Init, Counters, SlotsBounded, NoJobLost, recoveryBudget
<1>3. NoLostWakeup
  BY DEF Init, NoLostWakeup
<1> QED BY <1>1, <1>2, <1>3, Zenon DEF IInv, TypeOK, Flags, Counters

LEMMA AddIInv == ASSUME IInv, add \/ addRecovery PROVE IInv'
<1>1. Counters' /\ SlotsBounded' /\ NoJobLost'
  BY QueueAssumption DEF IInv, TypeOK, Counters, SlotsBounded, NoJobLost,
     add, addRecovery, slots, recoveryBudget
<1>2. NoLostWakeup'
  BY DEF IInv, NoLostWakeup, add, addRecovery
<1> QED BY <1>1, <1>2, FlagsKept, Zenon DEF IInv, TypeOK, Flags, Counters, Next

LEMMA StartIInv == ASSUME IInv, start PROVE IInv'
<1>1. Counters' /\ SlotsBounded' /\ NoJobLost'
  BY DEF IInv, TypeOK, Counters, SlotsBounded, NoJobLost, start, lanes, slots, recoveryBudget
<1>2. NoLostWakeup'
  BY DEF NoLostWakeup, start
<1> QED BY <1>1, <1>2, FlagsKept, Zenon DEF IInv, TypeOK, Flags, Counters, Next

LEMMA CloseIInv == ASSUME IInv, close PROVE IInv'
<1>1. Counters' /\ SlotsBounded' /\ NoJobLost'
  BY DEF IInv, TypeOK, Counters, SlotsBounded, NoJobLost, close, slots, recoveryBudget
<1>2. NoLostWakeup'
  BY DEF NoLostWakeup, close
<1> QED BY <1>1, <1>2, FlagsKept, Zenon DEF IInv, TypeOK, Flags, Counters, Next

LEMMA SettleIInv ==
  ASSUME IInv, NEW recovery \in BOOLEAN, settle(recovery) PROVE IInv'
<1>1. Counters' /\ SlotsBounded' /\ NoJobLost'
  BY QueueAssumption DEF IInv, TypeOK, Counters, SlotsBounded, NoJobLost,
     settle, lanes, recoveryBudget, liveActive
<1>2. NoLostWakeup'
  BY DEF IInv, TypeOK, NoLostWakeup, settle, lanes
<1> QED BY <1>1, <1>2, FlagsKept, Zenon DEF IInv, TypeOK, Flags, Counters, Next

(* A drain with nothing to run leaves everything as it is.                  *)
LEMMA IdleDrainIInv ==
  ASSUME IInv, drain, UNCHANGED <<lanes, slots>>, ~started \/ closed PROVE IInv'
<1>1. Counters' /\ SlotsBounded' /\ NoJobLost'
  BY DEF IInv, TypeOK, Counters, SlotsBounded, NoJobLost, drain, lanes, slots, recoveryBudget
<1>2. NoLostWakeup'
  BY DEF NoLostWakeup, drain
<1> QED BY <1>1, <1>2, FlagsKept, Zenon DEF IInv, TypeOK, Flags, Counters, Next

LEMMA DrainIInv == ASSUME IInv, drain PROVE IInv'
<1>1. CASE UNCHANGED <<lanes, slots>> /\ (~started \/ closed)
  BY <1>1, IdleDrainIInv
<1>2. CASE /\ waiting' = waiting - liveStarts
           /\ waitingRecovery' = waitingRecovery - recoveryStarts
           /\ active' = active + liveStarts + recoveryStarts
           /\ activeRecovery' = activeRecovery + recoveryStarts
  <2> DEFINE k == liveStarts
             r == recoveryStarts
  <2>1. /\ k \in 0..waiting /\ r \in 0..waitingRecovery
        /\ active + k + r <= Concurrency
        /\ activeRecovery + r <= recoveryBudget
        /\ r > 0 => k = waiting /\ liveActive + k = 0
    BY DrainStarts DEF IInv
  <2>2. /\ waiting > k => active + k + r = Concurrency
        /\ waiting = k /\ liveActive + k = 0 /\ waitingRecovery > r
             => activeRecovery + r = recoveryBudget
    BY DrainExhausts DEF IInv
  <2>3. UNCHANGED <<finished, accepted, dropped>>
    BY DEF drain
  <2> HIDE DEF k, r
  <2>4. /\ waiting' = waiting - k /\ waitingRecovery' = waitingRecovery - r
        /\ active' = active + k + r /\ activeRecovery' = activeRecovery + r
    BY <1>2 DEF k, r
  <2>5. Counters' /\ NoJobLost'
    BY <2>1, <2>3, <2>4 DEF IInv, TypeOK, Counters, NoJobLost
  <2>6. SlotsBounded'
    BY <2>1, <2>4, QueueAssumption DEF IInv, TypeOK, SlotsBounded, recoveryBudget
  <2>7. NoLostWakeup'
    BY <2>1, <2>2, <2>4, QueueAssumption
       DEF IInv, TypeOK, SlotsBounded, NoLostWakeup, liveActive, recoveryBudget
  <2> QED BY <2>5, <2>6, <2>7, FlagsKept, Zenon DEF IInv, TypeOK, Flags, Counters, Next
<1> QED BY <1>1, <1>2 DEF drain

THEOREM InductiveInvariant == Spec => []IInv
<1>1. Init => IInv
  BY InitIInv
<1>2. IInv /\ [Next]_vars => IInv'
  <2> SUFFICES ASSUME IInv, [Next]_vars PROVE IInv'
    OBVIOUS
  <2>1. CASE UNCHANGED vars
    BY <2>1 DEF IInv, TypeOK, SlotsBounded, NoLostWakeup, NoJobLost, vars, lanes, slots,
       recoveryBudget, liveActive
  <2>2. CASE Next
    BY <2>2, AddIInv, StartIInv, DrainIInv, CloseIInv, SettleIInv DEF Next
  <2> QED BY <2>1, <2>2
<1> QED BY <1>1, <1>2, PTL DEF Spec

(* Every variable of the queue stays in its type.                           *)
THEOREM TypeCorrect == Spec => []TypeOK
BY InductiveInvariant, PTL DEF IInv

(* For every Concurrency the pool is never overfull and the backlog keeps   *)
(* to its budget (run, drain, recoveryBudget).                              *)
THEOREM PoolBounded == Spec => []SlotsBounded
BY InductiveInvariant, PTL DEF IInv

(* For every Concurrency no runnable job waits without a drain() scheduled: *)
(* add, start and run's finally schedule every microtask that is needed.    *)
THEOREM WakeupsKept == Spec => []NoLostWakeup
BY InductiveInvariant, PTL DEF IInv

(* No accepted job vanishes and none runs twice, in any order of adds,      *)
(* starts, drains, settlements and closes.                                  *)
THEOREM JobsConserved == Spec => []NoJobLost
BY InductiveInvariant, PTL DEF IInv

(* For every Concurrency a backlog job starts only when no live job waits   *)
(* or runs (drain).                                                         *)
THEOREM StrictPriority == Spec => LiveFirst
<1>1. IInv /\ [Next]_vars
        => [activeRecovery' > activeRecovery => waiting' = 0 /\ liveActive' = 0]_vars
  <2> SUFFICES ASSUME IInv, Next, activeRecovery' > activeRecovery
               PROVE  waiting' = 0 /\ liveActive' = 0
    OBVIOUS
  <2>1. activeRecovery \in Nat
    BY DEF IInv, TypeOK
  <2>2. drain
    BY <2>1 DEF Next, add, addRecovery, start, close, settle, lanes, slots
  <2>3. /\ waiting' = waiting - liveStarts
        /\ active' = active + liveStarts + recoveryStarts
        /\ activeRecovery' = activeRecovery + recoveryStarts
    BY <2>1, <2>2 DEF drain, slots
  <2>4. /\ recoveryStarts \in Nat /\ liveStarts \in Nat
        /\ recoveryStarts > 0 => liveStarts = waiting /\ liveActive + liveStarts = 0
    BY DrainStarts DEF IInv, TypeOK
  <2> QED BY <2>1, <2>3, <2>4 DEF IInv, TypeOK, liveActive
<1> QED BY <1>1, InductiveInvariant, PTL DEF Spec, LiveFirst

-----------------------------------------------------------------------------
(* The queue and the lanes of GenerationJobs.                               *)

LEMMA LanesStep == ASSUME IInv, Next PROVE [Lanes!Next]_(Lanes!laneVars)
<1> USE DEF lanes, slots, Lanes!laneVars
<1>0. /\ waiting \in Nat /\ waitingRecovery \in Nat /\ active \in Nat /\ activeRecovery \in Nat
      /\ activeRecovery <= active
  BY DEF IInv, TypeOK, SlotsBounded
<1>1. CASE add
  BY <1>1 DEF add, Lanes!Next, Lanes!Publish
<1>2. CASE addRecovery
  BY <1>2 DEF addRecovery, Lanes!Next, Lanes!Reload
<1>3. CASE start
  BY <1>3 DEF start
<1>4. CASE drain
  <2>1. CASE UNCHANGED <<lanes, slots>>
    BY <2>1
  <2>2. CASE /\ waiting' = waiting - liveStarts
             /\ waitingRecovery' = waitingRecovery - recoveryStarts
             /\ active' = active + liveStarts + recoveryStarts
    <3>1. /\ liveStarts \in 0..waiting /\ recoveryStarts \in 0..waitingRecovery
          /\ active + liveStarts + recoveryStarts <= Concurrency
      BY DrainStarts DEF IInv
    <3> HIDE DEF lanes, slots
    <3>2. Lanes!Dequeue
      BY <2>2, <3>1 DEF Lanes!Dequeue
    <3> QED BY <3>2 DEF Lanes!Next
  <2> QED BY <1>4, <2>1, <2>2 DEF drain
<1>5. CASE close
  BY <1>5 DEF close, Lanes!Next, Lanes!Discard
<1>6. ASSUME NEW recovery \in BOOLEAN, settle(recovery) PROVE Lanes!Next
  <2>1. active > 0
    BY <1>0, <1>6 DEF settle, liveActive
  <2> QED BY <1>6, <2>1 DEF settle, Lanes!Next, Lanes!Release
<1> QED BY <1>1, <1>2, <1>3, <1>4, <1>5, <1>6 DEF Next

(* The in-memory queue implements the lanes that GenerationJobs takes its   *)
(* copies from: every drain() moves jobs from the lanes to free slots and   *)
(* loses or doubles none, every settled promise frees one slot.             *)
THEOREM LanesImplemented == Spec => ImplementsLanes
<1>1. Init => Lanes!Init
  BY DEF Init, Lanes!Init
<1>2. IInv /\ [Next]_vars => [Lanes!Next]_(Lanes!laneVars)
  <2>1. UNCHANGED vars => UNCHANGED Lanes!laneVars
    BY DEF vars, lanes, slots, Lanes!laneVars
  <2> QED BY <2>1, LanesStep
<1> QED BY <1>1, <1>2, InductiveInvariant, PTL DEF Spec, ImplementsLanes, Lanes!Spec
=============================================================================
