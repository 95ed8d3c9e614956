------------------------- MODULE JobStrandingProofs -------------------------
(***************************************************************************)
(* Nobody's row, nobody's lock: the two stranding rules of GenerationJobs   *)
(* for every set of jobs and slots, from the effect of each statement on    *)
(* one row.                                                                 *)
(***************************************************************************)
EXTENDS GenerationJobsProofs

(* A row that somebody took has burnt an attempt, so the retry sweep, which *)
(* skips rows without one, sees it once it is requeued.                     *)
TakenPaid == \A j \in Jobs : row[j].status = "processing" => row[j].attempts > 0

(* What a requeue by markGenerationFailed leaves for the retry sweep.       *)
LEMMA FailureKeepsTime ==
  ASSUME NEW r \in Row, NEW class \in Classes,
         r.status = "processing" => r.attempts > 0
  PROVE  LET q == MarkedFailed(r, class)
         IN  /\ q = r \/ q.status = "failed"
                \/ (q.status = "queued" /\ q.attempts > 0 /\ q.nextAttempt = "later")
             /\ r.status = "processing" => q.status # "processing"
             /\ q.status = "processing" => q = r
<1> DEFINE target == FailureTarget(r, class)
           q == MarkedFailed(r, class)
<1>1. CASE ~(r.status \notin Terminal /\ CanTransition(r, target))
  <2>1. q = r
    BY <1>1 DEF MarkedFailed
  <2>2. r.status # "processing"
    BY <1>1 DEF Terminal, CanTransition, AllowedTransitions, Statuses, FailureTarget
  <2> QED BY <2>1, <2>2
<1>2. CASE r.status \notin Terminal /\ CanTransition(r, target)
  <2>1. q = Transition(r, target, class, "later")
    BY <1>2 DEF MarkedFailed
  <2>2. target \in {"queued", "failed"}
    BY DEF FailureTarget
  <2>3. target = "queued" => r.status = "processing"
    BY <1>2 DEF CanTransition, AllowedTransitions, Row
  <2>4. q.status = target /\ (target = "queued" => q.nextAttempt = "later" /\ q.attempts = r.attempts)
    BY <2>1, <2>2 DEF Transition, Row
  <2> QED BY <2>2, <2>3, <2>4
<1> QED BY <1>1, <1>2

(* A row is taken with an attempt, and only from the queue.                 *)
LEMMA TakingPays ==
  ASSUME NEW r \in Row, CanTransition(r, "processing")
  PROVE  LET q == Transition(r, "processing", "none", "none")
         IN  q.status = "processing" /\ q.attempts > 0
<1>1. r.attempts \in Nat
  BY MaxAttemptsAssumption DEF Row
<1> QED BY <1>1 DEF Transition, Row

LEMMA PaidStep ==
  ASSUME TypeOK, TakenPaid, [Next]_vars PROVE TakenPaid'
<1> SUFFICES ASSUME NEW j \in Jobs, row'[j].status = "processing"
             PROVE  row'[j].attempts > 0
  BY DEF TakenPaid
<1>1. /\ row[j] \in Row /\ (row[j].status = "processing" => row[j].attempts > 0)
  BY DEF TypeOK, TakenPaid
<1>2. RowStep(j) \/ OperatorRowStep(j)
  BY RowSteps
<1>5. CASE OperatorRowStep(j)
  BY <1>1, <1>5, OperatorEffect DEF OperatorRowStep, RetryStep, CancelStep
<1>3. CASE CompletingStep(j)
  BY <1>1, <1>3 DEF CompletingStep, Transition, Row
<1>4. CASE RowStatement(j)
  <2>1. CASE row'[j] = row[j]
    BY <1>1, <2>1
  <2>2. CASE row'[j] = NewRow
    BY <2>2 DEF NewRow, NoRow
  <2>3. CASE row'[j] \in {Merged(row[j]), Claimed(row[j]),
                          [row[j] EXCEPT !.nextAttempt = "due"], [row[j] EXCEPT !.stale = TRUE]}
    BY <1>1, <2>3, QuietEffect
  <2>4. CASE /\ CanTransition(row[j], "processing")
             /\ row'[j] = Transition(row[j], "processing", "none", "none")
    BY <1>1, <2>4, TakingPays
  <2>5. CASE FailingStatement(j)
    BY <1>1, <2>5, FailureKeepsTime DEF FailingStatement
  <2>6. CASE row'[j] \in {Unlocked(row[j]), Revived(row[j])}
    BY <1>1, <2>6, ReclaimEffect
  <2> QED BY <1>4, <2>1, <2>2, <2>3, <2>4, <2>5, <2>6 DEF RowStatement
<1> QED BY <1>2, <1>3, <1>4, <1>5 DEF RowStep

-----------------------------------------------------------------------------
(* Stranding.  What keeps a row in somebody's hands across a step.          *)

Waiting(i) ==
  \/ i \in unpublished \/ live[i] > 0 \/ backlog[i] > 0
  \/ \E s \in Slots : slot[s].job = i /\ slot[s].pc \in {"check", "lock"}
  \/ \E o \in Operators : /\ request[o].job = i /\ request[o].pc = "publish"
                          /\ request[o].replayable
TimeSet(i) == row[i].attempts > 0 /\ row[i].nextAttempt # "none"

LEMMA HandsAre ==
  ASSUME NEW i PROVE InHands(i) <=> Waiting(i) \/ phase # "sweep" \/ TimeSet(i)
BY DEF InHands, Waiting, TimeSet

(* The usual case: the row keeps what the sweeps read, who waited waits.    *)
LEMMA HandsKept ==
  ASSUME NEW i \in Jobs, NoStrandedRow, i \notin forsaken, phase = "sweep",
         Drainable(row[i]), row[i].replayable, TimeSet(i) => TimeSet(i)', Waiting(i) => Waiting(i)'
  PROVE  InHands(i)'
<1>1. InHands(i)
  BY DEF NoStrandedRow
<1>2. Waiting(i) \/ TimeSet(i)
  BY <1>1, HandsAre
<1> QED BY <1>2 DEF InHands, Waiting, TimeSet

(* A slot moves on: all that may happen to waiting copies is that this slot *)
(* had one.                                                                 *)
LEMMA OtherWaits ==
  ASSUME NEW i \in Jobs, NEW s \in Slots, NEW new,
         slot' = [slot EXCEPT ![s] = new], UNCHANGED <<unpublished, live, backlog, request>>,
         slot[s].job # i \/ slot[s].pc \notin {"check", "lock"}
           \/ (new.job = i /\ new.pc \in {"check", "lock"}),
         TypeOK
  PROVE  Waiting(i) => Waiting(i)'
BY DEF Waiting, TypeOK

(* Every step of a slot gives it a new record.                              *)
LEMMA SlotPointwise ==
  ASSUME SlotRecords, NEW s \in Slots,
         Generate(s) \/ Reformat(s) \/ Answer(s) \/ ProviderError(s)
  PROVE  \E new : slot' = [slot EXCEPT ![s] = new]
<1>1. CASE Generate(s) \/ ProviderError(s)
  BY <1>1 DEF Generate, ProviderError, Goto, Release, Blame
<1>2. CASE Reformat(s) \/ Answer(s)
  <2>1. slot' = [slot EXCEPT ![s] = slot'[s]]
    BY <1>2 DEF SlotRecords, Reformat, Answer
  <2> QED BY <2>1
<1> QED BY <1>1, <1>2

(* The steps of a worker slot.                                              *)
LEMMA SlotStepHands ==
  ASSUME TypeOK, TakenPaid, NoStrandedRow, NEW s \in Slots, SlotStep(s),
         phase = "sweep", NEW i \in Jobs \ forsaken, Drainable(row'[i]), row'[i].replayable
  PROVE  InHands(i)'
<1> DEFINE j == slot[s].job
<1> USE DEF memory, database, counters, SlotRecords
<1>0. /\ row \in [Jobs -> Row] /\ slot[s].error \in Classes
      /\ SlotRecords
      /\ slot[s].pc # "idle" => j \in Jobs
      /\ \A k \in Jobs : row[k].status = "processing" => row[k].attempts > 0
  BY DEF TypeOK, TakenPaid
<1>1. ASSUME row'[i] = row[i], NEW new, slot' = [slot EXCEPT ![s] = new],
             UNCHANGED <<unpublished, live, backlog, request>>,
             j # i \/ slot[s].pc \notin {"check", "lock"}
               \/ (new.job = i /\ new.pc \in {"check", "lock"})
      PROVE  InHands(i)'
  BY <1>1, OtherWaits, HandsKept DEF TimeSet
<1>2. ASSUME NEW class \in Classes, row'[i] = MarkedFailed(row[i], class), row'[i] # row[i]
      PROVE  InHands(i)'
  <2>1. row'[i].status = "failed" \/ (row'[i].attempts > 0 /\ row'[i].nextAttempt = "later")
    BY <1>0, <1>2, FailureKeepsTime
  <2> QED BY <2>1 DEF Drainable, InHands
<1>3. CASE RefuseRevoked(s)
  <2>1. j \in Jobs /\ row' = [row EXCEPT ![j] = MarkedFailed(row[j], "other")]
    BY <1>0, <1>3 DEF RefuseRevoked, At
  <2>2. CASE i = j
    <3>1. row'[i].status # "queued"
      BY <1>0, <2>1, <2>2
         DEF MarkedFailed, FailureTarget, Retryable, CanTransition, AllowedTransitions,
             Transition, Row, Statuses, Terminal
    <3> QED BY <3>1 DEF Drainable
  <2>3. CASE i # j
    BY <1>0, <1>1, <1>3, <2>1, <2>3 DEF RefuseRevoked, Release
  <2> QED BY <2>2, <2>3
<1>4. CASE Check(s)
  <2>1. row' = row /\ UNCHANGED <<unpublished, live, backlog, request>>
    BY <1>4 DEF Check
  <2>2. CASE i = j
    <3>1. slot' = [slot EXCEPT ![s] = [slot[s] EXCEPT !.pc = "lock"]]
      BY <1>0, <1>4, <2>1, <2>2 DEF Check, Goto, Drainable
    <3>2. [slot[s] EXCEPT !.pc = "lock"].job = i /\ [slot[s] EXCEPT !.pc = "lock"].pc = "lock"
      BY <1>0, <2>2
    <3> QED BY <1>1, <2>1, <3>1, <3>2
  <2>3. CASE i # j
    <3>1. \E new : slot' = [slot EXCEPT ![s] = new]
      BY <1>0, <1>4 DEF Check, Goto, Release
    <3> QED BY <1>1, <2>1, <2>3, <3>1
  <2> QED BY <2>2, <2>3
<1>5. CASE Lock(s)
  <2>1. UNCHANGED <<unpublished, live, backlog, request>> /\ j \in Jobs
    BY <1>0, <1>5 DEF Lock, At
  <2>2. CASE i = j
    <3>1. CASE CanTransition(row[j], "processing")
      BY <1>0, <1>5, <2>1, <2>2, <3>1, TakingPays DEF Lock, Drainable
    <3>2. CASE ~CanTransition(row[j], "processing")
      <4>1. row' = row
        BY <1>5, <3>2 DEF Lock
      <4> QED BY <2>2, <3>2, <4>1
              DEF Drainable, CanTransition, AllowedTransitions, Statuses
    <3> QED BY <3>1, <3>2
  <2>3. CASE i # j
    <3>1. row'[i] = row[i]
      BY <1>0, <1>5, <2>3 DEF Lock
    <3>2. \E new : slot' = [slot EXCEPT ![s] = new]
      BY <1>0, <1>5 DEF Lock, Goto, Release
    <3> QED BY <1>1, <2>1, <2>3, <3>1, <3>2
  <2> QED BY <2>2, <2>3
<1>6. CASE Generate(s) \/ Reformat(s) \/ Answer(s) \/ ProviderError(s)
  <2>1. \E new : slot' = [slot EXCEPT ![s] = new]
    BY <1>0, <1>6, SlotPointwise
  <2>2. /\ row' = row /\ UNCHANGED <<unpublished, live, backlog, request>>
        /\ slot[s].pc \notin {"check", "lock"}
    BY <1>6 DEF Generate, Reformat, Answer, ProviderError, At
  <2> QED BY <1>1, <2>1, <2>2
<1>7. CASE Persist(s)
  <2>1. \E new : slot' = [slot EXCEPT ![s] = new]
    BY <1>0, <1>7 DEF Persist, Release, Blame
  <2>2. /\ UNCHANGED <<unpublished, live, backlog, request>> /\ j \in Jobs
        /\ slot[s].pc \notin {"check", "lock"}
    BY <1>0, <1>7 DEF Persist, At
  <2>3. row'[i] = row[i]
    <3>1. CASE row' = row
      BY <3>1
    <3>2. CASE row' = [row EXCEPT ![j] = Transition(row[j], "completed", "none", "none")]
      <4>1. i # j
        BY <1>0, <2>2, <3>2 DEF Drainable, Transition, Row
      <4> QED BY <1>0, <3>2, <4>1
    <3> QED BY <1>0, <1>7, <3>1, <3>2 DEF Persist
  <2> QED BY <1>1, <2>1, <2>2, <2>3
<1>8. ASSUME Unparseable(s) \/ MarkFailed(s) PROVE InHands(i)'
  <2>1. \E new : slot' = [slot EXCEPT ![s] = new]
    BY <1>0, <1>8 DEF Unparseable, MarkFailed, Release, Blame
  <2>2. /\ UNCHANGED <<unpublished, live, backlog, request>> /\ j \in Jobs
        /\ slot[s].pc \notin {"check", "lock"}
        /\ \E class \in Classes : row' = [row EXCEPT ![j] = MarkedFailed(row[j], class)]
    BY <1>0, <1>8 DEF Unparseable, MarkFailed, At, Classes
  <2>3. CASE row'[i] = row[i]
    BY <1>1, <2>1, <2>2, <2>3
  <2>4. CASE row'[i] # row[i]
    BY <1>0, <1>2, <2>2, <2>4
  <2> QED BY <2>3, <2>4
<1> QED BY <1>3, <1>4, <1>5, <1>6, <1>7, <1>8 DEF SlotStep

(* Ingest, the lanes and the passing of time.                               *)
LEMMA ClientStepHands ==
  ASSUME TypeOK, NoStrandedRow, phase = "sweep", NEW j \in Jobs,
         \/ Ingest(j) \/ Redeliver(j) \/ Publish(j) \/ RevokeKey(j)
         \/ BackoffElapses(j) \/ GrowsStale(j) \/ \E s \in Slots : Dequeue(s, j),
         NEW i \in Jobs \ forsaken, Drainable(row'[i]), row'[i].replayable
  PROVE  InHands(i)'
<1> USE DEF memory, database, counters, SlotRecords
<1>0. /\ row \in [Jobs -> Row] /\ live \in [Jobs -> Nat] /\ backlog \in [Jobs -> Nat]
      /\ unpublished \subseteq Jobs
      /\ SlotRecords
  BY DEF TypeOK
<1>1. CASE Ingest(j)
  <2>1. CASE i = j
    BY <1>1, <2>1 DEF Ingest, InHands
  <2>2. CASE i # j
    BY <1>0, <1>1, <2>2, HandsKept DEF Ingest, Waiting, TimeSet
  <2> QED BY <2>1, <2>2
<1>2. CASE Redeliver(j)
  <2>1. /\ row'[i].status = row[i].status /\ row'[i].attempts = row[i].attempts
        /\ row'[i].nextAttempt = row[i].nextAttempt /\ row[i].replayable
    BY <1>0, <1>2 DEF Redeliver, Merged, Row
  <2>2. Waiting(i) => Waiting(i)'
    BY <1>2 DEF Redeliver, Waiting
  <2> QED BY <2>1, <2>2, HandsKept DEF TimeSet, Drainable, HasAttemptsLeft
<1>3. CASE Publish(j)
  <2>1. Waiting(i) => Waiting(i)'
    BY <1>0, <1>3 DEF Publish, Waiting, AddCopies
  <2> QED BY <1>3, <2>1, HandsKept DEF Publish, TimeSet
<1>4. CASE RevokeKey(j)
  BY <1>4, HandsKept DEF RevokeKey, Waiting, TimeSet
<1>5. CASE BackoffElapses(j) \/ GrowsStale(j)
  <2>1. /\ row'[i].status = row[i].status /\ row'[i].attempts = row[i].attempts
        /\ row[i].nextAttempt # "none" => row'[i].nextAttempt # "none"
        /\ row[i].replayable
    <3>1. row'[i] \in {row[i], [row[i] EXCEPT !.nextAttempt = "due"], [row[i] EXCEPT !.stale = TRUE]}
      BY <1>0, <1>5 DEF BackoffElapses, GrowsStale
    <3> QED BY <1>0, <3>1 DEF Row
  <2>2. Waiting(i) => Waiting(i)'
    BY <1>5 DEF BackoffElapses, GrowsStale, Waiting
  <2> QED BY <2>1, <2>2, HandsKept DEF TimeSet, Drainable, HasAttemptsLeft
<1>6. ASSUME NEW s \in Slots, Dequeue(s, j) PROVE InHands(i)'
  <2>1. CASE i = j
    BY <1>0, <1>6, <2>1 DEF Dequeue, InHands
  <2>2. CASE i # j
    <3>1. Waiting(i) => Waiting(i)'
      BY <1>0, <1>6, <2>2 DEF Dequeue, Waiting, At
    <3> QED BY <1>6, <3>1, HandsKept DEF Dequeue, TimeSet
  <2> QED BY <2>1, <2>2
<1> QED BY <1>1, <1>2, <1>3, <1>4, <1>5, <1>6

(* Operators, over HTTP: who resets a row publishes it.                     *)
LEMMA OperatorStepHands ==
  ASSUME TypeOK, CliOperators = {}, NoStrandedRow, phase = "sweep",
         NEW o \in Operators, OperatorStep(o),
         NEW i \in Jobs \ forsaken, Drainable(row'[i]), row'[i].replayable
  PROVE  InHands(i)'
<1> DEFINE j == request[o].job
<1> USE DEF memory, database, counters
<1>0. /\ row \in [Jobs -> Row] /\ live \in [Jobs -> Nat]
      /\ request \in [Operators -> [pc: {"idle", "retry", "cancel", "publish"},
                                    job: Jobs \union {NoJob}, replayable: BOOLEAN]]
      /\ request[o].pc # "idle" => j \in Jobs
  BY DEF TypeOK
<1>1. ASSUME row'[i] = row[i], NEW new, request' = [request EXCEPT ![o] = new],
             UNCHANGED <<unpublished, backlog, slot>>, live[i] > 0 => live'[i] > 0,
             request[o].pc # "publish" \/ j # i \/ ~request[o].replayable
      PROVE  InHands(i)'
  <2>1. Waiting(i) => Waiting(i)'
    <3>1. \A p \in Operators : request[p].job = i /\ request[p].pc = "publish" /\ request[p].replayable
            => request'[p] = request[p]
      BY <1>0, <1>1
    <3> QED BY <1>1, <3>1 DEF Waiting
  <2> QED BY <1>1, <2>1, HandsKept DEF TimeSet
<1>2. ASSUME NEW k \in Jobs, NEW pc, Accept(o, k, pc) PROVE InHands(i)'
  <2>1. \E new : request' = [request EXCEPT ![o] = new]
    BY <1>2 DEF Accept
  <2>2. request[o].pc # "publish" /\ row' = row /\ UNCHANGED <<unpublished, live, backlog, slot>>
    BY <1>2 DEF Accept
  <2> QED BY <1>0, <1>1, <2>1, <2>2
<1>3. CASE RetryWrite(o)
  <2>1. /\ j \in Jobs /\ request[o].pc = "retry"
        /\ UNCHANGED <<unpublished, live, backlog, slot, phase>>
        /\ row' = [row EXCEPT ![j] = ResetByOperator(row[j], request[o].replayable)]
        /\ request' = [request EXCEPT ![o] = [request[o] EXCEPT !.pc = "publish"]]
    BY <1>0, <1>3 DEF RetryWrite
  <2>2. CASE i = j
    <3>1. row'[i].replayable = request[o].replayable
      BY <1>0, <2>1, <2>2, OperatorEffect
    <3>2. request'[o].job = i /\ request'[o].pc = "publish" /\ request'[o].replayable
      BY <1>0, <2>1, <2>2, <3>1
    <3> QED BY <3>2 DEF InHands
  <2>3. CASE i # j
    <3>1. row'[i] = row[i] /\ live' = live
      BY <1>0, <2>1, <2>3
    <3> QED BY <1>1, <2>1, <3>1
  <2> QED BY <2>2, <2>3
<1>4. CASE RetryPublish(o)
  <2>1. /\ j \in Jobs /\ row' = row /\ UNCHANGED <<unpublished, backlog, slot, phase>>
        /\ live' = AddCopies(live, IF request[o].replayable THEN {j} ELSE {})
        /\ request' = [request EXCEPT ![o] = NoRequest]
    BY <1>0, <1>4 DEF RetryPublish
  <2>2. CASE i = j /\ request[o].replayable
    <3>1. live'[i] = live[i] + 1 /\ live[i] \in Nat
      BY <1>0, <2>1, <2>2 DEF AddCopies
    <3>2. live'[i] > 0
      BY <3>1
    <3> QED BY <3>2 DEF InHands
  <2>3. CASE i # j \/ ~request[o].replayable
    <3>1. live'[i] = live[i] /\ live[i] \in Nat
      BY <1>0, <2>1, <2>3 DEF AddCopies
    <3> QED BY <1>1, <2>1, <2>3, <3>1
  <2> QED BY <2>2, <2>3
<1>5. CASE CancelWrite(o)
  <2>1. /\ j \in Jobs /\ request[o].pc = "cancel"
        /\ UNCHANGED <<unpublished, live, backlog, slot, phase>>
        /\ row' = [row EXCEPT ![j] = CancelledByOperator(row[j])]
        /\ request' = [request EXCEPT ![o] = NoRequest]
    BY <1>0, <1>5 DEF CancelWrite
  <2>2. i # j
    BY <1>0, <2>1, OperatorEffect DEF Drainable
  <2>3. row'[i] = row[i] /\ live' = live
    BY <1>0, <2>1, <2>2
  <2> QED BY <1>1, <2>1, <2>3
<1> QED BY <1>2, <1>3, <1>4, <1>5 DEF OperatorStep, RetryRead, CancelRead

(* The end of the boot drain: an empty batch leaves nothing to strand, and  *)
(* a failing SELECT is the end of whatever it would have loaded.            *)
LEMMA DrainEndsClean ==
  ASSUME TypeOK, phase = "drain", phase' = "sweep", Next
  PROVE  /\ row' = row
         /\ \A j \in Jobs : Drainable(row[j]) => j \in forsaken'
<1> USE DEF memory, database, counters
<1>1. CASE DrainBatch
  BY <1>1 DEF DrainBatch
<1>2. CASE ~DrainBatch
  <2>1. ASSUME NEW j \in Jobs, NEW s \in Slots, Dequeue(s, j) PROVE FALSE
    BY <2>1 DEF Dequeue
  <2>2. ASSUME NEW j \in Jobs, \/ Ingest(j) \/ Redeliver(j) \/ Publish(j) \/ RevokeKey(j)
                               \/ BackoffElapses(j) \/ GrowsStale(j)
        PROVE FALSE
    BY <2>2 DEF Ingest, Redeliver, Publish, RevokeKey, BackoffElapses, GrowsStale
  <2>3. ASSUME NEW s \in Slots, SlotStep(s) \/ StatementFails(s) PROVE FALSE
    BY <2>3 DEF SlotStep, RefuseRevoked, Check, Lock, Generate, Reformat, Answer,
       Unparseable, ProviderError, Persist, MarkFailed, StatementFails
  <2>4. ASSUME Crash \/ Start \/ ReclaimStaleLocks \/ ReclaimTransientFailures \/ SweepRetries
        PROVE FALSE
    BY <2>4 DEF Crash, Start, ReclaimStaleLocks, ReclaimTransientFailures, Sweep, SweepRetries
  <2>5. ASSUME NEW o \in Operators, OperatorStep(o) PROVE FALSE
    BY <2>5 DEF OperatorStep, RetryRead, CancelRead, Accept, RetryWrite, RetryPublish, CancelWrite
  <2> QED BY <1>2, <2>1, <2>2, <2>3, <2>4, <2>5 DEF Next, BootStep
<1> QED BY <1>1, <1>2

(* A forsaken job is taken back by being drained or locked, nothing else.   *)
LEMMA TakenBack ==
  ASSUME TypeOK, [Next]_vars, NEW i \in Jobs, i \in forsaken, i \notin forsaken'
  PROVE  \/ phase = "drain" /\ row' = row /\ Drainable(row[i])
         \/ row'[i].status = "processing" /\ \E s \in Slots : Holds(s, i)'
<1> USE DEF memory, database, counters, SlotRecords
<1>0. /\ row \in [Jobs -> Row]
      /\ SlotRecords
  BY DEF TypeOK
<1>1. ASSUME NEW j \in Jobs, \/ Ingest(j) \/ Redeliver(j) \/ Publish(j) \/ RevokeKey(j)
                             \/ BackoffElapses(j) \/ GrowsStale(j)
                             \/ \E s \in Slots : Dequeue(s, j)
      PROVE  FALSE
  BY <1>1 DEF Ingest, Redeliver, Publish, RevokeKey, BackoffElapses, GrowsStale, Dequeue
<1>2. ASSUME NEW s \in Slots, \/ RefuseRevoked(s) \/ Check(s) \/ Generate(s) \/ Reformat(s)
                              \/ Answer(s) \/ Unparseable(s) \/ ProviderError(s)
                              \/ Persist(s) \/ MarkFailed(s)
                              \/ StatementFails(s)
      PROVE  FALSE
  BY <1>2 DEF RefuseRevoked, Check, Generate, Reformat, Answer, Unparseable, ProviderError,
     Persist, MarkFailed, StatementFails
<1>3. ASSUME NEW s \in Slots, Lock(s)
      PROVE  row'[i].status = "processing" /\ Holds(s, i)'
  <2>1. /\ slot[s].job = i /\ CanTransition(row[i], "processing")
        /\ row' = [row EXCEPT ![i] = Transition(row[i], "processing", "none", "none")]
        /\ Goto(s, "locked")
    BY <1>3 DEF Lock
  <2>2. row'[i].status = "processing"
    BY <1>0, <2>1, TakingPays
  <2> QED BY <1>0, <2>1, <2>2 DEF Goto, Holds, Working
<1>4. ASSUME Crash \/ Start \/ ReclaimStaleLocks \/ ReclaimTransientFailures \/ SweepRetries
      PROVE  FALSE
  BY <1>4 DEF Crash, Start, ReclaimStaleLocks, ReclaimTransientFailures, Sweep, SweepRetries
<1>5. CASE DrainBatch
  BY <1>5 DEF DrainBatch
<1>6. ASSUME NEW o \in Operators, OperatorStep(o) PROVE FALSE
  BY <1>6 DEF OperatorStep, RetryRead, CancelRead, Accept, RetryWrite, RetryPublish, CancelWrite
<1>7. ~UNCHANGED vars
  BY DEF vars
<1> QED BY <1>1, <1>2, <1>3, <1>4, <1>5, <1>6, <1>7 DEF Next, SlotStep, BootStep

LEMMA HandsStep ==
  ASSUME TypeOK, TypeOK', TakenPaid, NoStrandedRow, CliOperators = {}, [Next]_vars
  PROVE  NoStrandedRow'
<1> SUFFICES ASSUME NEW i \in Jobs, i \notin forsaken', Drainable(row'[i]),
                    row'[i].replayable, phase' = "sweep"
             PROVE  InHands(i)'
  BY DEF NoStrandedRow, InHands, Drainable, HasAttemptsLeft
<1> USE DEF memory, database, counters, SlotRecords
<1>0. /\ row \in [Jobs -> Row] /\ backlog \in [Jobs -> Nat]
      /\ SlotRecords
      /\ phase # "drain" => i \in Jobs \ forsaken
  <2>1. phase # "drain" => i \notin forsaken
    BY TakenBack DEF Drainable
  <2> QED BY <2>1 DEF TypeOK
<1>1. CASE UNCHANGED vars
  BY <1>1 DEF vars, NoStrandedRow, InHands
<1>2. CASE Next /\ phase = "drain"
  BY <1>2, DrainEndsClean
<1>3. CASE Next /\ phase \notin {"drain", "sweep"}
  <2>1. ASSUME NEW j \in Jobs, \/ Ingest(j) \/ Redeliver(j) \/ Publish(j) \/ RevokeKey(j)
                               \/ BackoffElapses(j) \/ GrowsStale(j)
                               \/ \E s \in Slots : Dequeue(s, j)
        PROVE phase' = phase
    BY <2>1 DEF Ingest, Redeliver, Publish, RevokeKey, BackoffElapses, GrowsStale, Dequeue
  <2>2. ASSUME NEW s \in Slots, SlotStep(s) \/ StatementFails(s) PROVE phase' = phase
    BY <2>2 DEF SlotStep, RefuseRevoked, Check, Lock, Generate, Reformat, Answer,
       Unparseable, ProviderError, Persist, MarkFailed, StatementFails
  <2>3. ASSUME Crash \/ Start \/ BootStep \/ SweepRetries PROVE FALSE
    BY <1>3, <2>3 DEF Crash, Start, BootStep, ReclaimStaleLocks, ReclaimTransientFailures,
       DrainBatch, Sweep, SweepRetries
  <2>4. ASSUME NEW o \in Operators, OperatorStep(o) PROVE phase' = phase
    BY <2>4 DEF OperatorStep, RetryRead, CancelRead, Accept, RetryWrite, RetryPublish, CancelWrite
  <2> QED BY <1>3, <2>1, <2>2, <2>3, <2>4 DEF Next
<1>4. CASE Next /\ phase = "sweep"
  <2>1. ASSUME NEW j \in Jobs, \/ Ingest(j) \/ Redeliver(j) \/ Publish(j) \/ RevokeKey(j)
                               \/ BackoffElapses(j) \/ GrowsStale(j)
                               \/ \E s \in Slots : Dequeue(s, j)
        PROVE InHands(i)'
    BY <1>0, <1>4, <2>1, ClientStepHands
  <2>2. ASSUME NEW s \in Slots, SlotStep(s) PROVE InHands(i)'
    BY <1>0, <1>4, <2>2, SlotStepHands
  <2>3. ASSUME NEW s \in Slots, StatementFails(s) PROVE InHands(i)'
    <3>1. row' = row /\ UNCHANGED <<unpublished, live, backlog, request>>
      BY <2>3 DEF StatementFails
    <3>2. PICK new : slot' = [slot EXCEPT ![s] = new]
      BY <2>3 DEF StatementFails, Release, Blame
    <3>3. slot[s].job # i \/ slot[s].pc \notin {"check", "lock"}
      BY <2>3 DEF StatementFails
    <3>4. Waiting(i) => Waiting(i)'
      BY <3>1, <3>2, <3>3, OtherWaits
    <3> QED BY <1>0, <1>4, <3>1, <3>4, HandsKept DEF TimeSet
  <2>4. ASSUME Crash \/ Start \/ BootStep PROVE FALSE
    BY <1>4, <2>4 DEF Crash, Start, BootStep, ReclaimStaleLocks, ReclaimTransientFailures,
       DrainBatch, Sweep
  <2>5. ASSUME SweepRetries PROVE InHands(i)'
    <3>1. TimeSet(i) => TimeSet(i)'
      BY <1>0, <2>5 DEF SweepRetries, TimeSet, Claimed, Row
    <3>2. Waiting(i) => Waiting(i)'
      BY <1>0, <2>5 DEF SweepRetries, Waiting, AddCopies
    <3>3. Drainable(row[i]) /\ row[i].replayable
      BY <1>0, <2>5 DEF SweepRetries, Drainable, HasAttemptsLeft, RetryDue, Claimed, Row
    <3> QED BY <1>0, <1>4, <3>1, <3>2, <3>3, HandsKept
  <2>6. ASSUME NEW o \in Operators, OperatorStep(o) PROVE InHands(i)'
    BY <1>0, <1>4, <2>6, OperatorStepHands
  <2> QED BY <1>4, <2>1, <2>2, <2>3, <2>4, <2>5, <2>6 DEF Next
<1> QED BY <1>1, <1>2, <1>3, <1>4

(* The stranding rule: a queued row that a copy can find and that has       *)
(* attempts left is always being published, in memory, being picked up,     *)
(* ahead of the boot drain or dated for the retry sweep, through any number *)
(* of crashes, copies, redeliveries, failing providers and retries and      *)
(* cancels over HTTP, unless a failing statement took its copy or batch.    *)
(* The CLI is excepted: on the local runtime it publishes to a queue that   *)
(* nobody reads.                                                            *)
THEOREM NobodyStranded == CliOperators = {} => (Spec => []NoStrandedRow)
<1> SUFFICES ASSUME CliOperators = {} PROVE Spec => []NoStrandedRow
  OBVIOUS
<1>1. Init => TakenPaid /\ NoStrandedRow
  BY DEF Init, TakenPaid, NoStrandedRow, InHands, NoRow, Drainable
<1>2. TypeOK /\ TypeOK' /\ TakenPaid /\ NoStrandedRow /\ [Next]_vars => TakenPaid' /\ NoStrandedRow'
  BY PaidStep, HandsStep
<1> QED BY <1>1, <1>2, TypeCorrect, PTL DEF Spec

-----------------------------------------------------------------------------
(* Locks.  Who stops working on a row takes it out of processing first.     *)

(* No statement of somebody else's puts a row in processing.                *)
LEMMA LockKept ==
  ASSUME TypeOK, LocksAreHeld, NEW i \in Jobs \ Plumbing, i \notin forsaken,
         row'[i].status = "processing", row[i].status = "processing",
         \A s \in Slots : Holds(s, i) => Holds(s, i)'
  PROVE  \E s \in Slots : Holds(s, i)'
BY DEF LocksAreHeld, Holders

LEMMA LockStep ==
  ASSUME TypeOK, LocksAreHeld, NEW s \in Slots, SlotStep(s),
         NEW i \in Jobs \ Plumbing, i \notin forsaken, row'[i].status = "processing"
  PROVE  \E t \in Slots : Holds(t, i)'
<1> DEFINE j == slot[s].job
<1> USE DEF memory, database, counters, SlotRecords
<1>0. /\ row \in [Jobs -> Row] /\ slot[s].error \in Classes
      /\ SlotRecords
      /\ slot[s].pc # "idle" => j \in Jobs
  BY DEF TypeOK
<1>1. ASSUME NEW new, slot' = [slot EXCEPT ![s] = new], row'[i] = row[i],
             Holds(s, i) => new.job = i /\ new.pc \in Working
      PROVE  \E t \in Slots : Holds(t, i)'
  <2>1. \A t \in Slots : Holds(t, i) => Holds(t, i)'
    BY <1>0, <1>1 DEF Holds
  <2> QED BY <1>1, <2>1, LockKept
<1>2. ASSUME NEW class \in Classes, row' = [row EXCEPT ![j] = MarkedFailed(row[j], class)],
             j \in Jobs, Release(s)
      PROVE  \E t \in Slots : Holds(t, i)'
  <2>1. i # j
    <3>1. row[j].status # "processing" => MarkedFailed(row[j], class).status # "processing"
      BY <1>0, <1>2, MarkedFailedEffect
    <3>2. row[j].status = "processing" => MarkedFailed(row[j], class).status # "processing"
      BY <1>0, <1>2 DEF MarkedFailed, FailureTarget, Retryable, HasAttemptsLeft, CanTransition,
         AllowedTransitions, Transition, Row, Statuses, Terminal
    <3> QED BY <1>0, <1>2, <3>1, <3>2
  <2> QED BY <1>0, <1>1, <1>2, <2>1 DEF Release, Holds
<1>3. CASE RefuseRevoked(s)
  BY <1>0, <1>2, <1>3 DEF RefuseRevoked, At, Classes
<1>4. CASE Check(s)
  <2>1. \E new : slot' = [slot EXCEPT ![s] = new]
    BY <1>4 DEF Check, Goto, Release
  <2> QED BY <1>1, <1>4, <2>1 DEF Check, At, Holds, Working
<1>5. CASE Lock(s)
  <2>1. CASE CanTransition(row[j], "processing") /\ i = j
    <3>1. slot'[s].job = i /\ slot'[s].pc = "locked"
      BY <1>0, <1>5, <2>1 DEF Lock, Goto
    <3> QED BY <3>1 DEF Holds, Working
  <2>2. CASE ~(CanTransition(row[j], "processing") /\ i = j)
    <3>1. \E new : slot' = [slot EXCEPT ![s] = new]
      BY <1>5 DEF Lock, Goto, Release
    <3>2. row'[i] = row[i]
      BY <1>0, <1>5, <2>2 DEF Lock
    <3> QED BY <1>1, <1>5, <3>1, <3>2 DEF Lock, At, Holds, Working
  <2> QED BY <2>1, <2>2
<1>6. CASE Generate(s) \/ Reformat(s) \/ Answer(s) \/ ProviderError(s)
  <2>1. row' = row
    BY <1>6 DEF Generate, Reformat, Answer, ProviderError
  <2>2. PICK new : slot' = [slot EXCEPT ![s] = new]
    BY <1>0, <1>6, SlotPointwise
  <2>3. CASE i # j
    BY <1>1, <2>1, <2>2, <2>3 DEF Holds
  <2>4. CASE i = j
    <3>1. slot'[s].job = i /\ slot'[s].pc \in Working
      BY <1>0, <1>6, <2>4
         DEF Generate, Reformat, Answer, ProviderError, At, Goto, Blame, Working
    <3>2. slot'[s] = new
      BY <1>0, <2>2
    <3> QED BY <1>1, <2>1, <2>2, <3>1, <3>2
  <2> QED BY <2>3, <2>4
<1>7. CASE Persist(s)
  <2>1. j \in Jobs
    BY <1>0, <1>7 DEF Persist, At
  <2>2. CASE i = j
    <3>1. CASE row[j].status \in Terminal
      <4>1. row' = row
        BY <1>0, <1>7, <2>1, <3>1, TransitionSource DEF Persist, Terminal
      <4> QED BY <2>2, <3>1, <4>1 DEF Terminal
    <3>2. CASE CanTransition(row[j], "completed")
      <4>1. row' = [row EXCEPT ![j] = Transition(row[j], "completed", "none", "none")]
        BY <1>0, <1>7, <2>1, <3>2, TransitionSource DEF Persist, Terminal
      <4> QED BY <1>0, <2>1, <2>2, <4>1, TransitionEffect
    <3>3. CASE row[j].status \notin Terminal /\ ~CanTransition(row[j], "completed")
      <4>1. row' = row
        BY <1>7, <3>3 DEF Persist
      <4> QED BY <2>2, <3>3, <4>1
              DEF CanTransition, AllowedTransitions, Statuses, Terminal
    <3> QED BY <3>1, <3>2, <3>3
  <2>3. CASE i # j
    <3>1. \E new : slot' = [slot EXCEPT ![s] = new]
      BY <1>0, <1>7 DEF Persist, Release, Blame
    <3>2. row'[i] = row[i]
      BY <1>0, <1>7, <2>1, <2>3 DEF Persist
    <3> QED BY <1>1, <2>3, <3>1, <3>2 DEF Holds
  <2> QED BY <2>2, <2>3
<1>8. CASE MarkFailed(s)
  BY <1>0, <1>2, <1>8 DEF MarkFailed, At
<1>9. CASE Unparseable(s)
  <2>1. j \in Jobs /\ row' = [row EXCEPT ![j] = MarkedFailed(row[j], "other")] /\ "other" \in Classes
    BY <1>0, <1>9 DEF Unparseable, At, Classes
  <2>2. row'[i] = row[i]
    <3>1. CASE i = j
      BY <1>0, <2>1, <3>1, MarkedFailedEffect
    <3> QED BY <1>0, <2>1, <3>1
  <2>3. /\ slot' = [slot EXCEPT ![s] = slot'[s]]
        /\ slot'[s].job = j /\ slot'[s].pc \in Working
    BY <1>0, <1>9 DEF Unparseable, Blame, Working
  <2> QED BY <1>1, <2>2, <2>3 DEF Holds
<1> QED BY <1>3, <1>4, <1>5, <1>6, <1>7, <1>8, <1>9 DEF SlotStep

(* Nobody leaves a lock behind: a row in processing has a slot that works   *)
(* on it, whatever duplicates, sweeps, revocations and operators do, unless *)
(* a crash or a failing statement has taken its worker since it was locked, *)
(* or its events are all plumbing.                                          *)
THEOREM LocksHeld == Spec => []LocksAreHeld
<1>1. Init => LocksAreHeld
  BY DEF Init, LocksAreHeld, NoRow
<1>2. TypeOK /\ LocksAreHeld /\ [Next]_vars => LocksAreHeld'
  <2> SUFFICES ASSUME TypeOK, LocksAreHeld, [Next]_vars, NEW i \in Jobs \ Plumbing,
                      row'[i].status = "processing", i \notin forsaken', i \notin forsaken
               PROVE  \E s \in Slots : Holds(s, i)'
    BY TakenBack DEF LocksAreHeld, Holders, Drainable
  <2> USE DEF memory, database, counters, SlotRecords
  <2>0. /\ row \in [Jobs -> Row]
        /\ SlotRecords
    BY DEF TypeOK
  <2>1. CASE UNCHANGED vars
    BY <2>0, <2>1, LockKept DEF vars, Holds
  <2>2. ASSUME NEW s \in Slots, SlotStep(s) PROVE \E t \in Slots : Holds(t, i)'
    BY <2>0, <2>2, LockStep
  <2>3. ASSUME NEW s \in Slots, NEW j \in Jobs, Dequeue(s, j) PROVE \E t \in Slots : Holds(t, i)'
    <3>1. row' = row
      BY <2>3 DEF Dequeue
    <3>2. \A t \in Slots : Holds(t, i) => Holds(t, i)'
      BY <2>0, <2>3 DEF Dequeue, Holds, At, Working
    <3> QED BY <2>0, <3>1, <3>2, LockKept
  <2>4. ASSUME UNCHANGED slot, row[i].status = "processing" PROVE \E t \in Slots : Holds(t, i)'
    BY <2>0, <2>4, LockKept DEF Holds
  <2>5. ASSUME NEW j \in Jobs, \/ Ingest(j) \/ Redeliver(j) \/ Publish(j) \/ RevokeKey(j)
                               \/ BackoffElapses(j) \/ GrowsStale(j)
        PROVE  UNCHANGED slot /\ row[i].status = "processing"
    <3>1. CASE Ingest(j)
      BY <2>0, <3>1 DEF Ingest, NewRow, NoRow
    <3>2. CASE Redeliver(j)
      BY <2>0, <3>2 DEF Redeliver, Merged, Row
    <3>3. CASE Publish(j) \/ RevokeKey(j)
      BY <3>3 DEF Publish, RevokeKey
    <3>4. CASE BackoffElapses(j) \/ GrowsStale(j)
      BY <2>0, <3>4 DEF BackoffElapses, GrowsStale, Row
    <3> QED BY <2>5, <3>1, <3>2, <3>3, <3>4
  <2>6. ASSUME Start \/ BootStep \/ SweepRetries
        PROVE  UNCHANGED slot /\ row[i].status = "processing"
    <3>1. CASE Start \/ DrainBatch
      BY <3>1 DEF Start, DrainBatch
    <3>2. CASE ReclaimStaleLocks
      BY <2>0, <3>2, ReclaimEffect DEF ReclaimStaleLocks, Sweep
    <3>3. CASE ReclaimTransientFailures
      BY <2>0, <3>3, ReclaimEffect DEF ReclaimTransientFailures, Sweep
    <3>4. CASE SweepRetries
      BY <2>0, <3>4 DEF SweepRetries, Claimed, Row
    <3> QED BY <2>6, <3>1, <3>2, <3>3, <3>4 DEF BootStep
  <2>7. ASSUME NEW o \in Operators, OperatorStep(o)
        PROVE  UNCHANGED slot /\ row[i].status = "processing"
    <3>1. row' = row \/ RetryWrite(o) \/ CancelWrite(o)
      BY <2>7 DEF OperatorStep, RetryRead, CancelRead, Accept, RetryPublish
    <3>2. UNCHANGED slot
      BY <2>7 DEF OperatorStep, RetryRead, CancelRead, Accept, RetryPublish, RetryWrite,
         CancelWrite
    <3>3. CASE RetryWrite(o)
      BY <2>0, <3>3 DEF RetryWrite, ResetByOperator, Row
    <3>4. CASE CancelWrite(o)
      BY <2>0, <3>4 DEF CancelWrite, CancelledByOperator, Row
    <3> QED BY <3>1, <3>2, <3>3, <3>4
  <2>8. ASSUME NEW s \in Slots, StatementFails(s) PROVE \E t \in Slots : Holds(t, i)'
    <3>1. row' = row
      BY <2>8 DEF StatementFails
    <3>2. \A t \in Slots : Holds(t, i) => Holds(t, i)'
      BY <2>0, <2>8 DEF StatementFails, Release, Blame, Holds, Working
    <3> QED BY <2>0, <3>1, <3>2, LockKept
  <2>9. ~Crash
    BY DEF Crash
  <2> QED BY <2>1, <2>2, <2>3, <2>4, <2>5, <2>6, <2>7, <2>8, <2>9 DEF Next
<1> QED BY <1>1, <1>2, TypeCorrect, PTL DEF Spec
=============================================================================
