------------------------ MODULE GenerationJobsProofs ------------------------
(***************************************************************************)
(* GenerationJobs for every set of jobs, slots and operators and every      *)
(* max_attempts.                                                            *)
(***************************************************************************)
EXTENDS GenerationJobs, FiniteSetTheorems, TLAPS

(* What the statements of OutboxRows do to a row.                           *)

(* The row types: every statement maps a row to a row.                      *)

LEMMA RowFields ==
  ASSUME NEW r \in Row
  PROVE  /\ r.status \in Statuses /\ r.attempts \in 0..MaxAttempts
         /\ r.locked \in BOOLEAN /\ r.nextAttempt \in {"none", "later", "due"}
         /\ r.failure \in Classes /\ r.stale \in BOOLEAN /\ r.replayable \in BOOLEAN
BY DEF Row

LEMMA TransitionRow ==
  ASSUME NEW r \in Row, NEW target \in Statuses, NEW class \in Classes,
         NEW next \in {"none", "later", "due"}, CanTransition(r, target)
  PROVE  Transition(r, target, class, next) \in Row
<1>1. target = "processing" => r.attempts + 1 \in 0..MaxAttempts
  BY MaxAttemptsAssumption DEF Row, CanTransition, HasAttemptsLeft
<1> QED BY <1>1 DEF Transition, Row

LEMMA MarkedFailedRow ==
  ASSUME NEW r \in Row, NEW class \in Classes PROVE MarkedFailed(r, class) \in Row
<1>1. FailureTarget(r, class) \in Statuses
  BY DEF FailureTarget, Statuses, Terminal
<1> QED BY <1>1, TransitionRow DEF MarkedFailed

LEMMA NoRowTyped == NoRow \in Row /\ NewRow \in Row
<1>1. 0 \in 0..MaxAttempts
  BY MaxAttemptsAssumption
<1>2. NoRow \in Row
  BY <1>1 DEF NoRow, Row, Statuses, Terminal, Classes
<1> QED BY <1>1, <1>2 DEF NewRow, NoRow, Row, Statuses, Terminal, Classes

LEMMA SimpleRows ==
  ASSUME NEW r \in Row
  PROVE  /\ Merged(r) \in Row /\ Claimed(r) \in Row
         /\ Unlocked(r) \in Row /\ Revived(r) \in Row /\ CancelledByOperator(r) \in Row
         /\ \A b \in BOOLEAN : ResetByOperator(r, b) \in Row
         /\ [r EXCEPT !.nextAttempt = "due"] \in Row
         /\ [r EXCEPT !.stale = TRUE] \in Row
<1>1. 0 \in 0..MaxAttempts /\ MaxAttempts - 1 \in 0..MaxAttempts
  BY MaxAttemptsAssumption
<1>3. Merged(r) \in Row /\ Claimed(r) \in Row
  BY DEF Merged, Claimed, Row
<1>4. Unlocked(r) \in Row /\ Revived(r) \in Row
  BY <1>1 DEF Unlocked, Revived, Row, Statuses
<1>5. CancelledByOperator(r) \in Row
  BY DEF CancelledByOperator, Row, Statuses, Terminal
<1>6. ASSUME NEW b \in BOOLEAN PROVE ResetByOperator(r, b) \in Row
  BY <1>1 DEF ResetByOperator, Row, Statuses, Classes
<1>7. [r EXCEPT !.nextAttempt = "due"] \in Row /\ [r EXCEPT !.stale = TRUE] \in Row
  BY DEF Row
<1> QED BY <1>3, <1>4, <1>5, <1>6, <1>7

-----------------------------------------------------------------------------
(* What each statement leaves of the state of a row.                        *)

(* The statements that leave the status machine alone.                      *)
LEMMA QuietEffect ==
  ASSUME NEW r \in Row,
         NEW q \in {Merged(r), Claimed(r), [r EXCEPT !.nextAttempt = "due"],
                    [r EXCEPT !.stale = TRUE]}
  PROVE  /\ q.status = r.status /\ q.failure = r.failure /\ q.attempts = r.attempts
         /\ q.locked = r.locked
BY DEF Merged, Claimed, Row

LEMMA TransitionEffect ==
  ASSUME NEW r \in Row, NEW target, NEW class, NEW next
  PROVE  LET q == Transition(r, target, class, next)
         IN  /\ q.status = target /\ q.failure = class /\ ~q.stale
             /\ q.attempts = IF target = "processing" THEN r.attempts + 1 ELSE r.attempts
BY DEF Transition, Row

(* Only a queued row with attempts left can be locked; only a locked one    *)
(* can be completed.                                                        *)
LEMMA TransitionSource ==
  ASSUME NEW r \in Row
  PROVE  /\ CanTransition(r, "processing") => r.status = "queued" /\ HasAttemptsLeft(r)
         /\ CanTransition(r, "completed") => r.status = "processing"
BY DEF CanTransition, AllowedTransitions, Row

LEMMA MarkedFailedEffect ==
  ASSUME NEW r \in Row, NEW class \in Classes
  PROVE  LET q == MarkedFailed(r, class)
         IN  /\ q.attempts = r.attempts
             /\ r.status \notin {"queued", "processing"} => q = r
             /\ q = r \/ (q.status \in {"queued", "failed"} /\ q.failure = class
                           /\ ~q.stale)
             /\ class = "other" => q = r \/ q.status = "failed"
<1> DEFINE target == FailureTarget(r, class)
           q == MarkedFailed(r, class)
<1>1. target \in {"queued", "failed"} /\ (class = "other" => target = "failed")
  BY DEF FailureTarget, Retryable
<1>2. CASE r.status \notin {"queued", "processing"}
  <2>1. ~ CanTransition(r, target)
    BY <1>1, <1>2 DEF CanTransition, AllowedTransitions, Row
  <2> QED BY <1>2, <2>1 DEF MarkedFailed
<1>3. CASE r.status \in {"queued", "processing"}
  <2>1. q = r \/ (q = Transition(r, target, class, "later") /\ CanTransition(r, target))
    BY DEF MarkedFailed
  <2>4. LET p == Transition(r, target, class, "later")
        IN  p.status = target /\ p.failure = class /\ ~p.stale
            /\ p.attempts = r.attempts
    BY <1>1 DEF Transition, Row
  <2>5. class = "other" => q = r \/ q.status = "failed"
    BY <1>1, <2>1, <2>4
  <2> HIDE DEF q, target
  <2>6. q = r \/ (q.status \in {"queued", "failed"} /\ q.failure = class
                   /\ ~q.stale /\ q.attempts = r.attempts)
    BY <1>1, <2>1, <2>4 DEF q
  <2> QED BY <1>3, <2>5, <2>6 DEF q
<1> QED BY <1>2, <1>3

LEMMA ReclaimEffect ==
  ASSUME NEW r \in Row
  PROVE  /\ LET q == Unlocked(r)
             IN  q.status = "queued" /\ ~q.stale /\ q.attempts = r.attempts
                   /\ q.failure = r.failure
         /\ LET q == Revived(r)
             IN  q.status = "queued" /\ ~q.stale /\ q.attempts = 0
BY DEF Unlocked, Revived, Row

(* An operator's retry buys at most one attempt.                            *)
LEMMA OperatorEffect ==
  ASSUME NEW r \in Row
  PROVE  /\ \A b \in BOOLEAN :
              LET q == ResetByOperator(r, b)
              IN  /\ q.status = "queued" /\ ~q.stale /\ q.replayable = b
                  /\ q.attempts + 1 >= r.attempts
         /\ LET q == CancelledByOperator(r)
            IN  q.status = "cancelled" /\ ~q.stale /\ q.attempts = r.attempts
<1>1. MaxAttempts \in Nat /\ r.attempts \in Nat /\ r.attempts <= MaxAttempts
  BY MaxAttemptsAssumption DEF Row
<1> QED BY <1>1 DEF ResetByOperator, CancelledByOperator, Row

(* A lock is dated, whatever statement ran last.                            *)
Dated(r) == r.status = "processing" => r.locked

LEMMA DatedRows ==
  ASSUME NEW r \in Row, Dated(r)
  PROVE  /\ Dated(NewRow) /\ Dated(NoRow) /\ Dated(Unlocked(r)) /\ Dated(Revived(r))
         /\ Dated(Merged(r)) /\ Dated(Claimed(r))
         /\ Dated([r EXCEPT !.nextAttempt = "due"]) /\ Dated([r EXCEPT !.stale = TRUE])
         /\ \A b \in BOOLEAN : Dated(ResetByOperator(r, b))
         /\ Dated(CancelledByOperator(r))
         /\ \A target \in Statuses, class \in Classes : Dated(Transition(r, target, class, "none"))
         /\ \A class \in Classes : Dated(MarkedFailed(r, class))
<1>1. Dated(NewRow) /\ Dated(NoRow) /\ Dated(Unlocked(r)) /\ Dated(Revived(r))
  BY DEF Dated, NewRow, NoRow, Unlocked, Revived, Row
<1>2. /\ Dated(Merged(r)) /\ Dated(Claimed(r))
      /\ Dated([r EXCEPT !.nextAttempt = "due"]) /\ Dated([r EXCEPT !.stale = TRUE])
  <2>1. ASSUME NEW q \in {Merged(r), Claimed(r), [r EXCEPT !.nextAttempt = "due"],
                          [r EXCEPT !.stale = TRUE]}
        PROVE  Dated(q)
    BY QuietEffect DEF Dated
  <2> QED BY <2>1
<1>3. /\ \A b \in BOOLEAN : Dated(ResetByOperator(r, b))
      /\ Dated(CancelledByOperator(r))
  BY DEF Dated, ResetByOperator, CancelledByOperator, Row
<1>4. \A target \in Statuses, class \in Classes : Dated(Transition(r, target, class, "none"))
  BY DEF Dated, Transition, Row
<1>5. \A class \in Classes : Dated(MarkedFailed(r, class))
  BY MarkedFailedEffect DEF Dated
<1> QED BY <1>1, <1>2, <1>3, <1>4, <1>5

-----------------------------------------------------------------------------
(* Completed and cancelled rows: no statement but an operator's or the      *)
(* completing transition makes a row one of these, or takes it out.         *)
LEMMA CompletedKept ==
  ASSUME NEW r \in Row, NEW q \in Row,
         \/ q = r
         \/ r.status = "absent" /\ q = NewRow
         \/ q \in {Merged(r), Claimed(r), [r EXCEPT !.nextAttempt = "due"],
                   [r EXCEPT !.stale = TRUE]}
         \/ CanTransition(r, "processing") /\ q = Transition(r, "processing", "none", "none")
         \/ \E class \in Classes : q = MarkedFailed(r, class)
         \/ StaleLock(r) /\ q = Unlocked(r)
         \/ StaleTransient(r) /\ q = Revived(r)
  PROVE  \A status \in {"completed", "cancelled"} : q.status = status <=> r.status = status
<1>1. CASE r.status = "absent" /\ q = NewRow
  BY <1>1 DEF NewRow, NoRow
<1>2. CASE q \in {Merged(r), Claimed(r), [r EXCEPT !.nextAttempt = "due"], [r EXCEPT !.stale = TRUE]}
  BY <1>2, QuietEffect
<1>3. CASE CanTransition(r, "processing") /\ q = Transition(r, "processing", "none", "none")
  BY <1>3, TransitionSource DEF Transition, Row
<1>4. CASE \E class \in Classes : q = MarkedFailed(r, class)
  BY <1>4, MarkedFailedEffect
<1>5. CASE (StaleLock(r) /\ q = Unlocked(r)) \/ (StaleTransient(r) /\ q = Revived(r))
  BY <1>5, ReclaimEffect DEF StaleLock, StaleTransient
<1> QED BY <1>1, <1>2, <1>3, <1>4, <1>5

(* Attempts never go down but when a transient failure is revived, and no   *)
(* other statement makes a stale transient failure: only time does.         *)
LEMMA AttemptsKept ==
  ASSUME NEW r \in Row, NEW q \in Row, r.status = "absent" => r.attempts = 0,
         \/ q = r
         \/ r.status = "absent" /\ q = NewRow
         \/ q \in {Merged(r), Claimed(r), [r EXCEPT !.nextAttempt = "due"]}
         \/ CanTransition(r, "processing") /\ q = Transition(r, "processing", "none", "none")
         \/ CanTransition(r, "completed") /\ q = Transition(r, "completed", "none", "none")
         \/ \E class \in Classes : q = MarkedFailed(r, class)
         \/ StaleLock(r) /\ q = Unlocked(r)
  PROVE  /\ q.attempts >= r.attempts
         /\ StaleTransient(q) => StaleTransient(r)
         /\ q.status = "absent" => r.status = "absent" /\ q.attempts = r.attempts
<1>0. r.attempts \in Nat /\ q.attempts \in Nat
  BY DEF Row
<1>1. CASE r.status = "absent" /\ q = NewRow
  BY <1>0, <1>1 DEF NewRow, NoRow, StaleTransient
<1>2. CASE q \in {Merged(r), Claimed(r), [r EXCEPT !.nextAttempt = "due"]}
  <2>1. /\ q.status = r.status /\ q.failure = r.failure /\ q.attempts = r.attempts
        /\ q.stale = r.stale
    BY <1>2 DEF Merged, Claimed, Row
  <2> QED BY <1>0, <2>1 DEF StaleTransient
<1>3. CASE CanTransition(r, "processing") /\ q = Transition(r, "processing", "none", "none")
  <2>1. q.status = "processing" /\ q.attempts >= r.attempts
    BY <1>0, <1>3 DEF Transition, Row
  <2> QED BY <2>1 DEF StaleTransient
<1>4. CASE CanTransition(r, "completed") /\ q = Transition(r, "completed", "none", "none")
  <2>1. q.status = "completed" /\ q.attempts >= r.attempts
    BY <1>0, <1>4 DEF Transition, Row
  <2> QED BY <2>1 DEF StaleTransient
<1>5. CASE \E class \in Classes : q = MarkedFailed(r, class)
  <2>1. q = r \/ (q.status \in {"queued", "failed"} /\ ~q.stale)
    BY <1>5, MarkedFailedEffect
  <2>2. q.attempts = r.attempts
    BY <1>5, MarkedFailedEffect
  <2> QED BY <1>0, <2>1, <2>2 DEF StaleTransient
<1>6. CASE StaleLock(r) /\ q = Unlocked(r)
  <2>1. q.status = "queued" /\ q.attempts = r.attempts
    BY <1>6, ReclaimEffect
  <2> QED BY <1>0, <2>1 DEF StaleTransient
<1>7. CASE q = r
  BY <1>0, <1>7
<1> QED BY <1>1, <1>2, <1>3, <1>4, <1>5, <1>6, <1>7

-----------------------------------------------------------------------------
(* The invariants of the whole system.                                      *)


(* The parts of TypeOK that a step can disturb one by one.                  *)
RowsTyped  == row \in [Jobs -> Row]
SlotRecords ==
  slot \in [Slots -> [pc: SlotPCs, job: Jobs \union {NoJob}, error: Classes,
                      prompts: 0..ReformatRetries]]
SlotsTyped ==
  /\ SlotRecords
  /\ \A s \in Slots : slot[s].job = NoJob <=> slot[s].pc = "idle"
RequestsTyped ==
  /\ request \in [Operators -> [pc: {"idle", "retry", "cancel", "publish"},
                                job: Jobs \union {NoJob}, replayable: BOOLEAN]]
  /\ \A o \in Operators : request[o].job = NoJob <=> request[o].pc = "idle"
CopiesTyped ==
  /\ unpublished \in SUBSET Jobs
  /\ live \in [Jobs -> Nat] /\ backlog \in [Jobs -> Nat]
CountsTyped ==
  /\ results \in [Jobs -> Nat] /\ calls \in [Jobs -> Nat] /\ retried \in [Jobs -> Nat]
  /\ revoked \in SUBSET KeyedJobs
  /\ phase \in Phases /\ forsaken \in SUBSET Jobs
  /\ crashes \in 0..MaxCrashes /\ faults \in 0..MaxFaults
  /\ requests \in 0..MaxRequests

LEMMA TypeParts ==
  TypeOK <=> RowsTyped /\ SlotsTyped /\ RequestsTyped /\ CopiesTyped /\ CountsTyped
BY DEF TypeOK, RowsTyped, SlotsTyped, SlotRecords, RequestsTyped, CopiesTyped, CountsTyped

LEMMA CopiesAdded ==
  ASSUME NEW lane \in [Jobs -> Nat], NEW S PROVE AddCopies(lane, S) \in [Jobs -> Nat]
BY DEF AddCopies

(* The five ways a slot moves.                                              *)
LEMMA SlotMoves ==
  ASSUME SlotsTyped, NEW s \in Slots
  PROVE  /\ Release(s) => SlotsTyped'
         /\ Reformat(s) \/ Answer(s) => SlotsTyped'
         /\ \A pc \in SlotPCs \ {"idle"} : slot[s].pc # "idle" /\ Goto(s, pc) => SlotsTyped'
         /\ \A class \in Classes : slot[s].pc # "idle" /\ Blame(s, class) => SlotsTyped'
         /\ slot[s].pc # "idle" => slot[s].job \in Jobs
         /\ slot[s].error \in Classes
<1>0. ReformatRetries \in Nat /\ 0 \in 0..ReformatRetries
  BY ConstantsAssumption
<1>1. Release(s) => SlotsTyped'
  BY ConstantsAssumption DEF SlotsTyped, SlotRecords, Release, Idle, SlotPCs, Classes
<1>2. ASSUME NEW pc \in SlotPCs \ {"idle"}, slot[s].pc # "idle", Goto(s, pc)
      PROVE  SlotsTyped'
  BY <1>2 DEF SlotsTyped, SlotRecords, Goto
<1>3. ASSUME NEW class \in Classes, slot[s].pc # "idle", Blame(s, class)
      PROVE  SlotsTyped'
  BY <1>0, <1>3 DEF SlotsTyped, SlotRecords, Blame, SlotPCs
<1>5. ASSUME Reformat(s) \/ Answer(s) PROVE SlotsTyped'
  BY <1>0, <1>5 DEF SlotsTyped, SlotRecords, Reformat, Answer, At, SlotPCs
<1>4. slot[s].error \in Classes /\ (slot[s].pc # "idle" => slot[s].job \in Jobs)
  BY DEF SlotsTyped, SlotRecords
<1> QED BY <1>1, <1>2, <1>3, <1>4, <1>5

-----------------------------------------------------------------------------
(* Ingest, the queue's lanes and the passing of time: no slot moves but the *)
(* one that takes a copy.                                                   *)

LEMMA IngestTyped ==
  ASSUME TypeOK, NEW j \in Jobs, Ingest(j) \/ Redeliver(j) \/ Publish(j) \/ RevokeKey(j)
  PROVE  TypeOK'
<1> USE DEF memory, database, counters
<1>1. CASE Ingest(j)
  BY <1>1, NoRowTyped DEF TypeOK, Ingest
<1>2. CASE Redeliver(j)
  BY <1>2, SimpleRows DEF TypeOK, Redeliver
<1>3. CASE Publish(j)
  BY <1>3, CopiesAdded DEF TypeOK, Publish
<1>4. CASE RevokeKey(j)
  BY <1>4 DEF TypeOK, RevokeKey
<1> QED BY <1>1, <1>2, <1>3, <1>4

LEMMA TimeTyped ==
  ASSUME TypeOK, NEW j \in Jobs, BackoffElapses(j) \/ GrowsStale(j)
  PROVE  TypeOK'
<1>1. CASE BackoffElapses(j)
  <2>1. row' = [row EXCEPT ![j] = [row[j] EXCEPT !.nextAttempt = "due"]]
    BY <1>1 DEF TypeOK, BackoffElapses
  <2>2. row[j] \in Row /\ row \in [Jobs -> Row]
    BY DEF TypeOK
  <2>3. [row[j] EXCEPT !.nextAttempt = "due"] \in Row
    BY <2>2, SimpleRows
  <2>4. row' \in [Jobs -> Row]
    BY <2>1, <2>2, <2>3
  <2> QED BY <1>1, <2>4 DEF TypeOK, BackoffElapses, memory, counters
<1>2. CASE GrowsStale(j)
  <2>1. row' = [row EXCEPT ![j] = [row[j] EXCEPT !.stale = TRUE]]
    BY <1>2 DEF TypeOK, GrowsStale
  <2>2. row[j] \in Row /\ row \in [Jobs -> Row]
    BY DEF TypeOK
  <2>3. [row[j] EXCEPT !.stale = TRUE] \in Row
    BY <2>2, SimpleRows
  <2>4. row' \in [Jobs -> Row]
    BY <2>1, <2>2, <2>3
  <2> QED BY <1>2, <2>4 DEF TypeOK, GrowsStale, memory, counters
<1> QED BY <1>1, <1>2

LEMMA DequeueTyped ==
  ASSUME TypeOK, NEW s \in Slots, NEW j \in Jobs, Dequeue(s, j) PROVE TypeOK'
<1>1. SlotsTyped'
  <2>1. 0 \in 0..ReformatRetries /\ j # NoJob
    BY ConstantsAssumption
  <2> QED BY <2>1 DEF TypeOK, SlotsTyped, SlotRecords, Dequeue, SlotPCs, Classes
<1>2. CopiesTyped'
  <2>1. CASE live[j] > 0 /\ live' = [live EXCEPT ![j] = @ - 1] /\ UNCHANGED backlog
    BY <2>1 DEF TypeOK, CopiesTyped, Dequeue
  <2>2. CASE backlog[j] > 0 /\ backlog' = [backlog EXCEPT ![j] = @ - 1] /\ UNCHANGED live
    BY <2>2 DEF TypeOK, CopiesTyped, Dequeue
  <2> QED BY <2>1, <2>2 DEF Dequeue
<1> QED BY <1>1, <1>2 DEF TypeOK, SlotsTyped, SlotRecords, CopiesTyped, Dequeue, database, counters

-----------------------------------------------------------------------------
(* The steps of a worker slot.                                              *)

LEMMA SlotStepTyped ==
  ASSUME TypeOK, NEW s \in Slots, SlotStep(s) \/ StatementFails(s) PROVE TypeOK'
<1> DEFINE j == slot[s].job
<1>0. /\ RowsTyped /\ SlotsTyped
      /\ slot[s].pc # "idle" => j \in Jobs /\ row[j] \in Row
  BY SlotMoves DEF TypeOK, RowsTyped, SlotsTyped, SlotRecords
<1>1. ASSUME RefuseRevoked(s) PROVE TypeOK'
  <2>1. SlotsTyped'
    BY <1>0, <1>1, SlotMoves DEF RefuseRevoked
  <2>2. RowsTyped'
    BY <1>0, <1>1, MarkedFailedRow DEF RefuseRevoked, At, RowsTyped, Classes
  <2> QED BY <1>1, <2>1, <2>2 DEF TypeOK, SlotsTyped, SlotRecords, RowsTyped, RefuseRevoked, memory, counters
<1>2. ASSUME Check(s) PROVE TypeOK'
  <2>1. SlotsTyped'
    BY <1>0, <1>2, SlotMoves DEF Check, At, SlotPCs
  <2> QED BY <1>2, <2>1 DEF TypeOK, SlotsTyped, SlotRecords, Check, memory, database, counters
<1>3. ASSUME Lock(s) PROVE TypeOK'
  <2>1. SlotsTyped'
    BY <1>0, <1>3, SlotMoves DEF Lock, At, SlotPCs
  <2>2. RowsTyped'
    BY <1>0, <1>3, TransitionRow DEF Lock, At, RowsTyped, Classes, Statuses
  <2> QED BY <1>3, <2>1, <2>2 DEF TypeOK, SlotsTyped, SlotRecords, RowsTyped, Lock, memory, counters
<1>4. ASSUME Generate(s) PROVE TypeOK'
  <2>1. SlotsTyped'
    BY <1>0, <1>4, SlotMoves DEF Generate, At, SlotPCs
  <2>2. calls' \in [Jobs -> Nat]
    BY <1>4 DEF TypeOK, Generate
  <2> QED BY <1>4, <2>1, <2>2 DEF TypeOK, SlotsTyped, SlotRecords, Generate, memory, database, counters
<1>5. ASSUME Answer(s) \/ ProviderError(s) PROVE TypeOK'
  <2>1. SlotsTyped'
    BY <1>0, <1>5, SlotMoves DEF ProviderError, At, SlotPCs
  <2> QED BY <1>5, <2>1 DEF TypeOK, SlotsTyped, SlotRecords, Answer, ProviderError, memory, database, counters
<1>6. ASSUME Persist(s) PROVE TypeOK'
  <2>1. SlotsTyped'
    BY <1>0, <1>6, SlotMoves DEF Persist, At, Classes
  <2>2. RowsTyped'
    BY <1>0, <1>6, TransitionRow DEF Persist, At, RowsTyped, Classes, Statuses, Terminal
  <2>3. results' \in [Jobs -> Nat]
    BY <1>6 DEF TypeOK, Persist
  <2> QED BY <1>6, <2>1, <2>2, <2>3 DEF TypeOK, SlotsTyped, SlotRecords, RowsTyped, Persist, memory, counters
<1>7. ASSUME MarkFailed(s) PROVE TypeOK'
  <2>1. SlotsTyped'
    BY <1>0, <1>7, SlotMoves DEF MarkFailed
  <2>2. RowsTyped'
    BY <1>0, <1>7, SlotMoves, MarkedFailedRow DEF MarkFailed, At, RowsTyped
  <2> QED BY <1>7, <2>1, <2>2 DEF TypeOK, SlotsTyped, SlotRecords, RowsTyped, MarkFailed, memory, counters
<1>9. ASSUME Reformat(s) PROVE TypeOK'
  <2>1. SlotsTyped'
    BY <1>0, <1>9, SlotMoves
  <2>2. calls' \in [Jobs -> Nat]
    <3>1. calls \in [Jobs -> Nat] /\ j \in Jobs
      BY <1>0, <1>9 DEF TypeOK, Reformat, At
    <3>2. calls' = [calls EXCEPT ![j] = calls[j] + 1] /\ calls[j] + 1 \in Nat
      BY <1>9, <3>1 DEF Reformat
    <3> HIDE DEF j
    <3> QED BY <3>1, <3>2
  <2>3. RowsTyped' /\ RequestsTyped' /\ CopiesTyped' /\ CountsTyped'
    BY <1>9, <2>2 DEF TypeOK, RowsTyped, RequestsTyped, CopiesTyped, CountsTyped, Reformat,
       memory, database, counters
  <2> QED BY <2>1, <2>3, TypeParts DEF TypeOK, SlotsTyped, SlotRecords, RowsTyped, RequestsTyped,
       CopiesTyped, CountsTyped
<1>10. ASSUME Unparseable(s) PROVE TypeOK'
  <2>1. SlotsTyped'
    BY <1>0, <1>10, SlotMoves DEF Unparseable, At, Classes
  <2>2. RowsTyped'
    BY <1>0, <1>10, MarkedFailedRow DEF Unparseable, At, RowsTyped, Classes
  <2> QED BY <1>10, <2>1, <2>2 DEF TypeOK, SlotsTyped, SlotRecords, RowsTyped, Unparseable, memory, counters
<1>8. ASSUME StatementFails(s) PROVE TypeOK'
  <2>1. SlotsTyped'
    BY <1>0, <1>8, SlotMoves DEF StatementFails, Classes
  <2>2. faults' \in 0..MaxFaults
    BY <1>8, ConstantsAssumption DEF TypeOK, StatementFails
  <2> QED BY <1>8, <2>1, <2>2 DEF TypeOK, SlotsTyped, SlotRecords, StatementFails, memory, database
<1> QED BY <1>1, <1>2, <1>3, <1>4, <1>5, <1>6, <1>7, <1>8, <1>9, <1>10 DEF SlotStep

-----------------------------------------------------------------------------
(* Process death, the boot sequence and the retry sweep.                    *)

LEMMA ProcessTyped ==
  ASSUME TypeOK, Crash \/ Start \/ BootStep \/ SweepRetries PROVE TypeOK'
<1>1. CASE Crash
  <2>1. SlotsTyped' /\ CopiesTyped'
    BY <1>1, ConstantsAssumption DEF Crash, Idle, SlotsTyped, SlotRecords, CopiesTyped, SlotPCs, Classes
  <2>2. RequestsTyped'
    BY <1>1 DEF TypeOK, Crash, NoRequest, RequestsTyped
  <2>3. crashes' \in 0..MaxCrashes /\ phase' \in Phases
    BY <1>1, ConstantsAssumption DEF TypeOK, Crash, Phases
  <2> QED BY <1>1, <2>1, <2>2, <2>3
          DEF TypeOK, SlotsTyped, SlotRecords, CopiesTyped, RequestsTyped, Crash, database
<1>2. CASE Start
  BY <1>2 DEF TypeOK, Start, Phases, memory, database, counters
<1>3. ASSUME NEW from, NEW to \in Phases, NEW swept \in [Jobs -> Row], Sweep(from, to, swept)
      PROVE  TypeOK'
  <2>1. faults' \in 0..MaxFaults
    BY <1>3, ConstantsAssumption DEF TypeOK, Sweep
  <2>2. row' \in [Jobs -> Row]
    BY <1>3 DEF TypeOK, Sweep
  <2> QED BY <1>3, <2>1, <2>2 DEF TypeOK, Sweep, memory
<1>4. CASE ReclaimStaleLocks
  <2>1. [j \in Jobs |-> IF StaleLock(row[j]) THEN Unlocked(row[j]) ELSE row[j]] \in [Jobs -> Row]
    BY SimpleRows DEF TypeOK
  <2> QED BY <1>3, <1>4, <2>1 DEF ReclaimStaleLocks, Phases
<1>5. CASE ReclaimTransientFailures
  <2>1. [j \in Jobs |-> IF StaleTransient(row[j]) THEN Revived(row[j]) ELSE row[j]]
          \in [Jobs -> Row]
    BY SimpleRows DEF TypeOK
  <2> QED BY <1>3, <1>5, <2>1 DEF ReclaimTransientFailures, Phases
<1>6. CASE DrainBatch
  <2>1. backlog' \in [Jobs -> Nat]
    BY <1>6, CopiesAdded DEF TypeOK, DrainBatch
  <2>2. phase' \in Phases /\ faults' \in 0..MaxFaults
    BY <1>6, ConstantsAssumption DEF TypeOK, DrainBatch, Phases
  <2> QED BY <1>6, <2>1, <2>2 DEF TypeOK, DrainBatch, database
<1>7. CASE SweepRetries
  <2>1. backlog' \in [Jobs -> Nat]
    BY <1>7, CopiesAdded DEF TypeOK, SweepRetries
  <2>2. row' \in [Jobs -> Row]
    BY <1>7, SimpleRows DEF TypeOK, SweepRetries
  <2> QED BY <1>7, <2>1, <2>2 DEF TypeOK, SweepRetries, counters
<1> QED BY <1>1, <1>2, <1>4, <1>5, <1>6, <1>7 DEF BootStep

-----------------------------------------------------------------------------
(* Operators.                                                               *)

LEMMA OperatorTyped ==
  ASSUME TypeOK, NEW o \in Operators, OperatorStep(o) PROVE TypeOK'
<1>0. /\ request[o].pc # "idle" => request[o].job \in Jobs
      /\ request[o].replayable \in BOOLEAN
  BY DEF TypeOK
<1>1. ASSUME NEW j \in Jobs, NEW pc \in {"retry", "cancel"}, Accept(o, j, pc) PROVE TypeOK'
  <2>1. row[j].replayable \in BOOLEAN
    BY RowFields DEF TypeOK
  <2>2. RequestsTyped'
    BY <1>1, <2>1, ConstantsAssumption DEF TypeOK, RequestsTyped, Accept
  <2>3. requests' \in 0..MaxRequests
    BY <1>1, ConstantsAssumption DEF TypeOK, Accept
  <2> QED BY <1>1, <2>2, <2>3 DEF TypeOK, RequestsTyped, Accept, memory, database
<1>2. ASSUME RetryWrite(o) PROVE TypeOK'
  <2>1. RequestsTyped'
    BY <1>2, ConstantsAssumption DEF TypeOK, RequestsTyped, RetryWrite, NoRequest
  <2>2. row' \in [Jobs -> Row]
    BY <1>0, <1>2, SimpleRows DEF TypeOK, RetryWrite
  <2>3. retried' \in [Jobs -> Nat]
    BY <1>2 DEF TypeOK, RetryWrite
  <2> QED BY <1>2, <2>1, <2>2, <2>3 DEF TypeOK, RequestsTyped, RetryWrite, memory
<1>3. ASSUME RetryPublish(o) PROVE TypeOK'
  <2>1. RequestsTyped'
    BY <1>3, ConstantsAssumption DEF TypeOK, RequestsTyped, RetryPublish, NoRequest
  <2>2. live' \in [Jobs -> Nat]
    BY <1>3, CopiesAdded DEF TypeOK, RetryPublish
  <2> QED BY <1>3, <2>1, <2>2 DEF TypeOK, RequestsTyped, RetryPublish, database, counters
<1>4. ASSUME CancelWrite(o) PROVE TypeOK'
  <2>1. RequestsTyped'
    BY <1>4, ConstantsAssumption DEF TypeOK, RequestsTyped, CancelWrite, NoRequest
  <2>2. row' \in [Jobs -> Row]
    BY <1>0, <1>4, SimpleRows DEF TypeOK, CancelWrite
  <2> QED BY <1>4, <2>1, <2>2 DEF TypeOK, RequestsTyped, CancelWrite, memory, counters
<1> QED BY <1>1, <1>2, <1>3, <1>4 DEF OperatorStep, RetryRead, CancelRead

-----------------------------------------------------------------------------
LEMMA InitTyped == Init => TypeOK
<1> SUFFICES ASSUME Init PROVE TypeOK
  OBVIOUS
<1>1. RowsTyped
  BY NoRowTyped DEF Init, RowsTyped
<1>2. SlotsTyped /\ RequestsTyped /\ CopiesTyped
  BY ConstantsAssumption
     DEF Init, SlotsTyped, SlotRecords, RequestsTyped, CopiesTyped, Idle, NoRequest, SlotPCs, Classes
<1>3. CountsTyped
  BY ConstantsAssumption DEF Init, CountsTyped, Phases
<1> QED BY <1>1, <1>2, <1>3, TypeParts

(* Every variable stays in its type, and attempts never pass max_attempts,  *)
(* whatever workers, sweeps, crashes and operators do.                      *)
THEOREM TypeCorrect == Spec => []TypeOK
<1>1. TypeOK /\ [Next]_vars => TypeOK'
  <2> SUFFICES ASSUME TypeOK, [Next]_vars PROVE TypeOK'
    OBVIOUS
  <2>1. CASE UNCHANGED vars
    BY <2>1 DEF TypeOK, vars, memory, database, counters
  <2>2. CASE Next
    BY <2>2, IngestTyped, TimeTyped, DequeueTyped, SlotStepTyped, ProcessTyped, OperatorTyped
       DEF Next
  <2> QED BY <2>1, <2>2
<1> QED BY <1>1, InitTyped, PTL DEF Spec

-----------------------------------------------------------------------------
(* What a step may do to the row of a job, workers, sweeps and operators    *)
(* together.                                                                *)

(* A worker fails the row it works on and lets go of it, or fails it for    *)
(* good: its key was revoked, or no answer could be parsed.                 *)
FailingStatement(j) ==
  \E s \in Slots, class \in Classes :
    /\ slot[s].job = j
    /\ (slot[s].pc = "fail" /\ slot'[s].pc = "idle") \/ class = "other"
    /\ row'[j] = MarkedFailed(row[j], class)

RowStatement(j) ==
  \/ row'[j] = row[j]
  \/ row[j].status = "absent" /\ row'[j] = NewRow
  \/ row'[j] \in {Merged(row[j]), Claimed(row[j]), [row[j] EXCEPT !.nextAttempt = "due"]}
  \/ /\ row'[j] = [row[j] EXCEPT !.stale = TRUE]
     /\ phase \notin {"locks", "transient"} /\ phase' = phase
  \/ /\ CanTransition(row[j], "processing")
     /\ row'[j] = Transition(row[j], "processing", "none", "none")
  \/ FailingStatement(j)
  \/ StaleLock(row[j]) /\ phase = "locks" /\ row'[j] = Unlocked(row[j])
  \/ StaleTransient(row[j]) /\ phase = "transient" /\ row'[j] = Revived(row[j])

CompletingStep(j) ==
  /\ CanTransition(row[j], "completed")
  /\ row'[j] = Transition(row[j], "completed", "none", "none")

RowStep(j) ==
  /\ retried'[j] = retried[j]
  /\ \/ RowStatement(j) /\ results'[j] = results[j]
     \/ CompletingStep(j) /\ results'[j] = results[j] + 1

RetryStep(j) == /\ \E b \in BOOLEAN : row'[j] = ResetByOperator(row[j], b)
                /\ retried'[j] = retried[j] + 1

CancelStep(j) == /\ row'[j] = CancelledByOperator(row[j])
                 /\ retried'[j] = retried[j]

OperatorRowStep(j) ==
  RetryStep(j) \/ CancelStep(j)

LEMMA RowSteps ==
  ASSUME TypeOK, [Next]_vars, NEW i \in Jobs
  PROVE  \/ RowStep(i)
         \/ OperatorRowStep(i) /\ results'[i] = results[i] /\ Overridden(i)
<1> USE DEF memory, database, counters, SlotRecords
<1>0. /\ row \in [Jobs -> Row] /\ results \in [Jobs -> Nat] /\ retried \in [Jobs -> Nat]
      /\ SlotRecords
      /\ \A s \in Slots : slot[s].error \in Classes
  BY DEF TypeOK
<1> USE DEF RowStatement
<1>1. CASE UNCHANGED vars
  BY <1>1 DEF RowStep, vars
<1>2. ASSUME NEW j \in Jobs, Ingest(j) \/ Redeliver(j) PROVE RowStep(i)
  BY <1>0, <1>2 DEF RowStep, Ingest, Redeliver
<1>3. ASSUME NEW j \in Jobs, Publish(j) \/ RevokeKey(j) PROVE RowStep(i)
  BY <1>3 DEF RowStep, Publish, RevokeKey
<1>4. ASSUME NEW j \in Jobs, BackoffElapses(j) PROVE RowStep(i)
  BY <1>0, <1>4 DEF RowStep, BackoffElapses
<1>5. ASSUME NEW j \in Jobs, GrowsStale(j) PROVE RowStep(i)
  BY <1>0, <1>5 DEF RowStep, GrowsStale
<1>6. ASSUME NEW s \in Slots, NEW j \in Jobs, Dequeue(s, j) PROVE RowStep(i)
  BY <1>6 DEF RowStep, Dequeue
<1>7. ASSUME NEW s \in Slots, RefuseRevoked(s) \/ Unparseable(s) \/ MarkFailed(s)
      PROVE  RowStep(i)
  <2>1. UNCHANGED <<results, retried>>
    BY <1>7 DEF RefuseRevoked, Unparseable, MarkFailed
  <2>2. CASE i # slot[s].job
    BY <1>0, <1>7, <2>1, <2>2 DEF RowStep, RefuseRevoked, Unparseable, MarkFailed
  <2>3. CASE i = slot[s].job /\ (RefuseRevoked(s) \/ Unparseable(s))
    <3>1. row'[i] = MarkedFailed(row[i], "other") /\ "other" \in Classes
      BY <1>0, <2>3 DEF RefuseRevoked, Unparseable, Classes
    <3>2. FailingStatement(i)
      BY <2>1, <2>3, <3>1 DEF FailingStatement
    <3> QED BY <2>1, <3>2 DEF RowStep
  <2>4. CASE i = slot[s].job /\ MarkFailed(s)
    <3>1. /\ slot[s].pc = "fail" /\ slot'[s].pc = "idle"
          /\ row'[i] = MarkedFailed(row[i], slot[s].error)
      BY <1>0, <2>4 DEF MarkFailed, At, Release, Idle
    <3>2. FailingStatement(i)
      BY <1>0, <2>1, <2>4, <3>1 DEF FailingStatement
    <3> QED BY <2>1, <3>2 DEF RowStep
  <2> QED BY <1>7, <2>2, <2>3, <2>4
<1>8. ASSUME NEW s \in Slots,
             \/ Check(s) \/ Generate(s) \/ Reformat(s) \/ Answer(s) \/ ProviderError(s)
             \/ StatementFails(s)
      PROVE  RowStep(i)
  BY <1>8 DEF RowStep, Check, Generate, Reformat, Answer, ProviderError, StatementFails
<1>9. ASSUME NEW s \in Slots, Lock(s) PROVE RowStep(i)
  BY <1>0, <1>9 DEF RowStep, Lock
<1>10. ASSUME NEW s \in Slots, Persist(s) PROVE RowStep(i)
  BY <1>0, <1>10 DEF RowStep, CompletingStep, Persist
<1>12. CASE Crash \/ Start \/ DrainBatch
  BY <1>12 DEF RowStep, Crash, Start, DrainBatch
<1>13. CASE ReclaimStaleLocks
  BY <1>13 DEF RowStep, ReclaimStaleLocks, Sweep
<1>14. CASE ReclaimTransientFailures
  BY <1>14 DEF RowStep, ReclaimTransientFailures, Sweep
<1>15. CASE SweepRetries
  BY <1>15 DEF RowStep, SweepRetries
<1>16. ASSUME NEW o \in Operators, OperatorStep(o)
       PROVE  \/ RowStep(i)
              \/ OperatorRowStep(i) /\ results'[i] = results[i] /\ Overridden(i)
  <2>0. request[o].replayable \in BOOLEAN /\ request \in [Operators -> [pc: {"idle", "retry",
           "cancel", "publish"}, job: Jobs \union {NoJob}, replayable: BOOLEAN]]
    BY DEF TypeOK
  <2>1. ASSUME NEW j \in Jobs, NEW pc, Accept(o, j, pc) PROVE RowStep(i)
    BY <2>1 DEF RowStep, Accept
  <2>2. ASSUME RetryPublish(o) PROVE RowStep(i)
    BY <2>2 DEF RowStep, RetryPublish
  <2>3. ASSUME RetryWrite(o)
        PROVE  RowStep(i) \/ (OperatorRowStep(i) /\ results'[i] = results[i] /\ Overridden(i))
    <3>1. CASE i # request[o].job
      BY <1>0, <2>3, <3>1 DEF RowStep, RetryWrite
    <3>2. CASE i = request[o].job
      <4>1. OperatorRowStep(i) /\ results'[i] = results[i]
        BY <1>0, <2>0, <2>3, <3>2 DEF OperatorRowStep, RetryStep, RetryWrite
      <4>2. request'[o].pc # "retry" /\ request[o].pc = "retry"
        BY <2>0, <2>3 DEF RetryWrite, NoRequest
      <4> QED BY <3>2, <4>1, <4>2 DEF Overridden
    <3> QED BY <3>1, <3>2
  <2>4. ASSUME CancelWrite(o)
        PROVE  RowStep(i) \/ (OperatorRowStep(i) /\ results'[i] = results[i] /\ Overridden(i))
    <3>1. CASE i # request[o].job
      BY <1>0, <2>4, <3>1 DEF RowStep, CancelWrite
    <3>2. CASE i = request[o].job
      <4>1. OperatorRowStep(i) /\ results'[i] = results[i]
        BY <1>0, <2>4, <3>2 DEF OperatorRowStep, CancelStep, CancelWrite
      <4>2. request'[o].pc # "cancel" /\ request[o].pc = "cancel"
        BY <2>0, <2>4 DEF CancelWrite, NoRequest
      <4> QED BY <3>2, <4>1, <4>2 DEF Overridden
    <3> QED BY <3>1, <3>2
  <2> QED BY <1>16, <2>1, <2>2, <2>3, <2>4 DEF OperatorStep, RetryRead, CancelRead
<1> QED
  BY <1>1, <1>2, <1>3, <1>4, <1>5, <1>6, <1>7, <1>8, <1>9, <1>10, <1>12, <1>13, <1>14,
     <1>15, <1>16 DEF Next, SlotStep, BootStep

-----------------------------------------------------------------------------
(* A processing row always carries locked_at, so the stale reclaim can see  *)
(* every lock, whatever workers and operators did to the row before.        *)
THEOREM LocksDated == Spec => []LocksAreDated
<1> DEFINE DInv == TypeOK /\ LocksAreDated
<1>1. Init => DInv
  BY InitTyped DEF Init, LocksAreDated, NoRow
<1>2. DInv /\ [Next]_vars => LocksAreDated'
  <2> SUFFICES ASSUME DInv, [Next]_vars, NEW j \in Jobs PROVE Dated(row'[j])
    BY DEF LocksAreDated, Dated
  <2>1. row[j] \in Row /\ Dated(row[j])
    BY DEF TypeOK, LocksAreDated, Dated
  <2>2. CASE RowStep(j)
    BY <2>1, <2>2, DatedRows
       DEF RowStep, RowStatement, FailingStatement, CompletingStep, Statuses, Terminal, Classes
  <2>3. CASE OperatorRowStep(j)
    BY <2>1, <2>3, DatedRows DEF OperatorRowStep, RetryStep, CancelStep
  <2> QED BY <2>2, <2>3, RowSteps
<1> QED BY <1>1, <1>2, TypeCorrect, PTL DEF Spec

-----------------------------------------------------------------------------
(* One worker per job and opening.  SingleGenerator is not inductive: that  *)
(* a second slot cannot lock the row rests on the row being out of "queued" *)
(* as long as a slot holds it, hence on nobody but an operator taking it    *)
(* back meanwhile.  HoldersCounted therefore counts, beside the slots that  *)
(* hold the row, the row itself while it can still be handed out: a worker  *)
(* that gives its row back stops holding it, a retry is paid by its count,  *)
(* and the two reclaims take rows back that nobody holds, because they run  *)
(* before anything this process locked can be old (HeldFresh).              *)

HandedOut(j) == row[j].status \notin {"absent", "queued"}
Claim(j) == IF HandedOut(j) THEN 0 ELSE 1

HoldersCounted == \A j \in Jobs : Cardinality(Holders(j)) + Claim(j) <= 1 + retried[j]

HeldFresh ==
  \A s \in Slots, j \in Jobs : Holds(s, j) /\ phase \in {"locks", "transient"} => ~row[j].stale

IdleWhenDown == phase = "down" => \A s \in Slots : slot[s].pc = "idle"

SoleInv == TypeOK /\ HoldersCounted /\ HeldFresh /\ IdleWhenDown

(* Counting subsets of a finite set, and slots.                             *)
LEMMA SubsetsCounted ==
  ASSUME NEW U, IsFiniteSet(U), NEW H \in SUBSET U, NEW K \in SUBSET U, NEW s
  PROVE  /\ Cardinality(H) \in Nat
         /\ H = {} => Cardinality(H) = 0
         /\ K \subseteq H => Cardinality(K) <= Cardinality(H)
         /\ s \in H /\ K \subseteq H \ {s} => Cardinality(K) + 1 <= Cardinality(H)
         /\ K \subseteq H \union {s} => Cardinality(K) <= Cardinality(H) + 1
<1>1. IsFiniteSet(H) /\ IsFiniteSet(K)
  BY FS_Subset
<1>2. Cardinality(H) \in Nat /\ Cardinality(K) \in Nat
  BY <1>1, FS_CardinalityType
<1>3. ASSUME K \subseteq H PROVE Cardinality(K) <= Cardinality(H)
  BY <1>1, <1>3, FS_Subset
<1>4. ASSUME s \in H, K \subseteq H \ {s} PROVE Cardinality(K) + 1 <= Cardinality(H)
  <2>1. IsFiniteSet(H \ {s}) /\ Cardinality(H \ {s}) = Cardinality(H) - 1
    BY <1>1, <1>4, FS_RemoveElement
  <2>2. Cardinality(K) <= Cardinality(H \ {s})
    BY <1>4, <2>1, FS_Subset
  <2> QED BY <1>2, <2>1, <2>2
<1>5. ASSUME K \subseteq H \union {s} PROVE Cardinality(K) <= Cardinality(H) + 1
  <2>1. /\ IsFiniteSet(H \union {s})
        /\ Cardinality(H \union {s}) = Cardinality(H) \/ Cardinality(H \union {s}) = Cardinality(H) + 1
    BY <1>1, FS_AddElement
  <2>2. Cardinality(K) <= Cardinality(H \union {s})
    BY <1>5, <2>1, FS_Subset
  <2> QED BY <1>2, <2>1, <2>2
<1>6. H = {} => Cardinality(H) = 0
  BY FS_EmptySet
<1> QED BY <1>2, <1>3, <1>4, <1>5, <1>6

LEMMA SlotsCounted ==
  ASSUME NEW H \in SUBSET Slots, NEW K \in SUBSET Slots, NEW s
  PROVE  /\ Cardinality(H) \in Nat
         /\ H = {} => Cardinality(H) = 0
         /\ K \subseteq H => Cardinality(K) <= Cardinality(H)
         /\ s \in H /\ K \subseteq H \ {s} => Cardinality(K) + 1 <= Cardinality(H)
         /\ K \subseteq H \union {s} => Cardinality(K) <= Cardinality(H) + 1
BY ConstantsAssumption, SubsetsCounted

(* The four ways the count of one job moves.                                *)
Counted(j) == Cardinality(Holders(j)) + Claim(j) <= 1 + retried[j]

LEMMA CountMoves ==
  ASSUME SoleInv, TypeOK', NEW j \in Jobs, NEW s \in Slots
  PROVE  /\ Holders(j)' \subseteq Holders(j) /\ (HandedOut(j) => HandedOut(j)')
              /\ retried'[j] = retried[j] => Counted(j)'
         /\ Holds(s, j) /\ Holders(j)' \subseteq Holders(j) \ {s}
              /\ retried'[j] = retried[j] => Counted(j)'
         /\ Holders(j)' \subseteq Holders(j) \union {s} /\ ~HandedOut(j) /\ HandedOut(j)'
              /\ retried'[j] = retried[j] => Counted(j)'
         /\ Holders(j)' \subseteq Holders(j) /\ retried'[j] = retried[j] + 1 => Counted(j)'
         /\ Holders(j)' = {} => Counted(j)'
<1>1. Holders(j) \in SUBSET Slots /\ Holders(j)' \in SUBSET Slots
  BY DEF Holders
<1>2. /\ Cardinality(Holders(j)) \in Nat /\ Cardinality(Holders(j)') \in Nat
      /\ retried[j] \in Nat /\ retried'[j] \in Nat /\ Counted(j)
  BY <1>1, SlotsCounted DEF SoleInv, TypeOK, HoldersCounted, Counted
<1>3. /\ Claim(j) = (IF HandedOut(j) THEN 0 ELSE 1)
      /\ Claim(j)' = (IF HandedOut(j)' THEN 0 ELSE 1)
  BY DEF Claim
<1>4. s \in Holders(j) <=> Holds(s, j)
  BY DEF Holders
<1>5. /\ Holders(j)' = {} => Cardinality(Holders(j)') = 0
      /\ Holders(j)' \subseteq Holders(j) => Cardinality(Holders(j)') <= Cardinality(Holders(j))
      /\ s \in Holders(j) /\ Holders(j)' \subseteq Holders(j) \ {s}
           => Cardinality(Holders(j)') + 1 <= Cardinality(Holders(j))
      /\ Holders(j)' \subseteq Holders(j) \union {s}
           => Cardinality(Holders(j)') <= Cardinality(Holders(j)) + 1
  BY <1>1, SlotsCounted
<1>6. Counted(j)' <=> Cardinality(Holders(j)') + Claim(j)' <= 1 + retried'[j]
  BY DEF Counted
<1>7. Cardinality(Holders(j)) + Claim(j) <= 1 + retried[j]
  BY <1>2 DEF Counted
<1> DEFINE n == Cardinality(Holders(j))
           m == Cardinality(Holders(j)')
           c == Claim(j)
           d == Claim(j)'
<1> HIDE DEF n, m, c, d
<1>8. /\ n \in Nat /\ m \in Nat /\ n + c <= 1 + retried[j] /\ c \in {0, 1} /\ d \in {0, 1}
      /\ HandedOut(j) <=> c = 0
      /\ HandedOut(j)' <=> d = 0
      /\ Counted(j)' <=> m + d <= 1 + retried'[j]
  BY <1>2, <1>3, <1>6, <1>7 DEF n, m, c, d
<1>9. /\ Holders(j)' = {} => m = 0
      /\ Holders(j)' \subseteq Holders(j) => m <= n
      /\ Holds(s, j) /\ Holders(j)' \subseteq Holders(j) \ {s} => m + 1 <= n
      /\ Holders(j)' \subseteq Holders(j) \union {s} => m <= n + 1
  BY <1>4, <1>5 DEF n, m
<1> QED BY <1>2, <1>8, <1>9

(* Nobody starts to hold a row: what the step does to the row decides.      *)
LEMMA FreshKept ==
  ASSUME SoleInv,
         \A s \in Slots, j \in Jobs : Holds(s, j)' => Holds(s, j),
         \A j \in Jobs : row'[j].stale => row[j].stale \/ phase' \notin {"locks", "transient"},
         phase' \in {"locks", "transient"} => phase \in {"down", "locks", "transient"}
  PROVE  HeldFresh'
<1> SUFFICES ASSUME NEW s \in Slots, NEW j \in Jobs, Holds(s, j)', phase' \in {"locks", "transient"}
             PROVE  ~row'[j].stale
  BY DEF HeldFresh
<1>1. Holds(s, j) /\ phase # "down"
  BY DEF SoleInv, IdleWhenDown, Holds, Working
<1> QED BY <1>1 DEF SoleInv, HeldFresh

(* Steps in which no slot starts to hold a row, seen row by row: the row    *)
(* stays handed out, or was handed back by its only holder, or by a boot or *)
(* an operator.                                                             *)
LEMMA NoNewHolder ==
  ASSUME SoleInv, TypeOK',
         \A s \in Slots, j \in Jobs : Holds(s, j)' => Holds(s, j),
         \A j \in Jobs :
           \/ retried'[j] = retried[j] /\ (HandedOut(j) => HandedOut(j)')
           \/ retried'[j] = retried[j] /\ \E s \in Slots : Holds(s, j) /\ ~Holds(s, j)'
           \/ row[j].stale /\ phase \in {"locks", "transient"}
           \/ retried'[j] = retried[j] + 1,
         \A j \in Jobs : row'[j].stale => row[j].stale \/ phase' \notin {"locks", "transient"},
         phase' \in {"locks", "transient"} => phase \in {"down", "locks", "transient"},
         phase' = "down" => \A s \in Slots : slot'[s].pc = "idle"
  PROVE  SoleInv'
<1>1. HeldFresh'
  BY FreshKept
<1>2. IdleWhenDown'
  BY DEF SoleInv, IdleWhenDown
<1>3. ASSUME NEW j \in Jobs PROVE Counted(j)'
  <2>1. Holders(j)' \subseteq Holders(j)
    BY DEF Holders
  <2>2. CASE Slots = {}
    <3>1. Holders(j)' = {}
      BY <2>2 DEF Holders
    <3>2. Cardinality(Holders(j)') = 0
      BY <3>1, FS_EmptySet
    <3>3. Claim(j)' \in {0, 1} /\ retried'[j] \in Nat
      BY DEF Claim, TypeOK
    <3> QED BY <3>2, <3>3 DEF Counted
  <2>3. CASE Slots # {}
    <3>1. PICK t \in Slots : TRUE
      BY <2>3
    <3>2. CASE retried'[j] = retried[j] /\ (HandedOut(j) => HandedOut(j)')
      BY <2>1, <3>2, CountMoves, <3>1
    <3>3. CASE retried'[j] = retried[j] /\ \E s \in Slots : Holds(s, j) /\ ~Holds(s, j)'
      <4>1. PICK s \in Slots : Holds(s, j) /\ ~Holds(s, j)'
        BY <3>3
      <4>2. Holders(j)' \subseteq Holders(j) \ {s}
        BY <2>1, <4>1 DEF Holders
      <4> QED BY <3>3, <4>1, <4>2, CountMoves
    <3>4. CASE row[j].stale /\ phase \in {"locks", "transient"}
      <4>1. Holders(j)' = {}
        BY <2>1, <3>4 DEF SoleInv, HeldFresh, Holders
      <4> QED BY <3>1, <4>1, CountMoves
    <3>5. CASE retried'[j] = retried[j] + 1
      BY <2>1, <3>1, <3>5, CountMoves
    <3> QED BY <3>2, <3>3, <3>4, <3>5
  <2> QED BY <2>2, <2>3
<1> QED BY <1>1, <1>2, <1>3 DEF SoleInv, HoldersCounted, Counted

(* What one statement does to whether a row is handed out, and to its age.  *)
LEMMA HandedOutKept ==
  ASSUME TypeOK, TypeOK', NEW j \in Jobs, RowStep(j)
  PROVE  /\ \/ HandedOut(j) => HandedOut(j)'
            \/ row[j].stale /\ phase \in {"locks", "transient"}
            \/ \E s \in Slots : Holds(s, j) /\ ~Holds(s, j)'
         /\ row'[j].stale => row[j].stale \/ phase' \notin {"locks", "transient"}
<1>1. row[j] \in Row /\ row'[j] \in Row
  BY DEF TypeOK
<1>2. CASE row'[j] = row[j] \/ (row[j].status = "absent" /\ row'[j] = NewRow)
  BY <1>2 DEF HandedOut, NewRow, NoRow
<1>3. CASE row'[j] \in {Merged(row[j]), Claimed(row[j]), [row[j] EXCEPT !.nextAttempt = "due"]}
  <2>1. row'[j].status = row[j].status /\ row'[j].stale = row[j].stale
    BY <1>1, <1>3 DEF Merged, Claimed, Row
  <2> QED BY <2>1 DEF HandedOut
<1>4. CASE /\ row'[j] = [row[j] EXCEPT !.stale = TRUE]
           /\ phase \notin {"locks", "transient"} /\ phase' = phase
  BY <1>1, <1>4, QuietEffect DEF HandedOut
<1>5. CASE row'[j] \in {Transition(row[j], "processing", "none", "none"),
                        Transition(row[j], "completed", "none", "none")}
  BY <1>1, <1>5, TransitionEffect DEF HandedOut
<1>6. CASE StaleLock(row[j]) /\ phase = "locks" /\ row'[j] = Unlocked(row[j])
  BY <1>1, <1>6, ReclaimEffect DEF StaleLock
<1>7. CASE StaleTransient(row[j]) /\ phase = "transient" /\ row'[j] = Revived(row[j])
  BY <1>1, <1>7, ReclaimEffect DEF StaleTransient
<1>8. CASE FailingStatement(j)
  <2>1. PICK s \in Slots, class \in Classes :
          /\ slot[s].job = j
          /\ (slot[s].pc = "fail" /\ slot'[s].pc = "idle") \/ class = "other"
          /\ row'[j] = MarkedFailed(row[j], class)
    BY <1>8 DEF FailingStatement
  <2>2. row'[j].stale => row[j].stale
    BY <1>1, <2>1, MarkedFailedEffect
  <2>3. CASE slot[s].pc = "fail" /\ slot'[s].pc = "idle"
    <3>1. Holds(s, j) /\ ~Holds(s, j)'
      BY <2>1, <2>3 DEF Holds, Working
    <3> QED BY <2>2, <3>1
  <2>4. CASE class = "other"
    BY <1>1, <2>1, <2>2, <2>4, MarkedFailedEffect DEF HandedOut
  <2> QED BY <2>1, <2>3, <2>4
<1> QED BY <1>2, <1>3, <1>4, <1>5, <1>6, <1>7, <1>8 DEF RowStep, RowStatement, CompletingStep

(* Which actions move the slots and the boot sequence.                      *)
LEMMA PhaseMoves ==
  ASSUME [Next]_vars
  PROVE  /\ phase' \in {"locks", "transient"} => phase \in {"down", "locks", "transient"}
         /\ phase' = "down" => phase = "down" \/ Crash
         /\ crashes' = crashes \/ Crash
<1> USE DEF memory, database, counters
<1>1. CASE UNCHANGED vars
  BY <1>1 DEF vars
<1>2. ASSUME NEW j \in Jobs, \/ Ingest(j) \/ Redeliver(j) \/ Publish(j) \/ RevokeKey(j)
                             \/ BackoffElapses(j) \/ GrowsStale(j)
                             \/ \E s \in Slots : Dequeue(s, j)
      PROVE  UNCHANGED <<phase, crashes>>
  BY <1>2 DEF Ingest, Redeliver, Publish, RevokeKey, BackoffElapses, GrowsStale, Dequeue
<1>3. ASSUME NEW s \in Slots, SlotStep(s) \/ StatementFails(s) PROVE UNCHANGED <<phase, crashes>>
  BY <1>3 DEF SlotStep, RefuseRevoked, Check, Lock, Generate, Reformat, Answer,
     Unparseable, ProviderError, Persist, MarkFailed, StatementFails
<1>4. ASSUME Start \/ BootStep \/ SweepRetries
      PROVE  /\ phase' \in {"locks", "transient"} => phase \in {"down", "locks", "transient"}
             /\ phase' # "down" /\ crashes' = crashes
  BY <1>4 DEF Start, BootStep, ReclaimStaleLocks, ReclaimTransientFailures, DrainBatch, Sweep,
     SweepRetries
<1>5. ASSUME NEW o \in Operators, OperatorStep(o) PROVE UNCHANGED <<phase, crashes>>
  BY <1>5 DEF OperatorStep, RetryRead, CancelRead, Accept, RetryWrite, RetryPublish, CancelWrite
<1>6. CASE Crash
  BY <1>6 DEF Crash
<1> QED BY <1>1, <1>2, <1>3, <1>4, <1>5, <1>6 DEF Next

(* A slot starts to hold a row by locking it; everything else keeps, moves  *)
(* on or lets go.                                                           *)
Locking(s) ==
  /\ At(s, "lock") /\ CanTransition(row[slot[s].job], "processing")
  /\ row' = [row EXCEPT ![slot[s].job] = Transition(@, "processing", "none", "none")]
  /\ Goto(s, "locked")
  /\ UNCHANGED <<results, revoked, memory, phase, request, calls,
                 retried, crashes, faults, requests>>

(* A slot calls the provider: for the first time, or once more.             *)
Calling(s) == (Generate(s) /\ slot[s].job \notin Plumbing) \/ Reformat(s)

NobodyLocks == \A s \in Slots, j \in Jobs : Holds(s, j)' => Holds(s, j)
NobodyCalls ==
  \A s \in Slots : slot'[s].pc \in {"locked", "generating"} => slot'[s] = slot[s]

LEMMA SlotMovesOnly ==
  ASSUME TypeOK, [Next]_vars, \A s \in Slots : ~Locking(s)
  PROVE  NobodyLocks /\ ((\A s \in Slots : ~Calling(s)) => NobodyCalls)
<1> USE DEF memory, database, counters, SlotRecords
<1>0. SlotRecords
  BY DEF TypeOK
<1> DEFINE Both == NobodyLocks /\ NobodyCalls
           Goal == NobodyLocks /\ ((\A s \in Slots : ~Calling(s)) => NobodyCalls)
<1>1. ASSUME UNCHANGED slot PROVE Both
  BY <1>1 DEF NobodyLocks, NobodyCalls, Holds
<1>2. ASSUME NEW s \in Slots, NEW j \in Jobs, Dequeue(s, j) PROVE Both
  BY <1>0, <1>2 DEF Dequeue, NobodyLocks, NobodyCalls, Holds, Working
<1>3. ASSUME NEW s \in Slots, Release(s) PROVE Both
  BY <1>0, <1>3, ConstantsAssumption
     DEF Release, Idle, NobodyLocks, NobodyCalls, Holds, Working
<1>4. ASSUME NEW s \in Slots, NEW class \in Classes, slot[s].pc \in Working, Blame(s, class)
      PROVE  Both
  BY <1>0, <1>4 DEF Blame, NobodyLocks, NobodyCalls, Holds, Working
<1>5. ASSUME NEW s \in Slots, NEW pc, Goto(s, pc), pc \notin {"locked", "generating"},
             pc \in Working => slot[s].pc \in Working
      PROVE  Both
  BY <1>0, <1>5 DEF Goto, NobodyLocks, NobodyCalls, Holds
<1>6. ASSUME NEW s \in Slots, SlotStep(s) \/ StatementFails(s) PROVE Goal
  <2>1. ~Locking(s)
    OBVIOUS
  <2>2. CASE RefuseRevoked(s) \/ MarkFailed(s)
    BY <1>3, <2>2 DEF RefuseRevoked, MarkFailed
  <2>3. CASE Check(s)
    BY <1>3, <1>5, <2>3 DEF Check, Working
  <2>4. CASE Lock(s)
    <3>1. Release(s)
      BY <2>1, <2>4 DEF Lock, Locking
    <3> QED BY <1>3, <3>1
  <2>5. CASE Generate(s)
    <3>1. CASE slot[s].job \in Plumbing
      BY <1>3, <2>5, <3>1 DEF Generate
    <3>2. CASE slot[s].job \notin Plumbing
      <4>1. NobodyLocks
        BY <1>0, <2>5, <3>2 DEF Generate, At, Goto, NobodyLocks, Holds, Working
      <4>2. Calling(s)
        BY <2>5, <3>2 DEF Calling
      <4> QED BY <4>1, <4>2
    <3> QED BY <3>1, <3>2
  <2>6. CASE Answer(s)
    BY <1>0, <2>6 DEF Answer, At, NobodyLocks, NobodyCalls, Holds, Working
  <2>7. CASE ProviderError(s) \/ Unparseable(s)
    BY <1>4, <2>7 DEF ProviderError, Unparseable, At, Working, Classes
  <2>8. CASE Persist(s)
    BY <1>3, <1>4, <2>8 DEF Persist, At, Working, Classes
  <2>9. CASE StatementFails(s)
    BY <1>3, <1>4, <2>9 DEF StatementFails, Working, Classes
  <2>10. CASE Reformat(s)
    <3>1. NobodyLocks
      BY <1>0, <2>10 DEF Reformat, At, NobodyLocks, Holds, Working
    <3>2. Calling(s)
      BY <2>10 DEF Calling
    <3> QED BY <3>1, <3>2
  <2> QED BY <1>6, <2>2, <2>3, <2>4, <2>5, <2>6, <2>7, <2>8, <2>9, <2>10 DEF SlotStep
<1>7. CASE Crash
  BY <1>7 DEF Crash, Idle, NobodyLocks, NobodyCalls, Holds, Working
<1>8. ASSUME \/ \E j \in Jobs : \/ Ingest(j) \/ Redeliver(j) \/ Publish(j) \/ RevokeKey(j)
                                \/ BackoffElapses(j) \/ GrowsStale(j)
             \/ Start \/ BootStep \/ SweepRetries
             \/ \E o \in Operators : OperatorStep(o)
      PROVE  UNCHANGED slot
  BY <1>8 DEF Ingest, Redeliver, Publish, RevokeKey, BackoffElapses, GrowsStale, Start, BootStep,
     ReclaimStaleLocks, ReclaimTransientFailures, DrainBatch, Sweep, SweepRetries,
     OperatorStep, RetryRead, CancelRead, Accept, RetryWrite, RetryPublish, CancelWrite
<1>9. CASE UNCHANGED vars
  BY <1>1, <1>9 DEF vars
<1>10. CASE Next
  <2>1. CASE UNCHANGED slot
    BY <1>1, <2>1
  <2>2. CASE ~UNCHANGED slot
    <3>1. \/ \E s \in Slots, j \in Jobs : Dequeue(s, j)
          \/ \E s \in Slots : SlotStep(s) \/ StatementFails(s)
          \/ Crash
      BY <1>8, <1>10, <2>2 DEF Next
    <3> QED BY <1>2, <1>6, <1>7, <3>1
  <2> QED BY <2>1, <2>2
<1> QED BY <1>9, <1>10

(* No slot of a dead process moves.                                         *)
LEMMA DownIsQuiet ==
  ASSUME [Next]_vars, phase = "down", ~Crash, \A s \in Slots : slot[s].pc = "idle"
  PROVE  UNCHANGED slot
<1> USE DEF memory, database, counters
<1>1. ASSUME NEW s \in Slots, SlotStep(s) \/ StatementFails(s) PROVE FALSE
  BY <1>1 DEF SlotStep, RefuseRevoked, Check, Lock, Generate, Reformat, Answer,
     Unparseable, ProviderError, Persist, MarkFailed, StatementFails, At
<1>2. ASSUME NEW s \in Slots, NEW j \in Jobs, Dequeue(s, j) PROVE FALSE
  BY <1>2 DEF Dequeue, Up
<1>3. ASSUME \/ \E j \in Jobs : \/ Ingest(j) \/ Redeliver(j) \/ Publish(j) \/ RevokeKey(j)
                                \/ BackoffElapses(j) \/ GrowsStale(j)
             \/ Start \/ BootStep \/ SweepRetries
             \/ \E o \in Operators : OperatorStep(o)
      PROVE  UNCHANGED slot
  BY <1>3 DEF Ingest, Redeliver, Publish, RevokeKey, BackoffElapses, GrowsStale, Start, BootStep,
     ReclaimStaleLocks, ReclaimTransientFailures, DrainBatch, Sweep, SweepRetries,
     OperatorStep, RetryRead, CancelRead, Accept, RetryWrite, RetryPublish, CancelWrite
<1> QED BY <1>1, <1>2, <1>3 DEF Next, vars

LEMMA LockingSole ==
  ASSUME SoleInv, TypeOK', NEW s \in Slots, Locking(s) PROVE SoleInv'
<1> DEFINE j == slot[s].job
<1> USE DEF memory, database, counters, SlotRecords
<1>0. /\ SlotRecords
      /\ row \in [Jobs -> Row] /\ j \in Jobs /\ row[j] \in Row
  BY DEF SoleInv, TypeOK, Locking, At
<1>1. /\ row'[j].status = "processing" /\ ~row'[j].stale /\ row[j].status = "queued"
      /\ \A i \in Jobs \ {j} : row'[i] = row[i]
      /\ UNCHANGED <<phase, retried>>
  BY <1>0, TransitionEffect, TransitionSource DEF Locking
<1>2. \A t \in Slots, i \in Jobs : Holds(t, i)' => Holds(t, i) \/ (t = s /\ i = j)
  BY <1>0 DEF Locking, Goto, Holds
<1>3. ASSUME NEW i \in Jobs PROVE Counted(i)'
  <2>1. CASE i = j
    <3>1. Holders(i)' \subseteq Holders(i) \union {s}
      BY <1>2 DEF Holders
    <3>2. ~HandedOut(i) /\ HandedOut(i)' /\ retried'[i] = retried[i]
      BY <1>1, <2>1 DEF HandedOut
    <3> QED BY <3>1, <3>2, CountMoves
  <2>2. CASE i # j
    <3>1. Holders(i)' \subseteq Holders(i)
      BY <1>2, <2>2 DEF Holders
    <3>2. (HandedOut(i) => HandedOut(i)') /\ retried'[i] = retried[i]
      BY <1>1, <2>2 DEF HandedOut
    <3> QED BY <3>1, <3>2, CountMoves
  <2> QED BY <2>1, <2>2
<1>4. HeldFresh'
  <2> SUFFICES ASSUME NEW t \in Slots, NEW i \in Jobs, Holds(t, i)',
                      phase' \in {"locks", "transient"}
               PROVE  ~row'[i].stale
    BY DEF HeldFresh
  <2>1. CASE i = j
    BY <1>1, <2>1
  <2>2. CASE i # j
    BY <1>1, <1>2, <2>2 DEF SoleInv, HeldFresh
  <2> QED BY <2>1, <2>2
<1>5. IdleWhenDown'
  BY <1>1 DEF SoleInv, IdleWhenDown, Locking, At
<1> QED BY <1>3, <1>4, <1>5 DEF SoleInv, HoldersCounted, Counted

(* Two slots hold the same row only if an operator retried its job, one     *)
(* more for each retry: whatever copies the drain, the sweep, redeliveries  *)
(* and retries put in memory and whenever the process dies.                 *)
THEOREM SoleInductive == Spec => []SoleInv
<1>1. Init => SoleInv
  <2> SUFFICES ASSUME Init PROVE HoldersCounted /\ HeldFresh /\ IdleWhenDown
    BY InitTyped DEF SoleInv
  <2>1. \A s \in Slots, j \in Jobs : ~Holds(s, j)
    BY DEF Init, Idle, Holds, Working
  <2>2. ASSUME NEW j \in Jobs PROVE Counted(j)
    <3>1. Cardinality(Holders(j)) = 0
      <4>1. Holders(j) = {}
        BY <2>1 DEF Holders
      <4> QED BY <4>1, FS_EmptySet
    <3> QED BY <3>1 DEF Init, Counted, Claim
  <2> QED BY <2>1, <2>2 DEF Init, HoldersCounted, Counted, HeldFresh, IdleWhenDown, Idle
<1>2. SoleInv /\ TypeOK' /\ [Next]_vars => SoleInv'
  <2> SUFFICES ASSUME SoleInv, TypeOK', [Next]_vars PROVE SoleInv'
    OBVIOUS
  <2>1. CASE \E s \in Slots : Locking(s)
    BY <2>1, LockingSole
  <2>2. CASE Crash
    <3>1. phase' = "down" /\ \A s \in Slots : slot'[s].pc = "idle"
      BY <2>2 DEF Crash, Idle
    <3>2. ASSUME NEW j \in Jobs PROVE Counted(j)'
      <4>1. Holders(j)' = {}
        BY <3>1 DEF Holders, Holds, Working
      <4>2. Cardinality(Holders(j)') = 0
        BY <4>1, FS_EmptySet
      <4>3. Claim(j)' \in {0, 1} /\ retried'[j] \in Nat
        BY DEF Claim, TypeOK
      <4> QED BY <4>2, <4>3 DEF Counted
    <3> QED BY <3>1, <3>2 DEF SoleInv, HoldersCounted, Counted, HeldFresh, IdleWhenDown
  <2>3. CASE ~Crash /\ \A s \in Slots : ~Locking(s)
    <3>1. \A s \in Slots, j \in Jobs : Holds(s, j)' => Holds(s, j)
      BY <2>3, SlotMovesOnly DEF SoleInv, NobodyLocks
    <3>2. /\ phase' \in {"locks", "transient"} => phase \in {"down", "locks", "transient"}
          /\ phase' = "down" => phase = "down"
      BY <2>3, PhaseMoves
    <3>3. phase' = "down" => \A s \in Slots : slot'[s].pc = "idle"
      BY <2>3, <3>2, DownIsQuiet DEF SoleInv, IdleWhenDown
    <3>4. ASSUME NEW j \in Jobs
          PROVE  /\ \/ retried'[j] = retried[j] /\ (HandedOut(j) => HandedOut(j)')
                    \/ retried'[j] = retried[j] /\ \E s \in Slots : Holds(s, j) /\ ~Holds(s, j)'
                    \/ row[j].stale /\ phase \in {"locks", "transient"}
                    \/ retried'[j] = retried[j] + 1
                 /\ row'[j].stale => row[j].stale \/ phase' \notin {"locks", "transient"}
      <4>1. CASE RowStep(j)
        BY <4>1, HandedOutKept DEF SoleInv, RowStep
      <4>2. CASE OperatorRowStep(j)
        <5>1. row[j] \in Row
          BY DEF SoleInv, TypeOK
        <5> QED BY <4>2, <5>1, OperatorEffect DEF OperatorRowStep, RetryStep, CancelStep, HandedOut
      <4> QED BY <4>1, <4>2, RowSteps DEF SoleInv
    <3> QED BY <3>1, <3>2, <3>3, <3>4, NoNewHolder
  <2> QED BY <2>1, <2>2, <2>3
<1> QED BY <1>1, <1>2, TypeCorrect, PTL DEF Spec, SoleInv

THEOREM OneWorkerPerJob == Spec => []SingleGenerator
<1>1. SoleInv => SingleGenerator
  <2> SUFFICES ASSUME SoleInv, NEW j \in Jobs PROVE Cardinality(Holders(j)) <= 1 + retried[j]
    BY DEF SingleGenerator
  <2>1. Holders(j) \in SUBSET Slots
    BY DEF Holders
  <2>2. Cardinality(Holders(j)) \in Nat
    BY <2>1, SlotsCounted
  <2>3. Claim(j) \in {0, 1} /\ retried[j] \in Nat
    BY DEF Claim, SoleInv, TypeOK
  <2>4. Cardinality(Holders(j)) + Claim(j) <= 1 + retried[j]
    BY DEF SoleInv, HoldersCounted
  <2> QED BY <2>2, <2>3, <2>4
<1> QED BY <1>1, SoleInductive, PTL

-----------------------------------------------------------------------------
(* Exactly one result per opening, written with the completion.             *)

LEMMA StatementKeepsCompleted ==
  ASSUME TypeOK, TypeOK', NEW j \in Jobs, RowStatement(j)
  PROVE  \A status \in {"completed", "cancelled"} : row'[j].status = status <=> row[j].status = status
<1>1. row[j] \in Row /\ row'[j] \in Row
  BY DEF TypeOK
<1>2. /\ StaleTransient(row[j]) /\ phase = "transient" /\ row'[j] = Revived(row[j])
           => StaleTransient(row[j]) /\ row'[j] = Revived(row[j])
      /\ StaleLock(row[j]) /\ phase = "locks" /\ row'[j] = Unlocked(row[j])
           => StaleLock(row[j]) /\ row'[j] = Unlocked(row[j])
      /\ FailingStatement(j) => \E class \in Classes : row'[j] = MarkedFailed(row[j], class)
  BY DEF FailingStatement
<1> QED BY <1>1, <1>2, CompletedKept DEF RowStatement

(* One result per opening, written with the completion, for any operators.  *)
THEOREM ResultsCorrect == Spec => []ResultsMatchStatus
<1>1. Init => ResultsMatchStatus
  BY DEF Init, ResultsMatchStatus, NoRow
<1>2. TypeOK /\ TypeOK' /\ ResultsMatchStatus /\ [Next]_vars => ResultsMatchStatus'
  <2> SUFFICES ASSUME TypeOK, TypeOK', ResultsMatchStatus, [Next]_vars, NEW j \in Jobs
               PROVE  /\ row'[j].status = "completed" => results'[j] > 0
                      /\ results'[j] + (IF row'[j].status \in {"completed", "cancelled"}
                                        THEN 0 ELSE 1) <= 1 + retried'[j]
    BY DEF ResultsMatchStatus
  <2>1. /\ row[j] \in Row /\ results[j] \in Nat /\ retried[j] \in Nat
        /\ row[j].status = "completed" => results[j] > 0
        /\ results[j] + (IF row[j].status \in {"completed", "cancelled"} THEN 0 ELSE 1)
             <= 1 + retried[j]
    BY DEF TypeOK, ResultsMatchStatus
  <2>2. CASE RowStatement(j) /\ results'[j] = results[j] /\ retried'[j] = retried[j]
    BY <2>1, <2>2, StatementKeepsCompleted
  <2>3. CASE CompletingStep(j) /\ results'[j] = results[j] + 1 /\ retried'[j] = retried[j]
    <3>1. row[j].status = "processing"
      BY <2>1, <2>3, TransitionSource DEF CompletingStep
    <3>2. row'[j].status = "completed"
      BY <2>1, <2>3, TransitionEffect DEF CompletingStep
    <3> QED BY <2>1, <2>3, <3>1, <3>2
  <2>4. CASE RetryStep(j) /\ results'[j] = results[j]
    <3>1. row'[j].status = "queued" /\ retried'[j] = retried[j] + 1
      BY <2>1, <2>4, OperatorEffect DEF RetryStep
    <3> QED BY <2>1, <2>4, <3>1
  <2>5. CASE CancelStep(j) /\ results'[j] = results[j]
    <3>1. row'[j].status = "cancelled" /\ retried'[j] = retried[j]
      BY <2>1, <2>5, OperatorEffect DEF CancelStep
    <3> QED BY <2>1, <2>5, <3>1
  <2> QED BY <2>2, <2>3, <2>4, <2>5, RowSteps DEF RowStep, OperatorRowStep
<1> QED BY <1>1, <1>2, TypeCorrect, PTL DEF Spec

-----------------------------------------------------------------------------
(* A settled job stays settled, but for the boot's revival of transient     *)
(* failures and the requests of operators.                                  *)
THEOREM TerminalFinal == Spec => TerminalIsFinal
<1>1. TypeOK /\ TypeOK' /\ [Next]_vars =>
        [\A j \in Jobs :
           row[j].status \in Terminal /\ row'[j].status # row[j].status
             => (row[j].failure = "transient" /\ phase = "transient") \/ Overridden(j)]_vars
  <2> SUFFICES ASSUME TypeOK, TypeOK', [Next]_vars, NEW j \in Jobs,
                      row[j].status \in Terminal, row'[j].status # row[j].status,
                      ~Overridden(j)
               PROVE  row[j].failure = "transient" /\ phase = "transient"
    OBVIOUS
  <2>1. row[j] \in Row
    BY DEF TypeOK
  <2>2. ~CompletingStep(j) /\ ~CanTransition(row[j], "processing") /\ ~StaleLock(row[j])
    BY <2>1, TransitionSource DEF CompletingStep, Terminal, StaleLock
  <2>3. RowStatement(j)
    BY <2>2, RowSteps DEF RowStep
  <2>4. ~FailingStatement(j)
    BY <2>1, MarkedFailedEffect DEF Terminal, FailingStatement
  <2>5. row'[j] \notin {Merged(row[j]), Claimed(row[j]), [row[j] EXCEPT !.nextAttempt = "due"],
                        [row[j] EXCEPT !.stale = TRUE]}
    BY <2>1, QuietEffect
  <2> QED BY <2>2, <2>3, <2>4, <2>5 DEF RowStatement, StaleTransient, Terminal
<1> QED BY <1>1, TypeCorrect, PTL DEF Spec, TerminalIsFinal

-----------------------------------------------------------------------------
(* An operator's request names a row that exists, and rows are never        *)
(* deleted.                                                                 *)

KnownRequests ==
  \A o \in Operators : request[o].job \in Jobs => row[request[o].job].status # "absent"

LEMMA PresentKept ==
  ASSUME TypeOK, [Next]_vars, NEW j \in Jobs, row'[j].status = "absent"
  PROVE  row[j].status = "absent"
<1>1. row[j] \in Row
  BY DEF TypeOK
<1>2. CASE RowStatement(j)
  <2>1. CASE row'[j] = row[j]
    BY <2>1
  <2>2. CASE row'[j] \in {Merged(row[j]), Claimed(row[j]), [row[j] EXCEPT !.nextAttempt = "due"],
                          [row[j] EXCEPT !.stale = TRUE]}
    BY <1>1, <2>2, QuietEffect
  <2>3. CASE row'[j] = Transition(row[j], "processing", "none", "none")
    BY <1>1, <2>3, TransitionEffect
  <2>4. CASE FailingStatement(j)
    BY <1>1, <2>4, MarkedFailedEffect DEF FailingStatement
  <2>5. CASE row'[j] \in {Unlocked(row[j]), Revived(row[j])}
    BY <1>1, <2>5, ReclaimEffect
  <2>6. CASE row'[j] = NewRow
    BY <2>6 DEF NewRow, NoRow
  <2> QED BY <1>2, <2>1, <2>2, <2>3, <2>4, <2>5, <2>6 DEF RowStatement
<1>3. CASE CompletingStep(j)
  BY <1>1, <1>3, TransitionEffect DEF CompletingStep
<1>4. CASE OperatorRowStep(j)
  BY <1>1, <1>4, OperatorEffect DEF OperatorRowStep, RetryStep, CancelStep
<1> QED BY <1>2, <1>3, <1>4, RowSteps DEF RowStep

LEMMA RequestsKnown == Spec => []KnownRequests
<1>1. Init => KnownRequests
  BY ConstantsAssumption DEF Init, KnownRequests, NoRequest
<1>2. TypeOK /\ KnownRequests /\ [Next]_vars => KnownRequests'
  <2> SUFFICES ASSUME TypeOK, KnownRequests, [Next]_vars,
                      NEW o \in Operators, request'[o].job \in Jobs
               PROVE  row'[request'[o].job].status # "absent"
    BY DEF KnownRequests
  <2> USE DEF memory, database, counters
  <2>0. request \in [Operators -> [pc: {"idle", "retry", "cancel", "publish"},
                                   job: Jobs \union {NoJob}, replayable: BOOLEAN]]
    BY DEF TypeOK
  <2>1. ASSUME request'[o].job = request[o].job PROVE row'[request'[o].job].status # "absent"
    BY <2>1, PresentKept DEF KnownRequests
  <2>2. ASSUME NEW p \in Operators, OperatorStep(p)
        PROVE  row'[request'[o].job].status # "absent"
    <3>1. ASSUME NEW j \in Jobs, NEW pc, Accept(p, j, pc), row[j].status # "absent"
          PROVE  row'[request'[o].job].status # "absent"
      <4>1. CASE o = p
        BY <2>0, <3>1, <4>1, PresentKept DEF Accept
      <4>2. CASE o # p
        BY <2>0, <2>1, <3>1, <4>2 DEF Accept
      <4> QED BY <4>1, <4>2
    <3>2. CASE RetryWrite(p) \/ RetryPublish(p) \/ CancelWrite(p)
      <4>1. request'[o].job \in {request[o].job, NoJob}
        BY <2>0, <3>2 DEF RetryWrite, RetryPublish, CancelWrite, NoRequest
      <4> QED BY <2>1, <4>1, ConstantsAssumption
    <3> QED BY <2>2, <3>1, <3>2 DEF OperatorStep, RetryRead, CancelRead
  <2>3. ASSUME Crash PROVE row'[request'[o].job].status # "absent"
    <3>1. request'[o].job \in {request[o].job, NoJob}
      BY <2>0, <2>3 DEF Crash, NoRequest
    <3> QED BY <2>1, <3>1, ConstantsAssumption
  <2>4. ASSUME \/ \E j \in Jobs : \/ Ingest(j) \/ Redeliver(j) \/ Publish(j) \/ RevokeKey(j)
                                  \/ BackoffElapses(j) \/ GrowsStale(j)
                                  \/ \E s \in Slots : Dequeue(s, j)
               \/ \E s \in Slots : SlotStep(s) \/ StatementFails(s)
               \/ Start \/ BootStep \/ SweepRetries \/ UNCHANGED vars
        PROVE  UNCHANGED request
    BY <2>4 DEF Ingest, Redeliver, Publish, RevokeKey, BackoffElapses, GrowsStale, Dequeue,
       SlotStep, RefuseRevoked, Check, Lock, Generate, Reformat, Answer, Unparseable,
       ProviderError, Persist, MarkFailed, StatementFails, Start, BootStep, ReclaimStaleLocks, ReclaimTransientFailures, DrainBatch,
       Sweep, SweepRetries, vars
  <2> QED BY <2>1, <2>2, <2>3, <2>4 DEF Next
<1> QED BY <1>1, <1>2, TypeCorrect, PTL DEF Spec

-----------------------------------------------------------------------------
(* The outbox implements JobLifecycle: every step accepts, completes, fails,*)
(* retries or cancels one job, reopens failed ones, or changes no job's     *)
(* state.                                                                   *)

LEMMA LifeKept ==
  ASSUME NEW r \in Row, NEW q,
         \/ q = r
         \/ q \in {Merged(r), Claimed(r), [r EXCEPT !.nextAttempt = "due"],
                   [r EXCEPT !.stale = TRUE]}
         \/ CanTransition(r, "processing") /\ q = Transition(r, "processing", "none", "none")
         \/ StaleLock(r) /\ q = Unlocked(r)
  PROVE  LifeOf(q) = LifeOf(r)
<1>1. CASE q = r
  BY <1>1
<1>2. CASE q \in {Merged(r), Claimed(r), [r EXCEPT !.nextAttempt = "due"], [r EXCEPT !.stale = TRUE]}
  BY <1>2, QuietEffect DEF LifeOf
<1>3. CASE CanTransition(r, "processing") /\ q = Transition(r, "processing", "none", "none")
  <2>1. r.status = "queued" /\ q.status = "processing"
    BY <1>3, TransitionSource, TransitionEffect
  <2> QED BY <2>1 DEF LifeOf
<1>4. CASE StaleLock(r) /\ q = Unlocked(r)
  <2>1. r.status = "processing" /\ q.status = "queued"
    BY <1>4, ReclaimEffect DEF StaleLock
  <2> QED BY <2>1 DEF LifeOf
<1> QED BY <1>1, <1>2, <1>3, <1>4

LEMMA MarkedFailedLife ==
  ASSUME NEW r \in Row, NEW class \in Classes
  PROVE  LET q == MarkedFailed(r, class)
         IN  LifeOf(q) = LifeOf(r) \/ (LifeOf(r) = "open" /\ LifeOf(q) = "failed")
<1> DEFINE q == MarkedFailed(r, class)
<1>1. \/ q = r
      \/ r.status \in {"queued", "processing"} /\ q.status \in {"queued", "failed"}
  BY MarkedFailedEffect
<1> HIDE DEF q
<1>2. LifeOf(q) = LifeOf(r) \/ (LifeOf(r) = "open" /\ LifeOf(q) = "failed")
  BY <1>1 DEF LifeOf
<1> QED BY <1>2 DEF q

(* A step that changes nobody's life is a stutter; one that fails one job   *)
(* or none is a Fail or a stutter.                                          *)
LEMMA LifeStutters ==
  ASSUME UNCHANGED <<results, retried>>, \A j \in Jobs : LifeOf(row'[j]) = LifeOf(row[j])
  PROVE  UNCHANGED Lifecycle!lifecycleVars
BY DEF Lifecycle!lifecycleVars

LEMMA LifeFails ==
  ASSUME TypeOK, UNCHANGED <<results, retried>>, NEW j \in Jobs, NEW class \in Classes,
         row' = [row EXCEPT ![j] = MarkedFailed(row[j], class)]
  PROVE  [Lifecycle!Next]_Lifecycle!lifecycleVars
<1>1. row \in [Jobs -> Row] /\ row[j] \in Row
  BY DEF TypeOK
<1>2. row'[j] = MarkedFailed(row[j], class) /\ \A i \in Jobs \ {j} : row'[i] = row[i]
  BY <1>1
<1>3. CASE LifeOf(row'[j]) = LifeOf(row[j])
  <2>1. \A i \in Jobs : LifeOf(row'[i]) = LifeOf(row[i])
    BY <1>2, <1>3
  <2> QED BY <2>1, LifeStutters
<1>4. CASE LifeOf(row[j]) = "open" /\ LifeOf(row'[j]) = "failed"
  <2>1. \A i \in Jobs : LifeOf(row'[i]) = IF i = j THEN "failed" ELSE LifeOf(row[i])
    BY <1>2, <1>4
  <2>2. Lifecycle!Fail(j)
    BY <1>4, <2>1 DEF Lifecycle!Fail
  <2> QED BY <2>2 DEF Lifecycle!Next
<1> QED BY <1>1, <1>2, <1>3, <1>4, MarkedFailedLife

LEMMA LifeStep ==
  ASSUME TypeOK, KnownRequests, Next PROVE [Lifecycle!Next]_Lifecycle!lifecycleVars
<1> USE DEF memory, database, counters
<1>0. /\ row \in [Jobs -> Row]
      /\ \A s \in Slots : slot[s].error \in Classes
      /\ \A s \in Slots : slot[s].pc # "idle" => slot[s].job \in Jobs
  BY DEF TypeOK
<1>1. ASSUME NEW j \in Jobs, Ingest(j) PROVE Lifecycle!Next
  <2>1. LifeOf(row[j]) = "absent" /\ LifeOf(NewRow) = "open"
    BY <1>1 DEF Ingest, LifeOf, NewRow, NoRow
  <2>2. row'[j] = NewRow /\ \A i \in Jobs \ {j} : row'[i] = row[i]
    BY <1>0, <1>1 DEF Ingest
  <2>3. \A i \in Jobs : LifeOf(row'[i]) = IF i = j THEN "open" ELSE LifeOf(row[i])
    BY <2>1, <2>2
  <2>4. UNCHANGED <<results, retried>>
    BY <1>1 DEF Ingest
  <2>5. Lifecycle!Accept(j)
    BY <2>1, <2>3, <2>4 DEF Lifecycle!Accept
  <2> QED BY <2>5 DEF Lifecycle!Next
<1>2. ASSUME NEW s \in Slots, RefuseRevoked(s) \/ Unparseable(s) \/ MarkFailed(s)
      PROVE  [Lifecycle!Next]_Lifecycle!lifecycleVars
  <2>1. slot[s].job \in Jobs
    BY <1>0, <1>2 DEF RefuseRevoked, Unparseable, MarkFailed, At
  <2>2. CASE RefuseRevoked(s) \/ Unparseable(s)
    BY <2>1, <2>2, LifeFails DEF RefuseRevoked, Unparseable, Classes
  <2>3. CASE MarkFailed(s)
    BY <1>0, <2>1, <2>3, LifeFails DEF MarkFailed
  <2> QED BY <1>2, <2>2, <2>3
<1>3. ASSUME NEW s \in Slots, Persist(s) PROVE [Lifecycle!Next]_Lifecycle!lifecycleVars
  <2> DEFINE j == slot[s].job
  <2>1. CASE UNCHANGED <<row, results, retried>>
    BY <2>1, LifeStutters
  <2>3. UNCHANGED retried
    BY <1>3 DEF Persist
  <2>2. CASE /\ CanTransition(row[j], "completed")
             /\ row' = [row EXCEPT ![j] = Transition(row[j], "completed", "none", "none")]
             /\ results' = [results EXCEPT ![j] = @ + 1]
    <3>1. j \in Jobs /\ row[j] \in Row
      BY <1>0, <1>3 DEF Persist, At
    <3>2. row'[j].status = "completed" /\ row[j].status = "processing"
      BY <1>0, <2>2, <3>1, TransitionSource, TransitionEffect
    <3>3. LifeOf(row[j]) = "open" /\ LifeOf(row'[j]) = "done"
      BY <3>2 DEF LifeOf
    <3>4. \A i \in Jobs \ {j} : row'[i] = row[i]
      BY <1>0, <2>2
    <3>5. Lifecycle!Complete(j)
      BY <2>2, <2>3, <3>1, <3>3, <3>4 DEF Lifecycle!Complete
    <3> QED BY <3>1, <3>5 DEF Lifecycle!Next
  <2> QED BY <1>3, <2>1, <2>2, <2>3 DEF Persist
<1>4. ASSUME ReclaimTransientFailures PROVE Lifecycle!Next
  <2> DEFINE S == {j \in Jobs : row'[j] # row[j]}
  <2>1. UNCHANGED <<results, retried>> /\ \A j \in S : StaleTransient(row[j]) /\ row'[j] = Revived(row[j])
    BY <1>4 DEF ReclaimTransientFailures, Sweep
  <2>2. \A j \in S : row[j].status = "failed" /\ row'[j].status = "queued"
    <3> SUFFICES ASSUME NEW j \in S PROVE row[j].status = "failed" /\ row'[j].status = "queued"
      OBVIOUS
    <3>1. row[j] \in Row
      BY <1>0
    <3> QED BY <2>1, <3>1, ReclaimEffect DEF StaleTransient
  <2>3. \A j \in S : LifeOf(row[j]) = "failed" /\ LifeOf(row'[j]) = "open"
    BY <2>2 DEF LifeOf
  <2>4. \A j \in Jobs : LifeOf(row'[j]) = IF j \in S THEN "open" ELSE LifeOf(row[j])
    BY <2>3
  <2> HIDE DEF S
  <2>5. S \in SUBSET Jobs
    BY DEF S
  <2>6. Lifecycle!Reopen(S)
    BY <2>1, <2>3, <2>4, <2>5 DEF Lifecycle!Reopen
  <2> QED BY <2>5, <2>6 DEF Lifecycle!Next
<1>5. ASSUME UNCHANGED <<row, results, retried>> PROVE UNCHANGED Lifecycle!lifecycleVars
  BY <1>5, LifeStutters
<1>6. ASSUME NEW j \in Jobs, Redeliver(j) \/ BackoffElapses(j) \/ GrowsStale(j)
      PROVE  UNCHANGED Lifecycle!lifecycleVars
  <2>1. \A i \in Jobs : row'[i] = row[i] \/ row'[i] \in {Merged(row[i]), Claimed(row[i]),
           [row[i] EXCEPT !.nextAttempt = "due"], [row[i] EXCEPT !.stale = TRUE]}
    BY <1>0, <1>6 DEF Redeliver, BackoffElapses, GrowsStale
  <2> QED BY <1>0, <1>6, <2>1, LifeKept, LifeStutters DEF Redeliver, BackoffElapses, GrowsStale
<1>7. ASSUME NEW s \in Slots, Lock(s) PROVE UNCHANGED Lifecycle!lifecycleVars
  <2>1. \A i \in Jobs : row'[i] = row[i] \/ (CanTransition(row[i], "processing")
           /\ row'[i] = Transition(row[i], "processing", "none", "none"))
    BY <1>0, <1>7 DEF Lock
  <2> QED BY <1>0, <1>7, <2>1, LifeKept, LifeStutters DEF Lock
<1>8. ASSUME ReclaimStaleLocks \/ SweepRetries PROVE UNCHANGED Lifecycle!lifecycleVars
  <2>1. \A i \in Jobs : row'[i] = row[i] \/ row'[i] = Claimed(row[i])
                        \/ (StaleLock(row[i]) /\ row'[i] = Unlocked(row[i]))
    BY <1>8 DEF ReclaimStaleLocks, SweepRetries, Sweep
  <2> QED BY <1>0, <1>8, <2>1, LifeKept, LifeStutters DEF ReclaimStaleLocks, SweepRetries, Sweep
<1>9. ASSUME \/ \E j \in Jobs : \/ Publish(j) \/ RevokeKey(j)
                               \/ \E s \in Slots : Dequeue(s, j)
             \/ \E t \in Slots : \/ Check(t) \/ Generate(t) \/ Reformat(t) \/ Answer(t)
                                \/ ProviderError(t) \/ StatementFails(t)
             \/ Crash \/ Start \/ DrainBatch
             \/ \E o \in Operators :
                  RetryPublish(o) \/ \E j \in Jobs : RetryRead(o, j) \/ CancelRead(o, j)
      PROVE  UNCHANGED <<row, results, retried>>
  BY <1>9 DEF Publish, RevokeKey, Dequeue, Check, Generate, Reformat, Answer,
     ProviderError, StatementFails, Crash, Start, DrainBatch, RetryPublish, RetryRead, CancelRead, Accept
<1>10. ASSUME NEW o \in Operators, RetryWrite(o) \/ CancelWrite(o) PROVE Lifecycle!Next
  <2> DEFINE j == request[o].job
  <2>1. j \in Jobs /\ row[j] \in Row /\ row[j].status # "absent"
    <3>1. request[o].pc # "idle" => j \in Jobs
      BY DEF TypeOK
    <3>2. j \in Jobs
      BY <1>10, <3>1 DEF RetryWrite, CancelWrite
    <3> QED BY <1>0, <3>2 DEF KnownRequests
  <2>2. LifeOf(row[j]) # "absent"
    BY <2>1 DEF LifeOf
  <2>3. \A i \in Jobs \ {j} : row'[i] = row[i]
    BY <1>0, <1>10 DEF RetryWrite, CancelWrite
  <2>4. ASSUME RetryWrite(o) PROVE Lifecycle!Retry(j)
    <3>1. row'[j].status = "queued"
      <4>1. row'[j] = ResetByOperator(row[j], request[o].replayable)
            /\ request[o].replayable \in BOOLEAN
        BY <1>0, <2>1, <2>4 DEF RetryWrite, TypeOK
      <4> QED BY <2>1, <4>1, OperatorEffect
    <3>2. LifeOf(row'[j]) = "open"
      BY <3>1 DEF LifeOf
    <3>3. retried' = [retried EXCEPT ![j] = @ + 1] /\ UNCHANGED results
      BY <2>4 DEF RetryWrite
    <3>4. \A i \in Jobs : LifeOf(row'[i]) = IF i = j THEN "open" ELSE LifeOf(row[i])
      BY <2>3, <3>2
    <3> QED BY <2>1, <2>2, <3>3, <3>4 DEF Lifecycle!Retry
  <2>5. ASSUME CancelWrite(o) PROVE Lifecycle!Cancel(j)
    <3>1. row'[j].status = "cancelled"
      <4>1. row'[j] = CancelledByOperator(row[j])
        BY <1>0, <2>1, <2>5 DEF CancelWrite
      <4> QED BY <2>1, <4>1, OperatorEffect
    <3>2. LifeOf(row'[j]) = "cancelled"
      BY <3>1 DEF LifeOf
    <3>3. UNCHANGED <<results, retried>>
      BY <2>5 DEF CancelWrite
    <3>4. \A i \in Jobs : LifeOf(row'[i]) = IF i = j THEN "cancelled" ELSE LifeOf(row[i])
      BY <2>3, <3>2
    <3> QED BY <2>1, <2>2, <3>3, <3>4 DEF Lifecycle!Cancel
  <2> QED BY <1>10, <2>1, <2>4, <2>5 DEF Lifecycle!Next
<1> QED
  BY <1>1, <1>2, <1>3, <1>4, <1>5, <1>6, <1>7, <1>8, <1>9, <1>10
     DEF Next, SlotStep, BootStep, OperatorStep

(* Every behaviour of the outbox is one of JobLifecycle, for any operators. *)
THEOREM OutboxImplementsLifecycle == Spec => ImplementsLifecycle
<1>1. Init => Lifecycle!Init
  <2> SUFFICES ASSUME Init PROVE Lifecycle!Init
    OBVIOUS
  <2>1. LifeOf(NoRow) = "absent"
    BY DEF LifeOf, NoRow
  <2> QED BY <2>1 DEF Init, Lifecycle!Init
<1>2. TypeOK /\ KnownRequests /\ [Next]_vars => [Lifecycle!Next]_Lifecycle!lifecycleVars
  <2> SUFFICES ASSUME TypeOK, KnownRequests, [Next]_vars
               PROVE  [Lifecycle!Next]_Lifecycle!lifecycleVars
    OBVIOUS
  <2>1. CASE UNCHANGED vars
    BY <2>1, LifeStutters DEF vars, database, counters
  <2>2. CASE Next
    BY <2>2, LifeStep
  <2> QED BY <2>1, <2>2
<1> QED BY <1>1, <1>2, TypeCorrect, RequestsKnown, PTL DEF Spec, ImplementsLifecycle, Lifecycle!Spec

-----------------------------------------------------------------------------
(* Provider calls per job and process lifetime.  Every attempt of the row   *)
(* and every operator's retry is worth one call and the re-prompts allowed, *)
(* and pays for the calls made and for those its slot may still make; an    *)
(* attempt is given back only by a revival, which a boot makes once, of     *)
(* jobs that an earlier process had given up.                               *)

Prompts   == 0..ReformatRetries
Worth(n)  == n * (1 + ReformatRetries)
Earlier   == MaxAttempts * crashes    \* the attempts all earlier processes may have made
Budget(j) == Earlier + retried[j]     \* and those the operators have bought
Paid(j)   == Budget(j) + row[j].attempts
(* The calls that slots may still make for a job, one by one.               *)
Pending(j) ==
  {t \in Slots \X Prompts :
     /\ slot[t[1]].job = j
     /\ \/ slot[t[1]].pc = "locked"
        \/ slot[t[1]].pc = "generating" /\ t[2] > slot[t[1]].prompts}

CallsPaid ==
  /\ \A j \in Jobs : row[j].status = "absent" => row[j].attempts = 0
  /\ \A j \in Jobs : calls[j] + Cardinality(Pending(j)) <= Worth(Paid(j))
  /\ phase = "down" => \A j \in Jobs : calls[j] <= Worth(Budget(j))
  /\ phase \in {"locks", "transient"} =>
       \A j \in Jobs : StaleTransient(row[j]) => calls[j] <= Worth(Budget(j))

LEMMA EarlierGrows ==
  ASSUME TypeOK
  PROVE  /\ Earlier \in Nat /\ MaxAttempts \in Nat
         /\ crashes' = crashes + 1 => Earlier' = Earlier + MaxAttempts
         /\ crashes' = crashes => Earlier' = Earlier
<1>1. MaxAttempts \in Nat /\ crashes \in Nat
  BY MaxAttemptsAssumption, ConstantsAssumption DEF TypeOK
<1>2. \A m, c \in Nat : m * c \in Nat /\ m * (c + 1) = m * c + m
  OBVIOUS
<1> QED BY <1>1, <1>2 DEF Earlier

(* More attempts are worth more calls.                                      *)
LEMMA WorthGrows ==
  /\ Worth(0) = 0
  /\ \A n \in Nat : Worth(n) \in Nat
  /\ \A m, n \in Nat : /\ m <= n => Worth(m) <= Worth(n)
                       /\ n = m + 1 => Worth(n) = Worth(m) + 1 + ReformatRetries
<1>1. ReformatRetries \in Nat
  BY ConstantsAssumption
<1>2. \A k \in Nat : 0 * k = 0
  OBVIOUS
<1>3. \A n, k \in Nat : n * k \in Nat /\ (n + 1) * k = n * k + k
  OBVIOUS
<1>4. ASSUME NEW m \in Nat, NEW n \in Nat, m <= n, NEW k \in Nat PROVE m * k <= n * k
  <2>1. PICK d \in Nat : n = m + d
    <3>1. n - m \in Nat /\ n = m + (n - m)
      BY <1>4
    <3> QED BY <3>1
  <2>2. (m + d) * k = m * k + d * k /\ d * k \in Nat /\ m * k \in Nat
    OBVIOUS
  <2> QED BY <2>1, <2>2
<1>5. 1 + ReformatRetries \in Nat
  BY <1>1
<1> QED BY <1>1, <1>2, <1>3, <1>4, <1>5 DEF Worth

LEMMA PendingCounted ==
  ASSUME TypeOK, NEW j \in Jobs, NEW t, NEW s
  PROVE  /\ Cardinality(Pending(j)) \in Nat /\ Cardinality(Pending(j)') \in Nat
         /\ Pending(j)' \subseteq Pending(j)
              => Cardinality(Pending(j)') <= Cardinality(Pending(j))
         /\ t \in Pending(j) /\ Pending(j)' \subseteq Pending(j) \ {t}
              => Cardinality(Pending(j)') + 1 <= Cardinality(Pending(j))
         /\ Pending(j)' \subseteq Pending(j) \union ({s} \X Prompts)
              => Cardinality(Pending(j)') <= Cardinality(Pending(j)) + 1 + ReformatRetries
         /\ Pending(j) = {} => Cardinality(Pending(j)) = 0
         /\ Pending(j)' = {} => Cardinality(Pending(j)') = 0
<1> DEFINE U == Slots \X Prompts
           M == {s} \X Prompts
<1>0. ReformatRetries \in Nat /\ IsFiniteSet(Slots)
  BY ConstantsAssumption
<1>1. IsFiniteSet(Prompts) /\ Cardinality(Prompts) = 1 + ReformatRetries
  BY <1>0, FS_Interval DEF Prompts
<1>2. IsFiniteSet(U)
  BY <1>0, <1>1, FS_Product
<1>3. IsFiniteSet({s}) /\ Cardinality({s}) = 1
  BY FS_Singleton
<1>4. IsFiniteSet(M) /\ Cardinality(M) = 1 + ReformatRetries
  <2>1. IsFiniteSet(M) /\ Cardinality(M) = Cardinality({s}) * Cardinality(Prompts)
    BY <1>1, <1>3, FS_Product
  <2> QED BY <1>0, <1>1, <1>3, <2>1
<1>5. Pending(j) \in SUBSET U /\ Pending(j)' \in SUBSET U
  BY DEF Pending, Prompts
<1>6. ASSUME Pending(j)' \subseteq Pending(j) \union M
      PROVE  Cardinality(Pending(j)') <= Cardinality(Pending(j)) + 1 + ReformatRetries
  <2>1. IsFiniteSet(Pending(j))
    BY <1>2, <1>5, FS_Subset
  <2>2. /\ IsFiniteSet(Pending(j) \union M)
        /\ Cardinality(Pending(j) \union M) =
             Cardinality(Pending(j)) + Cardinality(M) - Cardinality(Pending(j) \cap M)
    BY <1>4, <2>1, FS_Union
  <2>3. Cardinality(Pending(j)') <= Cardinality(Pending(j) \union M)
    BY <1>6, <2>2, FS_Subset
  <2>4. IsFiniteSet(Pending(j) \cap M)
    BY <2>1, FS_Subset
  <2>5. /\ Cardinality(Pending(j)) \in Nat /\ Cardinality(Pending(j)') \in Nat
        /\ Cardinality(Pending(j) \cap M) \in Nat
    BY <1>2, <1>5, <2>4, SubsetsCounted, FS_CardinalityType
  <2> QED BY <1>0, <1>4, <2>2, <2>3, <2>5
<1> HIDE DEF U
<1>7. /\ Cardinality(Pending(j)) \in Nat
      /\ Pending(j) = {} => Cardinality(Pending(j)) = 0
      /\ Pending(j)' \subseteq Pending(j) => Cardinality(Pending(j)') <= Cardinality(Pending(j))
      /\ t \in Pending(j) /\ Pending(j)' \subseteq Pending(j) \ {t}
           => Cardinality(Pending(j)') + 1 <= Cardinality(Pending(j))
  BY <1>2, <1>5, SubsetsCounted
<1>8. /\ Cardinality(Pending(j)') \in Nat
      /\ Pending(j)' = {} => Cardinality(Pending(j)') = 0
  BY <1>2, <1>5, SubsetsCounted
<1> QED BY <1>6, <1>7, <1>8

(* Who may still call holds the row, so a boot revives nobody's row.        *)
LEMMA StaleHasNoCaller ==
  ASSUME SoleInv, NEW j \in Jobs, row[j].stale, phase \in {"locks", "transient"}
  PROVE  Pending(j) = {}
BY DEF SoleInv, HeldFresh, Pending, Holds, Working

(* What one statement does to the attempts of a row.                        *)
LEMMA AttemptsMove ==
  ASSUME TypeOK, TypeOK', CallsPaid, NEW j \in Jobs, RowStep(j) \/ OperatorRowStep(j)
  PROVE  /\ row'[j].status = "absent" => row'[j].attempts = 0
         /\ \/ retried'[j] = retried[j] /\ row'[j].attempts >= row[j].attempts
            \/ retried'[j] = retried[j] + 1 /\ row'[j].attempts + 1 >= row[j].attempts
            \/ retried'[j] = retried[j] /\ StaleTransient(row[j]) /\ phase = "transient"
         /\ StaleTransient(row'[j]) => StaleTransient(row[j]) \/ phase' \notin {"locks", "transient"}
<1>1. row[j] \in Row /\ row'[j] \in Row /\ (row[j].status = "absent" => row[j].attempts = 0)
  BY DEF TypeOK, CallsPaid
<1>2. row[j].attempts \in Nat /\ row'[j].attempts \in Nat
  BY <1>1 DEF Row
<1>3. CASE OperatorRowStep(j)
  BY <1>1, <1>2, <1>3, OperatorEffect DEF OperatorRowStep, RetryStep, CancelStep, StaleTransient
<1>4. CASE RowStep(j)
  <2>0. retried'[j] = retried[j]
    BY <1>4 DEF RowStep
  <2>1. CASE /\ row'[j] = [row[j] EXCEPT !.stale = TRUE]
             /\ phase \notin {"locks", "transient"} /\ phase' = phase
    <3>1. row'[j].attempts = row[j].attempts /\ row'[j].status = row[j].status
      BY <1>1, <2>1 DEF Row
    <3> QED BY <1>1, <1>2, <2>0, <2>1, <3>1
  <2>2. CASE StaleTransient(row[j]) /\ phase = "transient" /\ row'[j] = Revived(row[j])
    BY <1>1, <2>0, <2>2, ReclaimEffect
  <2>3. CASE
          \/ row'[j] = row[j]
          \/ row[j].status = "absent" /\ row'[j] = NewRow
          \/ row'[j] \in {Merged(row[j]), Claimed(row[j]), [row[j] EXCEPT !.nextAttempt = "due"]}
          \/ CanTransition(row[j], "processing")
             /\ row'[j] = Transition(row[j], "processing", "none", "none")
          \/ CanTransition(row[j], "completed")
             /\ row'[j] = Transition(row[j], "completed", "none", "none")
          \/ \E class \in Classes : row'[j] = MarkedFailed(row[j], class)
          \/ StaleLock(row[j]) /\ row'[j] = Unlocked(row[j])
    <3>1. /\ row'[j].attempts >= row[j].attempts
          /\ StaleTransient(row'[j]) => StaleTransient(row[j])
          /\ row'[j].status = "absent" => row[j].status = "absent" /\ row'[j].attempts = row[j].attempts
      BY <1>1, <2>3, AttemptsKept
    <3> QED BY <1>1, <1>2, <2>0, <3>1
  <2>4. FailingStatement(j) => \E class \in Classes : row'[j] = MarkedFailed(row[j], class)
    BY DEF FailingStatement
  <2> QED BY <1>4, <2>1, <2>2, <2>3, <2>4 DEF RowStep, RowStatement, CompletingStep
<1> QED BY <1>3, <1>4

(* Steps that make no call, lock no row and kill no process.                *)
LEMMA CallsQuiet ==
  ASSUME SoleInv, TypeOK', CallsPaid, UNCHANGED <<calls, crashes>>,
         \A j \in Jobs : RowStep(j) \/ OperatorRowStep(j),
         NobodyCalls,
         phase' = "down" => phase = "down",
         phase' \in {"locks", "transient"} => phase \in {"down", "locks", "transient"}
  PROVE  CallsPaid'
<1>0. Earlier' = Earlier /\ Earlier \in Nat
  BY EarlierGrows DEF SoleInv
<1>1. ASSUME NEW j \in Jobs
      PROVE  /\ row'[j].status = "absent" => row'[j].attempts = 0
             /\ calls'[j] + Cardinality(Pending(j)') <= Worth(Paid(j)')
             /\ calls[j] <= Worth(Budget(j)) => calls'[j] <= Worth(Budget(j)')
             /\ StaleTransient(row'[j]) =>
                  StaleTransient(row[j]) \/ phase' \notin {"locks", "transient"}
  <2>1. /\ row'[j].status = "absent" => row'[j].attempts = 0
        /\ \/ retried'[j] = retried[j] /\ row'[j].attempts >= row[j].attempts
           \/ retried'[j] = retried[j] + 1 /\ row'[j].attempts + 1 >= row[j].attempts
           \/ retried'[j] = retried[j] /\ StaleTransient(row[j]) /\ phase = "transient"
        /\ StaleTransient(row'[j]) => StaleTransient(row[j]) \/ phase' \notin {"locks", "transient"}
    BY AttemptsMove DEF SoleInv
  <2>2. /\ calls'[j] = calls[j] /\ calls[j] \in Nat /\ retried[j] \in Nat
        /\ row[j].attempts \in Nat /\ row'[j].attempts \in Nat
    BY DEF SoleInv, TypeOK, Row
  <2>3. Pending(j)' \subseteq Pending(j)
    BY DEF NobodyCalls, Pending
  <2>4. /\ Cardinality(Pending(j)) \in Nat /\ Cardinality(Pending(j)') \in Nat
        /\ Cardinality(Pending(j)') <= Cardinality(Pending(j))
        /\ Pending(j)' = {} => Cardinality(Pending(j)') = 0
    BY <2>3, PendingCounted DEF SoleInv
  <2>5. /\ calls[j] + Cardinality(Pending(j)) <= Worth(Paid(j))
        /\ phase = "transient" /\ StaleTransient(row[j]) => calls[j] <= Worth(Budget(j))
    BY DEF CallsPaid
  <2>6. phase = "transient" /\ StaleTransient(row[j]) => Pending(j)' = {}
    BY <2>3, StaleHasNoCaller DEF StaleTransient
  <2>7. Budget(j) = Earlier + retried[j] /\ Budget(j)' = Earlier + retried'[j]
    BY <1>0 DEF Budget
  <2>8. Budget(j) \in Nat /\ Budget(j)' \in Nat /\ Budget(j) <= Budget(j)'
    BY <1>0, <2>1, <2>2, <2>7
  <2>9. calls[j] <= Worth(Budget(j)) => calls'[j] <= Worth(Budget(j)')
    <3>1. Worth(Budget(j)) <= Worth(Budget(j)') /\ Worth(Budget(j)) \in Nat /\ Worth(Budget(j)') \in Nat
      BY <2>8, WorthGrows
    <3> QED BY <2>2, <3>1
  <2>10. calls'[j] + Cardinality(Pending(j)') <= Worth(Paid(j)')
    <3>0. /\ Paid(j) = Budget(j) + row[j].attempts /\ Paid(j)' = Budget(j)' + row'[j].attempts
          /\ Paid(j) \in Nat /\ Paid(j)' \in Nat /\ Budget(j) <= Paid(j)'
      BY <2>2, <2>8 DEF Paid
    <3>1. CASE Paid(j) <= Paid(j)'
      <4>1. /\ Worth(Paid(j)) <= Worth(Paid(j)')
            /\ Worth(Paid(j)) \in Nat
            /\ Worth(Paid(j)') \in Nat
        BY <3>0, <3>1, WorthGrows
      <4> QED BY <2>2, <2>4, <2>5, <4>1
    <3>2. CASE StaleTransient(row[j]) /\ phase = "transient"
      <4>1. calls[j] <= Worth(Budget(j)) /\ Cardinality(Pending(j)') = 0
        BY <2>4, <2>5, <2>6, <3>2
      <4>2. /\ Worth(Budget(j)) <= Worth(Paid(j)')
            /\ Worth(Budget(j)) \in Nat /\ Worth(Paid(j)') \in Nat
        BY <2>8, <3>0, WorthGrows
      <4> QED BY <2>2, <4>1, <4>2
    <3> QED BY <1>0, <2>1, <2>2, <2>7, <3>0, <3>1, <3>2
  <2> QED BY <2>1, <2>9, <2>10
<1>2. phase' = "down" => \A j \in Jobs : calls'[j] <= Worth(Budget(j)')
  BY <1>1 DEF CallsPaid
<1>3. phase' \in {"locks", "transient"} =>
        \A j \in Jobs : StaleTransient(row'[j]) => calls'[j] <= Worth(Budget(j)')
  BY <1>1 DEF CallsPaid
<1> QED BY <1>1, <1>2, <1>3 DEF CallsPaid

(* A lock pays one attempt for the slot that will call.                     *)
LEMMA CallsLocking ==
  ASSUME SoleInv, TypeOK', CallsPaid, NEW s \in Slots, Locking(s) PROVE CallsPaid'
<1> DEFINE j == slot[s].job
<1> USE DEF counters, SlotRecords
<1>0. /\ SlotRecords
      /\ row \in [Jobs -> Row] /\ j \in Jobs /\ row[j] \in Row
      /\ calls \in [Jobs -> Nat] /\ retried \in [Jobs -> Nat]
      /\ Earlier \in Nat /\ Earlier' = Earlier
  BY EarlierGrows DEF SoleInv, TypeOK, Locking, At
<1>1. /\ row'[j].status = "processing" /\ row'[j].attempts = row[j].attempts + 1
      /\ \A i \in Jobs \ {j} : row'[i] = row[i]
      /\ UNCHANGED <<phase, retried, calls>> /\ phase # "down"
  BY <1>0, TransitionEffect DEF SoleInv, IdleWhenDown, Locking, At
<1>2. ASSUME NEW i \in Jobs
      PROVE  /\ row'[i].status = "absent" => row'[i].attempts = 0
             /\ calls'[i] + Cardinality(Pending(i)') <= Worth(Paid(i)')
  <2>1. /\ calls[i] + Cardinality(Pending(i)) <= Worth(Paid(i))
        /\ row[i].status = "absent" => row[i].attempts = 0
    BY DEF CallsPaid
  <2>2. Budget(i)' = Budget(i) /\ Budget(i) \in Nat
    BY <1>0, <1>1 DEF Budget
  <2>3. row[i].attempts \in Nat /\ calls[i] \in Nat
    BY <1>0 DEF Row
  <2>4. CASE i = j
    <3>1. Pending(i)' \subseteq Pending(i) \union ({s} \X Prompts)
      BY <1>0 DEF Pending, Prompts, Locking, Goto
    <3>2. /\ Cardinality(Pending(i)) \in Nat /\ Cardinality(Pending(i)') \in Nat
          /\ Cardinality(Pending(i)') <= Cardinality(Pending(i)) + 1 + ReformatRetries
      BY <3>1, PendingCounted DEF SoleInv
    <3>3. Paid(i)' = Paid(i) + 1 /\ Paid(i) \in Nat /\ Paid(i)' \in Nat
      BY <1>1, <2>2, <2>3, <2>4 DEF Paid
    <3>4. /\ Worth(Paid(i)')
               = Worth(Paid(i)) + 1 + ReformatRetries
          /\ Worth(Paid(i)) \in Nat
      BY <3>3, WorthGrows
    <3>5. calls'[i] = calls[i] /\ ReformatRetries \in Nat
      BY <1>1, ConstantsAssumption
    <3> QED BY <1>1, <2>1, <2>3, <3>2, <3>4, <3>5
  <2>5. CASE i # j
    <3>1. Pending(i)' \subseteq Pending(i)
      BY <1>0, <2>5 DEF Pending, Locking, Goto
    <3>2. /\ Cardinality(Pending(i)) \in Nat /\ Cardinality(Pending(i)') \in Nat
          /\ Cardinality(Pending(i)') <= Cardinality(Pending(i))
      BY <3>1, PendingCounted DEF SoleInv
    <3>3. row'[i] = row[i] /\ calls'[i] = calls[i]
      BY <1>1, <2>5
    <3>4. Paid(i)' = Paid(i) /\ Paid(i) \in Nat
      BY <2>2, <2>3, <3>3 DEF Paid
    <3>5. Worth(Paid(i)) \in Nat
      BY <3>4, WorthGrows
    <3> QED BY <2>1, <2>3, <3>2, <3>3, <3>4, <3>5
  <2> QED BY <2>4, <2>5
<1>3. ASSUME NEW i \in Jobs, StaleTransient(row'[i]), phase' \in {"locks", "transient"}
      PROVE  calls'[i] <= Worth(Budget(i)')
  <2>1. row'[i] = row[i]
    BY <1>1, <1>3 DEF StaleTransient
  <2>2. calls[i] <= Worth(Budget(i))
    BY <1>1, <1>3, <2>1 DEF CallsPaid
  <2>3. Budget(i)' = Budget(i)
    BY <1>0, <1>1 DEF Budget
  <2> QED BY <1>1, <2>2, <2>3
<1> QED BY <1>1, <1>2, <1>3 DEF CallsPaid

(* The call itself: the slot that might make it has made it.                *)
LEMMA CallsCalling ==
  ASSUME SoleInv, TypeOK', CallsPaid, NEW s \in Slots, Calling(s)
  PROVE  CallsPaid'
<1> DEFINE j == slot[s].job
           t == <<s, IF slot[s].pc = "locked" THEN 0 ELSE slot[s].prompts + 1>>
<1> USE DEF counters, database, SlotRecords
<1>0. /\ SlotRecords
      /\ row \in [Jobs -> Row] /\ j \in Jobs
      /\ calls \in [Jobs -> Nat] /\ retried \in [Jobs -> Nat]
      /\ Earlier \in Nat /\ Earlier' = Earlier /\ ReformatRetries \in Nat
  BY EarlierGrows, ConstantsAssumption DEF SoleInv, TypeOK, Calling, Generate, Reformat, At
<1>1. /\ calls'[j] = calls[j] + 1 /\ \A i \in Jobs \ {j} : calls'[i] = calls[i]
      /\ UNCHANGED <<row, phase, retried>> /\ phase # "down"
  BY <1>0 DEF SoleInv, IdleWhenDown, Calling, Generate, Reformat, At
<1>2. t \in Pending(j) /\ \A i \in Jobs : Pending(i)' \subseteq Pending(i) \ {t}
  <2>1. CASE Generate(s) /\ slot[s].job \notin Plumbing
    <3>1. slot[s].pc = "locked" /\ slot' = [slot EXCEPT ![s].pc = "generating"]
      BY <2>1 DEF Generate, At, Goto
    <3> QED BY <1>0, <3>1 DEF Pending, Prompts
  <2>2. CASE Reformat(s)
    <3>1. /\ slot[s].pc = "generating" /\ slot[s].prompts < ReformatRetries
          /\ slot' = [slot EXCEPT ![s].prompts = slot[s].prompts + 1]
      BY <1>0, <2>2 DEF Reformat, At
    <3> QED BY <1>0, <3>1 DEF Pending, Prompts
  <2> QED BY <2>1, <2>2 DEF Calling
<1> HIDE DEF t
<1>3. ASSUME NEW i \in Jobs
      PROVE  calls'[i] + Cardinality(Pending(i)') <= Worth(Paid(i)')
  <2>1. calls[i] + Cardinality(Pending(i)) <= Worth(Paid(i))
    BY DEF CallsPaid
  <2>2. Budget(i)' = Budget(i) /\ Budget(i) \in Nat
    BY <1>0, <1>1 DEF Budget
  <2>3. row[i].attempts \in Nat /\ calls[i] \in Nat
    BY <1>0 DEF Row
  <2>4. Pending(i)' \subseteq Pending(i) \ {t} /\ Pending(i)' \subseteq Pending(i)
    BY <1>2
  <2>5. /\ Cardinality(Pending(i)) \in Nat /\ Cardinality(Pending(i)') \in Nat
        /\ Cardinality(Pending(i)') <= Cardinality(Pending(i))
        /\ t \in Pending(i) => Cardinality(Pending(i)') + 1 <= Cardinality(Pending(i))
    BY <2>4, PendingCounted DEF SoleInv
  <2>8. Paid(i)' = Paid(i) /\ Paid(i) \in Nat
    BY <1>1, <2>2, <2>3 DEF Paid
  <2>6. Worth(Paid(i)) \in Nat
    BY <2>8, WorthGrows
  <2>7. calls'[i] + Cardinality(Pending(i)') <= calls[i] + Cardinality(Pending(i))
    BY <1>1, <1>2, <2>3, <2>5
  <2> QED BY <1>0, <1>1, <2>1, <2>3, <2>5, <2>6, <2>7, <2>8
<1>4. ASSUME NEW i \in Jobs, StaleTransient(row'[i]), phase' \in {"locks", "transient"}
      PROVE  calls'[i] <= Worth(Budget(i)')
  <2>1. StaleTransient(row[i]) /\ phase \in {"locks", "transient"}
    BY <1>1, <1>4
  <2>2. i # j
    BY <1>2, <2>1, StaleHasNoCaller DEF StaleTransient
  <2>3. calls[i] <= Worth(Budget(i))
    BY <2>1 DEF CallsPaid
  <2>4. Budget(i)' = Budget(i)
    BY <1>0, <1>1 DEF Budget
  <2> QED BY <1>1, <2>2, <2>3, <2>4
<1> QED BY <1>1, <1>3, <1>4 DEF CallsPaid

(* A crash turns the attempts of this process into calls of an earlier one. *)
LEMMA CallsCrash ==
  ASSUME SoleInv, TypeOK', CallsPaid, Crash PROVE CallsPaid'
<1> USE DEF counters, database
<1>1. /\ Earlier' = Earlier + MaxAttempts /\ MaxAttempts \in Nat /\ Earlier \in Nat
      /\ UNCHANGED <<row, calls, retried>> /\ phase' = "down"
      /\ \A s \in Slots : slot'[s].pc = "idle"
  BY EarlierGrows DEF SoleInv, Crash, Idle
<1>2. ASSUME NEW j \in Jobs
      PROVE  /\ row'[j].status = "absent" => row'[j].attempts = 0
             /\ calls'[j] <= Worth(Budget(j)')
             /\ calls'[j] + Cardinality(Pending(j)') <= Worth(Paid(j)')
  <2>1. /\ row[j].attempts \in 0..MaxAttempts /\ calls[j] \in Nat /\ retried[j] \in Nat
        /\ calls[j] + Cardinality(Pending(j)) <= Worth(Paid(j))
        /\ row[j].status = "absent" => row[j].attempts = 0
    BY DEF SoleInv, TypeOK, Row, CallsPaid
  <2>2. Budget(j) = Earlier + retried[j] /\ Budget(j)' = Earlier + MaxAttempts + retried[j]
    BY <1>1 DEF Budget
  <2>3. Pending(j)' = {}
    BY <1>1 DEF Pending
  <2>4. Cardinality(Pending(j)') = 0 /\ Cardinality(Pending(j)) \in Nat
    BY <2>3, PendingCounted DEF SoleInv
  <2>5. /\ Paid(j) <= Budget(j)' /\ Budget(j)' <= Paid(j)'
        /\ Paid(j) \in Nat /\ Budget(j)' \in Nat /\ Paid(j)' \in Nat
    BY <1>1, <2>1, <2>2 DEF Paid
  <2>7. /\ Worth(Paid(j)) <= Worth(Budget(j)')
        /\ Worth(Budget(j)') <= Worth(Paid(j)')
        /\ Worth(Paid(j)) \in Nat /\ Worth(Budget(j)') \in Nat
        /\ Worth(Paid(j)') \in Nat
    BY <2>5, WorthGrows
  <2> QED BY <1>1, <2>1, <2>4, <2>7
<1> QED BY <1>1, <1>2 DEF CallsPaid

LEMMA CallsStep ==
  ASSUME SoleInv, TypeOK', CallsPaid, [Next]_vars PROVE CallsPaid'
<1> USE DEF memory, database, counters
<1>1. CASE Crash
  BY <1>1, CallsCrash
<1>2. CASE \E s \in Slots : Locking(s)
  BY <1>2, CallsLocking
<1>3. CASE \E s \in Slots : Calling(s)
  BY <1>3, CallsCalling
<1>4. CASE ~Crash /\ \A s \in Slots : ~Locking(s) /\ ~Calling(s)
  <2>1. calls' = calls
    BY <1>4 DEF Calling, Next, vars, Ingest, Redeliver, Publish, RevokeKey, BackoffElapses, GrowsStale,
       Dequeue, SlotStep, RefuseRevoked, Check, Lock, Generate, Reformat, Answer,
       Unparseable, ProviderError, Persist, MarkFailed, StatementFails, Start, BootStep, ReclaimStaleLocks, ReclaimTransientFailures,
       DrainBatch, Sweep, SweepRetries, OperatorStep, RetryRead, CancelRead, Accept, RetryWrite,
       RetryPublish, CancelWrite
  <2>2. /\ crashes' = crashes /\ (phase' = "down" => phase = "down")
        /\ phase' \in {"locks", "transient"} => phase \in {"down", "locks", "transient"}
    BY <1>4, PhaseMoves
  <2>3. NobodyCalls
    BY <1>4, SlotMovesOnly DEF SoleInv
  <2>4. \A j \in Jobs : RowStep(j) \/ OperatorRowStep(j)
    BY RowSteps DEF SoleInv
  <2> QED BY <2>1, <2>2, <2>3, <2>4, CallsQuiet
<1> QED BY <1>1, <1>2, <1>3, <1>4

(* A job costs at most max_attempts attempts per process lifetime and one   *)
(* more for each operator retry, and each of them one provider call and the *)
(* re-prompts allowed, whatever is duplicated, requeued, reclaimed or       *)
(* cancelled.                                                               *)
THEOREM ProviderCallsBounded == Spec => []CallsBounded
<1>1. Init => CallsPaid
  <2> SUFFICES ASSUME Init PROVE CallsPaid
    OBVIOUS
  <2>1. Earlier = 0
    BY MaxAttemptsAssumption DEF Init, Earlier
  <2>2. ASSUME NEW j \in Jobs PROVE Cardinality(Pending(j)) = 0
    <3>1. Pending(j) = {}
      BY DEF Init, Pending, Idle
    <3> QED BY <3>1, FS_EmptySet
  <2>3. \A j \in Jobs : Budget(j) = 0 /\ Paid(j) = 0 /\ row[j] = NoRow /\ calls[j] = 0
    BY <2>1 DEF Init, Budget, Paid, NoRow
  <2> QED BY <2>2, <2>3, WorthGrows DEF Init, CallsPaid, NoRow, StaleTransient
<1>2. SoleInv /\ TypeOK' /\ CallsPaid /\ [Next]_vars => CallsPaid'
  BY CallsStep
<1>3. TypeOK /\ CallsPaid => CallsBounded
  <2> SUFFICES ASSUME TypeOK, CallsPaid, NEW j \in Jobs
               PROVE  calls[j] <= Worth(MaxAttempts * (crashes + 1) + retried[j])
    BY DEF CallsBounded, Worth
  <2>1. \A m, c \in Nat : m * (c + 1) = m * c + m /\ m * c \in Nat
    OBVIOUS
  <2>2. MaxAttempts \in Nat /\ crashes \in Nat
    BY MaxAttemptsAssumption, ConstantsAssumption DEF TypeOK
  <2>3. row[j].attempts \in 0..MaxAttempts /\ calls[j] \in Nat /\ retried[j] \in Nat
    BY DEF TypeOK, Row
  <2>4. /\ calls[j] + Cardinality(Pending(j)) <= Worth(Paid(j))
        /\ Cardinality(Pending(j)) \in Nat
    BY PendingCounted DEF CallsPaid
  <2> DEFINE n == MaxAttempts * (crashes + 1) + retried[j]
  <2>5. Paid(j) <= n /\ Paid(j) \in Nat /\ n \in Nat
    BY <2>1, <2>2, <2>3 DEF Paid, Budget, Earlier
  <2> HIDE DEF n
  <2>6. Worth(Paid(j)) <= Worth(n) /\ Worth(Paid(j)) \in Nat /\ Worth(n) \in Nat
    BY <2>5, WorthGrows
  <2>7. calls[j] <= Worth(n)
    BY <2>3, <2>4, <2>6
  <2> QED BY <2>7 DEF n
<1> QED BY <1>1, <1>2, <1>3, SoleInductive, TypeCorrect, PTL DEF Spec
=============================================================================
