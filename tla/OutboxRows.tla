----------------------------- MODULE OutboxRows -----------------------------
(***************************************************************************)
(* One row of observation_generation_jobs (the outbox) and the statements  *)
(* that update it: the repository of storage/postgres/generation-jobs.ts,  *)
(* markGenerationFailed, the boot recovery sweeps of generation-drain.ts    *)
(* and the operator's reset.  Every operator maps a row to the row one SQL  *)
(* statement leaves behind; which statement runs when is GenerationJobs.    *)
(*                                                                         *)
(* Timestamps are kept only as far as a WHERE clause reads them:            *)
(*   nextAttempt  NULL ("none"), in the future ("later") or past ("due");  *)
(*   stale        locked_at (of a processing row) or failed_at (of a failed *)
(*                row) is older than the threshold of the reclaim sweep.    *)
(*   replayable   payload.generation_job_id is the id of this very row, so  *)
(*                a copy of the persisted payload finds it again.           *)
(***************************************************************************)
EXTENDS Integers

CONSTANT MaxAttempts    \* max_attempts; the code's default is 3

ASSUME MaxAttemptsAssumption == MaxAttempts \in Nat \ {0}

Terminal == {"completed", "failed", "cancelled"}
Statuses == {"absent", "queued", "processing"} \union Terminal

(* last_error.classification; "other" stands for every class that is        *)
(* neither retried nor reclaimed (parse_error, revoked_key, unknown, ...).  *)
Classes == {"none", "transient", "rate_limit", "other"}

Row == [status: Statuses, attempts: 0..MaxAttempts, locked: BOOLEAN,
        nextAttempt: {"none", "later", "due"}, failure: Classes,
        stale: BOOLEAN, replayable: BOOLEAN]

NoRow == [status |-> "absent", attempts |-> 0, locked |-> FALSE,
          nextAttempt |-> "none", failure |-> "none",
          stale |-> FALSE, replayable |-> FALSE]

(* The INSERT of PostgresObservationGenerationJobRepository.create.         *)
NewRow == [NoRow EXCEPT !.status = "queued", !.replayable = TRUE]

(* The same INSERT on a key that exists: ON CONFLICT the stored payload is  *)
(* merged with the new one, whose generation_job_id is the id this call     *)
(* pre-generated and never inserted.                                        *)
Merged(r) == [r EXCEPT !.replayable = FALSE]

-----------------------------------------------------------------------------
(* The status machine: transitionStatus.                                    *)

(* A variant the runs must reject: a processing row may be locked again.    *)
AllowedTransitionsRelock ==
  [s \in Statuses |->
     CASE s = "queued"     -> {"processing", "failed", "cancelled"}
       [] s = "processing" -> Statuses \ {"absent"}
       [] OTHER            -> {}]

AllowedTransitions ==
  [s \in Statuses |->
     CASE s = "queued"     -> {"processing", "failed", "cancelled"}
       [] s = "processing" -> {"queued", "completed", "failed", "cancelled"}
       [] OTHER            -> {}]

HasAttemptsLeft(r) == r.attempts < MaxAttempts

(* The WHERE clause of transitionStatus.                                    *)
CanTransition(r, target) ==
  /\ target \in AllowedTransitions[r.status]
  /\ target \in {"processing", "queued"} => HasAttemptsLeft(r)

(* A variant the runs must reject: taking a row counts no attempt.          *)
TransitionUncounted(r, target, class, next) ==
  [r EXCEPT !.status = target, !.locked = target = "processing", !.stale = FALSE,
            !.nextAttempt = IF target = "queued" THEN next ELSE "none",
            !.failure = class]

(* Its SET clause; next is the nextAttemptAt argument.                      *)
Transition(r, target, class, next) ==
  [r EXCEPT !.status      = target,
            !.attempts    = IF target = "processing" THEN @ + 1 ELSE @,
            !.locked      = target = "processing",
            !.nextAttempt = IF target = "queued" THEN next ELSE "none",
            !.failure     = class,
            !.stale       = FALSE]

-----------------------------------------------------------------------------
(* markGenerationFailed: requeue with a backoff while attempts remain, fail *)
(* otherwise; a row already terminal is left alone.                         *)

Retryable(class) == class \in {"transient", "rate_limit"}

FailureTarget(r, class) ==
  IF Retryable(class) /\ HasAttemptsLeft(r) THEN "queued" ELSE "failed"

(* A variant the runs must reject: requeued without a next_attempt_at.      *)
MarkedFailedNoRetryTime(r, class) ==
  LET target == FailureTarget(r, class)
  IN  IF CanTransition(r, target) THEN Transition(r, target, class, "none") ELSE r

(* transitionStatus rejects queued -> queued: then the transaction throws   *)
(* and the row stays as it is.                                              *)
MarkedFailed(r, class) ==
  LET target == FailureTarget(r, class)
  IN  IF r.status \notin Terminal /\ CanTransition(r, target)
      THEN Transition(r, target, class, "later")
      ELSE r

-----------------------------------------------------------------------------
(* Recovery: what the boot sweeps and the retry sweep select and set.       *)

(* A variant the runs must reject: exhausted rows are drained again.        *)
DrainableExhausted(r) == r.status = "queued"

(* loadQueuedJobsForDrain                                                   *)
Drainable(r) == r.status = "queued" /\ HasAttemptsLeft(r)

(* claimDueRetries: the claim leases the row by moving next_attempt_at.     *)
RetryDue(r)  == Drainable(r) /\ r.attempts > 0 /\ r.nextAttempt = "due"
Claimed(r)   == [r EXCEPT !.nextAttempt = "later"]

(* reclaimStaleLocks; it does not look at attempts.                         *)
StaleLock(r) == r.status = "processing" /\ r.locked /\ r.stale
Unlocked(r)  == [r EXCEPT !.status = "queued", !.locked = FALSE, !.stale = FALSE]

(* A variant the runs must reject: any old failure is reclaimed.            *)
StaleFailure(r) == r.status = "failed" /\ r.stale

(* reclaimTransientFailures                                                 *)
StaleTransient(r) == r.status = "failed" /\ r.failure = "transient" /\ r.stale
Revived(r) ==
  [r EXCEPT !.status = "queued", !.attempts = 0, !.locked = FALSE, !.stale = FALSE]

-----------------------------------------------------------------------------
(* Operator statements: UPDATE ... WHERE id, whatever the status is by now. *)

ResetByOperator(r, replayable) ==
  [r EXCEPT !.status     = "queued",
            !.locked     = FALSE,
            !.failure    = "none",
            !.stale      = FALSE,
            !.attempts   = IF @ < MaxAttempts THEN @ ELSE MaxAttempts - 1,
            !.replayable = replayable]

CancelledByOperator(r) == [r EXCEPT !.status = "cancelled", !.stale = FALSE]
=============================================================================
