--------------------------- MODULE GenerationJobs ---------------------------
(***************************************************************************)
(* Generation jobs of one memsmith server on its local runtime: ingest      *)
(* writes an outbox row and then publishes a copy to the in-memory queue;   *)
(* worker slots take copies, lock the row, call the provider and persist;   *)
(* a crash loses the memory; the boot sequence reclaims and drains the      *)
(* table, then sweeps due retries for the life of the process; operators    *)
(* retry and cancel rows over HTTP or from the CLI.                         *)
(*                                                                         *)
(* One action per step between two awaits that other actors can observe.    *)
(* A SQL statement and a transaction are atomic (row lock, WHERE re-checked *)
(* under it); a read followed by a write is two actions.                    *)
(***************************************************************************)
EXTENDS OutboxRows, FiniteSets, Functions

CONSTANTS
  Jobs,            \* idempotency keys: one event or one ended session each
  Summaries,       \* the jobs that summarise an ended session
  Plumbing,        \* the jobs whose events are all agent plumbing
  KeyedJobs,       \* the jobs submitted with an API key that may be revoked
  Slots,           \* concurrent worker slots of the inline queues
  Operators,       \* operator requests that may be in flight together
  CliOperators,    \* those of them that are runs of `memsmith server jobs`
  NoJob,
  Redeliveries,    \* may a client deliver an event it delivered before?
  PromptRestart,   \* may the server restart before a dead lock is stale?
  RefillThreshold, \* the drain refills at this backlog depth; 50 in the code
  ReformatRetries, \* how often an unparseable answer is asked for again; 1 in
                   \* the code, or what the team has set
  MaxCopies,       \* bound: in-memory copies of a job per lane
  MaxCrashes,      \* bound: crashes
  MaxFaults,       \* bound: failing database statements
  MaxRequests      \* bound: operator requests

ASSUME ConstantsAssumption ==
  /\ Summaries \subseteq Jobs /\ Plumbing \subseteq Jobs /\ KeyedJobs \subseteq Jobs
  /\ CliOperators \subseteq Operators
  /\ NoJob \notin Jobs
  /\ IsFiniteSet(Slots)
  /\ Redeliveries \in BOOLEAN /\ PromptRestart \in BOOLEAN
  /\ RefillThreshold \in Nat /\ ReformatRetries \in Nat /\ MaxCopies \in Nat
  /\ MaxCrashes \in Nat /\ MaxFaults \in Nat /\ MaxRequests \in Nat

VARIABLES
  row,          \* the outbox: observation_generation_jobs, one row per job
  results,      \* how many generated results are persisted for a job
  revoked,      \* jobs whose API key has been revoked
  unpublished,  \* ingested in this process, not yet added to the queue
  live,         \* waiting[]: copies of a job in the live lane
  backlog,      \* waitingRecovery[]: copies of a job in the recovery lane
  slot,         \* what every worker slot is doing
  phase,        \* "down", or how far the boot sequence has come
  request,      \* what every operator request is doing
  calls,        \* history: provider calls made for a job
  retried,      \* history: operator retries written to a job
  forsaken,     \* history: jobs whose worker or last copy a crash or a failing
                \* statement took, until they are locked or drained again
  crashes, faults, requests  \* how much of each bound is used up

memory   == <<unpublished, live, backlog>>
database == <<row, results, revoked>>
counters == <<retried, forsaken, crashes, faults, requests>>
vars     == <<database, memory, slot, phase, request, calls, counters>>

Phases == {"down", "locks", "transient", "drain", "sweep"}
Up     == phase # "down"

SlotPCs     == {"idle", "check", "lock", "locked", "generating", "persist", "fail"}
Idle        == [pc |-> "idle", job |-> NoJob, error |-> "none", prompts |-> 0]
At(s, pc)   == slot[s].pc = pc
Goto(s, pc) == slot' = [slot EXCEPT ![s].pc = pc]
Release(s)  == slot' = [slot EXCEPT ![s] = Idle]
Blame(s, class) ==
  slot' = [slot EXCEPT ![s] =
             [pc |-> "fail", job |-> @.job, error |-> class, prompts |-> 0]]
(* The slots that have locked their job's row and not finished with it.     *)
Working     == {"locked", "generating", "persist", "fail"}
Holds(s, j) == slot[s].job = j /\ slot[s].pc \in Working
Holders(j)  == {s \in Slots : Holds(s, j)}

NoRequest == [pc |-> "idle", job |-> NoJob, replayable |-> FALSE]

AddCopies(lane, S) ==
  [j \in Jobs |-> IF j \in S THEN lane[j] + 1 ELSE lane[j]]

(* Only a copy whose payload names the row reaches it; process() answers    *)
(* any other with "job row not found by id; nothing to do".                 *)
Replayable(S) == {j \in S : row[j].replayable}

Depth(lane) == FoldFunction(+, 0, lane)

-----------------------------------------------------------------------------
(* Ingest: IngestEventsService.ingestOne and EndSessionService.end.         *)

Ingest(j) ==
  /\ Up
  /\ row[j].status = "absent"
  /\ row' = [row EXCEPT ![j] = NewRow]
  /\ unpublished' = unpublished \union {j}
  /\ UNCHANGED <<results, revoked, live, backlog, slot, phase, request, calls, counters>>

(* The same key again.  The row's payload now names an id no row has.  For  *)
(* an event that payload is also what is published, so the copy is a no-op; *)
(* for a summary the published payload is rebuilt with the row's own id.    *)
Redeliver(j) ==
  /\ Up /\ Redeliveries
  /\ row[j].status # "absent"
  /\ live[j] < MaxCopies
  /\ row' = [row EXCEPT ![j] = Merged(@)]
  /\ unpublished' = IF j \in Summaries THEN unpublished \union {j} ELSE unpublished
  /\ UNCHANGED <<results, revoked, live, backlog, slot, phase, request, calls, counters>>

(* publishEventJob / publishSummaryJob, after the transaction committed.    *)
Publish(j) ==
  /\ j \in unpublished
  /\ unpublished' = unpublished \ {j}
  /\ live' = AddCopies(live, {j})
  /\ UNCHANGED <<database, backlog, slot, phase, request, calls, counters>>

RevokeKey(j) ==
  /\ j \in KeyedJobs \ revoked
  /\ revoked' = revoked \union {j}
  /\ UNCHANGED <<row, results, memory, slot, phase, request, calls, counters>>

-----------------------------------------------------------------------------
(* A worker slot: ProviderObservationGenerator.process.                     *)

Dequeue(s, j) ==
  /\ At(s, "idle") /\ Up
  /\ \/ live[j] > 0 /\ live' = [live EXCEPT ![j] = @ - 1] /\ UNCHANGED backlog
     \/ backlog[j] > 0 /\ backlog' = [backlog EXCEPT ![j] = @ - 1] /\ UNCHANGED live
  /\ slot' = [slot EXCEPT ![s] =
                [pc |-> "check", job |-> j, error |-> "none", prompts |-> 0]]
  /\ UNCHANGED <<database, unpublished, phase, request, calls, counters>>

(* The key behind the job was revoked: fail the row, whoever holds it.      *)
RefuseRevoked(s) ==
  /\ At(s, "check") /\ slot[s].job \in revoked
  /\ row' = [row EXCEPT ![slot[s].job] = MarkedFailed(@, "other")]
  /\ Release(s)
  /\ UNCHANGED <<results, revoked, memory, phase, request, calls, counters>>

(* lockOutbox reads the row: anything but a queued row is skipped.          *)
Check(s) ==
  /\ At(s, "check") /\ slot[s].job \notin revoked
  /\ IF row[slot[s].job].status = "queued" THEN Goto(s, "lock") ELSE Release(s)
  /\ UNCHANGED <<database, memory, phase, request, calls, counters>>

(* lockOutbox locks the row, or throws because it can no longer be locked.  *)
Lock(s) ==
  LET j == slot[s].job
  IN  /\ At(s, "lock")
      /\ IF CanTransition(row[j], "processing")
         THEN /\ row' = [row EXCEPT ![j] = Transition(@, "processing", "none", "none")]
              /\ Goto(s, "locked")
              /\ forsaken' = forsaken \ {j}
         ELSE UNCHANGED <<row, forsaken>> /\ Release(s)
      /\ UNCHANGED <<results, revoked, memory, phase, request, calls,
                     retried, crashes, faults, requests>>

(* generateAndPersist loads the events.  With nothing but plumbing in them  *)
(* it returns at once.                                                      *)
Generate(s) ==
  LET j == slot[s].job
  IN  /\ At(s, "locked")
      /\ IF j \in Plumbing
         THEN Release(s) /\ UNCHANGED calls
         ELSE Goto(s, "generating") /\ calls' = [calls EXCEPT ![j] = @ + 1]
      /\ UNCHANGED <<database, memory, phase, request, counters>>

(* The answer does not parse: the provider is asked again, a bounded number *)
(* of times.  prompts counts them for the attempt under way.                *)
Reformat(s) ==
  LET j == slot[s].job
  IN  /\ At(s, "generating") /\ slot[s].prompts < ReformatRetries
      /\ slot' = [slot EXCEPT ![s].prompts = @ + 1]
      /\ calls' = [calls EXCEPT ![j] = @ + 1]
      /\ UNCHANGED <<database, memory, phase, request, counters>>

Answer(s) ==
  /\ At(s, "generating")
  /\ slot' = [slot EXCEPT ![s].pc = "persist", ![s].prompts = 0]
  /\ UNCHANGED <<database, memory, phase, request, calls, counters>>

(* The last answer allowed does not parse either (outcome parse_error): the *)
(* row is failed here, the error thrown, and the catch will fail it again.  *)
Unparseable(s) ==
  /\ At(s, "generating") /\ slot[s].prompts = ReformatRetries
  /\ row' = [row EXCEPT ![slot[s].job] = MarkedFailed(@, "other")]
  /\ Blame(s, "other")
  /\ UNCHANGED <<results, revoked, memory, phase, request, calls, counters>>

(* A variant the runs must reject: the catch swallows the error.            *)
ProviderErrorUnrecorded(s) ==
  /\ At(s, "generating")
  /\ Release(s)
  /\ UNCHANGED <<database, memory, phase, request, calls, counters>>

(* The provider throws, on the first prompt or on a later one.              *)
ProviderError(s) ==
  /\ At(s, "generating")
  /\ \E class \in Classes \ {"none"} : Blame(s, class)
  /\ UNCHANGED <<database, memory, phase, request, calls, counters>>

(* A variant the runs must reject: the row is not read again in the         *)
(* transaction that inserts the observations.                               *)
PersistWithoutReload(s) ==
  /\ At(s, "persist")
  /\ results' = [results EXCEPT ![slot[s].job] = @ + 1]
  /\ Release(s)
  /\ row' = [row EXCEPT ![slot[s].job] =
               IF CanTransition(@, "completed")
               THEN Transition(@, "completed", "none", "none") ELSE @]
  /\ UNCHANGED <<revoked, memory, phase, request, calls, counters>>

(* A variant the runs must reject: the observations are committed on their  *)
(* own, and the status that goes with them is lost.                         *)
PersistWithoutStatus(s) ==
  /\ At(s, "persist")
  /\ results' = [results EXCEPT ![slot[s].job] = @ + 1]
  /\ Blame(s, "other")
  /\ UNCHANGED <<row, revoked, memory, phase, request, calls, counters>>

(* persistGeneratedObservations: a row that is terminal by now is left      *)
(* alone; a row back in queued makes the transition throw and the           *)
(* transaction roll back.                                                   *)
Persist(s) ==
  LET j == slot[s].job
  IN  /\ At(s, "persist")
      /\ \/ /\ row[j].status \in Terminal
            /\ Release(s)
            /\ UNCHANGED <<row, results>>
         \/ /\ CanTransition(row[j], "completed")
            /\ row' = [row EXCEPT ![j] = Transition(@, "completed", "none", "none")]
            /\ results' = [results EXCEPT ![j] = @ + 1]
            /\ Release(s)
         \/ /\ row[j].status \notin Terminal /\ ~CanTransition(row[j], "completed")
            /\ Blame(s, "other")
            /\ UNCHANGED <<row, results>>
      /\ UNCHANGED <<revoked, memory, phase, request, calls, counters>>

(* process()'s catch: markGenerationFailed, then the error is rethrown.     *)
MarkFailed(s) ==
  /\ At(s, "fail")
  /\ row' = [row EXCEPT ![slot[s].job] = MarkedFailed(@, slot[s].error)]
  /\ Release(s)
  /\ UNCHANGED <<results, revoked, memory, phase, request, calls, counters>>

(* A statement of process() throws.  Before generateAndPersist, and in the  *)
(* catch, nobody records it; inside, it is an unclassified error.           *)
StatementFails(s) ==
  /\ faults < MaxFaults
  /\ faults' = faults + 1
  /\ \/ /\ slot[s].pc \in {"check", "lock", "locked", "fail"}
        /\ Release(s)
        /\ forsaken' = forsaken \union {slot[s].job}
     \/ slot[s].pc \in {"locked", "persist"} /\ Blame(s, "other") /\ UNCHANGED forsaken
  /\ UNCHANGED <<database, memory, phase, request, calls, retried, crashes, requests>>

-----------------------------------------------------------------------------
(* Process death, and the boot sequence of create-server-service.ts.        *)

Crash ==
  /\ Up /\ crashes < MaxCrashes
  /\ crashes' = crashes + 1
  /\ phase' = "down"
  /\ unpublished' = {}
  /\ live' = [j \in Jobs |-> 0]
  /\ backlog' = [j \in Jobs |-> 0]
  /\ slot' = [s \in Slots |-> Idle]
  /\ request' = [o \in Operators |->
                   IF o \in CliOperators THEN request[o] ELSE NoRequest]
  /\ forsaken' = forsaken \union {j \in Jobs : row[j].status = "processing"}
  /\ UNCHANGED <<database, calls, retried, faults, requests>>

Start ==
  /\ phase = "down"
  /\ PromptRestart \/ \A j \in Jobs : row[j].status = "processing" => row[j].stale
  /\ phase' = "locks"
  /\ UNCHANGED <<database, memory, slot, request, calls, counters>>

(* A sweep that cannot read or write the table returns 0 and is not retried.*)
Sweep(from, to, swept) ==
  /\ phase = from
  /\ phase' = to
  /\ \/ row' = swept /\ UNCHANGED faults
     \/ faults < MaxFaults /\ faults' = faults + 1 /\ UNCHANGED row
  /\ UNCHANGED <<results, revoked, memory, slot, request, calls, retried, forsaken,
                 crashes, requests>>

(* A variant the runs must reject: nobody reclaims the locks of the dead.   *)
ReclaimNothing == Sweep("locks", "transient", row)

ReclaimStaleLocks ==
  Sweep("locks", "transient",
        [j \in Jobs |-> IF StaleLock(row[j]) THEN Unlocked(row[j]) ELSE row[j]])

ReclaimTransientFailures ==
  Sweep("transient", "drain",
        [j \in Jobs |-> IF StaleTransient(row[j]) THEN Revived(row[j]) ELSE row[j]])

(* runContinuousDrain: one iteration of the loop.  loadQueuedJobsForDrain   *)
(* answers a failing SELECT with an empty batch, which ends the loop.       *)
DrainBatch ==
  LET batch == {j \in Jobs : Drainable(row[j])}
  IN  /\ phase = "drain"
      /\ Depth(backlog) <= RefillThreshold
      /\ \/ batch # {} /\ backlog' = AddCopies(backlog, Replayable(batch))
            /\ forsaken' = forsaken \ batch
            /\ UNCHANGED <<phase, faults>>
         \/ batch = {} /\ phase' = "sweep" /\ UNCHANGED <<backlog, forsaken, faults>>
         \/ /\ faults < MaxFaults /\ faults' = faults + 1
            /\ phase' = "sweep" /\ forsaken' = forsaken \union batch
            /\ UNCHANGED backlog
      /\ UNCHANGED <<database, unpublished, live, slot, request, calls, retried, crashes, requests>>

(* runRetrySweep: one pass.                                                 *)
SweepRetries ==
  LET due == {j \in Jobs : RetryDue(row[j])}
  IN  /\ phase = "sweep" /\ due # {}
      /\ \A j \in due : backlog[j] < MaxCopies
      /\ row' = [j \in Jobs |-> IF j \in due THEN Claimed(row[j]) ELSE row[j]]
      /\ backlog' = AddCopies(backlog, Replayable(due))
      /\ UNCHANGED <<results, revoked, unpublished, live, slot, phase, request, calls, counters>>

(* Time: a backoff or a lease runs out.                                     *)
BackoffElapses(j) ==
  /\ row[j].nextAttempt = "later"
  /\ row' = [row EXCEPT ![j].nextAttempt = "due"]
  /\ UNCHANGED <<results, revoked, memory, slot, phase, request, calls, counters>>

(* Time: locked_at or failed_at becomes older than the reclaim threshold.   *)
(* The two reclaims are the first statements of a boot: nothing locked or   *)
(* failed since that boot is already old enough when they run.              *)
GrowsStale(j) ==
  /\ row[j].status \in {"processing", "failed"} /\ ~row[j].stale
  /\ phase \notin {"locks", "transient"}
  /\ row' = [row EXCEPT ![j].stale = TRUE]
  /\ UNCHANGED <<results, revoked, memory, slot, phase, request, calls, counters>>

-----------------------------------------------------------------------------
(* Operator requests: retryGenerationJob / cancelGenerationJob of           *)
(* ServerV1PostgresRoutes.ts and runJobsRetry / runJobsCancel of the CLI.   *)
(* Each reads the row, decides, and updates it by id.                       *)

Accept(o, j, pc) ==
  /\ request[o].pc = "idle" /\ requests < MaxRequests
  /\ o \in CliOperators \/ Up
  /\ requests' = requests + 1
  /\ request' = [request EXCEPT ![o] =
                   [pc |-> pc, job |-> j, replayable |-> row[j].replayable]]
  /\ UNCHANGED <<database, memory, slot, phase, calls, retried, forsaken, crashes, faults>>

(* Over HTTP a completed job is refused; the CLI requeues it.               *)
RetryRead(o, j) ==
  /\ \/ row[j].status \in {"failed", "cancelled"}
     \/ row[j].status = "completed" /\ o \in CliOperators
  /\ Accept(o, j, "retry")

CancelRead(o, j) ==
  /\ row[j].status \in {"queued", "processing", "failed"}
  /\ Accept(o, j, "cancel")

RetryWrite(o) ==
  LET j == request[o].job
  IN  /\ request[o].pc = "retry"
      /\ row' = [row EXCEPT ![j] = ResetByOperator(@, request[o].replayable)]
      /\ request' = [request EXCEPT ![o] =
                       IF o \in CliOperators THEN NoRequest ELSE [@ EXCEPT !.pc = "publish"]]
      /\ retried' = [retried EXCEPT ![j] = @ + 1]
      /\ UNCHANGED <<results, revoked, memory, slot, phase, calls,
                     forsaken, crashes, faults, requests>>

(* The payload published is the one the request read; the CLI publishes to  *)
(* BullMQ, which the local runtime does not have.                           *)
RetryPublish(o) ==
  /\ request[o].pc = "publish"
  /\ live' = AddCopies(live, IF request[o].replayable THEN {request[o].job} ELSE {})
  /\ request' = [request EXCEPT ![o] = NoRequest]
  /\ UNCHANGED <<database, unpublished, backlog, slot, phase, calls, counters>>

(* The copies already in memory stay: the inline queue has no remove().     *)
CancelWrite(o) ==
  /\ request[o].pc = "cancel"
  /\ row' = [row EXCEPT ![request[o].job] = CancelledByOperator(@)]
  /\ request' = [request EXCEPT ![o] = NoRequest]
  /\ UNCHANGED <<results, revoked, memory, slot, phase, calls, counters>>

-----------------------------------------------------------------------------
Init ==
  /\ row = [j \in Jobs |-> NoRow]
  /\ results = [j \in Jobs |-> 0]
  /\ revoked = {}
  /\ unpublished = {}
  /\ live = [j \in Jobs |-> 0]
  /\ backlog = [j \in Jobs |-> 0]
  /\ slot = [s \in Slots |-> Idle]
  /\ phase = "locks"
  /\ request = [o \in Operators |-> NoRequest]
  /\ calls = [j \in Jobs |-> 0]
  /\ retried = [j \in Jobs |-> 0]
  /\ forsaken = {}
  /\ crashes = 0 /\ faults = 0 /\ requests = 0

SlotStep(s) ==
  \/ RefuseRevoked(s) \/ Check(s) \/ Lock(s) \/ Generate(s)
  \/ Reformat(s) \/ Answer(s) \/ Unparseable(s) \/ ProviderError(s)
  \/ Persist(s) \/ MarkFailed(s)

BootStep == ReclaimStaleLocks \/ ReclaimTransientFailures \/ DrainBatch

OperatorStep(o) ==
  \/ \E j \in Jobs : RetryRead(o, j) \/ CancelRead(o, j)
  \/ RetryWrite(o) \/ RetryPublish(o) \/ CancelWrite(o)

Next ==
  \/ \E j \in Jobs :
       \/ Ingest(j) \/ Redeliver(j) \/ Publish(j) \/ RevokeKey(j)
       \/ BackoffElapses(j) \/ GrowsStale(j)
       \/ \E s \in Slots : Dequeue(s, j)
  \/ \E s \in Slots : SlotStep(s) \/ StatementFails(s)
  \/ Crash \/ Start \/ BootStep \/ SweepRetries
  \/ \E o \in Operators : OperatorStep(o)

Spec == Init /\ [][Next]_vars

(* A started process runs its timers, its boot sequence and its slots; the  *)
(* queues are FIFO, so a copy that waits is taken in the end; a provider    *)
(* call ends, at the latest with the HTTP client's own timeout.  Nothing    *)
(* obliges clients, operators, crashes or faults; a dead server is started. *)
Fairness ==
  /\ WF_vars(Start) /\ WF_vars(BootStep) /\ WF_vars(SweepRetries)
  /\ \A j \in Jobs :
       /\ WF_vars(Publish(j)) /\ WF_vars(BackoffElapses(j)) /\ WF_vars(GrowsStale(j))
       /\ SF_vars(\E s \in Slots : Dequeue(s, j))
  /\ \A s \in Slots : WF_vars(SlotStep(s))

FairSpec == Spec /\ Fairness

-----------------------------------------------------------------------------
(* Properties.                                                              *)

(* Every variable stays in its type; attempts never pass max_attempts.      *)
TypeOK ==
  /\ row \in [Jobs -> Row]
  /\ results \in [Jobs -> Nat]
  /\ revoked \in SUBSET KeyedJobs
  /\ unpublished \in SUBSET Jobs
  /\ live \in [Jobs -> Nat] /\ backlog \in [Jobs -> Nat]
  /\ slot \in [Slots -> [pc: SlotPCs, job: Jobs \union {NoJob}, error: Classes,
                         prompts: 0..ReformatRetries]]
  /\ \A s \in Slots : slot[s].job = NoJob <=> slot[s].pc = "idle"
  /\ phase \in Phases
  /\ request \in [Operators -> [pc: {"idle", "retry", "cancel", "publish"},
                                job: Jobs \union {NoJob}, replayable: BOOLEAN]]
  /\ \A o \in Operators : request[o].job = NoJob <=> request[o].pc = "idle"
  /\ calls \in [Jobs -> Nat] /\ retried \in [Jobs -> Nat]
  /\ forsaken \in SUBSET Jobs
  /\ crashes \in 0..MaxCrashes /\ faults \in 0..MaxFaults
  /\ requests \in 0..MaxRequests

(* lockOutbox's purpose: however many copies of a job the drain, the sweep  *)
(* and redeliveries put in memory, two workers never pay for the same job   *)
(* at the same time, unless operators took the row away from the first one  *)
(* and handed it out again: then one more worker per retry, no more.        *)
SingleGenerator == \A j \in Jobs : Cardinality(Holders(j)) <= 1 + retried[j]

(* Persisting is exactly once per opening of a job: no result before it is  *)
(* completed, one with the completion, at most one more for each time an    *)
(* operator has reopened the job, across crashes, duplicates, retries,      *)
(* cancellations and whatever an operator's write overwrites.               *)
ResultsMatchStatus ==
  \A j \in Jobs :
    /\ row[j].status = "completed" => results[j] > 0
    /\ results[j] + (IF row[j].status \in {"completed", "cancelled"} THEN 0 ELSE 1)
         <= 1 + retried[j]

(* A row in processing is being worked on, or a crash or a failing statement *)
(* took its last worker: nobody returns from process() and leaves the lock  *)
(* behind.  Operators may take the row away from its worker and hand it out *)
(* again.  A job with nothing but plumbing in it is the exception.          *)
LocksAreHeld ==
  \A j \in Jobs \ Plumbing :
    row[j].status = "processing" => Holders(j) # {} \/ j \in forsaken

(* A processing row carries locked_at: the stale reclaim, which skips rows  *)
(* without it, can see every lock whatever the operators did before.        *)
LocksAreDated == \A j \in Jobs : row[j].status = "processing" => row[j].locked

(* The stranding rule (generation-drain.ts, retry-sweep.ts): a queued row   *)
(* with attempts left is always in somebody's hands: being published, in    *)
(* memory, being picked up, still ahead of the boot drain, or waiting for a *)
(* retry time the sweep will see, unless a failing statement took its copy  *)
(* or its batch.  For rows a copy can find.                                 *)
InHands(j) ==
  \/ j \in unpublished \/ live[j] > 0 \/ backlog[j] > 0
  \/ \E s \in Slots : slot[s].job = j /\ slot[s].pc \in {"check", "lock"}
  \/ \E o \in Operators : /\ request[o].job = j /\ request[o].pc = "publish"
                          /\ request[o].replayable
  \/ phase # "sweep"
  \/ row[j].attempts > 0 /\ row[j].nextAttempt # "none"

NoStrandedRow ==
  \A j \in Jobs :
    Drainable(row[j]) /\ row[j].replayable => InHands(j) \/ j \in forsaken

(* What a job may cost: at most max_attempts attempts per process lifetime, *)
(* one more for each operator retry, and for each of them one provider call *)
(* and the re-prompts the setting allows.  Duplicates and requeues buy no   *)
(* extra call, only the revival at a boot does.                             *)
CallsBounded ==
  \A j \in Jobs :
    calls[j] <= (MaxAttempts * (crashes + 1) + retried[j]) * (1 + ReformatRetries)

(* The boot drain survives an outage ("backing off is right; giving up is   *)
(* not", continuous-drain.ts): when it hands over to the retry sweep, no    *)
(* row that it has still to load is left in nobody's hands, also when a     *)
(* statement of its own has failed.                                         *)
DrainSurvivesOutage ==
  [][phase = "drain" /\ phase' = "sweep"
       => \A j \in Jobs : Drainable(row[j]) /\ row[j].replayable => InHands(j)']_vars

(* A settled job stays settled: a terminal row changes only when a boot     *)
(* revives a transient failure or an operator's request for it is written.  *)
Overridden(j) ==
  \E o \in Operators : /\ request[o].job = j /\ request[o].pc \in {"retry", "cancel"}
                        /\ request'[o] # request[o]

TerminalIsFinal ==
  [][\A j \in Jobs :
       row[j].status \in Terminal /\ row'[j].status # row[j].status
         => (row[j].failure = "transient" /\ phase = "transient") \/ Overridden(j)]_vars

(* The outbox, its workers, crashes, duplicates, sweeps and operators       *)
(* together keep the promise of JobLifecycle: a result is written with the  *)
(* completion only, and nobody but an operator reopens a job that did not   *)
(* fail.                                                                    *)
LifeOf(r) == CASE r.status = "absent"    -> "absent"
               [] r.status = "completed" -> "done"
               [] r.status = "cancelled" -> "cancelled"
               [] r.status \in {"queued", "processing"} -> "open"
               [] OTHER -> "failed"

Lifecycle == INSTANCE JobLifecycle WITH state <- [j \in Jobs |-> LifeOf(row[j])]

ImplementsLifecycle == Lifecycle!Spec

(* Every accepted job is settled in the end, through crashes, provider      *)
(* errors and lost memory, unless its last permitted attempt died with the  *)
(* process.                                                                 *)
Exhausted(r) == r.status = "queued" /\ ~HasAttemptsLeft(r)

Settles ==
  \A j \in Jobs \ Plumbing : row[j].status \in {"queued", "processing"}
                   ~> row[j].status \in Terminal \/ Exhausted(row[j])

(* The boot drain of every process comes to its end, so that the retry      *)
(* sweep starts: "a batch that could not be published still advances and    *)
(* cannot loop forever" (create-server-service.ts).                         *)
DrainEnds == phase = "drain" ~> phase # "drain"
=============================================================================
