# memsmith: TLA+ models

memsmith captures what happens in coding-assistant sessions as *events* and distils
every event, and every ended session, into *observations* with a language model. It
runs on a laptop (its own server with an embedded postgres) or against a team's server.

The models cover what is concurrent, fails part-way and is hard to test in it: the
asynchronous generation pipeline (an outbox, a queue, workers that hold a row for the
minutes of a provider call, recovery at boot); the way of an event from a hook process
to the server over two shared files; who a project is, when many processes mint and
join at once; the connection pools; getting one server and one postgres up; and moving
a project to a team server.

Paths below are relative to the repository; `server/...` stands for `src/server/...`.

## 1. Inventory

| Component | State | Operations | Interacts with |
|---|---|---|---|
| Generation outbox (`storage/postgres/generation-jobs.ts`, `markGenerationFailed`) | rows of `observation_generation_jobs`: status, attempts, lock, retry time, last error, payload | create (upsert), transitionStatus, fail/requeue, recovery and operator UPDATEs | everything below |
| Ingest, session end (`IngestEventsService.ts`, `EndSessionService.ts`) | none of their own between calls | transaction, then publish | outbox, queue |
| Inline queue (`InlineServerQueue.ts`) | two FIFO lanes, slot counters, started/closed, scheduled microtasks | add, addRecovery, start, drain, run, close | workers (callback), continuous drain (depth) |
| Generation worker (`ProviderObservationGenerator.ts`, `processGeneratedResponse.ts`) | what a slot is doing between two awaits | check, lock, generate, persist, fail | outbox, provider, queue |
| Boot recovery (`create-server-service.ts`, `generation-drain.ts`, `continuous-drain.ts`, `retry-sweep.ts`) | how far the boot has come | lock reclaim, transient reclaim, drain, retry sweep | outbox, recovery lane |
| Operators (`ServerV1PostgresRoutes.ts`, `npx-cli/commands/server-jobs.ts`) | a request between its read and its UPDATE | retry, cancel | outbox, live lane |
| BullMQ queues (`ServerJobQueue.ts`, `Active*Manager.ts`) | Redis | the team runtime's queue and workers | outbox, worker |
| Capture spool (`cli/handlers/capture-spool.ts`, `observation.ts`, `spool-flush.ts`) | a JSONL file and a drop counter | append, trim, flush at session start | hooks, ingest |
| Laptop generation loop (`services/generation/*`) | a JSONL queue file | read, generate, post, rewrite | hooks, server API |
| Project identity, credentials (`services/identity/*`) | the project's marker file, the machine's credential file and its lock, key hashes in the database | mint, adopt, register, store a key, flip | session starts, convert and join |
| Pool registry (`pool-registry.ts`, `pool.ts`) | a map of pool promises | getPool, provision, closeAll | every project query, server stop |
| Server lifecycle (`ServerService.ts`, `server-state.ts`, `stop-process.ts`) | pid and port files, the listening port | start, daemon, stop | session starts, embedded postgres, pools |
| Embedded postgres (`EmbeddedPostgresManager.ts`) | `local-pg.pid`, `postmaster.pid`, the postgres process | start, adopt, stopExternal | every daemon |
| Convert / join / flip to team (`server/convert/*`) | two databases, import tokens, a pending note, the marker | copy, verify, flip, claim | identity, both servers |
| Multi-project recovery | – | the boot sweeps on other databases | pool registry, outbox |
| Session reclaim, embedding backfill | – | one statement at boot | – |
| Provider failover, rate limits, SSE stream | last-good provider; counters; subscribers | choose; count; publish | worker; HTTP; viewers |
| Retrieval, settings, transcripts, installer, viewer UI, MCP servers | data or I/O | – | – |

What is hard in it:

* **Interleaving.** Copies of one job come from the first publication, redelivery, the
  boot drain, the retry sweep and operators; the lock on the row is the only thing
  between them. Ownership is a status, not an owner: nobody checks `locked_by`.
* **Long awaits.** A worker holds a job for a provider call of minutes and then writes
  a result, whatever became of the row meanwhile.
* **Crash and restart.** The queue is memory only. Everything not running is lost,
  everything running leaves a `processing` row behind.
* **Time.** Backoffs, leases and stale thresholds decide which sweep sees a row.
* **Partial failure.** Statements before and after the `try` of `process()` record
  nothing; sweeps swallow their errors.
* **Read, then write.** Operators decide on one read and update by id; flushes, passes
  and trims rewrite a file they read earlier; a server removes state files that may name
  another by then.
* **Processes without a common lock.** Every hook and session start is a process of its
  own; they meet in files, a port and a database.

`PROJECT.json` lists these hazards one by one at the line where they bite, with the
properties that watch them.

## 2. Modules

| Module | Models | Role |
|---|---|---|
| `OutboxRows` | one row and every SQL statement that changes it, as functions from row to row | pure; used by `GenerationJobs` |
| `GenerationJobs` | the pipeline of one process on the local runtime: ingest, lanes, slots, boot, time, operators, crash | the core |
| `JobLifecycle` | what the pipeline promises of a job: open until done, failed or cancelled, its result with the completion, reopened by boots after failures and by operators, who are counted | abstract specification of `GenerationJobs` |
| `InlineServerQueue` | the two-lane in-memory queue and its microtasks | implements `JobLanes` |
| `JobLanes` | what `GenerationJobs` takes for granted of that queue: two lanes of copies, slots that take from either, one release per job | abstract specification of `InlineServerQueue` |
| `CapturePath` | hooks, spool, flush, generation queue and passes | stand-alone |
| `ProjectIdentity` | marker, credential file under its lock, key hashes; session starts, joins, git | stand-alone |
| `KeyStore` | what the credential file promises: a map changed one team at a time | abstract specification of `ProjectIdentity` |
| `PoolRegistry` | provisions, pools, callers, closeAll within the server's stop | stand-alone |
| `ServerLaunch` | session starts, daemons, embedded postgres, stop | stand-alone |
| `TeamConvert` | copy, verification and flip of a project, retries, late imports, the pending note | stand-alone; the flip's key and marker are `ProjectIdentity`'s |
| `MC...` | constants for TLC where a `.cfg` cannot state them | TLC |
| `GenerationJobsProofs` (with the lemmas on `OutboxRows`), `JobStrandingProofs`, `InlineServerQueueProofs`, `CapturePathProofs`, `ProjectIdentityProofs`, `PoolRegistryProofs`, `ServerLaunchProofs`, `TeamConvertProofs` | theorems | TLAPS |

The components meet in few places, which is why most modules stand alone: `GenerationJobs`
uses the queue through its copies and slots, `ServerLaunch` ends where `PoolRegistry`'s
`Stop` and `GenerationJobs`' `Start` begin, `CapturePath` ends with the ingest that
`GenerationJobs` starts from, `TeamConvert`'s flip is a join of `ProjectIdentity`. The
three refinements are `GenerationJobs` to `JobLifecycle`, `InlineServerQueue` to
`JobLanes` and `ProjectIdentity` to `KeyStore`. `JobLanes` is the seam between the first
two: its actions are the ways in which `GenerationJobs` uses lanes and slots (`Publish`,
`DrainBatch`, `Dequeue`, the release of a slot), and the queue is shown to do nothing
else.

### OutboxRows

A row keeps `status`, `attempts`, whether `locked_at` is set, `last_error`'s
classification, and of the timestamps only what a WHERE clause can tell: `nextAttempt`
is NULL, in the future or past; `stale` says that `locked_at` (or `failed_at`) is older
than the threshold of the reclaim that would read it. `replayable` says that the stored
payload names this row: `create()` on a known key merges in a payload with a freshly
generated id that no row has. Classifications other than `transient` and
`rate_limit` are treated alike by the code and are one value, `"other"`.

### GenerationJobs

| Code | Action |
|---|---|
| `ingestOne`, `EndSessionService.end` (transaction) | `Ingest`, on a known key `Redeliver` |
| `publishEventJob`, `publishSummaryJob` | `Publish` |
| `InlineServerQueue.drain/run` | `Dequeue` |
| `process()`: revocation check | `RefuseRevoked` |
| `lockOutbox`: SELECT / UPDATE | `Check` / `Lock` |
| `generateAndPersist` up to `provider.generate` | `Generate` |
| the answer does not parse and is asked for again, up to `ReformatRetries` times | `Reformat` |
| an answer goes on to persistence / the provider throws | `Answer` / `ProviderError` |
| the last answer allowed does not parse: the row is failed, the error thrown | `Unparseable` |
| `persistGeneratedObservations` (transaction) | `Persist` |
| catch of `process()`, also after `Unparseable` | `MarkFailed` |
| a failing statement in `process()` | `StatementFails` |
| process death | `Crash`, then `Start` |
| boot sequence, in its order | `ReclaimStaleLocks`, `ReclaimTransientFailures`, `DrainBatch` |
| `runRetrySweep` | `SweepRetries` |
| clock | `BackoffElapses`, `GrowsStale` |
| retry/cancel over HTTP and CLI | `RetryRead`, `CancelRead`, `RetryWrite`, `CancelWrite`, `RetryPublish` |

An action is what happens between two awaits that somebody else can observe: one SQL
statement, or one transaction (it holds the row lock from its first UPDATE, and the
status is in the WHERE clause). An unparseable answer fails the row twice, as in the
code: once where it is noticed and once in the catch, and an operator may have requeued the
row in between. `calls`, `results`, `retried` and `forsaken` are history:
provider calls made (re-prompts included), results persisted, operator retries written, and the jobs whose worker
or last copy went down with a crash or a failing statement and that nobody has locked or
drained since.

Abstractions: the event and the summary queue are one pool of `Slots`, and `Dequeue` takes
any waiting copy of either lane in any order (a superset of the orders the queue allows,
as its refinement of `JobLanes` shows; the order itself is `InlineServerQueue`). A batch
of the drain or of a sweep takes every matching row; the LIMIT of 500 is above any number
of jobs that is checked. Audit and event-log rows are not state. The payload keeps only
whether it names its row. The scope-mismatch exit is left out: no writer of payloads in
the code produces a payload of another tenant.

### InlineServerQueue

A lane is its length. `add`, `addRecovery`, `start`, `close` and `settle` (the `finally`
of `run`) schedule a `drain`; everything may happen before the microtask runs. Two
microtasks with nothing in between do what one does, so `drainScheduled` is a flag.
The two loops of `drain` are closed forms (`liveStarts`, `recoveryStarts`).

### CapturePath

A hook is one process with one event. `Begin` .. `Post` is `observation.ts`: where the
event goes depends on what the hook finds (`Context`); `AppendLine` is `spoolEvent` (or
the enqueueing for the laptop's loop), `CountLines`, `ReadForTrim`, `Truncate`,
`WriteTrimmed`, `ReadDropped`, `ClearDropped`, `WriteDropped` are `trimSpool` and its
counter, one action per file access. `FlushRead/Send/End` are `spool-flush.ts`,
`PassRead/Entry/End/Write` `drainGenerationQueue`: both read the file once, act on every
entry and rewrite or remove the file at the end. `writeFileSync` truncates and then writes,
so every rewrite is two steps (`Truncate`, `WriteTrimmed`; `ClearDropped`, `WriteDropped`;
`PassEnd`, `PassWrite`) with an empty file in between; the flush only removes the spool, and
an append is one step. `Kill` ends a hook anywhere between two of its steps, `KillPass` the
process of a pass; a flush that is killed is one that takes no further step. Two passes may
run in one process or in two (two sessions on a machine). `appended`, `exposed`, `trimmed`
and `torn` are history: what a file was given, what was appended while somebody held a
snapshot he would write back, what a trim discarded, and what was only in the memory of a
rewriting process when that process was killed or another one that will write the file too
read it half-way; `uncounted` are the files that a hook trimmed and was killed before it
counted. What two rewrites that overlap to the byte leave behind is abstracted to the
content of the later one.

### ProjectIdentity and KeyStore

`Begin`, `Create`, `Adopt`, `Fill`, `upsertTeamAndProject`, `Gate`, `CheckHash`,
`insertApiKeyHash` follow `ensureProjectIdentity`; `Lock`, `BreakLock`, `ReadKeys`,
`WriteKeys`, `Unlock` are `withLock` around the credential file, with the retry and the
age of a stale lock; `BeginJoin` .. `Flip` is `applyConvertJoin`; `Pull` brings the
committed marker at any time. The exclusive create of the marker and its write are two
steps (`Create`, `Fill`), so are truncation and write when a join rewrites it (`Flip`,
`Merge`, which writes back what `Flip` read), and a reader in between sees a `torn`
marker. What a session
mints bears its name. `KeyStore` is the map that this must look like; its `disturbed`
is the death of a process with the lock in its hands (`Abandoned`).

### PoolRegistry

`Cached`, `First` are `getPool`; `Lookup`, `Create`, `Bootstrap`, `SeedHinge` are
`provision`, each of which may `Fail` and drop the entry; `Served`, `Query`, `Answered`,
`Leave` are callers; `Stop`, `CloseAll`, `Skip`, `End`, `EndBase` are
`ServerService.stop` around `closeAll`; `Elsewhere` is another process that creates the
bare database. Closing the queues is folded into `Workers`, which stop asking at
`CloseAll` and whose statements it awaits.

### ServerLaunch

| Code | Action |
|---|---|
| `start`: `findRunningServer`, `spawnServerDaemon` | `Look`, `Probe` |
| `EmbeddedPostgresManager.start`: adopt and heal, removal of a stale record, port guard, `instance.start`, `waitForReady`, record | `StartPostgres`, `RemoveStale`, `PortGuard`, `SpawnPostgres`, `WaitForReady`, `RecordPostgres` |
| `startLocalRuntime` | `Connect` |
| `runServerForeground`: pid file, port, `createServerService` and listen | `Claim`, `Knock`, `Listen` |
| `writeServerState` | `WriteState` |
| SIGTERM handler: `ServerService.stop` | `Close` |
| `memsmith stop [--all]`: look and signal, SIGKILL, `removeServerState`, `stopExternal` | `StopServer`, `KillServer`, `RemoveState`, `StopPostgres` |
| postgres, the OS | `PostgresReady`, `PostgresDies`, `Kill`, `Reboot` |

`pgPid` is `local-pg.pid` up to what a liveness check can tell: the postgres that runs,
a daemon (written where `postmaster.pid` cannot be read), a dead pid, or one that a
stranger has after a reboot. `state` is the server's pid file, whose start token does
tell a stranger. The look that finds a record stale and the unlink by name that follows are
two steps, and so are the look of a stop and its removal of the state files: what was written
in between goes too. `cut` says that a daemon died while it waited for the postgres that runs,
or that somebody unlinked the record of that postgres as stale; `unlisted` are the daemons whose state files a stop took that was meant for another one
(history). What `isRunning` reads is one step with the healing of the record, which writes
the pid that `postmaster.pid` names, whoever else has written it; `stopExternal` is one step:
it polls every 250 ms for the end of its postgres and then removes the record, and a new
postgres takes at least two seconds until it is recorded. The data directory
is initialised; a first, concurrent `initdb` is left out.

### TeamConvert

`Start`, `readRows`, `upsertRows`, `Applied`, `Refused`, `NextTable` are `runCopy` with
either transport; `Receive`, `InsertRow`, `RecordToken`, `ImportFails` are
`applyImportBatch`, row by row and without a transaction; `GiveUp` leaves the request
behind as one of the `strays`, which go on; `countLocal`, `countRemote`, `Mismatch`,
`Verified` are `verifyCopy`; `recordPendingJoin`, `Flip`, `NoFlip`, `clearPendingJoin`
the end of `ServerV1PostgresRoutes`' convert; `SessionStart` claims a note. Reads return
rows in any order (the code has no ORDER BY); `shuffled` remembers that one did. The
destination has no rows but what it imports: rows that its own workers or another machine
write for the project are left out, and with them the conflicts on which `ON CONFLICT DO
NOTHING` (`import-apply.ts:167-169`) drops an imported row.

## 3. What the runs check

Every bound is a constant of the module, used in a guard.

| Run | Bounds | Properties |
|---|---|---|
| `JobsSafety` | 1 job (a summary that is redelivered, with a revocable key), 2 attempts, no re-prompt, 2 slots, 1 copy per lane from redelivery, an operator over HTTP with 1 request, 1 crash with a prompt restart, 1 failing statement | `SingleGenerator`, `ResultsMatchStatus`, `CallsBounded`, `LocksAreHeld`, `NoStrandedRow`, `TerminalIsFinal`, `ImplementsLifecycle` |
| `JobsOperators` | 1 job with a revocable key, 2 attempts, 1 re-prompt, 2 slots, an HTTP and a CLI operator, 2 requests, 1 copy per lane from redelivery | `ResultsMatchStatus`, `LocksAreHeld`, `CallsBounded` |
| `JobsLiveness` | 2 jobs, one with nothing but plumbing, 2 attempts, 1 re-prompt, 1 slot, 2 crashes, restart after the lock threshold | `NoStrandedRow`, `Settles`, `DrainEnds` |
| `Queue` | 3 slots (so that the recovery budget is 2), 7 jobs | `SlotsBounded`, `NoLostWakeup`, `NoJobLost`, `ImplementsLanes`, `LiveFirst`, `LanesClear` |
| `Capture` | 2 hooks (team server; nothing reachable), 1 flush, 2 overlapping passes, cap 1, slack 0, 1 killed hook or pass | `NoSilentLoss`, `SpoolBounded`, `DropsShow`, `OwnProject` |
| `Identity` | 2 session starts and a join in one directory with a committed marker, 1 killed process, 1 failing statement | `OneIdentity`, `KeyUsable`, `NotSelfIssued`, `ImplementsKeyStore`, `EveryoneEnds` |
| `Pools` | 2 databases, a job, a request and a visitor of the other project, 3 provisions, 1 fault | `ReadyWhenServed`, `OnePool`, `StopLeavesNothing`, `StopEnds`, `RetryServed` |
| `Launch` | 3 session starts, 1 stop, 2 faults (kill, dead postgres, reboot) | `OwnPostgresAdoptable`, `StateNamesServer`, `ServerComesBack` |
| `Convert` | 3 rows in 2 tables, one of them without project column, batches of 2, 1 fault | `FlipIsComplete`, `SkipIsHonest`, `RetrySucceeds`, `NoteTakesEffect` |
| `JobsRedelivery` | as `JobsLiveness`, with 1 job, redelivery, 1 crash | violates `DrainEnds` |
| `JobsOutage` | as `JobsLiveness`, with 1 job, 1 crash, 1 failing statement | violates `DrainSurvivesOutage` |
| `IdentityTorn` | as `Identity`, without faults | violates `AlwaysOneIdentity` |

Why these bounds are enough. *Jobs*: jobs share nothing but slots, lanes and the boot
sequence, so one job with two slots already has every race for a row, and a second job
matters where the drain counts rows and jobs share a slot. Two slots and two copies give a
duplicate in flight beside the holder; one crash with everything else in flight is
`JobsSafety`, and the two of `JobsLiveness` put a crash between the recovery of another crash
and its end; of two attempts one is the first and one the last. One operator
request beside those is a reopening that races with a holder; two operators, without
crashes, are the race of two stale decisions. Re-prompts change nothing but the number of
calls and the length of an attempt, so `JobsOperators` and `JobsLiveness` have one and
`JobsSafety` has none. *Queue*: three slots are the smallest pool
with a recovery budget above one, seven jobs fill it twice over. *Capture*: with a cap of
one every second append trims, so appends, trims, flush and passes meet on both files; a
third hook adds no new window. `FlushesOrPasses` keeps states in which both a flush and a
pass have left their first state from being explored further: a flush touches the spool, a
pass the queue, they share no variable but the history of what was stored and judged, and
every property speaks of one file. *Identity*: two minters and one join are all pairs of
writers, the third process is the one that finds what a killed one left. *Pools*: a failed
provision, its retry and one after a crash are three; two databases show that pools are
not confused. *Launch*: two daemons race while a third comes later and finds what is left;
one fault wounds the postgres, the other the daemon that is repairing it. *Convert*: three
rows make two batches of one table beside another table, the smallest copy in which an
offset can be wrong. The proofs remove the bounds for the properties they cover.

The type invariants of the modules, and `LocksAreDated` of `GenerationJobs`, are proved
(section 5) and not run.

`CHECK_DEADLOCK FALSE` everywhere: a server with all jobs settled and no client left
has nothing to do, a process that has ended does not come back, and bounds run out.

Scope of the safety properties. Operators read, decide and update by id, so they
overwrite what happened in between (section 4). The promises about workers hold with them
because they say by how much: every operator retry written (`retried`) may let one more
worker in beside the holder (`SingleGenerator`), buy one more attempt
(`CallsBounded`, where an attempt is one provider call and the re-prompts the setting
allows) and lead to one more result (`ResultsMatchStatus`), and nothing else may;
a settled row changes only by the write of a request for it, or by a boot
(`TerminalIsFinal`). `LocksAreHeld` and `NoStrandedRow` hold in every state; what they
except is the single job that is `forsaken`: a crash or a failing statement took its worker
or copy, and nobody has locked or drained it since. A lock left behind like that is the
reclaim's business, which `Settles` is about, and jobs that are all plumbing leave theirs by
design. `NoStrandedRow` is about rows that a copy can find; a row whose payload a redelivery has
merged is not, and section 4 says what becomes of it.
Where another property excepts a case (an append inside somebody's
window, a rewrite killed or read half-way, a hook killed between a trim and its count, a marker
found half written, a process that dies with the credential
lock in its hands, a daemon cut off in the middle, a record of postgres unlinked as stale, a stop in a double boot, a memory deleted
during a convert), the case is one the code loses, and section 4 says how.

### Fairness

* `GenerationJobs`: weak fairness of steps a running process takes on its own (publish
  after commit, boot sequence, retry sweep, slots), of the clock, and of restarting a
  dead server; strong fairness of taking a waiting copy, because a slot that other
  copies keep occupying becomes free again and again and the lanes are FIFO. A provider
  call is assumed to end. Nothing is asked of clients, operators, crashes or faults.
  `JobsLiveness` assumes that a crashed server is started again only once its locks are
  older than the 30 minutes of the reclaim: with an earlier restart `Settles` is false.
* `InlineServerQueue`: microtasks run, a job's promise settles, the queue is started.
* `ProjectIdentity`: a living process goes on (its lock attempts are timed), and a lock
  file grows old.
* `PoolRegistry`: statements are answered, promises resume, a caller asks again.
* `ServerLaunch`: session starts keep coming, living daemons and stop commands go on,
  and a postgres that starts comes up. Stops and faults are free.
* `TeamConvert`: both servers go on, the user retries a convert that has not taken
  effect, sessions are started. That nobody deletes memories for ever is the bound on
  faults.


## 4. Where code and comments disagree

Three disagreements have a run (`PROJECT.json` quotes the lines):

* `JobsRedelivery`: the second delivery of an event makes its row's payload point
  nowhere; a later boot drain reloads that row for ever, and the retry sweep, which is
  started after the drain, does not run in that process.
* `JobsOutage`: the drain's loader answers a failing SELECT with an empty batch
  (`generation-drain.ts:158-159`), which `continuous-drain.ts:83` takes for an exhausted
  backlog. The retry with backoff, and the promise that "a transient outage must be
  survivable" (`continuous-drain.ts:31-32`), are never reached: one error ends the drain of
  that process, and the rows it had still to load wait for the next boot.
* `IdentityTorn`: the exclusive create of the marker and its content are two steps. A
  session that loses the create in between reads an empty file, takes it for unusable
  and overwrites it, and two sessions of one directory work under two projects.

The others were met while modelling; they have no run of their own. The properties state
what holds beside them.

*Jobs.*
The exit for jobs of agent plumbing reports completion and leaves the row in
`processing`. The lock reclaim makes rows `queued` that have no attempts left; nothing
picks them up or fails them. A restart within 30 minutes of a crash does not free its
locks, and no later sweep of that process does. A statement
that fails before the lock drops the only copy of a first attempt, which the retry sweep
does not select. Operators decide on one read and update by id: a cancel or retry
overwrites a completion it has not seen, two retries both publish, cancel-then-retry of
a running job lets a second worker in beside the first, and the retry of an exhausted
job buys one more attempt (`LEAST(attempts, max_attempts - 1)`). `memsmith server
jobs retry` publishes to BullMQ: on the local runtime the row it requeues has no copy and,
if it never ran, no retry time, so it waits for the next boot. With one slot
recovery occupies the last one, with two a second live job waits for a recovery job.
Drained summaries go to the event lane, because the stored job type is not `'summary'`.
Databases of other projects get one batch at boot and no continuous drain
(`create-server-service.ts:382`). Observations reach the SSE stream inside the
transaction that may still roll back.

*Capture.*
A failed event may be spooled twice by one hook, and the key that the server would
deduplicate by contains the time. Events spooled without a project take the project of
the session that flushes them. Lines appended between the read and the rewrite of a trim,
a flush or a pass are lost; overlapping passes generate the same entry twice; two trims
count their drops on top of the same old counter. A rewrite truncates the file before it
writes: a hook or a loop killed in between leaves an empty file and counts nothing, and a
pass that reads the emptied queue keeps nothing and removes it (`local-queue.ts:46-48`), with
what the other pass has written by then.

*Identity.*
The insert of a key's hash is `ON CONFLICT (id)`, while the constraint that two sessions
meet is the one on `key_hash`: the losing session fails instead of going on. A stale
lock may be removed twice, the second time from its new owner; then one of two updates
of the credential file is lost. A join's rewrite of the marker is torn like its creation:
who reads it half-way takes it for unusable.

*Convert.*
Import tokens name a batch by table, offset and length (`copy-transport-https.ts:37-47`,
`import-apply.ts:122`), and rows are read without ORDER BY: after a deletion, or if the
order changes, a token that was already honoured stands for other rows, which are skipped.
A row missing at the team server under a recorded token is never sent again: every retry
ends in `verify_failed`. Counts are compared, not rows: a memory deleted here while
another is captured, or two converts of one project at once, can make the counts agree;
where the destination writes rows of its own they are counted too, and imported rows that
meet one of its unique keys are dropped without a word.
Rows captured between the count and the flip stay behind. A convert over HTTPS leaves no
pending note, though its comment says that the session hook will apply it.

*Pools.*
The pool of a failed provision is never ended. A caller that comes between `closeAll`'s
clear and the end of the process leaves a pool open; a provision that fails then removes
the entry by name, which may be a newer one. A caller without team id decides the
outcome of the shared promise for everybody who waits on it. Jobs are cut off by
`pool.end()` during a stop.

*Launch.*
Two session starts can both pass the guards and boot; the loser dies at `listen`, after
its workers and recovery have started (`create-server-service.ts:271`), and leaves the
rows it had locked to a boot 30 minutes later.
`docs/superpowers/specs/2026-07-24-start-autodaemonize-local-design.md:65-66` says
"never double-booted or port-collided". A stop in the middle of a double boot removes the
state files of the server that comes up; a stop while the only server boots does nothing.
A daemon killed between starting postgres and writing `local-pg.pid` leaves a postgres
that every later start refuses as foreign; so does a daemon that unlinks a stale record
(`EmbeddedPostgresManager.ts:195-197`) which another one has replaced since the look at 171.
A stop that finds no server removes the state files after its check, and with them those of a
server that has come up in between. `local-pg.pid` carries no start token: a
recycled pid in it passes for a running postgres, and none is started. A postgres that
dies under a serving server stays down, because `start` reuses the server.

## 5. What is proved

TLAPS checks the theorems for every value of the constants that satisfies the modules'
assumptions (`MaxAttemptsAssumption`, `ConstantsAssumption`, `QueueAssumption`,
`CaptureAssumption`, `IdentityAssumption`, `RegistryAssumption`, `LaunchAssumption`,
`ConvertAssumption`): finite or non-empty sets, bounds that are natural numbers, values
that differ. The bounds of the runs disappear with them.

| Module | Theorem | States |
|---|---|---|
| `GenerationJobsProofs` | `TypeCorrect`, `LocksDated` | types; a processing row carries its lock's time |
| | `OneWorkerPerJob` | `SingleGenerator`: at most one worker, and one per operator retry |
| | `ResultsCorrect`, `TerminalFinal` | `ResultsMatchStatus`, `TerminalIsFinal` |
| | `ProviderCallsBounded` | `CallsBounded` |
| | `OutboxImplementsLifecycle` | `JobLifecycle` is implemented |
| `JobStrandingProofs` | `NobodyStranded` | `NoStrandedRow`, when operators use HTTP |
| | `LocksHeld` | `LocksAreHeld` |
| `InlineServerQueueProofs` | `TypeCorrect`, `PoolBounded`, `WakeupsKept`, `JobsConserved`, `StrictPriority` | the queue, for any concurrency |
| | `LanesImplemented` | the queue implements `JobLanes` |
| `CapturePathProofs` | `CaptureTypes`, `NothingLostSilently`, `SpoolStaysBounded`, `ProjectsKept`, `DropsAlwaysShow` | the capture path, for any hooks, flushes and passes |
| `ProjectIdentityProofs` | `IdentityTypes`, `OneProject`, `NeverSelfIssued`, `KeysUsable` | markers and keys, for any sessions, joins and directories |
| | `StoreImplemented` | the credential file implements `KeyStore` |
| `PoolRegistryProofs` | `RegistryTypes`, `ServedReady`, `SingleFlight`, `NothingLeft` | the registry, for any databases and callers |
| `ServerLaunchProofs` | `LaunchTypes`, `ServerNamed`, `PostgresAdoptable` | the launch, for any number of daemons |
| `TeamConvertProofs` | `ConvertTypes`, `FlipsComplete`, `SkipsHonest` | the convert, for any tables, rows and batches |

**Workers.** All of these hold with operators, crashes, failing statements, redeliveries
and revocations. `SingleGenerator` counts, and so does its invariant. `HoldersCounted`:
the slots that hold a job, and one more while its row can still be taken (absent or
`queued`), are at most `1 + retried[j]`. `Locking` is the one
step that adds a holder, and it takes a `queued` row; every statement that makes a row
`queued` again is either an operator's (`retried` grows by one), or its author lets go of
the row in the same step (`MarkedFailed` by the holder), or runs when the holders are gone
or known: `IdleWhenDown` says a server that is down holds nothing, so the boot starts
without holders; in its first phase no held row is `stale` (`HeldFresh`), because
`GrowsStale` models that what was locked since this boot is younger than the threshold
when the boot's first statements run. `SoleInv` is the conjunction with the types. That
the row is the lock and not its owner shows in the arithmetic: a worker whose row was
taken away still counts as a holder until it notices.

A result is only written with the transition to `completed`, which a settled row refuses;
so results are paid for by openings (`ResultsCorrect`). A terminal row changes by a boot
or by an operator's write (`TerminalFinal`), and every step is a step of `JobLifecycle` or
leaves its state alone (`OutboxImplementsLifecycle`); `KnownRequests`, that requests are
for rows that exist, is what the abstract `Retry` and `Cancel` need. For
`ProviderCallsBounded` the invariant `CallsPaid` says that every call has been paid for
with an attempt or a retry, each of which is worth `1 + ReformatRetries` calls (`Worth`): the
calls made for a job and those that its workers may still make (`Pending`, a set with one
member for each of them) fit the attempts burnt in this process and the `Budget` of earlier
processes and retries; the revival at a boot, which resets attempts, is paid by the process
that died. The lemmas
about statements (what a transition, a failure, a reclaim and an operator's UPDATE do to
each field of a row) and about counting slots come first in the module.

**Stranding.** A drainable row is in somebody's hands: unpublished, in a lane, with a slot
that has not locked it, about to be published by the operator who reset it, ahead of the
boot's sweeps, or with an attempt and a retry time that the retry sweep will select.
`TakenPaid` adds what induction needs: a row in `processing` has an attempt on it, so what
`markGenerationFailed` requeues has both. The lemmas go through the steps by what they do
to a row and to its waiting copies; `HandsKept` is the usual case, a step that takes
neither away. Failing statements are part of it: `TakenBack` says that a job stops being
`forsaken` only by being drained or locked, so a step that strands a row has to show it in
`forsaken'`. The hypothesis of `NobodyStranded`, `CliOperators = {}`, is what the code
needs: the CLI publishes to a queue that the local runtime does not have. For `LocksHeld`,
whoever stops working on a row takes it out of `processing` in the same step, or dies, or
fails to.

**Queue.** `NoLostWakeup` and the counting invariant are inductive together with the
types and the bound on the slots. Under that invariant every step is one of `JobLanes` or
leaves the lanes alone (`LanesImplemented`): what one `drain()` starts fits the free slots
and is what leaves the lanes, and a settling job gives back a slot that was taken.

**Capture.** `Owed` are the entries that were neither appended inside somebody's window nor
caught in a torn rewrite. `Traced` says that each of them is settled (stored, judged or
trimmed) or `Safe`: it is in the file, or in the hands of a process that is writing it back
right now (`InHands`), and in the snapshot of every process that will rewrite or remove that
file. A new line is in nobody's snapshot, so it is safe exactly when nobody holds one; a
truncation by one of them leaves everything that is owed in what that one writes next.
`DropsShow` goes file by file: a
trimmed entry has raised the counter, or a hook between its trim and its count is about to,
or that hook was killed there.

**Identity.** `Filling` says that who is about to write a marker (`Writing`, a session that
has created it or a join that has emptied it) is the only one, unless somebody found it half
written; so what it writes is what sessions of the directory read or minted (`OneProject`). `Issued` follows
the key of the committed team: markers of that team name a server, so a session that
adopts one knows it (`SessionsKnow`) and does not mint (`ServesTeam`: also while a join has
the marker open), and what files and snapshots hold
for that team was brought by a join (`NeverSelfIssued`). `Exclusive` says that, as long as
nobody died with the lock in his hands, the lock has the owner who thinks so, and what he
read is what the file holds; then every write is a step of `KeyStore` (`StoreImplemented`),
and `KeysAgree` ties the database's hashes to the file (`KeysUsable`). Deaths anywhere else
are covered: they leave no lock, so nothing is ever broken as stale.

**Pools.** `RInv` says that, before `closeAll`, the map's entry of a database is its one
provision that has not failed (`Unique`); that afterwards each of those is awaited, ended
or late (`Awaited`, `Drained`); and what provisions and callers hold (`Provided`, `Held`).

**Launch.** `OneListener` (who has the port has it alone) and `FilesNameServer` (a daemon
named by the files serves or closes) make `StateNamesServer` inductive, through any number of
stops: a stop that was meant for another daemon puts the one it unlists in `unlisted`.
`OwnPostgresAdoptable` is inductive with them: only the daemon that waits for this very
postgres can owe it the record, and if it goes first, or somebody removes the record as stale
after it was written, `cut` says so until that postgres ends.

**Convert.** Until the project changes over, and unless rows are deleted here,
`NothingForeign` says that whatever is at the team server or on its way is a row of this
side, `CountedBefore` that it was in the count taken here. So equal counts mean equal
sets, because a subset of a finite set with its cardinality is the set, and
`EqualArrived` keeps that until the flip. For `SkipsHonest` a token is a place: table,
offset and length. While reads come in order and nothing is deleted, the rows of a table only
grow at its end, what has been sent is a beginning of the table, and a beginning is
determined by its length; so two batches with the same token are the same rows, imports carry
the rows that their token names, a row that an import has inserted is there, and a token
is recorded only when all of its rows are.

Only model-checked: liveness (`Settles`, `DrainEnds`, `LanesClear`, `EveryoneEnds`,
`StopEnds`, `RetryServed`, `ServerComesBack`, `RetrySucceeds`, `NoteTakesEffect`), which
needs fairness and ENABLED. Every safety property that a run checks has a theorem.

## 6. Not modelled

`PROJECT.json` has a reason for every component. In short:

* *Handled elsewhere:* the BullMQ runtime (delivery is Redis and a library; its worker's
  handler is the one that is modelled), the download of the postgres binaries and a
  first, concurrent `initdb`.
* *One atomic statement or one call:* rate limits, session reclaim, embedding backfill,
  the choice of a provider, `repoint-local-key.ts`.
* *Not reached yet:* rows of other projects' databases, joins by invitation, the team
  server in the foreground, `purgeProjectMemory`, SSE publication.
* *Data, presentation, I/O:* prompting and parsing, retrieval and ranking, settings,
  transcripts, installer, viewer, MCP adapters. They are most of the code's lines:
  request routing, SQL text, templates and shell-outs whose result nothing concurrent
  depends on, and vendored or bundled copies of the same sources (`plugin/scripts`).

## 7. Plan

1. Done: outbox, worker, boot, operators and their abstract lifecycle; inline queue;
   capture path; identity and key store; pools; launch; convert; proofs of their safety.
2. `InlineServerQueue` and `GenerationJobs` meet in `JobLanes`; left is their composition,
   so that the priority of live jobs and the outbox can be stated together.
3. Boot recovery over several databases through the pool registry, with the one-batch
   drain of the others.
4. Observations published before the commit, and joins by invitation.
5. The double boot of `ServerLaunch` as a second process of `GenerationJobs`.
