# A TLA+ verification of paranoid

paranoid is a Rust library for programs that coordinate through one Postgres
database: leases, mutexes, a job queue and a family of smaller primitives
(once, cron, cache, topics, throttling), next to a few local tools. Its processes
share no memory. They meet in rows, every call may time out on one side and
commit on the other, and every process may stop at any await. This project
models the parts that carry that coordination, checks them with TLC on small
instances, and proves with TLAPS, for every size, each of their safety properties
that holds.

`PROJECT.json` lists components, runs, mutants, findings, hazards and theorems, and
maps every definition to the lines it stands for.

## Inventory

| component | state | operations | talks to |
|---|---|---|---|
| lease (`db/lease`) | a row per key (holder, fencing token, lease token, expiry); a durable fencing counter per key | claim, renew, release, fetch live holder | Postgres, by single statements |
| mutex and guard (`db/fleet/mutex*.rs`) | the current claim behind an async mutex, stop and lost flags, a heartbeat task | acquire, renew, run a task, release, drop | lease |
| semaphore (`db/fleet/semaphore.rs`) | one expiring key-value row per slot | take a free slot, release, wait, reset | key-value store |
| once (`db/fleet/once*.rs`) | a completion record, a mutex | run, run atomically with the record, reset | mutex guard, key-value store |
| cron (`db/fleet/cron.rs`) | the leadership of a tenure | acquire, run the task at each interval, step down | mutex guard |
| coalescing cache (`db/fleet/cache.rs`) | value with epoch, epoch, compute mutex | fetch or compute, set, invalidate, invalidate all | mutex guard, key-value store |
| topic (`db/fleet/topic*.rs`) | events numbered by a counter, a cursor per subscription, a polling mutex | publish, read, advance, poll, purge | key-value store, mutex |
| throttler, rate limiter, circuit breaker | one state record: tokens, slots, failures, circuit, probe | acquire, release with outcome, probe heartbeat, open, close, reset | key-value atomic mutation |
| counter (`db/fleet/counter.rs`) | one number | add, read | key-value atomic mutation |
| key-value store (`db/kv`) | rows with an expiry | get, set, delete, touch, atomic mutation, purge | Postgres |
| queue tables (`db/queue/sql`, `operations`, `api`) | jobs, dead letters, pause rows | enqueue, claim, start, heartbeat, finish, retry, requeue, cancel, reclaim, clean up | Postgres |
| queue worker (`db/queue/worker_*.rs`) | execution slots, shutdown signal, grace period | claim and spawn, execute, finalize, drain, clean up | queue tables |
| fleet maintenance (`db/queue/worker_maintenance.rs`) | a cancellation signal, three tasks | reclaim and cleanup on a schedule | cron, queue tables |
| protocol admission and bootstrap (`db/protocol*.rs`, `bootstrap.rs`) | the active epoch; what a transaction has admitted | admit, bootstrap an installation | Postgres, schema ledger |
| schema ledger (`db/schema_*.rs`) | a version row per component | claim or lock the row, plan, run and record a migration | Postgres |
| local process lock (`local_lock.rs`) | a lock file with owner and heartbeat | acquire, reclaim, refresh, release | the file system |
| local environment vault (`local_env_vault`) | one sealed file | configure, validate a profile, run a command with it | local process lock, cryptography |
| CSRF tokens (`web/csrf`, `web/cookies`) | nothing on the server but its keyset; the cookie in the browser | issue, verify, self-heal, cycle | keysets, the browser |
| crypto, other cookies, ids, query building | bytes and text | pure conversions | -- |

What is hard in it:

- **Time.** A statement judges expiry by `statement_timestamp()`, fixed when the
  statement began; it may run long after, when it gets its row lock.
- **Snapshots.** Under READ COMMITTED a statement re-reads only the rows its snapshot
  held. A row deleted and inserted again is not seen, a row locked by another
  session is skipped.
- **Unknown outcomes.** A call that returned an error may have committed, or may
  still commit. A future dropped at an await leaves the server running.
- **Notifications.** `notify_waiters` wakes those who wait already; a flag has to
  carry the news to everyone else.
- **Ownership by name.** Queue rows are guarded by the id of the worker, not of the claim.
- **Transactions of the caller.** Most calls also exist inside a transaction the caller
  opened: rows stay locked and effects invisible until it ends, one way or the other.

Correctness, part by part: a lease has at most one authority and its fencing
tokens only grow; a guarded run reports success only if nobody came between, and
always ends; a run-once task takes effect once; leadership of a cron is handed on and regained; a cache
does not serve what was invalidated; a subscription passes no event over; a counter loses no addition, a scan no key; two handlers of a job that were not told to end run at once only by an operator's or a reclaim's doing, a job is never
lost, never retried beyond its budget, and is active at most once per dedupe key;
a stopped worker leaves nothing it started and all its tasks end; a throttler keeps its rate, its number of
concurrent tasks and its single half-open probe; work is done under the epoch it was admitted to; the ledger says what the
tables are; a lock file has one owner unless a removal races; a vault is whole and what unlocks it decrypts it;
a browser is not refused for ever, nor admitted under an identity its token was not issued to.

## Modules

    FencedLock            what a lease promises: ever larger grants, one live at a time
      LeaseStore          lease row, fencing counter, statements, clients; implements FencedLock
        MutexGuard        guard, heartbeat and run over LeaseStore
      GuardedKey          the mutex as its users see it: FencedLock, claims, guards, lost answers
        Once              completion marker, plain, atomic and manual runs
        Cron              tenures and the continuous loop
        Cache             entry, epoch, computation under the mutex
    Topic                 sequence, events, cursor, polling loops
    KvStore               rows, single statements, atomic mutations, counter, scan, cleanup
    Semaphore             slots as rows of the key-value store
    Throttler             the throttler's record, callers and probe heartbeats
    QueueStore            job rows and the statements that move them
      QueueWorker         loop and once workers over QueueStore
      QueueTransactions   the same rows inside transactions of several sessions
    QueueRuntime          run loop, maintenance crons, supervisor; retry backoff
    Protocol              admission, savepoints, bootstrap
    SchemaLedger          planning and running migrations
    LocalLock             the lock file
    Vault                 the vault file and the sessions that edit it
    Csrf                  the CSRF cookie between tabs and servers
    MC*                   model values for TLC; one .cfg per run
    LeaseStoreProofs      theorems about LeaseStore
    MutexGuardProofs      about MutexGuard, over those
    FleetProofs           about Cron, Cache, Once, over lemmas about GuardedKey
    QueueProofs           about QueueWorker and QueueTransactions, over lemmas about QueueStore
    TransactionsProofs    about Protocol and SchemaLedger
    RequestsProofs        about Throttler and Csrf
    StoresProofs          about KvStore, Topic and Vault
    LocksProofs           about LocalLock, Semaphore and QueueRuntime

A run has a fixed cost, so components that share nothing share a run: the MC module
EXTENDS them all, a variable `cast` chosen at the start says which component a behaviour is
about, and the others stand still. The states of such a run are the sum of theirs, not the product.

### FencedLock, LeaseStore

`FencedLock` has three variables, the `fence` of the grant in place, whether it is `live`, and the `last` fence handed out. It is
granted anew only where nothing is live, renewed, released, or lapses, and a fence may be drawn in vain. `ImplementsFencedLock` says that the lease tables do nothing else.

LeaseStore models one key. `lease` is its row and `counter` its row of the fencing table; 0 in a
fence means that there is no row, which the CHECK constraints of the schema make
unambiguous. A call is two steps. The first (`TryClaimLease`, `TryRenewLease`,
`ReleaseLease`) draws the token, fixes the statement's timestamp `ts` and remembers in
`saw` which stored tuple the snapshot held. The second (`ClaimFinish`, `RenewFinish`,
`ReleaseFinish`) evaluates the statement against the newest rows with that old `ts`,
commits, and tells the client or not (`delivered`). `StatementRollsBack`,
`Abandon` and `DropClaim` are the failures. The CTEs of the claim are operators of their own:
`ExistingLease`, `Claimable`, `NextFencingToken`, `UpsertApplies`. Random tokens are the smallest
number known nowhere, a renaming of the 128-bit draws, whose collisions are excluded.

### MutexGuard, GuardedKey

`owner` is the program counter of the future that runs the task, `heartbeat` that of the
spawned renewal task. They share `current` (whether `current_claim` is Some), the
async `lock` around it, and two flags. Each action is the code between two awaits. A
notification has no state of its own: a heartbeat that sleeps may always wake, one that does not sleep misses it,
and the flag decides. Every way out is there: normal end, task error, loss before or
during the task, protocol failure on release, other release errors, and a caller
that drops the future in any state, after which the task spawned by Drop takes over.
A client outside `Guarded` uses the manual-renewal calls at will.

`GuardedKey` is that machinery from outside, over FencedLock, which LeaseStore implements: a call is granted, refused or
errs with its claim granted to nobody (`ghosts`); a guard's claim may lapse under it, its renewals may be
refused or go unacknowledged; a dropped guard leaves an orphan whose cleanup returns later or not at all. `Once`, `Cron` and `Cache` are written over it.

### Once

`done` is the marker, named by the run that wrote it. A plain run tests `leadership_lost`, records in
a transaction of its own and then releases; an atomic run renews its claim inside the task's transaction, so
that the row lock of the lease orders it against a takeover; a manual run renews, records and releases together. Every commit may stay
unacknowledged, after which the release tries the renewed and then the original claim. A reset claims the key and removes the marker.

### Cron

Each loop is a program counter with a stop flag that may be raised at any await. Acquisition, ticks, losses between and during ticks, task errors with
their policy, release and the delay before the next acquisition are actions; retryable and other acquisition errors differ, as in the code.

### Cache

The entry carries the epoch it was computed under. A fetch reads entry and epoch in two transactions, first without and then under the
mutex; a computed value is stored by a statement that is not fenced and may stay in flight after its call is gone.
`invalidate` takes the mutex, `invalidate_all` advances the epoch without it.

### Topic

A publisher locks the sequence item until its transaction ends, so numbers become visible in order. Readers move the cursor in their own
transaction; polling loops hold the mutex, hand a batch to the handler, and move the cursor with a monotone update. Since the mutex may be lost at any time, the model lets loops overlap freely and
omits it. `handled`, `published` and `excused` are history: what was accepted, what became visible, and what expired, was purged or jumped over.

### KvStore, Semaphore

A transaction locks its row by one statement (`SELECT ... FOR UPDATE`, or the insert of a placeholder), lets the callback decide and
updates or deletes. A statement that waited judges expiry by the time it was sent (`asked`). When it finds neither a row nor room to insert it is sent again, up to
`LockAttempts`. `SetBytes`, `SetBytesIfNotExists`, `SetKeyTtl`, `DeleteKey` and the others are single statements, judged by a time at most one tick old. A scan goes by pages after the last key; a
cleanup goes by batches that skip locked rows. The counter is a transaction that adds and checks for overflow.

A semaphore slot is taken by ensuring its row and updating it if it is free or has expired; release deletes it if the holder id is still in it.
Callers use generated holder ids: with `*_for_holder` a caller that uses one id twice can release its own later claim, which is the documented meaning of a holder id.

### QueueStore, QueueWorker, QueueTransactions

`jobs[j]` is the row of a job in whichever table it is; `status` says which one. The
SET clauses are row functions (`ReturnToPending`, `ScheduledRetryRow`, ...), the calls are
actions over sets of rows, since every batch statement skips rows that are locked
and stops at its LIMIT. `stale` abstracts the age of the heartbeat, and whether a
pending row is due is left open. `held` are rows locked by a claim whose worker has
given up on it: they are claimed later or not at all.

QueueWorker adds the run loop (`worker`), the shutdown signal, the grace period and one
record per execution slot (`exec`). A task marks its row started, runs the handler beside a heartbeat,
persists the outcome and, if that fails, requeues the job. `retry` in a slot is the worker's copy
of the count at claim time, as in the code. Database calls of a task are guarded by
`OwnsJob`, the worker id alone, and may fail with or without effect (`MaybeSetRow`).
`displaced` and `taken` are history: which tasks and jobs were taken from their worker by a force requeue or a stale reclaim.

The handler is a spawned task of its own. A timeout or a lost heartbeat aborts it and waits until it has ended. A worker that gives up
(grace period over, an error of the loop, a dropped once worker) joins only the outer tasks, and their drop tells the handlers to abort
(`AbortAll`, `Remains`): such a handler runs on, place `aborted`, until it meets an await (`AbortedHandlerEnds`), while the cleanup already returns
its row and another worker may start it.

QueueTransactions opens the step. Each session has a transaction of up to `MaxCalls` calls; a call takes a
snapshot, then locks what it selected and still selects after the recheck of READ COMMITTED (`LockedVersion`), then writes, and what it
did not get it reports from the snapshot, as not running or as locked. Versions become visible at commit. Producers insert against the partial unique
index and look the duplicate up in a second statement. A session may be a worker's, an operator's and a producer at once, with all its calls in one transaction.
A session whose call returned an error rolls back, and what its enqueues were told is void; a caller that
commits after such an error is outside the protocol. Behaviours begin in tables that earlier calls have left (`LeftRows`).
`StopClaiming` is the manual worker that decides to claim no more and returns what it has.

Left open: the pause check of an enqueue is one step with the insert; ordering and
due times of pending jobs; the payload.

### QueueRuntime

The three tasks and the supervisor are program counters; the cancellation signal is the flag `requested` and the set of futures that
exist, so that test, creation, second test and sleep of a waiter are separate steps, as are setting the flag and waking. The supervisor is
`tokio::select!` over the three handles, followed by the shutdown of the other two and `CombinedFailures`. The reclaim and cleanup duties are their batches. `Backoffs` is the
computation of a retry's delay, with floor, cap and jitter. It has no state: TLC evaluates `BackoffIsBounded` over all policies of small durations.

### Throttler

`state` is the record of one throttler, with any of its three parts configured (`HasRate`,
`HasSlots`, `HasCircuit`); the rate limiter and the circuit breaker of the library are
that record with one part. A mutation is two steps: the lock statement is sent (`NewCall` fixes its timestamp and whether
its snapshot held the row), and it commits with that timestamp, however old (`CommitAcquire`,
`CommitRelease`, `CommitExtend`). A row deleted under a waiting statement makes it insert a new
one; a row inserted under it makes it come back empty and be sent again (`LockAgain`). A commit may stay unacknowledged.
A caller acquires, runs its task, releases with an outcome, or is dropped, whereupon the task spawned by Drop
releases; it may crash anywhere. A probe has a heartbeat task of its own. Operators open and close the circuit and reset the record, and
`PurgeExpired` is the purge of expired keys.

Tokens are counted in units of 1/Interval of an operation, so refill is exact; the
rounding of the f64 bucket is left out. Callers use generated holder ids, one permit each. An operator's
call is one step, a release that returned an error takes effect before the caller
goes on or not at all, and the failure count saturates at `MaxCount` (u32::MAX in the code). `permit` keeps until when slot and probe count,
as the last acknowledged answer told the caller, which is what the properties speak of; an operator's override
ends it. `rate` is history: operations admitted, the time up to which tokens were paid out, and the time that was paid out twice (`PaidOut`). The record lives
`StateTtl`, ten times the longest duration in the code; the instances take little more than one duration, which lets
it expire under waiting statements.

### Protocol, SchemaLedger

A session of Protocol is a transaction of the application: it admits itself at its first call (shared lock, read of the epoch, memory
of it), may set savepoints and return to them, which gives locks back, and may run at an isolation level that `Admits` refuses. `Activate`, the change of the epoch under an exclusive
lock, is not in this repository and is marked external. A bootstrap is one transaction under the advisory lock: it inspects relation, ledger and
component tables, decides what it may create or adopt, and creates the rest; it retries when the code does.

SchemaLedger has processes with releases of different age. `ClaimRow` and `LockRow` are the two statements at the head of a migration, `Plan` the
planner with `Walk` for its chain of steps, a function from targets to plans, then execution, validation and `RecordCompletion`, in a transaction that may fail at each point. The components of this release declare no upgrade
steps of their own; the module takes them as a parameter, as the planner does.

### LocalLock, Vault

A lock file is its creator, its text (none, empty or a lease) and its age. Each file operation is a step. A process writes only to the inode it created. The removals name the
path alone, so each is a step that removes what is there by then. History: `stalled` are the owners that let their file grow old and have not written to it since,
`upset` says that some file has grown old or some write has failed, `moved` are the processes since whose last look at the path it was created or written, and `raced`
that one of them removed what is there all the same. `Ghost` stands for the process that left the file found at the start.

A vault is its identity, its password and its entries, each a pair of plaintext and the vault and password it was sealed under. A configure session holds the process
lock, as LocalLock has it from outside; each edit is staged in a temporary file and renamed over the vault if the lock is still held. Validating a profile and running a command under one read without the lock.

### Csrf

The servers keep no state but their keysets, so the state is the browser's: the cookie in its jar, the identity its other cookies stand for, and a request or
response per tab. Serving is one step; a safe response carries the cookie that was decided before the inner service ran. The nonce of a token serves only to tell
tokens apart; what verification tells apart is whether the header has the token of the cookie, which is a boolean of the request. `layered` is CsrfLayer, with
self-healing; without it the application uses the protector's calls. Keys are added server by server and retired once the latest is everywhere (the deployment, external).
`armed` and `refusals` are history: which servers have answered under the present cookie, and how often a page that retries has been refused, with nothing else having changed.

## Runs

| run | components, and what it shows | instance and why it is enough |
|---|---|---|
| `fleet` | lease: one authority, fresh fences, no takeover, `ImplementsFencedLock`; guard: `SuccessMeansUninterrupted`, `StatementsHoldTheLock`; once: `RanWasExclusive`, `CompletionIsFenced`, `AtomicTaskTakesEffectOnce`, `EndedRunFreesKey`; topic: `NothingIsPassedOver`, `CursorIsMonotone`, `StopKeepsPlace` | two lease clients under one holder id (the harder case), durations 1 and 2, two sessions, clock to 2: a lease expires under an open statement, is taken over, released and claimed again; with a guarded client, clock to 1, two renewal failures; two users of a task, three grants, one lost claim, one reset; two publishers and two polling loops, two events, one operator move |
| `mutex_guard` | `RunReturns`, `HeartbeatStops`, `LossIsNoticed` | a guarded and a manual client, one session, fairness |
| `queue_workers` | `OnlyCancelledHandlersOverlap`, `DisplacedTaskIsLost`, `RetryBudget`; `StopIsReached`, `OrphansAreRecovered`, `LostHandlerIsCancelled` | a loop and a once worker of one slot, one job, one retry, fairness |
| `queue_tables` | `OneActiveJobPerKey`, `CleanStopOwnsNoStartedJob` | two jobs, one dedupe key, a loop worker with two slots: both jobs may be executing when the worker is stopped, and every table operation meets them; the queue is paused only while there is one job |
| `transactions` | queue: `EffectsMatchCompletions`, `NotRunningIsFinal`, `StartIsNotUndone`, `OneActivePerKey`, `DuplicateExists`; protocol: `WorkIsUnderSupportedEpoch`, `CreatedProtocolIsComplete`, `UnknownStateIsNotAdopted`, `RefusalHasACause`; ledger: `LedgerDescribesTables`, `OnlyPlansAreRefused`, `PlanIsTheOnlyChain`, `SchemaNeverGoesBack` | sessions of two workers, an operator and two producers, in casts of two or three, one worker's session being a producer as well; two sessions, two bootstraps and two epochs; two migrators of releases with different steps |
| `requests` | throttler: `ConcurrencyBound`, `RateBoundUpToRewind`, `ProbeIsExclusive`; CSRF: `AnsweredIsAccepted`, `RefusalsAreBounded`, `AcceptedForItsIdentity` | one slot, one operation per tick, threshold 1, window 2; two callers with operators, clock to 3, or three with resets, clock to 2; two tabs at one server, or one tab at two servers that go through one rotation, two identities, one expiry |
| `cron` | `CronRanWhileLeading`, `LeadershipIsHandedOn`; `StopIsObeyed`, `LeadershipIsRegained` | a continuous loop beside a single run or another, or one tenure beside a single run; two grants, one lost claim; fairness |
| `locks` | file: `OverlapNeedsARace`, `RaceNeedsAnUpset`, `DisplacedHolderLearns`, `AbandonedFileIsCleared`; semaphore: `SlotHasOneHolder`, `WaiterIsServed`; runtime: `RuntimeResultIsTruthful`, `StopEndsEverything`, `BackoffIsBounded` | two processes, one crash; two callers for one slot, two acquires each, one reset; every task of the runtime; the retry policies over durations to 4; fairness |
| `stores` | key-value: `CounterIsExact`, `PlaceholderNeverSurvives`, `OneCreatorPerLife`, `ScanMissesNothingStable`, `CleanupIsComplete`; cache: `InvalidateAllIsFinal`, `InvalidateIsFinal`, `ComputationIsCoalesced`; vault: `VaultIsWhole`, `UnlockedVaultDecrypts`, `SessionSeesTheFile`, `ReadyStaysReady` | two transactions, three items in pages and batches of one, clock to 2; two fetchers, one invalidation, two grants; two sessions, two names, two passwords, two vaults |
| `queue_siblings` | `DisplacedTaskIsLost`, violated | one job, one worker with two slots |
| `throttler_rewind` | `RateBound`, violated | up to four callers at one operation per tick |
| `local_lock_race` | `ExclusiveOwnership`, violated | two processes and an old file |

The table names the parts; a cfg names conjunctions of them, with the type invariant of the module among the conjuncts:

| in the cfg | conjuncts |
|---|---|
| `GuardIsSound` | `GuardTypeOK`, `SuccessMeansUninterrupted`, `StatementsHoldTheLock` |
| `GuardWindsDown` | `RunReturns`, `HeartbeatStops` |
| `OnceIsSound`, `RunsAreFenced` | `OnceTypeOK`, `RanWasExclusive`, `AtomicTaskTakesEffectOnce`; of every step `CompletionIsFenced`, `EndedRunFreesKey` |
| `TopicIsSound`, `CursorIsKept` | `TopicTypeOK`, `NothingIsPassedOver`; of every step `CursorIsMonotone`, `StopKeepsPlace` |
| `TablesAreSound` | `QueueTypeOK`, `OneActiveJobPerKey`, `CleanStopOwnsNoStartedJob` |
| `TransactionsAreSound`, `AnswersAreTrue` | `TransactionsTypeOK`, `EffectsMatchCompletions`, `StartIsNotUndone`, `OneActivePerKey`; `NotRunningIsFinal`, `DuplicateExists` |
| `BootstrapIsSound` | `ProtocolTypeOK`, `CreatedProtocolIsComplete`, `UnknownStateIsNotAdopted`, `RefusalHasACause` |
| `LedgerIsSound` | `LedgerTypeOK`, `LedgerDescribesTables`, `OnlyPlansAreRefused`, `PlanIsTheOnlyChain` |
| `CircuitIsSound` | `ThrottlerTypeOK`, `ProbeIsExclusive` |
| `TenuresEndInOrder`, `CronMakesProgress` | of every step `CronRanWhileLeading`, `LeadershipIsHandedOn`; `StopIsObeyed`, `LeadershipIsRegained` |
| `FileIsExclusive`, `SemaphoreIsSound`, `RuntimeIsSound` | `LockTypeOK`, `OverlapNeedsARace`, `RaceNeedsAnUpset`; `SemTypeOK`, `SlotHasOneHolder`; `RuntimeTypeOK`, `RuntimeResultIsTruthful`, `BackoffIsBounded` |
| `NobodyWaitsForever` | `DisplacedHolderLearns`, `AbandonedFileIsCleared`, `WaiterIsServed`, `StopEndsEverything` |
| `KvIsSound` | `KvTypeOK`, `CounterIsExact`, `PlaceholderNeverSurvives`, `OneCreatorPerLife`, `ScanMissesNothingStable`, `CleanupIsComplete` |
| `CacheIsSound` | `CacheTypeOK`, `InvalidateAllIsFinal`, `InvalidateIsFinal` |
| `CsrfIsSound` | `CsrfTypeOK`, `AnsweredIsAccepted`, `RefusalsAreBounded`, `AcceptedForItsIdentity` |
| `VaultIsSound` | `VaultTypeOK`, `VaultIsWhole`, `UnlockedVaultDecrypts`, `SessionSeesTheFile`, `ReadyStaysReady` |

The remaining names of the table, `CronTypeOK` and the `TypeOK` of the lease stand in the cfg themselves. `FencingTokensIncrease` is proved and follows
from `ImplementsFencedLock`, so no run repeats it.

Bounds are constants named in the modules (`MaxTime`, `MaxToken`, `MaxFence`, `MaxGrants`, `MaxGhosts`, `Jobs`, `MaxRetries`,
`MaxCalls`, `MaxSequence`, `MaxEpoch`, `MaxCrashes`, `MaxKey`, `MaxSeconds`, and the durations of Throttler). Each sits in the guard of the action that would exceed it, so
a run ends when its clock, tokens or jobs are used up; that is why the passing runs do not check deadlock. Interchangeable sessions, callers, jobs and slots
are reduced by symmetry in runs that check safety only.

Every conjunct that is not a type invariant has a mutant, a plausible mistake in one mapped definition, under which TLC finds the
property of the cfg violated in the same instance.

## Fairness

MutexGuard: tokio polls every woken task, so the owner's future and the heartbeat are
weakly fair, except that the caller's task may run forever. The async mutex is FIFO and the pool
serves waiters in order, so taking the lock and sending a statement are strongly
fair. The server ends every statement. Nobody is obliged to claim, cancel or advance the clock.

QueueWorker: loop, grace timer and cleanup deadline are weakly fair. A row that is
not touched goes stale and the reclaim duty of some worker meets it (weak fairness per job; assumes that
fleet maintenance, or the operator's own schedule, keeps running). A heartbeat gets through
in the end. Handlers may run forever, except that one told to abort meets an await at some time (otherwise no tokio program could
end it); nobody is obliged to request a stop.

Cron: steps of a loop and timers are weakly fair, an acquisition that is possible again and again
succeeds in the end (strong fairness: the retry is jittered and the holder of a free key is decided by the database), and a lease nobody renews lapses. A task
may run forever only where the property allows it.

QueueRuntime: every task is polled; a maintenance cron that waits on leadership gets polled again and again (strong fairness of its
step). The cleanup is fair only once a stop was requested: before, others may refill its table for good.

LocalLock: the heartbeat thread and the calls of a process run on while the process lives. Semaphore: time passes and a caller that is not dead goes on.

## Proofs

TLAPS checks every theorem to its leaves, for every value of the constants that the ASSUMEs of
the modules admit: any number of clients, workers, slots, jobs, keys, processes, callers and servers, any
durations, limits and bounds. The bounds that keep TLC finite are constants too, so a theorem holds
however large they are; where a bound stands for none (a clock, a number of grants) that is
what makes it a statement about the program. The assumptions say what configuration validation
and the schema say: durations and limits are positive, a null is no value, the owner of a slot is a worker.

| theorem | of every behaviour of | states |
|---|---|---|
| `Invariance`, `TypeCorrect`, `LocalExpirySafety`, `FenceUniqueness`, `NoTakeover`, `FencesIncrease` | LeaseStore | `IInv`, `TypeOK`, `LocalExpiryIsSafe`, `FencesAreUnique`, `LiveLeaseIsNotStolen`, `FencingTokensIncrease` |
| `ImplementsLock` | LeaseStore | `ImplementsFencedLock` |
| `GuardInvariance`, `GuardSoundness` | MutexGuard | `GuardInv`, `GuardIsSound` |
| `GuardsUseTheLease` | MutexGuard | `Spec` of LeaseStore, with its safety |
| `CronInvariance`, `CronTypeCorrect`, `CronTenures` | Cron | `CronInv`, `CronTypeOK`, `TenuresEndInOrder` |
| `CacheInvariance`, `CacheSoundness`, `CacheCoalesces` | Cache | `CacheInv`, `CacheIsSound`, `ComputationIsCoalesced` |
| `OnceInvariance`, `OnceSoundness`, `OnceFenced` | Once | `OnceInv`, `OnceIsSound`, `RunsAreFenced` |
| `QueueInvariance`, `QueueTables`, `QueueRetries` | QueueWorker | `QueueInv`, `TablesAreSound`, `RetryBudget` |
| `OneSlotInvariance`, `QueueHandlers`, `QueueDisplaced` | QueueWorker, if `OneSlot` | `SingleInv`, `OnlyCancelledHandlersOverlap`, `DisplacedTaskIsLost` |
| `TransactionsInvariance`, `TransactionsSoundness`, `TransactionsAnswers` | QueueTransactions | `TransactionsInv`, `TransactionsAreSound`, `AnswersAreTrue` |
| `ProtocolInvariance`, `ProtocolAdmission`, `ProtocolBootstrap` | Protocol | `ProtocolInv`, `WorkIsUnderSupportedEpoch`, `BootstrapIsSound` |
| `LedgerInvariance`, `LedgerSoundness`, `LedgerAdvances` | SchemaLedger | `LedgerInv`, `LedgerIsSound`, `SchemaNeverGoesBack` |
| `ThrottlerInvariance`, `ThrottlerCircuit`, `ThrottlerConcurrency`, `ThrottlerRate` | Throttler | `ThrottlerInv`, `CircuitIsSound`, `ConcurrencyBound`, `RateBoundUpToRewind` |
| `CsrfInvariance`, `CsrfSoundness` | Csrf | `CsrfInv`, `CsrfIsSound` |
| `KvInvariance`, `KvSoundness` | KvStore | `KvInv`, `KvIsSound` |
| `TopicInvariance`, `TopicSoundness`, `TopicCursor` | Topic | `TopicInv`, `TopicIsSound`, `CursorIsKept` |
| `VaultInvariance`, `VaultSoundness` | Vault | `VaultInv`, `VaultIsSound` |
| `FileExclusion` | LocalLock | `FileIsExclusive` |
| `SlotExclusion` | Semaphore | `SemaphoreIsSound` |
| `RuntimeInvariance`, `RuntimeSoundness`, `BackoffBounds` | QueueRuntime | `RuntimeInv`, `RuntimeIsSound`; `BackoffIsBounded` of every policy |

Each is proved the same way. The property is not inductive, so an invariant adds what excludes the
unreachable states from which a step would break it; the initial states have it, one lemma per action (or per kind of
step that several actions share) shows that it stays, and PTL puts the three together. Action
properties follow from the invariant and the step. What the invariants add:

**LeaseStore.** A late renewal could rotate the row away from the client's token, or a late release delete it.
`TimesArePast`: no statement carries a timestamp from the future. `CounterBounds`: every fence
in a row, claim or statement is at most the counter, so that a fresh one is new.
`TokensAreFresh`: the token a statement will write is known nowhere else.
`AwaitedIsCurrent`: a statement a client waits for carries the claim the client holds.
`FencesHaveOneOwner`: a fence belongs to one client, in claims and statements alike.
`LateStatementsAreHarmless`: a statement nobody waits for either cannot match the row or belongs
to a client whose claim names that fence still. `Authority` is the property itself, strengthened to
relate the client's token and expiry to those in the row. `ImplementsLock` is the refinement: `fence` is the one in the row, `last` the
counter, and `live` whether the row is there and unexpired; a claim maps to a new grant because `UpsertApplies` finds no live row.

**MutexGuard.** `IInv` carries over, since every action of a guard is a call of LeaseStore or leaves the lease alone. `LockDiscipline` says who holds the
async mutex from the two program counters, `OvertakenForGood` that a fence which another has replaced never comes back, so
a release that deleted the row came before any other grant.

**Cron, Cache, Once.** `KeyInv` (the row holds the last grant or none) and lemmas on the calls of GuardedKey are shared. Cache relates every computed value to the epoch and the invalidations it was
computed after (`Fresh`, `StoredValues`), in the entry, in a fetch's hands and in the store of a call that is gone. Once has that no two runs have claimed one
grant, that a run in its transaction locks the row, and what may still be in the row after a commit that was not acknowledged.

**QueueStore, QueueWorker.** `StoreInv`: rows fit their status, active keys differ, a claim in doubt is of a pending row. Each started row of a worker has a task that will finish it, unless the worker cleans up, has failed or is gone
(`WorkerInv`); that no started job stays behind follows, since a worker leaves its loop with no task in its slots, aborted handlers at most. For a handler's row to be its own unless it was
taken, a worker must not claim a job that one of its tasks has, which two slots do: hence the hypothesis `OneSlot` (no two slots have one owner) of three theorems, and
`queue_siblings` is the counterexample without it. Everything else about the queue is proved for any number of slots.

**QueueTransactions.** `TransactionsInv` has seven parts for every open transaction: its shape; that it writes only what the committed row allows, completions with their effect
(`VersionsOK`); keys that differ among the rows as it would leave them (`KeysDiffer`); rows of its snapshot are rows still (`SeenOK`); a running row is written only by the session that runs it, and taken on the record (`RunsOK`); what it knows of its job
(`MineOK`). Any two transactions are `Apart`: they lock different rows, and no two of their uncommitted versions have the same active key. Between transactions, sessions of one worker
share a job only if it was taken (`ShareTaken`), and every running row has a session that runs it, and whose open call has seen it so (`RunnersOK`). That is
what a refused call relies on: the snapshot, although older than the row it did not get, has the row as running exactly if some session runs it.

**Protocol.** No session has the shared lock while the activator has the exclusive one, an admitted session has it or its transaction is over, and
one bootstrap at a time is in its transaction; what it found and what it has created agree with the origin.

**SchemaLedger.** Row and tables agree at rest, and in a transaction once it has recorded; one migration at a time holds the row; what it read is what is committed. The planner is proved for any list of steps that passes
validation. `Walk` is a recursive function, and no theorem of the library that proves induction can be used; `WalkExists` finds a function that meets its definition up to any distance from the
current version, by the least distance at which there is none, and `WalkFinds` and the uniqueness of the chain go the same way. The least element of a set of numbers is
the one fact of NaturalsInduction they need.

**Throttler.** No time in the record is later than now allows (`RecordInv`); while a permit counts, the record says so and lives as long (`CallerInv`). `BucketOK` adds what the bucket still holds to what it has admitted, which
makes the rate an accounting identity: both together are at most a full bucket, the rate times the time up to `last_refill`, and the rate times what was rewound.

**Csrf.** Keysets are runs of consecutive keys without gaps (`KeysInv`), a server in `armed` finds the cookie in the jar good enough, and the jar after one refusal, and after two, is what
the server that refused has put there, latest key and all.

**KvStore.** A locked item is locked by one transaction, which knows the row it will write; a placeholder in the table belongs to an open transaction; the counter is what was added. A scan in progress has got every stable key up to its cursor; a
cleanup in progress has still to remove only rows that have expired and that nobody has locked.

**Topic.** Published numbers have no gaps, and the writer holds the sequence row. Everything up to the cursor, and up to the last number of a batch except what is in the batch, was handled or excused.

**Vault, LocalLock, Semaphore, QueueRuntime.** While a session keeps its lock, what it has in memory is what the file holds or what it will write over it. Until a removal has raced,
a process that holds the lock or is about to has its file at the path or is stalled, and an old file is that of a stalled or dead owner (`RaceInv`); while nothing has grown old and no write has
failed, nobody reclaims, and whoever holds, fills or gives back a file created it (`TimelyOwnership`), so no removal can race. A slot in a caller's hands is in its row or was reset, expired or is in its own transaction. A waiter that returned, and a cron that ended because it was told to, imply the flag; the supervisor knows an ended first task.

Only model-checked: everything under fairness (`GuardWindsDown`, `LossIsNoticed`, `StopIsReached`, `OrphansAreRecovered`, `LostHandlerIsCancelled`, `CronMakesProgress`,
`NobodyWaitsForever`), since liveness and ENABLED are out of reach of the installed backends. Induction over data is too, as a rule of the library; where it was needed, for the planner,
a least counterexample took its place.

## Findings

`queue_siblings`: terminal updates check the worker id alone. When a running job is
force-requeued, or reclaimed as stale, and claimed again by another slot of the same worker, the first
task still passes the check: its outcome is written to the row the second task is
working on and counted as success, retry or failure, while
`src/src/db/queue/worker_model.rs:205` documents `lost_ownership_count` as "Jobs whose ownership
disappeared before a terminal worker update." With one slot per worker the property holds (`queue_workers`).

`throttler_rewind`: an acquire stores the timestamp of its lock statement as `last_refill`
(`throttler_acquire.rs:290`), and the statement may have waited. The stored time then moves back and the
next acquire refills for time already paid out; elapsed time is clamped at zero, the
stored time is not. `throttler_model.rs:6` promises a "Number of operations allowed per interval."
`RateBoundUpToRewind` (run `requests`) bounds the excess: it is never more than the rate times the rewound time.

`local_lock_race`: two processes find the same old file. One re-reads it, finds it unchanged (`local_lock.rs:436`) and is delayed; the other
removes it and creates its own; the first then removes that file and creates a third. Both hold a `ProcessLock`, documented as "Exclusive ownership for one
local lock-file path." (`local_lock.rs:204`), until the heartbeat of the displaced one notices (`DisplacedHolderLearns`).
`OverlapNeedsARace` and `RaceNeedsAnUpset` (run `locks`) say that there is no other way to two holders, and that it takes an old file or a failed write to get there.

Observed while modelling, without a run of their own:

- A release of a permit that commits without an answer leaves the permit in the guard, whose Drop releases it
  again (`throttler_guard.rs:99`). Slot and probe are checked for their owner, the outcome is not: one failed task is counted twice.
- A cached value whose computation outlives its lease is stored by a statement that is not fenced, and may restore a value that
  `invalidate` removed meanwhile; the caller gets an error. `InvalidateIsFinal` states what holds. `invalidate_all` is not affected: the entry carries its epoch.
- `JobNotRunning` (`queue/error.rs:276`) is returned as well for a job that does not exist, and by a return of unstarted
  jobs for one that has been started.
- `requeue_dead_letter_job` whose key was taken by a transaction that its statement cannot see returns `UnexpectedOutcome`
  (`queue/operations/listing.rs:199`).

## Plan

The components are modelled and their safety is proved. What could follow, in order:

1. Refinement: `GuardedKey` is used by Once, Cron and Cache as what MutexGuard does to its key. A mapping from MutexGuard, with `ghosts` and `orphans` read off the statements in flight, would prove it.
2. An abstract queue of jobs (pending, running under an owner, ended, dead) with a refinement mapping from QueueWorker and from QueueTransactions.
3. An abstract semaphore of permits implemented by Semaphore, and by the slots of Throttler.
4. How long two owners of a lock file can coexist after a raced removal: until the next heartbeat of the displaced one, in steps or in time.

## Not modelled

Cryptography, id generation and the text of cookies are byte conversions without shared state; Vault and Csrf use sealing through what it promises. Origins and hosts are
in order or not, as their normalisation says. The query builder
wraps calls whose effect the modules have as statements, and the pool appears as what it does to a call: an error with or without effect. Listings and
counts of the queue read and change nothing. Catalog validation compares text from the Postgres catalog with what was declared; SchemaLedger has its verdict. Configuration checks are the ASSUMEs of the modules.

About half of the repository's lines are tests, fuzz targets and test support; they exercise the code the modules stand for and are
not modelled themselves. Error types, observers and telemetry names carry no state.
