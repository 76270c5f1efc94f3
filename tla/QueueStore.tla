------------------------------ MODULE QueueStore ------------------------------
(***************************************************************************)
(* The job and dead-letter tables of src/src/db/queue, for the jobs of one *)
(* task, and the operator, producer and maintenance calls on them.         *)
(*                                                                         *)
(* Every call is one transaction and one step.  The statements select with *)
(* FOR UPDATE SKIP LOCKED under a LIMIT, and any row may be locked by some *)
(* other transaction, so a batch statement works on any subset of the rows *)
(* it selects.  A job id is drawn at random and never reused; its row is   *)
(* in at most one table, and status says in which.                         *)
(***************************************************************************)
EXTENDS Naturals, FiniteSets, Functions

CONSTANTS
    Jobs,         \* job ids: bound on the jobs ever inserted
    NoJob,        \* a worker, a slot or a session without a job
    Workers,      \* worker owner ids, one per worker run
    NoWorker,     \* NULL in the worker_id column
    Keys,         \* dedupe keys
    NoKey,        \* NULL in the dedupe_key column
    PauseKeys,    \* rows the pause table may hold: the queue's, the task's
    MaxRetries    \* max_retries of every job

ASSUME NullAssumption == NoWorker \notin Workers /\ NoKey \notin Keys
ASSUME MaxRetriesAssumption == MaxRetries \in Nat

VARIABLES
    jobs,      \* the row of each job id
    paused,    \* the rows of the pause table
    held,      \* pending rows locked by a claim of the worker that errored
    taken      \* history: started jobs that were taken from their worker

storeVars == <<jobs, paused, held, taken>>

\* "unused" and "gone": in no table; "dead": in the dead-letter table.  stale:
\* execution_heartbeat_at is older than the stale threshold.
JobRow ==
    [status  : {"unused", "pending", "running", "completed", "failed", "dead", "gone"},
     worker  : Workers \union {NoWorker},
     started : BOOLEAN,
     stale   : BOOLEAN,
     retry   : 0 .. MaxRetries + 1,
     key     : Keys \union {NoKey}]

UnusedRow ==
    [status |-> "unused", worker |-> NoWorker, started |-> FALSE, stale |-> FALSE,
     retry |-> 0, key |-> NoKey]

\* The rows of the schema: a row is owned while it runs, and only then has a
\* start and a heartbeat.
StoreTypeOK ==
    /\ jobs \in [Jobs -> JobRow]
    /\ paused \subseteq PauseKeys
    /\ held \in [Workers -> SUBSET Jobs]
    /\ taken \subseteq Jobs
    /\ \A j \in Jobs :
          /\ jobs[j].status = "running" <=> jobs[j].worker # NoWorker
          /\ (jobs[j].started \/ jobs[j].stale) => jobs[j].status = "running"

StoreInit ==
    /\ jobs = [j \in Jobs |-> UnusedRow]
    /\ paused = {}
    /\ held = [w \in Workers |-> {}]
    /\ taken = {}

InStatus(status) == {j \in Jobs : jobs[j].status = status}

Unlocked(j) == \A w \in Workers : j \notin held[w]

Update(S, NewRow(_)) == [j \in Jobs |-> IF j \in S THEN NewRow(jobs[j]) ELSE jobs[j]]

-----------------------------------------------------------------------------
(***************************************************************************)
(* Row transitions: the SET clauses of sql/.                               *)
(***************************************************************************)

\* clear_worker_runtime_assignments, with a new status.
ClearRuntime(row, status) ==
    [row EXCEPT !.status = status, !.worker = NoWorker, !.started = FALSE, !.stale = FALSE]

\* Mutant: the worker columns are not cleared.
ReturnToPendingOwned(row) == [row EXCEPT !.status = "pending"]

ReturnToPending(row) == ClearRuntime(row, "pending")

RetryFailedRow(row) == [ClearRuntime(row, "pending") EXCEPT !.retry = 0]

ClaimedRow(row, w) ==
    [row EXCEPT !.status = "running", !.worker = w, !.stale = FALSE]

StartedRow(row) == [row EXCEPT !.started = TRUE, !.stale = FALSE]

TouchedRow(row) == [row EXCEPT !.stale = FALSE]

CompletedRow(row) == ClearRuntime(row, "completed")

\* The retry count comes from the worker's copy of the job, not from the row.
ScheduledRetryRow(row, new_retry_count) ==
    [ClearRuntime(row, "pending") EXCEPT !.retry = new_retry_count]

Increment(row, increment) == row.retry + (IF increment THEN 1 ELSE 0)

FailedRow(row, increment) ==
    [ClearRuntime(row, "failed") EXCEPT !.retry = Increment(row, increment)]

DeadLetterRow(row, increment) ==
    [ClearRuntime(row, "dead") EXCEPT !.retry = Increment(row, increment)]

DeletedRow == [UnusedRow EXCEPT !.status = "gone"]

\* The three statements of a reclaim pass, by the kind of stale row they select.
ReclaimedRow(row, dead) ==
    IF ~ row.started THEN ReturnToPending(row)
    ELSE IF row.retry < MaxRetries
    THEN [ClearRuntime(row, "pending") EXCEPT !.retry = row.retry + 1]
    ELSE IF dead THEN DeadLetterRow(row, TRUE)
    ELSE FailedRow(row, TRUE)

-----------------------------------------------------------------------------
(***************************************************************************)
(* Producers and operators.                                                *)
(***************************************************************************)

\* Mutant: the partial unique index covers pending rows only.
ActiveKeysOfPending == {jobs[j].key : j \in InStatus("pending")}

\* Keys in the partial unique index over pending and running rows.
ActiveKeys == {jobs[j].key : j \in InStatus("pending") \union InStatus("running")}

NoDedupeConflict(key) == key = NoKey \/ key \notin ActiveKeys

NewRow(key) == [UnusedRow EXCEPT !.status = "pending", !.key = key]

\* enqueue_json and the batch form: no dedupe key.
Enqueue(S) ==
    /\ S # {} /\ S \subseteq InStatus("unused")
    /\ paused = {}
    /\ jobs' = Update(S, LAMBDA row : NewRow(NoKey))
    /\ UNCHANGED <<paused, held, taken>>

EnqueueDeduped(j, key) ==
    /\ j \in InStatus("unused")
    /\ paused = {}
    /\ NoDedupeConflict(key)
    /\ jobs' = [jobs EXCEPT ![j] = NewRow(key)]
    /\ UNCHANGED <<paused, held, taken>>

CancelPendingJob(j) ==
    /\ j \in InStatus("pending") /\ Unlocked(j)
    /\ jobs' = [jobs EXCEPT ![j] = DeletedRow]
    /\ UNCHANGED <<paused, held, taken>>

\* One failed row per key is retried: active_dedupe_retry_rank = 1.
OnePerKey(S) ==
    \A i, j \in S : (i # j /\ jobs[i].key # NoKey) => jobs[i].key # jobs[j].key

\* retry_failed_job_by_id and retry_available_failed_jobs.
RetryFailedJobs(S) ==
    /\ S # {} /\ S \subseteq InStatus("failed")
    /\ \A j \in S : NoDedupeConflict(jobs[j].key)
    /\ OnePerKey(S)
    /\ jobs' = Update(S, RetryFailedRow)
    /\ UNCHANGED <<paused, held, taken>>

ForceRequeueRunningJob(j) ==
    /\ j \in InStatus("running")
    /\ jobs' = [jobs EXCEPT ![j] = ReturnToPending(jobs[j])]
    /\ taken' = IF jobs[j].started THEN taken \union {j} ELSE taken
    /\ UNCHANGED <<paused, held>>

MoveFailedJobsToDeadLetter(S) ==
    /\ S # {} /\ S \subseteq InStatus("failed")
    /\ jobs' = Update(S, LAMBDA row : DeadLetterRow(row, FALSE))
    /\ UNCHANGED <<paused, held, taken>>

\* The job comes back under a new id, with a fresh retry budget.
RequeueDeadLetterJob(j, id) ==
    /\ j \in InStatus("dead") /\ id \in InStatus("unused")
    /\ NoDedupeConflict(jobs[j].key)
    /\ jobs' = [jobs EXCEPT ![j] = DeletedRow, ![id] = NewRow(jobs[j].key)]
    /\ UNCHANGED <<paused, held, taken>>

\* cleanup_jobs_older_than and the dead-letter cleanup, one batch; deleting one
\* dead-letter job by id has the same effect.
Cleanup(S, status) ==
    /\ status \in {"completed", "failed", "dead"}
    /\ S # {} /\ S \subseteq InStatus(status)
    /\ jobs' = Update(S, LAMBDA row : DeletedRow)
    /\ UNCHANGED <<paused, held, taken>>

Pause(p) ==
    /\ p \notin paused
    /\ paused' = paused \union {p}
    /\ UNCHANGED <<jobs, held, taken>>

Resume(p) ==
    /\ p \in paused
    /\ paused' = paused \ {p}
    /\ UNCHANGED <<jobs, held, taken>>

-----------------------------------------------------------------------------
(***************************************************************************)
(* Time and maintenance.                                                   *)
(***************************************************************************)

\* The stale threshold passes without a heartbeat.
HeartbeatGoesStale(j) ==
    /\ j \in InStatus("running") /\ ~ jobs[j].stale
    /\ jobs' = [jobs EXCEPT ![j].stale = TRUE]
    /\ UNCHANGED <<paused, held, taken>>

\* Mutant: only rows whose handler had started are reclaimed.
ReclaimStartedJobsOnly(S, dead) ==
    /\ S # {} /\ S \subseteq {j \in InStatus("running") : jobs[j].stale /\ jobs[j].started}
    /\ jobs' = Update(S, LAMBDA row : ReclaimedRow(row, dead))
    /\ taken' = taken \union S
    /\ UNCHANGED <<paused, held>>

\* One transaction of reclaim_available_stale_running_jobs_once.
ReclaimStaleRunningJobs(S, dead) ==
    /\ S # {} /\ S \subseteq {j \in InStatus("running") : jobs[j].stale}
    /\ jobs' = Update(S, LAMBDA row : ReclaimedRow(row, dead))
    /\ taken' = taken \union {j \in S : jobs[j].started}
    /\ UNCHANGED <<paused, held>>

-----------------------------------------------------------------------------
(***************************************************************************)
(* Claims.                                                                 *)
(***************************************************************************)

\* The candidates of a claim; whether a pending row is due is left open.
Claimable == IF paused = {} THEN {j \in InStatus("pending") : Unlocked(j)} ELSE {}

Owns(w, j) == jobs[j].status = "running" /\ jobs[j].worker = w

ClaimJobs(w, S) ==
    /\ S \subseteq Claimable
    /\ jobs' = Update(S, LAMBDA row : ClaimedRow(row, w))
    /\ UNCHANGED <<paused, held, taken>>

\* The claim returned an error while the server may still commit it.
ClaimUnacknowledged(w, S) ==
    /\ S \subseteq Claimable
    /\ held' = [held EXCEPT ![w] = @ \union S]
    /\ UNCHANGED <<jobs, paused, taken>>

\* The server ends such a transaction: the rows are claimed, or only unlocked.
LateClaimEnds(w, commits) ==
    /\ held[w] # {}
    /\ jobs' = IF commits THEN Update(held[w], LAMBDA row : ClaimedRow(row, w)) ELSE jobs
    /\ held' = [held EXCEPT ![w] = {}]
    /\ UNCHANGED <<paused, taken>>
=============================================================================
