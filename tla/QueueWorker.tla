------------------------------ MODULE QueueWorker ------------------------------
(***************************************************************************)
(* The queue workers of src/src/db/queue (worker_loop.rs, worker_once.rs,  *)
(* worker_job.rs) on top of the tables of QueueStore.                      *)
(*                                                                         *)
(* A worker claims jobs into free execution slots; each claimed job is a   *)
(* spawned task that marks the row started, runs the handler next to a     *)
(* heartbeat, and persists the result.  Every database call is guarded by  *)
(* the worker's owner id alone and may return an error, whether or not its *)
(* transaction committed.  A loop worker drains and cleans up when it is   *)
(* told to stop or meets an error; a once worker makes a single claim.     *)
(***************************************************************************)
EXTENDS QueueStore

CONSTANTS
    Slots,         \* execution slots; the slots of a worker are its concurrency
    OwnerOf,       \* the worker of a slot
    OnceWorkers,   \* workers that run process_available_jobs_once_for_worker
    DeadLetter     \* workers with dead_letter_enabled

ASSUME WorkerAssumption ==
    OwnerOf \in [Slots -> Workers] /\ OnceWorkers \subseteq Workers /\ DeadLetter \subseteq Workers

VARIABLES
    worker,     \* where each worker is
    stopping,   \* worker_shutdown_signal
    grace,      \* whether the shutdown grace period is running
    failed,     \* whether the run will return an error
    exec        \* the task in each slot

workerVars == <<worker, stopping, grace, failed, exec>>

allVars == <<storeVars, workerVars>>

CleanupStates == {"return_unstarted", "return_started", "counting"}

WorkerStates ==
    {"waiting", "claiming", "backoff", "draining", "stopped", "crashed"} \union CleanupStates

\* result is what the handler returned, then what the task returned.  In an
\* aborted slot only the handler is left: its task is gone, and the handler, a
\* spawned task of its own, was told to abort and runs on to its next await.
Execution ==
    [pc        : {"free", "spawned", "running", "finishing", "requeueing", "done", "aborted"},
     job       : Jobs \union {NoJob},
     retry     : 0 .. MaxRetries + 1,
     result    : {"none", "ok", "retryable", "permanent", "exhausted", "applied", "lost", "error"},
     hb_failed : BOOLEAN,
     displaced : BOOLEAN]

FreeSlot ==
    [pc |-> "free", job |-> NoJob, retry |-> 0, result |-> "none",
     hb_failed |-> FALSE, displaced |-> FALSE]

QueueTypeOK ==
    /\ StoreTypeOK
    /\ worker \in [Workers -> WorkerStates]
    /\ stopping \in [Workers -> BOOLEAN]
    /\ grace \in [Workers -> BOOLEAN]
    /\ failed \in [Workers -> BOOLEAN]
    /\ exec \in [Slots -> Execution]

QueueInit ==
    /\ StoreInit
    /\ worker = [w \in Workers |-> IF w \in OnceWorkers THEN "claiming" ELSE "waiting"]
    /\ stopping = [w \in Workers |-> FALSE]
    /\ grace = [w \in Workers |-> FALSE]
    /\ failed = [w \in Workers |-> FALSE]
    /\ exec = [e \in Slots |-> FreeSlot]

SlotsOf(w) == {e \in Slots : OwnerOf[e] = w}

FreeSlots(w) == {e \in SlotsOf(w) : exec[e].pc = "free"}

\* The tasks of the worker's JoinSet.
InFlight(w) == {e \in SlotsOf(w) : exec[e].pc \notin {"free", "aborted"}}

Set(f, x, v) == [f EXCEPT ![x] = v]

\* What an aborted task leaves: its running handler, told to abort but not
\* awaited.  (What its last call did to the database it did before or after.)
Remains(t) ==
    IF t.pc \in {"running", "aborted"} THEN [FreeSlot EXCEPT !.pc = "aborted", !.job = t.job]
    ELSE FreeSlot

\* abort_and_collect_in_flight_job_errors: the tasks are aborted and joined,
\* their handlers are not.
AbortAll(w) ==
    exec' = [e \in Slots |-> IF e \in SlotsOf(w) THEN Remains(exec[e]) ELSE exec[e]]

-----------------------------------------------------------------------------
(***************************************************************************)
(* A task: process_claimed_queue_job.                                      *)
(***************************************************************************)

\* Mutant: any running row passes for the task's own.
OwnsJobOfAnyone(e) == jobs[exec[e].job].status = "running"

OwnsJob(e) == Owns(OwnerOf[e], exec[e].job)

SetRow(e, row) ==
    /\ jobs' = [jobs EXCEPT ![exec[e].job] = row]
    /\ UNCHANGED <<paused, held, taken>>

\* The call's row update committed, or did not.
MaybeSetRow(e, row) == (OwnsJob(e) /\ SetRow(e, row)) \/ UNCHANGED storeVars

Step(e, pc, result) ==
    /\ exec' = [exec EXCEPT ![e].pc = pc, ![e].result = result]
    /\ UNCHANGED <<worker, stopping, grace, failed>>

MarkStarted(e) ==
    /\ exec[e].pc = "spawned"
    /\ IF exec[e].retry > MaxRetries
       THEN Step(e, "finishing", "exhausted") /\ UNCHANGED storeVars
       ELSE /\ OwnsJob(e)
            /\ SetRow(e, StartedRow(jobs[exec[e].job]))
            /\ Step(e, "running", "none")

\* JobNotRunning: the outcome is LostOwnership, and the handler never runs.
MarkStartedLost(e) ==
    /\ exec[e].pc = "spawned" /\ exec[e].retry <= MaxRetries
    /\ ~ OwnsJob(e)
    /\ Step(e, "done", "lost")
    /\ UNCHANGED storeVars

MarkStartedErrs(e) ==
    /\ exec[e].pc = "spawned" /\ exec[e].retry <= MaxRetries
    /\ MaybeSetRow(e, StartedRow(jobs[exec[e].job]))
    /\ Step(e, "done", "error")

TouchHeartbeat(e) ==
    /\ exec[e].pc = "running" /\ ~ exec[e].hb_failed
    /\ OwnsJob(e) /\ jobs[exec[e].job].stale
    /\ SetRow(e, TouchedRow(jobs[exec[e].job]))
    /\ UNCHANGED workerVars

\* The heartbeat meets a protocol failure: it ends and cancels the job.
HeartbeatFails(e) ==
    /\ exec[e].pc = "running" /\ ~ exec[e].hb_failed
    /\ exec' = [exec EXCEPT ![e].hb_failed = TRUE]
    /\ UNCHANGED <<storeVars, worker, stopping, grace, failed>>

\* Mutant: a heartbeat that finds the job lost does not cancel the handler.
CancelHandlerOnFailure(e) ==
    /\ exec[e].pc = "running"
    /\ exec[e].hb_failed
    /\ Step(e, "finishing", "retryable")
    /\ UNCHANGED storeVars

\* The heartbeat failed or found that the job is lost: the handler is aborted.
CancelHandler(e) ==
    /\ exec[e].pc = "running"
    /\ exec[e].hb_failed \/ ~ OwnsJob(e)
    /\ Step(e, "finishing", "retryable")
    /\ UNCHANGED storeVars

\* The handler returns or panics (permanent), or it is aborted because it timed
\* out (retryable).
HandlerEnds(e, result) ==
    /\ exec[e].pc = "running"
    /\ Step(e, "finishing", result)
    /\ UNCHANGED storeVars

\* Mutant: retries are exhausted one attempt too late.
FinalRowOffByOne(e) ==
    LET row == jobs[exec[e].job]
        result == exec[e].result
        increment == result = "retryable"
    IN  CASE result = "ok" -> CompletedRow(row)
          [] result = "retryable" /\ exec[e].retry <= MaxRetries ->
               ScheduledRetryRow(row, exec[e].retry + 1)
          [] OTHER -> IF OwnerOf[e] \in DeadLetter THEN DeadLetterRow(row, increment)
                      ELSE FailedRow(row, increment)

\* complete_processed_queue_job, handle_processed_queue_job_error and
\* move_running_job_to_dead_letter_or_fail.
FinalRow(e) ==
    LET row == jobs[exec[e].job]
        result == exec[e].result
        increment == result = "retryable"
    IN  CASE result = "ok" -> CompletedRow(row)
          [] result = "retryable" /\ exec[e].retry + 1 <= MaxRetries ->
               ScheduledRetryRow(row, exec[e].retry + 1)
          [] OTHER -> IF OwnerOf[e] \in DeadLetter THEN DeadLetterRow(row, increment)
                      ELSE FailedRow(row, increment)

\* combine_worker_heartbeat_and_job_finalization_results.
Combine(e, outcome) == IF exec[e].hb_failed THEN "error" ELSE outcome

Finalize(e) ==
    /\ exec[e].pc = "finishing"
    /\ OwnsJob(e)
    /\ SetRow(e, FinalRow(e))
    /\ Step(e, "done", Combine(e, "applied"))

FinalizeLost(e) ==
    /\ exec[e].pc = "finishing"
    /\ ~ OwnsJob(e)
    /\ Step(e, "done", Combine(e, "lost"))
    /\ UNCHANGED storeVars

FinalizeErrs(e) ==
    /\ exec[e].pc = "finishing"
    /\ MaybeSetRow(e, FinalRow(e))
    /\ Step(e, "requeueing", "none")

\* Mutant: the task ends as if it had only lost the job.
RequeueStartedQuietly(e) ==
    /\ exec[e].pc = "requeueing"
    /\ \/ OwnsJob(e) /\ jobs[exec[e].job].started
             /\ SetRow(e, ReturnToPending(jobs[exec[e].job]))
       \/ UNCHANGED storeVars
    /\ Step(e, "done", "lost")

\* requeue_started_job_after_worker_persistence_failure; whatever it returns,
\* the task returns the error that made it necessary.
RequeueStarted(e) ==
    /\ exec[e].pc = "requeueing"
    /\ \/ OwnsJob(e) /\ jobs[exec[e].job].started
             /\ SetRow(e, ReturnToPending(jobs[exec[e].job]))
       \/ UNCHANGED storeVars
    /\ Step(e, "done", "error")

TaskNext(e) ==
    \/ MarkStarted(e) \/ MarkStartedLost(e) \/ MarkStartedErrs(e)
    \/ TouchHeartbeat(e) \/ HeartbeatFails(e) \/ CancelHandler(e)
    \/ \E result \in {"ok", "retryable", "permanent"} : HandlerEnds(e, result)
    \/ Finalize(e) \/ FinalizeLost(e) \/ FinalizeErrs(e) \/ RequeueStarted(e)

\* The handler of an aborted task returned, or met the await at which it is dropped.
AbortedHandlerEnds(e) ==
    /\ exec[e].pc = "aborted"
    /\ exec' = Set(exec, e, FreeSlot)
    /\ UNCHANGED <<storeVars, worker, stopping, grace, failed>>

-----------------------------------------------------------------------------
(***************************************************************************)
(* The run loop.                                                           *)
(***************************************************************************)

\* WorkerHandle::request_stop, or its Drop.
RequestStop(w) ==
    /\ w \notin OnceWorkers
    /\ worker[w] \notin {"stopped", "crashed"}
    /\ ~ stopping[w]
    /\ stopping' = Set(stopping, w, TRUE)
    /\ UNCHANGED <<storeVars, worker, grace, failed, exec>>

\* The loop found the signal unset and there is capacity.
BeginClaim(w) ==
    /\ worker[w] \in {"waiting", "backoff"}
    /\ ~ stopping[w]
    /\ FreeSlots(w) # {}
    /\ worker' = Set(worker, w, "claiming")
    /\ UNCHANGED <<storeVars, stopping, grace, failed, exec>>

Spawned(j) ==
    [FreeSlot EXCEPT !.pc = "spawned", !.job = j, !.retry = jobs[j].retry]

\* claim_and_spawn_jobs_up_to_worker_capacity: some free slots get a job each.
ClaimAndSpawn(w) ==
    /\ worker[w] = "claiming"
    /\ \E T \in SUBSET FreeSlots(w) : \E f \in Injection(T, Claimable) :
          /\ ClaimJobs(w, Range(f))
          /\ exec' = [e \in Slots |-> IF e \in T THEN Spawned(f[e]) ELSE exec[e]]
    /\ worker' = Set(worker, w, IF w \in OnceWorkers THEN "draining" ELSE "waiting")
    /\ UNCHANGED <<stopping, grace, failed>>

\* Any error but a protocol failure: the loop backs off, the once worker
\* returns the error.  (A once worker dropped while it claims ends likewise.)
ClaimErrs(w) ==
    /\ worker[w] = "claiming"
    /\ \E S \in SUBSET Claimable :
          Cardinality(S) <= Cardinality(FreeSlots(w)) /\ ClaimUnacknowledged(w, S)
    /\ worker' = Set(worker, w, IF w \in OnceWorkers THEN "stopped" ELSE "backoff")
    /\ failed' = IF w \in OnceWorkers THEN Set(failed, w, TRUE) ELSE failed
    /\ UNCHANGED <<stopping, grace, exec>>

\* handle_queue_worker_runtime_error, up to its cleanup.
HandleRuntimeError(w) ==
    /\ AbortAll(w)
    /\ stopping' = Set(stopping, w, w \notin OnceWorkers)
    /\ failed' = Set(failed, w, TRUE)
    /\ worker' = Set(worker, w, "return_unstarted")
    /\ UNCHANGED <<storeVars, grace>>

ClaimProtocolFailure(w) ==
    /\ worker[w] = "claiming" /\ w \notin OnceWorkers
    /\ HandleRuntimeError(w)

\* A task has ended: its outcome is recorded, its error stops the worker.
JoinJob(w, e) ==
    /\ worker[w] \in {"waiting", "draining"}
    /\ OwnerOf[e] = w /\ exec[e].pc = "done"
    /\ IF exec[e].result = "error" THEN HandleRuntimeError(w)
       ELSE /\ exec' = Set(exec, e, FreeSlot)
            /\ UNCHANGED <<storeVars, worker, stopping, grace, failed>>

\* Mutant: the signal is not checked after the backoff.
BeginShutdownAfterWait(w) ==
    /\ worker[w] = "waiting"
    /\ stopping[w]
    /\ worker' = Set(worker, w, "draining")
    /\ grace' = Set(grace, w, TRUE)
    /\ UNCHANGED <<storeVars, stopping, failed, exec>>

\* finish_queue_worker_shutdown starts to drain.
BeginShutdown(w) ==
    /\ worker[w] \in {"waiting", "backoff"}
    /\ stopping[w]
    /\ worker' = Set(worker, w, "draining")
    /\ grace' = Set(grace, w, TRUE)
    /\ UNCHANGED <<storeVars, stopping, failed, exec>>

\* Nothing is in flight.  A loop worker cleans up, a once worker returns.
Drained(w) ==
    /\ worker[w] = "draining"
    /\ InFlight(w) = {}
    /\ worker' = Set(worker, w, IF w \in OnceWorkers THEN "stopped" ELSE "return_unstarted")
    /\ grace' = Set(grace, w, FALSE)
    /\ UNCHANGED <<storeVars, stopping, failed, exec>>

\* Mutant: the jobs are returned while their tasks still run.
GraceExpiresWithoutAbort(w) ==
    /\ grace[w]
    /\ grace' = Set(grace, w, FALSE)
    /\ failed' = Set(failed, w, \E e \in SlotsOf(w) :
                                   exec[e].pc = "done" /\ exec[e].result = "error")
    /\ worker' = Set(worker, w, "return_unstarted")
    /\ UNCHANGED <<storeVars, stopping, exec>>

\* The drain is dropped wherever it is, its own error cleanup included, and
\* with it the error that cleanup was for; only errors not yet joined count.
GraceExpires(w) ==
    /\ grace[w]
    /\ AbortAll(w)
    /\ grace' = Set(grace, w, FALSE)
    /\ failed' = Set(failed, w, \E e \in SlotsOf(w) :
                                   exec[e].pc = "done" /\ exec[e].result = "error")
    /\ worker' = Set(worker, w, "return_unstarted")
    /\ UNCHANGED <<storeVars, stopping>>

\* The future of a once worker is dropped; Drop spawns the cleanup.
OnceDropped(w) ==
    /\ w \in OnceWorkers
    /\ worker[w] = "draining" /\ InFlight(w) # {}
    /\ AbortAll(w)
    /\ failed' = Set(failed, w, TRUE)
    /\ worker' = Set(worker, w, "return_unstarted")
    /\ UNCHANGED <<storeVars, stopping, grace>>

(***************************************************************************)
(* return_claimed_jobs_after_worker_task_failure.                          *)
(***************************************************************************)
ReturnOwned(w, S) ==
    /\ jobs' = Update(S, ReturnToPending)
    /\ UNCHANGED <<paused, held, taken, stopping, grace, failed, exec>>

ReturnUnstarted(w) ==
    /\ worker[w] = "return_unstarted"
    /\ \E S \in SUBSET {j \in Jobs : Owns(w, j) /\ ~ jobs[j].started} : ReturnOwned(w, S)
    /\ worker' = Set(worker, w, "return_started")

ReturnStarted(w) ==
    /\ worker[w] = "return_started"
    /\ \E S \in SUBSET {j \in Jobs : Owns(w, j) /\ jobs[j].started} : ReturnOwned(w, S)
    /\ worker' = Set(worker, w, "counting")

\* Mutant: the cleanup ends after one pass.
CountOwnedOnce(w) ==
    /\ worker[w] = "counting"
    /\ worker' = Set(worker, w, "stopped")
    /\ grace' = Set(grace, w, FALSE)
    /\ UNCHANGED <<storeVars, stopping, failed, exec>>

\* The pass is repeated until no running row carries the worker's id.
CountOwned(w) ==
    /\ worker[w] = "counting"
    /\ IF \E j \in Jobs : Owns(w, j)
       THEN worker' = Set(worker, w, "return_unstarted") /\ UNCHANGED grace
       ELSE worker' = Set(worker, w, "stopped") /\ grace' = Set(grace, w, FALSE)
    /\ UNCHANGED <<storeVars, stopping, failed, exec>>

\* An error, or twice the operation timeout has passed.
CleanupFails(w) ==
    /\ worker[w] \in CleanupStates
    /\ worker' = Set(worker, w, "stopped")
    /\ grace' = Set(grace, w, FALSE)
    /\ failed' = Set(failed, w, TRUE)
    /\ UNCHANGED <<storeVars, stopping, exec>>

\* The process dies, and the handlers with it.
Crash(w) ==
    /\ worker[w] \notin {"stopped", "crashed"}
    /\ exec' = [e \in Slots |-> IF e \in SlotsOf(w) THEN FreeSlot ELSE exec[e]]
    /\ worker' = Set(worker, w, "crashed")
    /\ grace' = Set(grace, w, FALSE)
    /\ UNCHANGED <<storeVars, stopping, failed>>

LoopNext(w) ==
    \/ BeginClaim(w) \/ ClaimAndSpawn(w) \/ ClaimErrs(w) \/ ClaimProtocolFailure(w)
    \/ \E e \in Slots : JoinJob(w, e)
    \/ BeginShutdown(w) \/ Drained(w)
    \/ ReturnUnstarted(w) \/ ReturnStarted(w) \/ CountOwned(w) \/ CleanupFails(w)

-----------------------------------------------------------------------------
(***************************************************************************)
(* The rest of the system.                                                 *)
(***************************************************************************)

\* Tasks whose job one of the calls below takes from their worker.
Displace(S) ==
    /\ exec' = [e \in Slots |->
                  IF exec[e].pc \notin {"free", "done", "aborted"} /\ exec[e].job \in S /\ OwnsJob(e)
                  THEN [exec[e] EXCEPT !.displaced = TRUE] ELSE exec[e]]
    /\ UNCHANGED <<worker, stopping, grace, failed>>

OperatorNext ==
    \/ /\ \/ \E S \in SUBSET Jobs :
                \/ Enqueue(S) \/ RetryFailedJobs(S) \/ MoveFailedJobsToDeadLetter(S)
                \/ \E status \in {"completed", "failed", "dead"} : Cleanup(S, status)
          \/ \E j \in Jobs, key \in Keys : EnqueueDeduped(j, key)
          \/ \E j \in Jobs : CancelPendingJob(j)
          \/ \E j, id \in Jobs : RequeueDeadLetterJob(j, id)
          \/ \E p \in PauseKeys : Pause(p) \/ Resume(p)
       /\ UNCHANGED workerVars
    \/ \E j \in Jobs : ForceRequeueRunningJob(j) /\ Displace({j})

Reclaim(S) == (\E dead \in BOOLEAN : ReclaimStaleRunningJobs(S, dead)) /\ Displace(S)

ServerNext ==
    \/ \E j \in Jobs : HeartbeatGoesStale(j) /\ UNCHANGED workerVars
    \/ \E w \in Workers, commits \in BOOLEAN : LateClaimEnds(w, commits) /\ UNCHANGED workerVars

QueueNext ==
    \/ \E e \in Slots : TaskNext(e) \/ AbortedHandlerEnds(e)
    \/ \E w \in Workers :
          LoopNext(w) \/ RequestStop(w) \/ GraceExpires(w) \/ OnceDropped(w) \/ Crash(w)
    \/ OperatorNext
    \/ \E S \in SUBSET Jobs : Reclaim(S)
    \/ ServerNext

QueueSpec == QueueInit /\ [][QueueNext]_allVars
-----------------------------------------------------------------------------
\* No job that may run again has used more than its retries: every path back to
\* pending (retry, reclaim, requeue, cleanup) respects max_retries, although a
\* retry writes a count the worker computed from its own copy of the job.
RetryBudget ==
    \A j \in InStatus("pending") \union InStatus("running") : jobs[j].retry <= MaxRetries

\* At most one pending or running job per dedupe key, whichever call made it so.
OneActiveJobPerKey ==
    \A i, j \in InStatus("pending") \union InStatus("running") :
        (i # j /\ jobs[i].key # NoKey) => jobs[i].key # jobs[j].key

\* A worker that returned without an error has handed back every job it
\* started.  What it may still own is a claim whose commit it never learned of;
\* no handler ran for it, and the never-started reclaim returns it unharmed.
CleanStopOwnsNoStartedJob ==
    \A w \in Workers : (worker[w] = "stopped" /\ ~ failed[w])
        => \A j \in Jobs : Owns(w, j) => ~ jobs[j].started

HandlerRuns(e) == exec[e].pc \in {"running", "aborted"}

\* The handler was told to abort, and its worker has given up its run.
Cancelled(e) ==
    exec[e].pc = "aborted" /\ worker[OwnerOf[e]] \in CleanupStates \union {"stopped"}

\* Two handlers of one job run at the same time only if the job was taken from
\* its worker (force-requeued, or reclaimed as stale after it had started), or
\* if one of them has been cancelled.  The second is real: a worker that gives
\* up aborts the tasks of its handlers and returns the rows at once, and the
\* next worker may start the job before the old handler meets its next await.
\* No lost acknowledgement, error, shutdown, crash or late commit leaves two
\* handlers that nobody told to end.
\* (It needs workers with one slot; see DisplacedTaskIsLost.)
OnlyCancelledHandlersOverlap ==
    \A d, e \in Slots :
        (d # e /\ HandlerRuns(d) /\ HandlerRuns(e) /\ exec[d].job = exec[e].job)
            => exec[d].job \in taken \/ Cancelled(d) \/ Cancelled(e)

\* A task whose job was taken away before its terminal update is counted as
\* LostOwnership (or ends in an error), never as one that was persisted.
DisplacedTaskIsLost ==
    \A e \in Slots :
        (exec[e].pc = "done" /\ exec[e].displaced) => exec[e].result \in {"lost", "error"}

(***************************************************************************)
(* Fairness.  The runtime polls the worker, its tasks and its timers; calls *)
(* and the cleanup have a deadline; a silent row goes stale; the reclaim    *)
(* cron keeps running somewhere and meets every row unlocked at some time.  *)
(* A handler told to abort meets an await; otherwise handlers may run       *)
(* forever, and nobody need ask a worker to stop.                           *)
(***************************************************************************)
Fairness ==
    /\ \A w \in Workers :
          WF_allVars(LoopNext(w)) /\ WF_allVars(GraceExpires(w)) /\ WF_allVars(CleanupFails(w))
    /\ \A e \in Slots : WF_allVars(CancelHandler(e)) /\ WF_allVars(AbortedHandlerEnds(e))
    /\ \A j \in Jobs :
          /\ WF_allVars(HeartbeatGoesStale(j) /\ UNCHANGED workerVars)
          /\ WF_allVars(\E S \in SUBSET Jobs : j \in S /\ Reclaim(S))

FairQueueSpec == QueueSpec /\ Fairness

\* A worker that was told to stop stops, whatever its handlers do and whichever
\* calls fail: claims, drain and cleanup cannot keep it.
StopIsReached ==
    \A w \in Workers : stopping[w] ~> worker[w] \in {"stopped", "crashed"}

\* A job owned by a worker that is gone (crash, failed cleanup, late claim) is
\* not lost: stale reclaim takes it back.
OrphansAreRecovered ==
    \A w \in Workers, j \in Jobs :
        (Owns(w, j) /\ worker[w] \in {"stopped", "crashed"}) ~> ~ Owns(w, j)

\* A handler whose job was taken from its worker does not run on forever,
\* whether its heartbeat cancels it or its worker gives up first.
LostHandlerIsCancelled ==
    \A e \in Slots : (exec[e].pc = "running" /\ exec[e].displaced) ~> ~ HandlerRuns(e)

\* The tables under their workers: types, one active job per dedupe key, and
\* nothing left under the id of a worker that stopped cleanly.
TablesAreSound == QueueTypeOK /\ OneActiveJobPerKey /\ CleanStopOwnsNoStartedJob
=============================================================================
