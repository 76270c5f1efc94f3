----------------------------- MODULE QueueRuntime -----------------------------
(***************************************************************************)
(* A queue worker started with fleet maintenance                           *)
(* (src/src/db/queue/worker_maintenance.rs): the run loop, the reclaim     *)
(* cron and the cleanup cron are three spawned tasks that share one        *)
(* cancellation signal, and a supervisor that stops the others when one of *)
(* them ends and combines what they return.                                *)
(*                                                                         *)
(* The signal is a flag and a Notify.  A waiter tests the flag, creates    *)
(* its Notified future, tests the flag again and sleeps; the requester     *)
(* sets the flag and then wakes the futures that exist.  The tasks run on  *)
(* several threads, so these are separate steps.  What the run loop does   *)
(* with jobs is in QueueWorker, what a cron does with leadership in Cron.  *)
(***************************************************************************)
EXTENDS Naturals, FiniteSets

CONSTANTS
    MinBackoff,   \* MIN_QUEUE_RETRY_BACKOFF
    MaxDuration   \* bound on the durations of the retry policies

ASSUME RuntimeAssumption ==
    MinBackoff \in Nat \ {0} /\ MaxDuration \in Nat /\ MinBackoff < MaxDuration

VARIABLES
    requested,   \* the flag of the signal
    notifying,   \* the flag was set and notify_waiters is still to come
    task,        \* the three tasks
    supervisor   \* run_queue_worker_loop_with_fleet_maintenance

runtimeVars == <<requested, notifying, task, supervisor>>

Crons == {"reclaim", "cleanup"}

Tasks == Crons \union {"worker"}

\* Where the poll of a task's waiter is.
WaiterSteps == {"new", "tested", "created", "asleep", "woken", "returned"}

Places == {"top", "select", "body", "failing", "draining", "ended"}

NewTask == [at |-> "select", waiter |-> "new", target |-> 0, end |-> "none"]

RuntimeTypeOK ==
    /\ requested \in BOOLEAN /\ notifying \in BOOLEAN
    /\ task \in [Tasks -> [at : Places, waiter : WaiterSteps, target : 0 .. 3,
                           end : {"none", "ok", "error", "panic"}]]
    /\ \A t \in Tasks : task[t].at = "ended" <=> task[t].end # "none"
    /\ supervisor.at \in {"select", "seen", "joining", "returned"}
    /\ supervisor.first \in Tasks \union {"none"}
    /\ supervisor.requestedBefore \in BOOLEAN
    /\ supervisor.failures \subseteq Tasks \union {"stopped_unexpectedly"}
    /\ notifying => requested

RuntimeInit ==
    /\ requested = FALSE /\ notifying = FALSE
    /\ task = [t \in Tasks |-> IF t = "worker" THEN [NewTask EXCEPT !.at = "top"] ELSE NewTask]
    /\ supervisor = [at |-> "select", first |-> "none", requestedBefore |-> FALSE, failures |-> {}]

Goes(t, place) == task' = [task EXCEPT ![t].at = place]

\* Mutant: the place is kept.
EndsInPlace(t, result) == task' = [task EXCEPT ![t].end = result]

Ends(t, result) == task' = [task EXCEPT ![t] = [NewTask EXCEPT !.at = "ended", !.end = result]]

-----------------------------------------------------------------------------
(***************************************************************************)
(* RuntimeCancellationSignal.                                              *)
(***************************************************************************)

\* request_cancellation: the swap; the first caller goes on to notify_waiters.
SetFlag == requested' = TRUE /\ notifying' = (notifying \/ ~requested)

\* Every Notified future that exists is woken, whether it was polled or not.
NotifyWaiters ==
    /\ notifying /\ notifying' = FALSE
    /\ task' = [t \in Tasks |-> IF task[t].waiter \in {"created", "asleep"}
                                THEN [task[t] EXCEPT !.waiter = "woken"] ELSE task[t]]
    /\ UNCHANGED <<requested, supervisor>>

\* Mutant: the flag is not tested again once the future exists.
AfterStepTestedOnce(waiter) ==
    CASE waiter = "new" -> IF requested THEN "returned" ELSE "tested"
      [] waiter = "tested" -> "asleep"
      [] waiter = "woken" -> "new"
      [] OTHER -> waiter

\* wait_until_cancellation_requested, one step: the loop's test, the future, the
\* second test.  A woken future makes the loop test the flag again.
AfterStep(waiter) ==
    CASE waiter = "new" -> IF requested THEN "returned" ELSE "tested"
      [] waiter = "tested" -> "created"
      [] waiter = "created" -> IF requested THEN "returned" ELSE "asleep"
      [] waiter = "woken" -> "new"
      [] OTHER -> waiter

\* A select polls the waiter next to its other branches.
PollWaiter(t) ==
    /\ task[t].at = "select" /\ AfterStep(task[t].waiter) # task[t].waiter
    /\ task' = [task EXCEPT ![t].waiter = AfterStep(@)]
    /\ UNCHANGED <<requested, notifying, supervisor>>

\* WorkerHandle: request_stop, stop_and_wait, or its drop.
RequestStop ==
    /\ ~requested /\ SetFlag
    /\ UNCHANGED <<task, supervisor>>

-----------------------------------------------------------------------------
(***************************************************************************)
(* The crons.  The stop future is pinned for the whole run: it keeps its    *)
(* step while the cron is inside its task.                                  *)
(***************************************************************************)

\* Leadership was gained, or the interval has passed; the waiter was polled
\* before either could be.
TickBegins(t) ==
    /\ t \in Crons /\ task[t].at = "select" /\ task[t].waiter \in {"asleep", "woken"}
    /\ task' = [task EXCEPT ![t].at = "body", ![t].target = IF t = "cleanup" THEN 1 ELSE 0]
    /\ UNCHANGED <<requested, notifying, supervisor>>

\* One reclaim transaction.
ReclaimReturns ==
    /\ task["reclaim"].at = "body" /\ Goes("reclaim", "select")
    /\ UNCHANGED <<requested, notifying, supervisor>>

\* cleanup_target_older_than_until_empty returns: the next of completed, failed
\* and dead-letter rows, or the end of the tick.
NextTarget(c) ==
    IF c.target = 3 THEN [c EXCEPT !.at = "select", !.target = 0] ELSE [c EXCEPT !.target = @ + 1]

\* The signal is tested before every batch; a batch that is not full ends the
\* target, a full one is followed by another (rows may keep growing old).
CleanupStep ==
    /\ task["cleanup"].at = "body"
    /\ \/ task' = [task EXCEPT !["cleanup"] = NextTarget(@)]
       \/ ~requested /\ UNCHANGED task
    /\ UNCHANGED <<requested, notifying, supervisor>>

\* A failed task stops its cron (CronTaskErrorAction::Stop), as an error of the
\* leadership does; a panic ends it too.
CronFails(t) ==
    /\ t \in Crons /\ task[t].at \in {"select", "body"}
    /\ \E result \in {"error", "panic"} : Ends(t, result)
    /\ UNCHANGED <<requested, notifying, supervisor>>

\* The stop branch: leadership is released, which may fail.
CronStops(t) ==
    /\ t \in Crons /\ task[t].at = "select" /\ task[t].waiter = "returned"
    /\ \E result \in {"ok", "error"} : Ends(t, result)
    /\ UNCHANGED <<requested, notifying, supervisor>>

-----------------------------------------------------------------------------
(***************************************************************************)
(* The run loop.  Each of its selects has a waiter of its own.              *)
(***************************************************************************)

LoopTop ==
    /\ task["worker"].at = "top"
    /\ Goes("worker", IF requested THEN "draining" ELSE "body")
    /\ UNCHANGED <<requested, notifying, supervisor>>

\* The claim returned: jobs, none, or an error that makes the loop back off.
ClaimReturns ==
    /\ task["worker"].at = "body"
    /\ task' = [task EXCEPT !["worker"] = [NewTask EXCEPT !.at = "select"]]
    /\ UNCHANGED <<requested, notifying, supervisor>>

\* A timer, or a job that ended: the waiter is dropped.
SelectEnds ==
    /\ task["worker"].at = "select" /\ task["worker"].waiter # "returned"
    /\ task' = [task EXCEPT !["worker"] = [NewTask EXCEPT !.at = "top"]]
    /\ UNCHANGED <<requested, notifying, supervisor>>

StopSeen ==
    /\ task["worker"].at = "select" /\ task["worker"].waiter = "returned"
    /\ Goes("worker", "draining")
    /\ UNCHANGED <<requested, notifying, supervisor>>

\* handle_queue_worker_runtime_error sets the signal before it cleans up.
WorkerFails ==
    /\ task["worker"].at \in {"body", "select"}
    /\ Goes("worker", "failing") /\ SetFlag
    /\ UNCHANGED supervisor

WorkerPanics ==
    /\ task["worker"].at # "ended" /\ Ends("worker", "panic")
    /\ UNCHANGED <<requested, notifying, supervisor>>

WorkerReturns ==
    /\ \/ task["worker"].at = "failing" /\ Ends("worker", "error")
       \/ task["worker"].at = "draining" /\ \E result \in {"ok", "error"} : Ends("worker", result)
    /\ UNCHANGED <<requested, notifying, supervisor>>

-----------------------------------------------------------------------------
(***************************************************************************)
(* The supervisor.                                                         *)
(***************************************************************************)

Ended(t) == task[t].at = "ended"

\* The select over the three join handles; after a cron the flag is read first.
FirstEnds(t) ==
    /\ supervisor.at = "select" /\ Ended(t)
    /\ supervisor' = [supervisor EXCEPT !.at = "seen", !.first = t, !.requestedBefore = requested]
    /\ UNCHANGED <<requested, notifying, task>>

StopOthers ==
    /\ supervisor.at = "seen" /\ SetFlag
    /\ supervisor' = [supervisor EXCEPT !.at = "joining"]
    /\ UNCHANGED task

\* Mutant: the alarm does not look at the flag.
CombinedFailuresAlarmed ==
    {t \in Tasks : task[t].end # "ok"} \union
    (IF supervisor.first \in Crons /\ task[supervisor.first].end = "ok"
     THEN {"stopped_unexpectedly"} ELSE {})

\* collect_queue_worker_runtime_component_failures, and the alarm for a cron
\* that ended first, cleanly, and unasked.
CombinedFailures ==
    {t \in Tasks : task[t].end # "ok"} \union
    (IF /\ supervisor.first \in Crons /\ task[supervisor.first].end = "ok"
        /\ ~supervisor.requestedBefore
     THEN {"stopped_unexpectedly"} ELSE {})

AllJoined == \A t \in Tasks : Ended(t)

SupervisorReturns ==
    /\ supervisor.at = "joining" /\ AllJoined
    /\ supervisor' = [supervisor EXCEPT !.at = "returned", !.failures = CombinedFailures]
    /\ UNCHANGED <<requested, notifying, task>>

-----------------------------------------------------------------------------
CronStep(t) == PollWaiter(t) \/ CronStops(t)

WorkerStep ==
    \/ LoopTop \/ ClaimReturns \/ PollWaiter("worker") \/ SelectEnds \/ StopSeen \/ WorkerReturns

SupervisorStep == (\E t \in Tasks : FirstEnds(t)) \/ StopOthers \/ SupervisorReturns

RuntimeNext ==
    \/ RequestStop \/ NotifyWaiters
    \/ WorkerStep \/ WorkerFails \/ WorkerPanics
    \/ \E t \in Crons : CronStep(t) \/ TickBegins(t) \/ CronFails(t)
    \/ ReclaimReturns \/ CleanupStep
    \/ SupervisorStep

RuntimeSpec == RuntimeInit /\ [][RuntimeNext]_runtimeVars

\* The runtime polls what is ready and database calls return.  A select takes a
\* ready branch at random: a stop that is ready again and again is taken.
RuntimeFairness ==
    /\ WF_runtimeVars(NotifyWaiters) /\ WF_runtimeVars(WorkerStep) /\ WF_runtimeVars(SupervisorStep)
    /\ \A t \in Crons : SF_runtimeVars(CronStep(t))
    /\ WF_runtimeVars(ReclaimReturns) /\ WF_runtimeVars(requested /\ CleanupStep)

FairRuntimeSpec == RuntimeSpec /\ RuntimeFairness

-----------------------------------------------------------------------------
\* When the supervisor returns nothing of the three runs any more, and its error
\* names every part that failed and no other; a cron that stopped because it was
\* told to is never reported as stopped unexpectedly, however the stop, the
\* failure of another part and the supervisor's tests interleave.
RuntimeResultIsTruthful ==
    supervisor.at = "returned" =>
        /\ \A t \in Tasks : Ended(t)
        /\ supervisor.failures = {t \in Tasks : task[t].end # "ok"}

\* A stop, or the end of any of the three, ends all of them: no wakeup is lost
\* between the test of the flag and the sleep, and no backlog of old rows keeps
\* the cleanup in its batches.
StopEndsEverything ==
    (requested \/ \E t \in Tasks : Ended(t)) ~> supervisor.at = "returned"

-----------------------------------------------------------------------------
(***************************************************************************)
(* The delay before a retry, compute_queue_retry_backoff, with durations    *)
(* and jitter as numbers: a jittered duration is any of those the fraction  *)
(* (in tenths) allows, cut off at zero.                                     *)
(***************************************************************************)

Durations == 0 .. MaxDuration

Policies ==
    [strategy : {"exponential", "fixed", "custom"}, base : {2, 3}, backoff : Durations,
     max : Durations, jitter : {0, 5, 12}]

\* resolve_queue_retry_policy.
PolicyIsValid(p) ==
    CASE p.strategy = "fixed" -> p.backoff > 0
      [] OTHER -> p.max >= MinBackoff

Larger(a, b) == IF a < b THEN b ELSE a

Smaller(a, b) == IF a < b THEN a ELSE b

NormalizedBackoff(d, max) ==
    IF max = 0 THEN Larger(d, MinBackoff) ELSE Smaller(Larger(d, MinBackoff), max)

\* apply_symmetric_duration_jitter.
Jittered(d, jitter) ==
    {x \in 0 .. 3 * MaxDuration : x * 10 <= d * (10 + jitter) /\ x * 10 + d * jitter >= d * 10}

\* Mutant: the maximum is applied before the jitter.
BackoffsCappedFirst(p, n, custom) ==
    CASE p.strategy = "fixed" -> {NormalizedBackoff(x, 0) : x \in Jittered(p.backoff, p.jitter)}
      [] p.strategy = "custom" ->
            {NormalizedBackoff(x, 0) : x \in Jittered(NormalizedBackoff(custom, p.max), p.jitter)}
      [] OTHER -> {NormalizedBackoff(x, 0) : x \in Jittered(Smaller(p.base ^ n, p.max), p.jitter)}

\* The backoffs that the n-th retry may get; custom is what the callback returns.
Backoffs(p, n, custom) ==
    CASE p.strategy = "fixed" -> {NormalizedBackoff(x, 0) : x \in Jittered(p.backoff, p.jitter)}
      [] p.strategy = "custom" ->
            {NormalizedBackoff(x, p.max) : x \in Jittered(NormalizedBackoff(custom, p.max), p.jitter)}
      [] OTHER -> {NormalizedBackoff(x, p.max) : x \in Jittered(Smaller(p.base ^ n, p.max), p.jitter)}

\* The retries that the accepted policies may have to schedule.
Retries ==
    [policy : {p \in Policies : PolicyIsValid(p)}, n : 0 .. 3, custom : {0, MaxDuration}]

\* No policy that resolve_queue_retry_policy accepts, jitter above one included,
\* makes a retry immediate, and none but a fixed one makes it later than its maximum.
BackoffIsBounded ==
    \A retry \in Retries : \A d \in Backoffs(retry.policy, retry.n, retry.custom) :
        d >= MinBackoff /\ (retry.policy.strategy # "fixed" => d <= retry.policy.max)

\* The worker runtime: types, a result that names what failed and nothing else,
\* and retries that are neither immediate nor later than their maximum.
RuntimeIsSound == RuntimeTypeOK /\ RuntimeResultIsTruthful /\ BackoffIsBounded
=============================================================================
