--------------------------------- MODULE Cron ---------------------------------
(***************************************************************************)
(* The single-leader periodic runner of src/src/db/fleet/cron.rs over one  *)
(* mutex key: acquire leadership, run the task every interval while the    *)
(* guard holds, release, and, when running continuously, try again.        *)
(***************************************************************************)
EXTENDS GuardedKey

CONSTANT Calls     \* the combinations of entry points the users call: a set of functions

ASSUME CronAssumption ==
    Calls \subseteq [Users -> {"try_run_once", "run_once", "tenure", "continuous"}]

VARIABLES
    style,       \* which of the entry points each user called
    cron,        \* where its loop is, why it releases, how it ended, and (history) the
                 \* fencing token of its tenure
    stop         \* the stop future has resolved (request_stop, or the handle dropped)

cronVars == <<style, cron, stop>>

cronAll == <<keyVars, cronVars>>

Loops(c) == style[c] \in {"tenure", "continuous"}

CronPlaces == {"acquiring", "backoff", "checking", "task", "sleeping", "releasing", "regain", "ended"}

\* Types, and: a user that waits for leadership or has ended holds no guard.
CronTypeOK ==
    /\ GuardedKeyTypeOK
    /\ \A c \in Users : cron[c].at \in {"acquiring", "backoff", "regain", "ended"}
                          => mine[c] = 0 /\ ~ beating[c]
    /\ style \in Calls
    /\ cron \in [Users -> [at : CronPlaces, why : {"none", "ran", "task_error", "lost", "stop"},
                           end : {"none", "ran", "held", "lost", "stopped", "task_failed", "failed"},
                           led : 0 .. MaxGrants]]
    /\ stop \in [Users -> BOOLEAN]

CronInit ==
    /\ GuardedKeyInit
    /\ style \in Calls
    /\ cron = [c \in Users |-> [at |-> "acquiring", why |-> "none", end |-> "none", led |-> 0]]
    /\ stop = [c \in Users |-> FALSE]

In(c, place) == cron[c].at = place

Moves(c, place) == cron' = [cron EXCEPT ![c].at = place]

Releases(c, why) == cron' = [cron EXCEPT ![c].at = "releasing", ![c].why = why]

Regains(c) == cron' = [cron EXCEPT ![c] = [at |-> "regain", why |-> "none", end |-> "none", led |-> 0]]

LoopEnds(c, how) == cron' = [cron EXCEPT ![c] = [at |-> "ended", why |-> "none", end |-> how, led |-> 0]]

-----------------------------------------------------------------------------
(***************************************************************************)
(* Acquiring leadership.                                                   *)
(***************************************************************************)
BecomeLeader(c) ==
    /\ In(c, "acquiring")
    /\ ClaimGranted(c, TRUE)
    /\ cron' = [cron EXCEPT ![c].at = "checking", ![c].led = last']
    /\ UNCHANGED <<rowlock, style, stop>>

\* Waiting styles keep trying; try_run_once gives up.
LeadershipHeld(c) ==
    /\ In(c, "acquiring") /\ style[c] = "try_run_once"
    /\ ClaimRefused
    /\ LoopEnds(c, "held")
    /\ UNCHANGED <<style, stop>>

\* A loop retries after a database error that is_retryable_cron_leadership_acquire_error
\* accepts; any other error, and any error of a single run, is returned.
AcquireErrs(c) ==
    /\ In(c, "acquiring")
    /\ ClaimErrs
    /\ LoopEnds(c, "failed") \/ (Loops(c) /\ Moves(c, "backoff"))
    /\ UNCHANGED <<rowlock, style, stop>>

\* Mutant: the loop does not come back from the delay after an error.
DelayEndsOfLoss(c) ==
    /\ In(c, "regain")
    /\ Moves(c, "acquiring")
    /\ UNCHANGED <<keyVars, style, stop>>

DelayEnds(c) ==
    /\ In(c, "backoff") \/ In(c, "regain")
    /\ Moves(c, "acquiring")
    /\ UNCHANGED <<keyVars, style, stop>>

\* Mutant: the stop is not seen while the loop waits for leadership.
StopWhileWaitingUnseen(c) ==
    /\ Loops(c) /\ stop[c]
    /\ In(c, "backoff")
    /\ UNCHANGED keyVars
    /\ LoopEnds(c, "stopped")
    /\ UNCHANGED <<rowlock, style, stop>>

\* The stop wins the select: the acquisition is dropped, with a claim that may be
\* in flight.
StopWhileWaiting(c) ==
    /\ Loops(c) /\ stop[c]
    /\ \/ In(c, "acquiring") /\ ClaimAbandoned
       \/ (In(c, "acquiring") \/ In(c, "backoff") \/ In(c, "regain")) /\ UNCHANGED <<lockVars, claimVars>>
    /\ LoopEnds(c, "stopped")
    /\ UNCHANGED <<rowlock, style, stop>>

-----------------------------------------------------------------------------
(***************************************************************************)
(* A tenure: execute_task_while_guarded, then the interval.                *)
(***************************************************************************)

\* live_claim_snapshot: no task starts once the loss is known.
StartTask(c) ==
    /\ In(c, "checking")
    /\ IF lost[c] \/ mine[c] = 0 THEN Releases(c, "lost") ELSE Moves(c, "task")
    /\ UNCHANGED <<keyVars, style, stop>>

TaskReturnsOk(c) ==
    /\ In(c, "task")
    /\ CASE lost[c]             -> Releases(c, "lost")
         [] ~ lost[c] /\ Loops(c) -> Moves(c, "sleeping")
         [] OTHER               -> Releases(c, "ran")
    /\ UNCHANGED <<keyVars, style, stop>>

\* The error policy of a loop stops it or keeps leadership for the next tick.
TaskReturnsErr(c) ==
    /\ In(c, "task")
    /\ \/ Releases(c, "task_error")
       \/ Loops(c) /\ lost[c] /\ Releases(c, "lost")
       \/ Loops(c) /\ ~ lost[c] /\ Moves(c, "sleeping")
    /\ UNCHANGED <<keyVars, style, stop>>

\* The three arms of the select between two ticks.
IntervalEnds(c) ==
    /\ In(c, "sleeping")
    /\ Moves(c, "checking")
    /\ UNCHANGED <<keyVars, style, stop>>

\* Mutant: the stop returns without releasing leadership.
StopBetweenTicksHolding(c) ==
    /\ In(c, "sleeping") /\ stop[c]
    /\ LoopEnds(c, "stopped")
    /\ ProcessStops(c)
    /\ UNCHANGED <<rowlock, style, stop>>

StopBetweenTicks(c) ==
    /\ In(c, "sleeping") /\ stop[c]
    /\ Releases(c, "stop")
    /\ UNCHANGED <<keyVars, style, stop>>

\* Mutant: after a loss the guard is not released.
LossBetweenTicksKeepsGuard(c) ==
    /\ In(c, "sleeping") /\ lost[c]
    /\ Regains(c)
    /\ UNCHANGED <<keyVars, style, stop>>

LossBetweenTicks(c) ==
    /\ In(c, "sleeping") /\ lost[c]
    /\ Releases(c, "lost")
    /\ UNCHANGED <<keyVars, style, stop>>

\* Mutant: a run counts as done although its leadership was gone at release.
AfterReleaseUnchecked(c, answer) ==
    CASE cron[c].why = "stop" /\ answer # "error" -> LoopEnds(c, "stopped")
      [] cron[c].why = "ran"  /\ answer # "error" -> LoopEnds(c, "ran")
      [] cron[c].why = "lost" /\ answer # "error" ->
            IF style[c] = "continuous" THEN Regains(c) ELSE LoopEnds(c, "lost")
      [] cron[c].why = "task_error" /\ answer # "error" -> LoopEnds(c, "task_failed")
      [] OTHER -> LoopEnds(c, "failed")

\* combine_cron_task_and_release_results, release_cron_guard_after_leadership_lost
\* and the release after a stop.
AfterRelease(c, answer) ==
    CASE cron[c].why = "stop" /\ answer # "error"    -> LoopEnds(c, "stopped")
      [] cron[c].why = "ran"  /\ answer = "released" -> LoopEnds(c, "ran")
      [] cron[c].why = "lost" /\ answer # "error"    ->
            IF style[c] = "continuous" THEN Regains(c) ELSE LoopEnds(c, "lost")
      [] cron[c].why = "task_error" /\ answer # "error" -> LoopEnds(c, "task_failed")
      [] OTHER -> LoopEnds(c, "failed")

ReleaseLeadership(c) == \E answer \in ReleaseAnswers :
    /\ In(c, "releasing")
    /\ GuardRelease(c, TRUE, answer)
    /\ AfterRelease(c, answer)
    /\ UNCHANGED <<rowlock, style, stop>>

-----------------------------------------------------------------------------
StopLoop(c) ==
    /\ ~ stop[c] /\ Loops(c) /\ ~ In(c, "ended")
    /\ stop' = [stop EXCEPT ![c] = TRUE]
    /\ UNCHANGED <<keyVars, style, cron>>

\* The process stops or the future of a call is dropped, with its guard.
CronDies(c) ==
    /\ ~ In(c, "ended")
    /\ LoopEnds(c, "failed")
    /\ \/ ProcessStops(c)
       \/ GuardDropped(c)
       \/ In(c, "acquiring") /\ ClaimAbandoned
    /\ UNCHANGED <<rowlock, style, stop>>

\* The steps the runtime and the server owe a loop whose task returns.
LoopNext(c) ==
    \/ BecomeLeader(c) \/ LeadershipHeld(c) \/ DelayEnds(c)
    \/ StartTask(c) \/ TaskReturnsOk(c) \/ TaskReturnsErr(c)
    \/ IntervalEnds(c) \/ LossBetweenTicks(c) \/ ReleaseLeadership(c)

StopNext(c) == StopWhileWaiting(c) \/ StopBetweenTicks(c)

CronBackground == BackgroundNext /\ UNCHANGED <<rowlock, cronVars>>

CronNext ==
    \/ \E c \in Users : LoopNext(c) \/ AcquireErrs(c) \/ StopNext(c) \/ StopLoop(c) \/ CronDies(c)
    \/ CronBackground

(***************************************************************************)
(* Fairness: spawned loops, heartbeats and server are scheduled, tasks     *)
(* return, a resolved stop is not passed over forever by select!, and a    *)
(* grant that nobody renews lapses.                                        *)
(***************************************************************************)
Unrenewed == ~ \E c \in Users : beating[c] /\ Owns(c)

CronFairness ==
    /\ \A c \in Users :
          /\ WF_cronAll(LoopNext(c))
          /\ SF_cronAll(BecomeLeader(c))
          /\ SF_cronAll(StopNext(c))
    /\ WF_cronAll(Unrenewed /\ LeaseLapses /\ UNCHANGED <<rowlock, cronVars>>)

CronSpec == CronInit /\ [][CronNext]_cronAll /\ CronFairness

-----------------------------------------------------------------------------
\* A single run that reports its value led all the time: nobody else was granted
\* leadership between its claim and its release.
CronRanWhileLeading ==
    \A c \in Users :
        (cron[c].end # "ran" /\ cron'[c].end = "ran") => last' = cron[c].led

\* A tenure that ends in order, by a stop, a task error or a loss, leaves no live
\* lease of its own behind that would keep the next leader waiting -- unless a
\* renewal of it was not acknowledged.
LeadershipIsHandedOn ==
    \A c \in Users :
        (/\ cron[c].led # 0 /\ cron'[c].led = 0 /\ proof[c]
         /\ cron'[c].end # "failed")
            => ~ (live' /\ fence' = cron[c].led)

\* A loop that was asked to stop comes to its end, wherever the stop met it.
StopIsObeyed == \A c \in Users : stop[c] ~> In(c, "ended")

\* Leadership is not lost for good: when all others have ended, a continuous
\* loop leads again, although dead processes, dropped guards and claims granted
\* to nobody have left their leases behind.
LeadershipIsRegained ==
    \A c \in Users :
        (/\ style[c] = "continuous" /\ ~ In(c, "ended")
         /\ \A d \in Users \ {c} : In(d, "ended"))
            ~> (In(c, "task") \/ In(c, "ended") \/ last = MaxGrants)

\* How a tenure ends: with its value only if it led throughout, and with its
\* lease given back.
TenuresEndInOrder == [][CronRanWhileLeading /\ LeadershipIsHandedOn]_cronAll

\* What a loop must come to: its end when it is stopped, leadership when it is
\* left alone.
CronMakesProgress == StopIsObeyed /\ LeadershipIsRegained
=============================================================================
