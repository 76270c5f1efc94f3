------------------------------ MODULE MutexGuard ------------------------------
(***************************************************************************)
(* The renewing mutex guard of src/src/db/fleet (mutex.rs, mutex_guard.rs) *)
(* on top of the lease tables of LeaseStore.                               *)
(*                                                                         *)
(* A guarded client claims the lease, starts a heartbeat task and runs a   *)
(* caller-supplied task; then it releases the lease, stops the heartbeat   *)
(* and combines the two results.  Owner and heartbeat share current_claim  *)
(* behind a tokio mutex, and two flags.  Dropping the guard, or the future *)
(* that runs the task, hands the rest to a spawned cleanup.  Clients       *)
(* outside Guarded use the lease directly (manual renewal).                *)
(***************************************************************************)
EXTENDS LeaseStore

CONSTANTS
    Guarded,       \* clients that run a task under a guard, once each
    MaxFailures    \* max_consecutive_renewal_failures

ASSUME GuardAssumption == Guarded \subseteq Clients /\ MaxFailures \in Nat \ {0}

VARIABLES
    owner,            \* where the future that runs the task is
    heartbeat,        \* where run_mutex_guard_heartbeat is
    stop_heartbeat,   \* AtomicBool
    leadership_lost,  \* AtomicBool
    failures,         \* consecutive_failures of the heartbeat
    current,          \* whether current_claim is Some; its value is claim[c]
    lock,             \* who holds the tokio mutex around current_claim
    verdict,          \* what execute_task_while_mutex_guarded returned
    released,         \* what releasing the claim returned
    result,           \* what run_task_once_under_mutex_guard returned
    interrupted       \* history: another token was in the row before the release

guardVars == <<owner, heartbeat, stop_heartbeat, leadership_lost, failures,
               current, lock, verdict, released, result>>

allVars == <<vars, guardVars, interrupted>>

OwnerStates == {"idle", "claiming", "guarded", "snapshotting", "running", "releasing",
                "release_sent", "joining", "dropped", "cleaning", "done"}

HeartbeatStates == {"none", "sleeping", "locking", "renewing", "exited"}

GuardTypeOK ==
    /\ TypeOK
    /\ owner \in [Guarded -> OwnerStates]
    /\ heartbeat \in [Guarded -> HeartbeatStates]
    /\ stop_heartbeat \in [Guarded -> BOOLEAN]
    /\ leadership_lost \in [Guarded -> BOOLEAN]
    /\ failures \in [Guarded -> 0 .. MaxFailures]
    /\ current \in [Guarded -> BOOLEAN]
    /\ lock \in [Guarded -> {"free", "owner", "heartbeat"}]
    /\ verdict \in [Guarded -> {"none", "task_ok", "task_err", "lost"}]
    /\ released \in [Guarded -> {"none", "true", "false", "protocol_failure"}]
    /\ result \in [Guarded -> {"none", "ok", "failed"}]
    /\ interrupted \in [Guarded -> BOOLEAN]

GuardInit ==
    /\ Init
    /\ owner = [c \in Guarded |-> "idle"]
    /\ heartbeat = [c \in Guarded |-> "none"]
    /\ stop_heartbeat = [c \in Guarded |-> FALSE]
    /\ leadership_lost = [c \in Guarded |-> FALSE]
    /\ failures = [c \in Guarded |-> 0]
    /\ current = [c \in Guarded |-> FALSE]
    /\ lock = [c \in Guarded |-> "free"]
    /\ verdict = [c \in Guarded |-> "none"]
    /\ released = [c \in Guarded |-> "none"]
    /\ result = [c \in Guarded |-> "none"]
    /\ interrupted = [c \in Guarded |-> FALSE]

Set(f, c, v) == [f EXCEPT ![c] = v]

\* The call that waits for statement s returns an error: the transaction rolled
\* back, or its commit was not acknowledged, or the connection broke.
StatementErrs(s) ==
    /\ stmt[s].awaited
    /\ \/ StatementRollsBack(s)
       \/ Abandon(s)
       \/ ClaimFinish(s, FALSE)
       \/ RenewFinish(s, FALSE)
       \/ ReleaseFinish(s, FALSE)

Awaits(c, s) == stmt[s].awaited /\ stmt[s].client = c

-----------------------------------------------------------------------------
(***************************************************************************)
(* The owner: Mutex::try_run_task / run_task_when_available.               *)
(***************************************************************************)
TryClaimGuard(c, s) ==
    /\ owner[c] = "idle"
    /\ TryClaimLease(c, s)
    /\ owner' = Set(owner, c, "claiming")
    /\ UNCHANGED <<heartbeat, stop_heartbeat, leadership_lost, failures, current, lock,
                   verdict, released, result>>

GuardFromClaim(c, s) ==
    /\ owner[c] = "claiming" /\ Awaits(c, s)
    /\ Granted(stmt[s])
    /\ ClaimFinish(s, TRUE)
    /\ owner' = Set(owner, c, "guarded")
    /\ heartbeat' = Set(heartbeat, c, "sleeping")
    /\ current' = Set(current, c, TRUE)
    /\ UNCHANGED <<stop_heartbeat, leadership_lost, failures, lock, verdict, released, result>>

\* MutexHeld, or an error: no guard.  A caller that waits for the mutex tries again.
NoGuard(c, s) ==
    /\ owner[c] = "claiming" /\ Awaits(c, s)
    /\ \/ ~ Granted(stmt[s]) /\ ClaimFinish(s, TRUE)
       \/ StatementErrs(s)
    /\ owner' = Set(owner, c, "idle")
    /\ UNCHANGED <<heartbeat, stop_heartbeat, leadership_lost, failures, current, lock,
                   verdict, released, result>>

\* live_claim_snapshot: the flag is read first, the claim under the lock.
CheckLostBeforeTask(c) ==
    /\ owner[c] = "guarded"
    /\ IF leadership_lost[c]
       THEN owner' = Set(owner, c, "releasing") /\ verdict' = Set(verdict, c, "lost")
       ELSE owner' = Set(owner, c, "snapshotting") /\ UNCHANGED verdict
    /\ UNCHANGED <<vars, heartbeat, stop_heartbeat, leadership_lost, failures, current, lock,
                   released, result>>

LiveClaimSnapshot(c) ==
    /\ owner[c] = "snapshotting"
    /\ lock[c] = "free"
    /\ IF current[c]
       THEN owner' = Set(owner, c, "running") /\ UNCHANGED verdict
       ELSE owner' = Set(owner, c, "releasing") /\ verdict' = Set(verdict, c, "lost")
    /\ UNCHANGED <<vars, heartbeat, stop_heartbeat, leadership_lost, failures, current, lock,
                   released, result>>

TaskEnds(c) ==
    /\ owner[c] = "running"
    /\ owner' = Set(owner, c, "releasing")
    /\ verdict' \in {Set(verdict, c, "task_err"),
                     Set(verdict, c, IF leadership_lost[c] THEN "lost" ELSE "task_ok")}
    /\ UNCHANGED <<vars, heartbeat, stop_heartbeat, leadership_lost, failures, current, lock,
                   released, result>>

\* Mutant: the release does not take the lock.
ReleaseWithoutLock(c, s) ==
    /\ owner[c] = "releasing"
    /\ current[c]
    /\ ReleaseLease(c, s)
    /\ owner' = Set(owner, c, "release_sent")
    /\ UNCHANGED <<heartbeat, stop_heartbeat, leadership_lost, failures, current, lock,
                   verdict, released, result>>

\* release_current_claim, up to its statement.
ReleaseCurrentClaim(c, s) ==
    /\ owner[c] = "releasing"
    /\ lock[c] = "free"
    /\ current[c]
    /\ ReleaseLease(c, s)
    /\ lock' = Set(lock, c, "owner")
    /\ owner' = Set(owner, c, "release_sent")
    /\ UNCHANGED <<heartbeat, stop_heartbeat, leadership_lost, failures, current,
                   verdict, released, result>>

\* stop_heartbeat_loop, up to the join; a sleeping heartbeat is notified.
StopHeartbeatLoop(c, outcome) ==
    /\ stop_heartbeat' = Set(stop_heartbeat, c, TRUE)
    /\ owner' = Set(owner, c, "joining")
    /\ released' = Set(released, c, outcome)

\* release_current_claim found current_claim empty: Ok(false).
NothingToRelease(c) ==
    /\ owner[c] = "releasing"
    /\ lock[c] = "free"
    /\ ~ current[c]
    /\ StopHeartbeatLoop(c, "false")
    /\ UNCHANGED <<vars, heartbeat, leadership_lost, failures, current, lock, verdict, result>>

\* Mutant: the owner keeps current_claim locked while it joins the heartbeat.
ReleaseReturnsLocked(c, s) ==
    /\ owner[c] = "release_sent" /\ Awaits(c, s)
    /\ ReleaseFinish(s, TRUE)
    /\ current' = Set(current, c, FALSE)
    /\ StopHeartbeatLoop(c, IF OwnsLease(stmt[s]) THEN "true" ELSE "false")
    /\ UNCHANGED <<heartbeat, leadership_lost, failures, lock, verdict, result>>

ReleaseReturns(c, s) ==
    /\ owner[c] = "release_sent" /\ Awaits(c, s)
    /\ ReleaseFinish(s, TRUE)
    /\ current' = Set(current, c, FALSE)
    /\ lock' = Set(lock, c, "free")
    /\ StopHeartbeatLoop(c, IF OwnsLease(stmt[s]) THEN "true" ELSE "false")
    /\ UNCHANGED <<heartbeat, leadership_lost, failures, verdict, result>>

\* MutexGuard::release: a protocol failure is final; the claim is given up.
ReleaseProtocolFailure(c, s) ==
    /\ owner[c] = "release_sent" /\ Awaits(c, s)
    /\ StatementRollsBack(s)
    /\ lock' = Set(lock, c, "free")
    /\ StopHeartbeatLoop(c, "protocol_failure")
    /\ UNCHANGED <<heartbeat, leadership_lost, failures, current, verdict, result>>

\* Drop for MutexGuard: stop the heartbeat and leave the release to a spawned task.
DropGuard(c) ==
    /\ stop_heartbeat' = Set(stop_heartbeat, c, TRUE)
    /\ owner' = Set(owner, c, "dropped")

\* Any other release error is returned; the guard is dropped with its claim.
ReleaseErrs(c, s) ==
    /\ owner[c] = "release_sent" /\ Awaits(c, s)
    /\ StatementErrs(s)
    /\ lock' = Set(lock, c, "free")
    /\ DropGuard(c)
    /\ result' = Set(result, c, "failed")
    /\ UNCHANGED <<heartbeat, leadership_lost, failures, current, verdict, released>>

\* Mutant: a task that finished is a success whatever the release returned.
CombineIgnoringRelease(c) == IF verdict[c] = "task_ok" THEN "ok" ELSE "failed"

\* combine_mutex_task_and_release_results, as far as Ok and Err.
CombineResults(c) ==
    IF verdict[c] = "task_ok" /\ released[c] = "true" THEN "ok" ELSE "failed"

\* The join returns; after a protocol failure the claim is taken and dropped.
HeartbeatJoined(c) ==
    /\ owner[c] = "joining"
    /\ heartbeat[c] = "exited"
    /\ owner' = Set(owner, c, "done")
    /\ current' = Set(current, c, FALSE)
    /\ result' = Set(result, c, CombineResults(c))
    /\ UNCHANGED <<vars, heartbeat, stop_heartbeat, leadership_lost, failures, lock,
                   verdict, released>>

\* The caller drops the future that runs the task.
CancelRun(c) ==
    /\ owner[c] \in {"guarded", "snapshotting", "running", "releasing"}
    /\ DropGuard(c)
    /\ result' = Set(result, c, "failed")
    /\ UNCHANGED <<vars, heartbeat, leadership_lost, failures, current, lock, verdict, released>>

CancelClaim(c, s) ==
    /\ owner[c] = "claiming" /\ Awaits(c, s)
    /\ Abandon(s)
    /\ owner' = Set(owner, c, "done")
    /\ UNCHANGED <<heartbeat, stop_heartbeat, leadership_lost, failures, current, lock,
                   verdict, released, result>>

CancelRelease(c, s) ==
    /\ owner[c] = "release_sent" /\ Awaits(c, s)
    /\ Abandon(s)
    /\ lock' = Set(lock, c, "free")
    /\ DropGuard(c)
    /\ result' = Set(result, c, "failed")
    /\ UNCHANGED <<heartbeat, leadership_lost, failures, current, verdict, released>>

\* Dropped while joining: the JoinHandle is gone, so Drop spawns nothing.
CancelJoin(c) ==
    /\ owner[c] = "joining"
    /\ owner' = Set(owner, c, "done")
    /\ result' = Set(result, c, "failed")
    /\ UNCHANGED <<vars, heartbeat, stop_heartbeat, leadership_lost, failures, current, lock,
                   verdict, released>>

\* The task spawned by Drop, once the heartbeat has exited.
CleanupRelease(c, s) ==
    /\ owner[c] = "dropped"
    /\ heartbeat[c] = "exited"
    /\ current[c]
    /\ ReleaseLease(c, s)
    /\ current' = Set(current, c, FALSE)
    /\ owner' = Set(owner, c, "cleaning")
    /\ UNCHANGED <<heartbeat, stop_heartbeat, leadership_lost, failures, lock,
                   verdict, released, result>>

CleanupNothing(c) ==
    /\ owner[c] = "dropped"
    /\ heartbeat[c] = "exited"
    /\ ~ current[c]
    /\ owner' = Set(owner, c, "done")
    /\ UNCHANGED <<vars, heartbeat, stop_heartbeat, leadership_lost, failures, current, lock,
                   verdict, released, result>>

CleanupEnds(c, s) ==
    /\ owner[c] = "cleaning" /\ Awaits(c, s)
    /\ ReleaseFinish(s, TRUE) \/ StatementErrs(s)
    /\ owner' = Set(owner, c, "done")
    /\ UNCHANGED <<heartbeat, stop_heartbeat, leadership_lost, failures, current, lock,
                   verdict, released, result>>

-----------------------------------------------------------------------------
(***************************************************************************)
(* run_mutex_guard_heartbeat.                                              *)
(***************************************************************************)

\* Mutant: the flag is not checked when the sleep ends.
HeartbeatWakesUnchecked(c) ==
    /\ heartbeat[c] = "sleeping"
    /\ heartbeat' = Set(heartbeat, c, "locking")
    /\ UNCHANGED <<vars, owner, stop_heartbeat, leadership_lost, failures, current, lock,
                   verdict, released, result>>

\* The sleep ended, or the stop notification arrived while sleeping; the flag
\* decides.  A notification sent in any other state is lost.
HeartbeatWakes(c) ==
    /\ heartbeat[c] = "sleeping"
    /\ heartbeat' = Set(heartbeat, c, IF stop_heartbeat[c] THEN "exited" ELSE "locking")
    /\ UNCHANGED <<vars, owner, stop_heartbeat, leadership_lost, failures, current, lock,
                   verdict, released, result>>

HeartbeatRenews(c, s) ==
    /\ heartbeat[c] = "locking"
    /\ lock[c] = "free"
    /\ current[c]
    /\ TryRenewLease(c, s)
    /\ lock' = Set(lock, c, "heartbeat")
    /\ heartbeat' = Set(heartbeat, c, "renewing")
    /\ UNCHANGED <<owner, stop_heartbeat, leadership_lost, failures, current,
                   verdict, released, result>>

HeartbeatFindsNoClaim(c) ==
    /\ heartbeat[c] = "locking"
    /\ lock[c] = "free"
    /\ ~ current[c]
    /\ heartbeat' = Set(heartbeat, c, "exited")
    /\ UNCHANGED <<vars, owner, stop_heartbeat, leadership_lost, failures, current, lock,
                   verdict, released, result>>

\* mark_mutex_guard_lost, then return.
LoseLeadership(c) ==
    /\ leadership_lost' = Set(leadership_lost, c, TRUE)
    /\ heartbeat' = Set(heartbeat, c, "exited")

HeartbeatRenewed(c, s) ==
    /\ heartbeat[c] = "renewing" /\ Awaits(c, s)
    /\ OwnsLease(stmt[s])
    /\ RenewFinish(s, TRUE)
    /\ lock' = Set(lock, c, "free")
    /\ failures' = Set(failures, c, 0)
    /\ heartbeat' = Set(heartbeat, c, "sleeping")
    /\ UNCHANGED <<owner, stop_heartbeat, leadership_lost, current, verdict, released, result>>

\* Mutant: the heartbeat forgets the claim and goes on as if it had renewed.
HeartbeatRefusedQuietly(c, s) ==
    /\ heartbeat[c] = "renewing" /\ Awaits(c, s)
    /\ ~ OwnsLease(stmt[s])
    /\ RenewFinish(s, TRUE)
    /\ lock' = Set(lock, c, "free")
    /\ current' = Set(current, c, FALSE)
    /\ heartbeat' = Set(heartbeat, c, "sleeping")
    /\ UNCHANGED <<owner, stop_heartbeat, leadership_lost, failures, verdict, released, result>>

\* The renewal returned None: the claim is not live any more.
HeartbeatRefused(c, s) ==
    /\ heartbeat[c] = "renewing" /\ Awaits(c, s)
    /\ ~ OwnsLease(stmt[s])
    /\ RenewFinish(s, TRUE)
    /\ lock' = Set(lock, c, "free")
    /\ current' = Set(current, c, FALSE)
    /\ LoseLeadership(c)
    /\ UNCHANGED <<owner, stop_heartbeat, failures, verdict, released, result>>

HeartbeatProtocolFailure(c, s) ==
    /\ heartbeat[c] = "renewing" /\ Awaits(c, s)
    /\ StatementRollsBack(s)
    /\ lock' = Set(lock, c, "free")
    /\ LoseLeadership(c)
    /\ UNCHANGED <<owner, stop_heartbeat, failures, current, verdict, released, result>>

\* Mutant: one failure too many is tolerated.
HeartbeatErrsOffByOne(c, s) ==
    /\ heartbeat[c] = "renewing" /\ Awaits(c, s)
    /\ StatementErrs(s)
    /\ lock' = Set(lock, c, "free")
    /\ failures' = Set(failures, c, failures[c] + 1)
    /\ IF failures[c] + 1 > MaxFailures
       THEN LoseLeadership(c)
       ELSE heartbeat' = Set(heartbeat, c, "sleeping") /\ UNCHANGED leadership_lost
    /\ UNCHANGED <<owner, stop_heartbeat, current, verdict, released, result>>

HeartbeatErrs(c, s) ==
    /\ heartbeat[c] = "renewing" /\ Awaits(c, s)
    /\ StatementErrs(s)
    /\ lock' = Set(lock, c, "free")
    /\ failures' = Set(failures, c, failures[c] + 1)
    /\ IF failures[c] + 1 >= MaxFailures
       THEN LoseLeadership(c)
       ELSE heartbeat' = Set(heartbeat, c, "sleeping") /\ UNCHANGED leadership_lost
    /\ UNCHANGED <<owner, stop_heartbeat, current, verdict, released, result>>

-----------------------------------------------------------------------------
OwnerNext(c) ==
    \/ CheckLostBeforeTask(c) \/ LiveClaimSnapshot(c) \/ TaskEnds(c)
    \/ NothingToRelease(c) \/ HeartbeatJoined(c) \/ CleanupNothing(c)
    \/ \E s \in Slots :
          \/ GuardFromClaim(c, s) \/ NoGuard(c, s)
          \/ ReleaseCurrentClaim(c, s) \/ ReleaseReturns(c, s)
          \/ ReleaseProtocolFailure(c, s) \/ ReleaseErrs(c, s)
          \/ CleanupRelease(c, s) \/ CleanupEnds(c, s)

HeartbeatNext(c) ==
    \/ HeartbeatWakes(c) \/ HeartbeatFindsNoClaim(c)
    \/ \E s \in Slots :
          \/ HeartbeatRenews(c, s) \/ HeartbeatRenewed(c, s) \/ HeartbeatRefused(c, s)
          \/ HeartbeatProtocolFailure(c, s) \/ HeartbeatErrs(c, s)

\* What the caller may do at any time.
CallerNext(c) ==
    \/ CancelRun(c) \/ CancelJoin(c)
    \/ \E s \in Slots : TryClaimGuard(c, s) \/ CancelClaim(c, s) \/ CancelRelease(c, s)

\* The server ends a statement nobody waits for.
ServerNext(s) ==
    /\ ~ stmt[s].awaited
    /\ \/ StatementRollsBack(s) \/ ClaimFinish(s, FALSE)
       \/ RenewFinish(s, FALSE) \/ ReleaseFinish(s, FALSE)
    /\ UNCHANGED guardVars

\* A client that manages its claim itself: it calls, and a call returns.
ManualCall(c) ==
    /\ \/ DropClaim(c)
       \/ \E s \in Slots : TryClaimLease(c, s) \/ TryRenewLease(c, s) \/ ReleaseLease(c, s)
    /\ UNCHANGED guardVars

ManualReturn(c) ==
    /\ \E s \in Slots :
          /\ Awaits(c, s)
          /\ \/ StatementErrs(s)
             \/ ClaimFinish(s, TRUE) \/ RenewFinish(s, TRUE) \/ ReleaseFinish(s, TRUE)
    /\ UNCHANGED guardVars

\* The row carries a token that is not the one client c holds.
Superseded(c) == HasClaim(c) /\ lease.fence \notin {0, claim[c].fence}

History == interrupted' = [c \in Guarded |-> interrupted[c] \/ Superseded(c)']

GuardNext ==
    /\ \/ \E c \in Guarded : OwnerNext(c) \/ HeartbeatNext(c) \/ CallerNext(c)
       \/ \E s \in Slots : ServerNext(s)
       \/ \E c \in Clients \ Guarded : ManualCall(c) \/ ManualReturn(c)
       \/ Tick /\ UNCHANGED guardVars
    /\ History

GuardSpec == GuardInit /\ [][GuardNext]_allVars
-----------------------------------------------------------------------------
\* A run that reports success was never overtaken: between the grant of its
\* claim and its release no other client's fencing token was in the row
\* (run_task_once_under_mutex_guard returns Ok only for Ok(true) of release).
SuccessMeansUninterrupted ==
    \A c \in Guarded : result[c] = "ok" => ~ interrupted[c]

\* The lock around current_claim is what keeps heartbeat and release apart: a
\* statement on the guard's claim is in flight only under it, or after the
\* heartbeat has exited (the cleanup spawned by Drop).
StatementsHoldTheLock ==
    \A c \in Guarded : \A s \in Slots :
        (Awaits(c, s) /\ stmt[s].kind # "claim")
            => lock[c] # "free" \/ (owner[c] = "cleaning" /\ heartbeat[c] = "exited")

(***************************************************************************)
(* Fairness.  The runtime polls spawned tasks and the owner's future, the  *)
(* pool and the tokio mutex serve waiters in order, and the server ends    *)
(* every statement.  The caller's task may run forever.                    *)
(***************************************************************************)
SendsAndLocks(c) ==
    \/ LiveClaimSnapshot(c) \/ NothingToRelease(c) \/ HeartbeatFindsNoClaim(c)
    \/ \E s \in Slots : ReleaseCurrentClaim(c, s) \/ CleanupRelease(c, s)

Fairness ==
    /\ \A c \in Guarded :
          /\ WF_allVars(owner[c] # "running" /\ OwnerNext(c) /\ History)
          /\ WF_allVars(HeartbeatNext(c) /\ History)
          /\ SF_allVars(SendsAndLocks(c) /\ History)
          /\ SF_allVars((\E s \in Slots : HeartbeatRenews(c, s)) /\ History)
    /\ \A s \in Slots : WF_allVars(ServerNext(s) /\ History)
    /\ \A c \in Clients \ Guarded : WF_allVars(ManualReturn(c) /\ History)

FairGuardSpec == GuardSpec /\ Fairness

\* Once the task is over, or the guard was dropped, the run comes to its end:
\* heartbeat and release never wait for each other, whatever fails.
RunReturns ==
    \A c \in Guarded : owner[c] \in {"releasing", "dropped"} ~> owner[c] = "done"

\* A heartbeat that was told to stop exits, although a stop notification sent
\* while it renews is lost.
HeartbeatStops ==
    \A c \in Guarded : stop_heartbeat[c] ~> heartbeat[c] = "exited"

\* A task that was overtaken is told so: the heartbeat finds out and raises
\* leadership_lost.
LossIsNoticed ==
    \A c \in Guarded :
        (owner[c] = "running" /\ Superseded(c))
            ~> (leadership_lost[c] \/ owner[c] # "running")

\* The guarded runs: their types, success only for a run nobody came between, and
\* statements of heartbeat and release only under the lock around the claim.
GuardIsSound == GuardTypeOK /\ SuccessMeansUninterrupted /\ StatementsHoldTheLock

\* A run and its heartbeat come to their ends once they are told to, whichever
\* notification was lost and whoever holds the lock around the claim.
GuardWindsDown == RunReturns /\ HeartbeatStops
=============================================================================
