--------------------------------- MODULE Once ---------------------------------
(***************************************************************************)
(* Run-once tasks of src/src/db/fleet (once.rs, once_task.rs,              *)
(* once_completion.rs): a durable completion marker, written at most once  *)
(* between resets, and the mutex key that keeps the runs apart.            *)
(*                                                                         *)
(* A plain run records its completion in a transaction of its own, an      *)
(* atomic run in the transaction of the task, after renewing its claim     *)
(* there; a manual run renews, records and releases in one transaction.    *)
(***************************************************************************)
EXTENDS GuardedKey

CONSTANT MaxResets     \* bound on the calls of try_reset

ASSUME OnceAssumption == MaxResets \in Nat

VARIABLES
    mode,        \* which kind of run each user calls
    run,         \* where the run is, what it knows, what it returned
    done,        \* fencing token of the completion marker; 0 when there is none
    advanced,    \* the grant whose row carries the token of a renewal in a transaction
    resets,      \* calls of try_reset that deleted the marker
    effects,     \* history: grants of the atomic runs whose task committed since the last reset
    claimed,     \* history: the fencing token of each run's claim
    recorded,    \* history: the run's own marker was committed
    overtaken,   \* history: another grant or reset came before the run's release
    muddled      \* history: an answer about releasing the run's claim was an error

markVars == <<done, advanced, resets, effects, recorded>>

onceVars == <<mode, run, markVars, claimed, muddled>>

onceAll == <<keyVars, onceVars, overtaken>>

Places == {"idle", "claiming", "claimed", "live_check", "running", "completing", "tx_running",
           "tx_renew", "tx_mark", "limbo", "release", "release_renewed", "release_original",
           "manual", "refused", "ended", "stopped"}

Knowledge == {"nothing", "done_before", "task_failed", "lost", "marked", "not_marked", "unknown"}

Results == {"none", "ran", "already_done", "already_running", "not_started", "failed"}

OnceTypeOK ==
    /\ GuardedKeyTypeOK
    /\ mode \in [Users -> {"plain", "atomic", "manual"}]
    /\ run \in [Users -> [at : Places, knows : Knowledge, result : Results]]
    /\ done \in 0 .. last /\ advanced \in 0 .. last /\ resets \in 0 .. MaxResets

OnceInit ==
    /\ GuardedKeyInit
    /\ mode \in [Users -> {"plain", "atomic", "manual"}]
    /\ run = [c \in Users |-> [at |-> "idle", knows |-> "nothing", result |-> "none"]]
    /\ done = 0 /\ advanced = 0 /\ resets = 0
    /\ effects = {}
    /\ claimed = [c \in Users |-> 0]
    /\ recorded = [c \in Users |-> FALSE]
    /\ overtaken = [c \in Users |-> FALSE]
    /\ muddled = [c \in Users |-> FALSE]

At(c, place) == run[c].at = place

Goto(c, place) == run' = [run EXCEPT ![c].at = place]

GotoKnowing(c, place, what) == run' = [run EXCEPT ![c].at = place, ![c].knows = what]

Returns(c, value) == run' = [run EXCEPT ![c] = [at |-> "ended", knows |-> "nothing", result |-> value]]

Muddles(c) == muddled' = [muddled EXCEPT ![c] = TRUE]

\* Runs that hold a grant another one has replaced by now.
NotesGrants ==
    overtaken' = [c \in Users |->
        \/ overtaken[c]
        \/ claimed'[c] # 0 /\ claimed'[c] < last' /\ run[c].at \notin {"ended", "stopped"}]

-----------------------------------------------------------------------------
(***************************************************************************)
(* Starting: check_done, the claim, check_done again.                      *)
(***************************************************************************)
CheckDone(c) ==
    /\ At(c, "idle")
    /\ IF done # 0
       THEN Returns(c, IF mode[c] = "manual" THEN "not_started" ELSE "already_done")
       ELSE Goto(c, "claiming")
    /\ UNCHANGED <<keyVars, mode, markVars, claimed, muddled>>

ClaimForRun(c) ==
    /\ At(c, "claiming")
    /\ ClaimGranted(c, mode[c] # "manual")
    /\ Goto(c, "claimed")
    /\ claimed' = [claimed EXCEPT ![c] = last']
    /\ UNCHANGED <<rowlock, mode, markVars, muddled>>

\* A call that waits goes on trying; one that does not wait (a manual run never
\* does) asks once more whether the task is done.
ClaimIsHeld(c) ==
    /\ At(c, "claiming")
    /\ ClaimRefused
    /\ IF mode[c] = "manual" THEN Returns(c, "not_started") ELSE Goto(c, "refused")
    /\ UNCHANGED <<mode, markVars, claimed, muddled>>

CheckDoneAfterRefusal(c) ==
    /\ At(c, "refused")
    /\ Returns(c, IF done # 0 THEN "already_done" ELSE "already_running")
    /\ UNCHANGED <<keyVars, mode, markVars, claimed, muddled>>

ClaimFails(c) ==
    /\ At(c, "claiming")
    /\ ClaimErrs
    /\ Returns(c, "failed")
    /\ UNCHANGED <<rowlock, mode, markVars, claimed, muddled>>

\* check_done under the claim, for an atomic run in its transaction.
CheckDoneUnderClaim(c) ==
    /\ At(c, "claimed")
    /\ IF done # 0 THEN GotoKnowing(c, "release", "done_before")
       ELSE Goto(c, IF mode[c] = "manual" THEN "manual" ELSE "live_check")
    /\ UNCHANGED <<keyVars, mode, markVars, claimed, muddled>>

\* The read fails: the guard is dropped with the call, a manual claim forgotten.
CheckDoneFails(c) ==
    /\ At(c, "claimed")
    /\ Returns(c, "failed")
    /\ IF mode[c] = "manual" THEN ProcessStops(c) ELSE GuardDropped(c)
    /\ Muddles(c)
    /\ UNCHANGED <<rowlock, mode, markVars, claimed>>

\* live_claim_snapshot, and the task starts.
LiveCheck(c) ==
    /\ At(c, "live_check")
    /\ IF lost[c] \/ mine[c] = 0 THEN GotoKnowing(c, "release", "lost")
       ELSE Goto(c, IF mode[c] = "atomic" THEN "tx_running" ELSE "running")
    /\ UNCHANGED <<keyVars, mode, markVars, claimed, muddled>>

TaskFails(c) ==
    /\ At(c, "running") \/ At(c, "tx_running")
    /\ GotoKnowing(c, "release", "task_failed")
    /\ UNCHANGED <<keyVars, mode, markVars, claimed, muddled>>

-----------------------------------------------------------------------------
(***************************************************************************)
(* run_task_after_acquiring_guard: the task is over, leadership is tested  *)
(* locally, and the completion goes into a transaction of its own.         *)
(***************************************************************************)
TaskSucceeds(c) ==
    /\ At(c, "running")
    /\ IF lost[c] THEN GotoKnowing(c, "release", "lost") ELSE Goto(c, "completing")
    /\ UNCHANGED <<keyVars, mode, markVars, claimed, muddled>>

\* mark_completion_in_current_transaction keeps a marker that exists, and waits
\* for a transaction that has written one and is not decided.
Marks(c) ==
    /\ \A other \in Users \ {c} : ~ At(other, "limbo")
    /\ done' = IF done = 0 THEN claimed[c] ELSE done
    /\ recorded' = [recorded EXCEPT ![c] = @ \/ done = 0]

\* The marker is written, or found; or the call fails after or before the commit.
MarkCompletion(c) ==
    /\ At(c, "completing")
    /\ \/ Marks(c) /\ GotoKnowing(c, "release", IF done = 0 THEN "marked" ELSE "not_marked")
       \/ Marks(c) /\ GotoKnowing(c, "release", "unknown")
       \/ UNCHANGED <<done, recorded>> /\ GotoKnowing(c, "release", "unknown")
    /\ UNCHANGED <<keyVars, mode, advanced, resets, effects, claimed, muddled>>

\* Mutant: a lost release does not spoil the result.
RunResultOfCompletion(c, answer) ==
    CASE run[c].knows = "marked"      -> "ran"
      [] run[c].knows = "done_before" -> "already_done"
      [] OTHER                        -> "failed"

\* How the result of the run and the result of the release combine.
RunResult(c, answer) ==
    IF answer # "released" THEN "failed"
    ELSE CASE run[c].knows = "marked"      -> "ran"
           [] run[c].knows = "done_before" -> IF mode[c] = "manual" THEN "not_started" ELSE "already_done"
           [] OTHER                        -> "failed"

\* guard.release(); of a manual run, the release of its claim.
ReleaseAfterRun(c) == \E answer \in ReleaseAnswers :
    /\ At(c, "release")
    /\ GuardRelease(c, mode[c] # "manual", answer)
    /\ Returns(c, RunResult(c, answer))
    /\ IF answer = "error" THEN Muddles(c) ELSE UNCHANGED muddled
    /\ UNCHANGED <<rowlock, mode, markVars, claimed>>

-----------------------------------------------------------------------------
(***************************************************************************)
(* run_task_atomically_after_acquiring_guard.                              *)
(***************************************************************************)

\* The task is over: the heartbeat is stopped and its claim taken over.  If the
\* heartbeat task failed to join, the run is given up.
TakeCurrentClaim(c) ==
    /\ At(c, "tx_running")
    /\ StopHeartbeat(c)
    /\ \/ mine[c] = 0 /\ Returns(c, "failed")
       \/ mine[c] # 0 /\ Goto(c, "tx_renew")
       \/ mine[c] # 0 /\ GotoKnowing(c, "release_original", "lost")
    /\ UNCHANGED <<lockVars, rowlock, mine, proof, lost, orphans, ghosts, mode, markVars,
                   claimed, muddled>>

\* Mutant: the transaction goes on without the renewal.
RenewInTransactionSkipped(c) ==
    /\ At(c, "tx_renew")
    /\ Goto(c, "tx_mark")
    /\ UNCHANGED <<keyVars, mode, markVars, claimed, muddled>>

\* The renewal locks the row until the transaction ends.
RenewInTransaction(c) ==
    /\ At(c, "tx_renew")
    /\ IF Owns(c)
       THEN rowlock' = c /\ Goto(c, "tx_mark")
       ELSE GotoKnowing(c, "release_original", "lost") /\ UNCHANGED rowlock
    /\ UNCHANGED <<lockVars, claimVars, mode, markVars, claimed, muddled>>

\* A statement fails and `?` returns: the transaction rolls back, nobody releases.
TransactionFails(c) ==
    /\ At(c, "tx_renew") \/ At(c, "tx_mark")
    /\ rowlock' = IF rowlock = c THEN NoUser ELSE rowlock
    /\ ProcessStops(c)
    /\ Returns(c, "failed")
    /\ Muddles(c)
    /\ UNCHANGED <<mode, markVars, claimed>>

\* Mutant: the task is committed although the marker was there already.
AlreadyMarkedIgnored(c) ==
    /\ At(c, "tx_mark")
    /\ done # 0
    /\ rowlock' = NoUser /\ live' = TRUE /\ advanced' = claimed[c]
    /\ effects' = effects \union {claimed[c]}
    /\ GotoKnowing(c, "release_renewed", "not_marked")
    /\ UNCHANGED <<fence, last, claimVars, mode, done, resets, recorded, claimed, muddled>>

AlreadyMarked(c) ==
    /\ At(c, "tx_mark")
    /\ done # 0
    /\ rowlock' = NoUser
    /\ GotoKnowing(c, "release_renewed", "not_marked")
    /\ UNCHANGED <<lockVars, claimVars, mode, markVars, claimed, muddled>>

\* What the commit makes visible: the renewal, the marker and the task.
Committed(c) ==
    /\ rowlock' = NoUser
    /\ live' = TRUE
    /\ advanced' = claimed[c]
    /\ Marks(c)
    /\ effects' = effects \union {claimed[c]}
    /\ UNCHANGED <<fence, last, resets>>

RolledBack == rowlock' = NoUser /\ UNCHANGED <<lockVars, markVars>>

\* The commit returns: in order, with an error after the fact, or with an error
\* while the server has not decided yet.
CommitReturns(c) ==
    /\ At(c, "tx_mark")
    /\ done = 0
    /\ \/ Committed(c) /\ GotoKnowing(c, "release_renewed", "marked")
       \/ Committed(c) /\ GotoKnowing(c, "release_renewed", "unknown")
       \/ RolledBack /\ GotoKnowing(c, "release_renewed", "unknown")
       \/ GotoKnowing(c, "limbo", "unknown") /\ UNCHANGED <<lockVars, rowlock, markVars>>
    /\ UNCHANGED <<claimVars, mode, claimed, muddled>>

\* The release that follows waits for the row until the server has decided.
LimboEnds(c) ==
    /\ At(c, "limbo")
    /\ Committed(c) \/ RolledBack
    /\ Goto(c, "release_renewed")
    /\ UNCHANGED <<claimVars, mode, claimed, muddled>>

\* Releasing the renewed claim: it is the row's if the transaction committed.
OwnsRenewed(c) == Owns(c) /\ advanced = mine[c]

\* Mutant: after a failed transaction only the renewed claim is released.
ReleaseRenewedOnly(c) ==
    /\ At(c, "release_renewed")
    /\ IF OwnsRenewed(c)
       THEN Release /\ Returns(c, IF run[c].knows = "marked" THEN "ran" ELSE "failed")
       ELSE UNCHANGED lockVars /\ Returns(c, "failed")
    /\ Forget(c)
    /\ UNCHANGED <<rowlock, orphans, mode, markVars, claimed, muddled>>

\* release_after_completed_atomic_once_transaction, or the first half of
\* release_after_failed_atomic_once_transaction.
ReleaseRenewed(c) ==
    /\ At(c, "release_renewed")
    /\ \/ /\ OwnsRenewed(c) /\ Release
          /\ Returns(c, IF run[c].knows = "marked" THEN "ran" ELSE "failed")
          /\ Forget(c) /\ UNCHANGED orphans
       \/ /\ ~ OwnsRenewed(c) /\ run[c].knows = "marked"
          /\ Returns(c, "failed")
          /\ Forget(c) /\ UNCHANGED <<lockVars, orphans>>
       \/ /\ ~ OwnsRenewed(c) /\ run[c].knows # "marked"
          /\ Goto(c, "release_original")
          /\ UNCHANGED <<lockVars, claimVars>>
    /\ UNCHANGED <<rowlock, mode, markVars, claimed, muddled>>

ReleaseOriginal(c) ==
    /\ At(c, "release_original")
    /\ IF Owns(c) /\ ~ OwnsRenewed(c) THEN Release ELSE UNCHANGED lockVars
    /\ Forget(c)
    /\ Returns(c, "failed")
    /\ UNCHANGED <<rowlock, orphans, mode, markVars, claimed, muddled>>

\* A release statement fails: the claim is a plain value here, nothing cleans up.
ReleaseFails(c) ==
    /\ At(c, "release_renewed") \/ At(c, "release_original")
    /\ \/ Owns(c) /\ (At(c, "release_renewed") <=> OwnsRenewed(c)) /\ Release
       \/ UNCHANGED lockVars
    /\ IF At(c, "release_renewed") /\ run[c].knows # "marked"
       THEN Goto(c, "release_original") /\ UNCHANGED claimVars
       ELSE Returns(c, "failed") /\ Forget(c) /\ UNCHANGED orphans
    /\ Muddles(c)
    /\ UNCHANGED <<rowlock, mode, markVars, claimed>>

-----------------------------------------------------------------------------
(***************************************************************************)
(* The manual protocol and try_reset: one transaction each.                *)
(***************************************************************************)
MarkDoneAndRelease(c) ==
    /\ At(c, "manual")
    /\ IF Owns(c)
       THEN Release /\ Marks(c) /\ Returns(c, IF done = 0 THEN "ran" ELSE "already_done")
       ELSE UNCHANGED <<lockVars, done, recorded>> /\ Returns(c, "failed")
    /\ Forget(c)
    /\ UNCHANGED <<rowlock, orphans, mode, advanced, resets, effects, claimed, muddled>>

\* The commit is not acknowledged, or the transaction fails.
MarkDoneErrs(c) ==
    /\ At(c, "manual")
    /\ \/ Owns(c) /\ Release /\ Marks(c)
       \/ UNCHANGED <<lockVars, done, recorded>>
    /\ Forget(c)
    /\ Returns(c, "failed")
    /\ Muddles(c)
    /\ UNCHANGED <<rowlock, orphans, mode, advanced, resets, effects, claimed>>

ReleaseWithoutMarking(c) ==
    /\ At(c, "manual")
    /\ GotoKnowing(c, "release", "task_failed")
    /\ UNCHANGED <<keyVars, mode, markVars, claimed, muddled>>

\* Mutant: the fencing counter goes with the marker.
TryResetForgetsCounter ==
    /\ resets < MaxResets /\ last < MaxGrants
    /\ ~ live /\ rowlock = NoUser
    /\ fence' = 0 /\ live' = FALSE /\ last' = 0
    /\ done' = 0 /\ effects' = {}
    /\ resets' = resets + 1
    /\ UNCHANGED <<rowlock, claimVars, mode, run, advanced, claimed, recorded, muddled>>

\* try_reset claims, deletes and releases in one transaction; what is left of the
\* claim is a larger fencing counter.
TryReset ==
    /\ resets < MaxResets /\ last < MaxGrants
    /\ ~ live /\ rowlock = NoUser
    /\ fence' = 0 /\ live' = FALSE /\ last' = last + 1
    /\ done' = 0 /\ effects' = {}
    /\ resets' = resets + 1
    /\ UNCHANGED <<rowlock, claimVars, mode, run, advanced, claimed, recorded, muddled>>

HoldsGuard(c) ==
    /\ mode[c] # "manual"
    /\ run[c].at \in {"claimed", "live_check", "running", "completing", "tx_running", "release"}

\* The caller's process stops, or drops the future of the call.  An open
\* transaction rolls back, or commits if its commit was sent.
RunStops(c) ==
    /\ run[c].at \notin {"idle", "ended", "stopped"}
    /\ run' = [run EXCEPT ![c] = [at |-> "stopped", knows |-> "nothing", result |-> "none"]]
    /\ \/ At(c, "limbo") /\ Committed(c)
       \/ rowlock = c /\ RolledBack
       \/ rowlock # c /\ UNCHANGED <<lockVars, rowlock, markVars>>
    /\ mine' = [mine EXCEPT ![c] = 0]
    /\ lost' = [lost EXCEPT ![c] = FALSE]
    /\ proof' = [proof EXCEPT ![c] = FALSE]
    /\ StopHeartbeat(c)
    /\ \/ UNCHANGED orphans
       \/ HoldsGuard(c) /\ orphans' = orphans \union ({mine[c]} \ {0})
    /\ \/ UNCHANGED ghosts
       \/ At(c, "claiming") /\ ghosts < MaxGhosts /\ ghosts' = ghosts + 1
    /\ UNCHANGED <<mode, claimed, muddled>>

-----------------------------------------------------------------------------
RunNext(c) ==
    \/ CheckDone(c) \/ ClaimForRun(c) \/ ClaimIsHeld(c) \/ CheckDoneAfterRefusal(c)
    \/ ClaimFails(c) \/ CheckDoneUnderClaim(c) \/ CheckDoneFails(c) \/ LiveCheck(c)
    \/ TaskFails(c) \/ TaskSucceeds(c) \/ MarkCompletion(c) \/ ReleaseAfterRun(c)
    \/ TakeCurrentClaim(c) \/ RenewInTransaction(c) \/ TransactionFails(c)
    \/ AlreadyMarked(c) \/ CommitReturns(c) \/ LimboEnds(c) \/ ReleaseRenewed(c)
    \/ ReleaseOriginal(c) \/ ReleaseFails(c) \/ MarkDoneAndRelease(c) \/ MarkDoneErrs(c)
    \/ ReleaseWithoutMarking(c) \/ RunStops(c)

OnceNext ==
    /\ \/ \E c \in Users : RunNext(c)
       \/ TryReset
       \/ BackgroundNext /\ UNCHANGED <<rowlock, onceVars>>
    /\ NotesGrants

OnceSpec == OnceInit /\ [][OnceNext]_onceAll

-----------------------------------------------------------------------------
\* A call that returns Ran was alone with the task: no other run and no reset
\* was granted the key between its claim and its release, and its own marker was
\* committed.  (A plain run tests leadership_lost locally and records the
\* completion later, once_task.rs:142; it is the release that decides.)
RanWasExclusive ==
    \A c \in Users : run[c].result = "ran" => recorded[c] /\ ~ overtaken[c]

\* The task of an atomic run takes effect only together with its own completion
\* marker, so at most one takes effect between two resets, whatever commits were
\* not acknowledged and whatever a plain run recorded meanwhile.
AtomicTaskTakesEffectOnce == effects \subseteq {done} \ {0}

\* The marker of an atomic or manual run is written only while no later grant
\* and no reset has happened: a run that was overtaken cannot complete the task
\* of the run that overtook it.
CompletionIsFenced ==
    \A c \in Users :
        (recorded'[c] /\ ~ recorded[c] /\ mode[c] # "plain") => last = claimed[c]

\* A run that ended leaves no live lease behind, also when its commit was not
\* acknowledged and it cannot know which claim is in the row -- unless an error
\* hid the fate of one of its own renewals or releases.
EndedRunFreesKey ==
    \A c \in Users :
        (run[c].at # "ended" /\ run'[c].at = "ended" /\ claimed[c] # 0 /\ proof[c] /\ ~ muddled'[c])
            => ~ (live' /\ fence' = claimed[c])

\* A run-once task: its types, Ran only for a call that was alone with the task,
\* and an atomic task that takes effect once between two resets.
OnceIsSound == OnceTypeOK /\ RanWasExclusive /\ AtomicTaskTakesEffectOnce

\* What a step of a run may never do: complete the task of a run that overtook
\* it, or end and leave its key taken.
RunsAreFenced == [][CompletionIsFenced /\ EndedRunFreesKey]_onceAll
=============================================================================
