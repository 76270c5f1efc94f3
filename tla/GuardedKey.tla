------------------------------ MODULE GuardedKey ------------------------------
(***************************************************************************)
(* One mutex key as its users in src/src/db/fleet see it (run-once tasks,  *)
(* cron leaders, cache computations): claim it, hold it through a renewing *)
(* guard, learn too late that it was lost, release it.  MutexGuard models  *)
(* the guard's tasks and locks and LeaseStore the statements; here a call  *)
(* is one step on the abstract lock of FencedLock, with every answer the   *)
(* call may give.  A statement that began before the grant lapsed counts   *)
(* as executed before.                                                     *)
(***************************************************************************)
EXTENDS FencedLock

CONSTANTS
    Users,      \* processes that use the key
    NoUser,     \* model value: nobody
    MaxGrants,   \* bound on the grants
    MaxGhosts   \* bound on the abandoned claims in flight

ASSUME GuardedKeyAssumption == NoUser \notin Users /\ MaxGrants \in Nat /\ MaxGhosts \in Nat

VARIABLES
    mine,       \* fencing token in the guard's current_claim; 0 for None
    proof,      \* the lease token of current_claim is the one in the row
    lost,       \* leadership_lost of the guard
    beating,    \* the heartbeat task of the guard is running
    orphans,    \* grants whose guard was dropped: a spawned cleanup may release them
    ghosts,     \* abandoned claims that the server may still grant
    rowlock     \* the user whose open transaction has locked the lease row

claimVars == <<mine, proof, lost, beating, orphans, ghosts>>

keyVars == <<lockVars, claimVars, rowlock>>

GuardedKeyTypeOK ==
    /\ fence \in 0 .. last /\ live \in BOOLEAN /\ last \in 0 .. MaxGrants
    /\ mine \in [Users -> 0 .. last]
    /\ proof \in [Users -> BOOLEAN]
    /\ lost \in [Users -> BOOLEAN]
    /\ beating \in [Users -> BOOLEAN]
    /\ orphans \subseteq 1 .. last
    /\ ghosts \in 0 .. MaxGhosts
    /\ rowlock \in Users \union {NoUser}

GuardedKeyInit ==
    /\ LockInit
    /\ mine = [c \in Users |-> 0]
    /\ proof = [c \in Users |-> FALSE]
    /\ lost = [c \in Users |-> FALSE]
    /\ beating = [c \in Users |-> FALSE]
    /\ orphans = {}
    /\ ghosts = 0
    /\ rowlock = NoUser

\* The WHERE clause of renewal and release, for the claim user c holds.
Owns(c) == live /\ mine[c] # 0 /\ mine[c] = fence /\ proof[c]

\* A claim waits for a transaction that has locked the row.
NewGrant ==
    /\ rowlock = NoUser
    /\ last < MaxGrants
    /\ last' = last + 1
    /\ live' = TRUE
    /\ Grant

-----------------------------------------------------------------------------
\* try_claim_guard returns a guard with its heartbeat (guarded), or a claim the
\* caller renews itself.
ClaimGranted(c, guarded) ==
    /\ NewGrant
    /\ mine' = [mine EXCEPT ![c] = last']
    /\ proof' = [proof EXCEPT ![c] = TRUE]
    /\ lost' = [lost EXCEPT ![c] = FALSE]
    /\ beating' = [beating EXCEPT ![c] = guarded]
    /\ UNCHANGED <<orphans, ghosts>>

ClaimRefused == live /\ UNCHANGED keyVars

\* The claim fails, or is granted and its caller does not learn of it.
ClaimErrs == (NewGrant \/ UNCHANGED lockVars) /\ UNCHANGED claimVars

\* The caller drops a claim that is still in flight; the server may yet grant it.
ClaimAbandoned ==
    /\ ghosts < MaxGhosts
    /\ ghosts' = ghosts + 1
    /\ UNCHANGED <<lockVars, mine, proof, lost, beating, orphans>>

GhostEnds ==
    /\ ghosts > 0
    /\ ghosts' = ghosts - 1
    /\ NewGrant \/ UNCHANGED lockVars
    /\ UNCHANGED <<mine, proof, lost, beating, orphans>>

\* A renewal that is acknowledged changes nothing seen here.  One that commits
\* unacknowledged leaves the guard with an old lease token.
HeartbeatUnacknowledged(c) ==
    /\ beating[c] /\ Owns(c)
    /\ proof' = [proof EXCEPT ![c] = FALSE]
    /\ UNCHANGED <<lockVars, mine, lost, beating, orphans, ghosts>>

\* The renewal is refused: the claim is cleared and leadership is lost.
RenewalRefused(c) ==
    /\ beating[c] /\ ~ Owns(c)
    /\ mine' = [mine EXCEPT ![c] = 0]
    /\ lost' = [lost EXCEPT ![c] = TRUE]
    /\ beating' = [beating EXCEPT ![c] = FALSE]
    /\ UNCHANGED <<lockVars, proof, orphans, ghosts>>

\* Renewals failed too often in a row: leadership is given up, the claim kept.
HeartbeatGivesUp(c) ==
    /\ beating[c]
    /\ lost' = [lost EXCEPT ![c] = TRUE]
    /\ beating' = [beating EXCEPT ![c] = FALSE]
    /\ UNCHANGED <<lockVars, mine, proof, orphans, ghosts>>

LeaseLapses == live /\ Lapse /\ UNCHANGED claimVars

\* stop_heartbeat_and_take_current_claim, of a heartbeat that joined.
StopHeartbeat(c) == beating' = [beating EXCEPT ![c] = FALSE]

\* The guard, with its flags, is gone.
Forget(c) ==
    /\ mine' = [mine EXCEPT ![c] = 0]
    /\ StopHeartbeat(c)
    /\ lost' = [lost EXCEPT ![c] = FALSE]
    /\ proof' = [proof EXCEPT ![c] = FALSE]
    /\ UNCHANGED ghosts

\* What MutexGuard::release returns: Ok(true), Ok(false), or an error.  After an
\* error the row may be gone, and what is left of it goes to the cleanup of Drop.
ReleaseAnswers == {"released", "not_live", "error"}

GuardRelease(c, guarded, answer) ==
    /\ CASE answer = "released" -> Owns(c) /\ Release /\ UNCHANGED orphans
         [] answer = "not_live" -> ~ Owns(c) /\ UNCHANGED <<lockVars, orphans>>
         [] answer = "error"    ->
              \/ Owns(c) /\ Release /\ UNCHANGED orphans
              \/ UNCHANGED <<lockVars, orphans>>
              \/ guarded /\ UNCHANGED lockVars /\ orphans' = orphans \union ({mine[c]} \ {0})
    /\ Forget(c)

\* Drop for MutexGuard: the future that held the guard is gone.
GuardDropped(c) ==
    /\ orphans' = orphans \union ({mine[c]} \ {0})
    /\ Forget(c)
    /\ UNCHANGED lockVars

CleanupReturns ==
    \E f \in orphans :
        /\ orphans' = orphans \ {f}
        /\ (fence = f /\ live /\ Release) \/ UNCHANGED lockVars
        /\ UNCHANGED <<mine, proof, lost, beating, ghosts>>

\* The process stops: nobody renews or releases.
ProcessStops(c) ==
    /\ Forget(c)
    /\ UNCHANGED <<lockVars, orphans>>

\* What goes on beside the users' own calls.
BackgroundNext ==
    \/ LeaseLapses \/ GhostEnds \/ CleanupReturns
    \/ \E c \in Users : HeartbeatUnacknowledged(c) \/ RenewalRefused(c) \/ HeartbeatGivesUp(c)
=============================================================================
