----------------------------- MODULE FleetProofs -----------------------------
(***************************************************************************)
(* Proofs about the users of a mutex key in src/src/db/fleet: cron leaders *)
(* (Cron), cache computations (Cache) and run-once tasks (Once), for any   *)
(* number of users, grants, invalidations and resets.  What they share is  *)
(* the key of GuardedKey; each has an invariant of its own on top.         *)
(***************************************************************************)
EXTENDS Cron, Cache, Once, TLAPS

-----------------------------------------------------------------------------
(***************************************************************************)
(* GuardedKey.                                                             *)
(***************************************************************************)
\* The row of a key holds the last grant or none.
RowIsLastGrant ==
    /\ fence # 0 => fence = last
    /\ live => fence # 0

KeyInv == GuardedKeyTypeOK /\ RowIsLastGrant

\* The guard of user d, as it is.
Untouched(d) ==
    /\ mine'[d] = mine[d] /\ proof'[d] = proof[d] /\ lost'[d] = lost[d] /\ beating'[d] = beating[d]

\* What a step on the key does to its row: nothing, the grant lapses; a new grant over a dead one; a live grant f
\* that is deleted.
Stays == last' = last /\ fence' = fence /\ (live' => live)

Grants == rowlock = NoUser /\ ~live /\ last' = last + 1 /\ fence' = last' /\ last' \in 0 .. MaxGrants

Frees(f) == last' = last /\ fence' = 0 /\ ~live' /\ f # 0 /\ fence = f

\* The calls of user c on its key.
KeyCall(c) ==
    \/ UNCHANGED <<lockVars, claimVars>>
    \/ ClaimGranted(c, TRUE) \/ ClaimGranted(c, FALSE) \/ ClaimErrs \/ ClaimAbandoned
    \/ \E guarded \in BOOLEAN, answer \in ReleaseAnswers : GuardRelease(c, guarded, answer)
    \/ GuardDropped(c) \/ ProcessStops(c)

\* At the start the key is free and unclaimed.
LEMMA KeyInitInv == GuardedKeyInit => KeyInv
  <1> SUFFICES ASSUME GuardedKeyInit PROVE KeyInv
    OBVIOUS
  <1>1. 0 \in 0 .. MaxGrants /\ 0 \in 0 .. MaxGhosts /\ 0 \in 0 .. 0
    BY GuardedKeyAssumption
  <1>2. /\ fence \in 0 .. last /\ live \in BOOLEAN /\ last \in 0 .. MaxGrants /\ RowIsLastGrant
        /\ ghosts \in 0 .. MaxGhosts /\ orphans \subseteq 1 .. last /\ rowlock \in Users \union {NoUser}
    BY <1>1 DEF GuardedKeyInit, LockInit, RowIsLastGrant
  <1>3. mine \in [Users -> 0 .. last]
    BY <1>1 DEF GuardedKeyInit, LockInit
  <1> QED
    BY <1>2, <1>3 DEF GuardedKeyInit, KeyInv, GuardedKeyTypeOK

\* The lock's row with its type.
LEMMA RowTypes ==
    ASSUME KeyInv
    PROVE  /\ last \in Nat /\ fence \in Nat /\ fence <= last /\ live \in BOOLEAN /\ MaxGrants \in Nat
           /\ last <= MaxGrants
           /\ \A c \in Users : mine[c] \in Nat /\ mine[c] <= last
           /\ \A f \in orphans : f \in Nat /\ f # 0 /\ f <= last
  BY GuardedKeyAssumption DEF KeyInv, GuardedKeyTypeOK

\* A new grant takes the next fencing token and the row.
LEMMA NewGrantGrants ==
    ASSUME KeyInv, NewGrant
    PROVE  Grants /\ live' = TRUE
  BY RowTypes DEF NewGrant, Grant, Grants, KeyInv, GuardedKeyTypeOK

\* The types of the lock after one of the three changes of its row.
LEMMA RowKept ==
    ASSUME KeyInv, live' \in BOOLEAN, Stays \/ Grants \/ (\E f \in Nat : Frees(f))
    PROVE  /\ fence' \in 0 .. last' /\ last' \in 0 .. MaxGrants /\ last' >= last
           /\ RowIsLastGrant'
           /\ \A x \in 0 .. last : x \in 0 .. last'
           /\ 0 .. last \subseteq 0 .. last' /\ 1 .. last \subseteq 1 .. last'
           /\ 0 \in 0 .. last'
  BY RowTypes DEF KeyInv, GuardedKeyTypeOK, RowIsLastGrant, Stays, Grants, Frees

\* What a call of user c does to the key: the others keep their guards, and of the row's grants only its own can go.
LEMMA KeyCallKeeps ==
    ASSUME KeyInv, NEW c \in Users, KeyCall(c), rowlock' \in Users \union {NoUser}
    PROVE  /\ KeyInv'
           /\ \A d \in Users : d # c => Untouched(d)
           /\ Stays \/ Grants \/ Frees(mine[c])
           /\ orphans' \subseteq orphans \union {mine[c]}
  <1>0. /\ GuardedKeyTypeOK /\ mine[c] \in Nat /\ mine[c] \in 0 .. last /\ mine[c] <= last /\ 0 \in 0 .. MaxGhosts
        /\ live \in BOOLEAN /\ last \in Nat /\ fence \in Nat
    BY RowTypes, GuardedKeyAssumption DEF KeyInv, GuardedKeyTypeOK
  <1>1. CASE UNCHANGED <<lockVars, claimVars>>
    BY <1>0, <1>1 DEF lockVars, claimVars, KeyInv, GuardedKeyTypeOK, RowIsLastGrant, Untouched, Stays
  <1>2. ASSUME NEW guarded \in BOOLEAN, ClaimGranted(c, guarded)
        PROVE  /\ KeyInv' /\ (\A d \in Users : d # c => Untouched(d)) /\ Grants /\ orphans' = orphans
    <2>1. Grants /\ live' = TRUE
      BY <1>2, NewGrantGrants DEF ClaimGranted
    <2>2. /\ fence' \in 0 .. last' /\ last' \in 0 .. MaxGrants /\ RowIsLastGrant'
          /\ 0 .. last \subseteq 0 .. last' /\ 1 .. last \subseteq 1 .. last' /\ last' \in 0 .. last'
      BY <1>0, <2>1, RowKept DEF Grants
    <2> QED
      BY <1>0, <1>2, <2>1, <2>2 DEF ClaimGranted, KeyInv, GuardedKeyTypeOK, Untouched
  <1>3. CASE ClaimErrs
    <2>1. Stays \/ (Grants /\ live' = TRUE)
      BY <1>3, NewGrantGrants DEF ClaimErrs, Stays, lockVars
    <2>2. live' \in BOOLEAN /\ UNCHANGED claimVars
      BY <1>0, <1>3, <2>1 DEF ClaimErrs, NewGrant, lockVars
    <2>3. /\ fence' \in 0 .. last' /\ last' \in 0 .. MaxGrants /\ RowIsLastGrant'
          /\ 0 .. last \subseteq 0 .. last' /\ 1 .. last \subseteq 1 .. last'
      BY <2>1, <2>2, RowKept
    <2> QED
      BY <1>0, <2>1, <2>2, <2>3 DEF claimVars, KeyInv, GuardedKeyTypeOK, Untouched
  <1>4. CASE ClaimAbandoned
    BY <1>0, <1>4, GuardedKeyAssumption
    DEF ClaimAbandoned, lockVars, KeyInv, GuardedKeyTypeOK, RowIsLastGrant, Untouched, Stays
  <1>5. ASSUME Forget(c), orphans' \subseteq orphans \union ({mine[c]} \ {0}), Stays \/ Frees(mine[c]), live' \in BOOLEAN
        PROVE  KeyInv' /\ (\A d \in Users : d # c => Untouched(d))
    <2>1. /\ fence' \in 0 .. last' /\ last' \in 0 .. MaxGrants /\ RowIsLastGrant' /\ last' = last
          /\ 0 \in 0 .. last'
      BY <1>0, <1>5, RowKept DEF Stays, Frees
    <2>2. orphans' \subseteq 1 .. last'
      BY <1>0, <1>5, <2>1 DEF GuardedKeyTypeOK
    <2> QED
      BY <1>0, <1>5, <2>1, <2>2 DEF Forget, StopHeartbeat, KeyInv, GuardedKeyTypeOK, Untouched
  <1>6. ASSUME NEW guarded \in BOOLEAN, NEW answer \in ReleaseAnswers, GuardRelease(c, guarded, answer)
        PROVE  /\ Forget(c) /\ orphans' \subseteq orphans \union ({mine[c]} \ {0})
               /\ Stays \/ Frees(mine[c])
               /\ live' \in BOOLEAN
    BY <1>0, <1>6 DEF GuardRelease, ReleaseAnswers, Owns, Release, lockVars, Stays, Frees
  <1>7. CASE GuardDropped(c) \/ ProcessStops(c)
    <2>1. /\ Forget(c) /\ orphans' \subseteq orphans \union ({mine[c]} \ {0})
          /\ Stays /\ live' \in BOOLEAN
      BY <1>0, <1>7 DEF GuardDropped, ProcessStops, lockVars, Stays
    <2> QED
      BY <1>5, <2>1
  <1> QED
    BY <1>1, <1>2, <1>3, <1>4, <1>5, <1>6, <1>7 DEF KeyCall

\* What goes on beside the calls: heartbeats that lose their grant, claims nobody waits for, cleanups, time.
LEMMA KeyBackgroundKeeps ==
    ASSUME KeyInv, BackgroundNext, rowlock' = rowlock
    PROVE  /\ KeyInv'
           /\ Stays \/ Grants \/ (\E f \in orphans : Frees(f))
           /\ orphans' \subseteq orphans
           /\ \A d \in Users :
                /\ mine'[d] = mine[d] \/ (mine'[d] = 0 /\ ~Owns(d))
                /\ proof'[d] => proof[d]
                /\ beating'[d] => beating[d]
                /\ ~beating[d] => Untouched(d)
  <1>0. /\ GuardedKeyTypeOK /\ 0 \in 0 .. last /\ live \in BOOLEAN /\ last \in Nat /\ fence \in Nat
        /\ rowlock' \in Users \union {NoUser}
    BY RowTypes, GuardedKeyAssumption DEF KeyInv, GuardedKeyTypeOK
  <1>1. CASE LeaseLapses
    BY <1>0, <1>1 DEF LeaseLapses, Lapse, claimVars, KeyInv, GuardedKeyTypeOK, RowIsLastGrant, Untouched, Stays
  <1>2. CASE GhostEnds
    <2>1. Stays \/ (Grants /\ live' = TRUE)
      BY <1>2, NewGrantGrants DEF GhostEnds, Stays, lockVars
    <2>2. live' \in BOOLEAN /\ UNCHANGED <<mine, proof, lost, beating, orphans>>
      BY <1>0, <1>2, <2>1 DEF GhostEnds, NewGrant, lockVars
    <2>3. ghosts' \in 0 .. MaxGhosts
      BY <1>0, <1>2, GuardedKeyAssumption DEF GhostEnds, GuardedKeyTypeOK
    <2>4. /\ fence' \in 0 .. last' /\ last' \in 0 .. MaxGrants /\ RowIsLastGrant'
          /\ 0 .. last \subseteq 0 .. last' /\ 1 .. last \subseteq 1 .. last'
      BY <2>1, <2>2, RowKept
    <2> QED
      BY <1>0, <2>1, <2>2, <2>3, <2>4 DEF KeyInv, GuardedKeyTypeOK, Untouched
  <1>3. CASE CleanupReturns
    <2>1. PICK f \in orphans : orphans' = orphans \ {f}
                              /\ ((fence = f /\ live /\ Release) \/ UNCHANGED lockVars)
                              /\ UNCHANGED <<mine, proof, lost, beating, ghosts>>
      BY <1>3 DEF CleanupReturns
    <2>2. f \in Nat /\ f # 0
      BY RowTypes
    <2>3. Stays \/ Frees(f)
      BY <2>1, <2>2 DEF Stays, Frees, Release, lockVars
    <2>4. live' \in BOOLEAN
      BY <1>0, <2>1 DEF Release, lockVars
    <2>5. /\ fence' \in 0 .. last' /\ last' \in 0 .. MaxGrants /\ RowIsLastGrant' /\ last' = last
      BY <2>2, <2>3, <2>4, RowKept DEF Stays, Frees
    <2> QED
      BY <1>0, <2>1, <2>3, <2>4, <2>5 DEF KeyInv, GuardedKeyTypeOK, Untouched
  <1>4. ASSUME NEW c \in Users, HeartbeatUnacknowledged(c) \/ RenewalRefused(c) \/ HeartbeatGivesUp(c)
        PROVE  /\ KeyInv' /\ Stays /\ orphans' = orphans
               /\ \A d \in Users :
                    /\ mine'[d] = mine[d] \/ (mine'[d] = 0 /\ ~Owns(d))
                    /\ proof'[d] => proof[d]
                    /\ beating'[d] => beating[d]
                    /\ ~beating[d] => Untouched(d)
    BY <1>0, <1>4 DEF HeartbeatUnacknowledged, RenewalRefused, HeartbeatGivesUp, lockVars, KeyInv, GuardedKeyTypeOK,
                      RowIsLastGrant, Untouched, Stays
  <1> QED
    BY <1>1, <1>2, <1>3, <1>4 DEF BackgroundNext

-----------------------------------------------------------------------------
(***************************************************************************)
(* Cron.                                                                   *)
(***************************************************************************)
CronWhys == {"none", "ran", "task_error", "lost", "stop"}

CronEnds == {"none", "ran", "held", "lost", "stopped", "task_failed", "failed"}

Leader == [at : CronPlaces, why : CronWhys, end : CronEnds, led : 0 .. MaxGrants]

\* A user that waits for leadership, or has ended, has left nothing of a tenure behind.
Waiting(c) == cron[c].at \in {"acquiring", "backoff", "regain", "ended"}

NoTenure(c) ==
    Waiting(c) => mine[c] = 0 /\ ~beating[c] /\ ~proof[c] /\ cron[c].led = 0

\* The claim in the guard is the one the tenure began with; when a guard that knows the lease token has lost its
\* claim, the row had already gone to others or lapsed.
TenureClaim(c) ==
    /\ mine[c] # 0 => mine[c] = cron[c].led
    /\ cron[c].led <= last
    /\ (cron[c].led # 0 /\ mine[c] = 0 /\ proof[c]) => ~(live /\ fence = cron[c].led)

CronInv ==
    /\ KeyInv
    /\ style \in Calls
    /\ cron \in [Users -> Leader]
    /\ stop \in [Users -> BOOLEAN]
    /\ \A c \in Users : NoTenure(c) /\ TenureClaim(c)

\* Nothing is held and nobody leads at the start.
LEMMA CronInitInv == CronInit => CronInv
  <1> SUFFICES ASSUME CronInit PROVE CronInv
    OBVIOUS
  <1>1. 0 \in 0 .. MaxGrants /\ KeyInv
    BY KeyInitInv, GuardedKeyAssumption DEF CronInit
  <1>2. cron \in [Users -> Leader] /\ style \in Calls /\ stop \in [Users -> BOOLEAN]
    BY <1>1 DEF CronInit, Leader, CronPlaces, CronWhys, CronEnds
  <1>3. ASSUME NEW c \in Users
        PROVE  NoTenure(c) /\ TenureClaim(c)
    BY <1>1, RowTypes DEF CronInit, GuardedKeyInit, LockInit, NoTenure, TenureClaim
  <1> QED
    BY <1>1, <1>2, <1>3 DEF CronInv

\* The tenure of a user that takes no part in a step.
LEMMA TenureKept ==
    ASSUME CronInv, KeyInv', NEW d \in Users, Untouched(d), cron'[d] = cron[d],
           Stays \/ Grants \/ (\E f \in Nat : Frees(f))
    PROVE  NoTenure(d)' /\ TenureClaim(d)'
  <1>1. NoTenure(d) /\ TenureClaim(d) /\ cron[d] \in Leader /\ last \in Nat /\ last' >= last /\ cron[d].led \in Nat
    BY RowTypes, RowKept DEF CronInv, Leader, KeyInv, GuardedKeyTypeOK
  <1> QED
    BY <1>1 DEF NoTenure, TenureClaim, Waiting, Untouched, Stays, Grants, Frees

\* A step of one user: what is left to show is its own tenure.
LEMMA CronStep ==
    ASSUME CronInv, NEW c \in Users, KeyCall(c), UNCHANGED <<rowlock, style>>, stop' \in [Users -> BOOLEAN],
           NEW r \in Leader, cron' = [cron EXCEPT ![c] = r], NoTenure(c)', TenureClaim(c)'
    PROVE  CronInv'
  <1>0. KeyInv /\ rowlock' \in Users \union {NoUser} /\ cron \in [Users -> Leader] /\ mine[c] \in Nat
    BY RowTypes DEF CronInv, KeyInv, GuardedKeyTypeOK
  <1>1. /\ KeyInv'
        /\ \A d \in Users : d # c => Untouched(d)
        /\ Stays \/ Grants \/ (\E f \in Nat : Frees(f))
    BY <1>0, KeyCallKeeps
  <1>2. \A d \in Users : d # c => NoTenure(d)' /\ TenureClaim(d)'
    BY <1>0, <1>1, TenureKept
  <1>3. cron' \in [Users -> Leader]
    BY <1>0
  <1> QED
    BY <1>1, <1>2, <1>3 DEF CronInv

\* A step of one user that leaves the key alone: it keeps its tenure, or had none.
LEMMA CronQuietStep ==
    ASSUME CronInv, NEW c \in Users, UNCHANGED <<keyVars, style>>, stop' \in [Users -> BOOLEAN],
           NEW r \in Leader, cron' = [cron EXCEPT ![c] = r],
           r.at \in {"acquiring", "backoff", "regain", "ended"} => Waiting(c),
           r.led = cron[c].led \/ (Waiting(c) /\ r.led = 0)
    PROVE  CronInv'
  <1>1. NoTenure(c) /\ TenureClaim(c) /\ cron'[c] = r /\ last \in Nat
    BY RowTypes DEF CronInv
  <1>2. /\ KeyCall(c) /\ UNCHANGED rowlock
        /\ mine' = mine /\ beating' = beating /\ proof' = proof /\ last' = last /\ live' = live /\ fence' = fence
    BY DEF keyVars, KeyCall, claimVars, lockVars
  <1>3. NoTenure(c)' /\ TenureClaim(c)'
    BY <1>1, <1>2 DEF NoTenure, TenureClaim, Waiting
  <1> QED
    BY <1>2, <1>3, CronStep

\* The fields of a loop's record.
LEMMA LeaderFields ==
    ASSUME CronInv, NEW c \in Users
    PROVE  /\ cron[c] \in Leader
           /\ \A place \in CronPlaces :
                 /\ [cron[c] EXCEPT !.at = place] \in Leader
                 /\ [cron[c] EXCEPT !.at = place].at = place
                 /\ [cron[c] EXCEPT !.at = place].led = cron[c].led
           /\ \A why \in CronWhys :
                 /\ [cron[c] EXCEPT !.at = "releasing", !.why = why] \in Leader
                 /\ [cron[c] EXCEPT !.at = "releasing", !.why = why].at = "releasing"
                 /\ [cron[c] EXCEPT !.at = "releasing", !.why = why].led = cron[c].led
           /\ \A end \in CronEnds :
                 [at |-> "ended", why |-> "none", end |-> end, led |-> 0] \in Leader
           /\ [at |-> "regain", why |-> "none", end |-> "none", led |-> 0] \in Leader
  <1>1. 0 \in 0 .. MaxGrants
    BY GuardedKeyAssumption
  <1> QED
    BY <1>1 DEF CronInv, Leader, CronPlaces, CronWhys, CronEnds

\* The ways a loop's record changes when its tenure goes on.
LEMMA MovesKeeps ==
    ASSUME CronInv, NEW c \in Users, UNCHANGED <<keyVars, style, stop>>, NEW place \in CronPlaces, Moves(c, place),
           place \in {"acquiring", "backoff", "regain", "ended"} => Waiting(c)
    PROVE  CronInv'
  <1> DEFINE r == [cron[c] EXCEPT !.at = place]
  <1>1. r \in Leader /\ r.at = place /\ r.led = cron[c].led
    BY LeaderFields
  <1>2. cron' = [cron EXCEPT ![c] = r] /\ stop' \in [Users -> BOOLEAN]
    BY DEF Moves, CronInv
  <1> HIDE DEF r
  <1> QED
    BY <1>1, <1>2, CronQuietStep

\* A loop that steps down (Leadership::release) still owns what it led with.
LEMMA ReleasesKeeps ==
    ASSUME CronInv, NEW c \in Users, UNCHANGED <<keyVars, style, stop>>, NEW why \in CronWhys, Releases(c, why)
    PROVE  CronInv'
  <1> DEFINE r == [cron[c] EXCEPT !.at = "releasing", !.why = why]
  <1>1. r \in Leader /\ r.at = "releasing" /\ r.led = cron[c].led
    BY LeaderFields
  <1>2. cron' = [cron EXCEPT ![c] = r] /\ stop' \in [Users -> BOOLEAN]
    BY DEF Releases, CronInv
  <1> HIDE DEF r
  <1> QED
    BY <1>1, <1>2, CronQuietStep

\* Whoever ends, or starts over, has forgotten its guard or never had one.
LEMMA EndKeeps ==
    ASSUME CronInv, NEW c \in Users, KeyCall(c), UNCHANGED <<rowlock, style, stop>>,
           (\E end \in CronEnds : LoopEnds(c, end)) \/ Regains(c),
           mine'[c] = 0, ~beating'[c], ~proof'[c]
    PROVE  CronInv'
  <1>1. PICK r \in Leader : /\ r.led = 0
                            /\ cron' = [cron EXCEPT ![c] = r]
    <2>1. CASE Regains(c)
      BY <2>1, LeaderFields DEF Regains
    <2>2. CASE \E end \in CronEnds : LoopEnds(c, end)
      BY <2>2, LeaderFields DEF LoopEnds
    <2> QED
      BY <2>1, <2>2
  <1>2. cron'[c].led = 0 /\ stop' \in [Users -> BOOLEAN] /\ rowlock' \in Users \union {NoUser} /\ KeyInv
    BY <1>1 DEF CronInv, KeyInv, GuardedKeyTypeOK
  <1>3. last' \in Nat
    BY <1>2, KeyCallKeeps, RowTypes DEF KeyInv, GuardedKeyTypeOK
  <1>4. NoTenure(c)' /\ TenureClaim(c)'
    BY <1>2, <1>3 DEF NoTenure, TenureClaim
  <1> QED
    BY <1>1, <1>2, <1>4, CronStep

\* What forgetting the guard leaves of it.
LEMMA ForgetForgets ==
    ASSUME KeyInv, NEW c \in Users, Forget(c)
    PROVE  mine'[c] = 0 /\ ~beating'[c] /\ ~proof'[c]
  BY DEF Forget, StopHeartbeat, KeyInv, GuardedKeyTypeOK

\* Every step of a cron loop: run_forever, acquisition, tick, loss, stop and crash.
LEMMA CronUserPreserves ==
    ASSUME CronInv, NEW c \in Users,
           LoopNext(c) \/ AcquireErrs(c) \/ StopNext(c) \/ StopLoop(c) \/ CronDies(c)
    PROVE  CronInv'
  <1>0. /\ KeyInv /\ NoTenure(c) /\ TenureClaim(c) /\ cron[c] \in Leader /\ stop \in [Users -> BOOLEAN]
        /\ last \in Nat /\ MaxGrants \in Nat
    BY RowTypes DEF CronInv
  <1> USE DEF In
  <1>1. CASE BecomeLeader(c)
    <2> DEFINE r == [cron[c] EXCEPT !.at = "checking", !.led = last']
    <2>1. KeyCall(c) /\ NewGrant
      BY <1>1 DEF BecomeLeader, KeyCall, ClaimGranted
    <2>2. Grants
      BY <1>0, <2>1, NewGrantGrants
    <2>3. r \in Leader /\ r.at = "checking" /\ r.led = last'
      BY <1>0, <2>2 DEF Leader, CronPlaces, Grants
    <2>4. cron' = [cron EXCEPT ![c] = r]
      BY <1>0, <1>1 DEF BecomeLeader, Leader
    <2>5. mine'[c] = last' /\ cron'[c] = r /\ UNCHANGED <<rowlock, style, stop>>
      BY <1>0, <1>1, <2>4 DEF BecomeLeader, ClaimGranted, KeyInv, GuardedKeyTypeOK, CronInv
    <2> HIDE DEF r
    <2>6. NoTenure(c)' /\ TenureClaim(c)'
      BY <1>0, <2>2, <2>3, <2>5 DEF NoTenure, TenureClaim, Waiting, Grants
    <2> QED
      BY <1>0, <2>1, <2>3, <2>4, <2>5, <2>6, CronStep
  <1>2. CASE LeadershipHeld(c)
    BY <1>0, <1>2, EndKeeps
    DEF LeadershipHeld, ClaimRefused, keyVars, claimVars, lockVars, KeyCall, CronEnds, NoTenure, Waiting
  <1>3. CASE AcquireErrs(c)
    <2>1. KeyCall(c) /\ UNCHANGED <<rowlock, style, stop, claimVars>> /\ cron[c].at = "acquiring" /\ Waiting(c)
      BY <1>3 DEF AcquireErrs, KeyCall, ClaimErrs, Waiting
    <2>2. /\ mine[c] = 0 /\ ~beating[c] /\ ~proof[c] /\ cron[c].led = 0
          /\ mine'[c] = 0 /\ ~beating'[c] /\ ~proof'[c]
      BY <1>0, <2>1 DEF NoTenure, claimVars
    <2>3. CASE LoopEnds(c, "failed")
      BY <2>1, <2>2, <2>3, EndKeeps DEF CronEnds
    <2>4. CASE Moves(c, "backoff")
      <3> DEFINE r == [cron[c] EXCEPT !.at = "backoff"]
      <3>1. r \in Leader /\ r.led = 0
        BY <2>2, LeaderFields DEF CronPlaces
      <3>2. cron' = [cron EXCEPT ![c] = r]
        BY <2>4 DEF Moves
      <3> HIDE DEF r
      <3>3. cron'[c].led = 0 /\ last' \in Nat
        BY <1>0, <2>1, <3>1, <3>2, KeyCallKeeps, RowTypes DEF CronInv, KeyInv, GuardedKeyTypeOK
      <3>4. NoTenure(c)' /\ TenureClaim(c)'
        BY <2>2, <3>3 DEF NoTenure, TenureClaim
      <3> QED
        BY <1>0, <2>1, <3>1, <3>2, <3>4, CronStep
    <2> QED
      BY <1>3, <2>3, <2>4 DEF AcquireErrs
  <1>4. CASE DelayEnds(c)
    BY <1>4, MovesKeeps DEF DelayEnds, CronPlaces, Waiting
  <1>5. CASE StopWhileWaiting(c)
    <2>1. /\ KeyCall(c) /\ UNCHANGED <<rowlock, style, stop, mine, proof, beating>> /\ Waiting(c)
          /\ LoopEnds(c, "stopped")
      BY <1>5 DEF StopWhileWaiting, KeyCall, ClaimAbandoned, claimVars, Waiting
    <2> QED
      BY <1>0, <2>1, EndKeeps DEF NoTenure, CronEnds
  <1>6. CASE StartTask(c) \/ TaskReturnsOk(c) \/ TaskReturnsErr(c)
    <2>1. /\ UNCHANGED <<keyVars, style, stop>>
          /\ \/ Moves(c, "task") \/ Moves(c, "sleeping")
             \/ Releases(c, "lost") \/ Releases(c, "ran") \/ Releases(c, "task_error")
      BY <1>6 DEF StartTask, TaskReturnsOk, TaskReturnsErr
    <2> QED
      BY <2>1, MovesKeeps, ReleasesKeeps DEF CronPlaces, CronWhys
  <1>7. CASE IntervalEnds(c) \/ LossBetweenTicks(c) \/ StopBetweenTicks(c)
    <2>1. /\ UNCHANGED <<keyVars, style, stop>>
          /\ Moves(c, "checking") \/ Releases(c, "lost") \/ Releases(c, "stop")
      BY <1>7 DEF IntervalEnds, LossBetweenTicks, StopBetweenTicks
    <2> QED
      BY <2>1, MovesKeeps, ReleasesKeeps DEF CronPlaces, CronWhys
  <1>8. CASE ReleaseLeadership(c)
    <2>1. PICK answer \in ReleaseAnswers : GuardRelease(c, TRUE, answer) /\ AfterRelease(c, answer)
      BY <1>8 DEF ReleaseLeadership
    <2>2. KeyCall(c) /\ Forget(c) /\ UNCHANGED <<rowlock, style, stop>>
      BY <1>8, <2>1 DEF KeyCall, GuardRelease, ReleaseLeadership
    <2>3. (\E end \in CronEnds : LoopEnds(c, end)) \/ Regains(c)
      BY <2>1 DEF AfterRelease, CronEnds
    <2> QED
      BY <1>0, <2>2, <2>3, ForgetForgets, EndKeeps
  <1>9. CASE StopLoop(c)
    <2>1. cron' = [cron EXCEPT ![c] = cron[c]] /\ stop' \in [Users -> BOOLEAN] /\ UNCHANGED <<keyVars, style>>
      BY <1>0, <1>9 DEF StopLoop, CronInv
    <2> QED
      BY <1>0, <2>1, CronQuietStep DEF Waiting
  <1>10. CASE CronDies(c)
    <2>1. KeyCall(c) /\ UNCHANGED <<rowlock, style, stop>> /\ (\E end \in CronEnds : LoopEnds(c, end))
      BY <1>10 DEF CronDies, KeyCall, CronEnds
    <2>2. CASE ProcessStops(c) \/ GuardDropped(c)
      BY <1>0, <2>1, <2>2, ForgetForgets, EndKeeps DEF ProcessStops, GuardDropped
    <2>3. CASE In(c, "acquiring") /\ ClaimAbandoned
      BY <1>0, <2>1, <2>3, EndKeeps DEF ClaimAbandoned, NoTenure, Waiting
    <2> QED
      BY <1>10, <2>2, <2>3 DEF CronDies
  <1> QED
    BY <1>1, <1>2, <1>3, <1>4, <1>5, <1>6, <1>7, <1>8, <1>9, <1>10 DEF LoopNext, StopNext

\* What goes on without a loop: lapses, orphans and late answers of the mutex.
LEMMA CronBackgroundPreserves ==
    ASSUME CronInv, CronBackground
    PROVE  CronInv'
  <1>0. KeyInv /\ rowlock' = rowlock /\ UNCHANGED cronVars /\ last \in Nat /\ BackgroundNext
    BY RowTypes DEF CronInv, CronBackground
  <1>1. /\ KeyInv'
        /\ Stays \/ Grants \/ (\E f \in Nat : Frees(f))
        /\ \A d \in Users :
             /\ mine'[d] = mine[d] \/ (mine'[d] = 0 /\ ~Owns(d))
             /\ proof'[d] => proof[d]
             /\ ~beating[d] => Untouched(d)
    BY <1>0, KeyBackgroundKeeps, RowTypes
  <1>2. ASSUME NEW d \in Users
        PROVE  NoTenure(d)' /\ TenureClaim(d)'
    <2>1. /\ NoTenure(d) /\ TenureClaim(d) /\ cron'[d] = cron[d] /\ last \in Nat /\ cron[d].led \in Nat
          /\ live' \in BOOLEAN /\ last' >= last
      BY <1>0, <1>1, RowKept DEF CronInv, Leader, cronVars, KeyInv, GuardedKeyTypeOK
    <2>2. NoTenure(d)'
      BY <1>1, <2>1 DEF NoTenure, Waiting, Untouched
    <2>3. (cron[d].led # 0 /\ mine'[d] = 0 /\ proof[d]) => ~(live /\ fence = cron[d].led)
      BY <1>1, <2>1 DEF TenureClaim, Owns
    <2>4. TenureClaim(d)'
      BY <1>1, <2>1, <2>3 DEF TenureClaim, Stays, Grants, Frees
    <2> QED
      BY <2>2, <2>4
  <1> QED
    BY <1>0, <1>1, <1>2 DEF CronInv, cronVars

\* The invariant of the cron loops is inductive.
LEMMA CronNextPreserves == CronInv /\ [CronNext]_cronAll => CronInv'
  <1> SUFFICES ASSUME CronInv, [CronNext]_cronAll PROVE CronInv'
    OBVIOUS
  <1>1. CASE UNCHANGED cronAll
    BY <1>1
    DEF cronAll, cronVars, keyVars, lockVars, claimVars, CronInv, KeyInv, GuardedKeyTypeOK, RowIsLastGrant,
        NoTenure, TenureClaim, Waiting
  <1> QED
    BY <1>1, CronUserPreserves, CronBackgroundPreserves DEF CronNext

\* Cron loops and their key keep their invariant.
THEOREM CronInvariance == CronSpec => []CronInv
  BY CronInitInv, CronNextPreserves, PTL DEF CronSpec

\* A loop that waits for leadership, or has ended, holds no guard and runs no heartbeat (cron.rs releases on every
\* way out of a tenure).
THEOREM CronTypeCorrect == CronSpec => []CronTypeOK
  <1>1. CronInv => CronTypeOK
    BY DEF CronInv, KeyInv, CronTypeOK, NoTenure, Waiting, Leader, CronWhys, CronEnds
  <1> QED
    BY <1>1, CronInvariance, PTL

\* Only the release of a tenure reports its value, or gives its lease back without an error.
LEMMA TenureOnlyEndsAtRelease ==
    ASSUME CronInv, NEW c \in Users, NEW d \in Users,
           LoopNext(c) \/ AcquireErrs(c) \/ StopNext(c) \/ StopLoop(c) \/ CronDies(c)
    PROVE  \/ cron'[d] = cron[d]
           \/ /\ cron'[d].end = cron[d].end \/ cron'[d].end # "ran"
              /\ cron[d].led = 0 \/ cron'[d].led # 0 \/ cron'[d].end = "failed"
           \/ c = d /\ ReleaseLeadership(c)
  <1>0. /\ cron \in [Users -> Leader] /\ NoTenure(c) /\ last \in Nat /\ KeyInv
    BY RowTypes DEF CronInv
  <1> USE DEF In, Moves, Releases, LoopEnds, Leader
  <1>1. CASE BecomeLeader(c)
    <2>1. last' # 0
      BY <1>0, <1>1, NewGrantGrants DEF BecomeLeader, ClaimGranted, Grants
    <2> QED
      BY <1>0, <1>1, <2>1 DEF BecomeLeader
  <1>2. CASE LeadershipHeld(c) \/ AcquireErrs(c) \/ DelayEnds(c)
    BY <1>0, <1>2 DEF LeadershipHeld, AcquireErrs, DelayEnds, NoTenure, Waiting
  <1>3. CASE StopWhileWaiting(c)
    BY <1>0, <1>3 DEF StopWhileWaiting, NoTenure, Waiting
  <1>4. CASE StartTask(c) \/ TaskReturnsOk(c) \/ TaskReturnsErr(c)
    BY <1>0, <1>4 DEF StartTask, TaskReturnsOk, TaskReturnsErr
  <1>5. CASE IntervalEnds(c) \/ LossBetweenTicks(c) \/ StopBetweenTicks(c)
    BY <1>0, <1>5 DEF IntervalEnds, LossBetweenTicks, StopBetweenTicks
  <1>6. CASE StopLoop(c) \/ CronDies(c)
    BY <1>0, <1>6 DEF StopLoop, CronDies
  <1>7. CASE ReleaseLeadership(c) /\ c # d
    BY <1>0, <1>7 DEF ReleaseLeadership, AfterRelease, Regains
  <1> QED
    BY <1>1, <1>2, <1>3, <1>4, <1>5, <1>6, <1>7 DEF LoopNext, StopNext

\* A run that reports its value led throughout, and a tenure that ends in order gives its lease back: no leader is
\* kept waiting for a lease whose holder is gone (cron.rs, release_cron_guard_after_leadership_lost).
THEOREM CronTenures == CronSpec => TenuresEndInOrder
  <1>1. ASSUME CronInv, NEW c \in Users, ReleaseLeadership(c)
        PROVE  /\ cron'[c].end = "ran" => last' = cron[c].led
               /\ (cron[c].led # 0 /\ proof[c] /\ cron'[c].end # "failed") => ~(live' /\ fence' = cron[c].led)
    <2>0. /\ KeyInv /\ TenureClaim(c) /\ cron \in [Users -> Leader] /\ last \in Nat
      BY <1>1, RowTypes DEF CronInv
    <2>1. PICK answer \in ReleaseAnswers : GuardRelease(c, TRUE, answer) /\ AfterRelease(c, answer)
      BY <1>1 DEF ReleaseLeadership
    <2>2. CASE answer = "released"
      BY <2>0, <2>1, <2>2 DEF GuardRelease, Owns, Release, TenureClaim, KeyInv, RowIsLastGrant
    <2>3. CASE answer = "not_live"
      <3>1. cron'[c].end # "ran"
        BY <2>0, <2>1, <2>3 DEF AfterRelease, LoopEnds, Regains, Leader
      <3>2. ~Owns(c) /\ UNCHANGED lockVars
        BY <2>1, <2>3 DEF GuardRelease
      <3> QED
        BY <2>0, <3>1, <3>2 DEF TenureClaim, Owns, lockVars
    <2>4. CASE answer = "error"
      BY <2>0, <2>1, <2>4 DEF AfterRelease, LoopEnds, Regains, Leader
    <2> QED
      BY <2>1, <2>2, <2>3, <2>4 DEF ReleaseAnswers
  <1>2. CronInv /\ [CronNext]_cronAll => [CronRanWhileLeading /\ LeadershipIsHandedOn]_cronAll
    <2> SUFFICES ASSUME CronInv, CronNext, NEW d \in Users
                 PROVE  /\ (cron[d].end # "ran" /\ cron'[d].end = "ran") => last' = cron[d].led
                        /\ (/\ cron[d].led # 0 /\ cron'[d].led = 0 /\ proof[d]
                            /\ cron'[d].end # "failed") => ~(live' /\ fence' = cron[d].led)
      BY DEF CronRanWhileLeading, LeadershipIsHandedOn
    <2>1. CASE \E c \in Users : LoopNext(c) \/ AcquireErrs(c) \/ StopNext(c) \/ StopLoop(c) \/ CronDies(c)
      <3>1. PICK c \in Users : LoopNext(c) \/ AcquireErrs(c) \/ StopNext(c) \/ StopLoop(c) \/ CronDies(c)
        BY <2>1
      <3>2. \/ cron'[d] = cron[d]
            \/ /\ cron'[d].end = cron[d].end \/ cron'[d].end # "ran"
               /\ cron[d].led = 0 \/ cron'[d].led # 0 \/ cron'[d].end = "failed"
            \/ ReleaseLeadership(d)
        BY <3>1, TenureOnlyEndsAtRelease
      <3> QED
        BY <1>1, <3>2
    <2>2. CASE CronBackground
      BY <2>2 DEF CronBackground, cronVars
    <2> QED
      BY <2>1, <2>2 DEF CronNext
  <1> QED
    BY <1>2, CronInvariance, PTL DEF CronSpec, TenuresEndInOrder

-----------------------------------------------------------------------------
(***************************************************************************)
(* Cache.                                                                  *)
(***************************************************************************)
Counts == 0 .. MaxInvalidations

CallRecord ==
    [kind : {"none", "fetch", "set", "invalidate"}, at : CachePlaces, read : Entries, epoch : Counts,
     born : Counts, ok : BOOLEAN, sinceAll : Counts, sinceKey : Counts]

StoreTyped ==
    /\ entry \in Entries /\ late \in Entries
    /\ ticks \in Counts /\ epoch \in 0 .. ticks /\ lastAll \in 0 .. ticks /\ lastKey \in 0 .. ticks

\* No two users hold the same fencing token.
TokensDiffer ==
    \A c, d \in Users : (mine[c] # 0 /\ mine[c] = mine[d]) => c = d

\* A computed value that the epoch has not passed was computed after the last invalidate_all.
Fresh(e) ==
    e.computed => e.epoch <= epoch /\ (e.epoch >= epoch => e.born >= lastAll)

\* What is in the value item, or in flight to it.
StoredValues ==
    /\ Fresh(entry) /\ Fresh(late) /\ ~late.owned
    /\ (entry.computed /\ entry.owned) => entry.born >= lastKey

\* A call that waits for the mutex or has ended holds no guard.
GuardInCall(c, r) ==
    /\ r.at \in {"idle", "peek", "claiming"} => mine[c] = 0 /\ ~beating[c]
    /\ r.at \in {"peek", "claiming"} => r.kind # "none"
    /\ r.at \in {"locked", "locked_epoch", "computing", "storing"} => r.kind = "fetch"
    /\ r.at \in {"set_epoch", "setting", "deleting"} => r.kind # "fetch"

\* What a call has read, and serves.
ReadValue(r) ==
    /\ r.sinceAll <= lastAll /\ r.sinceKey <= lastKey
    /\ Fresh(r.read)
    /\ (r.read.computed /\ r.read.owned) => r.read.born >= r.sinceKey
    /\ (r.kind = "fetch" /\ r.at = "releasing" /\ r.ok /\ r.read.computed) => r.read.born >= r.sinceAll

\* A computation under way: the epoch it will be stored with; and while nobody else was granted the mutex, no
\* invalidation came between.
Computation(c, r) ==
    /\ r.born <= ticks
    /\ r.at \in {"computing", "storing"} =>
          /\ r.born >= r.sinceAll
          /\ r.epoch <= epoch /\ (r.epoch >= epoch => r.born >= lastAll)
          /\ mine[c] = last => r.born >= lastKey

\* An invalidation that has deleted the entry, as long as nobody else was granted the mutex.
Deletion(c, r) ==
    (/\ r.at = "releasing" /\ r.kind = "invalidate" /\ r.ok
     /\ mine[c] = last /\ entry.computed /\ entry.owned) => entry.born >= r.born

\* Call r of user c.
CallSound(c, r) == GuardInCall(c, r) /\ ReadValue(r) /\ Computation(c, r) /\ Deletion(c, r)

CallInv(c) == CallSound(c, call[c])

CacheInv ==
    /\ KeyInv /\ StoreTyped /\ call \in [Users -> CallRecord]
    /\ TokensDiffer /\ StoredValues
    /\ \A c \in Users : CallInv(c)

\* The fields of entries.
LEMMA EntryFields ==
    /\ NoEntry \in Entries
    /\ ~NoEntry.has /\ ~NoEntry.computed /\ ~NoEntry.owned
    /\ \A e \in Entries : /\ e.epoch \in Counts /\ e.born \in Counts /\ e.epoch \in Nat /\ e.born \in Nat
                          /\ e.has \in BOOLEAN /\ e.computed \in BOOLEAN /\ e.owned \in BOOLEAN
    /\ \A ep, b \in Counts, computed, owned \in BOOLEAN :
          [has |-> TRUE, epoch |-> ep, born |-> b, computed |-> computed, owned |-> owned] \in Entries
  <1>1. 0 \in Counts /\ \A n \in Counts : n \in Nat
    BY CacheAssumption DEF Counts
  <1>2. /\ NoEntry \in Entries
        /\ ~NoEntry.has /\ ~NoEntry.computed /\ ~NoEntry.owned /\ NoEntry.epoch = 0 /\ NoEntry.born = 0
    BY DEF Entries, NoEntry
  <1>3. ASSUME NEW e \in Entries
        PROVE  /\ e.epoch \in Counts /\ e.born \in Counts
               /\ e.has \in BOOLEAN /\ e.computed \in BOOLEAN /\ e.owned \in BOOLEAN
    <2>1. CASE e = NoEntry
      BY <1>1, <1>2, <2>1 DEF NoEntry
    <2>2. CASE e # NoEntry
      <3>1. e \in [has : {TRUE}, epoch : Counts, born : Counts, computed : BOOLEAN, owned : BOOLEAN]
        BY <2>2 DEF Entries, Counts
      <3> QED
        BY <3>1
    <2> QED
      BY <2>1, <2>2
  <1>4. ASSUME NEW ep \in Counts, NEW b \in Counts, NEW computed \in BOOLEAN, NEW owned \in BOOLEAN
        PROVE  [has |-> TRUE, epoch |-> ep, born |-> b, computed |-> computed, owned |-> owned] \in Entries
    BY DEF Entries, Counts
  <1> QED
    BY <1>1, <1>2, <1>3, <1>4

\* The fields of calls and counters.
LEMMA CacheTypes ==
    ASSUME CacheInv
    PROVE  /\ ticks \in Nat /\ epoch \in Nat /\ lastAll \in Nat /\ lastKey \in Nat /\ last \in Nat /\ MaxInvalidations \in Nat
           /\ ticks <= MaxInvalidations /\ epoch <= ticks /\ lastAll <= ticks /\ lastKey <= ticks
           /\ \A c \in Users :
                /\ call[c] \in CallRecord /\ call[c].read \in Entries /\ call[c].at \in CachePlaces
                /\ call[c].epoch \in Nat /\ call[c].born \in Nat /\ call[c].sinceAll \in Nat /\ call[c].sinceKey \in Nat
                /\ call[c].ok \in BOOLEAN
                /\ mine[c] \in Nat /\ mine[c] <= last
                /\ call[c].read.epoch \in Nat /\ call[c].read.born \in Nat
                /\ call[c].epoch \in Counts /\ call[c].born \in Counts /\ call[c].read.computed \in BOOLEAN
  <1>1. last \in Nat /\ \A c \in Users : mine[c] \in Nat /\ mine[c] <= last
    BY RowTypes DEF CacheInv
  <1>2. \A c \in Users : call[c].read \in Entries
    BY DEF CacheInv, CallRecord
  <1>3. \A c \in Users : /\ call[c].read.epoch \in Nat /\ call[c].read.born \in Nat /\ call[c].read.computed \in BOOLEAN
    BY <1>2, EntryFields
  <1> QED
    BY <1>1, <1>2, <1>3, CacheAssumption DEF CacheInv, StoreTyped, CallRecord, Counts

\* An empty store, epoch one and idle callers.
LEMMA CacheInitInv == CacheInit => CacheInv
  <1> SUFFICES ASSUME CacheInit PROVE CacheInv
    OBVIOUS
  <1>1. 0 \in Counts /\ 0 \in 0 .. 0 /\ KeyInv
    BY KeyInitInv, CacheAssumption DEF Counts, CacheInit
  <1>2. StoreTyped
    BY <1>1, EntryFields DEF CacheInit, StoreTyped
  <1>3. NoCall \in CallRecord
    BY <1>1, EntryFields DEF NoCall, CallRecord, CachePlaces
  <1>4. call \in [Users -> CallRecord]
    BY <1>3 DEF CacheInit
  <1>5. TokensDiffer /\ StoredValues
    BY EntryFields DEF CacheInit, GuardedKeyInit, TokensDiffer, StoredValues, Fresh
  <1>6. ASSUME NEW c \in Users
        PROVE  CallInv(c)
    <2>1. call[c] = NoCall /\ mine[c] = 0 /\ ~beating[c]
      BY DEF CacheInit, GuardedKeyInit
    <2> QED
      BY <2>1, EntryFields DEF CacheInit, NoCall, CallInv, CallSound, GuardInCall, ReadValue, Computation, Deletion, Fresh
  <1> QED
    BY <1>1, <1>2, <1>4, <1>5, <1>6 DEF CacheInv

\* How a step changes the value item and what is recorded of invalidations, as far as the other calls are concerned:
\* only the owner of the mutex stores as its owner, and only its release makes an invalidation count.
StoreMove(c) ==
    /\ \/ lastAll' = lastAll /\ epoch' = epoch
       \/ epoch' = epoch + 1 /\ lastAll' >= lastAll
    /\ entry' = entry \/ ~(entry'.computed /\ entry'.owned) \/ Owns(c)
    /\ lastKey' = lastKey \/ (lastKey' >= lastKey /\ Owns(c))
    /\ ticks' >= ticks

\* A call that takes no part in a step.
LEMMA CallKept ==
    ASSUME CacheInv, KeyInv', StoreTyped', NEW c \in Users, NEW d \in Users, d # c,
           Untouched(d), call'[d] = call[d], last' >= last, StoreMove(c)
    PROVE  CallInv(d)'
  <1>0. /\ CallInv(d) /\ mine[d] \in Nat /\ mine[d] <= last /\ last \in Nat /\ mine'[d] = mine[d] /\ beating'[d] = beating[d]
        /\ last' \in Nat
        /\ lastKey \in Nat /\ lastKey' \in Nat /\ lastAll \in Nat /\ lastAll' \in Nat /\ epoch \in Nat /\ epoch' \in Nat
        /\ lastAll' >= lastAll /\ lastKey' >= lastKey /\ epoch' >= epoch /\ ticks \in Nat /\ ticks' \in Nat /\ ticks' >= ticks
    <2>1. ticks' \in Nat /\ lastKey' \in Nat /\ lastAll' \in Nat /\ epoch' \in Nat
      BY CacheAssumption DEF StoreTyped, Counts
    <2>2. last' \in Nat
      BY GuardedKeyAssumption DEF KeyInv, GuardedKeyTypeOK
    <2> QED
      BY <2>1, <2>2, CacheTypes DEF CacheInv, Untouched, StoreMove
  <1>1. Owns(c) => mine[d] # last
    <2>1. Owns(c) => mine[c] = last /\ mine[c] # 0
      BY DEF Owns, CacheInv, KeyInv, RowIsLastGrant
    <2> QED
      BY <2>1 DEF CacheInv, TokensDiffer
  <1>2. mine'[d] = last' => mine[d] = last /\ last' = last
    BY <1>0
  <1>3. /\ call[d].born \in Nat /\ call[d].epoch \in Nat /\ call[d].sinceAll \in Nat /\ call[d].sinceKey \in Nat
        /\ call[d].read \in Entries /\ call[d].read.epoch \in Nat /\ call[d].read.born \in Nat
    BY CacheTypes, EntryFields
  <1>4. PICK r \in CallRecord : call[d] = r /\ call'[d] = r /\ CallSound(d, r)
    BY DEF CacheInv, CallInv
  <1>5. GuardInCall(d, r)'
    BY <1>0, <1>4 DEF CallSound, GuardInCall
  <1>6. ReadValue(r)'
    BY <1>0, <1>3, <1>4 DEF CallSound, ReadValue, Fresh, StoreMove
  <1>7. Computation(d, r)'
    BY <1>0, <1>1, <1>2, <1>3, <1>4, CacheTypes DEF CallSound, Computation, StoreMove
  <1>8. Deletion(d, r)'
    BY <1>0, <1>1, <1>2, <1>3, <1>4 DEF CallSound, Deletion, StoreMove
  <1> QED
    BY <1>4, <1>5, <1>6, <1>7, <1>8 DEF CallInv, CallSound

\* A step of one user: what is left to show is the store and its own call.
LEMMA CacheStep ==
    ASSUME CacheInv, NEW c \in Users, KeyCall(c), UNCHANGED rowlock,
           NEW r \in CallRecord, call' = [call EXCEPT ![c] = r],
           StoreMove(c), StoreTyped', StoredValues',
           mine'[c] = mine[c] \/ mine'[c] = 0 \/ (Grants /\ mine'[c] = last'),
           CallSound(c, r)'
    PROVE  CacheInv'
  <1>0. /\ KeyInv /\ rowlock' \in Users \union {NoUser} /\ call \in [Users -> CallRecord] /\ last \in Nat
        /\ \A d \in Users : mine[d] \in Nat /\ mine[d] <= last
    BY CacheTypes DEF CacheInv, KeyInv, GuardedKeyTypeOK
  <1>1. /\ KeyInv' /\ (\A d \in Users : d # c => Untouched(d))
        /\ Stays \/ Grants \/ Frees(mine[c])
    BY <1>0, KeyCallKeeps
  <1>2. last' >= last /\ last' \in Nat
    BY <1>0, <1>1 DEF Stays, Grants, Frees
  <1>3. call' \in [Users -> CallRecord] /\ \A d \in Users : d # c => call'[d] = call[d]
    BY <1>0
  <1>4. \A d \in Users : CallInv(d)'
    <2>1. \A d \in Users : d # c => CallInv(d)'
      BY <1>1, <1>2, <1>3, CallKept
    <2>2. call'[c] = r
      BY <1>0
    <2> QED
      BY <2>1, <2>2 DEF CallInv
  <1>5. TokensDiffer'
    <2> SUFFICES ASSUME NEW d \in Users, NEW e \in Users, mine'[d] # 0, mine'[d] = mine'[e]
                 PROVE  d = e
      BY DEF TokensDiffer
    <2>1. \A x \in Users : mine'[x] = mine[x] \/ mine'[x] = 0 \/ (x = c /\ Grants /\ mine'[x] = last')
      BY <1>1 DEF Untouched
    <2>2. \A x, y \in Users : (mine[x] # 0 /\ mine[x] = mine[y]) => x = y
      BY DEF CacheInv, TokensDiffer
    <2> QED
      <3>1. ~Grants \/ last' = last + 1
        BY <1>0 DEF Grants
      <3>2. (d # c /\ e # c) => d = e
        BY <2>1, <2>2
      <3>3. ASSUME NEW x \in Users, x # c, mine'[x] = mine'[c], mine'[x] # 0
            PROVE  FALSE
        <4>1. mine'[x] = mine[x] /\ mine[x] # 0 /\ mine[x] <= last /\ mine[x] \in Nat
          BY <1>0, <2>1, <3>3
        <4>2. CASE mine'[c] = mine[c]
          BY <2>2, <3>3, <4>1, <4>2
        <4>3. CASE Grants /\ mine'[c] = last'
          <5>1. last \in Nat /\ mine[x] = last + 1
            BY <1>0, <3>1, <3>3, <4>1, <4>3
          <5> QED
            BY <4>1, <5>1
        <4> QED
          BY <2>1, <3>3, <4>1, <4>2, <4>3
      <3> QED
        BY <3>2, <3>3
  <1> QED
    BY <1>1, <1>3, <1>4, <1>5 DEF CacheInv

\* A step of one user that leaves the store alone.
LEMMA CacheCallStep ==
    ASSUME CacheInv, NEW c \in Users, KeyCall(c), UNCHANGED rowlock, UnchangedStore,
           NEW r \in CallRecord, call' = [call EXCEPT ![c] = r],
           mine'[c] = mine[c] \/ mine'[c] = 0 \/ (Grants /\ mine'[c] = last'),
           CallSound(c, r)'
    PROVE  CacheInv'
  <1>1. StoreMove(c) /\ StoreTyped' /\ StoredValues'
    BY CacheTypes DEF UnchangedStore, StoreMove, CacheInv, StoreTyped, StoredValues, Fresh
  <1> QED
    BY <1>1, CacheStep

\* A step of one user within its own call.
LEMMA CacheLocalStep ==
    ASSUME CacheInv, NEW c \in Users, UNCHANGED keyVars, UnchangedStore,
           NEW r \in CallRecord, call' = [call EXCEPT ![c] = r], CallSound(c, r)
    PROVE  CacheInv'
  <1>1. KeyCall(c) /\ UNCHANGED rowlock /\ mine' = mine /\ beating' = beating /\ last' = last
    BY DEF keyVars, KeyCall, claimVars, lockVars
  <1>2. CallSound(c, r)'
    BY <1>1 DEF UnchangedStore, CallSound, GuardInCall, ReadValue, Computation, Deletion, Fresh
  <1> QED
    BY <1>1, <1>2, CacheCallStep

\* The records of calls that a step makes.
LEMMA CallRecords ==
    ASSUME CacheInv, NEW c \in Users
    PROVE  /\ NoCall \in CallRecord /\ NoCall.at = "idle" /\ NoCall.kind = "none" /\ NoCall.read = NoEntry
           /\ NoCall.sinceAll = 0 /\ NoCall.sinceKey = 0 /\ NoCall.born = 0 /\ NoCall.epoch = 0
           /\ [NoCall EXCEPT !.ok = TRUE] \in CallRecord /\ [NoCall EXCEPT !.ok = TRUE].at = "idle"
           /\ [NoCall EXCEPT !.ok = TRUE].read = NoEntry /\ [NoCall EXCEPT !.ok = TRUE].born = 0
           /\ [NoCall EXCEPT !.ok = TRUE].sinceAll = 0 /\ [NoCall EXCEPT !.ok = TRUE].sinceKey = 0
           /\ call[c] \in CallRecord /\ call[c].read \in Entries /\ CallSound(c, call[c])
           /\ \A place \in CachePlaces : [call[c] EXCEPT !.at = place] \in CallRecord
           /\ \A ok \in BOOLEAN : [call[c] EXCEPT !.at = "releasing", !.ok = ok] \in CallRecord
  <1>1. 0 \in Counts
    BY CacheAssumption DEF Counts
  <1>2. NoCall \in CallRecord
    BY <1>1, EntryFields DEF NoCall, CallRecord, CachePlaces
  <1>3. call[c] \in CallRecord /\ call[c].read \in Entries /\ CallSound(c, call[c])
    BY CacheTypes DEF CacheInv, CallInv
  <1>4. [NoCall EXCEPT !.ok = TRUE] \in CallRecord
    BY <1>2 DEF CallRecord
  <1>5. \A place \in CachePlaces : [call[c] EXCEPT !.at = place] \in CallRecord
    BY <1>3 DEF CallRecord
  <1>6. \A ok \in BOOLEAN : [call[c] EXCEPT !.at = "releasing", !.ok = ok] \in CallRecord
    BY <1>3 DEF CallRecord, CachePlaces
  <1> QED
    BY <1>2, <1>3, <1>4, <1>5, <1>6 DEF NoCall

\* A call that is over, and has left its guard.
LEMMA OverSound ==
    ASSUME CacheInv, NEW c \in Users, mine[c] = 0, ~beating[c]
    PROVE  CallSound(c, NoCall) /\ CallSound(c, [NoCall EXCEPT !.ok = TRUE])
  <1> SUFFICES ASSUME NEW r, r.at = "idle", r.read = NoEntry, r.sinceAll = 0, r.sinceKey = 0, r.born = 0
               PROVE  CallSound(c, r)
    BY CallRecords
  <1> QED
    BY EntryFields, CacheTypes DEF CallSound, GuardInCall, ReadValue, Computation, Deletion, Fresh

\* What may happen to a call that only moves on: it finishes, or goes on to a place that asks nothing new.
LEMMA MoveSound ==
    ASSUME CacheInv, NEW c \in Users, NEW r \in CallRecord,
           r.kind = call[c].kind, r.sinceAll = call[c].sinceAll, r.sinceKey = call[c].sinceKey,
           r.born = call[c].born, r.epoch = call[c].epoch, r.read = call[c].read,
           \/ r.at = "releasing" /\ ~r.ok
           \/ r.at = "releasing" /\ r.kind = "fetch" /\ (r.read.computed => r.read.born >= r.sinceAll)
           \/ r.at = "releasing" /\ r.kind # "invalidate" /\ ~r.read.computed
           \/ r.at \in {"deleting", "set_epoch", "setting"} /\ r.kind # "fetch"
           \/ r.at = "locked" /\ r.kind = "fetch"
           \/ call[c].at = "computing" /\ r.at = "storing"
    PROVE  CallSound(c, r)
  <1>1. CallSound(c, call[c]) /\ call[c].read \in Entries
    BY CallRecords
  <1>2. GuardInCall(c, r)
    BY <1>1 DEF CallSound, GuardInCall
  <1>3. ReadValue(r)
    BY <1>1 DEF CallSound, ReadValue
  <1>4. Computation(c, r)
    BY <1>1 DEF CallSound, Computation
  <1>5. Deletion(c, r)
    BY <1>1 DEF CallSound, Deletion
  <1> QED
    BY <1>2, <1>3, <1>4, <1>5 DEF CallSound

\* The reads of a fetch.
LEMMA FetchReadsKeep ==
    ASSUME CacheInv, NEW c \in Users, BeginFetch(c) \/ PeekEpoch(c) \/ ReadEntryLocked(c) \/ ReadEpochLocked(c)
    PROVE  CacheInv'
  <1>0. /\ call \in [Users -> CallRecord] /\ CallSound(c, call[c]) /\ call[c] \in CallRecord /\ call[c].read \in Entries
        /\ StoredValues /\ entry \in Entries /\ lastAll \in Counts /\ lastKey \in Counts /\ ticks \in Counts
        /\ epoch \in Counts /\ 0 \in Counts /\ NoEntry \in Entries
    <2>1. /\ lastAll \in Counts /\ lastKey \in Counts /\ ticks \in Counts /\ epoch \in Counts /\ 0 \in Counts
      BY CacheTypes DEF Counts
    <2> QED
      BY <2>1, CallRecords, EntryFields DEF CacheInv, StoreTyped
  <1>1. CASE BeginFetch(c)
    <2> DEFINE place == IF entry.has THEN "peek" ELSE "claiming"
               r == [NoCall EXCEPT !.kind = "fetch", !.at = place, !.read = entry, !.sinceAll = lastAll,
                                   !.sinceKey = lastKey]
    <2>1. call' = [call EXCEPT ![c] = r] /\ UNCHANGED keyVars /\ UnchangedStore /\ call[c].at = "idle"
      BY <1>1 DEF BeginFetch, Begins, Free, Now
    <2>2. /\ r \in CallRecord /\ r.kind = "fetch" /\ r.at \in {"peek", "claiming"} /\ r.read = entry
          /\ r.sinceAll = lastAll /\ r.sinceKey = lastKey /\ r.born = 0
      BY <1>0 DEF NoCall, CallRecord, CachePlaces
    <2> HIDE DEF r
    <2>3. CallSound(c, r)
      BY <1>0, <2>1, <2>2, CacheTypes DEF CallSound, GuardInCall, ReadValue, Computation, Deletion, StoredValues
    <2> QED
      BY <2>1, <2>2, <2>3, CacheLocalStep
  <1>2. CASE PeekEpoch(c)
    <2>1. call[c].at = "peek" /\ UNCHANGED keyVars /\ UnchangedStore /\ mine[c] = 0 /\ ~beating[c]
      BY <1>0, <1>2 DEF PeekEpoch, Now, CallSound, GuardInCall
    <2>2. CASE call[c].read.epoch < epoch
      <3> DEFINE r == [call[c] EXCEPT !.at = "claiming", !.read = NoEntry]
      <3>1. call' = [call EXCEPT ![c] = r]
        BY <1>2, <2>2 DEF PeekEpoch
      <3>2. /\ r \in CallRecord /\ r.kind = call[c].kind /\ r.at = "claiming" /\ r.read = NoEntry
            /\ r.sinceAll = call[c].sinceAll /\ r.sinceKey = call[c].sinceKey /\ r.born = call[c].born
        <4>1. r \in CallRecord
          BY <1>0 DEF CallRecord, CachePlaces
        <4>2. /\ r.kind = call[c].kind /\ r.at = "claiming" /\ r.read = NoEntry
              /\ r.sinceAll = call[c].sinceAll /\ r.sinceKey = call[c].sinceKey /\ r.born = call[c].born
          BY <1>0 DEF CallRecord
        <4> QED
          BY <4>1, <4>2
      <3> HIDE DEF r
      <3>3. CallSound(c, r)
        BY <1>0, <2>1, <3>2, EntryFields DEF CallSound, GuardInCall, ReadValue, Computation, Deletion, Fresh
      <3> QED
        BY <2>1, <3>1, <3>2, <3>3, CacheLocalStep
    <2>3. CASE ~(call[c].read.epoch < epoch)
      <3>1. call' = [call EXCEPT ![c] = [NoCall EXCEPT !.ok = TRUE]]
        BY <1>2, <2>3 DEF PeekEpoch, Succeeds
      <3> QED
        BY <2>1, <3>1, CallRecords, OverSound, CacheLocalStep
    <2> QED
      BY <2>2, <2>3
  <1>3. CASE ReadEntryLocked(c)
    <2> DEFINE r == [call[c] EXCEPT !.at = "locked_epoch", !.read = entry]
    <2>1. call' = [call EXCEPT ![c] = r] /\ UNCHANGED keyVars /\ UnchangedStore /\ call[c].at = "locked"
      BY <1>3 DEF ReadEntryLocked, Now
    <2>2. /\ r \in CallRecord /\ r.kind = call[c].kind /\ r.at = "locked_epoch" /\ r.read = entry
          /\ r.sinceAll = call[c].sinceAll /\ r.sinceKey = call[c].sinceKey /\ r.born = call[c].born
      BY <1>0 DEF CallRecord, CachePlaces
    <2> HIDE DEF r
    <2>3. (entry.computed /\ entry.owned) => entry.born >= call[c].sinceKey
      <3>1. entry.born \in Nat /\ lastKey \in Nat /\ call[c].sinceKey \in Nat
        BY <1>0, CacheTypes, EntryFields
      <3> QED
        BY <1>0, <3>1 DEF StoredValues, CallSound, ReadValue
    <2>4. CallSound(c, r)
      BY <1>0, <2>1, <2>2, <2>3 DEF CallSound, GuardInCall, ReadValue, Computation, Deletion, StoredValues
    <2> QED
      BY <2>1, <2>2, <2>4, CacheLocalStep
  <1>4. CASE ReadEpochLocked(c)
    <2>1. call[c].at = "locked_epoch" /\ UNCHANGED keyVars /\ UnchangedStore /\ call[c].kind = "fetch"
      BY <1>0, <1>4 DEF ReadEpochLocked, Now, CallSound, GuardInCall
    <2>2. CASE call[c].read.has /\ call[c].read.epoch >= epoch
      <3> DEFINE r == [call[c] EXCEPT !.at = "releasing", !.ok = TRUE]
      <3>1. call' = [call EXCEPT ![c] = r]
        BY <1>4, <2>2 DEF ReadEpochLocked, Finishes
      <3>2. /\ r \in CallRecord /\ r.kind = "fetch" /\ r.at = "releasing" /\ r.read = call[c].read /\ r.epoch = call[c].epoch
            /\ r.sinceAll = call[c].sinceAll /\ r.sinceKey = call[c].sinceKey /\ r.born = call[c].born
        BY <1>0, <2>1, CallRecords DEF CallRecord
      <3> HIDE DEF r
      <3>3. r.read.computed => r.read.born >= r.sinceAll
        BY <1>0, <2>2, <3>2, CacheTypes DEF CallSound, ReadValue, Fresh
      <3>4. CallSound(c, r)
        BY <2>1, <3>2, <3>3, MoveSound
      <3> QED
        BY <2>1, <3>1, <3>2, <3>4, CacheLocalStep
    <2>3. CASE ~(call[c].read.has /\ call[c].read.epoch >= epoch)
      <3> DEFINE r == [call[c] EXCEPT !.at = "computing", !.read = NoEntry, !.epoch = epoch, !.born = ticks]
      <3>1. call' = [call EXCEPT ![c] = r]
        BY <1>4, <2>3 DEF ReadEpochLocked
      <3>2. /\ r \in CallRecord /\ r.kind = "fetch" /\ r.at = "computing" /\ r.read = NoEntry /\ r.epoch = epoch
            /\ r.sinceAll = call[c].sinceAll /\ r.sinceKey = call[c].sinceKey /\ r.born = ticks
        BY <1>0, <2>1 DEF CallRecord, CachePlaces
      <3> HIDE DEF r
      <3>3. CallSound(c, r)
        BY <1>0, <2>1, <3>2, EntryFields, CacheTypes DEF CallSound, GuardInCall, ReadValue, Computation, Deletion, Fresh
      <3> QED
        BY <2>1, <3>1, <3>2, <3>3, CacheLocalStep
    <2> QED
      BY <2>2, <2>3
  <1> QED
    BY <1>1, <1>2, <1>3, <1>4

\* The calls that take, wait for or give up the mutex.
LEMMA CacheClaimsKeep ==
    ASSUME CacheInv, NEW c \in Users,
           BeginSet(c) \/ BeginInvalidate(c) \/ AcquireMutex(c) \/ LockWaitTimesOut(c) \/ AcquireMutexErrs(c)
    PROVE  CacheInv'
  <1>0. /\ call \in [Users -> CallRecord] /\ CallSound(c, call[c]) /\ call[c] \in CallRecord /\ call[c].at \in CachePlaces
        /\ KeyInv /\ NoEntry \in Entries /\ 0 \in Counts
    <2>1. call \in [Users -> CallRecord] /\ KeyInv /\ 0 \in Counts
      BY CacheAssumption DEF CacheInv, Counts
    <2>2. CallSound(c, call[c]) /\ call[c] \in CallRecord /\ call[c].at \in CachePlaces
      BY CacheTypes DEF CacheInv, CallInv
    <2> QED
      BY <2>1, <2>2, EntryFields
  <1>1. ASSUME NEW kind \in {"set", "invalidate"}, Free(c), Begins(c, kind, "claiming", NoEntry),
               UNCHANGED keyVars, UnchangedStore
        PROVE  CacheInv'
    <2> DEFINE r == [NoCall EXCEPT !.kind = kind, !.at = "claiming", !.read = NoEntry, !.sinceAll = 0, !.sinceKey = 0]
    <2>1. call' = [call EXCEPT ![c] = r]
      BY <1>1 DEF Begins
    <2>2. /\ r \in CallRecord /\ r.kind \in {"set", "invalidate"} /\ r.at = "claiming" /\ r.read = NoEntry
          /\ r.sinceAll = 0 /\ r.sinceKey = 0 /\ r.born = 0
      BY <1>0 DEF NoCall, CallRecord, CachePlaces
    <2>3. mine[c] = 0 /\ ~beating[c]
      BY <1>0, <1>1 DEF CallSound, GuardInCall, Free, Now
    <2> HIDE DEF r
    <2>4. CallSound(c, r)
      BY <1>0, <2>2, <2>3, CacheTypes, EntryFields DEF CallSound, GuardInCall, ReadValue, Computation, Deletion, Fresh
    <2> QED
      BY <1>1, <2>1, <2>2, <2>4, CacheLocalStep
  <1>2. CASE BeginSet(c) \/ BeginInvalidate(c)
    BY <1>1, <1>2 DEF BeginSet, BeginInvalidate
  <1>3. CASE AcquireMutex(c)
    <2>1. call[c].at = "claiming" /\ ClaimGranted(c, TRUE) /\ UNCHANGED rowlock /\ UnchangedStore
      BY <1>3 DEF AcquireMutex, Now
    <2>2. call[c].kind \in {"fetch", "set", "invalidate"}
      BY <1>0, <2>1 DEF CallSound, GuardInCall, CallRecord
    <2>3. PICK place \in {"locked", "set_epoch", "deleting"} :
             Goes(c, place) /\ (place = "locked" <=> call[c].kind = "fetch")
      BY <1>3, <2>2 DEF AcquireMutex, FirstUnderMutex
    <2> DEFINE s == [call[c] EXCEPT !.at = place]
    <2>4. PICK r \in CallRecord : r = s
      BY <1>0, <2>3 DEF CallRecord, CachePlaces
    <2>5. /\ call' = [call EXCEPT ![c] = r]
          /\ r.kind = call[c].kind /\ r.at = place /\ r.read = call[c].read /\ r.epoch = call[c].epoch
          /\ r.sinceAll = call[c].sinceAll /\ r.sinceKey = call[c].sinceKey /\ r.born = call[c].born
      BY <1>0, <2>3, <2>4 DEF CallRecord, Goes
    <2> HIDE DEF s
    <2>6. mine'[c] = last' /\ Grants
      <3>1. mine' = [mine EXCEPT ![c] = last'] /\ NewGrant /\ mine \in [Users -> 0 .. last]
        BY <1>0, <2>1 DEF ClaimGranted, KeyInv, GuardedKeyTypeOK
      <3> QED
        BY <1>0, <3>1, NewGrantGrants
    <2>7. CallSound(c, r)'
      <3>1. CallSound(c, r)
        BY <2>3, <2>5, MoveSound
      <3>2. r.at \notin {"idle", "peek", "claiming", "computing", "storing", "releasing"}
        BY <2>5
      <3> QED
        BY <2>1, <3>1, <3>2 DEF CallSound, GuardInCall, ReadValue, Computation, Deletion, Fresh, UnchangedStore
    <2>8. KeyCall(c) /\ UNCHANGED rowlock /\ UnchangedStore
      BY <2>1 DEF KeyCall
    <2> QED
      BY <2>5, <2>6, <2>7, <2>8, CacheCallStep
  <1>4. ASSUME Now(c, "claiming"), Errs(c), UnchangedStore, UNCHANGED claimVars, UNCHANGED rowlock, KeyCall(c)
        PROVE  CacheInv'
    <2>1. /\ call' = [call EXCEPT ![c] = NoCall] /\ NoCall \in CallRecord
          /\ mine[c] = 0 /\ ~beating[c] /\ mine'[c] = 0 /\ ~beating'[c]
      BY <1>0, <1>4, CallRecords DEF Errs, Now, CallSound, GuardInCall, claimVars
    <2>2. CallSound(c, NoCall)'
      <3>1. CallSound(c, NoCall)
        BY <2>1, OverSound
      <3> QED
        BY <1>4, <2>1, <3>1, CallRecords, EntryFields
        DEF CallSound, GuardInCall, ReadValue, Computation, Deletion, Fresh, UnchangedStore
    <2> QED
      BY <1>4, <2>1, <2>2, CacheCallStep
  <1>5. CASE LockWaitTimesOut(c) \/ AcquireMutexErrs(c)
    <2>1. Now(c, "claiming") /\ Errs(c) /\ UnchangedStore /\ UNCHANGED claimVars /\ UNCHANGED rowlock
      BY <1>5 DEF LockWaitTimesOut, AcquireMutexErrs, ClaimRefused, ClaimErrs, keyVars
    <2>2. KeyCall(c)
      BY <1>5 DEF LockWaitTimesOut, AcquireMutexErrs, ClaimRefused, keyVars, KeyCall, lockVars, claimVars
    <2> QED
      BY <1>4, <2>1, <2>2
  <1> QED
    BY <1>2, <1>3, <1>5

\* The steps of a call under the mutex that leave the store alone.
LEMMA CacheMovesKeep ==
    ASSUME CacheInv, NEW c \in Users,
           ReadFails(c) \/ ComputeReturns(c) \/ ComputeFails(c) \/ SetReadEpoch(c)
    PROVE  CacheInv'
  <1>0. /\ call \in [Users -> CallRecord] /\ CallSound(c, call[c]) /\ call[c] \in CallRecord
        /\ epoch \in Counts /\ call[c].read \in Entries
    <2>1. epoch \in Counts
      BY CacheTypes DEF Counts
    <2> QED
      BY <2>1, CacheTypes DEF CacheInv, CallInv
  <1>1. ASSUME UNCHANGED keyVars, UnchangedStore, Finishes(c, FALSE)
        PROVE  CacheInv'
    <2> DEFINE r == [call[c] EXCEPT !.at = "releasing", !.ok = FALSE]
    <2>1. call' = [call EXCEPT ![c] = r]
      BY <1>1 DEF Finishes
    <2>2. /\ r \in CallRecord /\ r.kind = call[c].kind /\ r.at = "releasing" /\ r.read = call[c].read /\ r.epoch = call[c].epoch
          /\ r.sinceAll = call[c].sinceAll /\ r.sinceKey = call[c].sinceKey /\ r.born = call[c].born /\ ~r.ok
      BY <1>0 DEF CallRecord, CachePlaces
    <2> HIDE DEF r
    <2>3. CallSound(c, r)
      BY <2>2, MoveSound
    <2> QED
      BY <1>1, <2>1, <2>2, <2>3, CacheLocalStep
  <1>2. CASE ReadFails(c)
    <2>1. CASE Now(c, "peek") /\ Errs(c)
      <3>1. /\ call' = [call EXCEPT ![c] = NoCall] /\ NoCall \in CallRecord /\ CallSound(c, NoCall)
            /\ UNCHANGED keyVars /\ UnchangedStore
        BY <1>0, <1>2, <2>1, CallRecords, OverSound DEF Errs, Now, CallSound, GuardInCall, ReadFails
      <3> QED
        BY <3>1, CacheLocalStep
    <2> QED
      BY <1>1, <1>2, <2>1 DEF ReadFails
  <1>3. CASE ComputeReturns(c)
    <2>1. UNCHANGED keyVars /\ UnchangedStore /\ call[c].at = "computing"
      BY <1>3 DEF ComputeReturns, Now
    <2>2. CASE ~lost[c]
      <3> DEFINE r == [call[c] EXCEPT !.at = "storing"]
      <3>1. call' = [call EXCEPT ![c] = r]
        BY <1>3, <2>2 DEF ComputeReturns, Goes
      <3>2. /\ r \in CallRecord /\ r.kind = call[c].kind /\ r.at = "storing" /\ r.read = call[c].read /\ r.epoch = call[c].epoch
            /\ r.sinceAll = call[c].sinceAll /\ r.sinceKey = call[c].sinceKey /\ r.born = call[c].born
        BY <1>0 DEF CallRecord, CachePlaces
      <3> HIDE DEF r
      <3>3. CallSound(c, r)
        BY <2>1, <3>2, MoveSound
      <3> QED
        BY <2>1, <3>1, <3>2, <3>3, CacheLocalStep
    <2> QED
      BY <1>1, <1>3, <2>1, <2>2 DEF ComputeReturns
  <1>4. CASE ComputeFails(c)
    BY <1>1, <1>4 DEF ComputeFails
  <1>5. CASE SetReadEpoch(c)
    <2> DEFINE r == [call[c] EXCEPT !.at = "setting", !.epoch = epoch]
    <2>1. call' = [call EXCEPT ![c] = r] /\ UNCHANGED keyVars /\ UnchangedStore
      BY <1>5 DEF SetReadEpoch
    <2>2. /\ r \in CallRecord /\ r.kind = call[c].kind /\ r.at = "setting" /\ r.read = call[c].read
          /\ r.sinceAll = call[c].sinceAll /\ r.sinceKey = call[c].sinceKey /\ r.born = call[c].born
      BY <1>0 DEF CallRecord, CachePlaces
    <2> HIDE DEF r
    <2>3. r.kind # "fetch"
      BY <1>0, <1>5, <2>2 DEF SetReadEpoch, Now, CallSound, GuardInCall
    <2>4. CallSound(c, r)
      BY <1>0, <2>2, <2>3 DEF CallSound, GuardInCall, ReadValue, Computation, Deletion
    <2> QED
      BY <2>1, <2>2, <2>4, CacheLocalStep
  <1> QED
    BY <1>2, <1>3, <1>4, <1>5

\* The statements under the mutex: the value stored is the one that was computed, and as good as the lease it was
\* computed under.
LEMMA CacheStoresKeep ==
    ASSUME CacheInv, NEW c \in Users, StoreComputed(c) \/ SetEntry(c) \/ DeleteEntry(c)
    PROVE  CacheInv'
  <1>0. /\ call \in [Users -> CallRecord] /\ CallSound(c, call[c]) /\ call[c] \in CallRecord
        /\ StoreTyped /\ StoredValues /\ KeyInv
        /\ ticks \in Counts /\ call[c].epoch \in Counts /\ call[c].born \in Counts /\ Owns(c) \in BOOLEAN
    <2>1. Owns(c) \in BOOLEAN
      BY DEF Owns
    <2>2. call \in [Users -> CallRecord] /\ CallSound(c, call[c]) /\ StoreTyped /\ StoredValues /\ KeyInv /\ ticks \in Counts
      BY DEF CacheInv, CallInv, StoreTyped
    <2>3. call[c] \in CallRecord /\ call[c].epoch \in Counts /\ call[c].born \in Counts
      BY CacheTypes
    <2> QED
      BY <2>1, <2>2, <2>3
  <1>1. UNCHANGED <<keyVars, epoch, late, lastAll, lastKey>> /\ ticks' \in Counts /\ ticks' >= ticks
    <2>1. UNCHANGED <<keyVars, epoch, late, lastAll, lastKey>> /\ (ticks' = ticks \/ (ticks < MaxInvalidations /\ ticks' = ticks + 1))
      BY Zenon DEF StoreComputed, SetEntry, DeleteEntry
    <2> QED
      BY <1>0, <2>1, CacheTypes DEF Counts
  <1>2. /\ KeyCall(c) /\ UNCHANGED rowlock /\ mine' = mine /\ beating' = beating /\ last' = last
        /\ epoch' = epoch /\ late' = late /\ lastAll' = lastAll /\ lastKey' = lastKey
    BY <1>1 DEF keyVars, KeyCall, claimVars, lockVars
  <1>3. Owns(c) => mine[c] = last
    BY <1>0 DEF Owns, KeyInv, RowIsLastGrant
  <1>4. ASSUME entry' \in Entries, entry' = entry \/ (Fresh(entry') /\ (entry'.computed /\ entry'.owned => Owns(c) /\ entry'.born >= lastKey))
        PROVE  StoreMove(c) /\ StoreTyped' /\ StoredValues'
    <2>1. StoreMove(c)
      BY <1>1, <1>2, <1>4 DEF StoreMove
    <2>2. StoreTyped'
      BY <1>0, <1>1, <1>2, <1>4, CacheTypes DEF StoreTyped, Counts
    <2>3. StoredValues'
      BY <1>0, <1>2, <1>4 DEF StoredValues, Fresh
    <2> QED
      BY <2>1, <2>2, <2>3
  <1>5. ASSUME NEW r \in CallRecord, call' = [call EXCEPT ![c] = r],
               r.at = "releasing", r.kind = call[c].kind, r.sinceAll = call[c].sinceAll, r.sinceKey = call[c].sinceKey,
               r.born <= ticks',
               entry' \in Entries, entry' = entry \/ (Fresh(entry') /\ (entry'.computed /\ entry'.owned => Owns(c) /\ entry'.born >= lastKey)),
               Fresh(r.read),
               (r.read.computed /\ r.read.owned) => r.read.born >= r.sinceKey,
               (r.kind = "fetch" /\ r.ok /\ r.read.computed) => r.read.born >= r.sinceAll,
               r.kind = "invalidate" => (~r.ok \/ ~entry'.computed)
        PROVE  CacheInv'
    <2>1. CallSound(c, r)'
      <3>1. GuardInCall(c, r)' /\ Computation(c, r)'
        BY <1>5 DEF GuardInCall, Computation
      <3>2. ReadValue(r)'
        BY <1>0, <1>2, <1>5 DEF CallSound, ReadValue, Fresh
      <3>3. Deletion(c, r)'
        BY <1>5 DEF Deletion
      <3> QED
        BY <3>1, <3>2, <3>3 DEF CallSound
    <2> QED
      BY <1>2, <1>4, <1>5, <2>1, CacheStep
  <1>6. CASE StoreComputed(c)
    <2>1. call[c].at = "storing" /\ call[c].kind = "fetch" /\ ticks' = ticks
      BY <1>0, <1>6 DEF StoreComputed, Now, CallSound, GuardInCall
    <2>2. PICK value \in Entries : value = ComputedEntry(c, Owns(c))
      BY <1>0, EntryFields DEF ComputedEntry
    <2>3. value.epoch = call[c].epoch /\ value.born = call[c].born /\ value.computed /\ (value.owned <=> Owns(c))
      BY <1>0, <2>2 DEF ComputedEntry
    <2>4. /\ Fresh(value) /\ value.born >= call[c].sinceAll /\ call[c].born <= ticks
          /\ value.owned => value.born >= lastKey /\ value.born >= call[c].sinceKey
      <3>1. /\ call[c].born >= call[c].sinceAll /\ call[c].born <= ticks
            /\ call[c].epoch <= epoch /\ (call[c].epoch >= epoch => call[c].born >= lastAll)
            /\ mine[c] = last => call[c].born >= lastKey
            /\ call[c].sinceKey <= lastKey
        BY <1>0, <2>1 DEF CallSound, Computation, ReadValue
      <3> QED
        BY <1>3, <2>3, <3>1, CacheTypes DEF Fresh
    <2> DEFINE s == [call[c] EXCEPT !.at = "releasing", !.ok = TRUE, !.read = value]
    <2>5. PICK r \in CallRecord : r = s
      BY <1>0 DEF CallRecord, CachePlaces
    <2>6. /\ call' = [call EXCEPT ![c] = r]
          /\ r.kind = "fetch" /\ r.at = "releasing" /\ r.read = value
          /\ r.sinceAll = call[c].sinceAll /\ r.sinceKey = call[c].sinceKey /\ r.born = call[c].born
      BY <1>0, <1>6, <2>1, <2>2, <2>5 DEF CallRecord, StoreComputed
    <2> HIDE DEF s
    <2>7. entry' = value \/ entry' = entry
      BY <1>6, <2>2 DEF StoreComputed
    <2>8. entry' \in Entries
      BY <1>0, <2>2, <2>7 DEF StoreTyped
    <2> QED
      BY <1>5, <2>1, <2>3, <2>4, <2>6, <2>7, <2>8
  <1>7. CASE SetEntry(c)
    <2>1. ticks' = ticks /\ call[c].born <= ticks
      BY <1>0, <1>7 DEF SetEntry, CallSound, Computation
    <2>2. PICK value \in Entries : value = [has |-> TRUE, epoch |-> call[c].epoch, born |-> ticks, computed |-> FALSE,
                                           owned |-> Owns(c)]
      BY <1>0, EntryFields
    <2>3. ~value.computed
      BY <2>2
    <2>4. PICK ok \in BOOLEAN : Finishes(c, ok) /\ (entry' = value \/ (~ok /\ entry' = entry))
      BY <1>7, <2>2 DEF SetEntry
    <2> DEFINE s == [call[c] EXCEPT !.at = "releasing", !.ok = ok]
    <2>5. PICK r \in CallRecord : r = s
      BY <1>0 DEF CallRecord, CachePlaces
    <2>6. /\ call' = [call EXCEPT ![c] = r]
          /\ r.kind = call[c].kind /\ r.at = "releasing" /\ r.read = call[c].read /\ r.ok = ok
          /\ r.sinceAll = call[c].sinceAll /\ r.sinceKey = call[c].sinceKey /\ r.born = call[c].born
      BY <1>0, <2>4, <2>5 DEF CallRecord, Finishes
    <2> HIDE DEF s
    <2>7. entry' \in Entries
      BY <1>0, <2>2, <2>4 DEF StoreTyped
    <2>8. Fresh(r.read) /\ ((r.read.computed /\ r.read.owned) => r.read.born >= r.sinceKey)
      BY <1>0, <2>6 DEF CallSound, ReadValue
    <2>9. Fresh(value)
      BY <2>3 DEF Fresh
    <2>10. r.kind # "fetch"
      BY <1>0, <1>7, <2>6 DEF SetEntry, Now, CallSound, GuardInCall
    <2> QED
      BY <1>5, <2>1, <2>3, <2>4, <2>6, <2>7, <2>8, <2>9, <2>10
  <1>8. CASE DeleteEntry(c)
    <2>1. call[c].born <= ticks /\ call[c].kind # "fetch" /\ ticks' = ticks + 1 /\ call[c].born <= ticks'
      <3>1. call[c].born <= ticks /\ call[c].kind # "fetch" /\ ticks' = ticks + 1
        BY <1>0, <1>8 DEF DeleteEntry, Now, CallSound, GuardInCall, Computation
      <3> QED
        BY <3>1, CacheTypes
    <2>2. PICK ok \in BOOLEAN, born \in {call[c].born, ticks'} :
             /\ call' = [call EXCEPT ![c] = [call[c] EXCEPT !.at = "releasing", !.ok = ok, !.born = born]]
             /\ entry' = NoEntry \/ (~ok /\ entry' = entry)
      <3>1. CASE entry' = NoEntry /\ (\E ok \in BOOLEAN :
                    call' = [call EXCEPT ![c].at = "releasing", ![c].ok = ok, ![c].born = ticks + 1])
        BY <2>1, <3>1
      <3>2. CASE UNCHANGED entry /\ Finishes(c, FALSE)
        <4>1. [call[c] EXCEPT !.at = "releasing", !.ok = FALSE, !.born = call[c].born]
                = [call[c] EXCEPT !.at = "releasing", !.ok = FALSE]
          BY <1>0 DEF CallRecord
        <4> QED
          BY <3>2, <4>1 DEF Finishes
      <3> QED
        BY <1>8, <3>1, <3>2 DEF DeleteEntry
    <2> DEFINE s == [call[c] EXCEPT !.at = "releasing", !.ok = ok, !.born = born]
    <2>3. born \in Counts /\ born <= ticks'
      BY <1>0, <1>1, <2>1, CacheTypes DEF Counts
    <2>4. PICK r \in CallRecord : r = s
      BY <1>0, <2>3 DEF CallRecord, CachePlaces
    <2>5. /\ call' = [call EXCEPT ![c] = r]
          /\ r.kind = call[c].kind /\ r.at = "releasing" /\ r.read = call[c].read /\ r.ok = ok
          /\ r.sinceAll = call[c].sinceAll /\ r.sinceKey = call[c].sinceKey /\ r.born = born
      BY <1>0, <2>2, <2>4 DEF CallRecord
    <2> HIDE DEF s
    <2>6. Fresh(NoEntry) /\ ~NoEntry.computed /\ entry' \in Entries
      BY <1>0, <2>2, EntryFields DEF StoreTyped, Fresh
    <2>7. Fresh(r.read) /\ ((r.read.computed /\ r.read.owned) => r.read.born >= r.sinceKey)
      BY <1>0, <2>5 DEF CallSound, ReadValue
    <2> QED
      BY <1>5, <2>1, <2>2, <2>3, <2>5, <2>6, <2>7
  <1> QED
    BY <1>6, <1>7, <1>8

\* The ends of a call: its release, whose answer decides whether the value counts, or the loss of its caller.
LEMMA CacheEndsKeep ==
    ASSUME CacheInv, NEW c \in Users, ReleaseMutex(c) \/ CallStops(c)
    PROVE  CacheInv'
  <1>0. /\ call \in [Users -> CallRecord] /\ CallSound(c, call[c]) /\ call[c] \in CallRecord
        /\ StoreTyped /\ StoredValues /\ KeyInv
        /\ mine \in [Users -> 0 .. last] /\ beating \in [Users -> BOOLEAN]
    BY CacheTypes DEF CacheInv, CallInv, KeyInv, GuardedKeyTypeOK
  <1>1. ASSUME NEW r \in {NoCall, [NoCall EXCEPT !.ok = TRUE]}, call' = [call EXCEPT ![c] = r], mine'[c] = 0, ~beating'[c],
               KeyCall(c), UNCHANGED rowlock, StoreMove(c), StoreTyped', StoredValues'
        PROVE  CacheInv'
    <2>1. /\ r \in CallRecord /\ r.at = "idle" /\ r.read = NoEntry /\ r.sinceAll = 0 /\ r.sinceKey = 0 /\ r.born = 0
      BY CallRecords
    <2>2. CallSound(c, r)'
      BY <1>1, <2>1, EntryFields, CacheAssumption
      DEF CallSound, GuardInCall, ReadValue, Computation, Deletion, Fresh, StoreTyped, Counts
    <2> QED
      BY <1>1, <2>1, <2>2, CacheStep

  <1>2. ASSUME ReleaseMutex(c)
        PROVE  CacheInv'
    <2>1. PICK answer \in ReleaseAnswers :
             /\ GuardRelease(c, TRUE, answer)
             /\ IF CallSucceeds(c, answer) THEN Succeeds(c) ELSE Errs(c)
             /\ lastKey' = IF CallSucceeds(c, answer) /\ call[c].kind = "invalidate" /\ call[c].born > lastKey
                           THEN call[c].born ELSE lastKey
             /\ UNCHANGED <<rowlock, entry, epoch, late, ticks, lastAll>>
             /\ call[c].at = "releasing"
      BY <1>2 DEF ReleaseMutex, Now
    <2>2. PICK r \in {NoCall, [NoCall EXCEPT !.ok = TRUE]} : call' = [call EXCEPT ![c] = r]
      BY <2>1 DEF Succeeds, Errs
    <2>3. KeyCall(c)
      BY <2>1 DEF KeyCall
    <2>4. mine'[c] = 0 /\ ~beating'[c] /\ last' = last
      BY <1>0, <2>1 DEF GuardRelease, Forget, StopHeartbeat, Release, lockVars, ReleaseAnswers
    <2>5. CallSucceeds(c, answer) => call[c].ok /\ Owns(c)
      BY <2>1 DEF CallSucceeds, GuardRelease
    <2>6. StoreMove(c)
      BY <2>1, <2>5, CacheTypes DEF StoreMove
    <2>7. StoreTyped'
      <3>1. call[c].born <= ticks
        BY <1>0 DEF CallSound, Computation
      <3>2. lastKey' \in 0 .. ticks
        BY <2>1, <3>1, CacheTypes
      <3> QED
        BY <1>0, <2>1, <3>2 DEF StoreTyped
    <2>8. StoredValues'
      <3>1. Owns(c) => mine[c] = last
        BY <1>0 DEF Owns, KeyInv, RowIsLastGrant
      <3>2. (entry.computed /\ entry.owned) => entry.born >= lastKey'
        BY <1>0, <2>1, <2>5, <3>1 DEF CallSound, Deletion, StoredValues
      <3> QED
        BY <1>0, <2>1, <3>2 DEF StoredValues, Fresh
    <2> QED
      <3>1. UNCHANGED rowlock
        BY <2>1
      <3> QED
        BY <1>1, <2>2, <2>3, <2>4, <2>6, <2>7, <2>8, <3>1
  <1>3. ASSUME CallStops(c)
        PROVE  CacheInv'
    <2>1. call' = [call EXCEPT ![c] = NoCall] /\ UNCHANGED <<rowlock, entry, epoch, ticks, lastAll, lastKey>>
      BY <1>3 DEF CallStops, Errs
    <2>2. KeyCall(c)
      BY <1>3 DEF CallStops, KeyCall
    <2>3. mine'[c] = 0 /\ ~beating'[c] /\ last' = last
      <3>1. CASE ProcessStops(c) \/ GuardDropped(c)
        BY <1>0, <3>1 DEF ProcessStops, GuardDropped, Forget, StopHeartbeat, lockVars
      <3>2. CASE call[c].at = "claiming" /\ ClaimAbandoned
        BY <1>0, <3>2 DEF ClaimAbandoned, lockVars, CallSound, GuardInCall
      <3> QED
        BY <1>3, <3>1, <3>2 DEF CallStops, Now
    <2>4. StoreMove(c)
      BY <2>1, CacheTypes DEF StoreMove
    <2>5. late' \in Entries /\ Fresh(late') /\ ~late'.owned
      <3>1. CASE late' = late
        BY <1>0, <3>1 DEF StoreTyped, StoredValues
      <3>2. CASE Now(c, "storing") /\ late' = ComputedEntry(c, FALSE)
        <4>1. /\ late' \in Entries /\ late'.epoch = call[c].epoch /\ late'.born = call[c].born /\ late'.computed /\ ~late'.owned
          BY <3>2, CacheTypes, EntryFields DEF ComputedEntry
        <4> QED
          BY <1>0, <3>2, <4>1 DEF Fresh, CallSound, Computation, Now
      <3> QED
        BY <1>3, <3>1, <3>2 DEF CallStops
    <2>6. StoreTyped' /\ StoredValues'
      BY <1>0, <2>1, <2>5 DEF StoreTyped, StoredValues, Fresh
    <2> QED
      BY <1>1, <2>1, <2>2, <2>3, <2>4, <2>6
  <1> QED
    BY <1>2, <1>3

\* A step on the store or on the key that is nobody's call.
LEMMA CacheBesideCalls ==
    ASSUME CacheInv, KeyInv', StoreTyped', StoredValues', call' = call, epoch' >= epoch, lastAll' >= lastAll, ticks' >= ticks,
           lastKey' = lastKey, last' >= last, lastAll' = lastAll \/ epoch' = epoch + 1,
           entry' = entry \/ ~(entry'.computed /\ entry'.owned),
           \A c \in Users : (mine'[c] = mine[c] \/ mine'[c] = 0) /\ (beating'[c] => beating[c])
    PROVE  CacheInv'
  <1>1. ASSUME NEW c \in Users
        PROVE  CallInv(c)'
    <2>1. PICK r \in CallRecord : r = call[c] /\ call'[c] = r /\ CallSound(c, r)
      BY DEF CacheInv, CallInv
    <2>2. /\ r.born \in Nat /\ r.epoch \in Nat /\ r.read.epoch \in Nat /\ r.read.born \in Nat /\ mine[c] <= last
          /\ last \in Nat /\ last' \in Nat /\ mine[c] \in Nat /\ r.sinceAll \in Nat /\ r.sinceKey \in Nat
          /\ lastAll \in Nat /\ epoch \in Nat /\ lastAll' \in Nat /\ epoch' \in Nat /\ ticks \in Nat /\ ticks' \in Nat
      <3>1. lastAll' \in Nat /\ epoch' \in Nat /\ ticks' \in Nat
        BY CacheAssumption DEF StoreTyped, Counts
      <3>2. last' \in Nat
        BY GuardedKeyAssumption DEF KeyInv, GuardedKeyTypeOK
      <3> QED
        BY <2>1, <3>1, <3>2, CacheTypes
    <2>3. mine'[c] = last' => mine[c] = last
      BY <2>2
    <2>4. GuardInCall(c, r)'
      BY <2>1 DEF CallSound, GuardInCall
    <2>5. ReadValue(r)'
      BY <2>1, <2>2 DEF CallSound, ReadValue, Fresh
    <2>6. Computation(c, r)'
      BY <2>1, <2>2, <2>3 DEF CallSound, Computation
    <2>7. Deletion(c, r)'
      BY <2>1, <2>3 DEF CallSound, Deletion
    <2> QED
      BY <2>1, <2>4, <2>5, <2>6, <2>7 DEF CallInv, CallSound
  <1>2. TokensDiffer'
    BY DEF CacheInv, TokensDiffer
  <1> QED
    BY <1>1, <1>2 DEF CacheInv

\* Every step of the cache keeps the invariant.
LEMMA CacheNextKeeps == CacheInv /\ [CacheNext]_cacheAll => CacheInv'
  <1> SUFFICES ASSUME CacheInv, [CacheNext]_cacheAll PROVE CacheInv'
    OBVIOUS
  <1>0. KeyInv /\ StoreTyped /\ StoredValues
    BY DEF CacheInv
  <1>1. CASE \E c \in Users : CallNext(c)
    BY <1>1, FetchReadsKeep, CacheClaimsKeep, CacheMovesKeep, CacheStoresKeep, CacheEndsKeep DEF CallNext, FetchNext
  <1>2. ASSUME UNCHANGED keyVars
        PROVE  KeyInv' /\ last' = last /\ mine' = mine /\ beating' = beating
    <2>1. UNCHANGED <<lockVars, claimVars>> /\ rowlock' = rowlock
      BY <1>2 DEF keyVars
    <2> QED
      BY <1>0, <2>1 DEF KeyInv, GuardedKeyTypeOK, RowIsLastGrant, lockVars, claimVars
  <1>3. CASE InvalidateAll
    <2>1. /\ ticks' = ticks + 1 /\ epoch' = epoch + 1 /\ lastAll' = ticks + 1 /\ ticks < MaxInvalidations
          /\ UNCHANGED <<keyVars, entry, late, call, lastKey>>
      BY <1>3 DEF InvalidateAll
    <2>2. StoreTyped'
      BY <1>0, <2>1, CacheTypes DEF StoreTyped, Counts
    <2>3. ASSUME NEW e \in Entries, Fresh(e)
          PROVE  Fresh(e)'
      BY <2>1, <2>3, CacheTypes, EntryFields DEF Fresh
    <2>4. Fresh(entry)' /\ Fresh(late)'
      <3>1. PICK e \in Entries : e = entry /\ entry' = e /\ Fresh(e)
        BY <1>0, <2>1 DEF StoreTyped, StoredValues
      <3>2. PICK f \in Entries : f = late /\ late' = f /\ Fresh(f)
        BY <1>0, <2>1 DEF StoreTyped, StoredValues
      <3>3. Fresh(e)' /\ Fresh(f)'
        BY <2>3, <3>1, <3>2
      <3> QED
        BY <3>1, <3>2, <3>3 DEF Fresh
    <2>5. StoredValues'
      BY <1>0, <2>1, <2>4 DEF StoredValues
    <2> QED
      BY <1>2, <2>1, <2>2, <2>5, CacheTypes, CacheBesideCalls
  <1>4. CASE LateStore \/ EntryExpires
    <2>1. /\ UNCHANGED <<keyVars, epoch, call, ticks, lastAll, lastKey>>
          /\ late' \in {late, NoEntry} /\ entry' \in {entry, late, NoEntry} /\ (entry' = late => ~late.owned)
      BY <1>0, <1>4 DEF LateStore, EntryExpires, StoredValues
    <2>2. NoEntry \in Entries /\ ~NoEntry.computed /\ ~NoEntry.owned
      BY EntryFields
    <2>3. StoreTyped'
      BY <1>0, <2>1, <2>2 DEF StoreTyped
    <2>4. StoredValues'
      BY <1>0, <2>1, <2>2 DEF StoredValues, Fresh
    <2>5. entry' = entry \/ ~(entry'.computed /\ entry'.owned)
      BY <2>1, <2>2
    <2> QED
      BY <1>2, <2>1, <2>3, <2>4, <2>5, CacheTypes, CacheBesideCalls
  <1>5. CASE CacheBackground /\ UNCHANGED <<rowlock, cacheVars>>
    <2>1. BackgroundNext /\ rowlock' = rowlock
      BY <1>5 DEF CacheBackground, BackgroundNext
    <2>2. /\ KeyInv' /\ last' >= last
          /\ \A c \in Users : (mine'[c] = mine[c] \/ mine'[c] = 0) /\ (beating'[c] => beating[c])
      BY <1>0, <2>1, KeyBackgroundKeeps, RowTypes DEF Stays, Grants, Frees
    <2>3. UNCHANGED <<entry, epoch, late, call, ticks, lastAll, lastKey>>
      BY <1>5 DEF cacheVars
    <2>4. StoreTyped' /\ StoredValues'
      BY <1>0, <2>3 DEF StoreTyped, StoredValues, Fresh
    <2> QED
      BY <2>2, <2>3, <2>4, CacheTypes, CacheBesideCalls
  <1>6. CASE UNCHANGED cacheAll
    <2>1. UNCHANGED keyVars /\ UNCHANGED <<entry, epoch, late, call, ticks, lastAll, lastKey>>
      BY <1>6 DEF cacheAll, cacheVars
    <2>2. StoreTyped' /\ StoredValues'
      BY <1>0, <2>1 DEF StoreTyped, StoredValues, Fresh
    <2> QED
      BY <1>2, <2>1, <2>2, CacheTypes, CacheBesideCalls
  <1> QED
    BY <1>1, <1>3, <1>4, <1>5, <1>6 DEF CacheNext

\* The inductive invariant of the cache.
THEOREM CacheInvariance == CacheSpec => []CacheInv
  BY CacheInitInv, CacheNextKeeps, PTL DEF CacheSpec

\* No fetch serves a value computed before an invalidation it began after (cache.rs, fetch_or_compute against
\* invalidate_all and invalidate).
THEOREM CacheSoundness == CacheSpec => []CacheIsSound
  <1>1. CacheInv => CacheIsSound
    <2> SUFFICES ASSUME CacheInv PROVE CacheIsSound
      OBVIOUS
    <2>1. CacheTypeOK
      <3>1. \A c \in Users : call[c].at \in {"idle", "peek", "claiming"} => mine[c] = 0 /\ ~ beating[c]
        BY DEF CacheInv, CallInv, CallSound, GuardInCall
      <3>2. GuardedKeyTypeOK /\ entry \in Entries /\ late \in Entries /\ epoch \in 0 .. ticks /\ ticks \in 0 .. MaxInvalidations
        BY DEF CacheInv, KeyInv, StoreTyped, Counts
      <3> QED
        BY <3>1, <3>2, CacheTypes DEF CacheTypeOK
    <2>2. ASSUME NEW c \in Users, Serving(c)
          PROVE  call[c].read.born >= call[c].sinceAll
      <3>1. ReadValue(call[c])
        BY DEF CacheInv, CallInv, CallSound
      <3> QED
        BY <2>2, <3>1, CacheTypes DEF Serving, Now, ReadValue, Fresh
    <2>3. ASSUME NEW c \in Users, Serving(c), call[c].read.owned
          PROVE  call[c].read.born >= call[c].sinceKey
      BY <2>3 DEF CacheInv, CallInv, CallSound, Serving, ReadValue
    <2> QED
      BY <2>1, <2>2, <2>3 DEF CacheIsSound, InvalidateAllIsFinal, InvalidateIsFinal
  <1> QED
    BY <1>1, CacheInvariance, PTL

\* A value is returned from under the mutex only when the release found the guard's own grant, and that is the last
\* one there was (cache.rs, require_coalescing_cache_mutex_released).
THEOREM CacheCoalesces == CacheSpec => ComputationIsCoalesced
  <1>1. ASSUME CacheInv, NEW c \in Users, CacheNext, call[c].at = "releasing", call'[c].at = "idle", call'[c].ok
        PROVE  mine[c] = last
    <2>0. call \in [Users -> CallRecord] /\ KeyInv
      BY <1>1 DEF CacheInv
    <2>1. call'[c] # call[c]
      BY <1>1
    <2>2. PICK d \in Users : CallNext(d)
      BY <1>1, <2>1 DEF CacheNext, InvalidateAll, LateStore, EntryExpires, cacheVars
    <2>3. d = c
      BY <2>0, <2>1, <2>2 DEF CallNext, FetchNext, BeginFetch, PeekEpoch, ReadFails, ReadEntryLocked, ReadEpochLocked,
        ComputeReturns, ComputeFails, StoreComputed, BeginSet, BeginInvalidate, AcquireMutex, LockWaitTimesOut,
        AcquireMutexErrs, SetReadEpoch, SetEntry, DeleteEntry, ReleaseMutex, CallStops, Begins, Goes, Errs, Finishes,
        Succeeds
    <2>4. ReleaseMutex(c) \/ CallStops(c)
      BY <1>1, <2>2, <2>3 DEF CallNext, FetchNext, BeginFetch, PeekEpoch, ReadFails, ReadEntryLocked, ReadEpochLocked,
        ComputeReturns, ComputeFails, StoreComputed, BeginSet, BeginInvalidate, AcquireMutex, LockWaitTimesOut,
        AcquireMutexErrs, SetReadEpoch, SetEntry, DeleteEntry, Now, Free
    <2>5. ~NoCall.ok
      BY DEF NoCall
    <2>6. PICK answer \in ReleaseAnswers : GuardRelease(c, TRUE, answer) /\ CallSucceeds(c, answer)
      BY <1>1, <2>0, <2>4, <2>5 DEF ReleaseMutex, CallStops, Errs
    <2>7. Owns(c)
      BY <2>6 DEF CallSucceeds, GuardRelease
    <2> QED
      BY <2>0, <2>7 DEF Owns, KeyInv, RowIsLastGrant
  <1>2. CacheInv /\ [CacheNext]_cacheAll
          => [\A c \in Users : (Now(c, "releasing") /\ call'[c].at = "idle" /\ call'[c].ok) => mine[c] = last]_cacheAll
    BY <1>1 DEF Now
  <1> QED
    BY <1>2, CacheInvariance, PTL DEF CacheSpec, ComputationIsCoalesced

-----------------------------------------------------------------------------
(***************************************************************************)
(* Once.                                                                   *)
(***************************************************************************)
OnceRun == [at : Places, knows : Knowledge, result : Results]

\* The places of a run whose heartbeat has been stopped, in a transaction or after it.
InTransaction == {"tx_renew", "tx_mark", "limbo", "release_renewed", "release_original"}

Over == {"ended", "stopped"}

OnceTyped ==
    /\ mode \in [Users -> {"plain", "atomic", "manual"}]
    /\ run \in [Users -> OnceRun]
    /\ done \in 0 .. last /\ advanced \in 0 .. last /\ resets \in 0 .. MaxResets
    /\ claimed \in [Users -> 0 .. last]
    /\ recorded \in [Users -> BOOLEAN] /\ overtaken \in [Users -> BOOLEAN] /\ muddled \in [Users -> BOOLEAN]

\* No two runs claimed the same grant.
ClaimsDiffer ==
    \A c, d \in Users : (claimed[c] # 0 /\ claimed[c] = claimed[d]) => c = d

\* What a run holds is its claim, and no cleanup is after it.
HoldsItsClaim(c) ==
    /\ mine[c] # 0 => mine[c] = claimed[c] /\ mine[c] \notin orphans
    /\ run[c].at \in {"idle", "claiming", "refused"} => claimed[c] = 0 /\ ~beating[c]
    /\ run[c].at \in InTransaction => ~beating[c] /\ mine[c] # 0
    /\ run[c].at \in Over => mine[c] = 0

\* The kinds of run and where they go.
WhereRunsGo(c) ==
    /\ run[c].at \in {"running", "completing"} => mode[c] = "plain"
    /\ run[c].at = "live_check" => mode[c] # "manual"

\* What a run reports.
Reports(c) ==
    /\ overtaken[c] => claimed[c] # 0 /\ claimed[c] < last
    /\ run[c].result = "ran" => run[c].at = "ended" /\ recorded[c] /\ ~overtaken[c]
    /\ run[c].knows = "marked" => recorded[c]

\* A transaction that has renewed the claim has locked the row of that claim.
RowIsLocked(c) ==
    /\ run[c].at \in {"tx_mark", "limbo"} => rowlock = c /\ mine[c] # 0 /\ mine[c] = fence
    /\ run[c].at = "limbo" => done = 0 /\ run[c].knows # "marked"

\* When a guard that knows the lease token has lost its claim, the row had already gone to others or lapsed.
LostForGood(c) ==
    (claimed[c] # 0 /\ mine[c] = 0 /\ proof[c]) => ~(live /\ fence = claimed[c])

\* What is known of the row after the transaction.
AfterCommit(c) ==
    /\ (run[c].at = "release_renewed" /\ run[c].knows = "marked") => advanced = claimed[c] \/ fence # claimed[c]
    /\ (run[c].at = "release_original" /\ proof[c] /\ ~muddled[c]) =>
          ~(live /\ fence = claimed[c] /\ advanced = claimed[c])
    /\ (claimed[c] # 0 /\ advanced = claimed[c]) => run[c].at \in {"release_renewed", "release_original"} \union Over

RunInv(c) ==
    HoldsItsClaim(c) /\ WhereRunsGo(c) /\ Reports(c) /\ RowIsLocked(c) /\ LostForGood(c) /\ AfterCommit(c)

OnceInv ==
    /\ KeyInv /\ OnceTyped /\ ClaimsDiffer
    /\ effects \subseteq {done} \ {0}
    /\ \A c \in Users : RunInv(c)

\* The counters and the fields of runs.
LEMMA OnceTypes ==
    ASSUME OnceInv
    PROVE  /\ last \in Nat /\ fence \in Nat /\ live \in BOOLEAN /\ done \in Nat /\ done <= last /\ advanced \in Nat
           /\ advanced <= last /\ (fence # 0 => fence = last)
           /\ \A c \in Users :
                 /\ run[c] \in OnceRun /\ claimed[c] \in Nat /\ claimed[c] <= last /\ mine[c] \in Nat /\ mine[c] <= last
                 /\ RunInv(c)
  <1>1. /\ last \in Nat /\ fence \in Nat /\ live \in BOOLEAN
        /\ \A c \in Users : mine[c] \in Nat /\ mine[c] <= last
    BY RowTypes DEF OnceInv
  <1>2. fence # 0 => fence = last
    BY DEF OnceInv, KeyInv, RowIsLastGrant
  <1> QED
    BY <1>1, <1>2 DEF OnceInv, OnceTyped

\* At the start nobody has claimed anything.
LEMMA OnceInitInv == OnceInit => OnceInv
  <1> SUFFICES ASSUME OnceInit PROVE OnceInv
    OBVIOUS
  <1>1. 0 \in 0 .. MaxResets /\ KeyInv /\ last = 0 /\ 0 \in 0 .. last
    BY KeyInitInv, OnceAssumption DEF OnceInit, GuardedKeyInit, LockInit
  <1>2. [at |-> "idle", knows |-> "nothing", result |-> "none"] \in OnceRun
    BY DEF OnceRun, Places, Knowledge, Results
  <1>3. OnceTyped
    <2>1. run \in [Users -> OnceRun] /\ mode \in [Users -> {"plain", "atomic", "manual"}]
      BY <1>2 DEF OnceInit
    <2>2. done \in 0 .. last /\ advanced \in 0 .. last /\ resets \in 0 .. MaxResets /\ claimed \in [Users -> 0 .. last]
      BY <1>1 DEF OnceInit
    <2>3. recorded \in [Users -> BOOLEAN] /\ overtaken \in [Users -> BOOLEAN] /\ muddled \in [Users -> BOOLEAN]
      BY DEF OnceInit
    <2> QED
      BY <2>1, <2>2, <2>3 DEF OnceTyped
  <1>4. ClaimsDiffer /\ effects \subseteq {done} \ {0}
    BY DEF OnceInit, ClaimsDiffer
  <1>5. ASSUME NEW c \in Users
        PROVE  RunInv(c)
    <2>1. /\ run[c].at = "idle" /\ run[c].knows = "nothing" /\ run[c].result = "none" /\ mine[c] = 0 /\ claimed[c] = 0
          /\ ~beating[c] /\ ~overtaken[c]
      BY DEF OnceInit, GuardedKeyInit
    <2> QED
      BY <2>1 DEF RunInv, HoldsItsClaim, WhereRunsGo, Reports, RowIsLocked, LostForGood, AfterCommit, InTransaction, Over
  <1> QED
    BY <1>1, <1>3, <1>4, <1>5 DEF OnceInv

\* What another's step may do to the row, as run d sees it: time passes, a grant or a reset over a dead lease, the end
\* of a grant that is not its own, the commit of a transaction on a grant that is not its own.
RowMove(d) ==
    \/ Stays /\ advanced' = advanced
    \/ Grants /\ advanced' = advanced
    \/ rowlock = NoUser /\ ~live /\ fence' = 0 /\ ~live' /\ last' = last + 1 /\ advanced' = advanced
    \/ (\E f \in Nat : Frees(f) /\ (mine[d] = 0 \/ f # mine[d])) /\ advanced' = advanced
    \/ /\ last' = last /\ fence' = fence /\ fence # 0 /\ fence # claimed[d]
       /\ advanced' = fence

\* A run that takes no part in a step, but for what its heartbeat may lose.
LEMMA RunKept ==
    ASSUME OnceInv, KeyInv', NEW d \in Users,
           mine'[d] = mine[d] \/ (mine'[d] = 0 /\ ~Owns(d)), proof'[d] => proof[d], beating'[d] => beating[d],
           ~beating[d] => Untouched(d),
           run'[d] = run[d], mode'[d] = mode[d], claimed'[d] = claimed[d], recorded'[d] = recorded[d],
           muddled'[d] = muddled[d],
           overtaken'[d] => (overtaken[d] \/ (claimed'[d] # 0 /\ claimed'[d] < last' /\ run[d].at \notin {"ended", "stopped"})),
           RowMove(d), mine'[d] # 0 => mine[d] \notin orphans',
           run[d].at \in {"tx_mark", "limbo"} => rowlock' = rowlock,
           run[d].at = "limbo" => done' = 0
    PROVE  RunInv(d)'
  <1>0. /\ last \in Nat /\ fence \in Nat /\ live \in BOOLEAN /\ advanced \in Nat /\ advanced <= last
        /\ fence # 0 => fence = last
        /\ claimed[d] \in Nat /\ claimed[d] <= last /\ mine[d] \in Nat /\ mine[d] <= last
        /\ RunInv(d) /\ d # NoUser
    <2>1. d # NoUser
      BY GuardedKeyAssumption
    <2> QED
      BY <2>1, OnceTypes
  <1>1. last' >= last /\ last' \in Nat
    BY <1>0 DEF RowMove, Stays, Grants, Frees
  <1>2. HoldsItsClaim(d)'
    BY <1>0 DEF RunInv, HoldsItsClaim, Untouched, InTransaction, Over
  <1>3. WhereRunsGo(d)'
    BY <1>0 DEF RunInv, WhereRunsGo
  <1>4. Reports(d)'
    BY <1>0, <1>1 DEF RunInv, Reports
  <1>5. RowIsLocked(d)'
    <2>1. CASE run[d].at \in {"tx_mark", "limbo"}
      <3>1. rowlock = d /\ mine[d] # 0 /\ mine[d] = fence /\ mine[d] = claimed[d] /\ mine'[d] = mine[d]
        BY <1>0, <2>1 DEF RunInv, RowIsLocked, HoldsItsClaim, Untouched, InTransaction
      <3>2. fence' = fence
        BY <1>0, <3>1 DEF RowMove, Stays, Grants, Frees
      <3> QED
        BY <1>0, <2>1, <3>1, <3>2 DEF RunInv, RowIsLocked
    <2> QED
      BY <2>1 DEF RowIsLocked
  <1>6. LostForGood(d)'
    <2> SUFFICES ASSUME claimed[d] # 0, mine'[d] = 0, proof[d], live', fence' = claimed[d]
                 PROVE  FALSE
      BY DEF LostForGood
    <2>1. ~(live /\ fence = claimed[d])
      BY <1>0 DEF RunInv, LostForGood, HoldsItsClaim, Owns
    <2> QED
      BY <1>0, <2>1 DEF RowMove, Stays, Grants, Frees
  <1>7. AfterCommit(d)'
    <2>1. (run[d].at = "release_renewed" /\ run[d].knows = "marked") => advanced' = claimed[d] \/ fence' # claimed[d]
      <3> SUFFICES ASSUME run[d].at = "release_renewed", run[d].knows = "marked", fence' = claimed[d]
                   PROVE  advanced' = claimed[d]
        OBVIOUS
      <3>1. mine[d] # 0 /\ mine[d] = claimed[d]
        BY <1>0 DEF RunInv, HoldsItsClaim, InTransaction
      <3>2. advanced = claimed[d] \/ fence # claimed[d]
        BY <1>0 DEF RunInv, AfterCommit
      <3> QED
        BY <1>0, <3>1, <3>2 DEF RowMove, Stays, Grants, Frees
    <2>2. (run[d].at = "release_original" /\ proof'[d] /\ ~muddled[d]) =>
             ~(live' /\ fence' = claimed[d] /\ advanced' = claimed[d])
      <3> SUFFICES ASSUME run[d].at = "release_original", proof[d], ~muddled[d], live', fence' = claimed[d], advanced' = claimed[d]
                   PROVE  FALSE
        OBVIOUS
      <3>1. mine[d] # 0 /\ mine[d] = claimed[d]
        BY <1>0 DEF RunInv, HoldsItsClaim, InTransaction
      <3>2. ~(live /\ fence = claimed[d] /\ advanced = claimed[d])
        BY <1>0 DEF RunInv, AfterCommit
      <3> QED
        BY <1>0, <3>1, <3>2 DEF RowMove, Stays, Grants, Frees
    <2>3. (claimed[d] # 0 /\ advanced' = claimed[d]) => advanced = claimed[d]
      BY <1>0 DEF RowMove
    <2> QED
      BY <1>0, <2>1, <2>2, <2>3 DEF RunInv, AfterCommit
  <1> QED
    BY <1>2, <1>3, <1>4, <1>5, <1>6, <1>7 DEF RunInv

\* What a step of user c does to the row; its own grant is the only one it can end or renew.
RowOf(c) ==
    \/ Stays /\ advanced' = advanced
    \/ Grants /\ advanced' = advanced
    \/ Frees(mine[c]) /\ advanced' = advanced
    \/ /\ last' = last /\ fence' = fence /\ fence # 0 /\ mine[c] = fence
       /\ advanced' = fence

\* How it locks the row for its transaction, and unlocks it.
RowlockOf(c) ==
    \/ rowlock' = rowlock
    \/ rowlock = c /\ rowlock' = NoUser
    \/ Owns(c) /\ rowlock' = c

\* The types after a step of user c.
LEMMA OnceTypedStep ==
    ASSUME OnceInv, NEW c \in Users, NotesGrants, RowOf(c), mode' = mode, resets' = resets,
           NEW r \in OnceRun, run' = [run EXCEPT ![c] = r], done' \in {done, claimed[c]},
           claimed' = claimed \/ claimed' = [claimed EXCEPT ![c] = last'],
           recorded' = recorded \/ (\E v \in BOOLEAN : recorded' = [recorded EXCEPT ![c] = v]),
           muddled' = muddled \/ (\E v \in BOOLEAN : muddled' = [muddled EXCEPT ![c] = v])
    PROVE  OnceTyped'
  <1>0. OnceTyped
    BY DEF OnceInv
  <1>1. last' \in Nat /\ last' >= last /\ last \in Nat /\ advanced' \in Nat /\ advanced' <= last'
    BY OnceTypes DEF RowOf, Stays, Grants, Frees
  <1>2. /\ 0 .. last \subseteq 0 .. last' /\ last' \in 0 .. last' /\ advanced' \in 0 .. last'
        /\ claimed[c] \in 0 .. last /\ done \in 0 .. last
    BY <1>0, <1>1 DEF OnceTyped
  <1>3. claimed' \in [Users -> 0 .. last']
    BY <1>0, <1>2 DEF OnceTyped
  <1>4. overtaken' \in [Users -> BOOLEAN]
    BY DEF NotesGrants
  <1>5. recorded' \in [Users -> BOOLEAN] /\ muddled' \in [Users -> BOOLEAN]
    BY <1>0 DEF OnceTyped
  <1>6. run' \in [Users -> OnceRun] /\ mode' \in [Users -> {"plain", "atomic", "manual"}]
    BY <1>0 DEF OnceTyped
  <1>7. done' \in 0 .. last' /\ resets' \in 0 .. MaxResets
    BY <1>0, <1>2 DEF OnceTyped
  <1> QED
    BY <1>2, <1>3, <1>4, <1>5, <1>6, <1>7 DEF OnceTyped

\* A step of user c: what is left to show is its own run.
LEMMA OnceStep ==
    ASSUME OnceInv, NEW c \in Users, KeyInv', effects' \subseteq {done'} \ {0}, NotesGrants, resets' = resets,
           \A d \in Users : d # c => Untouched(d),
           NEW r \in OnceRun, run' = [run EXCEPT ![c] = r], mode' = mode,
           \/ claimed' = claimed
           \/ claimed' = [claimed EXCEPT ![c] = last'] /\ Grants,
           recorded' = recorded \/ (\E v \in BOOLEAN : recorded' = [recorded EXCEPT ![c] = v]),
           muddled' = muddled \/ (\E v \in BOOLEAN : muddled' = [muddled EXCEPT ![c] = v]),
           RowOf(c), RowlockOf(c), orphans' \subseteq orphans \union {mine[c]},
           done' = done \/ (done' = claimed[c] /\ \A d \in Users \ {c} : run[d].at # "limbo"),
           RunInv(c)'
    PROVE  OnceInv'
  <1>0. /\ KeyInv /\ OnceTyped /\ ClaimsDiffer /\ last \in Nat
        /\ \A d \in Users : /\ claimed[d] \in Nat /\ claimed[d] <= last /\ RunInv(d) /\ run[d] \in OnceRun
    BY OnceTypes DEF OnceInv
  <1>1. ASSUME NEW d \in Users, d # c
        PROVE  /\ run'[d] = run[d] /\ mode'[d] = mode[d] /\ claimed'[d] = claimed[d] /\ recorded'[d] = recorded[d]
               /\ muddled'[d] = muddled[d]
    BY <1>0, <1>1 DEF OnceTyped
  <1>2. ASSUME NEW d \in Users
        PROVE  overtaken'[d] => (overtaken[d] \/ (claimed'[d] # 0 /\ claimed'[d] < last' /\ run[d].at \notin {"ended", "stopped"}))
    BY DEF NotesGrants
  <1>3. mine[c] # 0 => mine[c] = claimed[c]
    BY <1>0 DEF RunInv, HoldsItsClaim
  <1>4. ASSUME NEW d \in Users, d # c
        PROVE  /\ mine[c] # 0 => mine[c] # mine[d] /\ mine[c] # claimed[d]
               /\ mine[d] # 0 => mine[d] \notin orphans'
    <2>1. mine[d] # 0 => mine[d] = claimed[d] /\ mine[d] \notin orphans
      BY <1>0 DEF RunInv, HoldsItsClaim
    <2>2. mine[c] # 0 => mine[c] # claimed[d]
      BY <1>0, <1>3, <1>4 DEF ClaimsDiffer
    <2> QED
      BY <2>1, <2>2
  <1>5. ASSUME NEW d \in Users, d # c
        PROVE  RunInv(d)'
    <2>1. RowMove(d)
      <3>1. mine[c] \in Nat
        BY OnceTypes
      <3>2. CASE Frees(mine[c]) /\ advanced' = advanced
        BY <1>4, <1>5, <3>1, <3>2 DEF RowMove, Frees
      <3> QED
        BY <1>4, <1>5, <3>2 DEF RowOf, RowMove
    <2>2. run[d].at \in {"tx_mark", "limbo"} => rowlock' = rowlock
      <3>1. run[d].at \in {"tx_mark", "limbo"} => rowlock = d /\ mine[d] # 0 /\ mine[d] = fence
        BY <1>0 DEF RunInv, RowIsLocked
      <3>2. Owns(c) => mine[c] = fence /\ mine[c] # 0
        BY DEF Owns
      <3> QED
        BY <1>4, <1>5, <3>1, <3>2 DEF RowlockOf
    <2>3. run[d].at = "limbo" => done' = 0
      BY <1>0, <1>5 DEF RunInv, RowIsLocked
    <2> QED
      BY <1>1, <1>2, <1>4, <1>5, <2>1, <2>2, <2>3, RunKept DEF Untouched
  <1>6. ClaimsDiffer'
    <2> SUFFICES ASSUME NEW x \in Users, NEW y \in Users, claimed'[x] # 0, claimed'[x] = claimed'[y], x # y
                 PROVE  FALSE
      BY DEF ClaimsDiffer
    <2>1. CASE claimed' = claimed
      BY <1>0, <2>1 DEF ClaimsDiffer
    <2>2. CASE claimed' = [claimed EXCEPT ![c] = last'] /\ Grants
      <3>1. last' = last + 1
        BY <2>2 DEF Grants
      <3>2. \A d \in Users : claimed'[d] = IF d = c THEN last + 1 ELSE claimed[d]
        BY <1>0, <2>2, <3>1 DEF OnceTyped
      <3>3. x # c /\ y # c
        BY <1>0, <3>2
      <3> QED
        BY <1>0, <3>2, <3>3 DEF ClaimsDiffer
    <2> QED
      BY <2>1, <2>2
  <1>7. OnceTyped'
    BY OnceTypedStep
  <1> QED
    BY <1>5, <1>6, <1>7 DEF OnceInv

\* A step of user c on the key, as its run sees it.
LEMMA OnceKeyStep ==
    ASSUME OnceInv, NEW c \in Users, KeyCall(c), rowlock' \in Users \union {NoUser}, advanced' = advanced
    PROVE  /\ KeyInv' /\ (\A d \in Users : d # c => Untouched(d))
           /\ RowOf(c) /\ orphans' \subseteq orphans \union {mine[c]}
           /\ last' >= last /\ last' \in Nat
  <1>1. /\ KeyInv' /\ (\A d \in Users : d # c => Untouched(d))
        /\ Stays \/ Grants \/ Frees(mine[c])
        /\ orphans' \subseteq orphans \union {mine[c]}
    BY KeyCallKeeps DEF OnceInv
  <1>2. last' >= last /\ last' \in Nat
    BY <1>1, OnceTypes DEF Stays, Grants, Frees
  <1> QED
    BY <1>1, <1>2 DEF RowOf

\* The end of a run.
LEMMA OnceEndStep ==
    ASSUME OnceInv, NEW c \in Users, KeyInv', effects' \subseteq {done'} \ {0}, NotesGrants, resets' = resets,
           \A d \in Users : d # c => Untouched(d),
           NEW r \in OnceRun, run' = [run EXCEPT ![c] = r], UNCHANGED <<mode, claimed>>,
           recorded' = recorded \/ (\E v \in BOOLEAN : recorded' = [recorded EXCEPT ![c] = v]),
           muddled' = muddled \/ (\E v \in BOOLEAN : muddled' = [muddled EXCEPT ![c] = v]),
           RowOf(c), RowlockOf(c), orphans' \subseteq orphans \union {mine[c]},
           done' = done \/ (done' = claimed[c] /\ \A d \in Users \ {c} : run[d].at # "limbo"),
           r.at \in Over, r.knows = "nothing", mine'[c] = 0, LostForGood(c)',
           r.result = "ran" => r.at = "ended" /\ recorded'[c] /\ Owns(c)
    PROVE  OnceInv'
  <1>0. /\ run'[c] = r /\ claimed[c] \in Nat /\ last \in Nat /\ RunInv(c) /\ claimed'[c] = claimed[c] /\ fence \in Nat
        /\ fence # 0 => fence = last
    <2>1. run'[c] = r /\ claimed'[c] = claimed[c]
      BY DEF OnceInv, OnceTyped
    <2> QED
      BY <2>1, OnceTypes
  <1>1. last' >= last /\ last' \in Nat
    BY <1>0, OnceTypes DEF RowOf, Stays, Grants, Frees
  <1>2. overtaken'[c] => (overtaken[c] \/ (claimed[c] # 0 /\ claimed[c] < last'))
    BY <1>0 DEF NotesGrants
  <1>3. HoldsItsClaim(c)' /\ WhereRunsGo(c)' /\ RowIsLocked(c)' /\ AfterCommit(c)'
    BY <1>0 DEF HoldsItsClaim, WhereRunsGo, RowIsLocked, AfterCommit, InTransaction, Over
  <1>4. Reports(c)'
    <2>1. overtaken'[c] => claimed[c] # 0 /\ claimed[c] < last'
      BY <1>0, <1>1, <1>2 DEF RunInv, Reports
    <2>2. Owns(c) => ~overtaken'[c]
      <3> SUFFICES ASSUME Owns(c), overtaken'[c] PROVE FALSE
        OBVIOUS
      <3>1. claimed[c] = last /\ live
        BY <1>0 DEF Owns, RunInv, HoldsItsClaim
      <3>2. last' = last
        BY <3>1 DEF RowOf, Stays, Grants, Frees
      <3> QED
        BY <1>0, <2>1, <3>1, <3>2
    <2> QED
      BY <1>0, <2>1, <2>2 DEF Reports
  <1>5. RunInv(c)'
    BY <1>3, <1>4 DEF RunInv
  <1>6. claimed' = claimed /\ mode' = mode
    OBVIOUS
  <1> QED
    BY <1>5, <1>6, OnceStep

\* A step within a run, outside of a transaction.
LEMMA OnceLocalStep ==
    ASSUME OnceInv, NEW c \in Users, UNCHANGED <<keyVars, mode, markVars, claimed, muddled>>, NotesGrants,
           NEW r \in OnceRun, run' = [run EXCEPT ![c] = r],
           r.result # "ran", r.knows = "marked" => run[c].knows = "marked",
           r.at \in {"running", "completing"} => mode[c] = "plain",
           r.at = "live_check" => mode[c] # "manual",
           \/ run[c].at \in {"idle", "claiming", "refused"} /\ r.at \in {"claiming", "refused", "ended"}
           \/ /\ run[c].at \notin {"release_renewed", "release_original", "ended", "stopped"}
              /\ r.at \in {"live_check", "running", "completing", "tx_running", "release", "manual"}
    PROVE  OnceInv'
  <1>0. /\ run'[c] = r /\ claimed[c] \in Nat /\ last \in Nat /\ RunInv(c) /\ KeyInv /\ effects \subseteq {done} \ {0}
        /\ rowlock \in Users \union {NoUser}
    <2>1. run'[c] = r /\ KeyInv /\ effects \subseteq {done} \ {0}
      BY DEF OnceInv, OnceTyped
    <2> QED
      BY <2>1, OnceTypes DEF KeyInv, GuardedKeyTypeOK
  <1>1. /\ KeyCall(c) /\ rowlock' = rowlock
        /\ done' = done /\ advanced' = advanced /\ resets' = resets /\ effects' = effects /\ recorded' = recorded
        /\ mode' = mode /\ claimed' = claimed /\ muddled' = muddled
        /\ last' = last /\ fence' = fence /\ live' = live
        /\ mine' = mine /\ proof' = proof /\ beating' = beating /\ orphans' = orphans
    BY DEF keyVars, KeyCall, lockVars, claimVars, markVars
  <1>2. overtaken'[c] => (overtaken[c] \/ (claimed[c] # 0 /\ claimed[c] < last))
    BY <1>1 DEF NotesGrants
  <1>3. HoldsItsClaim(c)'
    BY <1>0, <1>1 DEF RunInv, HoldsItsClaim, InTransaction, Over
  <1>4. WhereRunsGo(c)' /\ RowIsLocked(c)' /\ LostForGood(c)'
    BY <1>0, <1>1 DEF RunInv, WhereRunsGo, RowIsLocked, LostForGood
  <1>5. Reports(c)'
    BY <1>0, <1>1, <1>2 DEF RunInv, Reports
  <1>6. AfterCommit(c)'
    BY <1>0, <1>1 DEF RunInv, AfterCommit, Over
  <1>7. RunInv(c)'
    BY <1>3, <1>4, <1>5, <1>6 DEF RunInv
  <1>8. /\ KeyInv' /\ (\A d \in Users : d # c => Untouched(d)) /\ RowOf(c) /\ orphans' \subseteq orphans \union {mine[c]}
    BY <1>0, <1>1, OnceKeyStep
  <1>9. RowlockOf(c) /\ effects' \subseteq {done'} \ {0}
    BY <1>0, <1>1 DEF RowlockOf
  <1> QED
    BY <1>1, <1>7, <1>8, <1>9, OnceStep

\* What is known of a run.
LEMMA RunFacts ==
    ASSUME OnceInv, NEW c \in Users
    PROVE  /\ run[c] \in OnceRun /\ RunInv(c)
           /\ run[c].at # "ended" => run[c].result # "ran"
           /\ run[c].at \in {"idle", "claiming", "refused"} => claimed[c] = 0 /\ mine[c] = 0 /\ ~beating[c]
           /\ mine[c] # 0 => mine[c] = claimed[c]
           /\ Owns(c) => mine[c] = last /\ claimed[c] = last /\ fence = last /\ last # 0
  <1>1. run[c] \in OnceRun /\ RunInv(c) /\ claimed[c] \in Nat /\ (fence # 0 => fence = last)
    BY OnceTypes
  <1>2. run[c].at # "ended" => run[c].result # "ran"
    BY <1>1 DEF RunInv, Reports
  <1>3. mine[c] # 0 => mine[c] = claimed[c]
    BY <1>1 DEF RunInv, HoldsItsClaim
  <1>4. run[c].at \in {"idle", "claiming", "refused"} => claimed[c] = 0 /\ mine[c] = 0 /\ ~beating[c]
    BY <1>1, <1>3 DEF RunInv, HoldsItsClaim
  <1>5. Owns(c) => mine[c] = last /\ claimed[c] = last /\ fence = last /\ last # 0
    BY <1>1, <1>3 DEF Owns
  <1> QED
    BY <1>1, <1>2, <1>3, <1>4, <1>5

\* The records of runs that a step makes.
LEMMA GotoRecord ==
    ASSUME OnceInv, NEW c \in Users, NEW place \in Places, Goto(c, place)
    PROVE  \E r \in OnceRun : /\ run' = [run EXCEPT ![c] = r]
                              /\ r.at = place /\ r.knows = run[c].knows /\ r.result = run[c].result
  <1> DEFINE s == [run[c] EXCEPT !.at = place]
  <1>1. s \in OnceRun /\ s.at = place /\ s.knows = run[c].knows /\ s.result = run[c].result
    BY OnceTypes DEF OnceRun
  <1>2. run' = [run EXCEPT ![c] = s]
    BY DEF Goto
  <1> HIDE DEF s
  <1> QED
    BY <1>1, <1>2

\* A run that goes on with what it found out about the claim.
LEMMA GotoKnowingRecord ==
    ASSUME OnceInv, NEW c \in Users, NEW place \in Places, NEW what \in Knowledge, GotoKnowing(c, place, what)
    PROVE  \E r \in OnceRun : /\ run' = [run EXCEPT ![c] = r]
                              /\ r.at = place /\ r.knows = what /\ r.result = run[c].result
  <1> DEFINE s == [run[c] EXCEPT !.at = place, !.knows = what]
  <1>1. s \in OnceRun /\ s.at = place /\ s.knows = what /\ s.result = run[c].result
    BY OnceTypes DEF OnceRun
  <1>2. run' = [run EXCEPT ![c] = s]
    BY DEF GotoKnowing
  <1> HIDE DEF s
  <1> QED
    BY <1>1, <1>2

\* A run that returns to its caller.
LEMMA ReturnsRecord ==
    ASSUME NEW c, NEW value \in Results, Returns(c, value)
    PROVE  \E r \in OnceRun : /\ run' = [run EXCEPT ![c] = r]
                              /\ r.at = "ended" /\ r.knows = "nothing" /\ r.result = value
  <1> DEFINE s == [at |-> "ended", knows |-> "nothing", result |-> value]
  <1>1. s \in OnceRun /\ s.at = "ended" /\ s.knows = "nothing" /\ s.result = value
    BY DEF OnceRun, Places, Knowledge
  <1>2. run' = [run EXCEPT ![c] = s]
    BY DEF Returns
  <1> HIDE DEF s
  <1> QED
    BY <1>1, <1>2

\* The steps of a run outside of its transactions that only look.
LEMMA OnceMovesKeep ==
    ASSUME OnceInv, NEW c \in Users, NotesGrants,
           \/ CheckDone(c) \/ ClaimIsHeld(c) \/ CheckDoneAfterRefusal(c) \/ CheckDoneUnderClaim(c) \/ LiveCheck(c)
           \/ TaskFails(c) \/ TaskSucceeds(c) \/ ReleaseWithoutMarking(c)
    PROVE  OnceInv'
  <1>0. UNCHANGED <<keyVars, mode, markVars, claimed, muddled>>
    BY Zenon DEF CheckDone, ClaimIsHeld, CheckDoneAfterRefusal, CheckDoneUnderClaim, LiveCheck, TaskFails, TaskSucceeds,
           ReleaseWithoutMarking, ClaimRefused
  <1>1. ASSUME run[c].at \in {"idle", "claiming", "refused"}, NEW place \in {"claiming", "refused"}, Goto(c, place)
        PROVE  OnceInv'
    <2>1. PICK r \in OnceRun : /\ run' = [run EXCEPT ![c] = r]
                              /\ r.at = place /\ r.knows = run[c].knows /\ r.result = run[c].result
      BY <1>1, GotoRecord DEF Places
    <2>2. r.result # "ran"
      BY <1>1, <2>1, RunFacts
    <2> QED
      BY <1>0, <1>1, <2>1, <2>2, OnceLocalStep
  <1>2. ASSUME run[c].at \in {"idle", "claiming", "refused"}, NEW value \in Results \ {"ran"}, Returns(c, value)
        PROVE  OnceInv'
    <2>1. PICK r \in OnceRun : /\ run' = [run EXCEPT ![c] = r]
                              /\ r.at = "ended" /\ r.knows = "nothing" /\ r.result = value
      BY <1>2, ReturnsRecord
    <2> QED
      BY <1>0, <1>2, <2>1, OnceLocalStep
  <1>3. ASSUME run[c].at \in {"claimed", "live_check", "running", "tx_running", "manual"},
               NEW place \in {"live_check", "running", "completing", "tx_running", "manual"}, Goto(c, place),
               place \in {"running", "completing"} => mode[c] = "plain", place = "live_check" => mode[c] # "manual"
        PROVE  OnceInv'
    <2>1. PICK r \in OnceRun : /\ run' = [run EXCEPT ![c] = r]
                              /\ r.at = place /\ r.knows = run[c].knows /\ r.result = run[c].result
      BY <1>3, GotoRecord DEF Places
    <2>2. r.result # "ran"
      BY <1>3, <2>1, RunFacts
    <2> QED
      BY <1>0, <1>3, <2>1, <2>2, OnceLocalStep
  <1>4. ASSUME run[c].at \in {"claimed", "live_check", "running", "tx_running", "manual"},
               NEW what \in {"done_before", "task_failed", "lost"}, GotoKnowing(c, "release", what)
        PROVE  OnceInv'
    <2>1. PICK r \in OnceRun : /\ run' = [run EXCEPT ![c] = r]
                              /\ r.at = "release" /\ r.knows = what /\ r.result = run[c].result
      BY <1>4, GotoKnowingRecord DEF Places, Knowledge
    <2>2. r.result # "ran"
      BY <1>4, <2>1, RunFacts
    <2> QED
      BY <1>0, <1>4, <2>1, <2>2, OnceLocalStep
  <1>5. CASE CheckDone(c)
    BY <1>1, <1>2, <1>5 DEF CheckDone, At, Results
  <1>6. CASE ClaimIsHeld(c)
    BY <1>1, <1>2, <1>6 DEF ClaimIsHeld, At, Results
  <1>7. CASE CheckDoneAfterRefusal(c)
    BY <1>2, <1>7 DEF CheckDoneAfterRefusal, At, Results
  <1>8. CASE CheckDoneUnderClaim(c)
    BY <1>3, <1>4, <1>8 DEF CheckDoneUnderClaim, At
  <1>9. CASE LiveCheck(c)
    <2>1. run[c].at = "live_check" /\ mode[c] # "manual" /\ mode[c] \in {"plain", "atomic", "manual"}
      BY <1>9, RunFacts DEF LiveCheck, At, RunInv, WhereRunsGo, OnceInv, OnceTyped
    <2> QED
      BY <1>3, <1>4, <1>9, <2>1 DEF LiveCheck
  <1>10. CASE TaskFails(c)
    BY <1>4, <1>10 DEF TaskFails, At
  <1>11. CASE TaskSucceeds(c)
    <2>1. run[c].at = "running" /\ mode[c] = "plain"
      BY <1>11, RunFacts DEF TaskSucceeds, At, RunInv, WhereRunsGo
    <2> QED
      BY <1>3, <1>4, <1>11, <2>1 DEF TaskSucceeds
  <1>12. CASE ReleaseWithoutMarking(c)
    BY <1>4, <1>12 DEF ReleaseWithoutMarking, At
  <1> QED
    BY <1>5, <1>6, <1>7, <1>8, <1>9, <1>10, <1>11, <1>12

\* The completion marker: only the first to write it records it.
LEMMA MarkFacts ==
    ASSUME OnceInv, NEW c \in Users, Marks(c) \/ UNCHANGED <<done, recorded>>
    PROVE  /\ effects \subseteq {done'} \ {0}
           /\ recorded' = recorded \/ (\E v \in BOOLEAN : recorded' = [recorded EXCEPT ![c] = v])
           /\ done' = done \/ (done' = claimed[c] /\ \A d \in Users \ {c} : run[d].at # "limbo")
           /\ (Marks(c) /\ done = 0) => recorded'[c]
           /\ recorded[c] => recorded'[c]
           /\ (recorded'[c] /\ ~recorded[c]) => done = 0
           /\ done # 0 => done' = done
  <1>1. recorded \in [Users -> BOOLEAN] /\ effects \subseteq {done} \ {0}
    BY DEF OnceInv, OnceTyped
  <1>2. CASE UNCHANGED <<done, recorded>>
    <2>1. ~(Marks(c) /\ done = 0) \/ recorded'[c]
      BY <1>1 DEF Marks
    <2> QED
      BY <1>1, <1>2, <2>1
  <1>3. CASE Marks(c)
    <2>1. PICK v \in BOOLEAN : v = (recorded[c] \/ done = 0)
      OBVIOUS
    <2>2. recorded' = [recorded EXCEPT ![c] = v]
      BY <1>3, <2>1 DEF Marks
    <2>3. recorded'[c] = v
      BY <1>1, <2>2
    <2>4. done' = (IF done = 0 THEN claimed[c] ELSE done) /\ \A d \in Users \ {c} : run[d].at # "limbo"
      BY <1>3 DEF Marks, At
    <2> QED
      BY <1>1, <2>1, <2>2, <2>3, <2>4
  <1> QED
    BY <1>2, <1>3

\* The end of a run in one call on its key.
LEMMA OnceKeyEnd ==
    ASSUME OnceInv, NEW c \in Users, KeyCall(c), NotesGrants,
           UNCHANGED <<mode, advanced, resets, effects, claimed>>, RowlockOf(c), Marks(c) \/ UNCHANGED <<done, recorded>>,
           muddled' = muddled \/ Muddles(c),
           NEW value \in Results, Returns(c, value),
           mine'[c] = 0, claimed[c] # 0 => ~proof'[c],
           value = "ran" => recorded'[c] /\ Owns(c)
    PROVE  OnceInv'
  <1>1. PICK r \in OnceRun : /\ run' = [run EXCEPT ![c] = r]
                            /\ r.at = "ended" /\ r.knows = "nothing" /\ r.result = value
    BY ReturnsRecord
  <1>2. rowlock' \in Users \union {NoUser}
    BY DEF RowlockOf, OnceInv, KeyInv, GuardedKeyTypeOK
  <1>3. /\ KeyInv' /\ (\A d \in Users : d # c => Untouched(d)) /\ RowOf(c) /\ orphans' \subseteq orphans \union {mine[c]}
    BY <1>2, OnceKeyStep
  <1>4. /\ effects' \subseteq {done'} \ {0}
        /\ recorded' = recorded \/ (\E v \in BOOLEAN : recorded' = [recorded EXCEPT ![c] = v])
        /\ done' = done \/ (done' = claimed[c] /\ \A d \in Users \ {c} : run[d].at # "limbo")
    BY MarkFacts
  <1>5. muddled' = muddled \/ (\E v \in BOOLEAN : muddled' = [muddled EXCEPT ![c] = v])
    BY DEF Muddles
  <1>6. LostForGood(c)'
    BY DEF LostForGood
  <1>7. UNCHANGED <<mode, claimed>> /\ resets' = resets /\ r.at \in Over
    BY <1>1 DEF Over
  <1> QED
    BY <1>1, <1>3, <1>4, <1>5, <1>6, <1>7, OnceEndStep

\* What Forget, and the calls made of it, leave of a guard.
LEMMA Forgotten ==
    ASSUME OnceInv, NEW c \in Users, Forget(c)
    PROVE  mine'[c] = 0 /\ ~proof'[c] /\ ~beating'[c]
  BY DEF Forget, StopHeartbeat, OnceInv, KeyInv, GuardedKeyTypeOK

\* The steps that end a run: a failed check, a claim that fails, and every release.
LEMMA OnceEndsKeep ==
    ASSUME OnceInv, NEW c \in Users, NotesGrants,
           \/ CheckDoneFails(c) \/ ClaimFails(c) \/ ReleaseAfterRun(c) \/ TransactionFails(c) \/ ReleaseOriginal(c)
           \/ MarkDoneAndRelease(c) \/ MarkDoneErrs(c)
    PROVE  OnceInv'
  <1>1. CASE CheckDoneFails(c)
    <2>1. /\ ProcessStops(c) \/ GuardDropped(c)
          /\ Returns(c, "failed") /\ Muddles(c)
          /\ UNCHANGED <<rowlock, mode, markVars, claimed>>
      BY <1>1 DEF CheckDoneFails
    <2>2. KeyCall(c) /\ Forget(c)
      BY <2>1 DEF KeyCall, ProcessStops, GuardDropped
    <2>3. RowlockOf(c) /\ UNCHANGED <<mode, advanced, resets, effects, claimed>> /\ UNCHANGED <<done, recorded>>
      BY <2>1 DEF RowlockOf, markVars
    <2> QED
      BY <2>1, <2>2, <2>3, Forgotten, OnceKeyEnd DEF Results
  <1>2. CASE ClaimFails(c)
    <2>1. /\ run[c].at = "claiming" /\ ClaimErrs /\ Returns(c, "failed")
          /\ UNCHANGED <<rowlock, mode, markVars, claimed, muddled>>
      BY <1>2 DEF ClaimFails, At
    <2>2. KeyCall(c) /\ mine'[c] = 0 /\ claimed[c] = 0
      BY <2>1, RunFacts DEF KeyCall, ClaimErrs, claimVars
    <2>3. RowlockOf(c) /\ UNCHANGED <<mode, advanced, resets, effects, claimed>> /\ UNCHANGED <<done, recorded>>
      BY <2>1 DEF RowlockOf, markVars
    <2> QED
      BY <2>1, <2>2, <2>3, OnceKeyEnd DEF Results
  <1>3. CASE ReleaseAfterRun(c)
    <2>1. PICK answer \in ReleaseAnswers :
             /\ GuardRelease(c, mode[c] # "manual", answer)
             /\ Returns(c, RunResult(c, answer))
             /\ muddled' = muddled \/ Muddles(c)
             /\ UNCHANGED <<rowlock, mode, markVars, claimed>>
      BY <1>3 DEF ReleaseAfterRun
    <2>2. KeyCall(c) /\ Forget(c)
      BY <2>1 DEF KeyCall, GuardRelease
    <2>3. RowlockOf(c) /\ UNCHANGED <<mode, advanced, resets, effects, claimed>> /\ UNCHANGED <<done, recorded>>
      BY <2>1 DEF RowlockOf, markVars
    <2>4. RunResult(c, answer) \in Results
      BY DEF RunResult, Results
    <2>5. RunResult(c, answer) = "ran" => recorded'[c] /\ Owns(c)
      <3> SUFFICES ASSUME RunResult(c, answer) = "ran" PROVE recorded'[c] /\ Owns(c)
        OBVIOUS
      <3>1. answer = "released" /\ run[c].knows = "marked"
        BY DEF RunResult
      <3>2. recorded[c]
        BY <3>1, RunFacts DEF RunInv, Reports
      <3> QED
        BY <2>1, <2>3, <3>1, <3>2 DEF GuardRelease
    <2> QED
      BY <2>1, <2>2, <2>3, <2>4, <2>5, Forgotten, OnceKeyEnd
  <1>4. CASE TransactionFails(c)
    <2>1. /\ rowlock' = (IF rowlock = c THEN NoUser ELSE rowlock) /\ ProcessStops(c) /\ Returns(c, "failed") /\ Muddles(c)
          /\ UNCHANGED <<mode, markVars, claimed>>
      BY <1>4 DEF TransactionFails
    <2>2. KeyCall(c) /\ Forget(c)
      BY <2>1 DEF KeyCall, ProcessStops
    <2>3. RowlockOf(c) /\ UNCHANGED <<mode, advanced, resets, effects, claimed>> /\ UNCHANGED <<done, recorded>>
      BY <2>1 DEF RowlockOf, markVars
    <2> QED
      BY <2>1, <2>2, <2>3, Forgotten, OnceKeyEnd DEF Results
  <1>5. CASE ReleaseOriginal(c)
    <2>1. /\ (Owns(c) /\ Release) \/ UNCHANGED lockVars
          /\ Forget(c) /\ Returns(c, "failed") /\ UNCHANGED <<rowlock, orphans, mode, markVars, claimed, muddled>>
      BY <1>5 DEF ReleaseOriginal
    <2>2. KeyCall(c)
      BY <2>1 DEF KeyCall, ProcessStops, GuardRelease, ReleaseAnswers
    <2>3. RowlockOf(c) /\ UNCHANGED <<mode, advanced, resets, effects, claimed>> /\ UNCHANGED <<done, recorded>>
      BY <2>1 DEF RowlockOf, markVars
    <2> QED
      BY <2>1, <2>2, <2>3, Forgotten, OnceKeyEnd DEF Results
  <1>6. CASE MarkDoneAndRelease(c)
    <2>1. /\ \/ Owns(c) /\ Release /\ Marks(c) /\ Returns(c, IF done = 0 THEN "ran" ELSE "already_done")
             \/ UNCHANGED <<lockVars, done, recorded>> /\ Returns(c, "failed")
          /\ Forget(c) /\ UNCHANGED <<rowlock, orphans, mode, advanced, resets, effects, claimed, muddled>>
      BY <1>6 DEF MarkDoneAndRelease
    <2>2. KeyCall(c)
      BY <2>1 DEF KeyCall, ProcessStops, GuardRelease, ReleaseAnswers
    <2>3. RowlockOf(c) /\ UNCHANGED <<mode, advanced, resets, effects, claimed>>
      BY <2>1 DEF RowlockOf
    <2>4. PICK value \in Results :
             /\ Returns(c, value)
             /\ \/ Owns(c) /\ Marks(c) /\ (value = "ran" => done = 0)
                \/ UNCHANGED <<done, recorded>> /\ value # "ran"
      BY <2>1 DEF Results
    <2>5. value = "ran" => recorded'[c] /\ Owns(c)
      BY <2>4, MarkFacts
    <2> QED
      BY <2>1, <2>2, <2>3, <2>4, <2>5, Forgotten, OnceKeyEnd
  <1>7. CASE MarkDoneErrs(c)
    <2>1. /\ (Owns(c) /\ Release /\ Marks(c)) \/ UNCHANGED <<lockVars, done, recorded>>
          /\ Forget(c) /\ Returns(c, "failed") /\ Muddles(c)
          /\ UNCHANGED <<rowlock, orphans, mode, advanced, resets, effects, claimed>>
      BY <1>7 DEF MarkDoneErrs
    <2>2. KeyCall(c)
      BY <2>1 DEF KeyCall, ProcessStops, GuardRelease, ReleaseAnswers
    <2>3. RowlockOf(c) /\ UNCHANGED <<mode, advanced, resets, effects, claimed>> /\ (Marks(c) \/ UNCHANGED <<done, recorded>>)
      BY <2>1 DEF RowlockOf
    <2> QED
      BY <2>1, <2>2, <2>3, Forgotten, OnceKeyEnd DEF Results
  <1> QED
    BY <1>1, <1>2, <1>3, <1>4, <1>5, <1>6, <1>7

\* A step of user c within a run that has stopped its heartbeat and holds its claim.
LEMMA OnceTxStep ==
    ASSUME OnceInv, NEW c \in Users, NotesGrants, effects' \subseteq {done'} \ {0},
           UNCHANGED <<mode, claimed, mine, proof, lost, orphans, ghosts, resets>>,
           beating' = beating \/ StopHeartbeat(c), ~beating'[c],
           RowOf(c), last' = last, live' \in BOOLEAN, RowlockOf(c),
           recorded' = recorded \/ (\E v \in BOOLEAN : recorded' = [recorded EXCEPT ![c] = v]),
           muddled' = muddled \/ (\E v \in BOOLEAN : muddled' = [muddled EXCEPT ![c] = v]),
           done' = done \/ (done' = claimed[c] /\ \A d \in Users \ {c} : run[d].at # "limbo"),
           NEW r \in OnceRun, run' = [run EXCEPT ![c] = r],
           mine[c] # 0, r.at \in InTransaction, r.result # "ran", r.knows = "marked" => recorded'[c],
           r.at \in {"tx_mark", "limbo"} => rowlock' = c /\ mine[c] = fence',
           r.at = "limbo" => done' = 0 /\ r.knows # "marked",
           AfterCommit(c)'
    PROVE  OnceInv'
  <1>0. /\ run'[c] = r /\ claimed[c] \in Nat /\ last \in Nat /\ RunInv(c) /\ KeyInv /\ GuardedKeyTypeOK
        /\ live \in BOOLEAN /\ fence \in Nat /\ mine[c] \in Nat /\ (fence # 0 => fence = last)
    <2>1. run'[c] = r /\ KeyInv /\ GuardedKeyTypeOK
      BY DEF OnceInv, OnceTyped, KeyInv
    <2> QED
      BY <2>1, OnceTypes
  <1>1. KeyInv'
    <2>1. RowIsLastGrant' /\ fence' \in 0 .. last'
      BY <1>0 DEF KeyInv, RowIsLastGrant, RowOf, Stays, Grants, Frees
    <2>2. rowlock' \in Users \union {NoUser}
      BY <1>0 DEF RowlockOf, GuardedKeyTypeOK
    <2>3. beating' \in [Users -> BOOLEAN]
      BY <1>0 DEF StopHeartbeat, GuardedKeyTypeOK
    <2>4. mine' \in [Users -> 0 .. last'] /\ orphans' \subseteq 1 .. last'
      BY <1>0 DEF GuardedKeyTypeOK
    <2> QED
      BY <1>0, <2>1, <2>2, <2>3, <2>4 DEF KeyInv, GuardedKeyTypeOK
  <1>2. \A d \in Users : d # c => Untouched(d)
    BY <1>0 DEF Untouched, StopHeartbeat, GuardedKeyTypeOK
  <1>3. overtaken'[c] => (overtaken[c] \/ (claimed[c] # 0 /\ claimed[c] < last))
    BY DEF NotesGrants
  <1>4. HoldsItsClaim(c)'
    BY <1>0 DEF RunInv, HoldsItsClaim, InTransaction, Over
  <1>5. WhereRunsGo(c)' /\ RowIsLocked(c)' /\ LostForGood(c)'
    BY <1>0 DEF WhereRunsGo, RowIsLocked, LostForGood, InTransaction
  <1>6. Reports(c)'
    BY <1>0, <1>3 DEF RunInv, Reports
  <1>7. RunInv(c)'
    BY <1>4, <1>5, <1>6 DEF RunInv
  <1>8. mode' = mode /\ claimed' = claimed /\ resets' = resets /\ orphans' \subseteq orphans \union {mine[c]}
    OBVIOUS
  <1> QED
    BY <1>1, <1>2, <1>7, <1>8, OnceStep

\* What the commit of a transaction makes of the row, the marker and the effects.
LEMMA CommitFacts ==
    ASSUME OnceInv, NEW c \in Users, run[c].at \in {"tx_mark", "limbo"}, done = 0, Committed(c)
    PROVE  /\ RowOf(c) /\ last' = last /\ live' \in BOOLEAN /\ RowlockOf(c) /\ rowlock' = NoUser /\ resets' = resets
           /\ advanced' = claimed[c] /\ claimed[c] # 0
           /\ recorded'[c] /\ effects' \subseteq {done'} \ {0}
           /\ recorded' = recorded \/ (\E v \in BOOLEAN : recorded' = [recorded EXCEPT ![c] = v])
           /\ done' = done \/ (done' = claimed[c] /\ \A d \in Users \ {c} : run[d].at # "limbo")
  <1>1. rowlock = c /\ mine[c] # 0 /\ mine[c] = fence /\ mine[c] = claimed[c]
    BY RunFacts DEF RunInv, RowIsLocked
  <1>2. /\ rowlock' = NoUser /\ live' = TRUE /\ advanced' = claimed[c] /\ Marks(c)
        /\ effects' = effects \union {claimed[c]} /\ fence' = fence /\ last' = last /\ resets' = resets
    BY DEF Committed
  <1>3. effects = {} /\ done' = claimed[c]
    BY <1>2 DEF OnceInv, Marks
  <1>4. /\ recorded'[c] /\ (recorded' = recorded \/ (\E v \in BOOLEAN : recorded' = [recorded EXCEPT ![c] = v]))
        /\ done' = done \/ (done' = claimed[c] /\ \A d \in Users \ {c} : run[d].at # "limbo")
    BY <1>2, MarkFacts
  <1> QED
    BY <1>1, <1>2, <1>3, <1>4 DEF RowOf, RowlockOf

\* A claim that is granted to a run.
LEMMA ClaimForRunKeeps ==
    ASSUME OnceInv, NEW c \in Users, NotesGrants, ClaimForRun(c)
    PROVE  OnceInv'
  <1>1. /\ run[c].at = "claiming" /\ ClaimGranted(c, mode[c] # "manual") /\ Goto(c, "claimed")
        /\ claimed' = [claimed EXCEPT ![c] = last'] /\ UNCHANGED <<rowlock, mode, markVars, muddled>>
    BY DEF ClaimForRun, At
  <1>2. PICK r \in OnceRun : /\ run' = [run EXCEPT ![c] = r]
                            /\ r.at = "claimed" /\ r.knows = run[c].knows /\ r.result = run[c].result
    BY <1>1, GotoRecord DEF Places
  <1>3. KeyCall(c) /\ Grants /\ rowlock' \in Users \union {NoUser} /\ advanced' = advanced
    <2>1. ClaimGranted(c, TRUE) \/ ClaimGranted(c, FALSE)
      BY <1>1
    <2>2. Grants
      BY <1>1, NewGrantGrants DEF ClaimGranted, OnceInv
    <2> QED
      BY <1>1, <2>1, <2>2 DEF KeyCall, OnceInv, KeyInv, GuardedKeyTypeOK, markVars
  <1>4. /\ KeyInv' /\ (\A d \in Users : d # c => Untouched(d))
        /\ RowOf(c) /\ orphans' \subseteq orphans \union {mine[c]}
    BY <1>3, OnceKeyStep
  <1>5. /\ last \in Nat /\ last' = last + 1 /\ last' \notin orphans /\ advanced <= last /\ advanced \in Nat
        /\ claimed[c] = 0 /\ RunInv(c) /\ run[c].result # "ran"
    <2>1. last \in Nat /\ last' = last + 1 /\ advanced <= last /\ advanced \in Nat
      BY <1>3, OnceTypes DEF Grants
    <2>2. last' \notin orphans
      BY <2>1, RowTypes DEF OnceInv
    <2> QED
      BY <1>1, <2>1, <2>2, RunFacts
  <1>6. /\ run'[c] = r /\ mine'[c] = last' /\ claimed'[c] = last' /\ orphans' = orphans
        /\ recorded' = recorded /\ muddled' = muddled /\ advanced' = advanced /\ done' = done /\ effects' = effects
        /\ mode' = mode /\ resets' = resets /\ rowlock' = rowlock
    <2>1. mine'[c] = last' /\ orphans' = orphans
      BY <1>1 DEF ClaimGranted, OnceInv, KeyInv, GuardedKeyTypeOK
    <2> QED
      BY <1>1, <1>2, <2>1 DEF OnceInv, OnceTyped, markVars
  <1>7. ~overtaken'[c]
    <2>1. ~overtaken[c]
      BY <1>5 DEF RunInv, Reports
    <2> QED
      BY <1>5, <1>6, <2>1 DEF NotesGrants
  <1>8. HoldsItsClaim(c)'
    BY <1>2, <1>5, <1>6 DEF HoldsItsClaim, InTransaction, Over
  <1>9. WhereRunsGo(c)' /\ RowIsLocked(c)' /\ LostForGood(c)'
    BY <1>2, <1>5, <1>6 DEF WhereRunsGo, RowIsLocked, LostForGood
  <1>10. Reports(c)'
    BY <1>2, <1>5, <1>6, <1>7 DEF RunInv, Reports
  <1>11. AfterCommit(c)'
    BY <1>2, <1>5, <1>6 DEF AfterCommit
  <1>12. RunInv(c)'
    BY <1>8, <1>9, <1>10, <1>11 DEF RunInv
  <1>13. RowlockOf(c) /\ effects' \subseteq {done'} \ {0}
    BY <1>6 DEF RowlockOf, OnceInv
  <1> QED
    BY <1>1, <1>2, <1>3, <1>4, <1>6, <1>12, <1>13, OnceStep

\* A plain run that writes its completion marker.
LEMMA MarkCompletionKeeps ==
    ASSUME OnceInv, NEW c \in Users, NotesGrants, MarkCompletion(c)
    PROVE  OnceInv'
  <1>1. /\ run[c].at = "completing" /\ (Marks(c) \/ UNCHANGED <<done, recorded>>)
        /\ UNCHANGED <<keyVars, mode, advanced, resets, effects, claimed, muddled>>
    BY DEF MarkCompletion, At
  <1>2. PICK what \in {"marked", "not_marked", "unknown"} :
            GotoKnowing(c, "release", what) /\ (what = "marked" => Marks(c) /\ done = 0)
    BY DEF MarkCompletion
  <1>3. PICK r \in OnceRun : /\ run' = [run EXCEPT ![c] = r]
                            /\ r.at = "release" /\ r.knows = what /\ r.result = run[c].result
    BY <1>2, GotoKnowingRecord DEF Places, Knowledge
  <1>4. /\ effects' \subseteq {done'} \ {0} /\ (what = "marked" => recorded'[c]) /\ (recorded[c] => recorded'[c])
        /\ recorded' = recorded \/ (\E v \in BOOLEAN : recorded' = [recorded EXCEPT ![c] = v])
        /\ done' = done \/ (done' = claimed[c] /\ \A d \in Users \ {c} : run[d].at # "limbo")
    BY <1>1, <1>2, MarkFacts
  <1>5. /\ last' = last /\ fence' = fence /\ live' = live /\ mine' = mine /\ proof' = proof /\ beating' = beating
        /\ orphans' = orphans /\ rowlock' = rowlock /\ advanced' = advanced /\ resets' = resets /\ mode' = mode
        /\ claimed' = claimed /\ muddled' = muddled /\ KeyCall(c) /\ rowlock' \in Users \union {NoUser}
    BY <1>1 DEF keyVars, lockVars, claimVars, KeyCall, OnceInv, KeyInv, GuardedKeyTypeOK
  <1>6. /\ KeyInv' /\ (\A d \in Users : d # c => Untouched(d))
        /\ RowOf(c) /\ orphans' \subseteq orphans \union {mine[c]} /\ RowlockOf(c)
    BY <1>5, OnceKeyStep DEF RowlockOf
  <1>7. run'[c] = r /\ RunInv(c) /\ run[c].result # "ran"
    BY <1>1, <1>3, RunFacts DEF OnceInv, OnceTyped
  <1>8. overtaken'[c] => (overtaken[c] \/ (claimed[c] # 0 /\ claimed[c] < last))
    BY <1>5 DEF NotesGrants
  <1>9. HoldsItsClaim(c)'
    BY <1>1, <1>3, <1>5, <1>7 DEF RunInv, HoldsItsClaim, InTransaction, Over
  <1>10. WhereRunsGo(c)' /\ RowIsLocked(c)' /\ LostForGood(c)'
    BY <1>1, <1>3, <1>5, <1>7 DEF RunInv, WhereRunsGo, RowIsLocked, LostForGood
  <1>11. Reports(c)'
    BY <1>2, <1>3, <1>4, <1>5, <1>7, <1>8 DEF RunInv, Reports
  <1>12. AfterCommit(c)'
    BY <1>1, <1>3, <1>5, <1>7 DEF RunInv, AfterCommit, Over
  <1>13. RunInv(c)'
    BY <1>9, <1>10, <1>11, <1>12 DEF RunInv
  <1> QED
    BY <1>3, <1>4, <1>5, <1>6, <1>13, OnceStep

\* A run in its transaction that changes no row: it takes over the claim, renews it, or finds the marker.
LEMMA OnceTxMovesKeep ==
    ASSUME OnceInv, NEW c \in Users, NotesGrants,
           TakeCurrentClaim(c) \/ RenewInTransaction(c) \/ AlreadyMarked(c)
    PROVE  OnceInv'
  <1>0. /\ RunInv(c) /\ live \in BOOLEAN /\ effects \subseteq {done} \ {0} /\ claimed[c] \in Nat
        /\ run[c].at # "ended" => run[c].result # "ran"
        /\ mine[c] # 0 => mine[c] = claimed[c]
    <2>1. live \in BOOLEAN /\ claimed[c] \in Nat
      BY OnceTypes
    <2> QED
      BY <2>1, RunFacts DEF OnceInv
  <1>1. ASSUME NEW place \in {"tx_renew", "tx_mark", "release_renewed", "release_original"},
               NEW what \in Knowledge, what = "marked" => run[c].knows = "marked",
               place = "release_renewed" => what # "marked",
               \/ Goto(c, place) /\ what = run[c].knows
               \/ GotoKnowing(c, place, what),
               UNCHANGED <<lockVars, mine, proof, lost, orphans, ghosts, mode, markVars, claimed, muddled>>,
               beating' = beating \/ StopHeartbeat(c), ~beating'[c], mine[c] # 0, RowlockOf(c),
               place = "tx_mark" => rowlock' = c /\ mine[c] = fence,
               run[c].at \in {"tx_running", "tx_renew", "tx_mark"}
        PROVE  OnceInv'
    <2>1. PICK r \in OnceRun : /\ run' = [run EXCEPT ![c] = r]
                              /\ r.at = place /\ r.knows = what /\ r.result = run[c].result
      BY <1>1, GotoRecord, GotoKnowingRecord DEF Places
    <2>2. /\ last' = last /\ fence' = fence /\ live' = live /\ advanced' = advanced /\ done' = done /\ effects' = effects
          /\ recorded' = recorded /\ resets' = resets /\ muddled' = muddled /\ mode' = mode /\ claimed' = claimed
          /\ mine' = mine /\ proof' = proof
      BY <1>1 DEF lockVars, markVars
    <2>3. RowOf(c) /\ run'[c] = r
      BY <2>1, <2>2 DEF RowOf, Stays, OnceInv, OnceTyped
    <2>4. claimed[c] # 0 /\ advanced # claimed[c]
      BY <1>0, <1>1 DEF RunInv, AfterCommit, Over
    <2>5. AfterCommit(c)'
      BY <1>1, <2>1, <2>2, <2>3, <2>4 DEF AfterCommit
    <2>6. r.result # "ran" /\ (r.knows = "marked" => recorded'[c]) /\ r.at \in InTransaction
      BY <1>0, <1>1, <2>1, <2>2 DEF RunInv, Reports, InTransaction
    <2>7. /\ effects' \subseteq {done'} \ {0} /\ live' \in BOOLEAN
          /\ UNCHANGED <<mode, claimed, mine, proof, lost, orphans, ghosts, resets>>
      BY <1>0, <1>1, <2>2
    <2> QED
      BY <1>1, <2>1, <2>2, <2>3, <2>5, <2>6, <2>7, OnceTxStep
  <1>2. CASE TakeCurrentClaim(c)
    <2>1. /\ run[c].at = "tx_running" /\ StopHeartbeat(c)
          /\ UNCHANGED <<lockVars, rowlock, mine, proof, lost, orphans, ghosts, mode, markVars, claimed, muddled>>
          /\ \/ mine[c] = 0 /\ Returns(c, "failed")
             \/ mine[c] # 0 /\ Goto(c, "tx_renew")
             \/ mine[c] # 0 /\ GotoKnowing(c, "release_original", "lost")
      BY <1>2 DEF TakeCurrentClaim, At
    <2>2. ~beating'[c] /\ RowlockOf(c)
      BY <2>1 DEF StopHeartbeat, RowlockOf, OnceInv, KeyInv, GuardedKeyTypeOK
    <2>3. run[c].knows \in Knowledge
      BY OnceTypes DEF OnceRun
    <2>4. CASE mine[c] = 0 /\ Returns(c, "failed")
      <3>1. PICK r \in OnceRun : /\ run' = [run EXCEPT ![c] = r]
                                /\ r.at = "ended" /\ r.knows = "nothing" /\ r.result = "failed"
        BY <2>4, ReturnsRecord DEF Results
      <3>2. /\ last' = last /\ fence' = fence /\ live' = live /\ advanced' = advanced /\ done' = done /\ effects' = effects
            /\ recorded' = recorded /\ resets' = resets /\ muddled' = muddled /\ mode' = mode /\ claimed' = claimed
            /\ mine' = mine /\ proof' = proof /\ orphans' = orphans /\ rowlock' = rowlock /\ lost' = lost /\ ghosts' = ghosts
        BY <2>1 DEF lockVars, markVars
      <3>3. KeyInv'
        <4>1. beating' \in [Users -> BOOLEAN]
          BY <2>1 DEF StopHeartbeat, OnceInv, KeyInv, GuardedKeyTypeOK
        <4>2. KeyInv
          BY DEF OnceInv
        <4> QED
          BY <3>2, <4>1, <4>2 DEF KeyInv, GuardedKeyTypeOK, RowIsLastGrant
      <3>4. \A d \in Users : d # c => Untouched(d)
        BY <2>1 DEF StopHeartbeat, Untouched, OnceInv, KeyInv, GuardedKeyTypeOK
      <3>5. RowOf(c) /\ LostForGood(c)' /\ orphans' \subseteq orphans \union {mine[c]} /\ effects' \subseteq {done'} \ {0}
        BY <1>0, <3>2 DEF RowOf, Stays, RunInv, LostForGood
      <3> QED
        BY <2>2, <2>4, <3>1, <3>2, <3>3, <3>4, <3>5, OnceEndStep DEF Over
    <2>5. CASE mine[c] # 0 /\ Goto(c, "tx_renew")
      BY <1>1, <2>1, <2>2, <2>3, <2>5
    <2>6. CASE mine[c] # 0 /\ GotoKnowing(c, "release_original", "lost")
      BY <1>1, <2>1, <2>2, <2>6 DEF Knowledge
    <2> QED
      BY <2>1, <2>4, <2>5, <2>6
  <1>3. CASE RenewInTransaction(c)
    <2>1. /\ run[c].at = "tx_renew"
          /\ UNCHANGED <<lockVars, claimVars, mode, markVars, claimed, muddled>>
          /\ \/ Owns(c) /\ rowlock' = c /\ Goto(c, "tx_mark")
             \/ GotoKnowing(c, "release_original", "lost") /\ UNCHANGED rowlock
      BY <1>3 DEF RenewInTransaction, At
    <2>2. mine[c] # 0 /\ ~beating[c]
      BY <1>0, <2>1 DEF RunInv, HoldsItsClaim, InTransaction
    <2>3. RowlockOf(c) /\ run[c].knows \in Knowledge /\ (Owns(c) => mine[c] = fence)
      BY <2>1, RunFacts DEF RowlockOf, OnceRun, Owns
    <2>4. UNCHANGED <<lockVars, mine, proof, lost, orphans, ghosts, mode, markVars, claimed, muddled>> /\ beating' = beating
      BY <2>1 DEF claimVars
    <2> QED
      BY <1>1, <2>1, <2>2, <2>3, <2>4 DEF Knowledge
  <1>4. CASE AlreadyMarked(c)
    <2>1. /\ run[c].at = "tx_mark"
          /\ UNCHANGED <<lockVars, claimVars, mode, markVars, claimed, muddled>>
          /\ rowlock' = NoUser /\ GotoKnowing(c, "release_renewed", "not_marked")
      BY <1>4 DEF AlreadyMarked, At
    <2>2. mine[c] # 0 /\ ~beating[c] /\ rowlock = c
      BY <1>0, <2>1 DEF RunInv, HoldsItsClaim, RowIsLocked, InTransaction
    <2>3. RowlockOf(c)
      BY <2>1, <2>2 DEF RowlockOf
    <2>4. UNCHANGED <<lockVars, mine, proof, lost, orphans, ghosts, mode, markVars, claimed, muddled>> /\ beating' = beating
      BY <2>1 DEF claimVars
    <2> QED
      BY <1>1, <2>1, <2>2, <2>3, <2>4 DEF Knowledge
  <1> QED
    BY <1>2, <1>3, <1>4

\* The commit of an atomic run's transaction, or its end undecided.
LEMMA OnceCommitsKeep ==
    ASSUME OnceInv, NEW c \in Users, NotesGrants, CommitReturns(c) \/ LimboEnds(c)
    PROVE  OnceInv'
  <1>0. /\ run[c].at \in {"tx_mark", "limbo"} /\ done = 0 /\ UNCHANGED <<claimVars, mode, claimed, muddled>>
        /\ \/ /\ Committed(c)
              /\ \/ GotoKnowing(c, "release_renewed", "marked") \/ GotoKnowing(c, "release_renewed", "unknown")
                 \/ Goto(c, "release_renewed") /\ run[c].at = "limbo"
           \/ RolledBack /\ GotoKnowing(c, "release_renewed", "unknown")
           \/ RolledBack /\ Goto(c, "release_renewed") /\ run[c].at = "limbo"
           \/ GotoKnowing(c, "limbo", "unknown") /\ UNCHANGED <<lockVars, rowlock, markVars>>
    <2>1. run[c].at = "limbo" => done = 0
      BY RunFacts DEF RunInv, RowIsLocked
    <2> QED
      BY <2>1 DEF CommitReturns, LimboEnds, At
  <1>1. /\ rowlock = c /\ mine[c] # 0 /\ mine[c] = fence /\ mine[c] = claimed[c] /\ ~beating[c]
        /\ RunInv(c) /\ run[c].knows \in Knowledge /\ live \in BOOLEAN /\ run[c].result # "ran"
        /\ (run[c].at = "limbo" => run[c].knows # "marked") /\ effects \subseteq {done} \ {0}
    <2>1. RunInv(c) /\ run[c].knows \in Knowledge /\ run[c].result # "ran" /\ (mine[c] # 0 => mine[c] = claimed[c])
      BY <1>0, RunFacts DEF OnceRun
    <2>2. live \in BOOLEAN /\ effects \subseteq {done} \ {0}
      BY OnceTypes DEF OnceInv
    <2> QED
      BY <1>0, <2>1, <2>2 DEF RunInv, RowIsLocked, HoldsItsClaim, InTransaction
  <1>2. PICK place \in {"release_renewed", "limbo"}, what \in Knowledge :
            /\ (Goto(c, place) /\ what = run[c].knows) \/ GotoKnowing(c, place, what)
            /\ \/ Committed(c) /\ place = "release_renewed"
               \/ RolledBack /\ place = "release_renewed" /\ what # "marked"
               \/ UNCHANGED <<lockVars, rowlock, markVars>> /\ place = "limbo" /\ what # "marked"
    BY <1>0, <1>1 DEF Knowledge
  <1>3. PICK r \in OnceRun : /\ run' = [run EXCEPT ![c] = r]
                            /\ r.at = place /\ r.knows = what /\ r.result = run[c].result
    BY <1>2, GotoRecord, GotoKnowingRecord DEF Places
  <1>4. /\ run'[c] = r /\ mode' = mode /\ claimed' = claimed /\ muddled' = muddled /\ mine' = mine /\ beating' = beating
        /\ UNCHANGED <<proof, lost, orphans, ghosts>>
    BY <1>0, <1>3 DEF claimVars, OnceInv, OnceTyped
  <1>5. CASE Committed(c) /\ place = "release_renewed"
    <2>1. /\ RowOf(c) /\ last' = last /\ live' \in BOOLEAN /\ RowlockOf(c) /\ rowlock' = NoUser /\ resets' = resets
          /\ advanced' = claimed[c] /\ claimed[c] # 0
          /\ recorded'[c] /\ effects' \subseteq {done'} \ {0}
          /\ recorded' = recorded \/ (\E v \in BOOLEAN : recorded' = [recorded EXCEPT ![c] = v])
          /\ done' = done \/ (done' = claimed[c] /\ \A d \in Users \ {c} : run[d].at # "limbo")
      BY <1>0, <1>5, CommitFacts
    <2>2. AfterCommit(c)'
      BY <1>3, <1>4, <1>5, <2>1 DEF AfterCommit
    <2> QED
      BY <1>1, <1>3, <1>4, <1>5, <2>1, <2>2, OnceTxStep DEF InTransaction
  <1>6. CASE (RolledBack \/ UNCHANGED <<lockVars, rowlock, markVars>>) /\ what # "marked"
    <2>1. /\ last' = last /\ fence' = fence /\ live' = live /\ advanced' = advanced /\ done' = done /\ effects' = effects
          /\ recorded' = recorded /\ resets' = resets /\ rowlock' \in {rowlock, NoUser}
          /\ (place = "limbo" => rowlock' = rowlock)
      BY <1>2, <1>6, GuardedKeyAssumption DEF RolledBack, lockVars, markVars, Committed
    <2>2. RowOf(c) /\ RowlockOf(c) /\ effects' \subseteq {done'} \ {0} /\ live' \in BOOLEAN
      BY <1>1, <2>1 DEF RowOf, RowlockOf, Stays
    <2>3. advanced # claimed[c]
      BY <1>0, <1>1 DEF RunInv, AfterCommit, Over
    <2>4. AfterCommit(c)'
      BY <1>2, <1>3, <1>4, <1>6, <2>1, <2>3 DEF AfterCommit
    <2> QED
      BY <1>0, <1>1, <1>3, <1>4, <1>6, <2>1, <2>2, <2>4, OnceTxStep DEF InTransaction
  <1> QED
    BY <1>2, <1>5, <1>6

\* The releases after a transaction, of the renewed claim and of the original one.
LEMMA OnceReleasesKeep ==
    ASSUME OnceInv, NEW c \in Users, NotesGrants, ReleaseRenewed(c) \/ ReleaseFails(c)
    PROVE  OnceInv'
  <1>0. /\ run[c].at \in {"release_renewed", "release_original"} /\ UNCHANGED <<rowlock, mode, markVars, claimed>>
        /\ RunInv(c) /\ run[c].knows \in Knowledge /\ run[c].result # "ran" /\ live \in BOOLEAN
        /\ mine[c] # 0 /\ mine[c] = claimed[c] /\ ~beating[c] /\ effects \subseteq {done} \ {0}
        /\ RowlockOf(c) /\ UNCHANGED <<mode, advanced, resets, effects, claimed, done, recorded>>
    <2>1. run[c].at \in {"release_renewed", "release_original"} /\ UNCHANGED <<rowlock, mode, markVars, claimed>>
      BY DEF ReleaseRenewed, ReleaseFails, At
    <2>2. RunInv(c) /\ run[c].knows \in Knowledge /\ run[c].result # "ran" /\ (mine[c] # 0 => mine[c] = claimed[c])
      BY <2>1, RunFacts DEF OnceRun
    <2>3. live \in BOOLEAN /\ effects \subseteq {done} \ {0}
      BY OnceTypes DEF OnceInv
    <2>4. RowlockOf(c) /\ UNCHANGED <<mode, advanced, resets, effects, claimed, done, recorded>>
      BY <2>1 DEF RowlockOf, markVars
    <2> QED
      BY <2>1, <2>2, <2>3, <2>4 DEF RunInv, HoldsItsClaim, InTransaction
  <1>1. ASSUME NEW value \in {"ran", "failed"}, Returns(c, value), Forget(c), UNCHANGED orphans,
               (Owns(c) /\ Release) \/ UNCHANGED lockVars,
               value = "ran" => Owns(c) /\ run[c].knows = "marked",
               muddled' = muddled \/ Muddles(c)
        PROVE  OnceInv'
    <2>1. KeyCall(c)
      BY <1>1 DEF KeyCall, ProcessStops, GuardRelease, ReleaseAnswers
    <2>2. value = "ran" => recorded'[c] /\ Owns(c)
      BY <1>0, <1>1 DEF RunInv, Reports
    <2>3. mine'[c] = 0 /\ ~proof'[c] /\ value \in Results
      BY <1>1, Forgotten DEF Results
    <2> QED
      BY <1>0, <1>1, <2>1, <2>2, <2>3, OnceKeyEnd
  <1>2. ASSUME run[c].at = "release_renewed", Goto(c, "release_original"), UNCHANGED claimVars,
               \/ UNCHANGED <<lockVars, muddled>> /\ ~OwnsRenewed(c)
               \/ UNCHANGED lockVars /\ Muddles(c)
               \/ Owns(c) /\ Release /\ Muddles(c)
        PROVE  OnceInv'
    <2>1. PICK r \in OnceRun : /\ run' = [run EXCEPT ![c] = r]
                              /\ r.at = "release_original" /\ r.knows = run[c].knows /\ r.result = run[c].result
      BY <1>2, GotoRecord DEF Places
    <2>2. /\ run'[c] = r /\ UNCHANGED <<mine, proof, lost, orphans, ghosts>> /\ beating' = beating
          /\ advanced' = advanced /\ done' = done /\ recorded' = recorded /\ effects' = effects
          /\ proof' = proof /\ claimed' = claimed
      BY <1>0, <1>2, <2>1 DEF claimVars, OnceInv, OnceTyped
    <2>3. /\ RowOf(c) /\ last' = last /\ live' \in BOOLEAN
      <3>1. mine[c] \in Nat /\ fence \in Nat /\ last \in Nat
        BY OnceTypes
      <3>2. UNCHANGED lockVars \/ (Owns(c) /\ Release)
        BY <1>2
      <3>3. advanced' = advanced
        BY <2>2
      <3>4. CASE UNCHANGED lockVars
        <4>1. live \in BOOLEAN
          BY <1>0
        <4> QED
          BY <3>3, <3>4, <4>1 DEF RowOf, Stays, lockVars
      <3>5. CASE Owns(c) /\ Release
        BY <3>1, <3>3, <3>5 DEF RowOf, Frees, Release, Owns
      <3> QED
        BY <3>2, <3>4, <3>5
    <2>4. /\ muddled' = muddled \/ (\E v \in BOOLEAN : muddled' = [muddled EXCEPT ![c] = v])
          /\ (UNCHANGED <<lockVars, muddled>> /\ ~OwnsRenewed(c)) \/ muddled'[c]
      BY <1>2 DEF Muddles, OnceInv, OnceTyped
    <2>5. AfterCommit(c)'
      <3>1. (proof[c] /\ ~muddled'[c]) => ~(live' /\ fence' = claimed[c] /\ advanced = claimed[c])
        BY <1>0, <2>4 DEF OwnsRenewed, Owns, lockVars
      <3> QED
        BY <2>1, <2>2, <3>1 DEF AfterCommit
    <2>6. (r.knows = "marked" => recorded'[c]) /\ r.at \in InTransaction /\ effects' \subseteq {done'} \ {0}
      BY <1>0, <2>1, <2>2 DEF RunInv, Reports, InTransaction
    <2> QED
      BY <1>0, <2>1, <2>2, <2>3, <2>4, <2>5, <2>6, OnceTxStep
  <1>3. CASE ReleaseRenewed(c)
    <2>1. \/ /\ OwnsRenewed(c) /\ Release /\ Returns(c, IF run[c].knows = "marked" THEN "ran" ELSE "failed")
             /\ Forget(c) /\ UNCHANGED orphans
          \/ Returns(c, "failed") /\ Forget(c) /\ UNCHANGED <<lockVars, orphans>>
          \/ ~OwnsRenewed(c) /\ Goto(c, "release_original") /\ UNCHANGED <<lockVars, claimVars>>
      BY <1>3 DEF ReleaseRenewed
    <2>2. run[c].at = "release_renewed" /\ UNCHANGED muddled
      BY <1>3 DEF ReleaseRenewed, At
    <2> QED
      BY <1>1, <1>2, <2>1, <2>2 DEF OwnsRenewed
  <1>4. CASE ReleaseFails(c)
    <2>1. /\ (Owns(c) /\ Release) \/ UNCHANGED lockVars
          /\ \/ run[c].at = "release_renewed" /\ Goto(c, "release_original") /\ UNCHANGED claimVars
             \/ Returns(c, "failed") /\ Forget(c) /\ UNCHANGED orphans
          /\ Muddles(c)
      BY <1>4 DEF ReleaseFails, At
    <2> QED
      BY <1>1, <1>2, <2>1
  <1> QED
    BY <1>3, <1>4

\* A run that stops: its transaction is decided, its guard is gone or left to a cleanup.
LEMMA RunStopsKeeps ==
    ASSUME OnceInv, NEW c \in Users, NotesGrants, RunStops(c)
    PROVE  OnceInv'
  <1> DEFINE s == [at |-> "stopped", knows |-> "nothing", result |-> "none"]
  <1>1. /\ run' = [run EXCEPT ![c] = s]
        /\ \/ run[c].at = "limbo" /\ Committed(c)
           \/ rowlock = c /\ RolledBack
           \/ UNCHANGED <<lockVars, rowlock, markVars>>
        /\ mine' = [mine EXCEPT ![c] = 0] /\ lost' = [lost EXCEPT ![c] = FALSE]
        /\ proof' = [proof EXCEPT ![c] = FALSE] /\ StopHeartbeat(c)
        /\ orphans' \subseteq orphans \union ({mine[c]} \ {0})
        /\ ghosts' = ghosts \/ (ghosts < MaxGhosts /\ ghosts' = ghosts + 1)
        /\ UNCHANGED <<mode, claimed, muddled>>
    BY DEF RunStops, At
  <1>2. s \in OnceRun /\ s.at \in Over /\ s.knows = "nothing" /\ s.result # "ran"
    BY DEF OnceRun, Places, Knowledge, Results, Over
  <1>3. /\ GuardedKeyTypeOK /\ live \in BOOLEAN /\ last \in Nat /\ fence \in Nat /\ mine[c] \in Nat /\ mine[c] <= last
        /\ RowIsLastGrant /\ effects \subseteq {done} \ {0} /\ recorded \in [Users -> BOOLEAN]
    BY OnceTypes DEF OnceInv, KeyInv, OnceTyped
  <1>4. /\ RowOf(c) /\ last' = last /\ live' \in BOOLEAN /\ RowlockOf(c) /\ resets' = resets
        /\ recorded' = recorded \/ (\E v \in BOOLEAN : recorded' = [recorded EXCEPT ![c] = v])
        /\ effects' \subseteq {done'} \ {0}
        /\ done' = done \/ (done' = claimed[c] /\ \A d \in Users \ {c} : run[d].at # "limbo")
    <2>1. CASE run[c].at = "limbo" /\ Committed(c)
      <3>1. done = 0
        BY <2>1, RunFacts DEF RunInv, RowIsLocked
      <3> QED
        BY <2>1, <3>1, CommitFacts
    <2>2. CASE (rowlock = c /\ RolledBack) \/ UNCHANGED <<lockVars, rowlock, markVars>>
      BY <1>3, <2>2 DEF RolledBack, lockVars, markVars, RowOf, RowlockOf, Stays
    <2> QED
      BY <1>1, <2>1, <2>2
  <1>5. KeyInv'
    <2>1. RowIsLastGrant' /\ fence' \in 0 .. last'
      BY <1>3, <1>4 DEF RowIsLastGrant, RowOf, Stays, Grants, Frees
    <2>2. rowlock' \in Users \union {NoUser}
      BY <1>3, <1>4 DEF RowlockOf, GuardedKeyTypeOK
    <2>3. beating' \in [Users -> BOOLEAN] /\ proof' \in [Users -> BOOLEAN] /\ lost' \in [Users -> BOOLEAN]
      BY <1>1, <1>3 DEF StopHeartbeat, GuardedKeyTypeOK
    <2>4. mine' \in [Users -> 0 .. last']
      <3>1. 0 \in 0 .. last' /\ mine \in [Users -> 0 .. last']
        BY <1>3, <1>4 DEF GuardedKeyTypeOK
      <3> QED
        BY <1>1, <3>1
    <2>5. orphans' \subseteq 1 .. last'
      BY <1>1, <1>3, <1>4 DEF GuardedKeyTypeOK
    <2>6. ghosts' \in 0 .. MaxGhosts
      BY <1>1, <1>3, GuardedKeyAssumption DEF GuardedKeyTypeOK
    <2>7. last' \in 0 .. MaxGrants
      BY <1>3, <1>4 DEF GuardedKeyTypeOK
    <2> QED
      BY <1>4, <2>1, <2>2, <2>3, <2>4, <2>5, <2>6, <2>7 DEF KeyInv, GuardedKeyTypeOK
  <1>6. \A d \in Users : d # c => Untouched(d)
    BY <1>1, <1>3 DEF Untouched, StopHeartbeat, GuardedKeyTypeOK
  <1>7. mine'[c] = 0 /\ LostForGood(c)' /\ orphans' \subseteq orphans \union {mine[c]}
    BY <1>1, <1>3 DEF LostForGood, GuardedKeyTypeOK
  <1>8. muddled' = muddled
    BY <1>1
  <1> HIDE DEF s
  <1> QED
    BY <1>1, <1>2, <1>4, <1>5, <1>6, <1>7, <1>8, OnceEndStep

\* A step that no run takes: the key's own affairs, and a reset.
LEMMA OnceBesideRuns ==
    ASSUME OnceInv, KeyInv', UNCHANGED <<mode, run, claimed, recorded, muddled, advanced, rowlock>>,
           NotesGrants \/ overtaken' = overtaken,
           resets' \in 0 .. MaxResets, done' \in {0, done}, effects' = {} \/ (effects' = effects /\ done' = done),
           orphans' \subseteq orphans,
           \/ Stays \/ Grants \/ (\E f \in orphans : Frees(f))
           \/ rowlock = NoUser /\ ~live /\ fence' = 0 /\ ~live' /\ last' = last + 1,
           \A d \in Users :
                /\ mine'[d] = mine[d] \/ (mine'[d] = 0 /\ ~Owns(d))
                /\ proof'[d] => proof[d]
                /\ beating'[d] => beating[d]
                /\ ~beating[d] => Untouched(d)
    PROVE  OnceInv'
  <1>0. /\ OnceTyped /\ ClaimsDiffer /\ effects \subseteq {done} \ {0} /\ last \in Nat
        /\ \A d \in Users : RunInv(d)
    BY OnceTypes DEF OnceInv
  <1>1. last' >= last /\ last' \in Nat
    BY <1>0 DEF Stays, Grants, Frees
  <1>2. 0 .. last \subseteq 0 .. last'
    BY <1>0, <1>1
  <1>3. OnceTyped'
    <2>1. overtaken' \in [Users -> BOOLEAN]
      BY <1>0 DEF NotesGrants, OnceTyped
    <2>2. done' \in 0 .. last' /\ advanced' \in 0 .. last' /\ claimed' \in [Users -> 0 .. last']
      BY <1>0, <1>2 DEF OnceTyped
    <2> QED
      BY <1>0, <2>1, <2>2 DEF OnceTyped
  <1>4. ASSUME NEW d \in Users
        PROVE  RunInv(d)'
    <2>1. mine[d] # 0 => mine[d] \notin orphans
      BY <1>0 DEF RunInv, HoldsItsClaim
    <2>2. RowMove(d)
      <3>1. \A f \in orphans : f \in Nat
        BY RowTypes DEF OnceInv
      <3>2. CASE \E f \in orphans : Frees(f)
        <4>1. PICK f \in orphans : Frees(f)
          BY <3>2
        <4>2. f \in Nat /\ (mine[d] = 0 \/ f # mine[d])
          BY <2>1, <3>1
        <4> QED
          BY <4>1, <4>2 DEF RowMove
      <3> QED
        BY <3>2 DEF RowMove
    <2>3. overtaken'[d] => (overtaken[d] \/ (claimed'[d] # 0 /\ claimed'[d] < last' /\ run[d].at \notin {"ended", "stopped"}))
      BY DEF NotesGrants
    <2>4. run[d].at = "limbo" => done' = 0
      BY <1>0 DEF RunInv, RowIsLocked
    <2>5. mine'[d] # 0 => mine[d] \notin orphans'
      BY <2>1
    <2> QED
      BY <2>2, <2>3, <2>4, <2>5, RunKept
  <1>5. ClaimsDiffer' /\ effects' \subseteq {done'} \ {0}
    BY <1>0 DEF ClaimsDiffer
  <1> QED
    BY <1>3, <1>4, <1>5 DEF OnceInv

\* A reset over a key that nobody holds.
LEMMA TryResetKeeps ==
    ASSUME OnceInv, NotesGrants, TryReset
    PROVE  OnceInv'
  <1>1. /\ resets < MaxResets /\ last < MaxGrants /\ ~live /\ rowlock = NoUser
        /\ fence' = 0 /\ ~live' /\ live' \in BOOLEAN /\ last' = last + 1 /\ done' = 0 /\ effects' = {} /\ resets' = resets + 1
        /\ UNCHANGED <<rowlock, claimVars, mode, run, advanced, claimed, recorded, muddled>>
    BY DEF TryReset
  <1>2. GuardedKeyTypeOK /\ last \in Nat /\ resets \in 0 .. MaxResets /\ MaxGrants \in Nat /\ MaxResets \in Nat
    BY OnceTypes, GuardedKeyAssumption, OnceAssumption DEF OnceInv, OnceTyped, KeyInv
  <1>3. /\ 0 .. last \subseteq 0 .. last' /\ 1 .. last \subseteq 1 .. last' /\ last' \in 0 .. MaxGrants
        /\ fence' \in 0 .. last' /\ resets' \in 0 .. MaxResets
    BY <1>1, <1>2
  <1>4. KeyInv'
    BY <1>1, <1>2, <1>3 DEF claimVars, KeyInv, GuardedKeyTypeOK, RowIsLastGrant
  <1> QED
    BY <1>1, <1>3, <1>4, OnceBesideRuns DEF claimVars, Untouched

\* What runs beside the calls.
LEMMA OnceBackgroundKeeps ==
    ASSUME OnceInv, NotesGrants, BackgroundNext, UNCHANGED <<rowlock, onceVars>>
    PROVE  OnceInv'
  <1>1. /\ UNCHANGED <<mode, run, claimed, recorded, muddled, advanced, rowlock>>
        /\ resets' = resets /\ done' = done /\ effects' = effects
    BY DEF onceVars, markVars
  <1>2. /\ KeyInv' /\ orphans' \subseteq orphans
        /\ Stays \/ Grants \/ (\E f \in orphans : Frees(f))
        /\ \A d \in Users :
                /\ mine'[d] = mine[d] \/ (mine'[d] = 0 /\ ~Owns(d))
                /\ proof'[d] => proof[d]
                /\ beating'[d] => beating[d]
                /\ ~beating[d] => Untouched(d)
    BY <1>1, KeyBackgroundKeeps DEF OnceInv
  <1>3. resets' \in 0 .. MaxResets
    BY <1>1 DEF OnceInv, OnceTyped
  <1> QED
    BY <1>1, <1>2, <1>3, OnceBesideRuns

\* Every step of a run keeps the invariant.
LEMMA RunNextKeeps ==
    ASSUME OnceInv, NEW c \in Users, NotesGrants, RunNext(c)
    PROVE  OnceInv'
  <1>1. CASE \/ CheckDone(c) \/ ClaimIsHeld(c) \/ CheckDoneAfterRefusal(c) \/ CheckDoneUnderClaim(c) \/ LiveCheck(c)
             \/ TaskFails(c) \/ TaskSucceeds(c) \/ ReleaseWithoutMarking(c)
    BY <1>1, OnceMovesKeep
  <1>2. CASE \/ CheckDoneFails(c) \/ ClaimFails(c) \/ ReleaseAfterRun(c) \/ TransactionFails(c) \/ ReleaseOriginal(c)
             \/ MarkDoneAndRelease(c) \/ MarkDoneErrs(c)
    BY <1>2, OnceEndsKeep
  <1>3. CASE TakeCurrentClaim(c) \/ RenewInTransaction(c) \/ AlreadyMarked(c)
    BY <1>3, OnceTxMovesKeep
  <1>4. CASE CommitReturns(c) \/ LimboEnds(c)
    BY <1>4, OnceCommitsKeep
  <1>5. CASE ReleaseRenewed(c) \/ ReleaseFails(c)
    BY <1>5, OnceReleasesKeep
  <1> QED
    BY <1>1, <1>2, <1>3, <1>4, <1>5, ClaimForRunKeeps, MarkCompletionKeeps, RunStopsKeeps DEF RunNext

\* Every step of a run-once key keeps the invariant.
LEMMA OnceNextKeeps == OnceInv /\ [OnceNext]_onceAll => OnceInv'
  <1> SUFFICES ASSUME OnceInv, [OnceNext]_onceAll PROVE OnceInv'
    OBVIOUS
  <1>1. CASE UNCHANGED onceAll
    <2>1. /\ UNCHANGED <<mode, run, claimed, recorded, muddled, advanced, rowlock>>
          /\ resets' = resets /\ done' = done /\ effects' = effects /\ overtaken' = overtaken
          /\ UNCHANGED <<lockVars, claimVars>>
      BY <1>1 DEF onceAll, keyVars, onceVars, markVars
    <2>2. KeyInv'
      BY <2>1 DEF OnceInv, KeyInv, GuardedKeyTypeOK, RowIsLastGrant, lockVars, claimVars
    <2>3. resets' \in 0 .. MaxResets
      BY <2>1 DEF OnceInv, OnceTyped
    <2>4. Stays /\ orphans' \subseteq orphans
      BY <2>1 DEF Stays, lockVars, claimVars
    <2>5. \A d \in Users : Untouched(d)
      BY <2>1 DEF Untouched, claimVars
    <2> QED
      BY <2>1, <2>2, <2>3, <2>4, <2>5, OnceBesideRuns DEF Untouched
  <1>2. CASE OnceNext
    <2>1. NotesGrants
      BY <1>2 DEF OnceNext
    <2>2. ASSUME NEW c \in Users, RunNext(c)
          PROVE  OnceInv'
      BY <2>1, <2>2, RunNextKeeps
    <2> QED
      BY <1>2, <2>1, <2>2, TryResetKeeps, OnceBackgroundKeeps DEF OnceNext
  <1> QED
    BY <1>1, <1>2

\* The inductive invariant of run-once tasks: what each run holds, knows and has reported, in every state.
THEOREM OnceInvariance == OnceSpec => []OnceInv
  <1> QED
    BY OnceInitInv, OnceNextKeeps, PTL DEF OnceSpec

\* Run-once tasks are sound (once_task.rs): a call that reports Ran was alone with the task and recorded it, and an
\* atomic task takes effect at most once between two resets, for any number of users, grants and resets.
THEOREM OnceSoundness == OnceSpec => []OnceIsSound
  <1>1. OnceInv => OnceIsSound
    <2> SUFFICES ASSUME OnceInv PROVE OnceIsSound
      OBVIOUS
    <2>1. OnceTypeOK
      BY DEF OnceInv, KeyInv, OnceTyped, OnceTypeOK, OnceRun
    <2>2. RanWasExclusive
      BY DEF OnceInv, RunInv, Reports, RanWasExclusive
    <2>3. AtomicTaskTakesEffectOnce
      BY DEF OnceInv, AtomicTaskTakesEffectOnce
    <2> QED
      BY <2>1, <2>2, <2>3 DEF OnceIsSound
  <1> QED
    BY <1>1, OnceInvariance, PTL

\* What a run does not know when it does not own its row any more: the row is not its claim's, or not a live one.
LEMMA NotOwnedIsGone ==
    ASSUME OnceInv, NEW c \in Users, ~Owns(c), claimed[c] # 0, proof[c]
    PROVE  ~(live /\ fence = claimed[c])
  <1>1. RunInv(c) /\ (mine[c] # 0 => mine[c] = claimed[c])
    BY RunFacts
  <1> QED
    BY <1>1 DEF RunInv, LostForGood, Owns

\* A run that ends without an error about its claim has left no live lease of it.
LEMMA EndFrees ==
    ASSUME OnceInv, NEW c \in Users, RunNext(c), run[c].at # "ended", run'[c].at = "ended",
           claimed[c] # 0, proof[c], ~muddled'[c]
    PROVE  ~(live' /\ fence' = claimed[c])
  <1>0. run \in [Users -> OnceRun] /\ muddled \in [Users -> BOOLEAN] /\ RunInv(c)
    BY RunFacts DEF OnceInv, OnceTyped
  <1>1. ~Muddles(c)
    BY <1>0 DEF Muddles
  <1>2. ASSUME UNCHANGED lockVars, ~Owns(c)
        PROVE  ~(live' /\ fence' = claimed[c])
    BY <1>2, NotOwnedIsGone DEF lockVars
  <1>3. ASSUME Release
        PROVE  ~(live' /\ fence' = claimed[c])
    BY <1>3 DEF Release
  <1>4. ASSUME NEW place, place # "ended", Goto(c, place) \/ (\E what \in Knowledge : GotoKnowing(c, place, what))
        PROVE  FALSE
    BY <1>0, <1>4 DEF Goto, GotoKnowing, OnceRun
  <1>5. ~(\/ At(c, "idle") \/ At(c, "claiming") \/ At(c, "refused"))
    BY RunFacts DEF At
  <1>6. ~(CheckDone(c) \/ ClaimForRun(c) \/ ClaimIsHeld(c) \/ CheckDoneAfterRefusal(c) \/ ClaimFails(c))
    BY <1>5 DEF CheckDone, ClaimForRun, ClaimIsHeld, CheckDoneAfterRefusal, ClaimFails
  <1>7. ~(CheckDoneFails(c) \/ TransactionFails(c) \/ MarkDoneErrs(c) \/ ReleaseFails(c))
    BY <1>1 DEF CheckDoneFails, TransactionFails, MarkDoneErrs, ReleaseFails
  <1>8. ~(CheckDoneUnderClaim(c) \/ LiveCheck(c) \/ TaskFails(c) \/ TaskSucceeds(c) \/ ReleaseWithoutMarking(c))
    BY <1>4 DEF CheckDoneUnderClaim, LiveCheck, TaskFails, TaskSucceeds, ReleaseWithoutMarking, Knowledge
  <1>9. ~(MarkCompletion(c) \/ RenewInTransaction(c) \/ AlreadyMarked(c) \/ CommitReturns(c) \/ LimboEnds(c))
    BY <1>4 DEF MarkCompletion, RenewInTransaction, AlreadyMarked, CommitReturns, LimboEnds, Knowledge
  <1>10. ~RunStops(c)
    BY <1>0 DEF RunStops
  <1>11. CASE ReleaseAfterRun(c)
    <2>1. PICK answer \in ReleaseAnswers :
             GuardRelease(c, mode[c] # "manual", answer) /\ (answer = "error" => Muddles(c))
      BY <1>11 DEF ReleaseAfterRun
    <2>2. answer \in {"released", "not_live"}
      BY <1>1, <2>1 DEF ReleaseAnswers
    <2>3. Release \/ (UNCHANGED lockVars /\ ~Owns(c))
      BY <2>1, <2>2 DEF GuardRelease
    <2> QED
      BY <1>2, <1>3, <2>3
  <1>12. CASE TakeCurrentClaim(c)
    <2>1. mine[c] = 0 /\ UNCHANGED lockVars
      BY <1>4, <1>12 DEF TakeCurrentClaim, Knowledge
    <2> QED
      BY <1>2, <2>1 DEF Owns
  <1>13. CASE ReleaseRenewed(c)
    <2>1. Release \/ (UNCHANGED lockVars /\ ~OwnsRenewed(c) /\ run[c].at = "release_renewed" /\ run[c].knows = "marked")
      BY <1>4, <1>13 DEF ReleaseRenewed, At
    <2>2. CASE UNCHANGED lockVars /\ ~OwnsRenewed(c) /\ run[c].at = "release_renewed" /\ run[c].knows = "marked"
      <3>1. advanced = claimed[c] \/ fence # claimed[c]
        BY <1>0, <2>2 DEF RunInv, AfterCommit
      <3>2. mine[c] # 0 => mine[c] = claimed[c]
        BY RunFacts
      <3>3. ~Owns(c)
        BY <2>2, <3>1, <3>2 DEF OwnsRenewed, Owns
      <3> QED
        BY <1>2, <2>2, <3>3
    <2> QED
      BY <1>3, <2>1, <2>2
  <1>14. CASE ReleaseOriginal(c)
    <2>1. /\ Release \/ (UNCHANGED lockVars /\ (~Owns(c) \/ OwnsRenewed(c)))
          /\ run[c].at = "release_original" /\ muddled' = muddled
      BY <1>14 DEF ReleaseOriginal, At
    <2>2. ~OwnsRenewed(c)
      <3>1. ~(live /\ fence = claimed[c] /\ advanced = claimed[c])
        BY <1>0, <2>1 DEF RunInv, AfterCommit
      <3>2. mine[c] # 0 => mine[c] = claimed[c]
        BY RunFacts
      <3> QED
        BY <3>1, <3>2 DEF OwnsRenewed, Owns
    <2> QED
      BY <1>2, <1>3, <2>1, <2>2
  <1>15. CASE MarkDoneAndRelease(c)
    <2>1. Release \/ (UNCHANGED lockVars /\ ~Owns(c))
      BY <1>15 DEF MarkDoneAndRelease
    <2> QED
      BY <1>2, <1>3, <2>1
  <1> QED
    BY <1>6, <1>7, <1>8, <1>9, <1>10, <1>11, <1>12, <1>13, <1>14, <1>15 DEF RunNext

\* A marker is committed by a run that owns the last grant, or by a plain run after its task.
LEMMA MarkIsFenced ==
    ASSUME OnceInv, NEW c \in Users, RunNext(c)
    PROVE  \/ recorded' = recorded
           \/ /\ \E v \in BOOLEAN : recorded' = [recorded EXCEPT ![c] = v]
              /\ mode[c] = "plain" \/ last = claimed[c]
  <1>0. RunInv(c)
    BY RunFacts
  <1>1. ASSUME Marks(c), mode[c] = "plain" \/ last = claimed[c]
        PROVE  \/ recorded' = recorded
               \/ /\ \E v \in BOOLEAN : recorded' = [recorded EXCEPT ![c] = v]
                  /\ mode[c] = "plain" \/ last = claimed[c]
    BY <1>1, MarkFacts
  <1>2. CASE MarkCompletion(c)
    <2>1. mode[c] = "plain" /\ (Marks(c) \/ recorded' = recorded)
      BY <1>0, <1>2 DEF MarkCompletion, At, RunInv, WhereRunsGo
    <2> QED
      BY <1>1, <2>1
  <1>3. CASE MarkDoneAndRelease(c) \/ MarkDoneErrs(c)
    <2>1. (Owns(c) /\ Marks(c)) \/ recorded' = recorded
      BY <1>3 DEF MarkDoneAndRelease, MarkDoneErrs
    <2>2. Owns(c) => last = claimed[c]
      BY RunFacts
    <2> QED
      BY <1>1, <2>1, <2>2
  <1>4. CASE CommitReturns(c) \/ LimboEnds(c) \/ RunStops(c)
    <2>1. (run[c].at \in {"tx_mark", "limbo"} /\ Marks(c)) \/ recorded' = recorded
      BY <1>4 DEF CommitReturns, LimboEnds, RunStops, At, Committed, RolledBack, markVars
    <2>2. run[c].at \in {"tx_mark", "limbo"} => last = claimed[c]
      <3>1. run[c].at \in {"tx_mark", "limbo"} => mine[c] # 0 /\ mine[c] = fence /\ mine[c] = claimed[c]
        BY <1>0, RunFacts DEF RunInv, RowIsLocked
      <3> QED
        BY <3>1, OnceTypes
    <2> QED
      BY <1>1, <2>1, <2>2
  <1>5. CASE ~(\/ MarkCompletion(c) \/ MarkDoneAndRelease(c) \/ MarkDoneErrs(c)
               \/ CommitReturns(c) \/ LimboEnds(c) \/ RunStops(c))
    <2>1. UNCHANGED markVars
      BY <1>5 DEF RunNext, CheckDone, ClaimForRun, ClaimIsHeld, CheckDoneAfterRefusal, ClaimFails, CheckDoneUnderClaim,
                  CheckDoneFails, LiveCheck, TaskFails, TaskSucceeds, ReleaseAfterRun, TakeCurrentClaim,
                  RenewInTransaction, TransactionFails, AlreadyMarked, ReleaseRenewed, ReleaseOriginal, ReleaseFails,
                  ReleaseWithoutMarking
    <2> QED
      BY <2>1 DEF markVars
  <1> QED
    BY <1>2, <1>3, <1>4, <1>5

\* Runs are fenced (once_task.rs, once_completion.rs): the completion of an atomic or manual run is committed only
\* while its claim is the last grant of the key, and a run that ends with no error about its claim leaves no live lease.
THEOREM OnceFenced == OnceSpec => RunsAreFenced
  <1>1. ASSUME OnceInv, OnceNext
        PROVE  CompletionIsFenced /\ EndedRunFreesKey
    <2>0. run \in [Users -> OnceRun] /\ recorded \in [Users -> BOOLEAN]
      BY <1>1 DEF OnceInv, OnceTyped
    <2>1. ASSUME NEW d \in Users, RunNext(d)
          PROVE  CompletionIsFenced /\ EndedRunFreesKey
      <3>1. ASSUME NEW c \in Users, recorded'[c], ~recorded[c], mode[c] # "plain"
            PROVE  last = claimed[c]
        <4>1. c = d /\ recorded' # recorded
          BY <1>1, <2>0, <2>1, <3>1, MarkIsFenced
        <4> QED
          BY <1>1, <2>1, <3>1, <4>1, MarkIsFenced
      <3>2. ASSUME NEW c \in Users, run[c].at # "ended", run'[c].at = "ended", claimed[c] # 0, proof[c], ~muddled'[c]
            PROVE  ~(live' /\ fence' = claimed[c])
        <4>1. \E r : run' = [run EXCEPT ![d] = r]
          BY <2>1, Zenon DEF RunNext, CheckDone, ClaimForRun, ClaimIsHeld, CheckDoneAfterRefusal, ClaimFails,
                  CheckDoneUnderClaim, CheckDoneFails, LiveCheck, TaskFails, TaskSucceeds, ReleaseAfterRun,
                  TakeCurrentClaim, RenewInTransaction, TransactionFails, AlreadyMarked, ReleaseRenewed, ReleaseOriginal,
                  ReleaseFails, ReleaseWithoutMarking, MarkCompletion, CommitReturns, LimboEnds, RunStops,
                  MarkDoneAndRelease, MarkDoneErrs, Goto, GotoKnowing, Returns
        <4>2. c = d
          BY <2>0, <3>2, <4>1
        <4> QED
          BY <1>1, <2>1, <3>2, <4>2, EndFrees
      <3> QED
        BY <3>1, <3>2 DEF CompletionIsFenced, EndedRunFreesKey
    <2>2. ASSUME UNCHANGED <<run, recorded>>
          PROVE  CompletionIsFenced /\ EndedRunFreesKey
      BY <2>2 DEF CompletionIsFenced, EndedRunFreesKey
    <2>3. TryReset \/ UNCHANGED onceVars => UNCHANGED <<run, recorded>>
      BY DEF TryReset, onceVars, markVars
    <2> QED
      BY <1>1, <2>1, <2>2, <2>3 DEF OnceNext
  <1>2. ASSUME OnceInv, [OnceNext]_onceAll
        PROVE  [CompletionIsFenced /\ EndedRunFreesKey]_onceAll
    BY <1>1, <1>2
  <1> QED
    BY <1>2, OnceInvariance, PTL DEF OnceSpec, RunsAreFenced
=============================================================================
