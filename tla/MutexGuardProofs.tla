--------------------------- MODULE MutexGuardProofs ---------------------------
(***************************************************************************)
(* Proofs about MutexGuard, over those about LeaseStore: for any number of *)
(* guarded and manual clients, sessions and renewal failures.              *)
(***************************************************************************)
EXTENDS MutexGuard, LeaseStoreProofs

GuardTyped ==
    /\ owner \in [Guarded -> OwnerStates]
    /\ heartbeat \in [Guarded -> HeartbeatStates]
    /\ stop_heartbeat \in [Guarded -> BOOLEAN]
    /\ leadership_lost \in [Guarded -> BOOLEAN]
    /\ failures \in [Guarded -> 0 .. MaxFailures]
    /\ current \in [Guarded -> BOOLEAN]
    /\ lock \in [Guarded -> {"free", "owner", "heartbeat"}]
    /\ verdict \in [Guarded -> {"none", "task_ok", "task_err", "lost"}]
    /\ released \in [Guarded -> {"none", "true", "false", "protocol_failure"}]
    /\ result \in [Guarded -> {"none", "ok", "failed"}]
    /\ interrupted \in [Guarded -> BOOLEAN]

\* A heartbeat gives up before its failures exceed the limit.
FailuresEndHeartbeat(c) == heartbeat[c] # "exited" => failures[c] < MaxFailures

\* Before its guard exists a client has neither claim nor heartbeat.
NothingBeforeGuard(c) ==
    owner[c] \in {"idle", "claiming"} =>
        claim[c].fence = 0 /\ ~interrupted[c] /\ heartbeat[c] = "none"

\* A release that deleted the row came before any other fencing token; the claim is gone.
ReleasedInTime(c) ==
    /\ released[c] = "true" => /\ owner[c] \in {"joining", "done"}
                               /\ claim[c].fence = 0 /\ ~interrupted[c]
    /\ result[c] = "ok" => released[c] = "true"

\* Once another token has been in the row the client's own never comes back.
OvertakenForGood(c) == interrupted[c] /\ claim[c].fence # 0 => lease.fence # claim[c].fence

\* Who holds the lock around current_claim, and which statements run without it.
LockDiscipline(c) ==
    /\ lock[c] = "owner" <=> owner[c] = "release_sent"
    /\ lock[c] = "heartbeat" <=> heartbeat[c] = "renewing"
    /\ \A s \in Slots : Awaits(c, s) /\ stmt[s].kind # "claim" =>
          lock[c] # "free" \/ (owner[c] = "cleaning" /\ heartbeat[c] = "exited")

ClientInv(c) ==
    /\ FailuresEndHeartbeat(c) /\ NothingBeforeGuard(c) /\ ReleasedInTime(c)
    /\ OvertakenForGood(c) /\ LockDiscipline(c)

GuardInv == IInv /\ GuardTyped /\ \A c \in Guarded : ClientInv(c)

\* Nobody has a claim or a heartbeat at the start.
LEMMA GuardInitInv == GuardInit => GuardInv
  <1> SUFFICES ASSUME GuardInit PROVE GuardInv
    OBVIOUS
  <1>1. IInv
    BY InitIInv DEF GuardInit
  <1>2. GuardTyped
    BY GuardAssumption DEF GuardInit, GuardTyped, OwnerStates, HeartbeatStates
  <1>3. ASSUME NEW c \in Guarded
        PROVE  ClientInv(c)
    BY <1>3, GuardAssumption
    DEF GuardInit, Init, ClientInv, FailuresEndHeartbeat, NothingBeforeGuard, ReleasedInTime,
        OvertakenForGood, LockDiscipline, Awaits, NoClaim, Idle
  <1> QED
    BY <1>1, <1>2, <1>3 DEF GuardInv

-----------------------------------------------------------------------------
(***************************************************************************)
(* What the calls on the lease do to claims and awaited statements.        *)
(***************************************************************************)
Calls(c, s) == TryClaimLease(c, s) \/ TryRenewLease(c, s) \/ ReleaseLease(c, s)

\* Sending a statement: its client awaits it and no other.
LEMMA Sends ==
    ASSUME IInv, NEW c \in Clients, NEW s \in Slots, NEW st, SendStatement(s, st), st.client = c
    PROVE  /\ \A r \in Slots : r # s => stmt'[r] = stmt[r] /\ ~Awaits(c, r)
           /\ stmt'[s] = st
  BY DEF IInv, TypeOK, AwaitedIsCurrent, SendStatement, Busy, Awaits

\* A call sends one statement, which its client then awaits; its claim stays.
LEMMA CallSends ==
    ASSUME IInv, NEW c \in Clients, NEW s \in Slots, Calls(c, s)
    PROVE  /\ [Next]_vars /\ claim' = claim /\ lease' = lease
           /\ \A r \in Slots : r # s => stmt'[r] = stmt[r] /\ ~Awaits(c, r)
           /\ stmt'[s].client = c
           /\ TryClaimLease(c, s) => stmt'[s].kind = "claim" /\ claim[c].fence = 0
           /\ ~TryClaimLease(c, s) => claim[c].fence # 0
  <1>1. [Next]_vars
    BY DEF Calls, Next
  <1>2. CASE TryClaimLease(c, s)
    <2> DEFINE st(t) == [kind |-> "claim", client |-> c, awaited |-> TRUE,
                         ts |-> now, saw |-> lease.born, fence |-> 0,
                         old |-> 0, new |-> t]
    <2>1. PICK t \in 1 .. MaxToken : SendStatement(s, st(t))
      BY <1>2 DEF TryClaimLease
    <2>2. st(t).client = c /\ st(t).kind = "claim"
      OBVIOUS
    <2>3. claim' = claim /\ lease' = lease /\ claim[c].fence = 0
      BY <1>2 DEF TryClaimLease, HasClaim
    <2> HIDE DEF st
    <2> QED
      BY <1>1, <1>2, <2>1, <2>2, <2>3, Sends
  <1>3. CASE TryRenewLease(c, s)
    <2> DEFINE st(t) == [kind |-> "renew", client |-> c, awaited |-> TRUE,
                         ts |-> now, saw |-> 0, fence |-> claim[c].fence,
                         old |-> claim[c].token, new |-> t]
    <2>1. PICK t \in 1 .. MaxToken : SendStatement(s, st(t))
      BY <1>3 DEF TryRenewLease
    <2>2. st(t).client = c
      OBVIOUS
    <2>3. claim' = claim /\ lease' = lease /\ claim[c].fence # 0
      BY <1>3 DEF TryRenewLease, HasClaim
    <2>4. ~TryClaimLease(c, s)
      BY <2>3 DEF TryClaimLease, HasClaim
    <2> HIDE DEF st
    <2> QED
      BY <1>1, <2>1, <2>2, <2>3, <2>4, Sends
  <1>4. CASE ReleaseLease(c, s)
    <2> DEFINE st == [kind |-> "release", client |-> c, awaited |-> TRUE,
                      ts |-> now, saw |-> 0, fence |-> claim[c].fence,
                      old |-> claim[c].token, new |-> 0]
    <2>1. SendStatement(s, st)
      BY <1>4 DEF ReleaseLease
    <2>2. st.client = c
      OBVIOUS
    <2>3. claim' = claim /\ lease' = lease /\ claim[c].fence # 0
      BY <1>4 DEF ReleaseLease, HasClaim
    <2>4. ~TryClaimLease(c, s)
      BY <2>3 DEF TryClaimLease, HasClaim
    <2> HIDE DEF st
    <2> QED
      BY <1>1, <2>1, <2>2, <2>3, <2>4, Sends
  <1> QED
    BY <1>2, <1>3, <1>4 DEF Calls

Ends(s) ==
    \/ StatementRollsBack(s) \/ Abandon(s)
    \/ \E delivered \in BOOLEAN :
          ClaimFinish(s, delivered) \/ RenewFinish(s, delivered) \/ ReleaseFinish(s, delivered)

\* A statement that ends, or is not waited for any longer, is awaited by nobody; of the claims only that of its
\* client changes, if it was waited for: it keeps its fencing token, or is gone, or has just been granted.
LEMMA StatementEnds ==
    ASSUME IInv, NEW s \in Slots, Ends(s)
    PROVE  /\ [Next]_vars
           /\ \A r \in Slots : r # s => stmt'[r] = stmt[r]
           /\ ~stmt'[s].awaited
           /\ \A d \in Clients : d # stmt[s].client => claim'[d] = claim[d]
           /\ ~stmt[s].awaited => claim' = claim
           /\ \/ claim'[stmt[s].client].fence \in {claim[stmt[s].client].fence, 0}
              \/ ClaimFinish(s, TRUE) /\ Granted(stmt[s])
                 /\ claim'[stmt[s].client].fence = lease'.fence
  <1>0. /\ stmt \in [Slots -> Statement] /\ claim \in [Clients -> Claim] /\ stmt[s].client \in Clients
        /\ lease \in LeaseRow
    BY DEF IInv, TypeOK, Statement
  <1>1. [Next]_vars
    BY DEF Ends, Next
  <1>2. \A r \in Slots : (r # s => stmt'[r] = stmt[r]) /\ (r = s => ~stmt'[r].awaited)
    BY <1>0 DEF Ends, StatementRollsBack, Abandon, ClaimFinish, RenewFinish, ReleaseFinish, EndStatement, Idle,
                Statement
  <1>3. \A d \in Clients : d # stmt[s].client => claim'[d] = claim[d]
    BY <1>0 DEF Ends, StatementRollsBack, Abandon, ClaimFinish, RenewFinish, ReleaseFinish
  <1>4. ~stmt[s].awaited => claim' = claim
    BY DEF Ends, StatementRollsBack, Abandon, ClaimFinish, RenewFinish, ReleaseFinish, Deliverable
  <1> DEFINE c == stmt[s].client
  <1>5. CASE ClaimFinish(s, TRUE) /\ Granted(stmt[s])
    <2>1. claim' = [claim EXCEPT ![c] = ClaimOf(ClaimedRow(stmt[s]))] /\ lease' = ClaimedRow(stmt[s])
      BY <1>5 DEF ClaimFinish
    <2>2. claim'[c] = ClaimOf(lease')
      BY <1>0, <2>1
    <2>3. claim'[c].fence = lease'.fence
      BY <2>2 DEF ClaimOf
    <2> QED
      BY <1>1, <1>2, <1>3, <1>4, <1>5, <2>3
  <1>6. CASE RenewFinish(s, TRUE) /\ OwnsLease(stmt[s])
    <2>1. claim' = [claim EXCEPT ![c] = ClaimOf(RenewedRow(stmt[s]))] /\ Owning(s) /\ stmt[s].awaited
      BY <1>6 DEF RenewFinish, Owning, Deliverable
    <2>2. stmt[s].fence = claim[c].fence
      BY <2>1 DEF IInv, AwaitedIsCurrent
    <2>3. RenewedRow(stmt[s]).fence = claim[c].fence
      BY <1>0, <1>6, <2>2 DEF OwnsLease, RenewedRow, LeaseRow
    <2>4. claim'[c].fence = RenewedRow(stmt[s]).fence
      BY <1>0, <2>1 DEF ClaimOf
    <2> QED
      BY <1>1, <1>2, <1>3, <1>4, <2>3, <2>4
  <1>7. CASE ReleaseFinish(s, TRUE)
    <2>1. claim'[c].fence = 0
      BY <1>0, <1>7 DEF ReleaseFinish, NoClaim
    <2> QED
      BY <1>1, <1>2, <1>3, <1>4, <2>1
  <1>8. CASE claim' = claim
    BY <1>1, <1>2, <1>3, <1>4, <1>8
  <1>9. \/ ClaimFinish(s, TRUE) /\ Granted(stmt[s])
        \/ RenewFinish(s, TRUE) /\ OwnsLease(stmt[s])
        \/ ReleaseFinish(s, TRUE)
        \/ claim' = claim
    BY DEF Ends, StatementRollsBack, Abandon, ClaimFinish, RenewFinish, ReleaseFinish
  <1> QED
    BY <1>5, <1>6, <1>7, <1>8, <1>9

\* A client awaits one statement at a time.
LEMMA AwaitsOne ==
    ASSUME IInv, NEW c, NEW s \in Slots, Awaits(c, s)
    PROVE  \A r \in Slots : r # s => ~Awaits(c, r)
  BY DEF IInv, AwaitedIsCurrent, Awaits

\* A call that returns an error leaves the claim as it was.
LEMMA ErrorKeepsClaim ==
    ASSUME NEW s, StatementErrs(s) \/ StatementRollsBack(s) \/ Abandon(s)
    PROVE  claim' = claim
  BY DEF StatementErrs, StatementRollsBack, Abandon, ClaimFinish, RenewFinish, ReleaseFinish

\* A statement that fails, rolls back or is given up has ended.
LEMMA ErrorEnds ==
    ASSUME NEW s, StatementErrs(s) \/ StatementRollsBack(s) \/ Abandon(s)
    PROVE  Ends(s)
  BY DEF StatementErrs, Ends

-----------------------------------------------------------------------------
(***************************************************************************)
(* The step of one guarded client.                                         *)
(***************************************************************************)
\* A guard that stays as it is.
GuardStays(d) ==
    /\ owner'[d] = owner[d] /\ heartbeat'[d] = heartbeat[d] /\ failures'[d] = failures[d]
    /\ lock'[d] = lock[d] /\ released'[d] = released[d] /\ result'[d] = result[d]

\* A client whose claim stays, and who waits for nothing new.
ClaimStays(d) ==
    /\ claim'[d] = claim[d]
    /\ \A s \in Slots : Awaits(d, s)' => Awaits(d, s) /\ stmt'[s] = stmt[s]

OtherGuardsStay(c) == \A d \in Guarded : d # c => GuardStays(d)

OtherClaimsStay(c) == \A d \in Guarded : d # c => ClaimStays(d)

\* The history of a client that gets no new claim.
LEMMA OvertakenStays ==
    ASSUME GuardInv, IInv', [Next]_vars, History, NEW c \in Guarded,
           claim'[c].fence \in {claim[c].fence, 0}
    PROVE  /\ OvertakenForGood(c)'
           /\ claim'[c].fence = 0 => interrupted'[c] = interrupted[c]
  <1>1. interrupted'[c] = (interrupted[c] \/ Superseded(c)')
    BY DEF History
  <1>2. /\ counter \in Nat /\ claim[c].fence \in Nat /\ claim[c].fence <= counter
        /\ interrupted[c] \in BOOLEAN
    BY GuardAssumption, FieldTypes DEF GuardInv, GuardTyped, IInv, CounterBounds
  <1>3. Superseded(c)' = (claim'[c].fence # 0 /\ lease'.fence \notin {0, claim'[c].fence})
    BY DEF Superseded, HasClaim
  <1>4. \/ lease'.fence \in {lease.fence, 0} \/ lease'.fence = counter + 1
    BY FenceSteps DEF GuardInv
  <1>5. ASSUME interrupted'[c], claim'[c].fence # 0
        PROVE  lease'.fence # claim'[c].fence
    <2>1. CASE interrupted[c]
      BY <1>2, <1>4, <1>5, <2>1 DEF GuardInv, ClientInv, OvertakenForGood
    <2>2. CASE Superseded(c)'
      BY <1>3, <2>2
    <2> QED
      BY <1>1, <1>5, <2>1, <2>2
  <1> QED
    BY <1>1, <1>2, <1>3, <1>5 DEF OvertakenForGood

\* A client whose guard and claim stay as they are.
LEMMA BystanderKeepsInv ==
    ASSUME GuardInv, IInv', [Next]_vars, History, NEW d \in Guarded, GuardStays(d), ClaimStays(d)
    PROVE  ClientInv(d)'
  <1>1. ClientInv(d)
    BY DEF GuardInv
  <1>2. OvertakenForGood(d)' /\ (claim'[d].fence = 0 => interrupted'[d] = interrupted[d])
    BY OvertakenStays DEF ClaimStays
  <1>3. FailuresEndHeartbeat(d)' /\ LockDiscipline(d)'
    BY <1>1 DEF ClientInv, FailuresEndHeartbeat, LockDiscipline, GuardStays, ClaimStays
  <1>4. NothingBeforeGuard(d)' /\ ReleasedInTime(d)'
    BY <1>1, <1>2 DEF ClientInv, NothingBeforeGuard, ReleasedInTime, GuardStays, ClaimStays
  <1> QED
    BY <1>2, <1>3, <1>4 DEF ClientInv

\* What is left to show of a step of one guarded client.
LEMMA StepOfClient ==
    ASSUME GuardInv, [Next]_vars, History, NEW c \in Guarded,
           GuardTyped', OtherGuardsStay(c), OtherClaimsStay(c),
           FailuresEndHeartbeat(c)', LockDiscipline(c)',
           \/ claim'[c].fence \in {claim[c].fence, 0}
           \/ claim'[c].fence = lease'.fence /\ ~interrupted[c] /\ owner'[c] = "guarded" /\ released'[c] # "true",
           owner'[c] \in {"idle", "claiming"} =>
               claim'[c].fence = 0 /\ ~interrupted[c] /\ heartbeat'[c] = "none",
           released'[c] = "true" =>
               owner'[c] \in {"joining", "done"} /\ claim'[c].fence = 0 /\ ~interrupted[c],
           result'[c] = "ok" => released'[c] = "true"
    PROVE  GuardInv'
  <1>0. IInv'
    BY NextPreserves DEF GuardInv
  <1>1. ASSUME NEW d \in Guarded, d # c
        PROVE  ClientInv(d)'
    BY <1>0, <1>1, BystanderKeepsInv DEF OtherGuardsStay, OtherClaimsStay
  <1>2. CASE claim'[c].fence \in {claim[c].fence, 0}
    <2>1. OvertakenForGood(c)' /\ (claim'[c].fence = 0 => interrupted'[c] = interrupted[c])
      BY <1>0, <1>2, OvertakenStays
    <2>2. NothingBeforeGuard(c)' /\ ReleasedInTime(c)'
      BY <2>1 DEF NothingBeforeGuard, ReleasedInTime
    <2> QED
      BY <1>0, <1>1, <2>1, <2>2 DEF GuardInv, ClientInv
  <1>3. CASE /\ claim'[c].fence = lease'.fence /\ ~interrupted[c]
             /\ owner'[c] = "guarded" /\ released'[c] # "true"
    <2>1. interrupted'[c] = (interrupted[c] \/ Superseded(c)')
      BY DEF History
    <2>2. ~interrupted'[c]
      BY <1>3, <2>1 DEF Superseded, HasClaim
    <2>3. OvertakenForGood(c)' /\ NothingBeforeGuard(c)' /\ ReleasedInTime(c)'
      BY <1>3, <2>2 DEF OvertakenForGood, NothingBeforeGuard, ReleasedInTime
    <2> QED
      BY <1>0, <1>1, <2>3 DEF GuardInv, ClientInv
  <1> QED
    BY <1>2, <1>3

\* A step that leaves the lease alone.
LEMMA LocalStep ==
    ASSUME GuardInv, UNCHANGED vars, History, NEW c \in Guarded,
           GuardTyped', OtherGuardsStay(c), failures'[c] = failures[c], lock'[c] = lock[c],
           \/ owner'[c] = owner[c]
           \/ /\ owner[c] \notin {"idle", "claiming", "release_sent", "cleaning"}
              /\ owner'[c] \notin {"idle", "claiming", "release_sent"},
           \/ heartbeat'[c] = heartbeat[c]
           \/ /\ heartbeat[c] \notin {"none", "renewing", "exited"}
              /\ heartbeat'[c] \in {"locking", "exited"},
           released'[c] = "true" => released[c] = "true" /\ owner'[c] \in {"joining", "done"},
           result'[c] = "ok" => released'[c] = "true"
    PROVE  GuardInv'
  <1>1. /\ [Next]_vars /\ claim' = claim /\ stmt' = stmt
    BY DEF vars
  <1>2. ClientInv(c)
    BY DEF GuardInv
  <1>3. OtherClaimsStay(c)
    BY <1>1 DEF OtherClaimsStay, ClaimStays, Awaits
  <1>4. FailuresEndHeartbeat(c)'
    BY <1>2 DEF ClientInv, FailuresEndHeartbeat
  <1>5. LockDiscipline(c)'
    BY <1>1, <1>2 DEF ClientInv, LockDiscipline, Awaits
  <1>6. /\ claim'[c].fence = claim[c].fence
        /\ owner'[c] \in {"idle", "claiming"} =>
               claim'[c].fence = 0 /\ ~interrupted[c] /\ heartbeat'[c] = "none"
        /\ released'[c] = "true" =>
               owner'[c] \in {"joining", "done"} /\ claim'[c].fence = 0 /\ ~interrupted[c]
    BY <1>1, <1>2 DEF ClientInv, NothingBeforeGuard, ReleasedInTime
  <1> QED
    BY <1>1, <1>3, <1>4, <1>5, <1>6, StepOfClient

\* A step in which the client calls: before, it waited for nothing.
LEMMA CallStep ==
    ASSUME GuardInv, NEW c \in Guarded, NEW s \in Slots, Calls(c, s), History,
           GuardTyped', OtherGuardsStay(c),
           failures'[c] = failures[c], released'[c] = released[c], result'[c] = result[c],
           heartbeat'[c] = heartbeat[c] \/ (heartbeat[c] # "exited" /\ heartbeat'[c] # "none"),
           owner'[c] = owner[c] \/ owner[c] \notin {"joining", "done"},
           owner'[c] \in {"idle", "claiming"} =>
               owner[c] \in {"idle", "claiming"} /\ heartbeat'[c] = heartbeat[c],
           lock'[c] = "owner" <=> owner'[c] = "release_sent",
           lock'[c] = "heartbeat" <=> heartbeat'[c] = "renewing",
           \/ TryClaimLease(c, s) \/ lock'[c] # "free"
           \/ owner'[c] = "cleaning" /\ heartbeat'[c] = "exited"
    PROVE  GuardInv'
  <1>0. IInv /\ c \in Clients /\ ClientInv(c)
    BY GuardAssumption DEF GuardInv
  <1>1. /\ [Next]_vars /\ claim' = claim
        /\ \A r \in Slots : r # s => stmt'[r] = stmt[r] /\ ~Awaits(c, r)
        /\ stmt'[s].client = c
        /\ TryClaimLease(c, s) => stmt'[s].kind = "claim"
    BY <1>0, CallSends
  <1>2. OtherClaimsStay(c)
    BY <1>1 DEF OtherClaimsStay, ClaimStays, Awaits
  <1>3. FailuresEndHeartbeat(c)'
    BY <1>0 DEF ClientInv, FailuresEndHeartbeat
  <1>4. LockDiscipline(c)'
    BY <1>1 DEF LockDiscipline, Awaits
  <1>5. /\ claim'[c].fence = claim[c].fence
        /\ owner'[c] \in {"idle", "claiming"} =>
               claim'[c].fence = 0 /\ ~interrupted[c] /\ heartbeat'[c] = "none"
        /\ released'[c] = "true" =>
               owner'[c] \in {"joining", "done"} /\ claim'[c].fence = 0 /\ ~interrupted[c]
        /\ result'[c] = "ok" => released'[c] = "true"
    BY <1>0, <1>1 DEF ClientInv, NothingBeforeGuard, ReleasedInTime
  <1> QED
    BY <1>1, <1>2, <1>3, <1>4, <1>5, StepOfClient

\* The call was a claim, and it was granted.
ClaimGranted(s) == ClaimFinish(s, TRUE) /\ Granted(stmt[s])

\* A step in which the call of the client returns: it waits for nothing any more.
LEMMA ReturnStep ==
    ASSUME GuardInv, NEW c \in Guarded, NEW s \in Slots, Awaits(c, s), Ends(s), History,
           GuardTyped', OtherGuardsStay(c), FailuresEndHeartbeat(c)',
           lock'[c] = "owner" <=> owner'[c] = "release_sent",
           lock'[c] = "heartbeat" <=> heartbeat'[c] = "renewing",
           \/ claim' = claim
           \/ ~ClaimGranted(s)
           \/ owner[c] = "claiming" /\ owner'[c] = "guarded" /\ released'[c] # "true",
           owner'[c] \in {"idle", "claiming"} =>
               /\ owner[c] \in {"idle", "claiming"} /\ heartbeat'[c] = heartbeat[c]
               /\ (claim' = claim \/ ~ClaimGranted(s)),
           released'[c] = "true" =>
               /\ owner'[c] \in {"joining", "done"}
               /\ released[c] = "true" \/ (ReleaseFinish(s, TRUE) /\ OwnsLease(stmt[s])),
           result'[c] = "ok" => released'[c] = "true"
    PROVE  GuardInv'
  <1>0. IInv /\ c \in Clients /\ ClientInv(c) /\ stmt[s].client = c /\ stmt[s].awaited
    BY GuardAssumption DEF GuardInv, Awaits
  <1>1. /\ [Next]_vars
        /\ \A r \in Slots : r # s => stmt'[r] = stmt[r] /\ ~Awaits(c, r)
        /\ ~stmt'[s].awaited
        /\ \A d \in Clients : d # c => claim'[d] = claim[d]
        /\ \/ claim'[c].fence \in {claim[c].fence, 0}
           \/ ClaimGranted(s) /\ claim'[c].fence = lease'.fence
    BY <1>0, StatementEnds, AwaitsOne DEF ClaimGranted
  <1>2. OtherClaimsStay(c)
    BY <1>1, GuardAssumption DEF OtherClaimsStay, ClaimStays, Awaits
  <1>3. LockDiscipline(c)'
    BY <1>1 DEF LockDiscipline, Awaits
  <1>4. owner[c] \in {"idle", "claiming"} => claim[c].fence = 0 /\ ~interrupted[c] /\ heartbeat[c] = "none"
    BY <1>0 DEF ClientInv, NothingBeforeGuard
  <1>5. \/ claim'[c].fence \in {claim[c].fence, 0}
        \/ claim'[c].fence = lease'.fence /\ ~interrupted[c] /\ owner'[c] = "guarded" /\ released'[c] # "true"
    BY <1>1, <1>4
  <1>6. owner'[c] \in {"idle", "claiming"} =>
               claim'[c].fence = 0 /\ ~interrupted[c] /\ heartbeat'[c] = "none"
    BY <1>1, <1>4
  <1>7. ASSUME released'[c] = "true"
        PROVE  claim'[c].fence = 0 /\ ~interrupted[c]
    <2>1. CASE released[c] = "true"
      BY <1>0, <1>1, <1>5, <1>7, <2>1 DEF ClientInv, ReleasedInTime
    <2>2. CASE ReleaseFinish(s, TRUE) /\ OwnsLease(stmt[s])
      <3>1. claim'[c].fence = 0
        BY <1>0, <2>2 DEF ReleaseFinish, NoClaim, IInv, TypeOK
      <3>2. claim[c].fence = stmt[s].fence
        BY <1>0, <2>2 DEF IInv, AwaitedIsCurrent, Owning, ReleaseFinish
      <3>3. lease.fence = claim[c].fence /\ lease.fence # 0
        BY <2>2, <3>2 DEF OwnsLease
      <3> QED
        BY <1>0, <3>1, <3>3 DEF ClientInv, OvertakenForGood
    <2> QED
      BY <1>7, <2>1, <2>2
  <1> QED
    BY <1>1, <1>2, <1>3, <1>5, <1>6, <1>7, StepOfClient

\* A step of somebody else: a manual client, the server, the clock.
LEMMA ForeignStep ==
    ASSUME GuardInv, [Next]_vars, History, UNCHANGED guardVars,
           \A d \in Guarded : ClaimStays(d)
    PROVE  GuardInv'
  <1>1. IInv'
    BY NextPreserves DEF GuardInv
  <1>2. \A d \in Guarded : GuardStays(d)
    BY DEF guardVars, GuardStays
  <1>3. GuardTyped'
    BY DEF GuardInv, GuardTyped, guardVars, History
  <1> QED
    BY <1>1, <1>2, <1>3, BystanderKeepsInv DEF GuardInv

-----------------------------------------------------------------------------
\* Owner, heartbeat and caller, where they leave the lease alone.
LEMMA LocalActionsPreserve ==
    ASSUME GuardInv, History, NEW c \in Guarded,
           \/ CheckLostBeforeTask(c) \/ LiveClaimSnapshot(c) \/ TaskEnds(c)
           \/ NothingToRelease(c) \/ HeartbeatJoined(c) \/ CleanupNothing(c)
           \/ HeartbeatWakes(c) \/ HeartbeatFindsNoClaim(c) \/ CancelRun(c) \/ CancelJoin(c)
    PROVE  GuardInv'
  <1>0. GuardTyped /\ ReleasedInTime(c) /\ interrupted' \in [Guarded -> BOOLEAN]
    BY DEF GuardInv, ClientInv, History
  <1>1. CASE CheckLostBeforeTask(c)
    <2>1. GuardTyped' /\ OtherGuardsStay(c)
      BY <1>0, <1>1 DEF CheckLostBeforeTask, GuardTyped, OtherGuardsStay, GuardStays, Set, OwnerStates, HeartbeatStates
    <2> QED
      BY <1>0, <1>1, <2>1, LocalStep DEF CheckLostBeforeTask, GuardTyped, ReleasedInTime, Set
  <1>2. CASE LiveClaimSnapshot(c)
    <2>1. GuardTyped' /\ OtherGuardsStay(c)
      BY <1>0, <1>2 DEF LiveClaimSnapshot, GuardTyped, OtherGuardsStay, GuardStays, Set, OwnerStates, HeartbeatStates
    <2> QED
      BY <1>0, <1>2, <2>1, LocalStep DEF LiveClaimSnapshot, GuardTyped, ReleasedInTime, Set
  <1>3. CASE TaskEnds(c)
    <2>1. GuardTyped' /\ OtherGuardsStay(c)
      BY <1>0, <1>3 DEF TaskEnds, GuardTyped, OtherGuardsStay, GuardStays, Set, OwnerStates, HeartbeatStates
    <2> QED
      BY <1>0, <1>3, <2>1, LocalStep DEF TaskEnds, GuardTyped, ReleasedInTime, Set
  <1>4. CASE NothingToRelease(c)
    <2>1. GuardTyped' /\ OtherGuardsStay(c)
      BY <1>0, <1>4 DEF NothingToRelease, StopHeartbeatLoop, GuardTyped, OtherGuardsStay, GuardStays, Set, OwnerStates, HeartbeatStates
    <2> QED
      BY <1>0, <1>4, <2>1, LocalStep DEF NothingToRelease, StopHeartbeatLoop, GuardTyped, ReleasedInTime, Set
  <1>5. CASE HeartbeatJoined(c)
    <2>1. GuardTyped' /\ OtherGuardsStay(c)
      BY <1>0, <1>5 DEF HeartbeatJoined, CombineResults, GuardTyped, OtherGuardsStay, GuardStays, Set, OwnerStates, HeartbeatStates
    <2> QED
      BY <1>0, <1>5, <2>1, LocalStep DEF HeartbeatJoined, CombineResults, GuardTyped, ReleasedInTime, Set
  <1>6. CASE CleanupNothing(c)
    <2>1. GuardTyped' /\ OtherGuardsStay(c)
      BY <1>0, <1>6 DEF CleanupNothing, GuardTyped, OtherGuardsStay, GuardStays, Set, OwnerStates, HeartbeatStates
    <2> QED
      BY <1>0, <1>6, <2>1, LocalStep DEF CleanupNothing, GuardTyped, ReleasedInTime, Set
  <1>7. CASE HeartbeatWakes(c)
    <2>1. GuardTyped' /\ OtherGuardsStay(c)
      BY <1>0, <1>7 DEF HeartbeatWakes, GuardTyped, OtherGuardsStay, GuardStays, Set, OwnerStates, HeartbeatStates
    <2> QED
      BY <1>0, <1>7, <2>1, LocalStep DEF HeartbeatWakes, GuardTyped, ReleasedInTime, Set
  <1>8. CASE HeartbeatFindsNoClaim(c)
    <2>1. GuardTyped' /\ OtherGuardsStay(c)
      BY <1>0, <1>8 DEF HeartbeatFindsNoClaim, GuardTyped, OtherGuardsStay, GuardStays, Set, OwnerStates, HeartbeatStates
    <2> QED
      BY <1>0, <1>8, <2>1, LocalStep DEF HeartbeatFindsNoClaim, GuardTyped, ReleasedInTime, Set
  <1>9. CASE CancelRun(c)
    <2>1. GuardTyped' /\ OtherGuardsStay(c)
      BY <1>0, <1>9 DEF CancelRun, DropGuard, GuardTyped, OtherGuardsStay, GuardStays, Set, OwnerStates, HeartbeatStates
    <2> QED
      BY <1>0, <1>9, <2>1, LocalStep DEF CancelRun, DropGuard, GuardTyped, ReleasedInTime, Set
  <1>10. CASE CancelJoin(c)
    <2>1. GuardTyped' /\ OtherGuardsStay(c)
      BY <1>0, <1>10 DEF CancelJoin, GuardTyped, OtherGuardsStay, GuardStays, Set, OwnerStates, HeartbeatStates
    <2> QED
      BY <1>0, <1>10, <2>1, LocalStep DEF CancelJoin, GuardTyped, ReleasedInTime, Set
  <1> QED
    BY <1>1, <1>2, <1>3, <1>4, <1>5, <1>6, <1>7, <1>8, <1>9, <1>10

\* Owner, heartbeat and caller, where they send a statement.
LEMMA CallActionsPreserve ==
    ASSUME GuardInv, History, NEW c \in Guarded, NEW s \in Slots,
           \/ TryClaimGuard(c, s) \/ ReleaseCurrentClaim(c, s) \/ CleanupRelease(c, s) \/ HeartbeatRenews(c, s)
    PROVE  GuardInv'
  <1>0. /\ GuardTyped /\ interrupted' \in [Guarded -> BOOLEAN]
        /\ lock[c] = "owner" <=> owner[c] = "release_sent"
        /\ lock[c] = "heartbeat" <=> heartbeat[c] = "renewing"
        /\ heartbeat[c] # "none" => owner[c] \notin {"idle", "claiming"}
    BY DEF GuardInv, ClientInv, History, LockDiscipline, NothingBeforeGuard
  <1>1. CASE TryClaimGuard(c, s)
    <2>1. GuardTyped' /\ OtherGuardsStay(c)
      BY <1>0, <1>1 DEF TryClaimGuard, GuardTyped, OtherGuardsStay, GuardStays, Set, OwnerStates, HeartbeatStates
    <2>2. Calls(c, s)
      BY <1>1 DEF TryClaimGuard, Calls
    <2>3. /\ failures'[c] = failures[c] /\ released'[c] = released[c] /\ result'[c] = result[c]
          /\ owner'[c] = "claiming" /\ lock'[c] = lock[c] /\ heartbeat'[c] = heartbeat[c] /\ owner[c] = "idle"
          /\ TryClaimLease(c, s)
      BY <1>0, <1>1 DEF TryClaimGuard, GuardTyped, Set
    <2>4. /\ lock'[c] = "owner" <=> owner'[c] = "release_sent"
          /\ lock'[c] = "heartbeat" <=> heartbeat'[c] = "renewing"
      BY <1>0, <2>3
    <2> QED
      BY <2>1, <2>2, <2>3, <2>4, CallStep
  <1>2. CASE ReleaseCurrentClaim(c, s)
    <2>1. GuardTyped' /\ OtherGuardsStay(c)
      BY <1>0, <1>2 DEF ReleaseCurrentClaim, GuardTyped, OtherGuardsStay, GuardStays, Set, OwnerStates, HeartbeatStates
    <2>2. Calls(c, s)
      BY <1>2 DEF ReleaseCurrentClaim, Calls
    <2>3. /\ failures'[c] = failures[c] /\ released'[c] = released[c] /\ result'[c] = result[c]
          /\ owner'[c] = "release_sent" /\ lock'[c] = "owner" /\ heartbeat'[c] = heartbeat[c] /\ owner[c] = "releasing"
          /\ lock[c] = "free"
      BY <1>0, <1>2 DEF ReleaseCurrentClaim, GuardTyped, Set
    <2>4. /\ lock'[c] = "owner" <=> owner'[c] = "release_sent"
          /\ lock'[c] = "heartbeat" <=> heartbeat'[c] = "renewing"
      BY <1>0, <2>3
    <2> QED
      BY <2>1, <2>2, <2>3, <2>4, CallStep
  <1>3. CASE CleanupRelease(c, s)
    <2>1. GuardTyped' /\ OtherGuardsStay(c)
      BY <1>0, <1>3 DEF CleanupRelease, GuardTyped, OtherGuardsStay, GuardStays, Set, OwnerStates, HeartbeatStates
    <2>2. Calls(c, s)
      BY <1>3 DEF CleanupRelease, Calls
    <2>3. /\ failures'[c] = failures[c] /\ released'[c] = released[c] /\ result'[c] = result[c]
          /\ owner'[c] = "cleaning" /\ lock'[c] = lock[c] /\ heartbeat'[c] = "exited" /\ heartbeat[c] = "exited"
          /\ owner[c] = "dropped"
      BY <1>0, <1>3 DEF CleanupRelease, GuardTyped, Set
    <2>4. /\ lock'[c] = "owner" <=> owner'[c] = "release_sent"
          /\ lock'[c] = "heartbeat" <=> heartbeat'[c] = "renewing"
      BY <1>0, <2>3
    <2> QED
      BY <2>1, <2>2, <2>3, <2>4, CallStep
  <1>4. CASE HeartbeatRenews(c, s)
    <2>1. GuardTyped' /\ OtherGuardsStay(c)
      BY <1>0, <1>4 DEF HeartbeatRenews, GuardTyped, OtherGuardsStay, GuardStays, Set, OwnerStates, HeartbeatStates
    <2>2. Calls(c, s)
      BY <1>4 DEF HeartbeatRenews, Calls
    <2>3. /\ failures'[c] = failures[c] /\ released'[c] = released[c] /\ result'[c] = result[c]
          /\ owner'[c] = owner[c] /\ lock'[c] = "heartbeat" /\ heartbeat'[c] = "renewing" /\ heartbeat[c] = "locking"
          /\ lock[c] = "free" /\ owner[c] \notin {"idle", "claiming"}
      BY <1>0, <1>4 DEF HeartbeatRenews, GuardTyped, Set
    <2>4. /\ lock'[c] = "owner" <=> owner'[c] = "release_sent"
          /\ lock'[c] = "heartbeat" <=> heartbeat'[c] = "renewing"
      BY <1>0, <2>3
    <2> QED
      BY <2>1, <2>2, <2>3, <2>4, CallStep
  <1> QED
    BY <1>1, <1>2, <1>3, <1>4

\* Owner, heartbeat and caller, where a call returns.
LEMMA ReturnActionsPreserve ==
    ASSUME GuardInv, History, NEW c \in Guarded, NEW s \in Slots,
           \/ GuardFromClaim(c, s) \/ NoGuard(c, s) \/ ReleaseReturns(c, s)
           \/ ReleaseProtocolFailure(c, s) \/ ReleaseErrs(c, s) \/ CleanupEnds(c, s)
           \/ HeartbeatRenewed(c, s) \/ HeartbeatRefused(c, s) \/ HeartbeatProtocolFailure(c, s)
           \/ HeartbeatErrs(c, s) \/ CancelClaim(c, s) \/ CancelRelease(c, s)
    PROVE  GuardInv'
  <1>0. /\ GuardTyped /\ interrupted' \in [Guarded -> BOOLEAN] /\ MaxFailures \in Nat \ {0}
        /\ lock[c] = "owner" <=> owner[c] = "release_sent"
        /\ lock[c] = "heartbeat" <=> heartbeat[c] = "renewing"
        /\ heartbeat[c] # "exited" => failures[c] < MaxFailures
        /\ owner[c] \in {"idle", "claiming"} => heartbeat[c] = "none"
        /\ released[c] = "true" => owner[c] \in {"joining", "done"}
        /\ result[c] = "ok" => released[c] = "true"
    BY GuardAssumption
    DEF GuardInv, ClientInv, History, LockDiscipline, NothingBeforeGuard, FailuresEndHeartbeat, ReleasedInTime
  <1>1. CASE GuardFromClaim(c, s)
    <2>1. GuardTyped' /\ OtherGuardsStay(c)
      BY <1>0, <1>1 DEF GuardFromClaim, GuardTyped, OtherGuardsStay, GuardStays, Set, OwnerStates, HeartbeatStates
    <2>2. Awaits(c, s) /\ Ends(s)
      BY <1>1 DEF GuardFromClaim, Ends, StatementErrs
    <2>3. FailuresEndHeartbeat(c)'
      BY <1>0, <1>1 DEF GuardFromClaim, GuardTyped, FailuresEndHeartbeat, Set
    <2>4. /\ owner[c] = "claiming" /\ owner'[c] = "guarded" /\ heartbeat'[c] = "sleeping" /\ lock'[c] = lock[c]
          /\ released'[c] = released[c] /\ result'[c] = result[c] /\ heartbeat[c] = "none"
      BY <1>0, <1>1 DEF GuardFromClaim, GuardTyped, Set
    <2>6. /\ lock'[c] = "owner" <=> owner'[c] = "release_sent"
          /\ lock'[c] = "heartbeat" <=> heartbeat'[c] = "renewing"
          /\ result'[c] = "ok" => released'[c] = "true"
      BY <1>0, <2>4
    <2> QED
      BY <1>0, <2>1, <2>2, <2>3, <2>4, <2>6, ReturnStep
  <1>2. CASE NoGuard(c, s)
    <2>1. GuardTyped' /\ OtherGuardsStay(c)
      BY <1>0, <1>2 DEF NoGuard, GuardTyped, OtherGuardsStay, GuardStays, Set, OwnerStates, HeartbeatStates
    <2>2. Awaits(c, s) /\ Ends(s)
      BY <1>2 DEF NoGuard, Ends, StatementErrs
    <2>3. FailuresEndHeartbeat(c)'
      BY <1>0, <1>2 DEF NoGuard, GuardTyped, FailuresEndHeartbeat, Set
    <2>4. /\ owner[c] = "claiming" /\ owner'[c] = "idle" /\ lock'[c] = lock[c] /\ result'[c] = result[c]
          /\ released'[c] = released[c] /\ heartbeat'[c] = heartbeat[c]
      BY <1>0, <1>2 DEF NoGuard, GuardTyped, Set
    <2>5. claim' = claim \/ ~ClaimGranted(s)
      BY <1>2, ErrorKeepsClaim DEF NoGuard, ClaimGranted, ClaimFinish, RenewFinish, ReleaseFinish
    <2>6. /\ lock'[c] = "owner" <=> owner'[c] = "release_sent"
          /\ lock'[c] = "heartbeat" <=> heartbeat'[c] = "renewing"
          /\ result'[c] = "ok" => released'[c] = "true"
      BY <1>0, <2>4
    <2> QED
      BY <1>0, <2>1, <2>2, <2>3, <2>4, <2>5, <2>6, ReturnStep
  <1>3. CASE ReleaseReturns(c, s)
    <2>1. GuardTyped' /\ OtherGuardsStay(c)
      BY <1>0, <1>3 DEF ReleaseReturns, StopHeartbeatLoop, GuardTyped, OtherGuardsStay, GuardStays, Set, OwnerStates, HeartbeatStates
    <2>2. Awaits(c, s) /\ Ends(s)
      BY <1>3 DEF ReleaseReturns, Ends, StatementErrs
    <2>3. FailuresEndHeartbeat(c)'
      BY <1>0, <1>3 DEF ReleaseReturns, StopHeartbeatLoop, GuardTyped, FailuresEndHeartbeat, Set
    <2>4. /\ lock[c] = "owner" /\ lock'[c] = "free" /\ owner[c] = "release_sent" /\ owner'[c] = "joining"
          /\ heartbeat'[c] = heartbeat[c] /\ result'[c] = result[c] /\ ReleaseFinish(s, TRUE)
          /\ released'[c] = "true" => OwnsLease(stmt[s])
      BY <1>0, <1>3 DEF ReleaseReturns, StopHeartbeatLoop, GuardTyped, Set
    <2>5. claim' = claim \/ ~ClaimGranted(s)
      BY <1>3, ErrorKeepsClaim DEF ReleaseReturns, ClaimGranted, ClaimFinish, RenewFinish, ReleaseFinish
    <2>6. /\ lock'[c] = "owner" <=> owner'[c] = "release_sent"
          /\ lock'[c] = "heartbeat" <=> heartbeat'[c] = "renewing"
          /\ result'[c] = "ok" => released'[c] = "true"
      BY <1>0, <2>4
    <2> QED
      BY <1>0, <2>1, <2>2, <2>3, <2>4, <2>5, <2>6, ReturnStep
  <1>4. CASE ReleaseProtocolFailure(c, s)
    <2>1. GuardTyped' /\ OtherGuardsStay(c)
      BY <1>0, <1>4 DEF ReleaseProtocolFailure, StopHeartbeatLoop, GuardTyped, OtherGuardsStay, GuardStays, Set, OwnerStates, HeartbeatStates
    <2>2. Awaits(c, s) /\ Ends(s)
      BY <1>4 DEF ReleaseProtocolFailure, Ends, StatementErrs
    <2>3. FailuresEndHeartbeat(c)'
      BY <1>0, <1>4 DEF ReleaseProtocolFailure, StopHeartbeatLoop, GuardTyped, FailuresEndHeartbeat, Set
    <2>4. /\ lock[c] = "owner" /\ lock'[c] = "free" /\ owner[c] = "release_sent" /\ owner'[c] = "joining"
          /\ heartbeat'[c] = heartbeat[c] /\ result'[c] = result[c] /\ released'[c] # "true"
      BY <1>0, <1>4 DEF ReleaseProtocolFailure, StopHeartbeatLoop, GuardTyped, Set
    <2>5. claim' = claim \/ ~ClaimGranted(s)
      BY <1>4, ErrorKeepsClaim DEF ReleaseProtocolFailure, ClaimGranted, ClaimFinish, RenewFinish, ReleaseFinish
    <2>6. /\ lock'[c] = "owner" <=> owner'[c] = "release_sent"
          /\ lock'[c] = "heartbeat" <=> heartbeat'[c] = "renewing"
          /\ result'[c] = "ok" => released'[c] = "true"
      BY <1>0, <2>4
    <2> QED
      BY <1>0, <2>1, <2>2, <2>3, <2>4, <2>5, <2>6, ReturnStep
  <1>5. CASE ReleaseErrs(c, s)
    <2>1. GuardTyped' /\ OtherGuardsStay(c)
      BY <1>0, <1>5 DEF ReleaseErrs, DropGuard, GuardTyped, OtherGuardsStay, GuardStays, Set, OwnerStates, HeartbeatStates
    <2>2. Awaits(c, s) /\ Ends(s)
      BY <1>5 DEF ReleaseErrs, Ends, StatementErrs
    <2>3. FailuresEndHeartbeat(c)'
      BY <1>0, <1>5 DEF ReleaseErrs, DropGuard, GuardTyped, FailuresEndHeartbeat, Set
    <2>4. /\ lock[c] = "owner" /\ lock'[c] = "free" /\ owner[c] = "release_sent" /\ owner'[c] = "dropped"
          /\ result'[c] = "failed" /\ released'[c] = released[c] /\ heartbeat'[c] = heartbeat[c]
      BY <1>0, <1>5 DEF ReleaseErrs, DropGuard, GuardTyped, Set
    <2>5. claim' = claim \/ ~ClaimGranted(s)
      BY <1>5, ErrorKeepsClaim DEF ReleaseErrs, ClaimGranted, ClaimFinish, RenewFinish, ReleaseFinish
    <2>6. /\ lock'[c] = "owner" <=> owner'[c] = "release_sent"
          /\ lock'[c] = "heartbeat" <=> heartbeat'[c] = "renewing"
          /\ result'[c] = "ok" => released'[c] = "true"
      BY <1>0, <2>4
    <2> QED
      BY <1>0, <2>1, <2>2, <2>3, <2>4, <2>5, <2>6, ReturnStep
  <1>6. CASE CancelRelease(c, s)
    <2>1. GuardTyped' /\ OtherGuardsStay(c)
      BY <1>0, <1>6 DEF CancelRelease, DropGuard, GuardTyped, OtherGuardsStay, GuardStays, Set, OwnerStates, HeartbeatStates
    <2>2. Awaits(c, s) /\ Ends(s)
      BY <1>6 DEF CancelRelease, Ends, StatementErrs
    <2>3. FailuresEndHeartbeat(c)'
      BY <1>0, <1>6 DEF CancelRelease, DropGuard, GuardTyped, FailuresEndHeartbeat, Set
    <2>4. /\ lock[c] = "owner" /\ lock'[c] = "free" /\ owner[c] = "release_sent" /\ owner'[c] = "dropped"
          /\ result'[c] = "failed" /\ released'[c] = released[c] /\ heartbeat'[c] = heartbeat[c]
      BY <1>0, <1>6 DEF CancelRelease, DropGuard, GuardTyped, Set
    <2>5. claim' = claim \/ ~ClaimGranted(s)
      BY <1>6, ErrorKeepsClaim DEF CancelRelease, ClaimGranted, ClaimFinish, RenewFinish, ReleaseFinish
    <2>6. /\ lock'[c] = "owner" <=> owner'[c] = "release_sent"
          /\ lock'[c] = "heartbeat" <=> heartbeat'[c] = "renewing"
          /\ result'[c] = "ok" => released'[c] = "true"
      BY <1>0, <2>4
    <2> QED
      BY <1>0, <2>1, <2>2, <2>3, <2>4, <2>5, <2>6, ReturnStep
  <1>7. CASE CancelClaim(c, s)
    <2>1. GuardTyped' /\ OtherGuardsStay(c)
      BY <1>0, <1>7 DEF CancelClaim, GuardTyped, OtherGuardsStay, GuardStays, Set, OwnerStates, HeartbeatStates
    <2>2. Awaits(c, s) /\ Ends(s)
      BY <1>7 DEF CancelClaim, Ends, StatementErrs
    <2>3. FailuresEndHeartbeat(c)'
      BY <1>0, <1>7 DEF CancelClaim, GuardTyped, FailuresEndHeartbeat, Set
    <2>4. /\ owner[c] = "claiming" /\ owner'[c] = "done" /\ lock'[c] = lock[c] /\ result'[c] = result[c]
          /\ released'[c] = released[c] /\ heartbeat'[c] = heartbeat[c]
      BY <1>0, <1>7 DEF CancelClaim, GuardTyped, Set
    <2>5. claim' = claim \/ ~ClaimGranted(s)
      BY <1>7, ErrorKeepsClaim DEF CancelClaim, ClaimGranted, ClaimFinish, RenewFinish, ReleaseFinish
    <2>6. /\ lock'[c] = "owner" <=> owner'[c] = "release_sent"
          /\ lock'[c] = "heartbeat" <=> heartbeat'[c] = "renewing"
          /\ result'[c] = "ok" => released'[c] = "true"
      BY <1>0, <2>4
    <2> QED
      BY <1>0, <2>1, <2>2, <2>3, <2>4, <2>5, <2>6, ReturnStep
  <1>8. CASE CleanupEnds(c, s)
    <2>1. GuardTyped' /\ OtherGuardsStay(c)
      BY <1>0, <1>8 DEF CleanupEnds, GuardTyped, OtherGuardsStay, GuardStays, Set, OwnerStates, HeartbeatStates
    <2>2. Awaits(c, s) /\ Ends(s)
      BY <1>8 DEF CleanupEnds, Ends, StatementErrs
    <2>3. FailuresEndHeartbeat(c)'
      BY <1>0, <1>8 DEF CleanupEnds, GuardTyped, FailuresEndHeartbeat, Set
    <2>4. /\ owner[c] = "cleaning" /\ owner'[c] = "done" /\ lock'[c] = lock[c] /\ result'[c] = result[c]
          /\ released'[c] = released[c] /\ heartbeat'[c] = heartbeat[c]
      BY <1>0, <1>8 DEF CleanupEnds, GuardTyped, Set
    <2>5. claim' = claim \/ ~ClaimGranted(s)
      BY <1>8, ErrorKeepsClaim DEF CleanupEnds, ClaimGranted, ClaimFinish, RenewFinish, ReleaseFinish
    <2>6. /\ lock'[c] = "owner" <=> owner'[c] = "release_sent"
          /\ lock'[c] = "heartbeat" <=> heartbeat'[c] = "renewing"
          /\ result'[c] = "ok" => released'[c] = "true"
      BY <1>0, <2>4
    <2> QED
      BY <1>0, <2>1, <2>2, <2>3, <2>4, <2>5, <2>6, ReturnStep
  <1>9. CASE HeartbeatRenewed(c, s)
    <2>1. GuardTyped' /\ OtherGuardsStay(c)
      BY <1>0, <1>9 DEF HeartbeatRenewed, GuardTyped, OtherGuardsStay, GuardStays, Set, OwnerStates, HeartbeatStates
    <2>2. Awaits(c, s) /\ Ends(s)
      BY <1>9 DEF HeartbeatRenewed, Ends, StatementErrs
    <2>3. FailuresEndHeartbeat(c)'
      BY <1>0, <1>9 DEF HeartbeatRenewed, GuardTyped, FailuresEndHeartbeat, Set
    <2>4. /\ lock[c] = "heartbeat" /\ lock'[c] = "free" /\ owner'[c] = owner[c]
          /\ heartbeat[c] = "renewing" /\ released'[c] = released[c] /\ result'[c] = result[c]
          /\ owner[c] \notin {"idle", "claiming"} /\ heartbeat'[c] = "sleeping"
      BY <1>0, <1>9 DEF HeartbeatRenewed, GuardTyped, Set
    <2>5. claim' = claim \/ ~ClaimGranted(s)
      BY <1>9, ErrorKeepsClaim DEF HeartbeatRenewed, ClaimGranted, ClaimFinish, RenewFinish, ReleaseFinish
    <2>6. /\ lock'[c] = "owner" <=> owner'[c] = "release_sent"
          /\ lock'[c] = "heartbeat" <=> heartbeat'[c] = "renewing"
          /\ result'[c] = "ok" => released'[c] = "true"
      BY <1>0, <2>4
    <2> QED
      BY <1>0, <2>1, <2>2, <2>3, <2>4, <2>5, <2>6, ReturnStep
  <1>10. CASE HeartbeatRefused(c, s)
    <2>1. GuardTyped' /\ OtherGuardsStay(c)
      BY <1>0, <1>10 DEF HeartbeatRefused, LoseLeadership, GuardTyped, OtherGuardsStay, GuardStays, Set, OwnerStates, HeartbeatStates
    <2>2. Awaits(c, s) /\ Ends(s)
      BY <1>10 DEF HeartbeatRefused, Ends, StatementErrs
    <2>3. FailuresEndHeartbeat(c)'
      BY <1>0, <1>10 DEF HeartbeatRefused, LoseLeadership, GuardTyped, FailuresEndHeartbeat, Set
    <2>4. /\ lock[c] = "heartbeat" /\ lock'[c] = "free" /\ owner'[c] = owner[c]
          /\ heartbeat[c] = "renewing" /\ released'[c] = released[c] /\ result'[c] = result[c]
          /\ owner[c] \notin {"idle", "claiming"} /\ heartbeat'[c] = "exited"
      BY <1>0, <1>10 DEF HeartbeatRefused, LoseLeadership, GuardTyped, Set
    <2>5. claim' = claim \/ ~ClaimGranted(s)
      BY <1>10, ErrorKeepsClaim DEF HeartbeatRefused, ClaimGranted, ClaimFinish, RenewFinish, ReleaseFinish
    <2>6. /\ lock'[c] = "owner" <=> owner'[c] = "release_sent"
          /\ lock'[c] = "heartbeat" <=> heartbeat'[c] = "renewing"
          /\ result'[c] = "ok" => released'[c] = "true"
      BY <1>0, <2>4
    <2> QED
      BY <1>0, <2>1, <2>2, <2>3, <2>4, <2>5, <2>6, ReturnStep
  <1>11. CASE HeartbeatProtocolFailure(c, s)
    <2>1. GuardTyped' /\ OtherGuardsStay(c)
      BY <1>0, <1>11 DEF HeartbeatProtocolFailure, LoseLeadership, GuardTyped, OtherGuardsStay, GuardStays, Set, OwnerStates, HeartbeatStates
    <2>2. Awaits(c, s) /\ Ends(s)
      BY <1>11 DEF HeartbeatProtocolFailure, Ends, StatementErrs
    <2>3. FailuresEndHeartbeat(c)'
      BY <1>0, <1>11 DEF HeartbeatProtocolFailure, LoseLeadership, GuardTyped, FailuresEndHeartbeat, Set
    <2>4. /\ lock[c] = "heartbeat" /\ lock'[c] = "free" /\ owner'[c] = owner[c]
          /\ heartbeat[c] = "renewing" /\ released'[c] = released[c] /\ result'[c] = result[c]
          /\ owner[c] \notin {"idle", "claiming"} /\ heartbeat'[c] = "exited"
      BY <1>0, <1>11 DEF HeartbeatProtocolFailure, LoseLeadership, GuardTyped, Set
    <2>5. claim' = claim \/ ~ClaimGranted(s)
      BY <1>11, ErrorKeepsClaim DEF HeartbeatProtocolFailure, ClaimGranted, ClaimFinish, RenewFinish, ReleaseFinish
    <2>6. /\ lock'[c] = "owner" <=> owner'[c] = "release_sent"
          /\ lock'[c] = "heartbeat" <=> heartbeat'[c] = "renewing"
          /\ result'[c] = "ok" => released'[c] = "true"
      BY <1>0, <2>4
    <2> QED
      BY <1>0, <2>1, <2>2, <2>3, <2>4, <2>5, <2>6, ReturnStep
  <1>12. CASE HeartbeatErrs(c, s)
    <2>0. failures[c] + 1 \in 0 .. MaxFailures /\ failures[c] + 1 \in Nat
      BY <1>0, <1>12 DEF HeartbeatErrs, GuardTyped
    <2>1. GuardTyped' /\ OtherGuardsStay(c)
      BY <1>0, <1>12, <2>0 DEF HeartbeatErrs, LoseLeadership, GuardTyped, OtherGuardsStay, GuardStays, Set, OwnerStates, HeartbeatStates
    <2>2. Awaits(c, s) /\ Ends(s)
      BY <1>12 DEF HeartbeatErrs, Ends, StatementErrs
    <2>3. FailuresEndHeartbeat(c)'
      BY <1>0, <1>12, <2>0 DEF HeartbeatErrs, LoseLeadership, GuardTyped, FailuresEndHeartbeat, Set
    <2>4. /\ lock[c] = "heartbeat" /\ lock'[c] = "free" /\ owner'[c] = owner[c]
          /\ heartbeat[c] = "renewing" /\ released'[c] = released[c] /\ result'[c] = result[c]
          /\ owner[c] \notin {"idle", "claiming"} /\ heartbeat'[c] \in {"sleeping", "exited"}
      BY <1>0, <1>12 DEF HeartbeatErrs, LoseLeadership, GuardTyped, Set
    <2>5. claim' = claim \/ ~ClaimGranted(s)
      BY <1>12, ErrorKeepsClaim DEF HeartbeatErrs, ClaimGranted, ClaimFinish, RenewFinish, ReleaseFinish
    <2>6. /\ lock'[c] = "owner" <=> owner'[c] = "release_sent"
          /\ lock'[c] = "heartbeat" <=> heartbeat'[c] = "renewing"
          /\ result'[c] = "ok" => released'[c] = "true"
      BY <1>0, <2>4
    <2> QED
      BY <1>0, <2>1, <2>2, <2>3, <2>4, <2>5, <2>6, ReturnStep
  <1> QED
    BY <1>1, <1>2, <1>3, <1>4, <1>5, <1>6, <1>7, <1>8, <1>9, <1>10, <1>11, <1>12

-----------------------------------------------------------------------------
\* The server ends a statement nobody waits for: no claim changes.
LEMMA ServerPreserves ==
    ASSUME GuardInv, History, NEW s \in Slots, ServerNext(s)
    PROVE  GuardInv'
  <1>1. Ends(s) /\ ~stmt[s].awaited /\ UNCHANGED guardVars
    BY DEF ServerNext, Ends
  <1>2. /\ [Next]_vars /\ claim' = claim /\ ~stmt'[s].awaited
        /\ \A r \in Slots : r # s => stmt'[r] = stmt[r]
    BY <1>1, StatementEnds DEF GuardInv
  <1>3. \A d \in Guarded : ClaimStays(d)
    BY <1>2 DEF ClaimStays, Awaits
  <1> QED
    BY <1>1, <1>2, <1>3, ForeignStep

\* A client that manages its claim itself does not disturb the guards.
LEMMA ManualPreserves ==
    ASSUME GuardInv, History, NEW c \in Clients \ Guarded, ManualCall(c) \/ ManualReturn(c)
    PROVE  GuardInv'
  <1>0. IInv /\ UNCHANGED guardVars /\ c \notin Guarded /\ c \in Clients
    BY DEF GuardInv, ManualCall, ManualReturn
  <1>1. CASE DropClaim(c)
    <2>1. [Next]_vars
      BY <1>0, <1>1 DEF Next
    <2>2. \A d \in Guarded : ClaimStays(d)
      BY <1>0, <1>1, GuardAssumption DEF DropClaim, ClaimStays, Awaits, IInv, TypeOK
    <2> QED
      BY <1>0, <2>1, <2>2, ForeignStep
  <1>2. CASE \E s \in Slots : Calls(c, s)
    <2>1. PICK s \in Slots : Calls(c, s)
      BY <1>2
    <2>2. /\ [Next]_vars /\ claim' = claim /\ stmt'[s].client = c
          /\ \A r \in Slots : r # s => stmt'[r] = stmt[r]
      BY <1>0, <2>1, CallSends
    <2>3. \A d \in Guarded : ClaimStays(d)
      BY <1>0, <2>2 DEF ClaimStays, Awaits
    <2> QED
      BY <1>0, <2>2, <2>3, ForeignStep
  <1>3. CASE \E s \in Slots : Awaits(c, s) /\ Ends(s)
    <2>1. PICK s \in Slots : Awaits(c, s) /\ Ends(s)
      BY <1>3
    <2>2. /\ [Next]_vars /\ ~stmt'[s].awaited
          /\ \A r \in Slots : r # s => stmt'[r] = stmt[r]
          /\ \A d \in Clients : d # stmt[s].client => claim'[d] = claim[d]
          /\ stmt[s].client = c
      BY <1>0, <2>1, StatementEnds DEF Awaits
    <2>3. \A d \in Guarded : ClaimStays(d)
      BY <1>0, <2>2, GuardAssumption DEF ClaimStays, Awaits
    <2> QED
      BY <1>0, <2>2, <2>3, ForeignStep
  <1> QED
    BY <1>1, <1>2, <1>3 DEF ManualCall, ManualReturn, Calls, Ends, StatementErrs

\* The invariant of the guarded clients is inductive.
LEMMA GuardNextPreserves == GuardInv /\ [GuardNext]_allVars => GuardInv'
  <1> SUFFICES ASSUME GuardInv, [GuardNext]_allVars PROVE GuardInv'
    OBVIOUS
  <1>1. ASSUME NEW c \in Guarded, OwnerNext(c) \/ HeartbeatNext(c) \/ CallerNext(c), History
        PROVE  GuardInv'
    BY <1>1, LocalActionsPreserve, CallActionsPreserve, ReturnActionsPreserve
    DEF OwnerNext, HeartbeatNext, CallerNext
  <1>2. ASSUME Tick, UNCHANGED guardVars, History
        PROVE  GuardInv'
    <2>1. [Next]_vars
      BY <1>2 DEF Next
    <2>2. \A d \in Guarded : ClaimStays(d)
      BY <1>2 DEF Tick, ClaimStays, Awaits
    <2> QED
      BY <1>2, <2>1, <2>2, ForeignStep
  <1>3. CASE UNCHANGED allVars
    <2>1. [Next]_vars /\ UNCHANGED guardVars /\ UNCHANGED vars /\ UNCHANGED interrupted
      BY <1>3 DEF allVars
    <2>2. IInv'
      BY <2>1, NextPreserves DEF GuardInv
    <2>3. GuardTyped'
      BY <2>1 DEF guardVars, GuardInv, GuardTyped
    <2>4. ASSUME NEW c \in Guarded
          PROVE  ClientInv(c)'
      <3>1. ClientInv(c)
        BY DEF GuardInv
      <3> QED
        BY <2>1, <3>1 DEF guardVars, vars, ClientInv, FailuresEndHeartbeat, NothingBeforeGuard, ReleasedInTime,
                          OvertakenForGood, LockDiscipline, Awaits
    <2> QED
      BY <2>2, <2>3, <2>4 DEF GuardInv
  <1> QED
    BY <1>1, <1>2, <1>3, ServerPreserves, ManualPreserves DEF GuardNext

\* Guards, heartbeats and the locks between them keep their invariant.
THEOREM GuardInvariance == GuardSpec => []GuardInv
  BY GuardInitInv, GuardNextPreserves, PTL DEF GuardSpec

\* Success is only reported for a run nobody came between, and statements of heartbeat and release run under
\* the lock around the claim (run_task_once_under_mutex_guard, MutexGuard::release).
THEOREM GuardSoundness == GuardSpec => []GuardIsSound
  <1>1. GuardInv => GuardIsSound
    <2> SUFFICES ASSUME GuardInv PROVE GuardIsSound
      OBVIOUS
    <2>1. GuardTypeOK
      BY DEF GuardInv, IInv, GuardTyped, GuardTypeOK
    <2>2. SuccessMeansUninterrupted
      BY DEF GuardInv, ClientInv, ReleasedInTime, SuccessMeansUninterrupted
    <2>3. StatementsHoldTheLock
      BY DEF GuardInv, ClientInv, LockDiscipline, StatementsHoldTheLock
    <2> QED
      BY <2>1, <2>2, <2>3 DEF GuardIsSound
  <1> QED
    BY <1>1, GuardInvariance, PTL

\* Whatever owner, heartbeat and callers do are steps of the lease: what LeaseStore promises holds of the
\* guarded clients too.
LEMMA GuardStepsAreLeaseSteps == GuardInv /\ [GuardNext]_allVars => [Next]_vars
  <1> SUFFICES ASSUME [GuardNext]_allVars PROVE [Next]_vars
    OBVIOUS
  <1>1. ASSUME NEW c \in Guarded, OwnerNext(c) \/ HeartbeatNext(c) \/ CallerNext(c)
        PROVE  [Next]_vars
    BY <1>1, GuardAssumption
    DEF OwnerNext, HeartbeatNext, CallerNext, CheckLostBeforeTask, LiveClaimSnapshot, TaskEnds, NothingToRelease,
        HeartbeatJoined, CleanupNothing, GuardFromClaim, NoGuard, ReleaseCurrentClaim, ReleaseReturns,
        ReleaseProtocolFailure, ReleaseErrs, CleanupRelease, CleanupEnds, HeartbeatWakes, HeartbeatFindsNoClaim,
        HeartbeatRenews, HeartbeatRenewed, HeartbeatRefused, HeartbeatProtocolFailure, HeartbeatErrs, CancelRun,
        CancelJoin, TryClaimGuard, CancelClaim, CancelRelease, StatementErrs, Next
  <1>2. ASSUME NEW s \in Slots, ServerNext(s)
        PROVE  [Next]_vars
    BY <1>2 DEF ServerNext, Next
  <1>3. ASSUME NEW c \in Clients, ManualCall(c) \/ ManualReturn(c)
        PROVE  [Next]_vars
    BY <1>3 DEF ManualCall, ManualReturn, StatementErrs, Next
  <1>4. Tick => [Next]_vars
    BY DEF Next
  <1> QED
    BY <1>1, <1>2, <1>3, <1>4 DEF GuardNext, allVars

\* A guarded client, too, never steals a live lease, and its local deadline is as safe as that of a manual one.
THEOREM GuardsUseTheLease == GuardSpec => Spec /\ []LocalExpiryIsSafe /\ []FencesAreUnique
  <1>1. GuardInit => Init
    BY DEF GuardInit
  <1>2. GuardSpec => Spec
    BY <1>1, GuardStepsAreLeaseSteps, GuardInvariance, PTL DEF GuardSpec, Spec
  <1> QED
    BY <1>2, LocalExpirySafety, FenceUniqueness, PTL
=============================================================================
