-------------------------- MODULE LeaseStoreProofs --------------------------
(***************************************************************************)
(* Proofs about LeaseStore, for any number of clients, sessions, holders,  *)
(* durations, ticks and tokens.                                            *)
(***************************************************************************)
EXTENDS LeaseStore, TLAPS

Owning(s) == stmt[s].kind \in {"renew", "release"}

\* Statements run on timestamps of the past, and an expiry a client was told
\* is at most one claim duration away.
TimesArePast ==
    /\ \A s \in Slots : stmt[s].ts <= now
    /\ \A c \in Clients : claim[c].expires <= now + Duration[c]

\* The durable counter bounds every fencing token that is still known.
CounterBounds ==
    /\ lease.fence <= counter
    /\ \A c \in Clients : claim[c].fence <= counter
    /\ \A s \in Slots : stmt[s].fence <= counter

\* Tokens are drawn once: a token that a statement is about to write is known
\* to nobody else.
TokensAreFresh ==
    /\ \A s \in Slots : stmt[s].kind = "renew" => stmt[s].new # 0
    /\ \A s \in Slots : stmt[s].new # 0 =>
          /\ stmt[s].new # lease.token
          /\ \A c \in Clients : stmt[s].new # claim[c].token
          /\ \A r \in Slots : stmt[s].new # stmt[r].old
          /\ \A r \in Slots : r # s => stmt[s].new # stmt[r].new

\* A client awaits one statement, which carries the claim the client holds.
AwaitedIsCurrent ==
    /\ \A s \in Slots : stmt[s].kind = "idle" => ~ stmt[s].awaited
    /\ \A r, s \in Slots :
          (r # s /\ stmt[r].awaited /\ stmt[s].awaited) => stmt[r].client # stmt[s].client
    /\ \A s \in Slots : (Owning(s) /\ stmt[s].awaited) => claim[stmt[s].client].fence = stmt[s].fence

\* A fencing token belongs to one client, in claims and in statements.
FencesHaveOneOwner ==
    /\ FencesAreUnique
    /\ \A s \in Slots : Owning(s) => stmt[s].fence # 0
    /\ \A s \in Slots, c \in Clients :
          (Owning(s) /\ claim[c].fence = stmt[s].fence) => stmt[s].client = c

\* A statement that may still touch the row of a held claim does no harm: a
\* renewal does not shorten it, a release was asked for by its holder.
LateStatementsAreHarmless ==
    /\ \A s \in Slots :
          (/\ stmt[s].kind = "renew"
           /\ claim[stmt[s].client].fence = stmt[s].fence
           /\ lease.fence = stmt[s].fence
           /\ lease.token = stmt[s].old)
          => stmt[s].ts + Duration[stmt[s].client] >= claim[stmt[s].client].expires
    /\ \A s \in Slots :
          (stmt[s].kind = "release" /\ claim[stmt[s].client].fence = stmt[s].fence)
          => stmt[s].client \in releasing

\* LocalExpiryIsSafe, with the row's own expiry.
Authority ==
    \A c \in Clients :
        (HasClaim(c) /\ c \notin releasing /\ claim[c].expires > now)
            => lease.fence = claim[c].fence /\ lease.expires >= claim[c].expires

IInv ==
    /\ TypeOK
    /\ TimesArePast
    /\ CounterBounds
    /\ TokensAreFresh
    /\ AwaitedIsCurrent
    /\ FencesHaveOneOwner
    /\ LateStatementsAreHarmless
    /\ Authority

-----------------------------------------------------------------------------
\* CTE next_fencing_token yields the successor of the durable counter.
LEMMA NextFencingTokenIsNext ==
    ASSUME TypeOK, CounterBounds, NEW st \in Statement
    PROVE  NextFencingToken(st) = counter + 1
  BY DEF TypeOK, CounterBounds, NextFencingToken, ExistingLease, LeaseRow

\* The types of the fields, for the provers.
LEMMA FieldTypes ==
    ASSUME TypeOK
    PROVE  /\ now \in Nat /\ counter \in Nat
           /\ lease.fence \in Nat /\ lease.token \in Nat /\ lease.expires \in Nat
           /\ \A c \in Clients : /\ claim[c].fence \in Nat
                                 /\ claim[c].token \in Nat
                                 /\ claim[c].expires \in Nat
                                 /\ Duration[c] \in Nat
           /\ \A s \in Slots : /\ stmt[s].client \in Clients
                               /\ stmt[s].ts \in Nat /\ stmt[s].fence \in Nat
                               /\ stmt[s].old \in Nat /\ stmt[s].new \in Nat
  BY DurationAssumption DEF TypeOK, LeaseRow, Claim, Statement

\* Empty tables, idle sessions and clients without claims satisfy the invariant.
LEMMA InitIInv == Init => IInv
  <1> SUFFICES ASSUME Init PROVE IInv
    OBVIOUS
  <1> SomeClient \in Clients
    BY ClientsAssumption DEF SomeClient
  <1>1. TypeOK
    BY ClientsAssumption
    DEF Init, TypeOK, NoRow, Idle, NoClaim, LeaseRow, Claim, Statement
  <1>2. TimesArePast /\ CounterBounds /\ TokensAreFresh /\ AwaitedIsCurrent
    BY DurationAssumption
    DEF Init, TimesArePast, CounterBounds, TokensAreFresh, AwaitedIsCurrent,
        Owning, NoRow, Idle, NoClaim
  <1>3. FencesHaveOneOwner /\ LateStatementsAreHarmless /\ Authority
    BY DEF Init, FencesHaveOneOwner, FencesAreUnique, LateStatementsAreHarmless,
           Authority, HasClaim, Owning, NoRow, Idle, NoClaim
  <1> QED
    BY <1>1, <1>2, <1>3 DEF IInv

\* TryClaimLease, TryRenewLease and ReleaseLease write one session's statement.
\* What the three statements have in common is stated once, and used for each.
LEMMA SendPreserves ==
    ASSUME IInv, NEW c \in Clients, NEW s \in Slots, NEW st \in Statement,
           SendStatement(s, st),
           st.client = c, st.awaited, st.kind # "idle", st.ts = now,
           st.fence <= counter, st.old = 0 \/ st.old = claim[c].token,
           st.new = 0 \/ RandomToken(st.new),
           st.kind = "renew" => st.new # 0,
           st.kind \in {"renew", "release"} => st.fence = claim[c].fence /\ HasClaim(c),
           releasing' = IF st.kind = "release" THEN releasing \union {c} ELSE releasing,
           UNCHANGED <<now, lease, counter, claim>>
    PROVE  IInv'
  <1>t. TypeOK /\ TypeOK'
    BY DEF IInv, TypeOK, SendStatement
  <1>0. /\ stmt[s].kind = "idle"
        /\ stmt'[s] = st
        /\ \A r \in Slots : r # s => stmt'[r] = stmt[r]
        /\ \A r \in Slots : stmt[r].awaited => stmt[r].client # c
    BY <1>t DEF IInv, AwaitedIsCurrent, TypeOK, SendStatement, Busy
  <1>1. TimesArePast'
    BY <1>0, <1>t DEF IInv, TimesArePast, TypeOK
  <1>2. CounterBounds'
    BY <1>0, <1>t DEF IInv, CounterBounds
  <1>3. TokensAreFresh'
    <2>1. st.new # 0 =>
             /\ st.new # lease.token
             /\ \A d \in Clients : st.new # claim[d].token
             /\ \A r \in Slots : st.new # stmt[r].old /\ st.new # stmt[r].new
      BY DEF RandomToken, KnownTokens
    <2>2. ASSUME NEW r \in Slots, stmt'[r].new # 0
          PROVE  /\ stmt'[r].new # lease'.token
                 /\ \A d \in Clients : stmt'[r].new # claim'[d].token
                 /\ \A q \in Slots : stmt'[r].new # stmt'[q].old
                 /\ \A q \in Slots : q # r => stmt'[r].new # stmt'[q].new
      <3>1. CASE r = s
        BY <1>0, <2>1, <2>2, <3>1 DEF IInv, TokensAreFresh
      <3>2. CASE r # s
        BY <1>0, <2>1, <2>2, <3>2 DEF IInv, TokensAreFresh
      <3> QED
        BY <3>1, <3>2
    <2> QED
      BY <1>0, <2>2 DEF IInv, TokensAreFresh
  <1>4. AwaitedIsCurrent'
    BY <1>0, <1>t DEF IInv, AwaitedIsCurrent, Owning
  <1>5. FencesHaveOneOwner'
    BY <1>0, <1>t DEF IInv, FencesHaveOneOwner, FencesAreUnique, Owning, HasClaim
  <1>6. LateStatementsAreHarmless'
    BY <1>0, <1>t DEF IInv, LateStatementsAreHarmless, TimesArePast
  <1>7. Authority'
    BY <1>0, <1>t DEF IInv, Authority, HasClaim
  <1> QED
    BY <1>t, <1>1, <1>2, <1>3, <1>4, <1>5, <1>6, <1>7 DEF IInv

\* Sending a claim (try_claim) keeps the invariant: its token is fresh and its snapshot current.
LEMMA TryClaimLeasePreserves ==
    ASSUME IInv, NEW c \in Clients, NEW s \in Slots, TryClaimLease(c, s)
    PROVE  IInv'
  <1> DEFINE st(t) == [kind |-> "claim", client |-> c, awaited |-> TRUE,
                       ts |-> now, saw |-> lease.born, fence |-> 0,
                       old |-> 0, new |-> t]
  <1>1. PICK t \in 1 .. MaxToken : RandomToken(t) /\ SendStatement(s, st(t))
    BY DEF TryClaimLease
  <1>2. st(t) \in Statement /\ counter \in Nat
    BY BoundsAssumption DEF IInv, TypeOK, LeaseRow, Statement
  <1> HIDE DEF st
  <1> QED
    BY <1>1, <1>2, SendPreserves DEF TryClaimLease, st

\* Sending a renewal (try_renew) keeps the invariant: it carries the token the client holds.
LEMMA TryRenewLeasePreserves ==
    ASSUME IInv, NEW c \in Clients, NEW s \in Slots, TryRenewLease(c, s)
    PROVE  IInv'
  <1> DEFINE st(t) == [kind |-> "renew", client |-> c, awaited |-> TRUE,
                       ts |-> now, saw |-> 0, fence |-> claim[c].fence,
                       old |-> claim[c].token, new |-> t]
  <1>1. PICK t \in 1 .. MaxToken : RandomToken(t) /\ SendStatement(s, st(t))
    BY DEF TryRenewLease
  <1>2. st(t) \in Statement /\ claim[c].fence <= counter /\ t # 0
    BY BoundsAssumption DEF IInv, TypeOK, CounterBounds, Claim, Statement
  <1> HIDE DEF st
  <1> QED
    BY <1>1, <1>2, SendPreserves DEF TryRenewLease, st

\* Sending a release (release) keeps the invariant: from here on the client claims no authority.
LEMMA ReleaseLeasePreserves ==
    ASSUME IInv, NEW c \in Clients, NEW s \in Slots, ReleaseLease(c, s)
    PROVE  IInv'
  <1> DEFINE st == [kind |-> "release", client |-> c, awaited |-> TRUE,
                    ts |-> now, saw |-> 0, fence |-> claim[c].fence,
                    old |-> claim[c].token, new |-> 0]
  <1>1. st \in Statement
    BY DEF IInv, TypeOK, Claim, Statement
  <1>2. SendStatement(s, st) /\ claim[c].fence <= counter
    BY DEF IInv, CounterBounds, ReleaseLease
  <1> HIDE DEF st
  <1> QED
    BY <1>1, <1>2, SendPreserves DEF ReleaseLease, st

\* The session a finished statement ran in becomes idle; the others keep theirs.
LEMMA EndStatementFrees ==
    ASSUME TypeOK, NEW s \in Slots, EndStatement(s)
    PROVE  /\ stmt' \in [Slots -> Statement]
           /\ stmt'[s].kind = "idle" /\ ~ stmt'[s].awaited /\ stmt'[s].ts = 0
           /\ stmt'[s].fence = 0 /\ stmt'[s].old = 0 /\ stmt'[s].new = 0
           /\ \A r \in Slots : r # s => stmt'[r] = stmt[r]
  <1>1. SomeClient \in Clients
    BY ClientsAssumption DEF SomeClient
  <1> QED
    BY <1>1 DEF TypeOK, EndStatement, Idle, Statement

\* A statement that ends without touching the lease row or a claim: the
\* durable counter may have advanced.
LEMMA FinishQuietlyPreserves ==
    ASSUME IInv, NEW s \in Slots, EndStatement(s), counter' \in {counter, counter + 1},
           UNCHANGED <<now, lease, claim, releasing>>
    PROVE  IInv'
  <1>t. TypeOK
    BY DEF IInv
  <1>e. /\ stmt' \in [Slots -> Statement]
        /\ stmt'[s].kind = "idle" /\ ~ stmt'[s].awaited /\ stmt'[s].ts = 0
        /\ stmt'[s].fence = 0 /\ stmt'[s].old = 0 /\ stmt'[s].new = 0
        /\ \A r \in Slots : r # s => stmt'[r] = stmt[r]
    BY <1>t, EndStatementFrees
  <1>f. /\ now \in Nat /\ counter \in Nat
        /\ lease.fence \in Nat /\ lease.token \in Nat /\ lease.expires \in Nat
        /\ \A d \in Clients : /\ claim[d].fence \in Nat /\ claim[d].token \in Nat
                              /\ claim[d].expires \in Nat /\ Duration[d] \in Nat
        /\ \A r \in Slots : /\ stmt[r].client \in Clients
                            /\ stmt[r].ts \in Nat /\ stmt[r].fence \in Nat
                            /\ stmt[r].old \in Nat /\ stmt[r].new \in Nat
    BY <1>t, FieldTypes
  <1>0. TypeOK'
    BY <1>t, <1>e DEF TypeOK
  <1>1. TimesArePast'
    BY <1>e, <1>f DEF IInv, TimesArePast
  <1>2. CounterBounds'
    BY <1>e, <1>f DEF IInv, CounterBounds
  <1>3. TokensAreFresh'
    BY <1>e, <1>f DEF IInv, TokensAreFresh, TypeOK
  <1>4. AwaitedIsCurrent'
    BY <1>e DEF IInv, AwaitedIsCurrent, Owning
  <1>5. FencesHaveOneOwner'
    BY <1>e DEF IInv, FencesHaveOneOwner, FencesAreUnique, Owning, HasClaim
  <1>6. LateStatementsAreHarmless'
    BY <1>e DEF IInv, LateStatementsAreHarmless
  <1>7. Authority'
    BY DEF IInv, Authority, HasClaim
  <1> QED
    BY <1>0, <1>1, <1>2, <1>3, <1>4, <1>5, <1>6, <1>7 DEF IInv

\* The claim statement, granted or not, delivered or not, keeps the invariant: it replaces
\* only a dead row, under a fencing token nobody has.
LEMMA ClaimFinishPreserves ==
    ASSUME IInv, NEW s \in Slots, NEW delivered \in BOOLEAN, ClaimFinish(s, delivered)
    PROVE  IInv'
  <1> DEFINE st == stmt[s]
             c == stmt[s].client
  <1>t. TypeOK
    BY DEF IInv
  <1>e. /\ stmt' \in [Slots -> Statement]
        /\ stmt'[s].kind = "idle" /\ ~ stmt'[s].awaited /\ stmt'[s].ts = 0
        /\ stmt'[s].fence = 0 /\ stmt'[s].old = 0 /\ stmt'[s].new = 0
        /\ \A r \in Slots : r # s => stmt'[r] = stmt[r]
    BY <1>t, EndStatementFrees DEF ClaimFinish
  <1>f. /\ now \in Nat /\ counter \in Nat
        /\ lease.fence \in Nat /\ lease.token \in Nat /\ lease.expires \in Nat
        /\ \A d \in Clients : /\ claim[d].fence \in Nat /\ claim[d].token \in Nat
                              /\ claim[d].expires \in Nat /\ Duration[d] \in Nat
        /\ \A r \in Slots : /\ stmt[r].client \in Clients
                            /\ stmt[r].ts \in Nat /\ stmt[r].fence \in Nat
                            /\ stmt[r].old \in Nat /\ stmt[r].new \in Nat
    BY <1>t, FieldTypes
  <1>n. NextFencingToken(st) = counter + 1
    BY <1>t, NextFencingTokenIsNext DEF IInv, TypeOK
  <1>1. CASE ~ Granted(st)
    BY <1>1, <1>n, FinishQuietlyPreserves DEF ClaimFinish
  <1>2. CASE Granted(st)
    <2>1. /\ lease' = ClaimedRow(st) /\ counter' = counter + 1
          /\ lease'.fence = counter + 1 /\ lease'.token = st.new
          /\ lease'.expires = st.ts + Duration[c]
          /\ lease.fence = 0 \/ lease.expires <= st.ts
      BY <1>2, <1>n DEF ClaimFinish, ClaimedRow, Granted, UpsertApplies
    <2>2. lease' \in LeaseRow /\ lease'.fence \in Nat /\ lease'.token \in Nat
          /\ lease'.expires \in Nat
      BY <2>1, <1>f, <1>t, <1>n, ClientsAssumption DEF TypeOK, ClaimedRow, LeaseRow
    <2>3. \/ claim' = claim /\ releasing' = releasing
          \/ /\ st.awaited
             /\ claim' = [claim EXCEPT ![c] = ClaimOf(lease')]
             /\ releasing' = releasing \ {c}
      BY <1>2, <2>1 DEF ClaimFinish, Deliverable
    <2>4. UNCHANGED now /\ st.kind = "claim"
      BY DEF ClaimFinish
    <2>5. claim' = claim \/ claim' = [claim EXCEPT ![c] =
              [fence |-> lease'.fence, token |-> lease'.token, expires |-> lease'.expires]]
      BY <2>3 DEF ClaimOf
    <2>6. \A d \in Clients : \/ claim'[d] = claim[d] /\ (d \in releasing' \/ d \notin releasing)
                             \/ /\ d = c /\ st.awaited
                                /\ claim'[d].fence = lease'.fence
                                /\ claim'[d].token = lease'.token
                                /\ claim'[d].expires = lease'.expires
      BY <2>3, <1>t DEF TypeOK, ClaimOf
    <2>7. TypeOK'
      BY <1>t, <1>e, <1>f, <2>1, <2>2, <2>3, <2>4, <2>5 DEF TypeOK, Claim
    <2>8. TimesArePast'
      BY <1>e, <1>f, <2>1, <2>4, <2>6 DEF IInv, TimesArePast
    <2>9. CounterBounds'
      BY <1>e, <1>f, <2>1, <2>4, <2>6 DEF IInv, CounterBounds
    <2>10. TokensAreFresh'
      BY <1>e, <1>f, <2>1, <2>4, <2>6, <1>t DEF IInv, TokensAreFresh, TypeOK
    <2>11. AwaitedIsCurrent'
      BY <1>e, <1>f, <2>6 DEF IInv, AwaitedIsCurrent, Owning
    <2>12. FencesHaveOneOwner'
      BY <1>e, <1>f, <2>1, <2>6
      DEF IInv, FencesHaveOneOwner, FencesAreUnique, CounterBounds, Owning, HasClaim
    <2>13. LateStatementsAreHarmless'
      <3>1. \A r \in Slots : r # s => lease'.fence # stmt'[r].fence
        BY <1>e, <1>f, <2>1 DEF IInv, CounterBounds
      <3>2. ASSUME NEW r \in Slots, stmt'[r].kind = "release",
                   claim'[stmt'[r].client].fence = stmt'[r].fence
            PROVE  stmt'[r].client \in releasing'
        BY <1>e, <1>f, <2>1, <2>3, <2>6, <3>1, <3>2 DEF IInv, LateStatementsAreHarmless
      <3> QED
        BY <1>e, <3>1, <3>2 DEF LateStatementsAreHarmless
    <2>14. Authority'
      <3>1. ASSUME NEW d \in Clients, claim'[d] = claim[d], d \notin releasing,
                   claim[d].fence # 0, claim[d].expires > now
            PROVE  FALSE
        BY <1>f, <2>1, <3>1 DEF IInv, Authority, TimesArePast, HasClaim
      <3> QED
        BY <1>f, <2>2, <2>4, <2>6, <3>1 DEF Authority, HasClaim
    <2> QED
      BY <2>7, <2>8, <2>9, <2>10, <2>11, <2>12, <2>13, <2>14 DEF IInv
  <1> QED
    BY <1>1, <1>2

\* The renewal statement keeps the invariant: it touches the row of its own client only, and
\* a renewal whose answer is lost only moves the expiry the row has beyond the local one.
LEMMA RenewFinishPreserves ==
    ASSUME IInv, NEW s \in Slots, NEW delivered \in BOOLEAN, RenewFinish(s, delivered)
    PROVE  IInv'
  <1> DEFINE st == stmt[s]
             c == stmt[s].client
  <1>t. TypeOK
    BY DEF IInv
  <1>e. /\ stmt' \in [Slots -> Statement]
        /\ stmt'[s].kind = "idle" /\ ~ stmt'[s].awaited /\ stmt'[s].ts = 0
        /\ stmt'[s].fence = 0 /\ stmt'[s].old = 0 /\ stmt'[s].new = 0
        /\ \A r \in Slots : r # s => stmt'[r] = stmt[r]
    BY <1>t, EndStatementFrees DEF RenewFinish
  <1>f. /\ now \in Nat /\ counter \in Nat
        /\ lease.fence \in Nat /\ lease.token \in Nat /\ lease.expires \in Nat
        /\ \A d \in Clients : /\ claim[d].fence \in Nat /\ claim[d].token \in Nat
                              /\ claim[d].expires \in Nat /\ Duration[d] \in Nat
        /\ \A r \in Slots : /\ stmt[r].client \in Clients
                            /\ stmt[r].ts \in Nat /\ stmt[r].fence \in Nat
                            /\ stmt[r].old \in Nat /\ stmt[r].new \in Nat
    BY <1>t, FieldTypes
  <1>1. CASE ~ OwnsLease(st)
    BY <1>1, FinishQuietlyPreserves DEF RenewFinish
  <1>2. CASE OwnsLease(st)
    <2>1. /\ st.kind = "renew" /\ UNCHANGED <<now, counter, releasing>>
          /\ lease' = RenewedRow(st)
      BY <1>2 DEF RenewFinish
    <2>2. /\ lease.fence # 0 /\ lease.fence = st.fence /\ lease.token = st.old
          /\ lease'.fence = lease.fence /\ lease'.token = st.new
          /\ lease'.expires = st.ts + Duration[c]
          /\ lease' \in LeaseRow
      <3>1. lease.fence # 0 /\ lease.fence = st.fence /\ lease.token = st.old
        BY <1>2 DEF OwnsLease
      <3>2. lease \in LeaseRow /\ st.new \in Nat /\ st.ts + Duration[c] \in Nat
        BY <1>t, <1>f DEF TypeOK
      <3>3. lease' = [lease EXCEPT !.token = st.new, !.expires = st.ts + Duration[c]]
        BY <2>1 DEF RenewedRow
      <3> HIDE DEF st, c
      <3> QED
        BY <3>1, <3>2, <3>3 DEF LeaseRow
    <2>3. \/ claim' = claim
          \/ /\ st.awaited
             /\ claim' = [claim EXCEPT ![c] =
                   [fence |-> lease'.fence, token |-> lease'.token, expires |-> lease'.expires]]
      BY <1>2 DEF RenewFinish, Deliverable, ClaimOf
    <2>4. \A d \in Clients : \/ claim'[d] = claim[d]
                             \/ /\ d = c /\ st.awaited
                                /\ claim[d].fence = st.fence
                                /\ claim'[d].fence = lease'.fence
                                /\ claim'[d].token = lease'.token
                                /\ claim'[d].expires = lease'.expires
      BY <2>1, <2>3, <1>t DEF TypeOK, IInv, AwaitedIsCurrent, Owning
    <2>5. \A d \in Clients : claim'[d].fence = claim[d].fence
      BY <2>2, <2>4
    <2>6. TypeOK'
      BY <1>t, <1>e, <1>f, <2>1, <2>2, <2>3 DEF TypeOK, Claim, LeaseRow
    <2>7. TimesArePast'
      BY <1>e, <1>f, <2>1, <2>2, <2>4 DEF IInv, TimesArePast
    <2>8. CounterBounds'
      BY <1>e, <1>f, <2>1, <2>2, <2>5 DEF IInv, CounterBounds
    <2>9. TokensAreFresh'
      BY <1>e, <1>f, <2>1, <2>2, <2>4, <1>t DEF IInv, TokensAreFresh, TypeOK
    <2>10. AwaitedIsCurrent'
      BY <1>e, <1>f, <2>5 DEF IInv, AwaitedIsCurrent, Owning
    <2>11. FencesHaveOneOwner'
      BY <1>e, <1>f, <2>5
      DEF IInv, FencesHaveOneOwner, FencesAreUnique, Owning, HasClaim
    <2>12. LateStatementsAreHarmless'
      \* The new lease token is fresh, so no other renewal matches the row.
      <3>1. \A r \in Slots : r # s => lease'.token # stmt'[r].old
        BY <1>e, <2>1, <2>2 DEF IInv, TokensAreFresh
      <3> QED
        BY <1>e, <1>f, <2>1, <2>5, <3>1 DEF IInv, LateStatementsAreHarmless
    <2>13. Authority'
      <3>1. ASSUME NEW d \in Clients, claim'[d] = claim[d], d \notin releasing,
                   claim[d].fence # 0, claim[d].expires > now
            PROVE  lease'.fence = claim[d].fence /\ lease'.expires >= claim[d].expires
        <4>1. lease.fence = claim[d].fence
          BY <3>1 DEF IInv, Authority, HasClaim
        <4>2. d = c
          BY <4>1, <2>1, <2>2, <3>1 DEF IInv, FencesHaveOneOwner, Owning
        <4> QED
          BY <4>1, <4>2, <2>1, <2>2 DEF IInv, LateStatementsAreHarmless
      <3> QED
        BY <1>f, <2>1, <2>2, <2>4, <3>1 DEF Authority, HasClaim
    <2> QED
      BY <2>6, <2>7, <2>8, <2>9, <2>10, <2>11, <2>12, <2>13 DEF IInv
  <1> QED
    BY <1>1, <1>2

\* The release statement keeps the invariant: it deletes the row of a client that asked for
\* it, and a late one does not match a later row.
LEMMA ReleaseFinishPreserves ==
    ASSUME IInv, NEW s \in Slots, NEW delivered \in BOOLEAN, ReleaseFinish(s, delivered)
    PROVE  IInv'
  <1> DEFINE st == stmt[s]
             c == stmt[s].client
  <1>t. TypeOK
    BY DEF IInv
  <1>e. /\ stmt' \in [Slots -> Statement]
        /\ stmt'[s].kind = "idle" /\ ~ stmt'[s].awaited /\ stmt'[s].ts = 0
        /\ stmt'[s].fence = 0 /\ stmt'[s].old = 0 /\ stmt'[s].new = 0
        /\ \A r \in Slots : r # s => stmt'[r] = stmt[r]
    BY <1>t, EndStatementFrees DEF ReleaseFinish
  <1>f. /\ now \in Nat /\ counter \in Nat
        /\ lease.fence \in Nat /\ lease.token \in Nat /\ lease.expires \in Nat
        /\ \A d \in Clients : /\ claim[d].fence \in Nat /\ claim[d].token \in Nat
                              /\ claim[d].expires \in Nat /\ Duration[d] \in Nat
        /\ \A r \in Slots : /\ stmt[r].client \in Clients
                            /\ stmt[r].ts \in Nat /\ stmt[r].fence \in Nat
                            /\ stmt[r].old \in Nat /\ stmt[r].new \in Nat
    BY <1>t, FieldTypes
  <1>1. st.kind = "release" /\ UNCHANGED <<now, counter>>
    BY DEF ReleaseFinish
  <1>2. \/ lease' = lease
        \/ /\ lease' = NoRow /\ lease'.fence = 0 /\ lease'.token = 0
           /\ lease.fence = st.fence
    BY DEF ReleaseFinish, OwnsLease, NoRow
  <1>3. lease' \in LeaseRow
    BY <1>2, <1>t, ClientsAssumption DEF TypeOK, NoRow, LeaseRow, SomeClient
  <1>4. \A d \in Clients : \/ claim'[d] = claim[d] /\ (d \in releasing <=> d \in releasing')
                           \/ /\ claim'[d].fence = 0 /\ claim'[d].token = 0
                              /\ claim'[d].expires = 0 /\ d = c /\ st.awaited
    BY <1>t, <1>f DEF TypeOK, ReleaseFinish, NoClaim, Deliverable
  <1>5. TypeOK'
    BY <1>t, <1>e, <1>1, <1>3 DEF TypeOK, ReleaseFinish, NoClaim, Claim
  <1>6. TimesArePast'
    BY <1>e, <1>f, <1>1, <1>4 DEF IInv, TimesArePast
  <1>7. CounterBounds'
    BY <1>e, <1>f, <1>1, <1>2, <1>4 DEF IInv, CounterBounds
  <1>8. TokensAreFresh'
    BY <1>e, <1>f, <1>1, <1>2, <1>4, <1>t DEF IInv, TokensAreFresh, TypeOK
  <1>9. AwaitedIsCurrent'
    BY <1>e, <1>f, <1>4 DEF IInv, AwaitedIsCurrent, Owning
  <1>10. FencesHaveOneOwner'
    BY <1>e, <1>f, <1>4 DEF IInv, FencesHaveOneOwner, FencesAreUnique, Owning, HasClaim
  <1>11. LateStatementsAreHarmless'
    BY <1>e, <1>f, <1>2, <1>4
    DEF IInv, LateStatementsAreHarmless, FencesHaveOneOwner, Owning
  <1>12. Authority'
    <2>1. ASSUME NEW d \in Clients, claim'[d] = claim[d], d \notin releasing,
                 claim[d].fence # 0, claim[d].expires > now
          PROVE  lease' = lease
      <3>1. lease.fence = claim[d].fence
        BY <2>1 DEF IInv, Authority, HasClaim
      <3>2. lease.fence # st.fence
        BY <1>1, <2>1, <3>1 DEF IInv, FencesHaveOneOwner, LateStatementsAreHarmless, Owning
      <3> QED
        BY <3>2, <1>2
    <2> QED
      BY <1>1, <1>4, <2>1 DEF IInv, Authority, HasClaim
  <1> QED
    BY <1>5, <1>6, <1>7, <1>8, <1>9, <1>10, <1>11, <1>12 DEF IInv

\* A dropped future or broken connection keeps the invariant: the statement goes on unheard.
LEMMA AbandonPreserves ==
    ASSUME IInv, NEW s \in Slots, Abandon(s)
    PROVE  IInv'
  <1>t. TypeOK
    BY DEF IInv
  <1>1. /\ stmt' \in [Slots -> Statement]
        /\ \A r \in Slots : /\ stmt'[r].kind = stmt[r].kind /\ stmt'[r].client = stmt[r].client
                            /\ stmt'[r].ts = stmt[r].ts /\ stmt'[r].fence = stmt[r].fence
                            /\ stmt'[r].old = stmt[r].old /\ stmt'[r].new = stmt[r].new
                            /\ stmt'[r].awaited => stmt[r].awaited
        /\ UNCHANGED <<now, lease, counter, claim, releasing>>
    BY <1>t DEF TypeOK, Abandon, Statement
  <1>2. TypeOK' /\ TimesArePast' /\ CounterBounds' /\ TokensAreFresh'
    BY <1>1 DEF IInv, TypeOK, TimesArePast, CounterBounds, TokensAreFresh
  <1>3. AwaitedIsCurrent'
    BY <1>1 DEF IInv, AwaitedIsCurrent, Owning
  <1>4. FencesHaveOneOwner' /\ LateStatementsAreHarmless' /\ Authority'
    BY <1>1 DEF IInv, FencesHaveOneOwner, FencesAreUnique, LateStatementsAreHarmless,
                Authority, Owning, HasClaim
  <1> QED
    BY <1>2, <1>3, <1>4 DEF IInv

\* A client that forgets its claim keeps the invariant.
LEMMA DropClaimPreserves ==
    ASSUME IInv, NEW c \in Clients, DropClaim(c)
    PROVE  IInv'
  <1>t. TypeOK
    BY DEF IInv
  <1>f. /\ now \in Nat /\ counter \in Nat
        /\ Duration[c] \in Nat
    BY <1>t, FieldTypes DEF TypeOK
  <1>1. /\ UNCHANGED <<now, lease, counter, stmt>>
        /\ releasing' = releasing \ {c}
        /\ claim' \in [Clients -> Claim]
        /\ claim'[c].fence = 0 /\ claim'[c].token = 0 /\ claim'[c].expires = 0
        /\ \A d \in Clients : d # c => claim'[d] = claim[d]
    BY <1>t DEF TypeOK, DropClaim, NoClaim, Claim
  <1>2. \A s \in Slots : stmt[s].awaited => stmt[s].client # c
    BY DEF IInv, AwaitedIsCurrent, DropClaim, Busy
  <1>3. TypeOK'
    BY <1>t, <1>1 DEF TypeOK
  <1>4. TimesArePast' /\ CounterBounds' /\ TokensAreFresh'
    BY <1>1, <1>f DEF IInv, TimesArePast, CounterBounds, TokensAreFresh
  <1>5. AwaitedIsCurrent'
    BY <1>1, <1>2, <1>t, FieldTypes DEF IInv, AwaitedIsCurrent, Owning
  <1>6. FencesHaveOneOwner'
    BY <1>1 DEF IInv, FencesHaveOneOwner, FencesAreUnique, Owning, HasClaim
  <1>7. LateStatementsAreHarmless'
    BY <1>1, <1>t, FieldTypes DEF IInv, LateStatementsAreHarmless, FencesHaveOneOwner, Owning
  <1>8. Authority'
    BY <1>1 DEF IInv, Authority, HasClaim
  <1> QED
    BY <1>3, <1>4, <1>5, <1>6, <1>7, <1>8 DEF IInv

\* The passage of time keeps the invariant: it only ends authority.
LEMMA TickPreserves ==
    ASSUME IInv, Tick
    PROVE  IInv'
  <1>f. /\ now \in Nat
        /\ \A d \in Clients : claim[d].expires \in Nat /\ Duration[d] \in Nat
        /\ \A r \in Slots : stmt[r].ts \in Nat
    BY FieldTypes DEF IInv
  <1>1. TypeOK' /\ TimesArePast'
    BY <1>f DEF IInv, TypeOK, TimesArePast, Tick
  <1>2. CounterBounds' /\ TokensAreFresh' /\ AwaitedIsCurrent'
    BY DEF IInv, CounterBounds, TokensAreFresh, AwaitedIsCurrent, Owning, Tick
  <1>3. FencesHaveOneOwner' /\ LateStatementsAreHarmless'
    BY DEF IInv, FencesHaveOneOwner, FencesAreUnique, LateStatementsAreHarmless,
           Owning, HasClaim, Tick
  <1>4. Authority'
    BY <1>f DEF IInv, Authority, HasClaim, Tick
  <1> QED
    BY <1>1, <1>2, <1>3, <1>4 DEF IInv

\* Every step of the lease tables and their clients keeps the invariant.
LEMMA NextPreserves == IInv /\ [Next]_vars => IInv'
  <1> SUFFICES ASSUME IInv, [Next]_vars PROVE IInv'
    OBVIOUS
  <1>1. CASE \E c \in Clients, s \in Slots :
                TryClaimLease(c, s) \/ TryRenewLease(c, s) \/ ReleaseLease(c, s)
    BY <1>1, TryClaimLeasePreserves, TryRenewLeasePreserves, ReleaseLeasePreserves
  <1>2. CASE \E s \in Slots, delivered \in BOOLEAN :
                \/ ClaimFinish(s, delivered) \/ RenewFinish(s, delivered)
                \/ ReleaseFinish(s, delivered)
    BY <1>2, ClaimFinishPreserves, RenewFinishPreserves, ReleaseFinishPreserves
  <1>3. CASE \E s \in Slots : StatementRollsBack(s)
    BY <1>3, FinishQuietlyPreserves DEF StatementRollsBack
  <1>4. CASE \E s \in Slots : Abandon(s)
    BY <1>4, AbandonPreserves
  <1>5. CASE \E c \in Clients : DropClaim(c)
    BY <1>5, DropClaimPreserves
  <1>6. CASE Tick
    BY <1>6, TickPreserves
  <1>7. CASE UNCHANGED vars
    BY <1>7 DEF vars, IInv, TypeOK, TimesArePast, CounterBounds, TokensAreFresh,
                AwaitedIsCurrent, FencesHaveOneOwner, FencesAreUnique,
                LateStatementsAreHarmless, Authority, Owning, HasClaim
  <1> QED
    BY <1>1, <1>2, <1>3, <1>4, <1>5, <1>6, <1>7 DEF Next

\* The strengthened invariant holds in every reachable state, for any number of clients,
\* holders, durations and sessions.
THEOREM Invariance == Spec => []IInv
  BY InitIInv, NextPreserves, PTL DEF Spec

-----------------------------------------------------------------------------
\* Every reachable state of the lease tables, sessions and clients is well typed.
THEOREM TypeCorrect == Spec => []TypeOK
  <1>1. IInv => TypeOK
    BY DEF IInv
  <1> QED
    BY <1>1, Invariance, PTL

\* The expiry returned by TryClaimLease or TryRenewLease is a safe local
\* deadline, whatever statements were lost, delayed or abandoned.
THEOREM LocalExpirySafety == Spec => []LocalExpiryIsSafe
  <1>1. IInv => LocalExpiryIsSafe
    BY DEF IInv, Authority, LocalExpiryIsSafe
  <1> QED
    BY <1>1, Invariance, PTL

\* Two clients never hold claims with the same fencing token, even under one holder_id.
THEOREM FenceUniqueness == Spec => []FencesAreUnique
  <1>1. IInv => FencesAreUnique
    BY DEF IInv, FencesHaveOneOwner
  <1> QED
    BY <1>1, Invariance, PTL

\* What every step of the lease tables does to the row's fencing token: it keeps
\* it, deletes the row, or grants the successor of the counter on a dead row.
LEMMA FenceSteps ==
    ASSUME IInv, [Next]_vars
    PROVE  \/ lease'.fence \in {lease.fence, 0}
           \/ lease'.fence = counter + 1 /\ ~ LiveAt(lease, now)
  <1>1. ASSUME NEW s \in Slots, NEW delivered \in BOOLEAN, ClaimFinish(s, delivered),
               Granted(stmt[s])
        PROVE  lease'.fence = counter + 1 /\ ~ LiveAt(lease, now)
    <2>1. stmt[s] \in Statement /\ stmt[s].ts <= now /\ stmt[s].ts \in Nat
          /\ now \in Nat /\ lease.expires \in Nat
      BY FieldTypes DEF IInv, TypeOK, TimesArePast
    <2>2. NextFencingToken(stmt[s]) = counter + 1
      BY <2>1, NextFencingTokenIsNext DEF IInv
    <2> QED
      BY <1>1, <2>1, <2>2 DEF ClaimFinish, ClaimedRow, Granted, UpsertApplies, LiveAt
  <1>2. ASSUME NEW s \in Slots, NEW delivered \in BOOLEAN, RenewFinish(s, delivered)
        PROVE  lease'.fence = lease.fence
    BY <1>2 DEF RenewFinish, RenewedRow, IInv, TypeOK, LeaseRow
  <1>3. CASE \E s \in Slots, delivered \in BOOLEAN : ClaimFinish(s, delivered)
    BY <1>1, <1>3 DEF ClaimFinish
  <1>4. CASE \E s \in Slots, delivered \in BOOLEAN : ReleaseFinish(s, delivered)
    BY <1>4 DEF ReleaseFinish, NoRow
  <1>5. CASE UNCHANGED lease
    BY <1>5
  <1> QED
    BY <1>2, <1>3, <1>4, <1>5
    DEF Next, vars, TryClaimLease, TryRenewLease, ReleaseLease, StatementRollsBack,
        Abandon, DropClaim, Tick

\* A live lease row is never taken over by a statement that runs late.
THEOREM NoTakeover == Spec => LiveLeaseIsNotStolen
  <1>1. IInv /\ [Next]_vars => [LiveAt(lease, now) => lease'.fence \in {lease.fence, 0}]_vars
    BY FenceSteps
  <1> QED
    BY <1>1, Invariance, PTL DEF Spec, LiveLeaseIsNotStolen

\* Granted fencing tokens increase across releases and expiries.
THEOREM FencesIncrease == Spec => FencingTokensIncrease
  <1>1. IInv /\ [Next]_vars =>
          [lease'.fence \notin {lease.fence, 0} => lease'.fence > counter]_vars
    BY FenceSteps, FieldTypes DEF IInv
  <1> QED
    BY <1>1, Invariance, PTL DEF Spec, FencingTokensIncrease
\* Every step of the lease tables is a step of the abstract lock, or leaves it alone.
LEMMA LockSteps ==
    ASSUME IInv, [Next]_vars
    PROVE  [Lock!LockNext]_(Lock!lockVars)
  <1> USE DEF Lock!lockVars, Lock!LockNext
  <1>0. now \in Nat /\ counter \in Nat /\ lease \in LeaseRow /\ lease.expires \in Nat
    BY FieldTypes DEF IInv, TypeOK
  <1>1. ASSUME NEW s \in Slots, NEW delivered \in BOOLEAN, ClaimFinish(s, delivered)
        PROVE  Lock!Grant \/ Lock!Burn \/ UNCHANGED Lock!lockVars
    <2>1. stmt[s] \in Statement /\ stmt[s].ts <= now /\ stmt[s].ts \in Nat
      BY FieldTypes DEF IInv, TypeOK, TimesArePast
    <2>2. NextFencingToken(stmt[s]) = counter + 1
      BY <2>1, NextFencingTokenIsNext DEF IInv
    <2>3. CASE Granted(stmt[s])
      <3>1. ~ LiveAt(lease, now)
        BY <1>0, <2>1, <2>3 DEF Granted, UpsertApplies, LiveAt
      <3>2. counter' = counter + 1 /\ lease'.fence = counter + 1
        BY <1>1, <2>2, <2>3 DEF ClaimFinish, ClaimedRow, Granted
      <3> QED
        BY <1>0, <3>1, <3>2 DEF Lock!Grant, LiveAt
    <2>4. CASE ~ Granted(stmt[s])
      <3>1. lease' = lease /\ now' = now /\ counter' \in {counter, counter + 1}
        BY <1>1, <2>2, <2>4 DEF ClaimFinish
      <3> QED
        BY <1>0, <3>1 DEF Lock!Burn, LiveAt
    <2> QED
      BY <2>3, <2>4
  <1>2. ASSUME NEW s \in Slots, NEW delivered \in BOOLEAN, RenewFinish(s, delivered)
        PROVE  Lock!Renew \/ UNCHANGED Lock!lockVars
    <2>1. CASE OwnsLease(stmt[s])
      <3>1. lease'.fence = lease.fence /\ lease.fence # 0 /\ counter' = counter
        BY <1>0, <1>2, <2>1 DEF RenewFinish, RenewedRow, OwnsLease, LeaseRow
      <3> QED
        BY <3>1 DEF Lock!Renew, LiveAt
    <2>2. CASE ~ OwnsLease(stmt[s])
      BY <1>2, <2>2 DEF RenewFinish, LiveAt
    <2> QED
      BY <2>1, <2>2
  <1>3. ASSUME NEW s \in Slots, NEW delivered \in BOOLEAN, ReleaseFinish(s, delivered)
        PROVE  Lock!Release \/ UNCHANGED Lock!lockVars
    BY <1>3 DEF ReleaseFinish, NoRow, LiveAt, Lock!Release
  <1>4. ASSUME Tick
        PROVE  Lock!Lapse \/ UNCHANGED Lock!lockVars
    BY <1>0, <1>4 DEF Tick, LiveAt, Lock!Lapse
  <1>5. CASE UNCHANGED <<now, lease, counter>>
    BY <1>5 DEF LiveAt
  <1> QED
    BY <1>1, <1>2, <1>3, <1>4, <1>5
    DEF Next, vars, TryClaimLease, TryRenewLease, ReleaseLease, StatementRollsBack,
        Abandon, DropClaim

\* The lease tables with their statements, sessions and clients implement the
\* abstract fenced lock, for any number of clients and sessions.
THEOREM ImplementsLock == Spec => ImplementsFencedLock
  <1>1. Init => Lock!LockInit
    BY DEF Init, NoRow, LiveAt, Lock!LockInit
  <1>2. IInv /\ [Next]_vars => [Lock!LockNext]_(Lock!lockVars)
    BY LockSteps
  <1> QED
    BY <1>1, <1>2, Invariance, PTL DEF Spec, ImplementsFencedLock, Lock!LockSpec
=============================================================================
