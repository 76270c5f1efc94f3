------------------------------ MODULE LeaseStore ------------------------------
(***************************************************************************)
(* The Postgres-backed lease of src/src/db/lease, for one lease key: the   *)
(* lease row, the durable fencing counter, and the claim / renew / release *)
(* statements that several clients run against them.                       *)
(*                                                                         *)
(* A statement is two steps.  Its begin fixes statement_timestamp() and    *)
(* the READ COMMITTED snapshot; its finish runs after every row lock was   *)
(* granted, on the newest row version, and commits.  Between the two the   *)
(* clock may advance and other transactions may commit, so every finish    *)
(* works with a stale timestamp.  A client may stop waiting for a          *)
(* statement that the server still runs, a commit may be acknowledged to   *)
(* nobody, and a transaction may roll back.                                *)
(***************************************************************************)
EXTENDS Integers

CONSTANTS
    Clients,    \* processes that hold a Mutex / Lease handle on the key
    Holders,    \* values of holder_id
    HolderOf,   \* the holder_id a client claims with; clients may share one
    Duration,   \* claim duration of each client's handle, in clock ticks
    Slots,      \* server sessions: bound on statements in flight
    MaxTime,    \* bound on the database clock
    MaxToken,   \* bound on the random tokens known at the same time
    MaxFence    \* bound on the counter when a claim is sent

ASSUME ClientsAssumption == Clients # {} /\ HolderOf \in [Clients -> Holders]
ASSUME DurationAssumption == Duration \in [Clients -> Nat \ {0}]
ASSUME BoundsAssumption == 
    MaxTime \in Nat /\ MaxToken \in Nat /\ MaxFence \in Nat

VARIABLES
    now,        \* the database clock
    lease,      \* the lease row of the key; fence = 0 when there is no row
    counter,    \* last_fencing_token of the key; 0 when there is no row
    stmt,       \* the statement each session is running
    claim,      \* the Claim value each client holds; fence = 0 for none
    releasing   \* clients that asked to release the claim they hold

vars == <<now, lease, counter, stmt, claim, releasing>>

(***************************************************************************)
(* Rows, claims and statements.  The CHECK constraints of the schema make  *)
(* persisted fencing tokens positive, which leaves 0 for "absent".  born   *)
(* is the identity of the stored tuple: the fencing token it was inserted  *)
(* with.  An update keeps it, a delete followed by an insert does not, and *)
(* a statement whose snapshot held a deleted tuple does not see the next.  *)
(***************************************************************************)
LeaseRow ==
    [holder : Holders, fence : Nat, token : Nat, expires : Nat, born : Nat]

Claim == [fence : Nat, token : Nat, expires : Nat]

Statement ==
    [kind : {"idle", "claim", "renew", "release"}, client : Clients,
     awaited : BOOLEAN, ts : Nat, saw : Nat, fence : Nat, old : Nat, new : Nat]

NoClaim == [fence |-> 0, token |-> 0, expires |-> 0]

SomeClient == CHOOSE c \in Clients : TRUE

NoRow ==
    [holder |-> HolderOf[SomeClient], fence |-> 0, token |-> 0, expires |-> 0, born |-> 0]

Idle ==
    [kind |-> "idle", client |-> SomeClient, awaited |-> FALSE, ts |-> 0,
     saw |-> 0, fence |-> 0, old |-> 0, new |-> 0]

TypeOK ==
    /\ now \in Nat
    /\ lease \in LeaseRow
    /\ counter \in Nat
    /\ stmt \in [Slots -> Statement]
    /\ claim \in [Clients -> Claim]
    /\ releasing \in SUBSET Clients

Init ==
    /\ now = 0
    /\ lease = NoRow
    /\ counter = 0
    /\ stmt = [s \in Slots |-> Idle]
    /\ claim = [c \in Clients |-> NoClaim]
    /\ releasing = {}

\* A client runs one statement at a time: every API call is awaited.
Busy(c) ==
    \E s \in Slots : stmt[s].kind # "idle" /\ stmt[s].client = c /\ stmt[s].awaited

HasClaim(c) == claim[c].fence # 0

KnownTokens ==
    {lease.token} \union {claim[c].token : c \in Clients}
        \union {stmt[s].old : s \in Slots} \union {stmt[s].new : s \in Slots}

\* Token::random draws a token that is known nowhere.  The model takes the
\* smallest one, which only renames tokens.
RandomToken(t) ==
    /\ t \notin KnownTokens
    /\ \A u \in 1 .. t - 1 : u \in KnownTokens

-----------------------------------------------------------------------------
(***************************************************************************)
(* The SQL of lease/queries.rs.                                            *)
(***************************************************************************)

\* A row is live for a statement that started at ts.
LiveAt(row, ts) == row.fence # 0 /\ row.expires > ts

\* CTE existing_lease: FOR UPDATE re-reads the newest version of the tuple the
\* snapshot held, and finds nothing when that tuple was deleted or not yet there.
ExistingLease(st) == lease.fence # 0 /\ lease.born = st.saw

\* CTE claimable.
Claimable(st) == ~ (ExistingLease(st) /\ LiveAt(lease, st.ts))

\* Mutant: the counter restarts from the lease row.
NextFencingTokenFromRow(st) == (IF ExistingLease(st) THEN lease.fence ELSE 0) + 1

\* CTE next_fencing_token: insert, or advance the durable counter.
NextFencingToken(st) ==
    LET fromRow == (IF ExistingLease(st) THEN lease.fence ELSE 0) + 1
    IN  IF counter = 0 THEN fromRow
        ELSE IF counter + 1 > fromRow THEN counter + 1 ELSE fromRow

\* Mutant: the upsert replaces whatever row it conflicts with.
UpsertAppliesAlways(st) == TRUE

\* CTE upserted_lease: insert, or replace a row that is not live at ts.
UpsertApplies(st) == lease.fence = 0 \/ lease.expires <= st.ts

Granted(st) == Claimable(st) /\ UpsertApplies(st)

\* Mutant: the expiry is computed backwards from the statement's timestamp.
ClaimedRowBackwards(st) ==
    [holder  |-> HolderOf[st.client],
     fence   |-> NextFencingToken(st),
     token   |-> st.new,
     expires |-> st.ts - Duration[st.client],
     born    |-> IF lease.fence = 0 THEN NextFencingToken(st) ELSE lease.born]

ClaimedRow(st) ==
    [holder  |-> HolderOf[st.client],
     fence   |-> NextFencingToken(st),
     token   |-> st.new,
     expires |-> st.ts + Duration[st.client],
     born    |-> IF lease.fence = 0 THEN NextFencingToken(st) ELSE lease.born]

\* Mutant: ownership by holder and fencing token alone.
OwnsLeaseByFence(st) ==
    /\ lease.fence # 0
    /\ lease.holder = HolderOf[st.client]
    /\ lease.fence = st.fence
    /\ lease.expires > st.ts

\* WHERE clause shared by the renewal UPDATE and the release DELETE.
OwnsLease(st) ==
    /\ lease.fence # 0
    /\ lease.holder = HolderOf[st.client]
    /\ lease.fence = st.fence
    /\ lease.token = st.old
    /\ lease.expires > st.ts

RenewedRow(st) ==
    [lease EXCEPT !.token = st.new, !.expires = st.ts + Duration[st.client]]

\* The Claim built from the row a statement returns.
ClaimOf(row) == [fence |-> row.fence, token |-> row.token, expires |-> row.expires]

-----------------------------------------------------------------------------
(***************************************************************************)
(* Statement begins: the Rust call draws the token, opens the transaction  *)
(* and sends the statement.                                                *)
(***************************************************************************)
SendStatement(s, st) ==
    /\ stmt[s].kind = "idle"
    /\ ~ Busy(st.client)
    /\ stmt' = [stmt EXCEPT ![s] = st]

TryClaimLease(c, s) == \E t \in 1 .. MaxToken :
    /\ ~ HasClaim(c)
    /\ counter < MaxFence
    /\ RandomToken(t)
    /\ SendStatement(s, [kind |-> "claim", client |-> c, awaited |-> TRUE,
                         ts |-> now, saw |-> lease.born, fence |-> 0,
                         old |-> 0, new |-> t])
    /\ UNCHANGED <<now, lease, counter, claim, releasing>>

TryRenewLease(c, s) == \E t \in 1 .. MaxToken :
    /\ HasClaim(c)
    /\ RandomToken(t)
    /\ SendStatement(s, [kind |-> "renew", client |-> c, awaited |-> TRUE,
                         ts |-> now, saw |-> 0, fence |-> claim[c].fence,
                         old |-> claim[c].token, new |-> t])
    /\ UNCHANGED <<now, lease, counter, claim, releasing>>

ReleaseLease(c, s) ==
    /\ HasClaim(c)
    /\ SendStatement(s, [kind |-> "release", client |-> c, awaited |-> TRUE,
                         ts |-> now, saw |-> 0, fence |-> claim[c].fence,
                         old |-> claim[c].token, new |-> 0])
    /\ releasing' = releasing \union {c}
    /\ UNCHANGED <<now, lease, counter, claim>>

(***************************************************************************)
(* Statement finishes.  delivered says whether the client learns the       *)
(* result: it stopped waiting, or the acknowledgement of the commit was    *)
(* lost and the call returned an error.                                    *)
(***************************************************************************)
EndStatement(s) == stmt' = [stmt EXCEPT ![s] = Idle]

Deliverable(s, delivered) == delivered => stmt[s].awaited

ClaimFinish(s, delivered) ==
    LET st == stmt[s] IN
    /\ st.kind = "claim"
    /\ Deliverable(s, delivered)
    /\ counter' = IF Claimable(st) THEN NextFencingToken(st) ELSE counter
    /\ lease' = IF Granted(st) THEN ClaimedRow(st) ELSE lease
    /\ IF Granted(st) /\ delivered
       THEN /\ claim' = [claim EXCEPT ![st.client] = ClaimOf(ClaimedRow(st))]
            /\ releasing' = releasing \ {st.client}
       ELSE UNCHANGED <<claim, releasing>>
    /\ EndStatement(s)
    /\ UNCHANGED <<now>>

RenewFinish(s, delivered) ==
    LET st == stmt[s] IN
    /\ st.kind = "renew"
    /\ Deliverable(s, delivered)
    /\ lease' = IF OwnsLease(st) THEN RenewedRow(st) ELSE lease
    /\ claim' = IF OwnsLease(st) /\ delivered
                THEN [claim EXCEPT ![st.client] = ClaimOf(RenewedRow(st))]
                ELSE claim
    /\ EndStatement(s)
    /\ UNCHANGED <<now, counter, releasing>>

ReleaseFinish(s, delivered) ==
    LET st == stmt[s] IN
    /\ st.kind = "release"
    /\ Deliverable(s, delivered)
    /\ lease' = IF OwnsLease(st) THEN NoRow ELSE lease
    /\ claim' = IF delivered THEN [claim EXCEPT ![st.client] = NoClaim] ELSE claim
    /\ releasing' = IF delivered THEN releasing \ {st.client} ELSE releasing
    /\ EndStatement(s)
    /\ UNCHANGED <<now, counter>>

\* The transaction rolls back: error, deadlock, failed admission, lost session.
StatementRollsBack(s) ==
    /\ stmt[s].kind # "idle"
    /\ EndStatement(s)
    /\ UNCHANGED <<now, lease, counter, claim, releasing>>

\* The client stops waiting (dropped future, broken connection); the server goes on.
Abandon(s) ==
    /\ stmt[s].kind # "idle"
    /\ stmt[s].awaited
    /\ stmt' = [stmt EXCEPT ![s].awaited = FALSE]
    /\ UNCHANGED <<now, lease, counter, claim, releasing>>

\* The client drops its claim without releasing it (the process stops).
DropClaim(c) ==
    /\ HasClaim(c)
    /\ ~ Busy(c)
    /\ claim' = [claim EXCEPT ![c] = NoClaim]
    /\ releasing' = releasing \ {c}
    /\ UNCHANGED <<now, lease, counter, stmt>>

Tick ==
    /\ now < MaxTime
    /\ now' = now + 1
    /\ UNCHANGED <<lease, counter, stmt, claim, releasing>>

Next ==
    \/ \E c \in Clients, s \in Slots :
          TryClaimLease(c, s) \/ TryRenewLease(c, s) \/ ReleaseLease(c, s)
    \/ \E s \in Slots, delivered \in BOOLEAN :
          ClaimFinish(s, delivered) \/ RenewFinish(s, delivered) \/ ReleaseFinish(s, delivered)
    \/ \E s \in Slots : StatementRollsBack(s) \/ Abandon(s)
    \/ \E c \in Clients : DropClaim(c)
    \/ Tick

Spec == Init /\ [][Next]_vars

-----------------------------------------------------------------------------
(***************************************************************************)
(* What the lease promises.                                                *)
(***************************************************************************)

\* The expiry a claim or renewal returned is a safe local deadline: until it
\* passes on the database clock, and unless the client asked to release, the
\* lease row still carries the client's fencing token -- whatever was lost,
\* delayed or abandoned.  (execution.rs returns expires_at computed from
\* statement_timestamp(); queries.rs decides every takeover against it.)
LocalExpiryIsSafe ==
    \A c \in Clients :
        (HasClaim(c) /\ c \notin releasing /\ claim[c].expires > now)
            => lease.fence = claim[c].fence

\* No two clients ever hold claims with the same fencing token, even when they
\* claim under the same holder_id and the lease row was deleted in between.
FencesAreUnique ==
    \A c, d \in Clients :
        (c # d /\ HasClaim(c)) => claim[c].fence # claim[d].fence

\* A live row is never taken over: a statement that runs late, with an old
\* snapshot and an old timestamp, leaves its fencing token alone; it ends only
\* when its owner deletes it.
LiveLeaseIsNotStolen ==
    [][LiveAt(lease, now) => lease'.fence \in {lease.fence, 0}]_vars

\* Each newly granted fencing token is larger than all tokens granted before,
\* across releases and expiries (the counter row outlives the lease row).
FencingTokensIncrease ==
    [][lease'.fence \notin {lease.fence, 0} => lease'.fence > counter]_vars

\* The tables, statements and clients implement the abstract lock: whatever is
\* lost, delayed or abandoned, the row changes only by grants over a lapsed row
\* with a larger token, renewals, releases and the passing of time.
Lock == INSTANCE FencedLock WITH
    fence <- lease.fence, live <- LiveAt(lease, now), last <- counter

ImplementsFencedLock == Lock!LockSpec
=============================================================================
