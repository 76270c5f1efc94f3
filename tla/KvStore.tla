-------------------------------- MODULE KvStore --------------------------------
(***************************************************************************)
(* The key-value store of src/src/db/kv: a table of rows that expire, the  *)
(* statements that run alone, the transactions that lock one row and let a *)
(* callback decide (src/src/db/kv/store_atomic_api.rs), the counter of     *)
(* src/src/db/fleet/counter.rs on top of them, the paged scan and the      *)
(* batched cleanup.                                                        *)
(*                                                                         *)
(* Every comparison with an expiration uses statement_timestamp(), the     *)
(* time the statement STARTED.  A statement that waits for a row therefore *)
(* judges the row with an old clock: `asked' for the locking statement,    *)
(* StatementTimes for the others.                                          *)
(***************************************************************************)
EXTENDS Integers, FiniteSetsExt, Functions

CONSTANTS
    Txs,          \* transactions of callers
    Counter,      \* the key of the counter's value; smaller than every item
    Items,        \* keys of the items, under one prefix
    Absent,       \* model value: no row, no value
    Empty,        \* model value: the bytes of a placeholder
    Never,        \* model value: expires_at is NULL
    Deltas,       \* arguments of Counter.add
    MaxValue,     \* i64::MAX; -MaxValue is i64::MIN
    LockAttempts, \* tries of the locking statement; 8 in the code
    BatchSize,    \* batch_size of the cleanup and limit of the scan
    Ttl,          \* the time to live that writers give
    MaxClock      \* bound on the time

ASSUME KvAssumption ==
    /\ Counter \in Int /\ Items \subseteq Int /\ \A k \in Items : k > Counter
    /\ IsFiniteSet(Items)
    /\ {MaxValue, LockAttempts, BatchSize, Ttl} \subseteq Nat \ {0} /\ MaxClock \in Nat
    /\ Deltas \subseteq Int

VARIABLES
    clock,    \* the database's time
    table,    \* committed rows
    tx,       \* the transaction of each caller
    scan,     \* one paged scan of the items
    cleanup,  \* one run of delete_expired_keys_until_empty
    total,    \* history: the sum of the acknowledged additions
    winners   \* history: how many callers were told that they created the live item

kvVars == <<clock, table, tx, scan, cleanup, total, winners>>

Keys  == {Counter} \union Items
Value == -MaxValue .. MaxValue
Times == 0 .. MaxClock + Ttl

Rows == [value : Value, exp : Times \union {Never}]

ASSUME NothingAssumption == Empty \notin Int /\ Never \notin Int /\ Absent \notin Rows

LiveAt(row, t) == row.exp # Never => row.exp > t

Live(k) == k \in DOMAIN table /\ LiveAt(table[k], clock)

\* Mutant: nothing is locked.
LockedByNothing(t) == {}

\* Rows that a transaction has locked: FOR UPDATE, or its own placeholder.
LockedBy(t) == IF tx[t].at \in {"locked", "done"} THEN {tx[t].key} ELSE {}

Unlocked(k) == \A t \in Txs : k \notin LockedBy(t)

NewTx == [at |-> "idle", call |-> "none", key |-> Counter, seen |-> FALSE, asked |-> 0,
          tries |-> 0, inserted |-> FALSE, live |-> FALSE, value |-> Absent, own |-> TRUE,
          failed |-> FALSE, row |-> Absent, delta |-> 0]

NewScan == [at |-> "idle", after |-> Counter, got |-> {}, stable |-> {}]

NewCleanup == [at |-> "idle", due |-> {}]

ItemCalls == {"mutate", "mutate_live", "mutate_live_or_init", "get_or_init"}

\* Types, and: a transaction that holds a row of its own placing saw nothing live.
KvTypeOK ==
    /\ clock \in 0 .. MaxClock /\ total \in Int
    /\ DOMAIN table \subseteq Keys
    /\ \A k \in DOMAIN table :
          table[k].value \in Value \union {Empty} /\ table[k].exp \in Times \union {Never}
    /\ \A t \in Txs : /\ tx[t].at \in {"idle", "waiting", "locked", "done", "gave_up"}
                      /\ tx[t].tries <= LockAttempts
                      /\ tx[t].inserted => ~tx[t].live
    /\ \A t, u \in Txs : t # u => LockedBy(t) \intersect LockedBy(u) = {}
    /\ winners \in [Items -> Nat]

KvInit ==
    /\ clock = 0 /\ table = <<>> /\ total = 0
    /\ tx = [t \in Txs |-> NewTx]
    /\ scan = NewScan /\ cleanup = NewCleanup
    /\ winners = [k \in Items |-> 0]

-----------------------------------------------------------------------------
(***************************************************************************)
(* What every change of the committed table does to the other actors:      *)
(* a waiting locking statement loses the row version it saw when the row   *)
(* is deleted; histories are kept.                                         *)
(***************************************************************************)

Without(rows, gone) == Restrict(rows, DOMAIN rows \ gone)

With(rows, k, row) == [j \in DOMAIN rows \union {k} |-> IF j = k THEN row ELSE rows[j]]

LiveIn(rows, k, t) == k \in DOMAIN rows /\ LiveAt(rows[k], t)

\* told: the keys whose creation a caller learns of in this step.
Publish(rows, txs, told) ==
    /\ table' = rows
    /\ tx' = [t \in Txs |->
          IF txs[t].at = "waiting" /\ txs[t].key \in DOMAIN table \ DOMAIN rows
          THEN [txs[t] EXCEPT !.seen = FALSE] ELSE txs[t]]
    /\ winners' = [k \in Items |->
          IF ~LiveIn(rows, k, clock) THEN 0
          ELSE (IF Live(k) THEN winners[k] ELSE 0) + (IF k \in told THEN 1 ELSE 0)]
    /\ scan' = [scan EXCEPT !.stable = {k \in @ : LiveIn(rows, k, clock)}]
    /\ cleanup' = [cleanup EXCEPT !.due =
          {k \in @ : k \in DOMAIN rows /\ rows[k] = table[k] /\ \A t \in Txs : k \notin LockedBy(t)}]

Tick ==
    /\ clock < MaxClock
    /\ clock' = clock + 1
    /\ winners' = [k \in Items |-> IF LiveIn(table, k, clock') THEN winners[k] ELSE 0]
    /\ scan' = [scan EXCEPT !.stable = {k \in @ : LiveIn(table, k, clock')}]
    /\ UNCHANGED <<table, tx, cleanup, total>>

-----------------------------------------------------------------------------
(***************************************************************************)
(* Statements that run alone.  Each waits for the locks of the rows that   *)
(* it changes, then sees their latest committed version.                   *)
(***************************************************************************)

\* The time a statement started: it may have waited for its row since.
StatementTimes == {clock, IF clock = 0 THEN 0 ELSE clock - 1}

Expiry(at, ttl) == IF ttl = Never THEN Never ELSE at + ttl

\* INSERT .. ON CONFLICT DO UPDATE over all the keys.
Upserted(ks, row) ==
    [k \in DOMAIN table \union ks |-> IF k \in ks THEN row ELSE table[k]]

SetBytes(k, v, ttl) ==
    /\ Unlocked(k)
    /\ \E at \in StatementTimes :
          Publish(Upserted({k}, [value |-> v, exp |-> Expiry(at, ttl)]), tx, {})
    /\ UNCHANGED <<clock, total>>

\* set_bytes_multi: one statement, all the keys or none.
SetBytesMulti(ks, v, ttl) ==
    /\ \A k \in ks : Unlocked(k)
    /\ \E at \in StatementTimes :
          Publish(Upserted(ks, [value |-> v, exp |-> Expiry(at, ttl)]), tx, {})
    /\ UNCHANGED <<clock, total>>

\* Mutant: the conflict clause also replaces a row that is about to expire.
MayInsertSoon(k, at) == k \in DOMAIN table => table[k].exp # Never /\ table[k].exp <= at + 1

\* The WHERE clause of ON CONFLICT DO UPDATE: only an expired row is replaced.
MayInsert(k, at) == k \in DOMAIN table => table[k].exp # Never /\ table[k].exp <= at

SetBytesIfNotExists(k, v) ==
    /\ Unlocked(k)
    /\ \E at \in StatementTimes :
          /\ MayInsert(k, at)
          /\ Publish(With(table, k, [value |-> v, exp |-> at + Ttl]), tx, {k})
    /\ UNCHANGED <<clock, total>>

\* set_key_ttl on a live key; a key that is not live is KeyNotFound.
SetKeyTtl(k, ttl) ==
    /\ Unlocked(k)
    /\ \E at \in StatementTimes :
          /\ LiveIn(table, k, at)
          /\ Publish([table EXCEPT ![k].exp = Expiry(at, ttl)], tx, {})
    /\ UNCHANGED <<clock, total>>

ExpireKey(k) ==
    /\ Unlocked(k)
    /\ \E at \in StatementTimes :
          LiveIn(table, k, at) /\ Publish([table EXCEPT ![k].exp = at], tx, {})
    /\ UNCHANGED <<clock, total>>

DeleteKey(k) ==
    /\ Unlocked(k)
    /\ \E at \in StatementTimes : LiveIn(table, k, at)
    /\ Publish(Without(table, {k}), tx, {})
    /\ UNCHANGED <<clock, total>>

\* delete_keys_with_prefix_once: FOR UPDATE SKIP LOCKED, in key order.
DeleteKeysWithPrefixOnce ==
    LET free == {k \in Items : k \in DOMAIN table /\ Unlocked(k)}
        batch == {k \in free : Cardinality({j \in free : j < k}) < BatchSize}
    IN  /\ batch # {}
        /\ Publish(Without(table, batch), tx, {})
        /\ UNCHANGED <<clock, total>>

\* delete_entire_namespace: batches in one transaction, waiting for locked rows.
DeleteEntireNamespace ==
    /\ \A k \in Items : Unlocked(k)
    /\ Publish(Without(table, Items), tx, {})
    /\ UNCHANGED <<clock, total>>

\* Counter.set_value.
CounterSetValue(v) ==
    /\ Unlocked(Counter)
    /\ Publish(With(table, Counter, [value |-> v, exp |-> Never]), tx, {})
    /\ total' = v
    /\ UNCHANGED clock

-----------------------------------------------------------------------------
(***************************************************************************)
(* Atomic mutations.                                                       *)
(***************************************************************************)

\* The locking statement starts: its snapshot and its time are taken.
BeginMutation(t, call, k, own) ==
    /\ tx[t].at = "idle"
    /\ tx' = [tx EXCEPT ![t] = [NewTx EXCEPT !.at = "waiting", !.call = call, !.key = k,
                 !.own = own, !.seen = k \in DOMAIN table, !.asked = clock]]
    /\ UNCHANGED <<clock, table, scan, cleanup, total, winners>>

\* The row the statement saw, in its latest version.
LockExisting(t) ==
    /\ tx[t].at = "waiting" /\ tx[t].seen /\ Unlocked(tx[t].key)
    /\ LET row == table[tx[t].key]
       IN  tx' = [tx EXCEPT ![t].at = "locked", ![t].live = LiveAt(row, tx[t].asked),
                     ![t].value = row.value, ![t].row = row]
    /\ cleanup' = [cleanup EXCEPT !.due = @ \ {tx[t].key}]
    /\ UNCHANGED <<clock, table, scan, total, winners>>

\* No row: the statement inserts a placeholder that has already expired.
LockByPlaceholder(t) ==
    /\ tx[t].at = "waiting" /\ ~tx[t].seen /\ Unlocked(tx[t].key)
    /\ tx[t].key \notin DOMAIN table
    /\ tx' = [tx EXCEPT ![t].at = "locked", ![t].inserted = TRUE, ![t].value = Empty,
                 ![t].row = [value |-> Empty, exp |-> tx[t].asked]]
    /\ UNCHANGED <<clock, table, scan, cleanup, total, winners>>

\* Mutant: the tries are not counted.
LockReturnsNoRowForever(t) ==
    /\ tx[t].at = "waiting" /\ ~tx[t].seen /\ Unlocked(tx[t].key)
    /\ tx[t].key \in DOMAIN table
    /\ tx' = [tx EXCEPT ![t].tries = @ + 1, ![t].seen = TRUE, ![t].asked = clock]
    /\ UNCHANGED <<clock, table, scan, cleanup, total, winners>>

\* A row that appeared after the snapshot: ON CONFLICT DO NOTHING returns no row
\* and the statement is sent again, with a new snapshot, until the tries run out.
LockReturnsNoRow(t) ==
    /\ tx[t].at = "waiting" /\ ~tx[t].seen /\ Unlocked(tx[t].key)
    /\ tx[t].key \in DOMAIN table
    /\ tx' = [tx EXCEPT ![t].tries = @ + 1,
                 ![t].at = IF tx[t].tries + 1 = LockAttempts THEN "gave_up" ELSE "waiting",
                 ![t].seen = TRUE, ![t].asked = clock]
    /\ UNCHANGED <<clock, table, scan, cleanup, total, winners>>

SetTo(v, ttl) == [kind |-> "set", value |-> v, ttl |-> ttl]

Preserve(v) == [kind |-> "preserve", value |-> v, ttl |-> Never]

Keep == [kind |-> "keep", value |-> 0, ttl |-> Never]

Delete == [kind |-> "delete", value |-> 0, ttl |-> Never]

Fail == [kind |-> "fail", value |-> 0, ttl |-> Never]

UserMutations == {SetTo(1, Ttl), SetTo(0, Never), Preserve(1), Keep, Delete, Fail}

\* Counter.add: checked_add.
Added(v, d) == IF v + d \in Value THEN SetTo(v + d, Never) ELSE Fail

\* mutate_live_or_init: what the callback decides over an initial value becomes a
\* write with the initial time to live.
OverInitial(m, initial) ==
    CASE m.kind = "keep"     -> SetTo(initial, Ttl)
      [] m.kind = "preserve" -> SetTo(m.value, Ttl)
      [] OTHER               -> m

\* get_or_init: a live value is returned as it is.
InitDecisions(me) == IF me.live THEN {Keep} ELSE {SetTo(1, Ttl), SetTo(1, Never)}

\* mutate_live: nothing live is KeyNotFound.
LiveDecisions(me) == IF me.live THEN UserMutations ELSE {Fail}

InitialDecisions(me) ==
    IF me.live THEN UserMutations ELSE {OverInitial(m, 1) : m \in UserMutations}

Decisions(t) ==
    LET me == tx[t] IN
    CASE me.call = "add" -> {Added(IF me.live THEN me.value ELSE 0, d) : d \in Deltas}
      [] me.call = "mutate" -> UserMutations
      [] me.call = "mutate_live" -> LiveDecisions(me)
      [] me.call = "mutate_live_or_init" -> InitialDecisions(me)
      [] me.call = "get_or_init" -> InitDecisions(me)

\* Mutant: the placeholder is left to the caller's transaction.
FailedRowKept(me) == me.row

\* A failed callback, or a preserving write with nothing live: the placeholder is
\* deleted when the transaction is the caller's.
FailedRow(me) == IF me.inserted THEN Absent ELSE me.row

\* The row the transaction leaves: apply_atomic_mutation.
RowAfter(me, m) ==
    CASE m.kind = "keep" -> IF me.inserted THEN Absent ELSE me.row
      [] m.kind = "set" -> [value |-> m.value, exp |-> Expiry(clock, m.ttl)]
      [] m.kind = "preserve" /\ me.live -> [value |-> m.value, exp |-> me.row.exp]
      [] m.kind = "delete" -> Absent
      [] OTHER -> FailedRow(me)

Decide(t) ==
    /\ tx[t].at = "locked"
    /\ \E m \in Decisions(t) :
          tx' = [tx EXCEPT ![t].at = "done", ![t].row = RowAfter(tx[t], m),
                    ![t].failed = m.kind = "fail" \/ (m.kind = "preserve" /\ ~tx[t].live),
                    ![t].delta = IF tx[t].call = "add" /\ m.kind = "set"
                                 THEN m.value - (IF tx[t].live THEN tx[t].value ELSE 0) ELSE 0]
    /\ UNCHANGED <<clock, table, scan, cleanup, total, winners>>

\* finish_kv_pool_transaction, or the caller: a transaction of the store's own
\* commits a success; the caller may commit after an error.  The caller learns
\* the outcome, or does not.
CommitMutation(t) ==
    LET me == tx[t]
        rows == IF me.row = Absent THEN Without(table, {me.key}) ELSE With(table, me.key, me.row)
        created == ~me.failed /\ me.call = "get_or_init" /\ ~me.live
    IN  /\ me.at = "done" /\ (me.own => ~me.failed)
        /\ Publish(rows, [tx EXCEPT ![t] = NewTx], IF created THEN {me.key} ELSE {})
        /\ total' = total + me.delta
        /\ UNCHANGED clock

\* An error of the store's own transaction, a dropped future, a lost connection.
RollbackMutation(t) ==
    /\ tx[t].at \in {"waiting", "locked", "done", "gave_up"}
    /\ tx' = [tx EXCEPT ![t] = NewTx]
    /\ UNCHANGED <<clock, table, scan, cleanup, total, winners>>

-----------------------------------------------------------------------------
(***************************************************************************)
(* Paged scan and batched cleanup.                                         *)
(***************************************************************************)

ScanBegins ==
    /\ scan.at = "idle"
    /\ scan' = [NewScan EXCEPT !.at = "paging", !.stable = {k \in Items : Live(k)}]
    /\ UNCHANGED <<clock, table, tx, cleanup, total, winners>>

\* Mutant: a page continues after the number of keys returned so far.
PageByOffset(after) ==
    LET live == {k \in Items : Live(k)}
        past == {k \in live : Cardinality({j \in live : j < k}) >= Cardinality(scan.got)}
    IN  {k \in past : Cardinality({j \in past : j < k}) < BatchSize}

\* scan_keys_with_prefix: the live keys after the given one, in order, up to the limit.
PageAfter(after) ==
    LET past == {k \in Items : k > after /\ Live(k)}
    IN  {k \in past : Cardinality({j \in past : j < k}) < BatchSize}

ScanPage ==
    /\ scan.at = "paging"
    /\ LET page == PageAfter(scan.after)
       IN  scan' = [scan EXCEPT !.got = @ \union page,
                       !.after = IF page = {} THEN @ ELSE Max(page),
                       !.at = IF Cardinality(page) < BatchSize THEN "complete" ELSE "paging"]
    /\ UNCHANGED <<clock, table, tx, cleanup, total, winners>>

ScanEnds ==
    /\ scan.at = "complete"
    /\ scan' = NewScan
    /\ UNCHANGED <<clock, table, tx, cleanup, total, winners>>

CleanupBegins ==
    /\ cleanup.at = "idle"
    /\ cleanup' = [at |-> "batches",
                   due |-> {k \in DOMAIN table : ~Live(k) /\ Unlocked(k)}]
    /\ UNCHANGED <<clock, table, tx, scan, total, winners>>

\* Mutant: the batch is taken before the locked rows are skipped.
ExpiredBatchThenSkip ==
    LET old == {k \in DOMAIN table : ~Live(k)}
    IN  {k \in old : /\ Unlocked(k)
                     /\ Cardinality({j \in old : table[j].exp < table[k].exp
                                       \/ (table[j].exp = table[k].exp /\ j < k)}) < BatchSize}

\* FOR UPDATE SKIP LOCKED over the expired rows, by expiration and key.
ExpiredBatch ==
    LET old == {k \in DOMAIN table : ~Live(k) /\ Unlocked(k)}
    IN  {k \in old : Cardinality({j \in old : table[j].exp < table[k].exp
                                       \/ (table[j].exp = table[k].exp /\ j < k)}) < BatchSize}

\* delete_expired_keys_until_empty: a batch that is not full is the last.
CleanupBatch ==
    /\ cleanup.at = "batches"
    /\ LET batch == ExpiredBatch
           rows  == Without(table, batch)
       IN  /\ table' = rows
           /\ tx' = [t \in Txs |-> IF tx[t].at = "waiting" /\ tx[t].key \in batch
                                   THEN [tx[t] EXCEPT !.seen = FALSE] ELSE tx[t]]
           /\ cleanup' = [at |-> IF Cardinality(batch) < BatchSize THEN "complete" ELSE "batches",
                          due |-> cleanup.due \ batch]
    /\ UNCHANGED <<clock, scan, total, winners>>

CleanupEnds ==
    /\ cleanup.at = "complete"
    /\ cleanup' = NewCleanup
    /\ UNCHANGED <<clock, table, tx, scan, total, winners>>

-----------------------------------------------------------------------------
\* Statements of other callers on the given items.
Statement(items) ==
    \/ \E ks \in SUBSET items \ {{}}, ttl \in {Ttl, Never} : SetBytesMulti(ks, 0, ttl)
    \/ \E k \in items :
          \/ SetBytesIfNotExists(k, 0)
          \/ \E ttl \in {Ttl, Never} : SetBytes(k, 0, ttl) \/ SetKeyTtl(k, ttl)
          \/ ExpireKey(k)
          \/ DeleteKey(k)
    \/ DeleteKeysWithPrefixOnce
    \/ DeleteEntireNamespace

\* A caller's transaction that makes one of the given calls on one of the keys.
Mutation(t, calls, keys) ==
    \/ \E call \in calls, k \in keys, own \in BOOLEAN : BeginMutation(t, call, k, own)
    \/ LockExisting(t) \/ LockByPlaceholder(t) \/ LockReturnsNoRow(t)
    \/ Decide(t)
    \/ CommitMutation(t) \/ RollbackMutation(t)

Reader == ScanBegins \/ ScanPage \/ ScanEnds

Cleaner == CleanupBegins \/ CleanupBatch \/ CleanupEnds

KvNext ==
    \/ Tick \/ Statement(Items) \/ CounterSetValue(0) \/ Reader \/ Cleaner
    \/ \E t \in Txs : Mutation(t, {"add"}, {Counter}) \/ Mutation(t, ItemCalls, Items)

KvSpec == KvInit /\ [][KvNext]_kvVars

-----------------------------------------------------------------------------
\* The counter holds the sum of the additions that committed since it was last
\* set (none is lost, none is applied twice, an overflow leaves it alone),
\* whatever transactions run beside each other.
CounterIsExact ==
    IF Counter \in DOMAIN table THEN table[Counter].value = total /\ table[Counter].exp = Never
    ELSE total = 0

\* No commit leaves a placeholder behind, not even that of a caller who goes on
\* after the callback's error; so no statement, however old its clock, can take
\* one for a value.
PlaceholderNeverSurvives == \A k \in DOMAIN table : table[k].value # Empty

\* While an item stays live at most one caller of set_if_not_exists and
\* get_or_init is told that it created it.
OneCreatorPerLife == \A k \in Items : winners[k] <= 1

\* A paged scan returns every item that was live during the whole scan, whatever
\* was inserted and deleted between its pages.
ScanMissesNothingStable == scan.at = "complete" => scan.stable \subseteq scan.got

\* A cleanup that reports the end has removed every row that had expired when it
\* began and that nobody wrote or locked since.
CleanupIsComplete == cleanup.at = "complete" => cleanup.due = {}

\* The key-value store: its types, exact counters, no placeholder that survives,
\* one creator per life of an item, and scans and cleanups that miss nothing.
KvIsSound ==
    /\ KvTypeOK
    /\ CounterIsExact
    /\ PlaceholderNeverSurvives
    /\ OneCreatorPerLife
    /\ ScanMissesNothingStable
    /\ CleanupIsComplete
=============================================================================
