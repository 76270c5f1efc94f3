--------------------------------- MODULE Cache ---------------------------------
(***************************************************************************)
(* The coalescing cache of src/src/db/fleet/cache.rs for one cache key: an *)
(* entry tagged with the epoch of the cache, the epoch, and the mutex that *)
(* coalesces the computations.  Entry and epoch are read by two statements *)
(* in two transactions, the computed value is stored by a third that is    *)
(* not fenced, and invalidate_all advances the epoch without the mutex.    *)
(***************************************************************************)
EXTENDS GuardedKey

CONSTANTS MaxInvalidations   \* bound on the invalidations

ASSUME CacheAssumption == MaxInvalidations \in Nat

VARIABLES
    entry,      \* what the value item holds, or NoEntry
    epoch,      \* what the epoch item holds; 0 when there is none
    late,       \* a store that its dropped caller left in flight, or NoEntry
    call,       \* the call each user is in, and what it has read
    ticks,      \* history: invalidations of both kinds so far
    lastAll,    \* history: ticks of the latest invalidate_all
    lastKey     \* history: ticks of the latest invalidate that returned Ok

cacheVars == <<entry, epoch, late, call, ticks, lastAll, lastKey>>

cacheAll == <<keyVars, cacheVars>>

NoEntry == [has |-> FALSE, epoch |-> 0, born |-> 0, computed |-> FALSE, owned |-> FALSE]

\* born: the ticks when the computation started; owned: stored under the lease.
Entries == {NoEntry} \union
    [has : {TRUE}, epoch : 0 .. MaxInvalidations, born : 0 .. MaxInvalidations,
     computed : BOOLEAN, owned : BOOLEAN]

NoCall == [kind |-> "none", at |-> "idle", read |-> NoEntry, epoch |-> 0, born |-> 0,
           ok |-> FALSE, sinceAll |-> 0, sinceKey |-> 0]

CachePlaces == {"idle", "peek", "claiming", "locked", "locked_epoch", "computing", "storing",
                "deleting", "set_epoch", "setting", "releasing"}

\* Types, and: a call that waits for the mutex or has ended holds no guard.
CacheTypeOK ==
    /\ GuardedKeyTypeOK
    /\ entry \in Entries /\ late \in Entries
    /\ epoch \in 0 .. ticks /\ ticks \in 0 .. MaxInvalidations
    /\ \A c \in Users :
          /\ call[c].at \in CachePlaces /\ call[c].read \in Entries
          /\ call[c].at \in {"idle", "peek", "claiming"} => mine[c] = 0 /\ ~ beating[c]

CacheInit ==
    /\ GuardedKeyInit
    /\ entry = NoEntry /\ late = NoEntry
    /\ epoch = 0 /\ ticks = 0 /\ lastAll = 0 /\ lastKey = 0
    /\ call = [c \in Users |-> NoCall]

Now(c, place) == call[c].at = place

Goes(c, place) == call' = [call EXCEPT ![c].at = place]

\* The call is over with an error.
Errs(c) == call' = [call EXCEPT ![c] = NoCall]

\* The rest of the call is its release; ok: it has its value.
Finishes(c, ok) == call' = [call EXCEPT ![c].at = "releasing", ![c].ok = ok]

\* The call is over in order.
Succeeds(c) == call' = [call EXCEPT ![c] = [NoCall EXCEPT !.ok = TRUE]]

Free(c) == Now(c, "idle")

Begins(c, kind, place, read) ==
    call' = [call EXCEPT ![c] =
        [NoCall EXCEPT !.kind = kind, !.at = place, !.read = read,
                       !.sinceAll = IF kind = "fetch" THEN lastAll ELSE 0,
                       !.sinceKey = IF kind = "fetch" THEN lastKey ELSE 0]]

UnchangedStore == UNCHANGED <<entry, epoch, late, ticks, lastAll, lastKey>>

-----------------------------------------------------------------------------
(***************************************************************************)
(* fetch_or_compute: fetch_fresh_cached_value, two reads.                  *)
(***************************************************************************)
BeginFetch(c) ==
    /\ Free(c)
    /\ Begins(c, "fetch", IF entry.has THEN "peek" ELSE "claiming", entry)
    /\ UNCHANGED keyVars /\ UnchangedStore

\* The value read is served unless the epoch has passed it.
PeekEpoch(c) ==
    /\ Now(c, "peek")
    /\ IF call[c].read.epoch < epoch
       THEN call' = [call EXCEPT ![c].at = "claiming", ![c].read = NoEntry]
       ELSE Succeeds(c)
    /\ UNCHANGED keyVars /\ UnchangedStore

\* A read of the entry or of the epoch fails.
ReadFails(c) ==
    /\ \/ Now(c, "peek") /\ Errs(c)
       \/ (Now(c, "locked") \/ Now(c, "locked_epoch") \/ Now(c, "set_epoch")) /\ Finishes(c, FALSE)
    /\ UNCHANGED keyVars /\ UnchangedStore

\* set and invalidate take the mutex at once.
BeginSet(c) ==
    /\ Free(c)
    /\ Begins(c, "set", "claiming", NoEntry)
    /\ UNCHANGED keyVars /\ UnchangedStore

BeginInvalidate(c) ==
    /\ Free(c) /\ ticks < MaxInvalidations
    /\ Begins(c, "invalidate", "claiming", NoEntry)
    /\ UNCHANGED keyVars /\ UnchangedStore

-----------------------------------------------------------------------------
(***************************************************************************)
(* acquire_compute_mutex_guard: try, wait, try again until lock_wait_timeout.*)
(***************************************************************************)
FirstUnderMutex == [fetch |-> "locked", set |-> "set_epoch", invalidate |-> "deleting"]

AcquireMutex(c) ==
    /\ Now(c, "claiming")
    /\ ClaimGranted(c, TRUE)
    /\ Goes(c, FirstUnderMutex[call[c].kind])
    /\ UNCHANGED rowlock /\ UnchangedStore

LockWaitTimesOut(c) ==
    /\ Now(c, "claiming")
    /\ ClaimRefused
    /\ Errs(c)
    /\ UnchangedStore

AcquireMutexErrs(c) ==
    /\ Now(c, "claiming")
    /\ ClaimErrs
    /\ Errs(c)
    /\ UNCHANGED rowlock /\ UnchangedStore

-----------------------------------------------------------------------------
(***************************************************************************)
(* fetch_or_compute_while_holding_mutex.                                   *)
(***************************************************************************)
ReadEntryLocked(c) ==
    /\ Now(c, "locked")
    /\ call' = [call EXCEPT ![c].at = "locked_epoch", ![c].read = entry]
    /\ UNCHANGED keyVars /\ UnchangedStore

\* A fresh entry is the result; otherwise the computation starts, and its value
\* will be stored with the epoch read here.
ReadEpochLocked(c) ==
    /\ Now(c, "locked_epoch")
    /\ IF call[c].read.has /\ call[c].read.epoch >= epoch
       THEN Finishes(c, TRUE)
       ELSE call' = [call EXCEPT ![c].at = "computing", ![c].read = NoEntry,
                                 ![c].epoch = epoch, ![c].born = ticks]
    /\ UNCHANGED keyVars /\ UnchangedStore

\* leadership_lost is tested once, when the value is there.
ComputeReturns(c) ==
    /\ Now(c, "computing")
    /\ IF lost[c] THEN Finishes(c, FALSE) ELSE Goes(c, "storing")
    /\ UNCHANGED keyVars /\ UnchangedStore

\* Mutant: `?` returns past the release of the guard.
ComputeFailsUnreleased(c) ==
    /\ Now(c, "computing")
    /\ Errs(c)
    /\ UNCHANGED keyVars /\ UnchangedStore

\* The computation fails or its timeout elapses.
ComputeFails(c) ==
    /\ Now(c, "computing")
    /\ Finishes(c, FALSE)
    /\ UNCHANGED keyVars /\ UnchangedStore

\* Mutant: the value is tagged with the epoch of the moment it is stored.
ComputedEntryTaggedLate(c, owned) ==
    [has |-> TRUE, epoch |-> epoch, born |-> call[c].born, computed |-> TRUE, owned |-> owned]

\* The value with the epoch that was read before the computation.
ComputedEntry(c, owned) ==
    [has |-> TRUE, epoch |-> call[c].epoch, born |-> call[c].born, computed |-> TRUE, owned |-> owned]

\* Best effort: an error of the store, applied or not, is ignored.
StoreComputed(c) ==
    /\ Now(c, "storing")
    /\ LET value == ComputedEntry(c, Owns(c))
       IN  /\ entry' = value \/ UNCHANGED entry
           /\ call' = [call EXCEPT ![c].at = "releasing", ![c].ok = TRUE, ![c].read = value]
    /\ UNCHANGED <<keyVars, epoch, late, ticks, lastAll, lastKey>>

-----------------------------------------------------------------------------
(***************************************************************************)
(* set and invalidate, under the mutex but without a test of leadership.   *)
(***************************************************************************)
SetReadEpoch(c) ==
    /\ Now(c, "set_epoch")
    /\ call' = [call EXCEPT ![c].at = "setting", ![c].epoch = epoch]
    /\ UNCHANGED keyVars /\ UnchangedStore

SetEntry(c) ==
    /\ Now(c, "setting")
    /\ \/ /\ entry' = [has |-> TRUE, epoch |-> call[c].epoch, born |-> ticks, computed |-> FALSE,
                       owned |-> Owns(c)]
          /\ \E ok \in BOOLEAN : Finishes(c, ok)
       \/ UNCHANGED entry /\ Finishes(c, FALSE)
    /\ UNCHANGED <<keyVars, epoch, late, ticks, lastAll, lastKey>>

\* Mutant: the entry is deleted without waiting for the mutex.
DeleteEntryUnlocked(c) ==
    /\ call[c].kind = "invalidate" /\ Now(c, "claiming") /\ ticks < MaxInvalidations
    /\ ticks' = ticks + 1
    /\ entry' = NoEntry
    /\ lastKey' = ticks + 1
    /\ Errs(c)
    /\ UNCHANGED <<keyVars, epoch, late, lastAll>>

\* The delete finds the entry or not (both Ok), or errs after or before the fact.
DeleteEntry(c) ==
    /\ Now(c, "deleting")
    /\ ticks < MaxInvalidations
    /\ ticks' = ticks + 1
    /\ \/ /\ entry' = NoEntry
          /\ \E ok \in BOOLEAN :
                call' = [call EXCEPT ![c].at = "releasing", ![c].ok = ok, ![c].born = ticks + 1]
       \/ UNCHANGED entry /\ Finishes(c, FALSE)
    /\ UNCHANGED <<keyVars, epoch, late, lastAll, lastKey>>

\* Mutant: what the release answers is not looked at.
CallSucceedsUnreleased(c, answer) == call[c].ok

\* require_coalescing_cache_mutex_released: the call succeeds only when its guard
\* was live to the end.
CallSucceeds(c, answer) == call[c].ok /\ answer = "released"

ReleaseMutex(c) == \E answer \in ReleaseAnswers :
    /\ Now(c, "releasing")
    /\ GuardRelease(c, TRUE, answer)
    /\ IF CallSucceeds(c, answer) THEN Succeeds(c) ELSE Errs(c)
    /\ lastKey' = IF /\ CallSucceeds(c, answer) /\ call[c].kind = "invalidate"
                     /\ call[c].born > lastKey
                  THEN call[c].born ELSE lastKey
    /\ UNCHANGED <<rowlock, entry, epoch, late, ticks, lastAll>>

\* The future of a call is dropped, or its process stops; a claim or a store may
\* still be in flight.
CallStops(c) ==
    /\ ~ Free(c)
    /\ Errs(c)
    /\ \/ ProcessStops(c) /\ UNCHANGED late
       \/ GuardDropped(c) /\ UNCHANGED late
       \/ Now(c, "claiming") /\ ClaimAbandoned /\ UNCHANGED late
       \/ Now(c, "storing") /\ ~ late.has /\ late' = ComputedEntry(c, FALSE) /\ GuardDropped(c)
    /\ UNCHANGED <<rowlock, entry, epoch, ticks, lastAll, lastKey>>

-----------------------------------------------------------------------------
\* One transaction on the epoch item; the mutex is not involved.
InvalidateAll ==
    /\ ticks < MaxInvalidations
    /\ ticks' = ticks + 1
    /\ epoch' = epoch + 1
    /\ lastAll' = ticks + 1
    /\ UNCHANGED <<keyVars, entry, late, call, lastKey>>

LateStore ==
    /\ late.has
    /\ late' = NoEntry
    /\ entry' = late \/ UNCHANGED entry
    /\ UNCHANGED <<keyVars, epoch, call, ticks, lastAll, lastKey>>

\* The TTL of the entry is over.
EntryExpires ==
    /\ entry.has
    /\ entry' = NoEntry
    /\ UNCHANGED <<keyVars, epoch, late, call, ticks, lastAll, lastKey>>

\* Unacknowledged renewals are left to the other users of GuardedKey: to a cache
\* call they are a lease that lapsed and keeps others out a little longer.
CacheBackground ==
    \/ LeaseLapses \/ GhostEnds \/ CleanupReturns
    \/ \E c \in Users : RenewalRefused(c) \/ HeartbeatGivesUp(c)

FetchNext(c) ==
    \/ BeginFetch(c) \/ PeekEpoch(c) \/ ReadFails(c) \/ ReadEntryLocked(c) \/ ReadEpochLocked(c)
    \/ ComputeReturns(c) \/ ComputeFails(c) \/ StoreComputed(c)

CallNext(c) ==
    \/ FetchNext(c) \/ BeginSet(c) \/ BeginInvalidate(c)
    \/ AcquireMutex(c) \/ LockWaitTimesOut(c) \/ AcquireMutexErrs(c)
    \/ SetReadEpoch(c) \/ SetEntry(c) \/ DeleteEntry(c) \/ ReleaseMutex(c) \/ CallStops(c)

CacheNext ==
    \/ \E c \in Users : CallNext(c)
    \/ InvalidateAll \/ LateStore \/ EntryExpires
    \/ CacheBackground /\ UNCHANGED <<rowlock, cacheVars>>

CacheSpec == CacheInit /\ [][CacheNext]_cacheAll

-----------------------------------------------------------------------------
\* The values a fetch is about to return: read and not older than the epoch, or
\* found or computed under the mutex.
Serving(c) ==
    /\ call[c].kind = "fetch" /\ call[c].read.computed
    /\ \/ Now(c, "peek") /\ call[c].read.epoch >= epoch
       \/ Now(c, "releasing") /\ call[c].ok

\* A fetch never serves a value whose computation started before an
\* invalidate_all that was over when the fetch began: not through the window
\* between its two reads, not from a computation that was running, not from a
\* store left in flight by a call that is gone.
InvalidateAllIsFinal ==
    \A c \in Users : Serving(c) => call[c].read.born >= call[c].sinceAll

\* The same for invalidate, of values stored by a call whose lease was still live
\* (the store is not fenced: a computation that outlives its lease may bring an
\* invalidated value back, and its own caller gets an error).
InvalidateIsFinal ==
    \A c \in Users : (Serving(c) /\ call[c].read.owned) => call[c].read.born >= call[c].sinceKey

\* A fetch that returns a value from under the mutex was alone there: no other
\* call was granted the mutex between its claim and its release.
ComputationIsCoalesced ==
    [][\A c \in Users :
          (Now(c, "releasing") /\ call'[c].at = "idle" /\ call'[c].ok) => mine[c] = last]_cacheAll

\* The cache: its types, and no value served that was invalidated before the
\* fetch began.
CacheIsSound == CacheTypeOK /\ InvalidateAllIsFinal /\ InvalidateIsFinal
=============================================================================
