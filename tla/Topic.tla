--------------------------------- MODULE Topic ---------------------------------
(***************************************************************************)
(* Durable topics and subscriptions of src/src/db/fleet/topic.rs: events   *)
(* numbered by a sequence item that stays locked until the publishing      *)
(* transaction ends, a persisted cursor, readers that move it in their own *)
(* transaction, and polling loops that hold a mutex key, run a handler and *)
(* move the cursor when the handler has accepted a batch.                  *)
(*                                                                         *)
(* The mutex (MutexGuard, GuardedKey) only saves work here: a claim may be *)
(* granted while another loop still runs, and leadership may be lost at    *)
(* any time, so every overlap of loops is a behaviour of this module.      *)
(***************************************************************************)
EXTENDS Integers, FiniteSetsExt

CONSTANTS
    Pollers,        \* processes that run the polling loop
    Publishers,   \* transactions that publish
    NoPublisher,  \* model value: the sequence row is not locked
    PollLimit,    \* poll_limit of the subscription
    MaxSequence,  \* bound on the numbers assigned
    MaxOperator   \* bound on the calls of set_cursor and delete_cursor

ASSUME TopicAssumption ==
    NoPublisher \notin Publishers /\ PollLimit \in Nat \ {0} /\ MaxSequence \in Nat /\ MaxOperator \in Nat

VARIABLES
    sequence,    \* the committed value of the sequence item
    locker,      \* the publisher whose transaction has locked the sequence row
    writes,      \* events written by each open publishing transaction
    events,      \* numbers of the retained events
    cursor,      \* the persisted cursor; 0 when there is none
    reader,      \* the transaction of read_new_events_and_advance_cursor
    poller,      \* the polling loop of each user
    moves,       \* calls of set_cursor and delete_cursor
    published,   \* history: numbers of committed events
    handled,     \* history: accepted by a handler, or returned by a reader
    excused      \* history: expired, purged, or passed over by set_cursor

logVars == <<sequence, locker, writes, events, published>>

topicVars == <<logVars, cursor, reader, poller, moves, handled, excused>>

Numbers == 1 .. MaxSequence

PollPlaces == {"claiming", "start", "scan", "got", "handler", "accepted", "advanced",
               "releasing", "ended"}

\* Types, and: numbers are never reused, not even after a purge.
TopicTypeOK ==
    /\ sequence \in 0 .. MaxSequence /\ cursor \in 0 .. MaxSequence
    /\ locker \in Publishers \union {NoPublisher}
    /\ events \subseteq published /\ published \subseteq 1 .. sequence
    /\ \A p \in Publishers : writes[p] \subseteq Numbers \ published
    /\ \A c \in Pollers : poller[c].at \in PollPlaces /\ poller[c].batch \subseteq Numbers

NewPoller == [at |-> "claiming", cursor |-> 0, batch |-> {}, lost |-> FALSE, end |-> "none"]

TopicInit ==
    /\ sequence = 0 /\ locker = NoPublisher
    /\ writes = [p \in Publishers |-> {}]
    /\ events = {} /\ published = {}
    /\ cursor = 0 /\ moves = 0
    /\ reader = [at |-> "idle", cursor |-> 0, batch |-> {}]
    /\ poller = [c \in Pollers |-> NewPoller]
    /\ handled = {} /\ excused = {}

-----------------------------------------------------------------------------
(***************************************************************************)
(* Publishing: one or more numbers in one transaction.                     *)
(***************************************************************************)

\* Mutant: the number is taken without locking the sequence row.
TakeNumberUnlocked(p) ==
    LET taken == UNION {writes[q] : q \in Publishers} \union published
        n     == Cardinality(taken) + 1
    IN  /\ n <= MaxSequence
        /\ writes' = [writes EXCEPT ![p] = @ \union {n}]
        /\ UNCHANGED <<sequence, locker, events, published, cursor, reader, poller, moves,
                       handled, excused>>

\* The atomic mutation of the sequence item locks its row; the event is written
\* in the same transaction.
TakeNumber(p) ==
    LET n == sequence + Cardinality(writes[p]) + 1
    IN  /\ locker \in {p, NoPublisher} /\ n <= MaxSequence
        /\ locker' = p
        /\ writes' = [writes EXCEPT ![p] = @ \union {n}]
        /\ UNCHANGED <<sequence, events, published, cursor, reader, poller, moves,
                       handled, excused>>

\* Sequence and events become visible together, to the caller known or not.
CommitPublish(p) ==
    /\ writes[p] # {}
    /\ sequence' = Max(writes[p] \union {sequence})
    /\ events' = events \union writes[p]
    /\ published' = published \union writes[p]
    /\ writes' = [writes EXCEPT ![p] = {}]
    /\ locker' = NoPublisher
    /\ UNCHANGED <<cursor, reader, poller, moves, handled, excused>>

\* An error, a dropped future, a lost connection.
RollbackPublish(p) ==
    /\ writes[p] # {}
    /\ writes' = [writes EXCEPT ![p] = {}]
    /\ locker' = NoPublisher
    /\ UNCHANGED <<sequence, events, published, cursor, reader, poller, moves, handled, excused>>

\* Mutant: the sequence goes with the events.
PurgeEventsAndSequence ==
    /\ events # {}
    /\ events' = {} /\ sequence' = 0
    /\ excused' = excused \union events
    /\ UNCHANGED <<locker, writes, published, cursor, reader, poller, moves, handled>>

PurgeEvents ==
    /\ events # {}
    /\ events' = {}
    /\ excused' = excused \union events
    /\ UNCHANGED <<sequence, locker, writes, published, cursor, reader, poller, moves, handled>>

EventExpires == \E n \in events :
    /\ events' = events \ {n}
    /\ excused' = excused \union {n}
    /\ UNCHANGED <<sequence, locker, writes, published, cursor, reader, poller, moves, handled>>

-----------------------------------------------------------------------------
(***************************************************************************)
(* The scan and the cursor.                                                *)
(***************************************************************************)

\* fetch_events_after: the poll_limit smallest retained numbers after the given
\* one.  The zero-padded key suffix sorts like the number.
ScanAfter(after) ==
    LET later == {n \in events : n > after}
    IN  {n \in later : Cardinality({m \in later : m < n}) < PollLimit}

\* Mutant: the cursor is set to the given number whatever it is.
AdvancedCursorExactly(to) == to

\* advance_cursor_if_needed: a transaction that locks the cursor's row and keeps a
\* cursor that is further.
AdvancedCursor(to) == IF cursor >= to THEN cursor ELSE to

\* set_cursor: what it jumps over is not delivered, by the operator's will.
SetCursor ==
    \E n \in 0 .. MaxSequence :
        /\ moves < MaxOperator
        /\ moves' = moves + 1
        /\ cursor' = n
        /\ excused' = excused \union (1 .. n)
        /\ UNCHANGED <<logVars, reader, poller, handled>>

DeleteCursor ==
    /\ moves < MaxOperator
    /\ moves' = moves + 1
    /\ cursor' = 0
    /\ UNCHANGED <<logVars, reader, poller, handled, excused>>

-----------------------------------------------------------------------------
(***************************************************************************)
(* read_new_events_and_advance_cursor: cursor, scan, and the advance with  *)
(* the commit.  The two reads take no lock.                                *)
(***************************************************************************)
ReaderFetchesCursor ==
    /\ reader.at = "idle"
    /\ reader' = [at |-> "scan", cursor |-> cursor, batch |-> {}]
    /\ UNCHANGED <<logVars, cursor, poller, moves, handled, excused>>

ReaderScans ==
    /\ reader.at = "scan"
    /\ LET batch == ScanAfter(reader.cursor)
       IN  reader' = IF batch = {} THEN [at |-> "idle", cursor |-> 0, batch |-> {}]
                     ELSE [at |-> "advance", cursor |-> 0, batch |-> batch]
    /\ UNCHANGED <<logVars, cursor, poller, moves, handled, excused>>

\* The commit returns; or it is not acknowledged and the caller never sees the
\* events (an error says so); or the transaction rolls back.
ReaderCommits ==
    /\ reader.at = "advance"
    /\ reader' = [at |-> "idle", cursor |-> 0, batch |-> {}]
    /\ \/ /\ cursor' = AdvancedCursor(Max(reader.batch))
          /\ \/ handled' = handled \union reader.batch /\ UNCHANGED excused
             \/ excused' = excused \union reader.batch /\ UNCHANGED handled
       \/ UNCHANGED <<cursor, handled, excused>>
    /\ UNCHANGED <<logVars, poller, moves>>

-----------------------------------------------------------------------------
(***************************************************************************)
(* The polling loop.                                                       *)
(***************************************************************************)
Is(c, place) == poller[c].at = place

Steps(c, place) == poller' = [poller EXCEPT ![c].at = place]

\* break: what is left is the release.
Breaks(c, how) ==
    poller' = [poller EXCEPT ![c] = [at |-> "releasing", cursor |-> 0, batch |-> {}, lost |-> FALSE, end |-> how]]

PollerEnds(c, how) ==
    poller' = [poller EXCEPT ![c] = [at |-> "ended", cursor |-> 0, batch |-> {}, lost |-> FALSE, end |-> how]]

OthersOfPoller == UNCHANGED <<logVars, cursor, reader, moves, handled, excused>>

\* try_claim_guard grants; while it refuses, the loop waits and tries again.
PollerClaims(c) ==
    /\ Is(c, "claiming")
    /\ Steps(c, "start")
    /\ OthersOfPoller

\* The claim fails for good, or by the policy; otherwise the loop tries again.
PollerClaimErrs(c) ==
    /\ Is(c, "claiming")
    /\ PollerEnds(c, "failed")
    /\ OthersOfPoller

\* stop resolves while the loop waits for its mutex.
PollerStopsWaiting(c) ==
    /\ Is(c, "claiming")
    /\ PollerEnds(c, "ok")
    /\ OthersOfPoller

\* The heartbeat of the guard finds the claim gone.
PollerLoses(c) ==
    /\ poller[c].at \notin {"claiming", "releasing", "ended"} /\ ~ poller[c].lost
    /\ poller' = [poller EXCEPT ![c].lost = TRUE]
    /\ OthersOfPoller

\* The cursor is read once, at the start of a tenure.
PollerFetchesCursor(c) ==
    /\ Is(c, "start") /\ ~ poller[c].lost
    /\ poller' = [poller EXCEPT ![c].at = "scan", ![c].cursor = cursor]
    /\ OthersOfPoller

\* An empty scan waits for the poll interval, and an error for the retry delay.
PollerScans(c) ==
    /\ Is(c, "scan") /\ ~ poller[c].lost
    /\ ScanAfter(poller[c].cursor) # {}
    /\ poller' = [poller EXCEPT ![c].at = "got", ![c].batch = ScanAfter(poller[c].cursor)]
    /\ OthersOfPoller

\* A read fails and is not retried.
PollerReadFails(c) ==
    /\ Is(c, "start") \/ Is(c, "scan")
    /\ Breaks(c, "failed")
    /\ OthersOfPoller

\* leadership_lost, tested before the reads, before and after the handler, and
\* after the advance.
PollerSeesLoss(c) ==
    /\ poller[c].lost
    /\ Is(c, "start") \/ Is(c, "scan") \/ Is(c, "got") \/ Is(c, "accepted") \/ Is(c, "advanced")
    /\ Breaks(c, "lost")
    /\ OthersOfPoller

PollerCallsHandler(c) ==
    /\ Is(c, "got") /\ ~ poller[c].lost
    /\ Steps(c, "handler")
    /\ OthersOfPoller

HandlerAccepts(c) ==
    /\ Is(c, "handler")
    /\ Steps(c, "accepted")
    /\ handled' = handled \union poller[c].batch
    /\ UNCHANGED <<logVars, cursor, reader, moves, excused>>

HandlerErrs(c) ==
    /\ Is(c, "handler")
    /\ Breaks(c, "failed")
    /\ OthersOfPoller

\* The advance commits, or fails before or after the fact.
PollerAdvances(c) ==
    /\ Is(c, "accepted") /\ ~ poller[c].lost
    /\ \/ cursor' = AdvancedCursor(Max(poller[c].batch)) /\ Steps(c, "advanced")
       \/ cursor' = AdvancedCursor(Max(poller[c].batch)) /\ Breaks(c, "failed")
       \/ UNCHANGED cursor /\ Breaks(c, "failed")
    /\ UNCHANGED <<logVars, reader, moves, handled, excused>>

\* The batch is done: the next scan starts after it.
PollerGoesOn(c) ==
    /\ Is(c, "advanced") /\ ~ poller[c].lost
    /\ poller' = [poller EXCEPT ![c].at = "scan", ![c].cursor = Max(poller[c].batch), ![c].batch = {}]
    /\ OthersOfPoller

\* Mutant: stop is also obeyed between the handler and the advance.
PollerStopsAnywhere(c) ==
    /\ Is(c, "start") \/ Is(c, "scan") \/ Is(c, "accepted") \/ Is(c, "advanced")
    /\ Breaks(c, "ok")
    /\ OthersOfPoller

\* stop wins a select: during a read or a pause, or when a batch is done; never
\* between the handler and the advance.
PollerStops(c) ==
    /\ Is(c, "start") \/ Is(c, "scan") \/ (Is(c, "advanced") /\ ~ poller[c].lost)
    /\ Breaks(c, "ok")
    /\ OthersOfPoller

\* combine_subscription_run_and_polling_guard_release_results.
PollerReleases(c) == \E released \in BOOLEAN :
    /\ Is(c, "releasing")
    /\ PollerEnds(c, IF poller[c].end = "ok" /\ ~ released THEN "lost" ELSE poller[c].end)
    /\ OthersOfPoller

\* The process stops, or the future of the loop is dropped.
PollerDies(c) ==
    /\ poller[c].at \notin {"claiming", "releasing", "ended"}
    /\ PollerEnds(c, "failed")
    /\ OthersOfPoller

-----------------------------------------------------------------------------
PollerNext(c) ==
    \/ PollerClaims(c) \/ PollerClaimErrs(c) \/ PollerStopsWaiting(c) \/ PollerLoses(c)
    \/ PollerFetchesCursor(c) \/ PollerScans(c) \/ PollerReadFails(c) \/ PollerSeesLoss(c)
    \/ PollerCallsHandler(c) \/ HandlerAccepts(c) \/ HandlerErrs(c) \/ PollerAdvances(c)
    \/ PollerGoesOn(c) \/ PollerStops(c) \/ PollerReleases(c) \/ PollerDies(c)

LogNext ==
    \/ \E p \in Publishers : TakeNumber(p) \/ CommitPublish(p) \/ RollbackPublish(p)
    \/ PurgeEvents \/ EventExpires

TopicNext ==
    \/ LogNext \/ SetCursor \/ DeleteCursor
    \/ ReaderFetchesCursor \/ ReaderScans \/ ReaderCommits
    \/ \E c \in Pollers : PollerNext(c)

TopicSpec == TopicInit /\ [][TopicNext]_topicVars

-----------------------------------------------------------------------------
\* No event is passed over: when the cursor is at or beyond the number of a
\* committed event, a handler has accepted it or a reader has returned it, unless
\* it expired, was purged, or the operator jumped over it.  In particular no
\* event becomes visible behind a cursor.
NothingIsPassedOver ==
    \A n \in published : n <= cursor => n \in handled \union excused

\* The cursor moves backwards only by set_cursor and delete_cursor, whichever
\* loops and readers race to move it.
CursorIsMonotone == cursor' >= cursor \/ moves' # moves

\* A batch that a handler has accepted is behind the cursor before the loop takes
\* notice of a stop: only a loss, an error or a crash makes it come again.
StopKeepsPlace ==
    \A c \in Pollers :
        (/\ poller[c].at \in {"accepted", "advanced"} /\ moves = 0
         /\ poller'[c].at = "releasing" /\ poller'[c].end = "ok")
            => cursor >= Max(poller[c].batch)

\* Topics and their subscriptions: types, and no event passed over.
TopicIsSound == TopicTypeOK /\ NothingIsPassedOver

\* The cursor of a subscription: no step moves it back but an operator's, and
\* none stops a loop before it has caught up with the handler.
CursorIsKept == [][CursorIsMonotone /\ StopKeepsPlace]_topicVars
=============================================================================
