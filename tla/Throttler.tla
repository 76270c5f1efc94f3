------------------------------- MODULE Throttler -------------------------------
(***************************************************************************)
(* The throttler of src/src/db/fleet (throttler*.rs), which is also the    *)
(* rate limiter and the circuit breaker: one key-value record with a token *)
(* bucket, concurrency slots and a circuit, mutated atomically by callers  *)
(* that acquire a permit, run a task and release the permit.               *)
(*                                                                         *)
(* A mutation locks the record with one statement and works with the       *)
(* timestamp at which that statement began, which is old when it had to    *)
(* wait.  It may commit without the caller learning of it.  Tokens are     *)
(* counted in units of 1/Interval, so that one tick refills Requests of    *)
(* them and an operation costs Interval; f64 rounding is left out.         *)
(***************************************************************************)
EXTENDS Integers, FiniteSets, FiniteSetsExt

CONSTANTS
    Callers,          \* each takes at most one permit, under a generated holder id
    NoHolder,         \* None in the probe, and a free slot
    HasRate, Requests, Interval,
    HasSlots, MaxConcurrent, MaxHold,
    HasCircuit, Threshold, Recovery, ProbeWindow,
    MaxCount,         \* where the failure count saturates, u32::MAX in the code
    MaxBeatFailures,  \* consecutive failures after which the probe heartbeat ends
    OperatorCalls,    \* what operators do: some of "open", "closed" and "reset"
    StateTtl,         \* ten times the longest of the durations in the code
    MaxTime           \* bound on the database clock

ASSUME HolderAssumption == NoHolder \notin Callers
ASSUME ConfigAssumption ==
    /\ {HasRate, HasSlots, HasCircuit} \subseteq BOOLEAN
    /\ {Requests, Interval, MaxConcurrent, MaxHold, Threshold, Recovery,
        ProbeWindow, MaxCount, MaxBeatFailures} \subseteq Nat \ {0}
    /\ Threshold <= MaxCount
    /\ OperatorCalls \subseteq {"open", "closed", "reset"}
    /\ MaxTime \in Nat
    /\ StateTtl \in Nat
    /\ \A d \in {Interval, MaxHold, Recovery, ProbeWindow} : d <= StateTtl

VARIABLES
    now,       \* the database clock
    state,     \* the record
    pc,        \* where each caller is
    call,      \* the statement the caller waits for
    permit,    \* what the caller was granted, and until when it counts
    outcome,   \* what the caller reports of its task
    beat,      \* the probe heartbeat of the caller
    rate       \* history of the token bucket since the last reset

vars == <<now, state, pc, call, permit, outcome, beat, rate>>

\* Operations admitted since the time "since" of the last reset, the time up to
\* which the bucket was paid out last, and the time that was paid out again.
FreshRate(t) == [admitted |-> 0, since |-> t, paid |-> t - Interval, rewound |-> 0]

SlotIds == 1 .. MaxConcurrent

FreeSlot == [holder |-> NoHolder, expires |-> 0]

NoTime == -1

NoPermit == [slot |-> 0, slot_until |-> 0, probe |-> FALSE, probe_until |-> 0]

NoCall == [ts |-> 0, saw |-> FALSE]

NoBeat == [pc |-> "none", call |-> NoCall, failures |-> 0]

\* initial_state.
InitialState(ts) ==
    [present |-> FALSE, expires |-> 0,
     tokens |-> IF HasRate THEN Requests * Interval ELSE 0, last_refill |-> ts,
     slots |-> [i \in SlotIds |-> FreeSlot],
     failures |-> 0, circuit |-> "closed", opened_at |-> NoTime,
     probe_holder |-> NoHolder, probe_expires |-> NoTime]

Absent == InitialState(0)

ThrottlerTypeOK ==
    /\ now \in 0 .. MaxTime
    /\ state.tokens \in 0 .. Requests * Interval
    /\ state.last_refill \in 0 .. now
    /\ state.expires \in 0 .. now + StateTtl
    /\ \A i \in SlotIds :
          /\ state.slots[i].holder \in Callers \union {NoHolder}
          /\ state.slots[i].expires \in 0 .. now + MaxHold
    /\ state.circuit = "open" => state.opened_at \in 0 .. now
    /\ state.circuit = "closed" => state.failures < Threshold
    /\ state.probe_holder = NoHolder <=> state.probe_expires = NoTime
    /\ pc \in [Callers -> {"idle", "acquiring", "holding", "releasing",
                           "cleaning", "done"}]
    /\ outcome \in [Callers -> {"none", "NotExecuted", "Succeeded", "Failed"}]
    /\ \A c \in Callers :
          /\ permit[c].slot \in {0} \union SlotIds
          /\ beat[c].pc \in {"none", "sleeping", "extending"}
          /\ beat[c].failures \in 0 .. MaxBeatFailures - 1

Init ==
    /\ now = 0
    /\ state = Absent
    /\ pc = [c \in Callers |-> "idle"]
    /\ call = [c \in Callers |-> NoCall]
    /\ permit = [c \in Callers |-> NoPermit]
    /\ outcome = [c \in Callers |-> "none"]
    /\ beat = [c \in Callers |-> NoBeat]
    /\ rate = FreshRate(0)

Set(f, c, v) == [f EXCEPT ![c] = v]

-----------------------------------------------------------------------------
(***************************************************************************)
(* The atomic mutation of the key-value store (kv/store_atomic_api.rs).    *)
(***************************************************************************)
NewCall == [ts |-> now, saw |-> state.present]

\* The lock statement returns the row its snapshot held, or inserts one.
Locks(q) == q.saw \/ ~ state.present

Live(ts) == state.present /\ state.expires > ts

LiveOrInitial(ts) == IF Live(ts) THEN state ELSE InitialState(ts)

Stored(st) == [st EXCEPT !.present = TRUE, !.expires = now + StateTtl]

\* The row is deleted: statements that held it in their snapshot find nothing.
DeleteRow ==
    /\ state' = Absent
    /\ call' = [c \in Callers |-> [call[c] EXCEPT !.saw = FALSE]]
    /\ beat' = [c \in Callers |-> [beat[c] EXCEPT !.call.saw = FALSE]]

-----------------------------------------------------------------------------
(***************************************************************************)
(* evaluate_try_acquire_manual_permit.                                     *)
(***************************************************************************)
ProbeIsLive(st, ts) == st.probe_holder # NoHolder /\ ts < st.probe_expires

\* Mutant: the reservation of another probe is not looked at.
GateWithoutReservation(st, ts) ==
    IF ~ HasCircuit \/ st.circuit # "open" THEN "AllowNormally"
    ELSE IF ts - st.opened_at < Recovery THEN "Block"
    ELSE "AllowProbe"

\* should_block_for_open_circuit, for a holder that has no reservation yet.
Gate(st, ts) ==
    IF ~ HasCircuit \/ st.circuit # "open" THEN "AllowNormally"
    ELSE IF ts - st.opened_at < Recovery \/ ProbeIsLive(st, ts) THEN "Block"
    ELSE "AllowProbe"

\* Expired slots are dropped before one is taken.
RetainedSlots(st, ts) ==
    [i \in SlotIds |-> IF ts < st.slots[i].expires THEN st.slots[i] ELSE FreeSlot]

FreeIds(slots) == {i \in SlotIds : slots[i].holder = NoHolder}

\* acquire_concurrency_slot_if_configured: the first free slot, 0 for none.
SlotTaken(st, ts) ==
    LET free == FreeIds(RetainedSlots(st, ts))
    IN  IF HasSlots /\ free # {} THEN Min(free) ELSE 0

SlotsAfter(c, st, ts) ==
    IF ~ HasSlots THEN st.slots
    ELSE [i \in SlotIds |->
            IF i = SlotTaken(st, ts) THEN [holder |-> c, expires |-> ts + MaxHold]
            ELSE RetainedSlots(st, ts)[i]]

RefilledTokens(st, ts) ==
    Min({Requests * Interval, st.tokens + Requests * Max({0, ts - st.last_refill})})

\* Mutant: the time of the refill is not recorded.
RefilledAgain(st, ts) ==
    IF HasRate THEN [st EXCEPT !.tokens = RefilledTokens(st, ts)] ELSE st

\* consume_rate_limit_token_if_configured sets last_refill to the statement's
\* time even if the record has seen a later one.
Refilled(st, ts) ==
    IF HasRate THEN [st EXCEPT !.tokens = RefilledTokens(st, ts), !.last_refill = ts] ELSE st

NoSlot(st, ts) == HasSlots /\ SlotTaken(st, ts) = 0

NoToken(st, ts) == HasRate /\ RefilledTokens(st, ts) < Interval

AcquireResult(st, ts) ==
    IF Gate(st, ts) = "Block" THEN "CircuitOpen"
    ELSE IF NoSlot(st, ts) \/ NoToken(st, ts) THEN "Throttled"
    ELSE "Acquired"

AcquiredState(c, st, ts) ==
    LET paid == [Refilled(st, ts) EXCEPT !.slots = SlotsAfter(c, st, ts),
                                         !.tokens = @ - (IF HasRate THEN Interval ELSE 0)]
    IN  IF Gate(st, ts) = "AllowProbe"
        THEN [paid EXCEPT !.probe_holder = c, !.probe_expires = ts + ProbeWindow]
        ELSE paid

\* What an attempt writes if it is not admitted: the purge of expired slots,
\* the refill, and the record itself when there was none.
DeniedState(st, ts) ==
    IF Gate(st, ts) = "Block" THEN st
    ELSE IF NoSlot(st, ts) THEN [st EXCEPT !.slots = RetainedSlots(st, ts)]
    ELSE [Refilled(st, ts) EXCEPT !.slots = IF HasSlots THEN RetainedSlots(st, ts) ELSE @]

DeniedWrites(st, ts) ==
    \/ ~ Live(ts)
    \/ Gate(st, ts) # "Block" /\ (~ NoSlot(st, ts) \/ RetainedSlots(st, ts) # st.slots)

GrantedPermit(st, ts) ==
    [slot |-> SlotTaken(st, ts), slot_until |-> IF HasSlots THEN ts + MaxHold ELSE 0,
     probe |-> Gate(st, ts) = "AllowProbe",
     probe_until |-> IF Gate(st, ts) = "AllowProbe" THEN ts + ProbeWindow ELSE 0]

\* The bucket is paid out up to ts, a new one by the Interval before ts; what was
\* paid out already is a rewind.
PaidOut(ts) ==
    [rate EXCEPT !.paid = ts,
                 !.rewound = @ + Max({0, rate.paid + (IF Live(ts) THEN 0 ELSE Interval) - ts})]

\* A mutation that reaches the bucket pays it out.
RateHistory(st, ts) ==
    IF HasRate /\ Gate(st, ts) # "Block" /\ ~ NoSlot(st, ts)
    THEN [PaidOut(ts) EXCEPT !.admitted = @ + (IF NoToken(st, ts) THEN 0 ELSE 1)]
    ELSE rate

-----------------------------------------------------------------------------
(***************************************************************************)
(* A caller: acquire, run the task, release.                               *)
(***************************************************************************)
BeginAcquire(c) ==
    /\ pc[c] = "idle"
    /\ pc' = Set(pc, c, "acquiring")
    /\ call' = Set(call, c, NewCall)
    /\ UNCHANGED <<now, state, permit, outcome, beat, rate>>

CommitAcquire(c) ==
    LET ts == call[c].ts
        st == LiveOrInitial(ts)
    IN  /\ Locks(call[c])
        /\ state' = IF AcquireResult(st, ts) = "Acquired" THEN Stored(AcquiredState(c, st, ts))
                    ELSE IF DeniedWrites(st, ts) THEN Stored(DeniedState(st, ts))
                    ELSE state
        /\ rate' = RateHistory(st, ts)
        /\ call' = Set(call, c, NoCall)
        /\ UNCHANGED <<now, outcome>>

\* Acquired: the guard starts a heartbeat if it holds a probe.  Otherwise the
\* caller tries again (acquire_with_optional_holder_when_ready) or leaves.
AcquireReturns(c) ==
    LET ts == call[c].ts
        st == LiveOrInitial(ts)
    IN  /\ pc[c] = "acquiring"
        /\ CommitAcquire(c)
        /\ IF AcquireResult(st, ts) = "Acquired"
           THEN /\ pc' = Set(pc, c, "holding")
                /\ permit' = Set(permit, c, GrantedPermit(st, ts))
                /\ beat' = IF Gate(st, ts) = "AllowProbe"
                           THEN [beat EXCEPT ![c].pc = "sleeping"] ELSE beat
           ELSE pc' = Set(pc, c, "idle") /\ UNCHANGED <<permit, beat>>

\* The commit is not acknowledged, or nobody waits for it: no permit comes of it.
AcquireUnacknowledged(c) ==
    /\ pc[c] = "acquiring"
    /\ CommitAcquire(c)
    /\ pc' = Set(pc, c, "done")
    /\ UNCHANGED <<permit, beat>>

AcquireRollsBack(c) ==
    /\ pc[c] = "acquiring"
    /\ pc' = Set(pc, c, "idle")
    /\ call' = Set(call, c, NoCall)
    /\ UNCHANGED <<now, state, permit, outcome, beat, rate>>

\* A row that the snapshot does not hold was inserted meanwhile: the lock
\* statement returns nothing and is sent again.
LockAgain(c) ==
    /\ pc[c] \in {"acquiring", "releasing", "cleaning"}
    /\ ~ Locks(call[c])
    /\ call' = Set(call, c, NewCall)
    /\ UNCHANGED <<now, state, pc, permit, outcome, beat, rate>>

NeedsCleanup(c) == (HasSlots /\ permit[c].slot # 0) \/ HasCircuit

\* The permit is gone.
LosePermit(c) ==
    /\ pc' = Set(pc, c, "done")
    /\ call' = Set(call, c, NoCall)
    /\ permit' = Set(permit, c, NoPermit)
    /\ outcome' = Set(outcome, c, "none")

\* The permit is taken out of the guard and the heartbeat told to stop: it ends
\* when it sleeps, or after the call it waits for.
Finish(c) ==
    /\ LosePermit(c)
    /\ beat' = IF beat[c].pc = "sleeping" THEN Set(beat, c, NoBeat) ELSE beat

\* run_task and the release_after_* methods of the guard.
ReleasePermit(c, result) ==
    /\ pc[c] = "holding"
    /\ IF NeedsCleanup(c)
       THEN /\ pc' = Set(pc, c, "releasing")
            /\ call' = Set(call, c, NewCall)
            /\ outcome' = Set(outcome, c, result)
            /\ UNCHANGED <<permit, beat>>
       ELSE Finish(c)
    /\ UNCHANGED <<now, state, rate>>

\* The task that Drop spawns, while the guard still has its permit.  It may start
\* late; so may the drop itself, hence one step for both.
Cleanup(c, drop_outcome) ==
    IF NeedsCleanup(c)
    THEN /\ pc' = Set(pc, c, "cleaning")
         /\ call' = Set(call, c, NewCall)
         /\ outcome' = Set(outcome, c, drop_outcome)
         /\ UNCHANGED <<permit, beat>>
    ELSE Finish(c)

\* The guard is dropped: NotExecuted before run_task, Failed in it.
DropGuard(c, drop_outcome) ==
    /\ pc[c] = "holding"
    /\ Cleanup(c, drop_outcome)
    /\ UNCHANGED <<now, state, rate>>

\* Mutant: the slot is freed whoever holds it.
ReleasedSlotsOfAnyone(c, st) ==
    IF permit[c].slot = 0 THEN st.slots ELSE [st.slots EXCEPT ![permit[c].slot] = FreeSlot]

\* release_owned_concurrency_slot.
ReleasedSlots(c, st) ==
    IF permit[c].slot # 0 /\ st.slots[permit[c].slot].holder = c
    THEN [st.slots EXCEPT ![permit[c].slot] = FreeSlot] ELSE st.slots

\* Mutant: the circuit opens one failure too late.
AfterOutcomeTooLate(st, ts, result) ==
    IF ~ HasCircuit \/ result = "NotExecuted" THEN st
    ELSE IF result = "Failed"
    THEN [st EXCEPT !.failures = Min({@ + 1, MaxCount}),
                    !.circuit = IF st.failures + 1 > Threshold THEN "open" ELSE @,
                    !.opened_at = IF st.circuit = "open" \/ st.failures + 1 > Threshold
                                  THEN ts ELSE @]
    ELSE [st EXCEPT !.failures = 0, !.circuit = "closed", !.opened_at = NoTime]

\* apply_task_outcome_to_circuit_state.
AfterOutcome(st, ts, result) ==
    IF ~ HasCircuit \/ result = "NotExecuted" THEN st
    ELSE IF result = "Failed"
    THEN [st EXCEPT !.failures = Min({@ + 1, MaxCount}),
                    !.circuit = IF st.failures + 1 >= Threshold THEN "open" ELSE @,
                    !.opened_at = IF st.circuit = "open" \/ st.failures + 1 >= Threshold
                                  THEN ts ELSE @]
    ELSE [st EXCEPT !.failures = 0, !.circuit = "closed", !.opened_at = NoTime]

ClearProbeIfOwned(c, st) ==
    IF st.probe_holder = c
    THEN [st EXCEPT !.probe_holder = NoHolder, !.probe_expires = NoTime] ELSE st

\* apply_release_and_outcome.
ReleasedState(c, ts) ==
    LET slots == [state EXCEPT !.slots = ReleasedSlots(c, state)]
    IN  IF HasCircuit THEN ClearProbeIfOwned(c, AfterOutcome(slots, ts, outcome[c])) ELSE slots

\* Nothing happens to a record that has expired.
CommitRelease(c) ==
    LET ts == call[c].ts
    IN  /\ Locks(call[c])
        /\ state' = IF Live(ts) /\ ReleasedState(c, ts) # state
                    THEN Stored(ReleasedState(c, ts)) ELSE state

ReleaseReturns(c) ==
    /\ pc[c] = "releasing"
    /\ CommitRelease(c)
    /\ Finish(c)
    /\ UNCHANGED <<now, rate>>

\* An error is returned, whether or not the release took effect; the guard
\* still has its permit when it is dropped, with the outcome as drop_outcome.
ReleaseErrs(c) ==
    /\ pc[c] = "releasing"
    /\ CommitRelease(c) \/ UNCHANGED state
    /\ Cleanup(c, outcome[c])
    /\ UNCHANGED <<now, rate>>

CleanupEnds(c) ==
    /\ pc[c] = "cleaning"
    /\ CommitRelease(c) \/ UNCHANGED state
    /\ Finish(c)
    /\ UNCHANGED <<now, rate>>

Crash(c) ==
    /\ pc[c] \notin {"idle", "done"}
    /\ LosePermit(c)
    /\ beat' = Set(beat, c, NoBeat)
    /\ UNCHANGED <<now, state, rate>>

-----------------------------------------------------------------------------
(***************************************************************************)
(* run_throttler_probe_heartbeat.                                          *)
(***************************************************************************)
BeatWakes(c) ==
    /\ beat[c].pc = "sleeping"
    /\ beat' = [beat EXCEPT ![c].pc = "extending", ![c].call = NewCall]
    /\ UNCHANGED <<now, state, pc, call, permit, outcome, rate>>

\* The heartbeat sleeps again, unless it was told to stop.
BeatSleeps(c, failures) ==
    IF pc[c] = "done" THEN NoBeat ELSE [NoBeat EXCEPT !.pc = "sleeping", !.failures = failures]

Extends(c, ts) ==
    Live(ts) /\ state.circuit = "open" /\ state.probe_holder = c /\ ts < state.probe_expires

CommitExtend(c) ==
    LET ts == beat[c].call.ts
    IN  /\ Locks(beat[c].call)
        /\ state' = IF Extends(c, ts)
                    THEN Stored([state EXCEPT !.probe_expires = ts + ProbeWindow]) ELSE state

ExtendReturns(c) ==
    LET ts == beat[c].call.ts
    IN  /\ beat[c].pc = "extending"
        /\ CommitExtend(c)
        /\ beat' = Set(beat, c, IF Extends(c, ts) THEN BeatSleeps(c, 0) ELSE NoBeat)
        /\ permit' = IF Extends(c, ts) /\ permit[c].probe
                     THEN [permit EXCEPT ![c].probe_until = ts + ProbeWindow] ELSE permit
        /\ UNCHANGED <<now, pc, call, outcome, rate>>

\* A protocol failure ends the heartbeat at once, other errors do in the end.
ExtendErrs(c) ==
    /\ beat[c].pc = "extending"
    /\ CommitExtend(c) \/ UNCHANGED state
    /\ \E protocol_failure \in BOOLEAN :
          beat' = Set(beat, c, IF protocol_failure \/ beat[c].failures + 1 >= MaxBeatFailures
                               THEN NoBeat ELSE BeatSleeps(c, beat[c].failures + 1))
    /\ UNCHANGED <<now, pc, call, permit, outcome, rate>>

ExtendAgain(c) ==
    /\ beat[c].pc = "extending"
    /\ ~ Locks(beat[c].call)
    /\ beat' = [beat EXCEPT ![c].call = NewCall]
    /\ UNCHANGED <<now, state, pc, call, permit, outcome, rate>>

-----------------------------------------------------------------------------
(***************************************************************************)
(* Operators and time.  An operator's call revokes what it overrides: the  *)
(* permits given out so far stop counting.                                 *)
(***************************************************************************)
RevokeProbes == permit' = [c \in Callers |-> [permit[c] EXCEPT !.probe_until = 0]]

\* set_circuit_state_in_current_transaction.
SetCircuit(circuit) ==
    LET st == LiveOrInitial(now)
    IN  /\ HasCircuit
        /\ state' = Stored([st EXCEPT !.circuit = circuit,
                                      !.opened_at = IF circuit = "open" THEN now ELSE NoTime,
                                      !.failures = IF circuit = "closed" THEN 0 ELSE @,
                                      !.probe_holder = NoHolder, !.probe_expires = NoTime])
        /\ RevokeProbes
        /\ rate' = IF HasRate /\ ~ Live(now) THEN PaidOut(now) ELSE rate
        /\ UNCHANGED <<now, pc, call, outcome, beat>>

\* reset deletes a live record.
Reset ==
    /\ "reset" \in OperatorCalls
    /\ Live(now)
    /\ DeleteRow
    /\ permit' = [c \in Callers |-> [permit[c] EXCEPT !.slot_until = 0, !.probe_until = 0]]
    /\ rate' = IF HasRate THEN FreshRate(now) ELSE rate
    /\ UNCHANGED <<now, pc, outcome>>

\* The purge of expired keys.
PurgeExpired ==
    /\ state.present /\ state.expires <= now
    /\ DeleteRow
    /\ UNCHANGED <<now, pc, permit, outcome, rate>>

Tick ==
    /\ now < MaxTime
    /\ now' = now + 1
    /\ UNCHANGED <<state, pc, call, permit, outcome, beat, rate>>

CallerNext(c) ==
    \/ BeginAcquire(c) \/ AcquireReturns(c) \/ AcquireUnacknowledged(c) \/ AcquireRollsBack(c)
    \/ LockAgain(c) \/ ReleaseReturns(c) \/ ReleaseErrs(c) \/ CleanupEnds(c)
    \/ \E result \in {"NotExecuted", "Succeeded", "Failed"} : ReleasePermit(c, result)
    \/ \E result \in {"NotExecuted", "Failed"} : DropGuard(c, result)
    \/ Crash(c)

BeatNext(c) == BeatWakes(c) \/ ExtendReturns(c) \/ ExtendErrs(c) \/ ExtendAgain(c)

Next ==
    \/ \E c \in Callers : CallerNext(c) \/ BeatNext(c)
    \/ \E circuit \in OperatorCalls \ {"reset"} : SetCircuit(circuit)
    \/ Reset \/ PurgeExpired \/ Tick

Spec == Init /\ [][Next]_vars
-----------------------------------------------------------------------------
RunsProbe(c) == pc[c] = "holding" /\ permit[c].probe /\ now < permit[c].probe_until

\* At most MaxConcurrent tasks run within their hold time, although slots are
\* purged with old timestamps and permits are released late, twice or never
\* (ThrottlerConcurrencyLimit::max_concurrent).
ConcurrencyBound ==
    HasSlots =>
        Cardinality({c \in Callers : /\ pc[c] = "holding"
                                     /\ now < permit[c].slot_until}) <= MaxConcurrent

\* Two half-open probes never run with a valid reservation at the same time:
\* stragglers that close, reopen or restart the circuit do not admit another.
ProbeIsExclusive ==
    \A c, d \in Callers :
        (c # d /\ RunsProbe(c)) => ~ RunsProbe(d)

\* The token bucket admits Requests at once and Requests per Interval after
\* that, apart from what a rewound refill time pays out again.
RateBoundUpToRewind ==
    HasRate =>
        rate.admitted * Interval <= Requests * (Interval + now - rate.since + rate.rewound)

\* The token bucket as documented: Requests operations allowed per Interval, on
\* top of a full bucket.
RateBound ==
    HasRate => rate.admitted * Interval <= Requests * (Interval + now - rate.since)

\* The record and its circuit: types, and one half-open probe at a time.
CircuitIsSound == ThrottlerTypeOK /\ ProbeIsExclusive
=============================================================================
