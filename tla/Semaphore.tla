------------------------------- MODULE Semaphore -------------------------------
(***************************************************************************)
(* The fleet semaphore of src/src/db/fleet/semaphore.rs: max_concurrent    *)
(* rows of the key-value store, one per slot.  A slot is taken by writing  *)
(* the holder's id into a row that is absent or expired                    *)
(* (acquire_prepared_slot_bytes_in_current_transaction in                  *)
(* src/src/db/kv/store_execution.rs) and given back by a transaction that  *)
(* locks the row and deletes it if the holder's id is still in it.         *)
(*                                                                         *)
(* Time is what is left: every live row and every claim counts down from   *)
(* max_hold_ttl.                                                           *)
(***************************************************************************)
EXTENDS Integers, FiniteSets, Functions

CONSTANTS
    Callers,     \* tasks that use the semaphore
    Nobody,      \* model value: the empty value of a prepared slot row
    Slots,       \* slot suffixes, max_concurrent of them
    MaxHoldTtl,  \* max_hold_ttl in ticks
    MaxAcquires, \* bound on the acquisitions of a caller
    MaxResets    \* bound on the calls of reset

ASSUME SemaphoreAssumption ==
    MaxHoldTtl \in Nat \ {0} /\ MaxAcquires \in Nat /\ MaxResets \in Nat

VARIABLES
    rows,    \* committed slot rows
    call,    \* the call, guard or transaction of each caller
    resets   \* calls of reset so far

semVars == <<rows, call, resets>>

Row == [holder : {Nobody} \union (Callers \X (1 .. MaxAcquires)), left : 0 .. MaxHoldTtl]

NewCall == [at |-> "idle", count |-> 0, inserted |-> {}, slot |-> Nobody, left |-> 0,
            saw |-> FALSE, valid |-> FALSE]

\* generate_holder_id: a new one for each acquisition.  (Explicit ids are taken to
\* be distinct: claims that share one can free each other's slot.)
HolderId(c) == <<c, call[c].count>>

SemPlaces == {"idle", "waiting", "picking", "full", "picked", "holding", "asked", "dropped",
           "locked", "locked_drop", "dead"}

\* Types, and: a claim ends when its slot's row expires, not earlier or later.
SemTypeOK ==
    /\ DOMAIN rows \subseteq Slots /\ \A s \in DOMAIN rows : rows[s] \in Row
    /\ \A c \in Callers : /\ call[c].at \in SemPlaces /\ call[c].inserted \subseteq Slots
                          /\ call[c].left \in 0 .. MaxHoldTtl /\ call[c].count \in 0 .. MaxAcquires
    /\ \A c \in Callers : call[c].valid /\ call[c].at = "holding" =>
          LET s == call[c].slot IN
          call[c].left > 0 \/ (s \in DOMAIN rows /\ rows[s].holder = HolderId(c))
              => s \in DOMAIN rows /\ rows[s].left = call[c].left

SemInit == rows = <<>> /\ call = [c \in Callers |-> NewCall] /\ resets = 0

SemEnded(c) == [NewCall EXCEPT !.count = call[c].count]

\* Rows with an uncommitted insert, update or delete of c's transaction.
Dirty(c) ==
    CASE call[c].at \in {"picking", "full"} -> call[c].inserted
      [] call[c].at = "picked" -> call[c].inserted \union {call[c].slot}
      [] call[c].at \in {"locked", "locked_drop"} -> {call[c].slot}
      [] OTHER -> {}

FreeOf(c, s) == \A d \in Callers \ {c} : s \notin Dirty(d)

-----------------------------------------------------------------------------
\* try_acquire, or one turn of acquire_guard_when_available.
Want(c) ==
    /\ call[c].at = "idle" /\ call[c].count < MaxAcquires
    /\ call' = [call EXCEPT ![c] = [NewCall EXCEPT !.at = "waiting", !.count = call[c].count + 1]]
    /\ UNCHANGED <<rows, resets>>

\* ensure_slot_keys_exist: rows that have expired already; ON CONFLICT DO NOTHING
\* waits for whoever has an uncommitted change of one of the rows.
EnsureSlotKeysExist(c) ==
    /\ call[c].at = "waiting"
    /\ \A s \in Slots : FreeOf(c, s)
    /\ call' = [call EXCEPT ![c].at = "picking", ![c].inserted = Slots \ DOMAIN rows]
    /\ UNCHANGED <<rows, resets>>

\* Mutant: a slot whose holder's time is over is not taken again.
MayTakeUnheldOnly(c, s) ==
    /\ FreeOf(c, s)
    /\ s \in call[c].inserted \/ (s \in DOMAIN rows /\ rows[s].holder = Nobody)

\* expired_filter AND FOR UPDATE SKIP LOCKED.
MayTake(c, s) ==
    /\ FreeOf(c, s)
    /\ s \in call[c].inserted \/ (s \in DOMAIN rows /\ rows[s].left = 0)

\* Rows deleted after they were found to exist are not candidates: no slot, then.
AcquireSlot(c) ==
    /\ call[c].at = "picking"
    /\ \/ \E s \in Slots : MayTake(c, s)
             /\ call' = [call EXCEPT ![c].at = "picked", ![c].slot = s, ![c].left = MaxHoldTtl]
       \/ (\A s \in Slots : ~MayTake(c, s)) /\ call' = [call EXCEPT ![c].at = "full"]
    /\ UNCHANGED <<rows, resets>>

Placed(c) == [s \in call[c].inserted |-> [holder |-> Nobody, left |-> 0]]

Onto(new, old) == [s \in DOMAIN new \union DOMAIN old |-> IF s \in DOMAIN new THEN new[s] ELSE old[s]]

\* Mutant: the hold time counts from the commit.
ClaimRowFromCommit(c) == [s \in {call[c].slot} |-> [holder |-> HolderId(c), left |-> MaxHoldTtl]]

ClaimRow(c) == [s \in {call[c].slot} |-> [holder |-> HolderId(c), left |-> call[c].left]]

\* Commit of the acquisition.  When the answer is lost the caller has no claim
\* and the slot stays taken until its time is over.
CommitAcquire(c) ==
    /\ call[c].at = "picked"
    /\ rows' = Onto(ClaimRow(c), Onto(Placed(c), rows))
    /\ \E answered \in BOOLEAN :
          call' = [call EXCEPT ![c] =
             IF answered THEN [@ EXCEPT !.at = "holding", !.inserted = {}, !.valid = TRUE]
             ELSE SemEnded(c)]
    /\ UNCHANGED resets

\* No slot: the prepared rows are committed and the caller tries again later, or
\* returns NoSlotAvailable.
CommitFull(c) ==
    /\ call[c].at = "full"
    /\ rows' = Onto(Placed(c), rows)
    /\ \E again \in BOOLEAN :
          call' = [call EXCEPT ![c] =
             [SemEnded(c) EXCEPT !.at = IF again THEN "waiting" ELSE "idle"]]
    /\ UNCHANGED resets

\* An error or a dropped future before the commit.
RollbackAcquire(c) ==
    /\ call[c].at \in {"waiting", "picking", "full", "picked"}
    /\ call' = [call EXCEPT ![c] = SemEnded(c)]
    /\ UNCHANGED <<rows, resets>>

-----------------------------------------------------------------------------
\* The task has ended, or the guard is dropped: the drop spawns the release.  The
\* locking statement notes whether the row was live when it started.
AskRelease(c) ==
    /\ call[c].at = "holding"
    /\ \E dropped \in BOOLEAN :
          call' = [call EXCEPT ![c].at = IF dropped THEN "dropped" ELSE "asked",
             ![c].saw = call[c].slot \in DOMAIN rows /\ rows[call[c].slot].left > 0]
    /\ UNCHANGED <<rows, resets>>

LockForRelease(c) ==
    /\ call[c].at \in {"asked", "dropped"}
    /\ FreeOf(c, call[c].slot)
    /\ call' = [call EXCEPT ![c].at = IF @ = "dropped" THEN "locked_drop" ELSE "locked"]
    /\ UNCHANGED <<rows, resets>>

\* Mutant: whoever is in the row.
MayDeleteAny(c) == call[c].slot \in DOMAIN rows

\* mutate_live_atomically with the holder's id compared in the callback.  A row
\* that is absent or was not live is KeyNotFound, for which release returns false.
MayDelete(c) ==
    LET s == call[c].slot IN
    s \in DOMAIN rows /\ (call[c].saw \/ rows[s].left > 0) /\ rows[s].holder = HolderId(c)

\* The release commits; when the answer is lost try_release keeps the claim.
CommitRelease(c) ==
    /\ call[c].at \in {"locked", "locked_drop"}
    /\ rows' = IF MayDelete(c) THEN Restrict(rows, DOMAIN rows \ {call[c].slot}) ELSE rows
    /\ call' = [call EXCEPT ![c] = SemEnded(c)]
    /\ UNCHANGED resets

CommitReleaseUnanswered(c) ==
    /\ call[c].at = "locked"
    /\ rows' = IF MayDelete(c) THEN Restrict(rows, DOMAIN rows \ {call[c].slot}) ELSE rows
    /\ call' = [call EXCEPT ![c].at = "holding", ![c].valid = FALSE]
    /\ UNCHANGED resets

\* The release fails before its commit: the guard keeps the claim; the spawned
\* release of a drop is not repeated.
ReleaseFails(c) ==
    /\ call[c].at \in {"asked", "dropped", "locked", "locked_drop"}
    /\ call' = [call EXCEPT ![c] = IF @.at \in {"asked", "locked"} THEN [@ EXCEPT !.at = "holding"]
                                   ELSE SemEnded(c)]
    /\ UNCHANGED <<rows, resets>>

\* The process ends without running anything more.
Crash(c) ==
    /\ call[c].at \in SemPlaces \ {"idle", "dead"}
    /\ call' = [call EXCEPT ![c] = [SemEnded(c) EXCEPT !.at = "dead"]]
    /\ UNCHANGED <<rows, resets>>

\* reset: every slot row is deleted, held or not, and earlier claims are void.
Reset ==
    /\ resets < MaxResets
    /\ \A c \in Callers : Dirty(c) = {}
    /\ rows' = <<>> /\ resets' = resets + 1
    /\ call' = [c \in Callers |-> [call[c] EXCEPT !.valid = FALSE]]

Down(n) == IF n = 0 THEN 0 ELSE n - 1

SemTick ==
    /\ (\E s \in DOMAIN rows : rows[s].left > 0) \/ \E c \in Callers : call[c].left > 0
    /\ rows' = [s \in DOMAIN rows |-> [rows[s] EXCEPT !.left = Down(@)]]
    /\ call' = [c \in Callers |-> [call[c] EXCEPT !.left = Down(@)]]
    /\ UNCHANGED resets

\* What the runtime and the database do by themselves once a call is made.
Progress(c) ==
    \/ EnsureSlotKeysExist(c) \/ AcquireSlot(c) \/ CommitAcquire(c) \/ CommitFull(c)
    \/ LockForRelease(c) \/ CommitRelease(c)

Fault(c) == RollbackAcquire(c) \/ ReleaseFails(c) \/ CommitReleaseUnanswered(c) \/ Crash(c)

SemNext ==
    \/ SemTick \/ Reset
    \/ \E c \in Callers : Want(c) \/ Progress(c) \/ AskRelease(c) \/ Fault(c)

\* Statements return, sleeps end and time passes; nobody is obliged to give a
\* slot back.
SemFairness == WF_semVars(SemTick) /\ \A c \in Callers : WF_semVars(Progress(c))

SemSpec == SemInit /\ [][SemNext]_semVars /\ SemFairness

-----------------------------------------------------------------------------
Holds(c) == call[c].at \in {"holding", "asked", "dropped", "locked", "locked_drop"}
            /\ call[c].valid /\ call[c].left > 0

\* Within its hold time, and unless somebody reset the semaphore, a holder has its
\* slot alone: no late release of an earlier holder, no crash and no lost answer
\* gives it to another.
SlotHasOneHolder ==
    \A c, d \in Callers :
        c # d /\ Holds(c) /\ Holds(d) => call[c].slot # call[d].slot

\* A caller that waits gets a slot, finds none or is stopped, even when every
\* holder has died with its slot: an exhausted semaphore does not stay exhausted.
WaiterIsServed ==
    (\E c \in Callers : call[c].at = "waiting" /\ \A d \in Callers \ {c} : call[d].at = "dead")
        ~> (\A c \in Callers : call[c].at \notin {"waiting", "picking", "full", "picked"})

\* The semaphore: types, and one holder per slot.
SemaphoreIsSound == SemTypeOK /\ SlotHasOneHolder
=============================================================================
