------------------------------- MODULE LocalLock -------------------------------
(***************************************************************************)
(* The process lock of src/src/local_lock.rs: a lock file created with     *)
(* create_new, a lease record that a heartbeat thread rewrites in place,   *)
(* and recovery of a file whose heartbeat is old.                          *)
(*                                                                         *)
(* A file is known by who created it: a process writes only into the inode *)
(* that it created, so a write after the path was replaced changes nothing *)
(* at the path.  Owner ids and heartbeat stamps are unique, so the bytes   *)
(* of a lease read earlier are the bytes there now unless a lease was      *)
(* written since; two empty files are alike.                               *)
(***************************************************************************)
EXTENDS Naturals, FiniteSets

CONSTANTS
    Procs,       \* processes, one ProcessLock each
    Ghost,       \* model value: the creator of a file left by a dead process
    RetryLimit,  \* ACQUIRE_RETRY_LIMIT; 3 in the code
    MaxCrashes   \* bound on the processes that die

ASSUME LocalLockAssumption ==
    Ghost \notin Procs /\ RetryLimit \in Nat \ {0} /\ MaxCrashes \in Nat

VARIABLES
    file,     \* the file at the lock path
    proc,     \* each process: its call, what it read, its state and heartbeat thread
    crashes,  \* processes that died
    stalled,  \* history: owners that let their file grow old, and have not written to it since
    upset,    \* history: a file grew old, or a write to one failed
    moved,    \* history: processes since whose last look a file was created or written at the path
    raced     \* history: a process removed a file other than the one it had looked at

history == <<stalled, upset, moved, raced>>

fileVars == <<file, proc, crashes, history>>

NoFile == [creator |-> Ghost, text |-> "none", age |-> "fresh"]

Files == [creator : Procs \union {Ghost}, text : {"none", "empty", "lease"}, age : {"fresh", "stale"}]

CallPlaces == {"idle", "create", "writing", "read", "stat", "reread", "remove",
               "join", "own_read", "own_reread", "own_remove", "dead"}

NewProc == [at |-> "idle", tries |-> 0, snap |-> "none", changed |-> FALSE,
            held |-> FALSE, beat |-> "none"]

Mine(p) == file.text # "none" /\ file.creator = p

\* Types, and: a process whose heartbeat thread runs either holds the lock or is
\* giving it back.
LockTypeOK ==
    /\ file \in Files /\ crashes \in 0 .. MaxCrashes /\ stalled \subseteq Procs /\ upset \in BOOLEAN
    /\ moved \subseteq Procs /\ raced \in BOOLEAN
    /\ \A p \in Procs :
          /\ proc[p].at \in CallPlaces /\ proc[p].tries \in 0 .. RetryLimit
          /\ proc[p].beat \in {"none", "idle", "checked", "truncated", "written"}
          /\ proc[p].beat # "none" => proc[p].held \/ proc[p].at = "join"

\* A dead process may have left a file, with a lease or cut short.
FileInit ==
    /\ file \in {NoFile} \union [creator : {Ghost}, text : {"empty", "lease"}, age : {"fresh", "stale"}]
    /\ proc = [p \in Procs |-> NewProc]
    /\ crashes = 0 /\ stalled = {} /\ upset = (file # NoFile) /\ moved = Procs /\ raced = FALSE

-----------------------------------------------------------------------------
\* p has written to the file at the path.
Touches(p) == moved' = Procs /\ stalled' = stalled \ {p} /\ UNCHANGED <<upset, raced>>

\* A lease is written at the path: bytes read earlier differ from it.
WriteAtPath(p, procs) ==
    /\ file' = IF Mine(p) THEN [file EXCEPT !.text = "lease", !.age = "fresh"] ELSE file
    /\ proc' = IF Mine(p) THEN [q \in Procs |-> [procs[q] EXCEPT !.changed = TRUE]] ELSE procs
    /\ IF Mine(p) THEN Touches(p) ELSE UNCHANGED history

\* p has made sure of the file at the path.
Looks(p) == moved' = moved \ {p} /\ UNCHANGED <<stalled, upset, raced>>

\* What is at the path is removed; same: it is what the remover means.
Removes(same) ==
    /\ file' = NoFile
    /\ raced' = (raced \/ (file.text # "none" /\ ~same))
    /\ UNCHANGED <<stalled, moved>>

At(p, place) == [proc EXCEPT ![p].at = place]

\* acquire returns.
Back(p) == [proc EXCEPT ![p].at = "idle", ![p].tries = 0, ![p].snap = "none"]

Retry(p) ==
    proc' = IF proc[p].tries + 1 = RetryLimit THEN Back(p)
            ELSE [proc EXCEPT ![p].at = "create", ![p].tries = @ + 1, ![p].snap = "none"]

StartAcquire(p) ==
    /\ proc[p].at = "idle" /\ ~proc[p].held
    /\ proc' = At(p, "create")
    /\ UNCHANGED <<file, crashes, history>>

\* Mutant: the file is opened whether it exists or not.
TryCreateAnyway(p) ==
    /\ proc[p].at = "create"
    /\ file' = [creator |-> p, text |-> "empty", age |-> "fresh"] /\ proc' = At(p, "writing")
    /\ Touches(p)
    /\ UNCHANGED crashes

\* try_create: create_new, then the lease is written.
TryCreate(p) ==
    /\ proc[p].at = "create"
    /\ \/ file = NoFile /\ proc' = At(p, "writing") /\ Touches(p)
          /\ file' = [creator |-> p, text |-> "empty", age |-> "fresh"]
       \/ file # NoFile /\ proc' = At(p, "read") /\ UNCHANGED <<file, history>>
    /\ UNCHANGED crashes

\* The lock counts as acquired and the heartbeat thread starts.
WriteLease(p) ==
    /\ proc[p].at = "writing"
    /\ WriteAtPath(p, [Back(p) EXCEPT ![p].held = TRUE, ![p].beat = "idle"])
    /\ UNCHANGED crashes

\* The write fails: whatever is at the path is removed.
WriteLeaseFails(p) ==
    /\ proc[p].at = "writing"
    /\ Removes(Mine(p)) /\ proc' = Back(p) /\ upset' = TRUE
    /\ UNCHANGED crashes

\* is_lease_stale, is_invalid_lock_stale.
MayReclaim(age) == age = "stale"

\* read_snapshot: the bytes; a lease is judged by the heartbeat in it.
ReadSnapshot(p) ==
    /\ proc[p].at = "read"
    /\ CASE file.text = "none"  -> Retry(p)
         [] file.text = "empty" -> proc' = At(p, "stat")
         [] file.text = "lease" ->
               proc' = IF MayReclaim(file.age)
                       THEN [proc EXCEPT ![p].at = "reread", ![p].snap = "lease", ![p].changed = FALSE]
                       ELSE Back(p)
    /\ UNCHANGED <<file, crashes, history>>

\* Mutant: a file that holds no lease is never reclaimed.
StatSnapshotHeld(p) ==
    /\ proc[p].at = "stat"
    /\ IF file = NoFile THEN Retry(p) ELSE proc' = Back(p)
    /\ UNCHANGED <<file, crashes, history>>

\* Bytes that are no lease are judged by the age of the file that is there now.
StatSnapshot(p) ==
    /\ proc[p].at = "stat"
    /\ CASE file = NoFile -> Retry(p) /\ UNCHANGED history
         [] file # NoFile /\ MayReclaim(file.age) ->
               proc' = [proc EXCEPT ![p].at = "reread", ![p].snap = "empty"] /\ Looks(p)
         [] file # NoFile /\ ~MayReclaim(file.age) -> proc' = Back(p) /\ UNCHANGED history
    /\ UNCHANGED <<file, crashes>>

Unchanged(p) == file.text = proc[p].snap /\ (file.text = "lease" => ~proc[p].changed)

\* Mutant: whatever is read again passes for what was judged.
RereadAnything(p) ==
    /\ proc[p].at = "reread"
    /\ IF file.text # "none" THEN proc' = At(p, "remove") /\ Looks(p) ELSE Retry(p) /\ UNCHANGED history
    /\ UNCHANGED <<file, crashes>>

\* try_remove_if_unchanged: two steps, and the second one names only the path.
\* Equal bytes make sure of a lease; any empty file equals another.
Reread(p) ==
    /\ proc[p].at = "reread"
    /\ IF Unchanged(p) THEN proc' = At(p, "remove") ELSE Retry(p)
    /\ IF Unchanged(p) /\ file.text = "lease" THEN Looks(p) ELSE UNCHANGED history
    /\ UNCHANGED <<file, crashes>>

RemoveStale(p) ==
    /\ proc[p].at = "remove"
    /\ Removes(p \notin moved) /\ Retry(p)
    /\ UNCHANGED <<crashes, upset>>

-----------------------------------------------------------------------------
(***************************************************************************)
(* The heartbeat thread: refresh_heartbeat and handle_lock_loss.           *)
(***************************************************************************)

\* Mutant: the thread goes on.
LostUnnoticed(p) == [proc EXCEPT ![p].beat = "idle"]

Lost(p) == [proc EXCEPT ![p].held = FALSE, ![p].beat = "none"]

BeatChecks(p) ==
    /\ proc[p].beat = "idle"
    /\ proc' = IF Mine(p) /\ file.text = "lease" THEN [proc EXCEPT ![p].beat = "checked"] ELSE Lost(p)
    /\ UNCHANGED <<file, crashes, history>>

BeatTruncates(p) ==
    /\ proc[p].beat = "checked"
    /\ proc' = [proc EXCEPT ![p].beat = "truncated"]
    /\ file' = IF Mine(p) THEN [file EXCEPT !.text = "empty", !.age = "fresh"] ELSE file
    /\ IF Mine(p) THEN Touches(p) ELSE UNCHANGED history
    /\ UNCHANGED crashes

BeatWrites(p) ==
    /\ proc[p].beat = "truncated"
    /\ WriteAtPath(p, [proc EXCEPT ![p].beat = "written"])
    /\ UNCHANGED crashes

BeatChecksAgain(p) ==
    /\ proc[p].beat = "written"
    /\ proc' = IF Mine(p) THEN [proc EXCEPT ![p].beat = "idle"] ELSE Lost(p)
    /\ UNCHANGED <<file, crashes, history>>

\* An I/O error counts as a loss; the file may be left empty.
BeatFails(p) ==
    /\ proc[p].beat \in {"checked", "truncated"}
    /\ proc' = Lost(p) /\ upset' = TRUE
    /\ UNCHANGED <<file, crashes, stalled, moved, raced>>

-----------------------------------------------------------------------------
\* release, or the drop of the lock: first the state, then the thread is joined,
\* then the file.
StartRelease(p) ==
    /\ proc[p].at = "idle" /\ proc[p].held
    /\ proc' = [proc EXCEPT ![p].at = "join", ![p].held = FALSE]
    /\ UNCHANGED <<file, crashes, history>>

\* Mutant: the thread is told to stop and not waited for.
JoinHeartbeatNot(p) ==
    /\ proc[p].at = "join"
    /\ proc' = At(p, "own_read")
    /\ UNCHANGED <<file, crashes, history>>

JoinHeartbeat(p) ==
    /\ proc[p].at = "join" /\ proc[p].beat \in {"none", "idle"}
    /\ proc' = [proc EXCEPT ![p].at = "own_read", ![p].beat = "none"]
    /\ UNCHANGED <<file, crashes, history>>

\* try_remove_if_owned.
OwnRead(p) ==
    /\ proc[p].at = "own_read"
    /\ proc' = IF Mine(p) /\ file.text = "lease"
               THEN [proc EXCEPT ![p].at = "own_reread", ![p].snap = "lease", ![p].changed = FALSE]
               ELSE Back(p)
    /\ UNCHANGED <<file, crashes, history>>

OwnReread(p) ==
    /\ proc[p].at = "own_reread"
    /\ IF Unchanged(p) THEN proc' = At(p, "own_remove") /\ Looks(p) ELSE proc' = Back(p) /\ UNCHANGED history
    /\ UNCHANGED <<file, crashes>>

OwnRemove(p) ==
    /\ proc[p].at = "own_remove"
    /\ Removes(p \notin moved) /\ proc' = Back(p)
    /\ UNCHANGED <<crashes, upset>>

-----------------------------------------------------------------------------
\* The process dies, its thread with it; the file stays.
Die(p) ==
    /\ crashes < MaxCrashes /\ proc[p].at # "dead"
    /\ proc' = [proc EXCEPT ![p] = [NewProc EXCEPT !.at = "dead"]]
    /\ file' = IF Mine(p) THEN [file EXCEPT !.creator = Ghost] ELSE file
    /\ crashes' = crashes + 1
    /\ UNCHANGED history

\* Nobody has written to the file for stale_after (for INVALID_LOCK_STALE_AFTER,
\* when it is empty): its owner is dead, or did not run for so long.
GrowOld ==
    /\ file # NoFile /\ file.age = "fresh"
    /\ file' = [file EXCEPT !.age = "stale"]
    /\ stalled' = stalled \union ({file.creator} \ {Ghost})
    /\ upset' = TRUE
    /\ UNCHANGED <<proc, crashes, moved, raced>>

Beat(p) == BeatChecks(p) \/ BeatTruncates(p) \/ BeatWrites(p) \/ BeatChecksAgain(p)

Call(p) ==
    \/ TryCreate(p) \/ WriteLease(p) \/ ReadSnapshot(p) \/ StatSnapshot(p) \/ Reread(p) \/ RemoveStale(p)
    \/ JoinHeartbeat(p) \/ OwnRead(p) \/ OwnReread(p) \/ OwnRemove(p)

FileNext ==
    \/ GrowOld
    \/ \E p \in Procs :
          \/ StartAcquire(p) \/ StartRelease(p) \/ Call(p) \/ Beat(p)
          \/ WriteLeaseFails(p) \/ BeatFails(p) \/ Die(p)

\* Threads run; calls are made or not.
FileFairness == \A p \in Procs : WF_fileVars(Beat(p)) /\ WF_fileVars(Call(p))

FileSpec == FileInit /\ [][FileNext]_fileVars /\ FileFairness

-----------------------------------------------------------------------------
Holders == {p \in Procs : proc[p].held}

\* Of the processes that keep their heartbeat two hold the lock only after a
\* removal raced: between looking at the file for the last time and removing what
\* is at the path, the file was replaced or written.  Heartbeats that stop and
\* resume, files cut short by a truncation, failed writes, releases and deaths
\* lead to no second holder by themselves: old leases are judged and compared
\* again before they are removed.
OverlapNeedsARace == ~raced => Cardinality(Holders \ stalled) <= 1

\* And a removal races only once a file has grown old or a write has failed:
\* acquisitions, heartbeats and releases alone, in any order, never get there.
RaceNeedsAnUpset == raced => upset

\* A holder whose file was taken from the path finds out: its heartbeat thread
\* marks the lock as not held and calls on_lock_lost.
DisplacedHolderLearns == \A p \in Procs : (proc[p].held /\ ~Mine(p)) ~> ~proc[p].held

Abandoned == file.text # "none" /\ file.creator = Ghost /\ file.age = "stale"

\* One call of acquire is enough to clear an old file of a dead process away,
\* also one that died between creating or truncating the file and writing it.
AbandonedFileIsCleared == \A p \in Procs :
    (Abandoned /\ proc[p].at = "create" /\ proc[p].tries = 0) ~> (~Abandoned \/ proc[p].at = "dead")

\* "Exclusive ownership for one local lock-file path": of the processes that keep
\* their heartbeat, one at most holds the lock.
ExclusiveOwnership == Cardinality(Holders \ stalled) <= 1

\* The lock file: types, and one holder unless a removal raced.
FileIsExclusive == LockTypeOK /\ OverlapNeedsARace /\ RaceNeedsAnUpset
=============================================================================
