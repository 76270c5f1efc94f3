----------------------------- MODULE LocksProofs -----------------------------
(***************************************************************************)
(* Proofs about LocalLock and Semaphore, for any number of processes,      *)
(* callers and slots and any limits and hold times, and about the tasks    *)
(* and retries of QueueRuntime, for any durations.                         *)
(***************************************************************************)
EXTENDS LocalLock, Semaphore, QueueRuntime, TLAPS, FiniteSetTheorems

(***************************************************************************)
(* LocalLock.                                                              *)
(***************************************************************************)
\* A process: the fields of its record, and the limit on tries seen from below.
ProcessRecord ==
    [at : CallPlaces, tries : 0 .. RetryLimit - 1, snap : {"none", "lease", "empty"},
     changed : BOOLEAN, held : BOOLEAN, beat : {"none", "idle", "checked", "truncated", "written"}]

ProcessesTyped == proc \in [Procs -> ProcessRecord]

FileTyped ==
    /\ file \in Files /\ crashes \in 0 .. MaxCrashes /\ stalled \subseteq Procs /\ upset \in BOOLEAN
    /\ moved \subseteq Procs /\ raced \in BOOLEAN

\* A process that holds the lock is in no call, and a heartbeat thread runs only
\* while the lock is held or its release waits for the thread.
HeldBetweenCalls ==
    \A p \in Procs : /\ proc[p].held => proc[p].at = "idle"
                     /\ proc[p].beat # "none" => proc[p].held \/ proc[p].at = "join"

\* Places from which a process gives its own file up, or fills it.
OwnPlaces == {"writing", "join", "own_read", "own_reread", "own_remove"}

\* As long as everybody is timely no file is reclaimed, and the lock is held, written or
\* given back only by the creator of the file at the path.
TimelyOwnership ==
    ~upset =>
        /\ ~raced /\ file.age = "fresh"
        /\ \A p \in Procs : /\ proc[p].at \notin {"reread", "remove"}
                            /\ proc[p].held \/ proc[p].at \in OwnPlaces => Mine(p)
                            /\ proc[p].at = "own_remove" => p \notin moved

FileInv == ProcessesTyped /\ FileTyped /\ HeldBetweenCalls /\ TimelyOwnership

\* At the start no process holds the lock; a file left behind is an upset.
LEMMA FileInitInv == FileInit => FileInv
  <1> SUFFICES ASSUME FileInit PROVE FileInv
    OBVIOUS
  <1>1. ProcessesTyped
    <2>1. 0 \in 0 .. RetryLimit - 1
      BY LocalLockAssumption
    <2>2. NewProc \in ProcessRecord
      BY <2>1 DEF ProcessRecord, NewProc, CallPlaces
    <2> QED
      BY <2>2 DEF FileInit, ProcessesTyped
  <1>2. FileTyped
    <2>1. file \in Files
      BY DEF FileInit, NoFile, Files
    <2>2. crashes \in 0 .. MaxCrashes
      BY LocalLockAssumption DEF FileInit
    <2>3. stalled = {} /\ moved = Procs /\ raced = FALSE /\ upset \in BOOLEAN
      BY Zenon DEF FileInit
    <2> QED
      BY <2>1, <2>2, <2>3 DEF FileTyped
  <1>3. HeldBetweenCalls
    BY DEF FileInit, HeldBetweenCalls, NewProc
  <1>4. ASSUME ~upset PROVE TimelyOwnership
    <2>1. file = NoFile
      BY <1>4, Zenon DEF FileInit
    <2> QED
      BY <2>1 DEF FileInit, TimelyOwnership, OwnPlaces, NewProc, NoFile
  <1> QED
    BY <1>1, <1>2, <1>3, <1>4 DEF FileInv, TimelyOwnership

\* A step that gives p the record r, and may outdate the bytes that anybody remembers.
Becomes(p, r) ==
    \/ proc' = [proc EXCEPT ![p] = r]
    \/ proc' = [q \in Procs |-> [[proc EXCEPT ![p] = r][q] EXCEPT !.changed = TRUE]]

\* Nobody else's file is taken or written.
SparesOthers(p) == \A q \in Procs \ {p} : Mine(q) => Mine(q)' /\ (q \in moved' => q \in moved)

\* p changes nothing at the path; at most it looks at it.
StaysPut(p) == UNCHANGED <<file, crashes, stalled, upset, raced>> /\ moved' \in {moved, moved \ {p}}

\* A step of one process has to show what becomes of its record, and that a file
\* that stays timely is taken from nobody else.
LEMMA StepOfOne ==
    ASSUME FileInv, NEW p \in Procs, NEW r \in ProcessRecord,
           Becomes(p, r), FileTyped',
           r.held => r.at = "idle",
           r.beat # "none" => r.held \/ r.at = "join",
           ~upset' => /\ ~upset /\ ~raced'
                      /\ file'.age = "fresh"
                      /\ r.at \notin {"reread", "remove"}
                      /\ r.held \/ r.at \in OwnPlaces => Mine(p)'
                      /\ r.at = "own_remove" => p \notin moved'
                      /\ SparesOthers(p)
    PROVE  FileInv'
  <1> DEFINE s == [proc EXCEPT ![p] = r]
  <1>0. s \in [Procs -> ProcessRecord] /\ s[p] = r /\ \A q \in Procs \ {p} : s[q] = proc[q]
    BY DEF FileInv, ProcessesTyped
  <1>1. \A q \in Procs : [s[q] EXCEPT !.changed = TRUE] \in ProcessRecord
    BY <1>0 DEF ProcessRecord
  <1> HIDE DEF s
  <1>2. ProcessesTyped'
    BY <1>0, <1>1 DEF ProcessesTyped, Becomes, s
  <1>3. \A q \in Procs : /\ proc'[q].at = s[q].at /\ proc'[q].held = s[q].held
                         /\ proc'[q].beat = s[q].beat
    <2>1. CASE proc' = s
      BY <2>1
    <2>2. CASE proc' = [q \in Procs |-> [s[q] EXCEPT !.changed = TRUE]]
      <3> SUFFICES ASSUME NEW q \in Procs
                   PROVE  /\ proc'[q].at = s[q].at /\ proc'[q].held = s[q].held
                          /\ proc'[q].beat = s[q].beat
        OBVIOUS
      <3>1. proc'[q] = [s[q] EXCEPT !.changed = TRUE] /\ s[q] \in ProcessRecord
        BY <1>0, <2>2
      <3> QED
        BY <3>1 DEF ProcessRecord
    <2> QED
      BY <2>1, <2>2 DEF Becomes, s
  <1>4. HeldBetweenCalls'
    BY <1>0, <1>3 DEF FileInv, HeldBetweenCalls
  <1>5. TimelyOwnership'
    BY <1>0, <1>3 DEF FileInv, TimelyOwnership, SparesOthers, OwnPlaces
  <1> QED
    BY <1>2, <1>4, <1>5 DEF FileInv

\* What is known of the record of one process before its step.
LEMMA RecordFacts ==
    ASSUME FileInv, NEW p \in Procs
    PROVE  /\ ProcessesTyped /\ FileTyped
           /\ proc[p] \in ProcessRecord
           /\ 0 \in 0 .. RetryLimit - 1
           /\ proc[p].held => proc[p].at = "idle"
           /\ proc[p].beat # "none" => proc[p].held \/ proc[p].at = "join"
           /\ ~upset => /\ ~raced /\ file.age = "fresh"
                        /\ proc[p].at \notin {"reread", "remove"}
                        /\ proc[p].held \/ proc[p].at \in OwnPlaces => Mine(p)
                        /\ proc[p].at = "own_remove" => p \notin moved
           /\ NoFile \in Files
  BY LocalLockAssumption
  DEF FileInv, ProcessesTyped, HeldBetweenCalls, TimelyOwnership, NoFile, Files

\* acquire returns, or tries once more: neither touches what the others rely on.
LEMMA BackPreserves ==
    ASSUME FileInv, NEW p \in Procs, proc' = Back(p) \/ Retry(p), ~proc[p].held, proc[p].beat = "none",
           FileTyped',
           ~upset' => ~upset /\ ~raced' /\ file'.age = "fresh" /\ SparesOthers(p)
    PROVE  FileInv'
  <1>0. ProcessesTyped /\ proc[p] \in ProcessRecord /\ 0 \in 0 .. RetryLimit - 1
    BY RecordFacts
  <1>1. CASE proc' = Back(p)
    <2> DEFINE r == [proc[p] EXCEPT !.at = "idle", !.tries = 0, !.snap = "none"]
    <2>1. r \in ProcessRecord /\ r.at = "idle" /\ ~r.held /\ r.beat = "none"
      BY <1>0 DEF ProcessRecord, CallPlaces
    <2>2. proc' = [proc EXCEPT ![p] = r]
      BY <1>0, <1>1 DEF Back, ProcessesTyped
    <2> HIDE DEF r
    <2> QED
      BY <2>1, <2>2, StepOfOne DEF Becomes, OwnPlaces
  <1>2. CASE proc[p].tries + 1 # RetryLimit /\ Retry(p)
    <2> DEFINE r == [proc[p] EXCEPT !.at = "create", !.tries = @ + 1, !.snap = "none"]
    <2>0. proc[p].tries + 1 \in 0 .. RetryLimit - 1
      BY <1>0, <1>2, LocalLockAssumption DEF ProcessRecord
    <2>1. r \in ProcessRecord /\ r.at = "create" /\ ~r.held /\ r.beat = "none"
      BY <1>0, <2>0 DEF ProcessRecord, CallPlaces
    <2>2. proc' = [proc EXCEPT ![p] = r]
      BY <1>0, <1>2 DEF Retry, ProcessesTyped
    <2> HIDE DEF r
    <2> QED
      BY <2>1, <2>2, StepOfOne DEF Becomes, OwnPlaces
  <1> QED
    BY <1>1, <1>2 DEF Retry

\* A step that moves p to another place and changes no file.
LEMMA MovePreserves ==
    ASSUME FileInv, NEW p \in Procs, NEW r \in ProcessRecord,
           proc' = [proc EXCEPT ![p] = r], StaysPut(p),
           r.held => r.at = "idle",
           r.beat # "none" => r.held \/ r.at = "join",
           ~upset => /\ r.at \notin {"reread", "remove"} /\ (r.held \/ r.at \in OwnPlaces => Mine(p))
                     /\ r.at = "own_remove" => p \notin moved'
    PROVE  FileInv'
  <1>1. FileTyped' /\ SparesOthers(p) /\ UNCHANGED <<file, upset, raced>> /\ (Mine(p) => Mine(p)')
    BY RecordFacts DEF StaysPut, FileTyped, SparesOthers, Mine
  <1> QED
    BY <1>1, RecordFacts, StepOfOne DEF Becomes

\* acquire keeps the invariant: it creates the file, or judges the one that is there.
LEMMA AcquirePreserves ==
    ASSUME FileInv, NEW p \in Procs,
           \/ StartAcquire(p) \/ TryCreate(p) \/ WriteLease(p) \/ WriteLeaseFails(p)
           \/ ReadSnapshot(p) \/ StatSnapshot(p) \/ Reread(p) \/ RemoveStale(p)
    PROVE  FileInv'
  <1> USE DEF CallPlaces, OwnPlaces
  <1>0. /\ ProcessesTyped /\ FileTyped /\ proc[p] \in ProcessRecord /\ NoFile \in Files
        /\ 0 \in 0 .. RetryLimit - 1
        /\ proc[p].at # "idle" => ~proc[p].held
    BY RecordFacts
  <1>m. ASSUME NEW w \in CallPlaces, proc' = At(p, w), proc[p].at # "join", ~proc[p].held,
               StaysPut(p),
               ~upset => w \notin {"reread", "remove"}, w \notin OwnPlaces
        PROVE  FileInv'
    <2> DEFINE r == [proc[p] EXCEPT !.at = w]
    <2>1. r \in ProcessRecord /\ r.at = w /\ ~r.held /\ r.beat = "none"
      BY <1>0, <1>m, RecordFacts DEF ProcessRecord
    <2>2. proc' = [proc EXCEPT ![p] = r]
      BY <1>0, <1>m DEF At, ProcessesTyped
    <2> HIDE DEF r
    <2> QED
      BY <1>m, <2>1, <2>2, MovePreserves
  <1>r. ASSUME proc' = Back(p) \/ Retry(p), proc[p].at \notin {"idle", "join"}, StaysPut(p)
        PROVE  FileInv'
    <2>1. FileTyped' /\ SparesOthers(p) /\ UNCHANGED <<file, upset, raced>>
      BY <1>0, <1>r DEF StaysPut, FileTyped, SparesOthers, Mine
    <2> QED
      BY <1>r, <2>1, RecordFacts, BackPreserves
  <1>p. UNCHANGED <<file, crashes, history>> => StaysPut(p)
    BY DEF StaysPut, history
  <1>1. CASE StartAcquire(p)
    BY <1>1, <1>m, <1>p DEF StartAcquire
  <1>2. CASE TryCreate(p)
    <2>1. CASE file # NoFile
      BY <1>0, <1>2, <2>1, <1>m, <1>p DEF TryCreate
    <2>2. CASE Touches(p) /\ file = NoFile /\ proc' = At(p, "writing") /\ file' = [creator |-> p, text |-> "empty", age |-> "fresh"]
      <3> DEFINE r == [proc[p] EXCEPT !.at = "writing"]
      <3>1. r \in ProcessRecord /\ r.at = "writing" /\ ~r.held /\ r.beat = "none"
        BY <1>0, <1>2, RecordFacts DEF ProcessRecord, TryCreate
      <3>2. proc' = [proc EXCEPT ![p] = r]
        BY <1>0, <2>2 DEF At, ProcessesTyped
      <3>3. /\ FileTyped' /\ Mine(p)' /\ file'.age = "fresh" /\ SparesOthers(p)
            /\ upset' = upset /\ raced' = raced
        BY <1>0, <1>2, <2>2 DEF TryCreate, Touches, FileTyped, Files, Mine, NoFile, SparesOthers
      <3> HIDE DEF r
      <3> QED
        BY <3>1, <3>2, <3>3, RecordFacts, StepOfOne DEF Becomes
    <2> QED
      BY <1>2, <2>1, <2>2 DEF TryCreate
  <1>3. CASE WriteLease(p)
    <2> DEFINE r == [proc[p] EXCEPT !.at = "idle", !.tries = 0, !.snap = "none", !.held = TRUE, !.beat = "idle"]
    <2>1. r \in ProcessRecord /\ r.at = "idle" /\ r.held /\ r.beat = "idle"
      BY <1>0 DEF ProcessRecord
    <2> DEFINE s == [Back(p) EXCEPT ![p].held = TRUE, ![p].beat = "idle"]
    <2>2. s = [proc EXCEPT ![p] = r]
      BY <1>0 DEF Back, ProcessesTyped, ProcessRecord
    <2>3. /\ FileTyped' /\ file'.age \in {file.age, "fresh"} /\ SparesOthers(p) /\ (Mine(p) => Mine(p)')
          /\ upset' = upset /\ raced' = raced
      BY <1>0, <1>3 DEF WriteLease, WriteAtPath, Touches, history, FileTyped, Files, Mine, SparesOthers
    <2>4. proc' = s \/ proc' = [q \in Procs |-> [s[q] EXCEPT !.changed = TRUE]]
      BY <1>3 DEF WriteLease, WriteAtPath
    <2> HIDE DEF r, s
    <2>5. Becomes(p, r)
      BY <2>2, <2>4 DEF Becomes
    <2> QED
      BY <1>3, <2>1, <2>3, <2>5, RecordFacts, StepOfOne DEF WriteLease
  <1>4. CASE WriteLeaseFails(p)
    BY <1>0, <1>4, RecordFacts, BackPreserves DEF WriteLeaseFails, Removes, FileTyped
  <1>5. CASE ReadSnapshot(p)
    <2>1. CASE file.text = "lease" /\ MayReclaim(file.age)
      <3> DEFINE r == [proc[p] EXCEPT !.at = "reread", !.snap = "lease", !.changed = FALSE]
      <3>1. r \in ProcessRecord /\ r.at = "reread" /\ ~r.held /\ r.beat = "none"
        BY <1>0, <1>5, RecordFacts DEF ProcessRecord, ReadSnapshot
      <3>2. proc' = [proc EXCEPT ![p] = r] /\ StaysPut(p)
        BY <1>0, <1>5, <1>p, <2>1 DEF ReadSnapshot, ProcessesTyped
      <3>3. upset
        BY <1>0, <2>1, RecordFacts DEF MayReclaim, FileTyped
      <3> HIDE DEF r
      <3> QED
        BY <3>1, <3>2, <3>3, MovePreserves
    <2>2. CASE file.text = "empty"
      BY <1>0, <1>5, <1>p, <2>2, <1>m DEF ReadSnapshot
    <2> QED
      BY <1>0, <1>5, <1>p, <2>1, <2>2, <1>r DEF ReadSnapshot, FileTyped, Files
  <1>6. CASE StatSnapshot(p)
    <2>1. CASE MayReclaim(file.age) /\ file # NoFile
      <3> DEFINE r == [proc[p] EXCEPT !.at = "reread", !.snap = "empty"]
      <3>1. r \in ProcessRecord /\ r.at = "reread" /\ ~r.held /\ r.beat = "none"
        BY <1>0, <1>6, RecordFacts DEF ProcessRecord, StatSnapshot
      <3>2. proc' = [proc EXCEPT ![p] = r] /\ StaysPut(p)
        BY <1>0, <1>6, <2>1 DEF StatSnapshot, ProcessesTyped, Looks, StaysPut
      <3>3. upset
        BY <1>0, <2>1, RecordFacts DEF MayReclaim, FileTyped
      <3> HIDE DEF r
      <3> QED
        BY <3>1, <3>2, <3>3, MovePreserves
    <2> QED
      BY <1>6, <1>p, <2>1, <1>r DEF StatSnapshot
  <1>7. CASE Reread(p)
    <2>0. StaysPut(p)
      BY <1>7 DEF Reread, Looks, StaysPut, history
    <2>1. CASE Unchanged(p)
      <3>1. upset
        BY <1>7, RecordFacts DEF Reread
      <3> QED
        BY <1>0, <1>7, <2>0, <2>1, <3>1, <1>m DEF Reread
    <2> QED
      BY <1>7, <2>0, <2>1, <1>r DEF Reread
  <1>8. CASE RemoveStale(p)
    <2>1. upset /\ upset' = upset
      BY <1>8, RecordFacts DEF RemoveStale
    <2>2. FileTyped'
      BY <1>0, <1>8 DEF RemoveStale, Removes, FileTyped
    <2> QED
      BY <1>8, <2>1, <2>2, RecordFacts, BackPreserves DEF RemoveStale
  <1> QED
    BY <1>1, <1>2, <1>3, <1>4, <1>5, <1>6, <1>7, <1>8

\* The heartbeat thread keeps the invariant: it writes to its own file only.
LEMMA BeatPreserves ==
    ASSUME FileInv, NEW p \in Procs, Beat(p) \/ BeatFails(p)
    PROVE  FileInv'
  <1>0. /\ ProcessesTyped /\ FileTyped /\ proc[p] \in ProcessRecord
        /\ proc[p].beat # "none"
    BY RecordFacts DEF Beat, BeatChecks, BeatTruncates, BeatWrites, BeatChecksAgain, BeatFails
  <1>m. ASSUME NEW b \in {"none", "idle", "checked", "truncated", "written"}, NEW h \in BOOLEAN,
               NEW r, r = [proc[p] EXCEPT !.beat = b, !.held = h],
               Becomes(p, r),
               h => proc[p].held, b # "none" => h = proc[p].held,
               FileTyped', upset => upset', raced' = raced, file'.age \in {file.age, "fresh"},
               SparesOthers(p), Mine(p) => Mine(p)'
        PROVE  FileInv'
    <2>1. r \in ProcessRecord /\ r.at = proc[p].at /\ r.held = h /\ r.beat = b
      BY <1>0, <1>m DEF ProcessRecord
    <2>2. /\ r.held => r.at = "idle"
          /\ r.beat # "none" => r.held \/ r.at = "join"
          /\ ~upset => r.at \notin {"reread", "remove"} /\ (r.held \/ r.at \in OwnPlaces => Mine(p))
          /\ r.at # "own_remove"
      BY <1>0, <1>m, <2>1, RecordFacts
    <2>3. ~upset' => ~upset /\ ~raced' /\ file'.age = "fresh"
      BY <1>m, RecordFacts
    <2> QED
      BY <1>m, <2>1, <2>2, <2>3, StepOfOne
  <1> DEFINE r(b, h) == [proc[p] EXCEPT !.beat = b, !.held = h]
  <1>h. proc[p].held \in BOOLEAN
    BY <1>0 DEF ProcessRecord
  <1>b. \A b : [proc EXCEPT ![p].beat = b] = [proc EXCEPT ![p] = r(b, proc[p].held)]
    BY <1>0 DEF ProcessesTyped, ProcessRecord
  <1>l. Lost(p) = [proc EXCEPT ![p] = r("none", FALSE)]
    BY <1>0 DEF Lost, ProcessesTyped, ProcessRecord
  <1> HIDE DEF r
  <1>1. CASE BeatChecks(p)
    <2>1. proc' = [proc EXCEPT ![p] = r("checked", proc[p].held)]
          \/ proc' = [proc EXCEPT ![p] = r("none", FALSE)]
      BY <1>1, <1>b, <1>l DEF BeatChecks
    <2>2. FileTyped' /\ UNCHANGED <<file, upset, raced>> /\ SparesOthers(p) /\ (Mine(p) => Mine(p)')
      BY <1>0, <1>1 DEF BeatChecks, history, FileTyped, Mine, SparesOthers
    <2> QED
      BY <1>h, <2>1, <2>2, <1>m DEF Becomes, r
  <1>2. CASE BeatTruncates(p)
    <2>1. proc' = [proc EXCEPT ![p] = r("truncated", proc[p].held)]
      BY <1>2, <1>b DEF BeatTruncates
    <2>2. FileTyped' /\ file'.age \in {file.age, "fresh"} /\ upset' = upset /\ raced' = raced
          /\ SparesOthers(p) /\ (Mine(p) => Mine(p)')
      BY <1>0, <1>2 DEF BeatTruncates, Touches, history, FileTyped, Files, Mine, SparesOthers
    <2> QED
      BY <1>h, <2>1, <2>2, <1>m DEF Becomes, r
  <1>3. CASE BeatWrites(p)
    <2> DEFINE s == [proc EXCEPT ![p].beat = "written"]
    <2>1. proc' = s \/ proc' = [q \in Procs |-> [s[q] EXCEPT !.changed = TRUE]]
      BY <1>3 DEF BeatWrites, WriteAtPath
    <2>2. s = [proc EXCEPT ![p] = r("written", proc[p].held)]
      BY <1>b
    <2> DEFINE w == r("written", proc[p].held)
    <2>w. w = [proc[p] EXCEPT !.beat = "written", !.held = proc[p].held]
      BY DEF r
    <2> HIDE DEF s, w
    <2>3. FileTyped' /\ file'.age \in {file.age, "fresh"} /\ upset' = upset /\ raced' = raced
          /\ SparesOthers(p) /\ (Mine(p) => Mine(p)')
      BY <1>0, <1>3 DEF BeatWrites, WriteAtPath, Touches, history, FileTyped, Files, Mine, SparesOthers
    <2> QED
      <3>1. s = [proc EXCEPT ![p] = w]
        BY <2>2 DEF w
      <3>2. Becomes(p, w)
        BY <2>1, <3>1 DEF Becomes
      <3> QED
        BY <1>h, <2>3, <2>w, <3>2, <1>m
  <1>4. CASE BeatChecksAgain(p)
    <2>1. proc' = [proc EXCEPT ![p] = r("idle", proc[p].held)]
          \/ proc' = [proc EXCEPT ![p] = r("none", FALSE)]
      BY <1>4, <1>b, <1>l DEF BeatChecksAgain
    <2>2. FileTyped' /\ UNCHANGED <<file, upset, raced>> /\ SparesOthers(p) /\ (Mine(p) => Mine(p)')
      BY <1>0, <1>4 DEF BeatChecksAgain, history, FileTyped, Mine, SparesOthers
    <2> QED
      BY <1>h, <2>1, <2>2, <1>m DEF Becomes, r
  <1>5. CASE BeatFails(p)
    <2>1. proc' = [proc EXCEPT ![p] = r("none", FALSE)]
      BY <1>5, <1>l DEF BeatFails
    <2>2. FileTyped' /\ file' = file /\ upset' /\ raced' = raced /\ SparesOthers(p) /\ (Mine(p) => Mine(p)')
      BY <1>0, <1>5 DEF BeatFails, FileTyped, Mine, SparesOthers
    <2> QED
      BY <1>h, <2>1, <2>2, <1>m DEF Becomes, r
  <1> QED
    BY <1>1, <1>2, <1>3, <1>4, <1>5 DEF Beat

\* release, and a file that is removed by its owner, keep the invariant.
LEMMA ReleasePreserves ==
    ASSUME FileInv, NEW p \in Procs,
           StartRelease(p) \/ JoinHeartbeat(p) \/ OwnRead(p) \/ OwnReread(p) \/ OwnRemove(p)
    PROVE  FileInv'
  <1>0. /\ ProcessesTyped /\ FileTyped /\ proc[p] \in ProcessRecord /\ NoFile \in Files
        /\ proc[p].at # "idle" => ~proc[p].held
        /\ proc[p].at \notin {"idle", "join"} => proc[p].beat = "none"
        /\ ~upset => (proc[p].held \/ proc[p].at \in OwnPlaces => Mine(p))
    BY RecordFacts
  <1>p. UNCHANGED <<file, crashes, history>> => StaysPut(p)
    BY DEF StaysPut, history
  <1>b. ASSUME proc' = Back(p), proc[p].at \notin {"idle", "join"}, StaysPut(p)
        PROVE  FileInv'
    <2>1. FileTyped' /\ SparesOthers(p) /\ UNCHANGED <<file, upset, raced>>
      BY <1>0, <1>b DEF StaysPut, FileTyped, SparesOthers, Mine
    <2> QED
      BY <1>0, <1>b, <2>1, RecordFacts, BackPreserves
  <1>m. ASSUME NEW r \in ProcessRecord, proc' = [proc EXCEPT ![p] = r], proc[p].held \/ proc[p].at \in OwnPlaces,
               StaysPut(p), r.at = "own_remove" => p \notin moved',
               ~r.held, r.at \in OwnPlaces, r.beat # "none" => r.at = "join"
        PROVE  FileInv'
    BY <1>0, <1>m, MovePreserves DEF OwnPlaces
  <1> USE DEF CallPlaces, OwnPlaces
  <1>1. CASE StartRelease(p)
    <2> DEFINE r == [proc[p] EXCEPT !.at = "join", !.held = FALSE]
    <2>1. r \in ProcessRecord /\ ~r.held /\ r.at = "join"
      BY <1>0 DEF ProcessRecord
    <2>2. proc' = [proc EXCEPT ![p] = r]
      BY <1>0, <1>1 DEF StartRelease, ProcessesTyped
    <2> HIDE DEF r
    <2> QED
      BY <1>1, <2>1, <2>2, <1>m, <1>p DEF StartRelease
  <1>2. CASE JoinHeartbeat(p)
    <2> DEFINE r == [proc[p] EXCEPT !.at = "own_read", !.beat = "none"]
    <2>1. r \in ProcessRecord /\ ~r.held /\ r.at = "own_read" /\ r.beat = "none"
      BY <1>0, <1>2 DEF ProcessRecord, JoinHeartbeat
    <2>2. proc' = [proc EXCEPT ![p] = r]
      BY <1>0, <1>2 DEF JoinHeartbeat, ProcessesTyped
    <2> HIDE DEF r
    <2> QED
      BY <1>2, <2>1, <2>2, <1>m, <1>p DEF JoinHeartbeat
  <1>3. CASE OwnRead(p)
    <2> DEFINE r == [proc[p] EXCEPT !.at = "own_reread", !.snap = "lease", !.changed = FALSE]
    <2>1. r \in ProcessRecord /\ ~r.held /\ r.at = "own_reread" /\ r.beat = "none"
      BY <1>0, <1>3 DEF ProcessRecord, OwnRead
    <2>2. proc' = [proc EXCEPT ![p] = r] \/ proc' = Back(p)
      BY <1>0, <1>3 DEF OwnRead, ProcessesTyped
    <2> HIDE DEF r
    <2> QED
      BY <1>3, <2>1, <2>2, <1>m, <1>b, <1>p DEF OwnRead
  <1>4. CASE OwnReread(p)
    <2> DEFINE r == [proc[p] EXCEPT !.at = "own_remove"]
    <2>1. r \in ProcessRecord /\ ~r.held /\ r.at = "own_remove" /\ r.beat = "none"
      BY <1>0, <1>4 DEF ProcessRecord, OwnReread
    <2>2. (proc' = [proc EXCEPT ![p] = r] /\ p \notin moved') \/ proc' = Back(p)
      BY <1>0, <1>4 DEF OwnReread, Looks, At, ProcessesTyped
    <2>3. StaysPut(p)
      BY <1>4 DEF OwnReread, Looks, StaysPut, history
    <2> HIDE DEF r
    <2> QED
      BY <1>4, <2>1, <2>2, <2>3, <1>m, <1>b DEF OwnReread
  <1>5. CASE OwnRemove(p)
    <2>1. /\ file' = NoFile /\ proc' = Back(p) /\ upset' = upset /\ moved' = moved /\ stalled' = stalled /\ crashes' = crashes
          /\ raced' = (raced \/ (file.text # "none" /\ p \in moved))
      BY <1>5 DEF OwnRemove, Removes
    <2>2. ~upset => ~raced /\ Mine(p) /\ p \notin moved
      BY <1>5, RecordFacts DEF OwnRemove
    <2>3. ~upset => SparesOthers(p) /\ ~raced'
      BY <2>1, <2>2 DEF SparesOthers, Mine
    <2>4. FileTyped' /\ file'.age = "fresh"
      BY <1>0, <2>1 DEF FileTyped, NoFile
    <2> QED
      BY <1>0, <1>5, <2>1, <2>3, <2>4, BackPreserves DEF OwnRemove
  <1> QED
    BY <1>1, <1>2, <1>3, <1>4, <1>5

\* A process that dies gives up what it had; its file stays in the way of the others.
LEMMA DiePreserves ==
    ASSUME FileInv, NEW p \in Procs, Die(p)
    PROVE  FileInv'
  <1> DEFINE r == [NewProc EXCEPT !.at = "dead"]
  <1>1. r \in ProcessRecord /\ r.at = "dead" /\ ~r.held /\ r.beat = "none"
    BY RecordFacts DEF NewProc, ProcessRecord, CallPlaces
  <1>2. proc' = [proc EXCEPT ![p] = r] /\ upset' = upset
    BY DEF Die, history
  <1> HIDE DEF r
  <1>3. FileTyped' /\ file'.age = file.age /\ SparesOthers(p) /\ raced' = raced
    BY LocalLockAssumption DEF Die, FileInv, FileTyped, Files, Mine, SparesOthers, history
  <1> QED
    BY <1>1, <1>2, <1>3, RecordFacts, StepOfOne DEF Becomes, OwnPlaces

\* Every step of the lock file keeps the invariant.
LEMMA FileStep == FileInv /\ [FileNext]_fileVars => FileInv'
  <1> SUFFICES ASSUME FileInv, [FileNext]_fileVars PROVE FileInv'
    OBVIOUS
  <1>1. CASE GrowOld
    BY <1>1 DEF GrowOld, FileInv, ProcessesTyped, FileTyped, Files, HeldBetweenCalls, TimelyOwnership
  <1>2. CASE UNCHANGED fileVars
    BY <1>2 DEF fileVars, history, FileInv, ProcessesTyped, FileTyped, HeldBetweenCalls, TimelyOwnership, Mine
  <1>3. ASSUME NEW p \in Procs, StartAcquire(p) \/ StartRelease(p) \/ Call(p) \/ Beat(p)
                                  \/ WriteLeaseFails(p) \/ BeatFails(p) \/ Die(p)
        PROVE  FileInv'
    BY <1>3, AcquirePreserves, BeatPreserves, ReleasePreserves, DiePreserves DEF Call
  <1> QED
    BY <1>1, <1>2, <1>3 DEF FileNext

-----------------------------------------------------------------------------
\* What a process that is about to remove a file knows of the file at the path:
\* bytes compared again are those of the old lease that was judged (of its own
\* lease, in a release), and nothing has been written there since it looked.
LookRight(p) ==
    /\ proc[p].at = "reread" => proc[p].snap \in {"lease", "empty"}
    /\ (proc[p].at = "reread" /\ proc[p].snap = "lease" /\ Unchanged(p)) => file.age = "stale"
    /\ (proc[p].at = "reread" /\ proc[p].snap = "empty" /\ p \notin moved /\ file.text # "none") => file.age = "stale"
    /\ (proc[p].at = "remove" /\ p \notin moved /\ file.text # "none") => file.age = "stale"
    /\ proc[p].at = "own_reread" => proc[p].snap = "lease"
    /\ (proc[p].at = "own_reread" /\ Unchanged(p)) => file.creator = p
    /\ (proc[p].at = "own_remove" /\ p \notin moved /\ file.text # "none") => file.creator = p

\* An old file is one of a stalled or dead owner; and until a removal races,
\* whoever holds the lock, or is about to, has its file at the path or is stalled.
Owner(p) == proc[p].held \/ proc[p].at = "writing"

RaceInv ==
    /\ (file.text # "none" /\ file.age = "stale") => file.creator \in stalled \union {Ghost}
    /\ ~raced => \A p \in Procs : Owner(p) => p \in stalled \/ Mine(p)
    /\ \A p \in Procs : LookRight(p)

\* At the start there is no owner.
LEMMA RaceInitInv == FileInit => RaceInv
  BY DEF FileInit, RaceInv, Owner, LookRight, NewProc, NoFile

\* A step of p leaves the calls of the others where they are.
OthersWait(p) ==
    \A q \in Procs \ {p} :
        /\ proc'[q].at = proc[q].at /\ proc'[q].snap = proc[q].snap /\ proc'[q].held = proc[q].held
        /\ proc[q].changed => proc'[q].changed

LooseEnd(p) == proc'[p].at \notin {"reread", "remove", "own_reread", "own_remove"}

\* p created the file at the path, or wrote to it.
LEMMA TouchKeeps ==
    ASSUME FileInv, RaceInv, NEW p \in Procs, OthersWait(p), LooseEnd(p), Touches(p),
           Mine(p) \/ file = NoFile, Mine(p)', file'.age = "fresh", file'.text \in {"empty", "lease"},
           file'.text = "lease" => \A q \in Procs : proc'[q].changed
    PROVE  RaceInv'
  <1>0. moved' = Procs /\ stalled' = stalled \ {p} /\ raced' = raced
    BY DEF Touches
  <1>1. ASSUME ~raced', NEW q \in Procs, Owner(q)'
        PROVE  (q \in stalled \/ Mine(q))'
    <2>1. CASE q = p
      BY <2>1
    <2>2. CASE q # p
      <3>1. Owner(q)
        BY <1>1, <2>2 DEF OthersWait, Owner
      <3>2. q \in stalled \/ Mine(q)
        BY <1>0, <1>1, <3>1 DEF RaceInv
      <3>3. ~Mine(q)
        BY <2>2 DEF Mine, NoFile
      <3> QED
        BY <1>0, <2>2, <3>2, <3>3
    <2> QED
      BY <2>1, <2>2
  <1>2. ASSUME NEW q \in Procs
        PROVE  LookRight(q)'
    <2>1. CASE q = p
      BY <2>1 DEF LookRight, LooseEnd
    <2>2. CASE q # p
      <3>1. LookRight(q) /\ proc'[q].at = proc[q].at /\ proc'[q].snap = proc[q].snap
        BY <2>2 DEF RaceInv, OthersWait
      <3>2. q \in moved' /\ (file'.text = "lease" => proc'[q].changed)
        BY <1>0
      <3> QED
        BY <3>1, <3>2 DEF LookRight, Unchanged
    <2> QED
      BY <2>1, <2>2
  <1> QED
    BY <1>1, <1>2 DEF RaceInv

\* p removed what is at the path: what it meant to remove, or it raced.
LEMMA RemovalKeeps ==
    ASSUME FileInv, RaceInv, NEW p \in Procs, OthersWait(p), LooseEnd(p), NEW same \in BOOLEAN, Removes(same),
           ~Owner(p)', (same /\ file.text # "none") => file.age = "stale" \/ file.creator = p
    PROVE  RaceInv'
  <1>0. /\ file' = NoFile /\ stalled' = stalled /\ moved' = moved
        /\ raced' = (raced \/ (file.text # "none" /\ ~same)) /\ NoFile.text = "none" /\ NoFile.age = "fresh"
    BY DEF Removes, NoFile
  <1>1. ASSUME ~raced', NEW q \in Procs, Owner(q)'
        PROVE  (q \in stalled \/ Mine(q))'
    <2>1. q # p /\ Owner(q)
      BY <1>1 DEF OthersWait, Owner
    <2>2. q \in stalled \/ Mine(q)
      BY <1>0, <1>1, <2>1 DEF RaceInv
    <2>3. Mine(q) => file.age = "stale" /\ file.creator = q /\ file.text # "none"
      BY <1>0, <1>1, <2>1 DEF Mine
    <2>4. Mine(q) => q \in stalled
      BY <2>3, LocalLockAssumption DEF RaceInv
    <2> QED
      BY <1>0, <2>2, <2>4
  <1>2. ASSUME NEW q \in Procs
        PROVE  LookRight(q)'
    <2>1. CASE q = p
      BY <2>1 DEF LookRight, LooseEnd
    <2>2. CASE q # p
      <3>1. LookRight(q) /\ proc'[q].at = proc[q].at /\ proc'[q].snap = proc[q].snap
        BY <2>2 DEF RaceInv, OthersWait
      <3> QED
        BY <1>0, <3>1 DEF LookRight, Unchanged
    <2> QED
      BY <2>1, <2>2
  <1> QED
    BY <1>0, <1>1, <1>2 DEF RaceInv

\* p changed nothing at the path.
LEMMA FileLeftAlone ==
    ASSUME FileInv, RaceInv, NEW p \in Procs, OthersWait(p), UNCHANGED <<file, stalled, raced>>,
           moved' \in {moved, moved \ {p}}, LookRight(p)', Owner(p)' => Owner(p)
    PROVE  RaceInv'
  <1>0. file' = file /\ stalled' = stalled /\ raced' = raced /\ \A q \in Procs \ {p} : q \in moved' <=> q \in moved
    OBVIOUS
  <1>1. ASSUME ~raced', NEW q \in Procs, Owner(q)'
        PROVE  (q \in stalled \/ Mine(q))'
    <2>1. Owner(q)
      BY <1>1 DEF OthersWait, Owner
    <2> QED
      BY <1>0, <1>1, <2>1 DEF RaceInv, Mine
  <1>2. ASSUME NEW q \in Procs, q # p
        PROVE  LookRight(q)'
    <2>1. /\ LookRight(q) /\ proc'[q].at = proc[q].at /\ proc'[q].snap = proc[q].snap
          /\ (proc[q].changed => proc'[q].changed) /\ (q \in moved' <=> q \in moved)
      BY <1>0, <1>2 DEF RaceInv, OthersWait
    <2> QED
      BY <1>0, <2>1 DEF LookRight, Unchanged
  <1> QED
    BY <1>0, <1>1, <1>2 DEF RaceInv

LEMMA LookingKeeps ==
    ASSUME FileInv, RaceInv, NEW p \in Procs, OthersWait(p), StaysPut(p), LookRight(p)', Owner(p)' => Owner(p)
    PROVE  RaceInv'
  BY FileLeftAlone DEF StaysPut

\* What acquire or release do to the record of their process.
LEMMA CallRecords ==
    ASSUME FileInv, NEW p \in Procs
    PROVE  /\ (proc' = Back(p) \/ Retry(p)) =>
                  /\ OthersWait(p) /\ LooseEnd(p) /\ proc'[p].at \in {"idle", "create"} /\ proc'[p].held = proc[p].held
           /\ \A w : proc' = At(p, w) =>
                  /\ OthersWait(p) /\ proc'[p].at = w /\ proc'[p].snap = proc[p].snap /\ proc'[p].held = proc[p].held
                  /\ proc'[p].changed = proc[p].changed
           /\ (proc' = [proc EXCEPT ![p].at = "reread", ![p].snap = "empty"]) =>
                  OthersWait(p) /\ proc'[p].at = "reread" /\ proc'[p].snap = "empty" /\ proc'[p].held = proc[p].held
           /\ \A w : (proc' = [proc EXCEPT ![p].at = w, ![p].snap = "lease", ![p].changed = FALSE]) =>
                  OthersWait(p) /\ proc'[p].at = w /\ proc'[p].snap = "lease" /\ proc'[p].held = proc[p].held
  <1>0. proc \in [Procs -> ProcessRecord] /\ proc[p] \in ProcessRecord
    BY DEF FileInv, ProcessesTyped
  <1>1. ASSUME proc' = Back(p) \/ Retry(p)
        PROVE  OthersWait(p) /\ LooseEnd(p) /\ proc'[p].at \in {"idle", "create"} /\ proc'[p].held = proc[p].held
    BY <1>0, <1>1 DEF Back, Retry, OthersWait, LooseEnd, ProcessRecord
  <1>2. ASSUME NEW w, proc' = At(p, w)
        PROVE  /\ OthersWait(p) /\ proc'[p].at = w /\ proc'[p].snap = proc[p].snap /\ proc'[p].held = proc[p].held
               /\ proc'[p].changed = proc[p].changed
    BY <1>0, <1>2 DEF At, OthersWait, ProcessRecord
  <1>3. ASSUME proc' = [proc EXCEPT ![p].at = "reread", ![p].snap = "empty"]
        PROVE  OthersWait(p) /\ proc'[p].at = "reread" /\ proc'[p].snap = "empty" /\ proc'[p].held = proc[p].held
    BY <1>0, <1>3 DEF OthersWait, ProcessRecord
  <1>4. ASSUME NEW w, proc' = [proc EXCEPT ![p].at = w, ![p].snap = "lease", ![p].changed = FALSE]
        PROVE  OthersWait(p) /\ proc'[p].at = w /\ proc'[p].snap = "lease" /\ proc'[p].held = proc[p].held
    BY <1>0, <1>4 DEF OthersWait, ProcessRecord
  <1> QED
    BY <1>1, <1>2, <1>3, <1>4

\* p writes a lease to its file at the path, in a step that gives it the records procs.
LEMMA WriteKeeps ==
    ASSUME FileInv, RaceInv, NEW p \in Procs, NEW procs \in [Procs -> ProcessRecord], WriteAtPath(p, procs), crashes' = crashes,
           \A q \in Procs \ {p} : procs[q] = proc[q],
           procs[p].at \in {"idle", "join"}, procs[p].held => Owner(p)
    PROVE  RaceInv'
  <1>1. CASE Mine(p)
    <2>1. proc' = [q \in Procs |-> [procs[q] EXCEPT !.changed = TRUE]] /\ Touches(p)
          /\ file' = [file EXCEPT !.text = "lease", !.age = "fresh"]
      BY <1>1 DEF WriteAtPath
    <2>2. \A q \in Procs : /\ proc'[q].changed /\ proc'[q].at = procs[q].at /\ proc'[q].snap = procs[q].snap
                           /\ proc'[q].held = procs[q].held
      BY <2>1 DEF ProcessRecord
    <2>3. OthersWait(p) /\ LooseEnd(p)
      BY <2>2 DEF OthersWait, LooseEnd
    <2>4. Mine(p)' /\ file'.age = "fresh" /\ file'.text = "lease"
      BY <1>1, <2>1 DEF FileInv, FileTyped, Files, Mine
    <2> QED
      BY <1>1, <2>1, <2>2, <2>3, <2>4, TouchKeeps
  <1>2. CASE ~Mine(p)
    <2>2. StaysPut(p) /\ proc' = procs
      BY <1>2 DEF WriteAtPath, StaysPut, history
    <2>3. OthersWait(p) /\ LookRight(p)' /\ (Owner(p)' => Owner(p))
      BY <2>2 DEF OthersWait, LookRight, Owner
    <2> QED
      BY <2>2, <2>3, LookingKeeps
  <1> QED
    BY <1>1, <1>2

\* acquire removes what it judged, or races.
LEMMA AcquireRaces ==
    ASSUME FileInv, RaceInv, NEW p \in Procs,
           \/ StartAcquire(p) \/ TryCreate(p) \/ WriteLease(p) \/ WriteLeaseFails(p)
           \/ ReadSnapshot(p) \/ StatSnapshot(p) \/ Reread(p) \/ RemoveStale(p)
    PROVE  RaceInv'
  <1>0. /\ proc \in [Procs -> ProcessRecord] /\ proc[p] \in ProcessRecord /\ file \in Files
        /\ LookRight(p) /\ (proc[p].at # "idle" => ~proc[p].held)
    BY RecordFacts DEF FileInv, ProcessesTyped, FileTyped, RaceInv
  <1>p. UNCHANGED <<file, crashes, history>> => StaysPut(p)
    BY DEF StaysPut, history
  <1>b. ASSUME proc' = Back(p) \/ Retry(p), StaysPut(p)
        PROVE  RaceInv'
    <2>1. OthersWait(p) /\ LooseEnd(p) /\ proc'[p].at \in {"idle", "create"} /\ proc'[p].held = proc[p].held
      BY <1>b, CallRecords
    <2>2. LookRight(p)' /\ (Owner(p)' => Owner(p))
      BY <2>1 DEF LookRight, LooseEnd, Owner
    <2> QED
      BY <1>b, <2>1, <2>2, LookingKeeps
  <1>1. CASE StartAcquire(p)
    <2>1. OthersWait(p) /\ proc'[p].at = "create" /\ proc'[p].held = proc[p].held /\ StaysPut(p)
      BY <1>0, <1>1, <1>p DEF StartAcquire, At, OthersWait, ProcessRecord
    <2>2. LookRight(p)' /\ (Owner(p)' => Owner(p))
      BY <2>1 DEF LookRight, Owner
    <2> QED
      BY <2>1, <2>2, LookingKeeps
  <1>2. CASE TryCreate(p)
    <2>1. CASE file # NoFile
      <3>1. OthersWait(p) /\ proc'[p].at = "read" /\ proc'[p].held = proc[p].held /\ StaysPut(p)
        BY <1>2, <1>p, <2>1, CallRecords DEF TryCreate
      <3>2. LookRight(p)' /\ (Owner(p)' => Owner(p))
        BY <3>1 DEF LookRight, Owner
      <3> QED
        BY <3>1, <3>2, LookingKeeps
    <2>2. CASE file = NoFile
      <3>1. OthersWait(p) /\ proc'[p].at = "writing"
        BY <1>2, <2>2, CallRecords DEF TryCreate
      <3>2. Touches(p) /\ file' = [creator |-> p, text |-> "empty", age |-> "fresh"]
        BY <1>2, <2>2 DEF TryCreate
      <3>3. LooseEnd(p) /\ Mine(p)' /\ file'.age = "fresh" /\ file'.text = "empty"
        BY <3>1, <3>2 DEF LooseEnd, Mine
      <3> QED
        BY <2>2, <3>1, <3>2, <3>3, TouchKeeps
    <2> QED
      BY <2>1, <2>2
  <1>3. CASE WriteLease(p)
    <2> DEFINE s == [Back(p) EXCEPT ![p].held = TRUE, ![p].beat = "idle"]
    <2>1. s \in [Procs -> ProcessRecord] /\ (\A q \in Procs \ {p} : s[q] = proc[q]) /\ s[p].at = "idle"
      BY <1>0, RecordFacts DEF Back, ProcessRecord, CallPlaces
    <2>2. WriteAtPath(p, s) /\ crashes' = crashes /\ Owner(p)
      BY <1>3 DEF WriteLease, Owner
    <2> HIDE DEF s
    <2> QED
      BY <2>1, <2>2, WriteKeeps
  <1>4. CASE WriteLeaseFails(p)
    <2>1. proc' = Back(p) /\ Removes(Mine(p)) /\ ~proc[p].held
      BY <1>0, <1>4 DEF WriteLeaseFails
    <2>2. OthersWait(p) /\ LooseEnd(p) /\ ~Owner(p)'
      BY <2>1, CallRecords DEF Owner
    <2>3. PICK same \in BOOLEAN : same = Mine(p)
      BY DEF Mine
    <2>4. Removes(same) /\ (same => file.creator = p)
      BY <2>1, <2>3 DEF Mine
    <2> QED
      BY <2>2, <2>4, RemovalKeeps
  <1>5. CASE ReadSnapshot(p)
    <2>1. CASE file.text = "lease" /\ MayReclaim(file.age)
      <3>1. proc' = [proc EXCEPT ![p].at = "reread", ![p].snap = "lease", ![p].changed = FALSE] /\ StaysPut(p)
        BY <1>5, <1>p, <2>1 DEF ReadSnapshot
      <3>2. OthersWait(p) /\ proc'[p].at = "reread" /\ proc'[p].snap = "lease" /\ proc'[p].held = proc[p].held
        BY <3>1, CallRecords
      <3>3. file'.age = "stale"
        BY <2>1, <3>1 DEF MayReclaim, StaysPut
      <3>4. LookRight(p)' /\ (Owner(p)' => Owner(p))
        BY <3>2, <3>3 DEF LookRight, Owner
      <3> QED
        BY <3>1, <3>2, <3>4, LookingKeeps
    <2>2. CASE file.text = "empty"
      <3>1. OthersWait(p) /\ proc'[p].at = "stat" /\ proc'[p].held = proc[p].held /\ StaysPut(p)
        BY <1>5, <1>p, <2>2, CallRecords DEF ReadSnapshot
      <3>2. LookRight(p)' /\ (Owner(p)' => Owner(p))
        BY <3>1 DEF LookRight, Owner
      <3> QED
        BY <3>1, <3>2, LookingKeeps
    <2> QED
      BY <1>0, <1>5, <1>b, <1>p, <2>1, <2>2 DEF ReadSnapshot, Files
  <1>6. CASE StatSnapshot(p)
    <2>1. CASE file # NoFile /\ MayReclaim(file.age)
      <3>1. proc' = [proc EXCEPT ![p].at = "reread", ![p].snap = "empty"] /\ StaysPut(p)
        BY <1>6, <2>1 DEF StatSnapshot, Looks, StaysPut
      <3>2. OthersWait(p) /\ proc'[p].at = "reread" /\ proc'[p].snap = "empty" /\ proc'[p].held = proc[p].held
        BY <3>1, CallRecords
      <3>3. file'.age = "stale"
        BY <2>1, <3>1 DEF MayReclaim, StaysPut
      <3>4. LookRight(p)' /\ (Owner(p)' => Owner(p))
        BY <3>2, <3>3 DEF LookRight, Owner
      <3> QED
        BY <3>1, <3>2, <3>4, LookingKeeps
    <2> QED
      BY <1>6, <1>b, <1>p, <2>1 DEF StatSnapshot
  <1>7. CASE Reread(p)
    <2>0. StaysPut(p)
      BY <1>7 DEF Reread, Looks, StaysPut, history
    <2>1. CASE Unchanged(p)
      <3>1. OthersWait(p) /\ proc'[p].at = "remove" /\ proc'[p].held = proc[p].held
        BY <1>7, <2>1, CallRecords DEF Reread
      <3>2. (file.text # "lease" => moved' = moved) /\ proc[p].at = "reread" /\ proc[p].snap = file.text
        BY <1>7, <2>1 DEF Reread, Unchanged, history
      <3>3. (p \notin moved' /\ file'.text # "none") => file'.age = "stale"
        BY <1>0, <2>0, <2>1, <3>2 DEF LookRight, StaysPut
      <3>4. LookRight(p)' /\ (Owner(p)' => Owner(p))
        BY <3>1, <3>3 DEF LookRight, Owner
      <3> QED
        BY <2>0, <3>1, <3>4, LookingKeeps
    <2> QED
      BY <1>7, <1>b, <2>0, <2>1 DEF Reread
  <1>8. CASE RemoveStale(p)
    <2>1. OthersWait(p) /\ LooseEnd(p) /\ ~Owner(p)' /\ proc[p].at = "remove"
      BY <1>0, <1>8, CallRecords DEF RemoveStale, Owner
    <2>2. PICK same \in BOOLEAN : same = (p \notin moved)
      OBVIOUS
    <2>3. Removes(same) /\ ((same /\ file.text # "none") => file.age = "stale")
      BY <1>0, <1>8, <2>1, <2>2 DEF RemoveStale, LookRight
    <2> QED
      BY <2>1, <2>3, RemovalKeeps
  <1> QED
    BY <1>1, <1>2, <1>3, <1>4, <1>5, <1>6, <1>7, <1>8

\* The heartbeat thread, in its own file or in none at the path.
LEMMA BeatRaces ==
    ASSUME FileInv, RaceInv, NEW p \in Procs, Beat(p) \/ BeatFails(p)
    PROVE  RaceInv'
  <1>0. /\ proc \in [Procs -> ProcessRecord] /\ proc[p] \in ProcessRecord /\ file \in Files
        /\ proc[p].beat # "none" /\ proc[p].at \in {"idle", "join"} /\ (proc[p].held => Owner(p))
    BY RecordFacts DEF FileInv, ProcessesTyped, FileTyped, Owner, Beat, BeatChecks, BeatTruncates, BeatWrites, BeatChecksAgain, BeatFails
  <1>r. ASSUME NEW b \in {"none", "idle", "checked", "truncated", "written"},
               proc' = [proc EXCEPT ![p].beat = b] \/ proc' = Lost(p)
        PROVE  OthersWait(p) /\ LooseEnd(p) /\ LookRight(p)' /\ (Owner(p)' => Owner(p))
    <2>1. OthersWait(p) /\ proc'[p].at = proc[p].at /\ (proc'[p].held => proc[p].held)
      BY <1>0, <1>r DEF Lost, OthersWait, ProcessRecord
    <2> QED
      BY <1>0, <2>1 DEF LookRight, LooseEnd, Owner
  <1>1. CASE BeatChecks(p) \/ BeatChecksAgain(p) \/ BeatFails(p)
    <2>1. PICK b \in {"none", "idle", "checked", "truncated", "written"} : proc' = [proc EXCEPT ![p].beat = b] \/ proc' = Lost(p)
      BY <1>1 DEF BeatChecks, BeatChecksAgain, BeatFails
    <2>2. UNCHANGED <<file, stalled, raced>> /\ moved' \in {moved, moved \ {p}}
      BY <1>1 DEF BeatChecks, BeatChecksAgain, BeatFails, history
    <2>3. OthersWait(p) /\ LookRight(p)' /\ (Owner(p)' => Owner(p))
      BY <1>r, <2>1
    <2> QED
      BY <2>2, <2>3, FileLeftAlone
  <1>2. CASE BeatTruncates(p)
    <2>1. OthersWait(p) /\ LooseEnd(p) /\ LookRight(p)' /\ (Owner(p)' => Owner(p))
      BY <1>2, <1>r DEF BeatTruncates
    <2>2. CASE Mine(p)
      <3>1. Touches(p) /\ file' = [file EXCEPT !.text = "empty", !.age = "fresh"]
        BY <1>2, <2>2 DEF BeatTruncates
      <3>2. Mine(p)' /\ file'.age = "fresh" /\ file'.text = "empty"
        BY <1>0, <2>2, <3>1 DEF Files, Mine
      <3> QED
        BY <2>1, <2>2, <3>1, <3>2, TouchKeeps
    <2>3. CASE ~Mine(p)
      <3>1. StaysPut(p)
        BY <1>2, <2>3 DEF BeatTruncates, StaysPut, history
      <3> QED
        BY <2>1, <3>1, LookingKeeps
    <2> QED
      BY <2>2, <2>3
  <1>3. CASE BeatWrites(p)
    <2> DEFINE s == [proc EXCEPT ![p].beat = "written"]
    <2>1. /\ s \in [Procs -> ProcessRecord] /\ (\A q \in Procs \ {p} : s[q] = proc[q])
          /\ s[p].at = proc[p].at /\ s[p].held = proc[p].held
      BY <1>0 DEF ProcessRecord
    <2>2. WriteAtPath(p, s) /\ crashes' = crashes
      BY <1>3 DEF BeatWrites
    <2> HIDE DEF s
    <2> QED
      BY <1>0, <2>1, <2>2, WriteKeeps
  <1> QED
    BY <1>1, <1>2, <1>3 DEF Beat

\* release removes the file it looked at, or races.
LEMMA ReleaseRaces ==
    ASSUME FileInv, RaceInv, NEW p \in Procs,
           StartRelease(p) \/ JoinHeartbeat(p) \/ OwnRead(p) \/ OwnReread(p) \/ OwnRemove(p)
    PROVE  RaceInv'
  <1>0. /\ proc \in [Procs -> ProcessRecord] /\ proc[p] \in ProcessRecord /\ file \in Files
        /\ LookRight(p) /\ (proc[p].at # "idle" => ~proc[p].held)
    BY RecordFacts DEF FileInv, ProcessesTyped, FileTyped, RaceInv
  <1>p. UNCHANGED <<file, crashes, history>> => StaysPut(p)
    BY DEF StaysPut, history
  <1>b. ASSUME proc' = Back(p), StaysPut(p)
        PROVE  RaceInv'
    <2>1. OthersWait(p) /\ LooseEnd(p) /\ proc'[p].at \in {"idle", "create"} /\ proc'[p].held = proc[p].held
      BY <1>b, CallRecords
    <2>2. LookRight(p)' /\ (Owner(p)' => Owner(p))
      BY <2>1 DEF LookRight, LooseEnd, Owner
    <2> QED
      BY <1>b, <2>1, <2>2, LookingKeeps
  <1>1. CASE StartRelease(p) \/ JoinHeartbeat(p)
    <2>1. OthersWait(p) /\ proc'[p].at \in {"join", "own_read"} /\ ~proc'[p].held /\ StaysPut(p)
      BY <1>0, <1>1, <1>p DEF StartRelease, JoinHeartbeat, OthersWait, ProcessRecord
    <2>2. LookRight(p)' /\ (Owner(p)' => Owner(p))
      BY <2>1 DEF LookRight, Owner
    <2> QED
      BY <2>1, <2>2, LookingKeeps
  <1>2. CASE OwnRead(p)
    <2>1. CASE Mine(p) /\ file.text = "lease"
      <3>1. proc' = [proc EXCEPT ![p].at = "own_reread", ![p].snap = "lease", ![p].changed = FALSE] /\ StaysPut(p)
        BY <1>2, <1>p, <2>1 DEF OwnRead
      <3>2. OthersWait(p) /\ proc'[p].at = "own_reread" /\ proc'[p].snap = "lease" /\ proc'[p].held = proc[p].held
        BY <3>1, CallRecords
      <3>3. file'.creator = p
        BY <2>1, <3>1 DEF Mine, StaysPut
      <3>4. LookRight(p)' /\ (Owner(p)' => Owner(p))
        BY <3>2, <3>3 DEF LookRight, Owner
      <3> QED
        BY <3>1, <3>2, <3>4, LookingKeeps
    <2> QED
      BY <1>2, <1>b, <1>p, <2>1 DEF OwnRead
  <1>3. CASE OwnReread(p)
    <2>0. StaysPut(p)
      BY <1>3 DEF OwnReread, Looks, StaysPut, history
    <2>1. CASE Unchanged(p)
      <3>1. OthersWait(p) /\ proc'[p].at = "own_remove" /\ proc'[p].held = proc[p].held
        BY <1>3, <2>1, CallRecords DEF OwnReread
      <3>2. file'.creator = p
        BY <1>0, <1>3, <2>0, <2>1 DEF OwnReread, LookRight, StaysPut
      <3>3. LookRight(p)' /\ (Owner(p)' => Owner(p))
        BY <3>1, <3>2 DEF LookRight, Owner
      <3> QED
        BY <2>0, <3>1, <3>3, LookingKeeps
    <2> QED
      BY <1>3, <1>b, <2>0, <2>1 DEF OwnReread
  <1>4. CASE OwnRemove(p)
    <2>1. OthersWait(p) /\ LooseEnd(p) /\ ~Owner(p)' /\ proc[p].at = "own_remove"
      BY <1>0, <1>4, CallRecords DEF OwnRemove, Owner
    <2>2. PICK same \in BOOLEAN : same = (p \notin moved)
      OBVIOUS
    <2>3. Removes(same) /\ ((same /\ file.text # "none") => file.creator = p)
      BY <1>0, <1>4, <2>1, <2>2 DEF OwnRemove, LookRight
    <2> QED
      BY <2>1, <2>3, RemovalKeeps
  <1> QED
    BY <1>1, <1>2, <1>3, <1>4

\* The file of a process that dies is nobody's from then on.
LEMMA DieRaces ==
    ASSUME FileInv, RaceInv, NEW p \in Procs, Die(p)
    PROVE  RaceInv'
  <1>1. /\ stalled' = stalled /\ moved' = moved /\ raced' = raced /\ file'.text = file.text /\ file'.age = file.age
        /\ file'.creator = (IF Mine(p) THEN Ghost ELSE file.creator)
    BY DEF Die, history, FileInv, FileTyped, Files
  <1>2. /\ \A q \in Procs \ {p} : proc'[q] = proc[q]
        /\ proc'[p].at = "dead" /\ ~proc'[p].held
    BY DEF Die, FileInv, ProcessesTyped, NewProc
  <1>3. ASSUME ~raced', NEW q \in Procs, Owner(q)'
        PROVE  (q \in stalled \/ Mine(q))'
    <2>1. q # p /\ Owner(q)
      BY <1>2, <1>3 DEF Owner
    <2> QED
      BY <1>1, <1>3, <2>1 DEF RaceInv, Mine
  <1>4. ASSUME NEW q \in Procs
        PROVE  LookRight(q)'
    <2>1. CASE q = p
      BY <1>2, <2>1 DEF LookRight
    <2>2. CASE q # p
      <3>1. LookRight(q) /\ proc'[q] = proc[q]
        BY <1>2, <2>2 DEF RaceInv
      <3>2. file.creator = q => file'.creator = q
        BY <1>1, <2>2 DEF Mine
      <3> QED
        BY <1>1, <3>1, <3>2 DEF LookRight, Unchanged
    <2> QED
      BY <2>1, <2>2
  <1> QED
    BY <1>1, <1>3, <1>4 DEF RaceInv

\* Every step keeps it.
LEMMA RaceStep == FileInv /\ RaceInv /\ [FileNext]_fileVars => RaceInv'
  <1> SUFFICES ASSUME FileInv, RaceInv, [FileNext]_fileVars PROVE RaceInv'
    OBVIOUS
  <1>1. CASE GrowOld
    <2>1. /\ file'.text = file.text /\ file'.creator = file.creator /\ file'.age = "stale"
          /\ stalled' = stalled \union ({file.creator} \ {Ghost}) /\ UNCHANGED <<proc, moved, raced>>
      BY <1>1 DEF GrowOld, FileInv, FileTyped, Files
    <2>2. \A q \in Procs : LookRight(q)'
      BY <2>1 DEF RaceInv, LookRight, Unchanged
    <2>3. ~raced' => \A q \in Procs : Owner(q)' => (q \in stalled \/ Mine(q))'
      BY <2>1 DEF RaceInv, Owner, Mine
    <2> QED
      BY <2>1, <2>2, <2>3 DEF RaceInv
  <1>2. CASE UNCHANGED fileVars
    BY <1>2 DEF fileVars, history, RaceInv, Owner, Mine, LookRight, Unchanged
  <1>3. ASSUME NEW p \in Procs, StartAcquire(p) \/ StartRelease(p) \/ Call(p) \/ Beat(p)
                                  \/ WriteLeaseFails(p) \/ BeatFails(p) \/ Die(p)
        PROVE  RaceInv'
    BY <1>3, AcquireRaces, BeatRaces, ReleaseRaces, DieRaces DEF Call
  <1> QED
    BY <1>1, <1>2, <1>3 DEF FileNext

\* The invariants give the types, and of the owners that keep their heartbeat the
\* creator of the one file as the only holder.
LEMMA FileInvSuffices == FileInv /\ RaceInv => FileIsExclusive
  <1> SUFFICES ASSUME FileInv, RaceInv PROVE FileIsExclusive
    OBVIOUS
  <1>1. LockTypeOK
    BY LocalLockAssumption, RecordFacts
    DEF FileInv, FileTyped, HeldBetweenCalls, LockTypeOK, ProcessRecord
  <1>2. ASSUME ~raced PROVE Cardinality(Holders \ stalled) <= 1
    <2>1. Holders \ stalled \subseteq {file.creator}
      BY <1>2 DEF RaceInv, Owner, Holders, Mine
    <2>2. IsFiniteSet({file.creator}) /\ Cardinality({file.creator}) = 1
      BY FS_Singleton
    <2> QED
      BY <2>1, <2>2, FS_Subset, FS_CardinalityType
  <1>3. raced => upset
    BY DEF FileInv, TimelyOwnership
  <1> QED
    BY <1>1, <1>2, <1>3 DEF FileIsExclusive, OverlapNeedsARace, RaceNeedsAnUpset

\* ProcessLock: of the processes that keep their heartbeat two hold the lock only
\* after a removal raced with a new file or a late heartbeat, and a removal races
\* only once a file grew old or a write failed; for any number of processes,
\* retries and deaths.
THEOREM FileExclusion == FileSpec => []FileIsExclusive
  <1>1. FileInit => FileInv /\ RaceInv
    BY FileInitInv, RaceInitInv
  <1>2. (FileInv /\ RaceInv) /\ [FileNext]_fileVars => (FileInv /\ RaceInv)'
    BY FileStep, RaceStep
  <1>3. FileInv /\ RaceInv => FileIsExclusive
    BY FileInvSuffices
  <1> QED
    BY <1>1, <1>2, <1>3, PTL DEF FileSpec

-----------------------------------------------------------------------------
(***************************************************************************)
(* Semaphore.                                                              *)
(***************************************************************************)
CallRecord ==
    [at : SemPlaces, count : 0 .. MaxAcquires, inserted : SUBSET Slots, slot : Slots \union {Nobody},
     left : 0 .. MaxHoldTtl, saw : BOOLEAN, valid : BOOLEAN]

SlotRows(R) == DOMAIN R \subseteq Slots /\ \A s \in DOMAIN R : R[s] \in Row

AcquirePlaces == {"waiting", "picking", "full", "picked"}

HoldPlaces == {"holding", "asked", "dropped", "locked", "locked_drop"}

\* Dirty, of a call's record.
DirtyRows(r) ==
    CASE r.at \in {"picking", "full"} -> r.inserted
      [] r.at = "picked" -> r.inserted \union {r.slot}
      [] r.at \in {"locked", "locked_drop"} -> {r.slot}
      [] OTHER -> {}

\* The call r of c, against the committed rows R: what it inserted is not there yet, the row it picked
\* is free, and as long as its time lasts the row of its slot names it, with the same time left.
CallFits(c, r, R) ==
    /\ r.at \in AcquirePlaces \union HoldPlaces => r.count # 0
    /\ r.at \in HoldPlaces \union {"picked"} => r.slot \in Slots
    /\ r.at \in {"picking", "full", "picked"} => r.inserted \intersect DOMAIN R = {}
    /\ r.at = "picked" /\ r.slot \in DOMAIN R => R[r.slot].left = 0
    /\ r.at \in HoldPlaces /\ r.valid =>
          /\ r.left > 0 => r.slot \in DOMAIN R /\ R[r.slot].holder = <<c, r.count>>
          /\ r.slot \in DOMAIN R /\ R[r.slot].holder = <<c, r.count>> => R[r.slot].left = r.left

\* Uncommitted changes of two transactions are to different rows.
LocksAreExclusive ==
    \A c, d \in Callers : c # d => DirtyRows(call[c]) \intersect DirtyRows(call[d]) = {}

SemInv ==
    /\ SlotRows(rows)
    /\ call \in [Callers -> CallRecord]
    /\ \A c \in Callers : CallFits(c, call[c], rows)
    /\ LocksAreExclusive

\* What a caller has written and not committed depends on its own record alone.
LEMMA DirtyIsOfRecord == \A c : Dirty(c) = DirtyRows(call[c])
  BY DEF Dirty, DirtyRows

\* The ends of the ranges.
LEMMA Ranges == 0 \in 0 .. MaxAcquires /\ 0 \in 0 .. MaxHoldTtl /\ MaxHoldTtl \in 0 .. MaxHoldTtl
  BY SemaphoreAssumption

\* Before the first call there are no rows.
LEMMA SemInitInv == SemInit => SemInv
  <1> SUFFICES ASSUME SemInit PROVE SemInv
    OBVIOUS
  <1>1. DOMAIN rows = {}
    BY DEF SemInit
  <1>2. NewCall \in CallRecord /\ NewCall.at = "idle"
    BY Ranges DEF NewCall, CallRecord, SemPlaces
  <1>3. call = [c \in Callers |-> NewCall]
    BY DEF SemInit
  <1>4. DirtyRows(NewCall) = {} /\ \A c : CallFits(c, NewCall, rows)
    BY <1>2 DEF DirtyRows, CallFits, AcquirePlaces, HoldPlaces
  <1> QED
    BY <1>1, <1>2, <1>3, <1>4 DEF SemInv, SlotRows, LocksAreExclusive

\* A step of one call has to show that its new record fits the new rows, that it changes no
\* row another has changed, and that the other calls still fit.
LEMMA CallStep ==
    ASSUME SemInv, NEW c \in Callers, NEW r \in CallRecord, call' = [call EXCEPT ![c] = r],
           SlotRows(rows'), CallFits(c, r, rows'),
           \A d \in Callers \ {c} : DirtyRows(r) \intersect DirtyRows(call[d]) = {},
           \A d \in Callers \ {c} : CallFits(d, call[d], rows')
    PROVE  SemInv'
  <1>1. /\ call' \in [Callers -> CallRecord] /\ call'[c] = r
        /\ \A d \in Callers \ {c} : call'[d] = call[d]
    BY DEF SemInv
  <1>2. \A d \in Callers : CallFits(d, call'[d], rows')
    BY <1>1
  <1>3. LocksAreExclusive'
    BY <1>1 DEF SemInv, LocksAreExclusive
  <1> QED
    BY <1>1, <1>2, <1>3 DEF SemInv, SlotRows, CallFits

\* The same for a step that changes no row.
LEMMA QuietStep ==
    ASSUME SemInv, NEW c \in Callers, NEW r \in CallRecord, call' = [call EXCEPT ![c] = r],
           rows' = rows, CallFits(c, r, rows),
           \A d \in Callers \ {c} : DirtyRows(r) \intersect DirtyRows(call[d]) = {}
    PROVE  SemInv'
  BY CallStep DEF SemInv

\* What is known of a call before its step.
LEMMA CallFacts ==
    ASSUME SemInv, NEW c \in Callers
    PROVE  /\ call[c] \in CallRecord /\ SlotRows(rows) /\ CallFits(c, call[c], rows)
           /\ \A d \in Callers \ {c} : /\ DirtyRows(call[c]) \intersect DirtyRows(call[d]) = {}
                                       /\ CallFits(d, call[d], rows)
  BY DEF SemInv, LocksAreExclusive

\* What becomes of the record of a call that ends.
LEMMA EndedTyped ==
    ASSUME SemInv, NEW c \in Callers
    PROVE  SemEnded(c) \in CallRecord /\ SemEnded(c).at = "idle" /\ SemEnded(c).count = call[c].count
  <1>1. call[c] \in CallRecord
    BY DEF SemInv
  <1> QED
    BY <1>1, Ranges DEF SemEnded, NewCall, CallRecord, SemPlaces

\* A call that ends, or waits for its next turn, has nothing to fit and nothing uncommitted.
LEMMA EndedFits ==
    ASSUME NEW c, NEW r, r.at \in {"idle", "waiting", "dead"}, r.at = "waiting" => r.count # 0
    PROVE  DirtyRows(r) = {} /\ \A R : CallFits(c, r, R)
  BY DEF DirtyRows, CallFits, AcquirePlaces, HoldPlaces

\* Asking for a slot, preparing its rows and picking one keep the invariant.
LEMMA AskPreserves ==
    ASSUME SemInv, NEW c \in Callers, Want(c) \/ EnsureSlotKeysExist(c) \/ AcquireSlot(c)
    PROVE  SemInv'
  <1> USE DEF SemPlaces, AcquirePlaces, HoldPlaces
  <1>0. call[c] \in CallRecord /\ SlotRows(rows) /\ CallFits(c, call[c], rows)
    BY CallFacts
  <1>1. CASE Want(c)
    <2> DEFINE n == call[c].count + 1
    <2>1. n \in 0 .. MaxAcquires /\ n # 0
      BY <1>0, <1>1, SemaphoreAssumption DEF Want, CallRecord
    <2>2. call' = [call EXCEPT ![c] = [NewCall EXCEPT !.at = "waiting", !.count = n]] /\ rows' = rows
      BY <1>1 DEF Want
    <2> HIDE DEF n
    <2> DEFINE r == [NewCall EXCEPT !.at = "waiting", !.count = n]
    <2>3. r \in CallRecord /\ r.at = "waiting" /\ r.count = n
      BY <2>1, Ranges DEF NewCall, CallRecord
    <2> HIDE DEF r
    <2>4. DirtyRows(r) = {} /\ CallFits(c, r, rows)
      BY <2>1, <2>3, EndedFits
    <2>5. call' = [call EXCEPT ![c] = r]
      BY <2>2 DEF r
    <2> QED
      BY <2>2, <2>3, <2>4, <2>5, QuietStep
  <1>2. CASE EnsureSlotKeysExist(c)
    <2> DEFINE r == [call[c] EXCEPT !.at = "picking", !.inserted = Slots \ DOMAIN rows]
    <2>1. /\ r \in CallRecord /\ r.at = "picking" /\ r.inserted = Slots \ DOMAIN rows
          /\ r.count = call[c].count
      BY <1>0 DEF CallRecord
    <2>2. call' = [call EXCEPT ![c] = r] /\ rows' = rows
      BY <1>2 DEF EnsureSlotKeysExist, SemInv
    <2> HIDE DEF r
    <2>3. CallFits(c, r, rows)
      BY <1>0, <1>2, <2>1 DEF CallFits, EnsureSlotKeysExist
    <2>4. \A d \in Callers \ {c} : DirtyRows(r) \intersect DirtyRows(call[d]) = {}
      BY <1>2, <2>1, DirtyIsOfRecord DEF DirtyRows, EnsureSlotKeysExist, FreeOf
    <2> QED
      BY <2>1, <2>2, <2>3, <2>4, QuietStep
  <1>3. CASE AcquireSlot(c)
    <2>1. ASSUME NEW s \in Slots, MayTake(c, s),
                 call' = [call EXCEPT ![c].at = "picked", ![c].slot = s, ![c].left = MaxHoldTtl]
          PROVE  SemInv'
      <3> DEFINE r == [call[c] EXCEPT !.at = "picked", !.slot = s, !.left = MaxHoldTtl]
      <3>1. /\ r \in CallRecord /\ r.at = "picked" /\ r.slot = s /\ r.inserted = call[c].inserted
            /\ r.count = call[c].count
        BY <1>0, Ranges DEF CallRecord
      <3>2. call' = [call EXCEPT ![c] = r] /\ rows' = rows
        BY <1>3, <2>1 DEF AcquireSlot, SemInv
      <3> HIDE DEF r
      <3>3. CallFits(c, r, rows)
        BY <1>0, <1>3, <2>1, <3>1 DEF CallFits, AcquireSlot, MayTake
      <3>4. \A d \in Callers \ {c} : DirtyRows(r) \intersect DirtyRows(call[d]) = {}
        BY <1>3, <2>1, <3>1, CallFacts, DirtyIsOfRecord DEF DirtyRows, AcquireSlot, MayTake, FreeOf
      <3> QED
        BY <3>1, <3>2, <3>3, <3>4, QuietStep
    <2>2. ASSUME call' = [call EXCEPT ![c].at = "full"]
          PROVE  SemInv'
      <3> DEFINE r == [call[c] EXCEPT !.at = "full"]
      <3>1. /\ r \in CallRecord /\ r.at = "full" /\ r.inserted = call[c].inserted
            /\ r.count = call[c].count
        BY <1>0 DEF CallRecord
      <3>2. call' = [call EXCEPT ![c] = r] /\ rows' = rows
        BY <1>3, <2>2 DEF AcquireSlot, SemInv
      <3> HIDE DEF r
      <3>3. CallFits(c, r, rows)
        BY <1>0, <1>3, <3>1 DEF CallFits, AcquireSlot
      <3>4. DirtyRows(r) = DirtyRows(call[c])
        BY <1>3, <3>1 DEF DirtyRows, AcquireSlot
      <3> QED
        BY <3>1, <3>2, <3>3, <3>4, CallFacts, QuietStep
    <2> QED
      BY <1>3, <2>1, <2>2 DEF AcquireSlot
  <1> QED
    BY <1>1, <1>2, <1>3

\* A commit changes rows that are absent, or free, or no longer named by the other call: it still fits.
LEMMA OthersStillFit ==
    ASSUME SemInv, NEW c \in Callers, NEW d \in Callers \ {c}, NEW R, SlotRows(R),
           \A s \in Slots : s \notin DirtyRows(call[c]) =>
              (s \in DOMAIN R <=> s \in DOMAIN rows) /\ (s \in DOMAIN R => R[s] = rows[s]),
           \A s \in DirtyRows(call[c]) :
              \/ s \in DOMAIN R /\ (s \in DOMAIN rows => rows[s].left = 0)
                                /\ (R[s].holder # <<d, call[d].count>> \/ R[s].left = 0)
              \/ s \notin DOMAIN R /\ (s \in DOMAIN rows => rows[s].holder # <<d, call[d].count>>)
              \/ s \in DOMAIN R /\ s \in DOMAIN rows /\ R[s] = rows[s]
    PROVE  CallFits(d, call[d], R)
  <1> DEFINE r == call[d]
  <1>0. /\ CallFits(d, r, rows) /\ DirtyRows(call[c]) \intersect DirtyRows(r) = {}
        /\ r \in CallRecord /\ SlotRows(rows)
    BY CallFacts
  <1> HIDE DEF r
  <1>1. r.at \in {"picking", "full", "picked"} => r.inserted \subseteq DirtyRows(r) /\ r.inserted \subseteq Slots
    BY <1>0 DEF DirtyRows, CallRecord
  <1>2. r.at = "picked" => r.slot \in DirtyRows(r)
    BY <1>0 DEF DirtyRows
  <1>3. r.left \in Nat /\ \A s \in DOMAIN rows : rows[s].left \in Nat
    BY <1>0, SemaphoreAssumption DEF CallRecord, SlotRows, Row
  <1>4. r.at \in HoldPlaces \union {"picked"} => r.slot \in Slots
    BY <1>0 DEF CallFits
  <1>5. r.at \in {"picking", "full", "picked"} => r.inserted \intersect DOMAIN R = {}
    BY <1>0, <1>1 DEF CallFits
  <1>6. r.at = "picked" /\ r.slot \in DOMAIN R => R[r.slot].left = 0
    BY <1>0, <1>2, <1>4 DEF CallFits
  <1>7. ASSUME r.at \in HoldPlaces, r.valid
        PROVE  /\ r.left > 0 => r.slot \in DOMAIN R /\ R[r.slot].holder = <<d, r.count>>
               /\ r.slot \in DOMAIN R /\ R[r.slot].holder = <<d, r.count>> => R[r.slot].left = r.left
    <2>1. /\ r.left > 0 => r.slot \in DOMAIN rows /\ rows[r.slot].holder = <<d, r.count>>
          /\ r.slot \in DOMAIN rows /\ rows[r.slot].holder = <<d, r.count>> => rows[r.slot].left = r.left
      BY <1>0, <1>7 DEF CallFits
    <2>2. CASE r.slot \notin DirtyRows(call[c])
      BY <1>4, <1>7, <2>1, <2>2
    <2>3. CASE r.slot \in DirtyRows(call[c])
      BY <1>3, <1>4, <1>7, <2>1, <2>3 DEF r
    <2> QED
      BY <2>2, <2>3
  <1> QED
    BY <1>0, <1>4, <1>5, <1>6, <1>7 DEF CallFits, r

\* An acquisition's commit or rollback keeps the invariant.
LEMMA SettlePreserves ==
    ASSUME SemInv, NEW c \in Callers, CommitAcquire(c) \/ CommitFull(c) \/ RollbackAcquire(c)
    PROVE  SemInv'
  <1> USE DEF SemPlaces, AcquirePlaces, HoldPlaces
  <1>0. /\ call[c] \in CallRecord /\ SlotRows(rows) /\ CallFits(c, call[c], rows)
        /\ call[c].count \in 0 .. MaxAcquires /\ call[c].inserted \subseteq Slots
    BY CallFacts DEF CallRecord
  <1>e. ASSUME NEW r \in CallRecord, SlotRows(rows'), call' = [call EXCEPT ![c] = r],
               r.at = "idle" \/ (r.at = "waiting" /\ r.count = call[c].count),
               call[c].at \in AcquirePlaces,
               \A d \in Callers \ {c} : CallFits(d, call[d], rows')
        PROVE  SemInv'
    <2>1. call[c].count # 0
      BY <1>0, <1>e DEF CallFits
    <2>2. DirtyRows(r) = {} /\ CallFits(c, r, rows')
      BY <1>e, <2>1, EndedFits
    <2> QED
      BY <1>e, <2>2, CallStep
  <1>p. /\ DOMAIN Placed(c) = call[c].inserted
        /\ \A s \in call[c].inserted : Placed(c)[s] \in Row /\ Placed(c)[s].left = 0
    BY Ranges DEF Placed, Row
  <1>1. CASE CommitAcquire(c)
    <2> DEFINE s == call[c].slot
               mine == [holder |-> HolderId(c), left |-> call[c].left]
    <2>1. /\ s \in Slots /\ call[c].count # 0 /\ (s \in DOMAIN rows => rows[s].left = 0)
          /\ call[c].inserted \intersect DOMAIN rows = {}
          /\ DirtyRows(call[c]) = call[c].inserted \union {s}
      BY <1>0, <1>1 DEF CallFits, CommitAcquire, DirtyRows
    <2>2. mine \in Row /\ mine.holder = <<c, call[c].count>> /\ mine.left = call[c].left
      BY <1>0, <2>1 DEF Row, HolderId, CallRecord
    <2>3. /\ DOMAIN rows' = DOMAIN rows \union call[c].inserted \union {s}
          /\ rows'[s] = mine
          /\ \A q \in call[c].inserted \ {s} : rows'[q] = Placed(c)[q]
          /\ \A q \in DOMAIN rows : q \notin call[c].inserted \union {s} => rows'[q] = rows[q]
      BY <1>1, <1>p DEF CommitAcquire, Onto, ClaimRow
    <2> HIDE DEF s, mine
    <2>4. SlotRows(rows')
      BY <1>0, <1>p, <2>1, <2>2, <2>3 DEF SlotRows
    <2>5. ASSUME NEW d \in Callers \ {c}
          PROVE  CallFits(d, call[d], rows')
      BY <1>p, <2>1, <2>2, <2>3, <2>4, OthersStillFit
    <2>6. ASSUME call' = [call EXCEPT ![c] = [call[c] EXCEPT !.at = "holding", !.inserted = {}, !.valid = TRUE]]
          PROVE  SemInv'
      <3> DEFINE r == [call[c] EXCEPT !.at = "holding", !.inserted = {}, !.valid = TRUE]
      <3>1. /\ r \in CallRecord /\ r.at = "holding" /\ r.count = call[c].count /\ r.slot = s
            /\ r.left = call[c].left
        BY <1>0 DEF CallRecord, s
      <3> HIDE DEF r
      <3>2. CallFits(c, r, rows') /\ DirtyRows(r) = {}
        BY <2>1, <2>2, <2>3, <3>1 DEF CallFits, DirtyRows
      <3> QED
        BY <2>4, <2>5, <2>6, <3>1, <3>2, CallStep DEF r
    <2> QED
      BY <1>1, <1>e, <2>4, <2>5, <2>6, EndedTyped DEF CommitAcquire
  <1>2. CASE CommitFull(c)
    <2>1. DirtyRows(call[c]) = call[c].inserted /\ call[c].inserted \intersect DOMAIN rows = {}
      BY <1>0, <1>2 DEF CallFits, CommitFull, DirtyRows
    <2>3. /\ DOMAIN rows' = DOMAIN rows \union call[c].inserted
          /\ \A q \in call[c].inserted : rows'[q] = Placed(c)[q]
          /\ \A q \in DOMAIN rows : q \notin call[c].inserted => rows'[q] = rows[q]
      BY <1>2, <1>p DEF CommitFull, Onto
    <2>4. SlotRows(rows')
      BY <1>0, <1>p, <2>3 DEF SlotRows
    <2>5. ASSUME NEW d \in Callers \ {c}
          PROVE  CallFits(d, call[d], rows')
      BY <1>p, <2>1, <2>3, <2>4, OthersStillFit
    <2>6. PICK w \in {"idle", "waiting"} : call' = [call EXCEPT ![c] = [SemEnded(c) EXCEPT !.at = w]]
      BY <1>2 DEF CommitFull
    <2> DEFINE r == [SemEnded(c) EXCEPT !.at = w]
    <2>7. r \in CallRecord /\ r.at = w /\ r.count = call[c].count
      BY EndedTyped DEF CallRecord
    <2> HIDE DEF r
    <2> QED
      BY <1>2, <1>e, <2>4, <2>5, <2>6, <2>7 DEF CommitFull, r
  <1>3. CASE RollbackAcquire(c)
    BY <1>3, <1>0, <1>e, EndedTyped, CallFacts DEF RollbackAcquire
  <1> QED
    BY <1>1, <1>2, <1>3

\* Giving a slot back, or failing to, keeps the invariant.
LEMMA GiveBackPreserves ==
    ASSUME SemInv, NEW c \in Callers,
           AskRelease(c) \/ LockForRelease(c) \/ CommitRelease(c) \/ CommitReleaseUnanswered(c) \/ ReleaseFails(c)
           \/ Crash(c)
    PROVE  SemInv'
  <1> USE DEF SemPlaces, AcquirePlaces, HoldPlaces
  <1>0. /\ call[c] \in CallRecord /\ SlotRows(rows) /\ CallFits(c, call[c], rows)
        /\ call[c].count \in 0 .. MaxAcquires
        /\ \A d \in Callers \ {c} : /\ DirtyRows(call[c]) \intersect DirtyRows(call[d]) = {}
                                    /\ CallFits(d, call[d], rows)
    BY CallFacts DEF CallRecord
  <1>e. ASSUME NEW r \in CallRecord, SlotRows(rows'), call' = [call EXCEPT ![c] = r],
               r.at \in {"idle", "dead"},
               \A d \in Callers \ {c} : CallFits(d, call[d], rows')
        PROVE  SemInv'
    <2>1. DirtyRows(r) = {} /\ CallFits(c, r, rows')
      BY <1>e, EndedFits
    <2> QED
      BY <1>e, <2>1, CallStep
  <1>h. ASSUME NEW w \in HoldPlaces, NEW b \in BOOLEAN, call[c].at \in HoldPlaces, rows' = rows,
               call' = [call EXCEPT ![c] = [call[c] EXCEPT !.at = w, !.saw = b]],
               w \in {"locked", "locked_drop"} => FreeOf(c, call[c].slot)
        PROVE  SemInv'
    <2> DEFINE r == [call[c] EXCEPT !.at = w, !.saw = b]
    <2>1. /\ r \in CallRecord /\ r.at = w /\ r.slot = call[c].slot /\ r.count = call[c].count
          /\ r.left = call[c].left /\ r.valid = call[c].valid
      BY <1>0 DEF CallRecord
    <2> HIDE DEF r
    <2>2. CallFits(c, r, rows)
      BY <1>0, <1>h, <2>1 DEF CallFits
    <2>3. \A d \in Callers \ {c} : DirtyRows(r) \intersect DirtyRows(call[d]) = {}
      BY <1>h, <2>1, DirtyIsOfRecord DEF DirtyRows, FreeOf
    <2> QED
      BY <1>h, <2>1, <2>2, <2>3, QuietStep DEF r
  <1>1. CASE AskRelease(c)
    <2>1. \E w \in {"asked", "dropped"}, b \in BOOLEAN :
             call' = [call EXCEPT ![c] = [call[c] EXCEPT !.at = w, !.saw = b]]
      BY <1>1 DEF AskRelease, SemInv
    <2> QED
      BY <1>1, <2>1, <1>h DEF AskRelease
  <1>2. CASE LockForRelease(c)
    <2>1. \E w \in {"locked", "locked_drop"} :
             call' = [call EXCEPT ![c] = [call[c] EXCEPT !.at = w, !.saw = call[c].saw]]
      BY <1>2 DEF LockForRelease, SemInv, CallRecord
    <2>2. call[c].saw \in BOOLEAN
      BY <1>0 DEF CallRecord
    <2> QED
      BY <1>2, <2>1, <2>2, <1>h DEF LockForRelease
  <1>d. ASSUME rows' = IF MayDelete(c) THEN Restrict(rows, DOMAIN rows \ {call[c].slot}) ELSE rows,
               call[c].at \in {"locked", "locked_drop"}
        PROVE  SlotRows(rows') /\ \A d \in Callers \ {c} : CallFits(d, call[d], rows')
    <2>1. CASE MayDelete(c)
      <3>1. DOMAIN rows' = DOMAIN rows \ {call[c].slot} /\ \A s \in DOMAIN rows' : rows'[s] = rows[s]
        BY <1>d, <2>1 DEF Restrict
      <3>2. SlotRows(rows')
        BY <1>0, <3>1 DEF SlotRows
      <3>3. DirtyRows(call[c]) = {call[c].slot} /\ rows[call[c].slot].holder = <<c, call[c].count>>
        BY <1>d, <2>1 DEF DirtyRows, MayDelete, HolderId
      <3> QED
        BY <3>1, <3>2, <3>3, OthersStillFit
    <2> QED
      BY <1>0, <1>d, <2>1
  <1>3. CASE CommitRelease(c)
    BY <1>3, <1>d, <1>e, EndedTyped DEF CommitRelease
  <1>4. CASE CommitReleaseUnanswered(c)
    <2> DEFINE r == [call[c] EXCEPT !.at = "holding", !.valid = FALSE]
    <2>1. r \in CallRecord /\ r.at = "holding" /\ ~r.valid /\ r.slot = call[c].slot /\ r.count = call[c].count
      BY <1>0 DEF CallRecord
    <2>2. call' = [call EXCEPT ![c] = r]
      BY <1>4 DEF CommitReleaseUnanswered, SemInv
    <2> HIDE DEF r
    <2>3. CallFits(c, r, rows') /\ DirtyRows(r) = {}
      BY <1>0, <1>4, <2>1 DEF CallFits, DirtyRows, CommitReleaseUnanswered
    <2> QED
      BY <1>4, <1>d, <2>1, <2>2, <2>3, CallStep DEF CommitReleaseUnanswered
  <1>5. CASE ReleaseFails(c)
    <2>1. CASE call[c].at \in {"asked", "locked"}
      <3>1. call' = [call EXCEPT ![c] = [call[c] EXCEPT !.at = "holding", !.saw = call[c].saw]]
        BY <1>0, <1>5, <2>1 DEF ReleaseFails, CallRecord
      <3>2. call[c].saw \in BOOLEAN
        BY <1>0 DEF CallRecord
      <3> QED
        BY <1>5, <2>1, <3>1, <3>2, <1>h DEF ReleaseFails
    <2> QED
      BY <1>0, <1>5, <2>1, <1>e, EndedTyped DEF ReleaseFails
  <1>6. CASE Crash(c)
    <2> DEFINE r == [SemEnded(c) EXCEPT !.at = "dead"]
    <2>1. r \in CallRecord /\ r.at = "dead"
      BY EndedTyped DEF CallRecord
    <2> HIDE DEF r
    <2> QED
      BY <1>0, <1>6, <1>e, <2>1 DEF Crash, r
  <1> QED
    BY <1>1, <1>2, <1>3, <1>4, <1>5, <1>6

\* reset deletes every row and voids every claim: nothing is uncommitted then.
LEMMA ResetPreserves ==
    ASSUME SemInv, Reset
    PROVE  SemInv'
  <1> USE DEF SemPlaces, AcquirePlaces, HoldPlaces
  <1>1. DOMAIN rows' = {} /\ SlotRows(rows')
    BY DEF Reset, SlotRows
  <1>2. ASSUME NEW c \in Callers
        PROVE  /\ call'[c] \in CallRecord /\ CallFits(c, call'[c], rows') /\ DirtyRows(call'[c]) = {}
    <2>1. call[c] \in CallRecord /\ CallFits(c, call[c], rows) /\ DirtyRows(call[c]) = {}
      BY CallFacts, DirtyIsOfRecord DEF Reset
    <2>2. call'[c] = [call[c] EXCEPT !.valid = FALSE]
      BY DEF Reset
    <2>3. /\ call'[c] \in CallRecord /\ call'[c].at = call[c].at /\ call'[c].count = call[c].count
          /\ call'[c].slot = call[c].slot /\ call'[c].inserted = call[c].inserted /\ ~call'[c].valid
      BY <2>1, <2>2 DEF CallRecord
    <2>4. CallFits(c, call'[c], rows')
      BY <1>1, <2>1, <2>3 DEF CallFits
    <2> QED
      BY <2>1, <2>3, <2>4 DEF DirtyRows
  <1>3. call' \in [Callers -> CallRecord]
    BY <1>2 DEF Reset
  <1>4. LocksAreExclusive'
    BY <1>2 DEF LocksAreExclusive
  <1> QED
    BY <1>1, <1>2, <1>3, <1>4 DEF SemInv, SlotRows, CallFits

\* Time passes for claims and rows alike.
LEMMA SemTickPreserves ==
    ASSUME SemInv, SemTick
    PROVE  SemInv'
  <1> USE DEF SemPlaces, AcquirePlaces, HoldPlaces
  <1>0. \A n \in 0 .. MaxHoldTtl : Down(n) \in 0 .. MaxHoldTtl /\ (n = 0 => Down(n) = 0) /\ (Down(n) > 0 => n > 0)
    BY SemaphoreAssumption DEF Down
  <1>1. /\ DOMAIN rows' = DOMAIN rows
        /\ \A s \in DOMAIN rows : rows'[s] = [rows[s] EXCEPT !.left = Down(@)]
    BY DEF SemTick
  <1>2. \A s \in DOMAIN rows : /\ rows'[s] \in Row /\ rows[s] \in Row /\ rows'[s].holder = rows[s].holder
                               /\ rows'[s].left = Down(rows[s].left)
    BY <1>0, <1>1 DEF Row, SemInv, SlotRows
  <1>3. SlotRows(rows')
    BY <1>1, <1>2 DEF SemInv, SlotRows
  <1>4. ASSUME NEW c \in Callers
        PROVE  /\ call'[c] \in CallRecord /\ CallFits(c, call'[c], rows')
               /\ DirtyRows(call'[c]) = DirtyRows(call[c])
    <2>1. call[c] \in CallRecord /\ CallFits(c, call[c], rows) /\ call[c].left \in 0 .. MaxHoldTtl
      BY CallFacts DEF CallRecord
    <2>2. call'[c] = [call[c] EXCEPT !.left = Down(@)]
      BY DEF SemTick
    <2>3. /\ call'[c] \in CallRecord /\ call'[c].at = call[c].at /\ call'[c].count = call[c].count
          /\ call'[c].slot = call[c].slot /\ call'[c].inserted = call[c].inserted
          /\ call'[c].valid = call[c].valid /\ call'[c].left = Down(call[c].left)
      BY <1>0, <2>1, <2>2 DEF CallRecord
    <2>4. \A s \in DOMAIN rows : rows[s].left \in 0 .. MaxHoldTtl
      BY <1>2 DEF Row
    <2>5. CallFits(c, call'[c], rows')
      BY <1>0, <1>1, <1>2, <2>1, <2>3, <2>4 DEF CallFits
    <2> QED
      BY <2>3, <2>5 DEF DirtyRows
  <1>5. call' \in [Callers -> CallRecord]
    BY <1>4 DEF SemTick
  <1>6. LocksAreExclusive'
    BY <1>4 DEF SemInv, LocksAreExclusive
  <1> QED
    BY <1>3, <1>4, <1>5, <1>6 DEF SemInv, SlotRows, CallFits

\* Every step of the semaphore keeps the invariant.
LEMMA SemStep == SemInv /\ [SemNext]_semVars => SemInv'
  <1> SUFFICES ASSUME SemInv, [SemNext]_semVars PROVE SemInv'
    OBVIOUS
  <1>1. CASE UNCHANGED semVars
    BY <1>1 DEF semVars, SemInv, SlotRows, CallFits, LocksAreExclusive
  <1>2. ASSUME NEW c \in Callers, Want(c) \/ Progress(c) \/ AskRelease(c) \/ Fault(c)
        PROVE  SemInv'
    BY <1>2, AskPreserves, SettlePreserves, GiveBackPreserves DEF Progress, Fault
  <1> QED
    BY <1>1, <1>2, ResetPreserves, SemTickPreserves DEF SemNext

\* A row names one holder, and a claim that lasts has the row: so two such claims differ in their slots.
LEMMA SemInvSuffices == SemInv => SemaphoreIsSound
  <1> SUFFICES ASSUME SemInv PROVE SemaphoreIsSound
    OBVIOUS
  <1>0. \A c \in Callers : call[c] \in CallRecord /\ CallFits(c, call[c], rows)
    BY CallFacts
  <1>1. SemTypeOK
    <2>1. ASSUME NEW c \in Callers, call[c].valid, call[c].at = "holding",
                 \/ call[c].left > 0
                 \/ call[c].slot \in DOMAIN rows /\ rows[call[c].slot].holder = HolderId(c)
          PROVE  call[c].slot \in DOMAIN rows /\ rows[call[c].slot].left = call[c].left
      BY <1>0, <2>1 DEF CallFits, HoldPlaces, HolderId
    <2> QED
      BY <1>0, <2>1 DEF SemTypeOK, SemInv, SlotRows, CallRecord
  <1>2. SlotHasOneHolder
    BY <1>0 DEF SlotHasOneHolder, Holds, CallFits, HoldPlaces
  <1> QED
    BY <1>1, <1>2 DEF SemaphoreIsSound

\* The semaphore: within its hold time and unless somebody resets, a holder has its slot alone,
\* for any number of callers, slots and acquisitions.
THEOREM SlotExclusion == SemSpec => []SemaphoreIsSound
  <1> QED
    BY SemInitInv, SemStep, SemInvSuffices, PTL DEF SemSpec

(***************************************************************************)
(* QueueRuntime.  A waiter returns, and a cron ends cleanly, only after    *)
(* the signal was set, and the signal is never taken back; so a supervisor *)
(* that sees a clean cron first has read a flag that is up.  What has      *)
(* ended stays as it ended.                                                *)
(***************************************************************************)
TaskRecord ==
    [at : Places, waiter : WaiterSteps, target : 0 .. 3, end : {"none", "ok", "error", "panic"}]

Supervisors ==
    [at : {"select", "seen", "joining", "returned"}, first : Tasks \union {"none"},
     requestedBefore : BOOLEAN, failures : SUBSET (Tasks \union {"stopped_unexpectedly"})]

RuntimeTyped ==
    /\ requested \in BOOLEAN /\ notifying \in BOOLEAN /\ (notifying => requested)
    /\ task \in [Tasks -> TaskRecord] /\ supervisor \in Supervisors

\* What holds of the record of the task t under a flag.
TaskOK(t, r, flag) ==
    /\ r.at = "ended" <=> r.end # "none"
    /\ r.waiter = "returned" => flag
    /\ t \in Crons /\ r.end = "ok" => flag

\* What the supervisor knows about the tasks that have ended.
SupervisorOK(s, tasks) ==
    /\ s.at # "select" => /\ s.first \in Tasks /\ tasks[s.first].at = "ended"
                          /\ s.first \in Crons /\ tasks[s.first].end = "ok" => s.requestedBefore
    /\ s.at = "returned" => /\ \A t \in Tasks : tasks[t].at = "ended"
                            /\ s.failures = {t \in Tasks : tasks[t].end # "ok"}

RuntimeInv ==
    /\ RuntimeTyped
    /\ \A t \in Tasks : TaskOK(t, task[t], requested)
    /\ SupervisorOK(supervisor, task)

\* A step of one task that has not ended, which may set the flag.
LEMMA TaskMoves ==
    ASSUME RuntimeInv, NEW t \in Tasks, task[t].at # "ended", NEW r \in TaskRecord, task' = [task EXCEPT ![t] = r],
           requested' \in BOOLEAN, notifying' \in BOOLEAN, notifying' => requested', requested => requested',
           supervisor' = supervisor, TaskOK(t, r, requested')
    PROVE  RuntimeInv'
  <1>1. RuntimeTyped'
    BY DEF RuntimeInv, RuntimeTyped
  <1>2. ASSUME NEW u \in Tasks PROVE TaskOK(u, task'[u], requested')
    BY DEF RuntimeInv, RuntimeTyped, TaskOK
  <1>3. \A u \in Tasks : task[u].at = "ended" => task'[u] = task[u]
    BY DEF RuntimeInv, RuntimeTyped
  <1>4. supervisor.at # "returned"
    BY DEF RuntimeInv, SupervisorOK
  <1>5. SupervisorOK(supervisor, task')
    BY <1>3, <1>4 DEF RuntimeInv, SupervisorOK
  <1> QED
    BY <1>1, <1>2, <1>5 DEF RuntimeInv

\* A step of the supervisor, which may set the flag.
LEMMA SupervisorMoves ==
    ASSUME RuntimeInv, NEW s \in Supervisors, supervisor' = s, task' = task, SupervisorOK(s, task),
           requested' \in BOOLEAN, notifying' \in BOOLEAN, notifying' => requested', requested => requested'
    PROVE  RuntimeInv'
  BY DEF RuntimeInv, RuntimeTyped, TaskOK

\* request_cancellation leaves the flag up.
LEMMA FlagIsUp ==
    ASSUME RuntimeInv, SetFlag
    PROVE  /\ requested' = TRUE /\ notifying' \in BOOLEAN
  BY DEF RuntimeInv, RuntimeTyped, SetFlag

\* Goes, Ends and the poll of a waiter, as records.
LEMMA TaskRecords ==
    ASSUME RuntimeInv, NEW t \in Tasks
    PROVE  /\ task[t] \in TaskRecord /\ NewTask \in TaskRecord
           /\ NewTask.waiter = "new" /\ NewTask.end = "none" /\ NewTask.at = "select"
           /\ \A place \in Places : /\ [NewTask EXCEPT !.at = place] \in TaskRecord
                                    /\ [task[t] EXCEPT !.at = place] \in TaskRecord
           /\ \A w \in WaiterSteps : [task[t] EXCEPT !.waiter = w] \in TaskRecord
           /\ TaskOK(t, task[t], requested)
           /\ requested \in BOOLEAN /\ notifying \in BOOLEAN /\ (notifying => requested)
  <1>1. task[t] \in TaskRecord /\ TaskOK(t, task[t], requested)
        /\ requested \in BOOLEAN /\ notifying \in BOOLEAN /\ (notifying => requested)
    BY DEF RuntimeInv, RuntimeTyped
  <1>2. NewTask \in TaskRecord /\ NewTask.waiter = "new" /\ NewTask.end = "none" /\ NewTask.at = "select"
    BY DEF NewTask, TaskRecord, WaiterSteps, Places
  <1> QED
    BY <1>1, <1>2 DEF TaskRecord

\* A task that goes elsewhere and has not ended.
LEMMA GoesKeeps ==
    ASSUME RuntimeInv, NEW t \in Tasks, NEW place \in Places \ {"ended"}, task[t].at # "ended", Goes(t, place),
           requested' \in BOOLEAN, notifying' \in BOOLEAN, notifying' => requested', requested => requested',
           supervisor' = supervisor
    PROVE  RuntimeInv'
  <1>1. PICK r \in TaskRecord : r = [task[t] EXCEPT !.at = place]
    BY TaskRecords
  <1>2. r.at = place /\ r.waiter = task[t].waiter /\ r.end = task[t].end
    BY <1>1, TaskRecords DEF TaskRecord
  <1>3. task' = [task EXCEPT ![t] = r]
    BY <1>1 DEF Goes
  <1>4. TaskOK(t, r, requested')
    BY <1>2, TaskRecords DEF TaskOK
  <1> QED
    BY <1>3, <1>4, TaskMoves

\* A task that ends: a cron cleanly only once the flag is up.
LEMMA EndsKeeps ==
    ASSUME RuntimeInv, NEW t \in Tasks, NEW result \in {"ok", "error", "panic"}, task[t].at # "ended",
           Ends(t, result), UNCHANGED <<requested, notifying, supervisor>>, t \in Crons /\ result = "ok" => requested
    PROVE  RuntimeInv'
  <1>1. PICK r : r = [NewTask EXCEPT !.at = "ended", !.end = result]
    OBVIOUS
  <1>0. r = [at |-> "ended", waiter |-> "new", target |-> 0, end |-> result]
    BY <1>1 DEF NewTask
  <1>2. r \in TaskRecord /\ r.at = "ended" /\ r.end = result /\ r.waiter = "new"
    BY <1>0 DEF TaskRecord, WaiterSteps, Places
  <1>3. task' = [task EXCEPT ![t] = r]
    BY <1>1 DEF Ends
  <1>4. TaskOK(t, r, requested')
    BY <1>2 DEF TaskOK
  <1> QED
    BY <1>2, <1>3, <1>4, TaskMoves, TaskRecords

\* Back to an earlier place with a new waiter.
LEMMA RenewsWaiter ==
    ASSUME RuntimeInv, NEW t \in Tasks, NEW place \in {"top", "select"}, task[t].at # "ended",
           task' = [task EXCEPT ![t] = [NewTask EXCEPT !.at = place]], UNCHANGED <<requested, notifying, supervisor>>
    PROVE  RuntimeInv'
  <1>1. PICK r : r = [NewTask EXCEPT !.at = place]
    OBVIOUS
  <1>2. r \in TaskRecord /\ r.at = place /\ r.end = "none" /\ r.waiter = "new"
    BY <1>1 DEF NewTask, TaskRecord, WaiterSteps, Places
  <1>3. TaskOK(t, r, requested')
    BY <1>2 DEF TaskOK
  <1> QED
    BY <1>1, <1>2, <1>3, TaskMoves, TaskRecords

\* The waiter of a select returns only when it has read the flag.
LEMMA PollKeeps ==
    ASSUME RuntimeInv, NEW t \in Tasks, PollWaiter(t)
    PROVE  RuntimeInv'
  <1>1. PICK w : w = AfterStep(task[t].waiter)
    OBVIOUS
  <1>2. task[t].waiter \in WaiterSteps /\ task[t].at = "select"
    BY TaskRecords DEF PollWaiter, TaskRecord
  <1>3. w \in WaiterSteps /\ (w = "returned" => requested \/ task[t].waiter = "returned")
    BY <1>1, <1>2 DEF AfterStep, WaiterSteps
  <1>4. PICK r : r = [task[t] EXCEPT !.waiter = w]
    OBVIOUS
  <1>5. r \in TaskRecord /\ r.at = task[t].at /\ r.end = task[t].end /\ r.waiter = w
    BY <1>3, <1>4, TaskRecords DEF TaskRecord
  <1>6. task' = [task EXCEPT ![t] = r] /\ UNCHANGED <<requested, notifying, supervisor>>
    BY <1>1, <1>4 DEF PollWaiter
  <1>7. TaskOK(t, r, requested')
    BY <1>3, <1>5, <1>6, TaskRecords DEF TaskOK
  <1> QED
    BY <1>2, <1>5, <1>6, <1>7, TaskMoves, TaskRecords

\* notify_waiters wakes waiters and does nothing else.
LEMMA NotifyKeeps ==
    ASSUME RuntimeInv, NotifyWaiters
    PROVE  RuntimeInv'
  <1>1. requested' = requested /\ notifying' = FALSE /\ supervisor' = supervisor
    BY DEF NotifyWaiters
  <1>2. ASSUME NEW t \in Tasks
        PROVE  /\ task'[t] \in TaskRecord /\ task'[t].at = task[t].at /\ task'[t].end = task[t].end
               /\ task'[t].waiter = "returned" => task[t].waiter = "returned"
    <2>1. PICK r : r = [task[t] EXCEPT !.waiter = "woken"]
      OBVIOUS
    <2>0. task[t] \in TaskRecord /\ "woken" \in WaiterSteps
      BY TaskRecords DEF WaiterSteps
    <2>2. r \in TaskRecord /\ r.at = task[t].at /\ r.end = task[t].end /\ r.waiter = "woken"
      BY <2>0, <2>1 DEF TaskRecord
    <2>3. task'[t] = task[t] \/ task'[t] = r
      BY <2>1 DEF NotifyWaiters
    <2> QED
      BY <2>2, <2>3, TaskRecords
  <1>3. task' = [t \in Tasks |-> task'[t]]
    BY DEF NotifyWaiters
  <1>4. task' \in [Tasks -> TaskRecord]
    BY <1>2, <1>3
  <1>5. RuntimeTyped'
    BY <1>1, <1>4 DEF RuntimeInv, RuntimeTyped
  <1>6. \A t \in Tasks : TaskOK(t, task'[t], requested')
    BY <1>1, <1>2 DEF RuntimeInv, TaskOK
  <1>7. {t \in Tasks : task[t].end # "ok"} = {t \in Tasks : task'[t].end # "ok"}
    BY <1>2
  <1>8. SupervisorOK(supervisor, task')
    BY <1>2, <1>7 DEF RuntimeInv, SupervisorOK
  <1> QED
    BY <1>1, <1>5, <1>6, <1>8 DEF RuntimeInv

\* A tick of a cron begins: it leaves its select with the flag or without.
LEMMA TickKeeps ==
    ASSUME RuntimeInv, NEW t \in Crons, TickBegins(t)
    PROVE  RuntimeInv'
  <1>1. t \in Tasks
    BY DEF Tasks
  <1>2. PICK r : r = [task[t] EXCEPT !.at = "body", !.target = IF t = "cleanup" THEN 1 ELSE 0]
    OBVIOUS
  <1>3. task[t] \in TaskRecord /\ "body" \in Places /\ (IF t = "cleanup" THEN 1 ELSE 0) \in 0 .. 3
    <2>1. task[t] \in TaskRecord
      BY <1>1, TaskRecords
    <2> QED
      BY <2>1 DEF Places
  <1>4. r \in TaskRecord /\ r.at = "body" /\ r.end = task[t].end /\ r.waiter = task[t].waiter
    BY <1>2, <1>3 DEF TaskRecord
  <1>5. task' = [task EXCEPT ![t] = r] /\ UNCHANGED <<requested, notifying, supervisor>> /\ task[t].at = "select"
    BY <1>2, <1>3 DEF TickBegins, TaskRecord
  <1>6. TaskOK(t, r, requested')
    BY <1>1, <1>4, <1>5, TaskRecords DEF TaskOK
  <1> QED
    BY <1>1, <1>4, <1>5, <1>6, TaskMoves, TaskRecords

\* A batch of the cleanup, or the end of its tick.
LEMMA CleanupKeeps ==
    ASSUME RuntimeInv, CleanupStep
    PROVE  RuntimeInv'
  <1>1. "cleanup" \in Tasks
    BY DEF Tasks, Crons
  <1>2. PICK c : c = task["cleanup"]
    OBVIOUS
  <1>3. c \in TaskRecord /\ c.at = "body"
    BY <1>1, <1>2, TaskRecords DEF CleanupStep
  <1>4. PICK r : r = NextTarget(c)
    OBVIOUS
  <1>5. r \in TaskRecord /\ r.at \in {"select", "body"} /\ r.end = c.end /\ r.waiter = c.waiter
    <2>1. CASE c.target = 3
      <3>1. r = [c EXCEPT !.at = "select", !.target = 0]
        BY <1>4, <2>1 DEF NextTarget
      <3>2. "select" \in Places /\ 0 \in 0 .. 3
        BY DEF Places
      <3> QED
        BY <3>1, <3>2, <1>3 DEF TaskRecord
    <2>2. CASE c.target # 3
      <3>1. r = [c EXCEPT !.target = c.target + 1]
        BY <1>4, <2>2, <1>3 DEF NextTarget, TaskRecord
      <3>2. c.target + 1 \in 0 .. 3
        BY <2>2, <1>3 DEF TaskRecord
      <3> QED
        BY <3>1, <3>2, <1>3 DEF TaskRecord
    <2> QED
      BY <2>1, <2>2
  <1>6. UNCHANGED <<requested, notifying, supervisor>> /\ (task' = [task EXCEPT !["cleanup"] = r] \/ task' = task)
    BY <1>2, <1>4 DEF CleanupStep
  <1>7. TaskOK("cleanup", r, requested')
    BY <1>1, <1>2, <1>3, <1>5, <1>6, TaskRecords DEF TaskOK
  <1>8. CASE task' = task
    BY <1>6, <1>8 DEF RuntimeInv, RuntimeTyped, TaskOK, SupervisorOK
  <1> QED
    BY <1>1, <1>2, <1>3, <1>5, <1>6, <1>7, <1>8, TaskMoves, TaskRecords

\* The crons.
LEMMA CronKeeps ==
    ASSUME RuntimeInv, NEW t \in Crons, CronStep(t) \/ TickBegins(t) \/ CronFails(t) \/ ReclaimReturns
    PROVE  RuntimeInv'
  <1>1. t \in Tasks /\ "reclaim" \in Tasks
    BY DEF Tasks, Crons
  <1>2. CASE CronStops(t)
    <2>1. PICK result \in {"ok", "error"} : Ends(t, result)
      BY <1>2 DEF CronStops
    <2>2. task[t].at # "ended" /\ UNCHANGED <<requested, notifying, supervisor>> /\ requested
      BY <1>1, <1>2, TaskRecords DEF CronStops, TaskOK
    <2> QED
      BY <1>1, <2>1, <2>2, EndsKeeps
  <1>3. CASE CronFails(t)
    <2>1. PICK result \in {"error", "panic"} : Ends(t, result)
      BY <1>3 DEF CronFails
    <2>2. task[t].at # "ended" /\ UNCHANGED <<requested, notifying, supervisor>>
      BY <1>3 DEF CronFails
    <2> QED
      BY <1>1, <2>1, <2>2, EndsKeeps
  <1>4. CASE ReclaimReturns
    BY <1>1, <1>4, GoesKeeps, TaskRecords DEF ReclaimReturns, Places
  <1> QED
    BY <1>1, <1>2, <1>3, <1>4, PollKeeps, TickKeeps DEF CronStep

\* The run loop.
LEMMA LoopKeeps ==
    ASSUME RuntimeInv, WorkerStep \/ WorkerFails \/ WorkerPanics
    PROVE  RuntimeInv'
  <1>1. "worker" \in Tasks /\ "worker" \notin Crons
    BY DEF Tasks, Crons
  <1>2. {"draining", "body", "failing"} \subseteq Places \ {"ended"}
    BY DEF Places
  <1>3. requested \in BOOLEAN /\ notifying \in BOOLEAN /\ (notifying => requested)
    BY <1>1, TaskRecords
  <1>4. CASE LoopTop
    BY <1>1, <1>2, <1>3, <1>4, GoesKeeps DEF LoopTop
  <1>5. CASE ClaimReturns
    BY <1>1, <1>5, RenewsWaiter DEF ClaimReturns
  <1>6. CASE SelectEnds
    BY <1>1, <1>6, RenewsWaiter DEF SelectEnds
  <1>7. CASE StopSeen
    BY <1>1, <1>2, <1>3, <1>7, GoesKeeps DEF StopSeen
  <1>8. CASE WorkerFails
    <2>1. requested' = TRUE /\ notifying' \in BOOLEAN
      BY <1>8, FlagIsUp DEF WorkerFails
    <2> QED
      BY <1>1, <1>2, <1>8, <2>1, GoesKeeps DEF WorkerFails
  <1>9. CASE WorkerPanics
    BY <1>1, <1>9, EndsKeeps DEF WorkerPanics
  <1>10. CASE WorkerReturns
    <2>1. PICK result \in {"ok", "error", "panic"} : Ends("worker", result)
      BY <1>10 DEF WorkerReturns
    <2>2. task["worker"].at # "ended" /\ UNCHANGED <<requested, notifying, supervisor>>
      BY <1>10 DEF WorkerReturns
    <2> QED
      BY <1>1, <2>1, <2>2, EndsKeeps
  <1> QED
    BY <1>1, <1>4, <1>5, <1>6, <1>7, <1>8, <1>9, <1>10, PollKeeps DEF WorkerStep

\* A supervisor returns what failed: if a cron ended first and cleanly, the flag
\* was up when it was read, so there is no alarm.
LEMMA SupervisorKeeps ==
    ASSUME RuntimeInv, SupervisorStep
    PROVE  RuntimeInv'
  <1>1. supervisor \in Supervisors /\ SupervisorOK(supervisor, task)
        /\ requested \in BOOLEAN /\ notifying \in BOOLEAN /\ (notifying => requested)
    BY DEF RuntimeInv, RuntimeTyped
  <1>2. CASE \E t \in Tasks : FirstEnds(t)
    <2>1. PICK t \in Tasks : FirstEnds(t)
      BY <1>2
    <2>2. PICK s : s = [supervisor EXCEPT !.at = "seen", !.first = t, !.requestedBefore = requested]
      OBVIOUS
    <2>3. s \in Supervisors /\ s.at = "seen" /\ s.first = t /\ s.requestedBefore = requested
      BY <1>1, <2>2 DEF Supervisors
    <2>4. t \in Crons /\ task[t].end = "ok" => requested
      BY DEF RuntimeInv, TaskOK
    <2>5. SupervisorOK(s, task) /\ supervisor' = s /\ UNCHANGED <<requested, notifying, task>>
      BY <2>1, <2>2, <2>3, <2>4 DEF SupervisorOK, FirstEnds, Ended
    <2> QED
      BY <1>1, <2>3, <2>5, SupervisorMoves
  <1>3. CASE StopOthers
    <2>1. PICK s : s = [supervisor EXCEPT !.at = "joining"]
      OBVIOUS
    <2>2. s \in Supervisors /\ s.at = "joining" /\ s.first = supervisor.first
          /\ s.requestedBefore = supervisor.requestedBefore
      BY <1>1, <2>1 DEF Supervisors
    <2>3. SupervisorOK(s, task) /\ supervisor' = s /\ task' = task
      BY <1>1, <1>3, <2>1, <2>2 DEF SupervisorOK, StopOthers
    <2>4. requested' = TRUE /\ notifying' \in BOOLEAN
      BY <1>3, FlagIsUp DEF StopOthers
    <2> QED
      BY <2>2, <2>3, <2>4, SupervisorMoves
  <1>4. CASE SupervisorReturns
    <2>1. PICK s : s = [supervisor EXCEPT !.at = "returned", !.failures = CombinedFailures]
      OBVIOUS
    <2>2. CombinedFailures = {t \in Tasks : task[t].end # "ok"}
      <3>1. ~(supervisor.first \in Crons /\ task[supervisor.first].end = "ok" /\ ~supervisor.requestedBefore)
        BY <1>1, <1>4 DEF SupervisorOK, SupervisorReturns
      <3> QED
        BY <3>1 DEF CombinedFailures
    <2>3. s \in Supervisors /\ s.at = "returned" /\ s.first = supervisor.first
          /\ s.requestedBefore = supervisor.requestedBefore /\ s.failures = {t \in Tasks : task[t].end # "ok"}
      BY <1>1, <2>1, <2>2 DEF Supervisors
    <2>4. SupervisorOK(s, task) /\ supervisor' = s /\ UNCHANGED <<requested, notifying, task>>
      BY <1>1, <1>4, <2>1, <2>3 DEF SupervisorOK, SupervisorReturns, AllJoined, Ended
    <2> QED
      BY <1>1, <2>3, <2>4, SupervisorMoves
  <1> QED
    BY <1>2, <1>3, <1>4 DEF SupervisorStep

\* The tasks, their signal and the supervisor keep the invariant.
THEOREM RuntimeInvariance == RuntimeSpec => []RuntimeInv
  <1>1. RuntimeInit => RuntimeInv
    <2> SUFFICES ASSUME RuntimeInit PROVE RuntimeInv
      OBVIOUS
    <2>1. PICK top, sel : top = [NewTask EXCEPT !.at = "top"] /\ sel = NewTask
      OBVIOUS
    <2>2. /\ top \in TaskRecord /\ top.at = "top" /\ top.end = "none" /\ top.waiter = "new"
          /\ sel \in TaskRecord /\ sel.at = "select" /\ sel.end = "none" /\ sel.waiter = "new"
      BY <2>1 DEF NewTask, TaskRecord, WaiterSteps, Places
    <2>3. task = [t \in Tasks |-> IF t = "worker" THEN top ELSE sel]
      BY <2>1 DEF RuntimeInit
    <2>4. RuntimeTyped
      BY <2>2, <2>3 DEF RuntimeInit, RuntimeTyped, Supervisors
    <2>5. \A t \in Tasks : TaskOK(t, task[t], requested)
      BY <2>2, <2>3 DEF TaskOK
    <2>6. SupervisorOK(supervisor, task)
      BY DEF RuntimeInit, SupervisorOK
    <2> QED
      BY <2>4, <2>5, <2>6 DEF RuntimeInv
  <1>2. RuntimeInv /\ [RuntimeNext]_runtimeVars => RuntimeInv'
    <2> SUFFICES ASSUME RuntimeInv, [RuntimeNext]_runtimeVars PROVE RuntimeInv'
      OBVIOUS
    <2>1. CASE UNCHANGED runtimeVars
      BY <2>1 DEF runtimeVars, RuntimeInv, RuntimeTyped, TaskOK, SupervisorOK
    <2>2. CASE RequestStop
      <3>1. PICK s \in Supervisors : s = supervisor /\ SupervisorOK(s, task)
        BY DEF RuntimeInv, RuntimeTyped
      <3>2. requested' = TRUE /\ notifying' \in BOOLEAN
        BY <2>2, FlagIsUp DEF RequestStop
      <3> QED
        BY <2>2, <3>1, <3>2, SupervisorMoves DEF RequestStop
    <2>3. CASE ReclaimReturns \/ \E t \in Crons : CronStep(t) \/ TickBegins(t) \/ CronFails(t)
      BY <2>3, CronKeeps DEF Crons
    <2> QED
      BY <2>1, <2>2, <2>3, NotifyKeeps, LoopKeeps, CleanupKeeps, SupervisorKeeps DEF RuntimeNext
  <1> QED
    BY <1>1, <1>2, PTL DEF RuntimeSpec

\* compute_queue_retry_backoff, for any maximum that resolve_queue_retry_policy
\* accepts: the floor and the cap come last, after the jitter, so that the base,
\* the number of the retry and the fraction of the jitter do not matter.
LEMMA NormalizedIsBounded ==
    ASSUME NEW d \in Nat, NEW max \in Nat, max = 0 \/ max >= MinBackoff
    PROVE  NormalizedBackoff(d, max) >= MinBackoff /\ (max # 0 => NormalizedBackoff(d, max) <= max)
  BY RuntimeAssumption DEF NormalizedBackoff, Larger, Smaller

\* Every delay between retries is at least the floor, and at most the cap of the
\* policies that have one.
THEOREM BackoffBounds == BackoffIsBounded
  <1> SUFFICES ASSUME NEW retry \in Retries, NEW d \in Backoffs(retry.policy, retry.n, retry.custom)
               PROVE  d >= MinBackoff /\ (retry.policy.strategy # "fixed" => d <= retry.policy.max)
    BY DEF BackoffIsBounded
  <1>1. PICK p : p = retry.policy
    OBVIOUS
  <1>2. p \in Policies /\ PolicyIsValid(p)
    BY <1>1 DEF Retries
  <1>3. MinBackoff \in Nat \ {0} /\ MaxDuration \in Nat /\ p.max \in Nat
        /\ p.strategy \in {"exponential", "fixed", "custom"}
    BY <1>2, RuntimeAssumption DEF Policies, Durations
  <1>4. \A b, j : Jittered(b, j) \subseteq Nat
    BY <1>3 DEF Jittered
  <1>5. CASE p.strategy = "fixed"
    <2>1. PICK x \in Nat : d = NormalizedBackoff(x, 0)
      BY <1>1, <1>4, <1>5 DEF Backoffs
    <2> QED
      BY <1>1, <1>5, <2>1, NormalizedIsBounded
  <1>6. CASE p.strategy # "fixed"
    <2>1. PICK x \in Nat : d = NormalizedBackoff(x, p.max)
      BY <1>1, <1>3, <1>4, <1>6 DEF Backoffs
    <2>2. p.max >= MinBackoff /\ p.max # 0
      BY <1>2, <1>3, <1>6 DEF PolicyIsValid
    <2> QED
      BY <1>1, <1>3, <2>1, <2>2, NormalizedIsBounded
  <1> QED
    BY <1>5, <1>6

\* Whatever order a stop, the failure of a part and the supervisor's tests come in,
\* the supervisor returns when nothing runs any more and its error names the parts
\* that failed and no other (RuntimeIsSound).
THEOREM RuntimeSoundness == RuntimeSpec => []RuntimeIsSound
  <1>1. RuntimeInv => RuntimeTypeOK
    <2> SUFFICES ASSUME RuntimeInv PROVE RuntimeTypeOK
      OBVIOUS
    <2>1. task \in [Tasks -> [at : Places, waiter : WaiterSteps, target : 0 .. 3, end : {"none", "ok", "error", "panic"}]]
      BY DEF RuntimeInv, RuntimeTyped, TaskRecord
    <2>2. \A t \in Tasks : task[t].at = "ended" <=> task[t].end # "none"
      BY DEF RuntimeInv, TaskOK
    <2> QED
      BY <2>1, <2>2 DEF RuntimeInv, RuntimeTyped, RuntimeTypeOK, Supervisors
  <1>2. RuntimeInv => RuntimeResultIsTruthful
    BY DEF RuntimeInv, SupervisorOK, RuntimeResultIsTruthful, Ended
  <1>3. RuntimeInv => RuntimeIsSound
    BY <1>1, <1>2, BackoffBounds DEF RuntimeIsSound
  <1> QED
    BY <1>3, RuntimeInvariance, PTL
=============================================================================
