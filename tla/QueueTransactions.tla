--------------------------- MODULE QueueTransactions ---------------------------
(***************************************************************************)
(* The queue's calls inside their callers' transactions                    *)
(* (the *_in_current_transaction calls of src/src/db/queue/api and the     *)
(* manual worker protocol): several sessions, each with at most one open   *)
(* transaction of a few calls, READ COMMITTED, on the rows of QueueStore.  *)
(*                                                                         *)
(* A call is a statement in two steps.  It takes its snapshot; then it     *)
(* locks with FOR UPDATE SKIP LOCKED what its WHERE clause selected and    *)
(* still selects, updates it, and reports on the rest from the snapshot.   *)
(* A transaction's rows stay locked until it ends.  A caller rolls back    *)
(* when a call returns an error, as the calls on a pool do.                *)
(*                                                                         *)
(* A session of a worker works on one job at a time and records its effect *)
(* in the transaction that completes the job.  Claims in doubt (held) are  *)
(* left to QueueWorker, as is the pause table.                             *)
(***************************************************************************)
EXTENDS QueueStore

CONSTANTS
    WorkerSessions,   \* sessions that run jobs
    WorkerOf,         \* the worker owner id of such a session
    Operators,        \* sessions of operators and of maintenance
    Producers,        \* sessions that enqueue
    MaxCalls,         \* bound on the calls of a session's transaction
    MaxAttempts       \* MAX_QUEUE_DEDUPE_INSERT_ATTEMPTS

ASSUME SessionAssumption ==
    /\ WorkerOf \in [WorkerSessions -> Workers] /\ NoJob \notin Jobs
    /\ MaxCalls \in [WorkerSessions \union Operators \union Producers -> Nat \ {0}]
    /\ MaxAttempts \in Nat \ {0}

VARIABLES
    tx,        \* the transaction of each session
    session,   \* the job a worker session believes it has; whether its handler runs
    shutdown,  \* workers that claim no more and return what they have
    told,      \* history: jobs a session was told are not its worker's
    effects,   \* history: committed effects of each job
    answer     \* what the last enqueue of a producer returned

txVars == <<tx, session, shutdown, told, effects, answer>>

Sessions == WorkerSessions \union Operators \union Producers

NoRows == [j \in {} |-> UnusedRow]

NoTx ==
    [at |-> "none", calls |-> 0, attempts |-> 0, seen |-> NoRows, writes |-> NoRows,
     effects |-> {}, takes |-> {}, mine |-> NoJob, live |-> FALSE]

NoAnswer == [kind |-> "none", job |-> NoJob]

TransactionsTypeOK ==
    /\ StoreTypeOK
    /\ \A s \in Sessions :
          /\ tx[s].at \in {"none", "open", "snapshot"}
          /\ tx[s].calls \in 0 .. MaxCalls[s] /\ tx[s].attempts \in 0 .. MaxAttempts - 1
          /\ tx[s].at = "none" => tx[s] = NoTx
          /\ \A o \in Sessions \ {s} : DOMAIN tx[s].writes \intersect DOMAIN tx[o].writes = {}
    /\ session \in [WorkerSessions -> [mine : Jobs \union {NoJob}, live : BOOLEAN]]
    /\ told \in [WorkerSessions -> SUBSET Jobs] /\ shutdown \subseteq Workers
    /\ effects \in [Jobs -> 0 .. 2]

\* rows: what earlier calls left in the tables.
TransactionsInit(rows) ==
    /\ jobs = rows /\ paused = {} /\ taken = {}
    /\ held = [w \in Workers |-> {}]
    /\ tx = [s \in Sessions |-> NoTx]
    /\ session = [s \in WorkerSessions |-> [mine |-> NoJob, live |-> FALSE]]
    /\ told = [s \in WorkerSessions |-> {}] /\ shutdown = {}
    /\ effects = [j \in Jobs |-> 0]
    /\ answer = [p \in Producers |-> NoAnswer]

-----------------------------------------------------------------------------
(***************************************************************************)
(* Transactions (PostgreSQL).                                              *)
(***************************************************************************)

\* The newest version of a row that session s may see or lock.
Latest(s, j) == IF j \in DOMAIN tx[s].writes THEN tx[s].writes[j] ELSE jobs[j]

LockedByOther(s, j) == \E o \in Sessions \ {s} : j \in DOMAIN tx[o].writes

\* rows: the new versions of some rows.
Writing(s, rows) ==
    [j \in DOMAIN rows \union DOMAIN tx[s].writes |-> IF j \in DOMAIN rows THEN rows[j] ELSE tx[s].writes[j]]

WritingOne(s, j, row) == Writing(s, [i \in {j} |-> row])

\* The row of the session's job.
MyRow(s) == Latest(s, tx[s].mine)

\* A call's statement takes its snapshot, the first one in a new transaction.
TakeSnapshot(s) ==
    LET t == IF tx[s].at # "none" THEN tx[s]
             ELSE IF s \in WorkerSessions
             THEN [NoTx EXCEPT !.mine = session[s].mine, !.live = session[s].live]
             ELSE NoTx
    IN  /\ tx[s].at # "snapshot" /\ tx[s].calls < MaxCalls[s]
        /\ tx' = [tx EXCEPT ![s] = [t EXCEPT !.at = "snapshot", !.seen = [j \in Jobs |-> Latest(s, j)]]]
        /\ answer' = [p \in Producers |-> IF p = s /\ tx[s].at = "none" THEN NoAnswer ELSE answer[p]]
        /\ UNCHANGED <<storeVars, session, shutdown, told, effects>>

\* The statement ends, and the transaction goes on.
Continues(s, t) ==
    tx' = [tx EXCEPT ![s] = [t EXCEPT !.at = "open", !.seen = NoRows, !.calls = @ + 1, !.attempts = 0]]

Proceeds(s, t) == Continues(s, t) /\ UNCHANGED answer

Closed(s) == tx' = [tx EXCEPT ![s] = NoTx]

\* What an enqueue of the transaction was told is void.
RolledBack(s) == Closed(s) /\ answer' = [p \in Producers |-> IF p = s THEN NoAnswer ELSE answer[p]]

\* A new claim makes what the session was told of that job out of date.
Commit(s) ==
    /\ tx[s].at = "open" /\ tx[s].calls > 0
    /\ jobs' = [j \in Jobs |-> Latest(s, j)]
    /\ taken' = taken \union tx[s].takes
    /\ effects' = [j \in Jobs |-> effects[j] + (IF j \in tx[s].effects THEN 1 ELSE 0)]
    /\ session' = IF s \in WorkerSessions
                  THEN [session EXCEPT ![s] = [mine |-> tx[s].mine, live |-> tx[s].live]]
                  ELSE session
    /\ told' = IF s \in WorkerSessions THEN [told EXCEPT ![s] = @ \ {tx[s].mine}] ELSE told
    /\ Closed(s)
    /\ UNCHANGED <<paused, held, shutdown, answer>>

\* The caller gives up, or its connection breaks.
Rollback(s) ==
    /\ tx[s].at # "none" /\ RolledBack(s)
    /\ UNCHANGED <<storeVars, session, shutdown, told, effects>>

-----------------------------------------------------------------------------
(***************************************************************************)
(* Calls of a worker.  A WHERE clause is the set of values it admits for   *)
(* each column that it tests.                                              *)
(***************************************************************************)

\* Mutant: the target is what the snapshot selected.
LockedVersionOfSnapshot(s, j) == tx[s].seen[j]

\* The clause is part of the locking SELECT, and so is evaluated again on the
\* version of the row that is locked.
LockedVersion(s, j) == Latest(s, j)

Matches(row, where) == \A column \in DOMAIN where : row[column] \in where[column]

\* FOR UPDATE SKIP LOCKED.
Selected(s, j, where) ==
    Matches(tx[s].seen[j], where) /\ ~ LockedByOther(s, j) /\ Matches(LockedVersion(s, j), where)

StatusIn(S) == [status |-> S]

Running(started) == [status |-> {"running"}, started |-> started]

Owned(s, started) == [status |-> {"running"}, worker |-> {WorkerOf[s]}, started |-> started]

OwnedBy(s, row) == Matches(row, Owned(s, BOOLEAN))

\* claim_available_jobs_for_worker with a limit of one; none may be found.
ClaimOne(s, j) ==
    /\ tx[s].at = "snapshot" /\ tx[s].mine = NoJob /\ WorkerOf[s] \notin shutdown
    /\ Selected(s, j, StatusIn({"pending"}))
    /\ Continues(s, [tx[s] EXCEPT !.writes = WritingOne(s, j, ClaimedRow(Latest(s, j), WorkerOf[s])),
                                  !.mine = j, !.live = FALSE])
    /\ UNCHANGED <<storeVars, session, shutdown, told, effects, answer>>

\* Mutant: a row that could not be locked is reported as not running.
NotRunningOrLocked(seenOwned) == TRUE

\* When nothing was updated: STATE_MISMATCH and NOT_FOUND are JobNotRunning; a row
\* that the snapshot has right is JobLockedByConcurrentTransaction.
NotRunning(seenOwned) == ~ seenOwned

\* JobNotRunning: the session gives the job up.  (It may have ended the job
\* itself earlier in this transaction, which it then rolls back.)
ToldNotRunning(s, j) ==
    /\ RolledBack(s)
    /\ IF j \in DOMAIN tx[s].writes THEN UNCHANGED <<session, told>>
       ELSE /\ told' = [told EXCEPT ![s] = @ \union {j}]
            /\ session' = [session EXCEPT ![s] = [mine |-> NoJob, live |-> FALSE]]
    /\ UNCHANGED <<storeVars, shutdown, effects>>

\* JobLockedByConcurrentTransaction: the call may be made again.
ToldLocked(s) == RolledBack(s) /\ UNCHANGED <<storeVars, session, shutdown, told, effects>>

\* execute_owned_running_job_update and its siblings on the session's job: row is
\* what an applied call makes of the job's row, t what becomes of the transaction.
OwnedUpdate(s, started, row, t) ==
    LET j == tx[s].mine
        where == Owned(s, started)
        found == Selected(s, j, where)
    IN  /\ tx[s].at = "snapshot" /\ j # NoJob
        /\ \/ /\ found /\ Continues(s, [t EXCEPT !.writes = WritingOne(s, j, row)])
              /\ UNCHANGED <<storeVars, session, shutdown, told, effects, answer>>
           \/ ~ found /\ NotRunning(Matches(tx[s].seen[j], where)) /\ ToldNotRunning(s, j)
           \/ ~ found /\ ~ NotRunning(Matches(tx[s].seen[j], where)) /\ ToldLocked(s)

GaveUp(s) == [tx[s] EXCEPT !.mine = NoJob, !.live = FALSE]

\* The handler starts when the call returns.
ManualMarkStarted(s) ==
    ~ tx[s].live /\ OwnedUpdate(s, BOOLEAN, StartedRow(MyRow(s)), [tx[s] EXCEPT !.live = TRUE])

ManualHeartbeat(s) == OwnedUpdate(s, BOOLEAN, TouchedRow(MyRow(s)), tx[s])

\* The session's own record of the effect is part of the transaction.
ManualComplete(s) ==
    /\ tx[s].live
    /\ OwnedUpdate(s, BOOLEAN, CompletedRow(MyRow(s)),
                   [GaveUp(s) EXCEPT !.effects = @ \union {tx[s].mine}])

ManualScheduleRetry(s) ==
    tx[s].live /\ OwnedUpdate(s, BOOLEAN, ScheduledRetryRow(MyRow(s), MyRow(s).retry), GaveUp(s))

ManualMarkFailed(s) ==
    tx[s].live /\ OwnedUpdate(s, BOOLEAN, FailedRow(MyRow(s), FALSE), GaveUp(s))

ManualMoveToDeadLetter(s) ==
    tx[s].live /\ OwnedUpdate(s, BOOLEAN, DeadLetterRow(MyRow(s), FALSE), GaveUp(s))

\* A caller knows whether it started the job; if it asks for the wrong return it
\* is told JobNotRunning of a job that runs.
ManualReturnUnstarted(s) ==
    ~ tx[s].live /\ OwnedUpdate(s, {FALSE}, ReturnToPending(MyRow(s)), GaveUp(s))

ManualReturnStarted(s) ==
    tx[s].live /\ OwnedUpdate(s, {TRUE}, ReturnToPending(MyRow(s)), GaveUp(s))

\* A batch statement: any subset of what it selects, LIMIT and locks permitting.
BatchUpdate(s, where, rows, takes) ==
    /\ tx[s].at = "snapshot" /\ DOMAIN rows # {}
    /\ \A j \in DOMAIN rows : Selected(s, j, where)
    /\ Continues(s, [tx[s] EXCEPT !.writes = Writing(s, rows), !.takes = @ \union takes])
    /\ UNCHANGED <<storeVars, session, shutdown, told, effects, answer>>

Returned(s, S) == [j \in S |-> ReturnToPending(Latest(s, j))]

Deleted(S) == [j \in S |-> DeletedRow]

StopClaiming(w) ==
    /\ w \notin shutdown /\ shutdown' = shutdown \union {w}
    /\ UNCHANGED <<storeVars, tx, session, told, effects, answer>>

\* Another session of the worker cleans up behind it.
ManualReturnAvailableUnstarted(s, S) ==
    /\ WorkerOf[s] \in shutdown
    /\ BatchUpdate(s, Owned(s, {FALSE}), Returned(s, S), {})

ManualReturnAvailableStarted(s, S) ==
    /\ WorkerOf[s] \in shutdown
    /\ BatchUpdate(s, Owned(s, {TRUE}), Returned(s, S), S)

WorkerCall(s) ==
    \/ \E j \in Jobs : ClaimOne(s, j)
    \/ ManualMarkStarted(s) \/ ManualHeartbeat(s) \/ ManualComplete(s) \/ ManualScheduleRetry(s)
    \/ ManualMarkFailed(s) \/ ManualMoveToDeadLetter(s)
    \/ ManualReturnUnstarted(s) \/ ManualReturnStarted(s)
    \/ \E S \in SUBSET Jobs : ManualReturnAvailableUnstarted(s, S) \/ ManualReturnAvailableStarted(s, S)

-----------------------------------------------------------------------------
(***************************************************************************)
(* Calls of operators and maintenance.                                     *)
(***************************************************************************)

InTable == StatusIn({"pending", "running", "completed", "failed"})

\* The target is locked whatever its status is, and then tested.
ExpectedStateUpdate(s, j, status, row) ==
    /\ tx[s].at = "snapshot"
    /\ IF Selected(s, j, InTable) /\ Latest(s, j).status = status
       THEN Proceeds(s, [tx[s] EXCEPT !.writes = WritingOne(s, j, row), !.takes = @ \union {j}])
       ELSE RolledBack(s)
    /\ UNCHANGED <<storeVars, session, shutdown, told, effects>>

CancelPending(s, j) == ExpectedStateUpdate(s, j, "pending", DeletedRow)

ForceRequeueRunning(s, j) == ExpectedStateUpdate(s, j, "running", ReturnToPending(Latest(s, j)))

MoveFailedToDeadLetter(s, j) ==
    ExpectedStateUpdate(s, j, "failed", DeadLetterRow(Latest(s, j), FALSE))

\* The statements of a reclaim pass; whether a heartbeat is stale is left open.
ReclaimNeverStarted(s, S) == BatchUpdate(s, Running({FALSE}), Returned(s, S), S)

ReclaimExpired(s, S, dead) ==
    BatchUpdate(s, Running({TRUE}), [j \in S |-> ReclaimedRow(Latest(s, j), dead)], S)

CleanupOnce(s, S) == BatchUpdate(s, StatusIn({"completed", "failed"}), Deleted(S), {})

DeleteDeadLetter(s, j) ==
    /\ tx[s].at = "snapshot"
    /\ IF Selected(s, j, StatusIn({"dead"}))
       THEN Proceeds(s, [tx[s] EXCEPT !.writes = Writing(s, Deleted({j}))])
       ELSE RolledBack(s)
    /\ UNCHANGED <<storeVars, session, shutdown, told, effects>>

-----------------------------------------------------------------------------
(***************************************************************************)
(* Dedupe keys.  The partial unique index sees every version of a row: an  *)
(* entry that another open transaction has changed is waited for.          *)
(***************************************************************************)

HasKey(row, key) == row.status \in {"pending", "running"} /\ row.key = key

\* Mutant: the index covers pending rows only.
IndexEntriesOfPending(s, key) == {j \in Jobs : HasKey(Latest(s, j), key) /\ Latest(s, j).status = "pending"}

IndexEntries(s, key) == {j \in Jobs : HasKey(Latest(s, j), key)}

MustWait(s, key) ==
    \E o \in Sessions \ {s} : \E j \in DOMAIN tx[o].writes :
        HasKey(tx[o].writes[j], key) \/ HasKey(jobs[j], key)

SeenWithKey(s, key) == {j \in Jobs : HasKey(tx[s].seen[j], key)}

UnusedId(s, j) == Latest(s, j).status = "unused" /\ ~ LockedByOther(s, j)

Insert(s, j, key) == WritingOne(s, j, NewRow(key))

Answers(s, kind, j) == answer' = [answer EXCEPT ![s] = [kind |-> kind, job |-> j]]

\* Mutant: a conflict that the snapshot does not show counts as a duplicate.
ConflictAnswerOwnId(s, key, id) ==
    /\ Continues(s, tx[s])
    /\ Answers(s, "deduplicated", IF SeenWithKey(s, key) = {} THEN id
                                  ELSE CHOOSE j \in SeenWithKey(s, key) : TRUE)

\* Not inserted: the job of the snapshot, or another attempt with a new snapshot.
ConflictAnswer(s, key, id) ==
    IF SeenWithKey(s, key) # {}
    THEN \E j \in SeenWithKey(s, key) : Continues(s, tx[s]) /\ Answers(s, "deduplicated", j)
    ELSE IF tx[s].attempts + 1 < MaxAttempts
    THEN tx' = [tx EXCEPT ![s].at = "open", ![s].seen = NoRows, ![s].attempts = @ + 1] /\ UNCHANGED answer
    ELSE Closed(s) /\ Answers(s, "exhausted", NoJob)

\* execute_dedupe_enqueue_in_current_transaction, one attempt.
DedupeEnqueue(s, j, key) ==
    /\ tx[s].at = "snapshot" /\ UnusedId(s, j) /\ ~ MustWait(s, key)
    /\ IF IndexEntries(s, key) = {}
       THEN Continues(s, [tx[s] EXCEPT !.writes = Insert(s, j, key)]) /\ Answers(s, "inserted", j)
       ELSE ConflictAnswer(s, key, j)
    /\ UNCHANGED <<storeVars, session, shutdown, told, effects>>

\* retry_failed_job: a conflict with another job is seen in the snapshot, or raised
\* by the index, which leaves the caller a transaction to roll back.
RetryFailed(s, j) ==
    /\ tx[s].at = "snapshot"
    /\ LET row == Latest(s, j)
           Retried == /\ Selected(s, j, InTable) /\ row.status = "failed"
                      /\ (row.key = NoKey \/ SeenWithKey(s, row.key) \subseteq {j})
           Free == row.key = NoKey \/ IndexEntries(s, row.key) = {}
       IN  IF Retried
           THEN /\ (row.key = NoKey \/ ~ MustWait(s, row.key))
                /\ IF Free THEN Proceeds(s, [tx[s] EXCEPT !.writes = WritingOne(s, j, RetryFailedRow(row))])
                   ELSE RolledBack(s)
           ELSE RolledBack(s)
    /\ UNCHANGED <<storeVars, session, shutdown, told, effects>>

\* The replacement and the deletion, or neither (an error).
Requeued(s, j, id, key) ==
    IF key # NoKey /\ IndexEntries(s, key) # {} THEN RolledBack(s)
    ELSE Proceeds(s, [tx[s] EXCEPT !.writes = Writing(s, [i \in {id, j} |-> IF i = id THEN NewRow(key)
                                                                           ELSE DeletedRow])])

\* requeue_dead_letter_job: ON CONFLICT DO NOTHING, and no deletion without an
\* insertion.
RequeueDeadLetter(s, j, id) ==
    /\ tx[s].at = "snapshot" /\ UnusedId(s, id)
    /\ IF Selected(s, j, StatusIn({"dead"}))
       THEN LET key == Latest(s, j).key
            IN  IF key # NoKey /\ SeenWithKey(s, key) # {} THEN RolledBack(s)
                ELSE (key # NoKey => ~ MustWait(s, key)) /\ Requeued(s, j, id, key)
       ELSE RolledBack(s)
    /\ UNCHANGED <<storeVars, session, shutdown, told, effects>>

OperatorCall(s) ==
    \/ \E j \in Jobs :
          \/ CancelPending(s, j) \/ ForceRequeueRunning(s, j) \/ MoveFailedToDeadLetter(s, j)
          \/ DeleteDeadLetter(s, j) \/ RetryFailed(s, j)
          \/ \E id \in Jobs : RequeueDeadLetter(s, j, id)
    \/ \E S \in SUBSET Jobs :
          \/ ReclaimNeverStarted(s, S) \/ CleanupOnce(s, S)
          \/ \E dead \in BOOLEAN : ReclaimExpired(s, S, dead)

ProducerCall(s) == \E j \in Jobs, key \in Keys : DedupeEnqueue(s, j, key)

-----------------------------------------------------------------------------
TransactionStep(s) == TakeSnapshot(s) \/ Commit(s) \/ Rollback(s)

TransactionsNext(Taking) ==
    \/ \E s \in Taking : TransactionStep(s)
    \/ \E s \in Taking \intersect WorkerSessions : WorkerCall(s)
    \/ \E s \in Taking \intersect Operators : OperatorCall(s)
    \/ \E s \in Taking \intersect Producers : ProducerCall(s)
    \/ \E w \in {WorkerOf[s] : s \in Taking \intersect WorkerSessions} : StopClaiming(w)

\* What earlier calls leave: active keys that differ, no completions that the
\* history does not know, and no running rows but those of workers that are gone.
LeftRows ==
    {rows \in [Jobs -> JobRow] :
        /\ \A j \in Jobs :
              /\ rows[j].status # "completed"
              /\ rows[j].status = "running" <=> rows[j].worker # NoWorker
              /\ rows[j].started \/ rows[j].stale => rows[j].status = "running"
              /\ rows[j].status \in {"pending", "running"} => rows[j].retry <= MaxRetries
              /\ \A s \in WorkerSessions : rows[j].worker # WorkerOf[s]
        /\ \A i, j \in Jobs :
              i # j /\ {rows[i].status, rows[j].status} \subseteq {"pending", "running"} /\ rows[i].key # NoKey
                  => rows[i].key # rows[j].key}

TransactionsSpec ==
    (\E rows \in LeftRows : TransactionsInit(rows)) /\ [][TransactionsNext(Sessions)]_<<storeVars, txVars>>

-----------------------------------------------------------------------------
\* The effect that a handler writes in the transaction that completes its job is
\* committed exactly once: never twice, whatever was reclaimed, requeued or
\* claimed again meanwhile, and never without the completion.
EffectsMatchCompletions ==
    \A j \in Jobs :
        /\ jobs[j].status = "completed" => effects[j] = 1
        /\ jobs[j].status \notin {"completed", "gone"} => effects[j] = 0
        /\ effects[j] <= 1

\* A session that is told JobNotRunning has lost the job for good: its worker does
\* not own it, unless by the claim of another of its sessions.  A row that is only
\* locked, by a transaction that may yet roll back, is not reported so.
NotRunningIsFinal ==
    \A s \in WorkerSessions : \A j \in told[s] :
        OwnedBy(s, jobs[j]) =>
            \E o \in WorkerSessions \ {s} : WorkerOf[o] = WorkerOf[s] /\ session[o].mine = j

\* A job whose start was committed stays started under its worker until its own
\* handler ends it, or someone takes it: a return of unstarted jobs that read the
\* row before the start does not undo it.
StartIsNotUndone ==
    \A s \in WorkerSessions :
        session[s].live =>
            \/ session[s].mine \in taken
            \/ OwnedBy(s, jobs[session[s].mine]) /\ jobs[session[s].mine].started

\* No interleaving of transactions leaves two active jobs with one dedupe key.
OneActivePerKey ==
    \A i, j \in Jobs : \A key \in Keys : HasKey(jobs[i], key) /\ HasKey(jobs[j], key) => i = j

\* An enqueue that reports a duplicate names a job that was committed.
DuplicateExists ==
    \A p \in Producers : answer[p].kind = "deduplicated" =>
        Latest(p, answer[p].job).status # "unused"

\* What transactions do to the queue: types, effects that match completions,
\* starts that are not undone and one active job per key.
TransactionsAreSound ==
    /\ TransactionsTypeOK
    /\ EffectsMatchCompletions
    /\ StartIsNotUndone
    /\ OneActivePerKey

\* What transactions are told: not running only of a job that is lost for good,
\* a duplicate only of a job that exists.
AnswersAreTrue == NotRunningIsFinal /\ DuplicateExists
=============================================================================
