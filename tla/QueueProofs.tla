----------------------------- MODULE QueueProofs -----------------------------
(***************************************************************************)
(* Proofs about the queue: QueueStore's tables, QueueWorker's workers on   *)
(* top of them, and QueueTransactions' calls inside transactions.          *)
(*                                                                         *)
(* RowOK is what each row keeps to itself, StoreInv what the rows keep     *)
(* among them whoever writes.  Every started row of a worker has a task    *)
(* that will answer for it (WorkerInv), so a worker that stops without an  *)
(* error leaves none behind.  With one slot to a worker, a task also keeps *)
(* its row to itself (HandlerInv).                                         *)
(***************************************************************************)
EXTENDS QueueWorker, QueueTransactions, TLAPS

\* One row: its columns agree with its status, and its retries are in budget while it may run again.
RowOK(row) ==
    /\ row \in JobRow
    /\ row.status = "running" <=> row.worker # NoWorker
    /\ (row.started \/ row.stale) => row.status = "running"
    /\ row.status \in {"pending", "running"} => row.retry <= MaxRetries

Active(row) == row.status \in {"pending", "running"}

\* What a claim that errored has locked is pending, and locked for one worker.
HeldInv ==
    /\ \A w \in Workers : \A j \in held[w] : jobs[j].status = "pending"
    /\ \A v, w \in Workers : v # w => held[v] \intersect held[w] = {}

\* The partial unique index over pending and running rows.
OneActive == \A i, j \in Jobs : (i # j /\ Active(jobs[i]) /\ Active(jobs[j]) /\ jobs[i].key # NoKey) => jobs[i].key # jobs[j].key

\* The tables.
StoreInv ==
    /\ jobs \in [Jobs -> JobRow] /\ (\A j \in Jobs : RowOK(jobs[j]))
    /\ paused \subseteq PauseKeys /\ held \in [Workers -> SUBSET Jobs] /\ taken \subseteq Jobs
    /\ HeldInv /\ OneActive

-----------------------------------------------------------------------------
(***************************************************************************)
(* Rows.                                                                   *)
(***************************************************************************)
Statuses == {"unused", "pending", "running", "completed", "failed", "dead", "gone"}

Retries == 0 .. MaxRetries + 1

\* The bounds of the retry count.
LEMMA RetryBounds ==
    /\ MaxRetries \in Nat /\ 0 \in Retries /\ 0 <= MaxRetries
    /\ \A n \in Retries : n \in Nat /\ (n <= MaxRetries => n + 1 \in Retries)
  BY MaxRetriesAssumption DEF Retries

\* A row with its worker columns cleared.
LEMMA ClearedRow ==
    ASSUME NEW row \in JobRow, NEW status \in Statuses \ {"running"}
    PROVE  /\ ClearRuntime(row, status) \in JobRow
           /\ ClearRuntime(row, status).status = status /\ ClearRuntime(row, status).worker = NoWorker
           /\ ~ClearRuntime(row, status).started /\ ~ClearRuntime(row, status).stale
           /\ ClearRuntime(row, status).key = row.key /\ ClearRuntime(row, status).retry = row.retry
  BY DEF JobRow, ClearRuntime, Statuses, Retries

\* A row that also gets a new retry count.
LEMMA RecountedRow ==
    ASSUME NEW row \in JobRow, NEW n \in Retries
    PROVE  /\ [row EXCEPT !.retry = n] \in JobRow /\ [row EXCEPT !.retry = n].retry = n
           /\ [row EXCEPT !.retry = n].status = row.status /\ [row EXCEPT !.retry = n].worker = row.worker
           /\ [row EXCEPT !.retry = n].started = row.started /\ [row EXCEPT !.retry = n].stale = row.stale
           /\ [row EXCEPT !.retry = n].key = row.key
  BY DEF JobRow, Retries

\* Both at once.
LEMMA ReturnedRow ==
    ASSUME NEW row \in JobRow, NEW status \in Statuses \ {"running"}, NEW n \in Retries,
           status = "pending" => n <= MaxRetries
    PROVE  /\ RowOK([ClearRuntime(row, status) EXCEPT !.retry = n])
           /\ [ClearRuntime(row, status) EXCEPT !.retry = n].status = status
           /\ [ClearRuntime(row, status) EXCEPT !.retry = n].key = row.key
           /\ status # "pending" => ~Active([ClearRuntime(row, status) EXCEPT !.retry = n])
  <1> DEFINE cleared == ClearRuntime(row, status)
  <1>1. /\ cleared \in JobRow /\ cleared.status = status /\ cleared.worker = NoWorker
        /\ ~cleared.started /\ ~cleared.stale /\ cleared.key = row.key
    BY ClearedRow
  <1>2. status # "running"
    OBVIOUS
  <1> HIDE DEF cleared
  <1>3. /\ RowOK([cleared EXCEPT !.retry = n]) /\ [cleared EXCEPT !.retry = n].status = status
        /\ [cleared EXCEPT !.retry = n].key = row.key
        /\ status # "pending" => ~Active([cleared EXCEPT !.retry = n])
    BY <1>1, <1>2, RecountedRow DEF RowOK, Active
  <1> QED
    BY <1>3 DEF cleared

\* Rows that are not there.
LEMMA AbsentRows ==
    RowOK(UnusedRow) /\ ~Active(UnusedRow) /\ RowOK(DeletedRow) /\ ~Active(DeletedRow)
  BY NullAssumption, RetryBounds DEF UnusedRow, DeletedRow, RowOK, JobRow, Active, Retries

\* A row that is enqueued.
LEMMA NewRowOK ==
    ASSUME NEW key \in Keys \union {NoKey}
    PROVE  RowOK(NewRow(key)) /\ NewRow(key).key = key /\ NewRow(key).status = "pending" /\ ~NewRow(key).started
  BY NullAssumption, RetryBounds DEF NewRow, UnusedRow, RowOK, JobRow, Retries

\* A row that is claimed.
LEMMA ClaimedRowOK ==
    ASSUME NEW row \in JobRow, NEW w \in Workers, RowOK(row), row.status = "pending"
    PROVE  /\ RowOK(ClaimedRow(row, w)) /\ ClaimedRow(row, w).key = row.key
           /\ ClaimedRow(row, w).status = "running" /\ ClaimedRow(row, w).worker = w /\ ~ClaimedRow(row, w).started
  BY NullAssumption, RetryBounds DEF ClaimedRow, RowOK, JobRow

\* A row that runs on: started, touched, gone stale.
LEMMA RunningRowOK ==
    ASSUME NEW row \in JobRow, RowOK(row), row.status = "running"
    PROVE  /\ RowOK(StartedRow(row)) /\ StartedRow(row).key = row.key /\ StartedRow(row).started
           /\ StartedRow(row).status = "running" /\ StartedRow(row).worker = row.worker
           /\ RowOK(TouchedRow(row)) /\ TouchedRow(row).key = row.key /\ TouchedRow(row).started = row.started
           /\ TouchedRow(row).status = "running" /\ TouchedRow(row).worker = row.worker
           /\ RowOK([row EXCEPT !.stale = TRUE]) /\ [row EXCEPT !.stale = TRUE].key = row.key
           /\ [row EXCEPT !.stale = TRUE].status = "running" /\ [row EXCEPT !.stale = TRUE].worker = row.worker
           /\ [row EXCEPT !.stale = TRUE].started = row.started
  <1>1. /\ RowOK(StartedRow(row)) /\ StartedRow(row).key = row.key /\ StartedRow(row).started
        /\ StartedRow(row).status = "running" /\ StartedRow(row).worker = row.worker
    BY DEF StartedRow, RowOK, JobRow
  <1>2. /\ RowOK(TouchedRow(row)) /\ TouchedRow(row).key = row.key /\ TouchedRow(row).started = row.started
        /\ TouchedRow(row).status = "running" /\ TouchedRow(row).worker = row.worker
    BY DEF TouchedRow, RowOK, JobRow
  <1>3. /\ RowOK([row EXCEPT !.stale = TRUE]) /\ [row EXCEPT !.stale = TRUE].key = row.key
        /\ [row EXCEPT !.stale = TRUE].status = "running" /\ [row EXCEPT !.stale = TRUE].worker = row.worker
        /\ [row EXCEPT !.stale = TRUE].started = row.started
    BY DEF RowOK, JobRow
  <1> QED
    BY <1>1, <1>2, <1>3

\* A row that is handed back, finished, or given up.
LEMMA EndedRows ==
    ASSUME NEW row \in JobRow, RowOK(row), NEW n \in Retries, n <= MaxRetries, NEW increment \in BOOLEAN,
           increment => row.retry <= MaxRetries
    PROVE  /\ RowOK(CompletedRow(row)) /\ ~Active(CompletedRow(row))
           /\ RowOK(ScheduledRetryRow(row, n)) /\ ScheduledRetryRow(row, n).status = "pending"
           /\ ScheduledRetryRow(row, n).key = row.key
           /\ RowOK(RetryFailedRow(row)) /\ RetryFailedRow(row).status = "pending" /\ RetryFailedRow(row).key = row.key
           /\ RowOK(FailedRow(row, increment)) /\ ~Active(FailedRow(row, increment))
           /\ RowOK(DeadLetterRow(row, increment)) /\ ~Active(DeadLetterRow(row, increment))
           /\ row.retry <= MaxRetries =>
                 RowOK(ReturnToPending(row)) /\ ReturnToPending(row).status = "pending" /\ ReturnToPending(row).key = row.key
  <1>0. /\ Increment(row, increment) \in Retries /\ 0 \in Retries /\ row.retry \in Retries /\ 0 <= MaxRetries
        /\ {"completed", "pending", "failed", "dead"} \subseteq Statuses \ {"running"}
    BY RetryBounds DEF Increment, JobRow, Retries, Statuses
  <1>1. CompletedRow(row) = ClearRuntime(row, "completed") /\ ReturnToPending(row) = ClearRuntime(row, "pending")
    BY DEF CompletedRow, ReturnToPending
  <1>8. ASSUME NEW status \in {"completed", "pending"}
        PROVE  /\ ClearRuntime(row, status) \in JobRow
               /\ ClearRuntime(row, status).status = status /\ ClearRuntime(row, status).worker = NoWorker
               /\ ~ClearRuntime(row, status).started /\ ~ClearRuntime(row, status).stale
               /\ ClearRuntime(row, status).key = row.key /\ ClearRuntime(row, status).retry = row.retry
    <2>1. status \in Statuses \ {"running"}
      BY <1>0
    <2> QED
      BY <2>1, ClearedRow
  <1>2. RowOK(CompletedRow(row)) /\ ~Active(CompletedRow(row))
    BY <1>1, <1>8 DEF RowOK, Active
  <1>3. row.retry <= MaxRetries =>
           RowOK(ReturnToPending(row)) /\ ReturnToPending(row).status = "pending" /\ ReturnToPending(row).key = row.key
    BY <1>1, <1>8 DEF RowOK
  <1>4. /\ RowOK(ScheduledRetryRow(row, n)) /\ ScheduledRetryRow(row, n).status = "pending"
        /\ ScheduledRetryRow(row, n).key = row.key
    BY <1>0, ReturnedRow DEF ScheduledRetryRow
  <1>5. RowOK(RetryFailedRow(row)) /\ RetryFailedRow(row).status = "pending" /\ RetryFailedRow(row).key = row.key
    BY <1>0, ReturnedRow DEF RetryFailedRow
  <1>6. RowOK(FailedRow(row, increment)) /\ ~Active(FailedRow(row, increment))
    BY <1>0, ReturnedRow DEF FailedRow
  <1>7. RowOK(DeadLetterRow(row, increment)) /\ ~Active(DeadLetterRow(row, increment))
    BY <1>0, ReturnedRow DEF DeadLetterRow
  <1> QED
    BY <1>2, <1>3, <1>4, <1>5, <1>6, <1>7

\* A row that reclaim takes from a worker gone silent.
LEMMA ReclaimedRowOK ==
    ASSUME NEW row \in JobRow, RowOK(row), row.status = "running", NEW dead \in BOOLEAN
    PROVE  /\ RowOK(ReclaimedRow(row, dead)) /\ ReclaimedRow(row, dead).status # "running"
           /\ Active(ReclaimedRow(row, dead)) => ReclaimedRow(row, dead).key = row.key
  <1>0. row.retry \in Retries /\ row.retry <= MaxRetries /\ MaxRetries \in Nat /\ 0 \in Retries /\ 0 <= MaxRetries
    BY RetryBounds DEF RowOK, JobRow, Retries
  <1>1. CASE ~row.started
    BY <1>0, <1>1, EndedRows DEF ReclaimedRow
  <1>2. CASE row.started /\ row.retry < MaxRetries
    <2>1. row.retry + 1 \in Retries /\ row.retry + 1 <= MaxRetries
      BY <1>0, <1>2 DEF Retries
    <2>2. "pending" \in Statuses \ {"running"}
      BY DEF Statuses
    <2> QED
      BY <1>2, <2>1, <2>2, ReturnedRow DEF ReclaimedRow
  <1>3. CASE row.started /\ ~(row.retry < MaxRetries)
    <2>1. ReclaimedRow(row, dead) = DeadLetterRow(row, TRUE) \/ ReclaimedRow(row, dead) = FailedRow(row, TRUE)
      BY <1>3 DEF ReclaimedRow
    <2>2. /\ RowOK(FailedRow(row, TRUE)) /\ ~Active(FailedRow(row, TRUE))
          /\ RowOK(DeadLetterRow(row, TRUE)) /\ ~Active(DeadLetterRow(row, TRUE))
      BY <1>0, EndedRows
    <2> QED
      BY <2>1, <2>2 DEF Active
  <1> QED
    BY <1>1, <1>2, <1>3

-----------------------------------------------------------------------------
(***************************************************************************)
(* The tables: producers, operators, reclaim, time.                        *)
(***************************************************************************)

\* A worker gains nothing: no row, and no start of a row.
NoGain ==
    \A w \in Workers, j \in Jobs :
        Owns(w, j)' => Owns(w, j) /\ (jobs'[j].started => jobs[j].started)

\* Started rows are taken from their workers on the record only.
NoTaking ==
    \A w \in Workers, j \in Jobs :
        (Owns(w, j) /\ jobs[j].started) => j \in taken' \/ (Owns(w, j)' /\ jobs'[j].started)

\* What every call that is not a worker's keeps.
CallKeeps == StoreInv' /\ held' = held /\ taken \subseteq taken' /\ NoGain /\ NoTaking

\* A row in a claim that errored is pending; no other is locked.
LEMMA HeldArePending ==
    ASSUME StoreInv, NEW j \in Jobs
    PROVE  /\ jobs[j] \in JobRow /\ RowOK(jobs[j])
           /\ jobs[j].status # "pending" => \A w \in Workers : j \notin held[w]
           /\ \A w \in Workers : jobs[j].worker = w => jobs[j].status = "running"
  BY NullAssumption DEF StoreInv, HeldInv, RowOK

\* Rows S are written: active rows keep their keys, and rows that become active have free ones.
LEMMA StoreStep ==
    ASSUME StoreInv, HeldInv', held' \in [Workers -> SUBSET Jobs], paused' \subseteq PauseKeys, taken' \subseteq Jobs,
           NEW S \in SUBSET Jobs, jobs' = [j \in Jobs |-> jobs'[j]],
           \A j \in Jobs \ S : jobs'[j] = jobs[j],
           \A j \in S : RowOK(jobs'[j]),
           \A j \in S : \/ ~Active(jobs'[j])
                        \/ Active(jobs[j]) /\ jobs'[j].key = jobs[j].key
                        \/ jobs'[j].key = NoKey
                        \/ /\ jobs'[j].key \notin ActiveKeys
                           /\ \A i \in S : i # j => ~Active(jobs'[i]) \/ jobs'[i].key # jobs'[j].key
    PROVE  StoreInv'
  <1>0. /\ jobs \in [Jobs -> JobRow] /\ (\A j \in Jobs : RowOK(jobs[j])) /\ OneActive
    BY DEF StoreInv
  <1>1. \A j \in Jobs : RowOK(jobs'[j])
    BY <1>0
  <1>2. jobs' \in [Jobs -> JobRow]
    BY <1>1 DEF RowOK
  <1>3. \A j \in Jobs : Active(jobs[j]) => jobs[j].key \in ActiveKeys
    BY DEF Active, ActiveKeys, InStatus
  <1>4. OneActive'
    <2> SUFFICES ASSUME NEW i \in Jobs, NEW j \in Jobs, i # j, Active(jobs'[i]), Active(jobs'[j]),
                        jobs'[i].key # NoKey, jobs'[i].key = jobs'[j].key
                 PROVE  FALSE
      BY DEF OneActive
    <2>1. ASSUME NEW x \in Jobs, Active(jobs'[x]), jobs'[x].key # NoKey
          PROVE  \/ Active(jobs[x]) /\ jobs'[x].key = jobs[x].key
                 \/ /\ x \in S /\ jobs'[x].key \notin ActiveKeys
                    /\ \A y \in S : y # x => ~Active(jobs'[y]) \/ jobs'[y].key # jobs'[x].key
      BY <2>1
    <2>2. CASE (Active(jobs[i]) /\ jobs'[i].key = jobs[i].key) /\ (Active(jobs[j]) /\ jobs'[j].key = jobs[j].key)
      BY <1>0, <2>2 DEF OneActive
    <2>3. CASE ~(Active(jobs[i]) /\ jobs'[i].key = jobs[i].key)
      <3>1. /\ i \in S /\ jobs'[i].key \notin ActiveKeys
            /\ \A y \in S : y # i => ~Active(jobs'[y]) \/ jobs'[y].key # jobs'[i].key
        BY <2>1, <2>3
      <3>2. j \notin S
        BY <3>1
      <3> QED
        BY <1>3, <3>1, <3>2
    <2>4. CASE ~(Active(jobs[j]) /\ jobs'[j].key = jobs[j].key)
      <3>1. /\ j \in S /\ jobs'[j].key \notin ActiveKeys
            /\ \A y \in S : y # j => ~Active(jobs'[y]) \/ jobs'[y].key # jobs'[j].key
        BY <2>1, <2>4
      <3>2. i \notin S
        BY <3>1
      <3> QED
        BY <1>3, <3>1, <3>2
    <2> QED
      BY <2>2, <2>3, <2>4
  <1> QED
    BY <1>1, <1>2, <1>4 DEF StoreInv

\* A call, not of a worker, that writes rows no claim has locked.
LEMMA CallStep ==
    ASSUME StoreInv, held' = held, paused' \subseteq PauseKeys, taken \subseteq taken', taken' \subseteq Jobs,
           NEW S \in SUBSET Jobs, jobs' = [j \in Jobs |-> jobs'[j]],
           \A j \in Jobs \ S : jobs'[j] = jobs[j],
           \A j \in S : RowOK(jobs'[j]) /\ \A w \in Workers : j \notin held[w],
           \A j \in S : \/ ~Active(jobs'[j])
                        \/ Active(jobs[j]) /\ jobs'[j].key = jobs[j].key
                        \/ jobs'[j].key = NoKey
                        \/ /\ jobs'[j].key \notin ActiveKeys
                           /\ \A i \in S : i # j => ~Active(jobs'[i]) \/ jobs'[i].key # jobs'[j].key,
           \A j \in S : jobs'[j].status = "running" =>
              /\ jobs[j].status = "running" /\ jobs'[j].worker = jobs[j].worker /\ jobs'[j].started = jobs[j].started,
           \A j \in S : (jobs[j].started /\ jobs'[j].status # "running") => j \in taken'
    PROVE  CallKeeps
  <1>0. HeldInv /\ held \in [Workers -> SUBSET Jobs]
    BY DEF StoreInv
  <1>1. HeldInv'
    <2>1. ASSUME NEW w \in Workers, NEW j \in held[w]
          PROVE  jobs'[j].status = "pending"
      <3>1. j \in Jobs /\ j \notin S
        BY <1>0
      <3> QED
        BY <1>0, <3>1 DEF HeldInv
    <2> QED
      BY <1>0, <2>1 DEF HeldInv
  <1>2. StoreInv'
    BY <1>0, <1>1, StoreStep
  <1>3. NoGain
    <2> SUFFICES ASSUME NEW w \in Workers, NEW j \in Jobs, jobs'[j].status = "running", jobs'[j].worker = w
                 PROVE  jobs[j].status = "running" /\ jobs[j].worker = w /\ (jobs'[j].started => jobs[j].started)
      BY DEF NoGain, Owns
    <2> QED
      OBVIOUS
  <1>4. NoTaking
    <2> SUFFICES ASSUME NEW w \in Workers, NEW j \in Jobs, jobs[j].status = "running", jobs[j].worker = w, jobs[j].started
                 PROVE  j \in taken' \/ (jobs'[j].status = "running" /\ jobs'[j].worker = w /\ jobs'[j].started)
      BY DEF NoTaking, Owns
    <2> QED
      OBVIOUS
  <1> QED
    BY <1>2, <1>3, <1>4 DEF CallKeeps

\* A call that writes one row.
LEMMA OneRowStep ==
    ASSUME StoreInv, held' = held, paused' \subseteq PauseKeys, taken \subseteq taken', taken' \subseteq Jobs,
           NEW j \in Jobs, NEW row, jobs' = [jobs EXCEPT ![j] = row],
           RowOK(row), \A w \in Workers : j \notin held[w],
           \/ ~Active(row)
           \/ Active(jobs[j]) /\ row.key = jobs[j].key
           \/ row.key = NoKey
           \/ row.key \notin ActiveKeys,
           row.status = "running" =>
              jobs[j].status = "running" /\ row.worker = jobs[j].worker /\ row.started = jobs[j].started,
           (jobs[j].started /\ row.status # "running") => j \in taken'
    PROVE  CallKeeps
  <1> DEFINE S == {j}
  <1>1. /\ jobs' = [i \in Jobs |-> jobs'[i]] /\ jobs'[j] = row
        /\ \A i \in Jobs \ S : jobs'[i] = jobs[i]
    BY DEF StoreInv
  <1>2. S \in SUBSET Jobs /\ \A i \in S : i = j /\ jobs'[i] = row
    BY <1>1
  <1>3. \A i \in S : RowOK(jobs'[i]) /\ \A w \in Workers : i \notin held[w]
    BY <1>2
  <1>4. \A i \in S : \/ ~Active(jobs'[i])
                     \/ Active(jobs[i]) /\ jobs'[i].key = jobs[i].key
                     \/ jobs'[i].key = NoKey
                     \/ /\ jobs'[i].key \notin ActiveKeys
                        /\ \A h \in S : h # i => ~Active(jobs'[h]) \/ jobs'[h].key # jobs'[i].key
    BY <1>2
  <1>5. \A i \in S : jobs'[i].status = "running" =>
              /\ jobs[i].status = "running" /\ jobs'[i].worker = jobs[i].worker /\ jobs'[i].started = jobs[i].started
    BY <1>2
  <1>6. \A i \in S : (jobs[i].started /\ jobs'[i].status # "running") => i \in taken'
    BY <1>2
  <1> HIDE DEF S
  <1> QED
    BY <1>1, <1>2, <1>3, <1>4, <1>5, <1>6, CallStep

\* Jobs are enqueued.
LEMMA EnqueueAloneKeeps ==
    ASSUME StoreInv, NEW S \in SUBSET Jobs, Enqueue(S)
    PROVE  CallKeeps
  <1>0. jobs \in [Jobs -> JobRow] /\ paused \subseteq PauseKeys /\ taken \subseteq Jobs
    BY DEF StoreInv
  <1>1. /\ \A i \in Jobs : jobs'[i] = IF i \in S THEN NewRow(NoKey) ELSE jobs[i]
        /\ jobs' = [i \in Jobs |-> jobs'[i]] /\ UNCHANGED <<paused, held, taken>>
    BY DEF Enqueue, Update
  <1>2. RowOK(NewRow(NoKey)) /\ NewRow(NoKey).key = NoKey /\ NewRow(NoKey).status = "pending"
    <2>1. NoKey \in Keys \union {NoKey}
      OBVIOUS
    <2> QED
      BY <2>1, NewRowOK
  <1>3. ASSUME NEW i \in S
        PROVE  ~jobs[i].started /\ (\A w \in Workers : i \notin held[w])
    <2>1. i \in Jobs /\ jobs[i].status = "unused"
      BY DEF Enqueue, InStatus
    <2> QED
      BY <2>1, HeldArePending DEF RowOK
  <1> QED
    BY <1>0, <1>1, <1>2, <1>3, CallStep

\* A job is enqueued under a dedupe key.
LEMMA DedupedKeeps ==
    ASSUME StoreInv, NEW j \in Jobs, NEW key \in Keys, EnqueueDeduped(j, key)
    PROVE  CallKeeps
  <1>0. jobs \in [Jobs -> JobRow] /\ paused \subseteq PauseKeys /\ taken \subseteq Jobs
    BY DEF StoreInv
  <1>1. /\ jobs' = [jobs EXCEPT ![j] = NewRow(key)] /\ UNCHANGED <<paused, held, taken>>
        /\ jobs[j].status = "unused" /\ (key = NoKey \/ key \notin ActiveKeys)
    BY <1>0 DEF EnqueueDeduped, InStatus, NoDedupeConflict
  <1>2. RowOK(NewRow(key)) /\ NewRow(key).key = key /\ NewRow(key).status = "pending"
    BY NewRowOK
  <1>3. ~jobs[j].started /\ (\A w \in Workers : j \notin held[w])
    BY <1>1, HeldArePending DEF RowOK
  <1> QED
    BY <1>0, <1>1, <1>2, <1>3, OneRowStep

\* A pending job is cancelled.
LEMMA CancelKeeps ==
    ASSUME StoreInv, NEW j \in Jobs, CancelPendingJob(j)
    PROVE  CallKeeps
  <1>0. jobs \in [Jobs -> JobRow] /\ paused \subseteq PauseKeys /\ taken \subseteq Jobs
    BY DEF StoreInv
  <1>1. /\ jobs' = [jobs EXCEPT ![j] = DeletedRow] /\ UNCHANGED <<paused, held, taken>>
        /\ jobs[j].status = "pending" /\ (\A w \in Workers : j \notin held[w])
    BY <1>0 DEF CancelPendingJob, InStatus, Unlocked
  <1>2. RowOK(DeletedRow) /\ ~Active(DeletedRow) /\ ~jobs[j].started
    BY <1>1, HeldArePending, AbsentRows DEF RowOK
  <1>3. Active(DeletedRow) = FALSE /\ DeletedRow.status # "running"
    BY DEF DeletedRow, UnusedRow, Active
  <1> QED
    BY <1>0, <1>1, <1>2, <1>3, OneRowStep

\* A dead-letter job comes back under a new id.
LEMMA RequeueKeeps ==
    ASSUME StoreInv, NEW j \in Jobs, NEW id \in Jobs, RequeueDeadLetterJob(j, id)
    PROVE  CallKeeps
  <1>0. jobs \in [Jobs -> JobRow] /\ paused \subseteq PauseKeys /\ taken \subseteq Jobs
    BY DEF StoreInv
  <1>1. /\ jobs[j].status = "dead" /\ jobs[id].status = "unused" /\ j # id
        /\ jobs[j].key = NoKey \/ jobs[j].key \notin ActiveKeys
        /\ jobs' = [jobs EXCEPT ![j] = DeletedRow, ![id] = NewRow(jobs[j].key)]
        /\ UNCHANGED <<paused, held, taken>>
    BY DEF RequeueDeadLetterJob, InStatus, NoDedupeConflict
  <1>2. /\ \A i \in Jobs : jobs'[i] = IF i = j THEN DeletedRow ELSE IF i = id THEN NewRow(jobs[j].key) ELSE jobs[i]
        /\ jobs' = [i \in Jobs |-> jobs'[i]]
    BY <1>0, <1>1
  <1>3. RowOK(DeletedRow) /\ ~Active(DeletedRow) /\ ~jobs[j].started /\ ~jobs[id].started
    BY <1>1, HeldArePending, AbsentRows DEF RowOK
  <1>4. RowOK(NewRow(jobs[j].key)) /\ NewRow(jobs[j].key).key = jobs[j].key /\ NewRow(jobs[j].key).status = "pending"
    <2>1. jobs[j].key \in Keys \union {NoKey} /\ jobs[j] \in JobRow
      BY <1>0 DEF JobRow
    <2> QED
      BY <2>1, NewRowOK
  <1>5. \A w \in Workers : j \notin held[w] /\ id \notin held[w]
    BY <1>1, HeldArePending
  <1>6. PICK S1 \in SUBSET Jobs : S1 = {j, id}
    OBVIOUS
  <1>7. \A i \in Jobs \ S1 : jobs'[i] = jobs[i]
    BY <1>2, <1>6
  <1>8. /\ jobs'[j] = DeletedRow /\ ~Active(jobs'[j]) /\ jobs'[j].status # "running"
        /\ jobs'[id].key = jobs[j].key /\ jobs'[id].status = "pending" /\ RowOK(jobs'[id]) /\ RowOK(jobs'[j])
    BY <1>1, <1>2, <1>3, <1>4 DEF DeletedRow, UnusedRow
  <1>9. \A i \in S1 : RowOK(jobs'[i]) /\ ~jobs[i].started /\ jobs'[i].status # "running"
                      /\ \A w \in Workers : i \notin held[w]
    BY <1>3, <1>5, <1>6, <1>8
  <1>10. \A i \in S1 : \/ ~Active(jobs'[i])
                       \/ jobs'[i].key = NoKey
                       \/ /\ jobs'[i].key \notin ActiveKeys
                          /\ \A h \in S1 : h # i => ~Active(jobs'[h]) \/ jobs'[h].key # jobs'[i].key
    BY <1>1, <1>6, <1>8
  <1> QED
    BY <1>0, <1>1, <1>2, <1>7, <1>9, <1>10, CallStep

\* A row that has ended: no claim has locked it, no worker started it.
LEMMA EndedRow ==
    ASSUME StoreInv, NEW i \in Jobs, jobs[i].status \in {"completed", "failed", "dead"}
    PROVE  /\ jobs[i] \in JobRow /\ RowOK(jobs[i]) /\ ~jobs[i].started
           /\ \A w \in Workers : i \notin held[w]
  BY HeldArePending DEF RowOK

\* Failed jobs are retried.
LEMMA RetryKeeps ==
    ASSUME StoreInv, NEW S \in SUBSET Jobs, RetryFailedJobs(S)
    PROVE  CallKeeps
  <1>0. jobs \in [Jobs -> JobRow] /\ paused \subseteq PauseKeys /\ taken \subseteq Jobs
    BY DEF StoreInv
  <1>1. /\ \A i \in Jobs : jobs'[i] = IF i \in S THEN RetryFailedRow(jobs[i]) ELSE jobs[i]
        /\ jobs' = [i \in Jobs |-> jobs'[i]] /\ UNCHANGED <<paused, held, taken>>
    BY DEF RetryFailedJobs, Update
  <1>2. ASSUME NEW i \in S
        PROVE  /\ RowOK(RetryFailedRow(jobs[i])) /\ RetryFailedRow(jobs[i]).status = "pending"
               /\ RetryFailedRow(jobs[i]).key = jobs[i].key
               /\ ~jobs[i].started /\ (\A w \in Workers : i \notin held[w])
               /\ jobs[i].key = NoKey \/ jobs[i].key \notin ActiveKeys
    <2>1. jobs[i].status = "failed" /\ (jobs[i].key = NoKey \/ jobs[i].key \notin ActiveKeys)
      BY DEF RetryFailedJobs, InStatus, NoDedupeConflict
    <2> QED
      BY <2>1, EndedRow, EndedRows, RetryBounds
  <1>3. \A i, j \in S : (i # j /\ jobs[i].key # NoKey) => jobs[i].key # jobs[j].key
    BY DEF RetryFailedJobs, OnePerKey
  <1> QED
    BY <1>0, <1>1, <1>2, <1>3, CallStep

\* Failed jobs move to the dead-letter table.
LEMMA MoveFailedKeeps ==
    ASSUME StoreInv, NEW S \in SUBSET Jobs, MoveFailedJobsToDeadLetter(S)
    PROVE  CallKeeps
  <1>0. jobs \in [Jobs -> JobRow] /\ paused \subseteq PauseKeys /\ taken \subseteq Jobs
    BY DEF StoreInv
  <1>1. /\ \A i \in Jobs : jobs'[i] = IF i \in S THEN DeadLetterRow(jobs[i], FALSE) ELSE jobs[i]
        /\ jobs' = [i \in Jobs |-> jobs'[i]] /\ UNCHANGED <<paused, held, taken>>
    BY DEF MoveFailedJobsToDeadLetter, Update
  <1>2. ASSUME NEW i \in S
        PROVE  /\ RowOK(DeadLetterRow(jobs[i], FALSE)) /\ ~Active(DeadLetterRow(jobs[i], FALSE))
               /\ ~jobs[i].started /\ (\A w \in Workers : i \notin held[w])
    <2>1. jobs[i].status = "failed"
      BY DEF MoveFailedJobsToDeadLetter, InStatus
    <2> QED
      BY <2>1, EndedRow, EndedRows, RetryBounds
  <1> QED
    BY <1>0, <1>1, <1>2, CallStep DEF Active

\* Old jobs are deleted.
LEMMA CleanupDeletes ==
    ASSUME StoreInv, NEW S \in SUBSET Jobs, NEW status \in {"completed", "failed", "dead"}, Cleanup(S, status)
    PROVE  CallKeeps
  <1>0. jobs \in [Jobs -> JobRow] /\ paused \subseteq PauseKeys /\ taken \subseteq Jobs
    BY DEF StoreInv
  <1>1. /\ \A i \in Jobs : jobs'[i] = IF i \in S THEN DeletedRow ELSE jobs[i]
        /\ jobs' = [i \in Jobs |-> jobs'[i]] /\ UNCHANGED <<paused, held, taken>>
    BY DEF Cleanup, Update
  <1>2. ASSUME NEW i \in S
        PROVE  /\ RowOK(DeletedRow) /\ ~Active(DeletedRow)
               /\ ~jobs[i].started /\ (\A w \in Workers : i \notin held[w])
    <2>1. jobs[i].status \in {"completed", "failed", "dead"}
      BY DEF Cleanup, InStatus
    <2> QED
      BY <2>1, EndedRow, AbsentRows
  <1> QED
    BY <1>0, <1>1, <1>2, CallStep DEF Active

\* A queue or a task is paused or resumed.
LEMMA PauseKeeps ==
    ASSUME StoreInv, NEW p \in PauseKeys, Pause(p) \/ Resume(p)
    PROVE  CallKeeps
  <1>0. jobs \in [Jobs -> JobRow] /\ paused \subseteq PauseKeys /\ taken \subseteq Jobs
    BY DEF StoreInv
  <1>1. jobs' = jobs /\ held' = held /\ taken' = taken /\ paused' \subseteq PauseKeys
    BY <1>0 DEF Pause, Resume
  <1>2. {} \in SUBSET Jobs /\ jobs' = [i \in Jobs |-> jobs'[i]] /\ taken \subseteq taken' /\ taken' \subseteq Jobs
    BY <1>0, <1>1
  <1>3. \A i \in Jobs \ {} : jobs'[i] = jobs[i]
    BY <1>1
  <1> QED
    BY <1>1, <1>2, <1>3, CallStep

\* A row that runs: no claim has locked it, and its retries are in budget.
LEMMA RunningRow ==
    ASSUME StoreInv, NEW i \in Jobs, jobs[i].status = "running"
    PROVE  /\ jobs[i] \in JobRow /\ RowOK(jobs[i]) /\ jobs[i].retry <= MaxRetries
           /\ Active(jobs[i]) /\ \A w \in Workers : i \notin held[w]
  BY HeldArePending DEF RowOK, Active

\* A running job is taken from its worker.
LEMMA ForceKeeps ==
    ASSUME StoreInv, NEW j \in Jobs, ForceRequeueRunningJob(j)
    PROVE  CallKeeps /\ jobs'[j].status # "running"
  <1>0. jobs \in [Jobs -> JobRow] /\ paused \subseteq PauseKeys /\ taken \subseteq Jobs
    BY DEF StoreInv
  <1>1. /\ jobs[j].status = "running"
        /\ jobs' = [jobs EXCEPT ![j] = ReturnToPending(jobs[j])] /\ paused' = paused /\ held' = held
        /\ taken' = IF jobs[j].started THEN taken \union {j} ELSE taken
    BY <1>0 DEF ForceRequeueRunningJob, InStatus
  <1>2. /\ RowOK(ReturnToPending(jobs[j])) /\ ReturnToPending(jobs[j]).status = "pending"
        /\ ReturnToPending(jobs[j]).key = jobs[j].key
    BY RunningRow, <1>1, EndedRows, RetryBounds
  <1>3. Active(jobs[j]) /\ \A w \in Workers : j \notin held[w]
    BY RunningRow, <1>1
  <1> QED
    BY <1>0, <1>1, <1>2, <1>3, OneRowStep

\* A heartbeat grows old.
LEMMA StaleKeeps ==
    ASSUME StoreInv, NEW j \in Jobs, HeartbeatGoesStale(j)
    PROVE  CallKeeps
  <1>0. jobs \in [Jobs -> JobRow] /\ paused \subseteq PauseKeys /\ taken \subseteq Jobs
    BY DEF StoreInv
  <1>1. /\ jobs[j].status = "running" /\ jobs' = [jobs EXCEPT ![j].stale = TRUE]
        /\ paused' = paused /\ held' = held /\ taken' = taken
    BY <1>0 DEF HeartbeatGoesStale, InStatus
  <1>3. PICK row \in JobRow : row = [jobs[j] EXCEPT !.stale = TRUE]
    BY <1>0 DEF JobRow
  <1>4. /\ RowOK(row) /\ row.key = jobs[j].key /\ row.status = "running" /\ row.worker = jobs[j].worker
        /\ row.started = jobs[j].started
    BY RunningRow, <1>1, <1>3, RunningRowOK
  <1>5. Active(jobs[j]) /\ (\A w \in Workers : j \notin held[w]) /\ jobs' = [jobs EXCEPT ![j] = row]
    BY <1>0, RunningRow, <1>1, <1>3
  <1> QED
    BY <1>0, <1>1, <1>4, <1>5, OneRowStep

\* Stale jobs are reclaimed.
LEMMA ReclaimKeeps ==
    ASSUME StoreInv, NEW S \in SUBSET Jobs, NEW dead \in BOOLEAN, ReclaimStaleRunningJobs(S, dead)
    PROVE  CallKeeps /\ \A j \in S : jobs'[j].status # "running"
  <1>0. jobs \in [Jobs -> JobRow] /\ paused \subseteq PauseKeys /\ taken \subseteq Jobs
    BY DEF StoreInv
  <1>1. /\ \A i \in Jobs : jobs'[i] = IF i \in S THEN ReclaimedRow(jobs[i], dead) ELSE jobs[i]
        /\ jobs' = [i \in Jobs |-> jobs'[i]] /\ paused' = paused /\ held' = held
        /\ taken' = taken \union {i \in S : jobs[i].started}
    BY DEF ReclaimStaleRunningJobs, Update
  <1>2. ASSUME NEW i \in S
        PROVE  /\ RowOK(ReclaimedRow(jobs[i], dead)) /\ ReclaimedRow(jobs[i], dead).status # "running"
               /\ Active(ReclaimedRow(jobs[i], dead)) => ReclaimedRow(jobs[i], dead).key = jobs[i].key
               /\ Active(jobs[i]) /\ \A w \in Workers : i \notin held[w]
    <2>1. jobs[i].status = "running"
      BY DEF ReclaimStaleRunningJobs, InStatus
    <2> QED
      BY RunningRow, <2>1, ReclaimedRowOK
  <1> QED
    BY <1>0, <1>1, <1>2, CallStep

-----------------------------------------------------------------------------
(***************************************************************************)
(* The tables: what workers write.                                         *)
(***************************************************************************)

\* What every call of the worker w keeps: it writes no other worker's rows.
WriteKeeps(w) ==
    /\ StoreInv' /\ taken' = taken
    /\ \A v \in Workers \ {w}, j \in Jobs : (Owns(v, j) \/ Owns(v, j)') => jobs'[j] = jobs[j]

\* Rows that are pending, or run for w, are written; the keys of active ones stay.
LEMMA WriteStep ==
    ASSUME StoreInv, NEW w \in Workers, HeldInv', held' \in [Workers -> SUBSET Jobs], paused' = paused, taken' = taken,
           NEW S \in SUBSET Jobs, jobs' = [j \in Jobs |-> jobs'[j]],
           \A j \in Jobs \ S : jobs'[j] = jobs[j],
           \A j \in S : jobs[j].status = "pending" \/ Owns(w, j),
           \A j \in S : RowOK(jobs'[j]) /\ (~Active(jobs'[j]) \/ jobs'[j].key = jobs[j].key),
           \A j \in S : jobs'[j].status = "running" => jobs'[j].worker = w
    PROVE  WriteKeeps(w)
  <1>1. \A j \in S : Active(jobs[j])
    BY DEF Active, Owns
  <1>2. paused' \subseteq PauseKeys /\ taken' \subseteq Jobs
    BY DEF StoreInv
  <1>3. StoreInv'
    BY <1>1, <1>2, StoreStep
  <1>4. \A v \in Workers \ {w}, j \in Jobs : (Owns(v, j) \/ Owns(v, j)') => jobs'[j] = jobs[j]
    BY DEF Owns
  <1> QED
    BY <1>3, <1>4 DEF WriteKeeps

\* Rows that w gains are not started; those it had stay as they are.
GainsUnstarted(w) ==
    \A j \in Jobs : /\ Owns(w, j) => jobs'[j] = jobs[j]
                    /\ Owns(w, j)' => jobs'[j] = jobs[j] \/ ~jobs'[j].started

\* Rows that are claimed.
LEMMA RowsClaimed ==
    ASSUME StoreInv, NEW w \in Workers, HeldInv', held' \in [Workers -> SUBSET Jobs], paused' = paused, taken' = taken,
           NEW S \in SUBSET Jobs, jobs' = Update(S, LAMBDA row : ClaimedRow(row, w)),
           \A j \in S : jobs[j].status = "pending"
    PROVE  /\ WriteKeeps(w) /\ GainsUnstarted(w)
           /\ \A j \in Jobs : jobs'[j] = IF j \in S THEN ClaimedRow(jobs[j], w) ELSE jobs[j]
           /\ \A j \in S : Owns(w, j)' /\ ~jobs'[j].started
  <1>0. jobs \in [Jobs -> JobRow] /\ (\A j \in Jobs : RowOK(jobs[j]))
    BY DEF StoreInv
  <1>1. ASSUME NEW j \in S
        PROVE  /\ RowOK(ClaimedRow(jobs[j], w)) /\ ClaimedRow(jobs[j], w).key = jobs[j].key
               /\ ClaimedRow(jobs[j], w).status = "running" /\ ClaimedRow(jobs[j], w).worker = w
               /\ ~ClaimedRow(jobs[j], w).started /\ ~Owns(w, j)
    <2>1. jobs[j] \in JobRow /\ RowOK(jobs[j]) /\ jobs[j].status = "pending"
      BY <1>0
    <2> QED
      BY <2>1, ClaimedRowOK DEF Owns
  <1>2. /\ \A j \in Jobs : jobs'[j] = IF j \in S THEN ClaimedRow(jobs[j], w) ELSE jobs[j]
        /\ jobs' = [j \in Jobs |-> jobs'[j]]
    BY DEF Update
  <1>3. WriteKeeps(w)
    <2>1. \A j \in Jobs \ S : jobs'[j] = jobs[j]
      BY <1>2
    <2>2. \A j \in S : jobs[j].status = "pending" \/ Owns(w, j)
      OBVIOUS
    <2>3. \A j \in S : RowOK(jobs'[j]) /\ (~Active(jobs'[j]) \/ jobs'[j].key = jobs[j].key)
      BY <1>1, <1>2
    <2>4. \A j \in S : jobs'[j].status = "running" => jobs'[j].worker = w
      BY <1>1, <1>2
    <2> QED
      BY <1>2, <2>1, <2>2, <2>3, <2>4, WriteStep
  <1>4. GainsUnstarted(w)
    BY <1>1, <1>2 DEF GainsUnstarted
  <1> QED
    BY <1>1, <1>2, <1>3, <1>4 DEF Owns

\* Rows a claim may take.
LEMMA ClaimableRows ==
    ASSUME NEW j \in Claimable
    PROVE  j \in Jobs /\ jobs[j].status = "pending" /\ \A v \in Workers : j \notin held[v]
  BY DEF Claimable, InStatus, Unlocked

\* An acknowledged claim.
LEMMA ClaimJobsKeeps ==
    ASSUME StoreInv, NEW w \in Workers, NEW S \in SUBSET Jobs, ClaimJobs(w, S)
    PROVE  /\ WriteKeeps(w) /\ GainsUnstarted(w) /\ held' = held
           /\ \A j \in Jobs : jobs'[j] = jobs[j] \/ jobs[j].status = "pending"
           /\ \A j \in S : Owns(w, j)' /\ ~jobs'[j].started
  <1>0. held \in [Workers -> SUBSET Jobs] /\ HeldInv
    BY DEF StoreInv
  <1>1. /\ S \subseteq Claimable /\ paused' = paused /\ held' = held /\ taken' = taken
        /\ jobs' = Update(S, LAMBDA row : ClaimedRow(row, w))
    BY DEF ClaimJobs
  <1>2. \A j \in Jobs : jobs'[j] = IF j \in S THEN ClaimedRow(jobs[j], w) ELSE jobs[j]
    BY <1>1 DEF Update
  <1>3. \A j \in S : jobs[j].status = "pending" /\ \A v \in Workers : j \notin held[v]
    BY <1>1, ClaimableRows
  <1>4. HeldInv'
    <2>1. ASSUME NEW v \in Workers, NEW j \in held[v]
          PROVE  jobs'[j].status = "pending"
      BY <1>0, <1>2, <1>3 DEF HeldInv
    <2> QED
      BY <1>0, <1>1, <2>1 DEF HeldInv
  <1> QED
    BY <1>0, <1>1, <1>2, <1>3, <1>4, RowsClaimed

\* A claim that errored.
LEMMA UnacknowledgedKeeps ==
    ASSUME StoreInv, NEW w \in Workers, NEW S \in SUBSET Jobs, ClaimUnacknowledged(w, S)
    PROVE  WriteKeeps(w) /\ jobs' = jobs /\ \A v \in Workers \ {w} : held'[v] = held[v]
  <1>0. jobs \in [Jobs -> JobRow] /\ held \in [Workers -> SUBSET Jobs] /\ HeldInv
    BY DEF StoreInv
  <1>1. /\ S \subseteq Claimable /\ paused' = paused /\ jobs' = jobs /\ taken' = taken
        /\ held' \in [Workers -> SUBSET Jobs] /\ held'[w] = held[w] \union S
        /\ \A v \in Workers \ {w} : held'[v] = held[v]
    BY <1>0 DEF ClaimUnacknowledged
  <1>2. \A j \in S : jobs[j].status = "pending" /\ \A v \in Workers : j \notin held[v]
    BY <1>1, ClaimableRows
  <1>3. HeldInv'
    <2>1. \A v \in Workers : \A j \in held'[v] : jobs'[j].status = "pending"
      BY <1>0, <1>1, <1>2 DEF HeldInv
    <2>2. \A u, v \in Workers : u # v => held'[u] \intersect held'[v] = {}
      BY <1>0, <1>1, <1>2 DEF HeldInv
    <2> QED
      BY <2>1, <2>2 DEF HeldInv
  <1>4. PICK none \in SUBSET Jobs : none = {}
    OBVIOUS
  <1>5. jobs' = [j \in Jobs |-> jobs'[j]] /\ (\A j \in Jobs \ none : jobs'[j] = jobs[j])
    BY <1>0, <1>1
  <1>6. WriteKeeps(w)
    BY <1>1, <1>3, <1>4, <1>5, WriteStep
  <1> QED
    BY <1>1, <1>6

\* The server ends such a claim.
LEMMA LateClaimKeeps ==
    ASSUME StoreInv, NEW w \in Workers, NEW commits \in BOOLEAN, LateClaimEnds(w, commits)
    PROVE  /\ WriteKeeps(w) /\ GainsUnstarted(w) /\ held' \in [Workers -> SUBSET Jobs]
           /\ \A v \in Workers : held'[v] \subseteq held[v]
           /\ \A j \in Jobs : jobs'[j] = jobs[j] \/ (j \in held[w] /\ jobs[j].status = "pending")
  <1>0. jobs \in [Jobs -> JobRow] /\ held \in [Workers -> SUBSET Jobs] /\ HeldInv
    BY DEF StoreInv
  <1>1. /\ paused' = paused /\ taken' = taken /\ held' \in [Workers -> SUBSET Jobs] /\ held'[w] = {}
        /\ \A v \in Workers \ {w} : held'[v] = held[v]
        /\ jobs' = IF commits THEN Update(held[w], LAMBDA row : ClaimedRow(row, w)) ELSE jobs
    BY <1>0 DEF LateClaimEnds
  <1>2. PICK T \in SUBSET Jobs : T = IF commits THEN held[w] ELSE {}
    BY <1>0
  <1>3. jobs' = Update(T, LAMBDA row : ClaimedRow(row, w))
    BY <1>0, <1>1, <1>2 DEF Update
  <1>4. \A j \in T : jobs[j].status = "pending" /\ j \in held[w] /\ \A v \in Workers \ {w} : j \notin held[v]
    BY <1>0, <1>2 DEF HeldInv
  <1>5. \A j \in Jobs : jobs'[j] = IF j \in T THEN ClaimedRow(jobs[j], w) ELSE jobs[j]
    BY <1>3 DEF Update
  <1>6. HeldInv'
    <2>1. ASSUME NEW v \in Workers, NEW j \in held'[v]
          PROVE  jobs'[j].status = "pending"
      <3>1. v # w /\ j \in held[v] /\ j \in Jobs
        BY <1>0, <1>1
      <3> QED
        BY <1>0, <1>4, <1>5, <3>1 DEF HeldInv
    <2>2. \A u, v \in Workers : u # v => held'[u] \intersect held'[v] = {}
      BY <1>0, <1>1 DEF HeldInv
    <2> QED
      BY <2>1, <2>2 DEF HeldInv
  <1>7. WriteKeeps(w) /\ GainsUnstarted(w)
    BY <1>1, <1>3, <1>4, <1>6, RowsClaimed
  <1> QED
    BY <1>1, <1>4, <1>5, <1>7

\* A row of w is written by its task.
LEMMA OwnRowKeeps ==
    ASSUME StoreInv, NEW w \in Workers, NEW j \in Jobs, Owns(w, j), NEW row, RowOK(row),
           ~Active(row) \/ row.key = jobs[j].key, row.status = "running" => row.worker = w,
           jobs' = [jobs EXCEPT ![j] = row], paused' = paused, held' = held, taken' = taken
    PROVE  WriteKeeps(w)
  <1>0. jobs \in [Jobs -> JobRow] /\ held \in [Workers -> SUBSET Jobs] /\ HeldInv
    BY DEF StoreInv
  <1>1. PICK S \in SUBSET Jobs : S = {j}
    OBVIOUS
  <1>2. /\ jobs' = [i \in Jobs |-> jobs'[i]] /\ \A i \in Jobs \ S : jobs'[i] = jobs[i]
        /\ \A i \in S : i = j /\ jobs'[i] = row
    BY <1>0, <1>1
  <1>3. \A v \in Workers : j \notin held[v]
    BY <1>0 DEF HeldInv, Owns
  <1>4. HeldInv'
    <2>1. ASSUME NEW v \in Workers, NEW i \in held'[v]
          PROVE  jobs'[i].status = "pending"
      <3>1. i \in Jobs /\ i # j /\ i \in held[v]
        BY <1>0, <1>3
      <3> QED
        BY <1>0, <1>1, <1>2, <3>1 DEF HeldInv
    <2> QED
      BY <1>0, <2>1 DEF HeldInv
  <1>5. \A i \in S : Owns(w, i) /\ RowOK(jobs'[i]) /\ (~Active(jobs'[i]) \/ jobs'[i].key = jobs[i].key)
                     /\ (jobs'[i].status = "running" => jobs'[i].worker = w)
    BY <1>2
  <1> QED
    BY <1>0, <1>2, <1>4, <1>5, WriteStep

\* Rows of w are handed back.
LEMMA ReturnKeeps ==
    ASSUME StoreInv, NEW w \in Workers, NEW S \in SUBSET Jobs, \A j \in S : Owns(w, j), ReturnOwned(w, S)
    PROVE  WriteKeeps(w) /\ held' = held /\ \A j \in Jobs : Owns(w, j)' => Owns(w, j) /\ jobs'[j] = jobs[j]
  <1>0. /\ jobs \in [Jobs -> JobRow] /\ (\A j \in Jobs : RowOK(jobs[j])) /\ held \in [Workers -> SUBSET Jobs] /\ HeldInv
    BY DEF StoreInv
  <1>1. /\ \A j \in Jobs : jobs'[j] = IF j \in S THEN ReturnToPending(jobs[j]) ELSE jobs[j]
        /\ jobs' = [j \in Jobs |-> jobs'[j]] /\ paused' = paused /\ held' = held /\ taken' = taken
    BY DEF ReturnOwned, Update
  <1>2. ASSUME NEW j \in S
        PROVE  /\ RowOK(ReturnToPending(jobs[j])) /\ ReturnToPending(jobs[j]).status = "pending"
               /\ ReturnToPending(jobs[j]).key = jobs[j].key /\ \A v \in Workers : j \notin held[v]
    <2>1. jobs[j] \in JobRow /\ RowOK(jobs[j]) /\ jobs[j].status = "running" /\ jobs[j].retry <= MaxRetries
      BY <1>0 DEF Owns, RowOK
    <2> QED
      BY <1>0, <2>1, EndedRows, RetryBounds DEF HeldInv
  <1>3. HeldInv'
    <2>1. ASSUME NEW v \in Workers, NEW j \in held[v]
          PROVE  jobs'[j].status = "pending"
      BY <1>0, <1>1, <1>2 DEF HeldInv
    <2> QED
      BY <1>0, <1>1, <2>1 DEF HeldInv
  <1>4. WriteKeeps(w)
    BY <1>0, <1>1, <1>2, <1>3, WriteStep
  <1> QED
    BY <1>1, <1>2, <1>4 DEF Owns


-----------------------------------------------------------------------------
(***************************************************************************)
(* The workers.                                                            *)
(***************************************************************************)
\* A task is in the slot.
Busy(e) == exec[e].pc \notin {"free", "aborted"}

\* The task through which a worker's started row will be finished.
Answering(t) ==
    t.pc \in {"running", "finishing", "requeueing"} \/ (t.pc = "done" /\ t.result = "error")

AnswersFor(e, j) == exec[e].job = j /\ Answering(exec[e])

\* A busy slot holds a job, and its worker is in its loop (a once worker: in its only drain).
\* A handler without its task is one of a worker that has given up.
SlotInv(e) ==
    /\ Busy(e) => /\ exec[e].job \in Jobs
                  /\ worker[OwnerOf[e]] \in {"waiting", "claiming", "backoff", "draining"}
                  /\ OwnerOf[e] \in OnceWorkers => worker[OwnerOf[e]] = "draining"
    /\ exec[e].pc = "aborted" => worker[OwnerOf[e]] \in CleanupStates \union {"stopped"}

\* Each started row of a worker has a task that answers for it, unless the worker cleans up or fails.
WorkerInv(w) ==
    /\ w \in OnceWorkers => worker[w] \notin {"waiting", "backoff"}
    /\ \A j \in Jobs : (Owns(w, j) /\ jobs[j].started) =>
          \/ \E e \in Slots : OwnerOf[e] = w /\ AnswersFor(e, j)
          \/ worker[w] \in CleanupStates \union {"crashed"}
          \/ failed[w]

Typed ==
    /\ worker \in [Workers -> WorkerStates] /\ stopping \in [Workers -> BOOLEAN]
    /\ grace \in [Workers -> BOOLEAN] /\ failed \in [Workers -> BOOLEAN] /\ exec \in [Slots -> Execution]

\* The inductive invariant, however many slots a worker has.
QueueInv == StoreInv /\ Typed /\ (\A e \in Slots : SlotInv(e)) /\ (\A w \in Workers : WorkerInv(w))

OneSlot == \A d, e \in Slots : OwnerOf[d] = OwnerOf[e] => d = e

\* What holds as well of workers with one slot: a worker has no claim in doubt
\* of the job it runs; a handler's row is its own unless it was taken from it;
\* and a job taken from a task does not come back to it.
HandlerInv(e) ==
    /\ Busy(e) => worker[OwnerOf[e]] # "claiming" /\ exec[e].job \notin held[OwnerOf[e]]
    /\ exec[e].pc = "running" => exec[e].job \in taken \/ (OwnsJob(e) /\ jobs[exec[e].job].started)
    /\ (exec[e].pc = "done" /\ exec[e].displaced) => exec[e].result \in {"lost", "error"}
    /\ (exec[e].pc \notin {"free", "done", "aborted"} /\ exec[e].displaced) => ~OwnsJob(e)

SingleInv == \A e \in Slots : HandlerInv(e)

QueueKeeps == QueueInv' /\ ((OneSlot /\ SingleInv) => SingleInv')

\* Where the slots are.
LEMMA OwnerTyped ==
    OwnerOf \in [Slots -> Workers]
  BY WorkerAssumption

\* What the task of the slot e may do to the tables: write its own row, if it owns it.
TaskWrites(e) ==
    /\ WriteKeeps(OwnerOf[e]) /\ held' = held
    /\ \A j \in Jobs \ {exec[e].job} : jobs'[j] = jobs[j]
    /\ OwnsJob(e) \/ jobs' = jobs

\* A task moves on.
LEMMA TaskStep ==
    ASSUME QueueInv, NEW e \in Slots, NEW t \in Execution, exec' = [exec EXCEPT ![e] = t],
           UNCHANGED <<worker, stopping, grace, failed>>, TaskWrites(e), Busy(e), t.pc \notin {"free", "aborted"},
           t.job = exec[e].job, t.displaced = exec[e].displaced,
           (Owns(OwnerOf[e], t.job)' /\ jobs'[t.job].started) => Answering(t),
           (OneSlot /\ SingleInv) =>
              /\ t.pc = "running" => t.job \in taken \/ (Owns(OwnerOf[e], t.job)' /\ jobs'[t.job].started)
              /\ (t.pc = "done" /\ t.displaced) => t.result \in {"lost", "error"}
              /\ exec[e].pc # "done"
    PROVE  QueueKeeps
  <1>0. /\ StoreInv /\ Typed /\ (\A d \in Slots : SlotInv(d)) /\ (\A w \in Workers : WorkerInv(w))
        /\ OwnerOf \in [Slots -> Workers] /\ StoreInv' /\ taken' = taken /\ held' = held /\ jobs \in [Jobs -> JobRow]
    BY OwnerTyped DEF QueueInv, TaskWrites, WriteKeeps, StoreInv
  <1>1. /\ exec'[e] = t /\ \A d \in Slots : d # e => exec'[d] = exec[d]
        /\ worker' = worker /\ failed' = failed
    BY <1>0 DEF Typed
  <1>2. Typed'
    BY <1>0 DEF Typed
  <1>3. ASSUME NEW d \in Slots
        PROVE  SlotInv(d)'
    <2>1. SlotInv(d) /\ SlotInv(e)
      BY <1>0
    <2>2. CASE d = e
      BY <1>1, <2>1, <2>2 DEF SlotInv, Busy
    <2>3. CASE d # e
      BY <1>1, <2>1, <2>3 DEF SlotInv, Busy
    <2> QED
      BY <2>2, <2>3
  <1>4. ASSUME NEW v \in Workers, NEW j \in Jobs, Owns(v, j)', v # OwnerOf[e] \/ j # t.job
        PROVE  Owns(v, j) /\ jobs'[j] = jobs[j]
    BY <1>4 DEF TaskWrites, WriteKeeps, Owns
  <1>5. ASSUME NEW v \in Workers
        PROVE  WorkerInv(v)'
    <2>1. WorkerInv(v)
      BY <1>0
    <2>2. ASSUME NEW j \in Jobs, Owns(v, j)', jobs'[j].started, worker'[v] \notin CleanupStates \union {"crashed"}, ~failed'[v]
          PROVE  \E d \in Slots : OwnerOf[d] = v /\ AnswersFor(d, j)'
      <3>1. CASE v = OwnerOf[e] /\ j = t.job
        BY <1>1, <2>2, <3>1 DEF AnswersFor
      <3>2. CASE v # OwnerOf[e] \/ j # t.job
        <4>1. Owns(v, j) /\ jobs[j].started
          BY <1>4, <2>2, <3>2
        <4>2. PICK d \in Slots : OwnerOf[d] = v /\ AnswersFor(d, j)
          BY <1>1, <2>1, <2>2, <4>1 DEF WorkerInv
        <4>3. d # e
          BY <3>2, <4>2 DEF AnswersFor
        <4> QED
          BY <1>1, <4>2, <4>3 DEF AnswersFor
      <3> QED
        BY <3>1, <3>2
    <2> QED
      BY <1>1, <2>1, <2>2 DEF WorkerInv
  <1>6. ASSUME OneSlot, SingleInv, NEW d \in Slots
        PROVE  HandlerInv(d)'
    <2>0. HandlerInv(d) /\ HandlerInv(e)
      BY <1>6 DEF SingleInv
    <2>1. CASE d = e
      <3>1. Owns(OwnerOf[e], t.job)' => OwnsJob(e)
        BY <1>0, <1>3 DEF TaskWrites, OwnsJob, Owns, SlotInv
      <3>2. exec'[d] = t /\ t.pc \notin {"free", "aborted"} /\ exec[e].pc \notin {"free", "aborted"}
        BY <1>1, <2>1 DEF Busy
      <3>3. (Busy(d) => worker[OwnerOf[d]] # "claiming" /\ exec[d].job \notin held[OwnerOf[d]])'
        BY <1>0, <1>1, <2>0, <2>1, <3>2 DEF HandlerInv, Busy
      <3>4. (exec[d].pc = "running" => exec[d].job \in taken \/ (OwnsJob(d) /\ jobs[exec[d].job].started))'
        BY <1>0, <1>6, <2>1, <3>2 DEF OwnsJob
      <3>5. ((exec[d].pc = "done" /\ exec[d].displaced) => exec[d].result \in {"lost", "error"})'
        BY <1>6, <2>1, <3>2
      <3>6. ((exec[d].pc \notin {"free", "done", "aborted"} /\ exec[d].displaced) => ~OwnsJob(d))'
        <4>1. exec[e].pc \notin {"free", "done", "aborted"}
          BY <1>6, <3>2
        <4>2. t.displaced => ~OwnsJob(e)
          BY <2>0, <4>1 DEF HandlerInv
        <4> QED
          BY <2>1, <3>1, <3>2, <4>2 DEF OwnsJob
      <3> QED
        BY <3>3, <3>4, <3>5, <3>6 DEF HandlerInv
    <2>2. CASE d # e
      <3>1. exec'[d] = exec[d] /\ OwnerOf[d] # OwnerOf[e] /\ OwnerOf[d] \in Workers
        BY <1>0, <1>1, <1>6, <2>2 DEF OneSlot
      <3>2. Busy(d) => exec[d].job \in Jobs
        BY <1>0 DEF SlotInv
      <3>3. Busy(d) => \/ jobs'[exec[d].job] = jobs[exec[d].job]
                       \/ ~Owns(OwnerOf[d], exec[d].job) /\ ~Owns(OwnerOf[d], exec[d].job)'
        BY <3>1, <3>2 DEF TaskWrites, WriteKeeps
      <3>4. OwnsJob(d)' => Owns(OwnerOf[d], exec[d].job)'
        BY <3>1 DEF OwnsJob, Owns
      <3>5. (Busy(d) => worker[OwnerOf[d]] # "claiming" /\ exec[d].job \notin held[OwnerOf[d]])'
        BY <1>0, <1>1, <2>0, <3>1 DEF HandlerInv, Busy
      <3>6. (exec[d].pc = "running" => exec[d].job \in taken \/ (OwnsJob(d) /\ jobs[exec[d].job].started))'
        BY <1>0, <2>0, <3>1, <3>3 DEF HandlerInv, OwnsJob, Owns, Busy
      <3>7. ((exec[d].pc = "done" /\ exec[d].displaced) => exec[d].result \in {"lost", "error"})'
        BY <2>0, <3>1 DEF HandlerInv
      <3>8. ((exec[d].pc \notin {"free", "done", "aborted"} /\ exec[d].displaced) => ~OwnsJob(d))'
        BY <2>0, <3>1, <3>3 DEF HandlerInv, OwnsJob, Owns, Busy
      <3> QED
        BY <3>5, <3>6, <3>7, <3>8 DEF HandlerInv
    <2> QED
      BY <2>1, <2>2
  <1> QED
    BY <1>0, <1>2, <1>3, <1>5, <1>6 DEF QueueKeeps, QueueInv, SingleInv


\* A step of a task, as a new record for its slot.
LEMMA StepIs ==
    ASSUME Typed, NEW e \in Slots, NEW pc, NEW result, Step(e, pc, result),
           pc \in {"free", "spawned", "running", "finishing", "requeueing", "done"},
           result \in {"none", "ok", "retryable", "permanent", "exhausted", "applied", "lost", "error"}
    PROVE  /\ UNCHANGED <<worker, stopping, grace, failed>>
           /\ exec'[e].pc = pc /\ exec'[e].result = result
           /\ \E t \in Execution :
                 /\ exec' = [exec EXCEPT ![e] = t] /\ t.pc = pc /\ t.result = result
                 /\ t.job = exec[e].job /\ t.displaced = exec[e].displaced
  <1>1. exec \in [Slots -> Execution] /\ exec[e] \in Execution
    BY DEF Typed
  <1>2. PICK t \in Execution : t = [exec[e] EXCEPT !.pc = pc, !.result = result]
    BY <1>1 DEF Execution
  <1>3. t.pc = pc /\ t.result = result /\ t.job = exec[e].job /\ t.displaced = exec[e].displaced
    BY <1>1, <1>2 DEF Execution
  <1>4. exec' = [exec EXCEPT ![e] = t] /\ UNCHANGED <<worker, stopping, grace, failed>>
    BY <1>1, <1>2 DEF Step
  <1>5. exec'[e] = t
    BY <1>1, <1>4
  <1> QED
    BY <1>3, <1>4, <1>5

\* A task that leaves the tables alone.
LEMMA StoreUntouched ==
    ASSUME StoreInv, NEW e \in Slots, UNCHANGED storeVars
    PROVE  TaskWrites(e)
  <1>1. StoreInv' /\ jobs' = jobs /\ held' = held /\ taken' = taken /\ paused' = paused
    BY DEF storeVars, StoreInv, HeldInv, OneActive
  <1> QED
    BY <1>1 DEF TaskWrites, WriteKeeps, Owns

\* A task that writes its own row.
LEMMA RowWritten ==
    ASSUME QueueInv, NEW e \in Slots, Busy(e), OwnsJob(e), NEW row, SetRow(e, row), RowOK(row),
           ~Active(row) \/ row.key = jobs[exec[e].job].key, row.status = "running" => row.worker = OwnerOf[e]
    PROVE  TaskWrites(e) /\ jobs'[exec[e].job] = row /\ exec[e].job \in Jobs
  <1>1. StoreInv /\ OwnerOf[e] \in Workers /\ exec[e].job \in Jobs /\ Owns(OwnerOf[e], exec[e].job)
    BY OwnerTyped DEF QueueInv, SlotInv, OwnsJob
  <1>2. jobs \in [Jobs -> JobRow]
    BY <1>1 DEF StoreInv
  <1>3. /\ jobs' = [jobs EXCEPT ![exec[e].job] = row] /\ paused' = paused /\ held' = held /\ taken' = taken
    BY DEF SetRow
  <1>4. WriteKeeps(OwnerOf[e])
    BY <1>1, <1>3, OwnRowKeeps
  <1> QED
    BY <1>1, <1>2, <1>3, <1>4 DEF TaskWrites

\* The row a task owns: running, in the budget.
LEMMA OwnedRow ==
    ASSUME QueueInv, NEW e \in Slots, Busy(e), OwnsJob(e)
    PROVE  /\ exec[e].job \in Jobs /\ jobs[exec[e].job] \in JobRow /\ RowOK(jobs[exec[e].job])
           /\ jobs[exec[e].job].status = "running" /\ jobs[exec[e].job].worker = OwnerOf[e]
           /\ jobs[exec[e].job].retry <= MaxRetries
  <1>1. exec[e].job \in Jobs
    BY DEF QueueInv, SlotInv
  <1>2. jobs[exec[e].job] \in JobRow /\ RowOK(jobs[exec[e].job])
    BY <1>1 DEF QueueInv, StoreInv
  <1> QED
    BY <1>1, <1>2 DEF OwnsJob, Owns, RowOK

\* The row a finished task writes.
LEMMA FinalRowOK ==
    ASSUME QueueInv, NEW e \in Slots, Busy(e), OwnsJob(e)
    PROVE  /\ RowOK(FinalRow(e)) /\ (~Active(FinalRow(e)) \/ FinalRow(e).key = jobs[exec[e].job].key)
           /\ FinalRow(e).status # "running"
  <1>1. PICK row \in JobRow : row = jobs[exec[e].job]
    BY OwnedRow
  <1>2. RowOK(row) /\ row.retry <= MaxRetries
    BY <1>1, OwnedRow
  <1>3. exec[e].retry \in Retries
    BY DEF QueueInv, Typed, Execution, Retries
  <1>4. PICK increment \in BOOLEAN : increment = (exec[e].result = "retryable")
    OBVIOUS
  <1>5. /\ RowOK(CompletedRow(row)) /\ ~Active(CompletedRow(row))
        /\ RowOK(FailedRow(row, increment)) /\ ~Active(FailedRow(row, increment))
        /\ RowOK(DeadLetterRow(row, increment)) /\ ~Active(DeadLetterRow(row, increment))
    BY <1>2, RetryBounds, EndedRows
  <1>6. CASE exec[e].result = "ok"
    <2>1. FinalRow(e) = CompletedRow(row)
      BY <1>1, <1>6 DEF FinalRow
    <2> QED
      BY <1>5, <2>1 DEF Active
  <1>7. CASE exec[e].result = "retryable" /\ exec[e].retry + 1 <= MaxRetries
    <2>1. PICK n \in Retries : n = exec[e].retry + 1 /\ n <= MaxRetries
      BY <1>3, <1>7, RetryBounds DEF Retries
    <2>2. FinalRow(e) = ScheduledRetryRow(row, n)
      BY <1>1, <1>7, <2>1 DEF FinalRow
    <2>3. /\ RowOK(ScheduledRetryRow(row, n)) /\ ScheduledRetryRow(row, n).status = "pending"
          /\ ScheduledRetryRow(row, n).key = row.key
      BY <1>2, <2>1, RetryBounds, EndedRows
    <2> QED
      BY <1>1, <2>2, <2>3
  <1>8. CASE exec[e].result # "ok" /\ ~(exec[e].result = "retryable" /\ exec[e].retry + 1 <= MaxRetries)
    <2>1. FinalRow(e) = DeadLetterRow(row, increment) \/ FinalRow(e) = FailedRow(row, increment)
      BY <1>1, <1>4, <1>8 DEF FinalRow
    <2> QED
      BY <1>5, <2>1 DEF Active
  <1> QED
    BY <1>6, <1>7, <1>8

\* Rows a task may write while it runs, or to hand its job back.
LEMMA TaskRows ==
    ASSUME QueueInv, NEW e \in Slots, Busy(e), OwnsJob(e),
           NEW row \in {StartedRow(jobs[exec[e].job]), TouchedRow(jobs[exec[e].job]), ReturnToPending(jobs[exec[e].job]), FinalRow(e)},
           SetRow(e, row)
    PROVE  /\ TaskWrites(e) /\ jobs'[exec[e].job] = row /\ exec[e].job \in Jobs
           /\ row \in {StartedRow(jobs[exec[e].job]), TouchedRow(jobs[exec[e].job])} => row.status = "running" /\ row.worker = OwnerOf[e]
           /\ row = StartedRow(jobs[exec[e].job]) => row.started
           /\ row = TouchedRow(jobs[exec[e].job]) => (row.started => jobs[exec[e].job].started)
           /\ row = TouchedRow(jobs[exec[e].job]) => (jobs[exec[e].job].started => row.started)
           /\ row = ReturnToPending(jobs[exec[e].job]) => row.status = "pending"
           /\ row = FinalRow(e) => row.status # "running"
  <1>1. PICK old \in JobRow : old = jobs[exec[e].job]
    BY OwnedRow
  <1>2. RowOK(old) /\ old.retry <= MaxRetries /\ old.status = "running" /\ old.worker = OwnerOf[e]
    BY <1>1, OwnedRow
  <1>3. /\ RowOK(ReturnToPending(old)) /\ ReturnToPending(old).status = "pending" /\ ReturnToPending(old).key = old.key
    BY <1>2, RetryBounds, EndedRows
  <1>4. /\ RowOK(StartedRow(old)) /\ StartedRow(old).key = old.key /\ StartedRow(old).started
        /\ StartedRow(old).status = "running" /\ StartedRow(old).worker = old.worker
        /\ RowOK(TouchedRow(old)) /\ TouchedRow(old).key = old.key /\ TouchedRow(old).started = old.started
        /\ TouchedRow(old).status = "running" /\ TouchedRow(old).worker = old.worker
    BY <1>2, RunningRowOK
  <1>5. /\ RowOK(row) /\ (~Active(row) \/ row.key = jobs[exec[e].job].key)
        /\ row.status = "running" => row.worker = OwnerOf[e]
    BY <1>1, <1>2, <1>3, <1>4, FinalRowOK
  <1>6. TaskWrites(e) /\ jobs'[exec[e].job] = row /\ exec[e].job \in Jobs
    BY <1>5, RowWritten
  <1> QED
    BY <1>1, <1>2, <1>3, <1>4, <1>6, FinalRowOK


\* A task marks its row started, or learns that it may not.
LEMMA StartKeeps ==
    ASSUME QueueInv, NEW e \in Slots, MarkStarted(e) \/ MarkStartedLost(e) \/ MarkStartedErrs(e)
    PROVE  QueueKeeps
  <1>0. Typed /\ StoreInv /\ Busy(e) /\ exec[e].pc = "spawned" /\ (SingleInv => HandlerInv(e))
    BY DEF QueueInv, MarkStarted, MarkStartedLost, MarkStartedErrs, Busy, SingleInv
  <1>1. CASE MarkStarted(e) /\ exec[e].retry > MaxRetries
    <2>1. PICK t \in Execution : /\ exec' = [exec EXCEPT ![e] = t] /\ t.pc = "finishing" /\ t.result = "exhausted"
                                 /\ t.job = exec[e].job /\ t.displaced = exec[e].displaced
      BY <1>0, <1>1, StepIs DEF MarkStarted
    <2>2. UNCHANGED <<worker, stopping, grace, failed>> /\ TaskWrites(e)
      BY <1>0, <1>1, StoreUntouched DEF MarkStarted, Step
    <2> QED
      BY <1>0, <2>1, <2>2, TaskStep DEF Answering
  <1>2. CASE MarkStarted(e) /\ ~(exec[e].retry > MaxRetries)
    <2>1. PICK t \in Execution : /\ exec' = [exec EXCEPT ![e] = t] /\ t.pc = "running" /\ t.result = "none"
                                 /\ t.job = exec[e].job /\ t.displaced = exec[e].displaced
      BY <1>0, <1>2, StepIs DEF MarkStarted
    <2>2. UNCHANGED <<worker, stopping, grace, failed>> /\ OwnsJob(e) /\ SetRow(e, StartedRow(jobs[exec[e].job]))
      BY <1>2 DEF MarkStarted, Step
    <2>3. PICK row : row = StartedRow(jobs[exec[e].job])
      OBVIOUS
    <2>4. /\ TaskWrites(e) /\ jobs'[exec[e].job] = row /\ exec[e].job \in Jobs
          /\ row.status = "running" /\ row.worker = OwnerOf[e] /\ row.started
      BY <1>0, <2>2, <2>3, TaskRows
    <2>5. Owns(OwnerOf[e], t.job)' /\ jobs'[t.job].started
      BY <2>1, <2>4 DEF Owns
    <2> QED
      BY <1>0, <2>1, <2>2, <2>4, <2>5, TaskStep DEF Answering
  <1>3. CASE MarkStartedLost(e)
    <2>1. PICK t \in Execution : /\ exec' = [exec EXCEPT ![e] = t] /\ t.pc = "done" /\ t.result = "lost"
                                 /\ t.job = exec[e].job /\ t.displaced = exec[e].displaced
      BY <1>0, <1>3, StepIs DEF MarkStartedLost
    <2>2. UNCHANGED <<worker, stopping, grace, failed>> /\ TaskWrites(e) /\ jobs' = jobs /\ ~OwnsJob(e)
      BY <1>0, <1>3, StoreUntouched DEF MarkStartedLost, Step, storeVars
    <2>3. ~Owns(OwnerOf[e], t.job)'
      BY <2>1, <2>2 DEF OwnsJob, Owns
    <2> QED
      BY <1>0, <2>1, <2>2, <2>3, TaskStep
  <1>4. CASE MarkStartedErrs(e)
    <2>1. PICK t \in Execution : /\ exec' = [exec EXCEPT ![e] = t] /\ t.pc = "done" /\ t.result = "error"
                                 /\ t.job = exec[e].job /\ t.displaced = exec[e].displaced
      BY <1>0, <1>4, StepIs DEF MarkStartedErrs
    <2>2. UNCHANGED <<worker, stopping, grace, failed>>
      BY <1>4 DEF MarkStartedErrs, Step
    <2>3. (OwnsJob(e) /\ SetRow(e, StartedRow(jobs[exec[e].job]))) \/ UNCHANGED storeVars
      BY <1>4 DEF MarkStartedErrs, MaybeSetRow
    <2>4. TaskWrites(e)
      BY <1>0, <2>3, TaskRows, StoreUntouched
    <2> QED
      BY <1>0, <2>1, <2>2, <2>4, TaskStep DEF Answering
  <1> QED
    BY <1>1, <1>2, <1>3, <1>4

\* A handler runs, with its heartbeat beside it, and ends.
LEMMA HandlerKeeps ==
    ASSUME QueueInv, NEW e \in Slots, NEW result \in {"ok", "retryable", "permanent"},
           TouchHeartbeat(e) \/ HeartbeatFails(e) \/ CancelHandler(e) \/ HandlerEnds(e, result)
    PROVE  QueueKeeps
  <1>0. /\ Typed /\ StoreInv /\ Busy(e) /\ exec[e].pc = "running" /\ (SingleInv => HandlerInv(e))
        /\ exec \in [Slots -> Execution] /\ exec[e] \in Execution
    BY DEF QueueInv, TouchHeartbeat, HeartbeatFails, CancelHandler, HandlerEnds, Busy, SingleInv, Typed
  <1>1. CASE TouchHeartbeat(e)
    <2>1. PICK t \in Execution : exec' = [exec EXCEPT ![e] = t] /\ t = exec[e]
      BY <1>0, <1>1 DEF TouchHeartbeat, workerVars
    <2>2. UNCHANGED <<worker, stopping, grace, failed>> /\ OwnsJob(e) /\ SetRow(e, TouchedRow(jobs[exec[e].job]))
      BY <1>1 DEF TouchHeartbeat, workerVars
    <2>3. PICK row : row = TouchedRow(jobs[exec[e].job])
      OBVIOUS
    <2>4. /\ TaskWrites(e) /\ jobs'[exec[e].job] = row /\ exec[e].job \in Jobs
          /\ row.status = "running" /\ row.worker = OwnerOf[e] /\ (jobs[exec[e].job].started => row.started)
      BY <1>0, <2>2, <2>3, TaskRows
    <2>5. Owns(OwnerOf[e], t.job)' /\ (jobs[exec[e].job].started => jobs'[t.job].started)
      BY <2>1, <2>4 DEF Owns
    <2>6. SingleInv => exec[e].job \in taken \/ jobs[exec[e].job].started
      BY <1>0 DEF HandlerInv
    <2> QED
      BY <1>0, <2>1, <2>2, <2>4, <2>5, <2>6, TaskStep DEF Answering
  <1>2. CASE HeartbeatFails(e)
    <2>1. PICK t \in Execution : t = [exec[e] EXCEPT !.hb_failed = TRUE]
      BY <1>0 DEF Execution
    <2>2. /\ exec' = [exec EXCEPT ![e] = t] /\ t.pc = "running" /\ t.job = exec[e].job /\ t.displaced = exec[e].displaced
          /\ UNCHANGED <<worker, stopping, grace, failed>>
      BY <1>0, <1>2, <2>1 DEF HeartbeatFails, Execution
    <2>3. TaskWrites(e) /\ jobs' = jobs
      BY <1>0, <1>2, StoreUntouched DEF HeartbeatFails, storeVars
    <2>4. SingleInv => t.job \in taken \/ (Owns(OwnerOf[e], t.job)' /\ jobs'[t.job].started)
      BY <1>0, <2>2, <2>3 DEF HandlerInv, OwnsJob, Owns
    <2> QED
      BY <1>0, <2>2, <2>3, <2>4, TaskStep DEF Answering
  <1>3. CASE CancelHandler(e) \/ HandlerEnds(e, result)
    <2>1. PICK r \in {"ok", "retryable", "permanent"} : Step(e, "finishing", r) /\ UNCHANGED storeVars
      BY <1>3 DEF CancelHandler, HandlerEnds
    <2>2. PICK t \in Execution : /\ exec' = [exec EXCEPT ![e] = t] /\ t.pc = "finishing" /\ t.result = r
                                 /\ t.job = exec[e].job /\ t.displaced = exec[e].displaced
      BY <1>0, <2>1, StepIs
    <2>3. UNCHANGED <<worker, stopping, grace, failed>> /\ TaskWrites(e)
      BY <1>0, <2>1, StoreUntouched DEF Step
    <2> QED
      BY <1>0, <2>2, <2>3, TaskStep DEF Answering
  <1> QED
    BY <1>1, <1>2, <1>3

\* A finished task writes its job's outcome, or hands the job back.
LEMMA FinishKeeps ==
    ASSUME QueueInv, NEW e \in Slots, Finalize(e) \/ FinalizeLost(e) \/ FinalizeErrs(e) \/ RequeueStarted(e)
    PROVE  QueueKeeps
  <1>0. /\ Typed /\ StoreInv /\ Busy(e) /\ exec[e].pc \in {"finishing", "requeueing"} /\ (SingleInv => HandlerInv(e))
    BY DEF QueueInv, Finalize, FinalizeLost, FinalizeErrs, RequeueStarted, Busy, SingleInv
  <1>1. CASE Finalize(e)
    <2>1. PICK r \in {"applied", "error"} : Step(e, "done", r)
      BY <1>1 DEF Finalize, Combine
    <2>2. PICK t \in Execution : /\ exec' = [exec EXCEPT ![e] = t] /\ t.pc = "done" /\ t.result = r
                                 /\ t.job = exec[e].job /\ t.displaced = exec[e].displaced
      BY <1>0, <2>1, StepIs
    <2>3. UNCHANGED <<worker, stopping, grace, failed>> /\ OwnsJob(e) /\ SetRow(e, FinalRow(e))
      BY <1>1 DEF Finalize, Step
    <2>4. PICK row : row = FinalRow(e)
      OBVIOUS
    <2>5. TaskWrites(e) /\ jobs'[exec[e].job] = row /\ row.status # "running"
      BY <1>0, <2>3, <2>4, TaskRows
    <2>6. ~Owns(OwnerOf[e], t.job)'
      BY <2>2, <2>5 DEF Owns
    <2>7. SingleInv => ~t.displaced
      BY <1>0, <2>2, <2>3 DEF HandlerInv
    <2> QED
      BY <1>0, <2>2, <2>3, <2>5, <2>6, <2>7, TaskStep
  <1>2. CASE FinalizeLost(e)
    <2>1. PICK r \in {"lost", "error"} : Step(e, "done", r)
      BY <1>2 DEF FinalizeLost, Combine
    <2>2. PICK t \in Execution : /\ exec' = [exec EXCEPT ![e] = t] /\ t.pc = "done" /\ t.result = r
                                 /\ t.job = exec[e].job /\ t.displaced = exec[e].displaced
      BY <1>0, <2>1, StepIs
    <2>3. UNCHANGED <<worker, stopping, grace, failed>> /\ TaskWrites(e) /\ jobs' = jobs /\ ~OwnsJob(e)
      BY <1>0, <1>2, StoreUntouched DEF FinalizeLost, Step, storeVars
    <2>4. ~Owns(OwnerOf[e], t.job)'
      BY <2>2, <2>3 DEF OwnsJob, Owns
    <2> QED
      BY <1>0, <2>2, <2>3, <2>4, TaskStep
  <1>3. CASE FinalizeErrs(e)
    <2>1. PICK t \in Execution : /\ exec' = [exec EXCEPT ![e] = t] /\ t.pc = "requeueing" /\ t.result = "none"
                                 /\ t.job = exec[e].job /\ t.displaced = exec[e].displaced
      BY <1>0, <1>3, StepIs DEF FinalizeErrs
    <2>2. UNCHANGED <<worker, stopping, grace, failed>>
      BY <1>3 DEF FinalizeErrs, Step
    <2>3. TaskWrites(e)
      BY <1>0, <1>3, TaskRows, StoreUntouched DEF FinalizeErrs, MaybeSetRow
    <2> QED
      BY <1>0, <2>1, <2>2, <2>3, TaskStep DEF Answering
  <1>4. CASE RequeueStarted(e)
    <2>1. PICK t \in Execution : /\ exec' = [exec EXCEPT ![e] = t] /\ t.pc = "done" /\ t.result = "error"
                                 /\ t.job = exec[e].job /\ t.displaced = exec[e].displaced
      BY <1>0, <1>4, StepIs DEF RequeueStarted
    <2>2. UNCHANGED <<worker, stopping, grace, failed>>
      BY <1>4 DEF RequeueStarted, Step
    <2>3. TaskWrites(e)
      BY <1>0, <1>4, TaskRows, StoreUntouched DEF RequeueStarted
    <2> QED
      BY <1>0, <2>1, <2>2, <2>3, TaskStep DEF Answering
  <1> QED
    BY <1>1, <1>2, <1>3, <1>4


\* A worker moves: the others, their tasks and their rows stay as they are.
LEMMA LoopStep ==
    ASSUME QueueInv, NEW w \in Workers, Typed', WriteKeeps(w),
           \A v \in Workers \ {w} : worker'[v] = worker[v] /\ failed'[v] = failed[v] /\ held'[v] \subseteq held[v],
           \A e \in Slots : OwnerOf[e] # w => exec'[e] = exec[e],
           \A e \in Slots : OwnerOf[e] = w => SlotInv(e)',
           WorkerInv(w)',
           (OneSlot /\ SingleInv) => \A e \in Slots : OwnerOf[e] = w => HandlerInv(e)'
    PROVE  QueueKeeps
  <1>0. /\ StoreInv /\ (\A d \in Slots : SlotInv(d)) /\ (\A v \in Workers : WorkerInv(v))
        /\ OwnerOf \in [Slots -> Workers] /\ StoreInv' /\ taken' = taken /\ jobs \in [Jobs -> JobRow]
    BY OwnerTyped DEF QueueInv, WriteKeeps, StoreInv
  <1>1. ASSUME NEW d \in Slots
        PROVE  SlotInv(d)'
    <2>1. SlotInv(d) /\ OwnerOf[d] \in Workers
      BY <1>0
    <2>2. CASE OwnerOf[d] # w
      BY <2>1, <2>2 DEF SlotInv, Busy
    <2> QED
      BY <2>2
  <1>2. ASSUME NEW v \in Workers, v # w, NEW j \in Jobs
        PROVE  /\ Owns(v, j)' => Owns(v, j) /\ jobs'[j] = jobs[j]
               /\ Owns(v, j) => jobs'[j] = jobs[j]
    BY <1>2 DEF WriteKeeps, Owns
  <1>3. ASSUME NEW v \in Workers
        PROVE  WorkerInv(v)'
    <2>1. CASE v # w
      <3>1. WorkerInv(v) /\ worker'[v] = worker[v] /\ failed'[v] = failed[v]
        BY <1>0, <2>1
      <3>2. \A d \in Slots, j \in Jobs : (OwnerOf[d] = v /\ AnswersFor(d, j)) => AnswersFor(d, j)'
        BY <2>1 DEF AnswersFor
      <3>3. \A j \in Jobs : (Owns(v, j)' /\ jobs'[j].started) => Owns(v, j) /\ jobs[j].started
        BY <1>2, <2>1
      <3> QED
        BY <3>1, <3>2, <3>3 DEF WorkerInv
    <2> QED
      BY <2>1
  <1>4. ASSUME OneSlot, SingleInv, NEW d \in Slots
        PROVE  HandlerInv(d)'
    <2>1. CASE OwnerOf[d] # w
      <3>0. HandlerInv(d) /\ exec'[d] = exec[d] /\ OwnerOf[d] \in Workers
        BY <1>0, <1>4, <2>1 DEF SingleInv
      <3>1. worker'[OwnerOf[d]] = worker[OwnerOf[d]] /\ held'[OwnerOf[d]] \subseteq held[OwnerOf[d]]
        BY <2>1, <3>0
      <3>2. Busy(d) => exec[d].job \in Jobs
        BY <1>0 DEF SlotInv
      <3>3. Busy(d) => \/ jobs'[exec[d].job] = jobs[exec[d].job]
                       \/ ~Owns(OwnerOf[d], exec[d].job) /\ ~Owns(OwnerOf[d], exec[d].job)'
        BY <1>2, <2>1, <3>0, <3>2
      <3>5. (Busy(d) => worker[OwnerOf[d]] # "claiming" /\ exec[d].job \notin held[OwnerOf[d]])'
        BY <3>0, <3>1 DEF HandlerInv, Busy
      <3>6. (exec[d].pc = "running" => exec[d].job \in taken \/ (OwnsJob(d) /\ jobs[exec[d].job].started))'
        BY <1>0, <3>0, <3>3 DEF HandlerInv, OwnsJob, Owns, Busy
      <3>7. ((exec[d].pc = "done" /\ exec[d].displaced) => exec[d].result \in {"lost", "error"})'
        BY <3>0 DEF HandlerInv
      <3>8. ((exec[d].pc \notin {"free", "done", "aborted"} /\ exec[d].displaced) => ~OwnsJob(d))'
        BY <3>0, <3>3 DEF HandlerInv, OwnsJob, Owns, Busy
      <3> QED
        BY <3>5, <3>6, <3>7, <3>8 DEF HandlerInv
    <2> QED
      BY <1>4, <2>1
  <1> QED
    BY <1>0, <1>1, <1>3, <1>4 DEF QueueKeeps, QueueInv, SingleInv

\* A worker that leaves the tables alone.
LEMMA StoreIdle ==
    ASSUME StoreInv, NEW w \in Workers, UNCHANGED storeVars
    PROVE  WriteKeeps(w) /\ jobs' = jobs /\ held' = held /\ taken' = taken
  <1>1. StoreInv' /\ jobs' = jobs /\ held' = held /\ taken' = taken /\ paused' = paused
    BY DEF storeVars, StoreInv, HeldInv, OneActive
  <1> QED
    BY <1>1 DEF WriteKeeps, Owns

\* An empty slot.
LEMMA FreeSlotIs ==
    FreeSlot \in Execution /\ FreeSlot.pc = "free"
  BY RetryBounds DEF FreeSlot, Execution, Retries

\* What an aborted task leaves.
LEMMA RemainsIs ==
    ASSUME NEW t \in Execution
    PROVE  Remains(t) \in Execution /\ Remains(t).pc \in {"free", "aborted"}
  <1>1. CASE t.pc \in {"running", "aborted"}
    BY <1>1, RetryBounds DEF Remains, FreeSlot, Execution, Retries
  <1>2. CASE t.pc \notin {"running", "aborted"}
    BY <1>2, FreeSlotIs DEF Remains
  <1> QED
    BY <1>1, <1>2

\* A worker's tasks are gone, and it cleans up or is gone too: in the one case
\* handlers may be left, in the other none is.
LEMMA TasksGone ==
    ASSUME QueueInv, NEW w \in Workers, exec' \in [Slots -> Execution], UNCHANGED storeVars,
           NEW x \in CleanupStates \union {"crashed"}, worker' = Set(worker, w, x),
           \A e \in Slots : OwnerOf[e] # w => exec'[e] = exec[e],
           \A e \in Slots : OwnerOf[e] = w => exec'[e].pc = "free" \/ (exec'[e].pc = "aborted" /\ x # "crashed"),
           stopping' \in [Workers -> BOOLEAN], grace' \in [Workers -> BOOLEAN], failed' \in [Workers -> BOOLEAN],
           \A v \in Workers \ {w} : failed'[v] = failed[v]
    PROVE  QueueKeeps
  <1>0. StoreInv /\ Typed /\ OwnerOf \in [Slots -> Workers] /\ WorkerInv(w)
    BY OwnerTyped DEF QueueInv
  <1>1. x \in WorkerStates /\ x \notin {"waiting", "backoff"}
    BY DEF WorkerStates, CleanupStates
  <1>2. worker' \in [Workers -> WorkerStates] /\ worker'[w] = x /\ \A v \in Workers \ {w} : worker'[v] = worker[v]
    BY <1>0, <1>1 DEF Typed, Set
  <1>3. WriteKeeps(w) /\ held' = held
    BY <1>0, StoreIdle
  <1>4. \A e \in Slots : OwnerOf[e] = w => SlotInv(e)' /\ HandlerInv(e)'
    BY <1>2 DEF SlotInv, HandlerInv, Busy
  <1>5. WorkerInv(w)'
    BY <1>1, <1>2 DEF WorkerInv
  <1>6. Typed'
    BY <1>2 DEF Typed
  <1> QED
    BY <1>2, <1>3, <1>4, <1>5, <1>6, LoopStep

\* A worker aborts its tasks, and cleans up.
LEMMA AbortStep ==
    ASSUME QueueInv, NEW w \in Workers, AbortAll(w), UNCHANGED storeVars,
           worker' = Set(worker, w, "return_unstarted"),
           stopping' \in [Workers -> BOOLEAN], grace' \in [Workers -> BOOLEAN], failed' \in [Workers -> BOOLEAN],
           \A v \in Workers \ {w} : failed'[v] = failed[v]
    PROVE  QueueKeeps
  <1>0. exec \in [Slots -> Execution]
    BY DEF QueueInv, Typed
  <1>1. \A e \in Slots : /\ OwnerOf[e] # w => exec'[e] = exec[e]
                         /\ OwnerOf[e] = w => exec'[e] = Remains(exec[e])
    BY DEF AbortAll, SlotsOf
  <1>2. ASSUME NEW e \in Slots
        PROVE  exec'[e] \in Execution /\ (OwnerOf[e] = w => exec'[e].pc \in {"free", "aborted"})
    BY <1>0, <1>1, RemainsIs
  <1>3. exec' \in [Slots -> Execution]
    BY <1>2 DEF AbortAll
  <1>4. PICK x \in CleanupStates : x = "return_unstarted"
    BY DEF CleanupStates
  <1> QED
    BY <1>1, <1>2, <1>3, <1>4, TasksGone

\* A worker's error, its expired grace period, its dropped future, its crash.
LEMMA AbortsKeep ==
    ASSUME QueueInv, NEW w \in Workers,
           HandleRuntimeError(w) \/ GraceExpires(w) \/ OnceDropped(w) \/ Crash(w)
    PROVE  QueueKeeps
  <1>0. /\ stopping \in [Workers -> BOOLEAN] /\ grace \in [Workers -> BOOLEAN] /\ failed \in [Workers -> BOOLEAN]
    BY DEF QueueInv, Typed
  <1>1. CASE HandleRuntimeError(w)
    <2>1. PICK b \in BOOLEAN : b = (w \notin OnceWorkers)
      OBVIOUS
    <2>2. /\ stopping' = Set(stopping, w, b) /\ failed' = Set(failed, w, TRUE) /\ grace' = grace
          /\ worker' = Set(worker, w, "return_unstarted") /\ AbortAll(w) /\ UNCHANGED storeVars
      BY <1>1, <2>1 DEF HandleRuntimeError
    <2>3. /\ stopping' \in [Workers -> BOOLEAN] /\ failed' \in [Workers -> BOOLEAN]
          /\ \A v \in Workers \ {w} : failed'[v] = failed[v]
      BY <1>0, <2>2 DEF Set
    <2> QED
      BY <1>0, <2>2, <2>3, AbortStep
  <1>2. CASE GraceExpires(w)
    <2>1. PICK b \in BOOLEAN : b = (\E e \in SlotsOf(w) : exec[e].pc = "done" /\ exec[e].result = "error")
      OBVIOUS
    <2>2. /\ grace' = Set(grace, w, FALSE) /\ failed' = Set(failed, w, b) /\ stopping' = stopping
          /\ worker' = Set(worker, w, "return_unstarted") /\ AbortAll(w) /\ UNCHANGED storeVars
      BY <1>2, <2>1 DEF GraceExpires
    <2>3. /\ grace' \in [Workers -> BOOLEAN] /\ failed' \in [Workers -> BOOLEAN]
          /\ \A v \in Workers \ {w} : failed'[v] = failed[v]
      BY <1>0, <2>2 DEF Set
    <2> QED
      BY <1>0, <2>2, <2>3, AbortStep
  <1>3. CASE OnceDropped(w)
    <2>2. /\ grace' = grace /\ failed' = Set(failed, w, TRUE) /\ stopping' = stopping
          /\ worker' = Set(worker, w, "return_unstarted") /\ AbortAll(w) /\ UNCHANGED storeVars
      BY <1>3 DEF OnceDropped
    <2>3. /\ failed' \in [Workers -> BOOLEAN] /\ \A v \in Workers \ {w} : failed'[v] = failed[v]
      BY <1>0, <2>2 DEF Set
    <2> QED
      BY <1>0, <2>2, <2>3, AbortStep
  <1>4. CASE Crash(w)
    <2>2. /\ grace' = Set(grace, w, FALSE) /\ failed' = failed /\ stopping' = stopping
          /\ worker' = Set(worker, w, "crashed") /\ UNCHANGED storeVars
          /\ exec' = [e \in Slots |-> IF e \in SlotsOf(w) THEN FreeSlot ELSE exec[e]]
      BY <1>4 DEF Crash
    <2>3. grace' \in [Workers -> BOOLEAN]
      BY <1>0, <2>2 DEF Set
    <2>4. /\ exec' \in [Slots -> Execution]
          /\ \A e \in Slots : /\ OwnerOf[e] # w => exec'[e] = exec[e]
                              /\ OwnerOf[e] = w => exec'[e].pc = "free"
      BY <2>2, FreeSlotIs DEF SlotsOf, QueueInv, Typed
    <2>5. PICK x \in CleanupStates \union {"crashed"} : x = "crashed"
      OBVIOUS
    <2>6. /\ stopping' \in [Workers -> BOOLEAN] /\ failed' \in [Workers -> BOOLEAN]
          /\ worker' = Set(worker, w, x) /\ UNCHANGED storeVars /\ \A v \in Workers \ {w} : failed'[v] = failed[v]
          /\ \A e \in Slots : OwnerOf[e] # w => exec'[e] = exec[e]
          /\ \A e \in Slots : OwnerOf[e] = w => exec'[e].pc = "free" \/ (exec'[e].pc = "aborted" /\ x # "crashed")
      BY <1>0, <2>2, <2>4, <2>5
    <2> QED
      BY <2>3, <2>4, <2>6, TasksGone
  <1> QED
    BY <1>1, <1>2, <1>3, <1>4


\* A worker moves on in its loop, with its tasks as they are.
LEMMA MoveStep ==
    ASSUME QueueInv, NEW w \in Workers, WriteKeeps(w), exec' = exec,
           NEW x \in WorkerStates, worker' = Set(worker, w, x),
           stopping' \in [Workers -> BOOLEAN], grace' \in [Workers -> BOOLEAN], failed' \in [Workers -> BOOLEAN],
           \A v \in Workers \ {w} : failed'[v] = failed[v] /\ held'[v] \subseteq held[v],
           failed[w] => failed'[w], w \in OnceWorkers => x \notin {"waiting", "backoff"},
           \A j \in Jobs : (Owns(w, j)' /\ jobs'[j].started) => Owns(w, j) /\ jobs[j].started,
           \A e \in Slots : (OwnerOf[e] = w /\ Busy(e)) =>
              /\ x \in {"waiting", "claiming", "backoff", "draining"} /\ (w \in OnceWorkers => x = "draining")
              /\ (OneSlot /\ SingleInv) => x # "claiming" /\ jobs' = jobs /\ held' = held,
           worker[w] \in CleanupStates \union {"stopped"} => x \in CleanupStates \union {"stopped"},
           worker[w] \in CleanupStates \union {"crashed"} =>
              \/ x \in CleanupStates \union {"crashed"}
              \/ failed'[w]
              \/ \A j \in Jobs : ~Owns(w, j)
    PROVE  QueueKeeps
  <1>0. /\ StoreInv /\ Typed /\ OwnerOf \in [Slots -> Workers] /\ WorkerInv(w) /\ (\A e \in Slots : SlotInv(e)) /\ taken' = taken
    BY OwnerTyped DEF QueueInv, WriteKeeps
  <1>1. worker' \in [Workers -> WorkerStates] /\ worker'[w] = x /\ \A v \in Workers \ {w} : worker'[v] = worker[v]
    BY <1>0 DEF Typed, Set
  <1>2. Typed'
    BY <1>0, <1>1 DEF Typed
  <1>3. \A e \in Slots : OwnerOf[e] = w => SlotInv(e)'
    BY <1>0, <1>1 DEF SlotInv, Busy
  <1>4. WorkerInv(w)'
    <2>1. ASSUME NEW j \in Jobs, Owns(w, j)', jobs'[j].started, x \notin CleanupStates \union {"crashed"}, ~failed'[w]
          PROVE  \E e \in Slots : OwnerOf[e] = w /\ AnswersFor(e, j)'
      <3>1. Owns(w, j) /\ jobs[j].started /\ ~failed[w] /\ worker[w] \notin CleanupStates \union {"crashed"}
        BY <2>1
      <3>2. PICK e \in Slots : OwnerOf[e] = w /\ AnswersFor(e, j)
        BY <1>0, <3>1 DEF WorkerInv
      <3> QED
        BY <3>2 DEF AnswersFor, Answering
    <2> QED
      BY <1>1, <2>1 DEF WorkerInv
  <1>5. ASSUME OneSlot, SingleInv, NEW e \in Slots, OwnerOf[e] = w
        PROVE  HandlerInv(e)'
    <2>1. HandlerInv(e)
      BY <1>5 DEF SingleInv
    <2>2. CASE Busy(e)
      <3>1. x # "claiming" /\ jobs' = jobs /\ held' = held
        BY <1>5, <2>2
      <3> QED
        BY <1>0, <1>1, <1>5, <2>1, <3>1 DEF HandlerInv, Busy, OwnsJob, Owns
    <2>3. CASE ~Busy(e)
      BY <2>3 DEF HandlerInv, Busy
    <2> QED
      BY <2>2, <2>3
  <1> QED
    BY <1>0, <1>1, <1>2, <1>3, <1>4, <1>5, LoopStep

\* Moves that leave the tables alone.
LEMMA IdleMove ==
    ASSUME QueueInv, NEW w \in Workers, UNCHANGED <<storeVars, exec>>,
           NEW x \in WorkerStates, worker' = Set(worker, w, x),
           stopping' \in [Workers -> BOOLEAN], grace' \in [Workers -> BOOLEAN], failed' \in [Workers -> BOOLEAN],
           \A v \in Workers \ {w} : failed'[v] = failed[v],
           failed[w] => failed'[w], w \in OnceWorkers => x \notin {"waiting", "backoff"},
           \A e \in Slots : (OwnerOf[e] = w /\ Busy(e)) =>
              /\ x \in {"waiting", "claiming", "backoff", "draining"} /\ (w \in OnceWorkers => x = "draining")
              /\ OneSlot => x # "claiming",
           worker[w] \in CleanupStates \union {"stopped"} => x \in CleanupStates \union {"stopped"},
           worker[w] \in CleanupStates \union {"crashed"} =>
              \/ x \in CleanupStates \union {"crashed"}
              \/ failed'[w]
              \/ \A j \in Jobs : ~Owns(w, j)
    PROVE  QueueKeeps
  <1>1. StoreInv /\ UNCHANGED storeVars /\ exec' = exec
    BY DEF QueueInv
  <1>2. WriteKeeps(w) /\ jobs' = jobs /\ held' = held
    BY <1>1, StoreIdle
  <1>3. \A j \in Jobs : (Owns(w, j)' /\ jobs'[j].started) => Owns(w, j) /\ jobs[j].started
    BY <1>2 DEF Owns
  <1> QED
    BY <1>1, <1>2, <1>3, MoveStep

\* The loop's own moves.
LEMMA MovesKeep ==
    ASSUME QueueInv, NEW w \in Workers, BeginClaim(w) \/ BeginShutdown(w) \/ Drained(w) \/ CountOwned(w) \/ CleanupFails(w)
    PROVE  QueueKeeps
  <1>0. /\ stopping \in [Workers -> BOOLEAN] /\ grace \in [Workers -> BOOLEAN] /\ failed \in [Workers -> BOOLEAN]
        /\ WorkerInv(w) /\ (\A e \in Slots : SlotInv(e)) /\ OwnerOf \in [Slots -> Workers]
    BY OwnerTyped DEF QueueInv, Typed
  <1>1. \A e \in Slots : (OwnerOf[e] = w /\ Busy(e)) => worker[w] \in {"waiting", "claiming", "backoff", "draining"}
    BY <1>0 DEF SlotInv
  <1>2. CASE BeginClaim(w)
    <2>1. /\ UNCHANGED <<storeVars, exec>> /\ worker' = Set(worker, w, "claiming") /\ worker[w] \in {"waiting", "backoff"}
          /\ stopping' = stopping /\ grace' = grace /\ failed' = failed /\ FreeSlots(w) # {}
      BY <1>2 DEF BeginClaim
    <2>2. "claiming" \in WorkerStates /\ w \notin OnceWorkers /\ worker[w] \notin CleanupStates \union {"crashed", "stopped"}
      BY <1>0, <2>1 DEF WorkerStates, WorkerInv, CleanupStates
    <2>3. OneSlot => \A e \in Slots : OwnerOf[e] = w => ~Busy(e)
      BY <2>1 DEF OneSlot, FreeSlots, SlotsOf, Busy
    <2> QED
      BY <1>0, <2>1, <2>2, <2>3, IdleMove
  <1>3. CASE BeginShutdown(w)
    <2>1. PICK x \in {"draining"} :
             /\ UNCHANGED <<storeVars, exec>> /\ worker' = Set(worker, w, x) /\ worker[w] \in {"waiting", "backoff"}
             /\ stopping' = stopping /\ grace' = Set(grace, w, TRUE) /\ failed' = failed
      BY <1>3 DEF BeginShutdown
    <2>2. x \in WorkerStates /\ x \notin {"waiting", "backoff"} /\ worker[w] \notin CleanupStates \union {"crashed", "stopped"} /\ grace' \in [Workers -> BOOLEAN]
      BY <1>0, <2>1 DEF WorkerStates, CleanupStates, Set
    <2> QED
      BY <1>0, <2>1, <2>2, IdleMove
  <1>4. CASE Drained(w)
    <2>1. PICK x \in {"stopped", "return_unstarted"} :
             /\ UNCHANGED <<storeVars, exec>> /\ worker' = Set(worker, w, x) /\ worker[w] = "draining"
             /\ stopping' = stopping /\ grace' = Set(grace, w, FALSE) /\ failed' = failed /\ InFlight(w) = {}
      BY <1>4 DEF Drained
    <2>2. /\ x \in WorkerStates /\ worker[w] \notin CleanupStates \union {"crashed", "stopped"} /\ grace' \in [Workers -> BOOLEAN]
          /\ x \notin {"waiting", "backoff"}
      BY <1>0, <2>1 DEF WorkerStates, CleanupStates, Set
    <2>3. \A e \in Slots : ~(OwnerOf[e] = w /\ Busy(e))
      BY <2>1 DEF InFlight, SlotsOf, Busy
    <2> QED
      BY <1>0, <2>1, <2>2, <2>3, IdleMove
  <1>5. CASE CountOwned(w)
    <2>1. PICK x \in {"stopped", "return_unstarted"} :
             /\ UNCHANGED <<storeVars, exec>> /\ worker' = Set(worker, w, x) /\ worker[w] = "counting"
             /\ stopping' = stopping /\ failed' = failed /\ (grace' = grace \/ grace' = Set(grace, w, FALSE))
             /\ x = "stopped" => \A j \in Jobs : ~Owns(w, j)
      BY <1>5 DEF CountOwned
    <2>2. /\ x \in WorkerStates /\ grace' \in [Workers -> BOOLEAN] /\ x \notin {"waiting", "backoff"}
          /\ x = "stopped" \/ x \in CleanupStates \union {"crashed"}
          /\ x \in CleanupStates \union {"stopped"}
      BY <1>0, <2>1 DEF WorkerStates, CleanupStates, Set
    <2>3. \A e \in Slots : ~(OwnerOf[e] = w /\ Busy(e))
      BY <1>1, <2>1
    <2> QED
      BY <1>0, <2>1, <2>2, <2>3, IdleMove
  <1>6. CASE CleanupFails(w)
    <2>1. /\ UNCHANGED <<storeVars, exec>> /\ worker' = Set(worker, w, "stopped") /\ worker[w] \in CleanupStates
          /\ stopping' = stopping /\ grace' = Set(grace, w, FALSE) /\ failed' = Set(failed, w, TRUE)
      BY <1>6 DEF CleanupFails
    <2>2. /\ "stopped" \in WorkerStates /\ grace' \in [Workers -> BOOLEAN] /\ failed' \in [Workers -> BOOLEAN]
          /\ failed'[w] /\ \A v \in Workers \ {w} : failed'[v] = failed[v]
      BY <1>0, <2>1 DEF WorkerStates, Set
    <2>3. \A e \in Slots : ~(OwnerOf[e] = w /\ Busy(e))
      BY <1>1, <2>1 DEF CleanupStates
    <2> QED
      BY <1>0, <2>1, <2>2, <2>3, IdleMove
  <1> QED
    BY <1>2, <1>3, <1>4, <1>5, <1>6

\* The cleanup hands rows back.
LEMMA CleanupKeeps ==
    ASSUME QueueInv, NEW w \in Workers, ReturnUnstarted(w) \/ ReturnStarted(w)
    PROVE  QueueKeeps
  <1>0. /\ stopping \in [Workers -> BOOLEAN] /\ grace \in [Workers -> BOOLEAN] /\ failed \in [Workers -> BOOLEAN]
        /\ StoreInv /\ (\A e \in Slots : SlotInv(e)) /\ OwnerOf \in [Slots -> Workers]
    BY OwnerTyped DEF QueueInv, Typed
  <1>1. PICK S \in SUBSET Jobs, x \in {"return_started", "counting"} :
           /\ \A j \in S : Owns(w, j)
           /\ ReturnOwned(w, S) /\ worker' = Set(worker, w, x) /\ worker[w] \in CleanupStates
    <2>1. CASE ReturnUnstarted(w)
      BY <2>1 DEF ReturnUnstarted, CleanupStates
    <2>2. CASE ReturnStarted(w)
      BY <2>2 DEF ReturnStarted, CleanupStates
    <2> QED
      BY <2>1, <2>2
  <1>2. WriteKeeps(w) /\ held' = held /\ \A j \in Jobs : Owns(w, j)' => Owns(w, j) /\ jobs'[j] = jobs[j]
    BY <1>0, <1>1, ReturnKeeps
  <1>3. exec' = exec /\ stopping' = stopping /\ grace' = grace /\ failed' = failed
    BY <1>1 DEF ReturnOwned
  <1>4. /\ x \in WorkerStates /\ x \in CleanupStates \union {"crashed"} /\ x \notin {"waiting", "backoff"}
        /\ x \in CleanupStates \union {"stopped"}
    BY DEF WorkerStates, CleanupStates
  <1>5. \A e \in Slots : ~(OwnerOf[e] = w /\ Busy(e))
    BY <1>0, <1>1 DEF SlotInv, CleanupStates
  <1>6. \A j \in Jobs : (Owns(w, j)' /\ jobs'[j].started) => Owns(w, j) /\ jobs[j].started
    BY <1>2
  <1> QED
    BY <1>0, <1>1, <1>2, <1>3, <1>4, <1>5, <1>6, MoveStep

\* A claim that errors: the loop backs off, the once worker ends.
LEMMA ClaimErrsKeeps ==
    ASSUME QueueInv, NEW w \in Workers, ClaimErrs(w)
    PROVE  QueueKeeps
  <1>0. /\ stopping \in [Workers -> BOOLEAN] /\ grace \in [Workers -> BOOLEAN] /\ failed \in [Workers -> BOOLEAN]
        /\ StoreInv /\ (\A e \in Slots : SlotInv(e)) /\ OwnerOf \in [Slots -> Workers] /\ worker[w] = "claiming"
    BY OwnerTyped DEF QueueInv, Typed, ClaimErrs
  <1>1. PICK S \in SUBSET Claimable : ClaimUnacknowledged(w, S)
    BY DEF ClaimErrs
  <1>2. S \in SUBSET Jobs
    BY <1>1, ClaimableRows
  <1>3. WriteKeeps(w) /\ jobs' = jobs /\ \A v \in Workers \ {w} : held'[v] = held[v]
    BY <1>0, <1>1, <1>2, UnacknowledgedKeeps
  <1>4. PICK x \in {"stopped", "backoff"} :
           /\ worker' = Set(worker, w, x) /\ (x = "stopped" <=> w \in OnceWorkers)
           /\ exec' = exec /\ stopping' = stopping /\ grace' = grace
           /\ failed' = IF w \in OnceWorkers THEN Set(failed, w, TRUE) ELSE failed
    BY DEF ClaimErrs
  <1>5. /\ x \in WorkerStates /\ failed' \in [Workers -> BOOLEAN] /\ (failed[w] => failed'[w])
        /\ \A v \in Workers \ {w} : failed'[v] = failed[v]
        /\ worker[w] \notin CleanupStates \union {"crashed", "stopped"} /\ (w \in OnceWorkers => x \notin {"waiting", "backoff"})
    BY <1>0, <1>4 DEF WorkerStates, CleanupStates, Set
  <1>6. ASSUME NEW e \in Slots, OwnerOf[e] = w, Busy(e)
        PROVE  w \notin OnceWorkers /\ x = "backoff" /\ ~SingleInv
    <2>1. w \notin OnceWorkers
      BY <1>0, <1>6 DEF SlotInv
    <2>2. ~SingleInv
      BY <1>0, <1>6 DEF SingleInv, HandlerInv
    <2> QED
      BY <1>4, <2>1, <2>2
  <1>7. \A j \in Jobs : (Owns(w, j)' /\ jobs'[j].started) => Owns(w, j) /\ jobs[j].started
    BY <1>3 DEF Owns
  <1> QED
    BY <1>0, <1>3, <1>4, <1>5, <1>6, <1>7, MoveStep


\* Claimed jobs are spawned into free slots.
LEMMA ClaimKeeps ==
    ASSUME QueueInv, NEW w \in Workers, ClaimAndSpawn(w)
    PROVE  QueueKeeps
  <1>0. /\ StoreInv /\ Typed /\ OwnerOf \in [Slots -> Workers] /\ WorkerInv(w) /\ (\A e \in Slots : SlotInv(e))
        /\ worker[w] = "claiming" /\ jobs \in [Jobs -> JobRow] /\ exec \in [Slots -> Execution]
    BY OwnerTyped DEF QueueInv, ClaimAndSpawn, Typed, StoreInv
  <1>a. PICK T \in SUBSET FreeSlots(w) : \E g \in Injection(T, Claimable) :
           /\ ClaimJobs(w, Range(g))
           /\ exec' = [e \in Slots |-> IF e \in T THEN Spawned(g[e]) ELSE exec[e]]
    BY DEF ClaimAndSpawn
  <1>1. PICK f \in Injection(T, Claimable) :
           /\ ClaimJobs(w, Range(f))
           /\ exec' = [e \in Slots |-> IF e \in T THEN Spawned(f[e]) ELSE exec[e]]
    BY <1>a
  <1>2. f \in [T -> Claimable] /\ Range(f) \subseteq Claimable /\ \A e \in T : f[e] \in Range(f)
    BY <1>1 DEF Injection, Range
  <1>3. PICK S \in SUBSET Jobs : S = Range(f)
    BY <1>2, ClaimableRows
  <1>4. /\ WriteKeeps(w) /\ GainsUnstarted(w) /\ held' = held
        /\ \A j \in Jobs : jobs'[j] = jobs[j] \/ jobs[j].status = "pending"
    BY <1>0, <1>1, <1>3, ClaimJobsKeeps
  <1>5. \A e \in T : /\ e \in Slots /\ OwnerOf[e] = w /\ exec[e].pc = "free" /\ f[e] \in Jobs
                     /\ \A v \in Workers : f[e] \notin held[v]
    BY <1>1, <1>2, ClaimableRows DEF FreeSlots, SlotsOf
  <1>6. \A e \in Slots : /\ e \notin T => exec'[e] = exec[e]
                         /\ e \in T => exec'[e] = Spawned(f[e])
    BY <1>1
  <1>7. ASSUME NEW e \in T
        PROVE  /\ Spawned(f[e]) \in Execution /\ Spawned(f[e]).pc = "spawned" /\ Spawned(f[e]).job = f[e]
               /\ Spawned(f[e]).displaced = FALSE
    <2>1. f[e] \in Jobs /\ jobs[f[e]].retry \in 0 .. MaxRetries + 1
      BY <1>0, <1>5 DEF JobRow
    <2> QED
      BY <2>1 DEF Spawned, FreeSlot, Execution
  <1>8. PICK x \in {"waiting", "draining"} :
           /\ worker' = Set(worker, w, x) /\ (x = "draining" <=> w \in OnceWorkers)
           /\ stopping' = stopping /\ grace' = grace /\ failed' = failed
    BY DEF ClaimAndSpawn
  <1>9. worker' \in [Workers -> WorkerStates] /\ worker'[w] = x /\ \A v \in Workers \ {w} : worker'[v] = worker[v]
    BY <1>0, <1>8 DEF Typed, Set, WorkerStates
  <1>10. Typed'
    <2>1. exec' \in [Slots -> Execution]
      BY <1>0, <1>1, <1>6, <1>7
    <2> QED
      BY <1>0, <1>8, <1>9, <2>1 DEF Typed
  <1>11. ASSUME NEW e \in Slots, OwnerOf[e] = w
         PROVE  SlotInv(e)'
    <2>1. (w \in OnceWorkers => x = "draining") /\ x \in {"waiting", "claiming", "backoff", "draining"}
      BY <1>8
    <2>2. (Busy(e)' => exec'[e].job \in Jobs) /\ exec'[e].pc # "aborted"
      <3>1. CASE e \in T
        BY <1>5, <1>6, <1>7, <3>1
      <3>2. CASE e \notin T
        BY <1>0, <1>6, <1>11, <3>2 DEF SlotInv, Busy, CleanupStates
      <3> QED
        BY <3>1, <3>2
    <2> QED
      BY <1>9, <1>11, <2>1, <2>2 DEF SlotInv, Busy
  <1>12. WorkerInv(w)'
    <2>1. ASSUME NEW j \in Jobs, Owns(w, j)', jobs'[j].started, ~failed'[w]
          PROVE  \E e \in Slots : OwnerOf[e] = w /\ AnswersFor(e, j)'
      <3>1. Owns(w, j) /\ jobs[j].started /\ ~failed[w] /\ worker[w] \notin CleanupStates \union {"crashed"}
        BY <1>0, <1>4, <1>8, <2>1 DEF GainsUnstarted, Owns, CleanupStates
      <3>2. PICK e \in Slots : OwnerOf[e] = w /\ AnswersFor(e, j)
        BY <1>0, <3>1 DEF WorkerInv
      <3>3. e \notin T
        BY <1>5, <3>2 DEF AnswersFor, Answering
      <3> QED
        BY <1>6, <3>2, <3>3 DEF AnswersFor, Answering
    <2> QED
      BY <1>8, <1>9, <2>1 DEF WorkerInv
  <1>13. ASSUME OneSlot, SingleInv, NEW e \in Slots, OwnerOf[e] = w
         PROVE  HandlerInv(e)'
    <2>1. CASE e \in T
      BY <1>4, <1>5, <1>6, <1>7, <1>8, <1>9, <1>13, <2>1 DEF HandlerInv, Busy
    <2>2. CASE e \notin T
      <3>1. ~Busy(e)
        BY <1>0, <1>13 DEF SingleInv, HandlerInv
      <3> QED
        BY <1>6, <2>2, <3>1 DEF HandlerInv, Busy
    <2> QED
      BY <2>1, <2>2
  <1> QED
    BY <1>4, <1>5, <1>6, <1>8, <1>9, <1>10, <1>11, <1>12, <1>13, LoopStep

\* A task is joined, without an error.
LEMMA JoinKeeps ==
    ASSUME QueueInv, NEW w \in Workers, NEW e \in Slots, JoinJob(w, e)
    PROVE  QueueKeeps
  <1>1. CASE exec[e].result = "error"
    <2>1. HandleRuntimeError(w)
      BY <1>1 DEF JoinJob
    <2> QED
      BY <2>1, AbortsKeep
  <1>2. CASE exec[e].result # "error"
    <2>1. /\ StoreInv /\ Typed /\ WorkerInv(w) /\ (\A d \in Slots : SlotInv(d)) /\ OwnerOf[e] = w /\ exec[e].pc = "done"
          /\ exec' = Set(exec, e, FreeSlot) /\ UNCHANGED <<storeVars, worker, stopping, grace, failed>>
      BY <1>2 DEF JoinJob, QueueInv
    <2>2. /\ exec'[e] = FreeSlot /\ (\A d \in Slots : d # e => exec'[d] = exec[d]) /\ exec' \in [Slots -> Execution]
          /\ FreeSlot.pc = "free"
      BY <2>1, FreeSlotIs DEF Set, Typed
    <2>3. WriteKeeps(w) /\ jobs' = jobs /\ held' = held /\ taken' = taken
      BY <2>1, StoreIdle
    <2>4. Typed'
      BY <2>1, <2>2 DEF Typed
    <2>5. ASSUME NEW d \in Slots, OwnerOf[d] = w
          PROVE  SlotInv(d)'
      BY <2>1, <2>2, <2>5 DEF SlotInv, Busy
    <2>6. WorkerInv(w)'
      <3>1. ASSUME NEW d \in Slots, NEW j \in Jobs, AnswersFor(d, j)
            PROVE  AnswersFor(d, j)'
        <4>1. d # e
          BY <1>2, <2>1, <3>1 DEF AnswersFor, Answering
        <4> QED
          BY <2>2, <3>1, <4>1 DEF AnswersFor, Answering
      <3>2. \A j \in Jobs : Owns(w, j)' => Owns(w, j) /\ jobs'[j] = jobs[j]
        BY <2>3 DEF Owns
      <3> QED
        BY <2>1, <3>1, <3>2 DEF WorkerInv
    <2>7. ASSUME OneSlot, SingleInv, NEW d \in Slots, OwnerOf[d] = w
          PROVE  HandlerInv(d)'
      <3>1. d = e
        BY <2>1, <2>7 DEF OneSlot
      <3> QED
        BY <2>2, <3>1 DEF HandlerInv, Busy
    <2> QED
      BY <2>1, <2>2, <2>3, <2>4, <2>5, <2>6, <2>7, LoopStep
  <1> QED
    BY <1>1, <1>2

\* The handler of an aborted task ends.
LEMMA AbortedEndKeeps ==
    ASSUME QueueInv, NEW e \in Slots, AbortedHandlerEnds(e)
    PROVE  QueueKeeps
  <1>1. /\ StoreInv /\ Typed /\ (\A d \in Slots : SlotInv(d)) /\ exec[e].pc = "aborted" /\ exec' = Set(exec, e, FreeSlot)
        /\ UNCHANGED <<storeVars, worker, stopping, grace, failed>> /\ OwnerOf[e] \in Workers
    BY OwnerTyped DEF AbortedHandlerEnds, QueueInv
  <1>2. PICK w \in Workers : w = OwnerOf[e]
    BY <1>1
  <1>3. /\ exec'[e] = FreeSlot /\ (\A d \in Slots : d # e => exec'[d] = exec[d]) /\ exec' \in [Slots -> Execution]
        /\ FreeSlot.pc = "free"
    BY <1>1, FreeSlotIs DEF Set, Typed
  <1>4. WriteKeeps(w) /\ jobs' = jobs /\ held' = held /\ taken' = taken
    BY <1>1, StoreIdle
  <1>5. Typed'
    BY <1>1, <1>3 DEF Typed
  <1>6. ASSUME NEW d \in Slots
        PROVE  SlotInv(d)'
    BY <1>1, <1>3 DEF SlotInv, Busy
  <1>7. WorkerInv(w)'
    <2>1. ASSUME NEW d \in Slots, NEW j \in Jobs, AnswersFor(d, j)
          PROVE  AnswersFor(d, j)'
      <3>1. d # e
        BY <1>1, <2>1 DEF AnswersFor, Answering
      <3> QED
        BY <1>3, <2>1, <3>1 DEF AnswersFor, Answering
    <2>2. \A j \in Jobs : Owns(w, j)' => Owns(w, j) /\ jobs'[j] = jobs[j]
      BY <1>4 DEF Owns
    <2>3. WorkerInv(w)
      BY DEF QueueInv
    <2> QED
      BY <1>1, <2>1, <2>2, <2>3 DEF WorkerInv
  <1>8. ASSUME SingleInv, NEW d \in Slots
        PROVE  HandlerInv(d)'
    <2>1. CASE d = e
      BY <1>3, <2>1 DEF HandlerInv, Busy
    <2>2. CASE d # e
      BY <1>1, <1>3, <1>4, <1>8, <2>2 DEF SingleInv, HandlerInv, Busy, OwnsJob, Owns
    <2> QED
      BY <2>1, <2>2
  <1> QED
    BY <1>1, <1>2, <1>3, <1>4, <1>5, <1>6, <1>7, <1>8, LoopStep

\* One step of a worker's loop.
LEMMA LoopKeeps ==
    ASSUME QueueInv, NEW w \in Workers, LoopNext(w) \/ GraceExpires(w) \/ OnceDropped(w) \/ Crash(w)
    PROVE  QueueKeeps
  <1>1. CASE ClaimProtocolFailure(w)
    BY <1>1, AbortsKeep DEF ClaimProtocolFailure
  <1>2. CASE \E e \in Slots : JoinJob(w, e)
    BY <1>2, JoinKeeps
  <1> QED
    BY <1>1, <1>2, MovesKeep, CleanupKeeps, ClaimErrsKeeps, ClaimKeeps, AbortsKeep DEF LoopNext


\* A call that is not a worker's, and what it does to the tasks whose jobs it takes.
LEMMA OtherStep ==
    ASSUME QueueInv, CallKeeps, UNCHANGED <<worker, stopping, grace, failed>>, exec' \in [Slots -> Execution],
           \A e \in Slots : exec'[e].pc = exec[e].pc /\ exec'[e].job = exec[e].job /\ exec'[e].result = exec[e].result,
           \A e \in Slots : (exec'[e].displaced /\ ~exec[e].displaced) =>
              exec[e].pc \notin {"free", "done", "aborted"} /\ ~Owns(OwnerOf[e], exec[e].job)'
    PROVE  QueueKeeps
  <1>0. /\ StoreInv' /\ held' = held /\ taken \subseteq taken' /\ NoGain /\ NoTaking /\ Typed
        /\ (\A e \in Slots : SlotInv(e)) /\ (\A w \in Workers : WorkerInv(w)) /\ OwnerOf \in [Slots -> Workers]
    BY OwnerTyped DEF CallKeeps, QueueInv
  <1>1. Typed' /\ worker' = worker /\ failed' = failed
    BY <1>0 DEF Typed
  <1>2. \A e \in Slots : SlotInv(e)'
    BY <1>0, <1>1 DEF SlotInv, Busy
  <1>3. ASSUME NEW w \in Workers
        PROVE  WorkerInv(w)'
    <2>1. WorkerInv(w)
      BY <1>0
    <2>2. \A j \in Jobs : (Owns(w, j)' /\ jobs'[j].started) => Owns(w, j) /\ jobs[j].started
      BY <1>0 DEF NoGain
    <2>3. \A e \in Slots, j \in Jobs : AnswersFor(e, j) => AnswersFor(e, j)'
      BY DEF AnswersFor, Answering
    <2> QED
      BY <1>1, <2>1, <2>2, <2>3 DEF WorkerInv
  <1>4. ASSUME OneSlot, SingleInv, NEW e \in Slots
        PROVE  HandlerInv(e)'
    <2>1. HandlerInv(e) /\ SlotInv(e) /\ OwnerOf[e] \in Workers
      BY <1>0, <1>4 DEF SingleInv
    <2>2. exec'[e].pc = exec[e].pc /\ exec'[e].job = exec[e].job /\ exec'[e].result = exec[e].result
      OBVIOUS
    <2>3. (Busy(e) => worker[OwnerOf[e]] # "claiming" /\ exec[e].job \notin held[OwnerOf[e]])'
      BY <1>0, <1>1, <2>1, <2>2 DEF HandlerInv, Busy
    <2>4. (exec[e].pc = "running" => exec[e].job \in taken \/ (OwnsJob(e) /\ jobs[exec[e].job].started))'
      <3>1. exec[e].pc = "running" => exec[e].job \in Jobs
        BY <2>1 DEF SlotInv, Busy
      <3>2. exec[e].pc = "running" => exec[e].job \in taken \/ (Owns(OwnerOf[e], exec[e].job) /\ jobs[exec[e].job].started)
        BY <2>1 DEF HandlerInv, OwnsJob
      <3>3. exec[e].pc = "running" =>
               exec[e].job \in taken' \/ (Owns(OwnerOf[e], exec[e].job)' /\ jobs'[exec[e].job].started)
        BY <1>0, <2>1, <3>1, <3>2 DEF NoTaking
      <3> QED
        BY <2>2, <3>3 DEF OwnsJob, Owns
    <2>5. ((exec[e].pc = "done" /\ exec[e].displaced) => exec[e].result \in {"lost", "error"})'
      BY <2>1, <2>2 DEF HandlerInv
    <2>6. ((exec[e].pc \notin {"free", "done", "aborted"} /\ exec[e].displaced) => ~OwnsJob(e))'
      <3>1. Busy(e) => (Owns(OwnerOf[e], exec[e].job)' => Owns(OwnerOf[e], exec[e].job))
        BY <1>0, <2>1 DEF NoGain, SlotInv, Busy
      <3>2. (exec[e].pc \notin {"free", "done", "aborted"} /\ exec[e].displaced) => ~Owns(OwnerOf[e], exec[e].job)'
        BY <2>1, <3>1 DEF HandlerInv, OwnsJob, Busy
      <3>3. (exec'[e].pc \notin {"free", "done", "aborted"} /\ exec'[e].displaced) => ~Owns(OwnerOf[e], exec[e].job)'
        BY <2>2, <3>2
      <3> QED
        BY <2>2, <3>3 DEF OwnsJob, Owns
    <2> QED
      BY <2>3, <2>4, <2>5, <2>6 DEF HandlerInv
  <1> QED
    BY <1>0, <1>1, <1>2, <1>3, <1>4 DEF QueueKeeps, QueueInv, SingleInv

\* Calls that take no job from a worker.
LEMMA QuietCall ==
    ASSUME QueueInv, CallKeeps, UNCHANGED workerVars
    PROVE  QueueKeeps
  <1>1. /\ UNCHANGED <<worker, stopping, grace, failed>> /\ exec' = exec /\ exec \in [Slots -> Execution]
    BY DEF workerVars, QueueInv, Typed
  <1> QED
    BY <1>1, OtherStep

\* Calls that take the jobs S from their workers.
LEMMA TakingCall ==
    ASSUME QueueInv, CallKeeps, NEW S \in SUBSET Jobs, Displace(S), \A j \in S : jobs'[j].status # "running"
    PROVE  QueueKeeps
  <1>1. /\ UNCHANGED <<worker, stopping, grace, failed>> /\ exec \in [Slots -> Execution]
        /\ \A e \in Slots : exec[e] \in Execution
    BY DEF Displace, QueueInv, Typed
  <1>2. exec' = [e \in Slots |-> IF exec[e].pc \notin {"free", "done", "aborted"} /\ exec[e].job \in S /\ OwnsJob(e)
                                 THEN [exec[e] EXCEPT !.displaced = TRUE] ELSE exec[e]]
    BY DEF Displace
  <1>3. ASSUME NEW e \in Slots
        PROVE  /\ exec'[e] \in Execution
               /\ exec'[e].pc = exec[e].pc /\ exec'[e].job = exec[e].job /\ exec'[e].result = exec[e].result
               /\ (exec'[e].displaced /\ ~exec[e].displaced) => exec[e].pc \notin {"free", "done", "aborted"} /\ exec[e].job \in S
    <2>1. PICK x \in Execution : x = exec[e]
      BY <1>1
    <2>2. PICK t \in Execution : t = [x EXCEPT !.displaced = TRUE]
      BY DEF Execution
    <2>3. t.pc = x.pc /\ t.job = x.job /\ t.result = x.result
      BY <2>2 DEF Execution
    <2>4. exec'[e] = x \/ (exec'[e] = t /\ x.pc \notin {"free", "done", "aborted"} /\ x.job \in S)
      BY <1>2, <2>1, <2>2
    <2> QED
      BY <2>1, <2>3, <2>4
  <1>4. exec' \in [Slots -> Execution]
    BY <1>2, <1>3
  <1>5. \A e \in Slots : (exec'[e].displaced /\ ~exec[e].displaced) =>
           exec[e].pc \notin {"free", "done", "aborted"} /\ ~Owns(OwnerOf[e], exec[e].job)'
    BY <1>3 DEF Owns
  <1> QED
    BY <1>1, <1>3, <1>4, <1>5, OtherStep

\* Operators and producers.
LEMMA OperatorNextKeeps ==
    ASSUME QueueInv, OperatorNext
    PROVE  QueueKeeps
  <1>0. StoreInv
    BY DEF QueueInv
  <1>1. CASE /\ \/ \E S \in SUBSET Jobs :
                      \/ Enqueue(S) \/ RetryFailedJobs(S) \/ MoveFailedJobsToDeadLetter(S)
                      \/ \E status \in {"completed", "failed", "dead"} : Cleanup(S, status)
                \/ \E j \in Jobs, key \in Keys : EnqueueDeduped(j, key)
                \/ \E j \in Jobs : CancelPendingJob(j)
                \/ \E j, id \in Jobs : RequeueDeadLetterJob(j, id)
                \/ \E p \in PauseKeys : Pause(p) \/ Resume(p)
             /\ UNCHANGED workerVars
    <2>1. CallKeeps
      <3>1. CASE \E S \in SUBSET Jobs : Enqueue(S)
        BY <1>0, <3>1, EnqueueAloneKeeps
      <3>2. CASE \E j \in Jobs, key \in Keys : EnqueueDeduped(j, key)
        BY <1>0, <3>2, DedupedKeeps
      <3>3. CASE \E j \in Jobs : CancelPendingJob(j)
        BY <1>0, <3>3, CancelKeeps
      <3>4. CASE \E j, id \in Jobs : RequeueDeadLetterJob(j, id)
        BY <1>0, <3>4, RequeueKeeps
      <3>5. CASE \E S \in SUBSET Jobs : RetryFailedJobs(S)
        BY <1>0, <3>5, RetryKeeps
      <3>6. CASE \E S \in SUBSET Jobs : MoveFailedJobsToDeadLetter(S)
        BY <1>0, <3>6, MoveFailedKeeps
      <3>7. CASE \E S \in SUBSET Jobs : \E status \in {"completed", "failed", "dead"} : Cleanup(S, status)
        BY <1>0, <3>7, CleanupDeletes
      <3>8. CASE \E p \in PauseKeys : Pause(p) \/ Resume(p)
        BY <1>0, <3>8, PauseKeeps
      <3> QED
        BY <1>1, <3>1, <3>2, <3>3, <3>4, <3>5, <3>6, <3>7, <3>8
    <2> QED
      BY <1>1, <2>1, QuietCall
  <1>2. CASE \E j \in Jobs : ForceRequeueRunningJob(j) /\ Displace({j})
    <2>1. PICK j \in Jobs : ForceRequeueRunningJob(j) /\ Displace({j})
      BY <1>2
    <2>2. PICK S \in SUBSET Jobs : S = {j}
      OBVIOUS
    <2>3. CallKeeps /\ jobs'[j].status # "running"
      BY <1>0, <2>1, ForceKeeps
    <2> QED
      BY <2>1, <2>2, <2>3, TakingCall
  <1> QED
    BY <1>1, <1>2 DEF OperatorNext


\* The reclaim, the passing of time, and claims that the server ends late.
LEMMA ServerKeeps ==
    ASSUME QueueInv, (\E S \in SUBSET Jobs : Reclaim(S)) \/ ServerNext
    PROVE  QueueKeeps
  <1>0. StoreInv /\ Typed /\ (\A w \in Workers : WorkerInv(w)) /\ (\A e \in Slots : SlotInv(e)) /\ OwnerOf \in [Slots -> Workers]
    BY OwnerTyped DEF QueueInv
  <1>1. CASE \E S \in SUBSET Jobs : Reclaim(S)
    <2>1. PICK S \in SUBSET Jobs, dead \in BOOLEAN : ReclaimStaleRunningJobs(S, dead) /\ Displace(S)
      BY <1>1 DEF Reclaim
    <2>2. CallKeeps /\ \A j \in S : jobs'[j].status # "running"
      BY <1>0, <2>1, ReclaimKeeps
    <2> QED
      BY <2>1, <2>2, TakingCall
  <1>2. CASE \E j \in Jobs : HeartbeatGoesStale(j) /\ UNCHANGED workerVars
    BY <1>0, <1>2, StaleKeeps, QuietCall
  <1>3. CASE \E w \in Workers, commits \in BOOLEAN : LateClaimEnds(w, commits) /\ UNCHANGED workerVars
    <2>1. PICK w \in Workers, commits \in BOOLEAN : LateClaimEnds(w, commits) /\ UNCHANGED workerVars
      BY <1>3
    <2>2. /\ WriteKeeps(w) /\ GainsUnstarted(w) /\ taken' = taken
          /\ \A v \in Workers : held'[v] \subseteq held[v]
          /\ \A j \in Jobs : jobs'[j] = jobs[j] \/ j \in held[w]
      BY <1>0, <2>1, LateClaimKeeps DEF WriteKeeps
    <2>3. worker' = worker /\ stopping' = stopping /\ grace' = grace /\ failed' = failed /\ exec' = exec
      BY <2>1 DEF workerVars
    <2>4. Typed'
      BY <1>0, <2>3 DEF Typed
    <2>5. \A e \in Slots : SlotInv(e)'
      BY <1>0, <2>3 DEF SlotInv, Busy
    <2>6. WorkerInv(w)'
      <3>1. \A j \in Jobs : (Owns(w, j)' /\ jobs'[j].started) => Owns(w, j) /\ jobs[j].started
        BY <2>2 DEF GainsUnstarted, Owns
      <3>2. WorkerInv(w)
        BY <1>0
      <3> QED
        BY <2>3, <3>1, <3>2 DEF WorkerInv, AnswersFor, Answering
    <2>7. ASSUME OneSlot, SingleInv, NEW e \in Slots, OwnerOf[e] = w
          PROVE  HandlerInv(e)'
      <3>1. HandlerInv(e) /\ SlotInv(e)
        BY <1>0, <2>7 DEF SingleInv
      <3>2. Busy(e) => jobs'[exec[e].job] = jobs[exec[e].job]
        BY <2>2, <2>7, <3>1 DEF HandlerInv, SlotInv
      <3>3. held'[OwnerOf[e]] \subseteq held[OwnerOf[e]]
        BY <2>2, <2>7
      <3> QED
        BY <2>2, <2>3, <3>1, <3>2, <3>3 DEF HandlerInv, Busy, OwnsJob, Owns
    <2> QED
      BY <2>2, <2>3, <2>4, <2>5, <2>6, <2>7, LoopStep
  <1> QED
    BY <1>1, <1>2, <1>3 DEF ServerNext

\* A worker is told to stop.
LEMMA RequestStopKeeps ==
    ASSUME QueueInv, NEW w \in Workers, RequestStop(w)
    PROVE  QueueKeeps
  <1>1. /\ UNCHANGED <<storeVars, exec, worker, grace, failed>> /\ stopping' \in [Workers -> BOOLEAN]
        /\ exec \in [Slots -> Execution] /\ Typed /\ StoreInv
    BY DEF RequestStop, QueueInv, Typed, Set
  <1>2. WriteKeeps(w) /\ jobs' = jobs /\ held' = held /\ taken' = taken
    BY <1>1, StoreIdle
  <1>3. Typed'
    BY <1>1 DEF Typed
  <1>4. (\A e \in Slots : SlotInv(e)') /\ WorkerInv(w)'
    BY <1>1, <1>2 DEF QueueInv, SlotInv, WorkerInv, Busy, AnswersFor, Answering, Owns
  <1>5. SingleInv => \A e \in Slots : HandlerInv(e)'
    BY <1>1, <1>2 DEF SingleInv, HandlerInv, Busy, OwnsJob, Owns
  <1> QED
    BY <1>1, <1>2, <1>3, <1>4, <1>5, LoopStep

-----------------------------------------------------------------------------
(***************************************************************************)
(* The specification.                                                      *)
(***************************************************************************)

\* The tables are empty, and no task runs.
LEMMA QueueInitInv ==
    ASSUME QueueInit
    PROVE  QueueInv /\ SingleInv
  <1>1. /\ jobs = [j \in Jobs |-> UnusedRow] /\ paused = {} /\ held = [w \in Workers |-> {}] /\ taken = {}
        /\ worker = [w \in Workers |-> IF w \in OnceWorkers THEN "claiming" ELSE "waiting"]
        /\ stopping = [w \in Workers |-> FALSE] /\ grace = [w \in Workers |-> FALSE] /\ failed = [w \in Workers |-> FALSE]
        /\ exec = [e \in Slots |-> FreeSlot]
    BY DEF QueueInit, StoreInit
  <1>2. RowOK(UnusedRow) /\ ~Active(UnusedRow) /\ UnusedRow \in JobRow /\ UnusedRow.status = "unused"
    BY AbsentRows DEF RowOK, UnusedRow
  <1>3. \A j \in Jobs : jobs[j] = UnusedRow
    BY <1>1
  <1>4. StoreInv
    BY <1>1, <1>2, <1>3 DEF StoreInv, HeldInv, OneActive
  <1>5. \A e \in Slots : exec[e].pc = "free"
    BY <1>1, FreeSlotIs
  <1>6. Typed
    BY <1>1, FreeSlotIs DEF Typed, WorkerStates
  <1>7. \A e \in Slots : SlotInv(e) /\ HandlerInv(e)
    BY <1>5 DEF SlotInv, HandlerInv, Busy
  <1>8. \A w \in Workers : WorkerInv(w)
    <2>1. \A w \in Workers, j \in Jobs : ~Owns(w, j)
      BY <1>2, <1>3 DEF Owns
    <2> QED
      BY <1>1, <2>1 DEF WorkerInv
  <1> QED
    BY <1>4, <1>6, <1>7, <1>8 DEF QueueInv, SingleInv

\* One step of the queue.
LEMMA QueueNextKeeps ==
    ASSUME QueueInv, [QueueNext]_allVars
    PROVE  QueueKeeps
  <1>6. CASE \E e \in Slots : AbortedHandlerEnds(e)
    BY <1>6, AbortedEndKeeps
  <1>1. CASE \E e \in Slots : TaskNext(e)
    <2>1. PICK e \in Slots : TaskNext(e)
      BY <1>1
    <2>2. CASE \E result \in {"ok", "retryable", "permanent"} : HandlerEnds(e, result)
      BY <2>2, HandlerKeeps
    <2>3. CASE TouchHeartbeat(e) \/ HeartbeatFails(e) \/ CancelHandler(e)
      <3>1. PICK r \in {"ok", "retryable", "permanent"} : r = "ok"
        OBVIOUS
      <3> QED
        BY <2>3, <3>1, HandlerKeeps
    <2> QED
      BY <2>1, <2>2, <2>3, StartKeeps, FinishKeeps DEF TaskNext
  <1>2. CASE \E w \in Workers : LoopNext(w) \/ RequestStop(w) \/ GraceExpires(w) \/ OnceDropped(w) \/ Crash(w)
    BY <1>2, LoopKeeps, RequestStopKeeps
  <1>3. CASE OperatorNext
    BY <1>3, OperatorNextKeeps
  <1>4. CASE (\E S \in SUBSET Jobs : Reclaim(S)) \/ ServerNext
    BY <1>4, ServerKeeps
  <1>5. CASE UNCHANGED allVars
    <2>1. /\ jobs' = jobs /\ paused' = paused /\ held' = held /\ taken' = taken /\ UNCHANGED workerVars
          /\ worker' = worker /\ stopping' = stopping /\ grace' = grace /\ failed' = failed /\ exec' = exec
      BY <1>5 DEF allVars, storeVars, workerVars
    <2>2. StoreInv'
      BY <2>1 DEF QueueInv, StoreInv, HeldInv, OneActive
    <2>3. CallKeeps
      BY <2>1, <2>2 DEF CallKeeps, NoGain, NoTaking, Owns
    <2> QED
      BY <2>1, <2>3, QuietCall
  <1> QED
    BY <1>1, <1>2, <1>3, <1>4, <1>5, <1>6 DEF QueueNext

\* What the invariant says of the properties.
LEMMA QueueInvImplies ==
    ASSUME QueueInv
    PROVE  TablesAreSound /\ RetryBudget
  <1>0. StoreInv /\ Typed /\ (\A e \in Slots : SlotInv(e)) /\ (\A w \in Workers : WorkerInv(w)) /\ \A j \in Jobs : RowOK(jobs[j])
    BY DEF QueueInv, StoreInv
  <1>1. QueueTypeOK
    BY <1>0 DEF QueueTypeOK, StoreTypeOK, StoreInv, RowOK, Typed
  <1>2. OneActiveJobPerKey
    <2>1. OneActive
      BY <1>0 DEF StoreInv
    <2> QED
      BY <2>1 DEF OneActiveJobPerKey, OneActive, Active, InStatus
  <1>3. CleanStopOwnsNoStartedJob
    <2> SUFFICES ASSUME NEW w \in Workers, worker[w] = "stopped", ~failed[w], NEW j \in Jobs, Owns(w, j), jobs[j].started
                 PROVE  FALSE
      BY DEF CleanStopOwnsNoStartedJob
    <2>1. worker[w] \notin CleanupStates \union {"crashed"}
      BY DEF CleanupStates
    <2>2. PICK e \in Slots : OwnerOf[e] = w /\ AnswersFor(e, j)
      BY <1>0, <2>1 DEF WorkerInv
    <2>3. Busy(e)
      BY <2>2 DEF AnswersFor, Answering, Busy
    <2> QED
      BY <1>0, <2>2, <2>3 DEF SlotInv
  <1>4. RetryBudget
    BY <1>0 DEF RetryBudget, InStatus, RowOK
  <1> QED
    BY <1>1, <1>2, <1>3, <1>4 DEF TablesAreSound

\* What it says as well of workers with one slot.
LEMMA SingleInvImplies ==
    ASSUME QueueInv, OneSlot, SingleInv
    PROVE  OnlyCancelledHandlersOverlap /\ DisplacedTaskIsLost
  <1>1. \A e \in Slots : HandlerInv(e)
    BY DEF SingleInv
  <1>2. OnlyCancelledHandlersOverlap
    <2> SUFFICES ASSUME NEW d \in Slots, NEW e \in Slots, d # e, HandlerRuns(d), HandlerRuns(e),
                        exec[d].job = exec[e].job, exec[d].job \notin taken, ~Cancelled(d), ~Cancelled(e)
                 PROVE  FALSE
      BY DEF OnlyCancelledHandlersOverlap
    <2>1. SlotInv(d) /\ SlotInv(e)
      BY DEF QueueInv
    <2>2. exec[d].pc = "running" /\ exec[e].pc = "running"
      BY <2>1 DEF HandlerRuns, Cancelled, SlotInv
    <2>3. OwnsJob(d) /\ OwnsJob(e)
      BY <1>1, <2>2 DEF HandlerInv
    <2> QED
      BY <2>3 DEF OwnsJob, Owns, OneSlot
  <1>3. DisplacedTaskIsLost
    BY <1>1 DEF HandlerInv, DisplacedTaskIsLost
  <1> QED
    BY <1>2, <1>3

\* The invariant holds of every instance of the queue.
THEOREM QueueInvariance == QueueSpec => []QueueInv
  <1>1. QueueInit => QueueInv
    BY QueueInitInv
  <1>2. QueueInv /\ [QueueNext]_allVars => QueueInv'
    BY QueueNextKeeps DEF QueueKeeps
  <1> QED
    BY <1>1, <1>2, PTL DEF QueueSpec

\* However many jobs, workers and slots there are: the rows are well formed, a
\* dedupe key has one active job, a worker that stopped cleanly owns no started
\* job.
THEOREM QueueTables == QueueSpec => []TablesAreSound
  <1>1. QueueInv => TablesAreSound
    BY QueueInvImplies
  <1> QED
    BY <1>1, QueueInvariance, PTL

\* No job that may run again has used more than its retries, although a retry
\* writes a count the worker computed from its own copy of the job.
THEOREM QueueRetries == QueueSpec => []RetryBudget
  <1>1. QueueInv => RetryBudget
    BY QueueInvImplies
  <1> QED
    BY <1>1, QueueInvariance, PTL

\* With one slot to a worker the stronger invariant holds as well.
THEOREM OneSlotInvariance ==
    ASSUME OneSlot
    PROVE  QueueSpec => [](QueueInv /\ SingleInv)
  <1>1. QueueInit => QueueInv /\ SingleInv
    BY QueueInitInv
  <1>2. QueueInv /\ SingleInv /\ [QueueNext]_allVars => QueueInv' /\ SingleInv'
    BY OneSlot, QueueNextKeeps DEF QueueKeeps
  <1> QED
    BY <1>1, <1>2, PTL DEF QueueSpec

\* With one slot to a worker, two handlers of one job run at once only if the
\* job was taken from its worker (forced back, or reclaimed after it had
\* started), or if one of them has been told to abort by a worker that gave up.
THEOREM QueueHandlers ==
    ASSUME OneSlot
    PROVE  QueueSpec => []OnlyCancelledHandlersOverlap
  <1>1. QueueInv /\ SingleInv => OnlyCancelledHandlersOverlap
    BY OneSlot, SingleInvImplies
  <1>2. QueueSpec => [](QueueInv /\ SingleInv)
    BY OneSlot, OneSlotInvariance
  <1> QED
    BY <1>1, <1>2, PTL

\* With one slot to a worker, a task whose job was taken from it reports it
\* lost or ends in an error; it never counts it as persisted.
THEOREM QueueDisplaced ==
    ASSUME OneSlot
    PROVE  QueueSpec => []DisplacedTaskIsLost
  <1>1. QueueInv /\ SingleInv => DisplacedTaskIsLost
    BY OneSlot, SingleInvImplies
  <1>2. QueueSpec => [](QueueInv /\ SingleInv)
    BY OneSlot, OneSlotInvariance
  <1> QED
    BY <1>1, <1>2, PTL


-----------------------------------------------------------------------------
(***************************************************************************)
(* Calls inside transactions (QueueTransactions).                          *)
(*                                                                         *)
(* What a transaction has written is locked, so the row it replaces is     *)
(* still the committed one and nobody else replaces it.  A session that    *)
(* runs a job believes what the row says, or the job was taken from it;    *)
(* and a running row has a session that runs it and has seen it (Runner).  *)
(***************************************************************************)
\* The version of the row j that the transaction t leaves.
VersionIn(t, j) == IF j \in DOMAIN t.writes THEN t.writes[j] ELSE jobs[j]

Shaped(s, t) ==
    /\ t \in [at : {"none", "open", "snapshot"}, calls : 0 .. MaxCalls[s], attempts : 0 .. MaxAttempts - 1,
              seen : {t.seen}, writes : {t.writes}, effects : SUBSET Jobs, takes : SUBSET Jobs,
              mine : Jobs \union {NoJob}, live : BOOLEAN]
    /\ (t.at = "none" => t = NoTx) /\ (t.at = "snapshot" => t.calls < MaxCalls[s])
    /\ DOMAIN t.writes \subseteq Jobs

\* A row that is there stays there until it is deleted; a completed one can only
\* be deleted, and it is completed together with its effect.
VersionsOK(t) ==
    /\ \A j \in DOMAIN t.writes :
          /\ RowOK(t.writes[j]) /\ t.writes[j].status # "unused"
          /\ jobs[j].status \in {"completed", "gone"} => t.writes[j].status = "gone"
          /\ t.writes[j].status = "completed" => j \in t.effects
    /\ \A j \in t.effects :
          /\ j \in DOMAIN t.writes /\ t.writes[j].status \in {"completed", "gone"}
          /\ jobs[j].status \notin {"completed", "gone"}

SameKey(r, q) == Active(r) /\ Active(q) /\ r.key # NoKey /\ r.key = q.key

KeysDiffer(t) == \A i, j \in Jobs : i # j => ~SameKey(VersionIn(t, i), VersionIn(t, j))

SeenOK(t) == t.at = "snapshot" => \A j \in Jobs : t.seen[j].status # "unused" => VersionIn(t, j).status # "unused"

\* The worker of the session s owns the row.
Has(s, r) == r.status = "running" /\ r.worker = WorkerOf[s]

\* Only the session that runs a job writes a running row; a running row is
\* replaced by its worker or taken on the record.
RunsOK(s, t) ==
    \A j \in DOMAIN t.writes :
        /\ t.writes[j].status = "running" => s \in WorkerSessions /\ Has(s, t.writes[j]) /\ t.mine = j
        /\ jobs[j].status = "running" =>
              \/ j \in t.takes
              \/ /\ s \in WorkerSessions /\ Has(s, jobs[j])
                 /\ session[s].mine = j \/ (~jobs[j].started /\ WorkerOf[s] \in shutdown)

\* What a worker session's transaction knows of its job.
MineOK(s, t) ==
    s \in WorkerSessions /\ t.at # "none" =>
        /\ t.live => t.mine # NoJob
        /\ t.mine # NoJob /\ t.mine \notin DOMAIN t.writes => session[s].mine = t.mine /\ session[s].live = t.live
        /\ session[s].mine # NoJob /\ session[s].mine \notin DOMAIN t.writes => t.mine = session[s].mine
        /\ t.mine \in DOMAIN t.writes =>
              LET r == t.writes[t.mine]
                  c == jobs[t.mine]
              IN  /\ Has(s, r) \/ WorkerOf[s] \in shutdown \/ t.mine \in t.takes \union taken
                  /\ Has(s, r) /\ r.started # t.live =>
                        Has(s, c) /\ c.started = r.started /\ session[s].mine = t.mine /\ session[s].live = t.live
                  /\ t.live => (Has(s, r) /\ r.started) \/ t.mine \in t.takes \union taken

TxOK(s, t) ==
    Shaped(s, t) /\ VersionsOK(t) /\ KeysDiffer(t) /\ SeenOK(t) /\ RunsOK(s, t) /\ MineOK(s, t)

\* Two transactions: they lock different rows, and what they write does not
\* conflict whatever is committed.
Apart(t, u) ==
    /\ DOMAIN t.writes \intersect DOMAIN u.writes = {}
    /\ \A i \in DOMAIN t.writes, j \in DOMAIN u.writes : ~SameKey(t.writes[i], u.writes[j])

Siblings(s, o) == s \in WorkerSessions /\ o \in WorkerSessions /\ s # o /\ WorkerOf[s] = WorkerOf[o]

\* Two sessions of a worker run the same job only if it was taken from one of them.
ShareTaken ==
    \A s, o \in WorkerSessions : Siblings(s, o) /\ session[o].mine # NoJob =>
        /\ session[s].mine = session[o].mine => session[o].mine \in taken
        /\ tx[s].mine = session[o].mine => session[o].mine \in taken \union tx[s].takes

\* What a session believes of its job.
SessionOK(s) ==
    /\ session[s].live => session[s].mine # NoJob
    /\ session[s].mine # NoJob =>
          /\ session[s].mine \in taken \/ Has(s, jobs[session[s].mine]) \/ WorkerOf[s] \in shutdown
          /\ session[s].live => session[s].mine \in taken
                                \/ (Has(s, jobs[session[s].mine]) /\ jobs[session[s].mine].started)
    /\ session[s].mine \notin told[s]

\* The session o runs the job j as its row says, and its open call has seen that.
Runner(o, j) ==
    /\ session[o].mine = j /\ session[o].live = jobs[j].started
    /\ tx[o].at = "snapshot" =>
          j \in DOMAIN tx[o].writes \/ (Has(o, tx[o].seen[j]) /\ tx[o].seen[j].started = jobs[j].started)

RunnersOK ==
    \A s \in WorkerSessions, j \in Jobs :
        Has(s, jobs[j]) => \E o \in WorkerSessions : WorkerOf[o] = WorkerOf[s] /\ Runner(o, j)

AnswersOK ==
    \A p \in Producers : answer[p].kind = "deduplicated" =>
        answer[p].job \in Jobs /\ VersionIn(tx[p], answer[p].job).status # "unused"

EffectsOK ==
    /\ effects \in [Jobs -> 0 .. 1]
    /\ \A j \in Jobs : /\ jobs[j].status = "completed" => effects[j] = 1
                       /\ jobs[j].status \notin {"completed", "gone"} => effects[j] = 0

TransactionsTyped ==
    /\ jobs \in [Jobs -> JobRow] /\ (\A j \in Jobs : RowOK(jobs[j]))
    /\ paused \subseteq PauseKeys /\ held \in [Workers -> SUBSET Jobs] /\ taken \subseteq Jobs
    /\ tx = [s \in Sessions |-> tx[s]] /\ answer = [p \in Producers |-> answer[p]]
    /\ session \in [WorkerSessions -> [mine : Jobs \union {NoJob}, live : BOOLEAN]]
    /\ told \in [WorkerSessions -> SUBSET Jobs] /\ shutdown \subseteq Workers

TransactionsInv ==
    /\ TransactionsTyped /\ OneActive /\ EffectsOK
    /\ \A s \in Sessions : TxOK(s, tx[s])
    /\ \A s, o \in Sessions : s # o => Apart(tx[s], tx[o])
    /\ \A s \in WorkerSessions : SessionOK(s)
    /\ ShareTaken /\ RunnersOK /\ AnswersOK


\* The columns that a WHERE clause tests.
LEMMA WhereIs ==
    /\ \A r, S : Matches(r, StatusIn(S)) <=> r.status \in S
    /\ \A s, r, S : Matches(r, Owned(s, S)) <=> Has(s, r) /\ r.started \in S
    /\ \A r, S : Matches(r, Running(S)) <=> r.status = "running" /\ r.started \in S
  <1>1. ASSUME NEW r, NEW S PROVE Matches(r, StatusIn(S)) <=> r.status \in S
    BY DEF Matches, StatusIn
  <1>2. ASSUME NEW s, NEW r, NEW S PROVE Matches(r, Owned(s, S)) <=> Has(s, r) /\ r.started \in S
    BY DEF Matches, Owned, Has
  <1>3. ASSUME NEW r, NEW S PROVE Matches(r, Running(S)) <=> r.status = "running" /\ r.started \in S
    BY DEF Matches, Running
  <1> QED
    BY <1>1, <1>2, <1>3

\* The version of a row in a transaction, and whose lock it is under.
LEMMA LatestIs ==
    ASSUME TransactionsInv, NEW s \in Sessions, NEW j \in Jobs
    PROVE  /\ Latest(s, j) = VersionIn(tx[s], j) /\ RowOK(Latest(s, j)) /\ Latest(s, j) \in JobRow
           /\ j \notin DOMAIN tx[s].writes => Latest(s, j) = jobs[j]
           /\ j \in DOMAIN tx[s].writes => Latest(s, j) = tx[s].writes[j]
           /\ ~LockedByOther(s, j) => \A o \in Sessions \ {s} : j \notin DOMAIN tx[o].writes
  <1>1. RowOK(jobs[j]) /\ (j \in DOMAIN tx[s].writes => RowOK(tx[s].writes[j]))
    BY DEF TransactionsInv, TransactionsTyped, TxOK, VersionsOK
  <1>2. Latest(s, j) = VersionIn(tx[s], j)
    BY DEF Latest, VersionIn
  <1> QED
    BY <1>1, <1>2 DEF VersionIn, RowOK, LockedByOther

\* A transaction that has nothing.
LEMMA NoTxIs ==
    /\ NoTx.at = "none" /\ NoTx.calls = 0 /\ NoTx.attempts = 0 /\ NoTx.effects = {} /\ NoTx.takes = {}
    /\ NoTx.mine = NoJob /\ NoTx.live = FALSE /\ NoTx.writes = NoRows /\ NoTx.seen = NoRows /\ DOMAIN NoRows = {}
    /\ \A j : VersionIn(NoTx, j) = jobs[j]
    /\ \A s \in Sessions : Shaped(s, NoTx)
  <1>1. /\ NoTx.at = "none" /\ NoTx.calls = 0 /\ NoTx.attempts = 0 /\ NoTx.effects = {} /\ NoTx.takes = {}
        /\ NoTx.mine = NoJob /\ NoTx.live = FALSE /\ NoTx.writes = NoRows /\ NoTx.seen = NoRows
    BY DEF NoTx
  <1>2. DOMAIN NoRows = {}
    BY DEF NoRows
  <1>3. \A j : VersionIn(NoTx, j) = jobs[j]
    BY <1>1, <1>2 DEF VersionIn
  <1>4. ASSUME NEW s \in Sessions PROVE Shaped(s, NoTx)
    <2>1. MaxCalls[s] \in Nat \ {0} /\ MaxAttempts \in Nat \ {0}
      BY SessionAssumption DEF Sessions
    <2>2. 0 \in 0 .. MaxCalls[s] /\ 0 \in 0 .. MaxAttempts - 1
      BY <2>1
    <2>3. NoTx \in [at : {"none", "open", "snapshot"}, calls : 0 .. MaxCalls[s], attempts : 0 .. MaxAttempts - 1,
                    seen : {NoRows}, writes : {NoRows}, effects : SUBSET Jobs, takes : SUBSET Jobs,
                    mine : Jobs \union {NoJob}, live : BOOLEAN]
      BY <2>2 DEF NoTx
    <2> QED
      BY <1>1, <1>2, <2>3 DEF Shaped
  <1> QED
    BY <1>1, <1>2, <1>3, <1>4

\* A transaction without writes is in order, as the committed rows are.
LEMMA NoTxOK ==
    ASSUME TransactionsInv, NEW s \in Sessions
    PROVE  TxOK(s, NoTx) /\ (\A u : Apart(NoTx, u) /\ Apart(u, NoTx))
  <1>1. KeysDiffer(NoTx)
    BY NoTxIs DEF KeysDiffer, SameKey, TransactionsInv, OneActive
  <1>2. VersionsOK(NoTx) /\ RunsOK(s, NoTx) /\ SeenOK(NoTx) /\ MineOK(s, NoTx)
    BY NoTxIs DEF VersionsOK, RunsOK, SeenOK, MineOK
  <1>3. \A u : Apart(NoTx, u) /\ Apart(u, NoTx)
    BY NoTxIs DEF Apart
  <1> QED
    BY <1>1, <1>2, <1>3, NoTxIs DEF TxOK

\* Whose versions conflict does not depend on the order.
LEMMA ApartIsMutual ==
    ASSUME NEW t, NEW u, Apart(t, u)
    PROVE  Apart(u, t)
  BY DEF Apart, SameKey

\* One transaction moves on; nothing is committed.
LEMMA TransactionMoves ==
    ASSUME TransactionsInv, NEW s \in Sessions, NEW n, tx' = [tx EXCEPT ![s] = n],
           UNCHANGED <<storeVars, session, shutdown, told, effects>>, TxOK(s, n),
           \A o \in Sessions \ {s} : Apart(n, tx[o]),
           n.at = "snapshot" => \A j \in Jobs : j \in DOMAIN n.writes \/ n.seen[j] = jobs[j],
           \A o \in WorkerSessions : Siblings(s, o) /\ n.mine = session[o].mine /\ n.mine # NoJob
                                        => n.mine \in taken \union n.takes,
           answer' = [p \in Producers |-> answer'[p]],
           \A p \in Producers : answer'[p].kind = "deduplicated" =>
               answer'[p].job \in Jobs /\ VersionIn(IF p = s THEN n ELSE tx[p], answer'[p].job).status # "unused"
    PROVE  TransactionsInv'
  <1>0. /\ tx = [o \in Sessions |-> tx[o]] /\ WorkerSessions \subseteq Sessions /\ Producers \subseteq Sessions
        /\ UNCHANGED <<jobs, paused, held, taken, session, shutdown, told, effects>>
    BY DEF TransactionsInv, TransactionsTyped, Sessions, storeVars
  <1>1. /\ tx' = [o \in Sessions |-> tx'[o]] /\ tx'[s] = n /\ \A o \in Sessions \ {s} : tx'[o] = tx[o]
    BY <1>0
  <1>2. (TransactionsTyped /\ OneActive /\ EffectsOK)'
    BY <1>0, <1>1 DEF TransactionsInv, TransactionsTyped, OneActive, EffectsOK
  <1>3. ASSUME NEW o \in Sessions PROVE TxOK(o, tx[o])'
    <2>1. PICK t : t = tx'[o]
      OBVIOUS
    <2>2. TxOK(o, t)
      BY <1>1, <2>1 DEF TransactionsInv
    <2>3. TxOK(o, t)'
      BY <1>0, <2>2 DEF TxOK, Shaped, VersionsOK, KeysDiffer, SeenOK, RunsOK, MineOK, VersionIn
    <2> QED
      BY <2>1, <2>3
  <1>4. ASSUME NEW o \in Sessions, NEW q \in Sessions, o # q PROVE Apart(tx[o], tx[q])'
    <2>1. Apart(tx'[o], tx'[q])
      <3>1. CASE o = s
        <4>1. tx'[o] = n /\ tx'[q] = tx[q] /\ q \in Sessions \ {s}
          BY <1>1, <1>4, <3>1
        <4>2. Apart(n, tx[q])
          BY <4>1
        <4> QED
          BY <4>1, <4>2
      <3>2. CASE q = s
        <4>1. tx'[q] = n /\ tx'[o] = tx[o] /\ o \in Sessions \ {s}
          BY <1>1, <1>4, <3>2
        <4>2. Apart(tx[o], n)
          BY <4>1, ApartIsMutual
        <4> QED
          BY <4>1, <4>2
      <3>3. CASE o # s /\ q # s
        <4>1. tx'[q] = tx[q] /\ tx'[o] = tx[o]
          BY <1>1, <3>3
        <4>2. Apart(tx[o], tx[q])
          BY <1>4, Zenon DEF TransactionsInv
        <4> QED
          BY <4>1, <4>2
      <3> QED
        BY <3>1, <3>2, <3>3
    <2> QED
      BY <2>1 DEF Apart, SameKey
  <1>5. ASSUME NEW o \in WorkerSessions PROVE SessionOK(o)'
    BY <1>0 DEF TransactionsInv, SessionOK, Has
  <1>6. ShareTaken'
    <2> SUFFICES ASSUME NEW a \in WorkerSessions, NEW o \in WorkerSessions, Siblings(a, o), session[o].mine # NoJob
                 PROVE  /\ session[a].mine = session[o].mine => session[o].mine \in taken
                        /\ tx'[a].mine = session[o].mine => session[o].mine \in taken \union tx'[a].takes
      BY <1>0 DEF ShareTaken, Siblings
    <2> QED
      BY <1>0, <1>1 DEF TransactionsInv, ShareTaken
  <1>7. RunnersOK'
    <2> SUFFICES ASSUME NEW a \in WorkerSessions, NEW j \in Jobs, Has(a, jobs[j])
                 PROVE  \E o \in WorkerSessions : WorkerOf[o] = WorkerOf[a] /\ Runner(o, j)'
      BY <1>0 DEF RunnersOK, Has
    <2>1. PICK o \in WorkerSessions : WorkerOf[o] = WorkerOf[a] /\ Runner(o, j)
      BY DEF TransactionsInv, RunnersOK
    <2>2. CASE o # s
      <3>1. Runner(o, j)'
        BY <1>0, <1>1, <2>1, <2>2 DEF Runner, Has
      <3> QED
        BY <2>1, <3>1
    <2>3. CASE o = s
      <3>1. Has(s, jobs[j])
        BY <2>1, <2>3 DEF Has
      <3>2. n.at = "snapshot" => j \in DOMAIN n.writes \/ (Has(s, n.seen[j]) /\ n.seen[j].started = jobs[j].started)
        BY <3>1
      <3>3. Runner(o, j)'
        BY <1>0, <1>1, <2>1, <2>3, <3>2 DEF Runner, Has
      <3> QED
        BY <2>1, <3>3
    <2> QED
      BY <2>2, <2>3
  <1>8. AnswersOK'
    <2> SUFFICES ASSUME NEW p \in Producers, answer'[p].kind = "deduplicated"
                 PROVE  answer'[p].job \in Jobs /\ VersionIn(tx[p], answer[p].job)'.status # "unused"
      BY DEF AnswersOK
    <2>1. tx'[p] = IF p = s THEN n ELSE tx[p]
      BY <1>0, <1>1
    <2> QED
      BY <1>0, <2>1 DEF VersionIn
  <1> QED
    BY <1>2, <1>3, <1>4, <1>5, <1>6, <1>7, <1>8 DEF TransactionsInv


\* A key that no version in sight of the session s has.
FreeKey(s, key) == key = NoKey \/ (IndexEntries(s, key) = {} /\ ~MustWait(s, key))

\* What the session s may write over the row j: the new row keeps the key it is
\* active under, or it is active under a free one.
Replaces(s, j, r) ==
    /\ ~LockedByOther(s, j) /\ RowOK(r) /\ r.status # "unused"
    /\ Latest(s, j).status \in {"completed", "gone"} => r.status = "gone"
    /\ Active(r) => (Active(Latest(s, j)) /\ Latest(s, j).key = r.key) \/ FreeKey(s, r.key)

\* The versions after a call that wrote rows.
Written(s, rows, n) ==
    /\ DOMAIN n.writes = DOMAIN rows \union DOMAIN tx[s].writes /\ DOMAIN n.writes \subseteq Jobs
    /\ \A j \in DOMAIN rows : n.writes[j] = rows[j] /\ VersionIn(n, j) = rows[j]
    /\ \A j \in DOMAIN tx[s].writes \ DOMAIN rows : n.writes[j] = tx[s].writes[j]
    /\ \A j \in Jobs \ DOMAIN rows : VersionIn(n, j) = Latest(s, j)

\* What a call writes.
LEMMA WritingIs ==
    ASSUME TransactionsInv, NEW s \in Sessions, NEW rows, DOMAIN rows \subseteq Jobs, NEW n, n.writes = Writing(s, rows)
    PROVE  Written(s, rows, n)
  <1>1. DOMAIN tx[s].writes \subseteq Jobs
    BY DEF TransactionsInv, TxOK, Shaped
  <1>2. n.writes = [j \in DOMAIN rows \union DOMAIN tx[s].writes |->
                        IF j \in DOMAIN rows THEN rows[j] ELSE tx[s].writes[j]]
    BY DEF Writing
  <1>3. DOMAIN n.writes = DOMAIN rows \union DOMAIN tx[s].writes
    BY <1>2
  <1>4. \A j \in DOMAIN rows : n.writes[j] = rows[j]
    BY <1>2
  <1>5. \A j \in DOMAIN tx[s].writes \ DOMAIN rows : n.writes[j] = tx[s].writes[j]
    BY <1>2
  <1> QED
    BY <1>1, <1>3, <1>4, <1>5 DEF Written, VersionIn, Latest

\* The keys of rows that were written differ from those of the other versions.
LEMMA KeysWritten ==
    ASSUME TransactionsInv, NEW s \in Sessions, NEW rows, DOMAIN rows \subseteq Jobs, NEW n, n.writes = Writing(s, rows),
           \A j \in DOMAIN rows : Replaces(s, j, rows[j]),
           \A i, j \in DOMAIN rows : i # j /\ Active(rows[i]) /\ Active(rows[j]) =>
               Active(Latest(s, i)) /\ Latest(s, i).key = rows[i].key /\ Active(Latest(s, j)) /\ Latest(s, j).key = rows[j].key
    PROVE  KeysDiffer(n)
  <1> SUFFICES ASSUME NEW i \in Jobs, NEW j \in Jobs, i # j, SameKey(VersionIn(n, i), VersionIn(n, j)) PROVE FALSE
    BY DEF KeysDiffer
  <1>1. ~SameKey(Latest(s, i), Latest(s, j))
    <2>1. KeysDiffer(tx[s])
      BY DEF TransactionsInv, TxOK
    <2> QED
      BY <2>1, LatestIs DEF KeysDiffer
  <1>2. ASSUME NEW a \in Jobs, NEW b \in Jobs, a \in DOMAIN rows, b \notin DOMAIN rows,
               SameKey(rows[a], Latest(s, b)), ~SameKey(Latest(s, a), Latest(s, b))
        PROVE  FALSE
    <2>1. FreeKey(s, rows[a].key) /\ rows[a].key # NoKey
      BY <1>2 DEF Replaces, SameKey
    <2>2. b \in IndexEntries(s, rows[a].key)
      BY <1>2 DEF IndexEntries, HasKey, SameKey, Active
    <2> QED
      BY <2>1, <2>2 DEF FreeKey
  <1>3. CASE i \in DOMAIN rows /\ j \in DOMAIN rows
    BY <1>1, <1>3, WritingIs DEF Written, SameKey
  <1>4. CASE i \in DOMAIN rows /\ j \notin DOMAIN rows
    <2>1. VersionIn(n, i) = rows[i] /\ VersionIn(n, j) = Latest(s, j)
      BY <1>4, WritingIs DEF Written
    <2> QED
      BY <1>1, <1>2, <1>4, <2>1
  <1>5. CASE i \notin DOMAIN rows /\ j \in DOMAIN rows
    <2>1. VersionIn(n, j) = rows[j] /\ VersionIn(n, i) = Latest(s, i)
      BY <1>5, WritingIs DEF Written
    <2>2. SameKey(rows[j], Latest(s, i)) /\ ~SameKey(Latest(s, j), Latest(s, i))
      BY <1>1, <2>1 DEF SameKey
    <2> QED
      BY <1>2, <1>5, <2>2
  <1>6. CASE i \notin DOMAIN rows /\ j \notin DOMAIN rows
    <2>1. VersionIn(n, i) = Latest(s, i) /\ VersionIn(n, j) = Latest(s, j)
      BY <1>6, WritingIs DEF Written
    <2> QED
      BY <1>1, <2>1
  <1> QED
    BY <1>3, <1>4, <1>5, <1>6

\* Nobody else has locked them, or written a version they conflict with.
LEMMA WritesApart ==
    ASSUME TransactionsInv, NEW s \in Sessions, NEW rows, DOMAIN rows \subseteq Jobs, NEW n, n.writes = Writing(s, rows),
           \A j \in DOMAIN rows : Replaces(s, j, rows[j]), NEW o \in Sessions \ {s}
    PROVE  Apart(n, tx[o])
  <1>1. Apart(tx[s], tx[o])
    BY Zenon DEF TransactionsInv
  <1>2. DOMAIN tx[o].writes \subseteq Jobs /\ KeysDiffer(tx[o])
    BY DEF TransactionsInv, TxOK, Shaped
  <1>3. \A j \in DOMAIN rows : j \notin DOMAIN tx[o].writes
    BY LatestIs DEF Replaces
  <1>4. DOMAIN n.writes \intersect DOMAIN tx[o].writes = {}
    BY <1>1, <1>3, WritingIs DEF Written, Apart
  <1>5. ASSUME NEW i \in DOMAIN n.writes, NEW j \in DOMAIN tx[o].writes, SameKey(n.writes[i], tx[o].writes[j]) PROVE FALSE
    <2>1. CASE i \notin DOMAIN rows
      <3>1. i \in DOMAIN tx[s].writes /\ n.writes[i] = tx[s].writes[i]
        BY <2>1, WritingIs DEF Written
      <3> QED
        BY <1>1, <1>5, <3>1 DEF Apart
    <2>2. CASE i \in DOMAIN rows
      <3>1. i \in Jobs /\ j \in Jobs /\ i # j /\ n.writes[i] = rows[i] /\ Replaces(s, i, rows[i])
        BY <1>2, <1>3, <2>2, WritingIs DEF Written
      <3>2. CASE FreeKey(s, rows[i].key)
        <4>1. ~HasKey(tx[o].writes[j], rows[i].key)
          BY <1>5, <3>1, <3>2 DEF FreeKey, MustWait, SameKey
        <4> QED
          BY <1>5, <3>1, <4>1 DEF HasKey, SameKey, Active
      <3>3. CASE ~FreeKey(s, rows[i].key)
        <4>1. SameKey(Latest(s, i), tx[o].writes[j])
          BY <1>5, <3>1, <3>3 DEF Replaces, SameKey
        <4>2. CASE i \in DOMAIN tx[s].writes
          <5>1. Latest(s, i) = tx[s].writes[i]
            BY <3>1, <4>2, LatestIs
          <5> QED
            BY <1>1, <4>1, <4>2, <5>1 DEF Apart
        <4>3. CASE i \notin DOMAIN tx[s].writes
          <5>1. Latest(s, i) = VersionIn(tx[o], i) /\ tx[o].writes[j] = VersionIn(tx[o], j)
            BY <1>3, <2>2, <3>1, <4>3, LatestIs DEF VersionIn
          <5> QED
            BY <1>2, <3>1, <4>1, <5>1 DEF KeysDiffer
        <4> QED
          BY <4>2, <4>3
      <3> QED
        BY <3>2, <3>3
    <2> QED
      BY <2>1, <2>2
  <1> QED
    BY <1>4, <1>5 DEF Apart

\* A call keeps the versions in order.
LEMMA VersionsWritten ==
    ASSUME TransactionsInv, NEW s \in Sessions, NEW rows, DOMAIN rows \subseteq Jobs, NEW n, n.writes = Writing(s, rows),
           \A j \in DOMAIN rows : Replaces(s, j, rows[j]), tx[s].effects \subseteq n.effects,
           \A j \in DOMAIN rows : rows[j].status = "completed" => j \in n.effects,
           \A j \in n.effects \ tx[s].effects :
               j \in DOMAIN rows /\ rows[j].status = "completed" /\ Latest(s, j).status \notin {"completed", "gone"}
    PROVE  VersionsOK(n)
  <1>1. VersionsOK(tx[s])
    BY DEF TransactionsInv, TxOK
  <1>2. ASSUME NEW j \in DOMAIN n.writes
        PROVE  /\ RowOK(n.writes[j]) /\ n.writes[j].status # "unused"
               /\ jobs[j].status \in {"completed", "gone"} => n.writes[j].status = "gone"
               /\ n.writes[j].status = "completed" => j \in n.effects
    <2>1. CASE j \notin DOMAIN rows
      <3>1. j \in DOMAIN tx[s].writes /\ n.writes[j] = tx[s].writes[j]
        BY <2>1, WritingIs DEF Written
      <3> QED
        BY <1>1, <3>1 DEF VersionsOK
    <2>2. CASE j \in DOMAIN rows
      <3>1. n.writes[j] = rows[j] /\ Replaces(s, j, rows[j]) /\ j \in Jobs
        BY <2>2, WritingIs DEF Written
      <3>2. jobs[j].status \in {"completed", "gone"} => Latest(s, j).status \in {"completed", "gone"}
        BY <1>1, <3>1, LatestIs DEF VersionsOK
      <3> QED
        BY <2>2, <3>1, <3>2 DEF Replaces
    <2> QED
      BY <2>1, <2>2
  <1>3. ASSUME NEW j \in n.effects
        PROVE  /\ j \in DOMAIN n.writes /\ n.writes[j].status \in {"completed", "gone"}
               /\ jobs[j].status \notin {"completed", "gone"}
    <2>1. CASE j \notin tx[s].effects
      <3>1. j \in DOMAIN rows /\ rows[j].status = "completed" /\ Latest(s, j).status \notin {"completed", "gone"}
        BY <2>1
      <3>2. jobs[j].status \notin {"completed", "gone"}
        BY <1>1, <3>1, LatestIs DEF VersionsOK
      <3> QED
        BY <3>1, <3>2, WritingIs DEF Written
    <2>2. CASE j \in tx[s].effects
      <3>1. j \in DOMAIN tx[s].writes /\ tx[s].writes[j].status \in {"completed", "gone"}
            /\ jobs[j].status \notin {"completed", "gone"}
        BY <1>1, <2>2 DEF VersionsOK
      <3>2. CASE j \notin DOMAIN rows
        BY <3>1, <3>2, WritingIs DEF Written
      <3>3. CASE j \in DOMAIN rows
        <4>1. Replaces(s, j, rows[j]) /\ j \in Jobs
          BY <3>3
        <4>2. Latest(s, j) = tx[s].writes[j]
          BY <3>1, <4>1, LatestIs
        <4>3. rows[j].status = "gone"
          BY <3>1, <4>1, <4>2 DEF Replaces
        <4> QED
          BY <3>1, <3>3, <4>3, WritingIs DEF Written
      <3> QED
        BY <3>2, <3>3
    <2> QED
      BY <2>1, <2>2
  <1> QED
    BY <1>2, <1>3 DEF VersionsOK


\* A statement ends: the record of a transaction that goes on.
LEMMA ContinuesIs ==
    ASSUME NEW s \in Sessions, NEW t, Shaped(s, t), t.at = "snapshot", Continues(s, t)
    PROVE  \E n : /\ tx' = [tx EXCEPT ![s] = n] /\ Shaped(s, n) /\ n.at = "open"
                  /\ n.writes = t.writes /\ n.effects = t.effects /\ n.takes = t.takes
                  /\ n.mine = t.mine /\ n.live = t.live
  <1>1. PICK n : n = [t EXCEPT !.at = "open", !.seen = NoRows, !.calls = @ + 1, !.attempts = 0]
    OBVIOUS
  <1>2. /\ t \in [at : {"none", "open", "snapshot"}, calls : 0 .. MaxCalls[s], attempts : 0 .. MaxAttempts - 1,
                  seen : {t.seen}, writes : {t.writes}, effects : SUBSET Jobs, takes : SUBSET Jobs,
                  mine : Jobs \union {NoJob}, live : BOOLEAN]
        /\ t.calls < MaxCalls[s] /\ DOMAIN t.writes \subseteq Jobs
    BY DEF Shaped
  <1>3. MaxCalls[s] \in Nat \ {0} /\ MaxAttempts \in Nat \ {0}
    BY SessionAssumption DEF Sessions
  <1>4. t.calls + 1 \in 0 .. MaxCalls[s] /\ 0 \in 0 .. MaxAttempts - 1
    BY <1>2, <1>3
  <1>5. /\ n \in [at : {"none", "open", "snapshot"}, calls : 0 .. MaxCalls[s], attempts : 0 .. MaxAttempts - 1,
                  seen : {NoRows}, writes : {t.writes}, effects : SUBSET Jobs, takes : SUBSET Jobs,
                  mine : Jobs \union {NoJob}, live : BOOLEAN]
        /\ n.at = "open" /\ n.writes = t.writes /\ n.effects = t.effects /\ n.takes = t.takes
        /\ n.mine = t.mine /\ n.live = t.live
    BY <1>1, <1>2, <1>4
  <1>6. Shaped(s, n)
    BY <1>2, <1>5 DEF Shaped
  <1>7. tx' = [tx EXCEPT ![s] = n]
    BY <1>1 DEF Continues
  <1> QED
    BY <1>5, <1>6, <1>7, Zenon

\* A transaction whose call is under way, and what it keeps of the call.
Made(s, t, w, E, K, m, l) ==
    /\ Shaped(s, t) /\ t.at = "snapshot" /\ t.writes = w
    /\ t.effects = E /\ t.takes = K /\ t.mine = m /\ t.live = l

\* One column of it is set.
LEMMA MadeWith ==
    ASSUME NEW s \in Sessions, NEW t, NEW v, NEW E, NEW K, NEW m, NEW l, Made(s, t, v, E, K, m, l)
    PROVE  /\ \A w : DOMAIN w \subseteq Jobs => Made(s, [t EXCEPT !.writes = w], w, E, K, m, l)
           /\ \A S \in SUBSET Jobs : Made(s, [t EXCEPT !.effects = S], v, S, K, m, l)
           /\ \A S \in SUBSET Jobs : Made(s, [t EXCEPT !.takes = S], v, E, S, m, l)
           /\ \A j \in Jobs \union {NoJob} : Made(s, [t EXCEPT !.mine = j], v, E, K, j, l)
           /\ \A b \in BOOLEAN : Made(s, [t EXCEPT !.live = b], v, E, K, m, b)
  <1>1. /\ t \in [at : {"none", "open", "snapshot"}, calls : 0 .. MaxCalls[s], attempts : 0 .. MaxAttempts - 1,
                  seen : {t.seen}, writes : {t.writes}, effects : SUBSET Jobs, takes : SUBSET Jobs,
                  mine : Jobs \union {NoJob}, live : BOOLEAN]
        /\ t.calls < MaxCalls[s] /\ t.at = "snapshot" /\ DOMAIN t.writes \subseteq Jobs
        /\ t.writes = v /\ t.effects = E /\ t.takes = K /\ t.mine = m /\ t.live = l
    BY DEF Made, Shaped
  <1>2. ASSUME NEW w, DOMAIN w \subseteq Jobs PROVE Made(s, [t EXCEPT !.writes = w], w, E, K, m, l)
    <2>1. PICK n : n = [t EXCEPT !.writes = w]
      OBVIOUS
    <2> QED
      BY <1>1, <1>2, <2>1 DEF Made, Shaped
  <1>3. ASSUME NEW S \in SUBSET Jobs PROVE Made(s, [t EXCEPT !.effects = S], v, S, K, m, l)
    <2>1. PICK n : n = [t EXCEPT !.effects = S]
      OBVIOUS
    <2> QED
      BY <1>1, <2>1 DEF Made, Shaped
  <1>4. ASSUME NEW S \in SUBSET Jobs PROVE Made(s, [t EXCEPT !.takes = S], v, E, S, m, l)
    <2>1. PICK n : n = [t EXCEPT !.takes = S]
      OBVIOUS
    <2> QED
      BY <1>1, <2>1 DEF Made, Shaped
  <1>5. ASSUME NEW j \in Jobs \union {NoJob} PROVE Made(s, [t EXCEPT !.mine = j], v, E, K, j, l)
    <2>1. PICK n : n = [t EXCEPT !.mine = j]
      OBVIOUS
    <2> QED
      BY <1>1, <2>1 DEF Made, Shaped
  <1>6. ASSUME NEW b \in BOOLEAN PROVE Made(s, [t EXCEPT !.live = b], v, E, K, m, b)
    <2>1. PICK n : n = [t EXCEPT !.live = b]
      OBVIOUS
    <2> QED
      BY <1>1, <2>1 DEF Made, Shaped
  <1> QED
    BY <1>2, <1>3, <1>4, <1>5, <1>6

\* What the calls make of their transaction.
LEMMA CallShapes ==
    ASSUME TransactionsInv, NEW s \in Sessions, tx[s].at = "snapshot", NEW w, DOMAIN w \subseteq Jobs,
           NEW S \in SUBSET Jobs, NEW j \in Jobs
    PROVE  /\ Made(s, tx[s], tx[s].writes, tx[s].effects, tx[s].takes, tx[s].mine, tx[s].live)
           /\ Made(s, [tx[s] EXCEPT !.writes = w], w, tx[s].effects, tx[s].takes, tx[s].mine, tx[s].live)
           /\ Made(s, [tx[s] EXCEPT !.writes = w, !.takes = @ \union S], w, tx[s].effects, tx[s].takes \union S,
                   tx[s].mine, tx[s].live)
           /\ Made(s, [tx[s] EXCEPT !.writes = w, !.mine = j, !.live = FALSE], w, tx[s].effects, tx[s].takes, j, FALSE)
           /\ Made(s, [[tx[s] EXCEPT !.live = TRUE] EXCEPT !.writes = w], w, tx[s].effects, tx[s].takes, tx[s].mine, TRUE)
           /\ Made(s, [GaveUp(s) EXCEPT !.writes = w], w, tx[s].effects, tx[s].takes, NoJob, FALSE)
           /\ Made(s, [[GaveUp(s) EXCEPT !.effects = @ \union {j}] EXCEPT !.writes = w], w, tx[s].effects \union {j},
                   tx[s].takes, NoJob, FALSE)
  <1>0. PICK E, K, m, l : E = tx[s].effects /\ K = tx[s].takes /\ m = tx[s].mine /\ l = tx[s].live
    OBVIOUS
  <1>1. Made(s, tx[s], tx[s].writes, E, K, m, l)
    BY <1>0 DEF TransactionsInv, TxOK, Made
  <1>2. E \in SUBSET Jobs /\ K \in SUBSET Jobs /\ m \in Jobs \union {NoJob} /\ l \in BOOLEAN
    BY <1>0 DEF TransactionsInv, TxOK, Shaped
  <1>3. /\ E \union {j} \in SUBSET Jobs /\ K \union S \in SUBSET Jobs /\ NoJob \in Jobs \union {NoJob}
        /\ j \in Jobs \union {NoJob} /\ TRUE \in BOOLEAN /\ FALSE \in BOOLEAN
    BY <1>2
  <1>4. Made(s, [tx[s] EXCEPT !.writes = w], w, E, K, m, l)
    BY <1>1, MadeWith
  <1>5. Made(s, [tx[s] EXCEPT !.writes = w, !.takes = @ \union S], w, E, K \union S, m, l)
    <2>1. Made(s, [[tx[s] EXCEPT !.writes = w] EXCEPT !.takes = K \union S], w, E, K \union S, m, l)
      BY <1>3, <1>4, MadeWith
    <2> QED
      BY <1>0, <2>1
  <1>6. Made(s, [tx[s] EXCEPT !.writes = w, !.mine = j, !.live = FALSE], w, E, K, j, FALSE)
    <2>1. Made(s, [[tx[s] EXCEPT !.writes = w] EXCEPT !.mine = j], w, E, K, j, l)
      BY <1>3, <1>4, MadeWith
    <2>2. Made(s, [[[tx[s] EXCEPT !.writes = w] EXCEPT !.mine = j] EXCEPT !.live = FALSE], w, E, K, j, FALSE)
      BY <1>3, <2>1, MadeWith
    <2> QED
      BY <2>2
  <1>7. Made(s, [[tx[s] EXCEPT !.live = TRUE] EXCEPT !.writes = w], w, E, K, m, TRUE)
    <2>1. Made(s, [tx[s] EXCEPT !.live = TRUE], tx[s].writes, E, K, m, TRUE)
      BY <1>1, <1>3, MadeWith
    <2> QED
      BY <2>1, MadeWith
  <1>8. Made(s, GaveUp(s), tx[s].writes, E, K, NoJob, FALSE)
    <2>1. Made(s, [tx[s] EXCEPT !.mine = NoJob], tx[s].writes, E, K, NoJob, l)
      BY <1>1, <1>3, MadeWith
    <2>2. Made(s, [[tx[s] EXCEPT !.mine = NoJob] EXCEPT !.live = FALSE], tx[s].writes, E, K, NoJob, FALSE)
      BY <1>3, <2>1, MadeWith
    <2> QED
      BY <2>2 DEF GaveUp
  <1>9. Made(s, [GaveUp(s) EXCEPT !.writes = w], w, E, K, NoJob, FALSE)
    BY <1>8, MadeWith
  <1>10. Made(s, [[GaveUp(s) EXCEPT !.effects = @ \union {j}] EXCEPT !.writes = w], w, E \union {j}, K, NoJob, FALSE)
    <2>1. GaveUp(s).effects = E
      BY <1>8 DEF Made
    <2>2. Made(s, [GaveUp(s) EXCEPT !.effects = E \union {j}], tx[s].writes, E \union {j}, K, NoJob, FALSE)
      BY <1>3, <1>8, MadeWith
    <2>3. Made(s, [[GaveUp(s) EXCEPT !.effects = E \union {j}] EXCEPT !.writes = w], w, E \union {j}, K, NoJob, FALSE)
      BY <2>2, MadeWith
    <2> QED
      BY <2>1, <2>3
  <1> QED
    BY <1>0, <1>1, <1>4, <1>5, <1>6, <1>7, <1>9, <1>10, Zenon

\* Continuing is a step of the one transaction.
LEMMA MadeContinues ==
    ASSUME NEW s \in Sessions, NEW t, NEW w, NEW E, NEW K, NEW m, NEW l, Made(s, t, w, E, K, m, l), Continues(s, t)
    PROVE  \E n : /\ tx' = [tx EXCEPT ![s] = n] /\ Shaped(s, n) /\ n.at = "open" /\ n.writes = w
                  /\ n.effects = E /\ n.takes = K /\ n.mine = m /\ n.live = l
  <1>1. PICK n : /\ tx' = [tx EXCEPT ![s] = n] /\ Shaped(s, n) /\ n.at = "open"
                 /\ n.writes = t.writes /\ n.effects = t.effects /\ n.takes = t.takes
                 /\ n.mine = t.mine /\ n.live = t.live
    <2>1. Shaped(s, t) /\ t.at = "snapshot"
      BY DEF Made
    <2> QED
      BY <2>1, ContinuesIs
  <1> QED
    BY <1>1 DEF Made


\* A call that leaves the rows it locks to nobody, and the session as it was.
LEMMA QuietRows ==
    ASSUME TransactionsInv, NEW s \in Sessions, tx[s].at = "snapshot", NEW rows, DOMAIN rows \subseteq Jobs,
           NEW t, NEW K, Made(s, t, Writing(s, rows), tx[s].effects, K, tx[s].mine, tx[s].live), Continues(s, t),
           tx[s].takes \subseteq K, UNCHANGED <<storeVars, session, shutdown, told, effects>>,
           \A j \in DOMAIN rows : Replaces(s, j, rows[j]) /\ rows[j].status \notin {"running", "completed"},
           \A i, j \in DOMAIN rows : i # j /\ Active(rows[i]) /\ Active(rows[j]) =>
               Active(Latest(s, i)) /\ Latest(s, i).key = rows[i].key /\ Active(Latest(s, j)) /\ Latest(s, j).key = rows[j].key,
           \A j \in DOMAIN rows : Latest(s, j).status = "running" =>
               \/ j \in K
               \/ s \in WorkerSessions /\ Has(s, Latest(s, j)) /\ ~Latest(s, j).started /\ WorkerOf[s] \in shutdown,
           answer' = [p \in Producers |-> answer'[p]],
           \A p \in Producers : answer'[p].kind = "deduplicated" => answer'[p] = answer[p]
    PROVE  TransactionsInv'
  <1>1. PICK n : /\ tx' = [tx EXCEPT ![s] = n] /\ Shaped(s, n) /\ n.at = "open" /\ n.writes = Writing(s, rows)
                 /\ n.effects = tx[s].effects /\ n.takes = K /\ n.mine = tx[s].mine /\ n.live = tx[s].live
    BY MadeContinues
  <1>2. Written(s, rows, n)
    <2>1. n.writes = Writing(s, rows)
      BY <1>1
    <2> QED
      BY <2>1, WritingIs
  <1>3. VersionsOK(n)
    BY <1>1, VersionsWritten
  <1>4. KeysDiffer(n) /\ \A o \in Sessions \ {s} : Apart(n, tx[o])
    BY <1>1, KeysWritten, WritesApart
  <1>5. TxOK(s, tx[s])
    BY DEF TransactionsInv
  <1>6. \A j \in Jobs : IF j \in DOMAIN tx[s].writes THEN Latest(s, j) = tx[s].writes[j] ELSE Latest(s, j) = jobs[j]
    BY DEF Latest
  <1>7. RunsOK(s, n)
    <2> SUFFICES ASSUME NEW j \in DOMAIN n.writes
                 PROVE  /\ n.writes[j].status = "running" => s \in WorkerSessions /\ Has(s, n.writes[j]) /\ n.mine = j
                        /\ jobs[j].status = "running" =>
                              \/ j \in n.takes
                              \/ /\ s \in WorkerSessions /\ Has(s, jobs[j])
                                 /\ session[s].mine = j \/ (~jobs[j].started /\ WorkerOf[s] \in shutdown)
      BY DEF RunsOK
    <2>1. CASE j \in DOMAIN tx[s].writes
      BY <1>1, <1>2, <1>5, <2>1 DEF Written, TxOK, RunsOK
    <2>2. CASE j \notin DOMAIN tx[s].writes
      <3>1. j \in DOMAIN rows /\ j \in Jobs /\ Latest(s, j) = jobs[j] /\ n.writes[j].status # "running"
        BY <1>2, <1>6, <2>2 DEF Written
      <3> QED
        BY <1>1, <3>1
    <2> QED
      BY <2>1, <2>2
  <1>8. MineOK(s, n)
    <2> SUFFICES ASSUME s \in WorkerSessions PROVE MineOK(s, n)
      BY DEF MineOK
    <2>1. MineOK(s, tx[s]) /\ SessionOK(s) /\ n.mine \in Jobs \union {NoJob}
      BY <1>1, <1>5 DEF TransactionsInv, TxOK, Shaped
    <2>2. /\ n.live => n.mine # NoJob
          /\ n.mine # NoJob /\ n.mine \notin DOMAIN n.writes => session[s].mine = n.mine /\ session[s].live = n.live
          /\ session[s].mine # NoJob /\ session[s].mine \notin DOMAIN n.writes => n.mine = session[s].mine
      BY <1>1, <1>2, <2>1 DEF Written, MineOK
    <2>3. CASE n.mine \in DOMAIN n.writes /\ n.mine \notin DOMAIN rows
      <3>1. n.mine \in DOMAIN tx[s].writes /\ n.writes[n.mine] = tx[s].writes[n.mine] /\ tx[s].takes \subseteq n.takes
        BY <1>1, <1>2, <2>3 DEF Written
      <3> QED
        BY <1>1, <2>1, <2>2, <3>1 DEF MineOK
    <2>4. CASE n.mine \in DOMAIN rows
      <3>1. n.mine \in Jobs /\ ~Has(s, n.writes[n.mine]) /\ n.mine # NoJob
        BY <1>2, <2>4, SessionAssumption DEF Written, Has
      <3>2. /\ WorkerOf[s] \in shutdown \/ n.mine \in n.takes \union taken
            /\ n.live => n.mine \in n.takes \union taken
        <4>1. CASE n.mine \in DOMAIN tx[s].writes
          <5>1. Latest(s, n.mine) = tx[s].writes[n.mine]
            BY <1>6, <3>1, <4>1
          <5>2. /\ Has(s, Latest(s, n.mine)) \/ WorkerOf[s] \in shutdown \/ n.mine \in tx[s].takes \union taken
                /\ n.live => (Has(s, Latest(s, n.mine)) /\ Latest(s, n.mine).started) \/ n.mine \in tx[s].takes \union taken
            BY <1>1, <2>1, <4>1, <5>1 DEF MineOK
          <5> QED
            BY <1>1, <2>4, <5>2 DEF Has
        <4>2. CASE n.mine \notin DOMAIN tx[s].writes
          <5>1. Latest(s, n.mine) = jobs[n.mine]
            BY <1>6, <3>1, <4>2
          <5>2. session[s].mine = n.mine /\ session[s].live = n.live
            BY <1>1, <2>1, <3>1, <4>2 DEF MineOK
          <5>3. /\ n.mine \in taken \/ Has(s, Latest(s, n.mine)) \/ WorkerOf[s] \in shutdown
                /\ n.live => n.mine \in taken \/ (Has(s, Latest(s, n.mine)) /\ Latest(s, n.mine).started)
            BY <2>1, <3>1, <5>1, <5>2 DEF SessionOK
          <5> QED
            BY <1>1, <2>4, <5>3 DEF Has
        <4> QED
          BY <4>1, <4>2
      <3> QED
        BY <2>2, <3>1, <3>2 DEF MineOK
    <2> QED
      BY <1>2, <2>2, <2>3, <2>4 DEF Written, MineOK
  <1>9. TxOK(s, n)
    BY <1>1, <1>3, <1>4, <1>7, <1>8 DEF TxOK, SeenOK
  <1>10. \A o \in WorkerSessions : Siblings(s, o) /\ n.mine = session[o].mine /\ n.mine # NoJob
                                      => n.mine \in taken \union n.takes
    BY <1>1 DEF TransactionsInv, ShareTaken, Siblings
  <1>11. ASSUME NEW p \in Producers, answer'[p].kind = "deduplicated"
         PROVE  answer'[p].job \in Jobs /\ VersionIn(IF p = s THEN n ELSE tx[p], answer'[p].job).status # "unused"
    <2>1. answer'[p].job \in Jobs /\ VersionIn(tx[p], answer'[p].job).status # "unused"
      BY <1>11 DEF TransactionsInv, AnswersOK
    <2>2. CASE p = s
      <3>1. CASE answer'[p].job \in DOMAIN rows
        BY <1>2, <2>1, <2>2, <3>1 DEF Written, Replaces
      <3>2. CASE answer'[p].job \notin DOMAIN rows
        <4>1. VersionIn(n, answer'[p].job) = VersionIn(tx[p], answer'[p].job)
          BY <1>2, <2>1, <2>2, <3>2, LatestIs DEF Written
        <4> QED
          BY <2>1, <2>2, <4>1
      <3> QED
        BY <3>1, <3>2
    <2> QED
      BY <2>1, <2>2
  <1> QED
    BY <1>1, <1>4, <1>9, <1>10, <1>11, TransactionMoves


\* A step of a transaction that writes nothing.
LEMMA SameWrites ==
    ASSUME TransactionsInv, NEW s \in Sessions, tx[s].at # "none", NEW n, tx' = [tx EXCEPT ![s] = n],
           Shaped(s, n), n.at # "none", SeenOK(n), n.writes = tx[s].writes, n.effects = tx[s].effects,
           n.takes = tx[s].takes, n.mine = tx[s].mine, n.live = tx[s].live,
           n.at = "snapshot" => \A j \in Jobs : j \in DOMAIN n.writes \/ n.seen[j] = jobs[j],
           UNCHANGED <<storeVars, session, shutdown, told, effects>>,
           answer' = [p \in Producers |-> answer'[p]],
           \A p \in Producers : answer'[p].kind = "deduplicated" =>
               answer'[p].job \in Jobs /\ VersionIn(tx[p], answer'[p].job).status # "unused"
    PROVE  TransactionsInv'
  <1>1. TxOK(s, tx[s])
    BY DEF TransactionsInv
  <1>2. \A j : VersionIn(n, j) = VersionIn(tx[s], j)
    BY DEF VersionIn
  <1>3. VersionsOK(n) /\ KeysDiffer(n) /\ RunsOK(s, n)
    BY <1>1, <1>2 DEF TxOK, VersionsOK, KeysDiffer, RunsOK
  <1>4. MineOK(s, n)
    BY <1>1 DEF TxOK, MineOK
  <1>5. ASSUME NEW o \in Sessions \ {s} PROVE Apart(n, tx[o])
    <2>1. Apart(tx[s], tx[o])
      BY Zenon DEF TransactionsInv
    <2> QED
      BY <2>1 DEF Apart
  <1>6. \A o \in WorkerSessions : Siblings(s, o) /\ n.mine = session[o].mine /\ n.mine # NoJob
                                      => n.mine \in taken \union n.takes
    BY DEF TransactionsInv, ShareTaken, Siblings
  <1>7. \A p \in Producers : answer'[p].kind = "deduplicated" =>
            answer'[p].job \in Jobs /\ VersionIn(IF p = s THEN n ELSE tx[p], answer'[p].job).status # "unused"
    BY <1>2
  <1>8. TxOK(s, n)
    BY <1>3, <1>4 DEF TxOK
  <1> QED
    BY <1>5, <1>6, <1>7, <1>8, TransactionMoves

\* A statement that changes no row.
LEMMA PlainCall ==
    ASSUME TransactionsInv, NEW s \in Sessions, tx[s].at = "snapshot", Continues(s, tx[s]),
           UNCHANGED <<storeVars, session, shutdown, told, effects>>,
           answer' = [p \in Producers |-> answer'[p]],
           \A p \in Producers : answer'[p].kind = "deduplicated" =>
               answer'[p].job \in Jobs /\ VersionIn(tx[p], answer'[p].job).status # "unused"
    PROVE  TransactionsInv'
  <1>1. Shaped(s, tx[s])
    BY DEF TransactionsInv, TxOK
  <1>2. PICK n : /\ tx' = [tx EXCEPT ![s] = n] /\ Shaped(s, n) /\ n.at = "open"
                 /\ n.writes = tx[s].writes /\ n.effects = tx[s].effects /\ n.takes = tx[s].takes
                 /\ n.mine = tx[s].mine /\ n.live = tx[s].live
    BY <1>1, ContinuesIs
  <1>3. SeenOK(n)
    BY <1>2 DEF SeenOK
  <1> QED
    BY <1>2, <1>3, SameWrites

\* A rollback leaves the rows to others.
LEMMA RollbackKeeps ==
    ASSUME TransactionsInv, NEW s \in Sessions, Closed(s),
           UNCHANGED <<storeVars, session, shutdown, told, effects>>,
           answer' = [p \in Producers |-> answer'[p]],
           \A p \in Producers : answer'[p].kind = "deduplicated" => p # s /\ answer'[p] = answer[p]
    PROVE  TransactionsInv'
  <1>1. TxOK(s, NoTx) /\ \A o \in Sessions \ {s} : Apart(NoTx, tx[o])
    BY NoTxOK
  <1>2. tx' = [tx EXCEPT ![s] = NoTx] /\ NoTx.at = "none" /\ NoTx.mine = NoJob
    BY NoTxIs DEF Closed
  <1>3. \A p \in Producers : answer'[p].kind = "deduplicated" =>
            answer'[p].job \in Jobs /\ VersionIn(IF p = s THEN NoTx ELSE tx[p], answer'[p].job).status # "unused"
    BY DEF TransactionsInv, AnswersOK
  <1> QED
    BY <1>1, <1>2, <1>3, TransactionMoves

\* So does one that voids what the transaction's enqueues were told.
LEMMA RolledBackKeeps ==
    ASSUME TransactionsInv, NEW s \in Sessions, RolledBack(s),
           UNCHANGED <<storeVars, session, shutdown, told, effects>>
    PROVE  TransactionsInv'
  <1>1. /\ Closed(s) /\ answer' = [p \in Producers |-> IF p = s THEN NoAnswer ELSE answer[p]]
        /\ NoAnswer.kind # "deduplicated"
    BY DEF RolledBack, NoAnswer
  <1>2. /\ answer' = [p \in Producers |-> answer'[p]]
        /\ \A p \in Producers : answer'[p].kind = "deduplicated" => p # s /\ answer'[p] = answer[p]
    BY <1>1
  <1> QED
    BY <1>1, <1>2, RollbackKeeps

\* Calls other than an enqueue tell nobody that a job is a duplicate.
LEMMA NoNewAnswer ==
    ASSUME TransactionsInv, UNCHANGED answer
    PROVE  /\ answer' = [p \in Producers |-> answer'[p]]
           /\ \A p \in Producers : answer'[p].kind = "deduplicated" => answer'[p] = answer[p]
  BY DEF TransactionsInv, TransactionsTyped

\* What was answered stands: the rows that a call writes stay rows.
LEMMA AnswersStand ==
    ASSUME TransactionsInv, NEW s \in Sessions, NEW rows, NEW n, Written(s, rows, n),
           \A j \in DOMAIN rows : rows[j].status # "unused", UNCHANGED answer
    PROVE  /\ answer' = [p \in Producers |-> answer'[p]]
           /\ \A p \in Producers : answer'[p].kind = "deduplicated" =>
                 answer'[p].job \in Jobs /\ VersionIn(IF p = s THEN n ELSE tx[p], answer'[p].job).status # "unused"
  <1>1. answer' = [p \in Producers |-> answer'[p]]
    BY NoNewAnswer
  <1>2. ASSUME NEW p \in Producers, answer'[p].kind = "deduplicated"
        PROVE  answer'[p].job \in Jobs /\ VersionIn(IF p = s THEN n ELSE tx[p], answer'[p].job).status # "unused"
    <2>1. answer'[p].job \in Jobs /\ VersionIn(tx[p], answer'[p].job).status # "unused"
      BY <1>2 DEF TransactionsInv, AnswersOK
    <2>2. CASE p = s
      <3>1. CASE answer'[p].job \in DOMAIN rows
        BY <2>1, <2>2, <3>1 DEF Written
      <3>2. CASE answer'[p].job \notin DOMAIN rows
        <4>1. VersionIn(n, answer'[p].job) = VersionIn(tx[p], answer'[p].job)
          BY <2>1, <2>2, <3>2, LatestIs DEF Written
        <4> QED
          BY <2>1, <2>2, <4>1
      <3> QED
        BY <3>1, <3>2
    <2> QED
      BY <2>1, <2>2
  <1> QED
    BY <1>1, <1>2

\* The sessions of every role.
LEMMA Casts == WorkerSessions \subseteq Sessions /\ Operators \subseteq Sessions /\ Producers \subseteq Sessions
  BY DEF Sessions

\* A statement takes its snapshot.
LEMMA SnapshotKeeps ==
    ASSUME TransactionsInv, NEW s \in Sessions, TakeSnapshot(s)
    PROVE  TransactionsInv'
  <1>1. PICK t : t = (IF tx[s].at # "none" THEN tx[s]
                      ELSE IF s \in WorkerSessions
                      THEN [NoTx EXCEPT !.mine = session[s].mine, !.live = session[s].live]
                      ELSE NoTx)
    OBVIOUS
  <1>2. PICK seen : seen = [j \in Jobs |-> Latest(s, j)]
    OBVIOUS
  <1>3. PICK n : n = [t EXCEPT !.at = "snapshot", !.seen = seen]
    OBVIOUS
  <1>4. /\ tx' = [tx EXCEPT ![s] = n] /\ tx[s].at # "snapshot" /\ tx[s].calls < MaxCalls[s]
        /\ answer' = [p \in Producers |-> IF p = s /\ tx[s].at = "none" THEN NoAnswer ELSE answer[p]]
        /\ UNCHANGED <<storeVars, session, shutdown, told, effects>>
    BY <1>1, <1>2, <1>3 DEF TakeSnapshot
  <1>5. NoAnswer.kind # "deduplicated"
    BY DEF NoAnswer
  <1>6. CASE tx[s].at # "none"
    <2>1. Shaped(s, tx[s]) /\ t = tx[s]
      BY <1>1, <1>6 DEF TransactionsInv, TxOK
    <2>2. /\ Shaped(s, n) /\ n.at = "snapshot" /\ n.seen = seen
          /\ n.writes = tx[s].writes /\ n.effects = tx[s].effects /\ n.takes = tx[s].takes
          /\ n.mine = tx[s].mine /\ n.live = tx[s].live
      BY <1>3, <1>4, <2>1 DEF Shaped
    <2>3. \A j \in Jobs : n.seen[j] = VersionIn(n, j) /\ (j \in DOMAIN n.writes \/ n.seen[j] = jobs[j])
      BY <1>2, <2>2 DEF Latest, VersionIn
    <2>4. SeenOK(n)
      BY <2>3 DEF SeenOK
    <2>5. \A p \in Producers : answer'[p].kind = "deduplicated" =>
              answer'[p].job \in Jobs /\ VersionIn(tx[p], answer'[p].job).status # "unused"
      BY <1>4, <1>5, <1>6 DEF TransactionsInv, AnswersOK
    <2>6. answer' = [p \in Producers |-> answer'[p]]
      BY <1>4
    <2> QED
      BY <1>4, <1>6, <2>2, <2>3, <2>4, <2>5, <2>6, SameWrites
  <1>7. CASE tx[s].at = "none"
    <2>1. /\ t.at = "none" /\ t.calls = 0 /\ t.attempts = 0 /\ t.writes = NoRows /\ t.seen = NoRows
          /\ t.effects = {} /\ t.takes = {}
          /\ t \in [at : {"none", "open", "snapshot"}, calls : 0 .. 0, attempts : 0 .. 0,
                    seen : {NoRows}, writes : {NoRows}, effects : {{}}, takes : {{}},
                    mine : Jobs \union {NoJob}, live : BOOLEAN]
          /\ IF s \in WorkerSessions THEN t.mine = session[s].mine /\ t.live = session[s].live
             ELSE t.mine = NoJob /\ t.live = FALSE
      <3>1. CASE s \in WorkerSessions
        <4>1. session[s].mine \in Jobs \union {NoJob} /\ session[s].live \in BOOLEAN
          BY <3>1 DEF TransactionsInv, TransactionsTyped
        <4>2. t = [NoTx EXCEPT !.mine = session[s].mine, !.live = session[s].live]
          BY <1>1, <1>7, <3>1
        <4>3. t = [at |-> "none", calls |-> 0, attempts |-> 0, seen |-> NoRows, writes |-> NoRows,
                   effects |-> {}, takes |-> {}, mine |-> session[s].mine, live |-> session[s].live]
          BY <4>2 DEF NoTx
        <4> QED
          BY <3>1, <4>1, <4>3
      <3>2. CASE s \notin WorkerSessions
        <4>1. t = NoTx
          BY <1>1, <1>7, <3>2
        <4> QED
          BY <3>2, <4>1 DEF NoTx
      <3> QED
        BY <3>1, <3>2
    <2>2. tx[s].calls = 0 /\ MaxCalls[s] \in Nat \ {0} /\ MaxAttempts \in Nat \ {0}
      BY <1>7, NoTxIs, SessionAssumption DEF TransactionsInv, TxOK, Shaped, Sessions
    <2>3. 0 \in 0 .. MaxCalls[s] /\ 0 \in 0 .. MaxAttempts - 1 /\ 0 < MaxCalls[s]
      BY <2>2
    <2>4. /\ n \in [at : {"none", "open", "snapshot"}, calls : 0 .. 0, attempts : 0 .. 0,
                    seen : {seen}, writes : {NoRows}, effects : {{}}, takes : {{}},
                    mine : Jobs \union {NoJob}, live : BOOLEAN]
          /\ n.at = "snapshot" /\ n.writes = NoRows /\ n.seen = seen /\ n.effects = {} /\ n.takes = {} /\ n.calls = 0
          /\ n.mine = t.mine /\ n.live = t.live
      BY <1>3, <2>1
    <2>5. DOMAIN n.writes = {} /\ \A j : VersionIn(n, j) = jobs[j] /\ VersionIn(NoTx, j) = jobs[j]
      BY <2>4, NoTxIs DEF VersionIn
    <2>6. Shaped(s, n)
      <3>1. n \in [at : {"none", "open", "snapshot"}, calls : 0 .. MaxCalls[s], attempts : 0 .. MaxAttempts - 1,
                   seen : {n.seen}, writes : {n.writes}, effects : SUBSET Jobs, takes : SUBSET Jobs,
                   mine : Jobs \union {NoJob}, live : BOOLEAN]
        BY <2>3, <2>4
      <3> QED
        BY <2>3, <2>4, <2>5, <3>1 DEF Shaped
    <2>7. tx[s] = NoTx
      BY <1>7 DEF TransactionsInv, TxOK, Shaped
    <2>8. \A j \in Jobs : n.seen[j] = jobs[j]
      BY <1>2, <2>4, <2>7, NoTxIs DEF Latest
    <2>9. KeysDiffer(NoTx)
      BY NoTxOK DEF TxOK
    <2>10. VersionsOK(n) /\ RunsOK(s, n) /\ SeenOK(n) /\ KeysDiffer(n)
      BY <2>4, <2>5, <2>8, <2>9 DEF VersionsOK, RunsOK, SeenOK, KeysDiffer
    <2>11. MineOK(s, n)
      BY <2>1, <2>4, <2>5 DEF MineOK, TransactionsInv, SessionOK
    <2>12. TxOK(s, n)
      BY <2>6, <2>10, <2>11 DEF TxOK
    <2>13. \A o \in Sessions \ {s} : Apart(n, tx[o])
      BY <2>5 DEF Apart
    <2>14. \A o \in WorkerSessions : Siblings(s, o) /\ n.mine = session[o].mine /\ n.mine # NoJob
                                         => n.mine \in taken \union n.takes
      BY <2>1, <2>4 DEF TransactionsInv, ShareTaken, Siblings
    <2>15. answer' = [p \in Producers |-> answer'[p]]
      BY <1>4
    <2>16. \A p \in Producers : answer'[p].kind = "deduplicated" =>
               answer'[p].job \in Jobs /\ VersionIn(IF p = s THEN n ELSE tx[p], answer'[p].job).status # "unused"
      BY <1>4, <1>5, <1>7 DEF TransactionsInv, AnswersOK
    <2> QED
      BY <1>4, <2>8, <2>12, <2>13, <2>14, <2>15, <2>16, TransactionMoves
  <1> QED
    BY <1>6, <1>7

\* A worker that shuts down claims no more; what it has it may return.
LEMMA StopClaimingKeeps ==
    ASSUME TransactionsInv, NEW w \in Workers, StopClaiming(w)
    PROVE  TransactionsInv'
  <1>1. /\ UNCHANGED <<jobs, paused, held, taken, tx, session, told, effects, answer>>
        /\ shutdown \subseteq shutdown' /\ shutdown' \subseteq Workers
    BY DEF StopClaiming, storeVars, TransactionsInv, TransactionsTyped
  <1>2. (TransactionsTyped /\ OneActive /\ EffectsOK)'
    BY <1>1 DEF TransactionsInv, TransactionsTyped, OneActive, EffectsOK
  <1>3. ASSUME NEW s \in Sessions PROVE TxOK(s, tx[s])'
    <2>1. PICK t : t = tx[s]
      OBVIOUS
    <2>2. TxOK(s, t)
      BY <2>1 DEF TransactionsInv
    <2>3. Shaped(s, t)' /\ VersionsOK(t)' /\ KeysDiffer(t)' /\ SeenOK(t)'
      BY <1>1, <2>2 DEF TxOK, Shaped, VersionsOK, KeysDiffer, SeenOK, VersionIn
    <2>4. RunsOK(s, t)'
      BY <1>1, <2>2 DEF TxOK, RunsOK
    <2>5. MineOK(s, t)'
      BY <1>1, <2>2 DEF TxOK, MineOK
    <2>6. TxOK(s, t)'
      BY <2>3, <2>4, <2>5 DEF TxOK
    <2> QED
      BY <1>1, <2>1, <2>6
  <1>4. (\A s, o \in Sessions : s # o => Apart(tx[s], tx[o]))'
    BY <1>1 DEF TransactionsInv, Apart
  <1>5. ASSUME NEW s \in WorkerSessions PROVE SessionOK(s)'
    BY <1>1 DEF TransactionsInv, SessionOK, Has
  <1>6. ShareTaken' /\ AnswersOK'
    BY <1>1 DEF TransactionsInv, ShareTaken, AnswersOK, Siblings, VersionIn
  <1>7. RunnersOK'
    <2>1. \A s \in WorkerSessions, j \in Jobs : Has(s, jobs[j])' <=> Has(s, jobs[j])
      BY <1>1 DEF Has
    <2>2. \A s \in WorkerSessions, j \in Jobs : Runner(s, j)' <=> Runner(s, j)
      BY <1>1 DEF Runner, Has
    <2> QED
      BY <2>1, <2>2 DEF TransactionsInv, RunnersOK
  <1> QED
    BY <1>2, <1>3, <1>4, <1>5, <1>6, <1>7 DEF TransactionsInv


\* One row.
LEMMA OneRow ==
    ASSUME NEW j \in Jobs, NEW r, NEW rows, rows = [i \in {j} |-> r]
    PROVE  DOMAIN rows = {j} /\ rows[j] = r /\ DOMAIN rows \subseteq Jobs
  OBVIOUS

\* A row that a statement may lock.
LEMMA SelectedIs ==
    ASSUME TransactionsInv, NEW s \in Sessions, NEW j \in Jobs, NEW where, Selected(s, j, where)
    PROVE  /\ ~LockedByOther(s, j) /\ Matches(Latest(s, j), where) /\ Matches(tx[s].seen[j], where)
           /\ RowOK(Latest(s, j)) /\ Latest(s, j) \in JobRow
  BY LatestIs DEF Selected, LockedVersion

\* A claim: the row is the session's, and no other session of its worker's.
LEMMA ClaimOneKeeps ==
    ASSUME TransactionsInv, NEW s \in WorkerSessions, NEW j \in Jobs, ClaimOne(s, j)
    PROVE  TransactionsInv'
  <1>0. s \in Sessions
    BY Casts
  <1>1. /\ tx[s].at = "snapshot" /\ tx[s].mine = NoJob /\ WorkerOf[s] \notin shutdown
        /\ Selected(s, j, StatusIn({"pending"}))
        /\ UNCHANGED <<storeVars, session, shutdown, told, effects, answer>>
    BY DEF ClaimOne
  <1>2. PICK row \in JobRow : row = Latest(s, j) /\ RowOK(row) /\ row.status = "pending" /\ ~LockedByOther(s, j)
    BY <1>0, <1>1, SelectedIs, WhereIs
  <1>3. PICK r : r = ClaimedRow(row, WorkerOf[s])
    OBVIOUS
  <1>4. /\ RowOK(r) /\ r.key = row.key /\ r.status = "running" /\ r.worker = WorkerOf[s] /\ ~r.started
    <2>1. WorkerOf[s] \in Workers
      BY SessionAssumption
    <2> QED
      BY <1>2, <1>3, <2>1, ClaimedRowOK
  <1>5. PICK rows : rows = [i \in {j} |-> r]
    OBVIOUS
  <1>6. DOMAIN rows = {j} /\ rows[j] = r /\ DOMAIN rows \subseteq Jobs
    BY <1>5, OneRow
  <1>7. PICK w : w = Writing(s, rows)
    OBVIOUS
  <1>8. PICK t : t = [tx[s] EXCEPT !.writes = w, !.mine = j, !.live = FALSE]
    OBVIOUS
  <1>9. Continues(s, t)
    BY <1>2, <1>3, <1>5, <1>7, <1>8 DEF ClaimOne, WritingOne
  <1>10. DOMAIN w \subseteq Jobs
    BY <1>0, <1>6, <1>7 DEF Writing, TransactionsInv, TxOK, Shaped
  <1>11. Made(s, t, w, tx[s].effects, tx[s].takes, j, FALSE)
    BY <1>0, <1>1, <1>8, <1>10, CallShapes
  <1>12. PICK n : /\ tx' = [tx EXCEPT ![s] = n] /\ Shaped(s, n) /\ n.at = "open" /\ n.writes = Writing(s, rows)
                  /\ n.effects = tx[s].effects /\ n.takes = tx[s].takes /\ n.mine = j /\ n.live = FALSE
    <2>1. PICK l : l = FALSE
      OBVIOUS
    <2>2. Made(s, t, Writing(s, rows), tx[s].effects, tx[s].takes, j, l)
      BY <1>7, <1>11, <2>1
    <2>3. \E n : /\ tx' = [tx EXCEPT ![s] = n] /\ Shaped(s, n) /\ n.at = "open" /\ n.writes = Writing(s, rows)
                /\ n.effects = tx[s].effects /\ n.takes = tx[s].takes /\ n.mine = j /\ n.live = l
      BY <1>0, <1>9, <2>2, MadeContinues
    <2> QED
      BY <2>1, <2>3
  <1>13. Written(s, rows, n)
    BY <1>0, <1>6, <1>12, WritingIs
  <1>14. \A i \in DOMAIN rows : Replaces(s, i, rows[i])
    BY <1>2, <1>4, <1>6 DEF Replaces, Active
  <1>15. VersionsOK(n)
    BY <1>0, <1>4, <1>6, <1>12, <1>14, VersionsWritten
  <1>16. KeysDiffer(n) /\ \A o \in Sessions \ {s} : Apart(n, tx[o])
    BY <1>0, <1>6, <1>12, <1>14, KeysWritten, WritesApart
  <1>17. TxOK(s, tx[s]) /\ NoJob \notin Jobs
    BY <1>0, SessionAssumption DEF TransactionsInv
  <1>18. IF j \in DOMAIN tx[s].writes THEN row = tx[s].writes[j] ELSE row = jobs[j]
    BY <1>2 DEF Latest
  <1>19. jobs[j].status = "running" =>
             \/ j \in tx[s].takes
             \/ /\ s \in WorkerSessions /\ Has(s, jobs[j])
                /\ session[s].mine = j \/ (~jobs[j].started /\ WorkerOf[s] \in shutdown)
    BY <1>2, <1>17, <1>18 DEF TxOK, RunsOK
  <1>20. RunsOK(s, n)
    <2> SUFFICES ASSUME NEW i \in DOMAIN n.writes
                 PROVE  /\ n.writes[i].status = "running" => s \in WorkerSessions /\ Has(s, n.writes[i]) /\ n.mine = i
                        /\ jobs[i].status = "running" =>
                              \/ i \in n.takes
                              \/ /\ s \in WorkerSessions /\ Has(s, jobs[i])
                                 /\ session[s].mine = i \/ (~jobs[i].started /\ WorkerOf[s] \in shutdown)
      BY DEF RunsOK
    <2>1. CASE i = j
      BY <1>4, <1>6, <1>12, <1>13, <1>19, <2>1 DEF Written, Has
    <2>2. CASE i # j
      <3>1. i \in DOMAIN tx[s].writes /\ n.writes[i] = tx[s].writes[i] /\ i \in Jobs
        BY <1>6, <1>13, <2>2 DEF Written
      <3> QED
        BY <1>1, <1>12, <1>17, <3>1 DEF TxOK, RunsOK
    <2> QED
      BY <2>1, <2>2
  <1>21. MineOK(s, n)
    <2>1. session[s].mine # NoJob => session[s].mine \in DOMAIN tx[s].writes
      BY <1>1, <1>17 DEF TxOK, MineOK
    <2>2. j \in DOMAIN n.writes /\ n.writes[j] = r /\ DOMAIN tx[s].writes \subseteq DOMAIN n.writes
      BY <1>6, <1>13 DEF Written
    <2>3. Has(s, r) /\ r.started = FALSE
      BY <1>4 DEF Has, RowOK, JobRow
    <2> QED
      BY <1>12, <2>1, <2>2, <2>3 DEF MineOK
  <1>22. TxOK(s, n)
    BY <1>12, <1>15, <1>16, <1>20, <1>21 DEF TxOK, SeenOK
  <1>23. ASSUME NEW o \in WorkerSessions, Siblings(s, o), n.mine = session[o].mine, n.mine # NoJob
         PROVE  n.mine \in taken \union n.takes
    <2>1. session[o].mine = j /\ WorkerOf[o] = WorkerOf[s] /\ s # o
      BY <1>12, <1>23 DEF Siblings
    <2>2. j \in taken \/ Has(o, jobs[j])
      BY <1>1, <1>17, <2>1 DEF TransactionsInv, SessionOK
    <2>3. Has(o, jobs[j]) => j \in tx[s].takes \/ session[s].mine = j
      BY <1>1, <1>19 DEF Has
    <2>4. session[s].mine = j => j \in taken
      BY <1>17, <1>23, <2>1 DEF TransactionsInv, ShareTaken
    <2> QED
      BY <1>12, <2>2, <2>3, <2>4
  <1>24. \A i \in DOMAIN rows : rows[i].status # "unused"
    BY <1>14 DEF Replaces
  <1>25. /\ answer' = [p \in Producers |-> answer'[p]]
         /\ \A p \in Producers : answer'[p].kind = "deduplicated" =>
               answer'[p].job \in Jobs /\ VersionIn(IF p = s THEN n ELSE tx[p], answer'[p].job).status # "unused"
    BY <1>0, <1>1, <1>13, <1>24, AnswersStand
  <1> QED
    BY <1>0, <1>1, <1>12, <1>16, <1>22, <1>23, <1>25, TransactionMoves

\* What a worker session writes over the row of its job.
OwnWrite(s, r, E, m, l) ==
    /\ RowOK(r) /\ r.status # "unused" /\ (Active(r) => r.key = MyRow(s).key)
    /\ \/ /\ Has(s, r) /\ m = tx[s].mine /\ E = tx[s].effects
          /\ (r.started /\ l = TRUE) \/ (r.started = MyRow(s).started /\ l = tx[s].live)
       \/ /\ r.status # "running" /\ m = NoJob /\ l = FALSE
          /\ E = tx[s].effects \union (IF r.status = "completed" THEN {tx[s].mine} ELSE {})

\* What the session's transaction knows of the job's row while the row is its own.
LEMMA MyRowIs ==
    ASSUME TransactionsInv, NEW s \in WorkerSessions, tx[s].at # "none", NEW j \in Jobs, j = tx[s].mine, Has(s, MyRow(s))
    PROVE  /\ RowOK(MyRow(s)) /\ MyRow(s) \in JobRow /\ MyRow(s) = Latest(s, j)
           /\ jobs[j].status = "running" =>
                 j \in tx[s].takes \/ (Has(s, jobs[j]) /\ (session[s].mine = j \/ (~jobs[j].started /\ WorkerOf[s] \in shutdown)))
           /\ MyRow(s).started # tx[s].live =>
                 /\ Has(s, jobs[j]) /\ jobs[j].started = MyRow(s).started
                 /\ session[s].mine = j /\ session[s].live = tx[s].live
           /\ tx[s].live => MyRow(s).started \/ j \in tx[s].takes \union taken
  <1>0. s \in Sessions
    BY Casts
  <1>1. TxOK(s, tx[s]) /\ j # NoJob /\ SessionOK(s)
    BY <1>0, SessionAssumption DEF TransactionsInv
  <1>2. RowOK(MyRow(s)) /\ MyRow(s) \in JobRow /\ MyRow(s) = Latest(s, j)
    BY <1>0, LatestIs DEF MyRow
  <1>3. CASE j \in DOMAIN tx[s].writes
    <2>1. MyRow(s) = tx[s].writes[j]
      BY <1>3 DEF MyRow, Latest
    <2>2. /\ Has(s, MyRow(s)) /\ MyRow(s).started # tx[s].live =>
                Has(s, jobs[j]) /\ jobs[j].started = MyRow(s).started /\ session[s].mine = j /\ session[s].live = tx[s].live
          /\ tx[s].live => (Has(s, MyRow(s)) /\ MyRow(s).started) \/ j \in tx[s].takes \union taken
      BY <1>1, <1>3, <2>1 DEF TxOK, MineOK
    <2>3. jobs[j].status = "running" =>
                 j \in tx[s].takes \/ (Has(s, jobs[j]) /\ (session[s].mine = j \/ (~jobs[j].started /\ WorkerOf[s] \in shutdown)))
      BY <1>1, <1>3 DEF TxOK, RunsOK
    <2> QED
      BY <1>2, <2>2, <2>3
  <1>4. CASE j \notin DOMAIN tx[s].writes
    <2>1. MyRow(s) = jobs[j]
      BY <1>4 DEF MyRow, Latest
    <2>2. session[s].mine = j /\ session[s].live = tx[s].live
      BY <1>1, <1>4 DEF TxOK, MineOK
    <2>3. tx[s].live => j \in taken \/ (Has(s, jobs[j]) /\ jobs[j].started)
      BY <1>1, <2>2 DEF SessionOK
    <2> QED
      BY <1>2, <2>1, <2>2, <2>3
  <1> QED
    BY <1>3, <1>4

\* The worker's update of its job is applied.
LEMMA OwnedApplied ==
    ASSUME TransactionsInv, NEW s \in WorkerSessions, tx[s].at = "snapshot", NEW j \in Jobs, j = tx[s].mine,
           Has(s, MyRow(s)), ~LockedByOther(s, j), NEW r, NEW E, NEW m, NEW l, OwnWrite(s, r, E, m, l),
           NEW t, Made(s, t, WritingOne(s, j, r), E, tx[s].takes, m, l), Continues(s, t),
           UNCHANGED <<storeVars, session, shutdown, told, effects, answer>>
    PROVE  TransactionsInv'
  <1>0. s \in Sessions
    BY Casts
  <1>1. PICK rows : rows = [i \in {j} |-> r]
    OBVIOUS
  <1>2. DOMAIN rows = {j} /\ rows[j] = r /\ DOMAIN rows \subseteq Jobs
    BY <1>1, OneRow
  <1>3. PICK n : /\ tx' = [tx EXCEPT ![s] = n] /\ Shaped(s, n) /\ n.at = "open" /\ n.writes = Writing(s, rows)
                 /\ n.effects = E /\ n.takes = tx[s].takes /\ n.mine = m /\ n.live = l
    <2>1. Made(s, t, Writing(s, rows), E, tx[s].takes, m, l)
      BY <1>1 DEF WritingOne
    <2> QED
      BY <1>0, <2>1, MadeContinues
  <1>4. Written(s, rows, n)
    BY <1>0, <1>2, <1>3, WritingIs
  <1>5. /\ MyRow(s) = Latest(s, j) /\ MyRow(s).status = "running"
        /\ jobs[j].status = "running" =>
              j \in tx[s].takes \/ (Has(s, jobs[j]) /\ (session[s].mine = j \/ (~jobs[j].started /\ WorkerOf[s] \in shutdown)))
        /\ MyRow(s).started # tx[s].live =>
              /\ Has(s, jobs[j]) /\ jobs[j].started = MyRow(s).started
              /\ session[s].mine = j /\ session[s].live = tx[s].live
        /\ tx[s].live => MyRow(s).started \/ j \in tx[s].takes \union taken
    BY MyRowIs DEF Has
  <1>6. \A i \in DOMAIN rows : Replaces(s, i, rows[i])
    BY <1>2, <1>5 DEF Replaces, Active, OwnWrite
  <1>7. VersionsOK(n)
    <2>1. tx[s].effects \subseteq n.effects
      BY <1>3 DEF OwnWrite
    <2>2. \A i \in DOMAIN rows : rows[i].status = "completed" => i \in n.effects
      BY <1>2, <1>3 DEF OwnWrite, Has
    <2>3. \A i \in n.effects \ tx[s].effects :
              i \in DOMAIN rows /\ rows[i].status = "completed" /\ Latest(s, i).status \notin {"completed", "gone"}
      BY <1>2, <1>3, <1>5 DEF OwnWrite
    <2> QED
      BY <1>0, <1>2, <1>3, <1>6, <2>1, <2>2, <2>3, VersionsWritten
  <1>8. KeysDiffer(n) /\ \A o \in Sessions \ {s} : Apart(n, tx[o])
    BY <1>0, <1>2, <1>3, <1>6, KeysWritten, WritesApart
  <1>9. TxOK(s, tx[s]) /\ NoJob \notin Jobs
    BY <1>0, SessionAssumption DEF TransactionsInv
  <1>10. RunsOK(s, n)
    <2> SUFFICES ASSUME NEW i \in DOMAIN n.writes
                 PROVE  /\ n.writes[i].status = "running" => s \in WorkerSessions /\ Has(s, n.writes[i]) /\ n.mine = i
                        /\ jobs[i].status = "running" =>
                              \/ i \in n.takes
                              \/ /\ s \in WorkerSessions /\ Has(s, jobs[i])
                                 /\ session[s].mine = i \/ (~jobs[i].started /\ WorkerOf[s] \in shutdown)
      BY DEF RunsOK
    <2>1. CASE i = j
      <3>1. n.writes[i] = r
        BY <1>2, <1>4, <2>1 DEF Written
      <3> QED
        BY <1>3, <1>5, <2>1, <3>1 DEF OwnWrite
    <2>2. CASE i # j
      <3>1. i \in DOMAIN tx[s].writes /\ n.writes[i] = tx[s].writes[i] /\ i \in Jobs
        BY <1>2, <1>4, <2>2 DEF Written
      <3> QED
        BY <1>3, <1>9, <2>2, <3>1 DEF TxOK, RunsOK
    <2> QED
      BY <2>1, <2>2
  <1>11. MineOK(s, n)
    <2>1. /\ j \in DOMAIN n.writes /\ n.writes[j] = r /\ DOMAIN tx[s].writes \subseteq DOMAIN n.writes
          /\ NoJob \notin DOMAIN n.writes
      BY <1>2, <1>4, <1>9 DEF Written
    <2>2. session[s].mine # NoJob /\ session[s].mine \notin DOMAIN n.writes => FALSE
      BY <1>9, <2>1 DEF TxOK, MineOK
    <2>3. CASE Has(s, r) /\ m = tx[s].mine /\ E = tx[s].effects
      <3>1. /\ Has(s, r) /\ r.started # l => Has(s, jobs[j]) /\ jobs[j].started = r.started
                                                /\ session[s].mine = j /\ session[s].live = l
            /\ l => (Has(s, r) /\ r.started) \/ j \in tx[s].takes \union taken
        <4>1. CASE r.started /\ l = TRUE
          BY <2>3, <4>1
        <4>2. CASE r.started = MyRow(s).started /\ l = tx[s].live
          BY <1>5, <2>3, <4>2
        <4> QED
          BY <2>3, <4>1, <4>2 DEF OwnWrite, Has
      <3> QED
        BY <1>3, <1>9, <2>1, <2>2, <2>3, <3>1 DEF MineOK
    <2>4. CASE m = NoJob /\ l = FALSE
      BY <1>3, <2>1, <2>2, <2>4 DEF MineOK
    <2> QED
      BY <2>3, <2>4 DEF OwnWrite
  <1>12. TxOK(s, n)
    BY <1>3, <1>7, <1>8, <1>10, <1>11 DEF TxOK, SeenOK
  <1>13. \A o \in WorkerSessions : Siblings(s, o) /\ n.mine = session[o].mine /\ n.mine # NoJob
                                       => n.mine \in taken \union n.takes
    BY <1>3 DEF OwnWrite, TransactionsInv, ShareTaken, Siblings
  <1>14. \A i \in DOMAIN rows : rows[i].status # "unused"
    BY <1>6 DEF Replaces
  <1>15. /\ answer' = [p \in Producers |-> answer'[p]]
         /\ \A p \in Producers : answer'[p].kind = "deduplicated" =>
               answer'[p].job \in Jobs /\ VersionIn(IF p = s THEN n ELSE tx[p], answer'[p].job).status # "unused"
    BY <1>0, <1>4, <1>14, AnswersStand
  <1> QED
    BY <1>0, <1>3, <1>8, <1>12, <1>13, <1>15, TransactionMoves


\* JobNotRunning: the session is not the one that runs the job.
LEMMA ToldKeeps ==
    ASSUME TransactionsInv, NEW s \in WorkerSessions, tx[s].at = "snapshot", NEW j \in Jobs, j = tx[s].mine,
           NEW started, tx[s].live \in started, ~Matches(tx[s].seen[j], Owned(s, started)), ToldNotRunning(s, j)
    PROVE  TransactionsInv'
  <1>0. s \in Sessions
    BY Casts
  <1>1. TxOK(s, tx[s]) /\ NoJob \notin Jobs /\ SessionOK(s)
    BY <1>0, SessionAssumption DEF TransactionsInv
  <1>2. RolledBack(s) /\ UNCHANGED <<storeVars, shutdown, effects>>
    BY DEF ToldNotRunning
  <1>3. CASE j \in DOMAIN tx[s].writes
    <2>1. UNCHANGED <<session, told>>
      BY <1>3 DEF ToldNotRunning
    <2> QED
      BY <1>0, <1>2, <2>1, RolledBackKeeps
  <1>4. CASE j \notin DOMAIN tx[s].writes
    <2>1. /\ told' = [told EXCEPT ![s] = @ \union {j}]
          /\ session' = [session EXCEPT ![s] = [mine |-> NoJob, live |-> FALSE]]
          /\ tx' = [tx EXCEPT ![s] = NoTx]
          /\ answer' = [p \in Producers |-> IF p = s THEN NoAnswer ELSE answer[p]]
          /\ UNCHANGED <<jobs, paused, held, taken, shutdown, effects>>
      BY <1>2, <1>4 DEF ToldNotRunning, RolledBack, Closed, storeVars
    <2>2. session[s].mine = j /\ session[s].live = tx[s].live
      BY <1>1, <1>4 DEF TxOK, MineOK
    <2>3. /\ tx = [o \in Sessions |-> tx[o]] /\ told \in [WorkerSessions -> SUBSET Jobs]
          /\ session \in [WorkerSessions -> [mine : Jobs \union {NoJob}, live : BOOLEAN]]
          /\ WorkerSessions \subseteq Sessions
      BY Casts DEF TransactionsInv, TransactionsTyped
    <2>4. /\ session'[s].mine = NoJob /\ session'[s].live = FALSE /\ told'[s] = told[s] \union {j}
          /\ session' \in [WorkerSessions -> [mine : Jobs \union {NoJob}, live : BOOLEAN]]
          /\ told' \in [WorkerSessions -> SUBSET Jobs]
          /\ \A o \in WorkerSessions \ {s} : session'[o] = session[o] /\ told'[o] = told[o]
          /\ tx'[s] = NoTx /\ (\A o \in Sessions \ {s} : tx'[o] = tx[o]) /\ tx' = [o \in Sessions |-> tx'[o]]
      BY <1>0, <2>1, <2>3
    <2>5. (TransactionsTyped /\ OneActive /\ EffectsOK)'
      BY <2>1, <2>4 DEF TransactionsInv, TransactionsTyped, OneActive, EffectsOK
    <2>6. ASSUME NEW o \in Sessions PROVE TxOK(o, tx[o])'
      <3>1. PICK t : t = tx'[o] /\ (o = s => t = NoTx) /\ (o # s => t = tx[o])
        BY <2>4
      <3>2. TxOK(o, t)
        BY <1>0, <3>1, NoTxOK DEF TransactionsInv
      <3>3. Shaped(o, t)' /\ VersionsOK(t)' /\ KeysDiffer(t)' /\ SeenOK(t)'
        BY <2>1, <3>2 DEF TxOK, Shaped, VersionsOK, KeysDiffer, SeenOK, VersionIn
      <3>4. CASE o = s
        <4>1. RunsOK(o, t)' /\ MineOK(o, t)'
          BY <3>1, <3>4, NoTxIs DEF RunsOK, MineOK
        <4> QED
          BY <3>1, <3>3, <4>1 DEF TxOK
      <3>5. CASE o # s
        <4>1. o \in WorkerSessions => session'[o] = session[o]
          BY <2>4, <3>5
        <4>2. RunsOK(o, t)' /\ MineOK(o, t)'
          BY <2>1, <3>2, <4>1 DEF TxOK, RunsOK, MineOK
        <4> QED
          BY <3>1, <3>3, <4>2 DEF TxOK
      <3> QED
        BY <3>4, <3>5
    <2>7. ASSUME NEW o \in Sessions, NEW q \in Sessions, o # q PROVE Apart(tx[o], tx[q])'
      <3>1. PICK t, u : t = tx'[o] /\ u = tx'[q]
        OBVIOUS
      <3>2. Apart(t, u)
        <4>1. CASE o = s \/ q = s
          <5>1. t = NoTx \/ u = NoTx
            BY <2>4, <3>1, <4>1
          <5> QED
            BY <1>0, <5>1, NoTxOK
        <4>2. CASE o # s /\ q # s
          <5>1. t = tx[o] /\ u = tx[q] /\ Apart(tx[o], tx[q])
            BY <2>4, <2>7, <3>1, <4>2 DEF TransactionsInv
          <5> QED
            BY <5>1
        <4> QED
          BY <4>1, <4>2
      <3>3. Apart(tx'[o], tx'[q])
        BY <3>1, <3>2
      <3> QED
        BY <3>3 DEF Apart, SameKey
    <2>8. ASSUME NEW o \in WorkerSessions PROVE SessionOK(o)'
      <3>1. CASE o = s
        BY <1>1, <2>4, <3>1 DEF SessionOK
      <3>2. CASE o # s
        <4>1. session'[o] = session[o] /\ told'[o] = told[o] /\ SessionOK(o)
          BY <2>4, <3>2 DEF TransactionsInv
        <4> QED
          BY <2>1, <4>1 DEF SessionOK, Has
      <3> QED
        BY <3>1, <3>2
    <2>9. ShareTaken'
      <3> SUFFICES ASSUME NEW a \in WorkerSessions, NEW o \in WorkerSessions, Siblings(a, o), session'[o].mine # NoJob
                   PROVE  /\ session'[a].mine = session'[o].mine => session'[o].mine \in taken
                          /\ tx'[a].mine = session'[o].mine => session'[o].mine \in taken \union tx'[a].takes
        BY <2>1 DEF ShareTaken, Siblings
      <3>1. session'[o] = session[o]
        BY <2>4
      <3>2. CASE a = s
        BY <2>4, <3>2, NoTxIs
      <3>3. CASE a # s
        <4>1. session'[a] = session[a] /\ tx'[a] = tx[a]
          BY <2>3, <2>4, <3>3
        <4> QED
          BY <3>1, <4>1 DEF TransactionsInv, ShareTaken
      <3> QED
        BY <3>2, <3>3
    <2>10. RunnersOK'
      <3> SUFFICES ASSUME NEW a \in WorkerSessions, NEW i \in Jobs, Has(a, jobs[i])
                   PROVE  \E o \in WorkerSessions : WorkerOf[o] = WorkerOf[a] /\ Runner(o, i)'
        BY <2>1 DEF RunnersOK, Has
      <3>1. PICK o \in WorkerSessions : WorkerOf[o] = WorkerOf[a] /\ Runner(o, i)
        BY DEF TransactionsInv, RunnersOK
      <3>2. o # s
        <4>1. SUFFICES ASSUME o = s PROVE FALSE
          OBVIOUS
        <4>2. i = j /\ session[s].live = jobs[j].started /\ Has(s, tx[s].seen[j]) /\ tx[s].seen[j].started = jobs[j].started
          BY <1>4, <2>2, <3>1, <4>1 DEF Runner
        <4> QED
          BY <2>2, <4>2, WhereIs
      <3>3. Runner(o, i)'
        <4>1. session'[o] = session[o] /\ tx'[o] = tx[o]
          BY <2>3, <2>4, <3>2
        <4> QED
          BY <2>1, <3>1, <4>1 DEF Runner, Has
      <3> QED
        BY <3>1, <3>3
    <2>11. AnswersOK'
      <3> SUFFICES ASSUME NEW p \in Producers, answer'[p].kind = "deduplicated"
                   PROVE  answer'[p].job \in Jobs /\ VersionIn(tx[p], answer[p].job)'.status # "unused"
        BY DEF AnswersOK
      <3>1. p # s /\ answer'[p] = answer[p]
        BY <2>1 DEF NoAnswer
      <3>2. tx'[p] = tx[p]
        BY <2>4, <3>1, Casts
      <3> QED
        BY <2>1, <3>1, <3>2 DEF TransactionsInv, AnswersOK, VersionIn
    <2> QED
      BY <2>5, <2>6, <2>7, <2>8, <2>9, <2>10, <2>11 DEF TransactionsInv
  <1> QED
    BY <1>3, <1>4

\* The worker's update of its job, whatever it is told.
LEMMA OwnedUpdateKeeps ==
    ASSUME TransactionsInv, NEW s \in WorkerSessions, NEW started, tx[s].live \in started,
           NEW r, NEW t, OwnedUpdate(s, started, r, t), NEW E, NEW m, NEW l,
           Has(s, MyRow(s)) => OwnWrite(s, r, E, m, l),
           \A w : DOMAIN w \subseteq Jobs => Made(s, [t EXCEPT !.writes = w], w, E, tx[s].takes, m, l)
    PROVE  TransactionsInv'
  <1>0. s \in Sessions
    BY Casts
  <1>1. PICK j \in Jobs : j = tx[s].mine /\ tx[s].at = "snapshot"
    BY <1>0 DEF OwnedUpdate, TransactionsInv, TxOK, Shaped
  <1>2. PICK where : where = Owned(s, started)
    OBVIOUS
  <1>3. CASE /\ Selected(s, j, where) /\ Continues(s, [t EXCEPT !.writes = WritingOne(s, j, r)])
             /\ UNCHANGED <<storeVars, session, shutdown, told, effects, answer>>
    <2>1. ~LockedByOther(s, j) /\ Has(s, Latest(s, j)) /\ MyRow(s) = Latest(s, j)
      BY <1>0, <1>1, <1>2, <1>3, SelectedIs, WhereIs DEF MyRow
    <2>2. DOMAIN WritingOne(s, j, r) \subseteq Jobs
      BY <1>0 DEF WritingOne, Writing, TransactionsInv, TxOK, Shaped
    <2>3. PICK n : n = [t EXCEPT !.writes = WritingOne(s, j, r)]
      OBVIOUS
    <2>4. Made(s, n, WritingOne(s, j, r), E, tx[s].takes, m, l)
      BY <2>2, <2>3
    <2>5. OwnWrite(s, r, E, m, l) /\ Has(s, MyRow(s)) /\ Continues(s, n)
      BY <1>3, <2>1, <2>3
    <2> QED
      BY <1>1, <1>3, <2>1, <2>4, <2>5, OwnedApplied
  <1>4. CASE ~Matches(tx[s].seen[j], where) /\ ToldNotRunning(s, j)
    BY <1>1, <1>2, <1>4, ToldKeeps
  <1>5. CASE ToldLocked(s)
    BY <1>0, <1>5, RolledBackKeeps DEF ToldLocked
  <1> QED
    BY <1>1, <1>2, <1>3, <1>4, <1>5 DEF OwnedUpdate, NotRunning


\* Where the rows are afterwards.
LEMMA RowStatus ==
    ASSUME NEW row \in JobRow, NEW n, NEW increment \in BOOLEAN, NEW dead \in BOOLEAN
    PROVE  /\ CompletedRow(row).status = "completed" /\ ReturnToPending(row).status = "pending"
           /\ ScheduledRetryRow(row, n).status = "pending" /\ RetryFailedRow(row).status = "pending"
           /\ FailedRow(row, increment).status = "failed" /\ DeadLetterRow(row, increment).status = "dead"
           /\ ReclaimedRow(row, dead).status \in {"pending", "failed", "dead"}
           /\ DeletedRow.status = "gone"
  <1>1. \A status : ClearRuntime(row, status) \in [status : {status}, worker : {NoWorker}, started : {FALSE}, stale : {FALSE},
                                                     retry : 0 .. MaxRetries + 1, key : Keys \union {NoKey}]
    BY DEF JobRow, ClearRuntime
  <1>2. \A status, k : [ClearRuntime(row, status) EXCEPT !.retry = k].status = status
    BY <1>1
  <1>3. \A status : ClearRuntime(row, status).status = status
    BY <1>1
  <1>4. CompletedRow(row).status = "completed" /\ ReturnToPending(row).status = "pending"
    BY <1>3 DEF CompletedRow, ReturnToPending
  <1>5. ScheduledRetryRow(row, n).status = "pending" /\ RetryFailedRow(row).status = "pending"
    BY <1>2 DEF ScheduledRetryRow, RetryFailedRow
  <1>6. \A b : FailedRow(row, b).status = "failed" /\ DeadLetterRow(row, b).status = "dead"
    BY <1>2 DEF FailedRow, DeadLetterRow
  <1>7. ReclaimedRow(row, dead).status \in {"pending", "failed", "dead"}
    <2>1. CASE ~row.started
      BY <1>4, <2>1 DEF ReclaimedRow
    <2>2. CASE row.started /\ row.retry < MaxRetries
      BY <1>2, <2>2 DEF ReclaimedRow
    <2>3. CASE row.started /\ ~(row.retry < MaxRetries)
      BY <1>6, <2>3 DEF ReclaimedRow
    <2> QED
      BY <2>1, <2>2, <2>3
  <1>8. DeletedRow.status = "gone"
    BY DEF DeletedRow, UnusedRow
  <1> QED
    BY <1>4, <1>5, <1>6, <1>7, <1>8

\* The rows that a worker may write over its own.
LEMMA OwnRows ==
    ASSUME TransactionsInv, NEW s \in WorkerSessions, tx[s].at = "snapshot", tx[s].mine \in Jobs, Has(s, MyRow(s))
    PROVE  /\ OwnWrite(s, StartedRow(MyRow(s)), tx[s].effects, tx[s].mine, TRUE)
           /\ OwnWrite(s, TouchedRow(MyRow(s)), tx[s].effects, tx[s].mine, tx[s].live)
           /\ OwnWrite(s, CompletedRow(MyRow(s)), tx[s].effects \union {tx[s].mine}, NoJob, FALSE)
           /\ OwnWrite(s, ScheduledRetryRow(MyRow(s), MyRow(s).retry), tx[s].effects, NoJob, FALSE)
           /\ OwnWrite(s, FailedRow(MyRow(s), FALSE), tx[s].effects, NoJob, FALSE)
           /\ OwnWrite(s, DeadLetterRow(MyRow(s), FALSE), tx[s].effects, NoJob, FALSE)
           /\ OwnWrite(s, ReturnToPending(MyRow(s)), tx[s].effects, NoJob, FALSE)
  <1>1. PICK row \in JobRow : row = MyRow(s) /\ RowOK(row) /\ row.status = "running" /\ row.worker = WorkerOf[s]
    BY MyRowIs DEF Has
  <1>2. row.retry <= MaxRetries /\ row.retry \in Retries
    BY <1>1 DEF RowOK, JobRow, Retries
  <1>3. /\ RowOK(StartedRow(row)) /\ StartedRow(row).key = row.key /\ StartedRow(row).started
        /\ StartedRow(row).status = "running" /\ StartedRow(row).worker = row.worker
        /\ RowOK(TouchedRow(row)) /\ TouchedRow(row).key = row.key /\ TouchedRow(row).started = row.started
        /\ TouchedRow(row).status = "running" /\ TouchedRow(row).worker = row.worker
    BY <1>1, RunningRowOK
  <1>4. OwnWrite(s, StartedRow(row), tx[s].effects, tx[s].mine, TRUE)
    BY <1>1, <1>3 DEF OwnWrite, Has
  <1>5. OwnWrite(s, TouchedRow(row), tx[s].effects, tx[s].mine, tx[s].live)
    BY <1>1, <1>3 DEF OwnWrite, Has
  <1>6. /\ RowOK(CompletedRow(row)) /\ ~Active(CompletedRow(row))
        /\ RowOK(ScheduledRetryRow(row, row.retry)) /\ ScheduledRetryRow(row, row.retry).key = row.key
        /\ RowOK(FailedRow(row, FALSE)) /\ ~Active(FailedRow(row, FALSE))
        /\ RowOK(DeadLetterRow(row, FALSE)) /\ ~Active(DeadLetterRow(row, FALSE))
        /\ RowOK(ReturnToPending(row)) /\ ReturnToPending(row).key = row.key
    BY <1>1, <1>2, EndedRows
  <1>7. /\ CompletedRow(row).status = "completed" /\ ReturnToPending(row).status = "pending"
        /\ ScheduledRetryRow(row, row.retry).status = "pending"
        /\ FailedRow(row, FALSE).status = "failed" /\ DeadLetterRow(row, FALSE).status = "dead"
    BY RowStatus
  <1>8. OwnWrite(s, CompletedRow(row), tx[s].effects \union {tx[s].mine}, NoJob, FALSE)
    BY <1>6, <1>7 DEF OwnWrite
  <1>9. ASSUME NEW r, RowOK(r), r.status \in {"pending", "failed", "dead"}, Active(r) => r.key = row.key
        PROVE  OwnWrite(s, r, tx[s].effects, NoJob, FALSE)
    BY <1>1, <1>9 DEF OwnWrite
  <1> QED
    BY <1>1, <1>4, <1>5, <1>6, <1>7, <1>8, <1>9

\* The calls of a worker on its job.
LEMMA OwnCallKeeps ==
    ASSUME TransactionsInv, NEW s \in WorkerSessions,
           \/ ManualMarkStarted(s) \/ ManualHeartbeat(s) \/ ManualComplete(s) \/ ManualScheduleRetry(s)
           \/ ManualMarkFailed(s) \/ ManualMoveToDeadLetter(s)
           \/ ManualReturnUnstarted(s) \/ ManualReturnStarted(s)
    PROVE  TransactionsInv'
  <1>0. s \in Sessions
    BY Casts
  <1>1. tx[s].at = "snapshot" /\ tx[s].mine \in Jobs /\ tx[s].live \in BOOLEAN
    <2>1. tx[s].at = "snapshot" /\ tx[s].mine # NoJob
      BY DEF ManualMarkStarted, ManualHeartbeat, ManualComplete, ManualScheduleRetry, ManualMarkFailed,
             ManualMoveToDeadLetter, ManualReturnUnstarted, ManualReturnStarted, OwnedUpdate
    <2> QED
      BY <1>0, <2>1 DEF TransactionsInv, TxOK, Shaped
  <1>2. PICK yes, no : yes = TRUE /\ no = FALSE
    OBVIOUS
  <1>3. /\ Has(s, MyRow(s)) => OwnWrite(s, StartedRow(MyRow(s)), tx[s].effects, tx[s].mine, yes)
        /\ Has(s, MyRow(s)) => OwnWrite(s, TouchedRow(MyRow(s)), tx[s].effects, tx[s].mine, tx[s].live)
        /\ Has(s, MyRow(s)) => OwnWrite(s, CompletedRow(MyRow(s)), tx[s].effects \union {tx[s].mine}, NoJob, no)
        /\ Has(s, MyRow(s)) => OwnWrite(s, ScheduledRetryRow(MyRow(s), MyRow(s).retry), tx[s].effects, NoJob, no)
        /\ Has(s, MyRow(s)) => OwnWrite(s, FailedRow(MyRow(s), FALSE), tx[s].effects, NoJob, no)
        /\ Has(s, MyRow(s)) => OwnWrite(s, DeadLetterRow(MyRow(s), FALSE), tx[s].effects, NoJob, no)
        /\ Has(s, MyRow(s)) => OwnWrite(s, ReturnToPending(MyRow(s)), tx[s].effects, NoJob, no)
    BY <1>1, <1>2, OwnRows
  <1>4. PICK started, touched, completed :
            /\ started = [tx[s] EXCEPT !.live = TRUE] /\ touched = tx[s]
            /\ completed = [GaveUp(s) EXCEPT !.effects = @ \union {tx[s].mine}]
    OBVIOUS
  <1>5. ASSUME NEW w, DOMAIN w \subseteq Jobs
        PROVE  /\ Made(s, [started EXCEPT !.writes = w], w, tx[s].effects, tx[s].takes, tx[s].mine, yes)
               /\ Made(s, [touched EXCEPT !.writes = w], w, tx[s].effects, tx[s].takes, tx[s].mine, tx[s].live)
               /\ Made(s, [completed EXCEPT !.writes = w], w, tx[s].effects \union {tx[s].mine}, tx[s].takes, NoJob, no)
               /\ Made(s, [GaveUp(s) EXCEPT !.writes = w], w, tx[s].effects, tx[s].takes, NoJob, no)
    <2>1. {} \in SUBSET Jobs
      OBVIOUS
    <2>2. /\ Made(s, [tx[s] EXCEPT !.writes = w], w, tx[s].effects, tx[s].takes, tx[s].mine, tx[s].live)
          /\ Made(s, [[tx[s] EXCEPT !.live = TRUE] EXCEPT !.writes = w], w, tx[s].effects, tx[s].takes, tx[s].mine, TRUE)
          /\ Made(s, [GaveUp(s) EXCEPT !.writes = w], w, tx[s].effects, tx[s].takes, NoJob, FALSE)
          /\ Made(s, [[GaveUp(s) EXCEPT !.effects = @ \union {tx[s].mine}] EXCEPT !.writes = w], w,
                  tx[s].effects \union {tx[s].mine}, tx[s].takes, NoJob, FALSE)
      BY <1>0, <1>1, <1>5, <2>1, CallShapes
    <2> QED
      BY <1>2, <1>4, <2>2
  <1>6. CASE ManualMarkStarted(s)
    <2>1. PICK r : r = StartedRow(MyRow(s))
      OBVIOUS
    <2>2. OwnedUpdate(s, BOOLEAN, r, started) /\ (Has(s, MyRow(s)) => OwnWrite(s, r, tx[s].effects, tx[s].mine, yes))
      BY <1>3, <1>4, <1>6, <2>1 DEF ManualMarkStarted
    <2> QED
      BY <1>1, <1>5, <2>2, OwnedUpdateKeeps
  <1>7. CASE ManualHeartbeat(s)
    <2>1. PICK r : r = TouchedRow(MyRow(s))
      OBVIOUS
    <2>2. OwnedUpdate(s, BOOLEAN, r, touched) /\ (Has(s, MyRow(s)) => OwnWrite(s, r, tx[s].effects, tx[s].mine, tx[s].live))
      BY <1>3, <1>4, <1>7, <2>1 DEF ManualHeartbeat
    <2> QED
      BY <1>1, <1>5, <2>2, OwnedUpdateKeeps
  <1>8. CASE ManualComplete(s)
    <2>1. PICK r, E : r = CompletedRow(MyRow(s)) /\ E = tx[s].effects \union {tx[s].mine}
      OBVIOUS
    <2>2. OwnedUpdate(s, BOOLEAN, r, completed) /\ (Has(s, MyRow(s)) => OwnWrite(s, r, E, NoJob, no))
      BY <1>3, <1>4, <1>8, <2>1 DEF ManualComplete
    <2>3. \A w : DOMAIN w \subseteq Jobs => Made(s, [completed EXCEPT !.writes = w], w, E, tx[s].takes, NoJob, no)
      BY <1>5, <2>1
    <2> QED
      BY <1>1, <2>2, <2>3, OwnedUpdateKeeps
  <1>9. ASSUME NEW r, NEW S, tx[s].live \in S, OwnedUpdate(s, S, r, GaveUp(s)),
               Has(s, MyRow(s)) => OwnWrite(s, r, tx[s].effects, NoJob, no)
        PROVE  TransactionsInv'
    BY <1>5, <1>9, OwnedUpdateKeeps
  <1>10. CASE ManualScheduleRetry(s)
    BY <1>1, <1>3, <1>9, <1>10 DEF ManualScheduleRetry
  <1>11. CASE ManualMarkFailed(s)
    BY <1>1, <1>3, <1>9, <1>11 DEF ManualMarkFailed
  <1>12. CASE ManualMoveToDeadLetter(s)
    BY <1>1, <1>3, <1>9, <1>12 DEF ManualMoveToDeadLetter
  <1>13. CASE ManualReturnUnstarted(s)
    <2>1. tx[s].live \in {FALSE} /\ OwnedUpdate(s, {FALSE}, ReturnToPending(MyRow(s)), GaveUp(s))
      BY <1>1, <1>13 DEF ManualReturnUnstarted
    <2> QED
      BY <1>3, <1>9, <2>1
  <1>14. CASE ManualReturnStarted(s)
    <2>1. tx[s].live \in {TRUE} /\ OwnedUpdate(s, {TRUE}, ReturnToPending(MyRow(s)), GaveUp(s))
      BY <1>1, <1>14 DEF ManualReturnStarted
    <2> QED
      BY <1>3, <1>9, <2>1
  <1> QED
    BY <1>6, <1>7, <1>8, <1>10, <1>11, <1>12, <1>13, <1>14


\* What a call that takes rows, or hands them back, makes of a row.
HandsBack(s, j, r, K) ==
    /\ ~LockedByOther(s, j) /\ RowOK(r) /\ r.status \notin {"unused", "running", "completed"}
    /\ Latest(s, j).status \in {"completed", "gone"} => r.status = "gone"
    /\ Active(r) => Active(Latest(s, j)) /\ Latest(s, j).key = r.key
    /\ Latest(s, j).status = "running" =>
          \/ j \in K
          \/ s \in WorkerSessions /\ Has(s, Latest(s, j)) /\ ~Latest(s, j).started /\ WorkerOf[s] \in shutdown

\* Such a call.
LEMMA HandBackKeeps ==
    ASSUME TransactionsInv, NEW s \in WorkerSessions \union Operators, tx[s].at = "snapshot",
           NEW rows, DOMAIN rows \subseteq Jobs, NEW K, tx[s].takes \subseteq K,
           \A j \in DOMAIN rows : HandsBack(s, j, rows[j], K),
           NEW t, Made(s, t, Writing(s, rows), tx[s].effects, K, tx[s].mine, tx[s].live), Continues(s, t),
           UNCHANGED <<storeVars, session, shutdown, told, effects, answer>>
    PROVE  TransactionsInv'
  <1>1. s \in Sessions
    BY Casts
  <1>2. \A j \in DOMAIN rows : Replaces(s, j, rows[j]) /\ rows[j].status \notin {"running", "completed"}
    BY DEF Replaces, HandsBack
  <1>3. \A i, j \in DOMAIN rows : i # j /\ Active(rows[i]) /\ Active(rows[j]) =>
            Active(Latest(s, i)) /\ Latest(s, i).key = rows[i].key /\ Active(Latest(s, j)) /\ Latest(s, j).key = rows[j].key
    BY DEF HandsBack
  <1>4. \A j \in DOMAIN rows : Latest(s, j).status = "running" =>
            \/ j \in K
            \/ s \in WorkerSessions /\ Has(s, Latest(s, j)) /\ ~Latest(s, j).started /\ WorkerOf[s] \in shutdown
    BY DEF HandsBack
  <1>5. /\ answer' = [p \in Producers |-> answer'[p]]
        /\ \A p \in Producers : answer'[p].kind = "deduplicated" => answer'[p] = answer[p]
    BY <1>1, NoNewAnswer
  <1>6. UNCHANGED <<storeVars, session, shutdown, told, effects>>
    OBVIOUS
  <1> QED
    BY <1>1, <1>2, <1>3, <1>4, <1>5, <1>6, QuietRows

\* The versions a transaction would have are of rows that there are.
LEMMA WritingDomain ==
    ASSUME TransactionsInv, NEW s \in Sessions, NEW rows, DOMAIN rows \subseteq Jobs
    PROVE  DOMAIN Writing(s, rows) \subseteq Jobs
  BY DEF Writing, TransactionsInv, TxOK, Shaped

\* A batch statement.
LEMMA BatchKeeps ==
    ASSUME TransactionsInv, NEW s \in WorkerSessions \union Operators, NEW where,
           NEW rows, DOMAIN rows \subseteq Jobs, NEW S \in SUBSET Jobs, BatchUpdate(s, where, rows, S),
           \A j \in DOMAIN rows : Selected(s, j, where) => HandsBack(s, j, rows[j], S)
    PROVE  TransactionsInv'
  <1>1. s \in Sessions
    BY Casts
  <1>2. PICK j \in Jobs : j \in DOMAIN rows /\ tx[s].at = "snapshot"
    BY DEF BatchUpdate
  <1>3. PICK w, t, K : w = Writing(s, rows) /\ K = tx[s].takes \union S
                       /\ t = [tx[s] EXCEPT !.writes = w, !.takes = @ \union S]
    OBVIOUS
  <1>4. DOMAIN w \subseteq Jobs
    BY <1>1, <1>3, WritingDomain
  <1>5. Made(s, t, w, tx[s].effects, K, tx[s].mine, tx[s].live)
    BY <1>1, <1>2, <1>3, <1>4, CallShapes
  <1>6. Continues(s, t) /\ UNCHANGED <<storeVars, session, shutdown, told, effects, answer>>
    BY <1>3 DEF BatchUpdate
  <1>7. \A i \in DOMAIN rows : HandsBack(s, i, rows[i], S) /\ S \subseteq K
    BY <1>3 DEF BatchUpdate
  <1>8. \A i \in DOMAIN rows : HandsBack(s, i, rows[i], K)
    BY <1>7 DEF HandsBack
  <1>9. Made(s, t, Writing(s, rows), tx[s].effects, K, tx[s].mine, tx[s].live) /\ tx[s].takes \subseteq K
    BY <1>3, <1>5
  <1> QED
    BY <1>2, <1>6, <1>8, <1>9, HandBackKeeps

\* The rows that the calls make of the rows they select.
LEMMA HandedBack ==
    ASSUME TransactionsInv, NEW s \in Sessions, NEW j \in Jobs, ~LockedByOther(s, j), NEW K,
           Latest(s, j).status = "running" =>
              \/ j \in K
              \/ s \in WorkerSessions /\ Has(s, Latest(s, j)) /\ ~Latest(s, j).started /\ WorkerOf[s] \in shutdown
    PROVE  /\ HandsBack(s, j, DeletedRow, K)
           /\ Latest(s, j).status \in {"pending", "running"} => HandsBack(s, j, ReturnToPending(Latest(s, j)), K)
           /\ Latest(s, j).status = "failed" => HandsBack(s, j, DeadLetterRow(Latest(s, j), FALSE), K)
           /\ \A dead \in BOOLEAN :
                 Latest(s, j).status = "running" => HandsBack(s, j, ReclaimedRow(Latest(s, j), dead), K)
  <1>1. PICK row \in JobRow : row = Latest(s, j) /\ RowOK(row)
    BY LatestIs
  <1>2. RowOK(DeletedRow) /\ ~Active(DeletedRow) /\ DeletedRow.status = "gone"
    BY <1>1, AbsentRows, RowStatus
  <1>3. HandsBack(s, j, DeletedRow, K)
    BY <1>2 DEF HandsBack
  <1>4. row.retry \in Retries /\ 0 \in Retries /\ 0 <= MaxRetries
    BY <1>1, RetryBounds DEF JobRow, Retries
  <1>5. RowOK(DeadLetterRow(row, FALSE)) /\ ~Active(DeadLetterRow(row, FALSE)) /\ DeadLetterRow(row, FALSE).status = "dead"
    BY <1>1, <1>4, EndedRows, RowStatus
  <1>6. row.status = "failed" => HandsBack(s, j, DeadLetterRow(row, FALSE), K)
    BY <1>1, <1>5 DEF HandsBack
  <1>7. row.status \in {"pending", "running"} => HandsBack(s, j, ReturnToPending(row), K)
    <2>1. SUFFICES ASSUME row.status \in {"pending", "running"} PROVE HandsBack(s, j, ReturnToPending(row), K)
      OBVIOUS
    <2>2. row.retry <= MaxRetries
      BY <1>1, <2>1 DEF RowOK
    <2>3. RowOK(ReturnToPending(row)) /\ ReturnToPending(row).status = "pending" /\ ReturnToPending(row).key = row.key
      BY <1>1, <1>4, <2>2, EndedRows
    <2> QED
      BY <1>1, <2>1, <2>3 DEF HandsBack, Active
  <1>8. ASSUME NEW dead \in BOOLEAN, row.status = "running" PROVE HandsBack(s, j, ReclaimedRow(row, dead), K)
    <2>1. /\ RowOK(ReclaimedRow(row, dead))
          /\ Active(ReclaimedRow(row, dead)) => ReclaimedRow(row, dead).key = row.key
          /\ ReclaimedRow(row, dead).status \in {"pending", "failed", "dead"}
      BY <1>1, <1>8, ReclaimedRowOK, RowStatus
    <2>2. Active(row) /\ Latest(s, j).status \notin {"completed", "gone"}
      BY <1>1, <1>8 DEF Active
    <2> QED
      BY <1>1, <2>1, <2>2 DEF HandsBack
  <1> QED
    BY <1>1, <1>3, <1>6, <1>7, <1>8


\* A worker that shuts down hands back what its sessions have.
LEMMA ReturnAvailableKeeps ==
    ASSUME TransactionsInv, NEW s \in WorkerSessions, NEW S \in SUBSET Jobs,
           ManualReturnAvailableUnstarted(s, S) \/ ManualReturnAvailableStarted(s, S)
    PROVE  TransactionsInv'
  <1>1. s \in Sessions /\ s \in WorkerSessions \union Operators /\ WorkerOf[s] \in shutdown
    BY Casts DEF ManualReturnAvailableUnstarted, ManualReturnAvailableStarted
  <1>0. PICK rows : rows = [j \in S |-> ReturnToPending(Latest(s, j))]
    OBVIOUS
  <1>2. rows = Returned(s, S) /\ DOMAIN rows = S /\ \A j \in S : rows[j] = ReturnToPending(Latest(s, j))
    BY <1>0 DEF Returned
  <1>3. CASE ManualReturnAvailableUnstarted(s, S)
    <2>1. PICK where, K : where = Owned(s, {FALSE}) /\ K = {}
      OBVIOUS
    <2>2. ASSUME NEW j \in DOMAIN rows, Selected(s, j, where) PROVE HandsBack(s, j, rows[j], K)
      <3>1. j \in Jobs /\ ~LockedByOther(s, j) /\ Has(s, Latest(s, j)) /\ Latest(s, j).started = FALSE
        <4>1. j \in Jobs /\ ~LockedByOther(s, j) /\ Matches(Latest(s, j), where)
          BY <1>1, <1>2, <2>2, SelectedIs
        <4>2. Has(s, Latest(s, j)) /\ Latest(s, j).started \in {FALSE}
          BY <2>1, <4>1, WhereIs
        <4> QED
          BY <4>1, <4>2
      <3> QED
        BY <1>1, <1>2, <3>1, HandedBack DEF Has
    <2>3. BatchUpdate(s, where, rows, K) /\ K \in SUBSET Jobs
      BY <1>2, <1>3, <2>1 DEF ManualReturnAvailableUnstarted
    <2> QED
      BY <1>1, <1>2, <2>2, <2>3, BatchKeeps
  <1>4. CASE ManualReturnAvailableStarted(s, S)
    <2>1. PICK where : where = Owned(s, {TRUE})
      OBVIOUS
    <2>2. ASSUME NEW j \in DOMAIN rows, Selected(s, j, where) PROVE HandsBack(s, j, rows[j], S)
      <3>1. j \in Jobs /\ ~LockedByOther(s, j) /\ Has(s, Latest(s, j)) /\ j \in S
        BY <1>1, <1>2, <2>1, <2>2, SelectedIs, WhereIs
      <3> QED
        BY <1>1, <1>2, <3>1, HandedBack DEF Has
    <2>3. BatchUpdate(s, where, rows, S)
      BY <1>2, <1>4, <2>1 DEF ManualReturnAvailableStarted
    <2> QED
      BY <1>1, <1>2, <2>2, <2>3, BatchKeeps
  <1> QED
    BY <1>3, <1>4

\* Maintenance: reclaim and cleanup.
LEMMA MaintenanceKeeps ==
    ASSUME TransactionsInv, NEW s \in Operators, NEW S \in SUBSET Jobs, NEW dead \in BOOLEAN,
           ReclaimNeverStarted(s, S) \/ ReclaimExpired(s, S, dead) \/ CleanupOnce(s, S)
    PROVE  TransactionsInv'
  <1>1. s \in Sessions /\ s \in WorkerSessions \union Operators
    BY Casts
  <1>2. CASE ReclaimNeverStarted(s, S)
    <2>0. PICK where, rows : where = Running({FALSE}) /\ rows = [j \in S |-> ReturnToPending(Latest(s, j))]
      OBVIOUS
    <2>1. /\ where = Running({FALSE}) /\ rows = Returned(s, S) /\ DOMAIN rows = S
          /\ \A j \in S : rows[j] = ReturnToPending(Latest(s, j))
      BY <2>0 DEF Returned
    <2>2. ASSUME NEW j \in DOMAIN rows, Selected(s, j, where) PROVE HandsBack(s, j, rows[j], S)
      <3>1. j \in Jobs /\ ~LockedByOther(s, j) /\ Latest(s, j).status = "running" /\ j \in S
        BY <1>1, <2>1, <2>2, SelectedIs, WhereIs
      <3> QED
        BY <1>1, <2>1, <3>1, HandedBack
    <2>3. BatchUpdate(s, where, rows, S)
      BY <1>2, <2>1 DEF ReclaimNeverStarted
    <2> QED
      BY <1>1, <2>1, <2>2, <2>3, BatchKeeps
  <1>3. CASE ReclaimExpired(s, S, dead)
    <2>0. PICK where, rows : where = Running({TRUE}) /\ rows = [j \in S |-> ReclaimedRow(Latest(s, j), dead)]
      OBVIOUS
    <2>1. /\ where = Running({TRUE}) /\ rows = [j \in S |-> ReclaimedRow(Latest(s, j), dead)] /\ DOMAIN rows = S
          /\ \A j \in S : rows[j] = ReclaimedRow(Latest(s, j), dead)
      BY <2>0
    <2>2. ASSUME NEW j \in DOMAIN rows, Selected(s, j, where) PROVE HandsBack(s, j, rows[j], S)
      <3>1. j \in Jobs /\ ~LockedByOther(s, j) /\ Latest(s, j).status = "running" /\ j \in S
        BY <1>1, <2>1, <2>2, SelectedIs, WhereIs
      <3> QED
        BY <1>1, <2>1, <3>1, HandedBack
    <2>3. BatchUpdate(s, where, rows, S)
      BY <1>3, <2>1 DEF ReclaimExpired
    <2> QED
      BY <1>1, <2>1, <2>2, <2>3, BatchKeeps
  <1>4. CASE CleanupOnce(s, S)
    <2>0. PICK where, rows, K : where = StatusIn({"completed", "failed"}) /\ rows = [j \in S |-> DeletedRow] /\ K = {}
      OBVIOUS
    <2>1. /\ where = StatusIn({"completed", "failed"}) /\ rows = Deleted(S) /\ DOMAIN rows = S
          /\ K = {} /\ \A j \in S : rows[j] = DeletedRow
      BY <2>0 DEF Deleted
    <2>2. ASSUME NEW j \in DOMAIN rows, Selected(s, j, where) PROVE HandsBack(s, j, rows[j], K)
      <3>1. j \in Jobs /\ ~LockedByOther(s, j) /\ Latest(s, j).status \in {"completed", "failed"}
        BY <1>1, <2>1, <2>2, SelectedIs, WhereIs
      <3> QED
        BY <1>1, <2>1, <3>1, HandedBack
    <2>3. BatchUpdate(s, where, rows, K) /\ K \in SUBSET Jobs
      BY <1>4, <2>1 DEF CleanupOnce
    <2> QED
      BY <1>1, <2>1, <2>2, <2>3, BatchKeeps
  <1> QED
    BY <1>2, <1>3, <1>4

\* A call on one row that it locks whatever the row's status.
LEMMA ExpectedStateKeeps ==
    ASSUME TransactionsInv, NEW s \in Operators, NEW j \in Jobs, NEW status, NEW r, ExpectedStateUpdate(s, j, status, r),
           ~LockedByOther(s, j) /\ Latest(s, j).status = status => \A K : j \in K => HandsBack(s, j, r, K)
    PROVE  TransactionsInv'
  <1>1. s \in Sessions /\ s \in WorkerSessions \union Operators
    BY Casts
  <1>2. CASE Selected(s, j, InTable) /\ Latest(s, j).status = status
    <2>1. PICK rows : rows = [i \in {j} |-> r]
      OBVIOUS
    <2>2. DOMAIN rows = {j} /\ rows[j] = r /\ DOMAIN rows \subseteq Jobs
      BY <2>1, OneRow
    <2>3. PICK S \in SUBSET Jobs : S = {j}
      OBVIOUS
    <2>4. PICK K : K = tx[s].takes \union S
      OBVIOUS
    <2>5. PICK w : w = Writing(s, rows)
      OBVIOUS
    <2>6. PICK t : t = [tx[s] EXCEPT !.writes = w, !.takes = @ \union S]
      OBVIOUS
    <2>7. tx[s].at = "snapshot" /\ Continues(s, t) /\ UNCHANGED <<storeVars, session, shutdown, told, effects, answer>>
      BY <1>2, <2>1, <2>3, <2>5, <2>6 DEF ExpectedStateUpdate, WritingOne, Proceeds
    <2>8. DOMAIN w \subseteq Jobs
      BY <1>1, <2>2, <2>5, WritingDomain
    <2>9. Made(s, t, w, tx[s].effects, K, tx[s].mine, tx[s].live)
      BY <1>1, <2>3, <2>4, <2>6, <2>7, <2>8, CallShapes
    <2>10. \A i \in DOMAIN rows : HandsBack(s, i, rows[i], K)
      BY <1>1, <1>2, <2>2, <2>3, <2>4, SelectedIs
    <2>11. Made(s, t, Writing(s, rows), tx[s].effects, K, tx[s].mine, tx[s].live) /\ tx[s].takes \subseteq K
      BY <2>4, <2>5, <2>9
    <2> QED
      BY <1>1, <2>2, <2>7, <2>10, <2>11, HandBackKeeps
  <1>3. CASE ~(Selected(s, j, InTable) /\ Latest(s, j).status = status)
    BY <1>1, <1>3, RolledBackKeeps DEF ExpectedStateUpdate
  <1> QED
    BY <1>2, <1>3

\* Cancel, force-requeue, move to the dead letters.
LEMMA OperatorRowKeeps ==
    ASSUME TransactionsInv, NEW s \in Operators, NEW j \in Jobs,
           CancelPending(s, j) \/ ForceRequeueRunning(s, j) \/ MoveFailedToDeadLetter(s, j)
    PROVE  TransactionsInv'
  <1>1. s \in Sessions
    BY Casts
  <1>2. CASE CancelPending(s, j)
    <2>1. ~LockedByOther(s, j) /\ Latest(s, j).status = "pending" => \A K : j \in K => HandsBack(s, j, DeletedRow, K)
      BY <1>1, HandedBack
    <2> QED
      BY <1>2, <2>1, ExpectedStateKeeps DEF CancelPending
  <1>3. CASE ForceRequeueRunning(s, j)
    <2>1. ~LockedByOther(s, j) /\ Latest(s, j).status = "running" =>
              \A K : j \in K => HandsBack(s, j, ReturnToPending(Latest(s, j)), K)
      BY <1>1, HandedBack
    <2> QED
      BY <1>3, <2>1, ExpectedStateKeeps DEF ForceRequeueRunning
  <1>4. CASE MoveFailedToDeadLetter(s, j)
    <2>1. ~LockedByOther(s, j) /\ Latest(s, j).status = "failed" =>
              \A K : j \in K => HandsBack(s, j, DeadLetterRow(Latest(s, j), FALSE), K)
      BY <1>1, HandedBack
    <2> QED
      BY <1>4, <2>1, ExpectedStateKeeps DEF MoveFailedToDeadLetter
  <1> QED
    BY <1>2, <1>3, <1>4


\* Deleting a dead letter.
LEMMA DeleteDeadKeeps ==
    ASSUME TransactionsInv, NEW s \in Operators, NEW j \in Jobs, DeleteDeadLetter(s, j)
    PROVE  TransactionsInv'
  <1>1. s \in Sessions /\ s \in WorkerSessions \union Operators
    BY Casts
  <1>2. PICK where : where = StatusIn({"dead"})
    OBVIOUS
  <1>3. CASE Selected(s, j, where)
    <2>1. PICK rows : rows = [i \in {j} |-> DeletedRow]
      OBVIOUS
    <2>2. DOMAIN rows = {j} /\ rows[j] = DeletedRow /\ DOMAIN rows \subseteq Jobs /\ rows = Deleted({j})
      BY <2>1, OneRow DEF Deleted
    <2>3. PICK w : w = Writing(s, rows)
      OBVIOUS
    <2>4. PICK t : t = [tx[s] EXCEPT !.writes = w]
      OBVIOUS
    <2>5. tx[s].at = "snapshot" /\ Continues(s, t) /\ UNCHANGED <<storeVars, session, shutdown, told, effects, answer>>
      BY <1>2, <1>3, <2>2, <2>3, <2>4 DEF DeleteDeadLetter, Proceeds
    <2>6. DOMAIN w \subseteq Jobs /\ {} \in SUBSET Jobs
      BY <1>1, <2>2, <2>3, WritingDomain
    <2>7. Made(s, t, w, tx[s].effects, tx[s].takes, tx[s].mine, tx[s].live)
      BY <1>1, <2>4, <2>5, <2>6, CallShapes
    <2>8. \A i \in DOMAIN rows : HandsBack(s, i, rows[i], tx[s].takes)
      <3>1. ~LockedByOther(s, j) /\ Matches(Latest(s, j), where)
        BY <1>1, <1>3, SelectedIs
      <3>2. Latest(s, j).status = "dead"
        BY <1>2, <3>1, WhereIs
      <3>3. HandsBack(s, j, DeletedRow, tx[s].takes)
        BY <1>1, <3>1, <3>2, HandedBack
      <3> QED
        BY <2>2, <3>3
    <2>9. Made(s, t, Writing(s, rows), tx[s].effects, tx[s].takes, tx[s].mine, tx[s].live)
      BY <2>3, <2>7
    <2> QED
      BY <1>1, <2>2, <2>5, <2>8, <2>9, HandBackKeeps
  <1>4. CASE ~Selected(s, j, where)
    BY <1>1, <1>2, <1>4, RolledBackKeeps DEF DeleteDeadLetter
  <1> QED
    BY <1>3, <1>4

\* A call that makes one row active under a key that is free, and deletes others.
LEMMA KeyCallKeeps ==
    ASSUME TransactionsInv, NEW s \in Operators \union Producers, tx[s].at = "snapshot",
           NEW rows, DOMAIN rows \subseteq Jobs, NEW k \in Jobs,
           \A j \in DOMAIN rows : /\ ~LockedByOther(s, j) /\ RowOK(rows[j]) /\ Latest(s, j).status \notin {"running", "completed", "gone"}
                                  /\ rows[j].status \notin {"unused", "running", "completed"}
                                  /\ Active(rows[j]) => j = k /\ FreeKey(s, rows[j].key),
           NEW w, w = Writing(s, rows), Continues(s, [tx[s] EXCEPT !.writes = w]),
           UNCHANGED <<storeVars, session, shutdown, told, effects>>,
           answer' = [p \in Producers |-> answer'[p]],
           \A p \in Producers : answer'[p].kind = "deduplicated" => answer'[p] = answer[p]
    PROVE  TransactionsInv'
  <1>1. s \in Sessions
    BY Casts
  <1>2. PICK t : t = [tx[s] EXCEPT !.writes = w]
    OBVIOUS
  <1>3. DOMAIN w \subseteq Jobs /\ {} \in SUBSET Jobs
    BY <1>1, WritingDomain
  <1>4. Made(s, t, w, tx[s].effects, tx[s].takes, tx[s].mine, tx[s].live)
    BY <1>1, <1>2, <1>3, CallShapes
  <1>5. Made(s, t, Writing(s, rows), tx[s].effects, tx[s].takes, tx[s].mine, tx[s].live) /\ Continues(s, t)
    BY <1>2, <1>4
  <1>6. \A j \in DOMAIN rows : Replaces(s, j, rows[j]) /\ rows[j].status \notin {"running", "completed"}
    BY DEF Replaces
  <1>7. \A i, j \in DOMAIN rows : i # j /\ Active(rows[i]) /\ Active(rows[j]) =>
            Active(Latest(s, i)) /\ Latest(s, i).key = rows[i].key /\ Active(Latest(s, j)) /\ Latest(s, j).key = rows[j].key
    OBVIOUS
  <1>8. \A j \in DOMAIN rows : Latest(s, j).status = "running" =>
            \/ j \in tx[s].takes
            \/ s \in WorkerSessions /\ Has(s, Latest(s, j)) /\ ~Latest(s, j).started /\ WorkerOf[s] \in shutdown
    OBVIOUS
  <1> QED
    BY <1>1, <1>5, <1>6, <1>7, <1>8, QuietRows

\* A failed job is pending again.
LEMMA RetryFailedKeeps ==
    ASSUME TransactionsInv, NEW s \in Operators, NEW j \in Jobs, RetryFailed(s, j)
    PROVE  TransactionsInv'
  <1>1. s \in Sessions /\ s \in Operators \union Producers
    BY Casts
  <1>2. PICK row \in JobRow : row = Latest(s, j) /\ RowOK(row)
    BY <1>1, LatestIs
  <1>3. CASE RolledBack(s)
    BY <1>1, <1>3, RolledBackKeeps DEF RetryFailed
  <1>4. CASE ~RolledBack(s)
    <2>1. PICK r, rows : r = RetryFailedRow(row) /\ rows = [i \in {j} |-> r]
      OBVIOUS
    <2>2. PICK w : w = Writing(s, rows)
      OBVIOUS
    <2>3. /\ tx[s].at = "snapshot" /\ Selected(s, j, InTable) /\ row.status = "failed"
          /\ (row.key = NoKey \/ ~MustWait(s, row.key)) /\ (row.key = NoKey \/ IndexEntries(s, row.key) = {})
          /\ Continues(s, [tx[s] EXCEPT !.writes = w])
          /\ UNCHANGED <<storeVars, session, shutdown, told, effects, answer>>
      BY <1>2, <1>4, <2>1, <2>2 DEF RetryFailed, WritingOne, Proceeds
    <2>4. DOMAIN rows = {j} /\ rows[j] = r /\ DOMAIN rows \subseteq Jobs
      BY <2>1, OneRow
    <2>5. row.retry \in Retries /\ 0 \in Retries /\ 0 <= MaxRetries
      BY RetryBounds DEF JobRow, Retries
    <2>6. RowOK(r) /\ r.status = "pending" /\ r.key = row.key
      BY <1>2, <2>1, <2>5, EndedRows
    <2>7. FreeKey(s, r.key) /\ ~LockedByOther(s, j)
      BY <1>1, <2>3, <2>6, SelectedIs DEF FreeKey
    <2>8. \A i \in DOMAIN rows : /\ ~LockedByOther(s, i) /\ RowOK(rows[i]) /\ Latest(s, i).status \notin {"running", "completed", "gone"}
                                 /\ rows[i].status \notin {"unused", "running", "completed"}
                                 /\ Active(rows[i]) => i = j /\ FreeKey(s, rows[i].key)
      BY <1>2, <2>3, <2>4, <2>6, <2>7
    <2>9. /\ answer' = [p \in Producers |-> answer'[p]]
          /\ \A p \in Producers : answer'[p].kind = "deduplicated" => answer'[p] = answer[p]
      BY <1>1, <2>3, NoNewAnswer
    <2>10. UNCHANGED <<storeVars, session, shutdown, told, effects>>
      BY <2>3
    <2> QED
      BY <1>1, <2>2, <2>3, <2>4, <2>8, <2>9, <2>10, KeyCallKeeps
  <1> QED
    BY <1>3, <1>4

\* A dead letter comes back under a new id.
LEMMA RequeueDeadKeeps ==
    ASSUME TransactionsInv, NEW s \in Operators, NEW j \in Jobs, NEW id \in Jobs, RequeueDeadLetter(s, j, id)
    PROVE  TransactionsInv'
  <1>1. s \in Sessions /\ s \in Operators \union Producers
    BY Casts
  <1>2. PICK row \in JobRow : row = Latest(s, j) /\ RowOK(row)
    BY <1>1, LatestIs
  <1>3. PICK key \in Keys \union {NoKey} : key = row.key
    BY <1>2 DEF JobRow
  <1>4. CASE RolledBack(s)
    BY <1>1, <1>4, RolledBackKeeps DEF RequeueDeadLetter
  <1>5. CASE ~RolledBack(s)
    <2>1. PICK rows : rows = [i \in {id, j} |-> IF i = id THEN NewRow(key) ELSE DeletedRow]
      OBVIOUS
    <2>2. PICK w : w = Writing(s, rows)
      OBVIOUS
    <2>3. PICK where : where = StatusIn({"dead"})
      OBVIOUS
    <2>4. /\ tx[s].at = "snapshot" /\ UnusedId(s, id) /\ Selected(s, j, where)
          /\ (key # NoKey => ~MustWait(s, key)) /\ Requeued(s, j, id, key)
          /\ UNCHANGED <<storeVars, session, shutdown, told, effects, answer>>
      BY <1>2, <1>3, <1>5, <2>3 DEF RequeueDeadLetter, Requeued, Proceeds
    <2>5. (key = NoKey \/ IndexEntries(s, key) = {}) /\ Continues(s, [tx[s] EXCEPT !.writes = w])
      BY <1>5, <2>1, <2>2, <2>4 DEF Requeued, Proceeds
    <2>6. FreeKey(s, key)
      BY <2>4, <2>5 DEF FreeKey
    <2>7. ~LockedByOther(s, j) /\ Matches(Latest(s, j), where)
      BY <1>1, <2>4, SelectedIs
    <2>8. Latest(s, j).status = "dead" /\ Latest(s, id).status = "unused" /\ ~LockedByOther(s, id) /\ id # j
      BY <2>3, <2>4, <2>7, WhereIs DEF UnusedId
    <2>9. DOMAIN rows = {id, j} /\ rows[id] = NewRow(key) /\ rows[j] = DeletedRow /\ DOMAIN rows \subseteq Jobs
      BY <2>1, <2>8
    <2>10. /\ RowOK(NewRow(key)) /\ NewRow(key).key = key /\ NewRow(key).status = "pending"
           /\ RowOK(DeletedRow) /\ DeletedRow.status = "gone" /\ ~Active(DeletedRow)
      BY <1>2, NewRowOK, AbsentRows, RowStatus
    <2>11. \A i \in DOMAIN rows : /\ ~LockedByOther(s, i) /\ RowOK(rows[i]) /\ Latest(s, i).status \notin {"running", "completed", "gone"}
                                  /\ rows[i].status \notin {"unused", "running", "completed"}
                                  /\ Active(rows[i]) => i = id /\ FreeKey(s, rows[i].key)
      BY <2>6, <2>7, <2>8, <2>9, <2>10
    <2>12. /\ answer' = [p \in Producers |-> answer'[p]]
           /\ \A p \in Producers : answer'[p].kind = "deduplicated" => answer'[p] = answer[p]
      BY <1>1, <2>4, NoNewAnswer
    <2>13. UNCHANGED <<storeVars, session, shutdown, told, effects>>
      BY <2>4
    <2> QED
      BY <1>1, <2>2, <2>4, <2>5, <2>9, <2>11, <2>12, <2>13, KeyCallKeeps
  <1> QED
    BY <1>4, <1>5

\* The calls of operators.
LEMMA OperatorCallKeeps ==
    ASSUME TransactionsInv, NEW s \in Operators, OperatorCall(s)
    PROVE  TransactionsInv'
  <1>1. CASE \E j \in Jobs :
                \/ CancelPending(s, j) \/ ForceRequeueRunning(s, j) \/ MoveFailedToDeadLetter(s, j)
                \/ DeleteDeadLetter(s, j) \/ RetryFailed(s, j)
                \/ \E id \in Jobs : RequeueDeadLetter(s, j, id)
    BY <1>1, OperatorRowKeeps, DeleteDeadKeeps, RetryFailedKeeps, RequeueDeadKeeps
  <1>2. CASE \E S \in SUBSET Jobs :
                \/ ReclaimNeverStarted(s, S) \/ CleanupOnce(s, S)
                \/ \E dead \in BOOLEAN : ReclaimExpired(s, S, dead)
    BY <1>2, MaintenanceKeeps
  <1> QED
    BY <1>1, <1>2 DEF OperatorCall


\* Another attempt of an enqueue, with a new snapshot.
LEMMA AttemptIs ==
    ASSUME TransactionsInv, NEW s \in Sessions, tx[s].at = "snapshot", tx[s].attempts + 1 < MaxAttempts,
           tx' = [tx EXCEPT ![s].at = "open", ![s].seen = NoRows, ![s].attempts = @ + 1]
    PROVE  \E n : /\ tx' = [tx EXCEPT ![s] = n] /\ Shaped(s, n) /\ n.at = "open"
                  /\ n.writes = tx[s].writes /\ n.effects = tx[s].effects /\ n.takes = tx[s].takes
                  /\ n.mine = tx[s].mine /\ n.live = tx[s].live
  <1>1. PICK x : x = tx[s]
    OBVIOUS
  <1>2. PICK n : n = [x EXCEPT !.at = "open", !.seen = NoRows, !.attempts = @ + 1]
    OBVIOUS
  <1>3. /\ x \in [at : {"none", "open", "snapshot"}, calls : 0 .. MaxCalls[s], attempts : 0 .. MaxAttempts - 1,
                  seen : {x.seen}, writes : {x.writes}, effects : SUBSET Jobs, takes : SUBSET Jobs,
                  mine : Jobs \union {NoJob}, live : BOOLEAN]
        /\ DOMAIN x.writes \subseteq Jobs /\ x.attempts + 1 < MaxAttempts /\ MaxAttempts \in Nat
    BY <1>1, SessionAssumption DEF TransactionsInv, TxOK, Shaped
  <1>4. x.attempts + 1 \in 0 .. MaxAttempts - 1
    BY <1>3
  <1>5. /\ n \in [at : {"none", "open", "snapshot"}, calls : 0 .. MaxCalls[s], attempts : 0 .. MaxAttempts - 1,
                  seen : {NoRows}, writes : {x.writes}, effects : SUBSET Jobs, takes : SUBSET Jobs,
                  mine : Jobs \union {NoJob}, live : BOOLEAN]
        /\ n.at = "open" /\ n.writes = x.writes /\ n.effects = x.effects /\ n.takes = x.takes
        /\ n.mine = x.mine /\ n.live = x.live /\ n.seen = NoRows
    BY <1>2, <1>3, <1>4
  <1>6. Shaped(s, n)
    BY <1>3, <1>5 DEF Shaped
  <1>7. tx' = [tx EXCEPT ![s] = n]
    <2>1. tx = [o \in Sessions |-> tx[o]]
      BY DEF TransactionsInv, TransactionsTyped
    <2>2. tx' = [tx EXCEPT ![s] = [[[tx[s] EXCEPT !.at = "open"] EXCEPT !.seen = NoRows] EXCEPT !.attempts = @ + 1]]
      BY <2>1
    <2> QED
      BY <1>1, <1>2, <2>2
  <1> QED
    BY <1>1, <1>5, <1>6, <1>7, Zenon

\* One attempt of an enqueue with a key.
LEMMA DedupeEnqueueKeeps ==
    ASSUME TransactionsInv, NEW s \in Producers, NEW j \in Jobs, NEW key \in Keys, DedupeEnqueue(s, j, key)
    PROVE  TransactionsInv'
  <1>1. s \in Sessions /\ s \in Operators \union Producers
    BY Casts
  <1>2. /\ tx[s].at = "snapshot" /\ Latest(s, j).status = "unused" /\ ~LockedByOther(s, j) /\ ~MustWait(s, key)
        /\ UNCHANGED <<storeVars, session, shutdown, told, effects>>
    BY DEF DedupeEnqueue, UnusedId
  <1>3. answer = [p \in Producers |-> answer[p]]
    BY DEF TransactionsInv, TransactionsTyped
  <1>4. ASSUME NEW k, NEW i, Answers(s, k, i)
        PROVE  /\ answer' = [p \in Producers |-> answer'[p]] /\ answer'[s].kind = k /\ answer'[s].job = i
               /\ \A p \in Producers \ {s} : answer'[p] = answer[p]
    BY <1>3, <1>4 DEF Answers
  <1>5. CASE IndexEntries(s, key) = {}
    <2>1. PICK rows : rows = [i \in {j} |-> NewRow(key)]
      OBVIOUS
    <2>2. PICK w : w = Writing(s, rows)
      OBVIOUS
    <2>3. Continues(s, [tx[s] EXCEPT !.writes = w]) /\ Answers(s, "inserted", j)
      BY <1>5, <2>1, <2>2 DEF DedupeEnqueue, Insert, WritingOne
    <2>4. DOMAIN rows = {j} /\ rows[j] = NewRow(key) /\ DOMAIN rows \subseteq Jobs
      BY <2>1, OneRow
    <2>5. RowOK(NewRow(key)) /\ NewRow(key).key = key /\ NewRow(key).status = "pending"
      BY NewRowOK
    <2>6. \A i \in DOMAIN rows : /\ ~LockedByOther(s, i) /\ RowOK(rows[i]) /\ Latest(s, i).status \notin {"running", "completed", "gone"}
                                 /\ rows[i].status \notin {"unused", "running", "completed"}
                                 /\ Active(rows[i]) => i = j /\ FreeKey(s, rows[i].key)
      BY <1>2, <1>5, <2>4, <2>5 DEF FreeKey
    <2>7. /\ answer' = [p \in Producers |-> answer'[p]]
          /\ \A p \in Producers : answer'[p].kind = "deduplicated" => answer'[p] = answer[p]
      BY <1>4, <2>3
    <2> QED
      BY <1>1, <1>2, <2>2, <2>3, <2>4, <2>6, <2>7, KeyCallKeeps
  <1>6. CASE IndexEntries(s, key) # {} /\ SeenWithKey(s, key) # {}
    <2>1. PICK i \in SeenWithKey(s, key) : Continues(s, tx[s]) /\ Answers(s, "deduplicated", i)
      BY <1>6 DEF DedupeEnqueue, ConflictAnswer
    <2>2. i \in Jobs /\ tx[s].seen[i].status # "unused"
      BY <2>1 DEF SeenWithKey, HasKey
    <2>3. VersionIn(tx[s], i).status # "unused"
      BY <1>1, <1>2, <2>2 DEF TransactionsInv, TxOK, SeenOK
    <2>4. /\ answer' = [p \in Producers |-> answer'[p]]
          /\ \A p \in Producers : answer'[p].kind = "deduplicated" =>
                answer'[p].job \in Jobs /\ VersionIn(tx[p], answer'[p].job).status # "unused"
      <3>1. /\ answer' = [p \in Producers |-> answer'[p]] /\ answer'[s].job = i
            /\ \A p \in Producers \ {s} : answer'[p] = answer[p]
        BY <1>4, <2>1
      <3>2. ASSUME NEW p \in Producers, answer'[p].kind = "deduplicated"
            PROVE  answer'[p].job \in Jobs /\ VersionIn(tx[p], answer'[p].job).status # "unused"
        <4>1. CASE p = s
          BY <2>2, <2>3, <3>1, <4>1
        <4>2. CASE p # s
          BY <3>1, <3>2, <4>2 DEF TransactionsInv, AnswersOK
        <4> QED
          BY <4>1, <4>2
      <3> QED
        BY <3>1, <3>2
    <2> QED
      BY <1>1, <1>2, <2>1, <2>4, PlainCall
  <1>7. CASE IndexEntries(s, key) # {} /\ SeenWithKey(s, key) = {} /\ tx[s].attempts + 1 < MaxAttempts
    <2>1. tx' = [tx EXCEPT ![s].at = "open", ![s].seen = NoRows, ![s].attempts = @ + 1] /\ UNCHANGED answer
      BY <1>7 DEF DedupeEnqueue, ConflictAnswer
    <2>2. PICK n : /\ tx' = [tx EXCEPT ![s] = n] /\ Shaped(s, n) /\ n.at = "open"
                   /\ n.writes = tx[s].writes /\ n.effects = tx[s].effects /\ n.takes = tx[s].takes
                   /\ n.mine = tx[s].mine /\ n.live = tx[s].live
      BY <1>1, <1>2, <1>7, <2>1, AttemptIs
    <2>3. SeenOK(n)
      BY <2>2 DEF SeenOK
    <2>4. /\ answer' = [p \in Producers |-> answer'[p]]
          /\ \A p \in Producers : answer'[p].kind = "deduplicated" =>
                answer'[p].job \in Jobs /\ VersionIn(tx[p], answer'[p].job).status # "unused"
      BY <1>3, <2>1 DEF TransactionsInv, AnswersOK
    <2> QED
      BY <1>1, <1>2, <2>2, <2>3, <2>4, SameWrites
  <1>8. CASE IndexEntries(s, key) # {} /\ SeenWithKey(s, key) = {} /\ ~(tx[s].attempts + 1 < MaxAttempts)
    <2>1. Closed(s) /\ Answers(s, "exhausted", NoJob)
      BY <1>8 DEF DedupeEnqueue, ConflictAnswer
    <2>2. /\ answer' = [p \in Producers |-> answer'[p]]
          /\ \A p \in Producers : answer'[p].kind = "deduplicated" => p # s /\ answer'[p] = answer[p]
      BY <1>4, <2>1
    <2> QED
      BY <1>1, <1>2, <2>1, <2>2, RollbackKeeps
  <1> QED
    BY <1>5, <1>6, <1>7, <1>8

\* The calls of a worker.
LEMMA WorkerCallKeeps ==
    ASSUME TransactionsInv, NEW s \in WorkerSessions, WorkerCall(s)
    PROVE  TransactionsInv'
  <1>1. CASE \E j \in Jobs : ClaimOne(s, j)
    BY <1>1, ClaimOneKeeps
  <1>2. CASE \/ ManualMarkStarted(s) \/ ManualHeartbeat(s) \/ ManualComplete(s) \/ ManualScheduleRetry(s)
             \/ ManualMarkFailed(s) \/ ManualMoveToDeadLetter(s)
             \/ ManualReturnUnstarted(s) \/ ManualReturnStarted(s)
    BY <1>2, OwnCallKeeps
  <1>3. CASE \E S \in SUBSET Jobs : ManualReturnAvailableUnstarted(s, S) \/ ManualReturnAvailableStarted(s, S)
    BY <1>3, ReturnAvailableKeeps
  <1> QED
    BY <1>1, <1>2, <1>3 DEF WorkerCall

\* A caller gives up.
LEMMA GiveUpKeeps ==
    ASSUME TransactionsInv, NEW s \in Sessions, Rollback(s)
    PROVE  TransactionsInv'
  BY RolledBackKeeps DEF Rollback


-----------------------------------------------------------------------------
(***************************************************************************)
(* Commits.                                                                *)
(***************************************************************************)

\* What a commit of the transaction of s does; t is the transaction.
Committed(s, t) ==
    /\ t = tx[s] /\ t.at = "open" /\ TxOK(s, t)
    /\ \A j \in Jobs : jobs'[j] = VersionIn(t, j)
    /\ taken' = taken \union t.takes /\ UNCHANGED <<paused, held, shutdown, answer>>
    /\ tx'[s] = NoTx /\ (\A o \in Sessions \ {s} : tx'[o] = tx[o]) /\ tx' = [o \in Sessions |-> tx'[o]]
    /\ s \in WorkerSessions => /\ session'[s].mine = t.mine /\ session'[s].live = t.live
                               /\ told'[s] = told[s] \ {t.mine}
    /\ \A o \in WorkerSessions \ {s} : session'[o] = session[o] /\ told'[o] = told[o]

\* A commit's parts.
LEMMA CommitIs ==
    ASSUME TransactionsInv, NEW s \in Sessions, Commit(s)
    PROVE  /\ Committed(s, tx[s])
           /\ (TransactionsTyped /\ OneActive /\ EffectsOK)'
  <1>1. PICK t : t = tx[s]
    OBVIOUS
  <1>2. TxOK(s, t) /\ Shaped(s, t) /\ VersionsOK(t) /\ KeysDiffer(t)
    BY <1>1 DEF TransactionsInv, TxOK
  <1>3. /\ t.effects \in SUBSET Jobs /\ t.takes \in SUBSET Jobs /\ t.mine \in Jobs \union {NoJob} /\ t.live \in BOOLEAN
        /\ DOMAIN t.writes \subseteq Jobs
    BY <1>2 DEF Shaped
  <1>4. /\ t.at = "open" /\ jobs' = [j \in Jobs |-> Latest(s, j)]
        /\ taken' = taken \union t.takes
        /\ effects' = [j \in Jobs |-> effects[j] + (IF j \in t.effects THEN 1 ELSE 0)]
        /\ tx' = [tx EXCEPT ![s] = NoTx]
        /\ UNCHANGED <<paused, held, shutdown, answer>>
    BY <1>1 DEF Commit, Closed
  <1>5. /\ session' = IF s \in WorkerSessions THEN [session EXCEPT ![s] = [mine |-> t.mine, live |-> t.live]] ELSE session
        /\ told' = IF s \in WorkerSessions THEN [told EXCEPT ![s] = @ \ {t.mine}] ELSE told
    BY <1>1 DEF Commit
  <1>6. \A j \in Jobs : jobs'[j] = VersionIn(t, j) /\ RowOK(jobs'[j]) /\ jobs'[j] \in JobRow
    BY <1>1, <1>4, LatestIs
  <1>7. /\ tx = [o \in Sessions |-> tx[o]] /\ told \in [WorkerSessions -> SUBSET Jobs]
        /\ session \in [WorkerSessions -> [mine : Jobs \union {NoJob}, live : BOOLEAN]]
        /\ WorkerSessions \subseteq Sessions /\ taken \subseteq Jobs
    BY Casts DEF TransactionsInv, TransactionsTyped
  <1>8. tx'[s] = NoTx /\ (\A o \in Sessions \ {s} : tx'[o] = tx[o]) /\ tx' = [o \in Sessions |-> tx'[o]]
    BY <1>4, <1>7
  <1>9. /\ s \in WorkerSessions => /\ session'[s].mine = t.mine /\ session'[s].live = t.live
                                   /\ told'[s] = told[s] \ {t.mine}
        /\ \A o \in WorkerSessions \ {s} : session'[o] = session[o] /\ told'[o] = told[o]
        /\ session' \in [WorkerSessions -> [mine : Jobs \union {NoJob}, live : BOOLEAN]]
        /\ told' \in [WorkerSessions -> SUBSET Jobs]
    <2>1. CASE s \in WorkerSessions
      <3>1. PICK m : m = [mine |-> t.mine, live |-> t.live]
        OBVIOUS
      <3>2. m \in [mine : Jobs \union {NoJob}, live : BOOLEAN] /\ m.mine = t.mine /\ m.live = t.live
        BY <1>3, <3>1
      <3>3. session' = [session EXCEPT ![s] = m] /\ told' = [told EXCEPT ![s] = @ \ {t.mine}]
        BY <1>5, <2>1, <3>1
      <3>4. /\ session'[s] = m /\ \A o \in WorkerSessions \ {s} : session'[o] = session[o]
            /\ session' \in [WorkerSessions -> [mine : Jobs \union {NoJob}, live : BOOLEAN]]
        BY <1>7, <2>1, <3>2, <3>3
      <3>5. /\ told'[s] = told[s] \ {t.mine} /\ \A o \in WorkerSessions \ {s} : told'[o] = told[o]
            /\ told' \in [WorkerSessions -> SUBSET Jobs]
        BY <1>7, <2>1, <3>3
      <3> QED
        BY <3>2, <3>4, <3>5
    <2>2. CASE s \notin WorkerSessions
      BY <1>5, <1>7, <2>2
    <2> QED
      BY <2>1, <2>2
  <1>10. TransactionsTyped'
    <2>1. jobs' \in [Jobs -> JobRow]
      BY <1>4, <1>6
    <2>2. taken' \subseteq Jobs
      BY <1>3, <1>4, <1>7
    <2>3. paused' \subseteq PauseKeys /\ held' \in [Workers -> SUBSET Jobs] /\ shutdown' \subseteq Workers
          /\ answer' = [p \in Producers |-> answer'[p]]
      BY <1>4 DEF TransactionsInv, TransactionsTyped
    <2> QED
      BY <1>6, <1>8, <1>9, <2>1, <2>2, <2>3 DEF TransactionsTyped
  <1>11. OneActive'
    BY <1>2, <1>6 DEF OneActive, KeysDiffer, SameKey
  <1>12. EffectsOK'
    <2>1. effects \in [Jobs -> 0 .. 1]
      BY DEF TransactionsInv, EffectsOK
    <2>2. ASSUME NEW j \in Jobs
          PROVE  /\ effects'[j] \in 0 .. 1
                 /\ jobs'[j].status = "completed" => effects'[j] = 1
                 /\ jobs'[j].status \notin {"completed", "gone"} => effects'[j] = 0
      <3>1. effects[j] \in 0 .. 1 /\ effects'[j] = effects[j] + (IF j \in t.effects THEN 1 ELSE 0)
        BY <1>4, <2>1
      <3>2. /\ jobs[j].status = "completed" => effects[j] = 1
            /\ jobs[j].status \notin {"completed", "gone"} => effects[j] = 0
        BY DEF TransactionsInv, EffectsOK
      <3>3. CASE j \in t.effects
        <4>1. j \in DOMAIN t.writes /\ t.writes[j].status \in {"completed", "gone"} /\ jobs[j].status \notin {"completed", "gone"}
          BY <1>2, <3>3 DEF VersionsOK
        <4>2. effects'[j] = 1 /\ jobs'[j].status \in {"completed", "gone"}
          BY <1>6, <3>1, <3>2, <3>3, <4>1 DEF VersionIn
        <4> QED
          BY <4>2
      <3>4. CASE j \notin t.effects
        <4>1. effects'[j] = effects[j]
          BY <3>1, <3>4
        <4>2. CASE j \in DOMAIN t.writes
          <5>1. /\ jobs'[j] = t.writes[j] /\ t.writes[j].status # "completed"
                /\ jobs[j].status \in {"completed", "gone"} => t.writes[j].status = "gone"
            BY <1>2, <1>6, <3>4, <4>2 DEF VersionsOK, VersionIn
          <5> QED
            BY <3>1, <3>2, <4>1, <5>1
        <4>3. CASE j \notin DOMAIN t.writes
          BY <1>6, <3>1, <3>2, <4>1, <4>3 DEF VersionIn
        <4> QED
          BY <4>2, <4>3
      <3> QED
        BY <3>3, <3>4
    <2>3. effects' \in [Jobs -> 0 .. 1]
      BY <1>4, <2>2
    <2> QED
      BY <2>2, <2>3 DEF EffectsOK
  <1>13. Committed(s, t)
    BY <1>1, <1>2, <1>4, <1>6, <1>8, <1>9 DEF Committed
  <1> QED
    BY <1>1, <1>10, <1>11, <1>12, <1>13


\* What the other transactions know stays right: a commit changes no row that they
\* have locked.
LEMMA CommitOthers ==
    ASSUME TransactionsInv, NEW s \in Sessions, NEW t, Committed(s, t), NEW o \in Sessions \ {s}
    PROVE  TxOK(o, tx[o])'
  <1>1. PICK u : u = tx[o]
    OBVIOUS
  <1>2. TxOK(o, u) /\ TxOK(s, t) /\ t = tx[s]
    BY <1>1 DEF TransactionsInv, Committed
  <1>3. Apart(t, u)
    BY <1>1, <1>2, Zenon DEF TransactionsInv
  <1>4. /\ tx'[o] = u /\ taken \subseteq taken' /\ shutdown' = shutdown
        /\ (o \in WorkerSessions => session'[o] = session[o])
        /\ \A j \in Jobs : jobs'[j] = VersionIn(t, j)
    BY <1>1 DEF Committed
  <1>5. DOMAIN u.writes \subseteq Jobs /\ DOMAIN t.writes \subseteq Jobs
    BY <1>2 DEF TxOK, Shaped
  <1>6. \A j \in DOMAIN u.writes : jobs'[j] = jobs[j] /\ VersionIn(u, j)' = u.writes[j]
    BY <1>3, <1>4, <1>5 DEF Apart, VersionIn
  <1>7. \A j \in Jobs \ DOMAIN u.writes : VersionIn(u, j)' = VersionIn(t, j) /\ VersionIn(u, j) = jobs[j]
    BY <1>4 DEF VersionIn
  <1>8. Shaped(o, u)' /\ VersionsOK(u)'
    BY <1>2, <1>6 DEF TxOK, Shaped, VersionsOK
  <1>9. KeysDiffer(u)'
    <2> SUFFICES ASSUME NEW i \in Jobs, NEW j \in Jobs, i # j
                 PROVE  ~SameKey(VersionIn(u, i)', VersionIn(u, j)')
      BY DEF KeysDiffer, SameKey
    <2>1. ASSUME NEW a \in Jobs, NEW b \in Jobs, a # b, a \in DOMAIN u.writes, b \notin DOMAIN u.writes
          PROVE  ~SameKey(VersionIn(u, a)', VersionIn(u, b)') /\ ~SameKey(VersionIn(u, b)', VersionIn(u, a)')
      <3>1. VersionIn(u, a)' = u.writes[a] /\ VersionIn(u, b)' = VersionIn(t, b)
        BY <1>6, <1>7, <2>1
      <3>2. CASE b \in DOMAIN t.writes
        <4>1. VersionIn(t, b) = t.writes[b]
          BY <3>2 DEF VersionIn
        <4> QED
          BY <1>3, <2>1, <3>1, <3>2, <4>1 DEF Apart, SameKey
      <3>3. CASE b \notin DOMAIN t.writes
        <4>1. VersionIn(t, b) = VersionIn(u, b) /\ VersionIn(u, a) = u.writes[a]
          BY <2>1, <3>3 DEF VersionIn
        <4>2. ~SameKey(VersionIn(u, a), VersionIn(u, b)) /\ ~SameKey(VersionIn(u, b), VersionIn(u, a))
          BY <1>2, <2>1 DEF TxOK, KeysDiffer
        <4> QED
          BY <3>1, <4>1, <4>2
      <3> QED
        BY <3>2, <3>3
    <2>2. CASE i \in DOMAIN u.writes /\ j \in DOMAIN u.writes
      <3>1. VersionIn(u, i) = u.writes[i] /\ VersionIn(u, j) = u.writes[j] /\ ~SameKey(VersionIn(u, i), VersionIn(u, j))
        BY <1>2, <2>2 DEF TxOK, KeysDiffer, VersionIn
      <3> QED
        BY <1>6, <2>2, <3>1
    <2>3. CASE i \notin DOMAIN u.writes /\ j \notin DOMAIN u.writes
      <3>1. ~SameKey(VersionIn(t, i), VersionIn(t, j))
        BY <1>2 DEF TxOK, KeysDiffer
      <3> QED
        BY <1>7, <2>3, <3>1
    <2> QED
      BY <2>1, <2>2, <2>3
  <1>10. SeenOK(u)'
    <2> SUFFICES ASSUME u.at = "snapshot", NEW j \in Jobs, u.seen[j].status # "unused"
                 PROVE  VersionIn(u, j)'.status # "unused"
      BY DEF SeenOK
    <2>1. VersionIn(u, j).status # "unused"
      BY <1>2 DEF TxOK, SeenOK
    <2>2. j \in DOMAIN t.writes => t.writes[j].status # "unused"
      BY <1>2 DEF TxOK, VersionsOK
    <2> QED
      BY <1>6, <1>7, <2>1, <2>2 DEF VersionIn
  <1>11. RunsOK(o, u)'
    <2>1. RunsOK(o, u)
      BY <1>2 DEF TxOK
    <2> QED
      BY <1>4, <1>6, <2>1 DEF RunsOK, Has
  <1>12. MineOK(o, u)'
    <2>1. MineOK(o, u)
      BY <1>2 DEF TxOK
    <2> QED
      BY <1>4, <1>6, <2>1 DEF MineOK, Has
  <1>13. TxOK(o, u)'
    BY <1>8, <1>9, <1>10, <1>11, <1>12 DEF TxOK
  <1> QED
    BY <1>4, <1>13

\* The transactions after a commit.
LEMMA CommitTransactions ==
    ASSUME TransactionsInv, NEW s \in Sessions, NEW t, Committed(s, t), (TransactionsTyped /\ OneActive /\ EffectsOK)'
    PROVE  /\ \A o \in Sessions : TxOK(o, tx[o])'
           /\ (\A o, q \in Sessions : o # q => Apart(tx[o], tx[q]))'
  <1>1. ASSUME NEW o \in Sessions, o # s PROVE TxOK(o, tx[o])'
    BY <1>1, CommitOthers
  <1>2. TxOK(s, tx[s])'
    <2>1. tx'[s] = NoTx
      BY DEF Committed
    <2>2. KeysDiffer(NoTx)'
      BY NoTxIs DEF KeysDiffer, SameKey, OneActive, VersionIn
    <2>3. VersionsOK(NoTx)' /\ RunsOK(s, NoTx)' /\ SeenOK(NoTx)' /\ MineOK(s, NoTx)' /\ Shaped(s, NoTx)'
      BY NoTxIs DEF VersionsOK, RunsOK, SeenOK, MineOK, Shaped
    <2>4. TxOK(s, NoTx)'
      BY <2>2, <2>3 DEF TxOK
    <2> QED
      BY <2>1, <2>4
  <1>3. ASSUME NEW o \in Sessions, NEW q \in Sessions, o # q PROVE Apart(tx[o], tx[q])'
    <2>1. tx'[s] = NoTx /\ \A e \in Sessions \ {s} : tx'[e] = tx[e]
      BY DEF Committed
    <2>2. Apart(tx'[o], tx'[q])
      <3>1. CASE o = s \/ q = s
        BY <2>1, <3>1, NoTxOK
      <3>2. CASE o # s /\ q # s
        <4>1. Apart(tx[o], tx[q])
          BY <1>3, Zenon DEF TransactionsInv
        <4>2. tx'[o] = tx[o] /\ tx'[q] = tx[q]
          BY <2>1, <3>2
        <4> QED
          BY <4>1, <4>2
      <3> QED
        BY <3>1, <3>2
    <2> QED
      BY <2>2 DEF Apart, SameKey
  <1> QED
    BY <1>1, <1>2, <1>3


\* A commit takes a job from nobody unrecorded: what the other sessions believe
\* holds, and its own session believes what it wrote.
LEMMA CommitSessions ==
    ASSUME TransactionsInv, NEW s \in Sessions, NEW t, Committed(s, t), NEW o \in WorkerSessions
    PROVE  SessionOK(o)'
  <1>1. /\ t = tx[s] /\ t.at = "open" /\ taken' = taken \union t.takes /\ shutdown' = shutdown
        /\ \A j \in Jobs : jobs'[j] = VersionIn(t, j)
    BY DEF Committed
  <1>2. RunsOK(s, t) /\ MineOK(s, t) /\ VersionsOK(t) /\ DOMAIN t.writes \subseteq Jobs
    BY DEF Committed, TxOK, Shaped
  <1>3. SessionOK(o) /\ session[o].mine \in Jobs \union {NoJob} /\ t.mine \in Jobs \union {NoJob} /\ NoJob \notin Jobs
    BY SessionAssumption DEF TransactionsInv, TransactionsTyped, Committed, TxOK, Shaped
  <1>4. CASE o # s
    <2>1. session'[o] = session[o] /\ told'[o] = told[o]
      BY <1>4 DEF Committed
    <2>2. PICK k : k = session[o].mine
      OBVIOUS
    <2>3. CASE k = NoJob
      BY <1>3, <2>1, <2>2, <2>3 DEF SessionOK
    <2>4. CASE k \in Jobs /\ k \notin DOMAIN t.writes
      <3>1. jobs'[k] = jobs[k]
        BY <1>1, <2>4 DEF VersionIn
      <3> QED
        BY <1>1, <1>3, <2>1, <2>2, <3>1 DEF SessionOK, Has
    <2>5. CASE k \in Jobs /\ k \in DOMAIN t.writes
      <3>1. k \in taken' \/ (WorkerOf[o] \in shutdown /\ (session[o].live => k \in taken'))
        <4>1. CASE Has(o, jobs[k])
          <5>1. \/ k \in t.takes
                \/ /\ s \in WorkerSessions /\ Has(s, jobs[k])
                   /\ session[s].mine = k \/ (~jobs[k].started /\ WorkerOf[s] \in shutdown)
            BY <1>2, <2>5, <4>1 DEF RunsOK, Has
          <5>2. CASE k \in t.takes
            BY <1>1, <5>2
          <5>3. CASE s \in WorkerSessions /\ Has(s, jobs[k]) /\ session[s].mine = k
            <6>1. Siblings(s, o)
              BY <1>4, <4>1, <5>3 DEF Siblings, Has
            <6>2. k \in taken
              BY <1>3, <2>2, <2>5, <5>3, <6>1 DEF TransactionsInv, ShareTaken
            <6> QED
              BY <1>1, <6>2
          <5>4. CASE s \in WorkerSessions /\ Has(s, jobs[k]) /\ ~jobs[k].started /\ WorkerOf[s] \in shutdown
            BY <1>1, <1>3, <2>2, <2>5, <4>1, <5>4 DEF SessionOK, Has
          <5> QED
            BY <5>1, <5>2, <5>3, <5>4
        <4>2. CASE ~Has(o, jobs[k])
          BY <1>1, <1>3, <2>2, <2>5, <4>2 DEF SessionOK
        <4> QED
          BY <4>1, <4>2
      <3> QED
        BY <1>1, <1>3, <2>1, <2>2, <2>5, <3>1 DEF SessionOK
    <2> QED
      BY <1>3, <2>2, <2>3, <2>4, <2>5
  <1>5. CASE o = s
    <2>1. session'[o].mine = t.mine /\ session'[o].live = t.live /\ told'[o] = told[o] \ {t.mine} /\ s \in WorkerSessions
      BY <1>5 DEF Committed
    <2>2. CASE t.mine \in DOMAIN t.writes
      <3>1. jobs'[t.mine] = t.writes[t.mine] /\ t.mine \in Jobs
        BY <1>1, <1>2, <2>2 DEF VersionIn
      <3>2. /\ t.mine \in taken' \/ Has(s, t.writes[t.mine]) \/ WorkerOf[s] \in shutdown
            /\ t.live => (Has(s, t.writes[t.mine]) /\ t.writes[t.mine].started) \/ t.mine \in taken'
            /\ t.live => t.mine # NoJob
        BY <1>1, <1>2, <2>1, <2>2 DEF MineOK
      <3> QED
        BY <1>1, <1>5, <2>1, <3>1, <3>2 DEF SessionOK, Has
    <2>3. CASE t.mine # NoJob /\ t.mine \notin DOMAIN t.writes
      <3>1. session[s].mine = t.mine /\ session[s].live = t.live /\ jobs'[t.mine] = jobs[t.mine]
        BY <1>1, <1>2, <1>3, <2>1, <2>3 DEF MineOK, VersionIn
      <3> QED
        BY <1>1, <1>3, <1>5, <2>1, <3>1 DEF SessionOK, Has
    <2>4. CASE t.mine = NoJob
      <3>1. ~(t.live)
        BY <1>1, <1>2, <2>1, <2>4 DEF MineOK
      <3> QED
        BY <2>1, <2>4, <3>1 DEF SessionOK
    <2> QED
      BY <2>2, <2>3, <2>4
  <1> QED
    BY <1>4, <1>5

\* Nor does a commit let two sessions of a worker run one job unrecorded.
LEMMA CommitShares ==
    ASSUME TransactionsInv, NEW s \in Sessions, NEW t, Committed(s, t)
    PROVE  ShareTaken'
  <1>1. /\ t = tx[s] /\ t.at = "open" /\ taken' = taken \union t.takes
        /\ tx'[s] = NoTx /\ (\A e \in Sessions \ {s} : tx'[e] = tx[e]) /\ NoTx.mine = NoJob
        /\ \A e \in WorkerSessions \ {s} : session'[e] = session[e]
        /\ s \in WorkerSessions => session'[s].mine = t.mine
    BY NoTxIs DEF Committed
  <1>2. MineOK(s, t) /\ WorkerSessions \subseteq Sessions
    BY Casts DEF Committed, TxOK
  <1>3. ASSUME NEW a \in WorkerSessions, NEW o \in WorkerSessions, Siblings(a, o), session'[o].mine # NoJob
        PROVE  /\ session'[a].mine = session'[o].mine => session'[o].mine \in taken'
               /\ tx'[a].mine = session'[o].mine => session'[o].mine \in taken' \union tx'[a].takes
    <2>0. a # o /\ Siblings(o, a)
      BY <1>3 DEF Siblings
    <2>1. CASE o = s
      <3>1. /\ session'[o].mine = t.mine /\ session'[a] = session[a] /\ tx'[a] = tx[a]
            /\ s \in WorkerSessions /\ t.mine # NoJob
        BY <1>1, <1>2, <1>3, <2>0, <2>1
      <3>2. session[a].mine = t.mine => t.mine \in taken'
        BY <1>1, <2>0, <2>1, <3>1 DEF TransactionsInv, ShareTaken
      <3>3. ASSUME tx[a].mine = t.mine PROVE t.mine \in taken' \union tx[a].takes
        <4>1. CASE t.mine \notin DOMAIN t.writes
          <5>1. session[s].mine = t.mine
            BY <1>1, <1>2, <3>1, <4>1 DEF MineOK
          <5> QED
            BY <1>1, <1>3, <2>1, <3>1, <3>3, <5>1 DEF TransactionsInv, ShareTaken
        <4>2. CASE t.mine \in DOMAIN t.writes
          <5>1. Apart(t, tx[a])
            BY <1>1, <1>2, <2>0, <2>1, Zenon DEF TransactionsInv
          <5>2. PICK u : u = tx[a]
            OBVIOUS
          <5>3. MineOK(a, u) /\ Shaped(a, u)
            BY <1>2, <5>2 DEF TransactionsInv, TxOK
          <5>4. u.at # "none"
            BY <1>1, <3>1, <3>3, <5>2, <5>3 DEF Shaped
          <5>5. t.mine \notin DOMAIN u.writes
            BY <4>2, <5>1, <5>2 DEF Apart
          <5>6. session[a].mine = t.mine
            BY <3>1, <3>3, <5>2, <5>3, <5>4, <5>5 DEF MineOK
          <5> QED
            BY <3>2, <5>6
        <4> QED
          BY <4>1, <4>2
      <3> QED
        BY <3>1, <3>2, <3>3
    <2>2. CASE a = s
      <3>1. session'[a].mine = t.mine /\ session'[o] = session[o] /\ tx'[a].mine = NoJob
        BY <1>1, <2>0, <2>2
      <3>2. t.mine = session[o].mine => session[o].mine \in taken'
        BY <1>1, <1>3, <2>2, <3>1 DEF TransactionsInv, ShareTaken
      <3> QED
        BY <1>3, <3>1, <3>2
    <2>3. CASE a # s /\ o # s
      <3>1. session'[a] = session[a] /\ session'[o] = session[o] /\ tx'[a] = tx[a]
        BY <1>1, <1>2, <2>3
      <3> QED
        BY <1>1, <1>3, <3>1 DEF TransactionsInv, ShareTaken
    <2> QED
      BY <2>1, <2>2, <2>3
  <1> QED
    BY <1>3 DEF ShareTaken, Siblings


\* A running row has a session that runs it after a commit, too.
LEMMA CommitRunners ==
    ASSUME TransactionsInv, NEW s \in Sessions, NEW t, Committed(s, t)
    PROVE  RunnersOK'
  <1>1. /\ t = tx[s] /\ t.at = "open"
        /\ \A j \in Jobs : jobs'[j] = VersionIn(t, j)
        /\ tx'[s] = NoTx /\ NoTx.at = "none" /\ (\A e \in Sessions \ {s} : tx'[e] = tx[e])
        /\ \A e \in WorkerSessions \ {s} : session'[e] = session[e]
        /\ s \in WorkerSessions => session'[s].mine = t.mine /\ session'[s].live = t.live
    BY NoTxIs DEF Committed
  <1>2. MineOK(s, t) /\ RunsOK(s, t) /\ WorkerSessions \subseteq Sessions /\ NoJob \notin Jobs
    BY Casts, SessionAssumption DEF Committed, TxOK
  <1>3. ASSUME NEW a \in WorkerSessions, NEW j \in Jobs, Has(a, jobs'[j])
        PROVE  \E o \in WorkerSessions : WorkerOf[o] = WorkerOf[a] /\ Runner(o, j)'
    <2>1. ASSUME NEW o \in WorkerSessions, o # s, Runner(o, j), jobs'[j].started = jobs[j].started
          PROVE  Runner(o, j)'
      <3>1. session'[o] = session[o] /\ tx'[o] = tx[o]
        BY <1>1, <1>2, <2>1
      <3> QED
        BY <2>1, <3>1 DEF Runner, Has
    <2>2. ASSUME s \in WorkerSessions, t.mine = j, t.live = jobs'[j].started
          PROVE  Runner(s, j)'
      <3>1. session'[s].mine = j /\ session'[s].live = jobs'[j].started /\ tx'[s].at # "snapshot"
        BY <1>1, <2>2
      <3> QED
        BY <3>1 DEF Runner
    <2>3. CASE j \in DOMAIN t.writes
      <3>1. jobs'[j] = t.writes[j]
        BY <1>1, <2>3 DEF VersionIn
      <3>2. s \in WorkerSessions /\ Has(s, t.writes[j]) /\ t.mine = j
        BY <1>2, <1>3, <2>3, <3>1 DEF RunsOK, Has
      <3>3. WorkerOf[s] = WorkerOf[a]
        BY <1>3, <3>1, <3>2 DEF Has
      <3>4. CASE t.writes[j].started = t.live
        <4>1. Runner(s, j)'
          BY <2>2, <3>1, <3>2, <3>4
        <4> QED
          BY <3>2, <3>3, <4>1
      <3>5. CASE t.writes[j].started # t.live
        <4>1. /\ Has(s, jobs[j]) /\ jobs[j].started = t.writes[j].started
              /\ session[s].mine = j /\ session[s].live = t.live
          BY <1>1, <1>2, <2>3, <3>2, <3>5 DEF MineOK
        <4>2. PICK o \in WorkerSessions : WorkerOf[o] = WorkerOf[s] /\ Runner(o, j)
          BY <3>2, <4>1 DEF TransactionsInv, RunnersOK
        <4>3. o # s
          BY <3>5, <4>1, <4>2 DEF Runner
        <4>4. Runner(o, j)'
          BY <2>1, <3>1, <4>1, <4>2, <4>3
        <4> QED
          BY <3>3, <4>2, <4>4
      <3> QED
        BY <3>4, <3>5
    <2>4. CASE j \notin DOMAIN t.writes
      <3>1. jobs'[j] = jobs[j]
        BY <1>1, <2>4 DEF VersionIn
      <3>2. PICK o \in WorkerSessions : WorkerOf[o] = WorkerOf[a] /\ Runner(o, j)
        BY <1>3, <3>1 DEF TransactionsInv, RunnersOK
      <3>3. CASE o # s
        <4>1. Runner(o, j)'
          BY <2>1, <3>1, <3>2, <3>3
        <4> QED
          BY <3>2, <4>1
      <3>4. CASE o = s
        <4>1. session[s].mine = j /\ session[s].live = jobs[j].started /\ s \in WorkerSessions
          BY <3>2, <3>4 DEF Runner
        <4>2. t.mine = j /\ t.live = session[s].live
          BY <1>1, <1>2, <2>4, <4>1 DEF MineOK
        <4>3. Runner(s, j)'
          BY <2>2, <3>1, <4>1, <4>2
        <4> QED
          BY <3>2, <3>4, <4>3
      <3> QED
        BY <3>3, <3>4
    <2> QED
      BY <2>3, <2>4
  <1> QED
    BY <1>3, Zenon DEF RunnersOK, Has

\* What a producer was told of stays there.
LEMMA CommitAnswers ==
    ASSUME TransactionsInv, NEW s \in Sessions, NEW t, Committed(s, t)
    PROVE  AnswersOK'
  <1>1. /\ t = tx[s] /\ answer' = answer /\ \A j \in Jobs : jobs'[j] = VersionIn(t, j)
        /\ tx'[s] = NoTx /\ DOMAIN NoTx.writes = {} /\ (\A e \in Sessions \ {s} : tx'[e] = tx[e])
    BY NoTxIs DEF Committed
  <1>2. VersionsOK(t) /\ Producers \subseteq Sessions
    BY Casts DEF Committed, TxOK
  <1>3. ASSUME NEW p \in Producers, answer[p].kind = "deduplicated"
        PROVE  answer[p].job \in Jobs /\ VersionIn(tx[p], answer[p].job)'.status # "unused"
    <2>1. PICK j : j = answer[p].job
      OBVIOUS
    <2>2. j \in Jobs /\ VersionIn(tx[p], j).status # "unused"
      BY <1>3, <2>1 DEF TransactionsInv, AnswersOK
    <2>3. j \in DOMAIN t.writes => t.writes[j].status # "unused"
      BY <1>2 DEF VersionsOK
    <2>4. VersionIn(tx[p], j)'.status # "unused"
      <3>1. CASE p = s
        <4>1. VersionIn(tx[p], j)' = VersionIn(t, j)
          BY <1>1, <2>2, <3>1 DEF VersionIn
        <4> QED
          BY <1>1, <2>2, <3>1, <4>1
      <3>2. CASE p # s
        <4>1. tx'[p] = tx[p]
          BY <1>1, <1>2, <3>2
        <4> QED
          BY <1>1, <2>2, <2>3, <4>1 DEF VersionIn
      <3> QED
        BY <3>1, <3>2
    <2> QED
      BY <1>1, <2>1, <2>2, <2>4
  <1> QED
    BY <1>1, <1>3 DEF AnswersOK

\* A transaction commits.
LEMMA CommitKeeps ==
    ASSUME TransactionsInv, NEW s \in Sessions, Commit(s)
    PROVE  TransactionsInv'
  <1>1. PICK t : t = tx[s]
    OBVIOUS
  <1>2. Committed(s, t) /\ (TransactionsTyped /\ OneActive /\ EffectsOK)'
    BY <1>1, CommitIs
  <1>3. /\ \A o \in Sessions : TxOK(o, tx[o])'
        /\ (\A o, q \in Sessions : o # q => Apart(tx[o], tx[q]))'
    BY <1>2, CommitTransactions
  <1>4. \A o \in WorkerSessions : SessionOK(o)'
    BY <1>2, CommitSessions
  <1>5. ShareTaken' /\ RunnersOK' /\ AnswersOK'
    BY <1>2, CommitShares, CommitRunners, CommitAnswers
  <1> QED
    BY <1>2, <1>3, <1>4, <1>5 DEF TransactionsInv


-----------------------------------------------------------------------------
\* The initial states: whatever rows earlier calls left.
LEMMA TransactionsInitInv ==
    ASSUME NEW rows \in LeftRows, TransactionsInit(rows)
    PROVE  TransactionsInv
  <1>1. /\ jobs = rows /\ rows \in [Jobs -> JobRow] /\ paused = {} /\ taken = {} /\ shutdown = {}
        /\ held = [w \in Workers |-> {}]
        /\ tx = [s \in Sessions |-> NoTx]
        /\ session = [s \in WorkerSessions |-> [mine |-> NoJob, live |-> FALSE]]
        /\ told = [s \in WorkerSessions |-> {}]
        /\ effects = [j \in Jobs |-> 0] /\ answer = [p \in Producers |-> NoAnswer]
    BY DEF LeftRows, TransactionsInit
  <1>2. ASSUME NEW j \in Jobs
        PROVE  /\ rows[j] \in JobRow /\ rows[j].status # "completed"
               /\ rows[j].status = "running" <=> rows[j].worker # NoWorker
               /\ rows[j].started \/ rows[j].stale => rows[j].status = "running"
               /\ rows[j].status \in {"pending", "running"} => rows[j].retry <= MaxRetries
               /\ \A s \in WorkerSessions : rows[j].worker # WorkerOf[s]
    BY DEF LeftRows
  <1>3. \A j \in Jobs : RowOK(jobs[j])
    BY <1>1, <1>2 DEF RowOK, Active
  <1>4. TransactionsTyped
    <2>1. \A s \in WorkerSessions : [mine |-> NoJob, live |-> FALSE] \in [mine : Jobs \union {NoJob}, live : BOOLEAN]
      OBVIOUS
    <2> QED
      BY <1>1, <1>3, <2>1 DEF TransactionsTyped
  <1>5. OneActive
    <2>1. \A i, j \in Jobs :
              i # j /\ {rows[i].status, rows[j].status} \subseteq {"pending", "running"} /\ rows[i].key # NoKey
                  => rows[i].key # rows[j].key
      BY DEF LeftRows
    <2> QED
      BY <1>1, <2>1 DEF OneActive, Active
  <1>6. EffectsOK
    BY <1>1, <1>2 DEF EffectsOK
  <1>7. KeysDiffer(NoTx)
    BY <1>5, NoTxIs DEF KeysDiffer, SameKey, OneActive
  <1>8. ASSUME NEW s \in Sessions PROVE TxOK(s, tx[s])
    <2>1. tx[s] = NoTx
      BY <1>1
    <2>2. VersionsOK(NoTx) /\ RunsOK(s, NoTx) /\ SeenOK(NoTx) /\ MineOK(s, NoTx) /\ Shaped(s, NoTx)
      BY NoTxIs DEF VersionsOK, RunsOK, SeenOK, MineOK
    <2> QED
      BY <1>7, <2>1, <2>2 DEF TxOK
  <1>9. \A s, o \in Sessions : s # o => Apart(tx[s], tx[o])
    BY <1>1, NoTxIs DEF Apart
  <1>10. \A s \in WorkerSessions : session[s].mine = NoJob /\ ~(session[s].live) /\ told[s] = {}
    BY <1>1
  <1>11. \A s \in WorkerSessions : SessionOK(s)
    BY <1>10 DEF SessionOK
  <1>12. ShareTaken
    BY <1>10 DEF ShareTaken
  <1>13. RunnersOK
    BY <1>1, <1>2 DEF RunnersOK, Has
  <1>14. AnswersOK
    BY <1>1 DEF AnswersOK, NoAnswer
  <1> QED
    BY <1>4, <1>5, <1>6, <1>8, <1>9, <1>11, <1>12, <1>13, <1>14 DEF TransactionsInv

\* Every step of every session keeps the invariant.
LEMMA TransactionsNextKeeps ==
    ASSUME TransactionsInv, [TransactionsNext(Sessions)]_<<storeVars, txVars>>
    PROVE  TransactionsInv'
  <1>1. CASE \E s \in Sessions : TransactionStep(s)
    BY <1>1, SnapshotKeeps, CommitKeeps, GiveUpKeeps DEF TransactionStep
  <1>2. CASE \E s \in Sessions \intersect WorkerSessions : WorkerCall(s)
    BY <1>2, WorkerCallKeeps
  <1>3. CASE \E s \in Sessions \intersect Operators : OperatorCall(s)
    BY <1>3, OperatorCallKeeps
  <1>4. CASE \E s \in Sessions \intersect Producers : ProducerCall(s)
    BY <1>4, DedupeEnqueueKeeps DEF ProducerCall
  <1>5. CASE \E w \in {WorkerOf[s] : s \in Sessions \intersect WorkerSessions} : StopClaiming(w)
    <2>1. PICK w \in {WorkerOf[s] : s \in Sessions \intersect WorkerSessions} : StopClaiming(w)
      BY <1>5
    <2>2. w \in Workers
      BY SessionAssumption
    <2> QED
      BY <2>1, <2>2, StopClaimingKeeps
  <1>6. CASE UNCHANGED <<storeVars, txVars>>
    <2>1. UNCHANGED <<jobs, paused, held, taken, tx, session, shutdown, told, effects, answer>>
      BY <1>6 DEF storeVars, txVars
    <2>2. (TransactionsTyped /\ OneActive /\ EffectsOK)'
      BY <2>1 DEF TransactionsInv, TransactionsTyped, OneActive, EffectsOK
    <2>3. \A s \in Sessions : TxOK(s, tx[s])'
      <3> SUFFICES ASSUME NEW s \in Sessions PROVE TxOK(s, tx[s])'
        OBVIOUS
      <3>1. PICK t : t = tx[s]
        OBVIOUS
      <3>2. TxOK(s, t)
        BY <3>1 DEF TransactionsInv
      <3>3. TxOK(s, t)'
        BY <2>1, <3>2 DEF TxOK, Shaped, VersionsOK, KeysDiffer, SeenOK, RunsOK, MineOK, VersionIn
      <3> QED
        BY <2>1, <3>1, <3>3
    <2>4. (\A s, o \in Sessions : s # o => Apart(tx[s], tx[o]))'
      BY <2>1 DEF TransactionsInv, Apart
    <2>5. (\A s \in WorkerSessions : SessionOK(s))' /\ ShareTaken' /\ AnswersOK'
      BY <2>1 DEF TransactionsInv, SessionOK, Has, ShareTaken, AnswersOK, Siblings, VersionIn
    <2>6. RunnersOK'
      <3>1. \A s \in WorkerSessions, j \in Jobs : (Has(s, jobs[j])' <=> Has(s, jobs[j])) /\ (Runner(s, j)' <=> Runner(s, j))
        BY <2>1 DEF Runner, Has
      <3> QED
        BY <3>1 DEF TransactionsInv, RunnersOK
    <2> QED
      BY <2>2, <2>3, <2>4, <2>5, <2>6 DEF TransactionsInv
  <1> QED
    BY <1>1, <1>2, <1>3, <1>4, <1>5, <1>6 DEF TransactionsNext


\* What the invariant says of the transactions.
LEMMA TransactionsInvImplies ==
    ASSUME TransactionsInv
    PROVE  TransactionsAreSound /\ AnswersAreTrue
  <1>1. TransactionsTypeOK
    <2>1. StoreTypeOK
      BY DEF TransactionsInv, TransactionsTyped, StoreTypeOK, RowOK
    <2>2. ASSUME NEW s \in Sessions
          PROVE  /\ tx[s].at \in {"none", "open", "snapshot"}
                 /\ tx[s].calls \in 0 .. MaxCalls[s] /\ tx[s].attempts \in 0 .. MaxAttempts - 1
                 /\ tx[s].at = "none" => tx[s] = NoTx
      BY DEF TransactionsInv, TxOK, Shaped
    <2>3. \A s \in Sessions : \A o \in Sessions \ {s} : DOMAIN tx[s].writes \intersect DOMAIN tx[o].writes = {}
      <3> SUFFICES ASSUME NEW s \in Sessions, NEW o \in Sessions, s # o
                   PROVE  DOMAIN tx[s].writes \intersect DOMAIN tx[o].writes = {}
        OBVIOUS
      <3>1. Apart(tx[s], tx[o])
        BY Zenon DEF TransactionsInv
      <3> QED
        BY <3>1 DEF Apart
    <2>4. effects \in [Jobs -> 0 .. 2]
      <3>1. effects \in [Jobs -> 0 .. 1] /\ 0 .. 1 \subseteq 0 .. 2
        BY DEF TransactionsInv, EffectsOK
      <3> QED
        BY <3>1
    <2> QED
      BY <2>1, <2>2, <2>3, <2>4 DEF TransactionsTypeOK, TransactionsInv, TransactionsTyped
  <1>2. EffectsMatchCompletions
    BY DEF TransactionsInv, EffectsOK, EffectsMatchCompletions
  <1>3. ASSUME NEW s \in WorkerSessions, NEW j \in Jobs
        PROVE  OwnedBy(s, jobs[j]) <=> Has(s, jobs[j])
    <2>1. jobs[j].started \in BOOLEAN
      BY DEF TransactionsInv, TransactionsTyped, JobRow
    <2> QED
      BY <2>1, WhereIs DEF OwnedBy
  <1>4. StartIsNotUndone
    <2> SUFFICES ASSUME NEW s \in WorkerSessions, session[s].live, session[s].mine \notin taken
                 PROVE  OwnedBy(s, jobs[session[s].mine]) /\ jobs[session[s].mine].started
      BY DEF StartIsNotUndone
    <2>1. SessionOK(s) /\ session[s].mine \in Jobs \union {NoJob}
      BY DEF TransactionsInv, TransactionsTyped
    <2>2. session[s].mine \in Jobs /\ Has(s, jobs[session[s].mine]) /\ jobs[session[s].mine].started
      BY <2>1 DEF SessionOK
    <2> QED
      BY <1>3, <2>2
  <1>5. OneActivePerKey
    BY NullAssumption DEF OneActivePerKey, HasKey, TransactionsInv, OneActive, Active
  <1>6. NotRunningIsFinal
    <2> SUFFICES ASSUME NEW s \in WorkerSessions, NEW j \in told[s], OwnedBy(s, jobs[j])
                 PROVE  \E o \in WorkerSessions \ {s} : WorkerOf[o] = WorkerOf[s] /\ session[o].mine = j
      BY DEF NotRunningIsFinal
    <2>1. j \in Jobs /\ SessionOK(s)
      BY DEF TransactionsInv, TransactionsTyped
    <2>2. PICK o \in WorkerSessions : WorkerOf[o] = WorkerOf[s] /\ Runner(o, j)
      BY <1>3, <2>1 DEF TransactionsInv, RunnersOK
    <2>3. session[o].mine = j /\ o # s
      BY <2>1, <2>2 DEF Runner, SessionOK
    <2> QED
      BY <2>2, <2>3
  <1>7. DuplicateExists
    <2> SUFFICES ASSUME NEW p \in Producers, answer[p].kind = "deduplicated"
                 PROVE  Latest(p, answer[p].job).status # "unused"
      BY DEF DuplicateExists
    <2>1. answer[p].job \in Jobs /\ VersionIn(tx[p], answer[p].job).status # "unused"
      BY DEF TransactionsInv, AnswersOK
    <2> QED
      BY <2>1 DEF Latest, VersionIn
  <1> QED
    BY <1>1, <1>2, <1>4, <1>5, <1>6, <1>7 DEF TransactionsAreSound, AnswersAreTrue

\* The invariant holds of every set of workers, operators and producers, whatever
\* calls their transactions make and however these interleave.
THEOREM TransactionsInvariance == TransactionsSpec => []TransactionsInv
  <1>1. (\E rows \in LeftRows : TransactionsInit(rows)) => TransactionsInv
    BY TransactionsInitInv
  <1>2. TransactionsInv /\ [TransactionsNext(Sessions)]_<<storeVars, txVars>> => TransactionsInv'
    BY TransactionsNextKeeps
  <1> QED
    BY <1>1, <1>2, PTL DEF TransactionsSpec

\* A job's effect is committed exactly with its completion and once, a committed
\* start stands until its handler ends it or somebody takes the job on the record,
\* and a dedupe key has one active job.
THEOREM TransactionsSoundness == TransactionsSpec => []TransactionsAreSound
  <1>1. TransactionsInv => TransactionsAreSound
    BY TransactionsInvImplies
  <1> QED
    BY <1>1, TransactionsInvariance, PTL

\* A session told that its job does not run has lost it for good, and the
\* duplicate that a producer is told of exists.
THEOREM TransactionsAnswers == TransactionsSpec => []AnswersAreTrue
  <1>1. TransactionsInv => AnswersAreTrue
    BY TransactionsInvImplies
  <1> QED
    BY <1>1, TransactionsInvariance, PTL
=============================================================================
