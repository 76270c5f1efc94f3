------------------------------- MODULE MCLocks -------------------------------
(***************************************************************************)
(* Model instances of parties that must get on: processes at a lock file,  *)
(* waiters for a semaphore and the tasks of a queue worker runtime.  They  *)
(* share a run and nothing else; cast says which one a behaviour is about. *)
(***************************************************************************)
EXTENDS LocalLock, Semaphore, QueueRuntime

VARIABLE cast

MCInit ==
    /\ cast \in {"file", "semaphore", "runtime"}
    /\ FileInit /\ SemInit /\ RuntimeInit
    /\ cast # "file" => file = NoFile

MCNext ==
    /\ UNCHANGED cast
    /\ \/ cast = "file" /\ FileNext /\ UNCHANGED <<semVars, runtimeVars>>
       \/ cast = "semaphore" /\ SemNext /\ UNCHANGED <<fileVars, runtimeVars>>
       \/ cast = "runtime" /\ RuntimeNext /\ UNCHANGED <<fileVars, semVars>>

\* FileFairness, SemFairness and RuntimeFairness.
MCFairness ==
    /\ \A p \in Procs : WF_fileVars(cast = "file" /\ Beat(p)) /\ WF_fileVars(cast = "file" /\ Call(p))
    /\ WF_semVars(cast = "semaphore" /\ SemTick)
    /\ \A c \in Callers : WF_semVars(cast = "semaphore" /\ Progress(c))
    /\ WF_runtimeVars(cast = "runtime" /\ NotifyWaiters)
    /\ WF_runtimeVars(cast = "runtime" /\ WorkerStep)
    /\ WF_runtimeVars(cast = "runtime" /\ SupervisorStep)
    /\ \A t \in Crons : SF_runtimeVars(cast = "runtime" /\ CronStep(t))
    /\ WF_runtimeVars(cast = "runtime" /\ ReclaimReturns)
    /\ WF_runtimeVars(cast = "runtime" /\ requested /\ CleanupStep)

MCSpec == MCInit /\ [][MCNext]_<<fileVars, semVars, runtimeVars, cast>> /\ MCFairness



\* A displaced holder of a lock file learns of it, an abandoned file is cleared
\* by the next acquire, a waiter outlives holders that died with their slots, and
\* a stop ends every task of a worker runtime.
NobodyWaitsForever ==
    DisplacedHolderLearns /\ AbandonedFileIsCleared /\ WaiterIsServed /\ StopEndsEverything
=============================================================================
