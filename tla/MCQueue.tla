------------------------------ MODULE MCQueue ------------------------------
(* Model instances of QueueWorker: a worker l with slots s1 and s2 and a      *)
(* worker o with slot s3; each cfg picks what it needs.                       *)
EXTENDS QueueWorker, TLC

CONSTANTS l, o, s1, s2, s3, j1, j2, k

MCOwnerOf == [e \in Slots |-> IF e = s3 THEN o ELSE l]
LoopSymmetry == Permutations(Jobs) \union Permutations({s1, s2})

\* The queue is paused only while there is one job.
TablesNext == QueueNext /\ (paused' # {} => \E j \in Jobs : jobs'[j] = UnusedRow)
TablesSpec == QueueInit /\ [][TablesNext]_allVars
=============================================================================
