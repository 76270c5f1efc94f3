---------------------------- MODULE MCMutexGuard ----------------------------
(* Model instance of MutexGuard with fairness: a guarded client g and a     *)
(* client m that manages its claim itself, under different holder ids.      *)
EXTENDS MutexGuard

CONSTANTS g, m, s1

MCClients == {g, m}
MCHolderOf == [c \in {g, m} |-> c]
MCDuration == [c \in {g, m} |-> 1]
=============================================================================
