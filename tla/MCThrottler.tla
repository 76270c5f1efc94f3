----------------------------- MODULE MCThrottler -----------------------------
(***************************************************************************)
(* Model instances of Throttler with every limit configured.  Either two   *)
(* callers live with operators that open and close the circuit, or three   *)
(* crowd beside resets, for a shorter time.                                *)
(***************************************************************************)
EXTENDS Throttler, TLC

CONSTANTS a, b, c, d, CrowdTime

VARIABLE taking   \* the callers that take part

CallerSymmetry == Permutations(Callers)

MCInit == Init /\ taking \in {s \in SUBSET Callers : Cardinality(s) >= 2}

MCNext ==
    /\ UNCHANGED taking
    /\ \/ \E u \in taking : CallerNext(u) \/ BeatNext(u)
       \/ /\ Cardinality(taking) = 2
          /\ \E circuit \in OperatorCalls \ {"reset"} : SetCircuit(circuit)
       \/ Cardinality(taking) > 2 /\ Reset
       \/ PurgeExpired
       \/ (Cardinality(taking) > 2 => now < CrowdTime) /\ Tick

MCSpec == MCInit /\ [][MCNext]_<<vars, taking>>
=============================================================================
