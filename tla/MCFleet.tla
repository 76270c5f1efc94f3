------------------------------- MODULE MCFleet -------------------------------
(***************************************************************************)
(* Model instances of the fleet primitives that need no fairness.  cast    *)
(* says what a behaviour is about: two clients of a lease that share one   *)
(* holder_id and have different claim durations; the same with a guarded   *)
(* client g in place of c; two users of a run-once task; or two publishers *)
(* and two polling loops of a topic.  Sessions, users, publishers and      *)
(* loops are the same two interchangeable model values.                    *)
(***************************************************************************)
EXTENDS MutexGuard, Once, Topic, TLC

CONSTANTS
    c, g, m, h, a, b,
    GuardTokens,   \* MaxToken of the behaviours about a guard
    GuardTime      \* and their MaxTime

VARIABLE cast

MCClients == {c, g, m}
MCHolders == {h}
MCHolderOf == [x \in MCClients |-> h]
MCDuration == [x \in MCClients |-> IF x = m THEN 2 ELSE 1]
MCSymmetry == Permutations({a, b})

MCInit ==
    /\ cast \in {"lease", "guard", "once", "topic"}
    /\ GuardInit /\ OnceInit /\ TopicInit
    /\ cast # "once" => mode = [u \in Users |-> "plain"]

OnlyFrom(clients) == \A s \in Slots : stmt'[s].kind # "idle" => stmt'[s].client \in clients

LeaseStep == Next /\ OnlyFrom({c, m}) /\ UNCHANGED <<guardVars, interrupted>>

GuardStep ==
    /\ GuardNext /\ OnlyFrom({g, m})
    /\ now' <= GuardTime /\ \A s \in Slots : stmt'[s].new <= GuardTokens

MCNext ==
    /\ UNCHANGED cast
    /\ \/ cast = "lease" /\ LeaseStep /\ UNCHANGED <<onceAll, topicVars>>
       \/ cast = "guard" /\ GuardStep /\ UNCHANGED <<onceAll, topicVars>>
       \/ cast = "once" /\ OnceNext /\ UNCHANGED <<allVars, topicVars>>
       \/ cast = "topic" /\ TopicNext /\ UNCHANGED <<allVars, onceAll>>

MCSpec == MCInit /\ [][MCNext]_<<allVars, onceAll, topicVars, cast>>
=============================================================================
