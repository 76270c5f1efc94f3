--------------------------- MODULE MCTransactions ---------------------------
(***************************************************************************)
(* Model instances of what goes on in transactions that others look into:  *)
(* queue calls by the sessions of workers, an operator and producers; the  *)
(* admission of the application's transactions beside an activation and a  *)
(* bootstrap of a complete installation; bootstraps of any installation;   *)
(* migrations of a component by two releases; and the migration planner    *)
(* alone on all short lists of steps.  cast says what a behaviour is       *)
(* about, taking which sessions of the queue take part.                    *)
(***************************************************************************)
EXTENDS QueueTransactions, Protocol, SchemaLedger

VARIABLES cast, taking

MCWorkerOf == [a1 |-> "w1", a2 |-> "w1", b |-> "w2", m |-> "w2"]

MCMaxCalls == [s \in Sessions |-> IF s \in {"a1", "p1", "m"} THEN 2 ELSE 1]

JobRows(status, key) ==
    [j \in Jobs |-> IF j = "j1" THEN [UnusedRow EXCEPT !.status = status, !.key = key] ELSE UnusedRow]

T(v, f) == <<v, f>>

S(x, y) == [from |-> x, to |-> y]

R(current, steps) == [current |-> current, steps |-> steps, prepared |-> {}]

AllTargets == {T(v, f) : v \in 1..3, f \in {"a", "b"}}

AllSteps == {S(x, y) : x \in AllTargets, y \in AllTargets}

Advancing == {s \in AllSteps : s.from[1] < s.to[1]}

\* Every list of two steps and every longer one that is sorted out by the walk
\* and not by the validation; fingerprint "a" stands for the release's own, and
\* no step leads to version 1.
PlanReleases ==
    {R(T(v, "a"), <<>>) : v \in 1..3}
    \cup {R(T(v, "a"), <<s, u>>) : v \in 2..3, s \in AllSteps, u \in AllSteps}
    \cup {R(T(3, "a"), <<s, u, w>>) : s \in Advancing, u \in Advancing, w \in Advancing}

\* Releases one would meet: three in a row, one that skips a version, one that
\* has forgotten a step, one with another idea of version 2, one that would
\* lead back, one that accepts the next version unchanged.
MigrateReleases ==
    {R(T(1, "a"), <<>>), R(T(2, "a"), <<S(T(1, "a"), T(2, "a"))>>),
     R(T(3, "a"), <<S(T(1, "a"), T(2, "a")), S(T(2, "a"), T(3, "a"))>>),
     R(T(3, "a"), <<S(T(1, "a"), T(3, "a"))>>), R(T(2, "b"), <<>>),
     R(T(2, "a"), <<S(T(3, "a"), T(2, "a"))>>),
     [current |-> T(1, "a"), steps |-> <<>>, prepared |-> {T(2, "a")}]}

MCReleases == PlanReleases \cup MigrateReleases

AllCurrent == [c \in Components |-> "current"]

\* Sessions of one worker, or of two, on a job without a key; or the users of one
\* key, which a job already has.
QueueInstances ==
    \/ cast # "queue" /\ taking = {} /\ TransactionsInit(JobRows("unused", NoKey))
    \/ /\ cast = "queue" /\ taking \in {{"a1", "a2"}, {"a1", "a2", "o"}, {"a1", "b", "o"}}
       /\ TransactionsInit(JobRows("pending", NoKey))
    \/ /\ cast = "queue" /\ taking \in {{"p1", "p2", "o"}, {"p1", "m"}}
       /\ \E status \in {"unused", "pending", "failed", "dead"} : TransactionsInit(JobRows(status, "k"))

Installations ==
    /\ epoch \in (IF cast = "boot" THEN 0..MaxEpoch ELSE {Supported})
    /\ protoRow \in (IF cast = "boot" THEN BOOLEAN ELSE {TRUE})
    /\ rows \in (IF cast = "boot" THEN [Components -> Layouts] ELSE {AllCurrent})
    /\ tables \in (IF cast = "boot" THEN [Components -> Layouts] ELSE {AllCurrent})
    /\ ProtocolInit

Ledgers ==
    /\ release \in (IF cast = "migrate" THEN [Migrators -> MigrateReleases]
                    ELSE IF cast = "plan" THEN {[m \in Migrators |-> r] : r \in PlanReleases}
                    ELSE {[m \in Migrators |-> R(T(1, "a"), <<>>)]})
    /\ row \in (IF cast \in {"migrate", "plan"} THEN {None} \cup AllTargets ELSE {None})
    /\ physical = row
    /\ ledgerMade \in (IF row = None /\ cast = "migrate" THEN BOOLEAN ELSE {TRUE})
    /\ mig = [m \in Migrators |-> NewMigration]

MCInit ==
    /\ cast \in {"queue", "admit", "boot", "migrate", "plan"}
    /\ QueueInstances /\ Installations /\ Ledgers

\* A worker shuts down only where no operator interferes.
QueueStep == TransactionsNext(taking) /\ (shutdown' # {} => "o" \notin taking)

ProtocolStep ==
    \/ Activate
    \/ cast = "admit" /\ \E s \in Borrowers : SessionStep(s)
    \/ \E b \in Boots : (cast = "admit" => \A c \in Boots \ {b} : boot[c].at = "idle") /\ BootStep(b)

MCNext ==
    /\ UNCHANGED <<cast, taking>>
    /\ \/ cast = "queue" /\ QueueStep /\ UNCHANGED <<protocolVars, ledgerVars>>
       \/ cast \in {"admit", "boot"} /\ ProtocolStep /\ UNCHANGED <<storeVars, txVars, ledgerVars>>
       \/ cast = "migrate" /\ LedgerNext /\ UNCHANGED <<storeVars, txVars, protocolVars>>

MCSpec == MCInit /\ [][MCNext]_<<storeVars, txVars, protocolVars, ledgerVars, cast, taking>>
=============================================================================
