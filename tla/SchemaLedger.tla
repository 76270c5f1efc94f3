---------------------------- MODULE SchemaLedger ----------------------------
(***************************************************************************)
(* The schema ledger and the migration of one component schema, from       *)
(* src/src/db/schema_ledger.rs, schema_migration.rs and                    *)
(* component_schema.rs.  Processes of several releases migrate the same    *)
(* component at the same time: each claims or locks the component's ledger *)
(* row, plans from what is recorded there, runs the statements of the      *)
(* plan, validates the tables and records the version, all in one          *)
(* transaction.                                                            *)
(***************************************************************************)
EXTENDS Naturals, Sequences

CONSTANTS
    Migrators,      \* the processes
    Releases,       \* what they may be built with: [current, steps, prepared]
    None,           \* no row, no table
    Broken,         \* tables on which a statement ran that was not meant for them
    MaxMigrations   \* bound on the calls of one process

Version(t) == t[1]

\* A target is a version and a fingerprint; a step leads from one to another.
ReleaseTargets(r) ==
    {r.current} \cup {s.from : s \in {r.steps[i] : i \in DOMAIN r.steps}}
                \cup {s.to : s \in {r.steps[i] : i \in DOMAIN r.steps}} \cup r.prepared

Targets == UNION {ReleaseTargets(r) : r \in Releases}

\* Steps lead from target to target, versions are numbers, and neither no table
\* nor a broken one is a target.
ASSUME LedgerAssumption ==
    /\ \A r \in Releases : r.steps \in Seq([from : Targets, to : Targets])
    /\ \A t \in Targets : Version(t) \in Nat
    /\ None \notin Targets /\ Broken \notin Targets

VARIABLES
    release,    \* the release each process is built with
    ledgerMade, \* the ledger table is there
    row,        \* the committed ledger row of the component
    physical,   \* the committed tables, by the target they have the form of
    mig         \* the processes and their transactions

ledgerVars == <<release, ledgerMade, row, physical, mig>>

NewMigration == [at |-> "idle", calls |-> 0, made |-> FALSE, claimed |-> FALSE, locked |-> FALSE,
                 recorded |-> None, row |-> None, plan |-> <<>>, physical |-> None, altered |-> FALSE]

LedgerInit ==
    /\ release \in [Migrators -> Releases]
    /\ row \in {None} \cup Targets
    /\ physical = row
    /\ ledgerMade \in (IF row = None THEN BOOLEAN ELSE {TRUE})
    /\ mig = [m \in Migrators |-> NewMigration]

-----------------------------------------------------------------------------
(* plan_component_schema_migration                                           *)
Valid(r) ==
    \A i \in DOMAIN r.steps :
        /\ Version(r.steps[i].to) > Version(r.steps[i].from)
        /\ Version(r.steps[i].to) <= Version(r.current)

Refused == [kind |-> "refused", steps |-> <<>>]

\* The steps that lead away from the cursor, by their place in the list.
Leaving(r, cursor) == {i \in DOMAIN r.steps : r.steps[i].from = cursor}

\* From the cursor the i-th step: it ends at the current target, or goes on
\* below the current version.
Onward(r, from, i) ==
    LET step == r.steps[i] IN
    IF step.to = r.current THEN [kind |-> "upgrade", steps |-> <<step>>]
    ELSE IF Version(step.to) >= Version(r.current) \/ from[step.to].kind = "refused" THEN Refused
    ELSE [kind |-> "upgrade", steps |-> <<step>> \o from[step.to].steps]

\* Mutant: the first step that leaves the cursor is taken.
WalkFirst(r) ==
    LET from[cursor \in Targets] ==
          IF Leaving(r, cursor) = {} THEN Refused
          ELSE Onward(r, from, CHOOSE i \in Leaving(r, cursor) : \A j \in Leaving(r, cursor) : i <= j)
    IN from

\* The loop: from the cursor there must be exactly one step.
Walk(r) ==
    LET from[cursor \in Targets] ==
          IF \E i \in DOMAIN r.steps : Leaving(r, cursor) = {i}
             THEN Onward(r, from, CHOOSE i \in DOMAIN r.steps : Leaving(r, cursor) = {i})
             ELSE Refused
    IN from

\* Mutant: any chain of steps will do, whichever way it leads.
PlanEitherWay(r, recorded) ==
    IF recorded = None THEN [kind |-> "fresh", steps |-> <<>>]
    ELSE IF recorded = r.current THEN [kind |-> "current", steps |-> <<>>]
    ELSE Walk(r)[recorded]

Plan(r, recorded) ==
    IF ~Valid(r) THEN Refused
    ELSE IF recorded = None THEN [kind |-> "fresh", steps |-> <<>>]
    ELSE IF recorded = r.current THEN [kind |-> "current", steps |-> <<>>]
    ELSE IF Version(recorded) >= Version(r.current) THEN Refused
    ELSE Walk(r)[recorded]

\* plan_component_schema_with_compatible_prepared_versions
PlanCompatible(r, recorded) ==
    IF recorded \in r.prepared THEN [kind |-> "prepared", steps |-> <<>>] ELSE Plan(r, recorded)

-----------------------------------------------------------------------------
Others(m) == Migrators \ {m}

\* The row is locked by the transaction that inserted it or selected it.
RowLockedBy(m) == mig[m].claimed \/ mig[m].locked

Becomes(m, rec) == mig' = [mig EXCEPT ![m] = rec]

\* The transaction is over; what it found recorded is kept for the properties.
Returns(m, result) ==
    [NewMigration EXCEPT !.at = result, !.calls = mig[m].calls, !.recorded = mig[m].recorded]

InMigration(m) == mig[m].at \notin {"idle", "ok", "refused", "failed"}

BeginMigration(m) ==
    /\ ~InMigration(m) /\ mig[m].calls < MaxMigrations
    /\ Becomes(m, [NewMigration EXCEPT !.at = "ledger", !.calls = mig[m].calls + 1])
    /\ UNCHANGED <<release, ledgerMade, row, physical>>

\* The CREATE TABLE of the ledger, inside a savepoint: it waits for another
\* creator; when that one has committed, the statement fails with a duplicate
\* that the savepoint undoes, and the table is there.
CreateLedgerTable(m) ==
    /\ mig[m].at = "ledger"
    /\ ~\E o \in Others(m) : mig[o].made
    /\ Becomes(m, [mig[m] EXCEPT !.at = "claim", !.made = ~ledgerMade])
    /\ UNCHANGED <<release, ledgerMade, row, physical>>

\* Mutant: the insert does not wait for another transaction's row.
ClaimRowUnwaited(m) ==
    /\ mig[m].at = "claim"
    /\ Becomes(m, IF row = None
         THEN [mig[m] EXCEPT !.at = "plan", !.claimed = TRUE, !.row = release[m].current]
         ELSE [mig[m] EXCEPT !.at = "lock"])
    /\ UNCHANGED <<release, ledgerMade, row, physical>>

\* claim_component_version_statement: INSERT ... ON CONFLICT DO NOTHING waits
\* for another transaction's row, and then finds it or inserts its own.
ClaimRow(m) ==
    /\ mig[m].at = "claim"
    /\ ~\E o \in Others(m) : mig[o].claimed
    /\ Becomes(m, IF row = None
         THEN [mig[m] EXCEPT !.at = "plan", !.claimed = TRUE, !.row = release[m].current]
         ELSE [mig[m] EXCEPT !.at = "lock"])
    /\ UNCHANGED <<release, ledgerMade, row, physical>>

\* Mutant: the row is read without a lock.
LockRowNot(m) ==
    /\ mig[m].at = "lock"
    /\ Becomes(m, [mig[m] EXCEPT !.at = "plan", !.recorded = row, !.row = row])
    /\ UNCHANGED <<release, ledgerMade, row, physical>>

\* lock_component_version_statement: SELECT ... FOR UPDATE.
LockRow(m) ==
    /\ mig[m].at = "lock"
    /\ ~\E o \in Others(m) : RowLockedBy(o)
    /\ Becomes(m, [mig[m] EXCEPT !.at = "plan", !.locked = TRUE, !.recorded = row, !.row = row])
    /\ UNCHANGED <<release, ledgerMade, row, physical>>

Planned(m) == PlanCompatible(release[m], mig[m].recorded)

PlanMigration(m) ==
    /\ mig[m].at = "plan"
    /\ Planned(m).kind # "refused"
    /\ Becomes(m, [mig[m] EXCEPT !.plan = Planned(m).steps,
         !.at = IF Planned(m).kind \in {"fresh", "upgrade"} THEN "run" ELSE "validate"])
    /\ UNCHANGED <<release, ledgerMade, row, physical>>

\* The tables as the transaction sees them.
PhysicalFor(m) == IF mig[m].altered THEN mig[m].physical ELSE physical

\* The fresh-install statements, or those of the next step: statements that
\* change tables wait for a transaction that has changed them, and do what
\* they were written for only on the tables they were written for.
RunStatements(m) ==
    LET fresh == mig[m].recorded = None
        step == mig[m].plan[1]
        base == IF fresh THEN None ELSE step.from
        made == IF fresh THEN release[m].current ELSE step.to
    IN
    /\ mig[m].at = "run"
    /\ ~\E o \in Others(m) : mig[o].altered
    /\ Becomes(m, [mig[m] EXCEPT !.altered = TRUE,
         !.physical = IF PhysicalFor(m) = base THEN made ELSE Broken,
         !.plan = IF fresh THEN <<>> ELSE Tail(@),
         !.at = IF fresh \/ Len(mig[m].plan) = 1 THEN "validate" ELSE "run"])
    /\ UNCHANGED <<release, ledgerMade, row, physical>>

\* Validation of the tables: exactly the current target, or the prepared one.
ValidatesAs(m) == IF mig[m].recorded \in release[m].prepared THEN mig[m].recorded ELSE release[m].current

ValidateSchema(m) ==
    /\ mig[m].at = "validate"
    /\ mig[m].altered \/ ~\E o \in Others(m) : mig[o].altered
    /\ PhysicalFor(m) = ValidatesAs(m)
    /\ Becomes(m, [mig[m] EXCEPT !.at = IF mig[m].altered THEN "record" ELSE "commit"])
    /\ UNCHANGED <<release, ledgerMade, row, physical>>

\* Mutant: the version is not written.
RecordCompletionNot(m) ==
    /\ mig[m].at = "record"
    /\ Becomes(m, [mig[m] EXCEPT !.at = "commit"])
    /\ UNCHANGED <<release, ledgerMade, row, physical>>

RowIsAsPlanned(m) == mig[m].claimed \/ row = mig[m].recorded

\* record_component_schema_migration_completion: the update expects the row
\* as it was recorded, or as it was claimed, and the row is read again.
RecordCompletion(m) ==
    /\ mig[m].at = "record"
    /\ ~\E o \in Others(m) : RowLockedBy(o)
    /\ RowIsAsPlanned(m)
    /\ Becomes(m, [mig[m] EXCEPT !.at = "commit", !.locked = TRUE, !.row = release[m].current])
    /\ UNCHANGED <<release, ledgerMade, row, physical>>

\* Commit; when its answer is lost the caller has an error for a migration
\* that took place.
CommitMigration(m) ==
    /\ mig[m].at = "commit"
    /\ row' = (IF mig[m].altered THEN mig[m].row ELSE row)
    /\ physical' = PhysicalFor(m)
    /\ ledgerMade' = (ledgerMade \/ mig[m].made)
    /\ \E result \in {"ok", "failed"} : Becomes(m, Returns(m, result))
    /\ UNCHANGED release

\* A schema mismatch: the plan is refused, the tables are not what the release
\* needs, or the row is no longer the one planned from.  Everything is rolled
\* back.
MigrationRefused(m) ==
    /\ \/ mig[m].at = "plan" /\ Planned(m).kind = "refused"
       \/ /\ mig[m].at = "validate" /\ PhysicalFor(m) # ValidatesAs(m)
          /\ mig[m].altered \/ ~\E o \in Others(m) : mig[o].altered
       \/ mig[m].at = "record" /\ ~RowIsAsPlanned(m) /\ ~\E o \in Others(m) : RowLockedBy(o)
    /\ Becomes(m, Returns(m, "refused"))
    /\ UNCHANGED <<release, ledgerMade, row, physical>>

\* A failed statement, a lost connection, a crash.
MigrationFails(m) ==
    /\ InMigration(m)
    /\ Becomes(m, Returns(m, "failed"))
    /\ UNCHANGED <<release, ledgerMade, row, physical>>

Migration(m) ==
    \/ BeginMigration(m) \/ CreateLedgerTable(m) \/ ClaimRow(m) \/ LockRow(m) \/ PlanMigration(m)
    \/ RunStatements(m) \/ ValidateSchema(m) \/ RecordCompletion(m) \/ CommitMigration(m)
    \/ MigrationRefused(m) \/ MigrationFails(m)

LedgerNext == \E m \in Migrators : Migration(m)

LedgerSpec == LedgerInit /\ [][LedgerNext]_ledgerVars

-----------------------------------------------------------------------------
LedgerTypeOK ==
    /\ release \in [Migrators -> Releases] /\ ledgerMade \in BOOLEAN
    /\ row \in {None} \cup Targets /\ physical \in {None} \cup Targets
    /\ row # None => ledgerMade
    /\ \A m, o \in Migrators : RowLockedBy(m) /\ RowLockedBy(o) => m = o

\* What the ledger records is what the tables are: whoever wins the first
\* installation, whichever releases race and wherever they fail, the version
\* and the statements become visible together.
LedgerDescribesTables == physical = row

\* A migration is refused only because its own plan is: no other process can
\* make the tables differ from what the row promised, nor change the row
\* between the planning and the completion.
OnlyPlansAreRefused ==
    \A m \in Migrators : mig[m].at = "refused" =>
        PlanCompatible(release[m], mig[m].recorded).kind = "refused"

\* A component never goes back to an older version, nor changes its
\* fingerprint within one, when releases of different age migrate in turns.
SchemaNeverGoesBack ==
    [][row # None /\ row' # row => row' # None /\ Version(row') > Version(row)]_ledgerVars

\* The chains of steps that lead from a recorded target to the current one
\* without a choice on the way.
OnlyChains(r, recorded) ==
    LET steps == {r.steps[i] : i \in DOMAIN r.steps}
        lonely(t) == \E i \in DOMAIN r.steps :
                        \A j \in DOMAIN r.steps : r.steps[j].from = t <=> j = i
    IN {c \in UNION {[1..n -> steps] : n \in 1..Len(r.steps)} :
          /\ c[1].from = recorded /\ c[Len(c)].to = r.current
          /\ \A i \in 1..(Len(c) - 1) : c[i].to = c[i + 1].from
          /\ \A i \in DOMAIN c : lonely(c[i].from)}

\* The planner finds an upgrade exactly when the declared steps lead to the
\* current target in one way, and then plans that way.
PlanIsTheOnlyChain ==
    \A m \in Migrators :
        LET r == release[m]
            plan == Plan(r, row)
        IN row # None /\ row # r.current /\ Valid(r) =>
             IF plan.kind = "refused" THEN OnlyChains(r, row) = {}
             ELSE plan.kind = "upgrade" /\ OnlyChains(r, row) = {plan.steps}

\* The ledger: types, rows that describe the tables, refusals that come from the
\* plan alone and plans that are the only chain.
LedgerIsSound ==
    /\ LedgerTypeOK
    /\ LedgerDescribesTables
    /\ OnlyPlansAreRefused
    /\ PlanIsTheOnlyChain
=============================================================================
