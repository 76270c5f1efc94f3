------------------------------ MODULE Protocol ------------------------------
(***************************************************************************)
(* Who may work on an installation, from src/src/db/protocol.rs,           *)
(* protocol_schema.rs, bootstrap.rs and pool.rs.  The protocol relation     *)
(* holds one epoch.  A transaction admits itself before its first Paranoid *)
(* statement: it takes a shared lock on the relation, reads the epoch and  *)
(* remembers that it did.  Application SQL in the same transaction may     *)
(* open and roll back savepoints, and with them the lock.  An activation   *)
(* of another epoch (not part of this repository) holds the relation       *)
(* exclusively.  Bootstrap creates the relation and the component tables   *)
(* in one transaction under an advisory lock.                              *)
(***************************************************************************)
EXTENDS Naturals, FiniteSets

CONSTANTS
    Borrowers,       \* transactions of the application, one after the other
    Boots,          \* processes that call migrate_schema
    Components,     \* kv, fleet, queue
    Preparable,     \* the components with a compatible prepared layout
    MaxEpoch,       \* bound on the epochs an activation may reach
    MaxTries     \* BOOTSTRAP_SCHEMA_CREATION_RACE_MAX_ATTEMPTS

Supported == 1

\* What a component has in the ledger, and what its tables look like.
Layouts == {"none", "current", "prepared", "other"}

ASSUME ProtocolAssumption ==
    /\ Preparable \subseteq Components
    /\ MaxEpoch \in Nat \ {0} /\ MaxTries \in Nat \ {0}

VARIABLES
    epoch,      \* the committed epoch; 0: there is no protocol relation
    protoRow,   \* whether the ledger records the protocol relation
    rows,       \* the ledger row of each component, as committed
    tables,     \* the tables of each component, as committed
    borrower,    \* the transactions of the application
    activator,  \* the exclusive lock of an activation: none, waiting, held
    boot,       \* the bootstrap transactions
    origin      \* history: the installation before anything ran

protocolVars == <<epoch, protoRow, rows, tables, borrower, activator, boot, origin>>

NewSession == [at |-> "open", iso |-> "read committed", queried |-> FALSE, snapshot |-> MaxEpoch + 1,
          savepoint |-> FALSE, lock |-> "none", cached |-> FALSE, work |-> "none"]

Idle == [NewSession EXCEPT !.at = "idle"]

NewBoot == [at |-> "idle", attempts |-> 1, create |-> FALSE, lock |-> FALSE,
            rows |-> [c \in Components |-> "none"], tables |-> [c \in Components |-> "none"], wrote |-> FALSE]

ProtocolInit ==
    /\ epoch \in 0..MaxEpoch
    /\ protoRow \in BOOLEAN
    /\ rows \in [Components -> Layouts] /\ tables \in [Components -> Layouts]
    /\ borrower = [s \in Borrowers |-> Idle]
    /\ activator = "none"
    /\ boot = [b \in Boots |-> NewBoot]
    /\ origin = [epoch |-> epoch, protoRow |-> protoRow, rows |-> rows, tables |-> tables]

-----------------------------------------------------------------------------
(* The relation lock: shared requests queue behind an exclusive one, unless  *)
(* the transaction already has the lock.                                     *)
SharedHolders == {s \in Borrowers : borrower[s].lock # "none"} \cup {b \in Boots : boot[b].lock}

MayShare(held) == held \/ activator = "none"

database == <<epoch, protoRow, rows, tables, origin>>

\* begin_transaction: READ COMMITTED, whatever the defaults of the database.
BeginTransaction(s) ==
    /\ borrower[s].at = "idle"
    /\ borrower' = [borrower EXCEPT ![s] = NewSession]
    /\ UNCHANGED <<database, activator, boot>>

\* Mutant: the admissions outlive the borrowing.
BorrowedCached(t) == t

\* sqlx_transaction: whatever the application does next with the transaction,
\* the admissions remembered so far are forgotten.
Borrowed(t) == [t EXCEPT !.cached = FALSE]

\* The application's statements that matter to admission: it may change the
\* isolation level before the first query, run a query (which fixes the
\* snapshot of a repeatable-read transaction), open a savepoint, release it,
\* or return to it and lose the locks and the work since.
Raw(t) ==
    {[t EXCEPT !.queried = TRUE,
               !.snapshot = IF t.iso # "read committed" /\ @ > MaxEpoch THEN epoch ELSE @]}
    \cup (IF t.queried THEN {} ELSE {[t EXCEPT !.iso = "repeatable read"]})
    \cup (IF t.savepoint
             THEN {[t EXCEPT !.savepoint = FALSE,
                             !.lock = IF @ = "inner" THEN "base" ELSE @,
                             !.work = IF @ = "inner" THEN "base" ELSE @],
                   [t EXCEPT !.lock = IF @ = "inner" THEN "none" ELSE @,
                             !.work = IF @ = "inner" THEN "none" ELSE @]}
             ELSE {[t EXCEPT !.savepoint = TRUE]})

ApplicationStatement(s) ==
    /\ borrower[s].at = "open"
    /\ \E t \in Raw(borrower[s]) : borrower' = [borrower EXCEPT ![s] = Borrowed(t)]
    /\ UNCHANGED <<database, activator, boot>>

\* Mutant: the record is read without a lock on its relation.
AdmitLockNot(s) ==
    /\ borrower[s].at = "open" /\ ~borrower[s].cached
    /\ borrower' = [borrower EXCEPT ![s].at = IF epoch = 0 THEN "idle" ELSE "selecting", ![s].queried = TRUE]
    /\ UNCHANGED <<database, activator, boot>>

\* admit, first half: LOCK TABLE.  Without the relation it is an error, which
\* ends the transaction.
AdmitLock(s) ==
    LET t == borrower[s] IN
    /\ t.at = "open" /\ ~t.cached
    /\ MayShare(t.lock # "none")
    /\ borrower' = [borrower EXCEPT ![s] =
         IF epoch = 0 THEN Idle
         ELSE [t EXCEPT !.at = "selecting", !.queried = TRUE,
                        !.lock = IF @ # "none" THEN @ ELSE IF t.savepoint THEN "inner" ELSE "base"]]
    /\ UNCHANGED <<database, activator, boot>>

\* What the SELECT of the admission finds: a repeatable-read transaction with
\* a snapshot does not see what was activated since.
Sees(t) == IF t.iso = "read committed" \/ t.snapshot > MaxEpoch THEN epoch ELSE t.snapshot

Admits(t) == t.iso = "read committed" /\ Sees(t) = Supported

\* admit, second half: the record is read and judged; a refusal leaves the
\* transaction open, and the lock with it.
AdmitSelect(s) ==
    LET t == borrower[s] IN
    /\ t.at = "selecting"
    /\ borrower' = [borrower EXCEPT ![s].at = IF Admits(t) THEN "admitted" ELSE "open",
                                  ![s].cached = Admits(t)]
    /\ UNCHANGED <<database, activator, boot>>

AdmitCached(s) ==
    /\ borrower[s].at = "open" /\ borrower[s].cached
    /\ borrower' = [borrower EXCEPT ![s].at = "admitted"]
    /\ UNCHANGED <<database, activator, boot>>

\* The statement that was admitted.
StoreStatement(s) ==
    /\ borrower[s].at = "admitted"
    /\ borrower' = [borrower EXCEPT ![s].at = "open",
                                  ![s].work = IF @ = "base" \/ ~borrower[s].savepoint THEN "base" ELSE "inner"]
    /\ UNCHANGED <<database, activator, boot>>

\* Commit, rollback or the end of the connection.
EndTransaction(s) ==
    /\ borrower[s].at # "idle"
    /\ borrower' = [borrower EXCEPT ![s] = Idle]
    /\ UNCHANGED <<database, activator, boot>>

-----------------------------------------------------------------------------
(* The activation of another epoch, external to this repository.             *)
Activate ==
    /\ epoch \in 1..(MaxEpoch - 1)
    /\ \/ activator = "none" /\ activator' = "waiting" /\ UNCHANGED epoch
       \/ activator = "waiting" /\ SharedHolders = {} /\ activator' = "held" /\ UNCHANGED epoch
       \/ activator = "held" /\ activator' = "none" /\ epoch' = epoch + 1
    /\ UNCHANGED <<protoRow, rows, tables, borrower, boot, origin>>

-----------------------------------------------------------------------------
(* migrate_schema_once, in one transaction; its own changes are in boot[b]   *)
(* until it commits.                                                         *)
InBootTx(b) == boot[b].at \notin {"idle", "done", "failed", "raced", "broken"}

BootGoes(b, next) == boot' = [boot EXCEPT ![b].at = next]

BootEnds(b, result) == boot' = [boot EXCEPT ![b] = [NewBoot EXCEPT !.at = result, !.attempts = boot[b].attempts]]

\* A schema mismatch, an incompatible epoch: the transaction is rolled back.
BootRefused(b) == BootEnds(b, "failed")

\* Mutant: the advisory lock is not waited for.
BootLockUnserialized(b) ==
    /\ boot[b].at = "idle"
    /\ BootGoes(b, "schema")
    /\ UNCHANGED <<database, borrower, activator>>

\* acquire_bootstrap_transaction_lock.
BootLock(b) ==
    /\ boot[b].at = "idle"
    /\ \A c \in Boots \ {b} : ~InBootTx(c)
    /\ BootGoes(b, "schema")
    /\ UNCHANGED <<database, borrower, activator>>

\* create_bootstrap_schema_if_needed: somebody outside the advisory lock may
\* create the schema at the same moment; then everything starts again.
CreateSchema(b) ==
    /\ boot[b].at = "schema"
    /\ \/ BootGoes(b, "inspect")
       \/ /\ epoch = 0 /\ \A c \in Components : rows[c] = "none" /\ tables[c] = "none"
          /\ boot' = [boot EXCEPT ![b] = IF boot[b].attempts < MaxTries
                THEN [NewBoot EXCEPT !.attempts = boot[b].attempts + 1]
                ELSE [NewBoot EXCEPT !.at = "raced", !.attempts = boot[b].attempts]]
    /\ UNCHANGED <<database, borrower, activator>>

\* protocol_exists, and what the transaction finds in the ledger and catalog.
InspectPlacement(b) ==
    /\ boot[b].at = "inspect"
    /\ boot' = [boot EXCEPT ![b].create = (epoch = 0),
                            ![b].at = IF epoch = 0 THEN "adopt" ELSE "admit"]
    /\ UNCHANGED <<database, borrower, activator>>

BootAdmit(b) ==
    /\ boot[b].at = "admit"
    /\ MayShare(FALSE)
    /\ IF epoch = Supported
       THEN boot' = [boot EXCEPT ![b].at = "prepare", ![b].lock = TRUE]
       ELSE BootRefused(b)
    /\ UNCHANGED <<database, borrower, activator>>

\* Mutant: tables without a row are not looked for.
AdoptionSourceByRow(c) == rows[c] \in {"current", "none"}

\* validate_protocol_adoption_source: without a protocol relation a component
\* is taken over if its row is exactly the current one, or if it has neither
\* a row nor a table.
AdoptionSource(c) == rows[c] = "current" \/ (rows[c] = "none" /\ tables[c] = "none")

BootAdopt(b) ==
    /\ boot[b].at = "adopt"
    /\ IF \A c \in Components : AdoptionSource(c) THEN BootGoes(b, "prepare") ELSE BootRefused(b)
    /\ UNCHANGED <<database, borrower, activator>>

\* Mutant: the relation is there for everybody before the components are.
PrepareProtocolAtOnce(b) ==
    /\ boot[b].at = "prepare"
    /\ boot' = [boot EXCEPT ![b].at = "migrate", ![b].wrote = TRUE, ![b].rows = rows, ![b].tables = tables]
    /\ epoch' = Supported
    /\ UNCHANGED <<protoRow, rows, tables, origin, borrower, activator>>

\* prepare_protocol: the relation is created (another creator's relation is
\* an error) or was admitted; the ledger must agree.
PrepareProtocol(b) ==
    /\ boot[b].at = "prepare"
    /\ boot[b].create => \A c \in Boots \ {b} : ~(boot[c].create /\ boot[c].wrote)
    /\ IF boot[b].create = (epoch = 0) /\ protoRow = ~boot[b].create
       THEN boot' = [boot EXCEPT ![b].at = "migrate", ![b].wrote = TRUE,
                                 ![b].rows = rows, ![b].tables = tables]
       ELSE BootRefused(b)
    /\ UNCHANGED <<database, borrower, activator>>

\* migrate_schema_in_current_transaction of one component whose release has
\* no migration steps: install what is missing, validate, record.
ComponentAfter(c, row, table) ==
    IF row = "prepared" /\ c \in Preparable
    THEN [ok |-> table = "prepared", row |-> row, table |-> table]
    ELSE [ok |-> row \in {"none", "current"} /\ table \in {"none", "current"},
          row |-> "current", table |-> "current"]

\* The kv, fleet and queue schemas, in their order; nobody else has the lock.
MigrateComponents(b) ==
    LET after == [c \in Components |-> ComponentAfter(c, boot[b].rows[c], boot[b].tables[c])] IN
    /\ boot[b].at = "migrate"
    /\ IF \A c \in Components : after[c].ok
       THEN boot' = [boot EXCEPT ![b].at = "commit",
                                 ![b].rows = [c \in Components |-> after[c].row],
                                 ![b].tables = [c \in Components |-> after[c].table]]
       ELSE BootRefused(b)
    /\ UNCHANGED <<database, borrower, activator>>

\* Commit; the answer may be lost, and a database error at any point before
\* it rolls everything back.
BootCommit(b) ==
    /\ boot[b].at = "commit"
    /\ epoch' = (IF boot[b].create THEN Supported ELSE epoch)
    /\ protoRow' = TRUE
    /\ rows' = boot[b].rows /\ tables' = boot[b].tables
    /\ \E result \in {"done", "broken"} : BootEnds(b, result)
    /\ UNCHANGED <<borrower, activator, origin>>

BootBreaks(b) ==
    /\ InBootTx(b)
    /\ BootEnds(b, "broken")
    /\ UNCHANGED <<database, borrower, activator>>

\* A process that failed for want of an answer tries again.
BootAgain(b) ==
    /\ boot[b].at = "broken"
    /\ boot' = [boot EXCEPT ![b] = NewBoot]
    /\ UNCHANGED <<database, borrower, activator>>

SessionStep(s) ==
    \/ BeginTransaction(s) \/ ApplicationStatement(s)
    \/ AdmitLock(s) \/ AdmitSelect(s) \/ AdmitCached(s) \/ StoreStatement(s) \/ EndTransaction(s)

BootStep(b) ==
    \/ BootLock(b) \/ CreateSchema(b) \/ InspectPlacement(b) \/ BootAdmit(b) \/ BootAdopt(b)
    \/ PrepareProtocol(b) \/ MigrateComponents(b) \/ BootCommit(b) \/ BootBreaks(b) \/ BootAgain(b)

ProtocolNext == Activate \/ (\E s \in Borrowers : SessionStep(s)) \/ (\E b \in Boots : BootStep(b))

ProtocolSpec == ProtocolInit /\ [][ProtocolNext]_protocolVars

-----------------------------------------------------------------------------
ProtocolTypeOK ==
    /\ epoch \in 0..MaxEpoch /\ protoRow \in BOOLEAN
    /\ rows \in [Components -> Layouts] /\ tables \in [Components -> Layouts]
    /\ activator \in {"none", "waiting", "held"}
    /\ \A s \in Borrowers :
         /\ borrower[s].at \in {"idle", "open", "selecting", "admitted"}
         /\ borrower[s].lock \in {"none", "base", "inner"}
         /\ borrower[s].lock = "inner" => borrower[s].savepoint
         /\ borrower[s].at \in {"selecting", "admitted"} => borrower[s].lock # "none"
    /\ activator = "held" => SharedHolders = {}

\* A transaction of this release that has touched Paranoid state, or is about
\* to, is never open under another epoch: what it admitted itself to at its
\* first statement is still active when it commits, whatever savepoints the
\* application returned to and however long an activation has been waiting.
\* The same holds of a bootstrap that found the relation there.
WorkIsUnderSupportedEpoch ==
    /\ \A s \in Borrowers :
         borrower[s].at = "admitted" \/ borrower[s].work # "none" => epoch = Supported
    /\ \A b \in Boots : boot[b].wrote /\ ~boot[b].create => epoch = Supported

\* A protocol relation that bootstrap created stands for an installation that
\* is complete: the ledger records the relation and every component at the
\* current version, and the tables are there.
CreatedProtocolIsComplete ==
    origin.epoch = 0 /\ epoch # 0 =>
        protoRow /\ \A c \in Components : rows[c] = "current" /\ tables[c] = "current"

\* Bootstrap never takes over what it cannot identify: tables that no ledger
\* row describes, or a row of another version, keep it from creating the
\* relation, however often and by however many processes it is tried.
UnknownStateIsNotAdopted ==
    origin.epoch = 0 /\ epoch # 0 =>
        \A c \in Components :
            \/ origin.rows[c] = "current"
            \/ origin.rows[c] = "none" /\ origin.tables[c] = "none"

\* The installations a bootstrap of this release can complete.
Bootstrappable ==
    /\ origin.epoch \in {0, Supported} /\ origin.protoRow = (origin.epoch = Supported)
    /\ origin.epoch = 0 => \A c \in Components :
         origin.rows[c] = "current" \/ (origin.rows[c] = "none" /\ origin.tables[c] = "none")
    /\ \A c \in Components : ComponentAfter(c, origin.rows[c], origin.tables[c]).ok

\* A bootstrap is refused only because of what it found: two that start
\* together on an installation this release can complete both succeed.
RefusalHasACause ==
    (\E b \in Boots : boot[b].at = "failed") => ~Bootstrappable \/ epoch > Supported

\* Bootstrap: types, complete installations, nothing unknown taken over and no
\* refusal without a cause.
BootstrapIsSound ==
    /\ ProtocolTypeOK
    /\ CreatedProtocolIsComplete
    /\ UnknownStateIsNotAdopted
    /\ RefusalHasACause
=============================================================================
