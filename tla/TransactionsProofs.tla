------------------------- MODULE TransactionsProofs -------------------------
(***************************************************************************)
(* What holds of Protocol and of SchemaLedger for every number of          *)
(* transactions, processes, components, releases and targets.              *)
(***************************************************************************)
EXTENDS Protocol, SchemaLedger, FiniteSetTheorems, WellFoundedInduction, TLAPS

(***************************************************************************)
(* Admission and bootstrap.  A transaction that was admitted, or has       *)
(* worked, holds the lock that keeps the epoch as it is; a bootstrap that  *)
(* has passed its inspection finds the installation unchanged until it     *)
(* commits, because it is the only one or because it holds the lock too.   *)
(***************************************************************************)
SessionRecords ==
    [at : {"idle", "open", "selecting", "admitted"}, iso : {"read committed", "repeatable read"}, queried : BOOLEAN,
     snapshot : 0 .. MaxEpoch + 1, savepoint : BOOLEAN, lock : {"none", "base", "inner"}, cached : BOOLEAN,
     work : {"none", "base", "inner"}]

\* A transaction of the application under the epoch e.
SessionOK(t, e) ==
    /\ t \in SessionRecords
    /\ t.lock = "inner" => t.savepoint
    /\ t.at \in {"selecting", "admitted"} => t.lock # "none"
    /\ (t.cached \/ t.at = "admitted" \/ t.work # "none") => t.lock # "none" /\ e = Supported
    /\ t.work = "base" => t.lock = "base"

BootPlaces ==
    {"idle", "schema", "inspect", "admit", "adopt", "prepare", "migrate", "commit", "done", "failed", "raced", "broken"}

BootRecords ==
    [at : BootPlaces, attempts : Nat, create : BOOLEAN, lock : BOOLEAN, rows : [Components -> Layouts],
     tables : [Components -> Layouts], wrote : BOOLEAN]

InTx(s) == s.at \notin {"idle", "done", "failed", "raced", "broken"}

\* What a bootstrap takes over: a current row, or neither a row nor a table.
Adoptable(recorded, made) == recorded = "current" \/ (recorded = "none" /\ made = "none")

\* A bootstrap over the installation: its epoch, its protocol row, its component
\* rows and tables.
BootOK(s, e, p, r, t) ==
    /\ s \in BootRecords
    /\ s.wrote <=> s.at \in {"migrate", "commit"}
    /\ s.at \notin {"adopt", "prepare", "migrate", "commit"} => ~s.create /\ ~s.lock
    /\ s.at = "admit" => e # 0
    /\ s.at = "adopt" => s.create /\ ~s.lock
    /\ s.create => e = 0
    /\ s.at \in {"prepare", "migrate", "commit"} =>
          IF s.create THEN ~s.lock /\ \A c \in Components : Adoptable(r[c], t[c])
          ELSE s.lock /\ e = Supported
    /\ s.wrote => p = ~s.create
    /\ s.at = "migrate" => s.rows = r /\ s.tables = t
    /\ s.at = "commit" => \A c \in Components : /\ ComponentAfter(c, r[c], t[c]).ok
                                              /\ s.rows[c] = ComponentAfter(c, r[c], t[c]).row
                                              /\ s.tables[c] = ComponentAfter(c, r[c], t[c]).table

\* What the installation was, and what has become of it.
OriginInv ==
    /\ origin.epoch \in 0 .. MaxEpoch /\ origin.epoch <= epoch
    /\ origin.protoRow \in BOOLEAN /\ (origin.protoRow => protoRow)
    /\ epoch = 0 => origin.protoRow = protoRow /\ origin.rows = rows /\ origin.tables = tables
    /\ \A c \in Components : \/ rows[c] = origin.rows[c] /\ tables[c] = origin.tables[c]
                             \/ rows[c] = "current" /\ tables[c] = "current"
    /\ (origin.epoch = 0 /\ epoch # 0) =>
          protoRow /\ \A c \in Components : /\ rows[c] = "current" /\ tables[c] = "current"
                                            /\ Adoptable(origin.rows[c], origin.tables[c])

ProtocolInv ==
    /\ epoch \in 0 .. MaxEpoch /\ protoRow \in BOOLEAN
    /\ rows \in [Components -> Layouts] /\ tables \in [Components -> Layouts]
    /\ activator \in {"none", "waiting", "held"}
    /\ activator = "held" => (\A s \in Borrowers : borrower[s].lock = "none") /\ \A b \in Boots : ~boot[b].lock
    /\ borrower \in [Borrowers -> SessionRecords] /\ \A s \in Borrowers : SessionOK(borrower[s], epoch)
    /\ boot \in [Boots -> BootRecords] /\ \A b \in Boots : BootOK(boot[b], epoch, protoRow, rows, tables)
    /\ \A b, c \in Boots : (InTx(boot[b]) /\ InTx(boot[c])) => b = c
    /\ OriginInv
    /\ (\E b \in Boots : boot[b].at = "failed") => ~Bootstrappable \/ epoch > Supported

-----------------------------------------------------------------------------
(* One transaction, or one bootstrap, moves and the installation stays.      *)

\* A transaction that stays sound and takes no lock that is held keeps the invariant.
LEMMA SessionMoves ==
  ASSUME ProtocolInv, NEW s \in Borrowers, NEW t, borrower' = [borrower EXCEPT ![s] = t], SessionOK(t, epoch),
         t.lock # "none" => activator # "held" \/ borrower[s].lock # "none",
         UNCHANGED <<database, activator, boot>>
  PROVE ProtocolInv'
<1>1. UNCHANGED <<epoch, protoRow, rows, tables, origin, activator, boot>>  BY DEF database
<1>2. t \in SessionRecords /\ borrower \in [Borrowers -> SessionRecords]  BY DEF SessionOK, ProtocolInv
<1>3. borrower' \in [Borrowers -> SessionRecords] /\ borrower'[s] = t
      /\ \A o \in Borrowers : o # s => borrower'[o] = borrower[o]
  BY <1>2
<1>4. \A o \in Borrowers : SessionOK(borrower'[o], epoch)
  <2> SUFFICES ASSUME NEW o \in Borrowers PROVE SessionOK(borrower'[o], epoch)  OBVIOUS
  <2>1. CASE o = s  BY <2>1, <1>3
  <2>2. CASE o # s  BY <2>2, <1>3 DEF ProtocolInv
  <2> QED BY <2>1, <2>2
<1>5. activator = "held" => (\A o \in Borrowers : borrower'[o].lock = "none") /\ \A b \in Boots : ~boot[b].lock
  <2> SUFFICES ASSUME activator = "held"
               PROVE (\A o \in Borrowers : borrower'[o].lock = "none") /\ \A b \in Boots : ~boot[b].lock
    OBVIOUS
  <2>1. (\A o \in Borrowers : borrower[o].lock = "none") /\ \A b \in Boots : ~boot[b].lock
    BY DEF ProtocolInv
  <2>2. t.lock = "none"  BY <2>1
  <2> QED BY <2>1, <2>2, <1>3
<1>6. OriginInv' /\ (Bootstrappable <=> Bootstrappable')  BY <1>1 DEF OriginInv, Bootstrappable, ProtocolInv
<1> QED BY <1>1, <1>3, <1>4, <1>5, <1>6 DEF ProtocolInv

\* So does a bootstrap that, besides, starts its transaction alone and fails for
\* a cause only.
LEMMA BootMoves ==
  ASSUME ProtocolInv, NEW b \in Boots, NEW x, boot' = [boot EXCEPT ![b] = x],
         BootOK(x, epoch, protoRow, rows, tables),
         InTx(x) => InTx(boot[b]) \/ \A c \in Boots \ {b} : ~InTx(boot[c]),
         x.lock => activator # "held" \/ boot[b].lock,
         x.at = "failed" => ~Bootstrappable \/ epoch > Supported,
         UNCHANGED <<database, borrower, activator>>
  PROVE ProtocolInv'
<1>1. UNCHANGED <<epoch, protoRow, rows, tables, origin, activator, borrower>>  BY DEF database
<1>2. x \in BootRecords /\ boot \in [Boots -> BootRecords]  BY DEF BootOK, ProtocolInv
<1>3. boot' \in [Boots -> BootRecords] /\ boot'[b] = x /\ \A c \in Boots : c # b => boot'[c] = boot[c]
  BY <1>2
<1>4. \A c \in Boots : BootOK(boot'[c], epoch, protoRow, rows, tables)
  <2> SUFFICES ASSUME NEW c \in Boots PROVE BootOK(boot'[c], epoch, protoRow, rows, tables)  OBVIOUS
  <2>1. CASE c = b  BY <2>1, <1>3
  <2>2. CASE c # b  BY <2>2, <1>3 DEF ProtocolInv
  <2> QED BY <2>1, <2>2
<1>5. activator = "held" => (\A o \in Borrowers : borrower[o].lock = "none") /\ \A c \in Boots : ~boot'[c].lock
  <2> SUFFICES ASSUME activator = "held"
               PROVE (\A o \in Borrowers : borrower[o].lock = "none") /\ \A c \in Boots : ~boot'[c].lock
    OBVIOUS
  <2>1. (\A o \in Borrowers : borrower[o].lock = "none") /\ \A c \in Boots : ~boot[c].lock
    BY DEF ProtocolInv
  <2>2. ~x.lock  BY <2>1
  <2> QED BY <2>1, <2>2, <1>3
<1>6. \A c, d \in Boots : (InTx(boot'[c]) /\ InTx(boot'[d])) => c = d
  <2> SUFFICES ASSUME NEW c \in Boots, NEW d \in Boots, InTx(boot'[c]), InTx(boot'[d]) PROVE c = d  OBVIOUS
  <2>1. \A g, h \in Boots : (InTx(boot[g]) /\ InTx(boot[h])) => g = h  BY DEF ProtocolInv
  <2>2. CASE c = b /\ d # b  BY <2>1, <2>2, <1>3
  <2>3. CASE d = b /\ c # b  BY <2>1, <2>3, <1>3
  <2>4. CASE c # b /\ d # b  BY <2>1, <2>4, <1>3
  <2> QED BY <2>2, <2>3, <2>4
<1>7. (\E c \in Boots : boot'[c].at = "failed") => ~Bootstrappable \/ epoch > Supported
  <2> SUFFICES ASSUME NEW c \in Boots, boot'[c].at = "failed" PROVE ~Bootstrappable \/ epoch > Supported  OBVIOUS
  <2>1. CASE c = b  BY <2>1, <1>3
  <2>2. CASE c # b  BY <2>2, <1>3 DEF ProtocolInv
  <2> QED BY <2>1, <2>2
<1>8. OriginInv' /\ (Bootstrappable <=> Bootstrappable')  BY <1>1 DEF OriginInv, Bootstrappable, ProtocolInv
<1> QED BY <1>1, <1>3, <1>4, <1>5, <1>6, <1>7, <1>8 DEF ProtocolInv

-----------------------------------------------------------------------------
(* The initial states.                                                       *)

\* Initially every transaction is idle, no bootstrap has begun and the origin is
\* the installation.
LEMMA ProtocolInitInv == ProtocolInit => ProtocolInv
<1> SUFFICES ASSUME ProtocolInit PROVE ProtocolInv  OBVIOUS
<1>m. MaxEpoch \in Nat \ {0}  BY ProtocolAssumption
<1>a. NewSession \in SessionRecords  BY <1>m DEF NewSession, SessionRecords
<1>1. Idle \in SessionRecords  BY <1>a DEF Idle, SessionRecords
<1>2. SessionOK(Idle, epoch)  BY <1>1 DEF Idle, NewSession, SessionOK
<1>3. NewBoot \in BootRecords  BY DEF NewBoot, BootRecords, BootPlaces, Layouts
<1>4. BootOK(NewBoot, epoch, protoRow, rows, tables) /\ ~InTx(NewBoot) /\ ~NewBoot.lock /\ NewBoot.at # "failed"
  BY <1>3 DEF NewBoot, BootOK, InTx
<1>5. OriginInv  BY <1>m DEF ProtocolInit, OriginInv
<1>6. Idle.lock = "none"  BY DEF Idle, NewSession
<1>7. borrower \in [Borrowers -> SessionRecords] /\ \A s \in Borrowers : borrower[s] = Idle
  BY <1>1 DEF ProtocolInit
<1>8. boot \in [Boots -> BootRecords] /\ \A b \in Boots : boot[b] = NewBoot
  BY <1>3 DEF ProtocolInit
<1> QED BY <1>2, <1>4, <1>5, <1>6, <1>7, <1>8 DEF ProtocolInit, ProtocolInv

-----------------------------------------------------------------------------
(* Transactions of the application.                                          *)

\* Every step of a transaction is such a move: what it was admitted to is lost
\* with the lock.
LEMMA SessionStepKeeps == ASSUME ProtocolInv, NEW s \in Borrowers, SessionStep(s) PROVE ProtocolInv'
<1>m. MaxEpoch \in Nat \ {0} /\ epoch \in 0 .. MaxEpoch  BY ProtocolAssumption DEF ProtocolInv
<1>0. PICK t : t = borrower[s]  OBVIOUS
<1>t. t \in SessionRecords /\ SessionOK(t, epoch)  BY <1>0 DEF ProtocolInv
<1>a. NewSession \in SessionRecords  BY <1>m DEF NewSession, SessionRecords
<1>i. NewSession \in SessionRecords /\ Idle \in SessionRecords  BY <1>a DEF Idle, SessionRecords
<1>j. SessionOK(Idle, epoch) /\ SessionOK(NewSession, epoch) /\ Idle.lock = "none" /\ NewSession.lock = "none"
  BY <1>i DEF Idle, NewSession, SessionOK
<1>1. CASE BeginTransaction(s)
  BY <1>1, <1>j, SessionMoves DEF BeginTransaction
<1>2. CASE ApplicationStatement(s)
  <2>1. PICK x \in Raw(t) : borrower' = [borrower EXCEPT ![s] = Borrowed(x)]
    BY <1>2, <1>0 DEF ApplicationStatement
  <2>2. PICK u : u = Borrowed(x)  OBVIOUS
  <2>a. t.at = "open"  BY <1>2, <1>0 DEF ApplicationStatement
  <2>3. x \in SessionRecords /\ (x.lock = "inner" => x.savepoint) /\ x.at = "open"
        /\ (x.lock # "none" => t.lock # "none") /\ (x.work # "none" => t.work # "none")
        /\ (x.work = "base" => x.lock = "base") /\ (x.work = "inner" => x.lock # "none")
    <3>1. CASE x = [t EXCEPT !.queried = TRUE, !.snapshot = IF t.iso # "read committed" /\ @ > MaxEpoch THEN epoch ELSE @]
      <4>1. PICK n : n = IF t.iso # "read committed" /\ t.snapshot > MaxEpoch THEN epoch ELSE t.snapshot  OBVIOUS
      <4>a. t.snapshot \in 0 .. MaxEpoch + 1  BY <1>t DEF SessionRecords
      <4>b. epoch \in 0 .. MaxEpoch + 1  BY <1>m
      <4>2. n \in 0 .. MaxEpoch + 1  BY <4>1, <4>a, <4>b
      <4>3. x = [t EXCEPT !.queried = TRUE, !.snapshot = n]  BY <3>1, <4>1, <1>t DEF SessionRecords
      <4> QED BY <4>2, <4>3, <2>a, <1>t DEF SessionOK, SessionRecords
    <3>2. CASE x = [t EXCEPT !.iso = "repeatable read"]
      BY <3>2, <2>a, <1>t DEF SessionOK, SessionRecords
    <3>3. CASE t.savepoint /\ x = [t EXCEPT !.savepoint = FALSE, !.lock = IF @ = "inner" THEN "base" ELSE @,
                                           !.work = IF @ = "inner" THEN "base" ELSE @]
      BY <3>3, <2>a, <1>t DEF SessionOK, SessionRecords
    <3>4. CASE t.savepoint /\ x = [t EXCEPT !.lock = IF @ = "inner" THEN "none" ELSE @,
                                           !.work = IF @ = "inner" THEN "none" ELSE @]
      BY <3>4, <2>a, <1>t DEF SessionOK, SessionRecords
    <3>5. CASE ~t.savepoint /\ x = [t EXCEPT !.savepoint = TRUE]
      BY <3>5, <2>a, <1>t DEF SessionOK, SessionRecords
    <3> QED BY <2>1, <3>1, <3>2, <3>3, <3>4, <3>5 DEF Raw
  <2>4. u \in SessionRecords /\ u.lock = x.lock /\ u.savepoint = x.savepoint /\ u.at = x.at /\ u.work = x.work
        /\ ~u.cached
    BY <2>2, <2>3 DEF Borrowed, SessionRecords
  <2>e. u.work \in {"none", "base", "inner"}  BY <2>4 DEF SessionRecords
  <2>5. SessionOK(u, epoch)  BY <2>3, <2>4, <2>e, <1>t DEF SessionOK
  <2>6. UNCHANGED <<database, activator, boot>>  BY <1>2 DEF ApplicationStatement
  <2> QED BY <2>1, <2>2, <2>3, <2>4, <2>5, <2>6, <1>0, SessionMoves
<1>3. CASE AdmitLock(s)
  <2>1. t.at = "open" /\ ~t.cached /\ MayShare(t.lock # "none") /\ UNCHANGED <<database, activator, boot>>
    BY <1>3, <1>0 DEF AdmitLock
  <2>2. CASE epoch = 0
    BY <1>3, <2>1, <2>2, <1>j, SessionMoves DEF AdmitLock
  <2>3. CASE epoch # 0
    <3>1. PICK u : u = [t EXCEPT !.at = "selecting", !.queried = TRUE,
                          !.lock = IF @ # "none" THEN @ ELSE IF t.savepoint THEN "inner" ELSE "base"]
      OBVIOUS
    <3>2. borrower' = [borrower EXCEPT ![s] = u]  BY <1>3, <2>3, <3>1, <1>0 DEF AdmitLock
    <3>3. u \in SessionRecords  BY <3>1, <1>t DEF SessionRecords
    <3>4. u.at = "selecting" /\ u.savepoint = t.savepoint /\ u.cached = t.cached /\ u.work = t.work
          /\ u.lock = (IF t.lock # "none" THEN t.lock ELSE IF t.savepoint THEN "inner" ELSE "base")
      BY <3>1, <1>t DEF SessionRecords
    <3>5. SessionOK(u, epoch)  BY <3>3, <3>4, <2>1, <1>t DEF SessionOK
    <3>6. activator # "held" \/ t.lock # "none"  BY <2>1 DEF MayShare
    <3> QED BY <3>2, <3>5, <3>6, <2>1, <1>0, SessionMoves
  <2> QED BY <2>2, <2>3
<1>4. CASE AdmitSelect(s)
  <2>1. t.at = "selecting" /\ UNCHANGED <<database, activator, boot>>  BY <1>4, <1>0 DEF AdmitSelect
  <2>2. PICK u : u = [t EXCEPT !.at = IF Admits(t) THEN "admitted" ELSE "open", !.cached = Admits(t)]  OBVIOUS
  <2>3. borrower' = [borrower EXCEPT ![s] = u]  BY <1>4, <2>2, <1>0, <1>t DEF AdmitSelect, ProtocolInv
  <2>4. Admits(t) \in BOOLEAN /\ (Admits(t) => epoch = Supported)  BY DEF Admits, Sees
  <2>5. u \in SessionRecords /\ u.lock = t.lock /\ u.savepoint = t.savepoint /\ u.work = t.work
        /\ u.cached = Admits(t) /\ u.at = (IF Admits(t) THEN "admitted" ELSE "open")
    BY <2>2, <2>4, <1>t DEF SessionRecords
  <2>6. SessionOK(u, epoch)  BY <2>5, <2>4, <2>1, <1>t DEF SessionOK
  <2> QED BY <2>1, <2>3, <2>5, <2>6, <1>0, SessionMoves
<1>5. CASE AdmitCached(s)
  <2>1. t.at = "open" /\ t.cached /\ UNCHANGED <<database, activator, boot>>  BY <1>5, <1>0 DEF AdmitCached
  <2>2. PICK u : u = [t EXCEPT !.at = "admitted"]  OBVIOUS
  <2>3. borrower' = [borrower EXCEPT ![s] = u]  BY <1>5, <2>2, <1>0, <1>t DEF AdmitCached, ProtocolInv
  <2>4. u \in SessionRecords /\ u.lock = t.lock /\ u.savepoint = t.savepoint /\ u.work = t.work
        /\ u.cached = t.cached /\ u.at = "admitted"
    BY <2>2, <1>t DEF SessionRecords
  <2>5. SessionOK(u, epoch)  BY <2>4, <2>1, <1>t DEF SessionOK
  <2> QED BY <2>1, <2>3, <2>4, <2>5, <1>0, SessionMoves
<1>6. CASE StoreStatement(s)
  <2>1. t.at = "admitted" /\ UNCHANGED <<database, activator, boot>>  BY <1>6, <1>0 DEF StoreStatement
  <2>2. PICK u : u = [t EXCEPT !.at = "open", !.work = IF @ = "base" \/ ~t.savepoint THEN "base" ELSE "inner"]
    OBVIOUS
  <2>3. borrower' = [borrower EXCEPT ![s] = u]  BY <1>6, <2>2, <1>0, <1>t DEF StoreStatement, ProtocolInv
  <2>4. u \in SessionRecords /\ u.lock = t.lock /\ u.savepoint = t.savepoint /\ u.cached = t.cached /\ u.at = "open"
        /\ u.work = (IF t.work = "base" \/ ~t.savepoint THEN "base" ELSE "inner")
    BY <2>2, <1>t DEF SessionRecords
  <2>5. t.lock \in {"none", "base", "inner"}  BY <1>t DEF SessionRecords
  <2>6. SessionOK(u, epoch)  BY <2>4, <2>5, <2>1, <1>t DEF SessionOK
  <2> QED BY <2>1, <2>3, <2>4, <2>6, <1>0, SessionMoves
<1>7. CASE EndTransaction(s)
  BY <1>7, <1>j, SessionMoves DEF EndTransaction
<1> QED BY <1>1, <1>2, <1>3, <1>4, <1>5, <1>6, <1>7 DEF SessionStep


-----------------------------------------------------------------------------
(* Bootstrap.                                                                *)

\* What a component becomes when it is migrated: a layout, the current one if it
\* was adoptable.
LEMMA ComponentAfterIs ==
  ASSUME NEW c, NEW recorded \in Layouts, NEW made \in Layouts
  PROVE /\ ComponentAfter(c, recorded, made).ok \in BOOLEAN
        /\ ComponentAfter(c, recorded, made).row \in Layouts
        /\ ComponentAfter(c, recorded, made).table \in Layouts
        /\ ComponentAfter(c, "current", "current").ok
        /\ ComponentAfter(c, recorded, made).ok =>
             \/ /\ ComponentAfter(c, recorded, made).row = recorded
                /\ ComponentAfter(c, recorded, made).table = made
             \/ /\ ComponentAfter(c, recorded, made).row = "current"
                /\ ComponentAfter(c, recorded, made).table = "current"
        /\ (Adoptable(recorded, made) \/ (recorded = "current" /\ made = "current")) =>
             /\ ComponentAfter(c, recorded, made).row = "current"
             /\ ComponentAfter(c, recorded, made).table = "current"
BY DEF ComponentAfter, Layouts, Adoptable

\* A bootstrap that is not in a transaction has nothing of the installation.
LEMMA NewBootIs ==
  /\ NewBoot \in BootRecords /\ NewBoot.at = "idle" /\ NewBoot.attempts = 1
  /\ ~NewBoot.lock /\ ~NewBoot.create /\ ~NewBoot.wrote
<1>1. NewBoot \in BootRecords  BY DEF NewBoot, BootRecords, BootPlaces, Layouts
<1> QED BY <1>1 DEF NewBoot

\* A bootstrap that ends without a commit, and without a cause only if it is
\* not refused.
LEMMA BootEndsKeeps ==
  ASSUME ProtocolInv, NEW b \in Boots, NEW result \in {"failed", "broken"}, BootEnds(b, result),
         result = "failed" => ~Bootstrappable \/ epoch > Supported,
         UNCHANGED <<database, borrower, activator>>
  PROVE ProtocolInv'
<1>0. PICK nb : nb = NewBoot  OBVIOUS
<1>2. PICK n : n = boot[b].attempts  OBVIOUS
<1>a. n \in Nat  BY <1>2 DEF ProtocolInv, BootRecords
<1>1. PICK x : x = [nb EXCEPT !.at = result, !.attempts = n]  OBVIOUS
<1>c. nb \in BootRecords /\ ~nb.lock /\ ~nb.create /\ ~nb.wrote  BY <1>0, NewBootIs
<1>d. x \in BootRecords /\ x.at = result /\ x.lock = nb.lock /\ x.create = nb.create /\ x.wrote = nb.wrote
  BY <1>1, <1>a, <1>c DEF BootRecords, BootPlaces
<1>b. x \in BootRecords /\ x.at = result /\ ~x.lock /\ ~x.create /\ ~x.wrote /\ ~InTx(x)
  BY <1>c, <1>d DEF InTx
<1>3. BootOK(x, epoch, protoRow, rows, tables)  BY <1>b DEF BootOK, InTx
<1>4. boot' = [boot EXCEPT ![b] = x]  BY <1>0, <1>1, <1>2 DEF BootEnds
<1> QED BY <1>b, <1>3, <1>4, BootMoves

\* The steps of a bootstrap before it commits.
LEMMA BootWorks ==
  ASSUME ProtocolInv, NEW b \in Boots,
         \/ BootLock(b) \/ CreateSchema(b) \/ InspectPlacement(b) \/ BootAdmit(b) \/ BootAdopt(b)
         \/ PrepareProtocol(b) \/ MigrateComponents(b) \/ BootBreaks(b) \/ BootAgain(b)
  PROVE ProtocolInv'
<1>m. MaxEpoch \in Nat \ {0} /\ epoch \in 0 .. MaxEpoch /\ protoRow \in BOOLEAN
      /\ rows \in [Components -> Layouts] /\ tables \in [Components -> Layouts]
  BY ProtocolAssumption DEF ProtocolInv
<1>0. PICK y : y = boot[b]  OBVIOUS
<1>t. y \in BootRecords /\ BootOK(y, epoch, protoRow, rows, tables) /\ boot \in [Boots -> BootRecords]
  BY <1>0 DEF ProtocolInv
<1>1. CASE BootLock(b)
  <2>1. y.at = "idle" /\ (\A c \in Boots \ {b} : ~InTx(boot[c])) /\ UNCHANGED <<database, borrower, activator>>
    BY <1>1, <1>0 DEF BootLock, InBootTx, InTx
  <2>2. PICK x : x = [y EXCEPT !.at = "schema"]  OBVIOUS
  <2>3. boot' = [boot EXCEPT ![b] = x]  BY <1>1, <2>2, <1>0, <1>t DEF BootLock, BootGoes
  <2>4. x \in BootRecords /\ x.at = "schema" /\ x.create = y.create /\ x.lock = y.lock /\ x.wrote = y.wrote
    BY <2>2, <1>t DEF BootRecords, BootPlaces
  <2>5. BootOK(x, epoch, protoRow, rows, tables)  BY <2>1, <2>4, <1>t DEF BootOK
  <2>6. ~x.lock  BY <2>1, <2>4, <1>t DEF BootOK
  <2> QED BY <2>1, <2>3, <2>4, <2>5, <2>6, BootMoves
<1>2. CASE CreateSchema(b)
  <2>1. y.at = "schema" /\ UNCHANGED <<database, borrower, activator>>  BY <1>2, <1>0 DEF CreateSchema
  <2>a. InTx(y)  BY <2>1 DEF InTx
  <2>2. CASE BootGoes(b, "inspect")
    <3>2. PICK x : x = [y EXCEPT !.at = "inspect"]  OBVIOUS
    <3>3. boot' = [boot EXCEPT ![b] = x]  BY <2>2, <3>2, <1>0, <1>t DEF BootGoes
    <3>4. x \in BootRecords /\ x.at = "inspect" /\ x.create = y.create /\ x.lock = y.lock /\ x.wrote = y.wrote
      BY <3>2, <1>t DEF BootRecords, BootPlaces
    <3>5. BootOK(x, epoch, protoRow, rows, tables) /\ ~x.lock  BY <2>1, <3>4, <1>t DEF BootOK
    <3> QED BY <2>1, <2>a, <1>0, <3>3, <3>4, <3>5, BootMoves
  <2>3. CASE boot' = [boot EXCEPT ![b] = IF y.attempts < MaxTries
                THEN [NewBoot EXCEPT !.attempts = y.attempts + 1]
                ELSE [NewBoot EXCEPT !.at = "raced", !.attempts = y.attempts]]
    <3>1. PICK nb : nb = NewBoot  OBVIOUS
    <3>a. nb \in BootRecords /\ nb.at = "idle" /\ ~nb.lock /\ ~nb.create /\ ~nb.wrote  BY <3>1, NewBootIs
    <3>2. PICK n : n = y.attempts  OBVIOUS
    <3>b. n \in Nat  BY <3>2, <1>t DEF BootRecords
    <3>3. PICK x : x = IF n < MaxTries THEN [nb EXCEPT !.attempts = n + 1]
                       ELSE [nb EXCEPT !.at = "raced", !.attempts = n]
      OBVIOUS
    <3>4. boot' = [boot EXCEPT ![b] = x]  BY <2>3, <3>1, <3>2, <3>3
    <3>5. x \in BootRecords /\ x.at \in {"idle", "raced"} /\ ~x.lock /\ ~x.create /\ ~x.wrote /\ ~InTx(x)
      <4>1. CASE n < MaxTries
        <5>1. x = [nb EXCEPT !.attempts = n + 1]  BY <4>1, <3>3
        <5>2. n + 1 \in Nat  BY <3>b
        <5>3. x \in BootRecords /\ x.at = nb.at /\ x.lock = nb.lock /\ x.create = nb.create /\ x.wrote = nb.wrote
          BY <5>1, <5>2, <3>a DEF BootRecords, BootPlaces
        <5> QED BY <5>3, <3>a DEF InTx
      <4>2. CASE ~(n < MaxTries)
        <5>1. x = [nb EXCEPT !.at = "raced", !.attempts = n]  BY <4>2, <3>3
        <5>3. x \in BootRecords /\ x.at = "raced" /\ x.lock = nb.lock /\ x.create = nb.create /\ x.wrote = nb.wrote
          BY <5>1, <3>b, <3>a DEF BootRecords, BootPlaces
        <5> QED BY <5>3, <3>a DEF InTx
      <4> QED BY <4>1, <4>2
    <3>6. BootOK(x, epoch, protoRow, rows, tables)  BY <3>5 DEF BootOK, InTx
    <3> QED BY <2>1, <3>4, <3>5, <3>6, BootMoves
  <2> QED BY <1>2, <1>0, <2>2, <2>3 DEF CreateSchema
<1>3. CASE InspectPlacement(b)
  <2>1. y.at = "inspect" /\ UNCHANGED <<database, borrower, activator>>  BY <1>3, <1>0 DEF InspectPlacement
  <2>a. InTx(y)  BY <2>1 DEF InTx
  <2>2. PICK x : x = [y EXCEPT !.create = (epoch = 0), !.at = IF epoch = 0 THEN "adopt" ELSE "admit"]  OBVIOUS
  <2>3. boot' = [boot EXCEPT ![b] = x]  BY <1>3, <2>2, <1>0, <1>t DEF InspectPlacement
  <2>4. x \in BootRecords /\ x.at = (IF epoch = 0 THEN "adopt" ELSE "admit") /\ x.create = (epoch = 0)
        /\ x.lock = y.lock /\ x.wrote = y.wrote
    BY <2>2, <1>t DEF BootRecords, BootPlaces
  <2>5. BootOK(x, epoch, protoRow, rows, tables) /\ ~x.lock  BY <2>1, <2>4, <1>t DEF BootOK
  <2> QED BY <2>1, <2>a, <1>0, <2>3, <2>4, <2>5, BootMoves
<1>4. CASE BootAdmit(b)
  <2>1. y.at = "admit" /\ MayShare(FALSE) /\ UNCHANGED <<database, borrower, activator>>
    BY <1>4, <1>0 DEF BootAdmit
  <2>a. InTx(y)  BY <2>1 DEF InTx
  <2>2. CASE epoch = Supported
    <3>2. PICK x : x = [y EXCEPT !.at = "prepare", !.lock = TRUE]  OBVIOUS
    <3>3. boot' = [boot EXCEPT ![b] = x]  BY <1>4, <2>2, <3>2, <1>0, <1>t DEF BootAdmit
    <3>4. x \in BootRecords /\ x.at = "prepare" /\ x.create = y.create /\ x.lock /\ x.wrote = y.wrote
      BY <3>2, <1>t DEF BootRecords, BootPlaces
    <3>5. BootOK(x, epoch, protoRow, rows, tables)  BY <2>1, <2>2, <3>4, <1>t DEF BootOK
    <3>6. activator # "held"  BY <2>1 DEF MayShare
    <3> QED BY <2>1, <2>a, <1>0, <3>3, <3>4, <3>5, <3>6, BootMoves
  <2>3. CASE epoch # Supported
    <3>1. epoch > Supported  BY <2>1, <2>3, <1>t, <1>m DEF BootOK, Supported
    <3>2. BootEnds(b, "failed")  BY <1>4, <2>3 DEF BootAdmit, BootRefused
    <3> QED BY <3>1, <3>2, <2>1, BootEndsKeeps
  <2> QED BY <2>2, <2>3
<1>5. CASE BootAdopt(b)
  <2>1. y.at = "adopt" /\ UNCHANGED <<database, borrower, activator>>  BY <1>5, <1>0 DEF BootAdopt
  <2>a. InTx(y)  BY <2>1 DEF InTx
  <2>2. CASE \A c \in Components : AdoptionSource(c)
    <3>2. PICK x : x = [y EXCEPT !.at = "prepare"]  OBVIOUS
    <3>3. boot' = [boot EXCEPT ![b] = x]  BY <1>5, <2>2, <3>2, <1>0, <1>t DEF BootAdopt, BootGoes
    <3>4. x \in BootRecords /\ x.at = "prepare" /\ x.create = y.create /\ x.lock = y.lock /\ x.wrote = y.wrote
      BY <3>2, <1>t DEF BootRecords, BootPlaces
    <3>5. \A c \in Components : Adoptable(rows[c], tables[c])  BY <2>2 DEF AdoptionSource, Adoptable
    <3>6. BootOK(x, epoch, protoRow, rows, tables) /\ ~x.lock  BY <2>1, <3>4, <3>5, <1>t DEF BootOK
    <3> QED BY <2>1, <2>a, <1>0, <3>3, <3>4, <3>6, BootMoves
  <2>3. CASE ~\A c \in Components : AdoptionSource(c)
    <3>1. epoch = 0  BY <2>1, <1>t DEF BootOK
    <3>2. origin.epoch = 0 /\ origin.rows = rows /\ origin.tables = tables
      BY <3>1, <1>m DEF ProtocolInv, OriginInv
    <3>3. ~Bootstrappable  BY <2>3, <3>2 DEF Bootstrappable, AdoptionSource
    <3>4. BootEnds(b, "failed")  BY <1>5, <2>3 DEF BootAdopt, BootRefused
    <3> QED BY <3>3, <3>4, <2>1, BootEndsKeeps
  <2> QED BY <2>2, <2>3
<1>6. CASE PrepareProtocol(b)
  <2>1. y.at = "prepare" /\ UNCHANGED <<database, borrower, activator>>  BY <1>6, <1>0 DEF PrepareProtocol
  <2>a. InTx(y)  BY <2>1 DEF InTx
  <2>b. y.create \in BOOLEAN /\ (y.create <=> epoch = 0)  BY <2>1, <1>t DEF BootOK, Supported, BootRecords
  <2>2. CASE y.create = (epoch = 0) /\ protoRow = ~y.create
    <3>2. PICK x : x = [y EXCEPT !.at = "migrate", !.wrote = TRUE, !.rows = rows, !.tables = tables]  OBVIOUS
    <3>3. boot' = [boot EXCEPT ![b] = x]  BY <1>6, <2>2, <3>2, <1>0, <1>t DEF PrepareProtocol
    <3>4. x \in BootRecords /\ x.at = "migrate" /\ x.create = y.create /\ x.lock = y.lock /\ x.wrote
          /\ x.rows = rows /\ x.tables = tables
      BY <3>2, <1>t, <1>m DEF BootRecords, BootPlaces
    <3>6. BootOK(x, epoch, protoRow, rows, tables)  BY <2>1, <2>2, <3>4, <1>t DEF BootOK
    <3> QED BY <2>1, <2>a, <1>0, <3>3, <3>4, <3>6, BootMoves
  <2>3. CASE ~(y.create = (epoch = 0) /\ protoRow = ~y.create)
    <3>1. protoRow = y.create  BY <2>3, <2>b, <1>m
    <3>2. ASSUME y.create PROVE ~Bootstrappable
      <4>1. epoch = 0 /\ protoRow = TRUE  BY <3>1, <3>2, <2>b
      <4>2. origin.epoch = 0  BY <4>1, <1>m DEF ProtocolInv, OriginInv
      <4>3. origin.protoRow = protoRow  BY <4>1, Zenon DEF ProtocolInv, OriginInv
      <4>4. ~(origin.epoch = Supported)  BY <4>2 DEF Supported
      <4> QED BY <4>1, <4>3, <4>4, Zenon DEF Bootstrappable
    <3>3. ASSUME ~y.create PROVE ~Bootstrappable
      <4>1. ~protoRow /\ epoch = Supported  BY <3>1, <3>3, <2>1, <1>t DEF BootOK
      <4>2. ~origin.protoRow /\ origin.epoch # 0  BY <4>1, <1>m DEF ProtocolInv, OriginInv, Supported
      <4> QED BY <4>2 DEF Bootstrappable, Supported
    <3>4. ~Bootstrappable  BY <3>2, <3>3
    <3>5. BootEnds(b, "failed")  BY <1>6, <1>0, <2>3 DEF PrepareProtocol, BootRefused
    <3> QED BY <3>4, <3>5, <2>1, BootEndsKeeps
  <2> QED BY <2>2, <2>3
<1>7. CASE MigrateComponents(b)
  <2>1. y.at = "migrate" /\ UNCHANGED <<database, borrower, activator>>  BY <1>7, <1>0 DEF MigrateComponents
  <2>a. InTx(y)  BY <2>1 DEF InTx
  <2>b. y.rows = rows /\ y.tables = tables  BY <2>1, <1>t DEF BootOK
  <2>2. CASE \A c \in Components : ComponentAfter(c, rows[c], tables[c]).ok
    <3>1. PICK nr, nt : /\ nr = [c \in Components |-> ComponentAfter(c, rows[c], tables[c]).row]
                        /\ nt = [c \in Components |-> ComponentAfter(c, rows[c], tables[c]).table]
      OBVIOUS
    <3>2. PICK x : x = [y EXCEPT !.at = "commit", !.rows = nr, !.tables = nt]  OBVIOUS
    <3>3. boot' = [boot EXCEPT ![b] = x]
      BY <1>7, <2>2, <2>b, <3>1, <3>2, <1>0, <1>t DEF MigrateComponents
    <3>n. nr \in [Components -> Layouts] /\ nt \in [Components -> Layouts]
      BY <3>1, <1>m, ComponentAfterIs
    <3>4. x \in BootRecords /\ x.at = "commit" /\ x.create = y.create /\ x.lock = y.lock /\ x.wrote = y.wrote
          /\ x.rows = nr /\ x.tables = nt
      BY <3>2, <3>n, <1>t DEF BootRecords, BootPlaces
    <3>6. BootOK(x, epoch, protoRow, rows, tables)  BY <2>1, <2>2, <3>1, <3>4, <1>t DEF BootOK
    <3> QED BY <2>1, <2>a, <1>0, <3>3, <3>4, <3>6, BootMoves
  <2>3. CASE ~\A c \in Components : ComponentAfter(c, rows[c], tables[c]).ok
    <3>1. PICK c \in Components : ~ComponentAfter(c, rows[c], tables[c]).ok  BY <2>3
    <3>2. ~(rows[c] = "current" /\ tables[c] = "current")  BY <3>1, ComponentAfterIs, <1>m
    <3>3. rows[c] = origin.rows[c] /\ tables[c] = origin.tables[c]  BY <3>2 DEF ProtocolInv, OriginInv
    <3>4. ~Bootstrappable  BY <3>1, <3>3 DEF Bootstrappable
    <3>5. BootEnds(b, "failed")  BY <1>7, <1>0, <2>b, <2>3 DEF MigrateComponents, BootRefused
    <3> QED BY <3>4, <3>5, <2>1, BootEndsKeeps
  <2> QED BY <2>2, <2>3
<1>8. CASE BootBreaks(b)
  BY <1>8, BootEndsKeeps DEF BootBreaks
<1>9. CASE BootAgain(b)
  <2>1. boot' = [boot EXCEPT ![b] = NewBoot] /\ UNCHANGED <<database, borrower, activator>>
    BY <1>9 DEF BootAgain
  <2>2. PICK z : z = NewBoot  OBVIOUS
  <2>3. z \in BootRecords /\ z.at = "idle" /\ ~z.lock /\ ~z.create /\ ~z.wrote  BY <2>2, NewBootIs
  <2>4. ~InTx(z) /\ BootOK(z, epoch, protoRow, rows, tables)  BY <2>3 DEF BootOK, InTx
  <2>5. boot' = [boot EXCEPT ![b] = z]  BY <2>1, <2>2
  <2> QED BY <2>1, <2>3, <2>4, <2>5, BootMoves
<1> QED BY <1>1, <1>2, <1>3, <1>4, <1>5, <1>6, <1>7, <1>8, <1>9


\* A commit: either the installation was there, under the supported epoch, and
\* the lock kept it so, or nothing was there and this bootstrap alone made it.
LEMMA BootCommitKeeps == ASSUME ProtocolInv, NEW b \in Boots, BootCommit(b) PROVE ProtocolInv'
<1>m. MaxEpoch \in Nat \ {0} /\ epoch \in 0 .. MaxEpoch /\ protoRow \in BOOLEAN
      /\ rows \in [Components -> Layouts] /\ tables \in [Components -> Layouts]
  BY ProtocolAssumption DEF ProtocolInv
<1>0. PICK y : y = boot[b]  OBVIOUS
<1>t. y \in BootRecords /\ BootOK(y, epoch, protoRow, rows, tables) /\ boot \in [Boots -> BootRecords]
  BY <1>0 DEF ProtocolInv
<1>1. y.at = "commit" /\ epoch' = (IF y.create THEN Supported ELSE epoch) /\ protoRow' = TRUE
      /\ rows' = y.rows /\ tables' = y.tables /\ UNCHANGED <<borrower, activator, origin>>
  BY <1>0 DEF BootCommit
<1>2. PICK result \in {"done", "broken"} : BootEnds(b, result)  BY DEF BootCommit
<1>3. PICK nb : nb = NewBoot  OBVIOUS
<1>4. PICK n : n = y.attempts  OBVIOUS
<1>5. PICK x : x = [nb EXCEPT !.at = result, !.attempts = n]  OBVIOUS
<1>6. boot' = [boot EXCEPT ![b] = x]  BY <1>0, <1>2, <1>3, <1>4, <1>5 DEF BootEnds
<1>7. n \in Nat  BY <1>4, <1>t DEF BootRecords
<1>8. nb \in BootRecords /\ ~nb.lock /\ ~nb.create /\ ~nb.wrote  BY <1>3, NewBootIs
<1>9. x \in BootRecords /\ x.at = result /\ x.lock = nb.lock /\ x.create = nb.create /\ x.wrote = nb.wrote
  BY <1>5, <1>7, <1>8 DEF BootRecords, BootPlaces
<1>10. ~x.lock /\ ~x.create /\ ~x.wrote /\ ~InTx(x) /\ x.at # "failed"  BY <1>8, <1>9 DEF InTx
<1>11. boot' \in [Boots -> BootRecords] /\ boot'[b] = x /\ \A c \in Boots : c # b => boot'[c] = boot[c]
  BY <1>6, <1>9, <1>t
<1>12. InTx(y)  BY <1>1 DEF InTx
<1>13. \A c \in Boots : ~InTx(boot'[c])
  <2> SUFFICES ASSUME NEW c \in Boots PROVE ~InTx(boot'[c])  OBVIOUS
  <2>1. CASE c = b  BY <2>1, <1>10, <1>11
  <2>2. CASE c # b  BY <2>2, <1>0, <1>11, <1>12 DEF ProtocolInv
  <2> QED BY <2>1, <2>2
<1>14. \A c \in Boots : /\ boot'[c] \in BootRecords /\ ~boot'[c].create /\ ~boot'[c].lock /\ ~boot'[c].wrote
                        /\ BootOK(boot'[c], epoch', protoRow', rows', tables')
  <2> SUFFICES ASSUME NEW c \in Boots
               PROVE /\ boot'[c] \in BootRecords /\ ~boot'[c].create /\ ~boot'[c].lock /\ ~boot'[c].wrote
                     /\ BootOK(boot'[c], epoch', protoRow', rows', tables')
    OBVIOUS
  <2>1. boot'[c].at \notin {"admit", "adopt", "prepare", "migrate", "commit"}  BY <1>13 DEF InTx
  <2>2. boot'[c] \in BootRecords  BY <1>11
  <2>3. ~boot'[c].create /\ ~boot'[c].lock /\ ~boot'[c].wrote
    <3>1. CASE c = b  BY <3>1, <1>10, <1>11
    <3>2. CASE c # b
      <4>1. BootOK(boot[c], epoch, protoRow, rows, tables) /\ boot'[c] = boot[c]  BY <3>2, <1>11 DEF ProtocolInv
      <4> QED BY <4>1, <2>1 DEF BootOK
    <3> QED BY <3>1, <3>2
  <2> QED BY <2>1, <2>2, <2>3 DEF BootOK
<1>15. /\ (y.create => epoch = 0 /\ \A c \in Components : Adoptable(rows[c], tables[c]))
       /\ (~y.create => epoch = Supported)
  BY <1>1, <1>t DEF BootOK
<1>16. epoch' \in 0 .. MaxEpoch /\ epoch <= epoch' /\ epoch' # 0 /\ (epoch # 0 => epoch' = epoch)
  BY <1>1, <1>15, <1>m DEF Supported
<1>17. \A c \in Components : /\ ComponentAfter(c, rows[c], tables[c]).ok
                             /\ y.rows[c] = ComponentAfter(c, rows[c], tables[c]).row
                             /\ y.tables[c] = ComponentAfter(c, rows[c], tables[c]).table
  BY <1>1, <1>t DEF BootOK
<1>18. rows' \in [Components -> Layouts] /\ tables' \in [Components -> Layouts]
  BY <1>1, <1>t DEF BootRecords
<1>19. \A c \in Components :
         \/ rows'[c] = rows[c] /\ tables'[c] = tables[c]
         \/ rows'[c] = "current" /\ tables'[c] = "current"
  <2> SUFFICES ASSUME NEW c \in Components
               PROVE \/ rows'[c] = rows[c] /\ tables'[c] = tables[c]
                     \/ rows'[c] = "current" /\ tables'[c] = "current"
    OBVIOUS
  <2>1. rows[c] \in Layouts /\ tables[c] \in Layouts  BY <1>m
  <2>2. /\ ComponentAfter(c, rows[c], tables[c]).ok
        /\ rows'[c] = ComponentAfter(c, rows[c], tables[c]).row
        /\ tables'[c] = ComponentAfter(c, rows[c], tables[c]).table
    BY <1>1, <1>17
  <2>3. \/ /\ ComponentAfter(c, rows[c], tables[c]).row = rows[c]
           /\ ComponentAfter(c, rows[c], tables[c]).table = tables[c]
        \/ /\ ComponentAfter(c, rows[c], tables[c]).row = "current"
           /\ ComponentAfter(c, rows[c], tables[c]).table = "current"
    BY <2>1, <2>2, ComponentAfterIs
  <2> QED BY <2>2, <2>3
<1>20. \A c \in Components : (Adoptable(rows[c], tables[c]) \/ (rows[c] = "current" /\ tables[c] = "current")) =>
         rows'[c] = "current" /\ tables'[c] = "current"
  <2> SUFFICES ASSUME NEW c \in Components,
                      Adoptable(rows[c], tables[c]) \/ (rows[c] = "current" /\ tables[c] = "current")
               PROVE rows'[c] = "current" /\ tables'[c] = "current"
    OBVIOUS
  <2>1. rows[c] \in Layouts /\ tables[c] \in Layouts  BY <1>m
  <2>2. /\ rows'[c] = ComponentAfter(c, rows[c], tables[c]).row
        /\ tables'[c] = ComponentAfter(c, rows[c], tables[c]).table
    BY <1>1, <1>17
  <2>3. /\ ComponentAfter(c, rows[c], tables[c]).row = "current"
        /\ ComponentAfter(c, rows[c], tables[c]).table = "current"
    BY <2>1 DEF ComponentAfter, Adoptable, Layouts
  <2> QED BY <2>2, <2>3
<1>21. OriginInv'
  <2>1. /\ origin.epoch \in 0 .. MaxEpoch /\ origin.epoch <= epoch
        /\ origin.protoRow \in BOOLEAN
        /\ (epoch = 0 => origin.rows = rows /\ origin.tables = tables)
    BY DEF ProtocolInv, OriginInv
  <2>2. origin.epoch <= epoch'  BY <2>1, <1>16, <1>m
  <2>3. \A c \in Components : \/ rows'[c] = origin.rows[c] /\ tables'[c] = origin.tables[c]
                              \/ rows'[c] = "current" /\ tables'[c] = "current"
    <3> SUFFICES ASSUME NEW c \in Components
                 PROVE \/ rows'[c] = origin.rows[c] /\ tables'[c] = origin.tables[c]
                       \/ rows'[c] = "current" /\ tables'[c] = "current"
      OBVIOUS
    <3>1. \/ rows[c] = origin.rows[c] /\ tables[c] = origin.tables[c]
          \/ rows[c] = "current" /\ tables[c] = "current"
      BY DEF ProtocolInv, OriginInv
    <3> QED BY <3>1, <1>19, <1>20
  <2>4. ASSUME origin.epoch = 0
        PROVE \A c \in Components : /\ rows'[c] = "current" /\ tables'[c] = "current"
                                    /\ Adoptable(origin.rows[c], origin.tables[c])
    <3> SUFFICES ASSUME NEW c \in Components
                 PROVE /\ rows'[c] = "current" /\ tables'[c] = "current"
                       /\ Adoptable(origin.rows[c], origin.tables[c])
      OBVIOUS
    <3>1. CASE y.create
      <4>1. Adoptable(rows[c], tables[c]) /\ origin.rows = rows /\ origin.tables = tables
        BY <3>1, <1>15, <2>1
      <4> QED BY <4>1, <1>20
    <3>2. CASE ~y.create
      <4>1. rows[c] = "current" /\ tables[c] = "current" /\ Adoptable(origin.rows[c], origin.tables[c])
        BY <3>2, <1>15, <2>4 DEF ProtocolInv, OriginInv, Supported
      <4> QED BY <4>1, <1>20
    <3> QED BY <3>1, <3>2
  <2> QED BY <2>1, <2>2, <2>3, <2>4, <1>1, <1>16 DEF OriginInv
<1>22. \A s \in Borrowers : SessionOK(borrower[s], epoch')
  <2> SUFFICES ASSUME NEW s \in Borrowers PROVE SessionOK(borrower[s], epoch')  OBVIOUS
  <2>1. SessionOK(borrower[s], epoch)  BY DEF ProtocolInv
  <2> QED BY <2>1, <1>16 DEF SessionOK, Supported
<1>23. (\E c \in Boots : boot'[c].at = "failed") => ~Bootstrappable' \/ epoch' > Supported
  <2> SUFFICES ASSUME NEW c \in Boots, boot'[c].at = "failed" PROVE ~Bootstrappable' \/ epoch' > Supported
    OBVIOUS
  <2>1. c # b  BY <1>10, <1>11
  <2>2. ~Bootstrappable \/ epoch > Supported  BY <2>1, <1>11 DEF ProtocolInv
  <2>3. Bootstrappable <=> Bootstrappable'  BY <1>1 DEF Bootstrappable
  <2>4. CASE epoch > Supported  BY <2>4, <1>16, <1>m DEF Supported
  <2> QED BY <2>2, <2>3, <2>4
<1>24. activator' \in {"none", "waiting", "held"}
       /\ (activator' = "held" => (\A s \in Borrowers : borrower'[s].lock = "none") /\ \A c \in Boots : ~boot'[c].lock)
  <2>1. activator \in {"none", "waiting", "held"} /\ (activator = "held" => \A s \in Borrowers : borrower[s].lock = "none")
    BY DEF ProtocolInv
  <2> QED BY <2>1, <1>1, <1>14
<1>25. borrower' \in [Borrowers -> SessionRecords] /\ borrower' = borrower /\ protoRow' \in BOOLEAN
  BY <1>1 DEF ProtocolInv
<1> QED BY <1>11, <1>13, <1>14, <1>16, <1>18, <1>21, <1>22, <1>23, <1>24, <1>25 DEF ProtocolInv

-----------------------------------------------------------------------------
(* Activation.                                                               *)

\* An activation changes the epoch when nobody holds the relation, so nobody is
\* admitted, has worked or has found the installation there.
LEMMA ActivateKeeps == ASSUME ProtocolInv, Activate PROVE ProtocolInv'
<1>m. MaxEpoch \in Nat \ {0} /\ epoch \in 0 .. MaxEpoch /\ epoch \in 1 .. MaxEpoch - 1
  BY ProtocolAssumption DEF ProtocolInv, Activate
<1>1. UNCHANGED <<protoRow, rows, tables, borrower, boot, origin>>  BY DEF Activate
<1>2. CASE UNCHANGED epoch
  <2>1. activator' \in {"none", "waiting", "held"}
        /\ (activator' = "held" => SharedHolders = {} \/ activator = "held")
    BY <1>2, <1>m DEF Activate
  <2>2. activator' = "held" => (\A s \in Borrowers : borrower[s].lock = "none") /\ \A c \in Boots : ~boot[c].lock
    BY <2>1 DEF SharedHolders, ProtocolInv
  <2>3. OriginInv' /\ (Bootstrappable <=> Bootstrappable')  BY <1>1, <1>2 DEF OriginInv, Bootstrappable, ProtocolInv
  <2> QED BY <2>1, <2>2, <2>3, <1>1, <1>2 DEF ProtocolInv
<1>3. CASE activator = "held" /\ activator' = "none" /\ epoch' = epoch + 1
  <2>1. (\A s \in Borrowers : borrower[s].lock = "none") /\ \A c \in Boots : ~boot[c].lock
    BY <1>3 DEF ProtocolInv
  <2>2. epoch' \in 0 .. MaxEpoch /\ epoch' > Supported /\ epoch # 0  BY <1>3, <1>m DEF Supported
  <2>3. \A s \in Borrowers : SessionOK(borrower[s], epoch')
    <3> SUFFICES ASSUME NEW s \in Borrowers PROVE SessionOK(borrower[s], epoch')  OBVIOUS
    <3>1. SessionOK(borrower[s], epoch) /\ borrower[s].lock = "none"  BY <2>1 DEF ProtocolInv
    <3> QED BY <3>1 DEF SessionOK
  <2>4. \A c \in Boots : BootOK(boot[c], epoch', protoRow, rows, tables)
    <3> SUFFICES ASSUME NEW c \in Boots PROVE BootOK(boot[c], epoch', protoRow, rows, tables)  OBVIOUS
    <3>1. BootOK(boot[c], epoch, protoRow, rows, tables) /\ ~boot[c].lock  BY <2>1 DEF ProtocolInv
    <3>2. ~boot[c].create  BY <3>1, <2>2 DEF BootOK
    <3>3. boot[c].at \notin {"adopt", "prepare", "migrate", "commit"}  BY <3>1, <3>2 DEF BootOK
    <3>4. epoch' # 0  BY <2>2 DEF Supported
    <3> QED BY <3>1, <3>2, <3>3, <3>4 DEF BootOK
  <2>5. OriginInv'
    <3>1. origin.epoch \in 0 .. MaxEpoch /\ origin.epoch <= epoch  BY DEF ProtocolInv, OriginInv
    <3>2. origin.epoch <= epoch' /\ epoch' # 0  BY <3>1, <1>3, <1>m
    <3> QED BY <3>1, <3>2, <2>2, <1>1 DEF ProtocolInv, OriginInv
  <2> QED BY <2>1, <2>2, <2>3, <2>4, <2>5, <1>1, <1>3 DEF ProtocolInv
<1> QED BY <1>2, <1>3 DEF Activate

-----------------------------------------------------------------------------
(* The theorems.                                                             *)

\* Every step keeps the invariant.
LEMMA ProtocolNextKeeps == ProtocolInv /\ [ProtocolNext]_protocolVars => ProtocolInv'
<1> SUFFICES ASSUME ProtocolInv, [ProtocolNext]_protocolVars PROVE ProtocolInv'  OBVIOUS
<1>1. CASE Activate  BY <1>1, ActivateKeeps
<1>2. CASE \E s \in Borrowers : SessionStep(s)  BY <1>2, SessionStepKeeps
<1>3. CASE \E b \in Boots : BootStep(b)
  <2>1. PICK b \in Boots : BootStep(b)  BY <1>3
  <2>2. CASE BootCommit(b)  BY <2>2, BootCommitKeeps
  <2> QED BY <2>1, <2>2, BootWorks DEF BootStep
<1>4. CASE UNCHANGED protocolVars
  <2>1. UNCHANGED <<epoch, protoRow, rows, tables, borrower, activator, boot, origin>>  BY <1>4 DEF protocolVars
  <2>2. OriginInv' /\ (Bootstrappable <=> Bootstrappable')  BY <2>1 DEF OriginInv, Bootstrappable, ProtocolInv
  <2> QED BY <2>1, <2>2 DEF ProtocolInv
<1> QED BY <1>1, <1>2, <1>3, <1>4 DEF ProtocolNext

\* The invariant of admission and bootstrap holds in every reachable state.
THEOREM ProtocolInvariance == ProtocolSpec => []ProtocolInv
<1>1. ProtocolInit => ProtocolInv  BY ProtocolInitInv
<1>2. ProtocolInv /\ [ProtocolNext]_protocolVars => ProtocolInv'  BY ProtocolNextKeeps
<1> QED BY <1>1, <1>2, PTL DEF ProtocolSpec

\* Whatever is done through a transaction that was admitted, or through a
\* bootstrap that found the relation, is done under the supported epoch.
THEOREM ProtocolAdmission == ProtocolSpec => []WorkIsUnderSupportedEpoch
<1>1. ProtocolInv => WorkIsUnderSupportedEpoch
  <2> SUFFICES ASSUME ProtocolInv PROVE WorkIsUnderSupportedEpoch  OBVIOUS
  <2>1. \A s \in Borrowers : borrower[s].at = "admitted" \/ borrower[s].work # "none" => epoch = Supported
    BY DEF ProtocolInv, SessionOK
  <2>2. \A b \in Boots : boot[b].wrote /\ ~boot[b].create => epoch = Supported
    <3> SUFFICES ASSUME NEW b \in Boots, boot[b].wrote, ~boot[b].create PROVE epoch = Supported  OBVIOUS
    <3>1. BootOK(boot[b], epoch, protoRow, rows, tables)  BY DEF ProtocolInv
    <3>2. boot[b].at \in {"migrate", "commit"}  BY <3>1 DEF BootOK
    <3> QED BY <3>1, <3>2 DEF BootOK
  <2> QED BY <2>1, <2>2 DEF WorkIsUnderSupportedEpoch
<1> QED BY <1>1, ProtocolInvariance, PTL

\* Bootstrap: a relation it created stands for a complete installation, nothing
\* unknown was taken over and no bootstrap is refused without a cause.
THEOREM ProtocolBootstrap == ProtocolSpec => []BootstrapIsSound
<1>1. ProtocolInv => BootstrapIsSound
  <2> SUFFICES ASSUME ProtocolInv PROVE BootstrapIsSound  OBVIOUS
  <2>1. ProtocolTypeOK
    <3>1. \A s \in Borrowers : borrower[s] \in SessionRecords /\ SessionOK(borrower[s], epoch)  BY DEF ProtocolInv
    <3>2. \A s \in Borrowers :
            /\ borrower[s].at \in {"idle", "open", "selecting", "admitted"}
            /\ borrower[s].lock \in {"none", "base", "inner"}
            /\ borrower[s].lock = "inner" => borrower[s].savepoint
            /\ borrower[s].at \in {"selecting", "admitted"} => borrower[s].lock # "none"
      BY <3>1 DEF SessionRecords, SessionOK
    <3>3. activator = "held" => SharedHolders = {}  BY DEF ProtocolInv, SharedHolders
    <3> QED BY <3>2, <3>3 DEF ProtocolTypeOK, ProtocolInv
  <2>2. CreatedProtocolIsComplete /\ UnknownStateIsNotAdopted
    BY DEF ProtocolInv, OriginInv, Adoptable, CreatedProtocolIsComplete, UnknownStateIsNotAdopted
  <2>3. RefusalHasACause  BY DEF ProtocolInv, RefusalHasACause
  <2> QED BY <2>1, <2>2, <2>3 DEF BootstrapIsSound
<1> QED BY <1>1, ProtocolInvariance, PTL


-----------------------------------------------------------------------------
(* The schema ledger.  A migration holds the row of its component from the   *)
(* planning to its end, so what it planned from is still recorded when it    *)
(* commits; its plan is a chain that leads from there to its own target, so  *)
(* every step finds the tables it was written for.                           *)

\* A chain of steps from one target to another, without a choice on the way.
Chain(r, p, from, to) ==
    /\ p \in Seq([from : Targets, to : Targets]) /\ Len(p) > 0
    /\ p[1].from = from /\ p[Len(p)].to = to
    /\ \A i \in 1 .. Len(p) - 1 : p[i].to = p[i + 1].from
    /\ \A i \in 1 .. Len(p) : \E k \in DOMAIN r.steps : Leaving(r, p[i].from) = {k} /\ p[i] = r.steps[k]
    /\ \A i, j \in 1 .. Len(p) : i < j => Version(p[i].from) < Version(p[j].from)

\* Chains from t to the current target, in whatever order their versions are.
Path(r, p, t) ==
    /\ p \in Seq([from : Targets, to : Targets]) /\ Len(p) > 0
    /\ p[1].from = t /\ p[Len(p)].to = r.current
    /\ \A i \in 1 .. Len(p) - 1 : p[i].to = p[i + 1].from
    /\ \A i \in 1 .. Len(p) : \E k \in DOMAIN r.steps : Leaving(r, p[i].from) = {k} /\ p[i] = r.steps[k]

MigrationPlaces ==
    {"idle", "ledger", "claim", "lock", "plan", "run", "validate", "record", "commit", "ok", "refused", "failed"}

MigrationRecord(x) ==
    x \in [at : MigrationPlaces, calls : {x.calls}, made : BOOLEAN, claimed : BOOLEAN, locked : BOOLEAN,
           recorded : {None} \cup Targets, row : {None} \cup Targets, plan : {x.plan}, physical : {x.physical},
           altered : BOOLEAN]

HoldsRow(x) == x.claimed \/ x.locked

\* What the plan of x decides.
KindOf(r, x) == PlanCompatible(r, x.recorded).kind

Alters(r, x) == KindOf(r, x) \in {"fresh", "upgrade"}

\* A migration x built with r over the committed row w.
MigrationOK(x, r, w, lm) ==
    /\ MigrationRecord(x)
    /\ HoldsRow(x) <=> x.at \in {"plan", "run", "validate", "record", "commit"}
    /\ x.claimed => w = None /\ x.recorded = None
    /\ x.locked /\ ~x.claimed => w # None /\ x.recorded = w
    /\ x.at = "lock" => w # None
    /\ x.at \in {"ledger", "claim", "lock"} => x.recorded = None
    /\ x.at \notin {"idle", "ledger", "ok", "refused", "failed"} => lm \/ x.made
    /\ x.altered => x.at \in {"run", "validate", "record", "commit"} /\ x.recorded \notin r.prepared
    /\ x.at = "run" => /\ Alters(r, x)
                       /\ IF x.recorded = None THEN ~x.altered
                          ELSE Path(r, x.plan, IF x.altered THEN x.physical ELSE w)
    /\ x.at = "validate" => IF x.altered THEN Alters(r, x) /\ x.physical = r.current
                            ELSE KindOf(r, x) \in {"current", "prepared"}
    /\ x.at = "record" => x.altered
    /\ x.at \in {"record", "commit"} /\ x.altered => Alters(r, x) /\ x.physical = r.current
    /\ x.at = "commit" /\ x.altered => x.row = r.current
    /\ x.at = "refused" => KindOf(r, x) = "refused"

LedgerInv ==
    /\ release \in [Migrators -> Releases] /\ ledgerMade \in BOOLEAN
    /\ row \in {None} \cup Targets /\ physical = row /\ (row # None => ledgerMade)
    /\ mig = [m \in Migrators |-> mig[m]]
    /\ \A m \in Migrators : MigrationOK(mig[m], release[m], row, ledgerMade)
    /\ \A m, o \in Migrators : (HoldsRow(mig[m]) /\ HoldsRow(mig[o])) => m = o

-----------------------------------------------------------------------------
(* The planner.                                                              *)

\* A set of numbers has a smallest one.
LEMMA LeastOf ==
  ASSUME NEW S \in SUBSET Nat, S # {}
  PROVE \E least \in S : \A n \in S : least <= n
<1>1. PICK R : IsWellFoundedOn(R, Nat) /\ \A x, y \in Nat : y < x => <<y, x>> \in R
  <2>1. \A x, y \in Nat : y < x => <<y, x>> \in OpToRel(<, Nat)  BY DEF OpToRel
  <2> QED BY <2>1, NatLessThanWellFounded
<1>2. PICK x \in S : \A y \in S : ~(<<y, x>> \in R)  BY <1>1, WFMin
<1>3. ASSUME NEW y \in S PROVE x <= y
  <2>1. x \in Nat /\ y \in Nat /\ <<y, x>> \notin R  BY <1>2
  <2>2. ~(y < x)  BY <1>1, <2>1
  <2> QED BY <2>1, <2>2
<1> QED BY <1>3

\* What the loop does at a cursor, with f for what it does further on.
Onwards(r, f, cursor) ==
    IF \E i \in DOMAIN r.steps : Leaving(r, cursor) = {i}
       THEN Onward(r, f, CHOOSE i \in DOMAIN r.steps : Leaving(r, cursor) = {i})
       ELSE Refused

\* The steps of a release are between targets; its own target is one.
LEMMA StepsAre ==
  ASSUME NEW r \in Releases
  PROVE /\ r.current \in Targets /\ Version(r.current) \in Nat
        /\ r.steps \in Seq([from : Targets, to : Targets])
        /\ \A i \in DOMAIN r.steps :
             /\ i \in Nat /\ r.steps[i] \in [from : Targets, to : Targets]
             /\ r.steps[i].from \in Targets /\ r.steps[i].to \in Targets
             /\ Version(r.steps[i].from) \in Nat /\ Version(r.steps[i].to) \in Nat
<1>1. r.current \in ReleaseTargets(r)  BY DEF ReleaseTargets
<1>2. r.current \in Targets  BY <1>1 DEF Targets
<1>3. r.steps \in Seq([from : Targets, to : Targets])  BY LedgerAssumption
<1>4. ASSUME NEW i \in DOMAIN r.steps
      PROVE i \in Nat /\ r.steps[i] \in [from : Targets, to : Targets]
  <2>1. PICK S : S = [from : Targets, to : Targets]  OBVIOUS
  <2>2. PICK p : p = r.steps  OBVIOUS
  <2>3. p \in Seq(S) /\ i \in DOMAIN p  BY <2>1, <2>2, <1>3
  <2>4. i \in Nat /\ p[i] \in S  BY <2>3
  <2> QED BY <2>1, <2>2, <2>4
<1>5. \A t \in Targets : Version(t) \in Nat  BY LedgerAssumption
<1>6. ASSUME NEW i \in DOMAIN r.steps PROVE r.steps[i].from \in Targets /\ r.steps[i].to \in Targets
  BY <1>4
<1> QED BY <1>2, <1>3, <1>4, <1>5, <1>6

\* The step that alone leads away from a cursor.
LEMMA LoneStep ==
  ASSUME NEW r \in Releases, NEW cursor, NEW k \in DOMAIN r.steps, Leaving(r, cursor) = {k}
  PROVE /\ (CHOOSE i \in DOMAIN r.steps : Leaving(r, cursor) = {i}) = k
        /\ r.steps[k].from = cursor
        /\ \A f : Onwards(r, f, cursor) = Onward(r, f, k)
<1>1. \A i : Leaving(r, cursor) = {i} => i = k  OBVIOUS
<1>2. (CHOOSE i \in DOMAIN r.steps : Leaving(r, cursor) = {i}) = k  BY <1>1
<1>3. k \in Leaving(r, cursor)  OBVIOUS
<1>4. r.steps[k].from = cursor  BY <1>3 DEF Leaving
<1>5. ASSUME NEW f PROVE Onwards(r, f, cursor) = Onward(r, f, k)  BY <1>2 DEF Onwards
<1> QED BY <1>2, <1>4, <1>5

\* What the loop does at a cursor depends only on what it does between the
\* cursor and the current version.
LEMMA OnwardsAgrees ==
  ASSUME NEW r \in Releases, Valid(r), NEW cursor \in Targets, NEW f, NEW g,
         \A t \in Targets : Version(t) > Version(cursor) /\ Version(t) < Version(r.current) => f[t] = g[t]
  PROVE Onwards(r, f, cursor) = Onwards(r, g, cursor)
<1>1. CASE ~\E i \in DOMAIN r.steps : Leaving(r, cursor) = {i}  BY <1>1 DEF Onwards
<1>2. CASE \E i \in DOMAIN r.steps : Leaving(r, cursor) = {i}
  <2>1. PICK k \in DOMAIN r.steps : Leaving(r, cursor) = {k}  BY <1>2
  <2>2. PICK step : step = r.steps[k]  OBVIOUS
  <2>a. r.steps[k].from = cursor  BY <2>1, LoneStep
  <2>b. r.steps[k].to \in Targets  BY <2>1, StepsAre
  <2>c. Version(r.steps[k].to) > Version(r.steps[k].from)  BY <2>1 DEF Valid
  <2>3. step.from = cursor /\ step.to \in Targets /\ Version(step.to) > Version(step.from)
    BY <2>2, <2>a, <2>b, <2>c
  <2>4. Version(step.to) \in Nat /\ Version(r.current) \in Nat  BY <2>3, StepsAre, LedgerAssumption
  <2>5. ~(Version(step.to) >= Version(r.current)) => f[step.to] = g[step.to]  BY <2>3, <2>4
  <2>6. Onward(r, f, k) = Onward(r, g, k)  BY <2>2, <2>5 DEF Onward
  <2> QED BY <2>1, <2>6, LoneStep
<1> QED BY <1>1, <1>2

\* The targets at most n versions below the current one, and the loop from them.
Within(r, n) == {t \in Targets : Version(t) + n >= Version(r.current)}

WalkFrom(r, n, f) == f = [t \in Within(r, n) |-> Onwards(r, f, t)]

\* The loop is defined from every target, because versions grow along the steps.
LEMMA WalkExists ==
  ASSUME NEW r \in Releases, Valid(r), NEW n \in Nat
  PROVE \E f : WalkFrom(r, n, f)
<1> SUFFICES ASSUME \A f : ~WalkFrom(r, n, f) PROVE FALSE  OBVIOUS
<1>1. PICK S : S = {i \in Nat : \A f : ~WalkFrom(r, i, f)}  OBVIOUS
<1>2. S \in SUBSET Nat /\ S # {}  BY <1>1
<1>3. PICK least \in S : \A i \in S : least <= i  BY <1>2, LeastOf
<1>4. least \in Nat /\ \A f : ~WalkFrom(r, least, f)  BY <1>1, <1>3
<1>v. \A t \in Targets : Version(t) \in Nat  BY LedgerAssumption
<1>c. Version(r.current) \in Nat  BY StepsAre
<1>5. PICK f : \A t \in Within(r, least) : \A u \in Targets :
          Version(u) > Version(t) /\ Version(u) < Version(r.current) =>
             u \in Within(r, least) /\ f[u] = Onwards(r, f, u)
  <2>1. CASE least = 0
    <3>1. \A t \in Within(r, least) : Version(t) >= Version(r.current)  BY <2>1, <1>v, <1>c DEF Within
    <3> QED BY <3>1, <1>v, <1>c DEF Within
  <2>2. CASE least # 0
    <3>1. PICK i : i = least - 1  OBVIOUS
    <3>2. i \in Nat /\ i < least  BY <3>1, <2>2, <1>4
    <3>3. i \notin S  BY <3>2, <1>3, <1>4
    <3>4. PICK f : WalkFrom(r, i, f)  BY <3>2, <3>3, <1>1
    <3>5. ASSUME NEW t \in Within(r, least), NEW u \in Targets, Version(u) > Version(t)
          PROVE u \in Within(r, i) /\ u \in Within(r, least)
      BY <3>1, <3>2, <3>5, <1>v, <1>c, <1>4 DEF Within
    <3>6. \A u \in Within(r, i) : f[u] = Onwards(r, f, u)  BY <3>4 DEF WalkFrom
    <3> QED BY <3>5, <3>6
  <2> QED BY <2>1, <2>2
<1>6. PICK g : g = [t \in Within(r, least) |-> Onwards(r, f, t)]  OBVIOUS
<1>7. ASSUME NEW t \in Within(r, least) PROVE Onwards(r, g, t) = Onwards(r, f, t)
  <2>1. t \in Targets  BY DEF Within
  <2>2. \A u \in Targets : Version(u) > Version(t) /\ Version(u) < Version(r.current) => g[u] = f[u]
    BY <1>5, <1>6
  <2> QED BY <2>1, <2>2, OnwardsAgrees
<1>8. g = [t \in Within(r, least) |-> Onwards(r, g, t)]  BY <1>6, <1>7
<1>9. WalkFrom(r, least, g)  BY <1>8 DEF WalkFrom
<1> QED BY <1>4, <1>9

\* So Walk is what its definition says at every target.
LEMMA WalkIs ==
  ASSUME NEW r \in Releases, Valid(r)
  PROVE \A t \in Targets : Walk(r)[t] = Onwards(r, Walk(r), t)
<1>1. PICK n \in Nat : n = Version(r.current)  BY StepsAre
<1>2. Within(r, n) = Targets
  <2>1. \A t \in Targets : Version(t) + n >= Version(r.current)  BY <1>1, LedgerAssumption
  <2> QED BY <2>1 DEF Within
<1>3. \E f : f = [t \in Targets |-> Onwards(r, f, t)]
  <2>1. PICK f : WalkFrom(r, n, f)  BY WalkExists
  <2> QED BY <2>1, <1>2 DEF WalkFrom
<1>4. Walk(r) = CHOOSE f : f = [t \in Targets |-> Onwards(r, f, t)]  BY DEF Walk, Onwards
<1>5. Walk(r) = [t \in Targets |-> Onwards(r, Walk(r), t)]  BY <1>3, <1>4
<1> QED BY <1>5


\* A single step is a chain; a chain can be preceded by a step that leads to its
\* beginning.
LEMMA ChainOfOne ==
  ASSUME NEW r \in Releases, NEW k \in DOMAIN r.steps, NEW p, p = <<r.steps[k]>>,
         Leaving(r, r.steps[k].from) = {k}
  PROVE Chain(r, p, r.steps[k].from, r.steps[k].to)
<1>1. PICK S : S = [from : Targets, to : Targets]  OBVIOUS
<1>2. PICK step : step = r.steps[k]  OBVIOUS
<1>3. step \in S  BY <1>1, <1>2, StepsAre
<1>4. p \in Seq(S) /\ Len(p) = 1 /\ p[1] = step  BY <1>2, <1>3
<1>5. \A i \in 1 .. Len(p) : i = 1  BY <1>4
<1> QED BY <1>1, <1>2, <1>4, <1>5 DEF Chain

\* A chain with the only step that leads to its start put before it is a chain.
LEMMA ChainGrows ==
  ASSUME NEW r \in Releases, NEW k \in DOMAIN r.steps, NEW p, NEW end, Leaving(r, r.steps[k].from) = {k},
         Chain(r, p, r.steps[k].to, end), Version(r.steps[k].to) > Version(r.steps[k].from),
         NEW q, q = <<r.steps[k]>> \o p
  PROVE Chain(r, q, r.steps[k].from, end)
<1>1. PICK S : S = [from : Targets, to : Targets]  OBVIOUS
<1>2. PICK step : step = r.steps[k]  OBVIOUS
<1>3. step \in S  BY <1>1, <1>2, StepsAre
<1>4. p \in Seq(S) /\ Len(p) \in Nat /\ Len(p) > 0  BY <1>1 DEF Chain
<1>5. q \in Seq(S) /\ Len(q) = Len(p) + 1 /\ q[1] = step  BY <1>2, <1>3, <1>4
<1>6. \A i \in 1 .. Len(p) : q[i + 1] = p[i]  BY <1>2, <1>3, <1>4
<1>7. \A i \in 1 .. Len(q) : i = 1 \/ (i - 1 \in 1 .. Len(p) /\ q[i] = p[i - 1])
  <2> SUFFICES ASSUME NEW i \in 1 .. Len(q), i # 1 PROVE i - 1 \in 1 .. Len(p) /\ q[i] = p[i - 1]  OBVIOUS
  <2>1. PICK j : j = i - 1  OBVIOUS
  <2>2. j \in 1 .. Len(p) /\ j + 1 = i  BY <2>1, <1>4, <1>5
  <2> QED BY <2>1, <2>2, <1>6
<1>8. p[1].from = step.to /\ p[Len(p)].to = end
      /\ (\A i \in 1 .. Len(p) - 1 : p[i].to = p[i + 1].from)
      /\ (\A i \in 1 .. Len(p) : \E l \in DOMAIN r.steps : Leaving(r, p[i].from) = {l} /\ p[i] = r.steps[l])
      /\ (\A i, j \in 1 .. Len(p) : i < j => Version(p[i].from) < Version(p[j].from))
  BY <1>2 DEF Chain
<1>9. q[1].from = step.from /\ q[Len(q)].to = end
  <2>1. Len(p) \in 1 .. Len(p)  BY <1>4
  <2>2. q[Len(p) + 1] = p[Len(p)]  BY <2>1, <1>6
  <2> QED BY <2>2, <1>5, <1>8
<1>10. ASSUME NEW i \in 1 .. Len(q) - 1 PROVE q[i].to = q[i + 1].from
  <2>1. i \in 1 .. Len(p) /\ q[i + 1] = p[i]  BY <1>4, <1>5, <1>6
  <2>2. CASE i = 1  BY <2>1, <2>2, <1>5, <1>8
  <2>3. CASE i # 1
    <3>1. i \in 1 .. Len(q)  BY <1>4, <1>5
    <3>2. PICK j : j = i - 1  OBVIOUS
    <3>3. j \in 1 .. Len(p) - 1 /\ j + 1 = i /\ q[i] = p[j]  BY <3>1, <3>2, <2>1, <2>3, <1>4, <1>7
    <3>4. p[j].to = p[j + 1].from  BY <3>3, <1>8
    <3> QED BY <3>3, <3>4, <2>1
  <2> QED BY <2>2, <2>3
<1>11. ASSUME NEW i \in 1 .. Len(q) PROVE \E l \in DOMAIN r.steps : Leaving(r, q[i].from) = {l} /\ q[i] = r.steps[l]
  <2>1. CASE i = 1  BY <2>1, <1>2, <1>5
  <2>2. CASE i # 1
    <3>1. PICK j \in 1 .. Len(p) : q[i] = p[j]  BY <2>2, <1>7
    <3> QED BY <3>1, <1>8
  <2> QED BY <2>1, <2>2
<1>12. ASSUME NEW j \in 1 .. Len(p) PROVE Version(step.from) < Version(p[j].from)
  <2>0. Version(step.to) > Version(step.from)  BY <1>2
  <2>1. CASE j = 1  BY <2>0, <2>1, <1>8, StepsAre, <1>2
  <2>2. CASE j # 1
    <3>1. 1 \in 1 .. Len(p) /\ 1 < j  BY <2>2, <1>4
    <3>2. Version(p[1].from) < Version(p[j].from)  BY <3>1, <1>8
    <3>3. PICK l \in DOMAIN r.steps : p[j] = r.steps[l]  BY <1>8
    <3>4. Version(p[j].from) \in Nat /\ Version(step.from) \in Nat /\ Version(step.to) \in Nat
      BY <3>3, <1>2, StepsAre
    <3>5. Version(step.to) < Version(p[j].from)  BY <3>2, <1>8
    <3> QED BY <3>4, <3>5, <2>0
  <2> QED BY <2>1, <2>2
<1>13. ASSUME NEW i \in 1 .. Len(q), NEW j \in 1 .. Len(q), i < j PROVE Version(q[i].from) < Version(q[j].from)
  <2>1. i \in Nat /\ j \in Nat /\ j # 1  BY <1>13, <1>4, <1>5
  <2>2. PICK m : m = j - 1  OBVIOUS
  <2>3. m \in 1 .. Len(p) /\ q[j] = p[m]  BY <2>1, <2>2, <1>7
  <2>4. CASE i = 1  BY <2>3, <2>4, <1>5, <1>12
  <2>5. CASE i # 1
    <3>1. PICK l : l = i - 1  OBVIOUS
    <3>2. l \in 1 .. Len(p) /\ q[i] = p[l]  BY <2>5, <3>1, <1>7
    <3>3. l < m  BY <3>1, <2>1, <2>2, <1>13
    <3> QED BY <3>2, <3>3, <2>3, <1>8
  <2> QED BY <2>4, <2>5
<1>14. Len(q) > 0  BY <1>4, <1>5
<1> QED BY <1>1, <1>2, <1>5, <1>9, <1>10, <1>11, <1>13, <1>14 DEF Chain

\* What Walk finds from t: nothing, or a chain to the current target.
Found(r, t) ==
    /\ Walk(r)[t].kind \in {"refused", "upgrade"}
    /\ Walk(r)[t].kind = "upgrade" => Chain(r, Walk(r)[t].steps, t, r.current)

\* From a target with a lone step below the current version, Walk goes on from
\* where the step leads, which is closer.
LEMMA WalkFollows ==
  ASSUME NEW r \in Releases, Valid(r), NEW t \in Targets, NEW k \in DOMAIN r.steps, Leaving(r, t) = {k}
  PROVE /\ r.steps[k].from = t /\ r.steps[k].to \in Targets
        /\ Version(t) < Version(r.steps[k].to) /\ Version(r.steps[k].to) <= Version(r.current)
        /\ Walk(r)[t] = Onward(r, Walk(r), k)
        /\ \A n \in Nat : t \in Within(r, n) /\ Version(r.steps[k].to) < Version(r.current) =>
             n - 1 \in Nat /\ r.steps[k].to \in Within(r, n - 1)
<1>1. r.steps[k].from = t /\ r.steps[k].to \in Targets  BY LoneStep, StepsAre
<1>2. Version(t) < Version(r.steps[k].to) /\ Version(r.steps[k].to) <= Version(r.current)
  <2>1. Version(r.steps[k].to) > Version(r.steps[k].from) /\ Version(r.steps[k].to) <= Version(r.current)
    BY DEF Valid
  <2>2. Version(t) \in Nat /\ Version(r.steps[k].to) \in Nat  BY <1>1, LedgerAssumption
  <2> QED BY <2>1, <2>2, <1>1
<1>3. Walk(r)[t] = Onward(r, Walk(r), k)
  <2>1. Walk(r)[t] = Onwards(r, Walk(r), t)  BY WalkIs
  <2>2. \A f : Onwards(r, f, t) = Onward(r, f, k)  BY LoneStep
  <2> QED BY <2>1, <2>2
<1>4. ASSUME NEW n \in Nat, t \in Within(r, n), Version(r.steps[k].to) < Version(r.current)
      PROVE n - 1 \in Nat /\ r.steps[k].to \in Within(r, n - 1)
  <2>1. PICK u : u = r.steps[k].to  OBVIOUS
  <2>2. u \in Targets /\ Version(t) \in Nat /\ Version(u) \in Nat /\ Version(r.current) \in Nat
    BY <2>1, <1>1, StepsAre, LedgerAssumption
  <2>3. Version(t) < Version(u) /\ Version(u) < Version(r.current) /\ Version(t) + n >= Version(r.current)
    BY <2>1, <1>2, <1>4 DEF Within
  <2>4. n - 1 \in Nat /\ Version(u) + (n - 1) >= Version(r.current)  BY <2>2, <2>3
  <2> QED BY <2>1, <2>2, <2>4 DEF Within
<1> QED BY <1>1, <1>2, <1>3, <1>4

\* Walk finds nothing, or a chain, by induction over the distance to the current
\* version.
LEMMA WalkFinds ==
  ASSUME NEW r \in Releases, Valid(r), NEW t \in Targets
  PROVE Found(r, t)
<1>1. PICK S : S = {n \in Nat : \E u \in Within(r, n) : ~Found(r, u)}  OBVIOUS
<1>2. CASE S = {}
  <2>1. PICK n \in Nat : n = Version(r.current)  BY StepsAre
  <2>2. Version(t) \in Nat  BY LedgerAssumption
  <2>3. t \in Within(r, n)  BY <2>1, <2>2 DEF Within
  <2> QED BY <2>3, <1>1, <1>2
<1>3. CASE S # {}
  <2>1. PICK n \in S : \A i \in S : n <= i  BY <1>1, <1>3, LeastOf
  <2>2. n \in Nat  BY <2>1, <1>1
  <2>3. PICK u \in Within(r, n) : ~Found(r, u)  BY <2>1, <1>1
  <2>4. u \in Targets  BY <2>3 DEF Within
  <2>5. \E k \in DOMAIN r.steps : Leaving(r, u) = {k}
    <3> SUFFICES ASSUME ~\E k \in DOMAIN r.steps : Leaving(r, u) = {k} PROVE FALSE  OBVIOUS
    <3>1. Walk(r)[u] = Refused  BY <2>4, WalkIs DEF Onwards
    <3> QED BY <3>1, <2>3 DEF Found, Refused
  <2>6. PICK k \in DOMAIN r.steps : Leaving(r, u) = {k}  BY <2>5
  <2>7. PICK step : step = r.steps[k]  OBVIOUS
  <2>8. step.from = u /\ step.to \in Targets /\ Version(u) < Version(step.to) /\ Walk(r)[u] = Onward(r, Walk(r), k)
    BY <2>4, <2>6, <2>7, WalkFollows
  <2>9. CASE step.to = r.current
    <3>1. PICK p : p = <<step>>  OBVIOUS
    <3>2. Walk(r)[u] = [kind |-> "upgrade", steps |-> p]  BY <3>1, <2>7, <2>8, <2>9 DEF Onward
    <3>3. Chain(r, p, u, r.current)  BY <3>1, <2>6, <2>7, <2>8, <2>9, ChainOfOne
    <3> QED BY <3>2, <3>3, <2>3 DEF Found
  <2>10. CASE step.to # r.current /\ (Version(step.to) >= Version(r.current) \/ Walk(r)[step.to].kind = "refused")
    <3>1. Walk(r)[u] = Refused  BY <2>7, <2>8, <2>10 DEF Onward
    <3> QED BY <3>1, <2>3 DEF Found, Refused
  <2>11. CASE step.to # r.current /\ ~(Version(step.to) >= Version(r.current)) /\ Walk(r)[step.to].kind # "refused"
    <3>1. PICK p : p = Walk(r)[step.to].steps  OBVIOUS
    <3>2. PICK q : q = <<step>> \o p  OBVIOUS
    <3>3. Walk(r)[u] = [kind |-> "upgrade", steps |-> q]  BY <3>1, <3>2, <2>7, <2>8, <2>11 DEF Onward
    <3>4. Version(step.to) < Version(r.current)
      BY <2>8, <2>11, LedgerAssumption, StepsAre
    <3>5. n - 1 \in Nat /\ step.to \in Within(r, n - 1)  BY <3>4, <2>2, <2>3, <2>4, <2>6, <2>7, WalkFollows
    <3>6. n - 1 \notin S  BY <3>5, <2>1, <2>2
    <3>7. Found(r, step.to)  BY <3>5, <3>6, <1>1
    <3>8. Chain(r, p, step.to, r.current)  BY <3>1, <3>7, <2>11 DEF Found
    <3>9. Leaving(r, step.from) = {k}  BY <2>6, <2>8
    <3>10. Version(step.to) > Version(step.from)  BY <2>4, <2>8, LedgerAssumption
    <3>11. Chain(r, q, u, r.current)  BY <3>2, <3>8, <3>9, <3>10, <2>7, <2>8, ChainGrows
    <3> QED BY <3>3, <3>11, <2>3 DEF Found
  <2> QED BY <2>9, <2>10, <2>11
<1> QED BY <1>2, <1>3


\* The chains of the property are such paths.
LEMMA OnlyChainsAre ==
  ASSUME NEW r \in Releases, NEW t, NEW c \in OnlyChains(r, t)
  PROVE Path(r, c, t)
<1>1. PICK S : S = [from : Targets, to : Targets]  OBVIOUS
<1>2. PICK R : R = {r.steps[i] : i \in DOMAIN r.steps}  OBVIOUS
<1>3. PICK n \in 1 .. Len(r.steps) : c \in [1 .. n -> R]  BY <1>2 DEF OnlyChains
<1>4. c[1].from = t /\ c[Len(c)].to = r.current /\ (\A i \in 1 .. (Len(c) - 1) : c[i].to = c[i + 1].from)
      /\ \A i \in DOMAIN c : \E k \in DOMAIN r.steps : \A j \in DOMAIN r.steps : r.steps[j].from = c[i].from <=> j = k
  BY DEF OnlyChains
<1>5. \A x \in R : x \in S  BY <1>1, <1>2, StepsAre
<1>6. n \in Nat /\ n > 0 
  <2>1. Len(r.steps) \in Nat  BY StepsAre
  <2> QED BY <2>1, <1>3
<1>7. c \in Seq(S) /\ Len(c) = n /\ DOMAIN c = 1 .. n
  <2>1. c \in [1 .. n -> S]  BY <1>3, <1>5
  <2> QED BY <2>1, <1>6
<1>8. ASSUME NEW i \in 1 .. Len(c)
      PROVE \E k \in DOMAIN r.steps : Leaving(r, c[i].from) = {k} /\ c[i] = r.steps[k]
  <2>0. i \in DOMAIN c  BY <1>7
  <2>1. PICK k \in DOMAIN r.steps : \A j \in DOMAIN r.steps : r.steps[j].from = c[i].from <=> j = k
    BY <2>0, <1>4, Zenon
  <2>2. Leaving(r, c[i].from) = {k}  BY <2>1 DEF Leaving
  <2>3. c[i] \in R  BY <1>3, <1>7
  <2>4. PICK j \in DOMAIN r.steps : c[i] = r.steps[j]  BY <2>3, <1>2
  <2>5. j = k  BY <2>1, <2>4
  <2> QED BY <2>2, <2>4, <2>5
<1> QED BY <1>1, <1>4, <1>6, <1>7, <1>8 DEF Path

\* A path without its first step is a path.
LEMMA PathGoesOn ==
  ASSUME NEW r \in Releases, NEW t, NEW p, Path(r, p, t), Len(p) # 1
  PROVE Path(r, Tail(p), p[1].to) /\ p = <<p[1]>> \o Tail(p) /\ Len(p) > 1 /\ p[2].from = p[1].to
<1>1. PICK S : S = [from : Targets, to : Targets]  OBVIOUS
<1>a. p \in Seq(S) /\ Len(p) > 0  BY <1>1, Zenon DEF Path
<1>2. p \in Seq(S) /\ Len(p) \in Nat /\ Len(p) > 1  BY <1>a
<1>3. PICK q : q = Tail(p)  OBVIOUS
<1>4. q \in Seq(S) /\ Len(q) = Len(p) - 1 /\ \A i \in 1 .. Len(q) : q[i] = p[i + 1]  BY <1>2, <1>3
<1>5. p = <<p[1]>> \o q  BY <1>2, <1>3
<1>6. (\A i \in 1 .. Len(p) - 1 : p[i].to = p[i + 1].from) /\ p[Len(p)].to = r.current
      /\ \A i \in 1 .. Len(p) : \E k \in DOMAIN r.steps : Leaving(r, p[i].from) = {k} /\ p[i] = r.steps[k]
  BY DEF Path
<1>7. p[2].from = p[1].to
  <2>1. 1 \in 1 .. Len(p) - 1  BY <1>2
  <2> QED BY <2>1, <1>6
<1>8. q[1].from = p[1].to /\ q[Len(q)].to = r.current
  <2>1. 1 \in 1 .. Len(q) /\ Len(q) \in 1 .. Len(q) /\ Len(q) + 1 = Len(p)  BY <1>2, <1>4
  <2> QED BY <2>1, <1>4, <1>6, <1>7
<1>9. ASSUME NEW i \in 1 .. Len(q) - 1 PROVE q[i].to = q[i + 1].from
  <2>1. i \in 1 .. Len(q) /\ i + 1 \in 1 .. Len(q) /\ i + 1 \in 1 .. Len(p) - 1  BY <1>2, <1>4
  <2>2. p[i + 1].to = p[(i + 1) + 1].from  BY <2>1, <1>6
  <2> QED BY <2>1, <2>2, <1>4
<1>10. ASSUME NEW i \in 1 .. Len(q) PROVE \E k \in DOMAIN r.steps : Leaving(r, q[i].from) = {k} /\ q[i] = r.steps[k]
  <2>1. i + 1 \in 1 .. Len(p) /\ q[i] = p[i + 1]  BY <1>2, <1>4
  <2> QED BY <2>1, <1>6
<1>11. Len(q) > 0  BY <1>2, <1>4
<1>12. Path(r, q, p[1].to)  BY <1>1, <1>4, <1>8, <1>9, <1>10, <1>11 DEF Path
<1> QED BY <1>2, <1>3, <1>5, <1>7, <1>12

\* Walk finds every path from t: there is at most one.
FoundAll(r, t) ==
    \A p : Path(r, p, t) => Walk(r)[t].kind = "upgrade" /\ Walk(r)[t].steps = p

\* A path from t is what the planner returns, by the least distance without it.
LEMMA WalkFindsAll ==
  ASSUME NEW r \in Releases, Valid(r), NEW t \in Targets
  PROVE FoundAll(r, t)
<1>1. PICK S : S = {n \in Nat : \E u \in Within(r, n) : ~FoundAll(r, u)}  OBVIOUS
<1>2. CASE S = {}
  <2>1. PICK n \in Nat : n = Version(r.current)  BY StepsAre
  <2>2. Version(t) \in Nat  BY LedgerAssumption
  <2>3. t \in Within(r, n)  BY <2>1, <2>2 DEF Within
  <2> QED BY <2>3, <1>1, <1>2
<1>3. CASE S # {}
  <2>1. PICK n \in S : \A i \in S : n <= i  BY <1>1, <1>3, LeastOf
  <2>2. n \in Nat  BY <2>1, <1>1
  <2>3. PICK u \in Within(r, n) : ~FoundAll(r, u)  BY <2>1, <1>1
  <2>4. u \in Targets  BY <2>3 DEF Within
  <2>5. PICK p : Path(r, p, u) /\ ~(Walk(r)[u].kind = "upgrade" /\ Walk(r)[u].steps = p)
    BY <2>3 DEF FoundAll
  <2>a. Len(p) \in Nat /\ Len(p) > 0 /\ p[1].from = u /\ p[Len(p)].to = r.current
        /\ \A i \in 1 .. Len(p) : \E k \in DOMAIN r.steps : Leaving(r, p[i].from) = {k} /\ p[i] = r.steps[k]
    <3>1. PICK V : V = [from : Targets, to : Targets]  OBVIOUS
    <3>2. /\ p \in Seq(V) /\ Len(p) > 0 /\ p[1].from = u /\ p[Len(p)].to = r.current
          /\ \A i \in 1 .. Len(p) : \E k \in DOMAIN r.steps : Leaving(r, p[i].from) = {k} /\ p[i] = r.steps[k]
      BY <3>1, <2>5, Zenon DEF Path
    <3>3. Len(p) \in Nat  BY <3>2
    <3> QED BY <3>2, <3>3
  <2>b. 1 \in 1 .. Len(p)  BY <2>a
  <2>6. PICK k \in DOMAIN r.steps : Leaving(r, u) = {k} /\ p[1] = r.steps[k]  BY <2>a, <2>b
  <2>7. PICK step : step = r.steps[k]  OBVIOUS
  <2>8. step.from = u /\ step.to \in Targets /\ Version(u) < Version(step.to) /\ Walk(r)[u] = Onward(r, Walk(r), k)
        /\ Version(step.to) <= Version(r.current)
    BY <2>4, <2>6, <2>7, WalkFollows
  <2>v. Version(step.to) \in Nat /\ Version(r.current) \in Nat  BY <2>8, StepsAre, LedgerAssumption
  <2>c. ASSUME Len(p) # 1
        PROVE Version(step.to) < Version(r.current)
    <3>a. Path(r, p, u) /\ p[1] = step  BY <2>5, <2>6, <2>7
    <3>b. p[2].from = p[1].to /\ Len(p) > 1  BY <3>a, <2>c, PathGoesOn
    <3>c. 2 \in 1 .. Len(p)  BY <2>a, <3>b
    <3>1. p[2].from = step.to /\ \E l \in DOMAIN r.steps : p[2] = r.steps[l]  BY <3>a, <3>b, <3>c, <2>a
    <3>2. PICK l \in DOMAIN r.steps : p[2] = r.steps[l]  BY <3>1
    <3>3. Version(r.steps[l].to) > Version(r.steps[l].from) /\ Version(r.steps[l].to) <= Version(r.current)
      BY DEF Valid
    <3>4. Version(r.steps[l].to) \in Nat  BY StepsAre
    <3> QED BY <3>1, <3>2, <3>3, <3>4, <2>v
  <2>d. ASSUME Len(p) = 1 PROVE step.to = r.current /\ p = <<step>>
    <3>1. PICK V : V = [from : Targets, to : Targets]  OBVIOUS
    <3>2. p \in Seq(V)  BY <3>1, <2>5 DEF Path
    <3>3. p = <<p[1]>>  BY <3>2, <2>d
    <3> QED BY <3>3, <2>a, <2>d, <2>6, <2>7
  <2>9. CASE step.to = r.current
    <3>1. Len(p) = 1  BY <2>9, <2>c, <2>v
    <3>2. p = <<step>>  BY <3>1, <2>d
    <3>3. Walk(r)[u] = [kind |-> "upgrade", steps |-> p]  BY <3>2, <2>7, <2>8, <2>9 DEF Onward
    <3> QED BY <3>3, <2>5
  <2>10. CASE step.to # r.current
    <3>1. Len(p) # 1  BY <2>10, <2>d
    <3>2. Version(step.to) < Version(r.current)  BY <3>1, <2>c
    <3>3. PICK q : q = Tail(p)  OBVIOUS
    <3>4. Path(r, q, step.to) /\ p = <<step>> \o q  BY <3>1, <3>3, <2>5, <2>6, <2>7, PathGoesOn
    <3>5. n - 1 \in Nat /\ step.to \in Within(r, n - 1)  BY <3>2, <2>2, <2>3, <2>4, <2>6, <2>7, WalkFollows
    <3>6. n - 1 \notin S  BY <3>5, <2>1, <2>2
    <3>7. FoundAll(r, step.to)  BY <3>5, <3>6, <1>1
    <3>8. Walk(r)[step.to].kind = "upgrade" /\ Walk(r)[step.to].steps = q  BY <3>4, <3>7 DEF FoundAll
    <3>9. ~(Version(step.to) >= Version(r.current))  BY <3>2, <2>v
    <3>10. Walk(r)[u] = [kind |-> "upgrade", steps |-> p]
      BY <3>4, <3>8, <3>9, <2>7, <2>8, <2>10 DEF Onward
    <3> QED BY <3>10, <2>5
  <2> QED BY <2>9, <2>10
<1> QED BY <1>2, <1>3

\* A chain has no more steps than the release, because its steps differ; so it
\* is one of the chains of the property.
LEMMA ChainIsOnlyChain ==
  ASSUME NEW r \in Releases, NEW t, NEW p, Chain(r, p, t, r.current)
  PROVE p \in OnlyChains(r, t)
<1>1. PICK S : S = [from : Targets, to : Targets]  OBVIOUS
<1>2. PICK n : n = Len(p)  OBVIOUS
<1>3. p \in Seq(S) /\ n \in Nat /\ n > 0  BY <1>1, <1>2 DEF Chain
<1>4. \A i \in 1 .. n : \E k \in DOMAIN r.steps : Leaving(r, p[i].from) = {k} /\ p[i] = r.steps[k]
  BY <1>2 DEF Chain
<1>5. PICK size : size = Len(r.steps)  OBVIOUS
<1>6. size \in Nat /\ DOMAIN r.steps = 1 .. size
  <2>1. PICK s : s = r.steps  OBVIOUS
  <2>2. s \in Seq(S)  BY <2>1, <1>1, StepsAre
  <2> QED BY <2>1, <2>2, <1>5
<1>7. PICK place : place = [i \in 1 .. n |-> CHOOSE k \in 1 .. size : p[i] = r.steps[k]]  OBVIOUS
<1>8. \A i \in 1 .. n : place[i] \in 1 .. size /\ p[i] = r.steps[place[i]]
  <2> SUFFICES ASSUME NEW i \in 1 .. n PROVE place[i] \in 1 .. size /\ p[i] = r.steps[place[i]]  OBVIOUS
  <2>1. \E k \in 1 .. size : p[i] = r.steps[k]  BY <1>4, <1>6
  <2>2. place[i] = CHOOSE k \in 1 .. size : p[i] = r.steps[k]  BY <1>7
  <2> QED BY <2>1, <2>2
<1>9. \A i, j \in 1 .. n : i < j => Version(p[i].from) < Version(p[j].from)  BY <1>2 DEF Chain
<1>10. ASSUME NEW i \in 1 .. n, NEW j \in 1 .. n, i # j PROVE place[i] # place[j]
  <2>1. Version(p[i].from) \in Nat /\ Version(p[j].from) \in Nat  BY <1>4, StepsAre
  <2>2. i \in Nat /\ j \in Nat /\ (i < j \/ j < i)  BY <1>10, <1>3
  <2>3. Version(p[i].from) # Version(p[j].from)  BY <2>1, <2>2, <1>9
  <2>4. p[i] # p[j]  BY <2>3
  <2> QED BY <2>4, <1>8
<1>11. place \in Injection(1 .. n, 1 .. size)
  <2>1. place \in [1 .. n -> 1 .. size]  BY <1>7, <1>8
  <2> QED BY <2>1, <1>10 DEF Injection, IsInjective
<1>12. n <= size
  <2>1. /\ IsFiniteSet(1 .. size) /\ Cardinality(1 .. size) = (IF 1 > size THEN 0 ELSE size - 1 + 1)
        /\ Cardinality(1 .. n) = (IF 1 > n THEN 0 ELSE n - 1 + 1)
    BY <1>3, <1>6, FS_Interval
  <2>2. Cardinality(1 .. n) <= Cardinality(1 .. size)  BY <2>1, <1>11, FS_Injection
  <2> QED BY <2>1, <2>2, <1>3, <1>6
<1>13. PICK R : R = {r.steps[i] : i \in DOMAIN r.steps}  OBVIOUS
<1>14. p \in [1 .. n -> R]
  <2>1. \A i \in 1 .. n : p[i] \in R  BY <1>4, <1>13
  <2>2. p = [i \in 1 .. n |-> p[i]]  BY <1>2, <1>3
  <2> QED BY <2>1, <2>2
<1>15. n \in 1 .. size  BY <1>3, <1>6, <1>12
<1>16. p \in UNION {[1 .. i -> R] : i \in 1 .. size}  BY <1>14, <1>15
<1>17. ASSUME NEW i \in 1 .. n
       PROVE \E k \in DOMAIN r.steps : \A j \in DOMAIN r.steps : r.steps[j].from = p[i].from <=> j = k
  <2>1. PICK k \in DOMAIN r.steps : Leaving(r, p[i].from) = {k}  BY <1>4
  <2>2. \A j \in DOMAIN r.steps : r.steps[j].from = p[i].from <=> j \in {k}  BY <2>1 DEF Leaving
  <2> QED BY <2>2
<1>18. DOMAIN p = 1 .. n  BY <1>2, <1>3
<1>19. p[1].from = t /\ p[Len(p)].to = r.current /\ \A i \in 1 .. (Len(p) - 1) : p[i].to = p[i + 1].from
  BY DEF Chain
<1>20. \A i \in DOMAIN p :
         \E k \in DOMAIN r.steps : \A j \in DOMAIN r.steps : r.steps[j].from = p[i].from <=> j = k
  BY <1>17, <1>18
<1>21. p \in UNION {[1 .. i -> {r.steps[j] : j \in DOMAIN r.steps}] : i \in 1 .. Len(r.steps)}
  BY <1>5, <1>13, <1>16
<1> QED BY <1>19, <1>20, <1>21, Zenon DEF OnlyChains


\* A chain in which versions grow is a path.
LEMMA ChainIsPath ==
  ASSUME NEW r \in Releases, NEW p, NEW t, Chain(r, p, t, r.current)
  PROVE Path(r, p, t)
BY Zenon DEF Chain, Path

\* What a plan is: prepared exactly for the prepared targets, fresh without a row,
\* current for the release's own target, and an upgrade only along a chain that
\* leads up.
LEMMA PlanIs ==
  ASSUME NEW r \in Releases, NEW w \in {None} \cup Targets, NEW plan, plan = PlanCompatible(r, w)
  PROVE /\ plan.kind \in {"refused", "fresh", "current", "prepared", "upgrade"}
        /\ plan.kind = "prepared" => w # None
        /\ plan.kind \in {"fresh", "current", "upgrade"} => w \notin r.prepared
        /\ plan.kind = "prepared" => w \in r.prepared
        /\ plan.kind = "fresh" => w = None
        /\ plan.kind = "current" => w = r.current
        /\ plan.kind = "upgrade" => w # None /\ Version(w) < Version(r.current) /\ Path(r, plan.steps, w)
<1>1. CASE w \in r.prepared
  <2>1. r.prepared \subseteq ReleaseTargets(r)  BY DEF ReleaseTargets
  <2>2. w \in Targets  BY <1>1, <2>1 DEF Targets
  <2>3. w # None  BY <2>2, LedgerAssumption
  <2>4. plan.kind = "prepared"  BY <1>1 DEF PlanCompatible
  <2> QED BY <2>3, <2>4, <1>1
<1>2. CASE w \notin r.prepared
  <2>1. plan = Plan(r, w)  BY <1>2 DEF PlanCompatible
  <2>2. CASE ~Valid(r)  BY <2>1, <2>2 DEF Plan, Refused
  <2>3. CASE Valid(r) /\ w = None  BY <2>1, <2>3, <1>2 DEF Plan
  <2>4. CASE Valid(r) /\ w # None /\ w = r.current  BY <2>1, <2>4, <1>2 DEF Plan
  <2>5. CASE Valid(r) /\ w # None /\ w # r.current /\ Version(w) >= Version(r.current)
    BY <2>1, <2>5 DEF Plan, Refused
  <2>6. CASE Valid(r) /\ w # None /\ w # r.current /\ ~(Version(w) >= Version(r.current))
    <3>1. w \in Targets  BY <2>6
    <3>2. Version(w) < Version(r.current)  BY <3>1, <2>6, LedgerAssumption, StepsAre
    <3>3. plan = Walk(r)[w]  BY <2>1, <2>6 DEF Plan
    <3>4. Found(r, w)  BY <3>1, <2>6, WalkFinds
    <3>5. plan.kind \in {"refused", "upgrade"} /\ (plan.kind = "upgrade" => Chain(r, plan.steps, w, r.current))
      BY <3>3, <3>4 DEF Found
    <3>6. plan.kind = "upgrade" => Path(r, plan.steps, w)  BY <3>5, ChainIsPath
    <3> QED BY <3>2, <3>5, <3>6, <2>6, <1>2
  <2> QED BY <2>2, <2>3, <2>4, <2>5, <2>6
<1> QED BY <1>1, <1>2

\* The planner finds an upgrade exactly where the steps lead to the current
\* target in one way, and then plans that way; whatever the release declares.
LEMMA PlanIsOnlyChain ==
  ASSUME NEW r \in Releases, NEW w \in Targets, w # r.current, Valid(r), NEW plan, plan = Plan(r, w)
  PROVE IF plan.kind = "refused" THEN OnlyChains(r, w) = {}
        ELSE plan.kind = "upgrade" /\ OnlyChains(r, w) = {plan.steps}
<1>0. w # None /\ Version(w) \in Nat /\ Version(r.current) \in Nat  BY LedgerAssumption, StepsAre
<1>1. Found(r, w) /\ FoundAll(r, w)  BY WalkFinds, WalkFindsAll
<1>2. CASE Version(w) >= Version(r.current)
  <2>1. plan.kind = "refused"  BY <1>0, <1>2 DEF Plan, Refused
  <2>2. ASSUME NEW c \in OnlyChains(r, w) PROVE FALSE
    <3>1. Path(r, c, w)  BY OnlyChainsAre
    <3>2. PICK V : V = [from : Targets, to : Targets]  OBVIOUS
    <3>3. /\ c \in Seq(V) /\ Len(c) > 0 /\ c[1].from = w
          /\ \A i \in 1 .. Len(c) : \E k \in DOMAIN r.steps : Leaving(r, c[i].from) = {k} /\ c[i] = r.steps[k]
      BY <3>1, <3>2, Zenon DEF Path
    <3>4. 1 \in 1 .. Len(c)  BY <3>3
    <3>5. PICK k \in DOMAIN r.steps : c[1] = r.steps[k]  BY <3>3, <3>4
    <3>6. Version(r.steps[k].to) > Version(r.steps[k].from) /\ Version(r.steps[k].to) <= Version(r.current)
      BY DEF Valid
    <3>7. Version(r.steps[k].to) \in Nat /\ r.steps[k].from = w  BY <3>3, <3>5, StepsAre
    <3> QED BY <3>6, <3>7, <1>0, <1>2
  <2> QED BY <2>1, <2>2
<1>3. CASE ~(Version(w) >= Version(r.current))
  <2>1. plan = Walk(r)[w]  BY <1>0, <1>3 DEF Plan
  <2>2. CASE plan.kind = "refused"
    <3>1. ASSUME NEW c \in OnlyChains(r, w) PROVE FALSE
      <4>1. Path(r, c, w)  BY OnlyChainsAre
      <4>2. plan.kind = "upgrade"  BY <4>1, <1>1, <2>1 DEF FoundAll
      <4> QED BY <4>2, <2>2
    <3> QED BY <3>1, <2>2
  <2>3. CASE plan.kind # "refused"
    <3>1. plan.kind = "upgrade" /\ Chain(r, plan.steps, w, r.current)  BY <1>1, <2>1, <2>3 DEF Found
    <3>2. plan.steps \in OnlyChains(r, w)  BY <3>1, ChainIsOnlyChain
    <3>3. ASSUME NEW c \in OnlyChains(r, w) PROVE c = plan.steps
      <4>1. Path(r, c, w)  BY OnlyChainsAre
      <4> QED BY <4>1, <1>1, <2>1 DEF FoundAll
    <3>4. OnlyChains(r, w) = {plan.steps}  BY <3>2, <3>3
    <3> QED BY <3>1, <3>4, <2>3
  <2> QED BY <2>2, <2>3
<1> QED BY <1>2, <1>3

-----------------------------------------------------------------------------
(* One migration moves.                                                      *)

\* A migration that stays sound, and takes the row only when nobody has it,
\* keeps the invariant.
LEMMA MigrationMoves ==
  ASSUME LedgerInv, NEW m \in Migrators, NEW x, Becomes(m, x), MigrationOK(x, release[m], row, ledgerMade),
         HoldsRow(x) => HoldsRow(mig[m]) \/ \A o \in Others(m) : ~HoldsRow(mig[o]),
         UNCHANGED <<release, ledgerMade, row, physical>>
  PROVE LedgerInv'
<1>1. mig = [o \in Migrators |-> mig[o]] /\ mig' = [mig EXCEPT ![m] = x]  BY DEF LedgerInv, Becomes
<1>2. mig' = [o \in Migrators |-> mig'[o]] /\ mig'[m] = x /\ \A o \in Migrators : o # m => mig'[o] = mig[o]
  BY <1>1
<1>3. \A o \in Migrators : MigrationOK(mig'[o], release[o], row, ledgerMade)
  <2> SUFFICES ASSUME NEW o \in Migrators PROVE MigrationOK(mig'[o], release[o], row, ledgerMade)  OBVIOUS
  <2>1. CASE o = m  BY <2>1, <1>2
  <2>2. CASE o # m  BY <2>2, <1>2 DEF LedgerInv
  <2> QED BY <2>1, <2>2
<1>4. \A o, q \in Migrators : (HoldsRow(mig'[o]) /\ HoldsRow(mig'[q])) => o = q
  <2> SUFFICES ASSUME NEW o \in Migrators, NEW q \in Migrators, HoldsRow(mig'[o]), HoldsRow(mig'[q]) PROVE o = q
    OBVIOUS
  <2>0. \A u, v \in Migrators : (HoldsRow(mig[u]) /\ HoldsRow(mig[v])) => u = v  BY DEF LedgerInv
  <2>1. CASE o = m /\ q # m  BY <2>0, <2>1, <1>2 DEF Others
  <2>2. CASE q = m /\ o # m  BY <2>0, <2>2, <1>2 DEF Others
  <2>3. CASE o # m /\ q # m  BY <2>0, <2>3, <1>2
  <2> QED BY <2>1, <2>2, <2>3
<1> QED BY <1>2, <1>3, <1>4 DEF LedgerInv

\* A migration that is not begun has nothing.
LEMMA NewMigrationIs ==
  ASSUME NEW nm, nm = NewMigration
  PROVE MigrationRecord(nm) /\ nm.recorded = None /\ ~nm.claimed /\ ~nm.locked /\ ~nm.altered
<1>1. MigrationRecord(nm)  BY DEF MigrationRecord, MigrationPlaces, NewMigration
<1> QED BY <1>1 DEF NewMigration

\* A path of one step leads to the current target; of a longer one the rest leads
\* on from where its first step does.
LEMMA PathSteps ==
  ASSUME NEW r \in Releases, NEW p, NEW t, Path(r, p, t)
  PROVE /\ Len(p) \in Nat /\ Len(p) > 0 /\ p[1].from = t
        /\ Len(p) = 1 => p[1].to = r.current
        /\ Len(p) # 1 => Path(r, Tail(p), p[1].to)
<1>1. PICK V : V = [from : Targets, to : Targets]  OBVIOUS
<1>2. p \in Seq(V) /\ Len(p) > 0 /\ p[1].from = t /\ p[Len(p)].to = r.current  BY <1>1, Zenon DEF Path
<1>3. Len(p) \in Nat  BY <1>2
<1>4. Len(p) # 1 => Path(r, Tail(p), p[1].to)  BY PathGoesOn
<1> QED BY <1>2, <1>3, <1>4


\* A migration that is over, refused only because its plan is.
LEMMA ReturnsKeeps ==
  ASSUME LedgerInv, NEW m \in Migrators, NEW result \in {"refused", "failed"}, Becomes(m, Returns(m, result)),
         result = "refused" => KindOf(release[m], mig[m]) = "refused",
         UNCHANGED <<release, ledgerMade, row, physical>>
  PROVE LedgerInv'
<1>1. PICK w : w = mig[m].recorded  OBVIOUS
<1>2. PICK n : n = mig[m].calls  OBVIOUS
<1>a. PICK nm : nm = NewMigration  OBVIOUS
<1>b. MigrationRecord(nm) /\ ~nm.claimed /\ ~nm.locked /\ ~nm.altered  BY <1>a, NewMigrationIs
<1>3. PICK x : x = [nm EXCEPT !.at = result, !.calls = n, !.recorded = w]  OBVIOUS
<1>4. MigrationOK(mig[m], release[m], row, ledgerMade)  BY DEF LedgerInv
<1>5. w \in {None} \cup Targets  BY <1>1, <1>4 DEF MigrationOK, MigrationRecord
<1>c. MigrationRecord(x) /\ x.at = result /\ x.recorded = w /\ x.claimed = nm.claimed /\ x.locked = nm.locked
      /\ x.altered = nm.altered
  BY <1>3, <1>5, <1>b DEF MigrationRecord, MigrationPlaces
<1>6. MigrationRecord(x) /\ x.at = result /\ x.recorded = w /\ ~HoldsRow(x) /\ ~x.altered
  BY <1>b, <1>c DEF HoldsRow
<1>7. result = "refused" => KindOf(release[m], x) = "refused"  BY <1>1, <1>6 DEF KindOf
<1>8. MigrationOK(x, release[m], row, ledgerMade)  BY <1>6, <1>7 DEF MigrationOK, HoldsRow
<1>9. Becomes(m, x)  BY <1>1, <1>2, <1>3, <1>a DEF Returns
<1> QED BY <1>6, <1>8, <1>9, MigrationMoves

\* Every step of a migration before its commit.
LEMMA MigrationWorks ==
  ASSUME LedgerInv, NEW m \in Migrators,
         \/ BeginMigration(m) \/ CreateLedgerTable(m) \/ ClaimRow(m) \/ LockRow(m) \/ PlanMigration(m)
         \/ RunStatements(m) \/ ValidateSchema(m) \/ RecordCompletion(m) \/ MigrationRefused(m) \/ MigrationFails(m)
  PROVE LedgerInv'
<1>0. PICK y, r : y = mig[m] /\ r = release[m]  OBVIOUS
<1>a. r \in Releases /\ row \in {None} \cup Targets /\ physical = row  BY <1>0 DEF LedgerInv
<1>b. MigrationRecord(y) /\ MigrationOK(y, r, row, ledgerMade)  BY <1>0 DEF LedgerInv, MigrationOK
<1>c. y.recorded \in {None} \cup Targets  BY <1>b DEF MigrationRecord
<1>d. r.current \in Targets /\ None \notin Targets  BY <1>a, StepsAre, LedgerAssumption
<1>e. mig = [o \in Migrators |-> mig[o]]  BY DEF LedgerInv
<1>f. \A o \in Migrators : HoldsRow(mig[o]) => MigrationOK(mig[o], release[o], row, ledgerMade)  BY DEF LedgerInv
<1>g. PICK plan : plan = PlanCompatible(r, y.recorded)  OBVIOUS
<1>h. /\ plan.kind \in {"refused", "fresh", "current", "prepared", "upgrade"}
      /\ (plan.kind = "prepared" => y.recorded # None)
      /\ (plan.kind \in {"fresh", "current", "upgrade"} => y.recorded \notin r.prepared)
      /\ (plan.kind = "prepared" => y.recorded \in r.prepared)
      /\ (plan.kind = "fresh" => y.recorded = None)
      /\ (plan.kind = "current" => y.recorded = r.current)
      /\ (plan.kind = "upgrade" => y.recorded # None /\ Path(r, plan.steps, y.recorded))
  BY <1>a, <1>c, <1>g, PlanIs
<1>1. CASE BeginMigration(m)
  <2>1. PICK n : n = mig[m].calls + 1  OBVIOUS
  <2>2. PICK nm : nm = NewMigration  OBVIOUS
  <2>a. MigrationRecord(nm) /\ nm.recorded = None /\ ~nm.claimed /\ ~nm.locked /\ ~nm.altered
    BY <2>2, NewMigrationIs
  <2>3. PICK x : x = [nm EXCEPT !.at = "ledger", !.calls = n]  OBVIOUS
  <2>4. Becomes(m, x) /\ UNCHANGED <<release, ledgerMade, row, physical>>
    BY <1>1, <2>1, <2>2, <2>3 DEF BeginMigration
  <2>b. MigrationRecord(x) /\ x.at = "ledger" /\ x.recorded = nm.recorded /\ x.claimed = nm.claimed
        /\ x.locked = nm.locked /\ x.altered = nm.altered
    BY <2>3, <2>a DEF MigrationRecord, MigrationPlaces
  <2>5. MigrationRecord(x) /\ x.at = "ledger" /\ x.recorded = None /\ ~HoldsRow(x) /\ ~x.altered
    BY <2>a, <2>b DEF HoldsRow
  <2>6. MigrationOK(x, r, row, ledgerMade)  BY <2>5 DEF MigrationOK, HoldsRow
  <2> QED BY <2>4, <2>5, <2>6, <1>0, MigrationMoves
<1>2. CASE CreateLedgerTable(m)
  <2>1. PICK x : x = [y EXCEPT !.at = "claim", !.made = ~ledgerMade]  OBVIOUS
  <2>2. Becomes(m, x) /\ UNCHANGED <<release, ledgerMade, row, physical>> /\ y.at = "ledger"
    BY <1>2, <2>1, <1>0 DEF CreateLedgerTable
  <2>3. ledgerMade \in BOOLEAN  BY DEF LedgerInv
  <2>4. MigrationRecord(x) /\ x.at = "claim" /\ x.made = ~ledgerMade /\ x.claimed = y.claimed /\ x.locked = y.locked
        /\ x.recorded = y.recorded /\ x.altered = y.altered
    BY <2>1, <2>3, <1>b DEF MigrationRecord, MigrationPlaces
  <2>5. MigrationOK(x, r, row, ledgerMade) /\ ~HoldsRow(x)  BY <2>2, <2>3, <2>4, <1>b DEF MigrationOK, HoldsRow
  <2> QED BY <2>2, <2>5, <1>0, MigrationMoves
<1>3. CASE ClaimRow(m)
  <2>1. UNCHANGED <<release, ledgerMade, row, physical>> /\ y.at = "claim" /\ ~\E o \in Others(m) : mig[o].claimed
    BY <1>3, <1>0 DEF ClaimRow
  <2>2. CASE row = None
    <3>1. PICK x : x = [y EXCEPT !.at = "plan", !.claimed = TRUE, !.row = r.current]  OBVIOUS
    <3>2. Becomes(m, x)  BY <1>3, <2>2, <3>1, <1>0 DEF ClaimRow
    <3>3. MigrationRecord(x) /\ x.at = "plan" /\ x.made = y.made /\ x.claimed /\ x.locked = y.locked
          /\ x.recorded = y.recorded /\ x.altered = y.altered
      BY <3>1, <1>b, <1>d DEF MigrationRecord, MigrationPlaces
    <3>4. MigrationOK(x, r, row, ledgerMade)  BY <2>1, <2>2, <3>3, <1>b DEF MigrationOK, HoldsRow
    <3>5. ASSUME NEW o \in Others(m) PROVE ~HoldsRow(mig[o])
      BY <2>1, <2>2, <1>f DEF Others, HoldsRow, MigrationOK
    <3> QED BY <2>1, <3>2, <3>4, <3>5, <1>0, MigrationMoves
  <2>3. CASE row # None
    <3>1. PICK x : x = [y EXCEPT !.at = "lock"]  OBVIOUS
    <3>2. Becomes(m, x)  BY <1>3, <2>3, <3>1, <1>0 DEF ClaimRow
    <3>3. MigrationRecord(x) /\ x.at = "lock" /\ x.made = y.made /\ x.claimed = y.claimed /\ x.locked = y.locked
          /\ x.recorded = y.recorded /\ x.altered = y.altered
      BY <3>1, <1>b DEF MigrationRecord, MigrationPlaces
    <3>4. MigrationOK(x, r, row, ledgerMade) /\ ~HoldsRow(x)
      BY <2>1, <2>3, <3>3, <1>b DEF MigrationOK, HoldsRow
    <3> QED BY <2>1, <3>2, <3>4, <1>0, MigrationMoves
  <2> QED BY <2>2, <2>3
<1>4. CASE LockRow(m)
  <2>1. UNCHANGED <<release, ledgerMade, row, physical>> /\ y.at = "lock" /\ ~\E o \in Others(m) : RowLockedBy(o)
    BY <1>4, <1>0 DEF LockRow
  <2>2. PICK x : x = [y EXCEPT !.at = "plan", !.locked = TRUE, !.recorded = row, !.row = row]  OBVIOUS
  <2>3. Becomes(m, x)  BY <1>4, <2>2, <1>0 DEF LockRow
  <2>4. MigrationRecord(x) /\ x.at = "plan" /\ x.made = y.made /\ x.claimed = y.claimed /\ x.locked
        /\ x.recorded = row /\ x.altered = y.altered
    BY <2>2, <1>a, <1>b DEF MigrationRecord, MigrationPlaces
  <2>5. MigrationOK(x, r, row, ledgerMade)  BY <2>1, <2>4, <1>b DEF MigrationOK, HoldsRow
  <2>6. \A o \in Others(m) : ~HoldsRow(mig[o])  BY <2>1 DEF RowLockedBy, HoldsRow
  <2> QED BY <2>1, <2>3, <2>5, <2>6, <1>0, MigrationMoves
<1>5. CASE PlanMigration(m)
  <2>1. UNCHANGED <<release, ledgerMade, row, physical>> /\ y.at = "plan" /\ plan.kind # "refused"
    BY <1>5, <1>0, <1>g DEF PlanMigration, Planned
  <2>2. PICK x : x = [y EXCEPT !.plan = plan.steps, !.at = IF plan.kind \in {"fresh", "upgrade"} THEN "run" ELSE "validate"]
    OBVIOUS
  <2>3. Becomes(m, x)  BY <1>5, <2>2, <1>0, <1>g DEF PlanMigration, Planned
  <2>4. MigrationRecord(x) /\ x.at = (IF plan.kind \in {"fresh", "upgrade"} THEN "run" ELSE "validate")
        /\ x.made = y.made /\ x.claimed = y.claimed /\ x.locked = y.locked
        /\ x.recorded = y.recorded /\ x.altered = y.altered /\ x.plan = plan.steps
    BY <2>2, <1>b DEF MigrationRecord, MigrationPlaces
  <2>5. KindOf(r, x) = plan.kind  BY <2>4, <1>g DEF KindOf
  <2>6. HoldsRow(y) /\ ~y.altered  BY <2>1, <1>b DEF MigrationOK
  <2>7. y.recorded # None => y.recorded = row  BY <2>6, <1>b DEF MigrationOK, HoldsRow
  <2>8. MigrationOK(x, r, row, ledgerMade)
    BY <2>1, <2>4, <2>5, <2>6, <2>7, <1>b, <1>h DEF MigrationOK, HoldsRow, Alters
  <2> QED BY <2>1, <2>3, <2>6, <2>8, <1>0, MigrationMoves
<1>6. CASE RunStatements(m)
  <2>1. UNCHANGED <<release, ledgerMade, row, physical>> /\ y.at = "run"  BY <1>6, <1>0 DEF RunStatements
  <2>2. HoldsRow(y) /\ Alters(r, y)  BY <2>1, <1>b DEF MigrationOK
  <2>3. plan.kind \in {"fresh", "upgrade"}  BY <2>2, <1>g DEF Alters, KindOf
  <2>4. y.recorded \notin r.prepared  BY <2>3, <1>h
  <2>5. CASE y.recorded = None
    <3>1. row = None /\ ~y.altered  BY <2>1, <2>2, <2>5, <1>b DEF MigrationOK, HoldsRow
    <3>2. PhysicalFor(m) = None  BY <3>1, <1>0, <1>a DEF PhysicalFor
    <3>3. PICK x : x = [y EXCEPT !.altered = TRUE, !.physical = r.current, !.plan = <<>>, !.at = "validate"]  OBVIOUS
    <3>4. Becomes(m, x)  BY <1>6, <2>5, <3>2, <3>3, <1>0 DEF RunStatements
    <3>5. MigrationRecord(x) /\ x.at = "validate" /\ x.made = y.made /\ x.claimed = y.claimed /\ x.locked = y.locked
          /\ x.recorded = y.recorded /\ x.altered /\ x.physical = r.current
      BY <3>3, <1>b DEF MigrationRecord, MigrationPlaces
    <3>6. Alters(r, x)  BY <2>2, <3>5 DEF Alters, KindOf
    <3>7. MigrationOK(x, r, row, ledgerMade)
      BY <2>1, <2>2, <2>4, <3>5, <3>6, <1>b DEF MigrationOK, HoldsRow
    <3> QED BY <2>1, <2>2, <3>4, <3>7, <1>0, MigrationMoves
  <2>6. CASE y.recorded # None
    <3>1. PICK base : base = IF y.altered THEN y.physical ELSE row  OBVIOUS
    <3>2. Path(r, y.plan, base)  BY <2>1, <2>6, <3>1, <1>b DEF MigrationOK
    <3>3. PhysicalFor(m) = base  BY <3>1, <1>0, <1>a DEF PhysicalFor
    <3>4. PICK p : p = y.plan  OBVIOUS
    <3>5. /\ Len(p) \in Nat /\ Len(p) > 0 /\ p[1].from = base
          /\ (Len(p) = 1 => p[1].to = r.current)
          /\ (Len(p) # 1 => Path(r, Tail(p), p[1].to))
      BY <3>2, <3>4, <1>a, PathSteps
    <3>6. PICK made, rest : made = p[1].to /\ rest = Tail(p)  OBVIOUS
    <3>7. PICK x : x = [y EXCEPT !.altered = TRUE, !.physical = made, !.plan = rest,
                              !.at = IF Len(p) = 1 THEN "validate" ELSE "run"]
      OBVIOUS
    <3>8. Becomes(m, x)
      BY <1>6, <2>6, <3>3, <3>4, <3>5, <3>6, <3>7, <1>0 DEF RunStatements
    <3>9. MigrationRecord(x) /\ x.at = (IF Len(p) = 1 THEN "validate" ELSE "run") /\ x.made = y.made
          /\ x.claimed = y.claimed /\ x.locked = y.locked /\ x.recorded = y.recorded /\ x.altered
          /\ x.physical = made /\ x.plan = rest
      BY <3>7, <1>b DEF MigrationRecord, MigrationPlaces
    <3>10. Alters(r, x)  BY <2>2, <3>9 DEF Alters, KindOf
    <3>11. MigrationOK(x, r, row, ledgerMade)
      BY <2>1, <2>2, <2>4, <2>6, <3>5, <3>6, <3>9, <3>10, <1>b DEF MigrationOK, HoldsRow
    <3> QED BY <2>1, <2>2, <3>8, <3>11, <1>0, MigrationMoves
  <2> QED BY <2>5, <2>6
<1>7. CASE ValidateSchema(m)
  <2>1. UNCHANGED <<release, ledgerMade, row, physical>> /\ y.at = "validate"  BY <1>7, <1>0 DEF ValidateSchema
  <2>2. PICK x : x = [y EXCEPT !.at = IF y.altered THEN "record" ELSE "commit"]  OBVIOUS
  <2>3. Becomes(m, x)  BY <1>7, <2>2, <1>0 DEF ValidateSchema
  <2>4. MigrationRecord(x) /\ x.at = (IF y.altered THEN "record" ELSE "commit") /\ x.made = y.made
        /\ x.claimed = y.claimed /\ x.locked = y.locked /\ x.recorded = y.recorded /\ x.altered = y.altered
        /\ x.physical = y.physical
    BY <2>2, <1>b DEF MigrationRecord, MigrationPlaces
  <2>5. Alters(r, x) <=> Alters(r, y)  BY <2>4 DEF Alters, KindOf
  <2>6. MigrationOK(x, r, row, ledgerMade) /\ HoldsRow(y)
    BY <2>1, <2>4, <2>5, <1>b DEF MigrationOK, HoldsRow
  <2> QED BY <2>1, <2>3, <2>6, <1>0, MigrationMoves
<1>8. CASE RecordCompletion(m)
  <2>1. UNCHANGED <<release, ledgerMade, row, physical>> /\ y.at = "record"  BY <1>8, <1>0 DEF RecordCompletion
  <2>2. PICK x : x = [y EXCEPT !.at = "commit", !.locked = TRUE, !.row = r.current]  OBVIOUS
  <2>3. Becomes(m, x)  BY <1>8, <2>2, <1>0 DEF RecordCompletion
  <2>4. MigrationRecord(x) /\ x.at = "commit" /\ x.made = y.made
        /\ x.claimed = y.claimed /\ x.locked /\ x.recorded = y.recorded /\ x.altered = y.altered
        /\ x.physical = y.physical /\ x.row = r.current
    BY <2>2, <1>b, <1>d DEF MigrationRecord, MigrationPlaces
  <2>5. Alters(r, x) <=> Alters(r, y)  BY <2>4 DEF Alters, KindOf
  <2>6. MigrationOK(x, r, row, ledgerMade) /\ HoldsRow(y)
    BY <2>1, <2>4, <2>5, <1>b DEF MigrationOK, HoldsRow
  <2> QED BY <2>1, <2>3, <2>6, <1>0, MigrationMoves
<1>9. CASE MigrationRefused(m)
  <2>1. Becomes(m, Returns(m, "refused")) /\ UNCHANGED <<release, ledgerMade, row, physical>>
    BY <1>9 DEF MigrationRefused
  <2>2. CASE y.at = "plan" /\ Planned(m).kind = "refused"
    <3>1. KindOf(r, y) = "refused"  BY <2>2, <1>0 DEF Planned, KindOf
    <3> QED BY <2>1, <3>1, <1>0, ReturnsKeeps
  <2>3. ASSUME y.at = "validate", PhysicalFor(m) # ValidatesAs(m) PROVE FALSE
    <3>1. CASE y.altered
      <4>1. y.physical = r.current /\ y.recorded \notin r.prepared  BY <2>3, <3>1, <1>b DEF MigrationOK
      <4> QED BY <4>1, <3>1, <2>3, <1>0 DEF PhysicalFor, ValidatesAs
    <3>2. CASE ~y.altered
      <4>1. plan.kind \in {"current", "prepared"} /\ HoldsRow(y)  BY <2>3, <3>2, <1>b, <1>g DEF MigrationOK, KindOf
      <4>2. y.recorded # None  BY <4>1, <1>d, <1>h
      <4>3. y.recorded = row  BY <4>1, <4>2, <1>b DEF MigrationOK, HoldsRow
      <4>4. y.recorded = ValidatesAs(m)  BY <4>1, <1>0, <1>h DEF ValidatesAs
      <4> QED BY <4>3, <4>4, <3>2, <2>3, <1>0, <1>a DEF PhysicalFor
    <3> QED BY <3>1, <3>2
  <2>4. ASSUME y.at = "record", ~RowIsAsPlanned(m) PROVE FALSE
    <3>1. HoldsRow(y)  BY <2>4, <1>b DEF MigrationOK
    <3>2. y.claimed \/ y.recorded = row  BY <3>1, <1>b DEF MigrationOK, HoldsRow
    <3> QED BY <3>2, <2>4, <1>0 DEF RowIsAsPlanned
  <2> QED BY <1>9, <1>0, <2>2, <2>3, <2>4 DEF MigrationRefused
<1>10. CASE MigrationFails(m)
  BY <1>10, ReturnsKeeps DEF MigrationFails
<1> QED BY <1>1, <1>2, <1>3, <1>4, <1>5, <1>6, <1>7, <1>8, <1>9, <1>10


\* What a migration commits: the row and the tables it found, or both those of its
\* own release, from an older version or from nothing.
LEMMA CommitIs ==
  ASSUME LedgerInv, NEW m \in Migrators, CommitMigration(m)
  PROVE /\ HoldsRow(mig[m]) /\ UNCHANGED release
        /\ row' \in {None} \cup Targets /\ physical' = row'
        /\ row' = row \/ (row' = release[m].current /\ row' # None
                          /\ (row # None => Version(row) < Version(row')))
        /\ ledgerMade' \in BOOLEAN /\ (ledgerMade => ledgerMade') /\ (row' # None => ledgerMade')
<1>0. PICK y, r : y = mig[m] /\ r = release[m]  OBVIOUS
<1>a. r \in Releases /\ row \in {None} \cup Targets /\ physical = row /\ ledgerMade \in BOOLEAN
      /\ (row # None => ledgerMade)
  BY <1>0 DEF LedgerInv
<1>b. MigrationRecord(y) /\ MigrationOK(y, r, row, ledgerMade)  BY <1>0 DEF LedgerInv, MigrationOK
<1>c. y.recorded \in {None} \cup Targets /\ y.made \in BOOLEAN  BY <1>b DEF MigrationRecord
<1>d. r.current \in Targets /\ r.current # None  BY <1>a, StepsAre, LedgerAssumption
<1>1. /\ y.at = "commit" /\ row' = (IF y.altered THEN y.row ELSE row)
      /\ physical' = (IF y.altered THEN y.physical ELSE physical)
      /\ ledgerMade' = (ledgerMade \/ y.made) /\ UNCHANGED release
  BY <1>0 DEF CommitMigration, PhysicalFor
<1>2. HoldsRow(y)  BY <1>1, <1>b DEF MigrationOK
<1>3. ledgerMade \/ y.made  BY <1>1, <1>b DEF MigrationOK
<1>4. CASE ~y.altered  BY <1>0, <1>1, <1>2, <1>3, <1>4, <1>a, <1>c
<1>5. CASE y.altered
  <2>1. y.row = r.current /\ y.physical = r.current /\ Alters(r, y)  BY <1>1, <1>5, <1>b DEF MigrationOK
  <2>2. PICK plan : plan = PlanCompatible(r, y.recorded)  OBVIOUS
  <2>3. plan.kind \in {"fresh", "upgrade"}  BY <2>1, <2>2 DEF Alters, KindOf
  <2>4. (plan.kind = "fresh" => y.recorded = None) /\ (plan.kind = "upgrade" => Version(y.recorded) < Version(r.current))
    BY <1>a, <1>c, <2>2, PlanIs
  <2>5. row # None => y.recorded = row  BY <1>2, <1>b DEF MigrationOK, HoldsRow
  <2>6. row # None => Version(row) < Version(r.current)  BY <2>3, <2>4, <2>5
  <2> QED BY <1>0, <1>1, <1>2, <1>3, <1>5, <1>a, <1>c, <1>d, <2>1, <2>6
<1> QED BY <1>4, <1>5

\* A commit leaves no migration with a plan for a row that is no longer there.
LEMMA CommitKeeps == ASSUME LedgerInv, NEW m \in Migrators, CommitMigration(m) PROVE LedgerInv'
<1>1. /\ HoldsRow(mig[m]) /\ UNCHANGED release
      /\ row' \in {None} \cup Targets /\ physical' = row' /\ (row' = row \/ row' # None)
      /\ ledgerMade' \in BOOLEAN /\ (ledgerMade => ledgerMade') /\ (row' # None => ledgerMade')
  BY CommitIs
<1>2. PICK result \in {"ok", "failed"} : Becomes(m, Returns(m, result))  BY DEF CommitMigration
<1>3. PICK w : w = mig[m].recorded  OBVIOUS
<1>4. PICK n : n = mig[m].calls  OBVIOUS
<1>5. PICK nm : nm = NewMigration  OBVIOUS
<1>6. MigrationRecord(nm) /\ ~nm.claimed /\ ~nm.locked /\ ~nm.altered  BY <1>5, NewMigrationIs
<1>7. PICK x : x = [nm EXCEPT !.at = result, !.calls = n, !.recorded = w]  OBVIOUS
<1>8. w \in {None} \cup Targets  BY <1>3 DEF LedgerInv, MigrationOK, MigrationRecord
<1>9. MigrationRecord(x) /\ x.at = result /\ x.recorded = w /\ x.claimed = nm.claimed /\ x.locked = nm.locked
      /\ x.altered = nm.altered
  BY <1>6, <1>7, <1>8 DEF MigrationRecord, MigrationPlaces
<1>10. MigrationOK(x, release[m], row', ledgerMade') /\ ~HoldsRow(x)  BY <1>6, <1>9 DEF MigrationOK, HoldsRow
<1>11. mig = [o \in Migrators |-> mig[o]] /\ mig' = [mig EXCEPT ![m] = x]
  BY <1>2, <1>3, <1>4, <1>5, <1>7 DEF LedgerInv, Becomes, Returns
<1>12. mig' = [o \in Migrators |-> mig'[o]] /\ mig'[m] = x /\ \A o \in Migrators : o # m => mig'[o] = mig[o]
  BY <1>11
<1>13. \A o \in Migrators : ~HoldsRow(mig'[o]) /\ MigrationOK(mig'[o], release[o], row', ledgerMade')
  <2> SUFFICES ASSUME NEW o \in Migrators
               PROVE ~HoldsRow(mig'[o]) /\ MigrationOK(mig'[o], release[o], row', ledgerMade')
    OBVIOUS
  <2>1. CASE o = m  BY <2>1, <1>10, <1>12
  <2>2. CASE o # m
    <3>1. ~HoldsRow(mig[o]) /\ MigrationOK(mig[o], release[o], row, ledgerMade)  BY <2>2, <1>1 DEF LedgerInv
    <3>2. PICK y : y = mig[o]  OBVIOUS
    <3>3. y.at \notin {"plan", "run", "validate", "record", "commit"} /\ ~y.claimed /\ ~y.locked
      BY <3>1, <3>2 DEF MigrationOK, HoldsRow
    <3>4. ~y.altered  BY <3>1, <3>2, <3>3 DEF MigrationOK
    <3>5. MigrationOK(y, release[o], row', ledgerMade')
      BY <3>1, <3>2, <3>3, <3>4, <1>1 DEF MigrationOK, HoldsRow
    <3> QED BY <3>1, <3>2, <3>5, <2>2, <1>12
  <2> QED BY <2>1, <2>2
<1> QED BY <1>1, <1>12, <1>13 DEF LedgerInv

-----------------------------------------------------------------------------
(* The theorems.                                                             *)

\* Initially nobody has begun and the row describes the tables.
LEMMA LedgerInitInv == LedgerInit => LedgerInv
<1> SUFFICES ASSUME LedgerInit PROVE LedgerInv  OBVIOUS
<1>1. PICK nm : nm = NewMigration  OBVIOUS
<1>2. MigrationRecord(nm) /\ nm.recorded = None /\ ~nm.claimed /\ ~nm.locked /\ ~nm.altered  BY <1>1, NewMigrationIs
<1>3. nm.at = "idle"  BY <1>1 DEF NewMigration
<1>4. mig = [m \in Migrators |-> nm]  BY <1>1 DEF LedgerInit
<1>5. \A m \in Migrators : MigrationOK(mig[m], release[m], row, ledgerMade) /\ ~HoldsRow(mig[m])
  BY <1>2, <1>3, <1>4 DEF MigrationOK, HoldsRow
<1>6. mig = [m \in Migrators |-> mig[m]]  BY <1>4
<1>7. ledgerMade \in BOOLEAN /\ (row # None => ledgerMade)  BY DEF LedgerInit
<1> QED BY <1>5, <1>6, <1>7 DEF LedgerInit, LedgerInv

\* Every step keeps the invariant.
LEMMA LedgerNextKeeps == LedgerInv /\ [LedgerNext]_ledgerVars => LedgerInv'
<1> SUFFICES ASSUME LedgerInv, [LedgerNext]_ledgerVars PROVE LedgerInv'  OBVIOUS
<1>1. CASE LedgerNext
  <2>1. PICK m \in Migrators : Migration(m)  BY <1>1 DEF LedgerNext
  <2>2. CASE CommitMigration(m)  BY <2>2, CommitKeeps
  <2> QED BY <2>1, <2>2, MigrationWorks DEF Migration
<1>2. CASE UNCHANGED ledgerVars  BY <1>2 DEF ledgerVars, LedgerInv
<1> QED BY <1>1, <1>2

\* The invariant of the ledger holds in every reachable state.
THEOREM LedgerInvariance == LedgerSpec => []LedgerInv
<1> QED BY LedgerInitInv, LedgerNextKeeps, PTL DEF LedgerSpec

\* The ledger describes the tables, no migration is refused but by its own plan,
\* and a plan is the only chain of declared steps to the current target.
THEOREM LedgerSoundness == LedgerSpec => []LedgerIsSound
<1>1. LedgerInv => LedgerIsSound
  <2> SUFFICES ASSUME LedgerInv PROVE LedgerIsSound  OBVIOUS
  <2>1. LedgerTypeOK  BY DEF LedgerInv, LedgerTypeOK, RowLockedBy, HoldsRow
  <2>2. LedgerDescribesTables  BY DEF LedgerInv, LedgerDescribesTables
  <2>3. OnlyPlansAreRefused  BY DEF LedgerInv, MigrationOK, KindOf, OnlyPlansAreRefused
  <2>4. PlanIsTheOnlyChain
    <3> SUFFICES ASSUME NEW m \in Migrators, row # None, row # release[m].current, Valid(release[m])
                 PROVE IF Plan(release[m], row).kind = "refused" THEN OnlyChains(release[m], row) = {}
                       ELSE /\ Plan(release[m], row).kind = "upgrade"
                            /\ OnlyChains(release[m], row) = {Plan(release[m], row).steps}
      BY Zenon DEF PlanIsTheOnlyChain
    <3>1. release[m] \in Releases /\ row \in Targets  BY DEF LedgerInv
    <3> QED BY <3>1, PlanIsOnlyChain
  <2> QED BY <2>1, <2>2, <2>3, <2>4 DEF LedgerIsSound
<1> QED BY <1>1, LedgerInvariance, PTL

\* The recorded version only grows, and its fingerprint changes only with it.
THEOREM LedgerAdvances == LedgerSpec => SchemaNeverGoesBack
<1>1. LedgerInv /\ [LedgerNext]_ledgerVars =>
        [row # None /\ row' # row => row' # None /\ Version(row') > Version(row)]_ledgerVars
  <2> SUFFICES ASSUME LedgerInv, LedgerNext, row # None, row' # row PROVE row' # None /\ Version(row') > Version(row)
    OBVIOUS
  <2>1. PICK m \in Migrators : Migration(m)  BY DEF LedgerNext
  <2>2. CommitMigration(m)
    BY <2>1 DEF Migration, BeginMigration, CreateLedgerTable, ClaimRow, LockRow, PlanMigration, RunStatements,
                ValidateSchema, RecordCompletion, MigrationRefused, MigrationFails
  <2>3. row' # None /\ Version(row) < Version(row') /\ row \in Targets /\ row' \in Targets  BY <2>2, CommitIs DEF LedgerInv
  <2> QED BY <2>3, LedgerAssumption
<1> QED BY <1>1, LedgerInvariance, PTL DEF LedgerSpec, SchemaNeverGoesBack
=============================================================================
