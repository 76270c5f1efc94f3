----------------------------- MODULE StoresProofs -----------------------------
(***************************************************************************)
(* What is proved of the stores: the local vault, the key-value store and  *)
(* the topics with their subscriptions.                                    *)
(***************************************************************************)
EXTENDS Vault, KvStore, Topic, FiniteSetTheorems, WellFoundedInduction, TLAPS

(***************************************************************************)
(* The vault.  Every copy of it is whole and made under its own password,  *)
(* whoever holds the lock; while no live session lost its lock, the one    *)
(* session that edits works on what the file holds.                        *)
(***************************************************************************)
VaultUsers == [at : VaultPlaces, copy : Vaults, password : Passwords, lost : BOOLEAN]

\* A whole vault whose values its own password decrypts; without an id there is none.
SoundVault(v) ==
    /\ v \in Vaults /\ v.whole
    /\ v.id = 0 => v = NoVault
    /\ \A n \in DOMAIN v.env : Decrypts(v, v.password, n)

UserOK(s) ==
    /\ s \in VaultUsers /\ SoundVault(s.copy)
    /\ s.at \in {"unlock", "menu", "writing", "staged", "written"} => s.copy.id # 0
    /\ s.at \in {"menu", "writing", "staged", "written"} => s.copy.password = s.password
    /\ s.at = "confirm" => Missing(s.copy) = {}

\* The session has in memory what the file holds, or what it will write over it.
FileOK(s, file) ==
    /\ s.at \in {"prompt", "unlock", "menu", "written"} => s.copy = file
    /\ s.at \in {"writing", "staged"} => Missing(s.copy) \subseteq Missing(file)

VaultInv ==
    /\ SoundVault(disk) /\ vaultLock \in Processes \union {Gone} /\ created \in 0 .. MaxVaults
    /\ displaced \in BOOLEAN /\ reported \in [ready : BOOLEAN, refused : {FALSE}]
    /\ user \in [Processes -> VaultUsers]
    /\ \A u \in Processes : UserOK(user[u])
    /\ ~displaced =>
          /\ reported.ready => Missing(disk) = {}
          /\ \A u \in Processes : user[u].at \in SessionPlaces => vaultLock = u /\ FileOK(user[u], disk)


\* The file before there is a vault.
LEMMA NoVaultIs ==
    /\ SoundVault(NoVault) /\ NoVault.id = 0 /\ NoVault.password \in Passwords /\ NoVault.whole /\ DOMAIN NoVault.env = {}
    /\ NewUser \in VaultUsers /\ UserOK(NewUser) /\ NewUser.at = "idle" /\ NewUser.copy = NoVault
  <1>1. PICK w \in Passwords : w = (CHOOSE x \in Passwords : TRUE)
    BY VaultAssumption
  <1>2. NoVault = [id |-> 0, password |-> w, env |-> <<>>, whole |-> TRUE]
    BY <1>1 DEF NoVault
  <1>3. <<>> \in Envs /\ DOMAIN <<>> = {}
    <2>1. <<>> \in [{} -> Ciphertexts] /\ {} \in SUBSET Names
      OBVIOUS
    <2> QED
      BY <2>1 DEF Envs
  <1>4. NoVault \in Vaults /\ NoVault.id = 0 /\ NoVault.password = w /\ NoVault.whole /\ NoVault.env = <<>>
    BY <1>2, <1>3, VaultAssumption DEF Vaults
  <1>5. SoundVault(NoVault)
    BY <1>3, <1>4 DEF SoundVault
  <1>6. /\ NewUser \in VaultUsers /\ NewUser.at = "idle" /\ NewUser.copy = NoVault
    BY <1>4 DEF NewUser, VaultUsers, VaultPlaces
  <1>7. UserOK(NewUser)
    BY <1>5, <1>6 DEF UserOK
  <1> QED
    BY <1>3, <1>4, <1>5, <1>6, <1>7

\* The names a vault has, and those it misses.
LEMMA EnvIs ==
    ASSUME NEW v \in Vaults
    PROVE  /\ v.env \in Envs /\ DOMAIN v.env \subseteq Names /\ v.env \in [DOMAIN v.env -> Ciphertexts]
           /\ \A S \in SUBSET Names : [S -> Ciphertexts] \subseteq Envs
  BY DEF Vaults, Envs

\* A process goes on without touching the file.
LEMMA UserStep ==
    ASSUME VaultInv, NEW u \in Processes, NEW s, user' = [user EXCEPT ![u] = s], UNCHANGED <<disk, vaultLock, displaced>>,
           created' \in 0 .. MaxVaults, reported' \in [ready : BOOLEAN, refused : {FALSE}], reported'.ready = reported.ready,
           UserOK(s), s.at \in SessionPlaces => user[u].at \in SessionPlaces,
           (~displaced /\ s.at \in SessionPlaces) => FileOK(s, disk)
    PROVE  VaultInv'
  <1>1. user \in [Processes -> VaultUsers] /\ s \in VaultUsers
    BY DEF VaultInv, UserOK
  <1>2. user' \in [Processes -> VaultUsers] /\ \A d \in Processes : user'[d] = (IF d = u THEN s ELSE user[d])
    BY <1>1
  <1>3. PICK next : next = user'
    OBVIOUS
  <1>4. \A d \in Processes : UserOK(next[d])
    BY <1>2, <1>3 DEF VaultInv
  <1>5. ~displaced => \A d \in Processes : next[d].at \in SessionPlaces => vaultLock = d /\ FileOK(next[d], disk)
    BY <1>2, <1>3 DEF VaultInv
  <1> QED
    BY <1>1, <1>2, <1>3, <1>4, <1>5 DEF VaultInv

\* A session ends, or a process dies.
LEMMA EndKeeps ==
    ASSUME VaultInv, NEW u \in Processes, SessionEnds(u), UNCHANGED disk
    PROVE  VaultInv'
  <1>1. user \in [Processes -> VaultUsers] /\ user' = [user EXCEPT ![u] = NewUser]
    BY DEF VaultInv, SessionEnds
  <1>2. user' \in [Processes -> VaultUsers] /\ \A d \in Processes : user'[d] = (IF d = u THEN NewUser ELSE user[d])
    BY <1>1, NoVaultIs
  <1>3. PICK next : next = user'
    OBVIOUS
  <1>4. \A d \in Processes : UserOK(next[d])
    BY <1>2, <1>3, NoVaultIs DEF VaultInv
  <1>5. ~displaced => \A d \in Processes : next[d].at \in SessionPlaces => d # u /\ vaultLock = d /\ FileOK(next[d], disk)
    BY <1>2, <1>3, NoVaultIs DEF VaultInv, SessionPlaces
  <1>6. vaultLock' = (IF vaultLock = u THEN Gone ELSE vaultLock) /\ UNCHANGED <<created, displaced, reported>>
    BY DEF SessionEnds
  <1>7. ~displaced => \A d \in Processes : next[d].at \in SessionPlaces => vaultLock' = d /\ FileOK(next[d], disk)
    BY <1>5, <1>6
  <1> QED
    BY <1>2, <1>3, <1>4, <1>6, <1>7 DEF VaultInv

\* A session that may go on does, or ends.
LEMMA OwnedStep ==
    ASSUME VaultInv, NEW u \in Processes, NEW place \in SessionPlaces, IfStillOwned(u, place), UNCHANGED disk,
           user[u].at \in SessionPlaces,
           \A s : (s.at = place /\ s.copy = user[u].copy /\ s.password = user[u].password /\ s \in VaultUsers) =>
                     UserOK(s) /\ (~displaced => FileOK(s, disk))
    PROVE  VaultInv'
  <1>1. CASE user[u].lost
    BY <1>1, EndKeeps DEF IfStillOwned
  <1>2. CASE ~user[u].lost
    <2>1. user[u] \in VaultUsers /\ user \in [Processes -> VaultUsers] /\ place \in VaultPlaces
      BY DEF VaultInv, SessionPlaces
    <2>2. PICK s : s = [user[u] EXCEPT !.at = place]
      OBVIOUS
    <2>3. s \in VaultUsers /\ s.at = place /\ s.copy = user[u].copy /\ s.password = user[u].password
      BY <2>1, <2>2 DEF VaultUsers
    <2>4. user' = [user EXCEPT ![u] = s] /\ UNCHANGED <<vaultLock, created, displaced, reported>>
      BY <1>2, <2>1, <2>2 DEF IfStillOwned
    <2>5. UserOK(s) /\ (~displaced => FileOK(s, disk))
      BY <2>3
    <2>6. created' \in 0 .. MaxVaults /\ reported' \in [ready : BOOLEAN, refused : {FALSE}] /\ reported'.ready = reported.ready
      BY <2>4 DEF VaultInv
    <2> QED
      BY <2>4, <2>5, <2>6, UserStep
  <1> QED
    BY <1>1, <1>2


\* A session takes the lock.
LEMMA AcquireKeeps ==
    ASSUME VaultInv, NEW u \in Processes, AcquireVaultLock(u)
    PROVE  VaultInv'
  <1>1. PICK s : s = [NewUser EXCEPT !.at = "locked"]
    OBVIOUS
  <1>2. s \in VaultUsers /\ s.at = "locked" /\ s.copy = NoVault /\ SoundVault(s.copy)
    BY <1>1, NoVaultIs DEF VaultUsers, VaultPlaces
  <1>3. UserOK(s) /\ FileOK(s, disk)
    BY <1>2 DEF UserOK, FileOK
  <1>4. /\ user \in [Processes -> VaultUsers] /\ user' = [user EXCEPT ![u] = s] /\ vaultLock' = u
        /\ displaced' = (displaced \/ vaultLock # Gone) /\ UNCHANGED <<disk, created, reported>>
    BY <1>1 DEF VaultInv, AcquireVaultLock
  <1>5. user' \in [Processes -> VaultUsers] /\ \A d \in Processes : user'[d] = (IF d = u THEN s ELSE user[d])
    BY <1>2, <1>4
  <1>6. PICK next : next = user'
    OBVIOUS
  <1>7. \A d \in Processes : UserOK(next[d])
    BY <1>3, <1>5, <1>6 DEF VaultInv
  <1>8. ~displaced' => \A d \in Processes : next[d].at \in SessionPlaces => d = u
    <2>1. Gone \notin Processes
      BY VaultAssumption
    <2> QED
      BY <1>4, <1>5, <1>6, <2>1 DEF VaultInv
  <1>9. ~displaced' => \A d \in Processes : next[d].at \in SessionPlaces => vaultLock' = d /\ FileOK(next[d], disk)
    BY <1>3, <1>4, <1>5, <1>6, <1>8
  <1>10. displaced' \in BOOLEAN /\ (~displaced' => ~displaced)
    BY <1>4 DEF VaultInv
  <1> QED
    BY <1>4, <1>5, <1>6, <1>7, <1>9, <1>10 DEF VaultInv

\* The steps of a session before the menu.
LEMMA OpeningKeeps ==
    ASSUME VaultInv, NEW u \in Processes,
           NoticeLoss(u) \/ ReadForConfigure(u) \/ PromptPassword(u) \/ UnlockForConfigure(u)
    PROVE  VaultInv'
  <1>1. PICK s \in VaultUsers : s = user[u]
    BY DEF VaultInv
  <1>2. /\ UserOK(s) /\ SoundVault(disk) /\ user \in [Processes -> VaultUsers]
        /\ (~displaced /\ s.at \in SessionPlaces) => FileOK(s, disk)
    BY <1>1 DEF VaultInv
  <1>3. created \in 0 .. MaxVaults /\ reported \in [ready : BOOLEAN, refused : {FALSE}] /\ MaxVaults \in Nat
    BY VaultAssumption DEF VaultInv
  <1>4. CASE NoticeLoss(u)
    <2>1. PICK r : r = [s EXCEPT !.lost = TRUE]
      OBVIOUS
    <2>2. r \in VaultUsers /\ r.at = s.at /\ r.copy = s.copy /\ r.password = s.password
      BY <2>1 DEF VaultUsers
    <2>3. UserOK(r) /\ (FileOK(s, disk) => FileOK(r, disk))
      BY <1>2, <2>2 DEF UserOK, FileOK
    <2>4. user' = [user EXCEPT ![u] = r] /\ UNCHANGED <<disk, vaultLock, created, displaced, reported>>
      BY <1>1, <1>2, <1>4, <2>1 DEF NoticeLoss
    <2> QED
      BY <1>1, <1>2, <1>3, <2>2, <2>3, <2>4, UserStep
  <1>5. CASE ReadForConfigure(u)
    <2>1. CASE s.lost
      BY <1>1, <1>5, <2>1, EndKeeps DEF ReadForConfigure
    <2>2. CASE ~s.lost
      <3>1. PICK r : r = [s EXCEPT !.at = "prompt", !.copy = disk]
        OBVIOUS
      <3>2. r \in VaultUsers /\ r.at = "prompt" /\ r.copy = disk
        BY <1>2, <3>1 DEF VaultUsers, VaultPlaces, SoundVault
      <3>3. UserOK(r) /\ FileOK(r, disk)
        BY <1>2, <3>2 DEF UserOK, FileOK
      <3>4. user' = [user EXCEPT ![u] = r] /\ UNCHANGED <<disk, vaultLock, created, displaced, reported>>
        BY <1>1, <1>2, <1>5, <2>2, <3>1 DEF ReadForConfigure
      <3>5. user[u].at \in SessionPlaces
        BY <1>5 DEF ReadForConfigure, SessionPlaces, VaultPlaces
      <3> QED
        BY <1>3, <3>3, <3>4, <3>5, UserStep
    <2> QED
      BY <2>1, <2>2
  <1>6. CASE PromptPassword(u)
    <2>1. CASE SessionEnds(u)
      BY <1>6, <2>1, EndKeeps DEF PromptPassword
    <2>2. CASE ~SessionEnds(u)
      <3>1. PICK w \in Passwords :
               /\ IF CreatesVault(u)
                  THEN /\ created < MaxVaults /\ created' = created + 1
                       /\ user' = [user EXCEPT ![u].at = "writing", ![u].password = w, ![u].copy = NewVault(created + 1, w)]
                  ELSE user' = [user EXCEPT ![u].at = "unlock", ![u].password = w] /\ UNCHANGED created
               /\ UNCHANGED <<disk, vaultLock, displaced, reported>>
        BY <1>6, <2>2 DEF PromptPassword
      <3>2. s.at = "prompt" /\ user[u].at \in SessionPlaces
        BY <1>1, <1>6 DEF PromptPassword, SessionPlaces, VaultPlaces
      <3>3. CASE CreatesVault(u)
        <4>1. PICK n \in 1 .. MaxVaults : n = created + 1
          BY <1>3, <3>1, <3>3
        <4>2. PICK v : v = NewVault(n, w)
          OBVIOUS
        <4>3. v \in Vaults /\ v.whole /\ v.id = n /\ v.password = w /\ DOMAIN v.env = {}
          <5>1. PICK env \in Envs : env = <<>> /\ DOMAIN env = {}
            <6>1. <<>> \in [{} -> Ciphertexts] /\ {} \in SUBSET Names
              OBVIOUS
            <6> QED
              BY <6>1 DEF Envs
          <5>2. v = [id |-> n, password |-> w, env |-> env, whole |-> TRUE]
            BY <4>2, <5>1 DEF NewVault
          <5>3. n \in 0 .. MaxVaults
            BY <4>1, <1>3
          <5>4. v.whole /\ v.id = n /\ v.password = w /\ v.env = env
            BY <5>2
          <5>5. v \in Vaults
            BY <5>2, <5>3 DEF Vaults
          <5> QED
            BY <5>1, <5>4, <5>5
        <4>4. PICK r : r = [s EXCEPT !.at = "writing", !.password = w, !.copy = v]
          OBVIOUS
        <4>5. r \in VaultUsers /\ r.at = "writing" /\ r.copy = v /\ r.password = w
          BY <4>3, <4>4 DEF VaultUsers, VaultPlaces
        <4>6. SoundVault(v)
          BY <4>1, <4>3 DEF SoundVault
        <4>7. UserOK(r)
          BY <4>1, <4>3, <4>5, <4>6 DEF UserOK
        <4>8. ~displaced => FileOK(r, disk)
          <5>1. ~displaced => disk = NoVault
            BY <1>1, <1>2, <3>2, <3>3 DEF FileOK, CreatesVault
          <5>2. DOMAIN NoVault.env = {}
            BY NoVaultIs
          <5>3. Missing(v) \subseteq Required /\ Missing(NoVault) = Required
            BY <5>2 DEF Missing
          <5> QED
            BY <4>5, <5>1, <5>3 DEF FileOK
        <4>9. user' = [user EXCEPT ![u] = r] /\ created' \in 0 .. MaxVaults
          <5>1. /\ user' = [user EXCEPT ![u].at = "writing", ![u].password = w, ![u].copy = NewVault(created + 1, w)]
                /\ created' = created + 1 /\ v = NewVault(created + 1, w)
            BY <3>1, <3>3, <4>1, <4>2
          <5>2. user' = [user EXCEPT ![u].at = "writing", ![u].password = w, ![u].copy = v]
            BY <5>1
          <5>3. user' = [user EXCEPT ![u] = r]
            BY <1>1, <1>2, <4>4, <5>2
          <5>4. created' = n
            BY <4>1, <5>1
          <5>5. n \in 0 .. MaxVaults
            BY <1>3, <4>1
          <5> QED
            BY <5>3, <5>4, <5>5
        <4> QED
          BY <1>3, <3>1, <3>2, <4>7, <4>8, <4>9, UserStep
      <3>4. CASE ~CreatesVault(u)
        <4>1. PICK r : r = [s EXCEPT !.at = "unlock", !.password = w]
          OBVIOUS
        <4>2. r \in VaultUsers /\ r.at = "unlock" /\ r.copy = s.copy /\ r.password = w
          BY <4>1 DEF VaultUsers, VaultPlaces
        <4>3. UserOK(r)
          BY <1>1, <1>2, <3>4, <4>2 DEF UserOK, SoundVault, CreatesVault
        <4>4. ~displaced => FileOK(r, disk)
          BY <1>1, <1>2, <3>2, <4>2 DEF FileOK
        <4>5. user' = [user EXCEPT ![u] = r] /\ created' \in 0 .. MaxVaults
          BY <1>1, <1>2, <1>3, <3>1, <3>4, <4>1
        <4> QED
          BY <1>3, <3>1, <3>2, <4>3, <4>4, <4>5, UserStep
      <3> QED
        BY <3>3, <3>4
    <2> QED
      BY <2>1, <2>2
  <1>7. CASE UnlockForConfigure(u)
    <2>1. CASE ~Unlocks(s.copy, s.password)
      BY <1>1, <1>7, <2>1, EndKeeps DEF UnlockForConfigure
    <2>2. CASE Unlocks(s.copy, s.password)
      <3>1. IfStillOwned(u, "menu") /\ UNCHANGED disk /\ s.at = "unlock"
        BY <1>1, <1>7, <2>2 DEF UnlockForConfigure
      <3>2. "menu" \in SessionPlaces /\ s.at \in SessionPlaces
        BY <3>1 DEF SessionPlaces, VaultPlaces
      <3>3. ASSUME NEW r, r.at = "menu" /\ r.copy = s.copy /\ r.password = s.password /\ r \in VaultUsers
            PROVE  UserOK(r) /\ (~displaced => FileOK(r, disk))
        <4>1. UserOK(r)
          BY <1>2, <2>2, <3>1, <3>3 DEF UserOK, Unlocks
        <4>2. ~displaced => FileOK(r, disk)
          BY <1>2, <3>1, <3>2, <3>3 DEF FileOK
        <4> QED
          BY <4>1, <4>2
      <3> QED
        BY <1>1, <3>1, <3>2, <3>3, OwnedStep
    <2> QED
      BY <2>1, <2>2
  <1> QED
    BY <1>4, <1>5, <1>6, <1>7


\* The vault is staged, and the file is known to be written.
LEMMA WritingKeeps ==
    ASSUME VaultInv, NEW u \in Processes, StageVault(u) \/ VaultWritten(u)
    PROVE  VaultInv'
  <1>1. PICK s \in VaultUsers : s = user[u] /\ UserOK(s) /\ ((~displaced /\ s.at \in SessionPlaces) => FileOK(s, disk))
    BY DEF VaultInv
  <1>2. PICK place \in {"staged", "menu"} :
           /\ IfStillOwned(u, place) /\ UNCHANGED disk
           /\ s.at = (IF place = "staged" THEN "writing" ELSE "written")
    BY <1>1 DEF StageVault, VaultWritten
  <1>3. place \in SessionPlaces /\ s.at \in SessionPlaces
    BY <1>2 DEF SessionPlaces, VaultPlaces
  <1>4. ASSUME NEW r, r.at = place /\ r.copy = s.copy /\ r.password = s.password /\ r \in VaultUsers
        PROVE  UserOK(r) /\ (~displaced => FileOK(r, disk))
    <2>1. UserOK(r)
      BY <1>1, <1>2, <1>4 DEF UserOK
    <2>2. ~displaced => FileOK(r, disk)
      BY <1>1, <1>2, <1>3, <1>4 DEF FileOK
    <2> QED
      BY <2>1, <2>2
  <1> QED
    BY <1>1, <1>2, <1>3, <1>4, OwnedStep

\* The rename puts the session's copy in place.
LEMMA CommitKeeps ==
    ASSUME VaultInv, NEW u \in Processes, CommitVault(u)
    PROVE  VaultInv'
  <1>1. PICK s \in VaultUsers : s = user[u] /\ UserOK(s) /\ ((~displaced /\ s.at \in SessionPlaces) => FileOK(s, disk))
    BY DEF VaultInv
  <1>2. PICK r : r = [s EXCEPT !.at = "written"]
    OBVIOUS
  <1>3. r \in VaultUsers /\ r.at = "written" /\ r.copy = s.copy /\ r.password = s.password
    BY <1>2 DEF VaultUsers, VaultPlaces
  <1>4. /\ s.at = "staged" /\ s.at \in SessionPlaces /\ user \in [Processes -> VaultUsers] /\ user' = [user EXCEPT ![u] = r]
        /\ disk' = s.copy /\ UNCHANGED <<vaultLock, created, displaced, reported>>
    BY <1>1, <1>2 DEF VaultInv, CommitVault, CommittedVault, SessionPlaces, VaultPlaces
  <1>5. PICK next, file : next = user' /\ file = disk'
    OBVIOUS
  <1>6. next \in [Processes -> VaultUsers] /\ \A d \in Processes : next[d] = (IF d = u THEN r ELSE user[d])
    BY <1>3, <1>4, <1>5
  <1>7. UserOK(r) /\ FileOK(r, file) /\ SoundVault(file)
    BY <1>1, <1>3, <1>4, <1>5 DEF UserOK, FileOK
  <1>8. \A d \in Processes : UserOK(next[d])
    BY <1>6, <1>7 DEF VaultInv
  <1>9. ASSUME ~displaced
        PROVE  /\ reported.ready => Missing(file) = {}
               /\ \A d \in Processes : next[d].at \in SessionPlaces => vaultLock = d /\ FileOK(next[d], file)
    <2>1. vaultLock = u /\ Missing(file) \subseteq Missing(disk) /\ (reported.ready => Missing(disk) = {})
      BY <1>1, <1>4, <1>5, <1>9 DEF VaultInv, FileOK
    <2>2. \A d \in Processes : next[d].at \in SessionPlaces => d = u
      BY <1>4, <1>6, <1>9, <2>1 DEF VaultInv
    <2> QED
      BY <1>6, <1>7, <2>1, <2>2
  <1> QED
    BY <1>4, <1>5, <1>6, <1>7, <1>8, <1>9 DEF VaultInv

\* The menu's edits.
LEMMA EditsKeep ==
    ASSUME VaultInv, NEW u \in Processes, SetOneValue(u) \/ RemoveValuesNotRequired(u)
    PROVE  VaultInv'
  <1>1. PICK s \in VaultUsers : s = user[u] /\ UserOK(s) /\ ((~displaced /\ s.at \in SessionPlaces) => FileOK(s, disk))
    BY DEF VaultInv
  <1>2. s.at = "menu" /\ s.at \in SessionPlaces /\ user \in [Processes -> VaultUsers]
    BY <1>1 DEF VaultInv, SetOneValue, RemoveValuesNotRequired, SessionPlaces, VaultPlaces
  <1>3. PICK v \in Vaults : /\ v = s.copy /\ SoundVault(v) /\ v.id # 0 /\ v.password = s.password
                            /\ DOMAIN v.env \subseteq Names /\ v.env \in [DOMAIN v.env -> Ciphertexts]
    BY <1>1, <1>2, EnvIs DEF UserOK, SoundVault
  <1>4. \E env \in Envs : /\ user' = [user EXCEPT ![u] = [s EXCEPT !.at = "writing", !.copy = [v EXCEPT !.env = env]]]
                          /\ UNCHANGED <<disk, vaultLock, created, displaced, reported>>
                          /\ DOMAIN v.env \intersect Required \subseteq DOMAIN env
                          /\ \A n \in DOMAIN env : env[n].id = v.id /\ env[n].password = v.password
    <2>1. CASE SetOneValue(u)
      <3>1. PICK n \in Names, x \in Values :
               user' = [user EXCEPT ![u].at = "writing",
                      ![u].copy.env = [m \in DOMAIN @ \union {n} |->
                          IF m = n
                          THEN [id |-> user[u].copy.id, password |-> user[u].password, value |-> x]
                          ELSE @[m]]]
        BY <2>1 DEF SetOneValue
      <3>2. PICK new : new = [id |-> v.id, password |-> v.password, value |-> x]
        OBVIOUS
      <3>3. new \in Ciphertexts /\ new.id = v.id /\ new.password = v.password
        <4>1. v.id \in 1 .. MaxVaults /\ v.password \in Passwords
          BY <1>3, VaultAssumption DEF Vaults
        <4> QED
          BY <3>2, <4>1 DEF Ciphertexts
      <3>4. PICK env : env = [m \in DOMAIN v.env \union {n} |-> IF m = n THEN new ELSE v.env[m]]
        OBVIOUS
      <3>5. env \in [DOMAIN v.env \union {n} -> Ciphertexts] /\ DOMAIN v.env \union {n} \in SUBSET Names
        BY <1>3, <3>3, <3>4
      <3>6. env \in Envs /\ DOMAIN env = DOMAIN v.env \union {n}
        BY <3>4, <3>5, EnvIs
      <3>7. \A m \in DOMAIN env : env[m].id = v.id /\ env[m].password = v.password
        BY <1>3, <3>3, <3>4 DEF SoundVault, Decrypts
      <3>8. user' = [user EXCEPT ![u] = [s EXCEPT !.at = "writing", !.copy = [v EXCEPT !.env = env]]]
        BY <1>1, <1>2, <1>3, <3>1, <3>2, <3>4, Zenon
      <3> QED
        BY <2>1, <3>6, <3>7, <3>8 DEF SetOneValue
    <2>2. CASE RemoveValuesNotRequired(u)
      <3>1. PICK env : env = RetainedEntries(v.env)
        OBVIOUS
      <3>2. env = [m \in DOMAIN v.env \intersect Required |-> v.env[m]]
        BY <3>1 DEF RetainedEntries, Restrict
      <3>3. env \in [DOMAIN v.env \intersect Required -> Ciphertexts] /\ DOMAIN v.env \intersect Required \in SUBSET Names
        BY <1>3, <3>2
      <3>4. env \in Envs /\ DOMAIN env = DOMAIN v.env \intersect Required
        BY <3>2, <3>3, EnvIs
      <3>5. \A m \in DOMAIN env : env[m].id = v.id /\ env[m].password = v.password
        BY <1>3, <3>2 DEF SoundVault, Decrypts
      <3>6. user' = [user EXCEPT ![u] = [s EXCEPT !.at = "writing", !.copy = [v EXCEPT !.env = env]]]
        BY <1>1, <1>2, <1>3, <2>2, <3>1 DEF RemoveValuesNotRequired
      <3> QED
        BY <2>2, <3>4, <3>5, <3>6 DEF RemoveValuesNotRequired
    <2> QED
      BY <2>1, <2>2
  <1>5. PICK env \in Envs : /\ user' = [user EXCEPT ![u] = [s EXCEPT !.at = "writing", !.copy = [v EXCEPT !.env = env]]]
                            /\ UNCHANGED <<disk, vaultLock, created, displaced, reported>>
                            /\ DOMAIN v.env \intersect Required \subseteq DOMAIN env
                            /\ \A n \in DOMAIN env : env[n].id = v.id /\ env[n].password = v.password
    BY <1>4
  <1>6. PICK w : w = [v EXCEPT !.env = env]
    OBVIOUS
  <1>7. w \in Vaults /\ w.id = v.id /\ w.password = v.password /\ w.whole = v.whole /\ w.env = env
    BY <1>6 DEF Vaults
  <1>8. SoundVault(w)
    BY <1>3, <1>5, <1>7 DEF SoundVault, Decrypts
  <1>9. PICK r : r = [s EXCEPT !.at = "writing", !.copy = w]
    OBVIOUS
  <1>10. r \in VaultUsers /\ r.at = "writing" /\ r.copy = w /\ r.password = s.password
    BY <1>7, <1>9 DEF VaultUsers, VaultPlaces
  <1>11. UserOK(r)
    BY <1>3, <1>7, <1>8, <1>10 DEF UserOK
  <1>12. ~displaced => FileOK(r, disk)
    <2>1. Missing(w) \subseteq Missing(v)
      BY <1>5, <1>7 DEF Missing
    <2>2. ~displaced => v = disk
      BY <1>1, <1>2, <1>3 DEF FileOK
    <2> QED
      BY <1>10, <2>1, <2>2 DEF FileOK
  <1>13. /\ user' = [user EXCEPT ![u] = r] /\ created' \in 0 .. MaxVaults
         /\ reported' \in [ready : BOOLEAN, refused : {FALSE}] /\ reported'.ready = reported.ready
    BY <1>5, <1>6, <1>9 DEF VaultInv
  <1> QED
    BY <1>1, <1>2, <1>5, <1>11, <1>12, <1>13, UserStep


\* The commands that take no lock.
LEMMA CommandsKeep ==
    ASSUME VaultInv, NEW u \in Processes, CheckProfile(u) \/ ReadForRun(u) \/ RunChild(u)
    PROVE  VaultInv'
  <1>1. PICK s \in VaultUsers : s = user[u] /\ UserOK(s)
    BY DEF VaultInv
  <1>2. /\ user \in [Processes -> VaultUsers] /\ SoundVault(disk) /\ created \in 0 .. MaxVaults
        /\ reported \in [ready : BOOLEAN, refused : {FALSE}]
    BY DEF VaultInv
  <1>3. CASE CheckProfile(u)
    <2>1. PICK ready \in BOOLEAN : ready <=> Missing(disk) = {}
      OBVIOUS
    <2>2. PICK r : r = [reported EXCEPT !.ready = ready]
      OBVIOUS
    <2>3. r \in [ready : BOOLEAN, refused : {FALSE}] /\ r.ready = ready
      BY <1>2, <2>2
    <2>4. ready = (Missing(disk) = {})
      BY <2>1
    <2>5. reported' = r /\ UNCHANGED <<disk, vaultLock, user, created, displaced>>
      BY <1>3, <2>2, <2>4 DEF CheckProfile
    <2> QED
      BY <2>1, <2>3, <2>5 DEF VaultInv
  <1>4. CASE ReadForRun(u)
    <2>1. PICK r : r = [s EXCEPT !.at = "confirm", !.copy = disk]
      OBVIOUS
    <2>2. r \in VaultUsers /\ r.at = "confirm" /\ r.copy = disk
      BY <1>2, <2>1 DEF VaultUsers, VaultPlaces, SoundVault
    <2>3. UserOK(r) /\ r.at \notin SessionPlaces
      BY <1>2, <1>4, <2>2 DEF UserOK, SessionPlaces, ReadForRun
    <2>4. user' = [user EXCEPT ![u] = r] /\ UNCHANGED <<disk, vaultLock, created, displaced, reported>>
      BY <1>1, <1>2, <1>4, <2>1 DEF ReadForRun
    <2> QED
      BY <1>2, <2>3, <2>4, UserStep
  <1>5. CASE RunChild(u)
    <2>1. s.at = "confirm" /\ user' = [user EXCEPT ![u] = NewUser] /\ UNCHANGED <<disk, vaultLock, created, displaced>>
      BY <1>1, <1>5 DEF RunChild
    <2>2. PICK w \in Passwords : reported' = [reported EXCEPT !.refused = @ \/ (Unlocks(s.copy, w) /\ ~Projects(s.copy, w))]
      BY <1>1, <1>5 DEF RunChild
    <2>3. Unlocks(s.copy, w) => Projects(s.copy, w)
      BY <1>1, <2>1 DEF UserOK, SoundVault, Missing, Unlocks, Projects
    <2>4. reported' = reported
      <3>1. reported' = [reported EXCEPT !.refused = reported.refused \/ (Unlocks(s.copy, w) /\ ~Projects(s.copy, w))]
        BY <2>2
      <3>2. PICK refused : refused = (reported.refused \/ (Unlocks(s.copy, w) /\ ~Projects(s.copy, w)))
        OBVIOUS
      <3>3. reported.refused = FALSE
        BY <1>2
      <3>4. refused = FALSE
        BY <2>3, <3>2, <3>3
      <3> QED
        BY <1>2, <3>1, <3>2, <3>3, <3>4
    <2>5. reported' \in [ready : BOOLEAN, refused : {FALSE}] /\ reported'.ready = reported.ready /\ created' \in 0 .. MaxVaults
      BY <1>2, <2>1, <2>4
    <2>6. UserOK(NewUser) /\ NewUser.at \notin SessionPlaces
      BY NoVaultIs DEF SessionPlaces
    <2> QED
      BY <2>1, <2>5, <2>6, UserStep
  <1> QED
    BY <1>3, <1>4, <1>5

\* No vault, nobody at work.
LEMMA VaultInitInv == VaultInit => VaultInv
  <1> SUFFICES ASSUME VaultInit PROVE VaultInv
    OBVIOUS
  <1>1. /\ disk = NoVault /\ vaultLock = Gone /\ user = [u \in Processes |-> NewUser] /\ created = 0 /\ displaced = FALSE
        /\ reported = [ready |-> FALSE, refused |-> FALSE]
    BY DEF VaultInit
  <1>2. created \in 0 .. MaxVaults
    BY <1>1, VaultAssumption
  <1>3. reported \in [ready : BOOLEAN, refused : {FALSE}] /\ reported.ready = FALSE
    BY <1>1
  <1>4. \A u \in Processes : user[u] = NewUser /\ UserOK(user[u]) /\ user[u].at \notin SessionPlaces
    BY <1>1, NoVaultIs DEF SessionPlaces
  <1>5. user \in [Processes -> VaultUsers] /\ SoundVault(disk)
    BY <1>1, NoVaultIs
  <1> QED
    BY <1>1, <1>2, <1>3, <1>4, <1>5 DEF VaultInv

\* What holds of the file, of the lock and of every process while sessions come
\* and go.
THEOREM VaultInvariance == VaultSpec => []VaultInv
  <1>1. VaultInit => VaultInv
    BY VaultInitInv
  <1>2. VaultInv /\ [VaultNext]_vaultVars => VaultInv'
    <2> SUFFICES ASSUME VaultInv, [VaultNext]_vaultVars PROVE VaultInv'
      OBVIOUS
    <2>1. CASE UNCHANGED vaultVars
      BY <2>1 DEF vaultVars, VaultInv
    <2>2. ASSUME NEW u \in Processes, NoticeLoss(u) \/ ReadForConfigure(u) \/ PromptPassword(u) \/ UnlockForConfigure(u)
          PROVE  VaultInv'
      BY <2>2, OpeningKeeps
    <2>3. ASSUME NEW u \in Processes, StageVault(u) \/ VaultWritten(u)
          PROVE  VaultInv'
      BY <2>3, WritingKeeps
    <2>4. ASSUME NEW u \in Processes, VaultWriteFails(u) \/ LeaveMenu(u) \/ VaultUserDies(u)
          PROVE  VaultInv'
      BY <2>4, EndKeeps DEF VaultWriteFails, LeaveMenu, VaultUserDies
    <2>5. ASSUME NEW u \in Processes, SetOneValue(u) \/ RemoveValuesNotRequired(u)
          PROVE  VaultInv'
      BY <2>5, EditsKeep
    <2>6. ASSUME NEW u \in Processes, CheckProfile(u) \/ ReadForRun(u) \/ RunChild(u)
          PROVE  VaultInv'
      BY <2>6, CommandsKeep
    <2>7. ASSUME NEW u \in Processes, AcquireVaultLock(u) \/ CommitVault(u)
          PROVE  VaultInv'
      BY <2>7, AcquireKeeps, CommitKeeps
    <2> QED
      BY <2>1, <2>2, <2>3, <2>4, <2>5, <2>6, <2>7 DEF VaultNext
  <1> QED
    BY <1>1, <1>2, PTL DEF VaultSpec

\* The vault is whole, its password decrypts every value of it, sessions that keep
\* their lock lose no update and no profile that was ready (src/local_env_vault).
THEOREM VaultSoundness == VaultSpec => []VaultIsSound
  <1>1. VaultInv => VaultIsSound
    <2> SUFFICES ASSUME VaultInv PROVE VaultIsSound
      OBVIOUS
    <2>1. ASSUME NEW u \in Processes
          PROVE  /\ user[u].at \in VaultPlaces /\ user[u].copy \in Vaults /\ user[u].password \in Passwords
                 /\ user[u].at \in {"menu", "writing", "staged", "written"} =>
                       user[u].copy.id # 0 /\ user[u].copy.password = user[u].password
      BY DEF VaultInv, UserOK, VaultUsers
    <2>2. VaultTypeOK
      BY <2>1 DEF VaultInv, VaultTypeOK, SoundVault
    <2>3. VaultIsWhole
      BY DEF VaultInv, SoundVault, VaultIsWhole
    <2>4. UnlockedVaultDecrypts
      <3>1. \A u \in Processes : SoundVault(user[u].copy)
        BY DEF VaultInv, UserOK
      <3>2. SoundVault(disk) /\ ~reported.refused
        BY DEF VaultInv
      <3> QED
        BY <3>1, <3>2 DEF UnlockedVaultDecrypts, SoundVault
    <2>5. SessionSeesTheFile
      <3>1. "menu" \in SessionPlaces
        BY DEF SessionPlaces, VaultPlaces
      <3> QED
        BY <3>1 DEF VaultInv, FileOK, SessionSeesTheFile
    <2>6. ReadyStaysReady
      BY DEF VaultInv, ReadyStaysReady
    <2> QED
      BY <2>2, <2>3, <2>4, <2>5, <2>6 DEF VaultIsSound
  <1> QED
    BY <1>1, VaultInvariance, PTL

(***************************************************************************)
(* The key-value store.  While a transaction holds a row nobody else       *)
(* changes it, so what the transaction saw of it when it locked it stays   *)
(* true until it commits, however old the time it judged it by.            *)
(***************************************************************************)
Tables == UNION {[S -> Rows] : S \in SUBSET Keys}

Calls == {"none", "add"} \union ItemCalls

TxRecords ==
    [at : {"idle", "waiting", "locked", "done", "gave_up"}, call : Calls, key : Keys, seen : BOOLEAN,
     asked : Nat, tries : 0 .. LockAttempts, inserted : BOOLEAN, live : BOOLEAN,
     value : Value \union {Absent, Empty}, own : BOOLEAN, failed : BOOLEAN,
     row : Rows \union {Absent} \union [value : {Empty}, exp : Times], delta : Int]

Holds(s) == s.at \in {"locked", "done"}

\* A transaction over the committed rows at the time n, with the counter's total.
TxOK(s, rows, n, tot) ==
    /\ s \in TxRecords /\ s.asked <= n
    /\ s.inserted => ~s.live
    /\ s.call = "add" <=> (s.key = Counter /\ s.at # "idle")
    /\ s.key # Counter => s.delta = 0
    /\ s.at = "idle" => s.key = Counter
    /\ s.at # "idle" => s.call # "none"
    /\ s.at = "waiting" => /\ s.tries < LockAttempts /\ ~s.inserted /\ ~s.live
                           /\ s.seen => s.key \in DOMAIN rows
    /\ Holds(s) =>
          /\ s.inserted <=> s.key \notin DOMAIN rows
          /\ ~s.live => ~LiveIn(rows, s.key, n)
    /\ (s.at = "locked" /\ ~s.inserted) => s.row = rows[s.key] /\ s.value = s.row.value
    /\ s.at = "done" => s.row \in Rows \union {Absent}
    /\ (s.at = "done" /\ s.key = Counter) =>
          IF s.row = Absent THEN s.delta = 0 /\ Counter \notin DOMAIN rows
          ELSE s.row.exp = Never /\ s.row.value = tot + s.delta

CounterOK(rows, tot) ==
    IF Counter \in DOMAIN rows THEN rows[Counter].value = tot /\ rows[Counter].exp = Never
    ELSE tot = 0

Scans == [at : {"idle", "paging", "complete"}, after : Keys, got : SUBSET Items, stable : SUBSET Items]

ScanOK(s, rows, n) ==
    /\ s \in Scans
    /\ \A k \in s.stable : LiveIn(rows, k, n)
    /\ \A k \in s.stable : (k <= s.after \/ s.at = "complete") => k \in s.got

CleanupOK(s, rows, n, txs) ==
    /\ s \in [at : {"idle", "batches", "complete"}, due : SUBSET Keys]
    /\ \A k \in s.due :
          /\ k \in DOMAIN rows /\ ~LiveAt(rows[k], n)
          /\ \A t \in Txs : ~(Holds(txs[t]) /\ txs[t].key = k)
    /\ s.at = "complete" => s.due = {}

KvInv ==
    /\ clock \in 0 .. MaxClock /\ table \in Tables /\ total \in Int
    /\ tx \in [Txs -> TxRecords]
    /\ \A t \in Txs : TxOK(tx[t], table, clock, total)
    /\ \A t, u \in Txs : (t # u /\ Holds(tx[t]) /\ Holds(tx[u])) => tx[t].key # tx[u].key
    /\ CounterOK(table, total)
    /\ ScanOK(scan, table, clock)
    /\ CleanupOK(cleanup, table, clock, tx)
    /\ winners \in [Items -> {0, 1}]

\* The configuration.
LEMMA KvConfig ==
    /\ Counter \in Int /\ Items \subseteq Int /\ Counter \notin Items /\ (\A k \in Items : Counter < k) /\ IsFiniteSet(Items)
    /\ MaxValue \in Nat \ {0} /\ LockAttempts \in Nat \ {0} /\ BatchSize \in Nat \ {0} /\ Ttl \in Nat \ {0}
    /\ MaxClock \in Nat /\ Deltas \subseteq Int /\ Empty \notin Int /\ Never \notin Int /\ Absent \notin Rows
    /\ Keys = {Counter} \union Items /\ Keys \subseteq Int /\ 0 \in Value /\ 1 \in Value /\ Value \subseteq Int
  BY KvAssumption, NothingAssumption DEF Keys, Value

\* Tables and their rows.
LEMMA TableIs ==
    /\ \A rows \in Tables : DOMAIN rows \subseteq Keys /\ rows \in [DOMAIN rows -> Rows]
    /\ \A S \in SUBSET Keys : [S -> Rows] \subseteq Tables
    /\ \A row \in Rows : row.value \in Value /\ row.exp \in Times \union {Never}
    /\ <<>> \in Tables /\ DOMAIN <<>> = {}
  <1>1. <<>> \in [{} -> Rows] /\ {} \in SUBSET Keys /\ DOMAIN <<>> = {}
    OBVIOUS
  <1>2. /\ \A rows \in Tables : DOMAIN rows \subseteq Keys /\ rows \in [DOMAIN rows -> Rows]
        /\ \A S \in SUBSET Keys : [S -> Rows] \subseteq Tables
    BY DEF Tables
  <1>3. \A row \in Rows : row.value \in Value /\ row.exp \in Times \union {Never}
    BY DEF Rows
  <1> QED
    BY <1>1, <1>2, <1>3

\* A set of numbers has a smallest one.
LEMMA LeastNumber ==
    ASSUME NEW T \in SUBSET Nat, T # {}
    PROVE  \E least \in T : \A r \in T : least <= r
  <1>1. PICK R : IsWellFoundedOn(R, Nat) /\ \A x, y \in Nat : y < x => <<y, x>> \in R
    <2>1. \A x, y \in Nat : y < x => <<y, x>> \in OpToRel(<, Nat)
      BY DEF OpToRel
    <2> QED
      BY <2>1, NatLessThanWellFounded
  <1>2. PICK x \in T : \A y \in T : ~(<<y, x>> \in R)
    BY <1>1, WFMin
  <1>3. ASSUME NEW y \in T
        PROVE  x <= y
    <2>1. x \in Nat /\ y \in Nat /\ <<y, x>> \notin R
      BY <1>2
    <2>2. ~(y < x)
      BY <1>1, <2>1
    <2> QED
      BY <2>1, <2>2
  <1> QED
    BY <1>3

\* The first elements of a set, in the order R, up to a limit.
FirstOf(S, R, limit) == {x \in S : Cardinality({y \in S : <<y, x>> \in R}) < limit}

\* What is taken in order, up to a limit, is everything when it stays below it.
LEMMA FirstOnes ==
    ASSUME NEW S, IsFiniteSet(S), NEW R, NEW limit \in Nat,
           \A x, y, z \in S : (<<x, y>> \in R /\ <<y, z>> \in R) => <<x, z>> \in R,
           \A x \in S : <<x, x>> \notin R
    PROVE  Cardinality(FirstOf(S, R, limit)) < limit => FirstOf(S, R, limit) = S
  <1>1. PICK Before : Before = [x \in S |-> {y \in S : <<y, x>> \in R}]
    OBVIOUS
  <1>2. PICK Rank : Rank = [x \in S |-> Cardinality(Before[x])]
    OBVIOUS
  <1>3. PICK first : first = {x \in S : Rank[x] < limit}
    OBVIOUS
  <1>4. first = FirstOf(S, R, limit)
    BY <1>1, <1>2, <1>3 DEF FirstOf
  <1>5. ASSUME NEW x \in S
        PROVE  Before[x] \in SUBSET S /\ IsFiniteSet(Before[x]) /\ Rank[x] = Cardinality(Before[x]) /\ Rank[x] \in Nat
    <2>1. Before[x] \in SUBSET S /\ Rank[x] = Cardinality(Before[x])
      BY <1>1, <1>2
    <2>2. IsFiniteSet(Before[x])
      BY <2>1, FS_Subset
    <2> QED
      BY <2>1, <2>2, FS_CardinalityType
  <1>6. first \in SUBSET S /\ IsFiniteSet(first) /\ Cardinality(first) \in Nat
    <2>1. first \in SUBSET S
      BY <1>3
    <2>2. IsFiniteSet(first)
      BY <2>1, FS_Subset
    <2> QED
      BY <2>1, <2>2, FS_CardinalityType
  <1>7. ASSUME Cardinality(first) < limit, first # S
        PROVE  FALSE
    <2>1. PICK T : T = {Rank[x] : x \in S \ first}
      OBVIOUS
    <2>2. T \in SUBSET Nat /\ T # {}
      BY <1>5, <1>6, <1>7, <2>1
    <2>3. PICK least \in T : \A r \in T : least <= r
      BY <2>2, LeastNumber
    <2>4. PICK x \in S : x \notin first /\ least = Rank[x]
      BY <2>1, <2>3
    <2>5. ASSUME NEW y \in Before[x]
          PROVE  y \in first
      <3>1. y \in S /\ <<y, x>> \in R
        BY <1>1, <2>4, <2>5
      <3>2. Before[y] \in SUBSET Before[x] /\ y \notin Before[y]
        BY <1>1, <2>4, <3>1
      <3>3. Rank[y] # Rank[x]
        BY <1>5, <2>4, <2>5, <3>1, <3>2, FS_Subset
      <3>4. Rank[y] <= Rank[x]
        BY <1>5, <2>4, <3>1, <3>2, FS_Subset
      <3>5. Rank[y] \in Nat /\ Rank[x] \in Nat
        BY <1>5, <2>4, <3>1
      <3>6. y \notin first => Rank[y] \in T
        BY <2>1, <3>1
      <3> QED
        BY <2>3, <2>4, <3>3, <3>4, <3>5, <3>6
    <2>6. Rank[x] <= Cardinality(first)
      <3>1. Before[x] \in SUBSET first
        BY <2>5
      <3> QED
        BY <1>5, <1>6, <2>4, <3>1, FS_Subset
    <2>7. Rank[x] \in Nat /\ ~(Rank[x] < limit)
      BY <1>3, <1>5, <2>4
    <2> QED
      BY <1>6, <1>7, <2>6, <2>7
  <1> QED
    BY <1>4, <1>7

\* A transaction that has not begun.
LEMMA NewTxIs ==
    /\ NewTx \in TxRecords /\ NewTx.at = "idle"
    /\ \A rows, n, tot : n \in Nat => TxOK(NewTx, rows, n, tot)
  <1>1. NewTx \in TxRecords
    BY KvConfig DEF NewTx, TxRecords, Calls
  <1>2. /\ NewTx.at = "idle" /\ NewTx.call = "none" /\ NewTx.key = Counter /\ NewTx.asked = 0 /\ NewTx.inserted = FALSE
        /\ NewTx.delta = 0
    BY DEF NewTx
  <1> QED
    BY <1>1, <1>2 DEF TxOK, Holds


\* The state, and who has locked what.
LEMMA KvIs ==
    ASSUME KvInv
    PROVE  /\ clock \in Nat /\ clock <= MaxClock /\ table \in Tables /\ total \in Int /\ tx \in [Txs -> TxRecords]
           /\ table \in [DOMAIN table -> Rows] /\ DOMAIN table \subseteq Keys
           /\ \A t \in Txs : TxOK(tx[t], table, clock, total) /\ tx[t] \in TxRecords
           /\ \A k : Unlocked(k) <=> \A t \in Txs : ~(Holds(tx[t]) /\ tx[t].key = k)
           /\ CounterOK(table, total) /\ ScanOK(scan, table, clock) /\ CleanupOK(cleanup, table, clock, tx)
           /\ winners \in [Items -> {0, 1}]
  <1>1. clock \in Nat /\ clock <= MaxClock
    BY KvConfig DEF KvInv
  <1>2. \A k : Unlocked(k) <=> \A t \in Txs : ~(Holds(tx[t]) /\ tx[t].key = k)
    BY DEF Unlocked, LockedBy, Holds
  <1> QED
    BY <1>1, <1>2, TableIs DEF KvInv

\* One transaction goes on; the committed rows stay.
LEMMA TxStep ==
    ASSUME KvInv, NEW t \in Txs, NEW s, tx' = [tx EXCEPT ![t] = s], UNCHANGED <<clock, table, scan, total, winners>>,
           TxOK(s, table, clock, total),
           Holds(s) => \A u \in Txs : (u # t /\ Holds(tx[u])) => tx[u].key # s.key,
           cleanup' \in {cleanup, [cleanup EXCEPT !.due = @ \ {s.key}]},
           \/ ~Holds(s) \/ (Holds(tx[t]) /\ tx[t].key = s.key) \/ s.key \notin DOMAIN table
           \/ cleanup' = [cleanup EXCEPT !.due = @ \ {s.key}]
    PROVE  KvInv'
  <1>1. tx \in [Txs -> TxRecords] /\ s \in TxRecords
    BY KvIs DEF TxOK
  <1>2. PICK txs : txs = tx'
    OBVIOUS
  <1>3. txs \in [Txs -> TxRecords] /\ \A u \in Txs : txs[u] = (IF u = t THEN s ELSE tx[u])
    BY <1>1, <1>2
  <1>4. \A u \in Txs : TxOK(txs[u], table, clock, total)
    BY <1>3, KvIs
  <1>5. \A u, v \in Txs : (u # v /\ Holds(txs[u]) /\ Holds(txs[v])) => txs[u].key # txs[v].key
    BY <1>3 DEF KvInv
  <1>6. PICK c : c = cleanup'
    OBVIOUS
  <1>7. CleanupOK(cleanup, table, clock, tx)
    BY KvIs
  <1>8. /\ c \in [at : {"idle", "batches", "complete"}, due : SUBSET Keys] /\ c.at = cleanup.at /\ c.due \subseteq cleanup.due
        /\ \/ ~Holds(s) \/ (Holds(tx[t]) /\ tx[t].key = s.key) \/ s.key \notin DOMAIN table \/ s.key \notin c.due
    BY <1>6, <1>7 DEF CleanupOK
  <1>9. CleanupOK(c, table, clock, txs)
    BY <1>3, <1>7, <1>8 DEF CleanupOK
  <1> QED
    BY <1>2, <1>3, <1>4, <1>5, <1>6, <1>9 DEF KvInv

\* What the other transactions know of rows that change to the given ones.
Noticed(txs, rows) ==
    [t \in Txs |-> IF txs[t].at = "waiting" /\ txs[t].key \in DOMAIN table \ DOMAIN rows
                   THEN [txs[t] EXCEPT !.seen = FALSE] ELSE txs[t]]

\* Transactions that go on or end, over rows that none of those that go on holds.
OthersKeep(txs, rows, tot) ==
    \A t \in Txs :
       /\ txs[t] \in {tx[t], NewTx}
       /\ (txs[t] = tx[t] /\ Holds(tx[t])) =>
            /\ tx[t].key \in DOMAIN rows <=> tx[t].key \in DOMAIN table
            /\ tx[t].key \in DOMAIN rows => rows[tx[t].key] = table[tx[t].key]
            /\ tx[t].key = Counter => tot = total

\* The transactions once new rows are committed, over those that nobody else holds:
\* a waiting one whose row is gone no longer sees it.
LEMMA RowsChange ==
    ASSUME KvInv, NEW rows \in Tables, NEW txs \in [Txs -> TxRecords], NEW tot \in Int, NEW next,
           next = Noticed(txs, rows), OthersKeep(txs, rows, tot)
    PROVE  /\ next \in [Txs -> TxRecords]
           /\ \A t \in Txs : TxOK(next[t], rows, clock, tot) /\ (Holds(next[t]) => Holds(tx[t]) /\ next[t].key = tx[t].key)
           /\ \A t, u \in Txs : (t # u /\ Holds(next[t]) /\ Holds(next[u])) => next[t].key # next[u].key
  <1>1. next = [t \in Txs |-> IF txs[t].at = "waiting" /\ txs[t].key \in DOMAIN table \ DOMAIN rows
                              THEN [txs[t] EXCEPT !.seen = FALSE] ELSE txs[t]]
    BY DEF Noticed
  <1>2. \A t \in Txs :
           /\ txs[t] \in {tx[t], NewTx}
           /\ (txs[t] = tx[t] /\ Holds(tx[t])) =>
                /\ tx[t].key \in DOMAIN rows <=> tx[t].key \in DOMAIN table
                /\ tx[t].key \in DOMAIN rows => rows[tx[t].key] = table[tx[t].key]
                /\ tx[t].key = Counter => tot = total
    BY DEF OthersKeep
  <1>3. ASSUME NEW t \in Txs
        PROVE  /\ next[t] \in TxRecords /\ TxOK(next[t], rows, clock, tot)
               /\ Holds(next[t]) => Holds(tx[t]) /\ next[t].key = tx[t].key
    <2>1. clock \in Nat /\ tx[t] \in TxRecords /\ TxOK(tx[t], table, clock, total)
      BY KvIs
    <2>2. CASE txs[t] = NewTx
      <3>1. next[t] = NewTx
        BY <1>1, <2>2, NewTxIs
      <3> QED
        BY <2>1, <3>1, NewTxIs DEF Holds
    <2>3. CASE txs[t] = tx[t] /\ tx[t].at = "waiting" /\ tx[t].key \in DOMAIN table \ DOMAIN rows
      <3>1. PICK s : s = [tx[t] EXCEPT !.seen = FALSE]
        OBVIOUS
      <3>2. /\ s \in TxRecords /\ s.at = "waiting" /\ s.seen = FALSE /\ s.call = tx[t].call /\ s.key = tx[t].key
            /\ s.asked = tx[t].asked /\ s.tries = tx[t].tries /\ s.inserted = tx[t].inserted /\ s.live = tx[t].live
            /\ s.delta = tx[t].delta
        BY <2>1, <2>3, <3>1 DEF TxRecords
      <3>3. TxOK(s, rows, clock, tot) /\ ~Holds(s)
        BY <2>1, <2>3, <3>2 DEF TxOK, Holds
      <3>4. next[t] = s
        BY <1>1, <2>3, <3>1
      <3> QED
        BY <3>2, <3>3, <3>4
    <2>4. CASE txs[t] = tx[t] /\ ~(tx[t].at = "waiting" /\ tx[t].key \in DOMAIN table \ DOMAIN rows)
      <3>1. next[t] = tx[t]
        BY <1>1, <2>4
      <3>2. CASE ~Holds(tx[t])
        BY <2>1, <2>4, <3>1, <3>2 DEF TxOK, Holds
      <3>3. CASE Holds(tx[t])
        <4>1. PICK s : s = tx[t]
          OBVIOUS
        <4>2. /\ s.key \in DOMAIN rows <=> s.key \in DOMAIN table
              /\ s.key \in DOMAIN rows => rows[s.key] = table[s.key]
              /\ s.key = Counter => tot = total
          BY <1>2, <2>4, <3>3, <4>1
        <4>3. TxOK(s, table, clock, total) /\ Holds(s)
          BY <2>1, <3>3, <4>1
        <4>4. LiveIn(rows, s.key, clock) <=> LiveIn(table, s.key, clock)
          BY <4>2 DEF LiveIn
        <4>5. TxOK(s, rows, clock, tot)
          BY <4>2, <4>3, <4>4 DEF TxOK, Holds
        <4> QED
          BY <2>1, <3>1, <3>3, <4>1, <4>5
      <3> QED
        BY <3>2, <3>3
    <2> QED
      BY <1>2, <2>2, <2>3, <2>4
  <1>4. next \in [Txs -> TxRecords]
    BY <1>1, <1>3
  <1>5. \A t, u \in Txs : (t # u /\ Holds(next[t]) /\ Holds(next[u])) => next[t].key # next[u].key
    BY <1>3 DEF KvInv
  <1> QED
    BY <1>3, <1>4, <1>5

\* New rows are committed, over those that nobody else holds.
LEMMA PublishKeeps ==
    ASSUME KvInv, NEW rows \in Tables, NEW txs \in [Txs -> TxRecords], NEW told, NEW tot \in Int,
           Publish(rows, txs, told), clock' = clock, total' = tot,
           OthersKeep(txs, rows, tot),
           \A k \in Items : k \in told => ~Live(k),
           CounterOK(rows, tot)
    PROVE  KvInv'
  <1>1. /\ table' = rows
        /\ winners' = [k \in Items |->
              IF ~LiveIn(rows, k, clock) THEN 0
              ELSE (IF Live(k) THEN winners[k] ELSE 0) + (IF k \in told THEN 1 ELSE 0)]
        /\ scan' = [scan EXCEPT !.stable = {k \in @ : LiveIn(rows, k, clock)}]
        /\ cleanup' = [cleanup EXCEPT !.due =
              {k \in @ : k \in DOMAIN rows /\ rows[k] = table[k] /\ \A t \in Txs : k \notin LockedBy(t)}]
        /\ tx' = [t \in Txs |->
              IF txs[t].at = "waiting" /\ txs[t].key \in DOMAIN table \ DOMAIN rows
              THEN [txs[t] EXCEPT !.seen = FALSE] ELSE txs[t]]
    BY DEF Publish
  <1>2. PICK next : next = tx'
    OBVIOUS
  <1>3. /\ next \in [Txs -> TxRecords]
        /\ \A t \in Txs : TxOK(next[t], rows, clock, tot) /\ (Holds(next[t]) => Holds(tx[t]) /\ next[t].key = tx[t].key)
        /\ \A t, u \in Txs : (t # u /\ Holds(next[t]) /\ Holds(next[u])) => next[t].key # next[u].key
    <2>1. next = Noticed(txs, rows)
      BY <1>1, <1>2 DEF Noticed
    <2> QED
      BY <2>1, RowsChange
  <1>6. ScanOK(scan', rows, clock)
    <2>1. PICK sc : sc = scan'
      OBVIOUS
    <2>2. /\ sc \in Scans /\ sc.at = scan.at /\ sc.after = scan.after /\ sc.got = scan.got
          /\ sc.stable = {k \in scan.stable : LiveIn(rows, k, clock)}
      <3>1. scan \in Scans
        BY KvIs DEF ScanOK
      <3> QED
        BY <1>1, <2>1, <3>1 DEF Scans
    <2> QED
      BY <2>1, <2>2, KvIs DEF ScanOK
  <1>7. CleanupOK(cleanup', rows, clock, next)
    <2>1. PICK c : c = cleanup'
      OBVIOUS
    <2>2. CleanupOK(cleanup, table, clock, tx)
      BY KvIs
    <2>3. /\ c \in [at : {"idle", "batches", "complete"}, due : SUBSET Keys] /\ c.at = cleanup.at
          /\ c.due = {k \in cleanup.due : k \in DOMAIN rows /\ rows[k] = table[k] /\ \A t \in Txs : k \notin LockedBy(t)}
      BY <1>1, <2>1, <2>2 DEF CleanupOK
    <2> QED
      BY <1>3, <2>1, <2>2, <2>3 DEF CleanupOK
  <1>8. winners' \in [Items -> {0, 1}]
    <2>1. ASSUME NEW k \in Items
          PROVE  winners'[k] \in {0, 1}
      <3>1. winners[k] \in {0, 1}
        BY KvIs
      <3> QED
        BY <1>1, <3>1
    <2>2. winners' = [k \in Items |-> winners'[k]]
      BY <1>1
    <2> QED
      BY <2>1, <2>2
  <1> QED
    BY <1>1, <1>2, <1>3, <1>6, <1>7, <1>8 DEF KvInv


\* A statement of its own, over items that nobody has locked.
LEMMA StatementKeeps ==
    ASSUME KvInv, NEW rows \in Tables, NEW told, NEW ks \in SUBSET Items, Publish(rows, tx, told), UNCHANGED <<clock, total>>,
           \A k \in ks : Unlocked(k), \A k \in Items : k \in told => ~Live(k),
           \A k \in Keys \ ks : /\ k \in DOMAIN rows <=> k \in DOMAIN table
                                /\ k \in DOMAIN rows => rows[k] = table[k]
    PROVE  KvInv'
  <1>1. Counter \in Keys \ ks /\ CounterOK(table, total) /\ total \in Int /\ tx \in [Txs -> TxRecords]
    BY KvConfig, KvIs
  <1>2. CounterOK(rows, total)
    BY <1>1 DEF CounterOK
  <1>3. ASSUME NEW t \in Txs, Holds(tx[t])
        PROVE  tx[t].key \in Keys \ ks
    BY <1>3, KvIs DEF TxRecords
  <1>4. clock' = clock /\ total' = total
    OBVIOUS
  <1>5. OthersKeep(tx, rows, total)
    BY <1>3 DEF OthersKeep
  <1> QED
    BY <1>1, <1>2, <1>4, <1>5, PublishKeeps

\* Times that statements and writers give.
LEMMA TimesAre ==
    ASSUME KvInv, NEW at \in StatementTimes \union {clock}, NEW ttl \in {Ttl, Never}
    PROVE  at \in Nat /\ at <= clock /\ at \in Times /\ Expiry(at, ttl) \in Times \union {Never} /\ at + Ttl \in Times
  <1>1. at \in Nat /\ at <= clock
    BY KvIs DEF StatementTimes
  <1>2. Times = 0 .. MaxClock + Ttl /\ Ttl \in Nat /\ MaxClock \in Nat /\ clock <= MaxClock /\ clock \in Nat
    BY KvIs, KvConfig DEF Times
  <1>3. at \in Times /\ at + Ttl \in Times
    BY <1>1, <1>2
  <1> QED
    BY <1>1, <1>3 DEF Expiry

\* A table with another row.
LEMMA WithIs ==
    ASSUME NEW rows \in Tables, NEW k \in Keys, NEW row \in Rows
    PROVE  /\ With(rows, k, row) \in Tables /\ DOMAIN With(rows, k, row) = DOMAIN rows \union {k}
           /\ With(rows, k, row)[k] = row
           /\ \A j \in DOMAIN rows : j # k => With(rows, k, row)[j] = rows[j]
  <1>1. PICK new : new = With(rows, k, row)
    OBVIOUS
  <1>2. DOMAIN rows \in SUBSET Keys /\ rows \in [DOMAIN rows -> Rows]
    BY TableIs
  <1>3. new = [j \in DOMAIN rows \union {k} |-> IF j = k THEN row ELSE rows[j]]
    BY <1>1 DEF With
  <1>4. new \in [DOMAIN rows \union {k} -> Rows] /\ DOMAIN rows \union {k} \in SUBSET Keys
    BY <1>2, <1>3
  <1>5. new \in Tables /\ DOMAIN new = DOMAIN rows \union {k} /\ new[k] = row /\ \A j \in DOMAIN rows : j # k => new[j] = rows[j]
    BY <1>3, <1>4, TableIs
  <1> QED
    BY <1>1, <1>5

\* A table without some of its rows.
LEMMA WithoutIs ==
    ASSUME NEW rows \in Tables, NEW gone
    PROVE  /\ Without(rows, gone) \in Tables /\ DOMAIN Without(rows, gone) = DOMAIN rows \ gone
           /\ \A j \in DOMAIN rows \ gone : Without(rows, gone)[j] = rows[j]
  <1>1. PICK new : new = Without(rows, gone)
    OBVIOUS
  <1>2. DOMAIN rows \in SUBSET Keys /\ rows \in [DOMAIN rows -> Rows]
    BY TableIs
  <1>3. new = [j \in DOMAIN rows \ gone |-> rows[j]]
    BY <1>1 DEF Without, Restrict
  <1>4. new \in [DOMAIN rows \ gone -> Rows] /\ DOMAIN rows \ gone \in SUBSET Keys
    BY <1>2, <1>3
  <1>5. new \in Tables /\ DOMAIN new = DOMAIN rows \ gone /\ \A j \in DOMAIN rows \ gone : new[j] = rows[j]
    BY <1>3, <1>4, TableIs
  <1> QED
    BY <1>1, <1>5

\* The statements that write.
LEMMA WritesKeep ==
    ASSUME KvInv,
           \/ \E ks \in SUBSET Items, ttl \in {Ttl, Never} : SetBytesMulti(ks, 0, ttl)
           \/ \E k \in Items : SetBytesIfNotExists(k, 0) \/ \E ttl \in {Ttl, Never} : SetBytes(k, 0, ttl)
    PROVE  KvInv'
  <1>1. table \in Tables /\ table \in [DOMAIN table -> Rows] /\ DOMAIN table \subseteq Keys /\ Items \subseteq Keys /\ 0 \in Value
    BY KvIs, KvConfig
  <1>2. ASSUME NEW ks \in SUBSET Items, NEW ttl \in {Ttl, Never}, NEW at \in StatementTimes,
               NEW row, row = [value |-> 0, exp |-> Expiry(at, ttl)], NEW rows, rows = Upserted(ks, row),
               Publish(rows, tx, {}), UNCHANGED <<clock, total>>, \A k \in ks : Unlocked(k)
        PROVE  KvInv'
    <2>1. row \in Rows
      BY <1>1, <1>2, TimesAre DEF Rows
    <2>2. rows = [k \in DOMAIN table \union ks |-> IF k \in ks THEN row ELSE table[k]]
      BY <1>2 DEF Upserted
    <2>3. DOMAIN table \union ks \in SUBSET Keys
      BY <1>1
    <2>4. rows \in [DOMAIN table \union ks -> Rows]
      BY <1>1, <2>1, <2>2
    <2>5. rows \in Tables
      BY <2>3, <2>4, TableIs
    <2>6. \A k \in Keys \ ks : /\ k \in DOMAIN rows <=> k \in DOMAIN table
                               /\ k \in DOMAIN rows => rows[k] = table[k]
      BY <2>2
    <2> QED
      BY <1>2, <2>5, <2>6, StatementKeeps
  <1>6. ASSUME NEW k \in Items, NEW row \in Rows, NEW rows, rows = With(table, k, row)
        PROVE  rows \in Tables /\ DOMAIN rows = DOMAIN table \union {k} /\ \A j \in DOMAIN table : j # k => rows[j] = table[j]
    <2>1. PICK old \in Tables : old = table
      BY <1>1
    <2>2. PICK key \in Keys : key = k
      BY <1>1
    <2>3. rows = With(old, key, row)
      BY <1>6, <2>1, <2>2
    <2>4. /\ rows \in Tables /\ DOMAIN rows = DOMAIN old \union {key}
          /\ \A j \in DOMAIN old : j # key => rows[j] = old[j]
      BY <2>1, <2>2, <2>3, <1>6, WithIs
    <2> QED
      BY <2>1, <2>2, <2>4
  <1>3. CASE \E ks \in SUBSET Items, ttl \in {Ttl, Never} : SetBytesMulti(ks, 0, ttl)
    <2>1. PICK ks \in SUBSET Items, ttl \in {Ttl, Never} : SetBytesMulti(ks, 0, ttl)
      BY <1>3
    <2>2. PICK at \in StatementTimes : Publish(Upserted(ks, [value |-> 0, exp |-> Expiry(at, ttl)]), tx, {})
      BY <2>1 DEF SetBytesMulti
    <2> QED
      BY <1>2, <2>1, <2>2 DEF SetBytesMulti
  <1>4. CASE \E k \in Items, ttl \in {Ttl, Never} : SetBytes(k, 0, ttl)
    <2>1. PICK k \in Items, ttl \in {Ttl, Never} : SetBytes(k, 0, ttl)
      BY <1>4
    <2>2. PICK at \in StatementTimes : Publish(Upserted({k}, [value |-> 0, exp |-> Expiry(at, ttl)]), tx, {})
      BY <2>1 DEF SetBytes
    <2>3. {k} \in SUBSET Items /\ \A j \in {k} : Unlocked(j)
      BY <2>1 DEF SetBytes
    <2>4. UNCHANGED <<clock, total>>
      BY <2>1 DEF SetBytes
    <2> QED
      BY <1>2, <2>2, <2>3, <2>4
  <1>5. CASE \E k \in Items : SetBytesIfNotExists(k, 0)
    <2>1. PICK k \in Items : SetBytesIfNotExists(k, 0)
      BY <1>5
    <2>2. PICK at \in StatementTimes : MayInsert(k, at) /\ Publish(With(table, k, [value |-> 0, exp |-> at + Ttl]), tx, {k})
      BY <2>1 DEF SetBytesIfNotExists
    <2>3. PICK row : row = [value |-> 0, exp |-> at + Ttl]
      OBVIOUS
    <2>4. row \in Rows
      <3>1. at + Ttl \in Times
        BY TimesAre
      <3> QED
        BY <1>1, <2>3, <3>1 DEF Rows
    <2>5. PICK rows : rows = With(table, k, row)
      OBVIOUS
    <2>6. rows \in Tables /\ DOMAIN rows = DOMAIN table \union {k} /\ \A j \in DOMAIN table : j # k => rows[j] = table[j]
      BY <1>6, <2>4, <2>5
    <2>7. \A j \in Keys \ {k} : (j \in DOMAIN rows <=> j \in DOMAIN table) /\ (j \in DOMAIN rows => rows[j] = table[j])
      BY <2>6
    <2>8. ~Live(k)
      <3>1. at \in Nat /\ at <= clock /\ clock \in Nat
        BY TimesAre, KvIs
      <3>2. k \in DOMAIN table => table[k].exp \in Nat \union {Never}
        <4>1. Times \subseteq Nat
          BY KvConfig DEF Times
        <4> QED
          BY <1>1, <4>1, TableIs
      <3>3. ASSUME k \in DOMAIN table
            PROVE  table[k].exp # Never /\ ~(table[k].exp > clock)
        <4>1. PICK e \in Nat : e = table[k].exp /\ e <= at /\ e # Never
          BY <2>2, <3>2, <3>3 DEF MayInsert
        <4> QED
          BY <3>1, <4>1
      <3> QED
        BY <3>3 DEF Live, LiveAt
    <2>9. /\ {k} \in SUBSET Items /\ (\A j \in {k} : Unlocked(j)) /\ (\A j \in Items : j \in {k} => ~Live(j))
          /\ Publish(rows, tx, {k}) /\ UNCHANGED <<clock, total>>
      BY <2>1, <2>2, <2>3, <2>5, <2>8 DEF SetBytesIfNotExists
    <2> QED
      BY <2>6, <2>7, <2>9, StatementKeeps
  <1> QED
    BY <1>3, <1>4, <1>5

\* The statements that change when a key expires, and those that delete.
LEMMA RemovalsKeep ==
    ASSUME KvInv,
           \/ \E k \in Items : ExpireKey(k) \/ DeleteKey(k) \/ \E ttl \in {Ttl, Never} : SetKeyTtl(k, ttl)
           \/ DeleteKeysWithPrefixOnce \/ DeleteEntireNamespace
    PROVE  KvInv'
  <1>1. table \in Tables /\ table \in [DOMAIN table -> Rows] /\ DOMAIN table \subseteq Keys /\ Items \subseteq Keys
    BY KvIs, KvConfig
  <1>2. ASSUME NEW k \in Items, NEW e \in Times \union {Never}, k \in DOMAIN table, Unlocked(k),
               Publish([table EXCEPT ![k].exp = e], tx, {}), UNCHANGED <<clock, total>>
        PROVE  KvInv'
    <2>1. PICK rows : rows = [table EXCEPT ![k].exp = e]
      OBVIOUS
    <2>2. PICK row : row = [table[k] EXCEPT !.exp = e]
      OBVIOUS
    <2>3. row \in Rows
      <3>1. table[k] \in Rows
        BY <1>1, <1>2
      <3> QED
        BY <2>2, <3>1 DEF Rows
    <2>4. rows = [table EXCEPT ![k] = row]
      BY <1>1, <2>1, <2>2
    <2>5. rows \in [DOMAIN table -> Rows]
      BY <1>1, <2>3, <2>4
    <2>6. rows \in Tables /\ DOMAIN rows = DOMAIN table
      BY <1>1, <2>5, TableIs
    <2>7. PICK ks \in SUBSET Items : ks = {k}
      OBVIOUS
    <2>8. \A j \in Keys \ ks : (j \in DOMAIN rows <=> j \in DOMAIN table) /\ (j \in DOMAIN rows => rows[j] = table[j])
      BY <1>1, <2>4, <2>6, <2>7
    <2>9. PICK told : told = {}
      OBVIOUS
    <2>10. Publish(rows, tx, told) /\ UNCHANGED <<clock, total>> /\ (\A j \in ks : Unlocked(j)) /\ \A j \in Items : j \in told => ~Live(j)
      BY <1>2, <2>1, <2>7, <2>9
    <2> QED
      BY <2>6, <2>8, <2>10, StatementKeeps
  <1>3. ASSUME NEW ks \in SUBSET Items, \A k \in ks : Unlocked(k), Publish(Without(table, ks), tx, {}), UNCHANGED <<clock, total>>
        PROVE  KvInv'
    <2>1. PICK rows : rows = Without(table, ks)
      OBVIOUS
    <2>2. rows \in Tables /\ DOMAIN rows = DOMAIN table \ ks /\ \A j \in DOMAIN table \ ks : rows[j] = table[j]
      BY <1>1, <2>1, WithoutIs
    <2>3. \A j \in Keys \ ks : (j \in DOMAIN rows <=> j \in DOMAIN table) /\ (j \in DOMAIN rows => rows[j] = table[j])
      BY <2>2
    <2> QED
      BY <1>3, <2>1, <2>2, <2>3, StatementKeeps
  <1>4. ASSUME NEW k \in Items, ExpireKey(k)
        PROVE  KvInv'
    <2>1. PICK at \in StatementTimes : k \in DOMAIN table /\ Publish([table EXCEPT ![k].exp = at], tx, {})
      BY <1>4 DEF ExpireKey, LiveIn
    <2>2. at \in Times
      BY TimesAre
    <2> QED
      BY <1>2, <1>4, <2>1, <2>2 DEF ExpireKey
  <1>5. ASSUME NEW k \in Items, NEW ttl \in {Ttl, Never}, SetKeyTtl(k, ttl)
        PROVE  KvInv'
    <2>1. PICK at \in StatementTimes : k \in DOMAIN table /\ Publish([table EXCEPT ![k].exp = Expiry(at, ttl)], tx, {})
      BY <1>5 DEF SetKeyTtl, LiveIn
    <2>2. Expiry(at, ttl) \in Times \union {Never}
      BY TimesAre
    <2> QED
      BY <1>2, <1>5, <2>1, <2>2 DEF SetKeyTtl
  <1>6. ASSUME NEW k \in Items, DeleteKey(k)
        PROVE  KvInv'
    <2>1. /\ {k} \in SUBSET Items /\ (\A j \in {k} : Unlocked(j)) /\ Publish(Without(table, {k}), tx, {})
          /\ UNCHANGED <<clock, total>>
      BY <1>6 DEF DeleteKey
    <2> QED
      BY <1>3, <2>1
  <1>7. CASE DeleteKeysWithPrefixOnce
    <2>1. PICK free : free = {k \in Items : k \in DOMAIN table /\ Unlocked(k)}
      OBVIOUS
    <2>2. PICK batch : batch = {k \in free : Cardinality({j \in free : j < k}) < BatchSize}
      OBVIOUS
    <2>3. Publish(Without(table, batch), tx, {}) /\ UNCHANGED <<clock, total>>
      BY <1>7, <2>1, <2>2 DEF DeleteKeysWithPrefixOnce
    <2>4. batch \in SUBSET Items /\ \A k \in batch : Unlocked(k)
      BY <2>1, <2>2
    <2> QED
      BY <1>3, <2>3, <2>4
  <1>8. CASE DeleteEntireNamespace
    BY <1>3, <1>8 DEF DeleteEntireNamespace
  <1> QED
    BY <1>4, <1>5, <1>6, <1>7, <1>8


\* The counter is set.
LEMMA CounterSetKeeps ==
    ASSUME KvInv, CounterSetValue(0)
    PROVE  KvInv'
  <1>1. PICK row : row = [value |-> 0, exp |-> Never]
    OBVIOUS
  <1>2. row \in Rows /\ row.value = 0 /\ row.exp = Never
    BY <1>1, KvConfig DEF Rows
  <1>3. PICK rows : rows = With(table, Counter, row)
    OBVIOUS
  <1>4. /\ rows \in Tables /\ DOMAIN rows = DOMAIN table \union {Counter} /\ rows[Counter] = row
        /\ \A j \in DOMAIN table : j # Counter => rows[j] = table[j]
    <2>1. PICK old \in Tables : old = table
      BY KvIs
    <2>2. PICK key \in Keys : key = Counter
      BY KvConfig
    <2>3. rows = With(old, key, row)
      BY <1>3, <2>1, <2>2
    <2>4. /\ rows \in Tables /\ DOMAIN rows = DOMAIN old \union {key}
          /\ \A j \in DOMAIN old : j # key => rows[j] = old[j]
      BY <1>2, <2>1, <2>2, <2>3, WithIs
    <2>5. rows[key] = row
      BY <1>2, <2>1, <2>2, <2>3 DEF With
    <2> QED
      BY <2>1, <2>2, <2>4, <2>5
  <1>5. Publish(rows, tx, {}) /\ clock' = clock /\ total' = 0 /\ Unlocked(Counter)
    BY <1>1, <1>3 DEF CounterSetValue
  <1>6. CounterOK(rows, 0)
    BY <1>2, <1>4 DEF CounterOK
  <1>7. OthersKeep(tx, rows, 0)
    BY <1>4, <1>5, KvIs DEF OthersKeep
  <1>8. tx \in [Txs -> TxRecords] /\ 0 \in Int
    BY KvIs
  <1>9. PICK told : told = {}
    OBVIOUS
  <1>10. Publish(rows, tx, told) /\ \A k \in Items : k \in told => ~Live(k)
    BY <1>5, <1>9
  <1> QED
    BY <1>4, <1>5, <1>6, <1>7, <1>8, <1>10, PublishKeeps

\* A transaction begins.
LEMMA BeginKeeps ==
    ASSUME KvInv, NEW t \in Txs, NEW call, NEW k, NEW own \in BOOLEAN, BeginMutation(t, call, k, own),
           (call = "add" /\ k = Counter) \/ (call \in ItemCalls /\ k \in Items)
    PROVE  KvInv'
  <1>1. PICK s : s = [NewTx EXCEPT !.at = "waiting", !.call = call, !.key = k,
                        !.own = own, !.seen = k \in DOMAIN table, !.asked = clock]
    OBVIOUS
  <1>2. /\ s.at = "waiting" /\ s.call = call /\ s.key = k /\ s.own = own /\ s.seen = (k \in DOMAIN table)
        /\ s.asked = clock /\ s.tries = 0 /\ s.inserted = FALSE /\ s.live = FALSE /\ s.delta = 0
    BY <1>1 DEF NewTx
  <1>3. s \in TxRecords
    <2>1. call \in Calls /\ k \in Keys /\ clock \in Nat /\ (k \in DOMAIN table) \in BOOLEAN /\ NewTx \in TxRecords
      BY KvIs, KvConfig, NewTxIs DEF Calls
    <2> QED
      BY <1>1, <2>1 DEF TxRecords
  <1>4. ~Holds(s)
    BY <1>2 DEF Holds
  <1>5. /\ call = "add" <=> k = Counter
        /\ call # "none" /\ clock <= clock /\ 0 < LockAttempts
    BY KvIs, KvConfig DEF ItemCalls
  <1>6. TxOK(s, table, clock, total)
    BY <1>2, <1>3, <1>4, <1>5 DEF TxOK
  <1>7. tx' = [tx EXCEPT ![t] = s] /\ UNCHANGED <<clock, table, scan, cleanup, total, winners>>
    BY <1>1 DEF BeginMutation
  <1> QED
    BY <1>4, <1>6, <1>7, TxStep

\* A transaction ends without effect.
LEMMA RollbackKeeps ==
    ASSUME KvInv, NEW t \in Txs, RollbackMutation(t)
    PROVE  KvInv'
  <1>1. PICK s : s = NewTx
    OBVIOUS
  <1>2. ~Holds(s) /\ TxOK(s, table, clock, total)
    BY <1>1, NewTxIs, KvIs DEF Holds
  <1>3. tx' = [tx EXCEPT ![t] = s] /\ UNCHANGED <<clock, table, scan, cleanup, total, winners>>
    BY <1>1 DEF RollbackMutation
  <1> QED
    BY <1>2, <1>3, TxStep

\* A transaction locks its row, or finds none to lock.
LEMMA LockingKeeps ==
    ASSUME KvInv, NEW t \in Txs, LockExisting(t) \/ LockByPlaceholder(t) \/ LockReturnsNoRow(t)
    PROVE  KvInv'
  <1>1. PICK me \in TxRecords : me = tx[t]
    BY KvIs
  <1>2. /\ TxOK(me, table, clock, total) /\ tx \in [Txs -> TxRecords] /\ clock \in Nat
        /\ table \in [DOMAIN table -> Rows] /\ DOMAIN table \subseteq Keys
        /\ \A k : Unlocked(k) <=> \A u \in Txs : ~(Holds(tx[u]) /\ tx[u].key = k)
    BY <1>1, KvIs
  <1>3. /\ me.at \in {"idle", "waiting", "locked", "done", "gave_up"} /\ me.asked \in Nat /\ me.tries \in 0 .. LockAttempts
        /\ me.key \in Keys /\ me.asked <= clock
    BY <1>2 DEF TxRecords, TxOK
  <1>4. me.at = "waiting" => ~me.inserted /\ ~me.live /\ me.tries < LockAttempts /\ (me.seen => me.key \in DOMAIN table)
    BY <1>2 DEF TxOK
  <1>5. CASE LockExisting(t)
    <2>1. me.at = "waiting" /\ me.seen /\ Unlocked(me.key) /\ me.key \in DOMAIN table
      BY <1>1, <1>4, <1>5 DEF LockExisting
    <2>2. PICK row \in Rows : row = table[me.key]
      BY <1>2, <2>1
    <2>3. PICK live \in BOOLEAN : live <=> LiveAt(row, me.asked)
      <3>1. LiveAt(row, me.asked) \in BOOLEAN
        BY DEF LiveAt
      <3> QED
        BY <3>1
    <2>4. PICK s : s = [me EXCEPT !.at = "locked", !.live = live, !.value = row.value, !.row = row]
      OBVIOUS
    <2>5. tx' = [tx EXCEPT ![t] = s]
      <3>1. tx' = [tx EXCEPT ![t].at = "locked", ![t].live = LiveAt(row, me.asked), ![t].value = row.value, ![t].row = row]
        BY <1>1, <1>5, <2>2 DEF LockExisting
      <3>2. LiveAt(row, me.asked) = live
        BY <2>3 DEF LiveAt
      <3> QED
        BY <1>1, <1>2, <2>4, <3>1, <3>2
    <2>6. row.value \in Value /\ row.exp \in Times \union {Never}
      BY TableIs
    <2>7. /\ s.at = "locked" /\ s.live = live /\ s.value = row.value /\ s.row = row /\ s.key = me.key /\ s.call = me.call
          /\ s.asked = me.asked /\ s.tries = me.tries /\ s.inserted = me.inserted /\ s.delta = me.delta
      BY <2>4 DEF TxRecords
    <2>8. s \in TxRecords
      BY <2>4, <2>6 DEF TxRecords
    <2>9. ~live => ~LiveIn(table, me.key, clock)
      <3>1. Times \subseteq Nat
        BY KvConfig DEF Times
      <3>2. ASSUME ~live
            PROVE  row.exp # Never /\ ~(row.exp > clock)
        <4>1. PICK e \in Nat : e = row.exp /\ e # Never
          BY <2>3, <2>6, <3>1, <3>2 DEF LiveAt
        <4>2. ~(e > me.asked)
          BY <2>3, <3>2, <4>1 DEF LiveAt
        <4> QED
          BY <1>2, <1>3, <4>1, <4>2
      <3> QED
        BY <2>2, <3>2 DEF LiveIn, LiveAt
    <2>10. TxOK(s, table, clock, total)
      BY <1>2, <1>3, <1>4, <2>1, <2>2, <2>7, <2>8, <2>9 DEF TxOK, Holds
    <2>11. /\ cleanup' = [cleanup EXCEPT !.due = @ \ {s.key}] /\ UNCHANGED <<clock, table, scan, total, winners>>
           /\ \A u \in Txs : (u # t /\ Holds(tx[u])) => tx[u].key # s.key
      BY <1>1, <1>2, <1>5, <2>1, <2>7 DEF LockExisting
    <2> QED
      BY <2>5, <2>10, <2>11, TxStep
  <1>6. CASE LockByPlaceholder(t)
    <2>1. me.at = "waiting" /\ ~me.seen /\ Unlocked(me.key) /\ me.key \notin DOMAIN table
      BY <1>1, <1>6 DEF LockByPlaceholder
    <2>2. PICK s : s = [me EXCEPT !.at = "locked", !.inserted = TRUE, !.value = Empty,
                           !.row = [value |-> Empty, exp |-> me.asked]]
      OBVIOUS
    <2>3. tx' = [tx EXCEPT ![t] = s]
      <3>1. tx' = [tx EXCEPT ![t].at = "locked", ![t].inserted = TRUE, ![t].value = Empty,
                     ![t].row = [value |-> Empty, exp |-> me.asked]]
        BY <1>1, <1>6 DEF LockByPlaceholder
      <3> QED
        BY <1>1, <1>2, <2>2, <3>1
    <2>4. /\ s.at = "locked" /\ s.live = me.live /\ s.key = me.key /\ s.call = me.call
          /\ s.asked = me.asked /\ s.tries = me.tries /\ s.inserted = TRUE /\ s.delta = me.delta
      BY <2>2 DEF TxRecords
    <2>5. s \in TxRecords
      <3>1. me.asked \in Times
        <4>1. MaxClock \in Nat /\ Ttl \in Nat /\ clock <= MaxClock
          BY KvIs, KvConfig
        <4> QED
          BY <1>2, <1>3, <4>1 DEF Times
      <3>2. [value |-> Empty, exp |-> me.asked] \in [value : {Empty}, exp : Times]
        BY <3>1
      <3> QED
        BY <2>2, <3>2 DEF TxRecords
    <2>6. TxOK(s, table, clock, total)
      BY <1>2, <1>3, <1>4, <2>1, <2>4, <2>5 DEF TxOK, Holds, LiveIn
    <2>7. /\ UNCHANGED <<clock, table, scan, cleanup, total, winners>> /\ s.key \notin DOMAIN table
          /\ \A u \in Txs : (u # t /\ Holds(tx[u])) => tx[u].key # s.key
      BY <1>2, <1>6, <2>1, <2>4 DEF LockByPlaceholder
    <2> QED
      BY <2>3, <2>6, <2>7, TxStep
  <1>7. CASE LockReturnsNoRow(t)
    <2>1. me.at = "waiting" /\ me.key \in DOMAIN table
      BY <1>1, <1>7 DEF LockReturnsNoRow
    <2>2. PICK to \in {"gave_up", "waiting"} : to = IF me.tries + 1 = LockAttempts THEN "gave_up" ELSE "waiting"
      OBVIOUS
    <2>3. PICK s : s = [me EXCEPT !.tries = @ + 1, !.at = to, !.seen = TRUE, !.asked = clock]
      OBVIOUS
    <2>4. tx' = [tx EXCEPT ![t] = s]
      <3>1. tx' = [tx EXCEPT ![t].tries = @ + 1, ![t].at = to, ![t].seen = TRUE, ![t].asked = clock]
        BY <1>1, <1>7, <2>2 DEF LockReturnsNoRow
      <3> QED
        BY <1>1, <1>2, <2>3, <3>1
    <2>5. /\ s.at = to /\ s.live = me.live /\ s.key = me.key /\ s.call = me.call /\ s.seen = TRUE
          /\ s.asked = clock /\ s.tries = me.tries + 1 /\ s.inserted = me.inserted /\ s.delta = me.delta
      BY <2>3 DEF TxRecords
    <2>6. me.tries + 1 \in 0 .. LockAttempts /\ (to = "waiting" => me.tries + 1 < LockAttempts)
      BY <1>3, <1>4, <2>1, <2>2, KvConfig
    <2>7. s \in TxRecords
      BY <1>2, <2>3, <2>6 DEF TxRecords
    <2>8. TxOK(s, table, clock, total) /\ ~Holds(s)
      BY <1>2, <1>3, <1>4, <2>1, <2>5, <2>6, <2>7 DEF TxOK, Holds
    <2>9. UNCHANGED <<clock, table, scan, cleanup, total, winners>>
      BY <1>7 DEF LockReturnsNoRow
    <2> QED
      BY <2>4, <2>8, <2>9, TxStep
  <1> QED
    BY <1>5, <1>6, <1>7


\* What a callback may decide: for the counter, an addition that fits or a failure;
\* for an item, any mutation.
LEMMA DecisionsAre ==
    ASSUME NEW t \in Txs, NEW me \in TxRecords, me = tx[t], me.call # "none", NEW m \in Decisions(t)
    PROVE  IF me.call = "add"
           THEN \/ m.kind = "fail"
                \/ \E d \in Deltas : /\ (IF me.live THEN me.value ELSE 0) + d \in Value
                                     /\ m.kind = "set" /\ m.value = (IF me.live THEN me.value ELSE 0) + d /\ m.ttl = Never
           ELSE /\ m.kind \in {"set", "preserve", "keep", "delete", "fail"} /\ m.value \in {0, 1}
                /\ m.ttl \in {Ttl, Never}
  <1>1. /\ \A v, ttl : SetTo(v, ttl).kind = "set" /\ SetTo(v, ttl).value = v /\ SetTo(v, ttl).ttl = ttl
        /\ \A v : Preserve(v).kind = "preserve" /\ Preserve(v).value = v /\ Preserve(v).ttl = Never
        /\ Keep.kind = "keep" /\ Keep.value = 0 /\ Keep.ttl = Never
        /\ Delete.kind = "delete" /\ Delete.value = 0 /\ Delete.ttl = Never
        /\ Fail.kind = "fail" /\ Fail.value = 0 /\ Fail.ttl = Never
    BY DEF SetTo, Preserve, Keep, Delete, Fail
  <1>2. ASSUME NEW u \in UserMutations
        PROVE  u.kind \in {"set", "preserve", "keep", "delete", "fail"} /\ u.value \in {0, 1} /\ u.ttl \in {Ttl, Never}
    BY <1>1 DEF UserMutations
  <1>3. ASSUME NEW u \in UserMutations, NEW o, o = OverInitial(u, 1)
        PROVE  o.kind \in {"set", "preserve", "keep", "delete", "fail"} /\ o.value \in {0, 1} /\ o.ttl \in {Ttl, Never}
    <2>1. CASE u.kind = "keep"
      BY <1>1, <1>3, <2>1 DEF OverInitial
    <2>2. CASE u.kind = "preserve"
      BY <1>1, <1>2, <1>3, <2>2 DEF OverInitial
    <2>3. CASE u.kind # "keep" /\ u.kind # "preserve"
      BY <1>2, <1>3, <2>3 DEF OverInitial
    <2> QED
      BY <2>1, <2>2, <2>3
  <1>4. me.call \in {"add", "mutate", "mutate_live", "mutate_live_or_init", "get_or_init"}
    BY DEF TxRecords, Calls, ItemCalls
  <1>5. CASE me.call = "add"
    <2>1. PICK d \in Deltas : m = Added(IF me.live THEN me.value ELSE 0, d)
      BY <1>5 DEF Decisions
    <2> QED
      BY <1>1, <1>5, <2>1 DEF Added
  <1>6. CASE me.call = "mutate"
    <2>1. m \in UserMutations
      BY <1>6 DEF Decisions
    <2> QED
      BY <1>2, <1>6, <2>1
  <1>7. CASE me.call = "mutate_live"
    <2>1. m \in UserMutations \union {Fail}
      BY <1>7 DEF Decisions, LiveDecisions
    <2> QED
      BY <1>1, <1>2, <1>7, <2>1
  <1>8. CASE me.call = "mutate_live_or_init"
    <2>1. m \in UserMutations \union {OverInitial(u, 1) : u \in UserMutations}
      BY <1>8 DEF Decisions, InitialDecisions
    <2>2. CASE m \in UserMutations
      BY <1>2, <1>8, <2>2
    <2>3. CASE \E u \in UserMutations : m = OverInitial(u, 1)
      BY <1>3, <1>8, <2>3
    <2> QED
      BY <2>1, <2>2, <2>3
  <1>9. CASE me.call = "get_or_init"
    <2>1. m \in {Keep, SetTo(1, Ttl), SetTo(1, Never)}
      BY <1>9 DEF Decisions, InitDecisions
    <2> QED
      BY <1>1, <1>9, <2>1
  <1> QED
    BY <1>4, <1>5, <1>6, <1>7, <1>8, <1>9

\* The callback decides over a row of an item.
LEMMA RowAfterIs ==
    ASSUME KvInv, NEW me \in TxRecords, NEW m, ~me.inserted => me.row \in Rows, me.live => ~me.inserted,
           m.kind \in {"set", "preserve", "keep", "delete", "fail"}, m.value \in {0, 1}, m.ttl \in {Ttl, Never}
    PROVE  RowAfter(me, m) \in Rows \union {Absent}
  <1>1. 0 \in Value /\ 1 \in Value /\ clock \in StatementTimes \union {clock}
    BY KvConfig
  <1>2. FailedRow(me) \in Rows \union {Absent}
    BY DEF FailedRow
  <1>3. CASE m.kind = "keep"
    BY <1>3 DEF RowAfter
  <1>4. CASE m.kind = "set"
    <2>1. Expiry(clock, m.ttl) \in Times \union {Never}
      BY <1>1, TimesAre
    <2>2. [value |-> m.value, exp |-> Expiry(clock, m.ttl)] \in Rows
      BY <1>1, <2>1 DEF Rows
    <2> QED
      BY <1>4, <2>2 DEF RowAfter
  <1>5. CASE m.kind = "preserve" /\ me.live
    <2>1. [value |-> m.value, exp |-> me.row.exp] \in Rows
      BY <1>1, <1>5 DEF Rows
    <2> QED
      BY <1>5, <2>1 DEF RowAfter
  <1>6. CASE m.kind = "delete"
    BY <1>6 DEF RowAfter
  <1>7. CASE m.kind = "fail" \/ (m.kind = "preserve" /\ ~me.live)
    BY <1>2, <1>7 DEF RowAfter
  <1> QED
    BY <1>3, <1>4, <1>5, <1>6, <1>7

\* The callback decides, and the mutation is applied inside the transaction.
LEMMA DecideKeeps ==
    ASSUME KvInv, NEW t \in Txs, Decide(t)
    PROVE  KvInv'
  <1>1. PICK me \in TxRecords : me = tx[t]
    BY KvIs
  <1>2. /\ TxOK(me, table, clock, total) /\ tx \in [Txs -> TxRecords] /\ clock \in Nat /\ total \in Int
        /\ table \in [DOMAIN table -> Rows] /\ CounterOK(table, total) /\ me.at = "locked" /\ Holds(me)
    BY <1>1, KvIs DEF Decide, Holds
  <1>3. PICK m \in Decisions(t) :
           tx' = [tx EXCEPT ![t].at = "done", ![t].row = RowAfter(me, m),
                    ![t].failed = m.kind = "fail" \/ (m.kind = "preserve" /\ ~me.live),
                    ![t].delta = IF me.call = "add" /\ m.kind = "set"
                                 THEN m.value - (IF me.live THEN me.value ELSE 0) ELSE 0]
    BY <1>1 DEF Decide
  <1>4. PICK row : row = RowAfter(me, m)
    OBVIOUS
  <1>5. PICK failed \in BOOLEAN : failed = (m.kind = "fail" \/ (m.kind = "preserve" /\ ~me.live))
    OBVIOUS
  <1>6. PICK delta : delta = IF me.call = "add" /\ m.kind = "set"
                             THEN m.value - (IF me.live THEN me.value ELSE 0) ELSE 0
    OBVIOUS
  <1>7. PICK s : s = [me EXCEPT !.at = "done", !.row = row, !.failed = failed, !.delta = delta]
    OBVIOUS
  <1>8. tx' = [tx EXCEPT ![t] = s]
    BY <1>1, <1>2, <1>3, <1>4, <1>5, <1>6, <1>7
  <1>9. /\ s.at = "done" /\ s.row = row /\ s.delta = delta /\ s.live = me.live /\ s.key = me.key /\ s.call = me.call
        /\ s.asked = me.asked /\ s.tries = me.tries /\ s.inserted = me.inserted
    BY <1>7 DEF TxRecords
  <1>10. /\ me.call # "none" /\ (me.call = "add" <=> me.key = Counter) /\ (me.inserted => ~me.live)
         /\ (me.inserted <=> me.key \notin DOMAIN table) /\ (~me.live => ~LiveIn(table, me.key, clock))
         /\ (~me.inserted => me.row = table[me.key] /\ me.value = me.row.value)
    BY <1>2 DEF TxOK
  <1>11. ~me.inserted => me.row \in Rows
    BY <1>2, <1>10
  <1>12. /\ row \in Rows \union {Absent} /\ delta \in Int /\ (me.call # "add" => delta = 0)
         /\ me.key = Counter => IF row = Absent THEN delta = 0 /\ Counter \notin DOMAIN table
                                ELSE row.exp = Never /\ row.value = total + delta
    <2>1. CASE me.call # "add"
      <3>1. m.kind \in {"set", "preserve", "keep", "delete", "fail"} /\ m.value \in {0, 1} /\ m.ttl \in {Ttl, Never}
        BY <1>1, <1>10, <2>1, DecisionsAre
      <3>2. row \in Rows \union {Absent}
        BY <1>4, <1>10, <1>11, <3>1, RowAfterIs
      <3> QED
        BY <1>6, <1>10, <2>1, <3>2
    <2>2. CASE me.call = "add"
      <3>1. PICK base : base = IF me.live THEN me.value ELSE 0
        OBVIOUS
      <3>2. base = total /\ (~me.live => total = 0)
        <4>1. CASE me.live
          BY <1>2, <1>10, <2>2, <3>1, <4>1 DEF CounterOK
        <4>2. CASE ~me.live
          <5>1. Counter \notin DOMAIN table
            BY <1>2, <1>10, <2>2, <4>2 DEF CounterOK, LiveIn, LiveAt
          <5> QED
            BY <1>2, <3>1, <4>2, <5>1 DEF CounterOK
        <4> QED
          BY <4>1, <4>2
      <3>3. \/ m.kind = "fail"
            \/ \E d \in Deltas : base + d \in Value /\ m.kind = "set" /\ m.value = base + d /\ m.ttl = Never
        BY <1>1, <1>10, <2>2, <3>1, DecisionsAre
      <3>4. CASE m.kind = "fail"
        <4>1. row = FailedRow(me) /\ delta = 0
          BY <1>4, <1>6, <3>4 DEF RowAfter
        <4>2. CASE me.inserted
          BY <1>10, <2>2, <4>1, <4>2 DEF FailedRow
        <4>3. CASE ~me.inserted
          <5>1. row = table[Counter] /\ row \in Rows /\ Counter \in DOMAIN table
            BY <1>10, <1>11, <2>2, <4>1, <4>3 DEF FailedRow
          <5>2. row # Absent /\ row.value = total /\ row.exp = Never
            BY <1>2, <5>1, KvConfig DEF CounterOK
          <5> QED
            BY <1>2, <2>2, <4>1, <5>1, <5>2
        <4> QED
          BY <4>2, <4>3
      <3>5. CASE \E d \in Deltas : base + d \in Value /\ m.kind = "set" /\ m.value = base + d /\ m.ttl = Never
        <4>1. PICK d \in Int : base + d \in Value /\ m.kind = "set" /\ m.value = base + d /\ m.ttl = Never
          BY <3>5, KvConfig
        <4>2. row = [value |-> base + d, exp |-> Never]
          BY <1>4, <4>1 DEF RowAfter, Expiry
        <4>3. row \in Rows /\ row # Absent /\ row.exp = Never /\ row.value = base + d
          BY <4>1, <4>2, KvConfig DEF Rows
        <4>4. delta = (base + d) - base
          BY <1>6, <2>2, <3>1, <4>1
        <4> QED
          BY <1>2, <2>2, <3>2, <4>3, <4>4
      <3> QED
        BY <3>3, <3>4, <3>5
    <2> QED
      BY <2>1, <2>2
  <1>13. s \in TxRecords
    BY <1>7, <1>12 DEF TxRecords
  <1>14. TxOK(s, table, clock, total)
    BY <1>2, <1>9, <1>10, <1>12, <1>13 DEF TxOK, Holds
  <1>15. /\ UNCHANGED <<clock, table, scan, cleanup, total, winners>>
         /\ \A u \in Txs : (u # t /\ Holds(tx[u])) => tx[u].key # s.key
    BY <1>1, <1>2, <1>9 DEF Decide, KvInv
  <1> QED
    BY <1>1, <1>2, <1>8, <1>9, <1>14, <1>15, TxStep


\* A transaction commits.
LEMMA CommitMutationKeeps ==
    ASSUME KvInv, NEW t \in Txs, CommitMutation(t)
    PROVE  KvInv'
  <1>1. PICK me \in TxRecords : me = tx[t]
    BY KvIs
  <1>2. /\ TxOK(me, table, clock, total) /\ tx \in [Txs -> TxRecords] /\ clock \in Nat /\ total \in Int
        /\ table \in Tables /\ CounterOK(table, total) /\ me.at = "done" /\ Holds(me)
    BY <1>1, KvIs DEF CommitMutation, Holds
  <1>3. /\ me.row \in Rows \union {Absent} /\ me.key \in Keys /\ me.delta \in Int
        /\ (me.key # Counter => me.delta = 0) /\ (~me.live => ~LiveIn(table, me.key, clock))
        /\ me.key = Counter => IF me.row = Absent THEN me.delta = 0 /\ Counter \notin DOMAIN table
                               ELSE me.row.exp = Never /\ me.row.value = total + me.delta
    BY <1>2 DEF TxOK, TxRecords
  <1>4. PICK rows : rows = IF me.row = Absent THEN Without(table, {me.key}) ELSE With(table, me.key, me.row)
    OBVIOUS
  <1>5. PICK made \in BOOLEAN : made = (~me.failed /\ me.call = "get_or_init" /\ ~me.live)
    OBVIOUS
  <1>6. PICK txs : txs = [tx EXCEPT ![t] = NewTx]
    OBVIOUS
  <1>7. PICK told : told = IF made THEN {me.key} ELSE {}
    OBVIOUS
  <1>8. Publish(rows, txs, told) /\ total' = total + me.delta /\ clock' = clock
    BY <1>1, <1>4, <1>5, <1>6, <1>7 DEF CommitMutation
  <1>9. /\ rows \in Tables
        /\ \A j \in Keys \ {me.key} : /\ j \in DOMAIN rows <=> j \in DOMAIN table
                                      /\ j \in DOMAIN rows => rows[j] = table[j]
        /\ IF me.row = Absent THEN me.key \notin DOMAIN rows ELSE me.key \in DOMAIN rows /\ rows[me.key] = me.row
    <2>1. PICK old \in Tables : old = table
      BY <1>2
    <2>2. PICK key \in Keys : key = me.key
      BY <1>3
    <2>3. CASE me.row = Absent
      <3>1. PICK gone : gone = {key}
        OBVIOUS
      <3>2. rows = Without(old, gone)
        BY <1>4, <2>1, <2>2, <2>3, <3>1
      <3>3. /\ Without(old, gone) \in Tables /\ DOMAIN Without(old, gone) = DOMAIN old \ gone
            /\ \A j \in DOMAIN old \ gone : Without(old, gone)[j] = old[j]
        BY <2>1, WithoutIs, Zenon
      <3>4. rows \in Tables /\ DOMAIN rows = DOMAIN old \ gone /\ \A j \in DOMAIN old \ gone : rows[j] = old[j]
        BY <3>2, <3>3
      <3> QED
        BY <2>1, <2>2, <2>3, <3>1, <3>4
    <2>4. CASE me.row # Absent
      <3>1. PICK row \in Rows : row = me.row
        BY <1>3, <2>4
      <3>2. rows = With(old, key, row)
        BY <1>4, <2>1, <2>2, <2>4, <3>1
      <3>3. /\ rows \in Tables /\ DOMAIN rows = DOMAIN old \union {key}
            /\ \A j \in DOMAIN old : j # key => rows[j] = old[j]
        BY <2>1, <2>2, <3>1, <3>2, WithIs
      <3>4. rows[key] = row
        BY <3>2 DEF With
      <3> QED
        BY <2>1, <2>2, <2>4, <3>1, <3>3, <3>4
    <2> QED
      BY <2>3, <2>4
  <1>10. CounterOK(rows, total + me.delta)
    <2>1. CASE me.key = Counter
      BY <1>2, <1>3, <1>9, <2>1 DEF CounterOK
    <2>2. CASE me.key # Counter
      <3>1. Counter \in Keys /\ total + me.delta = total
        BY <1>2, <1>3, <2>2, KvConfig
      <3> QED
        BY <1>2, <1>9, <2>2, <3>1 DEF CounterOK
    <2> QED
      BY <2>1, <2>2
  <1>11. txs \in [Txs -> TxRecords] /\ txs[t] = NewTx /\ \A u \in Txs : u # t => txs[u] = tx[u]
    BY <1>2, <1>6, NewTxIs
  <1>12. OthersKeep(txs, rows, total + me.delta)
    <2>1. ASSUME NEW u \in Txs, u # t, Holds(tx[u])
          PROVE  /\ tx[u].key \in DOMAIN rows <=> tx[u].key \in DOMAIN table
                 /\ tx[u].key \in DOMAIN rows => rows[tx[u].key] = table[tx[u].key]
                 /\ tx[u].key = Counter => total + me.delta = total
      <3>1. PICK k \in Keys : k = tx[u].key /\ k # me.key
        BY <1>1, <1>2, <2>1 DEF KvInv, TxRecords
      <3>2. k = Counter => total + me.delta = total
        BY <1>2, <1>3, <3>1
      <3> QED
        BY <1>9, <3>1, <3>2
    <2>2. \A u \in Txs : txs[u] = tx[u] /\ Holds(tx[u]) => u # t
      BY <1>11, NewTxIs DEF Holds
    <2> QED
      BY <1>11, <2>1, <2>2 DEF OthersKeep
  <1>13. \A k \in Items : k \in told => ~Live(k)
    BY <1>3, <1>5, <1>7 DEF Live, LiveIn
  <1>14. PICK tot \in Int : tot = total + me.delta
    BY <1>2, <1>3
  <1> QED
    BY <1>8, <1>9, <1>10, <1>11, <1>12, <1>13, <1>14, PublishKeeps

\* Time passes: what was not live does not come to life.
LEMMA TickKeeps ==
    ASSUME KvInv, Tick
    PROVE  KvInv'
  <1>1. PICK n : n = clock'
    OBVIOUS
  <1>2. clock \in Nat /\ n = clock + 1 /\ n \in 0 .. MaxClock /\ UNCHANGED <<table, tx, cleanup, total>>
    BY <1>1, KvIs, KvConfig DEF Tick
  <1>3. Times \subseteq Nat /\ table \in [DOMAIN table -> Rows]
    BY KvIs, KvConfig DEF Times
  <1>4. ASSUME NEW k \in DOMAIN table, ~LiveAt(table[k], clock)
        PROVE  ~LiveAt(table[k], n)
    <2>1. PICK e \in Nat : e = table[k].exp /\ e # Never /\ ~(e > clock)
      BY <1>3, <1>4, TableIs DEF LiveAt
    <2>2. ~(e > n)
      BY <1>2, <2>1
    <2> QED
      BY <2>1, <2>2 DEF LiveAt
  <1>5. \A k : ~LiveIn(table, k, clock) => ~LiveIn(table, k, n)
    BY <1>4 DEF LiveIn
  <1>6. ASSUME NEW t \in Txs
        PROVE  TxOK(tx[t], table, n, total)
    <2>1. PICK s \in TxRecords : s = tx[t] /\ TxOK(s, table, clock, total)
      BY KvIs
    <2>2. s.asked \in Nat /\ s.asked <= n
      BY <1>2, <2>1 DEF TxOK, TxRecords
    <2> QED
      BY <1>5, <2>1, <2>2 DEF TxOK
  <1>7. ScanOK(scan', table, n)
    <2>1. PICK sc : sc = scan'
      OBVIOUS
    <2>2. /\ sc \in Scans /\ sc.at = scan.at /\ sc.after = scan.after /\ sc.got = scan.got
          /\ sc.stable = {k \in scan.stable : LiveIn(table, k, n)}
      <3>1. scan \in Scans
        BY KvIs DEF ScanOK
      <3> QED
        BY <1>1, <2>1, <3>1 DEF Scans, Tick
    <2> QED
      BY <2>1, <2>2, KvIs DEF ScanOK
  <1>8. CleanupOK(cleanup, table, n, tx)
    BY <1>4, KvIs DEF CleanupOK
  <1>9. winners' \in [Items -> {0, 1}]
    <2>1. winners' = [k \in Items |-> IF LiveIn(table, k, n) THEN winners[k] ELSE 0]
      BY <1>1 DEF Tick
    <2> QED
      BY <2>1, KvIs
  <1> QED
    BY <1>1, <1>2, <1>6, <1>7, <1>8, <1>9 DEF KvInv


\* A finite set of numbers that is not empty has a largest one.
LEMMA LargestNumber ==
    ASSUME NEW S \in SUBSET Int, IsFiniteSet(S), S # {}
    PROVE  Max(S) \in S /\ \A x \in S : x <= Max(S)
  <1>1. PICK Above : Above = [x \in S |-> {y \in S : x < y}]
    OBVIOUS
  <1>2. PICK Rank : Rank = [x \in S |-> Cardinality(Above[x])]
    OBVIOUS
  <1>3. ASSUME NEW x \in S
        PROVE  Above[x] \in SUBSET S /\ IsFiniteSet(Above[x]) /\ Rank[x] = Cardinality(Above[x]) /\ Rank[x] \in Nat
    <2>1. Above[x] \in SUBSET S /\ Rank[x] = Cardinality(Above[x])
      BY <1>1, <1>2
    <2>2. IsFiniteSet(Above[x])
      BY <2>1, FS_Subset
    <2> QED
      BY <2>1, <2>2, FS_CardinalityType
  <1>4. PICK T : T = {Rank[x] : x \in S}
    OBVIOUS
  <1>5. T \in SUBSET Nat /\ T # {}
    BY <1>3, <1>4
  <1>6. PICK least \in T : \A r \in T : least <= r
    BY <1>5, LeastNumber
  <1>7. PICK x \in S : least = Rank[x]
    BY <1>4, <1>6
  <1>8. ASSUME NEW y \in S, x < y
        PROVE  FALSE
    <2>1. Above[y] \in SUBSET Above[x] /\ y \in Above[x] /\ y \notin Above[y]
      <3>1. Above[x] = {z \in S : x < z} /\ Above[y] = {z \in S : y < z}
        BY <1>1, <1>7, <1>8
      <3>2. x \in Int /\ y \in Int /\ ~(y < y)
        BY <1>7, <1>8
      <3>3. \A z \in S : y < z => x < z
        BY <1>8, <3>2
      <3> QED
        BY <1>8, <3>1, <3>2, <3>3
    <2>2. Rank[y] <= Rank[x] /\ Rank[y] # Rank[x]
      <3>1. PICK A : A = Above[x]
        OBVIOUS
      <3>2. PICK B : B = Above[y]
        OBVIOUS
      <3>3. IsFiniteSet(A) /\ Rank[x] = Cardinality(A) /\ Rank[y] = Cardinality(B)
        BY <1>3, <1>7, <1>8, <3>1, <3>2
      <3>4. B \in SUBSET A /\ A # B
        BY <2>1, <3>1, <3>2
      <3>5. Cardinality(B) <= Cardinality(A) /\ Cardinality(A) # Cardinality(B)
        BY <3>3, <3>4, FS_Subset
      <3> QED
        BY <3>3, <3>5
    <2>3. Rank[x] <= Rank[y]
      BY <1>4, <1>6, <1>7
    <2>4. PICK r \in Nat : r = Rank[x]
      BY <1>3, <1>7
    <2>5. PICK q \in Nat : q = Rank[y]
      BY <1>3, <1>8
    <2>6. q <= r /\ r <= q /\ q # r
      BY <2>2, <2>3, <2>4, <2>5
    <2> QED
      BY <2>6
  <1>9. \A y \in S : x >= y
    BY <1>7, <1>8
  <1>10. Max(S) = CHOOSE z \in S : \A y \in S : z >= y
    BY DEF Max
  <1>11. Max(S) \in S /\ \A y \in S : Max(S) >= y
    BY <1>7, <1>9, <1>10
  <1> QED
    BY <1>11

\* The first numbers of a set, up to a limit, leave none behind their largest.
LEMMA NoneIsLeftBehind ==
    ASSUME NEW past \in SUBSET Int, IsFiniteSet(past), NEW limit \in Nat, NEW page,
           page = {k \in past : Cardinality({j \in past : j < k}) < limit}, page # {}
    PROVE  Max(page) \in page /\ \A k \in past : k <= Max(page) => k \in page
  <1>1. page \in SUBSET past
    OBVIOUS
  <1>2. Max(page) \in page
    <2>1. page \in SUBSET Int /\ IsFiniteSet(page)
      BY <1>1, FS_Subset
    <2> QED
      BY <2>1, LargestNumber
  <1>3. PICK m \in past : m = Max(page) /\ Cardinality({j \in past : j < m}) < limit
    BY <1>2
  <1>4. ASSUME NEW k \in past, k <= m
        PROVE  k \in page
    <2>1. PICK A : A = {j \in past : j < k}
      OBVIOUS
    <2>2. PICK B : B = {j \in past : j < m}
      OBVIOUS
    <2>3. A \in SUBSET B /\ B \in SUBSET past
      <3>1. k \in Int /\ m \in Int /\ \A j \in past : j \in Int
        BY <1>3, <1>4
      <3>2. \A j \in past : j < k => j < m
        BY <1>4, <3>1
      <3> QED
        BY <2>1, <2>2, <3>2
    <2>4. IsFiniteSet(B)
      BY <2>3, FS_Subset
    <2>5. IsFiniteSet(A) /\ Cardinality(A) <= Cardinality(B)
      BY <2>3, <2>4, FS_Subset
    <2>6. Cardinality(A) \in Nat /\ Cardinality(B) \in Nat
      BY <2>4, <2>5, FS_CardinalityType
    <2>7. Cardinality(A) < limit
      BY <1>3, <2>2, <2>5, <2>6
    <2> QED
      BY <2>1, <2>7
  <1> QED
    BY <1>2, <1>3, <1>4

\* The page is all the live keys up to its last, and all that are left if it is not full.
LEMMA PageIs ==
    ASSUME KvInv, NEW after \in Int, NEW page, page = PageAfter(after)
    PROVE  /\ page \in SUBSET Items /\ IsFiniteSet(page)
           /\ Cardinality(page) < BatchSize => \A k \in Items : (k > after /\ Live(k)) => k \in page
           /\ page # {} => /\ Max(page) \in page
                           /\ \A k \in Items : (k > after /\ Live(k) /\ k <= Max(page)) => k \in page
  <1>1. PICK past : past = {k \in Items : k > after /\ Live(k)}
    OBVIOUS
  <1>2. page = {k \in past : Cardinality({j \in past : j < k}) < BatchSize}
    BY <1>1 DEF PageAfter
  <1>3. past \in SUBSET Int /\ past \in SUBSET Items /\ IsFiniteSet(past) /\ BatchSize \in Nat
    <2>1. past \in SUBSET Items /\ past \in SUBSET Int /\ IsFiniteSet(Items) /\ BatchSize \in Nat
      BY <1>1, KvConfig
    <2>2. IsFiniteSet(past)
      BY <2>1, FS_Subset
    <2> QED
      BY <2>1, <2>2
  <1>4. page \in SUBSET past /\ page \in SUBSET Items /\ IsFiniteSet(page)
    <2>1. page \in SUBSET past
      BY <1>2
    <2>2. IsFiniteSet(page)
      BY <1>3, <2>1, FS_Subset
    <2> QED
      BY <1>3, <2>1, <2>2
  <1>5. Cardinality(page) < BatchSize => page = past
    <2>1. PICK R : R = {p \in past \X past : p[1] < p[2]}
      OBVIOUS
    <2>2. \A x, y \in past : <<x, y>> \in R <=> x < y
      BY <2>1
    <2>3. \A k \in past : {j \in past : <<j, k>> \in R} = {j \in past : j < k}
      BY <2>2
    <2>4. page = FirstOf(past, R, BatchSize)
      BY <1>2, <2>3 DEF FirstOf
    <2>5. /\ \A x, y, z \in past : (<<x, y>> \in R /\ <<y, z>> \in R) => <<x, z>> \in R
          /\ \A x \in past : <<x, x>> \notin R
      BY <1>3, <2>2
    <2>6. Cardinality(FirstOf(past, R, BatchSize)) < BatchSize => FirstOf(past, R, BatchSize) = past
      BY <1>3, <2>5, FirstOnes
    <2> QED
      BY <2>4, <2>6
  <1>6. page # {} => Max(page) \in page /\ \A k \in past : k <= Max(page) => k \in page
    BY <1>2, <1>3, NoneIsLeftBehind
  <1> QED
    BY <1>1, <1>4, <1>5, <1>6

\* The paged scan.
LEMMA ReaderKeeps ==
    ASSUME KvInv, Reader
    PROVE  KvInv'
  <1>1. scan \in Scans /\ ScanOK(scan, table, clock)
    BY KvIs DEF ScanOK
  <1>2. UNCHANGED <<clock, table, tx, cleanup, total, winners>>
    BY DEF Reader, ScanBegins, ScanPage, ScanEnds
  <1>3. PICK next : next = scan'
    OBVIOUS
  <1>4. SUFFICES ScanOK(next, table, clock)
    BY <1>2, <1>3, <1>4 DEF KvInv
  <1>5. NewScan.at = "idle" /\ NewScan.after = Counter /\ NewScan.got = {} /\ NewScan.stable = {} /\ NewScan \in Scans
    BY KvConfig DEF NewScan, Scans
  <1>6. CASE ScanBegins
    <2>1. next = [NewScan EXCEPT !.at = "paging", !.stable = {k \in Items : Live(k)}]
      BY <1>3, <1>6 DEF ScanBegins
    <2>2. /\ next \in Scans /\ next.at = "paging" /\ next.after = Counter /\ next.got = {}
          /\ next.stable = {k \in Items : Live(k)}
      BY <1>5, <2>1 DEF Scans, NewScan
    <2>3. \A k \in Items : ~(k <= Counter)
      BY KvConfig
    <2> QED
      BY <2>2, <2>3 DEF ScanOK, Live, LiveIn
  <1>7. CASE ScanPage
    <2>1. PICK page : page = PageAfter(scan.after)
      OBVIOUS
    <2>2. PICK after : after = IF page = {} THEN scan.after ELSE Max(page)
      OBVIOUS
    <2>3. PICK at \in {"complete", "paging"} : at = IF Cardinality(page) < BatchSize THEN "complete" ELSE "paging"
      OBVIOUS
    <2>4. scan.at = "paging" /\ next = [scan EXCEPT !.got = @ \union page, !.after = after, !.at = at]
      BY <1>3, <1>7, <2>1, <2>2, <2>3 DEF ScanPage
    <2>5. scan.after \in Int /\ scan.after \in Keys /\ scan.stable \in SUBSET Items
      BY <1>1, KvConfig DEF Scans
    <2>6. /\ page \in SUBSET Items
          /\ Cardinality(page) < BatchSize => \A k \in Items : (k > scan.after /\ Live(k)) => k \in page
          /\ page # {} => /\ Max(page) \in page
                          /\ \A k \in Items : (k > scan.after /\ Live(k) /\ k <= Max(page)) => k \in page
      BY <2>1, <2>5, PageIs
    <2>7. after \in Keys
      BY <2>2, <2>5, <2>6, KvConfig
    <2>8. /\ next \in Scans /\ next.at = at /\ next.after = after /\ next.got = scan.got \union page
          /\ next.stable = scan.stable
      BY <1>1, <2>4, <2>6, <2>7 DEF Scans
    <2>9. ASSUME NEW k \in scan.stable, k <= after \/ at = "complete"
          PROVE  k \in scan.got \union page
      <3>1. k \in Items /\ k \in Int /\ Live(k) /\ (k <= scan.after => k \in scan.got)
        BY <1>1, <2>5, <2>9, KvConfig DEF ScanOK, Live, LiveIn
      <3>2. CASE k <= scan.after
        BY <3>1, <3>2
      <3>3. CASE k > scan.after /\ at = "complete"
        BY <2>3, <2>6, <3>1, <3>3
      <3>4. CASE k > scan.after /\ k <= after
        <4>1. page # {} /\ after = Max(page)
          BY <2>2, <2>5, <3>1, <3>4
        <4> QED
          BY <2>6, <3>1, <3>4, <4>1
      <3> QED
        BY <2>5, <2>9, <3>1, <3>2, <3>3, <3>4
    <2> QED
      BY <1>1, <2>8, <2>9 DEF ScanOK
  <1>8. CASE ScanEnds
    <2>1. next = NewScan
      BY <1>3, <1>8 DEF ScanEnds
    <2> QED
      BY <1>5, <2>1 DEF ScanOK
  <1> QED
    BY <1>6, <1>7, <1>8 DEF Reader


\* A batch of the cleanup takes rows that expired and that nobody holds, and all of
\* them when it is not full.
LEMMA BatchIs ==
    ASSUME KvInv, NEW batch, batch = ExpiredBatch
    PROVE  /\ \A k \in batch : k \in DOMAIN table /\ ~Live(k) /\ Unlocked(k)
           /\ Cardinality(batch) < BatchSize =>
                 \A k \in DOMAIN table : (~Live(k) /\ Unlocked(k)) => k \in batch
  <1>1. PICK old : old = {k \in DOMAIN table : ~Live(k) /\ Unlocked(k)}
    OBVIOUS
  <1>2. PICK Exp : Exp = [k \in old |-> table[k].exp]
    OBVIOUS
  <1>3. batch = {k \in old : Cardinality({j \in old : Exp[j] < Exp[k] \/ (Exp[j] = Exp[k] /\ j < k)}) < BatchSize}
    <2>1. batch = {k \in old : Cardinality({j \in old : table[j].exp < table[k].exp
                                       \/ (table[j].exp = table[k].exp /\ j < k)}) < BatchSize}
      BY <1>1 DEF ExpiredBatch
    <2>2. \A k, j \in old : (table[j].exp < table[k].exp \/ (table[j].exp = table[k].exp /\ j < k))
                               <=> (Exp[j] < Exp[k] \/ (Exp[j] = Exp[k] /\ j < k))
      BY <1>2
    <2>3. \A k \in old : {j \in old : table[j].exp < table[k].exp \/ (table[j].exp = table[k].exp /\ j < k)}
                          = {j \in old : Exp[j] < Exp[k] \/ (Exp[j] = Exp[k] /\ j < k)}
      BY <2>2
    <2> QED
      BY <2>1, <2>3
  <1>4. \A k \in old : k \in Int /\ Exp[k] \in Nat
    <2>1. ASSUME NEW k \in old
          PROVE  k \in Int /\ Exp[k] \in Nat
      <3>1. k \in Int /\ table[k] \in Rows
        BY <1>1, KvIs, KvConfig
      <3>2. table[k].exp \in Times /\ Times \subseteq Nat
        BY <1>1, <3>1, TableIs, KvConfig DEF Live, LiveAt, Times
      <3> QED
        BY <1>2, <3>1, <3>2
    <2> QED
      BY <2>1
  <1>5. IsFiniteSet(old) /\ BatchSize \in Nat
    <2>1. IsFiniteSet(Items) /\ Keys = {Counter} \union Items /\ BatchSize \in Nat
      BY KvConfig
    <2>2. IsFiniteSet(Keys)
      <3>1. IsFiniteSet({Counter})
        BY FS_Singleton
      <3> QED
        BY <2>1, <3>1, FS_Union
    <2>3. old \in SUBSET Keys
      BY <1>1, KvIs
    <2> QED
      BY <2>1, <2>2, <2>3, FS_Subset
  <1>6. Cardinality(batch) < BatchSize => batch = old
    <2>1. PICK R : R = {p \in old \X old : Exp[p[1]] < Exp[p[2]] \/ (Exp[p[1]] = Exp[p[2]] /\ p[1] < p[2])}
      OBVIOUS
    <2>2. \A x, y \in old : <<x, y>> \in R <=> Exp[x] < Exp[y] \/ (Exp[x] = Exp[y] /\ x < y)
      BY <2>1
    <2>3. \A k \in old : {j \in old : <<j, k>> \in R} = {j \in old : Exp[j] < Exp[k] \/ (Exp[j] = Exp[k] /\ j < k)}
      BY <2>2
    <2>4. batch = FirstOf(old, R, BatchSize)
      BY <1>3, <2>3 DEF FirstOf
    <2>5. ASSUME NEW x \in old, NEW y \in old, NEW z \in old, <<x, y>> \in R, <<y, z>> \in R
          PROVE  <<x, z>> \in R
      <3>1. PICK a \in Nat, b \in Nat, c \in Nat : a = Exp[x] /\ b = Exp[y] /\ c = Exp[z]
        BY <1>4
      <3>2. (a < b \/ (a = b /\ x < y)) /\ (b < c \/ (b = c /\ y < z)) /\ x \in Int /\ y \in Int /\ z \in Int
        BY <1>4, <2>2, <2>5, <3>1
      <3>3. a < c \/ (a = c /\ x < z)
        BY <3>2
      <3> QED
        BY <2>2, <3>1, <3>3
    <2>6. \A x \in old : <<x, x>> \notin R
      BY <1>4, <2>2
    <2>7. Cardinality(FirstOf(old, R, BatchSize)) < BatchSize => FirstOf(old, R, BatchSize) = old
      BY <1>5, <2>5, <2>6, FirstOnes
    <2> QED
      BY <2>4, <2>7
  <1>7. \A k \in batch : k \in old
    BY <1>3
  <1> QED
    BY <1>1, <1>6, <1>7

\* The batched cleanup.
LEMMA CleanerKeeps ==
    ASSUME KvInv, Cleaner
    PROVE  KvInv'
  <1>1. CleanupOK(cleanup, table, clock, tx)
    BY KvIs
  <1>2. CASE CleanupBegins
    <2>1. PICK c : c = cleanup'
      OBVIOUS
    <2>2. c = [at |-> "batches", due |-> {k \in DOMAIN table : ~Live(k) /\ Unlocked(k)}]
      BY <1>2, <2>1 DEF CleanupBegins
    <2>3. /\ c \in [at : {"idle", "batches", "complete"}, due : SUBSET Keys] /\ c.at = "batches"
          /\ c.due = {k \in DOMAIN table : ~Live(k) /\ Unlocked(k)}
      BY <2>2, KvIs
    <2>4. CleanupOK(c, table, clock, tx)
      BY <2>3, KvIs DEF CleanupOK, Live
    <2> QED
      BY <1>2, <2>1, <2>4 DEF CleanupBegins, KvInv
  <1>3. CASE CleanupEnds
    <2>1. PICK c : c = cleanup'
      OBVIOUS
    <2>2. /\ c \in [at : {"idle", "batches", "complete"}, due : SUBSET Keys] /\ c.due = {}
      BY <1>3, <2>1 DEF CleanupEnds, NewCleanup
    <2>3. CleanupOK(c, table, clock, tx)
      BY <2>2 DEF CleanupOK
    <2> QED
      BY <1>3, <2>1, <2>3 DEF CleanupEnds, KvInv
  <1>4. CASE CleanupBatch
    <2>1. PICK batch : batch = ExpiredBatch
      OBVIOUS
    <2>2. /\ \A k \in batch : k \in DOMAIN table /\ ~Live(k) /\ Unlocked(k)
          /\ Cardinality(batch) < BatchSize =>
                \A k \in DOMAIN table : (~Live(k) /\ Unlocked(k)) => k \in batch
      BY <2>1, BatchIs
    <2>3. PICK rows : rows = Without(table, batch)
      OBVIOUS
    <2>4. rows \in Tables /\ DOMAIN rows = DOMAIN table \ batch /\ \A j \in DOMAIN table \ batch : rows[j] = table[j]
      <3>1. table \in Tables
        BY KvIs
      <3>2. /\ Without(table, batch) \in Tables /\ DOMAIN Without(table, batch) = DOMAIN table \ batch
            /\ \A j \in DOMAIN table \ batch : Without(table, batch)[j] = table[j]
        BY <3>1, WithoutIs
      <3> QED
        BY <2>3, <3>2
    <2>5. PICK next : next = tx'
      OBVIOUS
    <2>6. PICK c : c = cleanup'
      OBVIOUS
    <2>7. /\ table' = rows
          /\ next = [t \in Txs |-> IF tx[t].at = "waiting" /\ tx[t].key \in batch
                                   THEN [tx[t] EXCEPT !.seen = FALSE] ELSE tx[t]]
          /\ c = [at |-> IF Cardinality(batch) < BatchSize THEN "complete" ELSE "batches",
                  due |-> cleanup.due \ batch]
          /\ UNCHANGED <<clock, scan, total, winners>>
      BY <1>4, <2>1, <2>3, <2>5, <2>6 DEF CleanupBatch
    <2>8. DOMAIN table \ DOMAIN rows = batch
      BY <2>2, <2>4
    <2>9. next = Noticed(tx, rows)
      BY <2>7, <2>8 DEF Noticed
    <2>10. OthersKeep(tx, rows, total)
      <3>1. \A t \in Txs : Holds(tx[t]) => tx[t].key \notin batch
        BY <2>2, KvIs
      <3> QED
        BY <2>4, <3>1 DEF OthersKeep
    <2>11. /\ next \in [Txs -> TxRecords]
           /\ \A t \in Txs : TxOK(next[t], rows, clock, total) /\ (Holds(next[t]) => Holds(tx[t]) /\ next[t].key = tx[t].key)
           /\ \A t, u \in Txs : (t # u /\ Holds(next[t]) /\ Holds(next[u])) => next[t].key # next[u].key
      <3>1. tx \in [Txs -> TxRecords] /\ total \in Int
        BY KvIs
      <3> QED
        BY <2>4, <2>9, <2>10, <3>1, RowsChange
    <2>12. CounterOK(rows, total)
      <3>1. CounterOK(table, total)
        BY KvIs
      <3>2. Counter \notin batch
        BY <2>2, <3>1 DEF CounterOK, Live, LiveAt
      <3> QED
        BY <2>4, <3>1, <3>2 DEF CounterOK
    <2>13. ScanOK(scan, rows, clock)
      <3>1. ScanOK(scan, table, clock)
        BY KvIs
      <3>2. \A k : LiveIn(table, k, clock) => LiveIn(rows, k, clock)
        BY <2>2, <2>4 DEF LiveIn, Live
      <3> QED
        BY <3>1, <3>2 DEF ScanOK
    <2>14. CleanupOK(c, rows, clock, next)
      <3>1. PICK at \in {"complete", "batches"} : at = IF Cardinality(batch) < BatchSize THEN "complete" ELSE "batches"
        OBVIOUS
      <3>2. /\ c \in [at : {"idle", "batches", "complete"}, due : SUBSET Keys] /\ c.at = at
            /\ c.due = cleanup.due \ batch
        BY <1>1, <2>7, <3>1 DEF CleanupOK
      <3>3. \A k \in cleanup.due : k \in DOMAIN table /\ ~LiveAt(table[k], clock) /\ ~Live(k) /\ Unlocked(k)
        BY <1>1, KvIs DEF CleanupOK, Live
      <3>4. at = "complete" => cleanup.due \ batch = {}
        BY <2>2, <3>1, <3>3
      <3>5. \A k \in cleanup.due \ batch : k \in DOMAIN rows /\ ~LiveAt(rows[k], clock)
        BY <2>4, <3>3
      <3>6. \A k \in cleanup.due, t \in Txs : ~(Holds(next[t]) /\ next[t].key = k)
        BY <1>1, <2>11 DEF CleanupOK
      <3> QED
        BY <3>2, <3>4, <3>5, <3>6 DEF CleanupOK
    <2> QED
      BY <2>4, <2>5, <2>6, <2>7, <2>11, <2>12, <2>13, <2>14 DEF KvInv
  <1> QED
    BY <1>2, <1>3, <1>4 DEF Cleaner

\* An empty store.
LEMMA KvInitInv == KvInit => KvInv
  <1> SUFFICES ASSUME KvInit PROVE KvInv
    OBVIOUS
  <1>1. /\ clock = 0 /\ table = <<>> /\ total = 0 /\ tx = [t \in Txs |-> NewTx] /\ scan = NewScan /\ cleanup = NewCleanup
        /\ winners = [k \in Items |-> 0]
    BY DEF KvInit
  <1>2. clock \in 0 .. MaxClock /\ table \in Tables /\ DOMAIN table = {} /\ total \in Int
    BY <1>1, KvConfig, TableIs
  <1>3. \A t \in Txs : tx[t] = NewTx
    BY <1>1
  <1>4. tx \in [Txs -> TxRecords] /\ \A t \in Txs : TxOK(tx[t], table, clock, total) /\ ~Holds(tx[t])
    <2>1. clock \in Nat
      BY <1>1
    <2> QED
      BY <1>1, <1>3, <2>1, NewTxIs DEF Holds
  <1>5. CounterOK(table, total)
    BY <1>1, <1>2 DEF CounterOK
  <1>6. ScanOK(scan, table, clock)
    BY <1>1, KvConfig DEF ScanOK, Scans, NewScan
  <1>7. CleanupOK(cleanup, table, clock, tx)
    BY <1>1 DEF CleanupOK, NewCleanup
  <1>8. winners \in [Items -> {0, 1}]
    BY <1>1
  <1> QED
    BY <1>2, <1>4, <1>5, <1>6, <1>7, <1>8 DEF KvInv

\* What is true of the table, of every transaction, of the scan and of the cleanup
\* stays true, however the statements and the transactions interleave.
THEOREM KvInvariance == KvSpec => []KvInv
  <1>1. ASSUME KvInv, KvNext
        PROVE  KvInv'
    <2>1. CASE Statement(Items)
      <3>1. \/ \E ks \in SUBSET Items, ttl \in {Ttl, Never} : SetBytesMulti(ks, 0, ttl)
            \/ \E k \in Items : SetBytesIfNotExists(k, 0) \/ \E ttl \in {Ttl, Never} : SetBytes(k, 0, ttl)
            \/ \E k \in Items : ExpireKey(k) \/ DeleteKey(k) \/ \E ttl \in {Ttl, Never} : SetKeyTtl(k, ttl)
            \/ DeleteKeysWithPrefixOnce \/ DeleteEntireNamespace
        BY <2>1 DEF Statement
      <3> QED
        BY <1>1, <3>1, WritesKeep, RemovalsKeep
    <2>2. ASSUME NEW t \in Txs, NEW calls, NEW keys, Mutation(t, calls, keys),
                 (calls = {"add"} /\ keys = {Counter}) \/ (calls = ItemCalls /\ keys = Items)
          PROVE  KvInv'
      <3>1. CASE \E call \in calls, k \in keys, own \in BOOLEAN : BeginMutation(t, call, k, own)
        <4>1. PICK call \in calls, k \in keys, own \in BOOLEAN : BeginMutation(t, call, k, own)
          BY <3>1
        <4>2. (call = "add" /\ k = Counter) \/ (call \in ItemCalls /\ k \in Items)
          BY <2>2, <4>1
        <4> QED
          BY <1>1, <4>1, <4>2, BeginKeeps
      <3>2. CASE LockExisting(t) \/ LockByPlaceholder(t) \/ LockReturnsNoRow(t)
        BY <1>1, <3>2, LockingKeeps
      <3>3. CASE Decide(t)
        BY <1>1, <3>3, DecideKeeps
      <3>4. CASE CommitMutation(t)
        BY <1>1, <3>4, CommitMutationKeeps
      <3>5. CASE RollbackMutation(t)
        BY <1>1, <3>5, RollbackKeeps
      <3> QED
        BY <2>2, <3>1, <3>2, <3>3, <3>4, <3>5 DEF Mutation
    <2>3. CASE \E t \in Txs : Mutation(t, {"add"}, {Counter}) \/ Mutation(t, ItemCalls, Items)
      BY <2>2, <2>3
    <2> QED
      BY <1>1, <2>1, <2>3, TickKeeps, CounterSetKeeps, ReaderKeeps, CleanerKeeps DEF KvNext
  <1>2. ASSUME KvInv, UNCHANGED kvVars
        PROVE  KvInv'
    BY <1>2 DEF kvVars, KvInv
  <1>3. KvInv /\ [KvNext]_kvVars => KvInv'
    BY <1>1, <1>2
  <1> QED
    BY <1>3, KvInitInv, PTL DEF KvSpec

\* The key-value store is sound: its types, a counter that is exactly the sum of the
\* additions, no placeholder that survives, one creator per life of an item, and
\* scans and cleanups that miss nothing.
THEOREM KvSoundness == KvSpec => []KvIsSound
  <1>1. KvInv => KvIsSound
    <2> SUFFICES ASSUME KvInv PROVE KvIsSound
      OBVIOUS
    <2>1. /\ clock \in 0 .. MaxClock /\ total \in Int /\ DOMAIN table \subseteq Keys
          /\ \A k \in DOMAIN table : table[k] \in Rows
      BY KvIs DEF KvInv
    <2>2. \A k \in DOMAIN table : table[k].value \in Value /\ table[k].exp \in Times \union {Never}
      BY <2>1, TableIs
    <2>3. ASSUME NEW t \in Txs
          PROVE  /\ tx[t].at \in {"idle", "waiting", "locked", "done", "gave_up"}
                 /\ tx[t].tries <= LockAttempts /\ (tx[t].inserted => ~tx[t].live)
      <3>1. PICK s \in TxRecords : s = tx[t] /\ TxOK(s, table, clock, total)
        BY KvIs
      <3>2. s.tries \in 0 .. LockAttempts /\ LockAttempts \in Nat
        BY KvConfig DEF TxRecords
      <3>3. s.tries <= LockAttempts
        BY <3>2
      <3> QED
        BY <3>1, <3>3 DEF TxRecords, TxOK
    <2>4. \A t, u \in Txs : t # u => LockedBy(t) \intersect LockedBy(u) = {}
      BY DEF KvInv, LockedBy, Holds
    <2>5. winners \in [Items -> {0, 1}]
      BY KvIs
    <2>6. winners \in [Items -> Nat]
      BY <2>5
    <2>7. KvTypeOK
      BY <2>1, <2>2, <2>3, <2>4, <2>6 DEF KvTypeOK
    <2>8. CounterIsExact
      BY KvIs DEF CounterIsExact, CounterOK
    <2>9. PlaceholderNeverSurvives
      BY <2>2, KvConfig DEF PlaceholderNeverSurvives
    <2>10. OneCreatorPerLife
      BY <2>5 DEF OneCreatorPerLife
    <2>11. ScanMissesNothingStable
      BY KvIs DEF ScanMissesNothingStable, ScanOK
    <2>12. CleanupIsComplete
      BY KvIs DEF CleanupIsComplete, CleanupOK
    <2> QED
      BY <2>7, <2>8, <2>9, <2>10, <2>11, <2>12 DEF KvIsSound
  <1> QED
    BY <1>1, KvInvariance, PTL

(***************************************************************************)
(* Topics.  Numbers become visible in order, so that everything up to a    *)
(* scanned number is in the batch or was dealt with; whoever holds a batch *)
(* may move the cursor behind it once the batch itself is dealt with.      *)
(***************************************************************************)
\* The log: numbers are taken in order by whoever holds the sequence row, and what is
\* published is retained or excused.
LogInv ==
    /\ sequence \in 0 .. MaxSequence /\ locker \in Publishers \union {NoPublisher}
    /\ published = 1 .. sequence /\ events \subseteq published /\ published \subseteq events \union excused
    /\ writes \in [Publishers -> SUBSET Numbers]
    /\ \A p \in Publishers : writes[p] # {} =>
          /\ locker = p
          /\ \E n \in Numbers : sequence < n /\ writes[p] = sequence + 1 .. n

\* Every number up to n has been dealt with.
Passed(n, done) == \A k \in Numbers : k <= n => k \in done

\* A scanned batch: what is not in it, up to its last number, has been dealt with.
BatchOK(batch, done) ==
    batch # {} /\ Max(batch) \in Numbers /\ Passed(Max(batch), done \union batch)

ReaderRecords == [at : {"idle", "scan", "advance"}, cursor : 0 .. MaxSequence, batch : SUBSET Numbers]

ReaderOK(s, done) ==
    /\ s \in ReaderRecords
    /\ s.at = "scan" => Passed(s.cursor, done)
    /\ s.at = "advance" => BatchOK(s.batch, done)

PollRecords ==
    [at : PollPlaces, cursor : 0 .. MaxSequence, batch : SUBSET Numbers, lost : BOOLEAN,
     end : {"none", "ok", "failed", "lost"}]

PollerOK(s, at, moved, accepted, done) ==
    /\ s \in PollRecords
    /\ s.at = "scan" => Passed(s.cursor, done)
    /\ s.at \in {"got", "handler", "accepted", "advanced"} => BatchOK(s.batch, done)
    /\ s.at \in {"accepted", "advanced"} => s.batch \subseteq accepted
    /\ (s.at = "advanced" /\ moved = 0) => at >= Max(s.batch)

TopicInv ==
    /\ LogInv
    /\ cursor \in 0 .. MaxSequence /\ moves \in Nat
    /\ Passed(cursor, handled \union excused)
    /\ ReaderOK(reader, handled \union excused)
    /\ poller \in [Pollers -> PollRecords]
    /\ \A c \in Pollers : PollerOK(poller[c], cursor, moves, handled, handled \union excused)

\* Numbers.
LEMMA NumbersAre ==
    /\ MaxSequence \in Nat /\ PollLimit \in Nat \ {0} /\ NoPublisher \notin Publishers
    /\ Numbers = 1 .. MaxSequence /\ Numbers \subseteq Nat /\ Numbers \subseteq Int /\ IsFiniteSet(Numbers)
    /\ \A S \in SUBSET Numbers : S # {} => Max(S) \in S /\ \A n \in S : n <= Max(S)
  <1>1. MaxSequence \in Nat /\ PollLimit \in Nat \ {0} /\ NoPublisher \notin Publishers
    BY TopicAssumption
  <1>2. Numbers = 1 .. MaxSequence /\ Numbers \subseteq Nat /\ Numbers \subseteq Int
    BY <1>1 DEF Numbers
  <1>3. IsFiniteSet(Numbers)
    BY <1>1, <1>2, FS_Interval
  <1>4. ASSUME NEW S \in SUBSET Numbers, S # {}
        PROVE  Max(S) \in S /\ \A n \in S : n <= Max(S)
    <2>1. S \in SUBSET Int
      BY <1>2
    <2>2. IsFiniteSet(S)
      BY <1>3, FS_Subset
    <2> QED
      BY <1>4, <2>1, <2>2, LargestNumber
  <1> QED
    BY <1>1, <1>2, <1>3, <1>4

\* What has been dealt with stays so.
LEMMA MoreIsPassed ==
    ASSUME NEW done, NEW more, done \subseteq more
    PROVE  /\ \A n : Passed(n, done) => Passed(n, more)
           /\ \A batch : BatchOK(batch, done) => BatchOK(batch, more)
           /\ \A batch : (BatchOK(batch, done) /\ batch \subseteq done) => Passed(Max(batch), more)
  <1>1. \A n : Passed(n, done) => Passed(n, more)
    BY DEF Passed
  <1>2. \A batch : BatchOK(batch, done) => BatchOK(batch, more)
    <2> TAKE batch
    <2>1. Passed(Max(batch), done \union batch) => Passed(Max(batch), more \union batch)
      BY DEF Passed
    <2> QED
      BY <2>1 DEF BatchOK
  <1>3. ASSUME NEW batch, BatchOK(batch, done), batch \subseteq done
        PROVE  Passed(Max(batch), more)
    BY <1>3 DEF BatchOK, Passed
  <1> QED
    BY <1>1, <1>2, <1>3

\* A scan passes over nothing.
LEMMA ScanIs ==
    ASSUME TopicInv, NEW after \in 0 .. MaxSequence, Passed(after, handled \union excused),
           NEW batch, batch = ScanAfter(after)
    PROVE  batch \in SUBSET Numbers /\ (batch # {} => BatchOK(batch, handled \union excused))
  <1>1. PICK later : later = {n \in events : n > after}
    OBVIOUS
  <1>2. batch = {n \in later : Cardinality({m \in later : m < n}) < PollLimit}
    BY <1>1 DEF ScanAfter
  <1>3. published = 1 .. sequence /\ events \subseteq published /\ published \subseteq events \union excused /\ sequence \in 0 .. MaxSequence
    BY DEF TopicInv, LogInv
  <1>4. published \subseteq Numbers
    BY <1>3, NumbersAre
  <1>5. later \in SUBSET Numbers /\ later \in SUBSET Int /\ IsFiniteSet(later) /\ PollLimit \in Nat
    <2>1. later \in SUBSET Numbers /\ PollLimit \in Nat /\ IsFiniteSet(Numbers) /\ Numbers \subseteq Int
      BY <1>1, <1>3, <1>4, NumbersAre
    <2>2. IsFiniteSet(later)
      BY <2>1, FS_Subset
    <2> QED
      BY <2>1, <2>2
  <1>6. batch \in SUBSET later /\ batch \in SUBSET Numbers
    BY <1>2, <1>5
  <1>7. ASSUME batch # {}
        PROVE  BatchOK(batch, handled \union excused)
    <2>1. Max(batch) \in batch /\ \A k \in later : k <= Max(batch) => k \in batch
      BY <1>2, <1>5, <1>7, NoneIsLeftBehind
    <2>2. PICK m \in Numbers : m = Max(batch) /\ m <= sequence /\ m \in Nat
      <3>1. PICK m \in published : m = Max(batch)
        BY <1>1, <1>3, <1>6, <2>1
      <3>2. m \in Numbers /\ m \in Nat
        BY <1>4, NumbersAre
      <3>3. m <= sequence
        BY <1>3, <3>2
      <3> QED
        BY <3>1, <3>2, <3>3
    <2>3. ASSUME NEW k \in Numbers, k <= m
          PROVE  k \in (handled \union excused) \union batch
      <3>1. k \in Nat /\ 1 <= k /\ sequence \in Nat /\ after \in Nat
        BY <1>3, NumbersAre
      <3>2. k \in published
        BY <1>3, <2>2, <2>3, <3>1
      <3>3. CASE k <= after
        BY <3>3 DEF Passed
      <3>4. CASE k > after /\ k \in events
        BY <1>1, <2>1, <2>2, <2>3, <3>4
      <3>5. CASE k \in excused
        BY <3>5
      <3> QED
        BY <1>3, <3>1, <3>2, <3>3, <3>4, <3>5
    <2> QED
      BY <1>7, <2>2, <2>3 DEF BatchOK, Passed
  <1> QED
    BY <1>6, <1>7

\* The cursor moves behind a batch that has been dealt with, or stays.
LEMMA AdvanceIs ==
    ASSUME TopicInv, NEW batch \in SUBSET Numbers, NEW done, handled \union excused \subseteq done, BatchOK(batch, done),
           batch \subseteq done, NEW to, to = AdvancedCursor(Max(batch))
    PROVE  to \in 0 .. MaxSequence /\ to >= cursor /\ to >= Max(batch) /\ Passed(to, done)
  <1>1. cursor \in 0 .. MaxSequence /\ Passed(cursor, done)
    BY MoreIsPassed DEF TopicInv
  <1>2. PICK m \in Numbers : m = Max(batch) /\ Passed(m, done)
    BY MoreIsPassed DEF BatchOK
  <1>3. m \in Nat /\ m \in 0 .. MaxSequence /\ cursor \in Nat
    BY <1>1, NumbersAre
  <1>4. to = IF cursor >= m THEN cursor ELSE m
    BY <1>2 DEF AdvancedCursor
  <1> QED
    BY <1>1, <1>2, <1>3, <1>4

\* What readers and loops know stays true while more is dealt with and the cursor is
\* moved, forward or by the operator.
LEMMA BystandersKeep ==
    ASSUME TopicInv, NEW at \in 0 .. MaxSequence, NEW moved \in Nat, NEW accepted, NEW done,
           handled \subseteq accepted, handled \union excused \subseteq done,
           moved = 0 => moves = 0 /\ at >= cursor
    PROVE  ReaderOK(reader, done) /\ \A c \in Pollers : PollerOK(poller[c], at, moved, accepted, done)
  <1>1. ReaderOK(reader, done)
    <2>1. ReaderOK(reader, handled \union excused)
      BY DEF TopicInv
    <2> QED
      BY <2>1, MoreIsPassed DEF ReaderOK
  <1>2. ASSUME NEW c \in Pollers
        PROVE  PollerOK(poller[c], at, moved, accepted, done)
    <2>1. PICK s \in PollRecords : s = poller[c] /\ PollerOK(s, cursor, moves, handled, handled \union excused)
      BY DEF TopicInv, PollerOK
    <2>2. s.at \in {"got", "handler", "accepted", "advanced"} => BatchOK(s.batch, done)
      BY <2>1, MoreIsPassed DEF PollerOK
    <2>3. s.at = "scan" => Passed(s.cursor, done)
      BY <2>1, MoreIsPassed DEF PollerOK
    <2>4. (s.at = "advanced" /\ moved = 0) => at >= Max(s.batch)
      <3>1. ASSUME s.at = "advanced", moved = 0
            PROVE  at >= Max(s.batch)
        <4>1. PICK m \in Nat : m = Max(s.batch) /\ cursor >= m
          BY <2>1, <3>1, NumbersAre DEF PollerOK, BatchOK
        <4>2. cursor \in Nat /\ at \in Nat /\ at >= cursor
          BY <3>1 DEF TopicInv
        <4> QED
          BY <4>1, <4>2
      <3> QED
        BY <3>1
    <2> QED
      BY <2>1, <2>2, <2>3, <2>4 DEF PollerOK
  <1> QED
    BY <1>1, <1>2


\* One loop goes on.
LEMMA LoopStep ==
    ASSUME TopicInv, NEW c \in Pollers, NEW s, poller' = [poller EXCEPT ![c] = s],
           UNCHANGED <<logVars, reader, moves, excused>>, handled \subseteq handled',
           cursor' \in 0 .. MaxSequence, cursor' >= cursor, Passed(cursor', handled' \union excused),
           PollerOK(s, cursor', moves, handled', handled' \union excused)
    PROVE  TopicInv' /\ CursorIsMonotone
  <1>1. PICK at \in 0 .. MaxSequence : at = cursor' /\ at >= cursor
    OBVIOUS
  <1>2. PICK accepted : accepted = handled'
    OBVIOUS
  <1>3. PICK done : done = accepted \union excused
    OBVIOUS
  <1>4. PICK next : next = poller'
    OBVIOUS
  <1>5. handled \subseteq accepted /\ handled \union excused \subseteq done /\ moves \in Nat
    BY <1>2, <1>3 DEF TopicInv
  <1>6. ReaderOK(reader, done) /\ \A d \in Pollers : PollerOK(poller[d], at, moves, accepted, done)
    BY <1>1, <1>5, BystandersKeep
  <1>7. PollerOK(s, at, moves, accepted, done) /\ s \in PollRecords
    BY <1>1, <1>2, <1>3 DEF PollerOK
  <1>8. next \in [Pollers -> PollRecords] /\ \A d \in Pollers : next[d] = IF d = c THEN s ELSE poller[d]
    BY <1>4, <1>7 DEF TopicInv
  <1>9. \A d \in Pollers : PollerOK(next[d], at, moves, accepted, done)
    BY <1>6, <1>7, <1>8
  <1>10. LogInv'
    BY DEF TopicInv, LogInv, logVars
  <1>11. Passed(at, done)
    BY <1>1, <1>2, <1>3
  <1>12. cursor' = at /\ moves' = moves /\ reader' = reader /\ poller' = next /\ handled' = accepted /\ handled' \union excused' = done
    BY <1>1, <1>2, <1>3, <1>4
  <1>13. TopicInv'
    BY <1>5, <1>6, <1>8, <1>9, <1>10, <1>11, <1>12 DEF TopicInv
  <1> QED
    BY <1>13 DEF CursorIsMonotone

\* A loop that goes on alone.
LEMMA LoopAlone ==
    ASSUME TopicInv, NEW c \in Pollers, NEW s, poller' = [poller EXCEPT ![c] = s], OthersOfPoller,
           PollerOK(s, cursor, moves, handled, handled \union excused)
    PROVE  TopicInv' /\ CursorIsMonotone
  <1>1. /\ UNCHANGED <<logVars, reader, moves, excused>> /\ handled' = handled /\ cursor' = cursor
        /\ cursor \in 0 .. MaxSequence /\ Passed(cursor, handled \union excused)
    BY DEF OthersOfPoller, TopicInv
  <1>2. cursor >= cursor
    BY <1>1
  <1> QED
    BY <1>1, <1>2, LoopStep

\* A loop that ends, and one that goes to release its guard.
LEMMA LoopLeaves ==
    ASSUME TopicInv, NEW c \in Pollers, NEW how \in {"ok", "failed", "lost"}
    PROVE  /\ (PollerEnds(c, how) /\ OthersOfPoller) => TopicInv' /\ CursorIsMonotone
           /\ (Breaks(c, how) /\ OthersOfPoller) => TopicInv' /\ CursorIsMonotone
           /\ \E s : /\ Breaks(c, how) <=> poller' = [poller EXCEPT ![c] = s]
                     /\ \A at, moved, accepted, done : PollerOK(s, at, moved, accepted, done)
  <1>1. ASSUME NEW place \in {"ended", "releasing"}, NEW s,
               s = [at |-> place, cursor |-> 0, batch |-> {}, lost |-> FALSE, end |-> how]
        PROVE  \A at, moved, accepted, done : PollerOK(s, at, moved, accepted, done)
    <2>1. s \in PollRecords
      <3>1. 0 \in 0 .. MaxSequence
        BY NumbersAre
      <3> QED
        BY <1>1, <3>1 DEF PollRecords, PollPlaces
    <2>2. s.at \in {"ended", "releasing"}
      BY <1>1
    <2> QED
      BY <2>1, <2>2 DEF PollerOK
  <1>2. PICK s : s = [at |-> "releasing", cursor |-> 0, batch |-> {}, lost |-> FALSE, end |-> how]
    OBVIOUS
  <1>3. \A at, moved, accepted, done : PollerOK(s, at, moved, accepted, done)
    BY <1>1, <1>2
  <1>4. Breaks(c, how) <=> poller' = [poller EXCEPT ![c] = s]
    BY <1>2 DEF Breaks
  <1>5. (Breaks(c, how) /\ OthersOfPoller) => TopicInv' /\ CursorIsMonotone
    BY <1>3, <1>4, LoopAlone
  <1>6. ASSUME PollerEnds(c, how), OthersOfPoller
        PROVE  TopicInv' /\ CursorIsMonotone
    <2>1. PICK e : e = [at |-> "ended", cursor |-> 0, batch |-> {}, lost |-> FALSE, end |-> how]
      OBVIOUS
    <2>2. \A at, moved, accepted, done : PollerOK(e, at, moved, accepted, done)
      BY <1>1, <2>1
    <2>3. poller' = [poller EXCEPT ![c] = e]
      BY <1>6, <2>1 DEF PollerEnds
    <2> QED
      BY <1>6, <2>2, <2>3, LoopAlone
  <1> QED
    BY <1>3, <1>4, <1>5, <1>6

\* Steps of a loop.
LEMMA LoopKeeps ==
    ASSUME TopicInv, NEW c \in Pollers, PollerNext(c)
    PROVE  TopicInv' /\ CursorIsMonotone
  <1>1. PICK me \in PollRecords : me = poller[c] /\ PollerOK(me, cursor, moves, handled, handled \union excused)
    BY DEF TopicInv, PollerOK
  <1>2. /\ me.at \in PollPlaces /\ me.cursor \in 0 .. MaxSequence /\ me.batch \in SUBSET Numbers
        /\ poller \in [Pollers -> PollRecords] /\ cursor \in 0 .. MaxSequence /\ moves \in Nat
        /\ Passed(cursor, handled \union excused) /\ me.end \in {"none", "ok", "failed", "lost"}
    BY DEF PollRecords, TopicInv
  <1>3. CASE PollerClaims(c) \/ PollerCallsHandler(c) \/ PollerLoses(c)
    <2>1. PICK s : \/ s = [me EXCEPT !.at = "start"] /\ PollerClaims(c)
                   \/ s = [me EXCEPT !.at = "handler"] /\ PollerCallsHandler(c)
                   \/ s = [me EXCEPT !.lost = TRUE] /\ PollerLoses(c)
      BY <1>3
    <2>2. poller' = [poller EXCEPT ![c] = s] /\ OthersOfPoller
      BY <1>1, <1>2, <2>1 DEF PollerClaims, PollerCallsHandler, PollerLoses, Steps
    <2>3. /\ s \in PollRecords /\ s.batch = me.batch /\ s.cursor = me.cursor
          /\ s.at \in {"start", me.at} \/ (s.at = "handler" /\ me.at = "got")
      BY <1>1, <2>1 DEF PollRecords, PollPlaces, PollerCallsHandler, Is
    <2>4. PollerOK(s, cursor, moves, handled, handled \union excused)
      BY <1>1, <2>3 DEF PollerOK
    <2> QED
      BY <2>2, <2>4, LoopAlone
  <1>4. CASE PollerFetchesCursor(c)
    <2>1. PICK s : s = [me EXCEPT !.at = "scan", !.cursor = cursor]
      OBVIOUS
    <2>2. poller' = [poller EXCEPT ![c] = s] /\ OthersOfPoller
      BY <1>1, <1>2, <1>4, <2>1 DEF PollerFetchesCursor
    <2>3. s \in PollRecords /\ s.at = "scan" /\ s.cursor = cursor
      BY <1>2, <2>1 DEF PollRecords, PollPlaces
    <2>4. PollerOK(s, cursor, moves, handled, handled \union excused)
      BY <1>2, <2>3 DEF PollerOK
    <2> QED
      BY <2>2, <2>4, LoopAlone
  <1>5. CASE PollerScans(c)
    <2>1. PICK batch : batch = ScanAfter(me.cursor)
      OBVIOUS
    <2>2. me.at = "scan" /\ batch # {} /\ OthersOfPoller
      BY <1>1, <1>5, <2>1 DEF PollerScans, Is
    <2>3. batch \in SUBSET Numbers /\ BatchOK(batch, handled \union excused)
      <3>1. Passed(me.cursor, handled \union excused)
        BY <1>1, <2>2 DEF PollerOK
      <3> QED
        BY <1>2, <2>1, <2>2, <3>1, ScanIs
    <2>4. PICK s : s = [me EXCEPT !.at = "got", !.batch = batch]
      OBVIOUS
    <2>5. poller' = [poller EXCEPT ![c] = s]
      BY <1>1, <1>2, <1>5, <2>1, <2>4 DEF PollerScans
    <2>6. s \in PollRecords /\ s.at = "got" /\ s.batch = batch
      BY <2>3, <2>4 DEF PollRecords, PollPlaces
    <2>7. PollerOK(s, cursor, moves, handled, handled \union excused)
      BY <2>3, <2>6 DEF PollerOK
    <2> QED
      BY <2>2, <2>5, <2>7, LoopAlone
  <1>6. CASE HandlerAccepts(c)
    <2>1. PICK accepted : accepted = handled \union me.batch
      OBVIOUS
    <2>2. PICK s : s = [me EXCEPT !.at = "accepted"]
      OBVIOUS
    <2>3. /\ me.at = "handler" /\ poller' = [poller EXCEPT ![c] = s] /\ handled' = accepted
          /\ UNCHANGED <<logVars, cursor, reader, moves, excused>>
      BY <1>1, <1>2, <1>6, <2>1, <2>2 DEF HandlerAccepts, Is, Steps
    <2>4. s \in PollRecords /\ s.at = "accepted" /\ s.batch = me.batch
      BY <2>2 DEF PollRecords, PollPlaces
    <2>5. handled \subseteq accepted /\ handled \union excused \subseteq accepted \union excused
      BY <2>1
    <2>6. BatchOK(me.batch, accepted \union excused) /\ Passed(cursor, accepted \union excused)
      <3>1. BatchOK(me.batch, handled \union excused)
        BY <1>1, <2>3 DEF PollerOK
      <3> QED
        BY <1>2, <2>5, <3>1, MoreIsPassed
    <2>7. PollerOK(s, cursor, moves, accepted, accepted \union excused)
      BY <2>1, <2>4, <2>6 DEF PollerOK
    <2>8. cursor >= cursor
      BY <1>2
    <2> QED
      BY <1>2, <2>3, <2>5, <2>6, <2>7, <2>8, LoopStep
  <1>7. CASE PollerAdvances(c)
    <2>1. me.at = "accepted" /\ UNCHANGED <<logVars, reader, moves, handled, excused>>
      BY <1>1, <1>7 DEF PollerAdvances, Is
    <2>2. BatchOK(me.batch, handled \union excused) /\ me.batch \subseteq handled
      BY <1>1, <2>1 DEF PollerOK
    <2>3. PICK to : to = AdvancedCursor(Max(me.batch))
      OBVIOUS
    <2>4. to \in 0 .. MaxSequence /\ to >= cursor /\ to >= Max(me.batch) /\ Passed(to, handled \union excused)
      BY <1>2, <2>2, <2>3, AdvanceIs
    <2>5. CASE cursor' = to /\ Steps(c, "advanced")
      <3>1. PICK s : s = [me EXCEPT !.at = "advanced"]
        OBVIOUS
      <3>2. poller' = [poller EXCEPT ![c] = s]
        BY <1>1, <1>2, <2>5, <3>1 DEF Steps
      <3>3. s \in PollRecords /\ s.at = "advanced" /\ s.batch = me.batch
        BY <3>1 DEF PollRecords, PollPlaces
      <3>4. PollerOK(s, to, moves, handled, handled \union excused)
        BY <2>2, <2>4, <3>3 DEF PollerOK
      <3> QED
        BY <2>1, <2>4, <2>5, <3>2, <3>4, LoopStep
    <2>6. CASE cursor' \in {to, cursor} /\ Breaks(c, "failed")
      <3>1. PICK s : /\ Breaks(c, "failed") <=> poller' = [poller EXCEPT ![c] = s]
                     /\ \A at, moved, accepted, done : PollerOK(s, at, moved, accepted, done)
        BY LoopLeaves
      <3>2. cursor >= cursor
        BY <1>2
      <3> QED
        BY <1>2, <2>1, <2>4, <2>6, <3>1, <3>2, LoopStep
    <2> QED
      BY <1>1, <1>7, <2>3, <2>5, <2>6 DEF PollerAdvances
  <1>8. CASE PollerGoesOn(c)
    <2>1. me.at = "advanced" /\ OthersOfPoller
      BY <1>1, <1>8 DEF PollerGoesOn, Is
    <2>2. BatchOK(me.batch, handled \union excused) /\ me.batch \subseteq handled \union excused
      BY <1>1, <2>1 DEF PollerOK
    <2>3. PICK m \in Numbers : m = Max(me.batch) /\ Passed(m, handled \union excused)
      BY <2>2, MoreIsPassed DEF BatchOK
    <2>4. PICK s : s = [me EXCEPT !.at = "scan", !.cursor = m, !.batch = {}]
      OBVIOUS
    <2>5. poller' = [poller EXCEPT ![c] = s]
      BY <1>1, <1>2, <1>8, <2>3, <2>4 DEF PollerGoesOn
    <2>6. m \in 0 .. MaxSequence
      BY NumbersAre
    <2>7. s \in PollRecords /\ s.at = "scan" /\ s.cursor = m
      BY <2>4, <2>6 DEF PollRecords, PollPlaces
    <2>8. PollerOK(s, cursor, moves, handled, handled \union excused)
      BY <2>3, <2>7 DEF PollerOK
    <2> QED
      BY <2>1, <2>5, <2>8, LoopAlone
  <1>9. CASE PollerReleases(c)
    <2>1. PICK released \in BOOLEAN :
             Is(c, "releasing") /\ PollerEnds(c, IF me.end = "ok" /\ ~ released THEN "lost" ELSE me.end) /\ OthersOfPoller
      BY <1>1, <1>9 DEF PollerReleases
    <2>2. PICK how : how = IF me.end = "ok" /\ ~ released THEN "lost" ELSE me.end
      OBVIOUS
    <2>3. how \in {"none", "ok", "failed", "lost"} /\ PollerEnds(c, how)
      BY <1>2, <2>1, <2>2
    <2>4. PICK s : s = [at |-> "ended", cursor |-> 0, batch |-> {}, lost |-> FALSE, end |-> how]
      OBVIOUS
    <2>5. s \in PollRecords /\ s.at = "ended"
      <3>1. 0 \in 0 .. MaxSequence
        BY NumbersAre
      <3> QED
        BY <2>3, <2>4, <3>1 DEF PollRecords, PollPlaces
    <2>6. PollerOK(s, cursor, moves, handled, handled \union excused)
      BY <2>5 DEF PollerOK
    <2>7. poller' = [poller EXCEPT ![c] = s]
      BY <2>3, <2>4 DEF PollerEnds
    <2> QED
      BY <2>1, <2>6, <2>7, LoopAlone
  <1>10. CASE \/ PollerClaimErrs(c) \/ PollerStopsWaiting(c) \/ PollerReadFails(c) \/ PollerSeesLoss(c) \/ HandlerErrs(c)
              \/ PollerStops(c) \/ PollerDies(c)
    <2>1. PICK how \in {"ok", "failed", "lost"} : (PollerEnds(c, how) \/ Breaks(c, how)) /\ OthersOfPoller
      BY <1>10 DEF PollerClaimErrs, PollerStopsWaiting, PollerReadFails, PollerSeesLoss, HandlerErrs, PollerStops, PollerDies
    <2> QED
      BY <2>1, LoopLeaves
  <1> QED
    BY <1>3, <1>4, <1>5, <1>6, <1>7, <1>8, <1>9, <1>10 DEF PollerNext


\* The log changes; cursor, readers and loops stay.
LEMMA LogStep ==
    ASSUME TopicInv, LogInv', UNCHANGED <<cursor, reader, poller, moves, handled>>, excused \subseteq excused'
    PROVE  TopicInv' /\ CursorIsMonotone
  <1>1. PICK done : done = handled \union excused'
    OBVIOUS
  <1>2. cursor \in 0 .. MaxSequence /\ moves \in Nat /\ cursor >= cursor /\ handled \union excused \subseteq done
    BY <1>1 DEF TopicInv
  <1>3. ReaderOK(reader, done) /\ \A d \in Pollers : PollerOK(poller[d], cursor, moves, handled, done)
    BY <1>2, BystandersKeep
  <1>4. Passed(cursor, done)
    BY <1>2, MoreIsPassed DEF TopicInv
  <1>5. cursor' = cursor /\ moves' = moves /\ reader' = reader /\ poller' = poller /\ handled' = handled /\ handled' \union excused' = done
    BY <1>1
  <1>6. TopicInv'
    BY <1>2, <1>3, <1>4, <1>5 DEF TopicInv
  <1> QED
    BY <1>2, <1>5, <1>6 DEF CursorIsMonotone

\* Publishing, purging and expiry.
LEMMA LogKeeps ==
    ASSUME TopicInv, LogNext
    PROVE  TopicInv' /\ CursorIsMonotone
  <1>1. /\ sequence \in 0 .. MaxSequence /\ sequence \in Nat /\ sequence <= MaxSequence /\ MaxSequence \in Nat
        /\ locker \in Publishers \union {NoPublisher} /\ NoPublisher \notin Publishers
        /\ published = 1 .. sequence /\ events \subseteq published /\ published \subseteq events \union excused
        /\ writes \in [Publishers -> SUBSET Numbers] /\ Numbers = 1 .. MaxSequence
        /\ \A q \in Publishers : writes[q] # {} =>
              /\ locker = q
              /\ \E n \in Numbers : sequence < n /\ writes[q] = sequence + 1 .. n
    BY NumbersAre DEF TopicInv, LogInv
  <1>2. ASSUME NEW p \in Publishers, TakeNumber(p)
        PROVE  TopicInv' /\ CursorIsMonotone
    <2>1. PICK n : n = sequence + Cardinality(writes[p]) + 1
      OBVIOUS
    <2>2. /\ locker \in {p, NoPublisher} /\ n <= MaxSequence /\ locker' = p
          /\ writes' = [writes EXCEPT ![p] = @ \union {n}]
          /\ UNCHANGED <<sequence, events, published, cursor, reader, poller, moves, handled, excused>>
      BY <1>2, <2>1 DEF TakeNumber
    <2>3. n \in Numbers /\ sequence < n /\ writes[p] \union {n} = sequence + 1 .. n
      <3>1. CASE writes[p] = {}
        <4>1. n = sequence + 1
          BY <1>1, <2>1, <3>1, FS_EmptySet
        <4> QED
          BY <1>1, <2>2, <3>1, <4>1
      <3>2. CASE writes[p] # {}
        <4>1. PICK m \in Numbers : sequence < m /\ writes[p] = sequence + 1 .. m
          BY <1>1, <3>2
        <4>2. m \in Nat /\ sequence + 1 \in Int /\ m \in Int /\ ~(sequence + 1 > m)
          BY <1>1, <4>1
        <4>3. Cardinality(sequence + 1 .. m) = m - (sequence + 1) + 1
          BY <4>2, FS_Interval
        <4>4. n = m + 1
          BY <1>1, <2>1, <4>1, <4>2, <4>3
        <4> QED
          BY <1>1, <2>2, <4>1, <4>2, <4>4
      <3> QED
        BY <3>1, <3>2
    <2>4. PICK next : next = writes'
      OBVIOUS
    <2>5. /\ next \in [Publishers -> SUBSET Numbers] /\ next[p] = sequence + 1 .. n
          /\ \A q \in Publishers : q # p => next[q] = writes[q]
      BY <1>1, <2>2, <2>3, <2>4
    <2>6. \A q \in Publishers : q # p => writes[q] = {}
      BY <1>1, <2>2
    <2>7. \A q \in Publishers : next[q] # {} => q = p
      BY <2>5, <2>6
    <2>8. LogInv'
      BY <1>1, <2>2, <2>3, <2>4, <2>5, <2>7 DEF LogInv
    <2> QED
      BY <2>2, <2>8, LogStep
  <1>3. ASSUME NEW p \in Publishers, CommitPublish(p)
        PROVE  TopicInv' /\ CursorIsMonotone
    <2>1. PICK n \in Numbers : sequence < n /\ writes[p] = sequence + 1 .. n /\ locker = p
      BY <1>1, <1>3 DEF CommitPublish
    <2>2. n \in Nat /\ n \in Int /\ n <= MaxSequence
      BY <1>1, <2>1
    <2>3. Max(writes[p] \union {sequence}) = n
      <3>1. PICK S : S = sequence .. n
        OBVIOUS
      <3>2. writes[p] \union {sequence} = S
        BY <1>1, <2>1, <2>2, <3>1
      <3>3. S \in SUBSET Int /\ IsFiniteSet(S) /\ n \in S /\ \A k \in S : k \in Int /\ k <= n
        BY <1>1, <2>1, <2>2, <3>1, FS_Interval
      <3>4. Max(S) \in S /\ \A k \in S : k <= Max(S)
        BY <3>3, LargestNumber
      <3>5. Max(S) \in Int /\ Max(S) <= n /\ n <= Max(S)
        BY <3>3, <3>4
      <3>6. Max(S) = n
        BY <2>2, <3>5
      <3> QED
        BY <3>2, <3>6
    <2>4. /\ sequence' = n /\ events' = events \union writes[p] /\ published' = published \union writes[p]
          /\ writes' = [writes EXCEPT ![p] = {}] /\ locker' = NoPublisher
          /\ UNCHANGED <<cursor, reader, poller, moves, handled, excused>>
      BY <1>3, <2>3 DEF CommitPublish
    <2>5. PICK next : next = writes'
      OBVIOUS
    <2>6. next \in [Publishers -> SUBSET Numbers] /\ \A q \in Publishers : next[q] = {}
      BY <1>1, <2>1, <2>4, <2>5
    <2>7. published' = 1 .. n
      BY <1>1, <2>1, <2>2, <2>4
    <2>8. LogInv'
      BY <1>1, <2>1, <2>2, <2>4, <2>5, <2>6, <2>7 DEF LogInv
    <2> QED
      BY <2>4, <2>8, LogStep
  <1>4. ASSUME NEW p \in Publishers, RollbackPublish(p)
        PROVE  TopicInv' /\ CursorIsMonotone
    <2>1. /\ writes[p] # {} /\ writes' = [writes EXCEPT ![p] = {}] /\ locker' = NoPublisher
          /\ UNCHANGED <<sequence, events, published, cursor, reader, poller, moves, handled, excused>>
      BY <1>4 DEF RollbackPublish
    <2>2. PICK next : next = writes'
      OBVIOUS
    <2>3. next \in [Publishers -> SUBSET Numbers] /\ \A q \in Publishers : next[q] = {}
      BY <1>1, <2>1, <2>2
    <2>4. LogInv'
      BY <1>1, <2>1, <2>2, <2>3 DEF LogInv
    <2> QED
      BY <2>1, <2>4, LogStep
  <1>5. ASSUME NEW gone \in SUBSET events, events' = events \ gone, excused' = excused \union gone,
               UNCHANGED <<sequence, locker, writes, published, cursor, reader, poller, moves, handled>>
        PROVE  TopicInv' /\ CursorIsMonotone
    <2>1. LogInv'
      BY <1>1, <1>5 DEF LogInv
    <2> QED
      BY <1>5, <2>1, LogStep
  <1>6. CASE PurgeEvents
    <2>1. events' = events \ events /\ excused' = excused \union events
      BY <1>6 DEF PurgeEvents
    <2> QED
      BY <1>5, <1>6, <2>1 DEF PurgeEvents
  <1>7. CASE EventExpires
    <2>1. PICK n \in events : events' = events \ {n} /\ excused' = excused \union {n}
      BY <1>7 DEF EventExpires
    <2>2. {n} \in SUBSET events
      OBVIOUS
    <2> QED
      BY <1>5, <1>7, <2>1, <2>2 DEF EventExpires
  <1> QED
    BY <1>2, <1>3, <1>4, <1>6, <1>7 DEF LogNext

\* The operator moves or deletes the cursor.
LEMMA OperatorKeeps ==
    ASSUME TopicInv, SetCursor \/ DeleteCursor
    PROVE  TopicInv' /\ CursorIsMonotone
  <1>1. PICK n \in 0 .. MaxSequence : /\ cursor' = n /\ moves' = moves + 1 /\ UNCHANGED <<logVars, reader, poller, handled>>
                                      /\ excused \subseteq excused' /\ 1 .. n \subseteq excused'
    <2>1. CASE SetCursor
      BY <2>1 DEF SetCursor
    <2>2. CASE DeleteCursor
      <3>1. 0 \in 0 .. MaxSequence /\ 1 .. 0 \subseteq excused'
        BY NumbersAre
      <3> QED
        BY <2>2, <3>1 DEF DeleteCursor
    <2> QED
      BY <2>1, <2>2
  <1>2. PICK done : done = handled \union excused'
    OBVIOUS
  <1>3. PICK moved \in Nat : moved = moves + 1 /\ moved # 0 /\ moved # moves
    BY DEF TopicInv
  <1>4. ReaderOK(reader, done) /\ \A d \in Pollers : PollerOK(poller[d], n, moved, handled, done)
    BY <1>1, <1>2, <1>3, BystandersKeep
  <1>5. Passed(n, done)
    BY <1>1, <1>2, NumbersAre DEF Passed
  <1>6. LogInv'
    BY <1>1 DEF TopicInv, LogInv, logVars
  <1>7. cursor' = n /\ moves' = moved /\ reader' = reader /\ poller' = poller /\ handled' = handled /\ handled' \union excused' = done
    BY <1>1, <1>2, <1>3
  <1>8. TopicInv'
    BY <1>4, <1>5, <1>6, <1>7 DEF TopicInv
  <1> QED
    BY <1>1, <1>3, <1>8 DEF CursorIsMonotone

\* The reading transaction.
LEMMA ReadsKeep ==
    ASSUME TopicInv, ReaderFetchesCursor \/ ReaderScans \/ ReaderCommits
    PROVE  TopicInv' /\ CursorIsMonotone
  <1>1. /\ reader \in ReaderRecords /\ ReaderOK(reader, handled \union excused) /\ cursor \in 0 .. MaxSequence /\ moves \in Nat
        /\ Passed(cursor, handled \union excused) /\ 0 \in 0 .. MaxSequence /\ reader.batch \in SUBSET Numbers
        /\ reader.cursor \in 0 .. MaxSequence
    BY NumbersAre DEF TopicInv, ReaderOK, ReaderRecords
  <1>2. ASSUME NEW s, reader' = s, NEW done, handled \union excused \subseteq done, done = handled' \union excused', ReaderOK(s, done),
               handled \subseteq handled', NEW to \in 0 .. MaxSequence, cursor' = to, to >= cursor, Passed(to, done),
               excused \subseteq excused', UNCHANGED <<logVars, poller, moves>>
        PROVE  TopicInv' /\ CursorIsMonotone
    <2>1. PICK accepted : accepted = handled'
      OBVIOUS
    <2>2. \A d \in Pollers : PollerOK(poller[d], to, moves, accepted, done)
      BY <1>1, <1>2, <2>1, BystandersKeep
    <2>3. LogInv'
      BY <1>2 DEF TopicInv, LogInv, logVars
    <2>4. cursor' = to /\ moves' = moves /\ reader' = s /\ poller' = poller /\ handled' = accepted /\ handled' \union excused' = done
      BY <1>2, <2>1
    <2>5. TopicInv'
      BY <1>1, <1>2, <2>2, <2>3, <2>4 DEF TopicInv
    <2> QED
      BY <1>2, <2>5 DEF CursorIsMonotone
  <1>3. ASSUME NEW s, reader' = s, ReaderOK(s, handled \union excused), UNCHANGED <<logVars, cursor, poller, moves, handled, excused>>
        PROVE  TopicInv' /\ CursorIsMonotone
    <2>1. cursor >= cursor
      BY <1>1
    <2> QED
      BY <1>1, <1>2, <1>3, <2>1
  <1>4. CASE ReaderFetchesCursor
    <2>1. PICK s : s = [at |-> "scan", cursor |-> cursor, batch |-> {}]
      OBVIOUS
    <2>2. s \in ReaderRecords /\ s.at = "scan" /\ s.cursor = cursor
      BY <1>1, <2>1 DEF ReaderRecords
    <2>3. ReaderOK(s, handled \union excused)
      BY <1>1, <2>2 DEF ReaderOK
    <2> QED
      BY <1>3, <1>4, <2>1, <2>3 DEF ReaderFetchesCursor
  <1>5. \A done : ReaderOK([at |-> "idle", cursor |-> 0, batch |-> {}], done)
    <2>1. PICK s : s = [at |-> "idle", cursor |-> 0, batch |-> {}]
      OBVIOUS
    <2>2. s \in ReaderRecords /\ s.at = "idle"
      BY <1>1, <2>1 DEF ReaderRecords
    <2>3. \A done : ReaderOK(s, done)
      BY <2>2 DEF ReaderOK
    <2> QED
      BY <2>1, <2>3
  <1>6. CASE ReaderScans
    <2>1. PICK batch : batch = ScanAfter(reader.cursor)
      OBVIOUS
    <2>2. reader.at = "scan" /\ UNCHANGED <<logVars, cursor, poller, moves, handled, excused>>
      BY <1>6 DEF ReaderScans
    <2>3. batch \in SUBSET Numbers /\ (batch # {} => BatchOK(batch, handled \union excused))
      BY <1>1, <2>1, <2>2, ScanIs DEF ReaderOK
    <2>4. CASE batch = {}
      <3>1. reader' = [at |-> "idle", cursor |-> 0, batch |-> {}]
        BY <1>6, <2>1, <2>4 DEF ReaderScans
      <3> QED
        BY <1>3, <1>5, <2>2, <3>1
    <2>5. CASE batch # {}
      <3>1. PICK s : s = [at |-> "advance", cursor |-> 0, batch |-> batch]
        OBVIOUS
      <3>2. s \in ReaderRecords /\ s.at = "advance" /\ s.batch = batch
        BY <1>1, <2>3, <3>1 DEF ReaderRecords
      <3>3. ReaderOK(s, handled \union excused)
        BY <2>3, <2>5, <3>2 DEF ReaderOK
      <3>4. reader' = s
        BY <1>6, <2>1, <2>5, <3>1 DEF ReaderScans
      <3> QED
        BY <1>3, <2>2, <3>3, <3>4
    <2> QED
      BY <2>4, <2>5
  <1>7. CASE ReaderCommits
    <2>1. /\ reader.at = "advance" /\ reader' = [at |-> "idle", cursor |-> 0, batch |-> {}]
          /\ UNCHANGED <<logVars, poller, moves>>
      BY <1>7 DEF ReaderCommits
    <2>2. CASE UNCHANGED <<cursor, handled, excused>>
      BY <1>3, <1>5, <2>1, <2>2
    <2>3. CASE /\ cursor' = AdvancedCursor(Max(reader.batch))
               /\ \/ handled' = handled \union reader.batch /\ UNCHANGED excused
                  \/ excused' = excused \union reader.batch /\ UNCHANGED handled
      <3>1. PICK done : done = handled' \union excused'
        OBVIOUS
      <3>2. PICK to : to = AdvancedCursor(Max(reader.batch))
        OBVIOUS
      <3>3. handled \union excused \subseteq done /\ handled \subseteq handled' /\ excused \subseteq excused' /\ reader.batch \subseteq done
        BY <2>3, <3>1
      <3>4. BatchOK(reader.batch, done)
        BY <1>1, <2>1, <3>3, MoreIsPassed DEF ReaderOK
      <3>5. to \in 0 .. MaxSequence /\ to >= cursor /\ Passed(to, done)
        BY <1>1, <3>2, <3>3, <3>4, AdvanceIs
      <3> QED
        BY <1>2, <1>5, <2>1, <2>3, <3>1, <3>2, <3>3, <3>5
    <2> QED
      BY <1>7, <2>2, <2>3 DEF ReaderCommits
  <1> QED
    BY <1>4, <1>6, <1>7

\* A loop takes notice of a stop only where the batch it accepted is behind the cursor.
LEMMA StopsKeepPlace ==
    ASSUME TopicInv, TopicNext
    PROVE  StopKeepsPlace
  <1>1. SUFFICES ASSUME NEW c \in Pollers, poller[c].at \in {"accepted", "advanced"}, moves = 0,
                        poller'[c].at = "releasing", poller'[c].end = "ok"
                 PROVE  cursor >= Max(poller[c].batch)
    BY DEF StopKeepsPlace
  <1>2. poller \in [Pollers -> PollRecords] /\ PollerOK(poller[c], cursor, moves, handled, handled \union excused)
    BY DEF TopicInv
  <1>3. poller' # poller
    BY <1>1
  <1>4. PICK d \in Pollers : PollerNext(d)
    BY <1>3 DEF TopicNext, LogNext, TakeNumber, CommitPublish, RollbackPublish, PurgeEvents, EventExpires, SetCursor,
       DeleteCursor, ReaderFetchesCursor, ReaderScans, ReaderCommits
  <1>5. ASSUME d # c
        PROVE  FALSE
    <2>1. \E s : poller' = [poller EXCEPT ![d] = s]
      <3>1. ASSUME NEW s, poller' = [poller EXCEPT ![d].at = s]
            PROVE  \E r : poller' = [poller EXCEPT ![d] = r]
        BY <3>1
      <3>2. CASE PollerClaims(d) \/ PollerCallsHandler(d) \/ HandlerAccepts(d) \/ (\E s : Steps(d, s))
        BY <3>1, <3>2 DEF PollerClaims, PollerCallsHandler, HandlerAccepts, Steps
      <3>3. CASE (\E how : Breaks(d, how)) \/ \E how : PollerEnds(d, how)
        BY <3>3 DEF Breaks, PollerEnds
      <3>4. CASE PollerLoses(d) \/ PollerFetchesCursor(d) \/ PollerScans(d) \/ PollerGoesOn(d)
        BY <1>2, <3>4 DEF PollerLoses, PollerFetchesCursor, PollerScans, PollerGoesOn
      <3>5. \/ PollerClaims(d) \/ PollerCallsHandler(d) \/ HandlerAccepts(d) \/ (\E s : Steps(d, s))
            \/ (\E how : Breaks(d, how)) \/ (\E how : PollerEnds(d, how))
            \/ PollerLoses(d) \/ PollerFetchesCursor(d) \/ PollerScans(d) \/ PollerGoesOn(d)
        BY <1>4 DEF PollerNext, PollerClaimErrs, PollerStopsWaiting, PollerReadFails, PollerSeesLoss, HandlerErrs,
           PollerAdvances, PollerStops, PollerReleases, PollerDies
      <3> QED
        BY <3>2, <3>3, <3>4, <3>5
    <2>2. poller'[c] = poller[c]
      BY <1>2, <1>5, <2>1
    <2> QED
      BY <1>1, <2>2
  <1>6. PollerNext(c)
    BY <1>4, <1>5
  <1>7. ASSUME poller[c].at = "accepted"
        PROVE  FALSE
    <2>1. PICK me \in PollRecords : me = poller[c] /\ me.at = "accepted"
      BY <1>2, <1>7
    <2>2. CASE Steps(c, "advanced")
      <3>1. poller'[c].at = "advanced"
        BY <1>2, <2>1, <2>2 DEF Steps, PollRecords
      <3> QED
        BY <1>1, <3>1
    <2>3. CASE Breaks(c, "failed") \/ Breaks(c, "lost")
      BY <1>1, <1>2, <2>3 DEF Breaks
    <2>4. CASE PollerLoses(c)
      <3>1. poller'[c].at = "accepted"
        BY <1>2, <2>1, <2>4 DEF PollerLoses, PollRecords
      <3> QED
        BY <1>1, <3>1
    <2>5. CASE \E how : PollerEnds(c, how)
      BY <1>1, <1>2, <2>5 DEF PollerEnds
    <2>6. \/ Steps(c, "advanced") \/ Breaks(c, "failed") \/ Breaks(c, "lost") \/ PollerLoses(c)
          \/ \E how : PollerEnds(c, how)
      BY <1>6, <2>1 DEF PollerNext, PollerClaims, PollerClaimErrs, PollerStopsWaiting, PollerFetchesCursor, PollerScans,
         PollerReadFails, PollerSeesLoss, PollerCallsHandler, HandlerAccepts, HandlerErrs, PollerAdvances, PollerGoesOn,
         PollerStops, PollerReleases, PollerDies, Is
    <2> QED
      BY <2>2, <2>3, <2>4, <2>5, <2>6
  <1> QED
    BY <1>1, <1>2, <1>7 DEF PollerOK

\* An empty topic.
LEMMA TopicInitInv == TopicInit => TopicInv
  <1> SUFFICES ASSUME TopicInit PROVE TopicInv
    OBVIOUS
  <1>1. /\ sequence = 0 /\ locker = NoPublisher /\ writes = [p \in Publishers |-> {}] /\ events = {} /\ published = {}
        /\ cursor = 0 /\ moves = 0 /\ reader = [at |-> "idle", cursor |-> 0, batch |-> {}]
        /\ poller = [c \in Pollers |-> NewPoller] /\ handled = {} /\ excused = {}
    BY DEF TopicInit
  <1>2. LogInv
    BY <1>1, NumbersAre DEF LogInv
  <1>3. cursor \in 0 .. MaxSequence /\ moves \in Nat /\ Passed(cursor, handled \union excused)
    BY <1>1, NumbersAre DEF Passed
  <1>4. ReaderOK(reader, handled \union excused)
    <2>1. reader \in ReaderRecords /\ reader.at = "idle"
      BY <1>1, NumbersAre DEF ReaderRecords
    <2> QED
      BY <2>1 DEF ReaderOK
  <1>5. NewPoller \in PollRecords /\ NewPoller.at = "claiming"
    BY NumbersAre DEF NewPoller, PollRecords, PollPlaces
  <1>6. \A at, moved, accepted, done : PollerOK(NewPoller, at, moved, accepted, done)
    BY <1>5 DEF PollerOK
  <1>7. poller \in [Pollers -> PollRecords] /\ \A c \in Pollers : PollerOK(poller[c], cursor, moves, handled, handled \union excused)
    BY <1>1, <1>5, <1>6
  <1> QED
    BY <1>2, <1>3, <1>4, <1>7 DEF TopicInv

\* What is true of the log, of the cursor, of the reader and of every loop stays true,
\* and the cursor moves back only by an operator's hand.
LEMMA TopicStep ==
    ASSUME TopicInv, [TopicNext]_topicVars
    PROVE  TopicInv' /\ CursorIsMonotone /\ StopKeepsPlace
  <1>1. CASE TopicNext
    BY <1>1, LogKeeps, OperatorKeeps, ReadsKeep, LoopKeeps, StopsKeepPlace DEF TopicNext
  <1>2. CASE UNCHANGED topicVars
    <2>1. TopicInv'
      BY <1>2 DEF topicVars, logVars, TopicInv, LogInv
    <2>2. CursorIsMonotone
      BY <1>2 DEF topicVars, CursorIsMonotone, TopicInv
    <2>3. StopKeepsPlace
      BY <1>2 DEF topicVars, StopKeepsPlace
    <2> QED
      BY <2>1, <2>2, <2>3
  <1> QED
    BY <1>1, <1>2

\* The inductive invariant of a topic holds at all times.
THEOREM TopicInvariance == TopicSpec => []TopicInv
  BY TopicInitInv, TopicStep, PTL DEF TopicSpec

\* No event is passed over, and no number is used twice.
THEOREM TopicSoundness == TopicSpec => []TopicIsSound
  <1>1. TopicInv => TopicIsSound
    <2> SUFFICES ASSUME TopicInv PROVE TopicIsSound
      OBVIOUS
    <2>1. /\ sequence \in 0 .. MaxSequence /\ sequence \in Nat /\ sequence <= MaxSequence /\ MaxSequence \in Nat
          /\ locker \in Publishers \union {NoPublisher} /\ Numbers = 1 .. MaxSequence
          /\ published = 1 .. sequence /\ events \subseteq published
          /\ writes \in [Publishers -> SUBSET Numbers]
          /\ \A q \in Publishers : writes[q] # {} => \E n \in Numbers : sequence < n /\ writes[q] = sequence + 1 .. n
      BY NumbersAre DEF TopicInv, LogInv
    <2>2. \A q \in Publishers : writes[q] \subseteq Numbers \ published
      BY <2>1
    <2>3. \A c \in Pollers : poller[c].at \in PollPlaces /\ poller[c].batch \subseteq Numbers
      BY DEF TopicInv, PollRecords
    <2>4. TopicTypeOK
      BY <2>1, <2>2, <2>3 DEF TopicTypeOK, TopicInv
    <2>5. NothingIsPassedOver
      BY <2>1 DEF TopicInv, Passed, NothingIsPassedOver
    <2> QED
      BY <2>4, <2>5 DEF TopicIsSound
  <1> QED
    BY <1>1, TopicInvariance, PTL

\* The cursor of a subscription is moved back by nobody but an operator, and a loop
\* that obeys a stop has caught up with its handler.
THEOREM TopicCursor == TopicSpec => CursorIsKept
  <1>1. TopicInv /\ [TopicNext]_topicVars => [CursorIsMonotone /\ StopKeepsPlace]_topicVars
    BY TopicStep
  <1> QED
    BY <1>1, TopicInvariance, PTL DEF TopicSpec, CursorIsKept
=============================================================================
