--------------------------------- MODULE Vault ---------------------------------
(***************************************************************************)
(* The local environment vault of src/src/local_env_vault: configure       *)
(* sessions that edit the vault file under a process lock, and the         *)
(* commands that read it without the lock.                                 *)
(*                                                                         *)
(* The lock is the one of module LocalLock, seen from outside: a session   *)
(* that does not run for stale_after may lose the path to another process, *)
(* and learns of it when its heartbeat thread next runs.                   *)
(*                                                                         *)
(* A ciphertext is the pair of the vault and password it was made under    *)
(* and its plaintext; decryption succeeds under the same pair only.        *)
(***************************************************************************)
EXTENDS Naturals, FiniteSets, Functions

CONSTANTS
    Processes,      \* processes running one vault command at a time
    Gone,       \* model value: no file at the lock path, or one of a dead process
    Names,      \* names of environment variables
    Required,   \* the names some profile requires
    Passwords,  \* what a user may type
    Values,     \* secret values
    MaxVaults   \* bound on the vaults created

ASSUME VaultAssumption ==
    /\ Gone \notin Processes /\ Required \subseteq Names /\ Required # {}
    /\ MaxVaults \in Nat \ {0} /\ Passwords # {} /\ Values # {}

VARIABLES
    disk,       \* the vault file
    vaultLock,  \* the process whose file is at the lock path
    user,       \* each process: its command and what it has in memory
    created,    \* vault ids given out
    displaced,  \* history: a live session lost the lock path
    reported    \* history: validate found all values; run failed after the unlocking

vaultVars == <<disk, vaultLock, user, created, displaced, reported>>

NoVault == [id |-> 0, password |-> CHOOSE w \in Passwords : TRUE, env |-> <<>>, whole |-> TRUE]

Ciphertexts == [id : 1 .. MaxVaults, password : Passwords, value : Values]

Envs == UNION {[S -> Ciphertexts] : S \in SUBSET Names}

Vaults == [id : 0 .. MaxVaults, password : Passwords, env : Envs, whole : BOOLEAN]

NewUser == [at |-> "idle", copy |-> NoVault, password |-> NoVault.password, lost |-> FALSE]

VaultPlaces == {"idle", "locked", "prompt", "writing", "staged", "written", "unlock", "menu", "confirm"}

SessionPlaces == VaultPlaces \ {"idle", "confirm"}

\* decrypt_value: the key comes from the vault's salt and the password, and the
\* associated data names the vault.
Decrypts(v, password, name) ==
    /\ v.env[name].id = v.id
    /\ v.env[name].password = password

\* Mutant: the password check is not compared.
UnlocksAnything(v, password) == TRUE

\* unlock_vault_keyset: the password check is a ciphertext of the vault itself.
Unlocks(v, password) == v.password = password

Missing(v) == Required \ DOMAIN v.env

VaultInit ==
    /\ disk = NoVault /\ vaultLock = Gone
    /\ user = [u \in Processes |-> NewUser]
    /\ created = 0 /\ displaced = FALSE /\ reported = [ready |-> FALSE, refused |-> FALSE]

-----------------------------------------------------------------------------
\* acquire_vault_lock: the path is free, or its file is old and is reclaimed;
\* the session it belonged to may still be there.
AcquireVaultLock(u) ==
    /\ user[u].at = "idle"
    /\ vaultLock' = u
    /\ displaced' = (displaced \/ vaultLock # Gone)
    /\ user' = [user EXCEPT ![u] = [NewUser EXCEPT !.at = "locked"]]
    /\ UNCHANGED <<disk, created, reported>>

\* The heartbeat thread of a displaced session sets lock_lost.
NoticeLoss(u) ==
    /\ user[u].at \in SessionPlaces /\ vaultLock # u /\ ~user[u].lost
    /\ user' = [user EXCEPT ![u].lost = TRUE]
    /\ UNCHANGED <<disk, vaultLock, created, displaced, reported>>

\* The session ends and drops its lock: a file that is another's stays.
SessionEnds(u) ==
    /\ user' = [user EXCEPT ![u] = NewUser]
    /\ vaultLock' = IF vaultLock = u THEN Gone ELSE vaultLock
    /\ UNCHANGED <<created, displaced, reported>>

\* ensure_still_owned: the session goes on or ends with VaultLockLost.
IfStillOwned(u, place) ==
    IF user[u].lost THEN SessionEnds(u)
    ELSE /\ user' = [user EXCEPT ![u].at = place]
         /\ UNCHANGED <<vaultLock, created, displaced, reported>>

\* configure: what the file holds is kept in memory for the whole session.
ReadForConfigure(u) ==
    /\ user[u].at = "locked"
    /\ IF user[u].lost THEN SessionEnds(u)
       ELSE /\ user' = [user EXCEPT ![u].at = "prompt", ![u].copy = disk]
            /\ UNCHANGED <<vaultLock, created, displaced, reported>>
    /\ UNCHANGED disk

\* VaultFile::new.
NewVault(id, password) == [id |-> id, password |-> password, env |-> <<>>, whole |-> TRUE]

CreatesVault(u) == user[u].copy = NoVault

\* The password is typed (twice for a new vault, a mismatch ends the session).
PromptPassword(u) ==
    /\ user[u].at = "prompt" /\ UNCHANGED disk
    /\ \/ SessionEnds(u)
       \/ \E w \in Passwords :
             /\ ~user[u].lost
             /\ IF CreatesVault(u)
                THEN /\ created < MaxVaults /\ created' = created + 1
                     /\ user' = [user EXCEPT ![u].at = "writing", ![u].password = w,
                                             ![u].copy = NewVault(created + 1, w)]
                ELSE /\ user' = [user EXCEPT ![u].at = "unlock", ![u].password = w]
                     /\ UNCHANGED created
             /\ UNCHANGED <<vaultLock, displaced, reported>>

UnlockForConfigure(u) ==
    /\ user[u].at = "unlock" /\ UNCHANGED disk
    /\ IF Unlocks(user[u].copy, user[u].password) THEN IfStillOwned(u, "menu") ELSE SessionEnds(u)

-----------------------------------------------------------------------------
(***************************************************************************)
(* write_vault_atomically inside run_while_owned: ownership is tested, the *)
(* new contents go to a temporary file, the rename puts it in place, and   *)
(* ownership is tested again.  Success is reported after that.             *)
(***************************************************************************)

\* Mutant: the file itself is opened and rewritten.
StageVaultInPlace(u) ==
    /\ user[u].at = "writing"
    /\ IF user[u].lost THEN SessionEnds(u) /\ UNCHANGED disk
       ELSE /\ user' = [user EXCEPT ![u].at = "staged"]
            /\ disk' = [user[u].copy EXCEPT !.whole = FALSE]
            /\ UNCHANGED <<vaultLock, created, displaced, reported>>

StageVault(u) ==
    /\ user[u].at = "writing"
    /\ IfStillOwned(u, "staged")
    /\ UNCHANGED disk

\* Mutant: the entries are merged into the vault that is there.
CommittedVaultMerged(v) ==
    IF disk = NoVault THEN v
    ELSE [disk EXCEPT !.env = [n \in DOMAIN disk.env \union DOMAIN v.env |->
                                  IF n \in DOMAIN v.env THEN v.env[n] ELSE disk.env[n]]]

CommittedVault(v) == v

CommitVault(u) ==
    /\ user[u].at = "staged"
    /\ disk' = CommittedVault(user[u].copy)
    /\ user' = [user EXCEPT ![u].at = "written"]
    /\ UNCHANGED <<vaultLock, created, displaced, reported>>

VaultWritten(u) ==
    /\ user[u].at = "written"
    /\ IfStillOwned(u, "menu")
    /\ UNCHANGED disk

\* Mutant: the menu is shown again.
VaultWriteFailsOpen(u) ==
    /\ user[u].at \in {"staged", "written"}
    /\ user' = [user EXCEPT ![u].at = "menu"]
    /\ UNCHANGED <<disk, vaultLock, created, displaced, reported>>

\* An error of the file system, before the rename or after it, ends the session,
\* and the edited copy in memory with it.
VaultWriteFails(u) ==
    /\ user[u].at \in {"staged", "written"}
    /\ SessionEnds(u)
    /\ UNCHANGED disk

-----------------------------------------------------------------------------
\* write_one_value: the ciphertext is bound to the vault in memory.
SetOneValue(u) ==
    /\ user[u].at = "menu" /\ ~user[u].lost
    /\ \E n \in Names, x \in Values :
          user' = [user EXCEPT ![u].at = "writing",
                      ![u].copy.env = [m \in DOMAIN @ \union {n} |->
                          IF m = n
                          THEN [id |-> user[u].copy.id, password |-> user[u].password, value |-> x]
                          ELSE @[m]]]
    /\ UNCHANGED <<disk, vaultLock, created, displaced, reported>>

\* Mutant: the names that are required are the ones removed.
RetainedEntriesInverted(env) == Restrict(env, DOMAIN env \ Required)

\* remove_vault_entries_not_required_by_profiles.
RetainedEntries(env) == Restrict(env, DOMAIN env \intersect Required)

RemoveValuesNotRequired(u) ==
    /\ user[u].at = "menu" /\ ~user[u].lost
    /\ DOMAIN user[u].copy.env \ Required # {}
    /\ user' = [user EXCEPT ![u].at = "writing", ![u].copy.env = RetainedEntries(@)]
    /\ UNCHANGED <<disk, vaultLock, created, displaced, reported>>

\* Done, an error at the terminal, or VaultLockLost at one of the menu's tests.
LeaveMenu(u) ==
    /\ user[u].at = "menu"
    /\ SessionEnds(u)
    /\ UNCHANGED disk

-----------------------------------------------------------------------------
\* check_profile: validate, which takes no lock.
CheckProfile(u) ==
    /\ user[u].at = "idle" /\ disk.id # 0 /\ disk.whole
    /\ reported' = [reported EXCEPT !.ready = (Missing(disk) = {})]
    /\ UNCHANGED <<disk, vaultLock, user, created, displaced>>

\* run_profile: the vault is read once, before the password is typed ...
ReadForRun(u) ==
    /\ user[u].at = "idle" /\ disk.id # 0 /\ disk.whole /\ Missing(disk) = {}
    /\ user' = [user EXCEPT ![u].at = "confirm", ![u].copy = disk]
    /\ UNCHANGED <<disk, vaultLock, created, displaced, reported>>

\* project_profile_env: the required values are decrypted one by one.
Projects(v, password) == \A n \in Required : Decrypts(v, password, n)

\* ... and the child gets what that copy holds, if the password unlocks it.
RunChild(u) ==
    /\ user[u].at = "confirm"
    /\ \E w \in Passwords :
          reported' = [reported EXCEPT !.refused =
              @ \/ (Unlocks(user[u].copy, w) /\ ~Projects(user[u].copy, w))]
    /\ user' = [user EXCEPT ![u] = NewUser]
    /\ UNCHANGED <<disk, vaultLock, created, displaced>>

\* A process dies; its lock file stays until it is old.
VaultUserDies(u) ==
    /\ user[u].at # "idle"
    /\ SessionEnds(u)
    /\ UNCHANGED disk

VaultNext == \E u \in Processes :
    \/ AcquireVaultLock(u) \/ NoticeLoss(u) \/ ReadForConfigure(u) \/ PromptPassword(u)
    \/ UnlockForConfigure(u) \/ StageVault(u) \/ CommitVault(u) \/ VaultWritten(u) \/ VaultWriteFails(u)
    \/ SetOneValue(u) \/ RemoveValuesNotRequired(u) \/ LeaveMenu(u)
    \/ CheckProfile(u) \/ ReadForRun(u) \/ RunChild(u) \/ VaultUserDies(u)

VaultSpec == VaultInit /\ [][VaultNext]_vaultVars

-----------------------------------------------------------------------------
\* Types, and: an unlocked session holds a vault, with the password it was made with.
VaultTypeOK ==
    /\ disk \in Vaults /\ vaultLock \in Processes \union {Gone}
    /\ created \in 0 .. MaxVaults /\ displaced \in BOOLEAN /\ reported.ready \in BOOLEAN
    /\ \A u \in Processes :
          /\ user[u].at \in VaultPlaces /\ user[u].copy \in Vaults /\ user[u].password \in Passwords
          /\ user[u].at \in {"menu", "writing", "staged", "written"} =>
                /\ user[u].copy.id # 0
                /\ user[u].copy.password = user[u].password

\* The file at the vault's path is a complete vault at every moment, also when a
\* process dies inside a write; readers, who take no lock, never see a part of one.
VaultIsWhole == disk.whole

\* Whatever sessions ran, were displaced or failed: a password that unlocks the
\* vault decrypts every value in the file and in every copy of it, and no child
\* command is refused its values after the password was accepted.
UnlockedVaultDecrypts ==
    /\ \A v \in {disk} \union {user[u].copy : u \in Processes} :
          \A n \in DOMAIN v.env : Decrypts(v, v.password, n)
    /\ ~reported.refused

\* Unless a live session lost its lock, the menu works on what the file holds:
\* a write replaces the vault by what it was plus the edit, and loses no update.
SessionSeesTheFile ==
    ~displaced => \A u \in Processes : user[u].at = "menu" => user[u].copy = disk

\* A profile reported as ready stays ready: no edit of a session that kept its
\* lock removes a value that a profile requires, nor the vault that holds it.
ReadyStaysReady ==
    ~displaced => (reported.ready => Missing(disk) = {})

\* The vault: its types, a whole file, values that every accepted password
\* decrypts, no lost update and no value taken from a profile that was ready.
VaultIsSound ==
    /\ VaultTypeOK
    /\ VaultIsWhole
    /\ UnlockedVaultDecrypts
    /\ SessionSeesTheFile
    /\ ReadyStaysReady
=============================================================================
