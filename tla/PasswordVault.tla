----------------------------- MODULE PasswordVault -----------------------------
(***************************************************************************)
(* The password vault: server/src/security/password-vault.ts.  A vault     *)
(* stands for its random data key.  Every operation reads the              *)
(* configuration, waits for the key derivation and perhaps for the         *)
(* credential store of the operating system, and then acts on the          *)
(* configuration it read: `snap` in its record.  The application may die   *)
(* at any await, and between two statements of the database.               *)
(***************************************************************************)
EXTENDS Integers, FiniteSets

CONSTANTS Vault,       \* the data keys, each drawn once
          NoVault,
          Password,    \* master passwords
          Credential,  \* what may be saved: a login or a named secret
          Op,          \* requests under way at the same time
          MaxRows,     \* times one credential may be inserted
          MaxRequests, \* operations begun
          MaxCrashes   \* times the application dies

ASSUME VaultAssumption ==
  NoVault \notin Vault /\ "none" \notin Credential /\ MaxRows \in Nat

Policy == {"never", "startup", "credential"}

VARIABLES
  config,   \* the row of password_vault: its vault, policy and master password
  saved,    \* saved[c]: the row of c, the key that seals it and the row it is bound to
  cleanup,  \* password_vault_key_cleanup: the keys to delete from the credential store
  osKeys,   \* the keys the credential store holds
  key,      \* the key in memory
  up,       \* initialize() has run
  ops,      \* ops[o]: the operation o, and the await it is at
  drawn,    \* the vaults created so far
  access,   \* what became of a vault's automatic access (for the properties)
  vaultSpent,    \* operations begun, and crashes (bounds)
  raced     \* a change overlapped another operation (for the properties)

vaultVars == <<config, saved, cleanup, osKeys, key, up, ops, drawn, access, vaultSpent, raced>>
database == <<config, saved, cleanup>>

NoConfig == [vault |-> NoVault, policy |-> "none", password |-> "none"]
NoRow == [row |-> 0, last |-> 0, key |-> NoVault, bound |-> 0]
NoOp == [kind |-> "idle", at |-> "idle", snap |-> NoConfig, right |-> FALSE,
         arg |-> "none", cred |-> "none", row |-> 0]

VaultInit ==
  /\ config = NoConfig
  /\ saved = [c \in Credential |-> NoRow]
  /\ cleanup = {} /\ osKeys = {} /\ key = NoVault
  /\ up = TRUE
  /\ ops = [o \in Op |-> NoOp]
  /\ drawn = {}
  /\ access = [v \in Vault |-> "none"]
  /\ vaultSpent = [requests |-> 0, crashes |-> 0]
  /\ raced = FALSE

Configured == config.vault # NoVault
IsSaved(c) == saved[c].row # 0
InFlight(o) == ops[o].kind # "idle"
IsAt(o, await) == ops[o].at = await
Awaits(o, await) == ops' = [ops EXCEPT ![o].at = await]
Ends(o) == ops' = [ops EXCEPT ![o] = NoOp]
Reaches(v, what) == access' = [access EXCEPT ![v] = what]

-----------------------------------------------------------------------------
(* The database *)

\* upsertEncryptedCredentialAtomically(): a row that is gone is inserted anew.
\* `bound` is the row the seal names; 0 stands for the row it is stored in.
Upserted(c, sealKey, bound) ==
  LET row == IF IsSaved(c) THEN saved[c].row ELSE saved[c].last + 1 IN
  [saved EXCEPT ![c] = [row |-> row, last |-> IF row > @.last THEN row ELSE @.last,
                        key |-> sealKey, bound |-> IF bound = 0 THEN row ELSE bound]]

WithoutRow(c) == [saved[c] EXCEPT !.row = 0, !.key = NoVault, !.bound = 0]
RoomFor(c) == IsSaved(c) \/ saved[c].last < MaxRows

(***************************************************************************)
(* The beginning of an operation, up to its first await.                   *)
(***************************************************************************)
Begins(o, kind, p, arg, c) ==
  /\ ops' = [ops EXCEPT ![o] =
       [kind |-> kind, at |-> "derive", snap |-> config, right |-> p = config.password,
        arg |-> arg, cred |-> c, row |-> IF c = "none" THEN 0 ELSE saved[c].row]]
  /\ UNCHANGED <<database, osKeys, key, up, drawn, access>>

Free(o) == up /\ ~InFlight(o)

\* create(): the key is drawn before the first await.
CreateVault(o) ==
  /\ Free(o) /\ ~Configured
  /\ \E v \in Vault \ drawn, p \in Password, policy \in Policy :
       /\ ops' = [ops EXCEPT ![o] = [NoOp EXCEPT !.kind = "create", !.at = "derive",
                    !.right = TRUE, !.snap = [vault |-> v, policy |-> policy, password |-> p]]]
       /\ drawn' = drawn \union {v}
  /\ UNCHANGED <<database, osKeys, key, up, access>>

\* unlockForSession(), repairAutomaticAccess(), changeUnlockPolicy() and changeMasterPassword().
Manage(o) ==
  /\ Free(o) /\ Configured
  /\ \E p \in Password :
       \/ config.policy = "startup" /\ Begins(o, "unlock", p, "none", "none")
       \/ Begins(o, "repair", p, "none", "none")
       \/ \E policy \in Policy : Begins(o, "policy", p, policy, "none")
       \/ \E next \in Password : Begins(o, "password", p, next, "none")

\* updateCredential(), updateSecret() with a value, createSecret().
Edit(o) ==
  /\ Free(o) /\ Configured
  /\ \E p \in Password, c \in Credential :
       \/ IsSaved(c) /\ Begins(o, "edit", p, "none", c)
       \/ ~IsSaved(c) /\ RoomFor(c) /\ Begins(o, "add", p, "none", c)

\* sshPassword() and secretValue() ("use"), and rememberSshPassword(): an unlocked
\* vault answers at once, a locked one asks for the master password first.
Use(o) ==
  /\ Free(o) /\ Configured
  /\ \E c \in Credential :
       \/ /\ key # NoVault /\ RoomFor(c)
          /\ saved' = Upserted(c, key, 0)
          /\ UNCHANGED <<config, cleanup, osKeys, key, up, ops, drawn, access>>
       \/ /\ key = NoVault
          /\ \E p \in Password :
               \/ IsSaved(c) /\ Begins(o, "use", p, "none", c)
               \/ RoomFor(c) /\ Begins(o, "remember", p, "none", c)

\* deleteCredential() and deleteSshPassword() are synchronous.
ForgetCredential(c) ==
  /\ up /\ IsSaved(c) /\ saved[c].last < MaxRows
  /\ saved' = [saved EXCEPT ![c] = WithoutRow(c)]
  /\ UNCHANGED <<config, cleanup, osKeys, key, up, ops, drawn, access>>

\* deleteAll() up to the deletion of the key from the credential store.
Reset(o) ==
  /\ Free(o) /\ Configured
  /\ \A c \in Credential : IsSaved(c) => saved[c].last < MaxRows
  /\ key' = NoVault /\ config' = NoConfig
  /\ saved' = [c \in Credential |-> IF IsSaved(c) THEN WithoutRow(c) ELSE saved[c]]
  /\ IF config.policy = "never"
     THEN /\ cleanup' = cleanup \union {config.vault}
          /\ ops' = [ops EXCEPT ![o] = [NoOp EXCEPT !.kind = "reset", !.at = "delete",
                                                    !.snap = config]]
          /\ Reaches(config.vault, "left")
     ELSE UNCHANGED <<cleanup, ops, access>>
  /\ UNCHANGED <<osKeys, up, drawn>>

-----------------------------------------------------------------------------
(* The key derivation answers *)

Snap(o) == ops[o].snap

\* What updatePasswordVaultConfig() writes: the configuration o has read, with its
\* change.  The row may be another vault's by now, or gone.
Rewrites(o, next) == Configured /\ config' = next

Throws(o) == Ends(o) /\ UNCHANGED <<database, osKeys, key, drawn, access>>

Derived(o, kind) == IsAt(o, "derive") /\ ops[o].kind = kind /\ ops[o].right /\ UNCHANGED up

WrongPassword(o) ==
  /\ IsAt(o, "derive") /\ ~ops[o].right
  /\ Throws(o) /\ UNCHANGED up

\* create(): the insertion fails when another request has created the vault.
Inserts(o) ==
  /\ ~Configured
  /\ config' = Snap(o)
  /\ key' = IF Snap(o).policy = "credential" THEN key ELSE Snap(o).vault
  /\ Ends(o)

Created(o) ==
  /\ Derived(o, "create")
  /\ \/ Snap(o).policy = "never" /\ Awaits(o, "set") /\ UNCHANGED <<config, key>>
     \/ Snap(o).policy # "never" /\ Inserts(o)
     \/ Snap(o).policy # "never" /\ Configured /\ Ends(o) /\ UNCHANGED <<config, key>>
  /\ UNCHANGED <<saved, cleanup, osKeys, drawn, access>>

Unlocked(o) ==
  /\ Derived(o, "unlock")
  /\ key' = Snap(o).vault /\ Ends(o)
  /\ UNCHANGED <<database, osKeys, drawn, access>>

\* repairAutomaticAccess(), and changeUnlockPolicy() to "never", store the key first.
StoresKey(o) ==
  /\ Derived(o, "repair") \/ (Derived(o, "policy") /\ ops[o].arg = "never")
  /\ Awaits(o, "set")
  /\ UNCHANGED <<database, osKeys, key, drawn, access>>

\* The end of changeUnlockPolicy() to any other policy.
KeyUnder(o) == IF ops[o].arg = "startup" THEN Snap(o).vault ELSE NoVault

QueuedKeys(o) == IF Snap(o).policy = "never" THEN cleanup \union {Snap(o).vault} ELSE cleanup

LeavesNever(o) ==
  /\ Derived(o, "policy") /\ ops[o].arg # "never"
  /\ cleanup' = QueuedKeys(o)
  /\ \/ /\ Rewrites(o, [Snap(o) EXCEPT !.policy = ops[o].arg])
        /\ IF Snap(o).policy = "never"
           THEN Awaits(o, "delete") /\ Reaches(Snap(o).vault, "left") /\ UNCHANGED key
           ELSE Ends(o) /\ key' = KeyUnder(o) /\ UNCHANGED access
     \/ ~Configured /\ Ends(o) /\ UNCHANGED <<config, key, access>>
  /\ UNCHANGED <<saved, osKeys, drawn>>

\* changeMasterPassword() derives a second key, from the new password.
Rederives(o) ==
  /\ Derived(o, "password")
  /\ Awaits(o, "derive next")
  /\ UNCHANGED <<database, osKeys, key, drawn, access>>

Rewrapped(o) ==
  /\ IsAt(o, "derive next") /\ UNCHANGED up
  /\ \/ /\ Rewrites(o, [Snap(o) EXCEPT !.password = ops[o].arg])
        /\ IF Snap(o).policy = "never" THEN Awaits(o, "set") /\ UNCHANGED key
           ELSE Ends(o) /\ key' = IF Snap(o).policy = "credential" THEN key ELSE Snap(o).vault
     \/ ~Configured /\ Ends(o) /\ UNCHANGED <<config, key>>
  /\ UNCHANGED <<saved, cleanup, osKeys, drawn, access>>

\* updateCredential() seals for the row it has read, createSecret() for the row it gets.
Edited(o) ==
  /\ Derived(o, "edit") \/ Derived(o, "add")
  /\ saved' = Upserted(ops[o].cred, Snap(o).vault, ops[o].row)
  /\ Ends(o)
  /\ UNCHANGED <<config, cleanup, osKeys, key, drawn, access>>

\* The end of sshPassword() and rememberSshPassword().
Uses(o) ==
  /\ saved' = IF ops[o].kind = "remember" THEN Upserted(ops[o].cred, Snap(o).vault, 0) ELSE saved
  /\ Ends(o)

\* credentialKey(): the key is kept, but for the policy that asks every time.
KeyUnwrapped(o) ==
  /\ Derived(o, "use") \/ Derived(o, "remember")
  /\ IF Snap(o).policy = "never" THEN Awaits(o, "set") /\ UNCHANGED <<saved, key>>
     ELSE Uses(o) /\ key' = IF Snap(o).policy = "credential" THEN key ELSE Snap(o).vault
  /\ UNCHANGED <<config, cleanup, osKeys, drawn, access>>

-----------------------------------------------------------------------------
(* The credential store answers *)

BestEffort(o) == ops[o].kind \in {"password", "use", "remember"}

KeyStored(o) ==
  /\ IsAt(o, "set")
  /\ osKeys' = osKeys \union {Snap(o).vault}
  /\ \/ /\ ops[o].kind = "create" /\ Inserts(o)
        /\ UNCHANGED saved
     \/ /\ ops[o].kind \in {"repair", "policy"}
        /\ Rewrites(o, [Snap(o) EXCEPT !.policy = "never"])
        /\ key' = Snap(o).vault /\ Ends(o)
        /\ UNCHANGED saved
     \/ /\ IF ops[o].kind = "create" THEN Configured ELSE ~BestEffort(o) /\ ~Configured
        /\ Awaits(o, "undo")
        /\ UNCHANGED <<config, saved, key>>
     \/ /\ BestEffort(o) /\ key' = Snap(o).vault
        /\ Uses(o) /\ UNCHANGED config
  /\ Reaches(Snap(o).vault,
             IF config'.vault = Snap(o).vault /\ config'.policy = "never" THEN "wanted" ELSE "none")
  /\ UNCHANGED <<cleanup, up, drawn>>

StoreFails(o) ==
  /\ IsAt(o, "set")
  /\ IF BestEffort(o) THEN key' = Snap(o).vault /\ Uses(o) ELSE UNCHANGED <<saved, key>> /\ Ends(o)
  /\ UNCHANGED <<config, cleanup, osKeys, up, drawn, access>>

\* delete() overwrites the entry first: a deletion that fails may have spoilt the key.
Undone(o) ==
  /\ IsAt(o, "undo") /\ Ends(o)
  /\ \E gone \in SUBSET {Snap(o).vault} : osKeys' = osKeys \ gone
  /\ Reaches(Snap(o).vault, "none")
  /\ UNCHANGED <<database, key, up, drawn>>

KeyDeleted(o) ==
  /\ IsAt(o, "delete") /\ Ends(o)
  /\ \E gone \in SUBSET {Snap(o).vault}, done \in BOOLEAN :
       /\ done => gone # {}
       /\ osKeys' = osKeys \ gone
       /\ cleanup' = IF done THEN cleanup \ gone ELSE cleanup
  /\ key' = IF ops[o].kind = "policy" THEN KeyUnder(o) ELSE key
  /\ UNCHANGED <<config, saved, up, drawn, access>>

(***************************************************************************)
(* The application dies: what the credential store was asked may still     *)
(* happen.  It may also die after a key has been queued for deletion and   *)
(* before the statement that follows.                                      *)
(***************************************************************************)
Pending(await) == {Snap(o).vault : o \in {q \in Op : IsAt(q, await)}}

Dies ==
  /\ up /\ up' = FALSE
  /\ key' = NoVault
  /\ ops' = [o \in Op |-> NoOp]
  /\ \E stored \in SUBSET Pending("set"),
        gone \in SUBSET (Pending("delete") \union Pending("undo")) :
       /\ osKeys' = (osKeys \union stored) \ gone
       /\ access' = [v \in Vault |->
                       IF v \in stored \/ v \in gone THEN "none" ELSE access[v]]
  /\ UNCHANGED <<config, saved, drawn>>

Crash ==
  /\ Dies
  /\ \/ UNCHANGED cleanup
     \/ /\ Configured /\ config.policy = "never"
        /\ cleanup' = cleanup \union {config.vault}

(***************************************************************************)
(* initialize(): the queued deletions are retried, but for the key of a    *)
(* vault that still has automatic access, and that key is fetched.         *)
(***************************************************************************)
\* Variant: the queue is worked off whatever the policy.
AutomaticNever == {}

Automatic == IF config.policy = "never" THEN {config.vault} ELSE {}

Initialize ==
  /\ ~up /\ up' = TRUE
  /\ \E available \in BOOLEAN, gone \in SUBSET (cleanup \ Automatic) :
     \E done \in SUBSET gone :
       /\ available \/ gone = {}
       /\ osKeys' = osKeys \ gone
       /\ cleanup' = cleanup \ (done \union Automatic)
       /\ key' = IF available /\ config.policy = "never" /\ config.vault \in osKeys'
                 THEN config.vault ELSE NoVault
  /\ UNCHANGED <<config, saved, ops, drawn, access>>

-----------------------------------------------------------------------------
Requested ==
  /\ vaultSpent.requests < MaxRequests
  /\ vaultSpent' = [vaultSpent EXCEPT !.requests = @ + 1]
  /\ \/ \E o \in Op : CreateVault(o) \/ Manage(o) \/ Edit(o) \/ Use(o) \/ Reset(o)
     \/ \E c \in Credential : ForgetCredential(c)

VaultAnswers ==
  /\ UNCHANGED vaultSpent
  /\ \E o \in Op :
       \/ WrongPassword(o) \/ Created(o) \/ Unlocked(o) \/ StoresKey(o) \/ LeavesNever(o)
       \/ Rederives(o) \/ Rewrapped(o) \/ Edited(o) \/ KeyUnwrapped(o)
       \/ KeyStored(o) \/ StoreFails(o) \/ Undone(o) \/ KeyDeleted(o)

VaultStep ==
  \/ Requested \/ VaultAnswers
  \/ Crash /\ vaultSpent.crashes < MaxCrashes /\ vaultSpent' = [vaultSpent EXCEPT !.crashes = @ + 1]
  \/ Initialize /\ UNCHANGED vaultSpent

\* A change of the configuration, or a row that goes, under another operation.
Overlaps ==
  /\ up'
  /\ config' # config \/ \E c \in Credential : IsSaved(c) /\ saved'[c].row = 0
  /\ \E o \in Op : InFlight(o) /\ ops'[o] = ops[o]

VaultNext == VaultStep /\ raced' = (raced \/ Overlaps)
VaultSpec == VaultInit /\ [][VaultNext]_vaultVars

-----------------------------------------------------------------------------
(* Properties *)

Kind == {"idle", "create", "unlock", "repair", "policy", "password", "edit", "add", "use",
         "remember", "reset"}
AwaitName == {"idle", "derive", "derive next", "set", "undo", "delete"}
Config == [vault : Vault \union {NoVault}, policy : Policy \union {"none"},
           password : Password \union {"none"}]
SavedRow == [row : 0 .. MaxRows, last : 0 .. MaxRows, key : Vault \union {NoVault},
        bound : 0 .. MaxRows]

\* The types, and that only an operation under way waits.
VaultTypeOK ==
  /\ config \in Config /\ saved \in [Credential -> SavedRow]
  /\ cleanup \subseteq drawn /\ osKeys \subseteq drawn /\ drawn \subseteq Vault
  /\ key \in drawn \union {NoVault} /\ up \in BOOLEAN /\ raced \in BOOLEAN
  /\ access \in [Vault -> {"none", "wanted", "left"}]
  /\ \A o \in Op : ops[o].kind \in Kind /\ ops[o].at \in AwaitName /\ ops[o].snap \in Config
  /\ \A o \in Op : InFlight(o) <=> ~IsAt(o, "idle")
  /\ ~up => key = NoVault /\ \A o \in Op : ~InFlight(o)

\* The key in memory is that of the vault, and the policy that asks every time
\* keeps none, but while it is being entered.
KeyIsCurrent ==
  /\ key \in {NoVault, config.vault}
  /\ config.policy = "credential" => key = NoVault \/ \E o \in Op : IsAt(o, "delete")

\* What is saved is sealed with the key of the vault, for the row it is stored in.
SealsOpen == \A c \in Credential : IsSaved(c) => saved[c].key = config.vault
                                                /\ saved[c].bound = saved[c].row

\* A key stored for automatic access stays in the credential store, whatever the
\* queue holds and whenever the application died; the key of a vault that has given
\* up automatic access is gone from there or still queued for deletion.
StoreFollowsPolicy ==
  \A v \in Vault :
    /\ access[v] = "wanted" => v \in osKeys
    /\ access[v] = "left" => v \notin osKeys \/ v \in cleanup

\* As long as no change of the vault overlaps another operation: the vault is sound,
\* through refused requests, a credential store that fails, and crashes.
VaultIsSound == ~raced => KeyIsCurrent /\ SealsOpen /\ StoreFollowsPolicy
=============================================================================
