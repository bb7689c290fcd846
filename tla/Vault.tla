------------------------------- MODULE Vault -------------------------------
(***************************************************************************)
(* VAULT, the storage that opens only while its policy allows it           *)
(* (modules/vault/src).  One thread serves the vault.* commands and, on    *)
(* every turn of its loop, relocks a vault whose time is over.             *)
(*                                                                         *)
(* What survives the daemon: the registry of vaults and the index of       *)
(* sealed files of each, two kinds of file that any write can leave torn;  *)
(* the master secrets in the Keychain; the RAM disks attached for the      *)
(* plaintext.  What dies with it: which vault is open, its timer, and the  *)
(* table of mounts.  PURGE Tier-0, run by the core, takes the secrets and  *)
(* the files away under the daemon's feet.                                 *)
(*                                                                         *)
(* A key is what it is derived from: the secret and the policy.  Of a      *)
(* sealed file only the key matters that it was sealed with: it opens with *)
(* no other.                                                               *)
(***************************************************************************)
EXTENDS Integers, Sequences

CONSTANTS Vaults,       \* vault ids: random, never given twice
          NoVault,
          Policies,     \* the policy texts that parse
          NoPolicy,
          Contexts,     \* the contexts a policy is decided in
          Verdict,      \* Verdict[p][c]: what vault_policy_decide answers
          RelockAfter,  \* VAULT_RELOCK_SECONDS, in steps of the clock
          RegistryFits(_),  \* whether a registry fits load_registry's buffer
          IndexMax,     \* sealed files whose JSON fits load_array_file's
          DetachFails,  \* whether hdiutil detach may fail
          MaxSecrets,   \* bound on the secrets generated for a vault
          MaxDisks      \* bound on the RAM disks attached for a vault

ASSUME VaultAssumption ==
         /\ NoVault \notin Vaults /\ NoPolicy \notin Policies
         /\ Verdict \in [Policies -> [Contexts -> {"allow", "defer", "deny"}]]
         /\ RelockAfter \in Nat \ {0}
         /\ IndexMax \in Nat
         /\ DetachFails \in BOOLEAN
         /\ MaxSecrets \in Nat /\ MaxDisks \in Nat

VARIABLES registry,   \* registry.json: the policy of each vault in it
          index,      \* <vault_id>.files.json
          secret,     \* the Keychain: the number of the secret held, or 0
          minted,     \* how many secrets were generated for a vault
          attached,   \* RAM disks attached for a vault
          issued,     \* ids gen_vault_id has returned
          up,         \* the daemon runs
          open,       \* open_vault_id
          relockIn,   \* relock_at, as the time left
          mounted,    \* g_mounts: the vaults with a slot
          granted     \* history: the policy the open vault was opened under

disk  == <<registry, index, secret, minted, attached, issued>>
vars  == <<registry, index, secret, minted, attached, issued,
           up, open, relockIn, mounted, granted>>

NoRelock == -1

Key == [secret : Nat, policy : Policies]

Torn == [v \in Vaults |-> NoPolicy]    \* a torn file reads as an empty array

Init == /\ registry = Torn
        /\ index    = [v \in Vaults |-> <<>>]
        /\ secret   = [v \in Vaults |-> 0]
        /\ minted   = [v \in Vaults |-> 0]
        /\ attached = [v \in Vaults |-> 0]
        /\ issued   = {}
        /\ up       = TRUE
        /\ open     = NoVault
        /\ relockIn = NoRelock
        /\ mounted  = {}
        /\ granted  = NoPolicy

-----------------------------------------------------------------------------
(* The files.                                                              *)

\* More than the buffer holds is cut, does not parse, and reads as empty.
LoadRegistry == IF RegistryFits(registry) THEN registry ELSE Torn

LoadIndex(v) == IF Len(index[v]) > IndexMax THEN <<>> ELSE index[v]

Registered(v) == LoadRegistry[v] # NoPolicy

(* What a save that failed leaves: fopen refused, or the file cut short.   *)
SaveRegistryFails == registry' \in {registry, Torn}

SaveIndexFails(v) == index' \in {index, [index EXCEPT ![v] = <<>>]}

-----------------------------------------------------------------------------
(* The Keychain and the key.                                               *)

(* The secret vault_keychain_load_or_create hands out: the one held, or a  *)
(* new one that it stores.                                                 *)
LoadOrCreate(v) ==
  IF secret[v] # 0
    THEN UNCHANGED <<secret, minted>>
    ELSE /\ minted[v] < MaxSecrets
         /\ minted' = [minted EXCEPT ![v] = @ + 1]
         /\ secret' = [secret EXCEPT ![v] = minted[v] + 1]

DerivedKey(v) == [secret |-> secret'[v], policy |-> LoadRegistry[v]]

-----------------------------------------------------------------------------
(* The mount.                                                              *)

MountBegin(v) ==
  /\ mounted' = mounted \cup {v}
  /\ IF v \in mounted
       THEN UNCHANGED attached
       ELSE /\ attached[v] < MaxDisks
            /\ attached' = [attached EXCEPT ![v] = @ + 1]

MountEndUnchecked(v) ==                           \* a mutant of MountEnd
  /\ mounted' = mounted \ {v}
  /\ attached' = [attached EXCEPT ![v] = @ - 1]

(* The slot is cleared whatever hdiutil answers.                           *)
MountEnd(v) ==
  /\ mounted' = mounted \ {v}
  /\ IF v \in mounted
       THEN attached' \in
              {[attached EXCEPT ![v] = @ - 1]}
              \cup (IF DetachFails THEN {attached} ELSE {})
       ELSE UNCHANGED attached

(* vault_open_all: every sealed file opens with the key.                   *)
OpenAllByPolicy(v) ==                             \* a mutant of OpenAll
  \A i \in DOMAIN LoadIndex(v) :
     LoadIndex(v)[i].policy = DerivedKey(v).policy

OpenAll(v) ==
  \A i \in DOMAIN LoadIndex(v) : LoadIndex(v)[i] = DerivedKey(v)

(* A mount that is begun and ended in one call: nothing is left of it,     *)
(* unless hdiutil did not detach the disk.                                 *)
MountBeginEnd(v) ==
  /\ mounted' = mounted \ {v}
  /\ IF v \in mounted
       THEN attached' \in
              {[attached EXCEPT ![v] = @ - 1]}
              \cup (IF DetachFails THEN {attached} ELSE {})
       ELSE attached' \in
              {attached}
              \cup (IF DetachFails /\ attached[v] < MaxDisks
                      THEN {[attached EXCEPT ![v] = @ + 1]} ELSE {})

Closed == /\ open'     = NoVault
          /\ relockIn' = NoRelock
          /\ granted'  = NoPolicy

-----------------------------------------------------------------------------
(* The commands.  A call that is refused changes nothing; so does one      *)
(* whose Keychain call fails.                                              *)

Create(v, p) ==
  /\ up
  /\ v \notin issued
  /\ issued' = issued \cup {v}
  /\ LoadOrCreate(v)
  /\ \/ registry' = [LoadRegistry EXCEPT ![v] = p]
     \/ SaveRegistryFails
  /\ UNCHANGED <<index, attached, up, open, relockIn, mounted, granted>>

Unlock(v, c) ==
  /\ up
  /\ open \in {NoVault, v}
  /\ Registered(v)
  /\ Verdict[LoadRegistry[v]][c] = "allow"
  /\ LoadOrCreate(v)
  /\ \/ /\ OpenAll(v)
        /\ MountBegin(v)
        /\ open'     = v
        /\ relockIn' = RelockAfter
        /\ granted'  = LoadRegistry[v]
     \/ \* "integrity": a file does not verify or cannot be placed; or
        \* "mount_failed".  An open vault stays open.
        /\ LoadIndex(v) # <<>> \/ v \notin mounted
        /\ MountBeginEnd(v)
        /\ UNCHANGED <<open, relockIn, granted>>
  /\ UNCHANGED <<registry, index, issued, up>>

Lock ==
  /\ up
  /\ open # NoVault
  /\ MountEnd(open)
  /\ Closed
  /\ UNCHANGED <<registry, index, secret, minted, issued, up>>

AddFile(v) ==
  /\ up
  /\ open = v
  /\ Registered(v)
  /\ LoadOrCreate(v)
  /\ \/ index' = [index EXCEPT ![v] = Append(LoadIndex(v), DerivedKey(v))]
     \/ SaveIndexFails(v)
  /\ UNCHANGED <<registry, attached, issued, up, open, relockIn, mounted,
                 granted>>

DeleteKeepsMount(v) ==                            \* a mutant of Delete
  /\ up
  /\ Registered(v)
  /\ registry' = [LoadRegistry EXCEPT ![v] = NoPolicy]
  /\ secret'  = [secret EXCEPT ![v] = 0]
  /\ index'   = [index EXCEPT ![v] = <<>>]
  /\ IF open = v THEN Closed ELSE UNCHANGED <<open, relockIn, granted>>
  /\ UNCHANGED <<minted, issued, up, mounted, attached>>

Delete(v) ==
  /\ up
  /\ Registered(v)
  /\ \/ /\ registry' = [LoadRegistry EXCEPT ![v] = NoPolicy]
        /\ secret'  \in {secret, [secret EXCEPT ![v] = 0]}   \* best effort
        /\ index'   \in {index, [index EXCEPT ![v] = <<>>]}
        /\ MountEnd(v)
        /\ IF open = v THEN Closed ELSE UNCHANGED <<open, relockIn, granted>>
     \/ /\ SaveRegistryFails
        /\ UNCHANGED <<secret, index, attached, open, relockIn, mounted,
                       granted>>
  /\ UNCHANGED <<minted, issued, up>>

PolicyUpdateStaysOpen(v, p) ==                    \* mutants of PolicyUpdate
  /\ up
  /\ Registered(v)
  /\ LoadIndex(v) = <<>>
  /\ registry' = [LoadRegistry EXCEPT ![v] = p]
  /\ UNCHANGED <<index, secret, minted, attached, issued, up, open, relockIn,
                 mounted, granted>>

PolicyUpdateWithContent(v, p) ==
  /\ up
  /\ Registered(v)
  /\ registry' = [LoadRegistry EXCEPT ![v] = p]
  /\ IF open = v THEN MountEnd(v) /\ Closed
                 ELSE UNCHANGED <<attached, open, relockIn, mounted, granted>>
  /\ UNCHANGED <<index, secret, minted, issued, up>>

PolicyUpdate(v, p) ==
  /\ up
  /\ Registered(v)
  /\ LoadIndex(v) = <<>>        \* a vault with content is refused
  /\ \/ /\ registry' = [LoadRegistry EXCEPT ![v] = p]
        /\ IF open = v
             THEN MountEnd(v) /\ Closed
             ELSE UNCHANGED <<attached, open, relockIn, mounted, granted>>
     \/ /\ SaveRegistryFails
        /\ UNCHANGED <<attached, open, relockIn, mounted, granted>>
  /\ UNCHANGED <<index, secret, minted, issued, up>>

-----------------------------------------------------------------------------
(* The daemon and the world around it.                                     *)

(* The turn of the serve loop that finds the timer due.                    *)
TickNever == /\ up /\ relockIn < NoRelock         \* a mutant of Tick
             /\ UNCHANGED vars

Tick ==
  /\ up
  /\ relockIn = 0
  /\ MountEnd(open)
  /\ Closed
  /\ UNCHANGED <<registry, index, secret, minted, issued, up>>

(* End of file from the core, a signal, or a kill: no mount is ended.      *)
Exit ==
  /\ up
  /\ up'      = FALSE
  /\ mounted' = {}
  /\ Closed
  /\ UNCHANGED disk

Start == /\ ~up
         /\ up' = TRUE
         /\ UNCHANGED <<disk, open, relockIn, mounted, granted>>

Elapse ==
  /\ relockIn > 0
  /\ relockIn' = relockIn - 1
  /\ UNCHANGED <<disk, up, open, mounted, granted>>

(* PURGE Tier-0: shim.evict deletes every secret, and core unlinks the     *)
(* state files one by one.                                                 *)
EvictSecrets ==
  /\ \E v \in Vaults : secret[v] # 0
  /\ secret' = [v \in Vaults |-> 0]
  /\ UNCHANGED <<registry, index, minted, attached, issued,
                 up, open, relockIn, mounted, granted>>

WipeRegistry ==
  /\ registry # Torn
  /\ registry' = Torn
  /\ UNCHANGED <<index, secret, minted, attached, issued,
                 up, open, relockIn, mounted, granted>>

WipeIndex(v) ==
  /\ index[v] # <<>>
  /\ index' = [index EXCEPT ![v] = <<>>]
  /\ UNCHANGED <<registry, secret, minted, attached, issued,
                 up, open, relockIn, mounted, granted>>

Next == \/ \E v \in Vaults :
             \/ \E p \in Policies : Create(v, p) \/ PolicyUpdate(v, p)
             \/ \E c \in Contexts : Unlock(v, c)
             \/ AddFile(v) \/ Delete(v) \/ WipeIndex(v)
        \/ Lock \/ Tick \/ Exit \/ Start
        \/ Elapse \/ EvictSecrets \/ WipeRegistry

Spec == Init /\ [][Next]_vars

(* Time passes, and the loop turns at least every IPC_POLL_MS.             *)
FairSpec == Spec /\ WF_vars(Elapse) /\ WF_vars(Tick)

-----------------------------------------------------------------------------
(* Properties.                                                             *)

(* The variables have their types.                                         *)
TypeOK ==
  /\ registry \in [Vaults -> Policies \cup {NoPolicy}]
  /\ index    \in [Vaults -> Seq(Key)]
  /\ secret   \in [Vaults -> Nat]
  /\ minted   \in [Vaults -> Nat]
  /\ attached \in [Vaults -> Nat]
  /\ issued   \subseteq Vaults
  /\ up       \in BOOLEAN
  /\ open     \in Vaults \cup {NoVault}
  /\ relockIn \in {NoRelock} \cup 0..RelockAfter
  /\ mounted  \subseteq Vaults
  /\ granted  \in Policies \cup {NoPolicy}

(* One vault at a time: a mount the daemon knows of is the open vault's,   *)
(* its disk is attached, and the vault has a relock pending for as long as *)
(* it is open (handle_unlock, handle_lock, handle_delete, the tick).       *)
OneOpen ==
  /\ mounted \subseteq {open}
  /\ \A v \in mounted : attached[v] > 0
  /\ (open = NoVault) <=> (relockIn = NoRelock)
  /\ open # NoVault => up

(* A vault is never open under a policy it no longer has: replacing the    *)
(* policy of the open vault closes it (handle_policy_update).              *)
OpenUnderGrant ==
  open # NoVault /\ registry[open] # NoPolicy => registry[open] = granted

(* No file the daemon can still read was orphaned: what a registered vault *)
(* holds is sealed under the vault's policy of now, and under its one and  *)
(* only secret unless that was taken away and replaced.  The policy is     *)
(* part of the key, so handle_policy_update must refuse a vault that holds *)
(* a file.                                                                 *)
NeverOrphaned ==
  \A v \in Vaults : registry[v] # NoPolicy =>
    \A i \in DOMAIN LoadIndex(v) :
       /\ LoadIndex(v)[i].policy = registry[v]
       /\ minted[v] <= 1 => LoadIndex(v)[i].secret = minted[v]

(* Evicting the secret is final: a vault that comes open holds no file     *)
(* sealed under another secret than the one the Keychain has now, so one   *)
(* whose content was sealed before PURGE evicted its secret never opens,   *)
(* although the daemon makes a new secret for it when asked.               *)
EvictedNeverOpens ==
  [][\A v \in Vaults : open # v /\ open' = v =>
       \A i \in DOMAIN LoadIndex(v) :
          LoadIndex(v)[i].secret = secret'[v]]_vars

(* An opening does not last: an open vault is closed again, or somebody    *)
(* passed its policy once more and started the timer anew.                 *)
OpeningEnds ==
  \A v \in Vaults :
     (open = v /\ relockIn < RelockAfter)
        ~> (open # v \/ relockIn = RelockAfter)

(* STATE.md: "the plaintext vanishes the moment the vault is locked by any *)
(* path"; ARCHITECTURE.md: "If CORE crashes ... VAULT relocks all open     *)
(* vaults".  The disk of the plaintext would be attached only while its    *)
(* vault is open.                                                          *)
PlaintextOnlyWhileOpen == \A v \in Vaults : attached[v] > 0 => open = v

=============================================================================
