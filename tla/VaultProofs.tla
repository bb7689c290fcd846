---------------------------- MODULE VaultProofs ----------------------------
(***************************************************************************)
(* Theorems about module Vault, for any vaults, policies, contexts, file   *)
(* sizes and bounds.  Of a vault's content to stay readable two more facts *)
(* are needed than the property says: an id is used once, and every secret *)
(* in a key or in the Keychain was minted for its vault.                   *)
(*                                                                         *)
(* And about module VaultEval, for any rules, contexts, week, months and   *)
(* horizon.                                                                *)
(* Rules are finite trees, so what passes from the parts of a rule to the  *)
(* rule is true of all; the recursive functions of the evaluator are       *)
(* functions by the same argument.                                         *)
(***************************************************************************)
EXTENDS Vault, VaultEval, TLAPS, SequenceTheorems, WellFoundedInduction,
        NaturalsInduction

IssuedOnce ==
  \A v \in Vaults : \/ registry[v] # NoPolicy
                    \/ index[v] # <<>>
                    \/ open = v
                    => v \in issued

SecretsMinted ==
  \A v \in Vaults :
     /\ secret[v] <= minted[v]
     /\ \A i \in DOMAIN index[v] : index[v][i].secret \in 1..minted[v]

Inv == /\ TypeOK
       /\ OneOpen
       /\ OpenUnderGrant
       /\ IssuedOnce
       /\ SecretsMinted
       /\ NeverOrphaned

-----------------------------------------------------------------------------
(* What is read from disk is what is there, or nothing.                    *)
LEMMA LoadIsDiskOrNothing ==
  /\ LoadRegistry \in {registry, Torn}
  /\ \A v : LoadIndex(v) \in {index[v], <<>>}
BY DEF LoadRegistry, LoadIndex

LEMMA LoadTypes ==
  ASSUME TypeOK
  PROVE  /\ Torn \in [Vaults -> Policies \cup {NoPolicy}]
         /\ LoadRegistry \in [Vaults -> Policies \cup {NoPolicy}]
         /\ \A v \in Vaults : LoadIndex(v) \in Seq(Key)
         /\ \A v \in Vaults : /\ LoadRegistry[v] \in {registry[v], NoPolicy}
                              /\ Torn[v] = NoPolicy
<1>1. Torn \in [Vaults -> Policies \cup {NoPolicy}]
  BY DEF Torn
<1>2. \A v \in Vaults : Torn[v] = NoPolicy
  BY DEF Torn
<1>3. LoadRegistry \in [Vaults -> Policies \cup {NoPolicy}]
  BY <1>1, LoadIsDiskOrNothing DEF TypeOK
<1>4. \A v \in Vaults : LoadRegistry[v] \in {registry[v], NoPolicy}
  BY <1>2, LoadIsDiskOrNothing
<1>5. <<>> \in Seq(Key)
  BY EmptySeq
<1>6. \A v \in Vaults : LoadIndex(v) \in Seq(Key)
  BY <1>5, LoadIsDiskOrNothing DEF TypeOK
<1> QED
  BY <1>1, <1>2, <1>3, <1>4, <1>6

LEMMA SecretType ==
  ASSUME TypeOK, NEW v \in Vaults, LoadOrCreate(v)
  PROVE  secret' \in [Vaults -> Nat] /\ minted' \in [Vaults -> Nat]
<1>1. CASE secret[v] # 0
  BY <1>1 DEF LoadOrCreate, TypeOK
<1>2. CASE secret[v] = 0
  <2>1. minted[v] + 1 \in Nat
    BY DEF TypeOK
  <2>2. /\ minted' = [minted EXCEPT ![v] = minted[v] + 1]
        /\ secret' = [secret EXCEPT ![v] = minted[v] + 1]
    BY <1>2 DEF LoadOrCreate, TypeOK
  <2> QED
    BY <2>1, <2>2 DEF TypeOK
<1> QED
  BY <1>1, <1>2

LEMMA KeyType ==
  ASSUME TypeOK, NEW v \in Vaults, Registered(v), LoadOrCreate(v)
  PROVE  DerivedKey(v) \in Key
<1>1. LoadRegistry[v] \in Policies
  BY LoadTypes DEF Registered
<1>2. secret'[v] \in Nat
  BY SecretType
<1> QED
  BY <1>1, <1>2 DEF DerivedKey, Key

LEMMA IndexType ==
  ASSUME TypeOK, NEW v \in Vaults, NEW s \in Seq(Key)
  PROVE  /\ [index EXCEPT ![v] = s] \in [Vaults -> Seq(Key)]
         /\ [index EXCEPT ![v] = <<>>] \in [Vaults -> Seq(Key)]
BY EmptySeq DEF TypeOK

LEMMA InitInv == Init => Inv
<1> SUFFICES ASSUME Init PROVE Inv
  OBVIOUS
<1>1. TypeOK
  BY EmptySeq, VaultAssumption DEF Init, TypeOK, Torn
<1>2. OneOpen /\ OpenUnderGrant
  BY VaultAssumption DEF Init, OneOpen, OpenUnderGrant
<1>3. IssuedOnce /\ SecretsMinted /\ NeverOrphaned
  BY VaultAssumption
  DEF Init, IssuedOnce, SecretsMinted, NeverOrphaned, Torn
<1> QED
  BY <1>1, <1>2, <1>3 DEF Inv

-----------------------------------------------------------------------------
(* The types.                                                              *)

LEMMA MountTypes ==
  ASSUME TypeOK, OneOpen, NEW v \in Vaults,
         MountBegin(v) \/ MountEnd(v) \/ MountBeginEnd(v)
  PROVE  attached' \in [Vaults -> Nat] /\ mounted' \subseteq Vaults
<1>1. mounted' \subseteq Vaults
  BY DEF TypeOK, MountBegin, MountEnd, MountBeginEnd
<1>2. [attached EXCEPT ![v] = @ + 1] \in [Vaults -> Nat]
  BY DEF TypeOK
<1>3. v \in mounted => [attached EXCEPT ![v] = @ - 1] \in [Vaults -> Nat]
  BY DEF TypeOK, OneOpen
<1>4. attached' \in [Vaults -> Nat]
  <2>1. CASE MountBegin(v)
    BY <1>2, <2>1 DEF MountBegin, TypeOK
  <2>2. CASE MountEnd(v)
    BY <1>3, <2>2 DEF MountEnd, TypeOK
  <2>3. CASE MountBeginEnd(v)
    BY <1>2, <1>3, <2>3 DEF MountBeginEnd, TypeOK
  <2> QED
    BY <2>1, <2>2, <2>3
<1> QED
  BY <1>1, <1>4

LEMMA TypeStep == TypeOK /\ OneOpen /\ [Next]_vars => TypeOK'
<1> SUFFICES ASSUME TypeOK, OneOpen, [Next]_vars PROVE TypeOK'
  OBVIOUS
<1> USE VaultAssumption
<1>1. CASE UNCHANGED vars
  BY <1>1 DEF vars, TypeOK
<1>2. ASSUME NEW v \in Vaults, NEW p \in Policies, Create(v, p)
      PROVE  TypeOK'
  <2>1. secret' \in [Vaults -> Nat] /\ minted' \in [Vaults -> Nat]
    BY <1>2, SecretType DEF Create
  <2>2. registry' \in [Vaults -> Policies \cup {NoPolicy}]
    <3>1. [LoadRegistry EXCEPT ![v] = p]
            \in [Vaults -> Policies \cup {NoPolicy}]
      BY LoadTypes
    <3> QED
      BY <1>2, <3>1, LoadTypes DEF Create, SaveRegistryFails, TypeOK
  <2> QED
    BY <1>2, <2>1, <2>2 DEF Create, TypeOK
<1>3. ASSUME NEW v \in Vaults, NEW p \in Policies, PolicyUpdate(v, p)
      PROVE  TypeOK'
  <2>1. registry' \in [Vaults -> Policies \cup {NoPolicy}]
    BY <1>3, LoadTypes DEF PolicyUpdate, SaveRegistryFails, TypeOK
  <2>2. attached' \in [Vaults -> Nat] /\ mounted' \subseteq Vaults
    BY <1>3, MountTypes DEF PolicyUpdate, TypeOK
  <2> QED
    BY <1>3, <2>1, <2>2 DEF PolicyUpdate, Closed, TypeOK
<1>4. ASSUME NEW v \in Vaults, NEW c \in Contexts, Unlock(v, c)
      PROVE  TypeOK'
  <2>1. secret' \in [Vaults -> Nat] /\ minted' \in [Vaults -> Nat]
    BY <1>4, SecretType DEF Unlock
  <2>2. attached' \in [Vaults -> Nat] /\ mounted' \subseteq Vaults
    BY <1>4, MountTypes DEF Unlock
  <2>3. LoadRegistry[v] \in Policies \cup {NoPolicy}
    BY LoadTypes
  <2> QED
    BY <1>4, <2>1, <2>2, <2>3 DEF Unlock, TypeOK
<1>5. ASSUME NEW v \in Vaults, AddFile(v)
      PROVE  TypeOK'
  <2>1. /\ secret' \in [Vaults -> Nat] /\ minted' \in [Vaults -> Nat]
        /\ DerivedKey(v) \in Key
    BY <1>5, SecretType, KeyType DEF AddFile
  <2>2. Append(LoadIndex(v), DerivedKey(v)) \in Seq(Key)
    BY <2>1, LoadTypes, AppendProperties
  <2>3. index' \in [Vaults -> Seq(Key)]
    <3>1. \/ index' = [index EXCEPT ![v] =
                            Append(LoadIndex(v), DerivedKey(v))]
          \/ index' = index
          \/ index' = [index EXCEPT ![v] = <<>>]
      BY <1>5 DEF AddFile, SaveIndexFails
    <3>2. index \in [Vaults -> Seq(Key)]
      BY DEF TypeOK
    <3> QED
      BY <2>2, <3>1, <3>2, IndexType
  <2> QED
    BY <1>5, <2>1, <2>3 DEF AddFile, TypeOK
<1>6. ASSUME NEW v \in Vaults, Delete(v)
      PROVE  TypeOK'
  <2>1. registry' \in [Vaults -> Policies \cup {NoPolicy}]
    BY <1>6, LoadTypes DEF Delete, SaveRegistryFails, TypeOK
  <2>2. attached' \in [Vaults -> Nat] /\ mounted' \subseteq Vaults
    BY <1>6, MountTypes DEF Delete, TypeOK
  <2>3. secret' \in [Vaults -> Nat]
    <3>1. secret' = secret \/ secret' = [secret EXCEPT ![v] = 0]
      BY <1>6 DEF Delete
    <3>2. secret \in [Vaults -> Nat]
      BY DEF TypeOK
    <3>3. [secret EXCEPT ![v] = 0] \in [Vaults -> Nat]
      BY <3>2
    <3> QED
      BY <3>1, <3>2, <3>3
  <2>4. index' \in [Vaults -> Seq(Key)]
    <3>1. index' = index \/ index' = [index EXCEPT ![v] = <<>>]
      BY <1>6 DEF Delete
    <3>2. index \in [Vaults -> Seq(Key)]
      BY DEF TypeOK
    <3> QED
      BY <3>1, <3>2, EmptySeq, IndexType
  <2> QED
    BY <1>6, <2>1, <2>2, <2>3, <2>4 DEF Delete, Closed, TypeOK
<1>7. CASE Lock \/ Tick
  <2>1. open \in Vaults
    BY <1>7 DEF Lock, Tick, OneOpen, TypeOK, NoRelock
  <2>2. attached' \in [Vaults -> Nat] /\ mounted' \subseteq Vaults
    BY <1>7, <2>1, MountTypes DEF Lock, Tick
  <2> QED
    BY <1>7, <2>2 DEF Lock, Tick, Closed, TypeOK
<1>8. CASE Exit \/ Start
  BY <1>8 DEF Exit, Start, Closed, disk, TypeOK
<1>9. CASE Elapse
  BY <1>9 DEF Elapse, disk, TypeOK, NoRelock
<1>10. CASE EvictSecrets \/ WipeRegistry
  <2>1. [v \in Vaults |-> 0] \in [Vaults -> Nat]
    OBVIOUS
  <2> QED
    BY <1>10, <2>1, LoadTypes DEF EvictSecrets, WipeRegistry, TypeOK
<1>11. ASSUME NEW v \in Vaults, WipeIndex(v)
       PROVE  TypeOK'
  <2>1. [index EXCEPT ![v] = <<>>] \in [Vaults -> Seq(Key)]
    BY EmptySeq, IndexType
  <2> QED
    BY <1>11, <2>1 DEF WipeIndex, TypeOK
<1> QED
  BY <1>1, <1>2, <1>3, <1>4, <1>5, <1>6, <1>7, <1>8, <1>9, <1>10, <1>11
  DEF Next

-----------------------------------------------------------------------------
(* One vault at a time, and never under a policy that was replaced.        *)

(* A vault's mount is ended, and with it every mount there is.             *)
LEMMA MountEnded ==
  ASSUME TypeOK, OneOpen, NEW v \in Vaults, open \in {v, NoVault}, MountEnd(v)
  PROVE  mounted' = {}
<1>1. mounted \subseteq {v}
  BY VaultAssumption DEF TypeOK, OneOpen
<1> QED
  BY <1>1 DEF MountEnd

LEMMA OneOpenStep == TypeOK /\ OneOpen /\ [Next]_vars => OneOpen'
<1> SUFFICES ASSUME TypeOK, OneOpen, [Next]_vars PROVE OneOpen'
  OBVIOUS
<1> USE VaultAssumption
<1>1. ASSUME mounted' = {}, Closed
      PROVE  OneOpen'
  BY <1>1 DEF Closed, OneOpen
<1>2. CASE /\ UNCHANGED <<open, relockIn, mounted, attached>>
           /\ up => up'
  BY <1>2 DEF OneOpen
<1>3. ASSUME NEW v \in Vaults, NEW p \in Policies,
             Create(v, p) \/ PolicyUpdate(v, p)
      PROVE  OneOpen'
  <2>1. CASE PolicyUpdate(v, p) /\ open = v /\ MountEnd(v) /\ Closed
    BY <1>1, <2>1, MountEnded
  <2> QED
    BY <1>2, <1>3, <2>1 DEF Create, PolicyUpdate
<1>4. ASSUME NEW v \in Vaults, NEW c \in Contexts, Unlock(v, c)
      PROVE  OneOpen'
  <2>1. CASE MountBegin(v) /\ open' = v /\ relockIn' = RelockAfter
    <3>1. mounted' \subseteq {v}
      BY <1>4, <2>1 DEF Unlock, MountBegin, OneOpen, TypeOK
    <3>3. attached'[v] > 0
      <4>1. CASE v \in mounted
        BY <2>1, <4>1 DEF MountBegin, OneOpen
      <4>2. CASE v \notin mounted
        <5>1. /\ attached' = [attached EXCEPT ![v] = attached[v] + 1]
              /\ attached \in [Vaults -> Nat]
          BY <2>1, <4>2 DEF MountBegin, TypeOK
        <5> QED
          BY <5>1
      <4> QED
        BY <4>1, <4>2
    <3>2. up' /\ relockIn' # NoRelock
      BY <1>4, <2>1 DEF Unlock, NoRelock
    <3> QED
      BY <2>1, <3>1, <3>2, <3>3 DEF OneOpen
  <2>2. CASE MountBeginEnd(v) /\ UNCHANGED <<open, relockIn>>
    <3>1. mounted \ {v} = {}
      BY <1>4 DEF Unlock, OneOpen, TypeOK
    <3>2. mounted' = {}
      BY <2>2, <3>1 DEF MountBeginEnd
    <3> QED
      BY <1>4, <2>2, <3>2 DEF Unlock, OneOpen
  <2> QED
    BY <1>4, <2>1, <2>2 DEF Unlock
<1>5. ASSUME NEW v \in Vaults, AddFile(v) \/ WipeIndex(v)
      PROVE  OneOpen'
  BY <1>2, <1>5 DEF AddFile, WipeIndex
<1>6. ASSUME NEW v \in Vaults, Delete(v)
      PROVE  OneOpen'
  <2>1. CASE open = v /\ MountEnd(v) /\ Closed
    BY <1>1, <2>1, MountEnded
  <2>2. CASE open # v /\ MountEnd(v) /\ UNCHANGED <<open, relockIn>>
    <3>1. v \notin mounted
      BY <2>2 DEF OneOpen
    <3>2. UNCHANGED attached /\ mounted' = mounted
      BY <2>2, <3>1 DEF MountEnd
    <3> QED
      BY <1>2, <1>6, <2>2, <3>2 DEF Delete
  <2> QED
    BY <1>2, <1>6, <2>1, <2>2 DEF Delete
<1>7. CASE Lock \/ Tick
  <2>1. open \in Vaults
    BY <1>7 DEF Lock, Tick, OneOpen, TypeOK, NoRelock
  <2> QED
    BY <1>1, <1>7, <2>1, MountEnded DEF Lock, Tick
<1>8. CASE Exit
  BY <1>1, <1>8 DEF Exit
<1>9. CASE Start \/ EvictSecrets \/ WipeRegistry \/ UNCHANGED vars
  BY <1>2, <1>9 DEF Start, EvictSecrets, WipeRegistry, disk, vars
<1>10. CASE Elapse
  BY <1>10 DEF Elapse, OneOpen, TypeOK, NoRelock, disk
<1> QED
  BY <1>3, <1>4, <1>5, <1>6, <1>7, <1>8, <1>9, <1>10 DEF Next

(* No step gives the open vault another policy without closing it.         *)
LEMMA GrantStep ==
  TypeOK /\ IssuedOnce /\ OpenUnderGrant /\ [Next]_vars => OpenUnderGrant'
<1> SUFFICES ASSUME TypeOK, IssuedOnce, OpenUnderGrant, [Next]_vars
             PROVE  OpenUnderGrant'
  OBVIOUS
<1> USE VaultAssumption
<1>1. CASE Closed
  BY <1>1 DEF Closed, OpenUnderGrant
<1>2. CASE /\ UNCHANGED <<open, granted>>
           /\ open # NoVault => registry'[open] \in {registry[open], NoPolicy}
  BY <1>2 DEF OpenUnderGrant
<1>3. ASSUME registry' \in {registry, Torn}, UNCHANGED <<open, granted>>
      PROVE  OpenUnderGrant'
  BY <1>2, <1>3, LoadTypes DEF TypeOK
<1>4. ASSUME NEW v \in Vaults, NEW p \in Policies \cup {NoPolicy}, open # v,
             registry' = [LoadRegistry EXCEPT ![v] = p],
             UNCHANGED <<open, granted>>
      PROVE  OpenUnderGrant'
  <2>1. open # NoVault => registry'[open] = LoadRegistry[open]
    BY <1>4, LoadTypes DEF TypeOK
  <2> QED
    BY <1>2, <1>4, <2>1, LoadTypes DEF TypeOK
<1>5. ASSUME NEW v \in Vaults, NEW p \in Policies,
             Create(v, p) \/ PolicyUpdate(v, p)
      PROVE  OpenUnderGrant'
  <2>1. CASE Create(v, p)
    BY <1>3, <1>4, <2>1 DEF Create, SaveRegistryFails, IssuedOnce
  <2>2. CASE PolicyUpdate(v, p)
    BY <1>1, <1>3, <1>4, <2>2 DEF PolicyUpdate, SaveRegistryFails
  <2> QED
    BY <1>5, <2>1, <2>2
<1>6. ASSUME NEW v \in Vaults, NEW c \in Contexts, Unlock(v, c)
      PROVE  OpenUnderGrant'
  <2>1. LoadRegistry[v] = registry[v]
    BY <1>6, LoadTypes DEF Unlock, Registered
  <2> QED
    BY <1>3, <1>6, <2>1 DEF Unlock, OpenUnderGrant
<1>7. ASSUME NEW v \in Vaults, Delete(v)
      PROVE  OpenUnderGrant'
  BY <1>1, <1>3, <1>4, <1>7 DEF Delete, SaveRegistryFails
<1>8. ASSUME NEW v \in Vaults, AddFile(v) \/ WipeIndex(v)
      PROVE  OpenUnderGrant'
  BY <1>3, <1>8 DEF AddFile, WipeIndex
<1>9. CASE Lock \/ Tick \/ Exit
  BY <1>1, <1>9 DEF Lock, Tick, Exit
<1>10. CASE Start \/ Elapse \/ EvictSecrets \/ WipeRegistry \/ UNCHANGED vars
  BY <1>3, <1>10 DEF Start, Elapse, EvictSecrets, WipeRegistry, disk, vars
<1> QED
  BY <1>5, <1>6, <1>7, <1>8, <1>9, <1>10 DEF Next

-----------------------------------------------------------------------------
(* Ids and secrets.                                                        *)

LEMMA IssuedStep == TypeOK /\ IssuedOnce /\ [Next]_vars => IssuedOnce'
<1> SUFFICES ASSUME TypeOK, IssuedOnce, [Next]_vars, NEW u \in Vaults,
                    registry'[u] # NoPolicy \/ index'[u] # <<>> \/ open' = u
             PROVE  u \in issued'
  BY DEF IssuedOnce
<1> USE VaultAssumption
<1>1. CASE /\ u \in issued => u \in issued'
           /\ \/ registry'[u] = NoPolicy
              \/ registry[u] # NoPolicy
              \/ u \in issued'
           /\ \/ index'[u] = <<>>
              \/ index[u] # <<>>
              \/ u \in issued'
           /\ open' = u => open = u \/ u \in issued'
  BY <1>1 DEF IssuedOnce
<1>2. ASSUME NEW v \in Vaults, NEW p \in Policies \cup {NoPolicy},
             v \in issued' \/ p = NoPolicy,
             registry' \in {[LoadRegistry EXCEPT ![v] = p], registry, Torn}
      PROVE  registry'[u] = NoPolicy \/ registry[u] # NoPolicy \/ u \in issued'
  BY <1>2, LoadTypes
<1>3. \A v \in Vaults : Registered(v) => v \in issued
  BY LoadTypes DEF Registered, IssuedOnce
<1>4. ASSUME NEW v \in Vaults, NEW p \in Policies, Create(v, p)
      PROVE  u \in issued'
  <2>1. v \in issued' /\ issued \subseteq issued'
    BY <1>4 DEF Create
  <2>2. registry' \in {[LoadRegistry EXCEPT ![v] = p], registry, Torn}
    BY <1>4 DEF Create, SaveRegistryFails
  <2> QED
    BY <1>1, <1>2, <1>4, <2>1, <2>2 DEF Create
<1>5. ASSUME NEW v \in Vaults, NEW p \in Policies, PolicyUpdate(v, p)
      PROVE  u \in issued'
  <2>1. v \in issued' /\ issued' = issued
    BY <1>3, <1>5 DEF PolicyUpdate
  <2>2. registry' \in {[LoadRegistry EXCEPT ![v] = p], registry, Torn}
    BY <1>5 DEF PolicyUpdate, SaveRegistryFails
  <2>3. index' = index /\ open' \in {open, NoVault}
    BY <1>5 DEF PolicyUpdate, Closed
  <2> QED
    BY <1>1, <1>2, <2>1, <2>2, <2>3
<1>6. ASSUME NEW v \in Vaults, NEW c \in Contexts, Unlock(v, c)
      PROVE  u \in issued'
  BY <1>1, <1>3, <1>6 DEF Unlock
<1>7. ASSUME NEW v \in Vaults, AddFile(v)
      PROVE  u \in issued'
  <2>1. v \in issued /\ issued' = issued
    BY <1>3, <1>7 DEF AddFile
  <2>2. u # v => index'[u] = index[u]
    BY <1>7 DEF AddFile, SaveIndexFails, TypeOK
  <2>3. UNCHANGED <<registry, open>>
    BY <1>7 DEF AddFile
  <2> QED
    BY <1>1, <2>1, <2>2, <2>3
<1>8. ASSUME NEW v \in Vaults, Delete(v)
      PROVE  u \in issued'
  <2>1. issued' = issued
    BY <1>8 DEF Delete
  <2>2. registry' \in {[LoadRegistry EXCEPT ![v] = NoPolicy], registry, Torn}
    BY <1>8 DEF Delete, SaveRegistryFails
  <2>3. index' = index \/ index' = [index EXCEPT ![v] = <<>>]
    BY <1>8 DEF Delete
  <2>4. index'[u] = <<>> \/ index[u] # <<>>
    BY <2>3 DEF TypeOK
  <2>5. open' \in {open, NoVault}
    BY <1>8 DEF Delete, Closed
  <2> QED
    BY <1>1, <1>2, <2>1, <2>2, <2>4, <2>5
<1>9. ASSUME NEW v \in Vaults, WipeIndex(v)
      PROVE  u \in issued'
  <2>1. index'[u] = <<>> \/ index[u] # <<>>
    BY <1>9 DEF WipeIndex, TypeOK
  <2> QED
    BY <1>1, <1>9, <2>1 DEF WipeIndex
<1>10. CASE Lock \/ Tick \/ Exit
  BY <1>1, <1>10 DEF Lock, Tick, Exit, Closed, disk
<1>11. CASE Start \/ Elapse \/ EvictSecrets \/ WipeRegistry \/ UNCHANGED vars
  BY <1>1, <1>11, LoadTypes
  DEF Start, Elapse, EvictSecrets, WipeRegistry, disk, vars
<1> QED
  BY <1>4, <1>5, <1>6, <1>7, <1>8, <1>9, <1>10, <1>11 DEF Next

(* A secret handed out is one minted for the vault, and none is unminted.  *)
LEMMA MintedBySteps ==
  ASSUME TypeOK, SecretsMinted, NEW v \in Vaults, LoadOrCreate(v)
  PROVE  /\ secret'[v] \in 1..minted'[v]
         /\ minted'[v] \in {minted[v], minted[v] + 1}
         /\ \A u \in Vaults : /\ minted[u] <= minted'[u]
                              /\ secret'[u] <= minted'[u]
         /\ \A u \in Vaults \ {v} : minted'[u] = minted[u]
<1>1. CASE secret[v] # 0
  <2>1. UNCHANGED <<secret, minted>>
    BY <1>1 DEF LoadOrCreate
  <2> QED
    BY <1>1, <2>1 DEF TypeOK, SecretsMinted
<1>2. CASE secret[v] = 0
  <2>1. /\ minted' = [minted EXCEPT ![v] = minted[v] + 1]
        /\ secret' = [secret EXCEPT ![v] = minted[v] + 1]
    BY <1>2 DEF LoadOrCreate, TypeOK
  <2>2. secret \in [Vaults -> Nat] /\ minted \in [Vaults -> Nat]
    BY DEF TypeOK
  <2>3. secret'[v] = minted'[v] /\ minted'[v] = minted[v] + 1
    BY <2>1, <2>2
  <2>4. \A u \in Vaults \ {v} :
           minted'[u] = minted[u] /\ secret'[u] = secret[u]
    BY <2>1, <2>2
  <2>5. \A u \in Vaults : secret[u] <= minted[u]
    BY DEF SecretsMinted
  <2> QED
    BY <2>2, <2>3, <2>4, <2>5
<1> QED
  BY <1>1, <1>2

LEMMA SecretsStep == TypeOK /\ SecretsMinted /\ [Next]_vars => SecretsMinted'
<1> SUFFICES ASSUME TypeOK, SecretsMinted, [Next]_vars, NEW u \in Vaults
             PROVE  /\ secret'[u] <= minted'[u]
                    /\ \A i \in DOMAIN index'[u] :
                          index'[u][i].secret \in 1..minted'[u]
  BY DEF SecretsMinted
<1> USE VaultAssumption
<1> DEFINE Goal == /\ secret'[u] <= minted'[u]
                   /\ \A i \in DOMAIN index'[u] :
                         index'[u][i].secret \in 1..minted'[u]
<1>1. ASSUME index'[u] \in {index[u], <<>>}, minted'[u] \in Nat,
             minted[u] <= minted'[u], secret'[u] <= minted'[u]
      PROVE  Goal
  <2>1. minted[u] \in Nat
    BY DEF TypeOK
  <2>2. \A i \in DOMAIN index[u] : index[u][i].secret \in 1..minted[u]
    BY DEF SecretsMinted
  <2> QED
    BY <1>1, <2>1, <2>2
<1>2. CASE UNCHANGED minted /\ secret'[u] \in {secret[u], 0}
                            /\ index'[u] \in {index[u], <<>>}
  <2>1. minted'[u] \in Nat /\ secret[u] <= minted[u] /\ secret[u] \in Nat
    BY <1>2 DEF TypeOK, SecretsMinted
  <2> QED
    BY <1>1, <1>2, <2>1
<1>3. ASSUME NEW v \in Vaults, LoadOrCreate(v), UNCHANGED index
      PROVE  Goal
  <2>1. minted' \in [Vaults -> Nat]
    BY <1>3, SecretType
  <2>2. minted[u] <= minted'[u] /\ secret'[u] <= minted'[u]
    BY <1>3, MintedBySteps
  <2> QED
    BY <1>1, <1>3, <2>1, <2>2
<1>4. CASE \E v \in Vaults, p \in Policies : Create(v, p)
  BY <1>3, <1>4 DEF Create
<1>5. CASE \E v \in Vaults, c \in Contexts : Unlock(v, c)
  BY <1>3, <1>5 DEF Unlock
<1>6. ASSUME NEW v \in Vaults, AddFile(v)
      PROVE  Goal
  <2>1. LoadOrCreate(v)
    BY <1>6 DEF AddFile
  <2>2. minted' \in [Vaults -> Nat]
    BY <2>1, SecretType
  <2>3. minted[u] <= minted'[u] /\ secret'[u] <= minted'[u]
    BY <2>1, MintedBySteps
  <2>4. CASE index'[u] \in {index[u], <<>>}
    BY <1>1, <2>2, <2>3, <2>4
  <2>5. CASE u = v /\ index' = [index EXCEPT ![v] =
                                   Append(LoadIndex(v), DerivedKey(v))]
    <3> DEFINE idx == LoadIndex(v)
               key == DerivedKey(v)
    <3>1. idx \in Seq(Key) /\ key \in Key
      BY <1>6, <2>1, LoadTypes, KeyType DEF AddFile
    <3>2. key.secret \in 1..minted'[v]
      BY <2>1, MintedBySteps DEF DerivedKey
    <3>3. \A i \in DOMAIN idx : idx[i].secret \in 1..minted[v]
      BY LoadIsDiskOrNothing DEF SecretsMinted
    <3>4. index'[u] = Append(idx, key)
      BY <2>5 DEF TypeOK
    <3>5. minted[v] \in Nat /\ minted'[v] \in Nat /\ minted[v] <= minted'[v]
      BY <2>2, <2>3, <2>5 DEF TypeOK
    <3> HIDE DEF idx, key
    <3>6. \A i \in DOMAIN Append(idx, key) :
             \/ Append(idx, key)[i] = key
             \/ i \in DOMAIN idx /\ Append(idx, key)[i] = idx[i]
      BY <3>1, AppendProperties, LenProperties
    <3>7. \A i \in DOMAIN idx : idx[i].secret \in 1..minted'[v]
      BY <3>3, <3>5
    <3>8. \A i \in DOMAIN Append(idx, key) :
             Append(idx, key)[i].secret \in 1..minted'[v]
      BY <3>2, <3>6, <3>7
    <3> QED
      BY <2>3, <2>5, <3>4, <3>8
  <2>6. index'[u] = index[u] \/ u = v
    BY <1>6 DEF AddFile, SaveIndexFails, TypeOK
  <2>7. \/ index' = [index EXCEPT ![v] = Append(LoadIndex(v), DerivedKey(v))]
        \/ index' = index
        \/ index' = [index EXCEPT ![v] = <<>>]
    BY <1>6 DEF AddFile, SaveIndexFails
  <2> QED
    BY <2>4, <2>5, <2>6, <2>7 DEF TypeOK
<1>7. ASSUME NEW v \in Vaults, Delete(v)
      PROVE  Goal
  <2>1. secret' = secret \/ secret' = [secret EXCEPT ![v] = 0]
    BY <1>7 DEF Delete
  <2>2. index' = index \/ index' = [index EXCEPT ![v] = <<>>]
    BY <1>7 DEF Delete
  <2>3. secret'[u] \in {secret[u], 0} /\ index'[u] \in {index[u], <<>>}
    BY <2>1, <2>2 DEF TypeOK
  <2> QED
    BY <1>2, <1>7, <2>3 DEF Delete
<1>8. ASSUME NEW v \in Vaults, WipeIndex(v)
      PROVE  Goal
  <2>1. index'[u] \in {index[u], <<>>}
    BY <1>8 DEF WipeIndex, TypeOK
  <2> QED
    BY <1>2, <1>8, <2>1 DEF WipeIndex
<1>9. CASE EvictSecrets
  BY <1>2, <1>9 DEF EvictSecrets
<1>10. CASE \/ \E v \in Vaults, p \in Policies : PolicyUpdate(v, p)
            \/ Lock \/ Tick \/ Exit \/ Start \/ Elapse \/ WipeRegistry
            \/ UNCHANGED vars
  BY <1>2, <1>10
  DEF PolicyUpdate, Lock, Tick, Exit, Start, Elapse, WipeRegistry, disk, vars
<1> QED
  BY <1>4, <1>5, <1>6, <1>7, <1>8, <1>9, <1>10 DEF Next

-----------------------------------------------------------------------------
(* What can be read stays readable.                                        *)

ReadableIndex(v) ==
  registry[v] # NoPolicy =>
    \A i \in DOMAIN LoadIndex(v) :
       /\ LoadIndex(v)[i].policy = registry[v]
       /\ minted[v] <= 1 => LoadIndex(v)[i].secret = minted[v]

(* An index that is kept or lost stays readable, under a policy that is    *)
(* kept or lost, when secrets are minted: one who has files had a secret.  *)
LEMMA ReadableIsKept ==
  ASSUME TypeOK, SecretsMinted, NeverOrphaned, NEW v \in Vaults,
         registry'[v] \in {registry[v], NoPolicy},
         index'[v] \in {index[v], <<>>},
         minted'[v] \in {minted[v], minted[v] + 1}
  PROVE  ReadableIndex(v)'
<1>1. LoadIndex(v)' \in {LoadIndex(v), <<>>}
  <2>1. <<>> \in Seq(Key) /\ Len(<<>>) = 0 /\ IndexMax \in Nat
    BY EmptySeq, VaultAssumption
  <2> QED
    BY <2>1 DEF LoadIndex
<1>2. SUFFICES ASSUME registry[v] # NoPolicy, NEW i \in DOMAIN LoadIndex(v)
               PROVE  /\ LoadIndex(v)[i].policy = registry[v]
                      /\ minted'[v] <= 1 =>
                           LoadIndex(v)[i].secret = minted'[v]
  BY <1>1 DEF ReadableIndex
<1>3. LoadIndex(v)[i].secret \in 1..minted[v]
  BY <1>2, LoadIsDiskOrNothing DEF SecretsMinted
<1>4. minted[v] \in Nat
  BY DEF TypeOK
<1>5. minted'[v] <= 1 => minted'[v] = minted[v]
  BY <1>3, <1>4
<1> QED
  BY <1>2, <1>5 DEF NeverOrphaned

LEMMA OrphanedStep ==
  /\ TypeOK /\ IssuedOnce /\ SecretsMinted /\ NeverOrphaned
  /\ [Next]_vars
  => NeverOrphaned'
<1> SUFFICES ASSUME TypeOK, IssuedOnce, SecretsMinted, NeverOrphaned,
                    [Next]_vars, NEW u \in Vaults
             PROVE  ReadableIndex(u)'
  BY DEF NeverOrphaned, ReadableIndex
<1> USE VaultAssumption
<1>1. CASE LoadIndex(u)' = <<>>
  BY <1>1 DEF ReadableIndex
<1>2. ASSUME NEW v \in Vaults, LoadOrCreate(v)
      PROVE  minted'[u] \in {minted[u], minted[u] + 1}
  BY <1>2, MintedBySteps
<1>3. ASSUME NEW v \in Vaults, NEW p,
             registry' \in {[LoadRegistry EXCEPT ![v] = p], registry, Torn},
             u # v \/ p = NoPolicy
      PROVE  registry'[u] \in {registry[u], NoPolicy}
  BY <1>3, LoadTypes
<1>4. ASSUME NEW v \in Vaults, NEW p \in Policies, Create(v, p)
      PROVE  ReadableIndex(u)'
  <2>1. CASE u = v
    <3>1. index[u] = <<>>
      BY <1>4, <2>1 DEF Create, IssuedOnce
    <3>2. LoadIndex(u)' = <<>>
      BY <1>4, <3>1 DEF Create, LoadIndex
    <3> QED
      BY <1>1, <3>2
  <2>2. CASE u # v
    <3>1. registry'[u] \in {registry[u], NoPolicy}
      BY <1>3, <1>4, <2>2 DEF Create, SaveRegistryFails
    <3> QED
      BY <1>2, <1>4, <3>1, ReadableIsKept DEF Create
  <2> QED
    BY <2>1, <2>2
<1>5. ASSUME NEW v \in Vaults, NEW p \in Policies, PolicyUpdate(v, p)
      PROVE  ReadableIndex(u)'
  <2>1. CASE u = v
    <3>1. LoadIndex(u)' = <<>>
      BY <1>5, <2>1 DEF PolicyUpdate, LoadIndex
    <3> QED
      BY <1>1, <3>1
  <2>2. CASE u # v
    <3>1. registry'[u] \in {registry[u], NoPolicy}
      BY <1>3, <1>5, <2>2 DEF PolicyUpdate, SaveRegistryFails
    <3> QED
      BY <1>5, <3>1, ReadableIsKept DEF PolicyUpdate
  <2> QED
    BY <2>1, <2>2
<1>6. ASSUME NEW v \in Vaults, NEW c \in Contexts, Unlock(v, c)
      PROVE  ReadableIndex(u)'
  BY <1>2, <1>6, ReadableIsKept DEF Unlock
<1>7. ASSUME NEW v \in Vaults, AddFile(v)
      PROVE  ReadableIndex(u)'
  <2>1. UNCHANGED registry /\ LoadOrCreate(v) /\ Registered(v)
    BY <1>7 DEF AddFile
  <2>2. minted'[u] \in {minted[u], minted[u] + 1}
    BY <1>2, <2>1
  <2>3. CASE index'[u] \in {index[u], <<>>}
    BY <2>1, <2>2, <2>3, ReadableIsKept
  <2>4. CASE u = v /\ index' = [index EXCEPT ![v] =
                                   Append(LoadIndex(v), DerivedKey(v))]
    <3> DEFINE idx == LoadIndex(v)
               key == DerivedKey(v)
    <3>1. idx \in Seq(Key) /\ key \in Key
      BY <2>1, LoadTypes, KeyType
    <3>2. key.secret \in 1..minted'[v] /\ key.policy = registry[v]
      BY <2>1, MintedBySteps, LoadTypes DEF DerivedKey, Registered
    <3>3. \A i \in DOMAIN idx : /\ idx[i].secret \in 1..minted[v]
                               /\ idx[i].policy = registry[v]
      BY <2>1, LoadIsDiskOrNothing, LoadTypes
      DEF SecretsMinted, NeverOrphaned, Registered
    <3>4. index'[v] = Append(idx, key)
      BY <2>4 DEF TypeOK
    <3>5. LoadIndex(v)' \in {Append(idx, key), <<>>}
      BY <3>4 DEF LoadIndex
    <3>6. /\ minted[v] \in Nat /\ minted'[v] \in Nat
          /\ minted[v] <= minted'[v]
      BY <2>2, <2>4 DEF TypeOK
    <3> HIDE DEF idx, key
    <3>7. \A i \in DOMAIN Append(idx, key) :
             \/ Append(idx, key)[i] = key
             \/ i \in DOMAIN idx /\ Append(idx, key)[i] = idx[i]
      BY <3>1, AppendProperties, LenProperties
    <3>8. \A i \in DOMAIN Append(idx, key) :
             /\ Append(idx, key)[i].policy = registry[v]
             /\ Append(idx, key)[i].secret \in 1..minted'[v]
      BY <3>2, <3>3, <3>6, <3>7
    <3>9. \A i \in DOMAIN Append(idx, key) :
             minted'[v] <= 1 => Append(idx, key)[i].secret = minted'[v]
      BY <3>6, <3>8
    <3> QED
      BY <2>1, <2>4, <3>5, <3>8, <3>9 DEF ReadableIndex
  <2>5. \/ index' = [index EXCEPT ![v] = Append(LoadIndex(v), DerivedKey(v))]
        \/ index' = index
        \/ index' = [index EXCEPT ![v] = <<>>]
    BY <1>7 DEF AddFile, SaveIndexFails
  <2> QED
    BY <2>3, <2>4, <2>5 DEF TypeOK
<1>8. ASSUME NEW v \in Vaults, Delete(v)
      PROVE  ReadableIndex(u)'
  <2>1. registry'[u] \in {registry[u], NoPolicy}
    BY <1>3, <1>8 DEF Delete, SaveRegistryFails
  <2>2. index' = index \/ index' = [index EXCEPT ![v] = <<>>]
    BY <1>8 DEF Delete
  <2>3. index'[u] \in {index[u], <<>>}
    BY <2>2 DEF TypeOK
  <2> QED
    BY <1>8, <2>1, <2>3, ReadableIsKept DEF Delete
<1>9. ASSUME NEW v \in Vaults, WipeIndex(v)
      PROVE  ReadableIndex(u)'
  <2>1. index'[u] \in {index[u], <<>>}
    BY <1>9 DEF WipeIndex, TypeOK
  <2> QED
    BY <1>9, <2>1, ReadableIsKept DEF WipeIndex
<1>10. CASE WipeRegistry
  BY <1>10, LoadTypes, ReadableIsKept DEF WipeRegistry
<1>11. CASE Lock \/ Tick \/ Exit \/ Start \/ Elapse \/ EvictSecrets
            \/ UNCHANGED vars
  BY <1>11, ReadableIsKept
  DEF Lock, Tick, Exit, Start, Elapse, EvictSecrets, disk, vars
<1> QED
  BY <1>4, <1>5, <1>6, <1>7, <1>8, <1>9, <1>10, <1>11 DEF Next

-----------------------------------------------------------------------------
LEMMA Invariant == Spec => []Inv
<1>1. Inv /\ [Next]_vars => Inv'
  BY TypeStep, OneOpenStep, GrantStep, IssuedStep, SecretsStep, OrphanedStep
  DEF Inv
<1> QED
  BY InitInv, <1>1, PTL DEF Spec

(* Every variable of the daemon, of its files and of the Keychain keeps    *)
(* its type.                                                               *)
THEOREM TypeInvariant == Spec => []TypeOK
<1>1. Inv => TypeOK
  BY DEF Inv
<1> QED
  BY Invariant, <1>1, PTL

(* At most one vault is mounted, the open one, and it is open only while a *)
(* relock is pending: whatever order commands, relocks, crashes and PURGE  *)
(* come in.                                                                *)
THEOREM OneVaultAtATime == Spec => []OneOpen
<1>1. Inv => OneOpen
  BY DEF Inv
<1> QED
  BY Invariant, <1>1, PTL

(* The open vault is open under the policy it has now.                     *)
THEOREM PolicyOfTheOpening == Spec => []OpenUnderGrant
<1>1. Inv => OpenUnderGrant
  BY DEF Inv
<1> QED
  BY Invariant, <1>1, PTL

(* A policy is never replaced over content that was sealed under it, and   *)
(* no file is sealed under a key its vault will not derive again, unless   *)
(* the secret was taken away.                                              *)
THEOREM ContentIsNeverOrphaned == Spec => []NeverOrphaned
<1>1. Inv => NeverOrphaned
  BY DEF Inv
<1> QED
  BY Invariant, <1>1, PTL

(* What PURGE evicted stays closed: no step opens a vault with a file that *)
(* was sealed under another secret than the Keychain holds after it.       *)
THEOREM EvictionIsFinal == Spec => EvictedNeverOpens
<1>1. TypeOK /\ OneOpen /\ [Next]_vars =>
        [\A v \in Vaults : open # v /\ open' = v =>
           \A i \in DOMAIN LoadIndex(v) :
              LoadIndex(v)[i].secret = secret'[v]]_vars
  <2> SUFFICES ASSUME TypeOK, OneOpen, Next, NEW v \in Vaults,
                      open # v, open' = v, NEW i \in DOMAIN LoadIndex(v)
               PROVE  LoadIndex(v)[i].secret = secret'[v]
    BY DEF vars
  <2>1. PICK u \in Vaults, c \in Contexts : Unlock(u, c)
    BY VaultAssumption
    DEF Next, Create, PolicyUpdate, AddFile, Delete, WipeIndex, Lock, Tick,
        Exit, Start, Elapse, EvictSecrets, WipeRegistry, Closed, disk
  <2>2. u = v /\ OpenAll(v)
    BY <2>1 DEF Unlock
  <2> QED
    BY <2>2 DEF OpenAll, DerivedKey
<1>2. Inv => TypeOK /\ OneOpen
  BY DEF Inv
<1> QED
  BY <1>1, <1>2, Invariant, PTL DEF Spec, EvictedNeverOpens

-----------------------------------------------------------------------------
(* Induction, over numbers and over rules.                                 *)

(* A set of numbers that is not empty has a least member.                  *)
LEMMA LeastNumber ==
  ASSUME NEW T \in SUBSET Nat, T # {}
  PROVE  \E m \in T : \A k \in T : m <= k
<1> DEFINE R == OpToRel(<, Nat)
<1>1. IsWellFoundedOn(R, Nat)
  BY NatLessThanWellFounded
<1>2. \A x, y \in Nat : <<x, y>> \in R <=> x < y
  BY DEF OpToRel
<1> HIDE DEF R
<1>3. PICK m \in T : \A k \in T : ~ (<<k, m>> \in R)
  BY <1>1, WFMin
<1>4. \A k \in T : ~(k < m) /\ k \in Nat /\ m \in Nat
  BY <1>2, <1>3
<1> QED
  BY <1>4

(* A set that holds 0 and every number after one it holds has them all.    *)
LEMMA Counting ==
  ASSUME NEW S \in SUBSET Nat, 0 \in S, \A n \in S : n + 1 \in S
  PROVE  S = Nat
<1> SUFFICES ASSUME Nat \ S # {}
             PROVE  FALSE
  OBVIOUS
<1>1. PICK m \in Nat \ S : \A k \in Nat \ S : m <= k
  BY LeastNumber
<1>2. m # 0 /\ m \in Nat
  OBVIOUS
<1>3. m - 1 \in Nat /\ m - 1 < m /\ (m - 1) + 1 = m
  BY <1>2
<1>4. m - 1 \in S
  BY <1>1, <1>3
<1> QED
  BY <1>3, <1>4

(* Rules are finite trees: what passes from the parts to the whole is true *)
(* of all.                                                                 *)
LEMMA RuleInduction ==
  ASSUME NEW S \in SUBSET Rules,
         \A e \in Rules : Parts(e) \subseteq S => e \in S
  PROVE  S = Rules
<1> SUFFICES ASSUME Rules \ S # {}
             PROVE  FALSE
  OBVIOUS
<1> DEFINE T == {Depth[e] : e \in Rules \ S}
<1>1. T \in SUBSET Nat /\ T # {}
  BY RulesAssumption
<1>2. PICK n \in T : \A k \in T : n <= k
  BY <1>1, LeastNumber
<1>3. PICK e \in Rules \ S : Depth[e] = n
  OBVIOUS
<1>4. PICK q \in Parts(e) : q \notin S
  BY <1>3
<1>5. q \in Rules /\ Depth[q] < Depth[e]
  BY <1>3, <1>4, RulesAssumption
<1>6. Depth[q] \in T /\ Depth[q] \in Nat /\ n \in Nat
  BY <1>1, <1>4, <1>5, RulesAssumption
<1> QED
  BY <1>2, <1>3, <1>5, <1>6

(* A definition by recursion on rules, which gives a rule a value made of  *)
(* the values of its parts, defines a function.                            *)
LEMMA RecursionOnRules ==
  ASSUME NEW V,
         NEW Step \in [[Rules -> V] -> [Rules -> V]],
         [Rules -> V] # {},
         \A f, g \in [Rules -> V], e \in Rules :
           (\A q \in Parts(e) : f[q] = g[q]) => Step[f][e] = Step[g][e]
  PROVE  \E f \in [Rules -> V] : Step[f] = f
<1> DEFINE Good(n) == {f \in [Rules -> V] :
                         \A e \in Rules : Depth[e] < n => Step[f][e] = f[e]}
<1>1. \A n \in Nat : Good(n) # {}
  <2> DEFINE S == {n \in Nat : Good(n) # {}}
  <2>1. 0 \in S
    <3>1. PICK f0 \in [Rules -> V] : TRUE
      OBVIOUS
    <3>2. \A e \in Rules : ~ (Depth[e] < 0)
      BY RulesAssumption
    <3> QED
      BY <3>1, <3>2
  <2>2. \A n \in S : n + 1 \in S
    <3> TAKE n \in S
    <3>1. PICK f \in Good(n) : TRUE
      OBVIOUS
    <3>2. f \in [Rules -> V] /\ Step[f] \in [Rules -> V]
      OBVIOUS
    <3>3. ASSUME NEW e \in Rules, Depth[e] < n + 1
          PROVE  Step[Step[f]][e] = Step[f][e]
      <4>1. \A q \in Parts(e) : q \in Rules /\ Depth[q] < Depth[e]
        BY RulesAssumption
      <4>2. \A q \in Parts(e) : Depth[q] < n
        BY <3>3, <4>1, RulesAssumption
      <4>3. \A q \in Parts(e) : Step[f][q] = f[q]
        BY <3>1, <4>1, <4>2
      <4> QED
        BY <3>2, <4>3
    <3>4. Step[f] \in Good(n + 1)
      BY <3>2, <3>3
    <3> QED
      BY <3>4
  <2> HIDE DEF S
  <2>3. S = Nat
    <3>1. S \in SUBSET Nat
      BY DEF S
    <3> QED
      BY <2>1, <2>2, <3>1, Counting
  <2> QED
    BY <2>3 DEF S
<1>2. ASSUME NEW n \in Nat, NEW m \in Nat, NEW f \in Good(n), NEW g \in Good(m)
      PROVE  \A e \in Rules : Depth[e] < n /\ Depth[e] < m => f[e] = g[e]
  <2> DEFINE S == {e \in Rules : Depth[e] < n /\ Depth[e] < m => f[e] = g[e]}
  <2>1. ASSUME NEW e \in Rules, Parts(e) \subseteq S,
               Depth[e] < n, Depth[e] < m
        PROVE  f[e] = g[e]
    <3>1. \A q \in Parts(e) : q \in Rules /\ Depth[q] < Depth[e]
      BY RulesAssumption
    <3>2. \A q \in Parts(e) : Depth[q] < n /\ Depth[q] < m
      BY <2>1, <3>1, RulesAssumption
    <3>3. \A q \in Parts(e) : f[q] = g[q]
      BY <2>1, <3>2
    <3>4. f \in [Rules -> V] /\ g \in [Rules -> V]
      OBVIOUS
    <3>5. Step[f][e] = Step[g][e]
      BY <3>3, <3>4
    <3> QED
      BY <2>1, <3>5
  <2>2. \A e \in Rules : Parts(e) \subseteq S => e \in S
    BY <2>1
  <2> HIDE DEF S
  <2>3. S = Rules
    <3>1. S \in SUBSET Rules
      BY DEF S
    <3> QED
      BY <2>2, <3>1, RuleInduction
  <2> QED
    BY <2>3 DEF S
<1> DEFINE F == [e \in Rules |-> (CHOOSE f \in Good(Depth[e] + 1) : TRUE)[e]]
<1>3. \A e \in Rules : \E f \in Good(Depth[e] + 1) : F[e] = f[e]
  <2> TAKE e \in Rules
  <2>1. Depth[e] + 1 \in Nat
    BY RulesAssumption
  <2>2. Good(Depth[e] + 1) # {}
    BY <1>1, <2>1
  <2> HIDE DEF Good
  <2> QED
    BY <2>2
<1>4. F \in [Rules -> V]
  <2>1. \A e \in Rules : F[e] \in V
    BY <1>3
  <2> HIDE DEF Good
  <2> QED
    BY <2>1
<1> HIDE DEF F
<1>5. ASSUME NEW e \in Rules
      PROVE  Step[F][e] = F[e]
  <2>1. PICK f \in Good(Depth[e] + 1) : F[e] = f[e]
    BY <1>3
  <2>2. \A q \in Parts(e) : F[q] = f[q]
    <3> TAKE q \in Parts(e)
    <3>1. q \in Rules /\ Depth[q] < Depth[e]
      BY RulesAssumption
    <3>2. PICK g \in Good(Depth[q] + 1) : F[q] = g[q]
      BY <1>3, <3>1
    <3>3. /\ Depth[q] + 1 \in Nat /\ Depth[e] + 1 \in Nat
          /\ Depth[q] < Depth[q] + 1 /\ Depth[q] < Depth[e] + 1
      BY <3>1, RulesAssumption
    <3>4. f[q] = g[q]
      <4> HIDE DEF Good
      <4> QED
        BY <1>2, <3>1, <3>3
    <3> QED
      BY <3>2, <3>4
  <2>3. f \in [Rules -> V] /\ Depth[e] < Depth[e] + 1
    BY RulesAssumption
  <2>4. Step[F][e] = Step[f][e]
    BY <1>4, <2>2, <2>3
  <2>5. Step[f][e] = f[e]
    BY <2>3
  <2> QED
    BY <2>1, <2>4, <2>5
<1>6. Step[F] = F
  <2>1. Step[F] \in [Rules -> V]
    BY <1>4
  <2> QED
    BY <1>4, <1>5, <2>1
<1> QED
  BY <1>4, <1>6

(* What a rule is made of.                                                 *)
LEMMA RuleParts ==
  \A e \in Rules :
    /\ \/ e.node = "pred" /\ Parts(e) = {}
       \/ e.node = "not"  /\ Parts(e) = {e.of}
       \/ e.node \in {"and", "or"} /\ Parts(e) = {e.left, e.right}
    /\ Parts(e) \subseteq Rules
BY RulesAssumption DEF IsRule, Parts

\* What eval_expr returns.
Values == {"true", "false", "error"}

(* A predicate is true, false or an error, whatever the types in it.       *)
LEMMA PredicateHasValue ==
  ASSUME NEW e \in Rules, e.node = "pred", NEW c
  PROVE  EvalPredicate(e, c) \in Values
<1>1. e.var \in NumericVars \cup WordVars
  BY RulesAssumption DEF IsRule
<1>2. \A b : Truth(b) \in Values
  BY DEF Truth, Values
<1>3. \A op, x, val : EvalNumeric(op, x, val) \in Values
  BY <1>2 DEF EvalNumeric, Values
<1>4. \A op, x, val : EvalWord(op, x, val) \in Values
  BY <1>2 DEF EvalWord, Values
<1>5. CASE e.var \notin DOMAIN c
  BY <1>5 DEF EvalPredicate, Values
<1>6. CASE e.var \in DOMAIN c /\ e.var \in NumericVars
  <2>1. e.var \notin WordVars
    BY <1>6 DEF NumericVars, WordVars
  <2>2. EvalPredicate(e, c) = EvalNumeric(e.op, c[e.var], e.val)
    BY <1>6, <2>1 DEF EvalPredicate
  <2> QED
    BY <1>3, <2>2
<1>7. CASE e.var \in DOMAIN c /\ e.var \in WordVars
  <2>1. e.var \notin NumericVars
    BY <1>7 DEF NumericVars, WordVars
  <2>2. EvalPredicate(e, c) = EvalWord(e.op, c[e.var], e.val)
    BY <1>7, <2>1 DEF EvalPredicate
  <2> QED
    BY <1>4, <2>2
<1> QED
  BY <1>1, <1>5, <1>6, <1>7

(* What the evaluator computes: eval_expr's equations.                     *)
LEMMA EvalExprEquations ==
  ASSUME NEW c
  PROVE  \A e \in Rules :
           /\ e.node = "pred" => EvalExpr(e, c) = EvalPredicate(e, c)
           /\ e.node = "not"  => EvalExpr(e, c) = Negated(EvalExpr(e.of, c))
           /\ e.node \in {"and", "or"} =>
                EvalExpr(e, c) = Combined(e.node, EvalExpr(e.left, c),
                                                  EvalExpr(e.right, c))
<1> DEFINE At(f, r) == IF r.node = "pred" THEN EvalPredicate(r, c)
                       ELSE IF r.node = "not" THEN Negated(f[r.of])
                       ELSE Combined(r.node, f[r.left], f[r.right])
           Step == [f \in [Rules -> Values] |-> [r \in Rules |-> At(f, r)]]
           v == CHOOSE f : f = [r \in Rules |-> At(f, r)]
<1>1. \A r \in Rules : \A f : At(f, r) \in Values
  <2> TAKE r \in Rules
  <2>1. r.node = "pred" => EvalPredicate(r, c) \in Values
    BY PredicateHasValue
  <2>2. \A x : Negated(x) \in Values
    BY DEF Negated, Truth, Values
  <2>3. \A op \in {"and", "or"} : \A x, y : Combined(op, x, y) \in Values
    BY DEF Combined, Truth, Values
  <2>4. r.node = "pred" \/ r.node \in {"not", "and", "or"}
    BY RulesAssumption DEF IsRule
  <2> QED
    BY <2>1, <2>2, <2>3, <2>4
<1>2. ASSUME NEW f, NEW g, NEW e \in Rules, \A q \in Parts(e) : f[q] = g[q]
      PROVE  At(f, e) = At(g, e)
  <2>1. e.node = "pred" \/ e.node \in {"not", "and", "or"}
    BY RulesAssumption DEF IsRule
  <2> QED
    BY <1>2, <2>1 DEF Parts
<1> HIDE DEF At
<1>3. \E f : f = [r \in Rules |-> At(f, r)]
  <2>1. Step \in [[Rules -> Values] -> [Rules -> Values]]
    BY <1>1
  <2>2. [r \in Rules |-> "true"] \in [Rules -> Values]
    BY DEF Values
  <2>3. \A f, g \in [Rules -> Values], e \in Rules :
          (\A q \in Parts(e) : f[q] = g[q]) => Step[f][e] = Step[g][e]
    BY <1>2
  <2> HIDE DEF Step
  <2>4. PICK f \in [Rules -> Values] : Step[f] = f
    BY <2>1, <2>2, <2>3, RecursionOnRules
  <2> QED
    BY <2>4 DEF Step
<1>4. v = [r \in Rules |-> At(v, r)]
  BY <1>3
<1>5. \A e : EvalExpr(e, c) = v[e]
  BY DEF EvalExpr, At
<1> HIDE DEF v
<1>6. \A e \in Rules : v[e] = At(v, e)
  BY <1>4
<1> TAKE e \in Rules
<1>7. v[e] = At(v, e)
  BY <1>6
<1> QED
  BY <1>5, <1>7 DEF At

(* The predicates of a rule.                                               *)
LEMMA LeavesEquations ==
  \A e \in Rules :
    /\ Leaves[e] \in SUBSET Rules
    /\ e.node = "pred" => Leaves[e] = {e}
    /\ e.node = "not"  => Leaves[e] = Leaves[e.of]
    /\ e.node \in {"and", "or"} =>
         Leaves[e] = Leaves[e.left] \cup Leaves[e.right]
<1> DEFINE At(f, r) == IF r.node = "pred" THEN {r}
                       ELSE IF r.node = "not" THEN f[r.of]
                       ELSE f[r.left] \cup f[r.right]
           V == SUBSET Rules
           Step == [f \in [Rules -> V] |-> [r \in Rules |-> At(f, r)]]
<1>1. \A r \in Rules : \A f \in [Rules -> V] : At(f, r) \in V
  <2> TAKE r \in Rules
  <2> TAKE f \in [Rules -> V]
  <2>1. r.node = "pred" \/ r.node \in {"not", "and", "or"}
    BY RulesAssumption DEF IsRule
  <2>2. /\ r.node = "not" => r.of \in Rules
        /\ r.node \in {"and", "or"} => r.left \in Rules /\ r.right \in Rules
    BY RulesAssumption DEF Parts
  <2> QED
    BY <2>1, <2>2
<1>2. ASSUME NEW f, NEW g, NEW e \in Rules, \A q \in Parts(e) : f[q] = g[q]
      PROVE  At(f, e) = At(g, e)
  <2>1. e.node = "pred" \/ e.node \in {"not", "and", "or"}
    BY RulesAssumption DEF IsRule
  <2> QED
    BY <1>2, <2>1 DEF Parts
<1> HIDE DEF At
<1>3. \E f : f = [r \in Rules |-> At(f, r)]
  <2>1. Step \in [[Rules -> V] -> [Rules -> V]]
    BY <1>1
  <2>2. [r \in Rules |-> {}] \in [Rules -> V]
    OBVIOUS
  <2>3. \A f, g \in [Rules -> V], e \in Rules :
          (\A q \in Parts(e) : f[q] = g[q]) => Step[f][e] = Step[g][e]
    BY <1>2
  <2> HIDE DEF Step, V
  <2>4. PICK f \in [Rules -> V] : Step[f] = f
    BY <2>1, <2>2, <2>3, RecursionOnRules
  <2> QED
    BY <2>4 DEF Step
<1>4. Leaves = [r \in Rules |-> At(Leaves, r)]
  BY <1>3 DEF Leaves, At
<1>5. \A e \in Rules : Leaves[e] = At(Leaves, e)
  BY <1>4
<1>6. \A e \in Rules : Leaves[e] \in V
  <2> DEFINE S == {e \in Rules : Leaves[e] \in V}
  <2>1. ASSUME NEW e \in Rules, Parts(e) \subseteq S
        PROVE  e \in S
    <3>1. e.node = "pred" \/ e.node \in {"not", "and", "or"}
      BY RulesAssumption DEF IsRule
    <3> QED
      BY <1>5, <2>1, <3>1 DEF Parts, At
  <2> HIDE DEF S
  <2>2. S = Rules
    <3>1. S \in SUBSET Rules
      BY DEF S
    <3> QED
      BY <2>1, <3>1, RuleInduction
  <2> QED
    BY <2>2 DEF S
<1> QED
  BY <1>5, <1>6 DEF At

(* The contexts in which a rule is true, by classical logic.               *)
LEMMA HoldsEquations ==
  ASSUME NEW C
  PROVE  \A e \in Rules :
           /\ HoldsIn(C)[e] \in SUBSET C
           /\ e.node = "pred" =>
                HoldsIn(C)[e] = {c \in C : EvalPredicate(e, c) = "true"}
           /\ e.node = "not" => HoldsIn(C)[e] = C \ HoldsIn(C)[e.of]
           /\ e.node = "and" =>
                HoldsIn(C)[e] = HoldsIn(C)[e.left] \cap HoldsIn(C)[e.right]
           /\ e.node = "or"  =>
                HoldsIn(C)[e] = HoldsIn(C)[e.left] \cup HoldsIn(C)[e.right]
<1> DEFINE Of(r) == {c \in C : EvalPredicate(r, c) = "true"}
           At(f, r) == IF r.node = "pred" THEN Of(r)
                       ELSE IF r.node = "not" THEN C \ f[r.of]
                       ELSE IF r.node = "and" THEN f[r.left] \cap f[r.right]
                       ELSE f[r.left] \cup f[r.right]
           V == SUBSET C
           Step == [f \in [Rules -> V] |-> [r \in Rules |-> At(f, r)]]
           h == CHOOSE f : f = [r \in Rules |-> At(f, r)]
<1>a. HoldsIn(C) = h
  BY DEF HoldsIn
<1>b. \A r : Of(r) \in V
  OBVIOUS
<1> HIDE DEF Of
<1>1. \A r \in Rules : \A f \in [Rules -> V] : At(f, r) \in V
  <2> TAKE r \in Rules
  <2> TAKE f \in [Rules -> V]
  <2>1. /\ r.node = "not" => r.of \in Rules
        /\ r.node \in {"and", "or"} => r.left \in Rules /\ r.right \in Rules
    BY RuleParts
  <2> QED
    BY <1>b, <2>1, RuleParts
<1>2. ASSUME NEW f, NEW g, NEW e \in Rules, \A q \in Parts(e) : f[q] = g[q]
      PROVE  At(f, e) = At(g, e)
  BY <1>2, RuleParts
<1> HIDE DEF At
<1>3. \E f : f = [r \in Rules |-> At(f, r)]
  <2>1. Step \in [[Rules -> V] -> [Rules -> V]]
    BY <1>1
  <2>2. [r \in Rules |-> {}] \in [Rules -> V]
    OBVIOUS
  <2>3. \A f, g \in [Rules -> V], e \in Rules :
          (\A q \in Parts(e) : f[q] = g[q]) => Step[f][e] = Step[g][e]
    BY <1>2
  <2> HIDE DEF Step, V
  <2>4. PICK f \in [Rules -> V] : Step[f] = f
    BY <2>1, <2>2, <2>3, RecursionOnRules
  <2> QED
    BY <2>4 DEF Step
<1>4. h = [r \in Rules |-> At(h, r)]
  BY <1>3
<1> HIDE DEF h
<1>5. \A e \in Rules : h[e] = At(h, e)
  BY <1>4
<1>6. \A e \in Rules : h[e] \in V
  <2> DEFINE S == {e \in Rules : h[e] \in V}
  <2>1. ASSUME NEW e \in Rules, Parts(e) \subseteq S
        PROVE  e \in S
    <3>1. \A q \in Parts(e) : h[q] \in V
      BY <2>1
    <3>2. h[e] = At(h, e)
      BY <1>5
    <3> QED
      BY <1>b, <3>1, <3>2, RuleParts DEF At
  <2> HIDE DEF S
  <2>2. S = Rules
    <3>1. S \in SUBSET Rules
      BY DEF S
    <3> QED
      BY <2>1, <3>1, RuleInduction
  <2> QED
    BY <2>2 DEF S
<1> QED
  BY <1>a, <1>5, <1>6 DEF At, Of

-----------------------------------------------------------------------------
(* The calendar.                                                           *)

(* Counting hours, and days, around a clock of H of them.                  *)
LEMMA DivMod ==
  ASSUME NEW H \in Nat \ {0}, NEW n \in Nat
  PROVE  /\ n % H \in 0 .. H - 1
         /\ n \div H \in Nat
         /\ (n + 1) % H = IF (n % H) + 1 = H THEN 0 ELSE (n % H) + 1
         /\ (n + 1) \div H = IF (n % H) + 1 = H THEN (n \div H) + 1
                                               ELSE n \div H
<1>1. n % H \in 0 .. H - 1
  OBVIOUS
<1>2. n = H * (n \div H) + (n % H) /\ n \div H \in Nat
  OBVIOUS
<1> QED
  BY <1>1, <1>2

(* A number less than H, around the same clock.                            *)
LEMMA DivModOfSmall ==
  ASSUME NEW H \in Nat \ {0}, NEW n \in 0 .. H - 1
  PROVE  n % H = n /\ n \div H = 0
OBVIOUS

(* The weekday of a context has one place in the week.                     *)
LEMMA DayOfContext ==
  ASSUME NEW c, IsContext(c)
  PROVE  /\ DayIndex(c) \in 0 .. DaysPerWeek - 1
         /\ DayName[DayIndex(c)] = c.weekday
<1>1. \E d \in DOMAIN DayName : DayName[d] = c.weekday
  BY DEF IsContext, Range
<1> QED
  BY <1>1, CalendarAssumption DEF DayIndex

\* The context k hours later, in a month without an end.
HoursOn(c, k) ==
  LET days == (c.hour + k) \div HoursPerDay
  IN  [c EXCEPT !.hour = (c.hour + k) % HoursPerDay,
                !.weekday = DayName[(DayIndex(c) + days) % DaysPerWeek],
                !.day_of_month = @ + days,
                !.seconds_since_boot = @ + k * SecondsPerHour]

(* What k such hours change in a context.                                  *)
LEMMA ClockFields ==
  ASSUME NEW c, IsContext(c), NEW k \in Nat
  PROVE  /\ DOMAIN HoursOn(c, k) = DOMAIN c
         /\ HoursOn(c, k) = [x \in DOMAIN c |-> HoursOn(c, k)[x]]
         /\ \A x \in DOMAIN c \ Clock : HoursOn(c, k)[x] = c[x]
         /\ HoursOn(c, k).hour = (c.hour + k) % HoursPerDay
         /\ HoursOn(c, k).weekday =
              DayName[(DayIndex(c) + ((c.hour + k) \div HoursPerDay))
                         % DaysPerWeek]
         /\ HoursOn(c, k).day_of_month =
              c.day_of_month + ((c.hour + k) \div HoursPerDay)
         /\ HoursOn(c, k).seconds_since_boot =
              c.seconds_since_boot + k * SecondsPerHour
<1> DEFINE days == (c.hour + k) \div HoursPerDay
           h == (c.hour + k) % HoursPerDay
           w == DayName[(DayIndex(c) + days) % DaysPerWeek]
           m == c.day_of_month + days
           s == c.seconds_since_boot + k * SecondsPerHour
<1>1. HoursOn(c, k) = [c EXCEPT !.hour = h, !.weekday = w,
                                   !.day_of_month = m,
                                   !.seconds_since_boot = s]
  BY DEF HoursOn
<1> HIDE DEF h, w, m, s
<1>2. {"hour", "weekday", "day_of_month", "seconds_since_boot"}
        \subseteq DOMAIN c
  BY DEF IsContext, Clock
<1>3. DOMAIN HoursOn(c, k) = DOMAIN c
  BY <1>1
<1>4. HoursOn(c, k) = [x \in DOMAIN c |-> HoursOn(c, k)[x]]
  BY <1>1
<1>5. \A x \in DOMAIN c \ Clock : HoursOn(c, k)[x] = c[x]
  BY <1>1 DEF Clock
<1>6. /\ HoursOn(c, k).hour = h
      /\ HoursOn(c, k).weekday = w
      /\ HoursOn(c, k).day_of_month = m
      /\ HoursOn(c, k).seconds_since_boot = s
  BY <1>1, <1>2
<1> QED
  BY <1>3, <1>4, <1>5, <1>6 DEF h, w, m, s

(* What advance_hour changes in one.                                       *)
LEMMA AdvanceFields ==
  ASSUME NEW c, Clock \subseteq DOMAIN c, c = [x \in DOMAIN c |-> c[x]]
  PROVE  /\ DOMAIN AdvanceHour(c) = DOMAIN c
         /\ AdvanceHour(c) = [x \in DOMAIN c |-> AdvanceHour(c)[x]]
         /\ \A x \in DOMAIN c \ Clock : AdvanceHour(c)[x] = c[x]
         /\ AdvanceHour(c).hour =
              IF c.hour + 1 >= HoursPerDay THEN 0 ELSE c.hour + 1
         /\ AdvanceHour(c).weekday =
              IF c.hour + 1 >= HoursPerDay
                THEN DayName[(DayIndex(c) + 1) % DaysPerWeek] ELSE c.weekday
         /\ AdvanceHour(c).day_of_month =
              IF c.hour + 1 >= HoursPerDay
                THEN c.day_of_month + 1 ELSE c.day_of_month
         /\ AdvanceHour(c).seconds_since_boot =
              c.seconds_since_boot + SecondsPerHour
<1> DEFINE h == IF c.hour + 1 >= HoursPerDay THEN 0 ELSE c.hour + 1
           w == IF c.hour + 1 >= HoursPerDay
                  THEN DayName[(DayIndex(c) + 1) % DaysPerWeek] ELSE c.weekday
           m == IF c.hour + 1 >= HoursPerDay
                  THEN c.day_of_month + 1 ELSE c.day_of_month
           s == c.seconds_since_boot + SecondsPerHour
<1>1. AdvanceHour(c) = [c EXCEPT !.hour = h, !.weekday = w,
                                 !.day_of_month = m,
                                 !.seconds_since_boot = s]
  BY DEF AdvanceHour
<1> HIDE DEF h, w, m, s
<1>2. {"hour", "weekday", "day_of_month", "seconds_since_boot"}
        \subseteq DOMAIN c
  BY DEF Clock
<1>3. DOMAIN AdvanceHour(c) = DOMAIN c
  BY <1>1
<1>4. AdvanceHour(c) = [x \in DOMAIN c |-> AdvanceHour(c)[x]]
  BY <1>1
<1>5. \A x \in DOMAIN c \ Clock : AdvanceHour(c)[x] = c[x]
  BY <1>1 DEF Clock
<1>6. /\ AdvanceHour(c).hour = h
      /\ AdvanceHour(c).weekday = w
      /\ AdvanceHour(c).day_of_month = m
      /\ AdvanceHour(c).seconds_since_boot = s
  BY <1>1, <1>2
<1> QED
  BY <1>3, <1>4, <1>5, <1>6 DEF h, w, m, s

(* The hour the projection steps to is the next of these.                  *)
LEMMA NextHour ==
  ASSUME NEW c, IsContext(c), NEW k \in Nat
  PROVE  AdvanceHour(HoursOn(c, k)) = HoursOn(c, k + 1)
<1> DEFINE p == HoursOn(c, k)
           q == HoursOn(c, k + 1)
           n == c.hour + k
           d == DayIndex(c) + (n \div HoursPerDay)
<1>1. /\ c.hour \in 0 .. HoursPerDay - 1
      /\ DayIndex(c) \in 0 .. DaysPerWeek - 1
      /\ HoursPerDay \in Nat \ {0} /\ DaysPerWeek \in Nat \ {0}
      /\ c.day_of_month \in Nat /\ c.seconds_since_boot \in Nat
  BY DayOfContext, CalendarAssumption DEF IsContext
<1>2. n \in Nat /\ c.hour + (k + 1) = n + 1
  BY <1>1
<1>3. /\ n % HoursPerDay \in 0 .. HoursPerDay - 1
      /\ n \div HoursPerDay \in Nat
      /\ (n + 1) % HoursPerDay = IF (n % HoursPerDay) + 1 = HoursPerDay
                                   THEN 0 ELSE (n % HoursPerDay) + 1
      /\ (n + 1) \div HoursPerDay = IF (n % HoursPerDay) + 1 = HoursPerDay
                                      THEN (n \div HoursPerDay) + 1
                                      ELSE n \div HoursPerDay
  BY <1>1, <1>2, DivMod
<1>4. d \in Nat
  BY <1>1, <1>3
<1>5. /\ DOMAIN p = DOMAIN c
      /\ p = [x \in DOMAIN c |-> p[x]]
      /\ \A x \in DOMAIN c \ Clock : p[x] = c[x]
      /\ p.hour = n % HoursPerDay
      /\ p.weekday = DayName[d % DaysPerWeek]
      /\ p.day_of_month = c.day_of_month + (n \div HoursPerDay)
      /\ p.seconds_since_boot = c.seconds_since_boot + k * SecondsPerHour
  BY ClockFields
<1>6. /\ DOMAIN q = DOMAIN c
      /\ q = [x \in DOMAIN c |-> q[x]]
      /\ \A x \in DOMAIN c \ Clock : q[x] = c[x]
      /\ q.hour = (n + 1) % HoursPerDay
      /\ q.weekday = DayName[(DayIndex(c) + ((n + 1) \div HoursPerDay))
                               % DaysPerWeek]
      /\ q.day_of_month = c.day_of_month + ((n + 1) \div HoursPerDay)
      /\ q.seconds_since_boot =
           c.seconds_since_boot + (k + 1) * SecondsPerHour
  <2>1. k + 1 \in Nat
    OBVIOUS
  <2>2. /\ DOMAIN q = DOMAIN c
        /\ q = [x \in DOMAIN c |-> q[x]]
        /\ \A x \in DOMAIN c \ Clock : q[x] = c[x]
        /\ q.hour = (c.hour + (k + 1)) % HoursPerDay
        /\ q.weekday =
             DayName[(DayIndex(c) + ((c.hour + (k + 1)) \div HoursPerDay))
                       % DaysPerWeek]
        /\ q.day_of_month =
             c.day_of_month + ((c.hour + (k + 1)) \div HoursPerDay)
        /\ q.seconds_since_boot =
             c.seconds_since_boot + (k + 1) * SecondsPerHour
    BY <2>1, ClockFields
  <2> HIDE DEF q
  <2> QED
    BY <1>2, <2>2
<1> HIDE DEF p, q
<1>7. /\ d % DaysPerWeek \in 0 .. DaysPerWeek - 1
      /\ ((d % DaysPerWeek) + 1) % DaysPerWeek = (d + 1) % DaysPerWeek
  <2> HIDE DEF d
  <2>1. /\ d % DaysPerWeek \in 0 .. DaysPerWeek - 1
        /\ (d + 1) % DaysPerWeek = IF (d % DaysPerWeek) + 1 = DaysPerWeek
                                     THEN 0 ELSE (d % DaysPerWeek) + 1
    BY <1>1, <1>4, DivMod
  <2>2. PICK m \in 0 .. DaysPerWeek - 1 : m = d % DaysPerWeek
    BY <2>1
  <2>3. m \in Nat /\ m % DaysPerWeek = m
    <3>1. m % DaysPerWeek = m
      BY <1>1, <2>2, DivModOfSmall
    <3> QED
      BY <1>1, <3>1
  <2>4. (m + 1) % DaysPerWeek = IF (m % DaysPerWeek) + 1 = DaysPerWeek
                                  THEN 0 ELSE (m % DaysPerWeek) + 1
    BY <1>1, <2>3, DivMod
  <2> QED
    BY <2>1, <2>2, <2>3, <2>4
<1>8. DayIndex(p) = d % DaysPerWeek
  <2> HIDE DEF d
  <2> QED
    BY <1>5, <1>7, CalendarAssumption DEF DayIndex, IsInjective
<1>9. Clock \subseteq DOMAIN p
  BY <1>5 DEF IsContext
<1>10. /\ DOMAIN AdvanceHour(p) = DOMAIN p
       /\ AdvanceHour(p) = [x \in DOMAIN p |-> AdvanceHour(p)[x]]
       /\ \A x \in DOMAIN p \ Clock : AdvanceHour(p)[x] = p[x]
       /\ AdvanceHour(p).hour =
            IF p.hour + 1 >= HoursPerDay THEN 0 ELSE p.hour + 1
       /\ AdvanceHour(p).weekday =
            IF p.hour + 1 >= HoursPerDay
              THEN DayName[(DayIndex(p) + 1) % DaysPerWeek] ELSE p.weekday
       /\ AdvanceHour(p).day_of_month =
            IF p.hour + 1 >= HoursPerDay
              THEN p.day_of_month + 1 ELSE p.day_of_month
       /\ AdvanceHour(p).seconds_since_boot =
            p.seconds_since_boot + SecondsPerHour
  <2>1. p = [x \in DOMAIN p |-> p[x]]
    BY <1>5
  <2> QED
    BY <1>9, <2>1, AdvanceFields
<1> DEFINE a == AdvanceHour(p)
<1>11. /\ a.hour = q.hour /\ a.day_of_month = q.day_of_month
       /\ a.seconds_since_boot = q.seconds_since_boot
  <2>1. (p.hour + 1 >= HoursPerDay) <=> ((n % HoursPerDay) + 1 = HoursPerDay)
    BY <1>1, <1>3, <1>5
  <2>2. a.hour = q.hour
    BY <1>3, <1>5, <1>6, <1>10, <2>1
  <2>3. a.day_of_month = q.day_of_month
    <3>1. CASE p.hour + 1 >= HoursPerDay
      <4>1. a.day_of_month = p.day_of_month + 1
        BY <1>10, <3>1
      <4>2. q.day_of_month = c.day_of_month + ((n \div HoursPerDay) + 1)
        BY <1>3, <1>6, <2>1, <3>1
      <4> HIDE DEF a, n
      <4> QED
        BY <1>1, <1>3, <1>5, <4>1, <4>2
    <3>2. CASE ~ (p.hour + 1 >= HoursPerDay)
      BY <1>3, <1>5, <1>6, <1>10, <2>1, <3>2
    <3> QED
      BY <3>1, <3>2
  <2>4. a.seconds_since_boot = q.seconds_since_boot
    <3>1. a.seconds_since_boot =
            c.seconds_since_boot + k * SecondsPerHour + SecondsPerHour
      BY <1>5, <1>10
    <3>2. (k + 1) * SecondsPerHour = k * SecondsPerHour + SecondsPerHour
      BY CalendarAssumption
    <3>3. k * SecondsPerHour \in Nat /\ SecondsPerHour \in Nat
      BY CalendarAssumption
    <3> HIDE DEF a
    <3> QED
      BY <1>1, <1>6, <3>1, <3>2, <3>3
  <2> QED
    BY <2>2, <2>3, <2>4
<1>12. a.weekday = q.weekday
  <2>1. CASE p.hour + 1 >= HoursPerDay
    <3>1. a.weekday = DayName[((d % DaysPerWeek) + 1) % DaysPerWeek]
      BY <1>8, <1>10, <2>1
    <3>2. (n % HoursPerDay) + 1 = HoursPerDay
      BY <1>1, <1>3, <1>5, <2>1
    <3>3. DayIndex(c) + ((n + 1) \div HoursPerDay) = d + 1
      BY <1>1, <1>3, <3>2
    <3> HIDE DEF a, d, n
    <3> QED
      BY <1>6, <1>7, <3>1, <3>3
  <2>2. CASE ~ (p.hour + 1 >= HoursPerDay)
    <3>1. ~ ((n % HoursPerDay) + 1 = HoursPerDay)
      BY <1>1, <1>3, <1>5, <2>2
    <3> QED
      BY <1>3, <1>5, <1>6, <1>10, <2>2, <3>1
  <2> QED
    BY <2>1, <2>2
<1>13. \A x \in DOMAIN c : a[x] = q[x]
  <2>1. \A x \in DOMAIN c \ Clock : a[x] = q[x]
    BY <1>5, <1>6, <1>10
  <2> HIDE DEF a
  <2>2. \A x \in Clock : a[x] = q[x]
    BY <1>11, <1>12 DEF Clock
  <2> QED
    BY <2>1, <2>2
<1>14. a = [x \in DOMAIN c |-> a[x]]
  BY <1>5, <1>10
<1> HIDE DEF a
<1>15. a = q
  BY <1>6, <1>13, <1>14
<1> QED
  BY <1>15 DEF a, p, q

(* No hour later is now.                                                   *)
LEMMA NoHour ==
  ASSUME NEW c, IsContext(c)
  PROVE  HoursOn(c, 0) = c
<1> DEFINE p == HoursOn(c, 0)
<1>1. /\ c.hour \in 0 .. HoursPerDay - 1
      /\ DayIndex(c) \in 0 .. DaysPerWeek - 1
      /\ DayName[DayIndex(c)] = c.weekday
      /\ HoursPerDay \in Nat \ {0} /\ DaysPerWeek \in Nat \ {0}
      /\ c.day_of_month \in Nat /\ c.seconds_since_boot \in Nat
  BY DayOfContext, CalendarAssumption DEF IsContext
<1>2. c.hour % HoursPerDay = c.hour /\ c.hour \div HoursPerDay = 0
  BY <1>1, DivModOfSmall
<1>3. DayIndex(c) % DaysPerWeek = DayIndex(c)
  BY <1>1, DivModOfSmall
<1>4. c.hour + 0 = c.hour /\ DayIndex(c) + 0 = DayIndex(c)
  BY <1>1
<1>5. /\ DOMAIN p = DOMAIN c
      /\ p = [x \in DOMAIN c |-> p[x]]
      /\ \A x \in DOMAIN c \ Clock : p[x] = c[x]
      /\ p.hour = (c.hour + 0) % HoursPerDay
      /\ p.weekday =
           DayName[(DayIndex(c) + ((c.hour + 0) \div HoursPerDay))
                     % DaysPerWeek]
      /\ p.day_of_month = c.day_of_month + ((c.hour + 0) \div HoursPerDay)
      /\ p.seconds_since_boot = c.seconds_since_boot + 0 * SecondsPerHour
  <2>1. 0 \in Nat
    OBVIOUS
  <2> QED
    BY <2>1, ClockFields
<1> HIDE DEF p
<1>6. /\ p.hour = c.hour
      /\ p.weekday = c.weekday
      /\ p.day_of_month = c.day_of_month
  <2>1. p.hour = c.hour
    BY <1>2, <1>4, <1>5
  <2>2. p.weekday = c.weekday
    BY <1>1, <1>2, <1>3, <1>4, <1>5
  <2>3. p.day_of_month = c.day_of_month
    <3>1. p.day_of_month = c.day_of_month + 0
      BY <1>2, <1>4, <1>5
    <3> QED
      BY <1>1, <3>1
  <2> QED
    BY <2>1, <2>2, <2>3
<1>7. p.seconds_since_boot = c.seconds_since_boot
  BY <1>1, <1>5, CalendarAssumption
<1>8. \A x \in DOMAIN c : p[x] = c[x]
  BY <1>5, <1>6, <1>7 DEF Clock
<1>9. c = [x \in DOMAIN c |-> c[x]]
  BY DEF IsContext
<1>10. p = c
  BY <1>5, <1>8, <1>9
<1> QED
  BY <1>10 DEF p

(* The loop of vault_decide goes through them.                             *)
LEMMA FutureByTheHour ==
  ASSUME NEW c, IsContext(c)
  PROVE  \A k \in 0 .. Horizon : Future(c)[k] = HoursOn(c, k)
<1> DEFINE At(f, k) == IF k = 0 THEN c ELSE AdvanceHour(f[k-1])
           f0 == [k \in 0 .. Horizon |-> HoursOn(c, k)]
           v == CHOOSE f : f = [k \in 0 .. Horizon |-> At(f, k)]
<1>1. Future(c) = v
  BY DEF Future
<1>2. \A k \in 0 .. Horizon : k # 0 =>
        /\ k - 1 \in 0 .. Horizon /\ k - 1 \in Nat /\ (k - 1) + 1 = k
  BY CalendarAssumption
<1>3. \A k \in 0 .. Horizon : HoursOn(c, k) = At(f0, k)
  <2> TAKE k \in 0 .. Horizon
  <2>1. CASE k = 0
    BY <2>1, NoHour
  <2>2. CASE k # 0
    <3>1. /\ k - 1 \in 0 .. Horizon /\ k - 1 \in Nat /\ (k - 1) + 1 = k
      BY <1>2, <2>2
    <3>2. PICK j \in 0 .. Horizon : j = k - 1 /\ j \in Nat /\ j + 1 = k
      BY <3>1
    <3>3. AdvanceHour(HoursOn(c, j)) = HoursOn(c, j + 1)
      BY <3>2, NextHour
    <3>4. At(f0, k) = AdvanceHour(f0[j])
      BY <2>2, <3>2
    <3>5. f0[j] = HoursOn(c, j)
      OBVIOUS
    <3> QED
      BY <3>2, <3>3, <3>4, <3>5
  <2> QED
    BY <2>1, <2>2
<1>4. f0 = [k \in 0 .. Horizon |-> At(f0, k)]
  BY <1>3
<1> HIDE DEF At
<1>5. v = [k \in 0 .. Horizon |-> At(v, k)]
  BY <1>4
<1> HIDE DEF v
<1>6. \A k \in 0 .. Horizon : v[k] = At(v, k)
  BY <1>5
<1> DEFINE S == {n \in Nat : n \in 0 .. Horizon => v[n] = HoursOn(c, n)}
<1>7. 0 \in S
  <2>1. 0 \in 0 .. Horizon => v[0] = c
    BY <1>6 DEF At
  <2> QED
    BY <2>1, NoHour
<1>8. \A n \in S : n + 1 \in S
  <2> TAKE n \in S
  <2>1. n \in Nat /\ n + 1 \in Nat /\ n + 1 # 0 /\ (n + 1) - 1 = n
    OBVIOUS
  <2>2. ASSUME n + 1 \in 0 .. Horizon
        PROVE  v[n + 1] = HoursOn(c, n + 1)
    <3>1. n \in 0 .. Horizon
      BY <2>1, <2>2, CalendarAssumption
    <3>2. v[n] = HoursOn(c, n)
      BY <3>1
    <3>3. v[n + 1] = At(v, n + 1)
      BY <1>6, <2>2
    <3>4. v[n + 1] = AdvanceHour(v[n])
      BY <2>1, <3>3 DEF At
    <3> HIDE DEF S
    <3>5. AdvanceHour(HoursOn(c, n)) = HoursOn(c, n + 1)
      BY <2>1, NextHour
    <3> QED
      BY <3>2, <3>4, <3>5
  <2> QED
    BY <2>1, <2>2
<1>9. S = Nat
  <2>1. S \in SUBSET Nat
    OBVIOUS
  <2> HIDE DEF S
  <2> QED
    BY <1>7, <1>8, <2>1, Counting
<1> TAKE k \in 0 .. Horizon
<1>10. k \in S
  <2>1. k \in Nat
    BY CalendarAssumption
  <2> HIDE DEF S
  <2> QED
    BY <1>9, <2>1
<1> QED
  BY <1>1, <1>10

(* Counting seconds in hours: the hour begun after n of them.              *)
LEMMA HourOfSeconds ==
  ASSUME NEW n \in Nat, NEW b \in Nat
  PROVE  /\ n \div SecondsPerHour \in Nat
         /\ n < (b + 1) * SecondsPerHour => n \div SecondsPerHour <= b
         /\ b * SecondsPerHour <= n => b <= n \div SecondsPerHour
<1> DEFINE q == n \div SecondsPerHour
           r == n % SecondsPerHour
<1>1. SecondsPerHour \in Nat \ {0}
  BY CalendarAssumption
<1>2. /\ q \in Nat /\ r \in 0 .. SecondsPerHour - 1
      /\ n = SecondsPerHour * q + r
  BY <1>1
<1> HIDE DEF q, r
<1>3. \A i, j \in Nat : i <= j => i * SecondsPerHour <= j * SecondsPerHour
  BY <1>1
<1>4. ASSUME n < (b + 1) * SecondsPerHour, ~ (q <= b)
      PROVE  FALSE
  <2>1. (b + 1) * SecondsPerHour <= q * SecondsPerHour
    BY <1>2, <1>3, <1>4
  <2>2. q * SecondsPerHour = SecondsPerHour * q /\ q * SecondsPerHour \in Nat
    BY <1>1, <1>2
  <2>3. (b + 1) * SecondsPerHour \in Nat
    BY <1>1
  <2> QED
    BY <1>1, <1>2, <1>4, <2>1, <2>2, <2>3
<1>5. ASSUME b * SecondsPerHour <= n, ~ (b <= q)
      PROVE  FALSE
  <2>1. (q + 1) * SecondsPerHour <= b * SecondsPerHour
    BY <1>2, <1>3, <1>5
  <2>2. (q + 1) * SecondsPerHour = SecondsPerHour * q + SecondsPerHour
    BY <1>1, <1>2
  <2>3. b * SecondsPerHour \in Nat /\ SecondsPerHour * q \in Nat
    BY <1>1, <1>2
  <2> QED
    BY <1>1, <1>2, <1>5, <2>1, <2>2, <2>3
<1> QED
  BY <1>2, <1>4, <1>5 DEF q

\* The hours begun t seconds later, when past seconds of one have gone.
Begun(past, t) == (past + t) \div SecondsPerHour

(* Whole hours from now it is as late in an hour as it is now.             *)
LEMMA WholeHours ==
  ASSUME NEW past \in 0 .. SecondsPerHour - 1, NEW k \in Nat
  PROVE  /\ k * SecondsPerHour \in Nat
         /\ Begun(past, k * SecondsPerHour) = k
<1>1. SecondsPerHour \in Nat \ {0} /\ past \in Nat /\ past < SecondsPerHour
  BY CalendarAssumption
<1>2. /\ k * SecondsPerHour \in Nat
      /\ (k + 1) * SecondsPerHour = k * SecondsPerHour + SecondsPerHour
  BY <1>1
<1> DEFINE n == past + k * SecondsPerHour
<1>3. /\ n \in Nat /\ n < (k + 1) * SecondsPerHour
      /\ k * SecondsPerHour <= n
  BY <1>1, <1>2
<1> HIDE DEF n
<1>4. /\ n \div SecondsPerHour \in Nat
      /\ n \div SecondsPerHour <= k /\ k <= n \div SecondsPerHour
  BY <1>3, HourOfSeconds
<1>5. n \div SecondsPerHour = k
  BY <1>4
<1> QED
  BY <1>2, <1>5 DEF n, Begun

(* Up to b hours from now no more than b have begun.                       *)
LEMMA HoursBegun ==
  ASSUME NEW past \in 0 .. SecondsPerHour - 1, NEW b \in Nat,
         NEW t \in 0 .. b * SecondsPerHour
  PROVE  Begun(past, t) \in 0 .. b
<1>1. SecondsPerHour \in Nat \ {0} /\ past \in Nat /\ past < SecondsPerHour
  BY CalendarAssumption
<1>2. /\ b * SecondsPerHour \in Nat
      /\ (b + 1) * SecondsPerHour = b * SecondsPerHour + SecondsPerHour
  BY <1>1
<1> DEFINE n == past + t
<1>3. n \in Nat /\ n < (b + 1) * SecondsPerHour
  BY <1>1, <1>2
<1> HIDE DEF n
<1>4. n \div SecondsPerHour \in Nat /\ n \div SecondsPerHour <= b
  BY <1>3, HourOfSeconds
<1> QED
  BY <1>4 DEF n, Begun

-----------------------------------------------------------------------------
(* The evaluator.                                                          *)

(* A rule is an error in every context that gives values to the same       *)
(* variables, or in none: whether it is does not depend on the time.       *)
LEMMA ErrorsStay ==
  ASSUME NEW c, NEW p, DOMAIN p = DOMAIN c
  PROVE  \A e \in Rules : EvalExpr(e, p) = "error" <=> EvalExpr(e, c) = "error"
<1> DEFINE S == {e \in Rules :
                   EvalExpr(e, p) = "error" <=> EvalExpr(e, c) = "error"}
<1>1. ASSUME NEW e \in Rules, e.node = "pred"
      PROVE  EvalPredicate(e, p) = "error" <=> EvalPredicate(e, c) = "error"
  <2>1. e.var \in NumericVars \cup WordVars
    BY <1>1, RulesAssumption DEF IsRule
  <2>2. \A b : Truth(b) # "error"
    BY DEF Truth
  <2>3. \A op, x, y, val :
          EvalNumeric(op, x, val) = "error"
            <=> EvalNumeric(op, y, val) = "error"
    BY <2>2 DEF EvalNumeric
  <2>4. \A op, x, y, val :
          EvalWord(op, x, val) = "error" <=> EvalWord(op, y, val) = "error"
    BY <2>2 DEF EvalWord
  <2>5. CASE e.var \notin DOMAIN c
    BY <2>5 DEF EvalPredicate
  <2>6. CASE e.var \in DOMAIN c /\ e.var \in NumericVars
    <3>1. e.var \notin WordVars
      BY <2>6 DEF NumericVars, WordVars
    <3>2. /\ EvalPredicate(e, c) = EvalNumeric(e.op, c[e.var], e.val)
          /\ EvalPredicate(e, p) = EvalNumeric(e.op, p[e.var], e.val)
      BY <2>6, <3>1 DEF EvalPredicate
    <3> QED
      BY <2>3, <3>2
  <2>7. CASE e.var \in DOMAIN c /\ e.var \in WordVars
    <3>1. e.var \notin NumericVars
      BY <2>7 DEF NumericVars, WordVars
    <3>2. /\ EvalPredicate(e, c) = EvalWord(e.op, c[e.var], e.val)
          /\ EvalPredicate(e, p) = EvalWord(e.op, p[e.var], e.val)
      BY <2>7, <3>1 DEF EvalPredicate
    <3> QED
      BY <2>4, <3>2
  <2> QED
    BY <2>1, <2>5, <2>6, <2>7
<1>2. \A x, y, op : /\ Negated(x) = "error" <=> x = "error"
                    /\ Combined(op, x, y) = "error" <=> "error" \in {x, y}
  BY DEF Negated, Combined, Truth
<1>3. ASSUME NEW e \in Rules, Parts(e) \subseteq S
      PROVE  e \in S
  <2>1. CASE e.node = "pred"
    BY <1>1, <2>1, EvalExprEquations
  <2>2. CASE e.node = "not"
    <3>1. EvalExpr(e.of, p) = "error" <=> EvalExpr(e.of, c) = "error"
      BY <1>3, <2>2, RuleParts
    <3>2. /\ EvalExpr(e, p) = Negated(EvalExpr(e.of, p))
          /\ EvalExpr(e, c) = Negated(EvalExpr(e.of, c))
      BY <2>2, EvalExprEquations
    <3> QED
      BY <3>1, <3>2 DEF Negated, Truth
  <2>3. CASE e.node \in {"and", "or"}
    <3>1. /\ EvalExpr(e.left, p) = "error" <=> EvalExpr(e.left, c) = "error"
          /\ EvalExpr(e.right, p) = "error" <=> EvalExpr(e.right, c) = "error"
      BY <1>3, <2>3, RuleParts
    <3> QED
      BY <1>2, <2>3, <3>1, EvalExprEquations
  <2> QED
    BY <2>1, <2>2, <2>3, RuleParts
<1> HIDE DEF S
<1>4. S = Rules
  <2>1. S \in SUBSET Rules
    BY DEF S
  <2> QED
    BY <1>3, <2>1, RuleInduction
<1> QED
  BY <1>4 DEF S

(* What a rule does not read makes no difference to it.                    *)
LEMMA Unread ==
  ASSUME NEW c, NEW p, DOMAIN p = DOMAIN c, NEW e \in Rules,
         \A x \in DOMAIN c : Reads(e, x) => p[x] = c[x]
  PROVE  EvalExpr(e, p) = EvalExpr(e, c)
<1> DEFINE Same(r) == \A x \in DOMAIN c : Reads(r, x) => p[x] = c[x]
           S == {r \in Rules : Same(r) => EvalExpr(r, p) = EvalExpr(r, c)}
<1>1. ASSUME NEW r \in Rules, Parts(r) \subseteq S, Same(r)
      PROVE  EvalExpr(r, p) = EvalExpr(r, c)
  <2>1. CASE r.node = "pred"
    <3>1. Reads(r, r.var)
      BY <2>1, LeavesEquations DEF Reads
    <3>2. r.var \in DOMAIN c => p[r.var] = c[r.var]
      BY <1>1, <3>1
    <3>3. EvalPredicate(r, p) = EvalPredicate(r, c)
      BY <3>2 DEF EvalPredicate
    <3> QED
      BY <2>1, <3>3, EvalExprEquations
  <2>2. CASE r.node = "not"
    <3>1. \A x : Reads(r, x) <=> Reads(r.of, x)
      BY <2>2, LeavesEquations DEF Reads
    <3>2. EvalExpr(r.of, p) = EvalExpr(r.of, c)
      BY <1>1, <2>2, <3>1, RuleParts
    <3> QED
      BY <2>2, <3>2, EvalExprEquations
  <2>3. CASE r.node \in {"and", "or"}
    <3>1. \A x : Reads(r, x) <=> Reads(r.left, x) \/ Reads(r.right, x)
      BY <2>3, LeavesEquations DEF Reads
    <3>2. /\ EvalExpr(r.left, p) = EvalExpr(r.left, c)
          /\ EvalExpr(r.right, p) = EvalExpr(r.right, c)
      BY <1>1, <2>3, <3>1, RuleParts
    <3> QED
      BY <2>3, <3>2, EvalExprEquations
  <2> QED
    BY <2>1, <2>2, <2>3, RuleParts
<1>2. \A r \in Rules : Parts(r) \subseteq S => r \in S
  BY <1>1
<1> HIDE DEF S
<1>3. S = Rules
  <2>1. S \in SUBSET Rules
    BY DEF S
  <2> QED
    BY <1>2, <2>1, RuleInduction
<1> QED
  BY <1>3 DEF S

(* The evaluator against classical logic: it says whether the rule is true *)
(* in the context, unless some leaf is an error there.                     *)
LEMMA EvalIsClassical ==
  ASSUME NEW c
  PROVE  \A e \in Rules :
           EvalExpr(e, c) = IF Sound(e, c) THEN Truth(c \in HoldsIn({c})[e])
                                           ELSE "error"
<1> DEFINE Holds(e) == c \in HoldsIn({c})[e]
           S == {e \in Rules :
                   EvalExpr(e, c) = IF Sound(e, c) THEN Truth(Holds(e))
                                                   ELSE "error"}
<1>1. \A e \in Rules :
        /\ e.node = "pred" => (Holds(e) <=> EvalPredicate(e, c) = "true")
        /\ e.node = "not"  => (Holds(e) <=> ~ Holds(e.of))
        /\ e.node = "and"  => (Holds(e) <=> Holds(e.left) /\ Holds(e.right))
        /\ e.node = "or"   => (Holds(e) <=> Holds(e.left) \/ Holds(e.right))
  BY HoldsEquations
<1> HIDE DEF Holds
<1>2. ASSUME NEW e \in Rules, Parts(e) \subseteq S
      PROVE  e \in S
  <2>1. \A q \in Parts(e) :
          EvalExpr(q, c) = IF Sound(q, c) THEN Truth(Holds(q)) ELSE "error"
    BY <1>2
  <2>2. CASE e.node = "pred"
    <3>1. Sound(e, c) <=> EvalPredicate(e, c) # "error"
      BY <2>2, LeavesEquations DEF Sound
    <3>2. EvalPredicate(e, c) \in Values
      BY <2>2, PredicateHasValue
    <3>3. EvalExpr(e, c) = EvalPredicate(e, c)
      BY <2>2, EvalExprEquations
    <3> QED
      BY <1>1, <2>2, <3>1, <3>2, <3>3 DEF Truth, Values
  <2>3. CASE e.node = "not"
    <3>1. Parts(e) = {e.of} /\ e.of \in Rules
      BY <2>3, RuleParts
    <3>2. Sound(e, c) <=> Sound(e.of, c)
      BY <2>3, LeavesEquations DEF Sound
    <3>3. EvalExpr(e, c) = Negated(EvalExpr(e.of, c))
      BY <2>3, EvalExprEquations
    <3>4. EvalExpr(e.of, c) =
            IF Sound(e.of, c) THEN Truth(Holds(e.of)) ELSE "error"
      BY <2>1, <3>1
    <3> QED
      BY <1>1, <2>3, <3>2, <3>3, <3>4 DEF Truth, Negated
  <2>4. CASE e.node \in {"and", "or"}
    <3>1. Parts(e) = {e.left, e.right} /\ e.left \in Rules /\ e.right \in Rules
      BY <2>4, RuleParts
    <3>2. Sound(e, c) <=> Sound(e.left, c) /\ Sound(e.right, c)
      BY <2>4, LeavesEquations DEF Sound
    <3>3. EvalExpr(e, c) =
            Combined(e.node, EvalExpr(e.left, c), EvalExpr(e.right, c))
      BY <2>4, EvalExprEquations
    <3>4. /\ EvalExpr(e.left, c) =
               IF Sound(e.left, c) THEN Truth(Holds(e.left)) ELSE "error"
          /\ EvalExpr(e.right, c) =
               IF Sound(e.right, c) THEN Truth(Holds(e.right)) ELSE "error"
      BY <2>1, <3>1
    <3> QED
      BY <1>1, <2>4, <3>2, <3>3, <3>4 DEF Truth, Combined
  <2> QED
    BY <2>2, <2>3, <2>4, RuleParts
<1> HIDE DEF S
<1>3. S = Rules
  <2>1. S \in SUBSET Rules
    BY DEF S
  <2> QED
    BY <1>2, <2>1, RuleInduction
<1> QED
  BY <1>3 DEF S, Holds

(* What allows is what is true.                                            *)
LEMMA AllowsIsTrue ==
  ASSUME NEW c, NEW e \in Rules
  PROVE  /\ Allows(e, c) <=> EvalExpr(e, c) = "true"
         /\ EvalExpr(e, c) \in Values
<1>1. EvalExpr(e, c) = IF Sound(e, c) THEN Truth(c \in HoldsIn({c})[e])
                                      ELSE "error"
  BY EvalIsClassical
<1> QED
  BY <1>1 DEF Allows, Truth, Values

(* vault_policy_decide allows what is true.                                *)
LEMMA AllowIffTrue ==
  ASSUME NEW c, NEW e \in Rules
  PROVE  Decide(e, c).verdict = "allow" <=> EvalExpr(e, c) = "true"
<1>1. \A v, n : Decision(v, n).verdict = v
  BY DEF Decision
<1>2. e # NoRule
  BY RulesAssumption
<1>3. EvalExpr(e, c) \in Values
  BY AllowsIsTrue
<1>4. CASE EvalExpr(e, c) = "true"
  BY <1>1, <1>2, <1>4 DEF Decide
<1>5. CASE EvalExpr(e, c) = "error"
  BY <1>1, <1>2, <1>5 DEF Decide
<1>6. CASE EvalExpr(e, c) = "false"
  <2>1. Decide(e, c) = Project(e, c)
    BY <1>2, <1>6 DEF Decide
  <2>2. Project(e, c).verdict \in {"deny", "defer"}
    BY <1>1 DEF Project
  <2> QED
    BY <1>6, <2>1, <2>2
<1> QED
  BY <1>3, <1>4, <1>5, <1>6 DEF Values

(* What vault_policy_decide answers, told by the hours it projects.        *)
LEMMA DecideByTheHours ==
  ASSUME NEW c, IsContext(c), NEW e \in Rules
  PROVE  \/ /\ Allows(e, c)
            /\ Decide(e, c) = Decision("allow", 0)
         \/ /\ \A k \in 0 .. Horizon : ~ Allows(e, HoursOn(c, k))
            /\ Decide(e, c) = Decision("deny", 0)
         \/ \E k \in 1 .. Horizon :
              /\ Allows(e, HoursOn(c, k))
              /\ \A j \in 0 .. k - 1 : ~ Allows(e, HoursOn(c, j))
              /\ Decide(e, c) = Decision("defer", k * SecondsPerHour)
<1> DEFINE On(k) == EvalExpr(e, HoursOn(c, k))
<1>1. e # NoRule /\ Horizon \in Nat
  BY RulesAssumption, CalendarAssumption
<1>2. \A k \in 0 .. Horizon : /\ EvalExpr(e, Future(c)[k]) = On(k)
                              /\ On(k) \in Values
                              /\ On(k) = "error" <=> EvalExpr(e, c) = "error"
                              /\ Allows(e, HoursOn(c, k)) <=> On(k) = "true"
  <2> TAKE k \in 0 .. Horizon
  <2>1. DOMAIN HoursOn(c, k) = DOMAIN c
    BY <1>1, ClockFields
  <2>2. On(k) = "error" <=> EvalExpr(e, c) = "error"
    BY <2>1, ErrorsStay
  <2> QED
    BY <2>2, FutureByTheHour, AllowsIsTrue
<1>3. HoursOn(c, 0) = c
  BY NoHour
<1> HIDE DEF On
<1>4. CASE EvalExpr(e, c) = "error"
  BY <1>1, <1>2, <1>4 DEF Decide
<1>5. CASE EvalExpr(e, c) = "true"
  <2>1. Decide(e, c) = Decision("allow", 0)
    BY <1>1, <1>5 DEF Decide
  <2> QED
    BY <1>5, <2>1, AllowsIsTrue
<1>6. CASE EvalExpr(e, c) = "false"
  <2> DEFINE stops == {k \in 1 .. Horizon :
                         EvalExpr(e, Future(c)[k]) # "false"}
             step  == CHOOSE k \in stops : \A j \in stops : k <= j
  <2>1. Decide(e, c) = IF stops = {} \/ EvalExpr(e, Future(c)[step]) = "error"
                         THEN Decision("deny", 0)
                         ELSE Decision("defer", step * SecondsPerHour)
    BY <1>1, <1>6 DEF Decide, Project
  <2>2. ~ Allows(e, HoursOn(c, 0))
    BY <1>3, <1>6, AllowsIsTrue
  <2>3. \A k : k \in stops <=> /\ k \in 0 .. Horizon
                               /\ Allows(e, HoursOn(c, k))
    <3>1. \A k \in 0 .. Horizon :
            EvalExpr(e, Future(c)[k]) # "false" <=> Allows(e, HoursOn(c, k))
      BY <1>2, <1>6 DEF Values
    <3>2. \A k : k \in 1 .. Horizon <=> k \in 0 .. Horizon /\ k # 0
      BY <1>1
    <3> QED
      BY <2>2, <3>1, <3>2
  <2>4. stops \in SUBSET Nat /\ stops \in SUBSET (1 .. Horizon)
    BY <1>1
  <2> HIDE DEF stops
  <2>5. CASE stops = {}
    BY <2>1, <2>3, <2>5
  <2>6. CASE stops # {}
    <3>1. \E k \in stops : \A j \in stops : k <= j
      BY <2>4, <2>6, LeastNumber
    <3>2. step \in stops /\ \A j \in stops : step <= j
      BY <3>1
    <3> HIDE DEF step
    <3>3. EvalExpr(e, Future(c)[step]) # "error"
      BY <1>2, <1>6, <2>3, <3>2
    <3>4. Decide(e, c) = Decision("defer", step * SecondsPerHour)
      BY <2>1, <2>6, <3>3
    <3>5. \A j \in 0 .. step - 1 : j \in 0 .. Horizon /\ ~ (step <= j)
      BY <1>1, <2>4, <3>2
    <3>6. \A j \in 0 .. step - 1 : ~ Allows(e, HoursOn(c, j))
      BY <2>3, <3>2, <3>5
    <3> QED
      BY <2>3, <2>4, <3>2, <3>4, <3>6
  <2> QED
    BY <2>5, <2>6
<1> QED
  BY <1>4, <1>5, <1>6, AllowsIsTrue DEF Values

(* At a second of the hour the clock and the projection agree on a rule,   *)
(* unless a month ends that the rule minds, or it asks for the seconds.    *)
LEMMA AllowsByTheHour ==
  ASSUME NEW c, IsContext(c), NEW e \in Rules, NEW past \in Nat, NEW t \in Nat,
         NEW length \in MonthLengths, MonthGoesOn(e, c, length),
         NEW k \in 0 .. Horizon, k = Begun(past, t),
         t = k * SecondsPerHour \/ ~ Reads(e, "seconds_since_boot")
  PROVE  Allows(e, ClockAt(c, past, t, length)) <=> Allows(e, HoursOn(c, k))
<1> DEFINE days == (c.hour + k) \div HoursPerDay
           h == (c.hour + k) % HoursPerDay
           w == DayName[(DayIndex(c) + days) % DaysPerWeek]
           day == c.day_of_month + days
           m == IF day > length THEN day - length ELSE day
           s == c.seconds_since_boot + t
           a == ClockAt(c, past, t, length)
           p == HoursOn(c, k)
<1>1. a = [c EXCEPT !.hour = h, !.weekday = w, !.day_of_month = m,
                    !.seconds_since_boot = s]
  BY DEF ClockAt, Begun
<1>2. /\ k \in Nat /\ c.day_of_month \in Nat /\ c.hour \in Nat
      /\ HoursPerDay \in Nat \ {0} /\ Horizon \in Nat /\ k <= Horizon
  BY CalendarAssumption DEF IsContext
<1>3. /\ DOMAIN p = DOMAIN c
      /\ \A x \in DOMAIN c \ Clock : p[x] = c[x]
      /\ p.hour = h /\ p.weekday = w /\ p.day_of_month = day
      /\ p.seconds_since_boot = c.seconds_since_boot + k * SecondsPerHour
  BY <1>2, ClockFields
<1>4. days \in Nat /\ days <= (c.hour + Horizon) \div HoursPerDay
  <2>1. \A x, y \in Nat : x <= y =>
          /\ x \div HoursPerDay \in Nat /\ y \div HoursPerDay \in Nat
          /\ x \div HoursPerDay <= y \div HoursPerDay
    BY <1>2
  <2>2. c.hour + k \in Nat /\ c.hour + Horizon \in Nat
        /\ c.hour + k <= c.hour + Horizon
    BY <1>2
  <2> QED
    BY <2>1, <2>2
<1> HIDE DEF h, w, p, a, s, days
<1>5. Clock \subseteq DOMAIN c
  BY DEF IsContext
<1>6. DOMAIN a = DOMAIN c
  BY <1>1
<1>7. /\ \A x \in DOMAIN c \ Clock : a[x] = c[x]
      /\ a.hour = h /\ a.weekday = w /\ a.day_of_month = m
      /\ a.seconds_since_boot = s
  <2> HIDE DEF m
  <2> QED
    BY <1>1, <1>5 DEF Clock
<1>8. \A x \in DOMAIN p \ {"day_of_month", "seconds_since_boot"} : a[x] = p[x]
  BY <1>3, <1>7 DEF Clock
<1>9. ASSUME Reads(e, "day_of_month")
      PROVE  a.day_of_month = p.day_of_month
  <2>0. /\ c.day_of_month + ((c.hour + Horizon) \div HoursPerDay) <= length
        /\ length \in Nat
    BY <1>9, CalendarAssumption DEF MonthGoesOn
  <2>1. (c.hour + Horizon) \div HoursPerDay \in Nat
    BY <1>2
  <2>2. ~ (day > length)
    BY <1>2, <1>4, <2>0, <2>1
  <2> QED
    BY <1>3, <1>7, <2>2
<1>10. Reads(e, "seconds_since_boot") =>
         a.seconds_since_boot = p.seconds_since_boot
  <2>1. t = k * SecondsPerHour => a.seconds_since_boot = p.seconds_since_boot
    BY <1>3, <1>7 DEF s
  <2> QED
    BY <2>1
<1>11. DOMAIN a = DOMAIN p
  BY <1>3, <1>6
<1>12. \A x \in DOMAIN p : Reads(e, x) => a[x] = p[x]
  BY <1>8, <1>9, <1>10
<1>13. EvalExpr(e, a) = EvalExpr(e, p)
  BY <1>11, <1>12, Unread
<1>14. Allows(e, a) <=> Allows(e, p)
  BY <1>13, AllowsIsTrue
<1> QED
  BY <1>14 DEF a, p

(* Hour by hour, and second by second for a rule that does not ask for     *)
(* the seconds: where it is closed b hours long, it is closed to the last. *)
LEMMA ClosedByTheHour ==
  ASSUME NEW c, IsContext(c), NEW e \in Rules,
         NEW past \in 0 .. SecondsPerHour - 1,
         NEW length \in MonthLengths, MonthGoesOn(e, c, length),
         NEW b \in 0 .. Horizon,
         \A j \in 0 .. b : ~ Allows(e, HoursOn(c, j))
  PROVE  /\ \A j \in 0 .. b :
              ~ Allows(e, ClockAt(c, past, j * SecondsPerHour, length))
         /\ ~ Reads(e, "seconds_since_boot") =>
              \A t \in 0 .. b * SecondsPerHour :
                ~ Allows(e, ClockAt(c, past, t, length))
<1>1. b \in Nat /\ past \in Nat /\ \A j \in 0 .. b : j \in 0 .. Horizon
  BY CalendarAssumption
<1>2. ASSUME NEW j \in 0 .. b
      PROVE  ~ Allows(e, ClockAt(c, past, j * SecondsPerHour, length))
  <2> DEFINE t == j * SecondsPerHour
  <2>1. /\ t \in Nat /\ j = Begun(past, t)
        /\ t = j * SecondsPerHour
    BY <1>1, WholeHours
  <2> HIDE DEF t
  <2>2. Allows(e, ClockAt(c, past, t, length)) <=> Allows(e, HoursOn(c, j))
    BY <1>1, <2>1, AllowsByTheHour
  <2> QED
    BY <2>1, <2>2
<1>3. ASSUME ~ Reads(e, "seconds_since_boot"),
             NEW t \in 0 .. b * SecondsPerHour
      PROVE  ~ Allows(e, ClockAt(c, past, t, length))
  <2>1. PICK j \in 0 .. b : j = Begun(past, t)
    BY <1>1, HoursBegun
  <2>2. t \in Nat
    BY <1>1, CalendarAssumption
  <2>3. Allows(e, ClockAt(c, past, t, length)) <=> Allows(e, HoursOn(c, j))
    BY <1>1, <1>3, <2>1, <2>2, AllowsByTheHour
  <2> QED
    BY <2>3
<1> QED
  BY <1>2, <1>3

-----------------------------------------------------------------------------
(* What is answered is decided.                                            *)

Answered == /\ rule \in Rules \cup {NoRule}
            /\ moment \in Moments
            /\ decision = Decide(rule, moment)

(* The decision is always the one for the rule and the context it was      *)
(* asked of.                                                               *)
LEMMA AlwaysAnswered == AskSpec => []Answered
<1>1. NothingAsked => Answered
  BY DEF NothingAsked, Answered, Decide
<1>2. Answered /\ [AskAny]_asked => Answered'
  <2> SUFFICES ASSUME Answered, [AskAny]_asked
               PROVE  Answered'
    OBVIOUS
  <2>1. CASE AskAny
    BY <2>1 DEF AskAny, Ask, Answered
  <2>2. CASE UNCHANGED asked
    BY <2>2 DEF asked, Answered
  <2> QED
    BY <2>1, <2>2
<1> QED
  BY <1>1, <1>2, PTL DEF AskSpec

(* "not" and "or" never launder an error: a policy opens exactly when none *)
(* of its predicates, in whatever branch, is one, and it is true.          *)
THEOREM NoErrorOpens == AskSpec => []ErrorNeverOpens
<1>1. Answered => ErrorNeverOpens
  <2> SUFFICES ASSUME Answered
               PROVE  ErrorNeverOpens
    OBVIOUS
  <2>1. \A v, n : Decision(v, n).verdict = v
    BY DEF Decision
  <2>2. CASE rule = NoRule
    BY <2>1, <2>2 DEF Answered, ErrorNeverOpens, Decide
  <2>3. CASE rule \in Rules
    <3>1. rule # NoRule /\ decision = Decide(rule, moment)
      BY <2>3, RulesAssumption DEF Answered
    <3>2. decision.verdict = "allow" <=> EvalExpr(rule, moment) = "true"
      BY <2>3, <3>1, AllowIffTrue
    <3> QED
      BY <2>3, <3>1, <3>2, AllowsIsTrue DEF ErrorNeverOpens
  <2> QED
    BY <2>2, <2>3 DEF Answered
<1> QED
  BY <1>1, AlwaysAnswered, PTL

(* The answer against the week to come, for one second of the hour and one *)
(* length of the month.                                                    *)
LEMMA ToldOfTheWeek ==
  ASSUME NEW c, IsContext(c), NEW e \in Rules,
         NEW past \in 0 .. SecondsPerHour - 1,
         NEW length \in MonthLengths, MonthGoesOn(e, c, length)
  PROVE  \/ Decide(e, c).verdict = "allow"
         \/ /\ Decide(e, c).verdict = "deny"
            /\ \A k \in 0 .. Horizon :
                 ~ Allows(e, ClockAt(c, past, k * SecondsPerHour, length))
            /\ ~ Reads(e, "seconds_since_boot") =>
                 \A t \in 0 .. Horizon * SecondsPerHour :
                   ~ Allows(e, ClockAt(c, past, t, length))
         \/ \E k \in 1 .. Horizon :
              /\ Decide(e, c) = Decision("defer", k * SecondsPerHour)
              /\ Allows(e, ClockAt(c, past, k * SecondsPerHour, length))
              /\ \A j \in 0 .. k - 1 :
                   ~ Allows(e, ClockAt(c, past, j * SecondsPerHour, length))
              /\ ~ Reads(e, "seconds_since_boot") =>
                   \A t \in 0 .. (k - 1) * SecondsPerHour :
                     ~ Allows(e, ClockAt(c, past, t, length))
<1>1. \A v, n : Decision(v, n).verdict = v
  BY DEF Decision
<1>2. CASE Allows(e, c) /\ Decide(e, c) = Decision("allow", 0)
  BY <1>1, <1>2
<1>3. CASE /\ \A k \in 0 .. Horizon : ~ Allows(e, HoursOn(c, k))
           /\ Decide(e, c) = Decision("deny", 0)
  <2>1. Horizon \in 0 .. Horizon
    BY CalendarAssumption
  <2> QED
    BY <1>1, <1>3, <2>1, ClosedByTheHour
<1>4. ASSUME NEW k \in 1 .. Horizon, Allows(e, HoursOn(c, k)),
             \A j \in 0 .. k - 1 : ~ Allows(e, HoursOn(c, j)),
             Decide(e, c) = Decision("defer", k * SecondsPerHour)
      PROVE  /\ Allows(e, ClockAt(c, past, k * SecondsPerHour, length))
             /\ \A j \in 0 .. k - 1 :
                  ~ Allows(e, ClockAt(c, past, j * SecondsPerHour, length))
             /\ ~ Reads(e, "seconds_since_boot") =>
                  \A t \in 0 .. (k - 1) * SecondsPerHour :
                    ~ Allows(e, ClockAt(c, past, t, length))
  <2>1. /\ k \in 0 .. Horizon /\ k - 1 \in 0 .. Horizon /\ k \in Nat
        /\ past \in Nat
    BY CalendarAssumption
  <2> DEFINE t == k * SecondsPerHour
  <2>2. /\ t \in Nat /\ k = Begun(past, t)
        /\ t = k * SecondsPerHour
    BY <2>1, WholeHours
  <2> HIDE DEF t
  <2>3. Allows(e, ClockAt(c, past, t, length))
    BY <1>4, <2>1, <2>2, AllowsByTheHour
  <2>4. PICK b \in 0 .. Horizon : b = k - 1
    BY <2>1
  <2>5. /\ \A j \in 0 .. b :
             ~ Allows(e, ClockAt(c, past, j * SecondsPerHour, length))
        /\ ~ Reads(e, "seconds_since_boot") =>
             \A s \in 0 .. b * SecondsPerHour :
               ~ Allows(e, ClockAt(c, past, s, length))
    BY <1>4, <2>4, ClosedByTheHour
  <2> QED
    BY <2>2, <2>3, <2>4, <2>5
<1> QED
  BY <1>2, <1>3, <1>4, DecideByTheHours

(* The wait that is told is the time to the first of the whole hours of    *)
(* the coming week that allows, and there is none where none is told; and  *)
(* between them, unless the rule asks for the seconds since the boot, none *)
(* allows a whole hour before.  All of it for a rule on the day of the     *)
(* month while the month goes on.                                          *)
THEOREM TheFirstHourIsTold == AskSpec => []DeferIsTheFirstHour
<1>1. Answered => DeferIsTheFirstHour
  <2> SUFFICES ASSUME Answered, rule # NoRule
               PROVE  DeferIsTheFirstHour
    BY DEF DeferIsTheFirstHour
  <2>1. \A v, n : Decision(v, n).verdict = v /\ Decision(v, n).seconds = n
    BY DEF Decision
  <2>2. rule \in Rules /\ IsContext(moment) /\ decision = Decide(rule, moment)
    BY MomentsAssumption DEF Answered
  <2>3. decision.verdict \in {"allow", "defer", "deny"}
    BY <2>1, <2>2, DecideByTheHours
  <2>4. ASSUME NEW past \in 0 .. SecondsPerHour - 1,
               NEW length \in MonthLengths, MonthGoesOn(rule, moment, length)
        PROVE  LET when  == {t \in 0 .. Horizon * SecondsPerHour :
                               Allows(rule, ClockAt(moment, past, t, length))}
                   hours == {k * SecondsPerHour : k \in 0 .. Horizon}
               IN  /\ decision.verdict = "deny" => when \cap hours = {}
                   /\ decision.verdict = "defer" =>
                        /\ decision.seconds \in when \cap hours
                        /\ \A t \in when \cap hours : decision.seconds <= t
                   /\ ~ Reads(rule, "seconds_since_boot") =>
                        /\ decision.verdict = "deny" => when = {}
                        /\ decision.verdict = "defer" =>
                             \A t \in when :
                               decision.seconds < t + SecondsPerHour
    <3> DEFINE Open(t) == Allows(rule, ClockAt(moment, past, t, length))
               when  == {t \in 0 .. Horizon * SecondsPerHour : Open(t)}
               hours == {k * SecondsPerHour : k \in 0 .. Horizon}
    <3>1. SecondsPerHour \in Nat \ {0} /\ Horizon \in Nat
      BY CalendarAssumption
    <3>2. \A i, j \in Nat : /\ i * SecondsPerHour \in Nat
                            /\ i <= j => i * SecondsPerHour
                                           <= j * SecondsPerHour
      BY <3>1
    <3>3. \/ decision.verdict = "allow"
          \/ /\ decision.verdict = "deny"
             /\ \A k \in 0 .. Horizon : ~ Open(k * SecondsPerHour)
             /\ ~ Reads(rule, "seconds_since_boot") =>
                  \A t \in 0 .. Horizon * SecondsPerHour : ~ Open(t)
          \/ \E k \in 1 .. Horizon :
               /\ decision = Decision("defer", k * SecondsPerHour)
               /\ Open(k * SecondsPerHour)
               /\ \A j \in 0 .. k - 1 : ~ Open(j * SecondsPerHour)
               /\ ~ Reads(rule, "seconds_since_boot") =>
                    \A t \in 0 .. (k - 1) * SecondsPerHour : ~ Open(t)
      BY <2>2, <2>4, ToldOfTheWeek
    <3> HIDE DEF Open
    <3>4. CASE decision.verdict = "allow"
      BY <3>4 DEF Open
    <3>5. CASE /\ decision.verdict = "deny"
               /\ \A k \in 0 .. Horizon : ~ Open(k * SecondsPerHour)
               /\ ~ Reads(rule, "seconds_since_boot") =>
                    \A t \in 0 .. Horizon * SecondsPerHour : ~ Open(t)
      BY <3>5 DEF Open
    <3>6. ASSUME NEW k \in 1 .. Horizon,
                 decision = Decision("defer", k * SecondsPerHour),
                 Open(k * SecondsPerHour),
                 \A j \in 0 .. k - 1 : ~ Open(j * SecondsPerHour),
                 ~ Reads(rule, "seconds_since_boot") =>
                    \A t \in 0 .. (k - 1) * SecondsPerHour : ~ Open(t)
          PROVE  /\ decision.verdict = "defer"
                 /\ decision.seconds \in when \cap hours
                 /\ \A t \in when \cap hours : decision.seconds <= t
                 /\ ~ Reads(rule, "seconds_since_boot") =>
                      \A t \in when : decision.seconds < t + SecondsPerHour
      <4>1. /\ decision.verdict = "defer"
            /\ decision.seconds = k * SecondsPerHour
        BY <2>1, <3>6
      <4>2. k \in Nat /\ k \in 0 .. Horizon /\ k - 1 \in Nat /\ k <= Horizon
        BY <3>1
      <4>3. k * SecondsPerHour \in 0 .. Horizon * SecondsPerHour
        BY <3>1, <3>2, <4>2
      <4>4. decision.seconds \in when \cap hours
        BY <3>6, <4>1, <4>2, <4>3
      <4>5. ASSUME NEW t \in when \cap hours
            PROVE  decision.seconds <= t
        <5>1. PICK j \in 0 .. Horizon : t = j * SecondsPerHour
          OBVIOUS
        <5>2. j \notin 0 .. k - 1
          BY <3>6, <4>5, <5>1
        <5>3. k <= j /\ j \in Nat
          BY <3>1, <4>2, <5>2
        <5> QED
          BY <3>2, <4>1, <4>2, <5>1, <5>3
      <4>6. ASSUME ~ Reads(rule, "seconds_since_boot"), NEW t \in when
            PROVE  decision.seconds < t + SecondsPerHour
        <5>1. t \in 0 .. Horizon * SecondsPerHour
              /\ t \notin 0 .. (k - 1) * SecondsPerHour
          BY <3>6, <4>6
        <5>2. /\ (k - 1) * SecondsPerHour \in Nat
              /\ (k - 1) * SecondsPerHour + SecondsPerHour = k * SecondsPerHour
              /\ Horizon * SecondsPerHour \in Nat
          BY <3>1, <3>2, <4>2
        <5>3. t \in Nat /\ t > (k - 1) * SecondsPerHour
          BY <5>1, <5>2
        <5> QED
          BY <3>1, <4>1, <5>2, <5>3
      <4> QED
        BY <4>1, <4>4, <4>5, <4>6
    <3>7. /\ decision.verdict = "deny" => when \cap hours = {}
          /\ decision.verdict = "defer" =>
               /\ decision.seconds \in when \cap hours
               /\ \A t \in when \cap hours : decision.seconds <= t
          /\ ~ Reads(rule, "seconds_since_boot") =>
               /\ decision.verdict = "deny" => when = {}
               /\ decision.verdict = "defer" =>
                    \A t \in when : decision.seconds < t + SecondsPerHour
      <4>1. CASE decision.verdict = "allow"
        BY <4>1
      <4>2. CASE decision.verdict = "deny"
        BY <3>3, <3>5, <3>6, <4>2
      <4>3. CASE decision.verdict = "defer"
        <5>1. PICK k \in 1 .. Horizon :
                /\ decision = Decision("defer", k * SecondsPerHour)
                /\ Open(k * SecondsPerHour)
                /\ \A j \in 0 .. k - 1 : ~ Open(j * SecondsPerHour)
                /\ ~ Reads(rule, "seconds_since_boot") =>
                     \A t \in 0 .. (k - 1) * SecondsPerHour : ~ Open(t)
          BY <3>3, <4>3
        <5> HIDE DEF when, hours
        <5> QED
          BY <3>6, <4>3, <5>1
      <4> QED
        BY <2>3, <4>1, <4>2, <4>3
    <3> QED
      BY <3>7 DEF Open
  <2> QED
    BY <2>3, <2>4 DEF DeferIsTheFirstHour
<1> QED
  BY <1>1, AlwaysAnswered, PTL

(* What is said of "later" comes true: with nothing but time passing, from *)
(* whatever second of the hour and in a month of whatever length, the      *)
(* vault opens when the wait that was told is over and at no whole hour    *)
(* before; and, unless its policy asks for the seconds since the boot, not *)
(* until less than an hour before.  A policy on the day of the month is    *)
(* spoken of while the month goes on (evaluator.c: 208-216, 243-258).      *)
THEOREM ComeBackThen ==
  ASSUME NEW c, IsContext(c), NEW e \in Rules,
         Decide(e, c).verdict = "defer",
         NEW past \in 0 .. SecondsPerHour - 1,
         NEW length \in MonthLengths, MonthGoesOn(e, c, length)
  PROVE  \E k \in 1 .. Horizon :
           /\ Decide(e, c).seconds = k * SecondsPerHour
           /\ Decide(e, ClockAt(c, past, k * SecondsPerHour, length)).verdict
                = "allow"
           /\ \A j \in 0 .. k - 1 :
                Decide(e, ClockAt(c, past, j * SecondsPerHour, length)).verdict
                  # "allow"
           /\ ~ Reads(e, "seconds_since_boot") =>
                \A t \in 0 .. (k - 1) * SecondsPerHour :
                  Decide(e, ClockAt(c, past, t, length)).verdict # "allow"
<1>1. \A v, n : Decision(v, n).verdict = v /\ Decision(v, n).seconds = n
  BY DEF Decision
<1>2. \A x : Decide(e, x).verdict = "allow" <=> Allows(e, x)
  BY AllowIffTrue, AllowsIsTrue
<1>3. PICK k \in 1 .. Horizon :
        /\ Decide(e, c) = Decision("defer", k * SecondsPerHour)
        /\ Allows(e, ClockAt(c, past, k * SecondsPerHour, length))
        /\ \A j \in 0 .. k - 1 :
             ~ Allows(e, ClockAt(c, past, j * SecondsPerHour, length))
        /\ ~ Reads(e, "seconds_since_boot") =>
             \A t \in 0 .. (k - 1) * SecondsPerHour :
               ~ Allows(e, ClockAt(c, past, t, length))
  BY <1>1, ToldOfTheWeek
<1> QED
  BY <1>1, <1>2, <1>3

(* Every rule has one of three answers in every context: what module Vault *)
(* assumes of Verdict is true of vault_policy_decide.                      *)
THEOREM VerdictOfEveryRule ==
  [e \in Rules |-> [c \in Moments |-> Decide(e, c).verdict]]
    \in [Rules -> [Moments -> {"allow", "defer", "deny"}]]
<1>1. \A v, n : Decision(v, n).verdict = v
  BY DEF Decision
<1>2. ASSUME NEW e \in Rules, NEW c \in Moments
      PROVE  Decide(e, c).verdict \in {"allow", "defer", "deny"}
  BY <1>1, MomentsAssumption, DecideByTheHours
<1> QED
  BY <1>2

=============================================================================
