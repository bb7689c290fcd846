------------------------------ MODULE MCVault ------------------------------
(* Instance of Vault for TLC: two vaults, and two policies of which the    *)
(* context allows both or only one; two copies of the longer one are more  *)
(* than the registry's buffer holds.                                       *)
EXTENDS Vault

CONSTANTS v1, v2, day, always

MCVerdict ==
  [p \in {day, always} |-> [c \in {"noon", "night"} |->
     IF p = always \/ c = "noon" THEN "allow" ELSE "defer"]]

MCRegistryFits(r) == \E v \in Vaults : r[v] # day

=============================================================================
