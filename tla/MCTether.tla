------------------------------ MODULE MCTether ------------------------------
(* Instance of Tether for TLC.                                             *)
EXTENDS Tether

=============================================================================
