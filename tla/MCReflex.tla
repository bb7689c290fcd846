------------------------------ MODULE MCReflex ------------------------------
(* Instance of Reflex for TLC.                                             *)
EXTENDS Reflex
=============================================================================
