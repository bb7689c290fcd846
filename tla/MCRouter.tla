------------------------------ MODULE MCRouter ------------------------------
(* Instance of Router for TLC.                                             *)
EXTENDS Router

=============================================================================
