------------------------------- MODULE MCHub -------------------------------
(* Instance of Hub for TLC.                                                *)
EXTENDS Hub

=============================================================================
