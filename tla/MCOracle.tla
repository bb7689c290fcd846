------------------------------ MODULE MCOracle ------------------------------
(* Instance of Oracle for TLC: scores at the threshold, just under it,     *)
(* under the band, beyond the range and not a number.                      *)
EXTENDS Oracle

CONSTANT nan

MCReported == {0, 5, 6, 7, 12, nan}

MCAsked    == {6, 8, 11}
=============================================================================
