------------------------------- MODULE MCGate -------------------------------
EXTENDS Gate

(* The second lets the input decide alone; the last is refused.            *)
MCWeightSets == { [a |-> 100, b |-> 0, c |-> 0],
                  [a |-> 60, b |-> 60, c |-> 0] }

=============================================================================
