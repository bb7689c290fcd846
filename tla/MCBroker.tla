------------------------------ MODULE MCBroker ------------------------------
(* Instance of Broker for TLC: two topics, and two topic lists that        *)
(* overlap and use every pattern form but "*".                             *)
EXTENDS Broker

CONSTANTS a, b

MCTopics     == {<<a, b>>, <<b>>}

MCTopicLists == {{[kind |-> "under", segments |-> <<a>>],
                  [kind |-> "literal", segments |-> <<b>>]},
                 {[kind |-> "ending", segments |-> <<b>>]}}
=============================================================================
