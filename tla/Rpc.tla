-------------------------------- MODULE Rpc --------------------------------
(***************************************************************************)
(* What the router of the core hub promises a caller: every request is     *)
(* carried out at most once, whether or not somebody still waits for it,   *)
(* and the answer to a request is either an error or the module's own      *)
(* reply to this request, which it has then carried out.                   *)
(***************************************************************************)
EXTENDS Naturals

CONSTANTS Callers, MaxCalls

VARIABLES asked,     \* number of requests accepted
          executed,  \* how often the modules carried a request out
          call       \* per caller: whether it waits, its last request, and
                     \* what it was told: 0 nothing, Error, or the request
                     \* whose reply it was given

rpcVars == <<asked, executed, call>>

Error == MaxCalls + 1

RpcInit == /\ asked = 0
           /\ executed = [a \in 1..MaxCalls |-> 0]
           /\ call = [c \in Callers |->
                        [waiting |-> FALSE, ask |-> 0, told |-> 0]]

Ask(c) ==
  /\ ~call[c].waiting
  /\ asked' = asked + 1
  /\ call' = [call EXCEPT ![c] =
                [waiting |-> TRUE, ask |-> asked + 1, told |-> 0]]
  /\ UNCHANGED executed

Refuse(c) ==
  /\ ~call[c].waiting
  /\ call' = [call EXCEPT ![c] =
                [waiting |-> FALSE, ask |-> 0, told |-> Error]]
  /\ UNCHANGED <<asked, executed>>

Execute(a) ==
  /\ executed[a] = 0
  /\ executed' = [executed EXCEPT ![a] = 1]
  /\ UNCHANGED <<asked, call>>

Answer(c) ==
  /\ call[c].waiting
  /\ executed[call[c].ask] = 1
  /\ call' = [call EXCEPT ![c] =
                [waiting |-> FALSE, ask |-> call[c].ask, told |-> call[c].ask]]
  /\ UNCHANGED <<asked, executed>>

Fail(c) ==
  /\ call[c].waiting
  /\ call' = [call EXCEPT ![c] =
                [waiting |-> FALSE, ask |-> call[c].ask, told |-> Error]]
  /\ UNCHANGED <<asked, executed>>

RpcNext == \/ \E c \in Callers : Ask(c) \/ Refuse(c) \/ Answer(c) \/ Fail(c)
           \/ \E a \in 1..asked : Execute(a)

RpcSpec == RpcInit /\ [][RpcNext]_rpcVars

=============================================================================
