------------------------------ MODULE DeadMan ------------------------------
(***************************************************************************)
(* What TETHER's stream of events promises the core, which acts on each    *)
(* event by itself: an absence is announced once and ended once, stages    *)
(* are requested only within an absence, only upwards and never before     *)
(* their time, a loss that looks like jamming puts every stage off, the    *)
(* top stage is requested only if the operator had opted in when the       *)
(* absence began, and the event that ends an absence names the highest     *)
(* stage requested in it.  A late request may pass over a stage.           *)
(***************************************************************************)
EXTENDS Naturals

CONSTANTS Grace, TightGrace,  \* the wait for the first stage, and the
                              \* shorter one while the operator asks for it
          L1ToL2, L2ToL3,     \* from a stage to the next
          SuspiciousDelay     \* what a loss that looks like jamming adds

VARIABLES away,     \* an absence has been announced and not ended
          stage,    \* the highest stage requested in it, 0 for none
          said,     \* the last announcement: its kind and what it carries
          plan,     \* the terms of the absence, fixed when it is announced
          elapsed,  \* time since then
          optedIn,  \* the operator allows the top stage
          hurried   \* the operator asks for the shorter wait

deadManVars == <<away, stage, said, plan, elapsed, optedIn, hurried>>

operator == <<optedIn, hurried>>

Terms(how) ==
  [delay |-> IF how = "instant_drop" THEN SuspiciousDelay ELSE 0,
   grace |-> IF hurried THEN TightGrace ELSE Grace,
   top   |-> IF optedIn THEN 3 ELSE 2]

(* The earliest time of a stage.                                           *)
Earliest(s) == plan.delay + plan.grace + (IF s >= 2 THEN L1ToL2 ELSE 0)
                                       + (IF s = 3 THEN L2ToL3 ELSE 0)

DeadManInit == /\ away    = FALSE
               /\ stage   = 0
               /\ said    = [kind |-> "nothing"]
               /\ plan    = [delay |-> 0, grace |-> Grace, top |-> 2]
               /\ elapsed = 0
               /\ optedIn = FALSE
               /\ hurried = FALSE

Leave(how) == /\ ~away
              /\ away'    = TRUE
              /\ stage'   = 0
              /\ plan'    = Terms(how)
              /\ elapsed' = 0
              /\ said'    = [kind |-> "absent", how |-> how]
              /\ UNCHANGED operator

Wait == /\ away
        /\ elapsed' >= elapsed
        /\ UNCHANGED <<away, stage, said, plan, operator>>

Request(s) == /\ away
              /\ stage < s
              /\ s <= plan.top
              /\ elapsed' >= elapsed
              /\ elapsed' >= Earliest(s)
              /\ stage' = s
              /\ said'  = [kind |-> "escalation", stage |-> s]
              /\ UNCHANGED <<away, plan, operator>>

Return == /\ away
          /\ away'    = FALSE
          /\ stage'   = 0
          /\ elapsed' = 0
          /\ said'    = [kind |-> "recovered", stage |-> stage]
          /\ UNCHANGED <<plan, operator>>

(* Signs of uncertainty, and of certainty regained, outside an absence.    *)
Waver(kind) == /\ ~away
               /\ said' = [kind |-> kind]
               /\ UNCHANGED <<away, stage, plan, elapsed, operator>>

(* The operator's word counts from the next absence on.                    *)
Operate == /\ optedIn' \in BOOLEAN
           /\ hurried' \in BOOLEAN
           /\ UNCHANGED <<away, stage, said, plan, elapsed>>

DeadManNext == \/ \E how \in {"none", "fade", "clean_drop", "instant_drop"} :
                    Leave(how)
               \/ \E s \in 1..3 : Request(s)
               \/ \E kind \in {"fringe", "present"} : Waver(kind)
               \/ Wait \/ Return \/ Operate

DeadManSpec == DeadManInit /\ [][DeadManNext]_deadManVars

=============================================================================
