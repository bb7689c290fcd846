----------------------------- MODULE Lifecycle -----------------------------
(***************************************************************************)
(* The lifecycle rules of core/lifecycle.py and core/registry.py that do   *)
(* not depend on who calls them: the nine states, the allowed transitions, *)
(* the heartbeat thresholds and the restart budget.                        *)
(*                                                                         *)
(* Time is counted in heartbeat intervals.  The code keeps time stamps and *)
(* compares them with the clock; here a time stamp is its age, which stops *)
(* growing once no comparison can tell it from an older one.               *)
(***************************************************************************)
EXTENDS Naturals, Sequences, FiniteSets

CONSTANTS DeadThreshold,  \* heartbeat_dead_threshold: 3 in the program
          MaxRestarts,    \* restart_max_per_hour: 5 in the program
          Window          \* RESTART_WINDOW_S, in heartbeat intervals

ASSUME LifecycleAssumption ==
         /\ DeadThreshold \in Nat \ {0, 1}
         /\ MaxRestarts \in Nat \ {0}
         /\ Window \in Nat \ {0}

ModuleState == {"unregistered", "starting", "registered", "healthy",
                "degraded", "stopping", "stopped", "failed",
                "permanently_failed"}

AllowedTransitions ==
  {<<"unregistered", "starting">>, <<"starting", "registered">>,
   <<"starting", "failed">>,       <<"registered", "healthy">>,
   <<"registered", "failed">>,     <<"registered", "stopping">>,
   <<"healthy", "degraded">>,      <<"degraded", "healthy">>,
   <<"healthy", "stopping">>,      <<"degraded", "stopping">>,
   <<"healthy", "failed">>,        <<"degraded", "failed">>,
   <<"stopping", "stopped">>,      <<"stopping", "failed">>,
   <<"failed", "starting">>,       <<"failed", "permanently_failed">>}

(* The states a module never leaves again.                                 *)
Terminal == {s \in ModuleState :
               \A t \in ModuleState : <<s, t>> \notin AllowedTransitions}

(* _LIVE_STATES of the registry, _LIVENESS_STATES of the sweep.            *)
LiveStates  == {"registered", "healthy", "degraded"}
SweptStates == {"healthy", "degraded"}

-----------------------------------------------------------------------------
(* Heartbeats.  A module's silence is the number of whole intervals since  *)
(* its last heartbeat; NoBeat stands for last_seen = None.                 *)

NoBeat  == DeadThreshold + 1
Silence == 0..NoBeat

LongerSilence(k) == IF k < DeadThreshold THEN k + 1 ELSE k

DesiredState(missed) ==
  IF missed >= DeadThreshold THEN "failed"
  ELSE IF missed >= DeadThreshold - 1 THEN "degraded"
  ELSE "healthy"

(* What one sweep does to a module in state s.                             *)
Swept(s, missed) == IF s \in SweptStates /\ missed # NoBeat
                      THEN DesiredState(missed)
                      ELSE s

-----------------------------------------------------------------------------
(* The restart budget.  The ages of the restarts on record, oldest first.  *)

Age == 0..Window

Older(ages) == [i \in DOMAIN ages |-> IF ages[i] < Window THEN ages[i] + 1
                                                          ELSE Window]

InWindow(age) == age < Window

(* Oldest first, so those beyond the window come before all others.        *)
Expired(ages) == {i \in DOMAIN ages : ~InWindow(ages[i])}

Recent(ages) == SubSeq(ages, Cardinality(Expired(ages)) + 1, Len(ages))

SpentOneLate(ages) == Len(Recent(ages)) > MaxRestarts    \* a mutant of Spent

Spent(ages) == Len(Recent(ages)) >= MaxRestarts

=============================================================================
