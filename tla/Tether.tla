------------------------------- MODULE Tether -------------------------------
(***************************************************************************)
(* TETHER, the dead-man switch (modules/tether/src): one sample of the     *)
(* companion's signal per tick drives the presence machine, the classifier *)
(* of disappearances and the escalation ladder (Monitor::step); commands   *)
(* from the core run between two ticks (handle_inbound).                   *)
(*                                                                         *)
(* A sample is the smoothed signal of the tick: any value is the average   *)
(* of some readings, so the smoothing itself is left out.  Of a signal the *)
(* code asks only whether it is near and whether it is strong, and of the  *)
(* last few whether they declined before the loss.                         *)
(*                                                                         *)
(* The ladder keeps the time of the absence and compares the clock with    *)
(* it; "waited" is the difference, and stops growing when no comparison    *)
(* depends on it any more.                                                 *)
(***************************************************************************)
EXTENDS Naturals, Sequences, FiniteSets, FiniteSetsExt

CONSTANTS AbsentTicks,   \* 5 in the program
          RecoverTicks,  \* 3
          Grace, L1ToL2, L2ToL3, SuspiciousDelay,  \* the ladder's times
          Graces,        \* the values config.set is called with
          MaxGap         \* bound on the time between two samples

HeightenFactor == 2

ASSUME TetherAssumption ==
         /\ AbsentTicks \in Nat \ {0} /\ RecoverTicks \in Nat \ {0}
         /\ Grace \in Nat /\ Grace >= HeightenFactor
         /\ L1ToL2 \in Nat \ {0} /\ L2ToL3 \in Nat \ {0}
         /\ SuspiciousDelay \in Nat
         /\ Graces \subseteq Nat
         /\ MaxGap \in Nat \ {0}

VARIABLES phase,       \* Presence
          missed,      \* ticks_missed_
          recovering,  \* ticks_recovering_
          last,        \* the last signal, if it was seen in the last sample
          verdict,     \* the classifier's verdict
          armed,       \* l3_armed, in the runtime and in the Monitor
          heightened,  \* in the runtime and in the Monitor
          rtGrace,     \* the runtime's grace_ms
          rtStage,     \* the runtime's escalation_stage
          ladder,      \* EscalationLadder
          waited,      \* time since on_absent
          emitted,     \* the last event sent, and nothing at first
          recent,      \* history: the last samples, oldest first
          excused      \* history: this absence is a clean disconnect, or
                       \* the operator has cancelled its escalation

vars == <<phase, missed, recovering, last, verdict, armed, heightened,
          rtGrace, rtStage, ladder, waited, emitted, recent, excused>>

Signal == {"weak", "near", "strong"}
Near   == {"near", "strong"}
Unseen == "unseen"
Sample == Signal \cup {Unseen}

Verdict == {"none", "fade", "clean_drop", "instant_drop"}

NoStage == 0    \* Stage: NONE, L1, L2, L3
Stage   == 0..3

EffectiveGraceLonger(grace, tight) ==             \* a mutant of EffectiveGrace
  IF tight THEN grace * HeightenFactor ELSE grace

EffectiveGrace(grace, tight) == IF tight THEN grace \div HeightenFactor
                                         ELSE grace

Horizon == SuspiciousDelay + Grace + L1ToL2 + L2ToL3

Init == /\ phase      = "present"
        /\ missed     = 0
        /\ recovering = 0
        /\ last       = Unseen
        /\ verdict    = "none"
        /\ armed      = FALSE
        /\ heightened = FALSE
        /\ rtGrace    = Grace
        /\ rtStage    = NoStage
        /\ ladder     = [active |-> FALSE, delay |-> 0, grace |-> Grace,
                         armed |-> FALSE, stage |-> NoStage]
        /\ waited     = 0
        /\ emitted    = [kind |-> "nothing"]
        /\ recent     = <<>>
        /\ excused    = FALSE

-----------------------------------------------------------------------------
(* PresenceMachine::tick.                                                  *)

MissedSinceNear(x) ==                             \* a mutant of Missed
  IF x = Unseen THEN Min({missed + 1, AbsentTicks})
                ELSE IF x = "weak" THEN missed ELSE 0

Missed(x)  == IF x = Unseen THEN Min({missed + 1, AbsentTicks}) ELSE 0

(* Near samples in a row, while absent.                                    *)
NearRun(x) == IF phase = "absent" /\ x \in Near THEN recovering + 1 ELSE 0

PhaseAfter(x) ==
  IF phase = "absent"
    THEN IF NearRun(x) >= RecoverTicks THEN "present" ELSE "absent"
    ELSE IF Missed(x) >= AbsentTicks THEN "absent"
    ELSE IF x \in Near THEN "present" ELSE "fringe"

(* DisappearanceClassifier::observe.  The verdict falls with the first     *)
(* sample unseen.  Only a strong signal that has not declined is an        *)
(* instant drop.                                                           *)
Verdicts(x, clean) ==
  IF x # Unseen         THEN {"none"}
  ELSE IF last = Unseen THEN {verdict}
  ELSE IF clean         THEN {"clean_drop"}
  ELSE IF last = "strong" THEN {"fade", "instant_drop"}
  ELSE {"fade"}

-----------------------------------------------------------------------------
(* EscalationLadder.                                                       *)

RearmedIdle(how) ==                               \* a mutant of Rearmed
  [active |-> FALSE, delay |-> 0, grace |-> EffectiveGrace(Grace, heightened),
   armed |-> armed, stage |-> NoStage]

(* A ladder for a fresh absence, with the configuration of the moment.     *)
Rearmed(how) ==
  [active |-> TRUE,
   delay  |-> IF how = "instant_drop" THEN SuspiciousDelay ELSE 0,
   grace  |-> EffectiveGrace(Grace, heightened),
   armed  |-> armed,
   stage  |-> NoStage]

DueUndelayed(l, t) ==                             \* a mutant of Due
  LET l2 == l.grace + L1ToL2
  IN IF t < l.grace THEN NoStage
     ELSE IF t < l2 THEN 1
     ELSE IF ~l.armed \/ t < l2 + L2ToL3 THEN 2 ELSE 3

(* The stage due after a wait of t.                                        *)
Due(l, t) ==
  LET l1 == l.delay + l.grace
      l2 == l1 + L1ToL2
      l3 == l2 + L2ToL3
  IN IF t < l1 THEN NoStage
     ELSE IF t < l2 THEN 1
     ELSE IF ~l.armed \/ t < l3 THEN 2 ELSE 3

Stopped(l) == [l EXCEPT !.active = FALSE, !.stage = NoStage]

-----------------------------------------------------------------------------
(* Monitor::step, and what the daemon sends and mirrors after it.          *)

Escalation(before, after) ==
  IF after.stage \notin {before.stage, NoStage}
    THEN [kind |-> "escalation", stage |-> after.stage]
    ELSE emitted

(* The companion is confirmed absent.  The suspicious event that follows   *)
(* an instant drop says nothing more.                                      *)
Vanish(how) ==
  /\ ladder'  = Rearmed(how)
  /\ waited'  = 0
  /\ emitted' = [kind |-> "absent", how |-> how]

(* It is back.                                                             *)
Recover ==
  /\ ladder'  = Stopped(ladder)
  /\ waited'  = 0
  /\ emitted' = [kind |-> "recovered", stage |-> ladder.stage]

(* It stays away: the ladder is evaluated.                                 *)
Climb(gap) ==
  LET t == Min({waited + gap, Horizon})
      l == IF ladder.active THEN [ladder EXCEPT !.stage = Due(ladder, t)]
                            ELSE ladder
  IN /\ ladder'  = l
     /\ waited'  = t
     /\ emitted' = Escalation(ladder, l)

(* It has not been away.                                                   *)
Waver(now) ==
  /\ emitted' = IF now = phase THEN emitted ELSE [kind |-> now]
  /\ UNCHANGED <<ladder, waited>>

Memory == Max({AbsentTicks, RecoverTicks})

(* A tick with a sample x, a gap after the one before.  A tick on which    *)
(* the scanner has no sample to give lengthens the gap.                    *)
Step(x, clean, gap) ==
  /\ recent'     = IF Len(recent) < Memory THEN Append(recent, x)
                                            ELSE Append(Tail(recent), x)
  /\ missed'     = Missed(x)
  /\ recovering' = IF NearRun(x) >= RecoverTicks THEN 0 ELSE NearRun(x)
  /\ phase'      = PhaseAfter(x)
  /\ last'       = x
  /\ verdict'    \in Verdicts(x, clean)
  /\ \/ phase # "absent" /\ phase' = "absent" /\ Vanish(verdict')
     \/ phase = "absent" /\ phase' = "absent" /\ Climb(gap)
     \/ phase = "absent" /\ phase' # "absent" /\ Recover
     \/ phase # "absent" /\ phase' # "absent" /\ Waver(phase')
  /\ rtStage' = ladder'.stage
  /\ excused' = (phase' = "absent" /\ IF phase = "absent" THEN excused
                                     ELSE verdict' = "clean_drop")
  /\ UNCHANGED <<armed, heightened, rtGrace>>

Tick == \E x \in Sample, clean \in BOOLEAN, gap \in 1..MaxGap :
          Step(x, clean, gap)

-----------------------------------------------------------------------------
(* Commands (commands_dispatch, then handle_inbound's two setters).        *)

Monitored == <<phase, missed, recovering, last, verdict, ladder, waited,
               emitted, recent>>

(* tether.l3.arm, with a confirmation phrase, and tether.l3.disarm.        *)
SetArmed(on) ==
  /\ armed' = on
  /\ UNCHANGED <<Monitored, heightened, rtGrace, rtStage, excused>>

(* tether.heighten and tether.relax.                                       *)
SetHeightened(on) ==
  /\ heightened' = on
  /\ UNCHANGED <<Monitored, armed, rtGrace, rtStage, excused>>

(* tether.config.set reaches the runtime and not the Monitor.              *)
ConfigSet(grace) ==
  /\ rtGrace' = grace
  /\ UNCHANGED <<Monitored, armed, heightened, rtStage, excused>>

(* tether.escalation.cancel clears the runtime's copy of the stage, until  *)
(* the next tick mirrors the ladder's, which it does not reach.            *)
Cancel ==
  /\ rtStage' = NoStage
  /\ excused' = (phase = "absent")
  /\ UNCHANGED <<Monitored, armed, heightened, rtGrace>>

-----------------------------------------------------------------------------
Next == \/ Tick
        \/ \E on \in BOOLEAN : SetArmed(on) \/ SetHeightened(on)
        \/ \E grace \in Graces : ConfigSet(grace)
        \/ Cancel

Spec == Init /\ [][Next]_vars

(* The daemon's loop ticks as long as the core is there.  That the scanner *)
(* has a sample to give again and again is an assumption on Bluetooth.     *)
FairSpec == Spec /\ WF_vars(Tick)

-----------------------------------------------------------------------------
(* Properties.                                                             *)

LadderType == [active : BOOLEAN, delay : {0, SuspiciousDelay},
               grace : {Grace, Grace \div HeightenFactor},
               armed : BOOLEAN, stage : Stage]

Announcement == [kind : {"nothing", "fringe", "present"}]
                  \cup [kind : {"absent"}, how : Verdict]
                  \cup [kind : {"escalation", "recovered"}, stage : Stage]

(* Every variable keeps its type; a ladder waits its base grace or half.   *)
TypeOK ==
  /\ phase \in {"present", "fringe", "absent"}
  /\ missed \in 0..AbsentTicks
  /\ recovering \in 0..RecoverTicks
  /\ last \in Sample
  /\ verdict \in Verdict
  /\ armed \in BOOLEAN
  /\ heightened \in BOOLEAN
  /\ rtGrace \in Graces \cup {Grace}
  /\ rtStage \in Stage
  /\ ladder \in LadderType
  /\ waited \in 0..Horizon
  /\ emitted \in Announcement
  /\ recent \in Seq(Sample)
  /\ excused \in BOOLEAN

(* The last k samples on record all lie in S.                              *)
Ends(samples, k, S) ==
  /\ Len(samples) >= k
  /\ \A i \in Len(samples) - k + 1 .. Len(samples) : samples[i] \in S

(* Presence is lost and won by uninterrupted runs alone: an absence starts *)
(* after absent_ticks samples unseen in a row and ends after recover_ticks *)
(* near ones in a row; one sample of another kind starts the count again.  *)
PresenceIsEarned ==
  [][/\ phase # "absent" /\ phase' = "absent"
          => Ends(recent', AbsentTicks, {Unseen})
     /\ phase = "absent" /\ phase' # "absent"
          => Ends(recent', RecoverTicks, Near)]_vars

(* What the core hears is the stream of module DeadMan: among its terms,   *)
(* no stage is requested before the absence has lasted its grace and the   *)
(* delay for a suspicious loss, nor the third unless it was armed when the *)
(* absence began (monitor.cpp, escalation.cpp).                            *)
Promise == INSTANCE DeadMan WITH
  TightGrace <- Grace \div HeightenFactor,
  away       <- phase = "absent",
  stage      <- ladder.stage,
  said       <- emitted,
  plan       <- [delay |-> ladder.delay, grace |-> ladder.grace,
                 top |-> IF ladder.armed THEN 3 ELSE 2],
  elapsed    <- waited,
  optedIn    <- armed,
  hurried    <- heightened

ImplementsDeadMan == Promise!DeadManSpec

(* The dead man is noticed: an absence that lasts and that nothing excuses *)
(* climbs to the second stage at least, and to the third if it was armed   *)
(* and stays so, however the other commands and the delay for a suspicious *)
(* loss fall (monitor.cpp, Monitor::step).  Nothing is claimed of what     *)
(* TETHER.md promises not to escalate: an absence that began with a clean  *)
(* disconnect, or whose escalation the operator has cancelled.             *)
AbsenceEscalates ==
  /\ <>[](phase = "absent" /\ ~excused) => <>[](ladder.stage >= 2)
  /\ <>[](phase = "absent" /\ ~excused /\ ladder.armed /\ armed)
       => <>[](ladder.stage = 3)

=============================================================================
