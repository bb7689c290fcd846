---------------------------- MODULE TetherProofs ----------------------------
(***************************************************************************)
(* Theorems about module Tether, for all thresholds, delays and gaps       *)
(* between samples.                                                        *)
(***************************************************************************)
EXTENDS Tether, TLAPS, SequenceTheorems

(* Min and Max of two numbers.                                             *)
LEMMA MinOfTwo ==
  ASSUME NEW a \in Nat, NEW b \in Nat
  PROVE  Min({a, b}) = IF a <= b THEN a ELSE b
<1> DEFINE m == IF a <= b THEN a ELSE b
<1>1. m \in {a, b} /\ \A y \in {a, b} : m <= y
  OBVIOUS
<1>2. \A x \in {a, b} : (\A y \in {a, b} : x <= y) => x = m
  OBVIOUS
<1> QED
  BY <1>1, <1>2 DEF Min

LEMMA MaxOfTwo ==
  ASSUME NEW a \in Nat, NEW b \in Nat
  PROVE  Max({a, b}) \in Nat /\ a <= Max({a, b}) /\ b <= Max({a, b})
<1> DEFINE m == IF a <= b THEN b ELSE a
<1>1. m \in {a, b} /\ \A y \in {a, b} : m >= y
  OBVIOUS
<1>2. \A x \in {a, b} : (\A y \in {a, b} : x >= y) => x = m
  OBVIOUS
<1>3. Max({a, b}) = m
  BY <1>1, <1>2 DEF Max
<1> QED
  BY <1>3

LEMMA MemoryType ==
  Memory \in Nat /\ AbsentTicks <= Memory /\ RecoverTicks <= Memory
  BY MaxOfTwo, TetherAssumption DEF Memory

(* The samples on record after one more.                                   *)
Longer(samples, x) == IF Len(samples) < Memory THEN Append(samples, x)
                                               ELSE Append(Tail(samples), x)

LEMMA LongerType ==
  ASSUME NEW s \in Seq(Sample), NEW x \in Sample, Len(s) <= Memory
  PROVE  /\ Longer(s, x) \in Seq(Sample)
         /\ Len(Longer(s, x)) \in Nat
         /\ Len(Longer(s, x)) <= Memory
         /\ Len(Longer(s, x)) > 0
         /\ Longer(s, x)[Len(Longer(s, x))] = x
         /\ Len(s) < Memory => Len(Longer(s, x)) = Len(s) + 1
         /\ Len(s) = Memory => Len(Longer(s, x)) = Memory
         /\ \A i \in 1..Len(Longer(s, x)) - 1 :
              Longer(s, x)[i] = s[Len(s) - Len(Longer(s, x)) + 1 + i]
<1>1. Memory \in Nat /\ Memory > 0 /\ Len(s) \in Nat
  BY MemoryType, TetherAssumption
<1>2. CASE Len(s) < Memory
  BY <1>1, <1>2 DEF Longer
<1>3. CASE Len(s) = Memory
  <2>1. s # <<>>
    BY <1>1, <1>3
  <2>2. /\ Tail(s) \in Seq(Sample) /\ Len(Tail(s)) = Memory - 1
        /\ \A i \in 1..Memory - 1 : Tail(s)[i] = s[i + 1]
    BY <1>1, <1>3, <2>1
  <2>3. Longer(s, x) = Append(Tail(s), x)
    BY <1>3 DEF Longer
  <2> QED
    BY <1>1, <1>3, <2>2, <2>3
<1> QED
  BY <1>1, <1>2, <1>3

(* One more sample of the kind makes the run at the end one longer, as     *)
(* long as it fits the record.                                             *)
LEMMA RunGrows ==
  ASSUME NEW s \in Seq(Sample), NEW x \in Sample, Len(s) <= Memory,
         NEW S, x \in S, NEW k \in Nat, k < Memory, Ends(s, k, S)
  PROVE  Ends(Longer(s, x), k + 1, S)
<1> DEFINE t == Longer(s, x)
<1>1. Memory \in Nat /\ Len(s) \in Nat /\ Len(s) >= k
  BY MemoryType DEF Ends
<1>2. /\ Len(t) \in Nat /\ Len(t) > 0 /\ t[Len(t)] = x
      /\ Len(s) < Memory => Len(t) = Len(s) + 1
      /\ Len(s) = Memory => Len(t) = Memory
      /\ \A i \in 1..Len(t) - 1 : t[i] = s[Len(s) - Len(t) + 1 + i]
  BY LongerType
<1> HIDE DEF t
<1>3. Len(t) >= k + 1
  BY <1>1, <1>2
<1>4. ASSUME NEW i \in Len(t) - (k + 1) + 1 .. Len(t)
      PROVE  t[i] \in S
  <2>1. CASE i = Len(t)
    BY <1>2, <2>1
  <2>2. CASE i # Len(t)
    <3>1. /\ i \in 1..Len(t) - 1
          /\ Len(s) - Len(t) + 1 + i \in Len(s) - k + 1 .. Len(s)
      BY <1>1, <1>2, <1>3, <2>2
    <3> QED
      BY <1>2, <3>1 DEF Ends
  <2> QED
    BY <2>1, <2>2
<1>5. Ends(t, k + 1, S)
  BY <1>3, <1>4 DEF Ends
<1> QED
  BY <1>5 DEF t

LEMMA RunShrinks ==
  ASSUME NEW s \in Seq(Sample), NEW S, NEW k \in Nat, NEW j \in 0..k,
         Ends(s, k, S)
  PROVE  Ends(s, j, S)
  BY DEF Ends

-----------------------------------------------------------------------------
(* Types.                                                                  *)

LEMMA GraceType ==
  /\ EffectiveGrace(Grace, heightened) \in {Grace, Grace \div HeightenFactor}
  /\ Grace \div HeightenFactor \in Nat
  BY TetherAssumption DEF EffectiveGrace, HeightenFactor

LEMMA HorizonType == Horizon \in Nat
  BY TetherAssumption DEF Horizon

LEMMA InitType == Init => TypeOK
<1>1. /\ <<>> \in Seq(Sample)
      /\ [active |-> FALSE, delay |-> 0, grace |-> Grace, armed |-> FALSE,
          stage |-> NoStage] \in LadderType
  BY DEF LadderType, NoStage, Stage
<1>2. [kind |-> "nothing"] \in Announcement
  BY DEF Announcement
<1> SUFFICES ASSUME Init
             PROVE  TypeOK
  OBVIOUS
<1>3. armed \in BOOLEAN /\ heightened \in BOOLEAN /\ excused \in BOOLEAN
  BY Zenon DEF Init
<1>4. missed \in 0..AbsentTicks /\ recovering \in 0..RecoverTicks
      /\ waited \in 0..Horizon
  BY HorizonType, TetherAssumption DEF Init
<1> QED
  BY <1>1, <1>2, <1>3, <1>4
  DEF Init, TypeOK, Sample, Verdict, Stage, NoStage

LEMMA MissedType ==
  ASSUME TypeOK, NEW x \in Sample
  PROVE  /\ Missed(x) \in 0..AbsentTicks
         /\ Missed(x) \in {0, missed, missed + 1}
         /\ x # Unseen => Missed(x) = 0
         /\ Missed(x) > missed => Missed(x) = missed + 1
<1>1. missed \in 0..AbsentTicks /\ AbsentTicks \in Nat
  BY TetherAssumption DEF TypeOK
<1>2. Min({missed + 1, AbsentTicks})
        = IF missed + 1 <= AbsentTicks THEN missed + 1 ELSE AbsentTicks
  BY <1>1, MinOfTwo
<1> QED
  BY <1>1, <1>2 DEF Missed

LEMMA DueType ==
  ASSUME NEW l \in LadderType, NEW t \in Nat
  PROVE  Due(l, t) \in Stage
  BY DEF Due, Stage, NoStage

LEMMA EscalationType ==
  ASSUME TypeOK, NEW l \in LadderType, NEW k \in LadderType
  PROVE  Escalation(k, l) \in Announcement
  BY DEF TypeOK, Escalation, Announcement, LadderType

LEMMA VerdictType ==
  ASSUME TypeOK, NEW x \in Sample, NEW clean \in BOOLEAN, NEW gap \in Nat,
         Step(x, clean, gap)
  PROVE  verdict' \in Verdict
  BY DEF Step, Verdicts, Verdict, TypeOK

(* What a tick does to the ladder and to what is said.                     *)
LEMMA LadderStepType ==
  ASSUME TypeOK, NEW x \in Sample, NEW clean \in BOOLEAN, NEW gap \in Nat,
         Step(x, clean, gap)
  PROVE  ladder' \in LadderType /\ waited' \in 0..Horizon
         /\ emitted' \in Announcement
<1> USE HorizonType
<1>1. CASE Vanish(verdict')
  <2>1. Rearmed(verdict') \in LadderType
    BY GraceType DEF Rearmed, LadderType, NoStage, Stage, TypeOK
  <2> QED
    BY <1>1, <2>1, VerdictType DEF Vanish, Announcement
<1>2. CASE Climb(gap)
  <2> DEFINE t == Min({waited + gap, Horizon})
             l == IF ladder.active
                    THEN [ladder EXCEPT !.stage = Due(ladder, t)]
                    ELSE ladder
  <2>1. t \in 0..Horizon
    BY MinOfTwo DEF TypeOK
  <2>2. l \in LadderType
    <3>1. Due(ladder, t) \in Stage
      BY <2>1, DueType DEF TypeOK
    <3> QED
      BY <3>1 DEF TypeOK, LadderType
  <2>3. ladder' = l /\ waited' = t /\ emitted' = Escalation(ladder, l)
    BY <1>2 DEF Climb
  <2> HIDE DEF l, t
  <2> QED
    BY <2>1, <2>2, <2>3, EscalationType DEF TypeOK
<1>3. CASE Recover
  <2>1. ladder \in LadderType /\ ladder.stage \in Stage
    BY DEF TypeOK, LadderType
  <2>2. Stopped(ladder) \in LadderType
    <3> DEFINE idle == [ladder EXCEPT !.active = FALSE]
    <3>1. idle \in LadderType
      BY <2>1 DEF LadderType
    <3>2. Stopped(ladder) = [idle EXCEPT !.stage = 0]
      BY DEF Stopped, NoStage
    <3> HIDE DEF idle
    <3> QED
      BY <3>1, <3>2 DEF LadderType, Stage
  <2> QED
    BY <1>3, <2>1, <2>2 DEF Recover, Announcement
<1>4. CASE Waver(phase') /\ phase' # "absent"
  BY <1>4 DEF Waver, TypeOK, Announcement, Step, PhaseAfter
<1> QED
  BY <1>1, <1>2, <1>3, <1>4 DEF Step

LEMMA StepType ==
  ASSUME TypeOK, Len(recent) <= Memory,
         NEW x \in Sample, NEW clean \in BOOLEAN, NEW gap \in Nat,
         Step(x, clean, gap)
  PROVE  TypeOK'
<1>1. ladder' \in LadderType /\ waited' \in 0..Horizon
      /\ emitted' \in Announcement
  BY LadderStepType
<1>2. missed' \in 0..AbsentTicks
  BY MissedType DEF Step
<1>3. recovering' \in 0..RecoverTicks
  BY TetherAssumption DEF Step, TypeOK, NearRun
<1>4. phase' \in {"present", "fringe", "absent"} /\ last' \in Sample
  BY DEF Step, PhaseAfter
<1>5. verdict' \in Verdict
  BY VerdictType
<1>6. recent' \in Seq(Sample)
  BY LongerType DEF Step, Longer, TypeOK
<1>7. rtStage' \in Stage
  BY <1>1 DEF Step, LadderType
<1>8. excused' \in BOOLEAN
  <2>1. excused' = (phase' = "absent" /\ IF phase = "absent" THEN excused
                                         ELSE verdict' = "clean_drop")
    BY DEF Step
  <2> QED
    BY <2>1, Zenon DEF TypeOK
<1> QED
  BY <1>1, <1>2, <1>3, <1>4, <1>5, <1>6, <1>7, <1>8 DEF TypeOK, Step

LEMMA CommandType ==
  ASSUME TypeOK,
         \/ \E on \in BOOLEAN : SetArmed(on) \/ SetHeightened(on)
         \/ \E grace \in Graces : ConfigSet(grace)
         \/ Cancel
  PROVE  TypeOK' /\ UNCHANGED Monitored
<1>1. ASSUME NEW on \in BOOLEAN, SetArmed(on) \/ SetHeightened(on)
      PROVE  TypeOK' /\ UNCHANGED Monitored
  <2>1. /\ UNCHANGED <<Monitored, rtGrace, rtStage, excused>>
        /\ armed' = armed \/ armed' = on
        /\ heightened' = heightened \/ heightened' = on
    BY <1>1 DEF SetArmed, SetHeightened
  <2>2. armed' \in BOOLEAN /\ heightened' \in BOOLEAN
    BY <2>1, Zenon DEF TypeOK
  <2> QED
    BY <2>1, <2>2 DEF TypeOK, Monitored
<1>2. ASSUME NEW grace \in Graces, ConfigSet(grace)
      PROVE  TypeOK' /\ UNCHANGED Monitored
  BY <1>2 DEF ConfigSet, TypeOK, Monitored
<1>3. CASE Cancel
  <2>1. /\ UNCHANGED <<Monitored, armed, heightened, rtGrace>>
        /\ rtStage' \in Stage /\ excused' = (phase = "absent")
    BY <1>3 DEF Cancel, Stage, NoStage
  <2>2. excused' \in BOOLEAN
    BY <2>1, Zenon
  <2> QED
    BY <2>1, <2>2 DEF TypeOK, Monitored
<1> QED
  BY <1>1, <1>2, <1>3

-----------------------------------------------------------------------------
(* The runs of samples, and the ladder, over time.                         *)

(* The counters count runs at the end of the record, and none is full      *)
(* while it still counts.                                                  *)
Counted == /\ Len(recent) <= Memory
           /\ recovering < RecoverTicks
           /\ Ends(recent, missed, {Unseen})
           /\ Ends(recent, recovering, Near)

(* A ladder is climbed in an absence, never ahead of the time it waits.    *)
Laddered == IF phase = "absent"
              THEN ladder.active /\ ladder.stage <= Due(ladder, waited)
              ELSE ladder.stage = NoStage

TetherInv == TypeOK /\ Counted /\ Laddered

LEMMA InitInv == Init => TetherInv
<1> SUFFICES ASSUME Init
             PROVE  TetherInv
  OBVIOUS
<1>1. TypeOK
  BY InitType
<1>2. Counted
  BY MemoryType, TetherAssumption DEF Init, Counted, Ends
<1>3. Laddered
  BY DEF Init, Laddered
<1> QED
  BY <1>1, <1>2, <1>3 DEF TetherInv

LEMMA DueGrows ==
  ASSUME NEW l \in LadderType, NEW t \in Nat, NEW u \in Nat, t <= u
  PROVE  Due(l, t) <= Due(l, u)
<1>1. l.delay \in Nat /\ l.grace \in Nat /\ L1ToL2 \in Nat /\ L2ToL3 \in Nat
  BY TetherAssumption, GraceType DEF LadderType
<1> QED
  BY <1>1 DEF Due, NoStage

(* A ladder that is climbed keeps all but its stage, which only grows.     *)
LEMMA ClimbsHigher ==
  ASSUME TypeOK, Laddered, phase = "absent", NEW gap \in Nat, Climb(gap)
  PROVE  /\ ladder' = [ladder EXCEPT !.stage = ladder'.stage]
         /\ ladder'.active = ladder.active
         /\ ladder'.stage = Due(ladder', waited')
         /\ ladder'.stage \in Stage
         /\ ladder.stage <= ladder'.stage
         /\ emitted' = Escalation(ladder, ladder')
<1> DEFINE t == Min({waited + gap, Horizon})
           s == Due(ladder, t)
<1>1. ladder \in LadderType /\ waited \in 0..Horizon /\ Horizon \in Nat
  BY HorizonType DEF TypeOK
<1>2. t \in Nat /\ waited <= t
  BY <1>1, MinOfTwo
<1>3. s \in Stage /\ ladder.stage \in Stage
      /\ Due(ladder, waited) \in Stage /\ Due(ladder, waited) <= s
  BY <1>1, <1>2, DueType, DueGrows DEF LadderType
<1>4. ladder.stage <= s
  BY <1>3 DEF Laddered, Stage
<1>5. ladder' = [ladder EXCEPT !.stage = s] /\ waited' = t
      /\ emitted' = Escalation(ladder, ladder')
  BY DEF Climb, Laddered
<1>6. ladder'.stage = s /\ ladder'.active = ladder.active
  BY <1>1, <1>5 DEF LadderType
<1>7. Due(ladder', t) = s
  BY <1>1, <1>5 DEF LadderType, Due
<1> QED
  BY <1>3, <1>4, <1>5, <1>6, <1>7

LEMMA StepCounted ==
  ASSUME TypeOK, Counted,
         NEW x \in Sample, NEW clean \in BOOLEAN, NEW gap \in Nat,
         Step(x, clean, gap)
  PROVE  /\ Counted'
         /\ phase # "absent" /\ phase' = "absent"
              => Ends(recent', AbsentTicks, {Unseen})
         /\ phase = "absent" /\ phase' # "absent"
              => Ends(recent', RecoverTicks, Near)
<1>1. /\ recent \in Seq(Sample) /\ recent' = Longer(recent, x)
      /\ Len(recent) <= Memory
      /\ missed \in 0..AbsentTicks /\ missed' = Missed(x)
      /\ recovering \in Nat /\ recovering < RecoverTicks
      /\ AbsentTicks \in Nat \ {0} /\ RecoverTicks \in Nat \ {0}
  BY TetherAssumption DEF TypeOK, Step, Longer, Counted
<1>2. recent' \in Seq(Sample) /\ Len(recent') \in Nat /\ Len(recent') <= Memory
  BY <1>1, LongerType
<1>3. \A S : Ends(recent', 0, S)
  BY <1>2 DEF Ends
<1>4. Ends(recent', missed', {Unseen})
  <2>1. CASE x # Unseen
    BY <1>1, <1>3, <2>1, MissedType
  <2>2. CASE x = Unseen /\ missed < AbsentTicks
    <3>1. missed' = missed + 1
      BY <1>1, <2>2, MinOfTwo DEF Missed
    <3>2. Ends(Longer(recent, x), missed + 1, {Unseen})
      BY <1>1, <2>2, MemoryType, RunGrows DEF Counted
    <3> QED
      BY <1>1, <3>1, <3>2
  <2>3. CASE x = Unseen /\ missed = AbsentTicks
    <3>1. missed' = AbsentTicks
      BY <1>1, <2>3, MinOfTwo DEF Missed
    <3>2. PICK k \in Nat : k + 1 = AbsentTicks /\ k < Memory
      <4>1. AbsentTicks - 1 \in Nat /\ AbsentTicks - 1 + 1 = AbsentTicks
            /\ AbsentTicks - 1 < Memory
        BY <1>1, MemoryType
      <4> QED
        BY <4>1
    <3>3. Ends(recent, k, {Unseen})
      BY <1>1, <2>3, <3>2, RunShrinks DEF Counted
    <3>4. Ends(Longer(recent, x), k + 1, {Unseen})
      BY <1>1, <2>3, <3>2, <3>3, RunGrows
    <3> QED
      BY <1>1, <3>1, <3>2, <3>4
  <2> QED
    BY <1>1, <2>1, <2>2, <2>3
<1>5. CASE phase = "absent" /\ x \in Near
  <2>1. NearRun(x) = recovering + 1
    BY <1>5 DEF NearRun
  <2>2. Ends(recent', recovering + 1, Near)
    BY <1>1, <1>5, MemoryType, RunGrows DEF Counted
  <2>3. CASE recovering + 1 < RecoverTicks
    <3>1. recovering' = recovering + 1 /\ phase' = "absent"
      BY <1>1, <1>5, <2>1, <2>3 DEF Step, PhaseAfter
    <3> QED
      BY <1>1, <1>2, <1>4, <1>5, <2>2, <2>3, <3>1 DEF Counted
  <2>4. CASE recovering + 1 = RecoverTicks
    <3>1. recovering' = 0
      BY <1>1, <2>1, <2>4 DEF Step
    <3> QED
      BY <1>1, <1>2, <1>3, <1>4, <1>5, <2>2, <2>4, <3>1 DEF Counted
  <2> QED
    BY <1>1, <2>3, <2>4
<1>6. CASE ~(phase = "absent" /\ x \in Near)
  <2>1. NearRun(x) = 0 /\ recovering' = 0
    BY <1>1, <1>6 DEF NearRun, Step
  <2>2. phase = "absent" => phase' = "absent"
    BY <1>1, <2>1 DEF Step, PhaseAfter
  <2>3. phase # "absent" /\ phase' = "absent" => missed' = AbsentTicks
    BY <1>1, MissedType DEF Step, PhaseAfter
  <2> QED
    BY <1>1, <1>2, <1>3, <1>4, <2>1, <2>2, <2>3 DEF Counted
<1> QED
  BY <1>5, <1>6

LEMMA StepLaddered ==
  ASSUME TypeOK, Laddered,
         NEW x \in Sample, NEW clean \in BOOLEAN, NEW gap \in Nat,
         Step(x, clean, gap)
  PROVE  Laddered'
<1>1. CASE phase' = "absent" /\ Vanish(verdict')
  <2>1. ladder' = Rearmed(verdict') /\ waited' = 0
    BY <1>1 DEF Vanish
  <2>2. ladder'.active /\ ladder'.stage = 0
    BY <2>1 DEF Rearmed, NoStage
  <2>3. Due(ladder', waited') \in Nat
    BY DEF Due, NoStage
  <2> QED
    BY <1>1, <2>2, <2>3 DEF Laddered
<1>2. CASE phase = "absent" /\ phase' = "absent" /\ Climb(gap)
  BY <1>2, ClimbsHigher DEF Laddered, Stage
<1>3. CASE phase' # "absent" /\ Recover
  BY <1>3 DEF Recover, Stopped, Laddered, TypeOK, LadderType
<1>4. CASE phase # "absent" /\ phase' # "absent" /\ Waver(phase')
  BY <1>4 DEF Waver, Laddered
<1> QED
  BY <1>1, <1>2, <1>3, <1>4 DEF Step

(* Every step of the monitor is a sample's or keeps what it knows.         *)
LEMMA StepOrCommand ==
  ASSUME TypeOK, [Next]_vars
  PROVE  \/ \E x \in Sample, clean \in BOOLEAN, gap \in Nat :
              Step(x, clean, gap)
         \/ TypeOK' /\ UNCHANGED Monitored
<1>1. 1..MaxGap \subseteq Nat
  OBVIOUS
<1>2. CASE Tick
  BY <1>1, <1>2 DEF Tick
<1>3. CASE UNCHANGED vars
  BY <1>3 DEF vars, Monitored, TypeOK
<1> QED
  BY <1>2, <1>3, CommandType DEF Next

LEMMA NextInv == TetherInv /\ [Next]_vars => TetherInv'
<1> SUFFICES ASSUME TetherInv, [Next]_vars
             PROVE  TetherInv'
  OBVIOUS
<1>1. TypeOK /\ Counted /\ Laddered /\ Len(recent) <= Memory
  BY DEF TetherInv, Counted
<1>2. ASSUME NEW x \in Sample, NEW clean \in BOOLEAN, NEW gap \in Nat,
             Step(x, clean, gap)
      PROVE  TetherInv'
  BY <1>1, <1>2, StepType, StepCounted, StepLaddered DEF TetherInv
<1>3. CASE TypeOK' /\ UNCHANGED Monitored
  BY <1>1, <1>3 DEF TetherInv, Monitored, Counted, Laddered
<1> QED
  BY <1>1, <1>2, <1>3, StepOrCommand

LEMMA TetherInvariant == Spec => []TetherInv
<1> QED
  BY InitInv, NextInv, PTL DEF Spec

(* Every variable of the monitor and of the runtime keeps its type.        *)
THEOREM TypeInvariant == Spec => []TypeOK
<1>1. TetherInv => TypeOK
  BY DEF TetherInv
<1> QED
  BY <1>1, TetherInvariant, PTL

-----------------------------------------------------------------------------
(* Presence is lost and won by uninterrupted runs of samples               *)
(* (presence.cpp, PresenceMachine::tick).                                  *)
THEOREM RunsDecide == Spec => PresenceIsEarned
<1> DEFINE Earned == /\ phase # "absent" /\ phase' = "absent"
                         => Ends(recent', AbsentTicks, {Unseen})
                     /\ phase = "absent" /\ phase' # "absent"
                         => Ends(recent', RecoverTicks, Near)
<1>1. TetherInv /\ [Next]_vars => [Earned]_vars
  <2> SUFFICES ASSUME TetherInv, [Next]_vars
               PROVE  Earned
    OBVIOUS
  <2>1. TypeOK /\ Counted
    BY DEF TetherInv
  <2>2. CASE UNCHANGED Monitored
    BY <2>2 DEF Monitored
  <2> QED
    BY <2>1, <2>2, StepOrCommand, StepCounted
<1> QED
  BY <1>1, TetherInvariant, PTL DEF Spec, PresenceIsEarned

-----------------------------------------------------------------------------
(* The refinement of DeadMan.                                              *)

(* What an absence is announced with holds for as long as it lasts.        *)
Terms == [delay |-> ladder.delay, grace |-> ladder.grace,
          top |-> IF ladder.armed THEN 3 ELSE 2]

LEMMA DueIsNotEarly ==
  ASSUME NEW l \in LadderType, NEW t \in Nat, Due(l, t) # 0
  PROVE  /\ Due(l, t) \in 1..3
         /\ Due(l, t) <= IF l.armed THEN 3 ELSE 2
         /\ t >= l.delay + l.grace + (IF Due(l, t) >= 2 THEN L1ToL2 ELSE 0)
                                   + (IF Due(l, t) = 3 THEN L2ToL3 ELSE 0)
<1>1. /\ l.delay \in Nat /\ l.grace \in Nat
      /\ L1ToL2 \in Nat /\ L2ToL3 \in Nat
  BY TetherAssumption, GraceType DEF LadderType
<1> QED
  BY <1>1 DEF Due, NoStage

LEMMA VanishImplements ==
  ASSUME TetherInv, phase # "absent", phase' = "absent",
         verdict' \in Verdict, Vanish(verdict'),
         UNCHANGED <<armed, heightened>>
  PROVE  Promise!Leave(verdict')
<1>1. /\ ladder' = Rearmed(verdict') /\ waited' = 0
      /\ emitted' = [kind |-> "absent", how |-> verdict']
  BY DEF Vanish
<1>2. ladder'.stage = 0
  BY <1>1 DEF Rearmed, NoStage
<1>3. Terms' = [delay |-> IF verdict' = "instant_drop" THEN SuspiciousDelay
                                                       ELSE 0,
                grace |-> IF heightened THEN Grace \div HeightenFactor
                                        ELSE Grace,
                top   |-> IF armed THEN 3 ELSE 2]
  BY <1>1 DEF Terms, Rearmed, EffectiveGrace
<1> QED
  BY <1>1, <1>2, <1>3
  DEF Promise!Leave, Promise!Terms, Promise!operator, Terms

LEMMA ClimbImplements ==
  ASSUME TetherInv, TypeOK', phase = "absent", phase' = "absent",
         NEW gap \in Nat, Climb(gap), UNCHANGED <<armed, heightened>>
  PROVE  \/ Promise!Wait
         \/ \E s \in 1..3 : Promise!Request(s)
<1>1. TypeOK /\ Laddered /\ ladder \in LadderType
  BY DEF TetherInv, TypeOK
<1>2. /\ ladder' = [ladder EXCEPT !.stage = ladder'.stage]
      /\ ladder'.stage = Due(ladder', waited')
      /\ ladder'.stage \in Stage /\ ladder.stage <= ladder'.stage
      /\ ladder.stage \in Stage
      /\ emitted' = Escalation(ladder, ladder')
  BY <1>1, ClimbsHigher DEF LadderType
<1>3. /\ ladder'.delay = ladder.delay /\ ladder'.grace = ladder.grace
      /\ ladder'.armed = ladder.armed
  BY <1>1, <1>2 DEF LadderType
<1>4. Terms' = Terms
  BY <1>3 DEF Terms
<1>5. waited' >= waited
  <2>1. waited \in Nat /\ waited <= Horizon /\ Horizon \in Nat
    BY <1>1, HorizonType DEF TypeOK
  <2>2. waited' = Min({waited + gap, Horizon})
    BY DEF Climb
  <2> QED
    BY <2>1, <2>2, MinOfTwo
<1>6. CASE ladder'.stage = ladder.stage
  <2>1. emitted' = emitted
    BY <1>2, <1>6 DEF Escalation
  <2> QED
    BY <1>4, <1>5, <1>6, <2>1 DEF Promise!Wait, Promise!operator, Terms
<1>7. CASE ladder'.stage # ladder.stage
  <2> DEFINE s == ladder'.stage
  <2>1. s \in 1..3 /\ s > ladder.stage
    BY <1>2, <1>7 DEF Stage
  <2>2. emitted' = [kind |-> "escalation", stage |-> s]
    BY <1>2, <1>7, <2>1 DEF Escalation, NoStage
  <2>3. ladder' \in LadderType /\ waited' \in Nat
    BY HorizonType DEF TypeOK
  <2>4. /\ s <= IF ladder'.armed THEN 3 ELSE 2
        /\ waited' >= ladder'.delay + ladder'.grace
                         + (IF s >= 2 THEN L1ToL2 ELSE 0)
                         + (IF s = 3 THEN L2ToL3 ELSE 0)
    BY <1>2, <2>1, <2>3, DueIsNotEarly
  <2>5. s <= Terms.top /\ waited' >= Promise!Earliest(s)
    BY <1>3, <2>4 DEF Terms, Promise!Earliest
  <2>6. Promise!Request(s)
    BY <1>4, <1>5, <2>1, <2>2, <2>5
    DEF Promise!Request, Promise!operator, Terms
  <2> QED
    BY <2>1, <2>6
<1> QED
  BY <1>6, <1>7

LEMMA StepImplements ==
  ASSUME TetherInv, TetherInv',
         NEW x \in Sample, NEW clean \in BOOLEAN, NEW gap \in Nat,
         Step(x, clean, gap)
  PROVE  [Promise!DeadManNext]_(Promise!deadManVars)
<1>1. /\ TypeOK /\ TypeOK' /\ Laddered /\ ladder \in LadderType
      /\ UNCHANGED <<armed, heightened>>
  BY DEF TetherInv, TypeOK, Step
<1>2. CASE phase # "absent" /\ phase' = "absent" /\ Vanish(verdict')
  <2>1. verdict' \in Verdict
    BY <1>1, VerdictType
  <2>2. Promise!Leave(verdict')
    BY <1>1, <1>2, <2>1, VanishImplements
  <2> QED
    BY <2>1, <2>2 DEF Promise!DeadManNext, Verdict
<1>3. CASE phase = "absent" /\ phase' = "absent" /\ Climb(gap)
  BY <1>1, <1>3, ClimbImplements DEF Promise!DeadManNext
<1>4. CASE phase = "absent" /\ phase' # "absent" /\ Recover
  <2>1. /\ ladder' = Stopped(ladder) /\ waited' = 0
        /\ emitted' = [kind |-> "recovered", stage |-> ladder.stage]
    BY <1>4 DEF Recover
  <2>2. /\ ladder'.stage = 0 /\ ladder'.delay = ladder.delay
        /\ ladder'.grace = ladder.grace /\ ladder'.armed = ladder.armed
    BY <1>1, <2>1 DEF Stopped, LadderType, NoStage
  <2>3. Promise!Return
    BY <1>1, <1>4, <2>1, <2>2 DEF Promise!Return, Promise!operator
  <2> QED
    BY <2>3 DEF Promise!DeadManNext
<1>5. CASE phase # "absent" /\ phase' # "absent" /\ Waver(phase')
  <2>1. /\ phase' \in {"fringe", "present"}
        /\ ladder' = ladder /\ waited' = waited
    BY <1>5 DEF Step, PhaseAfter, Waver
  <2>2. CASE phase' = phase
    BY <1>1, <1>5, <2>1, <2>2 DEF Waver, Promise!deadManVars
  <2>3. CASE phase' # phase
    <3>1. Promise!Waver(phase')
      BY <1>1, <1>5, <2>1, <2>3 DEF Waver, Promise!Waver, Promise!operator
    <3> QED
      BY <2>1, <3>1 DEF Promise!DeadManNext
  <2> QED
    BY <2>2, <2>3
<1> QED
  BY <1>2, <1>3, <1>4, <1>5 DEF Step

(* What TETHER says to the core is the stream of DeadMan: absences begin   *)
(* and end once; stages only rise, within an absence, never before the     *)
(* grace and the delay for a suspicious loss have passed, and to the third *)
(* only if it was armed when the absence began (monitor.cpp, escalation    *)
(* .cpp).                                                                  *)
THEOREM KeepsPromise == Spec => ImplementsDeadMan
<1>1. Init => Promise!DeadManInit
  BY DEF Init, Promise!DeadManInit, NoStage
<1>2. TetherInv /\ TetherInv' /\ [Next]_vars
        => [Promise!DeadManNext]_(Promise!deadManVars)
  <2> SUFFICES ASSUME TetherInv, TetherInv', [Next]_vars
               PROVE  [Promise!DeadManNext]_(Promise!deadManVars)
    OBVIOUS
  <2>1. CASE TypeOK' /\ UNCHANGED Monitored
    <3>1. Promise!Operate
      BY <2>1 DEF Monitored, TypeOK, Promise!Operate
    <3> QED
      BY <3>1 DEF Promise!DeadManNext
  <2> QED
    BY <2>1, StepOrCommand, StepImplements DEF TetherInv
<1> QED
  BY <1>1, <1>2, TetherInvariant, PTL
  DEF Spec, ImplementsDeadMan, Promise!DeadManSpec

=============================================================================
