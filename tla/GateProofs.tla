----------------------------- MODULE GateProofs -----------------------------
(***************************************************************************)
(* Theorems about module Gate, and Pulse with it, for all levels, scores,  *)
(* weights, danger actions, callers and phrases, and any number of ticks   *)
(* and restarts.                                                           *)
(***************************************************************************)
EXTENDS Gate, TLAPS, SequenceTheorems

(* The weights in force are integers, whoever set them.                    *)
LEMMA WeightsType ==
  ASSUME PulseTypeOK, NEW g \in Groups
  PROVE  weights[g] \in Int
<1>1. CASE weights = DefaultWeights
  BY <1>1 DEF DefaultWeights, Groups
<1>2. CASE weights \in WeightSets
  BY <1>2, PulseAssumption DEF Groups
<1> QED
  BY <1>1, <1>2 DEF PulseTypeOK

LEMMA PresentWeightType ==
  ASSUME PulseTypeOK, NEW reading
  PROVE  PresentWeight(reading, weights) \in Int
<1>1. weights["a"] \in Int /\ weights["b"] \in Int /\ weights["c"] \in Int
  BY WeightsType DEF Groups
<1> QED
  BY <1>1 DEF PresentWeight, Sum3

LEMMA ScoreModeType ==
  ASSUME PulseTypeOK, NEW reading
  PROVE  ScoreMode(reading, weights) \in Mode
<1> DEFINE den == PresentWeight(reading, weights)
<1>1. den = 0 \/ den > 0 \/ den < 0
  BY PresentWeightType
<1>2. \A n, d : ModeForScore(n, d) \in Mode
  BY DEF ModeForScore, Mode
<1>3. "normal" \in Mode
  BY DEF Mode
<1> QED
  BY <1>1, <1>2, <1>3 DEF ScoreMode

LEMMA TickModeType == PulseTypeOK /\ tick # NoTick => TickMode \in Mode
  BY DEF PulseTypeOK, TickMode, Mode

-----------------------------------------------------------------------------
(* Types.                                                                  *)

LEMMA InitType == Init => TypeOK
<1> SUFFICES ASSUME Init
             PROVE  TypeOK
  OBVIOUS
<1>1. PulseTypeOK
  <2>1. drift \in [score : Scores \cup {Absent}, age : 0..DriftWindow]
    BY PulseAssumption DEF Init, PulseInit, NoDrift
  <2>2. wire \in Seq(Announcement)
    BY EmptySeq DEF Init, PulseInit
  <2>3. /\ up \in BOOLEAN /\ ready \in BOOLEAN /\ wasReady \in BOOLEAN
        /\ ended \in BOOLEAN
    BY Zenon DEF Init, PulseInit
  <2> QED
    BY <2>1, <2>2, <2>3 DEF Init, PulseInit, PulseTypeOK
<1>2. request \in [Callers -> Request]
  BY DEF Init, NoRequest, Request
<1>3. refresh \in Refresh
  BY DEF Init, NoRefresh, Refresh
<1> QED
  BY <1>1, <1>2, <1>3 DEF Init, TypeOK

(* What a process forgets, it forgets to something of the right type.      *)
LEMMA FreshType ==
  ASSUME PulseFresh
  PROVE  /\ lastMode' \in Mode \cup {Unknown}
         /\ weights' \in {w \in WeightSets : Adds(w)} \cup {DefaultWeights}
         /\ groupA' \in Levels \cup {Absent}
         /\ drift' \in [score : Scores \cup {Absent}, age : 0..DriftWindow]
         /\ tick' \in Mode \cup {NoTick}
  BY PulseAssumption DEF PulseFresh, NoDrift

LEMMA NewCoreType ==
  ASSUME TypeOK, NewCore, phrase' \in GivenPhrase \cup {Torn}
  PROVE  TypeOK'
<1>1. PulseTypeOK'
  <2>1. wire' \in Seq(Announcement)
    BY EmptySeq DEF NewCore
  <2>2. /\ up' \in BOOLEAN /\ ready' \in BOOLEAN /\ wasReady' \in BOOLEAN
        /\ ended' \in BOOLEAN
    BY Zenon DEF NewCore, TypeOK, PulseTypeOK
  <2> QED
    BY <2>1, <2>2, FreshType DEF NewCore, TypeOK, PulseTypeOK
<1>2. request' \in [Callers -> Request]
  BY DEF NewCore, NoRequest, Request
<1>3. refresh' \in Refresh
  BY DEF NewCore, NoRefresh, Refresh
<1> QED
  BY <1>1, <1>2, <1>3 DEF NewCore, TypeOK

LEMMA PulseType ==
  ASSUME PulseTypeOK, PulseNext
  PROVE  PulseTypeOK'
<1> USE DEF histories
<1>1. CASE PulseStart
  BY <1>1 DEF PulseStart, PulseTypeOK
<1>2. CASE PulseDie
  BY <1>2, FreshType DEF PulseDie, PulseTypeOK
<1>3. ASSUME NEW level \in Levels \cup {Absent}, MirrorMinute(level)
      PROVE  PulseTypeOK'
  BY <1>3 DEF MirrorMinute, PulseTypeOK
<1>4. ASSUME NEW score \in Scores, Anomaly(score)
      PROVE  PulseTypeOK'
  BY <1>4, PulseAssumption DEF Anomaly, PulseTypeOK
<1>5. ASSUME NEW w \in WeightSets, SetWeights(w)
      PROVE  PulseTypeOK'
  BY <1>5 DEF SetWeights, PulseTypeOK
<1>6. ASSUME NEW a \in Actions, EditRegistry(a)
      PROVE  PulseTypeOK'
  BY <1>6 DEF EditRegistry, PulseTypeOK
<1>7. CASE Uncalibrate
  BY <1>7 DEF Uncalibrate, PulseTypeOK
<1>8. ASSUME NEW temporal \in Levels, TickBegin(temporal)
      PROVE  PulseTypeOK'
  <2>1. tick' \in Mode
    BY <1>8, ScoreModeType DEF TickBegin
  <2>2. drift' \in [score : Scores \cup {Absent}, age : 0..DriftWindow]
    BY <1>8, PulseAssumption
    DEF TickBegin, Older, NoDrift, PulseTypeOK
  <2>3. ticks' \in Nat
    BY <1>8 DEF TickBegin, PulseTypeOK
  <2> QED
    BY <1>8, <2>1, <2>2, <2>3 DEF TickBegin, PulseTypeOK
<1>9. CASE TickEnd
  <2>1. TickMode \in Mode
    BY <1>9, TickModeType DEF TickEnd
  <2>2. CASE lastMode \notin {Unknown, TickMode}
    <3>1. [old |-> lastMode, new |-> TickMode] \in Announcement
      BY <2>1, <2>2 DEF PulseTypeOK, Announcement
    <3>2. wire' \in Seq(Announcement)
      BY <1>9, <2>2, <3>1, AppendProperties DEF TickEnd, PulseTypeOK
    <3> QED
      BY <1>9, <2>1, <2>2, <3>2 DEF TickEnd, PulseTypeOK
  <2>3. CASE lastMode \in {Unknown, TickMode}
    BY <1>9, <2>1, <2>3 DEF TickEnd, PulseTypeOK
  <2> QED
    BY <2>2, <2>3
<1>10. CASE TickFail
  BY <1>10 DEF TickFail, PulseTypeOK
<1> QED
  BY <1>1, <1>2, <1>3, <1>4, <1>5, <1>6, <1>7, <1>8, <1>9, <1>10
  DEF PulseNext

LEMMA NextType == TypeOK /\ [Next]_vars => TypeOK'
<1> SUFFICES ASSUME TypeOK, [Next]_vars
             PROVE  TypeOK'
  OBVIOUS
<1> USE DEF histories
<1>1. CASE PulseAlone
  BY <1>1, PulseType DEF PulseAlone, PulseNext, gateVars, TypeOK
<1>2. CASE PulseConnects
  <2>1. PulseTypeOK'
    BY <1>2, PulseType DEF PulseConnects, PulseNext, TypeOK
  <2> QED
    BY <1>2, <2>1 DEF PulseConnects, NoRefresh, Refresh, TypeOK
<1>3. CASE RegistryEdited
  <2>1. PulseTypeOK'
    BY <1>3, PulseType DEF RegistryEdited, PulseNext, TypeOK
  <2> QED
    BY <1>3, <2>1 DEF RegistryEdited, TypeOK
<1>4. CASE CoreRestart
  BY <1>4, NewCoreType DEF CoreRestart, TypeOK
<1>5. CASE GateTake
  <2>1. Head(wire) \in Announcement /\ Tail(wire) \in Seq(Announcement)
    BY <1>5, HeadTailProperties DEF GateTake, TypeOK, PulseTypeOK
  <2>2. PulseTypeOK'
    BY <1>5, <2>1 DEF GateTake, TypeOK, PulseTypeOK
  <2>3. mode' \in Mode
    BY <1>5, <2>1 DEF GateTake, Announcement
  <2> QED
    BY <1>5, <2>2, <2>3 DEF GateTake, TypeOK
<1>6. CASE GateLocked \/ Drained
  BY <1>6 DEF GateLocked, Drained, TypeOK, PulseTypeOK, pulseVars
<1>7. CASE PulseAnswers
  BY <1>7 DEF PulseAnswers, TypeOK, PulseTypeOK, pulseVars, Refresh
<1>8. CASE RefreshEnds
  BY <1>8 DEF RefreshEnds, TypeOK, PulseTypeOK, pulseVars, Refresh, NoRefresh
<1>9. CASE RefreshFails
  BY <1>9 DEF RefreshFails, TypeOK, PulseTypeOK, pulseVars, Refresh, NoRefresh
<1>10. ASSUME NEW c \in Callers, NEW a \in Actions, NEW given \in GivenPhrase,
              Ask(c, a, given)
       PROVE  TypeOK'
  <2>1. Decision(a, OverrideOk(given)) \in {"idle", "delay", "denied"}
    BY DEF Decision
  <2>2. request' \in [Callers -> Request]
    BY <1>10, <2>1 DEF Ask, TypeOK, Request
  <2> QED
    BY <1>10, <2>2 DEF Ask, TypeOK, PulseTypeOK, pulseVars
<1>11. ASSUME NEW c \in Callers, Delayed(c) \/ Denied(c)
       PROVE  TypeOK'
  <2>1. NoRequest \in Request
    BY DEF NoRequest, Request
  <2>2. request' \in [Callers -> Request]
    BY <1>11, <2>1 DEF Delayed, Denied, TypeOK
  <2> QED
    BY <1>11, <2>2 DEF Delayed, Denied, TypeOK, PulseTypeOK, pulseVars
<1>12. ASSUME NEW new \in Phrases, NEW given \in GivenPhrase,
              SetPhrase(new, given)
       PROVE  TypeOK'
  BY <1>12 DEF SetPhrase, GivenPhrase, TypeOK, PulseTypeOK, pulseVars
<1>13. ASSUME NEW given \in GivenPhrase, DieWriting(given)
       PROVE  TypeOK'
  BY <1>13, NewCoreType DEF DieWriting
<1>14. CASE UNCHANGED vars
  BY <1>14 DEF vars, pulseVars, gateVars, TypeOK, PulseTypeOK
<1> QED
  BY <1>1, <1>2, <1>3, <1>4, <1>5, <1>6, <1>7, <1>8, <1>9, <1>10, <1>11,
     <1>12, <1>13, <1>14
  DEF Next

(* Every variable of the gate and of PULSE keeps its type.                 *)
THEOREM TypeInvariant == Spec => []TypeOK
<1>1. Init => TypeOK
  BY InitType
<1>2. TypeOK /\ [Next]_vars => TypeOK'
  BY NextType
<1> QED
  BY <1>1, <1>2, PTL DEF Spec

-----------------------------------------------------------------------------
(* Whatever is still on the wire, its last announcement is the last made;  *)
(* with nothing on it, the gate has that one, or has never had any.        *)
Caught == announced = IF wire = <<>> THEN mode ELSE wire[Len(wire)].new

LEMMA NextCaught == TypeOK /\ Caught /\ [Next]_vars => Caught'
<1> SUFFICES ASSUME TypeOK, Caught, [Next]_vars
             PROVE  Caught'
  OBVIOUS
<1> USE DEF histories
<1>1. wire \in Seq(Announcement)
  BY DEF TypeOK, PulseTypeOK
<1>2. CASE TickEnd /\ UNCHANGED gateVars
  <2>1. CASE lastMode \notin {Unknown, TickMode}
    <3> DEFINE a == [old |-> lastMode, new |-> TickMode]
    <3>1. a \in Announcement
      BY <1>2, <2>1, TickModeType
      DEF TickEnd, TypeOK, PulseTypeOK, Announcement
    <3>2. wire' = Append(wire, a) /\ announced' = a.new
      BY <1>2, <2>1 DEF TickEnd
    <3>3. wire' # <<>> /\ wire'[Len(wire')] = a
      BY <1>1, <3>1, <3>2, AppendProperties
    <3> QED
      BY <3>2, <3>3 DEF Caught
  <2>2. CASE lastMode \in {Unknown, TickMode}
    BY <1>2, <2>2 DEF TickEnd, gateVars, Caught
  <2> QED
    BY <2>1, <2>2
<1>3. CASE GateTake
  <2>1. wire # <<>> /\ wire' = Tail(wire) /\ mode' = Head(wire).new
        /\ announced' = announced
    BY <1>3 DEF GateTake
  <2>2. announced = wire[Len(wire)].new
    BY <2>1 DEF Caught
  <2>3. CASE Len(wire) = 1
    <3>1. wire' = <<>>
      BY <1>1, <2>1, <2>3, HeadTailProperties, EmptySeq
    <3>2. Head(wire) = wire[Len(wire)]
      BY <1>1, <2>1, <2>3, HeadTailProperties
    <3> QED
      BY <2>1, <2>2, <3>1, <3>2 DEF Caught
  <2>4. CASE Len(wire) # 1
    <3>0. Len(wire) \in Nat \ {0}
      BY <1>1, <2>1, EmptySeq
    <3>1. Len(wire) \in Nat /\ Len(wire) > 1
      BY <2>4, <3>0
    <3>2. Len(wire') = Len(wire) - 1
      BY <1>1, <2>1, HeadTailProperties
    <3>3. wire'[Len(wire')] = wire[Len(wire)]
      BY <1>1, <2>1, <3>1, <3>2, HeadTailProperties
    <3>4. wire' # <<>>
      BY <3>1, <3>2, EmptySeq
    <3> QED
      BY <2>1, <2>2, <3>3, <3>4 DEF Caught
  <2> QED
    BY <2>3, <2>4
<1>4. CASE NewCore
  BY <1>4 DEF NewCore, Caught
<1>5. CASE ~(TickEnd /\ UNCHANGED gateVars) /\ ~GateTake /\ ~NewCore
  <2>1. wire' = wire /\ announced' = announced /\ mode' = mode
    BY <1>5 DEF Next, vars, pulseVars, gateVars, PulseAlone, PulseDie,
       MirrorMinute, Anomaly, SetWeights, Uncalibrate, TickBegin, TickFail,
       PulseConnects, PulseStart, RegistryEdited, EditRegistry, CoreRestart,
       GateLocked, Drained, PulseAnswers, RefreshEnds, RefreshFails, Ask,
       Delayed, Denied, SetPhrase, DieWriting
  <2> QED
    BY <2>1 DEF Caught
<1> QED
  BY <1>2, <1>3, <1>4, <1>5

(* The last announcement wins, whatever failed or restarted before it      *)
(* (server.py, _gate_loop).                                                *)
THEOREM LastAnnouncementWins == Spec => []LastModeWins
<1>1. Init => Caught
  BY DEF Init, PulseInit, Caught
<1>2. TypeOK /\ Caught /\ [Next]_vars => Caught'
  BY NextCaught
<1>3. Caught => LastModeWins
  BY DEF Caught, LastModeWins
<1> QED
  BY <1>1, <1>2, <1>3, TypeInvariant, PTL DEF Spec

-----------------------------------------------------------------------------
(* Friction has a cause.  The core knows of a mode other than "normal",    *)
(* and such a mode is on its way to it, only if the store was ready since  *)
(* it started; and a PULSE that still runs is in the mode it announced.    *)
Earned ==
  /\ ready => wasReady
  /\ mode \notin {"normal", Unknown} => wasReady
  /\ \A i \in DOMAIN wire : wire[i].new # "normal" => wasReady
  /\ announced \in {Unknown, lastMode} \/ ended = TRUE

LEMMA NextEarned == TypeOK /\ Earned /\ [Next]_vars => Earned'
<1> SUFFICES ASSUME TypeOK, Earned, [Next]_vars
             PROVE  Earned'
  OBVIOUS
<1> USE DEF histories
<1>1. wire \in Seq(Announcement)
  BY DEF TypeOK, PulseTypeOK
<1>2. CASE TickEnd /\ UNCHANGED gateVars
  <2>1. CASE lastMode \notin {Unknown, TickMode}
    <3> DEFINE a == [old |-> lastMode, new |-> TickMode]
    <3>1. a \in Announcement
      BY <1>2, <2>1, TickModeType
      DEF TickEnd, TypeOK, PulseTypeOK, Announcement
    <3>2. wire' = Append(wire, a)
      BY <1>2, <2>1 DEF TickEnd
    <3>3. a.new # "normal" => wasReady
      BY DEF TickMode, Earned
    <3>4. \A i \in DOMAIN wire' : wire'[i] = a \/ (i \in DOMAIN wire
                                                   /\ wire'[i] = wire[i])
      BY <1>1, <3>1, <3>2, AppendProperties, LenProperties
    <3>5. \A i \in DOMAIN wire' : wire'[i].new # "normal" => wasReady
      BY <3>3, <3>4 DEF Earned
    <3>6. /\ wasReady' = wasReady /\ ready' = ready /\ mode' = mode
          /\ announced' = lastMode'
      BY <1>2, <2>1 DEF TickEnd, gateVars
    <3> QED
      BY <3>5, <3>6 DEF Earned
  <2>2. CASE lastMode \in {Unknown, TickMode}
    <3>1. /\ UNCHANGED <<wasReady, ready, mode, wire, announced, ended>>
          /\ lastMode' = lastMode \/ lastMode = Unknown
      BY <1>2, <2>2 DEF TickEnd, gateVars
    <3> QED
      BY <3>1 DEF Earned
  <2> QED
    BY <2>1, <2>2
<1>3. CASE GateTake
  <2>1. wire # <<>> /\ wire' = Tail(wire) /\ mode' = Head(wire).new
    BY <1>3 DEF GateTake
  <2>2. 1 \in DOMAIN wire /\ Head(wire) = wire[1]
    BY <1>1, <2>1, HeadTailProperties, LenProperties, EmptySeq
  <2>3. mode' # "normal" => wasReady
    BY <2>1, <2>2 DEF Earned
  <2>4. \A i \in DOMAIN wire' : i + 1 \in DOMAIN wire
                                /\ wire'[i] = wire[i + 1]
    BY <1>1, <2>1, HeadTailProperties, LenProperties
  <2>5. \A i \in DOMAIN wire' : wire'[i].new # "normal" => wasReady
    BY <2>4 DEF Earned
  <2>6. UNCHANGED <<wasReady, ready, announced, ended, lastMode>>
    BY <1>3 DEF GateTake
  <2> QED
    BY <2>3, <2>5, <2>6 DEF Earned
<1>4. CASE NewCore
  BY <1>4 DEF NewCore, Earned
<1>5. CASE PulseDie /\ UNCHANGED gateVars
  BY <1>5 DEF PulseDie, gateVars, Earned
<1>6. CASE ~(TickEnd /\ UNCHANGED gateVars) /\ ~GateTake /\ ~NewCore
           /\ ~(PulseDie /\ UNCHANGED gateVars)
  <2>1. UNCHANGED <<wire, mode, histories, lastMode>> /\ (ready' => ready)
    BY <1>6 DEF Next, vars, pulseVars, gateVars, PulseAlone,
       MirrorMinute, Anomaly, SetWeights, Uncalibrate, TickBegin, TickFail,
       PulseConnects, PulseStart, RegistryEdited, EditRegistry, CoreRestart,
       GateLocked, Drained, PulseAnswers, RefreshEnds, RefreshFails, Ask,
       Delayed, Denied, SetPhrase, DieWriting
  <2> QED
    BY <2>1 DEF Earned
<1> QED
  BY <1>2, <1>3, <1>4, <1>5, <1>6

(* Only the gate's decision denies.                                        *)
LEMMA OnlyAskDenies ==
  ASSUME TypeOK, [Next]_vars, NEW c \in Callers, Denies(c)
  PROVE  \E a \in Actions, given \in GivenPhrase : Ask(c, a, given)
<1> USE DEF histories
<1>1. request \in [Callers -> Request]
  BY DEF TypeOK
<1>2. ASSUME NEW d \in Callers, Delayed(d) \/ Denied(d)
      PROVE  FALSE
  BY <1>1, <1>2 DEF Delayed, Denied, NoRequest, Denies
<1>3. ASSUME NewCore
      PROVE  FALSE
  BY <1>3 DEF NewCore, NoRequest, Denies
<1>4. ASSUME NEW d \in Callers, NEW a \in Actions, NEW given \in GivenPhrase,
             Ask(d, a, given)
      PROVE  d = c
  BY <1>1, <1>4 DEF Ask, Denies
<1>5. request' # request
  BY DEF Denies
<1> QED
  BY <1>2, <1>3, <1>4, <1>5
  DEF Next, vars, gateVars, PulseAlone, PulseConnects, RegistryEdited,
      CoreRestart, GateTake, GateLocked, Drained, PulseAnswers, RefreshEnds,
      RefreshFails, SetPhrase, DieWriting

(* A denial has a cause that PULSE stands by: it was calibrated, the       *)
(* phrase in force was not given, and a PULSE that has not ended since it  *)
(* announced "exhausted" still means it (gate.py, decide; server.py, _gate *)
(* and _override_ok).                                                      *)
THEOREM DenialsHaveACause == Spec => DeniedForCause
<1> DEFINE A == \A c \in Callers :
                  Denies(c) =>
                    /\ wasReady
                    /\ ~request'[c].proven
                    /\ wire = <<>> /\ ~ended => lastMode = "exhausted"
<1>1. Init => Earned
  BY DEF Init, PulseInit, Earned
<1>2. TypeOK /\ Earned /\ [Next]_vars => Earned'
  BY NextEarned
<1>3. TypeOK /\ Earned /\ Caught /\ [Next]_vars => [A]_vars
  <2> SUFFICES ASSUME TypeOK, Earned, Caught, [Next]_vars,
                      NEW c \in Callers, Denies(c)
               PROVE  /\ wasReady
                      /\ ~request'[c].proven
                      /\ wire = <<>> /\ ~ended => lastMode = "exhausted"
    OBVIOUS
  <2>1. PICK a \in Actions, given \in GivenPhrase : Ask(c, a, given)
    BY OnlyAskDenies
  <2>2. /\ Decision(a, OverrideOk(given)) = "denied"
        /\ request'[c].proven = (/\ Decision(a, OverrideOk(given)) = "denied"
                                 /\ given \in Phrases /\ given = phrase)
    BY <2>1 DEF Ask, Denies, TypeOK
  <2>3. mode = "exhausted" /\ ~OverrideOk(given)
    BY <2>2 DEF Decision
  <2>4. wasReady
    BY <2>3 DEF Earned, Unknown
  <2>5. ~request'[c].proven
    BY <2>2, <2>3, GateAssumption DEF OverrideOk
  <2>6. wire = <<>> /\ ~ended => lastMode = "exhausted"
    BY <2>3 DEF Caught, Earned, Unknown
  <2> QED
    BY <2>4, <2>5, <2>6
<1>4. Init => Caught
  BY DEF Init, PulseInit, Caught
<1>5. TypeOK /\ Caught /\ [Next]_vars => Caught'
  BY NextCaught
<1> QED
  BY <1>1, <1>2, <1>3, <1>4, <1>5, TypeInvariant, PTL
  DEF Spec, DeniedForCause

-----------------------------------------------------------------------------
(* The score is a mean of the signals that are present: with weights that  *)
(* are not negative it lies on the same side of a bound as all of them.    *)
Share(reading, g) == IF g \in Present(reading) THEN weights[g] * reading[g]
                                               ELSE 0

Part(reading, g) == IF g \in Present(reading) THEN weights[g] ELSE 0

LEMMA MeanOfThePresent ==
  ASSUME PulseTypeOK,
         NEW reading, \A g \in Groups : reading[g] \in 0..10 \cup {Absent},
         \A g \in Groups : weights[g] >= 0,
         PresentWeight(reading, weights) # 0,
         NEW bound \in 1..10
  PROVE  /\ PresentWeight(reading, weights) \in Nat \ {0}
         /\ Weighted(reading, weights) \in Int
         /\ (\A g \in Present(reading) : reading[g] >= bound)
              => Weighted(reading, weights)
                   >= bound * PresentWeight(reading, weights)
         /\ (\A g \in Present(reading) : reading[g] < bound)
              => Weighted(reading, weights)
                   < bound * PresentWeight(reading, weights)
<1>1. \A g \in Groups : weights[g] \in Nat
  BY WeightsType
<1>2. \A g \in Groups : /\ Part(reading, g) \in Nat
                        /\ Share(reading, g) \in Int
  BY <1>1 DEF Part, Share, Present
<1>3. PresentWeight(reading, weights)
        = Part(reading, "a") + Part(reading, "b") + Part(reading, "c")
  BY DEF PresentWeight, Sum3, Part
<1>4. Weighted(reading, weights)
        = Share(reading, "a") + Share(reading, "b") + Share(reading, "c")
  BY DEF Weighted, Sum3, Share, Groups
<1>5. ASSUME NEW w \in Nat, NEW r \in 0..10
      PROVE  /\ r >= bound => w * r >= bound * w
             /\ r < bound => w * r <= bound * w - w
  BY <1>5
<1>6. ASSUME \A g \in Present(reading) : reading[g] >= bound,
             NEW g \in Groups
      PROVE  Share(reading, g) >= bound * Part(reading, g)
  BY <1>1, <1>5, <1>6 DEF Share, Part, Present
<1>7. ASSUME \A g \in Present(reading) : reading[g] < bound,
             NEW g \in Groups
      PROVE  Share(reading, g) <= bound * Part(reading, g) - Part(reading, g)
  BY <1>1, <1>5, <1>7 DEF Share, Part, Present
<1>8. {"a", "b", "c"} = Groups
  BY DEF Groups
<1> DEFINE pa == Part(reading, "a")
           pb == Part(reading, "b")
           pc == Part(reading, "c")
<1>9. pa \in Nat /\ pb \in Nat /\ pc \in Nat
  BY <1>2, <1>8
<1> HIDE DEF pa, pb, pc
<1>10. bound * (pa + pb + pc) = bound * pa + bound * pb + bound * pc
  BY <1>9
<1>11. pa + pb + pc # 0
  BY <1>3 DEF pa, pb, pc
<1>12. ASSUME \A g \in Present(reading) : reading[g] >= bound
       PROVE  Weighted(reading, weights) >= bound * (pa + pb + pc)
  <2>1. /\ Share(reading, "a") >= bound * pa
        /\ Share(reading, "b") >= bound * pb
        /\ Share(reading, "c") >= bound * pc
    BY <1>6, <1>8, <1>12 DEF pa, pb, pc
  <2> QED
    BY <1>2, <1>4, <1>8, <1>9, <1>10, <2>1
<1>13. ASSUME \A g \in Present(reading) : reading[g] < bound
       PROVE  Weighted(reading, weights) < bound * (pa + pb + pc)
  <2>1. /\ Share(reading, "a") <= bound * pa - pa
        /\ Share(reading, "b") <= bound * pb - pb
        /\ Share(reading, "c") <= bound * pc - pc
    BY <1>7, <1>8, <1>13 DEF pa, pb, pc
  <2> QED
    BY <1>2, <1>4, <1>8, <1>9, <1>10, <1>11, <2>1
<1>14. PresentWeight(reading, weights) = pa + pb + pc
  BY <1>3 DEF pa, pb, pc
<1>15. Weighted(reading, weights) \in Int
  BY <1>2, <1>4, <1>8
<1> QED
  BY <1>9, <1>11, <1>12, <1>13, <1>14, <1>15

(* The mode a mean gives lies between those of the signals it is made of.  *)
LEMMA ModeOfTheMean ==
  ASSUME TypeOK, NEW temporal \in Levels,
         \A h \in Groups : weights[h] >= 0,
         PresentWeight(Reading(temporal), weights) # 0
  PROVE  LET reading == Reading(temporal)
             Of(g)   == Rank(ModeForScore(reading[g], 1))
             m       == Rank(ScoreMode(reading, weights))
         IN /\ \E g \in Present(reading) : Of(g) <= m
            /\ \E g \in Present(reading) : m <= Of(g)
<1> DEFINE reading == Reading(temporal)
           num == Weighted(reading, weights)
           den == PresentWeight(reading, weights)
           Of(g) == Rank(ModeForScore(reading[g], 1))
           m == Rank(ScoreMode(reading, weights))
<1>1. \A g \in Groups : reading[g] \in 0..10 \cup {Absent}
  <2>1. Levels \subseteq 0..10 /\ Scores \subseteq 0..10
    BY PulseAssumption
  <2>2. reading["a"] \in 0..10 \cup {Absent}
    BY <2>1 DEF Reading, TypeOK, PulseTypeOK
  <2>3. reading["b"] \in 0..10 \cup {Absent}
    BY <2>1 DEF Reading
  <2>4. drift.score \in 0..10 \cup {Absent}
    BY <2>1 DEF TypeOK, PulseTypeOK
  <2>5. reading["c"] \in 0..10 \cup {Absent}
    BY <2>4 DEF Reading, CurrentDrift
  <2> QED
    BY <2>2, <2>3, <2>5 DEF Groups
<1>2. PulseTypeOK
  BY DEF TypeOK
<1>3. \A bound \in 1..10 :
        /\ den \in Nat \ {0} /\ num \in Int
        /\ (\A g \in Present(reading) : reading[g] >= bound)
             => num >= bound * den
        /\ (\A g \in Present(reading) : reading[g] < bound)
             => num < bound * den
  BY <1>1, <1>2, MeanOfThePresent
<1>4. den \in Nat \ {0} /\ num \in Int
  BY <1>3, 1 \in 1..10
<1>5. ScoreMode(reading, weights) = ModeForScore(num, den)
  BY <1>4 DEF ScoreMode
<1>6. \A g \in Present(reading) : reading[g] \in 0..10
  BY <1>1 DEF Present
<1>7. \E g \in Present(reading) : TRUE
  <2>1. CASE Present(reading) = {}
    <3>1. num >= 10 * den /\ num < 1 * den
      BY <1>3, <2>1, 1 \in 1..10, 10 \in 1..10
    <3> QED
      BY <1>4, <3>1
  <2> QED
    BY <2>1
<1>8. \A g \in Present(reading) :
        Of(g) = IF reading[g] < 4 THEN 1 ELSE IF reading[g] < 7 THEN 2
                ELSE IF reading[g] < 9 THEN 3 ELSE 4
  BY <1>6 DEF ModeForScore, Rank
<1>9. m = IF num < 4 * den THEN 1 ELSE IF num < 7 * den THEN 2
          ELSE IF num < 9 * den THEN 3 ELSE 4
  BY <1>5 DEF ModeForScore, Rank
<1> HIDE DEF reading, num, den, Of, m
<1>10. /\ (\A g \in Present(reading) : reading[g] >= 4) => num >= 4 * den
       /\ (\A g \in Present(reading) : reading[g] >= 7) => num >= 7 * den
       /\ (\A g \in Present(reading) : reading[g] >= 9) => num >= 9 * den
       /\ (\A g \in Present(reading) : reading[g] < 4) => num < 4 * den
       /\ (\A g \in Present(reading) : reading[g] < 7) => num < 7 * den
       /\ (\A g \in Present(reading) : reading[g] < 9) => num < 9 * den
  BY <1>3
<1>11. \E g \in Present(reading) : Of(g) <= m
  BY <1>4, <1>6, <1>7, <1>8, <1>9, <1>10
<1>12. \E g \in Present(reading) : m <= Of(g)
  BY <1>4, <1>6, <1>7, <1>8, <1>9, <1>10
<1> QED
  BY <1>11, <1>12 DEF reading, Of, m

(* Absent signals do not count, whatever the weights are that the operator *)
(* set, as long as none is negative (scoring.py, score_and_mode).          *)
THEOREM AbsentSignalsDoNotCount == Spec => []AbsentDoesNotCount
<1>1. TypeOK => AbsentDoesNotCount
  BY ModeOfTheMean DEF AbsentDoesNotCount
<1> QED
  BY <1>1, TypeInvariant, PTL

=============================================================================
