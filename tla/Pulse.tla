------------------------------- MODULE Pulse --------------------------------
(***************************************************************************)
(* PULSE (modules/pulse/pulse): the daemon that turns signs of fatigue     *)
(* into a score and the score into a mode, and announces every change of   *)
(* mode to the core.                                                       *)
(*                                                                         *)
(* A tick is one computation of the tick loop, a minute after the last.    *)
(* It is taken in two steps: the readings are gathered on the loop, then   *)
(* the score is computed on a worker thread, which looks at the store when *)
(* the loop may already be serving a request.                              *)
(*                                                                         *)
(* Readings and scores are in tenths, weights in hundredths.               *)
(***************************************************************************)
EXTENDS Integers, Sequences, FiniteSets

CONSTANTS Levels,       \* values a group of signals may have
          Scores,       \* scores of the anomalies ORACLE reports
          WeightSets,   \* weights that pulse.weights.set is called with
          DriftMin,     \* DRIFT_MIN
          DriftWindow,  \* DRIFT_WINDOW_S in ticks
          Actions,      \* signatures the danger registry may list
          MaxTicks      \* bound on the ticks

ASSUME PulseAssumption ==
         /\ Levels \subseteq 0..10
         /\ Scores \subseteq 0..10
         /\ DriftMin \in Nat
         /\ DriftWindow \in Nat \ {0}
         /\ MaxTicks \in Nat
         /\ \A w \in WeightSets : DOMAIN w = {"a", "b", "c"}
                                  /\ \A g \in {"a", "b", "c"} : w[g] \in Int

Mode == {"normal", "caution", "tired", "exhausted"}

Unknown == "unknown"   \* None

Absent == -1

-----------------------------------------------------------------------------
(* The score (assess.py, scoring.py).  A reading is a function of the      *)
(* groups: a, the input compared with the baseline; b, the temporal        *)
(* signal; c, ORACLE's anomaly.                                            *)

Groups == {"a", "b", "c"}

DefaultWeights == [a |-> 55, b |-> 30, c |-> 15]

Present(reading) == {g \in Groups : reading[g] # Absent}

Sum3(f, S) == LET At(g) == IF g \in S THEN f[g] ELSE 0
              IN At("a") + At("b") + At("c")

Weighted(reading, w) ==
  Sum3([g \in Groups |-> w[g] * reading[g]], Present(reading))

AllWeights(reading, w) == 100                     \* a mutant of PresentWeight

PresentWeight(reading, w) == Sum3(w, Present(reading))

Adds(w) == Sum3(w, Groups) = 100

(* mode_for_score of the score num / den, den > 0.                         *)
ModeForScore(num, den) == IF num < 4 * den THEN "normal"
                          ELSE IF num < 7 * den THEN "caution"
                          ELSE IF num < 9 * den THEN "tired"
                          ELSE "exhausted"

(* What the score alone would say; no usable signal says "normal".  The    *)
(* weights of the present signals may add up to less than nothing.         *)
ScoreMode(reading, w) ==
  LET num == Weighted(reading, w)
      den == PresentWeight(reading, w)
  IN CASE den = 0 -> "normal"
       [] den > 0 -> ModeForScore(num, den)
       [] den < 0 -> ModeForScore(-num, -den)

-----------------------------------------------------------------------------

VARIABLES up,         \* the process runs and is registered
          lastMode,   \* PulseClient._last_mode
          ready,      \* baseline_ready(): enough days in the store's window
          weights,    \* PulseClient._weights
          groupA,     \* the last minute of input, compared with the baseline
          drift,      \* the last anomaly: its score and its age in ticks
          tick,       \* the tick under way: what its score will say
          registry,   \* registry.json
          wire,       \* announcements on their way to the core
          ticks,      \* history: the ticks begun
          wasReady,   \* history: was the store ready since the core started
          announced,  \* history: the last mode announced since then
          ended       \* history: PULSE has ended after that announcement

histories == <<wasReady, announced, ended>>

pulseVars == <<up, lastMode, ready, weights, groupA, drift, tick, registry,
               wire, ticks, histories>>

NoTick == "none"

Announcement == [old : Mode, new : Mode]

PulseTypeOK ==
  /\ up \in BOOLEAN
  /\ lastMode \in Mode \cup {Unknown}
  /\ ready \in BOOLEAN
  /\ weights \in {w \in WeightSets : Adds(w)} \cup {DefaultWeights}
  /\ groupA \in Levels \cup {Absent}
  /\ drift \in [score : Scores \cup {Absent}, age : 0..DriftWindow]
  /\ tick \in Mode \cup {NoTick}
  /\ registry \subseteq Actions
  /\ wire \in Seq(Announcement)
  /\ ticks \in Nat
  /\ wasReady \in BOOLEAN
  /\ announced \in Mode \cup {Unknown}
  /\ ended \in BOOLEAN

NoDrift == [score |-> Absent, age |-> DriftWindow]

(* The store may hold days of an earlier time; the daemon adds none.       *)
PulseInit ==
  /\ up       = FALSE
  /\ lastMode = Unknown
  /\ ready \in BOOLEAN
  /\ weights  = DefaultWeights
  /\ groupA   = Absent
  /\ drift    = NoDrift
  /\ tick     = NoTick
  /\ registry \in SUBSET Actions
  /\ wire     = <<>>
  /\ ticks    = 0
  /\ wasReady = ready
  /\ announced = Unknown
  /\ ended    = FALSE

(* What the memory of a process comes to when it ends.                     *)
PulseFresh == /\ lastMode' = Unknown
              /\ weights'  = DefaultWeights
              /\ groupA'   = Absent
              /\ drift'    = NoDrift
              /\ tick'     = NoTick

PulseStart == /\ ~up
              /\ up'     = TRUE
              /\ UNCHANGED <<lastMode, ready, weights, groupA, drift, tick,
                             registry, wire, ticks, histories>>

(* What was written to the socket is still read by the core.               *)
PulseDie == /\ up
            /\ up' = FALSE
            /\ PulseFresh
            /\ ended' = TRUE
            /\ UNCHANGED <<ready, registry, wire, ticks, wasReady,
                           announced>>

-----------------------------------------------------------------------------
(* What the daemon is told.                                                *)

(* mirror.input.minute: the readings are kept until the next minute of     *)
(* input, however long that is.  A quiet minute has none; with no baseline *)
(* to compare with, assess() skips them.                                   *)
MirrorMinute(level) ==
  /\ up
  /\ groupA' = level
  /\ UNCHANGED <<up, lastMode, ready, weights, drift, tick, registry, wire,
                 ticks, histories>>

(* oracle.anomaly.detected.                                                *)
Anomaly(score) ==
  /\ up
  /\ drift' = [score |-> score, age |-> 0]
  /\ UNCHANGED <<up, lastMode, ready, weights, groupA, tick, registry, wire,
                 ticks, histories>>

SetAnyWeights(w) ==                               \* a mutant of SetWeights
  /\ up
  /\ weights' = w
  /\ UNCHANGED <<up, lastMode, ready, groupA, drift, tick, registry, wire,
                 ticks, histories>>

(* pulse.weights.set; weights that do not add up to 1 are refused.         *)
SetWeights(w) ==
  /\ up
  /\ Adds(w)
  /\ weights' = w
  /\ UNCHANGED <<up, lastMode, ready, groupA, drift, tick, registry, wire,
                 ticks, histories>>

(* pulse.danger.add and pulse.danger.remove.                               *)
EditRegistry(a) ==
  /\ up
  /\ \/ registry' = registry \cup {a}
     \/ registry' = registry \ {a}
  /\ UNCHANGED <<up, lastMode, ready, weights, groupA, drift, tick, wire,
                 ticks, histories>>

(* pulse.calibrate.reset, or the days have left the fourteen-day window.   *)
Uncalibrate ==
  /\ ready
  /\ ready' = FALSE
  /\ UNCHANGED <<up, lastMode, weights, groupA, drift, tick, registry, wire,
                 ticks, histories>>

-----------------------------------------------------------------------------
(* The tick.                                                               *)

(* drift(now): an anomaly counts while it is recent and not negligible.    *)
CurrentDrift == IF drift.score > DriftMin THEN drift.score ELSE Absent

Older == IF drift.age + 1 >= DriftWindow THEN NoDrift
         ELSE [drift EXCEPT !.age = @ + 1]

(* The hour, the time since a break and the length of the session make the *)
(* temporal signal, which is always there (temporal.py, idle.py and        *)
(* chronotype.py); here it is any level.                                   *)
Reading(temporal) == [a |-> IF ready THEN groupA ELSE Absent,
                      b |-> temporal,
                      c |-> CurrentDrift]

(* _compute up to assess(): the readings and the weights are those of now. *)
TickBegin(temporal) ==
  /\ up
  /\ tick = NoTick
  /\ ticks < MaxTicks
  /\ ticks' = ticks + 1
  /\ tick'  = ScoreMode(Reading(temporal), weights)
  /\ drift' = Older
  /\ UNCHANGED <<up, lastMode, ready, weights, groupA, registry, wire,
                 histories>>

(* The mode of a tick: "normal" until the store is calibrated.             *)
TickMode == IF ready THEN tick ELSE "normal"

(* The end of _tick: the first one only sets _last_mode.                   *)
TickEnd ==
  /\ up
  /\ tick # NoTick
  /\ IF lastMode \notin {Unknown, TickMode}
       THEN /\ wire' = Append(wire, [old |-> lastMode, new |-> TickMode])
            /\ announced' = TickMode
            /\ ended' = FALSE
       ELSE UNCHANGED <<wire, announced, ended>>
  /\ lastMode' = TickMode
  /\ tick'     = NoTick
  /\ UNCHANGED <<up, ready, weights, groupA, drift, registry, ticks,
                 wasReady>>

(* _safe_tick: a tick that fails is announced and forgotten.               *)
TickFail ==
  /\ up
  /\ tick # NoTick
  /\ tick' = NoTick
  /\ UNCHANGED <<up, lastMode, ready, weights, groupA, drift, registry, wire,
                 ticks, histories>>

-----------------------------------------------------------------------------
PulseNext ==
  \/ PulseStart \/ PulseDie
  \/ \E level \in Levels \cup {Absent} : MirrorMinute(level)
  \/ \E score \in Scores : Anomaly(score)
  \/ \E w \in WeightSets : SetWeights(w)
  \/ \E a \in Actions : EditRegistry(a)
  \/ Uncalibrate
  \/ \E temporal \in Levels : TickBegin(temporal)
  \/ TickEnd
  \/ TickFail

=============================================================================
