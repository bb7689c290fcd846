-------------------------------- MODULE Gate --------------------------------
(***************************************************************************)
(* The cognitive gate of the core hub (core/server.py, _gate to            *)
(* _refresh_danger; core/gate.py; core/override.py), together with the     *)
(* PULSE daemon it listens to.                                             *)
(*                                                                         *)
(* Three coroutines of the core share state with the requests: the gate    *)
(* loop takes PULSE's announcements one by one and waits for the vault to  *)
(* lock when the operator becomes exhausted; a refresh task fetches the    *)
(* danger registry whenever PULSE connects; a request for a danger action  *)
(* may sleep between the gate's decision and the forwarding.               *)
(*                                                                         *)
(* The subscription of the gate loop holds far more announcements than     *)
(* PULSE makes in the time a vault lock may take, so nothing is dropped    *)
(* from it here; Broker models what happens when a subscription overflows. *)
(***************************************************************************)
EXTENDS Pulse

CONSTANTS Callers,       \* connections of surfaces
          Phrases,       \* override phrases
          NoPhrase,      \* none given, none set
          Torn           \* an override.json that was not written to its end

ASSUME GateAssumption == /\ NoPhrase \notin Phrases
                         /\ Torn \notin Phrases \cup {NoPhrase}

VARIABLES mode,        \* Server._pulse_mode
          gateLoop,    \* the gate loop: taking events, sending vault.lock
                       \* over a transport that is full, waiting for a vault
                       \* that will answer, or for one that hangs
          danger,      \* Server._danger_set
          refresh,     \* the refresh task and the reply on its way to it
          phrase,      \* the phrase in override.json
          request      \* the requests under way

gateVars == <<mode, gateLoop, danger, refresh, phrase, request>>

vars == <<pulseVars, gateVars>>

GivenPhrase == Phrases \cup {NoPhrase}

(* A request that is forwarded is idle again as far as the gate goes.      *)
(* proven: a denied request gave the phrase then in force.                 *)
Request == [pc : {"idle", "delay", "denied"}, proven : BOOLEAN]

NoRequest == [pc |-> "idle", proven |-> FALSE]

(* answered: PULSE has replied with the registry as it was then.           *)
Refresh == [state : {"none", "asked", "answered"}, registry : SUBSET Actions]

NoRefresh == [state |-> "none", registry |-> {}]

TypeOK == /\ PulseTypeOK
          /\ mode \in Mode \cup {Unknown}
          /\ gateLoop \in {"taking", "draining", "locking", "hanging"}
          /\ danger \subseteq Actions
          /\ refresh \in Refresh
          /\ phrase \in GivenPhrase \cup {Torn}
          /\ request \in [Callers -> Request]

Init == /\ PulseInit
        /\ mode     = Unknown
        /\ gateLoop = "taking"
        /\ danger   = {}
        /\ refresh  = NoRefresh
        /\ request  = [c \in Callers |-> NoRequest]
        /\ phrase \in GivenPhrase

(* The core ends, which ends its modules' connections and PULSE with them, *)
(* and starts again.                                                       *)
NewCore ==
  /\ mode'      = Unknown
  /\ gateLoop'  = "taking"
  /\ danger'    = {}
  /\ refresh'   = NoRefresh
  /\ request'   = [c \in Callers |-> NoRequest]
  /\ up'        = FALSE
  /\ wire'      = <<>>
  /\ wasReady'  = ready
  /\ announced' = Unknown
  /\ ended'     = FALSE
  /\ PulseFresh
  /\ UNCHANGED <<ready, registry, ticks>>

CoreRestart == NewCore /\ UNCHANGED phrase

-----------------------------------------------------------------------------
(* The gate loop.                                                          *)

GateTakeExpected ==                               \* a mutant of GateTake
  /\ gateLoop = "taking"
  /\ wire # <<>>
  /\ wire' = Tail(wire)
  /\ mode' = IF Head(wire).old = mode THEN Head(wire).new ELSE mode
  /\ gateLoop' \in IF mode' = "exhausted" /\ mode # "exhausted"
                     THEN {"draining", "locking", "hanging"} ELSE {"taking"}
  /\ UNCHANGED <<up, lastMode, ready, weights, groupA, drift, tick, registry,
                 ticks, histories, danger, refresh, phrase, request>>

(* _apply_pulse_mode: on becoming exhausted the loop sends vault.lock, in  *)
(* drain() if the vault's transport is full, and awaits the reply.         *)
GateTake ==
  /\ gateLoop = "taking"
  /\ wire # <<>>
  /\ wire' = Tail(wire)
  /\ mode' = Head(wire).new
  /\ gateLoop' \in IF mode' = "exhausted" /\ mode # "exhausted"
                     THEN {"draining", "locking", "hanging"} ELSE {"taking"}
  /\ UNCHANGED <<up, lastMode, ready, weights, groupA, drift, tick, registry,
                 ticks, histories, danger, refresh, phrase, request>>

(* drain() returns, or raises: the vault reads, or its connection is lost. *)
Drained ==
  /\ gateLoop = "draining"
  /\ gateLoop' \in {"taking", "locking", "hanging"}
  /\ UNCHANGED <<pulseVars, mode, danger, refresh, phrase, request>>

WaitsForVault == gateLoop = "locking"             \* a mutant of LockEnds

(* The vault answers, or the deadline passes, which begins after drain().  *)
LockEnds == gateLoop \in {"locking", "hanging"}

GateLocked ==
  /\ LockEnds
  /\ gateLoop' = "taking"
  /\ UNCHANGED <<pulseVars, mode, danger, refresh, phrase, request>>

-----------------------------------------------------------------------------
(* The danger set.                                                         *)

(* PULSE connects: the refresh task asks it for its registry.              *)
PulseConnects ==
  /\ PulseStart
  /\ refresh' = [NoRefresh EXCEPT !.state = "asked"]
  /\ UNCHANGED <<mode, gateLoop, danger, phrase, request>>

PulseAnswers ==
  /\ up
  /\ refresh.state = "asked"
  /\ refresh' = [state |-> "answered", registry |-> registry]
  /\ UNCHANGED <<pulseVars, mode, gateLoop, danger, phrase, request>>

RefreshEnds ==
  /\ refresh.state = "answered"
  /\ danger'  = refresh.registry
  /\ refresh' = NoRefresh
  /\ UNCHANGED <<pulseVars, mode, gateLoop, phrase, request>>

(* PULSE is gone, silent or answers with an error: the old set stays.      *)
RefreshFails ==
  /\ refresh.state # "none"
  /\ refresh' = NoRefresh
  /\ UNCHANGED <<pulseVars, mode, gateLoop, danger, phrase, request>>

RegistryEdited ==
  /\ \E a \in Actions : EditRegistry(a)
  /\ UNCHANGED <<mode, gateLoop, danger, refresh, phrase, request>>

-----------------------------------------------------------------------------
(* The requests.                                                           *)

(* OverrideStore.verify: a file that cannot be read verifies nothing.      *)
OverrideOk(given) == given # NoPhrase /\ given = phrase

BlocksUnknown(a, ok) ==                           \* a mutant of Decision
  IF a \notin danger THEN "idle"
  ELSE CASE mode \in {"exhausted", Unknown} /\ ~ok -> "denied"
         [] mode = "tired"                         -> "delay"
         [] OTHER                                  -> "idle"

(* decide(): caution is forwarded, its dialog is the surface's; a mode     *)
(* nobody knows is no friction.                                            *)
Decision(a, ok) ==
  IF a \notin danger THEN "idle"
  ELSE CASE mode = "exhausted" /\ ~ok -> "denied"
         [] mode = "tired"            -> "delay"
         [] OTHER                     -> "idle"

(* _route up to the gate's decision.                                       *)
Ask(c, a, given) ==
  /\ request[c].pc = "idle"
  /\ LET pc == Decision(a, OverrideOk(given))
     IN request' = [request EXCEPT ![c] =
          [pc |-> pc, proven |-> pc = "denied" /\ given \in Phrases
                                   /\ given = phrase]]
  /\ UNCHANGED <<pulseVars, mode, gateLoop, danger, refresh, phrase>>

(* The delay is over; the mode is not looked at again.                     *)
Delayed(c) ==
  /\ request[c].pc = "delay"
  /\ request' = [request EXCEPT ![c] = NoRequest]
  /\ UNCHANGED <<pulseVars, mode, gateLoop, danger, refresh, phrase>>

Denied(c) ==
  /\ request[c].pc = "denied"
  /\ request' = [request EXCEPT ![c] = NoRequest]
  /\ UNCHANGED <<pulseVars, mode, gateLoop, danger, refresh, phrase>>

(* core.override.set: the first phrase is free, a change needs the old one.*)
SetPhrase(new, given) ==
  /\ phrase = NoPhrase \/ OverrideOk(given)
  /\ phrase' = new
  /\ UNCHANGED <<pulseVars, mode, gateLoop, danger, refresh, request>>

(* The core dies between the truncation of override.json and its writing.  *)
DieWriting(given) ==
  /\ phrase = NoPhrase \/ OverrideOk(given)
  /\ phrase' = Torn
  /\ NewCore

-----------------------------------------------------------------------------
PulseAlone ==
  /\ \/ PulseDie
     \/ \E level \in Levels \cup {Absent} : MirrorMinute(level)
     \/ \E score \in Scores : Anomaly(score)
     \/ \E w \in WeightSets : SetWeights(w)
     \/ Uncalibrate
     \/ \E temporal \in Levels : TickBegin(temporal)
     \/ TickEnd
     \/ TickFail
  /\ UNCHANGED gateVars

Next == \/ PulseAlone
        \/ PulseConnects \/ RegistryEdited
        \/ CoreRestart
        \/ GateTake \/ Drained \/ GateLocked
        \/ PulseAnswers \/ RefreshEnds \/ RefreshFails
        \/ \E c \in Callers :
             \/ \E a \in Actions, given \in GivenPhrase : Ask(c, a, given)
             \/ Delayed(c) \/ Denied(c)
        \/ \E new \in Phrases, given \in GivenPhrase : SetPhrase(new, given)
        \/ \E given \in GivenPhrase : DieWriting(given)

Spec == Init /\ [][Next]_vars

(* The event loop resumes who can run, and a wait for the vault's reply is *)
(* bounded by a deadline.  Nothing makes the vault read: no fairness for   *)
(* Drained.                                                                *)
FairSpec == Spec /\ WF_vars(GateTake) /\ WF_vars(GateLocked)

-----------------------------------------------------------------------------
(* Properties.                                                             *)

(* Absent signals do not count: the mode a score gives is neither below    *)
(* nor above what every signal present would give by itself, so a sensor   *)
(* that is off cannot dampen or raise the score of the others (scoring.py, *)
(* the weights "rescale to sum 1.0").                                      *)
Rank(m) == CASE m = "normal" -> 1 [] m = "caution" -> 2
             [] m = "tired" -> 3 [] m = "exhausted" -> 4

AbsentDoesNotCount ==
  \A temporal \in Levels :
    LET reading == Reading(temporal)
        Of(g)   == Rank(ModeForScore(reading[g], 1))
        m       == Rank(ScoreMode(reading, weights))
    IN (\A h \in Groups : weights[h] >= 0)
         /\ PresentWeight(reading, weights) # 0 =>
         /\ \E g \in Present(reading) : Of(g) <= m
         /\ \E g \in Present(reading) : m <= Of(g)

(* When the gate has taken all announcements, its mode is the last one     *)
(* PULSE announced, whatever failed or restarted in between and however    *)
(* long the vault took (server.py, _gate_loop).                            *)
LastModeWins == (wire = <<>> /\ gateLoop = "taking") => mode = announced

(* A denial has a cause that PULSE stands by: the store was calibrated at  *)
(* some time since the core started (gate.py, "fail-OPEN"); the phrase     *)
(* then in force was not given; and if the process that made the last      *)
(* announcement still runs, and the gate has taken it, PULSE itself has    *)
(* the operator exhausted.  Nothing is said of a PULSE that has ended: the *)
(* gate goes on denying by its last mode, and a request has no way round   *)
(* it where no phrase is set or its file is torn (server.py, _gate).       *)
Denies(c) == request'[c].pc = "denied" /\ request[c].pc # "denied"

DeniedForCause ==
  [][\A c \in Callers :
       Denies(c) => /\ wasReady
                    /\ ~request'[c].proven
                    /\ wire = <<>> /\ ~ended => lastMode = "exhausted"]_vars

(* However long the vault keeps the loop waiting for its reply, the gate   *)
(* comes back to having taken all that PULSE announced; a vault that stays *)
(* connected and does not read may keep it in drain() for ever             *)
(* (server.py, _gate_loop, _issue_to_module).                              *)
GateCatchesUp == \/ []<>(wire = <<>> /\ gateLoop = "taking")
                 \/ <>[](gateLoop = "draining")

=============================================================================
