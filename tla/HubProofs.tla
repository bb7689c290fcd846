----------------------------- MODULE HubProofs -----------------------------
(***************************************************************************)
(* Theorems about module Hub, for any number of modules and connections,   *)
(* any thresholds and any restart budget.  TypeOK is inductive by itself;  *)
(* RouteIsLive, OneEventPerFailure and RestartBudget with it.              *)
(***************************************************************************)
EXTENDS Hub, TLAPS, FiniteSetTheorems, SequenceTheorems

(* A spent or fresh list of restart ages, pruned and aged, is still one.   *)
LEMMA AgesType ==
  ASSUME NEW s \in Seq(Age)
  PROVE  /\ Recent(s) \in Seq(Age)
         /\ Append(Recent(s), 0) \in Seq(Age)
         /\ Older(s) \in Seq(Age)
<1>1. Window \in Nat
  BY LifecycleAssumption
<1>2. IsFiniteSet(Expired(s))
  <2>1. IsFiniteSet(1..Len(s))
    BY FS_Interval, LenProperties
  <2>2. Expired(s) \in SUBSET (1..Len(s))
    BY LenProperties DEF Expired
  <2> QED
    BY <2>1, <2>2, FS_Subset
<1>3. Cardinality(Expired(s)) \in Nat
  BY <1>2, FS_CardinalityType
<1>4. Recent(s) \in Seq(Age)
  <2> DEFINE n == Cardinality(Expired(s)) + 1
  <2>1. n \in Nat /\ n >= 1
    BY <1>3
  <2> HIDE DEF n
  <2>2. SubSeq(s, n, Len(s)) \in Seq(Age)
    BY <2>1, SubSeqProperties, LenProperties
  <2> QED
    BY <2>2 DEF Recent, n
<1>5. 0 \in Age
  BY <1>1 DEF Age
<1>6. Append(Recent(s), 0) \in Seq(Age)
  BY <1>4, <1>5, AppendProperties
<1>7. Older(s) \in Seq(Age)
  <2>1. \A i \in 1..Len(s) : s[i] \in Age
    BY ElementOfSeq
  <2>2. DOMAIN s = 1..Len(s) /\ Len(s) \in Nat
    BY LenProperties
  <2>3. \A a \in Age : a < Window => a + 1 \in Age
    BY <1>1 DEF Age
  <2>4. Window \in Age
    BY <1>1 DEF Age
  <2>5. Older(s) \in [1..Len(s) -> Age]
    BY <2>1, <2>2, <2>3, <2>4 DEF Older
  <2> QED
    BY <2>2, <2>5, SeqDef
<1> QED
  BY <1>4, <1>6, <1>7

-----------------------------------------------------------------------------
LEMMA InitType == Init => TypeOK
  BY HubAssumption, LifecycleAssumption, EmptySeq
  DEF Init, TypeOK, ModuleState, Silence, NoBeat

LEMMA SilenceType ==
  ASSUME NEW k \in Silence
  PROVE  LongerSilence(k) \in Silence /\ 0 \in Silence
  BY LifecycleAssumption DEF Silence, NoBeat, LongerSilence

LEMMA SweptType ==
  ASSUME NEW s \in ModuleState, NEW k
  PROVE  Swept(s, k) \in ModuleState
  BY DEF Swept, DesiredState, ModuleState

LEMMA NextType == TypeOK /\ [Next]_vars => TypeOK'
<1> SUFFICES ASSUME TypeOK, [Next]_vars PROVE TypeOK'
  OBVIOUS
<1> USE DEF TypeOK, server
<1>1. CASE \E m \in Modules : Launch(m) \/ DieEarly(m) \/ Deregister(m)
  BY <1>1 DEF Launch, DieEarly, Deregister, ModuleState
<1>2. CASE \E c \in Slots, m \in Modules : Connect(c, m)
  BY <1>2 DEF Connect, Connection
<1>3. ASSUME NEW c \in Slots, InUse(c)
      PROVE  /\ conn[c] \in Connection
             /\ \A h \in {"open", "draining", "broken", "attached", "refused"} :
                   [conn EXCEPT ![c].handler = h]
                     \in [Slots -> Connection \cup {Free}]
             /\ [conn EXCEPT ![c].peer = "gone"]
                     \in [Slots -> Connection \cup {Free}]
  BY <1>3 DEF InUse, Connection
<1>4. ASSUME NEW c \in Slots, Die(c) \/ Heartbeat(c) \/ Process(c)
      PROVE  TypeOK'
  <2>1. CASE Die(c)
    BY <1>3, <2>1 DEF Die
  <2>2. CASE Heartbeat(c)
    <3>1. conn[c].module \in Modules
      BY <1>3, <2>2 DEF Heartbeat, Connection
    <3>2. 0 \in Silence
      BY LifecycleAssumption DEF Silence, NoBeat
    <3> QED
      BY <2>2, <3>1, <3>2 DEF Heartbeat
  <2>3. CASE Register(c)
    <3>1. conn[c].module \in Modules
      BY <1>3, <2>3 DEF Register, Connection
    <3>2. fsm' \in [Modules -> ModuleState] /\ entries' \in SUBSET Modules
      BY <2>3, <3>1 DEF Register, Registered, ModuleState
    <3>3. conn' \in [Slots -> Connection \cup {Free}]
      BY <1>3, <2>3 DEF Register
    <3> QED
      BY <2>3, <3>2, <3>3 DEF Register
  <2>4. CASE RegisterRefused(c)
    BY <1>3, <2>4 DEF RegisterRefused
  <2> QED
    BY <1>4, <2>1, <2>2, <2>3, <2>4 DEF Process
<1>5. ASSUME NEW c \in Slots, Handler(c)
      PROVE  TypeOK'
  <2>1. CASE Attach(c)
    BY <1>3, <2>1 DEF Attach, Connection
  <2>2. CASE DrainFails(c) \/ Hangup(c)
    BY <2>2 DEF DrainFails, Hangup
  <2>3. CASE Detach(c)
    <3>1. conn[c].module \in Modules
      BY <1>3, <2>3 DEF Detach, Connection
    <3> QED
      BY <2>3, <3>1 DEF Detach, ModuleState
  <2> QED
    BY <1>5, <2>1, <2>2, <2>3 DEF Handler
<1>6. CASE Tick
  BY <1>6, SilenceType, AgesType DEF Tick
<1>7. CASE Sweep
  BY <1>7, SweptType DEF Sweep
<1>8. ASSUME NEW m \in Modules, Restart(m)
      PROVE  fsm' \in [Modules -> ModuleState] /\ ages' \in [Modules -> Seq(Age)]
  BY <1>8, AgesType DEF Restart, ModuleState
<1>9. ASSUME NEW m \in Modules, Monitor(m)
      PROVE  TypeOK'
  <2>1. failures[m] > 0 =>
          [failures EXCEPT ![m] = @ - 1] \in [Modules -> Nat]
    OBVIOUS
  <2>2. CASE HandleFailure(m) /\ Restartable(m)
    BY <1>8, <2>1, <2>2 DEF HandleFailure
  <2>3. CASE HandleFailure(m) /\ ~Restartable(m)
    BY <2>1, <2>3 DEF HandleFailure
  <2>4. CASE SpawnRaises(m)
    BY <1>8, <2>1, <2>4 DEF SpawnRaises
  <2> QED
    BY <1>9, <2>2, <2>3, <2>4 DEF Monitor
<1>10. CASE UNCHANGED vars
  BY <1>10 DEF vars
<1> QED
  BY <1>1, <1>2, <1>4, <1>5, <1>6, <1>7, <1>9, <1>10 DEF Next

(* Every variable of the hub keeps its type.                               *)
THEOREM TypeInvariant == Spec => []TypeOK
  BY InitType, NextType, PTL DEF Spec

-----------------------------------------------------------------------------
(* The routing table.  A step that changes neither the writer of a module  *)
(* nor the connection it leads to keeps the route; only Attach and Detach  *)
(* change writers, and only the connections they are about change under a  *)
(* writer.                                                                 *)
Route(m) == writer[m] # NoSlot =>
              /\ InUse(writer[m])
              /\ conn[writer[m]].module = m
              /\ conn[writer[m]].handler = "attached"

LEMMA RouteStep == TypeOK /\ RouteIsLive /\ [Next]_vars => RouteIsLive'
<1> SUFFICES ASSUME TypeOK, RouteIsLive, [Next]_vars,
                    NEW m \in Modules
             PROVE  Route(m)'
  BY DEF RouteIsLive, Route
<1>1. /\ Route(m)
      /\ writer \in [Modules -> Slots \cup {NoSlot}]
      /\ conn \in [Slots -> Connection \cup {Free}]
  BY DEF RouteIsLive, Route, TypeOK
<1>2. NoSlot \notin Slots
  BY HubAssumption
<1>3. ASSUME UNCHANGED writer,
             writer[m] \in Slots => conn'[writer[m]] = conn[writer[m]]
      PROVE  Route(m)'
  BY <1>1, <1>2, <1>3 DEF Route, InUse
<1>4. ASSUME NEW c \in Slots, UNCHANGED writer, writer[m] # c,
             \E v : conn' = [conn EXCEPT ![c] = v]
      PROVE  Route(m)'
  BY <1>1, <1>3, <1>4
<1>5. CASE \E n \in Modules : Launch(n) \/ DieEarly(n) \/ Deregister(n)
  BY <1>1, <1>3, <1>5 DEF Launch, DieEarly, Deregister, server
<1>6. ASSUME NEW c \in Slots, NEW n \in Modules, Connect(c, n)
      PROVE  Route(m)'
  BY <1>1, <1>2, <1>4, <1>6 DEF Connect, Route
<1>7. ASSUME NEW c \in Slots, Die(c) \/ Heartbeat(c) \/ Process(c)
      PROVE  Route(m)'
  <2>1. CASE Die(c)
    <3>1. CASE writer[m] = c
      <4>1. conn[c] \in Connection
        BY <1>1, <2>1 DEF Die, InUse
      <4>2. /\ conn'[c].module = conn[c].module
            /\ conn'[c].handler = conn[c].handler
            /\ conn'[c] \in Connection
        BY <1>1, <2>1, <4>1 DEF Die, Connection
      <4> QED
        BY <1>1, <1>2, <2>1, <3>1, <4>2, FreeAssumption
        DEF Die, Route, InUse
    <3>2. CASE writer[m] # c
      BY <1>1, <1>3, <2>1, <3>2 DEF Die
    <3> QED
      BY <3>1, <3>2
  <2>2. CASE Heartbeat(c)
    BY <1>3, <2>2 DEF Heartbeat, server
  <2>3. CASE Process(c)
    <3>1. writer[m] # c
      BY <1>1, <1>2, <2>3 DEF Process, Register, RegisterRefused, Route
    <3> QED
      BY <1>1, <1>3, <2>3, <3>1 DEF Process, Register, RegisterRefused
  <2> QED
    BY <1>7, <2>1, <2>2, <2>3
<1>8. ASSUME NEW c \in Slots, Handler(c)
      PROVE  Route(m)'
  <2>1. CASE Attach(c)
    <3>1. conn[c] \in Connection
      BY <1>1, <2>1 DEF Attach, InUse
    <3>2. /\ conn'[c].module = conn[c].module
          /\ conn'[c].handler = "attached"
          /\ conn'[c] \in Connection
      BY <1>1, <2>1, <3>1 DEF Attach, Connection
    <3>3. CASE conn[c].module = m
      BY <1>1, <2>1, <3>2, <3>3, FreeAssumption DEF Attach, Route, InUse
    <3>4. CASE conn[c].module # m
      <4>1. conn[c].module \in Modules
        BY <3>1 DEF Connection
      <4>2. writer'[m] = writer[m] /\ writer[m] # c
        BY <1>1, <1>2, <2>1, <3>4, <4>1 DEF Attach, Route
      <4> QED
        BY <1>1, <1>2, <2>1, <4>2 DEF Attach, Route, InUse
    <3> QED
      BY <3>3, <3>4
  <2>2. CASE DrainFails(c) \/ Hangup(c)
    <3>1. writer[m] # c
      BY <1>1, <1>2, <2>2 DEF DrainFails, Hangup, Route
    <3> QED
      BY <1>1, <1>3, <2>2, <3>1 DEF DrainFails, Hangup
  <2>3. CASE Detach(c)
    <3>1. conn[c].module \in Modules
      BY <1>1, <2>3 DEF Detach, InUse, Connection
    <3>2. CASE conn[c].module = m
      BY <1>1, <2>3, <3>1, <3>2 DEF Detach, Route
    <3>3. CASE conn[c].module # m
      <4>1. writer'[m] = writer[m] /\ writer[m] # c
        BY <1>1, <1>2, <2>3, <3>1, <3>3 DEF Detach, Route
      <4> QED
        BY <1>1, <1>2, <2>3, <4>1 DEF Detach, Route, InUse
    <3> QED
      BY <3>2, <3>3
  <2> QED
    BY <1>8, <2>1, <2>2, <2>3 DEF Handler
<1>9. CASE Tick \/ Sweep
  BY <1>3, <1>9 DEF Tick, Sweep, server
<1>10. ASSUME NEW n \in Modules, Monitor(n)
       PROVE  Route(m)'
  BY <1>3, <1>10 DEF Monitor, HandleFailure, SpawnRaises, server
<1>11. CASE UNCHANGED vars
  BY <1>3, <1>11 DEF vars
<1> QED
  BY <1>5, <1>6, <1>7, <1>8, <1>9, <1>10, <1>11 DEF Next

(* The router holds no writer of a finished or foreign connection.         *)
THEOREM RouteInvariant == Spec => []RouteIsLive
<1>1. Init => RouteIsLive
  BY DEF Init, RouteIsLive
<1> QED
  BY <1>1, RouteStep, TypeInvariant, PTL DEF Spec

-----------------------------------------------------------------------------
(* Failures and the events that announce them.                             *)
Announced(m) ==
  /\ failures[m] <= 1
  /\ failures[m] = 1 => fsm[m] = "failed"
  /\ m \in Supervised /\ fsm[m] = "failed" => failures[m] = 1

LEMMA FailureStep == TypeOK /\ OneEventPerFailure /\ [Next]_vars
                       => OneEventPerFailure'
<1> SUFFICES ASSUME TypeOK, OneEventPerFailure, [Next]_vars,
                    NEW m \in Modules
             PROVE  Announced(m)'
  BY DEF OneEventPerFailure, Announced
<1>1. /\ Announced(m)
      /\ fsm \in [Modules -> ModuleState]
      /\ failures \in [Modules -> Nat]
      /\ failures[m] \in Nat
  BY DEF OneEventPerFailure, Announced, TypeOK
<1>2. ASSUME failures'[m] = failures[m],
             fsm'[m] = "failed" <=> fsm[m] = "failed"
      PROVE  Announced(m)'
  BY <1>1, <1>2 DEF Announced
<1>3. ASSUME fsm[m] # "failed", fsm'[m] = "failed",
             failures'[m] = failures[m] + 1
      PROVE  Announced(m)'
  BY <1>1, <1>3 DEF Announced
<1>4. CASE \E n \in Modules : Launch(n) \/ DieEarly(n) \/ Deregister(n)
  BY <1>1, <1>2, <1>4 DEF Launch, DieEarly, Deregister, LiveStates
<1>5. CASE \E c \in Slots, n \in Modules : Connect(c, n)
  BY <1>2, <1>5 DEF Connect
<1>6. ASSUME NEW c \in Slots, Die(c) \/ Heartbeat(c) \/ Process(c)
      PROVE  Announced(m)'
  <2>1. CASE Register(c)
    <3>1. fsm'[m] = "failed" <=> fsm[m] = "failed"
      BY <1>1, <2>1
      DEF Register, Registrable, Registered, LiveStates
    <3> QED
      BY <1>2, <2>1, <3>1 DEF Register
  <2> QED
    BY <1>2, <1>6, <2>1 DEF Die, Heartbeat, Process, RegisterRefused
<1>7. ASSUME NEW c \in Slots, Handler(c)
      PROVE  Announced(m)'
  <2>1. CASE Detach(c)
    <3>1. CASE conn[c].module = m /\ Lost(m)
      BY <1>1, <1>3, <2>1, <3>1 DEF Detach, Lost, LiveStates
    <3>2. CASE conn[c].module # m \/ ~Lost(m)
      BY <1>1, <1>2, <2>1, <3>2 DEF Detach
    <3> QED
      BY <3>1, <3>2
  <2> QED
    BY <1>2, <1>7, <2>1 DEF Handler, Attach, DrainFails, Hangup
<1>8. CASE Tick
  BY <1>2, <1>8 DEF Tick
<1>9. CASE Sweep
  <2>1. CASE FailedBySweep(m)
    BY <1>1, <1>3, <1>9, <2>1 DEF Sweep, FailedBySweep
  <2>2. CASE ~FailedBySweep(m)
    <3>1. fsm[m] = "failed" => fsm'[m] = "failed"
      BY <1>9 DEF Sweep, Swept, SweptStates
    <3> QED
      BY <1>1, <1>2, <1>9, <2>2, <3>1 DEF Sweep, FailedBySweep
  <2> QED
    BY <2>1, <2>2
<1>10. ASSUME NEW n \in Modules, Monitor(n)
       PROVE  Announced(m)'
  <2>1. CASE n # m
    BY <1>1, <1>2, <1>10, <2>1
    DEF Monitor, HandleFailure, SpawnRaises, Restart
  <2>2. CASE n = m
    <3>1. failures[m] = 1 /\ fsm[m] = "failed" /\ failures'[m] = 0
      BY <1>1, <1>10, <2>2
      DEF Monitor, HandleFailure, SpawnRaises, Announced
    <3>2. CASE Restartable(m)
      <4>1. fsm'[m] # "failed"
        BY <1>1, <1>10, <2>2, <3>2
        DEF Monitor, HandleFailure, SpawnRaises, Restart
      <4> QED
        BY <3>1, <4>1 DEF Announced
    <3>3. CASE ~Restartable(m)
      BY <3>1, <3>3 DEF Restartable, Announced
    <3> QED
      BY <3>2, <3>3
  <2> QED
    BY <2>1, <2>2
<1>11. CASE UNCHANGED vars
  BY <1>2, <1>11 DEF vars
<1> QED
  BY <1>4, <1>5, <1>6, <1>7, <1>8, <1>9, <1>10, <1>11 DEF Next

(* A failure is announced to the monitor exactly once, however sweeps,     *)
(* lost connections and restarts interleave.                               *)
THEOREM FailureInvariant == Spec => []OneEventPerFailure
<1>1. Init => OneEventPerFailure
  BY DEF Init, OneEventPerFailure
<1> QED
  BY <1>1, FailureStep, TypeInvariant, PTL DEF Spec

-----------------------------------------------------------------------------
(* The end states of the lifecycle.                                        *)

LEMMA TerminalStates == Terminal \subseteq {"stopped", "permanently_failed"}
<1> SUFFICES ASSUME NEW s \in ModuleState,
                    s \notin {"stopped", "permanently_failed"}
             PROVE  \E t \in ModuleState : <<s, t>> \in AllowedTransitions
  BY DEF Terminal
<1> DEFINE Successor ==
      [unregistered |-> "starting", starting |-> "registered",
       registered |-> "healthy", healthy |-> "degraded",
       degraded |-> "healthy", stopping |-> "stopped", failed |-> "starting"]
<1>1. <<s, Successor[s]>> \in AllowedTransitions
  BY DEF ModuleState, AllowedTransitions
<1>2. Successor[s] \in ModuleState
  BY DEF ModuleState
<1> QED
  BY <1>1, <1>2

LEMMA TerminalStep ==
  ASSUME TypeOK, [Next]_vars, NEW m \in Modules, fsm[m] \in Terminal
  PROVE  fsm'[m] = fsm[m]
<1>1. fsm[m] \in {"stopped", "permanently_failed"} /\ fsm \in [Modules -> ModuleState]
  BY TerminalStates DEF TypeOK
<1>2. CASE \E n \in Modules : Launch(n) \/ DieEarly(n) \/ Deregister(n)
  BY <1>1, <1>2 DEF Launch, DieEarly, Deregister, LiveStates
<1>3. CASE \E c \in Slots, n \in Modules : Connect(c, n)
  BY <1>3 DEF Connect
<1>4. CASE \E c \in Slots : Die(c) \/ Heartbeat(c) \/ Process(c)
  BY <1>1, <1>4
  DEF Die, Heartbeat, Process, Register, RegisterRefused, Registrable,
      LiveStates
<1>5. CASE \E c \in Slots : Handler(c)
  BY <1>1, <1>5
  DEF Handler, Attach, DrainFails, Hangup, Detach, Lost, LiveStates
<1>6. CASE Tick \/ Sweep
  BY <1>1, <1>6 DEF Tick, Sweep, Swept, SweptStates
<1>7. CASE \E n \in Modules : Monitor(n)
  BY <1>1, <1>7 DEF Monitor, HandleFailure, SpawnRaises, Restart, Restartable
<1>8. CASE UNCHANGED vars
  BY <1>8 DEF vars
<1> QED
  BY <1>2, <1>3, <1>4, <1>5, <1>6, <1>7, <1>8 DEF Next

(* A stopped module, or one that was given up, never comes back.           *)
THEOREM TerminalForEver == Spec => TerminalIsFinal
<1>1. TypeOK /\ [Next]_vars =>
        [\A m \in Modules : fsm[m] \in Terminal => fsm'[m] = fsm[m]]_vars
  BY TerminalStep
<1> QED
  BY <1>1, TypeInvariant, PTL DEF Spec, TerminalIsFinal

-----------------------------------------------------------------------------
(* The restart budget.  Ageing only expires restarts, and a new one is     *)
(* recorded only while fewer than MaxRestarts are in the window.           *)

LEMMA RecentLength ==
  ASSUME NEW s \in Seq(Age)
  PROVE  /\ IsFiniteSet(Expired(s)) /\ Cardinality(Expired(s)) \in Nat
         /\ Cardinality(Expired(s)) <= Len(s)
         /\ Len(Recent(s)) = Len(s) - Cardinality(Expired(s))
<1>1. Len(s) \in Nat /\ DOMAIN s = 1..Len(s)
  BY LenProperties
<1>2. IsFiniteSet(1..Len(s)) /\ Cardinality(1..Len(s)) = Len(s)
  BY <1>1, FS_Interval
<1>3. Expired(s) \subseteq 1..Len(s)
  BY <1>1 DEF Expired
<1>4. /\ IsFiniteSet(Expired(s))
      /\ Cardinality(Expired(s)) <= Len(s)
      /\ Cardinality(Expired(s)) \in Nat
  BY <1>2, <1>3, FS_Subset, FS_CardinalityType
<1>5. PICK k \in Nat : k = Cardinality(Expired(s))
  BY <1>4
<1>6. Len(SubSeq(s, k + 1, Len(s))) = Len(s) - k
  <2>1. k <= Len(s)
    BY <1>4, <1>5
  <2> DEFINE first == k + 1
  <2>2. /\ Len(s) \in Int /\ first \in Int
        /\ \A i \in first..Len(s) : s[i] \in Age
    BY <1>1, ElementOfSeq
  <2> HIDE DEF first
  <2>3. /\ SubSeq(s, first, Len(s)) \in Seq(Age)
        /\ Len(SubSeq(s, first, Len(s))) =
             IF first <= Len(s) THEN Len(s) - first + 1 ELSE 0
    BY <2>2, SubSeqProperties
  <2>4. PICK n \in Nat : n = Len(s)
    BY <1>1
  <2>5. (IF first <= n THEN n - first + 1 ELSE 0) = n - k
    BY <2>1, <2>4 DEF first
  <2> QED
    BY <2>3, <2>4, <2>5 DEF first
<1> QED
  BY <1>4, <1>5, <1>6 DEF Recent

LEMMA OlderIsNotMore ==
  ASSUME NEW s \in Seq(Age)
  PROVE  Len(Recent(Older(s))) <= Len(Recent(s))
<1>1. Window \in Nat
  BY LifecycleAssumption
<1>2. /\ Len(s) \in Nat /\ DOMAIN s = 1..Len(s)
      /\ \A i \in DOMAIN s : s[i] \in Age
  BY LenProperties, ElementOfSeq
<1>3. Older(s) \in Seq(Age)
  BY AgesType
<1>4. Len(Older(s)) \in Nat /\ DOMAIN Older(s) = 1..Len(Older(s))
  BY <1>3, LenProperties
<1>5. DOMAIN Older(s) = 1..Len(s)
  BY <1>2 DEF Older
<1>6. Len(Older(s)) = Len(s)
  <2>1. PICK n \in Nat : n = Len(s)
    BY <1>2
  <2>2. PICK o \in Nat : o = Len(Older(s))
    BY <1>4
  <2>3. 1..n = 1..o
    BY <1>4, <1>5, <2>1, <2>2
  <2>4. n = o
    BY <2>3
  <2> QED
    BY <2>1, <2>2, <2>4
<1>7. Expired(s) \subseteq Expired(Older(s))
  BY <1>1, <1>2 DEF Expired, InWindow, Older, Age
<1>8. Cardinality(Expired(s)) <= Cardinality(Expired(Older(s)))
  BY <1>3, <1>7, RecentLength, FS_Subset
<1>9. /\ Len(Recent(s)) = Len(s) - Cardinality(Expired(s))
      /\ Len(Recent(Older(s))) = Len(s) - Cardinality(Expired(Older(s)))
      /\ Cardinality(Expired(s)) \in Nat
      /\ Cardinality(Expired(Older(s))) \in Nat
  BY <1>3, <1>6, RecentLength
<1> QED
  BY <1>2, <1>8, <1>9

LEMMA BudgetStep == TypeOK /\ RestartBudget /\ [Next]_vars => RestartBudget'
<1> SUFFICES ASSUME TypeOK, RestartBudget, [Next]_vars, NEW m \in Modules
             PROVE  Len(Recent(ages'[m])) <= MaxRestarts
  BY DEF RestartBudget
<1>1. /\ ages \in [Modules -> Seq(Age)] /\ ages[m] \in Seq(Age)
      /\ Len(Recent(ages[m])) <= MaxRestarts /\ MaxRestarts \in Nat
  BY LifecycleAssumption DEF TypeOK, RestartBudget
<1>2. CASE UNCHANGED ages
  BY <1>1, <1>2
<1>3. CASE Tick
  <2>1. ages'[m] = Older(ages[m])
    BY <1>3 DEF Tick
  <2>2. /\ Older(ages[m]) \in Seq(Age)
        /\ Recent(ages[m]) \in Seq(Age)
        /\ Recent(Older(ages[m])) \in Seq(Age)
    BY <1>1, AgesType
  <2>3. Len(Recent(Older(ages[m]))) <= Len(Recent(ages[m]))
    BY <1>1, OlderIsNotMore
  <2>4. /\ Len(Recent(ages[m])) \in Nat
        /\ Len(Recent(Older(ages[m]))) \in Nat
    BY <2>2, LenProperties
  <2> QED
    BY <1>1, <2>1, <2>3, <2>4
<1>4. ASSUME NEW n \in Modules, Restart(n)
      PROVE  Len(Recent(ages'[m])) <= MaxRestarts
  <2> DEFINE kept == Recent(ages[n])
             new  == IF Spent(ages[n]) THEN kept ELSE Append(kept, 0)
  <2>1. ages' = [ages EXCEPT ![n] = new]
    BY <1>4 DEF Restart
  <2>2. CASE m # n
    BY <1>1, <2>1, <2>2
  <2>3. CASE m = n
    <3>1. /\ kept \in Seq(Age) /\ Len(kept) \in Nat
          /\ Len(kept) <= MaxRestarts
      BY <1>1, <2>3, AgesType, LenProperties
    <3>2. Append(kept, 0) \in Seq(Age) /\ Len(Append(kept, 0)) = Len(kept) + 1
      BY <1>1, <2>3, <3>1, AgesType
    <3>3. new \in Seq(Age) /\ Len(new) <= MaxRestarts /\ Len(new) \in Nat
      BY <1>1, <3>1, <3>2 DEF Spent
    <3>4. Len(Recent(new)) <= Len(new)
      <4> HIDE DEF new
      <4>1. /\ Len(Recent(new)) = Len(new) - Cardinality(Expired(new))
            /\ Cardinality(Expired(new)) \in Nat
        BY <3>3, RecentLength
      <4> QED
        BY <3>3, <4>1
    <3>5. Recent(new) \in Seq(Age) /\ Len(Recent(new)) \in Nat
      BY <3>3, AgesType, LenProperties
    <3>6. ages'[m] = new
      BY <1>1, <2>1, <2>3
    <3> QED
      BY <1>1, <3>3, <3>4, <3>5, <3>6
  <2> QED
    BY <2>2, <2>3
<1>5. ASSUME NEW n \in Modules, Monitor(n)
      PROVE  Restart(n) \/ UNCHANGED ages
  BY <1>5 DEF Monitor, HandleFailure, SpawnRaises, Restart
<1>6. CASE \/ \E n \in Modules : Launch(n) \/ DieEarly(n) \/ Deregister(n)
           \/ \E c \in Slots, n \in Modules : Connect(c, n)
           \/ \E c \in Slots : \/ Die(c) \/ Heartbeat(c) \/ Process(c)
                               \/ Handler(c)
           \/ Sweep
           \/ UNCHANGED vars
  <2>1. UNCHANGED ages
    BY <1>6 DEF Launch, DieEarly, Deregister, Connect, Die, Heartbeat, Process,
                Register, RegisterRefused, Handler, Attach, DrainFails,
                Hangup, Detach, Sweep, vars
  <2> QED
    BY <1>2, <2>1
<1> QED
  BY <1>2, <1>3, <1>4, <1>5, <1>6 DEF Next

(* No more than MaxRestarts restarts of a module ever lie in one window    *)
(* (lifecycle.py, restart; "core gives up" after them).                    *)
THEOREM BudgetIsKept == Spec => []RestartBudget
<1>1. Init => RestartBudget
  <2> SUFFICES ASSUME Init, NEW m \in Modules
               PROVE  Len(Recent(ages[m])) <= MaxRestarts
    BY DEF RestartBudget
  <2>1. ages[m] = <<>> /\ <<>> \in Seq(Age) /\ Len(<<>>) = 0
    BY EmptySeq DEF Init
  <2>2. /\ Len(Recent(<<>>)) = 0 - Cardinality(Expired(<<>>))
        /\ Cardinality(Expired(<<>>)) \in Nat
    BY <2>1, RecentLength
  <2> QED
    BY <2>1, <2>2, LifecycleAssumption
<1> QED
  BY <1>1, InitType, NextType, BudgetStep, PTL DEF Spec

=============================================================================
