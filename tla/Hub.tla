-------------------------------- MODULE Hub --------------------------------
(***************************************************************************)
(* The core hub and the module processes it supervises: the registry and   *)
(* its lifecycle machine (core/registry.py, core/lifecycle.py), the        *)
(* connections on core.sock and the routing table (core/server.py), and    *)
(* the monitor that restarts a failed module (core/supervisor.py, run_up   *)
(* in core/__main__.py).                                                   *)
(*                                                                         *)
(* asyncio runs one task at a time, so what a handler does between two     *)
(* awaits is one action.  The awaits that matter are kept: a connection's  *)
(* handler may be suspended between core.register and the binding of its   *)
(* writer, an end of stream is handled some time after the peer has gone,  *)
(* and the monitor handles a failure some time after it was announced.     *)
(*                                                                         *)
(* A slot is one connection together with the module process at its other  *)
(* end.  A slot is reused when both are finished with.                     *)
(***************************************************************************)
EXTENDS Lifecycle

CONSTANTS Modules,     \* module names
          Supervised,  \* the names in CHIMERA_MODULES
          External,    \* those of them launched by their own LaunchAgent
          Slots,       \* connections that may exist at the same time
          NoSlot,      \* "no writer" in the routing table
          Free         \* a slot without a connection

ASSUME HubAssumption == /\ Supervised \subseteq Modules
                        /\ External \subseteq Supervised
                        /\ NoSlot \notin Slots

VARIABLES fsm,       \* Lifecycle._records: the state of each module
          silence,   \* the age of last_seen
          ages,      \* the ages of restart_times
          entries,   \* the keys of Registry._entries
          conn,      \* the connections: which module, its peer, its handler
          writer,    \* Server._module_writers
          starting,  \* modules whose process is launched but not connected
          failures,  \* per module, the module.state_changed events with
                     \* "to FAILED" the monitor has not handled yet
          monitor    \* run_up's _monitor task

vars == <<fsm, silence, ages, entries, conn, writer, starting, failures,
          monitor>>

server == <<entries, conn, writer>>

(* peer: the module process; "gone" once it has exited or closed.          *)
(* handler: _serve_commands for this connection, which has                 *)
(*   open      registered nothing yet                                      *)
(*   draining  registered, and is sending the reply                        *)
(*   broken    registered, and finds the reply cannot be sent              *)
(*   attached  bound the writer of its module                              *)
(*   refused   been refused by the registry, and stays a plain connection  *)
Connection == [module  : Modules,
               peer    : {"up", "gone"},
               handler : {"open", "draining", "broken", "attached", "refused"}]

ASSUME FreeAssumption == Free \notin Connection

InUse(c) == conn[c] # Free

Init == /\ fsm      = [m \in Modules |-> "unregistered"]
        /\ silence  = [m \in Modules |-> NoBeat]
        /\ ages     = [m \in Modules |-> <<>>]
        /\ entries  = {}
        /\ conn     = [c \in Slots |-> Free]
        /\ writer   = [m \in Modules |-> NoSlot]
        /\ starting = Supervised \ External   \* Supervisor.up spawns them all
        /\ failures = [m \in Modules |-> 0]
        /\ monitor  = "running"

-----------------------------------------------------------------------------
(* Module processes.                                                       *)

(* A process of m that the supervisor did not spawn: its LaunchAgent, or   *)
(* the operator running it by hand beside the organism.                    *)
Launch(m) ==
  /\ m \notin starting
  /\ starting' = starting \cup {m}
  /\ UNCHANGED <<fsm, silence, ages, server, failures, monitor>>

Connect(c, m) ==
  /\ m \in starting
  /\ ~InUse(c)
  /\ starting' = starting \ {m}
  /\ conn' = [conn EXCEPT ![c] = [module |-> m, peer |-> "up",
                                  handler |-> "open"]]
  /\ UNCHANGED <<fsm, silence, ages, entries, writer, failures, monitor>>

(* The process dies before it reaches the socket.                          *)
DieEarly(m) ==
  /\ m \in starting
  /\ starting' = starting \ {m}
  /\ UNCHANGED <<fsm, silence, ages, server, failures, monitor>>

(* The process exits, crashes or is killed; the kernel closes its socket.  *)
Die(c) ==
  /\ InUse(c)
  /\ conn[c].peer = "up"
  /\ conn' = [conn EXCEPT ![c].peer = "gone"]
  /\ UNCHANGED <<fsm, silence, ages, entries, writer, starting, failures,
                 monitor>>

-----------------------------------------------------------------------------
(* core.register, core.deregister, core.heartbeat.                         *)

(* _drive_register: an untracked module walks through STARTING, a live one *)
(* only updates its capabilities.                                          *)
Registrable == {"unregistered", "starting"} \cup LiveStates

Registered(s) == IF s \in LiveStates THEN s ELSE "registered"

(* The line may still be in the buffer when the process is already gone;   *)
(* then writing the reply fails.                                           *)
Register(c) ==
  /\ InUse(c)
  /\ conn[c].handler = "open"
  /\ LET m == conn[c].module
     IN /\ fsm[m] \in Registrable
        /\ fsm'     = [fsm EXCEPT ![m] = Registered(@)]
        /\ entries' = entries \cup {m}
  /\ conn' = [conn EXCEPT ![c].handler =
                IF conn[c].peer = "up" THEN "draining" ELSE "broken"]
  /\ UNCHANGED <<silence, ages, writer, starting, failures, monitor>>

RegisterRefused(c) ==
  /\ InUse(c)
  /\ conn[c].handler = "open"
  /\ fsm[conn[c].module] \notin Registrable
  /\ conn' = [conn EXCEPT ![c].handler = "refused"]
  /\ UNCHANGED <<fsm, silence, ages, entries, writer, starting, failures,
                 monitor>>

Heartbeat(c) ==
  /\ InUse(c)
  /\ conn[c].peer = "up"
  /\ conn[c].handler \in {"attached", "refused"}
  /\ fsm[conn[c].module] # "unregistered"
  /\ silence' = [silence EXCEPT ![conn[c].module] = 0]
  /\ UNCHANGED <<fsm, ages, server, starting, failures, monitor>>

(* From any connection.  STOPPING is left within the same call.            *)
Deregister(m) ==
  /\ m \in entries
  /\ fsm' = [fsm EXCEPT ![m] = IF @ \in LiveStates THEN "stopped" ELSE @]
  /\ entries' = entries \ {m}
  /\ UNCHANGED <<silence, ages, conn, writer, starting, failures, monitor>>

-----------------------------------------------------------------------------
(* The life of a connection's handler.                                     *)

AttachByName(c) ==                                \* a mutant of Attach
  /\ InUse(c)
  /\ conn[c].handler = "draining"
  /\ conn'   = [conn EXCEPT ![c].handler = "attached"]
  /\ writer' = [writer EXCEPT ![conn[c].module] = conn[c].module]
  /\ UNCHANGED <<fsm, silence, ages, entries, starting, failures>>
  /\ UNCHANGED monitor

(* _attach_module_writer: an earlier writer of the module is replaced.     *)
Attach(c) ==
  /\ InUse(c)
  /\ conn[c].handler = "draining"
  /\ conn'   = [conn EXCEPT ![c].handler = "attached"]
  /\ writer' = [writer EXCEPT ![conn[c].module] = c]
  /\ UNCHANGED <<fsm, silence, ages, entries, starting, failures, monitor>>

(* The reply cannot be sent.  Nothing is attached yet, so the handler ends *)
(* without telling the registry.                                           *)
DrainFails(c) ==
  /\ InUse(c)
  /\ \/ conn[c].handler = "broken"
     \/ conn[c].handler = "draining" /\ conn[c].peer = "gone"
  /\ conn' = [conn EXCEPT ![c] = Free]
  /\ UNCHANGED <<fsm, silence, ages, entries, writer, starting, failures,
                 monitor>>

LostIfSwept(m) == m \in entries /\ fsm[m] \in SweptStates   \* a mutant of Lost

LostWhateverItsState(m) == m \in entries               \* a mutant of Lost

(* Registry.mark_lost: a live module becomes FAILED.                       *)
Lost(m) == m \in entries /\ fsm[m] \in LiveStates

DetachKeepsWriter(c) ==                           \* a mutant of Detach
  /\ InUse(c)
  /\ conn[c].peer = "gone"
  /\ conn[c].handler = "attached"
  /\ LET m == conn[c].module
     IN /\ fsm' = [fsm EXCEPT ![m] = IF Lost(m) THEN "failed" ELSE @]
        /\ failures' = IF Lost(m) THEN [failures EXCEPT ![m] = @ + 1]
                                  ELSE failures
  /\ conn' = [conn EXCEPT ![c] = Free]
  /\ UNCHANGED <<silence, ages, entries, writer, starting, monitor>>

(* The finally clause of an attached connection: the module's writer is    *)
(* dropped by name, whichever connection it belongs to, and the module is  *)
(* marked lost.                                                            *)
Detach(c) ==
  /\ InUse(c)
  /\ conn[c].peer = "gone"
  /\ conn[c].handler = "attached"
  /\ LET m == conn[c].module
     IN /\ writer' = [writer EXCEPT ![m] = NoSlot]
        /\ fsm' = [fsm EXCEPT ![m] = IF Lost(m) THEN "failed" ELSE @]
        /\ failures' = IF Lost(m) THEN [failures EXCEPT ![m] = @ + 1]
                                  ELSE failures
  /\ conn' = [conn EXCEPT ![c] = Free]
  /\ UNCHANGED <<silence, ages, entries, starting, monitor>>

(* The end of a connection that never bound a module.                      *)
Hangup(c) ==
  /\ InUse(c)
  /\ conn[c].peer = "gone"
  /\ conn[c].handler \in {"open", "refused"}
  /\ conn' = [conn EXCEPT ![c] = Free]
  /\ UNCHANGED <<fsm, silence, ages, entries, writer, starting, failures,
                 monitor>>

-----------------------------------------------------------------------------
(* Time, the heartbeat sweep and the restart of failed modules.            *)

Tick ==
  /\ silence' = [m \in Modules |-> LongerSilence(silence[m])]
  /\ ages'    = [m \in Modules |-> Older(ages[m])]
  /\ UNCHANGED <<fsm, server, starting, failures, monitor>>

(* sweep_once, over all modules without a suspension.                      *)
FailedBySweep(m) == fsm[m] # "failed" /\ Swept(fsm[m], silence[m]) = "failed"

Sweep ==
  /\ fsm' = [m \in Modules |-> Swept(fsm[m], silence[m])]
  /\ failures' = [m \in Modules |-> IF FailedBySweep(m) THEN failures[m] + 1
                                                        ELSE failures[m]]
  /\ UNCHANGED <<silence, ages, server, starting, monitor>>

RestartableIfAway(m) ==                       \* a mutant of Restartable
  m \in Supervised /\ fsm[m] = "failed" /\ writer[m] = NoSlot

(* The monitor takes the events one at a time.  handle_failure looks only  *)
(* at the module it is called for, so the order of events of different     *)
(* modules is left open.                                                   *)
Restartable(m) == m \in Supervised /\ fsm[m] = "failed"

(* Lifecycle.restart.                                                      *)
Restart(m) ==
  /\ fsm'  = [fsm EXCEPT ![m] = IF Spent(ages[m]) THEN "permanently_failed"
                                                 ELSE "starting"]
  /\ ages' = [ages EXCEPT ![m] = IF Spent(@) THEN Recent(@)
                                            ELSE Append(Recent(@), 0)]

(* The supervisor spawns a process of the module, unless it is external or *)
(* given up.                                                               *)
Respawns(m) == m \notin External /\ ~Spent(ages[m])

HandleFailure(m) ==
  /\ monitor = "running"
  /\ failures[m] > 0
  /\ failures' = [failures EXCEPT ![m] = @ - 1]
  /\ IF Restartable(m)
       THEN /\ Restart(m)
            /\ starting' = IF Respawns(m) THEN starting \cup {m} ELSE starting
       ELSE UNCHANGED <<fsm, ages, starting>>
  /\ UNCHANGED <<silence, server, monitor>>

(* Popen raises (the binary is gone): the module is already STARTING, and  *)
(* the exception ends the monitor task.                                    *)
SpawnRaises(m) ==
  /\ monitor = "running"
  /\ failures[m] > 0
  /\ failures' = [failures EXCEPT ![m] = @ - 1]
  /\ Restartable(m)
  /\ Respawns(m)
  /\ Restart(m)
  /\ monitor' = "dead"
  /\ UNCHANGED <<silence, server, starting>>

-----------------------------------------------------------------------------
Process(c) == Register(c) \/ RegisterRefused(c)

Handler(c) == Attach(c) \/ DrainFails(c) \/ Detach(c) \/ Hangup(c)

Monitor(m) == HandleFailure(m) \/ SpawnRaises(m)

Next == \/ \E m \in Modules : Launch(m) \/ DieEarly(m) \/ Deregister(m)
        \/ \E c \in Slots, m \in Modules : Connect(c, m)
        \/ \E c \in Slots : Die(c) \/ Heartbeat(c) \/ Process(c) \/ Handler(c)
        \/ Tick
        \/ Sweep
        \/ \E m \in Modules : Monitor(m)

Spec == Init /\ [][Next]_vars

(* asyncio runs every ready task: handlers, the sweep and the monitor.  A  *)
(* connected process sends its core.register.                              *)
FairSpec ==
  /\ Spec
  /\ WF_vars(Sweep)
  /\ WF_vars(Tick)
  /\ \A c \in Slots : WF_vars(Process(c)) /\ WF_vars(Handler(c))
  /\ \A m \in Modules : /\ WF_vars(Monitor(m))
                         /\ WF_vars(\E c \in Slots : Connect(c, m))

-----------------------------------------------------------------------------
(* Properties.                                                             *)

(* Every variable keeps its type.                                          *)
TypeOK ==
  /\ fsm \in [Modules -> ModuleState]
  /\ silence \in [Modules -> Silence]
  /\ ages \in [Modules -> Seq(Age)]
  /\ entries \in SUBSET Modules
  /\ conn \in [Slots -> Connection \cup {Free}]
  /\ writer \in [Modules -> Slots \cup {NoSlot}]
  /\ starting \in SUBSET Modules
  /\ failures \in [Modules -> Nat]
  /\ monitor \in {"running", "dead"}

(* Whatever registers, dies, is replaced or reconnects in whatever order,  *)
(* the router never holds the writer of a finished connection or of        *)
(* another module's connection.                                            *)
RouteIsLive ==
  \A m \in Modules : writer[m] # NoSlot =>
    /\ InUse(writer[m])
    /\ conn[writer[m]].module = m
    /\ conn[writer[m]].handler = "attached"

(* A failure is handled exactly once: a FAILED module has exactly one      *)
(* event on its way to the monitor, and no other module has any, so no     *)
(* failure is restarted twice and none is forgotten while the monitor runs.*)
OneEventPerFailure ==
  \A m \in Modules :
    /\ failures[m] <= 1
    /\ failures[m] = 1 => fsm[m] = "failed"
    /\ m \in Supervised /\ fsm[m] = "failed" => failures[m] = 1

(* "After MAX_RESTARTS within a rolling 1-hour window, core gives up": no  *)
(* more than that many restarts lie in any window.                         *)
RestartBudget ==
  \A m \in Modules : Len(Recent(ages[m])) <= MaxRestarts

(* A module that was stopped, or given up, is never brought back by a      *)
(* registration, by the loss of one of its connections or by the monitor.  *)
TerminalIsFinal ==
  [][\A m \in Modules : fsm[m] \in Terminal => fsm'[m] = fsm[m]]_vars

(* As long as the monitor task lives, a supervised module that fails is    *)
(* restarted or given up, and the crash of the process of a live module is *)
(* such a failure, however it falls between two sweeps.                    *)
FailureIsHandled ==
  \A m \in Supervised :
    /\ fsm[m] = "failed" ~> (fsm[m] # "failed" \/ monitor = "dead")
    /\ \A c \in Slots :
         (/\ InUse(c) /\ conn[c] = [module |-> m, peer |-> "gone",
                                    handler |-> "attached"]
          /\ fsm[m] \in LiveStates)
         ~> (fsm[m] \in {"starting"} \cup Terminal \/ monitor = "dead")

-----------------------------------------------------------------------------
(* What the comments of the code say, and the code does not do.            *)

(* "Bind a module's live connection.  Re-attach replaces the previous one":*)
(* the route to a module vanishes only with the connection it leads to.    *)
(* The teardown of a replaced connection drops the route of its successor. *)
ReattachKeepsRoute ==
  [][\A m \in Modules :
       writer[m] # NoSlot /\ writer'[m] = NoSlot
         => conn'[writer[m]] = Free]_vars

(* "3 missed heartbeats: mark FAILED, begin restart policy": a live module *)
(* is not silent beyond the dead threshold for ever.  The sweep looks at   *)
(* HEALTHY and DEGRADED modules only, and no module becomes HEALTHY.       *)
SilentIsFailed ==
  \A m \in Modules :
    []<>~(fsm[m] \in LiveStates /\ silence[m] = DeadThreshold)

=============================================================================
