------------------------------- MODULE Router -------------------------------
(***************************************************************************)
(* The routing of module commands through the core hub (core/server.py,    *)
(* _route to _resolve_pending).  A caller's request is forwarded under a   *)
(* fresh internal id to the connection its module has at that moment; the  *)
(* reply comes back under the same id, possibly after the caller has given *)
(* up, possibly on a connection that is no longer the module's current one.*)
(*                                                                         *)
(* A caller is a connection of a surface, which handles one request at a   *)
(* time, or one of the core's own reflexes.  Its coroutine is suspended    *)
(* twice: in drain(), while the transport to the module is full, and in    *)
(* wait_for(), where the deadline runs.                                    *)
(*                                                                         *)
(* Requests are numbered; the number travels with the frame as its content *)
(* and no code looks at it.                                                *)
(***************************************************************************)
EXTENDS Naturals, Sequences, FiniteSets

CONSTANTS Callers,
          Modules,
          Links,       \* connections of modules that may exist at one time
          Room,        \* frames a transport takes before drain() suspends
          MaxCalls,    \* bound on the requests forwarded in a behaviour
          NoLink,      \* no writer, no connection
          NotPending   \* no future under this id

ASSUME RouterAssumption == /\ Room \in Nat
                           /\ MaxCalls \in Nat
                           /\ NoLink \notin Links

VARIABLES lastId,    \* Server._next_internal_id
          pending,   \* Server._pending
          writer,    \* Server._module_writers
          link,      \* the modules' connections and what is under way on them
          caller,    \* the callers' coroutines
          executed   \* history: how often a request was carried out

vars == <<lastId, pending, writer, link, caller, executed>>

Ids == 1..MaxCalls

(* The outcome of a future: pending, failed by a detach, or the reply to   *)
(* the request of that number.                                             *)
Unanswered == 0
Offline    == MaxCalls + 1
Outcome    == 0..MaxCalls + 1

Future == [owner : Modules, link : Links, outcome : Outcome]

Frame == [id : Ids, ask : Ids]

Connection == [module : Modules, peer : {"up", "gone"},
               inbox : Seq(Frame), outbox : Seq(Frame)]

ASSUME NoValueAssumption == /\ NoLink \notin Connection
                            /\ NotPending \notin Future

(* told: nothing yet, an error, or the number of the request whose reply   *)
(* the caller was given.                                                   *)
Error == MaxCalls + 1

Caller == [pc : {"idle", "drain", "wait"}, link : Links \cup {NoLink},
           id : 0..MaxCalls, ask : 0..MaxCalls, told : 0..MaxCalls + 1]

Init == /\ lastId   = 0
        /\ pending  = [i \in Ids |-> NotPending]
        /\ writer   = [m \in Modules |-> NoLink]
        /\ link     = [l \in Links |-> NoLink]
        /\ caller   = [c \in Callers |-> [pc |-> "idle", link |-> NoLink,
                                          id |-> 0, ask |-> 0, told |-> 0]]
        /\ executed = [i \in Ids |-> 0]

-----------------------------------------------------------------------------
(* The modules and their connections.                                      *)

Open(l) == link[l] # NoLink

(* The futures after _detach_module_writer(m).                             *)
FailedFor(m) ==
  [i \in Ids |-> IF pending[i] # NotPending
                    /\ pending[i].owner = m
                    /\ pending[i].outcome = Unanswered
                   THEN [pending[i] EXCEPT !.outcome = Offline]
                   ELSE pending[i]]

AttachOverOld(l, m) ==                            \* a mutant of Attach
  /\ ~Open(l)
  /\ \A c \in Callers : caller[c].pc = "drain" => caller[c].link # l
  /\ link'   = [link EXCEPT ![l] = [module |-> m, peer |-> "up",
                                    inbox |-> <<>>, outbox |-> <<>>]]
  /\ writer' = [writer EXCEPT ![m] = l]
  /\ UNCHANGED <<lastId, pending, caller, executed>>

(* core.register on a fresh connection, up to _attach_module_writer.  A    *)
(* slot is not reused while somebody still drains into its old transport.  *)
Attach(l, m) ==
  /\ ~Open(l)
  /\ \A c \in Callers : caller[c].pc = "drain" => caller[c].link # l
  /\ link'   = [link EXCEPT ![l] = [module |-> m, peer |-> "up",
                                    inbox |-> <<>>, outbox |-> <<>>]]
  /\ writer' = [writer EXCEPT ![m] = l]
  /\ pending' = IF writer[m] # NoLink THEN FailedFor(m) ELSE pending
  /\ UNCHANGED <<lastId, caller, executed>>

(* The module process ends; replies it has sent may still be under way.    *)
Die(l) ==
  /\ Open(l)
  /\ link[l].peer = "up"
  /\ link' = [link EXCEPT ![l].peer = "gone"]
  /\ UNCHANGED <<lastId, pending, writer, caller, executed>>

(* The connection's handler reaches its finally clause.  What is left to   *)
(* read is lost when the end shows as an error and not as end of stream.   *)
Detach(l) ==
  /\ Open(l)
  /\ link[l].peer = "gone"
  /\ LET m == link[l].module
     IN /\ writer'  = [writer EXCEPT ![m] = NoLink]
        /\ pending' = FailedFor(m)
  /\ link' = [link EXCEPT ![l] = NoLink]
  /\ UNCHANGED <<lastId, caller, executed>>

(* The module takes the next request and answers it.                       *)
Serve(l) ==
  /\ Open(l)
  /\ link[l].peer = "up"
  /\ link[l].inbox # <<>>
  /\ LET f == Head(link[l].inbox)
     IN /\ link' = [link EXCEPT ![l].inbox = Tail(@),
                                ![l].outbox = Append(@, f)]
        /\ executed' = [executed EXCEPT ![f.ask] = @ + 1]
  /\ UNCHANGED <<lastId, pending, writer, caller>>

(* _resolve_pending: a reply under an id nobody waits for is ignored.      *)
Resolved(f) ==
  IF pending[f.id] # NotPending /\ pending[f.id].outcome = Unanswered
    THEN [pending EXCEPT ![f.id].outcome = f.ask]
    ELSE pending

Deliver(l) ==
  /\ Open(l)
  /\ link[l].outbox # <<>>
  /\ pending' = Resolved(Head(link[l].outbox))
  /\ link' = [link EXCEPT ![l].outbox = Tail(@)]
  /\ UNCHANGED <<lastId, writer, caller, executed>>

-----------------------------------------------------------------------------
(* _issue_to_module.                                                       *)

(* Refused before anything is forwarded: by the D7 guard, the gate, the    *)
(* registry (offline, no such method), or for want of a writer.            *)
Refuse(c) ==
  /\ caller[c].pc = "idle"
  /\ caller' = [caller EXCEPT ![c] = [pc |-> "idle", link |-> NoLink,
                                      id |-> 0, ask |-> 0, told |-> Error]]
  /\ UNCHANGED <<lastId, pending, writer, link, executed>>

(* Mutants of FreshId: the lowest free id is used again; counting from 0.  *)
ReusedId == CHOOSE i \in Ids : /\ pending[i] = NotPending
                               /\ \A j \in 1..i-1 : pending[j] # NotPending

LastId == lastId

FreshId == lastId + 1

(* Writing to the transport never suspends; a dead peer gets nothing.      *)
Sent(l, f) == IF link[l].peer = "up"
                THEN [link EXCEPT ![l].inbox = Append(@, f)]
                ELSE link

Call(c, m) ==
  /\ caller[c].pc = "idle"
  /\ writer[m] # NoLink
  /\ lastId < MaxCalls
  /\ lastId' = lastId + 1
  /\ LET l == writer[m]
         i == FreshId
     IN /\ pending' = [pending EXCEPT ![i] =
                         [owner |-> m, link |-> l, outcome |-> Unanswered]]
        /\ link'    = Sent(l, [id |-> i, ask |-> lastId + 1])
        /\ caller'  = [caller EXCEPT ![c] =
                         [pc |-> "drain", link |-> l, id |-> i,
                          ask |-> lastId + 1, told |-> 0]]
  /\ UNCHANGED <<writer, executed>>

Lost(l) == Open(l) => link[l].peer = "gone"

HasRoom(l) == ~Lost(l) => Len(link[l].inbox) <= Room

(* What is left of the caller's coroutine.                                 *)
Told(c, told) == [caller EXCEPT ![c].pc = "idle", ![c].told = told,
                                ![c].link = NoLink, ![c].id = 0]

(* The end of the call: the caller is told, and its future is dropped.     *)
Finish(c, told) ==
  /\ caller'  = Told(c, told)
  /\ pending' = [pending EXCEPT ![caller[c].id] = NotPending]
  /\ UNCHANGED <<lastId, writer, link, executed>>

(* drain() returns once the transport has room, or has lost its peer.      *)
Drained(c) ==
  /\ caller[c].pc = "drain"
  /\ HasRoom(caller[c].link)
  /\ caller' = [caller EXCEPT ![c].pc = "wait"]
  /\ UNCHANGED <<lastId, pending, writer, link, executed>>

(* ... or, in the second case, raises.                                     *)
DrainFails(c) ==
  /\ caller[c].pc = "drain"
  /\ Lost(caller[c].link)
  /\ Finish(c, Error)

(* wait_for() returns the outcome.                                         *)
Answered(c) ==
  /\ caller[c].pc = "wait"
  /\ pending[caller[c].id].outcome # Unanswered
  /\ Finish(c, pending[caller[c].id].outcome)

TimeoutIfAnswered(c) ==                           \* a mutant of Timeout
  /\ caller[c].pc = "wait"
  /\ pending[caller[c].id].outcome # Unanswered
  /\ Finish(c, Error)

(* The deadline passes.  It may overtake an outcome that is already there  *)
(* and for which the coroutine has not been resumed yet.                   *)
Timeout(c) ==
  /\ caller[c].pc = "wait"
  /\ Finish(c, Error)

-----------------------------------------------------------------------------
Step(c) == Drained(c) \/ DrainFails(c) \/ Answered(c) \/ Timeout(c)

Next == \/ \E l \in Links, m \in Modules : Attach(l, m)
        \/ \E l \in Links : Die(l) \/ Detach(l) \/ Serve(l) \/ Deliver(l)
        \/ \E c \in Callers : Refuse(c) \/ Step(c)
        \/ \E c \in Callers, m \in Modules : Call(c, m)

Spec == Init /\ [][Next]_vars

(* asyncio resumes every coroutine that can run, and timers fire.  Nothing *)
(* is assumed of the modules.                                              *)
FairSpec == /\ Spec
            /\ \A c \in Callers : WF_vars(Step(c))
            /\ \A l \in Links : WF_vars(Detach(l)) /\ WF_vars(Deliver(l))

-----------------------------------------------------------------------------
(* Properties.                                                             *)

(* Every variable keeps its type.                                          *)
TypeOK ==
  /\ lastId \in 0..MaxCalls
  /\ pending \in [Ids -> Future \cup {NotPending}]
  /\ writer \in [Modules -> Links \cup {NoLink}]
  /\ link \in [Links -> Connection \cup {NoLink}]
  /\ caller \in [Callers -> Caller]
  /\ executed \in [Ids -> Nat]

(* The table of futures holds exactly the ids of the suspended callers,    *)
(* each its own, and nobody waits for an answer that cannot come: a future *)
(* neither answered nor failed was sent on the connection that is its      *)
(* module's current one.  Registering again and losing a replaced          *)
(* connection both change that connection under a waiting caller.          *)
PendingIsWaited ==
  LET Suspended == {c \in Callers : caller[c].pc # "idle"}
      Waits(i)  == pending[i] # NotPending
  IN /\ {i \in Ids : Waits(i)} = {caller[c].id : c \in Suspended}
     /\ \A c, d \in Suspended : caller[c].id = caller[d].id => c = d
     /\ \A i \in Ids : Waits(i) /\ pending[i].outcome = Unanswered =>
          /\ writer[pending[i].owner] = pending[i].link
          /\ Open(pending[i].link)
          /\ link[pending[i].link].module = pending[i].owner

(* The router implements the remote call of module Rpc: whatever is lost,  *)
(* late or replaced, a request is carried out at most once, and an answer  *)
(* is the module's answer to this caller's last request, although replies  *)
(* are matched by internal id alone and may come after the caller has      *)
(* given up.                                                               *)
Remote == INSTANCE Rpc WITH
  asked <- lastId,
  call  <- [c \in Callers |-> [waiting |-> caller[c].pc # "idle",
                               ask     |-> caller[c].ask,
                               told    |-> caller[c].told]]

ImplementsRpc == Remote!RpcSpec

(* The deadline covers the wait for the reply and not the write: a call    *)
(* that never ends is one for a module that stays connected and does not   *)
(* read, so that drain() does not return; nothing else blocks a caller,    *)
(* whatever the modules do (server.py, _issue_to_module).                  *)
CallsEnd ==
  \A c \in Callers :
    <>[](caller[c].pc # "idle")
      => <>[](caller[c].pc = "drain" /\ ~HasRoom(caller[c].link))

=============================================================================
