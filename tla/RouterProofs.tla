---------------------------- MODULE RouterProofs ----------------------------
(***************************************************************************)
(* Theorems about module Router, for any number of callers, modules,       *)
(* connections and requests and any room in the transports: types, the     *)
(* table of futures, and the refinement of the remote call of module Rpc.  *)
(***************************************************************************)
EXTENDS Router, TLAPS, SequenceTheorems

Suspended == {c \in Callers : caller[c].pc # "idle"}

(* A caller that is suspended has a future of its own under its id, which  *)
(* is the number of its request.                                           *)
OwnFuture ==
  /\ \A c \in Suspended : /\ caller[c].id \in 1..lastId
                          /\ caller[c].ask = caller[c].id
                          /\ pending[caller[c].id] # NotPending
  /\ \A i \in Ids : pending[i] # NotPending =>
       \E c \in Suspended : caller[c].id = i
  /\ \A c, d \in Suspended : caller[c].id = caller[d].id => c = d

(* A writer leads to an open connection of its module.                     *)
WriterIsOpen ==
  \A m \in Modules : writer[m] # NoLink =>
    Open(writer[m]) /\ link[writer[m]].module = m

(* A future that waits for an answer was sent on its module's writer.      *)
Reachable ==
  \A i \in Ids :
    (pending[i] # NotPending /\ pending[i].outcome = Unanswered)
      => writer[pending[i].owner] = pending[i].link

TableInv == TypeOK /\ OwnFuture /\ WriterIsOpen /\ Reachable

LEMMA TableIsWaited == TableInv => PendingIsWaited
<1> SUFFICES ASSUME TableInv
             PROVE  PendingIsWaited
  OBVIOUS
<1>1. lastId \in 0..MaxCalls /\ MaxCalls \in Nat
  BY RouterAssumption DEF TableInv, TypeOK
<1>2. {i \in Ids : pending[i] # NotPending} = {caller[c].id : c \in Suspended}
  BY <1>1 DEF TableInv, OwnFuture, Ids
<1>3. ASSUME NEW i \in Ids, pending[i] # NotPending,
             pending[i].outcome = Unanswered
      PROVE  /\ writer[pending[i].owner] = pending[i].link
             /\ Open(pending[i].link)
             /\ link[pending[i].link].module = pending[i].owner
  <2>1. pending[i].owner \in Modules /\ pending[i].link \in Links
    BY <1>3 DEF TableInv, TypeOK, Future
  <2> QED
    BY <1>3, <2>1, RouterAssumption DEF TableInv, Reachable, WriterIsOpen
<1>4. \A c, d \in Suspended : caller[c].id = caller[d].id => c = d
  BY DEF TableInv, OwnFuture
<1> QED
  BY <1>2, <1>3, <1>4, Zenon DEF PendingIsWaited, Suspended

-----------------------------------------------------------------------------
LEMMA InitTable == Init => TableInv
<1> SUFFICES ASSUME Init
             PROVE  TableInv
  OBVIOUS
<1>1. caller \in [Callers -> Caller]
  BY RouterAssumption DEF Init, Caller
<1>2. TypeOK
  BY <1>1, RouterAssumption DEF Init, TypeOK
<1> QED
  BY <1>2 DEF Init, TableInv, OwnFuture, Suspended, WriterIsOpen, Reachable

(* Futures that a lost module leaves are failed, no other changes.         *)
LEMMA FailedForType ==
  ASSUME TypeOK, NEW m \in Modules
  PROVE  /\ FailedFor(m) \in [Ids -> Future \cup {NotPending}]
         /\ \A i \in Ids :
              /\ (FailedFor(m)[i] = NotPending) <=> (pending[i] = NotPending)
              /\ FailedFor(m)[i] # NotPending =>
                   /\ FailedFor(m)[i].owner = pending[i].owner
                   /\ FailedFor(m)[i].link = pending[i].link
                   /\ \/ FailedFor(m)[i].outcome = pending[i].outcome
                         /\ (pending[i].owner = m
                               => pending[i].outcome # Unanswered)
                      \/ FailedFor(m)[i].outcome = Offline
<1>1. Offline \in Outcome /\ Offline # Unanswered
  BY RouterAssumption DEF Offline, Outcome, Unanswered
<1> SUFFICES ASSUME NEW i \in Ids
             PROVE  /\ FailedFor(m)[i] \in Future \cup {NotPending}
                    /\ (FailedFor(m)[i] = NotPending)
                         <=> (pending[i] = NotPending)
                    /\ FailedFor(m)[i] # NotPending =>
                         /\ FailedFor(m)[i].owner = pending[i].owner
                         /\ FailedFor(m)[i].link = pending[i].link
                         /\ \/ FailedFor(m)[i].outcome = pending[i].outcome
                               /\ (pending[i].owner = m
                                     => pending[i].outcome # Unanswered)
                            \/ FailedFor(m)[i].outcome = Offline
  BY DEF FailedFor
<1>2. pending[i] \in Future \cup {NotPending}
  BY DEF TypeOK
<1>3. CASE /\ pending[i] # NotPending /\ pending[i].owner = m
           /\ pending[i].outcome = Unanswered
  <2>1. FailedFor(m)[i] = [pending[i] EXCEPT !.outcome = Offline]
    BY <1>3 DEF FailedFor
  <2>2. FailedFor(m)[i] \in Future
    BY <1>1, <1>2, <1>3, <2>1 DEF Future
  <2> QED
    BY <1>2, <1>3, <2>1, <2>2, NoValueAssumption DEF Future
<1>4. CASE ~(/\ pending[i] # NotPending /\ pending[i].owner = m
             /\ pending[i].outcome = Unanswered)
  BY <1>2, <1>4 DEF FailedFor
<1> QED
  BY <1>3, <1>4

LEMMA FinishTable ==
  ASSUME TableInv, NEW c \in Callers, caller[c].pc # "idle",
         NEW told \in 0..MaxCalls + 1, Finish(c, told)
  PROVE  TableInv'
<1>1. /\ MaxCalls \in Nat
      /\ caller \in [Callers -> Caller]
      /\ pending \in [Ids -> Future \cup {NotPending}]
      /\ caller[c].id \in 1..lastId /\ lastId \in 0..MaxCalls
  BY RouterAssumption DEF TableInv, TypeOK, OwnFuture, Suspended
<1>2. caller[c].id \in Ids
  BY <1>1 DEF Ids
<1>3. /\ caller'[c].pc = "idle" /\ caller'[c] \in Caller
      /\ \A d \in Callers \ {c} : caller'[d] = caller[d]
      /\ caller' \in [Callers -> Caller]
  <2>1. caller' = [caller EXCEPT ![c] =
          [pc |-> "idle", link |-> NoLink, id |-> 0, ask |-> caller[c].ask,
           told |-> told]]
    BY <1>1 DEF Finish, Told, Caller
  <2> QED
    BY <1>1, <2>1 DEF Caller
<1>4. pending' = [pending EXCEPT ![caller[c].id] = NotPending]
  BY DEF Finish
<1>5. UNCHANGED <<lastId, writer, link, executed>>
  BY DEF Finish
<1>6. TypeOK'
  BY <1>1, <1>3, <1>4, <1>5 DEF TableInv, TypeOK
<1>7. Suspended' = Suspended \ {c}
  BY <1>3 DEF Suspended
<1>8. OwnFuture'
  <2>1. \A d \in Suspended' : d \in Suspended /\ caller'[d] = caller[d]
                              /\ caller[d].id # caller[c].id
    BY <1>3, <1>7 DEF TableInv, OwnFuture, Suspended
  <2>2. \A d \in Suspended' : caller'[d].id \in Ids
    BY <1>1, <2>1 DEF TableInv, OwnFuture, Ids
  <2>3. \A i \in Ids : pending'[i] # NotPending =>
          i # caller[c].id /\ pending[i] # NotPending
    BY <1>1, <1>2, <1>4
  <2>4. \A i \in Ids : pending'[i] # NotPending =>
          \E d \in Suspended' : caller'[d].id = i
    BY <1>3, <1>7, <2>3 DEF TableInv, OwnFuture, Suspended
  <2> QED
    BY <1>1, <1>2, <1>4, <1>5, <2>1, <2>2, <2>4 DEF TableInv, OwnFuture
<1>9. WriterIsOpen' /\ Reachable'
  BY <1>1, <1>2, <1>4, <1>5 DEF TableInv, WriterIsOpen, Reachable, Open
<1> QED
  BY <1>6, <1>8, <1>9 DEF TableInv

LEMMA NextTable == TableInv /\ [Next]_vars => TableInv'
<1> SUFFICES ASSUME TableInv, [Next]_vars
             PROVE  TableInv'
  OBVIOUS
<1>1. /\ MaxCalls \in Nat /\ NoLink \notin Links
      /\ lastId \in 0..MaxCalls
      /\ pending \in [Ids -> Future \cup {NotPending}]
      /\ writer \in [Modules -> Links \cup {NoLink}]
      /\ link \in [Links -> Connection \cup {NoLink}]
      /\ caller \in [Callers -> Caller]
      /\ executed \in [Ids -> Nat]
  BY RouterAssumption DEF TableInv, TypeOK
<1>2. ASSUME NEW l \in Links, NEW m \in Modules, Attach(l, m)
      PROVE  TableInv'
  <2> DEFINE fresh == [module |-> m, peer |-> "up",
                       inbox |-> <<>>, outbox |-> <<>>]
  <2>1. fresh \in Connection
    BY EmptySeq DEF Connection
  <2>2. /\ link' = [link EXCEPT ![l] = fresh]
        /\ writer' = [writer EXCEPT ![m] = l]
        /\ ~Open(l)
        /\ UNCHANGED <<lastId, caller, executed>>
    BY <1>2 DEF Attach
  <2>3. pending' = FailedFor(m) \/ (writer[m] = NoLink /\ pending' = pending)
    BY <1>2 DEF Attach
  <2>4. pending' \in [Ids -> Future \cup {NotPending}]
    BY <1>1, <2>3, FailedForType DEF TableInv
  <2>5. TypeOK'
    BY <1>1, <2>1, <2>2, <2>4 DEF TypeOK
  <2>6. \A i \in Ids : (pending'[i] = NotPending) <=> (pending[i] = NotPending)
    BY <2>3, FailedForType DEF TableInv
  <2>7. OwnFuture'
    <3>1. Suspended' = Suspended
      BY <2>2 DEF Suspended
    <3>2. \A c \in Suspended : caller[c].id \in Ids
      BY <1>1 DEF TableInv, OwnFuture, Ids
    <3> QED
      BY <2>2, <2>6, <3>1, <3>2 DEF TableInv, OwnFuture
  <2>8. WriterIsOpen'
    <3> SUFFICES ASSUME NEW n \in Modules, writer'[n] # NoLink
                 PROVE  (Open(writer[n]) /\ link[writer[n]].module = n)'
      BY DEF WriterIsOpen
    <3>1. CASE n = m
      BY <1>1, <2>1, <2>2, <3>1, NoValueAssumption DEF Open
    <3>2. CASE n # m
      <4>1. writer[n] \in Links /\ writer'[n] = writer[n]
            /\ Open(writer[n]) /\ link[writer[n]].module = n
        BY <1>1, <2>2, <3>2 DEF TableInv, WriterIsOpen
      <4> QED
        BY <1>1, <2>2, <4>1 DEF Open
    <3> QED
      BY <3>1, <3>2
  <2>9. Reachable'
    <3> SUFFICES ASSUME NEW i \in Ids, pending'[i] # NotPending,
                        pending'[i].outcome = Unanswered
                 PROVE  writer'[pending'[i].owner] = pending'[i].link
      BY DEF Reachable
    <3>1. Unanswered # Offline
      BY <1>1 DEF Unanswered, Offline
    <3>2. pending[i] \in Future
      BY <1>1, <2>6
    <3>3. /\ pending'[i].owner = pending[i].owner
          /\ pending'[i].link = pending[i].link
          /\ pending[i].outcome = Unanswered
      BY <2>3, <3>1, FailedForType DEF TableInv
    <3>4. writer[pending[i].owner] = pending[i].link
      BY <2>6, <3>3 DEF TableInv, Reachable
    <3>5. pending[i].owner # m
      <4>1. CASE pending' = FailedFor(m)
        BY <2>6, <3>1, <3>3, <4>1, FailedForType DEF TableInv
      <4>2. CASE writer[m] = NoLink
        BY <1>1, <3>2, <3>4, <4>2 DEF Future
      <4> QED
        BY <2>3, <4>1, <4>2
    <3> QED
      BY <1>1, <2>2, <3>2, <3>3, <3>4, <3>5 DEF Future
  <2> QED
    BY <2>5, <2>7, <2>8, <2>9 DEF TableInv
<1>3. ASSUME NEW l \in Links, Detach(l)
      PROVE  TableInv'
  <2> DEFINE m == link[l].module
  <2>1. link[l] \in Connection /\ m \in Modules
    BY <1>1, <1>3 DEF Detach, Open, Connection
  <2>2. /\ writer' = [writer EXCEPT ![m] = NoLink]
        /\ pending' = FailedFor(m)
        /\ link' = [link EXCEPT ![l] = NoLink]
        /\ UNCHANGED <<lastId, caller, executed>>
    BY <1>3 DEF Detach
  <2>3. m = link[l].module
    OBVIOUS
  <2> HIDE DEF m
  <2>4. TypeOK'
    BY <1>1, <2>1, <2>2, FailedForType DEF TableInv, TypeOK
  <2>5. \A i \in Ids : (pending'[i] = NotPending) <=> (pending[i] = NotPending)
    BY <2>1, <2>2, FailedForType DEF TableInv
  <2>6. OwnFuture'
    <3>1. Suspended' = Suspended
      BY <2>2 DEF Suspended
    <3>2. \A c \in Suspended : caller[c].id \in Ids
      BY <1>1 DEF TableInv, OwnFuture, Ids
    <3> QED
      BY <2>2, <2>5, <3>1, <3>2 DEF TableInv, OwnFuture
  <2>7. WriterIsOpen'
    <3> SUFFICES ASSUME NEW n \in Modules, writer'[n] # NoLink
                 PROVE  (Open(writer[n]) /\ link[writer[n]].module = n)'
      BY DEF WriterIsOpen
    <3>1. n # m /\ writer'[n] = writer[n]
      BY <1>1, <2>2
    <3>2. writer[n] \in Links /\ Open(writer[n])
          /\ link[writer[n]].module = n
      BY <1>1, <3>1 DEF TableInv, WriterIsOpen
    <3>3. writer[n] # l
      BY <2>3, <3>1, <3>2
    <3> QED
      BY <1>1, <2>2, <3>1, <3>2, <3>3 DEF Open
  <2>8. Reachable'
    <3> SUFFICES ASSUME NEW i \in Ids, pending'[i] # NotPending,
                        pending'[i].outcome = Unanswered
                 PROVE  writer'[pending'[i].owner] = pending'[i].link
      BY DEF Reachable
    <3>1. Unanswered # Offline
      BY <1>1 DEF Unanswered, Offline
    <3>2. pending[i] \in Future
      BY <1>1, <2>5
    <3>3. /\ pending'[i].owner = pending[i].owner
          /\ pending'[i].link = pending[i].link
          /\ pending[i].outcome = Unanswered
          /\ pending[i].owner # m
      BY <2>1, <2>2, <3>1, FailedForType DEF TableInv
    <3>4. writer[pending[i].owner] = pending[i].link
      BY <2>5, <3>3 DEF TableInv, Reachable
    <3> QED
      BY <1>1, <2>2, <3>2, <3>3, <3>4 DEF Future
  <2> QED
    BY <2>4, <2>6, <2>7, <2>8 DEF TableInv
(* The steps that move frames or ends of connections leave the slots open  *)
(* that were open, and each to its module.                                 *)
<1>4. ASSUME link' \in [Links -> Connection \cup {NoLink}],
             \A l \in Links : Open(l) => link'[l] # NoLink
                                         /\ link'[l].module = link[l].module,
             writer' = writer
      PROVE  WriterIsOpen'
  BY <1>1, <1>4 DEF TableInv, WriterIsOpen, Open
<1>5. ASSUME NEW l \in Links, Die(l)
      PROVE  TableInv'
  <2>1. /\ link' = [link EXCEPT ![l].peer = "gone"]
        /\ UNCHANGED <<lastId, pending, writer, caller, executed>>
        /\ link[l] \in Connection
    BY <1>1, <1>5 DEF Die, Open
  <2>2. /\ [link[l] EXCEPT !.peer = "gone"] \in Connection
        /\ [link[l] EXCEPT !.peer = "gone"].module = link[l].module
    BY <2>1 DEF Connection
  <2>3. link' \in [Links -> Connection \cup {NoLink}]
    BY <1>1, <2>1, <2>2
  <2>4. WriterIsOpen'
    BY <1>1, <1>4, <2>1, <2>2, <2>3, NoValueAssumption DEF Open
  <2> QED
    BY <1>1, <2>1, <2>3, <2>4
    DEF TableInv, TypeOK, OwnFuture, Suspended, Reachable
<1>6. ASSUME NEW l \in Links, Serve(l)
      PROVE  TableInv'
  <2> DEFINE f == Head(link[l].inbox)
             served == [link[l] EXCEPT !.inbox = Tail(@),
                                       !.outbox = Append(@, f)]
  <2>1. /\ link[l] \in Connection /\ link[l].inbox # <<>>
        /\ UNCHANGED <<lastId, pending, writer, caller>>
        /\ executed' = [executed EXCEPT ![f.ask] = @ + 1]
    BY <1>1, <1>6 DEF Serve, Open
  <2>2. link' = [link EXCEPT ![l] = served]
    BY <1>1, <1>6 DEF Serve
  <2>3. f \in Frame /\ Tail(link[l].inbox) \in Seq(Frame)
    BY <2>1, HeadTailProperties DEF Connection
  <2>4. Append(link[l].outbox, f) \in Seq(Frame)
    BY <2>1, <2>3, AppendProperties DEF Connection
  <2>5. served \in Connection /\ served.module = link[l].module
    BY <2>1, <2>3, <2>4 DEF Connection
  <2>6. executed' \in [Ids -> Nat]
    BY <1>1, <2>1, <2>3 DEF Frame
  <2> HIDE DEF served, f
  <2>7. link' \in [Links -> Connection \cup {NoLink}]
    BY <1>1, <2>2, <2>5
  <2>8. WriterIsOpen'
    BY <1>1, <1>4, <2>1, <2>2, <2>5, <2>7, NoValueAssumption DEF Open
  <2> QED
    BY <1>1, <2>1, <2>6, <2>7, <2>8
    DEF TableInv, TypeOK, OwnFuture, Suspended, Reachable
<1>7. ASSUME NEW l \in Links, Deliver(l)
      PROVE  TableInv'
  <2> DEFINE f == Head(link[l].outbox)
             heard == [link[l] EXCEPT !.outbox = Tail(@)]
  <2>1. /\ link[l] \in Connection /\ link[l].outbox # <<>>
        /\ UNCHANGED <<lastId, writer, caller, executed>>
        /\ pending' = Resolved(f)
    BY <1>1, <1>7 DEF Deliver, Open
  <2>2. link' = [link EXCEPT ![l] = heard]
    BY <1>1, <1>7 DEF Deliver
  <2>3. f \in Frame /\ Tail(link[l].outbox) \in Seq(Frame)
    BY <2>1, HeadTailProperties DEF Connection
  <2>4. heard \in Connection /\ heard.module = link[l].module
    BY <2>1, <2>3 DEF Connection
  <2> HIDE DEF heard, f
  <2>5. link' \in [Links -> Connection \cup {NoLink}]
    BY <1>1, <2>2, <2>4
  <2>6. WriterIsOpen'
    BY <1>1, <1>4, <2>1, <2>2, <2>4, <2>5, NoValueAssumption DEF Open
  <2>7. /\ pending' \in [Ids -> Future \cup {NotPending}]
        /\ \A i \in Ids :
             /\ (pending'[i] = NotPending) <=> (pending[i] = NotPending)
             /\ pending'[i] = pending[i] \/ pending'[i].outcome # Unanswered
    <3>1. CASE pending[f.id] # NotPending /\ pending[f.id].outcome = Unanswered
      <4>1. f.id \in Ids /\ f.ask \in Outcome /\ f.ask # Unanswered
        BY <1>1, <2>3 DEF Frame, Ids, Outcome, Unanswered
      <4>2. pending[f.id] \in Future
        BY <1>1, <3>1, <4>1
      <4> DEFINE told == [pending[f.id] EXCEPT !.outcome = f.ask]
      <4>3. told \in Future /\ told.outcome = f.ask
        BY <4>1, <4>2 DEF Future
      <4>4. pending' = [pending EXCEPT ![f.id] = told]
        BY <1>1, <2>1, <3>1 DEF Resolved
      <4> HIDE DEF told
      <4> QED
        BY <1>1, <3>1, <4>1, <4>3, <4>4, NoValueAssumption
    <3>2. CASE pending' = pending
      BY <1>1, <3>2
    <3> QED
      BY <2>1, <3>1, <3>2 DEF Resolved
  <2>8. TypeOK'
    BY <1>1, <2>1, <2>5, <2>7 DEF TypeOK
  <2>9. OwnFuture'
    <3>1. Suspended' = Suspended
      BY <2>1 DEF Suspended
    <3>2. \A c \in Suspended : caller[c].id \in Ids
      BY <1>1 DEF TableInv, OwnFuture, Ids
    <3> QED
      BY <2>1, <2>7, <3>1, <3>2 DEF TableInv, OwnFuture
  <2>10. Reachable'
    BY <2>1, <2>7 DEF TableInv, Reachable
  <2> QED
    BY <2>6, <2>8, <2>9, <2>10 DEF TableInv
<1>8. ASSUME NEW c \in Callers, Refuse(c)
      PROVE  TableInv'
  <2>1. /\ caller[c].pc = "idle"
        /\ caller' = [caller EXCEPT ![c] = [pc |-> "idle", link |-> NoLink,
                                      id |-> 0, ask |-> 0, told |-> Error]]
        /\ UNCHANGED <<lastId, pending, writer, link, executed>>
    BY <1>8 DEF Refuse
  <2>2. caller' \in [Callers -> Caller]
    BY <1>1, <2>1 DEF Caller, Error
  <2>3. TypeOK'
    BY <1>1, <2>1, <2>2 DEF TypeOK
  <2>4. Suspended' = Suspended
        /\ \A d \in Suspended : caller'[d] = caller[d]
    BY <1>1, <2>1 DEF Suspended
  <2> QED
    BY <2>1, <2>3, <2>4
    DEF TableInv, OwnFuture, WriterIsOpen, Reachable, Open
<1>9. ASSUME NEW c \in Callers, NEW m \in Modules, Call(c, m)
      PROVE  TableInv'
  <2> DEFINE i == lastId + 1
             l == writer[m]
             fut == [owner |-> m, link |-> l, outcome |-> Unanswered]
             asking == [pc |-> "drain", link |-> l, id |-> i, ask |-> i,
                        told |-> 0]
  <2>1. /\ i \in Ids /\ i \in 1..MaxCalls /\ l \in Links
        /\ lastId' = i /\ caller[c].pc = "idle"
        /\ Open(l) /\ link[l].module = m
    BY <1>1, <1>9 DEF Call, Ids, TableInv, WriterIsOpen
  <2>2. /\ pending' = [pending EXCEPT ![i] = fut]
        /\ link' = Sent(l, [id |-> i, ask |-> i])
        /\ caller' = [caller EXCEPT ![c] = asking]
        /\ UNCHANGED <<writer, executed>>
    BY <1>9 DEF Call, FreshId
  <2>3. fut \in Future /\ fut.owner = m /\ fut.link = l
    BY <1>1, <2>1 DEF Future, Outcome, Unanswered
  <2>4. asking \in Caller /\ asking.pc # "idle" /\ asking.id = i
        /\ asking.ask = i
    BY <1>1, <2>1 DEF Caller
  <2>5. /\ link' \in [Links -> Connection \cup {NoLink}]
        /\ \A k \in Links : Open(k) => link'[k] # NoLink
                                       /\ link'[k].module = link[k].module
    <3>1. CASE link[l].peer = "up"
      <4> DEFINE f == [id |-> i, ask |-> i]
                 sent == [link[l] EXCEPT !.inbox = Append(@, f)]
      <4>1. f \in Frame /\ link[l] \in Connection
        BY <1>1, <2>1 DEF Frame, Open
      <4>2. Append(link[l].inbox, f) \in Seq(Frame)
        BY <4>1, AppendProperties DEF Connection
      <4>3. sent \in Connection /\ sent.module = link[l].module
        BY <4>1, <4>2 DEF Connection
      <4>4. link' = [link EXCEPT ![l] = sent]
        BY <1>1, <2>2, <3>1 DEF Sent
      <4> HIDE DEF sent
      <4> QED
        BY <1>1, <2>1, <4>3, <4>4, NoValueAssumption DEF Open
    <3>2. CASE link' = link
      BY <1>1, <3>2 DEF Open
    <3> QED
      BY <2>2, <3>1, <3>2 DEF Sent
  <2>6. l = writer[m] /\ i = lastId + 1
    OBVIOUS
  <2> HIDE DEF i, l, fut, asking
  <2>7. pending[i] = NotPending
    <3>1. \A d \in Suspended : caller[d].id # i
      BY <1>1, <2>6 DEF TableInv, OwnFuture
    <3> QED
      BY <2>1, <3>1 DEF TableInv, OwnFuture
  <2>8. TypeOK'
    BY <1>1, <2>1, <2>2, <2>3, <2>4, <2>5 DEF TypeOK, Ids
  <2>9. WriterIsOpen'
    BY <1>4, <2>2, <2>5
  <2>10. OwnFuture'
    <3>1. Suspended' = Suspended \cup {c} /\ c \notin Suspended
      BY <1>1, <2>1, <2>2, <2>4 DEF Suspended
    <3>2. \A d \in Suspended : caller'[d] = caller[d]
                               /\ caller[d].id \in 1..lastId
                               /\ caller[d].ask = caller[d].id
                               /\ caller[d].id # i /\ caller[d].id \in Ids
                               /\ pending[caller[d].id] # NotPending
      BY <1>1, <2>2, <2>6, <3>1 DEF TableInv, OwnFuture, Ids, Suspended
    <3>3. caller'[c] = asking
      BY <1>1, <2>2
    <3>4. fut # NotPending
      BY <2>3, NoValueAssumption
    <3>5. \A d \in Suspended' : /\ caller'[d].id \in 1..lastId'
                                /\ caller'[d].ask = caller'[d].id
                                /\ pending'[caller'[d].id] # NotPending
      BY <1>1, <2>1, <2>2, <2>4, <2>6, <3>1, <3>2, <3>3, <3>4
    <3>6. \A j \in Ids : pending'[j] # NotPending =>
            \E d \in Suspended' : caller'[d].id = j
      BY <1>1, <2>1, <2>2, <2>4, <3>1, <3>2, <3>3 DEF TableInv, OwnFuture
    <3>7. \A d, e \in Suspended' : caller'[d].id = caller'[e].id => d = e
      BY <2>4, <3>1, <3>2, <3>3 DEF TableInv, OwnFuture
    <3> QED
      BY <3>5, <3>6, <3>7 DEF OwnFuture
  <2>11. Reachable'
    BY <1>1, <2>1, <2>2, <2>3, <2>6 DEF TableInv, Reachable
  <2> QED
    BY <2>8, <2>9, <2>10, <2>11 DEF TableInv
<1>10. ASSUME NEW c \in Callers, Drained(c)
       PROVE  TableInv'
  <2>1. /\ caller[c].pc = "drain"
        /\ caller' = [caller EXCEPT ![c].pc = "wait"]
        /\ UNCHANGED <<lastId, pending, writer, link, executed>>
    BY <1>10 DEF Drained
  <2> DEFINE waiting == [caller[c] EXCEPT !.pc = "wait"]
  <2>2. waiting \in Caller /\ waiting.pc # "idle"
        /\ waiting.id = caller[c].id /\ waiting.ask = caller[c].ask
    BY <1>1 DEF Caller
  <2>3. caller' = [caller EXCEPT ![c] = waiting]
    BY <1>1, <2>1
  <2> HIDE DEF waiting
  <2>4. TypeOK'
    BY <1>1, <2>1, <2>2, <2>3 DEF TypeOK
  <2>5. Suspended' = Suspended
        /\ \A d \in Suspended : caller'[d].id = caller[d].id
                                /\ caller'[d].ask = caller[d].ask
    BY <1>1, <2>1, <2>2, <2>3 DEF Suspended
  <2> QED
    BY <2>1, <2>4, <2>5
    DEF TableInv, OwnFuture, WriterIsOpen, Reachable, Open
<1>11. ASSUME NEW c \in Callers, DrainFails(c) \/ Timeout(c)
       PROVE  TableInv'
  BY <1>1, <1>11, FinishTable DEF DrainFails, Timeout, Error
<1>12. ASSUME NEW c \in Callers, Answered(c)
       PROVE  TableInv'
  <2>1. pending[caller[c].id] \in Future
    BY <1>1, <1>12 DEF Answered, TableInv, OwnFuture, Suspended, Ids
  <2>2. pending[caller[c].id].outcome \in 0..MaxCalls + 1
    BY <2>1 DEF Future, Outcome
  <2> QED
    BY <1>12, <2>2, FinishTable DEF Answered
<1>13. CASE UNCHANGED vars
  BY <1>13
  DEF vars, TableInv, TypeOK, OwnFuture, Suspended, WriterIsOpen, Reachable,
      Open
<1> QED
  BY <1>2, <1>3, <1>5, <1>6, <1>7, <1>8, <1>9, <1>10, <1>11, <1>12, <1>13
  DEF Next, Step

LEMMA TableInvariant == Spec => []TableInv
<1>1. Init => TableInv
  BY InitTable
<1>2. TableInv /\ [Next]_vars => TableInv'
  BY NextTable
<1> QED
  BY <1>1, <1>2, PTL DEF Spec

(* Every variable of the router keeps its type; beside the types this      *)
(* needs that who waits has a future, as its outcome is what is told.      *)
THEOREM TypeInvariant == Spec => []TypeOK
<1>1. TableInv => TypeOK
  BY DEF TableInv
<1> QED
  BY <1>1, TableInvariant, PTL

(* The table of futures is that of the waiting callers, and nobody waits   *)
(* for an answer that cannot come (server.py, _issue_to_module).           *)
THEOREM NobodyWaitsInVain == Spec => []PendingIsWaited
<1>1. TableInv => PendingIsWaited
  BY TableIsWaited
<1> QED
  BY <1>1, TableInvariant, PTL

-----------------------------------------------------------------------------
(* What is under way on a connection that exists.                          *)
Inbox(l)  == IF Open(l) THEN link[l].inbox ELSE <<>>
Outbox(l) == IF Open(l) THEN link[l].outbox ELSE <<>>

(* A request is under way to one module at most and then not carried out;  *)
(* a reply under way is to a request that was carried out, once, and so is *)
(* the reply a future holds.                                               *)
AskedOnce ==
  /\ \A l \in Links : \A j \in DOMAIN Inbox(l) :
       /\ Inbox(l)[j].id = Inbox(l)[j].ask
       /\ Inbox(l)[j].ask \in 1..lastId
       /\ executed[Inbox(l)[j].ask] = 0
  /\ \A k, l \in Links : \A i \in DOMAIN Inbox(k), j \in DOMAIN Inbox(l) :
       Inbox(k)[i].ask = Inbox(l)[j].ask => k = l /\ i = j
  /\ \A a \in Ids : a > lastId => executed[a] = 0

RepliedOnce ==
  /\ \A l \in Links : \A j \in DOMAIN Outbox(l) :
       /\ Outbox(l)[j].id = Outbox(l)[j].ask
       /\ executed[Outbox(l)[j].ask] = 1
  /\ \A i \in Ids : (pending[i] # NotPending /\ pending[i].outcome \in Ids)
       => pending[i].outcome = i /\ executed[i] = 1

CarriedOutOnce == AskedOnce /\ RepliedOnce

LEMMA BoxTypes ==
  ASSUME TypeOK, NEW l \in Links
  PROVE  /\ Inbox(l) \in Seq(Frame) /\ Outbox(l) \in Seq(Frame)
         /\ DOMAIN Inbox(l) = 1..Len(Inbox(l)) /\ Len(Inbox(l)) \in Nat
         /\ DOMAIN Outbox(l) = 1..Len(Outbox(l)) /\ Len(Outbox(l)) \in Nat
<1>1. link[l] \in Connection \cup {NoLink}
  BY DEF TypeOK
<1>2. Inbox(l) \in Seq(Frame) /\ Outbox(l) \in Seq(Frame)
  BY <1>1, EmptySeq DEF Inbox, Outbox, Open, Connection
<1> QED
  BY <1>2, LenProperties

(* Steps that carry nothing out and send nothing.                          *)
LEMMA NothingSent ==
  ASSUME CarriedOutOnce, lastId' = lastId, executed' = executed,
         \A l \in Links : Inbox(l)' = Inbox(l) \/ Inbox(l)' = <<>>,
         \A l \in Links : Outbox(l)' = Outbox(l) \/ Outbox(l)' = <<>>,
         \A i \in Ids : pending'[i] # NotPending =>
           \/ pending[i] # NotPending
                /\ pending'[i].outcome = pending[i].outcome
           \/ pending'[i].outcome \notin Ids
  PROVE  CarriedOutOnce'
<1>1. \A l \in Links : \A j \in DOMAIN Inbox(l)' :
        j \in DOMAIN Inbox(l) /\ Inbox(l)'[j] = Inbox(l)[j]
  OBVIOUS
<1>2. \A l \in Links : \A j \in DOMAIN Outbox(l)' :
        j \in DOMAIN Outbox(l) /\ Outbox(l)'[j] = Outbox(l)[j]
  OBVIOUS
<1>3. AskedOnce'
  BY <1>1 DEF CarriedOutOnce, AskedOnce
<1>4. RepliedOnce'
  BY <1>2 DEF CarriedOutOnce, RepliedOnce
<1> QED
  BY <1>3, <1>4 DEF CarriedOutOnce

LEMMA InitOnce == Init => CarriedOutOnce
<1> SUFFICES ASSUME Init
             PROVE  CarriedOutOnce
  OBVIOUS
<1>1. \A l \in Links : Inbox(l) = <<>> /\ Outbox(l) = <<>>
  BY DEF Init, Inbox, Outbox, Open
<1>2. \A l \in Links : DOMAIN Inbox(l) = {} /\ DOMAIN Outbox(l) = {}
  BY <1>1
<1> QED
  BY <1>2 DEF Init, CarriedOutOnce, AskedOnce, RepliedOnce

LEMMA ServeOnce ==
  ASSUME TypeOK, CarriedOutOnce, NEW l \in Links, Serve(l)
  PROVE  LET a == Head(link[l].inbox).ask
         IN /\ CarriedOutOnce'
            /\ a \in 1..lastId /\ a \in Ids /\ executed[a] = 0
            /\ executed' = [executed EXCEPT ![a] = 1]
<1> DEFINE f == Head(link[l].inbox)
<1>1. /\ link \in [Links -> Connection \cup {NoLink}]
      /\ link[l] \in Connection /\ Open(l)
      /\ executed \in [Ids -> Nat] /\ MaxCalls \in Nat
      /\ lastId \in 0..MaxCalls
  BY RouterAssumption DEF TypeOK, Serve, Open
<1>2. Inbox(l) = link[l].inbox /\ Outbox(l) = link[l].outbox
      /\ Inbox(l) # <<>>
  BY <1>1 DEF Inbox, Outbox, Serve
<1>3. f \in Frame /\ f = Inbox(l)[1] /\ 1 \in DOMAIN Inbox(l)
  BY <1>2, BoxTypes, HeadTailProperties, EmptySeq
<1>4. f.ask \in 1..lastId /\ f.ask \in Ids /\ executed[f.ask] = 0
      /\ f.id = f.ask
  BY <1>1, <1>3 DEF CarriedOutOnce, AskedOnce, Ids
<1>5. executed' = [executed EXCEPT ![f.ask] = 1]
  BY <1>1, <1>4 DEF Serve
<1>6. /\ Open(l)' /\ Inbox(l)' = Tail(Inbox(l))
      /\ Outbox(l)' = Append(Outbox(l), f)
  <2> DEFINE served == [link[l] EXCEPT !.inbox = Tail(@),
                                       !.outbox = Append(@, f)]
  <2>1. served.inbox = Tail(Inbox(l)) /\ served.outbox = Append(Outbox(l), f)
    BY <1>1, <1>2 DEF Connection
  <2>2. served \in Connection
    BY <1>1, <1>2, <1>3, BoxTypes, HeadTailProperties, AppendProperties
    DEF Connection
  <2>3. link' = [link EXCEPT ![l] = served]
    BY <1>1 DEF Serve
  <2> HIDE DEF served
  <2> QED
    BY <1>1, <2>1, <2>2, <2>3, NoValueAssumption DEF Open, Inbox, Outbox
<1>7. \A k \in Links \ {l} : Inbox(k)' = Inbox(k) /\ Outbox(k)' = Outbox(k)
  BY <1>1 DEF Serve, Open, Inbox, Outbox
<1>8. UNCHANGED <<lastId, pending>>
  BY DEF Serve
<1> HIDE DEF f
<1>9. \A j \in DOMAIN Inbox(l)' : j + 1 \in DOMAIN Inbox(l) /\ j \in Nat
                                  /\ j # 0
                                  /\ Inbox(l)'[j] = Inbox(l)[j + 1]
  BY <1>2, <1>6, BoxTypes, HeadTailProperties, LenProperties
<1>10. \A j \in DOMAIN Outbox(l)' :
         \/ j \in DOMAIN Outbox(l) /\ Outbox(l)'[j] = Outbox(l)[j]
         \/ Outbox(l)'[j] = f
  <2>1. Outbox(l) \in Seq(Frame)
    BY BoxTypes
  <2> QED
    BY <1>3, <1>6, <2>1, BoxTypes, AppendProperties, LenProperties
(* Whatever is still under way is not what was carried out.                *)
<1>11. \A k \in Links : \A j \in DOMAIN Inbox(k)' :
         Inbox(k)'[j].ask # f.ask
  BY <1>3, <1>7, <1>9 DEF CarriedOutOnce, AskedOnce
<1>12. AskedOnce'
  <2>1. \A k \in Links : \A j \in DOMAIN Inbox(k)' :
          /\ Inbox(k)'[j].id = Inbox(k)'[j].ask
          /\ Inbox(k)'[j].ask \in 1..lastId
          /\ executed'[Inbox(k)'[j].ask] = 0
    <3>1. \A k \in Links : \A j \in DOMAIN Inbox(k)' :
            /\ Inbox(k)'[j].id = Inbox(k)'[j].ask
            /\ Inbox(k)'[j].ask \in 1..lastId
            /\ executed[Inbox(k)'[j].ask] = 0
      BY <1>7, <1>9 DEF CarriedOutOnce, AskedOnce
    <3> QED
      BY <1>1, <1>5, <1>11, <3>1 DEF Ids
  <2>2. \A k, m \in Links : \A i \in DOMAIN Inbox(k)', j \in DOMAIN Inbox(m)' :
          Inbox(k)'[i].ask = Inbox(m)'[j].ask => k = m /\ i = j
    <3>1. \A k \in Links : \A i \in DOMAIN Inbox(k)' :
            \E s \in DOMAIN Inbox(k) :
              /\ Inbox(k)'[i] = Inbox(k)[s]
              /\ s = IF k = l THEN i + 1 ELSE i
      BY <1>7, <1>9
    <3> QED
      BY <1>9, <3>1 DEF CarriedOutOnce, AskedOnce
  <2>3. \A a \in Ids : a > lastId => executed'[a] = 0
    BY <1>1, <1>4, <1>5 DEF CarriedOutOnce, AskedOnce, Ids
  <2> QED
    BY <1>8, <2>1, <2>2, <2>3 DEF AskedOnce
<1>13. RepliedOnce'
  <2>1. \A a \in Ids : executed[a] = 1 => executed'[a] = 1
    BY <1>1, <1>4, <1>5
  <2>2. executed'[f.ask] = 1
    BY <1>1, <1>4, <1>5
  <2>3. \A k \in Links : \A j \in DOMAIN Outbox(k) : Outbox(k)[j].ask \in Ids
    <3> SUFFICES ASSUME NEW k \in Links, NEW j \in DOMAIN Outbox(k)
                 PROVE  Outbox(k)[j].ask \in Ids
      OBVIOUS
    <3>1. Outbox(k)[j] \in Frame
      BY BoxTypes, ElementOfSeq
    <3> QED
      BY <3>1 DEF Frame
  <2>4. \A k \in Links : \A j \in DOMAIN Outbox(k)' :
          /\ Outbox(k)'[j].id = Outbox(k)'[j].ask
          /\ executed'[Outbox(k)'[j].ask] = 1
    BY <1>4, <1>7, <1>10, <2>1, <2>2, <2>3 DEF CarriedOutOnce, RepliedOnce
  <2> QED
    BY <1>8, <2>1, <2>4 DEF CarriedOutOnce, RepliedOnce
<1> QED
  BY <1>4, <1>5, <1>12, <1>13 DEF CarriedOutOnce, f

LEMMA DeliverOnce ==
  ASSUME TypeOK, CarriedOutOnce, NEW l \in Links, Deliver(l)
  PROVE  CarriedOutOnce'
<1> DEFINE f == Head(link[l].outbox)
<1>1. /\ link \in [Links -> Connection \cup {NoLink}]
      /\ link[l] \in Connection /\ Open(l)
      /\ pending \in [Ids -> Future \cup {NotPending}]
  BY DEF TypeOK, Deliver, Open
<1>2. Inbox(l) = link[l].inbox /\ Outbox(l) = link[l].outbox
      /\ Outbox(l) # <<>>
  BY <1>1 DEF Inbox, Outbox, Deliver
<1>3. f \in Frame /\ f = Outbox(l)[1] /\ 1 \in DOMAIN Outbox(l)
  BY <1>2, BoxTypes, HeadTailProperties, EmptySeq
<1>4. f.id = f.ask /\ f.ask \in Ids /\ executed[f.ask] = 1
  BY <1>3 DEF CarriedOutOnce, RepliedOnce, Frame
<1>5. Inbox(l)' = Inbox(l) /\ Outbox(l)' = Tail(Outbox(l))
  <2> DEFINE heard == [link[l] EXCEPT !.outbox = Tail(@)]
  <2>1. heard.inbox = Inbox(l) /\ heard.outbox = Tail(Outbox(l))
    BY <1>1, <1>2 DEF Connection
  <2>2. heard \in Connection
    BY <1>1, <1>2, BoxTypes, HeadTailProperties DEF Connection
  <2>3. link' = [link EXCEPT ![l] = heard]
    BY <1>1 DEF Deliver
  <2> HIDE DEF heard
  <2> QED
    BY <1>1, <2>1, <2>2, <2>3, NoValueAssumption DEF Open, Inbox, Outbox
<1>6. \A k \in Links \ {l} : Inbox(k)' = Inbox(k) /\ Outbox(k)' = Outbox(k)
  BY <1>1 DEF Deliver, Open, Inbox, Outbox
<1>7. UNCHANGED <<lastId, executed>> /\ pending' = Resolved(f)
  BY DEF Deliver
<1> HIDE DEF f
<1>8. \A k \in Links : Inbox(k)' = Inbox(k)
  BY <1>5, <1>6
<1>9. AskedOnce'
  BY <1>7, <1>8 DEF CarriedOutOnce, AskedOnce
<1>10. \A j \in DOMAIN Outbox(l)' : j + 1 \in DOMAIN Outbox(l)
                                    /\ Outbox(l)'[j] = Outbox(l)[j + 1]
  BY <1>2, <1>5, BoxTypes, HeadTailProperties, LenProperties
<1>11. \A k \in Links : \A j \in DOMAIN Outbox(k)' :
         /\ Outbox(k)'[j].id = Outbox(k)'[j].ask
         /\ executed'[Outbox(k)'[j].ask] = 1
  BY <1>6, <1>7, <1>10 DEF CarriedOutOnce, RepliedOnce
<1>12. \A i \in Ids : (pending'[i] # NotPending /\ pending'[i].outcome \in Ids)
         => pending'[i].outcome = i /\ executed'[i] = 1
  <2>1. CASE pending[f.id] # NotPending /\ pending[f.id].outcome = Unanswered
    <3>1. pending' = [pending EXCEPT ![f.id].outcome = f.ask]
      BY <1>7, <2>1 DEF Resolved
    <3>2. pending[f.id] \in Future
      BY <1>1, <1>4, <2>1
    <3>3. pending'[f.id].outcome = f.id
      BY <1>1, <1>4, <3>1, <3>2 DEF Future
    <3>4. \A i \in Ids \ {f.id} : pending'[i] = pending[i]
      BY <1>1, <3>1
    <3> QED
      BY <1>4, <1>7, <3>3, <3>4 DEF CarriedOutOnce, RepliedOnce
  <2>2. CASE pending' = pending
    BY <1>7, <2>2 DEF CarriedOutOnce, RepliedOnce
  <2> QED
    BY <1>7, <2>1, <2>2 DEF Resolved
<1> QED
  BY <1>9, <1>11, <1>12 DEF CarriedOutOnce, RepliedOnce

LEMMA CallOnce ==
  ASSUME TableInv, CarriedOutOnce, NEW c \in Callers, NEW m \in Modules,
         Call(c, m)
  PROVE  CarriedOutOnce'
<1>0. PICK l \in Links : l = writer[m]
  BY DEF TableInv, TypeOK, Call
<1> DEFINE i == lastId + 1
           f == [id |-> i, ask |-> i]
<1>1. /\ link \in [Links -> Connection \cup {NoLink}]
      /\ pending \in [Ids -> Future \cup {NotPending}]
      /\ Open(l) /\ link[l] \in Connection
      /\ lastId \in 0..MaxCalls /\ MaxCalls \in Nat /\ i \in Ids
  BY <1>0, RouterAssumption
  DEF TableInv, TypeOK, WriterIsOpen, Call, Open, Ids
<1>2. /\ lastId' = i /\ executed' = executed
      /\ link' = Sent(l, f)
      /\ pending' = [pending EXCEPT ![i] =
                       [owner |-> m, link |-> l, outcome |-> Unanswered]]
  BY <1>0 DEF Call, FreshId
<1>3. f \in Frame
  BY <1>1 DEF Frame
<1>4. \A k \in Links \ {l} : Inbox(k)' = Inbox(k) /\ Outbox(k)' = Outbox(k)
  BY <1>1, <1>2 DEF Sent, Open, Inbox, Outbox
<1>5. /\ Inbox(l)' = Inbox(l) \/ Inbox(l)' = Append(Inbox(l), f)
      /\ Outbox(l)' = Outbox(l)
  <2>1. CASE link[l].peer = "up"
    <3> DEFINE sent == [link[l] EXCEPT !.inbox = Append(@, f)]
    <3>1. sent.inbox = Append(Inbox(l), f) /\ sent.outbox = Outbox(l)
      BY <1>1 DEF Connection, Inbox, Outbox
    <3>2. sent \in Connection
      <4>1. Append(link[l].inbox, f) \in Seq(Frame)
        BY <1>1, <1>3, AppendProperties DEF Connection
      <4> QED
        BY <1>1, <4>1 DEF Connection
    <3>3. link' = [link EXCEPT ![l] = sent]
      BY <1>1, <1>2, <2>1 DEF Sent
    <3> HIDE DEF sent
    <3> QED
      BY <1>1, <3>1, <3>2, <3>3, NoValueAssumption DEF Open, Inbox, Outbox
  <2>2. CASE link[l].peer # "up"
    BY <1>1, <1>2, <2>2 DEF Sent, Open, Inbox, Outbox
  <2> QED
    BY <2>1, <2>2
<1>6. i = lastId + 1 /\ f.id = i /\ f.ask = i
  OBVIOUS
<1>7. TypeOK
  BY DEF TableInv
<1> HIDE DEF f, i
<1>8. \A k \in Links : \A j \in DOMAIN Inbox(k)' :
        \/ j \in DOMAIN Inbox(k) /\ Inbox(k)'[j] = Inbox(k)[j]
        \/ k = l /\ j = Len(Inbox(l)) + 1 /\ Inbox(k)'[j] = f
  <2>1. Inbox(l) \in Seq(Frame) /\ DOMAIN Inbox(l) = 1..Len(Inbox(l))
        /\ Len(Inbox(l)) \in Nat
    BY <1>1, <1>7, BoxTypes
  <2>2. ASSUME Inbox(l)' = Append(Inbox(l), f), NEW j \in DOMAIN Inbox(l)'
        PROVE  \/ j \in DOMAIN Inbox(l) /\ Inbox(l)'[j] = Inbox(l)[j]
               \/ j = Len(Inbox(l)) + 1 /\ Inbox(l)'[j] = f
    <3>1. DOMAIN Inbox(l)' = 1..Len(Inbox(l)) + 1
      BY <1>3, <2>1, <2>2, AppendProperties, LenProperties
    <3> QED
      BY <1>3, <2>1, <2>2, <3>1, AppendProperties
  <2> QED
    BY <1>4, <1>5, <2>2
<1>9. AskedOnce'
  <2>1. \A k \in Links : \A j \in DOMAIN Inbox(k)' :
          /\ Inbox(k)'[j].id = Inbox(k)'[j].ask
          /\ Inbox(k)'[j].ask \in 1..lastId'
          /\ executed'[Inbox(k)'[j].ask] = 0
    BY <1>1, <1>2, <1>6, <1>8 DEF CarriedOutOnce, AskedOnce, Ids
  <2>2. \A k \in Links : \A j \in DOMAIN Inbox(k) : Inbox(k)[j].ask # i
    BY <1>1, <1>6 DEF CarriedOutOnce, AskedOnce
  <2>3. \A k, n \in Links : \A s \in DOMAIN Inbox(k)', t \in DOMAIN Inbox(n)' :
          Inbox(k)'[s].ask = Inbox(n)'[t].ask => k = n /\ s = t
    BY <1>6, <1>8, <2>2 DEF CarriedOutOnce, AskedOnce
  <2>4. \A a \in Ids : a > lastId' => executed'[a] = 0
    BY <1>1, <1>2, <1>6 DEF CarriedOutOnce, AskedOnce, Ids
  <2> QED
    BY <2>1, <2>3, <2>4 DEF AskedOnce
<1>10. RepliedOnce'
  <2>1. \A k \in Links : Outbox(k)' = Outbox(k)
    BY <1>4, <1>5
  <2>2. pending'[i].outcome \notin Ids
    BY <1>1, <1>2 DEF Unanswered, Ids
  <2> QED
    BY <1>1, <1>2, <2>1, <2>2 DEF CarriedOutOnce, RepliedOnce
<1> QED
  BY <1>9, <1>10 DEF CarriedOutOnce

(* Steps that leave the frames alone, and those that fail or drop futures. *)
LEMMA QuietOnce ==
  ASSUME TableInv, CarriedOutOnce, [Next]_vars,
         \A c \in Callers, m \in Modules : ~Call(c, m),
         \A l \in Links : ~Serve(l) /\ ~Deliver(l)
  PROVE  CarriedOutOnce' /\ lastId' = lastId /\ executed' = executed
<1>1. /\ link \in [Links -> Connection \cup {NoLink}]
      /\ pending \in [Ids -> Future \cup {NotPending}]
      /\ MaxCalls \in Nat /\ TypeOK
  BY RouterAssumption DEF TableInv, TypeOK
<1>2. lastId' = lastId /\ executed' = executed
  BY DEF Next, vars, Attach, Die, Detach, Refuse, Step, Drained, DrainFails,
     Answered, Timeout, Finish
<1>3. \A l \in Links : /\ Inbox(l)' = Inbox(l) \/ Inbox(l)' = <<>>
                       /\ Outbox(l)' = Outbox(l) \/ Outbox(l)' = <<>>
  <2>1. ASSUME NEW k \in Links, NEW m \in Modules, Attach(k, m), NEW l \in Links
        PROVE  /\ Inbox(l)' = Inbox(l) \/ Inbox(l)' = <<>>
               /\ Outbox(l)' = Outbox(l) \/ Outbox(l)' = <<>>
    BY <1>1, <2>1 DEF Attach, Inbox, Outbox, Open
  <2>2. ASSUME NEW k \in Links, Die(k), NEW l \in Links
        PROVE  Inbox(l)' = Inbox(l) /\ Outbox(l)' = Outbox(l)
    <3> DEFINE gone == [link[k] EXCEPT !.peer = "gone"]
    <3>1. link[k] \in Connection /\ Open(k)
      BY <1>1, <2>2 DEF Die, Open
    <3>2. /\ gone.inbox = link[k].inbox /\ gone.outbox = link[k].outbox
          /\ gone \in Connection
      BY <3>1 DEF Connection
    <3>3. link' = [link EXCEPT ![k] = gone]
      BY <2>2 DEF Die
    <3> HIDE DEF gone
    <3> QED
      BY <1>1, <3>1, <3>2, <3>3, NoValueAssumption DEF Inbox, Outbox, Open
  <2>3. ASSUME NEW k \in Links, Detach(k), NEW l \in Links
        PROVE  /\ Inbox(l)' = Inbox(l) \/ Inbox(l)' = <<>>
               /\ Outbox(l)' = Outbox(l) \/ Outbox(l)' = <<>>
    BY <1>1, <2>3 DEF Detach, Inbox, Outbox, Open
  <2>4. ASSUME link' = link, NEW l \in Links
        PROVE  Inbox(l)' = Inbox(l) /\ Outbox(l)' = Outbox(l)
    BY <2>4 DEF Inbox, Outbox, Open
  <2> QED
    BY <2>1, <2>2, <2>3, <2>4
    DEF Next, vars, Refuse, Step, Drained, DrainFails, Answered, Timeout,
        Finish
<1>4. \A i \in Ids : pending'[i] # NotPending =>
        \/ pending[i] # NotPending /\ pending'[i].outcome = pending[i].outcome
        \/ pending'[i].outcome \notin Ids
  <2>1. Offline \notin Ids
    BY <1>1 DEF Offline, Ids
  <2>2. ASSUME NEW m \in Modules, pending' = FailedFor(m)
        PROVE  <1>4!:
    BY <1>1, <2>1, <2>2, FailedForType
  <2>3. ASSUME NEW l \in Links, Detach(l)
        PROVE  <1>4!:
    <3>1. link[l].module \in Modules
      BY <1>1, <2>3 DEF Detach, Open, Connection
    <3> QED
      BY <2>2, <2>3, <3>1 DEF Detach
  <2>4. ASSUME NEW c \in Callers, NEW told, Finish(c, told)
        PROVE  <1>4!:
    BY <1>1, <2>4 DEF Finish
  <2>5. CASE pending' = pending
    BY <2>5
  <2> QED
    BY <2>2, <2>3, <2>4, <2>5
    DEF Next, vars, Attach, Die, Refuse, Step, Drained, DrainFails, Answered,
        Timeout
<1> QED
  BY <1>2, <1>3, <1>4, NothingSent

LEMMA NextOnce == TableInv /\ CarriedOutOnce /\ [Next]_vars => CarriedOutOnce'
<1> SUFFICES ASSUME TableInv, CarriedOutOnce, [Next]_vars
             PROVE  CarriedOutOnce'
  OBVIOUS
<1>1. TypeOK
  BY DEF TableInv
<1> QED
  BY <1>1, QuietOnce, CallOnce, ServeOnce, DeliverOnce

-----------------------------------------------------------------------------
(* What a caller is told.                                                  *)
Heard == [c \in Callers |-> [waiting |-> caller[c].pc # "idle",
                             ask     |-> caller[c].ask,
                             told    |-> caller[c].told]]

LEMMA FinishIsHeard ==
  ASSUME TypeOK, NEW c \in Callers, NEW told \in 0..MaxCalls + 1,
         Finish(c, told)
  PROVE  Heard' = [Heard EXCEPT ![c] = [waiting |-> FALSE,
                                        ask |-> caller[c].ask,
                                        told |-> told]]
<1>1. caller \in [Callers -> Caller] /\ caller[c] \in Caller
  BY DEF TypeOK
<1>2. caller' = Told(c, told)
  BY DEF Finish
<1>3. /\ caller'[c].pc = "idle" /\ caller'[c].ask = caller[c].ask
      /\ caller'[c].told = told
      /\ \A d \in Callers \ {c} : caller'[d] = caller[d]
  BY <1>1, <1>2 DEF Told, Caller
<1> QED
  BY <1>3 DEF Heard

LEMMA StepImplements ==
  ASSUME TableInv, CarriedOutOnce, [Next]_vars
  PROVE  [Remote!RpcNext]_(Remote!rpcVars)
<1>1. /\ MaxCalls \in Nat /\ TypeOK
      /\ caller \in [Callers -> Caller]
      /\ pending \in [Ids -> Future \cup {NotPending}]
      /\ lastId \in 0..MaxCalls
  BY RouterAssumption DEF TableInv, TypeOK
<1>2. CASE UNCHANGED <<lastId, executed, Heard>>
  BY <1>2 DEF Remote!rpcVars, Heard
<1>3. ASSUME UNCHANGED <<lastId, executed, caller>>
      PROVE  UNCHANGED <<lastId, executed, Heard>>
  BY <1>3 DEF Heard
<1>4. ASSUME NEW l \in Links, Serve(l)
      PROVE  Remote!RpcNext
  <2> DEFINE a == Head(link[l].inbox).ask
  <2>1. /\ a \in 1..lastId /\ executed[a] = 0
        /\ executed' = [executed EXCEPT ![a] = 1]
    BY <1>1, <1>4, ServeOnce
  <2>2. UNCHANGED <<lastId, caller>>
    BY <1>4 DEF Serve
  <2>3. Remote!Execute(a)
    BY <1>3, <2>1, <2>2 DEF Remote!Execute, Heard
  <2> QED
    BY <2>1, <2>3 DEF Remote!RpcNext
<1>5. ASSUME NEW c \in Callers, NEW m \in Modules, Call(c, m)
      PROVE  Remote!RpcNext
  <2>1. /\ caller[c].pc = "idle" /\ lastId' = lastId + 1
        /\ executed' = executed
        /\ caller' = [caller EXCEPT ![c] =
             [pc |-> "drain", link |-> writer[m], id |-> lastId + 1,
              ask |-> lastId + 1, told |-> 0]]
    BY <1>5 DEF Call, FreshId
  <2>2. Heard' = [Heard EXCEPT ![c] =
                    [waiting |-> TRUE, ask |-> lastId + 1, told |-> 0]]
    BY <1>1, <2>1 DEF Heard
  <2>3. ~Heard[c].waiting
    BY <2>1 DEF Heard
  <2>4. Remote!Ask(c)
    BY <2>1, <2>2, <2>3 DEF Remote!Ask, Heard
  <2> QED
    BY <2>4 DEF Remote!RpcNext
<1>6. ASSUME NEW c \in Callers, Refuse(c)
      PROVE  Remote!RpcNext
  <2>1. /\ caller[c].pc = "idle"
        /\ caller' = [caller EXCEPT ![c] =
             [pc |-> "idle", link |-> NoLink, id |-> 0, ask |-> 0,
              told |-> Error]]
        /\ UNCHANGED <<lastId, executed>>
    BY <1>6 DEF Refuse
  <2>2. Heard' = [Heard EXCEPT ![c] =
                    [waiting |-> FALSE, ask |-> 0, told |-> Remote!Error]]
    BY <1>1, <2>1 DEF Heard, Error, Remote!Error
  <2>3. ~Heard[c].waiting
    BY <2>1 DEF Heard
  <2>4. Remote!Refuse(c)
    BY <2>1, <2>2, <2>3 DEF Remote!Refuse, Heard
  <2> QED
    BY <2>4 DEF Remote!RpcNext
<1>7. ASSUME NEW c \in Callers, caller[c].pc # "idle", Finish(c, Error)
      PROVE  Remote!RpcNext
  <2>1. Heard' = [Heard EXCEPT ![c] = [waiting |-> FALSE,
                                       ask |-> caller[c].ask,
                                       told |-> Remote!Error]]
    <3>1. Error \in 0..MaxCalls + 1 /\ Error = Remote!Error
      BY <1>1 DEF Error, Remote!Error
    <3> QED
      BY <1>1, <1>7, <3>1, FinishIsHeard
  <2>2. Heard[c].waiting /\ UNCHANGED <<lastId, executed>>
    BY <1>7 DEF Heard, Finish
  <2>3. Remote!Fail(c)
    BY <2>1, <2>2 DEF Remote!Fail, Heard
  <2> QED
    BY <2>3 DEF Remote!RpcNext
<1>8. ASSUME NEW c \in Callers, Answered(c)
      PROVE  Remote!RpcNext
  <2> DEFINE i == caller[c].id
             out == pending[i].outcome
  <2>1. /\ c \in Suspended /\ i \in Ids /\ caller[c].ask = i
        /\ pending[i] # NotPending /\ pending[i] \in Future
    BY <1>1, <1>8 DEF Answered, TableInv, OwnFuture, Suspended, Ids
  <2>2. out \in Ids \/ out = Error
    BY <1>1, <1>8, <2>1
    DEF Answered, Future, Outcome, Unanswered, Ids, Error
  <2>3. CASE out = Error
    BY <1>7, <1>8, <2>3 DEF Answered
  <2>4. CASE out \in Ids
    <3>1. out = i /\ executed[i] = 1
      BY <2>1, <2>4 DEF CarriedOutOnce, RepliedOnce
    <3>2. Heard' = [Heard EXCEPT ![c] = [waiting |-> FALSE,
                                         ask |-> caller[c].ask,
                                         told |-> i]]
      <4>1. i \in 0..MaxCalls + 1 /\ Finish(c, i)
        BY <1>1, <1>8, <2>1, <3>1 DEF Answered, Ids
      <4> QED
        BY <1>1, <4>1, FinishIsHeard
    <3>3. /\ Heard[c].waiting /\ Heard[c].ask = i
          /\ UNCHANGED <<lastId, executed>>
      BY <1>8, <2>1 DEF Heard, Answered, Finish
    <3>4. Remote!Answer(c)
      BY <3>1, <3>2, <3>3 DEF Remote!Answer, Heard
    <3> QED
      BY <3>4 DEF Remote!RpcNext
  <2> QED
    BY <2>2, <2>3, <2>4
<1>9. ASSUME NEW c \in Callers, DrainFails(c) \/ Timeout(c)
      PROVE  Remote!RpcNext
  BY <1>7, <1>9 DEF DrainFails, Timeout
<1>10. ASSUME NEW c \in Callers, Drained(c)
       PROVE  UNCHANGED <<lastId, executed, Heard>>
  <2> DEFINE waiting == [caller[c] EXCEPT !.pc = "wait"]
  <2>1. /\ waiting.ask = caller[c].ask /\ waiting.told = caller[c].told
        /\ waiting.pc = "wait"
    BY <1>1 DEF Caller
  <2>2. caller' = [caller EXCEPT ![c] = waiting]
    BY <1>1, <1>10 DEF Drained
  <2>3. caller[c].pc = "drain" /\ UNCHANGED <<lastId, executed>>
    BY <1>10 DEF Drained
  <2> HIDE DEF waiting
  <2>4. \A d \in Callers : /\ (caller'[d].pc # "idle") = (caller[d].pc # "idle")
                           /\ caller'[d].ask = caller[d].ask
                           /\ caller'[d].told = caller[d].told
    BY <1>1, <2>1, <2>2, <2>3
  <2> QED
    BY <2>3, <2>4 DEF Heard
<1>11. CASE \E l \in Links : Die(l) \/ Detach(l) \/ Deliver(l)
                             \/ \E m \in Modules : Attach(l, m)
  BY <1>2, <1>3, <1>11 DEF Die, Detach, Deliver, Attach
<1>12. CASE UNCHANGED vars
  BY <1>2, <1>3, <1>12 DEF vars
<1> QED
  BY <1>2, <1>4, <1>5, <1>6, <1>8, <1>9, <1>10, <1>11, <1>12
  DEF Next, Step

(* A request is carried out at most once, and an answer is the module's    *)
(* reply to the caller's last request, after it was carried out            *)
(* (server.py, _issue_to_module and _resolve_pending).                     *)
THEOREM RefinesRpc == Spec => ImplementsRpc
<1>1. Init => Remote!RpcInit
  <2> SUFFICES ASSUME Init PROVE Remote!RpcInit
    OBVIOUS
  <2>1. lastId = 0 /\ executed = [i \in 1..MaxCalls |-> 0]
    BY DEF Init, Ids
  <2>2. Heard = [c \in Callers |-> [waiting |-> FALSE, ask |-> 0, told |-> 0]]
    <3>1. \A c \in Callers : /\ caller[c].pc = "idle"
                             /\ caller[c].ask = 0 /\ caller[c].told = 0
      BY DEF Init
    <3> QED
      BY <3>1 DEF Heard
  <2> QED
    BY <2>1, <2>2 DEF Remote!RpcInit, Heard
<1>2. Init => CarriedOutOnce
  BY InitOnce
<1>3. TableInv /\ CarriedOutOnce /\ [Next]_vars => CarriedOutOnce'
  BY NextOnce
<1>4. TableInv /\ CarriedOutOnce /\ [Next]_vars
        => [Remote!RpcNext]_(Remote!rpcVars)
  BY StepImplements
<1> QED
  BY <1>1, <1>2, <1>3, <1>4, TableInvariant, PTL
  DEF Spec, ImplementsRpc, Remote!RpcSpec

=============================================================================
