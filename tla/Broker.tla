------------------------------- MODULE Broker -------------------------------
(***************************************************************************)
(* The event broker of the core hub (core/broker.py): publish fans an      *)
(* event out, synchronously, to the bounded buffer of every open           *)
(* subscription whose patterns match its topic.  A full buffer drops its   *)
(* oldest event and raises one core.overflow notification, which sits in a *)
(* slot of its own and is handed out before the buffered events.           *)
(*                                                                         *)
(* A consumer sits in the coroutine get().  asyncio runs it in pieces, and *)
(* other tasks publish or close between the pieces, so get() is four       *)
(* actions: GetNotice or GetStart, then GetPop (the inner queue task wakes *)
(* and takes an event) and GetReturn (the outer coroutine resumes).        *)
(*                                                                         *)
(* Events are numbered in publication order.  "due" is a history variable: *)
(* the numbers of the events a consumer is still owed an answer about.     *)
(***************************************************************************)
EXTENDS Naturals, Sequences, FiniteSets, SequencesExt

CONSTANTS Subs,        \* subscription handles
          Topics,      \* the topics published, each a sequence of segments
          TopicLists,  \* the topic lists clients subscribe with: sets of
                       \* patterns (records, see Matches)
          BufferSize,  \* default_buffer_size: 256 in the program
          MaxEvents    \* bound on the events published in a behaviour

ASSUME BrokerAssumption ==
         /\ BufferSize \in Nat \ {0}
         /\ MaxEvents \in Nat

VARIABLES patterns,   \* Subscription._topics
          status,     \* "new", "open" or "closed": Subscription._closed
          listed,     \* EventBroker._subscriptions
          queue,      \* Subscription._queue
          overflow,   \* dropped_count of _overflow_pending, 0 for None
          count,      \* Subscription._overflow_count
          reader,     \* where the consumer's get() is suspended
          held,       \* the events its finished inner task returned
          published,  \* number of the last event published
          due         \* history: events published to it, not yet settled

vars == <<patterns, status, listed, queue, overflow, count, reader, held,
          published, due>>

Event == 1..MaxEvents

(* The wildcard forms: "*", a literal, "prefix.*" and "*.suffix".          *)
Matches(p, t) ==
  \/ p.kind = "any"
  \/ p.kind = "literal" /\ p.segments = t
  \/ p.kind = "under"   /\ IsStrictPrefix(p.segments, t)
  \/ p.kind = "ending"  /\ IsStrictSuffix(p.segments, t)

Receives(s, t) == /\ s \in listed
                  /\ status[s] = "open"
                  /\ \E p \in patterns[s] : Matches(p, t)

Init == /\ patterns  = [s \in Subs |-> {}]
        /\ status    = [s \in Subs |-> "new"]
        /\ listed    = {}
        /\ queue     = [s \in Subs |-> <<>>]
        /\ overflow  = [s \in Subs |-> 0]
        /\ count     = [s \in Subs |-> 0]
        /\ reader    = [s \in Subs |-> "idle"]
        /\ held      = [s \in Subs |-> {}]
        /\ published = 0
        /\ due       = [s \in Subs |-> {}]

-----------------------------------------------------------------------------
(* Subscriptions.  subscribe() refuses an empty topic list.  The events    *)
(* socket only closes its subscription; unsubscribe() also drops it from   *)
(* the broker's set.                                                       *)

Subscribe(s, P) ==
  /\ status[s] = "new"
  /\ P # {}
  /\ patterns' = [patterns EXCEPT ![s] = P]
  /\ status'   = [status EXCEPT ![s] = "open"]
  /\ listed'   = listed \cup {s}
  /\ UNCHANGED <<queue, overflow, count, reader, held, published, due>>

Close(s) ==
  /\ status[s] = "open"
  /\ status' = [status EXCEPT ![s] = "closed"]
  /\ UNCHANGED <<patterns, listed, queue, overflow, count, reader, held,
                 published, due>>

Unsubscribe(s) ==
  /\ s \in listed
  /\ status' = [status EXCEPT ![s] = "closed"]
  /\ listed' = listed \ {s}
  /\ UNCHANGED <<patterns, queue, overflow, count, reader, held, published,
                 due>>

-----------------------------------------------------------------------------
(* Publishing.                                                             *)

Full(s) == Len(queue[s]) = BufferSize

(* Mutants of Enqueued: the bound is forgotten; the newest is dropped.      *)
EnqueuedUnbounded(q, e) == Append(q, e)

EnqueuedDropsNewest(q, e) == IF Len(q) = BufferSize THEN Append(Front(q), e)
                                                    ELSE Append(q, e)

Enqueued(q, e) == IF Len(q) = BufferSize THEN Append(Tail(q), e)
                                         ELSE Append(q, e)

(* One notification at a time: its count is fixed when it is created.      *)
Materialized(pending, dropped) == IF pending # 0 THEN pending ELSE dropped

Publish(t) ==
  LET e    == published + 1
      To   == {s \in Subs : Receives(s, t)}
      Over == {s \in To : Full(s)}
  IN /\ published < MaxEvents
     /\ published' = published + 1
     /\ queue'     = [s \in Subs |-> IF s \in To THEN Enqueued(queue[s], e)
                                                 ELSE queue[s]]
     /\ count'     = [s \in Subs |-> IF s \in Over THEN count[s] + 1
                                                   ELSE count[s]]
     /\ overflow'  = [s \in Subs |->
                        IF s \in Over
                          THEN Materialized(overflow[s], count[s] + 1)
                          ELSE overflow[s]]
     /\ due'       = [s \in Subs |-> IF s \in To THEN due[s] \cup {e}
                                                 ELSE due[s]]
     /\ UNCHANGED <<patterns, status, listed, reader, held>>

-----------------------------------------------------------------------------
(* The consumer's get().                                                   *)

Buffered(s) == {queue[s][i] : i \in DOMAIN queue[s]}

InFlight(s) == Buffered(s) \cup held[s]

Missing(s) == due[s] \ InFlight(s)

(* A mutant of GetNotice: the count survives the notification.             *)
GetNoticeKeepsCount(s) ==
  /\ status[s] = "open"
  /\ reader[s] = "idle"
  /\ overflow[s] # 0
  /\ overflow' = [overflow EXCEPT ![s] = 0]
  /\ due'      = [due EXCEPT ![s] = @ \cap InFlight(s)]
  /\ UNCHANGED <<patterns, status, listed, queue, count, reader, held,
                 published>>

GetNotice(s) ==
  /\ status[s] = "open"
  /\ reader[s] = "idle"
  /\ overflow[s] # 0
  /\ overflow' = [overflow EXCEPT ![s] = 0]
  /\ count'    = [count EXCEPT ![s] = 0]
  /\ due'      = [due EXCEPT ![s] = @ \cap InFlight(s)]
  /\ UNCHANGED <<patterns, status, listed, queue, reader, held, published>>

(* A mutant of GetStart: get() does not look at the overflow slot first.   *)
GetStartIgnoresNotice(s) ==
  /\ status[s] = "open"
  /\ reader[s] = "idle"
  /\ reader' = [reader EXCEPT ![s] = "waiting"]
  /\ UNCHANGED <<patterns, status, listed, queue, overflow, count, held,
                 published, due>>

GetStart(s) ==
  /\ status[s] = "open"
  /\ reader[s] = "idle"
  /\ overflow[s] = 0
  /\ reader' = [reader EXCEPT ![s] = "waiting"]
  /\ UNCHANGED <<patterns, status, listed, queue, overflow, count, held,
                 published, due>>

GetPop(s) ==
  /\ reader[s] = "waiting"
  /\ queue[s] # <<>>
  /\ held'   = [held EXCEPT ![s] = {Head(queue[s])}]
  /\ queue'  = [queue EXCEPT ![s] = Tail(@)]
  /\ reader' = [reader EXCEPT ![s] = "holding"]
  /\ UNCHANGED <<patterns, status, listed, overflow, count, published, due>>

(* The outer coroutine resumes and returns the event.  A close may land    *)
(* before: it is noticed, and the event lost, unless the task that waits   *)
(* for it has not run yet either.                                          *)
GetReturn(s) ==
  /\ reader[s] = "holding"
  /\ held'   = [held EXCEPT ![s] = {}]
  /\ reader' = [reader EXCEPT ![s] = "idle"]
  /\ due'    = [due EXCEPT ![s] = @ \ held[s]]
  /\ UNCHANGED <<patterns, status, listed, queue, overflow, count, published>>

GetClosed(s) ==
  /\ status[s] = "closed"
  /\ reader[s] # "idle"
  /\ held'   = [held EXCEPT ![s] = {}]
  /\ reader' = [reader EXCEPT ![s] = "idle"]
  /\ UNCHANGED <<patterns, status, listed, queue, overflow, count, published,
                 due>>

Get(s) == \/ GetNotice(s) \/ GetStart(s) \/ GetPop(s)
          \/ GetReturn(s) \/ GetClosed(s)

Next == \/ \E s \in Subs, P \in TopicLists : Subscribe(s, P)
        \/ \E s \in Subs : Close(s)
        \/ \E s \in Subs : Unsubscribe(s)
        \/ \E t \in Topics : Publish(t)
        \/ \E s \in Subs : Get(s)

Spec == Init /\ [][Next]_vars

(* The consumers of the hub call get() again as soon as it has returned,   *)
(* and asyncio runs every ready task.                                      *)
FairSpec == Spec /\ \A s \in Subs : WF_vars(Get(s))

-----------------------------------------------------------------------------
(* Properties.                                                             *)

(* Every variable keeps its type; no buffer outgrows its capacity.         *)
TypeOK ==
  /\ patterns \in [Subs -> TopicLists \cup {{}}]
  /\ status \in [Subs -> {"new", "open", "closed"}]
  /\ listed \in SUBSET Subs
  /\ queue \in [Subs -> Seq(Event)]
  /\ \A s \in Subs : Len(queue[s]) <= BufferSize
  /\ overflow \in [Subs -> Nat]
  /\ count \in [Subs -> Nat]
  /\ reader \in [Subs -> {"idle", "waiting", "holding"}]
  /\ held \in [Subs -> SUBSET Event]
  /\ published \in 0..MaxEvents
  /\ due \in [Subs -> SUBSET Event]

(* No silent loss: a core.overflow notification is waiting for the         *)
(* consumer of an open subscription exactly while it misses an event that  *)
(* was published to it, however publishes interleave with a suspended      *)
(* get().  The dropped_count it carries never exaggerates; it is that of   *)
(* the drop that raised the notification, so it may tell fewer than are    *)
(* missed, and no claim is made that it tells how many.                    *)
LossIsAnnounced ==
  \A s \in Subs :
    status[s] = "open" =>
      /\ (Missing(s) # {}) <=> (overflow[s] # 0)
      /\ overflow[s] <= Cardinality(Missing(s))

(* What is buffered or held was published to this subscription, has not    *)
(* been handed out before, and leaves in publication order; what was       *)
(* dropped is older than all that is still buffered.                       *)
InOrderOnce ==
  \A s \in Subs :
    status[s] = "open" =>
      /\ InFlight(s) \subseteq due[s]
      /\ \A i, j \in DOMAIN queue[s] :
           i < j => queue[s][i] < queue[s][j]
      /\ \A e \in held[s], m \in Buffered(s) : e < m
      /\ \A m \in Missing(s), k \in Buffered(s) : m < k

(* The consumer of an open subscription eventually gets every event        *)
(* published to it, or the notification that stands for it.                *)
EverySettled ==
  \A s \in Subs : \A n \in Event :
    (n \in due[s]) ~> (n \notin due[s] \/ status[s] = "closed")

=============================================================================
