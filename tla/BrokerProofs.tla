---------------------------- MODULE BrokerProofs ----------------------------
(***************************************************************************)
(* Theorems about module Broker, for any subscriptions, topics, patterns,  *)
(* buffer size and number of events.                                       *)
(***************************************************************************)
EXTENDS Broker, TLAPS, FiniteSetTheorems, SequenceTheorems

(* What a buffer holds, and that it holds it in publication order.         *)
Items(q) == {q[i] : i \in DOMAIN q}

Increasing(q) == \A i, j \in DOMAIN q : i < j => q[i] < q[j]

LEMMA TailItems ==
  ASSUME NEW q \in Seq(Event), q # <<>>, Increasing(q)
  PROVE  /\ Head(q) \in Event /\ Head(q) \in Items(q)
         /\ Tail(q) \in Seq(Event) /\ Len(Tail(q)) = Len(q) - 1
         /\ Len(Tail(q)) \in Nat
         /\ Items(Tail(q)) = Items(q) \ {Head(q)}
         /\ \A k \in Items(Tail(q)) : Head(q) < k
         /\ Increasing(Tail(q))
<1>1. /\ Len(q) \in Nat /\ Len(q) >= 1 /\ DOMAIN q = 1..Len(q)
      /\ Head(q) = q[1] /\ \A i \in 1..Len(q) : q[i] \in Event
      /\ Event \subseteq Nat
  <2>1. Event \subseteq Nat
    BY BrokerAssumption DEF Event
  <2>2. Len(q) \in Nat /\ Len(q) >= 1 /\ DOMAIN q = 1..Len(q)
    OBVIOUS
  <2> QED
    BY <2>1, <2>2
<1>2. /\ Tail(q) \in Seq(Event) /\ Len(Tail(q)) = Len(q) - 1
      /\ DOMAIN Tail(q) = 1..Len(q) - 1
      /\ \A i \in 1..Len(q) - 1 : Tail(q)[i] = q[i + 1]
  OBVIOUS
<1>3. \A i \in 2..Len(q) : q[1] < q[i]
  BY <1>1 DEF Increasing
<1>4. Items(Tail(q)) = Items(q) \ {Head(q)}
  <2>1. ASSUME NEW k \in Items(Tail(q))
        PROVE  k \in Items(q) /\ Head(q) < k /\ k # Head(q)
    <3>1. PICK i \in 1..Len(q) - 1 : k = q[i + 1]
      BY <1>2, <2>1 DEF Items
    <3>2. i + 1 \in 2..Len(q) /\ i + 1 \in DOMAIN q
      BY <1>1
    <3>3. q[1] < q[i + 1]
      BY <1>3, <3>2
    <3>4. q[1] \in Nat
      <4>1. 1 \in 1..Len(q)
        BY <1>1
      <4> QED
        BY <1>1, <4>1
    <3>5. q[i + 1] \in Nat
      BY <1>1, <3>2
    <3>6. q[1] # q[i + 1]
      BY <3>3, <3>4, <3>5
    <3> QED
      BY <1>1, <3>1, <3>2, <3>3, <3>6 DEF Items
  <2>2. ASSUME NEW k \in Items(q), k # Head(q)
        PROVE  k \in Items(Tail(q))
    <3>1. PICK i \in 1..Len(q) : k = q[i]
      BY <1>1, <2>2 DEF Items
    <3>2. i - 1 \in 1..Len(q) - 1 /\ Tail(q)[i - 1] = k
      BY <1>1, <1>2, <2>2, <3>1
    <3> QED
      BY <1>2, <3>2 DEF Items
  <2> QED
    BY <2>1, <2>2
<1>5. \A k \in Items(Tail(q)) : Head(q) < k
  <2> SUFFICES ASSUME NEW k \in Items(Tail(q))
               PROVE  Head(q) < k
    OBVIOUS
  <2>1. PICK i \in 1..Len(q) - 1 : k = q[i + 1]
    BY <1>2 DEF Items
  <2>2. i + 1 \in 2..Len(q)
    BY <1>1
  <2> QED
    BY <1>1, <1>3, <2>1, <2>2
<1>6. Increasing(Tail(q))
  <2> SUFFICES ASSUME NEW i \in 1..Len(q) - 1, NEW j \in 1..Len(q) - 1, i < j
               PROVE  q[i + 1] < q[j + 1]
    BY <1>2 DEF Increasing
  <2>1. i + 1 \in DOMAIN q /\ j + 1 \in DOMAIN q /\ i + 1 < j + 1
    BY <1>1
  <2> QED
    BY <2>1 DEF Increasing
<1>7. Head(q) \in Event /\ Head(q) \in Items(q)
  BY <1>1 DEF Items
<1> QED
  BY <1>1, <1>2, <1>4, <1>5, <1>6, <1>7

LEMMA AppendItems ==
  ASSUME NEW q \in Seq(Event), NEW e \in Event, Increasing(q),
         \A k \in Items(q) : k < e
  PROVE  /\ Append(q, e) \in Seq(Event) /\ Len(Append(q, e)) = Len(q) + 1
         /\ Items(Append(q, e)) = Items(q) \cup {e}
         /\ Increasing(Append(q, e))
<1> DEFINE a == Append(q, e)
<1>1. /\ Len(q) \in Nat /\ DOMAIN q = 1..Len(q)
      /\ a \in Seq(Event) /\ Len(a) = Len(q) + 1
      /\ DOMAIN a = 1..Len(q) + 1
      /\ \A i \in 1..Len(q) : a[i] = q[i]
      /\ a[Len(q) + 1] = e
  OBVIOUS
<1> HIDE DEF a
<1>2. Items(a) = Items(q) \cup {e}
  <2>1. \A i \in DOMAIN a : i \in DOMAIN q \/ i = Len(q) + 1
    BY <1>1
  <2>2. Len(q) + 1 \in DOMAIN a /\ \A i \in DOMAIN q : i \in DOMAIN a
    BY <1>1
  <2> QED
    BY <1>1, <2>1, <2>2 DEF Items
<1>3. Increasing(a)
  <2> SUFFICES ASSUME NEW i \in 1..Len(q) + 1, NEW j \in 1..Len(q) + 1, i < j
               PROVE  a[i] < a[j]
    BY <1>1 DEF Increasing
  <2>1. CASE j = Len(q) + 1
    BY <1>1, <2>1 DEF Items
  <2>2. CASE j # Len(q) + 1
    BY <1>1, <2>2 DEF Increasing
  <2> QED
    BY <2>1, <2>2
<1> QED
  BY <1>1, <1>2, <1>3 DEF a

(* A buffer takes the newest event, and gives its oldest for it if full.   *)
LEMMA EnqueuedItems ==
  ASSUME NEW q \in Seq(Event), NEW e \in Event, Len(q) <= BufferSize,
         Increasing(q), \A k \in Items(q) : k < e
  PROVE  /\ Enqueued(q, e) \in Seq(Event)
         /\ Len(Enqueued(q, e)) <= BufferSize
         /\ Increasing(Enqueued(q, e))
         /\ Len(q) # BufferSize => Items(Enqueued(q, e)) = Items(q) \cup {e}
         /\ Len(q) = BufferSize =>
              /\ Items(Enqueued(q, e)) = (Items(q) \ {Head(q)}) \cup {e}
              /\ Head(q) \in Items(q)
              /\ \A k \in Items(q) \ {Head(q)} : Head(q) < k
<1>1. BufferSize \in Nat \ {0} /\ Len(q) \in Nat
  BY BrokerAssumption
<1>2. CASE Len(q) # BufferSize
  BY <1>1, <1>2, AppendItems DEF Enqueued
<1>3. CASE Len(q) = BufferSize
  <2>1. q # <<>>
    BY <1>1, <1>3
  <2>2. /\ Head(q) \in Items(q)
        /\ Tail(q) \in Seq(Event) /\ Len(Tail(q)) = Len(q) - 1
        /\ Items(Tail(q)) = Items(q) \ {Head(q)}
        /\ \A k \in Items(Tail(q)) : Head(q) < k
        /\ Increasing(Tail(q))
    BY <2>1, TailItems
  <2>3. \A k \in Items(Tail(q)) : k < e
    BY <2>2
  <2>4. /\ Append(Tail(q), e) \in Seq(Event)
        /\ Len(Append(Tail(q), e)) = Len(Tail(q)) + 1
        /\ Items(Append(Tail(q), e)) = Items(Tail(q)) \cup {e}
        /\ Increasing(Append(Tail(q), e))
    BY <2>2, <2>3, AppendItems
  <2> QED
    BY <1>1, <1>3, <2>2, <2>4 DEF Enqueued
<1> QED
  BY <1>2, <1>3

LEMMA EnqueuedType ==
  ASSUME NEW q \in Seq(Event), NEW e \in Event, Len(q) <= BufferSize
  PROVE  Enqueued(q, e) \in Seq(Event) /\ Len(Enqueued(q, e)) <= BufferSize
<1>1. BufferSize \in Nat \ {0} /\ Len(q) \in Nat
  BY BrokerAssumption
<1>2. Append(q, e) \in Seq(Event) /\ Len(Append(q, e)) = Len(q) + 1
  OBVIOUS
<1>3. CASE Len(q) = BufferSize
  <2>1. Tail(q) \in Seq(Event) /\ Len(Tail(q)) = Len(q) - 1
    BY <1>1, <1>3
  <2>2. Append(Tail(q), e) \in Seq(Event)
        /\ Len(Append(Tail(q), e)) = Len(Tail(q)) + 1
    BY <2>1
  <2> QED
    BY <1>1, <1>3, <2>1, <2>2 DEF Enqueued
<1> QED
  BY <1>1, <1>2, <1>3 DEF Enqueued

-----------------------------------------------------------------------------
(* Types.                                                                  *)

LEMMA InitType == Init => TypeOK
  BY BrokerAssumption, EmptySeq DEF Init, TypeOK

(* What publishing does to each subscription.                              *)
LEMMA PublishStep ==
  ASSUME TypeOK, NEW t \in Topics, Publish(t)
  PROVE  LET e == published + 1
         IN /\ e \in Event /\ published' = e
            /\ UNCHANGED <<patterns, status, listed, reader, held>>
            /\ queue' \in [Subs -> Seq(Event)]
            /\ \A s \in Subs : Len(queue'[s]) <= BufferSize
            /\ overflow' \in [Subs -> Nat] /\ count' \in [Subs -> Nat]
            /\ due' \in [Subs -> SUBSET Event]
            /\ \A s \in Subs :
                 IF Receives(s, t)
                   THEN /\ queue'[s] = Enqueued(queue[s], e)
                        /\ due'[s] = due[s] \cup {e}
                        /\ Full(s) => /\ count'[s] = count[s] + 1
                                      /\ overflow'[s] # 0
                                      /\ overflow'[s] \in {overflow[s],
                                                           count[s] + 1}
                        /\ ~Full(s) => count'[s] = count[s]
                                       /\ overflow'[s] = overflow[s]
                   ELSE /\ queue'[s] = queue[s] /\ due'[s] = due[s]
                        /\ count'[s] = count[s] /\ overflow'[s] = overflow[s]
<1> DEFINE e    == published + 1
           To   == {s \in Subs : Receives(s, t)}
           Over == {s \in To : Full(s)}
<1>1. published < MaxEvents /\ published \in 0..MaxEvents /\ MaxEvents \in Nat
  BY BrokerAssumption DEF Publish, TypeOK
<1>2. e \in Event /\ published' = e
      /\ UNCHANGED <<patterns, status, listed, reader, held>>
  BY <1>1 DEF Publish, Event
<1>3. queue' = [s \in Subs |-> IF s \in To THEN Enqueued(queue[s], e)
                                          ELSE queue[s]]
  BY DEF Publish
<1>4. \A s \in Subs : /\ queue[s] \in Seq(Event) /\ Len(queue[s]) <= BufferSize
                      /\ Enqueued(queue[s], e) \in Seq(Event)
                      /\ Len(Enqueued(queue[s], e)) <= BufferSize
  BY <1>2, EnqueuedType DEF TypeOK
<1>5. due' = [s \in Subs |-> IF s \in To THEN due[s] \cup {e} ELSE due[s]]
  BY DEF Publish
<1>6. /\ count' = [s \in Subs |-> IF s \in Over THEN count[s] + 1
                                                ELSE count[s]]
      /\ overflow' = [s \in Subs |->
                        IF s \in Over
                          THEN Materialized(overflow[s], count[s] + 1)
                          ELSE overflow[s]]
  BY DEF Publish
<1>7. \A s \in Subs : /\ count[s] \in Nat /\ overflow[s] \in Nat
                      /\ due[s] \subseteq Event
                      /\ Materialized(overflow[s], count[s] + 1) \in Nat \ {0}
                      /\ Materialized(overflow[s], count[s] + 1)
                           \in {overflow[s], count[s] + 1}
  BY DEF TypeOK, Materialized
<1> HIDE DEF e
<1>8. queue' \in [Subs -> Seq(Event)]
      /\ \A s \in Subs : Len(queue'[s]) <= BufferSize
  BY <1>3, <1>4
<1>9. due' \in [Subs -> SUBSET Event]
  BY <1>2, <1>5, <1>7
<1>10. count' \in [Subs -> Nat] /\ overflow' \in [Subs -> Nat]
  BY <1>6, <1>7
<1>11. ASSUME NEW s \in Subs
       PROVE  IF Receives(s, t)
                THEN /\ queue'[s] = Enqueued(queue[s], e)
                     /\ due'[s] = due[s] \cup {e}
                     /\ Full(s) => /\ count'[s] = count[s] + 1
                                   /\ overflow'[s] # 0
                                   /\ overflow'[s] \in {overflow[s],
                                                        count[s] + 1}
                     /\ ~Full(s) => count'[s] = count[s]
                                    /\ overflow'[s] = overflow[s]
                ELSE /\ queue'[s] = queue[s] /\ due'[s] = due[s]
                     /\ count'[s] = count[s] /\ overflow'[s] = overflow[s]
  BY <1>3, <1>5, <1>6, <1>7
<1> QED
  BY <1>2, <1>8, <1>9, <1>10, <1>11 DEF e

LEMMA GetType ==
  ASSUME TypeOK, NEW s \in Subs, Get(s)
  PROVE  TypeOK'
<1>1. CASE GetNotice(s)
  BY <1>1 DEF GetNotice, TypeOK
<1>2. CASE GetStart(s)
  BY <1>2 DEF GetStart, TypeOK
<1>3. CASE GetPop(s)
  <2>1. /\ queue[s] \in Seq(Event) /\ queue[s] # <<>>
        /\ Len(queue[s]) <= BufferSize
    BY <1>3 DEF GetPop, TypeOK
  <2>2. /\ Head(queue[s]) \in Event /\ Tail(queue[s]) \in Seq(Event)
        /\ Len(Tail(queue[s])) <= BufferSize
    BY <2>1, BrokerAssumption
  <2> QED
    BY <1>3, <2>2 DEF GetPop, TypeOK
<1>4. CASE GetReturn(s)
  BY <1>4 DEF GetReturn, TypeOK
<1>5. CASE GetClosed(s)
  BY <1>5 DEF GetClosed, TypeOK
<1> QED
  BY <1>1, <1>2, <1>3, <1>4, <1>5 DEF Get

LEMMA NextType == TypeOK /\ [Next]_vars => TypeOK'
<1> SUFFICES ASSUME TypeOK, [Next]_vars
             PROVE  TypeOK'
  OBVIOUS
<1>1. CASE \E s \in Subs, P \in TopicLists : Subscribe(s, P)
  BY <1>1 DEF Subscribe, TypeOK
<1>2. CASE \E s \in Subs : Close(s) \/ Unsubscribe(s)
  BY <1>2 DEF Close, Unsubscribe, TypeOK
<1>3. ASSUME NEW t \in Topics, Publish(t)
      PROVE  TypeOK'
  <2>1. published' \in 0..MaxEvents
    BY <1>3, PublishStep DEF Event
  <2> QED
    BY <1>3, <2>1, PublishStep DEF TypeOK
<1>4. CASE UNCHANGED vars
  BY <1>4 DEF vars, TypeOK
<1> QED
  BY <1>1, <1>2, <1>3, <1>4, GetType DEF Next

(* Every variable keeps its type, and no buffer outgrows its capacity      *)
(* (broker.py, Subscription._enqueue).                                     *)
THEOREM TypeInvariant == Spec => []TypeOK
  BY InitType, NextType, PTL DEF Spec

-----------------------------------------------------------------------------
(* The invariant of a subscription.                                        *)

(* Only a consumer that has taken an event holds one.                      *)
Holding(s) == reader[s] # "holding" => held[s] = {}

(* Nothing has happened to a subscription before it is opened.             *)
Fresh(s) == status[s] = "new" => /\ queue[s] = <<>> /\ held[s] = {}
                                 /\ due[s] = {}
                                 /\ overflow[s] = 0 /\ count[s] = 0

(* What is owed was published.                                             *)
Numbered(s) == \A e \in due[s] : e <= published

(* InOrderOnce and LossIsAnnounced of one subscription; overflow_count is  *)
(* the number of events missed, which bounds the one announced.            *)
Ordered(s) ==
  /\ InFlight(s) \subseteq due[s]
  /\ Increasing(queue[s])
  /\ \A e \in held[s], m \in Buffered(s) : e < m
  /\ \A m \in Missing(s), k \in Buffered(s) : m < k

Announced(s) == /\ (Missing(s) # {}) <=> (overflow[s] # 0)
                /\ count[s] = Cardinality(Missing(s))
                /\ overflow[s] <= count[s]

Kept(s) == /\ Holding(s) /\ Fresh(s) /\ Numbered(s)
           /\ status[s] = "open" => Ordered(s) /\ Announced(s)

BrokerInv == TypeOK /\ \A s \in Subs : Kept(s)

(* The invariant of s depends on s alone.                                  *)
LEMMA OthersKept ==
  ASSUME NEW s \in Subs, Kept(s),
         queue'[s] = queue[s], overflow'[s] = overflow[s],
         count'[s] = count[s], reader'[s] = reader[s], held'[s] = held[s],
         due'[s] = due[s], status'[s] = status[s] \/ status'[s] = "closed",
         published' = published
  PROVE  Kept(s)'
  BY DEF Kept, Holding, Fresh, Numbered, Ordered, Announced, InFlight,
         Buffered, Missing

LEMMA InitKept == Init => BrokerInv
<1> SUFFICES ASSUME Init, NEW s \in Subs
             PROVE  Kept(s)
  BY InitType DEF BrokerInv
<1> QED
  BY DEF Init, Kept, Holding, Fresh, Numbered

(* Publishing: the new event is newer than all that is owed; from a full   *)
(* buffer the oldest goes, and is announced.                               *)
LEMMA PublishKept ==
  ASSUME BrokerInv, NEW t \in Topics, Publish(t), NEW s \in Subs
  PROVE  Kept(s)'
<1> DEFINE e == published + 1
           h == Head(queue[s])
<1>1. /\ TypeOK /\ Kept(s)
      /\ published \in Nat /\ e \in Nat /\ published < e
  BY DEF BrokerInv, TypeOK
<1>2. /\ e \in Event /\ published' = e
      /\ reader' = reader /\ held' = held /\ status' = status
  BY <1>1, PublishStep
<1>3. /\ queue[s] \in Seq(Event) /\ Len(queue[s]) <= BufferSize
      /\ due[s] \subseteq Event /\ held[s] \subseteq Event
      /\ count[s] \in Nat /\ overflow[s] \in Nat /\ Event \subseteq Nat
  BY <1>1, BrokerAssumption DEF TypeOK, Event
<1>4. ASSUME NEW n \in due[s]
      PROVE  n \in Nat /\ n < e /\ n <= e /\ n # e
  <2>1. n \in Nat /\ n <= published
    BY <1>1, <1>3 DEF Kept, Numbered
  <2> QED
    BY <1>1, <2>1
<1>5. CASE ~Receives(s, t)
  <2>1. /\ queue'[s] = queue[s] /\ due'[s] = due[s]
        /\ count'[s] = count[s] /\ overflow'[s] = overflow[s]
    BY <1>1, <1>5, PublishStep
  <2>2. Numbered(s)'
    BY <1>2, <1>4, <2>1 DEF Numbered
  <2>3. /\ Holding(s)' /\ Fresh(s)'
        /\ status'[s] = "open" => Ordered(s)' /\ Announced(s)'
    BY <1>1, <1>2, <2>1 DEF Kept, Holding, Fresh, Ordered, Announced,
                            InFlight, Buffered, Missing
  <2> QED
    BY <2>2, <2>3 DEF Kept
<1>6. CASE Receives(s, t)
  <2>1. /\ status[s] = "open" /\ Ordered(s) /\ Announced(s)
        /\ Holding(s) /\ Numbered(s)
    BY <1>1, <1>6 DEF Receives, Kept
  <2>2. /\ queue'[s] = Enqueued(queue[s], e)
        /\ due'[s] = due[s] \cup {e}
        /\ Full(s) => /\ count'[s] = count[s] + 1 /\ overflow'[s] # 0
                      /\ overflow'[s] \in {overflow[s], count[s] + 1}
        /\ ~Full(s) => count'[s] = count[s] /\ overflow'[s] = overflow[s]
    BY <1>1, <1>6, PublishStep
  <2>3. /\ \A n \in due[s] : n < e
        /\ e \notin due[s]
    BY <1>4
  <2>4. \A n \in due'[s] : n <= e
    BY <1>1, <1>4, <2>2
  <2>5. /\ Items(queue[s]) = Buffered(s) /\ Increasing(queue[s])
        /\ InFlight(s) \subseteq due[s]
        /\ \A n \in held[s], m \in Buffered(s) : n < m
        /\ \A m \in Missing(s), k \in Buffered(s) : m < k
    BY <2>1 DEF Ordered, Items, Buffered
  <2>6. \A k \in Items(queue[s]) : k < e
    BY <2>3, <2>5 DEF InFlight
  <2>7. Buffered(s)' = Items(queue'[s]) /\ Increasing(queue'[s])
    BY <1>2, <1>3, <2>2, <2>5, <2>6, EnqueuedItems DEF Items, Buffered
  <2>8. Holding(s)' /\ Fresh(s)' /\ Numbered(s)'
    BY <1>2, <2>1, <2>4 DEF Holding, Fresh, Numbered
  <2>9. CASE ~Full(s)
    <3>1. Buffered(s)' = Buffered(s) \cup {e}
      BY <1>2, <1>3, <2>2, <2>5, <2>6, <2>7, <2>9, EnqueuedItems DEF Full
    <3>2. InFlight(s)' = InFlight(s) \cup {e} /\ Missing(s)' = Missing(s)
      BY <1>2, <2>2, <2>3, <3>1 DEF InFlight, Missing
    <3>3. Ordered(s)'
      <4>1. \A n \in held[s] : n < e
        BY <2>3, <2>5 DEF InFlight
      <4>2. \A m \in Missing(s) : m < e
        BY <2>3 DEF Missing
      <4>3. \A n \in held'[s], m \in Buffered(s)' : n < m
        BY <1>2, <2>5, <3>1, <4>1
      <4>4. \A m \in Missing(s)', k \in Buffered(s)' : m < k
        BY <2>5, <3>1, <3>2, <4>2
      <4>5. InFlight(s)' \subseteq due'[s]
        BY <2>2, <2>5, <3>2
      <4> QED
        BY <2>7, <4>3, <4>4, <4>5 DEF Ordered, Increasing
    <3>4. Announced(s)'
      BY <2>1, <2>2, <2>9, <3>2 DEF Announced
    <3> QED
      BY <2>8, <3>3, <3>4 DEF Kept
  <2>10. CASE Full(s)
    <3>1. /\ Buffered(s)' = (Buffered(s) \ {h}) \cup {e}
          /\ h \in Buffered(s)
          /\ \A k \in Buffered(s) \ {h} : h < k
      BY <1>2, <1>3, <2>2, <2>5, <2>6, <2>7, <2>10, EnqueuedItems DEF Full
    <3>2. h \in due[s] /\ h \in Nat
      BY <1>3, <2>5, <3>1 DEF InFlight
    <3>3. h \notin held[s] /\ h \notin Missing(s)
      BY <2>5, <3>1, <3>2 DEF Missing, InFlight
    <3>4. h < e /\ h # e
      BY <2>3, <3>2
    <3>5. e \notin held[s] /\ e \notin Buffered(s)
      BY <2>3, <2>5 DEF InFlight
    <3> HIDE DEF h, e
    <3>6. /\ InFlight(s)' = (InFlight(s) \ {h}) \cup {e}
          /\ Missing(s)' = Missing(s) \cup {h}
      <4>1. held'[s] = held[s]
        BY <1>2
      <4>2. InFlight(s)' = (InFlight(s) \ {h}) \cup {e}
        BY <3>1, <3>3, <4>1 DEF InFlight
      <4>3. e \notin due[s]
        BY <2>3
      <4>4. Missing(s)' = (due[s] \cup {e}) \ ((InFlight(s) \ {h}) \cup {e})
        BY <2>2, <4>2 DEF Missing
      <4>5. Missing(s)' = Missing(s) \cup {h}
        BY <3>2, <4>3, <4>4 DEF Missing
      <4> QED
        BY <4>2, <4>5
    <3>7. Ordered(s)'
      <4>1. \A n \in held[s] : n < e
        BY <2>3, <2>5 DEF InFlight
      <4>2. \A m \in Missing(s) : m < e
        BY <2>3 DEF Missing
      <4>3. \A n \in held'[s], m \in Buffered(s)' : n < m
        BY <1>2, <2>5, <3>1, <4>1
      <4>4. \A m \in Missing(s)', k \in Buffered(s)' : m < k
        BY <2>5, <3>1, <3>4, <3>6, <4>2
      <4>5. InFlight(s)' \subseteq due'[s]
        BY <2>2, <2>5, <3>6
      <4> QED
        BY <2>7, <4>3, <4>4, <4>5 DEF Ordered, Increasing
    <3>8. IsFiniteSet(Missing(s))
      <4>1. IsFiniteSet(Event)
        BY BrokerAssumption, FS_Interval DEF Event
      <4>2. Missing(s) \subseteq Event
        BY <1>3 DEF Missing
      <4> QED
        BY <4>1, <4>2, FS_Subset
    <3>9. Cardinality(Missing(s)') = Cardinality(Missing(s)) + 1
      BY <3>3, <3>6, <3>8, FS_AddElement
    <3>10. overflow'[s] <= count'[s]
      BY <1>3, <2>1, <2>2, <2>10 DEF Announced
    <3>11. Announced(s)'
      BY <2>1, <2>2, <2>10, <3>6, <3>9, <3>10 DEF Announced
    <3> QED
      BY <2>8, <3>7, <3>11 DEF Kept
  <2> QED
    BY <2>9, <2>10
<1> QED
  BY <1>5, <1>6

(* The consumer's side: a notification settles what is missing; an event   *)
(* that is taken, then returned, is the oldest of those in flight.         *)
LEMMA GetKept ==
  ASSUME BrokerInv, NEW s \in Subs, Get(s)
  PROVE  Kept(s)'
<1>1. /\ TypeOK /\ Holding(s) /\ Fresh(s) /\ Numbered(s)
      /\ status[s] = "open" => Ordered(s) /\ Announced(s)
  BY DEF BrokerInv, Kept
<1>2. /\ queue \in [Subs -> Seq(Event)] /\ overflow \in [Subs -> Nat]
      /\ count \in [Subs -> Nat] /\ due \in [Subs -> SUBSET Event]
      /\ held \in [Subs -> SUBSET Event] /\ DOMAIN reader = Subs
  BY <1>1 DEF TypeOK
<1>3. CASE GetNotice(s)
  <2>1. /\ status[s] = "open" /\ Ordered(s)
        /\ overflow'[s] = 0 /\ count'[s] = 0
        /\ due'[s] = due[s] \cap InFlight(s)
        /\ UNCHANGED <<status, queue, reader, held, published>>
    BY <1>1, <1>2, <1>3 DEF GetNotice
  <2>2. InFlight(s)' = InFlight(s) /\ Buffered(s)' = Buffered(s)
    BY <2>1 DEF InFlight, Buffered
  <2>3. Missing(s)' = {}
    BY <2>1, <2>2 DEF Missing
  <2>4. Announced(s)'
    BY <2>1, <2>3, FS_EmptySet DEF Announced
  <2>5. Ordered(s)'
    BY <2>1, <2>2, <2>3 DEF Ordered, Increasing
  <2>6. Holding(s)' /\ Fresh(s)' /\ Numbered(s)'
    BY <1>1, <2>1 DEF Holding, Fresh, Numbered
  <2> QED
    BY <2>4, <2>5, <2>6 DEF Kept
<1>4. CASE GetStart(s)
  <2>1. /\ reader[s] = "idle"
        /\ UNCHANGED <<status, queue, overflow, count, held, due, published>>
    BY <1>4 DEF GetStart
  <2> QED
    BY <1>1, <2>1 DEF Kept, Holding, Fresh, Numbered, Ordered, Announced,
                      InFlight, Buffered, Missing
<1>5. CASE GetPop(s)
  <2> DEFINE h == Head(queue[s])
  <2>1. /\ reader[s] = "waiting" /\ queue[s] # <<>>
        /\ queue[s] \in Seq(Event)
        /\ held'[s] = {h} /\ queue'[s] = Tail(queue[s])
        /\ reader'[s] = "holding"
        /\ UNCHANGED <<status, overflow, count, published, due>>
    BY <1>2, <1>5 DEF GetPop
  <2>2. held[s] = {} /\ status[s] # "new"
    BY <1>1, <2>1 DEF Holding, Fresh
  <2>3. Holding(s)' /\ Fresh(s)' /\ Numbered(s)'
    BY <1>1, <2>1, <2>2 DEF Holding, Fresh, Numbered
  <2>4. ASSUME status[s] = "open"
        PROVE  Ordered(s)' /\ Announced(s)'
    <3>1. Ordered(s) /\ Announced(s) /\ Increasing(queue[s])
          /\ Items(queue[s]) = Buffered(s) /\ Items(queue'[s]) = Buffered(s)'
      BY <1>1, <2>4 DEF Ordered, Buffered, Items
    <3>2. /\ h \in Buffered(s)
          /\ Buffered(s)' = Buffered(s) \ {h}
          /\ \A k \in Buffered(s)' : h < k
          /\ Increasing(queue'[s])
      BY <2>1, <3>1, TailItems
    <3>3. InFlight(s)' = InFlight(s)
      BY <2>1, <2>2, <3>2 DEF InFlight
    <3>4. Missing(s)' = Missing(s)
      BY <2>1, <3>3 DEF Missing
    <3>5. Ordered(s)'
      BY <2>1, <3>1, <3>2, <3>3, <3>4 DEF Ordered, Increasing
    <3>6. Announced(s)'
      BY <2>1, <3>1, <3>4 DEF Announced
    <3> QED
      BY <3>5, <3>6
  <2> QED
    BY <2>1, <2>3, <2>4 DEF Kept
<1>6. CASE GetReturn(s)
  <2>1. /\ held'[s] = {} /\ due'[s] = due[s] \ held[s]
        /\ UNCHANGED <<status, queue, overflow, count, published>>
    BY <1>2, <1>6 DEF GetReturn
  <2>2. Holding(s)' /\ Fresh(s)' /\ Numbered(s)'
    BY <1>1, <2>1 DEF Holding, Fresh, Numbered
  <2>3. ASSUME status[s] = "open"
        PROVE  Ordered(s)' /\ Announced(s)'
    <3>1. /\ InFlight(s) \subseteq due[s]
          /\ Announced(s) /\ Increasing(queue[s])
          /\ \A e \in held[s], m \in Buffered(s) : e < m
          /\ \A m \in Missing(s), k \in Buffered(s) : m < k
      BY <1>1, <2>3 DEF Ordered
    <3>2. Buffered(s)' = Buffered(s) /\ InFlight(s)' = Buffered(s)
      BY <2>1 DEF Buffered, InFlight
    <3>3. Missing(s)' = Missing(s)
      BY <2>1, <3>2 DEF Missing, InFlight
    <3>4. held[s] \subseteq Nat
      BY <1>2, BrokerAssumption DEF Event
    <3>5. \A e \in held[s] : e \notin Buffered(s)
      BY <3>1, <3>4
    <3>6. InFlight(s)' \subseteq due'[s]
      BY <2>1, <3>1, <3>2, <3>5 DEF InFlight
    <3>7. Ordered(s)'
      BY <2>1, <3>1, <3>2, <3>3, <3>6 DEF Ordered, Increasing
    <3>8. Announced(s)'
      BY <2>1, <3>1, <3>3 DEF Announced
    <3> QED
      BY <3>7, <3>8
  <2> QED
    BY <2>1, <2>2, <2>3 DEF Kept
<1>7. CASE GetClosed(s)
  <2>1. /\ status[s] = "closed" /\ held'[s] = {}
        /\ UNCHANGED <<status, published, due>>
    BY <1>2, <1>7 DEF GetClosed
  <2> QED
    BY <1>1, <2>1 DEF Kept, Holding, Fresh, Numbered
<1> QED
  BY <1>3, <1>4, <1>5, <1>6, <1>7 DEF Get

LEMMA NextKept == BrokerInv /\ [Next]_vars => BrokerInv'
<1> SUFFICES ASSUME BrokerInv, [Next]_vars
             PROVE  BrokerInv'
  OBVIOUS
<1>1. TypeOK /\ TypeOK' /\ \A s \in Subs : Kept(s)
  BY NextType DEF BrokerInv
<1>2. ASSUME NEW s \in Subs
      PROVE  Kept(s)'
  <2>1. ASSUME NEW x \in Subs, NEW P \in TopicLists, Subscribe(x, P)
        PROVE  Kept(s)'
    <3>1. /\ UNCHANGED <<queue, overflow, count, reader, held, published, due>>
          /\ s # x => status'[s] = status[s]
          /\ s = x => status[s] = "new" /\ status'[s] = "open"
      BY <1>1, <2>1 DEF Subscribe, TypeOK
    <3>2. CASE s # x
      BY <1>1, <3>1, <3>2, OthersKept
    <3>3. CASE s = x
      <4>1. /\ queue'[s] = <<>> /\ held'[s] = {} /\ due'[s] = {}
            /\ overflow'[s] = 0 /\ count'[s] = 0 /\ status'[s] = "open"
        BY <1>1, <3>1, <3>3 DEF Kept, Fresh
      <4>2. Buffered(s)' = {} /\ Missing(s)' = {} /\ InFlight(s)' = {}
        BY <4>1 DEF Buffered, Missing, InFlight
      <4>3. Ordered(s)' /\ Announced(s)'
        BY <4>1, <4>2, FS_EmptySet DEF Ordered, Increasing, Announced
      <4>4. Holding(s)' /\ Fresh(s)' /\ Numbered(s)'
        BY <4>1 DEF Holding, Fresh, Numbered
      <4> QED
        BY <4>3, <4>4 DEF Kept
    <3> QED
      BY <3>2, <3>3
  <2>2. ASSUME NEW x \in Subs, Close(x) \/ Unsubscribe(x)
        PROVE  Kept(s)'
    <3>1. /\ UNCHANGED <<queue, overflow, count, reader, held, published, due>>
          /\ status'[s] = status[s] \/ status'[s] = "closed"
      BY <1>1, <2>2 DEF Close, Unsubscribe, TypeOK
    <3> QED
      BY <1>1, <3>1, OthersKept
  <2>3. ASSUME NEW x \in Subs, Get(x)
        PROVE  Kept(s)'
    <3>1. CASE s # x
      <4>1. /\ queue'[s] = queue[s] /\ overflow'[s] = overflow[s]
            /\ count'[s] = count[s] /\ reader'[s] = reader[s]
            /\ held'[s] = held[s] /\ due'[s] = due[s]
            /\ status'[s] = status[s] /\ published' = published
        BY <1>1, <2>3, <3>1 DEF Get, GetNotice, GetStart, GetPop, GetReturn,
                                GetClosed, TypeOK
      <4> QED
        BY <1>1, <4>1, OthersKept
    <3> QED
      BY <2>3, <3>1, GetKept
  <2>4. ASSUME NEW t \in Topics, Publish(t)
        PROVE  Kept(s)'
    BY <2>4, PublishKept
  <2>5. CASE UNCHANGED vars
    BY <1>1, <2>5, OthersKept DEF vars
  <2> QED
    BY <2>1, <2>2, <2>3, <2>4, <2>5 DEF Next
<1> QED
  BY <1>1, <1>2 DEF BrokerInv

(* No event published to an open subscription is lost without an overflow  *)
(* notification waiting for its consumer, none waits where nothing was     *)
(* lost, and the number it carries is at most the number lost since the    *)
(* last one (broker.py, _try_enqueue and _consume_overflow).               *)
THEOREM LossesAnnounced == Spec => []LossIsAnnounced
<1>1. BrokerInv => LossIsAnnounced
  BY DEF BrokerInv, Kept, Announced, LossIsAnnounced
<1> QED
  BY <1>1, InitKept, NextKept, PTL DEF Spec

(* What is buffered or held was published to the subscription, is handed   *)
(* out once and in publication order, and is newer than all that was       *)
(* dropped (broker.py, _try_enqueue and get).                                  *)
THEOREM DeliveredInOrder == Spec => []InOrderOnce
<1>1. BrokerInv => InOrderOnce
  BY DEF BrokerInv, Kept, Ordered, Increasing, InOrderOnce
<1> QED
  BY <1>1, InitKept, NextKept, PTL DEF Spec

=============================================================================
