---------------------------- MODULE ReflexProofs ----------------------------
(***************************************************************************)
(* Theorems about module Reflex, for any organs, buffer, length of the     *)
(* trail and number of events and faults.                                  *)
(***************************************************************************)
EXTENDS Reflex, TLAPS, FiniteSetTheorems, SequenceTheorems

(* What a sequence holds.                                                  *)
Items(s) == {s[i] : i \in DOMAIN s}

LEMMA TailItems ==
  ASSUME NEW S, NEW s \in Seq(S), s # <<>>
  PROVE  /\ Len(s) \in Nat /\ Len(s) >= 1
         /\ Head(s) \in S /\ Head(s) = s[1] /\ Head(s) \in Items(s)
         /\ Tail(s) \in Seq(S) /\ Len(Tail(s)) = Len(s) - 1
         /\ DOMAIN Tail(s) = 1..Len(s) - 1
         /\ \A i \in 1..Len(s) - 1 : Tail(s)[i] = s[i + 1]
         /\ Items(s) = Items(Tail(s)) \cup {Head(s)}
         /\ Tail(s) = <<>> => Last(s) = Head(s)
         /\ Tail(s) # <<>> => Last(Tail(s)) = Last(s)
<1>1. /\ Len(s) \in Nat /\ Len(s) >= 1 /\ DOMAIN s = 1..Len(s)
      /\ Head(s) = s[1]
      /\ Tail(s) \in Seq(S) /\ Len(Tail(s)) = Len(s) - 1
      /\ DOMAIN Tail(s) = 1..Len(s) - 1
      /\ \A i \in 1..Len(s) - 1 : Tail(s)[i] = s[i + 1]
  OBVIOUS
<1>2. 1 \in DOMAIN s /\ s[1] \in S
  BY <1>1
<1>3. Items(s) = Items(Tail(s)) \cup {Head(s)}
  <2>1. ASSUME NEW i \in DOMAIN s
        PROVE  s[i] \in Items(Tail(s)) \cup {Head(s)}
    <3>1. CASE i = 1
      BY <1>1, <3>1
    <3>2. CASE i # 1
      <4>1. i - 1 \in 1..Len(s) - 1 /\ i - 1 + 1 = i
        BY <1>1, <3>2
      <4>2. Tail(s)[i - 1] = s[i]
        BY <1>1, <4>1
      <4> QED
        BY <1>1, <4>1, <4>2 DEF Items
    <3> QED
      BY <3>1, <3>2
  <2>2. ASSUME NEW i \in DOMAIN Tail(s)
        PROVE  Tail(s)[i] \in Items(s)
    <3>1. i + 1 \in DOMAIN s /\ Tail(s)[i] = s[i + 1]
      BY <1>1
    <3> QED
      BY <3>1 DEF Items
  <2> QED
    BY <1>1, <1>2, <2>1, <2>2 DEF Items
<1>4. Tail(s) = <<>> => Last(s) = Head(s)
  <2>1. Len(<<>>) = 0
    OBVIOUS
  <2>2. PICK k \in Nat : k = Len(s)
    BY <1>1
  <2>3. Tail(s) = <<>> => k - 1 = 0
    BY <1>1, <2>1, <2>2
  <2>4. Tail(s) = <<>> => Len(s) = 1
    BY <2>2, <2>3
  <2> QED
    BY <1>1, <2>4 DEF Last
<1>5. Tail(s) # <<>> => Last(Tail(s)) = Last(s)
  <2> SUFFICES ASSUME Tail(s) # <<>>
               PROVE  Last(Tail(s)) = Last(s)
    OBVIOUS
  <2>1. Len(s) - 1 \in 1..Len(s) - 1
    BY <1>1
  <2> QED
    BY <1>1, <2>1 DEF Last
<1> QED
  BY <1>1, <1>2, <1>3, <1>4, <1>5 DEF Items

LEMMA AppendItems ==
  ASSUME NEW S, NEW s \in Seq(S), NEW x \in S
  PROVE  /\ Append(s, x) \in Seq(S) /\ Len(Append(s, x)) = Len(s) + 1
         /\ Len(s) \in Nat
         /\ DOMAIN Append(s, x) = 1..Len(s) + 1
         /\ \A i \in 1..Len(s) : Append(s, x)[i] = s[i]
         /\ Append(s, x)[Len(s) + 1] = x
         /\ Items(Append(s, x)) = Items(s) \cup {x}
         /\ Append(s, x) # <<>> /\ Last(Append(s, x)) = x
<1> DEFINE t == Append(s, x)
<1>1. /\ Len(s) \in Nat /\ DOMAIN s = 1..Len(s)
      /\ t \in Seq(S) /\ Len(t) = Len(s) + 1
      /\ DOMAIN t = 1..Len(s) + 1
      /\ \A i \in 1..Len(s) : t[i] = s[i]
      /\ t[Len(s) + 1] = x /\ t # <<>>
  OBVIOUS
<1> HIDE DEF t
<1>2. Items(t) = Items(s) \cup {x}
  <2>1. \A i \in DOMAIN t : i \in DOMAIN s \/ i = Len(s) + 1
    BY <1>1
  <2>2. Len(s) + 1 \in DOMAIN t /\ \A i \in DOMAIN s : i \in DOMAIN t
    BY <1>1
  <2> QED
    BY <1>1, <2>1, <2>2 DEF Items
<1> QED
  BY <1>1, <1>2 DEF t, Last

(* A sequence of one element, or of none.                                  *)
LEMMA SeqOfFew ==
  /\ SetToSeq({}) = <<>>
  /\ \A x : SetToSeq({x}) = <<x>>
<1>1. SetToSeq({}) = <<>>
  <2>1. Cardinality({}) = 0
    BY FS_EmptySet
  <2>2. <<>> \in [1..0 -> {}] /\ IsInjective(<<>>)
    BY DEF IsInjective
  <2>3. \A f \in [1..0 -> {}] : f = <<>>
    OBVIOUS
  <2> QED
    BY <2>1, <2>2, <2>3 DEF SetToSeq
<1>2. ASSUME NEW x
      PROVE  SetToSeq({x}) = <<x>>
  <2>1. Cardinality({x}) = 1
    BY FS_Singleton
  <2>2. <<x>> \in [1..1 -> {x}] /\ IsInjective(<<x>>)
    BY DEF IsInjective
  <2>3. \A f \in [1..1 -> {x}] : f = <<x>>
    <3> SUFFICES ASSUME NEW f \in [1..1 -> {x}]
                 PROVE  f = <<x>>
      OBVIOUS
    <3>1. DOMAIN f = {1} /\ f[1] = x
      OBVIOUS
    <3>2. DOMAIN <<x>> = {1} /\ <<x>>[1] = x
      OBVIOUS
    <3>3. f = [i \in {1} |-> f[i]] /\ <<x>> = [i \in {1} |-> <<x>>[i]]
      BY <3>1, <3>2
    <3> QED
      BY <3>1, <3>2, <3>3
  <2> QED
    BY <2>1, <2>2, <2>3 DEF SetToSeq
<1> QED
  BY <1>1, <1>2

-----------------------------------------------------------------------------
(* The rules.  No event has two commands for one organ; only the shim is   *)
(* told to lock; nobody but the operator starts the vault; PURGE is no     *)
(* organ.                                                                  *)
LEMMA RulesOf ==
  ASSUME NEW l \in Loops, NEW topic \in Topics(l), NEW c \in Rules(topic)
  PROVE  /\ c \in Command
         /\ \A d \in Rules(topic) : d.organ = c.organ => d = c
         /\ c.organ # "purge" =>
              c.verb \in IF c.organ = "shim" THEN {"lock"}
                                             ELSE {"start", "stop"}
         /\ c.organ = "purge" => c.verb = "trigger"
         /\ c.organ = "vault" => c.verb = "stop"
         /\ l = "relay" => c.organ # "shim"
         /\ l = "escalation" => c.organ \in {"shim", "vault", "purge"}
<1>1. \/ /\ l = "relay"
         /\ topic \in {"detected", "cleared", "absent", "recovered"}
      \/ /\ l = "escalation"
         /\ topic \in {"lock_screen", "lock_vaults", "trigger_purge"}
  <2>1. CASE l = "relay"
    BY <2>1 DEF Topics
  <2>2. CASE l = "escalation"
    BY <2>2 DEF Topics
  <2> QED
    BY <2>1, <2>2 DEF Loops
<1>2. CASE topic = "detected"
  BY <1>1, <1>2 DEF Rules, On, Command, AllOrgans, Verb
<1>3. CASE topic \in {"cleared", "recovered"}
  BY <1>1, <1>3 DEF Rules, On, Command, AllOrgans, Verb
<1>4. CASE topic \in {"absent", "lock_vaults"}
  BY <1>1, <1>4 DEF Rules, On, Command, AllOrgans, Verb
<1>5. CASE topic = "lock_screen"
  BY <1>1, <1>5 DEF Rules, On, Command, AllOrgans, Verb
<1>6. CASE topic = "trigger_purge"
  BY <1>1, <1>6 DEF Rules, On, Command, AllOrgans, Verb
<1> QED
  BY <1>1, <1>2, <1>3, <1>4, <1>5, <1>6

LEMMA TargetsOf ==
  ASSUME NEW l \in Loops, NEW topic \in Topics(l), NEW o \in Organs
  PROVE  \/ VerbFor(o, topic) = {} /\ \A c \in Targets(topic) : c.organ # o
         \/ \E c \in Targets(topic) :
              /\ c \in Rules(topic) /\ c \in Command
              /\ c.organ = o /\ VerbFor(o, topic) = {c.verb}
              /\ \A d \in Targets(topic) : d.organ = o => d = c
<1>1. CASE \A c \in Targets(topic) : c.organ # o
  BY <1>1 DEF VerbFor
<1>2. ASSUME NEW c \in Targets(topic), c.organ = o
      PROVE  /\ c \in Rules(topic) /\ c \in Command
             /\ VerbFor(o, topic) = {c.verb}
             /\ \A d \in Targets(topic) : d.organ = o => d = c
  <2>1. c \in Rules(topic) /\ Targets(topic) \subseteq Rules(topic)
    BY DEF Targets
  <2>2. c \in Command /\ \A d \in Targets(topic) : d.organ = o => d = c
    BY <1>2, <2>1, RulesOf
  <2>3. VerbFor(o, topic) = {c.verb}
    BY <1>2, <2>2 DEF VerbFor
  <2> QED
    BY <2>1, <2>2, <2>3
<1> QED
  BY <1>1, <1>2

-----------------------------------------------------------------------------
(* Where a command lies, and where an event.                               *)

(* Commands wait only for an organ that is attached, and are its own.      *)
Addressed ==
  \A o \in Organs :
    /\ o \notin up => inbox[o] = <<>>
    /\ \A a \in Items(inbox[o]) :
         /\ a.cmd.organ = o
         /\ a.cmd.verb \in IF o = "shim" THEN {"lock"} ELSE {"start", "stop"}

(* A subscription holds the last events published, without a gap.          *)
Passed(l) == published[l] - Len(queue[l])

InTurn ==
  \A l \in Loops : \A i \in DOMAIN queue[l] :
    /\ queue[l][i].loop = l
    /\ queue[l][i].topic \in Topics(l)
    /\ queue[l][i].n = Passed(l) + i

Placed == TypeOK /\ Addressed /\ InTurn

(* The commands of an event.                                               *)
ActsOf(l, e) == {[loop |-> l, n |-> e.n, cmd |-> c] : c \in Targets(e.topic)}

LEMMA TakeStep ==
  ASSUME Placed, NEW l \in Loops, Take(l)
  PROVE  LET e == Head(queue[l])
             new == ActsOf(l, e)
         IN /\ queue[l] # <<>> /\ queue[l] \in Seq(Event)
            /\ queue' = [queue EXCEPT ![l] = Tail(@)]
            /\ e \in Event /\ e.loop = l /\ e.topic \in Topics(l)
            /\ e.n = Passed(l) + 1 /\ e \in Items(queue[l])
            /\ Of(l) = {}
            /\ new \subseteq Act
            /\ \A a \in new : a.loop = l /\ a.n = e.n
            /\ DOMAIN calls' = DOMAIN calls \cup new
            /\ \A a \in new :
                 calls'[a] \in {"drain", "sent", "error", "refused"}
            /\ \A a \in DOMAIN calls \ new : calls'[a] = calls[a]
            /\ DOMAIN inbox' = Organs
            /\ \A o \in Organs :
                 \/ /\ inbox'[o] = inbox[o]
                    /\ o \in up => VerbFor(o, e.topic) = {}
                 \/ \E a \in new :
                      /\ o \in up
                      /\ a.cmd \in Rules(e.topic) /\ a.cmd.organ = o
                      /\ VerbFor(o, e.topic) = {a.cmd.verb}
                      /\ inbox'[o] = Append(inbox[o], a)
            /\ UNCHANGED <<up, active, trail, published, wanted, steady, done,
                           lost, faults>>
<1> DEFINE e == Head(queue[l])
           new == ActsOf(l, e)
           For(o) == {a \in new : a.cmd.organ = o}
<1>1. /\ queue[l] # <<>> /\ Of(l) = {}
      /\ queue' = [queue EXCEPT ![l] = Tail(@)]
      /\ UNCHANGED <<up, active, trail, published, wanted, steady, done,
                     lost, faults>>
  BY DEF Take
<1>2. /\ queue[l] \in Seq(Event)
      /\ \A o \in Organs : inbox[o] \in Seq(Act \cup {Operator})
  BY DEF Placed, TypeOK
<1>3. /\ e \in Event /\ e = queue[l][1] /\ e \in Items(queue[l])
      /\ 1 \in DOMAIN queue[l]
  BY <1>1, <1>2, TailItems
<1>4. e.loop = l /\ e.topic \in Topics(l) /\ e.n = Passed(l) + 1
  BY <1>3 DEF Placed, InTurn
<1>5. /\ DOMAIN calls' = DOMAIN calls \cup new
      /\ \A a \in new : calls'[a] \in {"drain", "sent", "error", "refused"}
      /\ \A a \in DOMAIN calls \ new : calls'[a] = calls[a]
      /\ inbox' = [o \in Organs |-> IF o \in up
                                      THEN inbox[o] \o SetToSeq(For(o))
                                      ELSE inbox[o]]
  <2>1. PICK full \in SUBSET (up \cap MayFill) : Send(l, e, full)
    BY DEF Take
  <2>2. calls' = [a \in DOMAIN calls \cup new |->
                    IF a \in new THEN Sent(a, full) ELSE calls[a]]
    BY <2>1 DEF Send, ActsOf
  <2>3. \A a \in new : Sent(a, full) \in {"drain", "sent", "error", "refused"}
    BY DEF Sent
  <2>4. inbox' = [o \in Organs |-> IF o \in up
                                      THEN inbox[o] \o SetToSeq(For(o))
                                      ELSE inbox[o]]
    BY <2>1 DEF Send, ActsOf
  <2> QED
    BY <2>2, <2>3, <2>4
<1>6. inbox' = [o \in Organs |-> IF o \in up
                                   THEN inbox[o] \o SetToSeq(For(o))
                                   ELSE inbox[o]]
  BY <1>5
<1>7. e.n \in 1..MaxEvents
  BY <1>3 DEF Event
<1> HIDE DEF e
<1>8. ASSUME NEW a \in new
      PROVE  /\ a \in Act /\ a.loop = l /\ a.n = e.n
             /\ a.cmd \in Targets(e.topic) /\ a.cmd \in Rules(e.topic)
  <2>1. PICK c \in Targets(e.topic) : a = [loop |-> l, n |-> e.n, cmd |-> c]
    BY DEF ActsOf
  <2>2. c \in Rules(e.topic) /\ c \in Command
    BY <1>4, RulesOf DEF Targets
  <2> QED
    BY <1>7, <2>1, <2>2 DEF Act
<1>9. \A a \in new : calls'[a] \in {"drain", "sent", "error", "refused"}
  BY <1>5
<1>10. ASSUME NEW o \in Organs
       PROVE  \/ /\ inbox'[o] = inbox[o]
                 /\ o \in up => VerbFor(o, e.topic) = {}
              \/ \E a \in new :
                   /\ o \in up
                   /\ a.cmd \in Rules(e.topic) /\ a.cmd.organ = o
                   /\ VerbFor(o, e.topic) = {a.cmd.verb}
                   /\ inbox'[o] = Append(inbox[o], a)
  <2>1. CASE o \notin up
    BY <1>6, <2>1
  <2>2. CASE o \in up /\ VerbFor(o, e.topic) = {}
    <3>1. \A c \in Targets(e.topic) : c.organ # o
      BY <1>4, <2>2, TargetsOf
    <3>2. For(o) = {}
      BY <1>8, <3>1
    <3>3. inbox'[o] = inbox[o] \o <<>>
      BY <1>6, <2>2, <3>2, SeqOfFew
    <3> QED
      BY <1>2, <2>2, <3>3
  <2>3. CASE o \in up /\ VerbFor(o, e.topic) # {}
    <3>1. PICK c \in Targets(e.topic) :
            /\ c \in Rules(e.topic) /\ c.organ = o
            /\ VerbFor(o, e.topic) = {c.verb}
            /\ \A d \in Targets(e.topic) : d.organ = o => d = c
      BY <1>4, <2>3, TargetsOf
    <3> DEFINE a == [loop |-> l, n |-> e.n, cmd |-> c]
    <3>2. a \in new /\ a.cmd = c
      BY DEF ActsOf
    <3>3. For(o) = {a}
      <4>1. \A b \in new : b.cmd.organ = o => b = a
        <5> SUFFICES ASSUME NEW d \in Targets(e.topic), d.organ = o
                     PROVE  [loop |-> l, n |-> e.n, cmd |-> d] = a
          BY DEF ActsOf
        <5> QED
          BY <3>1
      <4> QED
        BY <3>1, <3>2, <4>1
    <3>4. inbox'[o] = inbox[o] \o <<a>>
      BY <1>6, <2>3, <3>3, SeqOfFew
    <3>5. a \in Act
      BY <1>8, <3>2
    <3>6. inbox[o] \o <<a>> = Append(inbox[o], a)
      BY <1>2, <3>5
    <3> QED
      BY <2>3, <3>1, <3>2, <3>4, <3>6
  <2> QED
    BY <2>1, <2>2, <2>3
<1>11. DOMAIN calls' = DOMAIN calls \cup new
       /\ \A a \in DOMAIN calls \ new : calls'[a] = calls[a]
  BY <1>5
<1> QED
  BY <1>1, <1>2, <1>3, <1>4, <1>6, <1>8, <1>9, <1>10, <1>11 DEF e

-----------------------------------------------------------------------------
(* Types, addresses and the order of the events.                           *)

LEMMA OperatorIsNoAct == Operator \notin Act /\ Operator.n = 0
                         /\ \A a \in Act : a.n \in Nat /\ a.n > 0
  BY ReflexAssumption DEF Operator, Act

LEMMA InitPlaced == Init => Placed
<1> SUFFICES ASSUME Init
             PROVE  Placed
  OBVIOUS
<1>1. TypeOK
  BY ReflexAssumption, EmptySeq DEF Init, TypeOK, Nothing, Verb
<1>2. Addressed
  BY DEF Init, Addressed, Items
<1>3. InTurn
  BY DEF Init, InTurn
<1> QED
  BY <1>1, <1>2, <1>3 DEF Placed

(* A queue after an event is offered to it.                                *)
LEMMA OfferedType ==
  ASSUME NEW q \in Seq(Event), Len(q) <= Buffer, NEW e \in Event
  PROVE  /\ Len(q) \in Nat
         /\ Offered(q, e) \in Seq(Event) /\ Len(Offered(q, e)) <= Buffer
         /\ Len(Offered(q, e)) \in Nat
         /\ Offered(q, e)[Len(Offered(q, e))] = e
         /\ \/ /\ Len(q) < Buffer /\ Len(Offered(q, e)) = Len(q) + 1
               /\ \A i \in 1..Len(q) : Offered(q, e)[i] = q[i]
            \/ /\ Len(q) = Buffer /\ Len(Offered(q, e)) = Len(q)
               /\ \A i \in 1..Len(q) - 1 : Offered(q, e)[i] = q[i + 1]
         /\ Len(Offered(q, e)) >= 1
         /\ DOMAIN Offered(q, e) = 1..Len(Offered(q, e))
<1>1. Buffer \in Nat /\ Buffer >= 1 /\ Len(q) \in Nat
  BY ReflexAssumption
<1>2. CASE Len(q) < Buffer
  BY <1>1, <1>2, AppendItems DEF Offered
<1>3. CASE Len(q) = Buffer
  <2>1. q # <<>>
    BY <1>1, <1>3
  <2>2. /\ Tail(q) \in Seq(Event) /\ Len(Tail(q)) = Buffer - 1
        /\ \A i \in 1..Len(q) - 1 : Tail(q)[i] = q[i + 1]
    BY <1>3, <2>1, TailItems
  <2>3. Offered(q, e) = Append(Tail(q), e)
    BY <1>1, <1>3 DEF Offered
  <2>4. /\ Offered(q, e) \in Seq(Event) /\ Len(Offered(q, e)) = Buffer
        /\ DOMAIN Offered(q, e) = 1..Buffer
        /\ \A i \in 1..Buffer - 1 : Offered(q, e)[i] = Tail(q)[i]
        /\ Offered(q, e)[Buffer] = e
    BY <1>1, <2>2, <2>3, AppendItems
  <2> QED
    BY <1>1, <1>3, <2>2, <2>4
<1> QED
  BY <1>1, <1>2, <1>3

LEMMA PublishPlaced ==
  ASSUME Placed, NEW l \in Loops, NEW topic \in Topics(l), Publish(l, topic)
  PROVE  Placed'
<1> DEFINE n == published[l] + 1
           e == [loop |-> l, n |-> n, topic |-> topic]
           told == {o \in Organs : l = "relay" /\ VerbFor(o, topic) # {}}
<1>1. TypeOK /\ Addressed /\ InTurn
  BY DEF Placed
<1>2. /\ published["relay"] + published["escalation"] < MaxEvents
      /\ published' = [published EXCEPT ![l] = n]
      /\ queue' = [queue EXCEPT ![l] = Offered(@, e)]
      /\ wanted' = [o \in Organs |->
                      IF o \in told
                        THEN [at |-> n, verb |-> CHOOSE v \in Verb :
                                                   v \in VerbFor(o, topic)]
                        ELSE wanted[o]]
      /\ steady' = (steady \ told) \cup (told \cap up)
      /\ UNCHANGED <<calls, up, inbox, active, trail, done, lost, faults>>
  BY DEF Publish
<1>3. /\ published \in [Loops -> 0..MaxEvents] /\ MaxEvents \in Nat
      /\ queue \in [Loops -> Seq(Event)] /\ Len(queue[l]) <= Buffer
      /\ wanted \in [Organs -> [at : 0..MaxEvents, verb : Verb]]
  BY <1>1, ReflexAssumption DEF TypeOK
<1>4. n \in 1..MaxEvents /\ n \in Nat /\ published[l] \in Nat
  <2>1. published["relay"] \in Nat /\ published["escalation"] \in Nat
    BY <1>3 DEF Loops
  <2> QED
    BY <1>2, <1>3, <2>1 DEF Loops
<1>5. topic \in Topics("relay") \cup Topics("escalation")
  BY DEF Loops
<1> HIDE DEF n
<1>6. e \in Event
  BY <1>4, <1>5 DEF Event
<1>7. TypeOK'
  <2>1. published' \in [Loops -> 0..MaxEvents]
    BY <1>2, <1>3, <1>4
  <2>2. queue' \in [Loops -> Seq(Event)]
        /\ \A k \in Loops : Len(queue'[k]) <= Buffer
    BY <1>1, <1>2, <1>3, <1>6, OfferedType DEF TypeOK
  <2>3. \A o \in told : (CHOOSE v \in Verb : v \in VerbFor(o, topic)) \in Verb
    <3>1. ASSUME NEW o \in told
          PROVE  \E v \in Verb : v \in VerbFor(o, topic)
      <4>1. PICK c \in Targets(topic) : c \in Command
                                        /\ VerbFor(o, topic) = {c.verb}
        BY <3>1, TargetsOf
      <4> QED
        BY <4>1 DEF Command
    <3> QED
      BY <3>1
  <2>4. wanted' \in [Organs -> [at : 0..MaxEvents, verb : Verb]]
    <3> SUFFICES ASSUME NEW o \in Organs
                 PROVE  wanted'[o] \in [at : 0..MaxEvents, verb : Verb]
      BY <1>2
    <3>1. CASE o \in told
      <4> DEFINE v == CHOOSE v \in Verb : v \in VerbFor(o, topic)
      <4>1. v \in Verb
        BY <2>3, <3>1
      <4>2. wanted'[o] = [at |-> n, verb |-> v]
        BY <1>2, <3>1
      <4> HIDE DEF v
      <4> QED
        BY <1>3, <1>4, <4>1, <4>2
    <3>2. CASE o \notin told
      BY <1>2, <1>3, <3>2
    <3> QED
      BY <3>1, <3>2
  <2>5. steady' \subseteq up'
    BY <1>1, <1>2 DEF TypeOK
  <2> QED
    BY <1>1, <1>2, <2>1, <2>2, <2>4, <2>5 DEF TypeOK
<1>8. Addressed'
  BY <1>1, <1>2 DEF Addressed
<1>9. InTurn'
  <2> SUFFICES ASSUME NEW k \in Loops, NEW i \in DOMAIN queue'[k]
               PROVE  /\ queue'[k][i].loop = k
                      /\ queue'[k][i].topic \in Topics(k)
                      /\ queue'[k][i].n = published'[k] - Len(queue'[k]) + i
    BY DEF InTurn, Passed
  <2>1. CASE k # l
    <3>1. queue'[k] = queue[k] /\ published'[k] = published[k]
      BY <1>2, <1>3, <2>1
    <3> QED
      BY <1>1, <3>1 DEF InTurn, Passed
  <2>2. CASE k = l
    <3> DEFINE q == queue[l]
               r == Offered(q, e)
    <3>1. queue'[l] = r /\ published'[l] = n
      BY <1>2, <1>3
    <3>2. q \in Seq(Event) /\ DOMAIN q = 1..Len(q)
      BY <1>3
    <3>3. \A j \in 1..Len(q) : q[j].loop = l /\ q[j].topic \in Topics(l)
                               /\ q[j].n = published[l] - Len(q) + j
      BY <1>1, <3>2 DEF InTurn, Passed
    <3>4. /\ Len(q) \in Nat /\ Len(r) \in Nat /\ DOMAIN r = 1..Len(r)
          /\ r[Len(r)] = e
          /\ \/ /\ Len(r) = Len(q) + 1
                /\ \A j \in 1..Len(q) : r[j] = q[j]
             \/ /\ Len(r) = Len(q)
                /\ \A j \in 1..Len(q) - 1 : r[j] = q[j + 1]
      BY <1>3, <1>6, OfferedType
    <3>5. PICK a \in Nat : a = Len(q)
      BY <3>4
    <3>6. PICK b \in Nat : b = Len(r)
      BY <3>4
    <3>7. PICK p \in Nat : p = published[l] /\ n = p + 1
      BY <1>4 DEF n
    <3> HIDE DEF r, q
    <3>8. i \in 1..b /\ queue'[k][i] = r[i] /\ published'[k] = n
          /\ Len(queue'[k]) = b
      BY <2>2, <3>1, <3>4, <3>6
    <3>9. CASE i = b
      <4>1. r[i] = e
        BY <3>4, <3>6, <3>9
      <4>2. n - b + i = n
        BY <3>6, <3>7, <3>9
      <4>3. e.loop = l /\ e.topic = topic /\ e.n = n
        OBVIOUS
      <4> QED
        BY <2>2, <3>8, <4>1, <4>2, <4>3
    <3>10. CASE i # b /\ b = a + 1 /\ r[i] = q[i]
      <4>0. PICK j \in 1..b : j = i
        BY <3>8
      <4>1. i \in 1..a /\ p - a + i = n - b + i
        <5>1. j \in 1..a
          BY <3>5, <3>6, <3>10, <4>0
        <5>2. b = a + 1
          BY <3>10
        <5>3. p - a + j = p + 1 - b + j
          BY <5>2
        <5> QED
          BY <3>7, <4>0, <5>1, <5>3
      <4>2. /\ q[i].loop = l /\ q[i].topic \in Topics(l)
            /\ q[i].n = p - a + i
        BY <3>3, <3>5, <3>7, <4>1
      <4> QED
        BY <2>2, <3>8, <3>10, <4>1, <4>2
    <3>11. CASE i # b /\ b = a /\ r[i] = q[i + 1]
      <4>0. PICK j \in 1..b : j = i
        BY <3>8
      <4>1. i + 1 \in 1..a /\ p - a + (i + 1) = n - b + i
        <5>1. j + 1 \in 1..a
          BY <3>5, <3>6, <3>11, <4>0
        <5>2. b = a
          BY <3>11
        <5>3. p - a + (j + 1) = p + 1 - b + j
          BY <5>2
        <5> QED
          BY <3>7, <4>0, <5>1, <5>3
      <4>2. /\ q[i + 1].loop = l /\ q[i + 1].topic \in Topics(l)
            /\ q[i + 1].n = p - a + (i + 1)
        BY <3>3, <3>5, <3>7, <4>1
      <4> QED
        BY <2>2, <3>8, <3>11, <4>1, <4>2
    <3>12. i # b => \/ b = a + 1 /\ r[i] = q[i]
                    \/ b = a /\ r[i] = q[i + 1]
      <4>1. i # b => i \in 1..b - 1
        BY <3>8
      <4>2. b = a + 1 => b - 1 = a
        BY <3>5, <3>6
      <4> QED
        BY <3>4, <3>5, <3>6, <4>1, <4>2
    <3> QED
      BY <3>9, <3>10, <3>11, <3>12
  <2> QED
    BY <2>1, <2>2
<1> QED
  BY <1>7, <1>8, <1>9 DEF Placed

LEMMA TakePlaced ==
  ASSUME Placed, NEW l \in Loops, Take(l)
  PROVE  Placed'
<1> DEFINE e == Head(queue[l])
           new == ActsOf(l, e)
<1>1. TypeOK /\ Addressed /\ InTurn
  BY DEF Placed
<1>2. /\ queue[l] # <<>> /\ queue[l] \in Seq(Event)
      /\ queue' = [queue EXCEPT ![l] = Tail(@)]
      /\ e.topic \in Topics(l) /\ new \subseteq Act
      /\ DOMAIN calls' = DOMAIN calls \cup new
      /\ \A a \in new : calls'[a] \in {"drain", "sent", "error", "refused"}
      /\ \A a \in DOMAIN calls \ new : calls'[a] = calls[a]
      /\ DOMAIN inbox' = Organs
      /\ UNCHANGED <<up, active, trail, published, wanted, steady, done,
                     lost, faults>>
  BY TakeStep
<1>3. \A o \in Organs :
        \/ /\ inbox'[o] = inbox[o]
           /\ o \in up => VerbFor(o, e.topic) = {}
        \/ \E a \in new : /\ o \in up
                          /\ a.cmd \in Rules(e.topic) /\ a.cmd.organ = o
                          /\ VerbFor(o, e.topic) = {a.cmd.verb}
                          /\ inbox'[o] = Append(inbox[o], a)
  BY TakeStep
<1>4. /\ Tail(queue[l]) \in Seq(Event)
      /\ Len(Tail(queue[l])) = Len(queue[l]) - 1
      /\ Len(queue[l]) \in Nat /\ Len(queue[l]) >= 1
      /\ DOMAIN Tail(queue[l]) = 1..Len(queue[l]) - 1
      /\ \A i \in 1..Len(queue[l]) - 1 : Tail(queue[l])[i] = queue[l][i + 1]
      /\ Len(queue[l]) <= Buffer /\ Buffer \in Nat
      /\ queue \in [Loops -> Seq(Event)]
  BY <1>1, <1>2, TailItems, ReflexAssumption DEF TypeOK
<1> HIDE DEF e, new
<1>5. ASSUME NEW o \in Organs
      PROVE  /\ inbox[o] \in Seq(Act \cup {Operator})
             /\ inbox'[o] \in Seq(Act \cup {Operator})
             /\ inbox'[o] # inbox[o] => o \in up
             /\ \A a \in Items(inbox'[o]) :
                  \/ a \in Items(inbox[o])
                  \/ a.cmd \in Rules(e.topic) /\ a.cmd.organ = o
  <2>1. inbox[o] \in Seq(Act \cup {Operator})
    BY <1>1 DEF TypeOK
  <2>2. CASE inbox'[o] = inbox[o]
    BY <2>1, <2>2
  <2>3. ASSUME NEW a \in new, o \in up, a.cmd \in Rules(e.topic),
               a.cmd.organ = o, inbox'[o] = Append(inbox[o], a)
        PROVE  /\ inbox'[o] \in Seq(Act \cup {Operator})
               /\ \A b \in Items(inbox'[o]) :
                    \/ b \in Items(inbox[o])
                    \/ b.cmd \in Rules(e.topic) /\ b.cmd.organ = o
    <3>1. a \in Act \cup {Operator}
      BY <1>2
    <3>2. /\ Append(inbox[o], a) \in Seq(Act \cup {Operator})
          /\ Items(Append(inbox[o], a)) = Items(inbox[o]) \cup {a}
      BY <2>1, <3>1, AppendItems
    <3> QED
      BY <2>3, <3>2
  <2> QED
    BY <1>3, <2>1, <2>2, <2>3
<1>6. TypeOK'
  <2>1. queue' \in [Loops -> Seq(Event)]
        /\ \A k \in Loops : Len(queue'[k]) <= Buffer
    <3>1. Len(Tail(queue[l])) <= Buffer
      <4>1. PICK n \in Nat : n = Len(queue[l])
        BY <1>4
      <4>2. n - 1 <= Buffer
        BY <1>4, <4>1
      <4> QED
        BY <1>4, <4>1, <4>2
    <3> QED
      BY <1>1, <1>2, <1>4, <3>1 DEF TypeOK
  <2>2. inbox' \in [Organs -> Seq(Act \cup {Operator})]
    <3>1. inbox' = [o \in Organs |-> inbox'[o]]
      BY DEF Take, Send
    <3> QED
      BY <1>5, <3>1
  <2>3. /\ DOMAIN calls' \subseteq Act
        /\ \A a \in DOMAIN calls' : calls'[a] \in CallState
    BY <1>1, <1>2 DEF TypeOK, CallState, Waiting, Outcome
  <2> QED
    BY <1>1, <1>2, <2>1, <2>2, <2>3 DEF TypeOK
<1>7. Addressed'
  <2> SUFFICES ASSUME NEW o \in Organs
               PROVE  /\ o \notin up => inbox'[o] = <<>>
                      /\ \A a \in Items(inbox'[o]) :
                           /\ a.cmd.organ = o
                           /\ a.cmd.verb \in IF o = "shim" THEN {"lock"}
                                             ELSE {"start", "stop"}
    BY <1>2 DEF Addressed, Items
  <2>1. o \notin up => inbox'[o] = <<>>
    BY <1>1, <1>5 DEF Addressed
  <2>2. o # "purge"
    BY ReflexAssumption DEF AllOrgans
  <2>3. ASSUME NEW a \in Items(inbox'[o])
        PROVE  /\ a.cmd.organ = o
               /\ a.cmd.verb \in IF o = "shim" THEN {"lock"}
                                               ELSE {"start", "stop"}
    <3>1. CASE a \in Items(inbox[o])
      BY <1>1, <3>1 DEF Addressed
    <3>2. CASE a.cmd \in Rules(e.topic) /\ a.cmd.organ = o
      BY <1>2, <2>2, <3>2, RulesOf
    <3> QED
      BY <1>5, <3>1, <3>2
  <2> QED
    BY <2>1, <2>3
<1>8. InTurn'
  <2> SUFFICES ASSUME NEW k \in Loops, NEW i \in DOMAIN queue'[k]
               PROVE  /\ queue'[k][i].loop = k
                      /\ queue'[k][i].topic \in Topics(k)
                      /\ queue'[k][i].n = published[k] - Len(queue'[k]) + i
    BY <1>2 DEF InTurn, Passed
  <2>1. CASE k # l
    BY <1>1, <1>2, <1>4, <2>1 DEF InTurn, Passed
  <2>2. CASE k = l
    <3>1. queue'[k] = Tail(queue[l])
      BY <1>2, <1>4, <2>2
    <3>2. PICK n \in Nat : n = Len(queue[l])
      BY <1>4
    <3>3. PICK p \in Nat : p = published[l]
      BY <1>1 DEF TypeOK
    <3>4. PICK j \in 1..n - 1 : j = i
      BY <1>4, <3>1, <3>2
    <3>5. j + 1 \in 1..n
      BY <3>4
    <3>6. /\ queue[l][j + 1].loop = l /\ queue[l][j + 1].topic \in Topics(l)
          /\ queue[l][j + 1].n = p - n + (j + 1)
      <4>1. DOMAIN queue[l] = 1..n
        BY <1>2, <3>2
      <4> QED
        BY <1>1, <3>2, <3>3, <3>5, <4>1 DEF InTurn, Passed
    <3>7. p - n + (j + 1) = p - (n - 1) + j
      BY <3>4
    <3>8. queue'[k][i] = queue[l][j + 1] /\ Len(queue'[k]) = n - 1
      BY <1>4, <3>1, <3>2, <3>4
    <3> QED
      BY <2>2, <3>3, <3>4, <3>6, <3>7, <3>8
  <2> QED
    BY <2>1, <2>2
<1> QED
  BY <1>6, <1>7, <1>8 DEF Placed

(* The trail after a record.                                               *)
LEMMA RecordedType ==
  ASSUME NEW x \in Entry, trail \in Seq(Entry), Len(trail) <= MaxTrail
  PROVE  LET t == Recorded(x)
         IN /\ t \in Seq(Entry) /\ Len(t) <= MaxTrail /\ Len(t) \in Nat
            /\ Len(trail) \in Nat /\ DOMAIN t = 1..Len(t)
            /\ t[Len(t)] = x /\ Len(t) >= 1
            /\ \/ /\ Len(t) = Len(trail) + 1
                  /\ \A i \in 1..Len(t) - 1 : t[i] = trail[i]
                  /\ Items(t) = Items(trail) \cup {x}
               \/ /\ Len(t) = MaxTrail
                  /\ Len(trail) = MaxTrail
                  /\ \A i \in 1..Len(t) - 1 : t[i] = trail[i + 1]
<1> DEFINE longer == Append(trail, x)
<1>1. /\ MaxTrail \in Nat /\ MaxTrail >= 1 /\ Len(trail) \in Nat
  BY ReflexAssumption
<1>2. PICK n \in Nat : n = Len(trail)
  BY <1>1
<1>3. /\ longer \in Seq(Entry) /\ Len(longer) = n + 1
      /\ DOMAIN longer = 1..n + 1
      /\ \A i \in 1..n : longer[i] = trail[i]
      /\ longer[n + 1] = x /\ longer # <<>>
      /\ Items(longer) = Items(trail) \cup {x}
  BY <1>2, AppendItems
<1>4. Recorded(x) = IF Len(longer) > MaxTrail THEN Tail(longer) ELSE longer
  BY DEF Recorded
<1> HIDE DEF longer
<1>5. CASE n < MaxTrail
  <2>1. Recorded(x) = longer
    BY <1>1, <1>3, <1>4, <1>5
  <2>2. n + 1 - 1 = n /\ n + 1 <= MaxTrail /\ n + 1 >= 1
    BY <1>1, <1>5
  <2> QED
    BY <1>1, <1>2, <1>3, <2>1, <2>2
<1>6. CASE n = MaxTrail
  <2>1. Recorded(x) = Tail(longer)
    BY <1>1, <1>3, <1>4, <1>6
  <2>2. n + 1 - 1 = n /\ n >= 1
    BY <1>1, <1>6
  <2>3. /\ Tail(longer) \in Seq(Entry) /\ Len(Tail(longer)) = n
        /\ DOMAIN Tail(longer) = 1..n
        /\ \A i \in 1..n : Tail(longer)[i] = longer[i + 1]
    BY <1>3, <2>2, TailItems
  <2>4. Tail(longer)[n] = x
    BY <1>3, <2>2, <2>3
  <2>5. \A i \in 1..n - 1 : Tail(longer)[i] = trail[i + 1]
    <3>1. \A i \in 1..n - 1 : i \in 1..n /\ i + 1 \in 1..n
      BY <2>2
    <3> QED
      BY <1>3, <2>3, <3>1
  <2> QED
    BY <1>1, <1>2, <1>6, <2>1, <2>2, <2>3, <2>4, <2>5
<1> QED
  BY <1>1, <1>2, <1>5, <1>6

(* The command an organ comes to next.                                     *)
LEMMA NextCommand ==
  ASSUME Placed, NEW o \in Organs, inbox[o] # <<>>
  PROVE  LET a == Head(inbox[o])
         IN /\ o \in up /\ a \in Act \cup {Operator} /\ a \in Items(inbox[o])
            /\ a.cmd.organ = o
            /\ a.cmd.verb \in IF o = "shim" THEN {"lock"}
                              ELSE {"start", "stop"}
            /\ inbox[o] \in Seq(Act \cup {Operator})
            /\ Tail(inbox[o]) \in Seq(Act \cup {Operator})
            /\ Items(inbox[o]) = Items(Tail(inbox[o])) \cup {a}
  BY TailItems DEF Placed, TypeOK, Addressed

LEMMA NextPlaced == Placed /\ [Next]_vars => Placed'
<1> SUFFICES ASSUME Placed, [Next]_vars
             PROVE  Placed'
  OBVIOUS
<1>1. TypeOK /\ Addressed /\ InTurn
  BY DEF Placed
<1>2. ASSUME UNCHANGED <<queue, published>>
      PROVE  InTurn'
  BY <1>1, <1>2 DEF InTurn, Passed
<1>3. ASSUME NEW o \in Organs, Connect(o)
      PROVE  Placed'
  BY <1>1, <1>2, <1>3 DEF Connect, TypeOK, Addressed, Placed
<1>4. ASSUME NEW o \in Organs, Die(o)
      PROVE  Placed'
  <2>1. TypeOK'
    <3>1. inbox' \in [Organs -> Seq(Act \cup {Operator})]
      BY <1>1, <1>4, EmptySeq DEF Die, TypeOK
    <3>2. faults' \in Nat /\ lost' \in 0..faults'
      BY <1>1, <1>4 DEF Die, TypeOK
    <3>3. /\ DOMAIN calls' \subseteq Act
          /\ \A a \in DOMAIN calls' : calls'[a] \in CallState
      BY <1>1, <1>4 DEF Die, TypeOK, CallState, Waiting, Outcome
    <3> QED
      BY <1>1, <1>4, <3>1, <3>2, <3>3 DEF Die, TypeOK
  <2>2. Addressed'
    <3>1. \A x \in Organs : /\ x # o => inbox'[x] = inbox[x]
                            /\ x # o /\ x \notin up' => x \notin up
                            /\ x = o => inbox'[x] = <<>>
      BY <1>1, <1>4 DEF Die, TypeOK
    <3>2. Items(<<>>) = {}
      BY DEF Items
    <3>3. \A x \in Organs : /\ x \notin up' => inbox'[x] = <<>>
                            /\ Items(inbox'[x]) \subseteq Items(inbox[x])
      BY <1>1, <3>1, <3>2 DEF Addressed
    <3> QED
      BY <1>1, <3>3 DEF Addressed, Items
  <2> QED
    BY <1>2, <1>4, <2>1, <2>2 DEF Die, Placed
<1>5. ASSUME NEW o \in Organs, inbox[o] # <<>>,
             inbox' = [inbox EXCEPT ![o] = Tail(@)], up' = up
      PROVE  inbox' \in [Organs -> Seq(Act \cup {Operator})] /\ Addressed'
  <2>1. inbox' \in [Organs -> Seq(Act \cup {Operator})]
    BY <1>1, <1>5, NextCommand DEF TypeOK
  <2>2. /\ inbox'[o] = Tail(inbox[o])
        /\ \A x \in Organs \ {o} : inbox'[x] = inbox[x]
    BY <1>1, <1>5 DEF TypeOK
  <2>3. Items(inbox'[o]) \subseteq Items(inbox[o]) /\ o \in up
    BY <1>5, <2>2, NextCommand
  <2>4. \A x \in Organs : Items(inbox'[x]) \subseteq Items(inbox[x])
    BY <2>2, <2>3
  <2>5. Addressed'
    <3> SUFFICES ASSUME NEW x \in Organs
                 PROVE  /\ x \notin up => inbox'[x] = <<>>
                        /\ \A a \in Items(inbox'[x]) :
                             /\ a.cmd.organ = x
                             /\ a.cmd.verb \in IF x = "shim" THEN {"lock"}
                                               ELSE {"start", "stop"}
      BY <1>5 DEF Addressed, Items
    <3> QED
      BY <1>1, <2>2, <2>3, <2>4 DEF Addressed
  <2> QED
    BY <2>1, <2>5
<1>6. ASSUME NEW o \in Organs, Perform(o)
      PROVE  Placed'
  <2> DEFINE a == Head(inbox[o])
  <2>1. /\ inbox[o] # <<>> /\ inbox' = [inbox EXCEPT ![o] = Tail(@)]
        /\ active' = CASE a.cmd.verb = "start" -> active \cup {o}
                       [] a.cmd.verb = "stop"  -> active \ {o}
                       [] a.cmd.verb = "lock"  -> active
        /\ done' = IF a.n = 0 THEN done ELSE done \cup {a}
        /\ calls' = [b \in DOMAIN calls |->
                       IF b \in Awaiting(a) THEN "ok" ELSE calls[b]]
        /\ UNCHANGED <<queue, up, trail, published, wanted, steady, lost,
                       faults>>
    BY <1>6 DEF Perform
  <2>2. /\ o \in up /\ a \in Act \cup {Operator}
        /\ a.cmd.verb \in {"start", "stop", "lock"}
    BY <2>1, NextCommand
  <2>3. inbox' \in [Organs -> Seq(Act \cup {Operator})] /\ Addressed'
    BY <1>5, <2>1
  <2> HIDE DEF a
  <2>4. active' \subseteq up
    BY <1>1, <2>1, <2>2 DEF TypeOK
  <2>5. done' \subseteq Act
    BY <1>1, <2>1, <2>2, OperatorIsNoAct DEF TypeOK
  <2>6. TypeOK'
    BY <1>1, <2>1, <2>3, <2>4, <2>5 DEF TypeOK, CallState, Waiting, Outcome
  <2> QED
    BY <1>2, <2>1, <2>3, <2>6 DEF Placed
<1>7. ASSUME NEW o \in Organs, Refuse(o)
      PROVE  Placed'
  <2>1. /\ inbox[o] # <<>> /\ inbox' = [inbox EXCEPT ![o] = Tail(@)]
        /\ up' = up /\ UNCHANGED <<queue, published>>
    BY <1>7 DEF Refuse
  <2>2. inbox' \in [Organs -> Seq(Act \cup {Operator})] /\ Addressed'
    BY <1>5, <2>1
  <2>3. TypeOK'
    BY <1>1, <1>7, <2>2 DEF Refuse, TypeOK, CallState, Waiting, Outcome
  <2> QED
    BY <1>2, <2>1, <2>2, <2>3 DEF Placed
<1>8. CASE OperatorUnlocks
  <2>1. /\ "vault" \in Organs /\ "vault" \in up
        /\ inbox["vault"] \in Seq(Act \cup {Operator})
        /\ inbox' = [inbox EXCEPT !["vault"] = Append(@, Operator)]
        /\ inbox["vault"] = <<>>
        /\ steady' = steady \ {"vault"}
        /\ UNCHANGED <<queue, calls, up, active, trail, published, wanted,
                       done, lost, faults>>
    BY <1>1, <1>8 DEF OperatorUnlocks, TypeOK
  <2>2. /\ Append(inbox["vault"], Operator) \in Seq(Act \cup {Operator})
        /\ Items(Append(inbox["vault"], Operator)) = {Operator}
    <3>1. Items(inbox["vault"]) = {}
      BY <2>1 DEF Items
    <3>2. Operator \in Act \cup {Operator}
      OBVIOUS
    <3>3. {} \cup {Operator} = {Operator}
      OBVIOUS
    <3> DEFINE q == inbox["vault"]
    <3>4. q \in Seq(Act \cup {Operator}) /\ Items(q) = {}
      BY <2>1, <3>1
    <3> HIDE DEF q
    <3>5. /\ Append(q, Operator) \in Seq(Act \cup {Operator})
          /\ Items(Append(q, Operator)) = Items(q) \cup {Operator}
      BY <3>2, <3>4, AppendItems
    <3> QED
      BY <3>3, <3>4, <3>5 DEF q
  <2>3. TypeOK'
    BY <1>1, <2>1, <2>2 DEF TypeOK
  <2>4. Addressed'
    <3> SUFFICES ASSUME NEW x \in Organs
                 PROVE  /\ x \notin up => inbox'[x] = <<>>
                        /\ \A a \in Items(inbox'[x]) :
                             /\ a.cmd.organ = x
                             /\ a.cmd.verb \in IF x = "shim" THEN {"lock"}
                                               ELSE {"start", "stop"}
      BY <2>1 DEF Addressed, Items
    <3>1. CASE x = "vault"
      <4>1. Items(inbox'[x]) = {Operator}
        BY <1>1, <2>1, <2>2, <3>1 DEF TypeOK
      <4> QED
        BY <2>1, <3>1, <4>1 DEF Operator, On
    <3>2. CASE x # "vault"
      BY <1>1, <2>1, <3>2 DEF TypeOK, Addressed
    <3> QED
      BY <3>1, <3>2
  <2> QED
    BY <1>2, <2>1, <2>3, <2>4 DEF Placed
<1>9. ASSUME NEW l \in Loops, NEW topic \in Topics(l), Publish(l, topic)
      PROVE  Placed'
  BY <1>9, PublishPlaced
<1>10. ASSUME NEW l \in Loops, Take(l)
       PROVE  Placed'
  BY <1>10, TakePlaced
<1>11. ASSUME NEW a, Drained(a) \/ Deadline(a)
       PROVE  Placed'
  <2>1. /\ DOMAIN calls' = DOMAIN calls
        /\ \A b \in DOMAIN calls : calls'[b] \in {calls[b], "sent", "error"}
        /\ UNCHANGED <<queue, up, inbox, active, trail, published, wanted,
                       steady, done, lost, faults>>
    BY <1>11 DEF Drained, Deadline
  <2>2. \A b \in DOMAIN calls' : calls'[b] \in CallState
    BY <1>1, <2>1 DEF TypeOK, CallState, Waiting, Outcome
  <2> QED
    BY <1>1, <1>2, <2>1, <2>2 DEF TypeOK, Addressed, Placed
<1>12. ASSUME NEW a, Tell(a) \/ TellFails(a)
       PROVE  Placed'
  <2>1. /\ a \in DOMAIN calls /\ calls[a] \in Outcome
        /\ DOMAIN calls' \subseteq DOMAIN calls
        /\ \A b \in DOMAIN calls' : calls'[b] = calls[b]
        /\ UNCHANGED <<queue, up, inbox, active, published, wanted, steady,
                       done>>
    BY <1>12 DEF Tell, TellFails, Over
  <2>2. CASE Tell(a)
    <3> DEFINE x == [act |-> a, outcome |-> calls[a]]
    <3>1. trail' = Recorded(x) /\ UNCHANGED <<lost, faults>>
      BY <2>2 DEF Tell
    <3>2. x \in Entry
      BY <1>1, <2>1 DEF TypeOK, Entry
    <3>3. trail' \in Seq(Entry) /\ Len(trail') <= MaxTrail
      BY <1>1, <3>1, <3>2, RecordedType DEF TypeOK
    <3> QED
      BY <1>1, <1>2, <2>1, <3>1, <3>3 DEF TypeOK, Addressed, Placed
  <2>3. CASE TellFails(a)
    BY <1>1, <1>2, <2>1, <2>3 DEF TellFails, TypeOK, Addressed, Placed
  <2> QED
    BY <1>12, <2>2, <2>3
<1>13. CASE UNCHANGED vars
  BY <1>1, <1>2, <1>13 DEF vars, TypeOK, Addressed, Placed
<1> QED
  BY <1>3, <1>4, <1>6, <1>7, <1>8, <1>9, <1>10, <1>11, <1>12, <1>13
     DEF Next, LoopStep

(* Every variable of the reflexes keeps its type: no subscription holds    *)
(* more than its buffer, the trail is no longer than its limit, and only   *)
(* an organ that is attached is active (broker.py, audit.py, server.py).   *)
THEOREM TypeInvariant == Spec => []TypeOK
<1>1. Placed => TypeOK
  BY DEF Placed
<1> QED
  BY <1>1, InitPlaced, NextPlaced, PTL DEF Spec

-----------------------------------------------------------------------------
(* The trail.                                                              *)

(* What is said to be done is done.                                        *)
Confirmed ==
  /\ \A i \in DOMAIN trail : trail[i].outcome = "ok" => trail[i].act \in done
  /\ \A a \in DOMAIN calls : calls[a] = "ok" => a \in done

(* The calls of a loop are those of one event, which has passed, and what  *)
(* is on the trail comes of that event or of an earlier one.               *)
Sequenced ==
  /\ \A a, b \in DOMAIN calls : a.loop = b.loop => a.n = b.n
  /\ \A a \in DOMAIN calls : a.n <= Passed(a.loop)
  /\ \A i \in DOMAIN trail :
       /\ trail[i].act.n <= Passed(trail[i].act.loop)
       /\ \A a \in DOMAIN calls :
            a.loop = trail[i].act.loop => trail[i].act.n <= a.n
  /\ \A i, j \in DOMAIN trail :
       (i < j /\ trail[i].act.loop = trail[j].act.loop)
          => trail[i].act.n <= trail[j].act.n

(* The commands that were or may yet be carried out, whose calls are over  *)
(* and that are not on the trail.  A command the core gave up on counts    *)
(* from then on, done or not.                                              *)
Unrecorded ==
  {a \in Act : /\ a \in done \/ \E o \in Organs : a \in Items(inbox[o])
               /\ a \notin DOMAIN calls
               /\ \A i \in DOMAIN trail : trail[i].act # a}

Accounted == Len(trail) < MaxTrail => /\ IsFiniteSet(Unrecorded)
                                      /\ Cardinality(Unrecorded) <= lost

(* What Recorded does to the places of the records.                        *)
LEMMA RecordedPlaces ==
  ASSUME NEW x \in Entry, trail \in Seq(Entry), Len(trail) <= MaxTrail
  PROVE  LET t == Recorded(x)
         IN \E d \in {0, 1} : \A i \in DOMAIN t :
              \/ i = Len(t) /\ t[i] = x
              \/ i < Len(t) /\ i + d \in DOMAIN trail /\ t[i] = trail[i + d]
<1> DEFINE t == Recorded(x)
<1>1. /\ t \in Seq(Entry) /\ Len(t) \in Nat
      /\ Len(trail) \in Nat /\ DOMAIN t = 1..Len(t)
      /\ t[Len(t)] = x /\ Len(t) >= 1
      /\ \/ /\ Len(t) = Len(trail) + 1
            /\ \A i \in 1..Len(t) - 1 : t[i] = trail[i]
         \/ /\ Len(t) = Len(trail)
            /\ \A i \in 1..Len(t) - 1 : t[i] = trail[i + 1]
      /\ DOMAIN trail = 1..Len(trail)
  <2>1. DOMAIN trail = 1..Len(trail)
    OBVIOUS
  <2>2. /\ t \in Seq(Entry) /\ Len(t) \in Nat
        /\ Len(trail) \in Nat /\ DOMAIN t = 1..Len(t)
        /\ t[Len(t)] = x /\ Len(t) >= 1
        /\ \/ /\ Len(t) = Len(trail) + 1
              /\ \A i \in 1..Len(t) - 1 : t[i] = trail[i]
           \/ /\ Len(t) = MaxTrail
              /\ Len(trail) = MaxTrail
              /\ \A i \in 1..Len(t) - 1 : t[i] = trail[i + 1]
    BY RecordedType
  <2> HIDE DEF t
  <2> QED
    BY <2>1, <2>2
<1> HIDE DEF t
<1>2. PICK m \in Nat : m = Len(t)
  BY <1>1
<1>3. PICK n \in Nat : n = Len(trail)
  BY <1>1
<1>4. \A i \in 1..m : i = m \/ (i < m /\ i \in 1..m - 1)
  BY <1>2
<1>5. CASE m = n + 1 /\ \A i \in 1..m - 1 : t[i] = trail[i]
  <2>1. \A i \in 1..m - 1 : i + 0 \in 1..n /\ t[i] = trail[i + 0]
    BY <1>5
  <2>2. \A i \in DOMAIN t :
          \/ i = Len(t) /\ t[i] = x
          \/ i < Len(t) /\ i + 0 \in DOMAIN trail /\ t[i] = trail[i + 0]
    BY <1>1, <1>2, <1>3, <1>4, <2>1
  <2> QED
    BY <2>2 DEF t
<1>6. CASE m = n /\ \A i \in 1..m - 1 : t[i] = trail[i + 1]
  <2>1. \A i \in 1..m - 1 : i + 1 \in 1..n /\ t[i] = trail[i + 1]
    BY <1>6
  <2>2. \A i \in DOMAIN t :
          \/ i = Len(t) /\ t[i] = x
          \/ i < Len(t) /\ i + 1 \in DOMAIN trail /\ t[i] = trail[i + 1]
    BY <1>1, <1>2, <1>3, <1>4, <2>1
  <2> QED
    BY <2>2 DEF t
<1> QED
  BY <1>1, <1>2, <1>3, <1>5, <1>6

LEMMA ConfirmedStep == Placed /\ Confirmed /\ [Next]_vars => Confirmed'
<1> SUFFICES ASSUME Placed, Confirmed, [Next]_vars
             PROVE  Confirmed'
  OBVIOUS
<1>1. ASSUME trail' = trail, done \subseteq done',
             \A a \in DOMAIN calls' :
               calls'[a] = "ok" => (a \in DOMAIN calls /\ calls[a] = "ok")
                                   \/ a \in done'
      PROVE  Confirmed'
  BY <1>1 DEF Confirmed
<1>2. ASSUME NEW o \in Organs, Connect(o) \/ Die(o) \/ Refuse(o)
      PROVE  Confirmed'
  BY <1>1, <1>2 DEF Connect, Die, Refuse
<1>3. ASSUME NEW o \in Organs, Perform(o)
      PROVE  Confirmed'
  <2> DEFINE a == Head(inbox[o])
  <2>1. /\ trail' = trail
        /\ done' = IF a.n = 0 THEN done ELSE done \cup {a}
        /\ calls' = [b \in DOMAIN calls |->
                       IF b \in Awaiting(a) THEN "ok" ELSE calls[b]]
    BY <1>3 DEF Perform
  <2> HIDE DEF a
  <2>2. ASSUME NEW b \in DOMAIN calls, b \in Awaiting(a)
        PROVE  b \in done'
    <3>1. b = a /\ b \in Act
      BY <2>2 DEF Awaiting, Placed, TypeOK
    <3> QED
      BY <2>1, <3>1, OperatorIsNoAct
  <2> QED
    BY <1>1, <2>1, <2>2
<1>4. CASE OperatorUnlocks
  BY <1>1, <1>4 DEF OperatorUnlocks
<1>5. ASSUME NEW l \in Loops, NEW topic, Publish(l, topic)
      PROVE  Confirmed'
  BY <1>1, <1>5 DEF Publish
<1>6. ASSUME NEW l \in Loops, Take(l)
      PROVE  Confirmed'
  <2> DEFINE new == ActsOf(l, Head(queue[l]))
  <2>1. /\ DOMAIN calls' = DOMAIN calls \cup new
        /\ \A a \in new : calls'[a] \in {"drain", "sent", "error", "refused"}
        /\ \A a \in DOMAIN calls \ new : calls'[a] = calls[a]
        /\ trail' = trail /\ done' = done
    BY <1>6, TakeStep
  <2> HIDE DEF new
  <2> QED
    BY <1>1, <2>1
<1>7. ASSUME NEW a, Drained(a) \/ Deadline(a)
      PROVE  Confirmed'
  BY <1>1, <1>7 DEF Drained, Deadline
<1>8. ASSUME NEW a, TellFails(a)
      PROVE  Confirmed'
  BY <1>1, <1>8 DEF TellFails, Over
<1>9. ASSUME NEW a, Tell(a)
      PROVE  Confirmed'
  <2> DEFINE x == [act |-> a, outcome |-> calls[a]]
  <2>1. /\ a \in DOMAIN calls /\ calls[a] \in Outcome
        /\ trail' = Recorded(x) /\ done' = done
        /\ DOMAIN calls' \subseteq DOMAIN calls
        /\ \A b \in DOMAIN calls' : calls'[b] = calls[b]
    BY <1>9 DEF Tell, Over
  <2>2. /\ x \in Entry /\ x.act = a
        /\ trail \in Seq(Entry) /\ Len(trail) <= MaxTrail
    BY <2>1 DEF Placed, TypeOK, Entry
  <2>3. x.outcome = "ok" => x.act \in done
    BY <2>1 DEF Confirmed
  <2>4. \A i \in DOMAIN trail' :
          trail'[i] = x \/ \E j \in DOMAIN trail : trail'[i] = trail[j]
    BY <2>1, <2>2, RecordedPlaces
  <2> HIDE DEF x
  <2> QED
    BY <2>1, <2>3, <2>4 DEF Confirmed
<1>10. CASE UNCHANGED vars
  BY <1>1, <1>10 DEF vars
<1> QED
  BY <1>2, <1>3, <1>4, <1>5, <1>6, <1>7, <1>8, <1>9, <1>10 DEF Next, LoopStep

(* The numbers of events in Sequenced.                                     *)
LEMMA PassedType ==
  ASSUME Placed
  PROVE  /\ \A l \in Loops : Passed(l) \in Int
         /\ \A a \in DOMAIN calls : a.loop \in Loops /\ a.n \in Nat
         /\ \A i \in DOMAIN trail : /\ trail[i].act.loop \in Loops
                                    /\ trail[i].act.n \in Nat
<1>1. /\ published \in [Loops -> 0..MaxEvents]
      /\ queue \in [Loops -> Seq(Event)]
      /\ DOMAIN calls \subseteq Act /\ trail \in Seq(Entry)
  BY DEF Placed, TypeOK
<1>2. ASSUME NEW l \in Loops
      PROVE  Passed(l) \in Int
  <2>1. published[l] \in Int /\ Len(queue[l]) \in Int
    BY <1>1
  <2> QED
    BY <2>1 DEF Passed
<1>3. \A a \in Act : a.loop \in Loops /\ a.n \in Nat
  BY DEF Act
<1>4. ASSUME NEW i \in DOMAIN trail
      PROVE  trail[i].act \in Act
  <2>1. trail[i] \in Entry
    BY <1>1
  <2> QED
    BY <2>1 DEF Entry
<1> QED
  BY <1>1, <1>2, <1>3, <1>4

LEMMA SequencedStep == Placed /\ Sequenced /\ [Next]_vars => Sequenced'
<1> SUFFICES ASSUME Placed, Sequenced, [Next]_vars
             PROVE  Sequenced'
  OBVIOUS
<1>1. Placed'
  BY NextPlaced
<1>2. ASSUME trail' = trail, DOMAIN calls' \subseteq DOMAIN calls,
             \A l \in Loops : Passed(l) <= Passed(l)'
      PROVE  Sequenced'
  <2>1. ASSUME NEW l \in Loops, NEW n \in Nat, n <= Passed(l)
        PROVE  n <= Passed(l)'
    <3>1. Passed(l) \in Int /\ Passed(l) <= Passed(l)'
      BY <1>2, PassedType
    <3>2. published'[l] \in Int /\ Len(queue'[l]) \in Int
      BY <1>1 DEF Placed, TypeOK
    <3>3. Passed(l)' \in Int
      BY <3>2 DEF Passed
    <3> QED
      BY <2>1, <3>1, <3>3
  <2>2. \A a \in DOMAIN calls' : a.n <= Passed(a.loop)'
    BY <1>2, <2>1, PassedType DEF Sequenced
  <2>3. ASSUME NEW i \in DOMAIN trail
        PROVE  trail[i].act.n <= Passed(trail[i].act.loop)'
    <3>1. PICK k \in Loops : k = trail[i].act.loop
      BY PassedType
    <3>2. trail[i].act.n \in Nat /\ trail[i].act.n <= Passed(k)
      BY <3>1, PassedType DEF Sequenced
    <3>3. trail[i].act.n <= Passed(k)'
      BY <2>1, <3>2
    <3> QED
      BY <1>2, <3>1, <3>3 DEF Passed
  <2> QED
    BY <1>2, <2>2, <2>3 DEF Sequenced
<1>3. ASSUME UNCHANGED <<queue, published, trail>>,
             DOMAIN calls' \subseteq DOMAIN calls
      PROVE  Sequenced'
  <2>1. \A l \in Loops : Passed(l)' = Passed(l) /\ Passed(l) <= Passed(l)
    BY <1>3, PassedType DEF Passed
  <2> QED
    BY <1>2, <1>3, <2>1
<1>4. ASSUME NEW o \in Organs,
             Connect(o) \/ Die(o) \/ Perform(o) \/ Refuse(o)
      PROVE  Sequenced'
  BY <1>3, <1>4 DEF Connect, Die, Perform, Refuse
<1>5. CASE OperatorUnlocks
  BY <1>3, <1>5 DEF OperatorUnlocks
<1>6. ASSUME NEW l \in Loops, NEW topic \in Topics(l), Publish(l, topic)
      PROVE  Sequenced'
  <2> DEFINE e == [loop |-> l, n |-> published[l] + 1, topic |-> topic]
  <2>1. /\ trail' = trail /\ calls' = calls
        /\ published' = [published EXCEPT ![l] = @ + 1]
        /\ queue' = [queue EXCEPT ![l] = Offered(@, e)]
        /\ published \in [Loops -> 0..MaxEvents]
        /\ queue \in [Loops -> Seq(Event)] /\ Len(queue[l]) <= Buffer
    BY <1>6 DEF Publish, Placed, TypeOK
  <2>2. e \in Event
    <3>1. published[l] + 1 \in 1..MaxEvents
      BY <1>1, <2>1 DEF Placed, TypeOK
    <3>2. topic \in Topics("relay") \cup Topics("escalation")
      BY DEF Loops
    <3> QED
      BY <3>1, <3>2 DEF Event
  <2> HIDE DEF e
  <2>3. ASSUME NEW k \in Loops
        PROVE  Passed(k) <= Passed(k)'
    <3>1. CASE k # l
      BY <2>1, <3>1, PassedType DEF Passed
    <3>2. CASE k = l
      <4>1. /\ Len(queue[l]) \in Nat /\ Len(queue'[l]) \in Nat
            /\ \/ Len(queue'[l]) = Len(queue[l]) + 1
               \/ Len(queue'[l]) = Len(queue[l])
        BY <2>1, <2>2, OfferedType
      <4>2. published'[l] = published[l] + 1 /\ published[l] \in Nat
        BY <2>1
      <4> QED
        BY <3>2, <4>1, <4>2 DEF Passed
    <3> QED
      BY <3>1, <3>2
  <2> QED
    BY <1>2, <2>1, <2>3
<1>7. ASSUME NEW l \in Loops, Take(l)
      PROVE  Sequenced'
  <2> DEFINE e == Head(queue[l])
             new == ActsOf(l, e)
  <2>1. /\ queue[l] # <<>> /\ queue[l] \in Seq(Event)
        /\ queue' = [queue EXCEPT ![l] = Tail(@)]
        /\ e.n = Passed(l) + 1 /\ Of(l) = {}
        /\ \A a \in new : a.loop = l /\ a.n = e.n
        /\ DOMAIN calls' = DOMAIN calls \cup new
        /\ trail' = trail /\ published' = published
    BY <1>7, TakeStep
  <2> HIDE DEF new, e
  <2>2. /\ \A k \in Loops \ {l} : Passed(k)' = Passed(k)
        /\ Passed(l)' = e.n
    <3>1. queue \in [Loops -> Seq(Event)] /\ published[l] \in Nat
      BY DEF Placed, TypeOK
    <3>2. \A k \in Loops \ {l} : queue'[k] = queue[k]
      BY <2>1, <3>1
    <3>3. queue'[l] = Tail(queue[l])
      BY <2>1, <3>1
    <3>4. Len(Tail(queue[l])) = Len(queue[l]) - 1 /\ Len(queue[l]) \in Nat
      BY <2>1, TailItems
    <3>5. PICK n \in Nat : n = Len(queue[l])
      BY <3>4
    <3>6. PICK p \in Nat : p = published[l]
      BY <3>1
    <3>7. p - (n - 1) = p - n + 1
      OBVIOUS
    <3>8. Passed(l)' = e.n
      BY <2>1, <3>3, <3>4, <3>5, <3>6, <3>7 DEF Passed
    <3> QED
      BY <2>1, <3>2, <3>8 DEF Passed
  <2>3. Passed(l) \in Int /\ e.n \in Int
    BY <2>1, PassedType
  <2>4. \A a \in DOMAIN calls : a \notin new => a.loop # l
    BY <2>1 DEF Of
  <2>5. \A a, b \in DOMAIN calls' : a.loop = b.loop => a.n = b.n
    BY <2>1, <2>4 DEF Sequenced, Of
  <2>6. \A a \in DOMAIN calls' : a.n <= Passed(a.loop)'
    <3>1. ASSUME NEW a \in new
          PROVE  a.n <= Passed(a.loop)'
      <4>1. a.loop = l /\ a.n = e.n /\ e.n <= e.n
        BY <2>1, <2>3
      <4> QED
        BY <2>2, <4>1
    <3>2. ASSUME NEW a \in DOMAIN calls, a \notin new
          PROVE  a.n <= Passed(a.loop)'
      <4>1. a.loop \in Loops \ {l}
        BY <2>4, <3>2, PassedType
      <4> QED
        BY <2>2, <4>1 DEF Sequenced
    <3> QED
      BY <2>1, <3>1, <3>2
  <2>7. \A i \in DOMAIN trail : trail[i].act.n <= Passed(trail[i].act.loop)'
    <3> SUFFICES ASSUME NEW i \in DOMAIN trail
                 PROVE  trail[i].act.n <= Passed(trail[i].act.loop)'
      OBVIOUS
    <3>1. PICK n \in Nat : n = trail[i].act.n
      BY PassedType
    <3>2. CASE trail[i].act.loop = l
      <4>1. n <= Passed(l)
        BY <3>1, <3>2 DEF Sequenced
      <4>2. n <= Passed(l) + 1
        BY <2>3, <4>1
      <4> QED
        BY <2>1, <2>2, <3>1, <3>2, <4>2
    <3>3. CASE trail[i].act.loop # l
      <4>1. PICK k \in Loops \ {l} : k = trail[i].act.loop
        BY <3>3, PassedType
      <4>2. trail[i].act.n <= Passed(k)
        BY <4>1 DEF Sequenced
      <4>3. trail[i].act.n <= Passed(k)'
        BY <2>2, <4>2
      <4> QED
        BY <2>1, <4>1, <4>3 DEF Passed
    <3> QED
      BY <3>2, <3>3
  <2>8. ASSUME NEW i \in DOMAIN trail, NEW a \in DOMAIN calls',
               a.loop = trail[i].act.loop
        PROVE  trail[i].act.n <= a.n
    <3>1. CASE a \in new
      <4>1. trail[i].act.n <= Passed(l)' /\ a.n = e.n
        BY <2>1, <2>7, <2>8, <3>1
      <4> QED
        BY <2>2, <4>1
    <3>2. CASE a \notin new
      BY <2>1, <2>8, <3>2 DEF Sequenced
    <3> QED
      BY <3>1, <3>2
  <2> QED
    BY <2>1, <2>5, <2>6, <2>7, <2>8 DEF Sequenced
<1>8. ASSUME NEW a, Drained(a) \/ Deadline(a)
      PROVE  Sequenced'
  BY <1>3, <1>8 DEF Drained, Deadline
<1>9. ASSUME NEW a, TellFails(a)
      PROVE  Sequenced'
  BY <1>3, <1>9 DEF TellFails, Over
<1>10. ASSUME NEW a, Tell(a)
       PROVE  Sequenced'
  <2> DEFINE x == [act |-> a, outcome |-> calls[a]]
             t == Recorded(x)
  <2>1. /\ a \in DOMAIN calls /\ calls[a] \in Outcome
        /\ trail' = t /\ UNCHANGED <<queue, published>>
        /\ DOMAIN calls' \subseteq DOMAIN calls
    BY <1>10 DEF Tell, Over
  <2>2. /\ x \in Entry /\ x.act = a
        /\ trail \in Seq(Entry) /\ Len(trail) <= MaxTrail
    BY <2>1 DEF Placed, TypeOK, Entry
  <2>3. PICK d \in {0, 1} : \A i \in DOMAIN t :
          \/ i = Len(t) /\ t[i] = x
          \/ i < Len(t) /\ i + d \in DOMAIN trail /\ t[i] = trail[i + d]
    BY <2>2, RecordedPlaces
  <2>4. \A k : Passed(k)' = Passed(k)
    BY <2>1 DEF Passed
  <2>5. /\ a.n \in Nat /\ a.n <= a.n /\ a.n <= Passed(a.loop)
        /\ \A b \in DOMAIN calls : a.loop = b.loop => a.n <= b.n
    <3>1. \A b \in DOMAIN calls : b.n \in Nat /\ b.n <= b.n
      BY PassedType
    <3> QED
      BY <2>1, <3>1 DEF Sequenced
  <2>6. DOMAIN t = 1..Len(t) /\ Len(t) \in Nat
    BY <2>2, RecordedType
  <2> HIDE DEF t, x
  <2>7. \A i \in DOMAIN t :
          /\ t[i].act.n <= Passed(t[i].act.loop)
          /\ \A b \in DOMAIN calls :
               b.loop = t[i].act.loop => t[i].act.n <= b.n
    BY <2>2, <2>3, <2>5 DEF Sequenced
  <2>8. ASSUME NEW i \in DOMAIN t, NEW j \in DOMAIN t, i < j,
               t[i].act.loop = t[j].act.loop
        PROVE  t[i].act.n <= t[j].act.n
    <3>1. i < Len(t) /\ i # Len(t) /\ i \in Int /\ j \in Int
      BY <2>6, <2>8
    <3>2. i + d \in DOMAIN trail /\ t[i] = trail[i + d]
      BY <2>3, <3>1
    <3>3. CASE j = Len(t) /\ t[j] = x
      BY <2>1, <2>2, <2>8, <3>2, <3>3 DEF Sequenced
    <3>4. CASE j + d \in DOMAIN trail /\ t[j] = trail[j + d]
      <4>1. i + d < j + d
        BY <2>3, <2>8, <3>1
      <4> QED
        BY <2>8, <3>2, <3>4, <4>1 DEF Sequenced
    <3> QED
      BY <2>3, <3>3, <3>4
  <2> QED
    BY <2>1, <2>4, <2>7, <2>8 DEF Sequenced
<1>11. CASE UNCHANGED vars
  BY <1>3, <1>11 DEF vars
<1> QED
  BY <1>4, <1>5, <1>6, <1>7, <1>8, <1>9, <1>10, <1>11 DEF Next, LoopStep

(* Only a write that fails adds to Unrecorded.                             *)
LEMMA AccountedStep == Placed /\ Accounted /\ [Next]_vars => Accounted'
<1> SUFFICES ASSUME Placed, Accounted, [Next]_vars
             PROVE  Accounted'
  OBVIOUS
<1>1. TypeOK /\ TypeOK'
  BY NextPlaced DEF Placed
<1>2. ASSUME Len(trail') < MaxTrail => Len(trail) < MaxTrail,
             Unrecorded' \subseteq Unrecorded, lost' = lost
      PROVE  Accounted'
  <2> SUFFICES ASSUME Len(trail') < MaxTrail
               PROVE  /\ IsFiniteSet(Unrecorded')
                      /\ Cardinality(Unrecorded') <= lost'
    BY DEF Accounted
  <2>1. IsFiniteSet(Unrecorded) /\ Cardinality(Unrecorded) <= lost
    BY <1>2 DEF Accounted
  <2>2. /\ IsFiniteSet(Unrecorded')
        /\ Cardinality(Unrecorded') <= Cardinality(Unrecorded)
        /\ Cardinality(Unrecorded') \in Nat /\ Cardinality(Unrecorded) \in Nat
    BY <1>2, <2>1, FS_Subset, FS_CardinalityType
  <2>3. lost \in Int
    BY <1>1 DEF TypeOK
  <2> QED
    BY <1>2, <2>1, <2>2, <2>3
<1>3. ASSUME trail' = trail, lost' = lost,
             DOMAIN calls \subseteq DOMAIN calls',
             \A a \in Act :
               (a \in done' \/ \E o \in Organs : a \in Items(inbox'[o]))
                 => \/ a \in done \/ \E o \in Organs : a \in Items(inbox[o])
                    \/ a \in DOMAIN calls'
      PROVE  Accounted'
  <2>1. Unrecorded' \subseteq Unrecorded
    <3> SUFFICES ASSUME NEW a \in Unrecorded'
                 PROVE  a \in Unrecorded
      OBVIOUS
    <3>1. /\ a \in Act /\ a \notin DOMAIN calls'
          /\ a \in done' \/ \E o \in Organs : a \in Items(inbox'[o])
          /\ \A i \in DOMAIN trail : trail[i].act # a
      BY <1>3 DEF Unrecorded, Items
    <3>2. a \notin DOMAIN calls
      BY <1>3, <3>1
    <3>3. a \in done \/ \E o \in Organs : a \in Items(inbox[o])
      BY <1>3, <3>1
    <3> QED
      BY <3>1, <3>2, <3>3 DEF Unrecorded
  <2> QED
    BY <1>2, <1>3, <2>1
<1>4. CASE UNCHANGED <<inbox, done, trail, lost>>
           /\ DOMAIN calls \subseteq DOMAIN calls'
  BY <1>3, <1>4
<1>5. ASSUME NEW o \in Organs, Connect(o)
      PROVE  Accounted'
  BY <1>4, <1>5 DEF Connect
<1>6. ASSUME NEW o \in Organs, Die(o)
      PROVE  Accounted'
  <2>1. /\ trail' = trail /\ lost' = lost /\ done' = done
        /\ DOMAIN calls' = DOMAIN calls
        /\ inbox' = [inbox EXCEPT ![o] = <<>>]
    BY <1>6 DEF Die
  <2>2. \A x \in Organs : inbox'[x] = inbox[x] \/ inbox'[x] = <<>>
    BY <1>1, <2>1 DEF TypeOK
  <2>3. Items(<<>>) = {}
    BY DEF Items
  <2>4. \A x \in Organs : Items(inbox'[x]) \subseteq Items(inbox[x])
    BY <2>2, <2>3
  <2> QED
    BY <1>3, <2>1, <2>4
<1>7. ASSUME NEW o \in Organs, inbox[o] # <<>>,
             inbox' = [inbox EXCEPT ![o] = Tail(@)]
      PROVE  \A x \in Organs : Items(inbox'[x]) \subseteq Items(inbox[x])
  <2>1. /\ inbox'[o] = Tail(inbox[o])
        /\ \A x \in Organs \ {o} : inbox'[x] = inbox[x]
    BY <1>1, <1>7 DEF TypeOK
  <2>2. Items(Tail(inbox[o])) \subseteq Items(inbox[o])
    BY <1>7, NextCommand
  <2> QED
    BY <2>1, <2>2
<1>8. ASSUME NEW o \in Organs, Perform(o)
      PROVE  Accounted'
  <2> DEFINE a == Head(inbox[o])
  <2>1. /\ inbox[o] # <<>> /\ inbox' = [inbox EXCEPT ![o] = Tail(@)]
        /\ done' = IF a.n = 0 THEN done ELSE done \cup {a}
        /\ DOMAIN calls' = DOMAIN calls
        /\ trail' = trail /\ lost' = lost
    BY <1>8 DEF Perform
  <2>2. a \in Items(inbox[o])
    BY <2>1, NextCommand
  <2> HIDE DEF a
  <2>3. \A x \in Organs : Items(inbox'[x]) \subseteq Items(inbox[x])
    BY <1>7, <2>1
  <2>4. done' \subseteq done \cup {a}
    BY <2>1
  <2> QED
    BY <1>3, <2>1, <2>2, <2>3, <2>4
<1>9. ASSUME NEW o \in Organs, Refuse(o)
      PROVE  Accounted'
  <2>1. /\ inbox[o] # <<>> /\ inbox' = [inbox EXCEPT ![o] = Tail(@)]
        /\ trail' = trail /\ lost' = lost /\ done' = done
        /\ DOMAIN calls' = DOMAIN calls
    BY <1>9 DEF Refuse
  <2>2. \A x \in Organs : Items(inbox'[x]) \subseteq Items(inbox[x])
    BY <1>7, <2>1
  <2> QED
    BY <1>3, <2>1, <2>2
<1>10. CASE OperatorUnlocks
  <2>1. /\ trail' = trail /\ lost' = lost /\ done' = done /\ calls' = calls
        /\ inbox' = [inbox EXCEPT !["vault"] = Append(@, Operator)]
    BY <1>10 DEF OperatorUnlocks
  <2>2. ASSUME NEW x \in Organs, NEW a \in Act, a \in Items(inbox'[x])
        PROVE  a \in Items(inbox[x])
    <3>1. CASE x = "vault"
      <4>1. inbox[x] \in Seq(Act \cup {Operator})
        BY <1>1 DEF TypeOK
      <4>2. Items(Append(inbox[x], Operator)) = Items(inbox[x]) \cup {Operator}
        BY <4>1, AppendItems
      <4>3. inbox'[x] = Append(inbox[x], Operator)
        BY <1>1, <2>1, <3>1 DEF TypeOK
      <4> QED
        BY <2>2, <4>2, <4>3, OperatorIsNoAct
    <3>2. CASE x # "vault"
      BY <1>1, <2>1, <2>2, <3>2 DEF TypeOK
    <3> QED
      BY <3>1, <3>2
  <2> QED
    BY <1>3, <2>1, <2>2
<1>11. ASSUME NEW l \in Loops, NEW topic, Publish(l, topic)
       PROVE  Accounted'
  BY <1>4, <1>11 DEF Publish
<1>12. ASSUME NEW l \in Loops, Take(l)
       PROVE  Accounted'
  <2> DEFINE e == Head(queue[l])
             new == ActsOf(l, e)
  <2>1. /\ new \subseteq Act
        /\ DOMAIN calls' = DOMAIN calls \cup new
        /\ trail' = trail /\ done' = done /\ lost' = lost
    BY <1>12, TakeStep
  <2>0. ASSUME NEW o \in Organs
        PROVE  \/ inbox'[o] = inbox[o]
               \/ \E a \in new : inbox'[o] = Append(inbox[o], a)
    <3>1. \A x \in Organs :
            \/ /\ inbox'[x] = inbox[x]
               /\ x \in up => VerbFor(x, e.topic) = {}
            \/ \E a \in new :
                 /\ x \in up
                 /\ a.cmd \in Rules(e.topic) /\ a.cmd.organ = x
                 /\ VerbFor(x, e.topic) = {a.cmd.verb}
                 /\ inbox'[x] = Append(inbox[x], a)
      BY <1>12, TakeStep
    <3> HIDE DEF e, new
    <3> QED
      BY <3>1
  <2> HIDE DEF e, new
  <2>2. ASSUME NEW o \in Organs, NEW a \in Items(inbox'[o])
        PROVE  a \in Items(inbox[o]) \/ a \in new
    <3>1. CASE inbox'[o] = inbox[o]
      BY <2>2, <3>1
    <3>2. ASSUME NEW b \in new, inbox'[o] = Append(inbox[o], b)
          PROVE  a \in Items(inbox[o]) \/ a \in new
      <4>1. b \in Act \cup {Operator} /\ inbox[o] \in Seq(Act \cup {Operator})
        BY <1>1, <2>1 DEF TypeOK
      <4>2. Items(Append(inbox[o], b)) = Items(inbox[o]) \cup {b}
        BY <4>1, AppendItems
      <4> QED
        BY <2>2, <3>2, <4>2
    <3> QED
      BY <2>0, <3>1, <3>2
  <2> QED
    BY <1>3, <2>1, <2>2
<1>13. ASSUME NEW a, Drained(a) \/ Deadline(a)
       PROVE  Accounted'
  BY <1>4, <1>13 DEF Drained, Deadline
<1>14. ASSUME NEW a, Tell(a)
       PROVE  Accounted'
  <2> DEFINE x == [act |-> a, outcome |-> calls[a]]
  <2>1. /\ a \in DOMAIN calls /\ calls[a] \in Outcome
        /\ trail' = Recorded(x)
        /\ DOMAIN calls' = DOMAIN calls \ {a}
        /\ inbox' = inbox /\ done' = done /\ lost' = lost
    BY <1>14 DEF Tell, Over
  <2>2. /\ x \in Entry /\ x.act = a
        /\ trail \in Seq(Entry) /\ Len(trail) <= MaxTrail
    BY <1>1, <2>1 DEF TypeOK, Entry
  <2>3. /\ Len(trail') \in Nat /\ Len(trail) \in Nat
        /\ \/ /\ Len(trail') = Len(trail) + 1
              /\ Items(trail') = Items(trail) \cup {x}
           \/ Len(trail') = MaxTrail
    BY <2>1, <2>2, RecordedType
  <2> HIDE DEF x
  <2>4. MaxTrail \in Nat
    BY ReflexAssumption
  <2>5. CASE Len(trail') < MaxTrail
    <3>1. Len(trail) < MaxTrail /\ Items(trail') = Items(trail) \cup {x}
      BY <2>3, <2>4, <2>5
    <3>2. Unrecorded' \subseteq Unrecorded
      <4> SUFFICES ASSUME NEW b \in Unrecorded'
                   PROVE  b \in Unrecorded
        OBVIOUS
      <4>1. /\ b \in Act /\ b \notin DOMAIN calls'
            /\ b \in done \/ \E o \in Organs : b \in Items(inbox[o])
            /\ \A i \in DOMAIN trail' : trail'[i].act # b
        BY <2>1 DEF Unrecorded, Items
      <4>2. \A r \in Items(trail') : r.act # b
        BY <4>1 DEF Items
      <4>3. \A r \in Items(trail) : r.act # b
        BY <3>1, <4>2
      <4>4. b # a
        BY <2>2, <3>1, <4>2
      <4> QED
        BY <2>1, <4>1, <4>3, <4>4 DEF Unrecorded, Items
    <3> QED
      BY <1>2, <2>1, <3>1, <3>2
  <2>6. CASE ~(Len(trail') < MaxTrail)
    BY <2>6 DEF Accounted
  <2> QED
    BY <2>5, <2>6
<1>15. ASSUME NEW a, TellFails(a)
       PROVE  Accounted'
  <2>1. /\ DOMAIN calls' = DOMAIN calls \ {a}
        /\ inbox' = inbox /\ done' = done /\ trail' = trail
        /\ lost' = lost + 1
    BY <1>15 DEF TellFails, Over
  <2>2. Unrecorded' \subseteq Unrecorded \cup {a}
    <3> SUFFICES ASSUME NEW b \in Unrecorded', b # a
                 PROVE  b \in Unrecorded
      OBVIOUS
    <3>1. /\ b \in Act /\ b \notin DOMAIN calls'
          /\ b \in done \/ \E o \in Organs : b \in Items(inbox[o])
          /\ \A i \in DOMAIN trail : trail[i].act # b
      BY <2>1 DEF Unrecorded, Items
    <3> QED
      BY <2>1, <3>1 DEF Unrecorded
  <2> SUFFICES ASSUME Len(trail') < MaxTrail
               PROVE  /\ IsFiniteSet(Unrecorded')
                      /\ Cardinality(Unrecorded') <= lost'
    BY DEF Accounted
  <2>3. IsFiniteSet(Unrecorded) /\ Cardinality(Unrecorded) <= lost
    BY <2>1 DEF Accounted
  <2>4. /\ IsFiniteSet(Unrecorded \cup {a})
        /\ \/ Cardinality(Unrecorded \cup {a}) = Cardinality(Unrecorded)
           \/ Cardinality(Unrecorded \cup {a}) = Cardinality(Unrecorded) + 1
        /\ Cardinality(Unrecorded) \in Nat
    BY <2>3, FS_AddElement, FS_CardinalityType
  <2>5. /\ IsFiniteSet(Unrecorded')
        /\ Cardinality(Unrecorded') <= Cardinality(Unrecorded \cup {a})
        /\ Cardinality(Unrecorded') \in Nat
    BY <2>2, <2>4, FS_Subset, FS_CardinalityType
  <2>6. lost \in Int
    BY <1>1 DEF TypeOK
  <2> QED
    BY <2>1, <2>3, <2>4, <2>5, <2>6
<1>16. CASE UNCHANGED vars
  BY <1>4, <1>16 DEF vars
<1> QED
  BY <1>5, <1>6, <1>8, <1>9, <1>10, <1>11, <1>12, <1>13, <1>14, <1>15, <1>16
     DEF Next, LoopStep

LEMMA InitTrail == Init => Confirmed /\ Sequenced /\ Accounted
<1> SUFFICES ASSUME Init
             PROVE  Confirmed /\ Sequenced /\ Accounted
  OBVIOUS
<1>1. trail = <<>> /\ DOMAIN calls = {} /\ done = {} /\ lost = 0
  BY DEF Init
<1>2. DOMAIN trail = {}
  BY <1>1
<1>3. Unrecorded = {}
  <2>1. \A o \in Organs : DOMAIN inbox[o] = {}
    BY DEF Init
  <2> QED
    BY <1>1, <2>1 DEF Unrecorded, Items
<1>4. IsFiniteSet(Unrecorded) /\ Cardinality(Unrecorded) <= lost
  BY <1>1, <1>3, FS_EmptySet
<1> QED
  BY <1>1, <1>2, <1>4 DEF Confirmed, Sequenced, Accounted

(* The trail of the reflexes tells the truth, whatever the organs do: what *)
(* it says was done was done, what was done is on it once its call is over *)
(* unless a write failed or the trail is full, and one loop's records are  *)
(* in the order of its events (server.py, _relay_one; audit.py, record).   *)
THEOREM TrailTellsTheTruth == Spec => []TrailIsTrue
<1> DEFINE IInv == Placed /\ Confirmed /\ Sequenced /\ Accounted
<1>1. Init => IInv
  BY InitPlaced, InitTrail
<1>2. IInv /\ [Next]_vars => IInv'
  BY NextPlaced, ConfirmedStep, SequencedStep, AccountedStep
<1>3. IInv => TrailIsTrue
  <2> SUFFICES ASSUME IInv
               PROVE  TrailIsTrue
    OBVIOUS
  <2> DEFINE Told == {trail[i].act : i \in DOMAIN trail}
             missing == (done \ DOMAIN calls) \ Told
  <2>1. missing \subseteq Unrecorded
    BY DEF Unrecorded, Placed, TypeOK
  <2>2. Len(trail) < MaxTrail => Cardinality(missing) <= lost
    <3> SUFFICES ASSUME Len(trail) < MaxTrail
                 PROVE  Cardinality(missing) <= lost
      OBVIOUS
    <3> HIDE DEF missing
    <3>1. IsFiniteSet(Unrecorded) /\ Cardinality(Unrecorded) <= lost
      BY DEF Accounted
    <3>2. /\ Cardinality(missing) <= Cardinality(Unrecorded)
          /\ Cardinality(missing) \in Nat /\ Cardinality(Unrecorded) \in Nat
      BY <2>1, <3>1, FS_Subset, FS_CardinalityType
    <3>3. lost \in Int
      BY DEF Placed, TypeOK
    <3> QED
      BY <3>1, <3>2, <3>3
  <2>3. \A i \in DOMAIN trail :
          trail[i].outcome = "ok" => trail[i].act \in done
    BY DEF Confirmed
  <2>4. \A i, j \in DOMAIN trail :
          (i < j /\ trail[i].act.loop = trail[j].act.loop)
             => trail[i].act.n <= trail[j].act.n
    BY DEF Sequenced
  <2> QED
    BY <2>2, <2>3, <2>4 DEF TrailIsTrue
<1> HIDE DEF IInv
<1> QED
  BY <1>1, <1>2, <1>3, PTL DEF Spec

-----------------------------------------------------------------------------
(* What the organs were asked for.                                         *)

(* An event about an organ is in the subscription until it has passed, and *)
(* none after it is about that organ.                                      *)
Heard ==
  \A o \in Organs :
    /\ wanted[o].at <= published["relay"]
    /\ o = "shim" => wanted[o].at = 0
    /\ o = "vault" => wanted[o].verb = "stop"
    /\ \A e \in Items(queue["relay"]) :
         /\ e.n = wanted[o].at => VerbFor(o, e.topic) = {wanted[o].verb}
         /\ e.n > wanted[o].at => VerbFor(o, e.topic) = {}

(* The event has passed, and was not among those lost.                     *)
Due(o) == /\ wanted[o].at > 0
          /\ wanted[o].at <= Passed("relay")
          /\ published["relay"] - wanted[o].at < Buffer

(* The organ does what the event asked for once it has come to all of its  *)
(* commands.                                                               *)
Settled(o) == IF inbox[o] # <<>>
                THEN Last(inbox[o]).cmd.verb = wanted[o].verb
                ELSE o \in active <=> wanted[o].verb = "start"

Heeded == \A o \in steady : Due(o) => Settled(o)

(* The numbers of the events in a subscription.                            *)
LEMMA QueuedNumbers ==
  ASSUME Placed, NEW l \in Loops, NEW e \in Items(queue[l])
  PROVE  e.n \in Nat /\ e.n <= published[l]
<1>1. PICK i \in DOMAIN queue[l] : e = queue[l][i]
  BY DEF Items
<1>2. queue[l] \in Seq(Event) /\ published[l] \in Nat
  BY DEF Placed, TypeOK
<1>3. PICK k \in Nat : k = Len(queue[l])
  BY <1>2
<1>4. i \in 1..k /\ e \in Event
  BY <1>1, <1>2, <1>3
<1>5. e.n = published[l] - k + i
  BY <1>1, <1>3 DEF Placed, InTurn, Passed
<1>6. e.n \in Nat
  BY <1>4 DEF Event
<1>7. published[l] - k + i <= published[l]
  BY <1>2, <1>4
<1> QED
  BY <1>5, <1>6, <1>7

LEMMA OfferedItems ==
  ASSUME NEW q \in Seq(Event), Len(q) <= Buffer, NEW e \in Event
  PROVE  Items(Offered(q, e)) \subseteq Items(q) \cup {e}
<1>1. Items(Append(q, e)) = Items(q) \cup {e}
  BY AppendItems
<1>2. CASE Len(q) < Buffer
  BY <1>1, <1>2 DEF Offered
<1>3. CASE ~(Len(q) < Buffer)
  <2>1. q # <<>>
    BY <1>3, ReflexAssumption
  <2>2. Tail(q) \in Seq(Event) /\ Items(q) = Items(Tail(q)) \cup {Head(q)}
    BY <2>1, TailItems
  <2>3. Items(Append(Tail(q), e)) = Items(Tail(q)) \cup {e}
    <3> DEFINE r == Tail(q)
    <3>1. r \in Seq(Event)
      BY <2>2
    <3> HIDE DEF r
    <3>2. Items(Append(r, e)) = Items(r) \cup {e}
      BY <3>1, AppendItems
    <3> QED
      BY <3>2 DEF r
  <2>4. Offered(q, e) = Append(Tail(q), e)
    BY <1>3 DEF Offered
  <2> QED
    BY <2>2, <2>3, <2>4
<1> QED
  BY <1>2, <1>3

(* What an event on the relay's subscription changes.                      *)
LEMMA PublishStep ==
  ASSUME Placed, NEW topic \in Topics("relay"), Publish("relay", topic)
  PROVE  LET n == published["relay"] + 1
             e == [loop |-> "relay", n |-> n, topic |-> topic]
         IN /\ published["relay"] \in Nat /\ published'["relay"] = n
            /\ Items(queue'["relay"]) \subseteq Items(queue["relay"]) \cup {e}
            /\ Passed("relay") \in Int /\ Passed("relay")' < n
            /\ \/ Passed("relay")' = Passed("relay")
               \/ Passed("relay")' = n - Buffer
            /\ \A o \in Organs :
                 \/ VerbFor(o, topic) = {} /\ wanted'[o] = wanted[o]
                    /\ (o \in steady' => o \in steady)
                 \/ /\ wanted'[o].at = n
                    /\ VerbFor(o, topic) = {wanted'[o].verb}
                    /\ o # "shim" /\ (o = "vault" => wanted'[o].verb = "stop")
            /\ UNCHANGED <<inbox, active>>
<1> DEFINE n == published["relay"] + 1
           e == [loop |-> "relay", n |-> n, topic |-> topic]
           told == {o \in Organs : VerbFor(o, topic) # {}}
           q == queue["relay"]
<1>1. /\ published' = [published EXCEPT !["relay"] = n]
      /\ queue' = [queue EXCEPT !["relay"] = Offered(@, e)]
      /\ \A o \in Organs :
           wanted'[o] = IF o \in told
                          THEN [at |-> n, verb |-> CHOOSE v \in Verb :
                                                     v \in VerbFor(o, topic)]
                          ELSE wanted[o]
      /\ steady' = (steady \ told) \cup (told \cap up)
      /\ UNCHANGED <<inbox, active>>
  BY DEF Publish
<1>2. /\ published \in [Loops -> 0..MaxEvents] /\ "relay" \in Loops
      /\ queue \in [Loops -> Seq(Event)] /\ Len(q) <= Buffer
      /\ Buffer \in Nat /\ steady \subseteq Organs
  BY ReflexAssumption DEF Placed, TypeOK, Loops
<1>3. e \in Event
  <2>1. n \in 1..MaxEvents
    <3>1. Placed' /\ published["relay"] \in Nat
      BY <1>2, PublishPlaced
    <3>2. published'["relay"] \in 0..MaxEvents
      BY <1>2, <3>1 DEF Placed, TypeOK
    <3>3. published'["relay"] = n
      BY <1>1, <1>2
    <3> HIDE DEF n
    <3>4. n >= 1
      BY <3>1 DEF n
    <3> QED
      BY <3>2, <3>3, <3>4
  <2>2. topic \in Topics("relay") \cup Topics("escalation")
    OBVIOUS
  <2> QED
    BY <1>2, <2>1, <2>2 DEF Event
<1>4. queue'["relay"] = Offered(q, e) /\ published'["relay"] = n
      /\ published["relay"] \in Nat /\ n \in Nat
  BY <1>1, <1>2
<1> HIDE DEF e
<1>5. Items(queue'["relay"]) \subseteq Items(q) \cup {e}
  BY <1>2, <1>3, <1>4, OfferedItems
<1>6. /\ Passed("relay") \in Int /\ Passed("relay")' < n
      /\ \/ Passed("relay")' = Passed("relay")
         \/ Passed("relay")' = n - Buffer
  <2>1. /\ Len(q) \in Nat /\ Len(Offered(q, e)) \in Nat
        /\ Len(Offered(q, e)) >= 1
        /\ \/ Len(Offered(q, e)) = Len(q) + 1
           \/ Len(q) = Buffer /\ Len(Offered(q, e)) = Len(q)
    BY <1>2, <1>3, OfferedType
  <2>2. PICK a \in Nat : a = Len(q)
    BY <2>1
  <2>3. PICK b \in Nat : b = Len(Offered(q, e))
    BY <2>1
  <2>4. PICK p \in Nat : p = published["relay"]
    BY <1>4
  <2>5. Passed("relay") = p - a /\ Passed("relay")' = p + 1 - b
    BY <1>4, <2>2, <2>3, <2>4 DEF Passed
  <2>6. b >= 1 /\ (b = a + 1 \/ b = Buffer)
    BY <2>1, <2>2, <2>3
  <2>7. /\ p - a \in Int /\ p + 1 - b < p + 1
        /\ b = a + 1 => p + 1 - b = p - a
    BY <2>6
  <2> QED
    BY <2>4, <2>5, <2>6, <2>7
<1>7. ASSUME NEW o \in Organs
      PROVE  \/ VerbFor(o, topic) = {} /\ wanted'[o] = wanted[o]
                /\ (o \in steady' => o \in steady)
             \/ /\ wanted'[o].at = n /\ VerbFor(o, topic) = {wanted'[o].verb}
                /\ o # "shim" /\ (o = "vault" => wanted'[o].verb = "stop")
  <2>1. CASE VerbFor(o, topic) = {}
    BY <1>1, <2>1
  <2>2. CASE VerbFor(o, topic) # {}
    <3>1. PICK c \in Targets(topic) : /\ c \in Rules(topic) /\ c \in Command
                                      /\ c.organ = o
                                      /\ VerbFor(o, topic) = {c.verb}
      BY <1>2, <2>2, TargetsOf
    <3>2. c.verb \in Verb
      BY <3>1 DEF Command
    <3>3. (CHOOSE v \in Verb : v \in VerbFor(o, topic)) = c.verb
      BY <3>1, <3>2
    <3>4. wanted'[o] = [at |-> n, verb |-> c.verb]
      BY <1>1, <2>2, <3>3
    <3>5. o # "shim" /\ (o = "vault" => c.verb = "stop")
      BY <1>2, <3>1, RulesOf
    <3> QED
      BY <3>1, <3>4, <3>5
  <2> QED
    BY <2>1, <2>2
<1> QED
  BY <1>1, <1>4, <1>5, <1>6, <1>7 DEF e

(* An event for the other loop asks nothing of the organs.                 *)
LEMMA OtherPublish ==
  ASSUME Placed, NEW topic, Publish("escalation", topic)
  PROVE  /\ published'["relay"] = published["relay"]
         /\ queue'["relay"] = queue["relay"]
         /\ \A o \in Organs : wanted'[o] = wanted[o]
         /\ steady' = steady
         /\ UNCHANGED <<inbox, active>>
  BY DEF Publish, Placed, TypeOK, Loops

LEMMA HeardStep == Placed /\ Heard /\ [Next]_vars => Heard'
<1> SUFFICES ASSUME Placed, Heard, [Next]_vars
             PROVE  Heard'
  OBVIOUS
<1>1. ASSUME UNCHANGED <<published, wanted>>,
             Items(queue'["relay"]) \subseteq Items(queue["relay"])
      PROVE  Heard'
  BY <1>1 DEF Heard, Items
<1>2. CASE UNCHANGED <<queue, published, wanted>>
  BY <1>1, <1>2
<1>3. ASSUME NEW o \in Organs,
             Connect(o) \/ Die(o) \/ Perform(o) \/ Refuse(o)
      PROVE  Heard'
  BY <1>2, <1>3 DEF Connect, Die, Perform, Refuse
<1>4. CASE OperatorUnlocks
  BY <1>2, <1>4 DEF OperatorUnlocks
<1>5. ASSUME NEW topic \in Topics("relay"), Publish("relay", topic)
      PROVE  Heard'
  <2> DEFINE n == published["relay"] + 1
             e == [loop |-> "relay", n |-> n, topic |-> topic]
  <2>1. /\ published["relay"] \in Nat /\ published'["relay"] = n
        /\ Items(queue'["relay"]) \subseteq Items(queue["relay"]) \cup {e}
        /\ \A o \in Organs :
             \/ VerbFor(o, topic) = {} /\ wanted'[o] = wanted[o]
             \/ /\ wanted'[o].at = n /\ VerbFor(o, topic) = {wanted'[o].verb}
                /\ o # "shim" /\ (o = "vault" => wanted'[o].verb = "stop")
    BY <1>5, PublishStep
  <2>2. e.n = n /\ e.topic = topic /\ n \in Nat /\ n > published["relay"]
    BY <2>1
  <2> HIDE DEF e, n
  <2>3. ASSUME NEW f \in Items(queue["relay"])
        PROVE  f.n \in Nat /\ f.n <= published["relay"] /\ f.n < n
    BY <2>1, <2>2, QueuedNumbers DEF Loops
  <2> SUFFICES ASSUME NEW o \in Organs
               PROVE  /\ wanted'[o].at <= published'["relay"]
                      /\ o = "shim" => wanted'[o].at = 0
                      /\ o = "vault" => wanted'[o].verb = "stop"
                      /\ \A f \in Items(queue'["relay"]) :
                           /\ f.n = wanted'[o].at =>
                                VerbFor(o, f.topic) = {wanted'[o].verb}
                           /\ f.n > wanted'[o].at => VerbFor(o, f.topic) = {}
    BY DEF Heard, Items
  <2>4. CASE VerbFor(o, topic) = {} /\ wanted'[o] = wanted[o]
    <3>1. PICK k \in Nat : k = wanted[o].at
      BY DEF Placed, TypeOK
    <3>2. k <= published["relay"] /\ k < n
      <4>1. k <= published["relay"]
        BY <3>1 DEF Heard
      <4> QED
        BY <2>1, <2>2, <4>1
    <3>3. ASSUME NEW f \in Items(queue'["relay"])
          PROVE  /\ f.n = k => VerbFor(o, f.topic) = {wanted[o].verb}
                 /\ f.n > k => VerbFor(o, f.topic) = {}
      <4>1. CASE f = e
        BY <2>2, <2>4, <3>2, <4>1
      <4>2. CASE f \in Items(queue["relay"])
        BY <3>1, <4>2 DEF Heard
      <4> QED
        BY <2>1, <4>1, <4>2
    <3>4. k <= published'["relay"]
      BY <2>1, <2>2, <3>2
    <3> QED
      BY <2>4, <3>1, <3>3, <3>4 DEF Heard
  <2>5. CASE /\ wanted'[o].at = n /\ VerbFor(o, topic) = {wanted'[o].verb}
             /\ o # "shim" /\ (o = "vault" => wanted'[o].verb = "stop")
    <3>1. ASSUME NEW f \in Items(queue'["relay"])
          PROVE  /\ f.n = n => VerbFor(o, f.topic) = {wanted'[o].verb}
                 /\ f.n > n => VerbFor(o, f.topic) = {}
      <4>1. CASE f = e
        BY <2>2, <2>5, <4>1
      <4>2. CASE f \in Items(queue["relay"])
        BY <2>2, <2>3, <4>2
      <4> QED
        BY <2>1, <4>1, <4>2
    <3>2. n <= published'["relay"]
      BY <2>1, <2>2
    <3> QED
      BY <2>5, <3>1, <3>2
  <2> QED
    BY <2>1, <2>4, <2>5
<1>6. ASSUME NEW topic, Publish("escalation", topic)
      PROVE  Heard'
  BY <1>6, OtherPublish DEF Heard, Items
<1>7. ASSUME NEW l \in Loops, Take(l)
      PROVE  Heard'
  <2>1. /\ queue[l] # <<>> /\ queue' = [queue EXCEPT ![l] = Tail(@)]
        /\ UNCHANGED <<published, wanted>>
    BY <1>7 DEF Take
  <2>2. queue \in [Loops -> Seq(Event)] /\ "relay" \in Loops
    BY DEF Placed, TypeOK, Loops
  <2>3. CASE l = "relay"
    <3>1. queue'[l] = Tail(queue[l])
      BY <2>1, <2>2
    <3>2. Items(queue[l]) = Items(Tail(queue[l])) \cup {Head(queue[l])}
      BY <2>1, <2>2, TailItems
    <3> QED
      BY <1>1, <2>1, <2>3, <3>1, <3>2
  <2>4. CASE l # "relay"
    <3>1. queue'["relay"] = queue["relay"]
      BY <2>1, <2>2, <2>4
    <3> QED
      BY <1>1, <2>1, <3>1
  <2> QED
    BY <2>3, <2>4
<1>8. ASSUME NEW a, Drained(a) \/ Deadline(a) \/ Tell(a) \/ TellFails(a)
      PROVE  Heard'
  BY <1>2, <1>8 DEF Drained, Deadline, Tell, TellFails
<1>9. CASE UNCHANGED vars
  BY <1>2, <1>9 DEF vars
<1> QED
  BY <1>3, <1>4, <1>5, <1>6, <1>7, <1>8, <1>9 DEF Next, LoopStep, Loops

LEMMA HeededStep == Placed /\ Heard /\ Heeded /\ [Next]_vars => Heeded'
<1> SUFFICES ASSUME Placed, Heard, Heeded, [Next]_vars
             PROVE  Heeded'
  OBVIOUS
<1>1. TypeOK /\ steady \subseteq Organs
  BY DEF Placed, TypeOK
<1>2. ASSUME NEW o, o \in steady, wanted'[o] = wanted[o],
             Due(o)' => Due(o), inbox'[o] = inbox[o],
             o \in active' <=> o \in active
      PROVE  Due(o)' => Settled(o)'
  <2>1. Settled(o) => Settled(o)'
    BY <1>2 DEF Settled
  <2> QED
    BY <1>2, <2>1 DEF Heeded
<1>3. ASSUME UNCHANGED <<queue, published, wanted>>
      PROVE  \A o : Due(o)' => Due(o)
  BY <1>3 DEF Due, Passed
<1>4. CASE UNCHANGED <<queue, published, wanted, inbox, active, steady>>
  BY <1>2, <1>3, <1>4 DEF Heeded
<1>5. ASSUME NEW o \in Organs, Connect(o)
      PROVE  Heeded'
  BY <1>4, <1>5 DEF Connect
<1>6. ASSUME NEW o \in Organs, Die(o)
      PROVE  Heeded'
  <2>1. /\ steady' = steady \ {o} /\ active' = active \ {o}
        /\ \A x \in Organs \ {o} : inbox'[x] = inbox[x]
        /\ UNCHANGED <<queue, published, wanted>>
    BY <1>1, <1>6 DEF Die, TypeOK
  <2>2. ASSUME NEW x \in steady'
        PROVE  Due(x)' => Settled(x)'
    <3>1. /\ x \in steady /\ wanted'[x] = wanted[x] /\ inbox'[x] = inbox[x]
          /\ x \in active' <=> x \in active
          /\ Due(x)' => Due(x)
      BY <1>1, <1>3, <2>1
    <3> QED
      BY <1>2, <3>1
  <2> QED
    BY <2>2 DEF Heeded
<1>7. ASSUME NEW o \in Organs, Refuse(o)
      PROVE  Heeded'
  <2>1. /\ steady' = steady \ {o} /\ active' = active
        /\ \A x \in Organs \ {o} : inbox'[x] = inbox[x]
        /\ UNCHANGED <<queue, published, wanted>>
    BY <1>1, <1>7 DEF Refuse, TypeOK
  <2>2. ASSUME NEW x \in steady'
        PROVE  Due(x)' => Settled(x)'
    <3>1. /\ x \in steady /\ wanted'[x] = wanted[x] /\ inbox'[x] = inbox[x]
          /\ x \in active' <=> x \in active
          /\ Due(x)' => Due(x)
      BY <1>1, <1>3, <2>1
    <3> QED
      BY <1>2, <3>1
  <2> QED
    BY <2>2 DEF Heeded
<1>8. CASE OperatorUnlocks
  <2>1. /\ steady' = steady \ {"vault"} /\ active' = active
        /\ \A x \in Organs \ {"vault"} : inbox'[x] = inbox[x]
        /\ UNCHANGED <<queue, published, wanted>>
    BY <1>1, <1>8 DEF OperatorUnlocks, TypeOK
  <2>2. ASSUME NEW x \in steady'
        PROVE  Due(x)' => Settled(x)'
    <3>1. /\ x \in steady /\ wanted'[x] = wanted[x] /\ inbox'[x] = inbox[x]
          /\ x \in active' <=> x \in active
          /\ Due(x)' => Due(x)
      BY <1>1, <1>3, <2>1
    <3> QED
      BY <1>2, <3>1
  <2> QED
    BY <2>2 DEF Heeded
<1>9. ASSUME NEW o \in Organs, Perform(o)
      PROVE  Heeded'
  <2> DEFINE a == Head(inbox[o])
  <2>1. /\ inbox[o] # <<>>
        /\ inbox'[o] = Tail(inbox[o])
        /\ \A x \in Organs \ {o} : inbox'[x] = inbox[x]
        /\ active' = CASE a.cmd.verb = "start" -> active \cup {o}
                       [] a.cmd.verb = "stop"  -> active \ {o}
                       [] a.cmd.verb = "lock"  -> active
        /\ UNCHANGED <<queue, published, wanted, steady>>
    BY <1>1, <1>9 DEF Perform, TypeOK
  <2>2. /\ a.cmd.verb \in IF o = "shim" THEN {"lock"} ELSE {"start", "stop"}
        /\ inbox[o] \in Seq(Act \cup {Operator})
    BY <2>1, NextCommand
  <2>3. /\ Tail(inbox[o]) = <<>> => Last(inbox[o]) = a
        /\ Tail(inbox[o]) # <<>> => Last(Tail(inbox[o])) = Last(inbox[o])
    BY <2>1, <2>2, TailItems
  <2> HIDE DEF a
  <2>4. \A x : Due(x)' => Due(x)
    BY <1>3, <2>1
  <2>5. ASSUME NEW x \in steady, x # o
        PROVE  Due(x)' => Settled(x)'
    <3>1. x \in active' <=> x \in active
      BY <2>1, <2>2, <2>5
    <3> QED
      BY <1>1, <1>2, <2>1, <2>4, <2>5, <3>1
  <2>6. ASSUME o \in steady, Due(o)
        PROVE  Settled(o)'
    <3>1. Last(inbox[o]).cmd.verb = wanted[o].verb
      BY <2>1, <2>6 DEF Heeded, Settled
    <3>2. CASE Tail(inbox[o]) # <<>>
      BY <2>1, <2>3, <3>1, <3>2 DEF Settled
    <3>3. CASE Tail(inbox[o]) = <<>>
      <4>1. a.cmd.verb = wanted[o].verb
        BY <2>3, <3>1, <3>3
      <4>2. o # "shim"
        BY <2>6 DEF Due, Heard
      <4>3. o \in active' <=> wanted[o].verb = "start"
        BY <2>1, <2>2, <4>1, <4>2
      <4> QED
        BY <2>1, <3>3, <4>3 DEF Settled
    <3> QED
      BY <3>2, <3>3
  <2> QED
    BY <2>1, <2>4, <2>5, <2>6 DEF Heeded
<1>10. ASSUME NEW topic \in Topics("relay"), Publish("relay", topic)
       PROVE  Heeded'
  <2> DEFINE n == published["relay"] + 1
  <2>1. /\ published["relay"] \in Nat /\ published'["relay"] = n
        /\ Passed("relay") \in Int /\ Passed("relay")' < n
        /\ \/ Passed("relay")' = Passed("relay")
           \/ Passed("relay")' = n - Buffer
        /\ \A o \in Organs :
             \/ wanted'[o] = wanted[o] /\ (o \in steady' => o \in steady)
             \/ wanted'[o].at = n
        /\ UNCHANGED <<inbox, active>>
    BY <1>10, PublishStep
  <2>2. Buffer \in Nat /\ n \in Nat /\ n = published["relay"] + 1
    BY <2>1, ReflexAssumption
  <2> HIDE DEF n
  <2> SUFFICES ASSUME NEW o \in steady', Due(o)'
               PROVE  Settled(o)'
    BY DEF Heeded
  <2>3. o \in Organs
    BY NextPlaced DEF Placed, TypeOK
  <2>4. /\ wanted'[o].at <= Passed("relay")'
        /\ n - wanted'[o].at < Buffer /\ wanted'[o].at > 0
    BY <2>1 DEF Due
  <2>5. Passed("relay")' \in Int
    BY <2>1, <2>2
  <2>6. CASE wanted'[o].at = n
    BY <2>1, <2>2, <2>4, <2>5, <2>6
  <2>7. CASE wanted'[o] = wanted[o] /\ o \in steady
    <3>1. PICK k \in Nat : k = wanted[o].at
      BY <1>1, <2>3 DEF TypeOK
    <3>2. k <= Passed("relay")' /\ n - k < Buffer
      BY <2>4, <2>7, <3>1
    <3>3. Passed("relay")' # n - Buffer
      BY <2>2, <3>1, <3>2
    <3>4. k <= Passed("relay")
      BY <2>1, <3>2, <3>3
    <3>5. published["relay"] - k < Buffer
      BY <2>1, <2>2, <3>1, <3>2
    <3>6. Due(o)
      BY <2>4, <2>7, <3>1, <3>4, <3>5 DEF Due
    <3> QED
      BY <1>2, <2>1, <2>7, <3>6
  <2> QED
    BY <2>1, <2>3, <2>6, <2>7
<1>11. ASSUME NEW topic, Publish("escalation", topic)
       PROVE  Heeded'
  <2>1. /\ published'["relay"] = published["relay"]
        /\ queue'["relay"] = queue["relay"]
        /\ \A o \in Organs : wanted'[o] = wanted[o]
        /\ steady' = steady /\ inbox' = inbox /\ active' = active
    BY <1>11, OtherPublish
  <2>2. \A o \in Organs : Due(o)' => Due(o)
    BY <2>1 DEF Due, Passed
  <2> QED
    BY <1>1, <1>2, <2>1, <2>2 DEF Heeded
<1>12. ASSUME NEW l \in Loops, Take(l)
       PROVE  Heeded'
  <2> DEFINE e == Head(queue[l])
             new == ActsOf(l, e)
  <2>1. /\ queue[l] # <<>> /\ queue[l] \in Seq(Event)
        /\ queue' = [queue EXCEPT ![l] = Tail(@)]
        /\ e \in Event /\ e.topic \in Topics(l)
        /\ e.n = Passed(l) + 1 /\ e \in Items(queue[l])
        /\ new \subseteq Act
        /\ UNCHANGED <<up, active, published, wanted, steady>>
    BY <1>12, TakeStep
  <2>2. \A o \in Organs :
          \/ /\ inbox'[o] = inbox[o]
             /\ o \in up => VerbFor(o, e.topic) = {}
          \/ \E a \in new :
               /\ o \in up
               /\ a.cmd \in Rules(e.topic) /\ a.cmd.organ = o
               /\ VerbFor(o, e.topic) = {a.cmd.verb}
               /\ inbox'[o] = Append(inbox[o], a)
    BY <1>12, TakeStep
  <2> HIDE DEF e, new
  <2>3. ASSUME NEW o \in Organs, NEW a \in new,
               inbox'[o] = Append(inbox[o], a), a.cmd.verb = wanted[o].verb
        PROVE  Settled(o)'
    <3>1. a \in Act \cup {Operator} /\ inbox[o] \in Seq(Act \cup {Operator})
      BY <1>1, <2>1 DEF TypeOK
    <3>2. Append(inbox[o], a) # <<>> /\ Last(Append(inbox[o], a)) = a
      BY <3>1, AppendItems
    <3> QED
      BY <2>1, <2>3, <3>2 DEF Settled
  <2> SUFFICES ASSUME NEW o \in steady, Due(o)'
               PROVE  Settled(o)'
    BY <2>1 DEF Heeded
  <2>4. o \in Organs /\ o \in up /\ queue \in [Loops -> Seq(Event)]
        /\ "relay" \in Loops
    BY <1>1 DEF TypeOK, Loops
  <2>5. PICK k \in Nat : k = wanted[o].at
    BY <1>1, <2>4 DEF TypeOK
  <2>6. k > 0 /\ k <= Passed("relay")' /\ published["relay"] - k < Buffer
    BY <2>1, <2>5 DEF Due
  <2>7. CASE l = "relay"
    <3>1. Passed("relay") \in Int /\ e.n \in Nat
      BY <2>1, <2>4, PassedType DEF Event
    <3>2. Passed("relay")' = e.n
      <4>1. queue'["relay"] = Tail(queue["relay"])
        BY <2>1, <2>4, <2>7
      <4>2. PICK m \in Nat : m = Len(queue["relay"])
        BY <2>4
      <4>3. Len(Tail(queue["relay"])) = m - 1
        BY <2>1, <2>7, <4>2, TailItems
      <4>4. PICK p \in Nat : p = published["relay"]
        BY <1>1, <2>4 DEF TypeOK
      <4>5. p - (m - 1) = p - m + 1
        OBVIOUS
      <4> QED
        BY <2>1, <2>7, <4>1, <4>2, <4>3, <4>4, <4>5 DEF Passed
    <3>3. /\ e.n = k => VerbFor(o, e.topic) = {wanted[o].verb}
          /\ e.n > k => VerbFor(o, e.topic) = {}
      BY <2>1, <2>4, <2>5, <2>7 DEF Heard
    <3>4. CASE e.n = k
      <4>1. VerbFor(o, e.topic) = {wanted[o].verb}
        BY <3>3, <3>4
      <4> QED
        BY <2>2, <2>3, <2>4, <4>1
    <3>5. CASE e.n > k
      <4>1. inbox'[o] = inbox[o]
        BY <2>2, <2>4, <3>3, <3>5
      <4>2. k <= Passed("relay")
        BY <2>1, <2>7, <3>1, <3>5
      <4>3. Due(o)
        BY <2>5, <2>6, <4>2 DEF Due
      <4> QED
        BY <1>2, <2>1, <4>1, <4>3
    <3> QED
      BY <2>6, <3>1, <3>2, <3>4, <3>5
  <2>8. CASE l = "escalation"
    <3>1. Due(o)
      <4>1. queue'["relay"] = queue["relay"]
        BY <2>1, <2>4, <2>8
      <4> QED
        BY <2>1, <2>5, <2>6, <4>1 DEF Due, Passed
    <3>2. CASE inbox'[o] = inbox[o]
      BY <1>2, <2>1, <3>1, <3>2
    <3>3. ASSUME NEW a \in new, a.cmd \in Rules(e.topic), a.cmd.organ = o,
                 inbox'[o] = Append(inbox[o], a)
          PROVE  Settled(o)'
      <4>1. /\ o \in {"shim", "vault", "purge"}
            /\ o = "vault" => a.cmd.verb = "stop"
        BY <2>1, <2>8, <3>3, RulesOf
      <4>2. o # "purge"
        BY <2>4, ReflexAssumption DEF AllOrgans
      <4>3. o # "shim" /\ (o = "vault" => wanted[o].verb = "stop")
        BY <2>4, <2>5, <2>6 DEF Heard
      <4> QED
        BY <2>3, <2>4, <3>3, <4>1, <4>2, <4>3
    <3> QED
      BY <2>2, <2>4, <3>2, <3>3
  <2> QED
    BY <2>7, <2>8 DEF Loops
<1>13. ASSUME NEW a, Drained(a) \/ Deadline(a) \/ Tell(a) \/ TellFails(a)
       PROVE  Heeded'
  BY <1>4, <1>13 DEF Drained, Deadline, Tell, TellFails
<1>14. CASE UNCHANGED vars
  BY <1>4, <1>14 DEF vars
<1> QED
  BY <1>5, <1>6, <1>7, <1>8, <1>9, <1>10, <1>11, <1>12, <1>13, <1>14
     DEF Next, LoopStep, Loops

LEMMA InitHeard == Init => Heard /\ Heeded
<1> SUFFICES ASSUME Init
             PROVE  Heard /\ Heeded
  OBVIOUS
<1>1. /\ published["relay"] = 0 /\ queue["relay"] = <<>> /\ steady = {}
      /\ \A o \in Organs : wanted[o].at = 0 /\ wanted[o].verb = "stop"
  BY DEF Init, Nothing, Loops
<1>2. Items(queue["relay"]) = {}
  BY <1>1 DEF Items
<1> QED
  BY <1>1, <1>2 DEF Heard, Heeded

(* When the relay is quiet, an organ that was steady since the last event  *)
(* about it does what that event asked for, however long the loop waited,  *)
(* however many deadlines passed and whatever the other loop commanded,    *)
(* unless the event was lost (server.py, _relay_loop and _relay_one).      *)
THEOREM LastWordIsKept == Spec => []LastWordWins
<1> DEFINE IInv == Placed /\ Heard /\ Heeded
<1>1. Init => IInv
  BY InitPlaced, InitHeard
<1>2. IInv /\ [Next]_vars => IInv'
  BY NextPlaced, HeardStep, HeededStep
<1>3. IInv => LastWordWins
  <2> SUFFICES ASSUME IInv, NEW o \in steady, Quiet(o), wanted[o].at > 0,
                      published["relay"] - wanted[o].at < Buffer
               PROVE  o \in active <=> wanted[o].verb = "start"
    BY DEF LastWordWins
  <2>1. queue["relay"] = <<>> /\ inbox[o] = <<>>
    BY DEF Quiet
  <2>2. o \in Organs /\ published["relay"] \in Nat
    BY DEF Placed, TypeOK, Loops
  <2>3. Passed("relay") = published["relay"]
    BY <2>1, <2>2 DEF Passed
  <2>4. Due(o)
    BY <2>2, <2>3 DEF Due, Heard
  <2> QED
    BY <2>1, <2>4 DEF Heeded, Settled
<1> HIDE DEF IInv
<1> QED
  BY <1>1, <1>2, <1>3, PTL DEF Spec

=============================================================================
