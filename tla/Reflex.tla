------------------------------- MODULE Reflex -------------------------------
(***************************************************************************)
(* The reflexes of the core hub (core/server.py, RELAY_RULES, _relay_one   *)
(* to _relay_loop, _on_tether_escalation, _escalation_loop) and the trail  *)
(* they leave (core/audit.py).                                             *)
(*                                                                         *)
(* Two loops, each with a subscription of its own, take one event at a     *)
(* time, command the organs it calls for and wait for all of them.  Both   *)
(* may command the vault.  An organ takes its commands in the order of its *)
(* connection, when it likes: a command whose deadline has passed is still *)
(* carried out if the organ comes to it.  The shim is called over a new    *)
(* connection each time, with a deadline too.                              *)
(*                                                                         *)
(* The deadline begins once the command is sent.  If the transport of an   *)
(* organ is full, the call first waits in drain() for the organ to read,   *)
(* and nothing bounds that wait but the end of the connection.             *)
(***************************************************************************)
EXTENDS Integers, Sequences, FiniteSets, SequencesExt

CONSTANTS Organs,      \* those of AllOrgans that the instance has
          Buffer,      \* events a subscription holds
          MaxTrail,    \* AuditLog._max
          Reports,     \* topics the instance publishes
          MaxEvents,   \* bound on the events published
          MaxFaults,   \* bound on deaths, refusals and failing writes
          MayFill,     \* organs whose transport may be full
          UnlocksUntil \* the operator opens the vault only before an event
                       \* with this number

AllOrgans == {"vault", "chaff", "echo", "tether", "shim"}

ASSUME ReflexAssumption == /\ Organs \subseteq AllOrgans
                           /\ Buffer \in Nat \ {0}
                           /\ MaxTrail \in Nat \ {0}
                           /\ MaxEvents \in Nat
                           /\ MaxFaults \in Nat
                           /\ UnlocksUntil \in Nat

Loops == {"relay", "escalation"}

(* What an organ is told: start is chaff.generation.start, echo.start,     *)
(* tether.heighten and vault.unlock, stop is chaff.generation.stop,        *)
(* echo.stop and vault.lock, lock is shim.lock, trigger is purge.trigger.  *)
Verb == {"start", "stop", "lock", "trigger"}

On(o, verb) == [organ |-> o, verb |-> verb]

Command == [organ : AllOrgans \cup {"purge"}, verb : Verb]

(* RELAY_RULES and the ladder of _on_tether_escalation.                    *)
Topics(loop) == IF loop = "relay"
                  THEN {"detected", "cleared", "absent", "recovered"}
                  ELSE {"lock_screen", "lock_vaults", "trigger_purge"}

Rules(topic) ==
  CASE topic = "detected" -> {On("tether", "start"), On("vault", "stop"),
                              On("chaff", "start"), On("echo", "start")}
    [] topic \in {"cleared", "recovered"}
                          -> {On("chaff", "stop"), On("echo", "stop")}
    [] topic \in {"absent", "lock_vaults"} -> {On("vault", "stop")}
    [] topic = "lock_screen"               -> {On("shim", "lock")}
    [] topic = "trigger_purge"             -> {On("purge", "trigger")}

Targets(topic) == {c \in Rules(topic) : c.organ \in Organs \cup {"purge"}}

-----------------------------------------------------------------------------

VARIABLES queue,      \* per loop: the events in its subscription
          calls,      \* the commands of the events being handled
          up,         \* organs whose connection is attached
          inbox,      \* per organ: the commands on their way to it
          active,     \* organs that generate, shape, are heightened or open
          trail,      \* audit.jsonl
          published,  \* history: per loop, the events published
          wanted,     \* history: per organ, what the last event asked of it
          steady,     \* history: organs attached ever since that event that
                      \* refused nothing and were told nothing else
          done,       \* history: the commands of reflexes carried out
          lost,       \* history: the records that could not be written
          faults      \* history: deaths, refusals, writes that failed

vars == <<queue, calls, up, inbox, active, trail, published, wanted, steady,
          done, lost, faults>>

(* An event and a command it leads to are known by the loop and a number.  *)
Event == [loop : Loops, n : 1..MaxEvents,
          topic : Topics("relay") \cup Topics("escalation")]

Act == [loop : Loops, n : 1..MaxEvents, cmd : Command]

(* A call waits in drain(), then for its reply, or has its outcome.        *)
Waiting == {"drain", "sent"}

Outcome == {"ok", "error", "refused"}

CallState == Waiting \cup Outcome

Entry == [act : Act, outcome : Outcome]

(* n is 0 for a command of the operator.                                   *)
Operator == [loop |-> "relay", n |-> 0, cmd |-> On("vault", "start")]

Nothing == [at |-> 0, verb |-> "stop"]

TypeOK ==
  /\ queue \in [Loops -> Seq(Event)]
  /\ \A l \in Loops : Len(queue[l]) <= Buffer
  /\ DOMAIN calls \subseteq Act
  /\ \A a \in DOMAIN calls : calls[a] \in CallState
  /\ up \subseteq Organs
  /\ inbox \in [Organs -> Seq(Act \cup {Operator})]
  /\ active \subseteq up
  /\ trail \in Seq(Entry)
  /\ Len(trail) <= MaxTrail
  /\ published \in [Loops -> 0..MaxEvents]
  /\ wanted \in [Organs -> [at : 0..MaxEvents, verb : Verb]]
  /\ steady \subseteq up
  /\ done \subseteq Act
  /\ lost \in 0..faults
  /\ faults \in Nat

Init == /\ queue     = [l \in Loops |-> <<>>]
        /\ calls     = [a \in {} |-> "sent"]
        /\ up        = {}
        /\ inbox     = [o \in Organs |-> <<>>]
        /\ active    = {}
        /\ trail     = <<>>
        /\ published = [l \in Loops |-> 0]
        /\ wanted    = [o \in Organs |-> Nothing]
        /\ steady    = {}
        /\ done      = {}
        /\ lost      = 0
        /\ faults    = 0

-----------------------------------------------------------------------------
(* The organs.                                                             *)

Connect(o) ==
  /\ o \notin up
  /\ up'     = up \cup {o}
  /\ UNCHANGED <<queue, calls, inbox, active, trail, published, wanted, steady,
                 done, lost, faults>>

(* What the organ was doing ends with its process, and the core fails the  *)
(* calls that wait for it (_detach_module_writer); drain() raises.         *)
Die(o) ==
  /\ o \in up
  /\ faults < MaxFaults
  /\ faults' = faults + 1
  /\ up'     = up \ {o}
  /\ steady' = steady \ {o}
  /\ active' = active \ {o}
  /\ inbox'  = [inbox EXCEPT ![o] = <<>>]
  /\ calls'  = [a \in DOMAIN calls |->
                  IF a.cmd.organ = o /\ calls[a] \in Waiting
                    THEN "error" ELSE calls[a]]
  /\ UNCHANGED <<queue, trail, published, wanted, done, lost>>

ByTarget(a) == {b \in DOMAIN calls : b.cmd = a.cmd /\ calls[b] \in Waiting}
                                                  \* a mutant of Awaiting

(* The call an organ's reply belongs to, if it still waits.  An organ that *)
(* comes to a command has read all before it, which ends drain() too: what *)
(* was written since is far below the transport's mark.                    *)
Awaiting(a) == {b \in DOMAIN calls : b = a /\ calls[b] \in Waiting}

(* The organ comes to its next command and replies.                        *)
Perform(o) ==
  /\ inbox[o] # <<>>
  /\ LET a == Head(inbox[o])
     IN /\ inbox'  = [inbox EXCEPT ![o] = Tail(@)]
        /\ active' = CASE a.cmd.verb = "start" -> active \cup {o}
                       [] a.cmd.verb = "stop"  -> active \ {o}
                       [] a.cmd.verb = "lock"  -> active
        /\ done'   = IF a.n = 0 THEN done ELSE done \cup {a}
        /\ calls'  = [b \in DOMAIN calls |->
                        IF b \in Awaiting(a) THEN "ok" ELSE calls[b]]
  /\ UNCHANGED <<queue, up, trail, published, wanted, steady, lost, faults>>

(* It replies with an error, and does not do what it was told.             *)
Refuse(o) ==
  /\ inbox[o] # <<>>
  /\ faults < MaxFaults
  /\ faults' = faults + 1
  /\ inbox'  = [inbox EXCEPT ![o] = Tail(@)]
  /\ steady' = steady \ {o}
  /\ calls'  = [b \in DOMAIN calls |->
                  IF b \in Awaiting(Head(inbox[o])) THEN "error" ELSE calls[b]]
  /\ UNCHANGED <<queue, up, active, trail, published, wanted, done, lost>>

(* The operator opens the vault, and has the last word on it until the     *)
(* next event.  It is enough that nothing is on its way to the vault.      *)
OperatorUnlocks ==
  /\ "vault" \in up \ active
  /\ inbox["vault"] = <<>>
  /\ \A loop \in Loops : published[loop] < UnlocksUntil
  /\ inbox'  = [inbox EXCEPT !["vault"] = Append(@, Operator)]
  /\ steady' = steady \ {"vault"}
  /\ UNCHANGED <<queue, calls, up, active, trail, published, wanted, done,
                 lost, faults>>

-----------------------------------------------------------------------------
(* The loops.                                                              *)

DropNewest(q, e) == IF Len(q) < Buffer THEN Append(q, e) ELSE q
                                                  \* a mutant of Offered

(* The broker puts an event into a subscription; a full one loses its      *)
(* oldest.  The notice of that loss is an event without a rule, which the  *)
(* loops pass over.                                                        *)
Offered(q, e) == IF Len(q) < Buffer THEN Append(q, e) ELSE Append(Tail(q), e)

VerbFor(o, topic) == {c.verb : c \in {d \in Targets(topic) : d.organ = o}}

Publish(loop, topic) ==
  /\ published["relay"] + published["escalation"] < MaxEvents
  /\ LET n == published[loop] + 1
         told == {o \in Organs : loop = "relay" /\ VerbFor(o, topic) # {}}
     IN /\ published' = [published EXCEPT ![loop] = n]
        /\ queue' = [queue EXCEPT ![loop] =
                       Offered(@, [loop |-> loop, n |-> n, topic |-> topic])]
        /\ wanted' = [o \in Organs |->
                        IF o \in told
                          THEN [at |-> n, verb |-> CHOOSE v \in Verb :
                                                     v \in VerbFor(o, topic)]
                          ELSE wanted[o]]
        /\ steady' = (steady \ told) \cup (told \cap up)
  /\ UNCHANGED <<calls, up, inbox, active, trail, done, lost, faults>>

Of(loop) == {a \in DOMAIN calls : a.loop = loop}

(* What becomes of a call at once: the core never triggers PURGE itself.   *)
Sent(a, full) ==
  CASE a.cmd.verb = "trigger" -> "refused"
    [] a.cmd.verb # "trigger" /\ a.cmd.organ \notin up -> "error"
    [] a.cmd.verb # "trigger" /\ a.cmd.organ \in up \ full -> "sent"
    [] a.cmd.verb # "trigger" /\ a.cmd.organ \in up \cap full -> "drain"

(* _relay_one up to its first wait, for all targets of an event: the       *)
(* commands are written to the organs' connections, of which some are      *)
(* full; an organ that is away is an error at once.                        *)
Send(loop, e, full) ==
  LET acts == {[loop |-> loop, n |-> e.n, cmd |-> c] : c \in Targets(e.topic)}
      For(o) == {a \in acts : a.cmd.organ = o}
  IN /\ calls' = [a \in DOMAIN calls \cup acts |->
                    IF a \in acts THEN Sent(a, full) ELSE calls[a]]
     /\ inbox' = [o \in Organs |-> IF o \in up
                                     THEN inbox[o] \o SetToSeq(For(o))
                                     ELSE inbox[o]]

(* The loop takes its next event once all calls of the last are over.      *)
Take(loop) ==
  /\ queue[loop] # <<>>
  /\ Of(loop) = {}
  /\ \E full \in SUBSET (up \cap MayFill) :
       Send(loop, Head(queue[loop]), full)
  /\ queue' = [queue EXCEPT ![loop] = Tail(@)]
  /\ UNCHANGED <<up, active, trail, published, wanted, steady, done, lost,
                 faults>>

(* drain() returns: the organ reads.                                       *)
Drained(a) ==
  /\ a \in DOMAIN calls /\ calls[a] = "drain"
  /\ calls' = [calls EXCEPT ![a] = "sent"]
  /\ UNCHANGED <<queue, up, inbox, active, trail, published, wanted, steady,
                 done, lost, faults>>

OnlyIfAway(a) == a.cmd.organ \notin up            \* a mutant of Overdue

(* Every wait for a reply has a deadline.                                  *)
Overdue(a) == calls[a] = "sent"

Deadline(a) ==
  /\ a \in DOMAIN calls /\ calls[a] = "sent"
  /\ Overdue(a)
  /\ calls' = [calls EXCEPT ![a] = "error"]
  /\ UNCHANGED <<queue, up, inbox, active, trail, published, wanted, steady,
                 done, lost, faults>>

-----------------------------------------------------------------------------
(* The trail.                                                              *)

Untrimmed(entry) == Append(trail, entry)          \* a mutant of Recorded

(* record and _trim.                                                       *)
Recorded(entry) ==
  LET longer == Append(trail, entry)
  IN IF Len(longer) > MaxTrail THEN Tail(longer) ELSE longer

Over(a) == [b \in DOMAIN calls \ {a} |-> calls[b]]

(* The end of _relay_one: one record for each call, whatever came of it.   *)
Tell(a) ==
  /\ a \in DOMAIN calls /\ calls[a] \in Outcome
  /\ trail' = Recorded([act |-> a, outcome |-> calls[a]])
  /\ calls' = Over(a)
  /\ UNCHANGED <<queue, up, inbox, active, published, wanted, steady, done,
                 lost, faults>>

(* A record that cannot be written is forgotten (_audit).                  *)
TellFails(a) ==
  /\ a \in DOMAIN calls /\ calls[a] \in Outcome
  /\ faults < MaxFaults
  /\ faults' = faults + 1
  /\ lost'   = lost + 1
  /\ calls'  = Over(a)
  /\ UNCHANGED <<queue, up, inbox, active, trail, published, wanted, steady,
                 done>>

-----------------------------------------------------------------------------
LoopStep(loop) ==
  \/ Take(loop)
  \/ \E a \in Of(loop) : Deadline(a) \/ Tell(a) \/ TellFails(a)

Next == \/ \E o \in Organs : Connect(o) \/ Die(o) \/ Perform(o)
                               \/ Refuse(o)
        \/ OperatorUnlocks
        \/ \E loop \in Loops : \/ \E topic \in Topics(loop) \cap Reports :
                                    Publish(loop, topic)
                               \/ \E a \in Of(loop) : Drained(a)
                               \/ LoopStep(loop)

Spec == Init /\ [][Next]_vars

(* The event loop resumes who can run and its timers fire.  Nothing makes  *)
(* an organ come to its commands, or read: no fairness for Drained.        *)
FairSpec == Spec /\ \A loop \in Loops : WF_vars(LoopStep(loop))

-----------------------------------------------------------------------------
(* Properties.                                                             *)

(* When all is quiet, an organ that was steady since the last event about  *)
(* it does what that event asked for, however many deadlines passed and    *)
(* however many events a full subscription lost: a late start is never     *)
(* carried out after the stop that followed it (server.py, _relay_loop).   *)
Quiet(o) == queue["relay"] = <<>> /\ Of("relay") = {} /\ inbox[o] = <<>>

LastWordWins ==
  \A o \in steady :
    /\ Quiet(o)
    /\ wanted[o].at > 0
    /\ published["relay"] - wanted[o].at < Buffer
    => (o \in active <=> wanted[o].verb = "start")

(* The trail of the reflexes tells the truth.  A record that says "ok" is  *)
(* about a command that was carried out, never about one before it that    *)
(* the organ came to late; a command that was carried out is on the trail  *)
(* once its call is over, also if the core gave up on it, unless a write   *)
(* failed or the trail is full (audit.py, "every reflex"); and one loop's  *)
(* records are in the order of its events.                                 *)
TrailIsTrue ==
  LET Told == {trail[i].act : i \in DOMAIN trail}
  IN /\ \A i \in DOMAIN trail :
          trail[i].outcome = "ok" => trail[i].act \in done
     /\ Len(trail) < MaxTrail =>
          Cardinality((done \ DOMAIN calls) \ Told) <= lost
     /\ \A i, j \in DOMAIN trail :
          (i < j /\ trail[i].act.loop = trail[j].act.loop)
             => trail[i].act.n <= trail[j].act.n

(* A loop comes back to its next event, however long an organ is silent:   *)
(* a lost phone is acted upon while CHAFF hangs (_relay_handle).  The one  *)
(* exception is an organ that stays connected and does not read until its  *)
(* transport is full: it keeps the loop in drain() for ever                *)
(* (_issue_to_module).                                                     *)
LoopsComeBack ==
  \A loop \in Loops :
    \/ []<>(queue[loop] = <<>> /\ Of(loop) = {})
    \/ <>[](\E a \in Of(loop) : calls[a] = "drain")

=============================================================================
