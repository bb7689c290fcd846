------------------------------- MODULE Oracle -------------------------------
(***************************************************************************)
(* ORACLE (modules/oracle/oracle): a daemon that learns what the other     *)
(* modules do and, when asked, has a language model judge one event.       *)
(*                                                                         *)
(* Two coroutines serve one store.  "command" answers the requests routed  *)
(* to the module, one at a time; "events" feeds what the broker pushes to  *)
(* the observer, one at a time.  Their store calls run on worker threads   *)
(* and exclude one another by the store's lock, which is held for one call *)
(* and not from one call to the next.  A third coroutine sends heartbeats  *)
(* and shares nothing but the socket.                                      *)
(*                                                                         *)
(* Scores and thresholds are in tenths.  The model is asked once per       *)
(* request; nothing bounds the time it takes.                              *)
(***************************************************************************)
EXTENDS Integers, FiniteSets

CONSTANTS Top,               \* the score 1.0
          Hysteresis,        \* ANOMALY_HYSTERESIS
          DefaultThreshold,  \* DEFAULT_THRESHOLD
          Reported,          \* numbers the language model may report
          NaN,               \* the number that equals none
          Asked,             \* thresholds that threshold.set is called with
          MaxRows,           \* bound on the events stored
          MaxStarts          \* bound on the starts of the daemon

ASSUME OracleAssumption ==
         /\ Top \in Nat
         /\ Hysteresis \in Nat
         /\ DefaultThreshold \in 0..Top
         /\ Reported \subseteq Int \cup {NaN}
         /\ NaN \notin Int
         /\ Asked \subseteq Int
         /\ MaxRows \in Nat
         /\ MaxStarts \in Nat

VARIABLES up,         \* the process: "down", "up", or "closing"
          store,      \* the database file: what is committed
          seen,       \* the database as the daemon's connection reads it:
                      \* what is committed and the open transaction
          worker,     \* the two coroutines
          anomalous,  \* OracleClient._anomalous
          said,       \* history: the last signal sent, and about what
          agreed,     \* history: the threshold last acknowledged
          unanswered, \* history: those asked for since, which were not
          torn,       \* history: a row was left without its count
          starts      \* history: how often the daemon was started

thresholds == <<agreed, unanswered>>

vars == <<up, store, seen, worker, anomalous, said, thresholds, torn, starts>>

Workers == {"command", "events"}

(* baseline_meta has no threshold row until one is set.                    *)
Unset == -1

Store == [rows : Nat, count : Nat, threshold : (0..Top) \cup {Unset}]

(* Where a coroutine waits.  In "record" it has an event and no lock yet,  *)
(* in "commit" it is inside the transaction and holds the lock, in "count" *)
(* it is about to read the counter back, in "reply" it has a threshold     *)
(* committed and waits for the socket's lock.                              *)
Worker == {"idle", "record", "commit", "count", "classify", "ask", "query",
           "reply"}

Said == [signal : {"none", "detected", "cleared"}, score : 0..Top,
         since : BOOLEAN]      \* has the threshold in force moved since?

TypeOK == /\ up \in {"down", "up", "closing"}
          /\ store \in Store
          /\ seen \in Store
          /\ worker \in [Workers -> Worker]
          /\ anomalous \in BOOLEAN
          /\ said \in Said
          /\ agreed \in (0..Top) \cup {Unset}
          /\ unanswered \subseteq 0..Top
          /\ torn \in BOOLEAN
          /\ starts \in Nat

Empty == [rows |-> 0, count |-> 0, threshold |-> Unset]

Init == /\ up         = "down"
        /\ store      = Empty
        /\ seen       = Empty
        /\ worker     = [w \in Workers |-> "idle"]
        /\ anomalous  = FALSE
        /\ said       = [signal |-> "none", score |-> 0, since |-> FALSE]
        /\ agreed     = Unset
        /\ unanswered = {}
        /\ torn       = FALSE
        /\ starts     = 0

-----------------------------------------------------------------------------
(* The daemon's process.                                                   *)

Start == /\ up = "down"
         /\ starts < MaxStarts
         /\ up'        = "up"
         /\ starts'    = starts + 1
         /\ anomalous' = FALSE
         /\ UNCHANGED <<store, seen, worker, said, thresholds, torn>>

At(pcs) == {w \in Workers : worker[w] \in pcs}

(* The open transaction goes, and with it a threshold set in it.           *)
RolledBack ==
  /\ seen' = store
  /\ said' = [said EXCEPT !.since = @ \/ seen.threshold # store.threshold]

(* The process is killed.                                                  *)
Kill == /\ up # "down"
        /\ up' = "down"
        /\ RolledBack
        /\ worker' = [w \in Workers |-> "idle"]
        /\ UNCHANGED <<store, anomalous, thresholds, torn, starts>>

(* The coroutines are cancelled; a store call that a worker thread has     *)
(* begun goes on.                                                          *)
Cancelled(others) ==
  /\ up' = "closing"
  /\ \E begun \in SUBSET At({"record"}) :
       worker' = [w \in Workers |->
                    IF w \in others /\ w \in begun \cup At({"commit", "count"})
                      THEN worker[w] ELSE "idle"]

(* The core closes a socket, a write to one fails, or SIGTERM.             *)
Stop == /\ up = "up"
        /\ Cancelled(Workers)
        /\ UNCHANGED <<store, seen, anomalous, said, thresholds, torn, starts>>

(* The interpreter has waited for the worker threads, and closes the store.*)
Close == /\ up = "closing"
         /\ At({"record", "commit", "count"}) = {}
         /\ up' = "down"
         /\ RolledBack
         /\ UNCHANGED <<store, worker, anomalous, thresholds, torn, starts>>

-----------------------------------------------------------------------------
(* The observer: an event is stored, then the counter is read back.        *)

Goto(w, pc) == [worker EXCEPT ![w] = pc]


LockFree == At({"commit"}) = {}

(* An event for the observer, pushed by the broker ...  Events of ORACLE's *)
(* own change nothing and are left out.                                    *)
Observe(w) ==
  /\ up = "up"
  /\ worker[w] = "idle"
  /\ seen.rows + Cardinality(At({"record"})) < MaxRows
  /\ worker' = Goto(w, "record")
  /\ UNCHANGED <<up, store, seen, anomalous, said, thresholds, torn, starts>>

(* ... on the events socket, or brought by oracle.observe.                 *)
EventPushed  == Observe("events")
ObserveAsked == Observe("command")

InsertAlone(w) ==                                 \* a mutant of Insert
  /\ worker[w] = "record"
  /\ LockFree
  /\ seen'   = [seen EXCEPT !.rows = @ + 1]
  /\ store'  = seen'
  /\ worker' = Goto(w, "commit")
  /\ UNCHANGED <<up, anomalous, said, thresholds, torn, starts>>

(* record_event up to its INSERT, which opens a transaction if none is.    *)
Insert(w) ==
  /\ worker[w] = "record"
  /\ LockFree
  /\ seen'   = [seen EXCEPT !.rows = @ + 1]
  /\ worker' = Goto(w, "commit")
  /\ UNCHANGED <<up, store, anomalous, said, thresholds, torn, starts>>

Counted(s) == [s EXCEPT !.count = @ + 1]

(* set_meta("event_count", ...) commits the row and the counter together.  *)
Commit(w) ==
  /\ worker[w] = "commit"
  /\ seen'   = Counted(seen)
  /\ store'  = Counted(seen)
  /\ worker' = Goto(w, "count")
  /\ UNCHANGED <<up, anomalous, said, thresholds, torn, starts>>

(* A statement or the commit fails: SQLite rolls the transaction back, or  *)
(* the connection keeps it open with what was done in it, the row alone or *)
(* with its count; nobody rolls it back then.                              *)
WriteFails(w) ==
  \/ worker[w] \in {"record", "commit"} /\ RolledBack /\ UNCHANGED torn
  \/ worker[w] = "record" /\ UNCHANGED <<seen, said, torn>>
  \/ worker[w] = "commit" /\ torn' = TRUE /\ UNCHANGED <<seen, said>>
  \/ worker[w] = "commit" /\ seen' = Counted(seen) /\ UNCHANGED <<said, torn>>

(* oracle.observe is answered with an error; the coroutine of the events   *)
(* socket has no handler, and the daemon ends.                             *)
RecordFails(w) ==
  /\ worker[w] = "record" => LockFree
  /\ WriteFails(w)
  /\ IF w = "events" THEN Cancelled(Workers \ {w})
                     ELSE up' = up /\ worker' = Goto(w, "idle")
  /\ UNCHANGED <<store, anomalous, thresholds, starts>>

(* event_count(), a store call of its own, then the announcement on every  *)
(* BASELINE_EVERY-th count, which ORACLE does not take back, and the reply *)
(* of oracle.observe.  The two coroutines may both store before either     *)
(* reads the counter: an announcement is lost then, or made twice.         *)
ReadCount(w) ==
  /\ worker[w] = "count"
  /\ LockFree
  /\ worker' = Goto(w, "idle")
  /\ UNCHANGED <<up, store, seen, anomalous, said, thresholds, torn, starts>>

-----------------------------------------------------------------------------
(* The other requests.                                                     *)

(* A request that begins with reads of the store.                          *)
Request(pc) ==
  /\ up = "up"
  /\ worker["command"] = "idle"
  /\ LockFree
  /\ worker' = Goto("command", pc)
  /\ UNCHANGED <<up, store, seen, anomalous, said, thresholds, torn, starts>>

(* Its context is gathered, then the language model judges.                *)
Classify == Request("classify")

(* The language model chooses a query.                                     *)
Ask == Request("ask")

(* The two queries, and status.                                            *)
Query == Request("query")

(* Anything but a query the model named with its parameters ends as        *)
(* "unknown", which is an answer too.                                      *)
AskAnswered(query) ==
  /\ up = "up"
  /\ worker["command"] = "ask"
  /\ worker' = Goto("command", IF query THEN "query" ELSE "idle")
  /\ UNCHANGED <<up, store, seen, anomalous, said, thresholds, torn, starts>>

QueryAnswered ==
  /\ up = "up"
  /\ worker["command"] = "query"
  /\ LockFree
  /\ worker' = Goto("command", "idle")
  /\ UNCHANGED <<up, store, seen, anomalous, said, thresholds, torn, starts>>

SetUnchecked(t) ==                                \* a mutant of SetThreshold
  /\ up = "up"
  /\ worker["command"] = "idle"
  /\ LockFree
  /\ seen'       = [seen EXCEPT !.threshold = t]
  /\ store'      = [seen EXCEPT !.threshold = t]
  /\ said'       = [said EXCEPT !.since = TRUE]
  /\ unanswered' = unanswered \cup {t}
  /\ worker'     = Goto("command", "reply")
  /\ UNCHANGED <<up, anomalous, agreed, torn, starts>>

(* set_meta("threshold", ...) commits; the reply is still to be sent.  A   *)
(* value outside 0..1 is refused, which changes nothing.                   *)
SetThreshold(t) ==
  /\ up = "up"
  /\ worker["command"] = "idle"
  /\ LockFree
  /\ t \in 0..Top
  /\ seen'       = [seen EXCEPT !.threshold = t]
  /\ store'      = [seen EXCEPT !.threshold = t]
  /\ said'       = [said EXCEPT !.since = TRUE]
  /\ unanswered' = unanswered \cup {t}
  /\ worker'     = Goto("command", "reply")
  /\ UNCHANGED <<up, anomalous, agreed, torn, starts>>

(* The write fails and an error is the answer: the transaction is rolled   *)
(* back, or stays open without the new value or with it.                   *)
SetFails(t) ==
  /\ up = "up"
  /\ worker["command"] = "idle"
  /\ LockFree
  /\ t \in 0..Top
  /\ \/ RolledBack
     \/ UNCHANGED <<seen, said>>
     \/ /\ seen' = [seen EXCEPT !.threshold = t]
        /\ said' = [said EXCEPT !.since = TRUE]
  /\ unanswered' = unanswered \cup {t}
  /\ UNCHANGED <<up, store, worker, anomalous, agreed, torn, starts>>

(* _send_cmd has the socket's lock: the threshold is acknowledged.         *)
ReplySent ==
  /\ up = "up"
  /\ worker["command"] = "reply"
  /\ agreed'     = seen.threshold
  /\ unanswered' = {}
  /\ worker'     = Goto("command", "idle")
  /\ UNCHANGED <<up, store, seen, anomalous, said, torn, starts>>

-----------------------------------------------------------------------------
(* The judgement.                                                          *)

Threshold == IF seen.threshold # Unset THEN seen.threshold
                                       ELSE DefaultThreshold

(* What the model sends: a JSON object, one inside other text, one cut off *)
(* before its end, or no score at all.                                     *)
Form == {"object", "fenced", "cut", "noscore"}

(* _parse and _salvage: a score is recovered wherever there is one, except *)
(* that the pattern for a text cut off knows no NaN.                       *)
Recovered(form, number) ==
  CASE form \in {"object", "fenced"} -> TRUE
    [] form = "cut"                  -> number # NaN
    [] form = "noscore"              -> FALSE

(* max(0.0, min(1.0, score)), where min(1.0, nan) is 1.0.                  *)
Clamped(number) == IF number = NaN \/ number > Top THEN Top
                   ELSE IF number < 0 THEN 0 ELSE number

(* Ollama is down, or its answer holds no score: an error, no signal.      *)
NotJudged ==
  /\ up = "up"
  /\ worker["command"] = "classify"
  /\ worker' = Goto("command", "idle")
  /\ UNCHANGED <<up, store, seen, anomalous, said, thresholds, torn, starts>>

NoBand(score) ==                                  \* a mutant of Signalled
  IF score >= Threshold THEN "detected"
  ELSE IF anomalous /\ score < Threshold THEN "cleared"
  ELSE "none"

(* detected on every score from the threshold up, cleared once on the      *)
(* first that falls below the band under it.                               *)
Signalled(score) ==
  IF score >= Threshold THEN "detected"
  ELSE IF anomalous /\ score < Threshold - Hysteresis THEN "cleared"
  ELSE "none"

Judged(form, number) ==
  /\ up = "up"
  /\ worker["command"] = "classify"
  /\ LockFree
  /\ Recovered(form, number)
  /\ LET signal == Signalled(Clamped(number))
     IN /\ anomalous' = CASE signal = "detected" -> TRUE
                          [] signal = "cleared"  -> FALSE
                          [] OTHER               -> anomalous
        /\ said' = IF signal = "none" THEN said
                   ELSE [signal |-> signal, score |-> Clamped(number),
                         since |-> FALSE]
  /\ worker' = Goto("command", "idle")
  /\ UNCHANGED <<up, store, seen, thresholds, torn, starts>>

-----------------------------------------------------------------------------
StoreStep(w) == \/ Insert(w) \/ Commit(w) \/ ReadCount(w)
                \/ RecordFails(w)

Next == \/ Start \/ Kill \/ Stop \/ Close
        \/ EventPushed \/ ObserveAsked
        \/ \E w \in Workers : StoreStep(w)
        \/ Classify \/ Ask \/ Query
        \/ \E query \in BOOLEAN : AskAnswered(query)
        \/ QueryAnswered
        \/ \E t \in Asked : SetThreshold(t) \/ SetFails(t)
        \/ ReplySent
        \/ NotJudged
        \/ \E form \in Form, number \in Reported : Judged(form, number)

Spec == Init /\ [][Next]_vars

(* Worker threads run, the loop resumes who has waited, and the lock goes  *)
(* to each of the two who wait for it.  The language model may be silent   *)
(* for ever: generate() has no deadline.                                   *)
FairSpec == Spec /\ \A w \in Workers : /\ WF_vars(Commit(w))
                                       /\ SF_vars(Insert(w))
                                       /\ SF_vars(ReadCount(w))

-----------------------------------------------------------------------------
(* Properties.                                                             *)

(* What the daemon finds in its store, killed or stopped at any point: the *)
(* counter that oracle.status and the announcements go by is the number of *)
(* events stored, unless a write of the store failed after its INSERT,     *)
(* which leaves rows uncounted (baseline.py, record_event); the threshold  *)
(* it judges by, and the one it will judge by after a restart, is the one  *)
(* last acknowledged or one asked for since and left without a reply or    *)
(* answered with an error (detector.py, set_threshold; client.py,          *)
(* _on_command_frame).  Nothing acknowledged is lost.                      *)
StoreIsTrue ==
  /\ store.count <= store.rows
  /\ ~torn => store.count = store.rows
  /\ {seen.threshold, store.threshold} \subseteq {agreed} \cup unanswered

(* An all-clear follows an alarm, and no two follow the same alarm.        *)
AfterAnAlarm == said'.signal = "cleared" => said.signal = "detected"

(* Opposite signals come of scores further apart than the band, unless the *)
(* threshold in force moved between the two judgements.                    *)
OutsideTheBand ==
  (said.signal # "none" /\ said'.signal # said.signal /\ ~said.since)
    => \/ said'.score - said.score > Hysteresis
       \/ said.score - said'.score > Hysteresis

(* The signals are steady over any number of restarts: CHAFF and ECHO are  *)
(* told to stop once, and the model's wavering about one event does not    *)
(* start and stop them (client.py, _handle_classify and the comment on     *)
(* ANOMALY_HYSTERESIS).                                                    *)
SteadySignals ==
  [][(said' # said /\ ~said'.since) => AfterAnAlarm /\ OutsideTheBand]_vars


=============================================================================
