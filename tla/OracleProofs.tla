---------------------------- MODULE OracleProofs ----------------------------
(***************************************************************************)
(* Theorems about module Oracle, for every range of scores, band and       *)
(* default threshold, whatever the language model reports and the operator *)
(* asks for, over any number of rows and starts.                           *)
(***************************************************************************)
EXTENDS Oracle, TLAPS, FiniteSetTheorems

LEMMA ThresholdType == TypeOK => Threshold \in 0..Top
  BY OracleAssumption DEF TypeOK, Store, Threshold

LEMMA ClampedType ==
  ASSUME NEW number \in Reported
  PROVE  Clamped(number) \in 0..Top
  BY OracleAssumption DEF Clamped

(* The three ways the database as the connection reads it changes.         *)
LEMMA StoreEdits ==
  ASSUME NEW s \in Store
  PROVE  /\ [s EXCEPT !.rows = @ + 1] \in Store
         /\ [s EXCEPT !.rows = @ + 1].rows = s.rows + 1
         /\ [s EXCEPT !.rows = @ + 1].count = s.count
         /\ [s EXCEPT !.rows = @ + 1].threshold = s.threshold
         /\ Counted(s) \in Store
         /\ Counted(s).rows = s.rows
         /\ Counted(s).count = s.count + 1
         /\ Counted(s).threshold = s.threshold
         /\ \A t \in 0..Top :
              /\ [s EXCEPT !.threshold = t] \in Store
              /\ [s EXCEPT !.threshold = t].rows = s.rows
              /\ [s EXCEPT !.threshold = t].count = s.count
              /\ [s EXCEPT !.threshold = t].threshold = t
  BY DEF Store, Counted

(* Steps that touch neither the database nor what is remembered of it.     *)
Reads == \/ Stop \/ EventPushed \/ ObserveAsked
         \/ \E w \in Workers : ReadCount(w)
         \/ Classify \/ Ask \/ Query
         \/ \E query \in BOOLEAN : AskAnswered(query)
         \/ QueryAnswered \/ NotJudged

LEMMA ReadsStep ==
  ASSUME TypeOK, Reads
  PROVE  /\ UNCHANGED <<store, seen, anomalous, said, thresholds, torn,
                        starts>>
         /\ up' = up \/ (up = "up" /\ up' = "closing")
         /\ worker' \in [Workers -> Worker]
         /\ \A w \in Workers :
              /\ worker'[w] \in {"record", "commit"}
                   => worker'[w] = worker[w] \/ worker[w] = "idle"
              /\ worker'[w] = "commit" => worker[w] = "commit"
              /\ worker[w] = "commit" => worker'[w] = "commit"
              /\ worker'[w] = "reply" => worker[w] = "reply"
<1> USE DEF TypeOK, Workers, Worker, Goto
<1>1. CASE Stop
  <2>1. PICK begun \in SUBSET At({"record"}) :
          worker' = [w \in Workers |->
                       IF w \in Workers
                            /\ w \in begun \cup At({"commit", "count"})
                         THEN worker[w] ELSE "idle"]
    BY <1>1 DEF Stop, Cancelled
  <2> QED
    BY <1>1, <2>1 DEF Stop, Cancelled, At
<1>2. CASE EventPushed \/ ObserveAsked
  BY <1>2 DEF EventPushed, ObserveAsked, Observe
<1>3. ASSUME NEW w \in Workers, ReadCount(w)
      PROVE  ReadCount(w) /\ UNCHANGED <<up, store, seen, anomalous, said,
                                         thresholds, torn, starts>>
             /\ worker' = [worker EXCEPT ![w] = "idle"] /\ worker[w] = "count"
  BY <1>3 DEF ReadCount
<1>4. CASE Classify \/ Ask \/ Query
  BY <1>4 DEF Classify, Ask, Query, Request
<1>5. ASSUME NEW query \in BOOLEAN, AskAnswered(query)
      PROVE  UNCHANGED <<up, store, seen, anomalous, said, thresholds, torn,
                         starts>>
             /\ worker["command"] = "ask"
             /\ \E pc \in {"idle", "query"} :
                  worker' = [worker EXCEPT !["command"] = pc]
  BY <1>5 DEF AskAnswered
<1>6. CASE QueryAnswered
  BY <1>6 DEF QueryAnswered
<1>7. CASE NotJudged
  BY <1>7 DEF NotJudged
<1> QED
  BY <1>1, <1>2, <1>3, <1>4, <1>5, <1>6, <1>7 DEF Reads

LEMMA RolledBackType ==
  ASSUME TypeOK, RolledBack
  PROVE  /\ seen' \in Store /\ said' \in Said
         /\ said'.signal = said.signal /\ said'.score = said.score
         /\ said.since => said'.since
         /\ ~said'.since => seen'.threshold = seen.threshold
<1>1. /\ said \in [signal : {"none", "detected", "cleared"}, score : 0..Top,
                   since : BOOLEAN]
      /\ (said.since \/ seen.threshold # store.threshold) \in BOOLEAN
  BY DEF TypeOK, Said
<1>2. said' = [said EXCEPT !.since = said.since
                                       \/ seen.threshold # store.threshold]
      /\ seen' = store
  BY DEF RolledBack
<1> QED
  BY <1>1, <1>2 DEF TypeOK, Said

-----------------------------------------------------------------------------
(* Types, action by action.                                                *)

LEMMA GotoType ==
  ASSUME TypeOK, NEW w \in Workers, NEW pc \in Worker, worker' = Goto(w, pc)
  PROVE  /\ worker' \in [Workers -> Worker]
         /\ worker'[w] = pc
         /\ \A v \in Workers \ {w} : worker'[v] = worker[v]
  BY DEF TypeOK, Goto

LEMMA CancelledType ==
  ASSUME TypeOK, NEW others \in SUBSET Workers, Cancelled(others)
  PROVE  /\ up' = "closing"
         /\ worker' \in [Workers -> Worker]
         /\ \A w \in Workers :
              /\ worker'[w] \in {"idle", worker[w]}
              /\ worker'[w] # "reply"
              /\ w \notin others => worker'[w] = "idle"
              /\ w \in others /\ worker[w] = "commit" => worker'[w] = "commit"
<1>1. PICK begun \in SUBSET At({"record"}) :
        worker' = [w \in Workers |->
                     IF /\ w \in others
                        /\ w \in begun \cup At({"commit", "count"})
                       THEN worker[w] ELSE "idle"]
  BY DEF Cancelled
<1>2. \A w \in Workers : w \in begun => worker[w] = "record"
  BY <1>1 DEF At
<1> QED
  BY <1>1, <1>2 DEF Cancelled, At, TypeOK, Workers, Worker

(* What a write that fails leaves behind.                                  *)
LEMMA RecordFailsStep ==
  ASSUME TypeOK, NEW w \in Workers, RecordFails(w)
  PROVE  /\ seen' \in Store /\ torn' \in BOOLEAN
         /\ \/ RolledBack
            \/ UNCHANGED said /\ seen'.threshold = seen.threshold
         /\ \/ seen' = store /\ UNCHANGED torn
            \/ worker[w] = "record" /\ UNCHANGED <<seen, torn>>
            \/ worker[w] = "commit" /\ torn' = TRUE /\ UNCHANGED seen
            \/ worker[w] = "commit" /\ seen' = Counted(seen) /\ UNCHANGED torn
         /\ worker[w] = "record" => LockFree
         /\ worker[w] \in {"record", "commit"}
         /\ up' \in {"down", "up", "closing"}
         /\ worker' \in [Workers -> Worker]
         /\ worker'[w] = "idle"
         /\ \A v \in Workers : worker'[v] \in {"idle", worker[v]}
         /\ UNCHANGED <<store, anomalous, thresholds, starts>>
<1>1. WriteFails(w) /\ UNCHANGED <<store, anomalous, thresholds, starts>>
      /\ (worker[w] = "record" => LockFree)
  BY DEF RecordFails
<1>2. seen' \in Store
  <2>1. RolledBack => seen' \in Store
    BY RolledBackType
  <2> QED
    BY <1>1, <2>1, StoreEdits DEF WriteFails, TypeOK
<1>3. torn' \in BOOLEAN
  <2>1. torn' = torn \/ torn' = TRUE
    BY <1>1 DEF WriteFails
  <2> QED
    BY <2>1, Zenon DEF TypeOK
<1>4. \/ RolledBack
      \/ UNCHANGED said /\ seen'.threshold = seen.threshold
  BY <1>1, StoreEdits DEF WriteFails, TypeOK
<1>5. \/ seen' = store /\ UNCHANGED torn
      \/ worker[w] = "record" /\ UNCHANGED <<seen, torn>>
      \/ worker[w] = "commit" /\ torn' = TRUE /\ UNCHANGED seen
      \/ worker[w] = "commit" /\ seen' = Counted(seen) /\ UNCHANGED torn
  BY <1>1 DEF WriteFails, RolledBack
<1>6. /\ up' \in {"down", "up", "closing"}
      /\ worker' \in [Workers -> Worker]
      /\ worker'[w] = "idle"
      /\ \A v \in Workers : worker'[v] \in {"idle", worker[v]}
  <2>1. CASE w = "events"
    <3>1. Cancelled(Workers \ {w})
      BY <2>1 DEF RecordFails
    <3> QED
      BY <3>1, CancelledType
  <2>2. CASE w # "events"
    <3>1. up' = up /\ worker' = Goto(w, "idle")
      BY <2>2 DEF RecordFails
    <3>2. "idle" \in Worker
      BY DEF Worker
    <3> QED
      BY <3>1, <3>2, GotoType DEF TypeOK
  <2> QED
    BY <2>1, <2>2
<1> QED
  BY <1>1, <1>2, <1>3, <1>4, <1>5, <1>6 DEF WriteFails

LEMMA InitType == Init => TypeOK
<1> SUFFICES ASSUME Init
             PROVE  TypeOK
  OBVIOUS
<1>1. 0 \in 0..Top
  BY OracleAssumption
<1>2. store \in Store /\ seen \in Store
  BY DEF Init, Store, Empty
<1>3. worker \in [Workers -> Worker]
  BY DEF Init, Worker
<1>4. said \in Said
  BY <1>1 DEF Init, Said
<1>5. anomalous \in BOOLEAN /\ torn \in BOOLEAN
  BY Zenon DEF Init
<1> QED
  BY <1>2, <1>3, <1>4, <1>5 DEF Init, TypeOK

LEMMA NextType == TypeOK /\ [Next]_vars => TypeOK'
<1> SUFFICES ASSUME TypeOK, [Next]_vars
             PROVE  TypeOK'
  OBVIOUS
<1> USE DEF thresholds
<1>1. CASE Reads
  BY <1>1, ReadsStep DEF TypeOK
<1>2. CASE Start
  <2>1. /\ up' = "up" /\ anomalous' = FALSE /\ starts' = starts + 1
        /\ UNCHANGED <<store, seen, worker, said, thresholds, torn>>
    BY <1>2 DEF Start
  <2>2. anomalous' \in BOOLEAN
    BY <2>1, Zenon
  <2> QED
    BY <2>1, <2>2 DEF TypeOK
<1>3. CASE Kill \/ Close
  <2>1. /\ up' = "down" /\ RolledBack
        /\ UNCHANGED <<store, anomalous, thresholds, torn, starts>>
        /\ worker' = worker \/ worker' = [w \in Workers |-> "idle"]
    BY <1>3 DEF Kill, Close
  <2>2. worker' \in [Workers -> Worker]
    BY <2>1 DEF TypeOK, Worker
  <2> QED
    BY <2>1, <2>2, RolledBackType DEF TypeOK
<1>4. ASSUME NEW w \in Workers, Insert(w)
      PROVE  TypeOK'
  <2>1. "commit" \in Worker
    BY DEF Worker
  <2> QED
    BY <1>4, <2>1, GotoType, StoreEdits DEF Insert, TypeOK
<1>5. ASSUME NEW w \in Workers, Commit(w)
      PROVE  TypeOK'
  <2>1. "count" \in Worker
    BY DEF Worker
  <2> QED
    BY <1>5, <2>1, GotoType, StoreEdits DEF Commit, TypeOK
<1>6. ASSUME NEW w \in Workers, RecordFails(w)
      PROVE  TypeOK'
  BY <1>6, RecordFailsStep, RolledBackType DEF TypeOK
<1>7. ASSUME NEW t \in Asked, SetThreshold(t)
      PROVE  TypeOK'
  <2>1. /\ "command" \in Workers /\ "reply" \in Worker
        /\ [said EXCEPT !.since = TRUE] \in Said
    BY DEF Workers, Worker, TypeOK, Said
  <2> QED
    BY <1>7, <2>1, GotoType, StoreEdits DEF SetThreshold, TypeOK
<1>8. ASSUME NEW t \in Asked, SetFails(t)
      PROVE  TypeOK'
  <2>1. [said EXCEPT !.since = TRUE] \in Said
    BY DEF TypeOK, Said
  <2>2. seen' \in Store /\ said' \in Said
    BY <1>8, <2>1, RolledBackType, StoreEdits DEF SetFails, TypeOK
  <2> QED
    BY <1>8, <2>2 DEF SetFails, TypeOK
<1>9. CASE ReplySent
  <2>1. "command" \in Workers /\ "idle" \in Worker
    BY DEF Workers, Worker
  <2>2. seen.threshold \in (0..Top) \cup {Unset}
    BY DEF TypeOK, Store
  <2> QED
    BY <1>9, <2>1, <2>2, GotoType DEF ReplySent, TypeOK
<1>10. ASSUME NEW form \in Form, NEW number \in Reported, Judged(form, number)
       PROVE  TypeOK'
  <2>1. "command" \in Workers /\ "idle" \in Worker
    BY DEF Workers, Worker
  <2>2. said' \in Said
    BY <1>10, ClampedType DEF Judged, Signalled, TypeOK, Said
  <2>3. anomalous' \in BOOLEAN
    <3>1. anomalous' = TRUE \/ anomalous' = FALSE \/ anomalous' = anomalous
      BY <1>10 DEF Judged
    <3> QED
      BY <3>1, Zenon DEF TypeOK
  <2> QED
    BY <1>10, <2>1, <2>2, <2>3, GotoType DEF Judged, TypeOK
<1>11. CASE UNCHANGED vars
  BY <1>11 DEF vars, TypeOK
<1> QED
  BY <1>1, <1>2, <1>3, <1>4, <1>5, <1>6, <1>7, <1>8, <1>9, <1>10, <1>11
  DEF Next, StoreStep, Reads

(* Every variable keeps its type (client.py, baseline.py).                 *)
THEOREM TypeInvariant == Spec => []TypeOK
<1>1. Init => TypeOK
  BY InitType
<1>2. TypeOK /\ [Next]_vars => TypeOK'
  BY NextType
<1> QED
  BY <1>1, <1>2, PTL DEF Spec

-----------------------------------------------------------------------------
(* The accounts of the store: n rows are still without their count, and    *)
(* more only after a write that failed half way.                           *)
Balanced(s, n) == /\ s.count + n <= s.rows
                  /\ ~torn => s.count + n = s.rows

(* One coroutine at a time is inside a transaction.                        *)
Alone == \A v, w \in Workers :
           worker[v] = "commit" /\ worker[w] = "commit" => v = w

Kept == /\ Alone
        /\ Balanced(store, 0)
        /\ Balanced(seen, IF LockFree THEN 0 ELSE 1)
        /\ {seen.threshold, store.threshold} \subseteq {agreed} \cup unanswered
        /\ worker["command"] = "reply" => seen.threshold = store.threshold

LEMMA LockIsFree == LockFree <=> \A w \in Workers : worker[w] # "commit"
  BY DEF LockFree, At

LEMMA LockWillBeFree ==
  LockFree' <=> \A w \in Workers : worker'[w] # "commit"
  BY DEF LockFree, At

LEMMA NextKept == TypeOK /\ Kept /\ [Next]_vars => Kept'
<1> SUFFICES ASSUME TypeOK, Kept, [Next]_vars
             PROVE  Kept'
  OBVIOUS
<1> USE LockIsFree, LockWillBeFree DEF thresholds
<1>1. /\ store \in Store /\ seen \in Store /\ "command" \in Workers
      /\ store.rows \in Nat /\ store.count \in Nat
      /\ seen.rows \in Nat /\ seen.count \in Nat
  BY DEF TypeOK, Store, Workers
<1>2. CASE Reads
  <2>1. Alone' /\ (LockFree' <=> LockFree)
    BY <1>2, ReadsStep DEF Kept, Alone
  <2> QED
    BY <1>1, <1>2, <2>1, ReadsStep DEF Kept, Balanced
<1>3. CASE Start
  BY <1>1, <1>3 DEF Start, Kept, Alone, Balanced
<1>4. CASE Kill \/ Close
  <2>1. /\ seen' = store /\ UNCHANGED <<store, thresholds, torn>>
    BY <1>4 DEF Kill, Close, RolledBack
  <2>2. \A w \in Workers : worker'[w] # "commit"
    BY <1>4 DEF Kill, Close, At
  <2> QED
    BY <1>1, <2>1, <2>2 DEF Kept, Alone, Balanced
<1>5. ASSUME NEW w \in Workers, Insert(w)
      PROVE  Kept'
  <2>1. "commit" \in Worker
    BY DEF Worker
  <2>2. /\ worker'[w] = "commit"
        /\ \A v \in Workers \ {w} : worker'[v] = worker[v]
        /\ LockFree
        /\ seen' = [seen EXCEPT !.rows = @ + 1]
        /\ UNCHANGED <<store, thresholds, torn>>
    BY <1>5, <2>1, GotoType DEF Insert
  <2>3. Alone' /\ ~LockFree'
    BY <2>2 DEF Alone
  <2>4. worker'["command"] = "reply" => worker["command"] = "reply"
    BY <1>1, <2>2
  <2> QED
    BY <1>1, <2>2, <2>3, <2>4, StoreEdits DEF Kept, Balanced
<1>6. ASSUME NEW w \in Workers, Commit(w)
      PROVE  Kept'
  <2>1. "count" \in Worker
    BY DEF Worker
  <2>2. /\ worker[w] = "commit" /\ worker'[w] = "count"
        /\ \A v \in Workers \ {w} : worker'[v] = worker[v]
        /\ seen' = Counted(seen) /\ store' = Counted(seen)
        /\ UNCHANGED <<thresholds, torn>>
    BY <1>6, <2>1, GotoType DEF Commit
  <2>3. Alone' /\ ~LockFree /\ LockFree'
    BY <2>2 DEF Kept, Alone
  <2>4. Balanced(seen, 1)
    BY <2>3 DEF Kept
  <2>5. Balanced(seen, 0)' /\ Balanced(store, 0)'
    <3>1. /\ seen'.rows = seen.rows /\ seen'.count = seen.count + 1
          /\ store' = seen' /\ torn' = torn
      BY <1>1, <2>2, StoreEdits
    <3>2. seen'.count + 0 = seen.count + 1
      BY <1>1, <3>1
    <3> QED
      BY <2>4, <3>1, <3>2 DEF Balanced
  <2>6. seen'.threshold = seen.threshold /\ store'.threshold = seen.threshold
    BY <1>1, <2>2, StoreEdits
  <2> QED
    BY <2>2, <2>3, <2>5, <2>6 DEF Kept
<1>7. ASSUME NEW w \in Workers, RecordFails(w)
      PROVE  Kept'
  <2>1. Alone' /\ LockFree'
    BY <1>7, RecordFailsStep DEF Kept, Alone
  <2>2. worker'["command"] = "reply" => worker["command"] = "reply"
    BY <1>1, <1>7, RecordFailsStep
  <2>3. Balanced(store, 0)' /\ Balanced(seen, 0)'
    <3>1. Balanced(store, 0) /\ store' = store
      BY <1>7, RecordFailsStep DEF Kept
    <3>2. torn' = torn \/ torn' = TRUE
      BY <1>7, RecordFailsStep
    <3>3. Balanced(store, 0)'
      BY <3>1, <3>2 DEF Balanced
    <3>4. CASE seen' = store /\ UNCHANGED torn
      BY <3>1, <3>3, <3>4 DEF Balanced
    <3>5. CASE worker[w] = "record" /\ UNCHANGED <<seen, torn>>
      <4>1. Balanced(seen, 0)
        BY <1>7, <3>5, RecordFailsStep DEF Kept
      <4> QED
        BY <3>3, <3>5, <4>1 DEF Balanced
    <3>6. CASE worker[w] = "commit" /\ torn' = TRUE /\ UNCHANGED seen
      <4>1. Balanced(seen, 1)
        BY <3>6 DEF Kept
      <4>2. seen.count + 0 <= seen.rows
        BY <1>1, <4>1 DEF Balanced
      <4> QED
        BY <3>3, <3>6, <4>2 DEF Balanced
    <3>7. CASE worker[w] = "commit" /\ seen' = Counted(seen)
               /\ UNCHANGED torn
      <4>1. Balanced(seen, 1)
        BY <3>7 DEF Kept
      <4>2. seen'.rows = seen.rows /\ seen'.count = seen.count + 1
        BY <1>1, <3>7, StoreEdits
      <4>3. seen'.count + 0 = seen.count + 1
        BY <1>1, <4>2
      <4> QED
        BY <3>3, <3>7, <4>1, <4>2, <4>3 DEF Balanced
    <3> QED
      BY <1>7, <3>3, <3>4, <3>5, <3>6, <3>7, RecordFailsStep
  <2>4. seen'.threshold \in {seen.threshold, store.threshold}
        /\ (seen.threshold = store.threshold
              => seen'.threshold = store.threshold)
    BY <1>1, <1>7, RecordFailsStep DEF RolledBack
  <2> QED
    BY <1>7, <2>1, <2>2, <2>3, <2>4, RecordFailsStep DEF Kept
<1>8. ASSUME NEW t \in Asked, SetThreshold(t)
      PROVE  Kept'
  <2>1. "reply" \in Worker
    BY DEF Worker
  <2>2. /\ worker'["command"] = "reply" /\ LockFree
        /\ \A v \in Workers \ {"command"} : worker'[v] = worker[v]
        /\ t \in 0..Top
        /\ seen' = [seen EXCEPT !.threshold = t] /\ store' = seen'
        /\ agreed' = agreed /\ unanswered' = unanswered \cup {t}
        /\ torn' = torn
    BY <1>1, <1>8, <2>1, GotoType DEF SetThreshold
  <2>3. Alone' /\ LockFree'
    BY <2>2 DEF Alone
  <2> QED
    BY <1>1, <2>2, <2>3, StoreEdits DEF Kept, Balanced
<1>9. ASSUME NEW t \in Asked, SetFails(t)
      PROVE  Kept'
  <2>1. /\ worker' = worker /\ store' = store /\ torn' = torn /\ LockFree
        /\ agreed' = agreed /\ unanswered' = unanswered \cup {t}
        /\ worker["command"] = "idle" /\ t \in 0..Top
        /\ seen' \in {store, seen, [seen EXCEPT !.threshold = t]}
    BY <1>9 DEF SetFails, RolledBack
  <2>2. Alone' /\ LockFree'
    BY <2>1 DEF Kept, Alone
  <2>3. Balanced(seen, 0) /\ Balanced(store, 0)
    BY <2>1 DEF Kept
  <2>4. seen'.threshold \in {store.threshold, seen.threshold, t}
        /\ Balanced(seen, 0)' /\ Balanced(store, 0)'
    <3>1. CASE seen' \in {store, seen}
      BY <2>1, <2>3, <3>1 DEF Balanced
    <3>2. CASE seen' = [seen EXCEPT !.threshold = t]
      <4>1. /\ seen'.rows = seen.rows /\ seen'.count = seen.count
            /\ seen'.threshold = t
        BY <1>1, <2>1, <3>2, StoreEdits
      <4> QED
        BY <2>1, <2>3, <4>1 DEF Balanced
    <3> QED
      BY <2>1, <3>1, <3>2
  <2> QED
    BY <2>1, <2>2, <2>4 DEF Kept
<1>10. CASE ReplySent
  <2>1. "idle" \in Worker
    BY DEF Worker
  <2>2. /\ worker["command"] = "reply" /\ worker'["command"] = "idle"
        /\ \A v \in Workers \ {"command"} : worker'[v] = worker[v]
        /\ agreed' = seen.threshold /\ UNCHANGED <<seen, store, torn>>
    BY <1>1, <1>10, <2>1, GotoType DEF ReplySent
  <2>3. Alone' /\ (LockFree' <=> LockFree)
    BY <2>2 DEF Kept, Alone
  <2> QED
    BY <1>1, <2>2, <2>3 DEF Kept, Balanced
<1>11. ASSUME NEW form \in Form, NEW number \in Reported, Judged(form, number)
       PROVE  Kept'
  <2>1. "idle" \in Worker
    BY DEF Worker
  <2>2. /\ worker["command"] = "classify" /\ worker'["command"] = "idle"
        /\ \A v \in Workers \ {"command"} : worker'[v] = worker[v]
        /\ UNCHANGED <<seen, store, thresholds, torn>>
    BY <1>1, <1>11, <2>1, GotoType DEF Judged
  <2>3. Alone' /\ (LockFree' <=> LockFree)
    BY <2>2 DEF Kept, Alone
  <2> QED
    BY <1>1, <2>2, <2>3 DEF Kept, Balanced
<1>12. CASE UNCHANGED vars
  BY <1>1, <1>12 DEF vars, Kept, Alone, Balanced
<1> QED
  BY <1>2, <1>3, <1>4, <1>5, <1>6, <1>7, <1>8, <1>9, <1>10, <1>11, <1>12
  DEF Next, StoreStep, Reads

(* Killed or stopped at any point, the daemon finds in its store as many   *)
(* rows as it counts, unless a write failed half way, and the threshold    *)
(* last acknowledged or one asked for since (baseline.py, record_event;    *)
(* detector.py, set_threshold; client.py, _on_command_frame).              *)
THEOREM StoreInvariant == Spec => []StoreIsTrue
<1>1. Init => Kept
  BY DEF Init, Empty, Kept, Alone, Balanced, LockFree, At, Workers
<1>2. TypeOK /\ Kept /\ [Next]_vars => Kept'
  BY NextKept
<1>3. TypeOK /\ Kept => StoreIsTrue
  BY DEF TypeOK, Store, Kept, Balanced, StoreIsTrue
<1> QED
  BY <1>1, <1>2, <1>3, TypeInvariant, PTL DEF Spec

-----------------------------------------------------------------------------
(* What is remembered agrees with what was said: the flag is set only      *)
(* after an alarm, and as long as the threshold has not moved the last     *)
(* score lies on the side of it that was announced.                        *)
Remembered ==
  /\ anomalous => said.signal = "detected"
  /\ (~said.since /\ said.signal = "detected") => said.score >= Threshold
  /\ (~said.since /\ said.signal = "cleared")
       => said.score < Threshold - Hysteresis

(* A step that is no judgement says nothing new, and moves the threshold   *)
(* in force only with a note of it.                                        *)
LEMMA SignalSteps ==
  ASSUME TypeOK, [Next]_vars,
         \A form \in Form, number \in Reported : ~Judged(form, number)
  PROVE  /\ said'.signal = said.signal
         /\ ~said'.since => said' = said /\ Threshold' = Threshold
         /\ anomalous' => anomalous
<1> SUFFICES /\ anomalous' => anomalous
             /\ \/ said' = said /\ seen'.threshold = seen.threshold
                \/ RolledBack
                \/ said' = [said EXCEPT !.since = TRUE]
  <2>1. ASSUME RolledBack
        PROVE  /\ said'.signal = said.signal
               /\ ~said'.since => said' = said
                                  /\ seen'.threshold = seen.threshold
    <3>1. said \in Said /\ said.since \in BOOLEAN
      BY DEF TypeOK, Said
    <3>2. said' = [said EXCEPT !.since = said.since
                               \/ seen.threshold # store.threshold]
      BY <2>1 DEF RolledBack
    <3>3. said'.since = (said.since \/ seen.threshold # store.threshold)
      BY <3>1, <3>2 DEF Said
    <3>4. ASSUME ~said'.since
          PROVE  said' = said
      <4>1. (said.since \/ seen.threshold # store.threshold) = said.since
        BY <3>1, <3>3, <3>4
      <4>2. said' = [said EXCEPT !.since = said.since]
        BY <3>2, <4>1
      <4> QED
        BY <3>1, <4>2 DEF Said
    <3> QED
      BY <2>1, <3>4, RolledBackType
  <2>2. ASSUME said' = [said EXCEPT !.since = TRUE]
        PROVE  said'.signal = said.signal /\ said'.since
    BY <2>2 DEF TypeOK, Said
  <2>3. seen'.threshold = seen.threshold => Threshold' = Threshold
    BY DEF Threshold
  <2> QED
    BY <2>1, <2>2, <2>3
<1>1. CASE Reads
  BY <1>1, ReadsStep
<1>2. CASE Start \/ Kill \/ Close
  BY <1>2 DEF Start, Kill, Close
<1>3. ASSUME NEW w \in Workers, Insert(w) \/ Commit(w)
      PROVE  /\ anomalous' = anomalous /\ said' = said
             /\ seen'.threshold = seen.threshold
  BY <1>3, StoreEdits DEF Insert, Commit, TypeOK
<1>4. ASSUME NEW w \in Workers, RecordFails(w)
      PROVE  /\ anomalous' = anomalous
             /\ \/ RolledBack
                \/ said' = said /\ seen'.threshold = seen.threshold
  BY <1>4, RecordFailsStep
<1>5. ASSUME NEW t \in Asked, SetThreshold(t) \/ SetFails(t)
      PROVE  /\ anomalous' = anomalous
             /\ \/ RolledBack
                \/ said' = said /\ seen'.threshold = seen.threshold
                \/ said' = [said EXCEPT !.since = TRUE]
  BY <1>5 DEF SetThreshold, SetFails
<1>6. CASE ReplySent
  BY <1>6 DEF ReplySent
<1>7. CASE UNCHANGED vars
  BY <1>7 DEF vars
<1> QED
  BY <1>1, <1>2, <1>3, <1>4, <1>5, <1>6, <1>7 DEF Next, StoreStep, Reads

(* What a judgement does, with its score and the threshold it went by.     *)
LEMMA JudgedStep ==
  ASSUME TypeOK,
         NEW form \in Form, NEW number \in Reported, Judged(form, number)
  PROVE  /\ Threshold' = Threshold
         /\ \/ said' = said /\ anomalous' = anomalous
            \/ /\ said'.signal = "detected" /\ ~said'.since
               /\ said'.score \in 0..Top
               /\ said'.score >= Threshold
            \/ /\ said'.signal = "cleared" /\ ~said'.since
               /\ said'.score \in 0..Top
               /\ said'.score < Threshold - Hysteresis
               /\ anomalous /\ ~anomalous'
<1> DEFINE score == Clamped(number)
<1>1. score \in 0..Top
  BY ClampedType
<1>2. Threshold' = Threshold
  BY DEF Judged, Threshold
<1>3. CASE Signalled(score) = "detected"
  BY <1>1, <1>2, <1>3, ThresholdType, OracleAssumption
  DEF Judged, Signalled
<1>4. CASE Signalled(score) = "cleared"
  BY <1>1, <1>2, <1>4, ThresholdType, OracleAssumption
  DEF Judged, Signalled, TypeOK
<1>5. CASE Signalled(score) = "none"
  BY <1>2, <1>5 DEF Judged
<1> QED
  BY <1>3, <1>4, <1>5 DEF Signalled

LEMMA NextRemembered == TypeOK /\ Remembered /\ [Next]_vars => Remembered'
<1> SUFFICES ASSUME TypeOK, Remembered, [Next]_vars
             PROVE  Remembered'
  OBVIOUS
<1>1. ASSUME NEW form \in Form, NEW number \in Reported,
             Judged(form, number)
      PROVE  Remembered'
  BY <1>1, JudgedStep DEF Remembered
<1>2. ASSUME \A form \in Form, number \in Reported : ~Judged(form, number)
      PROVE  Remembered'
  BY <1>2, SignalSteps DEF Remembered
<1> QED
  BY <1>1, <1>2

(* The signals are steady: an all-clear follows an alarm, and only over    *)
(* the whole band (client.py, _handle_classify).                           *)
THEOREM SignalsAreSteady == Spec => SteadySignals
<1>1. Init => Remembered
  BY DEF Init, Remembered
<1>2. TypeOK /\ Remembered /\ [Next]_vars => Remembered'
  BY NextRemembered
<1>3. TypeOK /\ Remembered /\ [Next]_vars
        => [(said' # said /\ ~said'.since)
              => AfterAnAlarm /\ OutsideTheBand]_vars
  <2> SUFFICES ASSUME TypeOK, Remembered, [Next]_vars,
                      said' # said, ~said'.since
               PROVE  AfterAnAlarm /\ OutsideTheBand
    OBVIOUS
  <2>1. PICK form \in Form, number \in Reported : Judged(form, number)
    BY SignalSteps
  <2>2. AfterAnAlarm
    BY <2>1, JudgedStep DEF AfterAnAlarm, Remembered
  <2>3. OutsideTheBand
    <3>1. /\ said.score \in 0..Top /\ Threshold \in 0..Top
          /\ Hysteresis \in Nat /\ Top \in Nat
          /\ said.signal \in {"none", "detected", "cleared"}
      BY ThresholdType, OracleAssumption DEF TypeOK, Said
    <3> QED
      BY <2>1, <3>1, JudgedStep DEF OutsideTheBand, Remembered
  <2> QED
    BY <2>2, <2>3
<1> QED
  BY <1>1, <1>2, <1>3, TypeInvariant, PTL DEF Spec, SteadySignals

=============================================================================
