----------------------------- MODULE VaultEval -----------------------------
(***************************************************************************)
(* The evaluator of VAULT's policy language (modules/vault/src): the three *)
(* values a rule may have, which fail closed, and the projection of the    *)
(* clock that tells a refusal for now from a refusal for good.             *)
(*                                                                         *)
(* A rule is a tree: a predicate, or "not", "and", "or" over rules.  Of    *)
(* the set of rules only this is assumed: a part of a rule is a rule, and  *)
(* less deep than the whole.  A context gives a value to each variable     *)
(* that has one: the score of ORACLE and the network may be missing, PULSE *)
(* and TETHER may be "unknown".                                            *)
(***************************************************************************)
EXTENDS Naturals, Functions

CONSTANTS Rules,        \* the trees
          Depth,        \* Depth[e]: more than the depth of each part of e
          NoRule,       \* what a text that does not parse gives instead
          Moments,      \* the contexts to decide in
          SecondsPerHour, \* 3600 in the program
          HoursPerDay,  \* 24
          DaysPerWeek,  \* 7
          MonthLengths, \* the days a month may have; the code knows none
          Horizon,      \* DEFER_CAP_STEPS: 168
          DayName       \* the days of the week, from 0

VARIABLES rule,      \* the rule last decided
          moment,    \* the context it was decided in
          decision   \* the answer

NumericVars == {"hour", "day_of_month", "seconds_since_boot", "oracle_score"}
WordVars    == {"weekday", "pulse_mode", "tether", "network_ssid"}

Comparisons == {"==", "!=", "<", "<=", ">", ">="}
Operators   == Comparisons \cup {"in", "between"}

Pred(x, op, val) == [node |-> "pred", var |-> x, op |-> op, val |-> val]
Not(e)           == [node |-> "not", of |-> e]
Join(op, l, r)   == [node |-> op, left |-> l, right |-> r]

Parts(e) == CASE e.node = "pred" -> {}
              [] e.node = "not"  -> {e.of}
              [] e.node \in {"and", "or"} -> {e.left, e.right}

IsRule(e) == \/ e.node = "pred" /\ e.var \in NumericVars \cup WordVars
             \/ e.node \in {"not", "and", "or"}

Clock == {"hour", "weekday", "day_of_month", "seconds_since_boot"}

IsContext(c) == /\ c = [x \in DOMAIN c |-> c[x]]
                /\ Clock \subseteq DOMAIN c
                /\ DOMAIN c \subseteq NumericVars \cup WordVars
                /\ c.hour \in 0 .. HoursPerDay - 1
                /\ c.weekday \in Range(DayName)
                /\ c.day_of_month \in Nat
                /\ c.seconds_since_boot \in Nat

ASSUME CalendarAssumption ==
         /\ SecondsPerHour \in Nat \ {0}
         /\ HoursPerDay \in Nat \ {0}
         /\ DaysPerWeek \in Nat \ {0}
         /\ Horizon \in Nat
         /\ DOMAIN DayName = 0 .. DaysPerWeek - 1
         /\ IsInjective(DayName)
         /\ MonthLengths \subseteq Nat
         /\ \A l \in MonthLengths : Horizon \div HoursPerDay < l

ASSUME RulesAssumption ==
         /\ NoRule \notin Rules
         /\ Depth \in [Rules -> Nat]
         /\ \A e \in Rules : /\ IsRule(e)
                             /\ Parts(e) \subseteq Rules
                             /\ \A q \in Parts(e) : Depth[q] < Depth[e]

ASSUME MomentsAssumption == \A c \in Moments : IsContext(c)

-----------------------------------------------------------------------------
(* A predicate.                                                            *)

Truth(b) == IF b THEN "true" ELSE "false"

Compare(op, x, y) ==
  CASE op = "==" -> x = y  [] op = "!=" -> x # y
    [] op = "<"  -> x < y  [] op = "<=" -> x <= y
    [] op = ">"  -> x > y  [] op = ">=" -> x >= y

EvalNumeric(op, x, val) ==
  CASE op = "between" /\ val.kind = "range" ->
         Truth(val.lo <= x /\ x <= val.hi)
    [] op \in Comparisons /\ val.kind = "number" ->
         Truth(Compare(op, x, val.number))
    [] OTHER -> "error"

EvalWord(op, w, val) ==
  CASE op \in {"==", "!="} /\ val.kind = "word" ->
         Truth((w = val.word) = (op = "=="))
    [] op = "in" /\ val.kind = "list" -> Truth(w \in Range(val.items))
    [] OTHER -> "error"

EvalPredicate(e, c) ==
  CASE e.var \notin DOMAIN c -> "error"
    [] e.var \in NumericVars \cap DOMAIN c ->
         EvalNumeric(e.op, c[e.var], e.val)
    [] e.var \in WordVars \cap DOMAIN c ->
         EvalWord(e.op, c[e.var], e.val)

(* A rule.                                                                 *)

Negated(x) == IF x = "error" THEN "error" ELSE Truth(x = "false")

Combined(op, x, y) == IF "error" \in {x, y} THEN "error"
                      ELSE IF op = "and" THEN Truth({x, y} = {"true"})
                      ELSE Truth("true" \in {x, y})

EvalExprLaunders(e, c) ==                         \* a mutant of EvalExpr
  LET v[r \in Rules] ==
        IF r.node = "pred" THEN EvalPredicate(r, c)
        ELSE IF r.node = "not" THEN Truth(v[r.of] # "true")
        ELSE IF r.node = "and" THEN Truth({v[r.left], v[r.right]} = {"true"})
        ELSE Truth("true" \in {v[r.left], v[r.right]})
  IN  v[e]

EvalExpr(e, c) ==
  LET v[r \in Rules] ==
        IF r.node = "pred" THEN EvalPredicate(r, c)
        ELSE IF r.node = "not" THEN Negated(v[r.of])
        ELSE Combined(r.node, v[r.left], v[r.right])
  IN  v[e]

-----------------------------------------------------------------------------
(* The decision.                                                           *)

DayIndex(c) == CHOOSE d \in DOMAIN DayName : DayName[d] = c.weekday

AdvanceHourOnly(c) ==                             \* a mutant of AdvanceHour
  [c EXCEPT !.hour = (@ + 1) % HoursPerDay,
            !.seconds_since_boot = @ + SecondsPerHour]

AdvanceHour(c) ==
  LET midnight == c.hour + 1 >= HoursPerDay
  IN  [c EXCEPT !.hour = IF midnight THEN 0 ELSE @ + 1,
                !.weekday = IF midnight
                              THEN DayName[(DayIndex(c) + 1) % DaysPerWeek]
                              ELSE @,
                !.day_of_month = IF midnight THEN @ + 1 ELSE @,
                !.seconds_since_boot = @ + SecondsPerHour]

Future(c) == LET f[k \in 0 .. Horizon] ==
                   IF k = 0 THEN c ELSE AdvanceHour(f[k-1])
             IN  f

Decision(v, n) == [verdict |-> v, seconds |-> n]

\* The loop of vault_decide: the first hour whose value is not "false".
Project(e, c) ==
  LET stops == {k \in 1 .. Horizon : EvalExpr(e, Future(c)[k]) # "false"}
      step  == CHOOSE k \in stops : \A j \in stops : k <= j
  IN  IF stops = {} \/ EvalExpr(e, Future(c)[step]) = "error"
        THEN Decision("deny", 0)
        ELSE Decision("defer", step * SecondsPerHour)

Decide(e, c) ==
  IF e = NoRule
    THEN Decision("deny", 0)
    ELSE LET now == EvalExpr(e, c)
         IN  CASE now = "true"  -> Decision("allow", 0)
               [] now = "error" -> Decision("deny", 0)
               [] now = "false" -> Project(e, c)

(* vault_policy_decide, of what a text parsed to.                          *)
Ask(e, c) == /\ rule' = e
             /\ moment' = c
             /\ decision' = Decide(e, c)

asked == <<rule, moment, decision>>

NothingAsked == /\ rule = NoRule
                /\ moment \in Moments
                /\ decision = Decision("deny", 0)

AskAny == \E e \in Rules \cup {NoRule}, c \in Moments : Ask(e, c)

AskSpec == NothingAsked /\ [][AskAny]_asked

-----------------------------------------------------------------------------
(* The logic and the calendar, told without the evaluator.                 *)

Leaves[e \in Rules] == IF e.node = "pred" THEN {e}
                       ELSE IF e.node = "not" THEN Leaves[e.of]
                       ELSE Leaves[e.left] \cup Leaves[e.right]

Reads(e, x) == \E p \in Leaves[e] : p.var = x

Sound(e, c) == \A p \in Leaves[e] : EvalPredicate(p, c) # "error"

\* HoldsIn(C)[e]: the contexts of C in which e is true, by classical logic.
HoldsIn(C) ==
  LET h[e \in Rules] ==
        IF e.node = "pred" THEN {c \in C : EvalPredicate(e, c) = "true"}
        ELSE IF e.node = "not" THEN C \ h[e.of]
        ELSE IF e.node = "and" THEN h[e.left] \cap h[e.right]
        ELSE h[e.left] \cup h[e.right]
  IN  h

Allows(e, c) == Sound(e, c) /\ c \in HoldsIn({c})[e]

(* The context t seconds after c, past seconds of whose hour have gone, in *)
(* a month of so many days: the minutes run, and a month ends.             *)
ClockAt(c, past, t, length) ==
  LET hours == c.hour + ((past + t) \div SecondsPerHour)
      days  == hours \div HoursPerDay
      day   == c.day_of_month + days
  IN  [c EXCEPT !.hour = hours % HoursPerDay,
                !.weekday = DayName[(DayIndex(c) + days) % DaysPerWeek],
                !.day_of_month = IF day > length THEN day - length ELSE day,
                !.seconds_since_boot = @ + t]

\* No month ends within the horizon, or the rule does not mind.
MonthGoesOn(e, c, length) ==
  Reads(e, "day_of_month") =>
    c.day_of_month + ((c.hour + Horizon) \div HoursPerDay) <= length

(* A policy opens exactly when it is true and none of its predicates, in   *)
(* whatever branch, is an error: "not" and "or" never launder one, and a   *)
(* text that does not parse opens nothing (evaluator.c: 10-12, 163-198,    *)
(* 234-241; policy.c: 25-28).                                              *)
ErrorNeverOpens ==
  decision.verdict = "allow" <=> rule # NoRule /\ Allows(rule, moment)

(* A week of the clock, second by second, from any second of an hour: "no" *)
(* means that a caller who comes back whole hours later finds no hour that *)
(* allows, and "later" names the first that does.  A rule that does not    *)
(* ask for the seconds since the boot opens at no other second after "no", *)
(* and after "later" less than an hour before the time told: the context   *)
(* has no minutes, so the wait is counted in whole hours from now.         *)
(*                                                                         *)
(* Nothing is said of a rule on the day of the month when a month ends     *)
(* within the week: advance_hour counts on to day 32, so the answer may be *)
(* wrong either way; nor of a window of seconds_since_boot that no whole   *)
(* hour falls in, or of a clock that is set (evaluator.c: 208-258).        *)
DeferIsTheFirstHour ==
  rule # NoRule =>
    /\ decision.verdict \in {"allow", "defer", "deny"}
    /\ \A past \in 0 .. SecondsPerHour - 1, length \in MonthLengths :
         MonthGoesOn(rule, moment, length) =>
           LET when  == {t \in 0 .. Horizon * SecondsPerHour :
                           Allows(rule, ClockAt(moment, past, t, length))}
               hours == {k * SecondsPerHour : k \in 0 .. Horizon}
           IN  /\ decision.verdict = "deny" => when \cap hours = {}
               /\ decision.verdict = "defer" =>
                    /\ decision.seconds \in when \cap hours
                    /\ \A t \in when \cap hours : decision.seconds <= t
               /\ ~ Reads(rule, "seconds_since_boot") =>
                    /\ decision.verdict = "deny" => when = {}
                    /\ decision.verdict = "defer" =>
                         \A t \in when : decision.seconds < t + SecondsPerHour

=============================================================================
