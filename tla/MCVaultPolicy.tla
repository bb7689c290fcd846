--------------------------- MODULE MCVaultPolicy ---------------------------
(* The policy language of VAULT for TLC: every short text a small alphabet *)
(* can write, one token at a time, and every longer one that a few whole   *)
(* predicates make, against an independent reading of the grammar; and the *)
(* evaluator, over every small rule and every hour of a short week.        *)
EXTENDS VaultPolicy, FiniteSetsExt

CONSTANTS Tokens,     \* what a text is written with token by token
          MaxTokens,  \* bound on the length of such a text
          MaxPhrases  \* bound on the length of a text made of predicates

VARIABLES text, kit

Phrases == {<<"allow_when", ":">>, <<"relock_after", ":", "1", "hour">>,
            <<"hour", "==", "1">>, <<"hour", "between", "1", "and", "2">>,
            <<"weekday", "in", "[", "mon", "]">>, <<"oracle_score", "<", "2">>,
            <<"not">>, <<"and">>, <<"or">>, <<"(">>, <<")">>}

\* What a text is written with; with nothing, where only rules are asked.
Pieces == [k \in {"tokens", "phrases", "none"} |->
             CASE k = "tokens"  -> {<<t>> : t \in Tokens}
               [] k = "phrases" -> Phrases
               [] k = "none"    -> {}]

Bound == [k \in DOMAIN Pieces |->
            IF k = "tokens" THEN MaxTokens ELSE MaxPhrases]

MCNumber == [n \in {"1", "2"} |-> IF n = "1" THEN 1 ELSE 2]
MCDayName == [d \in {0, 1} |-> IF d = 0 THEN "mon" ELSE "tue"]

\* Every hour of the week, on two days of the month, with ORACLE and TETHER
\* answering and without.
MCMoments ==
  {[x \in Clock \cup {"tether"}
            \cup (IF answer THEN {"oracle_score"} ELSE {}) |->
      CASE x = "hour"    -> h
        [] x = "weekday" -> DayName[d]
        [] x = "day_of_month" -> date
        [] x = "tether"  -> IF answer THEN "present" ELSE "unknown"
        [] OTHER         -> 1] :
   h \in 0 .. HoursPerDay - 1, d \in DOMAIN DayName, date \in 1 .. 2,
   answer \in BOOLEAN}

\* Predicates of the clock and of the rest, two of them errors everywhere.
MCPredicates ==
  {Pred("hour", "==", [kind |-> "number", number |-> 1]),
   Pred("hour", "between", [kind |-> "range", lo |-> 1, hi |-> 2]),
   Pred("day_of_month", ">", [kind |-> "number", number |-> 2]),
   Pred("seconds_since_boot", "<", [kind |-> "number", number |-> 4]),
   Pred("weekday", "in", [kind |-> "list", items |-> <<"mon">>]),
   Pred("tether", "==", [kind |-> "word", word |-> "unknown"]),
   Pred("oracle_score", "<", [kind |-> "number", number |-> 2]),
   Pred("hour", "==", [kind |-> "word", word |-> "mon"]),
   Pred("weekday", "<", [kind |-> "number", number |-> 1])}

\* The rules a "not", "and" or "or" makes of these.
Over(ls, rs) == [node : {"not"}, of : ls]
                  \cup [node : {"and", "or"}, left : ls, right : rs]

MCRules == LET one == MCPredicates \cup Over(MCPredicates, MCPredicates)
           IN  one \cup Over(one, MCPredicates) \cup Over(MCPredicates, one)

RECURSIVE Height(_)
Height(e) == IF Parts(e) = {} THEN 0
                              ELSE 1 + Max({Height(q) : q \in Parts(e)})

MCDepth == [e \in MCRules |-> Height(e)]

\* A text of whole predicates is worth another while its brackets and what
\* joins it are in place, whatever the parser says of it.
Starts == {"not", "("} \cup NumericVars \cup WordVars
Wants  == {":", "not", "(", "and", "or"}

Count(s, t) == Cardinality({i \in DOMAIN s : s[i] = t})

InPlace(s) ==
  /\ Tok(s, 1) = "allow_when" /\ Count(s, "allow_when") = 1
  /\ Count(s, "relock_after") = 0
  /\ Count(s, ")") <= Count(s, "(")
  /\ \A i \in 2 .. Len(s) :
       /\ s[i] \in Starts => s[i-1] \in Wants
       /\ s[i] \in {"and", "or", ")"} => s[i-1] \notin Wants

\* One of tokens is worth another while all the parser lacks is at its end.
Viable(s) == \/ Parse(s).ok \/ Parse(s).at > Len(s)
             \/ kit = "phrases" /\ InPlace(s)

First == CHOOSE c \in Moments : TRUE

Init == /\ text = <<>>
        /\ kit \in DOMAIN Pieces
        /\ NothingAsked
        /\ moment = First

Write(w) == /\ Len(text) + Len(w) <= Bound[kit]
            /\ Viable(text)
            /\ text' = text \o w
            /\ UNCHANGED <<kit, asked>>

AskOnce == /\ kit = "none"
           /\ rule = NoRule /\ moment = First
           /\ AskAny
           /\ UNCHANGED <<text, kit>>

Next == AskOnce \/ \E w \in Pieces[kit] : Write(w)

Spec == Init /\ [][Next]_<<text, kit, asked>>

-----------------------------------------------------------------------------
(* The grammar at the head of parser.c, read as a grammar: the trees that  *)
(* a sequence of tokens derives, over every way to split it.               *)

From(s, i)   == SubSeq(s, i, Len(s))
Before(s, i) == SubSeq(s, 1, i - 1)

IsList(s) == /\ Len(s) >= 2
             /\ s[1] = "["
             /\ s[Len(s)] = "]"
             /\ \A i \in 2 .. Len(s) - 1 :
                  IF i % 2 = 0 THEN IsWord(s[i]) ELSE s[i] = ","

IsRange(s) == /\ Len(s) = 3
              /\ s[2] = "and"
              /\ {s[1], s[3]} \subseteq Numeral

IsPredicate(s) ==
  /\ Len(s) > 2
  /\ s[1] \in NumericVars \cup WordVars
  /\ CASE s[2] = "in"          -> IsList(From(s, 3))
       [] s[2] = "between"     -> IsRange(From(s, 3))
       [] s[2] \in Comparisons -> /\ Len(s) = 3
                                  /\ IsWord(s[3]) \/ s[3] \in Numeral
       [] OTHER                -> FALSE

ValueOf(s) ==
  CASE s[2] = "in" ->
         [kind |-> "list",
          items |-> [k \in 1 .. (Len(s) - 3) \div 2 |-> s[2 * k + 2]]]
    [] s[2] = "between" ->
         [kind |-> "range", lo |-> Number[s[3]], hi |-> Number[s[5]]]
    [] s[2] \in Comparisons /\ s[3] \in Numeral ->
         [kind |-> "number", number |-> Number[s[3]]]
    [] s[2] \in Comparisons /\ s[3] \notin Numeral ->
         [kind |-> "word", word |-> s[3]]

RECURSIVE Derives(_, _)
Joined(op, left, right, s) ==
  UNION {{Join(op, l, r) : l \in Derives(left, Before(s, i)),
                           r \in Derives(right, From(s, i + 1))} :
         i \in {j \in 2 .. Len(s) - 1 : s[j] = op}}

Derives(symbol, s) ==
  CASE symbol = "or_expr"  -> Derives("and_expr", s)
                                \cup Joined("or", "or_expr", "and_expr", s)
    [] symbol = "and_expr" -> Derives("unary", s)
                                \cup Joined("and", "and_expr", "unary", s)
    [] symbol = "unary" /\ Tok(s, 1) = "not" ->
         {Not(e) : e \in Derives("unary", Tail(s))}
    [] symbol = "unary" /\ Tok(s, 1) = "(" ->
         IF s[Len(s)] = ")" /\ Len(s) > 2
           THEN Derives("or_expr", SubSeq(s, 2, Len(s) - 1)) ELSE {}
    [] OTHER ->
         IF IsPredicate(s) THEN {Pred(s[1], s[2], ValueOf(s))} ELSE {}

IsRelock(s) == \/ s = <<>>
               \/ /\ Len(s) = 4
                  /\ s[1] = "relock_after" /\ s[2] = ":"
                  /\ s[3] \in Numeral /\ s[4] \in {"min", "hour"}

\* The rules that a whole text derives, by what an expression derives.
Reading(Expression(_), s) ==
  IF Len(s) > 2 /\ s[1] = "allow_when" /\ s[2] = ":"
    THEN UNION {Expression(Before(From(s, 3), i)) :
                i \in {j \in 1 .. Len(s) - 1 : IsRelock(From(From(s, 3), j))}}
    ELSE {}

\* The grammar of section 4 of the design: predicates joined in any way, and
\* "not" before all that follows, or only, where bare is FALSE, before what
\* is no bare join.
RECURSIVE Chain(_)
Chain(s) ==
  IF IsPredicate(s) THEN {Pred(s[1], s[2], ValueOf(s))}
  ELSE UNION {{Join(s[i], l, r) : l \in Chain(Before(s, i)),
                                  r \in Chain(From(s, i + 1))} :
              i \in {j \in 2 .. Len(s) - 1 : s[j] \in {"and", "or"}}}

RECURSIVE Documented(_, _)
Documented(bare, s) ==
  CASE Tok(s, 1) = "not" ->
         {Not(e) : e \in IF \/ bare
                            \/ Tok(s, 2) \in {"not", "("}
                            \/ IsPredicate(Tail(s))
                           THEN Documented(bare, Tail(s)) ELSE {}}
    [] Tok(s, 1) = "(" ->
         IF s[Len(s)] = ")" /\ Len(s) > 2
           THEN Documented(bare, SubSeq(s, 2, Len(s) - 1)) ELSE {}
    [] OTHER -> Chain(s)

-----------------------------------------------------------------------------
\* What VaultEval assumes of a rule, of it and of every part of it.
RECURSIVE WellFormed(_)
WellFormed(e) == IsRule(e) /\ \A q \in Parts(e) : WellFormed(q)

\* By the grammar at the head of parser.c, a text has the one tree that the
\* parser builds, or none.
AsTheParserSays ==
  Reading(LAMBDA s : Derives("or_expr", s), text) =
    IF Parse(text).ok THEN {Parse(text).is.allow} ELSE {}

\* By the grammar of the design, a text that has a tree is taken, and if no
\* "not" stands before a bare join, the parser's tree is one the design has.
AsTheDesignSays ==
  LET readings(bare) == Reading(LAMBDA s : Documented(bare, s), text)
  IN  /\ readings(TRUE) # {}  => Parse(text).ok
      /\ readings(FALSE) # {} => Parse(text).is.allow \in readings(FALSE)

(* The parser takes exactly the texts that the grammar at the head of      *)
(* parser.c derives, and the tree it builds is the only one they derive:   *)
(* "and" inside "between" and "and" between predicates are never confused. *)
(* That tree is also one of those that the looser grammar of the design    *)
(* gives the text, unless a "not" stands before predicates joined without  *)
(* brackets.  There the two grammars differ, and nothing is said of the    *)
(* design's: it negates the whole join, the parser the first predicate     *)
(* (VAULT.md: 139-145; parser.c: 4-13, 263-335, 414).                      *)
ReadsTheGrammar ==
  /\ AsTheParserSays
  /\ AsTheDesignSays
  /\ Parse(text).ok => WellFormed(Parse(text).is.allow)

=============================================================================
