----------------------------- MODULE VaultPolicy -----------------------------
(***************************************************************************)
(* The policy language of VAULT (modules/vault/src): the recursive-descent *)
(* parser, from a text to the rule that VaultEval evaluates.               *)
(*                                                                         *)
(* A text is a sequence of tokens, as the lexer yields them: a word (with  *)
(* or without quotes), a numeral, a mark, or BadToken where it finds none. *)
(***************************************************************************)
EXTENDS VaultEval, Sequences, TLC

CONSTANT Number  \* the numerals, each with the number it stands for

ASSUME NumberAssumption == \A n \in DOMAIN Number : Number[n] \in Nat

BadToken == "?"
EndOfText == ""
Marks == {":", "(", ")", "[", "]", ",", "==", "!=", "<", "<=", ">", ">="}

Numeral == DOMAIN Number

IsWord(t) == t \notin Numeral \cup Marks \cup {BadToken, EndOfText}

-----------------------------------------------------------------------------
(* The parser.  A step of it takes the text and the place of the lookahead *)
(* and gives what it built and the place it stopped at, or the place where *)
(* it failed.                                                              *)

Tok(s, i) == IF i > Len(s) THEN EndOfText ELSE s[i]

Failed(i)    == [ok |-> FALSE, at |-> i]
Built(x, i)  == [ok |-> TRUE, is |-> x, at |-> i]

Then(r, Rest(_, _)) == IF r.ok THEN Rest(r.is, r.at) ELSE r

RECURSIVE ParseItems(_, _, _)
ParseItems(s, i, items) ==
  CASE Tok(s, i) = "]" -> Built([kind |-> "list", items |-> items], i + 1)
    [] IsWord(Tok(s, i)) /\ Tok(s, i+1) = "," ->
         ParseItems(s, i + 2, Append(items, s[i]))
    [] IsWord(Tok(s, i)) /\ Tok(s, i+1) = "]" ->
         ParseItems(s, i + 1, Append(items, s[i]))
    [] IsWord(Tok(s, i)) -> Failed(i + 1)
    [] OTHER -> Failed(i)

ParseRange(s, i) ==
  CASE Tok(s, i) \notin Numeral   -> Failed(i)
    [] Tok(s, i+1) # "and"        -> Failed(i + 1)
    [] Tok(s, i+2) \notin Numeral -> Failed(i + 2)
    [] OTHER -> Built([kind |-> "range", lo |-> Number[s[i]],
                       hi |-> Number[s[i+2]]], i + 3)

ParseValue(s, i, op) ==
  CASE op = "in" -> IF Tok(s, i) = "[" THEN ParseItems(s, i + 1, <<>>)
                                       ELSE Failed(i)
    [] op = "between" -> ParseRange(s, i)
    [] OTHER ->
         CASE Tok(s, i) \in Numeral ->
                Built([kind |-> "number", number |-> Number[s[i]]], i + 1)
           [] IsWord(Tok(s, i)) ->
                Built([kind |-> "word", word |-> s[i]], i + 1)
           [] OTHER -> Failed(i)

ParsePredicate(s, i) ==
  CASE Tok(s, i) \notin NumericVars \cup WordVars -> Failed(i)
    [] Tok(s, i+1) \notin Operators -> Failed(i + 1)
    [] OTHER -> Then(ParseValue(s, i + 2, s[i+1]),
                     LAMBDA val, j : Built(Pred(s[i], s[i+1], val), j))

RECURSIVE ParseExpression(_, _), ParseUnary(_, _), MoreOf(_, _, _)

ParsePrimary(s, i) ==
  IF Tok(s, i) = "("
    THEN Then(ParseExpression(s, i + 1),
              LAMBDA e, j : IF Tok(s, j) = ")" THEN Built(e, j + 1)
                                               ELSE Failed(j))
    ELSE ParsePredicate(s, i)

ParseUnaryFlag(s, i) ==                           \* a mutant of ParseUnary
  IF Tok(s, i) # "not" THEN ParsePrimary(s, i)
  ELSE IF Tok(s, i + 1) = "not" THEN ParseUnary(s, i + 1)
  ELSE Then(ParsePrimary(s, i + 1), LAMBDA e, j : Built(Not(e), j))

ParseUnary(s, i) ==
  IF Tok(s, i) = "not"
    THEN Then(ParseUnary(s, i + 1), LAMBDA e, j : Built(Not(e), j))
    ELSE ParsePrimary(s, i)

\* The loops of parse_and and parse_expression: operands joined by op.
MoreOf(s, op, r) ==
  IF r.ok /\ Tok(s, r.at) = op
    THEN MoreOf(s, op,
           Then(IF op = "and"
                  THEN ParseUnary(s, r.at + 1)
                  ELSE MoreOf(s, "and", ParseUnary(s, r.at + 1)),
                LAMBDA e, j : Built(Join(op, r.is, e), j)))
    ELSE r

ParseExpression(s, i) == MoreOf(s, "or", MoreOf(s, "and", ParseUnary(s, i)))

Unit == ("min" :> 60) @@ ("hour" :> 3600)

NoRelockBlock == 0

ParseRelock(s, i) ==
  CASE Tok(s, i) # "relock_after"     -> Built(NoRelockBlock, i)
    [] Tok(s, i+1) # ":"              -> Failed(i + 1)
    [] Tok(s, i+2) \notin Numeral     -> Failed(i + 2)
    [] Tok(s, i+3) \notin DOMAIN Unit -> Failed(i + 3)
    [] OTHER -> Built(Number[s[i+2]] * Unit[s[i+3]], i + 4)

(* vault_parse.                                                            *)
Parse(s) ==
  CASE Tok(s, 1) # "allow_when" -> Failed(1)
    [] Tok(s, 2) # ":"          -> Failed(2)
    [] OTHER ->
         Then(ParseExpression(s, 3),
              LAMBDA e, j : Then(ParseRelock(s, j),
                LAMBDA r, k : IF Tok(s, k) = EndOfText
                                THEN Built([allow |-> e, relock |-> r], k)
                                ELSE Failed(k)))

=============================================================================
