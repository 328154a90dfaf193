--------------------------- MODULE SpdxExpression ---------------------------
(***************************************************************************)
(* The recursive-descent parser of licence expressions in                  *)
(* scripts/checks/validate-sbom.mjs, and the grammar it documents.  A token *)
(* is a keyword, a parenthesis or one of a few identifiers that stand for   *)
(* their kind: which lists know it is all that matters.                     *)
(***************************************************************************)
EXTENDS Naturals, Sequences

CONSTANTS MaxTokens   \* bound: length of a licence expression

VARIABLES tokens      \* the expression parsed

Licenses    == {"MIT"}                    \* on the licence list, with or without "+"
Exceptions  == {"GCC-exception"}          \* on the exception list only
References  == {"LicenseRef-a"}           \* accepted as a licence and as an exception
Keywords    == {"AND", "OR", "WITH"}
Whole       == {"NOASSERTION", "NONE"}    \* only as a whole expression
Tokens      == Licenses \cup Exceptions \cup References \cup Keywords \cup Whole \cup {"(", ")"}

isLicenseId(t)   == t \in Licenses \cup References
isExceptionId(t) == t \in Exceptions \cup References

LicenseInit == tokens = << >>

LicenseNext == /\ Len(tokens) < MaxTokens
               /\ \E t \in Tokens : tokens' = Append(tokens, t)

At(text, pos, token) == pos <= Len(text) /\ text[pos] = token

-----------------------------------------------------------------------------
(* The parser: each function takes the tokens and a position and returns    *)
(* whether it succeeded and the position it reached.  parse holds what the   *)
(* functions that recurse, and the loops within them, return.               *)

Parsed(pos) == [ok |-> TRUE, pos |-> pos]
Failed(pos) == [ok |-> FALSE, pos |-> pos]

Calls == {"and", "andLoop", "or", "orLoop"} \X Seq(Tokens) \X Nat

parseSimpleExpr(parse, text, pos) ==
  IF At(text, pos, "(")
  THEN LET inner == parse[<<"or", text, pos + 1>>] IN
       IF inner.ok /\ At(text, inner.pos, ")") THEN Parsed(inner.pos + 1) ELSE Failed(inner.pos)
  ELSE IF pos <= Len(text) /\ isLicenseId(text[pos]) THEN Parsed(pos + 1) ELSE Failed(pos)

(* Fault: what follows WITH is looked up among the licences.                *)
parseWithExpr_Licence(parse, text, pos) ==
  LET simple == parseSimpleExpr(parse, text, pos)
      next   == simple.pos + 1
  IN IF ~simple.ok \/ ~At(text, simple.pos, "WITH") THEN simple
     ELSE IF next <= Len(text) /\ isLicenseId(text[next]) THEN Parsed(next + 1) ELSE Failed(next)

parseWithExpr(parse, text, pos) ==
  LET simple == parseSimpleExpr(parse, text, pos)
      next   == simple.pos + 1
  IN IF ~simple.ok \/ ~At(text, simple.pos, "WITH") THEN simple
     ELSE IF next <= Len(text) /\ isExceptionId(text[next]) THEN Parsed(next + 1) ELSE Failed(next)

\* The loop goes on behind an operand that was parsed.
Behind(parse, loop, text, operand) == IF operand.ok THEN parse[<<loop, text, operand.pos>>] ELSE operand

parseAndExpr(parse, text, pos) == Behind(parse, "andLoop", text, parseWithExpr(parse, text, pos))

parseAndLoop(parse, text, pos) ==
  IF At(text, pos, "AND") THEN parseAndExpr(parse, text, pos + 1) ELSE Parsed(pos)

parseOrExpr(parse, text, pos) == Behind(parse, "orLoop", text, parse[<<"and", text, pos>>])

parseOrLoop(parse, text, pos) ==
  IF At(text, pos, "OR") THEN parseOrExpr(parse, text, pos + 1) ELSE Parsed(pos)

Called(parse, call) ==
  CASE call[1] = "and"     -> parseAndExpr(parse, call[2], call[3])
    [] call[1] = "andLoop" -> parseAndLoop(parse, call[2], call[3])
    [] call[1] = "or"      -> parseOrExpr(parse, call[2], call[3])
    [] call[1] = "orLoop"  -> parseOrLoop(parse, call[2], call[3])

parse[call \in Calls] == Called(parse, call)

validateSpdxExpression(text) ==
  \/ text \in {<<w>> : w \in Whole}
  \/ text # << >> /\ parse[<<"or", text, 1>>] = Parsed(Len(text) + 1)

-----------------------------------------------------------------------------
(* The grammar (SPDX 2.3, Appendix IV): what the tokens of a text from m to  *)
(* before n may be derived from, by splitting them in some way.             *)

Sentences == {"and", "or"} \X Seq(Tokens) \X Nat \X Nat

SimpleSentence(derives, text, m, n) ==
  \/ n = m + 1 /\ isLicenseId(text[m])
  \/ m + 2 < n /\ text[m] = "(" /\ text[n - 1] = ")" /\ derives[<<"or", text, m + 1, n - 1>>]

WithSentence(derives, text, m, n) ==
  \/ SimpleSentence(derives, text, m, n)
  \/ /\ m + 2 < n /\ text[n - 2] = "WITH" /\ isExceptionId(text[n - 1])
     /\ SimpleSentence(derives, text, m, n - 2)

AndSentence(derives, text, m, n) ==
  \/ WithSentence(derives, text, m, n)
  \/ \E k \in m .. n - 1 :
       text[k] = "AND" /\ derives[<<"and", text, m, k>>] /\ WithSentence(derives, text, k + 1, n)

OrSentence(derives, text, m, n) ==
  \/ derives[<<"and", text, m, n>>]
  \/ \E k \in m .. n - 1 :
       text[k] = "OR" /\ derives[<<"or", text, m, k>>] /\ derives[<<"and", text, k + 1, n>>]

Derived(derives, s) ==
  IF s[1] = "and" THEN AndSentence(derives, s[2], s[3], s[4]) ELSE OrSentence(derives, s[2], s[3], s[4])

derives[s \in Sentences] == Derived(derives, s)

IsExpression(text) ==
  text \in {<<w>> : w \in Whole} \/ derives[<<"or", text, 1, Len(text) + 1>>]

(* The recursive-descent parser accepts exactly the sentences of the grammar *)
(* its comments give (validateSpdxExpression, validate-sbom.mjs).            *)
LicenseGrammarExact == validateSpdxExpression(tokens) <=> IsExpression(tokens)
=============================================================================
