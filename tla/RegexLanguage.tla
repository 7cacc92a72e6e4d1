---------------------------- MODULE RegexLanguage ----------------------------
(***************************************************************************)
(* What a regular expression matches.  An expression is a symbol with the  *)
(* characters it matches, a choice or a concatenation of two others, or    *)
(* another one some number of times.                                       *)
(***************************************************************************)
EXTENDS Naturals, Sequences

CONSTANT UnsignedMax   \* 2^32 - 1

kInfinityQuantifier == UnsignedMax

\* The ends of what e matches in a text from i on.
RECURSIVE Ends(_, _, _)
RECURSIVE Times(_, _, _, _)
RECURSIVE Closure(_, _, _)

Closure(e, text, from) ==
  LET more == from \cup UNION {Ends(e, text, i) : i \in from}
  IN  IF more = from THEN from ELSE Closure(e, text, more)

Times(e, text, from, n) ==
  IF n = 0 THEN from ELSE Times(e, text, UNION {Ends(e, text, i) : i \in from}, n - 1)

Ends(e, text, i) ==
  CASE e.op = "symbol" -> IF i < Len(text) /\ text[i + 1] \in e.matches THEN {i + 1} ELSE {}
    [] e.op = "|"   -> Ends(e.left, text, i) \cup Ends(e.right, text, i)
    [] e.op = "cat" -> UNION {Ends(e.right, text, j) : j \in Ends(e.left, text, i)}
    [] e.op = "times" /\ e.most # kInfinityQuantifier ->
         UNION {Times(e.part, text, {i}, n) : n \in e.least .. e.most}
    [] e.op = "times" /\ e.most = kInfinityQuantifier ->
         Closure(e.part, text, Times(e.part, text, {i}, e.least))

MatchesEmpty(e) == 0 \in Ends(e, <<>>, 0)

\* Whether something that matches the empty text is repeated without an end.
RECURSIVE RepeatsEmpty(_)
RepeatsEmpty(e) ==
  CASE e.op = "symbol" -> FALSE
    [] e.op = "times" -> (e.most = kInfinityQuantifier /\ MatchesEmpty(e.part)) \/ RepeatsEmpty(e.part)
    [] OTHER -> RepeatsEmpty(e.left) \/ RepeatsEmpty(e.right)

=============================================================================
