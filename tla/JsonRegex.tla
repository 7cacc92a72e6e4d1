------------------------------ MODULE JsonRegex ------------------------------
(***************************************************************************)
(* GenericRegex and GenericRegexSearch (rapidjson/internal/regex.h): a     *)
(* pattern compiled to an automaton with two stacks, and a text run        *)
(* through the automaton, one character at a time.  The pattern is that    *)
(* of an expression, so that what it should match is known.                *)
(***************************************************************************)
EXTENDS RegexLanguage, SequencesExt, FiniteSets

CONSTANTS
  Expressions,   \* that patterns are written of
  Letters,       \* of texts, as a sequence in their order
  MaxText

VARIABLES
  expression,
  pattern,       \* what is left of it
  regex,         \* what is compiled
  search         \* the search that runs

vars == <<expression, pattern, regex, search>>

kInvalid == 0                    \* kRegexInvalidState; the states count from 1
Digits == <<"0", "1", "2", "3", "4", "5", "6", "7", "8", "9">>
IsDigit(c) == c \in ToSet(Digits)
Digit(c) == CHOOSE d \in 0 .. 9 : Digits[d + 1] = c
Rank(c) ==
  CHOOSE i \in 0 .. Len(Letters) : IF i = 0 THEN c \notin ToSet(Letters) ELSE Letters[i] = c

Least(a, b) == IF a < b THEN a ELSE b
Pop(s) == SubSeq(s, 1, Len(s) - 1)

-----------------------------------------------------------------------------
(* The automaton.  A state waits for its symbol and goes to out; or splits *)
(* to out and out1; or, with no out, is where a match ends.                *)

State(out, out1, symbol) == [out |-> out, out1 |-> out1, symbol |-> symbol]
Frag(start, out, min)    == [start |-> start, out |-> out, min |-> min]

NoSymbol == [class |-> "none"]
AnyCharacter == [class |-> "any"]
Character(c) == [class |-> "character", c |-> c]
RangeOf(negate, ranges) == [class |-> "range", negate |-> negate, ranges |-> ranges]

Empty == [states |-> <<>>, operands |-> <<>>, operators |-> <<>>, counts |-> <<0>>,
          begin |-> FALSE, end |-> FALSE, root |-> kInvalid, at |-> "parse"]

Failed(r)   == [r EXCEPT !.at = "failed"]
Asserted(r) == [r EXCEPT !.at = "assertion"]

NewState(r, out, out1, symbol) == [r EXCEPT !.states = Append(@, State(out, out1, symbol))]

\* The states whose out is not known yet are a list, linked by their out.
RECURSIVE Outs(_, _)
Outs(states, l) == IF l = kInvalid THEN {} ELSE {l} \cup Outs(states, states[l].out)

Patch(states, l, s) ==
  [i \in DOMAIN states |->
     IF i \in Outs(states, l) THEN [states[i] EXCEPT !.out = s] ELSE states[i]]

\* Append.
Linked(states, l1, l2) ==
  [states EXCEPT ![CHOOSE i \in Outs(states, l1) : states[i].out = kInvalid].out = l2]

PushOperand(r, symbol) ==
  LET s == Len(r.states) + 1
  IN  [NewState(r, kInvalid, kInvalid, symbol) EXCEPT !.operands = Append(@, Frag(s, s, s))]

\* An atom is behind another of its alternative.
ImplicitConcatenation(r) ==
  [r EXCEPT !.operators = IF Last(r.counts) > 0 THEN Append(@, "concatenation") ELSE @,
            !.counts[Len(r.counts)] = @ + 1]

\* The operand on the top is taken off, and a state that splits to it is made.
Split(r) ==
  [NewState(r, kInvalid, Last(r.operands).start, NoSymbol) EXCEPT !.operands = Pop(@)]

\* The two operands on the top are taken off.
Join(r) == [r EXCEPT !.operands = Pop(Pop(@))]

Pushed(r, states, frag) == [r EXCEPT !.states = states, !.operands = Append(@, frag)]

Concatenate(r, e1, e2) ==
  Pushed(r, Patch(r.states, e1.out, e2.start), Frag(e1.start, e2.out, Least(e1.min, e2.min)))

Alternate(r, e1, e2) ==
  LET grown == NewState(r, e1.start, e2.start, NoSymbol)
      s == Len(grown.states)
  IN  Pushed(grown, Linked(grown.states, e1.out, e2.out), Frag(s, e1.out, Least(e1.min, e2.min)))

ZeroOrOne(r, e) ==
  LET s == Len(r.states) IN Pushed(r, Linked(r.states, e.out, s), Frag(s, e.out, e.min))

ZeroOrMore(r, e) ==
  LET s == Len(r.states) IN Pushed(r, Patch(r.states, e.out, s), Frag(s, s, e.min))

\* Variant: the first time may be left out.
OneOrMoreFromSplit(r, e) ==
  LET s == Len(r.states) IN Pushed(r, Patch(r.states, e.out, s), Frag(s, s, e.min))

OneOrMore(r, e) ==
  LET s == Len(r.states) IN Pushed(r, Patch(r.states, e.out, s), Frag(e.start, s, e.min))

Eval(r, op) ==
  LET n  == Len(r.operands)
      e1 == r.operands[n - 1]
      e2 == r.operands[n]
  IN  CASE op = "concatenation" /\ n < 2 -> Asserted(r)
        [] op = "concatenation" /\ n >= 2 -> Concatenate(Join(r), e1, e2)
        [] op = "alternation" /\ n >= 2 -> Alternate(Join(r), e1, e2)
        [] op = "?" /\ n > 0 -> ZeroOrOne(Split(r), e2)
        [] op = "*" /\ n > 0 -> ZeroOrMore(Split(r), e2)
        [] op = "+" /\ n > 0 -> OneOrMore(Split(r), e2)
        [] OTHER -> Failed(r)

\* Operators are evaluated down to one of those where to stop.
RECURSIVE EvalDownTo(_, _)
EvalDownTo(r, stops) ==
  IF r.at # "parse" \/ r.operators = <<>> \/ Last(r.operators) \in stops THEN r
  ELSE EvalDownTo(Eval([r EXCEPT !.operators = Pop(@)], Last(r.operators)), stops)

\* The operand on the top once more: all states from its first on.
CloneTopOperand(r) ==
  LET src   == Last(r.operands)
      count == Len(r.states) - src.min + 1
      Moved(i) == IF i = kInvalid THEN i ELSE i + count
      Clone(s) == [s EXCEPT !.out = Moved(@), !.out1 = Moved(@)]
  IN  [r EXCEPT !.states = @ \o [i \in 1 .. count |-> Clone(@[src.min + i - 1])],
                !.operands = Append(@, Frag(src.start + count, src.out + count, src.min + count))]

Clones(r, n) ==
  LET cloned[k \in 0 .. n] == IF k = 0 THEN r ELSE CloneTopOperand(cloned[k - 1]) IN cloned[n]
Concatenations(r, n) ==
  LET joined[k \in 0 .. n] == IF k = 0 THEN r ELSE Eval(joined[k - 1], "concatenation") IN joined[n]

\* a{n,m}, as a a a+ or a a a? a?.
EvalQuantifier(r, n, m) ==
  CASE r.operands = <<>> -> Asserted(r)
    [] n = 0 /\ m = 0 -> Failed(r)
    [] n = 0 /\ m = kInfinityQuantifier -> Eval(r, "*")
    [] n = 0 /\ m \notin {0, kInfinityQuantifier} ->
         Concatenations(Clones(Eval(r, "?"), m - 1), m - 1)
    [] n > 0 /\ m = n -> Concatenations(Clones(r, n - 1), n - 1)
    [] n > 0 /\ m = kInfinityQuantifier ->
         Concatenations(Eval(Clones(r, n - 1), "+"), n - 1)
    [] n > 0 /\ m \in n + 1 .. kInfinityQuantifier - 1 ->
         Concatenations(Clones(Eval(Clones(r, n), "?"), m - n - 1), m - 1)

-----------------------------------------------------------------------------
(* The pattern.                                                            *)

\* A number at the start of p, unless its last digit passes the end of the range.
ParseUnsigned(p) ==
  LET n == CHOOSE k \in 0 .. Len(p) : /\ \A i \in 1 .. k : IsDigit(p[i])
                                      /\ k < Len(p) => ~IsDigit(p[k + 1])
      read[k \in 0 .. n] ==
        IF k = 0 THEN [ok |-> n > 0, value |-> 0]
        ELSE LET r == read[k - 1].value
                 d == Digit(p[k])
             IN  [ok |-> read[k - 1].ok /\ ~(r >= UnsignedMax \div 10 /\ d > UnsignedMax % 10),
                  value |-> (r * 10 + d) % (UnsignedMax + 1)]
  IN  [ok |-> read[n].ok, value |-> read[n].value, rest |-> SubSeq(p, n + 1, Len(p))]

Escaped == {"^", "$", "|", "(", ")", "?", "*", "+", ".", "[", "]", "{", "}", "\\",
            "f", "n", "r", "t", "v"}
Controls == [b |-> "backspace", f |-> "form feed", n |-> "line feed", r |-> "return",
             t |-> "tab", v |-> "vertical tab"]

\* CharacterEscape.
Unescape(c) == IF c \in DOMAIN Controls THEN Controls[c] ELSE c

\* A character of a class: one, or the end of a range.
InRange(t, c) ==
  CASE t.step = 1 /\ c = "-" -> [t EXCEPT !.step = 2]
    [] t.step = 2 -> [t EXCEPT !.step = 0, !.ranges[Len(t.ranges)] = <<@[1], c>>]
    [] OTHER -> [t EXCEPT !.step = 1, !.ranges = Append(@, <<c, c>>)]

\* A hyphen at the end is a character.
EndOfRange(t) == IF t.step = 2 THEN Append(t.ranges, <<"-", "-">>) ELSE t.ranges

\* The class at the start of p, behind the bracket; no ranges when there is none.
RECURSIVE RangeFrom(_, _)
RangeFrom(p, t) ==
  CASE p = <<>> -> [t EXCEPT !.ranges = <<>>]
    [] p # <<>> /\ t.first /\ p[1] = "^" ->
         RangeFrom(Tail(p), [t EXCEPT !.first = FALSE, !.negate = TRUE])
    [] p # <<>> /\ p[1] = "]" ->
         [t EXCEPT !.ranges = IF t.ranges = <<>> THEN <<>> ELSE EndOfRange(t), !.rest = Tail(p)]
    [] p # <<>> /\ p[1] = "\\" ->
         IF Len(p) > 1 /\ p[2] \in Escaped \cup {"b"}
         THEN RangeFrom(SubSeq(p, 3, Len(p)), InRange([t EXCEPT !.first = FALSE], Unescape(p[2])))
         ELSE [t EXCEPT !.ranges = <<>>]
    [] OTHER -> RangeFrom(Tail(p), InRange([t EXCEPT !.first = FALSE], p[1]))

ParseRange(p) ==
  RangeFrom(p, [first |-> TRUE, negate |-> FALSE, step |-> 0, ranges |-> <<>>, rest |-> <<>>])

Result(r, rest) == [regex |-> r, rest |-> rest]
Atom(r, symbol, rest) == Result(ImplicitConcatenation(PushOperand(r, symbol)), rest)

\* "{n}", "{n,}" or "{n,m}", without the brace that opens it.
Quantified(r, p) ==
  LET n == ParseUnsigned(p)
      comma == n.ok /\ n.rest # <<>> /\ n.rest[1] = ","
      q == IF comma THEN Tail(n.rest) ELSE n.rest
      open == comma /\ q # <<>> /\ q[1] = "}"
      m == CASE open -> [ok |-> TRUE, value |-> kInfinityQuantifier, rest |-> q]
             [] comma /\ ~open -> ParseUnsigned(q)
             [] OTHER -> n
      evaluated == EvalQuantifier(r, n.value, m.value)
  IN  CASE ~n.ok \/ ~m.ok \/ m.value < n.value -> Result(Failed(r), <<>>)
        [] OTHER -> IF evaluated.at = "parse" /\ (m.rest = <<>> \/ m.rest[1] # "}")
                    THEN Result(Failed(evaluated), <<>>)
                    ELSE Result(evaluated, IF m.rest = <<>> THEN <<>> ELSE Tail(m.rest))

\* The end of a group.
Close(r) ==
  LET done == EvalDownTo(r, {"("})
  IN  CASE done.at # "parse" -> done
        [] done.at = "parse" /\ done.operators = <<>> -> Failed(done)
        [] OTHER -> ImplicitConcatenation([done EXCEPT !.operators = Pop(@), !.counts = Pop(@)])

\* Variant: the first atom behind a bar is joined to the one before it.
AlternativeKept(r) ==
  LET done == EvalDownTo(r, {"alternation", "("})
  IN  IF done.at # "parse" THEN done
      ELSE [done EXCEPT !.operators = Append(@, "alternation")]

Alternative(r) ==
  LET done == EvalDownTo(r, {"alternation", "("})
  IN  IF done.at # "parse" THEN done
      ELSE [done EXCEPT !.operators = Append(@, "alternation"), !.counts[Len(done.counts)] = 0]

\* The next character of the pattern, and what belongs to it.
Next1(r, p) ==
  LET c == p[1]
      rest == Tail(p)
      range == ParseRange(rest)
  IN  CASE c = "^" -> Result([r EXCEPT !.begin = TRUE], rest)
        [] c = "$" -> Result([r EXCEPT !.end = TRUE], rest)
        [] c = "|" -> Result(Alternative(r), rest)
        [] c = "(" -> Result([r EXCEPT !.operators = Append(@, "("), !.counts = Append(@, 0)], rest)
        [] c = ")" -> Result(Close(r), rest)
        [] c \in {"?", "*", "+"} -> Result(Eval(r, c), rest)
        [] c = "{" -> Quantified(r, rest)
        [] c = "." -> Atom(r, AnyCharacter, rest)
        [] c = "[" -> IF range.ranges = <<>> THEN Result(Failed(r), <<>>)
                      ELSE Atom(r, RangeOf(range.negate, range.ranges), range.rest)
        [] c = "\\" -> IF rest # <<>> /\ rest[1] \in Escaped
                       THEN Atom(r, Character(Unescape(rest[1])), Tail(rest))
                       ELSE Result(Failed(r), <<>>)
        [] OTHER -> Atom(r, Character(c), rest)

\* The operand that is left is linked to the state where a match ends.
EndPattern(r) ==
  LET done == EvalDownTo(r, {})
      grown == NewState(done, kInvalid, kInvalid, NoSymbol)
      e == Last(done.operands)
  IN  CASE done.at # "parse" -> done
        [] done.at = "parse" /\ Len(done.operands) # 1 -> Failed(done)
        [] OTHER -> [grown EXCEPT !.states = Patch(@, e.out, Len(@)),
                                  !.root = e.start, !.at = "ready"]

-----------------------------------------------------------------------------
(* The search.                                                             *)

\* The states that are reached from some without a character.
RECURSIVE Reach(_, _)
Reach(states, from) ==
  LET splits == {i \in from : states[i].out1 # kInvalid}
      more == from \cup UNION {{states[i].out, states[i].out1} : i \in splits}
  IN  IF more = from THEN from ELSE Reach(states, more)

IsSplit(states, i) == states[i].out1 # kInvalid

\* AddState follows splits by recursion, and does not end where they are a circle.
Endless(states, from) ==
  \E i \in Reach(states, from) :
    IsSplit(states, i) /\ i \in Reach(states, {states[i].out, states[i].out1})

\* AddState, on several states.
Added(states, from)  == {i \in Reach(states, from) : ~IsSplit(states, i)}
Matched(states, from) == \E i \in Added(states, from) : states[i].out = kInvalid

MatchRange(symbol, c) ==
  symbol.negate # \E i \in DOMAIN symbol.ranges :
                    Rank(c) \in Rank(symbol.ranges[i][1]) .. Rank(symbol.ranges[i][2])

IsMatch(symbol, c) ==
  CASE symbol.class = "character" -> symbol.c = c
    [] symbol.class = "any" -> TRUE
    [] symbol.class = "range" -> MatchRange(symbol, c)
    [] symbol.class = "none" -> FALSE

NoSearch == [at |-> "none", begin |-> FALSE, end |-> FALSE,
             current |-> {}, matched |-> FALSE, text |-> <<>>]

\* Variant: a new match may begin at every character.
AgainAnywhere(anchored, root) == {root}

\* Without an anchor a match may begin at every character.
Again(anchored, root) == IF anchored THEN {} ELSE {root}

\* The states behind a character, and the answer, which a search that need not end at the
\* end of the text gives at once.
Fed(t, c) ==
  LET states == regex.states
      outs == {states[i].out : i \in {j \in t.current : IsMatch(states[j].symbol, c)}}
      matched == Matched(states, outs)
      read == [t EXCEPT !.text = Append(@, c)]
  IN  CASE t.current = {} -> read
        [] t.current # {} /\ Endless(states, outs) -> [read EXCEPT !.at = "endless"]
        [] t.current # {} /\ ~Endless(states, outs) /\ matched /\ ~t.end ->
             [read EXCEPT !.at = "found", !.matched = TRUE]
        [] OTHER -> [read EXCEPT !.matched = matched,
                                 !.current = Added(states, outs \cup Again(t.begin, regex.root))]

-----------------------------------------------------------------------------

\* The pattern of an expression: "op" is what binds its parts, of level 0 (alternatives), 1
\* (concatenation) or 2 (a part that is repeated).
Level(e) ==
  CASE e.op = "|" -> 0
    [] e.op = "cat" -> 1
    [] OTHER -> 2

RECURSIVE Written(_)
Part(e, level) == IF Level(e) < level THEN <<"(">> \o Written(e) \o <<")">> ELSE Written(e)
Written(e) ==
  CASE e.op = "symbol" -> e.written
    [] e.op = "|"   -> Written(e.left) \o <<"|">> \o Written(e.right)
    [] e.op = "cat" -> Part(e.left, 1) \o Part(e.right, 1)
    [] OTHER -> (IF e.part.op = "symbol" THEN Written(e.part)
                 ELSE <<"(">> \o Written(e.part) \o <<")">>) \o e.written

Init ==
  /\ expression \in Expressions
  /\ \E begin, end \in {<<>>, <<"^">>, <<"$">>} :
       /\ begin # <<"$">> /\ end # <<"^">>
       /\ pattern = begin \o Written(expression) \o end
  /\ regex = Empty
  /\ search = NoSearch

Parse ==
  /\ regex.at = "parse" /\ pattern # <<>>
  /\ LET next == Next1(regex, pattern) IN regex' = next.regex /\ pattern' = next.rest
  /\ UNCHANGED <<expression, search>>

EndParse ==
  /\ regex.at = "parse" /\ pattern = <<>>
  /\ regex' = EndPattern(regex)
  /\ UNCHANGED <<expression, pattern, search>>

\* Match, which is anchored on both sides, or Search.
Begin ==
  /\ regex.at = "ready" /\ search = NoSearch
  /\ \E match \in BOOLEAN :
       LET t == [NoSearch EXCEPT !.begin = match \/ regex.begin, !.end = match \/ regex.end]
       IN  search' = IF Endless(regex.states, {regex.root}) THEN [t EXCEPT !.at = "endless"]
                     ELSE [t EXCEPT !.at = "search", !.current = Added(regex.states, {regex.root}),
                                    !.matched = Matched(regex.states, {regex.root})]
  /\ UNCHANGED <<expression, pattern, regex>>

Feed ==
  /\ search.at = "search" /\ Len(search.text) < MaxText
  /\ \E c \in ToSet(Letters) : search' = Fed(search, c)
  /\ UNCHANGED <<expression, pattern, regex>>

Next == Parse \/ EndParse \/ Begin \/ Feed

Spec == Init /\ [][Next]_vars

-----------------------------------------------------------------------------
(* Properties.                                                             *)

\* A pattern of the supported syntax is compiled (regex.h:193-320).
PatternsAreCompiled == regex.at \notin {"failed", "assertion"}

\* Whether some part of the text, between the anchors, is of the expression.
IsFound ==
  \E i \in 0 .. Len(search.text) :
    /\ search.begin => i = 0
    /\ \E j \in Ends(expression, search.text, i) : search.end => j = Len(search.text)

\* A match or search gives what the expression says of the text so far, unless the
\* expression matches the empty text and a search may begin or end inside the text
\* (regex.h:653-684).
SearchIsLanguage ==
  (/\ search.at \in {"search", "found"}
   /\ ~MatchesEmpty(expression) \/ (search.begin /\ search.end))
  => (search.matched <=> IsFound)

\* Adding the states behind a character ends, unless what matches the empty text is
\* repeated without an end: "(a?)*" makes a circle of states that AddState follows for
\* ever (regex.h:364-404, 692-705).
AddingEnds == search.at = "endless" => RepeatsEmpty(expression)

=============================================================================
