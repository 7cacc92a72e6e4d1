------------------------------ MODULE JsonReader ------------------------------
(***************************************************************************)
(* GenericReader (rapidjson/reader.h): three parsers of one grammar.       *)
(* Parse calls itself for a value in a value, IterativeParse keeps the     *)
(* nesting on a stack and moves by a table, IterativeParseNext does the    *)
(* same one token at a time for a caller who asks again.  A symbol of the  *)
(* text stands for a whole scalar: "s" for a string, "n" for a literal or  *)
(* a number, "x" for what starts no value.  The text grows as it is read.  *)
(***************************************************************************)
EXTENDS Integers, Sequences, SequencesExt, FiniteSets

CONSTANTS
  Chars,      \* symbols a text grows by, with "end" for its terminator
  Texts,      \* texts to start from
  MaxText,    \* bound on the length of a text that grows
  FlagSets,   \* sets of parse flags
  Stops,      \* which call of the handler returns false, 0 for none
  Parsers     \* of "IterativeParse", "IterativeParseNext"

VARIABLES
  text, flags, stop, parser,
  state,      \* IterativeParsingState
  stack,      \* stack_: states to return to, and counts
  r,          \* where the stream is, the handler's calls, and parseResult_
  done        \* the parser has returned, or its caller has stopped asking

vars == <<text, flags, stop, parser, state, stack, r, done>>

Peek(q) == IF q.at <= Len(text) THEN text[q.at] ELSE "end"

Take(q) == [q EXCEPT !.at = @ + 1]

Ok(q) == q.errors = <<>>

\* parseResult_ keeps the last error.
Code(q) == IF Ok(q) THEN "None" ELSE Last(q.errors).code

\* RAPIDJSON_PARSE_ERROR_NORETURN, whose assertion fails when there is an error: a build
\* without assertions puts the one in the place of the other.
Fail(q, code) == [q EXCEPT !.errors = Append(@, [code |-> code, offset |-> q.at])]

\* A call of the handler; one that returns false ends the parsing.
Refused(called) == Len(called.events) = stop

Call(q, event) ==
  LET called == [q EXCEPT !.events = Append(@, event)]
  IN  IF Refused(called) THEN Fail(called, "Termination") ELSE called

Space == {" ", "nl"}

\* A text starts with what a text may grow by, white space and comments.
Symbols == Chars \cup Space \cup {"/", "*"}

ASSUME TextsAssumption == Texts \subseteq Seq(Symbols)

SkipWhitespace(q) ==
  [q EXCEPT !.at = CHOOSE p \in q.at .. Len(text) + 1 :
     /\ p <= Len(text) => text[p] \notin Space
     /\ \A before \in q.at .. p - 1 : text[before] \in Space]

\* Behind the first place, from p on, where the sequence s is found in the text.
BehindNext(s, p) ==
  LET found == {e \in p .. Len(text) : e - Len(s) + 1 >= p /\ SubSeq(text, e - Len(s) + 1, e) = s}
  IN  IF found = {} THEN 0 ELSE 1 + CHOOSE e \in found : \A other \in found : e <= other

\* A comment, if there is one, and the whitespace behind it.  A "/" that opens no comment,
\* and a comment that nothing closes, are errors and end the skipping, which began at q.
SkipComment(q, here) ==
  LET next   == Peek(Take(here))
      closed == BehindNext(IF next = "*" THEN <<"*", "/">> ELSE <<"nl">>, here.at + 2)
      end    == IF Contains(text, "end") THEN Len(text) ELSE Len(text) + 1
  IN  IF here.errors # q.errors \/ Peek(here) # "/" THEN here
      ELSE CASE next = "*" /\ closed = 0 -> Fail([here EXCEPT !.at = end], "UnspecificSyntaxError")
             [] next \notin {"*", "/"} -> Fail(Take(here), "UnspecificSyntaxError")
             [] OTHER -> SkipWhitespace([here EXCEPT !.at = IF closed = 0 THEN end ELSE closed])

\* skip[n] is where the stream is behind n comments, or as many as there are.
SkipWhitespaceAndComments(q) ==
  LET skip[n \in 0 .. Len(text)] ==
        IF n = 0 THEN SkipWhitespace(q) ELSE SkipComment(q, skip[n - 1])
  IN  skip[IF "Comments" \in flags THEN Len(text) ELSE 0]

-----------------------------------------------------------------------------
(* The recursive parser.                                                   *)

Skipped(q) == IF Ok(q) THEN SkipWhitespaceAndComments(q) ELSE q

\* A string is read to its end; the handler is called unless there is an error.
String(q, event) == IF Ok(q) THEN Call(Take(q), event) ELSE Take(q)

Scalar(q) ==
  CASE Peek(q) = "s" -> String(q, <<"String", 0>>)
    [] Peek(q) = "n" -> Call(Take(q), <<"Scalar", 0>>)
    [] OTHER -> Fail(q, "ValueInvalid")

\* The end of a container of which n entries were read.
EndOf(q, n, bracket) ==
  Call(q, IF bracket = "}" THEN <<"EndObject", n>> ELSE <<"EndArray", n>>)

\* A bracket behind a trailing comma is taken after the handler's call.
TrailingEnd(ended) == IF Ok(ended) THEN Take(ended) ELSE ended

\* Behind the n-th entry and its comma.  Here and below, parse[q, n, bracket] parses a
\* value, or the entries behind n others up to the bracket.
AfterComma(parse, q, n, bracket) ==
  CASE ~Ok(q) -> q
    [] Ok(q) /\ "TrailingCommas" \in flags /\ Peek(q) = bracket -> TrailingEnd(EndOf(q, n, bracket))
    [] OTHER -> parse[q, n, bracket]

\* Behind the n-th entry.
AfterEntry(parse, q, n, bracket) ==
  CASE ~Ok(q) -> q
    [] Ok(q) /\ Peek(q) = bracket -> EndOf(Take(q), n, bracket)
    [] Ok(q) /\ Peek(q) = "," -> AfterComma(parse, Skipped(Take(q)), n, bracket)
    [] OTHER -> Fail(q, IF bracket = "}" THEN "ObjectMissCommaOrCurlyBracket"
                                         ELSE "ArrayMissCommaOrSquareBracket")

\* Behind a member's name.
AfterKey(q) ==
  CASE ~Ok(q) -> q
    [] Ok(q) /\ Peek(q) # ":" -> Fail(q, "ObjectMissColon")
    [] OTHER -> Skipped(Take(q))

\* A member or an element behind n others.
Entry(parse, q, n, bracket) ==
  IF bracket = "}" /\ Peek(q) # "s" THEN Fail(q, "ObjectMissName")
  ELSE AfterEntry(parse, Skipped(parse[
         IF bracket = "}" THEN AfterKey(Skipped(Call(Take(q), <<"Key", 0>>))) ELSE q, 0, "value"]),
         n + 1, bracket)

\* What follows the opening bracket.
AfterOpen(parse, q, bracket) ==
  CASE ~Ok(q) -> q
    [] Ok(q) /\ Peek(q) = bracket -> EndOf(Take(q), 0, bracket)
    [] OTHER -> parse[q, 0, bracket]

ParseValue(parse, q) ==
  CASE ~Ok(q) -> q
    [] Ok(q) /\ Peek(q) = "{" -> AfterOpen(parse, Skipped(Call(Take(q), <<"StartObject", 0>>)), "}")
    [] Ok(q) /\ Peek(q) = "[" -> AfterOpen(parse, Skipped(Call(Take(q), <<"StartArray", 0>>)), "]")
    [] OTHER -> Scalar(q)

Streams == [at : Nat, events : Seq(STRING \X Nat), errors : Seq([code : STRING, offset : Nat])]

Parsing[q \in Streams, n \in Nat, what \in {"value", "}", "]"}] ==
  IF what = "value" THEN ParseValue(Parsing, q) ELSE Entry(Parsing, q, n, what)

Unread == [at |-> 1, events |-> <<>>, errors |-> <<>>]

Parse ==
  LET start == Skipped(Unread)
      value == Parsing[start, 0, "value"]
      rest  == Skipped(value)
  IN  CASE ~Ok(start) -> start
        [] Ok(start) /\ Peek(start) = "end" -> Fail(start, "DocumentEmpty")
        [] OTHER ->
           IF ~Ok(value) \/ "StopWhenDone" \in flags THEN value
           ELSE IF Ok(rest) /\ Peek(rest) # "end" THEN Fail(rest, "DocumentRootNotSingular") ELSE rest

-----------------------------------------------------------------------------
(* The iterative parsers.                                                  *)

\* What is no bracket and no separator may be a scalar.
Tokenize(c) == IF c \in {"[", "]", "{", "}", ",", ":", "s"} THEN c ELSE "n"

\* Entries of a row whose state expects a value: a container, or the state itself.
Value(token, scalar) ==
  CASE token = "[" -> "ArrayInitial"
    [] token = "{" -> "ObjectInitial"
    [] token \in {"s", "n"} -> scalar
    [] OTHER -> "Error"

\* The table G.
Predict(src, token) ==
  CASE src = "Start" -> Value(token, "Value")
    [] src = "KeyValueDelimiter" -> Value(token, "MemberValue")
    [] src \in {"ArrayInitial", "ElementDelimiter"} ->
         IF token = "]" THEN "ArrayFinish" ELSE Value(token, "Element")
    [] src = "Element" ->
         CASE token = "]" -> "ArrayFinish" [] token = "," -> "ElementDelimiter" [] OTHER -> "Error"
    [] src \in {"ObjectInitial", "MemberDelimiter"} ->
         CASE token = "}" -> "ObjectFinish" [] token = "s" -> "MemberKey" [] OTHER -> "Error"
    [] src = "MemberKey" -> IF token = ":" THEN "KeyValueDelimiter" ELSE "Error"
    [] src = "MemberValue" ->
         CASE token = "}" -> "ObjectFinish" [] token = "," -> "MemberDelimiter" [] OTHER -> "Error"
    [] OTHER -> "Error"

\* The state to come back to when the container that opens in src has ended.
ReturnState(src) ==
  CASE src \in {"ArrayInitial", "ElementDelimiter"} -> "Element"
    [] src = "KeyValueDelimiter" -> "MemberValue"
    [] OTHER -> src

To(dst, q, stk) == [state |-> dst, r |-> q, stack |-> stk]

\* Behind a scalar or a name, where an error shows, one that was there before included.
Read(dst, q) == To(IF Ok(q) THEN dst ELSE "Error", q, stack)

\* A bracket is taken when the handler has been called for it and has not refused.
Bracket(dst, called, stk) ==
  IF Refused(called) THEN To("Error", called, stk) ELSE To(dst, Take(called), stk)

Opened(dst, q) ==
  Call(q, IF dst = "ObjectInitial" THEN <<"StartObject", 0>> ELSE <<"StartArray", 0>>)

\* Variant: the bracket is not taken.
OpenTakesNothing(src, dst, q) ==
  To(IF Refused(Opened(dst, q)) THEN "Error" ELSE dst, Opened(dst, q),
     stack \o <<ReturnState(src), 0>>)

\* The handler is called before the bracket is taken.
Open(src, dst, q) == Bracket(dst, Opened(dst, q), stack \o <<ReturnState(src), 0>>)

\* Where the container that ends was opened, with the root's end at the bottom.
Return ==
  LET return == stack[Len(stack) - 1] IN IF return = "Start" THEN "Finish" ELSE return

\* Variant: a trailing comma counts as an element or a member.
CloseCountsSeparators(src, event, q) ==
  Bracket(Return,
    Call(q, <<event, Last(stack) + (IF src \in {"ObjectInitial", "ArrayInitial"} THEN 0 ELSE 1)>>),
    SubSeq(stack, 1, Len(stack) - 2))

\* Variant: the count stays on the stack.
CloseLeavesCount(src, event, q) ==
  Bracket(Return,
    Call(q, <<event, Last(stack) + (IF src \in {"MemberValue", "Element"} THEN 1 ELSE 0)>>),
    SubSeq(stack, 1, Len(stack) - 1))

\* The count is that of the separators, and one more unless the last one trails.
Close(src, event, q) ==
  Bracket(Return,
    Call(q, <<event, Last(stack) + (IF src \in {"MemberValue", "Element"} THEN 1 ELSE 0)>>),
    SubSeq(stack, 1, Len(stack) - 2))

Transit(src, dst, q) ==
  CASE dst = "Error" -> To("Error", q, stack)
    [] dst \in {"ObjectInitial", "ArrayInitial"} -> Open(src, dst, q)
    [] dst = "MemberKey" -> Read(dst, String(q, <<"Key", 0>>))
    [] dst = "KeyValueDelimiter" -> To(dst, Take(q), stack)
    [] dst \in {"MemberDelimiter", "ElementDelimiter"} ->
         To(dst, Take(q), [stack EXCEPT ![Len(stack)] = @ + 1])
    [] dst = "ObjectFinish" ->
         IF "TrailingCommas" \notin flags /\ src = "MemberDelimiter"
         THEN To("Error", Fail(q, "ObjectMissName"), stack)
         ELSE Close(src, "EndObject", q)
    [] dst = "ArrayFinish" ->
         IF "TrailingCommas" \notin flags /\ src = "ElementDelimiter"
         THEN To("Error", Fail(q, "ValueInvalid"), stack)
         ELSE Close(src, "EndArray", q)
    [] OTHER -> Read(IF dst = "Value" THEN "Finish" ELSE dst, Scalar(q))

\* Variant: an error that has been set is set again.
HandleErrorAgain(src, q) ==
  Fail(q, CASE src = "Start" -> "DocumentEmpty"
            [] src = "Finish" -> "DocumentRootNotSingular"
            [] src \in {"ObjectInitial", "MemberDelimiter"} -> "ObjectMissName"
            [] src = "MemberKey" -> "ObjectMissColon"
            [] OTHER -> "ValueInvalid")

\* An error that the state explains, unless one has been set.
HandleError(src, q) ==
  IF ~Ok(q) THEN q
  ELSE Fail(q, CASE src = "Start" -> "DocumentEmpty"
                 [] src = "Finish" -> "DocumentRootNotSingular"
                 [] src \in {"ObjectInitial", "MemberDelimiter"} -> "ObjectMissName"
                 [] src = "MemberKey" -> "ObjectMissColon"
                 [] src = "MemberValue" -> "ObjectMissCommaOrCurlyBracket"
                 [] src \in {"KeyValueDelimiter", "ArrayInitial", "ElementDelimiter"} -> "ValueInvalid"
                 [] OTHER -> "ArrayMissCommaOrSquareBracket")

Complete == Contains(text, "end")

\* The symbol the parser looks at is there, and the one behind it.
Ready == ~done /\ (Complete \/ r.at < Len(text))

\* At the end of the text the stack is cleared.
Ended(q) == r' = q /\ done' = TRUE /\ stack' = <<>> /\ UNCHANGED state

\* A round of IterativeParse.  The root ends it with StopWhenDone.  The stack is cleared
\* on any exit.
IterativeParse ==
  LET here == SkipWhitespaceAndComments(r)
      t    == Transit(state, Predict(state, Tokenize(Peek(here))), here)
  IN  /\ parser = "IterativeParse" /\ Ready
      /\ CASE ~Ok(here) -> Ended(here)
           [] Ok(here) /\ Peek(here) = "end" ->
                Ended(IF state = "Finish" THEN here ELSE HandleError(state, here))
           [] OTHER ->
                /\ r' = IF t.state = "Error" THEN HandleError(state, t.r) ELSE t.r
                /\ state' = IF t.state = "Error" THEN state ELSE t.state
                /\ done' = (t.state = "Error" \/ (t.state = "Finish" /\ "StopWhenDone" \in flags))
                /\ stack' = IF done' THEN <<>> ELSE t.stack
      /\ UNCHANGED <<text, flags, stop, parser>>

\* A round of IterativeParseNext, whose caller asks until the parsing is complete or
\* has failed.  It looks for the end before it skips, and not at what the skipping
\* has found: a malformed comment is an error behind which it goes on.
IterativeParseNext ==
  LET here == SkipWhitespaceAndComments(r)
      t    == Transit(state, Predict(state, Tokenize(Peek(here))), here)
      rest == IF "StopWhenDone" \in flags THEN t.r ELSE SkipWhitespaceAndComments(t.r)
  IN  /\ parser = "IterativeParseNext" /\ Ready
      /\ IF Peek(r) = "end"
         THEN Ended(IF state = "Finish" THEN r ELSE HandleError(state, r))
         ELSE /\ stack' = t.stack
              /\ r' = CASE t.state = "Error" -> HandleError(state, t.r)
                        [] t.state = "Finish" ->
                             IF "StopWhenDone" \in flags \/ Peek(rest) = "end"
                             THEN rest ELSE HandleError("Finish", rest)
                        [] OTHER -> t.r
              /\ state' = IF t.state = "Error" THEN state ELSE t.state
              /\ done' = (t.state \in {"Error", "Finish"})
      /\ UNCHANGED <<text, flags, stop, parser>>

-----------------------------------------------------------------------------

\* The next symbol of the text, when a parser wants one.
Feed(c) ==
  /\ ~done /\ ~Ready
  /\ c = "end" \/ Len(text) < MaxText
  /\ text' = Append(text, c)
  /\ UNCHANGED <<flags, stop, parser, state, stack, r, done>>

Init ==
  /\ text \in Texts
  /\ flags \in FlagSets
  /\ stop \in Stops
  /\ parser \in Parsers
  /\ state = "Start"
  /\ stack = <<>>
  /\ r = Unread
  /\ done = FALSE

Round == IterativeParse \/ IterativeParseNext

Next == Round \/ \E c \in Chars : Feed(c)

Spec == Init /\ [][Next]_vars

-----------------------------------------------------------------------------
(* Properties.                                                             *)

Count(events, names) == Cardinality({i \in DOMAIN events : events[i][1] \in names})

Starts == {"StartObject", "StartArray"}
Ends   == {"EndObject", "EndArray"}

\* While a text is read there is a state and a count on the stack for each container
\* that has been started and not ended: the stack is as deep as the text is nested,
\* whatever the text; at the end of the root nothing is left on it and as many containers
\* were ended as started; and a text is found right at the end of its root only
\* (reader.h:641-670, 1994-2144, 2175-2208).
StackIsNesting ==
  /\ ~done => Len(stack) = 2 * (Count(r.events, Starts) - Count(r.events, Ends))
  /\ state = "Finish" => stack = <<>> /\ Count(r.events, Starts) = Count(r.events, Ends)
  /\ done /\ Ok(r) => state = "Finish"

\* A round takes a symbol or is the last one, so that a text is read in as many
\* rounds as it has symbols (reader.h:617-670, 2175-2208).
RoundsAdvance == [][Round => r'.at > r.at \/ done']_vars

\* The iterative parser makes the calls that the recursive one makes, with the same
\* counts, and stops at the same place for the same reason (reader.h:556-588,
\* 2175-2208).  Two things differ: a root that cannot start a value is an empty
\* document to the iterative parser, and a handler that refuses a bracket is
\* reported before the bracket.
IterativeIsRecursive ==
  done /\ parser = "IterativeParse" =>
    LET expected == Parse
    IN  /\ r.events = expected.events
        /\ \/ Code(r) = Code(expected)
           \/ Code(r) = "DocumentEmpty" /\ Code(expected) = "ValueInvalid" /\ state = "Start"
        /\ Code(r) # "Termination" => r.at = expected.at
        /\ Len(r.errors) = Len(expected.errors)
        /\ ~Ok(r) =>
             Last(expected.errors).offset - Last(r.errors).offset
               \in IF Code(r) = "Termination" THEN {0, 1} ELSE {0}

\* Token by token, unless there is a malformed comment, the handler is called as by the
\* recursive parser and the text is found right or wrong alike (reader.h:617-670).
TokenwiseIsRecursive ==
  done /\ parser = "IterativeParseNext" =>
    \/ \E i \in DOMAIN r.errors : r.errors[i].code = "UnspecificSyntaxError"
    \/ r.events = Parse.events /\ (Ok(r) <=> Ok(Parse))

\* An error behind which the parsing goes on, or which another replaces, is a malformed
\* comment in a text read token by token: IterativeParseNext does not look at what the
\* skipping of comments has found (reader.h:620, 641), so that the assertion of
\* RAPIDJSON_PARSE_ERROR_NORETURN, that an error is set once (reader.h:101), can fail
\* there.  Everywhere else the first error is the last thing that happens.
ErrorsEnd ==
  \A i \in DOMAIN r.errors : i < Len(r.errors) \/ ~done =>
    /\ r.errors[i].code = "UnspecificSyntaxError"
    /\ parser = "IterativeParseNext" /\ "Comments" \in flags

\* Whatever the text and the handler, the stack leads back to what is open, and an error
\* ends the parsing, but for a malformed comment token by token (reader.h:101, 617-670,
\* 1994-2208).
ReaderKeepsItsPlace == StackIsNesting /\ ErrorsEnd

\* The parsers agree: whole or token by token, the iterative parser makes the calls
\* that the recursive one makes, and stops at the same place for the same reason
\* (reader.h:556-670, 1994-2208).
ReadersAgree == IterativeIsRecursive /\ TokenwiseIsRecursive

=============================================================================
