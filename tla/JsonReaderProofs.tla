-------------------------- MODULE JsonReaderProofs --------------------------
(***************************************************************************)
(* Theorems about the iterative parsers of GenericReader, for every text,  *)
(* every handler and every set of flags.                                   *)
(*                                                                         *)
(* The stack is as deep as the text is nested: that a closing bracket      *)
(* finds a state and a count there is because the state the parser is in   *)
(* is one of a container, and it is in such a state because the state it   *)
(* returned to was kept when the container was opened (Nested).  A round   *)
(* is an error, or it takes the symbol it has looked at; the white space   *)
(* and the comments before it are only skipped forwards.  And a round      *)
(* begins with no error but those of malformed comments (Passed), which    *)
(* only IterativeParseNext passes over, so that any other is the last one  *)
(* (Final).                                                                *)
(***************************************************************************)
EXTENDS JsonReader, TLAPS, SequenceTheorems, FiniteSetTheorems, WellFoundedInduction

\* The states the parser is in between two rounds.
States ==
  {"Start", "Finish", "ObjectInitial", "MemberKey", "KeyValueDelimiter", "MemberValue",
   "MemberDelimiter", "ArrayInitial", "Element", "ElementDelimiter"}

Codes ==
  {"Termination", "UnspecificSyntaxError", "DocumentEmpty", "DocumentRootNotSingular",
   "ObjectMissName", "ObjectMissColon", "ObjectMissCommaOrCurlyBracket",
   "ArrayMissCommaOrSquareBracket", "ValueInvalid"}

EventType == (Starts \cup Ends \cup {"Key", "String", "Scalar"}) \X Nat

ErrorType == [code : Codes, offset : Nat]

\* A stream in the text, and what has been read of it.
StreamType == [at : 1 .. Len(text) + 1, events : Seq(EventType), errors : Seq(ErrorType)]

\* A comment is malformed.
Malformed(errors, more) ==
  \E e \in ErrorType : e.code = "UnspecificSyntaxError" /\ more = Append(errors, e)

\* Where skipping may get to from q: it goes forwards and calls nobody, and sets one error
\* at most.
Behind(q) ==
  {s \in StreamType : /\ s.at >= q.at
                      /\ s.events = q.events
                      /\ s.errors = q.errors \/ Malformed(q.errors, s.errors)}

\* Errors behind which the parser goes on.
Passed(errors) ==
  \A i \in DOMAIN errors : /\ errors[i].code = "UnspecificSyntaxError"
                           /\ parser = "IterativeParseNext" /\ "Comments" \in flags

\* Errors the last of which may be any.
Final(errors) ==
  \A i \in DOMAIN errors : i < Len(errors) =>
    errors[i].code = "UnspecificSyntaxError" /\ parser = "IterativeParseNext" /\ "Comments" \in flags

\* For each container that is open, the state to return to when it is closed and the
\* count of its entries: the root is in no other, and each other one in an array or a
\* member of an object.
Nested(stk) ==
  \E depth \in Nat :
    /\ stk \in Seq(States \cup Nat)
    /\ Len(stk) = 2 * depth
    /\ \A d \in 1 .. depth :
         /\ stk[2 * d] \in Nat
         /\ stk[2 * d - 1] \in IF d = 1 THEN {"Start"} ELSE {"Element", "MemberValue"}

\* The stack holds the containers that are open.
HoldsOpen(q, stk) == Len(stk) = 2 * (Count(q.events, Starts) - Count(q.events, Ends))

\* The parser is outside of the root, or in a container.
InState(st, stk) == st \in States /\ (st \in {"Start", "Finish"} <=> stk = <<>>)

ReaderInv ==
  /\ text \in Seq(Symbols)
  /\ r \in StreamType
  /\ Final(r.errors)
  /\ state = "Finish" => stack = <<>> /\ Count(r.events, Starts) = Count(r.events, Ends)
  /\ done /\ Ok(r) => state = "Finish"
  /\ ~done => Passed(r.errors) /\ HoldsOpen(r, stack) /\ Nested(stack) /\ InState(state, stack)

-----------------------------------------------------------------------------
(* Numbers and loops.                                                      *)

\* A set of natural numbers that is not empty has a least element.
LEMMA LeastNat ==
  ASSUME NEW S, S \subseteq Nat, S # {}
  PROVE  \E x \in S : \A y \in S : x <= y
<1>1. PICK x \in S : \A y \in S : ~ (<<y, x>> \in OpToRel(<, Nat))
  BY NatLessThanWellFounded, WFMin
<1>2. \A y \in S : <<y, x>> \in Nat \X Nat /\ (y < x => <<y, x>> \in OpToRel(<, Nat))
  BY Zenon DEF OpToRel
<1>3. \A y \in S : ~ (y < x)
  BY <1>1, <1>2, Zenon
<1> QED
  BY <1>3

\* What the first value has and each next one has of the one before, all have.
LEMMA AllOf ==
  ASSUME NEW n \in Nat, NEW f, NEW S, f[0] \in S,
         \A i \in 1 .. n : f[i - 1] \in S => f[i] \in S
  PROVE  \A i \in 0 .. n : f[i] \in S
<1> DEFINE Missing == {i \in 0 .. n : f[i] \notin S}
<1> SUFFICES ASSUME Missing # {} PROVE FALSE
  OBVIOUS
<1>1. PICK m \in Missing : \A j \in Missing : m <= j
  <2>1. Missing \subseteq Nat
    OBVIOUS
  <2> HIDE DEF Missing
  <2> QED
    BY <2>1, LeastNat
<1>2. m \in 1 .. n /\ m - 1 \in 0 .. n /\ ~ (m <= m - 1)
  BY <1>1
<1>3. f[m - 1] \in S
  BY <1>1, <1>2
<1> QED
  BY <1>1, <1>2, <1>3

\* The function f has the values of a loop of n steps.
IsLoop(f, n, first, step) ==
  f = [i \in 0 .. n |-> IF i = 0 THEN first ELSE step[f[i - 1]]]

\* Every loop has its values.
LEMMA LoopExists ==
  ASSUME NEW n \in Nat, NEW first, NEW step
  PROVE  \E f : IsLoop(f, n, first, step)
<1> DEFINE Reached == {m \in 0 .. n : \E f : IsLoop(f, m, first, step)}
<1> SUFFICES n \in Reached
  OBVIOUS
<1>1. 0 \in Reached
  <2>1. IsLoop([i \in 0 .. 0 |-> first], 0, first, step)
    BY DEF IsLoop
  <2> QED
    BY <2>1
<1>2. ASSUME NEW m \in 1 .. n, m - 1 \in Reached
      PROVE  m \in Reached
  <2>1. PICK f : IsLoop(f, m - 1, first, step)
    BY <1>2
  <2> DEFINE g == [i \in 0 .. m |-> IF i = m THEN step[f[m - 1]] ELSE f[i]]
  <2>2. ASSUME NEW i \in 0 .. m
        PROVE  g[i] = IF i = 0 THEN first ELSE step[g[i - 1]]
    <3>1. CASE i = m
      <4>1. i # 0 /\ i - 1 \in 0 .. m /\ i - 1 # m
        BY <3>1
      <4> QED
        BY <3>1, <4>1
    <3>2. CASE i # m
      <4>1. i \in 0 .. m - 1
        BY <3>2
      <4>2. g[i] = f[i]
        BY <3>2
      <4>3. f[i] = IF i = 0 THEN first ELSE step[f[i - 1]]
        BY <2>1, <4>1 DEF IsLoop
      <4>4. CASE i # 0
        <5>1. i - 1 \in 0 .. m /\ i - 1 # m
          BY <4>1, <4>4
        <5> QED
          BY <4>2, <4>3, <4>4, <5>1
      <4> QED
        BY <4>2, <4>3, <4>4
    <3> QED
      BY <3>1, <3>2
  <2>3. IsLoop(g, m, first, step)
    <3>1. g = [i \in 0 .. m |-> g[i]]
      OBVIOUS
    <3> HIDE DEF g
    <3> QED
      BY <2>2, <3>1 DEF IsLoop
  <2> HIDE DEF g
  <2> QED
    BY <2>3
<1>3. ASSUME NEW f, f = [i \in 0 .. n |-> IF i \in Reached THEN 1 ELSE 0]
      PROVE  n \in Reached
  <2>1. \A i \in 0 .. n : f[i] \in {1}
    <3>1. f[0] \in {1}
      BY <1>1, <1>3
    <3>2. \A i \in 1 .. n : f[i - 1] \in {1} => f[i] \in {1}
      BY <1>2, <1>3
    <3> QED
      BY <3>1, <3>2, AllOf
  <2> QED
    BY <1>3, <2>1
<1> QED
  BY <1>3

-----------------------------------------------------------------------------
(* Skipping.                                                               *)

\* White space is skipped up to the first symbol that is none (reader.h:264-270).
LEMMA SkipWhitespaceIsBehind ==
  ASSUME text \in Seq(Symbols), NEW q \in StreamType
  PROVE  SkipWhitespace(q) \in Behind(q) /\ SkipWhitespace(q).errors = q.errors
<1> DEFINE S == {p \in q.at .. Len(text) + 1 : p <= Len(text) => text[p] \notin Space}
           First(p) == /\ p <= Len(text) => text[p] \notin Space
                       /\ \A before \in q.at .. p - 1 : text[before] \in Space
           p == CHOOSE p \in q.at .. Len(text) + 1 : First(p)
<1>1. Len(text) \in Nat /\ q.at \in 1 .. Len(text) + 1
  BY LenProperties DEF StreamType
<1>2. PICK m \in S : \A j \in S : m <= j
  <2>1. S \subseteq Nat
    BY <1>1
  <2>2. Len(text) + 1 \in S
    BY <1>1
  <2> HIDE DEF S
  <2> QED
    BY <2>1, <2>2, LeastNat
<1>3. ASSUME NEW before \in q.at .. m - 1 PROVE text[before] \in Space
  <2>1. before \in q.at .. Len(text) + 1 /\ ~ (m <= before)
    BY <1>1, <1>2
  <2> QED
    BY <1>2, <2>1
<1>4. m \in q.at .. Len(text) + 1 /\ First(m)
  BY <1>2, <1>3
<1>5. p \in q.at .. Len(text) + 1
  <2> HIDE DEF First
  <2> QED
    BY <1>4
<1>6. SkipWhitespace(q) = [q EXCEPT !.at = p]
  BY DEF SkipWhitespace
<1> HIDE DEF p
<1> QED
  BY <1>1, <1>5, <1>6 DEF Behind, StreamType

\* What is looked for is found behind the place where the search began, or not at all.
LEMMA BehindNextIsBehind ==
  ASSUME text \in Seq(Symbols), NEW s, Len(s) \in Nat, NEW p \in Nat
  PROVE  BehindNext(s, p) = 0 \/ BehindNext(s, p) \in p + 1 .. Len(text) + 1
<1> DEFINE found == {e \in p .. Len(text) : e - Len(s) + 1 >= p /\ SubSeq(text, e - Len(s) + 1, e) = s}
           least == CHOOSE e \in found : \A other \in found : e <= other
<1>1. Len(text) \in Nat
  BY LenProperties
<1>2. BehindNext(s, p) = IF found = {} THEN 0 ELSE 1 + least
  BY DEF BehindNext
<1>3. ASSUME found # {} PROVE least \in p .. Len(text)
  <2>1. found \subseteq p .. Len(text)
    OBVIOUS
  <2>2. found \subseteq Nat
    BY <1>1, <2>1
  <2> HIDE DEF found
  <2>3. \E e \in found : \A other \in found : e <= other
    BY <1>3, <2>2, LeastNat
  <2>4. least \in found
    BY <2>3
  <2> QED
    BY <2>1, <2>4
<1> HIDE DEF found, least
<1> QED
  BY <1>1, <1>2, <1>3

\* An error is set at the place of the stream (reader.h:101-107).
LEMMA FailSets ==
  ASSUME text \in Seq(Symbols), NEW q \in StreamType, NEW code \in Codes
  PROVE  LET e == [code |-> code, offset |-> q.at] IN
         /\ e \in ErrorType
         /\ Fail(q, code) \in StreamType
         /\ Fail(q, code).at = q.at
         /\ Fail(q, code).events = q.events
         /\ Fail(q, code).errors = Append(q.errors, e)
<1> DEFINE e == [code |-> code, offset |-> q.at]
<1>1. q.at \in Nat /\ q.errors \in Seq(ErrorType)
  BY LenProperties DEF StreamType
<1>2. e \in ErrorType
  BY <1>1 DEF ErrorType
<1>3. Fail(q, code) = [q EXCEPT !.errors = Append(q.errors, e)]
  BY DEF Fail, StreamType
<1> HIDE DEF e
<1>4. Append(q.errors, e) \in Seq(ErrorType)
  BY <1>1, <1>2, AppendProperties
<1>5. /\ Fail(q, code) \in StreamType
      /\ Fail(q, code).at = q.at
      /\ Fail(q, code).events = q.events
      /\ Fail(q, code).errors = Append(q.errors, e)
  BY <1>3, <1>4 DEF StreamType
<1> QED
  BY <1>2, <1>5 DEF e

\* A comment is skipped forwards, or it is an error (reader.h:277-305).
LEMMA SkipCommentIsBehind ==
  ASSUME text \in Seq(Symbols), NEW first \in StreamType, NEW here \in Behind(first)
  PROVE  SkipComment(first, here) \in Behind(first)
<1> DEFINE next   == Peek(Take(here))
           closed == BehindNext(IF next = "*" THEN <<"*", "/">> ELSE <<"nl">>, here.at + 2)
           end    == IF Contains(text, "end") THEN Len(text) ELSE Len(text) + 1
           there  == [here EXCEPT !.at = IF closed = 0 THEN end ELSE closed]
<1>1. /\ Len(text) \in Nat /\ here.at \in 1 .. Len(text) + 1 /\ here.at \in Nat
      /\ here \in StreamType /\ here.at >= first.at /\ here.events = first.events
      /\ first.at \in Nat
  BY LenProperties DEF StreamType, Behind
<1>2. ASSUME NEW p \in 1 .. Len(text) + 1, p >= here.at
      PROVE  LET q == [here EXCEPT !.at = p] IN
             /\ q \in StreamType
             /\ q.at >= here.at /\ q.events = here.events /\ q.errors = here.errors
  BY <1>1, <1>2 DEF StreamType
<1>3. CASE here.errors # first.errors \/ Peek(here) # "/"
  <2>1. SkipComment(first, here) = here
    BY <1>3 DEF SkipComment
  <2> QED
    BY <2>1
<1>4. CASE here.errors = first.errors /\ Peek(here) = "/"
  <2>1. here.at <= Len(text)
    BY <1>1, <1>4 DEF Peek
  <2>2. closed = 0 \/ closed \in here.at + 3 .. Len(text) + 1
    <3>1. ASSUME NEW s, Len(s) \in Nat
          PROVE  BehindNext(s, here.at + 2) = 0
                 \/ BehindNext(s, here.at + 2) \in here.at + 2 + 1 .. Len(text) + 1
      BY <1>1, <3>1, BehindNextIsBehind
    <3>2. Len(<<"*", "/">>) \in Nat /\ Len(<<"nl">>) \in Nat
      OBVIOUS
    <3>3. CASE next = "*"
      BY <1>1, <3>1, <3>2, <3>3
    <3>4. CASE next # "*"
      BY <1>1, <3>1, <3>2, <3>4
    <3> QED
      BY <3>3, <3>4
  <2>3. end \in Len(text) .. Len(text) + 1
    BY <1>1
  <2> HIDE DEF closed, end
  <2>4. ASSUME NEW q \in StreamType, q.at >= here.at, q.events = here.events, q.errors = here.errors
        PROVE  Fail(q, "UnspecificSyntaxError") \in Behind(first)
    <3> DEFINE e == [code |-> "UnspecificSyntaxError", offset |-> q.at]
    <3>1. "UnspecificSyntaxError" \in Codes
      BY DEF Codes
    <3>2. /\ e \in ErrorType
          /\ Fail(q, "UnspecificSyntaxError") \in StreamType
          /\ Fail(q, "UnspecificSyntaxError").at = q.at
          /\ Fail(q, "UnspecificSyntaxError").events = q.events
          /\ Fail(q, "UnspecificSyntaxError").errors = Append(q.errors, e)
      BY <3>1, FailSets
    <3>3. e.code = "UnspecificSyntaxError"
      OBVIOUS
    <3> HIDE DEF e
    <3>4. Malformed(first.errors, Append(q.errors, e))
      BY <1>4, <2>4, <3>2, <3>3 DEF Malformed
    <3>5. q.at \in Nat
      BY LenProperties DEF StreamType
    <3> DEFINE f == Fail(q, "UnspecificSyntaxError")
    <3>6. f \in StreamType /\ f.at >= first.at /\ f.events = first.events
      BY <1>1, <2>4, <3>2, <3>5
    <3>7. Malformed(first.errors, f.errors)
      BY <3>2, <3>4
    <3> HIDE DEF f
    <3>8. f \in Behind(first)
      BY <3>6, <3>7 DEF Behind
    <3> QED
      BY <3>8 DEF f
  <2>5. CASE next = "*" /\ closed = 0
    <3>1. SkipComment(first, here) = Fail([here EXCEPT !.at = end], "UnspecificSyntaxError")
      BY <1>4, <2>5 DEF SkipComment, closed, end
    <3> DEFINE q == [here EXCEPT !.at = end]
    <3>2. q \in StreamType /\ q.at >= here.at /\ q.events = here.events /\ q.errors = here.errors
      <4>1. end \in 1 .. Len(text) + 1 /\ end >= here.at
        BY <1>1, <2>1, <2>3
      <4> QED
        BY <1>2, <4>1
    <3> HIDE DEF q
    <3>3. Fail(q, "UnspecificSyntaxError") \in Behind(first)
      BY <2>4, <3>2
    <3> QED
      BY <3>1, <3>3 DEF q
  <2>6. CASE next \notin {"*", "/"}
    <3>1. SkipComment(first, here) = Fail(Take(here), "UnspecificSyntaxError")
      BY <1>4, <2>6 DEF SkipComment, closed, end
    <3> DEFINE q == Take(here)
    <3>2. q \in StreamType /\ q.at >= here.at /\ q.events = here.events /\ q.errors = here.errors
      <4>1. here.at + 1 \in 1 .. Len(text) + 1 /\ here.at + 1 >= here.at
        BY <1>1, <2>1
      <4>2. q = [here EXCEPT !.at = here.at + 1]
        BY DEF Take
      <4> QED
        BY <1>2, <4>1, <4>2
    <3> HIDE DEF q
    <3>3. Fail(q, "UnspecificSyntaxError") \in Behind(first)
      BY <2>4, <3>2
    <3> QED
      BY <3>1, <3>3 DEF q
  <2>7. CASE next \in {"*", "/"} /\ ~(next = "*" /\ closed = 0)
    <3>1. SkipComment(first, here) = SkipWhitespace(there)
      BY <1>4, <2>7 DEF SkipComment, closed, end
    <3>2. here.at + 1 <= Len(text)
      BY <1>1, <2>1, <2>7 DEF Peek, Take, StreamType
    <3> DEFINE p == IF closed = 0 THEN end ELSE closed
    <3>3. p \in 1 .. Len(text) + 1 /\ p >= here.at
      BY <1>1, <2>2, <2>3, <3>2
    <3> HIDE DEF p
    <3>4. /\ there \in StreamType
          /\ there.at >= here.at /\ there.events = here.events /\ there.errors = here.errors
      BY <1>2, <3>3 DEF p
    <3> HIDE DEF there
    <3>5. SkipWhitespace(there) \in Behind(there) /\ SkipWhitespace(there).errors = there.errors
      BY <3>4, SkipWhitespaceIsBehind
    <3>6. /\ SkipWhitespace(there) \in StreamType
          /\ SkipWhitespace(there).at >= there.at
          /\ SkipWhitespace(there).events = there.events
      BY <3>5 DEF Behind
    <3>7. there.at \in Nat /\ SkipWhitespace(there).at \in Nat
      BY <1>1, <3>4, <3>6 DEF StreamType
    <3> QED
      BY <1>1, <1>4, <3>1, <3>4, <3>5, <3>6, <3>7 DEF Behind
  <2> HIDE DEF next
  <2> QED
    BY <2>5, <2>6, <2>7
<1> QED
  BY <1>3, <1>4

\* White space and comments are skipped forwards; nothing but a comment can be an error
\* (reader.h:272-306).
LEMMA SkippingIsBehind ==
  ASSUME text \in Seq(Symbols), NEW q \in StreamType
  PROVE  LET here == SkipWhitespaceAndComments(q) IN
         /\ here \in Behind(q)
         /\ "Comments" \notin flags => here.errors = q.errors
<1> DEFINE n == Len(text)
           IsSkip(skip) == skip = [i \in 0 .. n |-> IF i = 0 THEN SkipWhitespace(q)
                                                    ELSE SkipComment(q, skip[i - 1])]
           skip == CHOOSE skip : IsSkip(skip)
           last == IF "Comments" \in flags THEN n ELSE 0
<1>1. n \in Nat /\ last \in 0 .. n
  BY LenProperties
<1>2. SkipWhitespaceAndComments(q) = skip[last]
  BY DEF SkipWhitespaceAndComments
<1> HIDE DEF n
<1>3. SkipWhitespace(q) \in Behind(q)
  BY SkipWhitespaceIsBehind
<1>4. ASSUME NEW s \in Behind(q) PROVE SkipComment(q, s) \in Behind(q)
  BY SkipCommentIsBehind
<1>5. IsSkip(skip)
  <2> DEFINE step == [s \in Behind(q) |-> SkipComment(q, s)]
  <2>1. PICK f : f = [i \in 0 .. n |-> IF i = 0 THEN SkipWhitespace(q) ELSE step[f[i - 1]]]
    <3> HIDE DEF step
    <3>1. PICK f : IsLoop(f, n, SkipWhitespace(q), step)
      BY <1>1, LoopExists
    <3> QED
      BY <3>1 DEF IsLoop
  <2>2. \A i \in 0 .. n : f[i] \in Behind(q)
    <3>1. f[0] \in Behind(q)
      BY <1>1, <1>3, <2>1
    <3>2. ASSUME NEW i \in 1 .. n, f[i - 1] \in Behind(q) PROVE f[i] \in Behind(q)
      <4>1. f[i] = step[f[i - 1]]
        BY <1>1, <2>1
      <4> QED
        BY <1>4, <3>2, <4>1
    <3> QED
      BY <1>1, <3>1, <3>2, AllOf
  <2>3. ASSUME NEW i \in 0 .. n
        PROVE  f[i] = IF i = 0 THEN SkipWhitespace(q) ELSE SkipComment(q, f[i - 1])
    <3>1. CASE i = 0
      BY <1>1, <2>1, <3>1
    <3>2. CASE i # 0
      <4>1. i - 1 \in 0 .. n
        BY <1>1, <3>2
      <4>2. f[i] = step[f[i - 1]]
        BY <2>1, <3>2
      <4> QED
        BY <2>2, <3>2, <4>1, <4>2
    <3> QED
      BY <3>1, <3>2
  <2>4. f = [i \in 0 .. n |-> f[i]]
    BY <2>1
  <2>5. IsSkip(f)
    BY <2>3, <2>4
  <2> HIDE DEF IsSkip
  <2> QED
    BY <2>5
<1> HIDE DEF skip
<1>6. \A i \in 0 .. n : skip[i] \in Behind(q)
  <2>1. skip[0] \in Behind(q)
    BY <1>1, <1>3, <1>5
  <2>2. ASSUME NEW i \in 1 .. n, skip[i - 1] \in Behind(q) PROVE skip[i] \in Behind(q)
    <3>1. skip[i] = SkipComment(q, skip[i - 1])
      BY <1>1, <1>5
    <3> QED
      BY <1>4, <2>2, <3>1
  <2> QED
    BY <1>1, <2>1, <2>2, AllOf
<1>7. ASSUME "Comments" \notin flags PROVE skip[last].errors = q.errors
  <2>1. skip[last] = SkipWhitespace(q)
    BY <1>1, <1>5, <1>7
  <2>2. SkipWhitespace(q).errors = q.errors
    BY SkipWhitespaceIsBehind
  <2> QED
    BY <2>1, <2>2
<1> QED
  BY <1>1, <1>2, <1>6, <1>7

-----------------------------------------------------------------------------
(* What a round is made of.                                                *)

\* A symbol that is there is taken.
LEMMA TakeMoves ==
  ASSUME text \in Seq(Symbols), NEW q \in StreamType, Peek(q) # "end"
  PROVE  /\ Take(q) \in StreamType
         /\ Take(q).at = q.at + 1
         /\ Take(q).events = q.events
         /\ Take(q).errors = q.errors
<1>1. q.at \in 1 .. Len(text) /\ Len(text) \in Nat
  BY LenProperties DEF Peek, StreamType
<1>2. q.at + 1 \in 1 .. Len(text) + 1
  BY <1>1
<1> QED
  BY <1>2 DEF Take, StreamType

\* As many calls are of given names as there are such calls.
LEMMA CountIsNat ==
  ASSUME NEW events \in Seq(EventType), NEW names
  PROVE  Count(events, names) \in Nat
<1> DEFINE I == {i \in DOMAIN events : events[i][1] \in names}
<1>1. Len(events) \in Nat /\ DOMAIN events = 1 .. Len(events)
  BY LenProperties
<1>2. I \subseteq 1 .. Len(events)
  BY <1>1
<1>3. IsFiniteSet(1 .. Len(events))
  BY <1>1, FS_Interval
<1> HIDE DEF I
<1>4. Cardinality(I) \in Nat
  BY <1>2, <1>3, FS_Subset, FS_CardinalityType
<1> QED
  BY <1>4 DEF Count, I

\* A call is counted with those of its name.
LEMMA CountAppend ==
  ASSUME NEW events \in Seq(EventType), NEW event \in EventType, NEW names
  PROVE  /\ Count(events, names) \in Nat
         /\ Count(Append(events, event), names)
              = Count(events, names) + IF event[1] \in names THEN 1 ELSE 0
<1> DEFINE longer == Append(events, event)
           I == {i \in DOMAIN events : events[i][1] \in names}
           J == {i \in DOMAIN longer : longer[i][1] \in names}
           n == Len(events)
<1>1. /\ n \in Nat
      /\ DOMAIN events = 1 .. n
      /\ DOMAIN longer = 1 .. n + 1
      /\ longer[n + 1] = event
      /\ \A i \in 1 .. n : longer[i] = events[i]
  BY AppendProperties, LenProperties
<1>2. IsFiniteSet(I) /\ Cardinality(I) \in Nat
  <2>1. I \subseteq 1 .. n
    BY <1>1
  <2>2. IsFiniteSet(1 .. n)
    BY <1>1, FS_Interval
  <2> HIDE DEF I, n
  <2> QED
    BY <2>1, <2>2, FS_Subset, FS_CardinalityType
<1>3. CASE event[1] \in names
  <2>1. J = I \cup {n + 1}
    <3> HIDE DEF longer, n
    <3> QED
      BY <1>1, <1>3
  <2>2. n + 1 \notin I
    BY <1>1
  <2> HIDE DEF I, J, n, longer
  <2>3. Cardinality(J) = Cardinality(I) + 1
    BY <1>2, <2>1, <2>2, FS_AddElement
  <2> QED
    BY <1>2, <1>3, <2>3 DEF Count, I, J, longer
<1>4. CASE event[1] \notin names
  <2>1. J = I
    <3> HIDE DEF longer, n
    <3> QED
      BY <1>1, <1>4
  <2> HIDE DEF I, J, n, longer
  <2>2. Count(events, names) = Cardinality(I) /\ Count(Append(events, event), names) = Cardinality(I)
    BY <2>1 DEF Count, I, J, longer
  <2> QED
    BY <1>2, <1>4, <2>2
<1> QED
  BY <1>3, <1>4

\* The handler is called, and may refuse (reader.h:736, 804, 1998).
LEMMA CallGives ==
  ASSUME text \in Seq(Symbols), NEW q \in StreamType, NEW event \in EventType
  PROVE  /\ Call(q, event) \in StreamType
         /\ Call(q, event).at = q.at
         /\ Call(q, event).events = Append(q.events, event)
         /\ Refused(Call(q, event)) =>
              \E e \in ErrorType : Call(q, event).errors = Append(q.errors, e)
         /\ ~Refused(Call(q, event)) => Call(q, event).errors = q.errors
<1> DEFINE called == [q EXCEPT !.events = Append(@, event)]
           e == [code |-> "Termination", offset |-> called.at]
<1>1. Append(q.events, event) \in Seq(EventType)
  BY AppendProperties DEF StreamType
<1>2. /\ called \in StreamType
      /\ called.at = q.at
      /\ called.events = Append(q.events, event)
      /\ called.errors = q.errors
  BY <1>1 DEF StreamType
<1>3. Call(q, event) = IF Refused(called) THEN Fail(called, "Termination") ELSE called
  BY DEF Call
<1> HIDE DEF called
<1>4. "Termination" \in Codes
  BY DEF Codes
<1>5. /\ e \in ErrorType
      /\ Fail(called, "Termination") \in StreamType
      /\ Fail(called, "Termination").at = called.at
      /\ Fail(called, "Termination").events = called.events
      /\ Fail(called, "Termination").errors = Append(called.errors, e)
  BY <1>2, <1>4, FailSets
<1> HIDE DEF e
<1>6. CASE Refused(called)
  <2>1. Call(q, event) = Fail(called, "Termination")
    BY <1>3, <1>6
  <2>2. Refused(Call(q, event))
    BY <1>5, <1>6, <2>1 DEF Refused
  <2> QED
    BY <1>2, <1>5, <2>1, <2>2
<1>7. CASE ~Refused(called)
  <2>1. Call(q, event) = called
    BY <1>3, <1>7
  <2> QED
    BY <1>2, <1>7, <2>1
<1> QED
  BY <1>6, <1>7

\* An error more, behind errors that were passed.
LEMMA OneMore ==
  ASSUME NEW errors \in Seq(ErrorType), Passed(errors), NEW e \in ErrorType
  PROVE  /\ Final(errors)
         /\ Final(Append(errors, e))
         /\ Malformed(errors, Append(errors, e)) /\ parser = "IterativeParseNext" /\ "Comments" \in flags
              => Passed(Append(errors, e))
<1> DEFINE more == Append(errors, e)
<1>1. /\ Len(errors) \in Nat
      /\ DOMAIN errors = 1 .. Len(errors)
      /\ Len(more) = Len(errors) + 1
      /\ DOMAIN more = 1 .. Len(errors) + 1
      /\ more[Len(errors) + 1] = e
      /\ \A i \in 1 .. Len(errors) : more[i] = errors[i]
  BY AppendProperties, LenProperties
<1>2. ASSUME Malformed(errors, more) PROVE e.code = "UnspecificSyntaxError"
  <2>1. PICK f \in ErrorType : f.code = "UnspecificSyntaxError" /\ more = Append(errors, f)
    BY <1>2 DEF Malformed
  <2>2. Append(errors, f)[Len(errors) + 1] = f
    BY AppendProperties
  <2> HIDE DEF more
  <2> QED
    BY <1>1, <2>1, <2>2
<1>3. Final(errors)
  BY DEF Passed, Final
<1> HIDE DEF more
<1>4. Final(more)
  BY <1>1 DEF Passed, Final
<1>5. ASSUME Malformed(errors, more), parser = "IterativeParseNext", "Comments" \in flags
      PROVE  Passed(more)
  BY <1>1, <1>2, <1>5 DEF Passed
<1> QED
  BY <1>3, <1>4, <1>5 DEF more

\* A stack that is not empty has a state and a count on top.
LEMMA NestedTop ==
  ASSUME NEW stk, Nested(stk), stk # <<>>
  PROVE  /\ stk \in Seq(States \cup Nat)
         /\ Len(stk) \in Nat /\ Len(stk) >= 2
         /\ Last(stk) \in Nat
         /\ stk[Len(stk) - 1] \in {"Start", "Element", "MemberValue"}
         /\ stk[Len(stk) - 1] = "Start" <=> Len(stk) = 2
         /\ Nested(SubSeq(stk, 1, Len(stk) - 2))
         /\ Len(SubSeq(stk, 1, Len(stk) - 2)) = Len(stk) - 2
<1>1. PICK depth \in Nat :
        /\ stk \in Seq(States \cup Nat)
        /\ Len(stk) = 2 * depth
        /\ \A d \in 1 .. depth :
             /\ stk[2 * d] \in Nat
             /\ stk[2 * d - 1] \in IF d = 1 THEN {"Start"} ELSE {"Element", "MemberValue"}
  BY DEF Nested
<1>2. Len(stk) # 0
  BY <1>1, EmptySeq
<1>3. depth \in 1 .. depth /\ depth - 1 \in Nat /\ Len(stk) - 1 = 2 * depth - 1
  BY <1>1, <1>2
<1>4. Last(stk) \in Nat
  BY <1>1, <1>3 DEF Last
<1> DEFINE rest == SubSeq(stk, 1, Len(stk) - 2)
<1>5. /\ rest \in Seq(States \cup Nat)
      /\ Len(rest) = 2 * (depth - 1)
      /\ \A i \in 1 .. 2 * (depth - 1) : rest[i] = stk[i]
  BY <1>1, <1>3, SubSeqProperties
<1>6. Nested(rest)
  <2>1. ASSUME NEW d \in 1 .. depth - 1
        PROVE  /\ rest[2 * d] \in Nat
               /\ rest[2 * d - 1] \in IF d = 1 THEN {"Start"} ELSE {"Element", "MemberValue"}
    <3>1. 2 * d \in 1 .. 2 * (depth - 1) /\ 2 * d - 1 \in 1 .. 2 * (depth - 1) /\ d \in 1 .. depth
      BY <1>1
    <3> HIDE DEF rest
    <3> QED
      BY <1>1, <1>5, <3>1
  <2> HIDE DEF rest
  <2> QED
    BY <1>3, <1>5, <2>1 DEF Nested
<1> QED
  BY <1>1, <1>3, <1>4, <1>5, <1>6

\* A container is opened: in no other, or in one where it is a value.
LEMMA NestedPush ==
  ASSUME NEW stk, Nested(stk), NEW return \in States,
         IF stk = <<>> THEN return = "Start" ELSE return \in {"Element", "MemberValue"}
  PROVE  /\ Nested(stk \o <<return, 0>>)
         /\ Len(stk \o <<return, 0>>) = Len(stk) + 2
         /\ Len(stk) \in Nat
         /\ stk \o <<return, 0>> # <<>>
<1>1. PICK depth \in Nat :
        /\ stk \in Seq(States \cup Nat)
        /\ Len(stk) = 2 * depth
        /\ \A d \in 1 .. depth :
             /\ stk[2 * d] \in Nat
             /\ stk[2 * d - 1] \in IF d = 1 THEN {"Start"} ELSE {"Element", "MemberValue"}
  BY DEF Nested
<1> DEFINE two == <<return, 0>>
           more == stk \o two
<1>2. two \in Seq(States \cup Nat) /\ Len(two) = 2 /\ two[1] = return /\ two[2] = 0
  OBVIOUS
<1>3. stk = <<>> <=> depth = 0
  BY <1>1, EmptySeq
<1> HIDE DEF two
<1>4. /\ more \in Seq(States \cup Nat)
      /\ Len(more) = Len(stk) + Len(two)
      /\ \A i \in 1 .. Len(stk) + Len(two) :
           more[i] = IF i <= Len(stk) THEN stk[i] ELSE two[i - Len(stk)]
  BY <1>1, <1>2, ConcatProperties
<1> HIDE DEF more
<1>5. /\ more \in Seq(States \cup Nat)
      /\ Len(more) = 2 * (depth + 1)
      /\ \A i \in 1 .. 2 * depth : more[i] = stk[i]
      /\ more[2 * depth + 1] = return
      /\ more[2 * depth + 2] = 0
  BY <1>1, <1>2, <1>4
<1>6. ASSUME NEW d \in 1 .. depth + 1
      PROVE  /\ more[2 * d] \in Nat
             /\ more[2 * d - 1] \in IF d = 1 THEN {"Start"} ELSE {"Element", "MemberValue"}
  <2>1. CASE d = depth + 1
    <3>1. 2 * d = 2 * depth + 2 /\ 2 * d - 1 = 2 * depth + 1 /\ (d = 1 <=> depth = 0)
      BY <1>1, <2>1
    <3> QED
      BY <1>3, <1>5, <3>1
  <2>2. CASE d # depth + 1
    <3>1. d \in 1 .. depth /\ 2 * d \in 1 .. 2 * depth /\ 2 * d - 1 \in 1 .. 2 * depth
      BY <1>1, <2>2
    <3> QED
      BY <1>1, <1>5, <3>1
  <2> QED
    BY <2>1, <2>2
<1>7. Nested(more)
  BY <1>5, <1>6 DEF Nested
<1>8. more # <<>>
  BY <1>5
<1> QED
  BY <1>1, <1>5, <1>7, <1>8 DEF more, two

\* A separator is counted on top.
LEMMA NestedCount ==
  ASSUME NEW stk, Nested(stk), stk # <<>>
  PROVE  LET counted == [stk EXCEPT ![Len(stk)] = @ + 1] IN
         /\ Nested(counted)
         /\ Len(counted) = Len(stk)
         /\ counted # <<>>
<1>1. PICK depth \in Nat :
        /\ stk \in Seq(States \cup Nat)
        /\ Len(stk) = 2 * depth
        /\ \A d \in 1 .. depth :
             /\ stk[2 * d] \in Nat
             /\ stk[2 * d - 1] \in IF d = 1 THEN {"Start"} ELSE {"Element", "MemberValue"}
  BY DEF Nested
<1> DEFINE n == Len(stk)
           counted == [stk EXCEPT ![n] = stk[n] + 1]
<1>2. n # 0
  BY <1>1, EmptySeq
<1>3. depth \in 1 .. depth /\ n \in 1 .. Len(stk)
  BY <1>1, <1>2
<1>4. stk[n] \in Nat
  BY <1>1, <1>3
<1>5. stk[n] + 1 \in States \cup Nat
  BY <1>4
<1>6. counted \in Seq(States \cup Nat) /\ Len(counted) = n
      /\ \A i \in 1 .. Len(stk) : counted[i] = IF i = n THEN stk[n] + 1 ELSE stk[i]
  BY <1>1, <1>3, <1>5, ExceptSeq
<1> HIDE DEF counted
<1>7. ASSUME NEW d \in 1 .. depth
      PROVE  /\ counted[2 * d] \in Nat
             /\ counted[2 * d - 1] \in IF d = 1 THEN {"Start"} ELSE {"Element", "MemberValue"}
  <2>1. 2 * d \in 1 .. Len(stk) /\ 2 * d - 1 \in 1 .. Len(stk) /\ 2 * d - 1 # n
    BY <1>1
  <2> QED
    BY <1>1, <1>4, <1>6, <2>1
<1>8. Nested(counted)
  BY <1>1, <1>6, <1>7 DEF Nested
<1>9. counted # <<>>
  BY <1>2, <1>6
<1> QED
  BY <1>6, <1>8, <1>9 DEF counted

-----------------------------------------------------------------------------
(* A round.                                                                *)

\* What the table says: which symbols lead where, and from where (reader.h:1890-1991).
LEMMA TableLeads ==
  ASSUME NEW src \in States, NEW c
  PROVE  LET dst == Predict(src, Tokenize(c)) IN
         /\ dst \in {"Error", "ObjectInitial", "ArrayInitial", "MemberKey", "KeyValueDelimiter",
                     "MemberDelimiter", "ElementDelimiter", "ObjectFinish", "ArrayFinish",
                     "Value", "MemberValue", "Element"}
         /\ dst \notin {"Error", "Value", "MemberValue", "Element"} => c # "end"
         /\ dst \in {"ObjectInitial", "ArrayInitial"} =>
              src \in {"Start", "KeyValueDelimiter", "ArrayInitial", "ElementDelimiter"}
         /\ dst = "Value" => src = "Start"
         /\ dst \notin {"Error", "ObjectInitial", "ArrayInitial", "Value"} =>
              src \notin {"Start", "Finish"}
         /\ src = "Finish" => dst = "Error"
<1> DEFINE token == Tokenize(c)
<1>1. token \in {"[", "]", "{", "}", ",", ":", "s", "n"}
  BY DEF Tokenize
<1>2. c = "end" => token = "n"
  BY DEF Tokenize
<1> HIDE DEF token
<1> QED
  BY <1>1, <1>2 DEF Predict, Value, States, token

\* Where the parser is when it looks at the symbol behind white space and comments.
Looking(here) ==
  /\ text \in Seq(Symbols)
  /\ here \in StreamType
  /\ Passed(here.errors)
  /\ HoldsOpen(here, stack)
  /\ Nested(stack)
  /\ InState(state, stack)

\* Where the round leads to: to a state that keeps the invariant, a symbol further and
\* with no error more, or to an error.
GoodRound(here, t) ==
  /\ t.r \in StreamType
  /\ Final(t.r.errors)
  /\ t.state # "Error" => /\ Passed(t.r.errors)
                          /\ t.r.at > here.at
                          /\ HoldsOpen(t.r, t.stack)
                          /\ Nested(t.stack)
                          /\ InState(t.state, t.stack)

\* The errors of q are those of here, and at most one more.
OneMoreError(here, q) ==
  q.errors = here.errors \/ \E e \in ErrorType : q.errors = Append(here.errors, e)

\* An error ends the round.
LEMMA FailedIsGood ==
  ASSUME NEW here, Looking(here), NEW q \in StreamType, OneMoreError(here, q), NEW stk
  PROVE  GoodRound(here, To("Error", q, stk))
<1> DEFINE t == To("Error", q, stk)
<1>1. t.state = "Error" /\ t.r = q
  BY DEF To
<1>2. here.errors \in Seq(ErrorType) /\ Passed(here.errors)
  BY DEF Looking, StreamType
<1>3. Final(q.errors)
  <2>1. CASE q.errors = here.errors
    BY <1>2, <2>1 DEF Passed, Final
  <2>2. CASE \E e \in ErrorType : q.errors = Append(here.errors, e)
    BY <1>2, <2>2, OneMore
  <2> QED
    BY <2>1, <2>2 DEF OneMoreError
<1> HIDE DEF t
<1>4. GoodRound(here, t)
  BY <1>1, <1>3 DEF GoodRound
<1> QED
  BY <1>4 DEF t

\* An error that is set ends the round.
LEMMA FailingIsGood ==
  ASSUME NEW here, Looking(here), NEW code \in Codes
  PROVE  GoodRound(here, To("Error", Fail(here, code), stack)) /\ ~Ok(Fail(here, code))
<1> DEFINE q == Fail(here, code)
           e == [code |-> code, offset |-> here.at]
<1>1. here \in StreamType /\ text \in Seq(Symbols) /\ here.errors \in Seq(ErrorType)
  BY DEF Looking, StreamType
<1>2. e \in ErrorType /\ q \in StreamType /\ q.errors = Append(here.errors, e)
  BY <1>1, FailSets
<1> HIDE DEF e, q
<1>3. OneMoreError(here, q)
  BY <1>2 DEF OneMoreError
<1>4. q.errors # <<>>
  BY <1>1, <1>2, AppendProperties
<1>5. GoodRound(here, To("Error", q, stack))
  BY <1>2, <1>3, FailedIsGood
<1> QED
  BY <1>4, <1>5 DEF q, Ok

\* A round without an error is good when the stack holds what is open behind it.
LEMMA MovedIsGood ==
  ASSUME NEW here, Looking(here), NEW q \in StreamType, q.errors = here.errors,
         q.at > here.at, NEW dst, NEW stk, HoldsOpen(q, stk), Nested(stk), InState(dst, stk)
  PROVE  GoodRound(here, To(dst, q, stk))
<1> DEFINE t == To(dst, q, stk)
<1>1. t.state = dst /\ t.r = q /\ t.stack = stk
  BY DEF To
<1>2. Passed(q.errors)
  BY DEF Looking
<1>3. Final(q.errors)
  BY <1>2 DEF Passed, Final
<1> HIDE DEF t
<1>4. GoodRound(here, t)
  BY <1>1, <1>2, <1>3 DEF GoodRound
<1> QED
  BY <1>4 DEF t

\* How much deeper the text is nested after a call.
Deeper(event) == IF event[1] \in Starts THEN 2 ELSE IF event[1] \in Ends THEN 0 - 2 ELSE 0

\* The stack holds what is open when it grows and shrinks with the nesting.
LEMMA HoldsOpenBehind ==
  ASSUME NEW here, Looking(here), NEW event \in EventType, NEW q,
         q.events = Append(here.events, event), NEW stk,
         Len(stk) \in Int, Len(stack) \in Int, Len(stk) = Len(stack) + Deeper(event)
  PROVE  HoldsOpen(q, stk)
<1>1. here.events \in Seq(EventType)
  BY DEF Looking, StreamType
<1>2. Len(stack) = 2 * (Count(here.events, Starts) - Count(here.events, Ends))
  BY DEF Looking, HoldsOpen
<1>3. /\ Count(here.events, Starts) \in Nat
      /\ Count(q.events, Starts)
           = Count(here.events, Starts) + IF event[1] \in Starts THEN 1 ELSE 0
  BY <1>1, CountAppend
<1>4. /\ Count(here.events, Ends) \in Nat
      /\ Count(q.events, Ends)
           = Count(here.events, Ends) + IF event[1] \in Ends THEN 1 ELSE 0
  BY <1>1, CountAppend
<1>5. ~(event[1] \in Starts /\ event[1] \in Ends)
  BY DEF Starts, Ends
<1> QED
  BY <1>2, <1>3, <1>4, <1>5 DEF Deeper, HoldsOpen

\* A round that only takes a symbol.
LEMMA TakenIsGood ==
  ASSUME NEW here, Looking(here), Peek(here) # "end",
         NEW dst, NEW stk, Nested(stk), InState(dst, stk), Len(stk) = Len(stack)
  PROVE  GoodRound(here, To(dst, Take(here), stk))
<1> DEFINE q == Take(here)
<1>1. here \in StreamType /\ text \in Seq(Symbols) /\ here.at \in Nat
  BY LenProperties DEF Looking, StreamType
<1>2. /\ q \in StreamType
      /\ q.at = here.at + 1
      /\ q.events = here.events
      /\ q.errors = here.errors
  BY <1>1, TakeMoves
<1> HIDE DEF q
<1>3. q.at > here.at
  BY <1>1, <1>2
<1>4. HoldsOpen(q, stk)
  BY <1>2 DEF Looking, HoldsOpen
<1>5. GoodRound(here, To(dst, q, stk))
  BY <1>2, <1>3, <1>4, MovedIsGood
<1> QED
  BY <1>5 DEF q

\* A call for what is no bracket.
Plain(event) == event \in EventType /\ event[1] \notin Starts /\ event[1] \notin Ends

\* Behind a scalar or a name, which has been taken and given to the handler unless there
\* was an error (reader.h:2031-2034, 2134-2140).
LEMMA ReadIsGood ==
  ASSUME NEW here, Looking(here), Peek(here) # "end", NEW event, Plain(event),
         NEW dst, InState(dst, stack),
         NEW q \in {Call(Take(here), event), String(here, event)}
  PROVE  GoodRound(here, Read(dst, q))
<1> DEFINE taken == Take(here)
           called == Call(taken, event)
<1>1. here \in StreamType /\ text \in Seq(Symbols) /\ here.at \in Nat
  BY LenProperties DEF Looking, StreamType
<1>2. /\ taken \in StreamType
      /\ taken.at = here.at + 1
      /\ taken.events = here.events
      /\ taken.errors = here.errors
  BY <1>1, TakeMoves
<1>3. event \in EventType
  BY DEF Plain
<1> HIDE DEF taken
<1>4. /\ called \in StreamType
      /\ called.at = taken.at
      /\ called.events = Append(taken.events, event)
      /\ Refused(called) => \E e \in ErrorType : called.errors = Append(taken.errors, e)
      /\ ~Refused(called) => called.errors = taken.errors
  BY <1>1, <1>2, <1>3, CallGives
<1> HIDE DEF called
<1>5. q = called \/ (q = taken /\ ~Ok(here))
  BY DEF String, taken, called
<1>6. q \in StreamType /\ OneMoreError(here, q)
  BY <1>2, <1>4, <1>5 DEF OneMoreError
<1>7. CASE ~Ok(q)
  <2>1. Read(dst, q) = To("Error", q, stack)
    BY <1>7 DEF Read
  <2> QED
    BY <1>6, <2>1, FailedIsGood
<1>8. CASE Ok(q)
  <2>1. q = called
    BY <1>2, <1>5, <1>8 DEF Ok
  <2>2. q.errors = here.errors
    <3>1. ASSUME NEW e \in ErrorType PROVE Append(here.errors, e) # <<>>
      <4>1. here.errors \in Seq(ErrorType)
        BY <1>1 DEF StreamType
      <4> QED
        BY <4>1, AppendProperties
    <3> QED
      BY <1>6, <1>8, <3>1 DEF OneMoreError, Ok
  <2>3. q.at > here.at
    BY <1>1, <1>2, <1>4, <2>1
  <2>4. Nested(stack) /\ Len(stack) \in Int
    BY DEF Looking, Nested
  <2>5. Len(stack) = Len(stack) + Deeper(event)
    BY <2>4 DEF Plain, Deeper
  <2>6. q.events = Append(here.events, event)
    BY <1>2, <1>4, <2>1
  <2>7. HoldsOpen(q, stack)
    BY <1>3, <2>4, <2>5, <2>6, HoldsOpenBehind
  <2>8. GoodRound(here, To(dst, q, stack))
    BY <1>6, <2>2, <2>3, <2>4, <2>7, MovedIsGood
  <2>9. Read(dst, q) = To(dst, q, stack)
    BY <1>8 DEF Read
  <2> QED
    BY <2>8, <2>9
<1> QED
  BY <1>7, <1>8

\* A scalar is taken and given to the handler, or it is none (reader.h:1731-1747).
LEMMA ScalarIsGood ==
  ASSUME NEW here, Looking(here), NEW dst, InState(dst, stack)
  PROVE  GoodRound(here, Read(dst, Scalar(here)))
<1>1. Plain(<<"String", 0>>) /\ Plain(<<"Scalar", 0>>)
  BY DEF Plain, EventType, Starts, Ends
<1>2. CASE Peek(here) = "s"
  <2>1. Scalar(here) = String(here, <<"String", 0>>)
    BY <1>2 DEF Scalar
  <2> QED
    BY <1>1, <1>2, <2>1, ReadIsGood
<1>3. CASE Peek(here) = "n"
  <2>1. Scalar(here) = Call(Take(here), <<"Scalar", 0>>)
    BY <1>3 DEF Scalar
  <2> QED
    BY <1>1, <1>3, <2>1, ReadIsGood
<1>4. CASE Peek(here) \notin {"s", "n"}
  <2>1. Scalar(here) = Fail(here, "ValueInvalid")
    BY <1>4 DEF Scalar
  <2>2. text \in Seq(Symbols) /\ here \in StreamType /\ "ValueInvalid" \in Codes
    BY DEF Looking, Codes
  <2>3. GoodRound(here, To("Error", Fail(here, "ValueInvalid"), stack))
        /\ ~Ok(Fail(here, "ValueInvalid"))
    BY <2>2, FailingIsGood
  <2>4. Read(dst, Scalar(here)) = To("Error", Fail(here, "ValueInvalid"), stack)
    BY <2>1, <2>3 DEF Read
  <2> QED
    BY <2>3, <2>4
<1> QED
  BY <1>2, <1>3, <1>4

\* A bracket is taken when the handler has been called for it and has not refused; the
\* stack grows and shrinks with the nesting (reader.h:2019-2027, 2111-2121).
LEMMA BracketIsGood ==
  ASSUME NEW here, Looking(here), Peek(here) # "end", NEW event \in EventType,
         NEW dst, NEW stk, Nested(stk), InState(dst, stk), Len(stk) \in Int,
         Len(stack) \in Int, Len(stk) = Len(stack) + Deeper(event)
  PROVE  GoodRound(here, Bracket(dst, Call(here, event), stk))
<1> DEFINE called == Call(here, event)
<1>1. here \in StreamType /\ text \in Seq(Symbols) /\ here.at \in Nat
  BY LenProperties DEF Looking, StreamType
<1>2. /\ called \in StreamType
      /\ called.at = here.at
      /\ called.events = Append(here.events, event)
      /\ Refused(called) => \E e \in ErrorType : called.errors = Append(here.errors, e)
      /\ ~Refused(called) => called.errors = here.errors
  BY <1>1, CallGives
<1> HIDE DEF called
<1>3. CASE Refused(called)
  <2>1. Bracket(dst, called, stk) = To("Error", called, stk)
    BY <1>3 DEF Bracket
  <2>2. OneMoreError(here, called)
    BY <1>2, <1>3 DEF OneMoreError
  <2> QED
    BY <1>2, <2>1, <2>2, FailedIsGood DEF called
<1>4. CASE ~Refused(called)
  <2> DEFINE q == Take(called)
  <2>1. Bracket(dst, called, stk) = To(dst, q, stk)
    BY <1>4 DEF Bracket
  <2>2. Peek(called) # "end"
    BY <1>2 DEF Peek
  <2>3. /\ q \in StreamType
        /\ q.at = called.at + 1
        /\ q.events = called.events
        /\ q.errors = called.errors
    BY <1>1, <1>2, <2>2, TakeMoves
  <2> HIDE DEF q
  <2>4. q.errors = here.errors /\ q.at > here.at
    BY <1>1, <1>2, <1>4, <2>3
  <2>5. q.events = Append(here.events, event)
    BY <1>2, <2>3
  <2>6. HoldsOpen(q, stk)
    BY <2>5, HoldsOpenBehind
  <2>7. GoodRound(here, To(dst, q, stk))
    BY <2>3, <2>4, <2>6, MovedIsGood
  <2> QED
    BY <2>1, <2>7 DEF called
<1> QED
  BY <1>3, <1>4

\* A container is opened (reader.h:1998-2024).
LEMMA OpenIsGood ==
  ASSUME NEW here, Looking(here), Peek(here) # "end",
         NEW dst \in {"ObjectInitial", "ArrayInitial"},
         state \in {"Start", "KeyValueDelimiter", "ArrayInitial", "ElementDelimiter"}
  PROVE  GoodRound(here, Open(state, dst, here))
<1> DEFINE event == IF dst = "ObjectInitial" THEN <<"StartObject", 0>> ELSE <<"StartArray", 0>>
           stk == stack \o <<ReturnState(state), 0>>
<1>1. Open(state, dst, here) = Bracket(dst, Call(here, event), stk)
  BY DEF Open, Opened
<1>2. event \in EventType /\ event[1] \in Starts
  BY DEF EventType, Starts
<1> HIDE DEF event
<1>3. Nested(stack) /\ InState(state, stack)
  BY DEF Looking
<1>4. /\ ReturnState(state) \in States
      /\ IF stack = <<>> THEN ReturnState(state) = "Start"
                         ELSE ReturnState(state) \in {"Element", "MemberValue"}
  BY <1>3 DEF ReturnState, InState, States
<1>5. Nested(stk) /\ Len(stk) = Len(stack) + 2 /\ Len(stack) \in Nat /\ stk # <<>>
  BY <1>3, <1>4, NestedPush
<1>6. InState(dst, stk)
  BY <1>5 DEF InState, States
<1> HIDE DEF stk
<1>7. Len(stk) = Len(stack) + Deeper(event) /\ Len(stk) \in Int /\ Len(stack) \in Int
  BY <1>2, <1>5 DEF Deeper
<1>8. GoodRound(here, Bracket(dst, Call(here, event), stk))
  BY <1>2, <1>5, <1>6, <1>7, BracketIsGood
<1> QED
  BY <1>1, <1>8

\* A container is closed: the one that is open, with its state and its count on top
\* (reader.h:2062-2121).
LEMMA CloseIsGood ==
  ASSUME NEW here, Looking(here), Peek(here) # "end", state \notin {"Start", "Finish"},
         NEW name \in Ends
  PROVE  GoodRound(here, Close(state, name, here))
<1> DEFINE event == <<name, Last(stack) + (IF state \in {"MemberValue", "Element"} THEN 1 ELSE 0)>>
           return == stack[Len(stack) - 1]
           stk == SubSeq(stack, 1, Len(stack) - 2)
<1>1. Close(state, name, here) = Bracket(Return, Call(here, event), stk)
  BY DEF Close
<1>2. Nested(stack) /\ stack # <<>>
  BY DEF Looking, InState
<1>3. /\ Len(stack) \in Nat /\ Len(stack) >= 2
      /\ Last(stack) \in Nat
      /\ return \in {"Start", "Element", "MemberValue"}
      /\ return = "Start" <=> Len(stack) = 2
      /\ Nested(stk)
      /\ Len(stk) = Len(stack) - 2
  BY <1>2, NestedTop
<1>4. event \in EventType /\ event[1] \in Ends
  BY <1>3 DEF EventType
<1>5. Return = IF return = "Start" THEN "Finish" ELSE return
  BY DEF Return
<1> HIDE DEF event, stk, return
<1>6. stk = <<>> <=> Len(stack) = 2
  <2>1. stk \in Seq(States \cup Nat)
    BY <1>3 DEF Nested
  <2> QED
    BY <1>3, <2>1, EmptySeq
<1>7. InState(Return, stk)
  BY <1>3, <1>5, <1>6 DEF InState, States
<1>8. event[1] \notin Starts
  BY <1>4 DEF Starts, Ends
<1>9. Len(stk) = Len(stack) + Deeper(event) /\ Len(stk) \in Int /\ Len(stack) \in Int
  BY <1>3, <1>4, <1>8 DEF Deeper
<1>10. GoodRound(here, Bracket(Return, Call(here, event), stk))
  BY <1>3, <1>4, <1>7, <1>9, BracketIsGood
<1> QED
  BY <1>1, <1>10

\* Every round is good, and at the end of the root it changes nothing (reader.h:1994-2144).
LEMMA TransitIsGood ==
  ASSUME NEW here, Looking(here)
  PROVE  LET t == Transit(state, Predict(state, Tokenize(Peek(here))), here) IN
         /\ GoodRound(here, t)
         /\ state = "Finish" => t.state = "Error" /\ t.stack = stack /\ t.r = here
<1> DEFINE dst == Predict(state, Tokenize(Peek(here)))
<1>1. /\ here \in StreamType /\ Nested(stack) /\ InState(state, stack) /\ Len(stack) \in Int
  <2>1. Nested(stack) => Len(stack) \in Int
    BY DEF Nested
  <2> QED
    BY <2>1, Zenon DEF Looking
<1>2. state \in States
  BY <1>1 DEF InState
<1>3. /\ dst \in {"Error", "ObjectInitial", "ArrayInitial", "MemberKey", "KeyValueDelimiter",
                  "MemberDelimiter", "ElementDelimiter", "ObjectFinish", "ArrayFinish",
                  "Value", "MemberValue", "Element"}
      /\ dst \notin {"Error", "Value", "MemberValue", "Element"} => Peek(here) # "end"
      /\ dst \in {"ObjectInitial", "ArrayInitial"} =>
           state \in {"Start", "KeyValueDelimiter", "ArrayInitial", "ElementDelimiter"}
      /\ dst = "Value" => state = "Start"
      /\ dst \notin {"Error", "ObjectInitial", "ArrayInitial", "Value"} =>
           state \notin {"Start", "Finish"}
      /\ state = "Finish" => dst = "Error"
  BY <1>2, TableLeads
<1> HIDE DEF dst
<1>4. ASSUME dst = "Error"
      PROVE  LET t == Transit(state, dst, here) IN t.state = "Error" /\ t.stack = stack /\ t.r = here
  <2>1. Transit(state, dst, here) = To("Error", here, stack)
    BY <1>4 DEF Transit
  <2> QED
    BY <2>1 DEF To
<1>5. SUFFICES GoodRound(here, Transit(state, dst, here))
  BY <1>3, <1>4 DEF dst
<1>6. state \notin {"Start", "Finish"} => stack # <<>>
  BY <1>1 DEF InState
<1>7. CASE dst = "Error"
  <2>1. Transit(state, dst, here) = To("Error", here, stack)
    BY <1>7 DEF Transit
  <2>2. OneMoreError(here, here)
    BY DEF OneMoreError
  <2> QED
    BY <1>1, <2>1, <2>2, FailedIsGood
<1>8. CASE dst \in {"ObjectInitial", "ArrayInitial"}
  <2>1. Transit(state, dst, here) = Open(state, dst, here)
    BY <1>8 DEF Transit
  <2> QED
    BY <1>3, <1>8, <2>1, OpenIsGood
<1>9. CASE dst = "MemberKey"
  <2>1. Transit(state, dst, here) = Read(dst, String(here, <<"Key", 0>>))
    BY <1>9 DEF Transit
  <2>2. Plain(<<"Key", 0>>)
    BY DEF Plain, EventType, Starts, Ends
  <2>3. InState(dst, stack)
    BY <1>3, <1>6, <1>9 DEF InState, States
  <2> QED
    BY <1>3, <1>9, <2>1, <2>2, <2>3, ReadIsGood
<1>10. CASE dst = "KeyValueDelimiter"
  <2>1. Transit(state, dst, here) = To(dst, Take(here), stack)
    BY <1>10 DEF Transit
  <2>2. InState(dst, stack)
    BY <1>3, <1>6, <1>10 DEF InState, States
  <2> QED
    BY <1>1, <1>3, <1>10, <2>1, <2>2, TakenIsGood
<1>11. CASE dst \in {"MemberDelimiter", "ElementDelimiter"}
  <2> DEFINE stk == [stack EXCEPT ![Len(stack)] = @ + 1]
  <2>1. Transit(state, dst, here) = To(dst, Take(here), stk)
    BY <1>11 DEF Transit
  <2>2. Nested(stk) /\ Len(stk) = Len(stack) /\ stk # <<>>
    BY <1>1, <1>3, <1>6, <1>11, NestedCount
  <2> HIDE DEF stk
  <2>3. InState(dst, stk)
    BY <1>11, <2>2 DEF InState, States
  <2> QED
    BY <1>1, <1>3, <1>11, <2>1, <2>2, <2>3, TakenIsGood
<1>12. CASE dst = "ObjectFinish"
  <2>1. CASE "TrailingCommas" \notin flags /\ state = "MemberDelimiter"
    <3>1. Transit(state, dst, here) = To("Error", Fail(here, "ObjectMissName"), stack)
      BY <1>12, <2>1 DEF Transit
    <3>2. "ObjectMissName" \in Codes
      BY DEF Codes
    <3> QED
      BY <3>1, <3>2, FailingIsGood
  <2>2. CASE ~("TrailingCommas" \notin flags /\ state = "MemberDelimiter")
    <3>1. Transit(state, dst, here) = Close(state, "EndObject", here)
      BY <1>12, <2>2 DEF Transit
    <3>2. "EndObject" \in Ends
      BY DEF Ends
    <3> QED
      BY <1>3, <1>12, <3>1, <3>2, CloseIsGood
  <2> QED
    BY <2>1, <2>2
<1>13. CASE dst = "ArrayFinish"
  <2>1. CASE "TrailingCommas" \notin flags /\ state = "ElementDelimiter"
    <3>1. Transit(state, dst, here) = To("Error", Fail(here, "ValueInvalid"), stack)
      BY <1>13, <2>1 DEF Transit
    <3>2. "ValueInvalid" \in Codes
      BY DEF Codes
    <3> QED
      BY <3>1, <3>2, FailingIsGood
  <2>2. CASE ~("TrailingCommas" \notin flags /\ state = "ElementDelimiter")
    <3>1. Transit(state, dst, here) = Close(state, "EndArray", here)
      BY <1>13, <2>2 DEF Transit
    <3>2. "EndArray" \in Ends
      BY DEF Ends
    <3> QED
      BY <1>3, <1>13, <3>1, <3>2, CloseIsGood
  <2> QED
    BY <2>1, <2>2
<1>14. CASE dst \in {"Value", "MemberValue", "Element"}
  <2> DEFINE to == IF dst = "Value" THEN "Finish" ELSE dst
  <2>1. Transit(state, dst, here) = Read(to, Scalar(here))
    BY <1>14 DEF Transit
  <2>2. InState(to, stack)
    BY <1>1, <1>3, <1>14 DEF InState, States
  <2> HIDE DEF to
  <2> QED
    BY <2>1, <2>2, ScalarIsGood
<1> QED
  BY <1>3, <1>7, <1>8, <1>9, <1>10, <1>11, <1>12, <1>13, <1>14

-----------------------------------------------------------------------------
(* The parsers.                                                            *)

\* An error is set that says what was missing, unless one has been set (reader.h:2149-2173).
LEMMA HandleErrorKeeps ==
  ASSUME text \in Seq(Symbols), NEW q \in StreamType, Final(q.errors), NEW src
  PROVE  /\ HandleError(src, q) \in StreamType
         /\ HandleError(src, q).events = q.events
         /\ Final(HandleError(src, q).errors)
         /\ ~Ok(HandleError(src, q))
<1>1. CASE ~Ok(q)
  BY <1>1 DEF HandleError
<1>2. CASE Ok(q)
  <2>1. PICK code \in Codes : HandleError(src, q) = Fail(q, code)
    <3> DEFINE code ==
           CASE src = "Start" -> "DocumentEmpty"
             [] src = "Finish" -> "DocumentRootNotSingular"
             [] src \in {"ObjectInitial", "MemberDelimiter"} -> "ObjectMissName"
             [] src = "MemberKey" -> "ObjectMissColon"
             [] src = "MemberValue" -> "ObjectMissCommaOrCurlyBracket"
             [] src \in {"KeyValueDelimiter", "ArrayInitial", "ElementDelimiter"} -> "ValueInvalid"
             [] OTHER -> "ArrayMissCommaOrSquareBracket"
    <3>1. code \in Codes
      BY DEF Codes
    <3>2. HandleError(src, q) = Fail(q, code)
      BY <1>2, Zenon DEF HandleError
    <3> HIDE DEF code
    <3> QED
      BY <3>1, <3>2
  <2> DEFINE e == [code |-> code, offset |-> q.at]
  <2>2. /\ e \in ErrorType
        /\ Fail(q, code) \in StreamType
        /\ Fail(q, code).events = q.events
        /\ Fail(q, code).errors = Append(q.errors, e)
    BY FailSets
  <2> HIDE DEF e
  <2>3. q.errors \in Seq(ErrorType) /\ Passed(q.errors)
    BY <1>2 DEF StreamType, Passed, Ok
  <2>4. Final(Append(q.errors, e)) /\ Append(q.errors, e) # <<>>
    BY <2>2, <2>3, OneMore, AppendProperties
  <2> QED
    BY <2>1, <2>2, <2>4 DEF Ok
<1> QED
  BY <1>1, <1>2

\* What skipping finds: behind it the parser can look, unless an error ends the parsing.
LEMMA SkippedIsLooking ==
  ASSUME ReaderInv, ~done
  PROVE  LET here == SkipWhitespaceAndComments(r) IN
         /\ here \in StreamType
         /\ here.events = r.events
         /\ Final(here.errors)
         /\ here.at >= r.at
         /\ here.at \in Nat /\ r.at \in Nat
         /\ Ok(here) \/ parser = "IterativeParseNext" => Looking(here)
<1> DEFINE here == SkipWhitespaceAndComments(r)
<1>1. /\ text \in Seq(Symbols) /\ r \in StreamType /\ HoldsOpen(r, stack)
      /\ Passed(r.errors) /\ Nested(stack) /\ InState(state, stack)
  BY Zenon DEF ReaderInv
<1>2. here \in Behind(r) /\ ("Comments" \notin flags => here.errors = r.errors)
  BY <1>1, SkippingIsBehind
<1> HIDE DEF here
<1>3. /\ here \in StreamType
      /\ here.at >= r.at
      /\ here.events = r.events
      /\ here.errors = r.errors \/ Malformed(r.errors, here.errors)
  BY <1>2 DEF Behind
<1>4. r.errors \in Seq(ErrorType)
  BY <1>1 DEF StreamType
<1>5. Final(here.errors)
  <2>1. CASE here.errors = r.errors
    BY <1>1, <2>1 DEF Passed, Final
  <2>2. CASE Malformed(r.errors, here.errors)
    BY <1>1, <1>4, <2>2, OneMore DEF Malformed
  <2> QED
    BY <1>3, <2>1, <2>2
<1>6. ASSUME parser = "IterativeParseNext" PROVE Passed(here.errors)
  <2>1. CASE here.errors = r.errors
    BY <1>1, <2>1
  <2>2. CASE here.errors # r.errors
    <3>1. "Comments" \in flags /\ Malformed(r.errors, here.errors)
      BY <1>2, <1>3, <2>2
    <3>2. PICK e \in ErrorType : here.errors = Append(r.errors, e)
      BY <3>1 DEF Malformed
    <3>3. Malformed(r.errors, Append(r.errors, e)) /\ parser = "IterativeParseNext" /\ "Comments" \in flags
            => Passed(Append(r.errors, e))
      BY <1>1, <1>4, OneMore
    <3> QED
      BY <1>6, <3>1, <3>2, <3>3
  <2> QED
    BY <2>1, <2>2
<1>7. Ok(here) => Passed(here.errors)
  BY DEF Ok, Passed
<1>8. HoldsOpen(here, stack)
  BY <1>1, <1>3 DEF HoldsOpen
<1>9. Ok(here) \/ parser = "IterativeParseNext" => Looking(here)
  BY <1>1, <1>3, <1>6, <1>7, <1>8 DEF Looking
<1>10. here.at \in Nat /\ r.at \in Nat
  BY <1>1, <1>3, LenProperties DEF StreamType
<1> QED
  BY <1>3, <1>5, <1>9, <1>10 DEF here

\* What a round has to establish.
GoodEnd ==
  /\ r' \in StreamType
  /\ Final(r'.errors)
  /\ state' = "Finish" => stack' = <<>> /\ Count(r'.events, Starts) = Count(r'.events, Ends)
  /\ done' /\ Ok(r') => state' = "Finish"
  /\ ~done' => /\ Passed(r'.errors) /\ HoldsOpen(r', stack')
               /\ Nested(stack') /\ InState(state', stack')
               /\ r'.at > r.at

\* At the end of the root as many containers were ended as started.
LEMMA FinishIsEven ==
  ASSUME NEW q \in StreamType, NEW stk, HoldsOpen(q, stk), InState("Finish", stk)
  PROVE  stk = <<>> /\ Count(q.events, Starts) = Count(q.events, Ends)
<1>1. stk = <<>>
  BY DEF InState
<1>2. Len(stk) = 0
  BY <1>1
<1>3. q.events \in Seq(EventType)
  BY DEF StreamType
<1>4. Count(q.events, Starts) \in Nat /\ Count(q.events, Ends) \in Nat
  BY <1>3, CountIsNat
<1>5. 0 = 2 * (Count(q.events, Starts) - Count(q.events, Ends))
  BY <1>2 DEF HoldsOpen
<1> QED
  BY <1>1, <1>4, <1>5

\* The end of the text (reader.h:619-637, 2184-2190).
LEMMA EndedIsGood ==
  ASSUME ReaderInv, NEW q \in StreamType, q.events = r.events, Final(q.errors),
         ~Ok(q) \/ state = "Finish", Ended(q)
  PROVE  GoodEnd
<1>1. r' = q /\ done' = TRUE /\ stack' = <<>> /\ state' = state
  BY DEF Ended
<1>2. state = "Finish" => Count(r.events, Starts) = Count(r.events, Ends)
  BY DEF ReaderInv
<1> QED
  BY <1>1, <1>2 DEF GoodEnd, Ok

\* An error that the state explains, at the end of the text.
LEMMA EndedWithErrorIsGood ==
  ASSUME ReaderInv, NEW q \in StreamType, q.events = r.events, Final(q.errors),
         Ended(IF state = "Finish" THEN q ELSE HandleError(state, q))
  PROVE  GoodEnd
<1>1. text \in Seq(Symbols)
  BY DEF ReaderInv
<1>2. CASE state = "Finish"
  <2>1. Ended(q)
    BY <1>2
  <2> QED
    BY <1>2, <2>1, EndedIsGood
<1>3. CASE state # "Finish"
  <2> DEFINE e == HandleError(state, q)
  <2>1. Ended(e)
    BY <1>3
  <2>2. e \in StreamType /\ e.events = q.events /\ Final(e.errors) /\ ~Ok(e)
    BY <1>1, HandleErrorKeeps
  <2> HIDE DEF e
  <2>3. e.events = r.events
    BY <2>2
  <2> QED
    BY <2>1, <2>2, <2>3, EndedIsGood
<1> QED
  BY <1>2, <1>3

\* An error in a round.
LEMMA ErrorIsGood ==
  ASSUME ReaderInv, NEW q \in StreamType, Final(q.errors),
         state = "Finish" => q.events = r.events /\ stack' = <<>>,
         r' = HandleError(state, q), state' = state, done' = TRUE
  PROVE  GoodEnd
<1>1. text \in Seq(Symbols)
  BY DEF ReaderInv
<1>2. r' \in StreamType /\ r'.events = q.events /\ Final(r'.errors) /\ ~Ok(r')
  BY <1>1, HandleErrorKeeps
<1>3. state = "Finish" => Count(r.events, Starts) = Count(r.events, Ends)
  BY DEF ReaderInv
<1> QED
  BY <1>2, <1>3 DEF GoodEnd, Ok

\* A round of IterativeParse (reader.h:2175-2208).
LEMMA IterativeParseGood ==
  ASSUME ReaderInv, IterativeParse
  PROVE  GoodEnd
<1> DEFINE here == SkipWhitespaceAndComments(r)
           t == Transit(state, Predict(state, Tokenize(Peek(here))), here)
<1>1. ~done
  BY DEF IterativeParse, Ready
<1>2. /\ here \in StreamType
      /\ here.events = r.events
      /\ Final(here.errors)
      /\ here.at >= r.at
      /\ here.at \in Nat /\ r.at \in Nat
      /\ Ok(here) \/ parser = "IterativeParseNext" => Looking(here)
  BY <1>1, SkippedIsLooking
<1>3. CASE ~Ok(here)
  <2>1. Ended(here)
    BY <1>3 DEF IterativeParse
  <2> HIDE DEF here
  <2> QED
    BY <1>2, <1>3, <2>1, EndedIsGood
<1>4. CASE Ok(here) /\ Peek(here) = "end"
  <2>1. Ended(IF state = "Finish" THEN here ELSE HandleError(state, here))
    BY <1>4 DEF IterativeParse
  <2> HIDE DEF here
  <2> QED
    BY <1>2, <2>1, EndedWithErrorIsGood
<1>5. CASE Ok(here) /\ Peek(here) # "end"
  <2>1. Looking(here)
    BY <1>2, <1>5
  <2>2. /\ GoodRound(here, t)
        /\ state = "Finish" => t.state = "Error" /\ t.stack = stack /\ t.r = here
    BY <2>1, TransitIsGood
  <2>3. /\ r' = IF t.state = "Error" THEN HandleError(state, t.r) ELSE t.r
        /\ state' = IF t.state = "Error" THEN state ELSE t.state
        /\ done' = (t.state = "Error" \/ (t.state = "Finish" /\ "StopWhenDone" \in flags))
        /\ stack' = IF done' THEN <<>> ELSE t.stack
    BY <1>5 DEF IterativeParse
  <2> HIDE DEF t, here
  <2>4. CASE t.state = "Error"
    <3>1. r' = HandleError(state, t.r) /\ state' = state /\ done' = TRUE /\ stack' = <<>>
      BY <2>3, <2>4
    <3>2. t.r \in StreamType /\ Final(t.r.errors)
      BY <2>2 DEF GoodRound
    <3>3. state = "Finish" => t.r.events = r.events
      BY <1>2, <2>2
    <3> QED
      BY <3>1, <3>2, <3>3, ErrorIsGood
  <2>5. CASE t.state # "Error"
    <3>1. /\ t.r \in StreamType /\ Final(t.r.errors) /\ Passed(t.r.errors)
          /\ t.r.at > here.at /\ HoldsOpen(t.r, t.stack)
          /\ Nested(t.stack) /\ InState(t.state, t.stack)
      BY <2>2, <2>5 DEF GoodRound
    <3>2. t.r.at \in Nat
      BY <3>1, LenProperties DEF StreamType
    <3>3. t.r.at > r.at
      BY <1>2, <3>1, <3>2
    <3>4. r' = t.r /\ state' = t.state /\ (done' => state' = "Finish")
      BY <2>3, <2>5
    <3>5. t.state = "Finish" => t.stack = <<>> /\ Count(t.r.events, Starts) = Count(t.r.events, Ends)
      BY <3>1, FinishIsEven
    <3>6. stack' = t.stack
      BY <2>3, <3>4, <3>5
    <3> QED
      BY <3>1, <3>3, <3>4, <3>5, <3>6 DEF GoodEnd
  <2> QED
    BY <2>4, <2>5
<1> QED
  BY <1>3, <1>4, <1>5

\* A round of IterativeParseNext (reader.h:617-670).
LEMMA IterativeParseNextGood ==
  ASSUME ReaderInv, IterativeParseNext
  PROVE  GoodEnd
<1> DEFINE here == SkipWhitespaceAndComments(r)
           t == Transit(state, Predict(state, Tokenize(Peek(here))), here)
           skipped == SkipWhitespaceAndComments(t.r)
           rest == IF "StopWhenDone" \in flags THEN t.r ELSE skipped
<1>1. ~done /\ parser = "IterativeParseNext"
  BY DEF IterativeParseNext, Ready
<1>2. /\ here.events = r.events
      /\ here.at >= r.at /\ here.at \in Nat /\ r.at \in Nat
      /\ Looking(here)
  BY <1>1, SkippedIsLooking
<1>3. /\ text \in Seq(Symbols) /\ r \in StreamType /\ Final(r.errors)
      /\ state = "Finish" => stack = <<>>
  BY DEF ReaderInv
<1>4. CASE Peek(r) = "end"
  <2>1. Ended(IF state = "Finish" THEN r ELSE HandleError(state, r))
    BY <1>4 DEF IterativeParseNext
  <2> QED
    BY <1>3, <2>1, EndedWithErrorIsGood
<1>5. CASE Peek(r) # "end"
  <2>1. /\ GoodRound(here, t)
        /\ state = "Finish" => t.state = "Error" /\ t.stack = stack /\ t.r = here
    BY <1>2, TransitIsGood
  <2>2. /\ stack' = t.stack
        /\ r' = CASE t.state = "Error" -> HandleError(state, t.r)
                  [] t.state = "Finish" ->
                       IF "StopWhenDone" \in flags \/ Peek(rest) = "end"
                       THEN rest ELSE HandleError("Finish", rest)
                  [] OTHER -> t.r
        /\ state' = IF t.state = "Error" THEN state ELSE t.state
        /\ done' = (t.state \in {"Error", "Finish"})
    BY <1>5 DEF IterativeParseNext
  <2> HIDE DEF t, here, skipped
  <2>3. t.r \in StreamType /\ Final(t.r.errors)
    BY <2>1 DEF GoodRound
  <2>4. CASE t.state = "Error"
    <3>1. r' = HandleError(state, t.r) /\ state' = state /\ done' = TRUE /\ stack' = t.stack
      BY <2>2, <2>4
    <3>2. state = "Finish" => t.r.events = r.events /\ stack' = <<>>
      BY <1>2, <1>3, <2>1, <3>1
    <3> QED
      BY <2>3, <3>1, <3>2, ErrorIsGood
  <2>5. ASSUME t.state # "Error"
        PROVE  /\ Passed(t.r.errors) /\ t.r.at > here.at /\ HoldsOpen(t.r, t.stack)
               /\ Nested(t.stack) /\ InState(t.state, t.stack)
    BY <2>1, <2>5 DEF GoodRound
  <2>6. CASE t.state = "Finish"
    <3>1. t.stack = <<>> /\ Count(t.r.events, Starts) = Count(t.r.events, Ends)
      BY <2>3, <2>5, <2>6, FinishIsEven
    <3>2. rest \in StreamType /\ rest.events = t.r.events /\ Final(rest.errors)
      <4>1. skipped \in Behind(t.r)
        BY <1>3, <2>3, SkippingIsBehind DEF skipped
      <4>2. /\ skipped \in StreamType /\ skipped.events = t.r.events
            /\ skipped.errors = t.r.errors \/ Malformed(t.r.errors, skipped.errors)
        BY <4>1 DEF Behind
      <4>3. Passed(t.r.errors) /\ t.r.errors \in Seq(ErrorType)
        BY <2>3, <2>5, <2>6 DEF StreamType
      <4>4. Final(skipped.errors)
        BY <2>3, <4>2, <4>3, OneMore DEF Malformed
      <4> QED
        BY <2>3, <4>2, <4>4
    <3> HIDE DEF rest
    <3> DEFINE e == HandleError("Finish", rest)
    <3>3. e \in StreamType /\ e.events = rest.events /\ Final(e.errors) /\ ~Ok(e)
      BY <1>3, <3>2, HandleErrorKeeps
    <3>4. r' \in {rest, e} /\ done' = TRUE /\ state' = "Finish" /\ stack' = t.stack
      BY <2>2, <2>6
    <3> HIDE DEF e
    <3>5. r' \in StreamType /\ r'.events = t.r.events /\ Final(r'.errors)
      BY <3>2, <3>3, <3>4
    <3> QED
      BY <3>1, <3>4, <3>5 DEF GoodEnd
  <2>7. CASE t.state \notin {"Error", "Finish"}
    <3>1. t.r.at \in Nat
      BY <2>3, <1>3, LenProperties DEF StreamType
    <3>2. t.r.at > r.at
      BY <1>2, <2>5, <2>7, <3>1
    <3>3. r' = t.r /\ state' = t.state /\ stack' = t.stack /\ ~done'
      BY <2>2, <2>7
    <3> QED
      BY <2>3, <2>5, <2>7, <3>2, <3>3 DEF GoodEnd
  <2> QED
    BY <2>4, <2>6, <2>7
<1> QED
  BY <1>4, <1>5

-----------------------------------------------------------------------------
(* The theorems.                                                           *)

\* Nothing has been read and nothing is open.
LEMMA InitReaderInv == Init => ReaderInv
<1> SUFFICES ASSUME Init PROVE ReaderInv
  OBVIOUS
<1>1. text \in Seq(Symbols) /\ Len(text) \in Nat
  <2>1. text \in Seq(Symbols)
    BY TextsAssumption DEF Init
  <2> QED
    BY <2>1, LenProperties
<1>2. /\ r \in StreamType /\ r.events = <<>> /\ r.errors = <<>>
      /\ stack = <<>> /\ state = "Start" /\ ~done
  BY <1>1 DEF Init, Unread, StreamType
<1>3. ASSUME NEW names PROVE Count(r.events, names) = 0
  <2>1. {i \in DOMAIN r.events : r.events[i][1] \in names} = {}
    BY <1>2
  <2> QED
    BY <2>1, FS_EmptySet DEF Count
<1>4. HoldsOpen(r, stack)
  <2>1. Len(stack) = 0
    BY <1>2
  <2> QED
    BY <1>3, <2>1 DEF HoldsOpen
<1>5. Nested(stack)
  BY <1>2 DEF Nested
<1>6. InState(state, stack)
  BY <1>2 DEF InState, States
<1>7. Passed(r.errors) /\ Final(r.errors)
  BY <1>2 DEF Passed, Final
<1> QED
  BY <1>1, <1>2, <1>4, <1>5, <1>6, <1>7 DEF ReaderInv

\* A round keeps the invariant.
LEMMA RoundKeeps ==
  ASSUME ReaderInv, GoodEnd, text' = text, flags' = flags, parser' = parser
  PROVE  ReaderInv'
<1>1. StreamType' = StreamType
  BY DEF StreamType
<1>2. text' \in Seq(Symbols)
  BY DEF ReaderInv
<1>3. r' \in StreamType'
  BY <1>1 DEF GoodEnd
<1>4. Final(r.errors)'
  BY DEF GoodEnd, Final
<1>5. (state = "Finish" => stack = <<>> /\ Count(r.events, Starts) = Count(r.events, Ends))'
  BY DEF GoodEnd, Count, Starts, Ends
<1>6. (done /\ Ok(r) => state = "Finish")'
  BY DEF GoodEnd, Ok
<1>7. (~done => Passed(r.errors) /\ HoldsOpen(r, stack) /\ Nested(stack) /\ InState(state, stack))'
  BY DEF GoodEnd, Passed, HoldsOpen, Nested, InState
<1> QED
  BY <1>2, <1>3, <1>4, <1>5, <1>6, <1>7 DEF ReaderInv

\* A text that grows leaves behind it what has been read.
LEMMA FeedKeeps ==
  ASSUME ReaderInv, NEW c \in Chars, Feed(c)
  PROVE  ReaderInv'
<1>1. /\ text \in Seq(Symbols) /\ c \in Symbols
      /\ text' = Append(text, c)
      /\ UNCHANGED <<flags, stop, parser, state, stack, r, done>>
  BY DEF ReaderInv, Feed, Symbols
<1>2. text' \in Seq(Symbols) /\ Len(text') = Len(text) + 1 /\ Len(text) \in Nat
  BY <1>1, AppendProperties, LenProperties
<1>3. r' \in StreamType'
  <2>1. r \in StreamType /\ r' = r
    BY <1>1 DEF ReaderInv
  <2>2. 1 .. Len(text) + 1 \subseteq 1 .. Len(text') + 1
    BY <1>2
  <2> QED
    BY <2>1, <2>2 DEF StreamType
<1>4. Final(r.errors)'
  BY <1>1 DEF ReaderInv, Final
<1>5. (state = "Finish" => stack = <<>> /\ Count(r.events, Starts) = Count(r.events, Ends))'
  BY <1>1 DEF ReaderInv
<1>6. (done /\ Ok(r) => state = "Finish")'
  BY <1>1 DEF ReaderInv, Ok
<1>7. (~done => Passed(r.errors) /\ HoldsOpen(r, stack) /\ Nested(stack) /\ InState(state, stack))'
  BY <1>1 DEF ReaderInv, Passed, HoldsOpen, Nested, InState
<1> QED
  BY <1>2, <1>3, <1>4, <1>5, <1>6, <1>7 DEF ReaderInv

\* One case for each parser.
LEMMA NextReaderInv == ReaderInv /\ [Next]_vars => ReaderInv'
<1> SUFFICES ASSUME ReaderInv, [Next]_vars PROVE ReaderInv'
  OBVIOUS
<1>1. CASE IterativeParse
  <2>1. text' = text /\ flags' = flags /\ parser' = parser
    BY <1>1 DEF IterativeParse
  <2> QED
    BY <1>1, <2>1, IterativeParseGood, RoundKeeps
<1>2. CASE IterativeParseNext
  <2>1. text' = text /\ flags' = flags /\ parser' = parser
    BY <1>2 DEF IterativeParseNext
  <2> QED
    BY <1>2, <2>1, IterativeParseNextGood, RoundKeeps
<1>3. CASE \E c \in Chars : Feed(c)
  BY <1>3, FeedKeeps
<1>4. CASE UNCHANGED vars
  BY <1>4 DEF vars, ReaderInv, StreamType, HoldsOpen, Passed, Final, Ok, Nested, InState
<1> QED
  BY <1>1, <1>2, <1>3, <1>4 DEF Next, Round

\* The invariant, of which the theorems are parts.
LEMMA ReaderInvariant == Spec => []ReaderInv
BY InitReaderInv, NextReaderInv, PTL DEF Spec

\* The stack of the iterative parsers is as deep as the text is nested, for every text,
\* every handler and all flags: while a text is read, each container that was started and
\* not ended has a state and a count there; at the end of the root, where alone a text is
\* found right, nothing is left on it and each container that was started was ended
\* (reader.h:641-670, 1994-2144, 2175-2208).
THEOREM StackIsAsDeepAsTheText == Spec => []StackIsNesting
<1>1. ReaderInv => StackIsNesting
  BY DEF ReaderInv, StackIsNesting, HoldsOpen
<1> QED
  BY <1>1, ReaderInvariant, PTL

\* For every text, every handler and all flags: behind a malformed comment alone, and with
\* IterativeParseNext alone, the parsing goes on and another error may follow; any other
\* error is the last thing that happens (reader.h:101, 620, 641, 655).
THEOREM ErrorsEndTheParsing == Spec => []ErrorsEnd
<1>1. ReaderInv => ErrorsEnd
  BY DEF ReaderInv, ErrorsEnd, Passed, Final
<1> QED
  BY <1>1, ReaderInvariant, PTL

\* The stack leads back to what is open, and an error ends the parsing, but for a
\* malformed comment token by token, whatever the text, the flags and the handler
\* (reader.h:101, 617-670, 1994-2208).
THEOREM ReaderKeepsPlace == Spec => []ReaderKeepsItsPlace
BY StackIsAsDeepAsTheText, ErrorsEndTheParsing, PTL DEF ReaderKeepsItsPlace

\* A round takes a symbol or is the last one: a text is read in as many rounds as it has
\* symbols, at most (reader.h:617-670, 2175-2208).
THEOREM EveryRoundAdvances == Spec => RoundsAdvance
<1>1. ReaderInv /\ [Next]_vars => [Round => r'.at > r.at \/ done']_vars
  <2> SUFFICES ASSUME ReaderInv, Round PROVE r'.at > r.at \/ done'
    OBVIOUS
  <2>1. GoodEnd
    BY IterativeParseGood, IterativeParseNextGood DEF Round
  <2> QED
    BY <2>1 DEF GoodEnd
<1> QED
  BY <1>1, ReaderInvariant, PTL DEF Spec, RoundsAdvance

=============================================================================
