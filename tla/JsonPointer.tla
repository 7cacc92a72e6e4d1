----------------------------- MODULE JsonPointer -----------------------------
(***************************************************************************)
(* GenericPointer (rapidjson/pointer.h): a text or URI fragment parsed     *)
(* into tokens, and tokens written as either.  A character of the text is  *)
(* plain, or percent-encoded, a triplet; "lead" and "tail" are the two     *)
(* bytes of a character beyond ASCII.                                      *)
(***************************************************************************)
EXTENDS Naturals, Sequences, SequencesExt, FiniteSets

CONSTANTS
  Chars,         \* the plain characters of texts, as a sequence in their order
  Encoded,       \* those that are percent-encoded
  Bits,          \* of SizeType: 32
  MaxText

VARIABLES text, parser

vars == <<text, parser>>

Plain(c)   == [char |-> c, encoded |-> FALSE]
Triplet(c) == [char |-> c, encoded |-> TRUE]

Digits == <<"0", "1", "2", "3", "4", "5", "6", "7", "8", "9">>
Digit(c) == CHOOSE d \in 0 .. 9 : Digits[d + 1] = c
IsDigit(c) == c \in ToSet(Digits)
kPointerInvalidIndex == 2 ^ Bits - 1

NeedPercentEncode(c) == c \in {"#", " ", "%", "lead", "tail"}

-----------------------------------------------------------------------------
(* Parse.                                                                  *)

Start == [at |-> "begin", fragment |-> FALSE, tokens |-> <<>>, name |-> <<>>, isNumber |-> TRUE]

\* What was parsed of a text that is wrong is freed.
Error(p, code) == [p EXCEPT !.at = code, !.tokens = <<>>, !.name = <<>>]

\* Variant: a number may begin with zeros.
NumberAllowed(p) == p.isNumber /\ p.name # <<>>

\* A name of digits, but without zeros in front, is a number.
IsNumber(p) == p.isNumber /\ p.name # <<>> /\ (Len(p.name) > 1 => p.name[1] # "0")

\* Variant: numbers wrap round unseen.
IndexOfWrapped(name) ==
  LET n[i \in 0 .. Len(name)] == IF i = 0 THEN 0 ELSE (n[i - 1] * 10 + Digit(name[i])) % 2 ^ Bits
  IN  n[Len(name)]

\* The number in the width of SizeType, unless a digit makes it smaller.
IndexOf(name) ==
  LET n[i \in 0 .. Len(name)] ==
        IF i = 0 THEN [ok |-> TRUE, n |-> 0]
        ELSE LET m == (n[i - 1].n * 10 + Digit(name[i])) % 2 ^ Bits
             IN  [ok |-> n[i - 1].ok /\ m >= n[i - 1].n, n |-> m]
  IN  IF n[Len(name)].ok THEN n[Len(name)].n ELSE kPointerInvalidIndex

EndToken(p) ==
  [p EXCEPT !.tokens = Append(@, [name |-> p.name, index |-> IF IsNumber(p) THEN IndexOf(p.name)
                                                             ELSE kPointerInvalidIndex])]

BeginToken(p) == [p EXCEPT !.at = "token", !.name = <<>>, !.isNumber = TRUE]

Put(p, c) == [p EXCEPT !.at = "token", !.name = Append(@, c), !.isNumber = (@ /\ IsDigit(c))]

Char(p, c) == IF c = "~" THEN [p EXCEPT !.at = "tilde"] ELSE Put(p, c)

\* Variant: what is left of an escape is the character behind it.
UnescapedAsItIs(p, s) == Put(p, s.char)

Unescaped(p, s) == Put(p, IF s.char = "0" THEN "~" ELSE "/")

\* In a fragment the triplets are decoded, and some characters must be such.
FeedFragment(p, s) ==
  CASE s \in {Plain("%"), Triplet("tail")} -> Error(p, "InvalidPercentEncoding")
    [] ~s.encoded /\ s.char # "%" ->
         IF NeedPercentEncode(s.char) THEN Error(p, "CharacterMustPercentEncode")
         ELSE Char(p, s.char)
    [] s = Triplet("lead") -> [p EXCEPT !.at = "sequence"]
    [] OTHER -> Char(p, s.char)

\* The next character.
Feed(p, s) ==
  CASE p.at = "begin" /\ s = Plain("#") -> [p EXCEPT !.fragment = TRUE, !.at = "first"]
    [] p.at = "first" \/ (p.at = "begin" /\ s # Plain("#")) ->
         IF s = Plain("/") THEN BeginToken(p) ELSE Error(p, "TokenMustBeginWithSolidus")
    [] p.at = "token" /\ s = Plain("/") -> BeginToken(EndToken(p))
    [] p.at = "token" /\ s # Plain("/") /\ ~p.fragment -> Char(p, s.char)
    [] p.at = "token" /\ s # Plain("/") /\ p.fragment -> FeedFragment(p, s)
    [] p.at = "tilde" ->
         IF s \in {Plain("0"), Plain("1")} THEN Unescaped(p, s) ELSE Error(p, "InvalidEscape")
    [] p.at = "sequence" ->
         IF s = Triplet("tail") THEN Put(Put(p, "lead"), "tail")
         ELSE Error(p, "InvalidPercentEncoding")

\* The end of the text.
End(p) ==
  CASE p.at \in {"begin", "first"} -> [p EXCEPT !.at = "none"]
    [] p.at = "token" -> [EndToken(p) EXCEPT !.at = "none"]
    [] p.at = "tilde" -> Error(p, "InvalidEscape")
    [] p.at = "sequence" -> Error(p, "InvalidPercentEncoding")
    [] OTHER -> p

Parsing == {"begin", "first", "token", "tilde", "sequence"}

\* A text that is parsed to its end, or to the character that is wrong.
Parse(t) == End(FoldLeft(LAMBDA p, s : IF p.at \in Parsing THEN Feed(p, s) ELSE p, Start, t))

-----------------------------------------------------------------------------
(* Stringify.                                                              *)

\* A character beyond ASCII is encoded whole, and fails when it is broken.
Written(name, j, fragment) ==
  LET c == name[j]
  IN  CASE c = "~" -> <<Plain("~"), Plain("0")>>
        [] c = "/" -> <<Plain("~"), Plain("1")>>
        [] OTHER -> IF fragment /\ NeedPercentEncode(c) THEN <<Triplet(c)>> ELSE <<Plain(c)>>

IsBroken(name) ==
  \E j \in DOMAIN name :
    \/ name[j] = "lead" /\ (j = Len(name) \/ name[j + 1] # "tail")
    \/ name[j] = "tail" /\ (j = 1 \/ name[j - 1] # "lead")

CanStringify(tokens, fragment) == fragment => \A i \in DOMAIN tokens : ~IsBroken(tokens[i].name)

Stringify(tokens, fragment) ==
  (IF fragment THEN <<Plain("#")>> ELSE <<>>)
    \o FlattenSeq([i \in DOMAIN tokens |->
         <<Plain("/")>> \o FlattenSeq([j \in DOMAIN tokens[i].name |->
                                         Written(tokens[i].name, j, fragment)])])

-----------------------------------------------------------------------------
(* Comparing pointers.                                                     *)

IsValid(p) == p.at = "none"

Equal(p, q) == IsValid(p) /\ IsValid(q) /\ p.tokens = q.tokens

Rank(c) == CHOOSE i \in DOMAIN Chars \cup {Len(Chars) + 1} : i > Len(Chars) \/ Chars[i] = c

\* std::memcmp, of names of the same length.
NameLess(a, b) ==
  \E j \in DOMAIN a : Rank(a[j]) < Rank(b[j]) /\ \A k \in 1 .. j - 1 : a[k] = b[k]

\* Variant: names are compared to the end of the shorter.
TokenLessBegin(a, b) ==
  IF a.index # b.index THEN a.index < b.index
  ELSE \E j \in DOMAIN a.name \cap DOMAIN b.name :
         Rank(a.name[j]) < Rank(b.name[j]) /\ \A k \in 1 .. j - 1 : a.name[k] = b.name[k]

TokenLess(a, b) ==
  CASE a.index # b.index -> a.index < b.index
    [] Len(a.name) # Len(b.name) -> Len(a.name) < Len(b.name)
    [] OTHER -> NameLess(a.name, b.name)

\* The first tokens that differ decide.
Less(p, q) ==
  CASE ~IsValid(p) -> FALSE
    [] ~IsValid(q) -> TRUE
    [] Len(p.tokens) # Len(q.tokens) -> Len(p.tokens) < Len(q.tokens)
    [] OTHER -> \E i \in DOMAIN p.tokens :
                  /\ TokenLess(p.tokens[i], q.tokens[i])
                  /\ \A k \in 1 .. i - 1 : p.tokens[k] = q.tokens[k]

-----------------------------------------------------------------------------

Init == text = <<>> /\ parser = Start

\* A triplet is one only in a fragment.
Symbols == {Plain(c) : c \in ToSet(Chars)}
             \cup (IF parser.fragment THEN {Triplet(c) : c \in Encoded} ELSE {})

Take ==
  /\ parser.at \in Parsing /\ Len(text) < MaxText
  /\ \E s \in Symbols : text' = Append(text, s) /\ parser' = Feed(parser, s)

Finish ==
  /\ parser.at \in Parsing
  /\ parser' = End(parser)
  /\ UNCHANGED text

Next == Take \/ Finish

Spec == Init /\ [][Next]_vars

-----------------------------------------------------------------------------
(* Properties.                                                             *)

\* The tokens of a text are those of the text and of the fragment that they are written
\* as (pointer.h:862-992, 1000-1032).
TokensReadBack ==
  parser.at = "none" =>
    \A fragment \in BOOLEAN :
      CanStringify(parser.tokens, fragment) =>
        LET again == Parse(Stringify(parser.tokens, fragment))
        IN  again.at = "none" /\ again.tokens = parser.tokens

Value(name) ==
  LET value[i \in 0 .. Len(name)] == IF i = 0 THEN 0 ELSE value[i - 1] * 10 + Digit(name[i])
  IN  value[Len(name)]

Decimal(name) == name # <<>> /\ \A i \in DOMAIN name : IsDigit(name[i])
Canonical(name) == Decimal(name) /\ (Len(name) > 1 => name[1] # "0")

\* A name that is no number has no index.  A number in the range of SizeType is the index of
\* its token.  One out of it, which is to have none (pointer.h:90-92), has none just when one
\* of its digits makes what the width leaves of the number smaller: any other has what the
\* width leaves of it, the index of another element, or that which says there is none
\* (pointer.h:950-977).
NumbersAreIndexes ==
  \A i \in DOMAIN parser.tokens :
    LET t == parser.tokens[i]
        Left(n) == Value(SubSeq(t.name, 1, n)) % 2 ^ Bits
        seen == \E n \in 1 .. Len(t.name) - 1 : Left(n + 1) < Left(n)
    IN  /\ ~Canonical(t.name) => t.index = kPointerInvalidIndex
        /\ Canonical(t.name) /\ Value(t.name) < 2 ^ Bits => t.index = Value(t.name)
        /\ Canonical(t.name) /\ Value(t.name) >= 2 ^ Bits =>
             t.index = IF seen THEN kPointerInvalidIndex ELSE Left(Len(t.name))

\* The pointers that are compared with the one of the text: those of texts with another
\* character after the first, and those of the text without its end.
Neighbours ==
  {Parse(SubSeq(text, 1, n)) : n \in 0 .. Len(text)}
    \cup {Parse([text EXCEPT ![i] = Plain(c)]) : i \in 2 .. Len(text), c \in ToSet(Chars)}

\* Of two valid pointers either is less, or they are equal; a pointer that is not valid
\* is greater than one that is, and equal to none (pointer.h:367-414).
LessIsStrict ==
  parser.at \notin Parsing =>
    \A q \in Neighbours :
      LET facts == <<Less(parser, q), Less(q, parser), Equal(parser, q)>>
      IN  IF IsValid(parser) /\ IsValid(q)
          THEN Cardinality({i \in DOMAIN facts : facts[i]}) = 1
          ELSE facts = <<IsValid(parser), IsValid(q), FALSE>>

=============================================================================
