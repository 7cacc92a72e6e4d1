---------------------------- MODULE MCJsonStrings ----------------------------
(***************************************************************************)
(* What is done with the characters of strings: texts are scanned in       *)
(* blocks, streams encoded and decoded, strings escaped, pointers and      *)
(* regular expressions parsed.  A behaviour is one of one part; the        *)
(* variables of the others stay as they are at the start.                  *)
(***************************************************************************)
EXTENDS BlockScan

VARIABLES
  part,
  written, sent, bytes, reader, type_, units,                       \* of a stream
  path, value, phase, is, os, total,                                \* of a string
  text, parser,                                                     \* of a pointer
  expression, pattern, regex, search                                \* of an expression

Stream == INSTANCE EncodedStream WITH
  Codepoints <- {49, 91, 128, 20013, 65536, 1114111}, MaxText <- 3,
  BytesOfUser <- {"UTF8", "UTF16LE", "UTF32BE"}

\* The encodings of values and texts between which strings are checked.
AllPaths ==
  {<<"UTF8", "UTF8">>, <<"UTF8", "ASCII">>, <<"UTF8", "UTF16">>, <<"UTF16", "UTF8">>,
   <<"UTF16", "UTF16">>, <<"UTF32", "ASCII">>, <<"UTF32", "UTF8">>}
String == INSTANCE JsonString WITH
  Paths <- AllPaths, Codepoints <- {0, 7, 10, 34, 122, 233, 8364, 65536, 1114111},
  MaxPieces <- 2

\* The characters of pointers, in their order; a character of two bytes is its two.
Pointer == INSTANCE JsonPointer WITH
  Chars <- <<"#", "%", "/", "0", "1", "a", "~", "lead", "tail">>,
  Encoded <- {"/", "~", "1", "lead", "tail"}, Bits <- 4, MaxText <- 5

-----------------------------------------------------------------------------
(* The expressions of a small size over two letters.                       *)

UnsignedMax == 255
Language == INSTANCE RegexLanguage

Symbol(spelling, matches) == [op |-> "symbol", written |-> spelling, matches |-> matches]
Count(spelling, least, most) == [written |-> spelling, least |-> least, most |-> most]

Symbols ==
  {Symbol(<<"a">>, {"a"}), Symbol(<<".">>, {"a", "b"}), Symbol(<<"[", "^", "b", "]">>, {"a"}),
   Symbol(<<"[", "a", "-", "b", "]">>, {"a", "b"}), Symbol(<<"[", "b", "-", "]">>, {"b"}),
   Symbol(<<"\\", ".">>, {})}

Counts ==
  {Count(<<"?">>, 0, 1), Count(<<"*">>, 0, UnsignedMax), Count(<<"+">>, 1, UnsignedMax),
   Count(<<"{", "0", ",", "2", "}">>, 0, 2), Count(<<"{", "2", "}">>, 2, 2),
   Count(<<"{", "2", ",", "}">>, 2, UnsignedMax), Count(<<"{", "1", ",", "3", "}">>, 1, 3)}

Repeated(counts, parts) ==
  {[op |-> "times", part |-> e, written |-> c.written, least |-> c.least, most |-> c.most] :
     e \in parts, c \in counts}

Joined(lefts, rights) ==
  {[op |-> op, left |-> l, right |-> r] : op \in {"|", "cat"}, l \in lefts, r \in rights}

\* Of n symbols and counts.
RECURSIVE OfSize(_, _, _)
OfSize(n, symbols, counts) ==
  IF n = 1 THEN symbols
  ELSE Repeated(counts, OfSize(n - 1, symbols, counts))
         \cup UNION {Joined(OfSize(k, symbols, counts), OfSize(n - k, symbols, counts)) : k \in 1 .. n - 1}

Letter == {Symbol(<<"a">>, {"a"}), Symbol(<<"b">>, {"b"})}
Common == {c \in Counts : c.written \in {<<"*">>, <<"?">>, <<"{", "1", ",", "3", "}">>}}

Expressions ==
  UNION {OfSize(n, Symbols, Counts) : n \in 1 .. 2} \cup OfSize(3, Letter, Counts)
    \cup {e \in OfSize(4, {Symbol(<<"a">>, {"a"})}, Common) : ~Language!RepeatsEmpty(e)}

Regex == INSTANCE JsonRegex WITH
  Expressions <- Expressions, Letters <- <<"a", "b">>, MaxText <- 3

-----------------------------------------------------------------------------
(* A behaviour of one part.                                                *)

None == "none"
stream == <<written, sent, bytes, reader, type_, units>>
string == <<path, value, phase, is, os, total>>
pointer == <<text, parser>>
regexv == <<expression, pattern, regex, search>>

NoScan == routine = "Skip" /\ head = MaxGap /\ end = head /\ Init
NoStream ==
  /\ written = None /\ sent = None /\ bytes = None /\ reader = None /\ type_ = None /\ units = None
NoString ==
  /\ path = None /\ value = None /\ phase = None /\ is = None /\ os = None /\ total = None
NoPointer == text = None /\ parser = None
NoRegex == expression = None /\ pattern = None /\ regex = None /\ search = None

MCInit ==
  \/ part = "scan"    /\ Init         /\ NoStream /\ NoString /\ NoPointer /\ NoRegex
  \/ part = "stream"  /\ Stream!Init  /\ NoScan /\ NoString /\ NoPointer /\ NoRegex
  \/ part = "string"  /\ String!Init  /\ NoScan /\ NoStream /\ NoPointer /\ NoRegex
  \/ part = "pointer" /\ Pointer!Init /\ NoScan /\ NoStream /\ NoString /\ NoRegex
  \/ part = "regex"   /\ Regex!Init   /\ NoScan /\ NoStream /\ NoString /\ NoPointer

DoScan == part = "scan" /\ Next /\ UNCHANGED <<part, stream, string, pointer, regexv>>
DoStream == part = "stream" /\ Stream!Next /\ UNCHANGED <<part, vars, string, pointer, regexv>>
DoString == part = "string" /\ String!Next /\ UNCHANGED <<part, vars, stream, pointer, regexv>>
DoPointer == part = "pointer" /\ Pointer!Next /\ UNCHANGED <<part, vars, stream, string, regexv>>
DoRegex == part = "regex" /\ Regex!Next /\ UNCHANGED <<part, vars, stream, string, pointer>>

\* The steps that the fairness of the parts is about.
TakeChar == part = "stream" /\ Stream!TakeChar /\ UNCHANGED <<part, vars, string, pointer, regexv>>

allVars == <<part, vars, stream, string, pointer, regexv>>
MCNext == DoScan \/ DoStream \/ DoString \/ DoPointer \/ DoRegex
MCSpec == MCInit /\ [][MCNext]_allVars /\ WF_allVars(DoScan \/ DoString) /\ WF_allVars(TakeChar)

-----------------------------------------------------------------------------
(* The properties of the other parts; that of a scan is stated with it.    *)

\* What is written is read back.  From a stream, in each encoding and byte order, which
\* are recognised.  As a string, in the space that WriteString reserves, and in place it
\* never overtakes the text; one that is well formed is never refused, and what is
\* accepted of an encoding is what is put for the code point.  As a pointer, whose tokens
\* are indexes when they are numbers without leading zeros in range, and out of range when
\* no digit is seen to wrap round; and the order of pointers is one (EncodedStream, encodings.h:222-233, encodedstream.h:73-77, 171-217;
\* JsonString, writer.h:376-448, reader.h:965-1054, encodings.h:146-176, 307-322;
\* JsonPointer, pointer.h:367-414, 862-1032).
TextsReadBack ==
  /\ part = "stream" =>
       /\ Stream!TypeIsDetected
       /\ Stream!UnitsSurvive
  /\ part = "string" =>
       /\ String!StringReadsBack
       /\ String!RoomSuffices
       /\ String!InsituStaysBehind
       /\ String!WellFormedPasses
       /\ String!AcceptedIsEncoded
  /\ part = "pointer" =>
       /\ Pointer!TokensReadBack
       /\ Pointer!NumbersAreIndexes
       /\ Pointer!LessIsStrict

\* A pattern of the supported syntax is compiled; a search says whether a part of the text
\* is of the expression; and adding the states behind a character ends, unless what
\* matches the empty text is repeated without an end (JsonRegex.PatternsAreCompiled,
\* SearchIsLanguage, AddingEnds, regex.h:193-404, 653-705).
SearchIsLanguage == part = "regex" =>
  /\ Regex!PatternsAreCompiled
  /\ Regex!SearchIsLanguage
  /\ Regex!AddingEnds

\* The loops without a condition end: every scan (reader.h:300, 1084); a stream that is
\* read, with the zero behind its text (encodedstream.h:78-92); every string, at its end or
\* refused (reader.h:989-1054; BlockScan.ScanEnds, EncodedStream.StreamEnds,
\* JsonString.StringsEnd).
Opened == part = "stream" /\ reader # "none"
LoopsEnd ==
  /\ part = "scan" ~> part = "scan" /\ done
  /\ Opened ~> Opened /\ units[Len(units)] = 0
  /\ part = "string" ~> part = "string" /\ phase \in {"done", "refused", "aborted"}

=============================================================================
