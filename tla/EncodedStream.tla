---------------------------- MODULE EncodedStream ----------------------------
(***************************************************************************)
(* A text goes through AutoUTFOutputStream, or EncodedOutputStream, into   *)
(* bytes, and comes back through AutoUTFInputStream, which finds out the   *)
(* encoding, or EncodedInputStream, which is told it                       *)
(* (rapidjson/encodedstream.h over encodings.h).                           *)
(***************************************************************************)
EXTENDS Encodings

CONSTANTS Codepoints, MaxText, BytesOfUser

VARIABLES
  written,   \* the code points of the text
  sent,      \* the type and the BOM of the output stream
  bytes,     \* what is on the byte stream and has not been taken
  reader,    \* "none", "Auto", "Encoded", "Memory"
  type_,     \* the type of the input stream: the user's, or the detected one
  units      \* what the input stream has given, and its current_

vars == <<written, sent, bytes, reader, type_, units>>

UnitsOf(type) ==
  CASE type = "UTF8" -> "UTF8" [] type \in {"UTF16LE", "UTF16BE"} -> "UTF16" [] OTHER -> "UTF32"

TextUnits(type) == FlattenSeq([i \in DOMAIN written |-> Encode(UnitsOf(type), written[i])])

\* Variant: the order of the marks, the shorter ones first.
MarkShortest(four) ==
  CASE SubSeq(four, 1, 2) = <<254, 255>> -> "UTF16BE"
    [] SubSeq(four, 1, 2) = <<255, 254>> -> "UTF16LE"
    [] SubSeq(four, 1, 3) = <<239, 187, 191>> -> "UTF8"
    [] OTHER -> "none"

\* The mark at the front of four bytes: that of UTF-32 first, of which that of
\* UTF-16 is the beginning.
Mark(four) ==
  CASE four = <<0, 0, 254, 255>> -> "UTF32BE"
    [] four = <<255, 254, 0, 0>> -> "UTF32LE"
    [] OTHER ->
       CASE SubSeq(four, 1, 2) = <<254, 255>> -> "UTF16BE"
         [] SubSeq(four, 1, 2) = <<255, 254>> -> "UTF16LE"
         [] SubSeq(four, 1, 3) = <<239, 187, 191>> -> "UTF8"
         [] OTHER -> "none"

\* Without a mark, by where the zeros are in the first characters.
Pattern(four, user) ==
  LET zeros == [i \in 1 .. 4 |-> four[i] = 0]
  IN  CASE zeros = <<TRUE, TRUE, TRUE, FALSE>> -> "UTF32BE"
        [] zeros = <<TRUE, FALSE, TRUE, FALSE>> -> "UTF16BE"
        [] zeros = <<FALSE, TRUE, TRUE, TRUE>> -> "UTF32LE"
        [] zeros = <<FALSE, TRUE, FALSE, TRUE>> -> "UTF16LE"
        [] zeros = <<FALSE, FALSE, FALSE, FALSE>> -> "UTF8"
        [] OTHER -> user

\* DetectType: nothing is found out from less than four bytes.
DetectType(user) ==
  LET four == SubSeq(bytes, 1, 4)
  IN  IF Len(bytes) < 4 THEN [type |-> user, skip |-> 0]
      ELSE IF Mark(four) # "none"
           THEN [type |-> Mark(four), skip |-> Len(PutBOM(Mark(four)))]
           ELSE [type |-> Pattern(four, user), skip |-> 0]

Rest(n) == SubSeq(bytes, n + 1, Len(bytes))

\* Put on the output stream.
PutChar(c) ==
  /\ reader = "none" /\ Len(written) < MaxText
  /\ written' = Append(written, c)
  /\ bytes' = bytes \o FlattenSeq([i \in 1 .. Len(Encode(UnitsOf(sent.type), c)) |->
                Put(sent.type, Encode(UnitsOf(sent.type), c)[i])])
  /\ UNCHANGED <<sent, reader, type_, units>>

\* The input stream takes its first unit when it is made.
OpenAuto(user) ==
  LET found == DetectType(user)
      left  == Rest(found.skip)
  IN  /\ reader = "none"
      /\ reader' = "Auto"
      /\ type_' = found.type
      /\ units' = <<Take(found.type, left)>>
      /\ bytes' = SubSeq(left, UnitSize(found.type) + 1, Len(left))
      /\ UNCHANGED <<written, sent>>

\* Variant: the unit that was read to look for the mark is lost.
TakeBOMAlways(type) == UnitSize(type)

\* TakeBOM of an encoding that is known: the unit that is the mark is skipped; of
\* UTF8 the bytes of the mark are, up to the first that differs.
TakeBOM(type) ==
  LET mark == PutBOM(type)
      same == {n \in 0 .. Len(mark) : IsPrefix(SubSeq(mark, 1, n), bytes)}
  IN  IF type = "UTF8" THEN CHOOSE n \in same : \A other \in same : other <= n
      ELSE IF Take(type, bytes) = 65279 THEN UnitSize(type) ELSE 0

\* Over a memory stream UTF8 asks for each byte of the mark, whether the one before
\* was there or not.
SkipEach ==
  LET count[i \in 0 .. 3] ==
        IF i = 0 THEN 0
        ELSE count[i - 1] + IF Unit(bytes, count[i - 1] + 1) = PutBOM("UTF8")[i] THEN 1 ELSE 0
  IN  count[3]

OpenAs(kind, skip) ==
  LET left == Rest(skip)
  IN  /\ reader = "none"
      /\ reader' = kind
      /\ type_' = sent.type
      /\ units' = <<Take(type_', left)>>
      /\ bytes' = SubSeq(left, UnitSize(type_') + 1, Len(left))
      /\ UNCHANGED <<written, sent>>

OpenEncoded == OpenAs("Encoded", TakeBOM(sent.type))

OpenMemory == sent.type = "UTF8" /\ OpenAs("Memory", SkipEach)

\* Variant: the last unit stays current when no bytes are left.
TakeCharInside ==
  /\ reader # "none" /\ Last(units) # 0 /\ bytes # <<>>
  /\ units' = Append(units, Take(type_, bytes))
  /\ bytes' = Rest(UnitSize(type_))
  /\ UNCHANGED <<written, sent, reader, type_>>

\* Take gives current_ and takes the next unit, a zero behind the end.
TakeChar ==
  /\ reader # "none" /\ Last(units) # 0
  /\ units' = Append(units, Take(type_, bytes))
  /\ bytes' = Rest(UnitSize(type_))
  /\ UNCHANGED <<written, sent, reader, type_>>

Init ==
  /\ written = <<>>
  /\ \E i \in DOMAIN Types, bom \in BOOLEAN :
       /\ sent = [type |-> Types[i], bom |-> bom]
       /\ bytes = IF bom THEN PutBOM(Types[i]) ELSE <<>>
  /\ reader = "none"
  /\ type_ = "none"
  /\ units = <<>>

Next ==
  \/ \E c \in Codepoints : PutChar(c)
  \/ \E user \in BytesOfUser : OpenAuto(user)
  \/ OpenEncoded
  \/ OpenMemory
  \/ TakeChar

Spec == Init /\ [][Next]_vars /\ WF_vars(TakeChar)

-----------------------------------------------------------------------------
(* Properties.                                                             *)

\* A text that begins with two ASCII characters, as an object or an array does, or that
\* has a mark and a character, is recognised in each encoding, whatever the user's type
\* is, when it has the four bytes that are looked at (encodedstream.h:171-217).
TypeIsDetected ==
  reader = "Auto" =>
    \/ type_ = sent.type
    \/ written = <<>>
    \/ /\ ~sent.bom
       /\ \/ Len(written) = 1 \/ written[1] > 127 \/ written[2] > 127
          \/ sent.type = "UTF8" /\ Len(TextUnits("UTF8")) < 4

\* What is read is what was written, unit for unit, as far as it has been read, for
\* every encoding and byte order, with a mark or without.  The text begins with an
\* ASCII character: one that begins with the first byte of the mark of UTF-8 loses
\* it (encodings.h:222-233, encodedstream.h:73-77), and an empty text is too short
\* for its mark to be found (encodedstream.h:179-181).
UnitsSurvive ==
  reader # "none" /\ type_ = sent.type /\ written # <<>> /\ written[1] <= 127 =>
    LET text == TextUnits(type_) IN units = [i \in DOMAIN units |-> Unit(text, i)]

\* A stream that is read comes to the zero behind its text.
StreamEnds == (reader # "none") ~> (reader # "none" /\ Last(units) = 0)

=============================================================================
