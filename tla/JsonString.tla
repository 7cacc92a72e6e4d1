------------------------------ MODULE JsonString ------------------------------
(***************************************************************************)
(* A string value is written by Writer::WriteString into a text and read   *)
(* back by GenericReader::ParseStringToStream; other texts, which no       *)
(* writer has made, are read too, and a raw value is written               *)
(* (rapidjson/writer.h, reader.h, over encodings.h).  A text is a sequence *)
(* of code units, in which a negative number stands for four hexadecimal   *)
(* digits.  One step is one round of the loop of a function.               *)
(***************************************************************************)
EXTENDS Encodings

CONSTANTS
  Paths,        \* <<the encoding of values, the encoding of texts>>
  Codepoints, MaxPieces

VARIABLES
  path,      \* the call, the encodings, and whether writer and reader validate
  value,     \* the value that is written, <<>> for a text of another origin
  phase,     \* "write", "raw", "read", "done", "refused", "aborted"
  is,        \* what the function has not taken
  os,        \* what it has put
  total      \* the size of the text that is read

vars == <<path, value, phase, is, os, total>>

Hex(v) == -1 - v
HexValue(unit) == -1 - unit
Size(units) == Len(units) + 3 * Len(SelectSeq(units, LAMBDA u : u < 0))

\* The escapes of one letter: Writer has a table for writing and GenericReader one
\* for reading, which has the solidus as well.
WriteLetter == 8 :> 98 @@ 9 :> 116 @@ 10 :> 110 @@ 12 :> 102 @@ 13 :> 114 @@ 34 :> 34 @@ 92 :> 92
ReadLetter  == 98 :> 8 @@ 116 :> 9 @@ 110 :> 10 @@ 102 :> 12 @@ 114 :> 13 @@ 34 :> 34 @@ 92 :> 92 @@ 47 :> 47

Backslash == 92
LetterU   == 117

-----------------------------------------------------------------------------
(* What is written.                                                        *)

\* Variant: a code point above 65535 is written as one escape.
EscapedShort(c) == <<Backslash, LetterU, Hex(c % 65536)>>

\* Variant: every code point is written as two escapes.
EscapedAsPair(c) ==
  <<Backslash, LetterU, Hex(c \div 65536), Backslash, LetterU, Hex(c % 65536)>>

\* A code point as \uxxxx, or as a pair of them.
Escaped(c) ==
  IF c < 65536 THEN <<Backslash, LetterU, Hex(c)>>
  ELSE LET pair == Encode("UTF16", c)
       IN  <<Backslash, LetterU, Hex(pair[1]), Backslash, LetterU, Hex(pair[2])>>

Refuse == phase' = "refused" /\ UNCHANGED <<path, value, is, os, total>>
Abort  == phase' = "aborted" /\ UNCHANGED <<path, value, is, os, total>>

Rest(n) == SubSeq(is, n + 1, Len(is))

PutAfter(n, units) ==
  /\ os' = os \o units
  /\ is' = Rest(n)
  /\ UNCHANGED <<path, value, phase, total>>

\* The last branch of each loop: units that stand for themselves.
CopyOrTranscode(source, target, validate) ==
  LET t == IF validate THEN ValidateTranscode(source, target, is) ELSE Transcode(source, target, is)
  IN  IF ~t.ok THEN Refuse
      ELSE IF source # target /\ ~EncodeAsserts(target, Decode(source, is).codepoint) THEN Abort
      ELSE PutAfter(t.taken, t.put)

\* Variant: of the characters below 32 only the end of a line is escaped.
NeedsEscapeLate(c) == c \in {10, 34, 92}

NeedsEscape(c) == c < 32 \/ c \in DOMAIN WriteLetter

WriteString ==
  LET c == is[1]
      d == Decode(path.value, is)
  IN  /\ phase = "write" /\ is # <<>>
      /\ \/ /\ path.text = "ASCII" /\ c > 127
            /\ \/ ~d.ok /\ Refuse
               \/ d.ok /\ IsSurrogate(d.codepoint) /\ Abort
               \/ d.ok /\ ~IsSurrogate(d.codepoint) /\ PutAfter(d.taken, Escaped(d.codepoint))
         \/ /\ ~(path.text = "ASCII" /\ c > 127) /\ NeedsEscape(c)
            /\ PutAfter(1, IF c \in DOMAIN WriteLetter THEN <<Backslash, WriteLetter[c]>> ELSE Escaped(c))
         \/ /\ ~(path.text = "ASCII" /\ c > 127) /\ ~NeedsEscape(c)
            /\ CopyOrTranscode(path.value, path.text, path.writeFlag)

\* The closing quotation mark; the text goes to a reader, which has taken the first.
WriteEnd ==
  /\ phase = "write" /\ is = <<>>
  /\ phase' = "read"
  /\ is' = Tail(os) \o <<34>>
  /\ total' = Size(os)
  /\ os' = <<>>
  /\ UNCHANGED <<path, value>>

\* A raw value is put as it is; the assertion is that it has no zero.
WriteRawValue ==
  /\ phase = "raw"
  /\ \/ is = <<>> /\ phase' = "done" /\ UNCHANGED <<path, value, is, os, total>>
     \/ is # <<>> /\ is[1] = 0 /\ Abort
     \/ is # <<>> /\ is[1] # 0 /\ CopyOrTranscode(path.value, path.text, path.writeFlag)

-----------------------------------------------------------------------------
(* What is read.  ASCII text is read as UTF8.                              *)

TextEncoding == IF path.text = "ASCII" THEN "UTF8" ELSE path.text

\* Behind \u: ParseHex4, and after a high surrogate a second escape.
Unicode ==
  LET first  == HexValue(Unit(is, 3))
      second == HexValue(Unit(is, 6))
  IN  CASE Unit(is, 3) >= 0 -> [ok |-> FALSE, taken |-> 0, codepoint |-> 0]
        [] first \notin 55296 .. 56319 -> [ok |-> TRUE, taken |-> 3, codepoint |-> first]
        [] OTHER ->
             [ok |-> /\ Unit(is, 4) = Backslash /\ Unit(is, 5) = LetterU
                     /\ Unit(is, 6) < 0 /\ second \in 56320 .. 57343,
              taken |-> 6,
              codepoint |-> 65536 + (first % 1024) * 1024 + (second % 1024)]

ReadEscape ==
  LET e == Unit(is, 2)
  IN  /\ phase = "read" /\ Unit(is, 1) = Backslash
      /\ \/ e \in DOMAIN ReadLetter /\ PutAfter(2, <<ReadLetter[e]>>)
         \/ e = LetterU /\ ~Unicode.ok /\ Refuse
         \/ /\ e = LetterU /\ Unicode.ok
            /\ IF EncodeAsserts(path.value, Unicode.codepoint)
               THEN PutAfter(Unicode.taken, Encode(path.value, Unicode.codepoint))
               ELSE Abort
         \/ e \notin DOMAIN ReadLetter \cup {LetterU} /\ Refuse

\* Variant: the zero is put before the quotation mark is taken.
ReadEndEarly ==
  /\ phase = "read" /\ Unit(is, 1) = 34
  /\ os' = Append(os, 0)
  /\ phase' = "done"
  /\ UNCHANGED <<path, value, is, total>>

\* The closing quotation mark; a zero ends the string.
ReadEnd ==
  /\ phase = "read" /\ Unit(is, 1) = 34
  /\ os' = Append(os, 0)
  /\ is' = Rest(1)
  /\ phase' = "done"
  /\ UNCHANGED <<path, value, total>>

\* Variant: a character below 32 is passed over.
ReadControlSkips == phase = "read" /\ Unit(is, 1) \in 0 .. 31 /\ PutAfter(1, <<>>)

\* A character below 32 is refused, and the end of the text is one.
ReadControl == phase = "read" /\ Unit(is, 1) \in 0 .. 31 /\ Refuse

\* Four digits that no \u stands before are four characters.
ReadPlain ==
  LET c == Unit(is, 1)
  IN  /\ phase = "read" /\ c \notin 0 .. 31 \cup {34, Backslash}
      /\ IF c < 0 THEN PutAfter(1, <<c>>)
         ELSE CopyOrTranscode(TextEncoding, path.value, path.readFlag)

-----------------------------------------------------------------------------
(* The values and texts: pieces that are characters, and pieces of broken  *)
(* ones.                                                                   *)

Broken(encoding) ==
  CASE encoding = "UTF8" -> {<<128>>, <<194>>, <<224, 128, 128>>, <<237, 160, 128>>, <<244, 144, 128, 128>>}
    [] OTHER -> {<<55296>>, <<56320>>}

ValuePieces(encoding) == {Encode(encoding, c) : c \in Codepoints} \cup Broken(encoding)

TextPieces(encoding) ==
  {<<1>>, <<34>>, <<47>>, <<Backslash>>, <<Backslash, LetterU>>, <<Backslash, 110>>}
    \cup {<<Backslash, LetterU, Hex(v)>> : v \in {65, 55296, 56320}}
    \cup {Encode(encoding, 233)} \cup Broken(encoding)

Pieced(pieces) == {FlattenSeq(s) : s \in UNION {[1 .. n -> pieces] : n \in 0 .. MaxPieces}}

Init ==
  \E p \in Paths, w, r \in BOOLEAN, call \in {"String", "RawValue", "Parse"} :
    /\ path = [call |-> call, value |-> p[1], text |-> p[2], writeFlag |-> w, readFlag |-> r]
    /\ \/ /\ call = "String"
          /\ value \in Pieced(ValuePieces(p[1]))
          /\ is = value /\ phase = "write" /\ os = <<34>> /\ total = 0
       \/ /\ call = "RawValue" /\ ~r
          /\ value \in Pieced(ValuePieces(p[1]))
          /\ is = value /\ phase = "raw" /\ os = <<>> /\ total = 0
       \/ /\ call = "Parse" /\ p[2] # "ASCII" /\ ~w
          /\ value = <<>> /\ phase = "read"
          /\ is \in Pieced(TextPieces(p[2]))
          /\ os = <<>> /\ total = Size(is)

Next ==
  \/ WriteString
  \/ WriteEnd
  \/ WriteRawValue
  \/ ReadEscape
  \/ ReadEnd
  \/ ReadControl
  \/ ReadPlain

Spec == Init /\ [][Next]_vars /\ WF_vars(Next)

-----------------------------------------------------------------------------
(* Properties.                                                             *)

Surrogates(encoding, c) == encoding = "UTF32" /\ IsSurrogate(c)

\* Units that are a sequence of encoded code points.
WellFormed(encoding, units) ==
  LET good[n \in 0 .. Len(units)] ==
        \/ n = 0
        \/ LET d == Decode(encoding, SubSeq(units, Len(units) - n + 1, Len(units)))
           IN  d.ok /\ ~Surrogates(encoding, d.codepoint) /\ d.taken <= n /\ good[n - d.taken]
  IN  good[Len(units)]

\* A string that is written and read back is the string, zeros inside included,
\* whatever the encodings and flags are (writer.h:376-448, reader.h:989-1054).
StringReadsBack ==
  path.call = "String" /\ phase = "done" => os = value \o <<0>>

\* A well-formed string is never refused, neither by the writer nor by the reader of
\* what it wrote.
WellFormedPasses ==
  path.call = "String" /\ WellFormed(path.value, value) => phase \notin {"refused", "aborted"}

\* PutUnsafe does not look at the space that is left: what WriteString reserves, six
\* characters a unit, or twelve where Unicode has to be escaped, and the quotation
\* marks, is enough (writer.h:391-394); and a raw value of the text's encoding needs
\* its length (writer.h:460).
RoomSuffices ==
  /\ phase = "write" =>
       Size(os) + 1 <= 2 + Len(value) * (IF path.text = "ASCII" THEN 12 ELSE 6)
  /\ phase = "raw" /\ path.value = path.text => Size(os) <= Len(value)

\* What is accepted of an encoding is what is put for the code point, in the shortest
\* form, and no surrogate (encodings.h:146-176, 307-322).
AcceptedIsEncoded ==
  LET d == Decode(path.value, value)
  IN  value # <<>> /\ d.ok /\ path.value # "UTF32" =>
        ~IsSurrogate(d.codepoint) /\ Encode(path.value, d.codepoint) = SubSeq(value, 1, d.taken)

\* In place, the string that is put never overtakes the text that is read
\* (reader.h:965-973).
InsituStaysBehind ==
  total # 0 /\ path.value = TextEncoding =>
     Size(os) <= total - Size(is)

\* Every string comes to its end, or is refused.
StringsEnd == <>(phase \in {"done", "refused", "aborted"})

=============================================================================
