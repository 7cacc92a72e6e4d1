------------------------------ MODULE Encodings ------------------------------
(***************************************************************************)
(* The encodings of rapidjson/encodings.h as operators on sequences of     *)
(* code units: what is put for a code point, what is taken for one, and    *)
(* whether a sequence is accepted.  Behind its end a sequence has zeros.   *)
(***************************************************************************)
EXTENDS Integers, Sequences, SequencesExt

Unit(units, i) == IF i <= Len(units) THEN units[i] ELSE 0

EncodeUTF8(codepoint) ==
  LET tail(n) == 128 + ((codepoint \div (64 ^ n)) % 64)
  IN  CASE codepoint <= 127 -> <<codepoint>>
        [] codepoint \in 128 .. 2047 -> <<192 + codepoint \div 64, tail(0)>>
        [] codepoint \in 2048 .. 65535 -> <<224 + codepoint \div 4096, tail(1), tail(0)>>
        [] OTHER -> <<240 + codepoint \div 262144, tail(2), tail(1), tail(0)>>

EncodeUTF16(codepoint) ==
  LET v == codepoint - 65536
  IN  IF codepoint <= 65535 THEN <<codepoint>>
      ELSE <<55296 + v \div 1024, 56320 + (v % 1024)>>

\* The units of a code point; of UTF32 and ASCII it is the code point itself.
Encode(encoding, codepoint) ==
  CASE encoding = "UTF8" -> EncodeUTF8(codepoint)
    [] encoding = "UTF16" -> EncodeUTF16(codepoint)
    [] OTHER -> <<codepoint>>

IsSurrogate(codepoint) == codepoint \in 55296 .. 57343

\* What Encode asserts: UTF16 that the code point is no surrogate, ASCII that it is
\* below 128.
EncodeAsserts(encoding, codepoint) ==
  CASE encoding = "UTF16" -> ~IsSurrogate(codepoint) /\ codepoint <= 1114111
    [] encoding = "ASCII" -> codepoint <= 127
    [] OTHER -> codepoint <= 1114111

\* The classes of bytes of UTF8::GetRange.
GetRange(c) ==
  CASE c \in 0 .. 127 -> 0
    [] c \in 128 .. 143 -> 16
    [] c \in 144 .. 159 -> 64
    [] c \in 160 .. 191 -> 32
    [] c \in 194 .. 223 -> 2
    [] c = 224 -> 10
    [] c \in 225 .. 236 \cup {238, 239} -> 3
    [] c = 237 -> 4
    [] c = 240 -> 11
    [] c \in 241 .. 243 -> 6
    [] c = 244 -> 5
    [] OTHER -> 8

\* Variant: the byte behind 0xED may be any that continues a sequence.
TailsWithSurrogates(type) ==
  LET any == {16, 32, 64}
  IN  CASE type = 2 -> <<any>>
        [] type \in {3, 4} -> <<any, any>>
        [] type = 5 -> <<{16}, any, any>>
        [] type = 6 -> <<any, any, any>>
        [] type = 10 -> <<{32}, any>>
        [] type = 11 -> <<{32, 64}, any, any>>
        [] OTHER -> <<>>

\* For the class of a first byte, the classes the following bytes may have: the
\* masks of RAPIDJSON_TRANS.
Tails(type) ==
  LET any == {16, 32, 64}
  IN  CASE type = 2 -> <<any>>
        [] type = 3 -> <<any, any>>
        [] type = 4 -> <<{16, 64}, any>>
        [] type = 5 -> <<{16}, any, any>>
        [] type = 6 -> <<any, any, any>>
        [] type = 10 -> <<{32}, any>>
        [] type = 11 -> <<{32, 64}, any, any>>
        [] OTHER -> <<>>

\* What the first byte has of the code point: (0xFF >> type) & c, nothing for a
\* byte that begins no sequence.
HeadBits(c) ==
  LET type == GetRange(c) IN IF type >= 8 THEN 0 ELSE c % (2 ^ (8 - type))

\* The code point at the front of the units, the number of units taken for it, and
\* whether it is accepted.
DecodeUTF8(units) ==
  LET c     == Unit(units, 1)
      tails == Tails(GetRange(c))
      codepoint[i \in 0 .. Len(tails)] ==
        IF i = 0 THEN HeadBits(c) ELSE 64 * codepoint[i - 1] + (Unit(units, i + 1) % 64)
  IN  [codepoint |-> codepoint[Len(tails)],
       taken     |-> 1 + Len(tails),
       ok        |-> \/ c <= 127
                     \/ /\ tails # <<>>
                        /\ \A i \in DOMAIN tails : GetRange(Unit(units, i + 1)) \in tails[i]]

DecodeUTF16(units) ==
  LET c == Unit(units, 1)
      d == Unit(units, 2)
  IN  CASE ~IsSurrogate(c) -> [codepoint |-> c, taken |-> 1, ok |-> TRUE]
        [] c \in 55296 .. 56319 ->
             [codepoint |-> 65536 + (c % 1024) * 1024 + (d % 1024),
              taken |-> 2, ok |-> d \in 56320 .. 57343]
        [] OTHER -> [codepoint |-> c, taken |-> 1, ok |-> FALSE]

\* UTF32 and ASCII look at nothing but the range.
DecodeUnit(units, most) ==
  [codepoint |-> Unit(units, 1), taken |-> 1, ok |-> Unit(units, 1) <= most]

Decode(encoding, units) ==
  CASE encoding = "UTF8" -> DecodeUTF8(units)
    [] encoding = "UTF16" -> DecodeUTF16(units)
    [] encoding = "UTF32" -> DecodeUnit(units, 1114111)
    [] OTHER -> DecodeUnit(units, 127)

\* Validate puts the units it takes, whatever they are.
Validate(encoding, units) ==
  LET d == Decode(encoding, units)
  IN  [ok |-> d.ok, taken |-> d.taken, put |-> [i \in 1 .. d.taken |-> Unit(units, i)]]

\* Between two encodings a code point is put; within one encoding a unit is copied.
Transcode(source, target, units) ==
  LET d == Decode(source, units)
  IN  IF source = target
      THEN [ok |-> TRUE, taken |-> 1, put |-> <<Unit(units, 1)>>]
      ELSE [ok |-> d.ok, taken |-> d.taken, put |-> IF d.ok THEN Encode(target, d.codepoint) ELSE <<>>]

ValidateTranscode(source, target, units) ==
  IF source = target THEN Validate(source, units) ELSE Transcode(source, target, units)

-----------------------------------------------------------------------------
(* The bytes of a unit, in the order in which the type puts them.          *)

Types == <<"UTF8", "UTF16LE", "UTF16BE", "UTF32LE", "UTF32BE">>

UnitSize(type) ==
  CASE type = "UTF8" -> 1 [] type \in {"UTF16LE", "UTF16BE"} -> 2 [] OTHER -> 4

LittleEndian(type) == type \in {"UTF16LE", "UTF32LE"}

\* The exponent of 256 that the i-th byte of a unit has.
Weight(type, i) == IF LittleEndian(type) THEN i - 1 ELSE UnitSize(type) - i

Put(type, unit) == [i \in 1 .. UnitSize(type) |-> (unit \div (256 ^ Weight(type, i))) % 256]

\* A unit of 2^31 or more, which only a wrong type makes of a text, stands as the
\* negative number of the same bits.
Take(type, bytes) ==
  LET signed(byte, weight) == IF weight = 3 /\ byte > 127 THEN byte - 256 ELSE byte
  IN  SumFunction([i \in 1 .. UnitSize(type) |->
        signed(Unit(bytes, i), Weight(type, i)) * 256 ^ Weight(type, i)])

PutBOM(type) == IF type = "UTF8" THEN <<239, 187, 191>> ELSE Put(type, 65279)

=============================================================================
