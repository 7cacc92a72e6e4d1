------------------------------ MODULE JsonNumber ------------------------------
(***************************************************************************)
(* GenericReader::ParseNumber (rapidjson/reader.h) character by character: *)
(* the accumulator that grows from 32 to 64 bits and to a double, fraction *)
(* and exponent, the backup of the digits, and the event; then the flags   *)
(* that GenericValue gives a number (rapidjson/document.h).  The widths    *)
(* and limits are parameters.  A double is the exact number                *)
(* sig * 10 ^ power: that a significand which has outgrown 53 bits, and    *)
(* the product in internal::Strtod, are rounded is left out, and that they *)
(* exceed the greatest double is not.                                      *)
(***************************************************************************)
EXTENDS Integers, Sequences, SequencesExt

CONSTANTS
  NumberChars,   \* the characters of texts, as their codes; 0 is the end
  MaxTaken,      \* the length of the longest text
  Narrow, Wide,  \* the widths of int and int64_t
  FastBits,      \* 53
  MaxDigits,     \* 17
  MaxExponent,   \* 308
  MaxDouble,     \* the greatest finite double
  IntLimit,      \* 2 ^ 31, of the exponent
  Modes          \* "plain", "full" precision, "strings", "insitu" strings

\* A digit fits in an int, int64_t is wider than it, and what that says of their powers of
\* two.  A double holds what an int64_t and one more digit hold, and a power of one digit.
\* A text is so short that neither the places behind its point nor one more digit of
\* its exponent overflow an int.
ASSUME NumberAssumption ==
  /\ NumberChars \subseteq Nat \ {0}
  /\ MaxTaken \in Nat \ {0} /\ IntLimit \in Nat /\ MaxTaken + 99 <= IntLimit
  /\ Narrow \in Nat \ {0} /\ Wide \in Nat /\ Narrow < Wide
  /\ 2 ^ (Narrow - 1) \in Nat /\ 9 <= 2 ^ (Narrow - 1) /\ 2 ^ Narrow = 2 * 2 ^ (Narrow - 1)
  /\ 2 ^ (Wide - 1) \in Nat \ {0} /\ 2 ^ Wide = 2 * 2 ^ (Wide - 1)
  /\ 2 ^ Narrow <= 2 ^ (Wide - 1)
  /\ FastBits \in Nat
  /\ MaxDigits \in Nat \ {0}
  /\ MaxExponent \in Nat /\ 9 <= MaxExponent /\ MaxExponent < IntLimit
  /\ MaxDouble \in Nat /\ 10 * 2 ^ Wide <= MaxDouble
  /\ Modes \subseteq {"plain", "full", "strings", "insitu"}

VARIABLES
  mode, targetSize,   \* the flags, and sizeof(TargetEncoding::Ch)
  taken, next,        \* the characters taken, and the one peeked at
  at,                 \* the place in ParseNumber
  minus, sig, kind,   \* the accumulator: i, i64 or d, by kind
  word,               \* what is expected of NaN, Infinity
  nanOrInf, significandDigit, expFrac, exp, expMinus,
  backup, decimalPosition,
  event

numberVars ==
  <<mode, targetSize, taken, next, at, minus, sig, kind, word, nanOrInf, significandDigit,
    expFrac, exp, expMinus, backup, decimalPosition, event>>

IntMin == -IntLimit

Minus == 45
Plus  == 43
Point == 46
Exponent == {69, 101}
NaN   == <<78, 97, 78>>
Inf   == <<73, 110, 102>>
Inity == <<105, 110, 105, 116, 121>>

IsDigit == next \in 48 .. 57
Digit   == next - 48

-----------------------------------------------------------------------------
\* Variant: what is taken without TakePush is never in the backup.
TakeCharUnpushed(push) ==
  /\ taken' = Append(taken, next)
  /\ next' \in (IF Len(taken') >= MaxTaken THEN {0} ELSE NumberChars \cup {0})
  /\ backup' = IF mode \in {"strings", "full"} /\ push THEN Append(backup, next) ELSE backup

\* Take and, with push, TakePush of NumberStream.
TakeChar(push) ==
  /\ taken' = Append(taken, next)
  /\ next' \in (IF Len(taken') >= MaxTaken THEN {0} ELSE NumberChars \cup {0})
  /\ backup' = IF mode = "strings" \/ (mode = "full" /\ push) THEN Append(backup, next) ELSE backup

Stay == UNCHANGED <<taken, next, backup>>

Fixed == UNCHANGED <<mode, targetSize>>

NumberError(code) ==
  /\ at' = "error"
  /\ event' = [type |-> code]
  /\ UNCHANGED <<mode, targetSize, taken, next, minus, sig, kind, word, nanOrInf,
                 significandDigit, expFrac, exp, expMinus, backup, decimalPosition>>

Sign ==
  /\ at = "sign"
  /\ minus' = (next = Minus)
  /\ IF next = Minus THEN TakeChar(FALSE) ELSE Stay
  /\ at' = "first"
  /\ Fixed /\ UNCHANGED <<sig, kind, word, nanOrInf, significandDigit, expFrac, exp, expMinus,
                          decimalPosition, event>>

First ==
  /\ at = "first"
  /\ \/ /\ IsDigit
        /\ sig' = Digit
        /\ TakeChar(TRUE)
        /\ at' = IF Digit = 0 THEN "point" ELSE "narrow"
        /\ UNCHANGED word
        /\ Fixed /\ UNCHANGED <<minus, kind, nanOrInf, significandDigit, expFrac, exp, expMinus,
                                decimalPosition, event>>
     \/ /\ next \in {NaN[1], Inf[1]}
        /\ TakeChar(FALSE)
        /\ word' = Tail(IF next = NaN[1] THEN NaN ELSE Inf)
        /\ at' = "word"
        /\ Fixed /\ UNCHANGED <<minus, sig, kind, nanOrInf, significandDigit, expFrac, exp,
                                expMinus, decimalPosition, event>>
     \/ ~IsDigit /\ next \notin {NaN[1], Inf[1]} /\ NumberError("ValueInvalid")

\* With kParseNanAndInfFlag: NaN, Inf and Infinity.
Word ==
  /\ at = "word"
  /\ \/ /\ next = word[1]
        /\ TakeChar(FALSE)
        /\ word' = Tail(word)
        /\ at' = IF word' # <<>> THEN "word"
                 ELSE IF next = Inf[3] THEN "inity" ELSE "point"
        /\ nanOrInf' = (nanOrInf \/ word' = <<>>)
        /\ Fixed /\ UNCHANGED <<minus, sig, kind, significandDigit, expFrac, exp, expMinus,
                                decimalPosition, event>>
     \/ next # word[1] /\ NumberError("ValueInvalid")

Infinity ==
  /\ at = "inity"
  /\ word' = IF next = Inity[1] THEN Inity ELSE <<>>
  /\ at' = IF next = Inity[1] THEN "word" ELSE "point"
  /\ Stay /\ Fixed
  /\ UNCHANGED <<minus, sig, kind, nanOrInf, significandDigit, expFrac, exp, expMinus,
                 decimalPosition, event>>

\* The greatest absolute value of an accumulator of the width.
Limit(width) == IF minus THEN 2 ^ (width - 1) ELSE 2 ^ width - 1

\* Variant: the last digit is not looked at.
OutgrowsEqual(width) == sig > Limit(width) \div 10

\* Another digit does not fit.
Outgrows(width) ==
  sig >= Limit(width) \div 10 /\ (sig # Limit(width) \div 10 \/ Digit > Limit(width) % 10)

\* The loops over the digits of an integer.  The last of them, of a double, has no
\* limit and does not count the digits.
Digits(place, width, wider, then) ==
  /\ at = place
  /\ IF IsDigit /\ Outgrows(width)
     THEN /\ kind' = wider /\ at' = then
          /\ Stay /\ UNCHANGED <<sig, significandDigit>>
     ELSE IF IsDigit
     THEN /\ sig' = sig * 10 + Digit
          /\ significandDigit' = significandDigit + 1
          /\ TakeChar(TRUE)
          /\ UNCHANGED <<kind, at>>
     ELSE at' = "point" /\ Stay /\ UNCHANGED <<sig, significandDigit, kind>>
  /\ Fixed /\ UNCHANGED <<minus, word, nanOrInf, expFrac, exp, expMinus, decimalPosition, event>>

NarrowDigits == Digits("narrow", Narrow, "64", "wide")

WideDigits == Digits("wide", Wide, "double", "big")

BigDigits ==
  /\ at = "big"
  /\ IF IsDigit THEN sig' = sig * 10 + Digit /\ TakeChar(TRUE) /\ UNCHANGED at
     ELSE at' = "point" /\ Stay /\ UNCHANGED sig
  /\ Fixed /\ UNCHANGED <<minus, kind, word, nanOrInf, significandDigit, expFrac, exp, expMinus,
                          decimalPosition, event>>

DecimalPoint ==
  /\ at = "point"
  /\ IF next = Point THEN TakeChar(FALSE) /\ at' = "fraction" ELSE Stay /\ at' = "e"
  /\ decimalPosition' = Len(backup')
  /\ Fixed /\ UNCHANGED <<minus, sig, kind, word, nanOrInf, significandDigit, expFrac, exp,
                          expMinus, event>>

FirstOfFraction ==
  /\ at = "fraction"
  /\ \/ ~IsDigit /\ NumberError("NumberMissFraction")
     \/ /\ IsDigit
        /\ at' = IF kind = "double" THEN "fractionDouble" ELSE "fractionFast"
        /\ Stay /\ Fixed
        /\ UNCHANGED <<minus, sig, kind, word, nanOrInf, significandDigit, expFrac, exp, expMinus,
                       decimalPosition, event>>

\* Variant: the digits of a fraction are taken without a push.
AddFractionUnpushed ==
  /\ sig' = sig * 10 + Digit
  /\ expFrac' = expFrac - 1
  /\ significandDigit' = significandDigit + (IF sig' > 0 THEN 1 ELSE 0)
  /\ TakeChar(FALSE)

AddFraction ==
  /\ sig' = sig * 10 + Digit
  /\ expFrac' = expFrac - 1
  /\ significandDigit' = significandDigit + (IF sig' > 0 THEN 1 ELSE 0)
  /\ TakeChar(TRUE)

\* In 64 bits as far as a double is exact.
FractionFast ==
  /\ at = "fractionFast"
  /\ IF IsDigit /\ sig <= 2 ^ FastBits - 1
     THEN AddFraction /\ UNCHANGED <<kind, at>>
     ELSE /\ kind' = "double" /\ at' = "fractionDouble"
          /\ Stay /\ UNCHANGED <<sig, expFrac, significandDigit>>
  /\ Fixed /\ UNCHANGED <<minus, word, nanOrInf, exp, expMinus, decimalPosition, event>>

\* Variant: a digit that is left out moves the point.
FractionDoubleCounts ==
  /\ at = "fractionDouble"
  /\ \/ IsDigit /\ significandDigit < MaxDigits /\ AddFraction /\ UNCHANGED at
     \/ /\ IsDigit /\ significandDigit >= MaxDigits
        /\ TakeChar(TRUE) /\ expFrac' = expFrac - 1
        /\ UNCHANGED <<at, sig, significandDigit>>
     \/ ~IsDigit /\ at' = "e" /\ Stay /\ UNCHANGED <<sig, expFrac, significandDigit>>
  /\ Fixed /\ UNCHANGED <<minus, kind, word, nanOrInf, exp, expMinus, decimalPosition, event>>

\* Digits that a double has no room for are left out.
FractionDouble ==
  /\ at = "fractionDouble"
  /\ \/ IsDigit /\ significandDigit < MaxDigits /\ AddFraction /\ UNCHANGED at
     \/ /\ IsDigit /\ significandDigit >= MaxDigits
        /\ TakeChar(TRUE)
        /\ UNCHANGED <<at, sig, expFrac, significandDigit>>
     \/ ~IsDigit /\ at' = "e" /\ Stay /\ UNCHANGED <<sig, expFrac, significandDigit>>
  /\ Fixed /\ UNCHANGED <<minus, kind, word, nanOrInf, exp, expMinus, decimalPosition, event>>

-----------------------------------------------------------------------------
ExponentMark ==
  /\ at = "e"
  /\ IF next \in Exponent THEN TakeChar(FALSE) /\ at' = "expSign" /\ kind' = "double"
     ELSE Stay /\ at' = "finish" /\ UNCHANGED kind
  /\ Fixed /\ UNCHANGED <<minus, sig, word, nanOrInf, significandDigit, expFrac, exp, expMinus,
                          decimalPosition, event>>

ExponentSign ==
  /\ at = "expSign"
  /\ IF next \in {Plus, Minus} THEN TakeChar(FALSE) ELSE Stay
  /\ expMinus' = (next = Minus)
  /\ at' = "expFirst"
  /\ Fixed /\ UNCHANGED <<minus, sig, kind, word, nanOrInf, significandDigit, expFrac, exp,
                          decimalPosition, event>>

ExponentFirst ==
  /\ at = "expFirst"
  /\ \/ ~IsDigit /\ NumberError("NumberMissExponent")
     \/ /\ IsDigit
        /\ exp' = Digit
        /\ TakeChar(FALSE)
        /\ at' = "exp"
        /\ Fixed /\ UNCHANGED <<minus, sig, kind, word, nanOrInf, significandDigit, expFrac,
                                expMinus, decimalPosition, event>>

\* Variant: the fraction is not reckoned with.
MaxExpOfAlone == IF expMinus THEN (-IntMin - 9) \div 10 ELSE MaxExponent

\* The exponent up to which another digit is taken: with its next digit a negative one
\* stays above IntMin.
MaxExp == IF expMinus THEN (expFrac - IntMin - 9) \div 10 ELSE MaxExponent - expFrac

ExponentDigits ==
  LET longer == exp * 10 + Digit
  IN  /\ at = "exp"
      /\ \/ IsDigit /\ ~expMinus /\ longer > MaxExp /\ NumberError("NumberTooBig")
         \/ /\ IsDigit /\ (expMinus \/ longer <= MaxExp)
            /\ exp' = longer
            /\ TakeChar(FALSE)
            /\ at' = IF longer > MaxExp THEN "expRest" ELSE "exp"
            /\ Fixed /\ UNCHANGED <<minus, sig, kind, word, nanOrInf, significandDigit, expFrac,
                                    expMinus, decimalPosition, event>>
         \/ /\ ~IsDigit
            /\ at' = "finish" /\ Stay
            /\ Fixed /\ UNCHANGED <<minus, sig, kind, word, nanOrInf, significandDigit, expFrac,
                                    exp, expMinus, decimalPosition, event>>

\* The rest of a negative exponent that is low enough.
ExponentRest ==
  /\ at = "expRest"
  /\ IF IsDigit THEN TakeChar(FALSE) /\ UNCHANGED at ELSE Stay /\ at' = "finish"
  /\ Fixed /\ UNCHANGED <<minus, sig, kind, word, nanOrInf, significandDigit, expFrac, exp,
                          expMinus, decimalPosition, event>>

-----------------------------------------------------------------------------
\* The characters that were pushed are popped, and read while units of the target are
\* pushed in their place: of two bytes and more, a unit covers the character behind.
CopyOnStack(size, chars) ==
  LET copy[j \in 0 .. Len(chars)] ==
        IF j = Len(chars) THEN 0
        ELSE IF j = 0 \/ size = 1 THEN chars[j + 1]
        ELSE IF j % size = 0 THEN copy[j \div size] ELSE 0
  IN  [j \in 1 .. Len(chars) |-> copy[j - 1]]

Signed(v) == IF minus THEN -v ELSE v

Power == IF expMinus THEN expFrac - exp ELSE expFrac + exp

IntegerEvent ==
  [type |-> IF kind = "64" THEN IF minus THEN "Int64" ELSE "Uint64"
            ELSE IF minus THEN "Int" ELSE "Uint",
   value |-> Signed(sig), power |-> 0]

DoubleEvent == [type |-> "Double", value |-> Signed(sig), power |-> Power]

\* Variant: the letters are looked at first.
NumberEventLettersFirst ==
  IF nanOrInf THEN [type |-> "NanOrInf"] ELSE IF kind = "double" THEN DoubleEvent ELSE IntegerEvent

NumberEvent ==
  IF kind = "double" THEN DoubleEvent ELSE IF nanOrInf THEN [type |-> "NanOrInf"] ELSE IntegerEvent

FinalEvent ==
  CASE mode = "strings" -> [type |-> "RawNumber", string |-> CopyOnStack(targetSize, backup)]
    [] mode = "insitu" -> [type |-> "RawNumber", string |-> taken]
    [] OTHER -> NumberEvent

\* The integer n * 10 ^ power, or the fraction n / 10 ^ -power, is greater than a finite
\* double.  As n has no more digits than a text has characters, no more places are tried.
TooGreat(n, power) ==
  LET places == IF -power > MaxTaken THEN MaxTaken ELSE -power
  IN  IF power >= 0 THEN n > MaxDouble \div 10 ^ power ELSE (n - 1) \div 10 ^ places >= MaxDouble

\* What Strtod returns is infinite.  It starts from the digits of the text with full
\* precision, and without it from a significand that may be infinite itself.
Overflows ==
  /\ mode \in {"plain", "full"} /\ kind = "double"
  /\ TooGreat(sig, Power) \/ (mode = "plain" /\ sig > MaxDouble)

GiveEvent ==
  /\ at' = "done"
  /\ event' = FinalEvent
  /\ UNCHANGED <<mode, targetSize, taken, next, minus, sig, kind, word, nanOrInf,
                 significandDigit, expFrac, exp, expMinus, backup, decimalPosition>>

\* Variant: what Strtod returns is not looked at.
FinishUnchecked == at = "finish" /\ GiveEvent

Finish ==
  /\ at = "finish"
  /\ \/ Overflows /\ NumberError("NumberTooBig")
     \/ ~Overflows /\ GiveEvent

-----------------------------------------------------------------------------
(* The value of a number.                                                  *)

RangeOf(type) ==
  CASE type = "Int" -> -(2 ^ (Narrow - 1)) .. 2 ^ (Narrow - 1) - 1
    [] type = "Uint" -> 0 .. 2 ^ Narrow - 1
    [] type = "Int64" -> -(2 ^ (Wide - 1)) .. 2 ^ (Wide - 1) - 1
    [] type = "Uint64" -> 0 .. 2 ^ Wide - 1

Integral == {"Int", "Uint", "Int64", "Uint64"}

\* Variant: the top bit of an unsigned value is not looked at.
FlagsOfUint(type, v) ==
  CASE type = "Int" -> {"Int", "Int64"} \cup (IF v >= 0 THEN {"Uint", "Uint64"} ELSE {})
    [] type = "Uint" -> {"Uint", "Uint64", "Int64", "Int"}
    [] type \in {"Int64", "Uint64"} -> {t \in Integral : v \in RangeOf(t)}

\* The constructors of GenericValue.
Flags(type, v) ==
  CASE type = "Int" -> {"Int", "Int64"} \cup (IF v >= 0 THEN {"Uint", "Uint64"} ELSE {})
    [] type = "Uint" ->
         {"Uint", "Uint64", "Int64"} \cup (IF v >= 2 ^ (Narrow - 1) THEN {} ELSE {"Int"})
    [] type = "Int64" ->
         {"Int64"}
           \cup (IF v >= 0 THEN {"Uint64"} ELSE {})
           \cup (IF v >= 0 /\ v < 2 ^ Narrow THEN {"Uint"} ELSE {})
           \cup (IF v < 2 ^ (Narrow - 1) /\ v >= -(2 ^ (Narrow - 1)) THEN {"Int"} ELSE {})
    [] type = "Uint64" ->
         {"Uint64"}
           \cup (IF v < 2 ^ (Wide - 1) THEN {"Int64"} ELSE {})
           \cup (IF v < 2 ^ Narrow THEN {"Uint"} ELSE {})
           \cup (IF v < 2 ^ (Narrow - 1) THEN {"Int"} ELSE {})

\* The event of Accept.
AcceptAs(flags) ==
  CASE "Int" \in flags -> "Int"
    [] "Int" \notin flags /\ "Uint" \in flags -> "Uint"
    [] OTHER -> IF "Int64" \in flags THEN "Int64" ELSE "Uint64"

NumberInit ==
  /\ mode \in Modes
  /\ targetSize \in (IF mode = "strings" THEN {1, 2, 4} ELSE {1})
  /\ taken = <<>> /\ minus = FALSE /\ sig = 0 /\ kind = "32" /\ word = <<>> /\ nanOrInf = FALSE
  /\ significandDigit = 0 /\ expFrac = 0 /\ exp = 0 /\ expMinus = FALSE
  /\ backup = <<>> /\ decimalPosition = 0
  /\ \/ at = "sign" /\ next \in NumberChars /\ event = [type |-> "none"]
     \/ /\ mode = "plain" /\ at = "done" /\ next = 0
        /\ \E type \in Integral : \E v \in RangeOf(type) :
             event = [type |-> type, value |-> v, power |-> 0]

NumberNext ==
  \/ Sign \/ First \/ Word \/ Infinity
  \/ NarrowDigits \/ WideDigits \/ BigDigits
  \/ DecimalPoint \/ FirstOfFraction \/ FractionFast \/ FractionDouble
  \/ ExponentMark \/ ExponentSign \/ ExponentFirst \/ ExponentDigits \/ ExponentRest
  \/ Finish

NumberSpec == NumberInit /\ [][NumberNext]_numberVars

-----------------------------------------------------------------------------
(* Properties.                                                             *)

\* The value of digits.
Number(digits) ==
  LET value[n \in 0 .. Len(digits)] ==
        IF n = 0 THEN 0 ELSE value[n - 1] * 10 + digits[n] - 48
  IN  value[Len(digits)]

\* The first place of a text that has one of the codes, or the one behind the text.
Position(codes, s) ==
  LET places == {i \in DOMAIN s : s[i] \in codes}
  IN  IF places = {} THEN Len(s) + 1 ELSE CHOOSE i \in places : \A j \in places : i <= j

HasPoint(s)    == Position({Point}, s) <= Len(s)
HasExponent(s) == Position(Exponent, s) <= Len(s)
Negative(s)    == s # <<>> /\ s[1] = Minus

\* The digits of a number that has no letters: behind its sign, behind its point, and
\* behind the sign of its exponent.
IntegerPart(s) ==
  SubSeq(s, IF Negative(s) THEN 2 ELSE 1, Position({Point} \cup Exponent, s) - 1)
FractionPart(s) ==
  IF HasPoint(s) THEN SubSeq(s, Position({Point}, s) + 1, Position(Exponent, s) - 1) ELSE <<>>
ExponentStart(s) ==
  LET e == Position(Exponent, s)
  IN  IF e < Len(s) /\ s[e + 1] \in {Plus, Minus} THEN e + 2 ELSE e + 1
ExponentPart(s) == SubSeq(s, ExponentStart(s), Len(s))

\* An integer of the text is given with its value, by the narrowest of the four types
\* that its sign allows, and as a double only when none has it (reader.h:1475-1566, 1711-1728).
IntegersAreExact ==
  (at = "done" /\ mode = "plain" /\ taken # <<>>
     /\ ~nanOrInf /\ ~HasPoint(taken) /\ ~HasExponent(taken)) =>
    LET v == IF Negative(taken) THEN -Number(IntegerPart(taken)) ELSE Number(IntegerPart(taken))
    IN  /\ event.value = v /\ event.power = 0
        /\ event.type =
             IF Negative(taken)
             THEN IF v \in RangeOf("Int") THEN "Int"
                  ELSE IF v \in RangeOf("Int64") THEN "Int64" ELSE "Double"
             ELSE IF v \in RangeOf("Uint") THEN "Uint"
                  ELSE IF v \in RangeOf("Uint64") THEN "Uint64" ELSE "Double"

\* A number is said to be of just the types that have its value, whether it was parsed
\* or set, and Accept gives it as one of them (document.h:712-748, 1889-1896).
FlagsAreRanges ==
  at = "done" /\ event.type \in Integral =>
    LET flags == Flags(event.type, event.value)
    IN  /\ flags = {t \in Integral : event.value \in RangeOf(t)}
        /\ event.value \in RangeOf(AcceptAs(flags))

\* A fraction is given with the value of its digits, but for the last ones, which are left
\* out only when a digit that is no zero was kept (reader.h:1571-1612).
FractionsAreExact ==
  at = "done" /\ mode \in {"plain", "full"} /\ FractionPart(taken) # <<>> /\ ~nanOrInf =>
    LET kept == -expFrac
    IN  /\ event.type = "Double"
        /\ kept \in 0 .. Len(FractionPart(taken))
        /\ event.value = Signed(Number(IntegerPart(taken) \o SubSeq(FractionPart(taken), 1, kept)))
        /\ kept < Len(FractionPart(taken)) => event.value # 0

\* The exponent that is handed on is that of the text, or, of a negative one, so low
\* that its next digit would be out of the range of int (reader.h:1617-1664).
PowerIsExact ==
  at = "done" /\ mode \in {"plain", "full"} /\ HasExponent(taken) =>
    LET written == Number(ExponentPart(taken))
    IN  /\ event.power \in IntMin .. -IntMin - 1
        /\ \/ event.power = expFrac + (IF expMinus THEN -written ELSE written)
           \/ expMinus /\ written > exp /\ exp > MaxExp

\* With full precision the digits of the text are kept, and where the point is
\* (reader.h:1393-1451, 1572-1614).
BackupIsDigits ==
  at = "done" /\ mode = "full" /\ taken # <<>> /\ ~nanOrInf =>
    backup = IntegerPart(taken) \o FractionPart(taken) /\ decimalPosition = Len(IntegerPart(taken))

\* A number that is asked for as a string is given with the characters it has in the
\* text, where a character of the target has one byte or the text is parsed in place;
\* of wider characters, only with its first (reader.h:1669-1684).
RawNumberIsText ==
  at = "done" /\ event.type = "RawNumber" =>
    event.string = IF targetSize = 1 THEN taken
                   ELSE [i \in DOMAIN taken |-> IF i = 1 THEN taken[1] ELSE 0]

\* NaN, Inf and Infinity are given as such, whatever their sign, unless a fraction is
\* put behind them: "NaN.1" is read, as a finite double (reader.h:1503-1525, 1571-1615,
\* 1720-1722).
LettersAreNotFinite ==
  at = "done" /\ mode = "plain" /\ nanOrInf =>
    event.type = IF HasPoint(taken) \/ HasExponent(taken) THEN "Double" ELSE "NanOrInf"

\* A double that is given is finite.  A number is too big when its value, up to the digits
\* that are left out, is greater than a double, but it is also refused for its exponent
\* alone, whatever its digits ("0e309"), and without full precision for its digits alone,
\* whatever its exponent (reader.h:1562-1566, 1646-1655, 1692-1709).
TooBigIsRefused ==
  /\ at = "done" /\ event.type = "Double" => ~TooGreat(Signed(event.value), event.power)
  /\ at = "error" /\ event.type = "NumberTooBig" /\ ~nanOrInf =>
       LET n == Number(IntegerPart(taken) \o SubSeq(FractionPart(taken), 1, -expFrac))
           written == Number(ExponentPart(taken))
       IN  \/ HasExponent(taken) /\ ~expMinus /\ IsDigit /\ written * 10 + Digit > MaxExponent - expFrac
           \/ /\ HasExponent(taken) /\ ~expMinus => exp = written
              /\ TooGreat(n, Power) \/ (mode = "plain" /\ n > MaxDouble)

\* A number is given with the value of its text: an integer by the narrowest type and as
\* readable in just the types that have its value, a fraction up to the digits that are
\* left out, with the exponent of the text; NaN, Inf and Infinity as such unless a fraction
\* is put behind them; it is refused when no finite double has its value or its exponent
\* is too great; with full precision, and where it is asked for as a string, its characters
\* are kept (reader.h:1393-1451, 1475-1728, document.h:712-748).
NumbersAreExact ==
  /\ IntegersAreExact
  /\ FlagsAreRanges
  /\ FractionsAreExact
  /\ PowerIsExact
  /\ BackupIsDigits
  /\ RawNumberIsText
  /\ LettersAreNotFinite
  /\ TooBigIsRefused

=============================================================================
