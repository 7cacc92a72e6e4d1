---------------------------- MODULE NumberProofs ----------------------------
(***************************************************************************)
(* A theorem about GenericReader::ParseNumber, for every text and every    *)
(* width and limit: a number is given with the value of its text.          *)
(*                                                                         *)
(* While a text is taken its digits are those of the text so far, behind   *)
(* sign and point, up to the exponent (IntegerPart, FractionPart,          *)
(* ExponentPart), and each character that is taken adds one digit to one   *)
(* of them or none (the Take lemmas).  The accumulator has the value of    *)
(* the digits it was given (ValueInv).  That it is the narrowest is not    *)
(* inductive for the text that is taken: it turns before the digit that    *)
(* does not fit, and so exceeds the narrower one only with the digit that  *)
(* is peeked at (Exceeds).  The exponent stays in an int for what it is    *)
(* compared with was computed from the fraction (ExponentInv, PowerFits).  *)
(*                                                                         *)
(* The value of digits is defined by a recursive function; what one more   *)
(* digit adds needs no induction over texts but that a function with its   *)
(* two equations exists for every length and is the only one (ValueExists, *)
(* ValueIsOne), by the least length for which it would not be so.          *)
(***************************************************************************)
EXTENDS JsonNumber, TLAPS, SequenceTheorems, FiniteSetTheorems, WellFoundedInduction

\* No number is begun, or no more than its sign.
Begun == {"sign", "first"}

\* The places in ParseNumber before the point, and those before the exponent.
BeforePoint == Begun \cup {"word", "inity", "narrow", "wide", "big", "point"}
InFraction  == {"fraction", "fractionFast", "fractionDouble"}
InExponent  == {"expSign", "expFirst", "exp", "expRest"}

PlaceNames == BeforePoint \cup InFraction \cup {"e"} \cup InExponent \cup {"finish", "done", "error"}

Code   == Nat \ {0}
Letter == Code \ ({Point, Minus} \cup Exponent)

\* The digits of a text, and those of them that are not behind place k of its fraction.
Written(s) == IntegerPart(s) \o FractionPart(s)
Kept(s, k) == IntegerPart(s) \o SubSeq(FractionPart(s), 1, k)

\* Every variable has its type.  What is taken fits in the longest text, as does what is
\* peeked at, and its sign is known.
NumberTypes ==
  /\ mode \in Modes /\ targetSize \in {1, 2, 4} /\ (mode # "strings" => targetSize = 1)
  /\ taken \in Seq(Code) /\ Len(taken) <= MaxTaken
  /\ next \in NumberChars \cup {0} /\ (next # 0 => Len(taken) < MaxTaken)
  /\ at \in PlaceNames
  /\ minus = Negative(taken)
  /\ sig \in Nat /\ kind \in {"32", "64", "double"}
  /\ word \in Seq(Letter)
  /\ nanOrInf \in BOOLEAN /\ expMinus \in BOOLEAN
  /\ significandDigit \in Nat /\ expFrac \in Int /\ exp \in Nat
  /\ backup \in Seq(Code) /\ decimalPosition \in Nat

\* What the place says of the text.
PlaceInv ==
  /\ at = "sign" => taken = <<>>
  /\ at = "first" => taken = IF minus THEN <<Minus>> ELSE <<>>
  /\ at \in Begun => IntegerPart(taken) = <<>>
  /\ at = "word" => word # <<>>
  /\ at \in Begun => sig = 0 /\ kind = "32" /\ ~nanOrInf /\ expFrac = 0 /\ significandDigit = 0
  /\ at \in BeforePoint => ~HasPoint(taken)
  /\ at \in BeforePoint \cup InFraction \cup {"e"} => ~HasExponent(taken)
  /\ at \in InFraction => HasPoint(taken)
  /\ at \in InExponent => HasExponent(taken)

\* What the place says of the accumulator.
KindInv ==
  /\ at \in {"word", "inity", "narrow"} => kind = "32"
  /\ at \in {"narrow", "wide", "big"} => ~nanOrInf
  /\ at = "inity" => nanOrInf
  /\ at = "wide" => kind = "64"
  /\ at \in {"big", "fractionDouble"} \cup InExponent => kind = "double"
  /\ at \in {"e", "finish", "done"} /\ (HasPoint(taken) \/ HasExponent(taken)) => kind = "double"
  /\ nanOrInf /\ ~HasPoint(taken) /\ ~HasExponent(taken) => kind = "32"

NoLetters == ~nanOrInf /\ at \notin {"word", "error"}

\* The accumulator is more than a width holds, or is to be with the next digit.
Exceeds(width) ==
  \/ sig > Limit(width)
  \/ at \in {"wide", "big"} /\ IsDigit /\ sig * 10 + Digit > Limit(width)

\* An integer is in the narrowest accumulator that holds it.
IntegerInv ==
  NoLetters /\ ~HasPoint(taken) /\ ~HasExponent(taken) =>
    /\ kind = "32" => sig <= Limit(Narrow)
    /\ kind = "64" => sig <= Limit(Wide) /\ Exceeds(Narrow)
    /\ kind = "double" => Exceeds(Wide)

\* The accumulator has the value of the digits, but for the last of the fraction, which
\* are left out when enough that count were kept.
ValueInv ==
  /\ expFrac <= 0 /\ 0 - expFrac <= Len(FractionPart(taken))
  /\ NoLetters =>
       /\ sig = Number(Kept(taken, 0 - expFrac))
       /\ 0 - expFrac = Len(FractionPart(taken)) \/ significandDigit >= MaxDigits
       /\ at \in {"fraction", "fractionFast"} => 0 - expFrac = Len(FractionPart(taken))
       /\ significandDigit > 0 \/ at \in {"narrow", "wide", "big"} => sig > 0

\* The backup has the digits, or the whole text.
BackupInv ==
  /\ mode = "strings" => backup = taken
  /\ mode = "full" /\ NoLetters =>
       /\ backup = Written(taken)
       /\ at \notin BeforePoint => decimalPosition = Len(IntegerPart(taken))

\* The power of ten is one of an int.
PowerFits == Power \in IntMin .. -IntMin - 1

\* The exponent has the value of its digits, or is low enough without the last of them.
ExponentInv ==
  /\ ~HasExponent(taken) => exp = 0
  /\ at = "expSign" => Position(Exponent, taken) = Len(taken)
  /\ at = "expFirst" => ExponentStart(taken) = Len(taken) + 1
  /\ at \in {"exp", "expRest"} => ExponentStart(taken) <= Len(taken)
  /\ at = "exp" => exp = Number(ExponentPart(taken)) /\ (exp <= 9 \/ exp <= MaxExp)
  /\ at = "expRest" => expMinus /\ exp > MaxExp /\ Number(ExponentPart(taken)) >= exp
  /\ at \in {"exp", "expRest", "finish", "done"} /\ HasExponent(taken) => PowerFits
  /\ at \in {"finish", "done"} /\ HasExponent(taken) =>
       \/ exp = Number(ExponentPart(taken))
       \/ expMinus /\ exp > MaxExp /\ Number(ExponentPart(taken)) > exp

\* A number that has been given is given by the event of its end, or it was set.
EventInv ==
  at = "done" =>
    \/ event = FinalEvent
    \/ /\ mode = "plain" /\ taken = <<>> /\ ~nanOrInf
       /\ event.type \in Integral /\ event.value \in RangeOf(event.type)

NumberInv ==
  NumberTypes /\ PlaceInv /\ KindInv /\ IntegerInv /\ ValueInv /\ BackupInv /\ ExponentInv /\ EventInv

-----------------------------------------------------------------------------
(* Places in a text.                                                       *)

\* A set of natural numbers that is not empty has a least element.
LEMMA LeastNat ==
  ASSUME NEW S, S \subseteq Nat, S # {}
  PROVE  \E x \in S : \A y \in S : x <= y
<1>1. PICK x \in S : \A y \in S : ~ (<<y, x>> \in OpToRel(<, Nat))
  BY NatLessThanWellFounded, WFMin
<1>2. \A y \in S : <<y, x>> \in Nat \X Nat /\ (y < x => <<y, x>> \in OpToRel(<, Nat))
  BY Zenon DEF OpToRel
<1>3. \A y \in S : ~ (y < x)
  BY <1>1, <1>2, Zenon
<1> QED
  BY <1>3

\* p is the first place of s that has one of the codes, or the one behind s.
IsPosition(p, codes, s) ==
  /\ p \in 1 .. Len(s) + 1
  /\ p <= Len(s) => s[p] \in codes
  /\ \A i \in 1 .. p - 1 : s[i] \notin codes

\* There is one such place, and Position finds it.
LEMMA PositionFinds ==
  ASSUME NEW s \in Seq(Code), NEW codes
  PROVE  IsPosition(Position(codes, s), codes, s)
<1> DEFINE places == {i \in DOMAIN s : s[i] \in codes}
           p == IF places = {} THEN Len(s) + 1
                ELSE CHOOSE i \in places : \A j \in places : i <= j
<1>1. Len(s) \in Nat /\ DOMAIN s = 1 .. Len(s)
  BY LenProperties
<1>2. Position(codes, s) = p
  BY DEF Position
<1>3. CASE places = {}
  <2>1. p = Len(s) + 1 /\ \A i \in 1 .. Len(s) : s[i] \notin codes
    BY <1>1, <1>3
  <2> HIDE DEF p, places
  <2> QED
    BY <1>1, <1>2, <2>1 DEF IsPosition
<1>4. CASE places # {}
  <2>1. \E i \in places : \A j \in places : i <= j
    <3>1. places \subseteq Nat
      BY <1>1
    <3> HIDE DEF places
    <3> QED
      BY <1>4, <3>1, LeastNat
  <2>2. p \in places /\ \A j \in places : p <= j
    <3> HIDE DEF places
    <3> QED
      BY <1>4, <2>1
  <2> HIDE DEF p
  <2>3. p \in 1 .. Len(s) /\ s[p] \in codes
    BY <1>1, <2>2
  <2>4. \A i \in 1 .. p - 1 : s[i] \notin codes
    <3>1. ASSUME NEW i \in 1 .. p - 1, s[i] \in codes
          PROVE  FALSE
      <4>1. i \in places
        BY <1>1, <2>3, <3>1
      <4> HIDE DEF places
      <4>2. p <= i
        BY <2>2, <4>1
      <4> QED
        BY <2>3, <3>1, <4>2
    <3> QED
      BY <3>1
  <2> QED
    BY <1>1, <1>2, <2>3, <2>4 DEF IsPosition
<1> QED
  BY <1>3, <1>4

\* There is no other.
LEMMA PositionIs ==
  ASSUME NEW s \in Seq(Code), NEW codes, NEW p, IsPosition(p, codes, s)
  PROVE  Position(codes, s) = p
<1> DEFINE q == Position(codes, s)
<1>1. Len(s) \in Nat
  BY LenProperties
<1>2. IsPosition(q, codes, s)
  BY PositionFinds
<1> HIDE DEF q
<1>3. p \in 1 .. Len(s) + 1 /\ q \in 1 .. Len(s) + 1
  BY <1>2 DEF IsPosition
<1>4. CASE p < q
  <2>1. p \in 1 .. q - 1 /\ p <= Len(s)
    BY <1>1, <1>3, <1>4
  <2> QED
    BY <1>2, <2>1 DEF IsPosition
<1>5. CASE q < p
  <2>1. q \in 1 .. p - 1 /\ q <= Len(s)
    BY <1>1, <1>3, <1>5
  <2> QED
    BY <1>2, <2>1 DEF IsPosition
<1> QED
  BY <1>3, <1>4, <1>5 DEF q

\* A text that grows keeps the first place of a code, or it is the new one.
LEMMA PositionAppend ==
  ASSUME NEW s \in Seq(Code), NEW c \in Code, NEW codes
  PROVE  LET p == Position(codes, s)
             t == Append(s, c)
         IN  /\ p \in 1 .. Len(s) + 1
             /\ Position(codes, t) \in 1 .. Len(s) + 2
             /\ p <= Len(s) => Position(codes, t) = p
             /\ p > Len(s) /\ c \in codes => Position(codes, t) = Len(s) + 1
             /\ p > Len(s) /\ c \notin codes => Position(codes, t) = Len(s) + 2
<1> DEFINE p == Position(codes, s)
           t == Append(s, c)
<1>1. /\ t \in Seq(Code) /\ Len(s) \in Nat /\ Len(t) = Len(s) + 1
      /\ t[Len(s) + 1] = c /\ \A i \in 1 .. Len(s) : t[i] = s[i]
  BY AppendProperties, LenProperties
<1>2. IsPosition(p, codes, s)
  BY PositionFinds
<1> HIDE DEF t, p
<1>3. p \in 1 .. Len(s) + 1
  BY <1>2 DEF IsPosition
<1>4. CASE p <= Len(s)
  <2>1. IsPosition(p, codes, t)
    BY <1>1, <1>2, <1>3, <1>4 DEF IsPosition
  <2>2. Position(codes, t) = p
    BY <1>1, <2>1, PositionIs
  <2> QED
    BY <1>1, <1>3, <1>4, <2>2 DEF t, p
<1>5. CASE p > Len(s)
  <2>1. p = Len(s) + 1 /\ \A i \in 1 .. Len(s) : t[i] \notin codes
    BY <1>1, <1>2, <1>3, <1>5 DEF IsPosition
  <2>2. CASE c \in codes
    <3>1. IsPosition(Len(s) + 1, codes, t)
      BY <1>1, <2>1, <2>2 DEF IsPosition
    <3>2. Position(codes, t) = Len(s) + 1
      BY <1>1, <3>1, PositionIs
    <3> QED
      BY <1>1, <1>3, <1>5, <2>2, <3>2 DEF t, p
  <2>3. CASE c \notin codes
    <3>1. IsPosition(Len(s) + 2, codes, t)
      <4>1. \A i \in 1 .. Len(s) + 1 : t[i] \notin codes
        <5>1. ASSUME NEW i \in 1 .. Len(s) + 1 PROVE t[i] \notin codes
          <6>1. i \in 1 .. Len(s) \/ i = Len(s) + 1
            BY <1>1
          <6> QED
            BY <1>1, <2>1, <2>3, <6>1
        <5> QED
          BY <5>1
      <4>2. Len(s) + 2 \in 1 .. Len(t) + 1 /\ ~ (Len(s) + 2 <= Len(t)) /\ (Len(s) + 2) - 1 = Len(s) + 1
        BY <1>1
      <4> QED
        BY <4>1, <4>2 DEF IsPosition
    <3>2. Position(codes, t) = Len(s) + 2
      BY <1>1, <3>1, PositionIs
    <3> QED
      BY <1>1, <1>3, <1>5, <2>3, <3>2 DEF t, p
  <2> QED
    BY <2>2, <2>3
<1> QED
  BY <1>1, <1>3, <1>4, <1>5 DEF t, p

\* The empty text has no code.
LEMMA PositionEmpty == \A codes : Position(codes, <<>>) = 1
<1>1. <<>> \in Seq(Code) /\ Len(<<>>) = 0
  BY EmptySeq
<1>2. ASSUME NEW codes PROVE IsPosition(1, codes, <<>>)
  BY <1>1 DEF IsPosition
<1> QED
  BY <1>1, <1>2, PositionIs

\* Two sequences of the same elements are the same.
LEMMA SameSeq ==
  ASSUME NEW S, NEW u \in Seq(S), NEW v \in Seq(S), Len(u) = Len(v),
         \A i \in 1 .. Len(u) : u[i] = v[i]
  PROVE  u = v
<1>1. u = [i \in 1 .. Len(u) |-> u[i]] /\ v = [i \in 1 .. Len(v) |-> v[i]]
  BY LenProperties
<1> QED
  BY <1>1

\* A part of a text is a sequence.
LEMMA PartOf ==
  ASSUME NEW s \in Seq(Code), NEW i \in 1 .. Len(s) + 1, NEW j \in Nat, j <= Len(s)
  PROVE  /\ SubSeq(s, i, j) \in Seq(Code)
         /\ Len(SubSeq(s, i, j)) = IF i <= j THEN j - i + 1 ELSE 0
         /\ \A k \in 1 .. j - i + 1 : SubSeq(s, i, j)[k] = s[i + k - 1]
<1>1. \A k \in i .. j : s[k] \in Code
  BY ElementOfSeq, LenProperties
<1> QED
  BY <1>1, SubSeqProperties, LenProperties

\* A part of a text that grows: what it has taken already is the same, and its end grows.
LEMMA PartAppend ==
  ASSUME NEW s \in Seq(Code), NEW c \in Code, NEW i \in 1 .. Len(s) + 1
  PROVE  /\ \A j \in Nat : j <= Len(s) => SubSeq(Append(s, c), i, j) = SubSeq(s, i, j)
         /\ SubSeq(Append(s, c), i, Len(s) + 1) = Append(SubSeq(s, i, Len(s)), c)
<1> DEFINE t == Append(s, c)
<1>1. /\ t \in Seq(Code) /\ Len(s) \in Nat /\ Len(t) = Len(s) + 1
      /\ t[Len(s) + 1] = c /\ \A k \in 1 .. Len(s) : t[k] = s[k]
  BY AppendProperties, LenProperties
<1> HIDE DEF t
<1>2. ASSUME NEW j \in Nat, j <= Len(s)
      PROVE  SubSeq(t, i, j) = SubSeq(s, i, j)
  <2>1. /\ SubSeq(s, i, j) \in Seq(Code)
        /\ Len(SubSeq(s, i, j)) = IF i <= j THEN j - i + 1 ELSE 0
        /\ \A k \in 1 .. j - i + 1 : SubSeq(s, i, j)[k] = s[i + k - 1]
    BY <1>2, PartOf
  <2>2. /\ SubSeq(t, i, j) \in Seq(Code)
        /\ Len(SubSeq(t, i, j)) = IF i <= j THEN j - i + 1 ELSE 0
        /\ \A k \in 1 .. j - i + 1 : SubSeq(t, i, j)[k] = t[i + k - 1]
    BY <1>1, <1>2, PartOf
  <2>3. ASSUME NEW k \in 1 .. Len(SubSeq(t, i, j))
        PROVE  SubSeq(t, i, j)[k] = SubSeq(s, i, j)[k]
    <3>1. k \in 1 .. j - i + 1 /\ i + k - 1 \in 1 .. Len(s)
      BY <1>1, <1>2, <2>2, <2>3
    <3> QED
      BY <1>1, <2>1, <2>2, <3>1
  <2> QED
    BY <2>1, <2>2, <2>3, SameSeq
<1>3. SubSeq(t, i, Len(s) + 1) = Append(SubSeq(s, i, Len(s)), c)
  <2> DEFINE u == SubSeq(s, i, Len(s))
             v == SubSeq(t, i, Len(s) + 1)
  <2>1. /\ u \in Seq(Code)
        /\ Len(u) = Len(s) - i + 1
        /\ \A k \in 1 .. Len(s) - i + 1 : u[k] = s[i + k - 1]
    BY <1>1, PartOf
  <2>2. /\ v \in Seq(Code)
        /\ Len(v) = (Len(s) + 1) - i + 1
        /\ \A k \in 1 .. (Len(s) + 1) - i + 1 : v[k] = t[i + k - 1]
    BY <1>1, PartOf
  <2> HIDE DEF u, v
  <2>0. Len(v) = Len(u) + 1 /\ Len(u) \in Nat
    BY <1>1, <2>1, <2>2
  <2>3. /\ Append(u, c) \in Seq(Code) /\ Len(Append(u, c)) = Len(u) + 1
        /\ Append(u, c)[Len(u) + 1] = c /\ \A k \in 1 .. Len(u) : Append(u, c)[k] = u[k]
    BY <2>1, AppendProperties
  <2>4. ASSUME NEW k \in 1 .. Len(v)
        PROVE  v[k] = Append(u, c)[k]
    <3>1. CASE k = Len(u) + 1
      BY <1>1, <2>1, <2>2, <2>3, <3>1
    <3>2. CASE k # Len(u) + 1
      <4>1. k \in 1 .. Len(u) + 1
        BY <2>4, <2>0
      <4>2. Len(u) = Len(s) - i + 1 /\ Len(s) \in Nat
        BY <1>1, <2>1
      <4>3. k \in 1 .. Len(u) /\ i + k - 1 \in 1 .. Len(s)
        BY <3>2, <4>1, <4>2
      <4> QED
        BY <1>1, <2>0, <2>1, <2>2, <2>3, <4>2, <4>3
    <3> QED
      BY <3>1, <3>2
  <2>5. Len(v) = Len(Append(u, c))
    BY <1>1, <2>1, <2>2, <2>3
  <2> QED
    BY <2>2, <2>3, <2>4, <2>5, SameSeq DEF u, v
<1> QED
  BY <1>2, <1>3 DEF t

-----------------------------------------------------------------------------
(* The digits of a text.                                                   *)

\* The first place of a point or an exponent is the first of the two.
LEMMA FirstMark ==
  ASSUME NEW s \in Seq(Code)
  PROVE  LET p == Position({Point}, s)
             e == Position(Exponent, s)
         IN  Position({Point} \cup Exponent, s) = IF p <= e THEN p ELSE e
<1> DEFINE p == Position({Point}, s)
           e == Position(Exponent, s)
           q == IF p <= e THEN p ELSE e
<1>1. IsPosition(p, {Point}, s) /\ IsPosition(e, Exponent, s) /\ Len(s) \in Nat
  BY PositionFinds, LenProperties
<1> HIDE DEF p, e
<1>2. p \in 1 .. Len(s) + 1 /\ e \in 1 .. Len(s) + 1
  BY <1>1 DEF IsPosition
<1>3. q \in 1 .. Len(s) + 1 /\ q <= p /\ q <= e /\ (q = p \/ q = e)
  BY <1>2
<1> HIDE DEF q
<1>4. q <= Len(s) => s[q] \in {Point} \cup Exponent
  BY <1>1, <1>3 DEF IsPosition
<1>5. ASSUME NEW i \in 1 .. q - 1
      PROVE  s[i] \notin {Point} \cup Exponent
  <2>1. i \in 1 .. p - 1 /\ i \in 1 .. e - 1
    BY <1>2, <1>3
  <2> QED
    BY <1>1, <2>1 DEF IsPosition
<1>6. IsPosition(q, {Point} \cup Exponent, s)
  BY <1>3, <1>4, <1>5 DEF IsPosition
<1> QED
  BY <1>6, PositionIs DEF p, e, q

\* What a character that is taken adds to the marks of a text.
LEMMA MarksAppend ==
  ASSUME NEW s \in Seq(Code), NEW c \in Code
  PROVE  /\ HasPoint(Append(s, c)) <=> HasPoint(s) \/ c = Point
         /\ HasExponent(Append(s, c)) <=> HasExponent(s) \/ c \in Exponent
         /\ s # <<>> => Negative(Append(s, c)) = Negative(s)
         /\ s = <<>> => Negative(Append(s, c)) = (c = Minus)
<1>1. /\ Append(s, c) \in Seq(Code) /\ Len(s) \in Nat /\ Len(Append(s, c)) = Len(s) + 1
      /\ Append(s, c)[Len(s) + 1] = c /\ \A k \in 1 .. Len(s) : Append(s, c)[k] = s[k]
      /\ s = <<>> <=> Len(s) = 0
  BY AppendProperties, LenProperties, EmptySeq
<1>2. HasPoint(Append(s, c)) <=> HasPoint(s) \/ c = Point
  <2> DEFINE p == Position({Point}, s)
             q == Position({Point}, Append(s, c))
  <2>1. /\ p \in 1 .. Len(s) + 1 /\ q \in 1 .. Len(s) + 2
        /\ p <= Len(s) => q = p
        /\ p > Len(s) /\ c \in {Point} => q = Len(s) + 1
        /\ p > Len(s) /\ c \notin {Point} => q = Len(s) + 2
    BY PositionAppend
  <2> HIDE DEF p, q
  <2>2. q <= Len(s) + 1 <=> p <= Len(s) \/ c = Point
    BY <1>1, <2>1
  <2> QED
    BY <1>1, <2>2 DEF HasPoint, p, q
<1>3. HasExponent(Append(s, c)) <=> HasExponent(s) \/ c \in Exponent
  <2> DEFINE p == Position(Exponent, s)
             q == Position(Exponent, Append(s, c))
  <2>1. /\ p \in 1 .. Len(s) + 1 /\ q \in 1 .. Len(s) + 2
        /\ p <= Len(s) => q = p
        /\ p > Len(s) /\ c \in Exponent => q = Len(s) + 1
        /\ p > Len(s) /\ c \notin Exponent => q = Len(s) + 2
    BY PositionAppend
  <2> HIDE DEF p, q
  <2>2. q <= Len(s) + 1 <=> p <= Len(s) \/ c \in Exponent
    BY <1>1, <2>1
  <2> QED
    BY <1>1, <2>2 DEF HasExponent, p, q
<1>4. Append(s, c) # <<>>
  BY <1>1, EmptySeq
<1>5. s # <<>> => Negative(Append(s, c)) = Negative(s)
  <2>1. s # <<>> => Append(s, c)[1] = s[1]
    BY <1>1
  <2> QED
    BY <1>4, <2>1 DEF Negative
<1>6. s = <<>> => Negative(Append(s, c)) = (c = Minus)
  <2>1. s = <<>> => Append(s, c)[1] = c
    BY <1>1
  <2> QED
    BY <1>4, <2>1 DEF Negative
<1> QED
  BY <1>2, <1>3, <1>5, <1>6

\* The digits behind the sign: those that are taken before a point or an exponent.
LEMMA IntegerAppend ==
  ASSUME NEW s \in Seq(Code), NEW c \in Code
  PROVE  /\ IntegerPart(s) \in Seq(Code)
         /\ Len(IntegerPart(s)) <= Len(s)
         /\ s = <<>> /\ c = Minus => IntegerPart(Append(s, c)) = <<>>
         /\ s # <<>> \/ c # Minus =>
              IF HasPoint(s) \/ HasExponent(s) \/ c \in {Point} \cup Exponent
              THEN IntegerPart(Append(s, c)) = IntegerPart(s)
              ELSE IntegerPart(Append(s, c)) = Append(IntegerPart(s), c)
<1> DEFINE t == Append(s, c)
           b == IF Negative(s) THEN 2 ELSE 1
           marks == {Point} \cup Exponent
           p == Position({Point}, s)
           e == Position(Exponent, s)
           m == Position(marks, s)
           n == Position(marks, t)
<1>1. /\ t \in Seq(Code) /\ Len(s) \in Nat /\ Len(t) = Len(s) + 1
      /\ t[Len(s) + 1] = c /\ \A k \in 1 .. Len(s) : t[k] = s[k]
      /\ s = <<>> <=> Len(s) = 0
  BY AppendProperties, LenProperties, EmptySeq
<1>2. /\ m \in 1 .. Len(s) + 1 /\ n \in 1 .. Len(s) + 2
      /\ m <= Len(s) => n = m
      /\ m > Len(s) /\ c \in marks => n = Len(s) + 1
      /\ m > Len(s) /\ c \notin marks => n = Len(s) + 2
  BY PositionAppend
<1>3. m <= Len(s) <=> HasPoint(s) \/ HasExponent(s)
  <2>1. m = IF p <= e THEN p ELSE e
    BY FirstMark
  <2>2. p \in 1 .. Len(s) + 1 /\ e \in 1 .. Len(s) + 1
    BY PositionFinds DEF IsPosition
  <2> HIDE DEF m, p, e
  <2>3. m <= Len(s) <=> p <= Len(s) \/ e <= Len(s)
    BY <1>1, <2>1, <2>2
  <2> QED
    BY <2>3 DEF HasPoint, HasExponent, p, e
<1>4. b \in 1 .. Len(s) + 1
  BY <1>1 DEF Negative
<1>5. IntegerPart(s) = SubSeq(s, b, m - 1)
  BY DEF IntegerPart
<1>6. IntegerPart(s) \in Seq(Code) /\ Len(IntegerPart(s)) <= Len(s)
  <2> HIDE DEF b, m
  <2>1. m - 1 \in Nat /\ m - 1 <= Len(s)
    BY <1>1, <1>2
  <2>2. /\ SubSeq(s, b, m - 1) \in Seq(Code)
        /\ Len(SubSeq(s, b, m - 1)) = IF b <= m - 1 THEN (m - 1) - b + 1 ELSE 0
    BY <1>4, <2>1, PartOf
  <2> QED
    BY <1>1, <1>4, <1>5, <2>1, <2>2
<1>7. ASSUME s = <<>>, c = Minus
      PROVE  IntegerPart(t) = <<>>
  <2>1. Negative(t)
    BY <1>7, MarksAppend
  <2>2. IntegerPart(t) = SubSeq(t, 2, n - 1)
    BY <2>1 DEF IntegerPart
  <2>3. n - 1 < 2 /\ n - 1 \in Int
    <3> HIDE DEF n, t, m
    <3> QED
      BY <1>1, <1>2, <1>7
  <2> QED
    BY <2>2, <2>3, SubSeqEmpty
<1>8. ASSUME s # <<>> \/ c # Minus
      PROVE  IF HasPoint(s) \/ HasExponent(s) \/ c \in marks
             THEN IntegerPart(t) = IntegerPart(s) ELSE IntegerPart(t) = Append(IntegerPart(s), c)
  <2>1. Negative(t) <=> Negative(s)
    <3>1. s = <<>> => ~Negative(s)
      BY DEF Negative
    <3>2. s = <<>> => (Negative(t) <=> c = Minus)
      BY MarksAppend
    <3>3. s # <<>> => (Negative(t) <=> Negative(s))
      BY MarksAppend
    <3> QED
      BY <1>8, <3>1, <3>2, <3>3, Zenon
  <2>2. IntegerPart(t) = SubSeq(t, b, n - 1)
    BY <2>1 DEF IntegerPart
  <2>3. /\ \A j \in Nat : j <= Len(s) => SubSeq(t, b, j) = SubSeq(s, b, j)
        /\ SubSeq(t, b, Len(s) + 1) = Append(SubSeq(s, b, Len(s)), c)
    <3> HIDE DEF b
    <3> QED
      BY <1>4, PartAppend
  <2> HIDE DEF t, b, m, n, marks
  <2>4. CASE m <= Len(s)
    <3>1. m - 1 \in Nat /\ m - 1 <= Len(s) /\ n = m
      BY <1>1, <1>2, <2>4
    <3>2. SubSeq(t, b, m - 1) = SubSeq(s, b, m - 1)
      BY <2>3, <3>1
    <3> QED
      BY <1>3, <1>5, <2>2, <2>4, <3>1, <3>2
  <2>5. CASE m > Len(s) /\ c \in marks
    <3>1. m - 1 = Len(s) /\ n - 1 = Len(s)
      BY <1>1, <1>2, <2>5
    <3>2. SubSeq(t, b, Len(s)) = SubSeq(s, b, Len(s))
      <4>1. Len(s) \in Nat /\ Len(s) <= Len(s)
        BY <1>1
      <4> QED
        BY <2>3, <4>1, Zenon
    <3> QED
      BY <1>5, <2>2, <2>5, <3>1, <3>2
  <2>6. CASE m > Len(s) /\ c \notin marks
    <3>1. m - 1 = Len(s) /\ n - 1 = Len(s) + 1
      BY <1>1, <1>2, <2>6
    <3>2. ~ (m <= Len(s))
      BY <1>1, <1>2, <2>6
    <3> QED
      BY <1>3, <1>5, <2>2, <2>3, <2>6, <3>1, <3>2
  <2> QED
    BY <1>1, <1>2, <2>4, <2>5, <2>6
<1> QED
  BY <1>6, <1>7, <1>8 DEF t, marks

\* The digits behind the point: those that are taken before an exponent.
LEMMA FractionAppend ==
  ASSUME NEW s \in Seq(Code), NEW c \in Code
  PROVE  /\ FractionPart(s) \in Seq(Code) /\ Len(FractionPart(s)) <= Len(s)
         /\ IF HasPoint(s) /\ ~HasExponent(s) /\ c \notin Exponent
            THEN FractionPart(Append(s, c)) = Append(FractionPart(s), c)
            ELSE FractionPart(Append(s, c)) = FractionPart(s)
         /\ ~HasPoint(s) => FractionPart(s) = <<>>
<1> DEFINE t == Append(s, c)
           p == Position({Point}, s)
           q == Position({Point}, t)
           e == Position(Exponent, s)
           f == Position(Exponent, t)
<1>1. /\ t \in Seq(Code) /\ Len(s) \in Nat /\ Len(t) = Len(s) + 1
      /\ t[Len(s) + 1] = c /\ \A k \in 1 .. Len(s) : t[k] = s[k]
  BY AppendProperties, LenProperties
<1>2. /\ p \in 1 .. Len(s) + 1 /\ q \in 1 .. Len(s) + 2
      /\ p <= Len(s) => q = p
      /\ p > Len(s) /\ c \in {Point} => q = Len(s) + 1
      /\ p > Len(s) /\ c \notin {Point} => q = Len(s) + 2
  BY PositionAppend
<1>3. /\ e \in 1 .. Len(s) + 1 /\ f \in 1 .. Len(s) + 2
      /\ e <= Len(s) => f = e
      /\ e > Len(s) /\ c \in Exponent => f = Len(s) + 1
      /\ e > Len(s) /\ c \notin Exponent => f = Len(s) + 2
  BY PositionAppend
<1>4. /\ HasPoint(s) <=> p <= Len(s)
      /\ HasExponent(s) <=> e <= Len(s)
      /\ HasPoint(t) <=> q <= Len(t)
  BY DEF HasPoint, HasExponent
<1>5. /\ FractionPart(s) = IF HasPoint(s) THEN SubSeq(s, p + 1, e - 1) ELSE <<>>
      /\ FractionPart(t) = IF HasPoint(t) THEN SubSeq(t, q + 1, f - 1) ELSE <<>>
  BY DEF FractionPart
<1> HIDE DEF t, p, q, e, f
<1>6. CASE HasPoint(s)
  <2>1. p + 1 \in 1 .. Len(s) + 1 /\ q = p /\ HasPoint(t)
    BY <1>1, <1>2, <1>4, <1>6
  <2>2. e - 1 \in Nat /\ e - 1 <= Len(s)
    BY <1>1, <1>3
  <2>3. FractionPart(s) = SubSeq(s, p + 1, e - 1) /\ FractionPart(t) = SubSeq(t, p + 1, f - 1)
    BY <1>5, <1>6, <2>1
  <2>4. SubSeq(s, p + 1, e - 1) \in Seq(Code) /\ Len(SubSeq(s, p + 1, e - 1)) <= Len(s)
    <3>1. /\ SubSeq(s, p + 1, e - 1) \in Seq(Code)
          /\ Len(SubSeq(s, p + 1, e - 1)) =
               IF p + 1 <= e - 1 THEN (e - 1) - (p + 1) + 1 ELSE 0
      BY <2>1, <2>2, PartOf
    <3> QED
      BY <1>1, <2>1, <2>2, <3>1
  <2>5. /\ \A j \in Nat : j <= Len(s) => SubSeq(t, p + 1, j) = SubSeq(s, p + 1, j)
        /\ SubSeq(t, p + 1, Len(s) + 1) = Append(SubSeq(s, p + 1, Len(s)), c)
    BY <2>1, PartAppend DEF t
  <2>6. SubSeq(t, p + 1, e - 1) = SubSeq(s, p + 1, e - 1)
    BY <2>2, <2>5, Zenon
  <2>7. CASE HasExponent(s)
    <3>1. f = e
      BY <1>3, <1>4, <2>7
    <3> QED
      BY <1>6, <2>3, <2>4, <2>6, <2>7, <3>1 DEF t
  <2>8. CASE ~HasExponent(s) /\ c \in Exponent
    <3>1. f = e
      BY <1>1, <1>3, <1>4, <2>8
    <3> QED
      BY <1>6, <2>3, <2>4, <2>6, <2>8, <3>1 DEF t
  <2>9. CASE ~HasExponent(s) /\ c \notin Exponent
    <3>1. f - 1 = Len(s) + 1 /\ e - 1 = Len(s)
      BY <1>1, <1>3, <1>4, <2>9
    <3> QED
      BY <1>6, <2>3, <2>4, <2>5, <2>9, <3>1 DEF t
  <2> QED
    BY <2>7, <2>8, <2>9
<1>7. CASE ~HasPoint(s)
  <2>1. FractionPart(s) = <<>>
    BY <1>5, <1>7
  <2>4. FractionPart(s) \in Seq(Code) /\ Len(FractionPart(s)) <= Len(s)
    BY <1>1, <2>1, EmptySeq
  <2>2. CASE HasPoint(t)
    <3>1. q + 1 > f - 1 /\ q + 1 \in Int /\ f - 1 \in Int
      BY <1>1, <1>2, <1>3, <1>4, <1>7, <2>2
    <3>2. SubSeq(t, q + 1, f - 1) = <<>>
      BY <3>1, SubSeqEmpty
    <3> QED
      BY <1>5, <1>7, <2>1, <2>2, <2>4, <3>2 DEF t
  <2>3. CASE ~HasPoint(t)
    BY <1>5, <1>7, <2>1, <2>3, <2>4 DEF t
  <2> QED
    BY <2>2, <2>3
<1> QED
  BY <1>6, <1>7

\* The digits of an exponent: those that are taken behind its sign.
LEMMA ExponentAppend ==
  ASSUME NEW s \in Seq(Code), NEW c \in Code, HasExponent(s)
  PROVE  /\ ExponentStart(s) \in 1 .. Len(s) + 1
         /\ ExponentPart(s) \in Seq(Code)
         /\ ExponentStart(s) = Len(s) + 1 => ExponentPart(s) = <<>>
         /\ c \notin {Plus, Minus} =>
              /\ ExponentStart(Append(s, c)) = ExponentStart(s)
              /\ ExponentPart(Append(s, c)) = Append(ExponentPart(s), c)
         /\ Position(Exponent, s) = Len(s) /\ c \in {Plus, Minus} =>
              ExponentStart(Append(s, c)) = Len(s) + 2
         /\ Position(Exponent, s) = Len(s) => ExponentStart(s) = Len(s) + 1
<1> DEFINE t == Append(s, c)
           e == Position(Exponent, s)
           f == Position(Exponent, t)
<1>1. /\ t \in Seq(Code) /\ Len(s) \in Nat /\ Len(t) = Len(s) + 1
      /\ t[Len(s) + 1] = c /\ \A k \in 1 .. Len(s) : t[k] = s[k]
  BY AppendProperties, LenProperties
<1>2. e \in 1 .. Len(s) /\ f = e
  <2>1. e \in 1 .. Len(s) + 1 /\ (e <= Len(s) => f = e)
    BY PositionAppend
  <2>2. e <= Len(s)
    BY DEF HasExponent
  <2> QED
    BY <1>1, <2>1, <2>2
<1>3. /\ ExponentStart(s) = IF e < Len(s) /\ s[e + 1] \in {Plus, Minus} THEN e + 2 ELSE e + 1
      /\ ExponentStart(t) = IF f < Len(t) /\ t[f + 1] \in {Plus, Minus} THEN f + 2 ELSE f + 1
  BY DEF ExponentStart
<1> HIDE DEF t, e, f
<1>4. e < Len(s) => t[e + 1] = s[e + 1]
  BY <1>1, <1>2
<1>5. e = Len(s) => t[e + 1] = c
  BY <1>1, <1>2
<1>6. ExponentStart(s) \in 1 .. Len(s) + 1
  BY <1>1, <1>2, <1>3
<1>7. ExponentPart(s) \in Seq(Code)
  BY <1>1, <1>6, PartOf DEF ExponentPart
<1>8. ExponentStart(s) = Len(s) + 1 => ExponentPart(s) = <<>>
  <2>1. ASSUME ExponentStart(s) = Len(s) + 1 PROVE ExponentPart(s) = <<>>
    <3>1. Len(s) + 1 > Len(s) /\ Len(s) + 1 \in Int /\ Len(s) \in Int
      BY <1>1
    <3>2. SubSeq(s, Len(s) + 1, Len(s)) = <<>>
      BY <3>1, SubSeqEmpty
    <3> QED
      BY <2>1, <3>2 DEF ExponentPart
  <2> QED
    BY <2>1
<1>9. ASSUME c \notin {Plus, Minus}
      PROVE  ExponentStart(t) = ExponentStart(s) /\ ExponentPart(t) = Append(ExponentPart(s), c)
  <2>1. ExponentStart(t) = ExponentStart(s)
    BY <1>1, <1>2, <1>3, <1>4, <1>5, <1>9
  <2>2. SubSeq(t, ExponentStart(s), Len(s) + 1) = Append(SubSeq(s, ExponentStart(s), Len(s)), c)
    BY <1>6, PartAppend DEF t
  <2> QED
    BY <1>1, <2>1, <2>2 DEF ExponentPart
<1>10. e = Len(s) /\ c \in {Plus, Minus} => ExponentStart(t) = Len(s) + 2
  BY <1>1, <1>2, <1>3, <1>5
<1>11. e = Len(s) => ExponentStart(s) = Len(s) + 1
  BY <1>1, <1>2, <1>3
<1> QED
  BY <1>6, <1>7, <1>8, <1>9, <1>10, <1>11 DEF t, e

-----------------------------------------------------------------------------
(* The value of digits.                                                    *)

\* What holds at the first place, and at each place when it holds at the one before,
\* holds at all of them.
LEMMA AllOf ==
  ASSUME NEW n \in Nat, NEW f, NEW S,
         f[0] \in S, \A i \in 1 .. n : f[i - 1] \in S => f[i] \in S
  PROVE  \A i \in 0 .. n : f[i] \in S
<1> SUFFICES ASSUME NEW k \in 0 .. n, f[k] \notin S PROVE FALSE
  OBVIOUS
<1> DEFINE bad == {i \in 0 .. n : f[i] \notin S}
<1>1. bad # {} /\ bad \subseteq Nat
  OBVIOUS
<1>2. PICK i \in bad : \A j \in bad : i <= j
  <2> HIDE DEF bad
  <2> QED
    BY <1>1, LeastNat
<1>3. i # 0 /\ i \in 1 .. n /\ f[i] \notin S
  BY <1>2
<1>4. i - 1 \notin bad
  <2> HIDE DEF bad
  <2> QED
    BY <1>2, <1>3
<1> QED
  BY <1>3, <1>4

\* The values of the beginnings of digits d, up to the one of length m.
IsValue(f, m, d) == f = [n \in 0 .. m |-> IF n = 0 THEN 0 ELSE f[n - 1] * 10 + d[n] - 48]

\* They exist.
LEMMA ValueExists ==
  ASSUME NEW d, NEW n \in Nat
  PROVE  \E f : IsValue(f, n, d)
<1> DEFINE Reached == {m \in 0 .. n : \E f : IsValue(f, m, d)}
<1> SUFFICES n \in Reached
  OBVIOUS
<1>1. 0 \in Reached
  <2>1. IsValue([i \in 0 .. 0 |-> 0], 0, d)
    BY DEF IsValue
  <2> QED
    BY <2>1
<1>2. ASSUME NEW m \in 1 .. n, m - 1 \in Reached
      PROVE  m \in Reached
  <2>1. PICK f : IsValue(f, m - 1, d)
    BY <1>2
  <2> DEFINE g == [i \in 0 .. m |-> IF i = m THEN f[m - 1] * 10 + d[m] - 48 ELSE f[i]]
  <2>2. ASSUME NEW i \in 0 .. m
        PROVE  g[i] = IF i = 0 THEN 0 ELSE g[i - 1] * 10 + d[i] - 48
    <3>1. CASE i = m
      <4>1. i # 0 /\ i - 1 \in 0 .. m /\ i - 1 # m
        BY <3>1
      <4> QED
        BY <3>1, <4>1
    <3>2. CASE i # m
      <4>1. i \in 0 .. m - 1
        BY <3>2
      <4>2. g[i] = f[i]
        BY <3>2
      <4>3. f[i] = IF i = 0 THEN 0 ELSE f[i - 1] * 10 + d[i] - 48
        BY <2>1, <4>1 DEF IsValue
      <4>4. CASE i # 0
        <5>1. i - 1 \in 0 .. m /\ i - 1 # m
          BY <4>1, <4>4
        <5> QED
          BY <4>2, <4>3, <4>4, <5>1
      <4> QED
        BY <4>2, <4>3, <4>4
    <3> QED
      BY <3>1, <3>2
  <2>3. IsValue(g, m, d)
    <3>1. g = [i \in 0 .. m |-> g[i]]
      OBVIOUS
    <3> HIDE DEF g
    <3> QED
      BY <2>2, <3>1 DEF IsValue
  <2> HIDE DEF g
  <2> QED
    BY <2>3
<1>3. ASSUME NEW f, f = [i \in 0 .. n |-> IF i \in Reached THEN 1 ELSE 0]
      PROVE  n \in Reached
  <2>1. \A i \in 0 .. n : f[i] \in {1}
    <3>1. f[0] \in {1}
      BY <1>1, <1>3
    <3>2. \A i \in 1 .. n : f[i - 1] \in {1} => f[i] \in {1}
      BY <1>2, <1>3
    <3> QED
      BY <3>1, <3>2, AllOf
  <2> QED
    BY <1>3, <2>1
<1> QED
  BY <1>3

\* They are integers, and there are no others.
LEMMA ValueIsOne ==
  ASSUME NEW d, NEW n \in Nat, \A i \in 1 .. n : d[i] \in Int,
         NEW f, NEW g, IsValue(f, n, d), IsValue(g, n, d)
  PROVE  f[n] = g[n] /\ f[n] \in Int
<1>1. f[0] = 0 /\ g[0] = 0
  BY DEF IsValue
<1>2. \A i \in 1 .. n : f[i] = f[i - 1] * 10 + d[i] - 48 /\ g[i] = g[i - 1] * 10 + d[i] - 48
  <2> TAKE i \in 1 .. n
  <2>1. i \in 0 .. n /\ i # 0
    OBVIOUS
  <2> QED
    BY <2>1 DEF IsValue
<1>3. \A i \in 0 .. n : f[i] \in Int
  <2>1. \A i \in 1 .. n : f[i - 1] \in Int => f[i] \in Int
    BY <1>2
  <2> QED
    BY <1>1, <2>1, AllOf
<1>4. ASSUME NEW h, h = [i \in 0 .. n |-> IF f[i] = g[i] THEN 1 ELSE 0]
      PROVE  f[n] = g[n]
  <2>1. h[0] \in {1}
    BY <1>1, <1>4
  <2>2. ASSUME NEW i \in 1 .. n, h[i - 1] \in {1} PROVE h[i] \in {1}
    <3>1. f[i - 1] = g[i - 1]
      BY <1>4, <2>2
    <3>2. f[i] = g[i]
      BY <1>2, <3>1
    <3> QED
      BY <1>4, <3>2
  <2>3. \A i \in 0 .. n : h[i] \in {1}
    BY <2>1, <2>2, AllOf
  <2> QED
    BY <1>4, <2>3
<1>5. f[n] = g[n]
  BY <1>4
<1>6. f[n] \in Int
  BY <1>3
<1> QED
  BY <1>5, <1>6

\* Number gives the last of them.
LEMMA NumberIs ==
  ASSUME NEW d \in Seq(Code), NEW f, IsValue(f, Len(d), d)
  PROVE  Number(d) = f[Len(d)] /\ Number(d) \in Int
<1> DEFINE value == CHOOSE g : g = [n \in 0 .. Len(d) |-> IF n = 0 THEN 0 ELSE g[n - 1] * 10 + d[n] - 48]
<1>1. Number(d) = value[Len(d)]
  BY DEF Number
<1>2. IsValue(value, Len(d), d)
  BY DEF IsValue
<1> HIDE DEF value
<1>3. Len(d) \in Nat /\ \A i \in 1 .. Len(d) : d[i] \in Int
  BY LenProperties, ElementOfSeq DEF Code
<1> QED
  BY <1>1, <1>2, <1>3, ValueIsOne

\* No digits are zero, and another digit multiplies by ten.
LEMMA NumberAppend ==
  ASSUME NEW d \in Seq(Code), NEW c \in Code
  PROVE  Number(d) \in Int /\ Number(Append(d, c)) = Number(d) * 10 + c - 48
<1> DEFINE t == Append(d, c)
<1>1. /\ t \in Seq(Code) /\ Len(d) \in Nat /\ Len(t) = Len(d) + 1
      /\ t[Len(d) + 1] = c /\ \A k \in 1 .. Len(d) : t[k] = d[k]
  BY AppendProperties, LenProperties
<1> HIDE DEF t
<1>2. PICK f : IsValue(f, Len(t), t)
  <2>1. Len(t) \in Nat
    BY <1>1
  <2> QED
    BY <2>1, ValueExists
<1>3. ASSUME NEW g, g = [n \in 0 .. Len(d) |-> f[n]]
      PROVE  Number(d) = f[Len(d)] /\ Number(d) \in Int
  <2>1. ASSUME NEW n \in 0 .. Len(d)
        PROVE  g[n] = IF n = 0 THEN 0 ELSE g[n - 1] * 10 + d[n] - 48
    <3>1. n \in 0 .. Len(t) /\ g[n] = f[n]
      BY <1>1, <1>3
    <3>2. f[n] = IF n = 0 THEN 0 ELSE f[n - 1] * 10 + t[n] - 48
      BY <1>2, <3>1 DEF IsValue
    <3>3. CASE n # 0
      <4>1. n - 1 \in 0 .. Len(d) /\ t[n] = d[n]
        BY <1>1, <3>3
      <4>2. g[n - 1] = f[n - 1]
        BY <1>3, <4>1
      <4> QED
        BY <3>1, <3>2, <3>3, <4>1, <4>2
    <3> QED
      BY <3>1, <3>2, <3>3
  <2>2. g = [n \in 0 .. Len(d) |-> g[n]]
    BY <1>3
  <2>3. IsValue(g, Len(d), d)
    BY <2>1, <2>2 DEF IsValue
  <2>4. g[Len(d)] = f[Len(d)]
    BY <1>1, <1>3
  <2> QED
    BY <2>3, <2>4, NumberIs
<1>4. Number(d) = f[Len(d)] /\ Number(d) \in Int
  BY <1>3
<1>5. Number(t) = f[Len(t)]
  BY <1>1, <1>2, NumberIs
<1>6. f[Len(d) + 1] = f[Len(d)] * 10 + t[Len(d) + 1] - 48
  <2>1. Len(d) + 1 \in 0 .. Len(t) /\ Len(d) + 1 # 0 /\ (Len(d) + 1) - 1 = Len(d)
    BY <1>1
  <2> QED
    BY <1>2, <2>1 DEF IsValue
<1> QED
  BY <1>1, <1>4, <1>5, <1>6 DEF t

\* No digits are nothing.
LEMMA NumberEmpty == Number(<<>>) = 0
<1>1. <<>> \in Seq(Code) /\ Len(<<>>) = 0
  BY EmptySeq
<1>2. PICK f : IsValue(f, 0, <<>>)
  BY ValueExists
<1>3. Number(<<>>) = f[0]
  BY <1>1, <1>2, NumberIs
<1>4. f[0] = 0
  BY <1>2 DEF IsValue
<1> QED
  BY <1>3, <1>4

-----------------------------------------------------------------------------
(* What a character adds to the digits of a text.                          *)

\* Digits that are kept are digits.
LEMMA KeptType ==
  ASSUME NEW s \in Seq(Code), NEW k \in Nat, k <= Len(FractionPart(s))
  PROVE  /\ Kept(s, k) \in Seq(Code) /\ Written(s) \in Seq(Code)
         /\ IntegerPart(s) \in Seq(Code) /\ FractionPart(s) \in Seq(Code)
         /\ Len(FractionPart(s)) \in Nat /\ Len(FractionPart(s)) <= Len(s)
<1>1. IntegerPart(s) \in Seq(Code)
  BY IntegerAppend DEF Code
<1>2. FractionPart(s) \in Seq(Code) /\ Len(FractionPart(s)) <= Len(s)
  BY FractionAppend DEF Code
<1>3. Len(FractionPart(s)) \in Nat
  BY <1>2, LenProperties
<1>4. SubSeq(FractionPart(s), 1, k) \in Seq(Code)
  <2>1. 1 \in 1 .. Len(FractionPart(s)) + 1
    BY <1>3
  <2> QED
    BY <1>2, <2>1, PartOf
<1>5. Kept(s, k) \in Seq(Code) /\ Written(s) \in Seq(Code)
  BY <1>1, <1>2, <1>4, ConcatProperties DEF Kept, Written
<1> QED
  BY <1>1, <1>2, <1>3, <1>5

\* A text without a fraction keeps its integer.
LEMMA KeptInteger ==
  ASSUME NEW s \in Seq(Code), FractionPart(s) = <<>>
  PROVE  Kept(s, 0) = IntegerPart(s) /\ Written(s) = IntegerPart(s) /\ IntegerPart(s) \in Seq(Code)
<1>1. IntegerPart(s) \in Seq(Code)
  BY IntegerAppend DEF Code
<1>2. SubSeq(<<>>, 1, 0) = <<>>
  BY SubSeqEmpty
<1> QED
  BY <1>1, <1>2, ConcatEmptySeq DEF Kept, Written

\* An element behind a concatenation is one behind its second part.
LEMMA ConcatAppend ==
  ASSUME NEW u \in Seq(Code), NEW v \in Seq(Code), NEW c \in Code
  PROVE  u \o Append(v, c) = Append(u \o v, c)
<1>1. /\ u \o v \in Seq(Code) /\ Len(u \o v) = Len(u) + Len(v) /\ Len(u) \in Nat /\ Len(v) \in Nat
      /\ \A i \in 1 .. Len(u) + Len(v) : (u \o v)[i] = IF i <= Len(u) THEN u[i] ELSE v[i - Len(u)]
  BY ConcatProperties, LenProperties
<1>2. /\ Append(v, c) \in Seq(Code) /\ Len(Append(v, c)) = Len(v) + 1
      /\ Append(v, c)[Len(v) + 1] = c /\ \A i \in 1 .. Len(v) : Append(v, c)[i] = v[i]
  BY AppendProperties
<1>3. /\ u \o Append(v, c) \in Seq(Code) /\ Len(u \o Append(v, c)) = Len(u) + Len(v) + 1
      /\ \A i \in 1 .. Len(u) + Len(v) + 1 :
           (u \o Append(v, c))[i] = IF i <= Len(u) THEN u[i] ELSE Append(v, c)[i - Len(u)]
  BY <1>1, <1>2, ConcatProperties
<1>4. /\ Append(u \o v, c) \in Seq(Code) /\ Len(Append(u \o v, c)) = Len(u) + Len(v) + 1
      /\ Append(u \o v, c)[Len(u) + Len(v) + 1] = c
      /\ \A i \in 1 .. Len(u) + Len(v) : Append(u \o v, c)[i] = (u \o v)[i]
  BY <1>1, AppendProperties
<1>5. ASSUME NEW i \in 1 .. Len(u \o Append(v, c))
      PROVE  (u \o Append(v, c))[i] = Append(u \o v, c)[i]
  <2>1. i \in 1 .. Len(u) + Len(v) + 1
    BY <1>3, <1>5
  <2>2. CASE i = Len(u) + Len(v) + 1
    <3>1. ~ (i <= Len(u)) /\ i - Len(u) = Len(v) + 1
      BY <1>1, <2>2
    <3> QED
      BY <1>2, <1>3, <1>4, <2>1, <2>2, <3>1
  <2>3. CASE i # Len(u) + Len(v) + 1
    <3>1. i \in 1 .. Len(u) + Len(v)
      BY <1>1, <2>1, <2>3
    <3>2. CASE i <= Len(u)
      BY <1>1, <1>3, <1>4, <2>1, <3>1, <3>2
    <3>3. CASE ~ (i <= Len(u))
      <4>1. i - Len(u) \in 1 .. Len(v)
        BY <1>1, <3>1, <3>3
      <4> QED
        BY <1>1, <1>2, <1>3, <1>4, <2>1, <3>1, <3>3, <4>1
    <3> QED
      BY <3>2, <3>3
  <2> QED
    BY <2>2, <2>3
<1>6. Len(u \o Append(v, c)) = Len(Append(u \o v, c))
  BY <1>3, <1>4
<1> QED
  BY <1>3, <1>4, <1>5, <1>6, SameSeq

\* What a text that is a number may have at its end.
DigitCode == 48 .. 57

\* A sign.
LEMMA TakeMinus ==
  LET t == Append(<<>>, Minus)
  IN  /\ t = <<Minus>> /\ t \in Seq(Code) /\ Len(t) = 1 /\ Negative(t)
      /\ ~HasPoint(t) /\ ~HasExponent(t) /\ IntegerPart(t) = <<>> /\ FractionPart(t) = <<>>
<1>1. <<>> \in Seq(Code) /\ Len(<<>>) = 0 /\ Minus \in Code /\ Minus # Point /\ Minus \notin Exponent
  BY EmptySeq DEF Code, Minus, Point, Exponent
<1>2. ~HasPoint(<<>>) /\ ~HasExponent(<<>>) /\ FractionPart(<<>>) = <<>>
  BY <1>1, PositionEmpty DEF HasPoint, HasExponent, FractionPart
<1>3. /\ Append(<<>>, Minus) \in Seq(Code) /\ Len(Append(<<>>, Minus)) = 1
      /\ Append(<<>>, Minus) = <<Minus>>
  BY <1>1, AppendProperties
<1>4. /\ ~HasPoint(Append(<<>>, Minus)) /\ ~HasExponent(Append(<<>>, Minus))
      /\ Negative(Append(<<>>, Minus))
  BY <1>1, <1>2, MarksAppend
<1>5. IntegerPart(Append(<<>>, Minus)) = <<>>
  BY <1>1, IntegerAppend
<1>6. FractionPart(Append(<<>>, Minus)) = <<>>
  BY <1>1, <1>2, FractionAppend
<1> QED
  BY <1>3, <1>4, <1>5, <1>6

\* A digit of the integer.
LEMMA TakeIntegerDigit ==
  ASSUME NEW s \in Seq(Code), NEW c \in DigitCode, ~HasPoint(s), ~HasExponent(s)
  PROVE  LET t == Append(s, c)
         IN  /\ t \in Seq(Code) /\ Len(t) = Len(s) + 1 /\ t # <<>>
             /\ Negative(t) <=> Negative(s)
             /\ ~HasPoint(t) /\ ~HasExponent(t) /\ FractionPart(t) = <<>>
             /\ IntegerPart(t) = Append(IntegerPart(s), c)
             /\ Written(t) = Append(Written(s), c)
             /\ Number(Kept(t, 0)) = Number(Kept(s, 0)) * 10 + (c - 48)
<1> DEFINE t == Append(s, c)
<1>1. c \in Code /\ c # Point /\ c \notin Exponent /\ c # Minus /\ c \in Int
  BY DEF Code, Point, Exponent, Minus, DigitCode
<1>2. t \in Seq(Code) /\ Len(t) = Len(s) + 1 /\ Len(s) \in Nat
  BY <1>1, AppendProperties, LenProperties
<1>3. ~HasPoint(t) /\ ~HasExponent(t)
  BY <1>1, MarksAppend
<1>4. Negative(t) <=> Negative(s)
  <2>1. s = <<>> => ~Negative(s)
    BY DEF Negative
  <2>2. s = <<>> => (Negative(t) <=> c = Minus)
    BY <1>1, MarksAppend
  <2>3. s # <<>> => (Negative(t) <=> Negative(s))
    BY <1>1, MarksAppend
  <2> QED
    BY <1>1, <2>1, <2>2, <2>3, Zenon
<1>5. IntegerPart(s) \in Seq(Code) /\ IntegerPart(t) = Append(IntegerPart(s), c)
  BY <1>1, IntegerAppend
<1>6. FractionPart(s) = <<>> /\ FractionPart(t) = <<>>
  BY <1>1, FractionAppend
<1>7. t # <<>>
  BY <1>2, EmptySeq
<1> HIDE DEF t
<1>8. /\ Kept(s, 0) = IntegerPart(s) /\ Written(s) = IntegerPart(s)
      /\ Kept(t, 0) = IntegerPart(t) /\ Written(t) = IntegerPart(t)
  BY <1>2, <1>6, KeptInteger
<1>9. /\ Number(IntegerPart(s)) \in Int
      /\ Number(Append(IntegerPart(s), c)) = Number(IntegerPart(s)) * 10 + c - 48
  BY <1>1, <1>5, NumberAppend
<1> QED
  BY <1>1, <1>2, <1>3, <1>4, <1>5, <1>6, <1>7, <1>8, <1>9 DEF t

\* A letter.
LEMMA TakeLetter ==
  ASSUME NEW s \in Seq(Code), NEW c \in Letter, ~HasPoint(s), ~HasExponent(s)
  PROVE  LET t == Append(s, c)
         IN  /\ t \in Seq(Code) /\ Len(t) = Len(s) + 1 /\ t # <<>>
             /\ Negative(t) <=> Negative(s)
             /\ ~HasPoint(t) /\ ~HasExponent(t) /\ FractionPart(t) = <<>> /\ FractionPart(s) = <<>>
<1> DEFINE t == Append(s, c)
<1>1. c \in Code /\ c # Point /\ c \notin Exponent /\ c # Minus
  BY DEF Letter
<1>2. t \in Seq(Code) /\ Len(t) = Len(s) + 1 /\ Len(s) \in Nat
  BY <1>1, AppendProperties, LenProperties
<1>3. ~HasPoint(t) /\ ~HasExponent(t)
  BY <1>1, MarksAppend
<1>4. Negative(t) <=> Negative(s)
  <2>1. s = <<>> => ~Negative(s)
    BY DEF Negative
  <2>2. s = <<>> => (Negative(t) <=> c = Minus)
    BY <1>1, MarksAppend
  <2>3. s # <<>> => (Negative(t) <=> Negative(s))
    BY <1>1, MarksAppend
  <2> QED
    BY <1>1, <2>1, <2>2, <2>3, Zenon
<1>5. FractionPart(s) = <<>> /\ FractionPart(t) = <<>>
  BY <1>1, FractionAppend
<1>6. t # <<>>
  BY <1>2, EmptySeq
<1> QED
  BY <1>2, <1>3, <1>4, <1>5, <1>6

\* The point.
LEMMA TakePoint ==
  ASSUME NEW s \in Seq(Code), ~HasPoint(s), ~HasExponent(s)
  PROVE  LET t == Append(s, Point)
         IN  /\ t \in Seq(Code) /\ Len(t) = Len(s) + 1 /\ t # <<>>
             /\ Negative(t) <=> Negative(s)
             /\ HasPoint(t) /\ ~HasExponent(t) /\ FractionPart(t) = <<>> /\ FractionPart(s) = <<>>
             /\ IntegerPart(t) = IntegerPart(s) /\ Written(t) = Written(s)
             /\ Kept(t, 0) = Kept(s, 0)
<1> DEFINE t == Append(s, Point)
<1>1. Point \in Code /\ Point \notin Exponent /\ Point # Minus
  BY DEF Code, Point, Exponent, Minus
<1>2. t \in Seq(Code) /\ Len(t) = Len(s) + 1 /\ Len(s) \in Nat
  BY <1>1, AppendProperties, LenProperties
<1>3. HasPoint(t) /\ ~HasExponent(t)
  BY <1>1, MarksAppend
<1>4. Negative(t) <=> Negative(s)
  <2>1. s = <<>> => ~Negative(s)
    BY DEF Negative
  <2>2. s = <<>> => (Negative(t) <=> Point = Minus)
    BY <1>1, MarksAppend
  <2>3. s # <<>> => (Negative(t) <=> Negative(s))
    BY <1>1, MarksAppend
  <2> QED
    BY <1>1, <2>1, <2>2, <2>3, Zenon
<1>5. IntegerPart(t) = IntegerPart(s)
  BY <1>1, IntegerAppend
<1>6. FractionPart(s) = <<>> /\ FractionPart(t) = <<>>
  BY <1>1, FractionAppend
<1>7. t # <<>>
  BY <1>2, EmptySeq
<1>8. Written(t) = Written(s) /\ Kept(t, 0) = Kept(s, 0)
  BY <1>5, <1>6 DEF Written, Kept
<1> QED
  BY <1>2, <1>3, <1>4, <1>5, <1>6, <1>7, <1>8

\* A digit of the fraction, with and without its value.
LEMMA TakeFractionDigit ==
  ASSUME NEW s \in Seq(Code), NEW c \in DigitCode, HasPoint(s), ~HasExponent(s),
         NEW k \in Nat, k <= Len(FractionPart(s))
  PROVE  LET t == Append(s, c)
         IN  /\ t \in Seq(Code) /\ Len(t) = Len(s) + 1 /\ t # <<>>
             /\ Negative(t) <=> Negative(s)
             /\ HasPoint(t) /\ ~HasExponent(t)
             /\ IntegerPart(t) = IntegerPart(s) /\ Written(t) = Append(Written(s), c)
             /\ Len(FractionPart(t)) = Len(FractionPart(s)) + 1
             /\ Kept(t, k) = Kept(s, k)
             /\ k = Len(FractionPart(s)) =>
                  Number(Kept(t, k + 1)) = Number(Kept(s, k)) * 10 + (c - 48)
<1> DEFINE t == Append(s, c)
<1>1. c \in Code /\ c # Point /\ c \notin Exponent /\ c # Minus /\ c \in Int
  BY DEF Code, Point, Exponent, Minus, DigitCode
<1>2. t \in Seq(Code) /\ Len(t) = Len(s) + 1 /\ Len(s) \in Nat
  BY <1>1, AppendProperties, LenProperties
<1>3. HasPoint(t) /\ ~HasExponent(t)
  BY <1>1, MarksAppend
<1>4. s # <<>> /\ (Negative(t) <=> Negative(s))
  <2>1. s # <<>>
    BY PositionEmpty, EmptySeq DEF HasPoint
  <2> QED
    BY <1>1, <2>1, MarksAppend
<1>5. IntegerPart(s) \in Seq(Code) /\ IntegerPart(t) = IntegerPart(s)
  BY <1>1, <1>4, IntegerAppend
<1>6. FractionPart(s) \in Seq(Code) /\ FractionPart(t) = Append(FractionPart(s), c)
  BY <1>1, FractionAppend
<1>7. t # <<>>
  BY <1>2, EmptySeq
<1> HIDE DEF t
<1>8. Len(FractionPart(s)) \in Nat /\ Len(FractionPart(t)) = Len(FractionPart(s)) + 1
  BY <1>1, <1>6, AppendProperties, LenProperties
<1>9. Written(t) = Append(Written(s), c)
  BY <1>1, <1>5, <1>6, ConcatAppend DEF Written
<1>10. /\ \A j \in Nat : j <= Len(FractionPart(s)) =>
            SubSeq(FractionPart(t), 1, j) = SubSeq(FractionPart(s), 1, j)
       /\ SubSeq(FractionPart(t), 1, Len(FractionPart(s)) + 1) =
            Append(SubSeq(FractionPart(s), 1, Len(FractionPart(s))), c)
  <2>1. 1 \in 1 .. Len(FractionPart(s)) + 1
    BY <1>8
  <2> QED
    BY <1>1, <1>6, <2>1, PartAppend
<1>11. Kept(t, k) = Kept(s, k)
  BY <1>5, <1>10 DEF Kept
<1>12. ASSUME k = Len(FractionPart(s))
       PROVE  Number(Kept(t, k + 1)) = Number(Kept(s, k)) * 10 + (c - 48)
  <2> DEFINE v == SubSeq(FractionPart(s), 1, k)
  <2>1. v \in Seq(Code)
    <3>1. 1 \in 1 .. Len(FractionPart(s)) + 1
      BY <1>8
    <3> QED
      BY <1>6, <1>8, <3>1, PartOf
  <2>2. Kept(t, k + 1) = IntegerPart(s) \o Append(v, c)
    BY <1>5, <1>10, <1>12 DEF Kept
  <2>3. Kept(s, k) = IntegerPart(s) \o v
    BY DEF Kept
  <2> HIDE DEF v
  <2>4. Kept(t, k + 1) = Append(Kept(s, k), c)
    <3>1. IntegerPart(s) \o Append(v, c) = Append(IntegerPart(s) \o v, c)
      <4>1. c \in Code /\ IntegerPart(s) \in Seq(Code)
        BY <1>1, <1>5
      <4> QED
        BY <2>1, <4>1, ConcatAppend
    <3> QED
      BY <2>2, <2>3, <3>1
  <2>5. Kept(s, k) \in Seq(Code)
    BY KeptType
  <2>6. /\ Number(Kept(s, k)) \in Int
        /\ Number(Append(Kept(s, k), c)) = Number(Kept(s, k)) * 10 + c - 48
    BY <1>1, <2>5, NumberAppend
  <2> QED
    BY <1>1, <2>4, <2>6
<1> QED
  BY <1>2, <1>3, <1>4, <1>5, <1>7, <1>8, <1>9, <1>11, <1>12 DEF t

\* The mark of the exponent.
LEMMA TakeMark ==
  ASSUME NEW s \in Seq(Code), NEW c \in Exponent, ~HasExponent(s)
  PROVE  LET t == Append(s, c)
         IN  /\ t \in Seq(Code) /\ Len(t) = Len(s) + 1 /\ t # <<>>
             /\ Negative(t) <=> Negative(s)
             /\ (HasPoint(t) <=> HasPoint(s)) /\ HasExponent(t)
             /\ Position(Exponent, t) = Len(t)
             /\ IntegerPart(t) = IntegerPart(s) /\ FractionPart(t) = FractionPart(s)
             /\ Written(t) = Written(s) /\ \A k \in Nat : Kept(t, k) = Kept(s, k)
<1> DEFINE t == Append(s, c)
<1>1. c \in Code /\ c # Point /\ c # Minus
  BY DEF Code, Point, Exponent, Minus
<1>2. t \in Seq(Code) /\ Len(t) = Len(s) + 1 /\ Len(s) \in Nat
  BY <1>1, AppendProperties, LenProperties
<1>3. (HasPoint(t) <=> HasPoint(s)) /\ HasExponent(t)
  BY <1>1, MarksAppend
<1>4. Negative(t) <=> Negative(s)
  <2>1. s = <<>> => ~Negative(s)
    BY DEF Negative
  <2>2. s = <<>> => (Negative(t) <=> c = Minus)
    BY <1>1, MarksAppend
  <2>3. s # <<>> => (Negative(t) <=> Negative(s))
    BY <1>1, MarksAppend
  <2> QED
    BY <1>1, <2>1, <2>2, <2>3, Zenon
<1>5. IntegerPart(t) = IntegerPart(s)
  BY <1>1, IntegerAppend
<1>6. FractionPart(t) = FractionPart(s)
  BY <1>1, FractionAppend
<1>7. t # <<>>
  BY <1>2, EmptySeq
<1>8. Position(Exponent, t) = Len(t)
  <2> DEFINE e == Position(Exponent, s)
             f == Position(Exponent, t)
  <2>1. e \in 1 .. Len(s) + 1 /\ (e > Len(s) /\ c \in Exponent => f = Len(s) + 1)
    BY <1>1, PositionAppend
  <2>2. ~ (e <= Len(s))
    BY DEF HasExponent
  <2> HIDE DEF e
  <2> QED
    BY <1>2, <2>1, <2>2
<1>9. Written(t) = Written(s) /\ \A k \in Nat : Kept(t, k) = Kept(s, k)
  BY <1>5, <1>6 DEF Written, Kept
<1> QED
  BY <1>2, <1>3, <1>4, <1>5, <1>6, <1>7, <1>8, <1>9

\* What is behind it.
LEMMA TakeBehind ==
  ASSUME NEW s \in Seq(Code), NEW c \in Code, c # Point, HasExponent(s)
  PROVE  LET t == Append(s, c)
         IN  /\ t \in Seq(Code) /\ Len(t) = Len(s) + 1 /\ t # <<>>
             /\ Negative(t) <=> Negative(s)
             /\ (HasPoint(t) <=> HasPoint(s)) /\ HasExponent(t)
             /\ IntegerPart(t) = IntegerPart(s) /\ FractionPart(t) = FractionPart(s)
             /\ Written(t) = Written(s) /\ \A k \in Nat : Kept(t, k) = Kept(s, k)
<1> DEFINE t == Append(s, c)
<1>1. t \in Seq(Code) /\ Len(t) = Len(s) + 1 /\ Len(s) \in Nat
  BY AppendProperties, LenProperties
<1>2. (HasPoint(t) <=> HasPoint(s)) /\ HasExponent(t)
  BY MarksAppend
<1>3. s # <<>> /\ (Negative(t) <=> Negative(s))
  <2>1. s # <<>>
    BY PositionEmpty, EmptySeq DEF HasExponent
  <2> QED
    BY <2>1, MarksAppend
<1>4. IntegerPart(t) = IntegerPart(s)
  BY <1>3, IntegerAppend
<1>5. FractionPart(t) = FractionPart(s)
  BY FractionAppend
<1>6. t # <<>>
  BY <1>1, EmptySeq
<1>7. Written(t) = Written(s) /\ \A k \in Nat : Kept(t, k) = Kept(s, k)
  BY <1>4, <1>5 DEF Written, Kept
<1> QED
  BY <1>1, <1>2, <1>3, <1>4, <1>5, <1>6, <1>7

-----------------------------------------------------------------------------
(* The limits of the accumulator, and what is left on the stack.           *)

\* The powers that the widths give.
LEMMA Powers ==
  /\ 2 ^ (Narrow - 1) \in Nat /\ 9 <= 2 ^ (Narrow - 1) /\ 2 ^ Narrow = 2 * 2 ^ (Narrow - 1)
  /\ 2 ^ (Wide - 1) \in Nat \ {0} /\ 2 ^ Wide = 2 * 2 ^ (Wide - 1)
  /\ 2 ^ Narrow <= 2 ^ (Wide - 1)
BY NumberAssumption

\* The limits are natural numbers, and the narrow one is the lower one.
LEMMA Limits ==
  /\ Limit(Narrow) \in Nat /\ Limit(Wide) \in Nat
  /\ 9 <= Limit(Narrow) /\ Limit(Narrow) <= Limit(Wide)
  /\ minus => Limit(Narrow) = 2 ^ (Narrow - 1) /\ Limit(Wide) = 2 ^ (Wide - 1)
  /\ ~minus => Limit(Narrow) = 2 ^ Narrow - 1 /\ Limit(Wide) = 2 ^ Wide - 1
<1> DEFINE n == 2 ^ (Narrow - 1)
           w == 2 ^ (Wide - 1)
           nn == 2 ^ Narrow
           ww == 2 ^ Wide
<1>1. n \in Nat /\ 9 <= n /\ nn = 2 * n /\ w \in Nat \ {0} /\ ww = 2 * w /\ nn <= w
  BY Powers
<1>2. /\ Limit(Narrow) = IF minus THEN n ELSE nn - 1
      /\ Limit(Wide) = IF minus THEN w ELSE ww - 1
  BY DEF Limit
<1> HIDE DEF n, w, nn, ww
<1>3. /\ Limit(Narrow) \in Nat /\ Limit(Wide) \in Nat
      /\ 9 <= Limit(Narrow) /\ Limit(Narrow) <= Limit(Wide)
      /\ minus => Limit(Narrow) = n /\ Limit(Wide) = w
      /\ ~minus => Limit(Narrow) = nn - 1 /\ Limit(Wide) = ww - 1
  BY <1>1, <1>2
<1> QED
  BY <1>3 DEF n, w, nn, ww

\* What the code compares is whether another digit exceeds the limit.
LEMMA OutgrowsIs ==
  ASSUME NEW w, Limit(w) \in Nat, sig \in Nat, IsDigit, next \in Nat
  PROVE  Outgrows(w) <=> sig * 10 + Digit > Limit(w)
<1> DEFINE m == Limit(w)
           q == m \div 10
           r == m % 10
<1>1. m \in Nat
  OBVIOUS
<1>2. Digit \in 0 .. 9
  BY DEF Digit, IsDigit
<1>3. Outgrows(w) <=> sig >= q /\ (sig # q \/ Digit > r)
  BY DEF Outgrows
<1> HIDE DEF m
<1>4. q \in Nat /\ r \in 0 .. 9 /\ m = 10 * q + r
  BY <1>1
<1> HIDE DEF q, r
<1>5. sig >= q /\ (sig # q \/ Digit > r) <=> sig * 10 + Digit > m
  BY <1>2, <1>4
<1> QED
  BY <1>3, <1>5 DEF m

\* The values of the copy that CopyOnStack makes.
IsCopy(copy, size, chars) ==
  copy = [j \in 0 .. Len(chars) |->
            IF j = Len(chars) THEN 0
            ELSE IF j = 0 \/ size = 1 THEN chars[j + 1]
            ELSE IF j % size = 0 THEN copy[j \div size] ELSE 0]

\* Of bytes all are left; of wider characters the first, and no other.
LEMMA CopyIs ==
  ASSUME NEW chars \in Seq(Code), NEW size \in {1, 2, 4},
         NEW copy, IsCopy(copy, size, chars)
  PROVE  \A j \in 0 .. Len(chars) - 1 :
           copy[j] = IF size = 1 THEN chars[j + 1] ELSE IF j = 0 THEN chars[1] ELSE 0
<1>1. Len(chars) \in Nat
  BY LenProperties
<1>2. ASSUME NEW j \in 0 .. Len(chars)
      PROVE  copy[j] = IF j = Len(chars) THEN 0
                       ELSE IF j = 0 \/ size = 1 THEN chars[j + 1]
                       ELSE IF j % size = 0 THEN copy[j \div size] ELSE 0
  BY DEF IsCopy
<1>3. CASE size = 1
  <2> TAKE j \in 0 .. Len(chars) - 1
  <2>1. j \in 0 .. Len(chars) /\ j # Len(chars)
    BY <1>1
  <2> QED
    BY <1>2, <1>3, <2>1
<1>4. CASE size \in {2, 4}
  <2> DEFINE bad == {j \in 1 .. Len(chars) : copy[j] # 0}
  <2>1. bad = {}
    <3>1. SUFFICES ASSUME bad # {} PROVE FALSE
      OBVIOUS
    <3>2. bad \subseteq Nat
      BY <1>1
    <3>3. PICK j \in bad : \A i \in bad : j <= i
      <4> HIDE DEF bad
      <4> QED
        BY <3>1, <3>2, LeastNat
    <3>4. j \in 1 .. Len(chars) /\ copy[j] # 0
      BY <3>3
    <3>5. j # Len(chars) /\ j % size = 0 /\ copy[j] = copy[j \div size]
      <4>1. j \in 0 .. Len(chars) /\ j # 0 /\ size # 1
        BY <1>1, <1>4, <3>4
      <4> QED
        BY <1>2, <3>4, <4>1
    <3>6. j \div size \in 1 .. j - 1
      <4>1. CASE size = 2
        BY <3>4, <3>5, <4>1
      <4>2. CASE size = 4
        BY <3>4, <3>5, <4>2
      <4> QED
        BY <1>4, <4>1, <4>2
    <3> DEFINE i == j \div size
    <3>7. i \in 1 .. j - 1 /\ copy[i] # 0
      BY <3>4, <3>5, <3>6
    <3> HIDE DEF i
    <3>8. i \in bad
      BY <1>1, <3>4, <3>7
    <3> HIDE DEF bad
    <3> QED
      BY <3>3, <3>4, <3>7, <3>8
  <2>2. \A j \in 1 .. Len(chars) : copy[j] = 0
    BY <2>1
  <2> TAKE j \in 0 .. Len(chars) - 1
  <2>3. CASE j = 0
    <3>1. j \in 0 .. Len(chars) /\ j # Len(chars)
      BY <1>1, <2>3
    <3> QED
      BY <1>2, <1>4, <2>3, <3>1
  <2>4. CASE j # 0
    <3>1. j \in 1 .. Len(chars)
      BY <1>1, <2>4
    <3> QED
      BY <1>4, <2>2, <2>4, <3>1
  <2> QED
    BY <2>3, <2>4
<1> QED
  BY <1>3, <1>4

\* There is such a copy.
LEMMA CopyExists ==
  ASSUME NEW chars \in Seq(Code), NEW size \in {1, 2, 4}
  PROVE  \E copy : IsCopy(copy, size, chars)
<1> DEFINE value(j) == IF j = Len(chars) THEN 0
                       ELSE IF j = 0 \/ size = 1 THEN chars[j + 1] ELSE 0
           copy == [j \in 0 .. Len(chars) |-> value(j)]
<1>1. Len(chars) \in Nat
  BY LenProperties
<1>2. ASSUME NEW j \in 0 .. Len(chars)
      PROVE  value(j) = IF j = Len(chars) THEN 0
                        ELSE IF j = 0 \/ size = 1 THEN chars[j + 1]
                        ELSE IF j % size = 0 THEN copy[j \div size] ELSE 0
  <2>1. CASE j = Len(chars) \/ j = 0 \/ size = 1
    BY <2>1
  <2>2. CASE ~ (j = Len(chars) \/ j = 0 \/ size = 1)
    <3>1. value(j) = 0
      BY <2>2
    <3>2. CASE j % size = 0
      <4>1. j \div size \in 1 .. j - 1
        <5>1. CASE size = 2
          BY <1>1, <1>2, <2>2, <3>2, <5>1
        <5>2. CASE size = 4
          BY <1>1, <1>2, <2>2, <3>2, <5>2
        <5> QED
          BY <2>2, <5>1, <5>2
      <4> DEFINE i == j \div size
      <4>2. i \in 0 .. Len(chars) /\ i # 0
        BY <1>1, <1>2, <4>1
      <4> HIDE DEF i
      <4>3. copy[i] = 0
        BY <2>2, <4>2
      <4> HIDE DEF copy, value
      <4> QED
        BY <2>2, <3>1, <3>2, <4>3 DEF i
    <3> HIDE DEF copy, value
    <3>3. CASE j % size # 0
      BY <2>2, <3>1, <3>3
    <3> QED
      BY <3>2, <3>3
  <2> QED
    BY <2>1, <2>2
<1>3. IsCopy(copy, size, chars)
  <2>1. \A j \in 0 .. Len(chars) :
          value(j) = IF j = Len(chars) THEN 0
                     ELSE IF j = 0 \/ size = 1 THEN chars[j + 1]
                     ELSE IF j % size = 0 THEN copy[j \div size] ELSE 0
    BY <1>2
  <2> HIDE DEF value
  <2> QED
    BY <2>1 DEF IsCopy
<1> QED
  BY <1>3

\* So CopyOnStack gives bytes as they are, and of wider characters the first.
LEMMA CopyOnStackIs ==
  ASSUME NEW chars \in Seq(Code), NEW size \in {1, 2, 4}
  PROVE  CopyOnStack(size, chars) =
           IF size = 1 THEN chars ELSE [i \in DOMAIN chars |-> IF i = 1 THEN chars[1] ELSE 0]
<1> DEFINE copy == CHOOSE f : f = [j \in 0 .. Len(chars) |->
                                IF j = Len(chars) THEN 0
                                ELSE IF j = 0 \/ size = 1 THEN chars[j + 1]
                                ELSE IF j % size = 0 THEN f[j \div size] ELSE 0]
<1>1. CopyOnStack(size, chars) = [j \in 1 .. Len(chars) |-> copy[j - 1]]
  BY DEF CopyOnStack
<1>2. IsCopy(copy, size, chars)
  BY CopyExists DEF IsCopy
<1> HIDE DEF copy
<1>3. Len(chars) \in Nat /\ DOMAIN chars = 1 .. Len(chars)
      /\ chars = [i \in 1 .. Len(chars) |-> chars[i]]
  BY LenProperties
<1>4. ASSUME NEW i \in 1 .. Len(chars)
      PROVE  copy[i - 1] = IF size = 1 THEN chars[i] ELSE IF i = 1 THEN chars[1] ELSE 0
  <2>1. i - 1 \in 0 .. Len(chars) - 1 /\ (i - 1) + 1 = i /\ (i - 1 = 0 <=> i = 1)
    BY <1>3
  <2> QED
    BY <1>2, <2>1, CopyIs
<1>5. CASE size = 1
  <2>1. [j \in 1 .. Len(chars) |-> copy[j - 1]] = [i \in 1 .. Len(chars) |-> chars[i]]
    BY <1>4, <1>5
  <2> QED
    BY <1>1, <1>3, <1>5, <2>1
<1>6. CASE size # 1
  <2>1. [j \in 1 .. Len(chars) |-> copy[j - 1]] =
          [i \in DOMAIN chars |-> IF i = 1 THEN chars[1] ELSE 0]
    BY <1>3, <1>4, <1>6
  <2> QED
    BY <1>1, <1>6, <2>1
<1> QED
  BY <1>5, <1>6

-----------------------------------------------------------------------------
(* Every action keeps the invariant.                                       *)

\* What a character that is taken leaves.
LEMMA TakenTypes ==
  ASSUME NumberTypes, next # 0, NEW push \in BOOLEAN, TakeChar(push)
  PROVE  /\ next \in Code /\ taken' = Append(taken, next)
         /\ next' \in NumberChars \cup {0} /\ next' \in Nat
         /\ taken' \in Seq(Code) /\ Len(taken') <= MaxTaken /\ (next' # 0 => Len(taken') < MaxTaken)
         /\ backup' \in Seq(Code)
         /\ mode = "strings" /\ backup = taken => backup' = taken'
         /\ mode = "full" /\ push => backup' = Append(backup, next)
         /\ mode = "full" /\ ~push => backup' = backup
<1>1. NumberChars \subseteq Nat \ {0} /\ MaxTaken \in Nat
  BY NumberAssumption
<1>2. next \in Code
  BY <1>1 DEF NumberTypes, Code
<1>3. taken \in Seq(Code) /\ backup \in Seq(Code) /\ Len(taken) < MaxTaken /\ Len(taken) \in Nat
  BY LenProperties DEF NumberTypes
<1>4. taken' = Append(taken, next) /\ taken' \in Seq(Code) /\ Len(taken') = Len(taken) + 1
  BY <1>2, <1>3, AppendProperties DEF TakeChar
<1>5. next' \in (IF Len(taken') >= MaxTaken THEN {0} ELSE NumberChars \cup {0})
  BY DEF TakeChar
<1>6. next' \in NumberChars \cup {0} /\ (next' # 0 => ~ (Len(taken') >= MaxTaken))
  BY <1>5
<1>7. Len(taken') <= MaxTaken /\ (next' # 0 => Len(taken') < MaxTaken) /\ next' \in Nat
  BY <1>1, <1>3, <1>4, <1>6
<1>8. backup' = IF mode = "strings" \/ (mode = "full" /\ push) THEN Append(backup, next) ELSE backup
  BY DEF TakeChar
<1>9. backup' \in Seq(Code)
  BY <1>2, <1>3, <1>8, AppendProperties
<1>10. /\ mode = "strings" /\ backup = taken => backup' = taken'
       /\ mode = "full" /\ push => backup' = Append(backup, next)
       /\ mode = "full" /\ ~push => backup' = backup
  BY <1>4, <1>8
<1> QED
  BY <1>2, <1>4, <1>6, <1>7, <1>9, <1>10

\* A minus is taken before anything else.
LEMMA SignKeeps == NumberInv /\ Sign => NumberInv'
<1> SUFFICES ASSUME NumberInv, Sign PROVE NumberInv'
  OBVIOUS
<1>1. /\ at = "sign" /\ at' = "first" /\ minus' = (next = Minus)
      /\ sig' = sig /\ kind' = kind /\ word' = word /\ nanOrInf' = nanOrInf
      /\ significandDigit' = significandDigit /\ expFrac' = expFrac /\ exp' = exp
      /\ expMinus' = expMinus /\ decimalPosition' = decimalPosition
      /\ mode' = mode /\ targetSize' = targetSize /\ event' = event
  BY DEF Sign, Fixed
<1>2. taken = <<>> /\ sig = 0 /\ kind = "32" /\ ~nanOrInf /\ expFrac = 0 /\ significandDigit = 0
  BY <1>1 DEF NumberInv, PlaceInv, Begun
<1>0. exp = 0
  BY <1>1 DEF NumberInv, PlaceInv, ExponentInv, BeforePoint, Begun
<1>3. NumberTypes
  BY DEF NumberInv
<1>4. /\ taken' = IF minus' THEN <<Minus>> ELSE <<>>
      /\ taken' \in Seq(Code) /\ Len(taken') <= MaxTaken
      /\ next' \in NumberChars \cup {0} /\ (next' # 0 => Len(taken') < MaxTaken)
      /\ minus' = Negative(taken')
      /\ backup' \in Seq(Code)
      /\ mode = "strings" /\ backup = taken => backup' = taken'
      /\ mode = "full" => backup' = backup
      /\ ~HasPoint(taken') /\ ~HasExponent(taken')
      /\ IntegerPart(taken') = <<>> /\ FractionPart(taken') = <<>>
  <2>1. CASE next = Minus
    <3>1. TakeChar(FALSE)
      BY <2>1 DEF Sign
    <3>2. next # 0
      BY <2>1 DEF Minus
    <3>3. TakeChar(FALSE) => minus' /\ taken' = Append(<<>>, Minus)
      BY <1>1, <1>2, <2>1 DEF TakeChar
    <3> QED
      BY <1>3, <2>1, <3>1, <3>2, <3>3, TakenTypes, TakeMinus
  <2>2. CASE next # Minus
    <3>1. taken' = taken /\ next' = next /\ backup' = backup /\ minus' = FALSE
      BY <1>1, <2>2 DEF Sign, Stay
    <3>2. Negative(<<>>) = FALSE
      BY DEF Negative
    <3>3. ~HasPoint(<<>>) /\ ~HasExponent(<<>>) /\ FractionPart(<<>>) = <<>>
      BY PositionEmpty, EmptySeq DEF HasPoint, HasExponent, FractionPart
    <3>4. IntegerPart(<<>>) = <<>>
      BY <1>1, <1>2 DEF NumberInv, PlaceInv, Begun
    <3> QED
      BY <1>2, <1>3, <3>1, <3>2, <3>3, <3>4 DEF NumberTypes
  <2> QED
    BY <2>1, <2>2
<1>5. NumberTypes'
  BY <1>1, <1>3, <1>4 DEF NumberTypes, PlaceNames, BeforePoint, Begun
<1>6. PlaceInv'
  BY <1>1, <1>2, <1>4 DEF PlaceInv, BeforePoint, InFraction, InExponent, Begun
<1>7. KindInv'
  BY <1>1, <1>2, <1>4 DEF KindInv, InExponent
<1>8. IntegerInv'
  <2>1. 2 ^ (Narrow - 1) \in Nat /\ 2 ^ Narrow - 1 \in Nat
    <3> DEFINE n == 2 ^ (Narrow - 1)
               nn == 2 ^ Narrow
    <3>1. n \in Nat /\ 9 <= n /\ nn = 2 * n
      BY Powers
    <3> HIDE DEF n, nn
    <3>2. n \in Nat /\ nn - 1 \in Nat
      BY <3>1
    <3> QED
      BY <3>2 DEF n, nn
  <2>2. Limit(Narrow)' = IF minus' THEN 2 ^ (Narrow - 1) ELSE 2 ^ Narrow - 1
    BY DEF Limit
  <2>3. Limit(Narrow)' \in Nat
    BY <2>1, <2>2
  <2> QED
    BY <1>1, <1>2, <2>3 DEF IntegerInv, NoLetters
<1>9. ValueInv'
  <2>1. Kept(taken', 0) = <<>>
    BY <1>4, KeptInteger
  <2>2. Len(<<>>) = 0
    BY EmptySeq
  <2> QED
    BY <1>1, <1>2, <1>4, <2>1, <2>2, NumberEmpty DEF ValueInv, NoLetters
<1>10. BackupInv'
  <2>1. Written(taken') = <<>>
    BY <1>4, KeptInteger
  <2>2. Written(taken) = <<>>
    <3>1. IntegerPart(taken) = <<>> /\ taken \in Seq(Code)
      BY <1>1 DEF NumberInv, PlaceInv, Begun, NumberTypes
    <3>2. FractionPart(taken) = <<>>
      BY <1>2, PositionEmpty, EmptySeq DEF HasPoint, FractionPart
    <3> QED
      BY <3>1, <3>2, KeptInteger
  <2>3. (mode = "strings" => backup = taken) /\ (mode = "full" => backup = <<>>)
    BY <1>1, <1>2, <2>2 DEF NumberInv, BackupInv, NoLetters
  <2> QED
    BY <1>1, <1>4, <2>1, <2>3 DEF BackupInv, BeforePoint, Begun
<1>11. ExponentInv'
  BY <1>0, <1>1, <1>4 DEF ExponentInv
<1>12. EventInv'
  BY <1>1 DEF EventInv
<1> QED
  BY <1>5, <1>6, <1>7, <1>8, <1>9, <1>10, <1>11, <1>12 DEF NumberInv

\* An error leaves everything but the place and the event.
LEMMA ErrorKeeps ==
  ASSUME NumberInv, NEW code, NumberError(code)
  PROVE  NumberInv'
<1>1. /\ at' = "error" /\ mode' = mode /\ targetSize' = targetSize /\ taken' = taken /\ next' = next
      /\ minus' = minus /\ sig' = sig /\ kind' = kind /\ word' = word /\ nanOrInf' = nanOrInf
      /\ significandDigit' = significandDigit /\ expFrac' = expFrac /\ exp' = exp
      /\ expMinus' = expMinus /\ backup' = backup /\ decimalPosition' = decimalPosition
  BY DEF NumberError
<1>2. NumberTypes'
  BY <1>1 DEF NumberInv, NumberTypes, PlaceNames
<1>3. PlaceInv'
  BY <1>1 DEF NumberInv, PlaceInv, BeforePoint, InFraction, InExponent, Begun
<1>4. KindInv'
  BY <1>1 DEF NumberInv, KindInv, InExponent
<1>5. IntegerInv'
  BY <1>1 DEF IntegerInv, NoLetters
<1>6. ValueInv'
  BY <1>1 DEF NumberInv, ValueInv, NoLetters
<1>7. BackupInv'
  BY <1>1 DEF NumberInv, BackupInv, NoLetters
<1>8. ExponentInv'
  BY <1>1 DEF NumberInv, ExponentInv
<1>9. EventInv'
  BY <1>1 DEF EventInv
<1> QED
  BY <1>2, <1>3, <1>4, <1>5, <1>6, <1>7, <1>8, <1>9 DEF NumberInv

\* The first digit of a number.
LEMMA FirstDigitKeeps ==
  ASSUME NumberInv, at = "first", First, IsDigit
  PROVE  NumberInv'
<1>1. /\ at' = (IF Digit = 0 THEN "point" ELSE "narrow") /\ minus' = minus /\ sig' = Digit
      /\ kind' = kind /\ word' = word /\ nanOrInf' = nanOrInf
      /\ significandDigit' = significandDigit /\ expFrac' = expFrac /\ exp' = exp
      /\ expMinus' = expMinus /\ decimalPosition' = decimalPosition
      /\ mode' = mode /\ targetSize' = targetSize /\ TakeChar(TRUE)
  <2>1. NaN[1] = 78 /\ Inf[1] = 73
    BY DEF NaN, Inf
  <2>2. next \notin {NaN[1], Inf[1]}
    BY <2>1 DEF IsDigit
  <2> QED
    BY <2>2 DEF First, Fixed
<1>2. /\ sig = 0 /\ kind = "32" /\ ~nanOrInf /\ expFrac = 0 /\ significandDigit = 0 /\ exp = 0
      /\ ~HasPoint(taken) /\ ~HasExponent(taken) /\ IntegerPart(taken) = <<>>
      /\ mode = "strings" => backup = taken
      /\ mode = "full" => backup = Written(taken)
  BY DEF NumberInv, PlaceInv, ExponentInv, BackupInv, BeforePoint, Begun, NoLetters
<1>3. NumberTypes /\ taken \in Seq(Code)
  BY DEF NumberInv, NumberTypes
<1>4. next \in DigitCode /\ next # 0 /\ Digit \in 0 .. 9
  BY DEF IsDigit, DigitCode, Digit
<1>5. /\ taken' = Append(taken, next) /\ next' \in NumberChars \cup {0}
      /\ taken' \in Seq(Code) /\ Len(taken') <= MaxTaken /\ (next' # 0 => Len(taken') < MaxTaken)
      /\ backup' \in Seq(Code)
      /\ mode = "strings" => backup' = taken'
      /\ mode = "full" => backup' = Append(backup, next)
  BY <1>1, <1>2, <1>3, <1>4, TakenTypes
<1>6. /\ taken' # <<>> /\ (Negative(taken') <=> Negative(taken))
      /\ ~HasPoint(taken') /\ ~HasExponent(taken') /\ FractionPart(taken') = <<>>
      /\ Written(taken') = Append(Written(taken), next)
      /\ Number(Kept(taken', 0)) = Number(Kept(taken, 0)) * 10 + (next - 48)
  BY <1>2, <1>3, <1>4, <1>5, TakeIntegerDigit
<1>7. Number(Kept(taken', 0)) = Digit
  <2>1. FractionPart(taken) = <<>>
    BY <1>2 DEF FractionPart
  <2>2. Kept(taken, 0) = <<>>
    BY <1>2, <1>3, <2>1, KeptInteger
  <2> QED
    BY <1>4, <1>6, <2>2, NumberEmpty DEF Digit
<1>8. NumberTypes'
  BY <1>1, <1>3, <1>4, <1>5, <1>6 DEF NumberTypes, PlaceNames, BeforePoint, Negative
<1>9. PlaceInv'
  BY <1>1, <1>6 DEF PlaceInv, BeforePoint, InFraction, InExponent, Begun
<1>10. KindInv'
  BY <1>1, <1>2, <1>6 DEF KindInv, InExponent
<1>11. IntegerInv'
  <2>1. Digit <= Limit(Narrow)
    BY <1>4, Limits
  <2>2. Limit(Narrow)' = Limit(Narrow)
    BY <1>1 DEF Limit
  <2> QED
    BY <1>1, <1>2, <2>1, <2>2 DEF IntegerInv
<1>12. ValueInv'
  <2>1. expFrac' = 0 /\ 0 - expFrac' = 0 /\ Len(FractionPart(taken')) = 0
    <3>1. expFrac' = 0
      BY <1>1, <1>2
    <3>2. FractionPart(taken') = <<>>
      BY <1>6
    <3>3. Len(<<>>) = 0
      BY EmptySeq
    <3>4. Len(FractionPart(taken')) = 0
      BY <3>2, <3>3, Zenon
    <3> QED
      BY <3>1, <3>4
  <2>2. sig' = Number(Kept(taken', 0 - expFrac'))
    BY <1>1, <1>7, <2>1
  <2>3. at' \in {"narrow", "wide", "big"} => sig' > 0
    BY <1>1, <1>4
  <2>4. significandDigit' = 0 /\ at' \notin {"fraction", "fractionFast"}
    BY <1>1, <1>2
  <2> QED
    BY <2>1, <2>2, <2>3, <2>4 DEF ValueInv
<1>13. BackupInv'
  BY <1>1, <1>2, <1>5, <1>6 DEF BackupInv, BeforePoint
<1>14. ExponentInv'
  BY <1>1, <1>2, <1>6 DEF ExponentInv
<1>15. EventInv'
  BY <1>1 DEF EventInv
<1> QED
  BY <1>8, <1>9, <1>10, <1>11, <1>12, <1>13, <1>14, <1>15 DEF NumberInv

\* The first letter of NaN, Inf and Infinity.
LEMMA WordsAreLetters ==
  /\ NaN[1] = 78 /\ Inf[1] = 73 /\ Inity[1] = 105
  /\ \A w \in {NaN, Inf} : Tail(w) \in Seq(Letter) /\ Tail(w) # <<>>
  /\ Inity \in Seq(Letter) /\ Inity # <<>>
<1>1. {78, 97, 73, 110, 102, 105, 116, 121} \subseteq Letter
  BY DEF Letter, Code, Point, Minus, Exponent
<1>2. NaN \in Seq(Letter) /\ Inf \in Seq(Letter) /\ Inity \in Seq(Letter)
  BY <1>1 DEF NaN, Inf, Inity
<1>3. /\ NaN[1] = 78 /\ Inf[1] = 73 /\ Inity[1] = 105
      /\ Len(NaN) = 3 /\ Len(Inf) = 3 /\ Len(Inity) = 5
  BY DEF NaN, Inf, Inity
<1>4. \A w \in {NaN, Inf} : w \in Seq(Letter) /\ w # <<>> /\ Len(w) = 3
  BY <1>2, <1>3, EmptySeq
<1>5. ASSUME NEW w \in {NaN, Inf}
      PROVE  Tail(w) \in Seq(Letter) /\ Tail(w) # <<>>
  <2>1. w \in Seq(Letter) /\ w # <<>> /\ Len(w) = 3
    BY <1>4, <1>5
  <2>2. Tail(w) \in Seq(Letter) /\ Len(Tail(w)) = Len(w) - 1
    BY <2>1, HeadTailProperties
  <2>3. Len(<<>>) = 0
    BY EmptySeq
  <2>4. Tail(w) # <<>>
    <3>1. Len(w) - 1 # 0
      BY <2>1
    <3>2. Len(Tail(w)) # Len(<<>>)
      BY <2>2, <2>3, <3>1, Zenon
    <3> QED
      BY <3>2, Zenon
  <2> QED
    BY <2>2, <2>4
<1>6. Inity # <<>>
  BY <1>3, EmptySeq
<1> QED
  BY <1>2, <1>3, <1>5, <1>6

\* A letter leads to a place before the point, and not back.
LEMMA LetterKeeps ==
  ASSUME NumberInv, TakeChar(FALSE), next \in Letter, at \in {"first", "word"},
         at' \in {"word", "inity", "point"}, word' \in Seq(Letter), at' = "word" => word' # <<>>,
         nanOrInf' \in BOOLEAN, at' # "word" => nanOrInf',
         minus' = minus, sig' = sig, kind' = kind, significandDigit' = significandDigit,
         expFrac' = expFrac, exp' = exp, expMinus' = expMinus, decimalPosition' = decimalPosition,
         mode' = mode, targetSize' = targetSize
  PROVE  NumberInv'
<1>1. /\ ~HasPoint(taken) /\ ~HasExponent(taken) /\ kind = "32" /\ exp = 0
      /\ mode = "strings" => backup = taken
  BY DEF NumberInv, PlaceInv, KindInv, ExponentInv, BackupInv, BeforePoint, Begun
<1>2. NumberTypes /\ taken \in Seq(Code)
  BY DEF NumberInv, NumberTypes
<1>3. next # 0
  BY DEF Letter, Code
<1>4. /\ taken' = Append(taken, next) /\ next' \in NumberChars \cup {0}
      /\ taken' \in Seq(Code) /\ Len(taken') <= MaxTaken /\ (next' # 0 => Len(taken') < MaxTaken)
      /\ backup' \in Seq(Code)
      /\ mode = "strings" => backup' = taken'
  BY <1>1, <1>2, <1>3, TakenTypes
<1>5. /\ taken' # <<>> /\ (Negative(taken') <=> Negative(taken))
      /\ ~HasPoint(taken') /\ ~HasExponent(taken')
      /\ FractionPart(taken') = <<>> /\ FractionPart(taken) = <<>>
  BY <1>1, <1>2, <1>4, TakeLetter
<1>6. ~NoLetters'
  BY DEF NoLetters
<1>7. NumberTypes'
  BY <1>2, <1>4, <1>5 DEF NumberTypes, PlaceNames, BeforePoint, Negative
<1>8. PlaceInv'
  BY <1>5 DEF PlaceInv, BeforePoint, InFraction, InExponent, Begun
<1>9. KindInv'
  BY <1>1, <1>5 DEF KindInv, InExponent
<1>10. IntegerInv'
  BY <1>6 DEF IntegerInv
<1>11. ValueInv'
  BY <1>5, <1>6 DEF NumberInv, ValueInv
<1>12. BackupInv'
  BY <1>4, <1>6 DEF BackupInv
<1>13. ExponentInv'
  BY <1>1 DEF ExponentInv
<1>14. EventInv'
  BY DEF EventInv
<1> QED
  BY <1>7, <1>8, <1>9, <1>10, <1>11, <1>12, <1>13, <1>14 DEF NumberInv

\* A number begins with a digit or with a letter, or it is an error.
LEMMA FirstKeeps == NumberInv /\ First => NumberInv'
<1> SUFFICES ASSUME NumberInv, First PROVE NumberInv'
  OBVIOUS
<1>1. at = "first" /\ ~nanOrInf
  BY DEF First, NumberInv, PlaceInv, Begun
<1>2. CASE IsDigit
  BY <1>1, <1>2, FirstDigitKeeps
<1>3. CASE next \in {NaN[1], Inf[1]} /\ ~IsDigit
  <2>1. /\ TakeChar(FALSE) /\ at' = "word"
        /\ word' = Tail(IF next = NaN[1] THEN NaN ELSE Inf)
        /\ nanOrInf' = nanOrInf /\ minus' = minus /\ sig' = sig /\ kind' = kind
        /\ significandDigit' = significandDigit /\ expFrac' = expFrac /\ exp' = exp
        /\ expMinus' = expMinus /\ decimalPosition' = decimalPosition
        /\ mode' = mode /\ targetSize' = targetSize
    BY <1>3 DEF First, Fixed
  <2>2. next \in Letter
    <3>1. next \in {78, 73}
      BY <1>3, WordsAreLetters
    <3> QED
      BY <3>1 DEF Letter, Code, Point, Minus, Exponent
  <2>3. word' \in Seq(Letter) /\ word' # <<>>
    <3>1. \E w \in {NaN, Inf} : word' = Tail(w)
      BY <2>1
    <3> QED
      BY <3>1, WordsAreLetters
  <2>4. nanOrInf' \in BOOLEAN
    BY <2>1 DEF NumberInv, NumberTypes
  <2> QED
    BY <1>1, <2>1, <2>2, <2>3, <2>4, LetterKeeps
<1>4. CASE next \notin {NaN[1], Inf[1]} /\ ~IsDigit
  <2>1. NumberError("ValueInvalid")
    BY <1>4 DEF First
  <2> QED
    BY <2>1, ErrorKeeps
<1> QED
  BY <1>2, <1>3, <1>4

\* A letter of NaN, Inf and Infinity is taken, or the word ends in an error.
LEMMA WordKeeps == NumberInv /\ Word => NumberInv'
<1> SUFFICES ASSUME NumberInv, Word PROVE NumberInv'
  OBVIOUS
<1>1. at = "word" /\ word \in Seq(Letter) /\ word # <<>>
  BY DEF Word, NumberInv, PlaceInv, NumberTypes
<1>2. CASE next = word[1]
  <2>1. /\ TakeChar(FALSE) /\ word' = Tail(word)
        /\ at' = IF word' # <<>> THEN "word" ELSE IF next = Inf[3] THEN "inity" ELSE "point"
        /\ nanOrInf' = (nanOrInf \/ word' = <<>>)
        /\ minus' = minus /\ sig' = sig /\ kind' = kind
        /\ significandDigit' = significandDigit /\ expFrac' = expFrac /\ exp' = exp
        /\ expMinus' = expMinus /\ decimalPosition' = decimalPosition
        /\ mode' = mode /\ targetSize' = targetSize
    BY <1>2 DEF Word, Fixed
  <2>2. next \in Letter
    <3>1. 1 \in 1 .. Len(word)
      BY <1>1, EmptySeq
    <3> QED
      BY <1>1, <1>2, <3>1, ElementOfSeq
  <2>3. word' \in Seq(Letter)
    BY <1>1, <2>1, HeadTailProperties
  <2>4. nanOrInf' \in BOOLEAN
    BY <2>1
  <2>5. at' \in {"word", "inity", "point"} /\ (at' = "word" => word' # <<>>)
    BY <2>1
  <2>6. at' # "word" => nanOrInf'
    BY <2>1
  <2> QED
    BY <1>1, <2>1, <2>2, <2>3, <2>4, <2>5, <2>6, LetterKeeps
<1>3. CASE next # word[1]
  <2>1. NumberError("ValueInvalid")
    BY <1>3 DEF Word
  <2> QED
    BY <2>1, ErrorKeeps
<1> QED
  BY <1>2, <1>3

\* A step that takes no character, to a place before the point.
LEMMA InfinityKeeps == NumberInv /\ Infinity => NumberInv'
<1> SUFFICES ASSUME NumberInv, Infinity PROVE NumberInv'
  OBVIOUS
<1>1. /\ at = "inity" /\ at' = (IF next = Inity[1] THEN "word" ELSE "point")
      /\ word' = (IF next = Inity[1] THEN Inity ELSE <<>>)
      /\ taken' = taken /\ next' = next /\ backup' = backup
      /\ minus' = minus /\ sig' = sig /\ kind' = kind /\ nanOrInf' = nanOrInf
      /\ significandDigit' = significandDigit /\ expFrac' = expFrac /\ exp' = exp
      /\ expMinus' = expMinus /\ decimalPosition' = decimalPosition
      /\ mode' = mode /\ targetSize' = targetSize
  BY DEF Infinity, Stay, Fixed
<1>2. nanOrInf /\ kind = "32"
  BY <1>1 DEF NumberInv, KindInv
<1>3. word' \in Seq(Letter) /\ (at' = "word" => word' # <<>>)
  BY <1>1, WordsAreLetters, EmptySeq
<1>4. ~NoLetters'
  BY <1>1, <1>2 DEF NoLetters
<1>5. NumberTypes'
  BY <1>1, <1>3 DEF NumberInv, NumberTypes, PlaceNames, BeforePoint
<1>6. PlaceInv'
  BY <1>1, <1>3 DEF NumberInv, PlaceInv, BeforePoint, InFraction, InExponent, Begun
<1>7. KindInv'
  BY <1>1, <1>2 DEF KindInv, InExponent
<1>8. IntegerInv'
  BY <1>4 DEF IntegerInv
<1>9. ValueInv'
  BY <1>1, <1>4 DEF NumberInv, ValueInv
<1>10. BackupInv'
  BY <1>1, <1>4 DEF NumberInv, BackupInv
<1>11. ExponentInv'
  BY <1>1 DEF NumberInv, PlaceInv, ExponentInv, BeforePoint
<1>12. EventInv'
  BY <1>1 DEF EventInv
<1> QED
  BY <1>5, <1>6, <1>7, <1>8, <1>9, <1>10, <1>11, <1>12 DEF NumberInv

\* What an action leaves that takes no character.
Staying ==
  /\ mode' = mode /\ targetSize' = targetSize
  /\ taken' = taken /\ next' = next /\ backup' = backup
  /\ minus' = minus /\ sig' = sig /\ word' = word /\ nanOrInf' = nanOrInf
  /\ significandDigit' = significandDigit /\ expFrac' = expFrac /\ exp' = exp

\* What takes no character and leaves the accumulator keeps the types.
LEMMA StayingTypes ==
  ASSUME NumberTypes, Staying, at' \in PlaceNames, kind' \in {"32", "64", "double"},
         expMinus' \in BOOLEAN, decimalPosition' \in Nat
  PROVE  NumberTypes'
BY DEF NumberTypes, Staying

\* Another digit of an integer that is in the accumulator.
LEMMA IntegerDigitKeeps ==
  ASSUME NumberInv, IsDigit, TakeChar(TRUE), at \in {"narrow", "wide", "big"}, at' = at,
         sig' = sig * 10 + Digit, significandDigit' \in Nat,
         at = "narrow" => sig * 10 + Digit <= Limit(Narrow),
         at = "wide" => sig * 10 + Digit <= Limit(Wide),
         kind' = kind, minus' = minus, word' = word, nanOrInf' = nanOrInf,
         expFrac' = expFrac, exp' = exp, expMinus' = expMinus, decimalPosition' = decimalPosition,
         mode' = mode, targetSize' = targetSize
  PROVE  NumberInv'
<1>1. /\ ~HasPoint(taken) /\ ~HasExponent(taken) /\ ~nanOrInf /\ exp = 0
      /\ at = "narrow" => kind = "32"
      /\ at = "wide" => kind = "64"
      /\ at = "big" => kind = "double"
      /\ mode = "strings" => backup = taken
      /\ mode = "full" => backup = Written(taken)
  BY DEF NumberInv, PlaceInv, KindInv, ExponentInv, BackupInv, BeforePoint, Begun, NoLetters
<1>2. NumberTypes /\ taken \in Seq(Code) /\ sig \in Nat /\ expFrac \in Int
  BY DEF NumberInv, NumberTypes
<1>3. next \in DigitCode /\ next # 0 /\ Digit \in 0 .. 9 /\ Digit = next - 48
  BY DEF IsDigit, DigitCode, Digit
<1>4. /\ taken' = Append(taken, next) /\ next' \in NumberChars \cup {0} /\ next' \in Nat
      /\ taken' \in Seq(Code) /\ Len(taken') <= MaxTaken /\ (next' # 0 => Len(taken') < MaxTaken)
      /\ backup' \in Seq(Code)
      /\ mode = "strings" => backup' = taken'
      /\ mode = "full" => backup' = Append(backup, next)
  BY <1>1, <1>2, <1>3, TakenTypes
<1>5. /\ taken' # <<>> /\ (Negative(taken') <=> Negative(taken))
      /\ ~HasPoint(taken') /\ ~HasExponent(taken') /\ FractionPart(taken') = <<>>
      /\ Written(taken') = Append(Written(taken), next)
      /\ Number(Kept(taken', 0)) = Number(Kept(taken, 0)) * 10 + (next - 48)
  BY <1>1, <1>2, <1>3, <1>4, TakeIntegerDigit
<1>6. expFrac = 0 /\ sig = Number(Kept(taken, 0)) /\ sig > 0
  <2>1. Len(FractionPart(taken)) = 0
    <3>1. FractionPart(taken) = <<>>
      BY <1>1 DEF FractionPart
    <3>2. Len(<<>>) = 0
      BY EmptySeq
    <3> QED
      BY <3>1, <3>2, Zenon
  <2>2. expFrac <= 0 /\ 0 - expFrac <= Len(FractionPart(taken))
    BY DEF NumberInv, ValueInv
  <2>3. expFrac = 0
    BY <1>2, <2>1, <2>2
  <2>4. NoLetters
    BY <1>1 DEF NoLetters
  <2>5. sig = Number(Kept(taken, 0 - expFrac)) /\ sig > 0
    BY <2>4 DEF NumberInv, ValueInv
  <2>6. 0 - expFrac = 0
    BY <2>3
  <2> QED
    BY <2>3, <2>5, <2>6
<1>7. sig' \in Nat /\ sig' > sig
  <2>1. sig \in Nat /\ sig > 0 /\ Digit \in 0 .. 9
    BY <1>2, <1>3, <1>6
  <2> HIDE DEF Digit
  <2>2. sig * 10 + Digit \in Nat /\ sig * 10 + Digit > sig
    BY <2>1
  <2> QED
    BY <2>2
<1>8. NumberTypes'
  BY <1>2, <1>4, <1>5, <1>7 DEF NumberTypes, PlaceNames, BeforePoint, Negative
<1>9. PlaceInv'
  BY <1>5 DEF PlaceInv, BeforePoint, InFraction, InExponent, Begun
<1>10. KindInv'
  BY <1>1, <1>5 DEF NumberInv, KindInv, InExponent
<1>11. IntegerInv'
  <2>1. Limit(Narrow)' = Limit(Narrow) /\ Limit(Wide)' = Limit(Wide)
    BY DEF Limit
  <2>2. /\ Limit(Narrow) \in Nat /\ Limit(Wide) \in Nat
    BY Limits
  <2>3. /\ kind = "64" => sig > Limit(Narrow) \/ sig * 10 + Digit > Limit(Narrow)
        /\ kind = "double" => sig > Limit(Wide) \/ sig * 10 + Digit > Limit(Wide)
    BY <1>1 DEF NumberInv, IntegerInv, NoLetters, Exceeds
  <2>4. /\ kind = "64" => sig' > Limit(Narrow)
        /\ kind = "double" => sig' > Limit(Wide)
    BY <1>2, <1>3, <1>7, <2>2, <2>3
  <2>5. /\ kind = "32" => sig' <= Limit(Narrow)
        /\ kind = "64" => sig' <= Limit(Wide)
    BY <1>1
  <2> QED
    BY <2>1, <2>4, <2>5 DEF IntegerInv, Exceeds
<1>12. ValueInv'
  <2>1. Len(FractionPart(taken')) = 0
    <3>1. Len(<<>>) = 0
      BY EmptySeq
    <3> QED
      BY <1>5, <3>1, Zenon
  <2>2. expFrac' = 0 /\ 0 - expFrac' = 0
    BY <1>6
  <2>3. sig' = Number(Kept(taken', 0))
    BY <1>3, <1>5, <1>6
  <2>4. sig' > 0
    BY <1>2, <1>7
  <2> QED
    BY <2>1, <2>2, <2>3, <2>4 DEF ValueInv
<1>13. BackupInv'
  BY <1>1, <1>4, <1>5 DEF BackupInv, BeforePoint
<1>14. ExponentInv'
  BY <1>1, <1>5 DEF ExponentInv
<1>15. EventInv'
  BY DEF EventInv
<1> QED
  BY <1>8, <1>9, <1>10, <1>11, <1>12, <1>13, <1>14, <1>15 DEF NumberInv

\* The accumulator is widened for another digit, or the integer has ended.
LEMMA IntegerTurnKeeps ==
  ASSUME NumberInv, Staying, expMinus' = expMinus, decimalPosition' = decimalPosition,
         \/ /\ at = "narrow" /\ at' = "wide" /\ kind' = "64"
            /\ IsDigit /\ sig * 10 + Digit > Limit(Narrow)
         \/ /\ at = "wide" /\ at' = "big" /\ kind' = "double"
            /\ IsDigit /\ sig * 10 + Digit > Limit(Wide)
         \/ at \in {"narrow", "wide", "big"} /\ at' = "point" /\ kind' = kind /\ ~IsDigit
  PROVE  NumberInv'
<1>1. /\ ~HasPoint(taken) /\ ~HasExponent(taken) /\ ~nanOrInf /\ exp = 0
      /\ at = "narrow" => kind = "32"
      /\ at = "wide" => kind = "64"
      /\ at = "big" => kind = "double"
  BY DEF NumberInv, PlaceInv, KindInv, ExponentInv, BeforePoint, Begun, NoLetters
<1>2. /\ kind' \in {"32", "64", "double"} /\ expMinus' \in BOOLEAN /\ decimalPosition' \in Nat
      /\ NumberTypes
  BY DEF NumberInv, NumberTypes
<1>3. at' \in {"wide", "big", "point"} /\ at \in BeforePoint /\ NoLetters
  BY <1>1 DEF BeforePoint, NoLetters
<1>4. taken' = taken /\ next' = next /\ sig' = sig /\ minus' = minus /\ exp' = exp /\ mode' = mode
  BY DEF Staying
<1>5. NumberTypes'
  <2>1. at' \in PlaceNames
    BY <1>3 DEF PlaceNames, BeforePoint
  <2> QED
    BY <1>2, <2>1, StayingTypes
<1>6. PlaceInv'
  BY <1>1, <1>3, <1>4 DEF PlaceInv, BeforePoint, InFraction, InExponent, Begun
<1>7. KindInv'
  BY <1>1, <1>3, <1>4 DEF KindInv, InExponent, Staying
<1>8. IntegerInv'
  <2>1. /\ Limit(Narrow)' = Limit(Narrow) /\ Limit(Wide)' = Limit(Wide)
        /\ Digit' = Digit /\ IsDigit' = IsDigit
    BY <1>4 DEF Limit, Digit, IsDigit
  <2>2. /\ kind = "32" => sig <= Limit(Narrow)
        /\ kind = "64" => sig <= Limit(Wide) /\ Exceeds(Narrow)
        /\ kind = "double" => Exceeds(Wide)
    BY <1>1, <1>3 DEF NumberInv, IntegerInv
  <2>3. CASE at' = "wide"
    <3>1. sig <= Limit(Wide) /\ sig * 10 + Digit > Limit(Narrow) /\ IsDigit /\ kind' = "64"
      BY <1>1, <1>2, <2>2, <2>3, Limits DEF NumberTypes
    <3> QED
      BY <1>4, <2>1, <2>3, <3>1 DEF IntegerInv, Exceeds
  <2>4. CASE at' = "big"
    <3>1. sig * 10 + Digit > Limit(Wide) /\ IsDigit /\ kind' = "double"
      BY <2>4
    <3> QED
      BY <1>4, <2>1, <2>4, <3>1 DEF IntegerInv, Exceeds
  <2>5. CASE at' = "point"
    <3>1. kind' = kind /\ ~IsDigit
      BY <2>5
    <3>2. /\ kind = "64" => sig > Limit(Narrow)
          /\ kind = "double" => sig > Limit(Wide)
      BY <2>2, <3>1 DEF Exceeds
    <3> QED
      BY <1>4, <2>1, <2>2, <2>5, <3>1, <3>2 DEF IntegerInv, Exceeds
  <2> QED
    BY <1>3, <2>3, <2>4, <2>5
<1>9. ValueInv'
  BY <1>3, <1>4 DEF NumberInv, ValueInv, Staying
<1>10. BackupInv'
  BY <1>3, <1>4 DEF NumberInv, BackupInv, Staying, BeforePoint
<1>11. ExponentInv'
  BY <1>1, <1>3, <1>4 DEF ExponentInv
<1>12. EventInv'
  BY <1>3 DEF EventInv
<1> QED
  BY <1>5, <1>6, <1>7, <1>8, <1>9, <1>10, <1>11, <1>12 DEF NumberInv

\* The digits of an integer in 32 and 64 bits, until one does not fit.
LEMMA DigitsKeep ==
  ASSUME NumberInv, NarrowDigits \/ WideDigits
  PROVE  NumberInv'
<1>1. sig \in Nat /\ significandDigit \in Nat /\ next \in Nat
  <2>1. NumberChars \cup {0} \subseteq Nat
    BY NumberAssumption
  <2> QED
    BY <2>1 DEF NumberInv, NumberTypes
<1>2. Limit(Narrow) \in Nat /\ Limit(Wide) \in Nat
  BY Limits
<1>3. ASSUME NEW place, NEW width, NEW wider, NEW then, Digits(place, width, wider, then),
             \/ place = "narrow" /\ width = Narrow /\ wider = "64" /\ then = "wide"
             \/ place = "wide" /\ width = Wide /\ wider = "double" /\ then = "big"
      PROVE  NumberInv'
  <2>1. /\ at = place /\ minus' = minus /\ word' = word /\ nanOrInf' = nanOrInf
        /\ expFrac' = expFrac /\ exp' = exp /\ expMinus' = expMinus
        /\ decimalPosition' = decimalPosition /\ mode' = mode /\ targetSize' = targetSize
    BY <1>3 DEF Digits, Fixed
  <2>2. CASE IsDigit /\ Outgrows(width)
    <3>1. /\ kind' = wider /\ at' = then /\ taken' = taken /\ next' = next /\ backup' = backup
          /\ sig' = sig /\ significandDigit' = significandDigit
      BY <1>3, <2>2 DEF Digits, Stay
    <3>2. Staying
      BY <2>1, <3>1 DEF Staying
    <3>3. sig * 10 + Digit > Limit(width)
      BY <1>1, <1>2, <1>3, <2>2, OutgrowsIs
    <3> QED
      BY <1>3, <2>1, <2>2, <3>1, <3>2, <3>3, IntegerTurnKeeps
  <2>3. CASE IsDigit /\ ~Outgrows(width)
    <3>1. /\ sig' = sig * 10 + Digit /\ significandDigit' = significandDigit + 1
          /\ TakeChar(TRUE) /\ kind' = kind /\ at' = at
      BY <1>3, <2>3 DEF Digits
    <3>2. ~ (sig * 10 + Digit > Limit(width))
      BY <1>1, <1>2, <1>3, <2>3, OutgrowsIs
    <3>3. sig * 10 + Digit \in Nat
      BY <1>1, <2>3 DEF IsDigit, Digit
    <3>4. /\ at = "narrow" => sig * 10 + Digit <= Limit(Narrow)
          /\ at = "wide" => sig * 10 + Digit <= Limit(Wide)
      BY <1>2, <1>3, <2>1, <3>2, <3>3
    <3>5. significandDigit' \in Nat
      BY <1>1, <3>1
    <3> QED
      BY <1>3, <2>1, <2>3, <3>1, <3>4, <3>5, IntegerDigitKeeps
  <2>4. CASE ~IsDigit
    <3>1. /\ at' = "point" /\ taken' = taken /\ next' = next /\ backup' = backup
          /\ sig' = sig /\ significandDigit' = significandDigit /\ kind' = kind
      BY <1>3, <2>4 DEF Digits, Stay
    <3>2. Staying
      BY <2>1, <3>1 DEF Staying
    <3> QED
      BY <1>3, <2>1, <2>4, <3>1, <3>2, IntegerTurnKeeps
  <2> QED
    BY <2>2, <2>3, <2>4
<1> QED
  BY <1>3 DEF NarrowDigits, WideDigits

\* The digits of an integer that is a double.
LEMMA BigDigitsKeep == NumberInv /\ BigDigits => NumberInv'
<1> SUFFICES ASSUME NumberInv, BigDigits PROVE NumberInv'
  OBVIOUS
<1>1. /\ at = "big" /\ minus' = minus /\ word' = word /\ nanOrInf' = nanOrInf /\ kind' = kind
      /\ significandDigit' = significandDigit
      /\ expFrac' = expFrac /\ exp' = exp /\ expMinus' = expMinus
      /\ decimalPosition' = decimalPosition /\ mode' = mode /\ targetSize' = targetSize
  BY DEF BigDigits, Fixed
<1>2. CASE IsDigit
  <2>1. sig' = sig * 10 + Digit /\ TakeChar(TRUE) /\ at' = at
    BY <1>2 DEF BigDigits
  <2>2. significandDigit' \in Nat
    BY <1>1 DEF NumberInv, NumberTypes
  <2> QED
    BY <1>1, <1>2, <2>1, <2>2, IntegerDigitKeeps
<1>3. CASE ~IsDigit
  <2>1. at' = "point" /\ taken' = taken /\ next' = next /\ backup' = backup /\ sig' = sig
    BY <1>3 DEF BigDigits, Stay
  <2>2. Staying
    BY <1>1, <2>1 DEF Staying
  <2> QED
    BY <1>1, <1>3, <2>1, <2>2, IntegerTurnKeeps
<1> QED
  BY <1>2, <1>3

\* Before the point there is no fraction.
LEMMA IntegerOnly ==
  ASSUME NumberInv, ~HasPoint(taken)
  PROVE  /\ expFrac = 0 /\ 0 - expFrac = 0
         /\ FractionPart(taken) = <<>> /\ Len(FractionPart(taken)) = 0
         /\ Written(taken) = IntegerPart(taken)
         /\ NoLetters => sig = Number(Kept(taken, 0))
<1>1. taken \in Seq(Code) /\ expFrac \in Int
  BY DEF NumberInv, NumberTypes
<1>2. FractionPart(taken) = <<>>
  BY DEF FractionPart
<1>3. Len(FractionPart(taken)) = 0
  <2>1. Len(<<>>) = 0
    BY EmptySeq
  <2> QED
    BY <1>2, <2>1, Zenon
<1>4. expFrac <= 0 /\ 0 - expFrac <= Len(FractionPart(taken))
  BY DEF NumberInv, ValueInv
<1>5. expFrac = 0 /\ 0 - expFrac = 0
  BY <1>1, <1>3, <1>4
<1>6. NoLetters => sig = Number(Kept(taken, 0 - expFrac))
  BY DEF NumberInv, ValueInv
<1>7. Written(taken) = IntegerPart(taken)
  BY <1>1, <1>2, KeptInteger
<1> QED
  BY <1>2, <1>3, <1>5, <1>6, <1>7

\* The point is taken, or there is none.
LEMMA DecimalPointKeeps == NumberInv /\ DecimalPoint => NumberInv'
<1> SUFFICES ASSUME NumberInv, DecimalPoint PROVE NumberInv'
  OBVIOUS
<1>1. /\ at = "point" /\ decimalPosition' = Len(backup')
      /\ minus' = minus /\ sig' = sig /\ kind' = kind /\ word' = word /\ nanOrInf' = nanOrInf
      /\ significandDigit' = significandDigit /\ expFrac' = expFrac /\ exp' = exp
      /\ expMinus' = expMinus /\ mode' = mode /\ targetSize' = targetSize
  BY DEF DecimalPoint, Fixed
<1>2. /\ ~HasPoint(taken) /\ ~HasExponent(taken) /\ exp = 0
      /\ nanOrInf => kind = "32"
      /\ mode = "strings" => backup = taken
      /\ mode = "full" /\ NoLetters => backup = Written(taken)
  BY <1>1 DEF NumberInv, PlaceInv, KindInv, ExponentInv, BackupInv, BeforePoint, Begun
<1>3. /\ expFrac = 0 /\ 0 - expFrac = 0
      /\ FractionPart(taken) = <<>> /\ Len(FractionPart(taken)) = 0
      /\ Written(taken) = IntegerPart(taken)
      /\ NoLetters => sig = Number(Kept(taken, 0))
  BY <1>2, IntegerOnly
<1>4. NumberTypes /\ taken \in Seq(Code) /\ backup \in Seq(Code)
  BY DEF NumberInv, NumberTypes
<1>5. NoLetters <=> ~nanOrInf
  BY <1>1 DEF NoLetters
<1>6. CASE next = Point
  <2>1. TakeChar(FALSE) /\ at' = "fraction"
    BY <1>6 DEF DecimalPoint
  <2>2. next # 0
    BY <1>6 DEF Point
  <2>3. /\ taken' = Append(taken, Point) /\ next' \in NumberChars \cup {0}
        /\ taken' \in Seq(Code) /\ Len(taken') <= MaxTaken /\ (next' # 0 => Len(taken') < MaxTaken)
        /\ backup' \in Seq(Code) /\ Len(backup') \in Nat
        /\ mode = "strings" => backup' = taken'
        /\ mode = "full" => backup' = backup
    BY <1>2, <1>4, <1>6, <2>1, <2>2, TakenTypes, LenProperties
  <2>4. /\ taken' # <<>> /\ (Negative(taken') <=> Negative(taken))
        /\ HasPoint(taken') /\ ~HasExponent(taken') /\ FractionPart(taken') = <<>>
        /\ IntegerPart(taken') = IntegerPart(taken) /\ Written(taken') = Written(taken)
        /\ Kept(taken', 0) = Kept(taken, 0)
    BY <1>2, <1>4, <2>3, TakePoint
  <2>5. NoLetters' <=> NoLetters
    BY <1>1, <1>5, <2>1 DEF NoLetters
  <2>6. NumberTypes'
    BY <1>1, <1>4, <2>1, <2>3, <2>4 DEF NumberTypes, PlaceNames, InFraction, Negative
  <2>7. PlaceInv'
    BY <2>1, <2>4 DEF PlaceInv, BeforePoint, InFraction, InExponent, Begun
  <2>8. KindInv'
    BY <1>1, <2>1, <2>4 DEF KindInv, InExponent
  <2>9. IntegerInv'
    BY <2>4 DEF IntegerInv
  <2>10. ValueInv'
    <3>1. Len(FractionPart(taken')) = 0
      BY <1>3, <2>4, Zenon
    <3>2. significandDigit > 0 => (NoLetters => sig > 0)
      BY DEF NumberInv, ValueInv
    <3>3. expFrac' = 0 /\ 0 - expFrac' = 0
      BY <1>1, <1>3
    <3>4. NoLetters' => sig' = Number(Kept(taken', 0))
      BY <1>1, <1>3, <2>4, <2>5
    <3> QED
      BY <1>1, <2>1, <2>5, <3>1, <3>2, <3>3, <3>4 DEF ValueInv
  <2>11. BackupInv'
    BY <1>1, <1>2, <1>3, <2>1, <2>3, <2>4, <2>5 DEF BackupInv
  <2>12. ExponentInv'
    BY <1>1, <1>2, <2>1, <2>4 DEF ExponentInv
  <2>13. EventInv'
    BY <2>1 DEF EventInv
  <2> QED
    BY <2>6, <2>7, <2>8, <2>9, <2>10, <2>11, <2>12, <2>13 DEF NumberInv
<1>7. CASE next # Point
  <2>1. at' = "e" /\ taken' = taken /\ next' = next /\ backup' = backup
    BY <1>7 DEF DecimalPoint, Stay
  <2>2. Staying
    BY <1>1, <2>1 DEF Staying
  <2>3. NoLetters' <=> NoLetters
    BY <1>1, <1>5, <2>1 DEF NoLetters
  <2>4. Len(backup) \in Nat
    BY <1>4, LenProperties
  <2>5. NumberTypes'
    BY <1>1, <1>4, <2>1, <2>2, <2>4 DEF NumberTypes, PlaceNames
  <2>6. PlaceInv'
    BY <1>2, <2>1 DEF PlaceInv, BeforePoint, InFraction, InExponent, Begun
  <2>7. KindInv'
    BY <1>1, <1>2, <2>1 DEF KindInv, InExponent
  <2>8. IntegerInv'
    <3>1. /\ Limit(Narrow)' = Limit(Narrow) /\ Limit(Wide)' = Limit(Wide)
      BY <1>1 DEF Limit
    <3> QED
      BY <1>1, <2>1, <2>3, <3>1 DEF NumberInv, IntegerInv, Exceeds
  <2>9. ValueInv'
    BY <1>1, <2>1, <2>3 DEF NumberInv, ValueInv
  <2>10. BackupInv'
    BY <1>1, <1>2, <1>3, <2>1, <2>3 DEF BackupInv
  <2>11. ExponentInv'
    BY <1>1, <1>2, <2>1 DEF ExponentInv
  <2>12. EventInv'
    BY <2>1 DEF EventInv
  <2> QED
    BY <2>5, <2>6, <2>7, <2>8, <2>9, <2>10, <2>11, <2>12 DEF NumberInv
<1> QED
  BY <1>6, <1>7

\* A step inside a fraction that takes no character.
LEMMA FractionTurnKeeps ==
  ASSUME NumberInv, Staying, expMinus' = expMinus, decimalPosition' = decimalPosition,
         \/ at = "fraction" /\ at' = "fractionFast" /\ kind' = kind
         \/ at = "fraction" /\ at' = "fractionDouble" /\ kind' = kind /\ kind = "double"
         \/ at = "fractionFast" /\ at' = "fractionDouble" /\ kind' = "double"
         \/ at = "fractionDouble" /\ at' = "e" /\ kind' = kind /\ kind = "double"
  PROVE  NumberInv'
<1>1. HasPoint(taken) /\ ~HasExponent(taken) /\ exp = 0
  BY DEF NumberInv, PlaceInv, ExponentInv, InFraction
<1>2. /\ kind' \in {"32", "64", "double"} /\ expMinus' \in BOOLEAN /\ decimalPosition' \in Nat
      /\ NumberTypes
  BY DEF NumberInv, NumberTypes
<1>3. /\ taken' = taken /\ sig' = sig /\ minus' = minus /\ exp' = exp /\ mode' = mode
      /\ nanOrInf' = nanOrInf /\ significandDigit' = significandDigit /\ expFrac' = expFrac
      /\ backup' = backup
  BY DEF Staying
<1>4. /\ at' \in {"fractionFast", "fractionDouble", "e"}
      /\ at \in {"fraction", "fractionFast", "fractionDouble"}
      /\ at' # "fractionFast" => kind' = "double"
      /\ at' = "fractionFast" => at = "fraction"
  OBVIOUS
<1>5. NoLetters' <=> NoLetters
  BY <1>3, <1>4 DEF NoLetters
<1>6. NumberTypes'
  <2>1. at' \in PlaceNames
    BY <1>4 DEF PlaceNames, InFraction
  <2> QED
    BY <1>2, <2>1, StayingTypes
<1>7. PlaceInv'
  BY <1>1, <1>3, <1>4 DEF PlaceInv, BeforePoint, InFraction, InExponent, Begun
<1>8. KindInv'
  BY <1>1, <1>3, <1>4 DEF KindInv, InExponent
<1>9. IntegerInv'
  BY <1>1, <1>3 DEF IntegerInv
<1>10. ValueInv'
  BY <1>3, <1>4, <1>5 DEF NumberInv, ValueInv
<1>11. BackupInv'
  <2>1. at \notin BeforePoint
    BY <1>4 DEF BeforePoint, Begun
  <2> QED
    BY <1>3, <1>5, <2>1 DEF NumberInv, BackupInv
<1>12. ExponentInv'
  BY <1>1, <1>3, <1>4 DEF ExponentInv
<1>13. EventInv'
  BY <1>4 DEF EventInv
<1> QED
  BY <1>6, <1>7, <1>8, <1>9, <1>10, <1>11, <1>12, <1>13 DEF NumberInv

\* A fraction begins with a digit, or it is an error.
LEMMA FirstOfFractionKeeps == NumberInv /\ FirstOfFraction => NumberInv'
<1> SUFFICES ASSUME NumberInv, FirstOfFraction PROVE NumberInv'
  OBVIOUS
<1>1. CASE ~IsDigit
  <2>1. NumberError("NumberMissFraction")
    BY <1>1 DEF FirstOfFraction
  <2> QED
    BY <2>1, ErrorKeeps
<1>2. CASE IsDigit
  <2>1. /\ at = "fraction" /\ at' = IF kind = "double" THEN "fractionDouble" ELSE "fractionFast"
        /\ kind' = kind /\ expMinus' = expMinus /\ decimalPosition' = decimalPosition
        /\ Staying
    BY <1>2 DEF FirstOfFraction, Staying, Stay, Fixed
  <2> QED
    BY <2>1, FractionTurnKeeps
<1> QED
  BY <1>1, <1>2

\* A digit of a fraction, with and without its value.
LEMMA FractionDigitKeeps ==
  ASSUME NumberInv, IsDigit, TakeChar(TRUE), at \in {"fractionFast", "fractionDouble"}, at' = at,
         \/ /\ at = "fractionFast" \/ significandDigit < MaxDigits
            /\ sig' = sig * 10 + Digit /\ expFrac' = expFrac - 1
            /\ significandDigit' = significandDigit + (IF sig' > 0 THEN 1 ELSE 0)
         \/ /\ at = "fractionDouble" /\ significandDigit >= MaxDigits
            /\ sig' = sig /\ expFrac' = expFrac /\ significandDigit' = significandDigit,
         kind' = kind, minus' = minus, word' = word, nanOrInf' = nanOrInf,
         exp' = exp, expMinus' = expMinus, decimalPosition' = decimalPosition,
         mode' = mode, targetSize' = targetSize
  PROVE  NumberInv'
<1> DEFINE k == 0 - expFrac
<1>1. /\ HasPoint(taken) /\ ~HasExponent(taken) /\ exp = 0
      /\ at = "fractionDouble" => kind = "double"
      /\ mode = "strings" => backup = taken
      /\ mode = "full" /\ NoLetters =>
           backup = Written(taken) /\ decimalPosition = Len(IntegerPart(taken))
  <2>1. at \notin BeforePoint
    BY DEF BeforePoint, Begun
  <2> QED
    BY <2>1 DEF NumberInv, PlaceInv, KindInv, ExponentInv, BackupInv, InFraction
<1>2. /\ NumberTypes /\ taken \in Seq(Code) /\ sig \in Nat /\ significandDigit \in Nat
      /\ expFrac \in Int
  BY DEF NumberInv, NumberTypes
<1>3. next \in DigitCode /\ next # 0 /\ Digit \in 0 .. 9 /\ Digit = next - 48
  BY DEF IsDigit, DigitCode, Digit
<1>4. /\ expFrac <= 0 /\ 0 - expFrac <= Len(FractionPart(taken))
      /\ NoLetters =>
           /\ sig = Number(Kept(taken, 0 - expFrac))
           /\ 0 - expFrac = Len(FractionPart(taken)) \/ significandDigit >= MaxDigits
           /\ at = "fractionFast" => 0 - expFrac = Len(FractionPart(taken))
           /\ significandDigit > 0 => sig > 0
  BY DEF NumberInv, ValueInv
<1>5. k \in Nat /\ k <= Len(FractionPart(taken)) /\ MaxDigits \in Nat
  BY <1>2, <1>4, NumberAssumption
<1> HIDE DEF k
<1>6. Len(FractionPart(taken)) \in Nat
  BY <1>2, <1>5, KeptType
<1>7. /\ taken' = Append(taken, next) /\ next' \in NumberChars \cup {0}
      /\ taken' \in Seq(Code) /\ Len(taken') <= MaxTaken /\ (next' # 0 => Len(taken') < MaxTaken)
      /\ backup' \in Seq(Code)
      /\ mode = "strings" => backup' = taken'
      /\ mode = "full" => backup' = Append(backup, next)
  BY <1>1, <1>2, <1>3, TakenTypes
<1>8. /\ taken' # <<>> /\ (Negative(taken') <=> Negative(taken))
      /\ HasPoint(taken') /\ ~HasExponent(taken')
      /\ IntegerPart(taken') = IntegerPart(taken) /\ Written(taken') = Append(Written(taken), next)
      /\ Len(FractionPart(taken')) = Len(FractionPart(taken)) + 1
      /\ Kept(taken', k) = Kept(taken, k)
      /\ k = Len(FractionPart(taken)) =>
           Number(Kept(taken', k + 1)) = Number(Kept(taken, k)) * 10 + (next - 48)
  BY <1>1, <1>2, <1>3, <1>5, <1>7, TakeFractionDigit
<1>9. NoLetters' <=> NoLetters
  BY DEF NoLetters
<1>10. /\ sig' \in Nat /\ significandDigit' \in Nat /\ expFrac' \in Int /\ expFrac' <= 0
       /\ 0 - expFrac' <= Len(FractionPart(taken'))
       /\ significandDigit >= MaxDigits => significandDigit' >= MaxDigits
       /\ sig > 0 => sig' > 0
       /\ significandDigit' > 0 => sig' > 0 \/ significandDigit > 0
  <2> HIDE DEF Digit
  <2>1. CASE sig' = sig * 10 + Digit /\ expFrac' = expFrac - 1
             /\ significandDigit' = significandDigit + (IF sig' > 0 THEN 1 ELSE 0)
    <3>1. sig' \in Nat /\ (sig > 0 => sig' > 0)
      BY <1>2, <1>3, <2>1
    <3>2. /\ significandDigit' \in Nat
          /\ significandDigit >= MaxDigits => significandDigit' >= MaxDigits
          /\ significandDigit' > 0 => sig' > 0 \/ significandDigit > 0
      BY <1>2, <1>5, <2>1, <3>1
    <3>3. /\ expFrac' \in Int /\ expFrac' <= 0
          /\ 0 - expFrac' <= Len(FractionPart(taken'))
      BY <1>2, <1>4, <1>6, <1>8, <2>1
    <3> QED
      BY <3>1, <3>2, <3>3
  <2>2. CASE sig' = sig /\ expFrac' = expFrac /\ significandDigit' = significandDigit
    BY <1>2, <1>4, <1>6, <1>8, <2>2
  <2> QED
    BY <2>1, <2>2
<1>11. NumberTypes'
  BY <1>2, <1>7, <1>8, <1>10 DEF NumberTypes, PlaceNames, InFraction, Negative
<1>12. PlaceInv'
  BY <1>8 DEF PlaceInv, BeforePoint, InFraction, InExponent, Begun
<1>13. KindInv'
  BY <1>1, <1>8 DEF KindInv, InExponent
<1>14. IntegerInv'
  BY <1>8 DEF IntegerInv
<1>15. ValueInv'
  <2>1. ASSUME NoLetters
        PROVE  /\ sig' = Number(Kept(taken', 0 - expFrac'))
               /\ 0 - expFrac' = Len(FractionPart(taken')) \/ significandDigit' >= MaxDigits
               /\ at' = "fractionFast" => 0 - expFrac' = Len(FractionPart(taken'))
    <3>1. CASE /\ at = "fractionFast" \/ significandDigit < MaxDigits
               /\ sig' = sig * 10 + Digit /\ expFrac' = expFrac - 1
      <4>1. k = Len(FractionPart(taken)) /\ sig = Number(Kept(taken, k))
        BY <1>2, <1>4, <1>5, <2>1, <3>1 DEF k
      <4>2. 0 - expFrac' = k + 1
        BY <1>2, <3>1 DEF k
      <4>3. sig' = Number(Kept(taken', k + 1))
        BY <1>3, <1>8, <3>1, <4>1
      <4> QED
        BY <1>8, <4>1, <4>2, <4>3
    <3>2. CASE /\ at = "fractionDouble" /\ significandDigit >= MaxDigits
               /\ sig' = sig /\ expFrac' = expFrac /\ significandDigit' = significandDigit
      <4>1. 0 - expFrac' = k /\ sig = Number(Kept(taken, k))
        BY <1>4, <2>1, <3>2 DEF k
      <4>2. sig' = Number(Kept(taken', 0 - expFrac'))
        BY <1>8, <3>2, <4>1
      <4> QED
        BY <3>2, <4>2
    <3> QED
      BY <3>1, <3>2
  <2>2. NoLetters => (significandDigit' > 0 => sig' > 0)
    BY <1>4, <1>10
  <2>3. at' \notin {"fraction", "narrow", "wide", "big"}
    OBVIOUS
  <2> QED
    BY <1>9, <1>10, <2>1, <2>2, <2>3 DEF ValueInv
<1>16. BackupInv'
  BY <1>1, <1>7, <1>8, <1>9 DEF BackupInv
<1>17. ExponentInv'
  BY <1>1, <1>8 DEF ExponentInv
<1>18. EventInv'
  BY DEF EventInv
<1> QED
  BY <1>11, <1>12, <1>13, <1>14, <1>15, <1>16, <1>17, <1>18 DEF NumberInv

\* The digits of a fraction in 64 bits, as long as a double is exact.
LEMMA FractionFastKeeps == NumberInv /\ FractionFast => NumberInv'
<1> SUFFICES ASSUME NumberInv, FractionFast PROVE NumberInv'
  OBVIOUS
<1>1. /\ at = "fractionFast" /\ minus' = minus /\ word' = word /\ nanOrInf' = nanOrInf
      /\ exp' = exp /\ expMinus' = expMinus /\ decimalPosition' = decimalPosition
      /\ mode' = mode /\ targetSize' = targetSize
  BY DEF FractionFast, Fixed
<1>2. CASE IsDigit /\ sig <= 2 ^ FastBits - 1
  <2>1. /\ kind' = kind /\ at' = at /\ TakeChar(TRUE)
        /\ sig' = sig * 10 + Digit /\ expFrac' = expFrac - 1
        /\ significandDigit' = significandDigit + (IF sig' > 0 THEN 1 ELSE 0)
    BY <1>2 DEF FractionFast, AddFraction
  <2> QED
    BY <1>1, <1>2, <2>1, FractionDigitKeeps
<1>3. CASE ~ (IsDigit /\ sig <= 2 ^ FastBits - 1)
  <2>1. /\ kind' = "double" /\ at' = "fractionDouble"
        /\ taken' = taken /\ next' = next /\ backup' = backup
        /\ sig' = sig /\ expFrac' = expFrac /\ significandDigit' = significandDigit
    BY <1>3 DEF FractionFast, Stay
  <2>2. Staying
    BY <1>1, <2>1 DEF Staying
  <2> QED
    BY <1>1, <2>1, <2>2, FractionTurnKeeps
<1> QED
  BY <1>2, <1>3

\* The digits of a fraction in a double: those behind the last that counts are left out.
LEMMA FractionDoubleKeeps == NumberInv /\ FractionDouble => NumberInv'
<1> SUFFICES ASSUME NumberInv, FractionDouble PROVE NumberInv'
  OBVIOUS
<1>1. /\ at = "fractionDouble" /\ minus' = minus /\ kind' = kind /\ word' = word
      /\ nanOrInf' = nanOrInf
      /\ exp' = exp /\ expMinus' = expMinus /\ decimalPosition' = decimalPosition
      /\ mode' = mode /\ targetSize' = targetSize
  BY DEF FractionDouble, Fixed
<1>2. kind = "double"
  BY <1>1 DEF NumberInv, KindInv
<1>3. CASE IsDigit /\ significandDigit < MaxDigits /\ AddFraction /\ UNCHANGED at
  <2>1. /\ at' = at /\ TakeChar(TRUE)
        /\ sig' = sig * 10 + Digit /\ expFrac' = expFrac - 1
        /\ significandDigit' = significandDigit + (IF sig' > 0 THEN 1 ELSE 0)
    BY <1>3 DEF AddFraction
  <2> QED
    BY <1>1, <1>3, <2>1, FractionDigitKeeps
<1>4. CASE /\ IsDigit /\ significandDigit >= MaxDigits
           /\ TakeChar(TRUE)
           /\ UNCHANGED <<at, sig, expFrac, significandDigit>>
  <2>1. /\ at' = at /\ sig' = sig /\ expFrac' = expFrac /\ significandDigit' = significandDigit
    BY <1>4
  <2> QED
    BY <1>1, <1>4, <2>1, FractionDigitKeeps
<1>5. CASE ~IsDigit /\ at' = "e" /\ Stay /\ UNCHANGED <<sig, expFrac, significandDigit>>
  <2>1. /\ taken' = taken /\ next' = next /\ backup' = backup
        /\ sig' = sig /\ expFrac' = expFrac /\ significandDigit' = significandDigit
    BY <1>5 DEF Stay
  <2>2. Staying
    BY <1>1, <2>1 DEF Staying
  <2> QED
    BY <1>1, <1>2, <1>5, <2>2, FractionTurnKeeps
<1> QED
  BY <1>3, <1>4, <1>5 DEF FractionDouble

\* An exponent is marked, or the number ends without one.
LEMMA ExponentMarkKeeps == NumberInv /\ ExponentMark => NumberInv'
<1> SUFFICES ASSUME NumberInv, ExponentMark PROVE NumberInv'
  OBVIOUS
<1>1. /\ at = "e"
      /\ minus' = minus /\ sig' = sig /\ word' = word /\ nanOrInf' = nanOrInf
      /\ significandDigit' = significandDigit /\ expFrac' = expFrac /\ exp' = exp
      /\ expMinus' = expMinus /\ decimalPosition' = decimalPosition
      /\ mode' = mode /\ targetSize' = targetSize
  BY DEF ExponentMark, Fixed
<1>2. /\ ~HasExponent(taken) /\ exp = 0 /\ (HasPoint(taken) => kind = "double")
      /\ mode = "strings" => backup = taken
      /\ mode = "full" /\ NoLetters =>
           backup = Written(taken) /\ decimalPosition = Len(IntegerPart(taken))
  <2>1. at \notin BeforePoint
    BY <1>1 DEF BeforePoint, Begun
  <2> QED
    BY <1>1, <2>1 DEF NumberInv, PlaceInv, KindInv, ExponentInv, BackupInv
<1>3. NumberTypes /\ taken \in Seq(Code) /\ expFrac \in Int
  BY DEF NumberInv, NumberTypes
<1>4. CASE next \in Exponent
  <2>1. TakeChar(FALSE) /\ at' = "expSign" /\ kind' = "double"
    BY <1>4 DEF ExponentMark
  <2>2. next # 0
    BY <1>4 DEF Exponent
  <2>3. /\ taken' = Append(taken, next) /\ next' \in NumberChars \cup {0}
        /\ taken' \in Seq(Code) /\ Len(taken') <= MaxTaken /\ (next' # 0 => Len(taken') < MaxTaken)
        /\ backup' \in Seq(Code)
        /\ mode = "strings" => backup' = taken'
        /\ mode = "full" => backup' = backup
    BY <1>2, <1>3, <2>1, <2>2, TakenTypes
  <2>4. /\ taken' # <<>> /\ (Negative(taken') <=> Negative(taken))
        /\ (HasPoint(taken') <=> HasPoint(taken)) /\ HasExponent(taken')
        /\ Position(Exponent, taken') = Len(taken')
        /\ IntegerPart(taken') = IntegerPart(taken) /\ FractionPart(taken') = FractionPart(taken)
        /\ Written(taken') = Written(taken) /\ \A k \in Nat : Kept(taken', k) = Kept(taken, k)
    BY <1>2, <1>3, <1>4, <2>3, TakeMark
  <2>5. NoLetters' <=> NoLetters
    BY <1>1, <2>1 DEF NoLetters
  <2>6. NumberTypes'
    BY <1>1, <1>3, <2>1, <2>3, <2>4 DEF NumberTypes, PlaceNames, InExponent, Negative
  <2>7. PlaceInv'
    BY <2>1, <2>4 DEF PlaceInv, BeforePoint, InFraction, InExponent, Begun
  <2>8. KindInv'
    BY <2>1, <2>4 DEF KindInv
  <2>9. IntegerInv'
    BY <2>4 DEF IntegerInv
  <2>10. ValueInv'
    <3>1. expFrac <= 0 /\ 0 - expFrac <= Len(FractionPart(taken))
      BY DEF NumberInv, ValueInv
    <3>2. 0 - expFrac \in Nat
      BY <1>3, <3>1
    <3>3. Kept(taken', 0 - expFrac) = Kept(taken, 0 - expFrac)
      BY <2>4, <3>2
    <3> QED
      BY <1>1, <2>1, <2>4, <2>5, <3>3 DEF NumberInv, ValueInv
  <2>11. BackupInv'
    BY <1>1, <1>2, <2>3, <2>4, <2>5 DEF BackupInv
  <2>12. ExponentInv'
    BY <2>1, <2>4 DEF ExponentInv
  <2>13. EventInv'
    BY <2>1 DEF EventInv
  <2> QED
    BY <2>6, <2>7, <2>8, <2>9, <2>10, <2>11, <2>12, <2>13 DEF NumberInv
<1>5. CASE next \notin Exponent
  <2>1. at' = "finish" /\ kind' = kind /\ taken' = taken /\ next' = next /\ backup' = backup
    BY <1>5 DEF ExponentMark, Stay
  <2>2. Staying
    BY <1>1, <2>1 DEF Staying
  <2>3. NoLetters' <=> NoLetters
    BY <1>1, <2>1 DEF NoLetters
  <2>4. NumberTypes'
    <3>1. /\ at' \in PlaceNames /\ kind' \in {"32", "64", "double"} /\ expMinus' \in BOOLEAN
          /\ decimalPosition' \in Nat
      BY <1>1, <1>3, <2>1 DEF NumberTypes, PlaceNames
    <3> QED
      BY <1>3, <2>2, <3>1, StayingTypes
  <2>5. PlaceInv'
    BY <2>1 DEF PlaceInv, BeforePoint, InFraction, InExponent, Begun
  <2>6. KindInv'
    BY <1>1, <1>2, <2>1 DEF NumberInv, KindInv, InExponent
  <2>7. IntegerInv'
    <3>1. /\ Limit(Narrow)' = Limit(Narrow) /\ Limit(Wide)' = Limit(Wide)
      BY <1>1 DEF Limit
    <3> QED
      BY <1>1, <2>1, <2>3, <3>1 DEF NumberInv, IntegerInv, Exceeds
  <2>8. ValueInv'
    BY <1>1, <2>1, <2>3 DEF NumberInv, ValueInv
  <2>9. BackupInv'
    BY <1>1, <1>2, <2>1, <2>3 DEF BackupInv
  <2>10. ExponentInv'
    BY <1>1, <1>2, <2>1 DEF ExponentInv
  <2>11. EventInv'
    BY <2>1 DEF EventInv
  <2> QED
    BY <2>4, <2>5, <2>6, <2>7, <2>8, <2>9, <2>10, <2>11 DEF NumberInv
<1> QED
  BY <1>4, <1>5

\* A character behind the mark changes nothing but the exponent.
LEMMA BehindKeeps ==
  ASSUME NumberInv, TakeChar(FALSE), next \in DigitCode \cup {Plus, Minus},
         at \in InExponent, at' \in InExponent,
         minus' = minus, sig' = sig, kind' = kind, word' = word, nanOrInf' = nanOrInf,
         significandDigit' = significandDigit, expFrac' = expFrac, exp' \in Nat,
         expMinus' \in BOOLEAN, decimalPosition' = decimalPosition,
         mode' = mode, targetSize' = targetSize, ExponentInv'
  PROVE  NumberInv'
<1>1. /\ HasExponent(taken) /\ kind = "double"
      /\ mode = "strings" => backup = taken
      /\ mode = "full" /\ NoLetters =>
           backup = Written(taken) /\ decimalPosition = Len(IntegerPart(taken))
  <2>1. at \notin BeforePoint
    BY DEF InExponent, BeforePoint, Begun
  <2> QED
    BY <2>1 DEF NumberInv, PlaceInv, KindInv, BackupInv
<1>2. NumberTypes /\ taken \in Seq(Code) /\ expFrac \in Int
  BY DEF NumberInv, NumberTypes
<1>3. next # 0 /\ next # Point /\ next \in Code
  BY DEF DigitCode, Plus, Minus, Point, Code
<1>4. /\ taken' = Append(taken, next) /\ next' \in NumberChars \cup {0}
      /\ taken' \in Seq(Code) /\ Len(taken') <= MaxTaken /\ (next' # 0 => Len(taken') < MaxTaken)
      /\ backup' \in Seq(Code)
      /\ mode = "strings" => backup' = taken'
      /\ mode = "full" => backup' = backup
  BY <1>1, <1>2, <1>3, TakenTypes
<1>5. /\ taken' # <<>> /\ (Negative(taken') <=> Negative(taken))
      /\ (HasPoint(taken') <=> HasPoint(taken)) /\ HasExponent(taken')
      /\ IntegerPart(taken') = IntegerPart(taken) /\ FractionPart(taken') = FractionPart(taken)
      /\ Written(taken') = Written(taken) /\ \A k \in Nat : Kept(taken', k) = Kept(taken, k)
  BY <1>1, <1>2, <1>3, <1>4, TakeBehind
<1>6. NoLetters' <=> NoLetters
  BY DEF NoLetters, InExponent
<1>7. NumberTypes'
  BY <1>2, <1>4, <1>5 DEF NumberTypes, PlaceNames, Negative
<1>8. PlaceInv'
  BY <1>5 DEF PlaceInv, BeforePoint, InFraction, InExponent, Begun
<1>9. KindInv'
  BY <1>1, <1>5 DEF KindInv, InExponent
<1>10. IntegerInv'
  BY <1>5 DEF IntegerInv
<1>11. ValueInv'
  <2>1. expFrac <= 0 /\ 0 - expFrac <= Len(FractionPart(taken))
    BY DEF NumberInv, ValueInv
  <2>2. 0 - expFrac \in Nat
    BY <1>2, <2>1
  <2>3. Kept(taken', 0 - expFrac) = Kept(taken, 0 - expFrac)
    BY <1>5, <2>2
  <2> QED
    BY <1>5, <1>6, <2>3 DEF NumberInv, ValueInv, InExponent
<1>12. BackupInv'
  BY <1>1, <1>4, <1>5, <1>6 DEF BackupInv
<1>13. EventInv'
  BY DEF EventInv, InExponent
<1> QED
  BY <1>7, <1>8, <1>9, <1>10, <1>11, <1>12, <1>13 DEF NumberInv

\* Nor does a step that takes none.
LEMMA BehindTurnKeeps ==
  ASSUME NumberInv, Staying, at \in InExponent, at' \in InExponent \cup {"finish"},
         kind' = kind, expMinus' \in BOOLEAN, decimalPosition' = decimalPosition, ExponentInv'
  PROVE  NumberInv'
<1>1. /\ HasExponent(taken) /\ kind = "double" /\ at \notin BeforePoint
  BY DEF NumberInv, PlaceInv, KindInv, InExponent, BeforePoint, Begun
<1>2. NumberTypes
  BY DEF NumberInv
<1>3. /\ taken' = taken /\ sig' = sig /\ minus' = minus /\ exp' = exp /\ mode' = mode
      /\ nanOrInf' = nanOrInf /\ significandDigit' = significandDigit /\ expFrac' = expFrac
      /\ backup' = backup
  BY DEF Staying
<1>4. NoLetters' <=> NoLetters
  BY <1>3 DEF NoLetters, InExponent
<1>5. NumberTypes'
  <2>1. at' \in PlaceNames /\ kind' \in {"32", "64", "double"} /\ decimalPosition' \in Nat
    BY <1>2 DEF PlaceNames, NumberTypes
  <2> QED
    BY <1>2, <2>1, StayingTypes
<1>6. PlaceInv'
  BY <1>1, <1>3 DEF PlaceInv, BeforePoint, InFraction, InExponent, Begun
<1>7. KindInv'
  BY <1>1, <1>3 DEF KindInv, InExponent
<1>8. IntegerInv'
  BY <1>1, <1>3 DEF IntegerInv
<1>9. ValueInv'
  BY <1>3, <1>4 DEF NumberInv, ValueInv, InExponent
<1>10. BackupInv'
  BY <1>1, <1>3, <1>4 DEF NumberInv, BackupInv
<1>11. EventInv'
  BY DEF EventInv, InExponent
<1> QED
  BY <1>5, <1>6, <1>7, <1>8, <1>9, <1>10, <1>11 DEF NumberInv

\* The sign of an exponent.
LEMMA ExponentSignKeeps == NumberInv /\ ExponentSign => NumberInv'
<1> SUFFICES ASSUME NumberInv, ExponentSign PROVE NumberInv'
  OBVIOUS
<1>1. /\ at = "expSign" /\ at' = "expFirst" /\ expMinus' = (next = Minus)
      /\ minus' = minus /\ sig' = sig /\ kind' = kind /\ word' = word /\ nanOrInf' = nanOrInf
      /\ significandDigit' = significandDigit /\ expFrac' = expFrac /\ exp' = exp
      /\ decimalPosition' = decimalPosition
      /\ mode' = mode /\ targetSize' = targetSize
  BY DEF ExponentSign, Fixed
<1>2. at \in InExponent /\ at' \in InExponent /\ expMinus' \in BOOLEAN
  BY <1>1 DEF InExponent
<1>3. HasExponent(taken) /\ Position(Exponent, taken) = Len(taken) /\ taken \in Seq(Code)
  BY <1>1, <1>2 DEF NumberInv, PlaceInv, ExponentInv, NumberTypes
<1>4. exp' \in Nat
  BY <1>1 DEF NumberInv, NumberTypes
<1>5. CASE next \in {Plus, Minus}
  <2>1. TakeChar(FALSE)
    BY <1>5 DEF ExponentSign
  <2>2. next \in Code /\ next # Point
    BY <1>5 DEF Plus, Minus, Code, Point
  <2>3. taken' = Append(taken, next)
    BY <2>1 DEF TakeChar
  <2>4. ExponentStart(taken') = Len(taken) + 2
    BY <1>3, <1>5, <2>2, <2>3, ExponentAppend
  <2>5. HasExponent(taken') /\ Len(taken') = Len(taken) + 1 /\ Len(taken) \in Nat
    BY <1>3, <2>2, <2>3, TakeBehind, LenProperties
  <2>6. ExponentInv'
    BY <1>1, <2>4, <2>5 DEF ExponentInv
  <2> QED
    BY <1>1, <1>2, <1>4, <1>5, <2>1, <2>6, BehindKeeps
<1>6. CASE next \notin {Plus, Minus}
  <2>1. taken' = taken /\ next' = next /\ backup' = backup
    BY <1>6 DEF ExponentSign, Stay
  <2>2. Staying
    BY <1>1, <2>1 DEF Staying
  <2>3. ExponentStart(taken) = Len(taken) + 1
    <3>1. 1 \in Code
      BY DEF Code
    <3> QED
      BY <1>3, <3>1, ExponentAppend
  <2>4. ExponentInv'
    BY <1>1, <1>3, <2>1, <2>3 DEF ExponentInv
  <2> QED
    BY <1>1, <1>2, <2>2, <2>4, BehindTurnKeeps
<1> QED
  BY <1>5, <1>6

\* The place behind the point is bounded by the text, so a short exponent gives an int.
LEMMA FractionFits ==
  ASSUME NumberInv
  PROVE  expFrac \in Int /\ expFrac <= 0 /\ 0 - expFrac <= IntLimit - 99 /\ IntLimit \in Nat
<1>1. taken \in Seq(Code) /\ Len(taken) <= MaxTaken /\ expFrac \in Int
  BY DEF NumberInv, NumberTypes
<1>2. expFrac <= 0 /\ 0 - expFrac <= Len(FractionPart(taken))
  BY DEF NumberInv, ValueInv
<1>3. Len(FractionPart(taken)) <= Len(taken) /\ Len(FractionPart(taken)) \in Nat
  <2>1. 1 \in Code
    BY DEF Code
  <2> QED
    BY <1>1, <2>1, FractionAppend, LenProperties
<1>4. Len(taken) \in Nat
  BY <1>1, LenProperties
<1>5. MaxTaken + 99 <= IntLimit /\ MaxTaken \in Nat /\ IntLimit \in Nat
  BY NumberAssumption
<1> QED
  BY <1>1, <1>2, <1>3, <1>4, <1>5

\* A digit of an exponent.
LEMMA TakeExponentDigit ==
  ASSUME NumberInv, IsDigit, TakeChar(FALSE), at \in InExponent \ {"expSign"}
  PROVE  /\ HasExponent(taken') /\ ExponentStart(taken') <= Len(taken')
         /\ Number(ExponentPart(taken')) = Number(ExponentPart(taken)) * 10 + Digit
         /\ Number(ExponentPart(taken)) \in Int /\ Digit \in 0 .. 9
         /\ at = "expFirst" => Number(ExponentPart(taken)) = 0
<1>1. HasExponent(taken) /\ taken \in Seq(Code)
  BY DEF NumberInv, PlaceInv, NumberTypes
<1>2. next \in Code /\ next # Point /\ next \notin {Plus, Minus} /\ Digit \in 0 .. 9
      /\ Digit = next - 48 /\ next \in Int
  BY DEF IsDigit, Code, Point, Plus, Minus, Digit
<1>3. taken' = Append(taken, next)
  BY DEF TakeChar
<1>4. HasExponent(taken') /\ Len(taken') = Len(taken) + 1 /\ Len(taken) \in Nat
  BY <1>1, <1>2, <1>3, TakeBehind, LenProperties
<1>5. /\ ExponentStart(taken) \in 1 .. Len(taken) + 1 /\ ExponentPart(taken) \in Seq(Code)
      /\ ExponentStart(taken) = Len(taken) + 1 => ExponentPart(taken) = <<>>
      /\ ExponentStart(taken') = ExponentStart(taken)
      /\ ExponentPart(taken') = Append(ExponentPart(taken), next)
  BY <1>1, <1>2, <1>3, ExponentAppend
<1>6. /\ Number(ExponentPart(taken)) \in Int
      /\ Number(ExponentPart(taken')) = Number(ExponentPart(taken)) * 10 + next - 48
  BY <1>2, <1>5, NumberAppend
<1>7. at = "expFirst" => Number(ExponentPart(taken)) = 0
  <2>1. ASSUME at = "expFirst" PROVE Number(ExponentPart(taken)) = 0
    <3>1. ExponentStart(taken) = Len(taken) + 1
      BY <2>1 DEF NumberInv, ExponentInv
    <3>2. ExponentPart(taken) = <<>>
      BY <1>5, <3>1
    <3> QED
      BY <3>2, NumberEmpty
  <2> QED
    BY <2>1
<1>8. Number(ExponentPart(taken')) = Number(ExponentPart(taken)) * 10 + Digit
  BY <1>2, <1>6
<1> QED
  BY <1>2, <1>4, <1>5, <1>6, <1>7, <1>8

\* The first digit of an exponent fits, whatever the fraction.
LEMMA ExponentFirstKeeps == NumberInv /\ ExponentFirst => NumberInv'
<1> SUFFICES ASSUME NumberInv, ExponentFirst PROVE NumberInv'
  OBVIOUS
<1>1. CASE ~IsDigit
  <2>1. NumberError("NumberMissExponent")
    BY <1>1 DEF ExponentFirst
  <2> QED
    BY <2>1, ErrorKeeps
<1>2. CASE IsDigit
  <2>1. /\ at = "expFirst" /\ at' = "exp" /\ exp' = Digit /\ TakeChar(FALSE)
        /\ minus' = minus /\ sig' = sig /\ kind' = kind /\ word' = word /\ nanOrInf' = nanOrInf
        /\ significandDigit' = significandDigit /\ expFrac' = expFrac /\ expMinus' = expMinus
        /\ decimalPosition' = decimalPosition
        /\ mode' = mode /\ targetSize' = targetSize
    BY <1>2 DEF ExponentFirst, Fixed
  <2>2. at \in InExponent \ {"expSign"} /\ at' \in InExponent /\ expMinus' \in BOOLEAN
    BY <2>1 DEF InExponent, NumberInv, NumberTypes
  <2>3. /\ HasExponent(taken') /\ ExponentStart(taken') <= Len(taken')
        /\ Number(ExponentPart(taken')) = Number(ExponentPart(taken)) * 10 + Digit
        /\ Digit \in 0 .. 9 /\ Number(ExponentPart(taken)) = 0
    BY <1>2, <2>1, <2>2, TakeExponentDigit
  <2>4. next \in DigitCode
    BY <1>2 DEF IsDigit, DigitCode
  <2> HIDE DEF Digit
  <2>5. exp' \in 0 .. 9 /\ exp' = Number(ExponentPart(taken'))
    BY <2>1, <2>3
  <2>6. PowerFits'
    <3>1. expFrac \in Int /\ expFrac <= 0 /\ 0 - expFrac <= IntLimit - 99 /\ IntLimit \in Nat
      BY FractionFits
    <3>2. \A m \in {0 - exp', exp'} : m + expFrac \in 0 - IntLimit .. IntLimit - 1
      BY <2>5, <3>1
    <3>3. Power' = IF expMinus' THEN expFrac' - exp' ELSE expFrac' + exp'
      BY DEF Power
    <3>4. Power' \in IntMin .. -IntMin - 1
      BY <2>1, <2>5, <3>1, <3>3 DEF IntMin
    <3> QED
      BY <3>4 DEF PowerFits
  <2>7. ExponentInv'
    BY <2>1, <2>3, <2>5, <2>6 DEF ExponentInv
  <2>8. exp' \in Nat
    BY <2>5
  <2> QED
    BY <2>1, <2>2, <2>4, <2>7, <2>8, BehindKeeps
<1> QED
  BY <1>1, <1>2

\* The digits of an exponent, until it is too big or low enough.
LEMMA ExponentDigitsKeep == NumberInv /\ ExponentDigits => NumberInv'
<1> SUFFICES ASSUME NumberInv, ExponentDigits PROVE NumberInv'
  OBVIOUS
<1> DEFINE longer == exp * 10 + Digit
<1>1. at = "exp" /\ at \in InExponent
  BY DEF ExponentDigits, InExponent
<1>2. /\ HasExponent(taken) /\ exp = Number(ExponentPart(taken)) /\ (exp <= 9 \/ exp <= MaxExp)
      /\ PowerFits /\ exp \in Nat /\ expMinus \in BOOLEAN /\ ExponentStart(taken) <= Len(taken)
  BY <1>1 DEF NumberInv, PlaceInv, ExponentInv, NumberTypes
<1>3. CASE IsDigit /\ ~expMinus /\ longer > MaxExp /\ NumberError("NumberTooBig")
  BY <1>3, ErrorKeeps
<1>4. CASE /\ IsDigit /\ (expMinus \/ longer <= MaxExp)
           /\ exp' = longer
           /\ TakeChar(FALSE)
           /\ at' = IF longer > MaxExp THEN "expRest" ELSE "exp"
           /\ Fixed /\ UNCHANGED <<minus, sig, kind, word, nanOrInf, significandDigit, expFrac,
                                   expMinus, decimalPosition, event>>
  <2>1. /\ minus' = minus /\ sig' = sig /\ kind' = kind /\ word' = word /\ nanOrInf' = nanOrInf
        /\ significandDigit' = significandDigit /\ expFrac' = expFrac /\ expMinus' = expMinus
        /\ decimalPosition' = decimalPosition
        /\ mode' = mode /\ targetSize' = targetSize
    BY <1>4 DEF Fixed
  <2>2. at \in InExponent \ {"expSign"} /\ at' \in InExponent /\ expMinus' \in BOOLEAN
    BY <1>1, <1>2, <1>4, <2>1 DEF InExponent
  <2>3. /\ HasExponent(taken') /\ ExponentStart(taken') <= Len(taken')
        /\ Number(ExponentPart(taken')) = Number(ExponentPart(taken)) * 10 + Digit
        /\ Digit \in 0 .. 9
    BY <1>4, <2>2, TakeExponentDigit
  <2>4. next \in DigitCode
    BY <1>4 DEF IsDigit, DigitCode
  <2> HIDE DEF Digit
  <2>5. exp' \in Nat /\ exp' = Number(ExponentPart(taken')) /\ exp' = exp * 10 + Digit
    BY <1>2, <1>4, <2>3
  <2>6. MaxExp' = MaxExp
    BY <2>1 DEF MaxExp
  <2>7. PowerFits'
    <3>1. expFrac \in Int /\ expFrac <= 0 /\ 0 - expFrac <= IntLimit - 99 /\ IntLimit \in Nat
      BY FractionFits
    <3>2. MaxExponent \in Nat /\ MaxExponent < IntLimit
      BY NumberAssumption
    <3>3. Power' = IF expMinus' THEN expFrac' - exp' ELSE expFrac' + exp'
      BY DEF Power
    <3>4. CASE expMinus
      <4>1. MaxExp = (expFrac + IntLimit - 9) \div 10
        BY <3>1, <3>4 DEF MaxExp, IntMin
      <4>2. exp <= 9 \/ 10 * exp <= expFrac + IntLimit - 9
        BY <1>2, <3>1, <4>1
      <4>3. exp' <= expFrac + IntLimit
        BY <1>2, <2>3, <2>5, <3>1, <4>2
      <4>4. Power' = expFrac - exp'
        BY <2>1, <2>5, <3>1, <3>3, <3>4
      <4>5. Power' \in 0 - IntLimit .. IntLimit - 1
        BY <2>5, <3>1, <4>3, <4>4
      <4> QED
        BY <3>1, <4>5 DEF PowerFits, IntMin
    <3>5. CASE ~expMinus
      <4>1. exp' <= MaxExponent - expFrac
        BY <1>4, <3>5 DEF MaxExp
      <4>2. Power' = expFrac + exp'
        BY <2>1, <3>3, <3>5
      <4>3. Power' \in 0 - IntLimit .. IntLimit - 1
        BY <2>5, <3>1, <3>2, <4>1, <4>2
      <4> QED
        BY <3>1, <4>3 DEF PowerFits, IntMin
    <3> QED
      BY <1>2, <3>4, <3>5
  <2>8. ExponentInv'
    <3>1. CASE longer > MaxExp
      <4>1. at' = "expRest" /\ expMinus' /\ exp' > MaxExp'
        <5>1. MaxExp \in Int /\ longer \in Int
          <6>1. expFrac \in Int /\ IntLimit \in Nat /\ MaxExponent \in Nat
            BY FractionFits, NumberAssumption
          <6>2. MaxExp \in Int
            BY <6>1 DEF MaxExp, IntMin
          <6> QED
            BY <1>4, <2>5, <6>2
        <5>2. ~ (longer <= MaxExp)
          BY <3>1, <5>1
        <5> QED
          BY <1>4, <2>1, <2>6, <3>1, <5>2
      <4>2. Number(ExponentPart(taken')) >= exp'
        BY <2>5
      <4> QED
        BY <2>3, <2>7, <4>1, <4>2 DEF ExponentInv
    <3>2. CASE ~ (longer > MaxExp)
      <4>1. at' = "exp" /\ exp' <= MaxExp'
        <5>1. MaxExp \in Int /\ longer \in Int
          <6>1. expFrac \in Int /\ IntLimit \in Nat /\ MaxExponent \in Nat
            BY FractionFits, NumberAssumption
          <6>2. MaxExp \in Int
            BY <6>1 DEF MaxExp, IntMin
          <6> QED
            BY <1>4, <2>5, <6>2
        <5> QED
          BY <1>4, <2>6, <3>2, <5>1
      <4> QED
        BY <2>3, <2>5, <2>7, <4>1 DEF ExponentInv
    <3> QED
      BY <3>1, <3>2
  <2> QED
    BY <1>1, <1>4, <2>1, <2>2, <2>4, <2>5, <2>8, BehindKeeps
<1>5. CASE /\ ~IsDigit
           /\ at' = "finish" /\ Stay
           /\ Fixed /\ UNCHANGED <<minus, sig, kind, word, nanOrInf, significandDigit, expFrac,
                                   exp, expMinus, decimalPosition, event>>
  <2>1. /\ Staying /\ kind' = kind /\ expMinus' = expMinus /\ decimalPosition' = decimalPosition
    BY <1>5 DEF Staying, Stay, Fixed
  <2>2. taken' = taken /\ exp' = exp /\ expFrac' = expFrac
    BY <2>1 DEF Staying
  <2>3. ExponentInv'
    BY <1>2, <1>5, <2>1, <2>2 DEF ExponentInv, PowerFits, Power
  <2> QED
    BY <1>1, <1>2, <1>5, <2>1, <2>3, BehindTurnKeeps
<1> QED
  BY <1>3, <1>4, <1>5 DEF ExponentDigits

\* The rest of an exponent that is low enough makes it no greater.
LEMMA ExponentRestKeeps == NumberInv /\ ExponentRest => NumberInv'
<1> SUFFICES ASSUME NumberInv, ExponentRest PROVE NumberInv'
  OBVIOUS
<1>1. /\ at = "expRest" /\ at \in InExponent
      /\ minus' = minus /\ sig' = sig /\ kind' = kind /\ word' = word /\ nanOrInf' = nanOrInf
      /\ significandDigit' = significandDigit /\ expFrac' = expFrac /\ exp' = exp
      /\ expMinus' = expMinus /\ decimalPosition' = decimalPosition
      /\ mode' = mode /\ targetSize' = targetSize
  BY DEF ExponentRest, Fixed, InExponent
<1>2. /\ HasExponent(taken) /\ expMinus /\ exp > MaxExp /\ Number(ExponentPart(taken)) >= exp
      /\ PowerFits /\ exp \in Nat /\ expMinus \in BOOLEAN
  BY <1>1 DEF NumberInv, PlaceInv, ExponentInv, NumberTypes
<1>3. MaxExp' = MaxExp /\ (PowerFits' <=> PowerFits)
  BY <1>1 DEF MaxExp, PowerFits, Power
<1>4. CASE IsDigit
  <2>1. TakeChar(FALSE) /\ at' = at
    BY <1>4 DEF ExponentRest
  <2>2. at \in InExponent \ {"expSign"}
    BY <1>1
  <2>3. /\ HasExponent(taken') /\ ExponentStart(taken') <= Len(taken')
        /\ Number(ExponentPart(taken')) = Number(ExponentPart(taken)) * 10 + Digit
        /\ Number(ExponentPart(taken)) \in Int /\ Digit \in 0 .. 9
    BY <1>4, <2>1, <2>2, TakeExponentDigit
  <2>4. next \in DigitCode
    BY <1>4 DEF IsDigit, DigitCode
  <2> HIDE DEF Digit
  <2>5. Number(ExponentPart(taken')) >= exp
    BY <1>2, <2>3
  <2>6. ExponentInv'
    BY <1>1, <1>2, <1>3, <2>1, <2>3, <2>5 DEF ExponentInv
  <2> QED
    BY <1>1, <1>2, <1>4, <2>1, <2>4, <2>6, BehindKeeps
<1>5. CASE ~IsDigit
  <2>1. at' = "finish" /\ taken' = taken /\ next' = next /\ backup' = backup
    BY <1>5 DEF ExponentRest, Stay
  <2>2. Staying
    BY <1>1, <2>1 DEF Staying
  <2>3. Number(ExponentPart(taken)) \in Int
    <3>1. 1 \in Code /\ taken \in Seq(Code)
      BY DEF Code, NumberInv, NumberTypes
    <3>2. ExponentPart(taken) \in Seq(Code)
      BY <1>2, <3>1, ExponentAppend
    <3> QED
      BY <3>1, <3>2, NumberAppend
  <2>4. exp = Number(ExponentPart(taken)) \/ Number(ExponentPart(taken)) > exp
    BY <1>2, <2>3
  <2>5. ExponentInv'
    BY <1>1, <1>2, <1>3, <2>1, <2>4 DEF ExponentInv
  <2> QED
    BY <1>1, <1>2, <2>1, <2>2, <2>5, BehindTurnKeeps
<1> QED
  BY <1>4, <1>5

\* The event is the one of the text that has been taken.
LEMMA GiveEventKeeps == NumberInv /\ at = "finish" /\ GiveEvent => NumberInv'
<1> SUFFICES ASSUME NumberInv, at = "finish", GiveEvent PROVE NumberInv'
  OBVIOUS
<1>1. /\ at = "finish" /\ at' = "done" /\ event' = FinalEvent
      /\ kind' = kind /\ expMinus' = expMinus /\ decimalPosition' = decimalPosition
      /\ Staying
  BY DEF GiveEvent, Staying
<1>2. /\ taken' = taken /\ next' = next /\ sig' = sig /\ minus' = minus /\ exp' = exp
      /\ mode' = mode /\ nanOrInf' = nanOrInf /\ significandDigit' = significandDigit
      /\ expFrac' = expFrac /\ backup' = backup /\ targetSize' = targetSize
  BY <1>1 DEF Staying
<1>3. NoLetters' <=> NoLetters
  BY <1>1, <1>2 DEF NoLetters
<1>4. NumberTypes'
  <2>1. /\ at' \in PlaceNames /\ kind' \in {"32", "64", "double"} /\ expMinus' \in BOOLEAN
        /\ decimalPosition' \in Nat /\ NumberTypes
    BY <1>1 DEF PlaceNames, NumberInv, NumberTypes
  <2> QED
    BY <1>1, <2>1, StayingTypes
<1>5. PlaceInv'
  BY <1>1 DEF PlaceInv, BeforePoint, InFraction, InExponent, Begun
<1>6. KindInv'
  BY <1>1, <1>2 DEF NumberInv, KindInv, InExponent
<1>7. IntegerInv'
  <2>1. /\ Limit(Narrow)' = Limit(Narrow) /\ Limit(Wide)' = Limit(Wide)
    BY <1>2 DEF Limit
  <2> QED
    BY <1>1, <1>2, <1>3, <2>1 DEF NumberInv, IntegerInv, Exceeds
<1>8. ValueInv'
  BY <1>1, <1>2, <1>3 DEF NumberInv, ValueInv
<1>9. BackupInv'
  <2>1. at \notin BeforePoint
    BY <1>1 DEF BeforePoint, Begun
  <2> QED
    BY <1>1, <1>2, <1>3, <2>1 DEF NumberInv, BackupInv
<1>10. ExponentInv'
  <2>1. MaxExp' = MaxExp /\ (PowerFits' <=> PowerFits)
    BY <1>1, <1>2 DEF MaxExp, PowerFits, Power
  <2> QED
    BY <1>1, <1>2, <2>1 DEF NumberInv, ExponentInv
<1>11. EventInv'
  <2>1. FinalEvent' = FinalEvent
    BY <1>1, <1>2 DEF FinalEvent, NumberEvent, DoubleEvent, IntegerEvent, Signed, Power
  <2> QED
    BY <1>1, <2>1 DEF EventInv
<1> QED
  BY <1>4, <1>5, <1>6, <1>7, <1>8, <1>9, <1>10, <1>11 DEF NumberInv

\* The end of a text.
LEMMA FinishKeeps == NumberInv /\ Finish => NumberInv'
<1> QED
  BY GiveEventKeeps, ErrorKeeps DEF Finish

\* A number that is to be parsed, or one that was set.
LEMMA InitNumberInv == NumberInit => NumberInv
<1> SUFFICES ASSUME NumberInit PROVE NumberInv
  OBVIOUS
<1>1. /\ taken = <<>> /\ minus = FALSE /\ sig = 0 /\ kind = "32" /\ word = <<>>
      /\ nanOrInf = FALSE /\ significandDigit = 0 /\ expFrac = 0 /\ exp = 0 /\ expMinus = FALSE
      /\ backup = <<>> /\ decimalPosition = 0 /\ at \in {"sign", "done"}
      /\ mode \in Modes /\ targetSize \in {1, 2, 4} /\ (mode # "strings" => targetSize = 1)
      /\ next \in NumberChars \cup {0}
  BY DEF NumberInit
<1>2. /\ <<>> \in Seq(Code) /\ <<>> \in Seq(Letter) /\ Len(<<>>) = 0
  BY EmptySeq
<1>3. MaxTaken \in Nat \ {0}
  BY NumberAssumption
<1>4. ~HasPoint(<<>>) /\ ~HasExponent(<<>>) /\ Negative(<<>>) = FALSE /\ FractionPart(<<>>) = <<>>
  BY <1>2, PositionEmpty DEF HasPoint, HasExponent, Negative, FractionPart
<1>5. IntegerPart(<<>>) = <<>>
  <2>1. IntegerPart(<<>>) = SubSeq(<<>>, 1, 1 - 1)
    BY <1>4, PositionEmpty DEF IntegerPart
  <2>2. SubSeq(<<>>, 1, 1 - 1) = <<>>
    BY SubSeqEmpty
  <2> QED
    BY <2>1, <2>2
<1>6. Kept(<<>>, 0) = <<>> /\ Written(<<>>) = <<>>
  BY <1>2, <1>4, <1>5, KeptInteger
<1>7. NumberTypes
  <2>1. minus = Negative(taken)
    BY <1>1, <1>4
  <2>2. at \in PlaceNames
    BY <1>1 DEF PlaceNames, BeforePoint, Begun
  <2>3. taken \in Seq(Code) /\ word \in Seq(Letter) /\ backup \in Seq(Code) /\ Len(taken) = 0
    BY <1>1, <1>2
  <2>4. nanOrInf \in BOOLEAN /\ expMinus \in BOOLEAN
    BY <1>1
  <2> QED
    BY <1>1, <1>3, <2>1, <2>2, <2>3, <2>4 DEF NumberTypes
<1>8. PlaceInv
  BY <1>1, <1>4, <1>5 DEF PlaceInv, BeforePoint, InFraction, InExponent, Begun
<1>9. KindInv
  BY <1>1, <1>4 DEF KindInv, InExponent
<1>10. IntegerInv
  BY <1>1, Limits DEF IntegerInv
<1>11. ValueInv
  <2>1. 0 - expFrac = 0 /\ Len(FractionPart(taken)) = 0
    BY <1>1, <1>2, <1>4
  <2> QED
    BY <1>1, <1>6, <2>1, NumberEmpty DEF ValueInv
<1>12. BackupInv
  BY <1>1, <1>2, <1>5, <1>6 DEF BackupInv
<1>13. ExponentInv
  BY <1>1, <1>4 DEF ExponentInv
<1>14. EventInv
  <2>1. ASSUME at = "done"
        PROVE  mode = "plain" /\ event.type \in Integral /\ event.value \in RangeOf(event.type)
    <3>1. PICK type \in Integral : \E v \in RangeOf(type) :
            mode = "plain" /\ event = [type |-> type, value |-> v, power |-> 0]
      BY <2>1 DEF NumberInit
    <3>2. PICK v \in RangeOf(type) : event = [type |-> type, value |-> v, power |-> 0]
      BY <3>1
    <3>3. event.type = type /\ event.value = v
      BY <3>2
    <3> QED
      BY <3>1, <3>2, <3>3
  <2> QED
    BY <1>1, <2>1 DEF EventInv
<1> QED
  BY <1>7, <1>8, <1>9, <1>10, <1>11, <1>12, <1>13, <1>14 DEF NumberInv

\* One lemma for each action.
LEMMA NextNumberInv == NumberInv /\ [NumberNext]_numberVars => NumberInv'
<1> SUFFICES ASSUME NumberInv, [NumberNext]_numberVars PROVE NumberInv'
  OBVIOUS
<1>1. CASE Sign \/ First \/ Word \/ Infinity
  BY <1>1, SignKeeps, FirstKeeps, WordKeeps, InfinityKeeps
<1>2. CASE NarrowDigits \/ WideDigits \/ BigDigits
  BY <1>2, DigitsKeep, BigDigitsKeep
<1>3. CASE DecimalPoint \/ FirstOfFraction \/ FractionFast \/ FractionDouble
  BY <1>3, DecimalPointKeeps, FirstOfFractionKeeps, FractionFastKeeps, FractionDoubleKeeps
<1>4. CASE ExponentMark \/ ExponentSign \/ ExponentFirst \/ ExponentDigits \/ ExponentRest
  BY <1>4, ExponentMarkKeeps, ExponentSignKeeps, ExponentFirstKeeps, ExponentDigitsKeep,
     ExponentRestKeeps
<1>5. CASE Finish
  BY <1>5, FinishKeeps
<1>6. CASE UNCHANGED numberVars
  <2>1. /\ mode' = mode /\ targetSize' = targetSize /\ taken' = taken /\ next' = next /\ at' = at
        /\ minus' = minus /\ sig' = sig /\ kind' = kind /\ word' = word /\ nanOrInf' = nanOrInf
        /\ significandDigit' = significandDigit /\ expFrac' = expFrac /\ exp' = exp
        /\ expMinus' = expMinus /\ backup' = backup /\ decimalPosition' = decimalPosition
        /\ event' = event
    BY <1>6 DEF numberVars
  <2>2. /\ (NoLetters' <=> NoLetters) /\ MaxExp' = MaxExp /\ (PowerFits' <=> PowerFits)
        /\ Limit(Narrow)' = Limit(Narrow) /\ Limit(Wide)' = Limit(Wide)
        /\ Digit' = Digit /\ (IsDigit' <=> IsDigit) /\ FinalEvent' = FinalEvent
    BY <2>1 DEF NoLetters, MaxExp, PowerFits, Power, Limit, Digit, IsDigit, FinalEvent,
                NumberEvent, DoubleEvent, IntegerEvent, Signed
  <2>3. NumberTypes' /\ PlaceInv' /\ KindInv'
    BY <2>1 DEF NumberInv, NumberTypes, PlaceInv, KindInv
  <2>4. IntegerInv' /\ ValueInv' /\ BackupInv'
    BY <2>1, <2>2 DEF NumberInv, IntegerInv, Exceeds, ValueInv, BackupInv
  <2>5. ExponentInv' /\ EventInv'
    BY <2>1, <2>2 DEF NumberInv, ExponentInv, EventInv
  <2> QED
    BY <2>3, <2>4, <2>5 DEF NumberInv
<1> QED
  BY <1>1, <1>2, <1>3, <1>4, <1>5, <1>6 DEF NumberNext

\* The invariant holds in every state.
LEMMA NumberInvariant == NumberSpec => []NumberInv
<1> QED
  BY InitNumberInv, NextNumberInv, PTL DEF NumberSpec

-----------------------------------------------------------------------------
(* A number is given with the value of its text.                           *)

\* The event of a number that was parsed.
LEMMA EventOfText ==
  ASSUME NumberInv, at = "done", taken # <<>> \/ nanOrInf \/ mode # "plain"
  PROVE  /\ event = FinalEvent
         /\ mode \in {"plain", "full"} => event = NumberEvent
         /\ mode = "strings" => event = [type |-> "RawNumber", string |-> CopyOnStack(targetSize, backup)]
         /\ mode = "insitu" => event = [type |-> "RawNumber", string |-> taken]
<1>1. event = FinalEvent
  BY DEF NumberInv, EventInv
<1> QED
  BY <1>1 DEF FinalEvent

\* The ranges of the four types, by the powers of their widths.
LEMMA Ranges ==
  \E n, w \in Nat :
    /\ 9 <= n /\ 2 * n <= w
    /\ 2 ^ (Narrow - 1) = n /\ 2 ^ Narrow = 2 * n /\ 2 ^ (Wide - 1) = w /\ 2 ^ Wide = 2 * w
    /\ \A v \in Int : /\ v \in RangeOf("Int") <=> -n <= v /\ v < n
                      /\ v \in RangeOf("Uint") <=> 0 <= v /\ v < 2 * n
                      /\ v \in RangeOf("Int64") <=> -w <= v /\ v < w
                      /\ v \in RangeOf("Uint64") <=> 0 <= v /\ v < 2 * w
    /\ \A type \in Integral : RangeOf(type) \subseteq Int
    /\ minus => Limit(Narrow) = n /\ Limit(Wide) = w
    /\ ~minus => Limit(Narrow) = 2 * n - 1 /\ Limit(Wide) = 2 * w - 1
<1> DEFINE n == 2 ^ (Narrow - 1)
           w == 2 ^ (Wide - 1)
           nn == 2 ^ Narrow
           ww == 2 ^ Wide
<1>1. n \in Nat /\ 9 <= n /\ nn = 2 * n /\ w \in Nat /\ ww = 2 * w /\ nn <= w
  BY Powers
<1>2. /\ RangeOf("Int") = -n .. n - 1 /\ RangeOf("Uint") = 0 .. nn - 1
      /\ RangeOf("Int64") = -w .. w - 1 /\ RangeOf("Uint64") = 0 .. ww - 1
  BY DEF RangeOf
<1>3. /\ minus => Limit(Narrow) = n /\ Limit(Wide) = w
      /\ ~minus => Limit(Narrow) = nn - 1 /\ Limit(Wide) = ww - 1
  BY Limits
<1> HIDE DEF n, w, nn, ww
<1>4. \A v \in Int : /\ v \in RangeOf("Int") <=> -n <= v /\ v < n
                     /\ v \in RangeOf("Uint") <=> 0 <= v /\ v < 2 * n
                     /\ v \in RangeOf("Int64") <=> -w <= v /\ v < w
                     /\ v \in RangeOf("Uint64") <=> 0 <= v /\ v < 2 * w
  BY <1>1, <1>2
<1>5. \A type \in Integral : RangeOf(type) \subseteq Int
  <2>1. /\ RangeOf("Int") \subseteq Int /\ RangeOf("Uint") \subseteq Int
        /\ RangeOf("Int64") \subseteq Int /\ RangeOf("Uint64") \subseteq Int
    BY <1>1, <1>2
  <2> QED
    BY <2>1 DEF Integral
<1>6. /\ minus => Limit(Narrow) = n /\ Limit(Wide) = w
      /\ ~minus => Limit(Narrow) = 2 * n - 1 /\ Limit(Wide) = 2 * w - 1
  BY <1>1, <1>3
<1>7. /\ 2 ^ (Narrow - 1) = n /\ 2 ^ Narrow = 2 * n /\ 2 ^ (Wide - 1) = w /\ 2 ^ Wide = 2 * w
  BY <1>1 DEF n, w, nn, ww
<1> QED
  BY <1>1, <1>4, <1>5, <1>6, <1>7

\* An integer is in the narrowest accumulator, and so in the narrowest type.
LEMMA IntegersExact == NumberInv => IntegersAreExact
<1> SUFFICES ASSUME NumberInv, at = "done", mode = "plain", taken # <<>>, ~nanOrInf,
                    ~HasPoint(taken), ~HasExponent(taken)
             PROVE  LET v == IF Negative(taken) THEN -Number(IntegerPart(taken))
                             ELSE Number(IntegerPart(taken))
                    IN  /\ event.value = v /\ event.power = 0
                        /\ event.type =
                             IF Negative(taken)
                             THEN IF v \in RangeOf("Int") THEN "Int"
                                  ELSE IF v \in RangeOf("Int64") THEN "Int64" ELSE "Double"
                             ELSE IF v \in RangeOf("Uint") THEN "Uint"
                                  ELSE IF v \in RangeOf("Uint64") THEN "Uint64" ELSE "Double"
  BY DEF IntegersAreExact
<1> DEFINE v == IF Negative(taken) THEN -Number(IntegerPart(taken)) ELSE Number(IntegerPart(taken))
<1>1. NoLetters
  BY DEF NoLetters
<1>2. sig = Number(IntegerPart(taken)) /\ expFrac = 0
  <2>1. taken \in Seq(Code) /\ FractionPart(taken) = <<>>
    BY IntegerOnly DEF NumberInv, NumberTypes
  <2> QED
    BY <1>1, <2>1, IntegerOnly, KeptInteger
<1>3. sig \in Nat /\ minus = Negative(taken) /\ kind \in {"32", "64", "double"} /\ exp = 0
  BY DEF NumberInv, NumberTypes, ExponentInv
<1>4. /\ kind = "32" => sig <= Limit(Narrow)
      /\ kind = "64" => sig <= Limit(Wide) /\ sig > Limit(Narrow)
      /\ kind = "double" => sig > Limit(Wide)
  BY <1>1 DEF NumberInv, IntegerInv, Exceeds
<1>5. event = IF kind = "double" THEN DoubleEvent ELSE IntegerEvent
  BY EventOfText DEF NumberEvent
<1>6. v = Signed(sig) /\ Signed(sig) = IF minus THEN -sig ELSE sig
  BY <1>2, <1>3 DEF Signed
<1>7. Power = 0
  BY <1>2, <1>3 DEF Power
<1>8. event.value = v /\ event.power = 0
  BY <1>5, <1>6, <1>7 DEF DoubleEvent, IntegerEvent
<1>9. event.type = IF kind = "double" THEN "Double"
                   ELSE IF kind = "64" THEN IF minus THEN "Int64" ELSE "Uint64"
                   ELSE IF minus THEN "Int" ELSE "Uint"
  BY <1>5 DEF DoubleEvent, IntegerEvent
<1>10. PICK n \in Nat, w \in Nat :
         /\ 9 <= n /\ 2 * n <= w
         /\ \A u \in Int : /\ u \in RangeOf("Int") <=> -n <= u /\ u < n
                           /\ u \in RangeOf("Uint") <=> 0 <= u /\ u < 2 * n
                           /\ u \in RangeOf("Int64") <=> -w <= u /\ u < w
                           /\ u \in RangeOf("Uint64") <=> 0 <= u /\ u < 2 * w
         /\ minus => Limit(Narrow) = n /\ Limit(Wide) = w
         /\ ~minus => Limit(Narrow) = 2 * n - 1 /\ Limit(Wide) = 2 * w - 1
  BY Ranges
<1> HIDE DEF v
<1>11. CASE minus
  <2>1. v = -sig /\ v \in Int
    BY <1>3, <1>6, <1>11
  <2>2. (v \in RangeOf("Int") <=> sig <= n) /\ (v \in RangeOf("Int64") <=> sig <= w)
    BY <1>3, <1>10, <2>1
  <2>3. /\ kind = "32" => v \in RangeOf("Int")
        /\ kind = "64" => v \notin RangeOf("Int") /\ v \in RangeOf("Int64")
        /\ kind = "double" => v \notin RangeOf("Int") /\ v \notin RangeOf("Int64")
    BY <1>3, <1>4, <1>10, <1>11, <2>2
  <2> QED
    BY <1>3, <1>8, <1>9, <1>11, <2>3 DEF v
<1>12. CASE ~minus
  <2>1. v = sig /\ v \in Int
    BY <1>3, <1>6, <1>12
  <2>2. (v \in RangeOf("Uint") <=> sig < 2 * n) /\ (v \in RangeOf("Uint64") <=> sig < 2 * w)
    BY <1>3, <1>10, <2>1
  <2>3. /\ kind = "32" => v \in RangeOf("Uint")
        /\ kind = "64" => v \notin RangeOf("Uint") /\ v \in RangeOf("Uint64")
        /\ kind = "double" => v \notin RangeOf("Uint") /\ v \notin RangeOf("Uint64")
    BY <1>3, <1>4, <1>10, <1>12, <2>2
  <2> QED
    BY <1>3, <1>8, <1>9, <1>12, <2>3 DEF v
<1> QED
  BY <1>11, <1>12

\* The flags of a value that is in the range of its type.
LEMMA FlagsAre ==
  ASSUME NEW type \in Integral, NEW v \in RangeOf(type)
  PROVE  /\ Flags(type, v) = {t \in Integral : v \in RangeOf(t)}
         /\ v \in RangeOf(AcceptAs(Flags(type, v)))
<1>1. PICK n \in Nat, w \in Nat :
        /\ 9 <= n /\ 2 * n <= w
        /\ 2 ^ (Narrow - 1) = n /\ 2 ^ Narrow = 2 * n /\ 2 ^ (Wide - 1) = w /\ 2 ^ Wide = 2 * w
        /\ \A u \in Int : /\ u \in RangeOf("Int") <=> -n <= u /\ u < n
                          /\ u \in RangeOf("Uint") <=> 0 <= u /\ u < 2 * n
                          /\ u \in RangeOf("Int64") <=> -w <= u /\ u < w
                          /\ u \in RangeOf("Uint64") <=> 0 <= u /\ u < 2 * w
        /\ \A t \in Integral : RangeOf(t) \subseteq Int
  BY Ranges
<1>2. v \in Int
  BY <1>1
<1>3. /\ v \in RangeOf("Int") <=> -n <= v /\ v < n
      /\ v \in RangeOf("Uint") <=> 0 <= v /\ v < 2 * n
      /\ v \in RangeOf("Int64") <=> -w <= v /\ v < w
      /\ v \in RangeOf("Uint64") <=> 0 <= v /\ v < 2 * w
  BY <1>1, <1>2
<1> DEFINE flags == Flags(type, v)
<1>4. /\ type = "Int" => flags = {"Int", "Int64"} \cup (IF v >= 0 THEN {"Uint", "Uint64"} ELSE {})
      /\ type = "Uint" => flags = {"Uint", "Uint64", "Int64"} \cup (IF v >= n THEN {} ELSE {"Int"})
      /\ type = "Int64" => flags = {"Int64"} \cup (IF v >= 0 THEN {"Uint64"} ELSE {})
                                     \cup (IF v >= 0 /\ v < 2 * n THEN {"Uint"} ELSE {})
                                     \cup (IF v < n /\ v >= -n THEN {"Int"} ELSE {})
      /\ type = "Uint64" => flags = {"Uint64"} \cup (IF v < w THEN {"Int64"} ELSE {})
                                      \cup (IF v < 2 * n THEN {"Uint"} ELSE {})
                                      \cup (IF v < n THEN {"Int"} ELSE {})
  BY <1>1 DEF Flags
<1> HIDE DEF flags
<1>5. /\ flags \subseteq Integral
      /\ "Int" \in flags <=> v \in RangeOf("Int")
      /\ "Uint" \in flags <=> v \in RangeOf("Uint")
      /\ "Int64" \in flags <=> v \in RangeOf("Int64")
      /\ "Uint64" \in flags <=> v \in RangeOf("Uint64")
  <2>1. CASE type = "Int"
    <3>1. -n <= v /\ v < n
      BY <1>3, <2>1
    <3> QED
      BY <1>1, <1>2, <1>3, <1>4, <2>1, <3>1 DEF Integral
  <2>2. CASE type = "Uint"
    <3>1. 0 <= v /\ v < 2 * n
      BY <1>3, <2>2
    <3> QED
      BY <1>1, <1>2, <1>3, <1>4, <2>2, <3>1 DEF Integral
  <2>3. CASE type = "Int64"
    <3>1. -w <= v /\ v < w
      BY <1>3, <2>3
    <3> QED
      BY <1>1, <1>2, <1>3, <1>4, <2>3, <3>1 DEF Integral
  <2>4. CASE type = "Uint64"
    <3>1. 0 <= v /\ v < 2 * w
      BY <1>3, <2>4
    <3> QED
      BY <1>1, <1>2, <1>3, <1>4, <2>4, <3>1 DEF Integral
  <2> QED
    BY <2>1, <2>2, <2>3, <2>4 DEF Integral
<1>6. flags = {t \in Integral : v \in RangeOf(t)}
  BY <1>5 DEF Integral
<1>7. flags # {}
  BY <1>6
<1>8. v \in RangeOf(AcceptAs(flags))
  <2>1. CASE "Int" \in flags
    BY <1>5, <2>1 DEF AcceptAs
  <2>2. CASE "Int" \notin flags /\ "Uint" \in flags
    BY <1>5, <2>2 DEF AcceptAs
  <2>3. CASE "Int" \notin flags /\ "Uint" \notin flags
    <3>1. "Int64" \in flags \/ "Uint64" \in flags
      BY <1>5, <1>7, <2>3 DEF Integral
    <3>2. AcceptAs(flags) = IF "Int64" \in flags THEN "Int64" ELSE "Uint64"
      BY <2>3 DEF AcceptAs
    <3> QED
      BY <1>5, <3>1, <3>2
  <2> QED
    BY <2>1, <2>2, <2>3
<1> QED
  BY <1>6, <1>8 DEF flags

\* A number that has ended with a point or an exponent is a double.
LEMMA MarkedIsDouble ==
  ASSUME NumberInv, at = "done"
  PROVE  /\ HasPoint(taken) \/ HasExponent(taken) => kind = "double" /\ taken # <<>>
         /\ nanOrInf /\ ~HasPoint(taken) /\ ~HasExponent(taken) => kind = "32"
<1>1. HasPoint(taken) \/ HasExponent(taken) => taken # <<>>
  BY PositionEmpty, EmptySeq DEF HasPoint, HasExponent
<1> QED
  BY <1>1 DEF NumberInv, KindInv

\* What is parsed is in the range of its type, as its accumulator has a limit.
LEMMA FlagsExact == NumberInv => FlagsAreRanges
<1> SUFFICES ASSUME NumberInv, at = "done", event.type \in Integral
             PROVE  event.value \in RangeOf(event.type)
  BY FlagsAre DEF FlagsAreRanges
<1>1. CASE event = FinalEvent
  <2>1. mode \notin {"strings", "insitu"}
    <3>1. mode \in {"strings", "insitu"} => event.type = "RawNumber"
      BY <1>1 DEF FinalEvent
    <3> QED
      BY <3>1 DEF Integral
  <2>2. event = NumberEvent
    BY <1>1, <2>1 DEF FinalEvent
  <2>3. kind # "double" /\ ~nanOrInf
    <3>1. kind = "double" => event.type = "Double"
      BY <2>2 DEF NumberEvent, DoubleEvent
    <3>2. kind # "double" /\ nanOrInf => event.type = "NanOrInf"
      BY <2>2 DEF NumberEvent
    <3> QED
      BY <3>1, <3>2 DEF Integral
  <2>4. ~HasPoint(taken) /\ ~HasExponent(taken) /\ NoLetters
    BY <2>3, MarkedIsDouble DEF NoLetters
  <2>5. /\ kind = "32" => sig <= Limit(Narrow)
        /\ kind = "64" => sig <= Limit(Wide)
    BY <2>4 DEF NumberInv, IntegerInv
  <2>6. sig \in Nat /\ minus \in BOOLEAN /\ kind \in {"32", "64"}
    BY <2>3 DEF NumberInv, NumberTypes, Negative
  <2>7. event = IntegerEvent
    BY <2>2, <2>3 DEF NumberEvent
  <2>8. /\ event.value = IF minus THEN -sig ELSE sig
        /\ event.type = IF kind = "64" THEN IF minus THEN "Int64" ELSE "Uint64"
                        ELSE IF minus THEN "Int" ELSE "Uint"
    BY <2>7 DEF IntegerEvent, Signed
  <2>9. PICK n \in Nat, w \in Nat :
          /\ 9 <= n /\ 2 * n <= w
          /\ \A u \in Int : /\ u \in RangeOf("Int") <=> -n <= u /\ u < n
                            /\ u \in RangeOf("Uint") <=> 0 <= u /\ u < 2 * n
                            /\ u \in RangeOf("Int64") <=> -w <= u /\ u < w
                            /\ u \in RangeOf("Uint64") <=> 0 <= u /\ u < 2 * w
          /\ minus => Limit(Narrow) = n /\ Limit(Wide) = w
          /\ ~minus => Limit(Narrow) = 2 * n - 1 /\ Limit(Wide) = 2 * w - 1
    BY Ranges
  <2>10. CASE minus
    <3>1. -sig \in Int /\ (kind = "32" => -sig \in RangeOf("Int"))
          /\ (kind = "64" => -sig \in RangeOf("Int64"))
      BY <2>5, <2>6, <2>9, <2>10
    <3> QED
      BY <2>6, <2>8, <2>10, <3>1
  <2>11. CASE ~minus
    <3>1. (kind = "32" => sig \in RangeOf("Uint")) /\ (kind = "64" => sig \in RangeOf("Uint64"))
      BY <2>5, <2>6, <2>9, <2>11
    <3> QED
      BY <2>6, <2>8, <2>11, <3>1
  <2> QED
    BY <2>10, <2>11
<1>2. CASE event.value \in RangeOf(event.type)
  BY <1>2
<1> QED
  BY <1>1, <1>2 DEF NumberInv, EventInv

\* The digits that are kept are those that expFrac counts.
LEMMA FractionsExact == NumberInv => FractionsAreExact
<1> SUFFICES ASSUME NumberInv, at = "done", mode \in {"plain", "full"},
                    FractionPart(taken) # <<>>, ~nanOrInf
             PROVE  LET kept == -expFrac
                    IN  /\ event.type = "Double"
                        /\ kept \in 0 .. Len(FractionPart(taken))
                        /\ event.value = Signed(Number(IntegerPart(taken)
                                                         \o SubSeq(FractionPart(taken), 1, kept)))
                        /\ kept < Len(FractionPart(taken)) => event.value # 0
  BY DEF FractionsAreExact
<1> DEFINE kept == -expFrac
<1>1. HasPoint(taken) /\ kind = "double" /\ taken # <<>>
  BY MarkedIsDouble DEF FractionPart
<1>2. NoLetters
  BY DEF NoLetters
<1>3. event = DoubleEvent
  BY <1>1, EventOfText DEF NumberEvent
<1>4. event.type = "Double" /\ event.value = Signed(sig)
  BY <1>3 DEF DoubleEvent
<1>5. /\ expFrac <= 0 /\ 0 - expFrac <= Len(FractionPart(taken))
      /\ sig = Number(Kept(taken, 0 - expFrac))
      /\ 0 - expFrac = Len(FractionPart(taken)) \/ significandDigit >= MaxDigits
      /\ significandDigit > 0 => sig > 0
  BY <1>2 DEF NumberInv, ValueInv
<1>6. /\ taken \in Seq(Code) /\ expFrac \in Int /\ sig \in Nat /\ significandDigit \in Nat
      /\ MaxDigits \in Nat \ {0}
  BY NumberAssumption DEF NumberInv, NumberTypes
<1>7. Len(FractionPart(taken)) \in Nat
  <2>1. 0 - expFrac \in Nat
    BY <1>5, <1>6
  <2> QED
    BY <1>5, <1>6, <2>1, KeptType
<1>8. kept = 0 - expFrac /\ kept \in 0 .. Len(FractionPart(taken))
  BY <1>5, <1>6, <1>7
<1> HIDE DEF kept
<1>9. sig = Number(IntegerPart(taken) \o SubSeq(FractionPart(taken), 1, kept))
  BY <1>5, <1>8 DEF Kept
<1>10. kept < Len(FractionPart(taken)) => event.value # 0
  <2>1. ASSUME kept < Len(FractionPart(taken)) PROVE sig > 0
    BY <1>5, <1>6, <1>7, <1>8, <2>1
  <2>2. sig > 0 => Signed(sig) # 0
    <3>1. sig > 0 => -sig < 0
      BY <1>6
    <3>2. sig > 0 => -sig # 0
      BY <1>6, <3>1
    <3> QED
      BY <1>6, <3>2 DEF Signed
  <2> QED
    BY <1>4, <2>1, <2>2
<1> QED
  BY <1>4, <1>8, <1>9, <1>10 DEF kept

\* The power is that of the text, or the exponent is past the last that is added to.
LEMMA PowerExact == NumberInv => PowerIsExact
<1> SUFFICES ASSUME NumberInv, at = "done", mode \in {"plain", "full"}, HasExponent(taken)
             PROVE  LET written == Number(ExponentPart(taken))
                    IN  /\ event.power \in IntMin .. -IntMin - 1
                        /\ \/ event.power = expFrac + (IF expMinus THEN -written ELSE written)
                           \/ expMinus /\ written > exp /\ exp > MaxExp
  BY DEF PowerIsExact
<1>1. kind = "double" /\ taken # <<>>
  BY MarkedIsDouble
<1>2. event = DoubleEvent
  BY <1>1, EventOfText DEF NumberEvent
<1>3. event.power = Power
  BY <1>2 DEF DoubleEvent
<1>4. /\ PowerFits
      /\ \/ exp = Number(ExponentPart(taken))
         \/ expMinus /\ exp > MaxExp /\ Number(ExponentPart(taken)) > exp
  BY DEF NumberInv, ExponentInv
<1>5. exp \in Nat /\ expFrac \in Int
  BY DEF NumberInv, NumberTypes
<1>6. Power = expFrac + (IF expMinus THEN -exp ELSE exp)
  BY <1>5 DEF Power
<1> QED
  BY <1>3, <1>4, <1>6 DEF PowerFits

\* The backup has the digits before and behind the point.
LEMMA BackupExact == NumberInv => BackupIsDigits
<1> SUFFICES ASSUME NumberInv, at = "done", mode = "full", ~nanOrInf
             PROVE  /\ backup = IntegerPart(taken) \o FractionPart(taken)
                    /\ decimalPosition = Len(IntegerPart(taken))
  BY DEF BackupIsDigits
<1>1. NoLetters /\ at \notin BeforePoint
  BY DEF NoLetters, BeforePoint, Begun
<1> QED
  BY <1>1 DEF NumberInv, BackupInv, Written

\* The characters are copied on the stack as far as their width allows, or read in place.
LEMMA RawExact == NumberInv => RawNumberIsText
<1> SUFFICES ASSUME NumberInv, at = "done", event.type = "RawNumber"
             PROVE  event.string = IF targetSize = 1 THEN taken
                                   ELSE [i \in DOMAIN taken |-> IF i = 1 THEN taken[1] ELSE 0]
  BY DEF RawNumberIsText
<1>1. taken \in Seq(Code) /\ targetSize \in {1, 2, 4} /\ (mode # "strings" => targetSize = 1)
  BY DEF NumberInv, NumberTypes
<1>2. event = FinalEvent
  BY DEF NumberInv, EventInv, Integral
<1>3. CASE mode = "strings"
  <2>1. event = [type |-> "RawNumber", string |-> CopyOnStack(targetSize, backup)]
    BY <1>2, <1>3 DEF FinalEvent
  <2>2. backup = taken
    BY <1>3 DEF NumberInv, BackupInv
  <2>3. event.string = CopyOnStack(targetSize, taken)
    BY <2>1, <2>2
  <2> QED
    BY <1>1, <2>3, CopyOnStackIs
<1>4. CASE mode = "insitu"
  <2>1. event = [type |-> "RawNumber", string |-> taken]
    BY <1>2, <1>4 DEF FinalEvent
  <2> QED
    BY <1>1, <1>4, <2>1
<1>5. CASE mode \notin {"strings", "insitu"}
  <2>1. event = NumberEvent
    BY <1>2, <1>5 DEF FinalEvent
  <2>2. event.type # "RawNumber"
    BY <2>1 DEF NumberEvent, DoubleEvent, IntegerEvent
  <2> QED
    BY <2>2
<1> QED
  BY <1>3, <1>4, <1>5

\* Letters are in 32 bits, and so no double, unless a point or an exponent follows.
LEMMA LettersExact == NumberInv => LettersAreNotFinite
<1> SUFFICES ASSUME NumberInv, at = "done", mode = "plain", nanOrInf
             PROVE  event.type = IF HasPoint(taken) \/ HasExponent(taken) THEN "Double" ELSE "NanOrInf"
  BY DEF LettersAreNotFinite
<1>1. event = NumberEvent
  BY EventOfText
<1>2. kind = "double" <=> HasPoint(taken) \/ HasExponent(taken)
  BY MarkedIsDouble
<1>3. event.type = IF kind = "double" THEN "Double" ELSE "NanOrInf"
  BY <1>1 DEF NumberEvent, DoubleEvent
<1> QED
  BY <1>2, <1>3

-----------------------------------------------------------------------------
(* A number that is too big is refused, and no other.                      *)

\* Only the end of a text gives an event, and only two places find it too big.
LEMMA OnlyTheseEnd ==
  ASSUME NumberInv, NumberNext, ~Finish,
         ~(at = "exp" /\ IsDigit /\ ~expMinus /\ exp * 10 + Digit > MaxExp
             /\ NumberError("NumberTooBig"))
  PROVE  at' # "done" /\ (at' = "error" => event'.type # "NumberTooBig")
<1>1. ASSUME NEW code, NumberError(code), code # "NumberTooBig"
      PROVE  at' # "done" /\ event'.type # "NumberTooBig"
  BY <1>1 DEF NumberError
<1>2. CASE Sign
  BY <1>2 DEF Sign
<1>3. CASE First
  BY <1>1, <1>3 DEF First
<1>4. CASE Word
  BY <1>1, <1>4 DEF Word
<1>5. CASE Infinity
  BY <1>5 DEF Infinity
<1>6. CASE NarrowDigits \/ WideDigits
  BY <1>6 DEF NarrowDigits, WideDigits, Digits
<1>7. CASE BigDigits \/ DecimalPoint
  BY <1>7 DEF BigDigits, DecimalPoint
<1>8. CASE FirstOfFraction
  BY <1>1, <1>8 DEF FirstOfFraction
<1>9. CASE FractionFast \/ FractionDouble
  BY <1>9 DEF FractionFast, FractionDouble
<1>10. CASE ExponentMark \/ ExponentSign
  BY <1>10 DEF ExponentMark, ExponentSign
<1>11. CASE ExponentFirst
  BY <1>1, <1>11 DEF ExponentFirst
<1>12. CASE ExponentDigits
  BY <1>12 DEF ExponentDigits
<1>13. CASE ExponentRest
  BY <1>13 DEF ExponentRest
<1> QED
  BY <1>2, <1>3, <1>4, <1>5, <1>6, <1>7, <1>8, <1>9, <1>10, <1>11, <1>12, <1>13 DEF NumberNext

\* What is said of a text that is found too big.
TooBigText ==
  LET n == Number(IntegerPart(taken) \o SubSeq(FractionPart(taken), 1, -expFrac))
      written == Number(ExponentPart(taken))
  IN  \/ HasExponent(taken) /\ ~expMinus /\ IsDigit /\ written * 10 + Digit > MaxExponent - expFrac
      \/ /\ HasExponent(taken) /\ ~expMinus => exp = written
         /\ TooGreat(n, Power) \/ (mode = "plain" /\ n > MaxDouble)

\* An error leaves the text and what was made of it.
LEMMA TooBigTextKept ==
  ASSUME mode' = mode, taken' = taken, next' = next, expFrac' = expFrac, exp' = exp,
         expMinus' = expMinus, TooBigText
  PROVE  TooBigText'
<1>1. Power' = Power /\ (IsDigit' <=> IsDigit) /\ Digit' = Digit
  BY DEF Power, IsDigit, Digit
<1> QED
  BY <1>1 DEF TooBigText

\* At the end of the text the accumulator has the value of the digits that are kept.
LEMMA OverflowsIsTooBig ==
  ASSUME NumberInv, at = "finish", Overflows, ~nanOrInf
  PROVE  TooBigText
<1>1. NoLetters
  BY DEF NoLetters
<1>2. sig = Number(Kept(taken, 0 - expFrac)) /\ expFrac \in Int
  BY <1>1 DEF NumberInv, ValueInv, NumberTypes
<1>3. 0 - expFrac = -expFrac
  BY <1>2
<1>4. sig = Number(IntegerPart(taken) \o SubSeq(FractionPart(taken), 1, -expFrac))
  BY <1>2, <1>3 DEF Kept
<1>5. HasExponent(taken) /\ ~expMinus => exp = Number(ExponentPart(taken))
  BY DEF NumberInv, ExponentInv
<1> QED
  BY <1>4, <1>5 DEF Overflows, TooBigText

\* A double that is given was found small enough.
LEMMA GivenIsFinite ==
  ASSUME NumberInv, at = "finish", ~Overflows, GiveEvent, event'.type = "Double"
  PROVE  ~TooGreat(Signed(event.value)', event'.power)
<1>1. mode \in {"plain", "full", "strings", "insitu"} /\ sig \in Nat /\ minus' = minus
  BY NumberAssumption DEF NumberInv, NumberTypes, GiveEvent
<1>2. event' = FinalEvent
  BY DEF GiveEvent
<1>3. mode \in {"plain", "full"} /\ kind = "double" /\ event' = DoubleEvent
  BY <1>1, <1>2 DEF FinalEvent, NumberEvent, IntegerEvent
<1>4. event'.value = Signed(sig) /\ event'.power = Power
  BY <1>3 DEF DoubleEvent
<1>5. Signed(event.value)' = sig
  BY <1>1, <1>4 DEF Signed
<1>6. ~TooGreat(sig, Power)
  BY <1>3 DEF Overflows
<1> QED
  BY <1>4, <1>5, <1>6

\* What is refused as too big is so, and what is given is not.
LEMMA TooBigKeeps ==
  NumberInv /\ TooBigIsRefused /\ [NumberNext]_numberVars => TooBigIsRefused'
<1> SUFFICES ASSUME NumberInv, TooBigIsRefused, [NumberNext]_numberVars
             PROVE  TooBigIsRefused'
  OBVIOUS
<1>1. ASSUME at' = "done" /\ event'.type = "Double" => ~TooGreat(Signed(event.value)', event'.power),
             at' = "error" /\ event'.type = "NumberTooBig" /\ ~nanOrInf' => TooBigText'
      PROVE  TooBigIsRefused'
  BY <1>1 DEF TooBigIsRefused, TooBigText
<1>2. CASE UNCHANGED numberVars
  <2>1. /\ at' = at /\ event' = event /\ nanOrInf' = nanOrInf /\ minus' = minus /\ mode' = mode
        /\ taken' = taken /\ next' = next /\ expFrac' = expFrac /\ exp' = exp /\ expMinus' = expMinus
    BY <1>2 DEF numberVars
  <2>2. Signed(event.value)' = Signed(event.value)
    BY <2>1 DEF Signed
  <2>3. /\ at = "done" /\ event.type = "Double" => ~TooGreat(Signed(event.value), event.power)
        /\ at = "error" /\ event.type = "NumberTooBig" /\ ~nanOrInf => TooBigText
    BY DEF TooBigIsRefused, TooBigText
  <2> QED
    BY <1>1, <2>1, <2>2, <2>3, TooBigTextKept
<1>3. ASSUME NumberError("NumberTooBig"), ~nanOrInf => TooBigText
      PROVE  TooBigIsRefused'
  <2>1. /\ at' = "error" /\ nanOrInf' = nanOrInf /\ mode' = mode /\ taken' = taken /\ next' = next
        /\ expFrac' = expFrac /\ exp' = exp /\ expMinus' = expMinus
    BY <1>3 DEF NumberError
  <2> QED
    BY <1>1, <1>3, <2>1, TooBigTextKept
<1>4. CASE Finish
  <2>1. CASE Overflows /\ NumberError("NumberTooBig")
    BY <1>3, <1>4, <2>1, OverflowsIsTooBig DEF Finish
  <2>2. CASE ~Overflows /\ GiveEvent
    <3>1. at' = "done" /\ at = "finish"
      BY <1>4, <2>2 DEF GiveEvent, Finish
    <3> QED
      BY <1>1, <2>2, <3>1, GivenIsFinite
  <2> QED
    BY <1>4, <2>1, <2>2 DEF Finish
<1>5. CASE /\ at = "exp" /\ IsDigit /\ ~expMinus /\ exp * 10 + Digit > MaxExp
           /\ NumberError("NumberTooBig")
  <2>1. HasExponent(taken) /\ exp = Number(ExponentPart(taken))
    BY <1>5 DEF NumberInv, PlaceInv, InExponent, ExponentInv
  <2>2. MaxExp = MaxExponent - expFrac
    BY <1>5 DEF MaxExp
  <2>3. TooBigText
    BY <1>5, <2>1, <2>2 DEF TooBigText
  <2> QED
    BY <1>3, <1>5, <2>3
<1>6. CASE /\ NumberNext /\ ~Finish
           /\ ~(at = "exp" /\ IsDigit /\ ~expMinus /\ exp * 10 + Digit > MaxExp
                  /\ NumberError("NumberTooBig"))
  BY <1>1, <1>6, OnlyTheseEnd
<1> QED
  BY <1>2, <1>4, <1>5, <1>6

\* Of every text, with every width and limit: a number is given with the value of its text,
\* or refused when no finite double has it or its exponent is too great
\* (GenericReader::ParseNumber, reader.h:1475-1728).
THEOREM NumbersAreExactInSpec == NumberSpec => []NumbersAreExact
<1>1. NumberInit => TooBigIsRefused
  BY DEF NumberInit, TooBigIsRefused, Integral
<1>2. NumberSpec => []TooBigIsRefused
  BY <1>1, NumberInvariant, TooBigKeeps, PTL DEF NumberSpec
<1>3. NumberInv /\ TooBigIsRefused => NumbersAreExact
  BY IntegersExact, FlagsExact, FractionsExact, PowerExact, BackupExact, RawExact, LettersExact
     DEF NumbersAreExact
<1> QED
  BY <1>2, <1>3, NumberInvariant, PTL

=============================================================================
