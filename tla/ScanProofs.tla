------------------------------ MODULE ScanProofs ------------------------------
(***************************************************************************)
(* Theorems about the loops that scan a text in blocks, for every width of *)
(* a block, length and place of the text.                                  *)
(*                                                                         *)
(* Every loop goes on by some bytes none of which is looked for, and puts  *)
(* these out (Advance).  A block is left at the first byte that is looked  *)
(* for, and since the terminator is one of them no loop gets past it,      *)
(* although a block may be compared beyond it.                             *)
(*                                                                         *)
(* Where a block lies is a matter of division: an aligned address begins a *)
(* block, and the block of the terminator is the last (BlockOfAddress,     *)
(* OneBlock).  A writer compares its first bytes one by one without a look *)
(* at the end of the text; that it stays within it needs that the first    *)
(* aligned address is in the text (WriterInv).                             *)
(***************************************************************************)
EXTENDS BlockScan, TLAPS, SequenceTheorems, WellFoundedInduction

USE ScanAssumption

\* A set of natural numbers that is not empty has a least element.
LEMMA LeastNat ==
  ASSUME NEW S, S \subseteq Nat, S # {}
  PROVE  \E x \in S : \A y \in S : x <= y
<1>1. \E x \in S : \A y \in S : ~ (<<y, x>> \in OpToRel(<, Nat))
  BY NatLessThanWellFounded, WFMin
<1>2. PICK x \in S : \A y \in S : ~ (<<y, x>> \in OpToRel(<, Nat))
  BY <1>1
<1>3. \A y \in S : <<y, x>> \in Nat \X Nat /\ (y < x => <<y, x>> \in OpToRel(<, Nat))
  BY Zenon DEF OpToRel
<1>4. \A y \in S : x <= y
  <2>1. \A y \in S : ~ (y < x)
    BY <1>2, <1>3, Zenon
  <2> QED
    BY <2>1
<1> QED
  BY <1>4

Bytes == {"go", "stop"}

Addresses == DOMAIN original

\* The text is in memory, from head to its terminator.
TextInv ==
  /\ routine \in Routines
  /\ head \in Nat /\ end \in Nat /\ head <= end
  /\ 0 .. end \subseteq Addresses
  /\ original \in [Addresses -> Bytes]
  /\ original[end] = "stop"

\* What has been passed is not looked for, and what is to come is as it was.
PlaceInv ==
  /\ p \in head .. end
  /\ memory \in [Addresses -> Bytes]
  /\ \A a \in head .. p - 1 : original[a] = "go"
  /\ \A a \in p .. end : memory[a] = original[a]

\* What has been passed has been put out.
CopyInv ==
  /\ output \in Seq(Bytes)
  /\ routine \in {"CopyToStack", "Write"} =>
       /\ Len(output) = p - head
       /\ \A i \in 1 .. p - head : output[i] = original[head + i - 1]
  /\ routine = "CopyInPlace" =>
       /\ q \in Int /\ 0 <= q - (p - head) /\ q < p
       /\ \A i \in 0 .. p - head - 1 : memory[q - (p - head) + i] = original[head + i]

\* A scan that is over is at a byte that is looked for.
EndInv == done => routine = "Write" \/ original[p] = "stop"

ScanInv == TextInv /\ PlaceInv /\ CopyInv /\ EndInv

\* A text somewhere in a block.
LEMMA InitScanInv ==
  ASSUME Init
  PROVE  ScanInv
<1>1. /\ routine \in Routines
      /\ head \in MaxGap .. MaxGap + Width - 1
      /\ original = memory /\ p = head /\ output = <<>> /\ done = FALSE
  BY DEF Init
<1>2. PICK n \in 0 .. MaxLength : \E bytes \in [1 .. n -> Bytes] :
        /\ end = head + n
        /\ memory = [a \in 0 .. MaxGap + MaxLength + 3 * Width |->
             IF a \in head .. end - 1 THEN bytes[a - head + 1]
             ELSE IF a = end THEN "stop" ELSE "go"]
  BY DEF Init, Bytes
<1>3. PICK bytes \in [1 .. n -> Bytes] :
        /\ end = head + n
        /\ memory = [a \in 0 .. MaxGap + MaxLength + 3 * Width |->
             IF a \in head .. end - 1 THEN bytes[a - head + 1]
             ELSE IF a = end THEN "stop" ELSE "go"]
  BY <1>2
<1>4. /\ head \in Nat /\ end \in Nat /\ head <= end
      /\ 0 .. end \subseteq Addresses
      /\ DOMAIN memory = Addresses
  BY <1>1, <1>3 DEF Addresses
<1>5. memory \in [Addresses -> Bytes]
  <2>1. ASSUME NEW a \in head .. end - 1 PROVE bytes[a - head + 1] \in Bytes
    <3>1. a - head + 1 \in 1 .. n
      BY <1>3, <1>4
    <3> QED
      BY <3>1
  <2>2. memory \in [0 .. MaxGap + MaxLength + 3 * Width -> Bytes]
    BY <1>3, <2>1 DEF Bytes
  <2> QED
    BY <1>4, <2>2
<1>6. memory[end] = "stop"
  <2>1. end \in DOMAIN memory
    BY <1>4
  <2> QED
    BY <1>3, <1>4, <2>1
<1>7. PICK gap \in 1 .. MaxGap : q = IF routine = "CopyInPlace" THEN head - gap ELSE head
  BY DEF Init
<1>8. CopyInv
  BY <1>1, <1>4, <1>7, EmptySeq DEF CopyInv
<1> QED
  BY <1>1, <1>4, <1>5, <1>6, <1>8 DEF ScanInv, TextInv, PlaceInv, EndInv

\* A loop passes n bytes that are not looked for, and puts them out.
Advance(n) ==
  /\ Same
  /\ p' = p + n
  /\ PutOut(n)

\* Passing bytes before the first one that is looked for keeps the text and the
\* copy: in place, what is written is behind what is still to be read
\* (reader.h:1147-1168).
LEMMA AdvanceKeeps ==
  ASSUME ScanInv, NEW n \in Nat, p + n <= end,
         \A a \in p .. p + n - 1 : memory[a] # "stop",
         Advance(n)
  PROVE  TextInv' /\ PlaceInv' /\ CopyInv'
<1> DEFINE bytes == [i \in 1 .. n |-> memory[p + i - 1]]
<1>1. /\ head \in Nat /\ end \in Nat /\ head <= end /\ p \in head .. end
      /\ 0 .. end \subseteq Addresses
      /\ memory \in [Addresses -> Bytes] /\ original \in [Addresses -> Bytes]
      /\ \A a \in p .. end : memory[a] = original[a]
      /\ \A a \in head .. p - 1 : original[a] = "go"
  BY DEF ScanInv, TextInv, PlaceInv
<1>2. /\ routine' = routine /\ head' = head /\ end' = end /\ original' = original
      /\ Addresses' = Addresses
      /\ p' = p + n
  BY DEF Advance, Same, Addresses
<1>3. \A a \in head .. end : a \in Addresses
  BY <1>1
<1>4. \A a \in p .. p + n - 1 : memory[a] = original[a] /\ original[a] = "go"
  BY <1>1, <1>3 DEF Bytes
<1>5. bytes \in Seq(Bytes) /\ Len(bytes) = n /\ \A i \in 1 .. n : bytes[i] = original[p + i - 1]
  <2>1. ASSUME NEW i \in 1 .. n
        PROVE  memory[p + i - 1] = original[p + i - 1] /\ memory[p + i - 1] \in Bytes
    <3>1. p + i - 1 \in p .. p + n - 1 /\ p + i - 1 \in Addresses
      BY <1>1, <1>3
    <3> QED
      BY <1>1, <1>4, <3>1
  <2>2. bytes \in [1 .. n -> Bytes]
    BY <2>1
  <2>3. bytes \in Seq(Bytes) /\ DOMAIN bytes = 1 .. n
    BY <2>2, SeqDef
  <2>4. \A i \in 1 .. n : bytes[i] = original[p + i - 1]
    BY <2>1
  <2> HIDE DEF bytes
  <2> QED
    BY <2>3, <2>4, LenProperties
<1> HIDE DEF bytes
<1>6. TextInv'
  BY <1>2 DEF ScanInv, TextInv
<1>7. CASE routine = "CopyInPlace"
  <2>1. /\ memory' = [a \in DOMAIN memory |->
                        IF a \in q .. q + n - 1 THEN bytes[a - q + 1] ELSE memory[a]]
        /\ q' = q + n
        /\ output' = output
    BY <1>7 DEF Advance, PutOut, bytes
  <2>2. /\ q \in Int /\ 0 <= q - (p - head) /\ q < p
        /\ \A i \in 0 .. p - head - 1 : memory[q - (p - head) + i] = original[head + i]
        /\ output \in Seq(Bytes)
    BY <1>7 DEF ScanInv, CopyInv
  <2>3. memory' \in [Addresses -> Bytes]
    <3>1. ASSUME NEW a \in Addresses, a \in q .. q + n - 1
          PROVE  bytes[a - q + 1] \in Bytes
      <4>1. a - q + 1 \in 1 .. Len(bytes)
        BY <1>5, <2>2, <3>1
      <4> QED
        BY <1>5, <4>1, ElementOfSeq
    <3> QED
      BY <1>1, <2>1, <3>1
  <2>4. ASSUME NEW a \in p + n .. end
        PROVE  memory'[a] = original[a]
    <3>1. a \in Addresses /\ a \notin q .. q + n - 1 /\ a \in p .. end
      BY <1>1, <1>3, <2>2
    <3> QED
      BY <1>1, <2>1, <3>1
  <2>5. PlaceInv'
    BY <1>1, <1>2, <1>4, <2>3, <2>4 DEF PlaceInv
  <2>6. q' - (p' - head') = q - (p - head) /\ q' \in Int /\ q' < p'
    BY <1>1, <1>2, <2>1, <2>2
  <2>7. ASSUME NEW i \in 0 .. p + n - head - 1
        PROVE  memory'[q - (p - head) + i] = original[head + i]
    <3> DEFINE a == q - (p - head) + i
    <3>1. a \in Addresses
      BY <1>1, <2>2
    <3>2. CASE i < p - head
      <4>1. i \in 0 .. p - head - 1 /\ a \notin q .. q + n - 1
        BY <1>1, <2>2, <3>2
      <4>2. memory[a] = original[head + i]
        BY <2>2, <4>1
      <4>3. memory'[a] = memory[a]
        <5> HIDE DEF a
        <5> QED
          BY <1>1, <2>1, <3>1, <4>1
      <4> QED
        BY <4>2, <4>3
    <3>3. CASE ~(i < p - head)
      <4>1. a \in q .. q + n - 1 /\ a - q + 1 \in 1 .. n /\ p + (a - q + 1) - 1 = head + i
        BY <1>1, <2>2, <3>3
      <4>2. memory'[a] = bytes[a - q + 1]
        <5> HIDE DEF a
        <5> QED
          BY <1>1, <2>1, <3>1, <4>1
      <4>3. bytes[a - q + 1] = original[p + (a - q + 1) - 1]
        <5> HIDE DEF a
        <5> QED
          BY <1>5, <4>1
      <4> QED
        BY <4>1, <4>2, <4>3
    <3> QED
      BY <3>2, <3>3
  <2>8. CopyInv'
    <3>1. p' - head' - 1 = p + n - head - 1
      BY <1>1, <1>2
    <3>2. ASSUME NEW i \in 0 .. p' - head' - 1
          PROVE  memory'[q' - (p' - head') + i] = original'[head' + i]
      <4>1. memory'[q - (p - head) + i] = original[head + i]
        BY <2>7, <3>1, <3>2
      <4>2. q' - (p' - head') = q - (p - head) /\ head' = head /\ original' = original
        BY <1>2, <2>6
      <4> QED
        BY <4>1, <4>2
    <3>3. 0 <= q' - (p' - head')
      BY <2>2, <2>6
    <3> QED
      BY <1>2, <1>7, <2>1, <2>2, <2>6, <3>2, <3>3 DEF CopyInv
  <2> QED
    BY <1>6, <2>5, <2>8
<1>8. CASE routine \in {"CopyToStack", "Write"}
  <2>1. output' = output \o bytes /\ memory' = memory
    BY <1>8 DEF Advance, PutOut, bytes
  <2>2. /\ output \in Seq(Bytes) /\ Len(output) = p - head
        /\ \A i \in 1 .. p - head : output[i] = original[head + i - 1]
    BY <1>8 DEF ScanInv, CopyInv
  <2>3. /\ output' \in Seq(Bytes) /\ Len(output') = p - head + n
        /\ \A i \in 1 .. p - head + n :
             output'[i] = IF i <= p - head THEN output[i] ELSE bytes[i - (p - head)]
    <3>1. /\ output \o bytes \in Seq(Bytes)
          /\ Len(output \o bytes) = Len(output) + Len(bytes)
          /\ \A i \in 1 .. Len(output) + Len(bytes) :
               (output \o bytes)[i] = IF i <= Len(output) THEN output[i]
                                     ELSE bytes[i - Len(output)]
      BY <1>5, <2>2, ConcatProperties
    <3>2. Len(output) = p - head /\ Len(bytes) = n
      BY <1>5, <2>2
    <3> QED
      BY <2>1, <3>1, <3>2
  <2>4. ASSUME NEW i \in 1 .. p - head + n
        PROVE  output'[i] = original[head + i - 1]
    <3>1. CASE i <= p - head
      BY <1>1, <2>2, <2>3, <3>1
    <3>2. CASE ~(i <= p - head)
      <4>1. i - (p - head) \in 1 .. n /\ p + (i - (p - head)) - 1 = head + i - 1
        BY <1>1, <3>2
      <4> QED
        BY <1>5, <2>3, <3>2, <4>1
    <3> QED
      BY <3>1, <3>2
  <2>5. PlaceInv'
    BY <1>1, <1>2, <1>4, <2>1 DEF PlaceInv
  <2>6. CopyInv'
    BY <1>1, <1>2, <1>8, <2>3, <2>4 DEF CopyInv
  <2> QED
    BY <1>6, <2>5, <2>6
<1>9. CASE routine \notin {"CopyInPlace", "CopyToStack", "Write"}
  <2>1. memory' = memory /\ output' = output
    BY <1>9 DEF Advance, PutOut
  <2>2. PlaceInv'
    BY <1>1, <1>2, <1>4, <2>1 DEF PlaceInv
  <2>3. CopyInv'
    BY <1>2, <1>9, <2>1 DEF ScanInv, CopyInv
  <2> QED
    BY <1>6, <2>2, <2>3
<1> QED
  BY <1>7, <1>8, <1>9

-----------------------------------------------------------------------------
(* Steps.                                                                  *)

\* No routine passes the terminator.
LEMMA NotPastTheEnd ==
  ASSUME ScanInv
  PROVE  /\ head \in Nat /\ end \in Nat /\ p \in head .. end
         /\ memory[end] = "stop"
         /\ memory[p] = original[p]
BY DEF ScanInv, TextInv, PlaceInv

\* One byte (reader.h:292-297, 1073-1079).
LEMMA ByteKeeps ==
  ASSUME ScanInv, Byte
  PROVE  ScanInv'
<1>1. CASE memory[p] = "stop"
  <2>1. /\ UNCHANGED <<routine, head, end, original, memory, p, q, output>>
    BY <1>1 DEF Byte, Same
  <2>2. original[p] = "stop"
    BY <1>1, NotPastTheEnd
  <2> QED
    BY <2>1, <2>2 DEF ScanInv, TextInv, PlaceInv, CopyInv, EndInv, Addresses
<1>2. CASE memory[p] # "stop"
  <2>1. Advance(1) /\ ~done'
    BY <1>2 DEF Byte, Advance
  <2>2. p + 1 <= end /\ \A a \in p .. p + 1 - 1 : memory[a] # "stop"
    BY <1>2, NotPastTheEnd
  <2>3. TextInv' /\ PlaceInv' /\ CopyInv'
    BY <2>1, <2>2, AdvanceKeeps
  <2> QED
    BY <2>1, <2>3 DEF ScanInv, EndInv
<1> QED
  BY <1>1, <1>2

\* A block is left at its first byte that is looked for, if it has one
\* (reader.h:300-318, 1082-1110).
LEMMA BlockKeeps ==
  ASSUME ScanInv, Block
  PROVE  ScanInv'
<1> DEFINE stops == {i \in 0 .. Width - 1 : memory[p + i] = "stop"}
           n == IF stops = {} THEN Width ELSE CHOOSE i \in stops : \A j \in stops : i <= j
<1>1. Advance(n) /\ done' = (stops # {})
  BY DEF Block, Advance
<1>2. /\ head \in Nat /\ end \in Nat /\ p \in head .. end
      /\ memory[end] = "stop"
  BY NotPastTheEnd
<1>3. /\ n \in Nat /\ p + n <= end
      /\ \A a \in p .. p + n - 1 : memory[a] # "stop"
      /\ stops # {} => memory[p + n] = "stop"
  <2>1. CASE stops = {}
    <3>1. n = Width
      BY <2>1
    <3>2. \A a \in p .. p + Width - 1 : memory[a] # "stop"
      <4>1. ASSUME NEW a \in p .. p + Width - 1, memory[a] = "stop"
            PROVE  a - p \in stops
        <5>1. a - p \in 0 .. Width - 1 /\ p + (a - p) = a
          BY <1>2
        <5> QED
          BY <4>1, <5>1
      <4> HIDE DEF stops
      <4> QED
        BY <2>1, <4>1
    <3>3. p + Width <= end
      BY <1>2, <3>2
    <3> QED
      BY <2>1, <3>1, <3>2, <3>3
  <2>2. CASE stops # {}
    <3>1. stops \subseteq Nat
      OBVIOUS
    <3>2. \E i \in stops : \A j \in stops : i <= j
      <4> HIDE DEF stops
      <4> QED
        BY <2>2, <3>1, LeastNat
    <3>3. n \in stops /\ \A j \in stops : n <= j
      <4>1. n = CHOOSE i \in stops : \A j \in stops : i <= j
        BY <2>2
      <4> HIDE DEF n, stops
      <4> QED
        BY <3>2, <4>1
    <3> HIDE DEF n
    <3>4. n \in 0 .. Width - 1 /\ memory[p + n] = "stop"
      BY <3>3
    <3>5. ASSUME NEW a \in p .. p + n - 1
          PROVE  memory[a] # "stop"
      <4>1. a - p \in 0 .. Width - 1 /\ p + (a - p) = a /\ ~(n <= a - p)
        BY <1>2, <3>4
      <4> QED
        BY <3>3, <4>1
    <3>6. p + n <= end
      BY <1>2, <3>4, <3>5
    <3> QED
      BY <3>4, <3>5, <3>6
  <2> QED
    BY <2>1, <2>2
<1> HIDE DEF n
<1>4. TextInv' /\ PlaceInv' /\ CopyInv'
  BY <1>1, <1>3, AdvanceKeeps
<1>5. stops # {} => original'[p'] = "stop"
  <2>1. p + n \in p .. end /\ p' = p + n /\ original' = original
    BY <1>1, <1>2, <1>3 DEF Advance, Same
  <2> HIDE DEF stops
  <2> QED
    BY <1>3, <2>1 DEF ScanInv, PlaceInv
<1> HIDE DEF stops
<1> QED
  BY <1>1, <1>4, <1>5 DEF ScanInv, EndInv

\* The bytes behind the last block (reader.h:352-356).
LEMMA RestKeeps ==
  ASSUME ScanInv, Rest
  PROVE  ScanInv'
<1>1. CASE routine = "SkipBounded" /\ p # end /\ memory[p] # "stop"
  <2>1. Advance(1) /\ ~done'
    BY <1>1 DEF Rest, Advance, PutOut
  <2>2. p + 1 <= end /\ \A a \in p .. p + 1 - 1 : memory[a] # "stop"
    BY <1>1, NotPastTheEnd
  <2>3. TextInv' /\ PlaceInv' /\ CopyInv'
    BY <2>1, <2>2, AdvanceKeeps
  <2> QED
    BY <2>1, <2>3 DEF ScanInv, EndInv
<1>2. CASE ~(routine = "SkipBounded" /\ p # end /\ memory[p] # "stop")
  <2>1. /\ UNCHANGED <<routine, head, end, original, memory, p, q, output>>
    BY <1>2 DEF Rest, Same
  <2>2. routine = "Write" \/ original[p] = "stop"
    BY <1>2, NotPastTheEnd DEF Rest, BlockFits, ScanInv, TextInv, Routines
  <2> QED
    BY <2>1, <2>2 DEF ScanInv, TextInv, PlaceInv, CopyInv, EndInv, Addresses
<1> QED
  BY <1>1, <1>2

\* A writer that declines has put nothing out (writer.h:577-581).
LEMMA DeclineKeeps ==
  ASSUME ScanInv, Decline
  PROVE  ScanInv'
<1>1. /\ UNCHANGED <<routine, head, end, original, memory, p, q, output>>
      /\ routine = "Write"
  BY DEF Decline, TooShort, Same
<1> QED
  BY <1>1 DEF ScanInv, TextInv, PlaceInv, CopyInv, EndInv, Addresses

\* Every step keeps the invariant.
LEMMA NextScanInv ==
  ASSUME ScanInv, [Next]_vars
  PROVE  ScanInv'
<1>1. CASE Next
  <2>1. Step
    BY <1>1 DEF Next, SkipWhitespace_SIMD, ScanCopyUnescapedString,
                ScanCopyUnescapedStringInsitu, SkipUnescapedString, ScanWriteUnescapedString
  <2> QED
    BY <2>1, ByteKeeps, BlockKeeps, RestKeeps, DeclineKeeps DEF Step
<1>2. CASE UNCHANGED vars
  BY <1>2 DEF vars, ScanInv, TextInv, PlaceInv, CopyInv, EndInv, Addresses
<1> QED
  BY <1>1, <1>2

-----------------------------------------------------------------------------
(* What a scan finds and puts out.                                         *)

\* The loop without blocks stops in the text, behind all that has been passed.
LEMMA FirstStopProperties ==
  ASSUME ScanInv
  PROVE  /\ FirstStop \in p .. end
         /\ original[p] = "stop" => FirstStop = p
<1>1. /\ head \in Nat /\ end \in Nat /\ p \in head .. end
      /\ original[end] = "stop"
      /\ 0 .. end \subseteq Addresses
      /\ original \in [Addresses -> Bytes]
      /\ \A a \in head .. p - 1 : original[a] = "go"
  BY DEF ScanInv, TextInv, PlaceInv
<1>2. \E a \in head .. end :
        original[a] = "stop" /\ \A b \in head .. a - 1 : original[b] = "go"
  <2> DEFINE S == {a \in head .. end : original[a] = "stop"}
  <2>1. S \subseteq Nat /\ end \in S
    BY <1>1
  <2>2. PICK a \in S : \A b \in S : a <= b
    <3> HIDE DEF S
    <3> QED
      BY <2>1, LeastNat
  <2>3. ASSUME NEW b \in head .. a - 1
        PROVE  original[b] = "go"
    <3>1. b \in head .. end /\ b \notin S /\ b \in Addresses
      BY <1>1, <2>2, <2>3
    <3> QED
      BY <1>1, <3>1 DEF Bytes
  <2> QED
    BY <2>2, <2>3
<1>3. /\ FirstStop \in head .. end
      /\ original[FirstStop] = "stop"
      /\ \A b \in head .. FirstStop - 1 : original[b] = "go"
  BY <1>2 DEF FirstStop
<1>4. FirstStop \in p .. end
  BY <1>1, <1>3
<1>5. ASSUME original[p] = "stop" PROVE FirstStop = p
  BY <1>1, <1>3, <1>4, <1>5
<1> QED
  BY <1>4, <1>5

\* What the invariant says of a scan is what a caller relies on.
LEMMA ScanInvIsEnough == ScanInv => StopsAtFirst /\ CopiesWhatItPasses
<1> SUFFICES ASSUME ScanInv PROVE StopsAtFirst /\ CopiesWhatItPasses
  OBVIOUS
<1>1. head \in Nat /\ end \in Nat /\ p \in head .. end
  BY NotPastTheEnd
<1>2. StopsAtFirst
  BY <1>1, FirstStopProperties DEF ScanInv, EndInv, StopsAtFirst
<1>3. routine \in {"CopyToStack", "Write"} =>
        output = [i \in 1 .. p - head |-> original[head + i - 1]]
  <2> SUFFICES ASSUME routine \in {"CopyToStack", "Write"}
               PROVE  output = [i \in 1 .. p - head |-> original[head + i - 1]]
    OBVIOUS
  <2>1. /\ output \in Seq(Bytes) /\ Len(output) = p - head
        /\ \A i \in 1 .. p - head : output[i] = original[head + i - 1]
    BY DEF ScanInv, CopyInv
  <2>2. output \in [1 .. p - head -> Bytes]
    BY <2>1, LenProperties
  <2> QED
    BY <2>1, <2>2
<1> QED
  BY <1>2, <1>3 DEF CopiesWhatItPasses, ScanInv, CopyInv, PlaceInv

\* The part of the property that needs no division.
LEMMA ScansStopAndCopy ==
  Spec => [](StopsAtFirst /\ CopiesWhatItPasses)
<1>1. Init => ScanInv
  BY InitScanInv
<1>2. ScanInv /\ [Next]_vars => ScanInv'
  BY NextScanInv
<1> QED
  BY <1>1, <1>2, ScanInvIsEnough, PTL DEF Spec

-----------------------------------------------------------------------------
(* Blocks.                                                                 *)

\* Multiples of a width are that width apart.
LEMMA MultiplesApart ==
  ASSUME NEW w \in Nat, NEW x \in Nat, NEW y \in Nat, x < y
  PROVE  w * x + w <= w * y
<1> DEFINE d == y - x - 1
<1>1. d \in Nat /\ y = x + 1 + d
  OBVIOUS
<1> HIDE DEF d
<1>2. w * y = w * x + w + w * d
  BY <1>1
<1>3. w * d \in Nat /\ w * x \in Nat
  BY <1>1
<1> QED
  BY <1>2, <1>3

\* An address is in one block, at one place.
LEMMA BlockOfAddress ==
  ASSUME NEW a \in Nat
  PROVE  /\ a \div Width \in Nat /\ a % Width \in 0 .. Width - 1
         /\ Width * (a \div Width) \in Nat
         /\ a = Width * (a \div Width) + (a % Width)
OBVIOUS

\* What is an address in a block, at a place, is so in no other way.
LEMMA OneBlock ==
  ASSUME NEW a \in Nat, NEW k \in Nat, NEW r \in 0 .. Width - 1,
         a = Width * k + r
  PROVE  a \div Width = k /\ a % Width = r
<1> DEFINE j == a \div Width
           s == a % Width
<1>1. j \in Nat /\ s \in 0 .. Width - 1 /\ a = Width * j + s /\ Width * j \in Nat
  BY BlockOfAddress
<1> HIDE DEF j, s
<1>2. Width * k \in Nat
  OBVIOUS
<1>3. CASE k < j
  <2>1. Width * k + Width <= Width * j
    BY <1>1, <1>3, MultiplesApart
  <2> QED
    BY <1>1, <1>2, <2>1
<1>4. CASE j < k
  <2>1. Width * j + Width <= Width * k
    BY <1>1, <1>4, MultiplesApart
  <2> QED
    BY <1>1, <1>2, <2>1
<1>5. CASE j = k
  BY <1>1, <1>5 DEF j, s
<1> QED
  BY <1>1, <1>3, <1>4, <1>5

\* Blocks are in the order of their addresses.
LEMMA BlocksInOrder ==
  ASSUME NEW a \in Nat, NEW b \in Nat, a <= b
  PROVE  a \div Width <= b \div Width
<1> DEFINE j == a \div Width
           s == a % Width
           k == b \div Width
           r == b % Width
<1>1. j \in Nat /\ s \in 0 .. Width - 1 /\ a = Width * j + s /\ Width * j \in Nat
  BY BlockOfAddress
<1>2. k \in Nat /\ r \in 0 .. Width - 1 /\ b = Width * k + r /\ Width * k \in Nat
  BY BlockOfAddress
<1> HIDE DEF j, s, k, r
<1>3. ~(k < j)
  <2> SUFFICES ASSUME k < j PROVE FALSE
    OBVIOUS
  <2>1. Width * k + Width <= Width * j
    BY <1>1, <1>2, MultiplesApart
  <2> QED
    BY <1>1, <1>2, <2>1
<1>4. j <= k
  BY <1>1, <1>2, <1>3
<1> QED
  BY <1>4 DEF j, k

\* The block that begins at an aligned address, and the next.
LEMMA AlignedBlock ==
  ASSUME NEW a \in Nat, Aligned(a)
  PROVE  /\ \A b \in a .. a + Width - 1 : b \div Width = a \div Width
         /\ Aligned(a + Width)
         /\ NextAligned(a) = a
         /\ \A e \in Nat : a <= e /\ a # (e \div Width) * Width => a + Width <= e
<1> DEFINE j == a \div Width
<1>1. j \in Nat /\ Width * j \in Nat /\ a = Width * j
  BY BlockOfAddress DEF Aligned
<1> HIDE DEF j
<1>2. ASSUME NEW b \in a .. a + Width - 1
      PROVE  b \div Width = j
  <2>1. b \in Nat /\ b - a \in 0 .. Width - 1 /\ b = Width * j + (b - a)
    BY <1>1
  <2> QED
    BY <1>1, <2>1, OneBlock
<1>3. Aligned(a + Width)
  <2>1. Width * (j + 1) = Width * j + Width
    BY <1>1
  <2>2. a + Width \in Nat /\ j + 1 \in Nat /\ 0 \in 0 .. Width - 1
        /\ a + Width = Width * (j + 1) + 0
    BY <1>1, <2>1
  <2>3. (a + Width) % Width = 0
    BY <2>2, OneBlock
  <2> QED
    BY <2>3 DEF Aligned
<1>4. NextAligned(a) = a
  <2>1. a + Width - 1 \in a .. a + Width - 1
    BY <1>1
  <2>2. (a + Width - 1) \div Width = j
    BY <1>2, <2>1
  <2>3. j * Width = Width * j
    BY <1>1
  <2> QED
    BY <1>1, <2>2, <2>3 DEF NextAligned
<1>5. ASSUME NEW e \in Nat, a <= e, a # (e \div Width) * Width
      PROVE  a + Width <= e
  <2> DEFINE k == e \div Width
             r == e % Width
  <2>1. k \in Nat /\ r \in 0 .. Width - 1 /\ e = Width * k + r /\ Width * k \in Nat
    BY BlockOfAddress
  <2>2. j <= k
    BY <1>5, BlocksInOrder DEF j
  <2>3. a # k * Width
    BY <1>5
  <2> HIDE DEF k, r
  <2>4. k * Width = Width * k
    BY <2>1
  <2>5. j < k
    BY <1>1, <2>1, <2>2, <2>3, <2>4
  <2>6. Width * j + Width <= Width * k
    BY <1>1, <2>1, <2>5, MultiplesApart
  <2> QED
    BY <1>1, <2>1, <2>6
<1> QED
  BY <1>2, <1>3, <1>4, <1>5 DEF j

\* The first aligned address from a on.
LEMMA NextAlignedProperties ==
  ASSUME NEW a \in Nat
  PROVE  NextAligned(a) \in Nat /\ a <= NextAligned(a) /\ Aligned(NextAligned(a))
<1> DEFINE b == a + Width - 1
           k == b \div Width
           r == b % Width
           x == k * Width
<1>1. b \in Nat /\ b = a + Width - 1
  OBVIOUS
<1>2. k \in Nat /\ r \in 0 .. Width - 1 /\ b = Width * k + r /\ Width * k \in Nat
  BY <1>1, BlockOfAddress
<1>3. NextAligned(a) = x
  BY DEF NextAligned
<1> HIDE DEF b, k, r
<1>4. x \in Nat /\ x = Width * k
  BY <1>2
<1> HIDE DEF x
<1>5. a <= x
  BY <1>1, <1>2, <1>4
<1>6. 0 \in 0 .. Width - 1 /\ x = Width * k + 0
  BY <1>2, <1>4
<1>7. x % Width = 0
  BY <1>2, <1>4, <1>6, OneBlock
<1> QED
  BY <1>3, <1>4, <1>5, <1>7 DEF Aligned

-----------------------------------------------------------------------------
(* What a scan reads.                                                      *)

InReach(a) ==
  IF routine \in {"SkipBounded", "Write"} THEN a \in head .. end - 1
  ELSE a \div Width \in head \div Width .. end \div Width

\* A writer has passed its first bytes one by one, up to an aligned address in the
\* text, and goes from one aligned address to the next.
WriterInv ==
  routine = "Write" /\ ~done =>
    \/ p = head
    \/ NextAligned(head) <= end /\ (p < NextAligned(head) \/ Aligned(p))

ReachInv == ReadsStayInReach /\ WriterInv

\* One byte: what is in the text is in its blocks, and a writer is still before the
\* aligned address (reader.h:292-297, writer.h:589-603).
LEMMA ByteInReach ==
  ASSUME ScanInv, ReachInv, Byte
  PROVE  ReachInv'
<1>1. /\ head \in Nat /\ end \in Nat /\ p \in head .. end
      /\ UNCHANGED <<routine, head, end>>
      /\ reads' = reads \cup {p}
      /\ ~TooShort /\ ByteByByte /\ ~done
  BY NotPastTheEnd DEF Byte, Same
<1>2. NextAligned(head) \in Nat /\ head <= NextAligned(head) /\ Aligned(NextAligned(head))
  BY <1>1, NextAlignedProperties
<1>3. routine = "Write" => NextAligned(head) <= end /\ p < NextAligned(head)
  <2> SUFFICES ASSUME routine = "Write"
               PROVE  NextAligned(head) <= end /\ p < NextAligned(head)
    OBVIOUS
  <2>1. ~Aligned(p)
    BY <1>1 DEF ByteByByte
  <2>2. CASE p = head
    <3>1. NextAligned(head) <= end
      BY <1>1, <1>2, <2>2 DEF TooShort
    <3>2. p # NextAligned(head)
      BY <1>2, <2>1
    <3> HIDE DEF NextAligned
    <3> QED
      BY <1>1, <1>2, <2>2, <3>1, <3>2
  <2>3. CASE p # head
    BY <1>1, <2>1, <2>3 DEF ReachInv, WriterInv
  <2> QED
    BY <2>2, <2>3
<1>4. InReach(p)
  <2>1. CASE routine = "SkipBounded"
    BY <1>1, <2>1 DEF InReach, ByteByByte
  <2>2. CASE routine = "Write"
    BY <1>1, <1>2, <1>3, <2>2 DEF InReach
  <2>3. CASE routine \notin {"SkipBounded", "Write"}
    <3>1. head \div Width <= p \div Width /\ p \div Width <= end \div Width
      BY <1>1, BlocksInOrder
    <3>2. head \div Width \in Nat /\ p \div Width \in Nat /\ end \div Width \in Nat
      BY <1>1, BlockOfAddress
    <3>3. p \div Width \in head \div Width .. end \div Width
      BY <3>1, <3>2
    <3> QED
      BY <2>3, <3>3 DEF InReach
  <2> QED
    BY <2>1, <2>2, <2>3
<1>5. ReadsStayInReach'
  BY <1>1, <1>4 DEF ReachInv, ReadsStayInReach, InReach
<1>6. WriterInv'
  <2> SUFFICES ASSUME routine = "Write", ~done'
               PROVE  NextAligned(head) <= end /\ (p' < NextAligned(head) \/ Aligned(p'))
    BY <1>1 DEF WriterInv, NextAligned, Aligned
  <2>1. p' = p + 1
    BY DEF Byte
  <2>2. p + 1 = NextAligned(head) \/ p + 1 < NextAligned(head)
    BY <1>1, <1>2, <1>3
  <2> QED
    BY <1>2, <1>3, <2>1, <2>2
<1> QED
  BY <1>5, <1>6 DEF ReachInv

\* A block: it begins at an aligned address, or the end of the text is known
\* (reader.h:300-318, 337-350, writer.h:607-638).
LEMMA BlockInReach ==
  ASSUME ScanInv, ReachInv, Block
  PROVE  ReachInv'
<1>1. /\ head \in Nat /\ end \in Nat /\ p \in head .. end
      /\ UNCHANGED <<routine, head, end>>
      /\ reads' = reads \cup p .. p + Width - 1
      /\ ~TooShort /\ ~ByteByByte /\ BlockFits /\ ~done
  BY NotPastTheEnd DEF Block, Same
<1>2. routine # "SkipBounded" => Aligned(p)
  BY <1>1 DEF ByteByByte
<1>3. CASE routine = "SkipBounded"
  <2>1. p + Width <= end
    BY <1>1, <1>3 DEF BlockFits
  <2>2. \A a \in p .. p + Width - 1 : InReach(a)
    BY <1>1, <1>3, <2>1 DEF InReach
  <2>3. ReadsStayInReach'
    BY <1>1, <2>2 DEF ReachInv, ReadsStayInReach, InReach
  <2> QED
    BY <1>1, <1>3, <2>3 DEF ReachInv, WriterInv
<1>4. CASE routine = "Write"
  <2>1. p + Width <= end
    <3>1. p # (end \div Width) * Width
      BY <1>1, <1>4 DEF BlockFits, EndAligned
    <3>2. p \in Nat /\ p <= end /\ Aligned(p)
      BY <1>1, <1>2, <1>4
    <3> QED
      BY <1>1, <3>1, <3>2, AlignedBlock
  <2>2. \A a \in p .. p + Width - 1 : InReach(a)
    BY <1>1, <1>4, <2>1 DEF InReach
  <2>3. ReadsStayInReach'
    BY <1>1, <2>2 DEF ReachInv, ReadsStayInReach, InReach
  <2>4. NextAligned(head) <= end
    <3>1. CASE p = head
      BY <1>1, <1>2, <1>4, <3>1, AlignedBlock
    <3>2. CASE p # head
      BY <1>1, <1>4, <3>2 DEF ReachInv, WriterInv
    <3> QED
      BY <3>1, <3>2
  <2>5. ~done' => Aligned(p')
    <3> SUFFICES ASSUME ~done' PROVE Aligned(p')
      OBVIOUS
    <3>1. {i \in 0 .. Width - 1 : memory[p + i] = "stop"} = {}
      BY DEF Block
    <3>2. p' = p + Width
      BY <3>1 DEF Block
    <3> QED
      BY <1>1, <1>2, <1>4, <3>2, AlignedBlock
  <2>6. WriterInv'
    BY <1>1, <2>4, <2>5 DEF WriterInv, NextAligned, Aligned
  <2> QED
    BY <2>3, <2>6 DEF ReachInv
<1>5. CASE routine \notin {"SkipBounded", "Write"}
  <2>1. \A a \in p .. p + Width - 1 : a \div Width = p \div Width
    <3>1. p \in Nat /\ Aligned(p)
      BY <1>1, <1>2, <1>5
    <3> QED
      BY <3>1, AlignedBlock
  <2>2. head \div Width <= p \div Width /\ p \div Width <= end \div Width
    BY <1>1, BlocksInOrder
  <2>3. head \div Width \in Nat /\ p \div Width \in Nat /\ end \div Width \in Nat
    BY <1>1, BlockOfAddress
  <2>4. p \div Width \in head \div Width .. end \div Width
    BY <2>2, <2>3
  <2>5. \A a \in p .. p + Width - 1 : InReach(a)
    BY <1>5, <2>1, <2>4 DEF InReach
  <2>6. ReadsStayInReach'
    BY <1>1, <2>5 DEF ReachInv, ReadsStayInReach, InReach
  <2> QED
    BY <1>1, <1>5, <2>6 DEF ReachInv, WriterInv
<1> QED
  BY <1>3, <1>4, <1>5

\* The bytes behind the last block (reader.h:352-356).
LEMMA RestInReach ==
  ASSUME ScanInv, ReachInv, Rest
  PROVE  ReachInv'
<1>1. /\ head \in Nat /\ end \in Nat /\ p \in head .. end
      /\ UNCHANGED <<routine, head, end>>
  BY NotPastTheEnd DEF Rest, Same
<1>2. CASE routine = "SkipBounded" /\ p # end /\ memory[p] # "stop"
  <2>1. reads' = reads \cup {p} /\ InReach(p)
    BY <1>1, <1>2 DEF Rest, InReach
  <2>2. ReadsStayInReach'
    BY <1>1, <2>1 DEF ReachInv, ReadsStayInReach, InReach
  <2> QED
    BY <1>1, <1>2, <2>2 DEF ReachInv, WriterInv
<1>3. CASE ~(routine = "SkipBounded" /\ p # end /\ memory[p] # "stop")
  BY <1>1, <1>3 DEF Rest, ReachInv, ReadsStayInReach, WriterInv
<1> QED
  BY <1>2, <1>3

\* Every step keeps what is said of the reads.
LEMMA NextReachInv ==
  ASSUME ScanInv, ReachInv, [Next]_vars
  PROVE  ReachInv'
<1>1. CASE Next
  <2>1. Step
    BY <1>1 DEF Next, SkipWhitespace_SIMD, ScanCopyUnescapedString,
                ScanCopyUnescapedStringInsitu, SkipUnescapedString, ScanWriteUnescapedString
  <2>2. ASSUME Decline PROVE ReachInv'
    BY <2>2 DEF Decline, Same, ReachInv, ReadsStayInReach, WriterInv
  <2> QED
    BY <2>1, <2>2, ByteInReach, BlockInReach, RestInReach DEF Step
<1>2. CASE UNCHANGED vars
  BY <1>2 DEF vars, ReachInv, ReadsStayInReach, WriterInv, NextAligned, Aligned
<1> QED
  BY <1>1, <1>2

\* No byte is read out of reach.
LEMMA ScansStayInReach ==
  Spec => []ReadsStayInReach
<1>1. Init => ScanInv /\ ReachInv
  BY InitScanInv DEF Init, ReachInv, ReadsStayInReach, WriterInv
<1>2. ScanInv /\ ReachInv /\ [Next]_vars => (ScanInv /\ ReachInv)'
  BY NextScanInv, NextReachInv
<1>3. ReachInv => ReadsStayInReach
  BY DEF ReachInv
<1> QED
  BY <1>1, <1>2, <1>3, PTL DEF Spec

\* Scanning in blocks finds what scanning byte by byte finds, puts out the bytes that it
\* passes, though source and destination may overlap, and reads nothing outside the
\* blocks its text is in, or outside the text if it is given its end: for blocks of every
\* width, texts of every length and place (reader.h:279-497, 1061-1391; writer.h:572-701).
THEOREM ScansCorrect == Spec => []ScansAgree
BY ScansStopAndCopy, ScansStayInReach, PTL DEF ScansAgree

=============================================================================
