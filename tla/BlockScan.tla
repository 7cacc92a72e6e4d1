------------------------------ MODULE BlockScan ------------------------------
(***************************************************************************)
(* The scanning loops that RapidJSON compiles for SSE2, SSE4.2 and NEON    *)
(* (reader.h:279-497, 1061-1391; writer.h:572-701): whole blocks of bytes  *)
(* are compared at once, from the first address that is a multiple of the  *)
(* block on, or to the last one.  A byte either is looked for ("stop") or  *)
(* is not ("go"); the text ends with a terminator, which is looked for.    *)
(***************************************************************************)
EXTENDS Integers, Sequences

CONSTANTS
  Width,      \* bytes in a block, 16 in the code
  MaxLength,  \* bound on the bytes of a text
  MaxGap      \* how far the destination of an in-situ copy is behind its source

ASSUME ScanAssumption == Width \in Nat \ {0} /\ MaxLength \in Nat /\ MaxGap \in Nat

VARIABLES
  routine,
  head, end,  \* where the text begins, and where its terminator is
  memory,     \* the bytes
  original,   \* history: the bytes at the start
  p,          \* is.src_: what is looked at next
  q,          \* is.dst_, or the length of what has been put out
  output,     \* what has been pushed on a stack or a buffer
  reads,      \* history: the addresses that have been read
  done

vars == <<routine, head, end, memory, original, p, q, output, reads, done>>

\* SkipWhitespace_SIMD(p) and (p, end); ScanCopyUnescapedString to a stack and in
\* place; SkipUnescapedString; ScanWriteUnescapedString.
Routines == {"Skip", "SkipBounded", "CopyToStack", "CopyInPlace", "SkipInPlace", "Write"}

Aligned(a) == a % Width = 0

NextAligned(a) == ((a + Width - 1) \div Width) * Width

EndAligned == (end \div Width) * Width

\* Variant: a block that begins in the text is compared whole.
BlockBegins ==
  CASE routine = "SkipBounded" -> p < end
    [] routine = "Write" -> p < end
    [] OTHER -> TRUE

\* A whole block may be compared: SkipBounded takes it anywhere in the text, Write
\* up to the last aligned address, the others anywhere up to the terminator's block.
BlockFits ==
  CASE routine = "SkipBounded" -> p + Width <= end
    [] routine = "Write" -> p # EndAligned
    [] OTHER -> TRUE

\* The bytes in front of the blocks are compared one by one: SkipBounded looks at
\* one byte only.
ByteByByte == IF routine = "SkipBounded" THEN p = head /\ p # end ELSE ~Aligned(p)

Copies == routine \in {"CopyToStack", "CopyInPlace", "Write"}

\* Put the n bytes at p behind what has been put out: in place, over the text.
PutOut(n) ==
  LET bytes == [i \in 1 .. n |-> memory[p + i - 1]]
  IN  CASE routine = "CopyInPlace" ->
             /\ memory' = [a \in DOMAIN memory |->
                             IF a \in q .. q + n - 1 THEN bytes[a - q + 1] ELSE memory[a]]
             /\ q' = q + n
             /\ UNCHANGED output
        [] routine \in {"CopyToStack", "Write"} ->
             output' = output \o bytes /\ UNCHANGED <<memory, q>>
        [] OTHER -> UNCHANGED <<memory, output, q>>

Same == UNCHANGED <<routine, head, end, original>>

\* A writer leaves a text that is shorter than a block to the loop that calls it,
\* and one without an aligned address.
TooShort == routine = "Write" /\ p = head /\ (end - head < Width \/ NextAligned(p) > end)

Decline ==
  /\ ~done /\ TooShort
  /\ done' = TRUE
  /\ Same /\ UNCHANGED <<memory, p, q, output, reads>>

Byte ==
  /\ ~done /\ ~TooShort /\ ByteByByte
  /\ reads' = reads \cup {p}
  /\ IF memory[p] = "stop"
     THEN done' = TRUE /\ UNCHANGED <<memory, p, q, output>>
     ELSE PutOut(1) /\ p' = p + 1 /\ UNCHANGED done
  /\ Same

\* Variant: the whole block is put out, wherever it stops.
BlockWhole ==
  /\ ~done /\ ~TooShort /\ ~ByteByByte /\ BlockFits
  /\ LET stops == {i \in 0 .. Width - 1 : memory[p + i] = "stop"}
         n     == IF stops = {} THEN Width ELSE CHOOSE i \in stops : \A j \in stops : i <= j
     IN  /\ reads' = reads \cup p .. p + Width - 1
         /\ PutOut(Width)
         /\ p' = p + n
         /\ done' = (stops # {})
  /\ Same

\* Variant: a block is left at the last byte that is looked for.
BlockLast ==
  /\ ~done /\ ~TooShort /\ ~ByteByByte /\ BlockFits
  /\ LET stops == {i \in 0 .. Width - 1 : memory[p + i] = "stop"}
         n     == IF stops = {} THEN Width ELSE CHOOSE i \in stops : \A j \in stops : i >= j
     IN  PutOut(n) /\ p' = p + n /\ done' = (stops # {})
  /\ Same /\ UNCHANGED reads

\* Variant: a block without a byte that is looked for is not passed.
BlockStays ==
  /\ ~done /\ ~TooShort /\ ~ByteByByte /\ BlockFits
  /\ reads' = reads \cup p .. p + Width - 1
  /\ done' = \E i \in 0 .. Width - 1 : memory[p + i] = "stop"
  /\ Same /\ UNCHANGED <<memory, p, q, output>>

Block ==
  /\ ~done /\ ~TooShort /\ ~ByteByByte /\ BlockFits
  /\ LET stops == {i \in 0 .. Width - 1 : memory[p + i] = "stop"}
         n     == IF stops = {} THEN Width ELSE CHOOSE i \in stops : \A j \in stops : i <= j
     IN  /\ reads' = reads \cup p .. p + Width - 1
         /\ PutOut(n)
         /\ p' = p + n
         /\ done' = (stops # {})
  /\ Same

\* Behind the last block SkipBounded goes on byte by byte, and Write returns.
Rest ==
  /\ ~done /\ ~TooShort /\ ~ByteByByte /\ ~BlockFits
  /\ IF routine = "SkipBounded" /\ p # end /\ memory[p] # "stop"
     THEN p' = p + 1 /\ reads' = reads \cup {p} /\ UNCHANGED done
     ELSE done' = TRUE /\ reads' = reads /\ UNCHANGED p
  /\ Same /\ UNCHANGED <<memory, q, output>>

\* A text somewhere in a block, with anything before it and behind its terminator.
Init ==
  /\ routine \in Routines
  /\ head \in MaxGap .. MaxGap + Width - 1
  /\ \E n \in 0 .. MaxLength : \E bytes \in [1 .. n -> {"go", "stop"}] :
       /\ end = head + n
       /\ memory = [a \in 0 .. MaxGap + MaxLength + 3 * Width |->
            IF a \in head .. end - 1 THEN bytes[a - head + 1]
            ELSE IF a = end THEN "stop" ELSE "go"]
  /\ original = memory
  /\ p = head
  /\ \E gap \in 1 .. MaxGap : q = IF routine = "CopyInPlace" THEN head - gap ELSE head
  /\ output = <<>>
  /\ reads = {}
  /\ done = FALSE

Step == Decline \/ Byte \/ Block \/ Rest

\* The routines, of which there is one for each instruction set.
SkipWhitespace_SIMD == routine \in {"Skip", "SkipBounded"} /\ Step

ScanCopyUnescapedString == routine = "CopyToStack" /\ Step

ScanCopyUnescapedStringInsitu == routine = "CopyInPlace" /\ Step

SkipUnescapedString == routine = "SkipInPlace" /\ Step

ScanWriteUnescapedString == routine = "Write" /\ Step

Next ==
  \/ SkipWhitespace_SIMD
  \/ ScanCopyUnescapedString \/ ScanCopyUnescapedStringInsitu \/ SkipUnescapedString
  \/ ScanWriteUnescapedString

Spec == Init /\ [][Next]_vars /\ WF_vars(Next)

-----------------------------------------------------------------------------
(* Properties.                                                             *)

\* The loop without blocks (reader.h:263-277): the first byte that is looked for.
FirstStop ==
  CHOOSE a \in head .. end : original[a] = "stop" /\ \A b \in head .. a - 1 : original[b] = "go"

\* A scan that is over has stopped where the loop without blocks stops; a writer may
\* stop before, and is then called for the next byte (writer.h:585, 604, 631).
StopsAtFirst ==
  done => IF routine = "Write" THEN p \in head .. FirstStop ELSE p = FirstStop

\* What is put out are the bytes that have been passed; in place, the bytes that
\* have not been passed are as they were, wherever the two overlap
\* (reader.h:1147-1168).
CopiesWhatItPasses ==
  /\ routine \in {"CopyToStack", "Write"} => output = [i \in 1 .. p - head |-> original[head + i - 1]]
  /\ routine = "CopyInPlace" =>
       \A i \in 0 .. p - head - 1 : memory[q - (p - head) + i] = original[head + i]
  /\ \A a \in p .. end : memory[a] = original[a]

\* No byte is read outside the blocks that the text is in, and none outside the text
\* by the routines that are given its end: a text may end where memory ends.
ReadsStayInReach ==
  \A a \in reads :
    IF routine \in {"SkipBounded", "Write"} THEN a \in head .. end - 1
    ELSE a \div Width \in head \div Width .. end \div Width

\* A scan in blocks stops where the loop without blocks stops, has put out the bytes it
\* has passed, and reads no byte outside the blocks that the text is in (reader.h:263-497,
\* 1061-1391; writer.h:572-701).
ScansAgree == StopsAtFirst /\ CopiesWhatItPasses /\ ReadsStayInReach

\* Every scan ends (reader.h:300, 1084: loops without a condition).
ScanEnds == <>done

=============================================================================
