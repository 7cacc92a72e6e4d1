------------------------------ MODULE MCJsonText ------------------------------
(***************************************************************************)
(* What is done with the text of JSON: it is read, written, its numbers    *)
(* are parsed, on stacks in the memory of a pool.  A behaviour is one of   *)
(* one part; the variables of the others stay as they are at the start.    *)
(***************************************************************************)
EXTENDS JsonReader, JsonNumber, PoolStack

VARIABLES
  part,
  writer, formatOptions, os, flushed, levels, hasRoot, calls, failed  \* JsonWriter

writing == <<writer, formatOptions, os, flushed, levels, hasRoot, calls, failed>>
allVars == <<part, vars, writing, numberVars, poolVars>>

None == "none"

NoWriter ==
  /\ writer = None /\ formatOptions = None /\ os = None /\ flushed = None
  /\ levels = None /\ hasRoot = None /\ calls = None /\ failed = None
NoNumber ==
  /\ mode = None /\ targetSize = None /\ taken = None /\ next = None /\ at = None
  /\ minus = None /\ sig = None /\ kind = None /\ word = None /\ nanOrInf = None
  /\ significandDigit = None /\ expFrac = None /\ exp = None /\ expMinus = None
  /\ backup = None /\ decimalPosition = None /\ event = None

-----------------------------------------------------------------------------
(* The parts.                                                              *)

Structure == {"[", "]", "{", "}", ",", ":", "s", "n", "x"}
StructureFlags == {{}, {"TrailingCommas"}, {"StopWhenDone"}}

\* Texts with comments are given whole.
CommentSymbols == {"[", "]", "n", "/", "*", "nl", ","}
CommentTexts == {Append(t, "end") : t \in UNION {[1 .. n -> CommentSymbols] : n \in 0 .. 5}}
CommentFlags == {{"Comments"}, {"Comments", "StopWhenDone"}}

MCChars    == Structure \cup {"end"}
MCTexts    == {<<>>} \cup CommentTexts
MCFlagSets == StructureFlags \cup CommentFlags

\* The reader of a behaviour that is of another part.
NoReader == text = <<>> /\ flags = {} /\ stop = 0 /\ parser = "IterativeParse" /\ Init

Writer == INSTANCE JsonWriter WITH
  Writers <- {"Writer", "PrettyWriter"}, FormatOptions <- {"Default", "SingleLineArray"},
  indentCharCount_ <- 2, MaxCalls <- 7

\* Every number of few characters; fractions and exponents of more; and exponents that
\* come near the end of their word.
MCNumberChars == {45, 46, 48, 49, 50, 51, 52, 54, 55, 57, 73, 78, 97, 101, 102, 110}
MCModes       == {"plain", "full", "strings", "insitu"}

Kinds == [number |-> [chars |-> MCNumberChars \ {57, 101}, length |-> 5, modes |-> {"plain"}],
          parts  |-> [chars |-> {45, 46, 48, 49, 57, 101}, length |-> 7, modes |-> MCModes],
          powers |-> [chars |-> {45, 46, 49, 57, 101}, length |-> 8, modes |-> {"plain"}]]

\* The characters of a kind of numbers, and no more than its length.
OfKind ==
  /\ mode \in Kinds[part].modes
  /\ next' \in Kinds[part].chars \cup {0}
  /\ Len(taken') = Kinds[part].length => next' = 0

-----------------------------------------------------------------------------

MCInit ==
  /\ PoolInit
  /\ \/ /\ part = "reader" /\ Init /\ NoWriter /\ NoNumber
        /\ IF text = <<>> THEN flags \in StructureFlags ELSE flags \in CommentFlags /\ stop \in {0, 2}
     \/ part = "writer" /\ Writer!Init /\ NoReader /\ NoNumber
     \/ /\ part \in DOMAIN Kinds /\ NumberInit /\ NoReader /\ NoWriter
        /\ mode \in Kinds[part].modes /\ next \in Kinds[part].chars \cup {0}
     \/ part = "pool" /\ NoReader /\ NoWriter /\ NoNumber

MCNext ==
  \/ part = "reader" /\ Next /\ UNCHANGED <<part, writing, numberVars, poolVars>>
  \/ part = "writer" /\ Writer!Next /\ UNCHANGED <<part, vars, numberVars, poolVars>>
  \/ part \in DOMAIN Kinds /\ NumberNext /\ OfKind /\ UNCHANGED <<part, vars, writing, poolVars>>
  \/ part = "pool" /\ PoolNext /\ UNCHANGED <<part, vars, writing, numberVars>>

MCSpec == MCInit /\ [][MCNext]_allVars

-----------------------------------------------------------------------------
(* The properties of the writer; those of the reader, of numbers and of    *)
(* the pool are stated with them.                                          *)

\* The reader makes of the output the calls the writer has had, String for RawNumber; a
\* line is indented by its nesting; and a complete output has been flushed to its end
\* (JsonWriter.OutputReadsBack, IndentIsNesting, CompleteIsFlushed, writer.h:472-497, prettywriter.h:208-250).
OutputReadsBack == part = "writer" =>
  /\ Writer!OutputReadsBack
  /\ Writer!IndentIsNesting
  /\ Writer!CompleteIsFlushed

=============================================================================
