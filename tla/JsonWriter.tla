------------------------------ MODULE JsonWriter ------------------------------
(***************************************************************************)
(* Writer and PrettyWriter (rapidjson/writer.h, prettywriter.h).  A writer *)
(* is called as a handler of events; a stack of levels tells it which      *)
(* separators to put.  The output is a sequence of the symbols JsonReader  *)
(* reads, so that what is written can be parsed.                           *)
(***************************************************************************)
EXTENDS Integers, Sequences, SequencesExt

CONSTANTS
  Writers,            \* of "Writer", "PrettyWriter"
  FormatOptions,      \* of "Default", "SingleLineArray"
  indentCharCount_,
  MaxCalls            \* bound on the calls between two Resets

VARIABLES
  writer, formatOptions,
  os,                 \* the text on the output stream
  flushed,            \* how much of it has been flushed
  levels,             \* level_stack_
  hasRoot,
  calls,              \* history: the calls that returned true
  failed              \* history: a call has returned false

vars == <<writer, formatOptions, os, flushed, levels, hasRoot, calls, failed>>

Pretty == writer = "PrettyWriter"

SingleLine == formatOptions = "SingleLineArray"

InObject == levels # <<>> /\ ~Last(levels).inArray

NameExpected == InObject /\ Last(levels).valueCount % 2 = 0

IsComplete == hasRoot /\ levels = <<>>

\* What the assertions of Prefix and of PrettyPrefix ask of a caller.
MayWrite == levels = <<>> => ~hasRoot

WriteIndent(depth) == [i \in 1 .. depth * indentCharCount_ |-> " "]

NewLine(depth) == <<"nl">> \o WriteIndent(depth)

\* Variant: the separator in front of a value and of the first name.
PlainPrefixEverywhere ==
  IF levels = <<>> THEN <<>> ELSE <<IF Last(levels).inArray \/ NameExpected THEN "," ELSE ":">>

\* The separator between values of the innermost container.
PlainPrefix ==
  CASE levels = <<>> \/ Last(levels).valueCount = 0 -> <<>>
    [] OTHER -> <<IF Last(levels).inArray \/ NameExpected THEN "," ELSE ":">>

PrettyPrefix ==
  CASE levels = <<>> -> <<>>
    [] levels # <<>> /\ Last(levels).inArray ->
         PlainPrefix \o (IF SingleLine THEN IF PlainPrefix = <<>> THEN <<>> ELSE <<" ">>
                         ELSE NewLine(Len(levels)))
    [] OTHER -> PlainPrefix \o (IF NameExpected THEN NewLine(Len(levels)) ELSE <<" ">>)

Prefixed == os \o (IF Pretty THEN PrettyPrefix ELSE PlainPrefix)

Counted == IF levels = <<>> THEN <<>> ELSE [levels EXCEPT ![Len(levels)].valueCount = @ + 1]

\* Variant: the root is flushed before it is written.
FlushesLate(ended) == IF ended = <<>> THEN Len(os) ELSE flushed

\* EndValue: the end of the root flushes the stream.
EndValue(ended) == IF ended = <<>> THEN Len(os') ELSE flushed

\* A value written at once: a literal, a number, a string, a name or raw JSON.  RawNumber
\* writes its digits as a string, between quotes (writer.h:195-200).
WriteValue(event, symbols) ==
  /\ MayWrite /\ Len(calls) < MaxCalls
  /\ NameExpected <=> event = "Key"
  /\ os' = Prefixed \o symbols
  /\ levels' = Counted
  /\ hasRoot' = TRUE
  /\ flushed' = EndValue(levels)
  /\ calls' = Append(calls, event)
  /\ UNCHANGED <<writer, formatOptions, failed>>

\* A double that is not finite is refused when its prefix has been written.  One
\* refusal between two Resets is enough.
WriteNan ==
  /\ MayWrite /\ Len(calls) < MaxCalls /\ ~NameExpected /\ ~failed
  /\ os' = Prefixed
  /\ levels' = Counted
  /\ hasRoot' = TRUE
  /\ flushed' = EndValue(levels)
  /\ failed' = TRUE
  /\ UNCHANGED <<writer, formatOptions, calls>>

Start(event, bracket, inArray) ==
  /\ MayWrite /\ Len(calls) < MaxCalls /\ ~NameExpected
  /\ os' = Append(Prefixed, bracket)
  /\ levels' = Append(Counted, [valueCount |-> 0, inArray |-> inArray])
  /\ hasRoot' = TRUE
  /\ calls' = Append(calls, event)
  /\ UNCHANGED <<writer, formatOptions, flushed, failed>>

StartObject == Start("StartObject", "{", FALSE)

StartArray == Start("StartArray", "[", TRUE)

\* Variant: the line of the closing bracket is indented as the values are.
ClosingInside(event, bracket, oneLine) ==
  /\ os' = os \o (IF Pretty /\ Last(levels).valueCount > 0 /\ ~oneLine
                  THEN NewLine(Len(levels)) ELSE <<>>) \o <<bracket>>
  /\ levels' = Front(levels)
  /\ flushed' = EndValue(levels')
  /\ calls' = Append(calls, event)
  /\ UNCHANGED <<writer, formatOptions, hasRoot, failed>>

\* An empty container is closed on the line it has been opened on.
Closing(event, bracket, oneLine) ==
  /\ os' = os \o (IF Pretty /\ Last(levels).valueCount > 0 /\ ~oneLine
                  THEN NewLine(Len(levels) - 1) ELSE <<>>) \o <<bracket>>
  /\ levels' = Front(levels)
  /\ flushed' = EndValue(levels')
  /\ calls' = Append(calls, event)
  /\ UNCHANGED <<writer, formatOptions, hasRoot, failed>>

EndObject == NameExpected /\ Closing("EndObject", "}", FALSE)

EndArray == levels # <<>> /\ ~InObject /\ Closing("EndArray", "]", SingleLine)

Reset ==
  /\ hasRoot
  /\ os' = <<>> /\ flushed' = 0
  /\ hasRoot' = FALSE
  /\ levels' = <<>>
  /\ calls' = <<>> /\ failed' = FALSE
  /\ UNCHANGED <<writer, formatOptions>>

\* The format options are arbitrary where no constructor sets them
\* (prettywriter.h:62-63).
Init ==
  /\ writer \in Writers
  /\ formatOptions \in IF Pretty THEN FormatOptions ELSE {"Default"}
  /\ os = <<>> /\ flushed = 0
  /\ levels = <<>>
  /\ hasRoot = FALSE
  /\ calls = <<>> /\ failed = FALSE

Next ==
  \/ WriteValue("Scalar", <<"n">>)
  \/ WriteValue(IF NameExpected THEN "Key" ELSE "String", <<"s">>)
  \/ WriteValue("RawNumber", <<"s">>)
  \/ WriteNan
  \/ StartObject \/ EndObject \/ StartArray \/ EndArray
  \/ Reset

Spec == Init /\ [][Next]_vars

-----------------------------------------------------------------------------
(* Properties.                                                             *)

Reader == INSTANCE JsonReader WITH
  Chars <- {}, Texts <- {}, MaxText <- 0, FlagSets <- {}, Stops <- {}, Parsers <- {},
  text <- os, flags <- {}, stop <- 0, parser <- "", state <- "", stack <- <<>>,
  r <- <<>>, done <- FALSE

\* The call that the reader makes for one of the writer: a raw number has become a string.
ReadAs(call) == IF call = "RawNumber" THEN "String" ELSE call

\* At any time the reader makes of the output the calls the writer has had, but String
\* for RawNumber, and it misses something exactly when the writer is not complete:
\* separators and white space are in place for every order of calls, plain and pretty
\* (writer.h:195-200, 472-490, prettywriter.h:208-250).
OutputReadsBack ==
  hasRoot /\ ~failed =>
    LET parsed == Reader!Parse
    IN  /\ [i \in DOMAIN parsed.events |-> parsed.events[i][1]] = [i \in DOMAIN calls |-> ReadAs(calls[i])]
        /\ IsComplete <=> Reader!Ok(parsed)

\* A line is indented by its nesting, the line of a closing bracket by that of the
\* container (prettywriter.h:145-148, 169-172, 220-240).
IndentIsNesting ==
  \A i \in DOMAIN os : \A j \in i + 1 .. Len(os) :
    os[i] = "nl" /\ os[j] # " " /\ (\A k \in i + 1 .. j - 1 : os[k] = " ") =>
      LET before(symbols) == Len(SelectSeq(SubSeq(os, 1, j), LAMBDA c : c \in symbols))
          opened          == IF os[j] \in {"[", "{"} THEN 1 ELSE 0
      IN  j - i - 1 = indentCharCount_ * (before({"[", "{"}) - opened - before({"]", "}"}))

\* A complete output has been flushed to its end (writer.h:493-497).
CompleteIsFlushed == IsComplete => flushed = Len(os)

=============================================================================
