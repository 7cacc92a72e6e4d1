------------------------------ MODULE JsonEqual ------------------------------
(***************************************************************************)
(* Comparing values (rapidjson/document.h, operator==), and whether the    *)
(* double that an integer is read as is the integer.                       *)
(***************************************************************************)
EXTENDS JsonData, FiniteSets

CONSTANTS
  Names,         \* of members
  Strings,
  MaxItems       \* of an array or object

VARIABLES x, y,      \* the values
          equal      \* what the comparison said, "none" before

vars == <<x, y, equal>>

Numbers ==
  {Number("int", v) : v \in Int64Min .. Uint64Max}
    \cup {Number("double", ToDouble(v)) : v \in Int64Min .. Uint64Max}

\* Of integers with the same bits, and the double that one of them is rounded to.
Simple ==
  {Number("int", -1), Number("int", Uint64Max), Number("double", ToDouble(Uint64Max))}
    \cup {[type |-> "string", string |-> s] : s \in Strings}
Sequence(S) == UNION {[1 .. n -> S] : n \in 0 .. MaxItems}
Values ==
  Simple \cup {[type |-> "array", items |-> items] : items \in Sequence(Simple)}
    \cup {[type |-> "object", items |-> items] :
            items \in Sequence({[name |-> n, value |-> v] : n \in Names, v \in Simple})}

\* Variant: an unsigned number has the limit of a signed one.
IsLosslessDoubleSigned(number) ==
  LET d == ToDouble(number.v)
  IN  number.kind = "double"
        \/ (d >= ToDouble(Int64Min) /\ d < ToDouble(Int64Max) /\ number.v = d)

IsLosslessDouble(number) ==
  LET d == ToDouble(number.v)
  IN  CASE number.kind = "double" -> TRUE
        [] number.kind = "int" /\ number.v >= 0 ->
             d >= 0 /\ d < ToDouble(Uint64Max) /\ number.v = d
        [] OTHER -> d >= ToDouble(Int64Min) /\ d < ToDouble(Int64Max) /\ number.v = d

\* Variant: all numbers are compared as doubles.
EqualDoubles(a, b) == GetDouble(a) = GetDouble(b)

EqualNumbers(a, b) ==
  IF "double" \in {a.kind, b.kind} THEN GetDouble(a) = GetDouble(b) ELSE U64(a) = U64(b)

\* Variant: the sizes are not compared.
RECURSIVE EqualBegin(_, _)
EqualBegin(a, b) ==
  /\ a.type = b.type
  /\ CASE a.type = "object" ->
            \A i \in DOMAIN a.items :
              LET other == FindMember(b, a.items[i].name)
              IN  other # <<>> /\ EqualBegin(a.items[i].value, other[1])
       [] a.type = "array" -> Len(a.items) = Len(b.items)
                                /\ \A i \in DOMAIN a.items : EqualBegin(a.items[i], b.items[i])
       [] a.type = "string" -> a.string = b.string
       [] a.type = "number" -> EqualNumbers(a, b)

RECURSIVE Equal(_, _)
Equal(a, b) ==
  /\ a.type = b.type
  /\ CASE a.type = "object" ->
            /\ Len(a.items) = Len(b.items)
            /\ \A i \in DOMAIN a.items :
                 LET other == FindMember(b, a.items[i].name)
                 IN  other # <<>> /\ Equal(a.items[i].value, other[1])
       [] a.type = "array" ->
            /\ Len(a.items) = Len(b.items)
            /\ \A i \in DOMAIN a.items : Equal(a.items[i], b.items[i])
       [] a.type = "string" -> a.string = b.string
       [] a.type = "number" -> EqualNumbers(a, b)

Init ==
  /\ \/ x \in Values /\ y \in Values
     \/ x \in Numbers /\ y \in Numbers
  /\ equal = "none"

Compare ==
  /\ equal = "none"
  /\ equal' = IF Equal(x, y) THEN "yes" ELSE "no"
  /\ UNCHANGED <<x, y>>

Next == Compare

Spec == Init /\ [][Next]_vars

-----------------------------------------------------------------------------
(* Properties.                                                             *)

Duplicates(v) ==
  v.type = "object" /\ \E i, j \in DOMAIN v.items : i # j /\ v.items[i].name = v.items[j].name

\* Two integers that are the same, or 2 ^ Bits apart; a double and what is rounded to it.
SameNumber(a, b) ==
  CASE a.kind = "int" /\ b.kind = "int" ->
         a.v = b.v \/ \E v \in Int64Min .. -1 : {a.v, b.v} = {v, v + 2 ^ Bits}
    [] a.kind = "double" /\ b.kind = "double" -> a.v = b.v
    [] OTHER -> \A n, d \in {a, b} : n.kind = "int" /\ d.kind = "double" => ToDouble(n.v) = d.v

SameSimple(a, b) ==
  IF a.type = "number" /\ b.type = "number" THEN SameNumber(a, b) ELSE a = b

\* The members that are found by their names.
Found(v) ==
  {v.items[i] : i \in {i \in DOMAIN v.items : \A j \in 1 .. i - 1 : v.items[j].name # v.items[i].name}}

\* Objects have as many members, and each one of the left is found in the right.
Same(a, b) ==
  CASE a.type = "object" /\ b.type = "object" ->
         /\ Len(a.items) = Len(b.items)
         /\ \A m \in ToSet(a.items) :
              \E f \in Found(b) : m.name = f.name /\ SameSimple(m.value, f.value)
    [] a.type = "array" /\ b.type = "array" ->
         /\ Len(a.items) = Len(b.items)
         /\ \A i \in DOMAIN a.items : SameSimple(a.items[i], b.items[i])
    [] OTHER -> SameSimple(a, b)

\* Values are equal when they are the same but for the order of members.  Of numbers that is
\* not to have the same value: an integer equals the one that is 2 ^ 64 greater, -1 the
\* greatest unsigned one, and a double all that are rounded to it.  Objects with a name
\* twice, which are to equal none (document.h:931), equal one of as many members in which
\* each of theirs is found, and then may do so from the left only; of other values it does
\* not matter which is on the left (document.h:935-974).
EqualIsSame ==
  equal # "none" =>
    /\ equal = "yes" <=> Same(x, y)
    /\ ~Duplicates(x) /\ ~Duplicates(y) => (equal = "yes" <=> Equal(y, x))

\* A number is said to be read as a double without loss just when the double is the
\* number (document.h:1035-1052, 1745-1752).
LosslessIsExact ==
  x.type = "number" =>
    /\ IsLosslessDouble(x) => GetDouble(x) = x.v
    /\ GetDouble(x) = x.v => IsLosslessDouble(x)

=============================================================================
