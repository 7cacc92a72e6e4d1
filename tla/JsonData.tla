------------------------------- MODULE JsonData -------------------------------
(***************************************************************************)
(* Values of rapidjson as data (rapidjson/document.h): what is null or     *)
(* true, strings, numbers, and arrays and objects of others.  Integers     *)
(* have Bits bits, doubles Precision bits; in the code 64 and 53.          *)
(***************************************************************************)
EXTENDS Integers, Sequences, SequencesExt

CONSTANTS Bits, Precision

\* n / d to Precision bits, or to an integer; the even one of two.
Nearest(n, d) ==
  LET units == {2 ^ e : e \in 0 .. Bits + Precision}
      unit == CHOOSE u \in units : /\ n < d * u * 2 ^ Precision
                                   /\ \A w \in units : n < d * w * 2 ^ Precision => u <= w
      down == n \div (d * unit)
      twice == 2 * (n - down * d * unit)
  IN  CASE twice < d * unit -> unit * down
        [] twice > d * unit -> unit * (down + 1)
        [] OTHER -> unit * (down + (down % 2))

\* The nearest double of an integer.
ToDouble(v) == IF v < 0 THEN -Nearest(-v, 1) ELSE Nearest(v, 1)

Int64Max  == 2 ^ (Bits - 1) - 1
Int64Min  == -(2 ^ (Bits - 1))
Uint64Max == 2 ^ Bits - 1

Number(kind, v) == [type |-> "number", kind |-> kind, v |-> v]

\* data_.n.u64, of an integer.
U64(number) == number.v % 2 ^ Bits

GetDouble(number) == IF number.kind = "double" THEN number.v ELSE ToDouble(number.v)

\* Variant: the last of the name.
FindLastMember(object, name) ==
  LET found == SelectSeq(object.items, LAMBDA member : member.name = name)
  IN  IF found = <<>> THEN <<>> ELSE <<found[Len(found)].value>>

\* FindMember: the first of the name, <<>> when there is none.
FindMember(object, name) ==
  LET found == SelectSeq(object.items, LAMBDA member : member.name = name)
  IN  IF found = <<>> THEN <<>> ELSE <<found[1].value>>

=============================================================================
