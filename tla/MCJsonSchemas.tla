---------------------------- MODULE MCJsonSchemas ----------------------------
(***************************************************************************)
(* Documents and values for the validation of schemas.                     *)
(***************************************************************************)
EXTENDS Integers, Sequences, SequencesExt, FiniteSets

Small == INSTANCE JsonData WITH Bits <- 5, Precision <- 3

Null == [type |-> "null"]
Bool(b) == [type |-> "bool", bool |-> b]
Str(s) == [type |-> "string", string |-> s]
Whole(v) == Small!Number("int", v)
Double(v) == Small!Number("double", v)
Arr(items) == [type |-> "array", items |-> items]
M(name, v) == [name |-> name, value |-> v]
Obj(members) == [type |-> "object", items |-> members]
One(name, v) == Obj(<<M(name, v)>>)
To(uri, pointer) == One("$ref", [type |-> "reference", uri |-> uri, pointer |-> pointer])

Type(t) == One("type", Str(t))
AtLeast(n) == One("minimum", Whole(n))

RemoteUri == "other"
RemoteDocument ==
  Obj(<<M("definitions", Obj(<<M("small", One("maximum", Whole(1))),
                               M("same", To("", <<"definitions", "small">>))>>))>>)

\* The strings of the names and values, and what the patterns find in them.
Length == [s \in {"a", "ab", "b", "c"} |-> IF s = "ab" THEN 2 ELSE 1]
Matches == [p \in {"a", "b"} |-> {s \in DOMAIN Length : s = p \/ s = "ab"}]

-----------------------------------------------------------------------------
(* Keywords, alone and in pairs.                                           *)

Definitions ==
  M("definitions", Obj(<<M("low", AtLeast(2)), M("chain", To("", <<"definitions", "low">>)),
                         M("in", Arr(<<Type("array")>>))>>))

Keywords ==
  <<<<M("type", Arr(<<Str("object"), Str("integer"), Str("array")>>))>>,
    <<M("enum", Arr(<<Whole(2), Obj(<<M("a", Whole(1)), M("b", Whole(2))>>), Arr(<<Whole(1), Whole(2)>>)>>))>>,
    <<M("allOf", Arr(<<One("maxProperties", Whole(1)), AtLeast(2)>>))>>,
    <<M("anyOf", Arr(<<Type("array"), One("required", Arr(<<Str("b")>>))>>))>>,
    <<M("oneOf", Arr(<<Type("object"), One("maxItems", Whole(1)), AtLeast(2)>>))>>,
    <<M("not", One("required", Arr(<<Str("ab")>>)))>>,
    <<M("properties", Obj(<<M("a", AtLeast(2)), M("ab", One("default", Str("a")))>>)),
      M("required", Arr(<<Str("a"), Str("ab")>>))>>,
    <<M("properties", Obj(<<M("a", To("", <<>>)), M("b", Type("integer"))>>))>>,
    <<M("patternProperties", Obj(<<M("a", AtLeast(2)), M("b", Type("array")), M("(", Type("null"))>>))>>,
    <<M("additionalProperties", Bool(FALSE))>>,
    <<M("additionalProperties", Type("array"))>>,
    <<M("dependencies", Obj(<<M("a", Arr(<<Str("b")>>)), M("b", One("maxProperties", Whole(1))),
                              M("c", One("not", One("required", Arr(<<Str("a")>>))))>>))>>,
    <<M("items", To("", <<"definitions", "chain">>)), Definitions>>,
    <<M("items", Arr(<<Type("integer"), To("", <<"items", "0">>)>>))>>,
    <<M("items", Arr(<<>>))>>,
    <<M("additionalItems", Bool(FALSE))>>,
    <<M("additionalItems", AtLeast(2))>>,
    <<M("uniqueItems", Bool(TRUE))>>,
    <<M("minProperties", Whole(2))>>,
    <<M("maxItems", Whole(2)), M("maxLength", Whole(1)), M("pattern", Str("a"))>>>>

References ==
  <<To("", <<"definitions", "chain">>), To("", <<"definitions", "in", "0">>), To("", <<"none">>),
    To("other", <<"definitions", "same">>), To("other", <<"none">>), To("unknown", <<>>)>>

NamesOf(members) == {members[i].name : i \in DOMAIN members}
Pairs ==
  LET n == Len(Keywords)
      pair(i) == <<1 + (i - 1) \div n, 1 + ((i - 1) % n)>>
      apart(p) == p[1] < p[2] /\ NamesOf(Keywords[p[1]]) \cap NamesOf(Keywords[p[2]]) = {}
      pairs == SelectSeq([i \in 1 .. n * n |-> pair(i)], apart)
  IN  [i \in DOMAIN pairs |-> Keywords[pairs[i][1]] \o Keywords[pairs[i][2]]]

Structures ==
  <<Obj(<<>>)>> \o [i \in DOMAIN Keywords |-> Obj(Keywords[i])] \o [i \in DOMAIN Pairs |-> Obj(Pairs[i])]
    \o [i \in DOMAIN References |-> Obj(<<M("anyOf", Arr(<<References[i]>>)), Definitions>>)]
    \o <<Obj(References[1].items \o <<Definitions>>)>>

Ab == Obj(<<M("a", Whole(1)), M("b", Whole(2))>>)
Ba == Obj(<<M("b", Whole(2)), M("a", Whole(1))>>)
Data ==
  {Null, Bool(TRUE), Whole(1), Whole(2), Double(2), Str("a"), Str("ab"), Arr(<<>>), Obj(<<>>), Ab, Ba}
    \cup {Arr(<<v>>) : v \in {Whole(1), Str("b")}}
    \cup {Arr(<<Whole(1), v>>) : v \in {Whole(1), Whole(2), Double(1), Bool(TRUE)}}
    \cup {Arr(<<Whole(2), Whole(3), v>>) : v \in {Whole(1), Whole(3), Whole(4)}}
    \cup {Arr(<<Ab, Ba>>), Arr(<<Arr(<<Whole(1)>>), Arr(<<Whole(1), Whole(1)>>)>>)}
    \cup {One(n, v) : n \in {"a", "b", "ab", "c"}, v \in {Whole(1), Whole(2), Arr(<<Whole(2)>>)}}
    \cup {Obj(<<M("a", Whole(2)), M("ab", v), M("c", Whole(2))>>) : v \in {Whole(1), Whole(2), Arr(<<>>)}}
    \cup {One("a", Ab), One("a", One("b", Str("a"))), One("c", Str("c")), One("c", Arr(<<Ab, Ba>>))}

-----------------------------------------------------------------------------
(* Numbers.                                                                *)

Bounds == <<Whole(Small!Int64Min), Whole(-1), Whole(Small!Int64Max), Whole(Small!Uint64Max), Double(8), Double(-2)>>
Parts == <<Whole(3), Whole(Small!Uint64Max), Double(5)>>
Ranges ==
  [i \in DOMAIN Bounds |-> One("minimum", Bounds[i])] \o [i \in DOMAIN Bounds |-> One("maximum", Bounds[i])]
    \o [i \in DOMAIN Bounds |-> Obj(<<M("minimum", Bounds[i]), M("exclusiveMinimum", Bool(TRUE))>>)]
    \o [i \in DOMAIN Bounds |-> Obj(<<M("maximum", Bounds[i]), M("exclusiveMaximum", Bool(TRUE))>>)]
    \o [i \in DOMAIN Parts |-> One("multipleOf", Parts[i])]
Numbers ==
  {Whole(v) : v \in Small!Int64Min .. Small!Uint64Max} \cup {Double(Small!ToDouble(v)) : v \in Small!Int64Min .. Small!Uint64Max}

SchemaDocuments == Structures \o Ranges
Further == {Whole(2), Arr(<<Whole(1), Whole(2)>>), Ab}
ValuesOf == [d \in DOMAIN SchemaDocuments |-> IF d \in DOMAIN Structures THEN Data ELSE Numbers]

=============================================================================
