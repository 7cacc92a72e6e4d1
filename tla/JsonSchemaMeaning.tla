-------------------------- MODULE JsonSchemaMeaning --------------------------
(***************************************************************************)
(* What a schema says of a value, by the words of JSON Schema draft 4, one *)
(* keyword at a time and without events, indexes or a compiled schema.     *)
(* Where the code of schema.h means something else than the draft, the     *)
(* definition has what the code means and is marked so.                    *)
(***************************************************************************)
EXTENDS JsonSchema

CONSTANTS
  Length,        \* the code points of a string that is well formed
  Matches        \* the strings of a regular expression that is well formed

\* What a value is: members have no order, and a number may be written in two ways.
RECURSIVE Meaning(_)
Meaning(v) ==
  CASE v.type = "object" -> <<"object", {<<m.name, Meaning(m.value)>> : m \in ToSet(v.items)}>>
    [] v.type = "array"  -> <<"array", [i \in DOMAIN v.items |-> Meaning(v.items[i])]>>
    [] v.type = "number" -> <<"number", v.v>>
    [] v.type = "string" -> <<"string", v.string>>
    [] v.type = "bool"   -> <<"bool", v.bool>>
    [] v.type = "null"   -> <<"null">>

\* A schema in its document; a reference is what it refers to, or says nothing.
In(doc, schema) == [doc |-> doc, schema |-> schema]

RECURSIVE Target(_)
RECURSIVE TargetAt(_, _)
TargetAt(doc, pointer) ==
  IF Get(doc, pointer) = <<>> THEN In(doc, EmptyObject) ELSE Target(In(doc, Get(doc, pointer)[1]))
Target(s) ==
  IF ~Has(s.schema, "$ref", {"reference"}) THEN s
  ELSE LET ref == GetMember(s.schema, "$ref")[1]
       IN  CASE ref.uri = "" -> TargetAt(s.doc, ref.pointer)
             [] ref.uri = RemoteUri -> TargetAt(RemoteDocument, ref.pointer)
             [] OTHER -> In(s.doc, EmptyObject)

TypesOf(v) ==
  CASE v.type = "number" -> IF v.kind = "double" THEN {"number"} ELSE {"number", "integer"}
    [] v.type = "bool" -> {"boolean"}
    [] OTHER -> {v.type}

TypeAllows(s, v) ==
  GetMember(s, "type") # <<>> =>
    TypesOf(v) \cap Strings(GetMember(s, "type") \o Elements(s, "type")) # {}

EnumAllows(s, v) ==
  Elements(s, "enum") # <<>> => \E e \in ToSet(Elements(s, "enum")) : Meaning(e) = Meaning(v)

\* Unlike the draft: if one of two numbers is a double, both are compared as doubles.
AsIn(x, y) == IF "double" \in {x.kind, y.kind} THEN GetDouble(x) ELSE x.v
NumberAllows(s, v) ==
  LET low == Given(s, "minimum", "number")
      high == Given(s, "maximum", "number")
      part == MultipleOf(s)
  IN  /\ low # <<>> =>
           IF Flag(s, "exclusiveMinimum", FALSE) THEN AsIn(v, low[1]) > AsIn(low[1], v)
           ELSE AsIn(v, low[1]) >= AsIn(low[1], v)
      /\ high # <<>> =>
           IF Flag(s, "exclusiveMaximum", FALSE) THEN AsIn(v, high[1]) < AsIn(high[1], v)
           ELSE AsIn(v, high[1]) <= AsIn(high[1], v)
      /\ part # <<>> => AsIn(v, part[1]) % AsIn(part[1], v) = 0

StringAllows(s, v) ==
  /\ v.string \in DOMAIN Length =>
       Length[v.string] \in Size(s, "minLength", 0) .. Size(s, "maxLength", SizeMax)
  /\ \A p \in Strings(GetMember(s, "pattern")) \cap DOMAIN Matches : v.string \in Matches[p]

RECURSIVE Accepts(_, _)

ArrayAllows(s, v) ==
  LET n == Len(v.items)
      items == Elements(s.schema, "items")
      further == {i \in DOMAIN v.items : i > Len(items)}
      accepts(given, i) == \A k \in DOMAIN given : Accepts(In(s.doc, given[k]), v.items[i])
  IN  /\ n \in Size(s.schema, "minItems", 0) .. Size(s.schema, "maxItems", SizeMax)
      /\ Flag(s.schema, "uniqueItems", FALSE) =>
           \A i, j \in DOMAIN v.items : i # j => Meaning(v.items[i]) # Meaning(v.items[j])
      /\ \A i \in DOMAIN v.items : accepts(Given(s.schema, "items", "object"), i)
      /\ \A i \in DOMAIN v.items \ further : accepts(<<items[i]>>, i)
      \* Unlike the draft: items of no schemas do not restrict what may follow.
      /\ items # <<>> =>
           \A i \in further : /\ Flag(s.schema, "additionalItems", TRUE)
                              /\ accepts(Given(s.schema, "additionalItems", "object"), i)

\* Unlike the draft: a name that is required or depended on is no additional property.
MemberAllows(s, m) ==
  LET patterns == {p \in DOMAIN Matches : m.name \in Matches[p]}
      accepts(given) == \A k \in DOMAIN given : Accepts(In(s.doc, given[k]), m.value)
      ofPatterns == SelectSeq(Members(s.schema, "patternProperties"), LAMBDA p : p.name \in patterns)
      byPatterns == \A k \in DOMAIN ofPatterns : accepts(<<ofPatterns[k].value>>)
      properties == SelectSeq(Members(s.schema, "properties"), LAMBDA p : p.name = m.name)
      additional == Given(s.schema, "additionalProperties", "object")
  IN  CASE m.name \in Properties(s.schema) ->
             byPatterns /\ \A k \in DOMAIN properties : accepts(<<properties[k].value>>)
        [] m.name \notin Properties(s.schema) /\ ofPatterns = <<>> ->
             Flag(s.schema, "additionalProperties", TRUE) /\ accepts(additional)
        \* Unlike the draft: the schema of additional properties will do for one of a pattern.
        [] OTHER -> byPatterns \/ (additional # <<>> /\ accepts(additional))

\* Unlike the draft: what has a default text need not be there.
HasDefault(s, name) ==
  \E p \in ToSet(Members(s.schema, "properties")) :
    /\ p.name = name
    /\ Given(Target(In(s.doc, p.value)).schema, "default", "string") \notin {<<>>, <<[type |-> "string", string |-> ""]>>}

ObjectAllows(s, v) ==
  LET names == NamesIn(v.items)
  IN  /\ Len(v.items) \in Size(s.schema, "minProperties", 0) .. Size(s.schema, "maxProperties", SizeMax)
      /\ \A n \in Strings(Elements(s.schema, "required")) : n \in names \/ HasDefault(s, n)
      /\ \A d \in ToSet(Members(s.schema, "dependencies")) :
           d.name \in names =>
             IF d.value.type = "array" THEN Strings(d.value.items) \subseteq names
             ELSE Accepts(In(s.doc, d.value), v)
      /\ \A m \in ToSet(v.items) : MemberAllows(s, m)

CombinationAllows(s, v) ==
  LET accepting(name) ==
        {i \in DOMAIN Elements(s.schema, name) : Accepts(In(s.doc, Elements(s.schema, name)[i]), v)}
  IN  /\ accepting("allOf") = DOMAIN Elements(s.schema, "allOf")
      /\ Elements(s.schema, "anyOf") # <<>> => accepting("anyOf") # {}
      /\ Elements(s.schema, "oneOf") # <<>> => Cardinality(accepting("oneOf")) = 1
      /\ \A i \in DOMAIN GetMember(s.schema, "not") : ~Accepts(In(s.doc, GetMember(s.schema, "not")[i]), v)

Allows(s, v) ==
  /\ TypeAllows(s.schema, v)
  /\ EnumAllows(s.schema, v)
  /\ CombinationAllows(s, v)
  /\ CASE v.type = "number" -> NumberAllows(s.schema, v)
       [] v.type = "string" -> StringAllows(s.schema, v)
       [] v.type = "array"  -> ArrayAllows(s, v)
       [] v.type = "object" -> ObjectAllows(s, v)
       [] OTHER -> TRUE
Accepts(s, v) == Allows(Target(s), v)

=============================================================================
