------------------------------ MODULE JsonSchema ------------------------------
(***************************************************************************)
(* JSON schemas compiled from documents (rapidjson/schema.h): what the     *)
(* constructor of Schema takes from a value, and how GenericSchemaDocument *)
(* builds all schemas of a document and resolves their references.         *)
(*                                                                         *)
(* A schema is a place in a heap.  The schemas it refers to are in subs,   *)
(* by where they are written: <<"not">>, <<"allOf", "0">>.  A pointer is   *)
(* the sequence of its tokens, an index the digits that are written.  A    *)
(* string that is read as a reference is a value of a type of its own.     *)
(***************************************************************************)
EXTENDS JsonData, FiniteSets, TLC

CONSTANTS
  SizeMax,       \* the greatest SizeType
  RemoteUri,     \* the document that a provider knows
  RemoteDocument

-----------------------------------------------------------------------------
(* The events of a value, each with the place it is about.                 *)

Event(call, value, count, place) ==
  [call |-> call, value |-> value, count |-> count, place |-> place]

\* A number as Accept gives it.
NumberCall(number) ==
  CASE number.kind = "double" -> "Double"
    [] number.kind = "int" /\ number.v <= Int64Max -> "Int64"
    [] OTHER -> "Uint64"

Call(value) ==
  CASE value.type = "number" -> NumberCall(value)
    [] value.type = "null" -> "Null"
    [] value.type = "bool" -> "Bool"
    [] OTHER -> "String"

NoValue == [type |-> "none"]
NameOf(member) == [type |-> "string", string |-> member.name]

RECURSIVE Accept(_, _)
RECURSIVE AcceptMember(_, _)
RECURSIVE AcceptItem(_, _, _)
AcceptMember(member, place) ==
  <<Event("Key", NameOf(member), 0, Append(place, member.name))>>
    \o Accept(member.value, Append(place, member.name))
AcceptItem(items, i, place) == Accept(items[i], Append(place, ToString(i - 1)))
Accept(value, place) ==
  CASE value.type = "object" ->
         <<Event("StartObject", NoValue, 0, place)>>
           \o FlattenSeq([i \in DOMAIN value.items |-> AcceptMember(value.items[i], place)])
           \o <<Event("EndObject", NoValue, Len(value.items), place)>>
    [] value.type = "array" ->
         <<Event("StartArray", NoValue, 0, place)>>
           \o FlattenSeq([i \in DOMAIN value.items |-> AcceptItem(value.items, i, place)])
           \o <<Event("EndArray", NoValue, Len(value.items), place)>>
    [] OTHER -> <<Event(Call(value), value, 0, place)>>

-----------------------------------------------------------------------------
(* Hasher.  A hash code is the term it is computed from: two terms have    *)
(* the same code just when they are equal.  Hash(k, v) multiplies the      *)
(* exclusive or of both, so that a pair has no order and one of the same   *)
(* code twice is 0; and equal pairs cancel each other.                     *)

AtomHash(value) ==
  CASE value.type = "null"   -> <<"null">>
    [] value.type = "bool"   -> <<"bool", value.bool>>
    [] value.type = "string" -> <<"string", value.string>>
    [] value.type = "number" -> <<"number", U64(value), GetDouble(value)>>

Top(stack, n) == SubSeq(stack, Len(stack) - n + 1, Len(stack))
Rest(stack, n) == SubSeq(stack, 1, Len(stack) - n)

\* Variant: the members of an object keep their order.
ObjectHashInOrder(kv) == <<"object", kv>>

ObjectHash(kv) ==
  LET pair(i) == {kv[2 * i - 1], kv[2 * i]}
      places == 1 .. Len(kv) \div 2
      odd(p) == Cardinality({i \in places : pair(i) = p}) % 2 = 1
  IN  <<"object", {p \in {pair(i) : i \in places} : Cardinality(p) = 2 /\ odd(p)}>>

ArrayHash(elements) == <<"array", elements>>

\* The stack of a hasher after an event.
Hashed(stack, event) ==
  CASE event.call \in {"StartObject", "StartArray"} -> stack
    [] event.call = "EndObject" ->
         Append(Rest(stack, 2 * event.count), ObjectHash(Top(stack, 2 * event.count)))
    [] event.call = "EndArray" ->
         Append(Rest(stack, event.count), ArrayHash(Top(stack, event.count)))
    [] OTHER -> Append(stack, AtomHash(event.value))

HashCode(value) == FoldLeft(Hashed, <<>>, Accept(value, <<>>))[1]

-----------------------------------------------------------------------------
(* What a schema takes from its value.                                     *)

GetMember(value, name) == FindMember(value, name)

Has(value, name, types) ==
  GetMember(value, name) # <<>> /\ GetMember(value, name)[1].type \in types
Items(value, name, type) ==
  IF Has(value, name, {type}) THEN GetMember(value, name)[1].items ELSE <<>>
Elements(value, name) == Items(value, name, "array")
Members(value, name) == Items(value, name, "object")

Flag(value, name, default) ==
  IF Has(value, name, {"bool"}) THEN GetMember(value, name)[1].bool ELSE default

Size(value, name, default) ==
  IF Has(value, name, {"number"})
    THEN LET n == GetMember(value, name)[1]
         IN  IF n.kind = "int" /\ n.v \in 0 .. SizeMax THEN n.v ELSE default
    ELSE default

\* Keywords that take a number or a string: none, or the one.
Given(value, name, type) == IF Has(value, name, {type}) THEN GetMember(value, name) ELSE <<>>

MultipleOf(value) ==
  LET given == Given(value, "multipleOf", "number")
  IN  IF given # <<>> /\ GetDouble(given[1]) > 0 THEN given ELSE <<>>

Strings(values) == {values[i].string : i \in {j \in DOMAIN values : values[j].type = "string"}}
NamesIn(members) == {members[i].name : i \in DOMAIN members}

AllTypes == {"null", "boolean", "object", "array", "string", "number", "integer"}
AddType(name) == IF name = "number" THEN {"number", "integer"} ELSE {name} \cap AllTypes
Types(value) ==
  IF GetMember(value, "type") = <<>> THEN AllTypes
  ELSE UNION {AddType(t) : t \in Strings(GetMember(value, "type") \o Elements(value, "type"))}

\* The dependencies of one kind: on names, or on a schema.
Dependencies(value, type) == SelectSeq(Members(value, "dependencies"), LAMBDA d : d.value.type = type)
DependentNames(value) ==
  LET given == Dependencies(value, "array")
  IN  [n \in NamesIn(given) |->
         Strings(given[CHOOSE i \in DOMAIN given : given[i].name = n].value.items)]

Properties(value) ==
  NamesIn(Members(value, "properties")) \cup Strings(Elements(value, "required"))
    \cup NamesIn(Members(value, "dependencies"))
    \cup UNION {Strings(d.value.items) : d \in ToSet(Dependencies(value, "array"))}

\* Where the validators of a keyword are among those that run in parallel.
Block(begin, count) == [begin |-> begin, count |-> count]
BlockEnd(block) == block.begin + block.count
Places(block) == block.begin .. BlockEnd(block) - 1

\* Variant: the validators of dependencies begin where that of not is.
LayoutWithoutNot(value) ==
  LET all == Block(0, Len(Elements(value, "allOf")))
      any == Block(BlockEnd(all), Len(Elements(value, "anyOf")))
      one == Block(BlockEnd(any), Len(Elements(value, "oneOf")))
      not == Block(BlockEnd(one), IF Has(value, "not", {"object"}) THEN 1 ELSE 0)
      on == Block(not.begin, Len(Dependencies(value, "object")))
  IN  [allOf |-> all, anyOf |-> any, oneOf |-> one, not |-> not, dependencies |-> on,
       count |-> IF on.count = 0 THEN BlockEnd(not) ELSE BlockEnd(on)]

Layout(value) ==
  LET all == Block(0, Len(Elements(value, "allOf")))
      any == Block(BlockEnd(all), Len(Elements(value, "anyOf")))
      one == Block(BlockEnd(any), Len(Elements(value, "oneOf")))
      not == Block(BlockEnd(one), IF Has(value, "not", {"object"}) THEN 1 ELSE 0)
      on == Block(BlockEnd(not), Len(Dependencies(value, "object")))
  IN  [allOf |-> all, anyOf |-> any, oneOf |-> one, not |-> not, dependencies |-> on,
       count |-> BlockEnd(on)]

\* An array of no items is not allocated, and is as if it were not there.
Tuple(value) == Elements(value, "items")

Schema(value, typeless) ==
  [types         |-> Types(value),
   enum          |-> {HashCode(v) : v \in ToSet(Elements(value, "enum"))},
   layout        |-> Layout(value),
   dependentSchemas |-> [i \in DOMAIN Dependencies(value, "object") |->
                           Dependencies(value, "object")[i].name],
   dependencies  |-> DependentNames(value),
   properties    |-> Properties(value),
   patterns      |-> [i \in DOMAIN Members(value, "patternProperties") |->
                      Members(value, "patternProperties")[i].name],
   required      |-> Strings(Elements(value, "required")),
   additionalProperties |-> Flag(value, "additionalProperties", TRUE),
   minProperties |-> Size(value, "minProperties", 0),
   maxProperties |-> Size(value, "maxProperties", SizeMax),
   tuple         |-> Len(Tuple(value)),
   additionalItems |-> Flag(value, "additionalItems", TRUE),
   minItems      |-> Size(value, "minItems", 0),
   maxItems      |-> Size(value, "maxItems", SizeMax),
   uniqueItems   |-> Flag(value, "uniqueItems", FALSE),
   minLength     |-> Size(value, "minLength", 0),
   maxLength     |-> Size(value, "maxLength", SizeMax),
   pattern       |-> Given(value, "pattern", "string"),
   minimum       |-> Given(value, "minimum", "number"),
   maximum       |-> Given(value, "maximum", "number"),
   exclusiveMinimum |-> Flag(value, "exclusiveMinimum", FALSE),
   exclusiveMaximum |-> Flag(value, "exclusiveMaximum", FALSE),
   multipleOf    |-> MultipleOf(value),
   default       |-> Given(value, "default", "string"),
   typeless      |-> typeless,
   subs          |-> [at \in {<<"properties", n>> : n \in Properties(value)} |-> typeless]]

-----------------------------------------------------------------------------
(* GenericSchemaDocument.  While it is built, refs holds the references    *)
(* that wait, each with the slot it is for: a place in subs of a schema,   *)
(* the root, or none.                                                      *)

NoSlot == [of |-> 0, at |-> <<>>]
RootSlot == [of |-> 0, at |-> <<"root">>]
Slot(schema, at) == [of |-> schema, at |-> at]

Assigned(c, slot, schema) ==
  CASE slot = NoSlot -> c
    [] slot = RootSlot -> [c EXCEPT !.root = schema]
    [] OTHER -> [c EXCEPT !.heap[slot.of].subs = (slot.at :> schema) @@ @]

\* The schemas of the keywords, in the order in which they are created.
Sub(at, value) == [at |-> at, value |-> value]
OneOf(value, name) == [i \in DOMAIN GetMember(value, name) |-> Sub(<<name>>, GetMember(value, name)[i])]
ElementsOf(value, name) ==
  [i \in DOMAIN Elements(value, name) |-> Sub(<<name, ToString(i - 1)>>, Elements(value, name)[i])]
MembersOf(value, name) ==
  [i \in DOMAIN Members(value, name) |->
     Sub(<<name, Members(value, name)[i].name>>, Members(value, name)[i].value)]
SubSchemas(value) ==
  SelectSeq(
    ElementsOf(value, "allOf") \o ElementsOf(value, "anyOf") \o ElementsOf(value, "oneOf")
      \o OneOf(value, "not") \o MembersOf(value, "properties")
      \o MembersOf(value, "patternProperties") \o MembersOf(value, "dependencies")
      \o OneOf(value, "additionalProperties") \o OneOf(value, "items")
      \o ElementsOf(value, "items") \o OneOf(value, "additionalItems"),
    LAMBDA sub : sub.value.type = "object")

\* The schema of the first entry with the pointer, 0 when there is none.
GetSchema(map, pointer) ==
  LET i == SelectInSeq(map, LAMBDA entry : entry.pointer = pointer)
  IN  IF i = 0 THEN 0 ELSE map[i].schema

Entered(c, pointer, schema) ==
  [c EXCEPT !.map = Append(@, [pointer |-> pointer, schema |-> schema])]

\* Get of a pointer: none, or the value.
Resolve(value, token) ==
  CASE value.type = "object" -> FindMember(value, token)
    [] value.type = "array" ->
         LET i == SelectInSeq([j \in DOMAIN value.items |-> ToString(j - 1)], LAMBDA t : t = token)
         IN  IF i = 0 THEN <<>> ELSE <<value.items[i]>>
    [] OTHER -> <<>>
Get(document, pointer) ==
  FoldLeft(LAMBDA found, token : IF found = <<>> THEN <<>> ELSE Resolve(found[1], token),
           <<document>>, pointer)

\* What a reference comes to: nothing, a schema that is known, or a pointer that waits.
Refers(to, schema, pointer) == [to |-> to, schema |-> schema, pointer |-> pointer]
Nothing == Refers("nothing", 0, <<>>)

RECURSIVE Referred(_, _)
RECURSIVE Follow(_, _)
RECURSIVE OrElse(_, _)
Referred(c, value) ==
  IF ~Has(value, "$ref", {"reference"}) THEN Nothing
  ELSE Follow(c, GetMember(value, "$ref")[1])
OrElse(got, other) == IF got.to = "nothing" THEN other ELSE got
Follow(c, ref) ==
  CASE ref.uri # "" ->
         IF c.remote # <<>> /\ ref.uri = RemoteUri /\ GetSchema(c.remote, ref.pointer) # 0
           THEN Refers("schema", GetSchema(c.remote, ref.pointer), <<>>)
           ELSE Nothing
    [] ref.uri = "" /\ Get(c.document, ref.pointer) # <<>> ->
         OrElse(Referred(c, Get(c.document, ref.pointer)[1]), Refers("pointer", 0, ref.pointer))
    [] OTHER -> Refers("pointer", 0, ref.pointer)

Ref(source, target, slot) == [source |-> source, target |-> target, slot |-> slot]

HandleRefSchema(c, source, slot, to) ==
  CASE to.to = "schema" -> Entered(Assigned(c, slot, to.schema), source, to.schema)
    [] to.to = "pointer" -> [c EXCEPT !.refs = Append(@, Ref(source, to.pointer, slot))]

RECURSIVE CreateSchema(_, _, _, _)
RECURSIVE CreateSubSchemas(_, _, _, _)
CreateSubSchemas(c, id, pointer, subs) ==
  IF subs = <<>> THEN c
  ELSE CreateSubSchemas(
         CreateSchema(c, Slot(id, Head(subs).at), pointer \o Head(subs).at, Head(subs).value),
         id, pointer, Tail(subs))
Constructed(c, pointer, value) ==
  CreateSubSchemas([c EXCEPT !.heap = Append(@, Schema(value, c.typeless))],
                   Len(c.heap) + 1, pointer, SubSchemas(value))
CreateSchema(c, slot, pointer, value) ==
  CASE value.type # "object" -> c
    [] value.type = "object" /\ Referred(c, value) # Nothing ->
         HandleRefSchema(c, pointer, slot, Referred(c, value))
    [] OTHER ->
         Assigned(Entered(Constructed(c, pointer, value), pointer, Len(c.heap) + 1), slot, Len(c.heap) + 1)

\* Every object of the document becomes a schema, whatever it is for.
RECURSIVE CreateSchemaRecursive(_, _, _, _)
RECURSIVE CreateAll(_, _, _)
CreateAll(c, pointer, subs) ==
  IF subs = <<>> THEN c
  ELSE CreateAll(CreateSchemaRecursive(c, NoSlot, pointer \o Head(subs).at, Head(subs).value),
                 pointer, Tail(subs))
Below(value) ==
  CASE value.type = "object" ->
         [i \in DOMAIN value.items |-> Sub(<<value.items[i].name>>, value.items[i].value)]
    [] value.type = "array" ->
         [i \in DOMAIN value.items |-> Sub(<<ToString(i - 1)>>, value.items[i])]
    [] OTHER -> <<>>

\* Variant: what is no keyword of a schema is left out.
CreatedKeywords(c, slot, pointer, value) ==
  IF pointer = <<>> THEN CreateSchema(c, slot, pointer, value) ELSE c

Created(c, slot, pointer, value) ==
  IF value.type = "object" /\ GetSchema(c.map, pointer) = 0
    THEN CreateSchema(c, slot, pointer, value)
    ELSE c

CreateSchemaRecursive(c, slot, pointer, value) ==
  CreateAll(Created(Assigned(c, slot, c.typeless), slot, pointer, value), pointer, Below(value))

\* One round of the loop that resolves the references, the last one first.
Resolved(c, ref) ==
  LET schema == GetSchema(c.map, ref.target)
      entered == IF GetSchema(c.map, ref.source) = 0 THEN Entered(c, ref.source, schema) ELSE c
  IN  IF schema # 0 THEN Assigned(entered, ref.slot, schema) ELSE Assigned(c, ref.slot, c.typeless)

EmptyObject == [type |-> "object", items |-> <<>>]

Compile(heap, remote, document) ==
  LET typeless == Len(heap) + 1
      start == [document |-> document, remote |-> remote, heap |-> Append(heap, Schema(EmptyObject, typeless)),
                map |-> <<>>, refs |-> <<>>, root |-> 0, typeless |-> typeless]
      created == CreateSchemaRecursive(start, RootSlot, <<>>, document)
  IN  FoldLeft(Resolved, created, Reverse(created.refs))

Remote == Compile(<<>>, <<>>, RemoteDocument)
SchemaDocument(document) ==
  LET c == Compile(Remote.heap, Remote.map, document) IN [heap |-> c.heap, root |-> c.root]

=============================================================================
