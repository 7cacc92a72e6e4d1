------------------------- MODULE JsonSchemaValidator -------------------------
(***************************************************************************)
(* Validation of a value against a schema (rapidjson/schema.h): class      *)
(* GenericSchemaValidator and the methods of Schema that it calls.  The    *)
(* value comes as events.  A validator keeps a stack of contexts, one of   *)
(* each value that is open; a context may have validators of its own,      *)
(* which get every event that follows, and so may theirs.                  *)
(***************************************************************************)
EXTENDS JsonSchemaMeaning

CONSTANTS
  Documents,     \* a sequence
  ValuesOf,      \* the values that are validated with each document
  Further        \* the values that are validated after others

VARIABLES
  document,      \* an index
  schemas,       \* the schemas of the document
  value,
  at,            \* events that were given
  validator

vars == <<document, schemas, value, at, validator>>

SchemaAt(schema) == schemas.heap[schema]

NoHasher == [made |-> FALSE, stack |-> <<>>]
NewHasher == [made |-> TRUE, stack |-> <<>>]

\* A context has not yet a schema for the next value: 0.
Context(schema) ==
  [schema |-> schema, valueSchema |-> 0, hasher |-> NoHasher, hashes |-> {},
   validators |-> <<>>, patternValidators |-> <<>>, patternSchemas |-> <<>>,
   valueValidator |-> "only", objectValidator |-> "only", index |-> 0, exist |-> {},
   inArray |-> FALSE, valueUniqueness |-> FALSE, arrayUniqueness |-> FALSE]

\* One that another makes starts with its path.
Validator(root, path) == [root |-> root, contexts |-> <<>>, path |-> path, valid |-> TRUE]

Current(v) == Last(v.contexts)
CurrentSchema(v) == SchemaAt(Current(v).schema)
WithCurrent(v, c) == [v EXCEPT !.contexts[Len(v.contexts)] = c]
PushContext(v, c) == [v EXCEPT !.contexts = Append(@, c)]
PopSchema(v) == [v EXCEPT !.contexts = Front(@)]
Check(v, ok) == [v EXCEPT !.valid = ok]

-----------------------------------------------------------------------------
(* The tests of Schema on numbers and strings.                             *)

IsInt64(number) == number.kind = "int" /\ number.v <= Int64Max
IsUint64(number) == number.kind = "int" /\ number.v >= 0

NotBelow(v, bound, exclusive) == IF exclusive THEN v > bound ELSE v >= bound
NotAbove(v, bound, exclusive) == IF exclusive THEN v < bound ELSE v <= bound

CheckDoubleMinimum(s, d) == NotBelow(d, GetDouble(s.minimum[1]), s.exclusiveMinimum)
CheckDoubleMaximum(s, d) == NotAbove(d, GetDouble(s.maximum[1]), s.exclusiveMaximum)

Magnitude(v) == IF v < 0 THEN -v ELSE v

\* The quotient is rounded before it is cut off, and so is what it comes to.
CheckDoubleMultipleOf(s, d) ==
  LET a == Magnitude(d)
      b == GetDouble(s.multipleOf[1])
      q == Nearest(a * 2 ^ Precision, b) \div 2 ^ Precision
  IN  a <= ToDouble(q * b)

CheckMultipleOf(s, v) ==
  IF IsUint64(s.multipleOf[1]) THEN Magnitude(v) % s.multipleOf[1].v = 0
  ELSE CheckDoubleMultipleOf(s, ToDouble(v))

\* Variant: a bound that is not signed is none for what is signed.
CheckIntNoUnsigned(s, v) ==
  /\ {"integer", "number"} \cap s.types # {}
  /\ s.minimum # <<>> =>
       CASE IsInt64(s.minimum[1]) -> NotBelow(v, s.minimum[1].v, s.exclusiveMinimum)
         [] ~IsInt64(s.minimum[1]) /\ IsUint64(s.minimum[1]) -> TRUE
         [] OTHER -> CheckDoubleMinimum(s, ToDouble(v))
  /\ s.maximum # <<>> =>
       CASE IsInt64(s.maximum[1]) -> NotAbove(v, s.maximum[1].v, s.exclusiveMaximum)
         [] ~IsInt64(s.maximum[1]) /\ IsUint64(s.maximum[1]) -> TRUE
         [] OTHER -> CheckDoubleMaximum(s, ToDouble(v))
  /\ s.multipleOf # <<>> => CheckMultipleOf(s, v)

CheckInt(s, v) ==
  /\ {"integer", "number"} \cap s.types # {}
  /\ s.minimum # <<>> =>
       CASE IsInt64(s.minimum[1]) -> NotBelow(v, s.minimum[1].v, s.exclusiveMinimum)
         [] ~IsInt64(s.minimum[1]) /\ IsUint64(s.minimum[1]) -> FALSE
         [] OTHER -> CheckDoubleMinimum(s, ToDouble(v))
  /\ s.maximum # <<>> =>
       CASE IsInt64(s.maximum[1]) -> NotAbove(v, s.maximum[1].v, s.exclusiveMaximum)
         [] ~IsInt64(s.maximum[1]) /\ IsUint64(s.maximum[1]) -> TRUE
         [] OTHER -> CheckDoubleMaximum(s, ToDouble(v))
  /\ s.multipleOf # <<>> => CheckMultipleOf(s, v)

CheckUint(s, v) ==
  /\ {"integer", "number"} \cap s.types # {}
  /\ s.minimum # <<>> =>
       CASE IsUint64(s.minimum[1]) -> NotBelow(v, s.minimum[1].v, s.exclusiveMinimum)
         [] ~IsUint64(s.minimum[1]) /\ IsInt64(s.minimum[1]) -> TRUE
         [] OTHER -> CheckDoubleMinimum(s, ToDouble(v))
  /\ s.maximum # <<>> =>
       CASE IsUint64(s.maximum[1]) -> NotAbove(v, s.maximum[1].v, s.exclusiveMaximum)
         [] ~IsUint64(s.maximum[1]) /\ IsInt64(s.maximum[1]) -> FALSE
         [] OTHER -> CheckDoubleMaximum(s, ToDouble(v))
  /\ s.multipleOf # <<>> => CheckMultipleOf(s, v)

CheckDouble(s, d) ==
  /\ "number" \in s.types
  /\ s.minimum # <<>> => CheckDoubleMinimum(s, d)
  /\ s.maximum # <<>> => CheckDoubleMaximum(s, d)
  /\ s.multipleOf # <<>> => CheckDoubleMultipleOf(s, d)

IsPatternMatch(pattern, string) == pattern \in DOMAIN Matches /\ string \in Matches[pattern]

\* A pattern that cannot be compiled is none.
CheckString(s, string) ==
  /\ "string" \in s.types
  /\ string \in DOMAIN Length => Length[string] \in s.minLength .. s.maxLength
  /\ s.pattern # <<>> /\ s.pattern[1].string \in DOMAIN Matches =>
       IsPatternMatch(s.pattern[1].string, string)

\* The method of Schema for what begins a value.
CheckStart(s, e) ==
  CASE e.call = "Null"        -> "null" \in s.types
    [] e.call = "Bool"        -> "boolean" \in s.types
    [] e.call = "Int64"       -> CheckInt(s, e.value.v)
    [] e.call = "Uint64"      -> CheckUint(s, e.value.v)
    [] e.call = "Double"      -> CheckDouble(s, e.value.v)
    [] e.call = "String"      -> CheckString(s, e.value.string)
    [] e.call = "StartObject" -> "object" \in s.types
    [] e.call = "StartArray"  -> "array" \in s.types

-----------------------------------------------------------------------------
(* What begins: a value, in its context, and the validators beside it.     *)

\* The schema of an element of an array, 0 when none is allowed.
ElementSchema(s, index) ==
  CASE <<"items">> \in DOMAIN s.subs -> s.subs[<<"items">>]
    [] <<"items">> \notin DOMAIN s.subs /\ index < s.tuple -> s.subs[<<"items", ToString(index)>>]
    [] s.tuple \in 1 .. index /\ <<"additionalItems">> \in DOMAIN s.subs ->
         s.subs[<<"additionalItems">>]
    [] s.tuple \in 1 .. index /\ <<"additionalItems">> \notin DOMAIN s.subs /\ ~s.additionalItems -> 0
    [] OTHER -> s.typeless

\* Schema::BeginValue, in the context of an array.
BeginElement(s, c) ==
  [c EXCEPT !.valueUniqueness = @ \/ s.uniqueItems,
            !.valueSchema = ElementSchema(s, c.index), !.index = @ + 1]

\* Variant: the kind of the validators of a value is not passed on.
ValueContextOnly(c, path) ==
  [Context(c.valueSchema) EXCEPT
     !.patternValidators = [i \in DOMAIN c.patternSchemas |-> Validator(c.patternSchemas[i], path)],
     !.arrayUniqueness = c.valueUniqueness]

\* The context of a value in the context c.
ValueContext(c, path) ==
  [Context(c.valueSchema) EXCEPT
     !.objectValidator = IF c.patternSchemas # <<>> THEN c.valueValidator ELSE @,
     !.patternValidators = [i \in DOMAIN c.patternSchemas |-> Validator(c.patternSchemas[i], path)],
     !.arrayUniqueness = c.valueUniqueness]

Opened(v) ==
  IF Current(v).valueSchema = 0 THEN Check(v, FALSE)
  ELSE PushContext(v, ValueContext(Current(v), v.path))

BeginValue(v) ==
  CASE v.contexts = <<>> -> PushContext(v, Context(v.root))
    [] v.contexts # <<>> /\ Current(v).inArray ->
         Opened(WithCurrent([v EXCEPT !.path = Append(@, ToString(Current(v).index))],
                            BeginElement(CurrentSchema(v), Current(v))))
    [] OTHER -> Opened(v)

\* The schemas that run in parallel, by their index; what is written last stays.
Parallels(s) ==
  LET keys(block, name) == [i \in Places(block) |-> <<name, ToString(i - block.begin)>>]
      on == s.layout.dependencies
  IN  [i \in Places(on) |-> <<"dependencies", s.dependentSchemas[i - on.begin + 1]>>]
        @@ [i \in Places(s.layout.not) |-> <<"not">>]
        @@ keys(s.layout.oneOf, "oneOf") @@ keys(s.layout.anyOf, "anyOf") @@ keys(s.layout.allOf, "allOf")

CreateParallelValidator(s, c, path) ==
  [c EXCEPT !.hasher = IF s.enum # {} \/ c.arrayUniqueness THEN NewHasher ELSE @,
            !.validators = [i \in 0 .. s.layout.count - 1 |-> Validator(s.subs[Parallels(s)[i]], path)]]

StartedValue(v, e) ==
  IF v.valid /\ CheckStart(CurrentSchema(v), e)
    THEN WithCurrent(v, CreateParallelValidator(
           CurrentSchema(v), [Current(v) EXCEPT !.inArray = e.call = "StartArray"], v.path))
    ELSE Check(v, FALSE)

Begin(v, e) == StartedValue(BeginValue(v), e)

\* What Key sets for a value that a schema beside those of the patterns is for.
Beside(s, c, patterned, schema, kind) ==
  IF patterned = <<>> THEN [c EXCEPT !.patternSchemas = <<>>, !.valueSchema = schema]
  ELSE [c EXCEPT !.patternSchemas = Append(patterned, schema),
                 !.valueSchema = s.typeless, !.valueValidator = kind]

KeyContext(s, c, name) ==
  LET matching == SelectSeq(s.patterns, LAMBDA p : IsPatternMatch(p, name))
      patterned == [i \in DOMAIN matching |-> s.subs[<<"patternProperties", matching[i]>>]]
  IN  CASE name \in s.properties ->
             [Beside(s, c, patterned, s.subs[<<"properties", name>>], "property")
                EXCEPT !.exist = @ \cup {name}]
        [] name \notin s.properties /\ <<"additionalProperties">> \in DOMAIN s.subs ->
             Beside(s, c, patterned, s.subs[<<"additionalProperties">>], "additional")
        [] OTHER ->
             [c EXCEPT !.patternSchemas = patterned,
                       !.valueSchema = IF s.additionalProperties \/ patterned # <<>> THEN s.typeless ELSE 0]

Keyed(v, c) == Check(WithCurrent(v, c), c.valueSchema # 0)
Key(v, e) ==
  Keyed([v EXCEPT !.path = Append(@, e.value.string)],
        KeyContext(CurrentSchema(v), Current(v), e.value.string))

-----------------------------------------------------------------------------
(* What ends.                                                              *)

\* A property with a default is not missed.
Missed(s, c) ==
  {n \in s.required \ c.exist :
     LET default == SchemaAt(s.subs[<<"properties", n>>]).default
     IN  default = <<>> \/ default[1].string = ""}

EndObject(s, c, count) ==
  /\ Missed(s, c) = {}
  /\ count \in s.minProperties .. s.maxProperties
  /\ \A n \in c.exist \cap DOMAIN s.dependencies : s.dependencies[n] \subseteq c.exist
  /\ \A i \in DOMAIN s.dependentSchemas :
       s.dependentSchemas[i] \in c.exist => c.validators[s.layout.dependencies.begin + i - 1].valid

EndArray(s, c, count) == count \in s.minItems .. s.maxItems

EndOf(v, e) ==
  IF ~v.valid THEN v
  ELSE IF e.call = "EndObject" THEN Check(v, EndObject(CurrentSchema(v), Current(v), e.count))
  ELSE Check(WithCurrent(v, [Current(v) EXCEPT !.inArray = FALSE]),
             EndArray(CurrentSchema(v), Current(v), e.count))

\* The schemas of the patterns of a name, and the one beside them.
PatternsAgree(c) ==
  LET agree(validators) == \A i \in DOMAIN validators : validators[i].valid
  IN  c.patternValidators # <<>> =>
        IF c.objectValidator = "additional"
          THEN agree(Front(c.patternValidators)) \/ Last(c.patternValidators).valid
          ELSE agree(c.patternValidators)

Valid(c, block) == {i \in Places(block) : c.validators[i].valid}

ValueEnds(s, c) ==
  /\ PatternsAgree(c)
  /\ s.enum # {} => c.hasher.stack[1] \in s.enum
  /\ Valid(c, s.layout.allOf) = Places(s.layout.allOf)
  /\ s.layout.anyOf.count > 0 => Valid(c, s.layout.anyOf) # {}
  /\ s.layout.oneOf.count > 0 => Cardinality(Valid(c, s.layout.oneOf)) = 1
  /\ Valid(c, s.layout.not) = {}

\* Variant: the token of a value that has ended stays.
KeptToken(v) == v

WithoutToken(v) == [v EXCEPT !.path = IF @ = <<>> THEN <<>> ELSE Front(@)]

\* The hash code of an element is kept, unless it was there.
Counted(v, hash) ==
  IF v.contexts = <<>> \/ ~Current(v).valueUniqueness THEN WithoutToken(v)
  ELSE IF hash \in Current(v).hashes THEN Check(v, FALSE)
  ELSE WithoutToken(WithCurrent(v, [Current(v) EXCEPT !.hashes = @ \cup {hash}]))

EndValue(v) ==
  CASE ~v.valid -> v
    [] v.valid /\ ~ValueEnds(CurrentSchema(v), Current(v)) -> Check(v, FALSE)
    [] OTHER -> Counted(PopSchema(v), IF Current(v).arrayUniqueness THEN Current(v).hasher.stack[1] ELSE <<>>)

-----------------------------------------------------------------------------
(* The events of a validator.                                              *)

RECURSIVE Fed(_, _)
RECURSIVE FedContext(_, _)
RECURSIVE Parallel(_, _)
FedContext(c, e) ==
  [c EXCEPT !.hasher.stack = IF c.hasher.made THEN Hashed(@, e) ELSE @,
            !.validators = [i \in DOMAIN @ |-> Fed(@[i], e)],
            !.patternValidators = [i \in DOMAIN @ |-> Fed(@[i], e)]]
Parallel(v, e) ==
  IF ~v.valid THEN v
  ELSE [v EXCEPT !.contexts = [i \in DOMAIN @ |-> FedContext(@[i], e)]]

\* Variant: an object is judged before its end is passed on.
EndedFirst(v, e) == EndValue(Parallel(EndOf(v, e), e))

Ended(v, e) == EndValue(EndOf(Parallel(v, e), e))

Fed(v, e) ==
  CASE ~v.valid -> v
    [] v.valid /\ e.call = "Key" -> Parallel(Key(v, e), e)
    [] v.valid /\ e.call \in {"StartObject", "StartArray"} -> Parallel(Begin(v, e), e)
    [] v.valid /\ e.call \in {"EndObject", "EndArray"} -> Ended(v, e)
    [] OTHER -> EndValue(Parallel(Begin(v, e), e))

Events == Accept(value, <<>>)

\* A reader gives a number that is not negative as unsigned.
Readings(e) ==
  {e} \cup {[e EXCEPT !.call = "Uint64"] : i \in {j \in {1} : e.call = "Int64" /\ e.value.v >= 0}}

Init ==
  /\ document \in DOMAIN Documents
  /\ schemas = SchemaDocument(Documents[document])
  /\ value \in ValuesOf[document]
  /\ at = 0
  /\ validator = Validator(schemas.root, <<>>)

\* The caller stops when an event was refused.
Feed ==
  /\ validator.valid
  /\ at < Len(Events)
  /\ \E e \in Readings(Events[at + 1]) : validator' = Fed(validator, e)
  /\ at' = at + 1
  /\ UNCHANGED <<document, schemas, value>>

\* Variant: what is open stays.
ResetValid(v) == [v EXCEPT !.valid = TRUE, !.path = <<>>]

ResetOf(v) == [v EXCEPT !.contexts = <<>>, !.path = <<>>, !.valid = TRUE]

Reset ==
  /\ validator' = ResetOf(validator)
  /\ value' \in Further
  /\ at' = 0
  /\ UNCHANGED <<document, schemas>>

Next == Feed \/ Reset

Spec == Init /\ [][Next]_vars

-----------------------------------------------------------------------------
(* Properties.                                                             *)

\* Hash codes of objects take a name for a string, and members of one name cancel.
RECURSIVE HashesTell(_)
HashesTell(v) ==
  CASE v.type = "object" ->
         /\ Cardinality(NamesIn(v.items)) = Len(v.items)
         /\ \A m \in ToSet(v.items) : m.value.type # "string" /\ HashesTell(m.value)
    [] v.type = "array" -> \A m \in ToSet(v.items) : HashesTell(m)
    [] OTHER -> TRUE

RECURSIVE Mentions(_, _)
Mentions(v, names) ==
  CASE v.type = "object" ->
         NamesIn(v.items) \cap names # {} \/ \E m \in ToSet(v.items) : Mentions(m.value, names)
    [] v.type = "array" -> \E m \in ToSet(v.items) : Mentions(m, names)
    [] OTHER -> FALSE

Accepted == Accepts(In(Documents[document], Documents[document]), value)

\* Whether the quotient of doubles is not rounded to an integer that it is not.
QuotientsTell ==
  LET parts == MultipleOf(Documents[document])
  IN  parts # <<>> /\ value.type = "number" => "double" \notin {parts[1].kind, value.kind}

\* Whatever was validated before, a value is valid at its end just when the schema accepts
\* it, and one that is refused on the way is one that it does not accept
\* (schema.h:676-1014, 1185-1356, 2077-2148, 2233-2301; the resolution of references
\* 1550-1565, 1664-1709).
ValidIsAccepted ==
  (Mentions(Documents[document], {"enum", "uniqueItems"}) => HashesTell(value)) =>
    /\ ~validator.valid => ~Accepted
    /\ validator.valid /\ at = Len(Events) /\ QuotientsTell => Accepted

\* When an event is refused, the pointer to the invalid value points to what the event is
\* about; when a value has ended, no context is left (schema.h:1875-1882, 2233-2301).
RefusalsPoint ==
  /\ ~validator.valid => validator.path = Events[at].place
  /\ validator.valid /\ at = Len(Events) => validator.contexts = <<>> /\ validator.path = <<>>

=============================================================================
