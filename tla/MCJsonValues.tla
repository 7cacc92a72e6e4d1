----------------------------- MODULE MCJsonValues -----------------------------
(***************************************************************************)
(* What is done with values: they are built from a text, in documents that *)
(* have their pools, changed in memory, as the trees they stand for,       *)
(* compared, found by pointers, and validated with schemas.  A behaviour   *)
(* is one of one part; the variables of the others stay as they are at the *)
(* start.                                                                  *)
(***************************************************************************)
EXTENDS JsonDocument, JsonPointerMemory, Integers

VARIABLES
  part,
  cells,                             \* JsonValue
  x, y, equal,                       \* JsonEqual
  forest, other, last, resolveCalls, \* JsonPointerResolve
  document, schemas, value, at, validator   \* JsonSchemaValidator

resolved == <<forest, other, last, resolveCalls>>
compared == <<x, y, equal>>
validation == <<document, schemas, value, at, validator>>

allVars == <<part, documentVars, vars, cells, resolved, compared, validation>>

\* Strings that are in a block of their own, and short ones.
Long == INSTANCE MCJsonValue WITH
  heap <- cells, ShortAtoms <- {}, LongAtoms <- {"long"}, Names <- {"long"},
  Roots <- 2, MaxBlocks <- 2, MaxItems <- 2, DefaultCapacity <- 1
Short == INSTANCE MCJsonValue WITH
  heap <- cells, ShortAtoms <- {"s"}, LongAtoms <- {}, Names <- {"a"},
  Roots <- 2, MaxBlocks <- 2, MaxItems <- 2, DefaultCapacity <- 2
Compared == INSTANCE JsonEqual WITH
  Bits <- 5, Precision <- 3, Names <- {"a", "b"}, Strings <- {"s"}, MaxItems <- 2

\* The tokens "a", "0", "1" and "-".
InvalidIndex == 15
PointerTokens ==
  {[name |-> "a", index |-> InvalidIndex], [name |-> "-", index |-> InvalidIndex],
   [name |-> "0", index |-> 0], [name |-> "1", index |-> 1]}
Resolution == INSTANCE JsonPointerResolve WITH
  calls <- resolveCalls, Atoms <- {"x"}, Names <- {}, Tokens <- PointerTokens,
  kInvalidIndex <- InvalidIndex, MaxTokens <- 2, MaxCalls <- 3

Data == INSTANCE MCJsonSchemas
Validation == INSTANCE JsonSchemaValidator WITH
  Bits <- 5, Precision <- 3, SizeMax <- 15,
  RemoteUri <- Data!RemoteUri, RemoteDocument <- Data!RemoteDocument,
  Length <- Data!Length, Matches <- Data!Matches,
  Documents <- Data!SchemaDocuments, ValuesOf <- Data!ValuesOf, Further <- Data!Further

NoComparison == x = "none" /\ y = "none" /\ equal = "none"
NoValidation ==
  /\ document = 0 /\ schemas = "none" /\ value = "none"
  /\ at = 0 /\ validator = "none"

\* Two documents that are built from short texts, and one from longer ones.
ShortTexts == Len(given') <= 1
OneDocument == \A d \in Documents \ {1} : ~doc'[d].exists

MCInit ==
  /\ part \in {"pools", "build", "long", "short", "equal", "memory", "resolve", "schema"}
  /\ DocumentInit /\ Init /\ Long!Init /\ Resolution!Init
  /\ IF part = "equal" THEN Compared!Init ELSE NoComparison
  /\ IF part = "schema" THEN Validation!Init ELSE NoValidation

OfDocuments == UNCHANGED <<part, vars, cells, resolved, compared, validation>>
OfValues == UNCHANGED <<part, documentVars, vars, resolved, compared, validation>>

MCNext ==
  \/ part = "pools" /\ DocumentNext /\ ShortTexts /\ OfDocuments
  \/ part = "build" /\ DocumentNext /\ OneDocument /\ OfDocuments
  \/ part = "long" /\ Long!Next /\ OfValues
  \/ part = "short" /\ Short!Next /\ OfValues
  \/ /\ part = "equal" /\ Compared!Next
     /\ UNCHANGED <<part, documentVars, vars, cells, resolved, validation>>
  \/ /\ part = "memory" /\ Next
     /\ UNCHANGED <<part, documentVars, cells, resolved, compared, validation>>
  \/ /\ part = "resolve" /\ Resolution!NextCall
     /\ UNCHANGED <<part, documentVars, vars, cells, compared, validation>>
  \/ /\ part = "schema" /\ Validation!Next
     /\ UNCHANGED <<part, documentVars, vars, cells, resolved, compared>>

MCSpec == MCInit /\ [][MCNext]_allVars

-----------------------------------------------------------------------------
(* The properties of their parts; those of documents, and of the memory of *)
(* pointers, are stated with them.                                         *)

\* The events of Accept.
RECURSIVE Accept(_)
Accept(node) ==
  <<node.type>>
    \o FlattenSeq([i \in DOMAIN node.items |-> Accept(node.items[i])])
    \o (IF node.type \in {"array", "object"} THEN <<"end">> ELSE <<>>)

\* A document that was built gives the events that it was built from; a text that turns
\* out to be wrong leaves the document as it was; and either leaves an empty stack
\* (JsonDocument.FailureKeepsDocument, document.h:1868-1905, 2259-2269, 2437-2492).
BuiltGivesTheSame ==
  [][/\ building # 0 /\ building' = 0 /\ ~doc'[building].error =>
          Accept(doc'[building].value) = given
     /\ FailureKeepsDocument]_documentVars

\* No block is owned by two values, and none by a value after it was freed; each block that
\* is allocated is owned by a value (JsonValue.OwnedOnce, NothingLeaks,
\* document.h:800-842, 1429-1485, 1509-1523, 1688-1727, 2084-2088).
ValuesOwnTheirMemory ==
  /\ part = "long" => Long!OwnedOnce /\ Long!NothingLeaks
  /\ part = "short" => Short!OwnedOnce /\ Short!NothingLeaks

\* The values are trees that change only where the call says: the steps implement those
\* of JsonTree (MCJsonValue.ValuesAreTrees, document.h:836-906, 1287-1299, 1575-1727).
ValuesAreTrees == [][part = "short" => Short!StepOfTrees]_allVars

\* Values are equal when they are the same but for the order of members, integers when they
\* have the same 64 bits, doubles and integers when the one is rounded to the other, objects
\* with a name twice when each member on the left is found on the right; a number is read as
\* a double without loss just when the double is the number (JsonEqual.EqualIsSame,
\* LosslessIsExact, document.h:935-974, 1035-1052, 1745-1752).
EqualIsSame == part = "equal" =>
  /\ Compared!EqualIsSame
  /\ Compared!LosslessIsExact

\* The call of a pointer acts where it points: what it makes is found again, what it
\* answers is true, what lies beside its way stays, and what it erases is gone alone
\* (JsonPointerResolve.WhatIsMadeIsFound, AnswerIsTrue, OthersStay, EraseKeepsOthers,
\* pointer.h:449-507, 539-567, 771-809).
PointersActWhereTheyPoint ==
  [][part = "resolve" =>
       /\ Resolution!WhatIsMadeIsFound
       /\ Resolution!AnswerIsTrue
       /\ Resolution!OthersStay
       /\ Resolution!EraseKeepsOthers]_allVars

\* A value is valid at its end just when its schema accepts it; a value that is refused on
\* the way is one that it does not accept, and the pointer points to what was refused; and
\* no context is left at the end, whatever was validated before
\* (JsonSchemaValidator.ValidIsAccepted, RefusalsPoint, schema.h:676-1014, 1185-1356,
\* 1550-1565, 1664-1709, 1846-1882, 2077-2148, 2233-2301).
SchemasAreMeant == part = "schema" =>
  /\ Validation!ValidIsAccepted
  /\ Validation!RefusalsPoint

=============================================================================
