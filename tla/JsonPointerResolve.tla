------------------------- MODULE JsonPointerResolve -------------------------
(***************************************************************************)
(* Pointers resolved in a tree of values (rapidjson/pointer.h): Create,    *)
(* Get, GetWithDefault, Set, Swap and Erase.  The tree is the forest of    *)
(* JsonTree, and a value that is found is the path to it.                  *)
(***************************************************************************)
EXTENDS JsonTree, FiniteSets

CONSTANTS
  Tokens,        \* [name, index]; kInvalidIndex of a name that is no number
  kInvalidIndex,
  MaxTokens,
  MaxCalls

VARIABLES
  other,         \* the value of the program that Swap exchanges
  last,          \* the call that was made
  calls

vars == <<forest, other, last, calls>>

Pointers == UNION {[1 .. n -> Tokens] : n \in 0 .. MaxTokens}

\* FindMember, 0 when there is none.
FindMember(node, name) == SelectInSeq(node.items, LAMBDA item : item.name = name)

-----------------------------------------------------------------------------
(* Get.                                                                    *)

\* The item of a node that a token stands for, 0 when there is none.
Resolve(node, token) ==
  CASE node.type = "object" -> FindMember(node, token.name)
    [] node.type = "array" -> IF token.index < Len(node.items) THEN token.index + 1 ELSE 0
    [] OTHER -> 0

\* The path of a pointer, as far as it is resolved.
Get(tree, pointer) ==
  FoldLeft(LAMBDA got, token :
             LET i == Resolve(Node(tree, got.path), token)
             IN  IF ~got.ok \/ i = 0 THEN [got EXCEPT !.ok = FALSE]
                 ELSE [got EXCEPT !.path = Append(@, i)],
           [ok |-> TRUE, path |-> <<>>], pointer)

-----------------------------------------------------------------------------
(* Create.                                                                 *)

Nulls(n) == [i \in 1 .. n |-> Item(NoName, Null)]

\* Variant: a number makes an array of an object.
RetypedByIndex(node, token) ==
  CASE token.index = kInvalidIndex /\ node.type # "object" -> Leaf("object", NoAtom)
    [] token.index # kInvalidIndex /\ node.type # "array" -> Leaf("array", NoAtom)
    [] OTHER -> node

\* A name asks for an object, a number for an array or an object.
Retyped(node, token) ==
  CASE token.index = kInvalidIndex /\ node.type # "object" -> Leaf("object", NoAtom)
    [] token.index # kInvalidIndex /\ node.type \notin Containers -> Leaf("array", NoAtom)
    [] OTHER -> node

\* An array with an item for the index.
Extended(node, token) ==
  [node EXCEPT !.items = @ \o Nulls(IF token.index >= Len(@) THEN token.index + 1 - Len(@) ELSE 0)]

\* What a token makes of a node: the node, its item for the token, whether it was there.
Added(node, name) == [node EXCEPT !.items = Append(@, Item(name, Null))]
Outcome(node, i, exist) == [node |-> node, i |-> i, exist |-> exist]

\* Variant: an item pushed at the end is said to have been there.
PushedThere(node) == Outcome(Added(node, NoName), Len(node.items) + 1, TRUE)

Pushed(node) == Outcome(Added(node, NoName), Len(node.items) + 1, FALSE)

InArray(node, token) ==
  Outcome(Extended(node, token), token.index + 1, token.index < Len(node.items))

\* Variant: a member that was added is taken to be the first.
InObjectFirst(node, token) ==
  LET i == FindMember(node, token.name)
  IN  IF i # 0 THEN Outcome(node, i, TRUE)
      ELSE Outcome(Added(node, token.name), 1, FALSE)

\* A member that was added is the last.
InObject(node, token) ==
  LET i == FindMember(node, token.name)
  IN  IF i # 0 THEN Outcome(node, i, TRUE)
      ELSE Outcome(Added(node, token.name), Len(node.items) + 1, FALSE)

Made(node, token) ==
  LET retyped == Retyped(node, token)
  IN  CASE node.type = "array" /\ token.name = "-" -> Pushed(node)
        [] retyped.type = "array" /\ token.name # "-" -> InArray(retyped, token)
        [] retyped.type = "object" /\ (node.type # "array" \/ token.name # "-") ->
             InObject(retyped, token)

\* The tree with a node at the pointer, its path, and whether it was there already.
Create(tree, pointer) ==
  FoldLeft(LAMBDA c, token :
             LET made == Made(Node(c.tree, c.path), token)
             IN  [tree  |-> With(c.tree, c.path, made.node),
                  path  |-> Append(c.path, made.i),
                  exist |-> c.exist /\ made.exist],
           [tree |-> tree, path |-> <<>>, exist |-> TRUE], pointer)

-----------------------------------------------------------------------------
(* Erase.                                                                  *)

\* Variant: the last item fills the gap.
WithoutLast(node, i) == [node EXCEPT !.items = Front(ReplaceAt(@, i, Last(@)))]

Without(node, i) == [node EXCEPT !.items = RemoveAt(@, i)]

\* The root is never erased.
Erased(tree, pointer) ==
  IF pointer = <<>> THEN [tree |-> tree, erased |-> FALSE]
  ELSE LET parent == Get(tree, Front(pointer))
           i == Resolve(Node(tree, parent.path), Last(pointer))
       IN  IF parent.ok /\ i # 0
           THEN [tree |-> With(tree, parent.path, Without(Node(tree, parent.path), i)),
                 erased |-> TRUE]
           ELSE [tree |-> tree, erased |-> FALSE]

-----------------------------------------------------------------------------

NoCall == [op |-> "none", pointer |-> <<>>, path |-> <<>>, answer |-> FALSE]

Called(op, pointer, path, answer) ==
  /\ calls < MaxCalls /\ calls' = calls + 1
  /\ last' = [op |-> op, pointer |-> pointer, path |-> path, answer |-> answer]

Values == {Leaf("atom", a) : a \in Atoms}

Init == forest = Null /\ other = Null /\ last = NoCall /\ calls = 0

CreateValue ==
  \E p \in Pointers :
    LET c == Create(forest, p)
    IN  /\ Called("create", p, c.path, c.exist)
        /\ forest' = c.tree
        /\ UNCHANGED other

SetValue ==
  \E p \in Pointers, v \in Values :
    LET c == Create(forest, p)
    IN  /\ Called("set", p, c.path, c.exist)
        /\ forest' = With(c.tree, c.path, v)
        /\ UNCHANGED other

GetWithDefault ==
  \E p \in Pointers, v \in Values :
    LET c == Create(forest, p)
    IN  /\ Called("default", p, c.path, c.exist)
        /\ forest' = IF c.exist THEN c.tree ELSE With(c.tree, c.path, v)
        /\ UNCHANGED other

SwapValue ==
  \E p \in Pointers :
    LET c == Create(forest, p)
    IN  /\ Called("swap", p, c.path, c.exist)
        /\ forest' = With(c.tree, c.path, other)
        /\ other' = Node(c.tree, c.path)

EraseValue ==
  \E p \in Pointers :
    LET e == Erased(forest, p)
    IN  /\ Called("erase", p, <<>>, e.erased)
        /\ forest' = e.tree
        /\ UNCHANGED other

NextCall == CreateValue \/ SetValue \/ GetWithDefault \/ SwapValue \/ EraseValue

SpecCalls == Init /\ [][NextCall]_vars

-----------------------------------------------------------------------------
(* Properties.                                                             *)

Creates == {"create", "set", "default", "swap"}

\* The value a call returns is found again, by the pointer of the call, or, where that
\* appends with "-", by the number that the new item has (pointer.h:461-507, 539-567).
WhatIsMadeIsFound ==
  \E tree \in {forest'}, call \in {last'} :
    call.op \in Creates =>
      LET Number(i) == [name |-> NoName, index |-> call.path[i] - 1]
      IN  \E numbers \in SUBSET {i \in DOMAIN call.pointer : call.pointer[i].name = "-"} :
            Get(tree, [i \in DOMAIN call.pointer |->
                         IF i \in numbers THEN Number(i) ELSE call.pointer[i]])
              = [ok |-> TRUE, path |-> call.path]

\* A call says that the value was there just when Get finds it, and then nothing but the
\* value changes; Erase says so of all but the root, and nothing changes when it does not
\* (pointer.h:497-500, 771-809).
AnswerIsTrue ==
  LET found == Get(forest, last'.pointer)
  IN  /\ last'.answer <=> found.ok /\ (last'.op = "erase" => last'.pointer # <<>>)
      /\ last'.op = "erase" /\ ~last'.answer => forest' = forest
      /\ last'.op \in {"create", "default"} /\ last'.answer => forest' = forest

\* The nodes above the value that a call is about, with a token that they are no
\* container for: what they hold is lost, as the documentation says.
IsLost(path) ==
  \E n \in 0 .. Len(last'.pointer) - 1 :
    /\ IsPrefix(SubSeq(last'.path, 1, n), path)
    /\ LET above == Get(forest, SubSeq(last'.pointer, 1, n))
       IN  /\ above.ok
           /\ Node(forest, above.path).type = "array"
           /\ last'.pointer[n + 1].index = kInvalidIndex /\ last'.pointer[n + 1].name # "-"

\* A call that makes a value keeps all others at their places, unless the documentation
\* says that they are lost: "if a document was an array, and "/foo" is used to create a
\* value" (pointer.h:449-452).
OthersStay ==
  last'.op \in Creates =>
    \E now \in {Paths(forest')} :
      \A p \in Paths(forest) :
        Apart(p, last'.path) =>
          \/ p \in now /\ Node(forest', p) = Node(forest, p)
          \/ IsLost(p)

\* What is erased is gone, and every other value is found where it was, or, behind it in
\* its array or object, one place before (pointer.h:771-809).
EraseKeepsOthers ==
  last'.op = "erase" /\ last'.answer =>
    \E gone \in {Get(forest, last'.pointer).path}, paths \in {Paths(forest)} :
      LET n == Len(gone)
          Now(p) == IF Len(p) >= n /\ SubSeq(p, 1, n - 1) = Front(gone) /\ p[n] > gone[n]
                    THEN [p EXCEPT ![n] = @ - 1] ELSE p
          Kept == {p \in paths : ~IsPrefix(gone, p)}
      IN  /\ Paths(forest') = {Now(p) : p \in Kept}
          /\ \A p \in Kept : Apart(p, gone) => Node(forest', Now(p)) = Node(forest, p)

=============================================================================
