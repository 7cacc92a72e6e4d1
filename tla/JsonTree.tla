------------------------------- MODULE JsonTree -------------------------------
(***************************************************************************)
(* What a caller of rapidjson's values relies on: a forest of trees that   *)
(* are set, moved, copied and swapped, arrays and objects that grow and    *)
(* shrink.  A node is named by the path to it.  JsonValue implements it.   *)
(***************************************************************************)
EXTENDS Naturals, Sequences, SequencesExt

CONSTANTS
  Atoms,         \* the numbers, Booleans and strings
  Names          \* the names of members

VARIABLE forest  \* a node, whose items are the values of the program

Item(name, node) == [name |-> name, node |-> node]
Leaf(type, atom) == [type |-> type, atom |-> atom, items |-> <<>>]
NoName == "no name"
NoAtom == "no atom"
Null   == Leaf("null", NoAtom)

Containers == {"array", "object"}

\* What a value may be set to.
Fresh == {Null, Leaf("array", NoAtom), Leaf("object", NoAtom)} \cup {Leaf("atom", a) : a \in Atoms}

\* A node of the tree, by the path to it.
Node(tree, path) == FoldLeft(LAMBDA node, i : node.items[i].node, tree, path)

RECURSIVE Paths(_)
Paths(tree) ==
  UNION {{<<i>>} \cup {<<i>> \o p : p \in Paths(tree.items[i].node)} : i \in DOMAIN tree.items}

Apart(p, q) == ~IsPrefix(p, q) /\ ~IsPrefix(q, p)

\* The tree with another node at the path.
RECURSIVE With(_, _, _)
With(tree, path, node) ==
  IF path = <<>> THEN node
  ELSE [tree EXCEPT !.items[Head(path)].node = With(@, Tail(path), node)]

-----------------------------------------------------------------------------
(* The operations, from a forest f to a forest g.                          *)

Set(f, g) == \E p \in Paths(f), node \in Fresh : g = With(f, p, node)

\* What is left of a value that was moved is null, or an empty container.
Left(node) == {Null} \cup (IF node.type \in Containers THEN {Leaf(node.type, NoAtom)} ELSE {})

Move(f, g, p, q) ==
  \E left \in Left(Node(f, q)) : g = With(With(f, q, left), p, Node(f, q))

Copy(f, g, p, q) == g = With(f, p, Node(f, q))

Swap(f, g, p, q) == g = With(With(f, q, Node(f, p)), p, Node(f, q))

Push(f, g, p, q) ==
  /\ Node(f, p).type \in Containers
  /\ \E name \in IF Node(f, p).type = "array" THEN {NoName} ELSE Names :
       g = With(With(f, q, Null), p,
                [Node(f, p) EXCEPT !.items = Append(@, Item(name, Node(f, q)))])

\* Some neighbouring items go, and the others keep their order.
Erase(f, g) ==
  \E p \in Paths(f) : \E first \in DOMAIN Node(f, p).items :
    \E last \in first + 1 .. Len(Node(f, p).items) + 1 :
      g = With(f, p, [Node(f, p) EXCEPT !.items = SubSeq(@, 1, first - 1)
                                                    \o SubSeq(@, last, Len(@))])

\* A member goes, and the others may change places.
RemoveMember(f, g) ==
  \E p \in Paths(f) : \E i \in DOMAIN Node(f, p).items :
    /\ Node(f, p).type = "object"
    /\ \E others \in SetToSeqs(DOMAIN Node(f, p).items \ {i}) :
         g = With(f, p, [Node(f, p) EXCEPT !.items = [j \in DOMAIN others |-> @[others[j]]]])

Step(f, g) ==
  \/ Set(f, g) \/ Erase(f, g) \/ RemoveMember(f, g)
  \/ \E paths \in {Paths(f)} : \E p, q \in paths :
       Apart(p, q) /\ (Move(f, g, p, q) \/ Copy(f, g, p, q) \/ Swap(f, g, p, q) \/ Push(f, g, p, q))

Next == \E f \in {forest}, g \in {forest'} : Step(f, g)

Spec == [][Next]_forest

=============================================================================
