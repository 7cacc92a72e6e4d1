----------------------------- MODULE MCJsonValue -----------------------------
(***************************************************************************)
(* JsonValue as an implementation of JsonTree.                             *)
(***************************************************************************)
EXTENDS JsonValue

\* The tree that a value stands for, to a depth.
RECURSIVE TreeOf(_, _)
TreeOf(v, depth) ==
  CASE v.block # 0 /\ (heap[v.block] = <<>> \/ depth = 0) -> [type |-> "freed", items |-> <<>>]
    [] v.type = "copy" /\ heap[v.block] # <<>> ->
         [type |-> "atom", atom |-> heap[v.block][1].atom, items |-> <<>>]
    [] v.type \in {"null"} \cup Containers /\ v.size = 0 ->
         [type |-> v.type, atom |-> NoAtom, items |-> <<>>]
    [] v.type \in {"short", "const"} -> [type |-> "atom", atom |-> v.atom, items |-> <<>>]
    [] OTHER ->
         [type |-> v.type, atom |-> NoAtom,
          items |-> [i \in 1 .. v.size |->
            [name |-> IF v.type = "array" THEN "no name" ELSE heap[v.block][2 * i - 1].atom,
             node |-> TreeOf(heap[v.block][i * Cells(v.type)], depth - 1)]]]

Forest ==
  [type |-> "roots", atom |-> NoAtom,
   items |-> [i \in 1 .. Roots |-> [name |-> "no name", node |-> TreeOf(heap[0][i], MaxBlocks + 1)]]]

Tree == INSTANCE JsonTree WITH
  Atoms <- ShortAtoms \cup LongAtoms, forest <- Forest

\* Whatever is called, the values are trees that change only where the call says: what
\* is moved is gone from where it was, what is copied shares nothing with the copy, what
\* is removed leaves the others as they are, in their order or in another one: each step
\* is one of JsonTree, or none (document.h:652-691, 836-906, 1287-1299, 1429-1548,
\* 1575-1727).
StepOfTrees == \E f \in {Forest}, g \in {Forest'} : g = f \/ Tree!Step(f, g)
ValuesAreTrees == [][StepOfTrees]_heap

=============================================================================
