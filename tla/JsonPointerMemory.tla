-------------------------- MODULE JsonPointerMemory --------------------------
(***************************************************************************)
(* The memory of pointers (rapidjson/pointer.h): the tokens and, behind    *)
(* them in one block, the names they refer to; and the allocator that a    *)
(* pointer makes for itself when it is given none.  Blocks are freed one   *)
(* by one, as those of CrtAllocator, which has no state: a call of one     *)
(* that has been deleted still allocates.                                  *)
(***************************************************************************)
EXTENDS Naturals, Sequences, SequencesExt, FiniteSets

CONSTANTS
  Slots,         \* where the program keeps pointers
  MaxTokens,
  MaxCalls

VARIABLES
  pointers,      \* of the slots that are taken
  heap,          \* the blocks that are allocated, the allocators that pointers made
  crashed,       \* what is at a null address was read
  calls

vars == <<pointers, heap, crashed, calls>>

\* What a reference refers to, apart from a block or an allocator.
None    == 0
Users   == 1     \* the program's
Nowhere == 2

\* That a pointer was copied, by GenericPointer(rhs), is recorded.
New == [allocator |-> None, own |-> None, buffer |-> None, tokens |-> None, names |-> <<>>,
        copied |-> FALSE]

Made(h, p) == [heap |-> h, pointer |-> p]

Used(h, p) ==
  LET held == {p} \cup {pointers[s] : s \in DOMAIN pointers}
  IN  h.blocks \cup h.allocators
        \cup UNION {{q.allocator, q.own, q.buffer, q.tokens} : q \in held}

\* A number for a block or an allocator, that nothing refers to.
Unused(h, p) ==
  LET used == Used(h, p)
  IN  CHOOSE i \in 3 .. 3 + Cardinality(used) : i \notin used

\* Without an allocator it makes its own.
Equipped(h, p) ==
  LET a == Unused(h, p)
  IN  IF p.allocator # None THEN Made(h, p)
      ELSE Made([h EXCEPT !.allocators = @ \cup {a}], [p EXCEPT !.allocator = a, !.own = a])

\* A block for tokens and names, which is none when both are empty.
Filled(h, p, empty) ==
  LET e == Equipped(h, p)
      b == Unused(e.heap, e.pointer)
  IN  IF empty THEN Made(e.heap, [e.pointer EXCEPT !.buffer = None, !.tokens = None])
      ELSE Made([e.heap EXCEPT !.blocks = @ \cup {b}],
                [e.pointer EXCEPT !.buffer = b, !.tokens = b])

\* Variant: the names of the copy are those of the original.
MovedNot(name, from, to) == name

\* The name of a copied token, which lies as far behind the new buffer as the old one lay
\* behind the old.
Moved(name, from, to) == IF name = from /\ from # None THEN to ELSE Nowhere

CopyFromRaw(h, p, rhs, extra) ==
  LET f == Filled(h, p, Len(rhs.names) + extra = 0)
      b == f.pointer.buffer
      names == [i \in DOMAIN rhs.names |-> Moved(rhs.names[i], rhs.buffer, b)]
  IN  [f EXCEPT !.pointer.names = names \o [i \in 1 .. extra |-> b]]

Freed(h, p) == IF p.buffer = None THEN h ELSE [h EXCEPT !.blocks = @ \ {p.tokens}]

\* Variant: the tokens that are replaced are not freed.
AssignedOver(h, p, rhs) ==
  IF rhs.buffer # None THEN CopyFromRaw(h, p, rhs, 0)
  ELSE Made(h, [p EXCEPT !.tokens = rhs.tokens, !.names = rhs.names, !.buffer = None])

\* The tokens of the program are shared, all others copied.
Assigned(h, p, rhs) ==
  LET freed == Freed(h, p)
  IN  IF rhs.buffer # None THEN CopyFromRaw(freed, p, rhs, 0)
      ELSE Made(freed, [p EXCEPT !.tokens = rhs.tokens, !.names = rhs.names, !.buffer = None])

\* A parse that fails frees the block, not the allocator.
Unparsed(made) ==
  Made(Freed(made.heap, made.pointer), [made.pointer EXCEPT !.buffer = None, !.tokens = None])

-----------------------------------------------------------------------------

Init ==
  /\ pointers = <<>> /\ heap = [blocks |-> {}, allocators |-> {}]
  /\ crashed = FALSE /\ calls = 0

Call == ~crashed /\ calls < MaxCalls /\ calls' = calls + 1

Put(slot, made) ==
  /\ UNCHANGED crashed
  /\ heap' = made.heap
  /\ pointers' = [s \in DOMAIN pointers \cup {slot} |->
                    IF s = slot THEN made.pointer ELSE pointers[s]]

Free(slot) == slot \notin DOMAIN pointers
Given == {[New EXCEPT !.allocator = a] : a \in {None, Users}}

\* GenericPointer().
Default ==
  /\ Call
  /\ \E slot \in Slots, p \in Given : Free(slot) /\ Put(slot, Made(heap, p))

\* GenericPointer(source): of the empty text, of "#", of tokens, or wrong.
Parse ==
  /\ Call
  /\ \E slot \in Slots, p \in Given, n \in 0 .. MaxTokens, empty, ok \in BOOLEAN :
       /\ Free(slot) /\ (empty => n = 0 /\ ok)
       /\ LET made == Filled(heap, p, empty)
              names == [i \in 1 .. n |-> made.pointer.buffer]
          IN  Put(slot, IF ok THEN [made EXCEPT !.pointer.names = names] ELSE Unparsed(made))

\* GenericPointer(tokens, tokenCount).
FromTokens ==
  /\ Call
  /\ \E slot \in Slots, n \in 0 .. MaxTokens :
       /\ Free(slot)
       /\ Put(slot, Made(heap, [New EXCEPT !.tokens = Users, !.names = [i \in 1 .. n |-> Users]]))

\* GenericPointer(rhs) has the allocator of rhs, also one that rhs made or that is deleted;
\* GenericPointer(rhs, allocator) has what it is given.
Copy ==
  /\ Call
  /\ \E slot \in Slots, from \in DOMAIN pointers :
       /\ Free(slot)
       /\ LET sharing == [New EXCEPT !.allocator = pointers[from].allocator, !.copied = TRUE]
          IN  \E p \in Given \cup {sharing} : Put(slot, Assigned(heap, p, pointers[from]))

Assign ==
  /\ Call
  /\ \E slot, from \in DOMAIN pointers :
       slot # from /\ Put(slot, Assigned(heap, pointers[slot], pointers[from]))

\* Variant: each of two pointers keeps the allocator it owns.
SwapNotOwn ==
  /\ Call
  /\ \E a, b \in DOMAIN pointers :
       /\ a # b
       /\ pointers' = [pointers EXCEPT ![a] = [pointers[b] EXCEPT !.own = pointers[a].own],
                                       ![b] = [pointers[a] EXCEPT !.own = pointers[b].own]]
  /\ UNCHANGED <<heap, crashed>>

Swap ==
  /\ Call
  /\ \E a, b \in DOMAIN pointers :
       a # b /\ pointers' = [pointers EXCEPT ![a] = pointers[b], ![b] = pointers[a]]
  /\ UNCHANGED <<heap, crashed>>

\* The tokens are the program's, and there are no names but in them.
NullNames(p) == p.buffer = None /\ p.names # <<>>

\* All names are copied from the name buffer.
AppendToken ==
  /\ Call
  /\ \E from \in DOMAIN pointers :
       \/ /\ ~NullNames(pointers[from]) /\ Len(pointers[from].names) < MaxTokens
          /\ \E slot \in Slots, p \in Given :
               Free(slot) /\ Put(slot, CopyFromRaw(heap, p, pointers[from], 1))
       \/ NullNames(pointers[from]) /\ crashed' = TRUE /\ UNCHANGED <<pointers, heap>>

\* ~GenericPointer.
Delete ==
  /\ Call
  /\ \E slot \in DOMAIN pointers :
       /\ heap' = [Freed(heap, pointers[slot]) EXCEPT !.allocators = @ \ {pointers[slot].own}]
       /\ pointers' = [s \in DOMAIN pointers \ {slot} |-> pointers[s]]
  /\ UNCHANGED crashed

Next == Default \/ Parse \/ FromTokens \/ Copy \/ Assign \/ Swap \/ AppendToken \/ Delete

Spec == Init /\ [][Next]_vars

-----------------------------------------------------------------------------
(* Properties.                                                             *)

\* The names of a pointer are in its own buffer, which is not freed, or they are the
\* program's (pointer.h:819-843).
NamesAreAlive ==
  \A s \in DOMAIN pointers :
    LET p == pointers[s]
    IN  p.buffer \in heap.blocks \cup {None}
          /\ \A i \in DOMAIN p.names : p.names[i] \in {Users, p.buffer} \ {None}

\* Every block and every allocator is owned by one pointer, and none is lost or freed
\* twice (pointer.h:176-217).
OwnedOnce ==
  /\ heap.blocks = {pointers[s].buffer : s \in DOMAIN pointers} \ {None}
  /\ heap.allocators = {pointers[s].own : s \in DOMAIN pointers} \ {None}
  /\ \A s, t \in DOMAIN pointers :
       s # t => /\ pointers[s].buffer = None \/ pointers[s].buffer # pointers[t].buffer
                /\ pointers[s].own = None \/ pointers[s].own # pointers[t].own

\* A pointer has the allocator it was given or made, which is there, unless it was copied
\* without one: that has the allocator of the original, which is deleted with the pointer
\* that made it and may then be called again, where it is to be the user's or its own
\* (pointer.h:166, 179, 820-828, 1099).
AllocatorsAreAlive ==
  \A s \in DOMAIN pointers :
    LET p == pointers[s]
    IN  /\ p.allocator \in {None, Users, p.own} \/ (p.copied /\ p.own = None)
        /\ p.allocator \in {None, Users} \cup heap.allocators \/ (p.copied /\ p.own = None)

\* Nothing but to append to tokens that the program has given crashes (pointer.h:834-836).
OnlyNullNamesCrash == crashed => \E s \in DOMAIN pointers : NullNames(pointers[s])

\* A pointer's memory and allocator are its own as long as it needs them, but for the
\* allocator of a copy, and the names it copies are there, but for those of the program's
\* tokens (pointer.h:165-217, 244-253, 819-843).
PointersOwnTheirMemory ==
  /\ OwnedOnce
  /\ NamesAreAlive
  /\ AllocatorsAreAlive
  /\ OnlyNullNamesCrash

=============================================================================
