------------------------------ MODULE JsonValue ------------------------------
(***************************************************************************)
(* GenericValue (rapidjson/document.h) in memory: a value is a few words,  *)
(* an array, an object or a copied string also owns a block.  The values   *)
(* of the program are the cells of block 0; a member takes two cells, its  *)
(* name and its value.  The allocator is one that frees (CrtAllocator).    *)
(***************************************************************************)
EXTENDS Naturals, Sequences, SequencesExt, FiniteSets

CONSTANTS
  ShortAtoms,      \* numbers, Booleans and strings that fit into a value
  LongAtoms,       \* strings that do not
  Names,           \* of members
  Roots,           \* the number of values of the program
  MaxBlocks,       \* a bound on the memory
  MaxItems,        \* a bound on the items of an array or object
  DefaultCapacity  \* kDefaultArrayCapacity, kDefaultObjectCapacity: 16

VARIABLE heap      \* block -> its cells, <<>> when it is free

Value(type, atom, size, capacity, block) ==
  [type |-> type, atom |-> atom, size |-> size, capacity |-> capacity, block |-> block]
NoAtom == "no atom"
Null   == Value("null", NoAtom, 0, 0, 0)

Containers == {"array", "object"}
Cells(type) == IF type = "object" THEN 2 ELSE 1
Strings == {"short", "const", "copy"}

\* The cells that the value holds, and what they hold.  Cells behind the size of a
\* container are not read; they are Null here.
CellsOf(v) == IF v.type \in Containers THEN {<<v.block, i>> : i \in 1 .. v.size * Cells(v.type)} ELSE {}

Held(h, v) ==
  LET reach[n \in 0 .. MaxBlocks] ==
        IF n = 0 THEN CellsOf(v)
        ELSE reach[n - 1] \cup UNION {CellsOf(h[c[1]][c[2]]) : c \in reach[n - 1]}
  IN  reach[MaxBlocks]

\* The blocks that the value owns, itself and through what it holds.
Owned(h, v) == ({v.block} \cup {h[c[1]][c[2]].block : c \in Held(h, v)}) \ {0}

\* The destructor.
Destroy(h, v) == [b \in DOMAIN h |-> IF b \in Owned(h, v) THEN <<>> ELSE h[b]]

FreeBlocks(h) == {b \in 1 .. MaxBlocks : h[b] = <<>>}
Malloc(h) == CHOOSE b \in FreeBlocks(h) : \A c \in FreeBlocks(h) : b <= c

\* A string value: in the value, or in a block of its own.
SetStringRaw(h, atom) ==
  IF atom \notin LongAtoms THEN [h |-> h, v |-> Value("short", atom, 0, 0, 0)]
  ELSE [h |-> [h EXCEPT ![Malloc(h)] = <<Value("chars", atom, 0, 0, 0)>>],
        v |-> Value("copy", atom, 0, 0, Malloc(h))]

\* The constructor that copies: blocks of just the size.
RECURSIVE Copy(_, _, _)
Copy(h, v, copyConstStrings) ==
  CASE v.type \in Containers /\ v.size = 0 -> [h |-> h, v |-> Value(v.type, NoAtom, 0, 0, 0)]
    [] v.type \in Containers /\ v.size > 0 ->
         LET b == Malloc(h)
             cells == v.size * Cells(v.type)
             copied[i \in 0 .. cells] ==
               IF i = 0 THEN [h EXCEPT ![b] = [j \in 1 .. cells |-> Null]]
               ELSE LET c == Copy(copied[i - 1], h[v.block][i], copyConstStrings)
                    IN  [c.h EXCEPT ![b][i] = c.v]
         IN  [h |-> copied[cells], v |-> Value(v.type, NoAtom, v.size, v.size, b)]
    [] v.type \in Strings /\ ~(v.type = "const" /\ ~copyConstStrings) -> SetStringRaw(h, v.atom)
    [] OTHER -> [h |-> h, v |-> v]

\* The blocks that a copy takes, at most.
TakesBlock(v) == v.type \in Strings \cup Containers
HasRoomFor(h, v) ==
  Cardinality({c \in Held(h, v) : TakesBlock(h[c[1]][c[2]])}) + (IF TakesBlock(v) THEN 1 ELSE 0)
    <= Cardinality(FreeBlocks(h))

-----------------------------------------------------------------------------
(* The places of values: a cell of a block.                                *)

At(h, p) == h[p[1]][p[2]]
Store(h, p, v) == [h EXCEPT ![p[1]][p[2]] = v]

\* operator[]: the values of the items of a container.
ItemsOf(v) ==
  IF v.type \in Containers THEN {<<v.block, i * Cells(v.type)>> : i \in 1 .. v.size} ELSE {}

Places ==
  LET longer[d \in 0 .. MaxBlocks] ==
        IF d = 0 THEN {<<0, i>> : i \in 1 .. Roots}
        ELSE longer[d - 1] \cup UNION {ItemsOf(At(heap, p)) : p \in longer[d - 1]}
  IN  longer[MaxBlocks]

Inside(p, q) == p[1] \in Owned(heap, At(heap, q))

\* Neither is the other, or a part of it.
Apart(p, q) == p # q /\ ~Inside(p, q) /\ ~Inside(q, p)

\* Variant: what is moved is still there.
RawAssignCopies(h, p, q) == Store(h, p, At(h, q))

\* The value is moved, and null is left.
RawAssign(h, p, q) == Store(Store(h, p, At(h, q)), q, Null)

\* SetNull, SetBool, SetInt, SetString, SetArray, SetObject.
Set ==
  \E p \in Places :
    LET h == Destroy(heap, At(heap, p))
    IN  \/ heap' = Store(h, p, Null)
        \/ \E type \in Containers : heap' = Store(h, p, Value(type, NoAtom, 0, 0, 0))
        \/ \E atom \in ShortAtoms : heap' = Store(h, p, Value("short", atom, 0, 0, 0))
        \/ \E atom \in LongAtoms : heap' = Store(h, p, Value("const", atom, 0, 0, 0))
        \/ \E atom \in LongAtoms :
             /\ FreeBlocks(h) # {}
             /\ LET s == SetStringRaw(h, atom) IN heap' = Store(s.h, p, s.v)

\* operator=
Assign ==
  \E p, q \in Places :
    Apart(p, q) /\ heap' = RawAssign(Destroy(heap, At(heap, p)), p, q)

\* operator= of what GetArray or GetObject returns: an empty container is left.
AssignContainer ==
  \E p, q \in Places :
    /\ Apart(p, q)
    /\ At(heap, q).type \in Containers
    /\ heap' = Store(RawAssign(Destroy(heap, At(heap, p)), p, q), q,
                     Value(At(heap, q).type, NoAtom, 0, 0, 0))

CopyFrom ==
  \E p, q \in Places, copyConstStrings \in {LongAtoms # {}, FALSE} :
    /\ Apart(p, q)
    /\ HasRoomFor(Destroy(heap, At(heap, p)), At(heap, q))
    /\ LET c == Copy(Destroy(heap, At(heap, p)), At(heap, q), copyConstStrings)
       IN  heap' = Store(c.h, p, c.v)

Swap ==
  \E p, q \in Places :
    /\ \/ p[1] < q[1]
       \/ p[1] = q[1] /\ p[2] < q[2]
    /\ Apart(p, q)
    /\ heap' = Store(Store(heap, p, At(heap, q)), q, At(heap, p))

-----------------------------------------------------------------------------
(* Arrays and objects.                                                     *)

\* Reserve, MemberReserve: a block is allocated, or moved to a larger one.
Reserve(h, p, capacity) ==
  LET v == At(h, p)
      b == Malloc(h)
      old == IF v.block = 0 THEN <<>> ELSE h[v.block]
      larger == [i \in 1 .. capacity * Cells(v.type) |-> IF i <= Len(old) THEN old[i] ELSE Null]
      moved == [h EXCEPT ![b] = larger]
      freed == IF v.block # 0 THEN [moved EXCEPT ![v.block] = <<>>] ELSE moved
  IN  IF capacity <= v.capacity THEN h
      ELSE Store(freed, p, [v EXCEPT !.capacity = capacity, !.block = b])

Reserves ==
  \E p \in Places :
    /\ At(heap, p).type \in Containers
    /\ FreeBlocks(heap) # {}
    /\ heap' = Reserve(heap, p, MaxItems)

Grown(capacity) == IF capacity = 0 THEN DefaultCapacity ELSE capacity + (capacity + 1) \div 2

WithRoom(h, p) ==
  IF At(h, p).size >= At(h, p).capacity THEN Reserve(h, p, Grown(At(h, p).capacity)) ELSE h

MayPush(p, q) ==
  /\ At(heap, p).size < MaxItems
  /\ FreeBlocks(heap) # {}
  /\ Apart(p, q)

\* A value of the array itself is not pushed: its cell would be gone when the block moves.
PushBack ==
  \E p, q \in Places :
    /\ At(heap, p).type = "array"
    /\ MayPush(p, q)
    /\ LET h == WithRoom(heap, p)
           v == At(h, p)
       IN  heap' = Store(RawAssign(h, <<v.block, v.size + 1>>, q),
                         p, [v EXCEPT !.size = @ + 1])

\* The name is a string that the caller has made for the call: a copy.
AddMember ==
  \E p, q \in Places, name \in Names :
    /\ At(heap, p).type = "object"
    /\ MayPush(p, q)
    /\ name \in LongAtoms => Cardinality(FreeBlocks(heap)) > 1
    /\ LET n == SetStringRaw(heap, name)
           h == WithRoom(n.h, p)
           v == At(h, p)
           named == Store(h, <<v.block, 2 * v.size + 1>>, n.v)
       IN  heap' = Store(RawAssign(named, <<v.block, 2 * v.size + 2>>, q),
                         p, [v EXCEPT !.size = @ + 1])

\* Variant: the item behind the last is left where it is.
MovedUpShort(h, v, first, last) ==
  LET n == Cells(v.type)
      by == (last - first) * n
  IN  [i \in DOMAIN h[v.block] |->
         IF i <= (first - 1) * n \/ i + by > v.size * n - n THEN h[v.block][i]
         ELSE h[v.block][i + by]]

\* The cells behind items first to last - 1, moved up.
MovedUp(h, v, first, last) ==
  LET n == Cells(v.type)
      by == (last - first) * n
  IN  [i \in DOMAIN h[v.block] |->
         CASE i <= (first - 1) * n -> h[v.block][i]
           [] i > (first - 1) * n /\ i + by <= v.size * n -> h[v.block][i + by]
           [] OTHER -> Null]

\* The items first to last - 1 are destroyed.
EraseItems(h, p, first, last) ==
  LET v == At(h, p)
      n == Cells(v.type)
      gone == FoldLeft(LAMBDA g, i : Destroy(g, h[v.block][i]), h,
                       [i \in 1 .. (last - first) * n |-> (first - 1) * n + i])
  IN  Store([gone EXCEPT ![v.block] = MovedUp(h, v, first, last)], p,
            [v EXCEPT !.size = @ - (last - first)])

\* Erase, EraseMember.
Erase ==
  \E p \in Places :
    /\ At(heap, p).type \in Containers
    /\ \E first \in 1 .. At(heap, p).size : \E last \in first + 1 .. At(heap, p).size + 1 :
         heap' = EraseItems(heap, p, first, last)

PopBack ==
  \E p \in Places :
    /\ At(heap, p).type = "array" /\ At(heap, p).size > 0
    /\ heap' = EraseItems(heap, p, At(heap, p).size, At(heap, p).size + 1)

\* Clear, RemoveAllMembers: the block stays.
Clear ==
  \E p \in Places :
    /\ At(heap, p).type \in Containers /\ At(heap, p).block # 0
    /\ heap' = EraseItems(heap, p, 1, At(heap, p).size + 1)

\* FindMember: the first that has the name.
Find(h, v, name) ==
  LET found == {i \in 1 .. v.size : h[v.block][2 * i - 1].atom = name}
  IN  IF found = {} THEN 0 ELSE CHOOSE i \in found : \A j \in found : i <= j

EraseMember ==
  \E p \in Places, name \in Names :
    /\ At(heap, p).type = "object"
    /\ LET i == Find(heap, At(heap, p), name)
       IN  i # 0 /\ heap' = EraseItems(heap, p, i, i + 1)

\* Variant: a member is moved into the place of one that is not destroyed.
MoveLastOver(h, v, i) == [h EXCEPT ![v.block][2 * i - 1] = h[v.block][2 * v.size - 1],
                                   ![v.block][2 * i]     = h[v.block][2 * v.size]]

\* The last member is moved into the place of the one that goes.
MoveLast(h, v, i) ==
  LET gone == Destroy(Destroy(h, h[v.block][2 * i - 1]), h[v.block][2 * i])
  IN  [gone EXCEPT ![v.block][2 * i - 1] = h[v.block][2 * v.size - 1],
                   ![v.block][2 * i]     = h[v.block][2 * v.size]]

RemoveMember ==
  \E p \in Places, name \in Names :
    /\ At(heap, p).type = "object"
    /\ LET v == At(heap, p)
           i == Find(heap, v, name)
           h == MoveLast(heap, v, i)
       IN  /\ i # 0
           /\ heap' = Store([h EXCEPT ![v.block][2 * v.size - 1] = Null,
                                      ![v.block][2 * v.size] = Null],
                            p, [v EXCEPT !.size = @ - 1])

Init == heap = [b \in 0 .. MaxBlocks |-> IF b = 0 THEN [i \in 1 .. Roots |-> Null] ELSE <<>>]

Next ==
  \/ Set \/ Assign \/ AssignContainer \/ CopyFrom \/ Swap
  \/ Reserves \/ PushBack \/ AddMember
  \/ Erase \/ PopBack \/ Clear \/ EraseMember \/ RemoveMember

Spec == Init /\ [][Next]_heap

-----------------------------------------------------------------------------
(* Properties.                                                             *)

Live == {<<0, i>> : i \in 1 .. Roots} \cup UNION {Held(heap, At(heap, <<0, i>>)) : i \in 1 .. Roots}

\* No block is owned by two values, and none by a value after it was freed: nothing is
\* freed twice, and no value changes with another one (document.h:800-842, 2084-2088).
OwnedOnce ==
  \A c \in Live :
    At(heap, c).block # 0 =>
      /\ heap[At(heap, c).block] # <<>>
      /\ \A d \in Live : At(heap, d).block = At(heap, c).block => d = c

\* Each block that is allocated is owned by a value
\* (document.h:800-826, 1429-1485, 1509-1523, 1688-1727).
NothingLeaks ==
  \A b \in 1 .. MaxBlocks : heap[b] # <<>> => \E c \in Live : At(heap, c).block = b

=============================================================================
