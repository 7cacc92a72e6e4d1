------------------------------ MODULE PoolStack ------------------------------
(***************************************************************************)
(* Stacks (rapidjson/internal/stack.h) that grow in one memory pool        *)
(* (rapidjson/allocators.h).  The pool hands out parts of its newest chunk *)
(* and takes nothing back; a stack is a block of the pool that is resized  *)
(* when it is full.  An address is a number, a cell holds one element.     *)
(***************************************************************************)
EXTENDS Integers, Sequences, SequencesExt, FiniteSets

CONSTANTS
  Stacks,           \* the stacks
  MaxPush,          \* how many elements one Push takes at most
  MaxSize,          \* bound on the elements of a stack
  Alignment,        \* of RAPIDJSON_ALIGN
  Header,           \* RAPIDJSON_ALIGN(sizeof(ChunkHeader))
  chunk_capacity_,
  UserBuffer,       \* capacity of the user's buffer, 0 for none
  InitialCapacity,  \* initialCapacity_ of the stacks
  MemorySize        \* addresses the base allocator can give

\* A header takes some cells, or the end of one chunk would be the beginning of the
\* next, and the last block of an old chunk would be taken for that of the newest
\* (allocators.h:225); the user's buffer lies in memory.  Its capacity is its size less
\* sizeof(ChunkHeader), and its blocks begin behind RAPIDJSON_ALIGN of that (allocators.h:144,
\* 198): the same on 64 bits, where the header takes 24 bytes; on 32 bits it takes 12, and
\* four bytes behind the buffer are taken to be of it, which the assumption excludes.
ASSUME PoolAssumption ==
  /\ Alignment \in Nat \ {0} /\ Header \in Nat \ {0}
  /\ chunk_capacity_ \in Nat /\ UserBuffer \in Nat /\ InitialCapacity \in Nat
  /\ MaxPush \in Nat /\ MemorySize \in Nat
  /\ UserBuffer > 0 => Header + UserBuffer <= MemorySize

VARIABLES
  chunks,   \* the list at chunkHead_, the newest first
  memory,   \* what the cells hold
  stacks,   \* for each stack its stack_, GetSize() and GetCapacity()
  pushed,   \* history: for each stack, the elements on it
  crashed   \* a null pointer was written through

poolVars == <<chunks, memory, stacks, pushed, crashed>>

NULL == -1

Aligned(n) == ((n + Alignment - 1) \div Alignment) * Alignment

-----------------------------------------------------------------------------
(* MemoryPoolAllocator.  A result is the chunks and a pointer.             *)

\* Where a new chunk goes: the base allocator's first address behind the chunks.
Break(cs) == IF cs = <<>> THEN 0 ELSE cs[1].base + Header + cs[1].capacity

\* The base allocator has nothing left: AddChunk, and then Malloc, return NULL.
Exhausted(cs, capacity) == Break(cs) + Header + capacity > MemorySize

AddChunk(cs, capacity) == <<[base |-> Break(cs), capacity |-> capacity, size |-> 0]>> \o cs

Allocate(cs, size) ==
  [chunks |-> [cs EXCEPT ![1].size = @ + size], ptr |-> cs[1].base + Header + cs[1].size]

Malloc(n) ==
  LET size     == Aligned(n)
      capacity == IF chunk_capacity_ > size THEN chunk_capacity_ ELSE size
  IN  CASE n = 0 -> [chunks |-> chunks, ptr |-> NULL]
        [] n > 0 /\ chunks # <<>> /\ chunks[1].size + size <= chunks[1].capacity ->
             Allocate(chunks, size)
        [] OTHER ->
             IF Exhausted(chunks, capacity)
             THEN [chunks |-> chunks, ptr |-> NULL]
             ELSE Allocate(AddChunk(chunks, capacity), size)

\* The block ends where the newest chunk is filled to.
IsLast(ptr, size) == chunks # <<>> /\ ptr = chunks[1].base + Header + chunks[1].size - size

\* Variant: the block grows in place if there is room, last or not.
GrowsAnywhere(ptr, original, new) ==
  chunks # <<>> /\ chunks[1].size + new - original <= chunks[1].capacity

GrowsInPlace(ptr, original, new) ==
  IsLast(ptr, original) /\ chunks[1].size + new - original <= chunks[1].capacity

Realloc(ptr, originalSize, newSize) ==
  LET original == Aligned(originalSize)
      new      == Aligned(newSize)
  IN  CASE ptr = NULL -> Malloc(newSize)
        [] ptr # NULL /\ newSize = 0 -> [chunks |-> chunks, ptr |-> NULL]
        [] ptr # NULL /\ newSize # 0 /\ original >= new -> [chunks |-> chunks, ptr |-> ptr]
        [] OTHER ->
             IF GrowsInPlace(ptr, original, new)
             THEN [chunks |-> [chunks EXCEPT ![1].size = @ + new - original], ptr |-> ptr]
             ELSE Malloc(new)

\* Variant: nothing is copied.
CopiedNothing(from, to, n) == memory

\* Cells after the memcpy of n cells, if the block has moved.
Copied(from, to, n) ==
  [a \in DOMAIN memory |->
     IF from # NULL /\ from # to /\ a \in to .. to + n - 1 THEN memory[from + a - to] ELSE memory[a]]

\* Clear frees the chunks but the user's buffer, the oldest, which it empties.
ClearedChunks ==
  IF UserBuffer > 0 THEN <<[Last(chunks) EXCEPT !.size = 0]>> ELSE <<>>

-----------------------------------------------------------------------------
(* Stack.                                                                  *)

EmptyStack == [stack_ |-> NULL, size |-> 0, capacity |-> 0]

\* The cells with those that no stack reads blanked: what they hold is not looked
\* at before it is overwritten.
Blanked(cells, all) ==
  [a \in DOMAIN cells |->
     IF \E s \in Stacks : /\ all[s].stack_ # NULL
                          /\ a \in all[s].stack_ .. all[s].stack_ + all[s].size - 1
     THEN cells[a] ELSE <<>>]

\* Variant: a stack that is full grows by half, however much is pushed.
ExpandedByHalf(s, count) ==
  IF stacks[s].stack_ = NULL
  THEN InitialCapacity
  ELSE stacks[s].capacity + (stacks[s].capacity + 1) \div 2

\* The capacity a stack that is full grows to.
Expanded(s, count) ==
  LET capacity == IF stacks[s].stack_ = NULL
                  THEN InitialCapacity
                  ELSE stacks[s].capacity + (stacks[s].capacity + 1) \div 2
      size     == stacks[s].size + count
  IN  IF capacity < size THEN size ELSE capacity

\* Resize puts the result of Realloc into stack_ and does not look at it: with
\* NULL the elements that follow are written near address 0.
Resize(s, capacity, elements) ==
  LET result == Realloc(stacks[s].stack_, stacks[s].capacity, capacity)
      top    == result.ptr + stacks[s].size
      cells  == Copied(stacks[s].stack_, result.ptr, Aligned(stacks[s].capacity))
  IN  IF result.ptr = NULL
      THEN crashed' = TRUE /\ UNCHANGED <<chunks, memory, stacks>>
      ELSE /\ chunks' = result.chunks
           /\ stacks' = [stacks EXCEPT ![s] =
                [stack_ |-> result.ptr, size |-> @.size + Len(elements), capacity |-> capacity]]
           /\ memory' = Blanked([a \in DOMAIN memory |->
                IF a \in top .. top + Len(elements) - 1 THEN elements[a - top + 1] ELSE cells[a]],
                stacks')
           /\ UNCHANGED crashed

Push(s, elements) ==
  /\ ~crashed
  /\ stacks[s].size + Len(elements) <= MaxSize
  /\ Resize(s, IF Len(elements) > stacks[s].capacity - stacks[s].size
               THEN Expanded(s, Len(elements)) ELSE stacks[s].capacity, elements)
  /\ pushed' = [pushed EXCEPT ![s] = @ \o elements]

\* The assertion of Pop is its callers' contract.
Pop(s, count) ==
  /\ ~crashed
  /\ count <= stacks[s].size
  /\ stacks' = [stacks EXCEPT ![s].size = @ - count]
  /\ memory' = Blanked(memory, stacks')
  /\ pushed' = [pushed EXCEPT ![s] = SubSeq(@, 1, Len(@) - count)]
  /\ UNCHANGED <<chunks, crashed>>

\* Empty: the block is given up.  Otherwise the capacity becomes the size, and
\* the pool leaves the block where it is.
ShrinkToFit(s) ==
  /\ ~crashed
  /\ IF stacks[s].size = 0
     THEN stacks' = [stacks EXCEPT ![s] = EmptyStack] /\ UNCHANGED <<chunks, memory, crashed>>
     ELSE Resize(s, stacks[s].size, <<>>)
  /\ UNCHANGED pushed

Swap(s, t) ==
  /\ ~crashed
  /\ s # t
  /\ stacks' = [stacks EXCEPT ![s] = stacks[t], ![t] = stacks[s]]
  /\ pushed' = [pushed EXCEPT ![s] = pushed[t], ![t] = pushed[s]]
  /\ UNCHANGED <<chunks, memory, crashed>>

\* Nobody clears a pool that is in use.
ClearPool ==
  /\ ~crashed
  /\ \A s \in Stacks : stacks[s].stack_ = NULL
  /\ chunks' = ClearedChunks
  /\ UNCHANGED <<memory, stacks, pushed, crashed>>

PoolInit ==
  /\ chunks = IF UserBuffer > 0
              THEN <<[base |-> 0, capacity |-> UserBuffer, size |-> 0]>> ELSE <<>>
  /\ memory = [a \in 0 .. MemorySize - 1 |-> <<>>]
  /\ stacks = [s \in Stacks |-> EmptyStack]
  /\ pushed = [s \in Stacks |-> <<>>]
  /\ crashed = FALSE

PoolNext ==
  \/ \E s \in Stacks :
       \/ \E n \in 1 .. MaxPush : Push(s, [i \in 1 .. n |-> <<s, stacks[s].size + i>>])
       \/ \E n \in 1 .. stacks[s].size : Pop(s, n)
       \/ ShrinkToFit(s)
       \/ \E t \in Stacks : Swap(s, t)
  \/ ClearPool

PoolSpec == PoolInit /\ [][PoolNext]_poolVars

-----------------------------------------------------------------------------
(* Properties.                                                             *)

\* The addresses from a pointer on.
Cells(ptr, n) == ptr .. ptr + n - 1

\* Chunks lie one behind the other and are filled at most to their capacity; a
\* stack is as large as its capacity at most (allocators.h:269-273,
\* stack.h:217-222).
TypeOK ==
  /\ \A i \in DOMAIN chunks : chunks[i].size \in 0 .. chunks[i].capacity
  /\ \A s \in Stacks : stacks[s].size \in 0 .. stacks[s].capacity
  /\ DOMAIN memory = 0 .. MemorySize - 1
  /\ crashed \in BOOLEAN

\* The blocks in use lie in the used part of a chunk each, and no two have a cell
\* in common: growing in place, moving, shrinking and clearing the pool never
\* give a cell away twice (allocators.h:189-262, stack.h:182-206).
BlocksAreDisjoint ==
  /\ \A s \in Stacks : stacks[s].stack_ # NULL =>
       \E i \in DOMAIN chunks :
         Cells(stacks[s].stack_, stacks[s].capacity)
           \subseteq Cells(chunks[i].base + Header, chunks[i].size)
  /\ \A s, t \in Stacks : s # t /\ stacks[s].stack_ # NULL /\ stacks[t].stack_ # NULL =>
       Cells(stacks[s].stack_, stacks[s].capacity) \cap
       Cells(stacks[t].stack_, stacks[t].capacity) = {}

\* A stack holds what was pushed and not popped, in that order, over every move
\* of its block (stack.h:113-135, 182-206).
StacksKeepTheirElements ==
  ~crashed => \A s \in Stacks :
    pushed[s] = [i \in 1 .. stacks[s].size |-> memory[stacks[s].stack_ + i - 1]]

\* Stacks grow in one pool and hold what was pushed and not popped, in blocks that have
\* no cell in common, over every move of a block (allocators.h:189-273,
\* stack.h:113-135, 182-222).
StacksShareThePool == TypeOK /\ BlocksAreDisjoint /\ StacksKeepTheirElements

=============================================================================
