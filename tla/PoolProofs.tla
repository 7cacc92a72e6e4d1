------------------------------ MODULE PoolProofs ------------------------------
(***************************************************************************)
(* A theorem about stacks that grow in one memory pool: whatever is        *)
(* pushed, popped, moved and cleared, their blocks are apart and hold what *)
(* was pushed, for every size of everything.                               *)
(*                                                                         *)
(* The chunks lie one behind the other, each filled up to its size         *)
(* (ChunksOK).  Each block lies in the used part of one chunk with the     *)
(* whole of the room that the pool keeps for it, which is the capacity     *)
(* aligned, and the rooms of two blocks are apart (BlockInv).  That the    *)
(* capacities alone are apart is not inductive, for a block that grows in  *)
(* place goes up to its room.  What Realloc gives is stated once           *)
(* (ReallocGives), for a block that stays, grows in place or moves; Resize *)
(* and the stacks follow from it.                                          *)
(***************************************************************************)
EXTENDS PoolStack, TLAPS, SequenceTheorems

\* The room for n cells is not less than n (rapidjson.h, RAPIDJSON_ALIGN).
LEMMA AlignedRoom ==
  ASSUME NEW n \in Nat
  PROVE  Aligned(n) \in Nat /\ n <= Aligned(n)
<1>1. /\ Alignment \in Nat /\ Alignment > 0
  BY PoolAssumption
<1> DEFINE q == (n + Alignment - 1) \div Alignment
           r == (n + Alignment - 1) % Alignment
<1>2. q \in Nat /\ r \in 0 .. Alignment - 1 /\ n + Alignment - 1 = Alignment * q + r
  BY <1>1
<1> HIDE DEF q, r
<1>3. q * Alignment \in Nat /\ q * Alignment = Alignment * q
  BY <1>1, <1>2
<1>4. n <= q * Alignment
  <2> DEFINE x == q * Alignment
  <2>1. x \in Nat /\ n + Alignment - 1 = x + r
    BY <1>2, <1>3
  <2> HIDE DEF x
  <2>2. n <= x
    BY <1>1, <1>2, <2>1
  <2> QED
    BY <2>2 DEF x
<1> QED
  BY <1>3, <1>4 DEF Aligned, q

-----------------------------------------------------------------------------
(* The pool.                                                               *)

ChunkType == [base: Nat, capacity: Nat, size: Nat]

\* Chunks lie in memory one behind the other, the newest last.
ChunksOK(cs) ==
  /\ cs \in Seq(ChunkType)
  /\ \A i \in 1 .. Len(cs) :
       /\ cs[i].size <= cs[i].capacity
       /\ cs[i].base + Header + cs[i].capacity <= MemorySize
  /\ \A i, j \in 1 .. Len(cs) : i < j => cs[j].base + Header + cs[j].capacity <= cs[i].base

\* The n cells from p on are in the used part of a chunk.
InUse(cs, p, n) ==
  \E i \in 1 .. Len(cs) :
    cs[i].base + Header <= p /\ p + n <= cs[i].base + Header + cs[i].size

Apart(p, n, q, m) == p + n <= q \/ q + m <= p

\* The address up to which the newest chunk is filled.
Fill(cs) == cs[1].base + Header + cs[1].size

\* The parts of a chunk are numbers.
LEMMA ChunkParts ==
  ASSUME NEW cs, ChunksOK(cs)
  PROVE  /\ Len(cs) \in Nat
         /\ cs # <<>> => 1 \in 1 .. Len(cs)
         /\ \A i \in 1 .. Len(cs) :
              cs[i].base \in Nat /\ cs[i].capacity \in Nat /\ cs[i].size \in Nat
<1>1. cs \in Seq(ChunkType) /\ Len(cs) \in Nat
  BY LenProperties DEF ChunksOK
<1>2. cs # <<>> => Len(cs) # 0
  BY <1>1, EmptySeq
<1>3. \A i \in 1 .. Len(cs) : cs[i] \in ChunkType
  BY <1>1, ElementOfSeq
<1> QED
  BY <1>1, <1>2, <1>3 DEF ChunkType

\* Nothing in use is behind the fill of the newest chunk.
LEMMA UsedIsBelowFill ==
  ASSUME NEW cs, ChunksOK(cs), NEW p \in Nat, NEW n \in Nat, InUse(cs, p, n)
  PROVE  /\ p + n <= Fill(cs)
         /\ p + n <= MemorySize
         /\ cs[1].base < p + n => cs[1].base + Header <= p
         /\ Fill(cs) \in Nat
<1>1. PICK i \in 1 .. Len(cs) :
        cs[i].base + Header <= p /\ p + n <= cs[i].base + Header + cs[i].size
  BY DEF InUse
<1>2. /\ Len(cs) \in Nat /\ 1 \in 1 .. Len(cs)
      /\ \A j \in 1 .. Len(cs) :
           cs[j].base \in Nat /\ cs[j].capacity \in Nat /\ cs[j].size \in Nat
  <2>1. Len(cs) \in Nat
    BY ChunkParts
  <2> QED
    BY <1>1, <2>1, ChunkParts
<1>3. Header \in Nat /\ MemorySize \in Nat
  BY PoolAssumption
<1>4. /\ cs[i].size <= cs[i].capacity
      /\ cs[i].base + Header + cs[i].capacity <= MemorySize
      /\ i # 1 => cs[i].base + Header + cs[i].capacity <= cs[1].base
  BY <1>2 DEF ChunksOK
<1>5. cs[1].base \in Nat /\ cs[1].size \in Nat
  BY <1>2
<1>6. cs[i].base \in Nat /\ cs[i].capacity \in Nat /\ cs[i].size \in Nat
  BY <1>2
<1> DEFINE fill == Fill(cs)
           base == cs[1].base
           size == cs[1].size
           b == cs[i].base
           z == cs[i].size
           c == cs[i].capacity
<1>7. /\ base \in Nat /\ size \in Nat /\ b \in Nat /\ z \in Nat /\ c \in Nat
      /\ b + Header <= p /\ p + n <= b + Header + z
      /\ z <= c /\ b + Header + c <= MemorySize
      /\ fill = base + Header + size
  BY <1>1, <1>4, <1>5, <1>6 DEF Fill
<1>8. i = 1 => base = b /\ size = z
  OBVIOUS
<1>9. i # 1 => b + Header + c <= base
  BY <1>4
<1> HIDE DEF fill, base, size, b, z, c
<1>10. /\ p + n <= fill /\ p + n <= MemorySize
       /\ base < p + n => base + Header <= p
       /\ fill \in Nat
  <2>1. CASE i = 1
    BY <1>3, <1>7, <1>8, <2>1
  <2>2. CASE i # 1
    BY <1>3, <1>7, <1>9, <2>2
  <2> QED
    BY <2>1, <2>2
<1> QED
  BY <1>10 DEF fill, base

\* Filling the newest chunk further.
LEMMA FillFurther ==
  ASSUME NEW cs, ChunksOK(cs), cs # <<>>, NEW k \in Nat, cs[1].size <= k, k <= cs[1].capacity,
         Header \in Nat
  PROVE  LET d == [cs EXCEPT ![1].size = k] IN
         /\ ChunksOK(d)
         /\ Len(d) = Len(cs)
         /\ d[1].base = cs[1].base /\ d[1].size = k
         /\ \A p \in Nat, n \in Nat : InUse(cs, p, n) => InUse(d, p, n)
<1> DEFINE d == [cs EXCEPT ![1].size = k]
<1>1. /\ Len(cs) \in Nat /\ 1 \in 1 .. Len(cs)
      /\ \A i \in 1 .. Len(cs) :
           cs[i].base \in Nat /\ cs[i].capacity \in Nat /\ cs[i].size \in Nat
      /\ DOMAIN cs = 1 .. Len(cs)
      /\ \A i \in 1 .. Len(cs) : cs[i] \in ChunkType
  BY ChunkParts, LenProperties, ElementOfSeq DEF ChunksOK
<1>2. /\ \A i \in 1 .. Len(cs) : i # 1 => d[i] = cs[i]
      /\ d[1] = [cs[1] EXCEPT !.size = k]
      /\ DOMAIN d = 1 .. Len(cs)
  BY <1>1
<1>3. /\ d[1] \in ChunkType
      /\ d[1].base = cs[1].base /\ d[1].capacity = cs[1].capacity /\ d[1].size = k
  BY <1>1, <1>2 DEF ChunkType
<1>4. d \in Seq(ChunkType) /\ Len(d) = Len(cs)
  <2>1. d = [i \in 1 .. Len(cs) |-> d[i]]
    BY <1>1
  <2>2. \A i \in 1 .. Len(cs) : d[i] \in ChunkType
    BY <1>1, <1>2, <1>3
  <2> HIDE DEF d
  <2>3. d \in [1 .. Len(cs) -> ChunkType]
    BY <2>1, <2>2
  <2>4. d \in Seq(ChunkType)
    BY <1>1, <2>3, SeqDef
  <2> QED
    BY <1>1, <1>2, <2>4, LenProperties
<1> HIDE DEF d
<1>5. \A i \in 1 .. Len(cs) :
        /\ d[i].base = cs[i].base /\ d[i].capacity = cs[i].capacity
        /\ cs[i].size <= d[i].size /\ d[i].size <= d[i].capacity
        /\ d[i].size \in Nat
  <2> SUFFICES ASSUME NEW i \in 1 .. Len(cs)
               PROVE  /\ d[i].base = cs[i].base /\ d[i].capacity = cs[i].capacity
                      /\ cs[i].size <= d[i].size /\ d[i].size <= d[i].capacity
                      /\ d[i].size \in Nat
    OBVIOUS
  <2>1. CASE i = 1
    BY <1>3, <2>1
  <2>2. CASE i # 1
    <3>1. d[i] = cs[i] /\ cs[i].size \in Nat /\ cs[i].size <= cs[i].capacity
      BY <1>1, <1>2, <2>2 DEF ChunksOK
    <3> QED
      BY <3>1
  <2> QED
    BY <2>1, <2>2
<1>6. ChunksOK(d)
  BY <1>4, <1>5 DEF ChunksOK
<1>7. ASSUME NEW p \in Nat, NEW n \in Nat, InUse(cs, p, n)
      PROVE  InUse(d, p, n)
  <2>1. PICK i \in 1 .. Len(cs) :
          cs[i].base + Header <= p /\ p + n <= cs[i].base + Header + cs[i].size
    BY <1>7 DEF InUse
  <2>2. d[i].base = cs[i].base /\ cs[i].size <= d[i].size /\ cs[i].base \in Nat
        /\ cs[i].size \in Nat /\ d[i].size \in Nat
    BY <1>1, <1>5
  <2>3. d[i].base + Header <= p /\ p + n <= d[i].base + Header + d[i].size
    <3> DEFINE b == cs[i].base
               z == cs[i].size
               y == d[i].size
    <3>1. /\ b \in Nat /\ z \in Nat /\ y \in Nat /\ z <= y
          /\ b + Header <= p /\ p + n <= b + Header + z
          /\ d[i].base = b
      BY <2>1, <2>2
    <3> HIDE DEF b, z, y
    <3>2. b + Header <= p /\ p + n <= b + Header + y
      BY <3>1
    <3> QED
      BY <3>1, <3>2 DEF y
  <2> QED
    BY <1>4, <2>3 DEF InUse
<1> QED
  BY <1>3, <1>4, <1>6, <1>7 DEF d

\* A block at the end of the newest chunk (allocators.h:189-204).
LEMMA AllocateGives ==
  ASSUME NEW cs, ChunksOK(cs), cs # <<>>,
         NEW n \in Nat, cs[1].size + n <= cs[1].capacity
  PROVE  LET r == Allocate(cs, n) IN
         /\ ChunksOK(r.chunks) /\ r.chunks # <<>>
         /\ r.ptr \in Nat
         /\ InUse(r.chunks, r.ptr, n)
         /\ \A q \in Nat, m \in Nat :
              InUse(cs, q, m) => InUse(r.chunks, q, m) /\ q + m <= r.ptr
<1> DEFINE k == cs[1].size + n
           d == [cs EXCEPT ![1].size = k]
           r == Allocate(cs, n)
<1>1. r.chunks = d /\ r.ptr = Fill(cs)
  BY DEF Allocate, Fill
<1>2. /\ 1 \in 1 .. Len(cs) /\ Len(cs) \in Nat
      /\ cs[1].base \in Nat /\ cs[1].capacity \in Nat /\ cs[1].size \in Nat
  BY ChunkParts
<1>3. Header \in Nat
  BY PoolAssumption
<1>4. k \in Nat /\ cs[1].size <= k /\ k <= cs[1].capacity
  BY <1>2
<1> HIDE DEF k
<1>5. /\ ChunksOK(d)
      /\ Len(d) = Len(cs)
      /\ d[1].base = cs[1].base /\ d[1].size = k
      /\ \A q \in Nat, m \in Nat : InUse(cs, q, m) => InUse(d, q, m)
  BY <1>3, <1>4, FillFurther
<1> HIDE DEF d
<1>6. d # <<>>
  BY <1>2, <1>5
<1>7. InUse(d, Fill(cs), n)
  <2>1. d[1].base + Header <= Fill(cs) /\ Fill(cs) + n <= d[1].base + Header + d[1].size
    BY <1>2, <1>3, <1>5 DEF Fill, k
  <2> QED
    BY <1>2, <1>5, <2>1 DEF InUse
<1>8. Fill(cs) \in Nat
  BY <1>2, <1>3 DEF Fill
<1> HIDE DEF r
<1>9. \A q \in Nat, m \in Nat : InUse(cs, q, m) => q + m <= Fill(cs)
  BY UsedIsBelowFill
<1> QED
  BY <1>1, <1>5, <1>6, <1>7, <1>8, <1>9 DEF r

\* A new chunk is behind the others (allocators.h:263-276).
LEMMA AddChunkGives ==
  ASSUME NEW cs, ChunksOK(cs), NEW capacity \in Nat, ~Exhausted(cs, capacity)
  PROVE  LET d == AddChunk(cs, capacity) IN
         /\ ChunksOK(d) /\ d # <<>>
         /\ d[1].size = 0 /\ d[1].capacity = capacity
         /\ \A p \in Nat, n \in Nat : InUse(cs, p, n) => InUse(d, p, n)
<1> DEFINE new == [base |-> Break(cs), capacity |-> capacity, size |-> 0]
           d == AddChunk(cs, capacity)
<1>1. /\ Len(cs) \in Nat
      /\ \A i \in 1 .. Len(cs) :
           cs[i].base \in Nat /\ cs[i].capacity \in Nat /\ cs[i].size \in Nat
      /\ cs \in Seq(ChunkType)
  BY ChunkParts DEF ChunksOK
<1>2. Header \in Nat /\ MemorySize \in Nat
  BY PoolAssumption
<1>3. Break(cs) \in Nat /\ Break(cs) + Header + capacity <= MemorySize
  <2>1. cs # <<>> => cs[1].base \in Nat /\ cs[1].capacity \in Nat
    BY <1>1, ChunkParts
  <2>2. Break(cs) \in Nat
    BY <1>2, <2>1 DEF Break
  <2> QED
    BY <1>2, <2>2 DEF Exhausted
<1>4. new \in ChunkType /\ new.base = Break(cs) /\ new.capacity = capacity /\ new.size = 0
  BY <1>3 DEF ChunkType
<1>5. /\ <<new>> \in Seq(ChunkType) /\ Len(<<new>>) = 1 /\ <<new>>[1] = new
  BY <1>4
<1>6. d = <<new>> \o cs
  BY DEF AddChunk
<1> HIDE DEF new, d
<1>7. /\ d \in Seq(ChunkType)
      /\ Len(d) = Len(cs) + 1
      /\ d[1] = new
      /\ \A i \in 1 .. Len(cs) : d[i + 1] = cs[i]
      /\ \A i \in 1 .. Len(d) : i # 1 => i - 1 \in 1 .. Len(cs) /\ d[i] = cs[i - 1]
  <2>1. /\ <<new>> \o cs \in Seq(ChunkType)
        /\ Len(<<new>> \o cs) = Len(<<new>>) + Len(cs)
        /\ \A i \in 1 .. Len(<<new>>) + Len(cs) :
             (<<new>> \o cs)[i] = IF i <= Len(<<new>>) THEN <<new>>[i] ELSE cs[i - Len(<<new>>)]
    BY <1>1, <1>5, ConcatProperties
  <2>2. /\ Len(d) = Len(cs) + 1
        /\ \A i \in 1 .. Len(cs) + 1 : d[i] = IF i <= 1 THEN <<new>>[i] ELSE cs[i - 1]
    BY <1>1, <1>5, <1>6, <2>1
  <2>3. \A i \in 1 .. Len(cs) :
          i + 1 \in 1 .. Len(cs) + 1 /\ ~(i + 1 <= 1) /\ i + 1 - 1 = i
    BY <1>1
  <2>4. \A i \in 1 .. Len(d) : i # 1 => i - 1 \in 1 .. Len(cs) /\ ~(i <= 1)
    BY <1>1, <2>2
  <2>5. 1 \in 1 .. Len(cs) + 1
    BY <1>1
  <2> QED
    BY <1>5, <1>6, <2>1, <2>2, <2>3, <2>4, <2>5
<1>8. \A i \in 1 .. Len(d) :
        /\ d[i].size <= d[i].capacity
        /\ d[i].base + Header + d[i].capacity <= MemorySize
  <2> SUFFICES ASSUME NEW i \in 1 .. Len(d)
               PROVE  /\ d[i].size <= d[i].capacity
                      /\ d[i].base + Header + d[i].capacity <= MemorySize
    OBVIOUS
  <2>1. CASE i = 1
    BY <1>2, <1>3, <1>4, <1>7, <2>1
  <2>2. CASE i # 1
    BY <1>7, <2>2 DEF ChunksOK
  <2> QED
    BY <2>1, <2>2
<1>9. ASSUME NEW i \in 1 .. Len(d), NEW j \in 1 .. Len(d), i < j
      PROVE  d[j].base + Header + d[j].capacity <= d[i].base
  <2>1. j # 1 /\ j - 1 \in 1 .. Len(cs) /\ d[j] = cs[j - 1]
    BY <1>1, <1>7, <1>9
  <2>2. CASE i = 1
    <3>1. cs # <<>> /\ 1 \in 1 .. Len(cs)
      BY <1>1, <2>1
    <3>2. d[1].base = cs[1].base + Header + cs[1].capacity
      BY <1>4, <1>7, <3>1 DEF Break
    <3>3. CASE j = 2
      BY <2>1, <2>2, <3>2, <3>3, <1>1, <1>2
    <3>4. CASE j # 2
      <4>1. 1 < j - 1
        BY <1>1, <1>7, <2>1, <3>4
      <4>2. cs[j - 1].base + Header + cs[j - 1].capacity <= cs[1].base
        BY <2>1, <3>1, <4>1 DEF ChunksOK
      <4>3. /\ cs[1].base \in Nat /\ cs[1].capacity \in Nat
            /\ cs[j - 1].base \in Nat /\ cs[j - 1].capacity \in Nat
        BY <1>1, <2>1, <3>1
      <4> DEFINE b == cs[1].base
                 c == cs[1].capacity
                 x == cs[j - 1].base
                 y == cs[j - 1].capacity
      <4>4. /\ b \in Nat /\ c \in Nat /\ x \in Nat /\ y \in Nat
            /\ x + Header + y <= b
            /\ d[i].base = b + Header + c
            /\ d[j].base = x /\ d[j].capacity = y
        BY <2>1, <2>2, <3>2, <4>2, <4>3
      <4> HIDE DEF b, c, x, y
      <4>5. x + Header + y <= b + Header + c
        BY <1>2, <4>4
      <4> QED
        BY <4>4, <4>5
    <3> QED
      BY <3>3, <3>4
  <2>3. CASE i # 1
    <3>1. i - 1 \in 1 .. Len(cs) /\ d[i] = cs[i - 1] /\ i - 1 < j - 1
      BY <1>1, <1>7, <1>9, <2>3
    <3> QED
      BY <2>1, <3>1 DEF ChunksOK
  <2> QED
    BY <2>2, <2>3
<1>10. ChunksOK(d)
  BY <1>7, <1>8, <1>9 DEF ChunksOK
<1>11. ASSUME NEW p \in Nat, NEW n \in Nat, InUse(cs, p, n)
       PROVE  InUse(d, p, n)
  <2>1. PICK i \in 1 .. Len(cs) :
          cs[i].base + Header <= p /\ p + n <= cs[i].base + Header + cs[i].size
    BY <1>11 DEF InUse
  <2>2. i + 1 \in 1 .. Len(d) /\ d[i + 1] = cs[i]
    BY <1>1, <1>7
  <2> QED
    BY <2>1, <2>2 DEF InUse
<1>12. d # <<>>
  BY <1>1, <1>7
<1> QED
  BY <1>4, <1>7, <1>10, <1>11, <1>12 DEF d

\* Malloc gives cells nobody uses (allocators.h:189-204).
LEMMA MallocGives ==
  ASSUME ChunksOK(chunks), NEW n \in Nat, n # 0, Malloc(n).ptr # NULL
  PROVE  LET r == Malloc(n) IN
         /\ ChunksOK(r.chunks) /\ r.chunks # <<>>
         /\ r.ptr \in Nat
         /\ InUse(r.chunks, r.ptr, Aligned(n))
         /\ \A q \in Nat, m \in Nat :
              InUse(chunks, q, m) => InUse(r.chunks, q, m) /\ q + m <= r.ptr
<1> DEFINE size == Aligned(n)
           capacity == IF chunk_capacity_ > size THEN chunk_capacity_ ELSE size
           new == AddChunk(chunks, capacity)
<1>1. size \in Nat
  BY AlignedRoom
<1> HIDE DEF size
<1>2. capacity \in Nat /\ size <= capacity
  BY <1>1, PoolAssumption
<1> HIDE DEF capacity
<1>3. CASE chunks # <<>> /\ chunks[1].size + size <= chunks[1].capacity
  <2>1. Malloc(n) = Allocate(chunks, size)
    BY <1>3 DEF Malloc, size
  <2> QED
    BY <1>1, <1>3, <2>1, AllocateGives DEF size
<1>4. CASE ~(chunks # <<>> /\ chunks[1].size + size <= chunks[1].capacity)
  <2>1. Malloc(n) = IF Exhausted(chunks, capacity)
                    THEN [chunks |-> chunks, ptr |-> NULL]
                    ELSE Allocate(new, size)
    BY <1>4 DEF Malloc, size, capacity
  <2>2. ~Exhausted(chunks, capacity)
    BY <2>1
  <2>3. /\ ChunksOK(new) /\ new # <<>>
        /\ new[1].size = 0 /\ new[1].capacity = capacity
        /\ \A q \in Nat, m \in Nat : InUse(chunks, q, m) => InUse(new, q, m)
    BY <1>2, <2>2, AddChunkGives
  <2> HIDE DEF new
  <2>4. new[1].size + size <= new[1].capacity
    BY <1>1, <1>2, <2>3
  <2>5. LET r == Allocate(new, size) IN
        /\ ChunksOK(r.chunks) /\ r.chunks # <<>>
        /\ r.ptr \in Nat
        /\ InUse(r.chunks, r.ptr, size)
        /\ \A q \in Nat, m \in Nat :
             InUse(new, q, m) => InUse(r.chunks, q, m) /\ q + m <= r.ptr
    BY <1>1, <2>3, <2>4, AllocateGives
  <2>6. Malloc(n) = Allocate(new, size)
    BY <2>1, <2>2
  <2> DEFINE r == Malloc(n)
  <2>7. /\ ChunksOK(r.chunks) /\ r.chunks # <<>>
        /\ r.ptr \in Nat
        /\ InUse(r.chunks, r.ptr, size)
        /\ \A q \in Nat, m \in Nat :
             InUse(new, q, m) => InUse(r.chunks, q, m) /\ q + m <= r.ptr
    BY <2>5, <2>6
  <2> HIDE DEF r
  <2>8. \A q \in Nat, m \in Nat :
          InUse(chunks, q, m) => InUse(r.chunks, q, m) /\ q + m <= r.ptr
    BY <2>3, <2>7
  <2> QED
    BY <2>7, <2>8 DEF r, size
<1> QED
  BY <1>3, <1>4

\* Cells from q on that the block at ptr, if there is one, has none of.
Free(ptr, n, q, m) == ptr = NULL \/ Apart(ptr, n, q, m)

\* Realloc gives a block that is large enough, keeps what is in use in use, and
\* takes no cell of another block, whether it stays, grows in place or moves; if it
\* moves, what it held fits in (allocators.h:206-262).
LEMMA ReallocGives ==
  ASSUME ChunksOK(chunks), NEW ptr \in Nat \cup {NULL},
         NEW old \in Nat, NEW new \in Nat, new # 0,
         ptr # NULL => InUse(chunks, ptr, Aligned(old)) /\ old # 0,
         Realloc(ptr, old, new).ptr # NULL
  PROVE  LET r == Realloc(ptr, old, new) IN
         /\ ChunksOK(r.chunks) /\ r.chunks # <<>>
         /\ r.ptr \in Nat
         /\ InUse(r.chunks, r.ptr, Aligned(new))
         /\ \A q \in Nat, m \in Nat \ {0} :
              InUse(chunks, q, m) /\ Free(ptr, Aligned(old), q, m) =>
                InUse(r.chunks, q, m) /\ Apart(r.ptr, Aligned(new), q, m)
         /\ ptr # NULL /\ r.ptr # ptr => Aligned(old) <= Aligned(new)
<1> DEFINE a == Aligned(old)
           b == Aligned(new)
           r == Realloc(ptr, old, new)
<1>1. /\ a \in Nat /\ old <= a
      /\ b \in Nat /\ new <= b /\ b # 0
      /\ Aligned(b) \in Nat /\ b <= Aligned(b)
  BY AlignedRoom
<1>2. Header \in Nat /\ Header # 0 /\ NULL \notin Nat
  BY PoolAssumption DEF NULL
<1>3. CASE ptr = NULL
  <2>1. r = Malloc(new)
    BY <1>3 DEF Realloc
  <2> HIDE DEF r
  <2>2. /\ ChunksOK(r.chunks) /\ r.chunks # <<>>
        /\ r.ptr \in Nat
        /\ InUse(r.chunks, r.ptr, b)
        /\ \A q \in Nat, m \in Nat :
             InUse(chunks, q, m) => InUse(r.chunks, q, m) /\ q + m <= r.ptr
    BY <2>1, MallocGives DEF r
  <2> QED
    BY <1>3, <2>2 DEF Apart, r
<1>4. CASE ptr # NULL /\ a >= b
  <2>1. r = [chunks |-> chunks, ptr |-> ptr]
    BY <1>4 DEF Realloc
  <2>2. r.chunks = chunks /\ r.ptr = ptr /\ ptr \in Nat
    BY <1>4, <2>1
  <2>3. chunks # <<>>
    <3>1. PICK i \in 1 .. Len(chunks) : TRUE
      BY <1>4 DEF InUse
    <3> QED
      BY <3>1
  <2>4. PICK i \in 1 .. Len(chunks) :
          /\ chunks[i].base + Header <= ptr
          /\ ptr + a <= chunks[i].base + Header + chunks[i].size
    BY <1>4 DEF InUse
  <2>5. ptr + b <= chunks[i].base + Header + chunks[i].size
    <3>1. chunks[i].base \in Nat /\ chunks[i].size \in Nat
      BY ChunkParts
    <3> HIDE DEF a, b
    <3> QED
      BY <1>1, <1>2, <1>4, <2>2, <2>4, <3>1
  <2>6. InUse(chunks, ptr, b)
    BY <2>4, <2>5 DEF InUse
  <2>7. ASSUME NEW q \in Nat, NEW m \in Nat \ {0}, Apart(ptr, a, q, m)
        PROVE  Apart(ptr, b, q, m)
    <3> HIDE DEF a, b
    <3> QED
      BY <1>1, <1>4, <2>2, <2>7 DEF Apart
  <2> HIDE DEF r
  <2> QED
    BY <1>4, <2>2, <2>3, <2>6, <2>7 DEF r, Free
<1>5. CASE ptr # NULL /\ ~(a >= b) /\ GrowsInPlace(ptr, a, b)
  <2> DEFINE k == chunks[1].size + b - a
             d == [chunks EXCEPT ![1].size = k]
  <2>1. r = [chunks |-> d, ptr |-> ptr]
    BY <1>5 DEF Realloc
  <2>2. r.chunks = d /\ r.ptr = ptr /\ ptr \in Nat
    BY <1>5, <2>1
  <2>3. /\ chunks # <<>> /\ ptr = chunks[1].base + Header + chunks[1].size - a
        /\ chunks[1].size + b - a <= chunks[1].capacity
    BY <1>5 DEF GrowsInPlace, IsLast
  <2>4. /\ Len(chunks) \in Nat /\ 1 \in 1 .. Len(chunks)
        /\ chunks[1].base \in Nat /\ chunks[1].size \in Nat /\ chunks[1].capacity \in Nat
    BY <2>3, ChunkParts
  <2> HIDE DEF a, b
  <2>5. k \in Nat /\ chunks[1].size <= k /\ k <= chunks[1].capacity
    BY <1>1, <1>5, <2>3, <2>4
  <2>6. /\ ChunksOK(d)
        /\ Len(d) = Len(chunks)
        /\ d[1].base = chunks[1].base /\ d[1].size = k
        /\ \A q \in Nat, m \in Nat : InUse(chunks, q, m) => InUse(d, q, m)
    <3> HIDE DEF k
    <3> QED
      BY <1>2, <2>3, <2>5, FillFurther
  <2> HIDE DEF d
  <2>7. chunks[1].base + Header <= ptr
    <3>1. InUse(chunks, ptr, a)
      BY <1>5 DEF a
    <3>2. chunks[1].base < ptr + a
      BY SMTT(60), <1>1, <1>2, <2>3, <2>4
    <3> QED
      BY <1>1, <2>2, <3>1, <3>2, UsedIsBelowFill
  <2>8. InUse(d, ptr, b)
    <3>1. d[1].base + Header <= ptr /\ ptr + b <= d[1].base + Header + d[1].size
      BY <1>1, <1>2, <2>3, <2>4, <2>6, <2>7
    <3> QED
      BY <2>4, <2>6, <3>1 DEF InUse
  <2>9. ASSUME NEW q \in Nat, NEW m \in Nat \ {0}, InUse(chunks, q, m), Apart(ptr, a, q, m)
        PROVE  InUse(d, q, m) /\ Apart(ptr, b, q, m)
    <3>1. q + m <= Fill(chunks)
      BY <2>9, UsedIsBelowFill
    <3>2. Fill(chunks) = ptr + a
      BY SMTT(60), <1>1, <1>2, <2>3, <2>4 DEF Fill
    <3>3. q + m <= ptr
      BY <1>1, <2>2, <2>9, <3>1, <3>2 DEF Apart
    <3> QED
      BY <2>6, <2>9, <3>3 DEF Apart
  <2>10. d # <<>>
    BY <2>4, <2>6
  <2> HIDE DEF r
  <2> QED
    BY <1>1, <1>5, <2>2, <2>6, <2>8, <2>9, <2>10 DEF r, a, b, Free
<1>6. CASE ptr # NULL /\ ~(a >= b) /\ ~GrowsInPlace(ptr, a, b)
  <2>1. r = Malloc(b)
    BY <1>6 DEF Realloc
  <2> HIDE DEF r
  <2> HIDE DEF a, b
  <2>2. /\ ChunksOK(r.chunks) /\ r.chunks # <<>>
        /\ r.ptr \in Nat
        /\ InUse(r.chunks, r.ptr, Aligned(b))
        /\ \A q \in Nat, m \in Nat :
             InUse(chunks, q, m) => InUse(r.chunks, q, m) /\ q + m <= r.ptr
    BY <1>1, <2>1, MallocGives DEF r
  <2>3. InUse(r.chunks, r.ptr, b)
    <3>1. PICK i \in 1 .. Len(r.chunks) :
            /\ r.chunks[i].base + Header <= r.ptr
            /\ r.ptr + Aligned(b) <= r.chunks[i].base + Header + r.chunks[i].size
      BY <2>2 DEF InUse
    <3>2. r.chunks[i].base \in Nat /\ r.chunks[i].size \in Nat
      BY <2>2, ChunkParts
    <3>3. r.ptr + b <= r.chunks[i].base + Header + r.chunks[i].size
      BY SMTT(60), <1>1, <1>2, <2>2, <3>1, <3>2
    <3> QED
      BY <3>1, <3>3 DEF InUse
  <2>4. a <= b
    BY <1>1, <1>6
  <2> QED
    BY <2>2, <2>3, <2>4 DEF r, a, b, Apart
<1> QED
  BY <1>1, <1>3, <1>4, <1>5, <1>6

-----------------------------------------------------------------------------
(* The blocks of the stacks.                                               *)

StackType == [stack_: Nat \cup {NULL}, size: Nat, capacity: Nat]
Element == Stacks \X Nat

\* The cells the pool keeps for stack s.
Room(s) == Aligned(stacks[s].capacity)

\* Each block has its own cells of the used part of a chunk.
BlockInv ==
  /\ ChunksOK(chunks)
  /\ UserBuffer > 0 => chunks # <<>>
  /\ stacks \in [Stacks -> StackType]
  /\ \A s \in Stacks :
       /\ stacks[s].size <= stacks[s].capacity
       /\ stacks[s].stack_ = NULL => stacks[s].size = 0
       /\ stacks[s].stack_ # NULL =>
            stacks[s].capacity # 0 /\ InUse(chunks, stacks[s].stack_, Room(s))
  /\ \A s, t \in Stacks :
       s # t /\ stacks[s].stack_ # NULL /\ stacks[t].stack_ # NULL =>
         Apart(stacks[s].stack_, Room(s), stacks[t].stack_, Room(t))

MemoryInv == DOMAIN memory = 0 .. MemorySize - 1 /\ crashed \in BOOLEAN

\* The cells of a stack hold what was pushed.
HoldInv ==
  /\ pushed \in [Stacks -> Seq(Element)]
  /\ \A s \in Stacks :
       /\ Len(pushed[s]) = stacks[s].size
       /\ \A i \in 1 .. stacks[s].size : pushed[s][i] = memory[stacks[s].stack_ + i - 1]

PoolInv == BlockInv /\ MemoryInv /\ (~crashed => HoldInv)

\* The parts of a stack are numbers, and its room is not less than its capacity.
LEMMA StackParts ==
  ASSUME BlockInv, NEW s \in Stacks
  PROVE  /\ stacks[s].stack_ \in Nat \cup {NULL}
         /\ stacks[s].size \in Nat /\ stacks[s].capacity \in Nat
         /\ stacks[s].size <= stacks[s].capacity
         /\ Room(s) \in Nat /\ stacks[s].capacity <= Room(s)
         /\ stacks[s].stack_ # NULL => stacks[s].stack_ \in Nat /\ Room(s) # 0
         /\ stacks[s].stack_ = NULL => stacks[s].size = 0
<1>1. /\ stacks[s] \in StackType
      /\ stacks[s].size <= stacks[s].capacity
      /\ stacks[s].stack_ # NULL => stacks[s].capacity # 0
      /\ stacks[s].stack_ = NULL => stacks[s].size = 0
  BY DEF BlockInv
<1>2. stacks[s].stack_ \in Nat \cup {NULL} /\ stacks[s].size \in Nat /\ stacks[s].capacity \in Nat
  BY <1>1 DEF StackType
<1>3. Room(s) \in Nat /\ stacks[s].capacity <= Room(s)
  BY <1>2, AlignedRoom DEF Room
<1> QED
  BY <1>1, <1>2, <1>3

\* The cells a stack has filled are cells of memory, in its own room.
LEMMA FilledCells ==
  ASSUME BlockInv, NEW s \in Stacks, NEW i \in 1 .. stacks[s].size
  PROVE  /\ stacks[s].stack_ # NULL /\ stacks[s].stack_ \in Nat
         /\ stacks[s].stack_ + i - 1 \in 0 .. MemorySize - 1
         /\ stacks[s].stack_ + i - 1 \in stacks[s].stack_ .. stacks[s].stack_ + stacks[s].size - 1
         /\ stacks[s].stack_ + i - 1 \in stacks[s].stack_ .. stacks[s].stack_ + Room(s) - 1
<1>1. /\ stacks[s].size \in Nat /\ stacks[s].capacity \in Nat /\ Room(s) \in Nat
      /\ stacks[s].size <= stacks[s].capacity /\ stacks[s].capacity <= Room(s)
      /\ stacks[s].stack_ = NULL => stacks[s].size = 0
      /\ stacks[s].stack_ # NULL => stacks[s].stack_ \in Nat
  BY StackParts
<1>2. stacks[s].stack_ # NULL /\ stacks[s].stack_ \in Nat
  BY <1>1
<1>3. stacks[s].stack_ + Room(s) <= MemorySize
  BY <1>1, <1>2, UsedIsBelowFill DEF BlockInv
<1> QED
  BY <1>1, <1>2, <1>3, PoolAssumption

\* Resize moves the block of one stack and leaves the others where they are
\* (stack.h:200-206).
LEMMA ResizeBlocks ==
  ASSUME BlockInv, NEW s \in Stacks, NEW capacity \in Nat, capacity # 0,
         NEW elements \in Seq(Element), stacks[s].size + Len(elements) <= capacity,
         Resize(s, capacity, elements)
  PROVE  BlockInv'
<1> DEFINE r == Realloc(stacks[s].stack_, stacks[s].capacity, capacity)
           b == [stack_ |-> r.ptr, size |-> stacks[s].size + Len(elements), capacity |-> capacity]
<1>1. CASE r.ptr = NULL
  BY <1>1 DEF Resize, BlockInv, Room
<1>2. CASE r.ptr # NULL
  <2>1. chunks' = r.chunks /\ stacks' = [stacks EXCEPT ![s] = b]
    BY <1>2 DEF Resize
  <2>2. /\ stacks[s].stack_ \in Nat \cup {NULL} /\ stacks[s].capacity \in Nat
        /\ stacks[s].size \in Nat /\ Len(elements) \in Nat
    BY StackParts, LenProperties
  <2>3. stacks[s].stack_ # NULL =>
          InUse(chunks, stacks[s].stack_, Aligned(stacks[s].capacity)) /\ stacks[s].capacity # 0
    BY DEF BlockInv, Room
  <2>4. ChunksOK(chunks)
    BY DEF BlockInv
  <2>5. /\ ChunksOK(r.chunks) /\ r.chunks # <<>>
        /\ r.ptr \in Nat
        /\ InUse(r.chunks, r.ptr, Aligned(capacity))
        /\ \A q \in Nat, m \in Nat \ {0} :
             InUse(chunks, q, m) /\ Free(stacks[s].stack_, Room(s), q, m) =>
               InUse(r.chunks, q, m) /\ Apart(r.ptr, Aligned(capacity), q, m)
    BY <1>2, <2>2, <2>3, <2>4, ReallocGives DEF Room
  <2> HIDE DEF r
  <2>6. /\ b \in StackType
        /\ b.stack_ = r.ptr /\ b.capacity = capacity /\ b.size = stacks[s].size + Len(elements)
    BY <2>2, <2>5 DEF StackType
  <2> HIDE DEF b
  <2>7. stacks' \in [Stacks -> StackType] /\ stacks'[s] = b
        /\ \A t \in Stacks : t # s => stacks'[t] = stacks[t]
    BY <2>1, <2>6 DEF BlockInv
  <2>8. Room(s)' = Aligned(capacity) /\ \A t \in Stacks : t # s => Room(t)' = Room(t)
    BY <2>6, <2>7 DEF Room
  <2>9. ASSUME NEW t \in Stacks, t # s, stacks[t].stack_ # NULL
        PROVE  /\ InUse(chunks', stacks[t].stack_, Room(t))
               /\ Apart(r.ptr, Aligned(capacity), stacks[t].stack_, Room(t))
               /\ Apart(stacks[t].stack_, Room(t), r.ptr, Aligned(capacity))
    <3>1. stacks[t].stack_ \in Nat /\ Room(t) \in Nat \ {0}
      BY <2>9, StackParts
    <3>2. InUse(chunks, stacks[t].stack_, Room(t))
      BY <2>9 DEF BlockInv
    <3>3. Free(stacks[s].stack_, Room(s), stacks[t].stack_, Room(t))
      BY <2>9 DEF BlockInv, Free
    <3>4. /\ InUse(r.chunks, stacks[t].stack_, Room(t))
          /\ Apart(r.ptr, Aligned(capacity), stacks[t].stack_, Room(t))
      BY <2>5, <3>1, <3>2, <3>3
    <3> QED
      BY <2>1, <3>4 DEF Apart
  <2>10. ASSUME NEW t \in Stacks
         PROVE  /\ stacks'[t].size <= stacks'[t].capacity
                /\ stacks'[t].stack_ = NULL => stacks'[t].size = 0
                /\ stacks'[t].stack_ # NULL =>
                     stacks'[t].capacity # 0 /\ InUse(chunks', stacks'[t].stack_, Room(t)')
    <3>1. CASE t = s
      BY <1>2, <2>1, <2>5, <2>6, <2>7, <2>8, <3>1
    <3>2. CASE t # s
      BY <2>7, <2>8, <2>9, <3>2 DEF BlockInv
    <3> QED
      BY <3>1, <3>2
  <2>11. ASSUME NEW t \in Stacks, NEW u \in Stacks, t # u,
                stacks'[t].stack_ # NULL, stacks'[u].stack_ # NULL
         PROVE  Apart(stacks'[t].stack_, Room(t)', stacks'[u].stack_, Room(u)')
    <3>1. CASE t = s
      BY <2>6, <2>7, <2>8, <2>9, <2>11, <3>1
    <3>2. CASE u = s
      BY <2>6, <2>7, <2>8, <2>9, <2>11, <3>2
    <3>3. CASE t # s /\ u # s
      BY <2>7, <2>8, <2>11, <3>3 DEF BlockInv
    <3> QED
      BY <3>1, <3>2, <3>3
  <2> QED
    BY <2>1, <2>5, <2>7, <2>10, <2>11 DEF BlockInv
<1> QED
  BY <1>1, <1>2

\* The cells that stacks read are not blanked.
LEMMA BlankedKeeps ==
  ASSUME NEW cells, NEW all, NEW s \in Stacks, NEW q, NEW n,
         all[s].stack_ = q, all[s].size = n, q # NULL,
         NEW a \in DOMAIN cells, a \in q .. q + n - 1
  PROVE  Blanked(cells, all)[a] = cells[a]
BY DEF Blanked

\* Blanking keeps the cells there are.
LEMMA BlankedDomain ==
  ASSUME NEW cells, NEW all
  PROVE  DOMAIN Blanked(cells, all) = DOMAIN cells
BY DEF Blanked

\* What a stack holds goes with it, what is pushed comes behind it, and what the
\* others hold is not touched (stack.h:113-135, 200-206; allocators.h:254-258).
LEMMA ResizeHolds ==
  ASSUME BlockInv, MemoryInv, HoldInv,
         NEW s \in Stacks, NEW capacity \in Nat, capacity # 0,
         NEW elements \in Seq(Element), stacks[s].size + Len(elements) <= capacity,
         Resize(s, capacity, elements), ~crashed',
         pushed' \in [Stacks -> Seq(Element)],
         pushed'[s] = pushed[s] \o elements,
         \A t \in Stacks : t # s => pushed'[t] = pushed[t]
  PROVE  HoldInv'
<1> DEFINE r == Realloc(stacks[s].stack_, stacks[s].capacity, capacity)
           from == stacks[s].stack_
           n == stacks[s].size
           len == Len(elements)
           top == r.ptr + n
           cells == Copied(from, r.ptr, Room(s))
           written == [a \in DOMAIN memory |->
                         IF a \in top .. top + len - 1 THEN elements[a - top + 1] ELSE cells[a]]
           b == [stack_ |-> r.ptr, size |-> n + len, capacity |-> capacity]
<1>1. /\ r.ptr # NULL
      /\ stacks' = [stacks EXCEPT ![s] = b]
      /\ memory' = Blanked(written, stacks')
  BY DEF Resize, Room
<1>2. BlockInv'
  BY ResizeBlocks
<1>3. /\ from \in Nat \cup {NULL} /\ stacks[s].capacity \in Nat
      /\ n \in Nat /\ len \in Nat /\ Room(s) \in Nat
      /\ n <= stacks[s].capacity /\ stacks[s].capacity <= Room(s)
      /\ from # NULL => from \in Nat
      /\ from = NULL => n = 0
  BY StackParts, LenProperties
<1>4. /\ r.ptr \in Nat
      /\ from # NULL /\ r.ptr # from => Room(s) <= Aligned(capacity)
      /\ \A q \in Nat, m \in Nat \ {0} :
           InUse(chunks, q, m) /\ Free(from, Room(s), q, m) =>
             Apart(r.ptr, Aligned(capacity), q, m)
  <2>1. from # NULL => InUse(chunks, from, Aligned(stacks[s].capacity)) /\ stacks[s].capacity # 0
    BY DEF BlockInv, Room
  <2>2. ChunksOK(chunks)
    BY DEF BlockInv
  <2> QED
    BY <1>1, <1>3, <2>1, <2>2, ReallocGives DEF Room
<1> HIDE DEF r
<1>5. b.stack_ = r.ptr /\ b.size = n + len
  OBVIOUS
<1>6. /\ stacks'[s] = b
      /\ \A t \in Stacks : t # s => stacks'[t] = stacks[t]
  BY <1>1 DEF BlockInv
<1> HIDE DEF b, written
<1>7. Aligned(capacity) \in Nat /\ capacity <= Aligned(capacity)
  BY AlignedRoom
<1>8. /\ DOMAIN memory = 0 .. MemorySize - 1
      /\ DOMAIN written = DOMAIN memory
  BY DEF MemoryInv, written
<1>9. ASSUME NEW t \in Stacks, t # s, NEW i \in 1 .. stacks[t].size
      PROVE  memory'[stacks[t].stack_ + i - 1] = memory[stacks[t].stack_ + i - 1]
  <2> DEFINE q == stacks[t].stack_
             a == q + i - 1
  <2>1. /\ q # NULL /\ q \in Nat
        /\ a \in DOMAIN memory
        /\ a \in q .. q + stacks[t].size - 1
        /\ a \in q .. q + Room(t) - 1
    BY <1>8, FilledCells
  <2>2. Room(t) \in Nat \ {0} /\ InUse(chunks, q, Room(t)) /\ Free(from, Room(s), q, Room(t))
    BY <1>9, <2>1, StackParts DEF BlockInv, Free
  <2>3. Apart(r.ptr, Aligned(capacity), q, Room(t))
    BY <1>4, <2>1, <2>2
  <2> HIDE DEF q, a
  <2>4. ~(a \in top .. top + len - 1)
    BY SMTT(60), <1>3, <1>4, <1>7, <2>1, <2>2, <2>3 DEF Apart
  <2>5. ~(from # NULL /\ from # r.ptr /\ a \in r.ptr .. r.ptr + Room(s) - 1)
    BY <1>3, <1>4, <1>7, <2>1, <2>2, <2>3 DEF Apart
  <2>6. written[a] = memory[a]
    BY <2>1, <2>4, <2>5 DEF written, Copied
  <2>7. memory'[a] = written[a]
    <3>1. stacks'[t].stack_ = q /\ stacks'[t].size = stacks[t].size
      BY <1>6, <1>9 DEF q
    <3> QED
      <4> DEFINE filled == stacks[t].size
      <4>1. a \in q .. q + filled - 1 /\ a \in DOMAIN written /\ q # NULL
        BY <1>8, <2>1
      <4> HIDE DEF filled
      <4>2. stacks'[t].size = filled
        BY <3>1 DEF filled
      <4> DEFINE all == stacks'
      <4>3. memory' = Blanked(written, all)
        BY <1>1
      <4>4. all[t].stack_ = q /\ all[t].size = filled
        BY <3>1, <4>2
      <4> HIDE DEF all
      <4>5. Blanked(written, all)[a] = written[a]
        BY <4>1, <4>4, BlankedKeeps
      <4> QED
        BY <4>3, <4>5
  <2> QED
    BY <2>6, <2>7 DEF a, q
<1>10. ASSUME NEW i \in 1 .. n + len
       PROVE  memory'[r.ptr + i - 1] = IF i <= n THEN memory[from + i - 1] ELSE elements[i - n]
  <2> DEFINE a == r.ptr + i - 1
  <2>1. /\ a \in DOMAIN memory
        /\ a \in r.ptr .. r.ptr + (n + len) - 1
    <3>1. i \in 1 .. stacks'[s].size
      BY <1>5, <1>6
    <3>2. /\ stacks'[s].stack_ + i - 1 \in 0 .. MemorySize - 1
          /\ stacks'[s].stack_ + i - 1 \in
               stacks'[s].stack_ .. stacks'[s].stack_ + stacks'[s].size - 1
      <4>1. stacks'[s].stack_ \in Nat /\ stacks'[s].size = n + len
        BY <1>4, <1>5, <1>6
      <4>2. r.ptr + Aligned(capacity) <= MemorySize
        <5>1. /\ ChunksOK(chunks')
              /\ InUse(chunks', stacks'[s].stack_, Aligned(stacks'[s].capacity))
          BY <1>1, <1>2, <1>5, <1>6 DEF BlockInv, Room
        <5>2. stacks'[s].capacity = capacity
          BY <1>6 DEF b
        <5> QED
          BY <1>4, <1>5, <1>6, <1>7, <5>1, <5>2, UsedIsBelowFill
      <4> QED
        BY SMTT(60), <1>3, <1>4, <1>5, <1>6, <1>7, <4>1, <4>2, PoolAssumption
    <3> QED
      BY <1>5, <1>6, <1>8, <3>2
  <2>2. memory'[a] = written[a]
    <3>1. stacks'[s].stack_ = r.ptr /\ stacks'[s].size = n + len
      BY <1>5, <1>6
    <3> QED
      <4> HIDE DEF a
      <4>1. r.ptr # NULL /\ a \in r.ptr .. r.ptr + (n + len) - 1 /\ a \in DOMAIN written
        BY <1>1, <1>8, <2>1
      <4> QED
        BY <1>1, <3>1, <4>1, BlankedKeeps
  <2>3. CASE i <= n
    <3>1. ~(a \in top .. top + len - 1) /\ a \in r.ptr .. r.ptr + Room(s) - 1
          /\ from + a - r.ptr = from + i - 1 /\ from # NULL
      <4> DEFINE ptr == r.ptr
                 room == Room(s)
      <4>1. /\ from \in Nat /\ from # NULL /\ n \in Nat /\ len \in Nat /\ room \in Nat
            /\ ptr \in Nat /\ n <= room /\ i \in 1 .. n
        <5>1. i \in Nat /\ i >= 1
          BY <1>3
        <5>2. n # 0
          BY <1>3, <2>3, <5>1
        <5>3. n <= room
          BY <1>3
        <5> QED
          BY <1>3, <1>4, <2>3, <5>1, <5>2, <5>3
      <4>2. top = ptr + n /\ a = ptr + i - 1
        OBVIOUS
      <4> HIDE DEF ptr, room, from, n, len, top, a
      <4>3. ~(a \in top .. top + len - 1) /\ a \in ptr .. ptr + room - 1
        BY <4>1, <4>2
      <4>4. from + a - ptr = from + i - 1
        BY <4>1, <4>2
      <4> QED
        BY <4>1, <4>3, <4>4 DEF ptr, room
    <3>2. written[a] = cells[a]
      <4> HIDE DEF a, cells
      <4> QED
        BY <2>1, <3>1 DEF written
    <3>3. cells[a] = IF from # r.ptr THEN memory[from + a - r.ptr] ELSE memory[a]
      <4> HIDE DEF a
      <4> QED
        BY <2>1, <3>1 DEF Copied
    <3>4. from = r.ptr => memory[a] = memory[from + i - 1]
      BY <1>4
    <3> QED
      BY <2>2, <2>3, <3>1, <3>2, <3>3, <3>4
  <2>4. CASE ~(i <= n)
    <3>1. a \in top .. top + len - 1 /\ a - top + 1 = i - n
      BY SMTT(60), <1>3, <1>4, <2>4
    <3>2. written[a] = elements[a - top + 1]
      <4> HIDE DEF a, cells
      <4> QED
        BY <2>1, <3>1 DEF written
    <3> QED
      BY <2>2, <2>4, <3>1, <3>2
  <2> QED
    BY <2>3, <2>4
<1>11. ASSUME NEW t \in Stacks
       PROVE  /\ Len(pushed'[t]) = stacks'[t].size
              /\ \A i \in 1 .. stacks'[t].size :
                   pushed'[t][i] = memory'[stacks'[t].stack_ + i - 1]
  <2>1. CASE t # s
    BY <1>6, <1>9, <2>1 DEF HoldInv
  <2>2. CASE t = s
    <3>1. /\ pushed[s] \in Seq(Element) /\ Len(pushed[s]) = n
          /\ \A i \in 1 .. n : pushed[s][i] = memory[from + i - 1]
      BY DEF HoldInv
    <3>2. /\ Len(pushed[s] \o elements) = n + len
          /\ \A i \in 1 .. n + len :
               (pushed[s] \o elements)[i] = IF i <= n THEN pushed[s][i] ELSE elements[i - n]
      BY <3>1, ConcatProperties
    <3>3. ASSUME NEW i \in 1 .. n + len
          PROVE  pushed'[s][i] = memory'[r.ptr + i - 1]
      <4>1. i <= n => i \in 1 .. n
        BY <1>3
      <4> QED
        BY <1>10, <3>1, <3>2, <4>1
    <3> QED
      BY <1>5, <1>6, <2>2, <3>2, <3>3
  <2> QED
    BY <2>1, <2>2
<1> QED
  BY <1>11 DEF HoldInv

-----------------------------------------------------------------------------
(* Steps.                                                                  *)

\* An empty pool, or one with the user's buffer, and empty stacks.
LEMMA InitPoolInv ==
  ASSUME PoolInit
  PROVE  PoolInv
<1> DEFINE buffer == [base |-> 0, capacity |-> UserBuffer, size |-> 0]
<1>1. /\ chunks = IF UserBuffer > 0 THEN <<buffer>> ELSE <<>>
      /\ stacks = [s \in Stacks |-> EmptyStack] /\ pushed = [s \in Stacks |-> <<>>]
      /\ DOMAIN memory = 0 .. MemorySize - 1 /\ crashed = FALSE
  BY DEF PoolInit
<1>2. ChunksOK(chunks) /\ (UserBuffer > 0 => chunks # <<>>)
  <2>1. CASE UserBuffer > 0
    <3>1. buffer \in ChunkType
      BY PoolAssumption DEF ChunkType
    <3>2. chunks \in Seq(ChunkType) /\ Len(chunks) = 1 /\ chunks[1] = buffer
      BY <1>1, <2>1, <3>1
    <3>3. buffer.size = 0 /\ buffer.base = 0 /\ buffer.capacity = UserBuffer
      OBVIOUS
    <3> HIDE DEF buffer
    <3>4. /\ Header \in Nat /\ UserBuffer \in Nat /\ MemorySize \in Nat
          /\ Header + UserBuffer <= MemorySize
      BY <2>1, PoolAssumption
    <3>5. \A i \in 1 .. Len(chunks) : i = 1
      BY <3>2
    <3>6. 0 <= UserBuffer /\ 0 + Header + UserBuffer <= MemorySize
      BY <3>4
    <3>7. ASSUME NEW i \in 1 .. Len(chunks)
          PROVE  /\ chunks[i].size <= chunks[i].capacity
                 /\ chunks[i].base + Header + chunks[i].capacity <= MemorySize
      BY <3>2, <3>3, <3>5, <3>6
    <3>8. \A i, j \in 1 .. Len(chunks) : ~(i < j)
      BY <3>5
    <3>9. chunks # <<>>
      BY <3>2
    <3> QED
      BY <3>2, <3>7, <3>8, <3>9 DEF ChunksOK
  <2>2. CASE ~(UserBuffer > 0)
    BY <1>1, <2>2 DEF ChunksOK
  <2> QED
    BY <2>1, <2>2
<1>3. /\ EmptyStack \in StackType
      /\ EmptyStack.stack_ = NULL /\ EmptyStack.size = 0 /\ EmptyStack.capacity = 0
  BY DEF EmptyStack, StackType
<1>4. \A s \in Stacks :
        /\ stacks[s].stack_ = NULL /\ stacks[s].size = 0 /\ stacks[s].capacity = 0
        /\ pushed[s] = <<>>
  BY <1>1, <1>3
<1>5. stacks \in [Stacks -> StackType] /\ pushed \in [Stacks -> Seq(Element)]
  BY <1>1, <1>3
<1>6. BlockInv
  BY <1>2, <1>4, <1>5 DEF BlockInv
<1>7. HoldInv
  BY <1>4, <1>5 DEF HoldInv
<1> QED
  BY <1>1, <1>6, <1>7 DEF PoolInv, MemoryInv

\* Memory stays where it is.
LEMMA MemoryStays ==
  ASSUME MemoryInv, [PoolNext]_poolVars
  PROVE  MemoryInv'
<1>1. ASSUME NEW s \in Stacks, NEW capacity, NEW elements, Resize(s, capacity, elements)
      PROVE  MemoryInv'
  <2> DEFINE r == Realloc(stacks[s].stack_, stacks[s].capacity, capacity)
             top == r.ptr + stacks[s].size
             cells == Copied(stacks[s].stack_, r.ptr, Aligned(stacks[s].capacity))
             written == [a \in DOMAIN memory |->
                           IF a \in top .. top + Len(elements) - 1
                           THEN elements[a - top + 1] ELSE cells[a]]
  <2>1. CASE r.ptr = NULL
    <3>1. memory' = memory /\ crashed' = TRUE
      BY <1>1, <2>1 DEF Resize
    <3> QED
      BY <3>1 DEF MemoryInv
  <2>2. CASE r.ptr # NULL
    <3>1. memory' = Blanked(written, stacks') /\ crashed' = crashed
      BY <1>1, <2>2 DEF Resize
    <3>2. DOMAIN written = DOMAIN memory
      OBVIOUS
    <3> HIDE DEF written
    <3>3. DOMAIN memory' = DOMAIN memory
      BY <3>1, <3>2, BlankedDomain
    <3> QED
      BY <3>1, <3>3 DEF MemoryInv
  <2> QED
    BY <2>1, <2>2
<1>2. ASSUME NEW s \in Stacks, NEW count, Pop(s, count)
      PROVE  MemoryInv'
  <2>1. memory' = Blanked(memory, stacks') /\ crashed' = crashed
    BY <1>2 DEF Pop
  <2> QED
    BY <2>1, BlankedDomain DEF MemoryInv
<1>3. CASE memory' = memory /\ crashed' = crashed
  BY <1>3 DEF MemoryInv
<1> QED
  BY <1>1, <1>2, <1>3 DEF PoolNext, poolVars, Push, ShrinkToFit, Swap, ClearPool

\* A stack that is full grows to a capacity that the elements fit in
\* (stack.h:113-135, 182-198).
LEMMA PushPoolInv ==
  ASSUME PoolInv, MemoryInv', NEW s \in Stacks, NEW elements \in Seq(Element),
         elements # <<>>, Push(s, elements)
  PROVE  PoolInv'
<1> DEFINE capacity == IF Len(elements) > stacks[s].capacity - stacks[s].size
                       THEN Expanded(s, Len(elements)) ELSE stacks[s].capacity
<1>1. /\ Resize(s, capacity, elements) /\ ~crashed
      /\ pushed' = [pushed EXCEPT ![s] = @ \o elements]
  BY DEF Push
<1>2. BlockInv /\ HoldInv /\ MemoryInv
  BY <1>1 DEF PoolInv
<1>3. /\ stacks[s].size \in Nat /\ stacks[s].capacity \in Nat
      /\ Len(elements) \in Nat /\ Len(elements) # 0
  BY <1>2, StackParts, LenProperties, EmptySeq
<1>4. /\ Expanded(s, Len(elements)) \in Nat
      /\ stacks[s].size + Len(elements) <= Expanded(s, Len(elements))
  BY <1>3, PoolAssumption DEF Expanded
<1>5. /\ capacity \in Nat /\ capacity # 0
      /\ stacks[s].size + Len(elements) <= capacity
  BY <1>3, <1>4
<1> HIDE DEF capacity
<1>6. BlockInv'
  BY <1>1, <1>2, <1>5, ResizeBlocks
<1>7. /\ pushed' \in [Stacks -> Seq(Element)]
      /\ pushed'[s] = pushed[s] \o elements
      /\ \A t \in Stacks : t # s => pushed'[t] = pushed[t]
  <2>1. pushed \in [Stacks -> Seq(Element)]
    BY <1>2 DEF HoldInv
  <2>2. pushed[s] \o elements \in Seq(Element)
    BY <2>1, ConcatProperties
  <2> QED
    BY <1>1, <2>1, <2>2
<1>8. ~crashed' => HoldInv'
  BY <1>1, <1>2, <1>5, <1>7, ResizeHolds
<1> QED
  BY <1>6, <1>8 DEF PoolInv

\* What is below the elements taken off stays (stack.h:153-158).
LEMMA PopPoolInv ==
  ASSUME PoolInv, MemoryInv', NEW s \in Stacks, NEW count \in Nat, Pop(s, count)
  PROVE  PoolInv'
<1> DEFINE b == [stacks[s] EXCEPT !.size = @ - count]
<1>1. /\ ~crashed /\ count <= stacks[s].size
      /\ stacks' = [stacks EXCEPT ![s] = b]
      /\ memory' = Blanked(memory, stacks')
      /\ pushed' = [pushed EXCEPT ![s] = SubSeq(@, 1, Len(@) - count)]
      /\ chunks' = chunks /\ crashed' = crashed
  BY DEF Pop
<1>2. BlockInv /\ HoldInv /\ MemoryInv
  BY <1>1 DEF PoolInv
<1>3. /\ stacks[s].size \in Nat /\ stacks[s].capacity \in Nat
      /\ stacks[s].size <= stacks[s].capacity
  BY <1>2, StackParts
<1>4. /\ b \in StackType
      /\ b.stack_ = stacks[s].stack_ /\ b.capacity = stacks[s].capacity
      /\ b.size = stacks[s].size - count
  <2>1. stacks[s] \in StackType
    BY <1>2 DEF BlockInv
  <2> QED
    BY <1>1, <1>3, <2>1 DEF StackType
<1> HIDE DEF b
<1>5. /\ stacks' \in [Stacks -> StackType]
      /\ stacks'[s] = b /\ \A t \in Stacks : t # s => stacks'[t] = stacks[t]
  BY <1>1, <1>2, <1>4 DEF BlockInv
<1>6. \A t \in Stacks :
        /\ stacks'[t].stack_ = stacks[t].stack_ /\ stacks'[t].capacity = stacks[t].capacity
        /\ stacks'[t].size \in Nat /\ stacks'[t].size <= stacks[t].size
        /\ stacks[t].size \in Nat /\ stacks[t].size <= stacks[t].capacity
        /\ stacks[t].capacity \in Nat
        /\ stacks[t].stack_ = NULL => stacks[t].size = 0
  <2> SUFFICES ASSUME NEW t \in Stacks
               PROVE  /\ stacks'[t].stack_ = stacks[t].stack_
                      /\ stacks'[t].capacity = stacks[t].capacity
                      /\ stacks'[t].size \in Nat /\ stacks'[t].size <= stacks[t].size
    BY <1>2, StackParts
  <2>1. stacks[t].size \in Nat
    BY <1>2, StackParts
  <2> QED
    BY <1>1, <1>3, <1>4, <1>5, <2>1
<1>7. BlockInv'
  <2>1. \A t \in Stacks : Room(t)' = Room(t)
    BY <1>6 DEF Room
  <2>2. \A t \in Stacks :
          /\ stacks'[t].size <= stacks'[t].capacity
          /\ stacks'[t].stack_ = NULL => stacks'[t].size = 0
    BY <1>6
  <2> QED
    BY <1>1, <1>2, <1>5, <1>6, <2>1, <2>2 DEF BlockInv
<1>8. ASSUME NEW t \in Stacks
      PROVE  /\ pushed'[t] \in Seq(Element)
             /\ Len(pushed'[t]) = stacks'[t].size
             /\ \A i \in 1 .. stacks'[t].size : pushed'[t][i] = pushed[t][i]
  <2>1. pushed[t] \in Seq(Element) /\ Len(pushed[t]) = stacks[t].size
    BY <1>2 DEF HoldInv
  <2>2. CASE t # s
    BY <1>1, <1>2, <1>5, <2>1, <2>2 DEF HoldInv
  <2>3. CASE t = s
    <3> DEFINE n == stacks[s].size - count
    <3>1. pushed'[s] = SubSeq(pushed[s], 1, n)
      BY <1>1, <1>2, <2>1, <2>3 DEF HoldInv
    <3>2. n \in 0 .. Len(pushed[s])
      BY <1>1, <1>3, <2>1, <2>3
    <3>3. /\ SubSeq(pushed[s], 1, n) \in Seq(Element)
          /\ Len(SubSeq(pushed[s], 1, n)) = n
          /\ \A i \in 1 .. n : SubSeq(pushed[s], 1, n)[i] = pushed[s][i]
      <4> HIDE DEF n
      <4>1. Len(pushed[s]) \in Nat /\ n \in Nat
        BY <2>1, <2>3, <3>2, LenProperties
      <4>2. \A i \in 1 .. n : 1 \in 1 .. Len(pushed[s]) + 1 /\ i \in 1 .. Len(pushed[s])
        BY <3>2, <4>1
      <4>3. pushed[s] \in [1 .. Len(pushed[s]) -> Element]
        BY <2>1, <2>3, LenProperties
      <4>4. SubSeq(pushed[s], 1, n) = [i \in 1 .. n |-> pushed[s][i]]
        BY <2>1, <2>3, <3>2, <4>1
      <4>5. [i \in 1 .. n |-> pushed[s][i]] \in [1 .. n -> Element]
        BY <4>2, <4>3
      <4> QED
        BY <4>1, <4>4, <4>5, SeqDef, LenProperties
    <3> QED
      BY <1>4, <1>5, <2>3, <3>1, <3>3
  <2> QED
    BY <2>2, <2>3
<1>9. ASSUME NEW t \in Stacks, NEW i \in 1 .. stacks'[t].size
      PROVE  memory'[stacks[t].stack_ + i - 1] = memory[stacks[t].stack_ + i - 1]
  <2> DEFINE a == stacks[t].stack_ + i - 1
  <2>1. i \in 1 .. stacks[t].size
    BY <1>6
  <2>2. stacks[t].stack_ # NULL /\ stacks[t].stack_ \in Nat /\ a \in DOMAIN memory
    BY <1>2, <2>1, FilledCells DEF MemoryInv
  <2> DEFINE all == stacks'
             q == stacks[t].stack_
             filled == stacks'[t].size
  <2>3. a \in q .. q + filled - 1
    BY <1>6, <2>2
  <2>4. all[t].stack_ = q /\ all[t].size = filled /\ q # NULL
    BY <2>2, <1>6
  <2>5. memory' = Blanked(memory, all)
    BY <1>1
  <2> HIDE DEF a, q, filled, all
  <2>6. Blanked(memory, all)[a] = memory[a]
    BY <2>2, <2>3, <2>4, BlankedKeeps
  <2>7. memory'[a] = memory[a]
    BY <2>5, <2>6
  <2> QED
    BY <2>7 DEF a
<1>10. HoldInv'
  <2>1. pushed' \in [Stacks -> Seq(Element)]
    <3>1. DOMAIN pushed' = Stacks /\ pushed' = [t \in Stacks |-> pushed'[t]]
      BY <1>1, <1>2 DEF HoldInv
    <3> QED
      BY <1>8, <3>1
  <2>2. ASSUME NEW t \in Stacks, NEW i \in 1 .. stacks'[t].size
        PROVE  pushed'[t][i] = memory'[stacks'[t].stack_ + i - 1]
    <3>1. i \in 1 .. stacks[t].size
      BY <1>6
    <3>2. pushed[t][i] = memory[stacks[t].stack_ + i - 1]
      BY <1>2, <3>1 DEF HoldInv
    <3> QED
      BY <1>6, <1>8, <1>9, <3>2
  <2> QED
    BY <1>8, <2>1, <2>2 DEF HoldInv
<1> QED
  BY <1>7, <1>10 DEF PoolInv

\* The block becomes smaller where it is, or is given up (stack.h:103-111).
LEMMA ShrinkPoolInv ==
  ASSUME PoolInv, MemoryInv', NEW s \in Stacks, ShrinkToFit(s)
  PROVE  PoolInv'
<1>1. BlockInv /\ HoldInv /\ MemoryInv /\ pushed' = pushed
  BY DEF PoolInv, ShrinkToFit
<1>2. /\ stacks[s].size \in Nat /\ stacks[s].capacity \in Nat
      /\ stacks[s].size <= stacks[s].capacity
  BY <1>1, StackParts
<1>3. CASE stacks[s].size = 0
  <2>1. /\ stacks' = [stacks EXCEPT ![s] = EmptyStack]
        /\ UNCHANGED <<chunks, memory, crashed>>
    BY <1>3 DEF ShrinkToFit
  <2>2. /\ EmptyStack \in StackType
        /\ EmptyStack.stack_ = NULL /\ EmptyStack.size = 0 /\ EmptyStack.capacity = 0
    BY DEF EmptyStack, StackType
  <2>3. /\ stacks' \in [Stacks -> StackType]
        /\ stacks'[s] = EmptyStack /\ \A t \in Stacks : t # s => stacks'[t] = stacks[t]
    BY <1>1, <2>1, <2>2 DEF BlockInv
  <2>4. \A t \in Stacks : t # s => Room(t)' = Room(t)
    BY <2>3 DEF Room
  <2>5. BlockInv'
    BY <1>1, <2>1, <2>2, <2>3, <2>4 DEF BlockInv
  <2>6. HoldInv'
    <3>1. \A i \in 1 .. 0 : FALSE
      OBVIOUS
    <3> QED
      BY <1>1, <1>3, <2>1, <2>2, <2>3, <3>1 DEF HoldInv
  <2> QED
    BY <2>5, <2>6 DEF PoolInv
<1>4. CASE stacks[s].size # 0
  <2>1. Resize(s, stacks[s].size, <<>>)
    BY <1>4 DEF ShrinkToFit
  <2>2. <<>> \in Seq(Element) /\ Len(<<>>) = 0 /\ stacks[s].size + Len(<<>>) <= stacks[s].size
    BY <1>2, EmptySeq
  <2>3. BlockInv'
    BY <1>1, <1>2, <1>4, <2>1, <2>2, ResizeBlocks
  <2>4. /\ pushed' \in [Stacks -> Seq(Element)]
        /\ pushed'[s] = pushed[s] \o <<>>
        /\ \A t \in Stacks : t # s => pushed'[t] = pushed[t]
    BY <1>1, ConcatEmptySeq DEF HoldInv
  <2>5. ~crashed' => HoldInv'
    BY <1>1, <1>2, <1>4, <2>1, <2>2, <2>4, ResizeHolds
  <2> QED
    BY <2>3, <2>5 DEF PoolInv
<1> QED
  BY <1>3, <1>4

\* Two stacks change their blocks (stack.h:90-97).
LEMMA SwapPoolInv ==
  ASSUME PoolInv, MemoryInv', NEW s \in Stacks, NEW t \in Stacks, Swap(s, t)
  PROVE  PoolInv'
<1>1. BlockInv /\ HoldInv /\ s # t /\ UNCHANGED <<chunks, memory, crashed>>
  BY DEF PoolInv, Swap
<1> DEFINE other(u) == IF u = s THEN t ELSE IF u = t THEN s ELSE u
<1>2. \A u \in Stacks :
        other(u) \in Stacks /\ stacks'[u] = stacks[other(u)] /\ pushed'[u] = pushed[other(u)]
  BY <1>1 DEF Swap, BlockInv, HoldInv
<1>3. stacks' \in [Stacks -> StackType] /\ pushed' \in [Stacks -> Seq(Element)]
  BY <1>1 DEF Swap, BlockInv, HoldInv
<1>4. \A u \in Stacks : Room(u)' = Room(other(u))
  BY <1>2 DEF Room
<1>5. \A u, v \in Stacks : u # v => other(u) # other(v)
  BY <1>1
<1> HIDE DEF other
<1>6. BlockInv'
  <2>1. ChunksOK(chunks)' /\ (UserBuffer > 0 => chunks # <<>>)'
    BY <1>1 DEF BlockInv, ChunksOK
  <2>2. ASSUME NEW u \in Stacks
        PROVE  /\ stacks'[u].size <= stacks'[u].capacity
               /\ stacks'[u].stack_ = NULL => stacks'[u].size = 0
               /\ stacks'[u].stack_ # NULL =>
                    stacks'[u].capacity # 0 /\ InUse(chunks, stacks'[u].stack_, Room(u)')
    <3>1. /\ other(u) \in Stacks /\ stacks'[u] = stacks[other(u)]
          /\ Room(u)' = Room(other(u))
      BY <1>2, <1>4
    <3> DEFINE w == other(u)
    <3>2. /\ stacks[w].size <= stacks[w].capacity
          /\ stacks[w].stack_ = NULL => stacks[w].size = 0
          /\ stacks[w].stack_ # NULL =>
               stacks[w].capacity # 0 /\ InUse(chunks, stacks[w].stack_, Room(w))
      BY <1>1, <3>1 DEF BlockInv
    <3> QED
      BY <3>1, <3>2
  <2>3. ASSUME NEW u \in Stacks, NEW v \in Stacks, u # v,
               stacks'[u].stack_ # NULL, stacks'[v].stack_ # NULL
        PROVE  Apart(stacks'[u].stack_, Room(u)', stacks'[v].stack_, Room(v)')
    <3>1. other(u) # other(v)
      BY <1>5, <2>3
    <3> QED
      BY <1>1, <1>2, <1>4, <2>3, <3>1 DEF BlockInv
  <2> QED
    BY <1>1, <1>3, <2>1, <2>2, <2>3 DEF BlockInv
<1>7. HoldInv'
  <2>1. ASSUME NEW u \in Stacks
        PROVE  /\ Len(pushed'[u]) = stacks'[u].size
               /\ \A i \in 1 .. stacks'[u].size :
                    pushed'[u][i] = memory'[stacks'[u].stack_ + i - 1]
    <3>1. /\ other(u) \in Stacks /\ memory' = memory
          /\ stacks'[u] = stacks[other(u)] /\ pushed'[u] = pushed[other(u)]
      BY <1>1, <1>2
    <3> QED
      BY <1>1, <3>1 DEF HoldInv
  <2> QED
    BY <1>3, <2>1 DEF HoldInv
<1> QED
  BY <1>6, <1>7 DEF PoolInv

\* A pool that nobody uses keeps the user's buffer (allocators.h:160-171).
LEMMA ClearPoolInv ==
  ASSUME PoolInv, MemoryInv', ClearPool
  PROVE  PoolInv'
<1>1. /\ BlockInv /\ HoldInv
      /\ chunks' = ClearedChunks /\ UNCHANGED <<memory, stacks, pushed, crashed>>
      /\ \A s \in Stacks : stacks[s].stack_ = NULL
  BY DEF PoolInv, ClearPool
<1>2. ChunksOK(chunks') /\ (UserBuffer > 0 => chunks' # <<>>)
  <2>1. CASE UserBuffer > 0
    <3> DEFINE last == chunks[Len(chunks)]
               d == [last EXCEPT !.size = 0]
    <3>1. chunks' = <<d>>
      BY <1>1, <2>1 DEF ClearedChunks, Last
    <3>2. Len(chunks) \in 1 .. Len(chunks) /\ last \in ChunkType
      <4>1. chunks # <<>> /\ chunks \in Seq(ChunkType)
        BY <1>1, <2>1 DEF BlockInv, ChunksOK
      <4>2. Len(chunks) \in 1 .. Len(chunks)
        BY <4>1, LenProperties, EmptySeq
      <4> QED
        BY <4>1, <4>2, ElementOfSeq
    <3>3. last.base + Header + last.capacity <= MemorySize
      BY <1>1, <3>2 DEF BlockInv, ChunksOK
    <3> HIDE DEF last
    <3>4. d \in ChunkType /\ d.size = 0 /\ d.base = last.base /\ d.capacity = last.capacity
          /\ last.capacity \in Nat
      BY <3>2 DEF ChunkType
    <3> HIDE DEF d
    <3>5. <<d>> \in Seq(ChunkType) /\ Len(<<d>>) = 1 /\ <<d>>[1] = d
      BY <3>4
    <3> QED
      BY <3>1, <3>3, <3>4, <3>5 DEF ChunksOK
  <2>2. CASE ~(UserBuffer > 0)
    BY <1>1, <2>2 DEF ClearedChunks, ChunksOK
  <2> QED
    BY <2>1, <2>2
<1>3. BlockInv'
  BY <1>1, <1>2 DEF BlockInv, Room
<1>4. HoldInv'
  BY <1>1 DEF HoldInv
<1> QED
  BY <1>3, <1>4 DEF PoolInv

\* Every step keeps the invariant.
LEMMA NextPoolInv ==
  ASSUME PoolInv, [PoolNext]_poolVars
  PROVE  PoolInv'
<1>1. MemoryInv'
  BY MemoryStays DEF PoolInv
<1>2. ASSUME NEW s \in Stacks, NEW n \in 1 .. MaxPush,
             Push(s, [i \in 1 .. n |-> <<s, stacks[s].size + i>>])
      PROVE  PoolInv'
  <2> DEFINE elements == [i \in 1 .. n |-> <<s, stacks[s].size + i>>]
  <2>1. stacks[s].size \in Nat
    BY StackParts DEF PoolInv
  <2>2. elements \in Seq(Element) /\ elements # <<>>
    <3>1. elements \in [1 .. n -> Element]
      BY <2>1 DEF Element
    <3>2. n \in Nat
      OBVIOUS
    <3>3. DOMAIN elements = 1 .. n
      OBVIOUS
    <3> HIDE DEF elements
    <3>4. elements \in Seq(Element)
      BY <3>1, <3>2, SeqDef
    <3>5. Len(elements) = n
      BY <3>2, <3>3, <3>4, LenProperties
    <3> QED
      BY <3>4, <3>5, EmptySeq
  <2>3. Push(s, elements)
    BY <1>2
  <2> HIDE DEF elements
  <2> QED
    BY <1>1, <2>2, <2>3, PushPoolInv
<1>3. ASSUME NEW s \in Stacks, NEW n \in 1 .. stacks[s].size, Pop(s, n)
      PROVE  PoolInv'
  <2>1. stacks[s].size \in Nat
    BY StackParts DEF PoolInv
  <2>2. n \in Nat
    BY <2>1
  <2> QED
    BY <1>1, <1>3, <2>2, PopPoolInv
<1>4. CASE \E s \in Stacks : ShrinkToFit(s)
  BY <1>1, <1>4, ShrinkPoolInv
<1>5. CASE \E s \in Stacks : \E t \in Stacks : Swap(s, t)
  BY <1>1, <1>5, SwapPoolInv
<1>6. CASE ClearPool
  BY <1>1, <1>6, ClearPoolInv
<1>7. CASE UNCHANGED poolVars
  BY <1>1, <1>7 DEF poolVars, PoolInv, BlockInv, HoldInv, Room
<1> QED
  BY <1>2, <1>3, <1>4, <1>5, <1>6, <1>7 DEF PoolNext

\* What the invariant says of the blocks is what their users rely on.
LEMMA PoolInvIsEnough ==
  ASSUME PoolInv
  PROVE  TypeOK /\ BlocksAreDisjoint /\ StacksKeepTheirElements
<1>1. BlockInv /\ MemoryInv
  BY DEF PoolInv
<1>2. TypeOK
  <2>1. ASSUME NEW i \in DOMAIN chunks
        PROVE  chunks[i].size \in 0 .. chunks[i].capacity
    <3>1. i \in 1 .. Len(chunks) /\ chunks[i].size <= chunks[i].capacity
      BY <1>1, LenProperties DEF BlockInv, ChunksOK
    <3>2. chunks[i].size \in Nat /\ chunks[i].capacity \in Nat
      BY <1>1, <3>1, ChunkParts DEF BlockInv
    <3> QED
      BY <3>1, <3>2
  <2>2. ASSUME NEW s \in Stacks
        PROVE  stacks[s].size \in 0 .. stacks[s].capacity
    BY <1>1, StackParts
  <2> QED
    BY <1>1, <2>1, <2>2 DEF TypeOK, MemoryInv
<1>3. BlocksAreDisjoint
  <2>1. ASSUME NEW s \in Stacks, stacks[s].stack_ # NULL
        PROVE  \E i \in DOMAIN chunks :
                 Cells(stacks[s].stack_, stacks[s].capacity)
                   \subseteq Cells(chunks[i].base + Header, chunks[i].size)
    <3>1. InUse(chunks, stacks[s].stack_, Room(s))
      BY <1>1, <2>1 DEF BlockInv
    <3>2. PICK i \in 1 .. Len(chunks) :
            /\ chunks[i].base + Header <= stacks[s].stack_
            /\ stacks[s].stack_ + Room(s) <= chunks[i].base + Header + chunks[i].size
      BY <3>1 DEF InUse
    <3>3. i \in DOMAIN chunks /\ chunks[i].base \in Nat /\ chunks[i].size \in Nat
      BY <1>1, ChunkParts, LenProperties DEF BlockInv, ChunksOK
    <3>4. /\ stacks[s].stack_ \in Nat /\ stacks[s].capacity \in Nat
          /\ Room(s) \in Nat /\ stacks[s].capacity <= Room(s)
      BY <1>1, <2>1, StackParts
    <3>5. Header \in Nat
      BY PoolAssumption
    <3>6. Cells(stacks[s].stack_, stacks[s].capacity)
            \subseteq Cells(chunks[i].base + Header, chunks[i].size)
      BY SMTT(60), <3>2, <3>3, <3>4, <3>5 DEF Cells
    <3> QED
      BY <3>3, <3>6
  <2>2. ASSUME NEW s \in Stacks, NEW t \in Stacks, s # t,
               stacks[s].stack_ # NULL, stacks[t].stack_ # NULL
        PROVE  Cells(stacks[s].stack_, stacks[s].capacity) \cap
               Cells(stacks[t].stack_, stacks[t].capacity) = {}
    <3>1. Apart(stacks[s].stack_, Room(s), stacks[t].stack_, Room(t))
      BY <1>1, <2>2 DEF BlockInv
    <3>2. /\ stacks[s].stack_ \in Nat /\ stacks[s].capacity \in Nat
          /\ Room(s) \in Nat /\ stacks[s].capacity <= Room(s)
          /\ stacks[t].stack_ \in Nat /\ stacks[t].capacity \in Nat
          /\ Room(t) \in Nat /\ stacks[t].capacity <= Room(t)
      BY <1>1, <2>2, StackParts
    <3> QED
      BY <3>1, <3>2 DEF Cells, Apart
  <2> QED
    BY <2>1, <2>2 DEF BlocksAreDisjoint
<1>4. StacksKeepTheirElements
  <2> SUFFICES ASSUME ~crashed, NEW s \in Stacks
               PROVE  pushed[s] =
                        [i \in 1 .. stacks[s].size |-> memory[stacks[s].stack_ + i - 1]]
    BY DEF StacksKeepTheirElements
  <2>1. /\ pushed[s] \in Seq(Element) /\ Len(pushed[s]) = stacks[s].size
        /\ \A i \in 1 .. stacks[s].size : pushed[s][i] = memory[stacks[s].stack_ + i - 1]
    BY DEF PoolInv, HoldInv
  <2>2. pushed[s] = [i \in 1 .. stacks[s].size |-> pushed[s][i]]
    BY <2>1, LenProperties
  <2> QED
    BY <2>1, <2>2
<1> QED
  BY <1>2, <1>3, <1>4

\* No two stacks ever share a cell, and each holds what was pushed and not popped,
\* for every alignment, size of chunk and buffer, and any number of stacks, over
\* every order of pushes, pops, moves and clears
\* (allocators.h:189-276, stack.h:90-206).
THEOREM StacksShareAPool == PoolSpec => []StacksShareThePool
<1>1. PoolInit => PoolInv
  BY InitPoolInv
<1>2. PoolInv /\ [PoolNext]_poolVars => PoolInv'
  BY NextPoolInv
<1>3. PoolInv => StacksShareThePool
  BY PoolInvIsEnough DEF StacksShareThePool
<1> QED
  BY <1>1, <1>2, <1>3, PTL DEF PoolSpec

=============================================================================
