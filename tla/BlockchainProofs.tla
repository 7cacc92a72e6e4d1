--------------------------- MODULE BlockchainProofs ---------------------------
(***************************************************************************)
(* Theorems about the block store, for every set of blocks and every bound.*)
(*                                                                         *)
(* The invariants need each other: a block joins the row of its height only*)
(* because the height of the top block names the last row, and the top     *)
(* block names it because every block lies in the row of its height and    *)
(* the last row is not empty.  StoreInv is their conjunction and is        *)
(* inductive.                                                              *)
(*                                                                         *)
(* And the block store implements the Ledger: AddBlock maps to Add,        *)
(* AddOrphan to Park, RemoveOrphan to Drop if it finds the orphan and to a *)
(* stuttering step if not.  The hard part is Drop: erase assigns every     *)
(* later orphan to the place before it, and the proof counts the orphans   *)
(* under each key by the bijection from the places after the erase to      *)
(* those before it.                                                        *)
(*                                                                         *)
(* The last part is about a caller of the store: where the pointers it     *)
(* keeps lead to, and what ReturnBlock returns.  The store goes on as if   *)
(* nobody watched it, so that StoreInv holds there too.  A row only grows  *)
(* at its end: the position a pointer was taken for is that of its block   *)
(* ever after (PointerInv).                                                *)
(***************************************************************************)
EXTENDS BlockReader, TLAPS, SequenceTheorems, FiniteSetTheorems, WellFoundedInduction

-----------------------------------------------------------------------------
(* Positions of sequences.  The first position where a test holds, which   *)
(* SelectInSeq computes, is what the searches in vectors and in received   *)
(* data return.  And loops over the positions of a sequence, written as    *)
(* recursive functions: the function exists, and what its first value has  *)
(* and each step keeps, all of its values have.                            *)

\* A set of natural numbers that is not empty has a least element.
LEMMA LeastNat ==
  ASSUME NEW S, S \subseteq Nat, S # {}
  PROVE  Min(S) \in S /\ \A y \in S : Min(S) <= y
<1>1. \E x \in S : \A y \in S : ~ (<<y, x>> \in OpToRel(<, Nat))
  BY NatLessThanWellFounded, WFMin
<1>2. PICK x \in S : \A y \in S : ~ (<<y, x>> \in OpToRel(<, Nat))
  BY <1>1
<1>3. \A y \in S : <<y, x>> \in Nat \X Nat /\ (y < x => <<y, x>> \in OpToRel(<, Nat))
  BY Zenon DEF OpToRel
<1>4. \A y \in S : x <= y
  <2>1. \A y \in S : ~ (y < x)
    BY <1>2, <1>3, Zenon
  <2> QED
    BY <2>1
<1> QED
  BY <1>4 DEF Min

\* The first position where a test holds, as SelectInSeq computes it, is 0
\* exactly if there is none, and otherwise one where it holds.
LEMMA FirstPosition ==
  ASSUME NEW I, I \subseteq Nat \ {0}
  PROVE  LET k == IF I # {} THEN Min(I) ELSE 0 IN
         /\ k = 0 <=> I = {}
         /\ k # 0 => k \in I
<1>1. CASE I = {}
  BY <1>1
<1>2. CASE I # {}
  BY <1>2, LeastNat
<1> QED
  BY <1>1, <1>2

\* A set with 0 and, with each number below n, the next one has all up to n.
LEMMA UpTo ==
  ASSUME NEW n \in Nat, NEW I, 0 \in I, \A i \in 1 .. n : i - 1 \in I => i \in I
  PROVE  0 .. n \subseteq I
<1> DEFINE Missing == {i \in 0 .. n : i \notin I}
<1> SUFFICES ASSUME Missing # {} PROVE FALSE
  OBVIOUS
<1>1. Missing \subseteq Nat
  OBVIOUS
<1>2. PICK m \in Missing : \A j \in Missing : m <= j
  BY <1>1, LeastNat
<1>3. m \in 1 .. n
  BY <1>2
<1>4. m - 1 \in 0 .. n /\ ~ (m <= m - 1)
  BY <1>3
<1>5. m - 1 \in I
  BY <1>2, <1>4
<1> QED
  BY <1>2, <1>3, <1>5

\* The function f has the n + 1 values of a loop that starts at base, each
\* from the one before it by step.
IsLoop(f, S, base, n, step) ==
  /\ f \in [0 .. n -> S]
  /\ f[0] = base
  /\ \A i \in 1 .. n : f[i] = step[<<f[i - 1], i>>]

\* The steps of a loop stay in a set.
IsStep(step, S, n) == step \in [S \X (1 .. n) -> S]

\* A loop whose steps stay in a set has its values.
LEMMA LoopExists ==
  ASSUME NEW S, NEW base \in S, NEW n \in Nat, NEW step, IsStep(step, S, n)
  PROVE  \E f : IsLoop(f, S, base, n, step)
<1> DEFINE Reached == {m \in 0 .. n : \E f : IsLoop(f, S, base, m, step)}
<1>1. 0 \in Reached
  <2>1. IsLoop([i \in 0 .. 0 |-> base], S, base, 0, step)
    BY DEF IsLoop
  <2> QED
    BY <2>1
<1>2. ASSUME NEW m \in 1 .. n, m - 1 \in Reached
      PROVE  m \in Reached
  <2>1. PICK f : IsLoop(f, S, base, m - 1, step)
    BY <1>2
  <2> DEFINE g == [i \in 0 .. m |-> IF i = m THEN step[<<f[m - 1], m>>] ELSE f[i]]
  <2>2. m - 1 \in 0 .. m - 1 /\ m \in 0 .. m /\ m # 0
    OBVIOUS
  <2>3. f[m - 1] \in S
    BY <2>1, <2>2 DEF IsLoop
  <2>4. step[<<f[m - 1], m>>] \in S
    BY <2>3 DEF IsStep
  <2>5. \A i \in 0 .. m : i # m => i \in 0 .. m - 1
    OBVIOUS
  <2>6. g \in [0 .. m -> S]
    BY <2>1, <2>4, <2>5 DEF IsLoop
  <2>7. g[0] = base
    BY <2>1, <2>2 DEF IsLoop
  <2>8. ASSUME NEW i \in 1 .. m
        PROVE  g[i] = step[<<g[i - 1], i>>]
    <3>1. i - 1 \in 0 .. m - 1 /\ i - 1 \in 0 .. m /\ i \in 0 .. m /\ i - 1 # m
      OBVIOUS
    <3>2. g[i - 1] = f[i - 1]
      BY <3>1
    <3>3. CASE i = m
      BY <3>1, <3>2, <3>3
    <3>4. CASE i # m
      <4>1. i \in 1 .. m - 1
        BY <3>4
      <4>2. g[i] = f[i]
        BY <3>1, <3>4
      <4> QED
        BY <2>1, <3>2, <4>1, <4>2 DEF IsLoop
    <3> QED
      BY <3>3, <3>4
  <2> HIDE DEF g
  <2>9. IsLoop(g, S, base, m, step)
    BY <2>6, <2>7, <2>8 DEF IsLoop
  <2> QED
    BY <2>9
<1>3. n \in Reached
  <2> HIDE DEF Reached
  <2> QED
    BY <1>1, <1>2, UpTo
<1> QED
  BY <1>3

-----------------------------------------------------------------------------
(* The invariant.                                                          *)

StoreInv ==
  /\ TypeOK
  /\ HeightNamesLastRow
  /\ BlocksLieInTheirRow

-----------------------------------------------------------------------------
(* Blocks and vectors of blocks.                                           *)

\* The copy constructor makes a block with the same header (block.cc:22-33).
LEMMA CopyConstructKeeps ==
  ASSUME NEW b \in BlockType
  PROVE  /\ CopyConstruct(b) \in BlockType
         /\ Header(CopyConstruct(b)) = Header(b)
         /\ CopyConstruct(b).blockHeight = b.blockHeight
         /\ CopyConstruct(b).minerId = b.minerId
BY DEF CopyConstruct, BlockType, Header

\* The genesis block is a block of height 0 (blockchain.cc:17).
LEMMA GenesisBlockType ==
  GenesisBlock \in BlockType /\ GenesisBlock.blockHeight = 0
BY DEF GenesisBlock, NewBlock, BlockType

\* push_back adds one block at the end and leaves the others alone.
LEMMA PushBackProperties ==
  ASSUME NEW v \in Seq(BlockType), NEW b \in BlockType
  PROVE  /\ PushBack(v, b) \in Seq(BlockType)
         /\ Len(PushBack(v, b)) = Len(v) + 1
         /\ \A i \in 1 .. Len(v) : PushBack(v, b)[i] = v[i]
         /\ PushBack(v, b)[Len(v) + 1] = CopyConstruct(b)
<1>1. CopyConstruct(b) \in BlockType
  BY CopyConstructKeeps
<1> QED
  BY <1>1, AppendProperties DEF PushBack

\* erase leaves a vector of blocks, one shorter (blockchain.cc:210).
LEMMA EraseType ==
  ASSUME NEW v \in Seq(BlockType), NEW k, v # <<>>
  PROVE  Erase(v, k) \in Seq(BlockType) /\ Len(Erase(v, k)) = Len(v) - 1
<1>1. Len(v) - 1 \in Nat
  BY EmptySeq, LenProperties
<1>2. ASSUME NEW i \in 1 .. Len(v) - 1
      PROVE  Erase(v, k)[i] \in BlockType
  <2>1. v[i] \in BlockType /\ v[i + 1] \in BlockType
    BY <1>1, ElementOfSeq
  <2>2. CopyAssign(v[i], v[i + 1]) \in BlockType
    BY <2>1 DEF CopyAssign, BlockType
  <2> QED
    BY <2>1, <2>2 DEF Erase
<1>3. Erase(v, k) \in [1 .. Len(v) - 1 -> BlockType]
  BY <1>2 DEF Erase
<1> QED
  BY <1>1, <1>3, IsASeq, LenProperties

\* A sequence, then n times the same element, then one more.
Padded(s, n, e, x) == s \o [i \in 1 .. n |-> e] \o <<x>>

\* t has the elements of such a sequence.
HasPadded(t, s, n, e, x) ==
  /\ Len(t) = Len(s) + n + 1
  /\ \A r \in 1 .. Len(s) + n + 1 :
       t[r] = IF r <= Len(s) THEN s[r] ELSE IF r = Len(s) + n + 1 THEN x ELSE e

\* What stands where in it.
LEMMA PaddedAppend ==
  ASSUME NEW S, NEW s \in Seq(S), NEW n \in Nat, NEW e \in S, NEW x \in S
  PROVE  /\ Padded(s, n, e, x) \in Seq(S)
         /\ HasPadded(Padded(s, n, e, x), s, n, e, x)
<1> DEFINE pad == [i \in 1 .. n |-> e]
           t   == Padded(s, n, e, x)
<1>1. pad \in Seq(S) /\ Len(pad) = n /\ \A i \in 1 .. n : pad[i] = e
  <2>1. pad \in [1 .. n -> S]
    OBVIOUS
  <2> QED
    BY <2>1, IsASeq, LenProperties
<1> HIDE DEF pad
<1>2. t = s \o pad \o <<x>>
  BY DEF pad, Padded
<1> HIDE DEF t
<1>3. /\ s \o pad \in Seq(S)
      /\ Len(s \o pad) = Len(s) + n
      /\ \A r \in 1 .. Len(s) + n : (s \o pad)[r] = IF r <= Len(s) THEN s[r] ELSE e
  <2>1. /\ s \o pad \in Seq(S)
        /\ Len(s \o pad) = Len(s) + n
        /\ \A r \in 1 .. Len(s) + Len(pad) :
             (s \o pad)[r] = IF r <= Len(s) THEN s[r] ELSE pad[r - Len(s)]
    BY <1>1, ConcatProperties
  <2>2. ASSUME NEW r \in 1 .. Len(s) + n, ~ r <= Len(s)
        PROVE  pad[r - Len(s)] = e
    BY <1>1, <2>2, LenProperties
  <2> QED
    BY <1>1, <2>1, <2>2
<1>4. t = Append(s \o pad, x)
  BY <1>2, <1>3, AppendIsConcat
<1>5. Len(s) \in Nat
  BY LenProperties
<1>6. /\ t \in Seq(S)
      /\ Len(t) = Len(s) + n + 1
      /\ \A r \in 1 .. Len(s) + n + 1 :
           t[r] = IF r <= Len(s) THEN s[r] ELSE IF r = Len(s) + n + 1 THEN x ELSE e
  BY <1>3, <1>4, <1>5, AppendProperties
<1> QED
  BY <1>6 DEF t, HasPadded

-----------------------------------------------------------------------------
(* What one AddBlock does to each row.                                     *)

\* Row r as AddBlock finds it: rows that do not exist yet count as empty.
OldRow(r) == IF r \in DOMAIN m_blocks THEN m_blocks[r] ELSE <<>>

\* AddBlock extends the row of the block's height, creates the rows up to it
\* when they are missing, and leaves every other row as it is
\* (blockchain.cc:169-190).
LEMMA AddBlockRows ==
  ASSUME StoreInv, NEW b \in Blocks, AddBlock(b)
  PROVE  /\ m_blocks' \in Seq(Seq(BlockType))
         /\ Len(m_blocks') = IF b.blockHeight + 1 > Len(m_blocks)
                             THEN b.blockHeight + 1 ELSE Len(m_blocks)
         /\ b.blockHeight + 1 \in DOMAIN m_blocks'
         /\ DOMAIN m_blocks \subseteq DOMAIN m_blocks'
         /\ \A r \in DOMAIN m_blocks' :
              m_blocks'[r] = IF r = b.blockHeight + 1
                             THEN PushBack(OldRow(r), b) ELSE OldRow(r)
<1> DEFINE h == b.blockHeight
           RowType == Seq(BlockType)
<1>1. b \in BlockType /\ h \in Nat
  BY BlocksAssumption DEF BlockType
<1>2. /\ m_blocks \in Seq(RowType)
      /\ Len(m_blocks) \in Nat
      /\ DOMAIN m_blocks = 1 .. Len(m_blocks)
      /\ GetBlockchainHeight = Len(m_blocks) - 1
  BY LenProperties DEF StoreInv, TypeOK, HeightNamesLastRow
<1>3. <<>> \in RowType /\ PushBack(<<>>, b) \in RowType
  BY <1>1, PushBackProperties, EmptySeq
<1>4. CASE h > GetBlockchainHeight
  <2> DEFINE n == h - Len(m_blocks)
             x == PushBack(<<>>, b)
  <2>1. n \in Nat /\ h = Len(m_blocks) + n
    BY <1>1, <1>2, <1>4
  <2>2. m_blocks' = Padded(m_blocks, n, <<>>, x)
    <3>1. m_blocks' = m_blocks \o DummyRows(h) \o <<x>>
      BY <1>1, <1>2, <1>4 DEF AddBlock
    <3>2. h - GetBlockchainHeight - 1 = n
      BY <1>1, <1>2
    <3> QED
      BY <3>1, <3>2 DEF DummyRows, Padded
  <2> HIDE DEF n, x, RowType
  <2>3. /\ m_blocks' \in Seq(RowType)
        /\ Len(m_blocks') = Len(m_blocks) + n + 1
        /\ \A r \in 1 .. Len(m_blocks) + n + 1 :
             m_blocks'[r] = IF r <= Len(m_blocks) THEN m_blocks[r]
                            ELSE IF r = Len(m_blocks) + n + 1 THEN x ELSE <<>>
    <3> DEFINE e == <<>>
               t == Padded(m_blocks, n, e, x)
    <3>1. m_blocks \in Seq(RowType) /\ n \in Nat
      BY <1>2, <2>1
    <3>2. x \in RowType /\ e \in RowType
      BY <1>3 DEF x
    <3>3. m_blocks' = t
      BY <2>2
    <3> HIDE DEF e, t
    <3>4. t \in Seq(RowType) /\ HasPadded(t, m_blocks, n, e, x)
      BY <3>1, <3>2, PaddedAppend DEF t
    <3> QED
      BY <3>3, <3>4 DEF e, HasPadded
  <2>4. DOMAIN m_blocks' = 1 .. h + 1
    BY <1>1, <1>2, <2>1, <2>3, LenProperties
  <2>5. OldRow(h + 1) = <<>>
    BY <1>1, <1>2, <2>1 DEF OldRow
  <2> QED
    BY <1>1, <1>2, <2>1, <2>3, <2>4, <2>5 DEF OldRow, x, RowType
<1>5. CASE h <= GetBlockchainHeight
  <2>1. m_blocks' = [m_blocks EXCEPT ![h + 1] = PushBack(@, b)]
    BY <1>5, <1>1, <1>2 DEF AddBlock
  <2>2. h + 1 \in DOMAIN m_blocks
    BY <1>1, <1>2, <1>5
  <2>3. PushBack(m_blocks[h + 1], b) \in RowType
    BY <1>1, <1>2, <2>2, PushBackProperties, ElementOfSeq
  <2>4. m_blocks' \in Seq(RowType) /\ Len(m_blocks') = Len(m_blocks)
    BY <1>2, <2>1, <2>2, <2>3, ExceptSeq
  <2>5. DOMAIN m_blocks' = DOMAIN m_blocks
    BY <2>1
  <2> QED
    BY <1>1, <1>2, <1>5, <2>1, <2>2, <2>4, <2>5 DEF OldRow
<1> QED
  BY <1>1, <1>2, <1>4, <1>5

\* The rows that exist already only grow, at their end.
LEMMA AddBlockExtendsRows ==
  ASSUME StoreInv, NEW b \in Blocks, AddBlock(b), NEW r \in DOMAIN m_blocks
  PROVE  /\ r \in DOMAIN m_blocks'
         /\ m_blocks[r] \in Seq(BlockType)
         /\ m_blocks'[r] \in Seq(BlockType)
         /\ Len(m_blocks[r]) <= Len(m_blocks'[r])
         /\ \A i \in 1 .. Len(m_blocks[r]) : m_blocks'[r][i] = m_blocks[r][i]
<1>1. b \in BlockType
  BY BlocksAssumption
<1>2. m_blocks[r] \in Seq(BlockType)
  BY ElementOfSeq, LenProperties DEF StoreInv, TypeOK
<1>3. /\ r \in DOMAIN m_blocks'
      /\ m_blocks'[r] = IF r = b.blockHeight + 1 THEN PushBack(m_blocks[r], b) ELSE m_blocks[r]
  BY AddBlockRows DEF OldRow
<1>4. Len(m_blocks[r]) \in Nat
  BY <1>2, LenProperties
<1>5. /\ PushBack(m_blocks[r], b) \in Seq(BlockType)
      /\ Len(PushBack(m_blocks[r], b)) = Len(m_blocks[r]) + 1
      /\ \A i \in 1 .. Len(m_blocks[r]) : PushBack(m_blocks[r], b)[i] = m_blocks[r][i]
  BY <1>1, <1>2, PushBackProperties
<1> QED
  BY <1>2, <1>3, <1>4, <1>5

-----------------------------------------------------------------------------
(* The inductive invariant.                                                *)

\* The constructor leaves one row with the genesis block (blockchain.cc:15-19).
LEMMA InitStoreInv == Init => StoreInv
<1> SUFFICES ASSUME Init PROVE StoreInv
  OBVIOUS
<1> DEFINE g == CopyConstruct(GenesisBlock)
<1>1. g \in BlockType /\ g.blockHeight = 0
  BY GenesisBlockType, CopyConstructKeeps
<1> HIDE DEF g
<1>2. m_blocks = <<<<g>>>>
  BY DEF Init, PushBack, g
<1>3. TypeOK
  <2>1. <<g>> \in Seq(BlockType)
    BY <1>1
  <2>2. <<<<g>>>> \in Seq(Seq(BlockType))
    BY <2>1
  <2>3. m_blocks \in Seq(Seq(BlockType))
    BY <1>2, <2>2
  <2>4. m_orphans \in Seq(BlockType) /\ m_totalBlocks \in Nat
    BY EmptySeq DEF Init
  <2> QED
    BY <2>3, <2>4 DEF TypeOK
<1>4. HeightNamesLastRow
  BY <1>1, <1>2 DEF HeightNamesLastRow, GetBlockchainHeight, GetCurrentTopBlock
<1>5. BlocksLieInTheirRow
  BY <1>1, <1>2 DEF BlocksLieInTheirRow
<1> QED
  BY <1>3, <1>4, <1>5 DEF StoreInv

\* AddBlock keeps the invariant.
LEMMA AddBlockStoreInv ==
  ASSUME StoreInv, NEW b \in Blocks, AddBlock(b)
  PROVE  StoreInv'
<1> DEFINE h == b.blockHeight
<1>1. b \in BlockType /\ h \in Nat
  BY BlocksAssumption DEF BlockType
<1>2. /\ Len(m_blocks) \in Nat
      /\ DOMAIN m_blocks = 1 .. Len(m_blocks)
      /\ \A r \in DOMAIN m_blocks : m_blocks[r] \in Seq(BlockType)
  BY LenProperties, ElementOfSeq DEF StoreInv, TypeOK
<1>3. /\ m_blocks' \in Seq(Seq(BlockType))
      /\ Len(m_blocks') = IF h + 1 > Len(m_blocks) THEN h + 1 ELSE Len(m_blocks)
      /\ h + 1 \in DOMAIN m_blocks'
      /\ \A r \in DOMAIN m_blocks' :
           m_blocks'[r] = IF r = h + 1 THEN PushBack(OldRow(r), b) ELSE OldRow(r)
  BY AddBlockRows
<1>4. DOMAIN m_blocks' = 1 .. Len(m_blocks')
  BY <1>3, LenProperties
<1>5. ASSUME NEW r \in DOMAIN m_blocks'
      PROVE  /\ OldRow(r) \in Seq(BlockType)
             /\ \A i \in 1 .. Len(OldRow(r)) : OldRow(r)[i].blockHeight = r - 1
  <2>1. CASE r \in DOMAIN m_blocks
    <3>1. OldRow(r) = m_blocks[r] /\ m_blocks[r] \in Seq(BlockType)
      BY <1>2, <2>1 DEF OldRow
    <3>2. DOMAIN m_blocks[r] = 1 .. Len(m_blocks[r])
      BY <3>1, LenProperties
    <3> QED
      BY <2>1, <3>1, <3>2 DEF StoreInv, BlocksLieInTheirRow
  <2>2. CASE r \notin DOMAIN m_blocks
    <3>1. OldRow(r) = <<>>
      BY <2>2 DEF OldRow
    <3> QED
      BY <3>1
  <2> QED
    BY <2>1, <2>2
<1>6. TypeOK'
  <2>1. m_orphans' = m_orphans /\ m_totalBlocks' = m_totalBlocks + 1
    BY DEF AddBlock
  <2> QED
    BY <1>3, <2>1 DEF StoreInv, TypeOK
<1>7. BlocksLieInTheirRow'
  <2> SUFFICES ASSUME NEW r \in DOMAIN m_blocks', NEW i \in DOMAIN m_blocks'[r]
               PROVE  m_blocks'[r][i].blockHeight = r - 1
    BY DEF BlocksLieInTheirRow
  <2>1. CASE r # h + 1
    <3>1. m_blocks'[r] = OldRow(r)
      BY <1>3, <2>1
    <3>2. DOMAIN OldRow(r) = 1 .. Len(OldRow(r))
      BY <1>5, LenProperties
    <3> QED
      BY <1>5, <3>1, <3>2
  <2>2. CASE r = h + 1
    <3>1. /\ m_blocks'[r] \in Seq(BlockType)
          /\ Len(m_blocks'[r]) = Len(OldRow(r)) + 1
          /\ \A j \in 1 .. Len(OldRow(r)) : m_blocks'[r][j] = OldRow(r)[j]
          /\ m_blocks'[r][Len(OldRow(r)) + 1] = CopyConstruct(b)
      <4>1. m_blocks'[r] = PushBack(OldRow(r), b)
        BY <1>3, <2>2
      <4>2. OldRow(r) \in Seq(BlockType)
        BY <1>5
      <4> QED
        BY <1>1, <4>1, <4>2, PushBackProperties
    <3>2. /\ DOMAIN m_blocks'[r] = 1 .. Len(OldRow(r)) + 1
          /\ Len(OldRow(r)) \in Nat
      BY <1>5, <3>1, LenProperties
    <3>3. CASE i \in 1 .. Len(OldRow(r))
      BY <1>5, <3>1, <3>3
    <3>4. CASE i = Len(OldRow(r)) + 1
      <4>1. CopyConstruct(b).blockHeight = h
        BY <1>1, CopyConstructKeeps
      <4> QED
        BY <1>1, <2>2, <3>1, <3>4, <4>1
    <3> QED
      BY <3>2, <3>3, <3>4
  <2> QED
    BY <2>1, <2>2
<1>8. HeightNamesLastRow'
  <2> DEFINE last == Len(m_blocks')
  <2>1. last \in DOMAIN m_blocks' /\ last \in Nat /\ last >= h + 1
    BY <1>1, <1>2, <1>3, <1>4
  <2>2. m_blocks'[last] \in Seq(BlockType) /\ Len(m_blocks'[last]) > 0
    <3>1. CASE last = h + 1
      <4>1. m_blocks'[last] = PushBack(OldRow(last), b)
        BY <1>3, <2>1, <3>1
      <4>2. OldRow(last) \in Seq(BlockType)
        BY <1>5, <2>1
      <4> QED
        BY <1>1, <4>1, <4>2, PushBackProperties, LenProperties
    <3>2. CASE last # h + 1
      <4>1. last = Len(m_blocks) /\ last \in DOMAIN m_blocks
        BY <1>1, <1>2, <1>3, <2>1, <3>2
      <4>2. m_blocks'[last] = m_blocks[last]
        BY <1>3, <2>1, <3>2, <4>1 DEF OldRow
      <4>3. m_blocks[last] \in Seq(BlockType) /\ m_blocks[last] # <<>>
        BY <1>2, <4>1 DEF StoreInv, HeightNamesLastRow
      <4> QED
        BY <4>2, <4>3, EmptySeq, LenProperties
    <3> QED
      BY <3>1, <3>2
  <2>3. 1 \in DOMAIN m_blocks'[last]
    BY <2>2, LenProperties
  <2>4. m_blocks'[last][1].blockHeight = last - 1
    BY <1>7, <2>1, <2>3 DEF BlocksLieInTheirRow
  <2>5. m_blocks' # <<>>
    BY <2>1
  <2> QED
    BY <2>2, <2>4, <2>5 DEF HeightNamesLastRow, GetBlockchainHeight, GetCurrentTopBlock
<1> QED
  BY <1>6, <1>7, <1>8 DEF StoreInv

\* The orphan calls leave rows and count alone and m_orphans a vector of blocks.
LEMMA OrphanStoreInv ==
  ASSUME StoreInv, NEW b \in Blocks, AddOrphan(b) \/ RemoveOrphan(b)
  PROVE  StoreInv'
<1>1. b \in BlockType
  BY BlocksAssumption
<1>2. m_blocks' = m_blocks /\ m_totalBlocks' = m_totalBlocks
  BY DEF AddOrphan, RemoveOrphan
<1>3. m_orphans' \in Seq(BlockType)
  <2>1. CASE AddOrphan(b)
    BY <1>1, <2>1, PushBackProperties DEF AddOrphan, StoreInv, TypeOK
  <2>2. CASE RemoveOrphan(b) /\ m_orphans' = m_orphans
    BY <2>2 DEF StoreInv, TypeOK
  <2>3. CASE RemoveOrphan(b) /\ m_orphans' # m_orphans
    <3>1. m_orphans' = Erase(m_orphans, OrphanPosition(b)) /\ OrphanPosition(b) # 0
      BY <2>3 DEF RemoveOrphan
    <3>2. m_orphans # <<>>
      BY <3>1 DEF OrphanPosition, SelectInSeq
    <3> QED
      BY <3>1, <3>2, EraseType DEF StoreInv, TypeOK
  <2> QED
    BY <2>1, <2>2, <2>3
<1> QED
  BY <1>2, <1>3 DEF StoreInv, TypeOK, HeightNamesLastRow, BlocksLieInTheirRow,
                    GetBlockchainHeight, GetCurrentTopBlock

\* Every step keeps the invariant.
LEMMA NextStoreInv == StoreInv /\ [Next]_vars => StoreInv'
<1> SUFFICES ASSUME StoreInv, [Next]_vars PROVE StoreInv'
  OBVIOUS
<1>1. CASE Next
  BY <1>1, AddBlockStoreInv, OrphanStoreInv DEF Next
<1>2. CASE UNCHANGED vars
  BY <1>2 DEF vars, StoreInv, TypeOK, HeightNamesLastRow, BlocksLieInTheirRow,
              GetBlockchainHeight, GetCurrentTopBlock
<1> QED
  BY <1>1, <1>2

\* The inductive invariant holds in every state of every behaviour.
THEOREM StoreInvariant == Spec => []StoreInv
BY InitStoreInv, NextStoreInv, PTL DEF Spec

\* The variables have their types in every state (blockchain.h:55-57).
THEOREM TypeCorrect == Spec => []TypeOK
<1>1. StoreInv => TypeOK
  BY DEF StoreInv
<1> QED
  BY <1>1, StoreInvariant, PTL

\* GetCurrentTopBlock always reads a block that exists, and its height is the
\* index of the last row (blockchain.cc:164-166).
THEOREM TopBlockCorrect == Spec => []HeightNamesLastRow
<1>1. StoreInv => HeightNamesLastRow
  BY DEF StoreInv
<1> QED
  BY <1>1, StoreInvariant, PTL

\* Every block lies in the row of its height (blockchain.cc:169-190).
THEOREM RowsCorrect == Spec => []BlocksLieInTheirRow
<1>1. StoreInv => BlocksLieInTheirRow
  BY DEF StoreInv
<1> QED
  BY <1>1, StoreInvariant, PTL

-----------------------------------------------------------------------------
(* The count.                                                              *)

CountInv == IsFiniteSet(Places) /\ TotalCountsPlaces

\* One AddBlock puts the block into exactly one place, which was free, and
\* leaves the blocks in all others alone.
LEMMA AddBlockFillsOnePlace ==
  ASSUME StoreInv, NEW b \in Blocks, AddBlock(b)
  PROVE  \E p : /\ p \notin Places
                /\ Places' = Places \cup {p}
                /\ m_blocks'[p[1]][p[2]] = CopyConstruct(b)
                /\ \A q \in Places : m_blocks'[q[1]][q[2]] = m_blocks[q[1]][q[2]]
<1> DEFINE h == b.blockHeight
           p == <<h + 1, Len(OldRow(h + 1)) + 1>>
<1>1. b \in BlockType /\ h \in Nat
  BY BlocksAssumption DEF BlockType
<1>2. /\ \A r \in DOMAIN m_blocks : m_blocks[r] \in Seq(BlockType)
      /\ \A r : OldRow(r) \in Seq(BlockType)
  BY ElementOfSeq, LenProperties, EmptySeq DEF StoreInv, TypeOK, OldRow
<1>3. /\ h + 1 \in DOMAIN m_blocks'
      /\ DOMAIN m_blocks \subseteq DOMAIN m_blocks'
      /\ \A r \in DOMAIN m_blocks' :
           m_blocks'[r] = IF r = h + 1 THEN PushBack(OldRow(r), b) ELSE OldRow(r)
  BY AddBlockRows
<1>4. Places = UNION {{r} \X (1 .. Len(OldRow(r))) : r \in DOMAIN m_blocks'}
  <2>1. \A r \in DOMAIN m_blocks : DOMAIN m_blocks[r] = 1 .. Len(OldRow(r))
    BY <1>2, LenProperties DEF OldRow
  <2>2. \A r \in DOMAIN m_blocks' \ DOMAIN m_blocks : 1 .. Len(OldRow(r)) = {}
    BY DEF OldRow
  <2>3. ASSUME NEW q
        PROVE  q \in Places <=>
                 q \in UNION {{r} \X (1 .. Len(OldRow(r))) : r \in DOMAIN m_blocks'}
    BY <1>3, <2>1, <2>2 DEF Places
  <2> QED
    BY <2>3
<1>5. /\ DOMAIN m_blocks'[h + 1] = (1 .. Len(OldRow(h + 1))) \cup {Len(OldRow(h + 1)) + 1}
      /\ Len(OldRow(h + 1)) \in Nat
  <2>1. /\ PushBack(OldRow(h + 1), b) \in Seq(BlockType)
        /\ Len(PushBack(OldRow(h + 1), b)) = Len(OldRow(h + 1)) + 1
    BY <1>1, <1>2, PushBackProperties
  <2>2. Len(OldRow(h + 1)) \in Nat
    BY <1>2, LenProperties
  <2>3. DOMAIN PushBack(OldRow(h + 1), b) = 1 .. Len(OldRow(h + 1)) + 1
    BY <2>1, LenProperties
  <2> QED
    BY <1>3, <2>2, <2>3
<1>6. \A r \in DOMAIN m_blocks' : r # h + 1 => DOMAIN m_blocks'[r] = 1 .. Len(OldRow(r))
  BY <1>2, <1>3, LenProperties
<1>7. p \notin Places
  BY <1>4, <1>5
<1>8. Places' = Places \cup {p}
  <2>1. Places' = UNION {{r} \X DOMAIN m_blocks'[r] : r \in DOMAIN m_blocks'}
    BY DEF Places
  <2>2. ASSUME NEW q PROVE q \in Places' <=> q \in Places \cup {p}
    <3> HIDE DEF h
    <3> QED
      BY <1>3, <1>4, <1>5, <1>6, <2>1
  <2> QED
    BY <2>2
<1>9. m_blocks'[p[1]][p[2]] = CopyConstruct(b)
  <2>1. m_blocks'[h + 1] = PushBack(OldRow(h + 1), b)
    BY <1>3
  <2>2. OldRow(h + 1) \in Seq(BlockType)
    BY <1>2
  <2>3. PushBack(OldRow(h + 1), b)[Len(OldRow(h + 1)) + 1] = CopyConstruct(b)
    BY <1>1, <2>2, PushBackProperties
  <2> QED
    BY <2>1, <2>3
<1>10. \A q \in Places : m_blocks'[q[1]][q[2]] = m_blocks[q[1]][q[2]]
  <2>1. \A r \in DOMAIN m_blocks : DOMAIN m_blocks[r] = 1 .. Len(m_blocks[r])
    BY <1>2, LenProperties
  <2> QED
    BY <2>1, AddBlockExtendsRows DEF Places
<1> QED
  BY <1>7, <1>8, <1>9, <1>10

\* The count holds initially and after every step that keeps StoreInv.
LEMMA CountInductive ==
  /\ Init => CountInv
  /\ StoreInv /\ CountInv /\ [Next]_vars => CountInv'
<1>1. Init => CountInv
  <2> SUFFICES ASSUME Init PROVE CountInv
    OBVIOUS
  <2>1. m_blocks = <<<<CopyConstruct(GenesisBlock)>>>> /\ m_totalBlocks = 1
    BY DEF Init, PushBack
  <2>2. DOMAIN m_blocks = {1} /\ DOMAIN m_blocks[1] = {1}
    BY <2>1
  <2>3. Places = {<<1, 1>>}
    BY <2>2 DEF Places
  <2> QED
    BY <2>1, <2>3, FS_Singleton DEF CountInv, TotalCountsPlaces
<1>2. ASSUME StoreInv, CountInv, [Next]_vars
      PROVE  CountInv'
  <2>1. ASSUME NEW b \in Blocks, AddBlock(b)
        PROVE  CountInv'
    <3>1. PICK p : p \notin Places /\ Places' = Places \cup {p}
      BY <1>2, <2>1, AddBlockFillsOnePlace
    <3>2. m_totalBlocks' = m_totalBlocks + 1
      BY <2>1 DEF AddBlock
    <3> QED
      BY <1>2, <3>1, <3>2, FS_AddElement DEF CountInv, TotalCountsPlaces
  <2>2. CASE m_blocks' = m_blocks /\ m_totalBlocks' = m_totalBlocks
    BY <1>2, <2>2 DEF CountInv, TotalCountsPlaces, Places
  <2>3. CASE UNCHANGED vars
    BY <2>2, <2>3 DEF vars
  <2> QED
    BY <1>2, <2>1, <2>2, <2>3 DEF Next, AddOrphan, RemoveOrphan
<1> QED
  BY <1>1, <1>2

\* GetTotalBlocks is the number of stored blocks in every state
\* (blockchain.cc:189).
THEOREM TotalCorrect == Spec => []TotalCountsPlaces
<1>1. CountInv => TotalCountsPlaces
  BY DEF CountInv
<1> QED
  BY <1>1, InitStoreInv, NextStoreInv, CountInductive, PTL DEF Spec

-----------------------------------------------------------------------------
(* Steps.                                                                  *)

\* A sequence that agrees with another on all of its positions is a prefix.
LEMMA PrefixByElements ==
  ASSUME NEW S, NEW s \in Seq(S), NEW t \in Seq(S), Len(s) <= Len(t),
         \A i \in 1 .. Len(s) : t[i] = s[i]
  PROVE  IsPrefix(s, t)
BY SubSeqProperties, SeqEqual, LenProperties DEF IsPrefix

\* No call moves, overwrites or drops a stored block (blockchain.cc:169-190).
THEOREM RowsOnlyGrowInSpec == Spec => RowsOnlyGrow
<1>1. ASSUME StoreInv, [Next]_vars
      PROVE  [\A r \in DOMAIN m_blocks : IsPrefix(m_blocks[r], m_blocks'[r])]_vars
  <2> SUFFICES ASSUME Next, NEW r \in DOMAIN m_blocks
               PROVE  IsPrefix(m_blocks[r], m_blocks'[r])
    BY <1>1
  <2>1. m_blocks[r] \in Seq(BlockType)
    BY <1>1, ElementOfSeq, LenProperties DEF StoreInv, TypeOK
  <2>2. ASSUME NEW b \in Blocks, AddBlock(b)
        PROVE  IsPrefix(m_blocks[r], m_blocks'[r])
    BY <1>1, <2>2, AddBlockExtendsRows, PrefixByElements
  <2>3. CASE m_blocks' = m_blocks
    BY <2>1, <2>3, PrefixByElements, LenProperties
  <2> QED
    BY <2>2, <2>3 DEF Next, AddOrphan, RemoveOrphan
<1> QED
  BY <1>1, InitStoreInv, NextStoreInv, PTL DEF Spec, RowsOnlyGrow

\* Only a higher block replaces the top block (blockchain.cc:164-166, 176).
THEOREM TopChangesOnlyUpwardsInSpec == Spec => TopChangesOnlyUpwards
<1>1. ASSUME StoreInv, [Next]_vars
      PROVE  [GetCurrentTopBlock' # GetCurrentTopBlock
                => GetBlockchainHeight' > GetBlockchainHeight]_vars
  <2> SUFFICES ASSUME Next, GetCurrentTopBlock' # GetCurrentTopBlock
               PROVE  GetBlockchainHeight' > GetBlockchainHeight
    BY <1>1
  <2>1. PICK b \in Blocks : AddBlock(b)
    BY DEF Next, AddOrphan, RemoveOrphan, GetCurrentTopBlock
  <2>2. StoreInv'
    BY <1>1, NextStoreInv
  <2>3. Len(m_blocks) \in Nat /\ Len(m_blocks') \in Nat /\ DOMAIN m_blocks = 1 .. Len(m_blocks)
    BY <1>1, <2>2, LenProperties DEF StoreInv, TypeOK
  <2>4. Len(m_blocks') >= Len(m_blocks)
    BY <1>1, <2>1, <2>3, AddBlockRows
  <2>5. Len(m_blocks') # Len(m_blocks)
    <3> SUFFICES ASSUME Len(m_blocks') = Len(m_blocks) PROVE FALSE
      OBVIOUS
    <3> DEFINE last == Len(m_blocks)
    <3>1. last \in DOMAIN m_blocks
      BY <1>1, <2>3, EmptySeq DEF StoreInv, TypeOK, HeightNamesLastRow
    <3>2. m_blocks[last] \in Seq(BlockType) /\ m_blocks[last] # <<>>
      BY <1>1, <3>1, ElementOfSeq, <2>3 DEF StoreInv, TypeOK, HeightNamesLastRow
    <3>3. 1 \in 1 .. Len(m_blocks[last])
      BY <3>2, EmptySeq, LenProperties
    <3>4. m_blocks'[last][1] = m_blocks[last][1]
      BY <1>1, <2>1, <3>1, <3>3, AddBlockExtendsRows
    <3> QED
      BY <3>4 DEF GetCurrentTopBlock
  <2> QED
    BY <1>1, <2>2, <2>3, <2>4, <2>5 DEF StoreInv, HeightNamesLastRow
<1> QED
  BY <1>1, InitStoreInv, NextStoreInv, PTL DEF Spec, TopChangesOnlyUpwards

-----------------------------------------------------------------------------
(* Lookups.  They read one row and answer for all: a block is in the row   *)
(* of its height or nowhere, and the top block's height tells which rows   *)
(* there are, so that both theorems follow from StoreInv state by state.   *)

\* The rows the range tests let through are those that exist.
LEMMA RowsInReach ==
  ASSUME StoreInv
  PROVE  /\ Len(m_blocks) \in Nat
         /\ DOMAIN m_blocks = 1 .. Len(m_blocks)
         /\ GetBlockchainHeight = Len(m_blocks) - 1
         /\ \A r \in DOMAIN m_blocks :
              /\ m_blocks[r] \in Seq(BlockType)
              /\ DOMAIN m_blocks[r] = 1 .. Len(m_blocks[r])
BY LenProperties, ElementOfSeq DEF StoreInv, TypeOK, HeightNamesLastRow

\* A place is a row and a position in it.
LEMMA PlaceParts ==
  ASSUME NEW p
  PROVE  p \in Places <=>
           \E r \in DOMAIN m_blocks : \E i \in DOMAIN m_blocks[r] : p = <<r, i>>
BY DEF Places

\* Every stored block is a block and has a row of its height.
LEMMA StoredBlock ==
  ASSUME StoreInv, NEW p \in Places
  PROVE  LET b == m_blocks[p[1]][p[2]] IN
         /\ b \in BlockType
         /\ b.blockHeight \in Nat
         /\ b.blockHeight + 1 = p[1]
         /\ p[1] \in DOMAIN m_blocks
         /\ p[2] \in DOMAIN m_blocks[p[1]]
         /\ b.blockHeight <= GetBlockchainHeight
<1>1. PICK r \in DOMAIN m_blocks : \E i \in DOMAIN m_blocks[r] : p = <<r, i>>
  BY PlaceParts
<1>2. PICK i \in DOMAIN m_blocks[r] : p = <<r, i>>
  BY <1>1
<1>3. m_blocks[r] \in Seq(BlockType) /\ i \in 1 .. Len(m_blocks[r])
  BY RowsInReach
<1>4. m_blocks[r][i] \in BlockType
  BY <1>3, ElementOfSeq
<1>5. m_blocks[r][i].blockHeight = r - 1
  BY DEF StoreInv, BlocksLieInTheirRow
<1>6. m_blocks[r][i].blockHeight \in Nat
  BY <1>4 DEF BlockType
<1>7. r \in 1 .. Len(m_blocks) /\ Len(m_blocks) \in Nat /\ GetBlockchainHeight = Len(m_blocks) - 1
  BY RowsInReach
<1>8. /\ m_blocks[r][i].blockHeight + 1 = r
      /\ m_blocks[r][i].blockHeight <= GetBlockchainHeight
  BY <1>5, <1>7
<1>9. p[1] = r /\ p[2] = i
  BY <1>2
<1> QED
  BY <1>4, <1>6, <1>8, <1>9

-----------------------------------------------------------------------------
(* HasBlock and GetBlockPointer.                                           *)

\* HasBlock finds a block exactly if one of that height and miner is stored
\* (blockchain.cc:44-56).
LEMMA HasBlockIffStored ==
  ASSUME StoreInv, NEW height \in Nat, NEW minerId
  PROVE  HasBlock(height, minerId) <=> <<height, minerId>> \in StoredKeys
<1>1. ASSUME HasBlock(height, minerId)
      PROVE  <<height, minerId>> \in StoredKeys
  <2>1. height + 1 \in DOMAIN m_blocks
    BY <1>1, RowsInReach DEF HasBlock
  <2>2. PICK i \in DOMAIN m_blocks[height + 1] :
          /\ m_blocks[height + 1][i].blockHeight = height
          /\ m_blocks[height + 1][i].minerId = minerId
    BY <1>1 DEF HasBlock, Row
  <2>3. <<height + 1, i>> \in Places
    BY <2>1, <2>2, PlaceParts
  <2> QED
    BY <2>2, <2>3 DEF StoredKeys, Key
<1>2. ASSUME <<height, minerId>> \in StoredKeys
      PROVE  HasBlock(height, minerId)
  <2>1. PICK p \in Places : <<height, minerId>> = Key(m_blocks[p[1]][p[2]])
    BY <1>2 DEF StoredKeys
  <2>2. /\ m_blocks[p[1]][p[2]].blockHeight = height
        /\ m_blocks[p[1]][p[2]].minerId = minerId
    BY <2>1 DEF Key
  <2> QED
    BY <2>2, StoredBlock DEF HasBlock, Row
<1> QED
  BY <1>1, <1>2

\* GetBlockPointer finds what HasBlock finds (blockchain.cc:98-105).
LEMMA PointerIfStored ==
  ASSUME StoreInv, NEW height \in Nat, NEW minerId, HasBlock(height, minerId)
  PROVE  GetBlockPointer(height, minerId) # 0
<1> DEFINE row == Row(height)
           I == {i \in 1 .. Len(row) : row[i].blockHeight = height /\ row[i].minerId = minerId}
<1>1. height + 1 \in DOMAIN m_blocks
  BY RowsInReach DEF HasBlock
<1>2. DOMAIN row = 1 .. Len(row)
  BY <1>1, RowsInReach DEF Row
<1>3. I # {}
  BY <1>2 DEF HasBlock
<1>4. GetBlockPointer(height, minerId) = IF I # {} THEN Min(I) ELSE 0
  BY DEF GetBlockPointer, SelectInSeq
<1>5. I \subseteq Nat \ {0}
  OBVIOUS
<1> HIDE DEF I
<1> QED
  BY <1>3, <1>4, <1>5, FirstPosition

\* The one row a lookup reads speaks for the whole store: HasBlock is true
\* exactly if the block is stored anywhere, and GetBlockPointer then finds it
\* (blockchain.cc:44-56, 98-105).
THEOREM LookupsCorrect == Spec => []LookupsSeeEveryBlock
<1>1. ASSUME StoreInv PROVE LookupsSeeEveryBlock
  <2>1. ASSUME NEW key \in Keys
        PROVE  key = <<key[1], key[2]>> /\ key[1] \in Nat
    <3>1. PICK b \in Blocks \cup {GenesisBlock} : key = Key(b)
      BY <2>1 DEF Keys
    <3>2. b \in BlockType
      BY BlocksAssumption, GenesisBlockType
    <3> QED
      BY <3>1, <3>2 DEF Key, BlockType
  <2> QED
    BY <1>1, <2>1, HasBlockIffStored, PointerIfStored DEF LookupsSeeEveryBlock
<1> QED
  BY <1>1, StoreInvariant, PTL

-----------------------------------------------------------------------------
(* GetParent and GetChildrenPointers.                                      *)

\* GetParent finds a block of the row below, and one that passes for a parent;
\* it finds none only if that row has none (blockchain.cc:145-161).
LEMMA ParentFinds ==
  ASSUME StoreInv, NEW b \in BlockType
  PROVE  /\ GetParent(b) # 0 =>
              /\ b.blockHeight \in DOMAIN m_blocks
              /\ GetParent(b) \in DOMAIN m_blocks[b.blockHeight]
              /\ IsChild(b, m_blocks[b.blockHeight][GetParent(b)])
         /\ GetParent(b) = 0 =>
              \A i : ~ /\ b.blockHeight \in DOMAIN m_blocks
                       /\ i \in DOMAIN m_blocks[b.blockHeight]
                       /\ IsChild(b, m_blocks[b.blockHeight][i])
<1> DEFINE h == b.blockHeight
           I == {i \in 1 .. Len(m_blocks[h]) : IsChild(b, m_blocks[h][i])}
<1>1. h \in Nat
  BY DEF BlockType
<1>2. CASE h \notin DOMAIN m_blocks
  <2>1. GetParent(b) = 0
    BY <1>1, <1>2, RowsInReach DEF GetParent
  <2> QED
    BY <1>2, <2>1
<1>3. CASE h \in DOMAIN m_blocks
  <2>1. ~ (h - 1 > GetBlockchainHeight \/ h - 1 < 0)
    BY <1>1, <1>3, RowsInReach
  <2>2. Row(h - 1) = m_blocks[h]
    BY <1>1 DEF Row
  <2>3. GetParent(b) = IF I # {} THEN Min(I) ELSE 0
    BY <2>1, <2>2 DEF GetParent, SelectInSeq
  <2>4. DOMAIN m_blocks[h] = 1 .. Len(m_blocks[h])
    BY <1>3, RowsInReach
  <2>5. I \subseteq Nat \ {0}
    OBVIOUS
  <2>6. /\ GetParent(b) = 0 <=> I = {}
        /\ GetParent(b) # 0 => GetParent(b) \in I
    <3> HIDE DEF I
    <3> QED
      BY <2>3, <2>5, FirstPosition
  <2> QED
    BY <1>3, <2>4, <2>6
<1> QED
  BY <1>2, <1>3

\* Being someone's child and being a parent of someone are the same relation
\* (block.cc:107-125).
LEMMA ChildIffParent ==
  ASSUME NEW b \in BlockType, NEW c \in BlockType
  PROVE  IsParent(b, c) <=> IsChild(c, b)
BY DEF IsParent, IsChild, BlockType

\* A block that is a child of a stored block has a parent in the store.
LEMMA ChildHasParent ==
  ASSUME StoreInv, NEW p \in Places, NEW c \in BlockType,
         IsParent(m_blocks[p[1]][p[2]], c)
  PROVE  GetParent(c) # 0
<1> DEFINE b == m_blocks[p[1]][p[2]]
<1>1. /\ b \in BlockType
      /\ b.blockHeight + 1 = p[1]
      /\ p[1] \in DOMAIN m_blocks
      /\ p[2] \in DOMAIN m_blocks[p[1]]
  BY StoredBlock
<1>2. IsChild(c, b)
  BY <1>1, ChildIffParent
<1>3. c.blockHeight = p[1]
  BY <1>1, <1>2 DEF IsChild, BlockType
<1> QED
  BY <1>1, <1>2, <1>3, ParentFinds

\* Walking up and walking down agree in every state: the parent GetParent finds
\* lists the block among its children, and every listed child, in the chain or
\* among the orphans, has a parent (blockchain.cc:107-161).
THEOREM FamilyCorrect == Spec => []ParentsAndChildrenAgree
<1>1. ASSUME StoreInv, NEW p \in Places
      PROVE  LET b == m_blocks[p[1]][p[2]] IN
             /\ GetParent(b) # 0 =>
                  p[2] \in GetChildrenPointers(Row(b.blockHeight - 1)[GetParent(b)])
             /\ \A i \in GetChildrenPointers(b) : GetParent(Row(b.blockHeight + 1)[i]) # 0
             /\ \A i \in GetOrpharnChildrenPointer(b) : GetParent(m_orphans[i]) # 0
  <2> DEFINE b == m_blocks[p[1]][p[2]]
             h == b.blockHeight
  <2>1. /\ b \in BlockType
        /\ h \in Nat
        /\ h + 1 = p[1]
        /\ p[1] \in DOMAIN m_blocks
        /\ p[2] \in DOMAIN m_blocks[p[1]]
    BY <1>1, StoredBlock
  <2>2. ASSUME GetParent(b) # 0
        PROVE  p[2] \in GetChildrenPointers(Row(h - 1)[GetParent(b)])
    <3> DEFINE q == m_blocks[h][GetParent(b)]
    <3>1. /\ h \in DOMAIN m_blocks
          /\ GetParent(b) \in DOMAIN m_blocks[h]
          /\ IsChild(b, q)
      BY <1>1, <2>1, <2>2, ParentFinds
    <3>2. <<h, GetParent(b)>> \in Places
      BY <3>1, PlaceParts
    <3>3. q \in BlockType /\ q.blockHeight + 1 = h
      BY <1>1, <3>2, StoredBlock
    <3>4. IsParent(q, b)
      BY <2>1, <3>1, <3>3, ChildIffParent
    <3>5. Row(h - 1)[GetParent(b)] = q
      BY <2>1 DEF Row
    <3>6. Row(q.blockHeight + 1) = m_blocks[p[1]]
      BY <2>1, <3>3 DEF Row
    <3>7. ~ (q.blockHeight + 1 > GetBlockchainHeight)
      BY <1>1, <2>1, <3>3, RowsInReach
    <3> HIDE DEF q
    <3>8. IsParent(q, m_blocks[p[1]][p[2]])
      BY <3>4
    <3> QED
      BY <2>1, <3>5, <3>6, <3>7, <3>8 DEF GetChildrenPointers
  <2>3. ASSUME NEW i \in GetChildrenPointers(b)
        PROVE  GetParent(Row(h + 1)[i]) # 0
    <3>1. /\ ~ (h + 1 > GetBlockchainHeight)
          /\ i \in DOMAIN Row(h + 1)
          /\ IsParent(b, Row(h + 1)[i])
      BY <2>3 DEF GetChildrenPointers
    <3>2. h + 2 \in DOMAIN m_blocks /\ Row(h + 1) = m_blocks[h + 2]
      <4> HIDE DEF h
      <4>1. Row(h + 1) = m_blocks[(h + 1) + 1] /\ (h + 1) + 1 = h + 2
        BY <2>1 DEF Row
      <4>2. h + 2 \in 1 .. Len(m_blocks)
        BY <1>1, <2>1, <3>1, RowsInReach
      <4> QED
        BY <1>1, <4>1, <4>2, RowsInReach
    <3>3. <<h + 2, i>> \in Places
      BY <3>1, <3>2, PlaceParts
    <3>4. Row(h + 1)[i] \in BlockType
      BY <1>1, <3>2, <3>3, StoredBlock
    <3> QED
      BY <1>1, <3>1, <3>4, ChildHasParent
  <2>4. ASSUME NEW i \in GetOrpharnChildrenPointer(b)
        PROVE  GetParent(m_orphans[i]) # 0
    <3>1. i \in DOMAIN m_orphans /\ IsParent(b, m_orphans[i])
      BY <2>4 DEF GetOrpharnChildrenPointer
    <3>2. m_orphans[i] \in BlockType
      BY <1>1, <3>1, ElementOfSeq, LenProperties DEF StoreInv, TypeOK
    <3> QED
      BY <1>1, <3>1, <3>2, ChildHasParent
  <2> QED
    BY <2>2, <2>3, <2>4
<1>2. StoreInv => ParentsAndChildrenAgree
  BY <1>1 DEF ParentsAndChildrenAgree
<1> QED
  BY <1>2, StoreInvariant, PTL

-----------------------------------------------------------------------------
(* The search for an orphan.                                               *)

\* RemoveOrphan stops at an orphan with the block's height and miner, if there
\* is one (blockchain.cc:201-209).
LEMMA OrphanPositionFinds ==
  ASSUME NEW b \in Blocks, TypeOK
  PROVE  /\ OrphanPosition(b) = 0 =>
              \A i \in DOMAIN m_orphans : Key(m_orphans[i]) # Key(b)
         /\ OrphanPosition(b) # 0 =>
              /\ OrphanPosition(b) \in DOMAIN m_orphans
              /\ Key(m_orphans[OrphanPosition(b)]) = Key(b)
<1> DEFINE I == {i \in 1 .. Len(m_orphans) : SameBlock(b, m_orphans[i])}
<1>1. OrphanPosition(b) = IF I # {} THEN Min(I) ELSE 0
  BY DEF OrphanPosition, SelectInSeq
<1>2. DOMAIN m_orphans = 1 .. Len(m_orphans) /\ Len(m_orphans) \in Nat
  BY LenProperties DEF TypeOK
<1>3. \A i \in DOMAIN m_orphans : i \in I <=> Key(m_orphans[i]) = Key(b)
  BY <1>2 DEF SameBlock, Key
<1>4. CASE I = {}
  BY <1>1, <1>3, <1>4
<1>5. CASE I # {}
  <2>1. I \subseteq Nat
    OBVIOUS
  <2>2. Min(I) \in I
    BY <1>5, <2>1, LeastNat
  <2> QED
    BY <1>1, <1>2, <1>3, <1>5, <2>2
<1> QED
  BY <1>4, <1>5

-----------------------------------------------------------------------------
(* Counting the blocks of a vector under a key.                            *)

Under(v, key) == {i \in DOMAIN v : Key(v[i]) = key}

\* A vector has finitely many blocks under a key.
LEMMA UnderFinite ==
  ASSUME NEW v \in Seq(BlockType), NEW key
  PROVE  IsFiniteSet(Under(v, key)) /\ Cardinality(Under(v, key)) \in Nat
<1>1. DOMAIN v = 1 .. Len(v) /\ Len(v) \in Nat
  BY LenProperties
<1>2. IsFiniteSet(1 .. Len(v))
  BY <1>1, FS_Interval
<1>3. Under(v, key) \subseteq 1 .. Len(v)
  BY <1>1 DEF Under
<1> QED
  BY <1>2, <1>3, FS_Subset, FS_CardinalityType

\* push_back adds one under the key of the block, and nothing elsewhere.
LEMMA UnderPushBack ==
  ASSUME NEW v \in Seq(BlockType), NEW b \in BlockType, NEW key
  PROVE  Cardinality(Under(PushBack(v, b), key)) =
           Cardinality(Under(v, key)) + (IF key = Key(b) THEN 1 ELSE 0)
<1> DEFINE n == Len(v) + 1
<1>1. Len(v) \in Nat /\ DOMAIN v = 1 .. Len(v)
  BY LenProperties
<1>2. /\ DOMAIN PushBack(v, b) = 1 .. n
      /\ \A i \in 1 .. Len(v) : PushBack(v, b)[i] = v[i]
      /\ PushBack(v, b)[n] = CopyConstruct(b)
  BY PushBackProperties, LenProperties
<1>3. Key(PushBack(v, b)[n]) = Key(b)
  BY <1>2, CopyConstructKeeps DEF Key
<1>4. n \notin Under(v, key)
  BY <1>1 DEF Under
<1>5. CASE key = Key(b)
  <2>1. Under(PushBack(v, b), key) = Under(v, key) \cup {n}
    BY <1>1, <1>2, <1>3, <1>5 DEF Under
  <2> QED
    BY <1>4, <1>5, <2>1, UnderFinite, FS_AddElement
<1>6. CASE key # Key(b)
  <2>1. Under(PushBack(v, b), key) = Under(v, key)
    BY <1>1, <1>2, <1>3, <1>6 DEF Under
  <2> QED
    BY <1>6, <2>1, UnderFinite
<1> QED
  BY <1>5, <1>6

\* What stands where after an erase, by height and miner.
LEMMA EraseKeys ==
  ASSUME NEW v \in Seq(BlockType), NEW k \in DOMAIN v
  PROVE  /\ DOMAIN Erase(v, k) = 1 .. Len(v) - 1
         /\ \A i \in 1 .. Len(v) - 1 :
              Key(Erase(v, k)[i]) = IF i < k THEN Key(v[i]) ELSE Key(v[i + 1])
<1>1. ASSUME NEW i \in 1 .. Len(v) - 1
      PROVE  Key(CopyAssign(v[i], v[i + 1])) = Key(v[i + 1])
  <2>1. v[i + 1] \in BlockType
    BY LenProperties, ElementOfSeq
  <2> QED
    BY <2>1 DEF CopyAssign, Key, BlockType
<1> QED
  BY <1>1 DEF Erase

\* erase removes one under the key of the block it erases, and nothing
\* elsewhere.
LEMMA UnderErase ==
  ASSUME NEW v \in Seq(BlockType), NEW k \in DOMAIN v, NEW key
  PROVE  Cardinality(Under(Erase(v, k), key)) =
           Cardinality(Under(v, key)) - (IF key = Key(v[k]) THEN 1 ELSE 0)
<1> DEFINE S == Under(Erase(v, k), key)
           T == Under(v, key) \ {k}
           f == [i \in S |-> IF i < k THEN i ELSE i + 1]
<1>1. Len(v) \in Nat /\ DOMAIN v = 1 .. Len(v) /\ k \in 1 .. Len(v)
  BY LenProperties
<1>2. \A i : i \in S <=>
        /\ i \in 1 .. Len(v) - 1
        /\ Key(v[IF i < k THEN i ELSE i + 1]) = key
  BY <1>1, EraseKeys DEF Under
<1>3. \A j : j \in T <=> j \in 1 .. Len(v) /\ j # k /\ Key(v[j]) = key
  BY <1>1 DEF Under
<1>4. f \in [S -> T]
  <2> SUFFICES ASSUME NEW i \in S PROVE (IF i < k THEN i ELSE i + 1) \in T
    OBVIOUS
  <2> QED
    BY <1>1, <1>2, <1>3
<1>5. \A i, j \in S : f[i] = f[j] => i = j
  BY <1>1, <1>2
<1>6. \A j \in T : \E i \in S : f[i] = j
  <2> SUFFICES ASSUME NEW j \in T PROVE \E i \in S : f[i] = j
    OBVIOUS
  <2>1. CASE j < k
    <3>1. j \in S
      BY <1>1, <1>2, <1>3, <2>1
    <3> QED
      BY <2>1, <3>1
  <2>2. CASE ~ j < k
    <3>1. j - 1 \in S /\ ~ j - 1 < k
      BY <1>1, <1>2, <1>3, <2>2
    <3> QED
      BY <1>1, <1>3, <3>1
  <2> QED
    BY <2>1, <2>2
<1>7. IsFiniteSet(S)
  <2>1. v # <<>>
    BY <1>1
  <2> QED
    BY <2>1, EraseType, UnderFinite
<1>8. IsFiniteSet(T) /\ Cardinality(T) =
        IF k \in Under(v, key) THEN Cardinality(Under(v, key)) - 1
                               ELSE Cardinality(Under(v, key))
  BY UnderFinite, FS_RemoveElement
<1>9. Cardinality(S) = Cardinality(T)
  <2> HIDE DEF S, T, f
  <2>1. f \in Surjection(S, T) /\ f \in Injection(S, T)
    BY <1>4, <1>5, <1>6 DEF Surjection, Injection, IsInjective
  <2> QED
    BY <1>7, <2>1, FS_Surjection
<1>10. k \in Under(v, key) <=> key = Key(v[k])
  BY DEF Under
<1> QED
  BY <1>8, <1>9, <1>10, UnderFinite

-----------------------------------------------------------------------------
(* The refinement.                                                         *)

\* The constructor leaves a ledger of the genesis block (blockchain.cc:15-19).
LEMMA InitImplements == Init => Abstract!Init
<1> SUFFICES ASSUME Init PROVE Abstract!Init
  OBVIOUS
<1>1. /\ m_blocks = <<<<CopyConstruct(GenesisBlock)>>>>
      /\ m_orphans = <<>>
      /\ m_totalBlocks = 1
  BY DEF Init, PushBack
<1>2. Key(CopyConstruct(GenesisBlock)) = Key(GenesisBlock)
  BY GenesisBlockType, CopyConstructKeeps DEF Key
<1>3. Places = {<<1, 1>>}
  <2>1. DOMAIN m_blocks = {1} /\ DOMAIN m_blocks[1] = {1}
    BY <1>1
  <2> QED
    BY <2>1 DEF Places
<1>4. StoredKeys = {Key(GenesisBlock)}
  BY <1>1, <1>2, <1>3 DEF StoredKeys
<1>5. Key(GetCurrentTopBlock) = Key(GenesisBlock)
  BY <1>1, <1>2 DEF GetCurrentTopBlock
<1>6. OrphanCount = [key \in Keys |-> 0]
  <2>1. \A key : {i \in DOMAIN m_orphans : Key(m_orphans[i]) = key} = {}
    BY <1>1
  <2> QED
    BY <2>1, FS_EmptySet DEF OrphanCount
<1> QED
  BY <1>1, <1>4, <1>5, <1>6 DEF Abstract!Init

\* The top block after an AddBlock: the new one if it is higher than the old.
LEMMA TopAfterAddBlock ==
  ASSUME StoreInv, NEW b \in Blocks, AddBlock(b)
  PROVE  Key(GetCurrentTopBlock)' =
           IF b.blockHeight > GetBlockchainHeight THEN Key(b) ELSE Key(GetCurrentTopBlock)
<1>1. b \in BlockType /\ b.blockHeight \in Nat
  BY BlocksAssumption DEF BlockType
<1>2. /\ Len(m_blocks) \in Nat
      /\ DOMAIN m_blocks = 1 .. Len(m_blocks)
      /\ Len(m_blocks) \in DOMAIN m_blocks
      /\ GetBlockchainHeight = Len(m_blocks) - 1
      /\ m_blocks[Len(m_blocks)] # <<>>
  BY LenProperties, EmptySeq DEF StoreInv, TypeOK, HeightNamesLastRow
<1>3. CASE b.blockHeight > GetBlockchainHeight
  <2> DEFINE last == b.blockHeight + 1
  <2>1. Len(m_blocks') = last /\ last \in DOMAIN m_blocks'
    BY <1>1, <1>2, <1>3, AddBlockRows
  <2>2. m_blocks'[last] = PushBack(<<>>, b)
    BY <1>1, <1>2, <1>3, <2>1, AddBlockRows DEF OldRow
  <2>3. PushBack(<<>>, b)[1] = CopyConstruct(b)
    BY DEF PushBack
  <2>4. Key(CopyConstruct(b)) = Key(b)
    BY <1>1, CopyConstructKeeps DEF Key
  <2> QED
    BY <1>3, <2>1, <2>2, <2>3, <2>4 DEF GetCurrentTopBlock
<1>4. CASE ~ b.blockHeight > GetBlockchainHeight
  <2>1. Len(m_blocks') = Len(m_blocks)
    BY <1>1, <1>2, <1>4, AddBlockRows
  <2>2. m_blocks[Len(m_blocks)] \in Seq(BlockType)
    BY <1>2, ElementOfSeq DEF StoreInv, TypeOK
  <2>3. 1 \in 1 .. Len(m_blocks[Len(m_blocks)])
    BY <1>2, <2>2, EmptySeq, LenProperties
  <2>4. m_blocks'[Len(m_blocks)][1] = m_blocks[Len(m_blocks)][1]
    BY <1>2, <2>3, AddBlockExtendsRows
  <2> QED
    BY <1>4, <2>1, <2>4 DEF GetCurrentTopBlock
<1> QED
  BY <1>3, <1>4

\* AddBlock is Add.
LEMMA AddBlockImplements ==
  ASSUME StoreInv, NEW b \in Blocks, AddBlock(b)
  PROVE  Abstract!Add(Key(b))
<1>1. StoredKeys' = StoredKeys \cup {Key(b)}
  <2>1. PICK p : /\ Places' = Places \cup {p}
                 /\ m_blocks'[p[1]][p[2]] = CopyConstruct(b)
                 /\ \A q \in Places : m_blocks'[q[1]][q[2]] = m_blocks[q[1]][q[2]]
    BY AddBlockFillsOnePlace
  <2>2. Key(CopyConstruct(b)) = Key(b)
    BY BlocksAssumption, CopyConstructKeeps DEF Key
  <2>3. StoredKeys' = {Key(m_blocks'[q[1]][q[2]]) : q \in Places'}
    BY DEF StoredKeys
  <2>4. \A q \in Places : Key(m_blocks'[q[1]][q[2]]) = Key(m_blocks[q[1]][q[2]])
    BY <2>1
  <2>5. Key(m_blocks'[p[1]][p[2]]) = Key(b)
    BY <2>1, <2>2
  <2> QED
    BY <2>1, <2>3, <2>4, <2>5 DEF StoredKeys
<1>2. m_totalBlocks' = m_totalBlocks + 1 /\ m_orphans' = m_orphans
  BY DEF AddBlock
<1>3. OrphanCount' = OrphanCount
  BY <1>2 DEF OrphanCount
<1>4. /\ Abstract!Height(Key(b)) = b.blockHeight
      /\ Abstract!Height(Key(GetCurrentTopBlock)) = GetBlockchainHeight
  BY DEF Abstract!Height, Key, GetBlockchainHeight
<1> QED
  BY <1>1, <1>2, <1>3, <1>4, TopAfterAddBlock DEF Abstract!Add

\* The orphan calls leave what the ledger knows of the chain alone.
LEMMA ChainUnchanged ==
  ASSUME m_blocks' = m_blocks
  PROVE  StoredKeys' = StoredKeys /\ Key(GetCurrentTopBlock)' = Key(GetCurrentTopBlock)
BY DEF StoredKeys, Places, GetCurrentTopBlock

\* OrphanCount counts the places under each key.
LEMMA OrphanCountUnder ==
  OrphanCount = [key \in Keys |-> Cardinality(Under(m_orphans, key))]
BY DEF OrphanCount, Under

\* AddOrphan is Park.
LEMMA AddOrphanImplements ==
  ASSUME StoreInv, NEW b \in Blocks, AddOrphan(b)
  PROVE  Abstract!Park(Key(b))
<1>1. /\ m_orphans' = PushBack(m_orphans, b)
      /\ m_blocks' = m_blocks /\ m_totalBlocks' = m_totalBlocks
  BY DEF AddOrphan
<1>2. m_orphans \in Seq(BlockType) /\ b \in BlockType
  BY BlocksAssumption DEF StoreInv, TypeOK
<1>3. \A key : Cardinality(Under(m_orphans', key)) =
        Cardinality(Under(m_orphans, key)) + (IF key = Key(b) THEN 1 ELSE 0)
  BY <1>1, <1>2, UnderPushBack
<1>4. \A key : Cardinality(Under(m_orphans, key)) \in Nat
  BY <1>2, UnderFinite
<1>5. OrphanCount' = [key \in Keys |-> Cardinality(Under(m_orphans', key))]
  BY DEF OrphanCount, Under
<1>6. OrphanCount' = [OrphanCount EXCEPT ![Key(b)] = @ + 1]
  BY <1>3, <1>4, <1>5, OrphanCountUnder
<1> QED
  BY <1>1, <1>6, ChainUnchanged DEF Abstract!Park

\* RemoveOrphan is Drop when the orphan is there, and changes nothing when not.
LEMMA RemoveOrphanImplements ==
  ASSUME StoreInv, NEW b \in Blocks, RemoveOrphan(b)
  PROVE  DropsIfParked(b)
<1> DEFINE k == OrphanPosition(b)
<1>1. m_blocks' = m_blocks /\ m_totalBlocks' = m_totalBlocks
  BY DEF RemoveOrphan
<1>2. m_orphans \in Seq(BlockType) /\ b \in BlockType
  BY BlocksAssumption DEF StoreInv, TypeOK
<1>3. CASE k = 0
  <2>1. m_orphans' = m_orphans
    BY <1>3 DEF RemoveOrphan
  <2>2. OrphanCount' = OrphanCount
    BY <2>1 DEF OrphanCount
  <2>3. Under(m_orphans, Key(b)) = {}
    BY <1>3, OrphanPositionFinds DEF Under, StoreInv
  <2>4. OrphanCount[Key(b)] = 0
    <3>1. Key(b) \in Keys
      BY DEF Keys
    <3> QED
      BY <2>3, <3>1, OrphanCountUnder, FS_EmptySet
  <2>5. UNCHANGED Abstract!vars
    BY <1>1, <2>2, ChainUnchanged DEF Abstract!vars
  <2> QED
    BY <2>4, <2>5 DEF DropsIfParked
<1>4. CASE k # 0
  <2>1. m_orphans' = Erase(m_orphans, k)
    BY <1>4 DEF RemoveOrphan
  <2>2. k \in DOMAIN m_orphans /\ Key(m_orphans[k]) = Key(b)
    BY <1>4, OrphanPositionFinds DEF StoreInv
  <2> HIDE DEF k
  <2>3. \A key : Cardinality(Under(m_orphans', key)) =
          Cardinality(Under(m_orphans, key)) - (IF key = Key(b) THEN 1 ELSE 0)
    BY <1>2, <2>1, <2>2, UnderErase
  <2>4. \A key : Cardinality(Under(m_orphans, key)) \in Nat
    BY <1>2, UnderFinite
  <2>5. Cardinality(Under(m_orphans, Key(b))) > 0
    <3>1. k \in Under(m_orphans, Key(b))
      BY <2>2 DEF Under
    <3> QED
      BY <1>2, <2>4, <3>1, UnderFinite, FS_EmptySet
  <2>6. OrphanCount' = [key \in Keys |-> Cardinality(Under(m_orphans', key))]
    BY DEF OrphanCount, Under
  <2>7. Key(b) \in Keys
    BY DEF Keys
  <2>8. OrphanCount[Key(b)] > 0
    BY <2>5, <2>7, OrphanCountUnder
  <2>9. OrphanCount' = [OrphanCount EXCEPT ![Key(b)] = @ - 1]
    BY <2>3, <2>4, <2>6, OrphanCountUnder
  <2>10. Abstract!Drop(Key(b))
    BY <1>1, <2>8, <2>9, ChainUnchanged DEF Abstract!Drop
  <2> QED
    BY <2>8, <2>10 DEF DropsIfParked
<1> QED
  BY <1>3, <1>4

\* Every behaviour of the block store is one of the Ledger
\* (blockchain.cc:169-212).
THEOREM StoreImplementsLedger == Spec => ImplementsLedger
<1>1. ASSUME StoreInv, [Next]_vars
      PROVE  [Abstract!Next]_(Abstract!vars)
  <2>1. ASSUME NEW b \in Blocks PROVE Key(b) \in Keys
    BY DEF Keys
  <2>2. ASSUME NEW b \in Blocks, AddBlock(b) \/ AddOrphan(b) \/ RemoveOrphan(b)
        PROVE  [Abstract!Next]_(Abstract!vars)
    BY <1>1, <2>1, <2>2, AddBlockImplements, AddOrphanImplements, RemoveOrphanImplements
       DEF Abstract!Next, DropsIfParked
  <2>3. CASE UNCHANGED vars
    <3>1. m_blocks' = m_blocks /\ m_orphans' = m_orphans /\ m_totalBlocks' = m_totalBlocks
      BY <2>3 DEF vars
    <3>2. OrphanCount' = OrphanCount
      BY <3>1 DEF OrphanCount
    <3> QED
      BY <3>1, <3>2, ChainUnchanged DEF Abstract!vars
  <2> QED
    BY <1>1, <2>2, <2>3 DEF Next
<1> QED
  BY <1>1, InitStoreInv, NextStoreInv, InitImplements, PTL
     DEF Spec, ImplementsLedger, Abstract!Spec

\* Each call is the Ledger's action on the key of its own block
\* (blockchain.cc:169-212).
THEOREM EachCallActsOnItsKeyInSpec == Spec => EachCallActsOnItsKey
<1>1. ASSUME StoreInv
      PROVE  \A b \in Blocks :
               /\ AddBlock(b) => Abstract!Add(Key(b))
               /\ AddOrphan(b) => Abstract!Park(Key(b))
               /\ RemoveOrphan(b) => DropsIfParked(b)
  BY <1>1, AddBlockImplements, AddOrphanImplements, RemoveOrphanImplements
<1> QED
  BY <1>1, StoreInvariant, PTL DEF EachCallActsOnItsKey

-----------------------------------------------------------------------------
(* A caller of the store.                                                  *)

\* What is at the place a pointer into the chain was taken for.
PointerInv ==
  held.into = "row" =>
    /\ held.row \in DOMAIN m_blocks
    /\ held.index \in DOMAIN m_blocks[held.row]
    /\ m_blocks[held.row][held.index] = held.block

\* The buffer it leads into is the row's, or the row has outgrown it.
BufferInv ==
  held.into = "row" =>
    /\ held.capacity \in Nat
    /\ rowCapacity[held.row] # held.capacity => Len(m_blocks[held.row]) > held.capacity

\* A block of the caller, whose integers nobody may have set.
CallerBlock ==
  [blockHeight: Int \cup Indefinite, minerId: Int \cup Indefinite,
   parentBlockMinerId: Int \cup Indefinite, transactions: Seq(TransactionType),
   totalTransactions: Int \cup Indefinite]

ReaderInv ==
  /\ StoreInv
  /\ ReaderTypeOK
  /\ PointerInv
  /\ BufferInv
  /\ local \in CallerBlock
  /\ ReturnedTransactionsAreStored

\* The position GetBlockPointer returns is that of a block of the height and
\* miner it was asked for (blockchain.cc:98-105).
LEMMA PointerFinds ==
  ASSUME StoreInv, NEW height \in Nat, NEW minerId, height <= GetBlockchainHeight,
         GetBlockPointer(height, minerId) # 0
  PROVE  LET i == GetBlockPointer(height, minerId) IN
         /\ height + 1 \in DOMAIN m_blocks
         /\ i \in DOMAIN Row(height)
         /\ Row(height)[i] \in BlockType
         /\ Row(height)[i].blockHeight = height
         /\ Row(height)[i].minerId = minerId
<1> DEFINE row == Row(height)
           I == {i \in 1 .. Len(row) : row[i].blockHeight = height /\ row[i].minerId = minerId}
<1>1. height + 1 \in DOMAIN m_blocks
  BY RowsInReach
<1>2. row \in Seq(BlockType) /\ DOMAIN row = 1 .. Len(row)
  BY <1>1, RowsInReach DEF Row
<1>3. GetBlockPointer(height, minerId) = IF I # {} THEN Min(I) ELSE 0
  BY DEF GetBlockPointer, SelectInSeq
<1>4. I \subseteq Nat \ {0}
  OBVIOUS
<1>5. GetBlockPointer(height, minerId) \in I
  <2> HIDE DEF I
  <2> QED
    BY <1>3, <1>4, FirstPosition
<1>6. GetBlockPointer(height, minerId) \in 1 .. Len(row)
  BY <1>5
<1>7. row[GetBlockPointer(height, minerId)] \in BlockType
  BY <1>2, <1>6, ElementOfSeq
<1> QED
  BY <1>1, <1>2, <1>5, <1>6, <1>7

-----------------------------------------------------------------------------
(* Pointers.                                                               *)

\* Whatever the store does, a row keeps what it holds where it holds it
\* (blockchain.cc:169-190).
LEMMA StoreKeepsPointers ==
  ASSUME StoreInv, PointerInv, Next, held' = held
  PROVE  PointerInv'
<1> SUFFICES ASSUME held.into = "row"
             PROVE  /\ held.row \in DOMAIN m_blocks'
                    /\ held.index \in DOMAIN m_blocks'[held.row]
                    /\ m_blocks'[held.row][held.index] = held.block
  BY DEF PointerInv
<1>1. /\ held.row \in DOMAIN m_blocks
      /\ held.index \in DOMAIN m_blocks[held.row]
      /\ m_blocks[held.row][held.index] = held.block
  BY DEF PointerInv
<1>2. ASSUME NEW b \in Blocks, AddBlock(b)
      PROVE  /\ held.row \in DOMAIN m_blocks'
             /\ held.index \in DOMAIN m_blocks'[held.row]
             /\ m_blocks'[held.row][held.index] = held.block
  <2> DEFINE r == held.row
             i == held.index
  <2>1. /\ r \in DOMAIN m_blocks'
        /\ m_blocks[r] \in Seq(BlockType)
        /\ m_blocks'[r] \in Seq(BlockType)
        /\ Len(m_blocks[r]) <= Len(m_blocks'[r])
        /\ \A k \in 1 .. Len(m_blocks[r]) : m_blocks'[r][k] = m_blocks[r][k]
    BY <1>1, <1>2, AddBlockExtendsRows
  <2>2. /\ DOMAIN m_blocks[r] = 1 .. Len(m_blocks[r]) /\ Len(m_blocks[r]) \in Nat
        /\ DOMAIN m_blocks'[r] = 1 .. Len(m_blocks'[r]) /\ Len(m_blocks'[r]) \in Nat
    BY <2>1, LenProperties
  <2>3. i \in 1 .. Len(m_blocks[r])
    BY <1>1, <2>2
  <2>4. i \in 1 .. Len(m_blocks'[r])
    BY <2>1, <2>2, <2>3
  <2> QED
    BY <1>1, <2>1, <2>2, <2>3, <2>4
<1>3. CASE m_blocks' = m_blocks
  BY <1>1, <1>3
<1> QED
  BY <1>2, <1>3 DEF Next, AddOrphan, RemoveOrphan

\* A pointer that is taken leads to the block it is taken for
\* (blockchain.cc:98-105, 129-142).
LEMMA TakenPointerInv ==
  ASSUME StoreInv, NEW b \in Blocks, HoldBlock(b) \/ HoldOrphan(b)
  PROVE  PointerInv'
<1>1. m_blocks' = m_blocks
  BY DEF HoldBlock, HoldOrphan, vars
<1>2. b.blockHeight \in Nat
  BY BlocksAssumption DEF BlockType
<1>3. CASE HoldBlock(b)
  <2> DEFINE h == b.blockHeight
             i == GetBlockPointer(h, b.minerId)
  <2>1. h <= GetBlockchainHeight
    BY <1>3 DEF HoldBlock
  <2>2. CASE i = 0
    BY <1>3, <2>2 DEF HoldBlock, NoPointer, PointerInv
  <2>3. CASE i # 0
    <3>1. /\ h + 1 \in DOMAIN m_blocks
          /\ i \in DOMAIN m_blocks[h + 1]
      BY <1>2, <2>1, <2>3, PointerFinds DEF Row
    <3>2. held' = PointerTo(h + 1, i) /\ h + 1 # 0
      BY <1>2, <1>3, <2>3 DEF HoldBlock
    <3>3. held'.row = h + 1 /\ held'.index = i /\ held'.block = m_blocks[h + 1][i]
      BY <3>2 DEF PointerTo
    <3> QED
      BY <1>1, <3>1, <3>3 DEF PointerInv
  <2> QED
    BY <2>2, <2>3
<1>4. CASE HoldOrphan(b)
  <2>1. PICK i \in GetOrpharnChildrenPointer(b) : held' = PointerTo(0, i)
    BY <1>4 DEF HoldOrphan
  <2>2. held'.into = "orphans"
    BY <2>1 DEF PointerTo
  <2> QED
    BY <2>2 DEF PointerInv
<1> QED
  BY <1>3, <1>4

-----------------------------------------------------------------------------
(* Buffers.                                                                *)

\* A vector that grows by one element at most has room for it, and keeps its
\* buffer as long as that has.
LEMMA GrownHasRoom ==
  ASSUME NEW capacity \in Nat, NEW length \in Nat, length <= capacity + 1
  PROVE  /\ Grown(capacity, length) \in Nat
         /\ length <= Grown(capacity, length)
         /\ length <= capacity => Grown(capacity, length) = capacity
BY DEF Grown

\* No call of the store makes a row longer by more than one block, and none makes a row
\* shorter (blockchain.cc:169-212).
LEMMA RowsGrowByOne ==
  ASSUME StoreInv, Next, NEW r \in DOMAIN m_blocks'
  PROVE  /\ Len(m_blocks'[r]) \in Nat
         /\ r \in DOMAIN m_blocks => Len(m_blocks[r]) \in Nat
         /\ r \in DOMAIN m_blocks => Len(m_blocks[r]) <= Len(m_blocks'[r])
         /\ r \in DOMAIN m_blocks => Len(m_blocks'[r]) <= Len(m_blocks[r]) + 1
         /\ r \notin DOMAIN m_blocks => Len(m_blocks'[r]) <= 1
<1>1. ASSUME NEW q \in DOMAIN m_blocks
      PROVE  m_blocks[q] \in Seq(BlockType) /\ Len(m_blocks[q]) \in Nat
  BY ElementOfSeq, LenProperties DEF StoreInv, TypeOK
<1>2. ASSUME NEW b \in Blocks, AddBlock(b)
      PROVE  Len(m_blocks'[r]) \in {Len(OldRow(r)), Len(OldRow(r)) + 1}
  <2>1. b \in BlockType
    BY BlocksAssumption
  <2>2. OldRow(r) \in Seq(BlockType)
    BY <1>1, EmptySeq DEF OldRow
  <2>3. m_blocks'[r] = IF r = b.blockHeight + 1 THEN PushBack(OldRow(r), b) ELSE OldRow(r)
    BY <1>2, AddBlockRows
  <2>4. Len(PushBack(OldRow(r), b)) = Len(OldRow(r)) + 1
    BY <2>1, <2>2, PushBackProperties
  <2> QED
    BY <2>3, <2>4
<1>3. Len(<<>>) = 0
  BY EmptySeq
<1>4. CASE m_blocks' = m_blocks
  BY <1>1, <1>4
<1>5. CASE \E b \in Blocks : AddBlock(b)
  <2>1. PICK b \in Blocks : AddBlock(b)
    BY <1>5
  <2>2. Len(m_blocks'[r]) \in {Len(OldRow(r)), Len(OldRow(r)) + 1}
    BY <1>2, <2>1
  <2>3. CASE r \in DOMAIN m_blocks
    <3>1. OldRow(r) = m_blocks[r] /\ Len(m_blocks[r]) \in Nat
      BY <1>1, <2>3 DEF OldRow
    <3>2. Len(m_blocks'[r]) \in {Len(m_blocks[r]), Len(m_blocks[r]) + 1}
      BY <2>2, <3>1
    <3>3. \A m, n \in Nat : n \in {m, m + 1} => m <= n /\ n <= m + 1
      OBVIOUS
    <3>4. Len(m_blocks'[r]) \in Nat
      BY <3>1, <3>2
    <3> QED
      BY <2>3, <3>1, <3>2, <3>3, <3>4
  <2>4. CASE r \notin DOMAIN m_blocks
    <3>1. Len(OldRow(r)) = 0
      BY <1>3, <2>4 DEF OldRow
    <3>2. Len(m_blocks'[r]) \in {0, 0 + 1}
      BY <2>2, <3>1
    <3>3. Len(m_blocks'[r]) = 0 \/ Len(m_blocks'[r]) = 1
      BY <3>2
    <3>4. \A n : n = 0 \/ n = 1 => n \in Nat /\ n <= 1
      OBVIOUS
    <3>5. Len(m_blocks'[r]) \in Nat /\ Len(m_blocks'[r]) <= 1
      BY <3>3, <3>4, Zenon
    <3> QED
      BY <2>4, <3>5, Zenon
  <2> QED
    BY <2>3, <2>4
<1> QED
  BY <1>4, <1>5 DEF Next, AddOrphan, RemoveOrphan

\* Nor the list of orphans.
LEMMA OrphansGrowByOne ==
  ASSUME StoreInv, Next
  PROVE  /\ Len(m_orphans) \in Nat
         /\ Len(m_orphans') \in Nat
         /\ Len(m_orphans') <= Len(m_orphans) + 1
<1>1. m_orphans \in Seq(BlockType) /\ Len(m_orphans) \in Nat /\ TypeOK
  BY LenProperties DEF StoreInv, TypeOK
<1>2. ASSUME NEW b \in Blocks, AddOrphan(b)
      PROVE  Len(m_orphans') = Len(m_orphans) + 1
  BY <1>1, <1>2, BlocksAssumption, PushBackProperties DEF AddOrphan
<1>3. ASSUME NEW b \in Blocks, RemoveOrphan(b), OrphanPosition(b) # 0
      PROVE  Len(m_orphans') = Len(m_orphans) - 1 /\ Len(m_orphans) # 0
  <2>1. OrphanPosition(b) \in 1 .. Len(m_orphans)
    BY <1>1, <1>3, OrphanPositionFinds, LenProperties
  <2>2. m_orphans # <<>>
    BY <2>1, EmptySeq
  <2>3. Len(Erase(m_orphans, OrphanPosition(b))) = Len(m_orphans) - 1
    BY <1>1, <2>2, EraseType
  <2> QED
    BY <1>1, <1>3, <2>1, <2>3 DEF RemoveOrphan
<1>4. ASSUME m_orphans' = m_orphans
      PROVE  Len(m_orphans') = Len(m_orphans)
  BY <1>4
<1> QED
  BY <1>1, <1>2, <1>3, <1>4 DEF Next, AddBlock, RemoveOrphan

\* Every buffer has room for what its vector holds after a call that changes the
\* store, and the caller is where it was.
LEMMA StoreKeepsRoom ==
  ASSUME ReaderInv, StoreStep
  PROVE  ReaderTypeOK'
<1>1. StoreInv /\ Next /\ ReaderTypeOK
  BY DEF ReaderInv, StoreStep
<1>2. TypeOK'
  BY <1>1, NextStoreInv DEF StoreInv
<1>3. DOMAIN rowCapacity' = DOMAIN m_blocks'
  BY DEF StoreStep
<1>4. ASSUME NEW r \in DOMAIN m_blocks'
      PROVE  rowCapacity'[r] \in Nat /\ Len(m_blocks'[r]) <= rowCapacity'[r]
  <2> DEFINE c == IF r \in DOMAIN m_blocks THEN rowCapacity[r] ELSE 0
             n == Len(m_blocks'[r])
  <2>1. rowCapacity'[r] = Grown(c, n)
    BY DEF StoreStep
  <2>2. c \in Nat /\ n \in Nat /\ n <= c + 1
    <3>1. /\ n \in Nat
          /\ r \in DOMAIN m_blocks => Len(m_blocks[r]) \in Nat
          /\ r \in DOMAIN m_blocks => n <= Len(m_blocks[r]) + 1
          /\ r \notin DOMAIN m_blocks => n <= 1
      BY <1>1, <1>4, RowsGrowByOne
    <3> HIDE DEF n
    <3>2. r \in DOMAIN m_blocks => rowCapacity[r] \in Nat /\ Len(m_blocks[r]) <= rowCapacity[r]
      BY <1>1 DEF ReaderTypeOK
    <3> QED
      BY <3>1, <3>2
  <2> HIDE DEF c, n
  <2>3. Grown(c, n) \in Nat /\ n <= Grown(c, n)
    BY <2>2, GrownHasRoom
  <2> QED
    BY <2>1, <2>3 DEF n
<1>5. orphansCapacity' \in Nat /\ Len(m_orphans') <= orphansCapacity'
  <2>1. orphansCapacity' = Grown(orphansCapacity, Len(m_orphans'))
    BY DEF StoreStep
  <2>2. /\ orphansCapacity \in Nat /\ Len(m_orphans') \in Nat
        /\ Len(m_orphans') <= orphansCapacity + 1
    BY <1>1, OrphansGrowByOne DEF ReaderTypeOK
  <2> QED
    BY <2>1, <2>2, GrownHasRoom
<1>6. local' = local /\ held' = held
  BY DEF StoreStep
<1> QED
  BY <1>1, <1>2, <1>3, <1>4, <1>5, <1>6 DEF ReaderTypeOK

\* A row leaves its buffer only when it has outgrown it, and never shrinks
\* (blockchain.cc:169-190).
LEMMA StoreKeepsBuffers ==
  ASSUME ReaderInv, StoreStep
  PROVE  BufferInv'
<1> DEFINE r == held.row
           c == rowCapacity[r]
           n == Len(m_blocks'[r])
<1>1. StoreInv /\ Next /\ ReaderTypeOK /\ PointerInv /\ BufferInv /\ held' = held
  BY DEF ReaderInv, StoreStep
<1> SUFFICES ASSUME held.into = "row"
             PROVE  /\ held.capacity \in Nat
                    /\ rowCapacity'[r] # held.capacity => n > held.capacity
  BY <1>1 DEF BufferInv
<1>2. /\ held.capacity \in Nat
      /\ c # held.capacity => Len(m_blocks[r]) > held.capacity
      /\ r \in DOMAIN m_blocks
  BY <1>1 DEF BufferInv, PointerInv
<1>3. r \in DOMAIN m_blocks'
  BY <1>1, StoreKeepsPointers DEF PointerInv
<1>4. /\ n \in Nat /\ Len(m_blocks[r]) \in Nat
      /\ Len(m_blocks[r]) <= n /\ n <= Len(m_blocks[r]) + 1
  BY <1>1, <1>2, <1>3, RowsGrowByOne
<1>5. c \in Nat /\ Len(m_blocks[r]) <= c
  BY <1>1, <1>2 DEF ReaderTypeOK
<1>6. rowCapacity'[r] = Grown(c, n)
  BY <1>2, <1>3 DEF StoreStep
<1> HIDE DEF r, c, n
<1>7. n <= c + 1
  BY <1>4, <1>5
<1>8. n <= c => Grown(c, n) = c
  BY <1>4, <1>5, <1>7, GrownHasRoom
<1> QED
  BY <1>2, <1>4, <1>5, <1>6, <1>8

\* A pointer that is taken leads into the buffer its row has then.
LEMMA TakenBufferInv ==
  ASSUME ReaderInv, NEW b \in Blocks, HoldBlock(b) \/ HoldOrphan(b)
  PROVE  BufferInv' /\ held'.into \in {"none", "row", "orphans"}
<1>1. /\ StoreInv /\ ReaderTypeOK
      /\ m_blocks' = m_blocks /\ rowCapacity' = rowCapacity
  BY DEF ReaderInv, HoldBlock, HoldOrphan, vars, capacities
<1>2. b.blockHeight \in Nat
  BY BlocksAssumption DEF BlockType
<1>3. CASE HoldBlock(b)
  <2> DEFINE h == b.blockHeight
             i == GetBlockPointer(h, b.minerId)
  <2>1. h <= GetBlockchainHeight
    BY <1>3 DEF HoldBlock
  <2>2. CASE i = 0
    BY <1>3, <2>2 DEF HoldBlock, NoPointer, BufferInv
  <2>3. CASE i # 0
    <3>1. h + 1 \in DOMAIN m_blocks
      BY <1>1, <1>2, <2>1, <2>3, PointerFinds
    <3>2. held' = PointerTo(h + 1, i) /\ h + 1 # 0
      BY <1>2, <1>3, <2>3 DEF HoldBlock
    <3>3. held'.into = "row" /\ held'.row = h + 1 /\ held'.capacity = rowCapacity[h + 1]
      BY <3>2 DEF PointerTo
    <3> QED
      BY <1>1, <3>1, <3>3 DEF BufferInv, ReaderTypeOK
  <2> QED
    BY <2>2, <2>3
<1>4. CASE HoldOrphan(b)
  <2>1. PICK i \in GetOrpharnChildrenPointer(b) : held' = PointerTo(0, i)
    BY <1>4 DEF HoldOrphan
  <2>2. held'.into = "orphans"
    BY <2>1 DEF PointerTo
  <2> QED
    BY <2>2 DEF BufferInv
<1> QED
  BY <1>3, <1>4

\* What ReturnBlock and the setters leave is a block of the caller's
\* (blockchain.cc:58-78, block.cc:35-80).
LEMMA CallersBlock ==
  ASSUME ReaderInv,
         (\E key \in Asked : AskBlock(key)) \/ (\E b \in Headers : SetHeader(b))
  PROVE  local' \in CallerBlock
<1>1. UnsetBlock \subseteq CallerBlock
  <2>1. <<>> \in Seq(TransactionType)
    BY EmptySeq
  <2> QED
    BY <2>1 DEF UnsetBlock, CallerBlock
<1>2. ASSUME NEW key \in Asked, AskBlock(key)
      PROVE  local' \in CallerBlock
  <2> DEFINE h == key[1]
             i == GetBlockPointer(key[1], key[2])
  <2>1. h \in Int /\ key[2] \in Int /\ local' \in ReturnBlock(h, key[2])
    BY <1>2, ReaderAssumption DEF AskBlock
  <2>2. CASE InRows(h)
    <3>1. h \in Nat /\ h <= GetBlockchainHeight /\ local' \in FromRow(h, key[2])
      BY <2>1, <2>2 DEF InRows, ReturnBlock
    <3>2. CASE i = 0
      BY <1>1, <3>1, <3>2 DEF FromRow
    <3>3. CASE i # 0
      <4>1. Row(h)[i] \in BlockType
        BY <3>1, <3>3, PointerFinds DEF ReaderInv
      <4>2. local' = CopyConstruct(Row(h)[i])
        BY <3>1, <3>3 DEF FromRow
      <4>3. local' \in BlockType
        BY <4>1, <4>2, CopyConstructKeeps
      <4> QED
        BY <4>3 DEF BlockType, CallerBlock
    <3> QED
      BY <3>2, <3>3
  <2>3. CASE ~ InRows(h)
    <3>1. local' \in OutsideRows(h, key[2])
      BY <2>1, <2>3 DEF ReturnBlock
    <3>2. CASE local' \in UnsetBlock
      BY <1>1, <3>2
    <3>3. CASE \E b \in UnsetBlock :
                 local' = [b EXCEPT !.blockHeight = h, !.minerId = key[2], !.totalTransactions = 0]
      <4>1. PICK b \in UnsetBlock :
              local' = [b EXCEPT !.blockHeight = h, !.minerId = key[2], !.totalTransactions = 0]
        BY <3>3
      <4>2. b \in CallerBlock
        BY <1>1
      <4> DEFINE c == [b EXCEPT !.blockHeight = h]
                 d == [c EXCEPT !.minerId = key[2]]
      <4>3. c \in CallerBlock
        BY <2>1, <4>2 DEF CallerBlock
      <4> HIDE DEF c
      <4>4. d \in CallerBlock
        BY <2>1, <4>3 DEF CallerBlock
      <4> HIDE DEF d
      <4>5. [d EXCEPT !.totalTransactions = 0] \in CallerBlock
        BY <4>4 DEF CallerBlock
      <4> QED
        BY <4>1, <4>5 DEF c, d
    <3>4. \/ local' \in UnsetBlock
          \/ local' \in {[b EXCEPT !.blockHeight = h, !.minerId = key[2], !.totalTransactions = 0] :
                           b \in UnsetBlock}
      BY <3>1 DEF OutsideRows
    <3> QED
      BY <3>2, <3>3, <3>4, Zenon
  <2> QED
    BY <2>2, <2>3
<1>3. ASSUME NEW b \in Headers, SetHeader(b)
      PROVE  local' \in CallerBlock
  <2>1. b \in BlockType /\ local \in CallerBlock
    BY ReaderAssumption DEF ReaderInv
  <2>2. /\ b.blockHeight \in Int /\ b.minerId \in Int /\ b.parentBlockMinerId \in Int
        /\ b.transactions \in Seq(TransactionType)
    BY <2>1 DEF BlockType
  <2> QED
    BY <1>3, <2>1, <2>2 DEF SetHeader, CallerBlock
<1> QED
  BY <1>2, <1>3

-----------------------------------------------------------------------------
(* ReturnBlock.                                                            *)

\* What a lookup returns depends on the rows only.
LEMMA SameAnswers ==
  ASSUME m_blocks' = m_blocks
  PROVE  /\ StoredKeys' = StoredKeys
         /\ \A height, minerId :
              /\ Row(height)' = Row(height)
              /\ GetBlockPointer(height, minerId)' = GetBlockPointer(height, minerId)
<1>1. StoredKeys' = StoredKeys
  BY DEF StoredKeys, Places
<1>2. ASSUME NEW height, NEW minerId
      PROVE  /\ Row(height)' = Row(height)
             /\ GetBlockPointer(height, minerId)' = GetBlockPointer(height, minerId)
  BY DEF Row, GetBlockPointer, SelectInSeq
<1> QED
  BY <1>1, <1>2

\* Nothing is made up for a height of the chain (blockchain.cc:58-78).
LEMMA AskedBlockIsStored ==
  ASSUME StoreInv, NEW key \in Int \X Int, AskBlock(key)
  PROVE  ReturnedTransactionsAreStored'
<1> DEFINE h == key[1]
           i == GetBlockPointer(key[1], key[2])
<1>1. /\ m_blocks' = m_blocks
      /\ local' \in ReturnBlock(key[1], key[2])
      /\ lastCall' = [call |-> "ReturnBlock", key |-> key, inRows |-> InRows(key[1])]
  BY DEF AskBlock, vars
<1>2. lastCall'.key = key /\ lastCall'.inRows = InRows(h)
  BY <1>1, Zenon
<1>3. /\ StoredKeys' = StoredKeys
      /\ Row(h)' = Row(h)
      /\ GetBlockPointer(h, key[2])' = GetBlockPointer(h, key[2])
  BY <1>1, SameAnswers
<1> SUFFICES ASSUME InRows(h)
             PROVE  IF key \in StoredKeys
                    THEN /\ Key(local') = key
                         /\ local'.totalTransactions = 0
                         /\ local'.transactions = Row(h)[i].transactions
                    ELSE local'.transactions = <<>>
  BY <1>2, <1>3 DEF ReturnedTransactionsAreStored
<1>4. /\ h \in Nat /\ h <= GetBlockchainHeight /\ key = <<h, key[2]>>
      /\ local' \in FromRow(h, key[2])
  BY <1>1 DEF InRows, ReturnBlock
<1>5. HasBlock(h, key[2]) <=> key \in StoredKeys
  BY <1>4, HasBlockIffStored
<1>6. CASE i = 0
  <2>1. key \notin StoredKeys
    BY <1>4, <1>5, <1>6, PointerIfStored
  <2>2. local' \in UnsetBlock
    BY <1>4, <1>6 DEF FromRow
  <2> QED
    BY <2>1, <2>2 DEF UnsetBlock
<1>7. CASE i # 0
  <2>1. /\ i \in DOMAIN Row(h)
        /\ Row(h)[i] \in BlockType
        /\ Row(h)[i].blockHeight = h
        /\ Row(h)[i].minerId = key[2]
    BY <1>4, <1>7, PointerFinds
  <2>2. key \in StoredKeys
    BY <1>4, <1>5, <2>1 DEF HasBlock
  <2>3. local' = CopyConstruct(Row(h)[i])
    BY <1>4, <1>7 DEF FromRow
  <2> HIDE DEF i
  <2>4. /\ local'.blockHeight = h /\ local'.minerId = key[2]
        /\ local'.totalTransactions = 0
        /\ local'.transactions = Row(h)[i].transactions
    BY <2>1, <2>3 DEF CopyConstruct, BlockType
  <2> QED
    BY <1>4, <2>2, <2>4 DEF Key, i
<1> QED
  BY <1>6, <1>7

-----------------------------------------------------------------------------
(* Every step.                                                             *)

\* A caller that has asked for nothing.
LEMMA InitReaderInv == ReaderInit => ReaderInv
<1> SUFFICES ASSUME ReaderInit
             PROVE  ReaderInv
  OBVIOUS
<1>1. StoreInv
  BY InitStoreInv DEF ReaderInit
<1>2. held = NoPointer /\ held.into = "none"
  BY DEF ReaderInit, NoPointer
<1>3. local = GenesisBlock /\ local \in BlockType
  BY GenesisBlockType DEF ReaderInit
<1>4. local \in CallerBlock /\ local.transactions \in Seq(TransactionType)
  BY <1>3 DEF BlockType, CallerBlock
<1>5. m_blocks = <<PushBack(<<>>, GenesisBlock)>> /\ m_orphans = <<>>
  BY DEF ReaderInit, Init
<1>6. DOMAIN m_blocks = {1} /\ Len(m_blocks[1]) = 1 /\ Len(m_orphans) = 0
  BY <1>5 DEF PushBack
<1>7. DOMAIN rowCapacity = {1} /\ rowCapacity[1] = 1 /\ orphansCapacity = 0
  BY DEF ReaderInit
<1>8. ReaderTypeOK
  <2>1. TypeOK /\ DOMAIN rowCapacity = DOMAIN m_blocks
    BY <1>1, <1>6, <1>7 DEF StoreInv
  <2>2. \A r \in DOMAIN m_blocks : rowCapacity[r] \in Nat /\ Len(m_blocks[r]) <= rowCapacity[r]
    <3>1. ASSUME NEW r \in DOMAIN m_blocks
          PROVE  rowCapacity[r] \in Nat /\ Len(m_blocks[r]) <= rowCapacity[r]
      <4>1. r = 1
        BY <1>6, <3>1
      <4> QED
        BY <1>6, <1>7, <4>1
    <3> QED
      BY <3>1
  <2>3. orphansCapacity \in Nat /\ Len(m_orphans) <= orphansCapacity
    BY <1>6, <1>7
  <2> QED
    BY <1>2, <1>4, <2>1, <2>2, <2>3 DEF ReaderTypeOK
<1> QED
  BY <1>1, <1>2, <1>4, <1>8 DEF ReaderInit, ReaderInv, PointerInv, BufferInv,
                                ReturnedTransactionsAreStored

\* Every step keeps the invariant.
LEMMA NextReaderInv ==
  ASSUME ReaderInv, [ReaderNext]_readerVars
  PROVE  ReaderInv'
<1>1. StoreInv' /\ TypeOK'
  <2>1. [Next]_vars
    BY DEF ReaderNext, readerVars, StoreStep, HoldBlock, HoldOrphan, SetHeader, AskBlock,
           EndOutsideRows
  <2> QED
    BY <2>1, NextStoreInv DEF ReaderInv, StoreInv
<1>2. CASE StoreStep
  <2>1. PointerInv'
    BY <1>2, StoreKeepsPointers DEF ReaderInv, StoreStep
  <2>2. lastCall'.call = "Blockchain" /\ local' = local
    BY <1>2 DEF StoreStep
  <2>3. ReturnedTransactionsAreStored'
    BY <2>2 DEF ReturnedTransactionsAreStored
  <2>4. ReaderTypeOK' /\ BufferInv'
    BY <1>2, StoreKeepsRoom, StoreKeepsBuffers
  <2> QED
    BY <1>1, <2>1, <2>2, <2>3, <2>4 DEF ReaderInv, CallerBlock
<1>3. ASSUME UNCHANGED <<vars, capacities>>, local' \in CallerBlock,
             held'.into \in {"none", "row", "orphans"}
      PROVE  ReaderTypeOK'
  <2>1. UNCHANGED <<m_blocks, m_orphans, rowCapacity, orphansCapacity>>
    BY <1>3 DEF vars, capacities
  <2>2. local'.transactions \in Seq(TransactionType)
    BY <1>3 DEF CallerBlock
  <2> QED
    BY <1>1, <1>3, <2>1, <2>2 DEF ReaderInv, ReaderTypeOK
<1>4. ASSUME NEW b \in Blocks, HoldBlock(b) \/ HoldOrphan(b)
      PROVE  ReaderInv'
  <2>1. PointerInv'
    BY <1>4, TakenPointerInv DEF ReaderInv
  <2>2. UNCHANGED <<m_blocks, local, lastCall>> /\ UNCHANGED <<vars, capacities>>
    BY <1>4 DEF HoldBlock, HoldOrphan, vars
  <2>3. ReturnedTransactionsAreStored'
    BY <2>2, SameAnswers DEF ReaderInv, ReturnedTransactionsAreStored
  <2>4. BufferInv' /\ held'.into \in {"none", "row", "orphans"}
    BY <1>4, TakenBufferInv
  <2>5. local' \in CallerBlock
    BY <2>2 DEF ReaderInv
  <2>6. ReaderTypeOK'
    BY <1>3, <2>2, <2>4, <2>5
  <2> QED
    BY <1>1, <2>1, <2>3, <2>4, <2>5, <2>6 DEF ReaderInv, CallerBlock
<1>5. ASSUME (\E key \in Asked : AskBlock(key)) \/ (\E b \in Headers : SetHeader(b)),
             ReturnedTransactionsAreStored'
      PROVE  ReaderInv'
  <2>1. held' = held /\ UNCHANGED <<vars, capacities>>
    BY <1>5 DEF AskBlock, SetHeader
  <2>2. UNCHANGED <<m_blocks, rowCapacity>>
    BY <2>1 DEF vars, capacities
  <2>3. local' \in CallerBlock
    BY <1>5, CallersBlock
  <2>4. ReaderTypeOK'
    BY <1>3, <2>1, <2>3 DEF ReaderInv, ReaderTypeOK
  <2>5. PointerInv' /\ BufferInv'
    BY <2>1, <2>2 DEF ReaderInv, PointerInv, BufferInv
  <2> QED
    BY <1>1, <1>5, <2>3, <2>4, <2>5 DEF ReaderInv, CallerBlock
<1>6. ASSUME NEW b \in Headers, SetHeader(b)
      PROVE  ReaderInv'
  <2>1. lastCall'.call = "Set"
    BY <1>6 DEF SetHeader
  <2> QED
    BY <1>5, <1>6, <2>1 DEF ReturnedTransactionsAreStored
<1>7. ASSUME NEW key \in Asked, AskBlock(key)
      PROVE  ReaderInv'
  <2>1. ReturnedTransactionsAreStored'
    BY <1>7, ReaderAssumption, AskedBlockIsStored DEF ReaderInv
  <2> QED
    BY <1>5, <1>7, <2>1
<1>8. CASE UNCHANGED readerVars
  <2>1. UNCHANGED <<m_blocks, rowCapacity, held, local, lastCall>> /\ UNCHANGED <<vars, capacities>>
    BY <1>8 DEF readerVars, vars, capacities
  <2>2. ReturnedTransactionsAreStored'
    BY <2>1, SameAnswers DEF ReaderInv, ReturnedTransactionsAreStored
  <2>3. local' \in CallerBlock
    BY <2>1 DEF ReaderInv
  <2>4. ReaderTypeOK'
    BY <1>3, <2>1, <2>3 DEF ReaderInv, ReaderTypeOK
  <2> QED
    BY <1>1, <2>1, <2>2, <2>3, <2>4 DEF ReaderInv, PointerInv, BufferInv, CallerBlock
<1>9. ASSUME NEW key \in Asked, EndOutsideRows(key)
      PROVE  ReaderInv'
  <2>1. UNCHANGED <<m_blocks, rowCapacity, held, local>> /\ UNCHANGED <<vars, capacities>>
    BY <1>9 DEF EndOutsideRows, vars, capacities
  <2>2. lastCall'.call = "ended"
    BY <1>9 DEF EndOutsideRows
  <2>3. ReturnedTransactionsAreStored'
    BY <2>2 DEF ReturnedTransactionsAreStored
  <2>4. local' \in CallerBlock
    BY <2>1 DEF ReaderInv
  <2>5. ReaderTypeOK'
    BY <1>3, <2>1, <2>4 DEF ReaderInv, ReaderTypeOK
  <2> QED
    BY <1>1, <2>1, <2>3, <2>4, <2>5 DEF ReaderInv, PointerInv, BufferInv, CallerBlock
<1> QED
  BY <1>2, <1>4, <1>6, <1>7, <1>8, <1>9 DEF ReaderNext

\* A pointer into the chain leads to the block it was taken for: no call of anybody
\* puts another block there, and the row it leads into does not go away
\* (blockchain.cc:98-105, 169-190).
THEOREM PointersLeadToTheirBlock ==
  ReaderSpec => [](ChainPointersAreStable /\ PointerInv)
<1>1. ReaderInv => ChainPointersAreStable /\ PointerInv
  BY DEF ReaderInv, PointerInv, ChainPointersAreStable, VectorOf
<1>2. ReaderInv /\ [ReaderNext]_readerVars => ReaderInv'
  BY NextReaderInv
<1> QED
  BY <1>1, <1>2, InitReaderInv, PTL DEF ReaderSpec

\* ReturnBlock returns the transactions of the first block stored under the key,
\* none of them counted, or none at all (blockchain.cc:58-78, block.cc:18-33).
THEOREM ReturnedBlocksAreStored ==
  ReaderSpec => []ReturnedTransactionsAreStored
<1>1. ReaderInv => ReturnedTransactionsAreStored
  BY DEF ReaderInv
<1>2. ReaderInv /\ [ReaderNext]_readerVars => ReaderInv'
  BY NextReaderInv
<1> QED
  BY <1>1, <1>2, InitReaderInv, PTL DEF ReaderSpec

\* Only the removal of its own orphan, or of one before it, puts another block
\* under a pointer to an orphan, or none (blockchain.cc:129-142, 198-212).
LEMMA OrphanPointersMoveByRemoval ==
  ASSUME ReaderInv, ReaderNext
  PROVE  held.index \in DOMAIN m_orphans =>
           \/ \E b \in Blocks : RemoveOrphan(b) /\ OrphanPosition(b) \in 1 .. held.index
           \/ m_orphans'[held.index] = m_orphans[held.index]
<1> DEFINE k == held.index
<1> SUFFICES ASSUME k \in DOMAIN m_orphans
             PROVE  \/ \E b \in Blocks : RemoveOrphan(b) /\ OrphanPosition(b) \in 1 .. k
                    \/ m_orphans'[k] = m_orphans[k]
  OBVIOUS
<1>1. m_orphans \in Seq(BlockType) /\ TypeOK
  BY DEF ReaderInv, StoreInv, TypeOK
<1>2. k \in 1 .. Len(m_orphans) /\ Len(m_orphans) \in Nat
  BY <1>1, LenProperties
<1> HIDE DEF k
<1>3. ASSUME NEW b \in Blocks, AddOrphan(b)
      PROVE  m_orphans'[k] = m_orphans[k]
  <2>1. m_orphans' = PushBack(m_orphans, b) /\ b \in BlockType
    BY <1>3, BlocksAssumption DEF AddOrphan
  <2> QED
    BY <1>1, <1>2, <2>1, PushBackProperties
<1>4. ASSUME NEW b \in Blocks, RemoveOrphan(b), OrphanPosition(b) \notin 1 .. k
      PROVE  m_orphans'[k] = m_orphans[k]
  <2>1. CASE OrphanPosition(b) = 0
    BY <1>4, <2>1 DEF RemoveOrphan
  <2>2. CASE OrphanPosition(b) # 0
    <3>1. OrphanPosition(b) \in 1 .. Len(m_orphans)
      BY <1>1, <2>2, OrphanPositionFinds, LenProperties
    <3>2. m_orphans' = Erase(m_orphans, OrphanPosition(b))
      BY <1>4, <2>2 DEF RemoveOrphan
    <3>3. k \in 1 .. Len(m_orphans) - 1 /\ k < OrphanPosition(b)
      BY <1>2, <1>4, <3>1
    <3> QED
      BY <3>2, <3>3 DEF Erase
  <2> QED
    BY <2>1, <2>2
<1>5. CASE m_orphans' = m_orphans
  BY <1>5
<1> QED
  BY <1>3, <1>4, <1>5 DEF ReaderNext, StoreStep, Next, AddBlock, HoldBlock, HoldOrphan,
                               SetHeader, AskBlock, EndOutsideRows, vars

\* Only an orphan added to a full vector frees the buffer a pointer to an orphan
\* leads into (blockchain.cc:192-195).
LEMMA OrphanBufferIsFreedWhenFull ==
  ASSUME ReaderInv, ReaderNext, held.into = "orphans", held' = held,
         ~ Dangles(held), Dangles(held)'
  PROVE  Len(m_orphans) = orphansCapacity /\ \E b \in Blocks : AddOrphan(b)
<1>1. orphansCapacity' # orphansCapacity
  BY DEF Dangles
<1>2. m_orphans \in Seq(BlockType) /\ Len(m_orphans) \in Nat /\ orphansCapacity \in Nat
      /\ Len(m_orphans) <= orphansCapacity
  BY LenProperties DEF ReaderInv, ReaderTypeOK, TypeOK
<1>3. StoreStep
  BY <1>1 DEF ReaderNext, HoldBlock, HoldOrphan, SetHeader, AskBlock, EndOutsideRows, capacities
<1>4. orphansCapacity' = Grown(orphansCapacity, Len(m_orphans'))
  BY <1>3 DEF StoreStep
<1>5. ~ (Len(m_orphans') <= orphansCapacity)
  <2>1. TypeOK'
    BY NextReaderInv DEF ReaderInv, StoreInv, ReaderTypeOK
  <2>2. m_orphans' \in Seq(BlockType)
    BY <2>1 DEF TypeOK
  <2>3. Len(m_orphans') \in Nat
    BY <2>2, LenProperties
  <2> QED
    BY <1>1, <1>2, <1>4, <2>3 DEF Grown
<1>6. ASSUME NEW b \in Blocks, AddOrphan(b)
      PROVE  Len(m_orphans) = orphansCapacity
  <2>1. m_orphans' = PushBack(m_orphans, b) /\ b \in BlockType
    BY <1>6, BlocksAssumption DEF AddOrphan
  <2>2. Len(m_orphans') = Len(m_orphans) + 1
    BY <1>2, <2>1, PushBackProperties
  <2> QED
    BY <1>2, <1>5, <2>2
<1>7. ASSUME NEW b \in Blocks, RemoveOrphan(b)
      PROVE  FALSE
  <2>1. CASE OrphanPosition(b) = 0
    BY <1>2, <1>5, <1>7, <2>1 DEF RemoveOrphan
  <2>2. CASE OrphanPosition(b) # 0
    <3>1. OrphanPosition(b) \in 1 .. Len(m_orphans)
      <4>1. TypeOK
        BY DEF ReaderInv, ReaderTypeOK
      <4> QED
        BY <1>2, <2>2, <4>1, OrphanPositionFinds, LenProperties
    <3>2. m_orphans' = Erase(m_orphans, OrphanPosition(b))
      BY <1>7, <2>2 DEF RemoveOrphan
    <3>3. Len(m_orphans') = Len(m_orphans) - 1
      BY <1>2, <3>1, <3>2 DEF Erase
    <3> QED
      BY <1>2, <1>5, <3>3
  <2> QED
    BY <2>1, <2>2
<1>8. ASSUME NEW b \in Blocks, AddBlock(b)
      PROVE  FALSE
  <2>1. m_orphans' = m_orphans
    BY <1>8 DEF AddBlock
  <2> QED
    BY <1>2, <1>5, <2>1
<1> QED
  BY <1>3, <1>6, <1>7, <1>8 DEF StoreStep, Next

\* Both for the pointer a caller keeps (blockchain.cc:129-142, 192-212).
LEMMA OrphanPointersMoveOnlySo ==
  ASSUME ReaderInv, ReaderNext
  PROVE  OrphanPointersMove
<1> SUFFICES ASSUME held.into = "orphans", held' = held, ~ Dangles(held)
             PROVE  /\ Dangles(held)' =>
                         Len(m_orphans) = orphansCapacity /\ \E b \in Blocks : AddOrphan(b)
                    /\ held.index \in DOMAIN m_orphans =>
                         \/ \E b \in Blocks :
                              RemoveOrphan(b) /\ OrphanPosition(b) \in 1 .. held.index
                         \/ m_orphans'[held.index] = m_orphans[held.index]
  BY DEF OrphanPointersMove
<1> QED
  BY OrphanPointersMoveByRemoval, OrphanBufferIsFreedWhenFull

\* A caller reads what the store holds: its pointer into the chain leads to the block it
\* was taken for, in a buffer that only blocks of that height can outgrow; one to an orphan
\* is freed by an orphan added to a full vector alone and put on another block by removals
\* alone; and ReturnBlock returns a stored block or no transaction
\* (blockchain.cc:58-78, 98-142, 169-212).
THEOREM CallersReadWhatIsStoredInSpec == ReaderSpec => CallersReadWhatIsStored
<1>1. ReaderInv => ReaderTypeOK /\ ChainPointersAreStable /\ OnlyItsRowFreesAPointer
                   /\ ReturnedTransactionsAreStored
  <2>1. ReaderInv => ReaderTypeOK /\ ReturnedTransactionsAreStored
    BY DEF ReaderInv
  <2>2. ReaderInv => ChainPointersAreStable
    BY DEF ReaderInv, PointerInv, ChainPointersAreStable, VectorOf
  <2>3. ReaderInv => OnlyItsRowFreesAPointer
    BY DEF ReaderInv, BufferInv, OnlyItsRowFreesAPointer, Dangles
  <2> QED
    BY <2>1, <2>2, <2>3
<1>2. ReaderInv /\ [ReaderNext]_readerVars => ReaderInv'
  BY NextReaderInv
<1>3. ReaderInv /\ ReaderNext => OrphanPointersMove
  BY OrphanPointersMoveOnlySo
<1> QED
  BY <1>1, <1>2, <1>3, InitReaderInv, PTL DEF ReaderSpec, CallersReadWhatIsStored

=============================================================================
