------------------------------ MODULE Blockchain ------------------------------
(***************************************************************************)
(* The block store of a node (model/blockchain.h, model/blockchain.cc):    *)
(* the blocks of the chain in rows by height, the orphans in a list, and a *)
(* count of the blocks added.                                              *)
(*                                                                         *)
(* Row r of m_blocks holds the blocks of height r - 1: the vectors of the  *)
(* code start at 0, sequences at 1.                                        *)
(***************************************************************************)
EXTENDS Block, SequencesExt

CONSTANTS
  Blocks,      \* the blocks callers pass to the store
  MaxBlocks,   \* bound on m_totalBlocks
  MaxOrphans   \* bound on the length of m_orphans

ASSUME BlocksAssumption ==
  /\ Blocks \subseteq BlockType
  /\ MaxBlocks \in Nat
  /\ MaxOrphans \in Nat

VARIABLES
  m_blocks,       \* rows of blocks
  m_orphans,      \* blocks whose parent is not in the chain
  m_totalBlocks   \* number of blocks added

vars == <<m_blocks, m_orphans, m_totalBlocks>>

GenesisBlock == NewBlock(0, 0, 0)

-----------------------------------------------------------------------------
(* Queries.                                                                *)

\* Variant: the block that came last to the highest row.
NewestTopBlock == Last(m_blocks[Len(m_blocks)])

\* The first block of the last row.
GetCurrentTopBlock == m_blocks[Len(m_blocks)][1]

GetBlockchainHeight == GetCurrentTopBlock.blockHeight

Row(height) == m_blocks[height + 1]

\* Variant: the range test also turns the top row away.
HasBlockBelowTop(height, minerId) ==
  /\ height < GetBlockchainHeight
  /\ \E i \in DOMAIN Row(height) :
       Row(height)[i].blockHeight = height /\ Row(height)[i].minerId = minerId

\* Both overloads: a block is looked up by its height and miner.
HasBlock(height, minerId) ==
  /\ height <= GetBlockchainHeight
  /\ \E i \in DOMAIN Row(height) :
       Row(height)[i].blockHeight = height /\ Row(height)[i].minerId = minerId

\* The first block of that height and miner.  A pointer into a row is the
\* position in it, and 0 for NULL.
GetBlockPointer(height, minerId) ==
  SelectInSeq(Row(height), LAMBDA b : b.blockHeight = height /\ b.minerId = minerId)

isOrphan(height, minerId) ==
  \E i \in DOMAIN m_orphans :
     m_orphans[i].blockHeight = height /\ m_orphans[i].minerId = minerId

\* Positions in the row above b's.
GetChildrenPointers(b) ==
  IF b.blockHeight + 1 > GetBlockchainHeight
  THEN {}
  ELSE {i \in DOMAIN Row(b.blockHeight + 1) : IsParent(b, Row(b.blockHeight + 1)[i])}

\* Positions in m_orphans.
GetOrpharnChildrenPointer(b) == {i \in DOMAIN m_orphans : IsParent(b, m_orphans[i])}

\* A position in the row below b's, or 0.
GetParent(b) ==
  IF b.blockHeight - 1 > GetBlockchainHeight \/ b.blockHeight - 1 < 0
  THEN 0
  ELSE SelectInSeq(Row(b.blockHeight - 1), LAMBDA p : IsChild(b, p))

-----------------------------------------------------------------------------
(* Updates.                                                                *)

\* The constructor adds the genesis block to an empty m_blocks.
Init ==
  /\ m_blocks = <<PushBack(<<>>, GenesisBlock)>>
  /\ m_orphans = <<>>
  /\ m_totalBlocks = 1

\* Variant: one row too many between the old top row and the new one.
DummyRowsUpTo(height) == [i \in 1 .. height - GetBlockchainHeight |-> <<>>]

\* The empty rows between the top row and that of a higher block.
DummyRows(height) == [i \in 1 .. height - GetBlockchainHeight - 1 |-> <<>>]

\* Variant: a block that fits into an existing row is not counted.
AddBlockUncounted(b) ==
  /\ m_totalBlocks < MaxBlocks
  /\ \/ /\ b.blockHeight > GetBlockchainHeight
        /\ m_blocks' = m_blocks \o DummyRows(b.blockHeight) \o <<PushBack(<<>>, b)>>
        /\ m_totalBlocks' = m_totalBlocks + 1
     \/ /\ b.blockHeight <= GetBlockchainHeight
        /\ m_blocks' = [m_blocks EXCEPT ![b.blockHeight + 1] = PushBack(@, b)]
        /\ UNCHANGED m_totalBlocks
  /\ UNCHANGED m_orphans

\* A block above the top opens a row of its own, any other joins its row.
AddBlock(b) ==
  /\ m_totalBlocks < MaxBlocks
  /\ \/ /\ b.blockHeight > GetBlockchainHeight
        /\ m_blocks' = m_blocks \o DummyRows(b.blockHeight) \o <<PushBack(<<>>, b)>>
     \/ /\ b.blockHeight <= GetBlockchainHeight
        /\ m_blocks' = [m_blocks EXCEPT ![b.blockHeight + 1] = PushBack(@, b)]
  /\ m_totalBlocks' = m_totalBlocks + 1
  /\ UNCHANGED m_orphans

AddOrphan(b) ==
  /\ Len(m_orphans) < MaxOrphans
  /\ m_orphans' = PushBack(m_orphans, b)
  /\ UNCHANGED <<m_blocks, m_totalBlocks>>

\* Position of the first orphan equal to b, 0 if there is none.
OrphanPosition(b) == SelectInSeq(m_orphans, LAMBDA o : SameBlock(b, o))

RemoveOrphan(b) ==
  /\ IF OrphanPosition(b) = 0
     THEN UNCHANGED m_orphans
     ELSE m_orphans' = Erase(m_orphans, OrphanPosition(b))
  /\ UNCHANGED <<m_blocks, m_totalBlocks>>

Next == \E b \in Blocks : AddBlock(b) \/ AddOrphan(b) \/ RemoveOrphan(b)

Spec == Init /\ [][Next]_vars

-----------------------------------------------------------------------------
(* Properties.                                                             *)

\* Every variable has its type (blockchain.h:55-57).
TypeOK ==
  /\ m_blocks \in Seq(Seq(BlockType))
  /\ m_orphans \in Seq(BlockType)
  /\ m_totalBlocks \in Nat

\* Rows of skipped heights stay empty, but never the last one: whatever
\* heights blocks arrive at, GetCurrentTopBlock reads an element that exists,
\* and its height names the last row, so that the range tests of HasBlock,
\* ReturnBlock, GetParent and AddBlock let through the rows that exist and no
\* other (blockchain.cc:32, 45, 61, 112, 150, 176).
HeightNamesLastRow ==
  /\ m_blocks # <<>>
  /\ m_blocks[Len(m_blocks)] # <<>>
  /\ GetBlockchainHeight = Len(m_blocks) - 1

\* A block lies in the row of its height: the row arithmetic of AddBlock never
\* drifts, over any sequence of gaps, forks and late blocks
\* (blockchain.cc:177-187).
BlocksLieInTheirRow ==
  \A r \in DOMAIN m_blocks : \A i \in DOMAIN m_blocks[r] :
    m_blocks[r][i].blockHeight = r - 1

\* The places of m_blocks that hold a block.
Places == UNION {{r} \X DOMAIN m_blocks[r] : r \in DOMAIN m_blocks}

\* GetTotalBlocks is the number of blocks in all rows, the genesis block and
\* duplicates included (blockchain.cc:189).
TotalCountsPlaces == m_totalBlocks = Cardinality(Places)

\* The keys the lookups can be asked for.
Keys == {Key(b) : b \in Blocks \cup {GenesisBlock}}

\* The keys of the blocks in any row.
StoredKeys == {Key(m_blocks[p[1]][p[2]]) : p \in Places}

\* HasBlock reads one row and answers for all of them: it finds a block exactly
\* if the block is stored anywhere, and then GetBlockPointer does too
\* (blockchain.cc:44-56, 98-105).
LookupsSeeEveryBlock ==
  \A key \in Keys :
    /\ HasBlock(key[1], key[2]) <=> key \in StoredKeys
    /\ key \in StoredKeys => GetBlockPointer(key[1], key[2]) # 0

\* Walking up and walking down agree: the parent GetParent finds for a stored
\* block lists that block among its children, and a block listed as a child,
\* in the chain or among the orphans, has a parent
\* (blockchain.cc:107-127, 129-142, 145-161).
ParentsAndChildrenAgree ==
  \A p \in Places :
    LET b == m_blocks[p[1]][p[2]] IN
    /\ GetParent(b) # 0 =>
         p[2] \in GetChildrenPointers(Row(b.blockHeight - 1)[GetParent(b)])
    /\ \A i \in GetChildrenPointers(b) : GetParent(Row(b.blockHeight + 1)[i]) # 0
    /\ \A i \in GetOrpharnChildrenPointer(b) : GetParent(m_orphans[i]) # 0

\* First seen wins: a block that ties with the top never replaces it, only a
\* higher one does (blockchain.cc:164-166, 176).
TopChangesOnlyUpwards ==
  [][GetCurrentTopBlock' # GetCurrentTopBlock
       => GetBlockchainHeight' > GetBlockchainHeight]_vars

\* A row only grows, at its end: no call moves, overwrites or drops a stored
\* block, so a position a caller got from GetBlockPointer or GetChildrenPointers
\* stays that of the same block (blockchain.cc:169-190).
RowsOnlyGrow ==
  [][\A r \in DOMAIN m_blocks : IsPrefix(m_blocks[r], m_blocks'[r])]_vars

\* How many orphans there are under each key.
OrphanCount ==
  [key \in Keys |-> Cardinality({i \in DOMAIN m_orphans : Key(m_orphans[i]) = key})]

Abstract == INSTANCE Ledger WITH
  Genesis <- Key(GenesisBlock),
  known <- StoredKeys,
  total <- m_totalBlocks,
  top <- Key(GetCurrentTopBlock),
  orphans <- OrphanCount

\* Seen through its keys the store is a Ledger: rows, gaps and the shifting of
\* the orphans on an erase change nothing of which blocks are known, how many
\* were added, which is the top and how often each block waits as an orphan
\* (blockchain.cc:169-212).
ImplementsLedger == Abstract!Spec

\* What RemoveOrphan(b) does to the Ledger.
DropsIfParked(b) ==
  IF OrphanCount[Key(b)] > 0
  THEN Abstract!Drop(Key(b))
  ELSE UNCHANGED Abstract!vars

\* Each call is the Ledger's action on the key of the very block it is given:
\* a RemoveOrphan that finds the block takes one orphan of that block away and
\* none of another, although every later element of m_orphans is overwritten,
\* and one that does not find it changes nothing (blockchain.cc:169-212).
EachCallActsOnItsKey ==
  [][\A b \in Blocks :
       /\ AddBlock(b) => Abstract!Add(Key(b))
       /\ AddOrphan(b) => Abstract!Park(Key(b))
       /\ RemoveOrphan(b) => DropsIfParked(b)]_vars

-----------------------------------------------------------------------------
(* What the declarations and the output of the code say, and the code does *)
(* not do.                                                                 *)

\* block.h:29, 47: the parent of a block is the block one below it by the miner
\* it names as its parent block's miner.
ParentHasNamedMiner ==
  \A p \in Places :
    LET b == m_blocks[p[1]][p[2]] IN
    GetParent(b) # 0 =>
      Row(b.blockHeight - 1)[GetParent(b)].minerId = b.parentBlockMinerId

\* block.cc:166: "[Blockheight: h] Transaction nodeId: ..." names the
\* transactions of the block of that height: an orphan still has those it was
\* added with.
OrphansKeepTheirTransactions ==
  \A i \in DOMAIN m_orphans :
    \E b \in Blocks : /\ Header(b) = Header(m_orphans[i])
                      /\ b.transactions = m_orphans[i].transactions

\* block.h:50, block.cc:158: the total of a block is the number of transactions
\* it holds.
TotalsCountTransactions ==
  \A p \in Places :
    m_blocks[p[1]][p[2]].totalTransactions = Len(m_blocks[p[1]][p[2]].transactions)

=============================================================================
