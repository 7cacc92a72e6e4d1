----------------------------- MODULE BlockReader -----------------------------
(***************************************************************************)
(* A caller of the block store that keeps what the store hands out: a      *)
(* pointer to an element of one of its vectors (GetBlockPointer,           *)
(* GetOrpharnChildrenPointer) and a Block object of its own, copied by     *)
(* ReturnBlock and changed by the setters of model/block.cc.               *)
(***************************************************************************)
EXTENDS Blockchain

CONSTANTS
  Asked,      \* the <<height, miner>> pairs ReturnBlock is asked for
  Indefinite, \* what a member that nobody has set may hold
  Headers     \* the blocks whose fields the setters are given

ASSUME ReaderAssumption == Asked \subseteq Int \X Int /\ Headers \subseteq BlockType

VARIABLES
  held,            \* the pointer the caller keeps
  rowCapacity,     \* capacity() of each row of m_blocks
  orphansCapacity, \* m_orphans.capacity()
  local,           \* the caller's Block
  lastCall         \* the caller's last call that was not for a pointer

capacities == <<rowCapacity, orphansCapacity>>

readerVars == <<vars, held, capacities, local, lastCall>>

-----------------------------------------------------------------------------
(* Pointers.                                                               *)

\* Variant: a vector gives back the room it does not use.
GrownToFit(capacity, length) == length

\* A vector that is full moves to a buffer of twice the size when it grows.
Grown(capacity, length) ==
  CASE length <= capacity -> capacity
    [] length > capacity -> IF capacity = 0 THEN 1 ELSE 2 * capacity

NoPointer == [into |-> "none"]

\* A pointer into row r of m_blocks, or into m_orphans (row 0), with what it
\* points at when it is taken.
PointerTo(r, i) ==
  LET v == IF r = 0 THEN m_orphans ELSE m_blocks[r] IN
  [into |-> IF r = 0 THEN "orphans" ELSE "row", row |-> r, index |-> i, block |-> v[i],
   capacity |-> IF r = 0 THEN orphansCapacity ELSE rowCapacity[r]]

\* The buffer the pointer points into has been freed.
Dangles(p) ==
  p.capacity # IF p.into = "orphans" THEN orphansCapacity ELSE rowCapacity[p.row]

\* The vector the pointer points into.
VectorOf(p) == IF p.into = "orphans" THEN m_orphans ELSE m_blocks[p.row]

HoldBlock(b) ==
  /\ b.blockHeight <= GetBlockchainHeight
  /\ LET i == GetBlockPointer(b.blockHeight, b.minerId) IN
     held' = IF i = 0 THEN NoPointer ELSE PointerTo(b.blockHeight + 1, i)
  /\ UNCHANGED <<vars, capacities, local, lastCall>>

HoldOrphan(b) ==
  /\ \E i \in GetOrpharnChildrenPointer(b) : held' = PointerTo(0, i)
  /\ UNCHANGED <<vars, capacities, local, lastCall>>

-----------------------------------------------------------------------------
(* ReturnBlock and the caller's Block.                                     *)

\* Block() builds and drops another block: the integers of this one keep what
\* was in its memory, and its transactions are the empty vector.
UnsetBlock ==
  [blockHeight: Indefinite, minerId: Indefinite, parentBlockMinerId: Indefinite,
   transactions: {<<>>}, totalTransactions: Indefinite]

\* Variant: the loop compares the heights only.
FirstOfRow(height, minerId) ==
  IF Row(height) = <<>> THEN UnsetBlock ELSE {CopyConstruct(Row(height)[1])}

\* A stored block is returned by copy.  Otherwise the second loop reads the row
\* again and finds nothing, and Block() is returned.
FromRow(height, minerId) ==
  LET i == GetBlockPointer(height, minerId) IN
  IF i = 0 THEN UnsetBlock ELSE {CopyConstruct(Row(height)[i])}

\* For a height outside the rows the second loop runs over memory that is none of
\* theirs: it finds what looks like the block, or nothing, or ends the program.
OutsideRows(height, minerId) ==
  UnsetBlock \cup
    {[b EXCEPT !.blockHeight = height, !.minerId = minerId, !.totalTransactions = 0] :
       b \in UnsetBlock}

InRows(height) == 0 <= height /\ height <= GetBlockchainHeight

ReturnBlock(height, minerId) ==
  IF InRows(height) THEN FromRow(height, minerId) ELSE OutsideRows(height, minerId)

AskBlock(key) ==
  /\ local' \in ReturnBlock(key[1], key[2])
  /\ lastCall' = [call |-> "ReturnBlock", key |-> key, inRows |-> InRows(key[1])]
  /\ UNCHANGED <<vars, capacities, held>>

EndOutsideRows(key) ==
  /\ ~ InRows(key[1])
  /\ lastCall' = [call |-> "ended", key |-> key]
  /\ UNCHANGED <<vars, capacities, held, local>>

\* The setters take a field from a block b.
SetHeader(b) ==
  /\ \/ local' = [local EXCEPT !.blockHeight = b.blockHeight]
     \/ local' = [local EXCEPT !.minerId = b.minerId]
     \/ local' = [local EXCEPT !.parentBlockMinerId = b.parentBlockMinerId]
     \/ local' = [local EXCEPT !.transactions = b.transactions]
  /\ lastCall' = [call |-> "Set"]
  /\ UNCHANGED <<vars, capacities, held>>

-----------------------------------------------------------------------------
(* The specification.                                                      *)

ReaderInit ==
  /\ Init
  /\ held = NoPointer
  /\ rowCapacity = <<1>>
  /\ orphansCapacity = 0
  /\ local = GenesisBlock
  /\ lastCall = [call |-> "Block"]

\* A call that changes the store.
StoreStep ==
  /\ Next
  /\ rowCapacity' = [r \in DOMAIN m_blocks' |->
                       Grown(IF r \in DOMAIN m_blocks THEN rowCapacity[r] ELSE 0, Len(m_blocks'[r]))]
  /\ orphansCapacity' = Grown(orphansCapacity, Len(m_orphans'))
  /\ lastCall' = [call |-> "Blockchain"]
  /\ UNCHANGED <<held, local>>

ReaderNext ==
  /\ lastCall.call # "ended"
  /\ \/ StoreStep
     \/ \E b \in Blocks : HoldBlock(b) \/ HoldOrphan(b)
     \/ \E b \in Headers : SetHeader(b)
     \/ \E key \in Asked : AskBlock(key) \/ EndOutsideRows(key)

ReaderSpec == ReaderInit /\ [][ReaderNext]_readerVars

-----------------------------------------------------------------------------
(* Properties.                                                             *)

\* A vector is as long as its capacity at most.  The caller's Block is a block, though
\* not one whose height must be natural.
ReaderTypeOK ==
  /\ TypeOK
  /\ DOMAIN rowCapacity = DOMAIN m_blocks
  /\ \A r \in DOMAIN m_blocks : rowCapacity[r] \in Nat /\ Len(m_blocks[r]) <= rowCapacity[r]
  /\ orphansCapacity \in Nat /\ Len(m_orphans) <= orphansCapacity
  /\ local.transactions \in Seq(TransactionType)
  /\ held.into \in {"none", "row", "orphans"}

\* A pointer into the chain is to the block it was taken for, whatever comes after:
\* blocks of its height or of others, new rows and orphans
\* (blockchain.cc:98-105, 169-190).
ChainPointersAreStable ==
  held.into = "row" => VectorOf(held)[held.index] = held.block

\* It dangles only when blocks of its own height have filled the row it leads
\* into (blockchain.cc:169-190).
OnlyItsRowFreesAPointer ==
  held.into = "row" /\ Dangles(held) => Len(m_blocks[held.row]) > held.capacity

\* A pointer to an orphan that is good stays good and on its block, but for two
\* calls: AddOrphan to a full m_orphans frees the buffer the pointer leads into, and
\* RemoveOrphan of its own or of an earlier orphan puts another block, or none, under
\* it and frees nothing (blockchain.cc:129-142, 192-212).
OrphanPointersMove ==
  held.into = "orphans" /\ held' = held /\ ~ Dangles(held) =>
    /\ Dangles(held)' =>
         Len(m_orphans) = orphansCapacity /\ \E b \in Blocks : AddOrphan(b)
    /\ held.index \in DOMAIN m_orphans =>
         \/ \E b \in Blocks : RemoveOrphan(b) /\ OrphanPosition(b) \in 1 .. held.index
         \/ m_orphans'[held.index] = m_orphans[held.index]

\* What ReturnBlock says of a height of the chain: under a stored key a copy of
\* the first block stored under it, with its transactions and none counted.
\* Under any other key no transaction, while its height and miner may be any,
\* those asked for among them.  Of a height outside the chain nothing is said: the
\* program may end there (blockchain.cc:58-78, block.cc:18-33).
ReturnedTransactionsAreStored ==
  lastCall.call = "ReturnBlock" /\ lastCall.inRows =>
    IF lastCall.key \in StoredKeys
    THEN /\ Key(local) = lastCall.key
         /\ local.totalTransactions = 0
         /\ local.transactions =
              Row(lastCall.key[1])[GetBlockPointer(lastCall.key[1], lastCall.key[2])].transactions
    ELSE local.transactions = <<>>

\* What a caller reads is what is stored: a pointer into the chain is to its block, and
\* good until its row outgrows its buffer; one to an orphan is good until an orphan is
\* added to a full vector, and on its block until that or an earlier one is removed; and
\* ReturnBlock of a height of the chain returns the transactions of the block that is
\* asked for, or none (blockchain.cc:58-78, 98-142, 169-212).
CallersReadWhatIsStored ==
  [][/\ ReaderTypeOK'
     /\ ChainPointersAreStable'
     /\ OnlyItsRowFreesAPointer'
     /\ OrphanPointersMove
     /\ ReturnedTransactionsAreStored']_readerVars

=============================================================================
