---------------------------- MODULE MCBlockchain ----------------------------
(***************************************************************************)
(* Instances of the block store.  The blocks are built by the constructor  *)
(* and AddTransaction, as a caller builds them: a fork at height 1, blocks *)
(* at heights 2 and 3 that can arrive before any block below them, and for *)
(* every pair of neighbouring heights one block whose parentBlockMinerId   *)
(* equals that of the lower block and one whose does not.                  *)
(***************************************************************************)
EXTENDS Blockchain

BlockWith(height, minerId, parentMinerId) ==
  AddTransaction(NewBlock(height, minerId, parentMinerId),
                 NewTransaction(minerId, height))

FirstByOne  == BlockWith(1, 1, 0)
FirstByTwo  == BlockWith(1, 2, 0)
SecondOnOne == BlockWith(2, 2, 1)
SecondOnNil == BlockWith(2, 1, 0)
ThirdOnOne  == BlockWith(3, 2, 1)

\* A fork at height 1, and a block above one of the two.
FewBlocks == {FirstByOne, FirstByTwo, SecondOnNil}

AllBlocks == {FirstByOne, FirstByTwo, SecondOnOne, SecondOnNil, ThirdOnOne}

=============================================================================
