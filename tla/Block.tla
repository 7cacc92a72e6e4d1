-------------------------------- MODULE Block --------------------------------
(***************************************************************************)
(* Values of class Block (model/block.h, model/block.cc) and the three     *)
(* ways std::vector<Block> makes new values of old ones.                   *)
(*                                                                         *)
(* The header fields that no decision reads (nonce, size, the times, the   *)
(* peer's address) travel with blockHeight, minerId and parentBlockMinerId *)
(* in every copy and are left out.                                         *)
(***************************************************************************)
EXTENDS Integers, Sequences, Transaction

BlockType ==
  [blockHeight: Nat, minerId: Int, parentBlockMinerId: Int,
   transactions: Seq(TransactionType), totalTransactions: Nat]

HeaderType == [blockHeight: Nat, minerId: Int, parentBlockMinerId: Int]

Header(b) ==
  [blockHeight |-> b.blockHeight, minerId |-> b.minerId,
   parentBlockMinerId |-> b.parentBlockMinerId]

-----------------------------------------------------------------------------
(* Construction.                                                           *)

NewBlock(blockHeight, minerId, parentBlockMinerId) ==
  [blockHeight |-> blockHeight, minerId |-> minerId,
   parentBlockMinerId |-> parentBlockMinerId,
   transactions |-> <<>>, totalTransactions |-> 0]

AddTransaction(b, t) ==
  [b EXCEPT !.transactions = Append(@, t), !.totalTransactions = @ + 1]

\* Variant: the copy constructor leaves the count of the copy unset.
CopyConstructUnset(b) == [b EXCEPT !.totalTransactions = -1]

\* The copy constructor takes every field except the count, which restarts.
CopyConstruct(b) == [b EXCEPT !.totalTransactions = 0]

\* Variant: the target also keeps its miner.
CopyAssignNoMiner(target, source) ==
  [source EXCEPT !.minerId = target.minerId,
                 !.transactions = target.transactions,
                 !.totalTransactions = target.totalTransactions]

\* operator= takes the header only: the block assigned to keeps the
\* transactions, and the count of them, that it had before.
CopyAssign(target, source) ==
  [source EXCEPT !.transactions = target.transactions,
                 !.totalTransactions = target.totalTransactions]

-----------------------------------------------------------------------------
(* Comparisons.                                                            *)

\* operator==, and the test the lookups by height and miner make.
SameBlock(b1, b2) ==
  b1.blockHeight = b2.blockHeight /\ b1.minerId = b2.minerId

\* b.IsParent(c) and b.IsChild(p): both compare the two parentBlockMinerId
\* fields with each other.
IsParent(b, c) ==
  /\ b.blockHeight = c.blockHeight - 1
  /\ b.parentBlockMinerId = c.parentBlockMinerId

\* Variant: only this one of the two follows the parent's miner.
IsChildByParentMiner(b, p) ==
  /\ b.blockHeight = p.blockHeight + 1
  /\ b.parentBlockMinerId = p.minerId

IsChild(b, p) ==
  /\ b.blockHeight = p.blockHeight + 1
  /\ b.parentBlockMinerId = p.parentBlockMinerId

\* A block is found by its height and miner.
Key(b) == <<b.blockHeight, b.minerId>>

-----------------------------------------------------------------------------
(* std::vector<Block>.                                                     *)

\* Variant: the new element goes to the front.
PushFront(v, b) == <<CopyConstruct(b)>> \o v

\* push_back copy-constructs the new last element.
PushBack(v, b) == Append(v, CopyConstruct(b))

\* Variant: the shift starts one element late.
EraseLate(v, k) ==
  [i \in 1 .. Len(v) - 1 |-> IF i <= k THEN v[i] ELSE CopyAssign(v[i], v[i + 1])]

\* erase(begin + k - 1) assigns each later element to the one before it and
\* destroys the last.
Erase(v, k) ==
  [i \in 1 .. Len(v) - 1 |-> IF i < k THEN v[i] ELSE CopyAssign(v[i], v[i + 1])]

=============================================================================
