--------------------------- MODULE MCBlockchainNode ---------------------------
(***************************************************************************)
(* Instances of the node: one peer of each protocol, one block the node    *)
(* may get from elsewhere while it is announced, and lists that repeat a   *)
(* key or a transaction.                                                   *)
(***************************************************************************)
EXTENDS BlockchainNode, Block, TLC

CONSTANTS p1, p2

TwoPeers == {p1, p2}
Protocols == p1 :> "STANDARD_PROTOCOL" @@ p2 :> "SENDHEADERS"

AnnouncedBlock == NewBlock(1, 1, 0)
HeldBlocks == {AnnouncedBlock}

InvLists == {<<<<1, 1>>>>, <<<<1, 2>>, <<1, 1>>, <<1, 2>>>>}

Trans(nodeId, transId) == [nodeId |-> nodeId, transId |-> transId]
TransLists == {<<Trans(5, 1), Trans(5, 2), Trans(5, 1)>>}

=============================================================================
