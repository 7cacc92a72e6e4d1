------------------------------- MODULE MCStore -------------------------------
(***************************************************************************)
(* The store and its callers in four settings: all blocks; few blocks and  *)
(* more orphans, so that an erase shifts several; and a caller that keeps  *)
(* a pointer, or asks for copies.  A behaviour stays in its setting.       *)
(***************************************************************************)
EXTENDS MCBlockchain, BlockReader

VARIABLE setting

MCAsked == {<<1, 1>>, <<1, 2>>, <<2, 1>>, <<-1, 1>>}

\* The bounds of a setting.
FewKeys == {Key(b) : b \in FewBlocks \cup {GenesisBlock}}
Within(keys, blocks, orphans) ==
  /\ m_totalBlocks' <= blocks /\ Len(m_orphans') <= orphans
  /\ \A r \in DOMAIN m_blocks' : \A i \in DOMAIN m_blocks'[r] : Key(m_blocks'[r][i]) \in keys
  /\ \A i \in DOMAIN m_orphans' : Key(m_orphans'[i]) \in keys

MCInit == ReaderInit /\ setting \in {"store", "orphans", "pointers", "copies"}

MCNext ==
  /\ UNCHANGED setting
  /\ lastCall.call # "ended"
  /\ \/ setting = "store" /\ StoreStep /\ Within(Keys, 5, 2)
     \/ setting = "orphans" /\ StoreStep /\ Within(Keys, 2, 3)
     \/ /\ setting = "pointers"
        /\ \/ StoreStep /\ Within(FewKeys, 4, 2)
           \/ \E b \in FewBlocks : HoldBlock(b) \/ HoldOrphan(b)
     \/ /\ setting = "copies"
        /\ \/ StoreStep /\ Within(FewKeys, 3, 0)
           \/ \E b \in Headers : SetHeader(b)
           \/ \E key \in Asked : AskBlock(key) \/ EndOutsideRows(key)

MCSpec == MCInit /\ [][MCNext]_<<readerVars, setting>>

=============================================================================
