-------------------------------- MODULE Ledger --------------------------------
(***************************************************************************)
(* What a node is promised by its block store: it knows a growing set of   *)
(* blocks, each under its key <<height, miner>>, counts the additions,     *)
(* keeps the first block of the greatest height as its top, and lets       *)
(* orphans wait and leave.  Nothing is said of rows or of positions.       *)
(***************************************************************************)
EXTENDS Integers

CONSTANTS
  Keys,     \* a set of pairs <<height, miner>>
  Genesis   \* the key of the block every ledger starts with

VARIABLES
  known,    \* the keys of the blocks added
  total,    \* number of additions
  top,      \* the key of the top block
  orphans   \* for each key, how many orphans wait under it

vars == <<known, total, top, orphans>>

Height(key) == key[1]

Init ==
  /\ known = {Genesis}
  /\ total = 1
  /\ top = Genesis
  /\ orphans = [key \in Keys |-> 0]

Add(key) ==
  /\ known' = known \cup {key}
  /\ total' = total + 1
  /\ top' = IF Height(key) > Height(top) THEN key ELSE top
  /\ UNCHANGED orphans

Park(key) ==
  /\ orphans' = [orphans EXCEPT ![key] = @ + 1]
  /\ UNCHANGED <<known, total, top>>

Drop(key) ==
  /\ orphans[key] > 0
  /\ orphans' = [orphans EXCEPT ![key] = @ - 1]
  /\ UNCHANGED <<known, total, top>>

Next == \E key \in Keys : Add(key) \/ Park(key) \/ Drop(key)

Spec == Init /\ [][Next]_vars

=============================================================================
