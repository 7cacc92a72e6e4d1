--------------------------- MODULE MCNodeLifecycle ---------------------------
(***************************************************************************)
(* A node with two possible peers, whose list may change to the one, both, *)
(* or both with one of them named twice.                                   *)
(***************************************************************************)
EXTENDS NodeLifecycle

CONSTANTS p1, p2

Lists == {<<p1>>, <<p1, p2>>, <<p2, p1, p2>>}

=============================================================================
