----------------------------- MODULE Transaction -----------------------------
(***************************************************************************)
(* Values of class Transaction (model/transaction.h, model/transaction.cc).*)
(* A transaction is created by one node under a number of that node's own, *)
(* and this pair is its identity.  The size (always 100 bytes) and the     *)
(* time stamp take part in no decision and are left out.                   *)
(***************************************************************************)
EXTENDS Integers

TransactionType ==
  [nodeId: Int, transId: Int, validation: BOOLEAN, execution: Nat]

\* Variant: the constructor leaves the executor unset.
NewTransactionUnset(nodeId, transId) ==
  [nodeId |-> nodeId, transId |-> transId, validation |-> FALSE, execution |-> -1]

\* The three-argument constructor: not validated, executed by nobody (0).
NewTransaction(nodeId, transId) ==
  [nodeId |-> nodeId, transId |-> transId, validation |-> FALSE, execution |-> 0]

SetExecution(t, endorserId) == [t EXCEPT !.execution = endorserId]

\* The test every search of the code makes, and operator==: the pair of
\* identifiers decides, validation and execution do not.
IsTransaction(t, nodeId, transId) == t.nodeId = nodeId /\ t.transId = transId

=============================================================================
