--------------------------- MODULE MCTransactions ---------------------------
(* A small instance of Transactions for TLC. *)
EXTENDS Transactions, TLC

CONSTANTS h1, h2, t1, t2

\* Both holds are of one document.
FirstDoc == [h \in HoldIds |-> 1]

Symmetry == Permutations(Txns) \cup Permutations(HoldIds)
=============================================================================
