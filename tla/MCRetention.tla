----------------------------- MODULE MCRetention -----------------------------
(* Small instances of Retention for TLC. *)
EXTENDS Retention, TLC

CONSTANTS h1, h2, m1

\* Every hold id is minted for the same matter.
OneMatter == [h \in HoldIds |-> m1]
=============================================================================
