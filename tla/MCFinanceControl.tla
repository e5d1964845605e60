-------------------------- MODULE MCFinanceControl ---------------------------
(***************************************************************************)
(* Instance of FinanceControl for TLC: an invoice with two payments, and   *)
(* no budget.                                                              *)
(***************************************************************************)
EXTENDS FinanceControl, TLC

CONSTANTS p1, p2, y1, y2

Symmetry == Permutations({p1, p2}) \cup Permutations({y1, y2})
=============================================================================
