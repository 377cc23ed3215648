----------------------------- MODULE MCPayments -----------------------------
(* Payments for TLC: orders are interchangeable. *)
EXTENDS Payments, TLC
Symmetry == Permutations(Orders)
=============================================================================
