----------------------------- MODULE MCCheckout -----------------------------
EXTENDS Checkout, TLC

Symmetry == Permutations(Persons) \cup Permutations(Baskets)
=============================================================================
