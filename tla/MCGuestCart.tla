---------------------------- MODULE MCGuestCart ----------------------------
(* Small instance of GuestCart.  Two persons are the fewest of which one comes after  *)
(* the other; two units let a line be grown or lowered while a call for one is out;   *)
(* four visits are a sign-in, a page load, a sign-out and the next sign-in.  Persons  *)
(* and products are interchangeable.                                                  *)
EXTENDS GuestCart, TLC

Symmetry == Permutations(Persons) \cup Permutations(Products)
=============================================================================
