----------------------------- MODULE MCWishlist -----------------------------
(* The wishlist for TLC.  Three requests in flight at once are the fewest in which an  *)
(* answer can arrive between an older and a younger one, and two persons the fewest    *)
(* who can take turns and come back.                                                   *)
EXTENDS Wishlist, TLC

Symmetry == Permutations(Requests) \cup Permutations(Persons) \cup Permutations(Products)
=============================================================================
