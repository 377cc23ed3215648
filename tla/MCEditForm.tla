----------------------------- MODULE MCEditForm -----------------------------
(* EditForm for TLC: products are interchangeable, and so is what they say. *)
EXTENDS EditForm, TLC
Symmetry == Permutations(Products) \cup Permutations(Texts)
=============================================================================
