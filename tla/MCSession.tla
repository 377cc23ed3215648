------------------------------ MODULE MCSession ------------------------------
(* The session for TLC, in both modes.  Tabs and persons are interchangeable. *)
EXTENDS Session, TLC

Sym == Permutations(Tabs) \cup Permutations(Persons)

\* Cookie mode has fewer steps to a request, and is given more of them.
SomeInputs == [jwt |-> 2, cookie |-> 3]
FewInputs == [jwt |-> 1, cookie |-> 2]
=============================================================================
