------------------------------- MODULE MCInbox -------------------------------
(* The inbox for TLC: people, and the numbers that name their rows, are interchangeable. *)
EXTENDS Inbox, TLC
Sym == Permutations(Persons) \cup Permutations(Numbers)
=============================================================================
