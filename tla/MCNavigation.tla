----------------------------- MODULE MCNavigation -----------------------------
(* Navigation for TLC: the fallback, and another language, switched off and so  *)
(* offered to staff only: the fewest that overlap, and of which one is refused.    *)
EXTENDS Navigation
=============================================================================
