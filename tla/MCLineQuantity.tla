--------------------------- MODULE MCLineQuantity ---------------------------
(* Small instance of LineQuantity.  Two lines are the fewest of which one is settled  *)
(* while the other still waits; two numbers are enough to step off a number and back  *)
(* onto it; three requests are the fewest of which the middle one is overtaken by the *)
(* last while the first is unanswered, and what a checkout of two stepped lines       *)
(* sends.  The step that loses a click needs one line only.                           *)
EXTENDS LineQuantity
=============================================================================
