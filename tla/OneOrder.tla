------------------------------ MODULE OneOrder ------------------------------
(***************************************************************************)
(* What a checkout promises the visitor: an order is written at most once  *)
(* for a key and a person, and whoever is thanked for an order is thanked  *)
(* for one that exists, asked for with the very basket they pressed the    *)
(* button on.  (What it charges is what that basket showed; the server     *)
(* compares nothing but the total.)                                        *)
(***************************************************************************)
VARIABLES placed,  \* the orders the server wrote: a key, a person and the basket shown
          thanked  \* the orders a page said were placed

Init == placed = {} /\ thanked = {}

Place(o) == /\ \A other \in placed : other.key = o.key => other.person # o.person
            /\ placed' = placed \cup {o}
            /\ UNCHANGED thanked

Thank(o) == /\ o \in placed
            /\ thanked' = thanked \cup {o}
            /\ UNCHANGED placed

Next == \/ \E o \in placed' : Place(o)
        \/ \E o \in thanked' : Thank(o)

Spec == Init /\ [][Next]_<<placed, thanked>>
=============================================================================
