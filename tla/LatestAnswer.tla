---------------------------- MODULE LatestAnswer ----------------------------
(***************************************************************************)
(* What a store that shows the answer of its latest request promises,      *)
(* with no counter in sight.  Requests that may still be shown are `live`; *)
(* `earlier` says which of two live requests left first.  Showing an       *)
(* answer kills the request and every live one that left before it; a new  *)
(* person kills them all.                                                  *)
(*                                                                         *)
(* RequestTickets implements this with three integers.                     *)
(***************************************************************************)
CONSTANTS Requests, Persons, Nobody

VARIABLES live, earlier, person, shownFor

avars == <<live, earlier, person, shownFor>>

AInit == /\ live = {}
         /\ earlier = {}
         /\ person \in Persons
         /\ shownFor = Nobody

\* A request leaves: it is later than every live one.
Leave(r) == /\ r \notin live
            /\ live' = live \cup {r}
            /\ earlier' = earlier \cup (live \X {r})
            /\ UNCHANGED <<person, shownFor>>

\* Its answer is shown, to the person it was asked for.
Show(r) == /\ r \in live
           /\ live' = {s \in live : <<r, s>> \in earlier}
           /\ earlier' = {e \in earlier : <<r, e[1]>> \in earlier}
           /\ shownFor' = person
           /\ UNCHANGED person

\* It fails: nothing is shown, and nothing else dies with it.
Lose(r) == /\ r \in live
           /\ live' = live \ {r}
           /\ earlier' = {e \in earlier : e[1] # r /\ e[2] # r}
           /\ UNCHANGED <<person, shownFor>>

\* Somebody else is looking now.
Turn(p) == /\ p # person
           /\ person' = p
           /\ live' = {}
           /\ earlier' = {}
           /\ shownFor' = Nobody

ANext == \/ \E r \in Requests : Leave(r) \/ Show(r) \/ Lose(r)
         \/ \E p \in Persons : Turn(p)

ASpec == AInit /\ [][ANext]_avars
=============================================================================
