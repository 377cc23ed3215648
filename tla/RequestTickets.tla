--------------------------- MODULE RequestTickets ---------------------------
(***************************************************************************)
(* infrastructure/utils/request-ticket.ts: the ordering every store puts   *)
(* on the answers of requests that write the same state (the cart, the     *)
(* cart summary, the inbox, the wishlist).                                 *)
(*                                                                         *)
(* The store around it is the smallest one that uses it as they do: it     *)
(* shows an answer when its claim says so, and resets the ordering when    *)
(* the person changes (use-reset-on-viewer-change.ts).  A guest is not one *)
(* of Persons: the ordering is reset when a person leaves, not when one    *)
(* arrives, so what is asked in between counts as the next person's; it    *)
(* carries nobody's data.                                                  *)
(***************************************************************************)
EXTENDS Naturals

CONSTANTS Requests,   \* the requests that can be in flight at once
          Persons,    \* who may be looking at the store
          Nobody,     \* "no answer shown"
          NoClaim,    \* "this request is not in flight"
          MaxIssued   \* bound on the tickets handed out

ASSUME MaxIssuedNat == MaxIssued \in Nat
ASSUME NobodyIsNoPerson == Nobody \notin Persons

VARIABLES
    issued,    \* the newest ticket handed out
    applied,   \* the newest ticket applied, or the barrier a reset raised
    era,       \* the number of resets
    claim,     \* what each request in flight holds: its ticket and its era
    person,    \* who the store is for
    shown,     \* the ticket of the answer on screen, 0 for none
    shownFor,  \* who asked for the answer on screen
    arrived    \* history: the tickets of this era that came back with an answer

vars == <<issued, applied, era, claim, person, shown, shownFor, arrived>>

Claim == [mine : Nat, era : Nat, for : Persons]

ASSUME NoClaimIsNone == NoClaim \notin Claim

Init == /\ issued = 0 /\ applied = 0 /\ era = 0
        /\ claim = [r \in Requests |-> NoClaim]
        /\ person \in Persons
        /\ shown = 0 /\ shownFor = Nobody
        /\ arrived = {}

InFlight(r) == claim[r] # NoClaim

IsSameEra(c) == c.era = era

\* Slip: a claim that asks for its era only.
WinsInEra(c) == IsSameEra(c)

\* Whether the claim, when asked, lets the answer through.
Wins(c) == IsSameEra(c) /\ c.mine > applied

\* Slip: a reset that skips a ticket but raises neither the era nor the barrier.
SkipTicket == /\ issued' = issued + 1
              /\ UNCHANGED <<applied, era>>

\* The three counters after a reset: every ticket taken so far is at or below the barrier.
RaiseBarrier == /\ era' = era + 1
                /\ issued' = issued + 1
                /\ applied' = issued + 1

Take(r) ==
    /\ ~InFlight(r) /\ issued < MaxIssued
    /\ issued' = issued + 1
    /\ claim' = [claim EXCEPT ![r] = [mine |-> issued + 1, era |-> era, for |-> person]]
    /\ UNCHANGED <<applied, era, person, shown, shownFor, arrived>>

\* The answer is in: the claim is asked once, and the store written if it says yes.
Answered(r) ==
    /\ InFlight(r)
    /\ IF Wins(claim[r])
       THEN /\ applied' = claim[r].mine
            /\ shown' = claim[r].mine
            /\ shownFor' = claim[r].for
       ELSE UNCHANGED <<applied, shown, shownFor>>
    /\ arrived' = IF IsSameEra(claim[r]) THEN arrived \cup {claim[r].mine} ELSE arrived
    /\ claim' = [claim EXCEPT ![r] = NoClaim]
    /\ UNCHANGED <<issued, era, person>>

\* The request failed: nobody asks its claim.
Failed(r) ==
    /\ InFlight(r)
    /\ claim' = [claim EXCEPT ![r] = NoClaim]
    /\ UNCHANGED <<issued, applied, era, person, shown, shownFor, arrived>>

\* Somebody else is signed in: the store empties and the ordering resets.
Reset(p) ==
    /\ p # person /\ issued < MaxIssued
    /\ RaiseBarrier
    /\ person' = p
    /\ shown' = 0 /\ shownFor' = Nobody
    /\ arrived' = {}
    /\ UNCHANGED claim

Next == \/ \E r \in Requests : Take(r) \/ Answered(r) \/ Failed(r)
        \/ \E p \in Persons : Reset(p)

Spec == Init /\ [][Next]_vars
-----------------------------------------------------------------------------
TypeOK == /\ issued \in Nat /\ applied \in Nat /\ era \in Nat
          /\ claim \in [Requests -> Claim \cup {NoClaim}]
          /\ person \in Persons
          /\ shown \in Nat
          /\ shownFor \in Persons \cup {Nobody}
          /\ arrived \in SUBSET Nat

\* Whatever is on screen was asked for by the person who is looking: a late answer for the
\* previous person is kept out of the next one's store (the module's own header).
OnlyTheirOwn == shownFor \in {person, Nobody}

\* Of all the answers that arrived for this person, in whatever order, the one on screen is that
\* of the request that left last.
NewestArrivedIsShown == /\ \A t \in arrived : t <= shown
                        /\ arrived # {} => shown \in arrived
                        /\ arrived = {} => shown = 0
-----------------------------------------------------------------------------
(* Refinement: the three integers implement the plain order of LatestAnswer. *)

Live == {r \in Requests : InFlight(r) /\ Wins(claim[r])}

LeftEarlier == {e \in Live \X Live : claim[e[1]].mine < claim[e[2]].mine}

Abstract == INSTANCE LatestAnswer WITH live <- Live, earlier <- LeftEarlier

\* Every step of the tickets is a step the plain order allows, or none.
ImplementsLatestAnswer == Abstract!ASpec
=============================================================================
