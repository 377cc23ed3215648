---------------------- MODULE TicketsAndWishlistProofs ----------------------
(***************************************************************************)
(* What RequestTickets guarantees for any number of requests, persons and  *)
(* tickets, and Wishlist, which uses it, for any products besides.         *)
(***************************************************************************)
EXTENDS Wishlist, SequenceTheorems, FiniteSetTheorems, TLAPS

\* No claim is ahead of the dispenser; a claim of an earlier era is at or below the barrier, so it
\* loses; a claim of this era was taken by the person who is looking, and is above the barrier.
ClaimsInOrder ==
    \A r \in Requests : InFlight(r) =>
        /\ claim[r].mine > 0 /\ claim[r].mine <= issued
        /\ claim[r].era <= era
        /\ claim[r].era < era => claim[r].mine <= applied
        /\ claim[r].era = era => claim[r].for = person
        /\ claim[r].era = era /\ shown = 0 => claim[r].mine > applied

\* No two requests in flight hold the same ticket.
ClaimsDistinct ==
    \A r, s \in Requests : InFlight(r) /\ InFlight(s) /\ r # s => claim[r].mine # claim[s].mine

\* The ordering and the screen agree: what is shown is the newest applied, and nothing is shown
\* exactly when nothing of this era has arrived.
ScreenFollowsApplied ==
    /\ applied <= issued
    /\ shown # 0 => shown = applied /\ shown \in arrived
    /\ shown = 0 => arrived = {} /\ shownFor = Nobody
    /\ \A t \in arrived : t > 0 /\ t <= shown
    /\ shownFor \in {person, Nobody}

IInv == TypeOK /\ ClaimsInOrder /\ ClaimsDistinct /\ ScreenFollowsApplied

LEMMA InitIInv == Init => IInv
  BY NobodyIsNoPerson
  DEF Init, IInv, TypeOK, ClaimsInOrder, ClaimsDistinct, ScreenFollowsApplied, InFlight

LEMMA TakeIInv == ASSUME NEW r \in Requests, IInv, Take(r) PROVE IInv'
<1> USE DEF IInv, InFlight, Take
<1>1. [mine |-> issued + 1, era |-> era, for |-> person] \in Claim
  BY DEF TypeOK, Claim
<1>2. TypeOK'
  BY <1>1 DEF TypeOK
<1>3. \A s \in Requests : claim'[s] = IF s = r
                            THEN [mine |-> issued + 1, era |-> era, for |-> person]
                            ELSE claim[s]
  BY DEF TypeOK
<1>4. claim \in [Requests -> Claim \cup {NoClaim}] /\ issued \in Nat /\ era \in Nat /\ applied \in Nat
  BY DEF TypeOK
<1>5. ClaimsInOrder'
  BY <1>3, <1>4 DEF ClaimsInOrder, ScreenFollowsApplied, Claim
<1>6. ClaimsDistinct'
  BY <1>3, <1>4 DEF ClaimsInOrder, ClaimsDistinct, Claim
<1>7. ScreenFollowsApplied'
  BY <1>4 DEF ScreenFollowsApplied
<1> QED BY <1>2, <1>5, <1>6, <1>7

LEMMA AnsweredIInv == ASSUME NEW r \in Requests, IInv, Answered(r) PROVE IInv'
<1> DEFINE c == claim[r]
<1> USE DEF IInv, InFlight
<1>1. c \in Claim /\ c # NoClaim
  BY DEF Answered, TypeOK
<1>2. /\ claim' \in [Requests -> Claim \cup {NoClaim}]
      /\ \A s \in Requests : claim'[s] = IF s = r THEN NoClaim ELSE claim[s]
  BY DEF Answered, TypeOK
<1>3. /\ issued' = issued /\ era' = era /\ person' = person
      /\ issued \in Nat /\ era \in Nat /\ applied \in Nat /\ shown \in Nat
      /\ claim \in [Requests -> Claim \cup {NoClaim}]
  BY DEF Answered, TypeOK
<1>4. ClaimsDistinct'
  BY <1>2 DEF ClaimsDistinct
<1>5. CASE Wins(c)
  <2>1. /\ c.era = era /\ c.mine > applied /\ c.for = person
        /\ applied' = c.mine /\ shown' = c.mine /\ shownFor' = person
        /\ arrived' = arrived \cup {c.mine}
    BY <1>1, <1>5 DEF Answered, Wins, IsSameEra, ClaimsInOrder
  <2>2. TypeOK'
    BY <1>1, <1>2, <1>3, <2>1 DEF TypeOK, Claim
  <2>3. ClaimsInOrder'
    BY <1>1, <1>2, <1>3, <2>1 DEF ClaimsInOrder, Claim
  <2>4. ScreenFollowsApplied'
    <3>1. c.mine > 0 /\ c.mine <= issued /\ c.mine \in Nat
      BY <1>1 DEF ClaimsInOrder, Claim
    <3>2. \A t \in arrived : t > 0 /\ t <= applied
      BY <1>3 DEF ScreenFollowsApplied
    <3> QED
      BY <1>3, <2>1, <3>1, <3>2 DEF ScreenFollowsApplied, TypeOK
  <2> QED BY <1>4, <2>2, <2>3, <2>4
<1>6. CASE ~Wins(c)
  <2>1. /\ applied' = applied /\ shown' = shown /\ shownFor' = shownFor
        /\ arrived' = IF c.era = era THEN arrived \cup {c.mine} ELSE arrived
    BY <1>6 DEF Answered, IsSameEra
  <2>2. c.era = era => c.mine <= applied
    BY <1>1, <1>3, <1>6 DEF Wins, IsSameEra, Claim
  <2>3. TypeOK'
    BY <1>1, <1>2, <1>3, <2>1 DEF TypeOK, Claim
  <2>4. ClaimsInOrder'
    BY <1>2, <1>3, <2>1 DEF ClaimsInOrder
  <2>5. ScreenFollowsApplied'
    <3>1. c.mine > 0 /\ c.mine \in Nat
      BY <1>1 DEF ClaimsInOrder, Claim
    <3>2. c.era = era => shown # 0
      BY <1>1, <1>3, <2>2, <3>1 DEF ClaimsInOrder, Claim
    <3> QED
      BY <1>3, <2>1, <2>2, <3>1, <3>2 DEF ScreenFollowsApplied
  <2> QED BY <1>4, <2>3, <2>4, <2>5
<1> QED BY <1>5, <1>6

LEMMA FailedIInv == ASSUME NEW r \in Requests, IInv, Failed(r) PROVE IInv'
<1>1. \A s \in Requests : claim'[s] = IF s = r THEN NoClaim ELSE claim[s]
  BY DEF IInv, TypeOK, Failed
<1>2. TypeOK'
  BY DEF IInv, TypeOK, Failed
<1>3. ClaimsInOrder' /\ ClaimsDistinct'
  BY <1>1 DEF IInv, ClaimsInOrder, ClaimsDistinct, InFlight, Failed
<1>4. ScreenFollowsApplied'
  BY DEF IInv, ScreenFollowsApplied, Failed
<1> QED BY <1>2, <1>3, <1>4 DEF IInv

LEMMA ResetIInv == ASSUME NEW p \in Persons, IInv, Reset(p) PROVE IInv'
<1> USE DEF IInv, Reset, RaiseBarrier
<1>1. TypeOK'
  BY DEF TypeOK
<1>2. ClaimsDistinct'
  BY DEF ClaimsDistinct, InFlight
<1>3. \A r \in Requests : InFlight(r) => claim[r].era < era' /\ claim[r].mine <= applied'
                                      /\ claim[r].mine <= issued' /\ claim[r].mine > 0
                                      /\ claim[r].era \in Nat
  BY DEF TypeOK, ClaimsInOrder, InFlight, Claim
<1>4. ClaimsInOrder'
  BY <1>3 DEF TypeOK, ClaimsInOrder, InFlight
<1>5. ScreenFollowsApplied'
  BY DEF TypeOK, ScreenFollowsApplied
<1> QED BY <1>1, <1>2, <1>4, <1>5

\* The inductive invariant: every state the store can reach keeps the claims and the screen in
\* order.
THEOREM Inductive == Spec => []IInv
<1>1. IInv /\ [Next]_vars => IInv'
  <2> SUFFICES ASSUME IInv, [Next]_vars PROVE IInv'
    OBVIOUS
  <2>1. CASE \E r \in Requests : Take(r) \/ Answered(r) \/ Failed(r)
    BY <2>1, TakeIInv, AnsweredIInv, FailedIInv
  <2>2. CASE \E p \in Persons : Reset(p)
    BY <2>2, ResetIInv
  <2>3. CASE UNCHANGED vars
    BY <2>3 DEF vars, IInv, TypeOK, ClaimsInOrder, ClaimsDistinct, ScreenFollowsApplied, InFlight
  <2> QED BY <2>1, <2>2, <2>3 DEF Next
<1> QED BY InitIInv, <1>1, PTL DEF Spec
-----------------------------------------------------------------------------
\* The store never leaves its type: no counter goes negative, no claim is malformed.
THEOREM TypeCorrect == Spec => []TypeOK
  BY Inductive, PTL DEF IInv

\* A late answer for a previous person never reaches the screen of the next one, whatever the
\* number of requests in flight and of changes of person (request-ticket.ts:6-7).
THEOREM OnlyTheirOwnAlways == Spec => []OnlyTheirOwn
<1>1. IInv => OnlyTheirOwn
  BY DEF IInv, ScreenFollowsApplied, OnlyTheirOwn
<1> QED BY Inductive, <1>1, PTL

\* Whatever the order in which the answers come back, the one on screen is that of the request
\* that left last among those that came back (request-ticket.ts:4-5).
THEOREM NewestArrivedIsShownAlways == Spec => []NewestArrivedIsShown
<1>1. IInv => NewestArrivedIsShown
  BY DEF IInv, ScreenFollowsApplied, NewestArrivedIsShown
<1> QED BY Inductive, <1>1, PTL
-----------------------------------------------------------------------------
(* RequestTickets implements LatestAnswer. *)

LEMMA AnswerShows ==
    ASSUME NEW r \in Requests, IInv, Answered(r), Wins(claim[r])
    PROVE  Abstract!Show(r)
<1> DEFINE c == claim[r]
<1>1. /\ claim \in [Requests -> Claim \cup {NoClaim}] /\ c \in Claim
      /\ issued \in Nat /\ applied \in Nat /\ era \in Nat
      /\ r \in Live
  BY DEF IInv, TypeOK, Answered, InFlight, Live
<1>2. /\ applied' = c.mine /\ era' = era /\ shownFor' = person /\ person' = person
      /\ c.mine > applied
      /\ \A s \in Requests : claim'[s] = IF s = r THEN NoClaim ELSE claim[s]
  BY <1>1 DEF Answered, Wins, IsSameEra, IInv, ClaimsInOrder, InFlight
<1>3. Live' = {s \in Live : c.mine < claim[s].mine}
  BY <1>1, <1>2 DEF Live, InFlight, Wins, IsSameEra, Claim
<1>4. \A s \in Live : <<r, s>> \in LeftEarlier <=> c.mine < claim[s].mine
  BY <1>1 DEF LeftEarlier
<1>5. Live' = {s \in Live : <<r, s>> \in LeftEarlier}
  BY <1>3, <1>4
<1>6. \A s \in Live' : s # r /\ s \in Requests
  BY <1>1, <1>3 DEF Live, Claim
<1>7. LeftEarlier' = {e \in Live' \X Live' : claim[e[1]].mine < claim[e[2]].mine}
  BY <1>2, <1>6 DEF LeftEarlier
<1>8. \A a, b \in Live : claim[a].mine \in Nat /\ claim[b].mine \in Nat
  BY <1>1 DEF Live, InFlight, Claim
<1>9. LeftEarlier' = {e \in LeftEarlier : <<r, e[1]>> \in LeftEarlier}
  <2>1. ASSUME NEW e \in LeftEarlier'
        PROVE  e \in LeftEarlier /\ <<r, e[1]>> \in LeftEarlier
    BY <1>3, <1>4, <1>7, <2>1 DEF LeftEarlier
  <2>2. ASSUME NEW e \in LeftEarlier, <<r, e[1]>> \in LeftEarlier
        PROVE  e \in LeftEarlier'
    <3>1. e[1] \in Live /\ e[2] \in Live /\ claim[e[1]].mine < claim[e[2]].mine /\ e = <<e[1], e[2]>>
      BY DEF LeftEarlier
    <3>2. c.mine < claim[e[1]].mine
      BY <1>4, <2>2, <3>1
    <3>3. c.mine < claim[e[2]].mine
      BY <1>1, <1>8, <3>1, <3>2 DEF Claim
    <3> QED BY <1>3, <1>7, <3>1, <3>2, <3>3
  <2> QED BY <2>1, <2>2
<1> QED BY <1>1, <1>2, <1>5, <1>9 DEF Abstract!Show

LEMMA LateAnswerStutters ==
    ASSUME NEW r \in Requests, IInv, Answered(r), ~Wins(claim[r])
    PROVE  UNCHANGED Abstract!avars
<1>1. /\ UNCHANGED <<applied, era, shownFor, person>>
      /\ \A s \in Requests : claim'[s] = IF s = r THEN NoClaim ELSE claim[s]
  BY DEF Answered, IInv, TypeOK
<1>2. Live' = Live /\ r \notin Live
  BY <1>1 DEF Live, InFlight, Wins, IsSameEra
<1>3. \A s \in Live : claim'[s] = claim[s]
  BY <1>1, <1>2 DEF Live
<1>4. LeftEarlier' = LeftEarlier
  BY <1>2, <1>3 DEF LeftEarlier
<1> QED BY <1>1, <1>2, <1>4 DEF Abstract!avars

LEMMA TakeLeaves == ASSUME NEW r \in Requests, IInv, Take(r) PROVE Abstract!Leave(r)
<1>1. /\ claim \in [Requests -> Claim \cup {NoClaim}]
      /\ issued \in Nat /\ applied \in Nat /\ era \in Nat /\ person \in Persons
      /\ applied <= issued
  BY DEF IInv, TypeOK, ScreenFollowsApplied
<1>2. /\ UNCHANGED <<applied, era, shownFor, person>>
      /\ claim'[r] # NoClaim /\ claim'[r].mine = issued + 1 /\ claim'[r].era = era
      /\ \A s \in Requests : s # r => claim'[s] = claim[s]
      /\ claim[r] = NoClaim
  BY <1>1, NoClaimIsNone DEF Take, Claim, InFlight
<1>3. Live' = Live \cup {r} /\ r \notin Live
  BY <1>1, <1>2 DEF Live, InFlight, Wins, IsSameEra
<1>4. \A s \in Live : s \in Requests /\ s # r /\ claim'[s] = claim[s]
                    /\ claim[s].mine \in Nat /\ claim[s].mine < issued + 1
  BY <1>1, <1>2, <1>3 DEF Live, InFlight, IInv, ClaimsInOrder, Claim
<1>5. LeftEarlier' = LeftEarlier \cup (Live \X {r})
  BY <1>1, <1>2, <1>3, <1>4 DEF LeftEarlier
<1> QED BY <1>2, <1>3, <1>5 DEF Abstract!Leave

LEMMA FailureLoses ==
    ASSUME NEW r \in Requests, IInv, Failed(r)
    PROVE  Abstract!Lose(r) \/ UNCHANGED Abstract!avars
<1>1. /\ UNCHANGED <<applied, era, shownFor, person>>
      /\ \A s \in Requests : claim'[s] = IF s = r THEN NoClaim ELSE claim[s]
  BY DEF Failed, IInv, TypeOK
<1>2. Live' = Live \ {r}
  BY <1>1 DEF Live, InFlight, Wins, IsSameEra
<1>3. \A s \in Live' : claim'[s] = claim[s]
  BY <1>1, <1>2 DEF Live
<1>4. LeftEarlier' = {e \in LeftEarlier : e[1] # r /\ e[2] # r}
  BY <1>2, <1>3 DEF LeftEarlier
<1>5. CASE r \in Live
  BY <1>1, <1>2, <1>4, <1>5 DEF Abstract!Lose
<1>6. CASE r \notin Live
  <2>1. LeftEarlier' = LeftEarlier /\ Live' = Live
    BY <1>2, <1>4, <1>6 DEF LeftEarlier
  <2> QED BY <1>1, <2>1 DEF Abstract!avars
<1> QED BY <1>5, <1>6

LEMMA ResetTurns == ASSUME NEW p \in Persons, IInv, Reset(p) PROVE Abstract!Turn(p)
<1>1. Live' = {}
  BY DEF IInv, TypeOK, ClaimsInOrder, Reset, RaiseBarrier, Live, InFlight, Wins, IsSameEra, Claim
<1>2. LeftEarlier' = {}
  BY <1>1 DEF LeftEarlier
<1> QED BY <1>1, <1>2 DEF Reset, Abstract!Turn

\* The dispenser's three integers implement the plain order of LatestAnswer: an answer is shown
\* exactly when no later request of the same person has been shown.
THEOREM Refines == Spec => ImplementsLatestAnswer
<1>1. Init => Abstract!AInit
  <2> SUFFICES ASSUME Init PROVE Abstract!AInit
    OBVIOUS
  <2>1. Live = {}
    BY DEF Init, Live, InFlight
  <2>2. LeftEarlier = {}
    BY <2>1 DEF LeftEarlier
  <2> QED BY <2>1, <2>2 DEF Init, Abstract!AInit
<1>2. IInv /\ [Next]_vars => [Abstract!ANext]_(Abstract!avars)
  <2> SUFFICES ASSUME IInv, [Next]_vars PROVE [Abstract!ANext]_(Abstract!avars)
    OBVIOUS
  <2>1. CASE \E r \in Requests : Take(r)
    BY <2>1, TakeLeaves DEF Abstract!ANext
  <2>2. CASE \E r \in Requests : Answered(r)
    BY <2>2, AnswerShows, LateAnswerStutters DEF Abstract!ANext
  <2>3. CASE \E r \in Requests : Failed(r)
    BY <2>3, FailureLoses DEF Abstract!ANext
  <2>4. CASE \E p \in Persons : Reset(p)
    BY <2>4, ResetTurns DEF Abstract!ANext
  <2>5. CASE UNCHANGED vars
    BY <2>5 DEF vars, Abstract!avars, Live, LeftEarlier, InFlight, Wins, IsSameEra
  <2> QED BY <2>1, <2>2, <2>3, <2>4, <2>5 DEF Next
<1> QED BY Inductive, <1>1, <1>2, PTL DEF Spec, ImplementsLatestAnswer, Abstract!ASpec
-----------------------------------------------------------------------------
(* The wishlist: its requests take tickets as any store's do *)

LEMMA OutcomeKeepsTickets ==
    ASSUME NEW r, NEW list, NEW inCart, NEW fails, Outcome(r, list, inCart, fails)
    PROVE  UNCHANGED vars
  BY DEF Outcome

\* Each step of the wishlist is one of the tickets' or leaves them alone.
LEMMA WishlistTakesTickets == ASSUME [WishlistNext]_wvars PROVE [Next]_vars
<1>1. CASE \E r \in Requests : \/ fetchWishlist(r) \/ ensureWishlist(r)
                               \/ \E p \in Products : \/ Toggle(r, p)
                                                      \/ PressLine(r, p, "remove")
                                                      \/ PressLine(r, p, "move")
  BY <1>1 DEF fetchWishlist, ensureWishlist, Toggle, PressLine, replaceItems, Next
<1>2. CASE \E r \in Requests : Handle(r)
  BY <1>2, OutcomeKeepsTickets DEF Handle
<1>3. CASE \E r \in Requests : Lands(r) \/ Fails(r)
  BY <1>3 DEF Lands, Fails, Next
<1>4. CASE \E i \in DOMAIN cartReads : HandleCartRead(i) \/ CartReadLands(i) \/ CartReadFails(i)
  BY <1>4 DEF HandleCartRead, CartReadLands, CartReadFails
<1>5. CASE \E p \in Products : Elsewhere(p)
  BY <1>5 DEF Elsewhere
<1>6. CASE \E p \in Persons : ViewerChanges(p)
  BY <1>6 DEF ViewerChanges, Next
<1>7. CASE UNCHANGED wvars
  BY <1>7 DEF wvars
<1> QED BY <1>1, <1>2, <1>3, <1>4, <1>5, <1>6, <1>7 DEF WishlistNext

\* A wishlist is a store on the tickets: whatever it does, they see a run of their own, so that
\* everything above holds of it (store.ts 41-45).
THEOREM WishlistKeepsTickets == WishlistSpec => Spec
<1>1. WishlistInit => Init
  BY DEF WishlistInit
<1> QED BY <1>1, WishlistTakesTickets, PTL DEF WishlistSpec, Spec

LEMMA TicketsStep == ASSUME IInv, [WishlistNext]_wvars PROVE IInv'
<1>1. CASE \E r \in Requests : Take(r) \/ Answered(r) \/ Failed(r)
  BY <1>1, TakeIInv, AnsweredIInv, FailedIInv
<1>2. CASE \E p \in Persons : Reset(p)
  BY <1>2, ResetIInv
<1>3. CASE UNCHANGED vars
  BY <1>3 DEF vars, IInv, TypeOK, ClaimsInOrder, ClaimsDistinct, ScreenFollowsApplied, InFlight
<1> QED BY <1>1, <1>2, <1>3, WishlistTakesTickets DEF Next

-----------------------------------------------------------------------------
(* What its steps do to the calls *)

\* A call leaves: its request's record is new.
Leaves(r) == fetchWishlist(r) \/ ensureWishlist(r)
                \/ \E p \in Products : Toggle(r, p) \/ PressLine(r, p, "remove") \/ PressLine(r, p, "move")

LEMMA LeavesDoes ==
    ASSUME WishlistTypeOK, NEW r \in Requests, Leaves(r)
    PROVE  \E what \in Kinds, product \in {{}} \cup {{p} : p \in Products} :
               /\ replaceItems(r, what, product)
               /\ what = "heart" => shared = NoRead /\ shared' = r
               /\ what # "heart" => shared' = shared
<1>1. CASE fetchWishlist(r)
  BY <1>1 DEF fetchWishlist, Kinds
<1>2. CASE ensureWishlist(r)
  BY <1>2 DEF ensureWishlist, NobodyAsked, Kinds
<1>3. CASE \E p \in Products : Toggle(r, p) \/ PressLine(r, p, "remove") \/ PressLine(r, p, "move")
  <2> PICK p \in Products : Toggle(r, p) \/ PressLine(r, p, "remove") \/ PressLine(r, p, "move")
    BY <1>3
  <2>1. {p} \in {{}} \cup {{q} : q \in Products}
    OBVIOUS
  <2>2. CASE Toggle(r, p)
    <3>1. CASE p \in items
      BY <2>1, <2>2, <3>1 DEF Toggle, Kinds
    <3>2. CASE p \notin items
      BY <2>1, <2>2, <3>2 DEF Toggle, Kinds
    <3> QED BY <3>1, <3>2
  <2>3. CASE PressLine(r, p, "remove") \/ PressLine(r, p, "move")
    BY <2>1, <2>3 DEF PressLine, Kinds
  <2> QED BY <2>2, <2>3
<1> QED BY <1>1, <1>2, <1>3 DEF Leaves

\* What the API makes of a request: a list only a write that succeeds changes, a cart only a move.
LEMMA HandleDoes ==
    ASSUME WishlistTypeOK, NEW r \in Requests, Handle(r)
    PROVE  \E list \in SUBSET Products, inCart \in SUBSET Products, fails \in BOOLEAN :
               /\ InFlight(r) /\ call[r].at = "sent" /\ claim[r].for \in Persons
               /\ Outcome(r, list, inCart, fails)
               /\ fails \/ call[r].what \notin Writes => list = saved[claim[r].for]
               /\ inCart # basket[claim[r].for] => call[r].what = "move"
<1> DEFINE who == claim[r].for
           product == call[r].product
<1>1. /\ who \in Persons /\ saved[who] \subseteq Products /\ basket[who] \subseteq Products
      /\ product \subseteq Products
      /\ product = {} \/ \E p \in Products : product = {p}
      /\ InFlight(r) /\ call[r].at = "sent"
  BY DEF WishlistTypeOK, TypeOK, Claim, Call, Handle, InFlight
<1>2. ~(product \subseteq saved[who]) => saved[who] \ product = saved[who]
  BY <1>1
<1> HIDE DEF who, product
<1>3. CASE call[r].what \in {"read", "heart"} /\ Outcome(r, saved[who], basket[who], FALSE)
  BY <1>1, <1>3 DEF who
<1>4. CASE call[r].what = "add" /\ Outcome(r, saved[who] \cup product, basket[who], FALSE)
  <2>1. call[r].what \in Writes /\ saved[who] \cup product \in SUBSET Products
    BY <1>1, <1>4 DEF Writes
  <2> QED BY <1>1, <1>4, <2>1 DEF who
<1>5. CASE call[r].what = "remove"
           /\ Outcome(r, saved[who] \ product, basket[who], ~(product \subseteq saved[who]))
  <2> DEFINE fails == ~(product \subseteq saved[who])
  <2>1. call[r].what \in Writes /\ saved[who] \ product \in SUBSET Products /\ fails \in BOOLEAN
    BY <1>1, <1>5 DEF Writes
  <2>2. fails => saved[who] \ product = saved[who]
    BY <1>2
  <2>3. Outcome(r, saved[who] \ product, basket[who], fails)
    BY <1>5
  <2> HIDE DEF fails
  <2> QED BY <1>1, <2>1, <2>2, <2>3 DEF who
<1>6. CASE call[r].what = "move" /\ Outcome(r, saved[who] \ product, basket[who] \cup product, FALSE)
  <2>1. call[r].what \in Writes /\ saved[who] \ product \in SUBSET Products
        /\ basket[who] \cup product \in SUBSET Products
    BY <1>1, <1>6 DEF Writes
  <2> QED BY <1>1, <1>6, <2>1 DEF who
<1>7. CASE call[r].what = "move" /\ Outcome(r, saved[who], basket[who] \cup product, TRUE)
  <2>1. basket[who] \cup product \in SUBSET Products
    BY <1>1
  <2> QED BY <1>1, <1>7, <2>1 DEF who
<1>8. CASE call[r].what = "move" /\ Outcome(r, saved[who], basket[who], TRUE)
  BY <1>1, <1>8 DEF who
<1> QED BY <1>3, <1>4, <1>5, <1>6, <1>7, <1>8 DEF Handle, who, product

\* What comes of a call while others are handled or lost: it may fall in doubt, nothing else.
Same(c, d) == d.what = c.what /\ d.at = c.at /\ d.list = c.list /\ d.product = c.product

LEMMA OutcomeDoes ==
    ASSUME WishlistTypeOK, NEW r \in Requests, InFlight(r),
           NEW list \in SUBSET Products, NEW inCart \in SUBSET Products, NEW fails \in BOOLEAN,
           Outcome(r, list, inCart, fails)
    PROVE  \E strange \in BOOLEAN :
               /\ call[r].what \in Writes /\ Overtaken(r) => strange
               /\ odd' \in BOOLEAN /\ (odd' <=> odd \/ strange)
               /\ call' \in [Requests -> Call]
               /\ \A s \in Requests : s # r => Same(call[s], call'[s])
               /\ \A s \in Requests : call'[s].doubt <=> call[s].doubt \/ (strange /\ InFlight(s))
               /\ call'[r].what = call[r].what
               /\ call'[r].at = (IF fails THEN "refused" ELSE "done")
               /\ call'[r].list = (IF fails THEN {} ELSE list)
<1> DEFINE who == claim[r].for
<1> DEFINE odder == (call[r].what \in Writes /\ Overtaken(r)) \/ (fails /\ inCart # basket[who])
<1> PICK strange \in BOOLEAN : strange = odder
  OBVIOUS
<1>0. call[r].what \in Writes /\ Overtaken(r) => strange
  OBVIOUS
<1>1. call \in [Requests -> Call] /\ odd \in BOOLEAN
  BY DEF WishlistTypeOK
<1> PICK f : f = IF strange THEN InDoubt ELSE call
  OBVIOUS
<1> PICK at : at = IF fails THEN "refused" ELSE "done"
  OBVIOUS
<1> PICK told : told = IF fails THEN {} ELSE list
  OBVIOUS
<1>2. /\ call' = [f EXCEPT ![r].at = at, ![r].product = {}, ![r].list = told]
      /\ odd' = (odd \/ strange)
  <2>1. /\ call' = [IF odder THEN InDoubt ELSE call EXCEPT
                        ![r].at = IF fails THEN "refused" ELSE "done",
                        ![r].product = {}, ![r].list = IF fails THEN {} ELSE list]
        /\ odd' = (odd \/ odder)
    BY DEF Outcome
  <2> HIDE DEF odder
  <2> QED BY <2>1
<1>3. at \in {"refused", "done"} /\ told \in SUBSET Products
  OBVIOUS
<1>4. f \in [Requests -> Call]
      /\ \A s \in Requests : Same(call[s], f[s]) /\ (f[s].doubt <=> call[s].doubt \/ (strange /\ InFlight(s)))
  <2>1. CASE ~strange
    BY <1>1, <2>1 DEF Same
  <2>2. CASE strange
    <3>1. f = InDoubt
      BY <2>2
    <3>2. InDoubt = [s \in Requests |-> IF InFlight(s) THEN [call[s] EXCEPT !.doubt = TRUE] ELSE call[s]]
      BY DEF InDoubt
    <3>3. ASSUME NEW s \in Requests
          PROVE  /\ f[s] \in Call /\ Same(call[s], f[s])
                 /\ f[s].doubt <=> call[s].doubt \/ InFlight(s)
      <4>1. call[s] \in Call
        BY <1>1
      <4>2. CASE InFlight(s)
        <5>1. f[s] = [call[s] EXCEPT !.doubt = TRUE]
          BY <3>1, <3>2, <4>2
        <5>2. f[s].doubt /\ f[s] \in Call
          BY <4>1, <5>1 DEF Call
        <5>3. Same(call[s], f[s])
          BY <4>1, <5>1 DEF Call, Same
        <5> QED BY <4>2, <5>2, <5>3
      <4>3. CASE ~InFlight(s)
        <5>1. f[s] = call[s]
          BY <3>1, <3>2, <4>3
        <5> QED BY <4>1, <4>3, <5>1 DEF Same
      <4> QED BY <4>2, <4>3
    <3>4. f = [s \in Requests |-> f[s]]
      BY <3>1, <3>2
    <3> QED BY <2>2, <3>3, <3>4
  <2> QED BY <2>1, <2>2
<1>5. /\ call' \in [Requests -> Call]
      /\ \A s \in Requests : s # r => call'[s] = f[s]
      /\ call'[r].what = f[r].what /\ call'[r].doubt = f[r].doubt
      /\ call'[r].at = at /\ call'[r].list = told
  <2>1. f[r] \in Call
    BY <1>4
  <2> DEFINE c == [f[r] EXCEPT !.at = at, !.product = {}, !.list = told]
  <2>2. c.what = f[r].what /\ c.doubt = f[r].doubt /\ c.at = at /\ c.list = told
    BY <2>1 DEF Call
  <2>3. c \in Call
    BY <1>3, <2>1 DEF Call
  <2>4. call' = [f EXCEPT ![r] = c]
    BY <1>2, <1>4
  <2> HIDE DEF c
  <2> QED BY <1>4, <2>2, <2>3, <2>4
<1>6. \A s \in Requests : s # r => Same(call[s], call'[s])
  BY <1>4, <1>5
<1>7. \A s \in Requests : call'[s].doubt <=> call[s].doubt \/ (strange /\ InFlight(s))
  BY <1>4, <1>5
<1>8. call'[r].what = call[r].what
  BY <1>4, <1>5 DEF Same
<1>9. odd' \in BOOLEAN /\ (odd' <=> odd \/ strange)
  BY <1>1, <1>2
<1> HIDE DEF odder
<1> WITNESS strange \in BOOLEAN
<1> QED BY <1>0, <1>5, <1>6, <1>7, <1>8, <1>9

\* A line removed elsewhere, and a write whose answer is lost, put every call in doubt.
LEMMA DoubtDoes ==
    ASSUME WishlistTypeOK
    PROVE  /\ InDoubt \in [Requests -> Call]
           /\ \A s \in Requests : Same(call[s], InDoubt[s])
           /\ \A s \in Requests : InDoubt[s].doubt <=> call[s].doubt \/ InFlight(s)
<1> PICK f : f = InDoubt
  OBVIOUS
<1>1. f = [s \in Requests |-> IF InFlight(s) THEN [call[s] EXCEPT !.doubt = TRUE] ELSE call[s]]
  BY DEF InDoubt
<1>2. ASSUME NEW s \in Requests
      PROVE  f[s] \in Call /\ Same(call[s], f[s]) /\ (f[s].doubt <=> call[s].doubt \/ InFlight(s))
  <2>1. call[s] \in Call
    BY DEF WishlistTypeOK
  <2>2. CASE InFlight(s)
    <3>1. f[s] = [call[s] EXCEPT !.doubt = TRUE]
      BY <1>1, <2>2
    <3>2. f[s].doubt /\ f[s] \in Call
      BY <2>1, <3>1 DEF Call
    <3>3. Same(call[s], f[s])
      BY <2>1, <3>1 DEF Call, Same
    <3> QED BY <2>2, <3>2, <3>3
  <2>3. CASE ~InFlight(s)
    <3>1. f[s] = call[s]
      BY <1>1, <2>3
    <3> QED BY <2>1, <2>3, <3>1 DEF Same
  <2> QED BY <2>2, <2>3
<1>3. f = [s \in Requests |-> f[s]]
  BY <1>1
<1> QED BY <1>2, <1>3

LEMMA NoCallType == NoCall \in Call
  BY DEF NoCall, Call, Kinds

\* A call that failed: where the API had done what it asks, nobody knows.
LEMMA FailsDoes ==
    ASSUME WishlistTypeOK, NEW r \in Requests, Fails(r)
    PROVE  \E unheard \in BOOLEAN :
               /\ unheard <=> call[r].at = "done" /\ call[r].what \in Writes
               /\ odd' \in BOOLEAN /\ (odd' <=> odd \/ unheard)
               /\ call' \in [Requests -> Call] /\ call'[r] = NoCall
               /\ \A s \in Requests : s # r => Same(call[s], call'[s])
               /\ \A s \in Requests :
                      s # r => (call'[s].doubt <=> call[s].doubt \/ (unheard /\ InFlight(s)))
               /\ moved' \in BOOLEAN /\ (moved' => moved /\ ~(unheard /\ Unheard(r)))
<1> PICK unheard \in BOOLEAN : unheard <=> call[r].at = "done" /\ call[r].what \in Writes
  OBVIOUS
<1> PICK f : f = IF unheard THEN InDoubt ELSE call
  OBVIOUS
<1>1. /\ odd' = (odd \/ unheard)
      /\ call' = [f EXCEPT ![r] = NoCall]
      /\ moved' = (moved /\ ~(unheard /\ Unheard(r)))
  BY DEF Fails
<1>2. call \in [Requests -> Call] /\ odd \in BOOLEAN /\ moved \in BOOLEAN
  BY DEF WishlistTypeOK
<1>3. f \in [Requests -> Call]
      /\ \A s \in Requests : Same(call[s], f[s]) /\ (f[s].doubt <=> call[s].doubt \/ (unheard /\ InFlight(s)))
  <2>1. CASE unheard
    BY <2>1, DoubtDoes
  <2>2. CASE ~unheard
    BY <1>2, <2>2 DEF Same
  <2> QED BY <2>1, <2>2
<1>4. /\ call' \in [Requests -> Call] /\ call'[r] = NoCall
      /\ \A s \in Requests : s # r => call'[s] = f[s]
  BY <1>1, <1>3, NoCallType
<1>5. odd' \in BOOLEAN /\ (odd' <=> odd \/ unheard)
      /\ moved' \in BOOLEAN /\ (moved' => moved /\ ~(unheard /\ Unheard(r)))
  BY <1>1, <1>2
<1> QED BY <1>3, <1>4, <1>5

-----------------------------------------------------------------------------
(* What the wishlist keeps *)

\* Of the hearts' reads of this era only the one the store remembers is out.
HeartIsShared ==
    ~forgot => \A r \in Requests : InFlight(r) /\ call[r].what = "heart" /\ IsSameEra(claim[r])
                                       => shared = r

\* A read of the cart that may still be shown is of the person looking.
LiveReadsAreTheirs == \A i \in 1..Len(cartReads) : ~cartReads[i].dead => cartReads[i].for = person

\* After a move that came back the cart shown is the API's, or about to be: a further move is to be
\* heard of, or the read that left last brings it.
MoveToBeHeard ==
    \E r \in Requests : InFlight(r) /\ call[r].what = "move" /\ call[r].at = "done"
                           /\ claim[r].for = person

LastReadBrings(s) ==
    /\ Len(s) > 0 /\ ~s[Len(s)].dead
    /\ s[Len(s)].at = "done" => s[Len(s)].list = basket[person]

CartToCome ==
    moved => \/ MoveToBeHeard
             \/ LastReadBrings(cartReads)
             \/ (\A i \in 1..Len(cartReads) : cartReads[i].dead) /\ cart = basket[person]

\* A claim of an earlier era is older than every one of a later era, and no answer arrives twice.
TicketOrder ==
    \A r \in Requests : InFlight(r) =>
        /\ \A s \in Requests : InFlight(s) /\ claim[r].era < claim[s].era => claim[r].mine < claim[s].mine
        /\ \A t \in arrived : claim[r].mine # t /\ (claim[r].era < era => claim[r].mine < t)

\* Whatever left before a request in doubt is in doubt too.
DoubtIsOld ==
    \A r, s \in Requests :
        InFlight(r) /\ InFlight(s) /\ call[r].doubt /\ claim[s].mine < claim[r].mine => call[s].doubt

\* Once an answer has told what escaped the store, none in doubt can be shown.
WinnersAreSure == ~odd => \A r \in Requests : InFlight(r) /\ Wins(claim[r]) => ~call[r].doubt

\* What is to be shown, and the writes among it.
Told(r) == InFlight(r) /\ call[r].at = "done" /\ Wins(claim[r])
Written(r) == Told(r) /\ call[r].what \in Writes

\* An answer to come that is in no doubt, with no write behind it to come, tells what the API has.
SureTellSaved ==
    \A r \in Requests :
        Told(r) /\ ~call[r].doubt /\ (\A w \in Requests : Written(w) => claim[w].mine <= claim[r].mine)
            => call[r].list = saved[person]

\* What is on screen is what the API has, but for a write whose answer is to come.
ShowsSaved ==
    ~odd /\ arrived # {} /\ (\A w \in Requests : ~Written(w)) => items = saved[person]

HeartsInv == TicketOrder /\ DoubtIsOld /\ WinnersAreSure /\ SureTellSaved /\ ShowsSaved

CartInv == LiveReadsAreTheirs /\ CartToCome

WInv == IInv /\ WishlistTypeOK /\ HeartIsShared /\ CartInv /\ HeartsInv

LEMMA InitWInv == WishlistInit => WInv
<1> SUFFICES ASSUME WishlistInit PROVE WInv
  OBVIOUS
<1>1. Init
  BY DEF WishlistInit
<1>2. \A r \in Requests : ~InFlight(r)
  BY <1>1 DEF Init, InFlight
<1>3. IInv
  BY <1>1, InitIInv
<1>4. WishlistTypeOK
  <2>1. saved \in [Persons -> SUBSET Products] /\ basket \in [Persons -> SUBSET Products]
    BY ListsOfProducts DEF WishlistInit
  <2>2. call \in [Requests -> Call]
    BY NoCallType DEF WishlistInit
  <2>3. cartReads \in Seq(CartRead)
    BY DEF WishlistInit
  <2>4. /\ items \subseteq Products /\ cart \subseteq Products
        /\ shared \in Requests \cup {NoRead} /\ elsewhere \in Nat
        /\ loading \in BOOLEAN /\ odd \in BOOLEAN /\ moved \in BOOLEAN /\ forgot \in BOOLEAN
    BY DEF WishlistInit
  <2> QED BY <1>3, <2>1, <2>2, <2>3, <2>4 DEF WishlistTypeOK, IInv
<1>5. HeartIsShared /\ TicketOrder /\ DoubtIsOld /\ WinnersAreSure /\ SureTellSaved
  BY <1>2 DEF HeartIsShared, TicketOrder, DoubtIsOld, WinnersAreSure, SureTellSaved, Told
<1>6. ShowsSaved
  BY <1>1 DEF Init, ShowsSaved
<1>7. CartInv
  BY DEF WishlistInit, CartInv, LiveReadsAreTheirs, CartToCome
<1> QED BY <1>3, <1>4, <1>5, <1>6, <1>7 DEF WInv, HeartsInv

\* What the claims are, as numbers.
LEMMA Claims ==
    ASSUME IInv
    PROVE  /\ issued \in Nat /\ applied \in Nat /\ era \in Nat /\ person \in Persons
           /\ shown \in Nat /\ applied <= issued
           /\ \A r \in Requests : InFlight(r) =>
                 /\ claim[r] \in Claim /\ claim[r].mine \in Nat /\ claim[r].era \in Nat
                 /\ claim[r].for \in Persons
                 /\ claim[r].mine <= issued /\ claim[r].era <= era
                 /\ claim[r].era < era => claim[r].mine <= applied
                 /\ claim[r].era = era => claim[r].for = person
           /\ \A r \in Requests : InFlight(r) /\ arrived = {} /\ claim[r].era = era => claim[r].mine > applied
           /\ \A t \in arrived : t \in Nat /\ t <= applied
           /\ arrived # {} => applied \in arrived
           /\ \A r, s \in Requests : InFlight(r) /\ InFlight(s) /\ r # s => claim[r].mine # claim[s].mine
<1>1. issued \in Nat /\ applied \in Nat /\ era \in Nat /\ person \in Persons /\ shown \in Nat
      /\ applied <= issued /\ arrived \in SUBSET Nat
  BY DEF IInv, TypeOK, ScreenFollowsApplied
<1>2. ASSUME NEW r \in Requests, InFlight(r)
      PROVE  /\ claim[r] \in Claim /\ claim[r].mine \in Nat /\ claim[r].era \in Nat
             /\ claim[r].for \in Persons
             /\ claim[r].mine <= issued /\ claim[r].era <= era
             /\ claim[r].era < era => claim[r].mine <= applied
             /\ claim[r].era = era => claim[r].for = person
             /\ shown = 0 /\ claim[r].era = era => claim[r].mine > applied
  BY <1>2 DEF IInv, TypeOK, InFlight, ClaimsInOrder, Claim
<1>3. /\ \A t \in arrived : t > 0 /\ t <= shown
      /\ shown # 0 => shown = applied /\ shown \in arrived
      /\ shown = 0 => arrived = {}
  BY DEF IInv, ScreenFollowsApplied
<1>4. \A t \in arrived : t \in Nat /\ t <= applied
  BY <1>1, <1>3
<1>5. arrived # {} => applied \in arrived
  BY <1>1, <1>3
<1>6. shown # 0 => arrived # {}
  BY <1>3
<1>7. \A r, s \in Requests : InFlight(r) /\ InFlight(s) /\ r # s => claim[r].mine # claim[s].mine
  BY DEF IInv, ClaimsDistinct
<1> QED BY <1>1, <1>2, <1>4, <1>5, <1>6, <1>7

\* A call leaves.
LEMMA LeavesWInv == ASSUME NEW r \in Requests, WInv, Leaves(r), IInv' PROVE WInv'
<1> PICK what \in Kinds, product \in {{}} \cup {{p} : p \in Products} :
        /\ replaceItems(r, what, product)
        /\ what = "heart" => shared = NoRead /\ shared' = r
        /\ what # "heart" => shared' = shared
  BY LeavesDoes DEF WInv
<1> DEFINE c == [NoCall EXCEPT !.what = what, !.product = product, !.at = "sent"]
<1>1. /\ IInv /\ WishlistTypeOK /\ claim \in [Requests -> Claim \cup {NoClaim}]
      /\ call \in [Requests -> Call]
  BY DEF WInv, WishlistTypeOK, TypeOK
<1>2. c \in Call /\ c.what = what /\ c.at = "sent" /\ ~c.doubt
  BY DEF NoCall, Call, Kinds
<1>3. /\ call' = [call EXCEPT ![r] = c] /\ loading' = TRUE
      /\ UNCHANGED <<saved, basket, items, cart, cartReads, odd, moved, forgot, elsewhere>>
      /\ UNCHANGED <<applied, era, person, arrived>>
      /\ claim' = [claim EXCEPT ![r] = [mine |-> issued + 1, era |-> era, for |-> person]]
      /\ ~InFlight(r)
  BY DEF replaceItems, Take, history
<1> HIDE DEF c
<1>4. /\ call' \in [Requests -> Call] /\ call'[r] = c
      /\ \A s \in Requests : s # r => call'[s] = call[s]
  BY <1>1, <1>2, <1>3
<1>5. /\ \A s \in Requests : s # r => claim'[s] = claim[s]
      /\ claim'[r].mine = issued + 1 /\ claim'[r].era = era /\ claim'[r].for = person
  BY <1>1, <1>3
<1>6. WishlistTypeOK'
  <2>1. TypeOK'
    BY DEF IInv
  <2>2. loading' \in BOOLEAN /\ shared' \in Requests \cup {NoRead}
    BY <1>3 DEF WInv, WishlistTypeOK
  <2> QED BY <1>3, <1>4, <2>1, <2>2 DEF WInv, WishlistTypeOK
<1>7. HeartIsShared'
  <2> SUFFICES ASSUME ~forgot', NEW s \in Requests, InFlight(s)', call'[s].what = "heart",
                      IsSameEra(claim[s])'
               PROVE  shared' = s
    BY DEF HeartIsShared
  <2>1. CASE s = r
    BY <1>2, <1>4, <2>1
  <2>2. CASE s # r
    <3>1. shared = s
      BY <1>3, <1>4, <1>5, <2>2 DEF WInv, HeartIsShared, IsSameEra, InFlight
    <3>2. what # "heart"
      BY <3>1, NoReadIsNoRequest
    <3> QED BY <3>1, <3>2
  <2> QED BY <2>1, <2>2
<1>8. CartInv'
  <2>1. LiveReadsAreTheirs'
    BY <1>3 DEF WInv, CartInv, LiveReadsAreTheirs
  <2>2. MoveToBeHeard => MoveToBeHeard'
    BY <1>3, <1>4, <1>5 DEF MoveToBeHeard, InFlight
  <2>3. CartToCome'
    BY <1>3, <2>2 DEF WInv, CartInv, CartToCome, LastReadBrings
  <2> QED BY <2>1, <2>3 DEF CartInv
<1>9. \A s \in Requests : s # r => /\ Told(s)' <=> Told(s)
                                   /\ Written(s)' <=> Written(s)
  BY <1>3, <1>4, <1>5 DEF Told, Written, Wins, IsSameEra, InFlight
<1>10. ~Told(r)' /\ ~Written(r)' /\ ~Told(r) /\ ~Written(r)
  BY <1>2, <1>3, <1>4 DEF Told, Written
<1>11. HeartsInv'
  <2>1. TicketOrder'
    <3> SUFFICES ASSUME NEW q \in Requests, InFlight(q)'
                 PROVE  /\ \A s \in Requests : InFlight(s)' /\ claim'[q].era < claim'[s].era
                                                  => claim'[q].mine < claim'[s].mine
                        /\ \A t \in arrived' : /\ claim'[q].mine # t
                                               /\ claim'[q].era < era' => claim'[q].mine < t
      BY DEF TicketOrder
    <3>1. CASE q = r
      BY <1>1, <1>3, <1>5, <3>1, Claims DEF InFlight
    <3>2. CASE q # r
      <4>1. InFlight(q) /\ claim'[q] = claim[q]
        BY <1>5, <3>2 DEF InFlight
      <4>2. ASSUME NEW s \in Requests, InFlight(s)', claim'[q].era < claim'[s].era
            PROVE  claim'[q].mine < claim'[s].mine
        <5>1. CASE s = r
          BY <1>1, <1>5, <4>1, <5>1, Claims
        <5>2. CASE s # r
          BY <1>5, <4>1, <4>2, <5>2 DEF WInv, HeartsInv, TicketOrder, InFlight
        <5> QED BY <5>1, <5>2
      <4>3. \A t \in arrived' : /\ claim'[q].mine # t
                                /\ claim'[q].era < era' => claim'[q].mine < t
        BY <1>3, <4>1 DEF WInv, HeartsInv, TicketOrder
      <4> QED BY <4>2, <4>3
    <3> QED BY <3>1, <3>2
  <2>2. DoubtIsOld'
    <3> SUFFICES ASSUME NEW q \in Requests, NEW s \in Requests, InFlight(q)', InFlight(s)',
                        call'[q].doubt, claim'[s].mine < claim'[q].mine
                 PROVE  call'[s].doubt
      BY DEF DoubtIsOld
    <3>1. q # r
      BY <1>2, <1>4
    <3>2. InFlight(q) /\ claim'[q] = claim[q] /\ call'[q] = call[q]
      BY <1>4, <1>5, <3>1 DEF InFlight
    <3>3. s # r
      BY <1>1, <1>5, <3>2, Claims
    <3> QED BY <1>4, <1>5, <3>2, <3>3 DEF WInv, HeartsInv, DoubtIsOld, InFlight
  <2>3. WinnersAreSure'
    BY <1>2, <1>3, <1>4, <1>5 DEF WInv, HeartsInv, WinnersAreSure, Wins, IsSameEra, InFlight
  <2>4. SureTellSaved'
    <3> SUFFICES ASSUME NEW q \in Requests, Told(q)', ~call'[q].doubt,
                        \A w \in Requests : Written(w)' => claim'[w].mine <= claim'[q].mine
                 PROVE  call'[q].list = saved'[person']
      BY DEF SureTellSaved
    <3>1. q # r /\ Told(q) /\ call'[q] = call[q] /\ claim'[q] = claim[q]
      BY <1>4, <1>5, <1>9, <1>10
    <3>2. \A w \in Requests : Written(w) => claim[w].mine <= claim[q].mine
      BY <1>5, <1>9, <1>10, <3>1
    <3> QED BY <1>3, <3>1, <3>2 DEF WInv, HeartsInv, SureTellSaved
  <2>5. ShowsSaved'
    BY <1>3, <1>9, <1>10 DEF WInv, HeartsInv, ShowsSaved
  <2> QED BY <2>1, <2>2, <2>3, <2>4, <2>5 DEF HeartsInv
<1> QED BY <1>6, <1>7, <1>8, <1>11 DEF WInv

\* The API answers.
LEMMA HandleWInv == ASSUME NEW r \in Requests, WInv, Handle(r), IInv' PROVE WInv'
<1> DEFINE who == claim[r].for
<1> PICK list \in SUBSET Products, inCart \in SUBSET Products, fails \in BOOLEAN :
        /\ InFlight(r) /\ call[r].at = "sent" /\ claim[r].for \in Persons
        /\ Outcome(r, list, inCart, fails)
        /\ fails \/ call[r].what \notin Writes => list = saved[claim[r].for]
        /\ inCart # basket[claim[r].for] => call[r].what = "move"
  BY HandleDoes DEF WInv
<1>0. /\ WishlistTypeOK /\ InFlight(r) /\ Outcome(r, list, inCart, fails)
      /\ r \in Requests /\ list \in SUBSET Products /\ inCart \in SUBSET Products /\ fails \in BOOLEAN
  BY DEF WInv
<1> PICK strange \in BOOLEAN :
        /\ call[r].what \in Writes /\ Overtaken(r) => strange
        /\ odd' \in BOOLEAN /\ (odd' <=> odd \/ strange)
        /\ call' \in [Requests -> Call]
        /\ \A s \in Requests : s # r => Same(call[s], call'[s])
        /\ \A s \in Requests : call'[s].doubt <=> call[s].doubt \/ (strange /\ InFlight(s))
        /\ call'[r].what = call[r].what
        /\ call'[r].at = (IF fails THEN "refused" ELSE "done")
        /\ call'[r].list = (IF fails THEN {} ELSE list)
  BY ONLY <1>0, OutcomeDoes
<1>1. /\ IInv /\ WishlistTypeOK /\ person \in Persons
      /\ saved \in [Persons -> SUBSET Products] /\ basket \in [Persons -> SUBSET Products]
  BY DEF WInv, WishlistTypeOK, TypeOK
<1>2. /\ saved' = [saved EXCEPT ![who] = list]
      /\ basket' = [basket EXCEPT ![who] = inCart]
      /\ moved' = (moved /\ ~(fails /\ inCart # basket[who] /\ Unheard(r)))
      /\ UNCHANGED <<vars, client, forgot, elsewhere>>
  BY DEF Outcome
<1>3. /\ UNCHANGED <<issued, applied, era, claim, person, arrived>>
      /\ UNCHANGED <<items, loading, shared, cart, cartReads>>
      /\ forgot' = forgot /\ elsewhere' = elsewhere
  BY <1>2 DEF vars, client
<1>4. \A p \in Persons : /\ saved'[p] = IF p = who THEN list ELSE saved[p]
                         /\ basket'[p] = IF p = who THEN inCart ELSE basket[p]
  BY <1>1, <1>2
<1>5. WishlistTypeOK'
  <2>1. TypeOK'
    BY DEF IInv
  <2>2. saved' \in [Persons -> SUBSET Products] /\ basket' \in [Persons -> SUBSET Products]
    BY <1>1, <1>2
  <2>3. moved' \in BOOLEAN
    BY <1>2 DEF WInv, WishlistTypeOK
  <2> QED BY <1>3, <2>1, <2>2, <2>3 DEF WInv, WishlistTypeOK
<1>6. HeartIsShared'
  BY <1>3 DEF WInv, HeartIsShared, InFlight, IsSameEra, Same
<1>7. CartInv'
  <2>1. LiveReadsAreTheirs'
    BY <1>3 DEF WInv, CartInv, LiveReadsAreTheirs
  <2>2. CartToCome'
    <3> SUFFICES ASSUME moved', ~MoveToBeHeard'
                 PROVE  \/ LastReadBrings(cartReads)'
                        \/ (\A i \in 1..Len(cartReads') : cartReads'[i].dead) /\ cart' = basket'[person']
      BY DEF CartToCome
    <3>1. ~(call[r].what = "move" /\ ~fails /\ who = person)
      BY <1>3 DEF MoveToBeHeard, InFlight
    <3>2. moved /\ ~(fails /\ inCart # basket[who] /\ call[r].what = "move" /\ who = person)
      BY <1>2 DEF Unheard
    <3>3. basket'[person'] = basket[person]
      BY <1>1, <1>3, <1>4, <3>1, <3>2
    <3>4. ~MoveToBeHeard
      <4> SUFFICES ASSUME NEW s \in Requests, InFlight(s), call[s].what = "move", call[s].at = "done",
                          claim[s].for = person
                   PROVE  FALSE
        BY DEF MoveToBeHeard
      <4>1. s # r
        OBVIOUS
      <4>2. call'[s].what = "move" /\ call'[s].at = "done"
        BY <4>1 DEF Same
      <4> QED BY <1>3, <4>2 DEF MoveToBeHeard, InFlight
    <3> QED BY <1>3, <3>2, <3>3, <3>4 DEF WInv, CartInv, CartToCome, LastReadBrings
  <2> QED BY <2>1, <2>2 DEF CartInv
<1>8. \A s \in Requests : /\ InFlight(s)' <=> InFlight(s)
                          /\ Wins(claim[s])' <=> Wins(claim[s])
                          /\ claim'[s] = claim[s]
  BY <1>3 DEF InFlight, Wins, IsSameEra
<1>9. \A s \in Requests : s # r => (Told(s)' <=> Told(s)) /\ (Written(s)' <=> Written(s))
  BY <1>8 DEF Told, Written, Same
<1>10. ~Told(r) /\ ~Written(r)
  BY DEF Told, Written
<1>11. ASSUME list # saved[who], who = person, ~strange
       PROVE  /\ \A t \in arrived : t < claim[r].mine
              /\ \A s \in Requests : Told(s) => claim[s].mine < claim[r].mine /\ claim[r].era = era
              /\ arrived # {} => Written(r)'
  <2>1. ~fails /\ call[r].what \in Writes /\ ~Overtaken(r) /\ call'[r].at = "done"
    BY <1>11
  <2>2. \A t \in arrived : ~(t > claim[r].mine)
    BY <1>11, <2>1 DEF Overtaken
  <2>3. \A t \in arrived : t # claim[r].mine /\ (claim[r].era < era => claim[r].mine < t)
    BY DEF WInv, HeartsInv, TicketOrder
  <2>4. \A t \in arrived : t < claim[r].mine
    BY <1>1, <2>2, <2>3, Claims
  <2>5. ASSUME NEW s \in Requests, Told(s)
        PROVE  claim[s].mine < claim[r].mine /\ claim[r].era = era
    <3>1. InFlight(s) /\ call[s].at = "done" /\ claim[s].era = era /\ s # r
      BY <1>10, <2>5 DEF Told, Wins, IsSameEra
    <3>2. claim[s].for = claim[r].for
      BY <1>1, <1>11, <3>1, Claims
    <3>3. ~(claim[s].mine > claim[r].mine)
      BY <2>1, <3>1, <3>2 DEF Overtaken
    <3>4. claim[s].mine < claim[r].mine
      BY <1>1, <3>1, <3>3, Claims
    <3>5. ~(claim[r].era < claim[s].era)
      BY <1>1, <3>1, <3>4, Claims DEF WInv, HeartsInv, TicketOrder
    <3> QED BY <1>1, <3>1, <3>4, <3>5, Claims
  <2>6. ASSUME arrived # {}
        PROVE  Written(r)'
    <3>1. applied \in arrived /\ applied < claim[r].mine
      BY <1>1, <2>4, <2>6, Claims
    <3>2. claim[r].era = era
      BY <1>1, <2>3, <3>1, Claims
    <3> QED BY <1>8, <2>1, <3>1, <3>2 DEF Written, Told, Wins, IsSameEra
  <2> QED BY <2>4, <2>5, <2>6
<1>12. HeartsInv'
  <2>1. TicketOrder'
    BY <1>3 DEF WInv, HeartsInv, TicketOrder, InFlight
  <2>2. DoubtIsOld'
    BY <1>8 DEF WInv, HeartsInv, DoubtIsOld
  <2>3. WinnersAreSure'
    BY <1>8 DEF WInv, HeartsInv, WinnersAreSure
  <2>4. SureTellSaved'
    <3> SUFFICES ASSUME NEW q \in Requests, Told(q)', ~call'[q].doubt,
                        \A w \in Requests : Written(w)' => claim'[w].mine <= claim'[q].mine
                 PROVE  call'[q].list = saved'[person']
      BY DEF SureTellSaved
    <3>1. ~strange /\ ~call[q].doubt /\ InFlight(q)
      BY <1>8 DEF Told
    <3>2. CASE q = r
      <4>1. ~fails /\ who = person
        BY <1>1, <1>8, <3>1, <3>2, Claims DEF Told, Wins, IsSameEra
      <4> QED BY <1>1, <1>3, <1>4, <3>2, <4>1
    <3>3. CASE q # r
      <4>1. Told(q) /\ call'[q].list = call[q].list
        BY <1>9, <3>3 DEF Same
      <4>2. \A w \in Requests : Written(w) => claim[w].mine <= claim[q].mine
        BY <1>8, <1>9, <1>10
      <4>3. call[q].list = saved[person]
        BY <3>1, <4>1, <4>2 DEF WInv, HeartsInv, SureTellSaved
      <4>4. ~(list # saved[who] /\ who = person)
        <5> SUFFICES ASSUME list # saved[who], who = person PROVE FALSE
          OBVIOUS
        <5>1. claim[q].mine < claim[r].mine /\ claim[r].era = era
          BY <1>11, <3>1, <4>1
        <5>2. claim[r].mine > applied
          BY <1>1, <4>1, <5>1, Claims DEF Told, Wins
        <5>3. Written(r)'
          BY <1>8, <5>1, <5>2 DEF Written, Told, Wins, IsSameEra
        <5>4. claim[r].mine <= claim[q].mine
          BY <1>8, <5>3
        <5> QED BY <1>1, <3>1, <5>1, <5>4, Claims
      <4> QED BY <1>1, <1>3, <1>4, <4>1, <4>3, <4>4
    <3> QED BY <3>2, <3>3
  <2>5. ShowsSaved'
    <3> SUFFICES ASSUME ~odd', arrived' # {}, \A w \in Requests : ~Written(w)'
                 PROVE  items' = saved'[person']
      BY DEF ShowsSaved
    <3>1. ~odd /\ ~strange /\ arrived # {} /\ \A w \in Requests : ~Written(w)
      BY <1>3, <1>9, <1>10
    <3>2. items = saved[person]
      BY <3>1 DEF WInv, HeartsInv, ShowsSaved
    <3>3. ~(list # saved[who] /\ who = person)
      BY <1>11, <3>1
    <3> QED BY <1>1, <1>3, <1>4, <3>2, <3>3
  <2> QED BY <2>1, <2>2, <2>3, <2>4, <2>5 DEF HeartsInv
<1> QED BY <1>5, <1>6, <1>7, <1>12 DEF WInv

\* An answer lands.
LEMMA LandsDoes ==
    ASSUME WInv, NEW r \in Requests, Lands(r)
    PROVE  /\ InFlight(r) /\ call[r].at = "done" /\ call[r] \in Call
           /\ UNCHANGED <<saved, basket, shared, cart, forgot, elsewhere, issued, era, person>>
           /\ items' = IF Wins(claim[r]) THEN call[r].list ELSE items
           /\ applied' = IF Wins(claim[r]) THEN claim[r].mine ELSE applied
           /\ arrived' = IF IsSameEra(claim[r]) THEN arrived \cup {claim[r].mine} ELSE arrived
           /\ odd' \in BOOLEAN /\ (odd' <=> odd /\ (~Wins(claim[r]) \/ call[r].doubt))
           /\ moved' \in BOOLEAN
           /\ moved' <=> moved \/ (call[r].what = "move" /\ IsSameEra(claim[r]))
           /\ cartReads' = IF call[r].what = "move" THEN Refetched ELSE cartReads
           /\ loading' = FALSE
           /\ call' \in [Requests -> Call] /\ call'[r] = NoCall /\ claim'[r] = NoClaim
           /\ \A s \in Requests : s # r => call'[s] = call[s] /\ claim'[s] = claim[s]
<1>1. /\ claim \in [Requests -> Claim \cup {NoClaim}] /\ call \in [Requests -> Call]
      /\ odd \in BOOLEAN /\ moved \in BOOLEAN
  BY DEF WInv, WishlistTypeOK, TypeOK
<1>2. call' = [call EXCEPT ![r] = NoCall] /\ claim' = [claim EXCEPT ![r] = NoClaim]
  BY DEF Lands, Answered
<1>3. /\ call' \in [Requests -> Call] /\ call'[r] = NoCall /\ claim'[r] = NoClaim
      /\ \A s \in Requests : s # r => call'[s] = call[s] /\ claim'[s] = claim[s]
  BY <1>1, <1>2, NoCallType
<1>4. /\ InFlight(r) /\ call[r].at = "done"
      /\ UNCHANGED <<saved, basket, shared, cart, forgot, elsewhere, issued, era, person>>
      /\ items' = IF Wins(claim[r]) THEN call[r].list ELSE items
      /\ applied' = IF Wins(claim[r]) THEN claim[r].mine ELSE applied
      /\ arrived' = IF IsSameEra(claim[r]) THEN arrived \cup {claim[r].mine} ELSE arrived
      /\ cartReads' = IF call[r].what = "move" THEN Refetched ELSE cartReads
      /\ loading' = FALSE
  BY DEF Lands, Answered, Replaced
<1>5. /\ odd' = (odd /\ (~Wins(claim[r]) \/ call[r].doubt))
      /\ moved' = (moved \/ (call[r].what = "move" /\ IsSameEra(claim[r])))
  BY DEF Lands
<1> QED BY <1>1, <1>3, <1>4, <1>5

LEMMA LandsWInv == ASSUME NEW r \in Requests, WInv, Lands(r), IInv' PROVE WInv'
<1> DEFINE c == call[r]
<1>1. /\ IInv /\ WishlistTypeOK /\ person \in Persons
      /\ call \in [Requests -> Call] /\ cartReads \in Seq(CartRead)
  BY DEF WInv, WishlistTypeOK, TypeOK
<1>2. /\ InFlight(r) /\ call[r].at = "done" /\ call[r] \in Call
      /\ UNCHANGED <<saved, basket, shared, cart, forgot, elsewhere, issued, era, person>>
      /\ items' = IF Wins(claim[r]) THEN call[r].list ELSE items
      /\ applied' = IF Wins(claim[r]) THEN claim[r].mine ELSE applied
      /\ arrived' = IF IsSameEra(claim[r]) THEN arrived \cup {claim[r].mine} ELSE arrived
      /\ odd' \in BOOLEAN /\ (odd' <=> odd /\ (~Wins(claim[r]) \/ call[r].doubt))
      /\ moved' \in BOOLEAN
      /\ moved' <=> moved \/ (call[r].what = "move" /\ IsSameEra(claim[r]))
      /\ cartReads' = IF call[r].what = "move" THEN Refetched ELSE cartReads
      /\ loading' = FALSE
      /\ call' \in [Requests -> Call] /\ call'[r] = NoCall /\ claim'[r] = NoClaim
      /\ \A s \in Requests : s # r => call'[s] = call[s] /\ claim'[s] = claim[s]
  BY LandsDoes
<1>3. \A s \in Requests : InFlight(s)' <=> InFlight(s) /\ s # r
  BY <1>2 DEF InFlight
<1>4. /\ issued \in Nat /\ applied \in Nat /\ era \in Nat
      /\ \A s \in Requests : InFlight(s) => claim[s].mine \in Nat /\ claim[s].era \in Nat
  BY <1>1, Claims
<1>5. \A s \in Requests : (Wins(claim[s])' /\ InFlight(s)' => Wins(claim[s]) /\ s # r)
  BY <1>2, <1>3, <1>4 DEF Wins, IsSameEra
<1>6. ASSUME c.what = "move" PROVE CartInv'
  <2> PICK read : read = [for |-> person, at |-> "sent", list |-> {}, dead |-> FALSE]
    OBVIOUS
  <2>1. cartReads' = Append(cartReads, read) /\ read \in CartRead
    BY <1>1, <1>2, <1>6 DEF Refetched, CartRead
  <2>2. /\ cartReads' \in Seq(CartRead) /\ Len(cartReads') = Len(cartReads) + 1
        /\ Len(cartReads) \in Nat
        /\ \A i \in 1..Len(cartReads) : cartReads'[i] = cartReads[i]
        /\ cartReads'[Len(cartReads) + 1] = read
    BY <1>1, <2>1, AppendProperties, LenProperties
  <2>3. LiveReadsAreTheirs'
    <3> SUFFICES ASSUME NEW i \in 1..Len(cartReads'), ~cartReads'[i].dead
                 PROVE  cartReads'[i].for = person'
      BY DEF LiveReadsAreTheirs
    <3>1. CASE i = Len(cartReads) + 1
      BY <1>2, <2>2, <3>1
    <3>2. CASE i # Len(cartReads) + 1
      <4>1. i \in 1..Len(cartReads)
        BY <2>2, <3>2
      <4> QED BY <1>2, <2>2, <4>1 DEF WInv, CartInv, LiveReadsAreTheirs
    <3> QED BY <3>1, <3>2
  <2>4. LastReadBrings(cartReads)'
    BY <2>2 DEF LastReadBrings
  <2> QED BY <2>2, <2>3, <2>4 DEF CartInv, CartToCome
<1>7. ASSUME c.what # "move" PROVE CartInv'
  <2>1. cartReads' = cartReads /\ (moved' <=> moved)
    BY <1>2, <1>7
  <2>2. LiveReadsAreTheirs'
    BY <1>2, <2>1 DEF WInv, CartInv, LiveReadsAreTheirs
  <2>3. MoveToBeHeard => MoveToBeHeard'
    BY <1>2, <1>3, <1>7 DEF MoveToBeHeard
  <2>4. CartToCome'
    BY <1>2, <2>1, <2>3 DEF WInv, CartInv, CartToCome, LastReadBrings
  <2> QED BY <1>1, <2>1, <2>2, <2>4 DEF CartInv
<1>8. CartInv' /\ cartReads' \in Seq(CartRead)
  <2>1. CASE c.what = "move"
    <3>1. cartReads' = Append(cartReads, [for |-> person, at |-> "sent", list |-> {}, dead |-> FALSE])
      BY <1>2, <2>1 DEF Refetched
    <3>2. [for |-> person, at |-> "sent", list |-> {}, dead |-> FALSE] \in CartRead
      BY <1>1 DEF CartRead
    <3> QED BY <1>1, <1>6, <2>1, <3>1, <3>2, AppendProperties
  <2>2. CASE c.what # "move"
    BY <1>1, <1>2, <1>7, <2>2
  <2> QED BY <2>1, <2>2
<1>9. WishlistTypeOK'
  <2>1. TypeOK'
    BY DEF IInv
  <2>2. items' \subseteq Products
    BY <1>2 DEF WInv, WishlistTypeOK, Call
  <2> QED BY <1>2, <1>8, <2>1, <2>2 DEF WInv, WishlistTypeOK
<1>10. HeartIsShared'
  <2> SUFFICES ASSUME ~forgot', NEW s \in Requests, InFlight(s)', call'[s].what = "heart",
                      IsSameEra(claim[s])'
               PROVE  shared' = s
    BY DEF HeartIsShared
  <2>1. s # r /\ InFlight(s) /\ call'[s] = call[s] /\ claim'[s] = claim[s]
    BY <1>2, <1>3
  <2> QED BY <1>2, <2>1 DEF WInv, HeartIsShared, IsSameEra
<1>11. HeartsInv'
  <2>1. TicketOrder'
    <3> SUFFICES ASSUME NEW q \in Requests, InFlight(q)'
                 PROVE  /\ \A s \in Requests : InFlight(s)' /\ claim'[q].era < claim'[s].era
                                                  => claim'[q].mine < claim'[s].mine
                        /\ \A t \in arrived' : /\ claim'[q].mine # t
                                               /\ claim'[q].era < era' => claim'[q].mine < t
      BY DEF TicketOrder
    <3>1. q # r /\ InFlight(q) /\ claim'[q] = claim[q]
      BY <1>2, <1>3
    <3>2. \A s \in Requests : InFlight(s)' /\ claim'[q].era < claim'[s].era
                                  => claim'[q].mine < claim'[s].mine
      BY <1>2, <1>3, <3>1 DEF WInv, HeartsInv, TicketOrder
    <3>3. ASSUME NEW t \in arrived'
          PROVE  claim[q].mine # t /\ (claim[q].era < era => claim[q].mine < t)
      <4>1. CASE t \in arrived
        BY <3>1, <4>1 DEF WInv, HeartsInv, TicketOrder
      <4>2. CASE t \notin arrived
        <5>1. t = claim[r].mine /\ claim[r].era = era
          BY <1>2, <4>2 DEF IsSameEra
        <5>2. claim[q].mine # claim[r].mine
          BY <1>1, <1>2, <3>1, Claims
        <5>3. claim[q].era < claim[r].era => claim[q].mine < claim[r].mine
          BY <1>2, <3>1 DEF WInv, HeartsInv, TicketOrder
        <5> QED BY <5>1, <5>2, <5>3
      <4> QED BY <4>1, <4>2
    <3> QED BY <1>2, <3>1, <3>2, <3>3
  <2>2. DoubtIsOld'
    BY <1>2, <1>3 DEF WInv, HeartsInv, DoubtIsOld
  <2>3. WinnersAreSure'
    <3> SUFFICES ASSUME ~odd', NEW q \in Requests, InFlight(q)', Wins(claim[q])'
                 PROVE  ~call'[q].doubt
      BY DEF WinnersAreSure
    <3>1. q # r /\ InFlight(q) /\ call'[q] = call[q] /\ claim'[q] = claim[q] /\ Wins(claim[q])
      BY <1>2, <1>3, <1>5
    <3>2. CASE ~odd
      BY <3>1, <3>2 DEF WInv, HeartsInv, WinnersAreSure
    <3>3. CASE odd
      <4>1. Wins(claim[r]) /\ ~call[r].doubt
        BY <1>2, <3>3
      <4>2. claim[r].mine < claim[q].mine
        BY <1>2, <1>4, <3>1, <4>1 DEF Wins
      <4> QED BY <1>2, <3>1, <4>1, <4>2 DEF WInv, HeartsInv, DoubtIsOld
    <3> QED BY <3>2, <3>3
  <2>4. \A s \in Requests : Told(s)' => Told(s) /\ s # r
    BY <1>2, <1>3, <1>5 DEF Told
  <2>5. \A s \in Requests : Written(s)' => Written(s) /\ s # r
    BY <1>2, <2>4 DEF Written
  \* What landed was older than whatever may still be shown.
  <2>6. ASSUME NEW q \in Requests, Told(q)', Wins(claim[r])
        PROVE  claim[r].mine < claim[q].mine
    BY <1>2, <1>4, <2>4, <2>6 DEF Told, Wins
  <2>7. ASSUME NEW s \in Requests, Written(s), ~Written(s)', s # r
        PROVE  Wins(claim[r]) /\ claim[s].mine <= claim[r].mine
    <3>1. Told(s) /\ InFlight(s)' /\ claim'[s] = claim[s] /\ call'[s] = call[s]
      BY <1>2, <1>3, <2>7 DEF Written, Told
    <3>2. ~Wins(claim[s])'
      BY <2>7, <3>1 DEF Written, Told
    <3>3. claim[s].era = era /\ claim[s].mine > applied /\ ~(claim[s].mine > applied')
      BY <1>2, <3>1, <3>2 DEF Told, Wins, IsSameEra
    <3> QED BY <1>2, <1>4, <3>1, <3>3 DEF Told
  <2>8. SureTellSaved'
    <3> SUFFICES ASSUME NEW q \in Requests, Told(q)', ~call'[q].doubt,
                        \A w \in Requests : Written(w)' => claim'[w].mine <= claim'[q].mine
                 PROVE  call'[q].list = saved'[person']
      BY DEF SureTellSaved
    <3>1. q # r /\ Told(q) /\ InFlight(q) /\ call'[q] = call[q] /\ claim'[q] = claim[q]
      BY <1>2, <2>4 DEF Told
    <3>2. ASSUME NEW w \in Requests, Written(w)
          PROVE  claim[w].mine <= claim[q].mine
      <4>1. CASE Written(w)'
        BY <1>2, <2>5, <3>1, <4>1
      <4>2. CASE ~Written(w)' /\ w # r
        BY <1>2, <1>4, <2>6, <2>7, <3>1, <3>2, <4>2 DEF Written, Told
      <4>3. CASE w = r
        BY <1>2, <1>4, <2>6, <3>1, <3>2, <4>3 DEF Written, Told
      <4> QED BY <4>1, <4>2, <4>3
    <3> QED BY <1>2, <3>1, <3>2 DEF WInv, HeartsInv, SureTellSaved
  <2>9. ShowsSaved'
    <3> SUFFICES ASSUME ~odd', arrived' # {}, \A w \in Requests : ~Written(w)'
                 PROVE  items' = saved'[person']
      BY DEF ShowsSaved
    <3>1. CASE Wins(claim[r])
      <4>1. Told(r) /\ ~call[r].doubt
        <5>1. Told(r)
          BY <1>2, <3>1 DEF Told
        <5>2. ~odd => ~call[r].doubt
          BY <1>2, <3>1 DEF WInv, HeartsInv, WinnersAreSure
        <5> QED BY <1>2, <3>1, <5>1, <5>2
      <4>2. \A w \in Requests : Written(w) => claim[w].mine <= claim[r].mine
        BY <1>2, <1>4, <2>7
      <4> QED BY <1>2, <3>1, <4>1, <4>2 DEF WInv, HeartsInv, SureTellSaved
    <3>2. CASE ~Wins(claim[r])
      <4>1. \A w \in Requests : ~Written(w)
        <5>1. ~Written(r)
          BY <3>2 DEF Written, Told
        <5> QED BY <2>7, <3>2, <5>1
      <4>2. arrived # {}
        <5>1. CASE IsSameEra(claim[r])
          <6>1. ~(claim[r].mine > applied) /\ claim[r].era = era
            BY <3>2, <5>1 DEF Wins, IsSameEra
          <6> QED BY <1>1, <1>2, <6>1, Claims
        <5>2. CASE ~IsSameEra(claim[r])
          BY <1>2, <5>2
        <5> QED BY <5>1, <5>2
      <4> QED BY <1>2, <3>2, <4>1, <4>2 DEF WInv, HeartsInv, ShowsSaved
    <3> QED BY <3>1, <3>2
  <2> QED BY <2>1, <2>2, <2>3, <2>8, <2>9 DEF HeartsInv
<1> QED BY <1>8, <1>9, <1>10, <1>11 DEF WInv

\* A call failed.
LEMMA FailsWInv == ASSUME NEW r \in Requests, WInv, Fails(r), IInv' PROVE WInv'
<1>0. WishlistTypeOK /\ r \in Requests /\ Fails(r)
  BY DEF WInv
<1> PICK unheard \in BOOLEAN :
        /\ unheard <=> call[r].at = "done" /\ call[r].what \in Writes
        /\ odd' \in BOOLEAN /\ (odd' <=> odd \/ unheard)
        /\ call' \in [Requests -> Call] /\ call'[r] = NoCall
        /\ \A s \in Requests : s # r => Same(call[s], call'[s])
        /\ \A s \in Requests : s # r => (call'[s].doubt <=> call[s].doubt \/ (unheard /\ InFlight(s)))
        /\ moved' \in BOOLEAN /\ (moved' => moved /\ ~(unheard /\ Unheard(r)))
  BY ONLY <1>0, FailsDoes
<1>1. /\ InFlight(r) /\ claim \in [Requests -> Claim \cup {NoClaim}]
      /\ UNCHANGED <<issued, applied, era, person, arrived>>
      /\ UNCHANGED <<saved, basket, items, cart, cartReads, elsewhere>>
      /\ claim' = [claim EXCEPT ![r] = NoClaim] /\ loading' = FALSE
      /\ shared' = IF call[r].what = "heart" THEN NoRead ELSE shared
      /\ forgot' = (forgot \/ (call[r].what = "heart" /\ ~IsSameEra(claim[r])))
  BY DEF Fails, Failed, Forgets, WInv, WishlistTypeOK, TypeOK
<1>2. /\ claim'[r] = NoClaim
      /\ \A s \in Requests : s # r => claim'[s] = claim[s]
      /\ \A s \in Requests : InFlight(s)' <=> InFlight(s) /\ s # r
  BY <1>1 DEF InFlight
<1>3. WishlistTypeOK'
  <2>1. TypeOK'
    BY DEF IInv
  <2>2. forgot' \in BOOLEAN /\ shared' \in Requests \cup {NoRead}
    BY <1>1 DEF WInv, WishlistTypeOK
  <2> QED BY <1>1, <2>1, <2>2 DEF WInv, WishlistTypeOK
<1>4. HeartIsShared'
  <2> SUFFICES ASSUME ~forgot', NEW s \in Requests, InFlight(s)', call'[s].what = "heart",
                      IsSameEra(claim[s])'
               PROVE  shared' = s
    BY DEF HeartIsShared
  <2>1. s # r /\ InFlight(s) /\ call[s].what = "heart" /\ IsSameEra(claim[s]) /\ ~forgot
    BY <1>1, <1>2 DEF Same, IsSameEra
  <2>2. shared = s
    BY <2>1 DEF WInv, HeartIsShared
  <2>3. call[r].what # "heart"
    <3>1. call[r].what = "heart" => IsSameEra(claim[r])
      BY <1>1
    <3>2. call[r].what = "heart" /\ IsSameEra(claim[r]) => shared = r
      BY <1>1, <2>1 DEF WInv, HeartIsShared
    <3> QED BY <2>1, <2>2, <3>1, <3>2
  <2> QED BY <1>1, <2>2, <2>3
<1>5. CartInv'
  <2>1. LiveReadsAreTheirs'
    BY <1>1 DEF WInv, CartInv, LiveReadsAreTheirs
  <2>2. moved' /\ MoveToBeHeard => MoveToBeHeard'
    <3> SUFFICES ASSUME moved', NEW s \in Requests, InFlight(s), call[s].what = "move",
                        call[s].at = "done", claim[s].for = person
                 PROVE  MoveToBeHeard'
      BY DEF MoveToBeHeard
    <3>1. s # r
      BY DEF Unheard, Writes
    <3>2. call'[s].what = "move" /\ call'[s].at = "done"
      BY <3>1 DEF Same
    <3> QED BY <1>1, <1>2, <3>1, <3>2 DEF MoveToBeHeard
  <2>3. CartToCome'
    BY <1>1, <2>2 DEF WInv, CartInv, CartToCome, LastReadBrings
  <2> QED BY <2>1, <2>3 DEF CartInv
<1>6. HeartsInv'
  <2>1. TicketOrder'
    BY <1>1, <1>2 DEF WInv, HeartsInv, TicketOrder
  <2>2. DoubtIsOld'
    BY <1>1, <1>2 DEF WInv, HeartsInv, DoubtIsOld
  <2>3. WinnersAreSure'
    BY <1>1, <1>2 DEF WInv, HeartsInv, WinnersAreSure, Wins, IsSameEra
  <2>4. \A s \in Requests : s # r => (Told(s)' <=> Told(s)) /\ (Written(s)' <=> Written(s))
    BY <1>1, <1>2 DEF Told, Written, Wins, IsSameEra, Same
  <2>5. ~Told(r)' /\ ~Written(r)' /\ (Written(r) => unheard)
    BY <1>2 DEF Told, Written
  <2>6. SureTellSaved'
    <3> SUFFICES ASSUME NEW q \in Requests, Told(q)', ~call'[q].doubt,
                        \A w \in Requests : Written(w)' => claim'[w].mine <= claim'[q].mine
                 PROVE  call'[q].list = saved'[person']
      BY DEF SureTellSaved
    <3>1. q # r /\ Told(q) /\ claim'[q] = claim[q] /\ call'[q].list = call[q].list
      BY <1>2, <2>4, <2>5 DEF Same
    <3>2. ~unheard /\ ~call[q].doubt
      BY <3>1 DEF Told
    <3>3. \A w \in Requests : Written(w) => claim[w].mine <= claim[q].mine
      BY <1>2, <2>4, <2>5, <3>1, <3>2
    <3> QED BY <1>1, <3>1, <3>2, <3>3 DEF WInv, HeartsInv, SureTellSaved
  <2>7. ShowsSaved'
    <3> SUFFICES ASSUME ~odd', arrived' # {}, \A w \in Requests : ~Written(w)'
                 PROVE  items' = saved'[person']
      BY DEF ShowsSaved
    <3>1. ~odd /\ \A w \in Requests : ~Written(w)
      BY <2>4, <2>5
    <3> QED BY <1>1, <3>1 DEF WInv, HeartsInv, ShowsSaved
  <2> QED BY <2>1, <2>2, <2>3, <2>6, <2>7 DEF HeartsInv
<1> QED BY <1>3, <1>4, <1>5, <1>6 DEF WInv

\* A line is removed on another device.
LEMMA ElsewhereWInv == ASSUME NEW p \in Products, WInv, Elsewhere(p), IInv' PROVE WInv'
<1>1. /\ UNCHANGED <<issued, applied, era, claim, person, arrived>>
      /\ UNCHANGED <<basket, items, loading, shared, cart, cartReads, moved, forgot>>
      /\ odd' = TRUE /\ call' = InDoubt /\ elsewhere' = elsewhere + 1
      /\ saved' = [saved EXCEPT ![person] = @ \ {p}]
  BY DEF Elsewhere, vars, client
<1>2. /\ call' \in [Requests -> Call]
      /\ \A s \in Requests : Same(call[s], call'[s])
      /\ \A s \in Requests : call'[s].doubt <=> call[s].doubt \/ InFlight(s)
  BY <1>1, DoubtDoes DEF WInv
<1>3. WishlistTypeOK'
  <2>1. TypeOK'
    BY DEF IInv
  <2>2. /\ saved \in [Persons -> SUBSET Products] /\ elsewhere \in Nat
        /\ person \in Persons
    BY DEF WInv, WishlistTypeOK, TypeOK
  <2>3. saved[person] \ {p} \in SUBSET Products
    BY <2>2
  <2>4. saved' \in [Persons -> SUBSET Products] /\ elsewhere' \in Nat
    BY <1>1, <2>2, <2>3
  <2> QED BY <1>1, <1>2, <2>1, <2>4 DEF WInv, WishlistTypeOK
<1>4. HeartIsShared'
  BY <1>1, <1>2 DEF WInv, HeartIsShared, IsSameEra, InFlight, Same
<1>5. CartInv'
  <2>1. MoveToBeHeard' <=> MoveToBeHeard
    BY <1>1, <1>2 DEF MoveToBeHeard, InFlight, Same
  <2> QED BY <1>1, <2>1 DEF WInv, CartInv, CartToCome, LiveReadsAreTheirs, LastReadBrings
<1>6. HeartsInv'
  <2>1. TicketOrder'
    BY <1>1 DEF WInv, HeartsInv, TicketOrder, InFlight
  <2>2. DoubtIsOld' /\ SureTellSaved'
    BY <1>1, <1>2 DEF DoubtIsOld, SureTellSaved, Told, InFlight
  <2>3. WinnersAreSure' /\ ShowsSaved'
    BY <1>1 DEF WinnersAreSure, ShowsSaved
  <2> QED BY <2>1, <2>2, <2>3 DEF HeartsInv
<1> QED BY <1>3, <1>4, <1>5, <1>6 DEF WInv

\* Somebody else is signed in.
LEMMA ViewerChangesWInv == ASSUME NEW p \in Persons, WInv, ViewerChanges(p), IInv' PROVE WInv'
<1>1. /\ UNCHANGED <<claim, saved, basket, call, loading, elsewhere>>
      /\ era' = era + 1 /\ person' = p /\ arrived' = {} /\ applied' = issued + 1
      /\ items' = {} /\ shared' = NoRead /\ cart' = {}
      /\ cartReads' = [j \in DOMAIN cartReads |-> [cartReads[j] EXCEPT !.dead = TRUE]]
      /\ odd' = FALSE /\ moved' = FALSE /\ forgot' = FALSE
  BY DEF ViewerChanges, Reset, RaiseBarrier
<1>2. cartReads \in Seq(CartRead) /\ IInv
  BY DEF WInv, WishlistTypeOK
<1>3. /\ cartReads' \in Seq(CartRead) /\ Len(cartReads') = Len(cartReads)
      /\ \A i \in 1..Len(cartReads') : cartReads'[i].dead
  <2> PICK s : s = cartReads
    OBVIOUS
  <2>1. /\ Len(s) \in Nat /\ DOMAIN s = 1..Len(s) /\ \A i \in 1..Len(s) : s[i] \in CartRead
    BY <1>2, LenProperties, ElementOfSeq
  <2>2. cartReads' = [j \in 1..Len(s) |-> [s[j] EXCEPT !.dead = TRUE]]
    BY <1>1, <2>1
  <2>3. \A i \in 1..Len(s) : cartReads'[i] \in CartRead /\ cartReads'[i].dead
    BY <2>1, <2>2 DEF CartRead
  <2>4. cartReads' \in [1..Len(s) -> CartRead]
    BY <2>2, <2>3
  <2>5. cartReads' \in Seq(CartRead) /\ Len(cartReads') = Len(s)
    BY <2>1, <2>4, LenProperties
  <2> QED BY <2>3, <2>5
<1>4. \A s \in Requests : InFlight(s) => claim[s].era # era'
  BY <1>1, <1>2, Claims
<1>5. WishlistTypeOK'
  <2>1. TypeOK'
    BY DEF IInv
  <2> QED BY <1>1, <1>3, <2>1 DEF WInv, WishlistTypeOK
<1>6. HeartIsShared'
  BY <1>1, <1>4 DEF HeartIsShared, IsSameEra, InFlight
<1>7. CartInv'
  BY <1>1, <1>3 DEF CartInv, LiveReadsAreTheirs, CartToCome
<1>8. \A s \in Requests : InFlight(s)' => ~Wins(claim[s])'
  BY <1>1, <1>4 DEF Wins, IsSameEra, InFlight
<1>9. HeartsInv'
  <2>1. TicketOrder'
    BY <1>1 DEF WInv, HeartsInv, TicketOrder, InFlight
  <2>2. DoubtIsOld'
    BY <1>1 DEF WInv, HeartsInv, DoubtIsOld, InFlight
  <2>3. WinnersAreSure' /\ SureTellSaved'
    BY <1>8 DEF WinnersAreSure, SureTellSaved, Told
  <2>4. ShowsSaved'
    BY <1>1 DEF ShowsSaved
  <2> QED BY <2>1, <2>2, <2>3, <2>4 DEF HeartsInv
<1> QED BY <1>5, <1>6, <1>7, <1>9 DEF WInv

\* One less: those behind it move up.
LEMMA OneLess ==
    ASSUME NEW S, NEW s \in Seq(S), NEW i \in 1..Len(s)
    PROVE  /\ RemoveAt(s, i) \in Seq(S) /\ Len(RemoveAt(s, i)) = Len(s) - 1
           /\ \A k \in 1..Len(s) - 1 : RemoveAt(s, i)[k] = IF k < i THEN s[k] ELSE s[k + 1]
<1> DEFINE before == SubSeq(s, 1, i-1)
           after == SubSeq(s, i+1, Len(s))
<1>1. Len(s) \in Nat
  BY LenProperties
<1>2. /\ before \in Seq(S) /\ Len(before) = i - 1
      /\ \A k \in 1..i - 1 : before[k] = s[k]
  BY <1>1, SubSeqProperties
<1>3. /\ after \in Seq(S) /\ Len(after) = Len(s) - i
      /\ \A k \in 1..Len(s) - i : after[k] = s[i + k]
  BY <1>1, SubSeqProperties
<1>4. RemoveAt(s, i) = before \o after
  BY DEF RemoveAt
<1> HIDE DEF before, after
<1> PICK r : r = before \o after
  OBVIOUS
<1>5. /\ r \in Seq(S) /\ Len(r) = Len(before) + Len(after)
      /\ \A k \in 1..Len(before) + Len(after) :
             r[k] = IF k <= Len(before) THEN before[k] ELSE after[k - Len(before)]
  BY <1>2, <1>3, ConcatProperties
<1>6. ASSUME NEW k \in 1..Len(s) - 1 PROVE r[k] = IF k < i THEN s[k] ELSE s[k + 1]
  <2>1. CASE k < i
    BY <1>1, <1>2, <1>3, <1>5, <2>1
  <2>2. CASE ~(k < i)
    <3>1. r[k] = after[k - (i - 1)]
      BY <1>1, <1>2, <1>3, <1>5, <2>2
    <3>2. k - (i - 1) \in 1..Len(s) - i /\ i + (k - (i - 1)) = k + 1
      BY <1>1, <2>2
    <3> QED BY <1>3, <3>1, <3>2, <2>2
  <2> QED BY <2>1, <2>2
<1> QED BY <1>1, <1>2, <1>3, <1>4, <1>5, <1>6

\* The cart's reads are on no ticket of the wishlist's: what they do, the hearts do not see.
CartOnly ==
    UNCHANGED <<vars, saved, basket, call, items, loading, shared, odd, forgot, elsewhere>>

LEMMA CartOnlyKeeps ==
    ASSUME WInv, IInv', CartOnly, cart' \subseteq Products, cartReads' \in Seq(CartRead),
           moved' \in BOOLEAN, CartInv'
    PROVE  WInv'
<1>1. UNCHANGED <<issued, applied, era, claim, person, arrived>>
      /\ UNCHANGED <<saved, basket, call, items, loading, shared, odd, forgot, elsewhere>>
  BY DEF CartOnly, vars
<1>2. WishlistTypeOK'
  <2>1. TypeOK'
    BY DEF IInv
  <2> QED BY <1>1, <2>1 DEF WInv, WishlistTypeOK
<1>3. HeartIsShared'
  BY <1>1 DEF WInv, HeartIsShared, InFlight, IsSameEra
<1>4. TicketOrder' /\ DoubtIsOld'
  BY <1>1 DEF WInv, HeartsInv, TicketOrder, DoubtIsOld, InFlight
<1>5. \A s \in Requests : /\ InFlight(s)' <=> InFlight(s)
                          /\ Wins(claim[s])' <=> Wins(claim[s])
                          /\ Told(s)' <=> Told(s)
                          /\ Written(s)' <=> Written(s)
  BY <1>1 DEF InFlight, Wins, IsSameEra, Told, Written
<1>6. WinnersAreSure' /\ SureTellSaved' /\ ShowsSaved'
  BY <1>1, <1>5 DEF WInv, HeartsInv, WinnersAreSure, SureTellSaved, ShowsSaved
<1> QED BY <1>2, <1>3, <1>4, <1>6 DEF WInv, HeartsInv

LEMMA SameMoveToBeHeard == ASSUME CartOnly PROVE MoveToBeHeard' <=> MoveToBeHeard
  BY DEF CartOnly, vars, MoveToBeHeard, InFlight

\* The API answers a read of the cart.
LEMMA HandleCartReadWInv ==
    ASSUME NEW i \in DOMAIN cartReads, WInv, HandleCartRead(i), IInv' PROVE WInv'
<1> PICK s, p, b : s = cartReads /\ p = person /\ b = basket
  OBVIOUS
<1>1. /\ s \in Seq(CartRead) /\ b \in [Persons -> SUBSET Products] /\ p \in Persons
      /\ cart \subseteq Products /\ moved \in BOOLEAN
  BY DEF WInv, WishlistTypeOK, TypeOK
<1>2. Len(s) \in Nat /\ DOMAIN s = 1..Len(s) /\ \A j \in 1..Len(s) : s[j] \in CartRead
  BY <1>1, LenProperties, ElementOfSeq
<1>3. /\ cartReads' = [s EXCEPT ![i].at = "done", ![i].list = b[s[i].for]]
      /\ UNCHANGED <<vars, saved, basket, call, items, loading, shared, cart, history, elsewhere>>
      /\ s[i].at = "sent"
  BY DEF HandleCartRead
<1>4. CartOnly /\ cart' = cart /\ moved' = moved /\ person' = p /\ basket' = b
  BY <1>3 DEF CartOnly, history, vars
<1>5. b[s[i].for] \in SUBSET Products /\ i \in 1..Len(s)
  BY <1>1, <1>2 DEF CartRead
<1> DEFINE read == [s[i] EXCEPT !.at = "done", !.list = b[s[i].for]]
<1>6. read \in CartRead /\ read.for = s[i].for /\ read.list = b[s[i].for] /\ (read.dead <=> s[i].dead)
  BY <1>2, <1>5 DEF CartRead
<1>7. cartReads' = [s EXCEPT ![i] = read]
  BY <1>1, <1>2, <1>3, <1>5
<1> HIDE DEF read
<1>8. /\ cartReads' \in Seq(CartRead) /\ Len(cartReads') = Len(s)
      /\ \A j \in 1..Len(s) : cartReads'[j] = IF j = i THEN read ELSE s[j]
  BY <1>1, <1>2, <1>5, <1>6, <1>7, ExceptSeq
<1>9. LiveReadsAreTheirs'
  BY <1>4, <1>6, <1>8 DEF WInv, CartInv, LiveReadsAreTheirs
<1>10. LastReadBrings(cartReads) => LastReadBrings(cartReads)'
  <2> SUFFICES ASSUME LastReadBrings(s) PROVE LastReadBrings(cartReads)'
    OBVIOUS
  <2>1. Len(s) \in 1..Len(s) /\ ~s[Len(s)].dead /\ s[Len(s)].for = p
    BY <1>2 DEF LastReadBrings, WInv, CartInv, LiveReadsAreTheirs
  <2>2. CASE Len(s) = i
    BY <1>4, <1>6, <1>8, <2>1, <2>2 DEF LastReadBrings
  <2>3. CASE Len(s) # i
    BY <1>4, <1>8, <2>1, <2>3 DEF LastReadBrings
  <2> QED BY <2>2, <2>3
<1>11. (\A j \in 1..Len(s) : s[j].dead) => \A j \in 1..Len(cartReads') : cartReads'[j].dead
  BY <1>5, <1>6, <1>8
<1>12. CartToCome'
  BY <1>4, <1>10, <1>11, SameMoveToBeHeard DEF WInv, CartInv, CartToCome
<1> QED BY <1>1, <1>4, <1>8, <1>9, <1>12, CartOnlyKeeps DEF CartInv

\* What a read of the cart that lands leaves of the others: the older ones lose.
Outrun(s, i) == [j \in DOMAIN s |-> [s[j] EXCEPT !.dead = @ \/ j < i]]

LEMMA CartReadLandsDoes ==
    ASSUME NEW s \in Seq(CartRead), NEW i \in 1..Len(s), NEW t, t = RemoveAt(Outrun(s, i), i)
    PROVE  /\ t \in Seq(CartRead) /\ Len(t) = Len(s) - 1
           /\ \A k \in 1..Len(s) - 1 : k < i => t[k].for = s[k].for /\ t[k].dead
           /\ \A k \in 1..Len(s) - 1 : k >= i => t[k] = s[k + 1]
<1>1. Len(s) \in Nat /\ DOMAIN s = 1..Len(s) /\ \A j \in 1..Len(s) : s[j] \in CartRead
  BY LenProperties, ElementOfSeq
<1> PICK u : u = [j \in 1..Len(s) |-> [s[j] EXCEPT !.dead = @ \/ j < i]]
  OBVIOUS
<1>2. ASSUME NEW j \in 1..Len(s)
      PROVE  /\ u[j] \in CartRead /\ u[j].for = s[j].for /\ u[j].at = s[j].at /\ u[j].list = s[j].list
             /\ j < i => u[j].dead
             /\ ~(j < i) => u[j] = s[j]
  <2> PICK c : c = s[j]
    OBVIOUS
  <2>1. c \in CartRead
    BY <1>1
  <2>2. CASE j < i
    <3>1. u[j] = [c EXCEPT !.dead = TRUE]
      BY <2>1, <2>2 DEF CartRead
    <3> QED BY <2>1, <2>2, <3>1 DEF CartRead
  <2>3. CASE ~(j < i)
    <3>1. u[j] = [c EXCEPT !.dead = @]
      BY <2>1, <2>3 DEF CartRead
    <3>2. u[j] = c
      BY <2>1, <3>1 DEF CartRead
    <3> QED BY <2>1, <2>3, <3>2
  <2> QED BY <2>2, <2>3
<1>3. u \in [1..Len(s) -> CartRead]
  BY <1>2
<1>4. u \in Seq(CartRead) /\ Len(u) = Len(s)
  BY <1>1, <1>3, LenProperties
<1>5. t = RemoveAt(u, i) /\ i \in 1..Len(u)
  <2>1. u = Outrun(s, i)
    BY <1>1 DEF Outrun
  <2> QED BY <1>1, <1>4, <2>1
<1>6. /\ RemoveAt(u, i) \in Seq(CartRead) /\ Len(RemoveAt(u, i)) = Len(u) - 1
      /\ \A k \in 1..Len(u) - 1 : RemoveAt(u, i)[k] = IF k < i THEN u[k] ELSE u[k + 1]
  BY ONLY <1>4, <1>5, OneLess
<1>7. ASSUME NEW k \in 1..Len(s) - 1
      PROVE  /\ k \in 1..Len(s) /\ k + 1 \in 1..Len(s)
             /\ t[k] = IF k < i THEN u[k] ELSE u[k + 1]
  <2>1. k \in 1..Len(s) /\ k + 1 \in 1..Len(s)
    BY <1>1
  <2>2. t[k] = IF k < i THEN u[k] ELSE u[k + 1]
    BY <1>4, <1>5, <1>6
  <2> QED BY <2>1, <2>2
<1>8. ASSUME NEW k \in 1..Len(s) - 1, k >= i PROVE t[k] = s[k + 1]
  <2>1. ~(k < i) /\ ~(k + 1 < i)
    BY <1>1, <1>8
  <2>2. t[k] = u[k + 1]
    BY ONLY <1>7, <2>1
  <2> QED BY <1>2, <1>7, <2>1, <2>2
<1>9. ASSUME NEW k \in 1..Len(s) - 1, k < i
      PROVE  t[k].for = s[k].for /\ t[k].dead
  <2>1. t[k] = u[k] /\ k \in 1..Len(s)
    BY ONLY <1>7, <1>9
  <2> QED BY ONLY <1>2, <1>9, <2>1
<1>10. t \in Seq(CartRead) /\ Len(t) = Len(s) - 1
  BY ONLY <1>4, <1>5, <1>6
<1> QED BY ONLY <1>8, <1>9, <1>10

LEMMA CartReadLandsWInv ==
    ASSUME NEW i \in DOMAIN cartReads, WInv, CartReadLands(i), IInv' PROVE WInv'
<1> PICK s, p, b : s = cartReads /\ p = person /\ b = basket
  OBVIOUS
<1> PICK t : t = cartReads'
  OBVIOUS
<1>1. /\ s \in Seq(CartRead) /\ cart \subseteq Products /\ moved \in BOOLEAN
  BY DEF WInv, WishlistTypeOK, TypeOK
<1>2. Len(s) \in Nat /\ DOMAIN s = 1..Len(s) /\ i \in 1..Len(s) /\ s[i] \in CartRead
  BY <1>1, LenProperties, ElementOfSeq
<1>3. /\ cart' = IF s[i].dead THEN cart ELSE s[i].list
      /\ UNCHANGED <<vars, saved, basket, call, items, loading, shared, history, elsewhere>>
      /\ s[i].at = "done"
  BY DEF CartReadLands
<1>4. CartOnly /\ moved' = moved /\ person' = p /\ basket' = b
  BY <1>3 DEF CartOnly, history, vars
<1>5. cart' \subseteq Products
  BY <1>1, <1>2, <1>3 DEF CartRead
<1>6. /\ t \in Seq(CartRead) /\ Len(t) = Len(s) - 1
      /\ \A k \in 1..Len(s) - 1 : k < i => t[k].for = s[k].for /\ t[k].dead
      /\ \A k \in 1..Len(s) - 1 : k >= i => t[k] = s[k + 1]
  <2>1. t = RemoveAt(Outrun(s, i), i)
    BY DEF CartReadLands, Outrun
  <2>2. s \in Seq(CartRead) /\ i \in 1..Len(s)
    BY <1>1, <1>2
  <2> QED BY ONLY <2>1, <2>2, CartReadLandsDoes
<1>7. LiveReadsAreTheirs'
  <2> SUFFICES ASSUME NEW k \in 1..Len(t), ~t[k].dead PROVE t[k].for = p
    BY <1>4 DEF LiveReadsAreTheirs
  <2>1. k >= i /\ t[k] = s[k + 1] /\ k + 1 \in 1..Len(s)
    BY <1>2, <1>6
  <2> QED BY <2>1 DEF WInv, CartInv, LiveReadsAreTheirs
<1>8. CartToCome'
  <2> SUFFICES ASSUME moved', ~MoveToBeHeard'
               PROVE  LastReadBrings(t)' \/ ((\A k \in 1..Len(t) : t[k].dead) /\ cart' = b[p])
    BY <1>4 DEF CartToCome
  <2>1. LastReadBrings(s) \/ ((\A k \in 1..Len(s) : s[k].dead) /\ cart = b[p])
    BY <1>4, SameMoveToBeHeard DEF WInv, CartInv, CartToCome
  <2>2. CASE LastReadBrings(s)
    <3>1. CASE i = Len(s)
      <4>1. \A k \in 1..Len(t) : t[k].dead
        BY <1>2, <1>6, <3>1
      <4>2. cart' = b[p]
        BY <1>3, <2>2, <3>1 DEF LastReadBrings
      <4> QED BY <4>1, <4>2
    <3>2. CASE i # Len(s)
      <4>1. Len(t) > 0 /\ Len(t) \in 1..Len(s) - 1 /\ Len(t) >= i /\ Len(t) + 1 = Len(s)
        BY <1>2, <1>6, <3>2
      <4>2. t[Len(t)] = s[Len(s)]
        BY <1>6, <4>1
      <4>3. LastReadBrings(t)'
        BY <1>4, <2>2, <4>1, <4>2 DEF LastReadBrings
      <4> QED BY <4>3
    <3> QED BY <3>1, <3>2
  <2>3. CASE (\A k \in 1..Len(s) : s[k].dead) /\ cart = b[p]
    <3>1. cart' = b[p]
      BY <1>2, <1>3, <2>3
    <3>2. \A k \in 1..Len(t) : t[k].dead
      BY <1>2, <1>6, <2>3
    <3> QED BY <3>1, <3>2
  <2> QED BY <2>1, <2>2, <2>3
<1> QED BY <1>1, <1>4, <1>5, <1>6, <1>7, <1>8, CartOnlyKeeps DEF CartInv

\* A read of the cart failed: the badge may be behind, and `moved` no longer speaks for it.
LEMMA CartReadFailsWInv ==
    ASSUME NEW i \in DOMAIN cartReads, WInv, CartReadFails(i), IInv' PROVE WInv'
<1> PICK s, p : s = cartReads /\ p = person
  OBVIOUS
<1> PICK t : t = cartReads'
  OBVIOUS
<1>1. s \in Seq(CartRead) /\ cart \subseteq Products
  BY DEF WInv, WishlistTypeOK
<1>2. Len(s) \in Nat /\ DOMAIN s = 1..Len(s) /\ i \in 1..Len(s)
  BY <1>1, LenProperties
<1>3. t = RemoveAt(s, i) /\ CartOnly /\ cart' = cart /\ moved' = FALSE /\ person' = p
  BY DEF CartReadFails, CartOnly, vars
<1>4. /\ t \in Seq(CartRead) /\ Len(t) = Len(s) - 1
      /\ \A k \in 1..Len(s) - 1 : t[k] = IF k < i THEN s[k] ELSE s[k + 1]
  <2>1. s \in Seq(CartRead) /\ i \in 1..Len(s) /\ t = RemoveAt(s, i)
    BY <1>1, <1>2, <1>3
  <2>2. /\ RemoveAt(s, i) \in Seq(CartRead) /\ Len(RemoveAt(s, i)) = Len(s) - 1
        /\ \A k \in 1..Len(s) - 1 : RemoveAt(s, i)[k] = IF k < i THEN s[k] ELSE s[k + 1]
    BY ONLY <2>1, OneLess
  <2> QED BY ONLY <2>1, <2>2
<1>5. LiveReadsAreTheirs'
  <2> SUFFICES ASSUME NEW k \in 1..Len(t), ~t[k].dead PROVE t[k].for = p
    BY <1>3 DEF LiveReadsAreTheirs
  <2>1. \E j \in 1..Len(s) : t[k] = s[j]
    BY <1>2, <1>4
  <2> QED BY <2>1 DEF WInv, CartInv, LiveReadsAreTheirs
<1>6. CartToCome'
  BY <1>3 DEF CartToCome
<1> QED BY <1>1, <1>3, <1>4, <1>5, <1>6, CartOnlyKeeps DEF CartInv

-----------------------------------------------------------------------------
(* What the wishlist promises *)

\* Every step keeps the whole.
LEMMA NextWInv == ASSUME WInv, [WishlistNext]_wvars PROVE WInv'
<1>1. IInv'
  BY TicketsStep DEF WInv
<1>2. CASE \E r \in Requests : Leaves(r)
  BY <1>1, <1>2, LeavesWInv
<1>3. CASE \E r \in Requests : Handle(r) \/ Lands(r) \/ Fails(r)
  BY <1>1, <1>3, HandleWInv, LandsWInv, FailsWInv
<1>4. CASE \E i \in DOMAIN cartReads : HandleCartRead(i) \/ CartReadLands(i) \/ CartReadFails(i)
  BY <1>1, <1>4, HandleCartReadWInv, CartReadLandsWInv, CartReadFailsWInv
<1>5. CASE \E p \in Products : Elsewhere(p)
  BY <1>1, <1>5, ElsewhereWInv
<1>6. CASE \E p \in Persons : ViewerChanges(p)
  BY <1>1, <1>6, ViewerChangesWInv
<1>7. CASE UNCHANGED wvars
  <2>1. CartOnly /\ cart' = cart /\ cartReads' = cartReads /\ moved' = moved
    BY <1>7 DEF wvars, CartOnly, client, history
  <2>2. person' = person /\ basket' = basket
    BY <2>1 DEF CartOnly, vars
  <2>3. CartInv'
    BY <2>1, <2>2, SameMoveToBeHeard
    DEF WInv, CartInv, LiveReadsAreTheirs, CartToCome, LastReadBrings
  <2> QED BY <1>1, <2>1, <2>3, CartOnlyKeeps DEF WInv, WishlistTypeOK
<1> QED BY <1>2, <1>3, <1>4, <1>5, <1>6, <1>7 DEF WishlistNext, Leaves

THEOREM WishlistInductive == WishlistSpec => []WInv
  BY InitWInv, NextWInv, PTL DEF WishlistSpec

\* The wishlist's state and that of the API it speaks to keep their types.
THEOREM WishlistTypeCorrect == WishlistSpec => []WishlistTypeOK
  BY WishlistInductive, PTL DEF WInv

\* However many people, presses, reads and answers overlap, when all is quiet the hearts show what
\* the API has, but for what no answer could tell (store.ts 41-45).
THEOREM HeartsMatchAlways == WishlistSpec => []HeartsMatch
<1>1. WInv => HeartsMatch
  <2> SUFFICES ASSUME WInv, Quiet, arrived # {}, ~odd PROVE items = saved[person]
    BY DEF HeartsMatch
  <2>1. \A w \in Requests : ~Written(w)
    BY DEF Quiet, Written, Told
  <2> QED BY <2>1 DEF WInv, HeartsInv, ShowsSaved
<1> QED BY WishlistInductive, <1>1, PTL

\* After a move that came back, and with nothing on its way, the cart shown is the API's, however
\* the reads of the cart overtook each other (store.ts 23-24, 126-139).
THEOREM BadgeFollowsMoveAlways == WishlistSpec => []BadgeFollowsMove
<1>1. WInv => BadgeFollowsMove
  <2> SUFFICES ASSUME WInv, Quiet, moved PROVE cart = basket[person]
    BY DEF BadgeFollowsMove
  <2>1. ~MoveToBeHeard /\ Len(cartReads) = 0
    BY DEF Quiet, MoveToBeHeard
  <2> QED BY <2>1 DEF WInv, CartInv, CartToCome, LastReadBrings
<1> QED BY WishlistInductive, <1>1, PTL

\* However many hearts a page mounts, one of them reads (store.ts 62-66).
THEOREM OneReadForTheHeartsAlways == WishlistSpec => []OneReadForTheHearts
<1>1. WInv => OneReadForTheHearts
  <2> DEFINE reads == {r \in Requests : InFlight(r) /\ call[r].what = "heart" /\ IsSameEra(claim[r])}
  <2> SUFFICES ASSUME WInv, ~forgot PROVE Cardinality(reads) <= 1
    BY DEF OneReadForTheHearts
  <2>1. reads \subseteq {shared}
    BY DEF WInv, HeartIsShared
  <2>2. IsFiniteSet({shared}) /\ Cardinality({shared}) = 1
    BY FS_Singleton
  <2>3. Cardinality(reads) <= Cardinality({shared})
    BY <2>1, <2>2, FS_Subset
  <2> QED BY <2>2, <2>3
<1> QED BY WishlistInductive, <1>1, PTL
=============================================================================
