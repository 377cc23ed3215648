--------------------------- MODULE CheckoutProofs ---------------------------
(***************************************************************************)
(* What Checkout guarantees for any number of persons, baskets and calls:  *)
(* its values keep their kinds, a key never travels with two orders, the   *)
(* keys, the record and the retries implement OneOrder, a poll never shows *)
(* an older cart, and an order nobody was told of is the saved attempt's.  *)
(***************************************************************************)
EXTENDS Checkout, TLAPS

OrderCalls == {c \in wire : c.kind = "order"}

(* A key stands for one basket, on the wire, in the record and in the attempt. *)
OneBasket ==
    /\ \A c, d \in OrderCalls : c.key = d.key => c.basket = d.basket
    /\ \A c \in OrderCalls, r \in record : c.key = r.key => c.basket = r.basket
    /\ attempt.person # Nobody =>
          /\ \A c \in OrderCalls : c.key = attempt.key => c.basket = attempt.basket
          /\ \A r \in record : r.key = attempt.key => r.basket = attempt.basket

(* The record knows every order, and whoever is told of one is told of one it knows. *)
Written ==
    /\ \A r \in record : r.key <= minted
    /\ \A c \in OrderCalls : c.basket \in Baskets
    /\ \A o \in orders : \E r \in record : r.key = o.key /\ r.person = o.person
    /\ \A r \in record :
          r.answer = "placed" => [key |-> r.key, person |-> r.person, basket |-> r.basket] \in orders
    /\ \A c \in wire : c.answer = "placed" => The(c) \in orders

IInv == TypeOK /\ OneBasket /\ Written

-----------------------------------------------------------------------------
(* What may happen to a call *)

(* d is c, or c in another standing. *)
Stands(d, c) == /\ d \in Call
                /\ d.kind = c.kind /\ d.key = c.key /\ d.basket = c.basket /\ d.ticket = c.ticket
                /\ d.person = c.person /\ d.answer = c.answer

(* The calls of a set, in whatever standing. *)
Kept(calls, from) == \A d \in calls : \E c \in from : Stands(d, c)

LEMMA Standing ==
    ASSUME NEW c \in Call, NEW to \in {"current", "earlier", "gone"}
    PROVE  Stands(c, c) /\ Stands([c EXCEPT !.caller = to], c)
BY DEF Stands, Call

LEMMA HandedKept ==
    ASSUME NEW calls, calls \subseteq Call, NEW from, NEW to \in {"current", "earlier", "gone"}
    PROVE  Kept(Handed(calls, from, to), calls)
BY Standing DEF Handed, Kept

LEMMA AbandonedKept ==
    ASSUME NEW calls, calls \subseteq Call
    PROVE  Kept(Abandoned(calls), calls)
BY Standing DEF Abandoned, Kept

LEMMA PollsDroppedKept ==
    ASSUME NEW calls, calls \subseteq Call
    PROVE  Kept(PollsDropped(calls), calls)
<1> DEFINE polls == {c \in calls : c.kind = "poll"}
<1>1. Kept(Handed(polls, {"current"}, "earlier"), polls)
  BY HandedKept
<1> QED BY <1>1, Standing DEF PollsDropped, Kept

(* A call as it leaves. *)
LEMMA CallingIsACall ==
    ASSUME TypeOK, NEW kind \in Kinds, NEW key \in Nat, NEW basket \in Carts, NEW ticket \in Nat,
           NEW left \in Nat, NEW caller \in {"current", "earlier", "gone"},
           NEW d, d = Calling(kind, key, basket, ticket, left, caller)
    PROVE  /\ d \in Call /\ d.kind = kind /\ d.key = key /\ d.basket = basket
           /\ d.ticket = ticket /\ d.person = viewer /\ d.answer = "none"
<1>1. Empty \in Carts /\ viewer \in Persons \cup {Nobody}
  BY DEF Carts, TypeOK
<1> QED BY <1>1, Zenon DEF Calling, Call, Answers

(* d is a call c that was out, perhaps answered otherwise, or a read that leaves. *)
Follows(d) ==
    /\ d \in Call /\ d.ticket <= issued' /\ d.key <= minted
    /\ \/ \E c \in wire : /\ d.kind = c.kind /\ d.key = c.key /\ d.basket = c.basket
                          /\ d.answer = "placed" => c.answer = "placed" /\ d.person = c.person
       \/ d.kind # "order" /\ d.answer # "placed"

(* The wire's calls keep their meaning while keys, record and orders stay. *)
CallsFollow ==
    /\ UNCHANGED <<minted, record, orders>>
    /\ attempt' \in {attempt, NoAttempt}
    /\ \A d \in wire' : Follows(d)

LEMMA CallsFollowSound ==
    ASSUME IInv, CallsFollow
    PROVE  /\ wire' \subseteq Call /\ \A c \in wire' : c.ticket <= issued' /\ c.key <= minted'
           /\ OneBasket' /\ Written'
<1>1. \A d \in wire' : Follows(d)
  BY DEF CallsFollow
<1>2. \A d \in OrderCalls' : \E c \in OrderCalls : d.key = c.key /\ d.basket = c.basket
  BY <1>1 DEF OrderCalls, Follows
<1>3. wire' \subseteq Call /\ \A c \in wire' : c.ticket <= issued' /\ c.key <= minted'
  BY <1>1 DEF Follows, CallsFollow
<1>4. OneBasket'
  <2>1. CASE attempt' = attempt
    BY <1>2, <2>1 DEF OneBasket, IInv, CallsFollow
  <2>2. CASE attempt' = NoAttempt
    BY <1>2, <2>2 DEF OneBasket, IInv, CallsFollow, NoAttempt
  <2> QED BY <2>1, <2>2 DEF CallsFollow
<1>5. Written'
  <2>1. \A c \in OrderCalls' : c.basket \in Baskets
    BY <1>2 DEF Written, IInv
  <2>2. ASSUME NEW d \in wire', d.answer = "placed" PROVE The(d) \in orders
    <3>1. PICK c \in wire : /\ d.key = c.key /\ d.basket = c.basket
                            /\ c.answer = "placed" /\ d.person = c.person
      BY <1>1, <2>2 DEF Follows
    <3> QED BY <3>1 DEF Written, IInv, The
  <2>3. record' = record /\ orders' = orders /\ minted' = minted
    BY DEF CallsFollow
  <2>4. \A r \in record : r.key <= minted
    BY DEF Written, IInv
  <2>5. \A o \in orders : \E r \in record : r.key = o.key /\ r.person = o.person
    BY DEF Written, IInv
  <2>6. \A r \in record :
          r.answer = "placed" => [key |-> r.key, person |-> r.person, basket |-> r.basket] \in orders
    BY DEF Written, IInv
  <2>7. \A d \in wire' : d.answer = "placed" => The(d) \in orders'
    BY <2>2, <2>3
  <2>8. \A c \in wire' : The(c)' = The(c)
    BY DEF The
  <2> QED BY <2>1, <2>3, <2>4, <2>5, <2>6, <2>7, Zenon DEF Written, The
<1> QED BY <1>3, <1>4, <1>5

-----------------------------------------------------------------------------
(* Shapes of the wire *)

(* What stands on the wire already follows itself. *)
LEMMA KeptFollows ==
    ASSUME TypeOK, NEW calls, NEW from \in SUBSET wire, Kept(calls, from), issued' \in Nat, issued <= issued'
    PROVE  \A d \in calls : Follows(d)
<1> SUFFICES ASSUME NEW d \in calls PROVE Follows(d)
  OBVIOUS
<1>1. PICK c \in from : Stands(d, c)
  BY DEF Kept
<1>2. c \in wire /\ c \in Call /\ c.ticket <= issued /\ c.key <= minted
  BY DEF TypeOK
<1>3. c.ticket \in Nat /\ issued \in Nat
  BY <1>2 DEF Call, TypeOK
<1>4. d \in Call /\ d.ticket <= issued' /\ d.key <= minted
  BY <1>1, <1>2, <1>3 DEF Stands
<1> QED BY <1>1, <1>2, <1>4 DEF Follows, Stands

(* A read that leaves beside calls of the wire. *)
LEMMA ReadFollows ==
    ASSUME TypeOK, NEW kind \in Kinds \ {"order"}, NEW key \in Nat, key <= minted,
           NEW basket \in Carts, NEW caller \in {"current", "earlier", "gone"},
           NEW calls \in SUBSET wire, Read(kind, key, basket, caller, calls)
    PROVE  issued' \in Nat /\ issued <= issued' /\ \A d \in wire' : Follows(d)
<1> DEFINE leaving == Calling(kind, key, basket, issued + 1, 0, caller)
<1>1. issued \in Nat /\ issued' = issued + 1 /\ wire \subseteq Call
  BY DEF Read, TypeOK
<1>2. leaving \in Call /\ leaving.kind = kind /\ leaving.key = key /\ leaving.ticket = issued + 1
      /\ leaving.answer = "none"
  <2>1. kind \in Kinds /\ issued + 1 \in Nat /\ 0 \in Nat
    BY <1>1
  <2>2. leaving = Calling(kind, key, basket, issued + 1, 0, caller)
    OBVIOUS
  <2> HIDE DEF leaving
  <2> QED BY <2>1, <2>2, CallingIsACall
<1>3. wire' = PollsDropped(calls) \cup {leaving}
  BY DEF Read
<1> HIDE DEF leaving
<1>4. Follows(leaving)
  BY <1>1, <1>2 DEF Follows
<1>5. Kept(PollsDropped(calls), calls)
  BY <1>1, PollsDroppedKept
<1>6. \A d \in PollsDropped(calls) : Follows(d)
  BY <1>1, <1>5, KeptFollows
<1> QED BY <1>1, <1>3, <1>4, <1>6

(* The same call with an answer that tells of no order. *)
LEMMA AnsweredFollows ==
    ASSUME TypeOK, NEW c \in wire, NEW answer \in Answers \ {"placed"}, NEW content \in Carts,
           NEW at \in Nat, Answer(c, answer, content, at), UNCHANGED issued
    PROVE  \A d \in wire' : Follows(d)
<1> DEFINE told == [c EXCEPT !.answer = answer, !.cart = content, !.stamp = at]
<1>1. c \in Call /\ c.ticket <= issued /\ c.key <= minted /\ issued' = issued /\ issued \in Nat
  BY DEF TypeOK
<1>2. told \in Call /\ told.kind = c.kind /\ told.key = c.key /\ told.basket = c.basket
      /\ told.ticket = c.ticket /\ told.answer = answer
  BY <1>1 DEF Call
<1>3. wire' = (wire \ {c}) \cup (IF c.caller = "gone" THEN {} ELSE {told})
  BY DEF Answer
<1> HIDE DEF told
<1>4. Follows(told)
  BY <1>1, <1>2 DEF Follows
<1>5. Kept(wire \ {c}, wire)
  BY Standing DEF Kept, TypeOK
<1>6. \A d \in wire \ {c} : Follows(d)
  BY <1>1, <1>5, KeptFollows
<1> QED BY <1>3, <1>4, <1>6

(* One call less. *)
LEMMA OneLessFollows ==
    ASSUME TypeOK, NEW c \in wire, UNCHANGED issued
    PROVE  \A d \in wire \ {c} : Follows(d)
<1>1. Kept(wire \ {c}, wire)
  BY Standing DEF Kept, TypeOK
<1>2. issued' \in Nat /\ issued <= issued'
  BY DEF TypeOK
<1> QED BY <1>1, <1>2, KeptFollows

(* d is the call e, answered or not ... *)
Same(d, e) == /\ d.kind = e.kind /\ d.key = e.key /\ d.basket = e.basket
              /\ d.person = e.person /\ d.ticket = e.ticket

(* ... as e was, or, when e is c, with this answer. *)
Tells(d, e, c, answer) == d.answer = e.answer \/ (e = c /\ d.answer = answer)

(* Answered or not, the calls are those of before. *)
LEMMA AnsweredStands ==
    ASSUME TypeOK, NEW c \in wire, NEW answer \in Answers, NEW content \in Carts,
           NEW at \in Nat, Answer(c, answer, content, at)
    PROVE  \A d \in wire' :
              d \in Call /\ \E e \in wire : Same(d, e) /\ Tells(d, e, c, answer)
<1> DEFINE told == [c EXCEPT !.answer = answer, !.cart = content, !.stamp = at]
<1>1. c \in Call /\ wire \subseteq Call
  BY DEF TypeOK
<1>2. told \in Call /\ told.kind = c.kind /\ told.key = c.key /\ told.basket = c.basket
      /\ told.person = c.person /\ told.ticket = c.ticket /\ told.answer = answer
  BY <1>1 DEF Call
<1>3. wire' = (wire \ {c}) \cup (IF c.caller = "gone" THEN {} ELSE {told})
  BY DEF Answer
<1> HIDE DEF told
<1>4. Same(told, c) /\ Tells(told, c, c, answer)
  BY <1>2 DEF Same, Tells
<1>5. \A e \in wire : Same(e, e) /\ Tells(e, e, c, answer)
  BY DEF Same, Tells
<1> QED BY <1>1, <1>2, <1>3, <1>4, <1>5

-----------------------------------------------------------------------------
(* Types of the rest *)

RestOK == /\ viewer \in Persons \cup {Nobody} /\ shown \in [cart : Carts, stamp : Nat]
          /\ issued \in Nat /\ applied \in 0 .. issued
          /\ minted \in Nat /\ attempt \in Attempts /\ attempt.key <= minted
          /\ cart \in [Persons -> Carts] /\ stamp \in Nat
          /\ record \subseteq Outcome /\ orders \subseteq Order
          /\ visits \in Nat /\ changes \in Nat /\ barrier \in Nat
          /\ thanked \cup inferred \subseteq [key : Nat, person : Persons \cup {Nobody}, basket : Carts]
          /\ tangled \subseteq Mixups

LEMMA RestIsTyped == ASSUME TypeOK PROVE RestOK
BY DEF TypeOK, RestOK

LEMMA Followed ==
    ASSUME IInv, CallsFollow, RestOK'
    PROVE  IInv'
<1>1. /\ wire' \subseteq Call /\ \A c \in wire' : c.ticket <= issued' /\ c.key <= minted'
      /\ OneBasket' /\ Written'
  BY CallsFollowSound
<1>2. TypeOK'
  BY <1>1 DEF RestOK, TypeOK
<1> QED BY <1>1, <1>2 DEF IInv

LEMMA NoAttemptIsOne == NoAttempt \in Attempts /\ NoAttempt.key = 0
BY DEF NoAttempt, Attempts, Carts

LEMMA UnreadIsShown == Unread \in [cart : Carts, stamp : Nat]
BY DEF Unread, Carts

LEMMA MixedUpTyped ==
    ASSUME TypeOK, NEW c, NEW why \in SUBSET Mixups
    PROVE  MixedUp(c, why) \subseteq Mixups
BY DEF MixedUp, Mixups, TypeOK

LEMMA ShowsTyped ==
    ASSUME TypeOK, NEW c \in wire, NEW content \in Carts, Shows(c, content)
    PROVE  shown' \in [cart : Carts, stamp : Nat] /\ applied' \in 0 .. issued
<1>1. c \in Call /\ c.ticket <= issued /\ applied \in 0 .. issued /\ issued \in Nat
  BY DEF TypeOK
<1>2. c.ticket \in 0 .. issued /\ c.stamp \in Nat
  BY <1>1 DEF Call
<1> QED BY <1>1, <1>2 DEF Shows, TypeOK

LEMMA TheIsTyped ==
    ASSUME TypeOK, NEW c \in wire
    PROVE  The(c) \in [key : Nat, person : Persons \cup {Nobody}, basket : Carts]
BY DEF The, TypeOK, Call

LEMMA InfersTyped ==
    ASSUME TypeOK, NEW c \in wire, NEW screen, Infers(c, screen)
    PROVE  inferred' \subseteq [key : Nat, person : Persons \cup {Nobody}, basket : Carts]
BY TheIsTyped DEF Infers, TypeOK

-----------------------------------------------------------------------------
(* The page's own calls *)

LEMMA ReadStep ==
    ASSUME IInv, FetchCart \/ PollCart
    PROVE  IInv'
<1>1. PICK kind \in {"show", "poll"} : Read(kind, 0, Empty, "current", wire)
  BY DEF FetchCart, PollCart
<1>2. UNCHANGED <<page, minted, server, budget, barrier, past, tangled>>
  BY DEF FetchCart, PollCart
<1>3. TypeOK /\ kind \in Kinds \ {"order"} /\ 0 \in Nat /\ 0 <= minted /\ Empty \in Carts /\ wire \in SUBSET wire
  BY DEF IInv, TypeOK, Carts, Kinds
<1>4. issued' \in Nat /\ issued <= issued' /\ \A d \in wire' : Follows(d)
  BY <1>1, <1>3, ReadFollows
<1>5. CallsFollow
  BY <1>2, <1>4 DEF CallsFollow, page, server
<1>6. RestOK'
  BY <1>2, <1>3, <1>4, RestIsTyped DEF RestOK, page, server, budget, past
<1> QED BY <1>5, <1>6, Followed

(* The button: the key is the attempt's, of this very basket, or one nobody has used. *)
LEMMA PlaceOrderStep ==
    ASSUME IInv, PlaceOrder
    PROVE  IInv'
<1> DEFINE leaving == Calling("order", attempt'.key, shown.cart, issued + 1, Retries, "current")
<1>1. /\ viewer # Nobody /\ shown.cart # Empty /\ checkoutKeyFor(shown.cart)
      /\ issued' = issued + 1 /\ wire' = PollsDropped(wire) \cup {leaving}
      /\ UNCHANGED <<viewer, shown, applied, server, budget, barrier, past>>
      /\ tangled' \in {tangled, tangled \cup {"pressedAnother"}}
  BY DEF PlaceOrder
<1>2. TypeOK /\ RestOK /\ OneBasket /\ Written
  BY RestIsTyped DEF IInv
<1>3. shown.cart \in Baskets /\ shown.cart \in Carts /\ viewer \in Persons
  BY <1>1, <1>2 DEF RestOK, Carts
<1>4. /\ attempt' \in Attempts /\ minted' \in Nat /\ minted <= minted'
      /\ attempt'.key \in Nat /\ attempt'.key <= minted'
      /\ attempt'.person = viewer /\ attempt'.basket = shown.cart
      /\ \/ attempt' = attempt
         \/ attempt'.key = minted + 1
  <2>1. CASE UNCHANGED <<attempt, minted>> /\ attempt.person = viewer /\ attempt.basket = shown.cart
    BY <1>2, <2>1 DEF RestOK, Attempts
  <2>2. CASE FreshKeyFor(shown.cart)
    <3>1. minted \in Nat /\ minted' = minted + 1 /\ minted + 1 \in Nat
          /\ attempt' = [key |-> minted + 1, person |-> viewer, basket |-> shown.cart]
      BY <1>2, <2>2 DEF FreshKeyFor, RestOK
    <3>2. attempt' \in Attempts
      BY <1>3, <3>1 DEF Attempts
    <3> QED BY <3>1, <3>2
  <2> QED BY <1>1, <2>1, <2>2 DEF checkoutKeyFor
<1>5. leaving \in Call /\ leaving.kind = "order" /\ leaving.key = attempt'.key
      /\ leaving.basket = shown.cart /\ leaving.ticket = issued + 1 /\ leaving.answer = "none"
  <2>1. "order" \in Kinds /\ issued + 1 \in Nat /\ Retries \in Nat
    BY <1>2, BoundsNat DEF Kinds, RestOK
  <2>2. leaving = Calling("order", attempt'.key, shown.cart, issued + 1, Retries, "current")
    OBVIOUS
  <2>3. TypeOK /\ attempt'.key \in Nat /\ shown.cart \in Carts
    BY <1>2, <1>3, <1>4
  <2> HIDE DEF leaving
  <2>4. ASSUME NEW k \in Nat, NEW b \in Carts, NEW t \in Nat,
               NEW d, d = Calling("order", k, b, t, Retries, "current")
        PROVE  /\ d \in Call /\ d.kind = "order" /\ d.key = k /\ d.basket = b
               /\ d.ticket = t /\ d.answer = "none"
    BY <2>1, <2>3, <2>4, CallingIsACall, Z3
  <2> QED BY <2>1, <2>2, <2>3, <2>4
<1> HIDE DEF leaving
<1>6. \A d \in wire' : d = leaving \/ \E c \in wire : Stands(d, c)
  <2>1. Kept(PollsDropped(wire), wire)
    BY <1>2, PollsDroppedKept DEF TypeOK
  <2> QED BY <1>1, <2>1 DEF Kept
<1>7. /\ record' = record /\ orders' = orders
      /\ \A r \in record : r.key \in Nat /\ r.key <= minted
      /\ \A c \in wire : /\ c.key \in Nat /\ c.ticket \in Nat
                        /\ c.key <= minted /\ c.ticket <= issued
      /\ minted \in Nat /\ issued \in Nat
  BY <1>1, <1>2 DEF Written, TypeOK, Call, Outcome, server
<1>8. TypeOK'
  <2>1. wire' \subseteq Call /\ \A d \in wire' : d.ticket <= issued' /\ d.key <= minted'
    <3> SUFFICES ASSUME NEW d \in wire' PROVE d \in Call /\ d.ticket <= issued' /\ d.key <= minted'
      OBVIOUS
    <3>1. CASE d = leaving
      BY <1>1, <1>4, <1>5, <1>7, <3>1
    <3>2. ASSUME NEW c \in wire, Stands(d, c) PROVE d \in Call /\ d.ticket <= issued' /\ d.key <= minted'
      <4>1. d \in Call /\ d.ticket = c.ticket /\ d.key = c.key
        BY <3>2 DEF Stands
      <4> QED BY <1>1, <1>4, <1>7, <4>1
    <3> QED BY <1>6, <3>1, <3>2
  <2>2. RestOK'
    BY <1>1, <1>2, <1>4 DEF RestOK, server, budget, past, Mixups
  <2> QED BY <2>1, <2>2 DEF TypeOK, RestOK
<1>9. OneBasket'
  <2>1. /\ \A c \in OrderCalls : c.key = attempt'.key => c.basket = shown.cart
        /\ \A r \in record : r.key = attempt'.key => r.basket = shown.cart
    <3>1. CASE attempt' = attempt
      BY <1>1, <1>2, <1>4, <3>1 DEF OneBasket
    <3>2. CASE attempt'.key = minted + 1
      <4>1. \A c \in OrderCalls : c.key # minted + 1
        BY <1>7 DEF OrderCalls
      <4>2. \A r \in record : r.key # minted + 1
        BY <1>7
      <4> QED BY <3>2, <4>1, <4>2
    <3> QED BY <1>4, <3>1, <3>2
  <2>2. \A d \in OrderCalls' : \/ d.key = attempt'.key /\ d.basket = shown.cart
                              \/ \E c \in OrderCalls : d.key = c.key /\ d.basket = c.basket
    BY <1>5, <1>6 DEF OrderCalls, Stands
  <2>3. record' = record /\ attempt'.basket = shown.cart
    BY <1>4, <1>7
  <2>4. \A d \in OrderCalls' : d.key = attempt'.key => d.basket = shown.cart
    BY <2>1, <2>2
  <2>5. \A d \in OrderCalls', r \in record : d.key = r.key => d.basket = r.basket
    BY <1>2, <2>1, <2>2 DEF OneBasket
  <2>6. \A d, e \in OrderCalls' : d.key = e.key => d.basket = e.basket
    BY <1>2, <2>1, <2>2 DEF OneBasket
  <2> QED BY <2>1, <2>3, <2>4, <2>5, <2>6 DEF OneBasket
<1>10. Written'
  <2>1. \A d \in OrderCalls' : d.basket \in Baskets
    BY <1>2, <1>3, <1>5, <1>6 DEF OrderCalls, Stands, Written
  <2>2. \A d \in wire' : d.answer = "placed" => The(d)' \in orders
    BY <1>2, <1>5, <1>6 DEF Stands, Written, The
  <2>3. \A r \in record : r.key <= minted'
    BY <1>4, <1>7
  <2> QED BY <1>2, <1>7, <2>1, <2>2, <2>3 DEF Written
<1> QED BY <1>8, <1>9, <1>10 DEF IInv

-----------------------------------------------------------------------------
(* People, page loads and other devices *)

LEMMA PeopleStep ==
    ASSUME IInv,
           \/ \E person \in Persons : SignIn(person)
           \/ \E next \in Persons \cup {Nobody} : SignOut(next) \/ Reload(next)
           \/ \E person \in Persons, content \in Carts : Elsewhere(person, content)
    PROVE  IInv'
<1>1. TypeOK /\ RestOK /\ wire \subseteq Call /\ issued \in Nat
  BY RestIsTyped DEF IInv, RestOK, TypeOK
<1>2. ASSUME Kept(wire', wire), UNCHANGED <<issued, minted, record, orders>>,
             attempt' \in {attempt, NoAttempt}, RestOK'
      PROVE  IInv'
  <2>1. \A d \in wire' : Follows(d)
    BY <1>1, <1>2, KeptFollows
  <2> QED BY <1>2, <2>1, Followed DEF CallsFollow
<1>3. Kept(wire, wire)
  BY <1>1, Standing DEF Kept
<1>4. ASSUME NEW person \in Persons, SignIn(person) PROVE IInv'
  <2>1. Kept(wire', wire)
    BY <1>3, <1>4 DEF SignIn
  <2>2. RestOK'
    BY <1>1, <1>4 DEF SignIn, Visit, RestOK, server, past
  <2> QED BY <1>2, <1>4, <2>1, <2>2 DEF SignIn, server
<1>5. ASSUME NEW next \in Persons \cup {Nobody}, SignOut(next) PROVE IInv'
  <2>1. Kept(wire', wire)
    BY <1>1, <1>5, HandedKept DEF SignOut
  <2>2. RestOK'
    BY <1>1, <1>5, NoAttemptIsOne, UnreadIsShown DEF SignOut, Visit, RestOK, server, past
  <2> QED BY <1>2, <1>5, <2>1, <2>2 DEF SignOut, server
<1>6. ASSUME NEW restored \in Persons \cup {Nobody}, Reload(restored) PROVE IInv'
  <2>1. Kept(wire', wire)
    BY <1>1, <1>6, AbandonedKept DEF Reload
  <2>2. RestOK'
    <3>1. issued \in 0 .. issued
      BY <1>1
    <3> QED BY <1>1, <1>6, <3>1, UnreadIsShown DEF Reload, Visit, RestOK, server, past
  <2> QED BY <1>2, <1>6, <2>1, <2>2 DEF Reload, server
<1>7. ASSUME NEW person \in Persons, NEW content \in Carts, Elsewhere(person, content) PROVE IInv'
  <2>1. Kept(wire', wire)
    BY <1>3, <1>7 DEF Elsewhere
  <2>2. RestOK'
    BY <1>1, <1>7 DEF Elsewhere, RestOK, page, past, Mixups
  <2> QED BY <1>2, <1>7, <2>1, <2>2 DEF Elsewhere, page
<1> QED BY <1>4, <1>5, <1>6, <1>7

-----------------------------------------------------------------------------
(* The server *)

(* Its answers that tell of no order. *)
LEMMA AnswerStep ==
    ASSUME IInv, NEW c \in wire, AnswersRead(c) \/ StillRunning(c) \/ TurnsAway(c)
    PROVE  IInv'
<1>1. TypeOK /\ RestOK
  BY RestIsTyped DEF IInv
<1>2. UNCHANGED <<page, issued, minted, server, budget, barrier, past, tangled>>
  BY DEF AnswersRead, StillRunning, TurnsAway
<1>3. PICK answer \in {"read", "inFlight", "turnedAway"}, content \in Carts, at \in Nat :
           Answer(c, answer, content, at)
  <2>1. CASE AnswersRead(c)
    <3>1. c.person \in Persons
      BY <1>1, <2>1 DEF AnswersRead, Due, TypeOK, Call
    <3>2. cart[c.person] \in Carts /\ stamp \in Nat
      BY <1>1, <3>1 DEF RestOK
    <3> QED BY <2>1, <3>2 DEF AnswersRead
  <2>2. CASE StillRunning(c) \/ TurnsAway(c)
    BY <2>2 DEF StillRunning, TurnsAway, Carts
  <2> QED BY <2>1, <2>2
<1>4. \A d \in wire' : Follows(d)
  <2>1. answer \in Answers \ {"placed"}
    BY DEF Answers, Verdicts
  <2> QED BY <1>1, <1>2, <1>3, <2>1, AnsweredFollows
<1>5. CallsFollow
  BY <1>2, <1>4 DEF CallsFollow, page, server
<1>6. RestOK'
  BY <1>1, <1>2 DEF RestOK, page, server, budget, past
<1> QED BY <1>5, <1>6, Followed

(* Its verdicts: of the record, or new in it. *)
LEMMA VerdictStep ==
    ASSUME IInv, NEW c \in wire,
           \/ Replays(c)
           \/ \E answer \in {"placed", "fault"} : WritesOrder(c, answer)
           \/ \E answer \in {"totalChanged", "refused", "fault"} : WritesNothing(c, answer)
    PROVE  IInv'
<1>1. TypeOK /\ RestOK /\ OneBasket /\ Written
  BY RestIsTyped DEF IInv
<1>2. /\ c \in Call /\ c.kind = "order" /\ c \in OrderCalls /\ c.person \in Persons
      /\ c.key \in Nat /\ c.key <= minted /\ c.basket \in Baskets
  <2>1. c \in Call /\ c.kind = "order" /\ c.person # Nobody /\ c.key <= minted
    BY <1>1 DEF Replays, WritesOrder, WritesNothing, Due, TypeOK
  <2> QED BY <1>1, <2>1 DEF Call, OrderCalls, Written
<1>3. UNCHANGED <<viewer, shown, applied, attempt, issued, minted, budget, barrier, past, tangled>>
  BY DEF Replays, WritesOrder, WritesNothing, page
<1>4. ASSUME NEW answer \in Verdicts, NEW at \in Nat, Answer(c, answer, Empty, at)
      PROVE  /\ wire' \subseteq Call
             /\ \A d \in wire' : d.ticket <= issued' /\ d.key <= minted'
             /\ \A d \in OrderCalls' : \E e \in OrderCalls : d.key = e.key /\ d.basket = e.basket
             /\ \A d \in wire' : d.answer = "placed" =>
                   \/ The(d) = The(c) /\ answer = "placed"
                   \/ The(d) \in orders
  <2>1. answer \in Answers /\ Empty \in Carts
    BY DEF Answers, Carts
  <2>2. \A d \in wire' :
              d \in Call /\ \E e \in wire : Same(d, e) /\ Tells(d, e, c, answer)
    BY <1>1, <1>4, <2>1, AnsweredStands
  <2>3. \A d \in wire' : d.ticket <= issued' /\ d.key <= minted'
    BY <1>1, <1>3, <2>2 DEF TypeOK, Same
  <2>4. \A d \in OrderCalls' : \E e \in OrderCalls : d.key = e.key /\ d.basket = e.basket
    BY <2>2 DEF OrderCalls, Same
  <2>5. ASSUME NEW d \in wire', d.answer = "placed"
        PROVE  (The(d) = The(c) /\ answer = "placed") \/ The(d) \in orders
    <3>1. PICK e \in wire : Same(d, e) /\ Tells(d, e, c, answer)
      BY <2>2
    <3>2. The(d) = The(e)
      BY <3>1 DEF The, Same
    <3>3. CASE e = c /\ d.answer = answer
      BY <2>5, <3>2, <3>3
    <3>4. CASE d.answer = e.answer
      BY <1>1, <2>5, <3>2, <3>4 DEF Written
    <3> QED BY <3>1, <3>3, <3>4 DEF Tells
  <2> QED BY <2>2, <2>3, <2>4, <2>5
<1>5. ASSUME NEW r \in record, r.key = c.key, r.person = c.person, r.answer = "placed"
      PROVE  The(c) \in orders
  <2>1. r.basket = c.basket
    BY <1>1, <1>2, <1>5 DEF OneBasket
  <2> QED BY <1>1, <1>5, <2>1 DEF Written, The
<1>6. CASE Replays(c)
  <2>1. PICK r \in record : r.key = c.key /\ r.person = c.person /\ Answer(c, r.answer, Empty, r.stamp)
    BY <1>6 DEF Replays, Handled
  <2>2. r.answer \in Verdicts /\ r.stamp \in Nat
    BY <1>1 DEF RestOK, Outcome
  <2>3. record' = record /\ orders' = orders /\ cart' = cart /\ stamp' = stamp
    BY <1>6 DEF Replays, server
  <2>4. \A d \in wire' : d.answer = "placed" => The(d) \in orders
    BY <1>4, <1>5, <2>1, <2>2
  <2>5. RestOK'
    BY <1>1, <1>3, <2>3 DEF RestOK, budget, past
  <2>6. TypeOK'
    BY <1>4, <2>1, <2>2, <2>5 DEF TypeOK, RestOK
  <2>7. OneBasket'
    BY <1>1, <1>3, <1>4, <2>1, <2>2, <2>3 DEF OneBasket
  <2>8. Written'
    <3>1. \A d \in wire' : d.answer = "placed" => The(d)' \in orders'
      BY <2>3, <2>4 DEF The
    <3>2. \A d \in OrderCalls' : d.basket \in Baskets
      BY <1>1, <1>4, <2>1, <2>2 DEF Written
    <3> QED BY <1>1, <1>3, <2>3, <3>1, <3>2 DEF Written
  <2> QED BY <2>6, <2>7, <2>8 DEF IInv
<1>7. ASSUME NEW answer \in Verdicts, NEW at \in Nat,
             Answer(c, answer, Empty, at), Recorded(c, answer, at), Handled(c) = {}, RestOK',
             \/ answer # "placed" /\ orders' = orders
             \/ orders' = orders \cup {The(c)}
      PROVE  IInv'
  <2> DEFINE new == [key |-> c.key, person |-> c.person, basket |-> c.basket,
                     answer |-> answer, stamp |-> at]
  <2>1. record' = record \cup {new} /\ new.key = c.key /\ new.person = c.person
        /\ new.basket = c.basket /\ new.answer = answer
    BY <1>7 DEF Recorded
  <2> HIDE DEF new
  <2>2. TypeOK'
    BY <1>4, <1>7 DEF TypeOK, RestOK
  <2>3. OneBasket'
    <3>1. \A d, e \in OrderCalls' : d.key = e.key => d.basket = e.basket
      BY <1>1, <1>4, <1>7 DEF OneBasket
    <3>2. \A d \in OrderCalls', r \in record : d.key = r.key => d.basket = r.basket
      BY <1>1, <1>4, <1>7 DEF OneBasket
    <3>3. \A d \in OrderCalls' : d.key = c.key => d.basket = c.basket
      BY <1>1, <1>2, <1>4, <1>7 DEF OneBasket
    <3>4. \A d \in OrderCalls', r \in record' : d.key = r.key => d.basket = r.basket
      BY <2>1, <3>2, <3>3
    <3>5. attempt.person # Nobody =>
              /\ \A d \in OrderCalls' : d.key = attempt.key => d.basket = attempt.basket
              /\ \A r \in record' : r.key = attempt.key => r.basket = attempt.basket
      BY <1>1, <1>2, <1>4, <1>7, <2>1 DEF OneBasket
    <3> QED BY <1>3, <3>1, <3>4, <3>5 DEF OneBasket
  <2>4. Written'
    <3>1. \A r \in record' : r.key <= minted'
      BY <1>1, <1>2, <1>3, <2>1 DEF Written
    <3>2. \A d \in OrderCalls' : d.basket \in Baskets
      BY <1>1, <1>4, <1>7 DEF Written
    <3>3. \A o \in orders' : \E r \in record' : r.key = o.key /\ r.person = o.person
      <4>1. The(c).key = c.key /\ The(c).person = c.person
        BY DEF The
      <4>2. \A o \in orders : \E r \in record : r.key = o.key /\ r.person = o.person
        BY <1>1 DEF Written
      <4>3. orders' \subseteq orders \cup {The(c)}
        BY <1>7
      <4> QED BY <2>1, <4>1, <4>2, <4>3
    <3>4. ASSUME NEW r \in record', r.answer = "placed"
          PROVE  [key |-> r.key, person |-> r.person, basket |-> r.basket] \in orders'
      <4>1. CASE r \in record
        BY <1>1, <1>7, <3>4, <4>1 DEF Written
      <4>2. CASE r = new
        BY <1>7, <2>1, <3>4, <4>2 DEF The
      <4> QED BY <2>1, <4>1, <4>2
    <3>5. \A d \in wire' : d.answer = "placed" => The(d)' \in orders'
      <4>1. \A d \in wire' : d.answer = "placed" => The(d) \in orders'
        BY <1>4, <1>7
      <4> QED BY <4>1 DEF The
    <3> QED BY <3>1, <3>2, <3>3, <3>4, <3>5 DEF Written
  <2> QED BY <2>2, <2>3, <2>4 DEF IInv
<1>8. ASSUME NEW answer \in {"placed", "fault"}, WritesOrder(c, answer) PROVE IInv'
  <2>1. /\ orders' = orders \cup {The(c)} /\ stamp' = stamp + 1
        /\ cart' = [cart EXCEPT ![c.person] = Empty]
        /\ Recorded(c, answer, stamp + 1) /\ Answer(c, answer, Empty, stamp + 1) /\ Handled(c) = {}
    BY <1>8 DEF WritesOrder, The
  <2>2. answer \in Verdicts /\ stamp + 1 \in Nat
    BY <1>1 DEF Verdicts, RestOK
  <2>3. RestOK'
    <3>1. cart' \in [Persons -> Carts]
      BY <1>1, <2>1 DEF RestOK, Carts
    <3>2. orders' \subseteq Order
      BY <1>1, <1>2, <2>1 DEF RestOK, Order, The
    <3>3. record' \subseteq Outcome
      BY <1>1, <1>2, <2>1, <2>2 DEF RestOK, Outcome, Recorded
    <3> QED BY <1>1, <1>3, <2>1, <2>2, <3>1, <3>2, <3>3 DEF RestOK, budget, past
  <2> QED BY <1>7, <2>1, <2>2, <2>3
<1>9. ASSUME NEW answer \in {"totalChanged", "refused", "fault"}, WritesNothing(c, answer) PROVE IInv'
  <2>1. /\ UNCHANGED <<cart, stamp, orders>>
        /\ Recorded(c, answer, stamp) /\ Answer(c, answer, Empty, stamp) /\ Handled(c) = {}
    BY <1>9 DEF WritesNothing
  <2>2. answer \in Verdicts /\ stamp \in Nat
    BY <1>1 DEF Verdicts, RestOK
  <2>3. RestOK'
    <3>1. record' \subseteq Outcome
      BY <1>1, <1>2, <2>1, <2>2 DEF RestOK, Outcome, Recorded
    <3> QED BY <1>1, <1>3, <2>1, <3>1 DEF RestOK, budget, past
  <2> QED BY <1>7, <2>1, <2>2, <2>3
<1> QED BY <1>6, <1>8, <1>9

-----------------------------------------------------------------------------
(* Answers that land, and those that never do *)

(* A call that comes back takes its read along, or none; keys, record and orders stay. *)
LEMMA LandsStep ==
    ASSUME IInv, NEW c \in wire,
           /\ UNCHANGED <<viewer, minted, server, budget, barrier>>
           /\ attempt' \in {attempt, NoAttempt}
           /\ shown' \in [cart : Carts, stamp : Nat] /\ applied' \in 0 .. issued
           /\ thanked' \cup inferred' \subseteq [key : Nat, person : Persons \cup {Nobody}, basket : Carts]
           /\ tangled' \subseteq Mixups,
           \/ UNCHANGED issued /\ \A d \in wire' : Follows(d)
           \/ \E kind \in {"show", "settle"}, key \in {0, c.key}, basket \in {Empty, c.basket} :
                  Read(kind, key, basket, c.caller, wire \ {c})
    PROVE  IInv'
<1>1. TypeOK /\ RestOK /\ issued \in Nat
  BY RestIsTyped DEF IInv, RestOK
<1>2. issued' \in Nat /\ issued <= issued' /\ \A d \in wire' : Follows(d)
  <2>1. ASSUME NEW kind \in {"show", "settle"}, NEW key \in {0, c.key}, NEW basket \in {Empty, c.basket},
               Read(kind, key, basket, c.caller, wire \ {c})
        PROVE  issued' \in Nat /\ issued <= issued' /\ \A d \in wire' : Follows(d)
    <3>1. c \in Call /\ c.key <= minted /\ minted \in Nat
      BY <1>1 DEF TypeOK
    <3>2. kind \in Kinds \ {"order"} /\ key \in Nat /\ key <= minted /\ basket \in Carts
          /\ c.caller \in {"current", "earlier", "gone"} /\ wire \ {c} \in SUBSET wire
      BY <3>1 DEF Call, Carts, Kinds
    <3> QED BY <1>1, <2>1, <3>2, ReadFollows
  <2> QED BY <1>1, <2>1
<1>3. CallsFollow
  BY <1>2 DEF CallsFollow, server
<1>4. RestOK'
  <2>1. applied' \in 0 .. issued'
    BY <1>1, <1>2
  <2>2. attempt' \in Attempts /\ attempt'.key <= minted'
    BY <1>1, NoAttemptIsOne DEF RestOK
  <2> QED BY <1>1, <1>2, <2>1, <2>2 DEF RestOK, server, budget
<1> QED BY <1>3, <1>4, Followed

LEMMA AnswersStep ==
    ASSUME IInv, NEW c \in wire,
           \/ GivesUp(c) \/ PlacedLands(c) \/ InFlightLands(c) \/ TotalChangedLands(c)
           \/ FaultLands(c) \/ RefusedLands(c) \/ ReadLands(c)
    PROVE  IInv'
<1> DEFINE Told == [key : Nat, person : Persons \cup {Nobody}, basket : Carts]
<1>1. /\ TypeOK /\ c \in Call /\ issued \in Nat /\ applied \in 0 .. issued
      /\ shown \in [cart : Carts, stamp : Nat] /\ thanked \subseteq Told /\ inferred \subseteq Told
      /\ tangled \subseteq Mixups /\ wire \subseteq Call
  BY DEF IInv, TypeOK
<1> HIDE DEF Told
<1>2. \A why \in SUBSET Mixups : MixedUp(c, why) \subseteq Mixups
  BY <1>1, MixedUpTyped
<1>3. {} \in SUBSET Mixups /\ {"turnedAway"} \in SUBSET Mixups /\ {"refilled"} \in SUBSET Mixups
      /\ {"late"} \in SUBSET Mixups /\ {"stale"} \in SUBSET Mixups
  BY DEF Mixups
<1>4. UNCHANGED issued => \A d \in wire \ {c} : Follows(d)
  BY <1>1, OneLessFollows
<1>5. CASE GivesUp(c)
  <2>1. /\ wire' = (wire \ {c}) \cup Abandoned({c}) /\ Infers(c, shown.cart)
        /\ tangled' \in {tangled, MixedUp(c, {})}
        /\ UNCHANGED <<page, issued, minted, server, budget, barrier, thanked>>
    BY <1>5 DEF GivesUp
  <2>2. \A d \in wire' : Follows(d)
    <3>1. Kept(Abandoned({c}), {c})
      BY <1>1, AbandonedKept
    <3>2. \A d \in Abandoned({c}) : Follows(d)
      BY <1>1, <2>1, <3>1, KeptFollows
    <3> QED BY <1>4, <2>1, <3>2
  <2>3. inferred' \subseteq Told
    BY <1>1, <2>1, InfersTyped DEF Told
  <2>4. tangled' \subseteq Mixups
    BY <1>1, <1>2, <1>3, <2>1
  <2> QED BY <1>1, <2>1, <2>2, <2>3, <2>4, LandsStep DEF page, Told
<1>6. CASE PlacedLands(c)
  <2>1. /\ wire' = wire \ {c} /\ Shows(c, Empty) /\ thanked' = thanked \cup {The(c)}
        /\ attempt' = NoAttempt /\ tangled' = MixedUp(c, {})
        /\ UNCHANGED <<viewer, issued, minted, server, budget, barrier, inferred>>
    BY <1>6 DEF PlacedLands, EndCheckoutAttempt
  <2>2. Empty \in Carts
    BY DEF Carts
  <2>3. shown' \in [cart : Carts, stamp : Nat] /\ applied' \in 0 .. issued
    BY <1>1, <2>1, <2>2, ShowsTyped
  <2>4. thanked' \subseteq Told
    BY <1>1, <2>1, TheIsTyped DEF Told
  <2>5. \A d \in wire' : Follows(d)
    BY <1>4, <2>1
  <2>6. tangled' \subseteq Mixups
    BY <1>2, <1>3, <2>1
  <2> QED BY <1>1, <2>1, <2>3, <2>4, <2>5, <2>6, LandsStep DEF Told
<1>7. CASE InFlightLands(c)
  <2>1. /\ tangled' \in {tangled, tangled \cup {"late"}}
        /\ UNCHANGED <<page, minted, server, budget, barrier, past>>
    BY <1>7 DEF InFlightLands
  <2>2. \/ UNCHANGED issued /\ \A d \in wire' : Follows(d)
        \/ Read("show", 0, Empty, c.caller, wire \ {c})
    <3> DEFINE again == [c EXCEPT !.answer = "none", !.left = @ - 1, !.person = viewer]
    <3>1. CASE c.left > 0 /\ wire' = (wire \ {c}) \cup {again} /\ UNCHANGED issued
      <4>1. c.left - 1 \in Nat /\ viewer \in Persons \cup {Nobody}
        BY <1>1, <3>1 DEF Call, TypeOK
      <4>2. again \in Call /\ again.kind = c.kind /\ again.key = c.key /\ again.basket = c.basket
            /\ again.ticket = c.ticket /\ again.answer = "none"
        BY <1>1, <4>1 DEF Call, Answers
      <4>3. c.key <= minted /\ c.ticket <= issued
        BY <1>1 DEF TypeOK
      <4>4. wire' = (wire \ {c}) \cup {again}
        BY <3>1
      <4> HIDE DEF again
      <4>5. Follows(again)
        BY <3>1, <4>2, <4>3 DEF Follows
      <4> QED BY <1>4, <3>1, <4>4, <4>5
    <3>2. CASE Read("show", 0, Empty, c.caller, wire \ {c})
      BY <3>2
    <3> QED BY <1>7, <3>1, <3>2 DEF InFlightLands
  <2>3. tangled' \subseteq Mixups
    BY <1>1, <1>3, <2>1
  <2>4. "show" \in {"show", "settle"} /\ 0 \in {0, c.key} /\ Empty \in {Empty, c.basket}
    OBVIOUS
  <2> QED BY <1>1, <2>1, <2>2, <2>3, <2>4, LandsStep DEF page, past, Told
<1>8. CASE TotalChangedLands(c)
  <2>1. /\ attempt' = NoAttempt /\ tangled' = MixedUp(c, {"turnedAway"})
        /\ Read("show", 0, Empty, c.caller, wire \ {c})
        /\ UNCHANGED <<viewer, shown, applied, minted, server, budget, barrier, past>>
    BY <1>8 DEF TotalChangedLands, EndCheckoutAttempt
  <2>2. tangled' \subseteq Mixups
    BY <1>2, <1>3, <2>1
  <2>3. "show" \in {"show", "settle"} /\ 0 \in {0, c.key} /\ Empty \in {Empty, c.basket}
    OBVIOUS
  <2> QED BY <1>1, <2>1, <2>2, <2>3, LandsStep DEF past, Told
<1>9. CASE FaultLands(c)
  <2>1. /\ Read("settle", c.key, c.basket, c.caller, wire \ {c})
        /\ UNCHANGED <<page, minted, server, budget, barrier, past, tangled>>
    BY <1>9 DEF FaultLands
  <2>2. "settle" \in {"show", "settle"} /\ c.key \in {0, c.key} /\ c.basket \in {Empty, c.basket}
    OBVIOUS
  <2> QED BY <1>1, <2>1, <2>2, LandsStep DEF page, past, Told
<1>10. CASE RefusedLands(c)
  <2>1. /\ attempt' = NoAttempt /\ tangled' = MixedUp(c, {"turnedAway"})
        /\ \/ wire' = wire \ {c} /\ UNCHANGED issued
           \/ Read("show", 0, Empty, c.caller, wire \ {c})
        /\ UNCHANGED <<viewer, shown, applied, minted, server, budget, barrier, past>>
    BY <1>10 DEF RefusedLands, EndCheckoutAttempt
  <2>2. tangled' \subseteq Mixups
    BY <1>2, <1>3, <2>1
  <2>3. \/ UNCHANGED issued /\ \A d \in wire' : Follows(d)
        \/ Read("show", 0, Empty, c.caller, wire \ {c})
    BY <1>4, <2>1
  <2>4. "show" \in {"show", "settle"} /\ 0 \in {0, c.key} /\ Empty \in {Empty, c.basket}
    OBVIOUS
  <2> QED BY <1>1, <2>1, <2>2, <2>3, <2>4, LandsStep DEF past, Told
<1>11. CASE ReadLands(c)
  <2>1. /\ wire' = wire \ {c} /\ Shows(c, c.cart) /\ Infers(c, shown'.cart)
        /\ attempt' \in {attempt, NoAttempt}
        /\ UNCHANGED <<viewer, issued, minted, server, budget, barrier, thanked>>
    BY <1>11 DEF ReadLands
  <2>2. shown' \in [cart : Carts, stamp : Nat] /\ applied' \in 0 .. issued
    <3>1. c.cart \in Carts
      BY <1>1 DEF Call
    <3> QED BY <1>1, <2>1, <3>1, ShowsTyped
  <2>3. inferred' \subseteq Told
    BY <1>1, <2>1, InfersTyped DEF Told
  <2>4. tangled' \subseteq Mixups
    <3>1. tangled' \subseteq tangled \cup MixedUp(c, {}) \cup MixedUp(c, {"refilled"}) \cup {"stale"}
      BY <1>11 DEF ReadLands
    <3> QED BY <1>1, <1>2, <1>3, <3>1
  <2>5. \A d \in wire' : Follows(d)
    BY <1>4, <2>1
  <2> QED BY <1>1, <2>1, <2>2, <2>3, <2>4, <2>5, LandsStep DEF Told
<1> QED BY <1>5, <1>6, <1>7, <1>8, <1>9, <1>10, <1>11

-----------------------------------------------------------------------------
(* The invariant *)

LEMMA InitIInv == Init => IInv
<1> SUFFICES ASSUME Init PROVE IInv
  OBVIOUS
<1>1. TypeOK
  <2>1. RestOK /\ wire = {}
    <3>1. 0 \in 0 .. 0
      OBVIOUS
    <3> QED BY <3>1, NoAttemptIsOne, UnreadIsShown DEF Init, RestOK
  <2> QED BY <2>1 DEF RestOK, TypeOK
<1>2. OneBasket /\ Written
  BY DEF Init, OneBasket, Written, OrderCalls, NoAttempt
<1> QED BY <1>1, <1>2 DEF IInv

LEMMA StepIInv == IInv /\ [Next]_vars => IInv'
<1> SUFFICES ASSUME IInv, [Next]_vars PROVE IInv'
  OBVIOUS
<1>1. CASE PlaceOrder
  BY <1>1, PlaceOrderStep
<1>2. CASE FetchCart \/ PollCart
  BY <1>2, ReadStep
<1>3. CASE \/ \E person \in Persons : SignIn(person)
           \/ \E next \in Persons \cup {Nobody} : SignOut(next) \/ Reload(next)
           \/ \E person \in Persons, content \in Carts : Elsewhere(person, content)
  BY <1>3, PeopleStep
<1>4. ASSUME NEW c \in wire, AnswersRead(c) \/ StillRunning(c) \/ TurnsAway(c) PROVE IInv'
  BY <1>4, AnswerStep
<1>5. ASSUME NEW c \in wire,
             \/ Replays(c)
             \/ \E answer \in {"placed", "fault"} : WritesOrder(c, answer)
             \/ \E answer \in {"totalChanged", "refused", "fault"} : WritesNothing(c, answer)
      PROVE  IInv'
  BY <1>5, VerdictStep
<1>6. ASSUME NEW c \in wire,
             \/ GivesUp(c) \/ PlacedLands(c) \/ InFlightLands(c) \/ TotalChangedLands(c)
             \/ FaultLands(c) \/ RefusedLands(c) \/ ReadLands(c)
      PROVE  IInv'
  BY <1>6, AnswersStep
<1>7. CASE UNCHANGED vars
  <2>1. TypeOK'
    BY <1>7 DEF IInv, TypeOK, vars, page, server, budget, past
  <2>2. OneBasket'
    BY <1>7 DEF IInv, OneBasket, OrderCalls, vars, page, server
  <2>3. Written'
    BY <1>7 DEF IInv, Written, OrderCalls, The, vars, server
  <2> QED BY <2>1, <2>2, <2>3 DEF IInv
<1> QED BY <1>1, <1>2, <1>3, <1>4, <1>5, <1>6, <1>7 DEF Next

(* Every variable of the page, the network and the server keeps its kind, and no ticket or key  *)
(* runs ahead of its dispenser, however many persons, presses and page loads there are.         *)
THEOREM TypeCorrect == Spec => []TypeOK
<1>1. IInv => TypeOK
  BY DEF IInv
<1> QED BY InitIInv, StepIInv, <1>1, PTL DEF Spec

(* checkoutKeyFor binds a key to one order: whatever is pressed, lost, replayed or left behind  *)
(* by a page load, the server never sees a key with another order than the one it recorded.     *)
THEOREM KeyIsOneOrders == Spec => []KeyMeansOneOrder
<1>1. IInv => KeyMeansOneOrder
  BY DEF IInv, OneBasket, OrderCalls, KeyMeansOneOrder
<1> QED BY InitIInv, StepIInv, <1>1, PTL DEF Spec

-----------------------------------------------------------------------------
(* The refinement *)

LEMMA AbstractInit == Init => Abstract!Init
BY DEF Init, Abstract!Init

LEMMA AbstractStep == IInv /\ [Next]_vars => [Abstract!Next]_<<orders, thanked>>
<1> SUFFICES ASSUME IInv, [Next]_vars PROVE [Abstract!Next]_<<orders, thanked>>
  OBVIOUS
<1>1. ASSUME NEW c \in wire, NEW answer \in {"placed", "fault"}, WritesOrder(c, answer)
      PROVE  Abstract!Next
  <2>1. /\ orders' = orders \cup {The(c)} /\ thanked' = thanked /\ Handled(c) = {}
    BY <1>1 DEF WritesOrder, The, past
  <2>2. ASSUME NEW o \in orders, o.key = c.key, o.person = c.person PROVE FALSE
    <3>1. PICK r \in record : r.key = o.key /\ r.person = o.person
      BY DEF IInv, Written
    <3> QED BY <2>1, <2>2, <3>1 DEF Handled
  <2>3. The(c).key = c.key /\ The(c).person = c.person
    BY DEF The
  <2>4. Abstract!Place(The(c))
    BY <2>1, <2>2, <2>3 DEF Abstract!Place
  <2>5. The(c) \in orders'
    BY <2>1
  <2> QED BY <2>4, <2>5 DEF Abstract!Next
<1>2. ASSUME NEW c \in wire, PlacedLands(c) PROVE Abstract!Next
  <2>1. thanked' = thanked \cup {The(c)} /\ orders' = orders /\ c.answer = "placed"
    BY <1>2 DEF PlacedLands, server, Lands
  <2>2. The(c) \in orders
    BY <2>1 DEF IInv, Written
  <2>3. Abstract!Thank(The(c))
    BY <2>1, <2>2 DEF Abstract!Thank
  <2>4. The(c) \in thanked'
    BY <2>1
  <2> QED BY <2>3, <2>4 DEF Abstract!Next
<1>3. CASE UNCHANGED <<orders, thanked>>
  BY <1>3
<1>4. CASE PlaceOrder \/ FetchCart \/ PollCart
  BY <1>3, <1>4 DEF PlaceOrder, FetchCart, PollCart, server, past
<1>5. ASSUME NEW person \in Persons \cup {Nobody}, SignIn(person) \/ SignOut(person) \/ Reload(person)
      PROVE  UNCHANGED <<orders, thanked>>
  BY <1>5 DEF SignIn, SignOut, Reload, server, past
<1>6. ASSUME NEW person \in Persons, NEW content \in Carts, Elsewhere(person, content)
      PROVE  UNCHANGED <<orders, thanked>>
  BY <1>6 DEF Elsewhere, past
<1>7. ASSUME NEW c \in wire, \/ AnswersRead(c) \/ Replays(c) \/ StillRunning(c) \/ TurnsAway(c)
                              \/ \E answer \in {"totalChanged", "refused", "fault"} : WritesNothing(c, answer)
      PROVE  UNCHANGED <<orders, thanked>>
  BY <1>7 DEF AnswersRead, Replays, StillRunning, TurnsAway, WritesNothing, server, past
<1>8. ASSUME NEW c \in wire, \/ GivesUp(c) \/ InFlightLands(c) \/ TotalChangedLands(c)
                              \/ FaultLands(c) \/ RefusedLands(c) \/ ReadLands(c)
      PROVE  UNCHANGED <<orders, thanked>>
  BY <1>8 DEF GivesUp, InFlightLands, TotalChangedLands, FaultLands, RefusedLands, ReadLands, server, past
<1>9. CASE UNCHANGED vars
  BY <1>9 DEF vars, server, past
<1> QED BY <1>1, <1>2, <1>3, <1>4, <1>5, <1>6, <1>7, <1>8, <1>9 DEF Next

(* store.ts promises one order per press, however often it is replayed: the keys, the saved     *)
(* attempt, the server's record and the retries implement OneOrder, in which a key and a person *)
(* get one order at most, and nobody is thanked for an order that was not written.              *)
THEOREM OrdersAreWrittenOnce == Spec => ImplementsOneOrder
<1>1. Abstract!Init /\ [][Abstract!Next]_<<orders, thanked>> => ImplementsOneOrder
  BY DEF ImplementsOneOrder, Abstract!Spec
<1> QED BY InitIInv, StepIInv, AbstractInit, AbstractStep, <1>1, PTL DEF Spec

-----------------------------------------------------------------------------
(* Background reads *)

(* Nothing is stamped ahead of the server. *)
Stamped == /\ shown.stamp <= stamp
           /\ \A r \in record : r.stamp <= stamp
           /\ \A c \in wire : c.stamp <= stamp

(* While a background read may still be shown, nobody waits for any other call. *)
PollIsAlone ==
    \A c, d \in wire : c.kind = "poll" /\ c.caller = "current" /\ d # c => d.caller = "gone"

NoPollForShow == \A c \in wire : c.kind = "poll" => c.caller # "current"

PInv == Stamped /\ PollIsAlone /\ NoStalePoll

(* Whatever else leaves, a background read still out is not for show. *)
LEMMA DroppedPolls ==
    ASSUME NEW calls, calls \subseteq Call
    PROVE  \A d \in PollsDropped(calls) : d.kind = "poll" => d.caller # "current"
<1> SUFFICES ASSUME NEW d \in PollsDropped(calls), d.kind = "poll" PROVE d.caller # "current"
  OBVIOUS
<1>1. d \in Handed({c \in calls : c.kind = "poll"}, {"current"}, "earlier")
  BY DEF PollsDropped
<1>2. PICK c \in calls : d = IF c.caller \in {"current"} THEN [c EXCEPT !.caller = "earlier"] ELSE c
  BY <1>1 DEF Handed
<1>3. c \in Call
  OBVIOUS
<1>4. CASE c.caller = "current"
  BY <1>2, <1>3, <1>4 DEF Call
<1>5. CASE c.caller # "current"
  BY <1>2, <1>5
<1> QED BY <1>4, <1>5

(* Other standings change no stamp. *)
LEMMA HandedStamps ==
    ASSUME NEW calls, calls \subseteq Call, NEW from, NEW to
    PROVE  \A d \in Handed(calls, from, to) : \E c \in calls : d.stamp = c.stamp
<1> SUFFICES ASSUME NEW d \in Handed(calls, from, to) PROVE \E c \in calls : d.stamp = c.stamp
  OBVIOUS
<1>1. PICK c \in calls : d = IF c.caller \in from THEN [c EXCEPT !.caller = to] ELSE c
  BY DEF Handed
<1>2. c \in Call
  OBVIOUS
<1>3. d.stamp = c.stamp
  BY <1>1, <1>2 DEF Call
<1> QED BY <1>3

LEMMA DroppedStamps ==
    ASSUME NEW calls, calls \subseteq Call
    PROVE  \A d \in PollsDropped(calls) : \E c \in calls : d.stamp = c.stamp
<1> DEFINE polls == {c \in calls : c.kind = "poll"}
<1>1. polls \subseteq Call /\ polls \subseteq calls
  OBVIOUS
<1> HIDE DEF polls
<1>2. \A d \in Handed(polls, {"current"}, "earlier") : \E c \in polls : d.stamp = c.stamp
  BY <1>1, HandedStamps
<1> QED BY <1>1, <1>2 DEF PollsDropped, polls

LEMMA AbandonedStamps ==
    ASSUME NEW calls, calls \subseteq Call
    PROVE  \A d \in Abandoned(calls) : \E c \in calls : d.stamp = c.stamp
<1>1. \A c \in Call : [c EXCEPT !.caller = "gone"].stamp = c.stamp
  BY DEF Call
<1> QED BY <1>1 DEF Abandoned

LEMMA NoneForShow ==
    ASSUME NoPollForShow'
    PROVE  PollIsAlone' /\ NoStalePoll'
BY DEF NoPollForShow, PollIsAlone, NoStalePoll, Wins

(* The next call leaves beside them. *)
LEMMA LeavesStamped ==
    ASSUME IInv, Stamped, NEW calls \in SUBSET wire, NEW kind, NEW key, NEW basket, NEW left, NEW caller,
           wire' = PollsDropped(calls) \cup {Calling(kind, key, basket, issued + 1, left, caller)},
           UNCHANGED <<shown, record, stamp>>
    PROVE  Stamped' /\ (kind # "poll" => NoPollForShow')
<1>1. wire \subseteq Call /\ stamp \in Nat
  BY DEF IInv, TypeOK
<1>2. \A d \in PollsDropped(calls) : \E c \in calls : d.stamp = c.stamp
  BY <1>1, DroppedStamps
<1>3. \A d \in PollsDropped(calls) : d.kind = "poll" => d.caller # "current"
  BY <1>1, DroppedPolls
<1>4. \A d \in wire' : d \notin PollsDropped(calls) => d.stamp = 0 /\ d.kind = kind
  BY DEF Calling
<1>5. 0 <= stamp
  BY <1>1
<1>6. \A d \in wire' : d.stamp <= stamp
  BY <1>2, <1>4, <1>5 DEF Stamped
<1> QED BY <1>3, <1>4, <1>6 DEF Stamped, NoPollForShow

(* Calls that only end, or are left to themselves: the screen is written by one somebody waits *)
(* for, which is not there while a background read is.                                          *)
LEMMA EndsPolled ==
    ASSUME PInv, IInv, NEW c \in wire, c.caller # "gone",
           \A d \in wire' : d \in wire \ {c} \/ (d.kind = "order" /\ d.stamp <= stamp),
           UNCHANGED <<record, stamp>>, shown'.stamp <= stamp
    PROVE  PInv'
<1>1. \A d \in wire \ {c} : d.kind = "poll" => d.caller # "current"
  BY DEF PInv, PollIsAlone
<1>2. NoPollForShow'
  BY <1>1 DEF NoPollForShow
<1>3. Stamped'
  BY DEF PInv, Stamped
<1> QED BY <1>2, <1>3, NoneForShow DEF PInv

(* An answer of the server. *)
LEMMA AnswerPolled ==
    ASSUME PInv, IInv, NEW c \in wire, NEW answer, NEW content, NEW at \in Nat,
           Answer(c, answer, content, at), stamp' \in Nat, stamp <= stamp', at <= stamp',
           \A r \in record' : r.stamp <= stamp',
           c.kind = "poll" => at = stamp,
           UNCHANGED <<shown, applied>>
    PROVE  PInv'
<1> DEFINE told == [c EXCEPT !.answer = answer, !.cart = content, !.stamp = at]
<1>1. c \in Call /\ wire \subseteq Call /\ stamp \in Nat /\ shown.stamp \in Nat
  BY DEF IInv, TypeOK
<1>2. told.kind = c.kind /\ told.caller = c.caller /\ told.stamp = at
  BY <1>1 DEF Call
<1>3. wire' \subseteq (wire \ {c}) \cup {told}
  BY DEF Answer
<1> HIDE DEF told
<1>4. \A d \in wire : d.stamp \in Nat /\ d.stamp <= stamp
  BY <1>1 DEF Call, PInv, Stamped
<1>5. Stamped'
  <2>1. \A d \in wire' : d.stamp <= stamp'
    BY <1>1, <1>2, <1>3, <1>4
  <2>2. shown'.stamp <= stamp'
    BY <1>1 DEF PInv, Stamped
  <2> QED BY <2>1, <2>2 DEF Stamped
<1>6. PollIsAlone'
  <2> SUFFICES ASSUME NEW p \in wire', p.kind = "poll", p.caller = "current", NEW d \in wire', d # p
               PROVE  d.caller = "gone"
    BY DEF PollIsAlone
  <2>1. CASE p = told
    BY <1>2, <1>3, <2>1 DEF PInv, PollIsAlone
  <2>2. CASE p \in wire \ {c}
    BY <1>2, <1>3, <2>2 DEF PInv, PollIsAlone
  <2> QED BY <1>3, <2>1, <2>2
<1>7. NoStalePoll'
  <2> SUFFICES ASSUME NEW p \in wire', p.kind = "poll", p.answer = "read", Wins(p)'
               PROVE  p.stamp >= shown.stamp
    BY DEF NoStalePoll
  <2>1. CASE p = told
    BY <1>1, <1>2, <2>1 DEF PInv, Stamped
  <2>2. CASE p \in wire \ {c}
    BY <2>2 DEF PInv, NoStalePoll, Wins
  <2> QED BY <1>3, <2>1, <2>2
<1> QED BY <1>5, <1>6, <1>7 DEF PInv

LEMMA PageStepPolled ==
    ASSUME PInv, IInv,
           \/ PlaceOrder \/ FetchCart \/ PollCart
           \/ \E person \in Persons : SignIn(person)
           \/ \E next \in Persons \cup {Nobody} : SignOut(next) \/ Reload(next)
           \/ \E person \in Persons, content \in Carts : Elsewhere(person, content)
    PROVE  PInv'
<1>1. wire \subseteq Call /\ stamp \in Nat /\ wire \in SUBSET wire /\ Stamped
      /\ \A c \in wire : c.stamp \in Nat /\ c.stamp <= stamp
  BY DEF PInv, IInv, TypeOK, Stamped, Call
<1>2. CASE PlaceOrder
  <2>1. /\ wire' = PollsDropped(wire)
                      \cup {Calling("order", attempt'.key, shown.cart, issued + 1, Retries, "current")}
        /\ UNCHANGED <<shown, record, stamp>>
    BY <1>2 DEF PlaceOrder, server
  <2>2. Stamped' /\ NoPollForShow'
    BY <1>1, <2>1, LeavesStamped
  <2> QED BY <2>2, NoneForShow DEF PInv
<1>3. CASE FetchCart
  <2>1. /\ wire' = PollsDropped(wire) \cup {Calling("show", 0, Empty, issued + 1, 0, "current")}
        /\ UNCHANGED <<shown, record, stamp>>
    BY <1>3 DEF FetchCart, Read, page, server
  <2>2. Stamped' /\ NoPollForShow'
    BY <1>1, <2>1, LeavesStamped
  <2> QED BY <2>2, NoneForShow DEF PInv
<1>4. CASE PollCart
  <2> DEFINE leaving == Calling("poll", 0, Empty, issued + 1, 0, "current")
  <2>1. /\ wire' = PollsDropped(wire) \cup {leaving} /\ \A c \in wire : c.caller = "gone"
        /\ UNCHANGED <<shown, record, stamp>>
    BY <1>4 DEF PollCart, Read, page, server
  <2>2. Stamped'
    BY <1>1, <2>1, LeavesStamped
  <2>3. leaving.answer = "none"
    BY DEF Calling
  <2> HIDE DEF leaving
  <2>4. \A d \in PollsDropped(wire) : d.caller = "gone"
    BY <2>1 DEF PollsDropped, Handed
  <2> QED BY <2>1, <2>2, <2>3, <2>4 DEF PInv, PollIsAlone, NoStalePoll, Wins
<1>5. ASSUME NEW person \in Persons, SignIn(person) PROVE PInv'
  BY <1>5 DEF SignIn, server, PInv, Stamped, PollIsAlone, NoStalePoll, Wins
<1>6. ASSUME NEW next \in Persons \cup {Nobody}, SignOut(next) PROVE PInv'
  <2>1. /\ wire' = Handed(wire, {"current"}, "earlier") /\ UNCHANGED <<record, stamp>>
        /\ shown'.stamp = 0
    BY <1>6 DEF SignOut, server, Unread
  <2>2. NoPollForShow'
    <3> SUFFICES ASSUME NEW d \in wire' PROVE d.caller # "current"
      BY DEF NoPollForShow
    <3>1. PICK c \in wire : d = IF c.caller \in {"current"} THEN [c EXCEPT !.caller = "earlier"] ELSE c
      BY <2>1 DEF Handed
    <3>2. c \in Call
      BY <1>1
    <3>3. CASE c.caller = "current"
      BY <3>1, <3>2, <3>3 DEF Call
    <3>4. CASE c.caller # "current"
      BY <3>1, <3>4
    <3> QED BY <3>3, <3>4
  <2>3. \A d \in wire' : \E c \in wire : d.stamp = c.stamp
    BY <1>1, <2>1, HandedStamps
  <2>4. Stamped'
    BY <1>1, <2>1, <2>3 DEF Stamped
  <2> QED BY <2>2, <2>4, NoneForShow DEF PInv
<1>7. ASSUME NEW restored \in Persons \cup {Nobody}, Reload(restored) PROVE PInv'
  <2>1. wire' = Abandoned(wire) /\ UNCHANGED <<record, stamp>> /\ shown'.stamp = 0
    BY <1>7 DEF Reload, server, Unread
  <2>2. NoPollForShow'
    <3>1. \A c \in Call : [c EXCEPT !.caller = "gone"].caller = "gone"
      BY DEF Call
    <3> QED BY <1>1, <2>1, <3>1 DEF Abandoned, NoPollForShow
  <2>3. \A d \in wire' : \E c \in wire : d.stamp = c.stamp
    BY <1>1, <2>1, AbandonedStamps
  <2>4. Stamped'
    BY <1>1, <2>1, <2>3 DEF Stamped
  <2> QED BY <2>2, <2>4, NoneForShow DEF PInv
<1>8. ASSUME NEW person \in Persons, NEW content \in Carts, Elsewhere(person, content) PROVE PInv'
  <2>1. UNCHANGED <<shown, applied, record, wire>> /\ stamp' = stamp + 1
    BY <1>8 DEF Elsewhere, page
  <2>2. shown.stamp \in Nat /\ \A r \in record : r.stamp \in Nat
    BY DEF IInv, TypeOK, Outcome
  <2>3. shown.stamp <= stamp + 1 /\ (\A r \in record : r.stamp <= stamp + 1)
        /\ \A c \in wire : c.stamp <= stamp + 1
    BY <1>1, <2>2 DEF Stamped
  <2>4. Stamped'
    BY <2>1, <2>3 DEF Stamped
  <2> QED BY <2>1, <2>4 DEF PInv, PollIsAlone, NoStalePoll, Wins
<1> QED BY <1>2, <1>3, <1>4, <1>5, <1>6, <1>7, <1>8

LEMMA ServerStepPolled ==
    ASSUME PInv, IInv, NEW c \in wire,
           \/ AnswersRead(c) \/ StillRunning(c) \/ TurnsAway(c) \/ Replays(c)
           \/ \E answer \in {"placed", "fault"} : WritesOrder(c, answer)
           \/ \E answer \in {"totalChanged", "refused", "fault"} : WritesNothing(c, answer)
    PROVE  PInv'
<1>1. stamp \in Nat /\ Stamped /\ (\A r \in record : r.stamp \in Nat /\ r.stamp <= stamp) /\ 0 <= stamp
  BY DEF PInv, IInv, TypeOK, Outcome, Stamped
<1>2. UNCHANGED <<shown, applied>>
  BY DEF AnswersRead, StillRunning, TurnsAway, Replays, WritesOrder, WritesNothing, page
<1>3. ASSUME NEW answer, NEW content, NEW at \in Nat, at <= stamp, Answer(c, answer, content, at),
             UNCHANGED <<stamp, record>>, c.kind = "poll" => at = stamp
      PROVE  PInv'
  BY <1>1, <1>2, <1>3, AnswerPolled
<1>4. CASE AnswersRead(c)
  <2>1. Answer(c, "read", cart[c.person], stamp) /\ UNCHANGED <<stamp, record>> /\ stamp <= stamp
    BY <1>1, <1>4 DEF AnswersRead, server
  <2> QED BY <1>1, <1>3, <2>1
<1>5. CASE StillRunning(c) \/ TurnsAway(c)
  <2>1. /\ c.kind = "order" /\ UNCHANGED <<stamp, record>>
        /\ Answer(c, "inFlight", Empty, 0) \/ Answer(c, "turnedAway", Empty, 0)
    BY <1>5 DEF StillRunning, TurnsAway, server
  <2> QED BY <1>1, <1>3, <2>1
<1>6. CASE Replays(c)
  <2>1. PICK r \in record : Answer(c, r.answer, Empty, r.stamp)
    BY <1>6 DEF Replays, Handled
  <2>2. c.kind = "order" /\ UNCHANGED <<stamp, record>>
    BY <1>6 DEF Replays, server
  <2> QED BY <1>1, <1>3, <2>1, <2>2
<1>7. ASSUME NEW answer, WritesOrder(c, answer) PROVE PInv'
  <2>1. c.kind = "order" /\ stamp' = stamp + 1 /\ Answer(c, answer, Empty, stamp + 1)
        /\ Recorded(c, answer, stamp + 1)
    BY <1>7 DEF WritesOrder
  <2>2. stamp + 1 \in Nat /\ stamp <= stamp + 1 /\ stamp + 1 <= stamp + 1
        /\ \A r \in record : r.stamp <= stamp + 1
    BY <1>1
  <2>3. \A r \in record' : r.stamp <= stamp'
    BY <2>1, <2>2 DEF Recorded
  <2> QED BY <1>2, <2>1, <2>2, <2>3, AnswerPolled
<1>8. ASSUME NEW answer, WritesNothing(c, answer) PROVE PInv'
  <2>1. c.kind = "order" /\ stamp' = stamp /\ Answer(c, answer, Empty, stamp)
        /\ Recorded(c, answer, stamp)
    BY <1>8 DEF WritesNothing
  <2>2. stamp <= stamp /\ \A r \in record' : r.stamp <= stamp'
    BY <1>1, <2>1 DEF Recorded
  <2> QED BY <1>1, <1>2, <2>1, <2>2, AnswerPolled
<1> QED BY <1>4, <1>5, <1>6, <1>7, <1>8

LEMMA AnswersStepPolled ==
    ASSUME PInv, IInv, NEW c \in wire,
           \/ GivesUp(c) \/ PlacedLands(c) \/ InFlightLands(c) \/ TotalChangedLands(c)
           \/ FaultLands(c) \/ RefusedLands(c) \/ ReadLands(c)
    PROVE  PInv'
<1>1. /\ wire \subseteq Call /\ c \in Call /\ stamp \in Nat /\ wire \ {c} \in SUBSET wire
      /\ Stamped /\ c.stamp <= stamp /\ shown.stamp <= stamp
  BY DEF PInv, IInv, TypeOK, Stamped
<1>2. c.caller # "gone" /\ UNCHANGED <<record, stamp>>
  BY DEF GivesUp, PlacedLands, InFlightLands, TotalChangedLands, FaultLands, RefusedLands, ReadLands,
         Lands, server
<1>3. ASSUME NEW kind \in {"show", "settle"}, NEW key, NEW basket,
             Read(kind, key, basket, c.caller, wire \ {c}), UNCHANGED shown
      PROVE  PInv'
  <2>1. wire' = PollsDropped(wire \ {c}) \cup {Calling(kind, key, basket, issued + 1, 0, c.caller)}
    BY <1>3 DEF Read
  <2>2. Stamped' /\ NoPollForShow'
    BY <1>1, <1>2, <1>3, <2>1, LeavesStamped
  <2> QED BY <2>2, NoneForShow DEF PInv
<1>4. ASSUME wire' = wire \ {c}, shown'.stamp <= stamp PROVE PInv'
  BY <1>2, <1>4, EndsPolled
<1>5. ASSUME NEW content, Shows(c, content) PROVE shown'.stamp <= stamp
  BY <1>1, <1>5 DEF Shows
<1>6. CASE GivesUp(c)
  <2>1. wire' = (wire \ {c}) \cup Abandoned({c}) /\ UNCHANGED shown
    BY <1>6 DEF GivesUp, page
  <2>2. \A d \in Abandoned({c}) : d.kind = "order" /\ d.stamp <= stamp
    <3>1. [c EXCEPT !.caller = "gone"].kind = c.kind /\ [c EXCEPT !.caller = "gone"].stamp = c.stamp
      BY <1>1 DEF Call
    <3> QED BY <1>1, <3>1 DEF Abandoned
  <2> QED BY <1>1, <1>2, <2>1, <2>2, EndsPolled
<1>7. CASE PlacedLands(c)
  BY <1>4, <1>5, <1>7 DEF PlacedLands
<1>8. CASE InFlightLands(c)
  <2> DEFINE again == [c EXCEPT !.answer = "none", !.left = @ - 1, !.person = viewer]
  <2>1. UNCHANGED <<shown, applied>>
    BY <1>8 DEF InFlightLands, page
  <2>2. CASE wire' = (wire \ {c}) \cup {again}
    <3>1. again.kind = c.kind /\ again.caller = c.caller /\ again.stamp = c.stamp /\ again.answer = "none"
      BY <1>1 DEF Call
    <3> HIDE DEF again
    <3>2. Stamped'
      BY <1>1, <1>2, <2>1, <2>2, <3>1 DEF Stamped
    <3>3. PollIsAlone'
      BY <1>2, <2>2, <3>1 DEF PInv, PollIsAlone
    <3>4. NoStalePoll'
      BY <2>1, <2>2, <3>1 DEF PInv, NoStalePoll, Wins
    <3> QED BY <3>2, <3>3, <3>4 DEF PInv
  <2>3. CASE Read("show", 0, Empty, c.caller, wire \ {c})
    BY <1>3, <2>1, <2>3
  <2> QED BY <1>8, <2>2, <2>3 DEF InFlightLands
<1>9. CASE TotalChangedLands(c)
  BY <1>3, <1>9 DEF TotalChangedLands
<1>10. CASE FaultLands(c)
  BY <1>3, <1>10 DEF FaultLands, page
<1>11. CASE RefusedLands(c)
  <2>1. UNCHANGED shown /\ (wire' = wire \ {c} \/ Read("show", 0, Empty, c.caller, wire \ {c}))
    BY <1>11 DEF RefusedLands
  <2> QED BY <1>1, <1>3, <1>4, <2>1
<1>12. CASE ReadLands(c)
  BY <1>4, <1>5, <1>12 DEF ReadLands
<1> QED BY <1>6, <1>7, <1>8, <1>9, <1>10, <1>11, <1>12

LEMMA StepPInv == IInv /\ PInv /\ [Next]_vars => PInv'
<1> SUFFICES ASSUME IInv, PInv, [Next]_vars PROVE PInv'
  OBVIOUS
<1>1. CASE \/ PlaceOrder \/ FetchCart \/ PollCart
           \/ \E person \in Persons : SignIn(person)
           \/ \E next \in Persons \cup {Nobody} : SignOut(next) \/ Reload(next)
           \/ \E person \in Persons, content \in Carts : Elsewhere(person, content)
  BY <1>1, PageStepPolled
<1>2. ASSUME NEW c \in wire,
             \/ AnswersRead(c) \/ StillRunning(c) \/ TurnsAway(c) \/ Replays(c)
             \/ \E answer \in {"placed", "fault"} : WritesOrder(c, answer)
             \/ \E answer \in {"totalChanged", "refused", "fault"} : WritesNothing(c, answer)
      PROVE  PInv'
  BY <1>2, ServerStepPolled
<1>3. ASSUME NEW c \in wire,
             \/ GivesUp(c) \/ PlacedLands(c) \/ InFlightLands(c) \/ TotalChangedLands(c)
             \/ FaultLands(c) \/ RefusedLands(c) \/ ReadLands(c)
      PROVE  PInv'
  BY <1>3, AnswersStepPolled
<1>4. CASE UNCHANGED vars
  BY <1>4 DEF vars, page, server, PInv, Stamped, PollIsAlone, NoStalePoll, Wins
<1> QED BY <1>1, <1>2, <1>3, <1>4 DEF Next

(* pollCart says of the background read that it never makes a stale answer win: nothing else    *)
(* leaves while it may still be shown, so what it brings is as new as the screen.               *)
THEOREM PollsNeverGoBack == Spec => []NoStalePoll
<1>1. Init => PInv
  <2>1. ASSUME Init PROVE PInv
    BY <2>1 DEF Init, PInv, Stamped, PollIsAlone, NoStalePoll, Unread
  <2> QED BY <2>1
<1>2. PInv => NoStalePoll
  BY DEF PInv
<1> QED BY InitIInv, StepIInv, StepPInv, <1>1, <1>2, PTL DEF Spec

-----------------------------------------------------------------------------
(* Orders nobody was told of *)

(* Nothing went on that separates an order from its attempt. *)
CClean == tangled \subseteq {"emptied", "stale"}

(* A call the page takes no second press beside. *)
Places(c) == c.caller = "current" /\ c.kind \in {"order", "settle"}

(* The server may yet write this order, now or when the call is made again. *)
MayBeWritten(c) == c.kind = "order" /\ c.answer \in {"none", "inFlight"} /\ Handled(c) = {}

(* Answers go by the kind of call; only an order outlives its page; and what an earlier session *)
(* ordered is below the barrier.                                                                *)
Sorted(c) ==
    /\ IF c.kind = "order" THEN c.answer # "read" ELSE c.answer \in {"none", "read"}
    /\ c.caller = "gone" => c.kind = "order" /\ c.answer = "none"
    /\ c.caller = "earlier" /\ c.kind = "order" => c.key <= barrier
    /\ c.caller = "current" => viewer # Nobody

(* What may still be written, and what is being settled, is the attempt's; and the attempt's    *)
(* key is its person's alone.                                                                   *)
Attached(c) ==
    /\ MayBeWritten(c) => c.key <= barrier \/ c.key = attempt.key
    /\ Places(c) => c.key = attempt.key /\ attempt.person = viewer /\ c.person = viewer
    /\ attempt.person # Nobody /\ c.kind = "order" /\ c.key = attempt.key =>
          c.person = attempt.person

(* So is every order nobody was told of. *)
Settled(o) ==
    /\ o \in thanked \/ o.key <= barrier \/ o.key = attempt.key
    /\ attempt.person # Nobody /\ o.key = attempt.key =>
          o.person = attempt.person /\ o.basket = attempt.basket

CallsSorted == \A c \in wire : Sorted(c)
OnePlacing == \A c, d \in wire : Places(c) /\ Places(d) => c = d
CallsAttached == CClean => \A c \in wire : Attached(c)
OrdersSettled == CClean => \A o \in orders : Settled(o)

SInv == CallsSorted /\ OnePlacing /\ CallsAttached /\ OrdersSettled

(* A read that matters to no order. *)
Harmless(d) == /\ d.kind \in {"show", "poll"} /\ d.answer \in {"none", "read"}
               /\ d.caller \in {"current", "earlier"} /\ (d.caller = "current" => viewer # Nobody)

(* d is what became of the call c. *)
Echoes(d, c) ==
    /\ d.key = c.key
    /\ IF d.kind = "order" THEN d.answer # "read" ELSE d.answer \in {"none", "read"}
    /\ d.kind = "order" => /\ c.kind = "order"
                           /\ d.caller = "earlier" => c.caller = "earlier"
                           /\ d.answer \in {"none", "inFlight"} => c.answer \in {"none", "inFlight"}
                           /\ CClean' => d.person = c.person
    /\ d.caller = "gone" => d.kind = "order" /\ d.answer = "none"
    /\ d.caller = "current" => c.caller = "current"
    /\ d.kind = "settle" => c.kind \in {"order", "settle"} /\ d.person \in {c.person, viewer}

(* What an unanswered poll is handed on as, and what else stays. *)
LEMMA DroppedHarmless ==
    ASSUME TypeOK, CallsSorted, NEW calls \in SUBSET wire
    PROVE  \A d \in PollsDropped(calls) : d \in calls \/ Harmless(d)
<1> SUFFICES ASSUME NEW d \in PollsDropped(calls), d \notin calls PROVE Harmless(d)
  OBVIOUS
<1>1. d \in Handed({c \in calls : c.kind = "poll"}, {"current"}, "earlier")
  BY DEF PollsDropped
<1>2. PICK c \in calls : c.kind = "poll" /\ d = IF c.caller \in {"current"} THEN [c EXCEPT !.caller = "earlier"] ELSE c
  BY <1>1 DEF Handed
<1>3. c \in Call /\ Sorted(c) /\ d = [c EXCEPT !.caller = "earlier"]
  BY <1>2 DEF TypeOK, CallsSorted
<1>4. d.kind = "poll" /\ d.answer = c.answer /\ d.caller = "earlier"
  BY <1>2, <1>3 DEF Call
<1> QED BY <1>2, <1>3, <1>4 DEF Harmless, Sorted

LEMMA ReadHarmless ==
    ASSUME TypeOK, CallsSorted, NEW calls \in SUBSET wire, NEW kind \in {"show", "poll"}, NEW key,
           NEW basket, NEW caller \in {"current", "earlier"}, caller = "current" => viewer # Nobody,
           Read(kind, key, basket, caller, calls)
    PROVE  \A d \in wire' : d \in calls \/ Harmless(d)
<1> DEFINE leaving == Calling(kind, key, basket, issued + 1, 0, caller)
<1>1. leaving.kind = kind /\ leaving.caller = caller /\ leaving.answer = "none"
  BY DEF Calling
<1>2. wire' = PollsDropped(calls) \cup {leaving}
  BY DEF Read
<1> HIDE DEF leaving
<1>3. Harmless(leaving)
  BY <1>1 DEF Harmless
<1> QED BY <1>2, <1>3, DroppedHarmless

(* While the attempt stands, calls that stay, echo one that was out or matter to no order are   *)
(* as attached as before.                                                                       *)
LEMMA CallsEcho ==
    ASSUME IInv, CallsSorted, OnePlacing, CallsAttached,
           UNCHANGED <<viewer, attempt, barrier>>, tangled \subseteq tangled', record \subseteq record',
           NEW rest \in SUBSET wire, NEW d0,
           \A d \in wire' : \/ d \in rest \/ Harmless(d)
                            \/ d = d0 /\ \E c \in wire \ rest : Echoes(d, c)
    PROVE  CallsSorted' /\ OnePlacing' /\ CallsAttached'
<1>1. \A c : Handled(c) \subseteq Handled(c)'
  BY DEF Handled
<1>2. \A d : Harmless(d) => Sorted(d)' /\ Attached(d)' /\ ~Places(d)
  BY DEF Harmless, Sorted, Attached, Places, MayBeWritten
<1>3. \A c \in wire : Sorted(c)'
  BY DEF CallsSorted, Sorted
<1>4. CallsSorted'
  <2> SUFFICES ASSUME NEW d \in wire' PROVE Sorted(d)'
    BY DEF CallsSorted
  <2>1. ASSUME NEW c \in wire, Echoes(d, c) PROVE Sorted(d)'
    BY <2>1 DEF CallsSorted, Sorted, Echoes
  <2> QED BY <1>2, <1>3, <2>1
<1>5. \A d \in wire' : Places(d) => d \in rest \/ (d = d0 /\ \E c \in wire \ rest : Places(c))
  <2> SUFFICES ASSUME NEW d \in wire', Places(d)
               PROVE  d \in rest \/ (d = d0 /\ \E c \in wire \ rest : Places(c))
    OBVIOUS
  <2>1. ASSUME NEW c, Echoes(d, c) PROVE Places(c)
    BY <2>1 DEF Echoes, Places
  <2> QED BY <1>2, <2>1
<1>6. OnePlacing'
  <2> SUFFICES ASSUME NEW d \in wire', NEW e \in wire', Places(d), Places(e) PROVE d = e
    BY DEF OnePlacing, Places
  <2> QED BY <1>5 DEF OnePlacing
<1>7. CallsAttached'
  <2> SUFFICES ASSUME CClean', NEW d \in wire' PROVE Attached(d)'
    BY DEF CallsAttached
  <2>1. CClean /\ \A c \in wire : Attached(c)
    BY DEF CClean, CallsAttached
  <2>2. \A c : MayBeWritten(c)' => MayBeWritten(c)
    BY <1>1 DEF MayBeWritten
  <2>3. \A c \in wire : Attached(c)'
    BY <2>1, <2>2 DEF Attached, Places
  <2>4. ASSUME NEW c \in wire, Echoes(d, c) PROVE Attached(d)'
    <3>1. Attached(c)
      BY <2>1
    <3>2. MayBeWritten(d)' => MayBeWritten(c)
      <4>1. ASSUME MayBeWritten(d)' PROVE Handled(c) = {}
        <5>1. d.kind = "order" /\ d.person = c.person /\ d.key = c.key
          BY <2>4, <4>1 DEF Echoes, MayBeWritten
        <5>2. Handled(d) = Handled(c)
          BY <5>1 DEF Handled
        <5> QED BY <2>2, <4>1, <5>2 DEF MayBeWritten
      <4> QED BY <2>4, <4>1 DEF MayBeWritten, Echoes
    <3>3. Places(d) => Places(c) /\ d.person \in {c.person, viewer}
      BY <2>4 DEF Echoes, Places
    <3> QED BY <2>4, <3>1, <3>2, <3>3 DEF Attached, Places, Echoes
  <2> QED BY <1>2, <2>3, <2>4
<1> QED BY <1>4, <1>6, <1>7

LEMMA OrdersStay ==
    ASSUME OrdersSettled, UNCHANGED <<attempt, barrier, orders>>,
           tangled \subseteq tangled', thanked \subseteq thanked'
    PROVE  OrdersSettled'
BY DEF OrdersSettled, Settled, CClean

(* When the attempt ends with the call c, no order is left that its buyer was not told of, nor  *)
(* any that may still be written.                                                               *)
LEMMA AttemptEnds ==
    ASSUME IInv, SInv, NEW c \in wire, c.caller # "gone", c.kind \in {"order", "settle"},
           UNCHANGED <<viewer, barrier, record, orders>>, attempt' = NoAttempt,
           tangled \subseteq tangled', c.caller = "earlier" => "late" \in tangled',
           thanked \subseteq thanked',
           \A d \in wire' : d \in wire \ {c} \/ Harmless(d),
           CClean' => /\ \A o \in orders : o.key = attempt.key => o \in thanked' \/ o.key <= barrier
                      /\ \A d \in wire \ {c} : d.kind = "order" /\ d.key = attempt.key /\ d.answer = "none"
                            => Handled(d) # {} \/ d.key <= barrier
    PROVE  SInv'
<1>1. CallsSorted' /\ OnePlacing'
  <2>1. \A d : Harmless(d) => Sorted(d)' /\ ~Places(d)
    BY DEF Harmless, Sorted, Places
  <2>2. \A d \in wire : Sorted(d)'
    BY DEF SInv, CallsSorted, Sorted
  <2>3. CallsSorted'
    BY <2>1, <2>2 DEF CallsSorted
  <2>4. OnePlacing'
    <3> SUFFICES ASSUME NEW d \in wire', NEW e \in wire', Places(d), Places(e) PROVE d = e
      BY DEF OnePlacing, Places
    <3> QED BY <2>1 DEF SInv, OnePlacing
  <2> QED BY <2>3, <2>4
<1>2. NoAttempt.person = Nobody
  BY DEF NoAttempt
<1>3. ASSUME CClean' PROVE CClean /\ Places(c)
  <2>1. c.caller \in {"current", "earlier", "gone"}
    BY DEF IInv, TypeOK, Call
  <2> QED BY <1>3, <2>1 DEF CClean, Places
<1>4. CallsAttached'
  <2> SUFFICES ASSUME CClean', NEW d \in wire' PROVE Attached(d)'
    BY DEF CallsAttached
  <2>1. CASE Harmless(d)
    BY <1>2, <2>1 DEF Harmless, Attached, Places, MayBeWritten
  <2>2. CASE d \in wire \ {c}
    <3>1. ~Places(d)
      BY <1>3, <2>2 DEF SInv, OnePlacing
    <3>2. MayBeWritten(d)' => MayBeWritten(d)
      BY DEF MayBeWritten, Handled
    <3>3. ASSUME MayBeWritten(d), d.key = attempt.key PROVE d.key <= barrier
      <4>1. Sorted(d) /\ d \in Call
        BY <2>2 DEF SInv, CallsSorted, IInv, TypeOK
      <4>2. d.caller # "current"
        BY <3>1, <3>3 DEF MayBeWritten, Places
      <4>3. CASE d.caller = "earlier"
        BY <3>3, <4>1, <4>3 DEF Sorted, MayBeWritten
      <4>4. CASE d.caller = "gone"
        BY <2>2, <3>3, <4>1, <4>4 DEF Sorted, MayBeWritten
      <4> QED BY <4>1, <4>2, <4>3, <4>4 DEF Call
    <3>4. Attached(d)
      BY <1>3, <2>2 DEF SInv, CallsAttached
    <3>5. MayBeWritten(d) => d.key <= barrier
      BY <3>3, <3>4 DEF Attached
    <3>6. Places(d)' <=> Places(d)
      BY DEF Places
    <3> QED BY <1>2, <3>1, <3>2, <3>5, <3>6 DEF Attached
  <2> QED BY <2>1, <2>2
<1>5. OrdersSettled'
  <2> SUFFICES ASSUME CClean', NEW o \in orders PROVE Settled(o)'
    BY DEF OrdersSettled
  <2>1. Settled(o)
    BY <1>3 DEF SInv, OrdersSettled
  <2> QED BY <1>2, <2>1 DEF Settled
<1> QED BY <1>1, <1>4, <1>5 DEF SInv

(* Pressing moves on from an attempt only when it is settled, or the order is pressedAnother. *)
LEMMA PlaceOrderSettled ==
    ASSUME IInv, SInv, PlaceOrder
    PROVE  SInv'
<1> DEFINE leaving == Calling("order", attempt'.key, shown.cart, issued + 1, Retries, "current")
<1>1. /\ viewer # Nobody /\ ~Placing /\ checkoutKeyFor(shown.cart)
      /\ wire' = PollsDropped(wire) \cup {leaving}
      /\ tangled' = IF attempt' # attempt /\ Unsettled(attempt.key)
                    THEN tangled \cup {"pressedAnother"} ELSE tangled
      /\ UNCHANGED <<viewer, barrier, record, orders, thanked>>
  BY DEF PlaceOrder, server, past
<1>2. leaving.kind = "order" /\ leaving.key = attempt'.key /\ leaving.person = viewer
      /\ leaving.caller = "current" /\ leaving.answer = "none"
  BY DEF Calling
<1> HIDE DEF leaving
<1>3. TypeOK /\ CallsSorted /\ OnePlacing /\ CallsAttached /\ OrdersSettled /\ Written
  BY DEF IInv, SInv
<1>4. \A d \in wire' : d \in wire \/ Harmless(d) \/ d = leaving
  BY <1>1, <1>3, DroppedHarmless
<1>5. \A d \in wire : ~Places(d)
  BY <1>1 DEF Placing, Places
<1>6. \A d : Harmless(d) => Sorted(d)' /\ Attached(d)' /\ ~Places(d)
  BY <1>1 DEF Harmless, Sorted, Attached, Places, MayBeWritten
<1>7. CallsSorted'
  <2>1. \A d \in wire : Sorted(d)'
    BY <1>1, <1>3 DEF CallsSorted, Sorted
  <2>2. \A d \in wire' : Sorted(d)'
    <3> SUFFICES ASSUME NEW d \in wire' PROVE Sorted(d)'
      OBVIOUS
    <3>1. CASE d = leaving
      BY <1>1, <1>2, <3>1 DEF Sorted
    <3> QED BY <1>4, <1>6, <2>1, <3>1
  <2> QED BY <2>2 DEF CallsSorted
<1>8. OnePlacing'
  <2> SUFFICES ASSUME NEW d \in wire', NEW e \in wire', Places(d), Places(e) PROVE d = e
    BY DEF OnePlacing, Places
  <2> QED BY <1>4, <1>5, <1>6
<1>9. attempt'.person = viewer /\ (attempt' = attempt \/ attempt'.key = minted + 1)
  BY <1>1 DEF checkoutKeyFor, FreshKeyFor
<1>10. /\ minted \in Nat
       /\ \A c \in wire : c.key \in Nat /\ c.key <= minted
       /\ \A o \in orders : o.key \in Nat /\ o.key <= minted
  <2>1. \A o \in orders : o.key \in Nat /\ \E r \in record : r.key = o.key /\ r.key <= minted
    BY <1>3 DEF Written, TypeOK, Order
  <2> QED BY <1>3, <2>1 DEF TypeOK, Call
<1>11. ASSUME CClean', attempt' # attempt
       PROVE  /\ \A o \in orders : o.key = attempt.key => o \in thanked
              /\ \A c \in wire : MayBeWritten(c) /\ c.key = attempt.key => c.key <= barrier
  <2>1. ~Unsettled(attempt.key)
    BY <1>1, <1>11 DEF CClean
  <2>2. ASSUME NEW c \in wire, MayBeWritten(c), c.key = attempt.key PROVE c.key <= barrier
    <3>1. c.answer = "inFlight" /\ c.kind = "order"
      BY <2>1, <2>2 DEF Unsettled, MayBeWritten
    <3>2. c.caller \in {"current", "earlier", "gone"} /\ Sorted(c)
      BY <1>3 DEF TypeOK, Call, CallsSorted
    <3> QED BY <1>5, <3>1, <3>2 DEF Sorted, Places
  <2> QED BY <2>1, <2>2 DEF Unsettled
<1>12. CClean' => CClean
  BY <1>1 DEF CClean
<1>13. \A c : MayBeWritten(c)' = MayBeWritten(c)
  BY <1>1 DEF MayBeWritten, Handled
<1>14. CallsAttached'
  <2> SUFFICES ASSUME CClean', NEW d \in wire' PROVE Attached(d)'
    BY DEF CallsAttached
  <2>1. CASE d = leaving
    BY <1>1, <1>2, <1>9, <2>1 DEF Attached
  <2>2. CASE d \in wire /\ attempt' = attempt
    <3>1. Attached(d)
      BY <1>3, <1>12, <2>2 DEF CallsAttached
    <3> QED BY <1>1, <1>5, <1>13, <2>2, <3>1 DEF Attached, Places
  <2>3. CASE d \in wire /\ attempt' # attempt
    <3>1. Attached(d) /\ d.key # attempt'.key /\ ~Places(d)
      BY <1>3, <1>5, <1>9, <1>10, <1>12, <2>3 DEF CallsAttached
    <3>2. MayBeWritten(d) => d.key <= barrier
      BY <1>11, <2>3, <3>1 DEF Attached
    <3> QED BY <1>1, <1>13, <3>1, <3>2 DEF Attached, Places
  <2> QED BY <1>4, <1>6, <2>1, <2>2, <2>3
<1>15. OrdersSettled'
  <2> SUFFICES ASSUME CClean', NEW o \in orders PROVE Settled(o)'
    BY <1>1 DEF OrdersSettled
  <2>1. Settled(o)
    BY <1>3, <1>12 DEF OrdersSettled
  <2>2. CASE attempt' = attempt
    BY <1>1, <2>1, <2>2 DEF Settled
  <2>3. CASE attempt' # attempt
    <3>1. o.key # attempt'.key
      BY <1>9, <1>10, <2>3
    <3> QED BY <1>1, <1>11, <2>1, <2>3, <3>1 DEF Settled
  <2> QED BY <2>2, <2>3
<1> QED BY <1>7, <1>8, <1>14, <1>15 DEF SInv

(* Reads that leave, arrivals, departures, page loads and other devices. *)
LEMMA PageStepSettled ==
    ASSUME IInv, SInv,
           \/ FetchCart \/ PollCart
           \/ \E person \in Persons : SignIn(person)
           \/ \E next \in Persons \cup {Nobody} : SignOut(next) \/ Reload(next)
           \/ \E person \in Persons, content \in Carts : Elsewhere(person, content)
    PROVE  SInv'
<1>1. TypeOK /\ CallsSorted /\ OnePlacing /\ CallsAttached /\ OrdersSettled /\ Written
      /\ wire \in SUBSET wire /\ wire \subseteq Call
  BY DEF IInv, SInv, TypeOK
<1>2. CASE FetchCart \/ PollCart
  <2>1. PICK kind \in {"show", "poll"} : Read(kind, 0, Empty, "current", wire)
    BY <1>2 DEF FetchCart, PollCart
  <2>2. viewer # Nobody /\ UNCHANGED <<page, minted, server, budget, barrier, past, tangled>>
    BY <1>2 DEF FetchCart, PollCart
  <2>3. \A d \in wire' : d \in wire \/ Harmless(d)
    <3>1. "current" \in {"current", "earlier"}
      OBVIOUS
    <3> QED BY <1>1, <2>1, <2>2, <3>1, ReadHarmless
  <2>4. CallsSorted' /\ OnePlacing' /\ CallsAttached'
    <3>1. UNCHANGED <<viewer, attempt, barrier>> /\ tangled \subseteq tangled' /\ record \subseteq record'
      BY <2>2 DEF page, server
    <3> QED BY <1>1, <2>3, <3>1, CallsEcho
  <2>5. OrdersSettled'
    BY <1>1, <2>2, OrdersStay DEF page, server, past
  <2> QED BY <2>4, <2>5 DEF SInv
<1>3. ASSUME NEW person \in Persons, SignIn(person) PROVE SInv'
  <2>1. viewer = Nobody /\ UNCHANGED <<attempt, wire, server, barrier, past, tangled>>
    BY <1>3 DEF SignIn
  <2>2. \A c \in wire : c.caller # "current" /\ Sorted(c)' /\ ~Places(c)
    BY <1>1, <2>1 DEF CallsSorted, Sorted, Places
  <2>3. CallsSorted' /\ OnePlacing'
    BY <2>1, <2>2 DEF CallsSorted, OnePlacing, Places
  <2>4. CallsAttached'
    <3> SUFFICES ASSUME CClean', NEW d \in wire PROVE Attached(d)'
      BY <2>1 DEF CallsAttached
    <3>1. Attached(d) /\ ~Places(d)
      BY <1>1, <2>1, <2>2 DEF CallsAttached, CClean
    <3>2. MayBeWritten(d)' = MayBeWritten(d)
      BY <2>1 DEF MayBeWritten, Handled, server
    <3> QED BY <2>1, <3>1, <3>2 DEF Attached, Places
  <2>5. OrdersSettled'
    BY <1>1, <2>1, OrdersStay DEF server, past
  <2> QED BY <2>3, <2>4, <2>5 DEF SInv
<1>4. ASSUME NEW next \in Persons \cup {Nobody}, SignOut(next) PROVE SInv'
  <2>1. /\ attempt' = NoAttempt /\ barrier' = minted /\ wire' = Handed(wire, {"current"}, "earlier")
        /\ UNCHANGED <<server, past, tangled, minted>>
    BY <1>4 DEF SignOut
  <2>2. NoAttempt.person = Nobody
    BY DEF NoAttempt
  <2>3. \A d \in wire' : \E c \in wire : /\ d.caller # "current" /\ d.kind = c.kind /\ d.key = c.key
                                         /\ d.answer = c.answer
                                         /\ d.caller = "gone" => c.caller = "gone"
    <3> SUFFICES ASSUME NEW d \in wire'
                 PROVE  \E c \in wire : /\ d.caller # "current" /\ d.kind = c.kind /\ d.key = c.key
                                        /\ d.answer = c.answer
                                        /\ d.caller = "gone" => c.caller = "gone"
      OBVIOUS
    <3>1. PICK c \in wire : d = IF c.caller \in {"current"} THEN [c EXCEPT !.caller = "earlier"] ELSE c
      BY <2>1 DEF Handed
    <3>2. c \in Call
      BY <1>1
    <3>3. CASE c.caller = "current"
      <4>1. /\ d.caller = "earlier" /\ d.kind = c.kind /\ d.key = c.key /\ d.answer = c.answer
        BY <3>1, <3>2, <3>3 DEF Call
      <4> QED BY <4>1
    <3>4. CASE c.caller # "current"
      BY <3>1, <3>4
    <3> QED BY <3>3, <3>4
  <2>4. \A d \in wire' : d.key <= barrier'
    BY <1>1, <2>1, <2>3 DEF TypeOK
  <2>5. CallsSorted'
    <3> SUFFICES ASSUME NEW d \in wire' PROVE Sorted(d)'
      BY DEF CallsSorted
    <3> QED BY <1>1, <2>3, <2>4 DEF CallsSorted, Sorted
  <2>6. OnePlacing'
    BY <2>3 DEF OnePlacing, Places
  <2>7. CallsAttached'
    BY <2>1, <2>2, <2>3, <2>4 DEF CallsAttached, Attached, Places
  <2>8. OrdersSettled'
    <3>1. \A o \in orders : o.key <= barrier'
      BY <1>1, <2>1 DEF Written
    <3> QED BY <2>1, <2>2, <3>1 DEF OrdersSettled, Settled, server
  <2> QED BY <2>5, <2>6, <2>7, <2>8 DEF SInv
<1>5. ASSUME NEW restored \in Persons \cup {Nobody}, Reload(restored) PROVE SInv'
  <2>1. wire' = Abandoned(wire) /\ UNCHANGED <<attempt, server, barrier, past, tangled>>
    BY <1>5 DEF Reload
  <2>2. \A d \in wire' : \E c \in wire : /\ d.caller = "gone" /\ d.kind = "order" /\ d.answer = "none"
                                         /\ c.kind = "order" /\ c.answer = "none"
                                         /\ d.key = c.key /\ d.person = c.person
    <3> SUFFICES ASSUME NEW d \in wire'
                 PROVE  \E c \in wire : /\ d.caller = "gone" /\ d.kind = "order" /\ d.answer = "none"
                                        /\ c.kind = "order" /\ c.answer = "none"
                                        /\ d.key = c.key /\ d.person = c.person
      OBVIOUS
    <3>1. PICK c \in wire : d = [c EXCEPT !.caller = "gone"] /\ c.kind = "order" /\ c.answer = "none"
      BY <2>1 DEF Abandoned
    <3>2. /\ d.caller = "gone" /\ d.kind = c.kind /\ d.answer = c.answer
          /\ d.key = c.key /\ d.person = c.person
      BY <1>1, <3>1 DEF Call
    <3> QED BY <3>1, <3>2
  <2>3. CallsSorted' /\ OnePlacing'
    BY <2>2 DEF CallsSorted, OnePlacing, Places, Sorted
  <2>4. CallsAttached'
    <3> SUFFICES ASSUME CClean', NEW d \in wire' PROVE Attached(d)'
      BY DEF CallsAttached
    <3>1. PICK c \in wire : /\ d.caller = "gone" /\ d.kind = "order" /\ d.answer = "none"
                            /\ c.kind = "order" /\ c.answer = "none"
                            /\ d.key = c.key /\ d.person = c.person
      BY <2>2
    <3>2. Attached(c)
      BY <1>1, <2>1 DEF CallsAttached, CClean
    <3>3. Handled(d)' = Handled(c)
      BY <2>1, <3>1 DEF Handled, server
    <3>4. MayBeWritten(d)' => MayBeWritten(c)
      BY <3>1, <3>3 DEF MayBeWritten
    <3> QED BY <2>1, <3>1, <3>2, <3>4 DEF Attached, Places
  <2>5. OrdersSettled'
    BY <1>1, <2>1, OrdersStay DEF server, past
  <2> QED BY <2>3, <2>4, <2>5 DEF SInv
<1>6. ASSUME NEW person \in Persons, NEW content \in Carts, Elsewhere(person, content) PROVE SInv'
  <2>1. /\ UNCHANGED <<page, wire, record, orders, barrier, past>> /\ tangled \subseteq tangled'
    BY <1>6 DEF Elsewhere
  <2>2. CallsSorted' /\ OnePlacing' /\ CallsAttached'
    <3>1. UNCHANGED <<viewer, attempt, barrier, wire>> /\ tangled \subseteq tangled' /\ record \subseteq record'
      BY <2>1 DEF page
    <3> QED BY <1>1, <3>1, CallsEcho
  <2>3. OrdersSettled'
    BY <1>1, <2>1, OrdersStay DEF page, past
  <2> QED BY <2>2, <2>3 DEF SInv
<1> QED BY <1>2, <1>3, <1>4, <1>5, <1>6

(* What the server answers, the order it writes being the attempt's. *)
LEMMA ServerStepSettled ==
    ASSUME IInv, SInv, NEW c \in wire,
           \/ AnswersRead(c) \/ StillRunning(c) \/ TurnsAway(c) \/ Replays(c)
           \/ \E answer \in {"placed", "fault"} : WritesOrder(c, answer)
           \/ \E answer \in {"totalChanged", "refused", "fault"} : WritesNothing(c, answer)
    PROVE  SInv'
<1>1. /\ TypeOK /\ CallsSorted /\ OnePlacing /\ CallsAttached /\ OrdersSettled /\ OneBasket
      /\ c \in Call /\ wire \ {c} \in SUBSET wire /\ c \in wire \ (wire \ {c})
  BY DEF IInv, SInv, TypeOK
<1>2. UNCHANGED <<viewer, attempt, barrier, thanked, tangled>> /\ record \subseteq record'
  BY DEF AnswersRead, StillRunning, TurnsAway, Replays, WritesOrder, WritesNothing, page, server, past,
         Recorded
<1>3. c.answer = "none"
  BY DEF AnswersRead, StillRunning, TurnsAway, Replays, WritesOrder, WritesNothing, Due
<1>4. PICK answer, content, at :
         /\ answer \in Answers \ {"none"} /\ Answer(c, answer, content, at)
         /\ IF c.kind = "order" THEN answer # "read" ELSE answer = "read"
  <2>1. CASE AnswersRead(c)
    BY <2>1 DEF AnswersRead, Answers
  <2>2. CASE StillRunning(c) \/ TurnsAway(c)
    BY <2>2 DEF StillRunning, TurnsAway, Answers
  <2>3. CASE Replays(c)
    <3>1. PICK r \in record : Answer(c, r.answer, Empty, r.stamp)
      BY <2>3 DEF Replays, Handled
    <3>2. r.answer \in Verdicts
      BY <1>1 DEF TypeOK, Outcome
    <3> QED BY <2>3, <3>1, <3>2 DEF Replays, Answers, Verdicts
  <2>4. CASE \E answer \in {"placed", "fault"} : WritesOrder(c, answer)
    BY <2>4 DEF WritesOrder, Answers, Verdicts
  <2>5. CASE \E answer \in {"totalChanged", "refused", "fault"} : WritesNothing(c, answer)
    BY <2>5 DEF WritesNothing, Answers, Verdicts
  <2> QED BY <2>1, <2>2, <2>3, <2>4, <2>5
<1> DEFINE told == [c EXCEPT !.answer = answer, !.cart = content, !.stamp = at]
<1>5. wire' \subseteq (wire \ {c}) \cup {told} /\ (c.caller = "gone" => wire' = wire \ {c})
  BY <1>4 DEF Answer
<1>6. told.kind = c.kind /\ told.key = c.key /\ told.person = c.person /\ told.caller = c.caller
      /\ told.answer = answer
  BY <1>1 DEF Call
<1> HIDE DEF told
<1>7. c.caller # "gone" => Echoes(told, c)
  BY <1>3, <1>4, <1>6 DEF Echoes
<1>8. \A d \in wire' : d \in wire \ {c} \/ (d = told /\ \E e \in wire \ (wire \ {c}) : Echoes(d, e))
  BY <1>1, <1>5, <1>7
<1>9. CallsSorted' /\ OnePlacing' /\ CallsAttached'
  <2>1. tangled \subseteq tangled'
    BY <1>2
  <2> QED BY <1>1, <1>2, <1>8, <2>1, CallsEcho
<1>10. OrdersSettled'
  <2>1. CASE orders' = orders
    BY <1>1, <1>2, <2>1, OrdersStay
  <2>2. CASE c.kind = "order" /\ Handled(c) = {} /\ orders' = orders \cup {The(c)}
    <3> SUFFICES ASSUME CClean, NEW o \in orders' PROVE Settled(o)'
      BY <1>2 DEF OrdersSettled, CClean
    <3>1. CASE o \in orders
      BY <1>1, <1>2, <3>1 DEF OrdersSettled, Settled
    <3>2. CASE o = The(c)
      <4>1. o.key = c.key /\ o.person = c.person /\ o.basket = c.basket
        BY <3>2 DEF The
      <4>2. Attached(c) /\ MayBeWritten(c)
        BY <1>1, <1>3, <2>2 DEF CallsAttached, MayBeWritten
      <4>3. attempt.person # Nobody /\ c.key = attempt.key => c.basket = attempt.basket
        BY <1>1, <2>2 DEF OneBasket, OrderCalls
      <4> QED BY <1>2, <2>2, <4>1, <4>2, <4>3 DEF Settled, Attached
    <3> QED BY <2>2, <3>1, <3>2
  <2> QED BY <2>1, <2>2 DEF AnswersRead, StillRunning, TurnsAway, Replays, WritesOrder, WritesNothing,
                           server, The
<1> QED BY <1>9, <1>10 DEF SInv

(* What lands: the attempt stays, or ends with its order settled. *)
LEMMA AnswersStepSettled ==
    ASSUME IInv, SInv, NEW c \in wire,
           \/ GivesUp(c) \/ PlacedLands(c) \/ InFlightLands(c) \/ TotalChangedLands(c)
           \/ FaultLands(c) \/ RefusedLands(c) \/ ReadLands(c)
    PROVE  SInv'
<1>1. /\ TypeOK /\ CallsSorted /\ OnePlacing /\ CallsAttached /\ OrdersSettled /\ OneBasket /\ Written
      /\ c \in Call /\ Sorted(c) /\ wire \ {c} \in SUBSET wire /\ c \in wire \ (wire \ {c})
  BY DEF IInv, SInv, TypeOK, CallsSorted
<1>2. /\ UNCHANGED <<viewer, barrier, record, orders>> /\ thanked \subseteq thanked'
      /\ tangled \subseteq tangled' /\ c.caller \in {"current", "earlier"}
  <2>1. UNCHANGED <<viewer, barrier, record, orders>> /\ thanked \subseteq thanked'
    BY DEF GivesUp, PlacedLands, InFlightLands, TotalChangedLands, FaultLands, RefusedLands, ReadLands,
           page, server, past
  <2>2. tangled \subseteq tangled'
    BY DEF GivesUp, PlacedLands, InFlightLands, TotalChangedLands, FaultLands, RefusedLands, ReadLands,
           EndCheckoutAttempt, MixedUp
  <2>3. c.caller \in {"current", "earlier", "gone"} /\ c.caller # "gone"
    BY <1>1 DEF Call, GivesUp, PlacedLands, InFlightLands, TotalChangedLands, FaultLands, RefusedLands,
           ReadLands, Lands
  <2> QED BY <2>1, <2>2, <2>3
<1>3. ASSUME attempt' = attempt, NEW d0,
             \A d \in wire' : d \in wire \ {c} \/ Harmless(d) \/ (d = d0 /\ Echoes(d, c))
      PROVE  SInv'
  <2> DEFINE rest == wire \ {c}
  <2>1. /\ rest \in SUBSET wire
        /\ \A d \in wire' : \/ d \in rest \/ Harmless(d)
                            \/ d = d0 /\ \E e \in wire \ rest : Echoes(d, e)
    BY <1>1, <1>3
  <2> HIDE DEF rest
  <2>2. CallsSorted' /\ OnePlacing' /\ CallsAttached'
    <3>1. UNCHANGED <<viewer, attempt, barrier>> /\ tangled \subseteq tangled' /\ record \subseteq record'
      BY <1>2, <1>3
    <3>2. IInv /\ CallsSorted /\ OnePlacing /\ CallsAttached
      BY <1>1
    <3> QED BY <2>1, <3>1, <3>2, CallsEcho, Zenon
  <2>3. OrdersSettled'
    BY <1>1, <1>2, <1>3, OrdersStay
  <2> QED BY <2>2, <2>3 DEF SInv
<1>4. ASSUME NEW kind, kind = "show", Read(kind, 0, Empty, c.caller, wire \ {c})
      PROVE  \A d \in wire' : d \in wire \ {c} \/ Harmless(d)
  <2>1. kind \in {"show", "poll"} /\ c.caller = "current" => viewer # Nobody
    BY <1>1, <1>4 DEF Sorted
  <2> QED BY <1>1, <1>2, <1>4, <2>1, ReadHarmless
<1>5. CASE GivesUp(c)
  <2> DEFINE left == [c EXCEPT !.caller = "gone"]
  <2>1. wire' = (wire \ {c}) \cup (IF c.kind = "order" /\ c.answer = "none" THEN {left} ELSE {})
    BY <1>5 DEF GivesUp, Abandoned
  <2>2. left.kind = c.kind /\ left.key = c.key /\ left.person = c.person /\ left.caller = "gone"
        /\ left.answer = c.answer
    BY <1>1 DEF Call
  <2> HIDE DEF left
  <2>3. c.kind = "order" /\ c.answer = "none" => Echoes(left, c)
    BY <2>2 DEF Echoes
  <2>4. attempt' = attempt
    BY <1>5 DEF GivesUp, page
  <2> QED BY <1>3, <2>1, <2>3, <2>4
<1>6. CASE InFlightLands(c)
  <2> DEFINE again == [c EXCEPT !.answer = "none", !.left = @ - 1, !.person = viewer]
  <2>1. /\ attempt' = attempt /\ c.answer = "inFlight" /\ c.kind = "order"
        /\ \/ /\ wire' = (wire \ {c}) \cup {again}
              /\ tangled' = IF c.person # viewer THEN tangled \cup {"late"} ELSE tangled
           \/ Read("show", 0, Empty, c.caller, wire \ {c})
    BY <1>1, <1>6 DEF InFlightLands, page, Sorted
  <2>2. again.kind = c.kind /\ again.key = c.key /\ again.person = viewer /\ again.caller = c.caller
        /\ again.answer = "none"
    BY <1>1 DEF Call
  <2> HIDE DEF again
  <2>3. CASE /\ wire' = (wire \ {c}) \cup {again}
             /\ tangled' = IF c.person # viewer THEN tangled \cup {"late"} ELSE tangled
    <3>1. CClean' => again.person = c.person
      BY <2>2, <2>3 DEF CClean
    <3>2. Echoes(again, c)
      BY <1>2, <2>1, <2>2, <3>1 DEF Echoes
    <3> QED BY <1>3, <2>1, <2>3, <3>2
  <2>4. CASE Read("show", 0, Empty, c.caller, wire \ {c})
    BY <1>3, <1>4, <2>1, <2>4
  <2> QED BY <2>1, <2>3, <2>4
<1>7. CASE FaultLands(c)
  <2> DEFINE leaving == Calling("settle", c.key, c.basket, issued + 1, 0, c.caller)
  <2>1. attempt' = attempt /\ c.answer = "fault" /\ wire' = PollsDropped(wire \ {c}) \cup {leaving}
    BY <1>7 DEF FaultLands, page, Read
  <2>2. leaving.kind = "settle" /\ leaving.key = c.key /\ leaving.person = viewer
        /\ leaving.caller = c.caller /\ leaving.answer = "none"
    BY DEF Calling
  <2> HIDE DEF leaving
  <2>3. c.kind = "order"
    BY <1>1, <2>1 DEF Sorted
  <2>4. Echoes(leaving, c)
    BY <1>2, <2>2, <2>3 DEF Echoes
  <2>5. \A d \in PollsDropped(wire \ {c}) : d \in wire \ {c} \/ Harmless(d)
    BY <1>1, DroppedHarmless
  <2> QED BY <1>3, <2>1, <2>4, <2>5
<1>8. ASSUME attempt' = NoAttempt, c.kind \in {"order", "settle"},
             tangled' \subseteq Mixups, c.caller = "earlier" => "late" \in tangled',
             CClean' => ~Unsettled(attempt.key),
             \A d \in wire' : d \in wire \ {c} \/ Harmless(d)
      PROVE  SInv'
  BY <1>2, <1>8, AttemptEnds DEF Unsettled
<1>9. CASE PlacedLands(c)
  <2>1. /\ c.answer = "placed" /\ wire' = wire \ {c} /\ thanked' = thanked \cup {The(c)}
        /\ attempt' = NoAttempt /\ tangled' = MixedUp(c, {})
    BY <1>9 DEF PlacedLands, EndCheckoutAttempt
  <2>2. c.kind = "order" /\ (c.caller = "earlier" => "late" \in tangled')
    BY <1>1, <2>1 DEF Sorted, MixedUp
  <2>3. ASSUME CClean'
        PROVE  /\ \A o \in orders : o.key = attempt.key => o \in thanked' \/ o.key <= barrier
               /\ \A d \in wire \ {c} : d.kind = "order" /\ d.key = attempt.key /\ d.answer = "none"
                            => Handled(d) # {} \/ d.key <= barrier
    <3>1. CClean /\ c.caller = "current"
      BY <1>2, <2>2, <2>3 DEF CClean
    <3>2. Attached(c) /\ Places(c) /\ viewer # Nobody
      BY <1>1, <2>2, <3>1 DEF CallsAttached, Places, Sorted
    <3>3. c.key = attempt.key /\ attempt.person # Nobody /\ c.person = attempt.person
      BY <3>2 DEF Attached
    <3>4. c.basket = attempt.basket /\ The(c) \in orders
      BY <1>1, <2>1, <2>2, <3>3 DEF OneBasket, OrderCalls, Written
    <3>5. ASSUME NEW o \in orders, o.key = attempt.key PROVE o \in thanked'
      <4>1. o \in Order /\ Settled(o)
        BY <1>1, <3>1 DEF TypeOK, OrdersSettled
      <4>2. o = [key |-> o.key, person |-> o.person, basket |-> o.basket]
        BY <4>1 DEF Order
      <4>3. o.person = c.person /\ o.basket = c.basket /\ o.key = c.key
        BY <3>3, <3>4, <3>5, <4>1 DEF Settled
      <4> QED BY <2>1, <4>2, <4>3 DEF The
    <3>6. ASSUME NEW d \in wire \ {c}, d.kind = "order", d.key = attempt.key PROVE Handled(d) # {}
      <4>1. d.person = c.person
        BY <1>1, <3>1, <3>3, <3>6 DEF CallsAttached, Attached
      <4>2. The(c).key = c.key /\ The(c).person = c.person
        BY DEF The
      <4>3. PICK r \in record : r.key = c.key /\ r.person = c.person
        BY <1>1, <3>4, <4>2 DEF Written
      <4> QED BY <3>3, <3>6, <4>1, <4>3 DEF Handled
    <3> QED BY <3>5, <3>6
  <2> QED BY <1>2, <2>1, <2>2, <2>3, AttemptEnds
<1>10. ASSUME NEW why \in {"turnedAway", "refilled"}, MixedUp(c, {why}) \subseteq tangled'
       PROVE  /\ c.caller = "earlier" => "late" \in tangled'
              /\ CClean' => ~Unsettled(attempt.key)
  <2>1. c.caller = "earlier" => "late" \in tangled'
    BY <1>10 DEF MixedUp
  <2>2. Unsettled(attempt.key) => why \in tangled'
    BY <1>10 DEF MixedUp
  <2> QED BY <1>10, <2>1, <2>2 DEF CClean
<1>11. CASE TotalChangedLands(c) \/ RefusedLands(c)
  <2>1. /\ c.answer \in {"totalChanged", "refused", "turnedAway"}
        /\ attempt' = NoAttempt /\ tangled' = MixedUp(c, {"turnedAway"})
        /\ wire' = wire \ {c} \/ Read("show", 0, Empty, c.caller, wire \ {c})
    BY <1>11 DEF TotalChangedLands, RefusedLands, EndCheckoutAttempt
  <2>2. c.kind = "order"
    BY <1>1, <2>1 DEF Sorted
  <2>3. \A d \in wire' : d \in wire \ {c} \/ Harmless(d)
    BY <1>4, <2>1
  <2>4. tangled' \subseteq Mixups
    BY <1>1, <2>1 DEF TypeOK, MixedUp, Mixups
  <2> QED BY <1>8, <1>10, <2>1, <2>2, <2>3, <2>4
<1>12. CASE ReadLands(c)
  <2>1. /\ wire' = wire \ {c}
        /\ attempt' = IF c.kind = "settle" /\ StillFull(c) THEN NoAttempt ELSE attempt
        /\ c.kind = "settle" /\ StillFull(c) => MixedUp(c, {"refilled"}) \subseteq tangled'
        /\ tangled' \subseteq Mixups
    BY <1>1, <1>12 DEF ReadLands, StillFull, TypeOK, MixedUp, Mixups
  <2>2. CASE c.kind = "settle" /\ StillFull(c)
    BY <1>8, <1>10, <2>1, <2>2
  <2>3. CASE ~(c.kind = "settle" /\ StillFull(c))
    BY <1>3, <2>1, <2>3
  <2> QED BY <2>2, <2>3
<1> QED BY <1>5, <1>6, <1>7, <1>9, <1>11, <1>12

LEMMA StepSInv == IInv /\ SInv /\ [Next]_vars => SInv'
<1> SUFFICES ASSUME IInv, SInv, [Next]_vars PROVE SInv'
  OBVIOUS
<1>1. CASE PlaceOrder
  BY <1>1, PlaceOrderSettled
<1>2. CASE \/ FetchCart \/ PollCart
           \/ \E person \in Persons : SignIn(person)
           \/ \E next \in Persons \cup {Nobody} : SignOut(next) \/ Reload(next)
           \/ \E person \in Persons, content \in Carts : Elsewhere(person, content)
  BY <1>2, PageStepSettled
<1>3. ASSUME NEW c \in wire,
             \/ AnswersRead(c) \/ StillRunning(c) \/ TurnsAway(c) \/ Replays(c)
             \/ \E answer \in {"placed", "fault"} : WritesOrder(c, answer)
             \/ \E answer \in {"totalChanged", "refused", "fault"} : WritesNothing(c, answer)
      PROVE  SInv'
  BY <1>3, ServerStepSettled
<1>4. ASSUME NEW c \in wire,
             \/ GivesUp(c) \/ PlacedLands(c) \/ InFlightLands(c) \/ TotalChangedLands(c)
             \/ FaultLands(c) \/ RefusedLands(c) \/ ReadLands(c)
      PROVE  SInv'
  BY <1>4, AnswersStepSettled
<1>5. CASE UNCHANGED vars
  BY <1>5 DEF vars, page, server, past, SInv, CallsSorted, OnePlacing, CallsAttached, OrdersSettled,
              Sorted, Places, Attached, Settled, MayBeWritten, Handled, CClean
<1> QED BY <1>1, <1>2, <1>3, <1>4, <1>5 DEF Next

(* docs/modules/cart.md promises that the next press replays whatever the server did: an order  *)
(* written behind a fault, a lost answer or a page load is the saved attempt's until its buyer  *)
(* is told, however many presses, persons and devices there are, short of the named mix-ups.    *)
THEOREM UnheardIsReplayed == Spec => []UnheardIsSaved
<1>1. Init => SInv
  <2>1. ASSUME Init PROVE SInv
    BY <2>1 DEF Init, SInv, CallsSorted, OnePlacing, CallsAttached, OrdersSettled
  <2> QED BY <2>1
<1>2. SInv => UnheardIsSaved
  BY DEF SInv, OrdersSettled, Settled, CClean, UnheardIsSaved
<1> QED BY InitIInv, StepIInv, StepSInv, <1>1, <1>2, PTL DEF Spec
=============================================================================
