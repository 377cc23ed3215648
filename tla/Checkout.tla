------------------------------ MODULE Checkout ------------------------------
(***************************************************************************)
(* The checkout of the signed-in cart: the press, the key it travels       *)
(* under, the retries, what each verdict does to the attempt, and the      *)
(* reads of the cart that run beside it.                                   *)
(*                                                                         *)
(* composables/checkout-attempt-storage.ts keeps one attempt per tab: the  *)
(* person, the fingerprint of the order and the Idempotency-Key.  A page   *)
(* load keeps it; store.ts (checkout, settleFailedCheckout) ends it.  The  *)
(* store shows the cart of the newest answer (tickets), and reads it in    *)
(* the background (pollCart).  A basket stands for everything the order is *)
(* made from: lines, total, shipping and the form.  The server, external,  *)
(* remembers the outcome of every key it handled, per person.              *)
(***************************************************************************)
EXTENDS Integers, FiniteSets

CONSTANTS Baskets,    \* the carts somebody may want to order
          Empty,      \* the cart with nothing in it
          Persons,    \* who may sign in
          Nobody,     \* no one is signed in
          Retries,    \* how often an order still being worked on is asked for again
          MaxCalls,   \* bound on the calls
          MaxVisits,  \* bound on sign-ins, departures and page loads
          MaxChanges  \* bound on the changes made from another device

ASSUME Distinct == Empty \notin Baskets /\ Nobody \notin Persons
ASSUME BoundsNat == Retries \in Nat /\ MaxCalls \in Nat /\ MaxVisits \in Nat /\ MaxChanges \in Nat

VARIABLES
    viewer,   \* who is signed in on this tab
    shown,    \* the cart on screen and the server's stamp of it; Empty before any read
    applied,  \* the ticket of the answer on screen
    issued,   \* the last ticket; also the number of calls so far
    attempt,  \* the saved attempt; key 0 when there is none
    minted,   \* the last key minted
    wire,     \* the calls under way, those whose page is gone included
    cart,     \* the server's cart of each person
    stamp,    \* the server's count of cart changes
    record,   \* the server's record of the keys it has handled
    orders,   \* the orders it wrote, each with the basket the page showed
    visits,   \* sign-ins, departures and page loads so far
    changes,  \* changes made from another device so far
    barrier,  \* history: the last key minted when a person last left
    thanked,  \* history: the orders a page said were placed
    inferred, \* history: the orders a page said were placed because an empty cart said so
    tangled   \* history: what went on that separates an order from its attempt, or from its cart

page == <<viewer, shown, applied, attempt>>
server == <<cart, stamp, record, orders>>
budget == <<visits, changes>>
past == <<thanked, inferred>>
vars == <<page, issued, minted, wire, server, budget, barrier, past, tangled>>

Carts == Baskets \cup {Empty}
NoAttempt == [key |-> 0, person |-> Nobody, basket |-> Empty]
Attempts == [key : Nat, person : Persons \cup {Nobody}, basket : Carts]
Order == [key : Nat, person : Persons, basket : Baskets]

\* A call: an order, or a read of the cart made to settle a fault, to show the cart or in the
\* background; whose flow it belongs to; and its answer with the cart it brings.
Kinds == {"order", "settle", "show", "poll"}
Verdicts == {"placed", "totalChanged", "refused", "fault"}
Answers == Verdicts \cup {"none", "inFlight", "turnedAway", "read"}
Call == [kind : Kinds, key : Nat, basket : Carts, person : Persons \cup {Nobody},
         ticket : Nat, left : Nat, caller : {"current", "earlier", "gone"},
         answer : Answers, cart : Carts, stamp : Nat]
Outcome == [key : Nat, person : Persons, basket : Baskets, answer : Verdicts, stamp : Nat]
Mixups == {"late", "turnedAway", "pressedAnother", "refilled", "emptied", "stale"}

Unread == [cart |-> Empty, stamp |-> 0]

Init == /\ viewer = Nobody /\ shown = Unread /\ applied = 0 /\ issued = 0
        /\ attempt = NoAttempt /\ minted = 0 /\ wire = {}
        /\ cart \in [Persons -> Carts] /\ stamp = 0 /\ record = {} /\ orders = {}
        /\ visits = 0 /\ changes = 0 /\ barrier = 0 /\ thanked = {} /\ inferred = {} /\ tangled = {}

-----------------------------------------------------------------------------
(* Calls *)

CanCall(n) == issued + n <= MaxCalls

Calling(kind, key, basket, ticket, left, caller) ==
    [kind |-> kind, key |-> key, basket |-> basket, person |-> viewer, ticket |-> ticket,
     left |-> left, caller |-> caller, answer |-> "none", cart |-> Empty, stamp |-> 0]

\* Calls of the page whose standing changes.
Handed(calls, from, to) == {IF c.caller \in from THEN [c EXCEPT !.caller = to] ELSE c : c \in calls}

\* Calls nobody waits for any longer: of those, only an order the server has yet to see matters.
Abandoned(calls) == {[c EXCEPT !.caller = "gone"] :
                        c \in {d \in calls : d.kind = "order" /\ d.answer = "none"}}

\* Every call but a poll moves the cart's epoch as it leaves: a poll still out is not for show.
PollsDropped(calls) == Handed({c \in calls : c.kind = "poll"}, {"current"}, "earlier")
                           \cup {c \in calls : c.kind # "poll"}

\* A read leaves with the next ticket.
Read(kind, key, basket, caller, calls) ==
    /\ CanCall(1)
    /\ issued' = issued + 1
    /\ wire' = PollsDropped(calls) \cup {Calling(kind, key, basket, issued + 1, 0, caller)}

\* An order under this key was written, or may still be, and its buyer was not told.
Unsettled(key) == \/ \E o \in orders : o.key = key /\ o \notin thanked
                  \/ \E c \in wire : c.kind = "order" /\ c.key = key /\ c.answer = "none"

FreshKeyFor(basket) == /\ minted' = minted + 1
                       /\ attempt' = [key |-> minted + 1, person |-> viewer, basket |-> basket]

\* Slip: the saved key is good for any order.
AnyKeyFor(basket) == IF attempt.person = viewer
                     THEN UNCHANGED <<attempt, minted>>
                     ELSE FreshKeyFor(basket)

\* The same order of the same person is the same call; anything else gets a new key.
checkoutKeyFor(basket) == IF attempt.person = viewer /\ attempt.basket = basket
                          THEN UNCHANGED <<attempt, minted>>
                          ELSE FreshKeyFor(basket)

\* An order is under way on this page, or what follows it: the view takes no second press.
Placing == \E c \in wire : c.caller = "current" /\ c.kind \in {"order", "settle"}

\* The button: the order of the cart on screen, under the key of its attempt.
PlaceOrder ==
    /\ viewer # Nobody /\ shown.cart # Empty /\ ~Placing /\ CanCall(1)
    /\ checkoutKeyFor(shown.cart)
    /\ issued' = issued + 1
    /\ wire' = PollsDropped(wire)
                 \cup {Calling("order", attempt'.key, shown.cart, issued + 1, Retries, "current")}
    /\ tangled' = IF attempt' # attempt /\ Unsettled(attempt.key)
                  THEN tangled \cup {"pressedAnother"} ELSE tangled
    /\ UNCHANGED <<viewer, shown, applied, server, budget, barrier, past>>

\* The page reads the cart: on opening, and when another part of it asks.
FetchCart == /\ viewer # Nobody
             /\ Read("show", 0, Empty, "current", wire)
             /\ UNCHANGED <<page, minted, server, budget, barrier, past, tangled>>

\* Slip: a poll leaves beside other calls.
PollWhenever == /\ viewer # Nobody /\ \A c \in wire : c.caller = "gone" \/ c.kind # "poll"
                /\ Read("poll", 0, Empty, "current", wire)
                /\ UNCHANGED <<page, minted, server, budget, barrier, past, tangled>>

\* The background read: never beside a call that replaces the cart, nor another of its kind.
PollCart == /\ viewer # Nobody /\ \A c \in wire : c.caller = "gone"
            /\ Read("poll", 0, Empty, "current", wire)
            /\ UNCHANGED <<page, minted, server, budget, barrier, past, tangled>>

-----------------------------------------------------------------------------
(* People and page loads *)

Visit == visits < MaxVisits /\ visits' = visits + 1

SignIn(person) == /\ Visit /\ viewer = Nobody
                  /\ viewer' = person
                  /\ UNCHANGED <<shown, applied, issued, attempt, minted, wire, server, changes,
                                 barrier, past, tangled>>

\* The person leaves, or another takes the tab over: the store's reset, past which no ticket
\* taken before lands.
SignOut(next) ==
    /\ Visit /\ viewer # Nobody /\ next # viewer
    /\ viewer' = next /\ shown' = Unread /\ applied' = issued /\ attempt' = NoAttempt
    /\ barrier' = minted
    /\ wire' = Handed(wire, {"current"}, "earlier")
    /\ UNCHANGED <<issued, minted, server, changes, past, tangled>>

\* The page loads again; the session is restored, or turns out to have ended meanwhile.
Reload(restored) ==
    /\ Visit /\ restored \in {viewer, Nobody}
    /\ viewer' = restored /\ shown' = Unread /\ applied' = issued
    /\ wire' = Abandoned(wire)
    /\ UNCHANGED <<issued, attempt, minted, server, changes, barrier, past, tangled>>

-----------------------------------------------------------------------------
(* The server, and the network *)

Answer(c, answer, content, at) ==
    wire' = (wire \ {c}) \cup (IF c.caller = "gone" THEN {}
                              ELSE {[c EXCEPT !.answer = answer, !.cart = content, !.stamp = at]})

\* Calls are handled in any order, those of somebody signed in.
Due(c) == c.answer = "none" /\ c.person # Nobody

Handled(c) == {r \in record : r.key = c.key /\ r.person = c.person}
Recorded(c, answer, at) ==
    record' = record \cup {[key |-> c.key, person |-> c.person, basket |-> c.basket,
                            answer |-> answer, stamp |-> at]}

AnswersRead(c) == /\ Due(c) /\ c.kind # "order"
                  /\ Answer(c, "read", cart[c.person], stamp)
                  /\ UNCHANGED <<page, issued, minted, server, budget, barrier, past, tangled>>

\* The key is known: the recorded outcome again.
Replays(c) == /\ Due(c) /\ c.kind = "order"
              /\ \E r \in Handled(c) : Answer(c, r.answer, Empty, r.stamp)
              /\ UNCHANGED <<page, issued, minted, server, budget, barrier, past, tangled>>

\* The key is being worked on by another call.
StillRunning(c) ==
    /\ c.kind = "order" /\ c.answer = "none"
    /\ \E d \in wire \ {c} : d.kind = "order" /\ d.key = c.key /\ d.answer = "none"
    /\ Answer(c, "inFlight", Empty, 0)
    /\ UNCHANGED <<page, issued, minted, server, budget, barrier, past, tangled>>

\* The order is written and the cart emptied, at once; a fault may still hide it.  The server
\* compares the total alone: another basket may happen to come to the same.
WritesOrder(c, answer) ==
    /\ Due(c) /\ c.kind = "order" /\ Handled(c) = {}
    /\ cart[c.person] # Empty
    /\ orders' = orders \cup {[key |-> c.key, person |-> c.person, basket |-> c.basket]}
    /\ cart' = [cart EXCEPT ![c.person] = Empty]
    /\ stamp' = stamp + 1
    /\ Recorded(c, answer, stamp + 1)
    /\ Answer(c, answer, Empty, stamp + 1)
    /\ UNCHANGED <<page, issued, minted, budget, barrier, past, tangled>>

\* A verdict without an order: the total is not the one shown, a refusal, a fault.
WritesNothing(c, answer) ==
    /\ Due(c) /\ c.kind = "order" /\ Handled(c) = {}
    /\ answer = "totalChanged" => cart[c.person] \notin {c.basket, Empty}
    /\ Recorded(c, answer, stamp)
    /\ Answer(c, answer, Empty, stamp)
    /\ UNCHANGED <<page, issued, minted, cart, stamp, orders, budget, barrier, past, tangled>>

\* A 4xx before the order is looked at: too many requests, no session.
TurnsAway(c) == /\ c.kind = "order" /\ c.answer = "none"
                /\ Answer(c, "turnedAway", Empty, 0)
                /\ UNCHANGED <<page, issued, minted, server, budget, barrier, past, tangled>>

\* The person changes the cart from another device.
Elsewhere(person, content) ==
    /\ changes < MaxChanges /\ changes' = changes + 1
    /\ cart[person] # content
    /\ cart' = [cart EXCEPT ![person] = content]
    /\ stamp' = stamp + 1
    /\ tangled' = tangled \cup (IF content = Empty THEN {"emptied"} ELSE {})
    /\ UNCHANGED <<page, issued, minted, wire, record, orders, visits, barrier, past>>

-----------------------------------------------------------------------------
(* Answers *)

The(c) == [key |-> c.key, person |-> c.person, basket |-> c.basket]

\* What an answer may separate: of an earlier session, or ending an attempt yet to be settled.
MixedUp(c, why) == tangled \cup (IF c.caller = "earlier" THEN {"late"} ELSE {})
                           \cup (IF Unsettled(attempt.key) THEN why ELSE {})

\* reactToServerError: with the read after a bare 500 over, an empty screen means a placed order.
Infers(c, screen) ==
    inferred' = IF c.kind = "settle" /\ screen = Empty THEN inferred \cup {The(c)} ELSE inferred

\* No answer, or a gateway's 5xx: the attempt is kept, and the screen as it was.
GivesUp(c) == /\ c.caller # "gone"
              /\ wire' = (wire \ {c}) \cup Abandoned({c})
              /\ Infers(c, shown.cart)
              /\ tangled' = IF c.kind = "settle" THEN MixedUp(c, {}) ELSE tangled
              /\ UNCHANGED <<page, issued, minted, server, budget, barrier, thanked>>

Lands(c) == c.answer # "none" /\ c.caller # "gone"

\* The ticket: nothing newer is on screen, and the person is the one there was when it was taken;
\* a poll's answer, besides, is the last call's.  What follows an earlier person's order is read
\* under a ticket of its own.
Wins(c) == c.ticket > applied /\ (c.kind = "poll" => c.caller = "current")

\* What an answer that wins puts on screen.
Shows(c, content) == IF Wins(c)
                     THEN shown' = [cart |-> content, stamp |-> c.stamp] /\ applied' = c.ticket
                     ELSE UNCHANGED <<shown, applied>>

\* The attempt under way ends, whoever's it is by now.
EndCheckoutAttempt(c, why) == attempt' = NoAttempt /\ tangled' = MixedUp(c, why)

\* The order is placed: the screen empties and the attempt is over.
PlacedLands(c) ==
    /\ Lands(c) /\ c.answer = "placed"
    /\ wire' = wire \ {c}
    /\ Shows(c, Empty)
    /\ thanked' = thanked \cup {The(c)}
    /\ EndCheckoutAttempt(c, {})
    /\ UNCHANGED <<viewer, issued, minted, server, budget, barrier, inferred>>

\* The first attempt still runs: asked again under the same key, a few times; then the cart is
\* read, and the key stays.
InFlightLands(c) ==
    /\ Lands(c) /\ c.answer = "inFlight"
    /\ IF c.left > 0
       THEN /\ wire' = (wire \ {c}) \cup {[c EXCEPT !.answer = "none", !.left = @ - 1, !.person = viewer]}
            /\ UNCHANGED issued
       ELSE Read("show", 0, Empty, c.caller, wire \ {c})
    /\ tangled' = IF c.left > 0 /\ c.person # viewer THEN tangled \cup {"late"} ELSE tangled
    /\ UNCHANGED <<page, minted, server, budget, barrier, past>>

\* The screen was out of date: the attempt is over and the cart is read again.
TotalChangedLands(c) ==
    /\ Lands(c) /\ c.answer = "totalChanged"
    /\ EndCheckoutAttempt(c, {"turnedAway"})
    /\ Read("show", 0, Empty, c.caller, wire \ {c})
    /\ UNCHANGED <<viewer, shown, applied, minted, server, budget, barrier, past>>

\* A bare 500: only a read of the cart tells whether the order was written.
FaultLands(c) ==
    /\ Lands(c) /\ c.answer = "fault"
    /\ Read("settle", c.key, c.basket, c.caller, wire \ {c})
    /\ UNCHANGED <<page, minted, server, budget, barrier, past, tangled>>

\* Any other verdict ends the attempt; a cart that changed or is empty is read again.
RefusedLands(c) ==
    /\ Lands(c) /\ c.answer \in {"refused", "turnedAway"}
    /\ EndCheckoutAttempt(c, {"turnedAway"})
    /\ \/ wire' = wire \ {c} /\ UNCHANGED issued
       \/ c.answer = "refused" /\ Read("show", 0, Empty, c.caller, wire \ {c})
    /\ UNCHANGED <<viewer, shown, applied, minted, server, budget, barrier, past>>

\* Slip: a bare 500 means that nothing was written.
NeverWritten(c) == TRUE

\* The read after a bare 500 found the basket still there.
StillFull(c) == c.cart # Empty

ReadLands(c) ==
    /\ Lands(c) /\ c.answer = "read"
    /\ wire' = wire \ {c}
    /\ Shows(c, c.cart)
    /\ Infers(c, shown'.cart)
    /\ attempt' = IF c.kind = "settle" /\ StillFull(c) THEN NoAttempt ELSE attempt
    /\ tangled' = (IF c.kind = "settle"
                   THEN MixedUp(c, IF c.cart # Empty THEN {"refilled"} ELSE {}) ELSE tangled)
                  \cup (IF shown'.stamp < shown.stamp THEN {"stale"} ELSE {})
    /\ UNCHANGED <<viewer, issued, minted, server, budget, barrier, thanked>>

Next ==
    \/ PlaceOrder \/ FetchCart \/ PollCart
    \/ \E person \in Persons : SignIn(person)
    \/ \E next \in Persons \cup {Nobody} : SignOut(next) \/ Reload(next)
    \/ \E person \in Persons, content \in Carts : Elsewhere(person, content)
    \/ \E c \in wire :
          \/ AnswersRead(c) \/ Replays(c) \/ StillRunning(c) \/ TurnsAway(c) \/ GivesUp(c)
          \/ \E answer \in {"placed", "fault"} : WritesOrder(c, answer)
          \/ \E answer \in {"totalChanged", "refused", "fault"} : WritesNothing(c, answer)
          \/ PlacedLands(c) \/ InFlightLands(c) \/ TotalChangedLands(c) \/ FaultLands(c)
          \/ RefusedLands(c) \/ ReadLands(c)

Spec == Init /\ [][Next]_vars

-----------------------------------------------------------------------------
(* Properties *)

\* The variables keep their types, and no ticket or key is ahead of its dispenser.
TypeOK == /\ viewer \in Persons \cup {Nobody} /\ shown \in [cart : Carts, stamp : Nat]
          /\ issued \in Nat /\ applied \in 0 .. issued
          /\ minted \in Nat /\ attempt \in Attempts /\ attempt.key <= minted
          /\ wire \subseteq Call /\ \A c \in wire : c.ticket <= issued /\ c.key <= minted
          /\ cart \in [Persons -> Carts] /\ stamp \in Nat
          /\ record \subseteq Outcome /\ orders \subseteq Order
          /\ visits \in Nat /\ changes \in Nat /\ barrier \in Nat
          /\ thanked \cup inferred \subseteq [key : Nat, person : Persons \cup {Nobody}, basket : Carts]
          /\ tangled \subseteq Mixups

\* A key never travels with two different orders, which the server would refuse, or worse, answer
\* with the other one: checkoutKeyFor binds it to the fingerprint.
KeyMeansOneOrder ==
    \A c \in {d \in wire : d.kind = "order"}, r \in record : c.key = r.key => c.basket = r.basket

\* docs/modules/cart.md, "the next press is the same call and replays whatever the server did": an
\* order the server wrote and nobody has told its buyer about is always the one the saved attempt
\* would replay, across page loads, faults and retries, unless the visitor moved on to another
\* order or one of the other named mix-ups ended the attempt.
UnheardIsSaved ==
    tangled \subseteq {"emptied", "stale"} =>
        \A o \in orders : o \in thanked \/ o.person # viewer \/ o.key <= barrier \/ attempt.key = o.key

\* use-checkout-refusals.ts, "an empty cart means the order was written": an order the page infers
\* from an empty screen was written, as long as its session lasts.
EmptyMeansWritten == "late" \notin tangled => inferred \subseteq orders

\* The same, when nobody empties the cart from elsewhere and no read is handled before one that
\* left earlier: then the empty screen can only be the order's doing.
EmptyMeansWrittenHere == tangled \cap {"emptied", "stale"} = {} => EmptyMeansWritten

\* store.ts, pollCart, "it can never make a stale answer win": whatever calls and reads overlap,
\* and in whatever order the server handles them, the answer of a background read is never shown
\* over a newer cart.
NoStalePoll == \A c \in wire : c.kind = "poll" /\ c.answer = "read" /\ Wins(c) => c.stamp >= shown.stamp

Abstract == INSTANCE OneOrder WITH placed <- orders, thanked <- thanked

\* The keys, the record and the retries implement the plain promise of OneOrder.
ImplementsOneOrder == Abstract!Spec
=============================================================================
