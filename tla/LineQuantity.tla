---------------------------- MODULE LineQuantity ----------------------------
(***************************************************************************)
(* One visit to the cart page: the quantity steppers of its lines, the     *)
(* requests they send, and the checkout that waits for them.               *)
(*                                                                         *)
(* modules/cart/composables/use-line-quantity.ts holds the visitor's own   *)
(* numbers (pending), a debounced sender per line (armed) and the newest   *)
(* request of each line (newest); views/Cart.vue drives it from the        *)
(* steppers, the removal, the clearing, the checkout, the unmount and the  *)
(* pagehide; store.ts replaces the cart shown by each answer, in the order *)
(* the requests left.  The server is external.                             *)
(***************************************************************************)
EXTENDS Integers, FiniteSets, Functions

CONSTANTS Products,      \* the lines of the cart
          Whole,         \* the product of a request about the whole cart
          MaxQuantity,   \* bound on a line's quantity
          StartQuantity, \* what every line holds when the page opens
          MaxSent,       \* bound on the requests the visitor may cause
          InOrder        \* whether the server handles requests in the order they left

ASSUME ProductsFinite == IsFiniteSet(Products) /\ Whole \notin Products
ASSUME QuantityNat == MaxQuantity \in Nat /\ StartQuantity \in 1 .. MaxQuantity

VARIABLES
    pending,     \* the number the visitor stepped each line to, None once it is settled
    armed,       \* the lines whose sender waits on its timer
    newest,      \* the ticket of each line's request in flight, 0 for none (inFlight)
    placing,     \* how far the checkout has come
    awaited,     \* the tickets settle() waits for
    anyFailed,   \* whether one of them failed
    cart,        \* the cart the store shows
    applied,     \* the ticket of the answer it shows
    page,        \* whether the view is mounted and the page alive
    sent,        \* the requests so far; also the last ticket
    wire,        \* the requests whose caller still waits, and the keepalives not handled yet
    line,        \* the server's cart
    asked,       \* history: the last click on each line, None once given up, refused or in doubt
    steppedBack, \* history: lines stepped onto a number an overtaken request carries
    told,        \* history: lines whose newest request failed while settling
    unheard      \* history: the newest handled request whose answer was lost

client == <<pending, armed, newest, placing, awaited, anyFailed, cart, applied, page>>
history == <<asked, steppedBack, told, unheard>>
vars == <<client, sent, wire, line, history>>

None == 0
Quantity == 1 .. MaxQuantity
Carts == [Products -> {None} \cup Quantity]
Empty == [p \in Products |-> None]

Request == [kind : {"set", "keepalive", "remove", "clear", "order", "read"},
            product : Products \cup {Whole}, quantity : {None} \cup Quantity,
            ticket : Nat, at : {"sent", "done"}, ok : BOOLEAN, cart : Carts]

Init == /\ pending = Empty /\ armed = {} /\ newest = Empty
        /\ placing = "no" /\ awaited = {} /\ anyFailed = FALSE
        /\ cart = [p \in Products |-> StartQuantity] /\ line = cart
        /\ applied = 0 /\ sent = 0 /\ wire = {} /\ page = "open"
        /\ asked = Empty /\ steppedBack = {} /\ told = {} /\ unheard = 0

-----------------------------------------------------------------------------
(* Requests *)

\* A request as it leaves; an order carries the cart the page shows (expectedTotal).
Leaving(kind, p, quantity, ticket) ==
    [kind |-> kind, product |-> p, quantity |-> quantity, ticket |-> ticket,
     at |-> "sent", ok |-> FALSE, cart |-> cart]

\* The store's flag, while the page is open: whether any of its calls is still to come back (the
\* toolkit counts them, docs/theory/loading-state.md:37).
loading == wire # {}

\* A call of the store leaves: takeCartSlot takes the ticket.
Call(kind, p) == /\ wire' = wire \cup {Leaving(kind, p, None, sent + 1)}
                 /\ sent' = sent + 1

\* Of these lines, the ones whose sender finds a number to send.
Carrying(S) == {p \in S : pending[p] # None}

\* The ways to number what a set of lines sends at once.
Numberings(S) == Bijection(S, sent + 1 .. sent + Cardinality(S))

\* The debounced senders of these lines run, in some order: one request each.
SendersRun(S) ==
    \E ticket \in Numberings(Carrying(S)) :
        /\ wire' = wire \cup {Leaving("set", p, pending[p], ticket[p]) : p \in Carrying(S)}
        /\ newest' = [p \in Products |-> IF p \in Carrying(S) THEN ticket[p] ELSE newest[p]]
        /\ sent' = sent + Cardinality(Carrying(S))
        /\ armed' = armed \ S

-----------------------------------------------------------------------------
(* The visitor *)

MountedAnd(free) == page = "open" /\ free

CanCause(n) == sent + Cardinality(armed) + n <= MaxSent

quantityOf(p) == IF pending[p] # None THEN pending[p] ELSE cart[p]

MIN_LINE_QUANTITY == 1

steppedQuantity(quantity, step) ==
    IF quantity + step < MIN_LINE_QUANTITY THEN MIN_LINE_QUANTITY ELSE quantity + step

\* Some request that is not the line's newest any more carries this number.
Overtaken(p, quantity) ==
    \E r \in wire : /\ r.kind = "set" /\ r.product = p
                    /\ r.quantity = quantity /\ r.ticket # newest[p]

\* The page does not know whether the line is still there: its removal is on the wire, or the server
\* did something the page has not heard of.
InDoubt(p) == \/ \E r \in wire : r.kind \in {"remove", "clear"} /\ r.product \in {p, Whole}
              \/ unheard > applied

\* A click on a stepper: the number on screen now, the request once the clicks stop.
StepQuantity(p) ==
    /\ MountedAnd(placing = "no") /\ cart[p] # None
    /\ CanCause(IF p \in armed THEN 0 ELSE 1)
    /\ \E step \in {-1, 1} :
           LET next == steppedQuantity(quantityOf(p), step)
           IN /\ next # quantityOf(p) /\ next <= MaxQuantity
              /\ pending' = [pending EXCEPT ![p] = next]
              /\ asked' = [asked EXCEPT ![p] = IF InDoubt(p) THEN None ELSE next]
              /\ steppedBack' = IF Overtaken(p, next) THEN steppedBack \cup {p}
                                                      ELSE steppedBack \ {p}
    /\ armed' = armed \cup {p}
    /\ UNCHANGED <<newest, placing, awaited, anyFailed, cart, applied, page,
                   sent, wire, line, told, unheard>>

\* Slip: the timer is cancelled and the number stays.
CancelOnly(S) == /\ armed' = armed \ S
                 /\ UNCHANGED pending

\* The lines' steps are dropped, timers included (forget, forgetAll).
Forget(S) == /\ armed' = armed \ S
             /\ pending' = [p \in Products |-> IF p \in S THEN None ELSE pending[p]]

Unasked(S) == asked' = [p \in Products |-> IF p \in S THEN None ELSE asked[p]]

RemoveLine(p) ==
    /\ MountedAnd(~loading) /\ cart[p] # None /\ CanCause(1)
    /\ Forget({p}) /\ Unasked({p})
    /\ Call("remove", p)
    /\ UNCHANGED <<newest, placing, awaited, anyFailed, cart, applied, page, line,
                   steppedBack, told, unheard>>

\* The confirmation is accepted; the dialog may have been opened before a timer fired.
HandleClearCart ==
    /\ MountedAnd(placing = "no" \/ ~loading) /\ CanCause(1)
    /\ \A r \in wire : r.kind # "clear"
    /\ Forget(Products) /\ Unasked(Products)
    /\ Call("clear", Whole)
    /\ UNCHANGED <<newest, placing, awaited, anyFailed, cart, applied, page, line,
                   steppedBack, told, unheard>>

\* Slip: settle flushes and waits for nothing.
AwaitNothing == awaited' = {}

\* settle waits for the newest request of every line.
AwaitNewest == awaited' = {newest'[p] : p \in Products} \ {0}

Checkout ==
    /\ MountedAnd(placing = "no" /\ ~loading) /\ cart # Empty /\ CanCause(1)
    /\ placing' = "settling" /\ anyFailed' = FALSE /\ told' = {}
    /\ SendersRun(armed) /\ AwaitNewest
    /\ UNCHANGED <<pending, cart, applied, page, line, asked, steppedBack, unheard>>

\* The view unmounts: every timer is flushed, and the answers still come back to the store.
Unmount ==
    /\ MountedAnd(TRUE)
    /\ page' = "left"
    /\ SendersRun(armed)
    /\ UNCHANGED <<pending, placing, awaited, anyFailed, cart, applied, line, history>>

\* The page goes away: every pending number leaves on a request that outlives it.
PageHide ==
    /\ MountedAnd(TRUE)
    /\ page' = "hidden"
    /\ \E ticket \in Numberings(Carrying(Products)) :
           wire' = wire \cup {Leaving("keepalive", p, pending[p], ticket[p])
                                : p \in Carrying(Products)}
    /\ sent' = sent + Cardinality(Carrying(Products))
    /\ armed' = armed \ Carrying(Products)
    /\ pending' = Empty
    /\ UNCHANGED <<newest, placing, awaited, anyFailed, cart, applied, line, history>>

-----------------------------------------------------------------------------
(* The page's own steps *)

Alive == page # "hidden"

\* A timer runs out; with nothing pending its sender returns.
TimerFires(p) ==
    /\ Alive /\ p \in armed
    /\ SendersRun({p})
    /\ UNCHANGED <<pending, placing, awaited, anyFailed, cart, applied, page, line, history>>

\* Everything settle() waited for has come back; what follows runs before any other event.
Settled == placing = "settling" /\ \A r \in wire : r.ticket \notin awaited

\* The order leaves, unless a step failed to reach the server.
PlaceOrder ==
    IF anyFailed THEN /\ placing' = "no"
                      /\ UNCHANGED <<wire, sent>>
                 ELSE /\ placing' = "ordering"
                      /\ Call("order", Whole)

SettleReturns ==
    /\ Alive /\ Settled
    /\ PlaceOrder
    /\ UNCHANGED <<pending, armed, newest, awaited, anyFailed, cart, applied, page, line, history>>

-----------------------------------------------------------------------------
(* The server *)

Becomes(r, changed) == wire' = (wire \ {r}) \cup {changed}

Turn(r) == /\ r \in wire /\ r.at = "sent"
           /\ InOrder => \A other \in wire : other.at = "sent" => r.ticket <= other.ticket

\* What the request does to the server's cart: a quantity needs a line that is there, an order
\* the cart it was shown.
Granted(r) == CASE r.kind \in {"set", "keepalive"} -> line[r.product] # None
                [] r.kind = "order" -> line # Empty /\ r.cart = line
                [] OTHER -> TRUE

Effect(r) == CASE r.kind \in {"set", "keepalive"} -> [line EXCEPT ![r.product] = r.quantity]
               [] r.kind = "remove" -> [line EXCEPT ![r.product] = None]
               [] r.kind = "read" -> line
               [] OTHER -> Empty

Accept(r) ==
    /\ Turn(r) /\ Granted(r)
    /\ line' = Effect(r)
    /\ IF r.kind = "keepalive"
       THEN wire' = wire \ {r}
       ELSE Becomes(r, [r EXCEPT !.at = "done", !.ok = TRUE, !.cart = Effect(r)])
    /\ IF r.kind = "order" THEN Unasked(Products) ELSE UNCHANGED asked
    /\ UNCHANGED <<client, sent, steppedBack, told, unheard>>

\* The line is gone, the stock is short, the total changed.
Refuse(r) ==
    /\ Turn(r) /\ r.kind # "keepalive"
    /\ Becomes(r, [r EXCEPT !.at = "done"])
    /\ UNCHANGED <<client, sent, line, history>>

\* A click this request carried is told to the visitor as failed, or has nobody left to tell.
AskedNoMore(r) == asked' = [p \in Products |-> IF p = r.product /\ asked[p] = r.quantity
                                               THEN None ELSE asked[p]]

\* A keepalive is refused or lost, and nobody reads the answer.
KeepaliveGone(r) ==
    /\ r \in wire /\ r.kind = "keepalive"
    /\ wire' = wire \ {r}
    /\ AskedNoMore(r)
    /\ UNCHANGED <<client, sent, line, steppedBack, told, unheard>>

\* The requests of a page that goes away are cancelled with it.
CancelledWithPage(r) ==
    /\ ~Alive /\ r \in wire /\ r.kind # "keepalive"
    /\ wire' = wire \ {r}
    /\ UNCHANGED <<client, sent, line, history>>

-----------------------------------------------------------------------------
(* The answers *)

\* Slip: an answer is stored whichever answer is already shown.
StoreAnyAnswer(r) == cart' = r.cart /\ applied' = r.ticket

\* The answer is stored unless a later one is shown already.
StoreAnswer(r) == IF r.ticket > applied THEN cart' = r.cart /\ applied' = r.ticket
                                        ELSE UNCHANGED <<cart, applied>>

\* Slip: a landed request drops the pending number whatever it is.
DropPending(r) == pending' = [pending EXCEPT ![r.product] = None]

\* A landed request drops the pending number if it is the one it carried.
ForgetIfCarried(r) == pending' = IF pending[r.product] = r.quantity
                                 THEN [pending EXCEPT ![r.product] = None] ELSE pending

\* The finally of a line's request.
QuantityLanded(r) ==
    /\ ForgetIfCarried(r)
    /\ newest' = IF newest[r.product] = r.ticket
                 THEN [newest EXCEPT ![r.product] = 0] ELSE newest

Landed(r) == wire' = wire \ {r}

AnswerOf(r) == Alive /\ r \in wire /\ r.at = "done" /\ r.ok

SetAnswered(r) ==
    /\ AnswerOf(r) /\ r.kind = "set"
    /\ Landed(r) /\ StoreAnswer(r) /\ QuantityLanded(r)
    /\ UNCHANGED <<armed, placing, awaited, anyFailed, page, sent, line, history>>

CartAnswered(r) ==
    /\ AnswerOf(r) /\ r.kind \in {"remove", "clear", "read"}
    /\ Landed(r) /\ StoreAnswer(r)
    /\ placing' = IF r.kind = "read" THEN "no" ELSE placing
    /\ UNCHANGED <<pending, armed, newest, awaited, anyFailed, page, sent, line, history>>

\* The order exists: the steps left belong to a cart that is gone.
OrderAnswered(r) ==
    /\ AnswerOf(r) /\ r.kind = "order"
    /\ Landed(r) /\ StoreAnswer(r) /\ Forget(Products)
    /\ placing' = "no"
    /\ UNCHANGED <<newest, awaited, anyFailed, page, sent, line, history>>

\* The call rejects: the server refused it, or the request or its answer was lost on the way.
FailureOf(r) == Alive /\ r \in wire /\ r.kind # "keepalive"

Unheard(r) == unheard' = IF r.ok /\ r.ticket > unheard THEN r.ticket ELSE unheard

SetFailed(r) ==
    /\ FailureOf(r) /\ r.kind = "set"
    /\ Landed(r) /\ QuantityLanded(r) /\ AskedNoMore(r) /\ Unheard(r)
    /\ anyFailed' = (anyFailed \/ r.ticket \in awaited)
    /\ told' = told \cup {p \in Products : placing = "settling" /\ newest[p] = r.ticket}
    /\ UNCHANGED <<armed, placing, awaited, cart, applied, page, sent, line, steppedBack>>

CartFailed(r) ==
    /\ FailureOf(r) /\ r.kind \in {"remove", "clear", "read"}
    /\ Landed(r) /\ Unheard(r)
    /\ placing' = IF r.kind = "read" THEN "no" ELSE placing
    /\ UNCHANGED <<pending, armed, newest, awaited, anyFailed, cart, applied, page, sent, line,
                   asked, steppedBack, told>>

\* Slip: a refused order leaves the page placing it.
StillPlacing == UNCHANGED placing

GivesUp == placing' = "no"

\* The refusal is reported, or the cart is read again first (total changed, server error).
OrderFailed(r) ==
    /\ FailureOf(r) /\ r.kind = "order"
    /\ Unheard(r)
    /\ \/ Landed(r) /\ GivesUp /\ UNCHANGED sent
       \/ /\ wire' = (wire \ {r}) \cup {Leaving("read", Whole, None, sent + 1)}
          /\ sent' = sent + 1
          /\ placing' = "rereading"
    /\ UNCHANGED <<pending, armed, newest, awaited, anyFailed, cart, applied, page, line,
                   asked, steppedBack, told>>

-----------------------------------------------------------------------------
Visitor == \/ \E p \in Products : StepQuantity(p) \/ RemoveLine(p)
           \/ HandleClearCart \/ Checkout \/ Unmount \/ PageHide

Served == \E r \in wire : Accept(r) \/ Refuse(r) \/ KeepaliveGone(r) \/ CancelledWithPage(r)

Heard == \E r \in wire : \/ SetAnswered(r) \/ CartAnswered(r) \/ OrderAnswered(r)
                         \/ SetFailed(r) \/ CartFailed(r) \/ OrderFailed(r)

Next == \/ SettleReturns
        \/ /\ ~Settled
           /\ Visitor \/ Heard \/ \E p \in Products : TimerFires(p)
        \/ Served

Spec == Init /\ [][Next]_vars

\* Timers run out once the clicks stop, the server or the transport's time limit answers every
\* request, and the browser runs what an answer set off.
Fairness == /\ \A p \in Products : WF_vars(~Settled /\ TimerFires(p))
            /\ WF_vars(Served) /\ WF_vars(~Settled /\ Heard)
            /\ WF_vars(SettleReturns)

FairSpec == Spec /\ Fairness

-----------------------------------------------------------------------------
(* Properties *)

\* Every variable holds a value of its kind, and no ticket is ahead of the dispenser.
TypeOK ==
    /\ pending \in Carts /\ armed \subseteq Products /\ newest \in [Products -> 0 .. sent]
    /\ placing \in {"no", "settling", "ordering", "rereading"}
    /\ awaited \subseteq Nat /\ anyFailed \in BOOLEAN
    /\ cart \in Carts /\ applied \in 0 .. sent /\ page \in {"open", "left", "hidden"}
    /\ sent \in Nat /\ wire \subseteq Request /\ line \in Carts
    /\ asked \in Carts /\ steppedBack \subseteq Products /\ told \subseteq Products
    /\ unheard \in Nat
    /\ \A r \in wire : r.ticket \in 1 .. sent

\* A number the page shows on the visitor's word is on its way to the server: its timer runs, or a
\* request that is still waited for carries exactly that number.  It is what makes quantityOf an
\* honest answer (use-line-quantity.ts): otherwise a line would show a number nobody sends.
StepOnItsWay ==
    \A p \in Products : pending[p] # None =>
        \/ p \in armed
        \/ \E r \in wire : /\ r.kind = "set" /\ r.product = p /\ r.quantity = pending[p]

\* The order is on the wire only once settle()'s promise is kept: no line has a step waiting, none
\* has its newest request unanswered, and none of those requests failed (Cart.vue, checkout).
OrderAfterItsSteps ==
    placing = "ordering" =>
        \A p \in Products : pending[p] = None /\ newest[p] = 0 /\ p \notin told

\* Nothing waits to be sent or answered.
Quiet == wire = {} /\ pending = Empty

\* The debounce loses no click: once all is quiet the server holds, for every line, the number the
\* visitor stopped on, whether the page stayed, was left or went away meanwhile, unless the line was
\* removed or ordered, or the visitor was told of a failure.  Left out are lines stepped back onto a
\* number an overtaken request still carries (LastClickKept).
LastClickLands ==
    Quiet => \A p \in Products \ steppedBack : asked[p] # None => line[p] = asked[p]

\* The same promise without that exception, as the composable's comments make it.
LastClickKept ==
    Quiet => \A p \in Products : asked[p] # None => line[p] = asked[p]

\* Once all is quiet the page shows the server's cart, in whatever order the answers came back,
\* unless the last thing the server did was never heard of (store.ts, takeCartSlot).
ScreenMatchesServer ==
    Quiet /\ page = "open" /\ unheard <= applied => cart = line

\* Every step is settled, and every checkout gives the steppers back.
EverythingSettles ==
    /\ \A p \in Products : pending[p] # None ~> pending[p] = None
    /\ placing # "no" ~> (placing = "no" \/ page = "hidden")
=============================================================================
