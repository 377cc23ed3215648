------------------------------ MODULE Wishlist ------------------------------
(***************************************************************************)
(* modules/wishlist/store.ts on the tickets of RequestTickets: the saved   *)
(* products of the person signed in, the one read all hearts share, and    *)
(* the move to the cart, which writes two stores.                          *)
(*                                                                         *)
(* A request leaves (Take), the API handles it, and its answer lands       *)
(* (Answered) or is lost or refused (Failed).  The API handles requests in *)
(* any order; `odd` follows whether what it did since can have escaped the *)
(* store.                                                                  *)
(***************************************************************************)
EXTENDS RequestTickets, Sequences, SequencesExt, FiniteSets

CONSTANTS Products,
          FirstLists,   \* what a person may have saved before
          NoRead,       \* no heart has asked
          MaxElsewhere, \* bound on what other devices remove
          MaxReads      \* bound on the cart reads in flight

ASSUME ListsOfProducts == FirstLists \subseteq SUBSET Products
ASSUME NoReadIsNoRequest == NoRead \notin Requests

VARIABLES
    saved,     \* the API's record: each person's saved products
    basket,    \* the API's record: the products in each person's cart
    call,      \* what each request in flight asks, and what the API made of it
    items,     \* the products the store holds
    loading,   \* the store's flag: set when a call leaves, reset when one comes back
    shared,    \* the request the hearts' shared read stands for, or NoRead
    cart,      \* the products the cart store holds
    cartReads, \* GET /cart in flight after a move, in the order they left
    odd,       \* history: the API did something no answer to come can tell
    moved,     \* history: a move of this person came back, and none has been lost since
    forgot,    \* history: a previous person's read failed, and the present one's was forgotten
    elsewhere  \* lines removed on other devices

client == <<items, loading, shared, cart, cartReads>>
history == <<odd, moved, forgot>>
wvars == <<vars, saved, basket, call, client, history, elsewhere>>

Kinds == {"read", "heart", "add", "remove", "move"}
Writes == {"add", "remove", "move"}

NoCall == [what |-> "read", product |-> {}, at |-> "idle", list |-> {}, doubt |-> FALSE]

WishlistInit ==
    /\ Init
    /\ saved \in [Persons -> FirstLists]
    /\ basket = [p \in Persons |-> {}]
    /\ call = [r \in Requests |-> NoCall]
    /\ items = {} /\ loading = FALSE /\ shared = NoRead
    /\ cart = {} /\ cartReads = <<>>
    /\ odd = FALSE /\ moved = FALSE /\ forgot = FALSE
    /\ elsewhere = 0

-----------------------------------------------------------------------------
(* A call leaves *)

(* replaceItems *)
replaceItems(r, what, product) ==
    /\ Take(r)
    /\ call' = [call EXCEPT ![r] = [NoCall EXCEPT !.what = what, !.product = product, !.at = "sent"]]
    /\ loading' = TRUE
    /\ UNCHANGED <<saved, basket, items, cart, cartReads, history, elsewhere>>

(* The wishlist's page asks whenever it is opened *)
fetchWishlist(r) == replaceItems(r, "read", {}) /\ UNCHANGED shared

(* Slip: every heart asks *)
AskedAnyway == TRUE

NobodyAsked == shared = NoRead

(* A heart is mounted: the first one's read serves them all *)
ensureWishlist(r) == NobodyAsked /\ replaceItems(r, "heart", {}) /\ shared' = r

(* A heart is pressed: what is saved leaves, everything else joins *)
Toggle(r, p) ==
    /\ ~loading
    /\ replaceItems(r, IF p \in items THEN "remove" ELSE "add", {p})
    /\ UNCHANGED shared

(* A line of the page is moved, or removed *)
PressLine(r, p, what) ==
    /\ ~loading /\ p \in items
    /\ replaceItems(r, what, {p})
    /\ UNCHANGED shared

-----------------------------------------------------------------------------
(* The API, as openapi.yaml describes it *)

(* A request of the same person that left later has been told already *)
Overtaken(r) ==
    \/ \E q \in Requests : /\ InFlight(q) /\ call[q].at = "done"
                           /\ claim[q].for = claim[r].for /\ claim[q].mine > claim[r].mine
    \/ claim[r].for = person /\ \E t \in arrived : t > claim[r].mine

InDoubt == [r \in Requests |-> IF InFlight(r) THEN [call[r] EXCEPT !.doubt = TRUE] ELSE call[r]]

(* A move of the person looking that no answer tells of *)
Unheard(r) == call[r].what = "move" /\ claim[r].for = person

(* The line goes from the wishlist once it is in the cart; it may fail between *)
Outcome(r, list, inCart, fails) ==
    LET who == claim[r].for
        strange == (call[r].what \in Writes /\ Overtaken(r)) \/ (fails /\ inCart # basket[who])
    IN  /\ saved' = [saved EXCEPT ![who] = list]
        /\ basket' = [basket EXCEPT ![who] = inCart]
        /\ call' = [IF strange THEN InDoubt ELSE call EXCEPT
                        ![r].at = IF fails THEN "refused" ELSE "done",
                        ![r].product = {}, ![r].list = IF fails THEN {} ELSE list]
        /\ odd' = (odd \/ strange)
        /\ moved' = (moved /\ ~(fails /\ inCart # basket[who] /\ Unheard(r)))
        /\ UNCHANGED <<vars, client, forgot, elsewhere>>

Handle(r) ==
    LET who == claim[r].for
        list == saved[who]
        product == call[r].product
        held == product \subseteq list
    IN  /\ InFlight(r) /\ call[r].at = "sent"
        /\ \/ call[r].what \in {"read", "heart"} /\ Outcome(r, list, basket[who], FALSE)
           \/ call[r].what = "add" /\ Outcome(r, list \cup product, basket[who], FALSE)
           \/ call[r].what = "remove" /\ Outcome(r, list \ product, basket[who], ~held)
           \/ call[r].what = "move" /\ held
              /\ Outcome(r, list \ product, basket[who] \cup product, FALSE)
           \/ call[r].what = "move" /\ Outcome(r, list, basket[who] \cup product, TRUE)
           \/ call[r].what = "move" /\ ~held /\ Outcome(r, list, basket[who], TRUE)

HandleCartRead(i) ==
    /\ cartReads[i].at = "sent"
    /\ cartReads' = [cartReads EXCEPT ![i].at = "done", ![i].list = basket[cartReads[i].for]]
    /\ UNCHANGED <<vars, saved, basket, call, items, loading, shared, cart, history, elsewhere>>

(* The same person removes a line on another device *)
Elsewhere(p) ==
    /\ elsewhere < MaxElsewhere /\ p \in saved[person]
    /\ elsewhere' = elsewhere + 1
    /\ saved' = [saved EXCEPT ![person] = @ \ {p}]
    /\ odd' = TRUE
    /\ call' = InDoubt
    /\ UNCHANGED <<vars, basket, client, moved, forgot>>

-----------------------------------------------------------------------------
(* An answer lands *)

(* Slip: what the answer names is added to what is shown *)
Joined(list) == items \cup list

Replaced(list) == list

(* Slip: the badge is left to the next read of the cart *)
NoRefetch == cartReads

(* fetchCart, for whoever is signed in by now *)
Refetched == Append(cartReads, [for |-> person, at |-> "sent", list |-> {}, dead |-> FALSE])

Lands(r) ==
    LET c == call[r] IN
    /\ c.at = "done"
    /\ c.what = "move" => Len(cartReads) < MaxReads
    /\ Answered(r)
    /\ items' = IF Wins(claim[r]) THEN Replaced(c.list) ELSE items
    /\ odd' = (odd /\ (~Wins(claim[r]) \/ c.doubt))
    /\ loading' = FALSE
    /\ cartReads' = IF c.what = "move" THEN Refetched ELSE cartReads
    /\ moved' = (moved \/ (c.what = "move" /\ IsSameEra(claim[r])))
    /\ call' = [call EXCEPT ![r] = NoCall]
    /\ UNCHANGED <<saved, basket, shared, cart, forgot, elsewhere>>

(* The shared read failed: the next heart asks again.  What it forgets may be another's read. *)
Forgets(r) == IF call[r].what = "heart" THEN NoRead ELSE shared

(* Refused, never handled, or the answer lost *)
Fails(r) ==
    /\ Failed(r)
    /\ shared' = Forgets(r)
    /\ forgot' = (forgot \/ (call[r].what = "heart" /\ ~IsSameEra(claim[r])))
    /\ LET unheard == call[r].at = "done" /\ call[r].what \in Writes
       IN  /\ odd' = (odd \/ unheard)
           /\ call' = [IF unheard THEN InDoubt ELSE call EXCEPT ![r] = NoCall]
           /\ moved' = (moved /\ ~(unheard /\ Unheard(r)))
    /\ loading' = FALSE
    /\ UNCHANGED <<saved, basket, items, cart, cartReads, elsewhere>>

(* replaceCart, under the cart's own tickets *)
CartReadLands(i) ==
    /\ cartReads[i].at = "done"
    /\ cart' = IF cartReads[i].dead THEN cart ELSE cartReads[i].list
    /\ cartReads' = RemoveAt([j \in DOMAIN cartReads |->
                                  [cartReads[j] EXCEPT !.dead = @ \/ j < i]], i)
    /\ UNCHANGED <<vars, saved, basket, call, items, loading, shared, history, elsewhere>>

CartReadFails(i) ==
    /\ cartReads' = RemoveAt(cartReads, i)
    /\ moved' = FALSE
    /\ UNCHANGED <<vars, saved, basket, call, items, loading, shared, cart, odd, forgot, elsewhere>>

(* Both stores forget the person who left *)
ViewerChanges(p) ==
    /\ Reset(p)
    /\ items' = {} /\ shared' = NoRead
    /\ cart' = {} /\ cartReads' = [j \in DOMAIN cartReads |-> [cartReads[j] EXCEPT !.dead = TRUE]]
    /\ odd' = FALSE /\ moved' = FALSE /\ forgot' = FALSE
    /\ UNCHANGED <<saved, basket, call, loading, elsewhere>>

WishlistNext ==
    \/ \E r \in Requests :
          \/ fetchWishlist(r) \/ ensureWishlist(r)
          \/ Handle(r) \/ Lands(r) \/ Fails(r)
          \/ \E p \in Products : Toggle(r, p) \/ PressLine(r, p, "remove") \/ PressLine(r, p, "move")
    \/ \E i \in DOMAIN cartReads : HandleCartRead(i) \/ CartReadLands(i) \/ CartReadFails(i)
    \/ \E p \in Products : Elsewhere(p)
    \/ \E p \in Persons : ViewerChanges(p)

WishlistSpec == WishlistInit /\ [][WishlistNext]_wvars

-----------------------------------------------------------------------------
(* Properties *)

Call == [what : Kinds, product : {{}} \cup {{p} : p \in Products},
         at : {"idle", "sent", "done", "refused"}, list : SUBSET Products, doubt : BOOLEAN]
CartRead == [for : Persons, at : {"sent", "done"}, list : SUBSET Products, dead : BOOLEAN]

WishlistTypeOK ==
    /\ TypeOK
    /\ saved \in [Persons -> SUBSET Products] /\ basket \in [Persons -> SUBSET Products]
    /\ call \in [Requests -> Call]
    /\ items \subseteq Products /\ cart \subseteq Products
    /\ shared \in Requests \cup {NoRead}
    /\ cartReads \in Seq(CartRead)
    /\ loading \in BOOLEAN /\ odd \in BOOLEAN /\ moved \in BOOLEAN /\ forgot \in BOOLEAN
    /\ elsewhere \in Nat

Quiet == cartReads = <<>> /\ \A r \in Requests : ~InFlight(r)

(* When all is quiet the hearts show what the API has, once an answer came:    *)
(* reads, presses and people may overlap as they like (store.ts 41-45).  Left  *)
(* out: lines removed on another device, lost answers, and requests the API    *)
(* handled in another order than they left, until a later answer tells.        *)
HeartsMatch == Quiet /\ arrived # {} /\ ~odd => items = saved[person]

(* When all is quiet after a move that came back, the cart store holds what    *)
(* the API's cart does (store.ts 23-24, 126-139), unless a later move or the   *)
(* reading of the cart failed: then nothing is read again.                     *)
BadgeFollowsMove == Quiet /\ moved => cart = basket[person]

(* However many hearts a page mounts, one of them reads (store.ts 62-66).      *)
OneReadForTheHearts ==
    ~forgot =>
        Cardinality({r \in Requests : InFlight(r) /\ call[r].what = "heart"
                                       /\ IsSameEra(claim[r])}) <= 1
=============================================================================
