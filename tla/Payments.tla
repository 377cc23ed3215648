------------------------------ MODULE Payments ------------------------------
(***************************************************************************)
(* The payment behind an order: paying, refunding, and what a press under  *)
(* an Idempotency-Key does when its answer is lost, refused, or asks for   *)
(* the password first.                                                     *)
(*                                                                         *)
(* modules/payments/store.ts keeps one payment, the last any call read, and*)
(* a key per operation and order (http/idempotency.ts): kept while the     *)
(* attempt may still be running, dropped on any answer.  A refund the API  *)
(* challenges is parked behind the one password prompt and sent again      *)
(* (http/step-up.ts).  The order page reads the payment as it opens; its   *)
(* controls act on the one in the store and wait for no call to be out.    *)
(* The server, external, records the outcome of every key.                 *)
(***************************************************************************)
EXTENDS Integers, FiniteSets

CONSTANTS Orders,      \* the orders with a payment
          None,        \* no order
          MaxPresses,  \* bound on the presses of pay and refund
          MaxTurns     \* bound on the pages opened and loaded

ASSUME NoneIsNoOrder == None \notin Orders
ASSUME BoundsNat == MaxPresses \in Nat /\ MaxTurns \in Nat

VARIABLES
    page,      \* the order whose page is open
    payment,   \* the store's payment: its order, and how many refunds it lists
    key,       \* the key of each operation and order; 0 when the next press mints one
    minted,    \* the last key minted
    wire,      \* the calls under way, those nobody waits for included
    refunded,  \* the server's refunds of each order
    record,    \* the server's record of the keys it has handled
    presses,   \* presses so far
    turns,     \* pages opened and loaded so far
    undecided, \* history: the key of an attempt whose answer never came; 0 for none
    blind,     \* history: the orders refunded by a press that had not seen every earlier refund
    seen,      \* history: the most refunds of each order shown since the page loaded
    tangled    \* history: what went on that a key or a read cannot mend

screen == <<page, payment>>
keys == <<key, minted>>
server == <<refunded, record>>
budget == <<presses, turns>>
past == <<undecided, blind, seen>>
vars == <<screen, keys, wire, server, budget, past, tangled>>

Ops == {"refund", "confirm"}
Kinds == Ops \cup {"show", "intent", "totals", "again"}
Outcomes == {"done", "refused", "fault"}
Statuses == Outcomes \cup {"sent", "parked", "read", "inFlight", "turnedAway", "lost"}
Mixups == {"masked", "turnedAway", "intent", "unread", "outrun", "reloaded"}

Payment == [order : Orders \cup {None}, refunded : Nat]
NoPayment == [order |-> None, refunded |-> 0]
Call == [kind : Kinds, order : Orders, key : Nat, at : Nat, saw : Nat, proved : BOOLEAN,
         here : BOOLEAN, status : Statuses, refunded : Nat]
Outcome == [kind : Ops, order : Orders, key : Nat, answer : Outcomes]
NoKeys == [op \in Ops |-> [o \in Orders |-> 0]]
NoRefunds == [o \in Orders |-> 0]

Init == /\ page = None /\ payment = NoPayment /\ key = NoKeys /\ minted = 0 /\ wire = {}
        /\ refunded = NoRefunds /\ record = {} /\ presses = 0 /\ turns = 0
        /\ undecided = NoKeys /\ blind = {} /\ seen = NoRefunds /\ tangled = {}

-----------------------------------------------------------------------------
(* The pages *)

Calling(kind, order, k, at) ==
    [kind |-> kind, order |-> order, key |-> k, at |-> at, saw |-> payment.refunded,
     proved |-> FALSE, here |-> TRUE, status |-> "sent", refunded |-> 0]

\* The page of an order opens, or is come back to, over whatever payment the store still holds,
\* and reads its own; what was under way goes on.
Open(o) == /\ turns < MaxTurns /\ turns' = turns + 1
           /\ page' = o
           /\ wire' = wire \cup {Calling("show", o, 0, turns + 1)}
           /\ UNCHANGED <<payment, keys, server, presses, past, tangled>>

Orphans(calls) == {[c EXCEPT !.here = FALSE] : c \in {d \in calls : d.kind \in Ops /\ d.status = "sent"}}

\* The page loads again: the payment and every key were in memory only.
Reload == /\ turns < MaxTurns /\ turns' = turns + 1
          /\ page # None
          /\ payment' = NoPayment /\ key' = NoKeys /\ undecided' = NoKeys /\ seen' = NoRefunds
          /\ wire' = Orphans(wire) \cup {Calling("show", page, 0, turns + 1)}
          /\ tangled' = tangled \cup {"reloaded"}
          /\ UNCHANGED <<page, minted, server, presses, blind>>

\* Every control waits for the store's calls (the ref-counted loading flag).
Live == page # None /\ \A c \in wire : ~c.here

Pressed == presses < MaxPresses /\ presses' = presses + 1

\* forSubject and withKey: the operation's key for this order, minted on its first use.
WithKey(op, o) == IF key[op][o] # 0
                  THEN UNCHANGED keys
                  ELSE /\ minted' = minted + 1
                       /\ key' = [key EXCEPT ![op][o] = minted + 1]

\* Refund: the payment in the store, whoever's page is open.
PressRefund == /\ Live /\ Pressed /\ payment.order # None
               /\ WithKey("refund", payment.order)
               /\ wire' = wire \cup {Calling("refund", payment.order, key'["refund"][payment.order], turns)}
               /\ UNCHANGED <<screen, server, turns, past, tangled>>

\* Pay: the intent first.
PressPay == /\ Live /\ Pressed
            /\ wire' = wire \cup {Calling("intent", page, 0, turns)}
            /\ UNCHANGED <<screen, keys, server, turns, past, tangled>>

-----------------------------------------------------------------------------
(* The server, the network, and the password prompt *)

Answer(c, status) ==
    wire' = (wire \ {c}) \cup (IF c.here THEN {[c EXCEPT !.status = status, !.refunded = refunded'[c.order]]}
                               ELSE {})

Handled(c) == {r \in record : r.kind = c.kind /\ r.order = c.order /\ r.key = c.key}
Due(c) == c.status = "sent" /\ c.kind \in Ops /\ Handled(c) = {}
Records(c, answer) ==
    record' = record \cup {[kind |-> c.kind, order |-> c.order, key |-> c.key, answer |-> answer]}

\* What was asked is done; a fault may still hide it.
Executes(c, answer) ==
    /\ Due(c) /\ Records(c, answer)
    /\ IF c.kind = "refund"
       THEN /\ refunded' = [refunded EXCEPT ![c.order] = @ + 1]
            /\ blind' = IF c.saw < refunded[c.order] THEN blind \cup {c.order} ELSE blind
       ELSE UNCHANGED <<refunded, blind>>
    /\ Answer(c, answer)
    /\ UNCHANGED <<screen, keys, budget, undecided, seen, tangled>>

\* A verdict, and nothing done.
Refuses(c, answer) == /\ Due(c) /\ Records(c, answer)
                      /\ UNCHANGED refunded /\ Answer(c, answer)
                      /\ UNCHANGED <<screen, keys, budget, past, tangled>>

\* What a call meets without reaching its own handler: its recorded outcome, an attempt of the
\* same key still running, a refusal at the door, or a demand for the password (refunds only).
Meets(c, status) ==
    /\ c.status = "sent"
    /\ \/ \E r \in Handled(c) : status = r.answer
       \/ /\ status = "inFlight" /\ c.kind \in Ops
          /\ \E d \in wire \ {c} : d.kind = c.kind /\ d.key = c.key /\ d.status = "sent"
       \/ status = "turnedAway" /\ c.kind \in Ops
       \/ status = "parked" /\ c.kind = "refund" /\ ~c.proved /\ c.here
       \/ status \in {"read", "fault"} /\ c.kind \notin Ops
       \/ status = "refused" /\ c.kind = "intent"
    /\ UNCHANGED refunded /\ Answer(c, status)
    /\ UNCHANGED <<screen, keys, record, budget, past, tangled>>

\* The connection is lost, on the way in or on the way back.
Loses(c) == /\ c.here /\ c.status \notin {"parked", "lost"}
            /\ wire' = (wire \ {c}) \cup {[c EXCEPT !.status = "lost"]} \cup Orphans({c})
            /\ UNCHANGED <<screen, keys, server, budget, past, tangled>>

\* The password is proved: the parked request goes out once more, under its own key.
Proves(c) == /\ c.status = "parked"
             /\ wire' = (wire \ {c}) \cup {[c EXCEPT !.status = "sent", !.proved = TRUE]}
             /\ UNCHANGED <<screen, keys, server, budget, past, tangled>>

\* The prompt is closed: the challenge is the answer.
Dismisses(c) == /\ c.status = "parked"
                /\ wire' = (wire \ {c}) \cup {[c EXCEPT !.status = "turnedAway"]}
                /\ UNCHANGED <<screen, keys, server, budget, past, tangled>>

-----------------------------------------------------------------------------
(* Answers *)

Lands(c, kinds) == c.here /\ c.kind \in kinds /\ c.status \notin {"sent", "parked"}
FollowedBy(c, kinds) ==
    wire' = (wire \ {c}) \cup {[Calling(kind, c.order, 0, c.at) EXCEPT !.saw = c.saw] : kind \in kinds}
Shows(c) == /\ payment' = [order |-> c.order, refunded |-> c.refunded]
            /\ seen' = [seen EXCEPT ![c.order] = IF @ < c.refunded THEN c.refunded ELSE @]
            /\ tangled' = tangled \cup (IF c.refunded < seen[c.order] THEN {"outrun"} ELSE {})

\* A payment read is shown, whichever order is open and whatever is shown already: an answer
\* that took long covers a newer one.
ReadLands(c) == /\ Lands(c, {"show", "totals", "again"}) /\ c.status = "read"
                /\ Shows(c) /\ FollowedBy(c, {})
                /\ UNCHANGED <<page, keys, server, budget, undecided, blind>>

\* Nothing is shown; the totals after a refund are asked for again after a 5xx.
ReadFails(c) == /\ Lands(c, {"show", "totals", "again"}) /\ c.status # "read"
                /\ FollowedBy(c, IF c.kind = "totals" /\ c.status = "fault" THEN {"again"} ELSE {})
                /\ tangled' = tangled \cup (IF c.kind = "show" THEN {} ELSE {"unread"})
                /\ UNCHANGED <<screen, keys, server, budget, past>>

\* What the store is told: a replay that fails is reported as the challenge that parked it.
Verdict(c) == IF c.proved /\ c.status # "done" THEN "turnedAway" ELSE c.status

\* Slip: a lost connection is an answer.
NeverKeeps(verdict) == FALSE

\* keepsIdempotencyKey: the attempt may still be running, or never arrived.
Keeps(verdict) == verdict \in {"lost", "inFlight"}

Settle(op, o, verdict) ==
    key' = IF Keeps(verdict) THEN key ELSE [key EXCEPT ![op][o] = 0]

\* Whether the attempt's outcome is known to the page: only the server's own word decides.
Decides(c) ==
    undecided' = CASE c.status = "lost" -> [undecided EXCEPT ![c.kind][c.order] = c.key]
                   [] c.status \in Outcomes -> [undecided EXCEPT ![c.kind][c.order] = 0]
                   [] OTHER -> undecided

\* Slip: a fault is a failure like any other.
NeverRereads(verdict) == {{}}

\* rereadAfterFault: the write may have landed; so may another's, says one of the refusals.
Rereads(verdict) == CASE verdict = "fault" -> {{"again"}}
                      [] verdict = "refused" -> {{}, {"again"}}
                      [] OTHER -> {{}}

\* The intent is there: the confirm leaves under its key.  Otherwise the press is over, and its
\* failure settles the confirm's key.
IntentLands(c) ==
    /\ Lands(c, {"intent"})
    /\ IF c.status = "read"
       THEN /\ WithKey("confirm", c.order)
            /\ wire' = (wire \ {c}) \cup {[Calling("confirm", c.order, key'["confirm"][c.order], c.at)
                                              EXCEPT !.saw = c.saw]}
            /\ UNCHANGED tangled
       ELSE /\ Settle("confirm", c.order, c.status) /\ UNCHANGED minted
            /\ \E kinds \in Rereads(c.status) : FollowedBy(c, kinds)
            /\ tangled' = IF undecided["confirm"][c.order] # 0 /\ ~Keeps(c.status)
                          THEN tangled \cup {"intent"} ELSE tangled
    /\ UNCHANGED <<screen, server, budget, past>>

\* It worked: a confirm answers the payment, a refund is followed by a read of it.
Succeeds(c) ==
    /\ Lands(c, Ops) /\ c.status = "done"
    /\ Settle(c.kind, c.order, c.status) /\ Decides(c)
    /\ IF c.kind = "confirm" THEN Shows(c) /\ FollowedBy(c, {})
                             ELSE UNCHANGED <<payment, seen, tangled>> /\ FollowedBy(c, {"totals"})
    /\ UNCHANGED <<page, minted, server, budget, blind>>

\* It did not, or so the page is told.
Fails(c) ==
    /\ Lands(c, Ops) /\ c.status # "done"
    /\ Settle(c.kind, c.order, Verdict(c)) /\ Decides(c)
    /\ \E kinds \in Rereads(Verdict(c)) : FollowedBy(c, kinds)
    /\ tangled' = tangled
          \cup (IF c.proved /\ c.status # "turnedAway" THEN {"masked"} ELSE {})
          \cup (IF c.status = "turnedAway" /\ undecided[c.kind][c.order] # 0 THEN {"turnedAway"} ELSE {})
    /\ UNCHANGED <<screen, minted, server, budget, blind, seen>>

Next ==
    \/ \E o \in Orders : Open(o)
    \/ Reload \/ PressRefund \/ PressPay
    \/ \E c \in wire :
          \/ \E answer \in {"done", "fault"} : Executes(c, answer)
          \/ \E answer \in {"refused", "fault"} : Refuses(c, answer)
          \/ \E status \in Statuses : Meets(c, status)
          \/ Loses(c) \/ Proves(c) \/ Dismisses(c)
          \/ ReadLands(c) \/ ReadFails(c) \/ IntentLands(c) \/ Succeeds(c) \/ Fails(c)

Spec == Init /\ [][Next]_vars

-----------------------------------------------------------------------------
(* Properties *)

\* The variables keep their types, and no key is ahead of its mint.
TypeOK == /\ page \in Orders \cup {None} /\ payment \in Payment
          /\ key \in [Ops -> [Orders -> 0 .. minted]] /\ minted \in Nat
          /\ wire \subseteq Call
          /\ refunded \in [Orders -> Nat] /\ record \subseteq Outcome
          /\ presses \in 0 .. MaxPresses /\ turns \in 0 .. MaxTurns
          /\ undecided \in [Ops -> [Orders -> 0 .. minted]] /\ blind \subseteq Orders
          /\ seen \in [Orders -> Nat] /\ tangled \subseteq Mixups

\* http/idempotency.ts, "keep it only while the first attempt may still be running or never
\* arrived": an attempt whose outcome the page never learned is repeated under its own key.
LostAttemptKeepsKey ==
    \A op \in Ops, o \in Orders : undecided[op][o] # 0 => key[op][o] = undecided[op][o]

\* The same, unless the step-up's replay hid the loss, a refusal met the retry at the door, or the
\* intent's own failure settled the confirm's key.
LostAttemptKeepsKeyElse ==
    tangled \cap {"masked", "turnedAway", "intent"} = {} => LostAttemptKeepsKey

\* store.ts, rereadAfterFault, "the write may have landed before the 500": no refund is made by a
\* press that had not seen all the earlier ones, through losses, faults and retries, unless one of
\* the reads that would have shown them failed or was covered by an older answer, or a mix-up other
\* than the intent's dropped the key.
NoBlindRefund == tangled \subseteq {"intent"} => blind = {}

\* use-order-refund.ts, "the refund controls just stay hidden without it": whenever a control can
\* be pressed, the payment it acts on is the one of the order on the page.
ControlsMatchPage == Live => payment.order \in {page, None}
=============================================================================
