----------------------------- MODULE GuestCart -----------------------------
(***************************************************************************)
(* A signed-out visitor's cart in one tab, and its merge into the server's *)
(* cart once somebody signs in.                                            *)
(*                                                                         *)
(* composables/use-guest-cart.ts keeps the list of lines, saved in         *)
(* localStorage on every change, and beside it the merge call still        *)
(* waiting for a conclusive answer (attempt): the Idempotency-Key and the  *)
(* lines it carried.  store.ts sends the merge when a session appears      *)
(* (seedAfterSignIn), replays a lost one first (lostMergeToReplay) and     *)
(* settles the answers (sendMerge).  A page load keeps the list and the    *)
(* attempt and loses every caller.  The server, external, remembers the    *)
(* outcome of every key it handled, per person, and answers a repeat from  *)
(* that record.                                                            *)
(***************************************************************************)
EXTENDS Integers, FiniteSets

CONSTANTS Products,  \* the products a guest may put in the cart
          Persons,   \* who may sign in
          Nobody,    \* no one is signed in
          LineCap,   \* MAX_GUEST_LINE_QUANTITY
          MaxAdded,  \* bound on the units a product is given
          MaxVisits  \* bound on sign-ins, departures and page loads

ASSUME NobodyIsNoPerson == Nobody \notin Persons
ASSUME BoundsNat == LineCap \in Nat /\ MaxAdded \in Nat /\ MaxVisits \in Nat

VARIABLES
    lines,    \* the guest's list: units of each product, 0 for no line
    attempt,  \* the saved merge attempt; key 0 when there is none
    viewer,   \* who is signed in on this tab
    minted,   \* the last key minted
    wire,     \* the merge calls under way, those whose page is gone included
    record,   \* the server's record of the keys it has handled
    visits,   \* sign-ins, departures and page loads so far
    barrier,  \* history: the last key minted when a person last left
    added,    \* history: the units put into the list since then
    given,    \* history: the units that left it since then by a decision, not a merge
    merged,   \* history: the units of it the server's carts took over
    tangled   \* history: what went on that makes the key or the list no longer the call's own

guest == <<lines, attempt, viewer, minted>>
counts == <<barrier, added, given, merged>>
history == <<counts, tangled>>
vars == <<guest, wire, record, visits, history>>

Lines == [Products -> 0 .. LineCap]
Empty == [p \in Products |-> 0]
NoAttempt == [key |-> 0, lines |-> Empty]
Attempts == [key : Nat, lines : Lines]

\* A merge call: who it is sent as, whether it replays a lost one, whose flow it belongs to
\* ("current" person's, an "earlier" one's, "gone" once nobody waits for it), and its answer.
Call == [key : Nat, lines : Lines, person : Persons \cup {Nobody}, replay : BOOLEAN,
         caller : {"current", "earlier", "gone"},
         answer : {"none", "merged", "fault", "refused", "turnedAway"}]
Outcome == [key : Nat, lines : Lines, person : Persons, answer : {"merged", "fault", "refused"}]
Mixups == {"lateAnswer", "turnedAway", "inherited"}

Init == /\ lines = Empty /\ attempt = NoAttempt /\ viewer = Nobody /\ minted = 0
        /\ wire = {} /\ record = {} /\ visits = 0
        /\ barrier = 0 /\ added = Empty /\ given = Empty /\ merged = Empty /\ tangled = {}

\* One list and another, product by product.
Plus(a, b) == [p \in Products |-> a[p] + b[p]]

\* What is left of a list once the sent lines came off it; never less than no line.
subtractGuestLines(list, sent) ==
    [p \in Products |-> IF list[p] > sent[p] THEN list[p] - sent[p] ELSE 0]

-----------------------------------------------------------------------------
(* The guest's edits: only while nobody is signed in on this tab. *)

Edit(list) == /\ viewer = Nobody
              /\ lines' = list
              /\ UNCHANGED <<attempt, viewer, minted, wire, record, visits, barrier, merged, tangled>>

\* A line grows, or starts; at its cap it stays.
addGuestItem(p) ==
    /\ lines[p] < LineCap /\ added[p] < MaxAdded
    /\ Edit([lines EXCEPT ![p] = @ + 1])
    /\ added' = [added EXCEPT ![p] = @ + 1]
    /\ UNCHANGED given

\* The stepper down; one unit is the least a line holds.
updateGuestItem(p) ==
    /\ lines[p] > 1
    /\ Edit([lines EXCEPT ![p] = @ - 1])
    /\ given' = [given EXCEPT ![p] = @ + 1]
    /\ UNCHANGED added

\* Lines dropped: one, or all of them when the cart is emptied.
removeGuestItems(S) ==
    /\ \E p \in S : lines[p] > 0
    /\ Edit([p \in Products |-> IF p \in S THEN 0 ELSE lines[p]])
    /\ given' = [p \in Products |-> IF p \in S THEN given[p] + lines[p] ELSE given[p]]
    /\ UNCHANGED added

-----------------------------------------------------------------------------
(* Sending: each operator says what the attempt, the keys and the wire become. *)

\* Whether the server may know the key from somebody else.
KnownFromAnother(key, person) == \E r \in record \cup wire : r.key = key /\ r.person # person

\* A new call: a new key, saved with its lines.
FreshKeyFor(list) == /\ minted' = minted + 1
                     /\ attempt' = [key |-> minted + 1, lines |-> list]

\* The same lines travel under the key they were sent under, others under a new one.
mergeKeyFor(list) == IF attempt # NoAttempt /\ attempt.lines = list
                     THEN UNCHANGED <<attempt, minted>>
                     ELSE FreshKeyFor(list)

Sent(key, list, person, replay, caller) ==
    [key |-> key, lines |-> list, person |-> person, replay |-> replay,
     caller |-> caller, answer |-> "none"]

\* An unanswered merge of other lines than the list holds now.
LostMergeToReplay == attempt # NoAttempt /\ attempt.lines # lines

\* The call leaves under the saved key, beside the calls already out.
Send(list, person, replay, calls) ==
    /\ wire' = calls \cup {Sent(attempt'.key, list, person, replay, "current")}
    /\ tangled' = IF KnownFromAnother(attempt'.key, person)
                  THEN tangled \cup {"inherited"} ELSE tangled

\* Slip: the lost call's key carries what the list holds now.
ReplayWithTheList(person, calls) == UNCHANGED <<attempt, minted>> /\ Send(lines, person, TRUE, calls)

\* The lost call again, under its own key and with its own lines.
ReplayLost(person, calls) == /\ UNCHANGED <<attempt, minted>>
                             /\ Send(attempt.lines, person, TRUE, calls)

\* The merge of what is stored: the lost call again if there is one, the list otherwise.
mergeGuestCart(person, calls) ==
    IF LostMergeToReplay
    THEN ReplayLost(person, calls)
    ELSE mergeKeyFor(lines) /\ Send(lines, person, FALSE, calls)

\* A session appeared on a page whose calls are these: merge, or read the badge's summary only.
seedAfterSignIn(person, calls) ==
    IF person = Nobody \/ lines = Empty
    THEN wire' = calls /\ UNCHANGED <<attempt, minted, tangled>>
    ELSE mergeGuestCart(person, calls)

-----------------------------------------------------------------------------
(* People and page loads *)

Handed(from, to) == {IF c.caller \in from THEN [c EXCEPT !.caller = to] ELSE c : c \in wire}

Visit == visits < MaxVisits /\ visits' = visits + 1

SignIn(person) == /\ Visit /\ viewer = Nobody
                  /\ viewer' = person
                  /\ seedAfterSignIn(person, wire)
                  /\ UNCHANGED <<lines, record, counts>>

\* The person leaves, or another takes the tab over: the store's reset.
SignOut(next) ==
    /\ Visit /\ viewer # Nobody /\ next # viewer
    /\ viewer' = next
    /\ lines' = Empty /\ attempt' = NoAttempt
    /\ barrier' = minted /\ added' = Empty /\ given' = Empty /\ merged' = Empty
    /\ wire' = Handed({"current"}, "earlier")
    /\ UNCHANGED <<minted, record, tangled>>

\* The page loads again; the session is restored, or turns out to have ended meanwhile.
Reload(restored) ==
    /\ Visit /\ restored \in {viewer, Nobody}
    /\ viewer' = restored
    /\ seedAfterSignIn(restored, Handed({"current", "earlier"}, "gone"))
    /\ UNCHANGED <<lines, record, counts>>

-----------------------------------------------------------------------------
(* The server, and the network *)

Answer(c, answer) == wire' = (wire \ {c}) \cup {[c EXCEPT !.answer = answer]}

Handled(c) == {r \in record : r.key = c.key /\ r.person = c.person}

\* The key is known: the recorded outcome again.
Replays(c) == /\ c.answer = "none"
              /\ \E r \in Handled(c) : Answer(c, r.answer)
              /\ UNCHANGED <<guest, record, visits, history>>

\* The key is new: the call is worked on, and its outcome recorded.
Handles(c, answer) ==
    /\ c.answer = "none" /\ c.person # Nobody /\ Handled(c) = {}
    /\ Answer(c, answer)
    /\ record' = record \cup
          {[key |-> c.key, lines |-> c.lines, person |-> c.person, answer |-> answer]}
    /\ merged' = IF answer = "merged" /\ c.key > barrier THEN Plus(merged, c.lines) ELSE merged
    /\ UNCHANGED <<guest, visits, barrier, added, given, tangled>>

\* A 4xx that is no word on the lines: too many requests, a key still being worked on, no session.
TurnsAway(c) == /\ c.answer = "none"
                /\ Answer(c, "turnedAway")
                /\ UNCHANGED <<guest, record, visits, history>>

\* No answer, or a gateway's 5xx: a retryable failure, which keeps the list and the attempt.  The
\* call may still reach the server.
GivesUp(c) == /\ c.caller # "gone"
              /\ wire' = (wire \ {c}) \cup {[c EXCEPT !.caller = "gone"]}
              /\ UNCHANGED <<guest, record, visits, history>>

-----------------------------------------------------------------------------
(* Answers: sendMerge *)

\* What a landing does to the histories: an earlier person's answer that still changes something,
\* and an attempt that ends although its call was or may be applied.
MayBeApplied(key, others) == \/ \E r \in record : r.key = key /\ r.answer = "merged"
                             \/ \E d \in others : d.key = key /\ d.answer = "none"

Mixed(c) ==
    (IF c.caller = "earlier" /\ <<lines', attempt'>> # <<lines, attempt>>
     THEN {"lateAnswer"} ELSE {})
    \cup (IF c.answer = "turnedAway" /\ attempt # NoAttempt /\ MayBeApplied(attempt.key, wire \ {c})
          THEN {"turnedAway"} ELSE {})

Lands(c) == c.answer # "none" /\ c.caller # "gone"

\* Slip: the list is emptied, whatever was put into it meanwhile.
EmptiedBy(sent) == Empty

\* What the call carried leaves the list.
TakenBy(sent) == subtractGuestLines(lines, sent)

\* The server took the lines: they leave the list and the attempt is over.  After a replay, what
\* is left goes in a second call under a key of its own.
MergeLands(c) ==
    /\ Lands(c) /\ c.answer = "merged"
    /\ lines' = TakenBy(c.lines)
    /\ IF c.replay /\ lines' # Empty
       THEN /\ FreshKeyFor(lines')
            /\ wire' = (wire \ {c}) \cup {Sent(attempt'.key, lines', viewer, FALSE, c.caller)}
       ELSE attempt' = NoAttempt /\ wire' = wire \ {c} /\ UNCHANGED minted
    /\ tangled' = tangled \cup Mixed(c)
    /\ UNCHANGED <<viewer, record, visits, counts>>

\* A 400, 413 or 422: these lines will never be taken, and are dropped.
RefusalLands(c) ==
    /\ Lands(c) /\ c.answer = "refused"
    /\ lines' = TakenBy(c.lines) /\ attempt' = NoAttempt
    /\ wire' = wire \ {c}
    /\ given' = Plus(given, [p \in Products |-> lines[p] - lines'[p]])
    /\ tangled' = tangled \cup Mixed(c)
    /\ UNCHANGED <<viewer, minted, record, visits, barrier, added, merged>>

\* Any other 4xx: the list stays, the attempt is over.
TurnedAwayLands(c) ==
    /\ Lands(c) /\ c.answer = "turnedAway"
    /\ attempt' = NoAttempt
    /\ wire' = wire \ {c}
    /\ UNCHANGED lines
    /\ tangled' = tangled \cup Mixed(c)
    /\ UNCHANGED <<viewer, minted, record, visits, counts>>

\* A 5xx: the list and the attempt stay.
FaultLands(c) ==
    /\ Lands(c) /\ c.answer = "fault"
    /\ wire' = wire \ {c}
    /\ UNCHANGED <<guest, record, visits, history>>

Next ==
    \/ \E p \in Products : addGuestItem(p) \/ updateGuestItem(p)
    \/ \E S \in SUBSET Products : removeGuestItems(S)
    \/ \E person \in Persons : SignIn(person)
    \/ \E next \in Persons \cup {Nobody} : SignOut(next)
    \/ \E restored \in Persons \cup {Nobody} : Reload(restored)
    \/ \E c \in wire :
          \/ Replays(c)
          \/ \E answer \in {"merged", "fault", "refused"} : Handles(c, answer)
          \/ TurnsAway(c) \/ GivesUp(c)
          \/ MergeLands(c) \/ RefusalLands(c) \/ TurnedAwayLands(c) \/ FaultLands(c)

Spec == Init /\ [][Next]_vars

-----------------------------------------------------------------------------
(* Properties *)

\* The variables keep their types and nothing counts below zero.
TypeOK == /\ lines \in Lines /\ attempt \in Attempts
          /\ viewer \in Persons \cup {Nobody} /\ minted \in Nat
          /\ wire \subseteq Call /\ record \subseteq Outcome
          /\ visits \in Nat /\ barrier \in Nat
          /\ added \in [Products -> Nat] /\ given \in [Products -> Nat]
          /\ merged \in [Products -> Nat] /\ tangled \subseteq Mixups

\* A key never travels with two different lists: the server would refuse the second (422) and,
\* since that refusal drops the lines, they would be gone.
KeyMeansOneBody == \A c, d \in wire \cup record : c.key = d.key => c.lines = d.lines

\* docs/modules/cart.md, "nothing is merged twice".  Whatever calls are lost, replayed or left
\* behind by a page load, the server's carts never take over a unit the guest did not put in,
\* unless one of the three mix-ups happened that the code has no answer to.
MergedOnce == tangled = {} => \A p \in Products : merged[p] <= added[p]

\* "... and nothing the guest did is lost": a unit put into the list is in it still, is in a
\* server's cart, or left on the guest's or the server's word, unless an answer of an earlier
\* session landed on the list.
NothingLost == "lateAnswer" \notin tangled => \A p \in Products : added[p] <= lines[p] + merged[p] + given[p]

\* docs/modules/cart.md says the first without any exception.
NothingMergedTwice == \A p \in Products : merged[p] <= added[p]

\* ... and the second.
NothingTheGuestDidIsLost == \A p \in Products : added[p] <= lines[p] + merged[p] + given[p]
=============================================================================
