------------------------------ MODULE EditForm ------------------------------
(***************************************************************************)
(* The product edit form and the conditional writes under it.              *)
(*                                                                         *)
(* ProductEdit.vue reads the product, fills the form from what it read     *)
(* (never while a save is in flight, nor from the content it was filled    *)
(* from last) and saves the whole form.  Below it                          *)
(* http/etag.ts remembers, for the whole tab, the version each path last   *)
(* answered with, and sends it as If-Match; the server refuses a save of an*)
(* older version with 412.  The form lives as long as its page; the tags   *)
(* outlive it, and every answer about the same path moves them: the public *)
(* product page reads the path the edit form writes.  The page can pass    *)
(* from one product to another without being built again.                  *)
(***************************************************************************)
EXTENDS Integers, FiniteSets

CONSTANTS Products,    \* the products
          NoProduct,   \* no product
          Texts,       \* what a product may say: all that the form holds of it
          NoText,      \* nothing was read
          MaxVisits,   \* bound on the pages opened and the actions taken outside the form
          MaxPresses,  \* bound on the saves and reloads pressed
          MaxChanges   \* bound on the saves of other people

ASSUME NothingIsNoProduct == NoProduct \notin Products /\ NoText \notin Texts
ASSUME FormBoundsNat == MaxVisits \in Nat /\ MaxPresses \in Nat /\ MaxChanges \in Nat

VARIABLES
    editing,    \* whether an edit form is on screen
    mount,      \* how many edit forms have been built; the last is the one on screen
    id,         \* the product each form was last routed to
    record,     \* adminProduct: the product the form on screen read last, as it was
    held,       \* the content the form was last filled from
    form,       \* the row the form accounts for: the one it showed last, or was told it had saved
    stale,      \* whether "someone else changed it" is showing
    tags,       \* etag.ts: the version last seen per product; 0 when none is held
    wire,       \* the calls under way
    row,        \* the server's version of each product, and its content
    visits,     \* pages opened so far
    presses,    \* presses so far
    changes,    \* saves of other people so far
    overwritten,\* history: products saved over a change the form had never shown
    misfiled,   \* history: products saved with the content of another
    tangled     \* history: what went on that the tag cannot see

page == <<editing, mount, id>>
shown == <<record, held, form, stale>>
budget == <<visits, presses, changes>>
past == <<overwritten, misfiled>>
formVars == <<page, shown, tags, wire, row, budget, past, tangled>>

Copy == [id : Products \cup {NoProduct}, at : Nat, text : Texts \cup {NoText}]
NoCopy == [id |-> NoProduct, at |-> 0, text |-> NoText]
Row == [at : Nat, text : Texts]
Kinds == {"read", "reread", "look", "act", "preview", "patch"}
Statuses == {"sent", "done", "stale"}
Mixups == {"crossed", "untagged", "reverted", "misdelivered", "unread", "alike", "switched"}
Call == [kind : Kinds, id : Products, visit : Nat, mount : Nat, body : Copy, ifMatch : Nat,
         answer : Copy, status : Statuses]

FormInit ==
    /\ editing = FALSE /\ mount = 0 /\ id = [m \in 1 .. MaxVisits |-> NoProduct]
    /\ record = NoCopy /\ held = NoText /\ form = NoCopy /\ stale = FALSE
    /\ tags = [p \in Products |-> 0] /\ wire = {} /\ row \in [Products -> [at : {1}, text : Texts]]
    /\ visits = 0 /\ presses = 0 /\ changes = 0
    /\ overwritten = {} /\ misfiled = {} /\ tangled = {}

-----------------------------------------------------------------------------
(* The pages *)

Calling(kind, p, m) == [kind |-> kind, id |-> p, visit |-> visits, mount |-> m, body |-> NoCopy,
                        ifMatch |-> 0, answer |-> NoCopy, status |-> "sent"]

OnScreen(m) == editing /\ mount = m
Submits(calls) == \E c \in calls : OnScreen(c.mount) /\ c.kind \in {"preview", "patch", "reread"}
Loading == \E c \in wire : c.kind \in {"read", "reread"}

Visit == visits < MaxVisits /\ visits' = visits + 1

\* A form that is built, or gone, shows nothing.
Blank == record' = NoCopy /\ held' = NoText /\ form' = NoCopy /\ stale' = FALSE

\* An edit form is built, and reads its product.
OpenEdit(p) == /\ Visit /\ ~editing
               /\ editing' = TRUE /\ mount' = mount + 1 /\ id' = [id EXCEPT ![mount + 1] = p]
               /\ Blank
               /\ wire' = wire \cup {Calling("read", p, mount + 1)}
               /\ UNCHANGED <<tags, row, presses, changes, past, tangled>>

\* The route moves to another product and the form stays: it reads again, and forgets nothing.
Switch(p) == /\ Visit /\ editing /\ p # id[mount]
             /\ id' = [id EXCEPT ![mount] = p]
             /\ wire' = wire \cup {Calling("read", p, mount)}
             /\ tangled' = tangled \cup (IF Submits(wire) \/ stale THEN {"switched"} ELSE {})
             /\ UNCHANGED <<editing, mount, shown, tags, row, presses, changes, past>>

\* The form goes, with what it showed; what it was waiting for goes on.
Leave == /\ editing /\ editing' = FALSE /\ Blank
         /\ UNCHANGED <<mount, id, tags, wire, row, budget, past, tangled>>

\* Elsewhere: the product page reads the same path, an action of the list (delete, restore) writes it.
Elsewhere(p, kind) == /\ Visit /\ ~editing
                      /\ wire' = wire \cup {Calling(kind, p, 0)}
                      /\ UNCHANGED <<page, shown, tags, row, presses, changes, past, tangled>>

\* Slip: the button does not wait for the read.
PressedAnyTime == presses < MaxPresses /\ presses' = presses + 1 /\ editing /\ ~Submits(wire)

\* The form's buttons wait for its reads and its save.
Pressed == presses < MaxPresses /\ presses' = presses + 1 /\ editing /\ ~Submits(wire) /\ ~Loading

\* Save: the whole form, whatever was typed over what it showed, once the questions about a moved
\* date are answered.
Submit(text) ==
          /\ Pressed /\ form.id # NoProduct /\ stale' = FALSE
          /\ wire' = wire \cup {[Calling("preview", id[mount], mount) EXCEPT
                                     !.body = [form EXCEPT !.text = text]]}
          /\ UNCHANGED <<page, record, held, form, tags, row, visits, changes, past, tangled>>

\* "Reload latest", offered beside the warning.
ReloadLatest == /\ Pressed /\ stale /\ stale' = FALSE
                /\ wire' = wire \cup {Calling("read", id[mount], mount)}
                /\ UNCHANGED <<page, record, held, form, tags, row, visits, changes, past, tangled>>

-----------------------------------------------------------------------------
(* The server and the network *)

\* The row of a product at its next version.
Moves(p, text) == row' = [row EXCEPT ![p] = [at |-> @.at + 1, text |-> text]]

\* Somebody else saves the product: something new, or something it said before.
OthersSave(p, text) ==
    /\ changes < MaxChanges /\ changes' = changes + 1 /\ text # row[p].text
    /\ Moves(p, text)
    /\ UNCHANGED <<page, shown, tags, wire, visits, presses, past, tangled>>

\* The call is answered, with the row as it is once the call was handled when all went well.
Answer(c, status) ==
    wire' = (wire \ {c}) \cup
                {[c EXCEPT !.status = status,
                           !.answer = IF status = "done"
                                      THEN [id |-> c.id, at |-> row'[c.id].at, text |-> row'[c.id].text]
                                      ELSE NoCopy]}

AnswersRead(c) ==
    /\ c.status = "sent" /\ c.kind \in {"read", "reread", "look"}
    /\ UNCHANGED row /\ Answer(c, "done")
    /\ UNCHANGED <<page, shown, tags, budget, past, tangled>>

Acts(c) == /\ c.status = "sent" /\ c.kind = "act"
           /\ Moves(c.id, row[c.id].text) /\ Answer(c, "done")
           /\ UNCHANGED <<page, shown, tags, budget, past, tangled>>

\* The save is conditional on the version it names, when it names one.
Saves(c) ==
    /\ c.status = "sent" /\ c.kind = "patch" /\ c.ifMatch \in {0, row[c.id].at}
    /\ Moves(c.id, c.body.text) /\ Answer(c, "done")
    /\ overwritten' = IF c.body.id = c.id /\ c.body.at < row[c.id].at
                      THEN overwritten \cup {c.id} ELSE overwritten
    /\ misfiled' = IF c.body.id # c.id THEN misfiled \cup {c.id} ELSE misfiled
    /\ UNCHANGED <<page, shown, tags, budget, tangled>>

\* 412: the row is not at the version named.
Rejects(c) == /\ c.status = "sent" /\ c.kind = "patch" /\ c.ifMatch \notin {0, row[c.id].at}
              /\ UNCHANGED row /\ Answer(c, "stale")
              /\ UNCHANGED <<page, shown, tags, budget, past, tangled>>

\* Refused or lost on the way in, or done and its answer lost on the way back: the page hears no
\* more of it than that it failed.
Fails(c) == c.status \in {"sent", "done"} /\ wire' = wire \ {c}

-----------------------------------------------------------------------------
(* Answers *)

\* holdWhileSubmitting and the toolkit's hydration: a record of changed content fills the form, once
\* no save of this form is among the calls still out.
Hydrate(calls) == IF Submits(calls) \/ record'.text = held
                  THEN UNCHANGED <<held, form>>
                  ELSE held' = record'.text /\ form' = record'

\* What is read is the content the form was filled from last: nothing fills it again.
NoNews(c) == OnScreen(c.mount) /\ ~Submits(wire \ {c}) /\ c.answer.text = held

\* The form accounts for it all the same when it is still what the form accounts for.
Accounts(c) == form.id = c.id /\ form.text = c.answer.text

\* The tag is moved, by an answer it did not ask for, under a form on screen or a save about to leave.
Crosses(c, version) ==
    \/ editing /\ c.mount # mount /\ form.id = c.id /\ form.at # version
    \/ \E d \in wire : /\ d.kind = "preview" /\ c.mount # d.mount
                      /\ d.body.id = c.id /\ d.body.at # version

\* onEtagResponse: the version the resource answered with.
KeepsTag(c) == tags' = [tags EXCEPT ![c.id] = c.answer.at]

\* A read lands: the tag for everybody, the record for the form that asked.
RecordLands(c) ==
    /\ c.kind \in {"read", "reread", "look"} /\ c.status = "done"
    /\ wire' = wire \ {c} /\ KeepsTag(c)
    /\ record' = IF OnScreen(c.mount) THEN c.answer ELSE record
    /\ IF NoNews(c) /\ Accounts(c) THEN form' = record' /\ UNCHANGED held ELSE Hydrate(wire')
    /\ tangled' = tangled \cup (IF Crosses(c, c.answer.at) THEN {"crossed"} ELSE {})
                          \cup (IF OnScreen(c.mount) /\ c.id # id[mount] THEN {"misdelivered"} ELSE {})
                          \cup (IF NoNews(c) /\ ~Accounts(c)
                                THEN {IF form.id = c.id THEN "reverted" ELSE "alike"} ELSE {})
    /\ UNCHANGED <<page, stale, row, budget, past>>

\* A read fails: the form stays as it was.
ReadFails(c) ==
    /\ c.kind \in {"read", "reread", "look"} /\ Fails(c)
    /\ UNCHANGED record /\ Hydrate(wire')
    /\ tangled' = tangled \cup (IF OnScreen(c.mount) /\ form.id \notin {NoProduct, c.id} THEN {"unread"} ELSE {})
    /\ UNCHANGED <<page, stale, tags, row, budget, past>>

\* An action answers no version: the tag is dropped.
ActLands(c) ==
    /\ c.kind = "act" /\ c.status = "done"
    /\ wire' = wire \ {c} /\ tags' = [tags EXCEPT ![c.id] = 0]
    /\ tangled' = IF Crosses(c, 0) THEN tangled \cup {"untagged"} ELSE tangled
    /\ UNCHANGED <<page, shown, row, budget, past>>

\* An action fails: the tag stays.
ActFails(c) == /\ c.kind = "act" /\ Fails(c)
               /\ UNCHANGED <<page, shown, tags, row, budget, past, tangled>>

\* Slip: every save is unconditional.
NoTag(p) == 0

\* onEtagRequest: the version held for the path as the save leaves.
IfMatch(p) == tags[p]

\* The questions are answered with yes, or cannot be asked: the save goes to the product the form
\* is routed to now.
SaveLeaves(c) ==
    /\ c.kind = "preview"
    /\ wire' = (wire \ {c}) \cup {[c EXCEPT !.kind = "patch", !.id = id[c.mount],
                                            !.ifMatch = IfMatch(id[c.mount])]}
    /\ UNCHANGED <<page, shown, tags, row, budget, past, tangled>>

\* They are answered with no.
SaveWithdrawn(c) == /\ c.kind = "preview" /\ wire' = wire \ {c}
                    /\ UNCHANGED record /\ Hydrate(wire')
                    /\ UNCHANGED <<page, stale, tags, row, budget, past, tangled>>

\* Saved: the form is told of the row it has become; the product is read again.
SaveLands(c) ==
    /\ c.kind = "patch" /\ c.status = "done"
    /\ KeepsTag(c)
    /\ wire' = (wire \ {c}) \cup {[c EXCEPT !.kind = "reread", !.id = id[c.mount], !.body = NoCopy,
                                            !.ifMatch = 0, !.answer = NoCopy, !.status = "sent"]}
    /\ form' = IF OnScreen(c.mount) /\ form.id = c.id
               THEN [form EXCEPT !.at = c.answer.at, !.text = c.body.text] ELSE form
    /\ tangled' = IF Crosses(c, c.answer.at) THEN tangled \cup {"crossed"} ELSE tangled
    /\ UNCHANGED <<page, record, held, stale, row, budget, past>>

\* Not saved: a 412 says so and offers the latest; anything else blocks the form in place.
SaveFails(c) ==
    /\ c.kind = "patch" /\ (Fails(c) \/ (c.status = "stale" /\ wire' = wire \ {c}))
    /\ UNCHANGED record /\ Hydrate(wire')
    /\ stale' = IF OnScreen(c.mount) THEN c.status = "stale" ELSE stale
    /\ UNCHANGED <<page, tags, row, budget, past, tangled>>

FormNext ==
    \/ Leave \/ ReloadLatest
    \/ \E text \in Texts : Submit(text) \/ \E p \in Products : OthersSave(p, text)
    \/ \E p \in Products : \/ OpenEdit(p) \/ Switch(p)
                           \/ \E kind \in {"look", "act"} : Elsewhere(p, kind)
    \/ \E c \in wire : \/ AnswersRead(c) \/ Acts(c) \/ Saves(c) \/ Rejects(c)
                       \/ RecordLands(c) \/ ReadFails(c) \/ ActLands(c) \/ ActFails(c)
                       \/ SaveLeaves(c) \/ SaveWithdrawn(c) \/ SaveLands(c) \/ SaveFails(c)

FormSpec == FormInit /\ [][FormNext]_formVars

-----------------------------------------------------------------------------
(* Properties *)

\* The variables keep their types, and a call belongs to a form that was built.
FormTypeOK ==
    /\ editing \in BOOLEAN /\ mount \in 0 .. visits /\ id \in [1 .. MaxVisits -> Products \cup {NoProduct}]
    /\ record \in Copy /\ held \in Texts \cup {NoText} /\ form \in Copy /\ stale \in BOOLEAN
    /\ tags \in [Products -> Nat] /\ wire \subseteq Call /\ row \in [Products -> Row]
    /\ visits \in 0 .. MaxVisits /\ presses \in 0 .. MaxPresses /\ changes \in 0 .. MaxChanges
    /\ overwritten \subseteq Products /\ misfiled \subseteq Products /\ tangled \subseteq Mixups
    /\ \A c \in wire : c.mount \in 0 .. mount

\* http/etag.ts, "the server refuses with 412 when someone else changed the record in between": no
\* save goes over a change its form had never shown.
NothingOverwritten == overwritten = {}

\* The same, unless the tag was moved or dropped under the form by an answer to another page, the
\* content the form was filled from came back after a save of it was answered
\* (use-hold-while-submitting.ts: "unchanged whenever the record's content is"), so that the read
\* which moved the tag filled nothing, or the form passed to another product in the middle of a save.
OnlyTheTagOverwrites ==
    tangled \cap {"crossed", "untagged", "reverted", "switched"} = {} => NothingOverwritten

\* ProductEdit.vue:208, "re-reads the admin record, which re-hydrates the form", and
\* use-stale-record.ts:31, "Discards the local edit for the server's copy": a read of the product the
\* form is of leaves it accounting for what was read.
ReadRefills ==
    [][\A c \in wire : (RecordLands(c) /\ OnScreen(c.mount) /\ ~Submits(wire \ {c}) /\ form.id = c.id)
                            => form' = c.answer]_formVars

\* products/store.ts fetchProductForEdit, "the screen someone is actively editing must show the row
\* as it is now": no product is saved with the content of another.
SavedWhereItBelongs == misfiled = {}

\* The same, unless the read of the product routed to failed, a read of the one before landed last,
\* the two say the same, so that the read filled nothing, or the form passed to another product in
\* the middle of a save.
OnlyALateReadMisfiles ==
    tangled \cap {"misdelivered", "unread", "alike", "switched"} = {} => SavedWhereItBelongs

\* The same, unless the form passed to another product in the middle of a save.
OnlyASwitchMisfiles == "switched" \notin tangled => SavedWhereItBelongs
=============================================================================
