------------------------------ MODULE Consent ------------------------------
(***************************************************************************)
(* Who agreed to be measured, and whether the trackers follow: one tab, a  *)
(* guest's cookie, the accounts' own answers, and Faro and Umami.          *)
(*                                                                         *)
(* The consent store (infrastructure/analytics-consent.ts) holds the       *)
(* guest's choice and the account's, the profile store                     *)
(* (modules/account/stores/profile.ts) reads and writes the account's, the *)
(* observability store (infrastructure/observability/store.ts) starts and  *)
(* stops the trackers.  Nobody watches the answers: each operation has to  *)
(* tell the trackers itself, and the model follows which of them do.  A    *)
(* call to the API leaves, is handled, and its answer lands, in any order. *)
(***************************************************************************)
EXTENDS Naturals, Sequences, SequencesExt

CONSTANTS Persons,   \* those who have an account
          Nobody,    \* a guest, or no session
          MaxCalls,  \* bound on the calls in flight at once
          MaxInputs  \* bound on what visitors, other tabs and the network do

ASSUME NobodyIsNoPerson == Nobody \notin Persons
ASSUME ConsentBoundsNat == MaxCalls \in Nat /\ MaxInputs \in Nat

VARIABLES
    owner,   \* whose session the browser's cookies hold, the isAuth hint with them
    saved,   \* the API's record: each account's answer
    choice,  \* the guest's answer, in the store and its cookie
    account, \* accountChoice
    page,    \* this page's hasSession, viewer, profile store and its settled sync
    umami,   \* the tracker's script is there and its opt-out is not set
    faro,    \* Faro's transport, and faroConsent
    calls,   \* GET and PATCH /account in flight, in the order they left
    word,    \* history: the last button each visitor pressed
    unheard, \* history: whose last press the API was never told, or in another order, or an answer
             \* out of place let the guest's cross over
    tangled, \* history: the trackers were last told something out of place
    inputs   \* inputs so far

vars == <<owner, saved, choice, account, page, umami, faro, calls, word, unheard, tangled, inputs>>
trackers == <<umami, faro>>
person == <<owner, saved>>
history == <<word, unheard>>

Visitors == Persons \cup {Nobody}
Answers == {"unknown", "granted", "denied"}
Buttons == {"granted", "denied"}
Calls == [what : {"read", "reread", "write"}, as : Visitors, value : Answers,
          done : BOOLEAN, stale : BOOLEAN, passed : BOOLEAN]

(* Each value is of its kind. *)
TypeOK ==
    /\ owner \in Visitors /\ saved \in [Persons -> Answers]
    /\ choice \in Answers /\ account \in Answers
    /\ page \in [held : BOOLEAN, viewer : BOOLEAN, store : {"absent", "empty", "loaded"},
                 settled : BOOLEAN]
    /\ umami \in BOOLEAN
    /\ faro \in [transport : {"absent", "loading", "sending", "paused"}, consent : BOOLEAN]
    /\ calls \in Seq(Calls) /\ Len(calls) <= MaxCalls
    /\ word \in [Visitors -> Answers] /\ unheard \subseteq Visitors
    /\ tangled \in BOOLEAN /\ inputs \in 0..MaxInputs

-----------------------------------------------------------------------------
(* The trackers *)

(* A grant boots Faro once, or unpauses it; a withdrawal pauses what is there *)
GrantedTo(transport) ==
    CASE transport = "absent" -> "loading"
      [] transport = "paused" -> "sending"
      [] OTHER -> transport
WithdrawnFrom(transport) == IF transport = "sending" THEN "paused" ELSE transport

setFaroConsent(granted) ==
    faro' = [consent |-> granted,
             transport |-> IF granted THEN GrantedTo(faro.transport)
                           ELSE WithdrawnFrom(faro.transport)]

(* setUmamiConsent, in a build that asks *)
setUmamiConsent(granted) == umami' = granted

Tell(granted) == setUmamiConsent(granted) /\ setFaroConsent(granted)

(* Slip: a boot that lets the transport send, as it was asked to when it began *)
BootedAsAsked(consent) == "sending"

(* Faro's code has come: what was asked meanwhile applies *)
Booted(consent) == IF consent THEN "sending" ELSE "paused"

FaroLoads ==
    /\ faro.transport = "loading"
    /\ faro' = [faro EXCEPT !.transport = Booted(faro.consent)]
    /\ UNCHANGED <<person, choice, account, page, umami, calls, history, tangled, inputs>>

(* The download fails: the next grant tries again *)
FaroFails ==
    /\ faro.transport = "loading" /\ inputs < MaxInputs
    /\ faro' = [faro EXCEPT !.transport = "absent"]
    /\ inputs' = inputs + 1
    /\ UNCHANGED <<person, choice, account, page, umami, calls, history, tangled>>

-----------------------------------------------------------------------------
(* The answers *)

isAuth == page.held /\ page.viewer

(* The answer that applies, of the account's and the guest's *)
effective(ofAccount, ofGuest) == IF ofAccount = "unknown" THEN ofGuest ELSE ofAccount

(* awaitingAccountAnswer *)
Awaiting(ofAccount, session) == ofAccount = "unknown" /\ session

(* Slip: an account's answer is not waited for *)
MayStartAtOnce(ofAccount, ofGuest, session) == effective(ofAccount, ofGuest) = "granted"

MayStart(ofAccount, ofGuest, session) ==
    effective(ofAccount, ofGuest) = "granted" /\ ~Awaiting(ofAccount, session)

(* syncTracker, with a session held or hinted at *)
syncTracker(ofAccount, ofGuest, session) == Tell(MayStart(ofAccount, ofGuest, session))

HasSessionOrHint == page.held \/ owner # Nobody

Credential == IF page.held THEN owner ELSE Nobody

Call(what, value) ==
    [what |-> what, as |-> Credential, value |-> value,
     done |-> FALSE, stale |-> FALSE, passed |-> FALSE]

Room == Len(calls) < MaxCalls

(* recordGuestChoice *)
RecordedBy(value) == IF account # "unknown" \/ isAuth THEN choice ELSE value

(* What $onAction sends: nothing without a profile store, or before it knows whose it is *)
Persisted(value) ==
    IF isAuth /\ page.store = "loaded" THEN <<Call("write", value)>> ELSE <<>>

(* grant and deny, on the banner or through the footer's link *)
Press(value) ==
    /\ inputs < MaxInputs /\ Room
    /\ choice' = RecordedBy(value)
    /\ syncTracker(account, choice', HasSessionOrHint)
    /\ calls' = calls \o Persisted(value)
    /\ LET whose == IF isAuth THEN owner ELSE Nobody
           kept == IF isAuth THEN Persisted(value) # <<>> ELSE ~tangled
       IN  /\ word' = [word EXCEPT ![whose] = value]
           /\ unheard' = IF kept THEN unheard \ {whose} ELSE unheard \cup {whose}
    /\ inputs' = inputs + 1
    /\ UNCHANGED <<person, account, page, tangled>>

-----------------------------------------------------------------------------
(* The account's record *)

(* fetchProfile, by the profile page *)
OpenProfile ==
    /\ isAuth /\ inputs < MaxInputs /\ Room
    /\ page' = [page EXCEPT !.store = IF @ = "absent" THEN "empty" ELSE @]
    /\ calls' = Append(calls, Call("read", "unknown"))
    /\ inputs' = inputs + 1
    /\ UNCHANGED <<person, choice, account, trackers, history, tangled>>

(* Slip: at every read *)
CrossesAgain(ofAccount) == ofAccount = "unknown" /\ choice # "unknown"

(* syncGuestAnalyticsConsent: the guest's answer crosses over, once, to an account never asked *)
Crosses(ofAccount) == ~page.settled /\ ofAccount = "unknown" /\ choice # "unknown"

(* The record is here: the trackers and the account's answer follow it *)
Load(value, rest) ==
    /\ Tell(value = "granted")
    /\ account' = value
    /\ page' = [held |-> page.held, viewer |-> TRUE, store |-> "loaded",
                settled |-> page.settled \/ Crosses(value)]
    /\ calls' = IF Crosses(value) THEN Append(rest, Call("write", choice)) ELSE rest

IsRead(j) == calls[j].what # "write"

(* A write leaves behind the answers already given, and the writes that left before it *)
PassedByWrite(i) ==
    [j \in DOMAIN calls |->
        [calls[j] EXCEPT !.passed = @ \/ (IF IsRead(j) THEN calls[j].done ELSE j < i)]]

(* An answer that lands leaves behind the reads that left before it *)
PassedByAnswer(i) ==
    [j \in DOMAIN calls |-> [calls[j] EXCEPT !.passed = @ \/ (IsRead(j) /\ j < i)]]

(* The API handles a call made with a session *)
Handle(i) ==
    LET c == calls[i]
    IN  /\ ~c.done /\ c.as # Nobody
        /\ \/ /\ ~IsRead(i)
              /\ saved' = [saved EXCEPT ![c.as] = c.value]
              /\ calls' = [PassedByWrite(i) EXCEPT ![i].done = TRUE]
              /\ unheard' = IF c.passed \/ c.stale THEN unheard \cup {c.as} ELSE unheard
           \/ /\ IsRead(i)
              /\ calls' = [calls EXCEPT ![i].done = TRUE, ![i].value = saved[c.as]]
              /\ UNCHANGED <<saved, unheard>>
        /\ UNCHANGED <<owner, choice, account, page, trackers, word, tangled, inputs>>

WriteLands(i) ==
    LET c == calls[i]
    IN  /\ c.done /\ ~IsRead(i)
        /\ page' = [page EXCEPT !.viewer = TRUE]
        /\ calls' = Append(RemoveAt(calls, i), Call("reread", "unknown"))
        /\ tangled' = (tangled \/ c.stale)
        /\ UNCHANGED <<person, choice, account, trackers, history, inputs>>

(* Whose session it is now is not asked: an answer of an earlier one, or one a write has left    *)
(* behind, makes the guest's answer cross over to whoever is here *)
CrossedOver(c) == IF Crosses(c.value) /\ (tangled \/ c.stale \/ c.passed)
                  THEN {Credential} \cap Persons ELSE {}

ReadLands(i) ==
    LET c == calls[i]
    IN  /\ c.done /\ IsRead(i)
        /\ Load(c.value, RemoveAt(PassedByAnswer(i), i))
        /\ unheard' = unheard \cup CrossedOver(c)
        /\ tangled' = (c.stale \/ c.passed)
        /\ UNCHANGED <<person, choice, word, inputs>>

(* A call fails, or its answer is lost.  A failed press is a line in the console. *)
Fail(i) ==
    LET c == calls[i]
    IN  /\ c.as = Nobody \/ inputs < MaxInputs
        /\ inputs' = IF c.as = Nobody THEN inputs ELSE inputs + 1
        /\ calls' = RemoveAt(calls, i)
        /\ unheard' = IF c.what = "write" /\ ~c.done THEN unheard \cup {c.as} ELSE unheard
        /\ tangled' = (tangled \/ c.what = "reread" \/ (c.what = "write" /\ c.done))
        /\ UNCHANGED <<person, choice, account, page, trackers, word>>

-----------------------------------------------------------------------------
(* The session *)

Stale == [j \in DOMAIN calls |-> [calls[j] EXCEPT !.stale = TRUE]]

(* login: the answer carries the account, and is read as if just fetched *)
SignIn(p) ==
    /\ owner = Nobody /\ ~isAuth /\ inputs < MaxInputs /\ Room
    /\ owner' = p
    /\ Tell(saved[p] = "granted")
    /\ account' = saved[p]
    /\ page' = [held |-> TRUE, viewer |-> TRUE, store |-> "loaded",
                settled |-> page.settled \/ Crosses(saved[p])]
    /\ calls' = IF Crosses(saved[p])
                THEN Append(Stale, [Call("write", choice) EXCEPT !.as = p]) ELSE Stale
    /\ tangled' = FALSE
    /\ inputs' = inputs + 1
    /\ UNCHANGED <<saved, choice, history>>

(* signup sets cookies only; the form may carry an answer *)
SignUp(p) ==
    /\ owner = Nobody /\ ~isAuth /\ saved[p] = "unknown" /\ inputs < MaxInputs
    /\ owner' = p
    /\ \E value \in {"unknown", "granted"} : saved' = [saved EXCEPT ![p] = value]
    /\ calls' = Stale /\ tangled' = TRUE /\ inputs' = inputs + 1
    /\ UNCHANGED <<choice, account, page, trackers, history>>

(* Another tab signed somebody in; this one re-reads the session, not the profile *)
OtherTabSignsIn(p) ==
    /\ owner = Nobody /\ inputs < MaxInputs
    /\ owner' = p
    /\ calls' = Stale /\ tangled' = TRUE /\ inputs' = inputs + 1
    /\ UNCHANGED <<saved, choice, account, page, trackers, history>>

(* restoreFromCookies, by a navigation or by that re-read *)
Restore ==
    /\ owner # Nobody /\ ~page.held
    /\ page' = [page EXCEPT !.held = TRUE]
    /\ UNCHANGED <<person, choice, account, trackers, calls, history, tangled, inputs>>

(* loadViewer: what the shell needs of the account, its answer not included *)
LoadViewer ==
    /\ page.held /\ ~page.viewer
    /\ page' = [page EXCEPT !.viewer = TRUE]
    /\ UNCHANGED <<person, choice, account, trackers, calls, history, tangled, inputs>>

Forgotten(store) == [page EXCEPT !.held = FALSE, !.viewer = FALSE, !.store = store]

(* logout reached the API: the record and its answer go, and the trackers are told *)
SignOut ==
    /\ isAuth /\ inputs < MaxInputs
    /\ owner' = Nobody
    /\ page' = Forgotten("empty")
    /\ account' = "unknown"
    /\ syncTracker(account', choice, FALSE)
    /\ calls' = Stale /\ tangled' = FALSE /\ inputs' = inputs + 1
    /\ UNCHANGED <<saved, choice, history>>

(* It did not: the session goes all the same, and nothing that was to follow happens *)
SignOutFails ==
    /\ isAuth /\ inputs < MaxInputs
    /\ owner' = Nobody
    /\ page' = Forgotten(page.store)
    /\ calls' = Stale /\ tangled' = TRUE /\ inputs' = inputs + 1
    /\ UNCHANGED <<saved, choice, account, trackers, history>>

(* endLocalSession, after the API ended every session; a guest may follow a reset link, too *)
EndLocalSession ==
    /\ inputs < MaxInputs
    /\ account' = "unknown"
    /\ syncTracker(account', choice, HasSessionOrHint)
    /\ owner' = Nobody
    /\ page' = Forgotten("empty")
    /\ calls' = Stale /\ tangled' = FALSE /\ inputs' = inputs + 1
    /\ UNCHANGED <<saved, choice, history>>

(* signalExpired: a profile store that is there drops the record; nobody tells the trackers *)
Expires ==
    /\ owner # Nobody /\ inputs < MaxInputs
    /\ owner' = Nobody
    /\ IF page.store = "absent"
       THEN page' = Forgotten("absent") /\ UNCHANGED account
       ELSE page' = Forgotten("empty") /\ account' = "unknown"
    /\ calls' = Stale /\ tangled' = TRUE /\ inputs' = inputs + 1
    /\ UNCHANGED <<saved, choice, trackers, history>>

(* signalIdle, or another tab's sign-out: the session goes and nothing else does *)
EndsElsewhere ==
    /\ owner # Nobody /\ inputs < MaxInputs
    /\ owner' = Nobody
    /\ page' = Forgotten(page.store)
    /\ calls' = Stale /\ tangled' = TRUE /\ inputs' = inputs + 1
    /\ UNCHANGED <<saved, choice, account, trackers, history>>

(* main.ts: a fresh page, told by the cookies alone.  Its calls are gone, handled or not. *)
Boot ==
    /\ inputs < MaxInputs
    /\ account' = "unknown"
    /\ page' = [held |-> FALSE, viewer |-> FALSE, store |-> "absent", settled |-> FALSE]
    /\ LET granted == MayStart("unknown", choice, owner # Nobody)
       IN  /\ umami' = granted
           /\ faro' = [consent |-> granted,
                       transport |-> IF granted THEN "loading" ELSE "absent"]
    /\ calls' = <<>>
    /\ unheard' = unheard \cup {calls[i].as : i \in {j \in DOMAIN calls :
                                        calls[j].what = "write" /\ ~calls[j].done}}
    /\ tangled' = FALSE /\ inputs' = inputs + 1
    /\ UNCHANGED <<person, choice, word>>

-----------------------------------------------------------------------------
(* A first visit, to a shop whose accounts may have answered elsewhere *)
Init ==
    /\ owner = Nobody /\ saved \in [Persons -> Answers]
    /\ choice = "unknown" /\ account = "unknown"
    /\ page = [held |-> FALSE, viewer |-> FALSE, store |-> "absent", settled |-> FALSE]
    /\ umami = FALSE /\ faro = [transport |-> "absent", consent |-> FALSE]
    /\ calls = <<>>
    /\ word = [v \in Visitors |-> "unknown"] /\ unheard = {}
    /\ tangled = FALSE /\ inputs = 0

Next ==
    \/ FaroLoads \/ FaroFails
    \/ \E value \in Buttons : Press(value)
    \/ OpenProfile
    \/ \E i \in DOMAIN calls : Handle(i) \/ WriteLands(i) \/ ReadLands(i) \/ Fail(i)
    \/ \E p \in Persons : SignIn(p) \/ SignUp(p) \/ OtherTabSignsIn(p)
    \/ Restore \/ LoadViewer
    \/ SignOut \/ SignOutFails \/ EndLocalSession \/ Expires \/ EndsElsewhere
    \/ Boot

Spec == Init /\ [][Next]_vars

-----------------------------------------------------------------------------
(* Properties *)

Quiet == calls = <<>>
Tracking == umami \/ faro.transport = "sending"
OwnAnswer == IF owner = Nobody THEN choice ELSE saved[owner]

(* Faro sends nothing that the last answer it was told of forbids, whatever    *)
(* was pressed while its code was on its way (store.ts 243-249, 352-354: a     *)
(* withdrawal that lands while Faro is loading wins).                          *)
FaroFollows == faro.transport = "sending" => faro.consent

(* When all is quiet, whoever is measured said yes: a guest on the banner, a   *)
(* signed-in person in the account (analytics-consent.ts 134-140: a granted    *)
(* guest cookie must not boot a tracker for an account that declined).  Left   *)
(* out, and listed in the README: sessions that end without a word to the      *)
(* trackers, sign-ups, sign-ins of another tab, answers that land after their  *)
(* session or behind a younger one, and a re-read that fails.                  *)
NobodyMeasuredUnasked == Quiet /\ ~tangled /\ Tracking => OwnAnswer = "granted"

(* When all is quiet, what each visitor pressed last is what is on record, in  *)
(* the guest's cookie or in the account: no answer that crossed over and no    *)
(* older press stands over it (profile.ts 126-131, umami.md 46-49).  Left out: *)
(* presses that reached no API, or reached it in another order, and whose      *)
(* account an answer out of place let the guest's choice cross over to.        *)
LastWordIsOnRecord ==
    Quiet => \A v \in Visitors \ unheard :
                 word[v] # "unknown" => word[v] = IF v = Nobody THEN choice ELSE saved[v]

-----------------------------------------------------------------------------
(* Refuted, and kept for the record: see the README *)

(* A signed-in visitor's press is sent to the API (umami.md 49). *)
PressIsSent == [][\A value \in Buttons : Press(value) /\ isAuth => Len(calls') > Len(calls)]_vars

(* Pages are reported only of those who said yes (analytics-consent.ts 148-156). *)
Reports == effective(account, choice) = "granted"
BrowsingIsAgreedTo == Quiet /\ ~tangled /\ Reports => OwnAnswer = "granted"

(* The guest's header goes with no request of a signed-in visitor (interceptors.ts 73-75). *)
HeaderIsTheGuests == ~page.held /\ choice = "granted" => owner = Nobody

(* After a sign-out or a deletion the guest's answer applies again (umami.md 50). *)
GuestsAnswerAppliesAgain ==
    Quiet /\ owner = Nobody /\ ~tangled /\ choice = "granted" => umami /\ faro.consent

=============================================================================
