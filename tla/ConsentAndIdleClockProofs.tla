---------------------- MODULE ConsentAndIdleClockProofs ----------------------
(***************************************************************************)
(* Two small components side by side, as MCConsentAndIdleClock runs them.  *)
(* What Consent guarantees for any number of persons, calls and inputs:    *)
(* its values keep their kinds, and Faro sends nothing that the last       *)
(* answer it was told of forbids (IInv); and, from what the calls on their *)
(* way may still bring (NInv), when all is quiet nobody is measured who    *)
(* did not agree, and everybody's last word is on record.                  *)
(* Then what IdleClock guarantees for any number of tabs, sessions,        *)
(* requests and seconds: types first, then what its three properties rest  *)
(* on.                                                                     *)
(***************************************************************************)
EXTENDS Consent, IdleClock, SequenceTheorems, FiniteSetTheorems, TLAPS

-----------------------------------------------------------------------------
(* Sequences of calls *)

(* One call less. *)
LEMMA OneLess ==
    ASSUME NEW S, NEW s \in Seq(S), NEW i \in DOMAIN s
    PROVE  RemoveAt(s, i) \in Seq(S) /\ Len(RemoveAt(s, i)) = Len(s) - 1
<1> DEFINE before == SubSeq(s, 1, i-1)
           after == SubSeq(s, i+1, Len(s))
<1>1. i \in 1..Len(s) /\ Len(s) \in Nat
  BY LenProperties
<1>2. before \in Seq(S) /\ Len(before) = i - 1
  BY <1>1, SubSeqProperties
<1>3. after \in Seq(S) /\ Len(after) = Len(s) - i
  BY <1>1, SubSeqProperties
<1>4. RemoveAt(s, i) = before \o after
  BY DEF RemoveAt
<1> HIDE DEF before, after
<1>5. before \o after \in Seq(S) /\ Len(before \o after) = Len(before) + Len(after)
  BY <1>2, <1>3, ConcatProperties
<1> QED BY <1>1, <1>2, <1>3, <1>4, <1>5

(* The calls changed one by one are as many calls. *)
LEMMA ChangedCalls ==
    ASSUME NEW s \in Seq(Calls), NEW f, f = [j \in DOMAIN s |-> f[j]],
           \A j \in DOMAIN s : f[j] \in Calls
    PROVE  f \in Seq(Calls) /\ Len(f) = Len(s)
<1>1. DOMAIN s = 1..Len(s) /\ Len(s) \in Nat
  BY LenProperties
<1>2. f \in [1..Len(s) -> Calls]
  BY <1>1
<1> QED BY <1>1, <1>2, IsASeq, LenProperties

LEMMA MarkedCall ==
    ASSUME NEW c \in Calls
    PROVE  /\ [c EXCEPT !.stale = TRUE] \in Calls /\ [c EXCEPT !.done = TRUE] \in Calls
           /\ \A b \in BOOLEAN : [c EXCEPT !.passed = b] \in Calls
           /\ \A v \in Answers : [c EXCEPT !.done = TRUE, !.value = v] \in Calls
           /\ \A p \in Visitors : [c EXCEPT !.as = p] \in Calls
<1>1. [c EXCEPT !.stale = TRUE] \in Calls /\ [c EXCEPT !.done = TRUE] \in Calls
  BY DEF Calls
<1>2. ASSUME NEW b \in BOOLEAN PROVE [c EXCEPT !.passed = b] \in Calls
  BY DEF Calls
<1>3. ASSUME NEW v \in Answers PROVE [c EXCEPT !.done = TRUE, !.value = v] \in Calls
  BY DEF Calls
<1>4. ASSUME NEW p \in Visitors PROVE [c EXCEPT !.as = p] \in Calls
  BY DEF Calls
<1> QED BY <1>1, <1>2, <1>3, <1>4

LEMMA CallsOnTheirWay ==
    ASSUME TypeOK
    PROVE  /\ Stale \in Seq(Calls) /\ Len(Stale) = Len(calls)
           /\ \A i \in DOMAIN calls :
                /\ PassedByWrite(i) \in Seq(Calls) /\ Len(PassedByWrite(i)) = Len(calls)
                /\ PassedByAnswer(i) \in Seq(Calls) /\ Len(PassedByAnswer(i)) = Len(calls)
<1>1. calls \in Seq(Calls) /\ \A j \in DOMAIN calls : calls[j] \in Calls
  BY ElementOfSeq, LenProperties DEF TypeOK
<1>2. Stale \in Seq(Calls) /\ Len(Stale) = Len(calls)
  <2>1. \A j \in DOMAIN calls : [calls[j] EXCEPT !.stale = TRUE] \in Calls
    BY <1>1, MarkedCall
  <2> QED BY <1>1, <2>1, ChangedCalls DEF Stale
<1>3. ASSUME NEW i \in DOMAIN calls
      PROVE  PassedByWrite(i) \in Seq(Calls) /\ Len(PassedByWrite(i)) = Len(calls)
  <2>1. \A j \in DOMAIN calls :
            [calls[j] EXCEPT !.passed = @ \/ (IF IsRead(j) THEN calls[j].done ELSE j < i)] \in Calls
    BY <1>1, MarkedCall
  <2> QED BY <1>1, <2>1, ChangedCalls DEF PassedByWrite
<1>4. ASSUME NEW i \in DOMAIN calls
      PROVE  PassedByAnswer(i) \in Seq(Calls) /\ Len(PassedByAnswer(i)) = Len(calls)
  <2>1. \A j \in DOMAIN calls :
            [calls[j] EXCEPT !.passed = @ \/ (IsRead(j) /\ j < i)] \in Calls
    BY <1>1, MarkedCall
  <2> QED BY <1>1, <2>1, ChangedCalls DEF PassedByAnswer
<1> QED BY <1>2, <1>3, <1>4

(* A call this page makes is one. *)
LEMMA MadeCalls ==
    ASSUME TypeOK
    PROVE  /\ \A w \in {"read", "reread", "write"}, v \in Answers : Call(w, v) \in Calls
           /\ \A v \in Buttons : Persisted(v) \in Seq(Calls) /\ Len(Persisted(v)) <= 1
<1>1. Credential \in Visitors
  BY DEF Credential, TypeOK, Visitors
<1>2. \A w \in {"read", "reread", "write"}, v \in Answers : Call(w, v) \in Calls
  BY <1>1 DEF Call, Calls
<1>3. ASSUME NEW v \in Buttons
      PROVE  Persisted(v) \in Seq(Calls) /\ Len(Persisted(v)) <= 1
  <2>1. Call("write", v) \in Calls
    BY <1>2 DEF Buttons, Answers
  <2> QED BY <2>1 DEF Persisted
<1> QED BY <1>2, <1>3

-----------------------------------------------------------------------------
(* The trackers *)

(* Whatever they are told, Faro sends only after a grant. *)
LEMMA TrackersTold ==
    ASSUME TypeOK, NEW g \in BOOLEAN, Tell(g)
    PROVE  /\ umami' \in BOOLEAN
           /\ faro' \in [transport : {"absent", "loading", "sending", "paused"}, consent : BOOLEAN]
           /\ FaroFollows'
<1>1. umami' \in BOOLEAN
  BY DEF Tell, setUmamiConsent
<1>2. faro.transport \in {"absent", "loading", "sending", "paused"}
  BY DEF TypeOK
<1>3. CASE g
  <2>1. \E t \in {"loading", "sending"} : faro' = [consent |-> TRUE, transport |-> t]
    BY <1>2, <1>3 DEF Tell, setFaroConsent, GrantedTo, WithdrawnFrom
  <2> QED BY <1>1, <2>1 DEF FaroFollows
<1>4. CASE ~g
  <2>1. \E t \in {"absent", "loading", "paused"} : faro' = [consent |-> FALSE, transport |-> t]
    BY <1>2, <1>4 DEF Tell, setFaroConsent, GrantedTo, WithdrawnFrom
  <2> QED BY <1>1, <2>1 DEF FaroFollows
<1> QED BY <1>3, <1>4

-----------------------------------------------------------------------------
(* The invariant *)

IInv == TypeOK /\ FaroFollows

LEMMA Begins == Init => IInv
<1> SUFFICES ASSUME Init PROVE IInv
  OBVIOUS
<1>1. owner \in Visitors /\ saved \in [Persons -> Answers] /\ choice \in Answers /\ account \in Answers
  BY DEF Init, Visitors, Answers
<1>2. page \in [held : BOOLEAN, viewer : BOOLEAN, store : {"absent", "empty", "loaded"},
               settled : BOOLEAN]
  BY DEF Init
<1>6. /\ umami \in BOOLEAN
      /\ faro \in [transport : {"absent", "loading", "sending", "paused"}, consent : BOOLEAN]
      /\ FaroFollows
  BY DEF Init, FaroFollows
<1>3. calls \in Seq(Calls) /\ Len(calls) <= MaxCalls
  BY ConsentBoundsNat DEF Init
<1>4. word \in [Visitors -> Answers] /\ unheard \subseteq Visitors
  BY DEF Init, Answers
<1>5. tangled \in BOOLEAN
  BY DEF Init
<1>7. inputs \in 0..MaxInputs
  BY ConsentBoundsNat DEF Init
<1> QED BY <1>1, <1>2, <1>3, <1>4, <1>5, <1>6, <1>7 DEF IInv, TypeOK

PageStates == [held : BOOLEAN, viewer : BOOLEAN, store : {"absent", "empty", "loaded"},
               settled : BOOLEAN]

TrackersOK ==
    /\ umami \in BOOLEAN /\ FaroFollows
    /\ faro \in [transport : {"absent", "loading", "sending", "paused"}, consent : BOOLEAN]

CallsOK == calls \in Seq(Calls) /\ Len(calls) <= MaxCalls

(* The parts put together again. *)
LEMMA Whole ==
    ASSUME owner' \in Visitors, saved' \in [Persons -> Answers], choice' \in Answers,
           account' \in Answers, page' \in PageStates, TrackersOK', CallsOK',
           word' \in [Visitors -> Answers], unheard' \subseteq Visitors,
           tangled' \in BOOLEAN, inputs' \in 0..MaxInputs
    PROVE  IInv'
  BY DEF IInv, TypeOK, TrackersOK, CallsOK, PageStates

LEMMA Parts ==
    ASSUME IInv
    PROVE  /\ owner \in Visitors /\ saved \in [Persons -> Answers] /\ choice \in Answers
           /\ account \in Answers /\ page \in PageStates /\ TrackersOK /\ CallsOK
           /\ word \in [Visitors -> Answers] /\ unheard \subseteq Visitors
           /\ tangled \in BOOLEAN /\ inputs \in 0..MaxInputs /\ TypeOK
  BY DEF IInv, TypeOK, TrackersOK, CallsOK, PageStates

LEMMA OneMoreInput == ASSUME IInv, inputs < MaxInputs PROVE inputs + 1 \in 0..MaxInputs
  BY ConsentBoundsNat DEF IInv, TypeOK

LEMMA ToldTrackers == ASSUME IInv, NEW g \in BOOLEAN, Tell(g) PROVE TrackersOK'
  BY TrackersTold DEF IInv, TrackersOK

LEMMA StaleCalls == ASSUME IInv PROVE Stale \in Seq(Calls) /\ Len(Stale) <= MaxCalls
  BY CallsOnTheirWay DEF IInv, TypeOK

LEMMA AppendedCall ==
    ASSUME NEW s \in Seq(Calls), Len(s) < MaxCalls, NEW c \in Calls
    PROVE  Append(s, c) \in Seq(Calls) /\ Len(Append(s, c)) <= MaxCalls
  BY ConsentBoundsNat, AppendProperties, LenProperties

LEMMA CalledByVisitors ==
    ASSUME CallsOK
    PROVE  \A i \in DOMAIN calls :
               /\ calls[i] \in Calls /\ calls[i].as \in Visitors /\ calls[i].value \in Answers
<1>1. calls \in Seq(Calls) /\ DOMAIN calls = 1..Len(calls)
  BY LenProperties DEF CallsOK
<1>2. \A i \in DOMAIN calls : calls[i] \in Calls
  BY <1>1, ElementOfSeq
<1>3. \A c \in Calls : c.as \in Visitors /\ c.value \in Answers
  BY DEF Calls
<1> QED BY <1>2, <1>3

(* The page is left without a session, and the call's answers without theirs. *)
LEMMA ForgottenPage ==
    ASSUME IInv, NEW t \in {"absent", "empty", "loaded"}
    PROVE  Forgotten(t) \in PageStates
  BY Parts DEF Forgotten, PageStates

-----------------------------------------------------------------------------
(* One step, one action *)

LEMMA PressKeeps == ASSUME TypeOK, NEW value \in Buttons, Press(value) PROVE IInv'
<1>1. choice' \in Answers
  BY DEF Press, RecordedBy, TypeOK, Buttons, Answers
<1>2. /\ umami' \in BOOLEAN /\ FaroFollows'
      /\ faro' \in [transport : {"absent", "loading", "sending", "paused"}, consent : BOOLEAN]
  <2>1. MayStart(account, choice', HasSessionOrHint) \in BOOLEAN
    BY DEF MayStart
  <2> QED BY <2>1, TrackersTold DEF Press, syncTracker
<1>3. calls' \in Seq(Calls) /\ Len(calls') <= MaxCalls
  <2>1. calls \in Seq(Calls) /\ Len(calls) < MaxCalls /\ Len(calls) \in Nat
    BY LenProperties DEF TypeOK, Press, Room
  <2>2. Persisted(value) \in Seq(Calls) /\ Len(Persisted(value)) <= 1
    BY MadeCalls
  <2>3. Len(Persisted(value)) \in Nat
    BY <2>2, LenProperties
  <2>4. calls' = calls \o Persisted(value)
    BY DEF Press
  <2>5. calls' \in Seq(Calls) /\ Len(calls') = Len(calls) + Len(Persisted(value))
    BY <2>1, <2>2, <2>4, ConcatProperties
  <2> QED BY <2>1, <2>2, <2>3, <2>5, ConsentBoundsNat
<1>4. word' \in [Visitors -> Answers] /\ unheard' \subseteq Visitors
  <2> DEFINE whose == IF isAuth THEN owner ELSE Nobody
  <2>1. whose \in Visitors /\ value \in Answers
    BY DEF TypeOK, Visitors, Buttons, Answers
  <2>2. word' = [word EXCEPT ![whose] = value]
    BY DEF Press
  <2>3. unheard' \in {unheard \ {whose}, unheard \cup {whose}}
    BY DEF Press
  <2> HIDE DEF whose
  <2> QED BY <2>1, <2>2, <2>3 DEF TypeOK
<1>5. inputs' \in 0..MaxInputs
  BY ConsentBoundsNat DEF Press, TypeOK
<1>6. UNCHANGED <<owner, saved, account, page, tangled>>
  BY DEF Press, person
<1> QED BY <1>1, <1>2, <1>3, <1>4, <1>5, <1>6 DEF IInv, TypeOK

LEMMA FaroKeeps == ASSUME IInv, FaroLoads \/ FaroFails PROVE IInv'
<1>1. CASE FaroLoads
  <2>1. TrackersOK'
    BY <1>1, Parts DEF FaroLoads, Booted, TrackersOK, FaroFollows
  <2> QED BY <1>1, <2>1, Parts, Whole DEF FaroLoads, person, history, CallsOK
<1>2. CASE FaroFails
  <2>1. TrackersOK'
    BY <1>2, Parts DEF FaroFails, TrackersOK, FaroFollows
  <2>2. inputs' \in 0..MaxInputs
    BY <1>2, OneMoreInput DEF FaroFails
  <2> QED BY <1>2, <2>1, <2>2, Parts, Whole DEF FaroFails, person, history, CallsOK
<1> QED BY <1>1, <1>2

LEMMA OpenKeeps == ASSUME IInv, OpenProfile PROVE IInv'
<1>1. page' \in PageStates
  BY Parts DEF OpenProfile, PageStates
<1>2. CallsOK'
  <2>1. Call("read", "unknown") \in Calls
    BY Parts, MadeCalls DEF Answers
  <2> QED BY <2>1, Parts, AppendedCall DEF OpenProfile, Room, CallsOK
<1>3. inputs' \in 0..MaxInputs
  BY OneMoreInput DEF OpenProfile
<1>4. TrackersOK'
  BY Parts DEF OpenProfile, trackers, TrackersOK, FaroFollows
<1> QED BY <1>1, <1>2, <1>3, <1>4, Parts, Whole DEF OpenProfile, person, history

LEMMA RestoreKeeps == ASSUME IInv, Restore \/ LoadViewer PROVE IInv'
<1>1. page' \in PageStates
  BY Parts DEF Restore, LoadViewer, PageStates
<1>2. UNCHANGED <<person, choice, account, trackers, calls, history, tangled, inputs>>
  BY DEF Restore, LoadViewer
<1>3. TrackersOK' /\ CallsOK'
  BY <1>2, Parts DEF trackers, TrackersOK, FaroFollows, CallsOK
<1> QED BY <1>1, <1>2, <1>3, Parts, Whole DEF person, history

(* What the ends of a session have in common. *)
LEMMA EndKeeps ==
    ASSUME IInv, owner' \in Visitors, saved' \in [Persons -> Answers], choice' \in Answers,
           account' \in Answers, page' \in PageStates, TrackersOK', calls' = Stale,
           tangled' \in BOOLEAN, inputs < MaxInputs, inputs' = inputs + 1, UNCHANGED history
    PROVE  IInv'
<1>1. CallsOK' /\ inputs' \in 0..MaxInputs
  BY StaleCalls, OneMoreInput DEF CallsOK
<1> QED BY <1>1, Parts, Whole DEF history
LEMMA QuietEndKeeps == ASSUME IInv, SignOutFails \/ Expires \/ EndsElsewhere PROVE IInv'
<1>1. /\ calls' = Stale /\ tangled' \in BOOLEAN /\ inputs < MaxInputs /\ inputs' = inputs + 1
      /\ UNCHANGED <<saved, choice, trackers, history>>
  BY DEF SignOutFails, Expires, EndsElsewhere
<1>2. owner' \in Visitors
  BY DEF SignOutFails, Expires, EndsElsewhere, Visitors
<1>3. account' \in Answers
  BY Parts DEF SignOutFails, Expires, EndsElsewhere, Answers
<1>4. page' \in PageStates
  <2>1. page.store \in {"absent", "empty", "loaded"}
    BY Parts DEF PageStates
  <2>2. page' \in {Forgotten("absent"), Forgotten("empty"), Forgotten(page.store)}
    BY DEF SignOutFails, Expires, EndsElsewhere
  <2> QED BY <2>1, <2>2, ForgottenPage
<1>5. TrackersOK'
  BY <1>1, Parts DEF trackers, TrackersOK, FaroFollows
<1> QED BY <1>1, <1>2, <1>3, <1>4, <1>5, Parts, EndKeeps

LEMMA ToldEndKeeps == ASSUME IInv, SignOut \/ EndLocalSession PROVE IInv'
<1>1. /\ calls' = Stale /\ tangled' \in BOOLEAN /\ inputs < MaxInputs /\ inputs' = inputs + 1
      /\ UNCHANGED <<saved, choice, history>> /\ owner' \in Visitors /\ account' \in Answers
      /\ page' \in PageStates
  BY ForgottenPage DEF SignOut, EndLocalSession, Visitors, Answers
<1>2. TrackersOK'
  <2>1. \E known \in {FALSE, HasSessionOrHint} : Tell(MayStart(account', choice, known))
    BY DEF SignOut, EndLocalSession, syncTracker
  <2>2. \A known : MayStart(account', choice, known) \in BOOLEAN
    BY DEF MayStart
  <2> QED BY <2>1, <2>2, ToldTrackers
<1> QED BY <1>1, <1>2, Parts, EndKeeps

LEMMA SignUpKeeps ==
    ASSUME IInv, NEW p \in Persons, SignUp(p) \/ OtherTabSignsIn(p)
    PROVE  IInv'
<1>1. /\ calls' = Stale /\ tangled' \in BOOLEAN /\ inputs < MaxInputs /\ inputs' = inputs + 1
      /\ UNCHANGED <<choice, account, page, trackers, history>> /\ owner' = p
  BY DEF SignUp, OtherTabSignsIn
<1>2. saved' \in [Persons -> Answers]
  BY Parts DEF SignUp, OtherTabSignsIn, Answers
<1>3. TrackersOK' /\ owner' \in Visitors
  BY <1>1, Parts DEF trackers, TrackersOK, FaroFollows, Visitors
<1> QED BY <1>1, <1>2, <1>3, Parts, EndKeeps

LEMMA SignInKeeps == ASSUME IInv, NEW p \in Persons, SignIn(p) PROVE IInv'
<1>1. owner' \in Visitors /\ account' \in Answers /\ inputs' \in 0..MaxInputs /\ tangled' \in BOOLEAN
  BY Parts, OneMoreInput DEF SignIn, Visitors
<1>2. TrackersOK'
  <2>1. (saved[p] = "granted") \in BOOLEAN /\ Tell(saved[p] = "granted")
    BY DEF SignIn
  <2> QED BY <2>1, ToldTrackers
<1>3. page' \in PageStates
  BY Parts DEF SignIn, Crosses, PageStates
<1>4. CallsOK'
  <2>1. Stale \in Seq(Calls) /\ Len(Stale) < MaxCalls
    <3>1. TypeOK /\ Len(calls) < MaxCalls
      BY Parts DEF SignIn, Room
    <3> QED BY <3>1, CallsOnTheirWay
  <2>2. Call("write", choice) \in Calls
    BY Parts, MadeCalls
  <2>3. [Call("write", choice) EXCEPT !.as = p] \in Calls
    BY <2>2, MarkedCall DEF Visitors
  <2> QED BY <2>1, <2>3, AppendedCall, StaleCalls DEF SignIn, CallsOK
<1> QED BY <1>1, <1>2, <1>3, <1>4, Parts, Whole DEF SignIn, history

LEMMA BootKeeps == ASSUME IInv, Boot PROVE IInv'
<1>1. page' \in PageStates /\ account' \in Answers /\ inputs' \in 0..MaxInputs /\ tangled' \in BOOLEAN
  BY OneMoreInput DEF Boot, PageStates, Answers
<1>2. TrackersOK'
  <2> DEFINE granted == MayStart("unknown", choice, owner # Nobody)
  <2>1. granted \in BOOLEAN
    BY DEF MayStart
  <2>2. /\ umami' = granted
        /\ faro' = [consent |-> granted, transport |-> IF granted THEN "loading" ELSE "absent"]
    BY DEF Boot
  <2> HIDE DEF granted
  <2> QED BY <2>1, <2>2 DEF TrackersOK, FaroFollows
<1>3. CallsOK'
  BY ConsentBoundsNat DEF Boot, CallsOK
<1>4. unheard' \subseteq Visitors
  <2>1. \A i \in DOMAIN calls : calls[i].as \in Visitors
    BY Parts, CalledByVisitors
  <2> QED BY <2>1, Parts DEF Boot
<1> QED BY <1>1, <1>2, <1>3, <1>4, Parts, Whole DEF Boot, person
LEMMA HandleKeeps == ASSUME IInv, NEW i \in DOMAIN calls, Handle(i) PROVE IInv'
<1>1. /\ calls[i] \in Calls /\ calls[i].as \in Visitors /\ calls[i].value \in Answers
      /\ calls[i].as # Nobody
  BY Parts, CalledByVisitors DEF Handle
<1>2. calls[i].as \in Persons
  BY <1>1 DEF Visitors
<1>3. UNCHANGED <<owner, choice, account, page, trackers, word, tangled, inputs>>
  BY DEF Handle
<1>4. TrackersOK'
  BY <1>3, Parts DEF trackers, TrackersOK, FaroFollows
<1>5. saved' \in [Persons -> Answers] /\ unheard' \subseteq Visitors
  BY <1>1, <1>2, Parts DEF Handle
<1>6. CallsOK'
  <2>1. CASE calls' = [PassedByWrite(i) EXCEPT ![i].done = TRUE]
    <3> DEFINE s == PassedByWrite(i)
    <3>1. s \in Seq(Calls) /\ Len(s) = Len(calls)
      BY Parts, CallsOnTheirWay
    <3>2. i \in 1..Len(s)
      BY <3>1, LenProperties, Parts DEF CallsOK
    <3> HIDE DEF s
    <3>3. s[i] \in Calls
      BY <3>1, <3>2, ElementOfSeq
    <3>4. [s[i] EXCEPT !.done = TRUE] \in Calls
      BY <3>3, MarkedCall
    <3>5. calls' = [s EXCEPT ![i] = [s[i] EXCEPT !.done = TRUE]]
      BY <2>1 DEF s
    <3> QED BY <3>1, <3>2, <3>4, <3>5, ExceptSeq, Parts DEF CallsOK
  <2>2. CASE calls' = [calls EXCEPT ![i].done = TRUE, ![i].value = saved[calls[i].as]]
    <3>1. calls \in Seq(Calls) /\ i \in 1..Len(calls) /\ saved[calls[i].as] \in Answers
      BY <1>2, Parts, LenProperties DEF CallsOK
    <3>2. [calls[i] EXCEPT !.done = TRUE, !.value = saved[calls[i].as]] \in Calls
      BY <1>1, <3>1, MarkedCall
    <3>3. calls' = [calls EXCEPT ![i] = [calls[i] EXCEPT !.done = TRUE, !.value = saved[calls[i].as]]]
      BY <2>2, <3>1, LenProperties
    <3> QED BY <3>1, <3>2, <3>3, ExceptSeq, Parts DEF CallsOK
  <2> QED BY <2>1, <2>2 DEF Handle
<1> QED BY <1>3, <1>4, <1>5, <1>6, Parts, Whole

LEMMA WriteKeeps == ASSUME IInv, NEW i \in DOMAIN calls, WriteLands(i) PROVE IInv'
<1>1. page' \in PageStates /\ tangled' \in BOOLEAN
      /\ UNCHANGED <<person, choice, account, trackers, history, inputs>>
  <2>1. page' \in PageStates
    BY Parts DEF WriteLands, PageStates
  <2>2. tangled' \in BOOLEAN
    BY DEF WriteLands
  <2> QED BY <2>1, <2>2 DEF WriteLands
<1>2. CallsOK'
  <2>1. RemoveAt(calls, i) \in Seq(Calls) /\ Len(RemoveAt(calls, i)) < MaxCalls
    BY Parts, OneLess, LenProperties, ConsentBoundsNat DEF CallsOK
  <2>2. Call("reread", "unknown") \in Calls
    BY Parts, MadeCalls DEF Answers
  <2> QED BY <2>1, <2>2, AppendedCall DEF WriteLands, CallsOK
<1>3. TrackersOK'
  BY <1>1, Parts DEF trackers, TrackersOK, FaroFollows
<1> QED BY <1>1, <1>2, <1>3, Parts, Whole DEF person, history

LEMMA ReadKeeps == ASSUME IInv, NEW i \in DOMAIN calls, ReadLands(i) PROVE IInv'
<1> DEFINE v == calls[i].value
           rest == RemoveAt(PassedByAnswer(i), i)
<1>1. v \in Answers /\ Load(v, rest)
  BY Parts, CalledByVisitors DEF ReadLands
<1>2. rest \in Seq(Calls) /\ Len(rest) < MaxCalls
  <2> DEFINE s == PassedByAnswer(i)
  <2>1. s \in Seq(Calls) /\ Len(s) = Len(calls)
    BY Parts, CallsOnTheirWay
  <2>2. i \in DOMAIN s /\ Len(s) <= MaxCalls /\ Len(s) \in Nat
    BY <2>1, LenProperties, Parts DEF CallsOK
  <2> HIDE DEF s
  <2>3. RemoveAt(s, i) \in Seq(Calls) /\ Len(RemoveAt(s, i)) = Len(s) - 1
    BY <2>1, <2>2, OneLess
  <2> QED BY <2>2, <2>3, ConsentBoundsNat DEF s
<1>3. TrackersOK'
  <2>1. (v = "granted") \in BOOLEAN /\ Tell(v = "granted")
    BY <1>1 DEF Load
  <2> QED BY <2>1, ToldTrackers
<1>4. page' \in PageStates /\ account' \in Answers
  BY <1>1, Parts DEF Load, Crosses, PageStates
<1>5. CallsOK'
  <2>1. Call("write", choice) \in Calls
    BY Parts, MadeCalls
  <2>2. calls' \in {rest, Append(rest, Call("write", choice))}
    BY <1>1 DEF Load
  <2> HIDE DEF rest
  <2> QED BY <1>2, <2>1, <2>2, AppendedCall, LenProperties, ConsentBoundsNat DEF CallsOK
<1>6. tangled' \in BOOLEAN
  BY Parts, CalledByVisitors DEF ReadLands, Calls
<1>7. UNCHANGED <<person, choice, word, inputs>>
  BY DEF ReadLands
<1>8. unheard' \subseteq Visitors
  BY Parts DEF ReadLands, CrossedOver, Visitors
<1> QED BY <1>3, <1>4, <1>5, <1>6, <1>7, <1>8, Parts, Whole DEF person

LEMMA FailKeeps == ASSUME IInv, NEW i \in DOMAIN calls, Fail(i) PROVE IInv'
<1>1. calls[i].as \in Visitors
  BY Parts, CalledByVisitors
<1>2. unheard' \subseteq Visitors
  BY <1>1, Parts DEF Fail
<1>3. tangled' \in BOOLEAN
  BY DEF Fail
<1>4. inputs' \in 0..MaxInputs
  BY Parts, OneMoreInput DEF Fail
<1>5. CallsOK'
  BY Parts, OneLess, LenProperties, ConsentBoundsNat DEF Fail, CallsOK
<1>6. UNCHANGED <<person, choice, account, page, trackers, word>>
  BY DEF Fail
<1>7. TrackersOK'
  BY <1>6, Parts DEF trackers, TrackersOK, FaroFollows
<1> QED BY <1>2, <1>3, <1>4, <1>5, <1>6, <1>7, Parts, Whole DEF person

LEMMA Inductive == IInv /\ [Next]_vars => IInv'
<1> SUFFICES ASSUME IInv, [Next]_vars PROVE IInv'
  OBVIOUS
<1>1. CASE UNCHANGED vars
  BY <1>1, Parts, Whole DEF vars, TrackersOK, CallsOK, FaroFollows
<1>2. CASE FaroLoads \/ FaroFails
  BY <1>2, FaroKeeps
<1>3. ASSUME NEW value \in Buttons, Press(value) PROVE IInv'
  BY <1>3, Parts, PressKeeps
<1>4. CASE OpenProfile
  BY <1>4, OpenKeeps
<1>5. ASSUME NEW i \in DOMAIN calls, Handle(i) \/ WriteLands(i) \/ ReadLands(i) \/ Fail(i)
      PROVE  IInv'
  BY <1>5, HandleKeeps, WriteKeeps, ReadKeeps, FailKeeps
<1>6. ASSUME NEW p \in Persons, SignIn(p) \/ SignUp(p) \/ OtherTabSignsIn(p) PROVE IInv'
  BY <1>6, SignInKeeps, SignUpKeeps
<1>7. CASE Restore \/ LoadViewer
  BY <1>7, RestoreKeeps
<1>8. CASE SignOut \/ SignOutFails \/ EndLocalSession \/ Expires \/ EndsElsewhere
  BY <1>8, QuietEndKeeps, ToldEndKeeps
<1>9. CASE Boot
  BY <1>9, BootKeeps
<1> QED BY <1>1, <1>2, <1>3, <1>4, <1>5, <1>6, <1>7, <1>8, <1>9 DEF Next

-----------------------------------------------------------------------------
(* The values of Consent keep their kinds. *)
THEOREM TypeCorrect == Spec => []TypeOK
<1>1. IInv => TypeOK
  BY DEF IInv
<1> QED BY Begins, Inductive, <1>1, PTL DEF Spec

(* Faro sends nothing that the last answer it was told of forbids, however its  *)
(* loading, the presses, the reads and the ends of sessions interleave (store.ts *)
(* 352-354).                                                                       *)
THEOREM FaroFollowsAlways == Spec => []FaroFollows
<1>1. IInv => FaroFollows
  BY DEF IInv
<1> QED BY Begins, Inductive, <1>1, PTL DEF Spec

-----------------------------------------------------------------------------
(* One call less, or one more, by position *)

LEMMA OneChanged ==
    ASSUME NEW s \in Seq(Calls), NEW i \in 1..Len(s), NEW d \in Calls, NEW r, r = [s EXCEPT ![i] = d]
    PROVE  /\ r \in Seq(Calls) /\ Len(r) = Len(s) /\ r[i] = d
           /\ \A k \in 1..Len(s) : k # i => r[k] = s[k]
  BY ExceptSeq

LEMMA RemovedAt ==
    ASSUME NEW s \in Seq(Calls), NEW i \in 1..Len(s)
    PROVE  /\ RemoveAt(s, i) \in Seq(Calls) /\ Len(RemoveAt(s, i)) = Len(s) - 1
           /\ \A k \in 1..Len(s) - 1 : RemoveAt(s, i)[k] = IF k < i THEN s[k] ELSE s[k + 1]
<1> DEFINE before == SubSeq(s, 1, i-1)
           after == SubSeq(s, i+1, Len(s))
<1>1. Len(s) \in Nat /\ \A k \in 1..Len(s) : s[k] \in Calls
  BY LenProperties, ElementOfSeq
<1>2. /\ before \in Seq(Calls) /\ Len(before) = i - 1
      /\ \A k \in 1..i - 1 : before[k] = s[k]
  BY <1>1, SubSeqProperties
<1>3. /\ after \in Seq(Calls) /\ Len(after) = Len(s) - i
      /\ \A k \in 1..Len(s) - i : after[k] = s[i + k]
  BY <1>1, SubSeqProperties
<1>4. RemoveAt(s, i) = before \o after
  BY DEF RemoveAt
<1> HIDE DEF before, after
<1> PICK r : r = before \o after
  OBVIOUS
<1>5. /\ r \in Seq(Calls) /\ Len(r) = Len(before) + Len(after)
      /\ \A k \in 1..Len(before) + Len(after) :
             r[k] = IF k <= Len(before) THEN before[k] ELSE after[k - Len(before)]
  BY <1>2, <1>3, ConcatProperties
<1>6. ASSUME NEW k \in 1..Len(s) - 1 PROVE r[k] = IF k < i THEN s[k] ELSE s[k + 1]
  <2>1. CASE k < i
    BY <1>1, <1>2, <1>3, <1>5, <2>1
  <2>2. CASE ~(k < i)
    <3>1. r[k] = after[k - (i - 1)]
      BY <1>1, <1>2, <1>3, <1>5, <2>2
    <3>2. k - (i - 1) \in 1..Len(s) - i /\ i + (k - (i - 1)) = k + 1
      BY <1>1, <2>2
    <3> QED BY <1>3, <3>1, <3>2, <2>2
  <2> QED BY <2>1, <2>2
<1> QED BY <1>1, <1>2, <1>3, <1>4, <1>5, <1>6

\* What is left is what was there but one.
LEMMA RestOfThem ==
    ASSUME NEW s \in Seq(Calls), NEW i \in 1..Len(s)
    PROVE  /\ RemoveAt(s, i) \in Seq(Calls)
           /\ \A k \in 1..Len(RemoveAt(s, i)) : \E j \in 1..Len(s) : j # i /\ RemoveAt(s, i)[k] = s[j]
           /\ \A j \in 1..Len(s) : j # i => \E k \in 1..Len(RemoveAt(s, i)) : RemoveAt(s, i)[k] = s[j]
<1> PICK r : r = RemoveAt(s, i)
  OBVIOUS
<1>1. /\ r \in Seq(Calls) /\ Len(r) = Len(s) - 1 /\ Len(s) \in Nat
      /\ \A k \in 1..Len(s) - 1 : r[k] = IF k < i THEN s[k] ELSE s[k + 1]
  BY RemovedAt, LenProperties
<1>2. ASSUME NEW k \in 1..Len(r) PROVE \E j \in 1..Len(s) : j # i /\ r[k] = s[j]
  <2>1. CASE k < i
    BY <1>1, <2>1
  <2>2. CASE ~(k < i)
    <3>1. k + 1 \in 1..Len(s) /\ k + 1 # i /\ r[k] = s[k + 1]
      BY <1>1, <2>2
    <3> QED BY <3>1
  <2> QED BY <2>1, <2>2
<1>3. ASSUME NEW j \in 1..Len(s), j # i PROVE \E k \in 1..Len(r) : r[k] = s[j]
  <2>1. CASE j < i
    BY <1>1, <2>1
  <2>2. CASE ~(j < i)
    <3>1. j - 1 \in 1..Len(r) /\ ~(j - 1 < i) /\ (j - 1) + 1 = j
      BY <1>1, <1>3, <2>2
    <3>2. r[j - 1] = s[j]
      BY <1>1, <3>1
    <3> QED BY <3>1, <3>2
  <2> QED BY <2>1, <2>2
<1> QED BY <1>1, <1>2, <1>3

-----------------------------------------------------------------------------
(* What the presses on their way make of an account's answer *)

\* A press that the API will hear in its turn, and one it may hear out of it.
Alive(c, p) == c.what = "write" /\ c.as = p /\ ~c.done /\ ~c.stale /\ ~c.passed
Doubtful(c, p) == c.what = "write" /\ c.as = p /\ ~c.done /\ (c.stale \/ c.passed)

\* Last word w, record v: the last press alive says w, or none is and the record does.
Kept(s, p, w, v) ==
    \/ \E k \in 1..Len(s) : Doubtful(s[k], p)
    \/ \E k \in 1..Len(s) : /\ Alive(s[k], p) /\ s[k].value = w
                            /\ \A m \in 1..Len(s) : Alive(s[m], p) => m <= k
    \/ v = w /\ \A k \in 1..Len(s) : ~Alive(s[k], p)

LEMMA KeptChanged ==
    ASSUME NEW s \in Seq(Calls), NEW r \in Seq(Calls), Len(r) = Len(s), NEW p, NEW w, NEW v,
           Kept(s, p, w, v),
           \A k \in 1..Len(s) : /\ Doubtful(s[k], p) => Doubtful(r[k], p)
                                /\ Alive(s[k], p) => Alive(r[k], p) \/ Doubtful(r[k], p)
                                /\ Alive(r[k], p) => Alive(s[k], p) /\ r[k].value = s[k].value
    PROVE  Kept(r, p, w, v)
<1>1. CASE \E k \in 1..Len(s) : Doubtful(s[k], p)
  BY <1>1 DEF Kept
<1>2. CASE \E k \in 1..Len(s) : /\ Alive(s[k], p) /\ s[k].value = w
                                /\ \A m \in 1..Len(s) : Alive(s[m], p) => m <= k
  <2>1. PICK k \in 1..Len(s) : /\ Alive(s[k], p) /\ s[k].value = w
                               /\ \A m \in 1..Len(s) : Alive(s[m], p) => m <= k
    BY <1>2
  <2>2. CASE Doubtful(r[k], p)
    BY <2>2 DEF Kept
  <2>3. CASE Alive(r[k], p)
    <3>1. r[k].value = w /\ \A m \in 1..Len(r) : Alive(r[m], p) => m <= k
      BY <2>1, <2>3
    <3> QED BY <2>3, <3>1 DEF Kept
  <2> QED BY <2>1, <2>2, <2>3
<1>3. CASE v = w /\ \A k \in 1..Len(s) : ~Alive(s[k], p)
  BY <1>3 DEF Kept
<1> QED BY <1>1, <1>2, <1>3 DEF Kept

LEMMA KeptAppended ==
    ASSUME NEW s \in Seq(Calls), NEW c \in Calls, NEW p, NEW w, NEW v, Kept(s, p, w, v),
           Alive(c, p) => \E k \in 1..Len(s) : Doubtful(s[k], p)
    PROVE  Kept(Append(s, c), p, w, v)
<1> PICK r : r = Append(s, c)
  OBVIOUS
<1>1. /\ Len(r) = Len(s) + 1 /\ Len(s) \in Nat /\ r[Len(s) + 1] = c
      /\ \A k \in 1..Len(s) : k \in 1..Len(r) /\ r[k] = s[k]
  BY AppendProperties, LenProperties
<1>2. CASE \E k \in 1..Len(s) : Doubtful(s[k], p)
  BY <1>1, <1>2 DEF Kept
<1>3. CASE ~Alive(c, p)
  <2>1. \A m \in 1..Len(r) : Alive(r[m], p) => m \in 1..Len(s) /\ Alive(s[m], p)
    BY <1>1, <1>3
  <2> QED BY <1>1, <2>1, <1>2 DEF Kept
<1> QED BY <1>2, <1>3

LEMMA KeptNew ==
    ASSUME NEW s \in Seq(Calls), NEW c \in Calls, NEW p, NEW v, Alive(c, p)
    PROVE  Kept(Append(s, c), p, c.value, v)
<1> PICK r : r = Append(s, c)
  OBVIOUS
<1>1. Len(r) = Len(s) + 1 /\ Len(s) \in Nat /\ r[Len(s) + 1] = c
  BY AppendProperties, LenProperties
<1>2. Len(r) \in 1..Len(r) /\ r[Len(r)] = c /\ \A m \in 1..Len(r) : m <= Len(r)
  BY <1>1
<1> QED BY <1>2 DEF Kept

LEMMA KeptRemoved ==
    ASSUME NEW s \in Seq(Calls), NEW i \in 1..Len(s), NEW p, NEW w, NEW v, Kept(s, p, w, v),
           ~Alive(s[i], p), ~Doubtful(s[i], p)
    PROVE  Kept(RemoveAt(s, i), p, w, v)
<1> PICK r : r = RemoveAt(s, i)
  OBVIOUS
<1>1. /\ r \in Seq(Calls) /\ Len(r) = Len(s) - 1 /\ Len(s) \in Nat
      /\ \A k \in 1..Len(s) - 1 : r[k] = IF k < i THEN s[k] ELSE s[k + 1]
  BY RemovedAt, LenProperties
<1>2. /\ \A k \in 1..Len(r) : \E j \in 1..Len(s) : j # i /\ r[k] = s[j]
      /\ \A j \in 1..Len(s) : j # i => \E k \in 1..Len(r) : r[k] = s[j]
  BY RestOfThem
<1>3. CASE \E k \in 1..Len(s) : Doubtful(s[k], p)
  BY <1>2, <1>3 DEF Kept
<1>4. CASE v = w /\ \A k \in 1..Len(s) : ~Alive(s[k], p)
  <2>1. \A k \in 1..Len(r) : ~Alive(r[k], p)
    BY <1>2, <1>4
  <2> QED BY <1>4, <2>1 DEF Kept
<1>5. CASE \E k \in 1..Len(s) : /\ Alive(s[k], p) /\ s[k].value = w
                                /\ \A m \in 1..Len(s) : Alive(s[m], p) => m <= k
  <2>1. PICK k \in 1..Len(s) : /\ Alive(s[k], p) /\ s[k].value = w
                               /\ \A m \in 1..Len(s) : Alive(s[m], p) => m <= k
    BY <1>5
  <2>2. k # i
    BY <2>1
  <2>3. CASE k < i
    <3>1. k \in 1..Len(r) /\ r[k] = s[k]
      BY <1>1, <2>3
    <3>2. ASSUME NEW m \in 1..Len(r), Alive(r[m], p) PROVE m <= k
      <4>1. CASE m < i
        BY <1>1, <2>1, <3>2, <4>1
      <4>2. CASE ~(m < i)
        <5>1. m + 1 \in 1..Len(s) /\ Alive(s[m + 1], p)
          BY <1>1, <3>2, <4>2
        <5> QED BY <2>1, <2>3, <4>2, <5>1
      <4> QED BY <4>1, <4>2
    <3> QED BY <2>1, <3>1, <3>2 DEF Kept
  <2>4. CASE k > i
    <3>1. k - 1 \in 1..Len(r) /\ ~(k - 1 < i) /\ (k - 1) + 1 = k
      BY <1>1, <2>4
    <3>2. r[k - 1] = s[k]
      BY <1>1, <3>1
    <3>3. ASSUME NEW m \in 1..Len(r), Alive(r[m], p) PROVE m <= k - 1
      <4>1. CASE m < i
        BY <2>4, <4>1
      <4>2. CASE ~(m < i)
        <5>1. m + 1 \in 1..Len(s) /\ Alive(s[m + 1], p)
          BY <1>1, <3>3, <4>2
        <5> QED BY <2>1, <5>1
      <4> QED BY <4>1, <4>2
    <3> QED BY <2>1, <3>1, <3>2, <3>3 DEF Kept
  <2> QED BY <2>2, <2>3, <2>4
<1> QED BY <1>3, <1>4, <1>5 DEF Kept

-----------------------------------------------------------------------------
(* What the trackers were told, and what each call is *)

\* A re-read is on its way, or a write whose answer asks for one.
Due == \E k \in 1..Len(calls) : calls[k].what = "reread" \/ (calls[k].what = "write" /\ calls[k].done)

\* A call of the session there is now is this page's, and a read the API answered last says what
\* is on record.
Honest(c) ==
    /\ c.what = "write" => c.value \in Buttons
    /\ c.done => c.as # Nobody
    /\ ~c.stale /\ c.as # Nobody => c.as = owner /\ page.held
    /\ c.what # "write" /\ c.done /\ ~c.stale /\ ~c.passed => c.value = saved[c.as]
    /\ ~tangled /\ c.what = "write" /\ ~c.stale /\ c.as # Nobody => page.store = "loaded"
EachHonest == \A k \in 1..Len(calls) : Honest(calls[k])

HeldIsOwned == page.held => owner # Nobody

\* Told in place: of a guest's yes, or of the account's, which is on record or about to be read again.
Measured == ~tangled =>
    /\ owner = Nobody => account = "unknown" /\ (umami => choice = "granted")
    /\ owner # Nobody => /\ umami => account = "granted"
                         /\ account = "granted" => saved[owner] = "granted" \/ Due
    /\ account # "unknown" \/ page.store = "loaded" => isAuth

\* The record of a person whose guest's answer may yet cross over has no answer pressed here.
MayCross == ~tangled /\ page.store = "loaded" /\ ~page.settled /\ choice # "unknown"
                => saved[owner] # "unknown"

OneVoice == umami = faro.consent

GuestsWord == Nobody \notin unheard /\ word[Nobody] # "unknown" => choice = word[Nobody]
PersonsWord == \A p \in Persons : p \notin unheard /\ word[p] # "unknown" => Kept(calls, p, word[p], saved[p])

Facts == HeldIsOwned /\ Measured /\ MayCross /\ OneVoice
NInv == IInv /\ Facts /\ EachHonest /\ GuestsWord /\ PersonsWord

LEMMA PagesParts ==
    ASSUME IInv
    PROVE  /\ page.held \in BOOLEAN /\ page.viewer \in BOOLEAN /\ page.settled \in BOOLEAN
           /\ page.store \in {"absent", "empty", "loaded"}
           /\ page = [held |-> page.held, viewer |-> page.viewer, store |-> page.store,
                      settled |-> page.settled]
  BY Parts DEF PageStates

LEMMA FaroParts ==
    ASSUME IInv PROVE umami \in BOOLEAN /\ faro.consent \in BOOLEAN
  BY Parts DEF TrackersOK

LEMMA CallParts ==
    ASSUME IInv
    PROVE  /\ calls \in Seq(Calls) /\ Len(calls) \in Nat /\ DOMAIN calls = 1..Len(calls)
           /\ \A k \in 1..Len(calls) : calls[k] \in Calls
  BY Parts, LenProperties, ElementOfSeq DEF CallsOK

LEMMA ToldVoice == ASSUME NEW g \in BOOLEAN, Tell(g) PROVE umami' = g /\ OneVoice'
  BY DEF Tell, setUmamiConsent, setFaroConsent, OneVoice

LEMMA NInit == Init => NInv
<1> SUFFICES ASSUME Init PROVE NInv
  OBVIOUS
<1>1. IInv
  BY Begins
<1>2. Len(calls) = 0 /\ calls = <<>>
  BY DEF Init
<1>3. EachHonest /\ PersonsWord
  BY <1>2 DEF Init, EachHonest, PersonsWord, Visitors
<1>4. GuestsWord
  BY DEF Init, GuestsWord, Visitors
<1>5. Facts
  BY DEF Init, Facts, HeldIsOwned, Measured, MayCross, OneVoice
<1> QED BY <1>1, <1>3, <1>4, <1>5 DEF NInv

-----------------------------------------------------------------------------
(* The facts, step by step *)

\* Steps that change neither what the trackers were told nor what it stands on.
LEMMA FactsStay ==
    ASSUME NInv, UNCHANGED <<owner, choice, account, umami, word>>, faro'.consent = faro.consent,
           page'.held = page.held, page'.viewer = page.viewer, page'.settled = page.settled,
           page'.store = "loaded" => page.store = "loaded",
           tangled => tangled',
           ~tangled' /\ Due => Due',
           \A p \in Persons : saved'[p] = saved[p] \/ (saved'[p] # "unknown" /\ Due')
    PROVE  Facts'
<1>1. owner # Nobody => owner \in Persons
  BY Parts DEF NInv, Visitors
<1>2. HeldIsOwned' /\ OneVoice'
  BY DEF NInv, Facts, HeldIsOwned, OneVoice
<1>3. Measured'
  BY <1>1 DEF NInv, Facts, Measured, isAuth
<1>4. MayCross'
  <2>1. ~tangled /\ page.store = "loaded" => owner # Nobody
    BY DEF NInv, Facts, Measured, HeldIsOwned, isAuth
  <2> QED BY <1>1, <2>1 DEF NInv, Facts, MayCross
<1> QED BY <1>2, <1>3, <1>4 DEF Facts

LEMMA DueAppended ==
    ASSUME IInv, NEW c \in Calls, calls' = Append(calls, c), Due
    PROVE  Due'
<1> PICK r : r = Append(calls, c)
  OBVIOUS
<1>1. /\ Len(r) = Len(calls) + 1
      /\ \A k \in 1..Len(calls) : k \in 1..Len(r) /\ r[k] = calls[k]
  BY CallParts, AppendProperties
<1> QED BY <1>1 DEF Due

LEMMA FaroFacts == ASSUME NInv, FaroLoads \/ FaroFails PROVE Facts'
<1>1. faro \in [transport : {"absent", "loading", "sending", "paused"}, consent : BOOLEAN]
  BY Parts DEF NInv, TrackersOK
<1>2. faro'.consent = faro.consent
  BY <1>1 DEF FaroLoads, FaroFails
<1>3. UNCHANGED <<owner, saved, choice, account, page, umami, calls, word, tangled>>
  BY DEF FaroLoads, FaroFails, person, history
<1>4. Due => Due'
  BY <1>3 DEF Due
<1> QED BY <1>2, <1>3, <1>4, FactsStay

LEMMA OpenFacts == ASSUME NInv, OpenProfile PROVE Facts'
<1>1. /\ UNCHANGED <<owner, saved, choice, account, umami, faro, word, tangled>>
      /\ calls' = Append(calls, Call("read", "unknown"))
  BY DEF OpenProfile, person, trackers, history
<1>2. /\ page'.held = page.held /\ page'.viewer = page.viewer /\ page'.settled = page.settled
      /\ page'.store = "loaded" => page.store = "loaded"
  BY PagesParts DEF NInv, OpenProfile
<1>3. Due => Due'
  <2>1. Call("read", "unknown") \in Calls
    BY Parts, MadeCalls DEF NInv, Answers
  <2> QED BY <1>1, <2>1, DueAppended DEF NInv
<1> QED BY <1>1, <1>2, <1>3, FactsStay

LEMMA RestoreFacts == ASSUME NInv, Restore \/ LoadViewer PROVE Facts'
<1>1. UNCHANGED <<owner, saved, choice, account, umami, faro, calls, word, tangled>>
  BY DEF Restore, LoadViewer, person, trackers, history
<1>2. Due <=> Due'
  BY <1>1 DEF Due
<1>3. /\ page'.settled = page.settled /\ page'.store = page.store
      /\ page.held => page'.held
      /\ page.viewer => page'.viewer
      /\ page'.held => owner # Nobody
  BY PagesParts DEF NInv, Restore, LoadViewer, Facts, HeldIsOwned
<1>4. HeldIsOwned' /\ OneVoice' /\ MayCross'
  BY <1>1, <1>3 DEF NInv, Facts, HeldIsOwned, OneVoice, MayCross
<1>5. Measured'
  BY <1>1, <1>2, <1>3 DEF NInv, Facts, Measured, isAuth
<1> QED BY <1>4, <1>5 DEF Facts

\* The ends that tell nobody.
LEMMA QuietFacts ==
    ASSUME NInv, tangled', UNCHANGED trackers, page'.held => owner' # Nobody
    PROVE  Facts'
  BY DEF NInv, Facts, HeldIsOwned, Measured, MayCross, OneVoice, trackers

LEMMA EndsFacts ==
    ASSUME NInv, SignOutFails \/ Expires \/ EndsElsewhere
                 \/ \E p \in Persons : SignUp(p) \/ OtherTabSignsIn(p)
    PROVE  Facts'
<1>1. tangled' /\ UNCHANGED trackers
  BY DEF SignOutFails, Expires, EndsElsewhere, SignUp, OtherTabSignsIn
<1>2. page'.held => owner' # Nobody
  BY PagesParts, NobodyIsNoPerson
  DEF NInv, SignOutFails, Expires, EndsElsewhere, SignUp, OtherTabSignsIn, Forgotten, Facts, HeldIsOwned
<1> QED BY <1>1, <1>2, QuietFacts

\* The ends that tell the trackers, and a fresh page.
LEMMA ToldFacts == ASSUME NInv, SignOut \/ EndLocalSession \/ Boot PROVE Facts'
<1>1. account' = "unknown" /\ UNCHANGED choice /\ ~page'.held /\ page'.store # "loaded"
  <2>1. account' = "unknown" /\ UNCHANGED choice
    BY DEF SignOut, EndLocalSession, Boot
  <2>2. CASE page' = Forgotten("empty")
    BY <2>1, <2>2, PagesParts DEF NInv, Forgotten
  <2>3. CASE page' = [held |-> FALSE, viewer |-> FALSE, store |-> "absent", settled |-> FALSE]
    BY <2>1, <2>3
  <2> QED BY <2>1, <2>2, <2>3 DEF SignOut, EndLocalSession, Boot
<1>2. /\ umami' \in BOOLEAN /\ OneVoice'
      /\ umami' => choice = "granted" /\ owner' = Nobody
  <2>1. CASE SignOut
    <3>1. MayStart("unknown", choice, FALSE) \in BOOLEAN /\ Tell(MayStart("unknown", choice, FALSE))
      BY <2>1 DEF SignOut, syncTracker, MayStart
    <3>2. OneVoice' /\ umami' = MayStart("unknown", choice, FALSE)
      BY <3>1, ToldVoice
    <3> QED BY <2>1, <3>1, <3>2 DEF SignOut, MayStart, effective
  <2>2. CASE EndLocalSession
    <3>1. /\ MayStart("unknown", choice, HasSessionOrHint) \in BOOLEAN
          /\ Tell(MayStart("unknown", choice, HasSessionOrHint))
      BY <2>2 DEF EndLocalSession, syncTracker, MayStart
    <3>2. OneVoice' /\ umami' = MayStart("unknown", choice, HasSessionOrHint)
      BY <3>1, ToldVoice
    <3> QED BY <2>2, <3>1, <3>2 DEF EndLocalSession, MayStart, effective
  <2>3. CASE Boot
    <3>1. MayStart("unknown", choice, owner # Nobody) \in BOOLEAN
      BY DEF MayStart
    <3>2. umami' = MayStart("unknown", choice, owner # Nobody) /\ OneVoice' /\ UNCHANGED owner
      BY <2>3 DEF Boot, OneVoice, person
    <3> QED BY <3>1, <3>2 DEF MayStart, effective, Awaiting
  <2> QED BY <2>1, <2>2, <2>3
<1>3. HeldIsOwned' /\ MayCross'
  BY <1>1 DEF HeldIsOwned, MayCross
<1>4. Measured'
  BY <1>1, <1>2 DEF Measured
<1> QED BY <1>2, <1>3, <1>4 DEF Facts

LEMMA SignInFacts == ASSUME NInv, NEW p \in Persons, SignIn(p) PROVE Facts'
<1>1. /\ owner' = p /\ p # Nobody /\ account' = saved[p] /\ UNCHANGED <<choice, saved>>
      /\ page' = [held |-> TRUE, viewer |-> TRUE, store |-> "loaded",
                  settled |-> page.settled \/ Crosses(saved[p])]
  BY NobodyIsNoPerson DEF SignIn
<1>2. OneVoice' /\ umami' = (saved[p] = "granted")
  BY ToldVoice DEF SignIn
<1>3. HeldIsOwned' /\ Measured'
  BY <1>1, <1>2 DEF HeldIsOwned, Measured, isAuth
<1>4. MayCross'
  BY <1>1 DEF MayCross, Crosses
<1> QED BY <1>2, <1>3, <1>4 DEF Facts

\* What a press makes of the guest's choice and of the trackers.
LEMMA PressFacts == ASSUME NInv, NEW value \in Buttons, Press(value) PROVE Facts'
<1>1. /\ UNCHANGED <<owner, saved, account, page, tangled>>
      /\ choice' = RecordedBy(value) /\ calls' = calls \o Persisted(value)
  BY DEF Press, person
<1>2. OneVoice' /\ umami' = MayStart(account, choice', HasSessionOrHint)
  <2>1. /\ MayStart(account, choice', HasSessionOrHint) \in BOOLEAN
        /\ Tell(MayStart(account, choice', HasSessionOrHint))
    BY DEF MayStart, Press, syncTracker
  <2> QED BY <2>1, ToldVoice
<1>3. Due => Due'
  <2> PICK r : r = calls \o Persisted(value)
    OBVIOUS
  <2>1. Persisted(value) \in Seq(Calls) /\ Len(Persisted(value)) \in Nat
    BY Parts, MadeCalls, LenProperties DEF NInv
  <2>2. /\ Len(r) = Len(calls) + Len(Persisted(value))
        /\ \A k \in 1..Len(calls) : k \in 1..Len(r) /\ r[k] = calls[k]
    BY <2>1, CallParts, ConcatProperties DEF NInv
  <2> QED BY <1>1, <2>2 DEF Due
<1>4. HeldIsOwned' /\ MayCross'
  BY <1>1 DEF NInv, Facts, HeldIsOwned, MayCross, Measured, RecordedBy
<1>5. Measured'
  <2> SUFFICES ASSUME ~tangled PROVE Measured'
    BY <1>1 DEF Measured
  <2>1. CASE owner = Nobody
    <3>1. ~page.held /\ account = "unknown"
      BY <2>1 DEF NInv, Facts, Measured, HeldIsOwned
    <3>2. umami' => choice' = "granted"
      BY <1>2, <3>1 DEF MayStart, effective
    <3> QED BY <1>1, <2>1, <3>1, <3>2 DEF NInv, Facts, Measured, isAuth
  <2>2. CASE owner # Nobody
    <3>1. umami' => account = "granted"
      BY <1>2, <2>2 DEF MayStart, effective, Awaiting, HasSessionOrHint
    <3> QED BY <1>1, <1>3, <2>2, <3>1 DEF NInv, Facts, Measured, isAuth
  <2> QED BY <2>1, <2>2
<1> QED BY <1>2, <1>4, <1>5 DEF Facts

LEMMA HandleFacts == ASSUME NInv, NEW i \in 1..Len(calls), Handle(i) PROVE Facts'
<1> PICK c : c = calls[i]
  OBVIOUS
<1>1. c \in Calls /\ c.as \in Persons
  BY CallParts DEF NInv, Handle, Calls, Visitors
<1>2. UNCHANGED <<owner, choice, account, umami, faro, page, word, tangled>>
  BY DEF Handle, trackers
<1>3. CASE IsRead(i)
  <2>1. UNCHANGED saved /\ calls' = [calls EXCEPT ![i].done = TRUE, ![i].value = saved[c.as]]
    BY <1>3 DEF Handle
  <2>2. /\ Len(calls') = Len(calls)
        /\ \A k \in 1..Len(calls) : calls'[k].what = calls[k].what /\ (calls[k].done => calls'[k].done)
    <3>1. [c EXCEPT !.done = TRUE, !.value = saved[c.as]] \in Calls
      BY <1>1, Parts, MarkedCall DEF NInv
    <3> PICK d : d = [c EXCEPT !.done = TRUE, !.value = saved[c.as]]
      OBVIOUS
    <3> PICK r : r = [calls EXCEPT ![i] = d]
      OBVIOUS
    <3>2. calls' = r
      BY <2>1, CallParts DEF NInv
    <3>3. d.what = c.what /\ d.done
      BY <1>1 DEF Calls
    <3>4. Len(r) = Len(calls) /\ \A k \in 1..Len(calls) : r[k] = IF k = i THEN d ELSE calls[k]
      BY <3>1, CallParts, ExceptSeq DEF NInv
    <3> QED BY <3>2, <3>3, <3>4
  <2>3. Due => Due'
    BY <2>2 DEF Due
  <2> QED BY <1>2, <2>1, <2>3, FactsStay
<1>4. CASE ~IsRead(i)
  <2>1. saved' = [saved EXCEPT ![c.as] = c.value] /\ calls' = [PassedByWrite(i) EXCEPT ![i].done = TRUE]
    BY <1>4 DEF Handle, IsRead
  <2>2. c.value \in Buttons /\ c.what = "write"
    BY <1>4 DEF NInv, EachHonest, Honest, IsRead
  <2>3. Due'
    <3> PICK s : s = PassedByWrite(i)
      OBVIOUS
    <3>1. s \in Seq(Calls) /\ Len(s) = Len(calls) /\ i \in 1..Len(s)
      BY Parts, CallParts, CallsOnTheirWay DEF NInv
    <3>5. s[i] \in Calls
      BY <3>1, ElementOfSeq
    <3>6. s[i].what = "write"
      <4>1. s[i] = [calls[i] EXCEPT !.passed = @ \/ (IF IsRead(i) THEN calls[i].done ELSE i < i)]
        BY CallParts DEF NInv, PassedByWrite
      <4> QED BY <2>2, <4>1, <1>1 DEF Calls
    <3> PICK d : d = [s[i] EXCEPT !.done = TRUE]
      OBVIOUS
    <3>2. d.what = "write" /\ d.done
      BY <3>5, <3>6 DEF Calls
    <3>7. d \in Calls
      BY <3>5, MarkedCall
    <3> PICK r : r = [s EXCEPT ![i] = d]
      OBVIOUS
    <3>3. calls' = r
      BY <2>1, <3>1
    <3>8. s \in Seq(Calls) /\ i \in 1..Len(s) /\ d \in Calls
      BY <3>1, <3>7
    <3>9. r = [s EXCEPT ![i] = d]
      OBVIOUS
    <3>10. Len(r) = Len(s) /\ r[i] = d
      BY ONLY <3>8, <3>9, OneChanged
    <3>4. Len(r) = Len(calls) /\ r[i] = d
      BY <3>1, <3>10
    <3> QED BY <3>2, <3>3, <3>4 DEF Due
  <2>4. \A p \in Persons : saved'[p] = saved[p] \/ (saved'[p] # "unknown" /\ Due')
    BY <1>1, <2>1, <2>2, <2>3, Parts DEF NInv, Buttons
  <2> QED BY <1>2, <2>3, <2>4, FactsStay
<1> QED BY <1>3, <1>4

LEMMA WriteFacts == ASSUME NInv, NEW i \in 1..Len(calls), WriteLands(i) PROVE Facts'
<1>1. /\ page' = [page EXCEPT !.viewer = TRUE]
      /\ calls' = Append(RemoveAt(calls, i), Call("reread", "unknown"))
  BY DEF WriteLands
<1>2. Due'
  <2> PICK s : s = RemoveAt(calls, i)
    OBVIOUS
  <2> PICK c : c = Call("reread", "unknown")
    OBVIOUS
  <2> PICK r : r = Append(s, c)
    OBVIOUS
  <2>1. s \in Seq(Calls) /\ c \in Calls /\ c.what = "reread"
    BY RestOfThem, CallParts, Parts, MadeCalls DEF NInv, Answers, Call
  <2>2. Len(r) = Len(s) + 1 /\ r[Len(s) + 1] = c /\ Len(s) \in Nat
    BY <2>1, AppendProperties, LenProperties
  <2>3. Len(r) \in 1..Len(r) /\ r[Len(r)] = c
    BY <2>2
  <2> QED BY <1>1, <2>1, <2>3 DEF Due
<1>3. /\ page'.held = page.held /\ page'.settled = page.settled /\ page'.store = page.store
      /\ page'.viewer
  BY <1>1, PagesParts DEF NInv
<1>6. UNCHANGED <<owner, saved, choice, account, umami, faro>> /\ (tangled => tangled')
  BY DEF WriteLands, person, trackers
<1>4. HeldIsOwned' /\ OneVoice' /\ MayCross'
  BY <1>3, <1>6 DEF NInv, Facts, HeldIsOwned, OneVoice, MayCross
<1>5. Measured'
  BY <1>2, <1>3, <1>6 DEF NInv, Facts, Measured, isAuth
<1> QED BY <1>4, <1>5 DEF Facts

LEMMA ReadFacts == ASSUME NInv, NEW i \in 1..Len(calls), ReadLands(i) PROVE Facts'
<1> PICK c : c = calls[i]
  OBVIOUS
<1>1. /\ UNCHANGED <<owner, saved, choice>> /\ tangled' = (c.stale \/ c.passed)
      /\ c.done /\ c.what # "write" /\ account' = c.value /\ Tell(c.value = "granted")
      /\ page' = [held |-> page.held, viewer |-> TRUE, store |-> "loaded",
                  settled |-> page.settled \/ Crosses(c.value)]
  BY DEF ReadLands, IsRead, Load, person
<1>2. umami' = (c.value = "granted") /\ OneVoice'
  BY <1>1, ToldVoice
<1>3. HeldIsOwned'
  BY <1>1 DEF NInv, Facts, HeldIsOwned
<1>4. ~tangled' => owner # Nobody /\ page.held /\ c.value = saved[owner]
  BY <1>1 DEF NInv, EachHonest, Honest
<1>5. Measured'
  BY <1>1, <1>2, <1>4 DEF Measured, isAuth
<1>6. MayCross'
  BY <1>1, <1>4 DEF MayCross, Crosses
<1> QED BY <1>2, <1>3, <1>5, <1>6 DEF Facts

LEMMA FailFacts == ASSUME NInv, NEW i \in 1..Len(calls), Fail(i) PROVE Facts'
<1>1. /\ calls' = RemoveAt(calls, i)
      /\ ~tangled' => calls[i].what # "reread" /\ ~(calls[i].what = "write" /\ calls[i].done)
  BY DEF Fail
<1>2. ~tangled' /\ Due => Due'
  <2> PICK s : s = RemoveAt(calls, i)
    OBVIOUS
  <2>1. \A j \in 1..Len(calls) : j # i => \E k \in 1..Len(s) : s[k] = calls[j]
    BY RestOfThem, CallParts DEF NInv
  <2> QED BY <1>1, <2>1 DEF Due
<1>3. /\ UNCHANGED <<owner, choice, account, umami, word, saved>> /\ faro'.consent = faro.consent
      /\ page'.held = page.held /\ page'.viewer = page.viewer /\ page'.settled = page.settled
      /\ page'.store = page.store
  BY DEF Fail, person, trackers
<1>4. tangled => tangled'
  BY DEF Fail
<1> QED BY <1>2, <1>3, <1>4, FactsStay

LEMMA NextFacts == ASSUME NInv, [Next]_vars PROVE Facts'
<1>0. DOMAIN calls = 1..Len(calls)
  BY CallParts DEF NInv
<1>1. CASE UNCHANGED vars
  BY <1>1 DEF NInv, Facts, HeldIsOwned, Measured, MayCross, OneVoice, Due, isAuth, vars
<1>2. ASSUME NEW value \in Buttons, Press(value) PROVE Facts'
  BY <1>2, PressFacts
<1>3. ASSUME NEW i \in DOMAIN calls, Handle(i) \/ WriteLands(i) \/ ReadLands(i) \/ Fail(i)
      PROVE  Facts'
  BY <1>0, <1>3, HandleFacts, WriteFacts, ReadFacts, FailFacts
<1>4. ASSUME NEW p \in Persons, SignIn(p) \/ SignUp(p) \/ OtherTabSignsIn(p) PROVE Facts'
  BY <1>4, SignInFacts, EndsFacts
<1>5. CASE \/ FaroLoads \/ FaroFails \/ OpenProfile \/ Restore \/ LoadViewer
           \/ SignOut \/ SignOutFails \/ EndLocalSession \/ Expires \/ EndsElsewhere \/ Boot
  BY <1>5, FaroFacts, OpenFacts, RestoreFacts, ToldFacts, EndsFacts
<1> QED BY <1>1, <1>2, <1>3, <1>4, <1>5 DEF Next

-----------------------------------------------------------------------------
(* How a step changes the calls there are, by position *)

SameOf(d, c) == d.what = c.what /\ d.as = c.as /\ d.value = c.value
Like(d, c) == SameOf(d, c) /\ d.done = c.done /\ d.stale = c.stale

LEMMA StaleShape ==
    ASSUME NInv
    PROVE  /\ Stale \in Seq(Calls) /\ Len(Stale) = Len(calls)
           /\ \A k \in 1..Len(calls) : /\ SameOf(Stale[k], calls[k]) /\ Stale[k].stale
                                       /\ Stale[k].done = calls[k].done
<1>1. ASSUME NEW k \in 1..Len(calls)
      PROVE  SameOf(Stale[k], calls[k]) /\ Stale[k].stale /\ Stale[k].done = calls[k].done
  <2>1. Stale[k] = [calls[k] EXCEPT !.stale = TRUE] /\ calls[k] \in Calls
    BY CallParts DEF NInv, Stale
  <2> QED BY <2>1 DEF Calls, SameOf
<1> QED BY <1>1, Parts, CallsOnTheirWay DEF NInv

LEMMA HandledRead ==
    ASSUME NInv, NEW i \in 1..Len(calls), Handle(i), IsRead(i)
    PROVE  /\ calls' \in Seq(Calls) /\ Len(calls') = Len(calls)
           /\ \A k \in 1..Len(calls) : k # i => calls'[k] = calls[k]
           /\ calls'[i].what = calls[i].what /\ calls'[i].as = calls[i].as
           /\ calls'[i].value = saved[calls[i].as] /\ calls'[i].done
           /\ calls'[i].stale = calls[i].stale
<1> PICK c : c = calls[i]
  OBVIOUS
<1>1. c \in Calls /\ c.as \in Persons
  BY CallParts DEF NInv, Handle, Calls, Visitors
<1> PICK d : d = [c EXCEPT !.done = TRUE, !.value = saved[c.as]]
  OBVIOUS
<1>2. d \in Calls
  <2>1. saved[c.as] \in Answers
    BY <1>1, Parts DEF NInv
  <2> QED BY <1>1, <2>1, MarkedCall
<1>3. /\ d.what = c.what /\ d.as = c.as /\ d.value = saved[c.as] /\ d.done /\ d.stale = c.stale
  BY <1>1 DEF Calls
<1> PICK r : r = calls'
  OBVIOUS
<1>4. calls \in Seq(Calls) /\ r = [calls EXCEPT ![i] = d]
  BY CallParts DEF NInv, Handle, IsRead
<1>5. r \in Seq(Calls) /\ Len(r) = Len(calls) /\ r[i] = d /\ \A k \in 1..Len(calls) : k # i => r[k] = calls[k]
  BY ONLY <1>2, <1>4, OneChanged, i \in 1..Len(calls)
<1> QED BY <1>3, <1>5

LEMMA HandledWrite ==
    ASSUME NInv, NEW i \in 1..Len(calls), Handle(i), ~IsRead(i)
    PROVE  /\ calls' \in Seq(Calls) /\ Len(calls') = Len(calls)
           /\ SameOf(calls'[i], calls[i]) /\ calls'[i].done /\ calls'[i].stale = calls[i].stale
           /\ \A k \in 1..Len(calls) : k # i => 
                /\ Like(calls'[k], calls[k])
                /\ calls'[k].passed <=> calls[k].passed \/ (IF IsRead(k) THEN calls[k].done ELSE k < i)
<1> PICK s : s = PassedByWrite(i)
  OBVIOUS
<1>1. s \in Seq(Calls) /\ Len(s) = Len(calls) /\ i \in 1..Len(s)
  BY Parts, CallParts, CallsOnTheirWay DEF NInv
<1>2. ASSUME NEW k \in 1..Len(calls)
      PROVE  /\ Like(s[k], calls[k])
             /\ s[k].passed <=> calls[k].passed \/ (IF IsRead(k) THEN calls[k].done ELSE k < i)
  <2>1. /\ s[k] = [calls[k] EXCEPT !.passed = @ \/ (IF IsRead(k) THEN calls[k].done ELSE k < i)]
        /\ calls[k] \in Calls
    BY CallParts DEF NInv, PassedByWrite
  <2> QED BY <2>1 DEF Calls, Like, SameOf
<1> PICK d : d = [s[i] EXCEPT !.done = TRUE]
  OBVIOUS
<1>3. s[i] \in Calls
  BY <1>1, ElementOfSeq
<1>4. d \in Calls
  BY <1>3, MarkedCall
<1>5. SameOf(d, s[i]) /\ d.done /\ d.stale = s[i].stale
  BY <1>3 DEF Calls, SameOf
<1> PICK r : r = calls'
  OBVIOUS
<1>6. r = [s EXCEPT ![i] = d]
  BY <1>1 DEF Handle, IsRead
<1>7. r \in Seq(Calls) /\ Len(r) = Len(s) /\ r[i] = d /\ \A k \in 1..Len(s) : k # i => r[k] = s[k]
  BY ONLY <1>1, <1>4, <1>6, OneChanged
<1> QED BY <1>1, <1>2, <1>5, <1>7 DEF Like, SameOf

LEMMA PassedShape ==
    ASSUME NInv, NEW i \in 1..Len(calls)
    PROVE  /\ PassedByAnswer(i) \in Seq(Calls) /\ Len(PassedByAnswer(i)) = Len(calls)
           /\ \A k \in 1..Len(calls) : 
                /\ Like(PassedByAnswer(i)[k], calls[k])
                /\ PassedByAnswer(i)[k].passed <=> calls[k].passed \/ (IsRead(k) /\ k < i)
<1>1. ASSUME NEW k \in 1..Len(calls)
      PROVE  /\ Like(PassedByAnswer(i)[k], calls[k])
             /\ PassedByAnswer(i)[k].passed <=> calls[k].passed \/ (IsRead(k) /\ k < i)
  <2>1. /\ PassedByAnswer(i)[k] = [calls[k] EXCEPT !.passed = @ \/ (IsRead(k) /\ k < i)]
        /\ calls[k] \in Calls
    BY CallParts DEF NInv, PassedByAnswer
  <2> QED BY <2>1 DEF Calls, Like, SameOf
<1> QED BY <1>1, Parts, CallParts, CallsOnTheirWay DEF NInv

LEMMA NewCall ==
    ASSUME NInv, NEW w \in {"read", "reread", "write"}, NEW v \in Answers
    PROVE  /\ Call(w, v) \in Calls /\ Call(w, v).what = w /\ Call(w, v).as = Credential
           /\ Call(w, v).value = v /\ ~Call(w, v).done /\ ~Call(w, v).stale /\ ~Call(w, v).passed
  BY Parts, MadeCalls DEF NInv, Call

-----------------------------------------------------------------------------
(* Every call stays honest *)

\* An honest call stays so while its session does and the record says what it said.
LEMMA HonestStays ==
    ASSUME NEW c, Honest(c), UNCHANGED <<owner, saved>>, page.held => page'.held,
           page.store = "loaded" => page'.store = "loaded", tangled => tangled' \/ page'.store = "loaded"
    PROVE  Honest(c)'
  BY DEF Honest

LEMMA NewIsHonest ==
    ASSUME NInv, NEW c \in Calls, ~c.done, c.as = Credential, UNCHANGED owner, page'.held = page.held,
           c.what = "write" => c.value \in Buttons /\ page'.store = "loaded"
    PROVE  Honest(c)'
  BY DEF Honest, Credential

LEMMA AppendedEach ==
    ASSUME NEW s \in Seq(Calls), NEW c \in Calls, calls' = Append(s, c), Honest(c)',
           \A k \in 1..Len(s) : Honest(s[k])'
    PROVE  EachHonest'
<1> PICK r : r = Append(s, c)
  OBVIOUS
<1>1. /\ Len(r) = Len(s) + 1 /\ Len(s) \in Nat /\ r[Len(s) + 1] = c
      /\ \A k \in 1..Len(s) : r[k] = s[k]
  BY AppendProperties, LenProperties
<1>2. ASSUME NEW k \in 1..Len(r) PROVE Honest(r[k])'
  <2>1. k \in 1..Len(s) \/ k = Len(s) + 1
    BY <1>1
  <2> QED BY <1>1, <2>1
<1> QED BY <1>2 DEF EachHonest

\* No session was opened or ended.
LEMMA SameEach ==
    ASSUME NInv, UNCHANGED <<owner, saved, calls>>, page.held => page'.held,
           page.store = "loaded" => page'.store = "loaded", tangled => tangled'
    PROVE  EachHonest'
<1>1. \A k \in 1..Len(calls) : Honest(calls[k])
  BY DEF NInv, EachHonest
<1> PICK s : s = calls
  OBVIOUS
<1>2. \A k \in 1..Len(s) : Honest(s[k])'
  BY <1>1, HonestStays
<1> QED BY <1>2 DEF EachHonest

LEMMA StaleIsHonest ==
    ASSUME NInv, NEW s, s = Stale
    PROVE  \A k \in 1..Len(s) : Honest(s[k])'
<1>1. \A k \in 1..Len(s) : s[k].stale /\ SameOf(s[k], calls[k]) /\ s[k].done = calls[k].done
                           /\ k \in 1..Len(calls)
  BY StaleShape
<1>2. \A k \in 1..Len(s) : /\ s[k].what = "write" => s[k].value \in Buttons
                           /\ s[k].done => s[k].as # Nobody
  BY <1>1 DEF NInv, EachHonest, Honest, SameOf
<1> QED BY <1>1, <1>2 DEF Honest

LEMMA EndsEach ==
    ASSUME NInv, calls' = Stale
    PROVE  EachHonest'
<1> PICK s : s = Stale
  OBVIOUS
<1>1. \A k \in 1..Len(s) : Honest(s[k])'
  BY StaleIsHonest
<1> QED BY <1>1 DEF EachHonest

LEMMA SignInEach == ASSUME NInv, NEW p \in Persons, SignIn(p) PROVE EachHonest'
<1> PICK s : s = Stale
  OBVIOUS
<1>1. s \in Seq(Calls) /\ \A k \in 1..Len(s) : Honest(s[k])'
  BY StaleShape, StaleIsHonest
<1>2. CASE ~Crosses(saved[p])
  BY <1>2, EndsEach DEF SignIn
<1>3. CASE Crosses(saved[p])
  <2> PICK c : c = [Call("write", choice) EXCEPT !.as = p]
    OBVIOUS
  <2>1. choice \in Buttons /\ choice \in Answers
    BY <1>3, Parts DEF NInv, Crosses, Buttons, Answers
  <2>2. /\ c \in Calls /\ c.what = "write" /\ c.as = p /\ c.value = choice /\ ~c.done
    <3>1. Call("write", choice) \in Calls
      BY <2>1, NewCall
    <3>2. c \in Calls
      BY <3>1, MarkedCall DEF Visitors
    <3> QED BY <3>2 DEF Call
  <2>3. page'.held /\ page'.store = "loaded" /\ owner' = p
    BY DEF SignIn
  <2>4. Honest(c)'
    BY <2>1, <2>2, <2>3 DEF Honest
  <2> QED BY <1>1, <1>3, <2>2, <2>4, AppendedEach DEF SignIn
<1> QED BY <1>2, <1>3

LEMMA PressEach == ASSUME NInv, NEW value \in Buttons, Press(value) PROVE EachHonest'
<1>1. UNCHANGED <<owner, saved, account, page, tangled>> /\ calls' = calls \o Persisted(value)
  BY DEF Press, person
<1>2. \A k \in 1..Len(calls) : Honest(calls[k])
  BY DEF NInv, EachHonest
<1> PICK s : s = calls
  OBVIOUS
<1>3. s \in Seq(Calls) /\ \A k \in 1..Len(s) : Honest(s[k])'
  BY <1>1, <1>2, CallParts, HonestStays DEF NInv
<1>4. CASE isAuth /\ page.store = "loaded"
  <2> PICK c : c = Call("write", value)
    OBVIOUS
  <2>1. c \in Calls /\ c.what = "write" /\ c.as = Credential /\ c.value = value /\ ~c.done
    BY NewCall DEF Buttons, Answers
  <2>2. Honest(c)'
    BY <1>1, <1>4, <2>1, NewIsHonest
  <2>3. calls' = Append(s, c)
    BY <1>1, <1>3, <1>4, <2>1, AppendIsConcat DEF Persisted
  <2> QED BY <1>3, <2>1, <2>2, <2>3, AppendedEach
<1>5. CASE ~(isAuth /\ page.store = "loaded")
  <2>1. UNCHANGED calls
    BY <1>1, <1>3, <1>5, ConcatEmptySeq DEF Persisted
  <2> QED BY <1>1, <2>1, SameEach
<1> QED BY <1>4, <1>5

LEMMA OpenEach == ASSUME NInv, OpenProfile PROVE EachHonest'
<1>1. UNCHANGED <<owner, saved, tangled>> /\ calls' = Append(calls, Call("read", "unknown"))
  BY DEF OpenProfile, person
<1>2. page'.held = page.held /\ (page.store = "loaded" => page'.store = "loaded")
  BY PagesParts DEF NInv, OpenProfile
<1> PICK s : s = calls
  OBVIOUS
<1>3. s \in Seq(Calls) /\ \A k \in 1..Len(s) : Honest(s[k])'
  BY <1>1, <1>2, CallParts, HonestStays DEF NInv, EachHonest
<1> PICK c : c = Call("read", "unknown")
  OBVIOUS
<1>4. c \in Calls /\ c.what = "read" /\ c.as = Credential /\ ~c.done
  BY NewCall DEF Answers
<1>5. Honest(c)'
  BY <1>1, <1>2, <1>4, NewIsHonest
<1> QED BY <1>1, <1>3, <1>4, <1>5, AppendedEach

LEMMA HandleEach == ASSUME NInv, NEW i \in 1..Len(calls), Handle(i) PROVE EachHonest'
<1>1. UNCHANGED <<owner, page, tangled>> /\ calls[i].as # Nobody /\ calls[i].as \in Persons
  BY CallParts DEF NInv, Handle, Calls, Visitors
<1>2. \A k \in 1..Len(calls) : Honest(calls[k])
  BY DEF NInv, EachHonest
<1> PICK r : r = calls'
  OBVIOUS
<1>3. CASE IsRead(i)
  <2>1. /\ Len(r) = Len(calls) /\ \A k \in 1..Len(calls) : k # i => r[k] = calls[k]
        /\ r[i].what = calls[i].what /\ r[i].as = calls[i].as
        /\ r[i].value = saved[calls[i].as] /\ r[i].done /\ r[i].stale = calls[i].stale
    BY <1>3, HandledRead
  <2>2. UNCHANGED saved /\ calls[i].what # "write"
    BY <1>3 DEF Handle, IsRead
  <2>3. Honest(r[i])'
    BY <1>1, <1>2, <2>1, <2>2 DEF Honest
  <2>4. \A k \in 1..Len(calls) : k # i => Honest(r[k])'
    BY <1>1, <1>2, <2>1, <2>2, HonestStays
  <2>5. \A k \in 1..Len(r) : Honest(r[k])'
    BY <2>1, <2>3, <2>4
  <2> QED BY <2>5 DEF EachHonest
<1>4. CASE ~IsRead(i)
  <2>1. /\ Len(r) = Len(calls) /\ SameOf(r[i], calls[i]) /\ r[i].done /\ r[i].stale = calls[i].stale
        /\ \A k \in 1..Len(calls) : k # i => 
                /\ Like(r[k], calls[k])
                /\ r[k].passed <=> calls[k].passed \/ (IF IsRead(k) THEN calls[k].done ELSE k < i)
    BY <1>4, HandledWrite
  <2>2. calls[i].what = "write"
    BY <1>4 DEF IsRead
  <2>3. Honest(r[i])'
    BY <1>1, <1>2, <2>1, <2>2 DEF Honest, SameOf
  <2>4. ASSUME NEW k \in 1..Len(calls), k # i PROVE Honest(r[k])'
    <3>1. /\ Like(r[k], calls[k]) /\ Honest(calls[k])
          /\ calls[k].what # "write" /\ calls[k].done => r[k].passed
      BY <1>2, <2>1, <2>4 DEF IsRead
    <3> QED BY <1>1, <3>1 DEF Honest, Like, SameOf
  <2>5. \A k \in 1..Len(r) : Honest(r[k])'
    BY <2>1, <2>3, <2>4
  <2> QED BY <2>5 DEF EachHonest
<1> QED BY <1>3, <1>4

LEMMA WriteEach == ASSUME NInv, NEW i \in 1..Len(calls), WriteLands(i) PROVE EachHonest'
<1>1. /\ UNCHANGED <<owner, saved>> /\ (tangled => tangled')
      /\ page'.held = page.held /\ page'.store = page.store
  BY PagesParts DEF NInv, WriteLands, person
<1> PICK s : s = RemoveAt(calls, i)
  OBVIOUS
<1>2. s \in Seq(Calls) /\ \A k \in 1..Len(s) : \E j \in 1..Len(calls) : s[k] = calls[j]
  BY CallParts, RestOfThem DEF NInv
<1>3. \A k \in 1..Len(s) : Honest(s[k])
  BY <1>2 DEF NInv, EachHonest
<1>4. \A k \in 1..Len(s) : Honest(s[k])'
  BY <1>1, <1>3, HonestStays
<1> PICK c : c = Call("reread", "unknown")
  OBVIOUS
<1>5. c \in Calls /\ c.what = "reread" /\ c.as = Credential /\ ~c.done
  BY NewCall DEF Answers
<1>6. Honest(c)'
  BY <1>1, <1>5, NewIsHonest
<1> QED BY <1>2, <1>4, <1>5, <1>6, AppendedEach DEF WriteLands

LEMMA FailEach == ASSUME NInv, NEW i \in 1..Len(calls), Fail(i) PROVE EachHonest'
<1>1. UNCHANGED <<owner, saved, page>> /\ (tangled => tangled')
  BY DEF Fail, person
<1> PICK s : s = RemoveAt(calls, i)
  OBVIOUS
<1>2. \A k \in 1..Len(s) : \E j \in 1..Len(calls) : s[k] = calls[j]
  BY CallParts, RestOfThem DEF NInv
<1>3. \A k \in 1..Len(s) : Honest(s[k])
  BY <1>2 DEF NInv, EachHonest
<1>4. \A k \in 1..Len(s) : Honest(s[k])'
  BY <1>1, <1>3, HonestStays
<1> QED BY <1>4 DEF EachHonest, Fail

\* What an answer leaves of the calls.
LEMMA LeftByAnswer ==
    ASSUME NInv, NEW i \in 1..Len(calls), ReadLands(i), NEW s, s = RemoveAt(PassedByAnswer(i), i)
    PROVE  /\ s \in Seq(Calls)
           /\ calls' = s \/ (Crosses(calls[i].value) /\ calls' = Append(s, Call("write", choice)))
           /\ ~Crosses(calls[i].value) => calls' = s
           /\ \A k \in 1..Len(s) : \E j \in 1..Len(calls) : 
                Like(s[k], calls[j]) /\ (calls[j].passed => s[k].passed)
<1> PICK q : q = PassedByAnswer(i)
  OBVIOUS
<1>1. /\ q \in Seq(Calls) /\ Len(q) = Len(calls)
      /\ \A k \in 1..Len(calls) : Like(q[k], calls[k]) /\ (calls[k].passed => q[k].passed)
  BY PassedShape
<1>2. i \in 1..Len(q) /\ s = RemoveAt(q, i)
  BY <1>1
<1>3. s \in Seq(Calls) /\ \A k \in 1..Len(s) : \E j \in 1..Len(q) : s[k] = q[j]
  <2>1. q \in Seq(Calls) /\ i \in 1..Len(q)
    BY <1>1, <1>2
  <2>2. /\ RemoveAt(q, i) \in Seq(Calls)
        /\ \A k \in 1..Len(RemoveAt(q, i)) : \E j \in 1..Len(q) : RemoveAt(q, i)[k] = q[j]
    BY ONLY <2>1, RestOfThem
  <2> QED BY ONLY <1>2, <2>2
<1>4. \A k \in 1..Len(s) : \E j \in 1..Len(calls) : 
          Like(s[k], calls[j]) /\ (calls[j].passed => s[k].passed)
  BY <1>1, <1>3
<1>5. calls' = IF Crosses(calls[i].value) THEN Append(s, Call("write", choice)) ELSE s
  BY DEF ReadLands, Load
<1> QED BY <1>3, <1>4, <1>5

LEMMA ReadEach == ASSUME NInv, NEW i \in 1..Len(calls), ReadLands(i) PROVE EachHonest'
<1>1. /\ UNCHANGED <<owner, saved>> /\ page'.held = page.held /\ page'.store = "loaded"
  BY PagesParts DEF NInv, ReadLands, Load, person
<1> PICK s : s = RemoveAt(PassedByAnswer(i), i)
  OBVIOUS
<1>2. /\ s \in Seq(Calls)
      /\ calls' = s \/ (Crosses(calls[i].value) /\ calls' = Append(s, Call("write", choice)))
      /\ \A k \in 1..Len(s) : \E j \in 1..Len(calls) : 
             Like(s[k], calls[j]) /\ (calls[j].passed => s[k].passed)
  BY LeftByAnswer
<1>3. ASSUME NEW k \in 1..Len(s) PROVE Honest(s[k])'
  <2>1. PICK j \in 1..Len(calls) : Like(s[k], calls[j]) /\ (calls[j].passed => s[k].passed)
    BY <1>2
  <2>2. Honest(calls[j])
    BY DEF NInv, EachHonest
  <2>3. Honest(s[k])
    BY <2>1, <2>2 DEF Honest, Like, SameOf
  <2> QED BY <1>1, <2>3, HonestStays
<1>4. CASE calls' = s
  BY <1>3, <1>4 DEF EachHonest
<1>5. CASE Crosses(calls[i].value) /\ calls' = Append(s, Call("write", choice))
  <2> PICK c : c = Call("write", choice)
    OBVIOUS
  <2>1. choice \in Buttons /\ choice \in Answers
    BY <1>5, Parts DEF NInv, Crosses, Buttons, Answers
  <2>2. c \in Calls /\ c.what = "write" /\ c.as = Credential /\ c.value = choice /\ ~c.done
    BY <2>1, NewCall
  <2>3. Honest(c)'
    BY <1>1, <2>1, <2>2, NewIsHonest
  <2> QED BY <1>2, <1>3, <1>5, <2>2, <2>3, AppendedEach
<1> QED BY <1>2, <1>4, <1>5

LEMMA NextEach == ASSUME NInv, [Next]_vars PROVE EachHonest'
<1>0. DOMAIN calls = 1..Len(calls)
  BY CallParts DEF NInv
<1>1. CASE UNCHANGED vars
  <2>1. UNCHANGED <<owner, saved, calls, page, tangled>>
    BY <1>1 DEF vars
  <2> QED BY <2>1, SameEach
<1>2. ASSUME NEW value \in Buttons, Press(value) PROVE EachHonest'
  BY <1>2, PressEach
<1>3. ASSUME NEW i \in DOMAIN calls, Handle(i) \/ WriteLands(i) \/ ReadLands(i) \/ Fail(i)
      PROVE  EachHonest'
  BY <1>0, <1>3, HandleEach, WriteEach, ReadEach, FailEach
<1>4. ASSUME NEW p \in Persons, SignIn(p) \/ SignUp(p) \/ OtherTabSignsIn(p) PROVE EachHonest'
  <2>1. CASE SignUp(p) \/ OtherTabSignsIn(p)
    BY <2>1, EndsEach DEF SignUp, OtherTabSignsIn
  <2> QED BY <1>4, <2>1, SignInEach
<1>5. CASE FaroLoads \/ FaroFails \/ Restore \/ LoadViewer
  <2>1. UNCHANGED <<owner, saved, calls, tangled>>
    BY <1>5 DEF FaroLoads, FaroFails, Restore, LoadViewer, person
  <2>2. (page.held => page'.held) /\ page'.store = page.store
    BY <1>5, PagesParts DEF NInv, FaroLoads, FaroFails, Restore, LoadViewer
  <2> QED BY <2>1, <2>2, SameEach
<1>6. CASE OpenProfile
  BY <1>6, OpenEach
<1>7. CASE SignOut \/ SignOutFails \/ EndLocalSession \/ Expires \/ EndsElsewhere
  BY <1>7, EndsEach DEF SignOut, SignOutFails, EndLocalSession, Expires, EndsElsewhere
<1>8. CASE Boot
  BY <1>8 DEF Boot, EachHonest
<1> QED BY <1>1, <1>2, <1>3, <1>4, <1>5, <1>6, <1>7, <1>8 DEF Next

-----------------------------------------------------------------------------
(* Everybody's last word *)

Words == GuestsWord /\ PersonsWord

\* Nobody pressed anything.
LEMMA WordsStay ==
    ASSUME NInv, UNCHANGED <<choice, word>>, unheard \subseteq unheard', NEW r, calls' = r,
           \A p \in Persons : p \notin unheard' /\ word[p] # "unknown"
                                => Kept(r, p, word[p], saved'[p])
    PROVE  Words'
<1>1. GuestsWord'
  BY DEF NInv, GuestsWord
<1>2. PersonsWord'
  BY DEF PersonsWord
<1> QED BY <1>1, <1>2 DEF Words

LEMMA SameWords ==
    ASSUME NInv, UNCHANGED <<choice, word, unheard, calls, saved>>
    PROVE  Words'
  BY DEF NInv, Words, GuestsWord, PersonsWord

LEMMA WordOf ==
    ASSUME NInv, NEW p \in Persons, p \notin unheard, word[p] # "unknown"
    PROVE  Kept(calls, p, word[p], saved[p])
  BY DEF NInv, PersonsWord

\* A session's beginning or end: what was pressed in the last one is in doubt.
LEMMA KeptStale ==
    ASSUME NInv, NEW p, NEW w, NEW v, NEW s, s = Stale, Kept(calls, p, w, v)
    PROVE  /\ Kept(s, p, w, v)
           /\ v # w => \E k \in 1..Len(s) : Doubtful(s[k], p)
<1>1. /\ s \in Seq(Calls) /\ Len(s) = Len(calls) /\ calls \in Seq(Calls)
      /\ \A k \in 1..Len(calls) : /\ SameOf(s[k], calls[k]) /\ s[k].stale
                                  /\ s[k].done = calls[k].done
  BY StaleShape, CallParts DEF NInv
<1>2. \A k \in 1..Len(calls) : /\ Doubtful(calls[k], p) \/ Alive(calls[k], p) => Doubtful(s[k], p)
                               /\ ~Alive(s[k], p)
  BY <1>1 DEF Doubtful, Alive, SameOf
<1>3. Kept(s, p, w, v)
  BY <1>1, <1>2, KeptChanged
<1>4. v # w => \E k \in 1..Len(s) : Doubtful(s[k], p)
  BY <1>1, <1>2, <1>3 DEF Kept
<1> QED BY <1>3, <1>4

LEMMA EndsWords ==
    ASSUME NInv, calls' = Stale, UNCHANGED <<choice, word, unheard>>,
           \A p \in Persons : saved'[p] = saved[p] \/ saved[p] = "unknown"
    PROVE  Words'
<1> PICK s : s = Stale
  OBVIOUS
<1>1. ASSUME NEW p \in Persons, p \notin unheard, word[p] # "unknown"
      PROVE  Kept(s, p, word[p], saved'[p])
  <2>1. Kept(s, p, word[p], saved[p]) /\ (saved[p] # word[p] => \E k \in 1..Len(s) : Doubtful(s[k], p))
    BY <1>1, WordOf, KeptStale
  <2>2. CASE saved'[p] = saved[p]
    BY <2>1, <2>2
  <2>3. CASE saved[p] = "unknown"
    BY <1>1, <2>1, <2>3 DEF Kept
  <2> QED BY <2>2, <2>3
<1> QED BY <1>1, WordsStay

LEMMA SignInWords == ASSUME NInv, NEW p \in Persons, SignIn(p) PROVE Words'
<1>1. UNCHANGED <<choice, word, unheard, saved>>
  BY DEF SignIn, history
<1>2. CASE ~Crosses(saved[p])
  <2>1. calls' = Stale
    BY <1>2 DEF SignIn
  <2> QED BY <1>1, <2>1, EndsWords
<1>3. CASE Crosses(saved[p])
  <2> PICK s : s = Stale
    OBVIOUS
  <2> PICK c : c = [Call("write", choice) EXCEPT !.as = p]
    OBVIOUS
  <2> PICK r : r = Append(s, c)
    OBVIOUS
  <2>1. c \in Calls /\ c.as = p
    <3>1. Call("write", choice) \in Calls
      BY Parts, NewCall DEF NInv
    <3>2. c \in Calls
      BY <3>1, MarkedCall DEF Visitors
    <3> QED BY <3>2 DEF Call
  <2>2. s \in Seq(Calls) /\ calls' = r
    BY <1>3, StaleShape DEF SignIn
  <2>3. ASSUME NEW q \in Persons, q \notin unheard, word[q] # "unknown"
        PROVE  Kept(r, q, word[q], saved[q])
    <3>1. /\ Kept(s, q, word[q], saved[q])
          /\ saved[q] # word[q] => \E k \in 1..Len(s) : Doubtful(s[k], q)
      BY <2>3, WordOf, KeptStale
    <3>2. Alive(c, q) => \E k \in 1..Len(s) : Doubtful(s[k], q)
      BY <1>3, <2>1, <2>3, <3>1 DEF Alive, Crosses
    <3> QED BY <2>1, <2>2, <3>1, <3>2, KeptAppended
  <2> QED BY <1>1, <2>2, <2>3, WordsStay
<1> QED BY <1>2, <1>3

LEMMA BootWords == ASSUME NInv, Boot PROVE Words'
<1>1. UNCHANGED <<choice, word, saved>> /\ calls' = <<>> /\ unheard \subseteq unheard'
  BY DEF Boot, person
<1>2. ASSUME NEW p \in Persons, p \notin unheard', word[p] # "unknown"
      PROVE  Kept(<<>>, p, word[p], saved[p])
  <2>1. \A k \in 1..Len(calls) : ~Doubtful(calls[k], p) /\ ~Alive(calls[k], p)
    BY <1>2, CallParts DEF NInv, Boot, Doubtful, Alive
  <2>2. Kept(calls, p, word[p], saved[p])
    BY <1>1, <1>2, WordOf
  <2>3. saved[p] = word[p]
    BY <2>1, <2>2 DEF Kept
  <2> QED BY <2>3 DEF Kept
<1> QED BY <1>1, <1>2, WordsStay

LEMMA OpenWords == ASSUME NInv, OpenProfile PROVE Words'
<1>1. UNCHANGED <<choice, word, saved, unheard>>
  BY DEF OpenProfile, person, history
<1> PICK c : c = Call("read", "unknown")
  OBVIOUS
<1> PICK r : r = Append(calls, c)
  OBVIOUS
<1>2. c \in Calls /\ c.what = "read" /\ calls \in Seq(Calls) /\ calls' = r
  BY NewCall, CallParts DEF NInv, Answers, OpenProfile
<1>3. ASSUME NEW p \in Persons, p \notin unheard, word[p] # "unknown"
      PROVE  Kept(r, p, word[p], saved[p])
  BY <1>2, <1>3, WordOf, KeptAppended DEF Alive
<1> QED BY <1>1, <1>2, <1>3, WordsStay

LEMMA WriteWords == ASSUME NInv, NEW i \in 1..Len(calls), WriteLands(i) PROVE Words'
<1>1. UNCHANGED <<choice, word, saved, unheard>> /\ calls[i].done
  BY DEF WriteLands, person, history
<1> PICK c : c = Call("reread", "unknown")
  OBVIOUS
<1> PICK s : s = RemoveAt(calls, i)
  OBVIOUS
<1> PICK r : r = Append(s, c)
  OBVIOUS
<1>2. c \in Calls /\ c.what = "reread" /\ calls \in Seq(Calls) /\ calls' = r
  BY NewCall, CallParts DEF NInv, Answers, WriteLands
<1>3. s \in Seq(Calls)
  BY <1>2, RestOfThem
<1>4. ASSUME NEW p \in Persons, p \notin unheard, word[p] # "unknown"
      PROVE  Kept(r, p, word[p], saved[p])
  <2>1. ~Alive(calls[i], p) /\ ~Doubtful(calls[i], p) /\ ~Alive(c, p)
    BY <1>1, <1>2 DEF Alive, Doubtful
  <2>2. Kept(s, p, word[p], saved[p])
    BY <1>2, <1>4, <2>1, WordOf, KeptRemoved
  <2> QED BY <1>2, <1>3, <2>1, <2>2, KeptAppended
<1> QED BY <1>1, <1>2, <1>4, WordsStay

LEMMA FailWords == ASSUME NInv, NEW i \in 1..Len(calls), Fail(i) PROVE Words'
<1>1. UNCHANGED <<choice, word, saved>> /\ unheard \subseteq unheard'
      /\ (calls[i].what = "write" /\ ~calls[i].done => calls[i].as \in unheard')
  BY DEF Fail, person
<1> PICK s : s = RemoveAt(calls, i)
  OBVIOUS
<1>2. calls \in Seq(Calls) /\ calls' = s
  BY CallParts DEF NInv, Fail
<1>3. ASSUME NEW p \in Persons, p \notin unheard', word[p] # "unknown"
      PROVE  Kept(s, p, word[p], saved[p])
  <2>1. ~Alive(calls[i], p) /\ ~Doubtful(calls[i], p)
    BY <1>1, <1>3 DEF Alive, Doubtful
  <2>2. p \notin unheard
    BY <1>1, <1>3
  <2> QED BY <1>2, <1>3, <2>1, <2>2, WordOf, KeptRemoved
<1> QED BY <1>1, <1>2, <1>3, WordsStay

\* The API heard a press: the ones that left before it are out of their turn from here on.
LEMMA HandleWords == ASSUME NInv, NEW i \in 1..Len(calls), Handle(i) PROVE Words'
<1>1. UNCHANGED <<choice, word>> /\ unheard \subseteq unheard' /\ ~calls[i].done
  BY DEF Handle
<1> PICK r : r = calls'
  OBVIOUS
<1>2. calls \in Seq(Calls) /\ Len(calls) \in Nat
  BY CallParts DEF NInv
<1>3. CASE IsRead(i)
  <2>1. /\ r \in Seq(Calls) /\ Len(r) = Len(calls) /\ r[i].what = calls[i].what
        /\ \A k \in 1..Len(calls) : k # i => r[k] = calls[k]
    BY <1>3, HandledRead
  <2>2. UNCHANGED saved /\ calls[i].what # "write"
    BY <1>3 DEF Handle, IsRead
  <2>3. ASSUME NEW p \in Persons, p \notin unheard', word[p] # "unknown"
        PROVE  Kept(r, p, word[p], saved[p])
    <3>1. \A k \in 1..Len(calls) : /\ Doubtful(calls[k], p) => Doubtful(r[k], p)
                                   /\ Alive(calls[k], p) => Alive(r[k], p) \/ Doubtful(r[k], p)
                                   /\ Alive(r[k], p) => Alive(calls[k], p) /\ r[k].value = calls[k].value
      BY <2>1, <2>2 DEF Doubtful, Alive
    <3>2. Kept(calls, p, word[p], saved[p])
      BY <1>1, <2>3, WordOf
    <3> QED BY <1>2, <2>1, <3>1, <3>2, KeptChanged
  <2> QED BY <1>1, <2>2, <2>3, WordsStay
<1>4. CASE ~IsRead(i)
  <2>1. /\ r \in Seq(Calls) /\ Len(r) = Len(calls) /\ SameOf(r[i], calls[i]) /\ r[i].done
        /\ \A k \in 1..Len(calls) : k # i => 
                /\ Like(r[k], calls[k])
                /\ r[k].passed <=> calls[k].passed \/ (IF IsRead(k) THEN calls[k].done ELSE k < i)
    BY <1>4, HandledWrite
  <2>2. /\ calls[i].what = "write" /\ saved' = [saved EXCEPT ![calls[i].as] = calls[i].value]
        /\ calls[i].passed \/ calls[i].stale => calls[i].as \in unheard'
    BY <1>4 DEF Handle, IsRead
  <2>3. ASSUME NEW k \in 1..Len(calls), k # i, NEW p
        PROVE  /\ Doubtful(calls[k], p) => Doubtful(r[k], p)
               /\ Alive(calls[k], p) => Alive(r[k], p) \/ Doubtful(r[k], p)
               /\ Alive(r[k], p) => Alive(calls[k], p) /\ r[k].value = calls[k].value /\ ~(k < i)
    BY <2>1, <2>3 DEF Doubtful, Alive, Like, SameOf, IsRead
  <2>4. \A p : ~Alive(r[i], p)
    BY <2>1 DEF Alive
  <2>5. ASSUME NEW p \in Persons, p \notin unheard', word[p] # "unknown"
        PROVE  Kept(r, p, word[p], saved'[p])
    <3>1. Kept(calls, p, word[p], saved[p])
      BY <1>1, <2>5, WordOf
    <3>2. CASE calls[i].as # p
      <4>1. saved'[p] = saved[p]
        BY <2>2, <3>2, Parts DEF NInv
      <4>2. ~Alive(calls[i], p) /\ ~Doubtful(calls[i], p)
        BY <3>2 DEF Alive, Doubtful
      <4>3. \A k \in 1..Len(calls) :
                /\ Doubtful(calls[k], p) => Doubtful(r[k], p)
                /\ Alive(calls[k], p) => Alive(r[k], p) \/ Doubtful(r[k], p)
                /\ Alive(r[k], p) => Alive(calls[k], p) /\ r[k].value = calls[k].value
        BY <2>3, <2>4, <4>2
      <4> QED BY <1>2, <2>1, <3>1, <4>1, <4>3, KeptChanged
    <3>3. CASE calls[i].as = p
      <4>1. saved'[p] = calls[i].value /\ Alive(calls[i], p) /\ ~Doubtful(calls[i], p)
        BY <1>1, <2>2, <2>5, <3>3, Parts DEF NInv, Alive, Doubtful
      <4>2. CASE \E k \in 1..Len(calls) : Doubtful(calls[k], p)
        BY <2>1, <2>3, <4>1, <4>2 DEF Kept
      <4>3. CASE \E k \in 1..Len(calls) : /\ Alive(calls[k], p) /\ calls[k].value = word[p]
                                          /\ \A m \in 1..Len(calls) : Alive(calls[m], p) => m <= k
        <5>1. PICK k \in 1..Len(calls) : /\ Alive(calls[k], p) /\ calls[k].value = word[p]
                                         /\ \A m \in 1..Len(calls) : Alive(calls[m], p) => m <= k
          BY <4>3
        <5>2. i <= k
          BY <4>1, <5>1
        <5>3. CASE k = i
          <6>1. ASSUME NEW m \in 1..Len(r), Alive(r[m], p) PROVE FALSE
            <7>1. m # i /\ m \in 1..Len(calls)
              BY <2>1, <2>4, <6>1
            <7>2. Alive(calls[m], p) /\ ~(m < i)
              BY <2>3, <6>1, <7>1
            <7>3. m <= i
              BY <5>1, <5>3, <7>1, <7>2
            <7> QED BY <1>2, <7>1, <7>2, <7>3
          <6> QED BY <4>1, <5>1, <5>3, <6>1 DEF Kept
        <5>4. CASE k # i
          <6>1. Alive(r[k], p) \/ Doubtful(r[k], p)
            BY <2>3, <5>1, <5>4
          <6>2. \A m \in 1..Len(r) : Alive(r[m], p) => m <= k
            BY <2>1, <2>3, <2>4, <5>1
          <6>3. Alive(r[k], p) => r[k].value = word[p]
            BY <2>3, <5>1, <5>4
          <6> QED BY <2>1, <6>1, <6>2, <6>3 DEF Kept
        <5> QED BY <5>3, <5>4
      <4> QED BY <3>1, <4>1, <4>2, <4>3 DEF Kept
    <3> QED BY <3>2, <3>3
  <2> QED BY <1>1, <2>5, WordsStay
<1> QED BY <1>3, <1>4

\* An answer in its place lets the guest's cross over only to a person who pressed nothing here.
LEMMA CrossesToUnasked ==
    ASSUME NInv, NEW i \in 1..Len(calls), ReadLands(i), Crosses(calls[i].value),
           NEW p \in Persons, p \notin unheard', Credential = p
    PROVE  saved[p] = "unknown" /\ \A k \in 1..Len(calls) : ~Alive(calls[k], p)
<1> PICK c : c = calls[i]
  OBVIOUS
<1>1. ~tangled /\ ~c.stale /\ ~c.passed
  BY DEF ReadLands, CrossedOver
<1>2. c.done /\ c.what # "write" /\ c.value = "unknown" /\ ~page.settled /\ choice # "unknown"
  BY DEF ReadLands, IsRead, Crosses
<1>3. Honest(c)
  BY DEF NInv, EachHonest
<1>4. c.as = owner /\ c.value = saved[owner]
  BY <1>1, <1>2, <1>3 DEF Honest
<1>5. owner = p
  BY NobodyIsNoPerson DEF Credential
<1>6. ASSUME NEW k \in 1..Len(calls), Alive(calls[k], p) PROVE FALSE
  <2>1. Honest(calls[k]) /\ p # Nobody
    BY NobodyIsNoPerson DEF NInv, EachHonest
  <2>2. page.store = "loaded"
    BY <1>1, <1>6, <2>1 DEF Honest, Alive
  <2> QED BY <1>1, <1>2, <1>4, <2>2 DEF NInv, Facts, MayCross
<1> QED BY <1>2, <1>4, <1>5, <1>6

LEMMA ReadWords == ASSUME NInv, NEW i \in 1..Len(calls), ReadLands(i) PROVE Words'
<1>1. UNCHANGED <<choice, word, saved>> /\ unheard \subseteq unheard' /\ calls[i].what # "write"
  BY DEF ReadLands, person, IsRead
<1> PICK q : q = PassedByAnswer(i)
  OBVIOUS
<1> PICK s : s = RemoveAt(PassedByAnswer(i), i)
  OBVIOUS
<1>2. /\ q \in Seq(Calls) /\ Len(q) = Len(calls) /\ calls \in Seq(Calls) /\ i \in 1..Len(q)
      /\ \A k \in 1..Len(calls) : 
                /\ Like(q[k], calls[k])
                /\ q[k].passed <=> calls[k].passed \/ (IsRead(k) /\ k < i)
  BY PassedShape, CallParts DEF NInv
<1>3. ASSUME NEW p
      PROVE  \A k \in 1..Len(calls) : /\ Doubtful(calls[k], p) <=> Doubtful(q[k], p)
                                      /\ Alive(calls[k], p) <=> Alive(q[k], p)
                                      /\ q[k].value = calls[k].value
  BY <1>2 DEF Like, SameOf, Doubtful, Alive, IsRead
<1>4. ASSUME NEW p \in Persons, p \notin unheard, word[p] # "unknown"
      PROVE  Kept(s, p, word[p], saved[p])
  <2>1. Kept(calls, p, word[p], saved[p])
    BY <1>4, WordOf
  <2>2. Kept(q, p, word[p], saved[p])
    BY <1>2, <1>3, <2>1, KeptChanged
  <2>3. ~Alive(q[i], p) /\ ~Doubtful(q[i], p)
    BY <1>1, <1>2 DEF Like, SameOf, Alive, Doubtful
  <2>4. s = RemoveAt(q, i)
    OBVIOUS
  <2> QED BY ONLY <1>2, <2>2, <2>3, <2>4, KeptRemoved
<1>5. s \in Seq(Calls) /\ (~Crosses(calls[i].value) => calls' = s)
      /\ (calls' = s \/ calls' = Append(s, Call("write", choice)))
  BY LeftByAnswer
<1>6. CASE calls' = s
  BY <1>1, <1>4, <1>6, WordsStay
<1>7. CASE Crosses(calls[i].value) /\ calls' = Append(s, Call("write", choice))
  <2> PICK c : c = Call("write", choice)
    OBVIOUS
  <2> PICK r : r = Append(s, c)
    OBVIOUS
  <2>1. c \in Calls /\ c.as = Credential
    BY Parts, NewCall DEF NInv
  <2>2. ASSUME NEW p \in Persons, p \notin unheard', word[p] # "unknown"
        PROVE  Kept(r, p, word[p], saved[p])
    <3>1. Kept(s, p, word[p], saved[p])
      BY <1>1, <1>4, <2>2
    <3>2. CASE Credential # p
      BY <1>5, <2>1, <3>1, <3>2, KeptAppended DEF Alive
    <3>3. CASE Credential = p
      <4>1. saved[p] = "unknown" /\ \A k \in 1..Len(calls) : ~Alive(calls[k], p)
        BY <1>7, <2>2, <3>3, CrossesToUnasked
      <4>2. \A k \in 1..Len(q) : ~Alive(q[k], p)
        BY <1>2, <1>3, <4>1
      <4>3. \A k \in 1..Len(s) : \E j \in 1..Len(q) : s[k] = q[j]
        <5>1. s = RemoveAt(q, i)
          OBVIOUS
        <5>2. \A k \in 1..Len(RemoveAt(q, i)) :
                  \E j \in 1..Len(q) : j # i /\ RemoveAt(q, i)[k] = q[j]
          BY ONLY <1>2, RestOfThem
        <5> QED BY <5>1, <5>2
      <4>4. \A k \in 1..Len(s) : ~Alive(s[k], p)
        BY <4>2, <4>3
      <4>5. \E k \in 1..Len(s) : Doubtful(s[k], p)
        BY <2>2, <3>1, <4>1, <4>4 DEF Kept
      <4> QED BY <1>5, <2>1, <3>1, <4>5, KeptAppended
    <3> QED BY <3>2, <3>3
  <2> QED BY <1>1, <1>7, <2>2, WordsStay
<1> QED BY <1>5, <1>6, <1>7

LEMMA PressWords == ASSUME NInv, NEW value \in Buttons, Press(value) PROVE Words'
<1>1. /\ choice' = RecordedBy(value) /\ calls' = calls \o Persisted(value) /\ UNCHANGED saved
      /\ calls \in Seq(Calls) /\ word \in [Visitors -> Answers]
  BY CallParts, Parts DEF NInv, Press, person
<1>2. isAuth => owner \in Persons
  BY Parts DEF NInv, Facts, HeldIsOwned, isAuth, Visitors
<1>3. CASE ~isAuth
  <2>1. /\ word' = [word EXCEPT ![Nobody] = value]
        /\ unheard' = IF ~tangled THEN unheard \ {Nobody} ELSE unheard \cup {Nobody}
    BY <1>3 DEF Press
  <2>2. UNCHANGED calls
    BY <1>1, <1>3, ConcatEmptySeq DEF Persisted
  <2>3. PersonsWord'
    BY <1>1, <2>1, <2>2, NobodyIsNoPerson DEF NInv, PersonsWord
  <2>4. GuestsWord'
    <3>1. CASE tangled
      BY <2>1, <3>1 DEF GuestsWord
    <3>2. CASE ~tangled
      <4>1. choice' = value
        BY <1>1, <1>3, <3>2 DEF NInv, Facts, Measured, RecordedBy
      <4>2. word'[Nobody] = value
        BY <1>1, <2>1 DEF Visitors
      <4> QED BY <4>1, <4>2 DEF GuestsWord
    <3> QED BY <3>1, <3>2
  <2> QED BY <2>3, <2>4 DEF Words
<1>4. CASE isAuth
  <2>1. word' = [word EXCEPT ![owner] = value] /\ UNCHANGED choice
    BY <1>1, <1>4 DEF Press, RecordedBy
  <2>2. owner # Nobody /\ owner \in Persons
    BY <1>2, <1>4, NobodyIsNoPerson
  <2>3. unheard' = IF Persisted(value) # <<>> THEN unheard \ {owner} ELSE unheard \cup {owner}
    BY <1>4 DEF Press
  <2>4. GuestsWord'
    BY <1>1, <2>1, <2>2, <2>3 DEF NInv, GuestsWord, Visitors
  <2>5. CASE page.store # "loaded"
    <3>1. Persisted(value) = <<>> /\ UNCHANGED calls
      BY <1>1, <2>5, ConcatEmptySeq DEF Persisted
    <3>2. PersonsWord'
      BY <1>1, <2>1, <2>3, <3>1 DEF NInv, PersonsWord
    <3> QED BY <2>4, <3>2 DEF Words
  <2>6. CASE page.store = "loaded"
    <3> PICK c : c = Call("write", value)
      OBVIOUS
    <3> PICK r : r = Append(calls, c)
      OBVIOUS
    <3>1. /\ c \in Calls /\ c.what = "write" /\ c.as = owner /\ c.value = value
          /\ ~c.done /\ ~c.stale /\ ~c.passed
      BY <1>4, NewCall DEF Buttons, Answers, Credential, isAuth
    <3>2. Persisted(value) = <<c>>
      BY <1>4, <2>6 DEF Persisted
    <3>3. calls' = r /\ unheard' = unheard \ {owner}
      BY <1>1, <2>3, <3>1, <3>2, AppendIsConcat
    <3>4. ASSUME NEW p \in Persons, p \notin unheard', word'[p] # "unknown"
          PROVE  Kept(r, p, word'[p], saved[p])
      <4>1. CASE p = owner
        <5>1. Alive(c, p) /\ word'[p] = c.value
          BY <1>1, <2>1, <3>1, <4>1 DEF Alive, Visitors
        <5> QED BY <1>1, <3>1, <5>1, KeptNew
      <4>2. CASE p # owner
        <5>1. word'[p] = word[p] /\ p \notin unheard /\ ~Alive(c, p)
          BY <1>1, <2>1, <3>1, <3>3, <3>4, <4>2 DEF Alive, Visitors
        <5>2. Kept(calls, p, word[p], saved[p])
          BY <3>4, <5>1, WordOf
        <5> QED BY <1>1, <3>1, <5>1, <5>2, KeptAppended
      <4> QED BY <4>1, <4>2
    <3>5. PersonsWord'
      BY <1>1, <3>3, <3>4 DEF PersonsWord
    <3> QED BY <2>4, <3>5 DEF Words
  <2> QED BY <2>5, <2>6
<1> QED BY <1>3, <1>4

LEMMA NextWords == ASSUME NInv, [Next]_vars PROVE Words'
<1>0. DOMAIN calls = 1..Len(calls)
  BY CallParts DEF NInv
<1>1. CASE UNCHANGED vars \/ FaroLoads \/ FaroFails \/ Restore \/ LoadViewer
  <2>1. UNCHANGED <<choice, word, unheard, calls, saved>>
    BY <1>1 DEF vars, FaroLoads, FaroFails, Restore, LoadViewer, person, history
  <2> QED BY <2>1, SameWords
<1>2. ASSUME NEW value \in Buttons, Press(value) PROVE Words'
  BY <1>2, PressWords
<1>3. ASSUME NEW i \in DOMAIN calls, Handle(i) \/ WriteLands(i) \/ ReadLands(i) \/ Fail(i)
      PROVE  Words'
  BY <1>0, <1>3, HandleWords, WriteWords, ReadWords, FailWords
<1>4. ASSUME NEW p \in Persons, SignUp(p) \/ OtherTabSignsIn(p) PROVE Words'
  <2>1. /\ calls' = Stale /\ UNCHANGED <<choice, word, unheard>>
        /\ \A q \in Persons : saved'[q] = saved[q] \/ saved[q] = "unknown"
    BY <1>4, Parts DEF NInv, SignUp, OtherTabSignsIn, history
  <2> QED BY <2>1, EndsWords
<1>5. ASSUME NEW p \in Persons, SignIn(p) PROVE Words'
  BY <1>5, SignInWords
<1>6. CASE SignOut \/ SignOutFails \/ EndLocalSession \/ Expires \/ EndsElsewhere
  <2>1. calls' = Stale /\ UNCHANGED <<choice, word, unheard, saved>>
    BY <1>6 DEF SignOut, SignOutFails, EndLocalSession, Expires, EndsElsewhere, history
  <2> QED BY <2>1, EndsWords
<1>7. CASE OpenProfile
  BY <1>7, OpenWords
<1>8. CASE Boot
  BY <1>8, BootWords
<1> QED BY <1>1, <1>2, <1>3, <1>4, <1>5, <1>6, <1>7, <1>8 DEF Next

LEMMA NNext == NInv /\ [Next]_vars => NInv'
<1> SUFFICES ASSUME NInv, [Next]_vars PROVE NInv'
  OBVIOUS
<1>1. IInv'
  BY Inductive DEF NInv
<1>2. Facts' /\ EachHonest' /\ Words'
  BY NextFacts, NextEach, NextWords
<1> QED BY <1>1, <1>2 DEF NInv, Words

-----------------------------------------------------------------------------
(* When all is quiet, and the trackers were last told something in place, whoever is measured *)
(* said yes: the guest on the banner, or the account in its record (analytics-consent.ts      *)
(* 134-156, profile.ts 148-156).                                                              *)
THEOREM NobodyMeasuredUnaskedAlways == Spec => []NobodyMeasuredUnasked
<1>1. NInv => NobodyMeasuredUnasked
  <2> SUFFICES ASSUME NInv, Quiet, ~tangled, Tracking PROVE OwnAnswer = "granted"
    BY DEF NobodyMeasuredUnasked
  <2>1. umami
    BY DEF NInv, IInv, FaroFollows, Facts, OneVoice, Tracking
  <2>2. ~Due
    BY DEF Quiet, Due
  <2> QED BY <2>1, <2>2 DEF NInv, Facts, Measured, OwnAnswer
<1> QED BY NInit, NNext, <1>1, PTL DEF Spec

(* When all is quiet, what each visitor pressed last is on record, in the guest's cookie or in *)
(* the account: nothing that crossed over and no older press stands over it (profile.ts        *)
(* 126-132, 312-331).                                                                          *)
THEOREM LastWordIsOnRecordAlways == Spec => []LastWordIsOnRecord
<1>1. NInv => LastWordIsOnRecord
  <2> SUFFICES ASSUME NInv, Quiet, NEW v \in Visitors \ unheard, word[v] # "unknown"
               PROVE  word[v] = IF v = Nobody THEN choice ELSE saved[v]
    BY DEF LastWordIsOnRecord
  <2>1. CASE v = Nobody
    BY <2>1 DEF NInv, GuestsWord
  <2>2. CASE v # Nobody
    <3>1. v \in Persons /\ Kept(calls, v, word[v], saved[v])
      BY <2>2, WordOf DEF Visitors
    <3>2. Len(calls) = 0
      BY DEF Quiet
    <3> QED BY <2>2, <3>1, <3>2 DEF Kept
  <2> QED BY <2>1, <2>2
<1> QED BY NInit, NNext, <1>1, PTL DEF Spec

(***************************************************************************)
(* The idle clock                                                          *)
(***************************************************************************)

-----------------------------------------------------------------------------
(* The types, with what keeps them: nothing is of a time still to come. *)

Moments == 0 .. hour
Readings == 0 .. Now
Opened == 0 .. Len(session)
Letters == [type : {"activity"}, at : Readings] \cup [type : {"login", "logout"}, at : {0}]
SessionKind == [staff : BOOLEAN, last : Moments, open : BOOLEAN]
CallKind == [tab : Tabs, what : Errands, as : Opened, staff : BOOLEAN, at : Moments, left : Moments,
             status : {"sent", "done", "refused", "idle"}]
Causes == {"slept", "lost", "unclocked", "echoed", "replaced"}

ServerKinds == /\ session \in Seq(SessionKind) /\ Len(session) \in 1 .. MaxSessions /\ jar \in Opened
TabKinds == /\ held \in [Tabs -> Opened] /\ idle \in [Tabs -> Readings \cup {NoClock}]
            /\ news \in [Tabs -> Seq(Letters)] /\ putBack \subseteq Tabs
CallKinds == requests \subseteq CallKind /\ IsFiniteSet(requests) /\ sent \in 0 .. MaxRequests

Kinds == /\ hour \in 0 .. MaxTime /\ ServerKinds /\ TabKinds /\ CallKinds
         /\ seen \in [Tabs -> Readings] /\ acted \in [1 .. MaxSessions -> Moments]
         /\ between \subseteq Causes

\* A login names no session until one is opened, and there is room for every one still to be.
LoginsOut == {c \in requests : c.what = "login" /\ c.status = "sent"}
RoomForLogins == /\ Len(session) + Cardinality(LoginsOut) <= MaxSessions
                 /\ \A c \in LoginsOut : c.as = 0

\* A request is given up in time; an answer is of a moment after it left, and no later than the
\* session's last.
AnswersFit == \A c \in requests :
    /\ hour <= c.left + Latency
    /\ c.status = "done" => /\ c.left <= c.at /\ c.as # 0
                            /\ c.at <= session[c.as].last /\ c.staff = session[c.as].staff

CInv == Kinds /\ RoomForLogins /\ AnswersFit

LEMMA NowNat == ASSUME Kinds PROVE hour \in Nat /\ Now \in Nat /\ hour <= Now /\ Len(session) \in Nat
<1>1. hour \in 0 .. MaxTime /\ Len(session) \in 1 .. MaxSessions
  BY DEF Kinds, ServerKinds
<1>2. MaxTime \in Nat /\ MaxSessions \in Nat /\ Skew \in Nat
  BY ClockBounds
<1> QED BY <1>1, <1>2 DEF Now

LEMMA MoreOfAll ==
    ASSUME Kinds, hour' \in Nat, hour <= hour', Len(session)' \in Nat, Len(session) <= Len(session)'
    PROVE  /\ Moments \subseteq Moments' /\ Readings \subseteq Readings' /\ Opened \subseteq Opened'
           /\ Letters \subseteq Letters' /\ SessionKind \subseteq SessionKind'
           /\ CallKind \subseteq CallKind' /\ Seq(Letters) \subseteq Seq(Letters')
           /\ Seq(SessionKind) \subseteq Seq(SessionKind')
<1>1. /\ hour \in Nat /\ Len(session) \in Nat /\ Skew \in Nat
  BY NowNat, ClockBounds
<1>a. \A m, n \in Nat : m <= n => 0 .. m \subseteq 0 .. n
  OBVIOUS
<1>e. Now = hour + Skew /\ Now' = hour' + Skew
  BY DEF Now
<1>f. \A m, n, k \in Nat : m <= n => m + k \in Nat /\ n + k \in Nat /\ m + k <= n + k
  OBVIOUS
<1>b. Now \in Nat /\ Now' \in Nat /\ Now <= Now'
  BY <1>1, <1>e, <1>f
<1>c. 0 .. hour \subseteq 0 .. hour' /\ 0 .. Now \subseteq 0 .. Now'
  BY <1>1, <1>a, <1>b
<1>d. 0 .. Len(session) \subseteq (0 .. Len(session))'
  BY <1>1, <1>a
<1>2. Moments \subseteq Moments' /\ Readings \subseteq Readings' /\ Opened \subseteq Opened'
  BY <1>c, <1>d DEF Moments, Readings, Opened
<1>3. Letters \subseteq Letters' /\ SessionKind \subseteq SessionKind' /\ CallKind \subseteq CallKind'
  BY <1>2 DEF Letters, SessionKind, CallKind
<1>4. \A S, T : S \subseteq T => Seq(S) \subseteq Seq(T)
  OBVIOUS
<1> QED BY <1>2, <1>3, <1>4

\* Without a second passing or a session opening, every kind is what it was.
LEMMA SameKinds ==
    ASSUME UNCHANGED hour, Len(session)' = Len(session)
    PROVE  /\ Moments' = Moments /\ Readings' = Readings /\ Opened' = Opened /\ Letters' = Letters
           /\ SessionKind' = SessionKind /\ CallKind' = CallKind /\ Now' = Now
  BY DEF Moments, Readings, Opened, Letters, SessionKind, CallKind, Now

LEMMA CallFields ==
    ASSUME Kinds, NEW c \in requests
    PROVE  /\ c \in CallKind /\ c.tab \in Tabs /\ c.what \in Errands /\ c.as \in Opened
           /\ c.staff \in BOOLEAN /\ c.at \in Moments /\ c.left \in Moments
           /\ c.at \in Nat /\ c.left \in Nat /\ c.as \in Nat
           /\ c.status \in {"sent", "done", "refused", "idle"}
<1>1. c \in CallKind
  BY DEF Kinds, CallKinds
<1> QED BY <1>1, NowNat DEF CallKind, Moments, Opened

LEMMA SessionFields ==
    ASSUME Kinds, NEW s \in Opened, s # 0
    PROVE  /\ s \in 1 .. Len(session) /\ session[s] \in SessionKind
           /\ session[s].staff \in BOOLEAN /\ session[s].last \in Moments /\ session[s].open \in BOOLEAN
<1>1. s \in 1 .. Len(session)
  BY NowNat DEF Opened
<1>2. session[s] \in SessionKind
  BY <1>1 DEF Kinds, ServerKinds
<1> QED BY <1>1, <1>2 DEF SessionKind

-----------------------------------------------------------------------------
(* What the operators of a tab's clock do. *)

LEMMA LettersWritten ==
    ASSUME Kinds
    PROVE  /\ Active \in Seq(Letters) /\ Login \in Seq(Letters) /\ Logout \in Seq(Letters)
           /\ <<>> \in Seq(Letters)
           /\ Login \o Active \in Seq(Letters) /\ Login \o <<>> \in Seq(Letters)
           /\ <<>> \o Active \in Seq(Letters) /\ <<>> \o <<>> \in Seq(Letters)
<1>1. [type |-> "activity", at |-> Now] \in Letters
  BY NowNat DEF Letters, Readings
<1>2. [type |-> "login", at |-> 0] \in Letters /\ [type |-> "logout", at |-> 0] \in Letters
  BY DEF Letters
<1>3. Active \in Seq(Letters) /\ Login \in Seq(Letters) /\ Logout \in Seq(Letters) /\ <<>> \in Seq(Letters)
  BY <1>1, <1>2 DEF Active, Login, Logout
<1> QED BY <1>3, ConcatProperties

LEMMA MailKinds ==
    ASSUME NEW t \in Tabs, NEW mail \in [Tabs -> Seq(Letters)], NEW messages \in Seq(Letters)
    PROVE  Told(t, messages, mail) \in [Tabs -> Seq(Letters)]
  BY ConcatProperties DEF Told

LEMMA ClearKinds ==
    ASSUME Kinds, NEW t \in Tabs, clearSessionLocally(t)
    PROVE  /\ held' \in [Tabs -> Opened] /\ idle' \in [Tabs -> Readings \cup {NoClock}]
           /\ putBack' \subseteq Tabs
  BY NowNat DEF clearSessionLocally, Kinds, TabKinds, Opened

LEMMA ClearTellsKinds ==
    ASSUME Kinds, NEW t \in Tabs, clearSession(t)
    PROVE  /\ held' \in [Tabs -> Opened] /\ idle' \in [Tabs -> Readings \cup {NoClock}]
           /\ putBack' \subseteq Tabs /\ news' \in [Tabs -> Seq(Letters)]
<1>1. clearSessionLocally(t) /\ news' = Told(t, Logout, news)
  BY DEF clearSession
<1>2. news' \in [Tabs -> Seq(Letters)]
  BY <1>1, LettersWritten, MailKinds DEF Kinds, TabKinds
<1> QED BY <1>1, <1>2, ClearKinds

LEMMA NoteKinds ==
    ASSUME Kinds, NEW t \in Tabs, NEW mail \in [Tabs -> Seq(Letters)], noteActivity(t, mail)
    PROVE  /\ idle' \in [Tabs -> Readings \cup {NoClock}]
           /\ putBack' \subseteq Tabs /\ news' \in [Tabs -> Seq(Letters)]
<1>0. idle \in [Tabs -> Readings \cup {NoClock}] /\ putBack \subseteq Tabs /\ Readings' = 0 .. Now'
  BY DEF Kinds, TabKinds, Readings
<1>1. CASE news' = mail /\ UNCHANGED <<idle, putBack>>
  BY <1>0, <1>1
<1>2. CASE MarksAndTells(t, mail) /\ putBack' = putBack \ {t}
  <2>1. idle' = [idle EXCEPT ![t] = Now] /\ news' = Told(t, Active, mail) /\ Now \in Readings
    BY <1>2, NowNat DEF MarksAndTells, Readings
  <2>2. news' \in [Tabs -> Seq(Letters)]
    BY <2>1, LettersWritten, MailKinds
  <2> QED BY <1>2, <2>1, <2>2 DEF Kinds, TabKinds
<1> QED BY <1>1, <1>2 DEF noteActivity

LEMMA ActsKinds ==
    ASSUME Kinds, NEW t \in Tabs, Acts(t)
    PROVE  /\ idle' \in [Tabs -> Readings \cup {NoClock}]
           /\ putBack' \subseteq Tabs /\ news' \in [Tabs -> Seq(Letters)]
           /\ acted' \in [1 .. MaxSessions -> Moments] /\ between' \subseteq Causes
<1>1. noteActivity(t, news) /\ news \in [Tabs -> Seq(Letters)]
  BY DEF Acts, Kinds, TabKinds
<1>a. acted \in [1 .. MaxSessions -> Moments] /\ hour \in Moments
  BY NowNat DEF Kinds, Moments
<1>b. acted' = acted \/ acted' = [acted EXCEPT ![held[t]] = hour]
  BY DEF Acts
<1>2. acted' \in [1 .. MaxSessions -> Moments]
  BY <1>a, <1>b
<1>3. between' \subseteq Causes
  BY DEF Acts, Kinds, Causes
<1> QED BY <1>1, <1>2, <1>3, NoteKinds

LEMMA ApplyKinds ==
    ASSUME Kinds, NEW t \in Tabs, NEW c \in requests, NEW before \in {<<>>, Login},
           applyActivity(t, c, before)
    PROVE  /\ idle' \in [Tabs -> Readings \cup {NoClock}]
           /\ putBack' \subseteq Tabs /\ news' \in [Tabs -> Seq(Letters)] /\ between' \subseteq Causes
<1>1. c.at \in Readings
  BY CallFields, NowNat DEF Moments, Readings
<1>2. idle' \in [Tabs -> Readings \cup {NoClock}] /\ putBack' \subseteq Tabs
  BY <1>1 DEF applyActivity, Kinds, TabKinds
<1>3. before \o (IF c.staff THEN Active ELSE <<>>) \in Seq(Letters)
  BY LettersWritten
<1>4. news' \in [Tabs -> Seq(Letters)]
  BY <1>3, MailKinds DEF applyActivity, Kinds, TabKinds
<1>5. between' \subseteq Causes
  BY DEF applyActivity, Kinds, Causes
<1> QED BY <1>2, <1>4, <1>5

\* A request as it leaves.
LEMMA LeavesKinds ==
    ASSUME CInv, NEW t \in Tabs, NEW what \in Errands, NEW as \in Opened, NEW staff \in BOOLEAN,
           Leaves(t, what, as, staff),
           what = "login" => as = 0 /\ Len(session) + Cardinality(LoginsOut) < MaxSessions
    PROVE  CallKinds' /\ RoomForLogins' /\ AnswersFit' /\ UNCHANGED <<hour, session, jar, seen>>
<1> DEFINE c == [tab |-> t, what |-> what, as |-> as, staff |-> staff, at |-> 0,
                 left |-> hour, status |-> "sent"]
<1>1. /\ requests' = requests \cup {c} /\ sent' = sent + 1 /\ sent < MaxRequests
      /\ UNCHANGED <<hour, session, jar, seen>>
  BY DEF Leaves, server
<1>2. Kinds /\ hour \in Nat /\ Len(session) \in Nat /\ IsFiniteSet(requests)
  BY NowNat DEF CInv, Kinds, CallKinds
<1>a. 0 \in Moments /\ hour \in Moments
  BY <1>2 DEF Moments
<1>3. c \in CallKind
  BY <1>a DEF CallKind
<1>4. /\ c.what = what /\ c.as = as /\ c.left = hour /\ c.status = "sent"
  OBVIOUS
<1> HIDE DEF c
<1>5. CallKinds'
  BY <1>1, <1>2, <1>3, SameKinds, FS_AddElement, ClockBounds DEF Kinds, CallKinds
<1>6. AnswersFit'
  BY <1>1, <1>2, <1>4, ClockBounds DEF CInv, AnswersFit
<1>7. RoomForLogins'
  <2>1. IsFiniteSet(LoginsOut) /\ Cardinality(LoginsOut) \in Nat
    BY <1>2, FS_Subset, FS_CardinalityType DEF LoginsOut
  <2>2. CASE what = "login"
    <3>1. LoginsOut' = LoginsOut \cup {c}
      BY <1>1, <1>4, <2>2 DEF LoginsOut
    <3>2. Cardinality(LoginsOut \cup {c}) = IF c \in LoginsOut THEN Cardinality(LoginsOut)
                                            ELSE Cardinality(LoginsOut) + 1
      BY <2>1, FS_AddElement
    <3>3. Cardinality(LoginsOut)' <= Cardinality(LoginsOut) + 1 /\ Cardinality(LoginsOut)' \in Nat
      BY <2>1, <3>1, <3>2
    <3>4. \A d \in LoginsOut' : d.as = 0
      BY <1>4, <2>2, <3>1 DEF CInv, RoomForLogins
    <3> QED BY <1>1, <1>2, <2>1, <2>2, <3>3, <3>4, ClockBounds DEF RoomForLogins
  <2>3. CASE what # "login"
    <3>1. LoginsOut' = LoginsOut
      BY <1>1, <1>4, <2>3 DEF LoginsOut
    <3> QED BY <1>1, <3>1 DEF CInv, RoomForLogins
  <2> QED BY <2>2, <2>3
<1> QED BY <1>1, <1>5, <1>6, <1>7

-----------------------------------------------------------------------------
(* What becomes of the requests. *)

LEMMA CallsStay ==
    ASSUME CInv, UNCHANGED <<hour, session, requests, sent>>
    PROVE  CallKinds' /\ RoomForLogins' /\ AnswersFit'
<1>1. UNCHANGED LoginsOut /\ CallKind' = CallKind
  BY SameKinds DEF LoginsOut
<1> QED BY <1>1 DEF CInv, Kinds, CallKinds, RoomForLogins, AnswersFit

LEMMA FewerLoginsOut ==
    ASSUME CInv, LoginsOut' \subseteq LoginsOut
    PROVE  /\ Cardinality(LoginsOut)' <= Cardinality(LoginsOut)
           /\ Cardinality(LoginsOut)' \in Nat /\ Cardinality(LoginsOut) \in Nat
           /\ \A d \in LoginsOut' : d.as = 0
<1>1. IsFiniteSet(LoginsOut)
  BY FS_Subset DEF LoginsOut, CInv, Kinds, CallKinds
<1>2. Cardinality(LoginsOut') <= Cardinality(LoginsOut) /\ IsFiniteSet(LoginsOut')
  BY <1>1, FS_Subset
<1>3. Cardinality(LoginsOut) \in Nat /\ Cardinality(LoginsOut') \in Nat
  BY <1>1, <1>2, FS_CardinalityType
<1> QED BY <1>2, <1>3 DEF CInv, RoomForLogins

LEMMA CallsOver ==
    ASSUME CInv, NEW c \in requests, Over(c)
    PROVE  CallKinds' /\ RoomForLogins' /\ AnswersFit' /\ UNCHANGED <<hour, session, seen>>
<1>1. requests' = requests \ {c} /\ UNCHANGED <<hour, session, seen, sent>>
  BY DEF Over
<1>2. LoginsOut' \subseteq LoginsOut
  BY <1>1 DEF LoginsOut
<1>3. /\ Cardinality(LoginsOut)' <= Cardinality(LoginsOut)
      /\ Cardinality(LoginsOut)' \in Nat /\ Cardinality(LoginsOut) \in Nat
      /\ \A d \in LoginsOut' : d.as = 0
  BY <1>2, FewerLoginsOut
<1>4. Len(session) \in Nat /\ MaxSessions \in Nat
  BY NowNat, ClockBounds DEF CInv
<1>5. RoomForLogins'
  BY <1>1, <1>3, <1>4 DEF CInv, RoomForLogins
<1>6. CallKinds'
  BY <1>1, SameKinds, FS_RemoveElement DEF CInv, Kinds, CallKinds
<1>7. AnswersFit'
  BY <1>1 DEF CInv, AnswersFit
<1> QED BY <1>1, <1>5, <1>6, <1>7

LEMMA TabsMove ==
    ASSUME CInv, UNCHANGED <<hour, session>>, jar' \in Opened, held' \in [Tabs -> Opened],
           idle' \in [Tabs -> Readings \cup {NoClock}], news' \in [Tabs -> Seq(Letters)],
           putBack' \subseteq Tabs, seen' \in [Tabs -> Readings],
           acted' \in [1 .. MaxSessions -> Moments], between' \subseteq Causes,
           CallKinds', RoomForLogins', AnswersFit'
    PROVE  CInv'
<1>1. /\ Moments' = Moments /\ Readings' = Readings /\ Opened' = Opened /\ Letters' = Letters
      /\ SessionKind' = SessionKind
  BY SameKinds
<1>2. ServerKinds' /\ TabKinds'
  BY <1>1 DEF CInv, Kinds, ServerKinds, TabKinds
<1> QED BY <1>1, <1>2 DEF CInv, Kinds, Causes

LEMMA ServerMoves ==
    ASSUME CInv, UNCHANGED <<hour, jar, held, idle, news, putBack, seen, acted, between>>,
           session' \in Seq(SessionKind), Len(session)' \in 1 .. MaxSessions,
           Len(session) <= Len(session)', CallKinds', RoomForLogins', AnswersFit'
    PROVE  CInv'
<1>1. hour \in Nat /\ Len(session)' \in Nat /\ hour <= hour'
  BY NowNat, ClockBounds DEF CInv
<1>2. /\ Moments \subseteq Moments' /\ Readings \subseteq Readings' /\ Opened \subseteq Opened'
      /\ Seq(Letters) \subseteq Seq(Letters') /\ Seq(SessionKind) \subseteq Seq(SessionKind')
  BY <1>1, MoreOfAll DEF CInv
<1>3. ServerKinds'
  BY <1>2 DEF CInv, Kinds, ServerKinds
<1>4. Moments' = Moments /\ Readings' = Readings
  BY DEF Moments, Readings, Now
<1>5. TabKinds'
  BY <1>2, <1>4 DEF CInv, Kinds, TabKinds
<1> QED BY <1>3, <1>4, <1>5 DEF CInv, Kinds, Causes

-----------------------------------------------------------------------------
(* The server's steps keep the types. *)

\* No step takes a session's staff away, or its clock back.
RowsKept == \A s \in 1 .. Len(session) : /\ session'[s].last \in Nat /\ session[s].last <= session'[s].last
                                         /\ session'[s].staff = session[s].staff

Truthful(c) == c.status = "done" => /\ c.left <= c.at /\ c.as # 0
                                    /\ c.at <= session'[c.as].last /\ c.staff = session'[c.as].staff

\* An answer takes the place of a request that was out.
LEMMA CallsAnswered ==
    ASSUME CInv, NEW c \in requests, NEW answer \in CallKind', Answered(c, answer), c.status = "sent",
           answer.status # "sent", answer.left = c.left, UNCHANGED hour, UNCHANGED sent,
           RowsKept, Truthful(answer),
           Len(session') = Len(session) \/ (Len(session') = Len(session) + 1 /\ c.what = "login")
    PROVE  CallKinds' /\ RoomForLogins' /\ AnswersFit'
<1>0. Len(session)' \in Nat /\ Len(session) <= Len(session)'
  BY NowNat DEF CInv
<1>1. requests' = (requests \ {c}) \cup {answer}
  BY DEF Answered
<1>2. /\ hour \in Nat /\ Len(session) \in Nat /\ hour <= hour'
  BY NowNat DEF CInv
<1>3. CallKind \subseteq CallKind' /\ SessionKind \subseteq SessionKind'
  BY <1>0, <1>2, MoreOfAll DEF CInv
<1>4. IsFiniteSet(requests')
  BY <1>1, FS_RemoveElement, FS_AddElement DEF CInv, Kinds, CallKinds
<1>5. CallKinds'
  BY <1>1, <1>3, <1>4 DEF CInv, Kinds, CallKinds
<1>6. AnswersFit'
  <2> SUFFICES ASSUME NEW d \in requests'
               PROVE  /\ hour <= d.left + Latency
                      /\ d.status = "done" => /\ d.left <= d.at /\ d.as # 0
                                              /\ d.at <= session'[d.as].last /\ d.staff = session'[d.as].staff
    BY DEF AnswersFit
  <2>1. CASE d = answer
    BY <2>1 DEF CInv, AnswersFit, Truthful
  <2>2. CASE d \in requests
    <3>1. /\ hour <= d.left + Latency
          /\ d.status = "done" => /\ d.left <= d.at /\ d.as # 0
                                  /\ d.at <= session[d.as].last /\ d.staff = session[d.as].staff
      BY <2>2 DEF CInv, AnswersFit
    <3>2. CASE d.status = "done"
      <4>1. d.as \in 1 .. Len(session) /\ session[d.as].last \in Nat /\ d.at \in Nat
        BY <2>2, <3>1, <3>2, CallFields, SessionFields DEF CInv, Moments
      <4>2. /\ session'[d.as].last \in Nat /\ session[d.as].last <= session'[d.as].last
            /\ session'[d.as].staff = session[d.as].staff
        BY <4>1 DEF RowsKept
      <4> QED BY <3>1, <3>2, <4>1, <4>2
    <3> QED BY <3>1, <3>2
  <2> QED BY <1>1, <2>1, <2>2
<1>7. RoomForLogins'
  <2>1. LoginsOut' \subseteq LoginsOut
    BY <1>1 DEF LoginsOut
  <2>2. /\ Cardinality(LoginsOut)' <= Cardinality(LoginsOut)
        /\ Cardinality(LoginsOut)' \in Nat /\ Cardinality(LoginsOut) \in Nat
        /\ \A d \in LoginsOut' : d.as = 0
    BY <2>1, FewerLoginsOut
  <2>3. Len(session) + Cardinality(LoginsOut) <= MaxSessions /\ MaxSessions \in Nat
    BY ClockBounds DEF CInv, RoomForLogins
  <2>4. CASE Len(session)' = Len(session)
    BY <1>0, <1>2, <2>2, <2>3, <2>4 DEF RoomForLogins
  <2>5. CASE Len(session)' = Len(session) + 1 /\ c.what = "login"
    <3>1. c \in LoginsOut /\ IsFiniteSet(LoginsOut) /\ LoginsOut' = LoginsOut \ {c}
      BY <1>1, <2>5, FS_Subset DEF LoginsOut, CInv, Kinds, CallKinds
    <3>2. Cardinality(LoginsOut \ {c}) = Cardinality(LoginsOut) - 1
      BY <3>1, FS_RemoveElement
    <3>3. Cardinality(LoginsOut)' = Cardinality(LoginsOut) - 1
      BY <3>1, <3>2
    <3> QED BY <1>0, <1>2, <2>2, <2>3, <2>5, <3>3 DEF RoomForLogins
  <2> QED BY <2>4, <2>5
<1> QED BY <1>5, <1>6, <1>7

LEMMA OpensKinds ==
    ASSUME CInv, NEW c \in requests, OpensSession(c)
    PROVE  CInv'
<1> PICK row : row = [staff |-> c.staff, last |-> hour, open |-> TRUE]
  OBVIOUS
<1> PICK answer : answer = [c EXCEPT !.status = "done", !.as = Len(session) + 1, !.at = hour]
  OBVIOUS
<1>1. /\ c.status = "sent" /\ c.what = "login" /\ session' = Append(session, row) /\ Answered(c, answer)
      /\ UNCHANGED <<hour, jar, held, idle, news, putBack, seen, acted, between, sent>>
  BY DEF OpensSession, tabs, clockHistory
<1>2. /\ session \in Seq(SessionKind) /\ Len(session) \in Nat /\ hour \in Nat
      /\ c \in CallKind /\ c.left \in Moments /\ c.staff \in BOOLEAN
  BY NowNat, CallFields DEF CInv, Kinds, ServerKinds
<1>3. row \in SessionKind /\ row.last = hour /\ row.staff = c.staff
  BY <1>2 DEF SessionKind, Moments
<1>4. /\ answer.status = "done" /\ answer.as = Len(session) + 1 /\ answer.at = hour
      /\ answer.left = c.left /\ answer.staff = c.staff
  BY <1>2 DEF CallKind
<1>5. /\ Len(session') = Len(session) + 1 /\ session' \in Seq(SessionKind)
      /\ session'[Len(session) + 1] = row
      /\ \A s \in 1 .. Len(session) : session'[s] = session[s]
  BY <1>1, <1>2, <1>3
<1>6. /\ hour <= hour' /\ Len(session)' = Len(session) + 1 /\ Len(session) <= Len(session)'
      /\ Len(session)' \in Nat
  BY <1>1, <1>2, <1>5
<1>7. answer \in CallKind'
  <2>1. Opened' = 0 .. (Len(session) + 1) /\ Moments' = 0 .. hour
    BY <1>1, <1>6 DEF Opened, Moments
  <2>2. Len(session) + 1 \in Opened' /\ hour \in Moments'
    BY <1>2, <2>1
  <2>3. c \in CallKind'
    BY <1>1, <1>2, <1>6, MoreOfAll DEF CInv
  <2> QED BY <2>2, <2>3 DEF CallKind
<1>8. RowsKept
  <2> SUFFICES ASSUME NEW s \in 1 .. Len(session)
               PROVE  /\ session'[s].last \in Nat /\ session[s].last <= session'[s].last
                      /\ session'[s].staff = session[s].staff
    BY DEF RowsKept
  <2>1. session[s] \in SessionKind
    BY <1>2
  <2>2. session[s].last \in Nat
    BY <1>2, <2>1 DEF SessionKind, Moments
  <2> QED BY <1>5, <2>2
<1>9. Truthful(answer)
  <2>1. session'[answer.as].last = hour /\ session'[answer.as].staff = c.staff
    BY <1>3, <1>4, <1>5
  <2> QED BY <1>2, <1>4, <2>1 DEF Moments, Truthful
<1>10. CallKinds' /\ RoomForLogins' /\ AnswersFit'
  BY <1>1, <1>4, <1>6, <1>7, <1>8, <1>9, CallsAnswered
<1>11. Len(session)' \in 1 .. MaxSessions
  <2>1. Cardinality(LoginsOut)' \in Nat /\ Len(session)' + Cardinality(LoginsOut)' <= MaxSessions
    <3>1. LoginsOut' \subseteq LoginsOut
      BY <1>1, <1>4 DEF LoginsOut, Answered
    <3> QED BY <1>10, <3>1, FewerLoginsOut DEF RoomForLogins
  <2> QED BY <1>2, <1>6, <2>1, ClockBounds
<1> QED BY <1>1, <1>5, <1>6, <1>10, <1>11, ServerMoves

\* What a step on one session leaves of the others, and of it.
LEMMA RowKept ==
    ASSUME CInv, NEW s \in 1 .. Len(session), NEW row \in SessionKind, session[s].last <= row.last,
           row.staff = session[s].staff, session' = [session EXCEPT ![s] = row]
    PROVE  /\ session' \in Seq(SessionKind) /\ Len(session') = Len(session) /\ session'[s] = row
           /\ RowsKept /\ \A u \in 1 .. Len(session) : u # s => session'[u] = session[u]
<1>1. session \in Seq(SessionKind) /\ hour \in Nat
  BY NowNat DEF CInv, Kinds, ServerKinds
<1>2. /\ session' \in Seq(SessionKind) /\ Len(session') = Len(session) /\ session'[s] = row
      /\ \A u \in 1 .. Len(session) : u # s => session'[u] = session[u]
  BY <1>1, ExceptSeq
<1>3. ASSUME NEW u \in 1 .. Len(session)
      PROVE  /\ session'[u].last \in Nat /\ session[u].last <= session'[u].last
             /\ session'[u].staff = session[u].staff
  <2>1. session[u] \in SessionKind
    BY <1>1
  <2>2. session[u].last \in Nat /\ row.last \in Nat
    BY <1>1, <2>1 DEF SessionKind, Moments
  <2> QED BY <1>2, <2>2
<1> QED BY <1>2, <1>3 DEF RowsKept

LEMMA ServesKinds ==
    ASSUME CInv, NEW c \in requests, Serves(c)
    PROVE  CInv'
<1> PICK last : last = IF c.what = "poll" THEN session[c.as].last ELSE hour
  OBVIOUS
<1> PICK open : open = (c.what # "logout")
  OBVIOUS
<1>1. /\ c.status = "sent" /\ c.what # "login" /\ c.as # 0
      /\ session' = [session EXCEPT ![c.as].last = last, ![c.as].open = open]
      /\ IF c.what \in {"page", "poll"} THEN requests' = requests \ {c}
         ELSE Answered(c, [c EXCEPT !.status = "done", !.at = last, !.staff = session[c.as].staff])
      /\ UNCHANGED <<hour, jar, held, idle, news, putBack, seen, acted, between, sent>>
  BY DEF Serves, Valid, tabs, clockHistory
<1>2. /\ c \in CallKind /\ c.as \in Opened /\ c.left \in Moments /\ hour \in Nat
      /\ session[c.as].last \in Moments /\ session[c.as].staff \in BOOLEAN
      /\ Len(session) \in Nat /\ Len(session) \in 1 .. MaxSessions
  BY <1>1, NowNat, CallFields, SessionFields DEF CInv, Kinds, ServerKinds
<1>3. last \in Moments /\ session[c.as].last <= last /\ open \in BOOLEAN
  BY <1>2 DEF Moments
<1> PICK row : row = [session[c.as] EXCEPT !.last = last, !.open = open]
  OBVIOUS
<1>a. session[c.as] \in SessionKind /\ c.as \in 1 .. Len(session)
  BY <1>1, <1>2, SessionFields DEF CInv
<1>b. /\ row \in SessionKind /\ row.last = last /\ row.staff = session[c.as].staff
      /\ session' = [session EXCEPT ![c.as] = row]
  BY <1>1, <1>3, <1>a DEF SessionKind
<1>c. session[c.as].last <= row.last
  BY <1>3, <1>b
<1>d. session' \in Seq(SessionKind) /\ Len(session') = Len(session) /\ session'[c.as] = row /\ RowsKept
  BY <1>a, <1>b, <1>c, RowKept, Zenon
<1>4. /\ session' \in Seq(SessionKind) /\ Len(session') = Len(session)
      /\ session'[c.as].last = last /\ session'[c.as].staff = session[c.as].staff
      /\ RowsKept
  BY <1>b, <1>d
<1>5. /\ hour <= hour' /\ Len(session)' = Len(session) /\ Len(session) <= Len(session)'
      /\ Len(session)' \in Nat
  BY <1>1, <1>2, <1>4
<1>6. CallKind' = CallKind
  BY <1>1, <1>5, SameKinds
<1>7. CASE c.what \in {"page", "poll"}
  <2>1. requests' = requests \ {c}
    BY <1>1, <1>7
  <2>2. CallKinds'
    BY <1>1, <1>6, <2>1, FS_RemoveElement DEF CInv, Kinds, CallKinds
  <2>3. LoginsOut' \subseteq LoginsOut
    BY <2>1 DEF LoginsOut
  <2>4. RoomForLogins'
    <3>1. /\ Cardinality(LoginsOut)' <= Cardinality(LoginsOut)
          /\ Cardinality(LoginsOut)' \in Nat /\ Cardinality(LoginsOut) \in Nat
          /\ \A d \in LoginsOut' : d.as = 0
      BY <2>3, FewerLoginsOut
    <3>2. Len(session) + Cardinality(LoginsOut) <= MaxSessions /\ MaxSessions \in Nat
      BY ClockBounds DEF CInv, RoomForLogins
    <3> QED BY <1>2, <1>5, <3>1, <3>2 DEF RoomForLogins
  <2>5. AnswersFit'
    <3> SUFFICES ASSUME NEW d \in requests'
                 PROVE  /\ hour <= d.left + Latency
                        /\ d.status = "done" => /\ d.left <= d.at /\ d.as # 0
                                                /\ d.at <= session'[d.as].last /\ d.staff = session'[d.as].staff
      BY <1>1 DEF AnswersFit
    <3>1. d \in requests
      BY <2>1
    <3>2. /\ hour <= d.left + Latency
          /\ d.status = "done" => /\ d.left <= d.at /\ d.as # 0
                                  /\ d.at <= session[d.as].last /\ d.staff = session[d.as].staff
      BY <3>1 DEF CInv, AnswersFit
    <3>3. CASE d.status = "done"
      <4>1. d.as \in 1 .. Len(session) /\ session[d.as].last \in Nat /\ d.at \in Nat
        BY <1>2, <3>1, <3>2, <3>3, CallFields, SessionFields DEF CInv, Moments
      <4>2. /\ session'[d.as].last \in Nat /\ session[d.as].last <= session'[d.as].last
            /\ session'[d.as].staff = session[d.as].staff
        BY <1>4, <4>1 DEF RowsKept
      <4> QED BY <3>2, <3>3, <4>1, <4>2
    <3> QED BY <3>2, <3>3
  <2> QED BY <1>1, <1>2, <1>4, <1>5, <2>2, <2>4, <2>5, ServerMoves
<1>8. CASE c.what \notin {"page", "poll"}
  <2> PICK answer : answer = [c EXCEPT !.status = "done", !.at = last, !.staff = session[c.as].staff]
    OBVIOUS
  <2>1. Answered(c, answer)
    BY <1>1, <1>8
  <2>2. /\ answer.status = "done" /\ answer.as = c.as /\ answer.at = last
        /\ answer.left = c.left /\ answer.staff = session[c.as].staff /\ answer \in CallKind
    BY <1>2, <1>3 DEF CallKind
  <2>3. last = hour /\ answer.left <= answer.at
    BY <1>2, <1>8, <2>2 DEF Moments
  <2>4. Truthful(answer) /\ answer \in CallKind' /\ answer.status # "sent"
    BY <1>1, <1>2, <1>4, <1>6, <2>2, <2>3 DEF Moments, Truthful
  <2>5. CallKinds' /\ RoomForLogins' /\ AnswersFit'
    BY <1>1, <1>4, <2>1, <2>2, <2>4, CallsAnswered, Zenon
  <2> QED BY <1>1, <1>2, <1>4, <1>5, <2>5, ServerMoves
<1> QED BY <1>7, <1>8

LEMMA RefusesIdleKinds ==
    ASSUME CInv, NEW c \in requests, RefusesIdle(c)
    PROVE  CInv'
<1> PICK answer : answer = [c EXCEPT !.status = "idle"]
  OBVIOUS
<1>1. /\ c.status = "sent" /\ c.what # "login" /\ c.as # 0
      /\ session' = [session EXCEPT ![c.as].open = FALSE] /\ Answered(c, answer)
      /\ UNCHANGED <<hour, jar, held, idle, news, putBack, seen, acted, between, sent>>
  BY DEF RefusesIdle, Valid, tabs, clockHistory
<1>2. /\ c \in CallKind /\ c.as \in Opened /\ hour \in Nat /\ c.as \in 1 .. Len(session)
      /\ session[c.as] \in SessionKind /\ session[c.as].last \in Moments
      /\ Len(session) \in Nat /\ Len(session) \in 1 .. MaxSessions /\ session \in Seq(SessionKind)
  BY <1>1, NowNat, CallFields, SessionFields DEF CInv, Kinds, ServerKinds
<1> PICK row : row = [session[c.as] EXCEPT !.open = FALSE]
  OBVIOUS
<1>3. /\ row \in SessionKind /\ row.last = session[c.as].last /\ row.staff = session[c.as].staff
      /\ session' = [session EXCEPT ![c.as] = row]
  BY <1>1, <1>2 DEF SessionKind
<1>4. session[c.as].last <= row.last
  BY <1>2, <1>3 DEF Moments
<1>5. session' \in Seq(SessionKind) /\ Len(session') = Len(session) /\ RowsKept
  BY <1>2, <1>3, <1>4, RowKept, Zenon
<1>6. /\ Len(session)' = Len(session) /\ Len(session) <= Len(session)' /\ Len(session)' \in Nat
  BY <1>2, <1>5
<1>7. CallKind' = CallKind
  BY <1>1, <1>6, SameKinds
<1>8. answer \in CallKind' /\ answer.status # "sent" /\ answer.left = c.left /\ Truthful(answer)
  BY <1>2, <1>7 DEF CallKind, Truthful
<1>9. CallKinds' /\ RoomForLogins' /\ AnswersFit'
  BY <1>1, <1>5, <1>8, CallsAnswered, Zenon
<1> QED BY <1>1, <1>2, <1>5, <1>6, <1>9, ServerMoves

LEMMA RefusesKinds ==
    ASSUME CInv, NEW c \in requests, Refuses(c)
    PROVE  CInv'
<1> PICK answer : answer = [c EXCEPT !.status = "refused"]
  OBVIOUS
<1>1. /\ c.status = "sent" /\ c.what # "login" /\ Answered(c, answer)
      /\ UNCHANGED <<hour, session, jar, held, idle, news, putBack, seen, acted, between, sent>>
  BY DEF Refuses, server, tabs, clockHistory
<1>2. /\ c \in CallKind /\ session \in Seq(SessionKind) /\ hour \in Nat
      /\ Len(session) \in Nat /\ Len(session) \in 1 .. MaxSessions
  BY NowNat, CallFields DEF CInv, Kinds, ServerKinds
<1>3. /\ Len(session)' = Len(session) /\ Len(session) <= Len(session)' /\ Len(session)' \in Nat
  BY <1>1, <1>2
<1>4. RowsKept
  <2> SUFFICES ASSUME NEW u \in 1 .. Len(session)
               PROVE  /\ session'[u].last \in Nat /\ session[u].last <= session'[u].last
                      /\ session'[u].staff = session[u].staff
    BY DEF RowsKept
  <2>1. session[u] \in SessionKind
    BY <1>2
  <2> QED BY <1>1, <1>2, <2>1 DEF SessionKind, Moments
<1>5. answer \in CallKind' /\ answer.status # "sent" /\ answer.left = c.left /\ Truthful(answer)
  BY <1>1, <1>2, <1>3, SameKinds DEF CallKind, Truthful
<1>6. CallKinds' /\ RoomForLogins' /\ AnswersFit'
  BY <1>1, <1>3, <1>4, <1>5, CallsAnswered, Zenon
<1> QED BY <1>1, <1>2, <1>3, <1>6, ServerMoves

-----------------------------------------------------------------------------
(* The other steps keep the types. *)

\* What an unchanged part keeps, for TabsMove.
LEMMA ClockParts ==
    ASSUME CInv
    PROVE  /\ jar \in Opened /\ held \in [Tabs -> Opened] /\ idle \in [Tabs -> Readings \cup {NoClock}]
           /\ news \in [Tabs -> Seq(Letters)] /\ putBack \subseteq Tabs /\ seen \in [Tabs -> Readings]
           /\ acted \in [1 .. MaxSessions -> Moments] /\ between \subseteq Causes /\ Now \in Readings
           /\ session \in Seq(SessionKind) /\ Len(session) \in 1 .. MaxSessions /\ hour \in 0 .. MaxTime
           /\ Kinds /\ Opened \subseteq Numbers
<1>1. Now \in Nat /\ Len(session) \in 1 .. MaxSessions /\ MaxSessions \in Nat
  BY NowNat, ClockBounds DEF CInv, Kinds, ServerKinds
<1>2. Now \in Readings /\ Opened \subseteq Numbers
  BY <1>1 DEF Readings, Opened, Numbers
<1> QED BY <1>2 DEF CInv, Kinds, ServerKinds, TabKinds

LEMMA PassKinds ==
    ASSUME CInv, Pass
    PROVE  CInv'
<1>1. /\ hour < MaxTime /\ hour' = hour + 1 /\ between' \subseteq Causes
      /\ \A c \in requests : hour - c.left < Latency
      /\ UNCHANGED <<session, jar, held, idle, news, seen, requests, sent, acted, putBack>>
  BY ClockParts DEF Pass, server, tabs, Causes
<1>2. hour \in Nat /\ hour' \in Nat /\ hour <= hour' /\ hour' \in 0 .. MaxTime /\ Len(session) \in Nat
  BY <1>1, ClockParts, NowNat, ClockBounds
<1>3. /\ Moments \subseteq Moments' /\ Readings \subseteq Readings' /\ Opened \subseteq Opened'
      /\ Seq(Letters) \subseteq Seq(Letters') /\ Seq(SessionKind) \subseteq Seq(SessionKind')
      /\ CallKind \subseteq CallKind'
  BY <1>1, <1>2, ClockParts, MoreOfAll
<1>4. ServerKinds' /\ TabKinds' /\ CallKinds'
  BY <1>1, <1>3 DEF CInv, Kinds, ServerKinds, TabKinds, CallKinds
<1>5. seen' \in [Tabs -> Readings'] /\ acted' \in [1 .. MaxSessions -> Moments']
  BY <1>1, <1>3, ClockParts
<1>6. RoomForLogins'
  BY <1>1 DEF CInv, RoomForLogins, LoginsOut
<1>7. AnswersFit'
  <2> SUFFICES ASSUME NEW c \in requests PROVE hour' <= c.left + Latency
    BY <1>1 DEF CInv, AnswersFit
  <2>1. c.left \in Nat /\ hour - c.left < Latency
    BY <1>1, ClockParts, CallFields
  <2> QED BY <1>1, <1>2, <2>1, ClockBounds
<1>8. Kinds'
  BY <1>1, <1>2, <1>4, <1>5 DEF Kinds, Causes
<1> QED BY <1>6, <1>7, <1>8 DEF CInv

LEMMA TickKinds ==
    ASSUME CInv, NEW t \in Tabs, Tick(t)
    PROVE  CInv'
<1>1. /\ seen' = [seen EXCEPT ![t] = Now]
      /\ UNCHANGED <<hour, session, jar, requests, sent, acted, between>>
      /\ clearSession(t) \/ UNCHANGED <<held, idle, news, putBack>>
  BY DEF Tick, server, tabs
<1>2. CallKinds' /\ RoomForLogins' /\ AnswersFit'
  BY <1>1, CallsStay
<1>3. seen' \in [Tabs -> Readings]
  BY <1>1, ClockParts
<1>4. /\ held' \in [Tabs -> Opened] /\ idle' \in [Tabs -> Readings \cup {NoClock}]
      /\ putBack' \subseteq Tabs /\ news' \in [Tabs -> Seq(Letters)]
  BY <1>1, ClockParts, ClearTellsKinds
<1>5. jar' \in Opened /\ acted' \in [1 .. MaxSessions -> Moments] /\ between' \subseteq Causes
      /\ UNCHANGED <<hour, session>>
  BY <1>1, ClockParts
<1> QED BY <1>2, <1>3, <1>4, <1>5, TabsMove

\* A request leaves as a tab's person acts.
LEMMA ActsAndLeaves ==
    ASSUME CInv, NEW t \in Tabs, UNCHANGED held, Acts(t), NEW what \in Errands, what # "login",
           NEW as \in Opened, Leaves(t, what, as, FALSE)
    PROVE  CInv'
<1>1. CallKinds' /\ RoomForLogins' /\ AnswersFit' /\ UNCHANGED <<hour, session, jar, seen>>
  BY LeavesKinds, Zenon
<1>2. /\ idle' \in [Tabs -> Readings \cup {NoClock}]
      /\ putBack' \subseteq Tabs /\ news' \in [Tabs -> Seq(Letters)]
      /\ acted' \in [1 .. MaxSessions -> Moments] /\ between' \subseteq Causes
  BY ClockParts, ActsKinds
<1>3. jar' \in Opened /\ held' \in [Tabs -> Opened] /\ seen' \in [Tabs -> Readings]
  BY <1>1, ClockParts
<1> QED BY <1>1, <1>2, <1>3, TabsMove

LEMMA ActKinds ==
    ASSUME CInv, NEW t \in Tabs, Act(t)
    PROVE  CInv'
<1>1. PICK as \in {held[t], jar} : Leaves(t, "page", as, FALSE) \/ Leaves(t, "account", as, FALSE)
  BY DEF Act
<1>2. as \in Opened
  BY ClockParts
<1>3. UNCHANGED held /\ Acts(t) /\ "page" \in Errands /\ "account" \in Errands
  BY DEF Act, Errands
<1> QED BY <1>1, <1>2, <1>3, ActsAndLeaves

LEMMA StayKinds ==
    ASSUME CInv, NEW t \in Tabs, Stay(t)
    PROVE  CInv'
<1>1. PICK as \in {held[t], jar} : Leaves(t, "touch", as, FALSE)
  BY DEF Stay
<1>2. as \in Opened
  BY ClockParts
<1>3. UNCHANGED held /\ Acts(t) /\ "touch" \in Errands
  BY DEF Stay, Errands
<1> QED BY <1>1, <1>2, <1>3, ActsAndLeaves

LEMMA LogOutKinds ==
    ASSUME CInv, NEW t \in Tabs, LogOut(t)
    PROVE  CInv'
<1>1. jar \in Opened /\ UNCHANGED held /\ Acts(t) /\ "logout" \in Errands
  BY ClockParts DEF LogOut, Errands
<1>2. PICK as : as = jar
  OBVIOUS
<1>3. Leaves(t, "logout", as, FALSE) /\ as \in Opened
  BY <1>1, <1>2 DEF LogOut
<1> QED BY <1>1, <1>3, ActsAndLeaves

LEMMA PollKinds ==
    ASSUME CInv, NEW t \in Tabs, Poll(t)
    PROVE  CInv'
<1>1. PICK as \in {held[t], jar} : Leaves(t, "poll", as, FALSE)
  BY DEF Poll
<1>2. as \in Opened /\ "poll" \in Errands /\ UNCHANGED <<held, idle, news, acted, putBack, between>>
  BY ClockParts DEF Poll, PollsPassively, clockHistory, Errands
<1>3. CallKinds' /\ RoomForLogins' /\ AnswersFit' /\ UNCHANGED <<hour, session, jar, seen>>
  BY <1>1, <1>2, LeavesKinds, Zenon
<1> QED BY <1>2, <1>3, ClockParts, TabsMove

LEMMA LogInKinds ==
    ASSUME CInv, NEW t \in Tabs, NEW staff \in BOOLEAN, LogIn(t, staff)
    PROVE  CInv'
<1>1. /\ Leaves(t, "login", 0, staff) /\ UNCHANGED <<held, idle, news, acted, putBack, between>>
      /\ Len(session) + Cardinality(LoginsOut) < MaxSessions
  BY DEF LogIn, tabs, clockHistory, LoginsOut
<1>2. 0 \in Opened /\ "login" \in Errands
  BY NowNat, ClockParts DEF Opened, Errands
<1>3. CallKinds' /\ RoomForLogins' /\ AnswersFit' /\ UNCHANGED <<hour, session, jar, seen>>
  BY <1>1, <1>2, LeavesKinds
<1> QED BY <1>1, <1>3, ClockParts, TabsMove

LEMMA LoginLandsKinds ==
    ASSUME CInv, NEW c \in requests, LoginLands(c)
    PROVE  CInv'
<1>1. /\ c.what = "login" /\ c.status = "done" /\ Over(c)
      /\ jar' = c.as /\ held' = [held EXCEPT ![c.tab] = c.as]
      /\ acted' = [acted EXCEPT ![c.as] = c.at] /\ applyActivity(c.tab, c, Login)
  BY DEF LoginLands
<1>2. c.tab \in Tabs /\ c.as \in Opened /\ c.at \in Moments
  BY ClockParts, CallFields
<1>3. CallKinds' /\ RoomForLogins' /\ AnswersFit' /\ UNCHANGED <<hour, session, seen>>
  BY <1>1, CallsOver
<1>4. /\ idle' \in [Tabs -> Readings \cup {NoClock}]
      /\ putBack' \subseteq Tabs /\ news' \in [Tabs -> Seq(Letters)] /\ between' \subseteq Causes
  BY <1>1, <1>2, ClockParts, ApplyKinds
<1>5. /\ jar' \in Opened /\ held' \in [Tabs -> Opened] /\ acted' \in [1 .. MaxSessions -> Moments]
      /\ seen' \in [Tabs -> Readings]
  BY <1>1, <1>2, <1>3, ClockParts
<1> QED BY <1>3, <1>4, <1>5, TabsMove

LEMMA ClockLandsKinds ==
    ASSUME CInv, NEW c \in requests, ClockLands(c)
    PROVE  CInv'
<1>1. Over(c) /\ UNCHANGED <<jar, held, acted>> /\ applyActivity(c.tab, c, <<>>)
  BY DEF ClockLands
<1>2. c.tab \in Tabs
  BY ClockParts, CallFields
<1>3. CallKinds' /\ RoomForLogins' /\ AnswersFit' /\ UNCHANGED <<hour, session, seen>>
  BY <1>1, CallsOver
<1>4. /\ idle' \in [Tabs -> Readings \cup {NoClock}]
      /\ putBack' \subseteq Tabs /\ news' \in [Tabs -> Seq(Letters)] /\ between' \subseteq Causes
  BY <1>1, <1>2, ClockParts, ApplyKinds
<1> QED BY <1>1, <1>3, <1>4, ClockParts, TabsMove

\* A request that ends, and perhaps the tab's session with it.
LEMMA EndsKinds ==
    ASSUME CInv, NEW c \in requests, Over(c), jar' \in {jar, 0}, UNCHANGED acted, between' \subseteq Causes,
           clearSession(c.tab) \/ UNCHANGED <<held, idle, news, putBack>>
    PROVE  CInv'
<1>1. c.tab \in Tabs /\ 0 \in Opened
  BY ClockParts, CallFields, NowNat DEF Opened
<1>2. CallKinds' /\ RoomForLogins' /\ AnswersFit' /\ UNCHANGED <<hour, session, seen>>
  BY CallsOver
<1>3. /\ held' \in [Tabs -> Opened] /\ idle' \in [Tabs -> Readings \cup {NoClock}]
      /\ putBack' \subseteq Tabs /\ news' \in [Tabs -> Seq(Letters)]
  BY <1>1, ClockParts, ClearTellsKinds
<1>4. jar' \in Opened /\ acted' \in [1 .. MaxSessions -> Moments] /\ seen' \in [Tabs -> Readings]
  BY <1>1, <1>2, ClockParts
<1> QED BY <1>2, <1>3, <1>4, TabsMove

LEMMA EndingsKinds ==
    ASSUME CInv, NEW c \in requests, IdleLands(c) \/ RefusalLands(c) \/ LogoutLands(c) \/ GivesUp(c)
    PROVE  CInv'
<1>1. /\ Over(c) /\ jar' \in {jar, 0} /\ UNCHANGED acted /\ between' \in {between, between \cup {"lost"}}
      /\ clearSession(c.tab) \/ UNCHANGED <<held, idle, news, putBack>>
  BY DEF IdleLands, RefusalLands, LogoutLands, GivesUp, tabs
<1>2. between' \subseteq Causes
  BY <1>1, ClockParts DEF Causes
<1> QED BY <1>1, <1>2, EndsKinds

LEMMA HearKinds ==
    ASSUME CInv, NEW t \in Tabs, Hear(t)
    PROVE  CInv'
<1> PICK message : message = Head(news[t])
  OBVIOUS
<1> PICK mail : mail = [news EXCEPT ![t] = Tail(@)]
  OBVIOUS
<1>1. /\ news[t] # <<>> /\ UNCHANGED <<hour, session, jar, seen>>
      /\ HearsActivity(t, message) \/ HearsLogout(t, message) \/ HearsLogin(t, message)
  BY DEF Hear, server
<1>2. news \in [Tabs -> Seq(Letters)] /\ news[t] \in Seq(Letters)
  BY ClockParts
<1>3. message \in Letters /\ Tail(news[t]) \in Seq(Letters)
  BY <1>1, <1>2, HeadTailProperties
<1>4. mail \in [Tabs -> Seq(Letters)]
  BY <1>2, <1>3
<1>5. CASE HearsActivity(t, message)
  <2>1. /\ message.type = "activity" /\ news' = mail /\ UNCHANGED <<held, requests, sent, acted, between>>
        /\ putBack' \in {putBack, putBack \cup {t}}
        /\ idle' = idle \/ idle' = [idle EXCEPT ![t] = message.at]
    BY <1>5 DEF HearsActivity
  <2>2. message.at \in Readings
    BY <1>3, <2>1 DEF Letters
  <2>3. idle' \in [Tabs -> Readings \cup {NoClock}] /\ putBack' \subseteq Tabs
    BY <2>1, <2>2, ClockParts
  <2>4. CallKinds' /\ RoomForLogins' /\ AnswersFit'
    BY <1>1, <2>1, CallsStay
  <2> QED BY <1>1, <1>4, <2>1, <2>3, <2>4, ClockParts, TabsMove
<1>6. CASE HearsLogout(t, message)
  <2>1. clearSessionLocally(t) /\ news' = mail /\ UNCHANGED <<requests, sent, acted, between>>
    BY <1>6 DEF HearsLogout
  <2>2. CallKinds' /\ RoomForLogins' /\ AnswersFit'
    BY <1>1, <2>1, CallsStay
  <2>3. /\ held' \in [Tabs -> Opened] /\ idle' \in [Tabs -> Readings \cup {NoClock}]
        /\ putBack' \subseteq Tabs
    BY <2>1, ClockParts, ClearKinds
  <2> QED BY <1>1, <1>4, <2>1, <2>2, <2>3, ClockParts, TabsMove
<1>7. CASE HearsLogin(t, message)
  <2>1. CASE news' = mail /\ UNCHANGED <<held, idle, requests, sent, acted, putBack, between>>
    <3>1. CallKinds' /\ RoomForLogins' /\ AnswersFit'
      BY <1>1, <2>1, CallsStay
    <3> QED BY <1>1, <1>4, <2>1, <3>1, ClockParts, TabsMove
  <2>2. CASE /\ jar # 0 /\ held' = [held EXCEPT ![t] = jar] /\ noteActivity(t, mail)
             /\ UNCHANGED <<acted, between>> /\ Leaves(t, "account", jar, FALSE)
    <3>1. PICK as : as = jar
      OBVIOUS
    <3>2. as \in Opened /\ "account" \in Errands /\ Leaves(t, "account", as, FALSE)
      BY <2>2, <3>1, ClockParts DEF Errands
    <3>3. CallKinds' /\ RoomForLogins' /\ AnswersFit'
      BY <3>2, LeavesKinds, Zenon
    <3>4. /\ idle' \in [Tabs -> Readings \cup {NoClock}] /\ putBack' \subseteq Tabs
          /\ news' \in [Tabs -> Seq(Letters)]
      BY <1>4, <2>2, ClockParts, NoteKinds
    <3>5. held' \in [Tabs -> Opened]
      BY <2>2, ClockParts
    <3> QED BY <1>1, <2>2, <3>3, <3>4, <3>5, ClockParts, TabsMove
  <2> QED BY <1>7, <2>1, <2>2 DEF HearsLogin, clockHistory
<1> QED BY <1>1, <1>5, <1>6, <1>7

-----------------------------------------------------------------------------
(* The first steps' state, and the theorem. *)

LEMMA InitKinds == ClockInit => CInv
<1> SUFFICES ASSUME ClockInit PROVE CInv
  OBVIOUS
<1> PICK row : row = [staff |-> TRUE, last |-> 0, open |-> TRUE]
  OBVIOUS
<1>1. /\ hour = 0 /\ session = <<row>> /\ jar = 1 /\ held = [t \in Tabs |-> 1]
      /\ idle \in [Tabs -> {Skew, NoClock}] /\ seen = [t \in Tabs |-> Skew] /\ news = [t \in Tabs |-> <<>>]
      /\ requests = {} /\ sent = 0 /\ acted = [s \in 1 .. MaxSessions |-> 0] /\ putBack = {} /\ between = {}
  BY DEF ClockInit
<1>2. Skew \in Nat /\ MaxTime \in Nat /\ MaxSessions \in Nat \ {0} /\ MaxRequests \in Nat
  BY ClockBounds
<1>3. Len(session) = 1 /\ 0 \in Moments /\ Skew \in Readings /\ 1 \in Opened
  BY <1>1, <1>2 DEF Moments, Readings, Now, Opened
<1>4. row \in SessionKind
  BY <1>3 DEF SessionKind
<1>5. session \in Seq(SessionKind)
  BY <1>1, <1>4
<1>6. ServerKinds
  BY <1>1, <1>2, <1>3, <1>5 DEF ServerKinds
<1>7. TabKinds
  BY <1>1, <1>3 DEF TabKinds
<1>8. CallKinds
  BY <1>1, <1>2, FS_EmptySet DEF CallKinds
<1>9. hour \in 0 .. MaxTime /\ seen \in [Tabs -> Readings] /\ acted \in [1 .. MaxSessions -> Moments]
  BY <1>1, <1>2, <1>3
<1>10. Kinds
  BY <1>1, <1>6, <1>7, <1>8, <1>9 DEF Kinds
<1>11. LoginsOut = {} /\ Cardinality({}) = 0
  BY <1>1, FS_EmptySet DEF LoginsOut
<1>12. RoomForLogins /\ AnswersFit
  BY <1>1, <1>2, <1>3, <1>11 DEF RoomForLogins, AnswersFit
<1> QED BY <1>10, <1>12 DEF CInv

LEMMA StutterKinds == CInv /\ UNCHANGED clockVars => CInv'
<1> SUFFICES ASSUME CInv, UNCHANGED clockVars PROVE CInv'
  OBVIOUS
<1>1. UNCHANGED <<hour, session, jar, held, idle, news, seen, requests, sent, acted, putBack, between>>
  BY DEF clockVars, server, tabs, clockHistory
<1>2. CallKinds' /\ RoomForLogins' /\ AnswersFit'
  BY <1>1, CallsStay
<1> QED BY <1>1, <1>2, ClockParts, TabsMove

LEMMA NextKinds == CInv /\ [ClockNext]_clockVars => CInv'
<1> SUFFICES ASSUME CInv, ClockNext PROVE CInv'
  BY StutterKinds
<1>1. CASE Pass
  BY <1>1, PassKinds
<1>2. ASSUME NEW t \in Tabs, Tick(t) \/ Act(t) \/ Poll(t) \/ Stay(t) \/ LogOut(t) \/ Hear(t)
      PROVE  CInv'
  BY <1>2, TickKinds, ActKinds, PollKinds, StayKinds, LogOutKinds, HearKinds
<1>3. ASSUME NEW t \in Tabs, NEW staff \in BOOLEAN, LogIn(t, staff)
      PROVE  CInv'
  BY <1>3, LogInKinds
<1>4. ASSUME NEW c \in requests, OpensSession(c) \/ Serves(c) \/ RefusesIdle(c) \/ Refuses(c)
      PROVE  CInv'
  BY <1>4, OpensKinds, ServesKinds, RefusesIdleKinds, RefusesKinds
<1>5. ASSUME NEW c \in requests, \/ LoginLands(c) \/ ClockLands(c) \/ IdleLands(c)
                                 \/ RefusalLands(c) \/ LogoutLands(c) \/ GivesUp(c)
      PROVE  CInv'
  BY <1>5, LoginLandsKinds, ClockLandsKinds, EndingsKinds
<1> QED BY <1>1, <1>2, <1>3, <1>4, <1>5 DEF ClockNext

LEMMA KindsAreTypes == CInv => ClockTypeOK
<1> SUFFICES ASSUME CInv PROVE ClockTypeOK
  OBVIOUS
<1>1. Moments \subseteq Nat /\ Readings \subseteq Nat /\ NoClock \notin Nat
  BY NowNat DEF CInv, Moments, Readings, NoClock
<1>2. SessionKind \subseteq [staff : BOOLEAN, last : Nat, open : BOOLEAN] /\ Letters \subseteq Messages
  BY <1>1 DEF SessionKind, Letters, Messages
<1>3. \A S, T : S \subseteq T => Seq(S) \subseteq Seq(T)
  OBVIOUS
<1>4. /\ Seq(SessionKind) \subseteq Seq([staff : BOOLEAN, last : Nat, open : BOOLEAN])
      /\ Seq(Letters) \subseteq Seq(Messages)
  BY <1>2, <1>3
<1>5. CallKind \subseteq Request
  BY <1>1, ClockParts DEF CallKind, Request
<1>6. jar \in Numbers /\ held \in [Tabs -> Numbers]
  BY ClockParts
<1>7. /\ session \in Seq([staff : BOOLEAN, last : Nat, open : BOOLEAN]) /\ Len(session) \in 1 .. MaxSessions
      /\ hour \in 0 .. MaxTime
  BY <1>4, ClockParts
<1>8. idle \in [Tabs -> Nat \cup {NoClock}] /\ seen \in [Tabs -> Nat] /\ acted \in [1 .. MaxSessions -> Nat]
  BY <1>1, ClockParts
<1>9. news \in [Tabs -> Seq(Messages)]
  BY <1>4, ClockParts
<1>10. requests \subseteq Request /\ sent \in 0 .. MaxRequests
  BY <1>5 DEF CInv, Kinds, CallKinds
<1> QED BY <1>6, <1>7, <1>8, <1>9, <1>10, ClockParts DEF ClockTypeOK, Causes

(* IdleClock.ClockTypeOK, for every number of tabs, sessions, requests and seconds: no clock, mark  *)
(* or answer is of a time still to come, and what a request, a tab or the cookie names was opened.  *)
THEOREM ClockTypesHold == ClockSpec => []ClockTypeOK
<1>1. ClockSpec => []CInv
  BY InitKinds, NextKinds, PTL DEF ClockSpec
<1> QED BY <1>1, KindsAreTypes, PTL

-----------------------------------------------------------------------------
(* Where a clock's reading comes from. *)

Marked(u) == \/ idle'[u] = NoClock \/ u \in putBack' \/ idle'[u] = Now
             \/ u \notin putBack /\ idle[u] # NoClock /\ idle[u] <= idle'[u]
             \/ \E c \in requests : c.status = "done" /\ idle'[u] = c.at

Marks == \A u \in Tabs : Marked(u)

LEMMA SameMarks == ASSUME CInv, UNCHANGED <<idle, putBack>> PROVE Marks
<1> SUFFICES ASSUME NEW u \in Tabs PROVE Marked(u)
  BY DEF Marks
<1>1. idle[u] \in Nat \/ idle[u] = NoClock
  BY ClockParts, NowNat DEF Readings
<1> QED BY <1>1 DEF Marked

LEMMA ClearMarks == ASSUME CInv, NEW t \in Tabs, clearSessionLocally(t) PROVE Marks
<1> SUFFICES ASSUME NEW u \in Tabs PROVE Marked(u)
  BY DEF Marks
<1>1. idle[u] \in Nat \/ idle[u] = NoClock
  BY ClockParts, NowNat DEF Readings
<1>2. CASE u = t
  BY <1>2, ClockParts DEF clearSessionLocally, Marked
<1>3. CASE u # t
  <2>1. idle'[u] = idle[u] /\ (u \in putBack => u \in putBack')
    BY <1>3, ClockParts DEF clearSessionLocally
  <2> QED BY <1>1, <2>1 DEF Marked
<1> QED BY <1>2, <1>3

LEMMA NoteMarks == ASSUME CInv, NEW t \in Tabs, NEW mail, noteActivity(t, mail) PROVE Marks
<1>1. CASE UNCHANGED <<idle, putBack>>
  BY <1>1, SameMarks
<1>2. CASE idle' = [idle EXCEPT ![t] = Now] /\ putBack' = putBack \ {t}
  <2> SUFFICES ASSUME NEW u \in Tabs PROVE Marked(u)
    BY DEF Marks
  <2>1. idle[u] \in Nat \/ idle[u] = NoClock
    BY ClockParts, NowNat DEF Readings
  <2>2. CASE u = t
    BY <1>2, <2>2, ClockParts DEF Marked
  <2>3. CASE u # t
    <3>1. idle'[u] = idle[u] /\ (u \in putBack => u \in putBack')
      BY <1>2, <2>3, ClockParts
    <3> QED BY <2>1, <3>1 DEF Marked
  <2> QED BY <2>2, <2>3
<1> QED BY <1>1, <1>2 DEF noteActivity, MarksAndTells

LEMMA ApplyMarks ==
    ASSUME CInv, NEW c \in requests, c.status = "done", NEW before, applyActivity(c.tab, c, before)
    PROVE  Marks
<1> SUFFICES ASSUME NEW u \in Tabs PROVE Marked(u)
  BY DEF Marks
<1>1. idle[u] \in Nat \/ idle[u] = NoClock
  BY ClockParts, NowNat DEF Readings
<1>2. CASE u = c.tab
  <2>1. idle'[u] = c.at \/ idle'[u] = NoClock
    BY <1>2, ClockParts DEF applyActivity
  <2> QED BY <2>1 DEF Marked
<1>3. CASE u # c.tab
  <2>1. idle'[u] = idle[u] /\ (u \in putBack => u \in putBack')
    BY <1>3, ClockParts DEF applyActivity
  <2> QED BY <1>1, <2>1 DEF Marked
<1> QED BY <1>2, <1>3

LEMMA HearMarks == ASSUME CInv, NEW t \in Tabs, Hear(t) PROVE Marks
<1> PICK message : message = Head(news[t])
  OBVIOUS
<1>1. HearsActivity(t, message) \/ HearsLogout(t, message) \/ HearsLogin(t, message)
  BY DEF Hear
<1>2. CASE HearsActivity(t, message)
  <2>1. message \in Letters
    <3>1. news[t] # <<>> /\ news[t] \in Seq(Letters)
      BY ClockParts DEF Hear
    <3> QED BY <3>1, HeadTailProperties
  <2>2. message.at \in Nat
    BY <1>2, <2>1, ClockParts, NowNat DEF HearsActivity, Letters, Readings
  <2> SUFFICES ASSUME NEW u \in Tabs PROVE Marked(u)
    BY DEF Marks
  <2>3. idle[u] \in Nat \/ idle[u] = NoClock
    BY ClockParts, NowNat DEF Readings
  <2>4. CASE u # t \/ idle[u] = NoClock
    <3>1. idle'[u] = idle[u] /\ (u \in putBack => u \in putBack')
      BY <1>2, <2>4, ClockParts DEF HearsActivity
    <3> QED BY <2>3, <3>1 DEF Marked
  <2>5. CASE u = t /\ idle[u] # NoClock
    <3>1. /\ idle'[u] = message.at /\ (u \in putBack => u \in putBack')
          /\ message.at < idle[u] => u \in putBack'
      BY <1>2, <2>5, ClockParts DEF HearsActivity
    <3> QED BY <2>2, <2>3, <2>5, <3>1 DEF Marked
  <2> QED BY <2>4, <2>5
<1>3. CASE HearsLogout(t, message)
  BY <1>3, ClearMarks DEF HearsLogout
<1>4. CASE HearsLogin(t, message)
  <2>1. UNCHANGED <<idle, putBack>> \/ \E mail : noteActivity(t, mail)
    BY <1>4 DEF HearsLogin, clockHistory
  <2> QED BY <2>1, SameMarks, NoteMarks
<1> QED BY <1>1, <1>2, <1>3, <1>4

\* But for a second passing and a tick, every step.
Unmoved == UNCHANGED <<hour, seen>> /\ between \subseteq between' /\ Marks

LEMMA StepsAreQuiet ==
    ASSUME CInv, [ClockNext]_clockVars
    PROVE  Pass \/ (\E t \in Tabs : Tick(t)) \/ Unmoved
<1>1. CASE UNCHANGED clockVars
  BY <1>1, SameMarks DEF Unmoved, clockVars, server, tabs, clockHistory
<1>2. ASSUME NEW t \in Tabs, Act(t) \/ Stay(t) \/ LogOut(t)
      PROVE  Unmoved
  <2>1. noteActivity(t, news) /\ between \subseteq between' /\ UNCHANGED <<hour, seen>>
    BY <1>2 DEF Act, Stay, LogOut, Acts, Leaves
  <2> QED BY <2>1, NoteMarks DEF Unmoved
<1>3. ASSUME NEW t \in Tabs, Poll(t) \/ \E staff \in BOOLEAN : LogIn(t, staff)
      PROVE  Unmoved
  <2>1. UNCHANGED <<hour, seen, idle, putBack, between>>
    BY <1>3 DEF Poll, PollsPassively, LogIn, Leaves, tabs, clockHistory
  <2> QED BY <2>1, SameMarks DEF Unmoved
<1>4. ASSUME NEW t \in Tabs, Hear(t)
      PROVE  Unmoved
  <2>1. UNCHANGED <<hour, seen, between>>
    BY <1>4 DEF Hear, HearsActivity, HearsLogout, HearsLogin, clockHistory
  <2> QED BY <1>4, <2>1, HearMarks DEF Unmoved
<1>5. ASSUME NEW c \in requests, OpensSession(c) \/ Serves(c) \/ RefusesIdle(c) \/ Refuses(c) \/ GivesUp(c)
      PROVE  Unmoved
  <2>1. UNCHANGED <<hour, seen, idle, putBack>> /\ between \subseteq between'
    BY <1>5 DEF OpensSession, Serves, RefusesIdle, Refuses, GivesUp, Over, tabs, clockHistory
  <2> QED BY <2>1, SameMarks DEF Unmoved
<1>6. ASSUME NEW c \in requests, LoginLands(c) \/ ClockLands(c)
      PROVE  Unmoved
  <2>1. /\ c.status = "done" /\ UNCHANGED <<hour, seen>> /\ between \subseteq between'
        /\ applyActivity(c.tab, c, Login) \/ applyActivity(c.tab, c, <<>>)
    BY <1>6 DEF LoginLands, ClockLands, Over, applyActivity
  <2> QED BY <2>1, ApplyMarks DEF Unmoved
<1>7. ASSUME NEW c \in requests, IdleLands(c) \/ RefusalLands(c) \/ LogoutLands(c)
      PROVE  Unmoved
  <2>1. /\ UNCHANGED <<hour, seen, between>> /\ c.tab \in Tabs
        /\ clearSessionLocally(c.tab) \/ UNCHANGED <<idle, putBack>>
    BY <1>7, ClockParts, CallFields DEF IdleLands, RefusalLands, LogoutLands, Over, clearSession, tabs
  <2> QED BY <2>1, ClearMarks, SameMarks DEF Unmoved
<1> QED BY <1>1, <1>2, <1>3, <1>4, <1>5, <1>6, <1>7 DEF ClockNext

-----------------------------------------------------------------------------
(* AskedFirst *)

\* A tab awake has ticked in the last second, and ticked before its clock ran out.
InTime(t) == /\ Now <= seen[t] + 1
             /\ t \notin putBack /\ idle[t] # NoClock => seen[t] < idle[t] + Timeout

AInv == "slept" \notin between => \A t \in Tabs : InTime(t)

\* A request is given up long before a session's time is: an answer's clock is not run out.
Prompt == Latency + Skew < Timeout

LEMMA AskedInit == ASSUME ClockInit PROVE AInv
<1>1. Skew \in Nat /\ Timeout \in Nat \ {0}
  BY ClockBounds
<1> QED BY <1>1 DEF ClockInit, AInv, InTime, Now, NoClock

LEMMA AskedStep ==
    ASSUME Prompt, CInv, AInv, [ClockNext]_clockVars
    PROVE  AInv'
<1> SUFFICES ASSUME "slept" \notin between', NEW t \in Tabs PROVE InTime(t)'
  BY DEF AInv
<1>1. /\ Timeout \in Nat \ {0} /\ Skew \in Nat /\ Latency \in Nat /\ hour \in Nat /\ Now \in Nat
      /\ Now = hour + Skew
  BY ClockParts, NowNat, ClockBounds DEF Now
<1>2. seen[t] \in Nat /\ seen[t] <= Now /\ (idle[t] \in Nat \/ idle[t] = NoClock)
  BY <1>1, ClockParts DEF Readings
<1>3. CASE Pass
  <2>1. /\ hour' = hour + 1 /\ seen[t] = Now /\ UNCHANGED <<seen, idle, putBack>>
        /\ "slept" \notin between
    BY <1>3 DEF Pass, tabs
  <2>2. Now' = Now + 1
    BY <1>1, <2>1 DEF Now
  <2>3. InTime(t)
    BY <2>1 DEF AInv
  <2> QED BY <1>1, <1>2, <2>1, <2>2, <2>3 DEF InTime
<1>4. ASSUME NEW u \in Tabs, Tick(u)
      PROVE  InTime(t)'
  <2>1. /\ UNCHANGED <<hour, between>> /\ seen' = [seen EXCEPT ![u] = Now]
        /\ IF RunsOut(u) THEN clearSessionLocally(u) ELSE UNCHANGED <<idle, putBack>>
    BY <1>4 DEF Tick, clearSession, tabs
  <2>2. InTime(t) /\ Now' = Now
    BY <2>1 DEF AInv, Now
  <2>3. CASE t = u
    <3>1. seen'[t] = Now
      BY <2>1, <2>3, ClockParts
    <3>2. CASE RunsOut(u)
      <4>1. idle'[t] = NoClock
        BY <2>1, <2>3, <3>2, ClockParts DEF clearSessionLocally
      <4> QED BY <1>1, <2>2, <3>1, <4>1 DEF InTime
    <3>3. CASE ~RunsOut(u)
      <4>1. idle'[t] = idle[t] /\ (idle[t] # NoClock => Now < idle[t] + Timeout)
        BY <1>1, <1>2, <2>1, <2>3, <3>3 DEF RunsOut
      <4> QED BY <1>1, <2>2, <3>1, <4>1 DEF InTime
    <3> QED BY <3>2, <3>3
  <2>4. CASE t # u
    <3>1. seen'[t] = seen[t] /\ idle'[t] = idle[t] /\ (t \in putBack => t \in putBack')
      BY <2>1, <2>4, ClockParts DEF clearSessionLocally
    <3> QED BY <2>2, <3>1 DEF InTime
  <2> QED BY <2>3, <2>4
<1>5. CASE Unmoved
  <2>1. /\ UNCHANGED <<hour, seen>> /\ Marked(t) /\ InTime(t) /\ Now' = Now
    BY <1>5 DEF Unmoved, Marks, AInv, Now
  <2>2. ASSUME NEW c \in requests, c.status = "done", idle'[t] = c.at
        PROVE  seen[t] < idle'[t] + Timeout
    <3>1. /\ hour <= c.left + Latency /\ c.left <= c.at /\ c.left \in Nat /\ c.at \in Nat
      BY <2>2, ClockParts, CallFields DEF CInv, AnswersFit
    <3> QED BY <1>1, <1>2, <2>2, <3>1 DEF Prompt
  <2>3. CASE t \notin putBack /\ idle[t] # NoClock /\ idle[t] <= idle'[t] /\ idle'[t] # NoClock
    <3>1. idle'[t] \in Nat
      <4>1. CInv'
        BY NextKinds
      <4>2. Kinds' /\ idle' \in [Tabs -> Readings' \cup {NoClock}] /\ Now' \in Nat
        BY <1>1, <2>1, <4>1 DEF CInv, Kinds, TabKinds
      <4> QED BY <2>3, <4>2 DEF Readings
    <3> QED BY <1>1, <1>2, <2>1, <2>3, <3>1 DEF InTime
  <2> QED BY <1>1, <1>2, <2>1, <2>2, <2>3 DEF InTime, Marked
<1> QED BY <1>3, <1>4, <1>5, StepsAreQuiet

(* IdleClock.AskedFirst, where a request is given up sooner than a session's time (less what this  *)
(* computer's clock is ahead): nobody's session ends by the clock before the prompt was on screen.  *)
THEOREM AskedFirstAlways == ASSUME Prompt PROVE ClockSpec => AskedFirst
<1>1. ClockSpec => [](CInv /\ AInv)
  <2>1. ClockInit => CInv /\ AInv
    BY InitKinds, AskedInit
  <2>2. CInv /\ AInv /\ [ClockNext]_clockVars => (CInv /\ AInv)'
    BY NextKinds, AskedStep
  <2> QED BY <2>1, <2>2, PTL DEF ClockSpec
<1>2. CInv /\ AInv => \A t \in Tabs : Tick(t) /\ RunsOut(t) /\ t \notin putBack /\ "slept" \notin between
                                       => isOpen(t)
  <2> SUFFICES ASSUME CInv, AInv, NEW t \in Tabs, RunsOut(t), t \notin putBack, "slept" \notin between
               PROVE  isOpen(t)
    OBVIOUS
  <2>1. InTime(t) /\ idle[t] # NoClock /\ idle[t] + Timeout <= Now
    BY DEF AInv, RunsOut
  <2>2. /\ Timeout \in Nat /\ Warning \in Nat \ {0} /\ Now \in Nat /\ seen[t] \in Nat /\ idle[t] \in Nat
    BY <2>1, ClockParts, NowNat, ClockBounds DEF Readings
  <2> QED BY <2>1, <2>2 DEF InTime, isOpen, Remaining
<1> QED BY <1>1, <1>2, PTL DEF AskedFirst

-----------------------------------------------------------------------------
(* SparesTheActive: whom a session's login was for, and what is on its way to a tab. *)

\* The session of a sign-in still to land is nobody's yet.
Fresh == \A c \in requests : c.what = "login" /\ c.status = "done" =>
            /\ c.as # 0 /\ c.as # jar /\ \A u \in Tabs : held[u] # c.as
            /\ \A d \in requests : d # c => d.as # c.as

\* An answer is to its request.
LEMMA AnswersKeep ==
    ASSUME CInv, NEW c \in requests, Serves(c) \/ RefusesIdle(c) \/ Refuses(c)
    PROVE  \/ requests' = requests \ {c} /\ c.what \in {"page", "poll"}
           \/ \E e : /\ requests' = (requests \ {c}) \cup {e} /\ e.status # "sent"
                     /\ e.as = c.as /\ e.what = c.what /\ e.tab = c.tab /\ e.left = c.left
<1>1. c \in CallKind
  BY ClockParts, CallFields
<1>2. CASE requests' = requests \ {c} /\ c.what \in {"page", "poll"}
  BY <1>2
<1>3. ASSUME NEW status \in {"idle", "refused"}, Answered(c, [c EXCEPT !.status = status])
      PROVE  \E e : /\ requests' = (requests \ {c}) \cup {e} /\ e.status # "sent"
                    /\ e.as = c.as /\ e.what = c.what /\ e.tab = c.tab /\ e.left = c.left
  <2> PICK e : e = [c EXCEPT !.status = status]
    OBVIOUS
  <2>1. e.status = status /\ e.as = c.as /\ e.what = c.what /\ e.tab = c.tab /\ e.left = c.left
    BY <1>1 DEF CallKind
  <2>2. requests' = (requests \ {c}) \cup {e}
    BY <1>3 DEF Answered
  <2> QED BY <2>1, <2>2
<1>4. ASSUME NEW last, NEW staff, Answered(c, [c EXCEPT !.status = "done", !.at = last, !.staff = staff])
      PROVE  \E e : /\ requests' = (requests \ {c}) \cup {e} /\ e.status # "sent"
                    /\ e.as = c.as /\ e.what = c.what /\ e.tab = c.tab /\ e.left = c.left
  <2> PICK e : e = [c EXCEPT !.status = "done", !.at = last, !.staff = staff]
    OBVIOUS
  <2>1. e.status = "done" /\ e.as = c.as /\ e.what = c.what /\ e.tab = c.tab /\ e.left = c.left
    BY <1>1 DEF CallKind
  <2>2. requests' = (requests \ {c}) \cup {e}
    BY <1>4 DEF Answered
  <2> QED BY <2>1, <2>2
<1>5. CASE RefusesIdle(c) \/ Refuses(c)
  <2>1. Answered(c, [c EXCEPT !.status = "idle"]) \/ Answered(c, [c EXCEPT !.status = "refused"])
    BY <1>5 DEF RefusesIdle, Refuses
  <2> QED BY <1>3, <2>1
<1>6. CASE Serves(c)
  <2> PICK last : last = IF c.what = "poll" THEN session[c.as].last ELSE hour
    OBVIOUS
  <2> PICK staff : staff = session[c.as].staff
    OBVIOUS
  <2>1. \/ requests' = requests \ {c} /\ c.what \in {"page", "poll"}
        \/ Answered(c, [c EXCEPT !.status = "done", !.at = last, !.staff = staff])
    BY <1>6 DEF Serves
  <2> QED BY <1>2, <1>4, <2>1
<1> QED BY <1>5, <1>6

LEMMA FreshStep ==
    ASSUME CInv, Fresh, [ClockNext]_clockVars
    PROVE  Fresh'
<1> SUFFICES ASSUME NEW c \in requests', c.what = "login", c.status = "done"
             PROVE  /\ c.as # 0 /\ c.as # jar' /\ \A u \in Tabs : held'[u] # c.as
                    /\ \A d \in requests' : d # c => d.as # c.as
  BY DEF Fresh
<1>1. CASE UNCHANGED <<requests, jar, held>>
  BY <1>1 DEF Fresh
<1>2. ASSUME NEW t \in Tabs, NEW what, NEW as, NEW staff, as \in {0, jar} \/ as = held[t],
             Leaves(t, what, as, staff), UNCHANGED held \/ held' = [held EXCEPT ![t] = jar]
      PROVE  /\ c.as # 0 /\ c.as # jar' /\ \A u \in Tabs : held'[u] # c.as
             /\ \A d \in requests' : d # c => d.as # c.as
  <2> PICK d : d = [tab |-> t, what |-> what, as |-> as, staff |-> staff, at |-> 0,
                    left |-> hour, status |-> "sent"]
    OBVIOUS
  <2>1. requests' = requests \cup {d} /\ jar' = jar /\ d.as = as /\ d.status = "sent"
    BY <1>2 DEF Leaves, server
  <2>2. c \in requests /\ \A u \in Tabs : held'[u] \in {held[u], jar}
    BY <1>2, <2>1, ClockParts
  <2>3. /\ c.as # 0 /\ c.as # jar /\ \A u \in Tabs : held[u] # c.as
        /\ \A e \in requests : e # c => e.as # c.as
    BY <2>2 DEF Fresh
  <2> QED BY <1>2, <2>1, <2>2, <2>3
<1>3. ASSUME NEW t \in Tabs, Act(t) \/ Stay(t) \/ LogOut(t) \/ Poll(t)
      PROVE  /\ c.as # 0 /\ c.as # jar' /\ \A u \in Tabs : held'[u] # c.as
             /\ \A d \in requests' : d # c => d.as # c.as
  <2>1. UNCHANGED held /\ \E what, as : Leaves(t, what, as, FALSE) /\ as \in {held[t], jar}
    BY <1>3 DEF Act, Stay, LogOut, Poll
  <2> QED BY <1>2, <2>1
<1>4. ASSUME NEW t \in Tabs, NEW staff \in BOOLEAN, LogIn(t, staff)
      PROVE  /\ c.as # 0 /\ c.as # jar' /\ \A u \in Tabs : held'[u] # c.as
             /\ \A d \in requests' : d # c => d.as # c.as
  <2>1. UNCHANGED held /\ Leaves(t, "login", 0, staff)
    BY <1>4 DEF LogIn, tabs
  <2> QED BY <1>2, <2>1
<1>5. ASSUME NEW t \in Tabs, Hear(t)
      PROVE  /\ c.as # 0 /\ c.as # jar' /\ \A u \in Tabs : held'[u] # c.as
             /\ \A d \in requests' : d # c => d.as # c.as
  <2>1. \/ UNCHANGED <<requests, jar, held>>
        \/ UNCHANGED <<requests, jar>> /\ held' = [held EXCEPT ![t] = 0]
        \/ held' = [held EXCEPT ![t] = jar] /\ Leaves(t, "account", jar, FALSE)
    BY <1>5 DEF Hear, HearsActivity, HearsLogout, HearsLogin, clearSessionLocally, server
  <2>2. CASE UNCHANGED <<requests, jar>> /\ held' = [held EXCEPT ![t] = 0]
    BY <2>2, ClockParts DEF Fresh
  <2> QED BY <1>1, <1>2, <2>1, <2>2
<1>6. ASSUME NEW t \in Tabs, Tick(t)
      PROVE  /\ c.as # 0 /\ c.as # jar' /\ \A u \in Tabs : held'[u] # c.as
             /\ \A d \in requests' : d # c => d.as # c.as
  <2>1. UNCHANGED <<requests, jar>> /\ (UNCHANGED held \/ held' = [held EXCEPT ![t] = 0])
    BY <1>6 DEF Tick, clearSession, clearSessionLocally, server, tabs
  <2> QED BY <2>1, ClockParts DEF Fresh
<1>7. ASSUME NEW d \in requests, OpensSession(d)
      PROVE  /\ c.as # 0 /\ c.as # jar' /\ \A u \in Tabs : held'[u] # c.as
             /\ \A e \in requests' : e # c => e.as # c.as
  <2> PICK answer : answer = [d EXCEPT !.status = "done", !.as = Len(session) + 1, !.at = hour]
    OBVIOUS
  <2>1. requests' = (requests \ {d}) \cup {answer} /\ UNCHANGED <<jar, held>>
    BY <1>7 DEF OpensSession, Answered, tabs
  <2>2. d \in CallKind /\ Len(session) \in Nat
    BY ClockParts, CallFields, NowNat
  <2>3. answer.as = Len(session) + 1
    BY <2>2 DEF CallKind
  <2>4. /\ jar \in Opened /\ (\A u \in Tabs : held[u] \in Opened) /\ \A e \in requests : e.as \in Opened
    BY ClockParts, CallFields
  <2>5. \A k \in Opened : k # Len(session) + 1
    BY <2>2 DEF Opened
  <2>6. CASE c = answer
    <3>1. \A e \in requests' : e # c => e.as \in Opened
      BY <2>1, <2>4, <2>6
    <3> QED BY <2>1, <2>2, <2>3, <2>4, <2>5, <2>6, <3>1
  <2>7. CASE c \in requests
    BY <2>1, <2>3, <2>4, <2>5, <2>7 DEF Fresh
  <2> QED BY <2>1, <2>6, <2>7
<1>8. ASSUME NEW d \in requests, Serves(d) \/ RefusesIdle(d) \/ Refuses(d)
      PROVE  /\ c.as # 0 /\ c.as # jar' /\ \A u \in Tabs : held'[u] # c.as
             /\ \A e \in requests' : e # c => e.as # c.as
  <2>2. UNCHANGED <<jar, held>> /\ d.status = "sent" /\ d.what # "login"
    BY <1>8 DEF Serves, RefusesIdle, Refuses, server, tabs
  <2>5. \/ requests' = requests \ {d}
        \/ \E e : requests' = (requests \ {d}) \cup {e} /\ e.as = d.as /\ e.what = d.what
    BY <1>8, AnswersKeep
  <2>6. c \in requests /\ \A e \in requests' : e \in requests \/ e.as = d.as
    BY <2>2, <2>5
  <2>7. /\ c.as # 0 /\ c.as # jar /\ \A u \in Tabs : held[u] # c.as
        /\ \A e \in requests : e # c => e.as # c.as
    BY <2>6 DEF Fresh
  <2>8. d.as # c.as
    BY <2>2, <2>7
  <2> QED BY <2>2, <2>6, <2>7, <2>8
<1>9. ASSUME NEW d \in requests, LoginLands(d)
      PROVE  /\ c.as # 0 /\ c.as # jar' /\ \A u \in Tabs : held'[u] # c.as
             /\ \A e \in requests' : e # c => e.as # c.as
  <2>1. requests' = requests \ {d} /\ jar' = d.as /\ held' = [held EXCEPT ![d.tab] = d.as]
    BY <1>9 DEF LoginLands, Over
  <2>2. \A u \in Tabs : held'[u] \in {held[u], d.as}
    BY <2>1, ClockParts
  <2> QED BY <2>1, <2>2 DEF Fresh
<1>10. ASSUME NEW d \in requests, ClockLands(d) \/ IdleLands(d) \/ RefusalLands(d) \/ LogoutLands(d) \/ GivesUp(d)
      PROVE  /\ c.as # 0 /\ c.as # jar' /\ \A u \in Tabs : held'[u] # c.as
             /\ \A e \in requests' : e # c => e.as # c.as
  <2>1. /\ requests' = requests \ {d} /\ jar' \in {jar, 0}
        /\ UNCHANGED held \/ held' = [held EXCEPT ![d.tab] = 0]
    BY <1>10 DEF ClockLands, IdleLands, RefusalLands, LogoutLands, GivesUp, Over, clearSession,
                 clearSessionLocally, tabs
  <2>2. \A u \in Tabs : held'[u] \in {held[u], 0}
    BY <2>1, ClockParts
  <2> QED BY <2>1, <2>2 DEF Fresh
<1>11. CASE Pass \/ UNCHANGED clockVars
  <2>1. UNCHANGED <<requests, jar, held>>
    BY <1>11 DEF Pass, clockVars, server, tabs
  <2> QED BY <1>1, <2>1
<1> QED BY <1>3, <1>4, <1>5, <1>6, <1>7, <1>8, <1>9, <1>10, <1>11 DEF ClockNext

-----------------------------------------------------------------------------
(* News of an act as late as a moment, on its way. *)

Pending(q, a) == \E i \in 1 .. Len(q) : q[i].type = "activity" /\ a <= q[i].at

LEMMA PendingLasts ==
    ASSUME NEW S, NEW q \in Seq(S), NEW r \in Seq(S), NEW a, Pending(q, a)
    PROVE  Pending(q \o r, a)
<1>1. PICK i \in 1 .. Len(q) : q[i].type = "activity" /\ a <= q[i].at
  BY DEF Pending
<1>2. i \in 1 .. Len(q \o r) /\ (q \o r)[i] = q[i]
  BY ConcatProperties, LenProperties
<1> QED BY <1>1, <1>2 DEF Pending

LEMMA PendingTold ==
    ASSUME NEW S, NEW q \in Seq(S), NEW e \in S, NEW a, e.type = "activity", a <= e.at
    PROVE  Pending(q \o <<e>>, a)
<1>1. Len(q) + 1 \in 1 .. Len(q \o <<e>>) /\ (q \o <<e>>)[Len(q) + 1] = e
  BY ConcatProperties, LenProperties
<1> QED BY <1>1 DEF Pending

LEMMA PendingHeard ==
    ASSUME NEW S, NEW q \in Seq(S), q # <<>>, NEW a, Pending(q, a)
    PROVE  (Head(q).type = "activity" /\ a <= Head(q).at) \/ Pending(Tail(q), a)
<1>1. PICK i \in 1 .. Len(q) : q[i].type = "activity" /\ a <= q[i].at
  BY DEF Pending
<1>2. CASE i = 1
  BY <1>1, <1>2, HeadTailProperties
<1>3. CASE i # 1
  <2>1. i - 1 \in 1 .. Len(Tail(q)) /\ Tail(q)[i - 1] = q[i]
    BY <1>3, HeadTailProperties, LenProperties
  <2> QED BY <1>1, <2>1 DEF Pending
<1> QED BY <1>2, <1>3

\* A tab's clock is not older than its session's last act, or hears of it yet.
Covered(t) == idle[t] # NoClock /\ held[t] # 0 /\ t \notin putBack
              => acted[held[t]] <= idle[t] \/ Pending(news[t], acted[held[t]])

SpInv == "unclocked" \notin between => \A t \in Tabs : Covered(t)

LEMMA CoveredKept ==
    ASSUME CInv, NEW t \in Tabs, Covered(t), held'[t] = held[t], idle'[t] = idle[t],
           t \in putBack => t \in putBack',
           held[t] # 0 => acted'[held[t]] = acted[held[t]],
           news'[t] = news[t] \/ \E r \in Seq(Letters) : news'[t] = news[t] \o r
    PROVE  Covered(t)'
<1> SUFFICES ASSUME idle[t] # NoClock, held[t] # 0, t \notin putBack, ~(acted[held[t]] <= idle[t])
             PROVE  \E i \in 1 .. Len(news'[t]) : news'[t][i].type = "activity" /\ acted[held[t]] <= news'[t][i].at
  BY DEF Covered, Pending
<1> PICK a : a = acted[held[t]]
  OBVIOUS
<1> PICK q : q = news'[t]
  OBVIOUS
<1>1. news[t] \in Seq(Letters)
  BY ClockParts
<1>2. Pending(news[t], a)
  BY DEF Covered
<1>3. Pending(q, a)
  BY <1>1, <1>2, PendingLasts
<1> QED BY <1>3 DEF Pending

\* A clock set to this very moment, or later than any act of its session.
LEMMA CoveredAnew ==
    ASSUME NEW t \in Tabs, \/ idle'[t] = NoClock \/ t \in putBack'
                           \/ held'[t] # 0 => acted'[held'[t]] <= idle'[t]
    PROVE  Covered(t)'
  BY DEF Covered

LEMMA CoveredByNews ==
    ASSUME CInv, NEW t \in Tabs, NEW q \in Seq(Letters), news'[t] = q \o Active,
           held'[t] # 0 => acted'[held'[t]] <= Now
    PROVE  Covered(t)'
<1> SUFFICES ASSUME held'[t] # 0
             PROVE  \E i \in 1 .. Len(news'[t]) : news'[t][i].type = "activity" /\ acted'[held'[t]] <= news'[t][i].at
  BY DEF Covered, Pending
<1> PICK a : a = acted'[held'[t]]
  OBVIOUS
<1> PICK e : e = [type |-> "activity", at |-> Now]
  OBVIOUS
<1>1. e \in Letters /\ e.type = "activity" /\ e.at = Now
  BY ClockParts DEF Letters
<1>2. Pending(q \o <<e>>, a)
  BY <1>1, PendingTold
<1>3. news'[t] = q \o <<e>>
  BY DEF Active
<1> QED BY <1>2, <1>3 DEF Pending

-----------------------------------------------------------------------------
(* SparesTheActive, step by step *)

LEMMA CoveredClears ==
    ASSUME CInv, NEW t \in Tabs, \A u \in Tabs : Covered(u), clearSession(t), UNCHANGED acted
    PROVE  \A u \in Tabs : Covered(u)'
<1> TAKE u \in Tabs
<1>1. /\ held' = [held EXCEPT ![t] = 0] /\ idle' = [idle EXCEPT ![t] = NoClock] /\ putBack' = putBack \ {t}
      /\ news' = Told(t, Logout, news)
  BY DEF clearSession, clearSessionLocally
<1>2. CASE u = t
  <2>1. idle'[u] = NoClock
    BY <1>1, <1>2, ClockParts
  <2> QED BY <2>1, CoveredAnew
<1>3. CASE u # t
  <2>1. held'[u] = held[u] /\ idle'[u] = idle[u] /\ (u \in putBack => u \in putBack')
    BY <1>1, <1>3, ClockParts
  <2>2. news'[u] = news[u] \o Logout /\ Logout \in Seq(Letters)
    BY <1>1, <1>3, ClockParts, LettersWritten DEF Told
  <2> QED BY <2>1, <2>2, CoveredKept
<1> QED BY <1>2, <1>3

\* acted[held] is of the past.
LEMMA ActedBefore ==
    ASSUME CInv
    PROVE  /\ hour <= Now /\ hour \in Nat /\ Now \in Nat
           /\ \A s \in Opened : s # 0 => s \in 1 .. MaxSessions /\ acted[s] \in Nat /\ acted[s] <= Now
<1>1. hour \in Nat /\ Now \in Nat /\ hour <= Now
  BY ClockParts, NowNat
<1> SUFFICES ASSUME NEW s \in Opened, s # 0
             PROVE  s \in 1 .. MaxSessions /\ acted[s] \in Nat /\ acted[s] <= Now
  BY <1>1
<1>2. s \in 1 .. MaxSessions
  BY ClockParts, ClockBounds DEF Numbers
<1>3. acted[s] \in Moments
  BY <1>2, ClockParts
<1> QED BY <1>1, <1>2, <1>3 DEF Moments

LEMMA CoveredActs ==
    ASSUME CInv, NEW t \in Tabs, UNCHANGED held, \A u \in Tabs : Covered(u), Acts(t), "unclocked" \notin between'
    PROVE  \A u \in Tabs : Covered(u)'
<1>1. /\ noteActivity(t, news) /\ news \in [Tabs -> Seq(Letters)]
      /\ acted' = IF held[t] = 0 THEN acted ELSE [acted EXCEPT ![held[t]] = hour]
      /\ held[t] = 0 \/ idle[t] # NoClock
  BY ClockParts DEF Acts
<1>2. CASE held[t] = 0
  <2>1. UNCHANGED <<acted, news, idle, putBack, held>>
    BY <1>1, <1>2 DEF noteActivity
  <2> QED BY <2>1, CoveredKept
<1>3. CASE held[t] # 0
  <2>1. idle' = [idle EXCEPT ![t] = Now] /\ news' = Told(t, Active, news) /\ putBack' = putBack \ {t}
    BY <1>1, <1>3 DEF noteActivity, MarksAndTells
  <2>2. ASSUME NEW s \in Opened, s # 0
        PROVE  acted'[s] <= Now /\ (s # held[t] => acted'[s] = acted[s])
    BY <1>1, <1>3, <2>2, ActedBefore, ClockParts
  <2> TAKE u \in Tabs
  <2>3. CASE u = t
    <3>1. idle'[u] = Now /\ held'[u] \in Opened
      BY <2>1, <2>3, ClockParts
    <3>2. held'[u] # 0 => acted'[held'[u]] <= idle'[u]
      BY <2>2, <3>1
    <3> QED BY <3>2, CoveredAnew
  <2>4. CASE u # t
    <3>a. news'[u] = news[u] \o Active
      BY <2>1, <2>4 DEF Told
    <3>1. held'[u] = held[u] /\ held[u] \in Opened /\ news'[u] = news[u] \o Active /\ news[u] \in Seq(Letters)
      BY <1>1, <3>a, ClockParts
    <3>2. held'[u] # 0 => acted'[held'[u]] <= Now
      BY <2>2, <3>1
    <3> QED BY <3>1, <3>2, CoveredByNews
  <2> QED BY <2>3, <2>4
<1> QED BY <1>2, <1>3

LEMMA CoveredLands ==
    ASSUME CInv, NEW c \in requests, c.status = "done", \A u \in Tabs : Covered(u),
           NEW before \in {<<>>, Login}, applyActivity(c.tab, c, before),
           \A u \in Tabs : u # c.tab => held'[u] = held[u],
           \A u \in Tabs : held[u] # 0 => acted'[held[u]] = acted[held[u]]
    PROVE  \A u \in Tabs : Covered(u)'
<1> PICK t : t = c.tab
  OBVIOUS
<1> PICK messages : messages = before \o (IF c.staff THEN Active ELSE <<>>)
  OBVIOUS
<1>1. t \in Tabs /\ c.staff \in BOOLEAN /\ messages \in Seq(Letters)
  BY ClockParts, CallFields, LettersWritten
<1>2. /\ idle' = [idle EXCEPT ![t] = IF c.staff THEN c.at ELSE NoClock] /\ news' = Told(t, messages, news)
      /\ putBack' = IF c.as = held'[t] /\ acted'[c.as] <= c.at THEN putBack \ {t} ELSE putBack \cup {t}
  BY DEF applyActivity
<1> TAKE u \in Tabs
<1>3. CASE u = t
  <2>1. idle'[u] = IF c.staff THEN c.at ELSE NoClock
    BY <1>2, <1>3, ClockParts
  <2>2. \/ idle'[u] = NoClock \/ u \in putBack' \/ acted'[held'[u]] <= idle'[u]
    BY <1>2, <1>3, <2>1
  <2> QED BY <2>2, CoveredAnew
<1>4. CASE u # t
  <2>1. held'[u] = held[u] /\ idle'[u] = idle[u] /\ (u \in putBack => u \in putBack')
    BY <1>2, <1>4, ClockParts
  <2>2. news'[u] = news[u] \o messages
    BY <1>2, <1>4 DEF Told
  <2>3. held[u] # 0 => acted'[held[u]] = acted[held[u]]
    OBVIOUS
  <2> QED BY <1>1, <2>1, <2>2, <2>3, CoveredKept
<1> QED BY <1>3, <1>4

LEMMA CoveredHears ==
    ASSUME CInv, NEW t \in Tabs, \A u \in Tabs : Covered(u), Hear(t)
    PROVE  \A u \in Tabs : Covered(u)'
<1> PICK message : message = Head(news[t])
  OBVIOUS
<1> PICK mail : mail = [news EXCEPT ![t] = Tail(@)]
  OBVIOUS
<1> PICK q : q = news[t]
  OBVIOUS
<1>1. /\ q # <<>> /\ q \in Seq(Letters) /\ Tail(q) \in Seq(Letters) /\ message \in Letters /\ message = Head(q)
  BY ClockParts, HeadTailProperties DEF Hear
<1>2. mail \in [Tabs -> Seq(Letters)] /\ mail[t] = Tail(q) /\ \A u \in Tabs : u # t => mail[u] = news[u]
  BY <1>1, ClockParts
<1>3. HearsActivity(t, message) \/ HearsLogout(t, message) \/ HearsLogin(t, message)
  BY DEF Hear
<1> TAKE u \in Tabs
\* News that is not of an act can be heard with nothing lost.
<1>4. ASSUME news' = mail, message.type # "activity", held'[u] = held[u], idle'[u] = idle[u],
             u \in putBack => u \in putBack', UNCHANGED acted
      PROVE  Covered(u)'
  <2>1. CASE u # t
    <3>1. news'[u] = news[u]
      BY <1>2, <1>4, <2>1
    <3> QED BY <1>4, <3>1, CoveredKept
  <2>2. CASE u = t
    <3> SUFFICES ASSUME idle[u] # NoClock, held[u] # 0, u \notin putBack, ~(acted[held[u]] <= idle[u])
                 PROVE  \E i \in 1 .. Len(news'[u]) :
                            news'[u][i].type = "activity" /\ acted[held[u]] <= news'[u][i].at
      BY <1>4 DEF Covered, Pending
    <3> PICK a : a = acted[held[u]]
      OBVIOUS
    <3>1. Pending(q, a)
      BY <2>2 DEF Covered
    <3>2. Pending(Tail(q), a)
      BY <1>1, <1>4, <3>1, PendingHeard
    <3>3. news'[u] = Tail(q)
      BY <1>2, <1>4, <2>2
    <3> QED BY <3>2, <3>3 DEF Pending
  <2> QED BY <2>1, <2>2
<1>5. CASE HearsActivity(t, message)
  <2>1. /\ message.type = "activity" /\ news' = mail /\ UNCHANGED <<held, acted>>
        /\ idle' = IF idle[t] = NoClock THEN idle ELSE [idle EXCEPT ![t] = message.at]
        /\ putBack' = IF message.at < idle[t] THEN putBack \cup {t} ELSE putBack
    BY <1>5 DEF HearsActivity
  <2>2. message.at \in Nat
    BY <1>1, <2>1, ActedBefore DEF Letters, Readings
  <2>3. CASE u # t
    <3>1. news'[u] = news[u] /\ idle'[u] = idle[u] /\ (u \in putBack => u \in putBack')
      BY <1>2, <2>1, <2>3, ClockParts
    <3> QED BY <2>1, <3>1, CoveredKept
  <2>4. CASE u = t /\ idle[u] = NoClock
    <3>1. idle'[u] = NoClock
      BY <2>1, <2>4
    <3> QED BY <3>1, CoveredAnew
  <2>5. CASE u = t /\ idle[u] # NoClock
    <3>1. idle'[u] = message.at /\ idle[u] \in Nat
      BY <2>1, <2>5, ClockParts, ActedBefore DEF Readings
    <3> SUFFICES ASSUME held[u] # 0, u \notin putBack', ~(acted[held[u]] <= message.at)
                 PROVE  \E i \in 1 .. Len(news'[u]) :
                            news'[u][i].type = "activity" /\ acted[held[u]] <= news'[u][i].at
      BY <2>1, <3>1 DEF Covered, Pending
    <3>2. u \notin putBack /\ idle[u] <= message.at
      BY <2>1, <2>2, <2>5, <3>1
    <3> PICK a : a = acted[held[u]]
      OBVIOUS
    <3>3. a \in Nat
      BY ClockParts, ActedBefore
    <3>4. Pending(q, a)
      BY <2>2, <2>5, <3>1, <3>2, <3>3 DEF Covered
    <3>5. Pending(Tail(q), a)
      BY <1>1, <3>4, PendingHeard
    <3>6. news'[u] = Tail(q)
      BY <1>2, <2>1, <2>5
    <3> QED BY <3>5, <3>6 DEF Pending
  <2> QED BY <2>3, <2>4, <2>5
<1>6. CASE HearsLogout(t, message)
  <2>1. /\ message.type = "logout" /\ news' = mail /\ UNCHANGED acted
        /\ held' = [held EXCEPT ![t] = 0] /\ idle' = [idle EXCEPT ![t] = NoClock] /\ putBack' = putBack \ {t}
    BY <1>6 DEF HearsLogout, clearSessionLocally
  <2>2. CASE u = t
    <3>1. idle'[u] = NoClock
      BY <2>1, <2>2, ClockParts
    <3> QED BY <3>1, CoveredAnew
  <2>3. CASE u # t
    <3>1. held'[u] = held[u] /\ idle'[u] = idle[u] /\ (u \in putBack => u \in putBack')
      BY <2>1, <2>3, ClockParts
    <3> QED BY <1>4, <2>1, <3>1
  <2> QED BY <2>2, <2>3
<1>7. CASE HearsLogin(t, message)
  <2>1. message.type = "login" /\ UNCHANGED acted
    BY <1>7 DEF HearsLogin, Leaves, clockHistory
  <2>2. CASE news' = mail /\ UNCHANGED <<held, idle, putBack>>
    BY <1>4, <2>1, <2>2
  <2>3. CASE jar # 0 /\ held' = [held EXCEPT ![t] = jar] /\ noteActivity(t, mail)
    <3>1. held'[t] = jar /\ jar \in Opened
      BY <2>3, ClockParts
    <3>2. CASE idle[t] = NoClock
      <4>1. news' = mail /\ UNCHANGED <<idle, putBack>>
        BY <2>3, <3>2 DEF noteActivity
      <4>2. CASE u = t
        BY <3>2, <4>1, <4>2, CoveredAnew
      <4>3. CASE u # t
        <5>1. held'[u] = held[u]
          BY <2>3, <4>3, ClockParts
        <5> QED BY <1>4, <2>1, <4>1, <5>1
      <4> QED BY <4>2, <4>3
    <3>3. CASE idle[t] # NoClock
      <4>1. idle' = [idle EXCEPT ![t] = Now] /\ news' = Told(t, Active, mail) /\ putBack' = putBack \ {t}
        BY <2>3, <3>1, <3>3 DEF noteActivity, MarksAndTells
      <4>2. CASE u = t
        <5>1. idle'[u] = Now
          BY <4>1, <4>2, ClockParts
        <5>2. acted'[held'[u]] <= idle'[u]
          BY <2>1, <2>3, <3>1, <4>2, <5>1, ActedBefore
        <5> QED BY <5>2, CoveredAnew
      <4>3. CASE u # t
        <5>1. news'[u] = mail[u] \o Active
          BY <4>1, <4>3 DEF Told
        <5>2. /\ held'[u] = held[u] /\ idle'[u] = idle[u] /\ (u \in putBack => u \in putBack')
              /\ news'[u] = news[u] \o Active /\ Active \in Seq(Letters)
          BY <1>2, <2>3, <4>1, <4>3, <5>1, ClockParts, LettersWritten
        <5> QED BY <2>1, <5>2, CoveredKept
      <4> QED BY <4>2, <4>3
    <3> QED BY <3>2, <3>3
  <2> QED BY <1>7, <2>2, <2>3 DEF HearsLogin, clockHistory
<1> QED BY <1>3, <1>5, <1>6, <1>7

LEMMA CoveredStays ==
    ASSUME CInv, \A u \in Tabs : Covered(u), UNCHANGED <<held, idle, news, acted, putBack>>
    PROVE  \A u \in Tabs : Covered(u)'
  BY CoveredKept

LEMMA SparesStep ==
    ASSUME CInv, Fresh, SpInv, [ClockNext]_clockVars
    PROVE  SpInv'
<1> SUFFICES ASSUME "unclocked" \notin between' PROVE \A u \in Tabs : Covered(u)'
  BY DEF SpInv
<1>1. between \subseteq between'
  <2>1. CASE Pass
    BY <2>1 DEF Pass
  <2>2. ASSUME NEW t \in Tabs, Tick(t) PROVE between' = between
    BY <2>2 DEF Tick
  <2> QED BY <2>1, <2>2, StepsAreQuiet DEF Unmoved
<1>2. \A u \in Tabs : Covered(u)
  BY <1>1 DEF SpInv
<1>3. CASE Pass \/ UNCHANGED clockVars
  <2>1. UNCHANGED <<held, idle, news, acted, putBack>>
    BY <1>3 DEF Pass, clockVars, tabs, clockHistory
  <2> QED BY <1>2, <2>1, CoveredStays
<1>4. ASSUME NEW t \in Tabs, Tick(t)
      PROVE  \A u \in Tabs : Covered(u)'
  <2>1. UNCHANGED acted /\ (clearSession(t) \/ UNCHANGED <<held, idle, news, putBack>>)
    BY <1>4 DEF Tick, tabs
  <2> QED BY <1>2, <2>1, CoveredStays, CoveredClears
<1>5. ASSUME NEW t \in Tabs, Act(t) \/ Stay(t) \/ LogOut(t)
      PROVE  \A u \in Tabs : Covered(u)'
  <2>1. Acts(t) /\ UNCHANGED held
    BY <1>5 DEF Act, Stay, LogOut
  <2> QED BY <1>2, <2>1, CoveredActs
<1>6. ASSUME NEW t \in Tabs, Poll(t) \/ \E staff \in BOOLEAN : LogIn(t, staff)
      PROVE  \A u \in Tabs : Covered(u)'
  <2>1. UNCHANGED <<held, idle, news, acted, putBack>>
    BY <1>6 DEF Poll, PollsPassively, LogIn, tabs, clockHistory
  <2> QED BY <1>2, <2>1, CoveredStays
<1>7. ASSUME NEW t \in Tabs, Hear(t)
      PROVE  \A u \in Tabs : Covered(u)'
  BY <1>2, <1>7, CoveredHears
<1>8. ASSUME NEW c \in requests, OpensSession(c) \/ Serves(c) \/ RefusesIdle(c) \/ Refuses(c) \/ GivesUp(c)
      PROVE  \A u \in Tabs : Covered(u)'
  <2>1. UNCHANGED <<held, idle, news, acted, putBack>>
    BY <1>8 DEF OpensSession, Serves, RefusesIdle, Refuses, GivesUp, tabs, clockHistory
  <2> QED BY <1>2, <2>1, CoveredStays
<1>9. ASSUME NEW c \in requests, LoginLands(c)
      PROVE  \A u \in Tabs : Covered(u)'
  <2>1. /\ c.status = "done" /\ c.what = "login" /\ applyActivity(c.tab, c, Login)
        /\ held' = [held EXCEPT ![c.tab] = c.as] /\ acted' = [acted EXCEPT ![c.as] = c.at]
    BY <1>9 DEF LoginLands
  <2>2. \A u \in Tabs : u # c.tab => held'[u] = held[u]
    BY <2>1, ClockParts
  <2>3. \A u \in Tabs : held[u] # 0 => acted'[held[u]] = acted[held[u]]
    <3> TAKE u \in Tabs
    <3>1. held[u] # c.as /\ held[u] \in Opened
      BY <2>1, ClockParts DEF Fresh
    <3> QED BY <2>1, <3>1, ActedBefore, ClockParts
  <2> QED BY <1>2, <2>1, <2>2, <2>3, CoveredLands
<1>10. ASSUME NEW c \in requests, ClockLands(c)
       PROVE  \A u \in Tabs : Covered(u)'
  <2>1. c.status = "done" /\ applyActivity(c.tab, c, <<>>) /\ UNCHANGED <<held, acted>>
    BY <1>10 DEF ClockLands
  <2> QED BY <1>2, <2>1, CoveredLands
<1>11. ASSUME NEW c \in requests, IdleLands(c) \/ RefusalLands(c) \/ LogoutLands(c)
       PROVE  \A u \in Tabs : Covered(u)'
  <2>1. c.tab \in Tabs /\ UNCHANGED acted /\ (clearSession(c.tab) \/ UNCHANGED <<held, idle, news, putBack>>)
    BY <1>11, ClockParts, CallFields DEF IdleLands, RefusalLands, LogoutLands, tabs
  <2> QED BY <1>2, <2>1, CoveredStays, CoveredClears
<1> QED BY <1>3, <1>4, <1>5, <1>6, <1>7, <1>8, <1>9, <1>10, <1>11 DEF ClockNext

LEMMA SparesInit == ASSUME ClockInit PROVE Fresh /\ SpInv
<1>1. Skew \in Nat /\ 1 \in 1 .. MaxSessions
  BY ClockBounds
<1>2. \A t \in Tabs : idle[t] # NoClock => acted[held[t]] <= idle[t]
  BY <1>1 DEF ClockInit
<1> QED BY <1>2 DEF ClockInit, Fresh, SpInv, Covered

(* IdleClock.SparesTheActive, for any tabs, sessions and requests, however the two clocks are set   *)
(* and however long a request takes: no tab's clock ends a session somebody acted in within the     *)
(* timeout, with nothing on its way to the tab.                                                     *)
THEOREM SparesTheActiveAlways == ClockSpec => SparesTheActive
<1>1. ClockSpec => [](CInv /\ Fresh /\ SpInv)
  <2>1. ClockInit => CInv /\ Fresh /\ SpInv
    BY InitKinds, SparesInit
  <2>2. CInv /\ Fresh /\ SpInv /\ [ClockNext]_clockVars => (CInv /\ Fresh /\ SpInv)'
    BY NextKinds, FreshStep, SparesStep
  <2> QED BY <2>1, <2>2, PTL DEF ClockSpec
<1>2. CInv /\ Fresh /\ SpInv =>
        \A t \in Tabs : /\ Tick(t) /\ RunsOut(t) /\ held[t] # 0
                        /\ t \notin putBack /\ ~Awaits(t, "activity") /\ "unclocked" \notin between
                        => acted[held[t]] + Timeout <= Now
  <2> SUFFICES ASSUME CInv, SpInv, NEW t \in Tabs, RunsOut(t), held[t] # 0,
                      t \notin putBack, ~Awaits(t, "activity"), "unclocked" \notin between
               PROVE  acted[held[t]] + Timeout <= Now
    OBVIOUS
  <2>1. Covered(t) /\ idle[t] # NoClock /\ idle[t] + Timeout <= Now
    BY DEF SpInv, RunsOut
  <2>2. ~Pending(news[t], acted[held[t]])
    <3>1. news[t] \in Seq(Letters)
      BY ClockParts
    <3>2. DOMAIN news[t] = 1 .. Len(news[t])
      BY <3>1, LenProperties
    <3> QED BY <3>2 DEF Awaits, Pending
  <2>3. acted[held[t]] <= idle[t]
    BY <2>1, <2>2 DEF Covered
  <2>4. idle[t] \in Nat /\ acted[held[t]] \in Nat /\ Timeout \in Nat /\ Now \in Nat
    BY <2>1, ClockParts, ActedBefore, ClockBounds DEF Readings
  <2> QED BY <2>1, <2>3, <2>4
<1> QED BY <1>1, <1>2, PTL DEF SparesTheActive

-----------------------------------------------------------------------------
(* EndsHereFirst: what the server was told, or will be. *)

\* The moments that the session the browser names was active as late as, once its requests arrive.
MayHear(from) == {a \in Int : \/ a <= session[jar].last + Skew
                          \/ \E c \in requests : /\ c.as = jar /\ c.status = "sent" /\ c.what # "poll"
                                                 /\ c.tab \in from /\ a <= c.left + Skew}

LogoutAfter(q, n) == \E j \in 1 .. Len(q) : n < j /\ q[j].type = "logout"

\* News of a moment the server does not come to know is undone by what follows it.
Settled(q, D) == \A i \in 1 .. Len(q) : q[i].type = "activity" => q[i].at \in D \/ LogoutAfter(q, i)

Fine(t) == /\ Settled(news[t], MayHear(Tabs \ {t}))
           /\ idle[t] # NoClock => \/ LogoutAfter(news[t], 0)
                                   \/ idle[t] \in MayHear(Tabs) /\ seen[t] + 1 - Timeout \in MayHear(Tabs)

Smooth == between \cap {"slept", "lost", "echoed", "replaced"} = {}
Live == jar # 0 /\ session[jar].open /\ session[jar].staff

EInv == Smooth /\ Live => \A t \in Tabs : Fine(t)
Awake == "slept" \notin between => \A t \in Tabs : Now <= seen[t] + 1

LEMMA SettledMore == ASSUME NEW q, NEW D, NEW E, D \subseteq E, Settled(q, D) PROVE Settled(q, E)
  BY DEF Settled

LEMMA SettledByLogout ==
    ASSUME NEW q \in Seq(Letters), NEW D
    PROVE  Settled(q \o Logout, D) /\ LogoutAfter(q \o Logout, 0)
<1> PICK e : e = [type |-> "logout", at |-> 0]
  OBVIOUS
<1> PICK r : r = q \o <<e>>
  OBVIOUS
<1>1. e \in Letters /\ e.type = "logout" /\ r = q \o Logout
  BY DEF Letters, Logout
<1>2. Len(r) = Len(q) + 1 /\ r[Len(q) + 1] = e /\ Len(q) \in Nat
  BY <1>1, ConcatProperties, LenProperties
<1>3. Settled(r, D)
  <2> SUFFICES ASSUME NEW i \in 1 .. Len(r), r[i].type = "activity" PROVE LogoutAfter(r, i)
    BY DEF Settled
  <2>1. i < Len(q) + 1
    BY <1>1, <1>2
  <2> QED BY <1>1, <1>2, <2>1 DEF LogoutAfter
<1>4. LogoutAfter(r, 0)
  BY <1>1, <1>2 DEF LogoutAfter
<1> QED BY <1>1, <1>3, <1>4

LEMMA LogoutStays ==
    ASSUME NEW q \in Seq(Letters), NEW r \in Seq(Letters), NEW n \in Nat, LogoutAfter(q, n)
    PROVE  LogoutAfter(q \o r, n)
<1>1. PICK j \in 1 .. Len(q) : n < j /\ q[j].type = "logout"
  BY DEF LogoutAfter
<1>2. j \in 1 .. Len(q \o r) /\ (q \o r)[j] = q[j]
  BY ConcatProperties, LenProperties
<1> QED BY <1>1, <1>2 DEF LogoutAfter

LEMMA SettledBoth ==
    ASSUME NEW q \in Seq(Letters), NEW r \in Seq(Letters), NEW D, Settled(q, D),
           \A i \in 1 .. Len(r) : r[i].type = "activity" => r[i].at \in D
    PROVE  Settled(q \o r, D)
<1> PICK s : s = q \o r
  OBVIOUS
<1>1. /\ Len(s) = Len(q) + Len(r) /\ Len(q) \in Nat /\ Len(r) \in Nat
      /\ \A i \in 1 .. Len(s) : s[i] = IF i <= Len(q) THEN q[i] ELSE r[i - Len(q)]
  BY ConcatProperties, LenProperties
<1> SUFFICES ASSUME NEW i \in 1 .. Len(s), s[i].type = "activity"
             PROVE  s[i].at \in D \/ LogoutAfter(s, i)
  BY DEF Settled
<1>2. CASE i <= Len(q)
  <2>1. i \in 1 .. Len(q) /\ s[i] = q[i] /\ i \in Nat
    BY <1>1, <1>2
  <2>2. q[i].at \in D \/ LogoutAfter(q, i)
    BY <2>1 DEF Settled
  <2> QED BY <2>1, <2>2, LogoutStays
<1>3. CASE ~(i <= Len(q))
  <2>1. i - Len(q) \in 1 .. Len(r) /\ s[i] = r[i - Len(q)]
    BY <1>1, <1>3
  <2> QED BY <2>1
<1> QED BY <1>2, <1>3

LEMMA TailsLogout ==
    ASSUME NEW q \in Seq(Letters), q # <<>>, NEW n \in Nat, LogoutAfter(q, n + 1)
    PROVE  LogoutAfter(Tail(q), n)
<1>1. PICK j \in 1 .. Len(q) : n + 1 < j /\ q[j].type = "logout"
  BY DEF LogoutAfter
<1>2. j - 1 \in 1 .. Len(Tail(q)) /\ Tail(q)[j - 1] = q[j] /\ n < j - 1
  BY <1>1, HeadTailProperties, LenProperties
<1> QED BY <1>1, <1>2 DEF LogoutAfter

LEMMA SettledTail ==
    ASSUME NEW q \in Seq(Letters), q # <<>>, NEW D, Settled(q, D)
    PROVE  /\ Settled(Tail(q), D)
           /\ Head(q).type = "activity" => Head(q).at \in D \/ LogoutAfter(Tail(q), 0)
           /\ Head(q).type # "logout" /\ LogoutAfter(q, 0) => LogoutAfter(Tail(q), 0)
<1> PICK r : r = Tail(q)
  OBVIOUS
<1>1. /\ Len(q) \in Nat /\ Len(q) # 0 /\ Len(r) = Len(q) - 1 /\ Head(q) = q[1]
      /\ \A i \in 1 .. Len(r) : r[i] = q[i + 1]
  BY HeadTailProperties, LenProperties
<1>2. Settled(r, D)
  <2> SUFFICES ASSUME NEW i \in 1 .. Len(r), r[i].type = "activity" PROVE r[i].at \in D \/ LogoutAfter(r, i)
    BY DEF Settled
  <2>1. i + 1 \in 1 .. Len(q) /\ i \in Nat /\ r[i] = q[i + 1]
    BY <1>1
  <2>2. q[i + 1].at \in D \/ LogoutAfter(q, i + 1)
    BY <2>1 DEF Settled
  <2> QED BY <2>1, <2>2, TailsLogout
<1>3. ASSUME Head(q).type = "activity" PROVE Head(q).at \in D \/ LogoutAfter(r, 0)
  <2>1. 1 \in 1 .. Len(q)
    BY <1>1
  <2>2. q[1].at \in D \/ LogoutAfter(q, 1)
    BY <1>1, <1>3, <2>1 DEF Settled
  <2>3. LogoutAfter(q, 0 + 1) => LogoutAfter(Tail(q), 0)
    BY TailsLogout
  <2> QED BY <1>1, <2>2, <2>3
<1>4. ASSUME Head(q).type # "logout", LogoutAfter(q, 0) PROVE LogoutAfter(r, 0)
  <2>1. PICK j \in 1 .. Len(q) : q[j].type = "logout"
    BY <1>4 DEF LogoutAfter
  <2>2. j - 1 \in 1 .. Len(r) /\ r[j - 1] = q[j]
    BY <1>1, <1>4, <2>1
  <2> QED BY <2>1, <2>2 DEF LogoutAfter
<1> QED BY <1>2, <1>3, <1>4

\* What a tab's mail and clock come to, when the moments they are of are due.
LEMMA FineThen ==
    ASSUME NEW t \in Tabs, NEW q, news'[t] = q, NEW D, NEW E, D \subseteq MayHear(Tabs \ {t})', E \subseteq MayHear(Tabs)',
           Settled(q, D),
           idle'[t] # NoClock => \/ LogoutAfter(q, 0)
                                 \/ idle'[t] \in E /\ seen'[t] + 1 - Timeout \in E
    PROVE  Fine(t)'
<1> PICK F : F = MayHear(Tabs \ {t})'
  OBVIOUS
<1>1. Settled(q, F)
  BY SettledMore
<1>2. Settled(news'[t], F)
  BY <1>1
<1>3. Settled(news[t], MayHear(Tabs \ {t}))'
  BY <1>2 DEF Settled, LogoutAfter
<1>4. LogoutAfter(q, 0) => LogoutAfter(news[t], 0)'
  BY DEF LogoutAfter
<1> QED BY <1>3, <1>4 DEF Fine

LEMMA FineKept ==
    ASSUME CInv, NEW t \in Tabs, Fine(t), MayHear(Tabs) \subseteq MayHear(Tabs)', MayHear(Tabs \ {t}) \subseteq MayHear(Tabs \ {t})',
           idle'[t] = idle[t] \/ idle'[t] = NoClock, seen'[t] = seen[t],
           \/ news'[t] = news[t]
           \/ \E r \in Seq(Letters) : /\ news'[t] = news[t] \o r
                                     /\ \A i \in 1 .. Len(r) : r[i].type = "activity" => r[i].at \in MayHear(Tabs \ {t})'
    PROVE  Fine(t)'
<1> PICK q : q = news[t]
  OBVIOUS
<1> PICK D : D = MayHear(Tabs \ {t})'
  OBVIOUS
<1>1. q \in Seq(Letters) /\ 0 \in Nat
  BY ClockParts
<1>2. Settled(q, MayHear(Tabs \ {t}))
  BY DEF Fine
<1>3. Settled(q, D)
  BY <1>2, SettledMore
<1>4. idle'[t] # NoClock => \/ LogoutAfter(q, 0)
                            \/ idle'[t] \in MayHear(Tabs) /\ seen'[t] + 1 - Timeout \in MayHear(Tabs)
  BY DEF Fine
<1>5. CASE news'[t] = q
  BY <1>3, <1>4, <1>5, FineThen
<1>6. ASSUME NEW r \in Seq(Letters), news'[t] = q \o r,
             \A i \in 1 .. Len(r) : r[i].type = "activity" => r[i].at \in MayHear(Tabs \ {t})'
      PROVE  Fine(t)'
  <2>1. Settled(q \o r, D)
    BY <1>1, <1>3, <1>6, SettledBoth
  <2>2. LogoutAfter(q, 0) => LogoutAfter(q \o r, 0)
    BY <1>1, LogoutStays
  <2> QED BY <1>4, <1>6, <2>1, <2>2, FineThen
<1> QED BY <1>5, <1>6

\* Nothing due is forgotten while the session is the same one, no less lately active, and its requests are out.
LEMMA DueKept ==
    ASSUME CInv, Live, UNCHANGED jar, NEW from, session'[jar].last \in Nat, session[jar].last <= session'[jar].last,
           \A c \in requests : c.as = jar /\ c.status = "sent" /\ c.what # "poll" /\ c.tab \in from
               => c \in requests' \/ c.left <= session'[jar].last
    PROVE  MayHear(from) \subseteq MayHear(from)'
<1>1. session[jar].last \in Nat /\ Skew \in Nat
  BY ClockParts, SessionFields, ActedBefore, ClockBounds DEF Live, Moments
<1> SUFFICES ASSUME NEW a \in MayHear(from) PROVE a \in MayHear(from)'
  OBVIOUS
<1>2. a \in Int
  BY DEF MayHear
<1>3. CASE a <= session[jar].last + Skew
  <2>1. a <= session'[jar].last + Skew
    BY <1>1, <1>2, <1>3
  <2> QED BY <1>2, <2>1 DEF MayHear
<1>4. ASSUME NEW c \in requests, c.as = jar, c.status = "sent", c.what # "poll", c.tab \in from, a <= c.left + Skew
      PROVE  a \in MayHear(from)'
  <2>1. c.left \in Nat
    BY ClockParts, CallFields
  <2>2. CASE c \in requests'
    BY <1>2, <1>4, <2>2 DEF MayHear
  <2>3. CASE c.left <= session'[jar].last
    <3>1. a <= session'[jar].last + Skew
      BY <1>1, <1>2, <1>4, <2>1, <2>3
    <3> QED BY <1>2, <3>1 DEF MayHear
  <2> QED BY <1>4, <2>2, <2>3
<1> QED BY <1>3, <1>4 DEF MayHear

\* The session is active at this very moment: everything so far is due.
LEMMA AllDue ==
    ASSUME CInv, CInv', UNCHANGED hour, NEW t \in Tabs, session'[jar'].last = hour
    PROVE  Fine(t)'
<1> PICK q : q = news'[t]
  OBVIOUS
<1> PICK D : D = MayHear(Tabs \ {t})'
  OBVIOUS
<1>1. /\ Now \in Nat /\ Now' = Now /\ hour \in Nat /\ Skew \in Nat /\ Now = hour + Skew /\ Timeout \in Nat \ {0}
  BY ActedBefore, ClockBounds DEF Now
<1>2. \A a \in Int : a <= Now => a \in D /\ a \in MayHear(Tabs)'
  BY <1>1 DEF MayHear
<1>3. q \in Seq(Letters') /\ idle'[t] \in Readings' \cup {NoClock} /\ seen'[t] \in Readings'
  BY DEF CInv, Kinds, TabKinds
<1>4. Readings' = 0 .. Now
  BY <1>1 DEF Readings
<1>5. Settled(q, D)
  <2> SUFFICES ASSUME NEW i \in 1 .. Len(q), q[i].type = "activity" PROVE q[i].at \in D
    BY DEF Settled
  <2>1. q[i] \in Letters'
    BY <1>3
  <2>2. q[i].at \in 0 .. Now
    BY <1>4, <2>1 DEF Letters
  <2>3. q[i].at \in Int /\ q[i].at <= Now
    BY <1>1, <2>2
  <2> QED BY <1>2, <2>3, Zenon
<1>6. seen'[t] + 1 - Timeout \in MayHear(Tabs)'
  BY <1>1, <1>2, <1>3, <1>4
<1>7. idle'[t] # NoClock => idle'[t] \in MayHear(Tabs)'
  BY <1>1, <1>2, <1>3, <1>4
<1> QED BY <1>5, <1>6, <1>7, FineThen

LEMMA ClearsFine ==
    ASSUME CInv, NEW t \in Tabs, \A u \in Tabs : Fine(u), clearSession(t),
           MayHear(Tabs \ {t}) \subseteq MayHear(Tabs \ {t})'
    PROVE  \A u \in Tabs : Fine(u)'
<1> TAKE u \in Tabs
<1>1. idle' = [idle EXCEPT ![t] = NoClock] /\ news' = Told(t, Logout, news)
  BY DEF clearSession, clearSessionLocally
<1> PICK q : q = news[u]
  OBVIOUS
<1>2. q \in Seq(Letters)
  BY ClockParts
<1>3. CASE u = t
  <2>1. idle'[u] = NoClock /\ news'[u] = q
    BY <1>1, <1>3, ClockParts DEF Told
  <2>2. Settled(q, MayHear(Tabs \ {t}))
    BY <1>3 DEF Fine
  <2> QED BY <1>3, <2>1, <2>2, FineThen
<1>4. CASE u # t
  <2>1. news'[u] = q \o Logout
    BY <1>1, <1>4 DEF Told
  <2>2. Settled(q \o Logout, {}) /\ LogoutAfter(q \o Logout, 0)
    BY <1>2, SettledByLogout
  <2> QED BY <2>1, <2>2, FineThen
<1> QED BY <1>3, <1>4

\* A request that counts as acting leaves: this moment is due.
LEMMA LeavesDue ==
    ASSUME CInv, Live, NEW t \in Tabs, NEW what, what # "poll", NEW staff,
           Leaves(t, what, jar, staff), NEW from, t \in from
    PROVE  \A a \in Int : a <= Now => a \in MayHear(from)'
<1> PICK d : d = [tab |-> t, what |-> what, as |-> jar, staff |-> staff, at |-> 0,
                  left |-> hour, status |-> "sent"]
  OBVIOUS
<1>1. d \in requests' /\ jar' = jar /\ d.as = jar /\ d.status = "sent" /\ d.what = what /\ d.tab = t /\ d.left = hour
  BY DEF Leaves, server
<1>2. Now = hour + Skew
  BY DEF Now
<1> QED BY <1>1, <1>2 DEF MayHear

LEMMA LeavesKept ==
    ASSUME CInv, Live, NEW t, NEW what, NEW as, NEW staff, Leaves(t, what, as, staff), NEW from
    PROVE  MayHear(from) \subseteq MayHear(from)'
<1>1. UNCHANGED <<jar, session>> /\ requests \subseteq requests'
  BY DEF Leaves, server
<1>2. session[jar].last \in Nat
  BY ClockParts, SessionFields, ActedBefore DEF Live, Moments
<1>3. session'[jar].last \in Nat /\ session[jar].last <= session'[jar].last
  BY <1>1, <1>2
<1> QED BY <1>1, <1>3, DueKept

LEMMA MarksFine ==
    ASSUME CInv, Live, NEW t \in Tabs, NEW mail \in [Tabs -> Seq(Letters)], NEW what, what # "poll",
           Leaves(t, what, jar, FALSE), idle[t] # NoClock,
           idle' = [idle EXCEPT ![t] = Now], news' = Told(t, Active, mail),
           \A u \in Tabs : u # t => mail[u] = news[u], Settled(mail[t], MayHear(Tabs \ {t})),
           \A u \in Tabs : Fine(u)
    PROVE  \A u \in Tabs : Fine(u)'
<1> TAKE u \in Tabs
<1>1. /\ Now \in Nat /\ Timeout \in Nat \ {0} /\ seen[u] \in 0 .. Now /\ seen' = seen
  BY ClockParts, ActedBefore, ClockBounds DEF Readings, Leaves
<1>2. CASE u = t
  <2> PICK q : q = mail[u]
    OBVIOUS
  <2>1. idle'[u] = Now /\ news'[u] = q
    BY <1>2, ClockParts DEF Told
  <2>2. MayHear(Tabs \ {u}) \subseteq MayHear(Tabs \ {u})' /\ Settled(q, MayHear(Tabs \ {u}))
    BY <1>2, LeavesKept
  <2>3. \A a \in Int : a <= Now => a \in MayHear(Tabs)'
    BY LeavesDue
  <2>4. idle'[u] \in MayHear(Tabs)' /\ seen'[u] + 1 - Timeout \in MayHear(Tabs)'
    BY <1>1, <2>1, <2>3
  <2> QED BY <2>1, <2>2, <2>4, FineThen
<1>3. CASE u # t
  <2>1. news'[u] = news[u] \o Active /\ idle'[u] = idle[u] /\ Active \in Seq(Letters)
    BY <1>3, ClockParts, LettersWritten DEF Told
  <2>2. MayHear(Tabs) \subseteq MayHear(Tabs)' /\ MayHear(Tabs \ {u}) \subseteq MayHear(Tabs \ {u})'
    BY LeavesKept
  <2>3. t \in Tabs \ {u}
    BY <1>3
  <2>4. \A a \in Int : a <= Now => a \in MayHear(Tabs \ {u})'
    BY <2>3, LeavesDue
  <2>a. \A i \in 1 .. Len(Active) : Active[i].at = Now
    BY DEF Active
  <2>c. Now \in Int /\ Now <= Now
    BY <1>1
  <2>b. Now \in MayHear(Tabs \ {u})'
    BY <2>4, <2>c, Zenon
  <2>5. \A i \in 1 .. Len(Active) : Active[i].type = "activity" => Active[i].at \in MayHear(Tabs \ {u})'
    BY <2>a, <2>b
  <2> QED BY <1>1, <2>1, <2>2, <2>5, FineKept
<1> QED BY <1>2, <1>3

LEMMA ActsFine ==
    ASSUME CInv, Live, Smooth', NEW t \in Tabs, UNCHANGED held, Acts(t), NEW what, what # "poll",
           NEW as \in {held[t], jar}, Leaves(t, what, as, FALSE), \A u \in Tabs : Fine(u)
    PROVE  \A u \in Tabs : Fine(u)'
<1>1. /\ noteActivity(t, news) /\ news \in [Tabs -> Seq(Letters)] /\ UNCHANGED seen
      /\ held[t] \in {0, jar}
  BY ClockParts DEF Acts, Smooth, Leaves
<1>2. CASE held[t] = 0 \/ idle[t] = NoClock
  <2>1. UNCHANGED <<idle, news>>
    BY <1>1, <1>2 DEF noteActivity
  <2>2. \A u \in Tabs : MayHear(Tabs) \subseteq MayHear(Tabs)' /\ MayHear(Tabs \ {u}) \subseteq MayHear(Tabs \ {u})'
    BY LeavesKept
  <2> QED BY <1>1, <2>1, <2>2, FineKept
<1>3. CASE held[t] # 0 /\ idle[t] # NoClock
  <2>1. idle' = [idle EXCEPT ![t] = Now] /\ news' = Told(t, Active, news) /\ as = jar
    BY <1>1, <1>3 DEF noteActivity, MarksAndTells
  <2>2. Settled(news[t], MayHear(Tabs \ {t})) /\ Leaves(t, what, jar, FALSE)
    BY <2>1 DEF Fine
  <2> QED BY <1>1, <1>3, <2>1, <2>2, MarksFine
<1> QED BY <1>2, <1>3

LEMMA HearsFine ==
    ASSUME CInv, Live, NEW t \in Tabs, Hear(t), \A u \in Tabs : Fine(u)
    PROVE  \A u \in Tabs : Fine(u)'
<1> PICK message : message = Head(news[t])
  OBVIOUS
<1> PICK mail : mail = [news EXCEPT ![t] = Tail(@)]
  OBVIOUS
<1> PICK q : q = news[t]
  OBVIOUS
<1> PICK D : D = MayHear(Tabs \ {t})
  OBVIOUS
<1>1. /\ q # <<>> /\ q \in Seq(Letters) /\ Tail(q) \in Seq(Letters) /\ message \in Letters /\ message = Head(q)
      /\ UNCHANGED <<session, jar, seen>>
  BY ClockParts, HeadTailProperties DEF Hear, server
<1>2. mail \in [Tabs -> Seq(Letters)] /\ mail[t] = Tail(q) /\ \A u \in Tabs : u # t => mail[u] = news[u]
  BY <1>1, ClockParts
<1>3. HearsActivity(t, message) \/ HearsLogout(t, message) \/ HearsLogin(t, message)
  BY DEF Hear
<1>4. /\ Settled(Tail(q), D)
      /\ message.type = "activity" => message.at \in D \/ LogoutAfter(Tail(q), 0)
      /\ message.type # "logout" /\ LogoutAfter(q, 0) => LogoutAfter(Tail(q), 0)
  <2>1. Settled(q, D)
    BY DEF Fine
  <2> QED BY <1>1, <2>1, SettledTail
<1>5. /\ D \subseteq MayHear(Tabs)
      /\ idle[t] # NoClock => LogoutAfter(q, 0) \/ (idle[t] \in MayHear(Tabs) /\ seen[t] + 1 - Timeout \in MayHear(Tabs))
  BY DEF Fine, MayHear
<1>6. requests \subseteq requests'
  BY <1>3 DEF HearsActivity, HearsLogout, HearsLogin, Leaves
<1>7. ASSUME NEW from PROVE MayHear(from) \subseteq MayHear(from)'
  <2>1. session[jar].last \in Nat
    BY ClockParts, SessionFields, ActedBefore DEF Live, Moments
  <2>2. session'[jar].last \in Nat /\ session[jar].last <= session'[jar].last
    BY <1>1, <2>1
  <2> QED BY <1>1, <1>6, <2>2, DueKept
\* Another tab is told nothing by what this one hears, or that somebody acts.
<1>8. ASSUME NEW u \in Tabs, u # t, idle'[u] = idle[u], news'[u] = news[u]
      PROVE  Fine(u)'
  BY <1>1, <1>7, <1>8, FineKept
<1>9. CASE HearsActivity(t, message) \/ HearsLogout(t, message) \/ (HearsLogin(t, message) /\ news' = mail /\ UNCHANGED idle)
  <2>1. /\ news' = mail
        /\ \/ idle' = idle
           \/ idle' = [idle EXCEPT ![t] = NoClock]
           \/ idle' = [idle EXCEPT ![t] = message.at] /\ message.type = "activity" /\ idle[t] # NoClock
        /\ message.type = "logout" => idle' = [idle EXCEPT ![t] = NoClock]
    BY <1>9 DEF HearsActivity, HearsLogout, HearsLogin, clearSessionLocally
  <2> TAKE u \in Tabs
  <2>2. CASE u # t
    <3>1. idle'[u] = idle[u] /\ news'[u] = news[u]
      BY <1>2, <2>1, <2>2, ClockParts
    <3> QED BY <1>8, <2>2, <3>1
  <2>3. CASE u = t
    <3>1. news'[t] = Tail(q) /\ D \subseteq MayHear(Tabs \ {t})' /\ MayHear(Tabs) \subseteq MayHear(Tabs)' /\ seen'[t] = seen[t]
      BY <1>1, <1>2, <1>7, <2>1
    <3>2. CASE idle'[t] = NoClock
      BY <1>4, <2>3, <3>1, <3>2, FineThen
    <3>3. CASE idle'[t] # NoClock
      <4>1. /\ message.type # "logout" /\ idle[t] # NoClock
            /\ idle'[t] = idle[t] \/ (idle'[t] = message.at /\ message.type = "activity")
        BY <2>1, <3>3, ClockParts
      <4>2. \/ LogoutAfter(Tail(q), 0)
            \/ idle'[t] \in MayHear(Tabs) /\ seen'[t] + 1 - Timeout \in MayHear(Tabs)
        BY <1>4, <1>5, <3>1, <4>1
      <4> QED BY <1>4, <2>3, <3>1, <4>2, FineThen
    <3> QED BY <3>2, <3>3
  <2> QED BY <2>2, <2>3
<1>10. CASE jar # 0 /\ held' = [held EXCEPT ![t] = jar] /\ noteActivity(t, mail) /\ Leaves(t, "account", jar, FALSE)
            /\ HearsLogin(t, message)
  <2>1. held'[t] = jar /\ jar # 0
    BY <1>10, ClockParts
  <2>2. CASE idle[t] = NoClock
    <3>1. news' = mail /\ UNCHANGED idle
      BY <1>10, <2>2 DEF noteActivity
    <3> QED BY <1>9, <1>10, <3>1
  <2>3. CASE idle[t] # NoClock
    <3>1. idle' = [idle EXCEPT ![t] = Now] /\ news' = Told(t, Active, mail)
      BY <1>10, <2>1, <2>3 DEF noteActivity, MarksAndTells
    <3>2. Settled(mail[t], MayHear(Tabs \ {t}))
      BY <1>2, <1>4
    <3> QED BY <1>2, <1>10, <2>3, <3>1, <3>2, MarksFine
  <2> QED BY <2>2, <2>3
<1> QED BY <1>3, <1>9, <1>10 DEF HearsLogin, clockHistory

LEMMA StaysFine ==
    ASSUME CInv, \A u \in Tabs : Fine(u), UNCHANGED <<idle, news, seen>>,
           \A from : MayHear(from) \subseteq MayHear(from)'
    PROVE  \A u \in Tabs : Fine(u)'
  BY FineKept

LEMMA AwakeStep == ASSUME CInv, Awake, [ClockNext]_clockVars PROVE Awake'
<1> SUFFICES ASSUME "slept" \notin between', NEW t \in Tabs PROVE Now' <= seen'[t] + 1
  BY DEF Awake
<1>1. hour \in Nat /\ Skew \in Nat /\ Now = hour + Skew /\ seen[t] \in Nat
  BY ClockParts, ActedBefore, ClockBounds DEF Now, Readings
<1>2. CASE Pass
  <2>1. seen'[t] = Now /\ hour' = hour + 1
    BY <1>2 DEF Pass
  <2> QED BY <1>1, <2>1 DEF Now
<1>3. ASSUME NEW u \in Tabs, Tick(u) PROVE Now' <= seen'[t] + 1
  <2>1. seen' = [seen EXCEPT ![u] = Now] /\ UNCHANGED <<hour, between>>
    BY <1>3 DEF Tick
  <2>2. Now <= seen[t] + 1 /\ Now' = Now
    BY <2>1 DEF Awake, Now
  <2>3. seen'[t] = seen[t] \/ seen'[t] = Now
    BY <2>1, ClockParts
  <2> QED BY <1>1, <2>2, <2>3
<1>4. CASE Unmoved
  BY <1>4 DEF Unmoved, Awake, Now
<1> QED BY <1>2, <1>3, <1>4, StepsAreQuiet

\* The server's steps, and an answer's end: what was due is.
LEMMA ServerDue ==
    ASSUME CInv, CInv', Live, Live', NEW c \in requests,
           OpensSession(c) \/ Serves(c) \/ RefusesIdle(c) \/ Refuses(c), NEW from
    PROVE  MayHear(from) \subseteq MayHear(from)'
<1>1. jar \in 1 .. Len(session) /\ session[jar] \in SessionKind /\ session[jar].last \in Moments /\ hour \in Nat
  BY ClockParts, SessionFields, ActedBefore DEF Live
<1>2. session[jar].last \in Nat /\ session[jar].last <= hour /\ session \in Seq(SessionKind)
  BY <1>1, ClockParts DEF Moments
<1>3. c.status = "sent" /\ c.left \in Nat /\ c.left <= hour /\ UNCHANGED jar
  BY <1>1, ClockParts, CallFields DEF OpensSession, Serves, RefusesIdle, Refuses, server, Moments
<1>4. CASE OpensSession(c)
  <2>1. c.as = 0 /\ jar # 0
    BY <1>3, <1>4 DEF OpensSession, CInv, RoomForLogins, LoginsOut, Live
  <2>2. session'[jar] = session[jar]
    BY <1>1, <1>2, <1>4 DEF OpensSession
  <2>3. \A d \in requests : d.as = jar => d \in requests'
    BY <1>4, <2>1 DEF OpensSession, Answered
  <2> QED BY <1>2, <1>3, <2>2, <2>3, DueKept
<1>5. CASE Refuses(c)
  <2>1. c.as # jar /\ UNCHANGED session
    BY <1>5 DEF Refuses, Valid, Live, server
  <2>2. \A d \in requests : d.as = jar => d \in requests'
    BY <1>5, <2>1 DEF Refuses, Answered
  <2> QED BY <1>2, <1>3, <2>1, <2>2, DueKept
<1>6. CASE RefusesIdle(c)
  <2>1. session' = [session EXCEPT ![c.as].open = FALSE]
    BY <1>6 DEF RefusesIdle
  <2>2. c.as # jar
    <3>1. c.as = jar => session'[jar].open = FALSE
      BY <1>1, <1>2, <2>1 DEF SessionKind
    <3> QED BY <1>3, <3>1 DEF Live
  <2>3. session'[jar] = session[jar]
    BY <1>1, <1>2, <2>1, <2>2
  <2>4. \A d \in requests : d.as = jar => d \in requests'
    BY <1>6, <2>2 DEF RefusesIdle, Answered
  <2> QED BY <1>2, <1>3, <2>3, <2>4, DueKept
<1>7. CASE Serves(c)
  <2> PICK last : last = IF c.what = "poll" THEN session[c.as].last ELSE hour
    OBVIOUS
  <2> PICK open : open = (c.what # "logout")
    OBVIOUS
  <2>1. session' = [session EXCEPT ![c.as].last = last, ![c.as].open = open]
    BY <1>7 DEF Serves
  <2>2. \A d \in requests : d # c => d \in requests'
    BY <1>7 DEF Serves, Answered
  <2>3. CASE c.as = jar
    <3>1. session'[jar].last = last
      BY <1>1, <1>2, <2>1, <2>3 DEF SessionKind
    <3>2. last \in Nat /\ session[jar].last <= last /\ (c.what # "poll" => c.left <= last)
      BY <1>1, <1>2, <1>3, <2>3
    <3>3. \A d \in requests : d.what # "poll" => d \in requests' \/ d.left <= session'[jar].last
      BY <2>2, <3>1, <3>2
    <3> QED BY <1>3, <3>1, <3>2, <3>3, DueKept
  <2>4. CASE c.as # jar
    <3>1. session'[jar] = session[jar]
      BY <1>1, <1>2, <2>1, <2>4
    <3>2. \A d \in requests : d.as = jar => d \in requests'
      BY <2>2, <2>4
    <3> QED BY <1>2, <1>3, <3>1, <3>2, DueKept
  <2> QED BY <2>3, <2>4
<1> QED BY <1>4, <1>5, <1>6, <1>7

LEMMA OverDue ==
    ASSUME CInv, Live, NEW c \in requests, Over(c), UNCHANGED jar, NEW from,
           c.status # "sent" \/ c.tab \notin from
    PROVE  MayHear(from) \subseteq MayHear(from)'
<1>1. session[jar].last \in Nat
  BY ClockParts, SessionFields, ActedBefore DEF Live, Moments
<1>2. UNCHANGED session /\ requests' = requests \ {c}
  BY DEF Over
<1>3. session'[jar].last \in Nat /\ session[jar].last <= session'[jar].last
  BY <1>1, <1>2
<1> QED BY <1>2, <1>3, DueKept

LEMMA LandsFine ==
    ASSUME CInv, CInv', Smooth', Live', NEW c \in requests, LoginLands(c) \/ ClockLands(c),
           Live /\ UNCHANGED jar => \A u \in Tabs : Fine(u)
    PROVE  \A u \in Tabs : Fine(u)'
<1>1. /\ c.status = "done" /\ Over(c) /\ UNCHANGED <<hour, session, seen>>
      /\ c.tab \in Tabs /\ c.staff \in BOOLEAN /\ c.as \in Opened
  BY ClockParts, CallFields DEF LoginLands, ClockLands, Over
<1>2. /\ c.at <= session[c.as].last /\ c.staff = session[c.as].staff /\ c.as # 0 /\ c.at \in Nat /\ hour \in Nat
      /\ session[c.as].last \in Nat /\ session[c.as].last <= hour
  BY <1>1, ClockParts, CallFields, SessionFields, ActedBefore DEF CInv, AnswersFit, Moments
<1>3. /\ c.staff => ~(c.at < hour) /\ c.as = jar'
  BY DEF LoginLands, ClockLands, applyActivity, Smooth
<1>4. CASE c.staff
  <2>1. session'[jar'].last = hour
    BY <1>1, <1>2, <1>3, <1>4
  <2> QED BY <1>1, <2>1, AllDue
<1>5. CASE ~c.staff
  <2>1. ClockLands(c)
    <3>1. LoginLands(c) => c.as = jar' /\ session'[jar'].staff = FALSE
      BY <1>1, <1>2, <1>5 DEF LoginLands
    <3> QED BY <3>1 DEF Live
  <2>2. UNCHANGED jar /\ Live /\ idle' = [idle EXCEPT ![c.tab] = NoClock] /\ news' = Told(c.tab, <<>> \o <<>>, news)
    BY <1>1, <1>5, <2>1 DEF ClockLands, applyActivity, Live
  <2>3. \A u \in Tabs : Fine(u)
    BY <2>2
  <2> TAKE u \in Tabs
  <2>4. MayHear(Tabs) \subseteq MayHear(Tabs)' /\ MayHear(Tabs \ {u}) \subseteq MayHear(Tabs \ {u})'
    BY <1>1, <2>2, OverDue
  <2>5. news'[u] = news[u]
    <3>1. news[u] \in Seq(Letters) /\ <<>> \o <<>> = <<>>
      BY ClockParts
    <3>2. news[u] \o <<>> = news[u]
      BY <3>1
    <3> QED BY <2>2, <3>1, <3>2 DEF Told
  <2>6. idle'[u] = idle[u] \/ idle'[u] = NoClock
    BY <2>2, ClockParts
  <2> QED BY <1>1, <2>3, <2>4, <2>5, <2>6, FineKept
<1> QED BY <1>1, <1>4, <1>5

LEMMA EndsStep ==
    ASSUME CInv, EInv, [ClockNext]_clockVars
    PROVE  EInv'
<1> SUFFICES ASSUME Smooth', Live' PROVE \A u \in Tabs : Fine(u)'
  BY DEF EInv
<1>1. CInv'
  BY NextKinds
<1>2. Smooth
  <2>1. CASE Pass
    BY <2>1 DEF Pass, Smooth
  <2>2. ASSUME NEW t \in Tabs, Tick(t) PROVE between' = between
    BY <2>2 DEF Tick
  <2>3. between \subseteq between' => Smooth
    BY DEF Smooth
  <2> QED BY <2>1, <2>2, <2>3, StepsAreQuiet DEF Unmoved
\* What the cookie names is still what it named, and it was open.
<1>3. ASSUME UNCHANGED <<session, jar>>
      PROVE  /\ Live /\ \A u \in Tabs : Fine(u)
             /\ session'[jar].last \in Nat /\ session[jar].last <= session'[jar].last
  <2>1. Live
    BY <1>3 DEF Live
  <2>2. session[jar].last \in Nat
    BY <2>1, ClockParts, SessionFields, ActedBefore DEF Live, Moments
  <2> QED BY <1>2, <1>3, <2>1, <2>2 DEF EInv
<1>4. ASSUME UNCHANGED <<session, jar>>, requests \subseteq requests'
      PROVE  \A from : MayHear(from) \subseteq MayHear(from)'
  BY <1>3, <1>4, DueKept
<1>5. CASE Pass \/ UNCHANGED clockVars
  <2>1. UNCHANGED <<session, jar, requests, idle, news, seen>>
    BY <1>5 DEF Pass, clockVars, server, tabs
  <2> QED BY <1>3, <1>4, <2>1, StaysFine
<1>6. ASSUME NEW t \in Tabs, Tick(t)
      PROVE  \A u \in Tabs : Fine(u)'
  <2>1. UNCHANGED <<hour, session, jar, requests>> /\ seen' = [seen EXCEPT ![t] = Now]
    BY <1>6 DEF Tick, server
  <2>2. \A from : MayHear(from) \subseteq MayHear(from)'
    BY <1>4, <2>1
  <2>3. Live /\ \A u \in Tabs : Fine(u)
    BY <1>3, <2>1
  <2>4. CASE RunsOut(t)
    <3>1. clearSession(t)
      BY <1>6, <2>4 DEF Tick
    <3> QED BY <2>2, <2>3, <3>1, ClearsFine
  <2>5. CASE ~RunsOut(t)
    <3>1. UNCHANGED <<idle, news>>
      BY <1>6, <2>5 DEF Tick, tabs
    <3> TAKE u \in Tabs
    <3>2. CASE u # t
      <4>1. seen'[u] = seen[u]
        BY <2>1, <3>2, ClockParts
      <4> QED BY <2>2, <2>3, <3>1, <4>1, FineKept
    <3>3. CASE u = t
      <4>1. /\ Now \in Nat /\ Timeout \in Nat \ {0} /\ seen'[u] = Now
            /\ idle[u] # NoClock => idle[u] \in Nat /\ Now < idle[u] + Timeout
        BY <2>1, <2>5, <3>3, ClockParts, ActedBefore, ClockBounds DEF RunsOut, Readings
      <4>2. \A a, b \in Int : a \in MayHear(Tabs) /\ b <= a => b \in MayHear(Tabs)
        <5> SUFFICES ASSUME NEW a \in Int, NEW b \in Int, a \in MayHear(Tabs), b <= a PROVE b \in MayHear(Tabs)
          OBVIOUS
        <5>1. session[jar].last \in Nat /\ Skew \in Nat
          BY <1>3, <2>1, <2>3, ClockParts, SessionFields, ActedBefore, ClockBounds DEF Live, Moments
        <5>2. \A c \in requests : c.left \in Nat
          BY ClockParts, CallFields
        <5>3. /\ a <= session[jar].last + Skew => b <= session[jar].last + Skew
              /\ \A c \in requests : a <= c.left + Skew => b <= c.left + Skew
          BY <5>1, <5>2
        <5> QED BY <5>3 DEF MayHear
      <4>3. ASSUME idle[u] # NoClock, ~LogoutAfter(news[u], 0)
            PROVE  idle'[u] \in MayHear(Tabs) /\ seen'[u] + 1 - Timeout \in MayHear(Tabs)
        <5>1. idle[u] \in MayHear(Tabs)
          BY <2>3, <4>3 DEF Fine
        <5>2. seen'[u] + 1 - Timeout \in Int /\ seen'[u] + 1 - Timeout <= idle[u] /\ idle[u] \in Int
          BY <4>1, <4>3
        <5>3. seen'[u] + 1 - Timeout \in MayHear(Tabs)
          BY <4>2, <5>1, <5>2
        <5> QED BY <3>1, <5>1, <5>3
      <4> PICK q : q = news[u]
        OBVIOUS
      <4>4. Settled(q, MayHear(Tabs \ {u})) /\ news'[u] = q
        BY <2>3, <3>1 DEF Fine
      <4>5. MayHear(Tabs \ {u}) \subseteq MayHear(Tabs \ {u})' /\ MayHear(Tabs) \subseteq MayHear(Tabs)'
        BY <2>2
      <4>6. idle'[u] # NoClock => \/ LogoutAfter(q, 0)
                                  \/ idle'[u] \in MayHear(Tabs) /\ seen'[u] + 1 - Timeout \in MayHear(Tabs)
        BY <3>1, <4>3
      <4> QED BY <4>4, <4>5, <4>6, FineThen
    <3> QED BY <3>2, <3>3
  <2> QED BY <2>4, <2>5
<1>7. ASSUME NEW t \in Tabs, Act(t) \/ Stay(t) \/ LogOut(t)
      PROVE  \A u \in Tabs : Fine(u)'
  <2>1. /\ Acts(t) /\ UNCHANGED held
        /\ \E what, as : what # "poll" /\ as \in {held[t], jar} /\ Leaves(t, what, as, FALSE)
    BY <1>7 DEF Act, Stay, LogOut
  <2>2. UNCHANGED <<session, jar>>
    BY <2>1 DEF Leaves, server
  <2>3. Live /\ \A u \in Tabs : Fine(u)
    BY <1>3, <2>2
  <2> QED BY <2>1, <2>3, ActsFine
<1>8. ASSUME NEW t \in Tabs, Poll(t) \/ \E staff \in BOOLEAN : LogIn(t, staff)
      PROVE  \A u \in Tabs : Fine(u)'
  <2>1. UNCHANGED <<session, jar, idle, news, seen>> /\ requests \subseteq requests'
    BY <1>8 DEF Poll, PollsPassively, LogIn, Leaves, server, tabs, clockHistory
  <2> QED BY <1>3, <1>4, <2>1, StaysFine
<1>9. ASSUME NEW t \in Tabs, Hear(t)
      PROVE  \A u \in Tabs : Fine(u)'
  <2>1. UNCHANGED <<session, jar>>
    BY <1>9 DEF Hear, server
  <2> QED BY <1>3, <1>9, <2>1, HearsFine
<1>10. ASSUME NEW c \in requests, OpensSession(c) \/ Serves(c) \/ RefusesIdle(c) \/ Refuses(c)
       PROVE  \A u \in Tabs : Fine(u)'
  <2>1. UNCHANGED <<jar, idle, news, seen>> /\ c.status = "sent"
    BY <1>10 DEF OpensSession, Serves, RefusesIdle, Refuses, server, tabs
  <2>2. Live
    <3>1. jar # 0 /\ session'[jar].open /\ session'[jar].staff /\ jar \in 1 .. Len(session)
          /\ session[jar] \in SessionKind /\ session \in Seq(SessionKind)
      BY <2>1, ClockParts, SessionFields DEF Live
    <3>2. session'[jar].open => session[jar].open
      <4>1. CASE OpensSession(c) \/ Refuses(c)
        <5>1. session'[jar] = session[jar]
          BY <3>1, <4>1 DEF OpensSession, Refuses, server
        <5> QED BY <5>1
      <4>2. CASE Serves(c) \/ RefusesIdle(c)
        <5>1. session[c.as].open
          BY <4>2 DEF Serves, RefusesIdle, Valid
        <5>2. CASE c.as = jar
          BY <5>1, <5>2
        <5>3. CASE c.as # jar
          <6>1. session'[jar] = session[jar]
            BY <3>1, <4>2, <5>3 DEF Serves, RefusesIdle
          <6> QED BY <6>1
        <5> QED BY <5>2, <5>3
      <4> QED BY <1>10, <4>1, <4>2
    <3>3. session'[jar].staff = session[jar].staff
      <4>1. CASE OpensSession(c) \/ Refuses(c)
        <5>1. session'[jar] = session[jar]
          BY <3>1, <4>1 DEF OpensSession, Refuses, server
        <5> QED BY <5>1
      <4>2. CASE Serves(c)
        <5> PICK last : last = IF c.what = "poll" THEN session[c.as].last ELSE hour
          OBVIOUS
        <5> PICK open : open = (c.what # "logout")
          OBVIOUS
        <5>1. session' = [session EXCEPT ![c.as].last = last, ![c.as].open = open]
          BY <4>2 DEF Serves
        <5>2. CASE c.as = jar
          <6> PICK row : row = [session[jar] EXCEPT !.last = last, !.open = open]
            OBVIOUS
          <6>1. row.staff = session[jar].staff
            BY <3>1 DEF SessionKind
          <6>2. session' = [session EXCEPT ![jar] = row]
            BY <3>1, <5>1, <5>2 DEF SessionKind
          <6>a. jar \in DOMAIN session
            BY <3>1
          <6>b. \A e : [session EXCEPT ![jar] = e][jar] = e
            BY <6>a
          <6>3. session'[jar] = row
            BY <6>2, <6>b
          <6> QED BY <6>1, <6>3
        <5>3. CASE c.as # jar
          <6>1. session'[jar] = session[jar]
            BY <3>1, <5>1, <5>3
          <6> QED BY <6>1
        <5> QED BY <5>2, <5>3
      <4>3. CASE RefusesIdle(c)
        <5>1. session' = [session EXCEPT ![c.as].open = FALSE]
          BY <4>3 DEF RefusesIdle
        <5>2. CASE c.as = jar
          BY <3>1, <5>1, <5>2 DEF SessionKind
        <5>3. CASE c.as # jar
          <6>1. session'[jar] = session[jar]
            BY <3>1, <5>1, <5>3
          <6> QED BY <6>1
        <5> QED BY <5>2, <5>3
      <4> QED BY <1>10, <4>1, <4>2, <4>3
    <3> QED BY <3>1, <3>2, <3>3 DEF Live
  <2>3. \A from : MayHear(from) \subseteq MayHear(from)'
    BY <1>1, <1>10, <2>2, ServerDue
  <2>4. \A u \in Tabs : Fine(u)
    BY <1>2, <2>2 DEF EInv
  <2> QED BY <2>1, <2>3, <2>4, StaysFine
<1>11. ASSUME NEW c \in requests, LoginLands(c) \/ ClockLands(c)
       PROVE  \A u \in Tabs : Fine(u)'
  <2>1. Live => \A u \in Tabs : Fine(u)
    BY <1>2 DEF EInv
  <2> QED BY <1>1, <1>11, <2>1, LandsFine
<1>12. ASSUME NEW c \in requests, IdleLands(c) \/ RefusalLands(c) \/ LogoutLands(c)
       PROVE  \A u \in Tabs : Fine(u)'
  <2>1. /\ Over(c) /\ c.tab \in Tabs /\ UNCHANGED <<session, seen>>
        /\ clearSession(c.tab) \/ UNCHANGED <<idle, news>>
        /\ c.status # "sent" \/ clearSession(c.tab)
    BY <1>12, ClockParts, CallFields DEF IdleLands, RefusalLands, LogoutLands, Over, tabs
  <2>2. UNCHANGED jar
    BY <1>12 DEF IdleLands, RefusalLands, LogoutLands, Live
  <2>3. Live /\ \A u \in Tabs : Fine(u)
    BY <1>3, <2>1, <2>2
  <2>4. CASE clearSession(c.tab)
    <3>1. MayHear(Tabs \ {c.tab}) \subseteq MayHear(Tabs \ {c.tab})'
      BY <2>1, <2>2, <2>3, OverDue
    <3> QED BY <2>1, <2>3, <2>4, <3>1, ClearsFine
  <2>5. CASE c.status # "sent" /\ UNCHANGED <<idle, news>>
    <3>1. \A from : MayHear(from) \subseteq MayHear(from)'
      BY <2>1, <2>2, <2>3, <2>5, OverDue
    <3> QED BY <2>1, <2>3, <2>5, <3>1, StaysFine
  <2> QED BY <2>1, <2>4, <2>5
<1>13. ASSUME NEW c \in requests, GivesUp(c)
       PROVE  \A u \in Tabs : Fine(u)'
  <2>1. Over(c) /\ UNCHANGED <<session, jar, idle, news, seen>> /\ c.status # "sent"
    BY <1>13 DEF GivesUp, Over, Smooth, tabs
  <2>2. Live /\ \A u \in Tabs : Fine(u)
    BY <1>3, <2>1
  <2>3. \A from : MayHear(from) \subseteq MayHear(from)'
    BY <2>1, <2>2, OverDue
  <2> QED BY <2>1, <2>2, <2>3, StaysFine
<1> QED BY <1>5, <1>6, <1>7, <1>8, <1>9, <1>10, <1>11, <1>12, <1>13 DEF ClockNext

LEMMA EndsInit == ASSUME ClockInit PROVE EInv /\ Awake
<1>1. Skew \in Nat /\ Timeout \in Nat \ {0}
  BY ClockBounds
<1>2. session[jar].last = 0 /\ hour = 0 /\ \A t \in Tabs : news[t] = <<>> /\ seen[t] = Skew /\ idle[t] \in {Skew, NoClock}
  BY DEF ClockInit
<1>3. Skew \in MayHear(Tabs) /\ Skew + 1 - Timeout \in MayHear(Tabs)
  BY <1>1, <1>2 DEF MayHear
<1>4. \A t \in Tabs : Fine(t)
  BY <1>2, <1>3 DEF Fine, Settled
<1> QED BY <1>1, <1>2, <1>4 DEF EInv, Awake, Now

(* IdleClock.EndsHereFirst, for any tabs, sessions, requests and clocks: with no request lost, no   *)
(* machine asleep, no answer late and no sign-in elsewhere, no tab goes on after the server would    *)
(* end its session, unless word of that is on its way.                                              *)
THEOREM EndsHereFirstAlways == ClockSpec => []EndsHereFirst
<1>1. ClockSpec => [](CInv /\ EInv /\ Awake)
  <2>1. ClockInit => CInv /\ EInv /\ Awake
    BY InitKinds, EndsInit
  <2>2. CInv /\ EInv /\ Awake /\ [ClockNext]_clockVars => (CInv /\ EInv /\ Awake)'
    BY NextKinds, EndsStep, AwakeStep
  <2> QED BY <2>1, <2>2, PTL DEF ClockSpec
<1>2. CInv /\ EInv /\ Awake => EndsHereFirst
  <2> SUFFICES ASSUME CInv, EInv, Awake, NEW t \in Tabs, held[t] # 0, held[t] = jar, idle[t] # NoClock,
                      session[held[t]].open, IdledOut(held[t]),
                      between \cap {"slept", "lost", "echoed", "replaced"} = {},
                      ~Awaits(t, "logout"), ~ \E c \in requests : c.as = held[t] /\ c.status = "sent"
               PROVE  FALSE
    BY DEF EndsHereFirst
  <2>1. Live /\ Smooth /\ Fine(t)
    BY DEF EInv, Smooth, Live, IdledOut
  <2>2. ~LogoutAfter(news[t], 0)
    <3>1. news[t] \in Seq(Letters)
      BY ClockParts
    <3>2. DOMAIN news[t] = 1 .. Len(news[t])
      BY <3>1, LenProperties
    <3> QED BY <3>2 DEF Awaits, LogoutAfter
  <2>3. seen[t] + 1 - Timeout <= session[jar].last + Skew
    BY <2>1, <2>2 DEF Fine, MayHear
  <2>4. Now <= seen[t] + 1 /\ hour - session[jar].last > Timeout
    BY DEF Awake, IdledOut
  <2>5. /\ Now = hour + Skew /\ hour \in Nat /\ Skew \in Nat /\ Timeout \in Nat
        /\ session[jar].last \in Nat /\ seen[t] \in Nat
    BY <2>1, ClockParts, SessionFields, ActedBefore, ClockBounds DEF Live, Moments, Now, Readings
  <2> QED BY <2>3, <2>4, <2>5
<1> QED BY <1>1, <1>2, PTL
=============================================================================
