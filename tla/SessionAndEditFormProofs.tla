-------------------- MODULE SessionAndEditFormProofs --------------------
(***************************************************************************)
(* What Session guarantees for any number of tabs, persons, requests and   *)
(* sign-ins, in either mode: first IInv and what follows from it, then how *)
(* sign-outs reach every tab (DInv) and, in cookie mode, last (OInv).  And *)
(* what EditForm guarantees for any products and saves: what the form      *)
(* shows, its tag and its calls fit (FormInv), and its two invariants.     *)
(***************************************************************************)
EXTENDS Session, EditForm, TLAPS

-----------------------------------------------------------------------------
(* What the store's functions return. *)

LEMMA ChangedTabs ==
    ASSUME NEW s \in TabState
    PROVE  /\ \A k \in Known : WithToken(s, k) \in TabState
           /\ WithCookie(s) \in TabState
           /\ \A p \in Persons : WithRules(s, p) \in TabState /\ Identified(s, p) \in TabState
<1>1. \A p \in Persons : WithRules(s, p) \in TabState
  BY DEF TabState, WithRules
<1>2. \A p \in Persons : Identified(s, p) \in TabState
  BY <1>1 DEF TabState, Identified
<1>3. (\A k \in Known : WithToken(s, k) \in TabState) /\ WithCookie(s) \in TabState
  BY DEF TabState, WithToken, WithCookie
<1> QED BY <1>1, <1>2, <1>3

LEMMA EndedTabs ==
    ASSUME NEW s \in TabState
    PROVE  /\ Cleared(s) \in TabState /\ Expired(s) \in TabState /\ Idled(s) \in TabState
           /\ ~HasSession(Cleared(s)) /\ ~HasSession(Expired(s)) /\ ~HasSession(Idled(s))
           /\ Cleared(s).epoch = s.epoch + 1 /\ Expired(s).epoch = s.epoch + 1
           /\ Idled(s).epoch = s.epoch + 1
  BY DEF TabState, Cleared, Expired, Idled, Ended, HasSession

LEMMA FreeRequest == Free \in RequestState /\ Free.at = "free" /\ Free.answer = None
  BY DEF Free, RequestState

LEMMA SentRequest ==
    ASSUME NEW s \in TabState, NEW cookie \in Known \cup {None}, NEW again \in BOOLEAN
    PROVE  /\ Sent(s, cookie, again) \in RequestState
           /\ Sent(s, cookie, again).at = "sent" /\ Sent(s, cookie, again).answer = None
  BY DEF TabState, RequestState, Sent, Carried

LEMMA PostedMessages ==
    ASSUME chan \in [Tabs -> Seq({"login", "logout"})], NEW t \in Tabs,
           NEW m \in {"login", "logout"}
    PROVE  Post(t, m) \in [Tabs -> Seq({"login", "logout"})]
  BY DEF Post

LEMMA KnownSessions == ASSUME TypeOK PROVE Known \subseteq Nat
  BY DEF TypeOK, Known

LEMMA RefreshStarted ==
    ASSUME TypeOK, NEW t \in Tabs
    PROVE  Refreshing(t) \in RefreshState /\ Refreshing(t) # None
                /\ (refresh[t] # None => Refreshing(t) = refresh[t])
                /\ (refresh[t] = None => Refreshing(t).answer = None)
<1>1. CASE refresh[t] # None
  BY <1>1, KnownSessions, NoneIsNothing DEF Refreshing, TypeOK
<1>2. CASE refresh[t] = None
  <2>1. Refreshing(t) = [epoch |-> tab[t].epoch, cookie |-> jar, answer |-> None]
    BY <1>2 DEF Refreshing
  <2>2. Refreshing(t) \in [epoch : Nat, cookie : Nat \cup {None}, answer : AnswerCodes \cup {None}]
    BY <2>1, KnownSessions DEF TypeOK, TabState
  <2> QED BY <1>2, <2>1, <2>2, NoneIsNothing DEF TypeOK, RefreshState, TabState
<1> QED BY <1>1, <1>2

LEMMA RenewedTab ==
    ASSUME NEW s \in TabState, NEW k
    PROVE  Renewed(s, k).epoch = s.epoch /\ Renewed(s, k).cookieSession = s.cookieSession
  BY DEF TabState, Renewed, WithToken, WithRules

\* A settled refresh leaves a well-formed tab, and a token it brings was asked for in the epoch the
\* tab is in.
LEMMA RefreshedTab ==
    ASSUME TypeOK, NEW s \in TabState, NEW r \in RefreshState, r.answer = "ok" => r.cookie # None
    PROVE  /\ Refreshed(s, r) \in TabState
           /\ \/ Refreshed(s, r).epoch > s.epoch /\ ~HasSession(Refreshed(s, r))
              \/ Refreshed(s, r) = s
              \/ /\ r.epoch = s.epoch /\ r.answer = "ok"
                 /\ Refreshed(s, r) = Renewed(s, r.cookie)
<1> DEFINE h == IF r.answer = "idle" THEN Idled(s) ELSE s
<1>0. Refreshed(s, r) = Settled(h, r)
  BY DEF Refreshed
<1>1. h \in TabState /\ (r.answer = "idle" => h.epoch = s.epoch + 1 /\ ~HasSession(h))
  BY EndedTabs
<1>2. s.epoch \in Nat /\ h.epoch \in Nat
  BY <1>1 DEF TabState
<1> HIDE DEF h
<1>3. CASE r.epoch # h.epoch
  <2>1. Settled(h, r) = h
    BY <1>3 DEF Settled
  <2> QED BY <1>0, <1>1, <1>2, <2>1 DEF h
<1>4. CASE r.epoch = h.epoch /\ r.answer \in {"401", "idle"}
  <2>1. Settled(h, r) = Expired(h)
    BY <1>4 DEF Settled
  <2>2. h.epoch >= s.epoch
    BY <1>1, <1>2 DEF h
  <2> QED BY <1>0, <1>1, <1>2, <2>1, <2>2, EndedTabs
<1>5. CASE r.epoch = h.epoch /\ r.answer = "ok"
  <2>1. Settled(h, r) = Renewed(s, r.cookie) /\ r.epoch = s.epoch
    BY <1>5 DEF Settled, h
  <2>2. r.cookie \in Known /\ owner[r.cookie] \in Persons
    BY <1>5 DEF RefreshState, TypeOK, Known
  <2>3. Renewed(s, r.cookie) \in TabState
    BY <2>2, ChangedTabs DEF Renewed
  <2> QED BY <1>0, <1>5, <2>1, <2>3
<1>6. CASE r.epoch = h.epoch /\ r.answer \notin {"401", "idle", "ok"}
  <2>1. Settled(h, r) = s
    BY <1>6 DEF Settled, h
  <2> QED BY <1>0, <2>1
<1> QED BY <1>3, <1>4, <1>5, <1>6

LEMMA ResumedRequest ==
    ASSUME NEW q \in RequestState, NEW r, NEW s \in TabState, NEW cookie \in Known \cup {None},
           NEW got \in BOOLEAN
    PROVE  /\ Resumed(q, r, s, cookie, got) \in RequestState
           /\ Resumed(q, r, s, cookie, got).at \notin {"parked", "restoring"}
           /\ \/ Resumed(q, r, s, cookie, got) = q
              \/ Resumed(q, r, s, cookie, got).answer = None
  BY FreeRequest, SentRequest DEF Resumed
-----------------------------------------------------------------------------
(* The inductive invariant. *)

\* A good answer names the session it was given for.
OkNamesSession ==
    \A t \in Tabs :
        /\ refresh[t] # None /\ refresh[t].answer = "ok" => refresh[t].cookie # None
        /\ \A r \in Requests : req[t][r].answer = "ok" => req[t][r].as # None

IInv == TypeOK /\ OkNamesSession /\ NoCredentialFromEarlierEra /\ NobodyWaitsForNothing

\* No session is forgotten, so what was well formed stays so.
LEMMA KnownGrow ==
    ASSUME owner \in Seq(Persons), \/ owner' = owner
                                   \/ \E p \in Persons : owner' = Append(owner, p)
    PROVE  /\ Known \subseteq Known' /\ TabState \subseteq TabState'
           /\ RefreshState \subseteq RefreshState' /\ RequestState \subseteq RequestState'
           /\ LoginState \subseteq LoginState' /\ LogoutState \subseteq LogoutState'
<1>1. Known \subseteq Known'
  BY DEF Known
<1> QED BY <1>1 DEF TabState, RefreshState, RequestState, LoginState, LogoutState

LEMMA InitIInv == Init => IInv
<1> SUFFICES ASSUME Init PROVE IInv
  OBVIOUS
<1>1. owner \in Seq(Persons) /\ Len(owner) <= MaxSessions /\ jar \in Known \cup {None} /\ live \subseteq Known
  <2>1. CASE owner = <<>> /\ jar = None /\ live = {}
    BY <2>1, BoundsNat
  <2>2. CASE jar = 1 /\ live = {1} /\ \E p \in Persons : owner = <<p>>
    <3>1. owner \in Seq(Persons) /\ Len(owner) = 1
      BY <2>2
    <3>2. Known = 1..1
      BY <3>1 DEF Known
    <3> QED BY <2>2, <3>1, <3>2, BoundsNat
  <2> QED BY <2>1, <2>2 DEF Init
<1>2. NewTab \in TabState /\ ~HasSession(NewTab)
  BY DEF NewTab, TabState, HasSession
<1>3. Free \in RequestState /\ Free.at = "free" /\ Free.answer # "ok"
  BY NoneIsNothing, FreeRequest DEF AnswerCodes
<1>4. TypeOK
  <2>0. hint \in BOOLEAN
    BY DEF Init
  <2>1. /\ revoked \subseteq Known /\ open \subseteq Tabs
        /\ left \in [Tabs -> BOOLEAN] /\ credEra \in [Tabs -> Nat] /\ inputs \in 0..MaxInputs[mode]
        /\ mode \in Modes
    BY BoundsNat DEF Init
  <2>2. tab \in [Tabs -> TabState] /\ req \in [Tabs -> [Requests -> RequestState]]
    BY <1>2, <1>3 DEF Init
  <2>3. /\ refresh \in [Tabs -> RefreshState \cup {None}]
        /\ login \in [Tabs -> LoginState \cup {None}]
        /\ logout \in [Tabs -> LogoutState \cup {None}]
    BY DEF Init
  <2>4. chan \in [Tabs -> Seq({"login", "logout"})]
    <3>1. <<>> \in Seq({"login", "logout"})
      OBVIOUS
    <3> QED BY <3>1 DEF Init
  <2> QED BY <1>1, <2>0, <2>1, <2>2, <2>3, <2>4 DEF TypeOK
<1>5. OkNamesSession /\ NoCredentialFromEarlierEra /\ NobodyWaitsForNothing
  BY <1>2, <1>3 DEF Init, OkNamesSession, NoCredentialFromEarlierEra, NobodyWaitsForNothing
<1> QED BY <1>4, <1>5 DEF IInv

LEMMA ServerAnswersIInv ==
    ASSUME NEW t \in Tabs, NEW r \in Requests, IInv, ServerAnswers(t, r) PROVE IInv'
<1>1. PICK a \in Answers(req[t][r].as) :
          /\ req' = [req EXCEPT ![t][r] = Answered(@, a)]
          /\ live' = IF a = "idle" THEN live \ {req[t][r].as} ELSE live
  BY DEF ServerAnswers
<1>2. a \in AnswerCodes /\ (a = "ok" => req[t][r].as # None)
  BY DEF Answers, AnswerCodes
<1>3. req[t][r] \in RequestState /\ owner \in Seq(Persons)
  BY DEF IInv, TypeOK
<1>4. Answered(req[t][r], a) \in RequestState
  BY <1>2, <1>3 DEF Answered, RequestState
<1>5. req' \in [Tabs -> [Requests -> RequestState]]
  BY <1>1, <1>4 DEF IInv, TypeOK
<1>6. TypeOK'
  BY <1>1, <1>3, <1>5, KnownGrow DEF IInv, TypeOK, ServerAnswers
<1>7. OkNamesSession'
  BY <1>1, <1>2 DEF IInv, TypeOK, OkNamesSession, ServerAnswers, Answered
<1>8. NoCredentialFromEarlierEra'
  BY DEF IInv, NoCredentialFromEarlierEra, ServerAnswers
<1>9. NobodyWaitsForNothing'
  BY <1>1 DEF IInv, TypeOK, NobodyWaitsForNothing, ServerAnswers, Answered
<1> QED BY <1>6, <1>7, <1>8, <1>9 DEF IInv

LEMMA ServerRefreshesIInv == ASSUME NEW t \in Tabs, IInv, ServerRefreshes(t) PROVE IInv'
<1>1. PICK a \in {"failed", "ok", "idle", "401"} :
          /\ refresh' = [refresh EXCEPT ![t].answer = a]
          /\ a = "ok" => refresh[t].cookie \in live
          /\ live' = IF a = "idle" THEN live \ {refresh[t].cookie} ELSE live
  BY DEF ServerRefreshes
<1>2. refresh[t] \in RefreshState /\ owner \in Seq(Persons) /\ refresh[t] # None
  BY DEF IInv, TypeOK, ServerRefreshes
<1>3. /\ refresh'[t] \in RefreshState
      /\ refresh'[t].answer = a /\ refresh'[t].cookie = refresh[t].cookie
      /\ \A u \in Tabs : u # t => refresh'[u] = refresh[u]
  BY <1>1, <1>2 DEF IInv, TypeOK, RefreshState, AnswerCodes
<1>4. refresh' \in [Tabs -> RefreshState \cup {None}]
  BY <1>1, <1>3 DEF IInv, TypeOK
<1>5. TypeOK'
  BY <1>1, <1>2, <1>4, KnownGrow DEF IInv, TypeOK, ServerRefreshes
<1>6. refresh'[t] # None
  <2>1. refresh'[t] \in [epoch : Nat, cookie : Nat \cup {None}, answer : AnswerCodes \cup {None}]
    BY <1>3, KnownSessions DEF IInv, RefreshState
  <2> QED BY <2>1, NoneIsNothing
<1>7. OkNamesSession'
  BY <1>1, <1>3, KnownSessions, NoneIsNothing
     DEF IInv, TypeOK, OkNamesSession, ServerRefreshes
<1>8. NoCredentialFromEarlierEra'
  BY DEF IInv, NoCredentialFromEarlierEra, ServerRefreshes
<1>9. NobodyWaitsForNothing'
  BY <1>3, <1>6 DEF IInv, NobodyWaitsForNothing, ServerRefreshes
<1> QED BY <1>5, <1>7, <1>8, <1>9 DEF IInv

LEMMA ServerSignsInIInv == ASSUME NEW t \in Tabs, IInv, ServerSignsIn(t) PROVE IInv'
<1>1. login[t] \in LoginState /\ owner \in Seq(Persons)
  BY DEF IInv, TypeOK, ServerSignsIn
<1>2. OkNamesSession' /\ NoCredentialFromEarlierEra' /\ NobodyWaitsForNothing'
  BY DEF IInv, OkNamesSession, NoCredentialFromEarlierEra, NobodyWaitsForNothing, ServerSignsIn
<1>3. CASE /\ Len(owner) < MaxSessions
           /\ owner' = Append(owner, login[t].person)
           /\ live' = live \cup {Len(owner) + 1}
           /\ login' = [login EXCEPT ![t].session = Len(owner) + 1]
  <2>1. login[t].person \in Persons
    BY <1>1 DEF LoginState
  <2>2. owner' \in Seq(Persons) /\ Len(owner') = Len(owner) + 1 /\ Len(owner) \in Nat
    BY <1>1, <1>3, <2>1
  <2>3. Len(owner) + 1 \in Known'
    BY <2>2 DEF Known
  <2>4. login' \in [Tabs -> LoginState' \cup {None}]
    BY <1>1, <1>3, <2>1, <2>3, KnownGrow DEF IInv, TypeOK, LoginState
  <2>5. TypeOK'
    BY <1>1, <1>3, <2>1, <2>2, <2>3, <2>4, KnownGrow, BoundsNat DEF IInv, TypeOK, ServerSignsIn
  <2> QED BY <1>2, <2>5 DEF IInv
<1>4. CASE login' = [login EXCEPT ![t].refused = TRUE] /\ UNCHANGED <<owner, live>>
  <2>1. login' \in [Tabs -> LoginState \cup {None}]
    BY <1>1, <1>4 DEF IInv, TypeOK, LoginState
  <2>2. TypeOK'
    BY <1>1, <1>4, <2>1, KnownGrow DEF IInv, TypeOK, ServerSignsIn
  <2> QED BY <1>2, <2>2 DEF IInv
<1> QED BY <1>3, <1>4 DEF ServerSignsIn

LEMMA ServerSignsOutIInv == ASSUME NEW t \in Tabs, IInv, ServerSignsOut(t) PROVE IInv'
<1>1. PICK a \in {"ok", "failed"}, reached \in BOOLEAN :
          /\ logout' = [logout EXCEPT ![t] = [at |-> "answered", cookie |-> @.cookie, ok |-> (a = "ok")]]
          /\ live' = IF reached THEN live \ {logout[t].cookie} ELSE live
  BY DEF ServerSignsOut
<1>2. logout[t] \in LogoutState /\ owner \in Seq(Persons)
  BY DEF IInv, TypeOK, ServerSignsOut
<1>3. [at |-> "answered", cookie |-> logout[t].cookie, ok |-> (a = "ok")] \in LogoutState
  BY <1>2 DEF LogoutState
<1>4. logout' \in [Tabs -> LogoutState \cup {None}]
  BY <1>1, <1>3 DEF IInv, TypeOK
<1>5. TypeOK'
  BY <1>1, <1>2, <1>4, KnownGrow DEF IInv, TypeOK, ServerSignsOut
<1>6. NobodyWaitsForNothing'
  BY <1>1 DEF IInv, TypeOK, NobodyWaitsForNothing, ServerSignsOut
<1>7. OkNamesSession' /\ NoCredentialFromEarlierEra'
  BY DEF IInv, OkNamesSession, NoCredentialFromEarlierEra, ServerSignsOut
<1> QED BY <1>5, <1>6, <1>7 DEF IInv
-----------------------------------------------------------------------------
(* Answers landing. *)

\* A session that ends leaves no credential to date.
LEMMA EndKeeps ==
    ASSUME IInv, NEW t \in Tabs, NEW s \in TabState, ~HasSession(s),
           EndSession(t, s), UNCHANGED <<owner, credEra>>
    PROVE  /\ tab' \in [Tabs -> TabState'] /\ chan' \in [Tabs -> Seq({"login", "logout"})]
           /\ hint' \in BOOLEAN
           /\ NoCredentialFromEarlierEra'
<1>1. tab' = [tab EXCEPT ![t] = s] /\ chan' = Post(t, "logout") /\ hint' = FALSE
  BY DEF EndSession
<1>2. tab \in [Tabs -> TabState] /\ owner \in Seq(Persons)
  BY DEF IInv, TypeOK
<1>3. tab' \in [Tabs -> TabState']
  BY <1>1, <1>2, KnownGrow
<1>4. chan' \in [Tabs -> Seq({"login", "logout"})]
  BY <1>1, PostedMessages DEF IInv, TypeOK
<1>5. NoCredentialFromEarlierEra'
  BY <1>1, <1>2 DEF IInv, NoCredentialFromEarlierEra
<1>6. hint' \in BOOLEAN
  BY <1>1
<1> QED BY <1>3, <1>4, <1>5, <1>6

\* A request that falls free holds no answer and waits for nothing.
LEMMA FreeKeeps ==
    ASSUME IInv, NEW t \in Tabs, NEW r \in Requests, req' = [req EXCEPT ![t][r] = Free],
           UNCHANGED <<owner, refresh, logout>>
    PROVE  /\ req' \in [Tabs -> [Requests -> RequestState']]
           /\ refresh' \in [Tabs -> RefreshState' \cup {None}]
           /\ OkNamesSession' /\ NobodyWaitsForNothing'
<1>1. owner \in Seq(Persons) /\ req \in [Tabs -> [Requests -> RequestState]]
  BY DEF IInv, TypeOK
<1>2. req' \in [Tabs -> [Requests -> RequestState']]
  BY <1>1, FreeRequest, KnownGrow
<1>3. refresh' \in [Tabs -> RefreshState' \cup {None}]
  BY <1>1, KnownGrow DEF IInv, TypeOK
<1>4. Free.answer # "ok"
  BY FreeRequest, NoneIsNothing DEF AnswerCodes
<1>5. OkNamesSession'
  BY <1>1, <1>4 DEF IInv, OkNamesSession
<1>6. NobodyWaitsForNothing'
  BY <1>1, FreeRequest DEF IInv, NobodyWaitsForNothing
<1> QED BY <1>2, <1>3, <1>5, <1>6

LEMMA ReadLandsIInv ==
    ASSUME NEW t \in Tabs, NEW r \in Requests, IInv, RequestLands(t, r), ReadLands(t, r) PROVE IInv'
<1> DEFINE p == owner[req[t][r].as]
           s == IF r = Rules THEN WithRules(tab[t], p) ELSE Identified(tab[t], p)
<1>1. /\ owner \in Seq(Persons) /\ tab[t] \in TabState /\ req[t][r] \in RequestState
      /\ tab \in [Tabs -> TabState]
  BY DEF IInv, TypeOK
<1>2. req[t][r].as \in Known
  BY <1>1 DEF IInv, OkNamesSession, ReadLands, RequestState
<1>3. p \in Persons
  BY <1>1, <1>2 DEF Known
<1>4. s \in TabState /\ (HasSession(s) <=> HasSession(tab[t])) /\ s.epoch = tab[t].epoch
  BY <1>1, <1>3, ChangedTabs DEF TabState, WithRules, Identified, HasSession
<1>5. tab' = [tab EXCEPT ![t] = s] /\ req' = [req EXCEPT ![t][r] = Free]
  BY DEF ReadLands
<1>6. UNCHANGED <<refresh, chan, hint, jar, world, login, logout, open, left, credEra, inputs, mode>>
  BY DEF ReadLands, RequestLands
<1> HIDE DEF s
<1>7. tab' \in [Tabs -> TabState']
  BY <1>1, <1>4, <1>5, <1>6, KnownGrow DEF world
<1>8. /\ req' \in [Tabs -> [Requests -> RequestState']]
      /\ refresh' \in [Tabs -> RefreshState' \cup {None}]
      /\ OkNamesSession' /\ NobodyWaitsForNothing'
  BY <1>5, <1>6, FreeKeeps DEF world
<1>9. TypeOK'
  BY <1>1, <1>6, <1>7, <1>8, KnownGrow DEF IInv, TypeOK, world
<1>10. NoCredentialFromEarlierEra'
  BY <1>1, <1>4, <1>5, <1>6 DEF IInv, NoCredentialFromEarlierEra
<1> QED BY <1>8, <1>9, <1>10 DEF IInv

LEMMA IdleRefusalLandsIInv ==
    ASSUME NEW t \in Tabs, NEW r \in Requests, IInv, RequestLands(t, r), IdleRefusalLands(t, r) PROVE IInv'
<1>1. owner \in Seq(Persons) /\ tab[t] \in TabState
  BY DEF IInv, TypeOK
<1>2. /\ EndSession(t, Idled(tab[t])) /\ req' = [req EXCEPT ![t][r] = Free]
      /\ UNCHANGED <<refresh, jar, world, login, logout, open, left, credEra, inputs, mode>>
  BY DEF IdleRefusalLands, RequestLands
<1>3. /\ tab' \in [Tabs -> TabState'] /\ chan' \in [Tabs -> Seq({"login", "logout"})]
      /\ hint' \in BOOLEAN /\ NoCredentialFromEarlierEra'
  BY <1>1, <1>2, EndedTabs, EndKeeps DEF world
<1>4. /\ req' \in [Tabs -> [Requests -> RequestState']]
      /\ refresh' \in [Tabs -> RefreshState' \cup {None}]
      /\ OkNamesSession' /\ NobodyWaitsForNothing'
  BY <1>2, FreeKeeps DEF world
<1>5. TypeOK'
  BY <1>1, <1>2, <1>3, <1>4, KnownGrow DEF IInv, TypeOK, world
<1> QED BY <1>3, <1>4, <1>5 DEF IInv

LEMMA UnauthorizedLandsIInv ==
    ASSUME NEW t \in Tabs, NEW r \in Requests, IInv, RequestLands(t, r), UnauthorizedLands(t, r)
    PROVE  IInv'
<1>1. /\ owner \in Seq(Persons) /\ tab[t] \in TabState /\ req[t][r] \in RequestState
      /\ tab \in [Tabs -> TabState] /\ refresh \in [Tabs -> RefreshState \cup {None}]
      /\ req \in [Tabs -> [Requests -> RequestState]]
  BY DEF IInv, TypeOK
<1>2. UNCHANGED <<jar, world, login, logout, open, left, credEra, inputs, mode>>
  BY DEF RequestLands
<1>3. CASE mode = "jwt"
  <2>1. /\ refresh' = [refresh EXCEPT ![t] = Refreshing(t)]
        /\ req' = [req EXCEPT ![t][r] = Parked(@)]
        /\ UNCHANGED <<tab, chan, hint>>
    BY <1>3 DEF UnauthorizedLands
  <2>2. Parked(req[t][r]) \in RequestState /\ Parked(req[t][r]).answer = "401"
    BY <1>1 DEF UnauthorizedLands, Parked, RequestState
  <2>3. Refreshing(t) \in RefreshState /\ Refreshing(t) # None
    BY RefreshStarted DEF IInv
  <2>4. TypeOK'
    BY <1>1, <1>2, <2>1, <2>2, <2>3, KnownGrow DEF IInv, TypeOK, world
  <2>5. OkNamesSession'
    BY <1>1, <2>1, <2>2, <2>3, RefreshStarted, NoneIsNothing DEF IInv, OkNamesSession, AnswerCodes
  <2>6. NobodyWaitsForNothing'
    BY <1>1, <1>2, <2>1, <2>3 DEF IInv, NobodyWaitsForNothing
  <2>7. NoCredentialFromEarlierEra'
    BY <1>2, <2>1 DEF IInv, NoCredentialFromEarlierEra
  <2> QED BY <2>4, <2>5, <2>6, <2>7 DEF IInv
<1>4. CASE mode # "jwt"
  <2>1. /\ req' = [req EXCEPT ![t][r] = Free] /\ UNCHANGED refresh
        /\ \/ EndSession(t, Expired(tab[t]))
           \/ UNCHANGED <<tab, chan, hint>>
    BY <1>4 DEF UnauthorizedLands
  <2>2. /\ req' \in [Tabs -> [Requests -> RequestState']]
        /\ refresh' \in [Tabs -> RefreshState' \cup {None}]
        /\ OkNamesSession' /\ NobodyWaitsForNothing'
    BY <1>2, <2>1, FreeKeeps DEF world
  <2>3. /\ tab' \in [Tabs -> TabState'] /\ chan' \in [Tabs -> Seq({"login", "logout"})]
        /\ hint' \in BOOLEAN /\ NoCredentialFromEarlierEra'
    <3>1. CASE EndSession(t, Expired(tab[t]))
      BY <1>1, <1>2, <3>1, EndedTabs, EndKeeps DEF world
    <3>2. CASE UNCHANGED <<tab, chan, hint>>
      BY <1>1, <1>2, <3>2, KnownGrow DEF IInv, TypeOK, NoCredentialFromEarlierEra, world
    <3> QED BY <2>1, <3>1, <3>2
  <2>4. TypeOK'
    BY <1>1, <1>2, <2>2, <2>3, KnownGrow DEF IInv, TypeOK, world
  <2> QED BY <2>2, <2>3, <2>4 DEF IInv
<1> QED BY <1>3, <1>4

LEMMA ForbiddenLandsIInv ==
    ASSUME NEW t \in Tabs, NEW r \in Requests, IInv, RequestLands(t, r), ForbiddenLands(t, r)
    PROVE  IInv'
<1>1. /\ owner \in Seq(Persons) /\ tab[t] \in TabState /\ jar \in Known \cup {None}
      /\ req \in [Tabs -> [Requests -> RequestState]]
  BY DEF IInv, TypeOK
<1>2. UNCHANGED <<tab, refresh, chan, hint, jar, world, login, logout, open, left, credEra, inputs, mode>>
  BY DEF ForbiddenLands, RequestLands
<1>3. /\ Sent(tab[t], jar, FALSE) \in RequestState /\ Sent(tab[t], jar, FALSE).answer = None
      /\ Sent(tab[t], jar, FALSE).at = "sent"
      /\ Free \in RequestState /\ Free.answer = None /\ Free.at = "free"
  BY <1>1, SentRequest, FreeRequest
<1>4. /\ req' \in [Tabs -> [Requests -> RequestState]]
      /\ \A u \in Tabs, q \in Requests :
            \/ req'[u][q] = req[u][q]
            \/ req'[u][q].answer = None /\ req'[u][q].at \in {"free", "sent"}
  BY <1>1, <1>3 DEF ForbiddenLands
<1>5. TypeOK'
  BY <1>1, <1>2, <1>4, KnownGrow DEF IInv, TypeOK, world
<1>6. OkNamesSession'
  BY <1>2, <1>4, NoneIsNothing DEF IInv, OkNamesSession, AnswerCodes
<1>7. NobodyWaitsForNothing'
  BY <1>2, <1>4 DEF IInv, NobodyWaitsForNothing
<1>8. NoCredentialFromEarlierEra'
  BY <1>2 DEF IInv, NoCredentialFromEarlierEra
<1> QED BY <1>5, <1>6, <1>7, <1>8 DEF IInv

LEMMA OtherLandsIInv ==
    ASSUME NEW t \in Tabs, NEW r \in Requests, IInv, RequestLands(t, r), OtherLands(t, r)
    PROVE  IInv'
<1>1. /\ UNCHANGED <<tab, refresh, chan, hint, jar, world, login, logout, open, left, credEra, inputs, mode>>
      /\ req' = [req EXCEPT ![t][r] = Free] /\ owner \in Seq(Persons)
  BY DEF OtherLands, RequestLands, IInv, TypeOK
<1>2. /\ req' \in [Tabs -> [Requests -> RequestState']]
      /\ OkNamesSession' /\ NobodyWaitsForNothing'
  BY <1>1, FreeKeeps DEF world
<1>3. TypeOK'
  BY <1>1, <1>2, KnownGrow DEF IInv, TypeOK, world
<1>4. NoCredentialFromEarlierEra'
  BY <1>1 DEF IInv, NoCredentialFromEarlierEra
<1> QED BY <1>2, <1>3, <1>4 DEF IInv

LEMMA RefreshLandsIInv == ASSUME NEW t \in Tabs, IInv, RefreshLands(t) PROVE IInv'
<1> DEFINE r == refresh[t]
           s == Refreshed(tab[t], r)
           cookie == IF r.answer = "ok" THEN r.cookie ELSE jar
           got == r.answer = "ok"
<1>1. /\ owner \in Seq(Persons) /\ tab \in [Tabs -> TabState] /\ tab[t] \in TabState
      /\ jar \in Known \cup {None} /\ req \in [Tabs -> [Requests -> RequestState]]
      /\ refresh \in [Tabs -> RefreshState \cup {None}]
      /\ logout \in [Tabs -> LogoutState \cup {None}]
      /\ chan \in [Tabs -> Seq({"login", "logout"})] /\ credEra \in [Tabs -> Nat]
  BY DEF IInv, TypeOK
<1>2. /\ r # None
      /\ jar' = cookie
      /\ tab' = [tab EXCEPT ![t] = s]
      /\ hint' = IF s.epoch # tab[t].epoch THEN FALSE ELSE (r.answer = "ok" \/ hint)
      /\ chan' = IF s.epoch # tab[t].epoch THEN Post(t, "logout") ELSE chan
      /\ credEra' = IF s.token # tab[t].token THEN [credEra EXCEPT ![t] = r.epoch] ELSE credEra
      /\ refresh' = [refresh EXCEPT ![t] = None]
      /\ req' = [req EXCEPT ![t] = [q \in Requests |-> Resumed(@[q], q, s, cookie, got)]]
      /\ logout' = IF logout[t] # None /\ logout[t].at = "waiting"
                   THEN [logout EXCEPT ![t] = [at |-> "sent", cookie |-> cookie, ok |-> FALSE]]
                   ELSE logout
      /\ UNCHANGED <<world, login, open, left, inputs, mode>>
  BY DEF RefreshLands
<1>3. r \in RefreshState /\ (r.answer = "ok" => r.cookie # None)
  BY <1>1, <1>2 DEF IInv, OkNamesSession
<1>4. cookie \in Known \cup {None} /\ r.epoch \in Nat /\ got \in BOOLEAN
  BY <1>1, <1>3 DEF RefreshState
<1>5. /\ s \in TabState
      /\ \/ s.epoch > tab[t].epoch /\ ~HasSession(s)
         \/ s = tab[t]
         \/ r.epoch = tab[t].epoch /\ got /\ s = Renewed(tab[t], r.cookie)
  BY <1>1, <1>3, RefreshedTab DEF IInv
<1> HIDE DEF r, s, cookie, got
<1>6. /\ tab' \in [Tabs -> TabState'] /\ jar' \in Known' \cup {None}
      /\ refresh' \in [Tabs -> RefreshState' \cup {None}]
  BY <1>1, <1>2, <1>4, <1>5, KnownGrow DEF world
<1>7. chan' \in [Tabs -> Seq({"login", "logout"})] /\ credEra' \in [Tabs -> Nat]
  BY <1>1, <1>2, <1>4, PostedMessages
<1>8. hint' \in BOOLEAN
  BY <1>2 DEF IInv, TypeOK
<1>9. \A q \in Requests :
          /\ req'[t][q] = Resumed(req[t][q], q, s, cookie, got)
          /\ req'[t][q] \in RequestState /\ req'[t][q].at \notin {"parked", "restoring"}
          /\ req'[t][q] = req[t][q] \/ req'[t][q].answer = None
  BY <1>1, <1>2, <1>4, <1>5, ResumedRequest
<1>10. req' \in [Tabs -> [Requests -> RequestState']]
  BY <1>1, <1>2, <1>9, KnownGrow DEF world
<1>11. [at |-> "sent", cookie |-> cookie, ok |-> FALSE] \in LogoutState
  BY <1>4 DEF LogoutState
<1>12. logout' \in [Tabs -> LogoutState' \cup {None}]
  BY <1>1, <1>2, <1>11, KnownGrow DEF world
<1>13. TypeOK'
  BY <1>1, <1>2, <1>6, <1>7, <1>8, <1>10, <1>12, KnownGrow DEF IInv, TypeOK, world
<1>14. OkNamesSession'
  BY <1>1, <1>2, <1>9, NoneIsNothing DEF IInv, OkNamesSession, AnswerCodes
<1>15. NobodyWaitsForNothing'
  <2>1. logout'[t] # None => logout'[t].at # "waiting"
    BY <1>1, <1>2
  <2>2. \A u \in Tabs : u # t => req'[u] = req[u] /\ refresh'[u] = refresh[u] /\ logout'[u] = logout[u]
    BY <1>1, <1>2
  <2> QED BY <1>9, <2>1, <2>2 DEF IInv, NobodyWaitsForNothing
<1>16. NoCredentialFromEarlierEra'
  <2>1. \A u \in Tabs : u # t => tab'[u] = tab[u] /\ credEra'[u] = credEra[u]
    BY <1>1, <1>2
  <2>2. tab'[t] = s /\ credEra'[t] = IF s.token # tab[t].token THEN r.epoch ELSE credEra[t]
    BY <1>1, <1>2
  <2>3. CASE s.epoch > tab[t].epoch /\ ~HasSession(s)
    BY <2>1, <2>2, <2>3 DEF IInv, NoCredentialFromEarlierEra
  <2>4. CASE s = tab[t]
    BY <2>1, <2>2, <2>4 DEF IInv, NoCredentialFromEarlierEra
  <2>5. CASE r.epoch = tab[t].epoch /\ got /\ s = Renewed(tab[t], r.cookie)
    <3>1. s.epoch = tab[t].epoch /\ s.cookieSession = tab[t].cookieSession
      BY <1>1, <2>5, RenewedTab
    <3>2. HasSession(s) => credEra'[t] = s.epoch
      BY <2>2, <2>5, <3>1 DEF IInv, NoCredentialFromEarlierEra, HasSession
    <3> QED BY <2>1, <2>2, <3>2 DEF IInv, NoCredentialFromEarlierEra
  <2> QED BY <1>5, <2>3, <2>4, <2>5
<1> QED BY <1>13, <1>14, <1>15, <1>16 DEF IInv

LEMMA LoginLandsIInv == ASSUME NEW t \in Tabs, IInv, LoginLands(t) PROVE IInv'
<1> DEFINE l == login[t]
<1>1. /\ owner \in Seq(Persons) /\ tab \in [Tabs -> TabState] /\ tab[t] \in TabState
      /\ login \in [Tabs -> LoginState \cup {None}] /\ l \in LoginState
      /\ chan \in [Tabs -> Seq({"login", "logout"})] /\ credEra \in [Tabs -> Nat]
      /\ tab[t].epoch \in Nat
  BY DEF IInv, TypeOK, LoginLands, TabState
<1>2. /\ login' = [login EXCEPT ![t] = None]
      /\ UNCHANGED <<world, refresh, req, logout, open, inputs, mode>>
  BY DEF LoginLands
<1>3. login' \in [Tabs -> LoginState' \cup {None}]
  BY <1>1, <1>2, KnownGrow DEF world
<1>4. OkNamesSession' /\ NobodyWaitsForNothing'
  BY <1>2 DEF IInv, OkNamesSession, NobodyWaitsForNothing
<1>5. CASE UNCHANGED <<jar, hint, tab, chan, left, credEra>>
  <2>1. TypeOK'
    BY <1>1, <1>2, <1>3, <1>5, KnownGrow DEF IInv, TypeOK, world
  <2> QED BY <1>4, <1>5, <2>1 DEF IInv, NoCredentialFromEarlierEra
<1>6. CASE /\ ~l.refused /\ jar' = l.session /\ hint' = TRUE /\ left' = [u \in Tabs |-> FALSE]
           /\ UNCHANGED <<tab, chan, credEra>>
  <2>1. l.session \in Known \cup {None}
    BY <1>1 DEF LoginState
  <2>2. hint' \in BOOLEAN
    BY <1>6
  <2>3. TypeOK'
    BY <1>1, <1>2, <1>3, <1>6, <2>1, <2>2, KnownGrow DEF IInv, TypeOK, world
  <2> QED BY <1>4, <1>6, <2>3 DEF IInv, NoCredentialFromEarlierEra
<1>7. CASE /\ ~l.refused /\ jar' = l.session /\ hint' = TRUE /\ left' = [u \in Tabs |-> FALSE]
           /\ tab' = [tab EXCEPT ![t] = Identified(Adopted(@, l.session), l.person)]
           /\ chan' = Post(t, "login")
           /\ credEra' = [credEra EXCEPT ![t] = tab[t].epoch]
  <2>1. l.session \in Known /\ l.person \in Persons
    BY <1>1, <1>7 DEF LoginLands, LoginState
  <2> DEFINE a == Adopted(tab[t], l.session)
             s == Identified(a, l.person)
  <2>2. a \in TabState /\ a.epoch = tab[t].epoch
    BY <1>1, <2>1, ChangedTabs DEF Adopted, WithCookie, WithToken, TabState
  <2>3. s \in TabState /\ s.epoch = tab[t].epoch
    BY <2>1, <2>2, ChangedTabs DEF Identified, WithRules, TabState
  <2>4. tab' = [tab EXCEPT ![t] = s]
    BY <1>7
  <2> HIDE DEF s
  <2>5. hint' \in BOOLEAN
    BY <1>7
  <2>6. chan' \in [Tabs -> Seq({"login", "logout"})]
    BY <1>1, <1>7, PostedMessages
  <2>7. TypeOK'
    BY <1>1, <1>2, <1>3, <1>7, <2>1, <2>3, <2>4, <2>5, <2>6, KnownGrow DEF IInv, TypeOK, world
  <2>8. NoCredentialFromEarlierEra'
    BY <1>1, <1>7, <2>3, <2>4 DEF IInv, NoCredentialFromEarlierEra
  <2> QED BY <1>4, <2>7, <2>8 DEF IInv
<1> QED BY <1>5, <1>6, <1>7 DEF LoginLands

LEMMA LogoutLandsIInv == ASSUME NEW t \in Tabs, IInv, LogoutLands(t) PROVE IInv'
<1>1. /\ owner \in Seq(Persons) /\ tab[t] \in TabState /\ logout[t] \in LogoutState
      /\ logout \in [Tabs -> LogoutState \cup {None}] /\ left \in [Tabs -> BOOLEAN]
  BY DEF IInv, TypeOK, LogoutLands
<1>2. /\ jar' = IF logout[t].ok THEN None ELSE jar
      /\ EndSession(t, Cleared(tab[t]))
      /\ revoked' = IF logout[t].cookie # None /\ logout[t].cookie \notin live
                    THEN revoked \cup {logout[t].cookie} ELSE revoked
      /\ logout' = [logout EXCEPT ![t] = None]
      /\ left' = [left EXCEPT ![t] = TRUE]
      /\ UNCHANGED <<owner, live, refresh, req, login, open, credEra, inputs, mode>>
  BY DEF LogoutLands
<1>3. /\ tab' \in [Tabs -> TabState'] /\ chan' \in [Tabs -> Seq({"login", "logout"})]
      /\ hint' \in BOOLEAN /\ NoCredentialFromEarlierEra'
  BY <1>1, <1>2, EndedTabs, EndKeeps
<1>4. revoked' \subseteq Known /\ jar' \in Known \cup {None}
  BY <1>1, <1>2 DEF IInv, TypeOK, LogoutState
<1>5. left' \in [Tabs -> BOOLEAN] /\ logout' \in [Tabs -> LogoutState \cup {None}]
  BY <1>1, <1>2
<1>6. TypeOK'
  BY <1>1, <1>2, <1>3, <1>4, <1>5, KnownGrow DEF IInv, TypeOK
<1>7. OkNamesSession'
  BY <1>2 DEF IInv, OkNamesSession
<1>8. NobodyWaitsForNothing'
  BY <1>1, <1>2 DEF IInv, NobodyWaitsForNothing
<1> QED BY <1>3, <1>6, <1>7, <1>8 DEF IInv
-----------------------------------------------------------------------------
(* Restoring a session, and what visitors do. *)

LEMMA RestoreKeeps ==
    ASSUME IInv, NEW t \in Tabs, NEW r \in Requests, Restore(t, r), UNCHANGED <<owner, logout>>
    PROVE  /\ tab' \in [Tabs -> TabState'] /\ refresh' \in [Tabs -> RefreshState' \cup {None}]
           /\ req' \in [Tabs -> [Requests -> RequestState']] /\ credEra' \in [Tabs -> Nat]
           /\ OkNamesSession' /\ NoCredentialFromEarlierEra' /\ NobodyWaitsForNothing'
<1>1. /\ owner \in Seq(Persons) /\ tab \in [Tabs -> TabState] /\ tab[t] \in TabState
      /\ refresh \in [Tabs -> RefreshState \cup {None}] /\ jar \in Known \cup {None}
      /\ req \in [Tabs -> [Requests -> RequestState]] /\ credEra \in [Tabs -> Nat]
      /\ tab[t].epoch \in Nat
  BY DEF IInv, TypeOK, TabState
<1>2. CASE mode = "jwt"
  <2>1. /\ refresh' = [refresh EXCEPT ![t] = Refreshing(t)]
        /\ req' = [req EXCEPT ![t][r] = Restoring]
        /\ UNCHANGED <<tab, credEra>>
    BY <1>2 DEF Restore
  <2>2. Refreshing(t) \in RefreshState /\ Refreshing(t) # None
    BY RefreshStarted DEF IInv
  <2>3. Restoring \in RequestState /\ Restoring.answer = None
    BY DEF Restoring, RequestState
  <2>4. /\ tab' \in [Tabs -> TabState'] /\ refresh' \in [Tabs -> RefreshState' \cup {None}]
        /\ req' \in [Tabs -> [Requests -> RequestState']] /\ credEra' \in [Tabs -> Nat]
    BY <1>1, <2>1, <2>2, <2>3, KnownGrow
  <2>5. OkNamesSession'
    BY <1>1, <2>1, <2>2, <2>3, RefreshStarted, NoneIsNothing DEF IInv, OkNamesSession, AnswerCodes
  <2>6. NobodyWaitsForNothing'
    BY <1>1, <2>1, <2>2 DEF IInv, NobodyWaitsForNothing
  <2>7. NoCredentialFromEarlierEra'
    BY <2>1 DEF IInv, NoCredentialFromEarlierEra
  <2> QED BY <2>4, <2>5, <2>6, <2>7
<1>3. CASE mode # "jwt"
  <2> DEFINE s == WithCookie(tab[t])
  <2>1. /\ tab' = [tab EXCEPT ![t] = s]
        /\ credEra' = [credEra EXCEPT ![t] = tab[t].epoch]
        /\ \/ req' = req
           \/ req' = [req EXCEPT ![t][r] = Sent(tab[t], jar, FALSE)]
        /\ UNCHANGED refresh
    BY <1>3 DEF Restore
  <2>2. s \in TabState /\ s.epoch = tab[t].epoch
    BY <1>1, ChangedTabs DEF WithCookie, TabState
  <2> HIDE DEF s
  <2>3. /\ Sent(tab[t], jar, FALSE) \in RequestState /\ Sent(tab[t], jar, FALSE).answer = None
        /\ Sent(tab[t], jar, FALSE).at = "sent"
    BY <1>1, SentRequest
  <2>4. /\ tab' \in [Tabs -> TabState'] /\ refresh' \in [Tabs -> RefreshState' \cup {None}]
        /\ credEra' \in [Tabs -> Nat]
    BY <1>1, <2>1, <2>2, KnownGrow
  <2>5. /\ req' \in [Tabs -> [Requests -> RequestState']]
        /\ \A u \in Tabs, q \in Requests :
              \/ req'[u][q] = req[u][q]
              \/ req'[u][q].answer = None /\ req'[u][q].at = "sent"
    <3>1. CASE req' = req
      BY <1>1, <3>1, KnownGrow
    <3>2. CASE req' = [req EXCEPT ![t][r] = Sent(tab[t], jar, FALSE)]
      BY <1>1, <2>3, <3>2, KnownGrow
    <3> QED BY <2>1, <3>1, <3>2
  <2>6. OkNamesSession'
    BY <2>1, <2>5, NoneIsNothing DEF IInv, OkNamesSession, AnswerCodes
  <2>7. NobodyWaitsForNothing'
    BY <2>1, <2>5 DEF IInv, NobodyWaitsForNothing
  <2>8. NoCredentialFromEarlierEra'
    BY <1>1, <2>1, <2>2 DEF IInv, NoCredentialFromEarlierEra
  <2> QED BY <2>4, <2>5, <2>6, <2>7, <2>8
<1> QED BY <1>2, <1>3

LEMMA ReadsAreRequests == Guard \in Requests /\ Rules \in Requests /\ Rereads \subseteq Requests
  BY DEF Requests, Reads

LEMMA HearIInv == ASSUME NEW t \in Tabs, IInv, Hear(t) PROVE IInv'
<1>1. /\ owner \in Seq(Persons) /\ tab \in [Tabs -> TabState] /\ tab[t] \in TabState
      /\ chan \in [Tabs -> Seq({"login", "logout"})] /\ left \in [Tabs -> BOOLEAN]
  BY DEF IInv, TypeOK
<1>2. /\ chan' = [chan EXCEPT ![t] = Tail(@)] /\ chan[t] # <<>>
      /\ UNCHANGED <<jar, world, login, logout, open, inputs, mode>>
  BY DEF Hear
<1>3. chan' \in [Tabs -> Seq({"login", "logout"})]
  BY <1>1, <1>2
<1>4. CASE tab' = [tab EXCEPT ![t] = Cleared(@)] /\ hint' = FALSE /\ UNCHANGED <<refresh, req, left, credEra>>
  <2>1. /\ Cleared(tab[t]) \in TabState /\ ~HasSession(Cleared(tab[t]))
    BY <1>1, EndedTabs
  <2>2. tab' \in [Tabs -> TabState]
    BY <1>1, <1>4, <2>1
  <2>3. hint' \in BOOLEAN
    BY <1>4
  <2>4. TypeOK'
    BY <1>1, <1>2, <1>3, <1>4, <2>2, <2>3, KnownGrow DEF IInv, TypeOK, world
  <2>5. NoCredentialFromEarlierEra'
    BY <1>1, <1>4, <2>1 DEF IInv, NoCredentialFromEarlierEra
  <2>6. OkNamesSession' /\ NobodyWaitsForNothing'
    BY <1>2, <1>4 DEF IInv, OkNamesSession, NobodyWaitsForNothing
  <2> QED BY <2>4, <2>5, <2>6 DEF IInv
<1>5. CASE (\E r \in Rereads : Restore(t, r)) /\ left' = [left EXCEPT ![t] = FALSE] /\ UNCHANGED hint
  <2>1. PICK r \in Rereads : Restore(t, r)
    BY <1>5
  <2>2. /\ tab' \in [Tabs -> TabState'] /\ refresh' \in [Tabs -> RefreshState' \cup {None}]
        /\ req' \in [Tabs -> [Requests -> RequestState']] /\ credEra' \in [Tabs -> Nat]
        /\ OkNamesSession' /\ NoCredentialFromEarlierEra' /\ NobodyWaitsForNothing'
    BY <1>2, <2>1, ReadsAreRequests, RestoreKeeps DEF world
  <2>3. left' \in [Tabs -> BOOLEAN]
    BY <1>1, <1>5
  <2>4. TypeOK'
    BY <1>1, <1>2, <1>3, <1>5, <2>2, <2>3, KnownGrow DEF IInv, TypeOK, world
  <2> QED BY <2>2, <2>4 DEF IInv
<1> QED BY <1>4, <1>5 DEF Hear

LEMMA OpenIInv == ASSUME NEW t \in Tabs, IInv, Open(t) PROVE IInv'
<1>1. /\ UNCHANGED <<jar, hint, world, login, logout, chan, left, inputs, mode>>
      /\ open' \subseteq Tabs /\ owner \in Seq(Persons)
  BY DEF Open, IInv, TypeOK
<1>2. CASE Restore(t, Guard)
  <2>1. /\ tab' \in [Tabs -> TabState'] /\ refresh' \in [Tabs -> RefreshState' \cup {None}]
        /\ req' \in [Tabs -> [Requests -> RequestState']] /\ credEra' \in [Tabs -> Nat]
        /\ OkNamesSession' /\ NoCredentialFromEarlierEra' /\ NobodyWaitsForNothing'
    BY <1>1, <1>2, ReadsAreRequests, RestoreKeeps DEF world
  <2>2. TypeOK'
    BY <1>1, <2>1, KnownGrow DEF IInv, TypeOK, world
  <2> QED BY <2>1, <2>2 DEF IInv
<1>3. CASE UNCHANGED <<tab, refresh, req, credEra>>
  <2>1. TypeOK'
    BY <1>1, <1>3, KnownGrow DEF IInv, TypeOK, world
  <2> QED BY <1>1, <1>3, <2>1
          DEF IInv, OkNamesSession, NoCredentialFromEarlierEra, NobodyWaitsForNothing
<1> QED BY <1>2, <1>3 DEF Open

LEMMA ActCounts == ASSUME NEW t, IInv, Act(t) PROVE inputs' \in 0..MaxInputs[mode] /\ UNCHANGED mode
  BY BoundsNat DEF Act, IInv, TypeOK

\* A request that leaves waits for the server and for nobody else.
LEMMA SendKeeps ==
    ASSUME IInv, NEW t \in Tabs, NEW r \in Requests,
           req' = [req EXCEPT ![t][r] = Sent(tab[t], jar, FALSE)],
           UNCHANGED <<owner, tab, refresh, logout, credEra>>
    PROVE  /\ req' \in [Tabs -> [Requests -> RequestState']]
           /\ OkNamesSession' /\ NoCredentialFromEarlierEra' /\ NobodyWaitsForNothing'
<1>1. /\ owner \in Seq(Persons) /\ tab[t] \in TabState /\ jar \in Known \cup {None}
      /\ req \in [Tabs -> [Requests -> RequestState]]
  BY DEF IInv, TypeOK
<1>2. /\ Sent(tab[t], jar, FALSE) \in RequestState /\ Sent(tab[t], jar, FALSE).answer = None
      /\ Sent(tab[t], jar, FALSE).at = "sent"
  BY <1>1, SentRequest
<1>3. req' \in [Tabs -> [Requests -> RequestState']]
  BY <1>1, <1>2, KnownGrow
<1>4. OkNamesSession'
  BY <1>1, <1>2, NoneIsNothing DEF IInv, OkNamesSession, AnswerCodes
<1>5. NobodyWaitsForNothing'
  BY <1>1, <1>2 DEF IInv, NobodyWaitsForNothing
<1>6. NoCredentialFromEarlierEra'
  BY DEF IInv, NoCredentialFromEarlierEra
<1> QED BY <1>3, <1>4, <1>5, <1>6

LEMMA NavigateIInv == ASSUME NEW t \in Tabs, IInv, Navigate(t) PROVE IInv'
<1>1. /\ UNCHANGED <<jar, hint, world, login, logout, chan, open, left>>
      /\ owner \in Seq(Persons) /\ inputs' \in 0..MaxInputs[mode] /\ UNCHANGED mode
  BY ActCounts DEF Navigate, IInv, TypeOK
<1>2. CASE Restore(t, Guard)
  <2>1. /\ tab' \in [Tabs -> TabState'] /\ refresh' \in [Tabs -> RefreshState' \cup {None}]
        /\ req' \in [Tabs -> [Requests -> RequestState']] /\ credEra' \in [Tabs -> Nat]
        /\ OkNamesSession' /\ NoCredentialFromEarlierEra' /\ NobodyWaitsForNothing'
    BY <1>1, <1>2, ReadsAreRequests, RestoreKeeps DEF world
  <2>2. TypeOK'
    BY <1>1, <2>1, KnownGrow DEF IInv, TypeOK, world
  <2> QED BY <2>1, <2>2 DEF IInv
<1>3. CASE /\ req' = [req EXCEPT ![t][Guard] = Sent(tab[t], jar, FALSE)]
           /\ UNCHANGED <<tab, refresh, credEra>>
  <2>1. /\ req' \in [Tabs -> [Requests -> RequestState']]
        /\ OkNamesSession' /\ NoCredentialFromEarlierEra' /\ NobodyWaitsForNothing'
    BY <1>1, <1>3, ReadsAreRequests, SendKeeps DEF world
  <2>2. TypeOK'
    BY <1>1, <1>3, <2>1, KnownGrow DEF IInv, TypeOK, world
  <2> QED BY <2>1, <2>2 DEF IInv
<1> QED BY <1>2, <1>3 DEF Navigate

LEMMA AskIInv == ASSUME NEW t \in Tabs, NEW r \in Pages, IInv, Ask(t, r) PROVE IInv'
<1>1. /\ UNCHANGED <<jar, hint, world, tab, refresh, login, logout, chan, open, left, credEra>>
      /\ owner \in Seq(Persons) /\ inputs' \in 0..MaxInputs[mode] /\ UNCHANGED mode
      /\ req' = [req EXCEPT ![t][r] = Sent(tab[t], jar, FALSE)]
  BY ActCounts DEF Ask, IInv, TypeOK
<1>2. /\ req' \in [Tabs -> [Requests -> RequestState']]
      /\ OkNamesSession' /\ NoCredentialFromEarlierEra' /\ NobodyWaitsForNothing'
  BY <1>1, SendKeeps DEF Requests, world
<1>3. TypeOK'
  BY <1>1, <1>2, KnownGrow DEF IInv, TypeOK, world
<1> QED BY <1>2, <1>3 DEF IInv

LEMMA SignInIInv ==
    ASSUME NEW t \in Tabs, NEW p \in Persons, NEW door \in Doors, IInv, SignIn(t, p, door)
    PROVE  IInv'
<1>1. /\ UNCHANGED <<jar, hint, world, tab, refresh, req, logout, chan, open, left, credEra>>
      /\ owner \in Seq(Persons) /\ inputs' \in 0..MaxInputs[mode] /\ UNCHANGED mode
      /\ login \in [Tabs -> LoginState \cup {None}]
      /\ login' = [login EXCEPT ![t] =
            [person |-> p, door |-> door, session |-> None, refused |-> FALSE]]
  BY ActCounts DEF SignIn, IInv, TypeOK
<1>2. login' \in [Tabs -> LoginState \cup {None}]
  BY <1>1 DEF LoginState
<1>3. TypeOK'
  BY <1>1, <1>2, KnownGrow DEF IInv, TypeOK, world
<1> QED BY <1>1, <1>3 DEF IInv, OkNamesSession, NoCredentialFromEarlierEra, NobodyWaitsForNothing

LEMMA SignOutIInv == ASSUME NEW t \in Tabs, IInv, SignOut(t) PROVE IInv'
<1> DEFINE at == IF refresh[t] = None THEN "sent" ELSE "waiting"
           l == [at |-> at, cookie |-> jar, ok |-> FALSE]
<1>1. /\ UNCHANGED <<jar, hint, world, tab, refresh, req, login, chan, open, left, credEra>>
      /\ owner \in Seq(Persons) /\ inputs' \in 0..MaxInputs[mode] /\ UNCHANGED mode /\ jar \in Known \cup {None}
      /\ logout \in [Tabs -> LogoutState \cup {None}]
      /\ logout' = [logout EXCEPT ![t] = l]
  BY ActCounts DEF SignOut, IInv, TypeOK
<1>2. l \in LogoutState /\ (l.at = "waiting" => refresh[t] # None)
  BY <1>1 DEF LogoutState
<1> HIDE DEF l
<1>3. logout' \in [Tabs -> LogoutState \cup {None}]
  BY <1>1, <1>2
<1>4. TypeOK'
  BY <1>1, <1>3, KnownGrow DEF IInv, TypeOK, world
<1>5. NobodyWaitsForNothing'
  BY <1>1, <1>2 DEF IInv, NobodyWaitsForNothing
<1> QED BY <1>1, <1>4, <1>5 DEF IInv, OkNamesSession, NoCredentialFromEarlierEra

LEMMA ClockRunsOutIInv == ASSUME NEW t \in Tabs, IInv, ClockRunsOut(t) PROVE IInv'
<1>1. /\ owner \in Seq(Persons) /\ tab[t] \in TabState /\ inputs' \in 0..MaxInputs[mode] /\ UNCHANGED mode
      /\ EndSession(t, Idled(tab[t]))
      /\ UNCHANGED <<jar, world, refresh, req, login, logout, open, left, credEra>>
  BY ActCounts DEF ClockRunsOut, IInv, TypeOK
<1>2. /\ tab' \in [Tabs -> TabState'] /\ chan' \in [Tabs -> Seq({"login", "logout"})]
      /\ hint' \in BOOLEAN /\ NoCredentialFromEarlierEra'
  BY <1>1, EndedTabs, EndKeeps DEF world
<1>3. TypeOK'
  BY <1>1, <1>2, KnownGrow DEF IInv, TypeOK, world
<1>4. OkNamesSession' /\ NobodyWaitsForNothing'
  BY <1>1 DEF IInv, OkNamesSession, NobodyWaitsForNothing
<1> QED BY <1>2, <1>3, <1>4 DEF IInv
-----------------------------------------------------------------------------
(* The theorems. *)

LEMMA SystemIInv == ASSUME NEW t \in Tabs, IInv, System(t) PROVE IInv'
<1>1. CASE \E r \in Requests : ServerAnswers(t, r)
  BY <1>1, ServerAnswersIInv
<1>2. ASSUME NEW r \in Requests, RequestLands(t, r) PROVE IInv'
  BY <1>2, ReadLandsIInv, IdleRefusalLandsIInv, UnauthorizedLandsIInv, ForbiddenLandsIInv,
     OtherLandsIInv DEF RequestLands
<1>3. CASE ServerRefreshes(t) \/ ServerSignsIn(t) \/ ServerSignsOut(t)
  BY <1>3, ServerRefreshesIInv, ServerSignsInIInv, ServerSignsOutIInv
<1>4. CASE RefreshLands(t) \/ LoginLands(t) \/ LogoutLands(t) \/ Hear(t)
  BY <1>4, RefreshLandsIInv, LoginLandsIInv, LogoutLandsIInv, HearIInv
<1> QED BY <1>1, <1>2, <1>3, <1>4 DEF System

LEMMA VisitorIInv == ASSUME NEW t \in Tabs, IInv, Visitor(t) PROVE IInv'
  BY OpenIInv, NavigateIInv, AskIInv, SignInIInv, SignOutIInv, ClockRunsOutIInv DEF Visitor

LEMMA StutterIInv == ASSUME IInv, UNCHANGED vars PROVE IInv'
  BY DEF vars, IInv, TypeOK, Known, TabState, RefreshState, RequestState, LoginState, LogoutState,
         OkNamesSession, NoCredentialFromEarlierEra, NobodyWaitsForNothing

\* The invariant is inductive: it holds at first and every step of the session keeps it.
THEOREM Inductive == Spec => []IInv
<1>1. Init => IInv
  BY InitIInv
<1>2. IInv /\ [Next]_vars => IInv'
  BY SystemIInv, VisitorIInv, StutterIInv DEF Next
<1> QED BY <1>1, <1>2, PTL DEF Spec

\* Every variable of the session keeps its type.
THEOREM TypeCorrect == Spec => []TypeOK
<1>1. IInv => TypeOK
  BY DEF IInv
<1> QED BY <1>1, Inductive, PTL

\* No refresh brings back a credential asked for before the session it renews ended
\* (session.ts:232-236, 545-548).
THEOREM NoCredentialFromEarlierEraAlways == Spec => []NoCredentialFromEarlierEra
<1>1. IInv => NoCredentialFromEarlierEra
  BY DEF IInv
<1> QED BY <1>1, Inductive, PTL

\* Nothing is parked, restoring or signing out behind a refresh that is not in flight.
THEOREM NobodyWaitsForNothingAlways == Spec => []NobodyWaitsForNothing
<1>1. IInv => NobodyWaitsForNothing
  BY DEF IInv
<1> QED BY <1>1, Inductive, PTL

-----------------------------------------------------------------------------
(* Sign-outs reach every tab. *)

\* A "logout" is on its way to the tab.
HasNews(t) == \E i \in 1..Len(chan[t]) : chan[t][i] = "logout"

\* A refresh answered before the sign-out, which would still bring its token in this era.
LateTokenHasNews ==
    \A t \in Tabs :
        refresh[t] # None /\ refresh[t].answer = "ok" /\ refresh[t].epoch = tab[t].epoch =>
            (refresh[t].cookie \in revoked => HasNews(t))

NoRefreshIsAhead == \A t \in Tabs : refresh[t] # None => refresh[t].epoch <= tab[t].epoch

\* No tab and no cookie has heard of the session k.
Unclaimed(k) ==
    /\ k \notin revoked /\ k # jar
    /\ \A u \in Tabs : /\ refresh[u] # None => refresh[u].cookie # k
                       /\ logout[u] # None => logout[u].cookie # k

\* A session just opened is the login's own until it lands.
NewSessionsUnclaimed ==
    \A t \in Tabs : login[t] # None /\ login[t].session # None =>
        /\ Unclaimed(login[t].session)
        /\ \A u \in Tabs : u # t /\ login[u] # None => login[u].session # login[t].session

\* A tab nobody opened holds nothing and waits for nothing.
Untouched(t) == /\ tab[t].token = None /\ refresh[t] = None /\ login[t] = None /\ logout[t] = None
                /\ chan[t] = <<>> /\ ~left[t]
                /\ \A r \in Requests : req[t][r].at = "free"

ClosedUntouched == \A t \in Tabs : t \notin open => Untouched(t)

RevokedIsDead == \A k \in revoked : k \notin live

DInv == /\ RevokedIsDropped /\ LateTokenHasNews /\ NoRefreshIsAhead /\ NewSessionsUnclaimed
        /\ ClosedUntouched /\ RevokedIsDead

\* A tab keeps its token with the news it has, or drops it and begins an era ...
TokenStays(u) ==
    \/ tab'[u].token = tab[u].token /\ tab'[u].epoch = tab[u].epoch /\ (HasNews(u) => HasNews(u)')
    \/ tab'[u].token = None /\ tab'[u].epoch = tab[u].epoch + 1

\* ... keeps its refresh, or sends one of the cookie there is ...
RefreshStays(u) ==
    \/ refresh'[u] = refresh[u]
    \/ /\ refresh'[u].answer = None /\ refresh'[u].cookie = jar
       /\ refresh'[u].epoch = tab[u].epoch /\ tab'[u].epoch = tab[u].epoch

\* ... and so with its sign-out; a login leaves with no session yet.
LogStays(u) ==
    /\ \/ logout'[u] = None
       \/ logout[u] # None /\ logout'[u].cookie = logout[u].cookie
       \/ logout'[u].cookie = jar
    /\ login'[u] = login[u] \/ login'[u].session = None

ClosedStays(u) == u \notin open' => Untouched(u)'

Stays == /\ UNCHANGED <<jar, revoked>> /\ live' \subseteq live
         /\ \A u \in Tabs : TokenStays(u) /\ RefreshStays(u) /\ LogStays(u) /\ ClosedStays(u)

LEMMA OkIsNotNone == "ok" # None
  BY NoneIsNothing DEF AnswerCodes

LEMMA StaysKeeps == ASSUME IInv, DInv, Stays PROVE DInv'
<1>1. /\ None \notin revoked
      /\ \A u \in Tabs : tab[u].epoch \in Nat /\ (refresh[u] # None => refresh[u].epoch \in Nat)
  <2>1. revoked \subseteq Nat
    BY KnownSessions DEF IInv, TypeOK
  <2> QED BY <2>1, NoneIsNothing DEF IInv, TypeOK, TabState, RefreshState
<1>2. RevokedIsDropped'
  <2> SUFFICES ASSUME NEW u \in Tabs, tab'[u].token \in revoked PROVE HasNews(u)'
    BY DEF RevokedIsDropped, HasNews, Stays
  <2> QED BY <1>1 DEF Stays, TokenStays, DInv, RevokedIsDropped, HasNews
<1>3. NoRefreshIsAhead'
  <2> SUFFICES ASSUME NEW u \in Tabs, refresh'[u] # None PROVE refresh'[u].epoch <= tab'[u].epoch
    BY DEF NoRefreshIsAhead
  <2>1. TokenStays(u) /\ RefreshStays(u) /\ tab[u].epoch \in Nat
    BY <1>1 DEF Stays
  <2>2. refresh[u] # None => refresh[u].epoch \in Nat /\ refresh[u].epoch <= tab[u].epoch
    BY <1>1 DEF DInv, NoRefreshIsAhead
  <2> QED BY <2>1, <2>2 DEF TokenStays, RefreshStays
<1>4. LateTokenHasNews'
  <2> SUFFICES ASSUME NEW u \in Tabs, refresh'[u] # None, refresh'[u].answer = "ok",
                      refresh'[u].epoch = tab'[u].epoch, refresh'[u].cookie \in revoked
               PROVE  HasNews(u)'
    BY DEF LateTokenHasNews, Stays
  <2>1. TokenStays(u) /\ RefreshStays(u) /\ tab[u].epoch \in Nat
    BY <1>1 DEF Stays
  <2>2. refresh'[u] = refresh[u]
    BY <2>1, OkIsNotNone DEF RefreshStays
  <2>3. refresh[u].epoch \in Nat /\ refresh[u].epoch <= tab[u].epoch
    BY <1>1, <2>2 DEF DInv, NoRefreshIsAhead
  <2>4. tab'[u].epoch # tab[u].epoch + 1
    BY <2>1, <2>2, <2>3
  <2>5. refresh[u].epoch = tab[u].epoch /\ (HasNews(u) => HasNews(u)')
    BY <2>1, <2>2, <2>4 DEF TokenStays
  <2> QED BY <2>2, <2>5 DEF DInv, LateTokenHasNews
<1>5. NewSessionsUnclaimed'
  <2> SUFFICES ASSUME NEW u \in Tabs, login'[u] # None, NEW k, k = login'[u].session, k # None
               PROVE  /\ Unclaimed(k)'
                      /\ \A v \in Tabs : v # u /\ login'[v] # None => login'[v].session # k
    BY DEF NewSessionsUnclaimed, Unclaimed
  <2>1. \A v \in Tabs : login'[v] = login[v] \/ login'[v].session = None
    BY DEF Stays, LogStays
  <2>2. login'[u] = login[u] /\ Unclaimed(k)
    BY <2>1 DEF DInv, NewSessionsUnclaimed
  <2>3. k \notin revoked' /\ k # jar'
    BY <2>2 DEF Stays, Unclaimed
  <2>4. ASSUME NEW v \in Tabs
        PROVE  /\ refresh'[v] # None => refresh'[v].cookie # k
               /\ logout'[v] # None => logout'[v].cookie # k
    BY <2>2 DEF Stays, RefreshStays, LogStays, Unclaimed
  <2>5. Unclaimed(k)'
    BY <2>3, <2>4 DEF Unclaimed
  <2>6. ASSUME NEW v \in Tabs, v # u, login'[v] # None PROVE login'[v].session # k
    BY <2>1, <2>2, <2>6 DEF DInv, NewSessionsUnclaimed
  <2> QED BY <2>5, <2>6
<1>6. ClosedUntouched' /\ RevokedIsDead'
  BY DEF Stays, ClosedStays, ClosedUntouched, RevokedIsDead, DInv
<1> QED BY <1>2, <1>3, <1>4, <1>5, <1>6 DEF DInv

\* Whatever is under way in a tab, it was opened.
LEMMA BusyIsOpen ==
    ASSUME DInv, NEW t \in Tabs,
           \/ refresh[t] # None \/ login[t] # None \/ logout[t] # None \/ chan[t] # <<>>
           \/ \E r \in Requests : req[t][r].at # "free"
    PROVE  t \in open
  BY DEF DInv, ClosedUntouched, Untouched

\* A message posted leaves the earlier ones where they are, and reaches every other open tab.
LEMMA PostedNews ==
    ASSUME TypeOK, NEW t \in Tabs, NEW m \in {"login", "logout"}, chan' = Post(t, m)
    PROVE  /\ \A u \in Tabs : HasNews(u) => HasNews(u)'
           /\ \A u \in Tabs : u \notin open \/ u = t => chan'[u] = chan[u]
           /\ m = "logout" => \A u \in open : u # t => HasNews(u)'
<1>1. \A u \in Tabs : chan[u] \in Seq({"login", "logout"})
  BY DEF TypeOK
<1>2. \A u \in Tabs : chan'[u] = IF u = t \/ u \notin open THEN chan[u] ELSE Append(chan[u], m)
  BY DEF Post
<1>3. ASSUME NEW u \in Tabs
      PROVE  /\ Len(chan[u]) \in Nat /\ Len(Append(chan[u], m)) = Len(chan[u]) + 1
             /\ \A i \in 1..Len(chan[u]) : Append(chan[u], m)[i] = chan[u][i]
             /\ Append(chan[u], m)[Len(chan[u]) + 1] = m
  BY <1>1
<1>4. ASSUME NEW u \in Tabs, HasNews(u) PROVE HasNews(u)'
  <2>1. PICK i \in 1..Len(chan[u]) : chan[u][i] = "logout"
    BY <1>4 DEF HasNews
  <2> DEFINE longer == Append(chan[u], m)
  <2>2. Len(chan[u]) \in Nat /\ Len(longer) = Len(chan[u]) + 1 /\ longer[i] = chan[u][i]
    BY <1>3, <2>1
  <2>3. chan'[u] = chan[u] \/ chan'[u] = longer
    BY <1>2
  <2> HIDE DEF longer
  <2>4. i \in 1..Len(chan'[u]) /\ chan'[u][i] = "logout"
    BY <2>1, <2>2, <2>3
  <2> QED BY <2>4 DEF HasNews
<1>5. ASSUME NEW u \in open, u # t, m = "logout" PROVE HasNews(u)'
  <2> DEFINE longer == Append(chan[u], m)
             n == Len(chan[u]) + 1
  <2>1. u \in Tabs
    BY DEF TypeOK
  <2>2. n \in Nat /\ 1 <= n /\ Len(longer) = n /\ longer[n] = "logout"
    BY <1>3, <1>5, <2>1
  <2>3. chan'[u] = longer
    BY <1>2, <1>5, <2>1
  <2> HIDE DEF longer, n
  <2>4. n \in 1..Len(chan'[u]) /\ chan'[u][n] = "logout"
    BY <2>2, <2>3
  <2> QED BY <2>4 DEF HasNews
<1> QED BY <1>2, <1>4, <1>5

\* An end of a session drops the token here and tells the others.
LEMMA EndStays ==
    ASSUME TypeOK, NEW t \in Tabs, NEW expired \in Nat, NEW idle \in Nat,
           EndSession(t, Ended(tab[t], expired, idle))
    PROVE  \A u \in Tabs : TokenStays(u) /\ (u # t => tab'[u] = tab[u]) /\ (u \notin open => chan'[u] = chan[u])
<1>1. tab' = [tab EXCEPT ![t] = Ended(tab[t], expired, idle)] /\ chan' = Post(t, "logout")
  BY DEF EndSession
<1>2. tab \in [Tabs -> TabState] /\ tab[t] \in TabState
  BY DEF TypeOK
<1>3. Ended(tab[t], expired, idle).token = None /\ Ended(tab[t], expired, idle).epoch = tab[t].epoch + 1
  BY DEF Ended
<1>4. tab'[t].token = None /\ tab'[t].epoch = tab[t].epoch + 1 /\ \A u \in Tabs : u # t => tab'[u] = tab[u]
  BY <1>1, <1>2, <1>3
<1>5. \A u \in Tabs : (HasNews(u) => HasNews(u)') /\ (u \notin open => chan'[u] = chan[u])
  BY <1>1, PostedNews
<1> QED BY <1>4, <1>5 DEF TokenStays

\* A step of the tab t: the others keep what they have under way.
Local(t) ==
    /\ t \in open' /\ open \subseteq open'
    /\ UNCHANGED <<jar, revoked>> /\ live' \subseteq live
    /\ RefreshStays(t) /\ LogStays(t)
    /\ \A u \in Tabs :
          /\ TokenStays(u)
          /\ u # t => /\ tab'[u] = tab[u] /\ refresh'[u] = refresh[u] /\ login'[u] = login[u]
                      /\ logout'[u] = logout[u] /\ req'[u] = req[u] /\ (left'[u] => left[u])
          /\ u # t /\ u \notin open => chan'[u] = chan[u]

LEMMA LocalKeeps == ASSUME IInv, DInv, NEW t \in Tabs, Local(t) PROVE DInv'
<1>1. ASSUME NEW u \in Tabs, u # t PROVE RefreshStays(u) /\ LogStays(u)
  <2>1. refresh'[u] = refresh[u] /\ login'[u] = login[u] /\ logout'[u] = logout[u]
    BY <1>1 DEF Local
  <2>2. logout[u] = None \/ logout[u] # None
    OBVIOUS
  <2> QED BY <2>1, <2>2 DEF RefreshStays, LogStays
<1>2. ASSUME NEW u \in Tabs PROVE ClosedStays(u)
  <2> SUFFICES ASSUME u \notin open' PROVE Untouched(u)'
    BY DEF ClosedStays
  <2>1. u # t /\ u \notin open /\ Untouched(u)
    BY DEF Local, DInv, ClosedUntouched
  <2>2. /\ tab'[u] = tab[u] /\ refresh'[u] = refresh[u] /\ login'[u] = login[u]
        /\ logout'[u] = logout[u] /\ req'[u] = req[u] /\ (left'[u] => left[u]) /\ chan'[u] = chan[u]
    BY <2>1 DEF Local
  <2> QED BY <2>1, <2>2 DEF Untouched
<1>3. Stays
  BY <1>1, <1>2 DEF Stays, Local
<1> QED BY <1>3, StaysKeeps

\* What a step that leaves the tokens, the eras and the channels alone keeps.
LEMMA QuietTokens ==
    ASSUME UNCHANGED chan,
           \A u \in Tabs : tab'[u].token = tab[u].token /\ tab'[u].epoch = tab[u].epoch
    PROVE  \A u \in Tabs : TokenStays(u)
  BY DEF TokenStays, HasNews

LEMMA SameRefreshStays == ASSUME NEW t, refresh'[t] = refresh[t] PROVE RefreshStays(t)
  BY DEF RefreshStays

LEMMA SameLogStays == ASSUME NEW t, login'[t] = login[t], logout'[t] = logout[t] PROVE LogStays(t)
  BY DEF LogStays

LEMMA ServerAnswersDInv ==
    ASSUME NEW t \in Tabs, NEW r \in Requests, IInv, DInv, ServerAnswers(t, r) PROVE DInv'
<1>1. PICK a \in Answers(req[t][r].as) :
          /\ req' = [req EXCEPT ![t][r] = Answered(@, a)]
          /\ live' = IF a = "idle" THEN live \ {req[t][r].as} ELSE live
  BY DEF ServerAnswers
<1>2. /\ UNCHANGED <<jar, revoked, tab, refresh, login, logout, chan, open, left>>
      /\ t \in open /\ live' \subseteq live
  BY <1>1, BusyIsOpen DEF ServerAnswers
<1>3. \A u \in Tabs : u # t => req'[u] = req[u]
  BY <1>1 DEF IInv, TypeOK
<1>4. (\A u \in Tabs : TokenStays(u)) /\ RefreshStays(t) /\ LogStays(t)
  BY <1>2, QuietTokens, SameRefreshStays, SameLogStays
<1> QED BY <1>2, <1>3, <1>4, LocalKeeps DEF Local

LEMMA ServerSignsOutDInv == ASSUME NEW t \in Tabs, IInv, DInv, ServerSignsOut(t) PROVE DInv'
<1>1. PICK a \in {"ok", "failed"}, reached \in BOOLEAN :
          /\ logout' = [logout EXCEPT ![t] = [at |-> "answered", cookie |-> @.cookie, ok |-> (a = "ok")]]
          /\ live' = IF reached THEN live \ {logout[t].cookie} ELSE live
  BY DEF ServerSignsOut
<1>2. /\ UNCHANGED <<jar, revoked, tab, refresh, req, login, chan, open, left>>
      /\ t \in open /\ live' \subseteq live /\ logout[t] # None
  BY <1>1, BusyIsOpen DEF ServerSignsOut
<1>3. logout'[t].cookie = logout[t].cookie /\ \A u \in Tabs : u # t => logout'[u] = logout[u]
  BY <1>1 DEF IInv, TypeOK
<1>4. (\A u \in Tabs : TokenStays(u)) /\ RefreshStays(t) /\ LogStays(t)
  BY <1>2, <1>3, QuietTokens, SameRefreshStays DEF LogStays
<1> QED BY <1>2, <1>3, <1>4, LocalKeeps DEF Local

\* Each way an answer lands drops a token, tells of it, or leaves the tokens alone.
LEMMA RequestLandsDInv ==
    ASSUME NEW t \in Tabs, NEW r \in Requests, IInv, DInv, RequestLands(t, r) PROVE DInv'
<1>1. /\ UNCHANGED <<jar, revoked, live, login, logout, open, left>> /\ t \in open
  BY BusyIsOpen DEF RequestLands, world
<1>2. /\ tab \in [Tabs -> TabState] /\ tab[t] \in TabState /\ TypeOK
      /\ req \in [Tabs -> [Requests -> RequestState]]
      /\ refresh \in [Tabs -> RefreshState \cup {None}]
  BY DEF IInv, TypeOK
<1>3. LogStays(t)
  BY <1>1, SameLogStays
<1>4. \A u \in Tabs : u # t => req'[u] = req[u]
  BY <1>2 DEF RequestLands, ReadLands, IdleRefusalLands, UnauthorizedLands, ForbiddenLands, OtherLands
<1> DEFINE Kept == /\ \A u \in Tabs : TokenStays(u) /\ (u # t => tab'[u] = tab[u])
                   /\ \A u \in Tabs : u # t /\ u \notin open => chan'[u] = chan[u]
<1>5. CASE ReadLands(t, r)
  <2> DEFINE p == owner[req[t][r].as]
             s == IF r = Rules THEN WithRules(tab[t], p) ELSE Identified(tab[t], p)
  <2>1. tab' = [tab EXCEPT ![t] = s] /\ UNCHANGED <<refresh, chan>>
    BY <1>5 DEF ReadLands
  <2>2. s.token = tab[t].token /\ s.epoch = tab[t].epoch
    BY <1>2 DEF TabState, WithRules, Identified
  <2> HIDE DEF s
  <2>3. \A u \in Tabs : /\ tab'[u].token = tab[u].token /\ tab'[u].epoch = tab[u].epoch
                        /\ (u # t => tab'[u] = tab[u])
    BY <1>2, <2>1, <2>2
  <2>4. Kept /\ RefreshStays(t)
    BY <2>1, <2>3, QuietTokens, SameRefreshStays
  <2> QED BY <1>1, <1>3, <1>4, <2>1, <2>4, LocalKeeps DEF Local
<1>6. CASE IdleRefusalLands(t, r)
  <2>1. EndSession(t, Idled(tab[t])) /\ UNCHANGED refresh
    BY <1>6 DEF IdleRefusalLands
  <2>2. Kept /\ RefreshStays(t)
    BY <1>2, <2>1, EndStays, SameRefreshStays DEF Idled
  <2> QED BY <1>1, <1>3, <1>4, <2>1, <2>2, LocalKeeps DEF Local
<1>7. CASE UnauthorizedLands(t, r) /\ mode = "jwt"
  <2>1. refresh' = [refresh EXCEPT ![t] = Refreshing(t)] /\ UNCHANGED <<tab, chan>>
    BY <1>7 DEF UnauthorizedLands
  <2>2. RefreshStays(t) /\ \A u \in Tabs : u # t => refresh'[u] = refresh[u]
    BY <1>2, <2>1 DEF RefreshStays, Refreshing
  <2>3. Kept
    BY <2>1, QuietTokens
  <2> QED BY <1>1, <1>3, <1>4, <2>2, <2>3, LocalKeeps DEF Local
<1>8. CASE UnauthorizedLands(t, r) /\ mode # "jwt"
  <2>1. EndSession(t, Expired(tab[t])) \/ UNCHANGED <<tab, chan>>
    BY <1>8 DEF UnauthorizedLands
  <2>2. UNCHANGED refresh /\ RefreshStays(t)
    BY <1>8, SameRefreshStays DEF UnauthorizedLands
  <2>3. Kept
    <3>1. CASE EndSession(t, Expired(tab[t]))
      BY <1>2, <3>1, EndStays DEF Expired
    <3>2. CASE UNCHANGED <<tab, chan>>
      BY <3>2, QuietTokens
    <3> QED BY <2>1, <3>1, <3>2
  <2> QED BY <1>1, <1>3, <1>4, <2>2, <2>3, LocalKeeps DEF Local
<1>9. CASE ForbiddenLands(t, r) \/ OtherLands(t, r)
  <2>1. UNCHANGED <<tab, refresh, chan>>
    BY <1>9 DEF ForbiddenLands, OtherLands
  <2>2. Kept /\ RefreshStays(t)
    BY <2>1, QuietTokens, SameRefreshStays
  <2> QED BY <1>1, <1>3, <1>4, <2>1, <2>2, LocalKeeps DEF Local
<1> QED BY <1>5, <1>6, <1>7, <1>8, <1>9 DEF RequestLands

\* A restore starts a refresh or marks the tab; it takes no token.
LEMMA RestoreStays ==
    ASSUME IInv, NEW t \in Tabs, NEW r \in Requests, Restore(t, r)
    PROVE  /\ RefreshStays(t)
           /\ \A u \in Tabs : /\ tab'[u].token = tab[u].token /\ tab'[u].epoch = tab[u].epoch
                              /\ u # t => /\ tab'[u] = tab[u] /\ refresh'[u] = refresh[u]
                                          /\ req'[u] = req[u]
<1>1. /\ tab \in [Tabs -> TabState] /\ tab[t] \in TabState
      /\ req \in [Tabs -> [Requests -> RequestState]]
      /\ refresh \in [Tabs -> RefreshState \cup {None}]
  BY DEF IInv, TypeOK
<1>2. CASE mode = "jwt"
  <2>1. /\ refresh' = [refresh EXCEPT ![t] = Refreshing(t)] /\ UNCHANGED tab
        /\ req' = [req EXCEPT ![t][r] = Restoring]
    BY <1>2 DEF Restore
  <2>2. RefreshStays(t)
    BY <1>1, <2>1 DEF RefreshStays, Refreshing
  <2> QED BY <1>1, <2>1, <2>2
<1>3. CASE mode # "jwt"
  <2> DEFINE s == WithCookie(tab[t])
  <2>1. /\ tab' = [tab EXCEPT ![t] = s] /\ UNCHANGED refresh
        /\ req' = req \/ req' = [req EXCEPT ![t][r] = Sent(tab[t], jar, FALSE)]
    BY <1>3 DEF Restore
  <2>2. s.token = tab[t].token /\ s.epoch = tab[t].epoch
    BY <1>1 DEF WithCookie, TabState
  <2> HIDE DEF s
  <2>3. RefreshStays(t)
    BY <2>1, SameRefreshStays
  <2> QED BY <1>1, <2>1, <2>2, <2>3
<1> QED BY <1>2, <1>3

LEMMA HearDInv == ASSUME NEW t \in Tabs, IInv, DInv, Hear(t) PROVE DInv'
<1>1. /\ UNCHANGED <<jar, revoked, live, login, logout, open>> /\ t \in open
      /\ chan[t] # <<>> /\ chan' = [chan EXCEPT ![t] = Tail(@)]
  BY BusyIsOpen DEF Hear, world
<1>2. /\ tab \in [Tabs -> TabState] /\ tab[t] \in TabState
      /\ chan \in [Tabs -> Seq({"login", "logout"})] /\ left \in [Tabs -> BOOLEAN]
  BY DEF IInv, TypeOK
<1>3. LogStays(t) /\ \A u \in Tabs : u # t => chan'[u] = chan[u]
  BY <1>1, <1>2, SameLogStays
<1>4. CASE Head(chan[t]) = "logout" /\ tab' = [tab EXCEPT ![t] = Cleared(@)] /\ UNCHANGED <<refresh, req, left>>
  <2>1. tab'[t].token = None /\ tab'[t].epoch = tab[t].epoch + 1
    BY <1>2, <1>4 DEF Cleared, Ended
  <2>2. \A u \in Tabs : u # t => tab'[u] = tab[u]
    BY <1>2, <1>4
  <2>3. \A u \in Tabs : TokenStays(u)
    BY <1>3, <2>1, <2>2 DEF TokenStays, HasNews
  <2> QED BY <1>1, <1>3, <1>4, <2>2, <2>3, SameRefreshStays, LocalKeeps DEF Local
<1>5. CASE /\ Head(chan[t]) = "login" /\ \E r \in Rereads : Restore(t, r)
           /\ left' = [left EXCEPT ![t] = FALSE]
  <2>1. PICK r \in Requests : Restore(t, r)
    BY <1>5, ReadsAreRequests
  <2>2. HasNews(t) => HasNews(t)'
    <3> SUFFICES ASSUME HasNews(t) PROVE HasNews(t)'
      OBVIOUS
    <3>1. PICK i \in 1..Len(chan[t]) : chan[t][i] = "logout"
      BY DEF HasNews
    <3>2. i # 1
      BY <1>1, <1>2, <1>5, <3>1
    <3> DEFINE j == i - 1
               rest == Tail(chan[t])
    <3>3. j \in 1..Len(rest) /\ rest[j] = "logout"
      BY <1>1, <1>2, <3>1, <3>2
    <3>4. chan'[t] = rest
      BY <1>1, <1>2
    <3> HIDE DEF j, rest
    <3> QED BY <3>3, <3>4 DEF HasNews
  <2>3. /\ RefreshStays(t)
        /\ \A u \in Tabs : /\ tab'[u].token = tab[u].token /\ tab'[u].epoch = tab[u].epoch
                           /\ u # t => /\ tab'[u] = tab[u] /\ refresh'[u] = refresh[u]
                                       /\ req'[u] = req[u]
    BY <2>1, RestoreStays
  <2>4. \A u \in Tabs : TokenStays(u)
    BY <1>3, <2>2, <2>3 DEF TokenStays, HasNews
  <2>5. \A u \in Tabs : left'[u] => left[u]
    BY <1>2, <1>5
  <2> QED BY <1>1, <1>3, <2>3, <2>4, <2>5, LocalKeeps DEF Local
<1> QED BY <1>4, <1>5 DEF Hear

LEMMA OpenDInv == ASSUME NEW t \in Tabs, IInv, DInv, Open(t) PROVE DInv'
<1>1. /\ UNCHANGED <<jar, revoked, live, login, logout, chan, left>> /\ open' = open \cup {t}
      /\ Restore(t, Guard) \/ UNCHANGED <<tab, refresh, req>>
  BY DEF Open, world
<1>2. /\ RefreshStays(t)
      /\ \A u \in Tabs : /\ tab'[u].token = tab[u].token /\ tab'[u].epoch = tab[u].epoch
                         /\ u # t => /\ tab'[u] = tab[u] /\ refresh'[u] = refresh[u]
                                     /\ req'[u] = req[u]
  BY <1>1, RestoreStays, ReadsAreRequests, SameRefreshStays
<1>3. \A u \in Tabs : TokenStays(u)
  BY <1>1, <1>2, QuietTokens
<1> QED BY <1>1, <1>2, <1>3, SameLogStays, LocalKeeps DEF Local

LEMMA NavigateDInv == ASSUME NEW t \in Tabs, IInv, DInv, Navigate(t) PROVE DInv'
<1>1. /\ UNCHANGED <<jar, revoked, live, login, logout, chan, open, left>> /\ t \in open
      /\ \/ Restore(t, Guard)
         \/ UNCHANGED <<tab, refresh>> /\ req' = [req EXCEPT ![t][Guard] = Sent(tab[t], jar, FALSE)]
  BY DEF Navigate, Act, world
<1>2. /\ RefreshStays(t)
      /\ \A u \in Tabs : /\ tab'[u].token = tab[u].token /\ tab'[u].epoch = tab[u].epoch
                         /\ u # t => /\ tab'[u] = tab[u] /\ refresh'[u] = refresh[u]
                                     /\ req'[u] = req[u]
  <2>1. CASE Restore(t, Guard)
    BY <2>1, RestoreStays, ReadsAreRequests
  <2>2. CASE UNCHANGED <<tab, refresh>> /\ req' = [req EXCEPT ![t][Guard] = Sent(tab[t], jar, FALSE)]
    BY <2>2, SameRefreshStays DEF IInv, TypeOK
  <2> QED BY <1>1, <2>1, <2>2
<1>3. \A u \in Tabs : TokenStays(u)
  BY <1>1, <1>2, QuietTokens
<1> QED BY <1>1, <1>2, <1>3, SameLogStays, LocalKeeps DEF Local

LEMMA AskDInv == ASSUME NEW t \in Tabs, NEW r \in Pages, IInv, DInv, Ask(t, r) PROVE DInv'
<1>1. /\ UNCHANGED <<jar, revoked, live, tab, refresh, login, logout, chan, open, left>> /\ t \in open
      /\ \A u \in Tabs : u # t => req'[u] = req[u]
  BY DEF Ask, Act, world, IInv, TypeOK
<1> QED BY <1>1, QuietTokens, SameRefreshStays, SameLogStays, LocalKeeps DEF Local

LEMMA SignInDInv ==
    ASSUME NEW t \in Tabs, NEW p \in Persons, NEW door \in Doors, IInv, DInv, SignIn(t, p, door)
    PROVE  DInv'
<1>1. /\ UNCHANGED <<jar, revoked, live, tab, refresh, req, logout, chan, open, left>> /\ t \in open
      /\ login' = [login EXCEPT ![t] =
            [person |-> p, door |-> door, session |-> None, refused |-> FALSE]]
  BY DEF SignIn, Act, world
<1>2. login'[t].session = None /\ \A u \in Tabs : u # t => login'[u] = login[u]
  BY <1>1 DEF IInv, TypeOK
<1>3. LogStays(t)
  BY <1>1, <1>2 DEF LogStays
<1> QED BY <1>1, <1>2, <1>3, QuietTokens, SameRefreshStays, LocalKeeps DEF Local

LEMMA SignOutDInv == ASSUME NEW t \in Tabs, IInv, DInv, SignOut(t) PROVE DInv'
<1>1. /\ UNCHANGED <<jar, revoked, live, tab, refresh, req, login, chan, open, left>> /\ t \in open
      /\ logout' = [logout EXCEPT ![t] =
            [at |-> IF refresh[t] = None THEN "sent" ELSE "waiting", cookie |-> jar, ok |-> FALSE]]
  BY DEF SignOut, Act, world
<1>2. logout'[t].cookie = jar /\ \A u \in Tabs : u # t => logout'[u] = logout[u]
  BY <1>1 DEF IInv, TypeOK
<1>3. LogStays(t)
  BY <1>1, <1>2 DEF LogStays
<1> QED BY <1>1, <1>2, <1>3, QuietTokens, SameRefreshStays, LocalKeeps DEF Local

LEMMA ClockRunsOutDInv == ASSUME NEW t \in Tabs, IInv, DInv, ClockRunsOut(t) PROVE DInv'
<1>1. /\ UNCHANGED <<jar, revoked, live, refresh, req, login, logout, open, left>> /\ t \in open
      /\ EndSession(t, Idled(tab[t])) /\ TypeOK
  BY DEF ClockRunsOut, Act, world, IInv
<1>2. \A u \in Tabs : TokenStays(u) /\ (u # t => tab'[u] = tab[u]) /\ (u \notin open => chan'[u] = chan[u])
  BY <1>1, EndStays DEF Idled
<1> QED BY <1>1, <1>2, SameRefreshStays, SameLogStays, LocalKeeps DEF Local

\* The renewal answered is of a session that lives, so no sign-out is known to have ended it.
LEMMA ServerRefreshesDInv == ASSUME NEW t \in Tabs, IInv, DInv, ServerRefreshes(t) PROVE DInv'
<1>1. PICK a \in {"failed", "ok", "idle", "401"} :
          /\ refresh' = [refresh EXCEPT ![t].answer = a]
          /\ a = "ok" => refresh[t].cookie \in live
          /\ live' = IF a = "idle" THEN live \ {refresh[t].cookie} ELSE live
  BY DEF ServerRefreshes
<1>2. /\ refresh[t] # None /\ refresh[t] \in RefreshState /\ t \in open
      /\ UNCHANGED <<jar, revoked, tab, req, login, logout, chan, open, left>>
  BY BusyIsOpen DEF ServerRefreshes, IInv, TypeOK
<1>3. /\ refresh'[t].answer = a /\ refresh'[t].cookie = refresh[t].cookie
      /\ refresh'[t].epoch = refresh[t].epoch
      /\ \A u \in Tabs : u # t => refresh'[u] = refresh[u]
  BY <1>1, <1>2 DEF IInv, TypeOK, RefreshState
<1>4. RevokedIsDropped'
  BY <1>2 DEF DInv, RevokedIsDropped
<1>5. NoRefreshIsAhead'
  BY <1>2, <1>3 DEF DInv, NoRefreshIsAhead
<1>6. LateTokenHasNews'
  <2> SUFFICES ASSUME NEW u \in Tabs, refresh'[u] # None, refresh'[u].answer = "ok",
                      refresh'[u].epoch = tab'[u].epoch, refresh'[u].cookie \in revoked
               PROVE  HasNews(u)'
    BY <1>2 DEF LateTokenHasNews
  <2>1. u # t
    BY <1>1, <1>3 DEF DInv, RevokedIsDead
  <2> QED BY <1>2, <1>3, <2>1 DEF DInv, LateTokenHasNews, HasNews
<1>7. NewSessionsUnclaimed'
  BY <1>2, <1>3 DEF DInv, NewSessionsUnclaimed, Unclaimed
<1>8. ClosedUntouched'
  BY <1>2, <1>3 DEF DInv, ClosedUntouched, Untouched
<1>9. RevokedIsDead'
  BY <1>1, <1>2 DEF DInv, RevokedIsDead
<1> QED BY <1>4, <1>5, <1>6, <1>7, <1>8, <1>9 DEF DInv

\* The number of a session just opened names nothing yet.
LEMMA ServerSignsInDInv == ASSUME NEW t \in Tabs, IInv, DInv, ServerSignsIn(t) PROVE DInv'
<1>1. /\ login[t] \in LoginState /\ login[t] # None /\ t \in open /\ Len(owner) \in Nat
      /\ UNCHANGED <<jar, revoked, tab, refresh, req, logout, chan, open, left>>
      /\ login \in [Tabs -> LoginState \cup {None}]
  BY BusyIsOpen DEF ServerSignsIn, IInv, TypeOK
<1>2. CASE /\ live' = live \cup {Len(owner) + 1}
           /\ login' = [login EXCEPT ![t].session = Len(owner) + 1]
  <2> DEFINE k == Len(owner) + 1
  <2>1. k \notin Known \cup {None}
    BY <1>1, NoneIsNothing DEF Known
  <2>2. /\ live' = live \cup {k} /\ login'[t].session = k
        /\ \A u \in Tabs : u # t => login'[u] = login[u]
    BY <1>1, <1>2 DEF LoginState
  <2> HIDE DEF k
  <2>3. Unclaimed(k)
    BY <2>1 DEF IInv, TypeOK, RefreshState, LogoutState, Unclaimed
  <2>4. \A u \in Tabs : login[u] # None => login[u].session # k
    BY <2>1 DEF IInv, TypeOK, LoginState
  <2>5. NewSessionsUnclaimed'
    <3> SUFFICES ASSUME NEW u \in Tabs, login'[u] # None, NEW j, j = login'[u].session, j # None
                 PROVE  /\ Unclaimed(j)'
                        /\ \A v \in Tabs : v # u /\ login'[v] # None => login'[v].session # j
      BY DEF NewSessionsUnclaimed, Unclaimed
    <3>1. Unclaimed(j)
      BY <2>2, <2>3 DEF DInv, NewSessionsUnclaimed
    <3>2. Unclaimed(j)'
      BY <1>1, <3>1 DEF Unclaimed
    <3>3. ASSUME NEW v \in Tabs, v # u, login'[v] # None PROVE login'[v].session # j
      BY <1>1, <2>2, <2>4, <3>3 DEF DInv, NewSessionsUnclaimed
    <3> QED BY <3>2, <3>3
  <2>6. RevokedIsDead'
    BY <1>1, <2>2, <2>3 DEF DInv, RevokedIsDead, Unclaimed
  <2>7. ClosedUntouched'
    BY <1>1, <2>2 DEF DInv, ClosedUntouched, Untouched
  <2>8. RevokedIsDropped' /\ LateTokenHasNews' /\ NoRefreshIsAhead'
    BY <1>1 DEF DInv, RevokedIsDropped, LateTokenHasNews, NoRefreshIsAhead, HasNews
  <2> QED BY <2>5, <2>6, <2>7, <2>8 DEF DInv
<1>3. CASE login' = [login EXCEPT ![t].refused = TRUE] /\ UNCHANGED live
  <2>1. login'[t].session = login[t].session /\ \A u \in Tabs : u # t => login'[u] = login[u]
    BY <1>1, <1>3 DEF LoginState
  <2>2. login'[t].session = None
    BY <2>1 DEF ServerSignsIn
  <2>3. LogStays(t)
    BY <1>1, <2>2 DEF LogStays
  <2> QED BY <1>1, <1>3, <2>1, <2>3, QuietTokens, SameRefreshStays, LocalKeeps DEF Local
<1> QED BY <1>2, <1>3 DEF ServerSignsIn

LEMMA NoneNotRevoked == ASSUME TypeOK PROVE None \notin revoked
<1>1. revoked \subseteq Nat
  BY KnownSessions DEF TypeOK
<1> QED BY <1>1, NoneIsNothing

\* The token a refresh brings is of a session no sign-out has ended, or the news is on its way.
LEMMA RefreshLandsDInv == ASSUME NEW t \in Tabs, IInv, DInv, RefreshLands(t) PROVE DInv'
<1> DEFINE r == refresh[t]
           s == Refreshed(tab[t], r)
           cookie == IF r.answer = "ok" THEN r.cookie ELSE jar
<1>1. /\ tab \in [Tabs -> TabState] /\ tab[t] \in TabState /\ TypeOK
      /\ req \in [Tabs -> [Requests -> RequestState]]
      /\ refresh \in [Tabs -> RefreshState \cup {None}]
      /\ logout \in [Tabs -> LogoutState \cup {None}]
  BY DEF IInv, TypeOK
<1>2. /\ r # None /\ t \in open
      /\ jar' = cookie
      /\ tab' = [tab EXCEPT ![t] = s]
      /\ chan' = IF s.epoch # tab[t].epoch THEN Post(t, "logout") ELSE chan
      /\ refresh' = [refresh EXCEPT ![t] = None]
      /\ logout' = IF logout[t] # None /\ logout[t].at = "waiting"
                   THEN [logout EXCEPT ![t] = [at |-> "sent", cookie |-> cookie, ok |-> FALSE]]
                   ELSE logout
      /\ UNCHANGED <<revoked, live, login, open, left>>
      /\ \A u \in Tabs : u # t => req'[u] = req[u]
  BY <1>1, BusyIsOpen DEF RefreshLands, world
<1>3. r \in RefreshState /\ (r.answer = "ok" => r.cookie # None)
  BY <1>1, <1>2 DEF IInv, OkNamesSession
<1>4. \/ s.epoch > tab[t].epoch /\ ~HasSession(s)
      \/ s = tab[t]
      \/ r.epoch = tab[t].epoch /\ r.answer = "ok" /\ s = Renewed(tab[t], r.cookie)
  BY <1>1, <1>3, RefreshedTab
<1>5. /\ tab'[t] = s /\ refresh'[t] = None
      /\ logout'[t] = logout[t] \/ logout'[t].cookie = cookie
      /\ \A u \in Tabs : u # t => tab'[u] = tab[u] /\ refresh'[u] = refresh[u] /\ logout'[u] = logout[u]
  BY <1>1, <1>2
<1>6. (s.token \in revoked => HasNews(t)) /\ (s.epoch # tab[t].epoch => s.token = None)
  <2>1. CASE s.epoch > tab[t].epoch /\ ~HasSession(s)
    BY <1>1, <2>1, NoneNotRevoked DEF HasSession
  <2>2. CASE s = tab[t]
    BY <2>2 DEF DInv, RevokedIsDropped, HasNews
  <2>3. CASE r.epoch = tab[t].epoch /\ r.answer = "ok" /\ s = Renewed(tab[t], r.cookie)
    <3>1. s.token = r.cookie /\ s.epoch = tab[t].epoch
      BY <1>1, <2>3 DEF Renewed, WithToken, WithRules, TabState
    <3> QED BY <1>2, <2>3, <3>1 DEF DInv, LateTokenHasNews
  <2> QED BY <1>4, <2>1, <2>2, <2>3
<1>7. /\ \A u \in Tabs : HasNews(u) => HasNews(u)'
      /\ \A u \in Tabs : u \notin open => chan'[u] = chan[u]
  <2>1. CASE chan' = Post(t, "logout")
    BY <1>1, <2>1, PostedNews
  <2>2. CASE chan' = chan
    BY <2>2 DEF HasNews
  <2> QED BY <1>2, <2>1, <2>2
<1>8. cookie = jar \/ cookie = r.cookie
  OBVIOUS
<1> HIDE DEF s, cookie
<1>9. RevokedIsDropped'
  <2> SUFFICES ASSUME NEW u \in Tabs, tab'[u].token \in revoked PROVE HasNews(u)'
    BY <1>2 DEF RevokedIsDropped, HasNews
  <2> QED BY <1>5, <1>6, <1>7 DEF DInv, RevokedIsDropped, HasNews
<1>10. LateTokenHasNews' /\ NoRefreshIsAhead'
  <2>1. ASSUME NEW u \in Tabs, refresh'[u] # None PROVE u # t /\ refresh'[u] = refresh[u] /\ tab'[u] = tab[u]
    BY <1>5, <2>1
  <2>2. NoRefreshIsAhead'
    BY <2>1 DEF DInv, NoRefreshIsAhead
  <2>3. LateTokenHasNews'
    BY <1>2, <1>7, <2>1 DEF DInv, LateTokenHasNews
  <2> QED BY <2>2, <2>3
<1>11. NewSessionsUnclaimed'
  <2> SUFFICES ASSUME NEW u \in Tabs, login[u] # None, NEW k, k = login[u].session, k # None
               PROVE  Unclaimed(k)'
    BY <1>2 DEF DInv, NewSessionsUnclaimed
  <2>1. Unclaimed(k)
    BY DEF DInv, NewSessionsUnclaimed
  <2>2. cookie # k
    BY <1>2, <1>8, <2>1 DEF Unclaimed
  <2>3. ASSUME NEW v \in Tabs
        PROVE  /\ refresh'[v] # None => refresh'[v].cookie # k
               /\ logout'[v] # None => logout'[v].cookie # k
    BY <1>5, <2>1, <2>2 DEF Unclaimed
  <2> QED BY <1>2, <2>1, <2>2, <2>3 DEF Unclaimed
<1>12. ClosedUntouched' /\ RevokedIsDead'
  BY <1>2, <1>5, <1>7 DEF DInv, ClosedUntouched, Untouched, RevokedIsDead
<1> QED BY <1>9, <1>10, <1>11, <1>12 DEF DInv

\* A login brings the session it opened, which nobody has signed out of.
LEMMA LoginLandsDInv == ASSUME NEW t \in Tabs, IInv, DInv, LoginLands(t) PROVE DInv'
<1> DEFINE k == login[t].session
<1>1. /\ tab \in [Tabs -> TabState] /\ tab[t] \in TabState /\ TypeOK /\ login[t] # None /\ t \in open
      /\ login' = [login EXCEPT ![t] = None] /\ login \in [Tabs -> LoginState \cup {None}]
      /\ UNCHANGED <<revoked, live, refresh, req, logout, open>>
  BY BusyIsOpen DEF IInv, TypeOK, LoginLands, world
<1>2. login'[t] = None /\ \A u \in Tabs : u # t => login'[u] = login[u]
  BY <1>1
<1>3. /\ jar' = jar \/ (jar' = k /\ k # None)
      /\ \A u \in Tabs : left'[u] => left[u]
      /\ \/ UNCHANGED <<tab, chan>>
         \/ /\ k # None /\ chan' = Post(t, "login")
            /\ tab' = [tab EXCEPT ![t] = Identified(Adopted(@, k), login[t].person)]
  BY DEF LoginLands
<1>4. k # None => Unclaimed(k) /\ \A u \in Tabs : u # t /\ login[u] # None => login[u].session # k
  BY <1>1 DEF DInv, NewSessionsUnclaimed
<1>5. /\ \A u \in Tabs : tab'[u].epoch = tab[u].epoch /\ (tab'[u].token = tab[u].token \/ tab'[u].token \notin revoked)
      /\ \A u \in Tabs : u # t => tab'[u] = tab[u]
  <2>1. CASE UNCHANGED <<tab, chan>>
    BY <2>1
  <2>2. CASE k # None /\ tab' = [tab EXCEPT ![t] = Identified(Adopted(@, k), login[t].person)]
    <3> DEFINE s == Identified(Adopted(tab[t], k), login[t].person)
    <3>1. s.epoch = tab[t].epoch /\ s.token \in {tab[t].token, k}
      BY <1>1 DEF TabState, Identified, Adopted, WithCookie, WithToken, WithRules
    <3>2. k \notin revoked
      BY <1>4, <2>2 DEF Unclaimed
    <3>3. tab' = [tab EXCEPT ![t] = s]
      BY <2>2
    <3> HIDE DEF s
    <3> QED BY <1>1, <3>1, <3>2, <3>3
  <2> QED BY <1>3, <2>1, <2>2
<1>6. /\ \A u \in Tabs : HasNews(u) => HasNews(u)'
      /\ \A u \in Tabs : u \notin open => chan'[u] = chan[u]
  <2>1. CASE chan' = Post(t, "login")
    BY <1>1, <2>1, PostedNews
  <2>2. CASE chan' = chan
    BY <2>2 DEF HasNews
  <2> QED BY <1>3, <2>1, <2>2
<1> HIDE DEF k
<1>7. RevokedIsDropped'
  <2> SUFFICES ASSUME NEW u \in Tabs, tab'[u].token \in revoked PROVE HasNews(u)'
    BY <1>1 DEF RevokedIsDropped, HasNews
  <2> QED BY <1>5, <1>6 DEF DInv, RevokedIsDropped, HasNews
<1>8. LateTokenHasNews' /\ NoRefreshIsAhead'
  BY <1>1, <1>5, <1>6 DEF DInv, LateTokenHasNews, NoRefreshIsAhead
<1>9. NewSessionsUnclaimed'
  <2> SUFFICES ASSUME NEW u \in Tabs, login'[u] # None, NEW j, j = login'[u].session, j # None
               PROVE  /\ Unclaimed(j)'
                      /\ \A v \in Tabs : v # u /\ login'[v] # None => login'[v].session # j
    BY DEF NewSessionsUnclaimed, Unclaimed
  <2>1. u # t /\ login'[u] = login[u]
    BY <1>2
  <2>2. Unclaimed(j)
    BY <2>1 DEF DInv, NewSessionsUnclaimed
  <2>3. j # jar'
    BY <1>3, <1>4, <2>1, <2>2 DEF Unclaimed
  <2>4. Unclaimed(j)'
    BY <1>1, <2>2, <2>3 DEF Unclaimed
  <2>5. ASSUME NEW v \in Tabs, v # u, login'[v] # None PROVE login'[v].session # j
    BY <1>2, <2>1, <2>5 DEF DInv, NewSessionsUnclaimed
  <2> QED BY <2>4, <2>5
<1>10. ClosedUntouched' /\ RevokedIsDead'
  BY <1>1, <1>2, <1>3, <1>5, <1>6 DEF DInv, ClosedUntouched, Untouched, RevokedIsDead
<1> QED BY <1>7, <1>8, <1>9, <1>10 DEF DInv

\* A sign-out drops the token here and sends the news to every tab that may hold one.
LEMMA LogoutLandsDInv == ASSUME NEW t \in Tabs, IInv, DInv, LogoutLands(t) PROVE DInv'
<1> DEFINE c == logout[t].cookie
<1>1. /\ tab \in [Tabs -> TabState] /\ tab[t] \in TabState /\ TypeOK /\ logout[t] # None /\ t \in open
      /\ logout \in [Tabs -> LogoutState \cup {None}] /\ left \in [Tabs -> BOOLEAN]
      /\ tab[t].epoch \in Nat
  BY BusyIsOpen DEF IInv, TypeOK, LogoutLands, TabState
<1>2. /\ jar' \in {None, jar}
      /\ tab' = [tab EXCEPT ![t] = Cleared(tab[t])] /\ chan' = Post(t, "logout")
      /\ revoked' = IF c # None /\ c \notin live THEN revoked \cup {c} ELSE revoked
      /\ logout' = [logout EXCEPT ![t] = None] /\ left' = [left EXCEPT ![t] = TRUE]
      /\ UNCHANGED <<live, refresh, req, login, open>>
  BY DEF LogoutLands, EndSession
<1>3. /\ tab'[t].token = None /\ tab'[t].epoch = tab[t].epoch + 1 /\ logout'[t] = None
      /\ \A u \in Tabs : u # t => tab'[u] = tab[u] /\ logout'[u] = logout[u] /\ left'[u] = left[u]
  BY <1>1, <1>2 DEF Cleared, Ended
<1>4. /\ \A u \in open : u # t => HasNews(u)'
      /\ \A u \in Tabs : u \notin open => chan'[u] = chan[u]
  BY <1>1, <1>2, PostedNews
<1>5. None \notin revoked'
  BY <1>1, <1>2, NoneNotRevoked
<1>6. RevokedIsDropped'
  <2> SUFFICES ASSUME NEW u \in Tabs, tab'[u].token \in revoked' PROVE HasNews(u)'
    BY DEF RevokedIsDropped, HasNews
  <2>1. u # t /\ u \in open
    BY <1>3, <1>5 DEF DInv, ClosedUntouched, Untouched
  <2> QED BY <1>4, <2>1
<1>7. NoRefreshIsAhead' /\ LateTokenHasNews'
  <2>1. ASSUME NEW u \in Tabs, refresh'[u] # None
        PROVE  /\ refresh'[u].epoch \in Nat /\ refresh'[u].epoch <= tab[u].epoch
               /\ u # t => HasNews(u)'
    <3>1. refresh[u] = refresh'[u] /\ u \in open
      BY <1>2, <2>1, BusyIsOpen
    <3> QED BY <1>1, <1>4, <2>1, <3>1 DEF TypeOK, RefreshState, DInv, NoRefreshIsAhead
  <2>2. NoRefreshIsAhead'
    <3> SUFFICES ASSUME NEW u \in Tabs, refresh'[u] # None PROVE refresh'[u].epoch <= tab'[u].epoch
      BY DEF NoRefreshIsAhead
    <3> QED BY <1>1, <1>3, <2>1
  <2>3. LateTokenHasNews'
    <3> SUFFICES ASSUME NEW u \in Tabs, refresh'[u] # None, refresh'[u].epoch = tab'[u].epoch
                 PROVE  HasNews(u)'
      BY DEF LateTokenHasNews, HasNews
    <3>1. u # t
      BY <1>1, <1>3, <2>1
    <3> QED BY <2>1, <3>1
  <2> QED BY <2>2, <2>3
<1>8. NewSessionsUnclaimed'
  <2> SUFFICES ASSUME NEW u \in Tabs, login[u] # None, NEW k, k = login[u].session, k # None
               PROVE  Unclaimed(k)'
    BY <1>2 DEF DInv, NewSessionsUnclaimed
  <2>1. Unclaimed(k)
    BY DEF DInv, NewSessionsUnclaimed
  <2>2. k \notin revoked' /\ k # jar'
    BY <1>1, <1>2, <2>1 DEF Unclaimed
  <2>3. ASSUME NEW v \in Tabs
        PROVE  /\ refresh'[v] # None => refresh'[v].cookie # k
               /\ logout'[v] # None => logout'[v].cookie # k
    BY <1>2, <1>3, <2>1 DEF Unclaimed
  <2> QED BY <2>2, <2>3 DEF Unclaimed
<1>9. ClosedUntouched'
  BY <1>1, <1>2, <1>3, <1>4 DEF DInv, ClosedUntouched, Untouched
<1>10. RevokedIsDead'
  BY <1>2 DEF DInv, RevokedIsDead
<1> QED BY <1>6, <1>7, <1>8, <1>9, <1>10 DEF DInv

LEMMA InitDInv == Init => DInv
<1> SUFFICES ASSUME Init PROVE DInv
  OBVIOUS
<1>1. /\ \A t \in Tabs : /\ tab[t] = NewTab /\ refresh[t] = None /\ login[t] = None /\ logout[t] = None
                         /\ chan[t] = <<>> /\ ~left[t]
                         /\ \A r \in Requests : req[t][r] = Free
      /\ revoked = {}
  BY DEF Init
<1>2. RevokedIsDropped /\ LateTokenHasNews /\ NoRefreshIsAhead /\ NewSessionsUnclaimed /\ RevokedIsDead
  BY <1>1 DEF RevokedIsDropped, LateTokenHasNews, NoRefreshIsAhead, NewSessionsUnclaimed, RevokedIsDead
<1>3. ClosedUntouched
  BY <1>1 DEF ClosedUntouched, Untouched, NewTab, Free
<1> QED BY <1>2, <1>3 DEF DInv

LEMMA NextDInv == ASSUME IInv, DInv, Next PROVE DInv'
<1>1. PICK t \in Tabs : System(t) \/ Visitor(t)
  BY DEF Next
<1>2. CASE System(t)
  BY <1>2, ServerAnswersDInv, RequestLandsDInv, ServerRefreshesDInv, ServerSignsInDInv,
     ServerSignsOutDInv, RefreshLandsDInv, LoginLandsDInv, LogoutLandsDInv, HearDInv DEF System
<1>3. CASE Visitor(t)
  BY <1>3, OpenDInv, NavigateDInv, AskDInv, SignInDInv, SignOutDInv, ClockRunsOutDInv DEF Visitor
<1> QED BY <1>1, <1>2, <1>3

LEMMA StutterDInv == ASSUME DInv, UNCHANGED vars PROVE DInv'
  BY DEF vars, DInv, RevokedIsDropped, LateTokenHasNews, HasNews, NoRefreshIsAhead,
         NewSessionsUnclaimed, Unclaimed, ClosedUntouched, Untouched, RevokedIsDead

THEOREM SignOutsReach == Spec => []DInv
<1>1. Init => DInv
  BY InitDInv
<1>2. IInv /\ DInv /\ [Next]_vars => DInv'
  BY NextDInv, StutterDInv
<1> QED BY <1>1, <1>2, Inductive, PTL DEF Spec

\* A tab that still holds the token of a session a sign-out ended has the news on its way, however
\* the refreshes, logins and broadcasts of the tabs overtake one another (session.ts:696-703).
THEOREM RevokedIsDroppedAlways == Spec => []RevokedIsDropped
<1>1. DInv => RevokedIsDropped
  BY DEF DInv
<1> QED BY <1>1, SignOutsReach, PTL
-----------------------------------------------------------------------------
(* In cookie mode a sign-out lasts. *)

\* A readable hint speaks of a sign-in since; without it nothing is restored.  Nothing is renewed.
HintMeansIn == mode = "cookie" => /\ \A t \in Tabs : refresh[t] = None
                                  /\ hint => \A t \in Tabs : ~left[t]

OInv == SignedOutStaysOut /\ HintMeansIn

\* What a step that starts no session keeps.
LEMMA NobodyEnters ==
    ASSUME OInv, mode = "cookie", UNCHANGED <<mode, refresh>>, hint' => hint,
           \A t \in Tabs : /\ left'[t] => left[t]
                           /\ HasSession(tab'[t]) => HasSession(tab[t])
    PROVE  OInv'
  BY DEF OInv, SignedOutStaysOut, HintMeansIn

LEMMA EndLeavesOut ==
    ASSUME TypeOK, NEW t \in Tabs, NEW expired, NEW idle, EndSession(t, Ended(tab[t], expired, idle))
    PROVE  /\ ~hint' /\ ~HasSession(tab'[t])
           /\ \A u \in Tabs : HasSession(tab'[u]) => HasSession(tab[u])
<1>1. ~HasSession(Ended(tab[t], expired, idle))
  BY DEF Ended, HasSession
<1>2. tab' = [tab EXCEPT ![t] = Ended(tab[t], expired, idle)] /\ ~hint'
  BY DEF EndSession
<1> QED BY <1>1, <1>2 DEF TypeOK

LEMMA LandingOInv ==
    ASSUME NEW t \in Tabs, NEW r \in Requests, IInv, OInv, mode = "cookie", RequestLands(t, r)
    PROVE  OInv'
<1>1. UNCHANGED <<left, mode>> /\ tab \in [Tabs -> TabState] /\ tab[t] \in TabState /\ TypeOK
  BY DEF RequestLands, IInv, TypeOK
<1>2. CASE ReadLands(t, r)
  <2> DEFINE p == owner[req[t][r].as]
             s == IF r = Rules THEN WithRules(tab[t], p) ELSE Identified(tab[t], p)
  <2>1. tab' = [tab EXCEPT ![t] = s] /\ UNCHANGED <<refresh, hint>>
    BY <1>2 DEF ReadLands
  <2>2. HasSession(s) <=> HasSession(tab[t])
    BY <1>1 DEF TabState, WithRules, Identified, HasSession
  <2> HIDE DEF s
  <2> QED BY <1>1, <2>1, <2>2, NobodyEnters
<1>3. CASE IdleRefusalLands(t, r)
  BY <1>1, <1>3, EndLeavesOut, NobodyEnters DEF IdleRefusalLands, Idled
<1>4. CASE UnauthorizedLands(t, r)
  <2>1. UNCHANGED refresh /\ (EndSession(t, Expired(tab[t])) \/ UNCHANGED <<tab, hint>>)
    BY <1>4 DEF UnauthorizedLands
  <2> QED BY <1>1, <2>1, EndLeavesOut, NobodyEnters DEF Expired
<1>5. CASE ForbiddenLands(t, r) \/ OtherLands(t, r)
  <2>1. UNCHANGED <<tab, refresh, hint>>
    BY <1>5 DEF ForbiddenLands, OtherLands
  <2> QED BY <1>1, <2>1, NobodyEnters
<1> QED BY <1>2, <1>3, <1>4, <1>5 DEF RequestLands

\* Only a tab that has heard of a sign-in, or reads the hint of one, restores a session.
LEMMA RestoreOInv ==
    ASSUME NEW t \in Tabs, NEW r \in Requests, IInv, OInv, mode = "cookie", Restore(t, r),
           UNCHANGED <<mode, hint>>, ~left'[t], \A u \in Tabs : left'[u] => left[u]
    PROVE  OInv'
<1>1. tab' = [tab EXCEPT ![t] = WithCookie(@)] /\ UNCHANGED refresh /\ tab \in [Tabs -> TabState]
  BY DEF Restore, IInv, TypeOK
<1>2. \A u \in Tabs : u # t => tab'[u] = tab[u]
  BY <1>1
<1> QED BY <1>1, <1>2 DEF OInv, SignedOutStaysOut, HintMeansIn

LEMMA SystemOInv == ASSUME NEW t \in Tabs, IInv, OInv, mode = "cookie", System(t) PROVE OInv'
<1>1. tab \in [Tabs -> TabState] /\ tab[t] \in TabState /\ TypeOK /\ left \in [Tabs -> BOOLEAN]
  BY DEF IInv, TypeOK
<1>2. refresh[t] = None
  BY DEF OInv, HintMeansIn
<1>3. CASE \/ \E r \in Requests : ServerAnswers(t, r)
           \/ ServerSignsIn(t) \/ ServerSignsOut(t)
  <2>1. UNCHANGED <<mode, refresh, hint, left, tab>>
    BY <1>3 DEF ServerAnswers, ServerSignsIn, ServerSignsOut
  <2> QED BY <2>1, NobodyEnters
<1>4. CASE ServerRefreshes(t) \/ RefreshLands(t)
  BY <1>2, <1>4 DEF ServerRefreshes, RefreshLands
<1>5. CASE LoginLands(t)
  <2>1. UNCHANGED <<mode, refresh>>
        /\ \/ UNCHANGED <<hint, tab, left>>
           \/ left' = [u \in Tabs |-> FALSE]
    BY <1>5 DEF LoginLands
  <2> QED BY <2>1, NobodyEnters DEF OInv, SignedOutStaysOut, HintMeansIn
<1>6. CASE LogoutLands(t)
  <2>1. UNCHANGED <<mode, refresh>> /\ EndSession(t, Cleared(tab[t])) /\ left' = [left EXCEPT ![t] = TRUE]
    BY <1>6 DEF LogoutLands
  <2>2. /\ ~hint' /\ ~HasSession(tab'[t])
        /\ \A u \in Tabs : HasSession(tab'[u]) => HasSession(tab[u])
    BY <1>1, <2>1, EndLeavesOut DEF Cleared
  <2>3. \A u \in Tabs : u # t => left'[u] = left[u]
    BY <1>1, <2>1
  <2> QED BY <2>1, <2>2, <2>3 DEF OInv, SignedOutStaysOut, HintMeansIn
<1>7. CASE Hear(t)
  <2>1. UNCHANGED mode
    BY <1>7 DEF Hear
  <2>2. CASE tab' = [tab EXCEPT ![t] = Cleared(@)] /\ hint' = FALSE /\ UNCHANGED <<refresh, left>>
    <3>1. ~HasSession(Cleared(tab[t]))
      BY DEF Cleared, Ended, HasSession
    <3>2. \A u \in Tabs : HasSession(tab'[u]) => HasSession(tab[u])
      BY <1>1, <2>2, <3>1
    <3> QED BY <2>1, <2>2, <3>2, NobodyEnters
  <2>3. CASE (\E r \in Rereads : Restore(t, r)) /\ left' = [left EXCEPT ![t] = FALSE] /\ UNCHANGED hint
    <3>1. PICK r \in Requests : Restore(t, r)
      BY <2>3, ReadsAreRequests
    <3>2. ~left'[t] /\ \A u \in Tabs : left'[u] => left[u]
      BY <1>1, <2>3
    <3> QED BY <2>1, <2>3, <3>1, <3>2, RestoreOInv
  <2> QED BY <1>7, <2>2, <2>3 DEF Hear
<1> QED BY <1>3, <1>4, <1>5, <1>6, <1>7, LandingOInv DEF System

LEMMA VisitorOInv == ASSUME NEW t \in Tabs, IInv, DInv, OInv, mode = "cookie", Visitor(t) PROVE OInv'
<1>1. TypeOK
  BY DEF IInv
<1>2. CASE Open(t)
  <2>1. UNCHANGED <<mode, hint, left>> /\ (Restore(t, Guard) \/ UNCHANGED <<tab, refresh>>)
    BY <1>2 DEF Open
  <2>2. ~left[t]
    BY <1>2 DEF Open, DInv, ClosedUntouched, Untouched
  <2> QED BY <2>1, <2>2, ReadsAreRequests, RestoreOInv, NobodyEnters
<1>3. CASE Navigate(t)
  <2>1. /\ UNCHANGED <<mode, hint, left>>
        /\ (hint /\ Restore(t, Guard)) \/ UNCHANGED <<tab, refresh>>
    BY <1>3 DEF Navigate, Act
  <2>2. hint => ~left[t]
    BY DEF OInv, HintMeansIn
  <2> QED BY <2>1, <2>2, ReadsAreRequests, RestoreOInv, NobodyEnters
<1>4. CASE \/ \E r \in Pages : Ask(t, r)
           \/ \E p \in Persons, door \in Doors : SignIn(t, p, door)
           \/ SignOut(t)
  <2>1. UNCHANGED <<mode, refresh, hint, left, tab>>
    BY <1>4 DEF Ask, SignIn, SignOut, Act
  <2> QED BY <2>1, NobodyEnters
<1>5. CASE ClockRunsOut(t)
  <2>1. UNCHANGED <<mode, refresh, left>> /\ EndSession(t, Idled(tab[t]))
    BY <1>5 DEF ClockRunsOut, Act
  <2> QED BY <1>1, <2>1, EndLeavesOut, NobodyEnters DEF Idled
<1> QED BY <1>2, <1>3, <1>4, <1>5 DEF Visitor

LEMMA ModeStays == ASSUME Next PROVE UNCHANGED mode
  BY DEF Next, System, Visitor, ServerAnswers, RequestLands, ServerRefreshes, ServerSignsIn,
         ServerSignsOut, RefreshLands, LoginLands, LogoutLands, Hear, Open, Navigate, Ask, SignIn,
         SignOut, ClockRunsOut, Act

\* In cookie mode no restore, no broadcast and no answer still on its way signs a visitor in again
\* who signed out, until somebody signs in (session.ts:236, 738-740).
THEOREM SignedOutStaysOutAlways == Spec => []SignedOutStaysOut
<1>1. Init => OInv
  <2> SUFFICES ASSUME Init PROVE \A t \in Tabs : refresh[t] = None /\ ~left[t]
    BY DEF OInv, SignedOutStaysOut, HintMeansIn
  <2> QED BY DEF Init
<1>2. IInv /\ DInv /\ OInv /\ [Next]_vars => OInv'
  <2> SUFFICES ASSUME IInv, DInv, OInv, [Next]_vars PROVE OInv'
    OBVIOUS
  <2>1. CASE UNCHANGED vars
    BY <2>1 DEF vars, OInv, SignedOutStaysOut, HintMeansIn
  <2>2. CASE Next /\ mode = "cookie"
    BY <2>2, SystemOInv, VisitorOInv DEF Next
  <2>3. CASE Next /\ mode # "cookie"
    BY <2>3, ModeStays DEF OInv, SignedOutStaysOut, HintMeansIn
  <2> QED BY <2>1, <2>2, <2>3
<1>3. OInv => SignedOutStaysOut
  BY DEF OInv
<1> QED BY <1>1, <1>2, <1>3, Inductive, SignOutsReach, PTL DEF Spec

-----------------------------------------------------------------------------
(* The product edit form: what a call of it carries, and what its screen shows *)

\* What went on that the tag cannot see, and what the form's route cannot, has not.
TagKept == tangled \cap {"crossed", "untagged", "reverted", "switched"} = {}
RouteKept == tangled \cap {"misdelivered", "unread", "alike", "switched"} = {}

\* A save on its way, from the questions to the read that follows it.
Saving == {"preview", "patch", "reread"}

\* A call about a product, and what it brings: the row it was answered with; a save under the
\* version the form accounted for, of what it was routed to.
CallFits(c) ==
    /\ c \in Call /\ c.mount \in 0 .. mount
    /\ c.kind \in {"read", "preview", "patch", "reread"} => c.mount >= 1
    /\ c.kind \in {"look", "act"} => c.mount = 0
    /\ c.status = "done" => c.answer.id = c.id /\ c.answer.at >= 1
    /\ c.kind \in {"preview", "patch"} =>
           c.body.id \in Products /\ c.body.at >= 1 /\ c.body.text \in Texts
    /\ c.kind = "preview" => c.status = "sent"
    /\ TagKept /\ c.kind = "preview" => tags[c.body.id] = c.body.at
    /\ TagKept /\ c.kind = "patch" /\ c.status = "sent" /\ c.body.id = c.id => c.ifMatch = c.body.at
    /\ RouteKept /\ c.kind = "preview" => c.body.id = id[c.mount]
    /\ RouteKept /\ c.kind = "patch" => c.body.id = c.id

CallsFit == \A c \in wire : CallFits(c)

\* A form has one save under way, and reads nothing meanwhile.
Alone == "switched" \notin tangled =>
             \A c, d \in wire : c.kind \in Saving /\ d.mount = c.mount => d = c

\* The form was filled from what was read last; the tag is the version of the row it accounts for.
ScreenFits ==
    /\ editing => mount >= 1
    /\ form.id # NoProduct => form.at >= 1
    /\ record.id # NoProduct => record.at >= 1
    /\ editing /\ "switched" \notin tangled => record.text = held
    /\ TagKept /\ editing /\ form.id # NoProduct => tags[form.id] = form.at

\* The form shows the product it is routed to, or is about to read it.
Routed == RouteKept /\ editing =>
              \/ form.id \in {NoProduct, id[mount]}
              \/ \E c \in wire : c.kind = "read" /\ c.mount = mount /\ c.id = id[mount]

RowsFit == (\A p \in Products : row[p].at >= 1) /\ \A m \in 1 .. mount : id[m] \in Products

Sound == /\ TagKept => overwritten = {}
         /\ RouteKept => misfiled = {}

FormInv == /\ FormTypeOK /\ CallsFit /\ Alone /\ ScreenFits /\ Routed /\ RowsFit /\ Sound

-----------------------------------------------------------------------------
(* Calls that go about, with the form as it was *)

\* A call is what it was while the forms and their routes are, and the tag stands under it.
LEMMA StillFits ==
    ASSUME NEW d, CallFits(d), UNCHANGED <<mount, id>>, tangled \subseteq tangled',
           TagKept' /\ d.kind = "preview" => tags'[d.body.id] = d.body.at
    PROVE  CallFits(d)'
<1>1. (TagKept' => TagKept) /\ (RouteKept' => RouteKept)
  BY DEF TagKept, RouteKept
<1> QED BY <1>1 DEF CallFits

\* A call in the place of another of its form, a save's only of a save's.
LEMMA StillAlone ==
    ASSUME Alone, NEW c \in wire, NEW m, wire' = (wire \ {c}) \cup {m}, m.mount = c.mount,
           m.kind \in Saving => c.kind \in Saving, tangled \subseteq tangled'
    PROVE  Alone'
  BY DEF Alone

\* A call leaves, or changes, and the screen, the tags and the route do not.
LEMMA CallsMove ==
    ASSUME FormInv, FormTypeOK', UNCHANGED <<editing, mount, id, record, held, form, tags, tangled>>,
           \A p \in Products : row'[p].at >= 1,
           NEW m, wire' \subseteq wire \cup {m}, m \in wire' => CallFits(m)', Alone', Sound',
           \A d \in wire : d.kind = "read" =>
               \E e \in wire' : e.kind = "read" /\ e.mount = d.mount /\ e.id = d.id
    PROVE  FormInv'
<1>1. (TagKept' <=> TagKept) /\ (RouteKept' <=> RouteKept)
  BY DEF TagKept, RouteKept
<1>2. CallsFit'
  <2> SUFFICES ASSUME NEW d \in wire' PROVE CallFits(d)'
    BY DEF CallsFit
  <2>1. CASE d = m
    BY <2>1
  <2>2. CASE d # m
    <3>1. CallFits(d)
      BY <2>2 DEF FormInv, CallsFit
    <3>2. TagKept' /\ d.kind = "preview" => tags'[d.body.id] = d.body.at
      BY <1>1, <3>1 DEF CallFits
    <3> QED BY <3>1, <3>2, StillFits
  <2> QED BY <2>1, <2>2
<1>3. RowsFit' /\ ScreenFits'
  BY <1>1 DEF FormInv, RowsFit, ScreenFits
<1>4. Routed'
  <2> SUFFICES ASSUME RouteKept, editing, form.id \notin {NoProduct, id[mount]}
               PROVE  \E e \in wire' : e.kind = "read" /\ e.mount = mount /\ e.id = id[mount]
    BY <1>1 DEF Routed
  <2> PICK d \in wire : d.kind = "read" /\ d.mount = mount /\ d.id = id[mount]
    BY DEF FormInv, Routed
  <2> QED OBVIOUS
<1> QED BY <1>2, <1>3, <1>4 DEF FormInv

\* A row moves by one version, and says what it is made to say.
LEMMA RowMoves ==
    ASSUME FormInv, NEW p \in Products, NEW text \in Texts, Moves(p, text)
    PROVE  row' \in [Products -> Row] /\ \A q \in Products : row'[q].at >= 1
<1>1. row \in [Products -> Row] /\ \A q \in Products : row[q].at \in Nat /\ row[q].at >= 1
  BY DEF FormInv, FormTypeOK, RowsFit, Row
<1>2. PICK r : r = [at |-> row[p].at + 1, text |-> text]
  OBVIOUS
<1>3. r \in Row /\ r.at >= 1
  BY <1>1, <1>2 DEF Row
<1>4. row' = [row EXCEPT ![p] = r]
  BY <1>1, <1>2 DEF Moves
<1> QED BY <1>1, <1>3, <1>4

\* What is answered: the call in its place tells the row as it is then.
LEMMA AnsweredFits ==
    ASSUME FormInv, NEW c \in wire, c.kind # "preview",
           NEW status \in {"done", "stale"}, NEW answer \in Copy,
           status = "done" => answer.id = c.id /\ answer.at >= 1,
           NEW m, m = [c EXCEPT !.status = status, !.answer = answer],
           UNCHANGED <<mount, id, tags, tangled>>
    PROVE  CallFits(m)' /\ m.mount = c.mount /\ m.kind = c.kind /\ m.id = c.id
<1>1. c \in Call /\ CallFits(c)
  BY DEF FormInv, FormTypeOK, CallsFit
<1>2. /\ m \in Call /\ m.status = status /\ m.answer = answer /\ m.kind = c.kind /\ m.id = c.id
      /\ m.mount = c.mount /\ m.body = c.body
  BY <1>1 DEF Call, Statuses
<1>3. (TagKept' <=> TagKept) /\ (RouteKept' <=> RouteKept)
  BY DEF TagKept, RouteKept
<1>4. status = "sent" => FALSE
  OBVIOUS
<1> QED BY <1>1, <1>2, <1>3, <1>4 DEF CallFits

\* The server answers: nothing moves on the page.
LEMMA AnsweredKeeps ==
    ASSUME FormInv, NEW c \in wire, NEW status \in {"done", "stale"}, Answer(c, status),
           c.kind # "preview",
           row' \in [Products -> Row], \A p \in Products : row'[p].at >= 1,
           UNCHANGED <<page, shown, tags, budget, tangled>>, Sound',
           overwritten' \subseteq Products, misfiled' \subseteq Products
    PROVE  FormInv'
<1>1. PICK answer : answer = IF status = "done"
                             THEN [id |-> c.id, at |-> row'[c.id].at, text |-> row'[c.id].text]
                             ELSE NoCopy
  OBVIOUS
<1>2. PICK m : m = [c EXCEPT !.status = status, !.answer = answer]
  OBVIOUS
<1>3. /\ wire' = (wire \ {c}) \cup {m}
      /\ UNCHANGED <<editing, mount, id, record, held, form, stale, tags, visits, presses, changes, tangled>>
  BY <1>1, <1>2 DEF Answer, page, shown, budget
<1>4. answer \in Copy /\ (status = "done" => answer.id = c.id /\ answer.at >= 1)
  <2>1. c.id \in Products /\ row'[c.id] \in Row
    BY DEF FormInv, FormTypeOK, Call
  <2> QED BY <1>1, <2>1 DEF Copy, NoCopy, Row
<1>5. CallFits(m)' /\ m.mount = c.mount /\ m.kind = c.kind /\ m.id = c.id
  BY <1>2, <1>3, <1>4, AnsweredFits, ZenonT(60)
<1>6. FormTypeOK'
  <2>1. m \in Call /\ m.mount \in 0 .. mount
    BY <1>3, <1>5 DEF CallFits
  <2> QED BY <1>3, <2>1 DEF FormInv, FormTypeOK
<1>7. Alone'
  BY <1>3, <1>5, StillAlone DEF FormInv
<1>8. \A d \in wire : d.kind = "read" =>
          \E e \in wire' : e.kind = "read" /\ e.mount = d.mount /\ e.id = d.id
  BY <1>3, <1>5
<1> QED BY <1>3, <1>5, <1>6, <1>7, <1>8, CallsMove

LEMMA ServerKeeps ==
    ASSUME FormInv, NEW c \in wire,
           AnswersRead(c) \/ Acts(c) \/ Saves(c) \/ Rejects(c)
    PROVE  FormInv'
<1>1. /\ c \in Call /\ c.id \in Products /\ CallFits(c) /\ row \in [Products -> Row]
      /\ overwritten \subseteq Products /\ misfiled \subseteq Products /\ Sound
      /\ UNCHANGED <<page, shown, tags, budget, tangled>>
  BY DEF FormInv, FormTypeOK, CallsFit, Call, AnswersRead, Acts, Saves, Rejects
<1>2. (TagKept' <=> TagKept) /\ (RouteKept' <=> RouteKept)
  BY <1>1 DEF TagKept, RouteKept
<1>3. ASSUME UNCHANGED past PROVE Sound' /\ overwritten' \subseteq Products /\ misfiled' \subseteq Products
  BY <1>1, <1>2, <1>3 DEF Sound, past
<1>4. ASSUME NEW status \in {"done", "stale"}, Answer(c, status), UNCHANGED row, UNCHANGED past,
             c.kind # "preview"
      PROVE  FormInv'
  <2>1. row' \in [Products -> Row] /\ \A q \in Products : row'[q].at >= 1
    BY <1>1, <1>4 DEF FormInv, RowsFit
  <2> QED BY <1>1, <1>3, <1>4, <2>1, AnsweredKeeps
<1>5. CASE AnswersRead(c)
  <2>1. Answer(c, "done") /\ UNCHANGED row /\ UNCHANGED past /\ c.kind # "preview"
    BY <1>5 DEF AnswersRead
  <2> QED BY <1>4, <2>1
<1>6. CASE Acts(c)
  <2>1. /\ Answer(c, "done") /\ Moves(c.id, row[c.id].text) /\ UNCHANGED past /\ c.kind # "preview"
        /\ row[c.id].text \in Texts
    BY <1>1, <1>6 DEF Acts, Row
  <2>2. row' \in [Products -> Row] /\ \A q \in Products : row'[q].at >= 1
    BY <1>1, <2>1, RowMoves
  <2> QED BY <1>1, <1>3, <2>1, <2>2, AnsweredKeeps
<1>7. CASE Saves(c)
  <2>1. /\ Answer(c, "done") /\ Moves(c.id, c.body.text)
        /\ c.kind = "patch" /\ c.status = "sent" /\ c.ifMatch \in {0, row[c.id].at}
        /\ overwritten' = IF c.body.id = c.id /\ c.body.at < row[c.id].at
                          THEN overwritten \cup {c.id} ELSE overwritten
        /\ misfiled' = IF c.body.id # c.id THEN misfiled \cup {c.id} ELSE misfiled
    BY <1>7 DEF Saves
  <2>2. overwritten' \subseteq Products /\ misfiled' \subseteq Products
    BY <1>1, <2>1
  <2>3. row[c.id].at \in Nat /\ c.body.at \in Nat
    BY <1>1 DEF Call, Copy, Row
  <2>4. TagKept /\ c.body.id = c.id => c.body.at = row[c.id].at
    <3>1. TagKept /\ c.body.id = c.id => c.ifMatch = c.body.at /\ c.body.at >= 1
      BY <1>1, <2>1 DEF CallFits
    <3> QED BY <2>1, <2>3, <3>1
  <2>5. TagKept => overwritten' = overwritten
    BY <2>1, <2>3, <2>4
  <2>6. RouteKept => misfiled' = misfiled
    BY <1>1, <2>1 DEF CallFits
  <2>7. Sound'
    BY <1>1, <1>2, <2>5, <2>6 DEF Sound
  <2>8. row' \in [Products -> Row] /\ \A q \in Products : row'[q].at >= 1
    <3>1. c.body.text \in Texts
      BY <1>1, <2>1 DEF CallFits
    <3> QED BY <1>1, <2>1, <3>1, RowMoves
  <2>9. c.kind # "preview"
    BY <2>1
  <2> QED BY <1>1, <2>1, <2>2, <2>7, <2>8, <2>9, AnsweredKeeps
<1>8. CASE Rejects(c)
  <2>1. Answer(c, "stale") /\ UNCHANGED row /\ UNCHANGED past /\ c.kind # "preview"
    BY <1>8 DEF Rejects
  <2> QED BY <1>4, <2>1
<1> QED BY <1>5, <1>6, <1>7, <1>8

-----------------------------------------------------------------------------
(* The page: calls that begin *)

LEMMA CallingIs ==
    ASSUME FormTypeOK, NEW kind \in Kinds, NEW p \in Products, NEW m \in Nat
    PROVE  /\ Calling(kind, p, m) \in Call /\ Calling(kind, p, m).kind = kind
           /\ Calling(kind, p, m).id = p /\ Calling(kind, p, m).mount = m
           /\ Calling(kind, p, m).status = "sent"
  BY DEF Calling, Call, Copy, NoCopy, Statuses, FormTypeOK

\* The page's numbers are within their bounds.
LEMMA PageIs ==
    ASSUME FormInv
    PROVE  /\ mount \in Nat /\ mount <= visits /\ mount \in 0 .. MaxVisits /\ visits \in Nat
           /\ row \in [Products -> Row] /\ \A p \in Products : row[p].at >= 1
           /\ editing => mount >= 1 /\ id[mount] \in Products
<1>1. mount \in 0 .. visits /\ visits \in 0 .. MaxVisits /\ row \in [Products -> Row]
  BY DEF FormInv, FormTypeOK
<1>2. mount \in Nat /\ mount <= visits /\ mount \in 0 .. MaxVisits /\ visits \in Nat
  BY <1>1, FormBoundsNat
<1>3. editing => mount >= 1
  BY DEF FormInv, ScreenFits
<1>4. editing => id[mount] \in Products
  BY <1>2, <1>3 DEF FormInv, RowsFit
<1> QED BY <1>1, <1>2, <1>3, <1>4 DEF FormInv, RowsFit

\* A call made elsewhere is not of any form.
LEMMA ElsewhereKeeps ==
    ASSUME FormInv, NEW p \in Products, NEW kind \in {"look", "act"}, Elsewhere(p, kind)
    PROVE  FormInv'
<1>1. PICK m : m = Calling(kind, p, 0)
  OBVIOUS
<1>2. /\ wire' = wire \cup {m} /\ visits < MaxVisits /\ visits' = visits + 1
      /\ UNCHANGED <<editing, mount, id, record, held, form, stale, tags, row, presses, changes>>
      /\ UNCHANGED <<overwritten, misfiled, tangled>>
  BY <1>1 DEF Elsewhere, Visit, page, shown, past
<1>3. m \in Call /\ m.kind = kind /\ m.id = p /\ m.mount = 0 /\ m.status = "sent"
  BY <1>1, CallingIs DEF Kinds, FormInv
<1>4. /\ mount \in Nat /\ mount <= visits /\ mount \in 0 .. MaxVisits /\ visits \in Nat
      /\ \A q \in Products : row[q].at >= 1
  BY PageIs
<1>5. CallFits(m)'
  BY <1>2, <1>3, <1>4 DEF CallFits
<1>6. FormTypeOK'
  <2>1. mount' \in 0 .. visits' /\ visits' \in 0 .. MaxVisits /\ m.mount \in 0 .. mount'
    BY <1>2, <1>3, <1>4, FormBoundsNat
  <2> QED BY <1>2, <1>3, <2>1 DEF FormInv, FormTypeOK
<1>7. Alone'
  <2>1. \A c \in wire : c.kind \in Saving => c.mount # 0
    BY DEF FormInv, CallsFit, CallFits, Saving
  <2> QED BY <1>2, <1>3, <2>1 DEF FormInv, Alone, Saving
<1>8. Sound'
  BY <1>2 DEF FormInv, Sound, TagKept, RouteKept
<1>9. \A q \in Products : row'[q].at >= 1
  BY <1>2, <1>4
<1> QED BY <1>2, <1>5, <1>6, <1>7, <1>8, <1>9, CallsMove

\* Nothing of the form on screen is under way when its buttons can be pressed.
LEMMA PressedAlone ==
    ASSUME FormInv, Pressed
    PROVE  /\ editing /\ \A c \in wire : c.mount # mount /\ c.kind # "read"
           /\ presses' \in 0 .. MaxPresses
<1>1. /\ editing /\ \A c \in wire : ~(c.mount = mount /\ c.kind \in {"preview", "patch", "reread"})
      /\ \A c \in wire : c.kind \notin {"read", "reread"}
      /\ presses < MaxPresses /\ presses' = presses + 1
  BY DEF Pressed, Submits, Loading, OnScreen
<1>2. ASSUME NEW c \in wire PROVE c.mount # mount /\ c.kind # "read"
  <2>1. c.kind \in Kinds /\ (c.kind \in {"look", "act"} => c.mount = 0) /\ mount >= 1
    BY <1>1, PageIs DEF FormInv, CallsFit, CallFits, Call
  <2> QED BY <1>1, <2>1 DEF Kinds
<1>3. presses' \in 0 .. MaxPresses
  BY <1>1, FormBoundsNat DEF FormInv, FormTypeOK
<1> QED BY <1>1, <1>2, <1>3

\* The save carries the row the form accounts for, which is of the product it is routed to.
LEMMA SubmitKeeps ==
    ASSUME FormInv, NEW text \in Texts, Submit(text)
    PROVE  FormInv'
<1>0. PICK body : body = [form EXCEPT !.text = text]
  OBVIOUS
<1>1. PICK m : m = [Calling("preview", id[mount], mount) EXCEPT !.body = body]
  OBVIOUS
<1>2. /\ Pressed /\ form.id # NoProduct /\ stale' = FALSE /\ wire' = wire \cup {m}
      /\ UNCHANGED <<editing, mount, id, record, held, form, tags, row, visits, changes>>
      /\ UNCHANGED <<overwritten, misfiled, tangled>>
  BY <1>0, <1>1 DEF Submit, page, past
<1>3. /\ editing /\ \A c \in wire : c.mount # mount /\ c.kind # "read"
      /\ presses' \in 0 .. MaxPresses
  BY <1>2, PressedAlone
<1>4. /\ mount \in Nat /\ mount >= 1 /\ id[mount] \in Products
      /\ \A q \in Products : row[q].at >= 1
  BY <1>3, PageIs
<1>5. /\ body \in Copy /\ body.id = form.id /\ body.id \in Products /\ body.at = form.at
      /\ body.at >= 1 /\ body.text \in Texts
  <2>1. form \in Copy /\ form.id \in Products /\ form.at >= 1
    BY <1>2 DEF FormInv, FormTypeOK, ScreenFits, Copy
  <2> QED BY <1>0, <2>1 DEF Copy
<1>6. PICK k \in Call : /\ k = Calling("preview", id[mount], mount) /\ k.kind = "preview"
                        /\ k.id = id[mount] /\ k.mount = mount /\ k.status = "sent"
  BY <1>4, CallingIs DEF Kinds, FormInv
<1>7. /\ m \in Call /\ m.kind = "preview" /\ m.id = id[mount] /\ m.mount = mount
      /\ m.status = "sent" /\ m.body = body
  <2>1. m = [k EXCEPT !.body = body]
    BY <1>1, <1>6
  <2> QED BY <1>5, <1>6, <2>1 DEF Call
<1>8. CallFits(m)'
  <2>1. TagKept' => tags[form.id] = form.at
    BY <1>2, <1>3 DEF FormInv, ScreenFits, TagKept
  <2>2. RouteKept' => form.id = id[mount]
    BY <1>2, <1>3 DEF FormInv, Routed, RouteKept
  <2> QED BY <1>2, <1>4, <1>5, <1>7, <2>1, <2>2 DEF CallFits
<1>9. FormTypeOK'
  <2>1. m.mount \in 0 .. mount
    BY <1>4, <1>7
  <2> QED BY <1>2, <1>3, <1>7, <2>1 DEF FormInv, FormTypeOK
<1>10. Alone'
  BY <1>2, <1>3, <1>7 DEF FormInv, Alone
<1>11. Sound'
  BY <1>2 DEF FormInv, Sound, TagKept, RouteKept
<1>12. \A q \in Products : row'[q].at >= 1
  BY <1>2, <1>4
<1> QED BY <1>2, <1>8, <1>9, <1>10, <1>11, <1>12, CallsMove

LEMMA ReloadLatestKeeps ==
    ASSUME FormInv, ReloadLatest
    PROVE  FormInv'
<1>1. PICK m : m = Calling("read", id[mount], mount)
  OBVIOUS
<1>2. /\ Pressed /\ stale' = FALSE /\ wire' = wire \cup {m}
      /\ UNCHANGED <<editing, mount, id, record, held, form, tags, row, visits, changes>>
      /\ UNCHANGED <<overwritten, misfiled, tangled>>
  BY <1>1 DEF ReloadLatest, page, past
<1>3. /\ editing /\ \A c \in wire : c.mount # mount /\ c.kind # "read"
      /\ presses' \in 0 .. MaxPresses
  BY <1>2, PressedAlone
<1>4. /\ mount \in Nat /\ mount >= 1 /\ id[mount] \in Products
      /\ \A q \in Products : row[q].at >= 1
  BY <1>3, PageIs
<1>5. /\ m \in Call /\ m.kind = "read" /\ m.id = id[mount] /\ m.mount = mount /\ m.status = "sent"
  BY <1>1, <1>4, CallingIs DEF Kinds, FormInv
<1>6. CallFits(m)'
  BY <1>2, <1>4, <1>5 DEF CallFits
<1>7. FormTypeOK'
  <2>1. m.mount \in 0 .. mount
    BY <1>4, <1>5
  <2> QED BY <1>2, <1>3, <1>5, <2>1 DEF FormInv, FormTypeOK
<1>8. Alone'
  BY <1>2, <1>3, <1>5 DEF FormInv, Alone, Saving
<1>9. Sound'
  BY <1>2 DEF FormInv, Sound, TagKept, RouteKept
<1>10. \A q \in Products : row'[q].at >= 1
  BY <1>2, <1>4
<1> QED BY <1>2, <1>6, <1>7, <1>8, <1>9, <1>10, CallsMove

\* Somebody else's save moves the row, and no call's.
LEMMA OthersSaveKeeps ==
    ASSUME FormInv, NEW p \in Products, NEW text \in Texts, OthersSave(p, text)
    PROVE  FormInv'
<1>1. /\ changes < MaxChanges /\ changes' = changes + 1 /\ Moves(p, text)
      /\ UNCHANGED <<editing, mount, id, record, held, form, stale, tags, wire, visits, presses>>
      /\ UNCHANGED <<overwritten, misfiled, tangled>>
  BY DEF OthersSave, page, shown, past
<1>2. row' \in [Products -> Row] /\ \A q \in Products : row'[q].at >= 1
  BY <1>1, RowMoves
<1>3. changes' \in 0 .. MaxChanges
  BY <1>1, FormBoundsNat DEF FormInv, FormTypeOK
<1>4. FormTypeOK'
  BY <1>1, <1>2, <1>3 DEF FormInv, FormTypeOK
<1>5. Alone' /\ Sound'
  BY <1>1 DEF FormInv, Alone, Sound, TagKept, RouteKept
<1>6. PICK m : m \notin wire
  BY NoSetContainsEverything
<1> QED BY <1>1, <1>2, <1>4, <1>5, <1>6, CallsMove

-----------------------------------------------------------------------------
(* The page: forms built, passed on and left *)

\* A form is built: nothing is under way for it but the read it makes.
LEMMA OpenEditKeeps ==
    ASSUME FormInv, NEW p \in Products, OpenEdit(p)
    PROVE  FormInv'
<1>1. PICK m : m = Calling("read", p, mount + 1)
  OBVIOUS
<1>2. /\ visits < MaxVisits /\ visits' = visits + 1 /\ ~editing /\ editing' = TRUE
      /\ mount' = mount + 1 /\ id' = [id EXCEPT ![mount + 1] = p]
      /\ record' = NoCopy /\ held' = NoText /\ form' = NoCopy /\ stale' = FALSE
      /\ wire' = wire \cup {m}
      /\ UNCHANGED <<tags, row, presses, changes, overwritten, misfiled, tangled>>
  BY <1>1 DEF OpenEdit, Blank, Visit, past
<1>3. /\ mount \in Nat /\ mount <= visits /\ visits \in Nat
      /\ mount + 1 \in 1 .. MaxVisits /\ mount + 1 \in Nat
  BY <1>2, PageIs, FormBoundsNat DEF FormInv, FormTypeOK
<1>4. /\ m \in Call /\ m.kind = "read" /\ m.id = p /\ m.mount = mount + 1 /\ m.status = "sent"
  BY <1>1, <1>3, CallingIs DEF Kinds, FormInv
<1>5. /\ id' \in [1 .. MaxVisits -> Products \cup {NoProduct}] /\ id'[mount + 1] = p
      /\ \A k \in 1 .. mount : id'[k] = id[k]
  BY <1>2, <1>3 DEF FormInv, FormTypeOK
<1>6. (TagKept' <=> TagKept) /\ (RouteKept' <=> RouteKept)
  BY <1>2 DEF TagKept, RouteKept
<1>7. \A c \in wire : CallFits(c) /\ c.mount \in 0 .. mount /\ c.mount # mount + 1
  BY <1>3 DEF FormInv, CallsFit, CallFits
<1>8. CallsFit'
  <2> SUFFICES ASSUME NEW c \in wire' PROVE CallFits(c)'
    BY DEF CallsFit
  <2>1. CASE c = m
    BY <1>2, <1>3, <1>4, <2>1 DEF CallFits, NoCopy
  <2>2. CASE c # m
    <3>1. CallFits(c) /\ c.mount \in 0 .. mount' /\ c.mount # mount' /\ c.mount \in 0 .. mount
      BY <1>2, <1>3, <1>7, <2>2
    <3>2. c.kind = "preview" => id'[c.mount] = id[c.mount]
      BY <1>3, <1>5, <3>1 DEF CallFits
    <3> QED BY <1>2, <1>6, <3>1, <3>2 DEF CallFits
  <2> QED BY <2>1, <2>2
<1>9. Alone'
  BY <1>2, <1>4, <1>7 DEF FormInv, Alone, Saving
<1>10. FormTypeOK'
  <2>1. mount' \in 0 .. visits' /\ visits' \in 0 .. MaxVisits /\ NoCopy \in Copy
    BY <1>2, <1>3, FormBoundsNat DEF NoCopy, Copy
  <2>2. \A c \in wire' : c \in Call /\ c.mount \in 0 .. mount'
    BY <1>8 DEF CallsFit, CallFits
  <2> QED BY <1>2, <1>5, <2>1, <2>2 DEF FormInv, FormTypeOK
<1>11. ScreenFits' /\ Routed'
  BY <1>2, <1>3 DEF ScreenFits, Routed, NoCopy
<1>12. RowsFit'
  <2>1. ASSUME NEW k \in 1 .. mount + 1 PROVE id'[k] \in Products
    <3>1. k = mount + 1 \/ k \in 1 .. mount
      BY <1>3
    <3> QED BY <1>5, <3>1 DEF FormInv, RowsFit
  <2> QED BY <1>2, <2>1 DEF FormInv, RowsFit
<1>13. Sound'
  BY <1>2, <1>6 DEF FormInv, Sound
<1> QED BY <1>8, <1>9, <1>10, <1>11, <1>12, <1>13 DEF FormInv

\* The form passes to another product: in the middle of a save that is noted, and otherwise it
\* reads the product before anything else.
LEMMA SwitchKeeps ==
    ASSUME FormInv, NEW p \in Products, Switch(p)
    PROVE  FormInv'
<1>1. PICK m : m = Calling("read", p, mount)
  OBVIOUS
<1>2. /\ visits < MaxVisits /\ visits' = visits + 1 /\ editing /\ id' = [id EXCEPT ![mount] = p]
      /\ wire' = wire \cup {m}
      /\ tangled' = tangled \cup (IF Submits(wire) \/ stale THEN {"switched"} ELSE {})
      /\ UNCHANGED <<editing, mount, record, held, form, stale, tags, row, presses, changes>>
      /\ UNCHANGED <<overwritten, misfiled>>
  BY <1>1 DEF Switch, Visit, shown, past
<1>3. /\ mount \in Nat /\ mount <= visits /\ mount >= 1 /\ mount \in 1 .. MaxVisits /\ visits \in Nat
  BY <1>2, PageIs, FormBoundsNat DEF FormInv, FormTypeOK
<1>4. /\ m \in Call /\ m.kind = "read" /\ m.id = p /\ m.mount = mount /\ m.status = "sent"
  BY <1>1, <1>3, CallingIs DEF Kinds, FormInv
<1>5. /\ id' \in [1 .. MaxVisits -> Products \cup {NoProduct}] /\ id'[mount] = p
      /\ \A k \in 1 .. MaxVisits : k # mount => id'[k] = id[k]
  BY <1>2, <1>3 DEF FormInv, FormTypeOK
<1>6. (TagKept' => TagKept) /\ (RouteKept' => RouteKept)
  BY <1>2 DEF TagKept, RouteKept
<1>7. "switched" \notin tangled' =>
          \A c \in wire : c.kind \in Saving => c.mount # mount
  BY <1>2 DEF Submits, OnScreen, Saving
<1>8. CallsFit'
  <2> SUFFICES ASSUME NEW c \in wire' PROVE CallFits(c)'
    BY DEF CallsFit
  <2>1. CASE c = m
    BY <1>2, <1>3, <1>4, <2>1 DEF CallFits
  <2>2. CASE c # m
    <3>1. CallFits(c) /\ c \in wire
      BY <1>2, <2>2 DEF FormInv, CallsFit
    <3>2. c.mount \in 0 .. mount /\ (c.kind = "preview" => c.mount >= 1)
      BY <3>1 DEF CallFits
    <3>3. RouteKept' /\ c.kind = "preview" => c.body.id = id'[c.mount]
      <4> SUFFICES ASSUME RouteKept', c.kind = "preview" PROVE c.body.id = id'[c.mount]
        OBVIOUS
      <4>1. c.mount # mount
        BY <1>7, <3>1 DEF RouteKept, Saving
      <4>2. c.mount \in 1 .. MaxVisits
        BY <1>3, <3>2, FormBoundsNat
      <4> QED BY <1>5, <1>6, <3>1, <4>1, <4>2 DEF CallFits
    <3> QED BY <1>2, <1>6, <3>1, <3>3 DEF CallFits
  <2> QED BY <2>1, <2>2
<1>9. Alone'
  <2> SUFFICES ASSUME "switched" \notin tangled', NEW c \in wire', NEW d \in wire',
                      c.kind \in Saving, d.mount = c.mount
               PROVE  d = c
    BY DEF Alone
  <2>1. c \in wire /\ c.mount # mount
    BY <1>2, <1>4, <1>7 DEF Saving
  <2>2. d \in wire
    BY <1>2, <1>4, <2>1
  <2> QED BY <1>2, <2>1, <2>2 DEF FormInv, Alone
<1>10. FormTypeOK'
  <2>1. mount' \in 0 .. visits' /\ visits' \in 0 .. MaxVisits /\ tangled' \subseteq Mixups
    BY <1>2, <1>3, FormBoundsNat DEF FormInv, FormTypeOK, Mixups
  <2>2. \A c \in wire' : c \in Call /\ c.mount \in 0 .. mount'
    BY <1>8 DEF CallsFit, CallFits
  <2> QED BY <1>2, <1>5, <2>1, <2>2 DEF FormInv, FormTypeOK
<1>11. ScreenFits'
  BY <1>2, <1>6 DEF FormInv, ScreenFits
<1>12. Routed'
  BY <1>2, <1>4, <1>5 DEF Routed
<1>13. RowsFit'
  <2>1. ASSUME NEW k \in 1 .. mount PROVE id'[k] \in Products
    <3>1. k \in 1 .. MaxVisits
      BY <1>3, FormBoundsNat
    <3> QED BY <1>5, <3>1 DEF FormInv, RowsFit
  <2> QED BY <1>2, <2>1 DEF FormInv, RowsFit
<1>14. Sound'
  BY <1>2, <1>6 DEF FormInv, Sound
<1> QED BY <1>8, <1>9, <1>10, <1>11, <1>12, <1>13, <1>14 DEF FormInv

LEMMA LeaveKeeps ==
    ASSUME FormInv, Leave
    PROVE  FormInv'
<1>1. /\ editing' = FALSE
      /\ record' = NoCopy /\ held' = NoText /\ form' = NoCopy /\ stale' = FALSE
      /\ UNCHANGED <<mount, id, tags, wire, row, visits, presses>>
      /\ UNCHANGED <<changes, overwritten, misfiled, tangled>>
  BY DEF Leave, Blank, budget, past
<1>2. (TagKept' <=> TagKept) /\ (RouteKept' <=> RouteKept)
  BY <1>1 DEF TagKept, RouteKept
<1>3. CallsFit'
  <2> SUFFICES ASSUME NEW c \in wire PROVE CallFits(c)'
    BY <1>1 DEF CallsFit
  <2>1. CallFits(c)
    BY DEF FormInv, CallsFit
  <2> QED BY <1>1, <1>2, <2>1 DEF CallFits
<1>4. FormTypeOK' /\ ScreenFits'
  BY <1>1, <1>2 DEF FormInv, FormTypeOK, ScreenFits, NoCopy, Copy
<1>5. Alone' /\ Routed' /\ RowsFit' /\ Sound'
  BY <1>1, <1>2 DEF FormInv, Alone, Routed, RowsFit, Sound
<1> QED BY <1>3, <1>4, <1>5 DEF FormInv

-----------------------------------------------------------------------------
(* What lands *)

\* An answer that moves a tag, and was not noted to move it under a form or under a save about to
\* leave, leaves those where they were: but for the form it is of.
LEMMA TagStands ==
    ASSUME FormInv, NEW c \in wire, NEW version \in Nat, tags' = [tags EXCEPT ![c.id] = version],
           TagKept, ~Crosses(c, version)
    PROVE  /\ editing /\ form.id # NoProduct /\ c.mount # mount => tags'[form.id] = form.at
           /\ \A d \in wire : d.kind = "preview" /\ d.mount # c.mount => tags'[d.body.id] = d.body.at
<1>1. tags \in [Products -> Nat] /\ c.id \in Products /\ form \in Copy
  BY DEF FormInv, FormTypeOK, Call
<1>2. /\ ~(editing /\ c.mount # mount /\ form.id = c.id /\ form.at # version)
      /\ \A d \in wire : ~(/\ d.kind = "preview" /\ c.mount # d.mount
                           /\ d.body.id = c.id /\ d.body.at # version)
  BY DEF Crosses
<1>3. ASSUME editing, form.id # NoProduct, c.mount # mount PROVE tags'[form.id] = form.at
  <2>1. form.id \in Products /\ tags[form.id] = form.at
    BY <1>1, <1>3 DEF FormInv, ScreenFits, Copy
  <2> QED BY <1>1, <1>2, <1>3, <2>1
<1>4. ASSUME NEW d \in wire, d.kind = "preview", d.mount # c.mount
      PROVE  tags'[d.body.id] = d.body.at
  <2>1. d.body.id \in Products /\ tags[d.body.id] = d.body.at
    BY <1>4 DEF FormInv, CallsFit, CallFits
  <2> QED BY <1>1, <1>2, <1>4, <2>1
<1> QED BY <1>3, <1>4

\* Nothing new was read: the form stays as it is, or nothing says so any more.
LEMMA HeldStays ==
    ASSUME FormInv, record' = record, NEW calls, Hydrate(calls), UNCHANGED editing, tangled \subseteq tangled'
    PROVE  /\ held' \in Texts \cup {NoText} /\ form' \in Copy
           /\ form'.id # NoProduct => form'.at >= 1
           /\ editing /\ "switched" \notin tangled' => held' = held /\ form' = form /\ record'.text = held'
<1>1. \/ held' = held /\ form' = form
      \/ held' = record.text /\ form' = record /\ record.text # held
  BY DEF Hydrate
<1>2. /\ held \in Texts \cup {NoText} /\ form \in Copy /\ record \in Copy
      /\ record.text \in Texts \cup {NoText}
      /\ editing /\ "switched" \notin tangled' => record.text = held
  BY DEF FormInv, FormTypeOK, ScreenFits, Copy
<1> QED BY <1>1, <1>2 DEF FormInv, ScreenFits

\* A call is over, and what it brought is not for the form on screen.
LEMMA NotForTheForm ==
    ASSUME FormInv, FormTypeOK', NEW c \in wire, wire' = wire \ {c},
           UNCHANGED <<editing, mount, id, record, row, overwritten, misfiled>>,
           \/ Hydrate(wire')
           \/ UNCHANGED <<held, form>>,
           tangled \subseteq tangled',
           TagKept' => /\ editing /\ form.id # NoProduct => tags'[form.id] = form.at
                       /\ \A d \in wire' : d.kind = "preview" => tags'[d.body.id] = d.body.at,
           RouteKept' /\ editing =>
               ~(c.kind = "read" /\ c.mount = mount /\ c.id = id[mount] /\ form.id \notin {NoProduct, c.id})
    PROVE  FormInv'
<1>1. (TagKept' => TagKept) /\ (RouteKept' => RouteKept)
  BY DEF TagKept, RouteKept
<1>2. /\ form'.id # NoProduct => form'.at >= 1
      /\ editing /\ "switched" \notin tangled' => form' = form /\ record'.text = held'
  <2>1. CASE Hydrate(wire')
    <3>1. record' = record /\ UNCHANGED editing
      OBVIOUS
    <3> QED BY <2>1, <3>1, HeldStays
  <2>2. CASE UNCHANGED <<held, form>>
    BY <2>2 DEF FormInv, ScreenFits
  <2> QED BY <2>1, <2>2
<1>3. CallsFit'
  <2> SUFFICES ASSUME NEW d \in wire' PROVE CallFits(d)'
    BY DEF CallsFit
  <2>1. CallFits(d)
    BY DEF FormInv, CallsFit
  <2> QED BY <2>1, StillFits
<1>4. Alone'
  BY DEF FormInv, Alone
<1>5. ScreenFits'
  <2>1. TagKept' => "switched" \notin tangled'
    BY DEF TagKept
  <2> QED BY <1>1, <1>2, <2>1 DEF FormInv, ScreenFits
<1>6. Routed'
  <2> SUFFICES ASSUME RouteKept', editing, form'.id \notin {NoProduct, id[mount]}
               PROVE  \E d \in wire' : d.kind = "read" /\ d.mount = mount /\ d.id = id[mount]
    BY DEF Routed
  <2>1. form' = form
    BY <1>2 DEF RouteKept
  <2> PICK d \in wire : d.kind = "read" /\ d.mount = mount /\ d.id = id[mount]
    BY <1>1, <2>1 DEF FormInv, Routed
  <2>2. d # c
    BY <2>1
  <2> QED BY <2>2
<1>7. RowsFit' /\ Sound'
  BY <1>1 DEF FormInv, RowsFit, Sound
<1> QED BY <1>3, <1>4, <1>5, <1>6, <1>7 DEF FormInv

\* What a call tells, and that others are of other forms than a save's.
LEMMA CallIs ==
    ASSUME FormInv, NEW c \in wire
    PROVE  /\ c \in Call /\ CallFits(c) /\ c.id \in Products /\ c.mount \in Nat
           /\ c.answer \in Copy /\ c.answer.at \in Nat /\ c.kind \in Kinds
           /\ \A d \in wire : d.kind = "preview" => d.mount >= 1
<1>1. c \in Call /\ CallFits(c) /\ \A d \in wire : d.kind = "preview" => d.mount >= 1
  BY DEF FormInv, FormTypeOK, CallsFit, CallFits
<1> QED BY <1>1 DEF Call, Copy

\* The form on screen reads what it asked for: it accounts for that, or is of something else.
LEMMA OwnReadLands ==
    ASSUME FormInv, NEW c \in wire, RecordLands(c), OnScreen(c.mount)
    PROVE  FormInv'
<1>1. /\ c.kind \in {"read", "reread", "look"} /\ c.status = "done" /\ wire' = wire \ {c}
      /\ tags' = [tags EXCEPT ![c.id] = c.answer.at]
      /\ record' = c.answer /\ editing /\ mount = c.mount
      /\ tangled \subseteq tangled' /\ tangled' \subseteq tangled \cup Mixups
      /\ Crosses(c, c.answer.at) => "crossed" \in tangled'
      /\ c.id # id[mount] => "misdelivered" \in tangled'
      /\ UNCHANGED <<editing, mount, id, stale, row, visits, presses, changes, overwritten, misfiled>>
  BY DEF RecordLands, KeepsTag, OnScreen, page, budget, past, Mixups
<1>2. /\ c \in Call /\ CallFits(c) /\ c.id \in Products /\ c.kind \in {"read", "reread"}
      /\ c.answer \in Copy /\ c.answer.id = c.id /\ c.answer.at \in Nat /\ c.answer.at >= 1
      /\ c.answer.text \in Texts \cup {NoText} /\ c.id # NoProduct
  <2>1. /\ c \in Call /\ CallFits(c) /\ c.id \in Products /\ c.answer \in Copy /\ c.answer.at \in Nat
        /\ c.answer.text \in Texts \cup {NoText}
    BY CallIs DEF Copy
  <2>2. c.answer.id = c.id /\ c.answer.at >= 1
    BY <1>1, <2>1 DEF CallFits
  <2>3. c.kind # "look"
    BY <1>1, <2>1 DEF CallFits, FormInv, ScreenFits
  <2> QED BY <1>1, <2>1, <2>2, <2>3, NothingIsNoProduct
<1>3. /\ TagKept' => TagKept /\ "switched" \notin tangled' /\ "reverted" \notin tangled'
      /\ RouteKept' => RouteKept /\ "switched" \notin tangled' /\ "alike" \notin tangled'
  BY <1>1 DEF TagKept, RouteKept
<1>4. ASSUME "switched" \notin tangled'
      PROVE  \A d \in wire' : d.mount = mount => d.kind \notin Saving
  BY <1>1, <1>4 DEF FormInv, Alone
\* What the form is left with.
<1>5. \/ held' = c.answer.text /\ form' = c.answer
      \/ /\ held' = held /\ form' = form
         /\ "switched" \notin tangled' =>
                /\ c.answer.text = held
                /\ form.id = c.id => "reverted" \in tangled'
                /\ form.id # c.id => "alike" \in tangled'
  <2>1. "switched" \notin tangled' => ~Submits(wire')
    BY <1>1, <1>4 DEF Submits, OnScreen, Saving
  <2>2. CASE NoNews(c) /\ Accounts(c)
    BY <1>1, <2>2 DEF RecordLands, NoNews
  <2>3. CASE NoNews(c) /\ ~Accounts(c)
    <3>1. Hydrate(wire') /\ c.answer.text = held
      BY <2>3 DEF RecordLands, NoNews
    <3>2. (form.id = c.id => "reverted" \in tangled') /\ (form.id # c.id => "alike" \in tangled')
      BY <2>3 DEF RecordLands
    <3> QED BY <1>1, <3>1, <3>2 DEF Hydrate
  <2>4. CASE ~NoNews(c)
    <3>1. Hydrate(wire')
      BY <2>4 DEF RecordLands
    <3>2. "switched" \notin tangled' => c.answer.text # held
      BY <1>1, <2>1, <2>4 DEF NoNews
    <3> QED BY <1>1, <2>1, <3>1, <3>2 DEF Hydrate
  <2> QED BY <2>2, <2>3, <2>4
<1>6. /\ held' \in Texts \cup {NoText} /\ form' \in Copy /\ (form'.id # NoProduct => form'.at >= 1)
      /\ "switched" \notin tangled' => record'.text = held'
  BY <1>1, <1>2, <1>5 DEF FormInv, FormTypeOK, ScreenFits
<1>7. FormTypeOK'
  <2>1. tags' \in [Products -> Nat] /\ tangled' \subseteq Mixups
    BY <1>1, <1>2 DEF FormInv, FormTypeOK
  <2> QED BY <1>1, <1>2, <1>6, <2>1 DEF FormInv, FormTypeOK
<1>8. ASSUME TagKept', form'.id # NoProduct
      PROVE  tags'[form'.id] = form'.at
  <2>1. tags \in [Products -> Nat] /\ form \in Copy
    BY DEF FormInv, FormTypeOK
  <2>2. CASE form' = c.answer
    BY <1>1, <1>2, <2>1, <2>2
  <2>3. CASE form' = form /\ form.id # c.id
    <3>1. tags[form.id] = form.at /\ form.id \in Products
      BY <1>1, <1>3, <1>8, <2>1, <2>3 DEF FormInv, ScreenFits, Copy
    <3> QED BY <1>1, <2>1, <2>3, <3>1
  <2> QED BY <1>3, <1>5, <1>8, <2>2, <2>3
<1>9. ASSUME TagKept'
      PROVE  \A d \in wire' : d.kind = "preview" => tags'[d.body.id] = d.body.at
  <2>1. \A d \in wire' : d.kind = "preview" => d.mount # c.mount
    BY <1>1, <1>3, <1>4, <1>9 DEF Saving
  <2>2. ~Crosses(c, c.answer.at)
    BY <1>1, <1>9 DEF TagKept
  <2> QED BY <1>1, <1>2, <1>3, <1>9, <2>1, <2>2, TagStands
<1>10. CallsFit'
  <2> SUFFICES ASSUME NEW d \in wire' PROVE CallFits(d)'
    BY DEF CallsFit
  <2>1. CallFits(d)
    BY <1>1 DEF FormInv, CallsFit
  <2> QED BY <1>1, <1>9, <2>1, StillFits
<1>11. Alone'
  BY <1>1 DEF FormInv, Alone
<1>12. ScreenFits'
  <2>1. (editing' => mount' >= 1) /\ (record'.id # NoProduct => record'.at >= 1)
    BY <1>1, <1>2 DEF FormInv, ScreenFits
  <2> QED BY <1>6, <1>8, <2>1 DEF ScreenFits
<1>13. Routed'
  <2> SUFFICES ASSUME RouteKept' PROVE form'.id = id[mount]
    BY <1>1 DEF Routed
  <2>1. c.id = id[mount]
    BY <1>1 DEF RouteKept
  <2> QED BY <1>2, <1>3, <1>5, <2>1
<1>14. RowsFit' /\ Sound'
  BY <1>1, <1>3 DEF FormInv, RowsFit, Sound
<1> QED BY <1>7, <1>10, <1>11, <1>12, <1>13, <1>14 DEF FormInv

\* A read that another page asked for lands: it moves the tag.
LEMMA OthersReadLands ==
    ASSUME FormInv, NEW c \in wire, RecordLands(c), ~OnScreen(c.mount)
    PROVE  FormInv'
<1>1. /\ c.kind \in {"read", "reread", "look"} /\ c.status = "done" /\ wire' = wire \ {c}
      /\ tags' = [tags EXCEPT ![c.id] = c.answer.at] /\ Hydrate(wire') /\ record' = record
      /\ ~(editing /\ mount = c.mount)
      /\ tangled \subseteq tangled' /\ tangled' \subseteq tangled \cup Mixups
      /\ Crosses(c, c.answer.at) => "crossed" \in tangled'
      /\ UNCHANGED <<editing, mount, id, stale, row, visits, presses, changes, overwritten, misfiled>>
  BY DEF RecordLands, KeepsTag, NoNews, OnScreen, page, budget, past, Mixups
<1>2. c \in Call /\ c.id \in Products /\ c.answer.at \in Nat
  BY CallIs
<1>3. held' \in Texts \cup {NoText} /\ form' \in Copy
  <2>1. UNCHANGED editing /\ record' = record /\ tangled \subseteq tangled'
    BY <1>1
  <2> QED BY <1>1, <2>1, HeldStays
<1>4. FormTypeOK'
  <2>1. tags' \in [Products -> Nat] /\ tangled' \subseteq Mixups
    BY <1>1, <1>2 DEF FormInv, FormTypeOK
  <2> QED BY <1>1, <1>3, <2>1 DEF FormInv, FormTypeOK
<1>5. ASSUME TagKept'
      PROVE  /\ editing /\ form.id # NoProduct => tags'[form.id] = form.at
             /\ \A d \in wire' : d.kind = "preview" => tags'[d.body.id] = d.body.at
  <2>1. TagKept /\ ~Crosses(c, c.answer.at) /\ "switched" \notin tangled
    BY <1>1, <1>5 DEF TagKept
  <2>2. \A d \in wire' : d.kind = "preview" => d.mount # c.mount
    BY <1>1, <2>1 DEF FormInv, Alone, Saving
  <2> QED BY <1>1, <1>2, <2>1, <2>2, TagStands
<1> QED BY <1>1, <1>4, <1>5, NotForTheForm

LEMMA ReadFailsKeeps ==
    ASSUME FormInv, NEW c \in wire, ReadFails(c)
    PROVE  FormInv'
<1>1. /\ wire' = wire \ {c} /\ record' = record /\ Hydrate(wire')
      /\ tangled \subseteq tangled' /\ tangled' \subseteq tangled \cup Mixups
      /\ editing /\ mount = c.mount /\ form.id \notin {NoProduct, c.id} => "unread" \in tangled'
      /\ UNCHANGED <<editing, mount, id, stale, tags, row, visits, presses, changes>>
      /\ UNCHANGED <<overwritten, misfiled>>
  BY DEF ReadFails, Fails, OnScreen, page, budget, past, Mixups
<1>2. held' \in Texts \cup {NoText} /\ form' \in Copy
  <2>1. UNCHANGED editing /\ record' = record /\ tangled \subseteq tangled'
    BY <1>1
  <2> QED BY <1>1, <2>1, HeldStays
<1>3. FormTypeOK'
  BY <1>1, <1>2 DEF FormInv, FormTypeOK
<1>4. TagKept' => /\ editing /\ form.id # NoProduct => tags'[form.id] = form.at
                  /\ \A d \in wire' : d.kind = "preview" => tags'[d.body.id] = d.body.at
  BY <1>1 DEF FormInv, ScreenFits, CallsFit, CallFits, TagKept
<1> QED BY <1>1, <1>3, <1>4, NotForTheForm DEF RouteKept

\* An action answers no version, and is of no form.
LEMMA ActLandsKeeps ==
    ASSUME FormInv, NEW c \in wire, ActLands(c) \/ ActFails(c)
    PROVE  FormInv'
<1>1. /\ c.kind = "act" /\ wire' = wire \ {c}
      /\ tangled \subseteq tangled' /\ tangled' \subseteq tangled \cup Mixups
      /\ \/ tags' = [tags EXCEPT ![c.id] = 0] /\ (Crosses(c, 0) => "untagged" \in tangled')
         \/ tags' = tags
      /\ UNCHANGED <<editing, mount, id, record, held, form, stale, row, visits, presses, changes>>
      /\ UNCHANGED <<overwritten, misfiled>>
  BY DEF ActLands, ActFails, Fails, page, shown, budget, past, Mixups
<1>2. /\ c.id \in Products /\ c.mount = 0 /\ (editing => mount # c.mount)
      /\ \A d \in wire : d.kind = "preview" => d.mount # c.mount
  BY <1>1, CallIs DEF CallFits, FormInv, ScreenFits
<1>3. FormTypeOK'
  <2>1. tags' \in [Products -> Nat]
    BY <1>1, <1>2 DEF FormInv, FormTypeOK
  <2> QED BY <1>1, <2>1 DEF FormInv, FormTypeOK
<1>4. ASSUME TagKept'
      PROVE  /\ editing /\ form.id # NoProduct => tags'[form.id] = form.at
             /\ \A d \in wire' : d.kind = "preview" => tags'[d.body.id] = d.body.at
  <2>1. TagKept
    BY <1>1, <1>4 DEF TagKept
  <2>2. CASE tags' # tags
    <3>1. tags' = [tags EXCEPT ![c.id] = 0] /\ ~Crosses(c, 0)
      BY <1>1, <1>4, <2>2 DEF TagKept
    <3>2. 0 \in Nat
      OBVIOUS
    <3>3. /\ editing /\ form.id # NoProduct /\ c.mount # mount => tags'[form.id] = form.at
          /\ \A d \in wire : d.kind = "preview" /\ d.mount # c.mount => tags'[d.body.id] = d.body.at
      BY ONLY FormInv, c \in wire, <2>1, <3>1, <3>2, TagStands
    <3> QED BY <1>1, <1>2, <3>3
  <2>3. CASE tags' = tags
    BY <1>1, <2>1, <2>3 DEF FormInv, ScreenFits, CallsFit, CallFits
  <2> QED BY <2>2, <2>3
<1> QED BY <1>1, <1>3, <1>4, NotForTheForm

\* A save withdrawn, or refused: the form stays as the visitor left it.
LEMMA SaveEndsKeeps ==
    ASSUME FormInv, NEW c \in wire, SaveWithdrawn(c) \/ SaveFails(c)
    PROVE  FormInv'
<1>1. /\ c.kind \in {"preview", "patch"} /\ wire' = wire \ {c} /\ record' = record /\ Hydrate(wire')
      /\ stale' \in {stale, TRUE, FALSE}
      /\ UNCHANGED <<editing, mount, id, tags, row, visits, presses, changes>>
      /\ UNCHANGED <<overwritten, misfiled, tangled>>
  BY DEF SaveWithdrawn, SaveFails, Fails, page, budget, past
<1>2. held' \in Texts \cup {NoText} /\ form' \in Copy
  <2>1. UNCHANGED editing /\ record' = record /\ tangled \subseteq tangled'
    BY <1>1
  <2> QED BY <1>1, <2>1, HeldStays
<1>3. FormTypeOK'
  BY <1>1, <1>2 DEF FormInv, FormTypeOK
<1>4. TagKept' => /\ editing /\ form.id # NoProduct => tags'[form.id] = form.at
                  /\ \A d \in wire' : d.kind = "preview" => tags'[d.body.id] = d.body.at
  BY <1>1 DEF FormInv, ScreenFits, CallsFit, CallFits, TagKept
<1> QED BY <1>1, <1>3, <1>4, NotForTheForm

\* The save leaves, under the version the form accounts for, unless the tag was moved.
LEMMA SaveLeavesKeeps ==
    ASSUME FormInv, NEW c \in wire, SaveLeaves(c)
    PROVE  FormInv'
<1>1. PICK m : m = [c EXCEPT !.kind = "patch", !.id = id[c.mount], !.ifMatch = IfMatch(id[c.mount])]
  OBVIOUS
<1>2. /\ c.kind = "preview" /\ wire' = (wire \ {c}) \cup {m}
      /\ UNCHANGED <<editing, mount, id, record, held, form, stale, tags, row, visits, presses>>
      /\ UNCHANGED <<changes, overwritten, misfiled, tangled>>
  BY <1>1 DEF SaveLeaves, page, shown, budget, past
<1>3. c \in Call /\ CallFits(c) /\ c.status = "sent" /\ c.mount \in 1 .. mount
  BY <1>2, CallIs DEF CallFits
<1>4. id[c.mount] \in Products /\ tags[id[c.mount]] \in Nat
  BY <1>3 DEF FormInv, RowsFit, FormTypeOK
<1>5. /\ m \in Call /\ m.kind = "patch" /\ m.id = id[c.mount] /\ m.ifMatch = tags[id[c.mount]]
      /\ m.mount = c.mount /\ m.body = c.body /\ m.status = "sent"
  BY <1>1, <1>3, <1>4 DEF Call, Kinds, IfMatch
<1>6. CallFits(m)'
  <2>1. (TagKept' <=> TagKept) /\ (RouteKept' <=> RouteKept)
    BY <1>2 DEF TagKept, RouteKept
  <2> QED BY <1>2, <1>3, <1>5, <2>1 DEF CallFits
<1>7. FormTypeOK'
  <2>1. m.mount \in 0 .. mount
    BY <1>3, <1>5 DEF CallFits
  <2> QED BY <1>2, <1>5, <2>1 DEF FormInv, FormTypeOK
<1>8. Alone'
  BY <1>2, <1>5, StillAlone DEF FormInv, Saving
<1>9. Sound'
  BY <1>2 DEF FormInv, Sound, TagKept, RouteKept
<1>10. \A q \in Products : row'[q].at >= 1
  BY <1>2, PageIs
<1> QED BY <1>2, <1>5, <1>6, <1>7, <1>8, <1>9, <1>10, CallsMove

\* Saved: the form is told, and the product is read again.
LEMMA SaveLandsKeeps ==
    ASSUME FormInv, NEW c \in wire, SaveLands(c)
    PROVE  FormInv'
<1>1. PICK m : m = [c EXCEPT !.kind = "reread", !.id = id[c.mount], !.body = NoCopy,
                             !.ifMatch = 0, !.answer = NoCopy, !.status = "sent"]
  OBVIOUS
<1>2. /\ c.kind = "patch" /\ c.status = "done" /\ tags' = [tags EXCEPT ![c.id] = c.answer.at]
      /\ wire' = (wire \ {c}) \cup {m}
      /\ form' = IF OnScreen(c.mount) /\ form.id = c.id
                 THEN [form EXCEPT !.at = c.answer.at, !.text = c.body.text] ELSE form
      /\ tangled \subseteq tangled' /\ tangled' \subseteq tangled \cup Mixups
      /\ Crosses(c, c.answer.at) => "crossed" \in tangled'
      /\ UNCHANGED <<editing, mount, id, record, held, stale, row, visits, presses, changes>>
      /\ UNCHANGED <<overwritten, misfiled>>
  BY <1>1 DEF SaveLands, KeepsTag, page, budget, past, Mixups
<1>3. /\ c \in Call /\ CallFits(c) /\ c.id \in Products /\ c.mount \in 1 .. mount
      /\ c.answer.at \in Nat /\ c.answer.at >= 1 /\ c.body.text \in Texts
  BY <1>2, CallIs DEF CallFits
<1>4. id[c.mount] \in Products
  BY <1>3 DEF FormInv, RowsFit
<1>5. /\ m \in Call /\ m.kind = "reread" /\ m.id = id[c.mount] /\ m.mount = c.mount /\ m.status = "sent"
  <2>1. NoCopy \in Copy
    BY DEF NoCopy, Copy
  <2> QED BY <1>1, <1>3, <1>4, <2>1 DEF Call, Kinds, Statuses
<1>6. (TagKept' => TagKept) /\ (RouteKept' => RouteKept) /\ (TagKept' \/ RouteKept' => "switched" \notin tangled)
  BY <1>2 DEF TagKept, RouteKept
<1>7. ASSUME "switched" \notin tangled
      PROVE  \A d \in wire : d # c => d.mount # c.mount
  BY <1>2, <1>7 DEF FormInv, Alone, Saving
<1>8. /\ form \in Copy /\ form' \in Copy /\ form'.id = form.id
      /\ form'.id # NoProduct => form'.at >= 1
  <2>1. form \in Copy /\ (form.id # NoProduct => form.at >= 1)
    BY DEF FormInv, FormTypeOK, ScreenFits
  <2> QED BY <1>2, <1>3, <2>1 DEF Copy
<1>9. ASSUME TagKept' PROVE TagKept /\ ~Crosses(c, c.answer.at)
  BY <1>2, <1>9 DEF TagKept
<1>10. ASSUME TagKept', editing, form.id # NoProduct PROVE tags'[form'.id] = form'.at
  <2>1. tags \in [Products -> Nat] /\ tags[form.id] = form.at /\ form.id \in Products
    BY <1>8, <1>9, <1>10 DEF FormInv, FormTypeOK, ScreenFits, Copy
  <2>2. CASE OnScreen(c.mount) /\ form.id = c.id
    <3>1. form'.at = c.answer.at
      BY <1>2, <1>8, <2>2 DEF Copy
    <3> QED BY <1>2, <1>8, <2>1, <2>2, <3>1
  <2>3. CASE form.id = c.id /\ c.mount # mount
    <3>1. form' = form
      BY <1>2, <2>3 DEF OnScreen
    <3>2. tags'[form.id] = form.at
      BY <1>2, <1>3, <1>9, <1>10, <2>3, TagStands
    <3> QED BY <3>1, <3>2
  <2>4. CASE form.id # c.id
    BY <1>2, <2>1, <2>4
  <2> QED BY <1>10, <2>2, <2>3, <2>4 DEF OnScreen
<1>11. ScreenFits'
  BY <1>2, <1>8, <1>10 DEF FormInv, ScreenFits
<1>12. ASSUME NEW d \in wire, d # c PROVE CallFits(d)'
  <2>1. CallFits(d)
    BY DEF FormInv, CallsFit
  <2>2. ASSUME TagKept', d.kind = "preview" PROVE tags'[d.body.id] = d.body.at
    <3>1. TagKept /\ ~Crosses(c, c.answer.at) /\ d.mount # c.mount
      BY <1>12, <1>6, <1>7, <1>9, <2>2
    <3> QED BY <1>2, <1>3, <2>2, <3>1, TagStands
  <2> QED BY <1>2, <2>1, <2>2, StillFits
<1>13. \A d \in wire : d # c => CallFits(d)'
  BY <1>12
<1>14. CallFits(m)'
  <2>1. m.mount \in 0 .. mount /\ m.mount >= 1
    BY <1>3, <1>5 DEF FormInv, FormTypeOK
  <2> QED BY <1>2, <1>5, <2>1 DEF CallFits
<1>15. CallsFit'
  <2> SUFFICES ASSUME NEW d \in wire' PROVE CallFits(d)'
    BY DEF CallsFit
  <2>1. CASE d = m
    BY <1>14, <2>1
  <2>2. CASE d # m
    BY <1>2, <1>13, <2>2
  <2> QED BY <2>1, <2>2
<1>16. Alone'
  BY <1>2, <1>5, StillAlone DEF FormInv, Saving
<1>17. FormTypeOK'
  <2>1. tags' \in [Products -> Nat] /\ tangled' \subseteq Mixups
    BY <1>2, <1>3 DEF FormInv, FormTypeOK
  <2>2. \A d \in wire' : d \in Call /\ d.mount \in 0 .. mount'
    BY <1>15 DEF CallsFit, CallFits
  <2> QED BY <1>2, <1>8, <2>1, <2>2 DEF FormInv, FormTypeOK
<1>18. Routed'
  <2> SUFFICES ASSUME RouteKept', editing, form'.id \notin {NoProduct, id[mount]}
               PROVE  \E d \in wire' : d.kind = "read" /\ d.mount = mount /\ d.id = id[mount]
    BY <1>2 DEF Routed
  <2> PICK d \in wire : d.kind = "read" /\ d.mount = mount /\ d.id = id[mount]
    BY <1>6, <1>8 DEF FormInv, Routed
  <2> QED BY <1>2
<1>19. RowsFit' /\ Sound'
  BY <1>2, <1>6 DEF FormInv, RowsFit, Sound
<1> QED BY <1>15, <1>16, <1>17, <1>18, <1>19, <1>11 DEF FormInv

-----------------------------------------------------------------------------
(* The invariant, and what it gives *)

LEMMA FormFitsFromTheStart ==
    ASSUME FormInit
    PROVE  FormInv
<1>1. NoCopy \in Copy /\ 0 \in 0 .. MaxVisits /\ 0 \in 0 .. MaxPresses /\ 0 \in 0 .. MaxChanges
  BY FormBoundsNat DEF NoCopy, Copy
<1>2. FormTypeOK
  <2>1. /\ editing \in BOOLEAN /\ mount \in 0 .. visits /\ stale \in BOOLEAN
        /\ record \in Copy /\ held \in Texts \cup {NoText} /\ form \in Copy
        /\ visits \in 0 .. MaxVisits /\ presses \in 0 .. MaxPresses /\ changes \in 0 .. MaxChanges
    <3>1. /\ editing = FALSE /\ stale = FALSE /\ mount = 0 /\ visits = 0 /\ presses = 0 /\ changes = 0
          /\ record = NoCopy /\ held = NoText /\ form = NoCopy
      BY DEF FormInit
    <3>2. mount \in 0 .. visits
      BY ONLY <3>1, SMT
    <3>3. editing \in BOOLEAN /\ stale \in BOOLEAN
      BY ONLY <3>1, Zenon
    <3> QED BY <1>1, <3>1, <3>2, <3>3, Zenon
  <2>2. id \in [1 .. MaxVisits -> Products \cup {NoProduct}]
    BY DEF FormInit
  <2>3. tags \in [Products -> Nat] /\ row \in [Products -> Row]
    BY DEF FormInit, Row
  <2>4. /\ wire \subseteq Call /\ overwritten \subseteq Products /\ misfiled \subseteq Products
        /\ tangled \subseteq Mixups /\ \A c \in wire : c.mount \in 0 .. mount
    BY DEF FormInit
  <2> QED BY <2>1, <2>2, <2>3, <2>4 DEF FormTypeOK
<1>3. CallsFit /\ Alone /\ Routed /\ RowsFit /\ Sound
  BY DEF FormInit, CallsFit, Alone, Routed, RowsFit, Sound
<1>4. ScreenFits
  BY DEF FormInit, ScreenFits, NoCopy
<1> QED BY <1>2, <1>3, <1>4 DEF FormInv

LEMMA FormStepsKeep ==
    ASSUME FormInv, [FormNext]_formVars
    PROVE  FormInv'
<1>1. CASE Leave
  BY ONLY FormInv, <1>1, LeaveKeeps
<1>2. ASSUME NEW text \in Texts, Submit(text) PROVE FormInv'
  BY ONLY FormInv, <1>2, SubmitKeeps
<1>3. CASE ReloadLatest
  BY ONLY FormInv, <1>3, ReloadLatestKeeps
<1>4. ASSUME NEW p \in Products, OpenEdit(p) PROVE FormInv'
  BY ONLY FormInv, <1>4, OpenEditKeeps
<1>5. ASSUME NEW p \in Products, Switch(p) PROVE FormInv'
  BY ONLY FormInv, <1>5, SwitchKeeps
<1>6. ASSUME NEW p \in Products, NEW text \in Texts, OthersSave(p, text) PROVE FormInv'
  BY ONLY FormInv, <1>6, OthersSaveKeeps
<1>7. ASSUME NEW p \in Products, NEW kind \in {"look", "act"}, Elsewhere(p, kind) PROVE FormInv'
  BY ONLY FormInv, <1>7, ElsewhereKeeps
<1>8. ASSUME NEW c \in wire, AnswersRead(c) \/ Acts(c) \/ Saves(c) \/ Rejects(c)
      PROVE  FormInv'
  BY ONLY FormInv, <1>8, ServerKeeps
<1>9. ASSUME NEW c \in wire, RecordLands(c) PROVE FormInv'
  BY ONLY FormInv, <1>9, OwnReadLands, OthersReadLands
<1>10. ASSUME NEW c \in wire, ReadFails(c) PROVE FormInv'
  BY ONLY FormInv, <1>10, ReadFailsKeeps
<1>11. ASSUME NEW c \in wire, ActLands(c) \/ ActFails(c) PROVE FormInv'
  BY ONLY FormInv, <1>11, ActLandsKeeps
<1>12. ASSUME NEW c \in wire, SaveLeaves(c) PROVE FormInv'
  BY ONLY FormInv, <1>12, SaveLeavesKeeps
<1>13. ASSUME NEW c \in wire, SaveWithdrawn(c) \/ SaveFails(c) PROVE FormInv'
  BY ONLY FormInv, <1>13, SaveEndsKeeps
<1>14. ASSUME NEW c \in wire, SaveLands(c) PROVE FormInv'
  BY ONLY FormInv, <1>14, SaveLandsKeeps
<1>15. CASE UNCHANGED formVars
  <2>1. /\ UNCHANGED <<editing, mount, id, record, held, form, stale, tags, wire, row, visits>>
        /\ UNCHANGED <<presses, changes, overwritten, misfiled, tangled>>
    BY <1>15 DEF formVars, page, shown, budget, past
  <2>2. /\ FormTypeOK' /\ CallsFit' /\ Alone' /\ ScreenFits' /\ Routed' /\ RowsFit' /\ Sound'
    BY <2>1 DEF FormInv, FormTypeOK, CallsFit, CallFits, Alone, ScreenFits, Routed, RowsFit, Sound,
                TagKept, RouteKept
  <2> QED BY <2>2 DEF FormInv
<1> QED BY <1>1, <1>2, <1>3, <1>4, <1>5, <1>6, <1>7, <1>8, <1>9, <1>10, <1>11, <1>12, <1>13,
           <1>14, <1>15 DEF FormNext

\* What a form accounts for, what its tag says and what its calls carry fit, but for the causes
\* named: the invariant the others follow from.
THEOREM FormFits == FormSpec => []FormInv
<1>1. FormInit => FormInv
  BY FormFitsFromTheStart
<1>2. FormInv /\ [FormNext]_formVars => FormInv'
  BY FormStepsKeep
<1> QED BY <1>1, <1>2, PTL DEF FormSpec

\* The variables keep their types, and a call belongs to a form that was built.
THEOREM FormTypeCorrect == FormSpec => []FormTypeOK
<1>1. FormInv => FormTypeOK
  BY DEF FormInv
<1> QED BY <1>1, FormFits, PTL

\* http/etag.ts, If-Match: no save goes over a change its form had never shown, whatever reads,
\* actions and saves overlap, unless an answer to another page moved or dropped the tag, the content
\* the form was filled from came back, or the form passed to another product in the middle of a save.
THEOREM OnlyTheTagOverwritesAlways == FormSpec => []OnlyTheTagOverwrites
<1>1. FormInv => OnlyTheTagOverwrites
  BY DEF FormInv, Sound, TagKept, OnlyTheTagOverwrites, NothingOverwritten
<1> QED BY <1>1, FormFits, PTL

\* ProductEdit.vue, the watch of the id: no product is saved with the content of another, unless
\* the read of the product routed to failed, was overtaken or brought what the form held already, or
\* a save was under way meanwhile.
THEOREM OnlyALateReadMisfilesAlways == FormSpec => []OnlyALateReadMisfiles
<1>1. FormInv => OnlyALateReadMisfiles
  BY DEF FormInv, Sound, RouteKept, OnlyALateReadMisfiles, SavedWhereItBelongs
<1> QED BY <1>1, FormFits, PTL
=============================================================================
