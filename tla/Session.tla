------------------------------- MODULE Session -------------------------------
(***************************************************************************)
(* infrastructure/session.ts with the interceptor that drives it           *)
(* (http/refresh.ts) and the guard that restores it                        *)
(* (app/guards/authentications.ts): the session as several tabs of one     *)
(* browser hold it.                                                        *)
(*                                                                         *)
(* Every request takes three steps: it leaves, the server answers it, the  *)
(* answer lands.  Between them anything else may happen: a sign-out, a     *)
(* message from another tab, another answer.  One landing is one           *)
(* macrotask: the promise continuations it runs are part of its action.    *)
(***************************************************************************)
EXTENDS Naturals, Sequences, SequencesExt

CONSTANTS Tabs, Persons,
          Pages,       \* the page requests a tab can have in flight
          Rereads,     \* bound: the re-reads of a session another tab opened, in flight in a tab
          Doors,       \* how a visitor comes to a session: "login", "signup"
          MaxSessions, \* bound on sign-ins
          MaxInputs,   \* bound on what visitors do, in each mode
          None

\* What a deployment's session.mode may say.
Modes == {"jwt", "cookie"}

ASSUME BoundsNat == MaxSessions \in Nat \ {0} /\ MaxInputs \in [Modes -> Nat]

\* Besides the pages' requests a tab has the read of GET /account a navigation waits for, the
\* single-flight re-read of the rules, and the re-reads another tab's sign-in asks for.
Guard == "guard"
Rules == "rules"
Reads == {Guard, Rules} \cup Rereads
Requests == Pages \cup Reads

ASSUME RequestsDistinct == Pages \cap Reads = {} /\ Rereads \cap {Guard, Rules} = {}

AnswerCodes == {"ok", "401", "403", "idle", "failed"}

ASSUME NoneIsNothing ==
    /\ None \notin Nat /\ None \notin Persons /\ None \notin AnswerCodes
    /\ None \notin [epoch : Nat, cookie : Nat \cup {None}, answer : AnswerCodes \cup {None}]

VARIABLES
    mode,     \* the deployment's session.mode, which never changes
    jar,      \* browser: the session the HttpOnly cookie names
    hint,     \* browser: the isAuth cookie a script can read
    owner,    \* server: who opened each session
    live,     \* server: the sessions it still honours
    revoked,  \* history: the sessions a sign-out is known to have ended
    tab,      \* each tab's session store
    refresh,  \* each tab's POST /account/refresh in flight
    req,      \* each tab's other requests
    login,    \* each tab's login or signup in flight
    logout,   \* each tab's sign-out in flight
    chan,     \* BroadcastChannel messages each tab has yet to hear
    open,     \* the tabs the visitors have opened
    left,     \* history: a tab signed out, and has heard of no sign-in since
    credEra,  \* history: the epoch in which the credential a tab holds was asked for
    inputs    \* how much the visitors have done

vars == <<mode, jar, hint, owner, live, revoked, tab, refresh, req, login, logout, chan, open, left, credEra, inputs>>
world == <<owner, live, revoked>>

Free == [at |-> "free", refreshed |-> FALSE, as |-> None, answer |-> None]
Restoring == [at |-> "restoring", refreshed |-> FALSE, as |-> None, answer |-> None]

NewTab == [token |-> None, cookieSession |-> FALSE, viewer |-> None, rules |-> None,
           epoch |-> 0, expired |-> 0, idle |-> 0]

\* A browser with no session, or one that a previous visit left signed in.
Init == /\ \/ jar = None /\ hint = FALSE /\ owner = <<>> /\ live = {}
           \/ /\ jar = 1 /\ hint = TRUE /\ live = {1}
              /\ \E p \in Persons : owner = <<p>>
        /\ revoked = {}
        /\ tab = [t \in Tabs |-> NewTab]
        /\ refresh = [t \in Tabs |-> None]
        /\ req = [t \in Tabs |-> [r \in Requests |-> Free]]
        /\ login = [t \in Tabs |-> None]
        /\ logout = [t \in Tabs |-> None]
        /\ chan = [t \in Tabs |-> <<>>]
        /\ open = {}
        /\ left = [t \in Tabs |-> FALSE]
        /\ credEra = [t \in Tabs |-> 0]
        /\ inputs = 0
        /\ mode \in Modes
-----------------------------------------------------------------------------
(* The store: what its functions make of one tab's state. *)

HasSession(s) == s.token # None \/ s.cookieSession

IsAuth(s) == HasSession(s) /\ s.viewer # None

\* setAccessToken, startCookieSession, setAbilities
WithToken(s, session) == [s EXCEPT !.token = session]
WithCookie(s) == [s EXCEPT !.cookieSession = TRUE]
WithRules(s, p) == [s EXCEPT !.rules = p]

\* setViewer, with the rules that came along
Identified(s, p) == [WithRules(s, p) EXCEPT !.viewer = p]

\* Slip: the cookie's marker survives the clear.
EndedKeepingCookie(s, expired, idle) ==
    [token |-> None, cookieSession |-> s.cookieSession, viewer |-> None, rules |-> None,
     epoch |-> s.epoch + 1, expired |-> s.expired + expired, idle |-> s.idle + idle]

\* clearSessionLocally, with what it leaves to say
Ended(s, expired, idle) ==
    [token |-> None, cookieSession |-> FALSE, viewer |-> None, rules |-> None,
     epoch |-> s.epoch + 1, expired |-> s.expired + expired, idle |-> s.idle + idle]

\* clearSession says nothing; signalExpired and signalIdle each their sentence
Cleared(s) == Ended(s, 0, 0)
Expired(s) == Ended(s, 1, 0)
Idled(s) == Ended(s, 0, 1)

\* adoptSession without its broadcast
Adopted(s, session) == IF mode = "cookie" THEN WithCookie(s) ELSE WithToken(s, session)

\* The credential a request leaves with: the token the tab holds now, or the cookie.
Carried(s, cookie) == IF mode = "jwt" THEN s.token ELSE cookie

Sent(s, cookie, again) == [at |-> "sent", refreshed |-> again, as |-> Carried(s, cookie), answer |-> None]

Answered(q, a) == [at |-> "answered", refreshed |-> q.refreshed, as |-> q.as, answer |-> a]

\* A request whose 401 waits for the refresh.
Parked(q) == [at |-> "parked", refreshed |-> q.refreshed, as |-> q.as, answer |-> q.answer]

\* refreshToken: one attempt per tab, remembering the epoch it answers for.
Refreshing(t) == IF refresh[t] # None THEN refresh[t]
                 ELSE [epoch |-> tab[t].epoch, cookie |-> jar, answer |-> None]

\* A message to every other open tab.
Post(t, message) == [u \in Tabs |-> IF u = t \/ u \notin open THEN chan[u] ELSE Append(chan[u], message)]

-----------------------------------------------------------------------------
(* The server, as the client's contract (openapi.yaml) describes it. *)

\* What it may answer to a request that carries session s: an access token may have run out, and
\* may outlive its session; a cookie names a live session or nothing.
Answers(s) ==
    {"failed"} \cup
    (IF s = None THEN {"401"}
     ELSE IF mode = "jwt" THEN {"ok", "403", "401"} \cup (IF s \in live THEN {"idle"} ELSE {})
     ELSE IF s \in live THEN {"ok", "403", "idle"} ELSE {"401"})

ServerAnswers(t, r) ==
    /\ req[t][r].at = "sent"
    /\ \E a \in Answers(req[t][r].as) :
          /\ req' = [req EXCEPT ![t][r] = Answered(@, a)]
          /\ live' = IF a = "idle" THEN live \ {req[t][r].as} ELSE live
    /\ UNCHANGED <<jar, hint, owner, revoked, tab, refresh, login, logout, chan, open, left, credEra, inputs, mode>>

\* The refresh token is renewed within its session, which a dead session's is not.
ServerRefreshes(t) ==
    /\ refresh[t] # None /\ refresh[t].answer = None
    /\ \E a \in {"failed"} \cup (IF refresh[t].cookie \in live THEN {"ok", "idle"} ELSE {"401"}) :
          /\ refresh' = [refresh EXCEPT ![t].answer = a]
          /\ live' = IF a = "idle" THEN live \ {refresh[t].cookie} ELSE live
    /\ UNCHANGED <<jar, hint, owner, revoked, tab, req, login, logout, chan, open, left, credEra, inputs, mode>>

\* A login or a signup opens a session, or is refused.
ServerSignsIn(t) ==
    /\ login[t] # None /\ login[t].session = None /\ ~login[t].refused
    /\ \/ /\ Len(owner) < MaxSessions
          /\ owner' = Append(owner, login[t].person)
          /\ live' = live \cup {Len(owner) + 1}
          /\ login' = [login EXCEPT ![t].session = Len(owner) + 1]
       \/ /\ login' = [login EXCEPT ![t].refused = TRUE]
          /\ UNCHANGED <<owner, live>>
    /\ UNCHANGED <<jar, hint, revoked, tab, refresh, req, logout, chan, open, left, credEra, inputs, mode>>

\* A sign-out ends the session its cookie names; it may not reach the server, and its answer may
\* not come back.
ServerSignsOut(t) ==
    /\ logout[t] # None /\ logout[t].at = "sent"
    /\ \E a \in {"ok", "failed"}, reached \in BOOLEAN :
          /\ a = "ok" => reached
          /\ logout' = [logout EXCEPT ![t] = [at |-> "answered", cookie |-> @.cookie, ok |-> (a = "ok")]]
          /\ live' = IF reached THEN live \ {logout[t].cookie} ELSE live
    /\ UNCHANGED <<jar, hint, owner, revoked, tab, refresh, req, login, chan, open, left, credEra, inputs, mode>>
-----------------------------------------------------------------------------
(* Answers landing in a tab. *)

\* Slip: the other tabs are not told.
EndSessionHereOnly(t, ended) ==
    /\ tab' = [tab EXCEPT ![t] = ended]
    /\ hint' = FALSE
    /\ UNCHANGED chan

\* The session of tab t ends here and in the other tabs: clearSession, around signalExpired or
\* signalIdle.  The hint cookie goes with it.
EndSession(t, ended) ==
    /\ tab' = [tab EXCEPT ![t] = ended]
    /\ chan' = Post(t, "logout")
    /\ hint' = FALSE

\* An account read fills in the viewer and the rules; the re-read of the rules only those.
ReadLands(t, r) ==
    LET p == owner[req[t][r].as] IN
    /\ req[t][r].answer = "ok"
    /\ tab' = [tab EXCEPT ![t] = IF r = Rules THEN WithRules(@, p) ELSE Identified(@, p)]
    /\ req' = [req EXCEPT ![t][r] = Free]
    /\ UNCHANGED <<refresh, chan, hint>>

\* The server ended the session for inactivity, whichever request learns it.
IdleRefusalLands(t, r) ==
    /\ req[t][r].answer = "idle"
    /\ EndSession(t, Idled(tab[t]))
    /\ req' = [req EXCEPT ![t][r] = Free]
    /\ UNCHANGED refresh

\* jwt: a first 401 parks the request behind the one refresh.  cookie: it ends the session held.
UnauthorizedLands(t, r) ==
    /\ req[t][r].answer = "401" /\ ~req[t][r].refreshed
    /\ IF mode = "jwt"
       THEN /\ refresh' = [refresh EXCEPT ![t] = Refreshing(t)]
            /\ req' = [req EXCEPT ![t][r] = Parked(@)]
            /\ UNCHANGED <<tab, chan, hint>>
       ELSE /\ req' = [req EXCEPT ![t][r] = Free]
            /\ UNCHANGED refresh
            /\ IF HasSession(tab[t]) THEN EndSession(t, Expired(tab[t]))
                                     ELSE UNCHANGED <<tab, chan, hint>>

\* A 403 on a signed-in page request re-reads the rules, once at a time; one on GET /account does
\* not.
ForbiddenLands(t, r) ==
    /\ req[t][r].answer = "403"
    /\ req' = [req EXCEPT ![t] =
          IF r \in Pages /\ IsAuth(tab[t]) /\ req[t][Rules].at = "free"
          THEN [q \in Requests |-> IF q = r THEN Free
                                   ELSE IF q = Rules THEN Sent(tab[t], jar, FALSE) ELSE @[q]]
          ELSE [@ EXCEPT ![r] = Free]]
    /\ UNCHANGED <<tab, refresh, chan, hint>>

\* Anything else changes nothing here: a page's own answer, a failure, a second 401.
OtherLands(t, r) ==
    /\ \/ req[t][r].answer = "failed"
       \/ req[t][r].answer = "ok" /\ r \in Pages
       \/ req[t][r].answer = "401" /\ req[t][r].refreshed
    /\ req' = [req EXCEPT ![t][r] = Free]
    /\ UNCHANGED <<tab, refresh, chan, hint>>

RequestLands(t, r) ==
    /\ req[t][r].at = "answered"
    /\ \/ r \in Reads /\ ReadLands(t, r)
       \/ IdleRefusalLands(t, r)
       \/ UnauthorizedLands(t, r)
       \/ ForbiddenLands(t, r)
       \/ OtherLands(t, r)
    /\ UNCHANGED <<jar, world, login, logout, open, left, credEra, inputs, mode>>

\* Slip: only a refresh that brought a token lets the others go.
ResumedByATokenOnly(q, r, s, cookie, got) ==
    IF q.at = "parked" THEN IF got THEN Sent(s, cookie, TRUE) ELSE q
    ELSE IF q.at = "restoring" THEN IF HasSession(s) THEN Sent(s, cookie, FALSE) ELSE Free
    ELSE q

\* Slip: the replay does not say that it is one.
ResumedUnmarked(q, r, s, cookie, got) ==
    IF q.at = "parked" THEN IF got THEN Sent(s, cookie, FALSE) ELSE Free
    ELSE IF q.at = "restoring" THEN IF HasSession(s) THEN Sent(s, cookie, FALSE) ELSE Free
    ELSE q

\* What the request r of a tab does when the refresh it waits for has settled: a parked one is
\* replayed if a token came back, whoever it is for; a restore goes on to read who is signed in.
Resumed(q, r, s, cookie, got) ==
    IF q.at = "parked"
    THEN IF got THEN Sent(s, cookie, TRUE) ELSE Free
    ELSE IF q.at = "restoring"
    THEN IF HasSession(s) /\ (r = Guard => s.viewer = None) THEN Sent(s, cookie, FALSE) ELSE Free
    ELSE q

\* The token and, for an identified visitor, the rules a renewal brings.
Renewed(s, session) ==
    IF s.viewer = None THEN WithToken(s, session)
                       ELSE WithRules(WithToken(s, session), owner[session])

\* Slip: the answer acts in whatever epoch it lands.
SettledInAnyEpoch(s, r) ==
    IF r.answer \in {"401", "idle"} THEN Expired(s)
    ELSE IF r.answer = "ok" THEN Renewed(s, r.cookie)
    ELSE s

\* What refreshToken's own continuations make of the answer r: nothing if the epoch has moved.
Settled(s, r) ==
    IF r.epoch # s.epoch THEN s
    ELSE IF r.answer \in {"401", "idle"} THEN Expired(s)
    ELSE IF r.answer = "ok" THEN Renewed(s, r.cookie)
    ELSE s

\* What the refresh's answer makes of the tab that asked.  An idle refusal is a 401 as well: the
\* interceptor ends the session first, and the epoch it bumps keeps the store from ending it again.
Refreshed(s, r) == Settled(IF r.answer = "idle" THEN Idled(s) ELSE s, r)

\* The refresh settles: its cookie is stored, the store acts on it, then whoever waited goes on,
\* the sign-out included.
RefreshLands(t) ==
    LET r == refresh[t]
        s == Refreshed(tab[t], r)
        cookie == IF r.answer = "ok" THEN r.cookie ELSE jar
        ended == s.epoch # tab[t].epoch
    IN
    /\ r # None /\ r.answer # None
    /\ jar' = cookie
    /\ tab' = [tab EXCEPT ![t] = s]
    /\ hint' = IF ended THEN FALSE ELSE (r.answer = "ok" \/ hint)
    /\ chan' = IF ended THEN Post(t, "logout") ELSE chan
    /\ credEra' = IF s.token # tab[t].token THEN [credEra EXCEPT ![t] = r.epoch] ELSE credEra
    /\ refresh' = [refresh EXCEPT ![t] = None]
    /\ req' = [req EXCEPT ![t] = [q \in Requests |-> Resumed(@[q], q, s, cookie, r.answer = "ok")]]
    /\ logout' = IF logout[t] # None /\ logout[t].at = "waiting"
                 THEN [logout EXCEPT ![t] = [at |-> "sent", cookie |-> cookie, ok |-> FALSE]]
                 ELSE logout
    /\ UNCHANGED <<world, login, open, left, inputs, mode>>

\* login (stores/auth.ts): adopts the session, tells the other tabs, and publishes the viewer the
\* answer carries.  A signup's answer sets cookies and nothing else.
LoginLands(t) ==
    LET l == login[t] IN
    /\ l # None /\ (l.session # None \/ l.refused)
    /\ login' = [login EXCEPT ![t] = None]
    /\ IF l.refused THEN UNCHANGED <<jar, hint, tab, chan, left, credEra>>
       ELSE /\ jar' = l.session
            /\ left' = [u \in Tabs |-> FALSE]
            /\ hint' = TRUE
            /\ IF l.door = "signup" THEN UNCHANGED <<tab, chan, credEra>>
               ELSE /\ tab' = [tab EXCEPT ![t] = Identified(Adopted(@, l.session), l.person)]
                    /\ chan' = Post(t, "login")
                    /\ credEra' = [credEra EXCEPT ![t] = tab[t].epoch]
    /\ UNCHANGED <<world, refresh, req, logout, open, inputs, mode>>

\* The sign-out settles: local state clears whatever the answer; a good one clears the cookie.
LogoutLands(t) ==
    /\ logout[t] # None /\ logout[t].at = "answered"
    /\ jar' = IF logout[t].ok THEN None ELSE jar
    /\ EndSession(t, Cleared(tab[t]))
    /\ revoked' = IF logout[t].cookie # None /\ logout[t].cookie \notin live
                  THEN revoked \cup {logout[t].cookie} ELSE revoked
    /\ logout' = [logout EXCEPT ![t] = None]
    /\ left' = [left EXCEPT ![t] = TRUE]
    /\ UNCHANGED <<owner, live, refresh, req, login, open, credEra, inputs, mode>>

\* restoreFromCookies for the read r, then loadViewer: jwt waits for a refresh, cookie mode has
\* nothing to ask and reads at once.
Restore(t, r) ==
    /\ req[t][r].at = "free"
    /\ IF mode = "jwt"
       THEN /\ refresh' = [refresh EXCEPT ![t] = Refreshing(t)]
            /\ req' = [req EXCEPT ![t][r] = Restoring]
            /\ UNCHANGED <<tab, credEra>>
       ELSE /\ tab' = [tab EXCEPT ![t] = WithCookie(@)]
            /\ credEra' = [credEra EXCEPT ![t] = tab[t].epoch]
            /\ req' = IF r # Guard \/ tab[t].viewer = None
                      THEN [req EXCEPT ![t][r] = Sent(tab[t], jar, FALSE)] ELSE req
            /\ UNCHANGED refresh

\* onBroadcast: another tab signed out, or in.
Hear(t) ==
    /\ chan[t] # <<>>
    /\ chan' = [chan EXCEPT ![t] = Tail(@)]
    /\ \/ /\ Head(chan[t]) = "logout"
          /\ tab' = [tab EXCEPT ![t] = Cleared(@)]
          /\ hint' = FALSE
          /\ UNCHANGED <<refresh, req, left, credEra>>
       \/ /\ Head(chan[t]) = "login"
          /\ \E r \in Rereads : Restore(t, r)
          /\ left' = [left EXCEPT ![t] = FALSE]
          /\ UNCHANGED hint
    /\ UNCHANGED <<jar, world, login, logout, open, inputs, mode>>
-----------------------------------------------------------------------------
(* What visitors do. *)

\* A tab is opened: its first navigation runs tryRestoreAuth, which restores the session the hint
\* cookie promises.
Open(t) ==
    /\ t \notin open /\ open' = open \cup {t}
    /\ IF hint THEN Restore(t, Guard) ELSE UNCHANGED <<tab, refresh, req, credEra>>
    /\ UNCHANGED <<jar, hint, world, login, logout, chan, left, inputs, mode>>

Act(t) == t \in open /\ inputs < MaxInputs[mode] /\ inputs' = inputs + 1 /\ UNCHANGED mode

\* A later navigation that has something to do: a session to restore, or one to identify.
Navigate(t) ==
    /\ Act(t)
    /\ \/ /\ ~HasSession(tab[t]) /\ hint
          /\ Restore(t, Guard)
       \/ /\ HasSession(tab[t]) /\ tab[t].viewer = None /\ req[t][Guard].at = "free"
          /\ req' = [req EXCEPT ![t][Guard] = Sent(tab[t], jar, FALSE)]
          /\ UNCHANGED <<tab, refresh, credEra>>
    /\ UNCHANGED <<jar, hint, world, login, logout, chan, open, left>>

\* A page asks for something.
Ask(t, r) ==
    /\ Act(t)
    /\ req[t][r].at = "free"
    /\ req' = [req EXCEPT ![t][r] = Sent(tab[t], jar, FALSE)]
    /\ UNCHANGED <<jar, hint, world, tab, refresh, login, logout, chan, open, left, credEra>>

\* A guest signs in or up as p, on a page no navigation is leaving.
SignIn(t, p, door) ==
    /\ Act(t)
    /\ ~IsAuth(tab[t]) /\ login[t] = None /\ req[t][Guard].at = "free"
    /\ login' = [login EXCEPT ![t] =
          [person |-> p, door |-> door, session |-> None, refused |-> FALSE]]
    /\ UNCHANGED <<jar, hint, world, tab, refresh, req, logout, chan, open, left, credEra>>

\* Sign-out: waits for a refresh in flight before it asks the server.
SignOut(t) ==
    /\ Act(t)
    /\ IsAuth(tab[t]) /\ logout[t] = None
    /\ logout' = [logout EXCEPT ![t] =
          [at |-> IF refresh[t] = None THEN "sent" ELSE "waiting", cookie |-> jar, ok |-> FALSE]]
    /\ UNCHANGED <<jar, hint, world, tab, refresh, req, login, chan, open, left, credEra>>

\* The idle clock of a signed-in tab runs out (IdleSessionDialog.vue).
ClockRunsOut(t) ==
    /\ Act(t)
    /\ IsAuth(tab[t])
    /\ EndSession(t, Idled(tab[t]))
    /\ UNCHANGED <<jar, world, refresh, req, login, logout, open, left, credEra>>

System(t) == \/ \E r \in Requests : ServerAnswers(t, r) \/ RequestLands(t, r)
             \/ ServerRefreshes(t) \/ ServerSignsIn(t) \/ ServerSignsOut(t)
             \/ RefreshLands(t) \/ LoginLands(t) \/ LogoutLands(t)
             \/ Hear(t)

Visitor(t) == \/ Open(t) \/ Navigate(t)
              \/ \E r \in Pages : Ask(t, r)
              \/ \E p \in Persons, door \in Doors : SignIn(t, p, door)
              \/ SignOut(t) \/ ClockRunsOut(t)

Next == \E t \in Tabs : System(t) \/ Visitor(t)

\* Requests are answered or fail, and the event loop delivers what has arrived; nothing obliges a
\* visitor.
Fairness == \A t \in Tabs : WF_vars(System(t))

Spec == Init /\ [][Next]_vars

FairSpec == Spec /\ Fairness
-----------------------------------------------------------------------------
\* The sessions opened so far.
Known == 1..Len(owner)

TabState == [token : Known \cup {None}, cookieSession : BOOLEAN, viewer : Persons \cup {None},
             rules : Persons \cup {None}, epoch : Nat, expired : Nat, idle : Nat]
RefreshState == [epoch : Nat, cookie : Known \cup {None},
                 answer : AnswerCodes \cup {None}]
RequestState == [at : {"free", "restoring", "sent", "answered", "parked"}, refreshed : BOOLEAN,
                 as : Known \cup {None}, answer : AnswerCodes \cup {None}]
LoginState == [person : Persons, door : Doors, session : Known \cup {None}, refused : BOOLEAN]
LogoutState == [at : {"waiting", "sent", "answered"}, cookie : Known \cup {None}, ok : BOOLEAN]

TypeOK ==
    /\ jar \in Known \cup {None} /\ hint \in BOOLEAN
    /\ owner \in Seq(Persons) /\ Len(owner) <= MaxSessions
    /\ live \subseteq Known /\ revoked \subseteq Known
    /\ tab \in [Tabs -> TabState]
    /\ refresh \in [Tabs -> RefreshState \cup {None}]
    /\ req \in [Tabs -> [Requests -> RequestState]]
    /\ login \in [Tabs -> LoginState \cup {None}]
    /\ logout \in [Tabs -> LogoutState \cup {None}]
    /\ chan \in [Tabs -> Seq({"login", "logout"})]
    /\ open \subseteq Tabs /\ left \in [Tabs -> BOOLEAN] /\ credEra \in [Tabs -> Nat]
    /\ mode \in Modes /\ inputs \in 0..MaxInputs[mode]

\* A credential a tab holds was asked for in the tab's present epoch: a refresh that left before
\* the session ended never brings it back (session.ts:232-236).
NoCredentialFromEarlierEra == \A t \in Tabs : HasSession(tab[t]) => credEra[t] = tab[t].epoch

\* Signing out in one tab takes the token from all of them: a tab still holding the token of a
\* session a sign-out ended has the news on its way (session.ts:696-703).
RevokedIsDropped ==
    \A t \in Tabs : tab[t].token \in revoked => \E i \in 1..Len(chan[t]) : chan[t][i] = "logout"

\* One death, one sentence: no step tells a visitor both that the session expired and that it sat
\* idle, though the refusal of an idle session passes through both handlers.
OneSentence == [][\A t \in Tabs : tab'[t].expired = tab[t].expired \/ tab'[t].idle = tab[t].idle]_vars

\* Whoever waits for a refresh, a request to be replayed, a restore or a sign-out, waits for one
\* that is in flight: no answer leaves somebody behind.
NobodyWaitsForNothing ==
    \A t \in Tabs :
        (\/ \E r \in Requests : req[t][r].at \in {"parked", "restoring"}
         \/ logout[t] # None /\ logout[t].at = "waiting") => refresh[t] # None

\* In cookie mode a visitor who signed out stays out until somebody signs in (session.ts:236,
\* 738-740).  jwt mode does not promise it: see the README.
SignedOutStaysOut == mode = "cookie" => \A t \in Tabs : left[t] => ~HasSession(tab[t])

\* In cookie mode a visitor who signed out is never told that the session expired (session.ts:242-243,
\* 713-714).
NeverToldAfterSignOut == [][mode = "cookie" => \A t \in Tabs : tab'[t].expired # tab[t].expired => ~left[t]]_vars

\* A refresh that lands after the session it was for ended is moot: nobody is replayed on its token
\* (session.ts:520-521).
MootRefreshReplaysNothing ==
    [][\A t \in Tabs : refresh[t] # None /\ refresh'[t] = None /\ refresh[t].epoch # tab[t].epoch =>
          \A r \in Requests : req[t][r].at = "parked" => req'[t][r].at # "sent"]_vars

AtRest == \A t \in Tabs : /\ refresh[t] = None /\ login[t] = None /\ logout[t] = None
                          /\ chan[t] = <<>>
                          /\ \A r \in Requests : req[t][r].at = "free"

\* A sign-in reaches every tab: at rest the signed-in tabs show one and the same person
\* (session.ts:396-398).
TabsAgreeAtRest ==
    AtRest => \A t, u \in Tabs : IsAuth(tab[t]) /\ IsAuth(tab[u]) => tab[t].viewer = tab[u].viewer

\* Refreshes, replays, re-reads and broadcasts always come to an end.
Quiesces == <>[]AtRest
=============================================================================
