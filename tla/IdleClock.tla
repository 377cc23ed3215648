----------------------------- MODULE IdleClock -----------------------------
(***************************************************************************)
(* The staff idle timeout as the tabs of one browser keep it: the clock of *)
(* infrastructure/session.ts, the "still there?" prompt that counts it     *)
(* down (app/components/IdleSessionDialog.vue), and the requests and       *)
(* broadcasts that move it (http/interceptors.ts).                         *)
(*                                                                         *)
(* The server keeps a clock of its own per session, and has the last word. *)
(* A request moves the tab's clock as it leaves and the server's as it is  *)
(* handled; an answer may bring the server's back; each tab tells the      *)
(* others.  The two computers' clocks may be set apart.                    *)
(***************************************************************************)
EXTENDS Integers, Sequences, FiniteSets

CONSTANTS Tabs,
          Timeout,     \* how long a staff session may sit unused
          Warning,     \* WARN_BEFORE_MS
          Skew,        \* how far this computer's clock is ahead of the server's
          Latency,     \* the longest a request takes: axios gives it up
          MaxTime,     \* bound on the server's time
          MaxRequests, \* bound on requests
          MaxSessions  \* bound on sessions

ASSUME ClockBounds == /\ Timeout \in Nat \ {0} /\ Warning \in Nat \ {0} /\ Skew \in Nat /\ Latency \in Nat
                      /\ MaxTime \in Nat /\ MaxRequests \in Nat /\ MaxSessions \in Nat \ {0}

VARIABLES
    hour,     \* the server's time
    session,  \* the server's sessions, by number: whether staff, last active, still open
    jar,      \* the session this browser's cookie names; 0: none
    held,     \* the session whose credential a tab holds; 0: none
    idle,     \* a tab's idle.lastActiveAt
    seen,     \* a tab's `now`, as of its last tick
    news,     \* the broadcasts each tab has yet to hear
    requests, \* those in flight
    sent,     \* how many left
    acted,    \* history: when somebody last acted in a tab of a session
    putBack,  \* history: the tabs whose clock was set by something older than it, or another's
    between   \* history: what came between the tabs' clocks and the server's

server == <<session, jar>>
tabs == <<held, idle, news>>
clockHistory == <<acted, putBack, between>>
clockVars == <<hour, server, tabs, seen, requests, sent, clockHistory>>

NoClock == -1
Numbers == 0 .. MaxSessions
Messages == [type : {"activity"}, at : Nat] \cup [type : {"login", "logout"}, at : {0}]
Errands == {"page", "poll", "touch", "account", "login", "logout"}
Request == [tab : Tabs, what : Errands, as : Numbers, staff : BOOLEAN, at : Nat, left : Nat,
            status : {"sent", "done", "refused", "idle"}]

ClockInit ==
    /\ hour = 0
    /\ session = <<[staff |-> TRUE, last |-> 0, open |-> TRUE]>> /\ jar = 1
    /\ held = [t \in Tabs |-> 1] /\ idle \in [Tabs -> {Skew, NoClock}]
    /\ seen = [t \in Tabs |-> Skew] /\ news = [t \in Tabs |-> <<>>]
    /\ requests = {} /\ sent = 0
    /\ acted = [s \in 1 .. MaxSessions |-> 0] /\ putBack = {} /\ between = {}

-----------------------------------------------------------------------------
(* What a tab does to its clock, and tells the others *)

Now == hour + Skew

Told(t, messages, mail) == [u \in Tabs |-> IF u = t THEN mail[u] ELSE mail[u] \o messages]
Active == <<[type |-> "activity", at |-> Now]>>
Login == <<[type |-> "login", at |-> 0]>>
Logout == <<[type |-> "logout", at |-> 0]>>

Remaining(t) == idle[t] + Timeout - seen[t]
isOpen(t) == idle[t] # NoClock /\ Remaining(t) > 0 /\ Remaining(t) <= Warning

clearSessionLocally(t) == /\ held' = [held EXCEPT ![t] = 0] /\ idle' = [idle EXCEPT ![t] = NoClock]
                          /\ putBack' = putBack \ {t}

clearSession(t) == clearSessionLocally(t) /\ news' = Told(t, Logout, news)

\* Slip: the other tabs are not told.
MarksAlone(t, mail) == idle' = [idle EXCEPT ![t] = Now] /\ news' = mail

MarksAndTells(t, mail) == idle' = [idle EXCEPT ![t] = Now] /\ news' = Told(t, Active, mail)

\* noteActivity, as a request leaves; a tab without a session or a clock skips it.
noteActivity(t, mail) == IF held'[t] = 0 \/ idle[t] = NoClock
                         THEN news' = mail /\ UNCHANGED <<idle, putBack>>
                         ELSE MarksAndTells(t, mail) /\ putBack' = putBack \ {t}

\* Somebody acts in a tab.
Acts(t) ==
    LET s == held[t]
    IN  /\ noteActivity(t, news)
        /\ acted' = IF s = 0 THEN acted ELSE [acted EXCEPT ![s] = hour]
        /\ between' = between \cup (IF s # 0 /\ idle[t] = NoClock THEN {"unclocked"} ELSE {})
                              \cup (IF s \notin {0, jar} THEN {"replaced"} ELSE {})

\* applyActivity: the answer's clock replaces the tab's; the others are told of this moment, not of
\* the server's.
applyActivity(t, c, before) ==
    /\ idle' = [idle EXCEPT ![t] = IF c.staff THEN c.at ELSE NoClock]
    /\ news' = Told(t, before \o (IF c.staff THEN Active ELSE <<>>), news)
    /\ putBack' = IF c.as = held'[t] /\ acted'[c.as] <= c.at THEN putBack \ {t} ELSE putBack \cup {t}
    /\ between' = between \cup (IF c.staff /\ c.at < hour THEN {"echoed"} ELSE {})
                          \cup (IF c.staff /\ c.as # jar' THEN {"replaced"} ELSE {})

-----------------------------------------------------------------------------
(* Time, and the people at the tabs *)

\* A second; a tab that has not ticked in the last one was asleep.
Pass == /\ hour < MaxTime /\ hour' = hour + 1
        /\ \A c \in requests : hour - c.left < Latency
        /\ between' = IF \E t \in Tabs : seen[t] # Now THEN between \cup {"slept"} ELSE between
        /\ UNCHANGED <<server, tabs, seen, requests, sent, acted, putBack>>

\* Slip: the session ends as the prompt would open.
RunsOutWarned(t) == idle[t] # NoClock /\ idle[t] + Timeout <= Now + Warning

RunsOut(t) == idle[t] # NoClock /\ idle[t] + Timeout <= Now

Tick(t) == /\ seen[t] # Now \/ RunsOut(t)
           /\ seen' = [seen EXCEPT ![t] = Now]
           /\ IF RunsOut(t) THEN clearSession(t) ELSE UNCHANGED <<tabs, putBack>>
           /\ UNCHANGED <<hour, server, requests, sent, acted, between>>

\* The credential of a tab's request: its token's session, or what the browser's cookie names.
Leaves(t, what, as, staff) ==
    /\ sent < MaxRequests /\ sent' = sent + 1
    /\ requests' = requests \cup {[tab |-> t, what |-> what, as |-> as, staff |-> staff, at |-> 0,
                                   left |-> hour, status |-> "sent"]}
    /\ UNCHANGED <<hour, server, seen>>

\* Slip: reads the app makes on its own count as the person acting.
PollsActively(t) == noteActivity(t, news) /\ UNCHANGED <<acted, between>>

\* A request marked passive does not move the clock.
PollsPassively(t) == UNCHANGED <<idle, news, clockHistory>>

\* A tab whose account was not read yet reads it as its person goes to a page.
Act(t) == /\ held[t] # 0 /\ UNCHANGED held /\ Acts(t)
          /\ \E as \in {held[t], jar} : \/ Leaves(t, "page", as, FALSE)
                                        \/ idle[t] = NoClock /\ Leaves(t, "account", as, FALSE)

Poll(t) == /\ held[t] # 0 /\ UNCHANGED held /\ PollsPassively(t)
           /\ \E as \in {held[t], jar} : Leaves(t, "poll", as, FALSE)

Stay(t) == /\ isOpen(t) /\ UNCHANGED held /\ Acts(t)
           /\ \E as \in {held[t], jar} : Leaves(t, "touch", as, FALSE)

\* From the menu, or the prompt's other button.
LogOut(t) == /\ held[t] # 0 \/ isOpen(t)
             /\ UNCHANGED held /\ Acts(t)
             /\ Leaves(t, "logout", jar, FALSE)

LogIn(t, staff) ==
    /\ held[t] = 0
    /\ Len(session) + Cardinality({c \in requests : c.what = "login" /\ c.status = "sent"}) < MaxSessions
    /\ Leaves(t, "login", 0, staff)
    /\ UNCHANGED <<tabs, clockHistory>>

-----------------------------------------------------------------------------
(* The server *)

Answered(c, answer) == requests' = (requests \ {c}) \cup {answer}

Valid(c) == c.as # 0 /\ session[c.as].open

OpensSession(c) ==
    /\ c.status = "sent" /\ c.what = "login"
    /\ session' = Append(session, [staff |-> c.staff, last |-> hour, open |-> TRUE])
    /\ Answered(c, [c EXCEPT !.status = "done", !.as = Len(session) + 1, !.at = hour])
    /\ UNCHANGED <<hour, jar, tabs, seen, sent, clockHistory>>

IdledOut(s) == session[s].staff /\ hour - session[s].last > Timeout

\* Every request but a passive one counts as the person acting.  A page's answer, or a poll's, is
\* nothing to the clock.
Serves(c) ==
    /\ c.status = "sent" /\ c.what # "login" /\ Valid(c) /\ ~IdledOut(c.as)
    /\ LET last == IF c.what = "poll" THEN session[c.as].last ELSE hour
       IN  /\ session' = [session EXCEPT ![c.as].last = last, ![c.as].open = c.what # "logout"]
           /\ IF c.what \in {"page", "poll"}
              THEN requests' = requests \ {c}
              ELSE Answered(c, [c EXCEPT !.status = "done", !.at = last, !.staff = session[c.as].staff])
    /\ UNCHANGED <<hour, jar, tabs, seen, sent, clockHistory>>

\* SESSION_IDLE: the session is removed.
RefusesIdle(c) ==
    /\ c.status = "sent" /\ c.what # "login" /\ Valid(c) /\ IdledOut(c.as)
    /\ session' = [session EXCEPT ![c.as].open = FALSE]
    /\ Answered(c, [c EXCEPT !.status = "idle"])
    /\ UNCHANGED <<hour, jar, tabs, seen, sent, clockHistory>>

Refuses(c) ==
    /\ c.status = "sent" /\ c.what # "login" /\ ~Valid(c)
    /\ Answered(c, [c EXCEPT !.status = "refused"])
    /\ UNCHANGED <<hour, server, tabs, seen, sent, clockHistory>>

-----------------------------------------------------------------------------
(* Answers, failures and broadcasts *)

Over(c) == requests' = requests \ {c} /\ UNCHANGED <<hour, session, seen, sent>>

\* adoptSession and publishViewer: one sign-in, two broadcasts.
LoginLands(c) ==
    /\ c.what = "login" /\ c.status = "done" /\ Over(c)
    /\ jar' = c.as /\ held' = [held EXCEPT ![c.tab] = c.as]
    /\ acted' = [acted EXCEPT ![c.as] = c.at]
    /\ applyActivity(c.tab, c, Login)

\* touchSession's answer, and loadViewer's: neither asks which session it was for.
ClockLands(c) ==
    /\ c.what \in {"touch", "account"} /\ c.status = "done" /\ Over(c)
    /\ UNCHANGED <<jar, held, acted>>
    /\ applyActivity(c.tab, c, <<>>)

\* signalIdle, whosever session it was.
IdleLands(c) == /\ c.status = "idle" /\ Over(c) /\ clearSession(c.tab)
                /\ UNCHANGED <<jar, acted, between>>

\* A credential that names no session: the tab's ends, unless a refresh finds another.
RefusalLands(c) == /\ c.status = "refused" /\ c.what # "logout" /\ Over(c)
                   /\ \/ held[c.tab] # 0 /\ clearSession(c.tab)
                      \/ UNCHANGED <<tabs, putBack>>
                   /\ UNCHANGED <<jar, acted, between>>

\* logout's `finally`, however the call ended.
LogoutLands(c) == /\ c.what = "logout" /\ c.status \in {"sent", "done", "refused"} /\ Over(c)
                  /\ jar' = IF c.status = "done" THEN 0 ELSE jar
                  /\ clearSession(c.tab) /\ UNCHANGED <<acted, between>>

\* No answer, before or after the server acted.  A failed touch is quiet.
GivesUp(c) == /\ c.what # "logout" /\ Over(c)
              /\ between' = IF c.status = "sent" THEN between \cup {"lost"} ELSE between
              /\ UNCHANGED <<jar, tabs, acted, putBack>>

\* markActive, with no question asked of how old the news is.
HearsActivity(t, message) ==
    /\ message.type = "activity"
    /\ idle' = IF idle[t] = NoClock THEN idle ELSE [idle EXCEPT ![t] = message.at]
    /\ putBack' = IF message.at < idle[t] THEN putBack \cup {t} ELSE putBack
    /\ news' = [news EXCEPT ![t] = Tail(@)]
    /\ UNCHANGED <<held, requests, sent, acted, between>>

HearsLogout(t, message) ==
    /\ message.type = "logout" /\ clearSessionLocally(t)
    /\ news' = [news EXCEPT ![t] = Tail(@)]
    /\ UNCHANGED <<requests, sent, acted, between>>

\* rereadSession: what the browser's cookie names now, and GET /account; or it fails.
HearsLogin(t, message) ==
    /\ message.type = "login"
    /\ LET mail == [news EXCEPT ![t] = Tail(@)]
       IN  \/ /\ jar # 0 /\ held' = [held EXCEPT ![t] = jar]
              /\ noteActivity(t, mail) /\ UNCHANGED <<acted, between>>
              /\ Leaves(t, "account", jar, FALSE)
           \/ news' = mail /\ UNCHANGED <<held, idle, requests, sent, clockHistory>>

Hear(t) == /\ news[t] # <<>>
           /\ LET message == Head(news[t])
              IN  HearsActivity(t, message) \/ HearsLogout(t, message) \/ HearsLogin(t, message)
           /\ UNCHANGED <<hour, server, seen>>

ClockNext ==
    \/ Pass
    \/ \E t \in Tabs : \/ Tick(t) \/ Act(t) \/ Poll(t) \/ Stay(t) \/ LogOut(t) \/ Hear(t)
                      \/ \E staff \in BOOLEAN : LogIn(t, staff)
    \/ \E c \in requests : \/ OpensSession(c) \/ Serves(c) \/ RefusesIdle(c) \/ Refuses(c)
                          \/ LoginLands(c) \/ ClockLands(c) \/ IdleLands(c)
                          \/ RefusalLands(c) \/ LogoutLands(c) \/ GivesUp(c)

ClockSpec == ClockInit /\ [][ClockNext]_clockVars

-----------------------------------------------------------------------------
(* Properties *)

ClockTypeOK ==
    /\ hour \in 0 .. MaxTime /\ jar \in Numbers
    /\ session \in Seq([staff : BOOLEAN, last : Nat, open : BOOLEAN]) /\ Len(session) \in 1 .. MaxSessions
    /\ held \in [Tabs -> Numbers] /\ idle \in [Tabs -> Nat \cup {NoClock}] /\ seen \in [Tabs -> Nat]
    /\ news \in [Tabs -> Seq(Messages)] /\ requests \subseteq Request /\ sent \in 0 .. MaxRequests
    /\ acted \in [1 .. MaxSessions -> Nat] /\ putBack \subseteq Tabs
    /\ between \subseteq {"slept", "lost", "unclocked", "echoed", "replaced"}

Awaits(t, type) == \E i \in DOMAIN news[t] : news[t][i].type = type

(* session.ts, "they share one session, so one idle clock": the clock ends nobody's session who     *)
(* acted, in whichever tab, less than the timeout ago; unless the tab has yet to hear of it, or its *)
(* clock went back, or somebody acted in a tab without one.                                         *)
SparesTheActive ==
    [][\A t \in Tabs : /\ Tick(t) /\ RunsOut(t) /\ held[t] # 0
                       /\ t \notin putBack /\ ~Awaits(t, "activity") /\ "unclocked" \notin between
                       => acted[held[t]] + Timeout <= Now]_clockVars

(* IdleSessionDialog.vue, "a moment before the server would": no tab still counts as active a       *)
(* session that the server counts as idle; unless the news is on its way, a request was lost, the   *)
(* machine slept, an answer was passed on at the time it landed, or the session is one that another *)
(* tab's sign-in replaced: whoever acts there moves the clocks of all.                              *)
EndsHereFirst ==
    \A t \in Tabs : held[t] # 0 /\ held[t] = jar /\ idle[t] # NoClock
                    /\ session[held[t]].open /\ IdledOut(held[t])
                    /\ between \cap {"slept", "lost", "echoed", "replaced"} = {}
      => Awaits(t, "logout") \/ \E c \in requests : c.as = held[t] /\ c.status = "sent"

(* IdleSessionDialog.vue, "so a person who is reading, not acting, is asked rather than dropped":  *)
(* the prompt is on screen before the clock ends a session, unless the machine slept or the clock   *)
(* went back.                                                                                       *)
AskedFirst ==
    [][\A t \in Tabs : Tick(t) /\ RunsOut(t) /\ t \notin putBack /\ "slept" \notin between
          => isOpen(t)]_clockVars

(* Refuted.  session.ts, "they share one session, so one idle clock": with nothing on its way, tabs *)
(* of one session keep one clock.  Each answer leaves its tab the server's time and the others      *)
(* the time it landed.                                                                              *)
OneIdleClock ==
    requests = {} /\ (\A t \in Tabs : news[t] = <<>>) =>
        \A t, u \in Tabs : held[t] = held[u] /\ held[t] # 0 => idle[t] = idle[u]

(* Refuted.  session.ts of `idle`, "undefined for a shopper, whose session never idles out": a      *)
(* late answer to a touch, or a re-read that fails, leaves a staff member's clock with the next.    *)
OnlyStaffIdleOut ==
    [][\A t \in Tabs : Tick(t) /\ RunsOut(t) => held[t] # 0 /\ session[held[t]].staff]_clockVars

(* Refuted.  session.ts of touchSession, "a failure is quiet: the clock then stays as it was": the  *)
(* request moved it as it left, so the prompt is gone though the server never heard.                *)
AnsweredStayOnly ==
    [][\A t \in Tabs : Stay(t) => idle'[t] = idle[t]]_clockVars
=============================================================================
