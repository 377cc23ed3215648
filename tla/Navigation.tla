----------------------------- MODULE Navigation -----------------------------
(***************************************************************************)
(* One tab's navigations: the session's restore and the access check, the  *)
(* page's code, the language of the address, and what an error or a change *)
(* of session does meanwhile.                                              *)
(*                                                                         *)
(* app/router/index.ts runs tryRestoreAuth and enforceRouteAccess, loads   *)
(* the page's code, then localeChoice (app/guards/locale-choice.ts), which *)
(* loads a dictionary (i18n/index.ts) with its overrides                   *)
(* (infrastructure/locale-overrides.ts).  onError reloads once for a stale *)
(* build (app/router/stale-deploy.ts).  LayoutDefault.vue enters the page  *)
(* again when the session dies or its rules change.  vue-router, external: *)
(* the newest navigation is the current one; another one's guard under way *)
(* runs to its end and no further.                                         *)
(***************************************************************************)
EXTENDS Naturals, FiniteSets

CONSTANTS Pages,     \* the pages there are, of those a rule is known of
          Locales,   \* the language tags
          Fallback,  \* the deployment's default and fallback language
          Bundled,   \* the languages this build has a file for
          Drafts,    \* the languages only staff are offered, switched off for others
          MaxInputs  \* bound on what visitors, other tabs and the network do

ASSUME LanguagesAsDeployed == Fallback \in Bundled /\ Bundled \cup Drafts \subseteq Locales
ASSUME PagesKnown == /\ {"home", "login"} \subseteq Pages
                     /\ Pages \subseteq {"home", "login", "orders", "desk", "cart", "logout"}
ASSUME MaxInputsNat == MaxInputs \in Nat

VARIABLES
    viewer,    \* who the session store knows
    cookie,    \* whom the browser's cookies would restore
    route,     \* the address and page on screen
    navs,      \* the navigations under way, those superseded included
    latest,    \* latestRequestedLocale
    active,    \* the active language
    loaded,    \* loadedLanguages
    words,     \* what is registered of each language
    supported, \* supportedLanguages
    manifests, \* the reads of the manifest under way: whom each answers
    mark,      \* session storage: this load already retried
    inputs,    \* inputs so far
    reloads,   \* history: reloads since a page last landed
    excused,   \* history: the page on screen was checked for somebody else
    tangled    \* history: what went on that the guards do not look at

session == <<viewer, cookie>>
language == <<latest, active, loaded, words>>
offers == <<supported, manifests>>
stale == <<mark, reloads>>
past == <<excused, tangled>>
navVars == <<session, route, navs, language, offers, stale, inputs, past>>

Visitors == {"guest", "customer", "staff"}
Contents == {"none", "plain", "edited"}
Addresses == [locale : Locales, page : Pages]
Targets == Addresses \cup [locale : Locales, page : {"error"}]
Start == [locale |-> Fallback, page |-> "start"]
Phases == {"restore", "code", "leaving", "fetch", "words", "fallback", "fallbackWords"}
Nav == [to : Targets, phase : Phases, current : BOOLEAN, seen : Visitors, content : Contents]
Mixups == {"dropped", "late", "unworded"}

Entering(to) == [to |-> to, phase |-> "restore", current |-> TRUE, seen |-> "guest", content |-> "none"]

\* The folder, with what the API adds for staff or takes away from others; the folder alone when
\* the API cannot be reached.
Offered(who) ==
    {Bundled, IF who = "staff" THEN Bundled \cup Drafts ELSE Bundled \ (Drafts \ {Fallback})}

\* main.ts waits for the manifest, read with the cookies' session, before the first navigation.
NavigationInit ==
    /\ viewer = "guest" /\ cookie \in Visitors
    /\ route = Start /\ \E to \in Addresses : navs = {Entering(to)}
    /\ latest = Fallback /\ active = Fallback /\ loaded = {}
    /\ words = [l \in Locales |-> "none"]
    /\ supported \in Offered(cookie) /\ manifests = {}
    /\ mark = FALSE /\ inputs = 0 /\ reloads = 0
    /\ excused = FALSE /\ tangled = {}

Input == inputs < MaxInputs /\ inputs' = inputs + 1

-----------------------------------------------------------------------------
(* Navigations *)

\* Others take their place: who they were checked for matters no more.
Superseded(set) == {[n EXCEPT !.current = FALSE, !.seen = "guest"] : n \in set}

\* A navigation superseded while it waits for the fallback will activate its language all the same.
Late(set) == IF \E n \in set : n.current /\ n.phase \in {"fallback", "fallbackWords"} THEN {"late"} ELSE {}

\* A navigation that fails over a module's dictionary leaves its language marked as loaded.
Unworded(n) == IF n.phase \in {"words", "fallbackWords"} THEN {"unworded"} ELSE {}

\* A new navigation, in the place of these.
StartOver(to, others) == /\ navs' = Superseded(others) \cup {Entering(to)}
                         /\ tangled' = tangled \cup Late(others)

\* Whether a visitor may enter a page: one for guests; one for whoever is signed in; one that asks
\* for an ability besides, which staff have; one open to guests, which of those signed in asks for
\* an ability staff do not have; and the others.
canAccess(page, who) == CASE page = "login" -> who = "guest"
                          [] page = "orders" -> who # "guest"
                          [] page = "desk" -> who = "staff"
                          [] page = "cart" -> who # "staff"
                          [] OTHER -> TRUE

\* Where somebody who may not is sent: to sign in, or Home.
Verdict(to, who) == [to EXCEPT !.page = IF who = "guest" THEN "login" ELSE "home"]

\* isAuth flips: the manifest is read again, by whoever it is now.
FollowSession == manifests' = IF (viewer = "guest") # (viewer' = "guest")
                              THEN manifests \cup {viewer'} ELSE manifests

\* A link, the language menu, the back button.
Go(to) == /\ Input /\ route # Start /\ to # route
          /\ StartOver(to, navs)
          /\ UNCHANGED <<session, route, language, offers, stale, excused>>

\* The address on screen again: dropped as a duplicate, and what was under way with it.
GoNowhere == /\ Input /\ route # Start
             /\ \E n \in navs : n.current
             /\ navs' = Superseded(navs)
             /\ tangled' = tangled \cup {"dropped"}
             /\ UNCHANGED <<session, route, language, offers, stale, excused>>

-----------------------------------------------------------------------------
(* beforeEach: the restore and the access check *)

\* restoreSessionIfNeeded: nothing to restore; the cookies' owner; or a read that failed.
Restored == /\ viewer' \in (IF viewer = "guest" THEN {"guest", cookie} ELSE {viewer})
            /\ UNCHANGED cookie

\* enforceRouteAccess, on what the restore left.
Checked(n) == IF canAccess(n.to.page, viewer')
              THEN navs' = (navs \ {n}) \cup {[n EXCEPT !.phase = "code", !.seen = viewer']} /\ UNCHANGED tangled
              ELSE StartOver(Verdict(n.to, viewer'), navs \ {n})

\* A superseded navigation ends here, or takes its redirect's place in front.
GuardsPass(n) ==
    /\ n.phase = "restore" /\ Restored /\ FollowSession
    /\ \/ n.current /\ Checked(n)
       \/ ~n.current /\ navs' = navs \ {n} /\ UNCHANGED tangled
       \/ /\ ~n.current /\ ~canAccess(n.to.page, viewer')
          /\ StartOver(Verdict(n.to, viewer'), navs \ {n})
    /\ excused' = (excused \/ (~n.current /\ viewer' # viewer))
    /\ UNCHANGED <<route, language, supported, stale, inputs>>

\* The cookies turn out to be of a session that is over: said so, and the page on screen is entered
\* again, in the place of this navigation, whose guard goes on to the check all the same.
RestoreRefused(n) ==
    /\ n.phase = "restore" /\ viewer = "guest" /\ cookie # "guest"
    /\ cookie' = "guest" /\ UNCHANGED viewer
    /\ IF route # Start THEN StartOver(route, navs) ELSE UNCHANGED <<navs, tangled>>
    /\ UNCHANGED <<route, language, offers, stale, inputs, excused>>

-----------------------------------------------------------------------------
(* Failures: router.onError *)

\* Slip: the mark is a variable of the load that ends.
MarkLost == FALSE

\* The mark is in session storage, which outlives the load.
MarkKept == TRUE

\* location.assign: another load of the page, at the address that failed.
Reload(to) ==
    /\ mark' = MarkKept /\ reloads' = reloads + 1
    /\ viewer' = "guest" /\ UNCHANGED cookie
    /\ route' = Start /\ navs' = {Entering(to)}
    /\ latest' = Fallback /\ active' = Fallback /\ loaded' = {}
    /\ words' = [l \in Locales |-> "none"]
    /\ supported' \in Offered(cookie) /\ manifests' = {}
    /\ excused' = FALSE /\ tangled' = {}

\* A chunk that cannot be loaded (vite:preloadError): the page is loaded again once, then the error
\* page is entered.  What the failed navigation changed before stays changed.
onError(n) ==
    IF ~mark
    THEN Reload(n.to)
    ELSE /\ navs' = Superseded(navs \ {n}) \cup {Entering([n.to EXCEPT !.page = "error"])}
         /\ tangled' = tangled \cup Late(navs \ {n}) \cup Unworded(n)
         /\ UNCHANGED <<session, route, language, offers, stale, excused>>

\* The page's code fails to load; the sign-out page has none.
CodeFails(n) == n.phase = "code" /\ n.to.page # "logout" /\ Input /\ onError(n)

-----------------------------------------------------------------------------
(* The page's code, and beforeResolve: localeChoice *)

\* afterEach: a page other than the error page proves this load healthy.
Rearms(page) == page # "error"

\* The navigation is over: its page is on screen if it is still the current one.
Finish(n) ==
    /\ navs' = navs \ {n}
    /\ IF n.current
       THEN /\ route' = n.to /\ excused' = (n.seen # viewer)
            /\ mark' = (mark /\ ~Rearms(n.to.page))
            /\ reloads' = IF n.to.page = "error" THEN reloads ELSE 0
       ELSE UNCHANGED <<route, excused, mark, reloads>>

Waits(n, phase) == /\ navs' = (navs \ {n}) \cup {[n EXCEPT !.phase = phase]}
                   /\ UNCHANGED <<route, excused, mark, reloads>>

\* _changeLanguage: the fallback's dictionary first, unless it is marked as loaded, then the switch.
Activate(n) == IF n.to.locale # Fallback /\ Fallback \notin loaded'
               THEN /\ Waits(n, "fallback") /\ UNCHANGED active
                    /\ tangled' = tangled \cup (IF n.current THEN {} ELSE {"late"})
               ELSE active' = n.to.locale /\ Finish(n) /\ UNCHANGED tangled

\* Slip: whoever comes last activates its language.
InAnyCase(l) == TRUE

\* activateIfLatest: nobody asked for another language since.
IsLatest(l) == latest' = l

activateIfLatest(n) == IF IsLatest(n.to.locale)
                       THEN Activate(n)
                       ELSE Finish(n) /\ UNCHANGED <<active, tangled>>

\* localeChoice, for a language already loaded, one to fetch, and one that is not offered.
localeChoice(n) ==
    /\ latest' = n.to.locale
    /\ UNCHANGED <<loaded, words>>
    /\ CASE n.to.locale \in loaded -> IF active = n.to.locale
                                      THEN Finish(n) /\ UNCHANGED <<active, tangled>>
                                      ELSE activateIfLatest(n)
         [] n.to.locale \in supported \ loaded -> Waits(n, "fetch") /\ UNCHANGED <<active, tangled>>
         [] OTHER -> /\ \E l \in supported : StartOver([n.to EXCEPT !.locale = l], navs \ {n})
                     /\ UNCHANGED <<active, route, excused, mark, reloads>>

\* The page's code is there.  The sign-out page signs out instead of showing anything.
CodeLoaded(n) ==
    /\ n.phase = "code"
    /\ CASE ~n.current -> /\ navs' = navs \ {n}
                          /\ UNCHANGED <<language, route, excused, mark, reloads, tangled>>
         [] n.current /\ n.to.page = "logout" -> Waits(n, "leaving") /\ UNCHANGED <<language, tangled>>
         [] OTHER -> localeChoice(n)
    /\ UNCHANGED <<session, offers, inputs>>

\* The sign-out is over, whichever way it went: Home, if nobody went elsewhere meanwhile.
SignedOut(n) ==
    /\ n.phase = "leaving"
    /\ viewer' = "guest" /\ cookie' = "guest" /\ FollowSession
    /\ \/ StartOver([n.to EXCEPT !.page = "home"], navs \ {n})
       \/ ~n.current /\ navs' = navs \ {n} /\ UNCHANGED tangled
    /\ excused' = (excused \/ ~n.current)
    /\ UNCHANGED <<route, language, supported, stale, inputs>>

-----------------------------------------------------------------------------
(* The dictionaries: fetchLanguageApi, _updateLocale, _ensureFallbackLoaded *)

\* The language's file with the overrides on top; the overrides alone when the build has no file.
\* Overrides that cannot be read are left out, and so is a file.
Fetched(n, content) ==
    /\ n.phase = "fetch"
    /\ content = "none" => Input
    /\ content # "none" => UNCHANGED inputs
    /\ loaded' = loaded \cup {n.to.locale}
    /\ navs' = (navs \ {n}) \cup {[n EXCEPT !.phase = "words", !.content = content]}
    /\ tangled' = tangled \cup (IF content = "none" THEN {"unworded"} ELSE {})
    /\ UNCHANGED <<session, route, latest, active, words, offers, stale, excused>>

\* Slip: a superseded chain registers nothing.
IfCurrent(n, l, content) == IF n.current THEN [words EXCEPT ![l] = content] ELSE words

\* setLocaleMessage: what was registered before is replaced.
Registered(n, l, content) == [words EXCEPT ![l] = content]

\* The modules' dictionaries are there too: registered, and activated if still the latest.
WordsLanded(n) ==
    /\ n.phase = "words"
    /\ words' = Registered(n, n.to.locale, n.content)
    /\ UNCHANGED <<latest, loaded>>
    /\ activateIfLatest(n)
    /\ UNCHANGED <<session, offers, inputs>>

\* One of them fails to load: the guard rejects, and the language stays marked as loaded.
WordsFailed(n) == /\ n.phase = "words" /\ Input
                  /\ onError(n)

\* The fallback's file is there and marked as loaded; without its overrides.
FallbackFetched(n) ==
    /\ n.phase = "fallback"
    /\ loaded' = loaded \cup {Fallback}
    /\ Waits(n, "fallbackWords")
    /\ UNCHANGED <<session, latest, active, words, offers, inputs, tangled>>

\* The switch that waited for it, whatever was asked for meanwhile.
Switched(n) == active' = n.to.locale /\ Finish(n)

\* The modules' dictionaries for it: registered.
FallbackLanded(n) ==
    /\ n.phase = "fallbackWords"
    /\ words' = Registered(n, Fallback, "plain")
    /\ Switched(n)
    /\ UNCHANGED <<session, latest, loaded, offers, inputs, tangled>>

\* Its file, or one of the modules' dictionaries, fails to load: the switch goes on without.
FallbackFailed(n) ==
    /\ n.phase \in {"fallback", "fallbackWords"} /\ Input
    /\ Switched(n)
    /\ tangled' = tangled \cup Unworded(n)
    /\ UNCHANGED <<session, latest, loaded, words, offers>>

-----------------------------------------------------------------------------
(* The session, and the languages on offer *)

\* Slip: the page is entered again as any link would, and dropped as a duplicate.
EntersAsALink == UNCHANGED <<navs, tangled>>

\* The page on screen is entered again, by force.
EntersAgain == StartOver(route, navs)

\* A sign-in on its page, then Home in the tab's language or the account's, or where the visitor
\* was headed.
SignIn(who, to) ==
    /\ Input /\ route.page = "login" /\ viewer = "guest" /\ who # "guest"
    /\ to.page \notin {"login", "logout"}
    /\ viewer' = who /\ cookie' = who /\ FollowSession
    /\ StartOver(to, navs)
    /\ UNCHANGED <<route, language, supported, stale, excused>>

\* The session dies on its own, or idles out: the shell enters the page on screen again.
Expires == /\ Input /\ viewer # "guest"
           /\ viewer' = "guest" /\ cookie' = "guest" /\ FollowSession
           /\ IF route # Start THEN EntersAgain ELSE UNCHANGED <<navs, tangled>>
           /\ UNCHANGED <<route, language, supported, stale, excused>>

\* It changes without a word to the shell: another tab's sign-out or sign-in, the idle dialog's "leave".
ChangesQuietly(who) == /\ Input /\ who # viewer
                       /\ viewer' = who /\ cookie' = who /\ FollowSession
                       /\ excused' = TRUE
                       /\ UNCHANGED <<route, navs, language, supported, stale, tangled>>

\* The rules are read again: the page on screen is checked against them.
RulesChange(who) ==
    /\ Input /\ viewer # "guest" /\ who \notin {"guest", viewer}
    /\ viewer' = who /\ cookie' = who
    /\ IF route = Start \/ canAccess(route.page, who)
       THEN UNCHANGED <<navs, tangled>>
       ELSE StartOver(Verdict(route, who), navs)
    /\ UNCHANGED <<route, language, offers, stale, excused>>

\* mergeRemoteLocales: an answer takes the list's place, whenever it comes.
ManifestLands(who) ==
    /\ manifests' = manifests \ {who}
    /\ supported' \in Offered(who)
    /\ UNCHANGED <<session, route, navs, language, stale, inputs, past>>

NavigationNext ==
    \/ \E to \in Addresses : Go(to) \/ \E who \in Visitors : SignIn(who, to)
    \/ GoNowhere \/ Expires
    \/ \E who \in Visitors : ChangesQuietly(who) \/ RulesChange(who)
    \/ \E who \in manifests : ManifestLands(who)
    \/ \E n \in navs :
          \/ GuardsPass(n) \/ RestoreRefused(n) \/ CodeLoaded(n) \/ CodeFails(n) \/ SignedOut(n)
          \/ \E content \in Contents : Fetched(n, content)
          \/ WordsLanded(n) \/ WordsFailed(n)
          \/ FallbackFetched(n) \/ FallbackLanded(n) \/ FallbackFailed(n)

NavigationSpec == NavigationInit /\ [][NavigationNext]_navVars

-----------------------------------------------------------------------------
(* Properties *)

\* The variables keep their types, and one navigation at most is the current one.
NavigationTypeOK ==
    /\ viewer \in Visitors /\ cookie \in Visitors
    /\ route \in Targets \cup {Start} /\ navs \subseteq Nav
    /\ \A m, n \in navs : m.current /\ n.current => m = n
    /\ latest \in Locales /\ active \in Locales /\ loaded \subseteq Locales
    /\ words \in [Locales -> Contents] /\ supported \subseteq Locales
    /\ manifests \subseteq Visitors /\ mark \in BOOLEAN
    /\ inputs \in 0 .. MaxInputs /\ reloads \in Nat
    /\ excused \in BOOLEAN /\ tangled \subseteq Mixups

AtRest == route # Start /\ \A n \in navs : ~n.current

\* LayoutDefault.vue, "the visitor is never left on a signed-in-looking page": whatever navigations,
\* sign-outs, expiries and changes of rules overlap, the page on screen at rest is one its visitor
\* may see, unless the session changed without a word to the shell, or behind the check of the
\* navigation that brought the page, or the press of a link to the page itself dropped the
\* navigation that would have left it.
PageIsAllowed == AtRest /\ ~excused /\ "dropped" \notin tangled => canAccess(route.page, viewer)

\* locale-choice.ts, "keeps the active i18n locale in sync with the :locale route param": at rest
\* the language is the address's, however many switches overlapped.
InSync == AtRest => active = route.locale

\* The same, unless a navigation was dropped for a duplicate, or a superseded one's switch waited
\* for the fallback's dictionary: nothing is asked again after either.  The second takes three
\* languages to tell.
InSyncElse == tangled \cap {"dropped", "late"} = {} => InSync

\* A language on screen has its words, once every chain is over: being marked as loaded is as good
\* as being registered, unless a file or a module's dictionary failed to load.
WordsAreThere == AtRest /\ navs = {} /\ "unworded" \notin tangled => words[active] # "none"

\* locale-choice.ts, "an edited translation shows regardless of how this locale first got loaded":
\* a language on screen that was read as the fallback first has its overrides.
EditsShow == AtRest /\ navs = {} => words[active] = "edited"

\* locale-overrides.ts, "unreachable from the frontend as well": no page lands in a language that
\* is not on offer.
OnlyOffered == [][route' # route /\ route' # Start => route'.locale \in supported]_navVars

\* stale-deploy.ts, "reload once": the page is never loaded again twice before a page has landed.
ReloadsOnce == reloads <= 1
=============================================================================
