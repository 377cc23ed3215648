# boilerplate-vue-frontend: models, checks and proofs

This directory holds a verification project for the shop's single-page application
(`Guebbit/boilerplate-vue-frontend`): TLA+ modules translated from its source, TLC
configurations that model-check them on small instances, and proofs that TLAPS checks for
every instance. `PROJECT.json` maps every definition to the lines it models, lists the runs,
the mutants, the hazards, the findings and the theorems. Paths below are relative to `src/src/`.

The application is a browser program: one thread per tab, which runs one event at a time, and a
server it reaches by requests that may be answered late, in another order, or never. What is
hard in it is never one function but what may happen *between* a request's leaving and its
answer's landing: another request, a sign-out in this tab or the next one, another person, the
page going away. So every model has the same shape: **a request leaves, the server handles it,
its answer lands** are three steps, and one landing, with all the promise continuations that run
in its macrotask, is one step.

Contents: [the system](#the-system) · [modules](#modules) · [what the runs show](#what-the-runs-show) ·
[bounds](#bounds) · [fairness](#fairness) · [what is proved](#what-is-proved) ·
[what the code does against its own comments](#where-code-and-comments-disagree) ·
[what is not modelled](#what-is-not-modelled) · [plan](#plan) · [running it](#running-it)

## The system

| Component | State it keeps | Operations, and whom it talks to | What is hard | What makes it correct |
|---|---|---|---|---|
| **Request tickets** `infrastructure/utils/request-ticket.ts` | three integers: last ticket, last applied, era | `take`, the claim, `isSameEra`, `reset`; used by cart, summary, inbox, wishlist | answers in another order than their requests; a change of person meanwhile | the newest answer is on screen; no answer crosses a change of person |
| **Session** `infrastructure/session.ts`, `http/refresh.ts`, `http/interceptors.ts`, `app/guards/authentications.ts`, `account/stores/auth.ts` | per tab: token or cookie marker, viewer, rules, epoch, the refresh in flight; per browser: the HttpOnly cookie and the `isAuth` hint | sign-in, sign-up, restore on navigation, refresh and replay on 401, rules re-read on 403, idle refusal, sign-out, `login`/`logout` broadcasts between tabs | two tabs, one cookie; a refresh that lands after a sign-out; 401s parked behind one refresh; a broadcast heard late | a dead session never comes back; who waits is let go; a sign-out reaches every tab |
| **Idle session dialog** `app/components/IdleSessionDialog.vue`, with `session.ts` 458-728 and `http/interceptors.ts` | per tab: the moment of the last activity, the last tick; on the server: its own clock of each staff session | tick, prompt, stay, leave; every request that is not passive; `activity` broadcasts | several tabs, one session, two computers' clocks; late and lost touches | nobody active is dropped, one is asked first, and the tab ends no later than the server |
| **Inbox** `modules/notifications/store.ts`, `use-inbox-lifecycle.ts`, `infrastructure/create-sse-client.ts` | the notifications shown (the toolkit's messages), the reads in flight with what each must not undo, the stream's connection | `sync`, frames created/deleted/read, the bell, dismiss, clear, reopening | reads overlap frames, each other, deletions, a dropped stream and a new person | nothing heard is lost, nothing gone comes back, and a read of the open stream puts the bell in step with the server |
| **Cart page** `modules/cart/store.ts`, `views/Cart.vue`, `use-line-quantity.ts` | the cart shown, the visitor's own numbers, a debounced sender and the newest request per line, the checkout's progress | steppers, removal, clearing, `settle` then the order, unmount, pagehide keepalive | clicks during requests; answers out of order; the page going away inside the debounce; the order racing the steps | no click is lost, the order leaves after its steps, the screen ends at the server's cart, the steppers always come back |
| **Guest cart and its merge** `modules/cart/` (`guest-cart*.ts`, `use-guest-cart.ts`, `store.ts` 421-683) | a list in local storage, and the merge in doubt with its key | edits, the merge on sign-in, the replay of a lost one, the reset when people change | an answer lost after the server acted; a page load in the middle; another person | each unit merged once, none lost |
| **Checkout** `modules/cart/store.ts`, `checkout-attempt-storage.ts`, `use-checkout-refusals.ts`, `use-cart-stock-poll.ts` | the attempt (person, fingerprint, key) in session storage, the cart shown | the press, the retry ladder, each verdict, the read that settles a bare 500, the poll | an order written whose answer nobody heard; a poll overlapping a write | one order per key, and the next press is the same call |
| **Payments** `modules/payments/store.ts`, `use-order-refund.ts`, `http/idempotency.ts`, `http/step-up.ts` | the payment shown, a key per operation and order, requests parked behind the password prompt | intent and confirm, refund, re-read after a fault, step-up and its replay | a fault after the provider acted; a replay that fails for its own reason | a key is kept exactly while in doubt; no refund is made blind |
| **Edit forms and ETags** `products/views/ProductEdit.vue`, `http/etag.ts`, `use-stale-record.ts` | the record read, the form, the stale banner; per tab, the last version of each path | read, hydrate, save with `If-Match`, 412, reload, the confirm dialog | tags move under a form through other pages' reads; content that comes back fills nothing; the page passes to another product | no save over a change its form never showed, or into another product |
| **Router, guards, languages** `app/router/`, `app/guards/`, `i18n/`, `infrastructure/locale-overrides.ts` | the navigations under way, the active and the loaded languages and their words, the manifest, one stale-deploy mark | restore, access, code, language, redirects, re-entry when the session or the rules change, one reload | overlapping navigations and switches; a session that changes behind the check | the page is allowed, the language is the address's and has its words, one reload |
| **Telemetry and consent** `infrastructure/analytics-consent.ts`, `observability/store.ts`, `account/stores/profile.ts` | the guest's and the account's answer, the loaded trackers | the banner, the account's read and write, the crossing over, boot, every way a session begins and ends | consent changing while Faro loads; a guest's answer outliving the guest | nobody is measured who said no |
| **Wishlist** `modules/wishlist/store.ts` | the list, under tickets; one read shared by all hearts | read, add, remove, `moveToCart` over two stores | answers out of order, of another person, or lost between the two stores | hearts and badge match the server |
| **Registry, slots** `kernel/` | none after start-up | collect routes, navigation, slots, locales of the enabled modules | order and duplicates | no two routes alike; a slot's contributions in order |
| **Orders, returns, delivery, inventory** `modules/…/store.ts` | last answers; idempotency keys per subject | lists, moves, a timeline | key reuse; a list read racing a write's reload | one move per intent |
| **Products, users, api keys, webhooks, translations, tasks, stats, stock alerts** | the toolkit's cached records and searches | thin calls | the third-party cache | the answer's own |
| **Live dashboard** `modules/observability/` | status, latest snapshot, a feed capped at 100 | frames of the metrics stream | reconnection | the cap |
| **Dialogs, list state** `ui/` | a queue of confirmations; filters and page in the URL | confirm, resolve; copy in, write back | two confirmations at once; two lists on one address | each caller gets its own answer |
| **Account** `modules/account/stores/` two-factor, OAuth, addresses | challenges on the way to a session | second factor, deletion restore | a challenge outliving its page | a session only after its challenge |
| **Example module, views, layouts, generated client** | none of their own | rendering and forms | none here | none here |

How they interact: every store calls the API through one axios instance whose interceptors are
the session's (`onRequest` adds the credential and moves the idle clock,
`onResponseRejectWithStepUp` and `onResponseRejectWithRefresh` see every refusal, the tag of every
answer is kept by `etag.ts`). The session tells the other tabs over a BroadcastChannel and the
shell through signals (`expiredSignal`, `idleSignal`, `abilitiesSignal`), on which the shell
navigates. Stores hear of a change of person through `useResetOnViewerChange`, which resets their
tickets, the guest list and the checkout attempt. The trackers hear of nothing by themselves: each
operation has to tell them. The inbox listens to an event stream; the cart page's composable calls
the cart store, which replaces the whole cart by each answer; the wishlist's move asks the cart
store to read again.

Which of the hazards each part is exposed to, at its line and with the property that covers it
or the reason none does, is listed in `PROJECT.json` under `hazards`.

## Modules

| Module | What it models | Proofs |
|---|---|---|
| `LatestAnswer` | what "show the latest answer" means, without counters (abstract) | |
| `RequestTickets` | the ticket dispenser and the smallest store around it; implements `LatestAnswer` | `TicketsAndWishlistProofs` |
| `Wishlist` | the wishlist store on those tickets, with its API and the cart store | `TicketsAndWishlistProofs` |
| `Session` | the tabs of one browser and the API, in either session mode | `SessionAndEditFormProofs` |
| `IdleClock` | the staff idle clock of each tab and of the server | `ConsentAndIdleClockProofs` |
| `Inbox` | the notifications, their stream and the API | `InboxAndNavigationProofs` |
| `LineQuantity` | one visit to the cart page and the API | `LineQuantityProofs` |
| `GuestCart` | the guest's list and its merge, over reloads and people | `GuestCartProofs` |
| `OneOrder` | what a checkout promises (abstract) | |
| `Checkout` | the checkout and its retries; implements `OneOrder` | `CheckoutProofs` |
| `Payments` | paying and refunding under keys and step-up | `PaymentsProofs` |
| `EditForm` | the product form and the conditional writes under it | `SessionAndEditFormProofs` |
| `Navigation` | one tab's navigations, access, languages, re-entries and the stale-build reload | `InboxAndNavigationProofs` |
| `Consent` | who agreed to be measured and whether the trackers follow | `ConsentAndIdleClockProofs` |
| `MC…` | the small instances, with the symmetries TLC may use; `MCWishlist` is also the instance of the tickets, `MCConsentAndIdleClock` the sum of two small components | |

Module, state and actions correspond to the code as follows; `PROJECT.json` gives the lines.

**RequestTickets.** `issued`, `applied`, `era` are the dispenser's three integers; `claim` is what
the closure returned by `take` captured. `Take` is `take()`, `Answered` asks the claim once and
writes the store if it says yes (as `takeCartSlot` and `sync` do), `Failed` is a rejected request,
`Reset` is `useResetOnViewerChange` calling `reset`. `shown`, `shownFor` are the store's state; a
guest is not one of `Persons`, because the ordering is reset when a person leaves, not when one
arrives. `LatestAnswer` says the same with a set of live requests and a relation "left earlier".

**Wishlist** extends it: `items` and `shared` are the store's list and its `ensureInFlight`,
`call` what each request asks and what the API made of it, `saved` and `basket` the API's two
records, `cart` and `cartReads` the cart store's. `replaceItems` is every call of the store;
`Toggle` and `PressLine` are the heart and the page's buttons; `Handle` is the API, in any order;
`Lands` and `Fails` what an answer or a failure does, the cart's read after a move included.
Abstractions: no guest between two persons; the cart store's own waits are left out; an answer 404
of the catalogue is a failure; joining ids with product records is left out.

**Session.** `tab` is a tab's Pinia store; `jar` and `hint` the browser's two cookies, which all
tabs share; `owner` and `live` are the server's sessions. `refresh[t]` is the single-flight
`refreshToken` with the epoch it captured, `req[t]` the other requests of a tab: its pages', the
read of `GET /account` a navigation waits for (`guard`), the re-read of the rules (`rules`) and
the re-reads another tab's sign-in asks for. `RequestLands` is the response interceptor: an idle
refusal ends the session, a first 401 is parked behind the refresh (jwt) or ends the session
(cookie), a 403 re-reads the rules, a second 401 goes through. `RefreshLands` is one macrotask:
interceptor and `refreshToken`'s own continuations, then every parked request, restore and waiting
sign-out. `LoginLands` is `login` with `adoptSession`, its broadcast and `publishViewer`;
`LogoutLands` is `logout`'s `finally`; `Hear` is `onBroadcast`; `Open` and `Navigate` are
`tryRestoreAuth`; `ClockRunsOut` the tick of the idle dialog that ends the session, whenever it
may. `mode` is a variable that `Init` chooses and no step changes: one run sees both modes, and
the proofs speak of both. The server
is external: an access token may have run out, and in jwt mode may outlive its session; a sign-out
may not reach it, or its answer may be lost. Abstractions: the mode is known from the
start (`main.ts` reads it at boot and the guard waits for it before it restores a session); a refresh answered 403 is treated by the code as one answered
401 and is folded into it; one guarded navigation at a time per tab; a login form is submitted by a
guest with no navigation waiting.

**IdleClock.** `idle[t]` is `idle.lastActiveAt`, `seen[t]` the dialog's `now`, `news[t]` the
broadcasts on their way to a tab, `session` and `jar` the server's sessions and the browser's
cookie. `Tick` is the dialog's interval, `isOpen` its prompt, `Stay` and `LogOut` its two
buttons; `Act` and `Poll` are a request without and with the passive mark; `noteActivity`,
`applyActivity` and `clearSession` keep their names; `HearsActivity`, `HearsLogout`, `HearsLogin`
are the three branches of `onBroadcast`. `Pass` is a second on both computers: it waits for no
tab, so a tab may sleep, but only for requests older than `Latency`, which axios would have given
up. Abstractions: the refresh inside a restore takes no time; the answers to pages and polls are
dropped where they say nothing of the clock; requests alike in every way count as one; a request's
credential is the session of the tab's token or of the browser's cookie, whichever mode it may be.

**Inbox.** `shown` is the toolkit's persistent messages, one entry per notification; `reads` is
the sequence of `GET /notifications` in flight, each with its `ReadGuard` (`pushed`, `deleted`,
`deletedAll`, `readAt`) and `dead` for a claim the tickets will refuse; `stream` and `frames` are
the `EventSource` and what is under way on it. `Sign` is the lifecycle's watch on the person;
`StreamOpens` its `onOpen`, which reads; `StreamFails` and `Reopen` are `createSseClient`'s
retry; `HearCreated`, `HearDeleted`, `HearRead` the three handlers; `OpenBell`/`BellLands` are
`markAllRead`, `Dismiss`/`DismissLands` the toolkit's `dismissMessage` with its rollback,
`ClearAll`/`ClearLands` `dismissAll`. Frames of a connection arrive in the order the server wrote
them; those of a connection that drops are lost. Abstractions: one server process; one deletion
per row and one bell and one clear in flight; one audience; no toasts, wording or retranslation;
reopening's delays and failure count are a nondeterministic choice; a frame always passes the
contract gate.

**LineQuantity.** `pending`, `armed` and `newest` are `useLineQuantity`'s numbers, debounced
senders and `inFlight` map; `cart`, `applied`, `loading` the cart store's; `placing`, `awaited`,
`anyFailed` the progress of `checkout` and of `settle` in it. `StepQuantity`, `RemoveLine`,
`HandleClearCart`, `Checkout`, `Unmount`, `PageHide` are the visitor; `TimerFires` is a sender;
`SettleReturns` what runs when `settle`'s promises have come back, before any other event
(`Next` gives it that precedence); `SetAnswered`, `SetFailed` the sender's `finally`,
`CartAnswered`, `OrderAnswered`, `OrderFailed` the other answers. `PageHide` cancels the page's
requests and sends each pending number on a keepalive that may be refused or lost unheard.
Abstractions: one visit (leaving or hiding the page ends it: no return from the back/forward
cache, no second mount); the order stands for all of a checkout's attempts, and `expectedTotal`
for "the cart shown is the server's"; a `PATCH` of a line that is gone is refused (the contract);
`loading`, the toolkit's, counts the store's calls (`docs/theory/loading-state.md` 37): it falls when
the last of them has come back. Answers may arrive in any order; whether the server *handles* requests in
the order they left is the constant `InOrder`.

**GuestCart.** `lines` and `attempt` are `useGuestCart`'s list and merge in doubt, which the page
keeps in local storage; `wire` holds the merge calls, each with whose flow waits for it (the
present person's, an earlier one's, or nobody's after a page load); `record` is what the API
remembers of every key. `addGuestItem`, `updateGuestItem`, `removeGuestItems`, `mergeKeyFor`,
`mergeGuestCart`, `seedAfterSignIn` keep their names; `SignOut` is the store's reset, `Reload` a
page load that restores the session or does not; `MergeLands`, `RefusalLands`, `TurnedAwayLands`,
`FaultLands` are the branches of `sendMerge`. `GivesUp` is a lost answer, before or after the API
acted. Abstractions: one tab; an unsuccessful call's read of the cart changes nothing here; the
thirty-day expiry is left out. `added`, `given`, `merged` count units since the list was last
reset.

**Checkout.** `attempt` is `checkout-attempt-storage.ts`, per tab and kept over page loads;
`shown` and `applied` the store's cart under its tickets; a call is an order or a read of the
cart made to settle a fault (`settle`), to show (`show`) or in the background (`poll`).
`PlaceOrder` is `checkout` with `checkoutKeyFor`; `PlacedLands` … `RefusedLands` are the verdicts
of `settleFailedCheckout`; `InFlightLands` is the retry ladder; `ReadLands` with `kind = "settle"`
is `reactToServerError`, which takes an empty cart for a written order (`Infers`). `cart`,
`orders` and `record` are the API's; `Elsewhere` is the same account on another device. A basket
stands for everything an order's fingerprint is made from. The server compares its total alone, so an
order asked for with one basket may be written of another that comes to the same (`WritesOrder`); an
order is kept with the basket its page showed. The read that follows a refusal or a fault takes its own
ticket as it leaves, so after a change of person its answer is shown under that. `OneOrder` says what
all this promises: one order per key and person, and thanks only for orders that exist.

**Payments.** `payment` is the store's one payment, `key` the keys of `forSubject` per operation
and order, `wire` the calls with what the page saw when they left. `PressRefund` and `PressPay`
are the two controls, `IntentLands` the confirm that follows; `Meets(c, "parked")`, `Proves` and
`Dismisses` are the step-up prompt; `Verdict` is what the caller is told after a replay;
`Keeps` is `keepsIdempotencyKey`; `Rereads` is `rereadAfterFault`. Abstractions: a refund is of
one unit; the provider's own challenge pages, offline payments and hand-paid refunds are left out.

**EditForm.** `tags` is the map of `etag.ts`, per tab; `mount` numbers the forms built, so that an
answer knows whether its form is still there. A row of the server's has a version (`at`) and a content
(`text`), which are two things: `etag.ts` knows the version, `holdWhileSubmitting` compares the
content. `record` is `adminProduct`; `held` the content the form was filled from last; `form` the row
the form accounts for, the one it showed last or was told it had saved; `stale` the banner. `Submit` is the press,
with whatever was typed; `SaveLeaves` the request after the release-date dialog, with the tag held
*then*; `Elsewhere` are the public product page's read and the list's actions on the same paths;
`Switch` is the route passing from one product to another under the same form. `Hydrate` is the watch
that fills the form unless a save holds it or the record read says what the form was filled from
(`NoNews`). Then the form stays as it is: rightly when that is also what it accounts for, as after
an action that moved the version alone (`Accounts`); when it is not, a save the form was told of
came in between (`reverted`) or the record is of another product (`alike`). Abstractions: `OthersSave` changes
something the form holds and `Acts` moves the version alone; a save's answer tells the form it is the
row it sent, the merged translations of the answer coming with the read that follows; "Reset" is one
of the things that can be typed.

**Navigation.** A navigation is at one of its `Phases`: the restore, the page's code, `localeChoice`
with its dictionary (`fetch`), the modules' words (`words`), the fallback's (`fallback`,
`fallbackWords`), or the sign-out page's own guard (`leaving`). `GuardsPass` is `tryRestoreAuth` with
`enforceRouteAccess`, `onError` the stale-build reload, `activateIfLatest` the check on
`latestRequestedLocale`, `EntersAgain` the shell's forced `replace` on `expiredSignal`,
`idleSignal` and `abilitiesSignal`. vue-router is external: a newer navigation supersedes an older
one, whose guard under way still runs to its end; a press of the link to the page on screen drops
the pending navigation and starts none (`GoNowhere`). A refused restore enters the page on screen
again in the place of its own navigation, whose guard goes on to the check all the same. `Pages` are
the rules a route may have: none, guests only, signed in (`orders`), signed in with an ability
(`desk`), open with an ability asked of those signed in (`cart`), and the sign-out page. Abstractions: a failing preload is folded
into the navigation's own failure; the fallback has a file and is on offer by default
(`LanguagesAsDeployed`; `i18n/index.ts` 345 lets a fallback have none, and a page then shows keys where
`FallbackFailed` does); the languages switched off are `Drafts`; the browser's preference
may be any language on offer.

**Consent.** `choice` and `account` are the consent store's two answers, `page` what this page
knows of the session and the profile, `umami` and `faro` the trackers, `calls` the reads and
writes of the account. `Press` is the banner's or the profile's button, `Load` `fetchProfile` with
`syncGuestConsent`, `syncTracker` and `Tell` what an operation tells the trackers, `Booted` Faro's
code arriving. Each way a session begins or ends is an action, and tells the trackers exactly what
the code tells them: `SignIn`, `SignUp`, `Restore`, `OtherTabSignsIn`, `SignOut`, `SignOutFails`,
`EndLocalSession`, `Expires`, `EndsElsewhere`. Abstractions: one tab; both trackers configured and
asking; the toolkit's `resetAll` clears the selected record.

## What the runs show

| Run | Question | States |
|---|---|---|
| `Wishlist` | Is the newest arrived answer the one on screen (`NewestArrivedIsShown`), never the previous person's (`OnlyTheirOwn`), and do three integers implement `LatestAnswer` (`ImplementsLatestAnswer`), in a store that reads and writes? At rest, do the hearts show the API's list (`HeartsMatch`) and the cart store the API's cart after a move (`BadgeFollowsMove`); does one heart read for all (`OneReadForTheHearts`)? | 0.7 million |
| `Session` | two tabs, both modes: no credential is held that was asked for before the session last ended (`NoCredentialFromEarlierEra`); parked requests, restores and sign-outs wait only for a refresh in flight (`NobodyWaitsForNothing`); a token of a session that a sign-out ended has the news on its way to its tab (`RevokedIsDropped`); in cookie mode, who signed out stays out (`SignedOutStaysOut`) | 2.1 million |
| `SessionQuiesces` | two tabs, both modes: refreshes, replays, re-reads and broadcasts end (`Quiesces`) | 64 thousand |
| `ConsentAndIdleClock` | *Consent*: Faro sends nothing its last answer forbids (`FaroFollows`); at rest whoever is measured said yes (`NobodyMeasuredUnasked`) and what was pressed last is on record (`LastWordIsOnRecord`). *Idle clock*, two tabs: it ends no session somebody acted in (`SparesTheActive`), asks first (`AskedFirst`), and ends no later than the server's (`EndsHereFirst`) | 1.4 and 1.6 million |
| `Inbox` | `OnlyTheirOwn`, `NothingHeardIsLost`, `NothingGoneComesBack`, and `InStep`: after a read of the open connection has been applied and its frames heard, the bell shows exactly the server's inbox | 1.2 million |
| `LineQuantity` | `StepOnItsWay`: a number shown on the visitor's word is with a timer or a request; `OrderAfterItsSteps`; `LastClickLands`: once all is quiet the server has the number each line was left at; `ScreenMatchesServer`; `EverythingSettles`: every step is settled and every checkout gives the steppers back | 206 thousand |
| `GuestCart` | no key travels with two lists (`KeyMeansOneBody`); no unit is merged twice (`MergedOnce`) or lost (`NothingLost`), whatever is lost, replayed or left behind by a page load | 1.5 million |
| `Checkout` | an order its buyer was not told of is the one the saved attempt would replay (`UnheardIsSaved`); a poll never wins over a newer cart (`NoStalePoll`); the keys implement `OneOrder` (`ImplementsOneOrder`) | 2.7 million |
| `Payments` | an attempt whose outcome the page never learned keeps its key (`LostAttemptKeepsKeyElse`); no refund is made without having seen the earlier ones (`NoBlindRefund`) | 2.2 million |
| `EditForm` | no save goes over a change its form never showed (`OnlyTheTagOverwrites`), nor into another product (`OnlyALateReadMisfiles`), outside the named causes | 4.3 million |
| `Navigation` | at rest the page is one its visitor may see (`PageIsAllowed`), in the address's language (`InSyncElse`), which has its words (`WordsAreThere`); a stale build reloads once (`ReloadsOnce`) | 4.7 million |

One more run, `LineQuantityStepBack`, shows a disagreement; see below. Every property of a passing
run is also shown to be able to fail: `PROJECT.json` names, for each, a slip in a translated
definition (a dropped epoch check, a missing broadcast, a key that fits any order, a poll that is
not passive, a settle that waits for nothing, an answer stored whatever its ticket…) with which
TLC refutes it. The slips are the operators commented *Slip* beside the definition they change.

`ConsentAndIdleClock` is a sum: a behaviour is of one component or of the other, never of both,
and what one part does leaves the other's state as it was.

### What the properties leave out

A property that the code keeps except through a hole is stated with the hole named, by a history
variable that records when it was used (`tangled`, a set of causes; `odd`, `forgot`, `putBack`,
`excused`, `between`). Each cause a property names was confirmed to be needed by it: without it the
property is refuted on the run's instance, or on a larger one for three that the attempt to prove the
property found: `late` of Navigation needs three languages, `CrossedOver` of Consent six inputs,
`replaced` of IdleClock a third request. The causes:

- **Inbox**: rows the toolkit put back after a failed deletion (`putBack`), because that rollback
  is the library's and knows nothing of the store.
- **LineQuantity**: `LastClickLands` leaves out lines the visitor was told of (a failed step),
  removed or ordered, a click made on a line whose removal or whose last server-side change the
  page has not heard of, and a number clicked back onto while an overtaken request carried it (that
  last case is `LastClickKept`). `ScreenMatchesServer` does not hold the page to what the server
  did and nobody could hear (`unheard`).
- **Wishlist**: `odd`, that the API handled overlapping requests in another order than they left,
  or its answer was lost, or another device acted, until an answer asked for later tells; `moved`
  ends with a move that failed; `forgot`, that a previous person's failed read forgot the present
  person's.
- **GuestCart**: `lateAnswer`, a merge's answer of an earlier person changes the present list or
  attempt; `turnedAway`, a 429 or a 409 ends an attempt whose first call may have been applied;
  `inherited`, a page load that finds the session over sends the next person the last one's key.
  Only the first can lose a unit; all three can merge one twice.
- **Checkout**: `late`, an answer of an earlier person's order; `turnedAway`, as above;
  `pressedAnother`, the visitor orders another basket while an order is unsettled; `refilled`, the
  read after a bare 500 finds a basket although the order was written; for `EmptyMeansWrittenHere`
  (kept in the module) also `emptied`, the cart was emptied on another device, and `stale`, a read
  handled earlier landed over a newer one.
- **Payments**: `masked`, a replay after the step-up failed for a reason of its own and the
  caller was told the original refusal; `turnedAway`; `intent`, the failure of a *later* intent
  settled the confirm's key; `unread`, the read after a refund or a fault failed; `outrun`, a slow
  answer covered one with more refunds (the order page read as it opens takes no ticket, `store.ts`
  115: refund, leave the page and come back, and the page's read, answered before the refund and
  landing after the totals, takes them off the screen); `reloaded`, a page load forgot the keys,
  which are in memory only. `intent` drops a confirm's key only, so `NoBlindRefund` does without
  it.
- **EditForm**: `crossed`, an answer to another page moved the tag under the form; `untagged`, an
  action dropped it; `reverted`, the content the form was filled from came back after a save of it
  was answered, so the read (the one behind the save, or "Reload latest" after a 412) moved the tag
  and filled nothing (`use-hold-while-submitting.ts` 29); `misdelivered`, the read of the previous
  product landed last; `unread`, the read of the new one failed; `alike`, the new one says what the
  previous one did, so its read filled nothing; `switched`, the form passed to another product in the
  middle of a save. Each property names only the causes it fails with: TLC refutes it without any one
  of them.
- **Navigation**: `excused`, the session changed without a word to the shell, or behind the check
  of the navigation that brought the page; `dropped`, a duplicate dropped the pending navigation;
  `late`, a navigation was superseded while its switch waited for the fallback's dictionary, or had
  been superseded before it began to wait (to a third language: the fallback failed to load before
  the second);
  `unworded`, a dictionary failed to load.
- **Consent**: `tangled`, that the trackers were last told something out of place: a failed
  sign-out skips `resetAll` and `syncTracker` (`auth.ts` 275-282), an expiry resets without
  telling them, the idle refusal and another tab's sign-out reset nothing, a sign-up keeps the
  guest's trackers, another tab's sign-in tells nobody, a read answers after its session or
  behind a younger one, the re-read after a write fails. `unheard`: a press that reached no API, or
  reached it behind a later one; or whose account an answer of an earlier session, or one a write had
  left behind, made the guest's answer cross over to: `syncGuestAnalyticsConsent` looks at the answer
  and at the page's one-time mark, and not at whose session it is now.
- **IdleClock**: `slept`, the computer was asleep; `lost`, a request never reached the server;
  `unclocked`, somebody acted in a tab that keeps no clock (`noteActivity` returns at once, so the
  others are not told either); `echoed`, `applyActivity` told the others of the moment an
  answer landed while the server's clock stands at the moment it was handled; `putBack`, the tab's clock was set back by late
  news or to another session's by a late answer; `replaced`, somebody acted in, or an answer set a clock
  from, a session that another tab's sign-in had replaced in the browser's cookie. A message that is still to be heard, and a request still to be
  handled, excuse the moment.

### Where code and comments disagree

One disagreement is kept as a run and listed under `findings`:

| Run | Refutes | In short |
|---|---|---|
| `LineQuantityStepBack` | `LastClickKept` | a line stepped away and back while both requests are out: the older answer finds its own number pending, drops it, and the middle number stays (`use-line-quantity.ts` 101-106) |

The others were found the same way. Their definitions stay in the modules; to see the
counterexample, name the definition in the component's `.cfg` in place of its properties.

| Definition | What is written | What the code does |
|---|---|---|
| `Session!NeverToldAfterSignOut`, jwt mode | `session.ts` 242-243, 713-714: the signal is never for a visitor "who just clicked log out" | a request's 401 that lands after the sign-out starts a *new* refresh, whose refusal says "session expired" (stated of cookie mode, it holds) |
| `Session!SignedOutStaysOut`, jwt mode | `session.ts` 738-740: "sees themselves signed out on this device" | when the sign-out did not reach the server, the same late 401 refreshes the session the visitor left (stated of cookie mode, it holds and is checked) |
| `Session!MootRefreshReplaysNothing` | `session.ts` 520-521: `undefined` after a clear that makes it moot | the token is returned all the same (545), so parked requests are replayed |
| `Session!TabsAgreeAtRest` (two persons) | `session.ts` 396-398, 663-666 | in cookie mode a tab whose re-read fails keeps showing the previous person, while its requests act as the new one |
| `Inbox!ReadMeansRead` | `notifications/store.ts` 398-400 | opening the bell stamps every row that a read in flight returns, one written after the bell opened included |
| `GuestCart!NothingMergedTwice`, `NothingTheGuestDidIsLost` | `docs/modules/cart.md`: "nothing is merged twice, and nothing the guest did is lost" | the three causes above; the first of them |
| `Checkout!EmptyMeansWritten` | `use-checkout-refusals.ts` 157: an empty cart means the order was written | the cart may have been emptied elsewhere, or an older read may have landed last |
| `Payments!LostAttemptKeepsKey` | `http/idempotency.ts`: the key is kept "while the first attempt may still be running" | the replay's mask, a refusal at the door, and the next intent's failure each drop it |
| `Payments!ControlsMatchPage` | `use-order-refund.ts`: the controls "just stay hidden without it" | when the page's own read fails, the store still holds the previous order's payment, and the refund acts on that |
| `EditForm!NothingOverwritten` | `http/etag.ts`: 412 "when someone else changed the record in between" | the tag is the tab's, not the form's: another page's answer moves or drops it; and a read whose content the form was filled from moves it and leaves the form's own save in place, over which the restored row is lost at the next press |
| `EditForm!ReadRefills` | `ProductEdit.vue` 208: "re-reads the admin record, which re-hydrates the form"; `use-stale-record.ts` 31: "Discards the local edit for the server's copy" | not when the server's copy says what the form was filled from: the form keeps the edit, under the new version's tag (`use-hold-while-submitting.ts` 29) |
| `EditForm!SavedWhereItBelongs`, `OnlyASwitchMisfiles` | `products/store.ts`, `fetchProductForEdit`: shows "the row as it is now" | the read takes no ticket: the previous product's, answered last, fills the new one's form; a failed read leaves the previous product's there, and so does one of a product that says the same |
| `Navigation!InSync` | `locale-choice.ts`: "in sync with the `:locale` route param" | the cause `dropped`; with three languages, `late` too |
| `Navigation!EditsShow` | `locale-choice.ts`: an edited translation shows "regardless of how this locale first got loaded" | a language first read as the fallback is marked as loaded, and its overrides are never fetched |
| `Navigation!OnlyOffered` | `locale-overrides.ts`: "unreachable from the frontend as well" | a language already loaded stays reachable after it is switched off (102 looks at what is loaded first) |
| `Consent!PressIsSent` | `docs/tools/umami.md` 49: its buttons write the account | a press before the account's read has landed is neither sent nor kept |
| `Consent!BrowsingIsAgreedTo` | `analytics-consent.ts` 148-156 | browsing is reported on the guest's cookie while the account's answer is not here |
| `Consent!HeaderIsTheGuests` | `interceptors.ts` 73-75: for an anonymous request only | before the restore the page has no session and sends the guest's header, with the cookie of somebody signed in |
| `Consent!GuestsAnswerAppliesAgain` | `docs/tools/umami.md` 50: "the guest cookie's answer applies again" | a session ended by `endLocalSession` tells the trackers while the page still holds it (`profile.ts`), so they wait for an account's answer and stay off for a guest who agreed |
| `Consent!LastWordIsOnRecord` without `CrossedOver` | `profile.ts` 306-311: the guest's answer crosses over only if "this account has never recorded a preference of its own" | a read of an earlier session, answered "never asked", lands in the next one: the guest's answer is written over what the account holds |
| `Wishlist!OneReadForTheHearts` without `forgot` | `wishlist/store.ts` 62-66 | a previous person's read that fails forgets the present one's (100) |
| `IdleClock!OneIdleClock` | `session.ts` 638-641: "so one idle clock" | an answer leaves its own tab the server's time and tells the others the time it landed (464-471) |
| `IdleClock!OnlyStaffIdleOut` | `session.ts` 250: `undefined` for a shopper | a late answer to a touch, or a failed re-read, leaves a staff member's clock with a shopper, who is then signed out for inactivity |
| `IdleClock!AnsweredStayOnly` | `session.ts` 651-657: on failure "the clock then stays as it was" | the request moved it as it left (`interceptors.ts` 88), so the prompt is gone though the server never heard |

Two more facts are plain from the code and have no definition. `lastActiveAt` is described as
"this client's epoch milliseconds" (`session.ts` 248-252) and is the server's, compared with this
computer's `Date.now()`: `Skew` is in the model for that, and with any other value than 0 the
clock ends sessions early or late by as much. And `settle` (`use-line-quantity.ts` 184-195) waits for the
newest request of each line only.

## Bounds

Every bound is a constant, and bounds only the environment; handlers of what is already in flight
are never disabled by one, except where said.

- `Wishlist`: three requests are the fewest in which an answer can fall between an older and
  a younger one; two persons can take turns and come back; `MaxIssued = 4` tickets allow three
  requests and one more after one of them, or a change of person among them; two products, one removal on another
  device, one cart read in flight at a time.
- `Session`: two tabs are enough for every broadcast to have a sender and a hearer; the browser
  may start signed in, and opening a tab costs nothing, so two inputs in jwt mode still contain a
  request and a sign-out, in one tab or two, on top of two restores; cookie mode, with fewer
  steps per request, is run with three (`SomeInputs`; `FewInputs`, one less in each, for the liveness run). `MaxSessions = 2` lets a
  person sign in again. One person suffices for
  these properties, which compare sessions and epochs. `Rereads` bounds the re-reads a tab has in flight: a `login` message is heard once one
  is free, which delays it and loses nothing.
- `ConsentAndIdleClock`: two persons, one of whom is left and the other comes; three calls in flight are a
  read, the write that crosses over and a press; five inputs are a press, a sign-in, a press, a
  sign-out and one thing that goes wrong. Two tabs, two sessions of one browser one after the
  other, two requests, four seconds against a timeout of two, a warning of one and a longest request of one: enough for a
  prompt, an answer to it, an end here and an end on the server, with a second request on its way. A
  tab may start with a session and no clock, as a restore whose `GET /account` failed leaves it. `Skew = 0`: `AskedFirst`
  supposes clocks that are less apart than the timeout is longer than a request. Each part was explored
  further alone: consent with six inputs (9.2 million states), the idle clock's other two properties with
  the two computers' clocks apart (`Skew = 1`, 1.7 million).
- `Inbox`: two persons, two rows each, three reads in flight at once (the sign-in's, the stream's
  and a reopened stream's), five moves of people, other tabs and the network. With three, a read is
  overtaken by a younger one and dropped while a third is still to come. A new stream waits for a read to be free.
- `LineQuantity`: two lines are the fewest of which one is settled while the other waits; two
  quantities are enough to step off a number and back onto it; three requests are the fewest of
  which the middle one is overtaken by the last while the first is unanswered. `CanCause` keeps a
  request in reserve for every armed sender, so that the bound stops the visitor's clicks and
  never a timer. The safety properties were also explored with `MaxSent = 4` (4.8 million states)
  without an error; the run kept here is the one that also checks the liveness property.
- `GuestCart`: two persons are the fewest of which one comes after the other; two units let a line
  be grown or lowered while a call for one is out; four visits are a sign-in, a page load, a
  sign-out and the next sign-in.
- `Checkout`: two baskets, so that one can be ordered while another is unsettled; four calls are
  two orders and the reads that settle them, or one order among overlapping reads; one retry on the
  ladder; three visits; one change from elsewhere.
- `Payments`: two orders, so that a page shows one and the store holds the other; three presses
  are an attempt, its retry and one that should have seen both; two pages opened, or one opened and
  come back to. Three pages with two presses were explored as well (1.1 million states).
- `EditForm`: two products, two contents (one is gone back to), three pages opened or actions taken
  outside the form, two presses and one save of somebody else: a save, its reversal and a save over
  it; or a change, an answer elsewhere and a save over it.
- `Navigation`: two languages, the fallback and a draft only staff are offered; three inputs on
  top of the first navigation, which may be of any page for any visitor: two that overlap it, and a
  change of session. Four pages, one of each way to be refused and the sign-out; the page open to guests
  and refused to staff (`cart`) was explored beside them (8.9 million states), and the proofs are for
  any of the `Pages`.

Symmetry is used where the definitions tell the values apart in nothing: tabs, persons, products,
baskets, orders, requests, row numbers; never in a run with a liveness property.

Deadlock is not checked in any run: each system stops, rightly, when nothing is in flight and the
visitor has used up the bound. That it does not stop *with* something in flight is what
`Quiesces`, `EverythingSettles` and `NobodyWaitsForNothing` say.

## Fairness

- `Session!Fairness`: each tab's *system* (the server's answers and the tab's event loop) takes a
  step when it can. Every request ends, since axios is given a timeout, and a browser runs what has
  arrived. Nothing is assumed of visitors.
- `LineQuantity!Fairness`: each line's debounce timer runs out once clicks stop (a timer restarted
  by each click is only fair to a visitor who stops, which `MaxSent` guarantees), the requests are
  answered or given up, the answers are heard, and `settle`'s continuation runs.

The other modules state safety only: what must eventually happen in them is that an answer lands,
which the network decides.

## What is proved

The proofs hold for every value of the constants that satisfies the named assumptions: any number
of tabs, persons, lines, requests, orders, in either session mode, whatever order the server works
in.

**TicketsAndWishlistProofs, the tickets.** `IInv` adds to the types that claims are in order (`ClaimsInOrder`: a
claim of an earlier era is at or below the barrier a reset raised; a claim of this era was taken by
the person looking), that no two requests hold one ticket (`ClaimsDistinct`), and that the screen
follows `applied` (`ScreenFollowsApplied`). Without the first, `Reset` would not keep
`OnlyTheirOwn`: nothing would say that an old claim loses. From it: `TypeCorrect`,
`OnlyTheirOwnAlways`, `NewestArrivedIsShownAlways`, and `Refines`, which maps `live` to the
requests in flight whose claim would still win and `earlier` to the order of their tickets, and
shows that each step is a step of `LatestAnswer` or a stutter (a losing answer is the stutter).

**TicketsAndWishlistProofs, the wishlist.** Each of its steps is one of the tickets' or leaves them
alone (`WishlistKeepsTickets`), so that all of the above is true of it. `WInv` adds three things. Of the
hearts' reads of this session only the one the store remembers is out (`HeartIsShared`). After a move
that came back the cart shown is the API's, or a further move is to be heard of, or the read that left
last brings it (`CartToCome`). And for the hearts: a request in doubt is older than one that is not
(`DoubtIsOld`), so once an answer told what had escaped the store none in doubt can still be shown
(`WinnersAreSure`); an answer to come that is in no doubt tells the API's list, unless a write behind it
is to come as well (`SureTellSaved`); and the screen shows it, unless a write is to come (`ShowsSaved`).
The last two need that the claims of an earlier session are older than those of a later one
(`TicketOrder`): a person who left and came back may have a write of their earlier visit handled now.
From it: `HeartsMatchAlways`, `BadgeFollowsMoveAlways`, `OneReadForTheHeartsAlways`.

**SessionAndEditFormProofs, the session.** `IInv == TypeOK /\ OkNamesSession /\ NoCredentialFromEarlierEra /\
NobodyWaitsForNothing`. `OkNamesSession` (an answer of 200 was to a request carrying a session
the server once opened) is what makes the person an answer names well defined, so that types are
inductive. From it: `TypeCorrect`, `NoCredentialFromEarlierEraAlways`,
`NobodyWaitsForNothingAlways`. The credential's proof turns on one fact of the code, that
`clearSessionLocally` raises the epoch in the same step that drops the credential, and on the
comparison in `refreshToken`'s continuation: `Settled` changes the token only in the epoch in
which its refresh left.
`RevokedIsDroppedAlways` needs a second invariant, `DInv`: a renewal
already answered for a session since ended, and of the tab's present epoch, has the news ahead of it
too (`LateTokenHasNews`), and none is ahead of its tab (`NoRefreshIsAhead`); what a sign-out ends is
dead at the server (`RevokedIsDead`), so no later renewal succeeds; a session just opened is known
to its login alone until it lands (`NewSessionsUnclaimed`), so no sign-out has ended it; and a tab
not yet opened, which no message reaches, holds nothing (`ClosedUntouched`).
`SignedOutStaysOutAlways` adds that in cookie mode no refresh is ever in flight and that a readable
hint means nobody is out who has not heard of a sign-in since (`HintMeansIn`).

**SessionAndEditFormProofs, the edit form.** `FormInv` ties the form on screen, the tab's tag and the
calls to one another, as long as no cause has happened (`TagKept`, `RouteKept`). Of a call
(`CallFits`): a save carries the row the form accounts for, and leaves under
its version, to the product it is routed to. A form has one save under way,
from the questions to the read that follows it, and reads nothing meanwhile (`Alone`), which is what
lets an answer name the form it is for. What is held is the content of the record read last, so that
whether a read fills the form depends on that record alone; and the tag is the version of the row the
form accounts for (`ScreenFits`), which a read leaves so in one of three ways: it fills the form, it
says what the form accounts for, or it is one of the causes. The form shows the product it is routed
to, or is about to read it (`Routed`). From it: `FormTypeCorrect`, `OnlyTheTagOverwritesAlways`,
`OnlyALateReadMisfilesAlways`.

**LineQuantityProofs.** `IInv` adds to `TypeOK` and `OrderAfterItsSteps`: a ticket names one
request; the newest request a line remembers is still on the wire; a pending number is with its
timer or is carried by the line's *newest* request (stronger than `StepOnItsWay`, which it
implies: an older request carrying the number would be no support, since it may land first and
leave the number); a page that went away has no steps; nothing is armed while a checkout runs;
while settling, each line's newest ticket is awaited and a line told as failed has set
`anyFailed`; there is one order or read-after-order at a time and only during a checkout. From it:
`TypeCorrect`, `StepsOnTheirWay`, `OrdersAfterTheirSteps`, for both values of `InOrder`.
Two more have the hypothesis `InOrder`, that the server handles the requests in the order they left:
a browser promises no such order, and without it an older number may be written last. They rest on a
second invariant, `CartInv`: what was answered left before what was not (`Sequenced`); the newest answer heard is what the screen
shows (`ScreenFollows`); a line gone at the server is known to be gone or about to be heard of
(`GoneIsKnown`); a line's newest request is the last on the wire to speak of it (`NewestStands`);
and the last click on a line is at the server, on screen with its timer, or under way in a request that
none behind it undoes (`ClicksCarried`). From it: `LastClickLandsAlways` and
`ScreenMatchesServerAlways`.

**InboxAndNavigationProofs, the inbox.** `InboxInv` says what is still to be told. Of the frames on their way (`FramesFit`):
a row's "created" comes once and before what became of it; where all was deleted, whatever the
server holds now was written later and is coming. Of each read in flight (`ReadsFit`): one that may
be applied is its person's, and what was heard since it left and its answer does not say is in its
guard (`Knows`); an older read's guard holds all that a newer one's does (`Older`), which is what
keeps the newer in order when the older lands first; the read of the connection, the last in the
list, holds or will be told all that happened since it left (`Follows`). Of the calls
(`CallsFit`): a deletion answered "ok" happened, and what "clear" names is its person's. Each of the
server's moves is first shown to be one of `ServerMoves`: a row goes forward, and an open stream is
told in the same step. From it: `TypeCorrect`, `OnlyTheirOwnAlways`, `NothingHeardIsLostAlways`,
`NothingGoneComesBackAlways` and `InStepAlways`. The rows the toolkit puts back are excepted as in
the properties.

**InboxAndNavigationProofs, the navigations.** `NavInv` says of every navigation under way what it was
checked for, asked for and will register (`Fits`): the one that may land was let pass by the guards
for the visitor they saw, and the language it chose is the one asked for last; one that was superseded
does not wait for the fallback's dictionary, unless that is noted; a language is marked as loaded
before its words are there, and then somebody is about to bring them (`WordsToCome`). Of the tab: one
navigation at most may land (`OneCurrent`); when none may, the page is allowed and in its language, but
for what was noted (`LandedWell`); the active language is loaded (`ActiveIsLoaded`); a reload is marked
until a page has landed (`OnceThenLanded`). From it:
`NavigationTypeCorrect`, `PageIsAllowedAlways`, `InSyncElseAlways`, `WordsAreThereAlways`,
`ReloadsOnceAlways`. The attempt to prove it found that a navigation already superseded could *begin*
to wait for the fallback while its language was still the latest asked for, and switch to it after
the page had landed in another: three languages are needed, and the run has two. The cause `late` now
covers that too.

**CheckoutProofs.** `IInv == TypeOK /\ OneBasket /\ Written`. `OneBasket` is `KeyMeansOneOrder`
strengthened to the attempt and the calls still out, without which a press could repeat a key
whose first call is on the wire with another basket; `Written` says that the record
knows every order by its key and person, so that none is written twice, and that an outcome or an
answer "placed" names an order that exists. From it: `TypeCorrect`, `KeyIsOneOrders`
and `OrdersAreWrittenOnce`, that the checkout implements `OneOrder`. A second invariant for the
reads (`PInv`: no answer's stamp is ahead of the server's, and while a
poll may still be shown, nobody waits for any other call, since every other call drops it) gives `PollsNeverGoBack`, that is
`NoStalePoll`. A third (`SInv`) gives `UnheardIsReplayed`, that is `UnheardIsSaved`: what the server
may still write (`MayBeWritten`), as well as what it wrote, is under the attempt's key or from before
the last person left, since a call that is late or was left behind by a page load may yet be an
order; the one call a press waits for is the attempt's and the viewer's (`Attached`, `OnePlacing`);
and the attempt's key is one person's and one basket's, so that a "placed" tells of the very order
written (`Settled`).

**GuestCartProofs.** `IInv == TypeOK /\ OneBody`, where `OneBody` extends `KeyMeansOneBody` to the
attempt saved on the page: its key is on no call and in no record with other lines, and no key is
ahead of the mint. From it: `TypeCorrect`, `KeyIsOneLists`. A second invariant, `Ledger`, counts
units. What a person's guest list holds, what they were merged and what they let go account for
what they put on it, with the lines of the attempt that may still be applied (`Applied`: its key is
on record) on one side or the other; a count of the list and the cart alone is not inductive, since
an answer subtracts what a call merged some steps before. It needs that one person stands behind a
key (`OnePerson`), that the one call of this session out is the saved attempt's (`Callers`,
`CurrentIsTheAttempt`) and that a call left behind by a page load is of an earlier visit
(`NoStray`). From it: `NothingIsLost` and `MergedOnceAlways`, each up to the causes the property
names.

**PaymentsProofs.** `IInv == TypeOK /\ Keyed /\ OneAtATime /\ LostAttemptKeepsKeyElse`. `OneAtATime`:
one press is out at a time, because the controls wait for the store's calls, and it carries the key
held for its operation and order; without it an answer to one call could settle the key of
another. `Keyed`: no key is ahead of the mint. From it: `TypeCorrect`, `LostAttemptsKeepTheirKeys`.
`NoRefundIsBlind` rests on a second invariant, `RInv`: a key is on record once and what a call is
told is what is recorded (`Books`); a refund that may still be made is made under the key held, by a
press that saw all earlier ones (`AfootHasSeen`); a key on record is one whose outcome is about to
be told or in doubt (`HeardOrInDoubt`: otherwise a refusal at the door could end it unheard); and
what is on screen, or is about to be, is behind only while the key held may have run or a read is
due (`ScreenIsFresh`, `ReadingsAreFresh`). The attempt to prove it is what found the cause
`outrun`, which the run's bounds had hidden.

**ConsentAndIdleClockProofs, consent.** `IInv == TypeOK /\ FaroFollows`: `setFaroConsent` and the boot that ends a load
are the only writers of Faro's transport, and each leaves it no further than the last answer. From
it: `TypeCorrect`, `FaroFollowsAlways`. The two properties of a quiet page need to know what the calls
not yet over may bring (`NInv`). Every call is `Honest`: one that no session has ended under is this
session's, and a read the API answered after the last write says what is on record. While the trackers
were told in place, a yes they were told is the guest's, or the account's, which either is on record
or is about to be read again (`Measured`): `NobodyMeasuredUnaskedAlways`. And of the presses on their
way, the last that the API will hear in its turn says a person's last word, unless one may still be
heard out of it (`Kept`, `PersonsWord`); the guest's answer crosses only to somebody who pressed
nothing here (`MayCross`): `LastWordIsOnRecordAlways`. The attempt to prove this one found the cause
`CrossedOver` records, six inputs deep, which the run's five had hidden.

**ConsentAndIdleClockProofs, the idle clock.** `CInv` adds to the types that nothing is of a time still to come, that there is
room for the session of every login out, that a request is given up within `Latency` and that an
answer's moment is no later than its session's last. Three properties, each with an invariant of its
own:
- `AskedFirstAlways`: a tab that did not sleep ticked within the last second, and its clock has not
  yet run out at that tick unless it was set back (`AInv`, `InTime`). It has a hypothesis, `Prompt`: a
  request takes less than the timeout less the difference between the two computers' clocks. Without it
  an answer could bring a moment that is already past the timeout. The code's numbers are far from it
  (seconds for axios, minutes for the timeout).
- `SparesTheActiveAlways`: a tab's clock is no older than the last act in its session, or news of that
  act is on its way to it (`SpInv`, `Covered`); and nobody has acted in the session of a sign-in still
  to land (`Fresh`). No hypothesis.
- `EndsHereFirstAlways`: of the session the cookie names, a clock's reading is a moment the server
  knows of or will be told of by a request on the wire (`Due`); so is every moment in the mail, unless
  a `logout` behind it undoes it (`EInv`, `Fine`, `Settled`). No hypothesis. The attempt to prove it
  found that the property held by the run's bounds alone: with three requests, a tab may be active in a
  session that another tab's sign-in replaced, and its broadcasts move every clock. The cause `replaced`
  names that; `EInv` was checked with TLC with the clocks set apart as well (`Skew = 1`).

The assumptions are those the modules name (`BoundsNat`, `InboxBounds`, `ConsentBoundsNat`,
`FormBoundsNat`, `ClockBounds`, `MaxInputsNat`, `MaxIssuedNat`, `QuantityNat`, `ProductsFinite`,
`ListsOfProducts`, `RequestsDistinct`, `Distinct`, `NoneIsNothing`, `NothingIsNoProduct`,
`NobodyIsNoPerson`, `NoClaimIsNone`, `NoReadIsNoRequest`, `NoneIsNoOrder`, `PagesKnown`,
`LanguagesAsDeployed`):
bounds are numbers, the "nothing" values are nothing else, Home and the login page are among the pages, the fallback is one of the
languages bundled with the page, and the bundled and the drafts are among those there are.

**Only model-checked.** Liveness (`Quiesces`, `EverythingSettles`): the proof system has no
rule that would reach it under fairness here. Every safety property of a passing run is a theorem.
No model needs a recursive operator; what one computes for every input could not be proved with the
provers used here, nor could `ENABLED`.

The type invariants are theorems and are in no run. `Session!OneSentence`
and `NeverToldAfterSignOut` (cookie mode) and `Checkout!EmptyMeansWrittenHere` hold on the same
instances as well.

## What is not modelled

`PROJECT.json` lists all 34 components with their status and the reason. In short:

- of the session: `logoutAll`, the two-factor, OAuth and deletion-restore challenges on the way to
  one, and reading the mode;
- of the carts: a second tab of the guest's (storage events) and the list's thirty-day expiry; the
  summary, the shipping choice and quote, reorder;
- of payments: finishing a challenge at the provider, settling or cancelling a hand-paid refund,
  offline payments;
- of forms: the user's and the profile's, simpler cases of the product's; the image's second
  request; `clearEtags` at a sign-out;
- of navigation: titles, focus, numeric error statuses and a missing record's page, the OAuth
  callback, `refreshRunningLocale`, the saved preference of a language;
- of telemetry: what a report holds, a build with one tracker or that asks nobody;
- the registry and the slots, the orders' timeline, returns, delivery, inventory, the live
  dashboard, the queue of dialogs and the lists' state in the address: planned or thin;
- everything that is a thin call over the third-party toolkit's cache (users, api keys, webhooks,
  translations, tasks, stats, stock alerts), whose caching is not in this repository; rendering,
  wording, and the client and schemas generated from the API's contract, which are most of the
  repository's lines and have no state.

The server is external throughout and is modelled from `openapi.yaml`, `asyncapi.yaml` and what the
code does with its answers. A `reloadAbilities` or a `loadViewer` that lands in a later session
(`session.ts` 448, 584), a login's answer during a refresh of an earlier cookie (`auth.ts` 107), a late
refusal for inactivity (`refresh.ts` 98), a `logout` message older than the sign-in that meets it
(`session.ts` 681), a deletion whose lost answer is rolled back (`notifications/store.ts` 426) and a settle that
waits for the newest request only (`use-line-quantity.ts` 112) are modelled and no property is
stated about them alone: the code has no check there and promises none.

## Plan

Done: the ordering of answers and the wishlist on it, the session and the idle clock, the inbox, the
cart page, the guest cart, the checkout and its keys, payments with step-up, the product form and its
tags, navigation with languages, consent; the abstract specifications `LatestAnswer` and
`OneOrder` and their refinements; the proofs above. What is left:

1. **Dialogs and lists** (`ui/dialog.ts`, `use-list-url-state.ts`): a queue whose callers each get
   their own answer; two lists on one address, each of which writes back the other's *old* keys
   while a `router.replace` is pending.
2. **Pure parts**, as functions checked against a reference definition over bounded inputs: the
   orders' timeline, the registry's collection and ordering, a list's state in the address.
3. **Returns, inventory, the dashboard's capped feed**, as further stores on tickets and keys.
4. **Challenges** on the way to a session: two-factor, OAuth, deletion-restore.

No safety property of a run waits for its proof. Worth proving next: that what the runs only explore
beside them holds for any instance (`Session!OneSentence`, `NeverToldAfterSignOut` in cookie mode,
`Checkout!EmptyMeansWrittenHere`), and an abstract promise of the cart page that `LineQuantity`
implements.

## Running it

    tlasany Session.tla
    tlc -workers 2 -config Session.cfg MCSession
    tlapm LineQuantityProofs.tla

Each configuration names the MC module of its component. Every run ends within a few minutes on two
workers. The proofs are in eight modules (22 000 obligations in all, most of them immediate) and take
about twenty-two minutes from nothing; `ConsentAndIdleClockProofs` and `InboxAndNavigationProofs` take
six each. Four of the modules hold the proofs of two components.
