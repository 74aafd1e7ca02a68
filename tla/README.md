# EstateAI: a verification project

EstateAI is a small real-estate site: a NestJS API over PostgreSQL
(`src/apps/api`), a React client (`src/apps/web`) and three endpoints that ask a
language model. This directory holds TLA+ models of the parts of it in which
things happen concurrently, their model-checking runs, and proofs about them.
It is written for a reader who has the repository at hand; paths below are
relative to `src/`.

## 1. The system

```
  browser tab                              API process                  outside
  -----------                              -----------                  -------
  AuthProvider --- getMe/login/logout ---> AuthController -- argon2
     |  cookie jar <-- Set-Cookie --------     |                        PostgreSQL
  HomePage                                  AuthService ------------->   users
     useProperties -- GET /properties --->  PropertiesController ---->   properties
     useAISearch --- POST /ai/search ---+     PropertiesService
  Details, Create, Edit pages ----------+-> guards -> throttler -> pipes
     ask, generate, POST/PATCH/DELETE        Ask/Generate/Search ---->   the model
                                             AiService (a timer)
```

The API is one Node process. A handler runs without interruption from one
`await` to the next; between two of them any other handler may run, and the
process may die. No handler opens a transaction that spans two of its queries.
The client is a tree of React components; a call's continuation runs when its
promise settles, in any order with others, and possibly after the page that
started it is gone.

| Component | State | Operations | Interacts with | What makes it correct |
|---|---|---|---|---|
| listings API (`properties/`) | the table `properties`; the locals of handlers that wait | GET one, GET all, POST, PATCH, DELETE | database; JWT guards; the account deletion's foreign key | only the owner writes; ownership never moves; seed rows stay; a write behaves as if it were atomic |
| accounts API (`auth/`, `users/`) | the table `users`; the locals of handlers inside argon2 | register, login, me, logout | database, argon2, cookie | one account per email; a token only for the password; 409 only with reason, 401 with reason or when argon2 fails |
| AI gateway (`ai/`) | throttler counts in memory; a timer per call | ask, generate, search | properties table, model provider, throttler | bounded wait; quota per user; only real listings shown, best first |
| boot (`database/`) | both tables | migrate, seed | container restarts | seeding is idempotent and leaves user data alone |
| error filter, process handlers (`common/`, `main.ts`) | none | map an error to a status; exit | every handler | every error path answers |
| request validation, profanity screen | none | accept or refuse | handlers, forms | what is refused changes nothing; what the client's forms let pass is accepted |
| durations and environment | none | parse | token and cookie lifetimes | the cookie lasts as long as its token, and not much longer |
| login throttling | library counts | count by address | auth endpoints | as the library does |
| health, logging, request ids, Swagger | none | - | - | - |
| web session (`features/auth`) | user, status; the cookie jar | getMe, login/register, logout, reload | auth API | the tab shows the user the API would see |
| home grid (`useProperties`, `HomePage`) | filters, debounced filters, fetches, result | type, choose, retry, mount | GET /properties; the search's results stand in its place | shows the answer to what is asked for |
| AI search (`useAISearch`) | query, submitted query, status, matches, promises | submit, retry, clear, mount | POST /ai/search | results are for the query they are labelled with |
| generator and draft (`features/ai/generator`, `create/`) | form, generated draft, publication | generate, edit, publish, retry | POST /ai/generate, POST /properties | a draft is published once, and describes one form |
| edit and delete (`edit/`, `OwnerActions`) | loaded listing, form, submission | load, save, delete | PATCH, DELETE; the details page | a save goes to the listing its form was filled from; what was written is what is shown next |
| listing page and questions (`PropertyDetailsPage`, `features/ai/qa`) | listing, question, history | load, retry, ask | GET one, POST /ai/ask | an answer is shown under its own listing |
| routing (`App`, `ProtectedRoute`, login, register and profile pages) | location, the call a form waits for | link, redirect, load, navigate after a call | session | nobody who is logged in is asked to log in; nobody is sent in circles |
| form validation, address derivation | none | pure | forms | a form that passes is accepted by the API, and what is stored can be edited |
| view components, shared types, containers, agent skills | none | - | - | - |

**What is hard here.** Handlers of one listing that interleave between their
queries (a stale entity written back, a row deleted under a write); a unique
index as the only guard of a check-then-act; a process that dies between two
queries; an answer that races a timer; a model that may say anything; users who
share an address; promises that settle out of order, after their page is gone,
or never; a reply that is lost after its effect took place; a cookie jar and a
React state that are told of the same login by different steps; an address, the
page rendered for it and the redirects that page asks for, which change at
different times; a component that is kept while the listing under it changes.
`PROJECT.json` lists each of these at the line where it bites.

## 2. The modules

| Module | What it is |
|---|---|
| `Listings` | the listings API: handlers split at their awaits, crash, boot, account deletion |
| `ListingStore` | the abstract specification of it: every operation atomic |
| `ListingsSerial` | `Listings` without overlapping writes to one listing, and the refinement to `ListingStore` |
| `Accounts` | register, login and me, with argon2 between their queries |
| `AiGateway` | ask, generate and search: guard, quota, pipes, candidates, model against timer |
| `Session` | one tab's `AuthProvider`, the cookie jar, and the calls in between |
| `Navigation` | the routes, the guard and the pages with forms, over `Session` |
| `PropertiesQuery` | the home page's grid: filters, debounce, the fetching effect and its cleanup |
| `LatestAnswer` | the abstract specification of a view that shows the answer to a query |
| `AiSearch` | the hook behind the AI search bar |
| `HomePage` | the home page: `PropertiesQuery` and `AiSearch` composed |
| `ListingPages` | the details page and the edit page of a listing, in one tab |
| `CreateFlow` | the create page: form, generation, draft, publication |
| `ListingFields` | pure: the fields of a listing through forms, requests, checks and columns |
| `Durations` | pure: the lifetime of a session, as the token and as the cookie get it |
| `*Proofs` | theorems about the module they are named after |
| `MC*` | small instances for TLC; one `.cfg` per run |

### Listings, ListingStore, ListingsSerial

`table` is the table `properties`: for every `externalRef` a row or `Absent`. A
row has an owner and columns, a function from the abstract set `Fields`; the
columns of `Nullable` (in the schema: `features`) have no NOT NULL. `req` has
one record per request in flight: its program counter, the caller, the entity
the handler holds and the row `save()` found.

* `FindOne`, `FindAll`, `Refuse` and `Create` have one query and are one step.
* `Call`, `LoadOwned`, then `SaveSelect`, `SaveInsert` or `SaveUpdate` are
  PATCH: `loadOwnedProperty` reads the row, `update()` merges the body into it,
  and TypeORM's `save()` reads the row again and inserts it or updates the
  columns in which the two differ. `Remove` is the second query of DELETE.
* `Boot` is `migrate && seed && start`; `Crash` loses what is in flight;
  `Register` and `DeleteAccount` are what the table `users` does to this one.

A session outlives its account (`JwtStrategy.validate` looks nothing up), so a
deleted account may still send requests. `creator` is a history variable: who
published a listing.

`ListingStore` is the service one would describe: each operation one step.
`Listings` does **not** implement it. Two PATCHes of one listing can lose an
update, and a PATCH that overlaps a DELETE can bring the listing back (section
5). `ListingsSerial` adds the hypothesis that no two writes to one listing
overlap, and then it does.

### Accounts

`users` is the table, with its unique index on the lower-cased email. A request
of `register` finds, hashes, then saves; one of `login` finds, verifies, then
signs. argon2 may also fail (`ArgonFails`): a failing hash rejects, the 500 of any
uncaught error, but a failing verification is caught (`.catch(() => false)`) and
answered as a wrong password is, with a 401, which is why `RefusalJustified` has
that case. A query may fail instead of answering (`QueryFails`). Emails come as typed (`RawEmails`) and are compared as `Lower` says. A
hash is a pair of a tag and the password: what a reader of the row cannot use as
a password. `past` records every account there ever was, for properties about
accounts deleted since.

### AiGateway

Listings are numbered by `createdAt`; of their columns only `features` matters
(it may be NULL, and the prompt builder joins it). `hits` are the throttler's
counts. `Admit` is everything from the guard to the first await. A search then
loads the newest `CandidateLimit` rows, asks the model, and shows the model's
ranking restricted to those rows and cut to `MaxMatches`. `ModelAnswers` lets
the model return any sequence of ids, repeated and invented ones too;
`ModelFails` and `TimerFires` are the two ways to 503.

### Session and Navigation

`cookie` is the jar; `user` and `status` are `AuthProvider`'s; `call` has the
calls in flight and how far each is. `Serve` is the API deciding, `MeSettles`,
`AuthSettles` and `LogoutSettles` the continuations, `Lost` a call that rejects,
with or without its headers having reached the jar. `Expire` ends the session,
and `OtherTab` changes the jar without this tab hearing of it. `overlap` and
`trouble` record that calls overlapped, or that one was lost, the session
expired or another tab interfered, since the tab was loaded. A reload clears
both, and what is claimed holds anew.

`Navigation` extends it. `url` is the current entry of the history, `at` and
`shown` the location and the status of the last render, `due` the `<Navigate>`
of that render whose effect has not run, `form` the call that the mounted page
waits for, `dest` where the continuation of a login will navigate. `Redirect` is
what the page of a location renders: `ProtectedRoute`'s guard, the login and
register pages for who is logged in, and the route that only redirects.
`RenderStatus` and `RenderLocation` are separate steps, because the router asks
for the second as a transition; `RunRedirect` is an effect. The user clicks,
traverses, loads, submits a form or logs out. A continuation navigates even if
its page is gone. Locations carry the path they remember as `from`, which the
client always writes itself: that other values are turned into home by
`resolveSafeInternalPath` is outside the model.

### PropertiesQuery and LatestAnswer

`Type` and `Choose` change the filters, `Debounce` is the timer, `RunEffect` is
React running the cleanup of the last effect and then the effect, `Succeed` and
`Fail` settle a fetch. Listings are named by the filters they were fetched for,
so that showing the wrong ones is visible. The two texts of the filter bar, the
place and the price, have a timer each in the code and one in the model: the
fetch for a new place with an old price, between the two, is left out.
`LatestAnswer` has two variables,
what is wanted and what is shown; the refinement maps them to the dependencies
of the last effect and to the status with its items. `ListingPages` implements it
too, with another mapping.

### AiSearch and HomePage

`RunSearch` is the body of the hook, `Submit`, `Retry`, `Clear` and `SetQuery`
its callers, `Succeed` and `Fail` its continuations. Nothing cancels a search
that was sent: `cleared` has those in flight that were cleared away, and
`strayed` records that one of them settled after all since the last clear. When
that happens its results replace the grid again, labelled with the empty query
or with the one submitted since, or an error does whose retry button may be dead,
since `clear` has emptied `submittedQuery`. This step, and what follows it until
the user clears again, is what the hypothesis `~strayed` of `ResultsMatchLabel`
leaves out, and nothing else: up to it, and after the next clear, what is shown is
right however many cleared searches are in flight. (`useAISearch.ts:17` has
`active` say that a search was submitted.)

`HomePage` is the page: the grid's steps, the search's steps, and what one does
to the other. The grid's retry button is not there while results are; the bar is
for those logged in, while the results and their retry button are not; leaving
the page resets both.

### CreateFlow

`values`, `status` and `asked` are `useListingGenerator`: the form, its status,
and the form the call to the model is for. `draft` is the state of the
`DraftEditor` that `CreatePage` mounts when the copy arrives; `fit` stands for
what `validateDraft` says of it. `posts` are the publications in flight: `Serve`
is the API's POST, `Lose` a call that fails on its way there or back, `Succeed`
and `Fail` are the continuations of `publish`. `Leave` and `Return` unmount and
mount the page. A publication outlives its page, and when it succeeds it takes
the user to the new listing from wherever they are by then. `doubted` records
the drafts of which a reply was lost: for those the client cannot know whether
there is a listing, and the code posts again when the user presses Publish.

### ListingPages

`page` and `at` are what the router shows, `load` the state of the page, `ran`
the id its effect last ran with, `fetches` the fetches nobody has told to be
ignored (the cleanup of the effect takes the one before out). `deletion`,
`draft` and `qa` are the state of `OwnerActions`, `useEditProperty` and
`PropertyQAForm`, which live as long as the page shows a listing, *whichever it
is*: React keeps them when only the id in the address changes. Between the
address and the effect that follows it the old listing is still there. What
saves the code is that the effect sets the page to its skeleton, which unmounts
them (`Cleared`); the mutant `SwappingRunEffect`, which keeps the old listing
until the next one arrives, breaks `OwnValuesOnly` and `AnswersOwnListing`. The
effect and the render with the skeleton it asks for are one step (`RunEffect`),
and the page takes no notice of a login that comes or goes meanwhile.

`writes` are the deletions and saves in flight. `live` says that the component
that made the call is still mounted; a call whose component is gone still
navigates when it succeeds (`Done`). `store` has a revision for each listing,
which others raise and delete too (`Elsewhere`): the listings of `ListingStore`,
one step each. `told` is what the replies to this tab's writes said, and only
`ReadsOwnWrites` reads it. A reply nobody waits for any more does not count.
The user of the tab is logged in throughout, but the session may lapse, so a
call may answer that a listing is not their own (`Got`).

### ListingFields and Durations

Two pure modules: no state, only operators. A text is its length and whether the
profanity screen finds anything in it (one length for both sides: the client
counts UTF-16 units, while the API's validator counts a surrogate pair as one, so
that a text the client lets pass is never longer to the API); a number is a number of thousandths, and
a field of a form a set of at most one. `validateDraft`, `validate` and
`validateNewFeature` are the client's checks, `CreatePropertyDto` and
`GenerateListingDto` the API's, `Stored` what the columns make of an accepted
body (`numeric` rounds to hundredths, `simple-array` splits at commas), and
`toDraftValues` the form that edits it. `Durations` has `parseDurationToMs` and
what the token (`expiresIn`, in whole seconds) and the cookie (`maxAge`, which Express floors
to the whole seconds of `Max-Age`) make of it. They are proved about (section 6) and evaluated on samples by the
assumptions of `MCCreateFlow` and `MCAccounts`, which include the cases the
theorems exclude: a highlight by the model that is longer than a tag may be,
with which the API refuses a draft the client lets pass (`LongHighlight`); a
price of less than half a cent, stored as 0.00 (`FractionOfACent`); ten tags one
of which has commas, read back as eleven (`ElevenTags`); a price the column
overflows at (`Overflow`).

## 3. The runs

| Run | Instance | Shows |
|---|---|---|
| `listings_safety` | 2 users, 1 seed and 1 user listing, 2 columns, 3 requests | `OwnerIsCreator`, `OwnFlagSound`, `OnlyOwnerWrites`, `SeedRowsFixed`, `ReturnsOnlyByEarlierPatch` |
| `listings_serial` | 2 users, 2 listings, 2 requests, fairness | `TypeOK`, `ImplementsStore`, `EveryRequestEnds` |
| `listings_lost_update` | 2 requests | violated: `PartialPatchKeepsOthers` |
| `listings_resurrection` | 2 requests | violated: `DeletedStaysDeleted` |
| `accounts` | 3 spellings of 2 emails, 2 passwords, 2 accounts, 2 requests, fairness | `TypeOK`, `EmailsUnique`, `TokenEarned`, `RefusalJustified`, `ConflictJustified`, `EveryRequestEnds` |
| `ai_gateway` | 2 users, 3 listings of which 2 candidates, rankings of up to 2 ids, fairness | `TypeOK`, `BestMatchesShown`, `OwnTrafficOnly`, `EveryRequestEnds` |
| `ai_null_features` | 1 user, 1 listing | violated: `SearchFailsWith503` |
| `navigation` | 1 user, 1 open, 2 form, 1 protected and 1 redirecting path, 2 calls, fairness | `NavTypeOK`, `MirrorsWhenCalm`, `LoadingEnds`, `LogoutResets`, `BouncesOnlyStrangers`, `ComesToRest` |
| `session_late_me` | 2 users | violated: `Mirrors` |
| `home` | 2 texts, 2 choices, 2 fetches, 2 queries of which 1 refused, 2 searches, fairness | `HomeTypeOK`, `ImplementsLatest`, `FiltersWin`, `ResultsMatchLabel`, `SearchEnds` |
| `pages` | 2 listings with 2 revisions each, 2 writes, fairness | `TypeOK`, `OwnValuesOnly`, `AnswersOwnListing`, `ReadsOwnWrites`, `ImplementsLatest`, `PendingEnds` |
| `create_flow` | 2 forms, 2 drafts, 2 listings of one draft, 2 publications, fairness | `TypeOK`, `DraftOfOneForm`, `PostedAsShown`, `PublishedOnce`, `PendingEnds` |

Every property of a passing run has a mutant: a definition next to the one it
replaces (its comment says "Mutant:") that changes it as a plausible bug would,
and with which TLC finds the property violated.

**The bounds.** Handlers of different listings share no state, so one listing of
each origin shows what can happen to one; three requests let a writer overtake
a reader that overtook another, and two are the least for every race found. Two
columns, one nullable, tell the column that is named from one that is not. Two
users are the owner and somebody else. Emails need two spellings of one and
another one. Three listings of which two are candidates make `FindRecent`
leave one out, and rankings of two ids with one shown make an invented id stand
before a real one. In `HomePage` two fetches let one be overtaken by the next,
and a search is sent only while none is pending, unless one was cleared, so that
two slots allow a cleared search and a live one. In `Navigation` one protected
path stands for the profile and the create page, the two form paths lead to each
other, and two calls are one that overtakes another; a second user would make no
difference there, since no definition compares two of them (`session_late_me`
has two). Two listings are the least between which values could cross, two
revisions tell before from after, and two writes are one whose page was left and
the next one. In `CreateFlow` two drafts are one that was abandoned while its
publication ran and the next one, and two listings of one draft are what
`PublishedOnce` forbids. The slots are also where a model stops what the program
would not: when all are taken no further request is sent. The proofs below hold for any number of them.

`SYMMETRY` is used in `listings_safety` only, over users and requests, which no
definition tells apart; that run has no liveness property.

**What React does first.** In `Navigation` (`Idle`) and `ListingPages` (`Busy`)
the user does nothing while a render or an effect is due: React finishes both
within the event or the task that asked for them, or before the next event it
handles. Replies may still arrive in between, and do in the model. In
`Navigation` what happens outside the tab (`Elsewhere`: the API, an expiry,
another tab) waits for the render too, which keeps the instance small; it
touches nothing a render reads or writes.

**Deadlock** is checked in every run.

## 4. Fairness

* API (`Listings`, `Accounts`): Node runs every continuation that is ready, the
  database answers every query or fails it, argon2 ends or fails, and the container is
  restarted (`restart: unless-stopped`). Clients, operators and crashes owe
  nothing.
* `AiGateway`: the database, and the timer `raceAgainstTimeout` sets. **Nothing**
  is assumed of the model: a request ends by the timer alone, and the mutant
  without the timer fails.
* `Navigation`: React renders what it was asked to and runs effects, and a call
  is served and settles, or is lost. The client's `fetch` has no timeout of its
  own, so this assumes the browser's. `LoadingEnds` asks in addition that the
  user stops reloading, since each reload starts a new spinner; `ComesToRest`
  that the user stops; `LogoutResets` asks for neither.
* `HomePage`: the browser fires its timers, React runs effects, and fetches and
  searches settle, the latter because the API answers within its timeout.
  `FiltersWin` asks in addition that the user stops; `SearchEnds` does not.
* `ListingPages`: React runs its effects (`React`), and some call makes progress
  as long as any can (`Network`); there are finitely many, and none is made
  while the user does nothing except by an effect. `PendingEnds` asks that the
  user stops.
* `CreateFlow`: a generation settles for the same reason; a publication is
  served, or fails, and what was answered settles. The user owes nothing: the
  pending states end also if nobody leaves the page.

## 5. What the code does against what it says

| Run | Code | Says otherwise |
|---|---|---|
| `listings_lost_update` | `update()` saves the entity it read earlier; `save()` compares all of it with the row of now, so a PATCH of the price writes back the old features | `properties.service.ts:74` |
| `listings_resurrection` | the row is gone when `save()` looks for it, so it is inserted: a listing whose DELETE was answered 204 is back | `test/e2e/properties.e2e.spec.ts:309` |
| `ai_null_features` | PATCH admits `features: null`; the prompt builder joins it outside the `try`, and every search that has the listing among its candidates answers 500 | `README.md:254` |
| `session_late_me` | the page load's `getMe`, served before a login and settled after it, replaces the user of the login by the one of before, or by none, while the cookie is that of the login | `AuthContext.tsx:3` |

## 6. The proofs

TLAPS checks the following for every value of the constants that satisfies the
named assumptions (`SentinelsAssumption` and so on: sentinels are not values,
inputs have their types). No proof rests on a bound.

| Module | Theorems | Inductive invariant |
|---|---|---|
| `ListingsProofs` | `TypeCorrect`, `Ownership`, `OwnFlags`, `OwnerWrites`, `SeedRowsStay`, `Returns`; of `ListingsSerial` `SerialRefinement`, `SerialDeleteIsFinal`, `SerialPatchIsPartial` | `IInv`: the properties, with `HandlerInv` (past the ownership check the caller is the creator of its target, and the entity it holds is owned by them) and `CreatorInv` (a listing of a user that nobody created has no row, a seed listing has no creator). `SerialInv`: one writer per listing, and what a writer holds is the row of now with its body merged in, but for an owner whose account is gone (`FreshViews`) |
| `AccountsProofs` | `TypeCorrect`, `UniqueEmails`, `TokensEarned`, `Conflicts`, `Refusals`, and of `Durations` `CookieOutlivesToken` | `IInv`: with `PastInv` (history agrees with what is stored) and `AwaitInv` (the account a login holds across argon2, also when that fails, is one there was, under the email it gave) |
| `AiGatewayProofs` | `NobodyElseThrottles`, `TypeCorrect`, `BestShown`, `OnlyNullsFailOtherwise` | `Counted`: a user's count equals the requests of that user admitted in the window; `Honest`: what a slot shows is what its answer and its candidates give; `EndsWell`: a search that has read its candidates is still waiting or ended with 200 or 503 |
| `NavigationProofs` | `MirrorsTheServer`, `PagesMirror`, `NavTypeCorrect`, `OnlyStrangersBounce`, `RedirectsEnd`, `StopsOnlyAtRest` | `NavInv`: of the session, that without overlap at most one call is in flight (`OneCall`) and carries the cookie there is (`CalmInv`, `AuthAs`); of the pages, that every location is one the client writes (`PagesOK`) and a form in flight knows where to go (`DestInv`). `RestInv`: with `Rendered` (when nothing is due, what is on the screen is of the location and status there are), `FormWaits` and `SpinnerWaits` (a form and the spinner have a call in flight) |
| `HomePageProofs` | `HomeTypeCorrect`, `HomeRefines`, `ResultsCorrect`, `SkeletonsAwait`, `QuietGridIsCurrent` | `HomeInv`: `OnlyTheLastIsHeeded` (a fetch that is not cancelled is for what the last effect ran with, and while loading nothing else is heeded) and `OneSearch` (until a cleared search settles, at most one in flight is not cleared, and is for what is submitted); `Awaits` |
| `ListingPagesProofs` | `TypeCorrect`, `OwnValues`, `OwnAnswers`, `OwnWrites`, `Refines`, `DisabledAwaits` | `IInv`: `FetchInv` and `LoadInv` (the fetch in flight and the listing shown are of the last effect), `BelowInv` (what is below a page without a listing is new, otherwise it is about that listing), `WriteInv` (somebody waits for a write only on the page it was made on), `KeptInv` (rows only get newer than what replies said), `FreshInv` (so does what was fetched since); `Awaits` |
| `ListingFieldsProofs` | `ClientMirrorsApi`, `AddedTagsFit`, `FormMirrorsApi`, `EditableAgain` | none: they are about operators |
| `CreateFlowProofs` | `TypeCorrect`, `OneForm`, `AsShown`, `Once`, `DisabledAwaits` | `FormInv` (while the model writes the form stays what it was asked for), `PostInv` (a draft has one publication at most, and unless a reply was lost its stage tells whether there is a listing), `KeyInv` (a draft not yet made is no listing); `Awaits` |

Why strengthenings are needed: `OwnerIsCreator` is about rows, but a write puts
into the row what a handler read several steps ago; only `HandlerInv`, which
says what every handler holds, carries the fact across the awaits. Likewise
`TokenEarned` needs to know what a login holds inside argon2, and the two
refinements of `LatestAnswer` what every fetch in flight would do if it settled
now. `ReadsOwnWrites` takes the longest way: a write is told only while its page
is there (`WriteInv`), telling it unmounts or re-fetches everything that page
showed, and no fetch is served from before it (`KeptInv`, `FreshInv`).

Each safety theorem has the shape `Init => IInv`, `IInv /\ [Next]_vars => IInv'`,
`IInv => Inv`, with one lemma per kind of action; the action properties follow
from `IInv` and a lemma on what a step can do to a row (`RowChanges`) or to a
reply.

The theorems about `ListingFields` say of the client and the API together, for
every form: what passes `validateDraft` passes `CreatePropertyDto`, if the tags
have the length the editor asks of those that are typed (which it keeps,
`AddedTagsFit`); what passes `validate` passes `GenerateListingDto`; and what
was published can be loaded into the edit form and saved again, changing
nothing, if price and area are at least half a hundredth and no tag has a comma.
`CookieOutlivesToken` says that the cookie never ends before its token, and less
than a second after it, the time the reply takes aside: both lifetimes are
floored to whole seconds, the token's by `AuthModule` and the cookie's by
Express, which writes Max-Age, and what differs is that the token counts from the
beginning of the second it is issued in (`duration.util.ts:11` says they always
match).

**The refinement of the listings.** `SerialRefinement` is `SerialSpec =>
ImplementsStore`. A step of `Listings` maps to the operation of `ListingStore` it
completes and every other step to a stutter; a PATCH takes effect at its last
query, so what it read before must still be true by then. That is `FreshViews`,
and it is inductive only together with `OneWriterPerListing`: the one step that
may change a row under a writer is the deletion of its owner's account, which
clears the owner and nothing else; the UPDATE then either leaves that column alone
or is refused by the foreign key, and changes nothing.
`SerialDeleteIsFinal` and `SerialPatchIsPartial` are the two properties that
`listings_resurrection` and `listings_lost_update` violate, proved under the one
hypothesis those runs lack: overlapping writes to one listing are the only way to
either. In the same way `OnlyNullsFailOtherwise` is `Spec /\ []NoNulls =>
[]SearchFailsWith503`: the NULL column of `ai_null_features` is the only way to
an answer other than 200 and 503 once the candidates are read. And
`MirrorsTheServer` says the same of `session_late_me` and overlapping calls.

**Induction over the model's answer.** `BestMatchesShown` compares what a search
shows, a filter and a cut of a sequence of any length, with a count over the
positions of the answer. `Filtered` is written as a recursive function for that
proof, and the induction over its positions is done without a theorem that takes
an operator: the set of positions at which the claim fails has a least element
(`LeastNatural`, from the well-foundedness of `<`), and the step refutes it
(`InductionUpTo`). `FilteredRanks` then says where each kept id goes, `BestCounts`
how many there are.

**What is pending waits for something.** Liveness is left to TLC, but each
liveness property has a half that is about states: whatever is loading or
disabled waits for a call that is in flight, and where nothing is in flight
everything is as it should be. These halves are proved for every
instance, from an invariant `Awaits` or `RestInv`:
`DisabledAwaits` of `CreateFlow` and `ListingPages` (for `PendingEnds`),
`SkeletonsAwait` (for `SearchEnds`), `QuietGridIsCurrent` (for `FiltersWin`: a grid
with no timer, effect or fetch left shows what the filters ask for, or an error),
`RedirectsEnd` (no location starts more than two redirects) and `StopsOnlyAtRest`
(for `ComesToRest`: the tab stops only on a page that asks for no further
redirect). What is left of the liveness properties is that
the calls, timers and effects they wait for do happen.

Model-checked only: the liveness properties themselves (`EveryRequestEnds`,
`LoadingEnds`, `LogoutResets`, `ComesToRest`, `FiltersWin`, `SearchEnds`,
`PendingEnds`), since neither fairness nor ENABLED is within the prover's
reach. Every invariant and every other action property or refinement of a
passing run is a theorem.

## 7. What is not modelled, and why

Wording, layout, logging, health checks, Swagger and type declarations have no
behaviour. The regular expressions and the word list of the profanity screen, the
parsing in `deriveAddressCity` and in `resolveSafeInternalPath`, and the wording
of the prompts are text: a flag, or a choice of both outcomes, stands for them.
The bodies of register, login, ask and search are accepted or refused without a
reason. Login throttling is the library guard as it ships. The checks of the
environment at boot stop the process before it serves anything. Migrations run
once, by TypeORM's own table. TypeORM, the database, argon2, the throttler's
windows, the browser, React, the router and the model provider are modelled from
how the code uses them and are marked external in the map. One tab is modelled
(others act on its cookie jar and on the listings), with one API process, as
`docker-compose.yml` runs it. `.agents/` is vendored material for coding
assistants and no part of the program.

Things the code does that no property speaks about, because nothing in the
repository promises otherwise: a save undoes the edits another tab made since
the form was loaded (`useEditProperty.ts:82`); a publication, a save, a deletion
or a logout that succeeds takes the user away from wherever they are by then;
the text typed while an answer is awaited is wiped when it arrives
(`PropertyQAForm.tsx:32`).

One thing the plan promises is neither confirmed nor refuted here: that a user
who has logged in or registered ends on the page they came from
(`docs/TECHNICAL_PLAN.md:93`). The form navigates there (`LoginForm.tsx:45`), and
the page of the form, rendered with the new status, navigates home
(`LoginPage.tsx:11`); which comes last depends on how React and the router
schedule their renders. The model lets both happen, and `ComesToRest` says only
that the tab comes to rest either way.

## 8. What could follow

* An abstract specification of the accounts, with registration and login atomic,
  and a proof that `Accounts` implements it: the unique index is what should make
  the work of argon2 between the queries invisible.
* `Listings` with an AI search reading the table it writes, in the place of the
  abstract rows of `AiGateway`.
* Two tabs with a full `Navigation` each over one cookie jar.
