# Raceboard: a TLA+ model of its asynchronous core and of its screens

Raceboard collects running races from two Polish race calendars, keeps them in a
PostgreSQL catalogue, mirrors them into a MeiliSearch index, places them on a map
with the help of a small Go geocoding service, and lets users keep a watchlist and
review races. This directory models the parts of it where several processes, a
message queue, browser tabs and derived copies of data (averages, documents, cached
pages, coordinates, what a screen shows) meet.

Paths below are relative to the repository root.

## 1. The system

### Processes

| Process | Code | State it owns |
| --- | --- | --- |
| PHP-FPM web requests | `src/*/Infrastructure/Http`, API Platform providers | none between requests; an entity manager per request |
| Async worker (`messenger:consume async`, one container) | handlers of `config/packages/messenger.yaml`'s async messages | the message in hand; an entity manager per message |
| Scheduler (`messenger:consume scheduler_import`) | `ImportScheduleProvider`, then `ImportRacesFromSourceHandler` in the same process | last run times |
| Console commands | `app:import [--sync]`, `app:geocode`, `app:search:index` | an entity manager per command |
| Go geocoder | `geocoder/` | in-memory city cache, rate limiter |
| Browser | `frontend/src` | screen state, JWT |
| PostgreSQL, Redis (queue and cache), MeiliSearch, Nominatim | external | rows, messages, cached pages, documents |

### Components, operations and what makes them correct

1. **Reviews** (`src/Review`, `RecalculateRaceAverageRatingHandler`). State: rows of
   `review_reviews`, `average_rating` of a race. Operations: POST and DELETE of a review,
   the `ReviewAdded`/`ReviewRemoved` messages, the recalculation. Correct when a user has
   one review per race, only authors remove, and the average follows the rows whatever
   the queue does. Hard: check-then-insert without a unique key, commit-then-dispatch,
   at-least-once delivery with retries, read-then-write of the average.
2. **Race import** (`src/DataImport/Application/ImportRacesHandler.php`,
   `DuplicateDetector`, `src/RaceCatalog/Domain`). State: races, editions, distances, the
   index, the `RacesImported` event. Operation: one pass over a scrape. Correct when no
   race or edition is doubled, nothing committed is overwritten, and every created race is
   indexed and announced. Hard: partial failure between commit, index and event; retries
   that meet their own half-done work; the identity map; two jobs at a time; time of day in dates.
3. **Geocoding pipeline** (`GeocodeRacesOnImportHandler`, `GeocodeRacesHandler`,
   `GeocoderServiceClient`, `ReindexRacesOnGeocodeHandler`, `GeocodeRacesCommand`). State:
   coordinates of races, `_geo` of documents. Correct when coordinates are stored once and
   reach the index.
4. **Notification** (`SendWatchlistNotificationHandler`, `WatchlistMailer`,
   `SendEmailMessage` on the async transport). Correct when every watcher of an imported race
   gets a digest, and a second one only because the step that sent it was repeated.
5. **Go geocoder** (`geocoder/internal/geocoder/service.go`, `cache`, `main.go`). State:
   jobs and results channels, five workers, cache, limiter, request context. Correct when a
   request always ends, never reports a city it did not resolve, and honours the rate limit.
6. **Search** (`CachedSearchIndex`, `MeiliSearchAdapter`). State: documents, Meili's task
   queue, cached pages. Correct when a cached page is no older than the TTL and writes drop it.
7. **Watchlist** (`src/UserProfile`, `useWatchlist`, `useWatchlistStatuses`,
   `WatchlistPage`). State: entries with a unique key of user and race; per screen what it
   draws as watched. Operations: add, remove, check one, check many, list, and the toggles.
   Correct when a race is watched once and hearts agree with the rows. Hard:
   check-then-insert, writes and checks that overlap, two places that flip differently.
8. **Users and session** (`RegisterUserHandler`, `UserProfileController`, `api/client.ts`,
   `AuthContext`, login, registration and account pages, header). State: accounts, names,
   one token in local storage, what each tab believes. Correct when a login ends for a
   reason and the account page shows the account. Hard: tabs share the token but not
   their state; every 401 removes it; requests outlive pages and documents.
9. **Search screens** (`frontend/src/components/search`, `useSearchState`). State: the URL,
   the screen drawn from an earlier URL, list, map, timers, requests. Correct when what is
   shown answers the present search and the URL keeps what was asked for. Hard: navigation
   that renders later, debounces that outlive their screen, overlapping answers.
10. **Race page and reviews screen** (`RacePage`, `frontend/src/components/review`). State:
   details, list, own review, form, deletion dialog. Correct when the page shows the race of
   its URL and the user's review is neither lost nor doubled. Hard: two reads in one answer,
   reloads after writes, lost answers of writes that happened.
11. **Scrapers, normalizers, sitemap, API Platform read side, UI components**: input parsing
   and presentation.

## 2. Hard behaviours

Nothing in Raceboard runs in a transaction wider than one repository `save`, and no
row is locked. So every handler is a sequence of separately visible steps: look up,
commit, index, dispatch. The queue delivers at least once, retries only the handlers
that threw, and may deliver after the rows have moved on. Derived data (the average of
a race, its document, a cached page, its coordinates) is brought up to date by events
that can be late, doubled or lost with their process. The Go service adds goroutines,
unbuffered channels and a context that can end at any point. `PROJECT.json` lists the
hazards line by line, with the properties that watch them; a hazard without a property
has a note that says why.

In the browser every handler runs to its end, but between two handlers lie timers,
renders, answers and other tabs. Effects have clean-ups that cancel some of what they
started and not the rest: writes are never cancelled.

## 3. Modules

| Module | Models | Composed with |
| --- | --- | --- |
| `Reviews` | reviews, voter, events, worker, stored average | `ReviewsProofs`, `MCReviews` |
| `RaceImport` | one import job record by record, two jobs, retries | `RaceImportProofs`, `MCRaceImport` |
| `GeocodeCall` | abstract: what a geocode call promises its client | refined by `Geocoder` |
| `Geocoder` | the goroutines, channels, cache, limiter and contexts of the Go service | `GeocoderProofs`, `MCGeocoder` |
| `RaceEvents` | what happens after an import: geocoding, digests, reindex, retries, `app:geocode` | `RaceEventsProofs`, `MCRaceEvents`; takes `RaceImport` as one step per race and a `GeocodeCall` as a partial answer |
| `SearchCache` | documents, MeiliSearch's task queue, cached pages, writers, reindexings, searches | `SearchCacheProofs`, `MCSearchCache`; takes `RaceEvents` as writers |
| `LatestAnswer` | abstract: what a screen that fetches promises its reader | refined by `SearchScreen` (list and map) and `RaceScreen` (race page) |
| `SearchScreen` | search state in the URL, list, map, debounces, the way to a race and back | `SearchScreenProofs`, `MCSearchScreen` |
| `RaceScreen` | race page with its reviews against the server and other writers | `ReviewsProofs`, `MCRaceScreen`; takes a write of `Reviews` as one step |
| `Watchlist` | the rows of a user, their requests, and the three screens that draw them | `WatchlistProofs`, `MCWatchlist` |
| `Session` | accounts, tokens, tabs over one local storage, login, registration, profile | `SessionProofs`, `MCSession` |

The modules of the browser are vertical slices: screens, and the steps of the server they
call.

### Reviews

`reviews` is the table `review_reviews`, `average` the column `average_rating` (in
sixtieths; 0 is null). A web request is a process whose `pc` is the next step of the
handler and in the end its HTTP status: `Post`, `CheckDuplicate`, `Save`, `Dispatch` are
`AddReviewHandler` cut where another process can come in between; `Delete`, `RemoveRow`,
`Dispatch` are `ReviewController::remove` and `RemoveReviewHandler`. `LoseEvent` and
`Abort` are a process that fails or dies after or before its commit. The worker
(`Receive`, `ReadAverage`, `SaveAverage`, `Acknowledge`, `HandlerFails`, `WorkerDies`)
runs `RecalculateRaceAverageRatingHandler` for a message taken from `queue`, a set: the
order of delivery is free. `missed` is a history variable, the races of which an event
was lost, or given up by the failure transport, since their reviews were last read.

### RaceImport

A job walks through a scrape: per record `SkipInvalidDate`, `Create` or `Enrich` work on
the entity in memory, `Save` commits it, `Index` writes its document and, for a created
race, appends to `newRaceIds` (`fresh`), `Finish` dispatches `RacesImported`. `Abort` is
an exception or a death anywhere, after which the job may start again with a new scrape.
`seen` is Doctrine's identity map. Dates are day numbers; an edition in memory also has a
time of day (`clock`), because `createFromFormat('Y-m-d')` takes it from the clock, and
`Stored` drops it. The order in which a scrape lists its records and which of several
matching races or editions is met first are choices of the model.

### Geocoder and GeocodeCall

One call of `GeocodeMany` is its producer (`HandOut`, `CloseJobs`), its workers
(`RangeEnds`, `LookUp`, `Refuse`, `Queue`, `Grant`, `Fetch`, `FetchFails`, `Deliver`,
`Drop`), its closer (`CloseResults`) and its collector (`Deliver`, `Return`). A send on an
unbuffered channel is one step of both ends. `Expire` ends the request context; where the
code selects between a ready channel and a done context, both actions are enabled.
`GeocodeCall` only says that each city is settled once, and that the answer comes when
none is open. The refinement maps a city to "found" when it was collected, to "lost" when
a worker gave it up, dropped it, or nobody will be handed it any more, and to "open"
otherwise.

### RaceEvents

A race is `none`, `plain` or `located` in its row, its document and in the memory of the
import. `Receive`, the `Call...` actions, `Throw` and `Settle` are Symfony's
worker: handlers of one message run one after the other, a message with broken handlers is
sent again to those only, and after its last try it lies in `failures`, the failed transport,
which no worker consumes. `SaveNext` commits the coordinates of one race, `Conclude`
dispatches `RacesGeocoded`. `Backfill` and the process `console` are `app:geocode`.

A digest takes two messages. `config/packages/messenger.yaml:24` routes `SendEmailMessage` to
the async transport, so the notification (`CallNotify`, `Mail`, `AllServed`) enqueues one
email per watcher, each with tries, redelivery and a failed transport of its own, and only
the mailer's handler in the worker (`CallSend`, `Deliver`) hands it to the mail server.
`faulty` are the handlers that may throw, any number of times; they are chosen at the start.

Histories: `told` are the digests that reached the mail server and `promised` those that a
finished notification has served; `owed` counts, per import and watcher, the digests that
may still come, one at first and one more when a step that had enqueued or delivered one is
run again; `cutOff` and `overtaken` are located races whose geocoding ended before its
event, and those an import indexed as it had loaded them before.

### SearchCache

A race is its version. Writers commit (`Commit`) or load (`FindByIds`, `FindAll`) races,
hand documents over (`AddDocuments`, `DeleteAllDocuments`) and drop the tag
(`InvalidateTag`); MeiliSearch applies its tasks later, in order (`Apply`). A search
that misses reads what MeiliSearch has now (`Miss`) and stores its page later (`Store`);
`Tick` ages pages. Pages do not depend on each other, so one key stands for all.
`behind` is history: races whose newest version can be missing because their writer died
or another was under way with an older one.

### LatestAnswer

A screen asks a question (a search, a race), shows an answer or fails. `Show` may only
put the answer to the present question on the screen; what was shown before may stay. It
is the common promise of `Search.tsx`, `MapSearchView.tsx` and `RacePage.tsx`, which keep
it by three different devices (abort and a cleared timer; abort, generation and timer; a
`cancelled` flag), and the three refinements map their state to it.

### SearchScreen

`url` is the location of the browser, `seen` the one the screen was drawn from; `Render`
brings the screen up, mounts or unmounts `Search`, and runs the effects of list and map
with their clean-ups (`ListCleanUp`, `Aborted`). `Parse` and `Serialize` are
`useSearchState`'s two conversions as functions between search states and URL parameters.
`Update` patches the state that is drawn, as `updateState` does, not the one of the URL.
`syncs` are the 500 ms timers by which the map writes its area into the URL; they belong
to the screen that set them and outlive it. A map opened with an area in the URL is fitted
to it (`fitting`, `Fitted`), which ends in a movement like one of the user: the area shown
may differ from the one asked for, is asked about anew, and gets a timer. A fit that is not
animated ends before the map is watched, so `Fitted` need not come. Requests of the map
overlap in `map.calls`; which earlier search an aborted one asked for is forgotten (`None`),
since every answer but that to the present search is to be kept off the screen alike.
`wanted` is history: the search the user has asked for, or `None` when one of two known
things overtook it (a second action before the first was rendered, a timer of an earlier
screen).

### RaceScreen

`page` is `RacePage` with its timer and its requests, `raceReviews` is `RaceReviews`, `form`
and `item` the two components that exist only without or with an own review. A GET is
served in two steps, as `ReviewController::list` reads the user's review before the page.
A write carries whether its screen and its form or item are still mounted. `surprise` is
history: the user's review was changed by another tab, or an answer was lost. Its names
differ from those of `Reviews`, so that `ReviewsProofs` can extend both.

### Watchlist

One user; `entries` have an id, since the controller deletes the entry it found, not the
race. `Find`, `Insert`, `Delete` are the look-up and the write of POST and DELETE.
`screen` is one of race page, results and watchlist page. `Flipped` is where the two hooks
differ: the button negates what it shows when the answer comes, the hearts set what they
were clicked for. `excuses` is history: what happened since the screen was opened that
the code does not handle (another tab, a lost answer, a click over a request under way).

### Session

`stored` is local storage, `tabs[t].auth` what a tab's `AuthProvider` read when it was
loaded. Which requests need a login (`NeedLogin`) is `config/packages/security.yaml`'s; pages
other than login, registration and account send one of either kind at a time (`Fetch`), and
those that need one, the watchlist's, only where the tab believes to be logged in. A request keeps the token it was sent with; `mounted` says whether its component
is still there, `heard` whether its document is. `Answer401` is `apiFetch`: it removes the
stored token, whatever token the request had, and leaves for the login page; `Load` is
the document that comes then. `excuses` is history, as in `Watchlist`.

## 4. Runs

| Run | Instance | Shows |
| --- | --- | --- |
| `MCReviews` | 2 users, 3 requests (2 at a time), ratings 2, 5, 6, one retry, one death | averages are stale only with an event on its way or missed; they converge; only authors remove |
| `MCReviewsDuplicate` | 2 requests at a time | *violated*: two reviews by one user for one race |
| `MCRaceImport` | 2 jobs in turn, 2 attempts, 2 of 5 records | catalogue, index and announcements stay consistent through aborts; enrichment only adds; no near-duplicates; one edition of a race in a year |
| `MCRaceImportConcurrent` | 2 jobs at once | colliding jobs still account for every race |
| `MCGeocoder` | 2 calls sharing a city, 2 workers each | no city lost or settled twice, no send on a closed channel, refinement of `GeocodeCall`, every call returns |
| `MCRaceEvents` | 1 race, a watcher and another user, 1 import and 1 enrichment, worker and console, 2 of 4 handlers that throw, 2 tries, 1 death | digests repeat only by a repeated step, watchers are told or their email is on its way or given up, located races reach the index but for three named ways, the queue drains |
| `MCSearchCache` | 1 race in 2 versions, 2 writers, 1 reindexing, 1 search, TTL 2, 1 failure | stale pages are explained and go; the index follows the rows |
| `MCSearchScreen` | one value of each criterion, 2 areas, 2 pages, 3 actions of the user | list and map refine `LatestAnswer`; the URL is what the user asked for |
| `MCRaceScreen` | 2 races, 1 other reviewer, 1 review a page, 2 own reviews, 2 moves | the page refines `LatestAnswer`; own review true at rest; skeletons and pending buttons end |
| `MCWatchlist` | 2 races, 2 screens, 2 clicks here or in another tab | a race is watched once; hearts are true at rest unless something named happened |
| `MCWatchlistRemoval` | the same | *violated*: the removal of the watchlist page names no race |
| `MCSession` | 2 tabs, 3 users, 2 names, 3 tokens, 3 moves | a token leaves for a reason; the name on the account page is true at rest |

The *violated* runs are findings, described in `PROJECT.json` with the line of the
repository they contradict. What else goes wrong is told by the properties that hold: each
of them names the exceptions the code has, and is false without them.

- A race geocoded before its handler died or threw is not indexed with its place by the
  retry, which skips races that have coordinates (`LocatedIsIndexed`, `cutOff`); an import
  that loaded a race before it was geocoded overwrites its document without the place
  (`overtaken`); and a reindex that throws at every try stays in the failed transport.
- A worker that dies, or a mail server that fails, after an email was taken mails it twice
  (`DigestRepeatedOnlyByFailure`, `owed`); an email that throws at every try is never
  delivered, though its notification succeeded (`WatchersAreTold`).
- A race committed by an import that died before `RacesImported` is never announced
  (`EveryRaceAnnounced`, `unannounced`).
- A page cached between the enqueuing and the applying of a write shows the index without
  it for its TTL (`StalePagesAreExplained`, `Missed`).
- A second action before the first is rendered writes old search values back, and so does
  a map timer of an earlier screen (`UrlIsWanted`, `wanted`).
- Two quick clicks on the watch button send one method twice and flip twice; a check that
  comes after a toggle undoes its heart; a failed check counts as "not watched"
  (`HeartsAreTrue`, `excuses`).
- A lost answer to a POST leaves the review form up, which the server then refuses for
  ever; after a deletion in another tab the item cannot be deleted (`OwnReviewIsTrue`,
  `surprise`).
- A 401 to a request with an older token, or to a wrong password in another tab, removes
  a valid login (`TokenGoesForAReason`); a tab that shows one account saves its name to
  another after a login elsewhere (`NameIsTrue`, `excuses`).

One disagreement is in the model and no property speaks of it. `ImportRacesHandler.php:117`
says that an edition is refused "outside the ±1 day match window", but `Race.php:157-158`
compares timestamps, a stored date is midnight, and the parsed one carries the present time
of day: a record one day after the edition of its year is refused unless it is handled at
midnight, while one a day before is matched (`EditionsAt`, `Clocks`). A property that says
what the comment says fails on this guard alone, and one that excuses the clock restates it.

The exceptions of the other properties are hazards too: where a property names a hazard
and does not exclude its harm, the hazard's note in `PROJECT.json` says so.

### Bounds

Each bound is a constant. Two requests, jobs, writers, tabs or screens at a time meet in
every pairwise interleaving, and no step of the code involves three. One retry (two tries)
has a first failure and a last one, which are the two cases of the retry strategy; the
deployment's three retries add no other case. One death reaches every point at which a
process can be cut off. In `MCRaceEvents` one race and one watcher are enough to meet
the row, its document and the memory of an import in every order, and a notification that
throws before or after its email. With a second watcher the run would also see one cut off
between two emails; watchers share nothing but that run, and the proofs cover any number of
them, of races and of imports. Any two of the four handlers throw in one behaviour, so each
pair of failures is met. In `MCRaceImport` five records cover the same race from another source, the next year,
a repeated distance and another race; a year has four days, so that the window of one day
both fits in a year and crosses its end. TTL 2 lets a page be stored with part of its time
gone. In `Geocoder` nothing but the cities and workers is bounded; the proofs remove that
bound.

In `MCSearchScreen` three actions are two that overlap and one before or after them; two
areas let a timer of one map move meet the next. In `MCRaceScreen` a page of one review
makes the pagination appear with two, and two own reviews let one be deleted and written
again. In `MCSession` three tokens are the one at the start and one of a login in each tab;
the third user has yet to register.

### Fairness

- `Reviews!FairSpec`: a request that started goes on, the worker takes messages and
  finishes handlers (PHP-FPM runs its request, the worker container restarts). Failures and
  deaths are not fair: they are bounded and need not happen.
- `Geocoder!FairSpec`: a goroutine that can run does, a fetch ends (10 s timeout of the
  HTTP client), time passes. Clients need not call and contexts need not end: calls return
  without that.
- `RaceEvents!FairSpec`: the worker and a started command go on.
- `SearchCache!FairSpec`: writers and searches that started go on, MeiliSearch applies its
  tasks, time passes. New writes and searches need not come.
- `SearchScreen!FairSpec`: the browser goes on as long as it has something to draw, a timer
  to fire or a request to settle, in whatever order (one weak fairness over all of them).
  Nothing makes the user act, nor the map finish a fit.
- `RaceScreen!FairScreenSpec`: React renders, timers fire, and requests are answered or fail.
  Nothing makes the user act, and no server step is fair: a request may fail unserved.
- `Watchlist` and `Session` state safety only, without fairness.

## 5. Proofs

Proved with TLAPS for all values of the constants, from the named assumptions of the
modules (sets of records are typed, bounds are natural numbers, `Pool # {}`, `None` is not
one of the data or of the questions, nor `Null` of the races and reviews of `RaceScreen`;
`RaceEvents` has finitely many races, `RaceScreen` finitely many reviews by others).

`ReviewsProofs`:
- `TypeCorrect`: by one step per action.
- `StaleCovered`: `StaleOnlyWhilePending` is not inductive, since it does not say what the
  worker is about to write. `PendingInv` speaks of the average a race will have once the
  write in progress is done: that average is right, or an event of the race is on its way
  or was missed. `AverageOf` stays unexpanded: the result holds for any aggregate.
- `AuthorOnly`: from `VoterInv`, which says that a request about to remove a row holds a
  row of its caller, since the voter ran; rows are never changed, so a row removed is the
  row voted on.
- `OneReviewWhenSerial`: with `MaxInFlight = 1`; a request past its look-up is alone, so
  what it found is still so when it inserts. `MCReviewsDuplicate` shows that two in flight
  are enough to lose it.
- `WritesAreAtomicWhenSerial`: from the same invariant, every change of the table is one
  review added where its author had none of the race, or one removed. `RaceScreen` takes a
  write for such a step; the user's own two requests overlapping on the server are the case
  of `MCReviewsDuplicate`, not of the screen.

For the page of a race, any number of moves, posts, requests and changes elsewhere.
`OwnReviewIsTrue` speaks of a screen at rest, and says nothing of what an answer under way
will draw, so `ScreenInv` adds:
- `PageInv`: the details are asked for once at a time and for the race of the URL, and
  nothing of the reviews is drawn meanwhile. This needs the clean-up of the effect.
- `Mounts`: at most one GET is under way (`Uncancelled` forgets the others), and what it
  read, what is drawn, and each write that still has its screen are of the race mounted.
- `OneOwn`: one review of this user for a race on the server, none without a login.
- `Expected`: while nothing happened behind the screen's back and no write waits to be told
  to it (`Undisturbed`), what a GET has read is true, and without a GET what is drawn is
  (`Settled`). A write done on the server makes it vacuous until its answer comes; that
  answer either changes list and own review as the server did or sends a GET for them
  (`AfterWrite`), and a GET that has read nothing yet promises nothing (`SentSettles`).

`ScreenTypeCorrect` and `OwnReviewCorrect` are its consequences; typing needs the other
parts, since only they say that an answer finds a user and a race. `NothingSentTwice` needs
`WidgetInv`: a write whose form or item is in view is the reason why its button is disabled.
`RaceImplements` maps each step to one of `LatestAnswer` or a stutter: it is the safety part
of `RaceFollows`, and `RaceOfTheUrl` is what follows from it alone.

`RaceImportProofs`. For any number of jobs at a time, `ImportInv` says of races and editions
only their shape: their fields, days and times of day. Every helper that changes an entity
keeps that shape and the id (`StoredKeeps`, `FillKeeps`, `EnrichedShape`, `MergedShape`).
`EveryRaceAnnounced` needs `Committed` beside it: what a job is about to index, or counts as
created, has its row; without that a job could announce a race that does not exist.

For jobs in turn (`MaxRunning = 1`: the scheduler's one process imports source after source;
a command run beside it is another case), `TurnInv` relates a job's memory to the tables:
what Doctrine's identity map holds is what the tables hold but for the time of day, except
the race about to be committed, and that race is new and like no other (`LikeNone`) or says
no less than its row (`Extends`). Then the flush, which merges what is in memory with what
others may have written, writes exactly what is in memory (`MergedIsStored`), and the
document put afterwards is the row: `IndexHasEveryRace`. The merge matches editions by the
record that made them, so the proof must show that no two records make the same stamp,
through aborts and new attempts that count their records from zero again (`OldStamp`,
`StampsAge`). A commit therefore adds a race no other is like, or renews one row
(`SaveDoes`), from which `NoNearDuplicate` and `OnlyAdds` follow. Which distances an edition
lacks (`Missing`, a fold) stays opaque: only that what is known stays known is used. `OneEditionAYear` adds to `TurnInv` that a job holds no two
editions of a year either (`YearInv`): an enrichment adds an edition only to a year without
one in the race the job has in memory, which is the row, and what was stored has the days of
what was committed (`StoredYears`, `EnrichedYears`, `HeldYears`).

`RaceEventsProofs`: `LocatedIsIndexed` is not inductive. `ProcessesOK` and `WorkerOK` say
what worker and command may have in their hands: without a handler under way there is
nothing half done, and the races of a reindex are those of its message. `OldSnapshots` is the
argument of the proof: a reindex that loaded a race before it was located will overwrite its
document with the place missing, and does no harm, since the process that located it has yet
to dispatch `RacesGeocoded`, that message is waiting, or the race is one of those `cutOff`. `Settle` keeps this because a message that is sent again keeps its races, and one
that is put away has had all its tries.

The digests have an invariant of their own, `MailInv`. `Separate` says where messages are: an
import is announced by one message at most, and an email in hand is not waiting as well; two
messages with the same digest differ by their copy (`Copy`), so that enqueuing one never
swallows another. `OwedOK` is
the balance behind `DigestRepeatedOnlyByFailure`: what an import still owes a user is no less
than the emails of it that are under way, and one more while its notification has yet to
serve the user. `Mail` moves one from the second part to the first, `Deliver` pays one, and a
step that is run again is raised by exactly what it had done (`BalanceRaised`,
`BalanceMoved`). `ServedOK` says that a promise is kept by a digest delivered, under way or
given up; with `RowsFirst`, races announced have rows, so that the watchers a notification
finds when it ends are those it served, since rows are never removed and watchlists do not
change.

`SearchCacheProofs`: `CacheInv` strengthens both claims about derived data. `IndexOK` is
`IndexFollows`, but a writer that has yet to clear the index promises nothing: it may die
before it does. `HoldersOK` accounts in advance for a writer that holds an older version than
the row: the race is `behind` from the moment it was overtaken, not from that of the harm.
`PagesOK` is `StalePagesAreExplained` for pages that are still being computed too, and a
page counts as up to date only while no task stands in MeiliSearch's queue that would change
what it shows. What the queue will make of a race is the last task that touches it
(`Settled`), so that no fold has to be reasoned about: appending a task decides the race,
applying the first one changes nothing (`LastTaskDecides` and the lemmas after it). That this
is what applying the tasks one by one yields, `OutcomeAssumption` of `MCSearchCache` checks
over bounded queues.

`SearchScreenProofs`: `RoundTrip` shows of every search state that parsing what was
serialised yields it back, but for the area, which only a map has in its URL; so every URL
the page writes is legible (`LegibleOK`). `ListOK` and `MapOK` say that a timer and a request
that was not aborted ask what the drawn screen says, which is what `LatestAnswer` needs:
`ListKeepsPromise` and `MapKeepsPromise` map every step to `Ask`, `Show`, `Fail` or a
stutter. `SyncsOK` separates the map timer of the present screen, which is always the last
one and will write the area of the map, from those of earlier screens. With it `WishOK`
follows: an action keeps the URL wanted, and the area is in the URL or has a timer.

`GeocoderProofs`: `IInv` is `TypeOK`, `EachCityOnce`, `NoSendOnClosed`, and two parts of
its own. `Stopping` ties the channels to the context: while the context is not done, jobs is
closed only after the last city, nothing is dropped, and workers are done only after jobs
was closed; and a call has returned only if results is closed. Without it
`CompleteUnlessExpired` does not follow. `Cached` says that a worker
that is about to send holds a city of the cache; without it `LateIsCached` is not
inductive. From `IInv`:
`NothingLost`, `ClosedIsQuiet`, `AnswersAreComplete`, `LateResultsStay`, and
`ServiceKeepsPromise`, the refinement: a step that settles a city (collect, fail, drop, or
the stop of the producer) is a `Settle` of `GeocodeCall`, `Return` is its `Answer`, and
every other step leaves the outcome as it is. The delicate case is a producer that
notices the done context late: a city that counts as lost because results was closed must
not be handed out after all, which `NoSendOnClosed` excludes, since no worker is left.

`WatchlistProofs`: `TypeOK` is not inductive, since it lets a write succeed on a screen that
has not loaded (and `Flipped` of null is nothing). `WatchlistInv` adds what a request may
still do (`Sound`): reads never look for an entry, a write names one race or, from the
watchlist page, none and is then refused, and a write of the present screen meets one that
has loaded. `NoRaceTwice` follows because the insertion looks again; the look-up of the
handler alone would not do. `DrawnAsWatched` needs a second invariant, `HeartsInv`, of the
time during which nothing excuses the screen: an answer to a read under way is what the rows
say of its races (`ReadsTrue`); all writes of a race under way want the same (`WritesTrue`);
and the screen draws each race as its row is, except one whose write is done and not yet
answered (`DrawnTrue`, `ButtonTrue`). `excuses` names what breaks these parts: another tab,
an overlap, a lost answer.

`SessionProofs`: neither `TypeOK` nor `TokenGoesForAReason` is inductive, since they say
nothing of what a request under way will bring. `SessionInv` does: an answer to a login is a
token and one to a profile is a profile; a request was refused with a 401 because it is a
login, had no token, or one that has expired, and since tokens only expire, that stays so
until the answer comes (`SoundStays`); a save that still has its component meets a loaded
profile, and a login of that kind the login page. `TokenLeavesForAReason` follows for the one
step in question, `Answer401`: every other step keeps the token, stores a new one, or is a
log-out. `DrawnNameIsTrue` needs `NameInv`, per tab and only while nothing excuses it: the
page asks once (`ReadsTrue`), has at most one save under way, sent with a token of the
account it draws (`SavesTrue`); the token stored, if any, is of that account too, and the
name it draws is the server's, or that of a save that happened and whose answer is on its way
(`ProfileTrue`). A login elsewhere breaks the first part, a save elsewhere or a lost answer
the second.

Every safety property of a passing run is proved. Only model-checked: the liveness properties
(`RatingsConverge`, `CallsReturn`, `QueueDrains`, `PagesConverge`, `ReviewsSettle`) and the
liveness in `ListFollows`, `MapFollows` and `RaceFollows`, since fairness and ENABLED are out
of the prover's reach; and what folds over data compute (`Missing`, and that `Outcome` of
`SearchCache` is what applying its tasks one by one yields), which needs induction over data.

## 6. Not modelled, and assumptions

- One async worker and one scheduler container, as in the compose files. With two workers
  an older average could overwrite a newer one.
- In `RaceEvents`, watchlists that change while a digest is being prepared, and subscribers'
  messages other than the three kinds; an email is handed to the mail server in one step.
- Redis's redelivery of messages that take longer than its timeout, and Symfony's lock
  against cache stampedes (it only removes interleavings of `Miss`).
- The filters and the order of search results on the server; a page is the versions it
  shows, an answer is the question it answers.
- Batches of 25 cities in `GeocoderServiceClient`: their joint outcome is any partial answer.
- The shutdown of the Go service: a call that is cut off is a partial answer to PHP.
- In `RaceImport`, hydration of a candidate without voivodeship and the order in which
  Doctrine returns rows are left open. Two concurrent jobs can add two editions of one
  year; the properties of `MCRaceImport` are checked, and three of them proved, for jobs in turn.
- In the browser: what is typed into the forms of login and registration is chosen when
  they are sent; "Forgot password?" leads nowhere; the theme, the countdowns and the split
  into past and upcoming editions of the race page (`RacePage.tsx:202` counts today's
  edition as past) are functions of one answer and the clock; about, legal and home page,
  footer and `components/ui` have no state that others depend on.
- A page link of the search that is clicked while its page is shown sets `loading` without
  a new request (`Search.tsx:61`): the skeleton stays until the next action.
  `LatestAnswer` speaks of answers and does not see it.
- The deletion of the last review on a page leaves an empty page whose pagination is
  hidden (`RaceReviews.tsx:150`); `RaceScreen` has it, and no property calls it wrong.
- Scrapers, text normalizers, sitemap, read-only endpoints, layout: pure input parsing or
  presentation, without interleaving or failure of their own. `PROJECT.json` lists every
  component with its status.
