# A TLA+ model of property-radar

property-radar is a self-hosted real-estate radar: a crawler fills a Postgres
corpus of listings, an application service reads it and keeps what the user
thinks of them, and MCP, REST and web front ends call that service.
Several processes share the database and the photo store, they crash and are
restarted, and they coordinate through single SQL statements. That coordination
is what these modules model, check with TLC and prove with TLAPS.

## Inventory

| Component | State | Operations | What is hard, what makes it correct |
| --- | --- | --- | --- |
| **Crawl queue** (`internal/store/targets.go`, `internal/ingest/targets.go`, `internal/listings`) | `crawl_targets`: kind, scope, enabled, status, started_at, last_run_at | request, seed, pause, resume, promote, delete, reset; recover, load due, claim, settle, prune | Drains race for claims; a claim outlives its window; outcomes land late; creates race the dedupe. No target has two crawlers, requests settle, settled requests stay settled, scopes do not duplicate. |
| **Watch worker** (`cmd/ingest`, `internal/store/notify.go`) | a loop: recover, drain, prune, sweep, wait | poll, LISTEN/NOTIFY, deadlines, shutdown | A lost notification costs at most a poll; bookkeeping survives the deadline. |
| **Photo cache** (`internal/ingest/service.go`, `thumbs.go`, `internal/store/ingest.go`) | `listing_photos.cached_path`, `refreshed_at`; bytes in the store | cache, record, re-check; replace, delist, sweep, delete, forget | Rows and bytes have no common transaction. Rows point at bytes that exist; shared bytes survive; nothing is broken for good. |
| **Byte stores** (`internal/photostore`) | objects by key | Stat, Get, Put, Delete | Put is a rename or an object write, Delete is idempotent. |
| **Crawl run** (`internal/ingest/service.go`, `internal/store/runs.go`) | `ingest_runs`; the run's own counters | start, search, enrich, apply, read the baseline, finish, mark missing | Absences advance only after a complete, unsuspicious run. An outage must not count as absence, a lasting drop must not lock the scope out. |
| **Listing lifecycle** (`internal/store/ingest.go`) | listing status, price, material_changed_at; source missing_runs, last_run_id | apply, mark missing | Overlapping runs of overlapping scopes; who owns an absence; a blank status keeps the last one. |
| **Taste memory** (`internal/store/feedback.go`, `property.go`, `lists.go`, `reset.go`) | verdicts, rubric versions, profile, shown marks, lists | record, append, update, mark shown, candidates, list edits, reset | Commit order differs from id and stamp order; read, merge and write span statements; a reset crosses everything. |
| **Search walk, provider client** (`internal/streeteasy`) | price bands, page; the rate gate; the request and its attempts | search, split, page, enrich, wait, retry, cancel | The walk covers each price once, on a market that moves, and ends. |
| **Proxy pool** (`internal/streeteasy/webshare.go`) | proxies, benches, last uses | pick, bench, replace, refresh | A banned address is not used while it is benched, no address is hurried. |
| **Transports** (`internal/mcp`, `internal/restapi`, `cmd/console`) | the request being served; the console's cookie and login limiter | tools, routes, pages, login, logout | A refused request writes nothing, a repeated one does no harm, the two APIs agree, a session that went stale ends. |
| **The rest** (configuration, bearer check, logging, URL helpers, `lst`) | none, but for the bearer token | parse, compare | The token may be rotated under live sessions. |

The components meet in the database: the front ends call `internal/listings`,
which writes the queue and the taste memory; a drain takes targets off the
queue, runs them against the provider (search walk, proxies), applies listings,
and hands photos to workers that fill the cache; runs that end well delist what
they no longer see, which evicts photos; a change of a listing brings it back to
the agents. NOTIFY `crawl_due` wakes the workers.

`PROJECT.json` lists every hazard at its line, with the properties that would
catch it.

## Modules

| Module | Contents |
| --- | --- |
| `CrawlQueue` | the queue, its clients and its drains; its properties |
| `CrawlLedger` | what the queue promises, without locks, snapshots, clocks or processes |
| `MCCrawlQueue` | the symmetry for TLC; run by the `Queue*.cfg` files |
| `CrawlQueueProofs` | type correctness and the safety theorems |
| `CrawlQueueRefinement` | that the queue implements the ledger |
| `PhotoCache`, `MCPhotoCache`, `PhotoCacheProofs` | the thumbnail cache across crawler processes; run by the `Photo*.cfg` files; its proofs |
| `ListingLifecycle`, `MCListingLifecycle`, `ListingLifecycleProofs` | crawl runs and the listings they apply and age; run by the `Lifecycle*.cfg` files; its proofs |
| `VolumeBaseline` | the baseline of a scope's volume as operators on its history |
| `CrawlRuns`, `MCCrawlRuns`, `CrawlRunsProofs` | `ListingLifecycle` with run rows and the baseline in place of a free verdict; its proofs |
| `TasteMemory`, `MCTasteMemory`, `TasteMemoryProofs` | verdicts, rubric, profile, shown marks, lists and reset, statement by statement; its proofs |
| `Service` | `listings.Service` as its callers see it: outcome and sentinel of each call |
| `McpTools`, `RestApi`, `Console` | the calls each tool and route makes, the requests each page makes |
| `Gateway`, `MCGateway`, `GatewayProofs` | requests, pages, faults, retries, login and token rotation over those four; their proofs |
| `SearchWalk`, `ProxyPool` | the walk over price bands; the pool of proxies |
| `Provider`, `MCProvider`, `ProviderProofs` | a crawl at the provider: both, with pacing, attempts, time-outs and cancellation; proofs about the walk and the pool |

### CrawlQueue and CrawlLedger

`row[i]` is the row with id `i`: its kind, scope and status. `enabled`,
`recent` and `stale` are the sets of ids with that flag, with a `last_run_at`
younger than `-standing-every`, and with a `started_at` past the stale window;
clocks appear only as the steps `SpacingElapses` and `ClaimAges` that move ids
in and out of those sets. `drain[d]` is the control state of one process that
executes `recoverStaleTargets`, `RunTargets` and `PruneCrawlTargets`: its list of
due targets, the target it is at, whether its context is alive, and the outcome
it is about to record. `req[c]` is one `RequestCrawl` call, or a boot-time seed,
between its read of the queue and its write.

Each SQL statement and each transaction is a step, so the model interleaves
what the program interleaves: the list a drain works from is old when it is
used, and a decision of `RequestCrawl` is old when it writes. The transaction
of `CreateCrawlTarget` is two steps, because the advisory lock it holds does not
keep drains from changing rows in between. A store call may fail having applied its effect or
not; a context may die at any point of a drain, and bookkeeping still lands as
`finishContext` arranges; a process may be killed anywhere.

Areas, type, price and beds are one `scope` value, already normalised.
`last_error`, notes and the deep-pass columns are left out.

`CrawlLedger` is the abstract job ledger: a job is started only when nobody is crawling
it, its outcome is entered by the worker who crawled it, and only a job that
lost its worker is settled by another. `CrawlQueue!Ledger` instantiates it: the drains are
the workers, the rows the jobs, and a row's crawlers are the drains between its
claim and its outcome. `KeepsLedger` says that every behaviour of the queue is one of the ledger.

### PhotoCache

`photo` is the set of rows, `cached` those with a `cached_path`, `fresh` those
refreshed within the TTL, `bytes` the keys in the store. A key is a hash of the
source URL, so a row's key is its URL here, and two listings with one URL share
bytes. `proc[p]` is a process's sequential part (apply a listing, delete what that
displaced, queue its photos; when the photo workers are done, delist or sweep);
`worker[p]` is its photo worker, which runs beside it. `deleteKeys` takes one
step for each key and one for the forgetting statement; `Cache`, `SetPhotoCache` and
`stillCached` are a step for each call on the store or the database.
`ReplacePhotos` is the part of `ApplySourceProperty` that touches photos. Which
listings a run delists is left open. The rest of the listing is not in this module.

### ListingLifecycle, VolumeBaseline and CrawlRuns

`status[l]`, `missing[l]` and `owner[l]` are the listing's status and its source
row's `missing_runs` and `last_run_id`; `enriched` is the set with an `enriched_at`.
`crawler[c]` is one `Service.Run`: its phase, what the search saw, the rows still
to rank, those due for a detail page and those that are current, and the row in
hand with what is about to be applied of it. `market[l]` is what the provider's
detail page says, and moves on its own. A due row is applied with what its page says
(`EnrichDetail`), with a blank status when the page was not read (`EnrichFails`), or as the
search row came when there is no page to read: details are off, or the row has no path to one
(`EnrichNothing`). Two history variables: `trackers[l]`, the standing runs
that ever applied the listing (or the one-offs, when none did), and `standing[l]`, the one that did last.

The scope test of `MarkMissingSources` compares scope hashes, and areas,
listing type, price cap and beds. Here a scope is the set of market segments it can
show, so that "covers" is set inclusion and overlapping scopes share segments.
A run may miss any listing of its scope.

`ApplySourceProperty` and `MarkMissingSources` are one transaction or statement and
one step each, each ranking is one read, and the page is fetched before the apply
begins. The search writes nothing and is one step. In `ListingLifecycle` the verdict of the volume
baseline is left open: a clean run may be found suspect or not. Status "rented" behaves as
"sold" does and is left out, as are prices and the fields of a listing.

`CrawlRuns` decides that verdict. `runs[s]` holds the rows of `ingest_runs` of a scope in
the order in which they were started, `tally[c]` what a run saw and what the
baseline said; `BaselineVolume` (a read) and `RecordRun` (a write) are two steps.
`VolumeBaseline` has the algorithm: the newest stretch of suspect runs that are
stable against each other, the runs that count, their median. It works on sets of
positions in the history and counts where the code loops and sorts: the newest
`BaselineWindow` are those with no more counted before them (`Ordinal`), a median the least
volume that half of the runs do not exceed. Every other
step is the one of `ListingLifecycle`. `level[s]`, what a healthy search sees,
moves on its own; a run may see less. The history variable is `steady`, the
scopes in which nothing but short outages has happened since a window of healthy
runs.

### TasteMemory

Each agent has at most one call open; a call that takes several statements
(a rubric, a profile update, an addition by list name, a removal, a reset) is a record
with a program counter, and every statement is a step at READ COMMITTED. An
identity value is taken when the insert starts and appears when it commits. A
crawl stamps a material change and commits it later (`flight`). `Doomed` are the
rows an open reset has deleted and not committed: writers of those rows wait, and
the reset waits for writers that got there first. `lock` is the profile's
advisory lock. What an agent has read is in `view`; `lastSet`, `revived`, `landed`
and the fields of `shown` and `rubrics` beyond the columns are history. So are the
rows an open reset found, which a removal of one of them by hand shortens.

A statement is one step, with one exception. Deleting a list locks its row (`LockList`) before its cascade
reaches the members (`DropList`), and an open reset has members locked before it gets to the lists
(`store/reset.go:34`, `:37`), so each can wait for what the other holds. `Deadlocked` is that state and `DeadlockBroken`
Postgres's way out of it, which rolls one of the two back. Locks that other statements take row by row
are not told apart.

`menu` is chosen at the start and says which operations take part, so that one run
examines each group of operations that share tables. A store error
is taken to mean that the row was not written. Search filters, the text of notes and of the
rubric, and list names beyond their slug are left out.

### Service, McpTools, RestApi, Console and Gateway

`Service` gives for each call of `listings.Service` its outcome: the tables
after it, the sentinel error, what it shows. An argument keeps what decides the
outcome (a number that is absent, zero, usable or beyond its column; a text that fits,
is too long, or fits and cannot be stored, as one with a NUL byte; enum values that are spelled as the schema lists them, in
another case or with spaces, left blank, or wrong). `McpTools` and `RestApi` map a tool or a route to a plan: the calls it
makes in order, with the errors each one spares. They also hold the tables of
annotations (`guard.go`) and of statuses (`MapServiceError`). `Console` maps a page to
the REST requests it makes and to what fails it. `Gateway` serves one request
at a time, one service call a step; any call may fail before or after it took
effect, answers may be lost, an agent may send the same request again, the token may be rotated, the login
page's limiter and its probes run beside that, and a crawler may take up targets in between.

The statements inside the calls interleave in `TasteMemory` and `CrawlQueue`, not here.
The `PUBLIC_IMG_TOKEN` gate of the image routes, the wording and layout of answers,
and `lst` (a client of the REST API that only reads) are left out.

### SearchWalk, ProxyPool and Provider

`walk` is the local state of `Client.Search`: bands still to do, page, what was seen.
The provider's answer is external. As it should be (`Truthful`), it is the rows of a band in a fixed order, cut to pages, no
more than `ResultCap` of them, with the total. A page is the set of listings whose `Place` in that
order falls on it, and the pivot of a band the least price that more than half of a page do not exceed. The market moves between answers.
In the setting "paging" a page may show any of the listings and claim any more of them, in "counting" the total is arbitrary too:
the walk takes whatever comes. `Unpriced` listings have a price that cannot be read off the row, which keeps them out of the
pivot; `Mistyped` ones another field of the wrong type, which makes the row unusable though it is seen;
`Anonymous` ones no id. `Deadline` is the end of the time a drain is given.

`proxies`, `benched`, `used` and `busy` are the pool's fields; times are kept as what is left
of them. `req` is the request under way: which attempt, whether it is waiting for
its pace, choosing a proxy, waiting out that proxy's gap, sent or backing off, and what is
left of its time-out. `Tick` lets a unit of time pass unless something is due, so timers run out exactly; an answer
may take any time ("slow") or none. `setting` says what takes part: proxies for
no request, for the listing pages only or for all; bans, refreshes by the watch worker, faults,
cancellation, market moves. Details are fetched in a fixed order. Decoding keeps no
state and is left out.

## Runs

| Run | Instance | Shows |
| --- | --- | --- |
| `QueueZombies` | 1 scope, 2 drains, 1 client, 2 ids, 2 faults, all calls, claims may turn stale under live drains | `PendingOnceUnique`, `OnceExclusive` |
| `QueueExclusive` | as above with 1 fault, promotion and removal, drains fit the window, fair | `ExclusiveCrawl`, `CrawlerHoldsClaim`, `OrphansNeedLoss`, `SettledIsFinal`, `RequestSettles`, `StandingCrawled`, `KeepsLedger` |
| `QueueAdmission` | 4 scopes, 1 drain, 2 clients, 4 ids, cap 1 | `QueueBounded` |
| `QueueStanding` | 2 scopes, 1 drain, 2 clients, 2 ids, 2 faults, no promotion | `StandingScopeUnique`, `StandingSpaced` |
| `PhotoEviction` | 2 processes, 2 listings sharing 1 photo, no faults | `DanglingIsTransient`, `SharedBytesKept` |
| `PhotoRepair` | 1 process, 2 listings sharing 1 photo, 2 faults, fair | `TypeOK`, `DanglingHeals` |
| `LifecycleOverlap` | 1 listing, 2 crawlers, standing scopes {a}, {a,b} and {b,c}, one-off {a,d}, {a,b} recurring, 2 absences delist | `OnlyTrackersDelist`, `GoneIsDelisted` |
| `CrawlRuns` | 1 listing, 1 crawler, 1 scope; window 3, scan 5, 2 runs to accept, 2 for a baseline; a world in which pages change, one with volumes 1, 2, 10 and levels 2, 10 | `OutageJudgesNothing`, `LevelIsAccepted`, `UnreadRowKeepsDetailStatus` |
| `LifecycleStaleRank` | 1 listing, 2 crawlers | a finding below: `UnreadRowKeepsDetailStatus` is violated |
| `TasteMemory` | 2 agents, 2 crawlers, 1 listing, 2 fields, 3 list names; clock 5, 2 verdict ids, 3 writes, 3 lists, 1 reset; five menus | `OnlyInFlightBurned`, `FreshRubricSawAll`, `ProfileKeepsFields`, `BatchRecordedOnce`, `AddedUnderItsName`, `ResetErases`, `EveryCallEnds` |
| `Gateway` | 1 listing and 1 id that is none, 1 scope, 2 lists, 2 targets, cap 1; 2 faults, 1 rotation, 2 probes at once, 2 login failures; twelve menus | `RefusalWritesNothing`, `OnlyFaultsAre500`, `SafeRetry`, `TransportsAgree`, `GuessesBounded`, `EffectsAsAnnotated`, `SessionEnds` |
| `Provider` | 4 listings at 3 prices, one of them without a readable price, one mistyped; 1 row to a page, 2 to a query, 3 pages, 1 market move; 2 proxies, gap 2, bench 3, refresh 4, time-out 3, 2 attempts, 1 fault; five settings | `CompleteCovers`, `AbortHasCause`, `BansRespected`, `GapKept`, `SearchEnds` |

Why the bounds suffice:

* Every race on the queue is between two parties over one
  row, or over two rows of one scope, so two drains, two ids and one or two
  clients reach each of them; `QueueAdmission` needs the cap, two clients past it
  and one interrupted one-off, which is four ids. Two faults allow a crash and a failure
  in its recovery.
* A photo's races are between two processes over one key; two listings are needed for sharing.
* Absence is judged listing by listing, so `LifecycleOverlap` follows one listing
  through scopes that nest, one that overlaps without being covered, and a one-off that straddles them.
* A baseline needs a level, an outage of it, a volume that is stable against neither, and a
  history longer than what it takes to forget the old level: `BaselineScan` is past
  `BaselineAcceptRuns` times `MinBaselineRuns`, as it is in the code (20, 3 and 3), so that runs that are well keep a baseline
  through outages that come back. The constants of the code make histories too many to enumerate.
* The taste tables are crossed by two sessions, a crawl that stamps first and commits last, and a
  reset; two verdict ids let a later id commit first.
* Requests are served one at a time, so two faults are a lost answer and a failure of the repetition;
  a limit of two failures with two probes in flight is the smallest at which
  counting late would overshoot.
* Four listings at three prices, two to a query, give bands that split, that
  cannot split, and that are read in two pages; every market of that size is
  searched, with a truthful provider. A provider that pages or counts as it likes is met with two markets, which
  reach both guards on pages, the empty page and the last one. When the counts ignore the band, bands could be split
  without end: at `MaxBands` (3) of them, one more split leaves the walk as it is, which asks the same again.
  Two proxies are one to ban and one to go on with.

`MaxTargets` bounds the ids handed out, `MaxFaults` the crashes, dead contexts
and failed calls, the other `Max...` constants likewise clocks, ids and writes; all
appear in guards only. `TasteMemory` and `Gateway` do not check for deadlock:
sessions whose ids are used up have nothing left to do. That no call waits for
ever, but for the deadlock above, is `EveryCallEnds`.

### Fairness

`CrawlQueue!FairSpec`: a drain keeps going (it is a loop with a poll fallback,
restarted by its supervisor) and clocks run. Clients, managers and faults owe
nothing. `PhotoCache!FairSpec`: evictions and photo workers keep going, a
drain ends by its deadline so that `PhotosDone` recurs, and the watch loop's sweep,
oldest rows first and repeated until a short page, gets to every expired row.
`DanglingHeals` therefore needs a watch worker with a positive photo TTL.
`ListingLifecycle!FairSpec` assumes only that each recurring scope keeps having clean
runs that judge absence: complete, not empty, not suspect, recorded. The watch
loop crawls standing targets without end; nothing obliges other runs to happen
or to go well. `LevelIsAccepted` is why lasting suspicion does not get in the way.
`TasteMemory!FairSpec`: a call that has begun goes on; Postgres grants a free lock.
`Gateway!FairSpec`: servers answer, pages are finished, and the user keeps opening the login
page, which `SessionEnds` needs because a cookie is only found stale by a page that is opened.
`Provider!FairSpec`: the crawl's goroutine runs, time passes, and a search that goes on for too long
meets its deadline (`cmd/ingest/main.go:128`, `:276`). `SearchEnds` needs
no answer to arrive, for every wait has an end; and it needs the deadline only in the setting in which the provider's
counts ignore the band asked for: there the split of a band without a lower end never gives up
(`streeteasy/client.go:243-248`).

### Findings

* **LifecycleStaleRank.** A row ranked current keeps the search row's "active",
  and the ranks of a scope are read before its first apply. If another run
  reads "in contract" off the page in between, the late apply overturns it.
  `CrawlRuns` shows that one run at a time keeps what pages reported, where there is a page to fetch.

### Observations

What the properties had to say more carefully than one would expect:

* The stale window is the recovering process's own deadline. A
  drain with a longer `-timeout` (or in bookkeeping past it) is alive when its
  claim is recovered, and a standing scope is then crawled twice at once.
  `DrainsFitStaleWindow` is the assumption under which this cannot happen, and
  the theorems that need it say so. One-offs are exclusive without it.
* Promotion does not look for a standing row of the same scope, which creation
  does; `StandingScopeUnique` is about queues without promotions.
* A photo that was fetched, put, evicted by another process and only then recorded leaves a
  row pointing at missing bytes: only reused keys are re-checked. `FetchesUndisturbed`
  excludes it; `DanglingHeals` shows that the TTL mends it anyway.
* The spacing of standing runs is checked when the list of due targets is read
  and not at the claim, so `StandingSpaced` holds for one drain and two may crawl
  a scope back to back.
* A listing that was seen but could not be applied keeps its `missing_runs`, so
  the absences that delist need not be consecutive. A one-off ages the listings that
  runs of its own scope own.
* A run whose baseline could not be read is recorded as not suspect and judges
  nothing, but it counts in later baselines, and ends a stretch of suspect runs. A short one
  ends the steadiness that `OutageJudgesNothing` speaks of.
* `BaselineAcceptRuns` suspect runs that agree replace what is older than they are, not what is newer, and runs
  that were recorded without a baseline split them. So a new level is certain to be accepted
  only when it is most of a window: after `(BaselineWindow \div 2 + 1) * BaselineAcceptRuns` runs that saw
  it, 12 with the numbers of the code. That is the bound of `LevelIsAccepted`, and with one run
  less TLC finds a history that is still suspicious.
* Two runs of one scope at a time can break `OutageJudgesNothing`: a verdict that is old when the run is
  recorded lets an outage in as clean. That is why its theorem excludes them. The queue keeps targets to one crawler
  (`ExclusiveCrawl`), a run from the command line beside it is not kept from anything.
* `MarkShown` caps the mark at `as_of`, so that a change committed after the read resurfaces.
  A change that was stamped before the read and committed after it does not; `OnlyInFlightBurned`
  says that this is the only case.
* `set_profile` is annotated as additive and clears fields that are sent as null; `EffectsAsAnnotated` looks
  at the other tables.
* Where there is no page to fetch (details are off, `streeteasy/client.go:256-258`, or the search row has no
  path, `:267-269`), `EnrichDetail` returns the search row and no error, the run takes that as enriched
  (`ingest/service.go:331-335`), and the row's "active" is not cleared. One run is then enough to set a
  listing in contract, or sold, back to active, which the comment at `ingest/service.go:392-393` excludes.
  The model takes that step; `UnreadRowKeepsDetailStatus` is about the rows that have a page.
* A text that Postgres cannot store is the client's mistake and is answered as a fault of the server,
  by every route and tool that binds one: no check looks for it and no sentinel names it (`restapi/server.go:679-681`,
  `mcp/guard.go:126-130`). `OnlyFaultsAre500` makes that exception.
  In a later note of a batch it stops the batch in its middle, with the verdicts before it recorded:
  "so a bad batch records nothing" (`listings/service.go:249`) holds of the notes that are too long.
* `set_profile` refuses enum values that are not spelled as its schema lists them; `PATCH /v1/profile` takes them in any
  case, with spaces, and a blank listing type as the default, because its nullable fields have a schema without the enum
  (`restapi/server.go:514-524`, `domain/parse.go:8-36`). `TransportsAgree` says that this is
  the one difference, and that the route then saves what the tool saves of the exact spelling.
* A list deletion and a reset that deadlock end by Postgres's doing only: one of them fails, and nothing in the code
  retries it. Nothing in the repository speaks of that case.
* A listing is aged by the scopes that cover the standing scope which last took it. Where that is
  an overlapping scope that was paused since, nothing ages it, although the scope it was first found in is
  crawled on; `Recurs` in `GoneIsDelisted` excludes that.
* A `request_crawl` repeated because its answer was lost may be told that the queue is full, by the one-off
  it queued itself. It leaves the same tables.
* A request that is sent on through another proxy after a 403 waits for that proxy's gap and
  not for `-delay`. `GapKept` is per address.
* The cap of a query is compared on the first page of a band. A band that outgrows it
  while it is paged ends without the rows past it, which is one of the two listings that
  `CompleteCovers` allows for each move of the market.
* Every listing of the model has a price. Whether a listing whose price is null falls in any half of a
  split band is up to the provider (`streeteasy/wire.go:285-305` reads it as absent).

## Proofs

`CrawlQueueProofs` proves `TypeCorrect`. `TypeOK` alone is not inductive: a drain
settles the row its `cur` names, so the invariant `Shape` adds that ids not yet handed
out are empty and unnamed, that stale rows are running, that a drain crawls
exactly when it names a row, and that a client past its decision names a scope.

The other theorems start from `Shape`. Most of them rest on `RowStep`
(everything any step can do to one row) and `CrawlersStep` (a drain starts
crawling a row only by claiming it):

* `OnceIsExclusive`: a pending one-off has no crawler, any other at most one
  (`OnceInv`). Recovery sends a stale one-off to failed and never back to pending, so a
  live crawler's one-off cannot be claimed again.
* `EveryClaimIsExclusive`, `ClaimsAreHeld`, `OutcomesAreFinal`: assuming
  `DrainsFitStaleWindow`, a crawled row is running, not stale, and has one
  crawler (`FitInv`).
* `OrphansAreLosses`: without losses, every running row is crawled.
* `PendingOnceIsUnique`: only an insert and an interruption make a one-off
  pending, and the index guards both.
* `StandingScopeIsUnique`: assuming no promotions; the invariant carries the
  lock's exclusivity and the matching client's finding no row.
* `QueueStaysBounded`: for finite sets of clients and drains. `BoundInv` counts who may still
  add a pending one-off: those pending, plus the clients past the admission check, plus the
  drains holding a one-off, stay below the bound of `QueueBounded`. An admission adds one when fewer
  than the cap are pending; any other step moves one between the three counts, or drops it.
* `StandingIsSpaced`: assuming one drain and no promotions. `SpacedInv` says that what is left of
  the drain's snapshot is still news: one entry a target, none for the target being
  crawled, and those of standing scopes not run since.

`CrawlQueueRefinement` proves `QueueKeepsLedger`: assuming `DrainsFitStaleWindow`,
`Spec => Ledger!Spec`. The mapping keeps the rows and forgets everything about processes but
which drain is between the claim of a row and its outcome. `HeldKept`, `HeldJoined` and
`HeldLeft` say how that set changes: not at all, by a claim, by a drain that settles or dies. Most
steps then change neither the rows nor the set and are stutters. `FitInv` is needed where
a drain reports (the row is the one it claimed), where it claims (nobody else is crawling), and
where a stale claim is recovered (its crawler is gone).

`PhotoCacheProofs` proves, from `Shape` (a photo worker that is not idle has exactly
one photo in hand):

* `TypeCorrect`, which says in particular that a thumbnail lands only on a row that
  still shows its url.
* `DanglingTransient`, assuming `FetchesUndisturbed`. The invariant `Unhurt` holds until the first fault: what a worker
  fetches is in nobody's hands to delete, so bytes it has put are there when it
  writes the row; a row pointed at reused bytes is looked at again, and a deleted
  key's rows are forgotten. `EvictUnhurt` and `WorkerUnhurt` do most steps.
* `SharedBytesSurvive`, with any faults: nothing but the start of an eviction lists keys to
  delete (`OnlyEvictionsList`), and each of the three lists only keys that no row
  shows after the statement that freed them (`EvictSpares`).

`ListingLifecycleProofs` proves:

* `TypeCorrect`. That `missing` stays within its bound needs `Shape`: a listing that
  can still be counted is short of the last absence (a delisted one is not
  counted, and being seen resets the count), and a run that judges was clean.
* `TrackersDelist`. The invariant `Owned` relates the row to the history: the owner of
  an absence is a tracker of the listing. It is kept because a one-off never takes
  a row from another run (`OwnerAfter`), and it makes what `Ages` selects by owner a
  statement about who ever saw the listing.
* `SearchRowsDefer`, assuming one crawler, which is where `LifecycleStaleRank` says the
  line is, of the rows that have a page (`UnreadRowKeepsDetailStatus`), which is the observation above about `EnrichDetail`. `RankHolds`: a run has a listing in one place only, so none that it still takes for
  current has got a page's status since it was ranked.

`CrawlRunsProofs` proves `RunsAreRuns`: every step of `CrawlRuns` is one of `ListingLifecycle` or changes
none of its variables, so that the theorems above hold with the baseline in the run
(`GuardedSearchRowsDefer`, `GuardedTrackersDelist`). The two about the baseline assume that no two runs of one scope
overlap (`OneRunPerScope`, in every state), and need no bound on histories, scopes or volumes:

* `GuardInv` says what a scope keeps while that is so: only the run under way has an unfinished row, in front; all
  others count (`Kept`); and a verdict is the one that the run's own volume has against the
  rows behind it (`Told`). `RecentIsLog` shows that these rows are exactly what `BaselineVolume` reads.
* `LevelsAreAccepted`: `SameVolumeAccepted` looks at any `BaselineAcceptRuns` positions of the runs that saw the
  volume. Either one of them is clean or they are a stretch, so each block holds a run that counts
  (`OnePerBlock`), they are more than half of the baseline, and what more than half saw is the median (`MajorityIsMedian`).
* `OutagesJudgeNothing`: in a steady scope the newest rows are `Calm`, that is healthy or outages, no
  `BaselineAcceptRuns` outages in a row, back to a window of healthy ones or to the end of the scan. No stretch starts in such
  rows (`CalmCounted`), so the baseline is healthy runs and enough of them (`CalmBaseline`), and suspects exactly the outages
  (`CalmJudges`); so the next row keeps the rows calm (`CalmKept`). It assumes `BaselineFits`, which the code's numbers
  meet (3 runs in a window of 7, 3 times 3 in a scan of 20).

`TasteMemoryProofs` starts from frames: each of seven groups of steps touches the tables and the
calls of its own group (`CallsOf`), and at most shortens the history of another session's
open reset (`ResetStands`). `TypeCorrect` needs, beside `TypeOK`, that verdict ids that are there or
may still appear lie below the sequence (`Typed`). On that rest:

* `FreshRubricAccounts` (`RubricInv`): what an agent has read, what it is about to insert and what
  is inserted all account for the verdicts up to the id they name, each seen or
  already taken when it was read. A verdict that commits later has a higher id, or was among those taken.
* `ProfileUpdatesKept` (`ProfileInv`): an update holds the lock from its read to its commit, so what it is about to write is
  what was last saved, but for its own field; a reset, which takes no lock, owns the row it has deleted.
* `BatchSentAgain` (`BatchInv`): how often an item may have landed, and how often one that is still to be sent.
* `ItemsUnderTheirName` (`ListInv`): ids of lists are not handed out twice, so the id an
  adder looked up is that of a list of its name or of none.
* `ResetLeavesNothing` (`EraseInv`): table by table, what was there before the reset is there and doomed once
  its statement has run, was replaced, or is gone and cannot come back.
* `OnlyInFlightHidden` (`ShownInv`): an agent's view, and a mark made from it, covers every
  change up to the instant of the question: committed and read, or in flight and noted.

`ProviderProofs` proves, for any markets, proxies, lists and timings:

* `GapsAreKept` (`GapInv`): what `lastUsed` reserves reaches over what is left of the last request's gap, and
  whoever waits for a host will have left it alone for `MinGap`.
* `BansAreRespected` (`BanInv`): the pool remembers a running ban, or the host is off a list too
  young for the host to be back before the ban is over. `PoolAssumption` asks for that: a bench is
  shorter than the time between two refreshes.
* `CompleteIsCovered`, of a provider that is `Truthful`: the bands still to walk partition what of the scope has not been walked (`Split` loses no
  price). A listing that has stayed and not been shown lies ahead of the walk, or was passed over by a move: the invariant counts
  those, at most two a move, the listing that moved and the one it pushed or pulled across the place
  where the walk stands, or across the cap. That a move shifts the others' `Place` by at most one is
  what bounds it.
* `AbortsHaveCause`, of such a provider, assuming `PagesSuffice` (the pages read of a band hold all that the provider shows, 50 pages of 500 for 1000). While the market
  rests, a band that is paged through is under the cap, so its pages are neither too many nor empty
  before its end; and a band that cannot be split has one price, or no price that can be read.

`GatewayProofs` first goes through every tool, route and page once (`WellPlanned`, `PagesAsk`):
each makes only calls that its annotation allows, in an order in which nothing that may be refused
comes after a write, or behind a check of the whole batch (`GoodPlan`). `FrontInv` carries that through a
request that is under way. Then:

* `GuessesAreBounded` (`GuessInv`): every guess of the window has been paid for.
* `RefusedWroteNothing`, `FaultsAre500` (`RefusalInv`): without a fault a request fails on a sentinel its
  transport knows and before it has written, or on a text it brought along that cannot be stored: a call of a plan that binds
  such a text (`Soiled`) is only made by a request that has one (`PlannedTexts`).
* `ToolsDoAsAnnotated`: what a call adds or removes, on tables that hold what their columns may (`Tables`).
* `RetriesAreSafe` (`RetryInv`): the tables are as the first of a row of identical requests found them or as
  it leaves them. `Redone`: a call on what it left changes nothing further, for each of the ten kinds of
  writing call that repeatable tools make. A request for a crawl is the hard one (`CrawlRedone`).
* `TransportsAreTwins`: by induction on the calls of two plans. The library's induction theorems
  need an operator as a parameter, so `SameSoFar` takes the least number of calls after which
  two plans would differ, and shows that they do not. `CallsUnfold` gets the existence of the
  recursive function of `AfterCalls` the same way. The profile is the one tool whose route is its twin only up to spelling
  (`ProfileRoute`).

What the theorems assume of the constants: types of bounds and flags; that scopes are not empty
and at least one absence is needed (`LifecycleAssumption`); that clients and drains, agents and listings
are finitely many where something counts them (`QueueAssumption`, `TasteAssumption`); what `PoolAssumption` says of
benches; that agents call tools and routes that exist (`RequestsAssumption`); that the provider ranks finitely many listings without ties
(`WalkAssumption`); and nothing about the sizes of the sets. Hypotheses of single theorems (`FetchesUndisturbed`,
one crawler, `OneRunPerScope`, `BaselineFits`, `PagesSuffice`) are named with them above.

Only model-checked is all liveness (`RequestSettles`, `StandingCrawled`, `DanglingHeals`, `GoneIsDelisted`, `EveryCallEnds`,
`SessionEnds`, `SearchEnds`), which is out of the prover's reach. Every other
property of the passing runs is stated by a theorem.

## Not modelled

* LISTEN and its reconnection in the watch worker: it only
  shortens the wait before the next drain, which the models leave open.
* A run's failure streak, enrichment budget and photo channel (`ingest/service.go:284`, `:470`): whether a page
  is fetched is a choice the models leave open.
* The backends of the byte store, decoding of the provider's answers, area names, configuration,
  logging and `lst`: they keep no state that the components above share.
* Prices, price events and the provenance of fields.

Some hazards have no property, and `PROJECT.json` says why: bytes put for a row that
is gone are leaked and the code tolerates that (`store/ingest.go:389`), two overlapping runs that
missed the same gap count as two (`ingest/service.go:133`).

## Plan

1. Overlapping runs of one scope in `CrawlRuns`: what the two properties of the baseline
   become when verdicts are reached on a history that is old.
2. The run's budgets and its photo channel, between `CrawlRuns` and `PhotoCache`.
