# A TLA+ verification of Copilot API Dashboard

The program is one Go process that shows the usage of GitHub Copilot accounts.
It discovers Copilot API endpoints (a YAML file, the Docker socket), asks each
for its account and its token usage, keeps a daily history in SQLite, and
serves a JSON API and a page. This directory models the parts in which
something happens at the same time as something else or depends on a long past:
history synchronization, the process's shutdown, the SQLite history, the calls
of the JSON API, and the page.

Paths below are relative to `src/`.

## Inventory

| Part | State | Operations | Modules |
|---|---|---|---|
| History synchronization, `internal/dashboard/service.go` | two singleflight groups, `syncTasks`, `syncStopped`, `syncDone` | `Sync`, `resolveForSync`, `syncAccount`, `beginSyncTask`, `finishSyncTask`, `WaitForSync` | `SyncService`, `TaskGate` |
| Process lifecycle, `cmd/dashboard/main.go` | the signal context, the background goroutine, the server | `run` and its deferred calls | `SyncService` |
| Daily history, `internal/store/sqlite/store.go` | segments and days of each account | `SaveDaily`, `LoadDaily` | `DailySegments`, `HistorySync`, `UsageStore` |
| Sources, `internal/store/sqlite/store.go` | rows of `sources` and `accounts` | `resolveSourceID`, `persistAccount` | `SourceIdentity`, `UsageStore` |
| Account resolution, `service.go`, `internal/discovery/discovery.go` | none | `resolve`, `Discover`, `Deduplicate` | `AccountResolution`; an input of `SyncService` |
| Dashboard and Events, `service.go`, `aggregate.go` | none beyond a call | `Dashboard`, `persistedDashboard`, `Events`, `mergeDay`, `fillDays` | `DashboardCall`, `FilledDays`; `LoadDaily` in `DailySegments` |
| Upstream client, `internal/upstream/client.go` | the semaphore `limit` | `get` | `DashboardCall`; its outcomes in `SyncService` |
| Copilot API (external) | usage by date and model | lifetime report | `HistorySync` |
| Browser page: requests, `web/app.js` | `state`, `refreshID`, two abort controllers | `refresh`, `loadEvents`, filters, paging, history entries | `DashboardPage` |
| Browser page: content, `web/app.js` | `sorts`, `tableViews`, `chartDays`, `state.showAccountNames`, the chart's `selected` | `renderDashboard`, `sortableTable`, `redrawTable`, the listeners of headers, keys, pointers and the width | `PageContent`, `SortedTables`, `Quotas` |
| HTTP server, `internal/httpserver/handler.go` | none | routes, query checks | `POST /api/v1/sync` in `SyncService`, GET requests in `DashboardCall` |
| SQLite schema, configuration, aliases, health check | none that changes | start-up parsing, one request | not modelled |

How they interact: the background loop and every `POST /api/v1/sync` call
`Service.Sync`. A call first shares one resolution of all accounts, then starts
one goroutine per selected account, each of which shares a task keyed by source,
login and credential. The tasks run under the process's context, not the
callers'. A task reads a lifetime report from upstream and hands it to
`SaveDaily`, one transaction on the only connection. The dashboard reads with
`LoadDaily`; without a history it asks upstream itself. All requests of all calls
share the slots of one upstream client. At the end of the process `run` waits for the loop, then for the
tasks, and only then closes the database.

What is hard about it:

- *Concurrency*: callers join and leave tasks at any time, also while a task is
  ending; a task may outlive all its callers and must not outlive the database.
- *Change of identity*: keys are rotated, containers are renamed and moved; two
  tasks of one account may then run at a time and save in either order.
- *History*: a report is a snapshot of a counter that may start again from
  nothing. The store must tell a rebuilt upstream database from late, missing
  or corrected data by nothing but the numbers.
- *Failure*: requests fail, transactions roll back, clients disconnect,
  `Shutdown` times out. An answer is given in part, and must say so.
- *Choice*: several endpoints may serve an account, and an account's history is
  found by its endpoint's name and URL; the choice must not depend on chance.
- *The page*: every `await` of its script lets clicks and other answers in, and
  two asynchronous functions share a selection, a page number and the markup.
  Tables are redrawn from closures of an earlier answer, and a change of width
  draws the days again, whatever is loading.

`PROJECT.json` lists the hazards one by one, at their lines.

## Modules

### SyncService: calls, shared tasks and shutdown

A *caller* is a goroutine inside `Sync`: the background loop or an HTTP handler.
A *flight* is a key of one of the singleflight groups: `Resolve` for
`resolveSync`, and an `Endpoint` (a login and an `Origin`, that is a source with
a credential) for `accountSync`.

| In the model | In the code |
|---|---|
| `pc[c]`, `target[c]` | where the caller is in `Sync`, its `login` argument |
| `slot[c][f]` | the caller's goroutine for account `f` (`Resolve`: the call itself), its result channel and what it received |
| `cancelled` | requests whose context is done |
| `stage[f]`, `outcome[f]` | the function given to `DoChan`: not called, waiting to run, inside, holding a report, returned but not forgotten |
| `stored` | logins with a committed snapshot |
| `syncTasks`, `syncStopped`, `syncDone` | the fields of the same names; closing a closed channel gives `"panicked"` |
| `ctxDone`, `accepting`, `mainPc` | the signal context, the listener, the place in `run` |

Actions: `Request`, `Tick`, `Join` (`ctx.Err()` and `DoChan`), `Abandon` (the
select, when the caller's context ends), `Resolved`, `Collect` (after
`wg.Wait()`), `BeginSyncTask`, `ResolveAccounts`, `FetchDaily`, `SaveDaily`,
`SyncFails`, `Publish` (singleflight forgets the key and sends to all waiters
under its mutex), and the steps of `run`: `BeginShutdown`, `EndShutdown`,
`WaitForSync`, `CloseHistory`, `Exit`. Discovery is any set of endpoints with one
per login, chosen anew by each resolution. A mutex's critical section is one
step, and so is a transaction: that a failed statement leaves nothing behind is
SQLite's promise, taken as given in every module.

`TaskGate` is what `beginSyncTask`, `finishSyncTask`, `WaitForSync` and
`history.Close()` promise together: a gate that admits tasks until it is shut
and opens the way when the last one has left. `GateSpec` maps the counter, the
flag and the channel to it.

Left out: the text of failures; persistence disabled, when `Sync` returns at
once. The slots of the upstream client are in `DashboardCall`.

### DailySegments: what SaveDaily and LoadDaily compute

Pure operators on an account's sequence of segments, one for each function of
the store (`SnapshotReset`, `DetailsRegressed`, `Comparable`, `Replaced`, ...)
and `SaveSegments`, `LoadedTotal` and `LoadedDetail` for the whole. Counters and
details are functions from whatever keys are present, so the optional
`total_nano_aiu`, costs and models share one definition of "became smaller" and
"got lost". Dates are numbers; ISO dates sort the same way.

### HistorySync: from Copilot API to the dashboard

One account. The environment uses it (`Request`), loses its database
(`Rebuild`), takes back or reclassifies usage of past dates if it is one that
does (`Correct`, `correcting`), and
reports its lifetime with the first and last bucket cut off (`Lifetime`). The
synchronization fetches reports and saves or loses them; with `Tasks = 2` they
overtake each other, as tasks with different keys do. `ledger` and `late` are
history variables: what each lifetime of the upstream database last reported,
and whether a report was ever overtaken.

### SourceIdentity and UsageStore: the tables

`SourceIdentity` is `resolveSourceID` and the first half of `persistAccount`: an
endpoint is the row with its name or its URL, and an error when these are two.
`UsageStore` adds accounts and their segments, with arbitrary reports in
arbitrary order. It extends `SourceIdentity` and `DailySegments`.

### AccountResolution, FilledDays and DashboardCall: GET requests

`AccountResolution` is `Less`, `Deduplicate`, `Discover` and the end of `resolve`,
as operators: URLs and names are numbers that sort like the texts, and a source
that failed gives nothing but a failure. `FilledDays` is `mergeDay` and
`fillDays`. It works on hours, as the code works on instants, because midnight
does not always exist: `Gap` is a date that begins at 1:00, and `Skew` says which
of two instants `time.Date` takes for its midnight, which its documentation
leaves open. `Nth` is `AddDate(0, 0, 1)` done n times, in closed form.

| In `DashboardCall` | In the code |
|---|---|
| `persistent` | whether `Service.History` is set |
| `slots` | elements of `Client.limit` |
| `gone` | requests whose context is done |
| `stage[c]`, `call[c]` | where the handler is, and its period and login |
| `found[c]`, `endpoints[c]`, `accounts[c]` | what `Discover` met, and the results of `resolve` |
| `requests[c]` | its calls of `Client.get`: waiting for a slot, under way, or their result |
| `answer[c]` | `Response`: totals, days, errors |

Actions: `Begin` (discovery, and one goroutine per endpoint), `Acquire`,
`Abandon` and `End` (`Client.get`), `Load` (after the first `wg.Wait()`; the
requests of all selected accounts), `AnswerLive`, `AnswerStored`, `AnswerEvents`,
`Return` and `Disconnect`. The days of an answer are kept as they were recorded
and as the number of entries that each date has after `fillDays`.

Left out: containers that cannot be inspected (each is one more failure and one
endpoint less); costs, models and the optional counters, which add up as tokens
do; the spelling of logins, which are compared in lower case everywhere here.

### DashboardPage: requests and what is shown

| In the model | In `web/app.js` |
|---|---|
| `selected`, `page`, `totalPages` | `state.account` and `state.period`, `state.page`, `state.totalPages` |
| `url` | the filters in `location`, as `locationFilters` reads them |
| `refreshID`, `calls` | `refreshID`; the calls of `refresh` and `loadEvents` that await an answer, with the value of `refreshID` they started with and whether their controller aborted |
| `content`, `events`, `shownEvents` | the usage and the events drawn, and what they were asked for; `shownEvents` |
| `contentBusy`, `eventsBusy`, `syncing`, `pager` | `aria-busy` of both parts, `aria-disabled` of the refresh button, the enabled ones of Previous and Next |
| `eventErrors` | whose request `state.eventErrors` are about |

An action is the code between two awaits: `Refresh` (by `ClickRefresh`,
`SelectFilters` and `PopState`), `SyncArrives`, `DashboardArrives` (with the
start of `loadEvents`), `Turn` (by `Previous` and `NextPage`), `EventsArrive`,
and `Ignored` for answers that fail the check after an await. Logins are
case-insensitive, and the page takes over upstream's spelling when it learns it:
`exact` says whether a login has it.

Left out: how usage is drawn (`PageContent`), the theme, the texts of errors, and
an unknown period in the address, which is read as the default one. Upstream is
taken to answer with the page of events it was asked for.

### PageContent, SortedTables and Quotas: what is drawn

| In the model | In `web/app.js` |
|---|---|
| `filters`, `busy`, `data` | whether an account and whether today is selected; whether an answer is awaited; the last answer, `chartDays` with it |
| `accountsHidden`, `trendHidden` | `hidden` of the two sections |
| `showNames`, `sorts`, `tableViews` | `state.showAccountNames`, `sorts`, `tableViews` |
| `drawn` | the tables in the document: rows, arrow, and whether Cost can be clicked |
| `chart` | the chart in the document: its days, `selected`, whether the tooltip is shown, whether it has the focus (`focused`), and whether the mouse has been over it since it was drawn or the mouse last left (`hovered`) |

Actions: `Select` (a filter or a refresh; the view stays), `Arrive`
(`renderDashboard`), `Resize` (`renderTrend(chartDays)` with the current period),
`ClickHeader`, `ToggleNames` (the key d), and the listeners of the chart,
`PointerMove`, `PointerDown`, `PointerLeave`, `Focus`, `Blur` and `Key`. The order
of requests is `DashboardPage`'s: here an answer to the selection may arrive
whenever one is awaited. `SortedTables` is the comparison of `sortableTable`, and
`Quotas` the functions from a quota to what a row and a card say of it, in
hundredths of a percent.

The listeners of the chart tell a mouse from other pointers and nothing more, and
so does the model (`Pointers`). Any pointer may move over the chart at any time,
and the focus may go at any time. This is more than a design for taps has in mind,
and all of it happens. A pen hovers. A finger that is down when an answer or a
change of width draws the chart anew moves on over a chart that has not seen it go
down and has no focus, since the element that had captured it and had the focus is
gone. A finger may also be down when the keyboard or another window takes the
focus. In each case the next move shows a tooltip, and because `pointerleave` hides
it for a mouse only, it stays after the finger or the pen is gone: until the chart
is drawn anew, a mouse leaves it, or it has got the focus and loses it again.
`TooltipIsHeld` therefore does not say that no tooltip stays behind. It says that
none does in any other way. That a finger or a pen leaves the chart is no action,
since nothing happens then.

Left out: the columns that differ from those listed only in the field they read;
metrics, the table of events and of errors; number formats; whether the daily
values are expanded; where a tooltip is placed. A list that is missing and
one that is empty both give no table.

## Runs

| Run | Checks | Bounds, and why they are enough |
|---|---|---|
| `sync_service` | `TypeOK`, `DrainInv`, `NoTaskAfterClose`, `CancellationIsPrivate`, `OwnEndpoint`, `GateSpec` | the loop and one client, one account with two credentials: a sharer and an owner of each flight, an old and a new flight at a time, every shutdown. Credentials are symmetric |
| `sync_accounts` | `SyncedIsStored` | the loop and one client, two accounts: selecting, missing and partly failing. Explored until the signal (`Serving`), after which answers only get worse |
| `sync_liveness` | `EveryCallReturns`, `ShutdownCompletes` | the loop and one client, one account; with fairness |
| `history` | `LoadedIsReported`, `NoDoubleCount`, `NeverRefused`, `ModelsAddUp`, `PeriodsAgree`, `LoadedNeverShrinks` | two dates of three instants (a rebuild and a new bucket fit into a date; buckets cut off at both ends), three requests, two models, one rebuild, two reports under way |
| `history_corrections` | `NothingForgotten`, `LoadedIsReported`, `CatchesUp` | two requests per upstream database, two rebuilds, one report under way, upstreams that correct and upstreams that do not; with fairness |
| `history_corrected` | `PastDatesAreCorrected` (violated) | no rebuild: two requests and a correction suffice |
| `history_reclassified` | `CorrectionsAreTaken` (violated) | the same |
| `usage_store` | `SourcesDistinct`, `TypeOK`, `SaveIsIdempotent`, `IdentityIsKept`, `StoredDaysAreKept` | three names and two URLs: chains of renames, moves and ambiguous pairs. All reports over two dates with three ends, any start, two models, one misdated report and one with a negative start; two segments. Endpoints move with one simple report each, the full variety of reports meets one account (`Focused`): the two sides share only the id |
| `dashboard_page` | `TypeOK`, `ContentIsSelection`, `EventsBelongToContent`, `AnswersAreWanted`, `BusyIsPending`, `UrlIsSelection`, `PageSettles` | two accounts with two spellings, or all of them; three calls of `refresh`, so that a selection can be left and taken again; three pages, so that one can be skipped while it loads; three calls under way, aborted ones included |
| `page_content` | `TablesAreSorted`, `TablesAreContent`, `TooltipIsDay`, `TooltipIsHeld`, `QuotasAgree` | three answers: three accounts, models and days with equal names, missing values and one currency; two currencies and fewer rows; nothing. Five pixels of chart for up to three days, so that positions fall between days, and as many on either side of it, where a finger that went down on it is followed. Quotas with every field missing, at and beside each boundary |
| `dashboard_call` | `SlotsInv`, `NothingDropped`, `ChoiceIsStable`, `DaysAreComplete`, `EveryCallEnds` | one slot, a caller of the dashboard (all accounts, or one that may be missing) and a caller of events; an endpoint of the file and two containers that share a URL or an account, either source failing, containers in both orders; with and without a history; a Wednesday that is the second of its month, a lifetime that can just be filled in and one that cannot. With fairness |
| `dashboard_gap` | `DaysAreComplete` (violated) | one caller, a history, a date of the period without midnight |

`LoadedIsReported` is the main statement about the history: while reports are
saved in the order in which they were taken, each date of the dashboard is the
sum of what every lifetime of the upstream database last reported for it (with an
upstream that corrects past dates: as long as there is one segment). When
reports overtake each other this cannot hold (an old report may be the only one
that knew an old lifetime), but nothing is counted twice (`NoDoubleCount`) and
nothing shown disappears (`LoadedNeverShrinks`). Both are about an upstream that
only counts upwards and whose rebuild takes an instant, and `NoDoubleCount` about
one rebuild: with two, a report of the second lifetime that is saved after one
of the third opens a segment, and the next report of the third counts its dates
in both segments. For that a report must be overtaken by one with another
credential and be held up across a rebuild.

Two runs find the code at odds with the repository's notes, which say that newer
snapshots may correct past dates and that upstream rebuilds are told apart
(`.agents/skills/upstream-api-review/references/copilot-api-dashboard.md:33`).
That holds for dates that were saved at least once after they were over. A date
whose last saved row is from while it was running is still compared as if it
were the current one: when its correction lowers it, a segment is opened and
both values are added (`history_corrected`); when its correction moves usage to
another model, the snapshot is refused, as is every later one
(`history_reclassified`).

A third finding is a defect of `fillDays` (`dashboard_gap`). Where the clocks go
forward at midnight (Santiago, Cairo, Beirut, the Azores) one date of a year has
no midnight, and the walk from midnight to midnight goes on from 23:00 or from
1:00 after it. West of Greenwich the date before is then visited twice and listed
twice unless something was recorded for it; east of it the last visit comes after
today's midnight, and today is not listed unless something was recorded.
`service_test.go:316` expects the first date, the last date and the number of
dates that the period has, in `time.Local`. In all other time zones, and while no
such date is in the period, `DaysAreComplete` holds for every period.

`ChoiceIsStable` compares calls at the same time, so it says that the choice is a
function of what was found and who answered; an account still moves to its other
endpoint while the first one fails. `NothingDropped` is stated over the
requests, not over the loop that adds them up: totals and days must be the sums
over the endpoints whose requests succeeded, and errors must name all others.

`QuotasAgree` is about functions without a state, so it is looked at before the
first answer only.

## Fairness

`SyncService!Fairness`: each caller and each flight goes on when it can, since
goroutines are scheduled and every upstream request, Docker call and database
wait has a deadline; so does `run`, whose `Shutdown` has one as well. New
requests, ticks, disconnects and signals are never forced.
`SF_vars(BackgroundExit)`: when both `ctx.Done()` and the ticker are ready, Go's
select picks one at random, so the loop may sync again but not for ever.

`HistorySync!Fairness`: time passes, the loop goes on fetching
(`WF_vars(Fetch)`), and saves that can happen again and again do happen (`SF`);
a crash or a failed transaction may lose any number of reports before that.

`DashboardPage!Fairness`: a request that is not aborted is answered or fails;
the server bounds each of its own, and the browser reports a lost connection as
a failure. The user is never forced to do anything, and `PageSettles` is about a
user who changes the selection finitely often (`MaxRefresh`).

`DashboardCall!Fairness`: a handler goes on when it can, and a request that has a
slot ends, by its timeout at the latest. A request that waits is in a `select` on
`limit`; Go serves the goroutines waiting to send on a channel in turn, so one of
a caller's requests gets a slot that is free again and again (`SF`). Nothing is
assumed of clients: none needs to go away for others to be served.

## Proofs

TLC checks the instances of the table above; the theorems hold for every value of
the constants that the named assumptions allow: any callers, endpoints, models,
reports, answers and lengths of a day, and any value of the bounds, so for
behaviours of any length. Each module's assumptions are evaluated by its runs:

| Assumption | Why the code justifies it |
|---|---|
| `CallerAssumption`, `FlightAssumption` | the loop is a caller; a host has finitely many endpoints, and the key of `resolveSync`, an endpoint and "all accounts" are different things |
| `HistoryAssumption` | a day has a length; the bounds are numbers; an account has finitely many models |
| `SnapshotAssumption` | reports come out of `Upstream.Daily`'s decoder (`Decoded`) |
| `PageAssumption`, `NoneAssumption` | no login is "all accounts"; nothing shown is not something shown |
| `ContentAssumption`, `AnswerAssumption`, `QuotaAssumption` | a chart has a width; answers have lists, and their numbers are numbers |
| `CallAssumption` | one slot at least; operations, logins and periods are what the handlers accept; a source gives a list of endpoints or fails; the states of a request and logins are different things |
| `UsageAssumption` | a report has finitely many dates, with numbers; a map of days is not nil |
| `FilledDaysAssumption` | months begin on dates from 0 on, the first one included; a clock is put forward by an hour |

### SyncServiceProofs

- `SpecDrainInv`: `TypeOK /\ DrainInv` is inductive. `DrainInv` is what the other
  theorems of shutdown need: the counter is the number of tasks inside, the flag
  is up exactly from WaitForSync on, and the channel is open or closed according
  to both. Steps that change the set of tasks inside use the cardinality of a
  finite set with one element more or less. `SpecTypeOK`, `SpecNoTaskAfterClose`
  and `SpecNoDoubleClose` follow (the last is no property of a run since
  `DrainInv` implies it).
- `SpecImplementsGate`: under that invariant every step is one of `TaskGate`'s or
  changes none of its variables.
- `SpecCancellationIsPrivate`, `SpecOwnEndpoint` and `SpecSyncedIsStored` are about
  answers that go through three hands: the task computes one, the flight keeps it,
  each waiter receives it. None of them is inductive. `CallInv` says what is true
  in each hand: a flight's outcome is about its own key, `canceled` there means
  `run`'s context ended and `ok` that the snapshot is committed (`FlightInv`); the
  same of what a caller has received, or its own context ended (`AnswerInv`); a
  caller waits for accounts only while it is syncing and only for those it asked
  for (`SelectionInv`). That the contexts end and snapshots get stored for good
  makes all of it stable under the steps of the others.

### DailySegmentsProofs and UsageStoreProofs

`DailySegmentsProofs` holds lemmas only, those on finite sets also for the other
modules: what each operator of `SaveDaily` returns
(`SaveSegments` leaves earlier segments alone, keeps each stored date, replaces a
day by one of a later snapshot or a merge with it, accepts what it has just
saved), and sums over finite sets, which the proofs of the history rest on. The
community module's sum is a `CHOOSE` of a recursive function, and the induction
theorems of the library take an operator; so induction over finite sets is proved
once, with the property given as a set of subsets, and from it that the recursion
has a solution and only one, that a sum may be split off one element, renamed,
compared term by term and exchanged with another. In the same way every finite set
can be arranged along a strict order, in one way only; sorts are modelled as that
arrangement, since TLC's `SortSeq` has no definition a prover can use.

- `SpecSourcesDistinct`, `StoreSourcesDistinct`: rows stay rows, and no two share a
  name or a URL, for sources alone and in the store. Inductive by itself, from two
  lemmas: updating the only row that matches, and inserting one when none does.
  `SpecIdentityIsKept`, `StoreIdentityIsKept`: a row stays, and keeps its name or
  its URL in each step.
- `HistoryInv` (every account belongs to a row, every segment is well formed: it
  has dates from its start on, of days that begin before they end and not after their
  snapshot) is inductive and gives `StoreTypeOK`; under it each `SaveDaily` satisfies
  `StoreKeepsStoredDays` and `StoreSaveIsIdempotent`. It is needed because
  `Comparable` and `Replaced` compare instants of stored days.

### HistorySyncProofs

- `SpecNeverRefused` (an upstream that does not correct) rests on `HistoryIInv`:
  each day seen, stored or on its way, lies in its date and before its snapshot
  (`HistoryTyped`); upstream still knows all of its requests unless it was rebuilt
  since (`KnownInv`); of two reports about a date the later one does not lose
  details, or begins after the end of the earlier one (`OrderInv`); two of the same
  instant are the same (`SameInv`). `NeverRefused` is what `OrderInv` says of the
  last segment; it is not inductive, as it says nothing about reports on their way
  that meet each other in the store later.
- `SpecPeriodsAgree` follows from `HistoryTyped`, corrections or not.
- `SpecModelsAddUp`: models add up in each day seen (`SumsInv`), in upstream's
  reports by construction of `Lifetime`, and stored days are reported days.
  Over all segments it is an exchange of two finite sums.
- `SpecLoadedNeverShrinks` (an upstream that does not correct): the end of each day
  is the end of its date or the instant of its snapshot (`EndsInv`), so the later of
  two days of one lifetime counts no less (`ShownInv`); a day of an earlier lifetime
  would begin before the report and is not replaced by it.

### HistoryLedgerProofs

`SpecLoadedIsReported` compares stored days with what upstream reported, lifetime by
lifetime. A lifetime cannot be read off the store, so the invariant quantifies over
when each lifetime was born and first used (`births`, `firsts`); reports under way
and the ledger lie between births (`Lives`). While no report was overtaken,
`RowsInv` holds: every stored day is what its lifetime last reported for its date
(`RowsOwned`), no lifetime has a date twice (`RowsDistinct`), all that was reported
is stored (`ReportsStored`), and the last segment takes all the dates that the
newest lifetime reports (`LastSegmentInv`). Saving is the hard step: the first
segment, the same segment and a new segment each replace exactly the days of the
report's own lifetime. The sum over rows of a date is then the sum over the
lifetimes that have a row for it, by renaming, and the others reported nothing.
With corrections the statement is about one segment, as in `LoadedIsReported`.

`SpecNothingForgotten` is about upstreams that take usage of past dates back, so that
a save may mistake a correction for a rebuild and open a segment. What then remains
true, with one account task at a time:

- each row lies within its lifetime, in the bucket of its date (`RowsBorn`), so it has
  one lifetime only; what a lifetime last reported of a date is covered by a row of
  that lifetime (`ReportsCovered`);
- the last segment has what the newest lifetime reported from the segment's start on,
  and each date before it was over when the lifetime began, or has a row of that
  lifetime from after the date was over (`StartCovered`);
- such a row counts no less than upstream does now: past dates are only corrected
  downwards (`OverInv`), and a stored day that does not belong to the present lifetime
  ended before it (`SideInv`). Both hold whatever the number of tasks;
- the report under way is newer than all that was saved, and does not exceed rows of
  dates that were over (`AloneInv`).

`Kept` says what a save makes of the rows (the first segment, the same segment, a new
one); a row of another lifetime in a replaced date would have shown a rebuild
(`ForeignDay`). Reports then map one to one to rows that cover them
(`RowsCoverReports`), and the sums follow term by term. TLC confirms all of these
invariants on the instance of `history_corrections`, with days of two instants and one
rebuild. The hypothesis `Tasks <= 1` is needed: of two tasks the later report may be
saved first, and the earlier one's dates before the segment it opened are then not
stored; even reports of one instant may differ by a correction in between.

`SpecNoDoubleCount` is about reports that overtake each other, so that the store may be
behind upstream, and in either lifetime. With one rebuild at most a day tells its lifetime:
the second one's days begin at its first request or later, and `first` is kept until then
(`LifetimeOf`, `OwnersInv`). What then holds in any order of saving:

- a day of a lifetime that was seen later counts no less (`GrowsInv`), and the ledger has
  a report of each date seen that covers all of its days (`NotedInv`);
- a second segment is opened only by a report of the second lifetime, over a first one
  with days of the first lifetime alone (`ResetIsRebuild`); from then on each segment has
  days of one lifetime, and the second one begins with such a day (`ShapeInv`);
- so no lifetime has two rows for one date: two rows are in two segments.

Rows of a date then map one to one to lifetimes whose last report covers them
(`RowsAreReported`). `ShapeInv` is where a second rebuild breaks the argument, and the
property (see above): the theorem has the hypothesis of the property, `epoch <= 2`.
TLC confirms the invariants for two and three tasks and days of two and three instants.

### DashboardPageProofs, PageContentProofs, DashboardCallProofs

- `PageInv` is the conjunction of `DashboardPage`'s invariants with two facts that
  make it inductive: Previous and Next cannot be clicked while the content is busy
  (`PagerIsLocked`), and the filters that `refresh` compares are those of the events
  shown (`EventsAreShown`). Each of the six invariants is a theorem.
- `ContentInv` and `ChartOk` are inductive: the tables in the document are those of
  the last answer; a chart's selection is a day of it, and a tooltip needs one.
  `SpecTablesAreContent` and `SpecTooltipIsDay` follow, the latter with
  `NearestIsNearest`: the day closest to the position clamped to the plot is the one
  closest to the position. `SpecTooltipIsHeld` is a fact about each step, one case
  per action.
  `QuotasAreConsistent` is about every quota of integers, from which
  `SpecQuotasAgree`.
- `DrawnInv`: each table in the document is what its view, its sort and the names
  give now, though clicks, the key for names and resizing draw some of them only.
  That a table so drawn has the rows of the answer in the promised order
  (`DrawnIsSorted`) needs that the comparison of `sortableTable` is a strict order of
  the rows, missing values included and equal rows by their place
  (`CompareIsBefore`, `RowsAreOrdered`), hence that there is such an arrangement.
  `SpecTablesAreSorted` follows.
- `SlotsIInv`: the open requests form a finite set whose cardinality is `slots`, by
  the argument of `DrainInv` over the requests of all callers; the handler that
  answers has no open request (`RequestsInv`). `SpecSlotsInv` follows.
- `CallIInv`: a call's endpoints are those found, its requests are one for the usage of
  each and then those for the accounts asked for, and its accounts are made of the usage
  that was answered (`CallOk`). It makes the other three theorems of `DashboardCall`
  statements about operators.
- `SpecChoiceIsStable`: `Deduplicate` sorts and then keeps what does not clash with
  anything kept before. What is kept is the one set `K` of endpoints with "an endpoint is
  in `K` exactly if no smaller one in `K` clashes with it" (`Greedy`), by induction along
  the order (`GreedyIsUnique`); so it depends on the set that was found only
  (`DeduplicateOfSame`), though equal endpoints come in the order in which they were
  found. A set is arranged in order in one way only, and the accounts are a function of
  the endpoints and their usage.
- `SpecNothingDropped`: the loops over the accounts are folds, which the library defines
  by recursion over sets of places, the last place taken off. `Collected` is their closed
  form: the totals, the days and the errors of the endpoints so far, as sums over sets
  of names, or None when there are none. One more account adds its own (`TotalsWith`,
  `DaysWith`), for which names must be distinct (`AccountsAre`); and a function that does
  what the loop does gives its value (`LiveIs`, `StoredIs`). `AnswersInv` keeps the answer
  as it was made until the call returns.
- `SpecDaysAreComplete` (`Gap = None`): then each visited instant is the midnight of one
  date (`VisitedIs`), and every period starts at the midnight of its first date
  (`StartIs`). With a `Gap` the statement is false, which is the finding above.

### Model-checked only

- Liveness (`EveryCallReturns`, `ShutdownCompletes`, `CatchesUp`, `PageSettles`,
  `EveryCallEnds`): beyond these provers, which know no `ENABLED`.
- Every invariant and action property of the passing runs is a theorem.
  `DaysAreComplete` is one for clocks that skip no midnight, as in its run.

## Plan

Done: the modules, their runs, and the theorems above.

## Not modelled

- Parsing of configuration, aliases, YAML, URLs and JSON, and the checks of query
  strings: functions of their input without state, best served by unit tests.
- Docker and HTTP themselves; the schema of the database and the way it is
  opened: they have no behaviour of their own beside the modules above.
- The page's theme, number formats, markup and geometry, the health check, the
  image and the workflow.
- A read by GET /api/v1/dashboard that outlives `Shutdown`'s ten seconds meets a
  closed database; it fails with an error that nobody receives.
