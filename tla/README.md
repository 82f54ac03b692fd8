# Formal models of NZBHydra2

NZBHydra2 is a meta search for newznab and torznab indexers: it sends a search to
many indexers, merges what they return into one list, and hands the results to a
web UI, to API clients (Sonarr, Radarr, …) and to downloaders.

This directory holds TLA+ models of its search core, of its configuration and of
the part of the web UI which searches, TLC configurations which check them on small
instances, and theorems with proofs checked by TLAPS. Paths of Java files below are
relative to `src/core/src/main/java/org/nzbhydra/`, paths of TypeScript files to
`src/core/ui-react/src/`.

## Inventory

| Part (code) | State it keeps | Operations | What makes it correct | Model |
|---|---|---|---|---|
| Search loop and paging (`searching/Searcher`, `SearchCacheEntry`, `IndexerSearchCacheEntry`) | search cache (ExpiringMap), per search: results of each indexer, cached and popped items, merged items, duplicate groups | search, continue, query a round of indexers, merge, cut out a page | complete, newest first, nothing twice, stable offsets, bounded queries, every request ends | `SearchPaging` |
| Duplicate detection (`DuplicateDetector`, `DuplicateGroups`) | groups of a search, represented flags | add new results to groups, choose the representative | one result per group, the best known one | in `SearchPaging` |
| Minimum age search (`MinAgeOffsetSearch`) | state, two bounds, oldest date seen | load the first page, probe, resume, give up | jumps over nothing old enough, keeps contiguous results | `MinAgeOffsetSearch` |
| Active searches (`Searcher.activeSearches`, `shortcutSearch`, `onShutdown`) | registry of running searches, their futures and executors, a flag | register, submit, track, cancel, shut down | no shortcut lost, no call escapes, no other search cut, every search ends | `ActiveSearches` |
| Search history (`SearchPersister`) | rows of a search, number of results persisted | create, persist new results | repeatable after a failure | in `SearchPaging` (counters) |
| Answers of indexers (`IndexerSearchResult`, `Newznab`, `Indexer`) | offset, total, more-results flag, order of the page | complete a result, correct an invalid total | consistent with what was returned | in `SearchPaging`, `MinAgeOffsetSearch` |
| Indexer error status (`indexers/Indexer.handleSuccess`, `handleFailure`, `IndexerStatusesCleanupTask`, `IndexerConfigValidator`) | state, level and end of the disabling, in the configuration object of the indexer | end a call, clean up, save by the user | the user's decision stands, a temporary disabling ends, it gets longer with every error | `IndexerStatus` |
| Configuration (`config/BaseConfigHandler`, `ConfigReaderWriter`, `ConfigProvider`, `ConfigWeb`, `genericstorage/GenericStorage`, `searching/SavedSearchesWeb`) | the bean and the objects its parts belong to, pending delayed save, lock, file | post, replace, publish, save now or later, write, reload, start | what was answered with success stays, no change is undone or forgotten | `ConfigPersistence` |
| Live connection (`api/live/transport.ts`) | the shared STOMP client, whether it is open, its subscribers and the session each is subscribed in | subscribe, time out, close, connect, reconnect, fail | everyone subscribed is served in every session, nobody else is | `LiveConnection`, `LiveSubscription` |
| Search page (`features/search/SearchPage.tsx`) | the submission in progress, its request and subscription, what is shown, remembered routes | submit, cancel, leave, answer, progress, submit from the URL | shows the last search only, that of its URL; leaves nothing running behind | `SearchPage` |
| Results table (`features/search/results/`: `resultTable.ts`, `SearchResults.tsx`, `useResultSelection.ts`) | loaded results, filters, display choices, page, expansion, selection, paging state | filter, sort, group, expand, page, select, load more, load all | every result can be reached, nothing is selected or sent that was filtered out, no gap in what is loaded | `SearchResults` |
| Bulk actions (`results/DownloadActions.tsx`, `sendFlow.ts`) | downloader, category, busy | send, save, copy | sends what is selected, once | only `Send` in `SearchResults` |
| Indexer instances (`SearchModuleProvider`) | map of instances | load, look up | readers see all indexers | not modelled (which object an instance has is in `ConfigPersistence` and `IndexerStatus`) |
| Selection and hit limits (`IndexerForSearchSelector`) | API accesses stored | pick indexers | limit not exceeded | not modelled but for `IsSelectable` |
| Search progress (`SearchWeb`) | search states, at most twenty | events of a search | the counts reach the number of indexers | not modelled |
| Downloads (`downloading/FileHandler`, `DownloadStatusUpdater`, `Downloader`) | status of downloads, flags of the checks | download, fall back, update | status moves forward, checks don't stop too early | not modelled |
| Disk cache (`cache/DiskCache`) | files, access times | get, put, evict | a value read is one written | not modelled |
| Everything else: API and web controllers, HTTP, migration, notifications, updates, backup, statistics, mediainfo, problem detection, the other pages of the UI | little or none | | | not modelled, see `PROJECT.json` for the reason of each |

### How the parts interact

A request's thread runs `Searcher.search`. It takes the `SearchCacheEntry` of an
earlier request with the same key from the search cache or creates one, registers
itself in `activeSearches` and loops: submit one call per indexer to a new
executor, wait for each future, add the answers, group the new results, merge the
caches into one list, save the history. Other threads meet it in few places: the
web UI's shortcut request (sets a flag, cancels futures), the shutdown (sets a
flag, closes executors, interrupts threads), the expiry of the two maps, and the
calls to the indexers themselves. An indexer's cache entry asks its
`MinAgeOffsetSearch` which offset to load next and tells it what the page held.

In the browser `SearchPage.submit` navigates to the URL of the search, sends it to
the server with an ID, and subscribes to the progress of that ID over the one
connection which the footer and the notifications use as well. Its answer goes to
`SearchResults`, which asks for more through `loadMore`: the offset it sends is
computed from the last answer, and the server reads it as a position in its merged
list. Giving up on a search, the page aborts it on the server by its ID, which is
`shortcutSearch` in `Searcher`.

### What is hard about it

* The decisions of one round depend on all earlier ones, also those of earlier
  requests; each loop has several ends. Wrong results show only for certain
  combinations of page sizes, rejected results, duplicates and limits.
* The caller's offset counts what it was given. It's only meaningful while the
  merged list keeps its order, and is used again after the cache lost the search.
* Indexers report wrong totals, return unsorted results, fail, time out, and get
  new results between two pages.
* The shortcut races with registering the search, with submitting and tracking its
  calls, and with the removal of the registration; registrations expire.
* The shutdown races with the opening of executors; an interrupted thread goes on.
* The configuration is one mutable object graph. Its parts are replaced without a
  lock while searches write the status of their indexers into it, requests change
  lists and maps in it, and a timer saves it. References to replaced objects live
  on in running calls, and their content in open configuration pages.
* Everything the search page waits for (the router, the answer, the subscription,
  Emby) may come after the user has gone on, and in any order. The closures that
  handle it see the state of the render which made them.
* A connection which is lost takes its subscriptions with it; the page that waits
  for one does not know how often it was lost.
* Filters, sort, grouping, pages and new results change what a row is while the
  selection, the expansion and the page number refer to the old ones.

`PROJECT.json` lists these hazards at their lines with the properties that cover
them, and says of the others why no property does.

## Modules

### `SearchPaging`: one search and its continuations

The state mirrors `SearchCacheEntry`: `queries`, `last` and `loaded` are the
`IndexerSearchResult`s of the `IndexerSearchCacheEntry`s (their number, the meta
data of the last, the items of all), `popped` their `poppedItems`, `merged` is
`searchResultItems`, `groupOf`, `nextGroup` and `represented` are
`DuplicateGroups`. `pc`, `request` and `round` are the running request and the
local variables of a pass of the loop. `shown`, `position` and `exhausted` belong
to the caller, `disturbed` and `rebuilt` record what it can't hold against the code.
`resorted` records that the sort before a page of an API search is cut out moved
something (see the findings): what then is repeated or lost is excepted by
`NothingReturnedTwice` and `NothingLost`. `Orderly` says of which indexers it never
is (newest first, nothing uploaded meanwhile, no wholly rejected page before others).

| Action | Code |
|---|---|
| `StartSearch`, `ContinueSearch`, `Expire` | `Searcher.getSearchCacheEntry`, the ExpiringMap, the first lines of `search` |
| `LoopStop`, `LoopShouldStop` | the conditions at the head of the loop |
| `QueryRound` | `getIndexersToSearch`, `queryIndexers`, `Newznab.completeIndexerSearchResult`, `addIndexerSearchResult` |
| `AddToGroups` | `DuplicateDetector.addToGroups`, one result per step |
| `MergeCachedResults`, `MergeDone` | a pass of the loop of `mergeCachedResults`, with `shouldBeAdded` |
| `EndRound`, `EndRoundFails` | `SearchPersister.persistNewIndexerSearchResults`, the circuit breaker and the end of a single round |
| `Respond` | the sort of an API search's results (`Ordered`), `spliceSearchResultItemsAccordingToOffsetAndLimit` |
| `Shortcut` | `shortcutSearch` between two rounds; a cancelled call is an outcome in `QueryRound` |
| `Upload` | the environment |

Data: a result is its rank by date, so "newest first" is `>`. Which results are
rejected and which are the same are relations of the world. `PageSize` is also the
size from which a page counts as full: the 100 of `checkForInvalidTotal`.
Indexers answer for the offset they were asked for. A round of
calls is one step, as their answers are only added by the search's own thread
afterwards; the races of the calls are in `ActiveSearches`. A result returned
again on a later page (after an upload) keeps its group.
One request runs at a time: that's how the web UI and an API client behave. Two
callers which share a cached search by the same key aren't modelled.

### `MinAgeOffsetSearch`: the bisection

State: the fields of the class, what the indexer's cache entry keeps (`kept`,
`executed`, `last`), and the indexer (`dates`, `total`). A result is numbered from
the oldest so that an upload moves its offset and not its number. The total may be
wrong, or not known (`totalKnown`), with which no bisection begins. `LoadPage` is one
query: `getNextOffset`, the page, then `FirstPageLoaded`, one of the five cases of
`probeLoaded`, or `NextPageLoaded`, and keeping or discarding the results.
`WillBeQueried` is what the search loop decides about one indexer: the caps
(probes don't count for the lower one), `isMoreResultsAvailable`,
`isLastSuccessful`, and the circuit breaker for an indexer which doesn't advance.

### `ActiveSearches`: several searches, shortcut and shutdown

One process per call of `Searcher.search`, one per call to an indexer. A
continuation is a search of its own with the same ID. `active` is the ExpiringMap
in order of access. The steps of `queryIndexers` between which another thread may
run are actions of their own: `BeginRound` (condition of the loop),
`OpenExecutor`, `Submit`, `Track` (add the future), `Check` (look at the flag),
`Await`, `EndRound`; `Shortcut` sets the flag and `CancelFutures` is its
synchronized block. `StopWebServer`, `RequestShutdown` and `CloseExecutors` are
the stages of a shutdown. Whether a loop ends for lack of results is left open
(`End` is possible in every pass), that is the subject of `SearchPaging`; futures
may be awaited in any order. That `onShutdown` waits for the monitor of the
list of executors isn't modelled; it makes fewer interleavings possible.

### `IndexerStatus`: disabling and enabling an indexer

`configs` are the `IndexerConfig` objects of one indexer: saving the configuration
makes a new one. `provided` and `instance` are the references of `ConfigProvider`
and of the `Indexer`, `call` the one a running call writes to, `page` the status an
open configuration page shows. `BeginCall` is `pickIndexers` with
`checkIndexerStatus`, which is done once for a search: a later round and a continuation
ask the same `Indexer` again (`ContinueCall`) unless its last answer was none.
`BeginVisit` is a call for an NFO or the details of a result, which looks at no state;
`VisitEnds` is `handleSuccess`, or an exception after which no status is written. A call
of a search ends in one of five ways: `CallSucceeds`, `CallFails`,
`CallAbandoned` (cancelled, or the program's own error), or with an answer which is
an error: then `ErrorAnswered` is `handleSuccess` in `getAndStoreResultToDatabase`
and `ErrorHandled` is `handleRssError` and `handleFailure` after it. `Cleanup` is
`IndexerStatusesCleanupTask`, `SaveConfig` with `Prepared` is `setConfig` with
`IndexerConfigValidator.prepareForSaving`, `LoadIndexers` gives the searches new
`Indexer`s.

The end of a disabling is not set, in the future or in the past; that it's later
for a higher level is what `DISABLE_PERIODS` adds. The fields of a status are
written in one step, and so are the clean up's check and its write. The user
saves one configuration after the other (`SaveConfig` waits for `LoadIndexers`).

### `ConfigPersistence`: the configuration in memory and in its file

A posted or loaded configuration is an object with a number. `bean` says to which
object each part of the `BaseConfig` bean belongs, `provided` is what
`ConfigProvider.getBaseConfig()` returns (the bean until the first change, then the
posted object), `instance` what the `Indexer` has. `page` is what an open page will
post back, `file` the file, `writing` what the holder of `saveLock` serialised.

| Action | Code |
|---|---|
| `OpenPage`, `PostConfig` | `ConfigWeb.getConfig`; `setConfig` until `replace`, with the generic storage kept by `prepareForSaving` |
| `ReplacePart`, `HandleNewConfig`, `LoadIndexers` | `BaseConfigHandler.replace` part by part, then the listeners of `ConfigChangedEvent` |
| `SaveInstantly`, `SavedInstantly`, `InstantSaveFails` | `save(true)`: lock and serialise; write, move and unlock; or all retries fail |
| `RequestSave` | `save(false)` |
| `SaveDelayed`, `SavedDelayed`, `DelayedSaveFails` | `saveToSave` of the timer, which dies of an exception |
| `PutKey`, `SaveSearch` | `GenericStorage`, `SavedSearchesWeb`: change in memory, then `save(true)` |
| `BeginCall`, `CallEnds` | a call writes its indexer's status and then calls `save(false)` |
| `ReloadConfig`, `Restart` | `load`; a kill or stop at any point and `init` |

Of the parts of the configuration four are modelled: `main` stands for all which
only the page changes. Serialising is one step: the file never has half of a
posted list, but it may have some parts of the old and some of the new
configuration. `ConfigProvider` handles the event before
`SearchModuleConfigProvider`, the order in which Spring finds the two beans.
`onShutdown` calls `saveToSave` as the timer does; in the model that's a tick right
before `Restart`. That `init` saves what it just loaded changes nothing here.
One administrator posts one configuration after the other.

### `LiveSubscription` and `LiveConnection`

`LiveSubscription` is what one caller of `subscribe` can rely on: a promise which is
resolved or rejected at most once, a handle which closes. It says nothing of other
callers. `LiveConnection` is the code: `Subscribe` is `subscribe` with `add`, `Close`
and `Remove` are `close` and `remove`, `Timeout` is the ready timeout, `OnConnect`,
`OnWebSocketClose` and `Fail` are the events of the STOMP client, with `Attach` for
`attach`. `broker` is what the server knows of this session: a socket which is
closed takes it away, and a client which is active connects again. `Fail` stands for
a STOMP error and for an error of the socket, before or after a connect. Its loop
over the subscribers, of whom each may remove itself, is one step: nothing else runs
in between, JavaScript has one thread. Messages are left out; they reach the caller
while `s \in broker`.

### `SearchPage`: one page and its searches

Every call of `submit` is a submission with a number; its steps are what lies
between two awaits: `Submit` (until the navigation), `NavigationEnds`,
`Answered` or `SearchFails`, `EmbyAnswered`. `cancelled` is the flag of its object,
`active` the one `activeSubmission` refers to, `inFlight` the ID the page would
abort, `aborted` the searches the server was told to abort. The subscription of a
submission is that of `LiveSubscription`, used as an instance, so that `SearchPage`
sees every order `LiveConnection` can produce, and no more.

| Action | Code |
|---|---|
| `UserSubmits`, `SubmitRoute` | the form or a repeated search; the effect of `AutoSubmitFromRoute` |
| `NavigationEnds`, `Answered`, `SearchFails` | the rest of `submit`, with its `finally` |
| `Subscribed`, `SubscribeFails`, `Progress` | the handlers of the subscription |
| `CancelSearch`, `LeaveSearch`, `PageHide` | `cancelSearch`, the effect of a route without a search, `pagehide` |
| `Unmount`, `ReleaseAfterUnmount` | the cleanup of the mount effect and the task it leaves |
| `Navigate`, `Render` | the browser and the router; the next render |

What a URL says and what was typed are values which need not determine each other:
`Canonical` gives the URL of a submission, `Resolved` reads a URL. That the user is
slower than a render and its effects (`Settled`) is assumed; answers, navigations and
subscriptions may be slower than the user. The warning about missing progress, early
results, refilling the form and saving a search are left out. `loadMore` runs
only while no submission does and belongs to `SearchResults`.

### `SearchResults`: what is done with an answer

`data` is the merged answer, `filters`, `choices`, `requestedPage`,
`overrides`, `expandedDuplicates` and `selected` are the state of the components,
`groups` the memoized pipeline `FilterResults`, `Sorted`, `GroupResults` (`Grouped`). All
its sorts are the stable sort of JavaScript, `StableSort`: an element's place is the
number of elements which do not come after it. A result is in a group, there in a bucket
and in this at a place (`Places`); the page (`PageOf`), the visible rows (`VisibleOn`) and
their order (`NotBelow`) are said of these places. A step of
the user includes the renders it causes: the reset of the page, the clamp of the
page, the effect which prunes the selection (`Rendered`).
`Continue` and `Answered` are `requestContinuation` and `loadMore`. `Answers` and
`Continuations` are what `Searcher` can answer: any number of further results in the
order they were merged, each answer sorted by date (`NewestFirst`), all from the start
for "Load all results", and for indexers which do not count (`counted`) the number found
as the number available. Rejected results count as available and processed. The list the
server merges for the web UI only grows at its end (`MergeCachedResults` in
`SearchPaging`). A change of filters, sort, grouping or hidden results asks for the
first page (`PageAfterReset`); if the list gets too short for the page on screen, the same
render asks for its last page afterwards, and that one stays, unlike the comment at
`SearchResults.tsx:553` says. `Send` deselects what was sent, on whatever page it is.

Results are abstract: their title and hash are classes, their columns numbers. Of
the filters the one by indexer and the one of downloaded results are kept; all are
predicates on a single result. The order in which results were selected, which
decides the order of a bulk send, is left out, as are hidden columns and the
virtualised rows. An answer with which nothing was accepted cannot be continued
(`PagingAvailable`).

### MC modules and proofs

The `MC` module of each model holds the instances. `ActiveSearches_proofs`,
`MinAgeOffsetSearch_proofs`, `SearchPaging_proofs`, `IndexerStatus_proofs`,
`LiveConnection_proofs`, `SearchPage_proofs`, `ConfigPersistence_proofs` and
`SearchResults_proofs` hold the theorems. In `SearchPaging`, `ConfigPersistence`, `LiveConnection`, `SearchPage` and
`SearchResults` the type invariant is a conjunct of another invariant (of
`NothingReturnedTwice`, `ReferencesAgree`, `OnlyAliveServed`, `OnlyCurrentShown` and
`NothingUnreachable`).

Definitions commented "Mutant" are plausible mistakes in the code; for each
property of a run one of them is known to violate it (`PROJECT.json`, `mutants`).

## Runs

| Run | What it shows | Bounds and why they are enough |
|---|---|---|
| `paging` | A client which pages through an API search gets every result or a duplicate of it, one per group, none twice, unless the sort before a page was cut out moved something (`resorted`), and merged newest first if the indexers are `Orderly`; the web UI gets everything retrieved, once, at stable offsets, with load more, load all, shortcuts and uploads; every request ends | Two indexers with pages of two and one results and three pages and more; for the API nine sets of rejected results, with two of which an indexer has wholly rejected pages, and four relations of duplicates (none, the better one older, a chain which is not transitive, two groups), for the web UI three worlds with up to two uploads; one indexer reports too much; one failing query, one failing save, the cache may be lost any time. Two indexers suffice for every comparison the merge makes; three pages are needed for "first", "middle" and "last"; the query caps and the limit of results are reached |
| `min_age` | Nothing old enough is jumped over, results kept are contiguous, the bisection ends | Every sequence of up to five dates out of four, sorted or not, with right, wrong and unknown totals, an upload and a failure; sorted ones of up to 14 results (seven pages) for several probes |
| `shortcut` | No shortcut is lost as long as registrations don't expire; no call escapes; no other search is cut | A search, its continuation with the same ID and another search; the registry holds all IDs; one failing save leaves a stale registration |
| `shutdown` | Every search ends when the application stops, whatever the stop meets it doing | Two searches with the same ID, two indexers so that calls are submitted before and after the executor is closed; registrations may expire |
| `indexer_status` | What the user disabled stays disabled, whatever running searches, their later rounds and the clean up do, and only the success of a call for an NFO or details enables it; a temporary disabling ends | Two parallel calls with all outcomes, each of a search with further rounds or for an NFO, two objects (one replaced while calls run), levels up to two, pages of any age. A second replacement would only repeat the first: calls refer to an old or a current object |
| `status_level` | *Violation.* An indexer which answers with errors gets its level reset by each of them: `LevelCountsErrors` fails | One call after the other, one object |
| `config_saved` | A configuration answered with success is never undone, what was put in the generic storage stays, no change falls between instant and delayed saves, after a change all references agree; a delayed save happens | Three configurations, the first one counted: two posted ones, or a posted one and a reload or restart in either order; one writer of the storage, one saved search, one indexer, one failing write. Each pair of them meets in every order |
| `config_page` | *Violation.* A search saved while a page is open is undone when the page is saved: `SavedSearchesKept` fails | One page, one search |
| `live_connection` | While the connection is open everyone on it is served in its session, the server serves nobody else, each caller sees what `LiveSubscription` promises, and who subscribes is served in the end | Three callers (two stay, one comes and goes), five subscriptions, three failures: enough to lose a connection while one waits, one is served and one has just gone |
| `search_page` | The page shows the last search only, that of its URL; a search given up is aborted; no subscription is leaked; the dialog closes | Two acts of the user beside opening a URL, and up to six submissions, all that these can cause; one failure; two ways to type the same search, a URL without a search and a repeated search whose URL is not its own. Two acts suffice for one search to be replaced, cancelled or left while another is anywhere in its steps. The limit of remembered routes (20 in the code) is not reached |
| `results_table` | Every result which passes the filters can be reached, the selection passes the filters, nothing but a send acts on another page, what is loaded has no gap | Four results of two indexers, merged in an order which is not that of their dates, and a rejected one: a title with two releases, one of them with a duplicate, and another title; one of them downloaded, one group per page; every stored choice; four acts of the user, answers at any time, one failure |
| `load_all` | *Violation.* "Load all results" is refused when the indexers do not count: `LoadAllTaken` fails | As `results_table` with two acts |

Deadlock is not checked: in all these models the callers may stop for good.

### Findings

* `load_all`: an indexer which does not count its results (DogNzb) reports as total
  what it returned, and that there is more. Then as many results were processed as
  are available, and "Load all results" asks for 0 more at the offset behind them. The
  server answers with all results it has, and with that offset and limit; the page
  takes it for an answer that did not advance, drops it and ends paging.
* `status_level`: the comment in `IndexerStatusesCleanupTask` keeps the level so that
  the next error disables the indexer for longer. For an indexer which can't be
  reached that's so. One which answers with a newznab error gets `handleSuccess`
  first, since the base class doesn't look at the answer: level 0, then 1, always
  the shortest period.
* `config_page`: the changelog says that saving the config no longer undoes changes
  stored in the meantime. That's so for the generic storage (`StorageKept`), but
  saved searches are part of the searching configuration, which the page posts
  back as it loaded it.

Three more disagreements are described with the hazards in `PROJECT.json`. A registration in `activeSearches` expires after five
minutes, so that a shortcut can be lost, unlike the comment in `Searcher.search`
says: with `MayExpire` the run `shortcut` fails. And an indexer whose whole page was
rejected does not stop `mergeCachedResults`, unlike its javadoc says, so that newer
results of it are merged after older ones of others; `MergedNewestFirst` has `Orderly` as
its premise. As an API search's results are sorted before a page is cut out of them, such a
result moves before the offset the client has reached: it is never returned, and another
one twice, although `changelog.yaml:272` says that pages stay consistent. In the worlds of
`paging` where 3 and 6 are rejected a client with pages of two gets 7, 5, 4, 1, 1 and never
2: without the premise `~ resorted` the run finds `NothingReturnedTwice` and `NothingLost`
violated. At last, the comment in `Indexer.handleSuccess` says that an indexer the user
disabled wouldn't have been called. That's so for searches; a call for an NFO or details
looks at no state, and its success enables the indexer (`UserDisabledStays` excepts it).

In `SearchPage` a search submitted by hand is submitted again by the effect
`AutoSubmitFromRoute`, whose comment says it would recognise it; since the first
submission is given up for the second, what the user sees is right.

Three things the models show and no document promises otherwise: a failure of a call
whose configuration was replaced meanwhile is forgotten; a permanently disabled
indexer is enabled by a parallel call which succeeds; and after one delayed save
which failed the timer is dead, so that no delayed save happens until a restart
(`DelayedSaveHappens` excuses it).

## Fairness

* The thread of a search takes its next step (`WF` of `SearchStep`). All its waits
  are for calls to indexers, which have a timeout (`WF` of `CallEnds`). The
  choice of what the step is stays open.
* The request which cuts a search short gets its lock (`WF` of `CancelFutures`);
  no holder of it waits while it has it.
* An application which began to stop goes on stopping (`WF` of `RequestShutdown`,
  `CloseExecutors`). It need never begin.
* `IndexerStatus`: time passes, calls end because they have a timeout, and the event
  of a changed configuration is handled. The clean up needs no fairness: an indexer
  whose time is over can be called without it.
* `ConfigPersistence`: a write succeeds or fails (`WF`), and the timer, which ticks
  every ten seconds and waits for the lock, gets it at some time though others may
  have it at a tick (`SF` of `SaveDelayed`).
* `LiveConnection`: an active client tries to connect every second (`WF` of
  `OnConnect`), a socket which failed is closed, and timers fire. The network need
  not hold, but in a run it fails finitely often.
* `SearchPage`: the browser runs what is due, and a search is answered or fails,
  since its calls have timeouts (`WF` of `Page`). Nothing is assumed of the user, of
  the progress or of its subscription: the dialog closes without them.
* `SearchResults` states safety only.
* No fairness for callers, uploads, failures, shortcuts and the expiry of maps.

In `shutdown` a search ends because its queries are used up (`MaxQueries`, the
code's cap per indexer), or, if it was interrupted and its rounds add nothing,
because the shutdown continues: `EverySearchEnds` needs the fairness of both.

## Proofs

All theorems hold for every value of the constants which satisfies the ASSUMEs of
the component's module. They are proved from nothing by `tlapm` (SMT, Zenon, PTL).

`ActiveSearches_proofs`

* `Typing`: `Spec => []TypeOK`.
* `NoCallEscapes`: `Spec => []EveryCallCancelled`. The property says nothing about
  a search which is still submitting. The invariant `CallsTracked` adds why
  nothing escapes: a running call is in `futures` or is the one just submitted
  (`RunningIsTracked`); if the flag was set and the cancelling is over, a running
  call can only be the one which is about to be tracked or checked
  (`EscapedIsBeingChecked`); and a call is only cancelled if the flag is set
  (`CancelledOnlyIfFlagged`).
* `NoOtherSearchCut`: `Spec => []OnlyRequestedCut`. `FlaggedWereRequested`
  strengthens it: a flagged search which was still running then was requested, and
  a search in the registry has begun.
* `NoShortcutLost`: `Spec => []NoRoundAfterShortcut`, assuming what the instance
  assumes: registrations don't expire, a caller waits before it searches again, and
  the registry holds as many as there are IDs. The invariant (`NoneLost`) says that
  every running search is registered, under an ID no other registration has, and
  that a requested shortcut has reached the search. That a full registry drops
  nothing which runs is a matter of counting IDs (`PutExact`).

`MinAgeOffsetSearch_proofs`

* `Typing`: `Spec => []TypeOK`.
* `NothingJumpedOver`: `Spec => []LowerBoundCorrect`, for indexers of any size,
  with uploads at any time.
* `NothingKeptOutOfOrder`: `Spec => []KeptContiguous`.
  The inductive invariant adds that the state agrees with the number of queries
  (`StateAgrees`) and that everything old enough before the end of the last page
  was kept while pages are loaded in order (`LoadedInOrder`). Both properties are
  proved together because a page is kept at the lower bound.
* `NothingOldLeft`: `Spec => []NothingOldSkipped`. On top of that invariant: while
  the bisection goes on it never asks again for the page it just loaded, at which
  the circuit breaker would give it up (`NotStalled`), and once the last or an empty
  page came, everything old enough was kept (`NothingLeft`).

`SearchPaging_proofs`

* `NothingMergedTwice`: `Spec => []MergedOnce`; `OneOfEveryGroup`:
  `Spec => []EveryGroupOnce`. They hold for any catalogues, page sizes and pairs of duplicates, with uploads in between.
  `EveryGroupOnce` is not inductive: the invariant adds that whatever waits or was
  popped outside of the grouping has a group (`Grouped`; without it two results
  without one could be taken for members of the same) and that the groups flagged
  as represented are those of the merged results (`RepresentedMerged`). When a
  result is removed, either its group is represented or a better one of it waits,
  which is also a reason for those removed before on account of this one
  (`MergeKeeps`). That a newest result of each cache exists (`Newest`) is shown by
  well-founded descent over the sizes of sets.
* `NewestFirstOverall`: `Spec => []MergedNewestFirst`, whose premise is that the
  indexers are `Orderly`. The invariant `OrderInv` says
  what the order rests on: indexers are asked for whole pages (`AtPage`), what was
  popped is newer than all that waits or may still come (`NewestPopped`), and while
  results are merged no cache is empty of whose indexer something may come (`NoneDry`).
* `NeverResorted`: the sort before a page is cut out moves nothing for the web UI, nor for
  orderly indexers (`NextOrderly`: they stay so). This tells for whom the exception of the
  next property and of `NothingLost` never applies.
* `PagesDoNotOverlap`: `Spec => []NothingReturnedTwice`. The hard part
  is a search which is evicted and done again for a continuation. As long as nothing
  fails its steps are determined: `After(w, e)` is the entry which follows `e`, and
  `Reach(w, e)` says that the empty entry leads to `e` (`LoopDetermined`,
  `GroupDetermined`, `MergeDetermined`). Of two such entries one has merged a
  beginning of what the other has (`Comparable`), so what the caller was given
  agrees with what is merged now (`ShownAgrees`, `CallerInv`). The continuation has another
  cap on queries than the first request, so it has to be shown that no cap leaves
  out one indexer and asks another: a web UI's indexers are asked in step, but for
  those which have no more (`Lockstep`, `AllAreAsked`).
* `AllIsShown`: `Spec => []NothingHeldBack`, without a condition: a round of a web UI's search
  leaves nothing in the caches (`AllMerged`), and its answer is all behind the offset.
* `EverythingIsFound`: `Spec => []NothingLost`, with a limit above 0 (with
  0 a caller gets nothing from the start). `LossInv` adds that everything up to the
  next offset was loaded or rejected, and an indexer without more was asked for all
  (`LoadedSoFar`); that a round without new results, merged or removed ones proves
  that all who were asked have nothing more and no cache has anything
  (`FruitlessRound`); and that the loop ends with enough for a page or with
  everything loaded and merged (`LoopEnded`). A result which was left out for another
  of its group is covered by `EveryGroupOnce`.
* `Typed`: `Spec => []TypeOK`. `Sorted` and `UnseenResults` show that a stable sort by
  counting and the results not seen yet are lists of the same results: in a finite set
  with a total order the ranks are 1 to its size (`Ranks`).
  All of these but the first two rest on `SearchInv`, which a single induction keeps
  (`SearchInvariant`).

`IndexerStatus_proofs`

* `Typing`: `Spec => []TypeOK`.
* `UserDecides`: `Spec => UserDisabledStays`, an action property. It needs that no
  search writes to an object the user disabled (`NoCallToUserDisabled`: he
  disables by saving a new one, which no search has, and it isn't selectable; a later
  round keeps the object of the first) and that
  no time ends for it (`UserDisabledForGood`).

`LiveConnection_proofs`

* `AllServed`: `Spec => []OpenMeansServed`; `NoOneElseServed`: `Spec => []OnlyAliveServed`.
  The inductive invariant `IInv` adds to both what ties the code's bookkeeping
  together: who is in `subscribers` is who waits or is served, a client exists
  exactly while there are any, an open connection has a socket, everyone on it is
  subscribed in its session, and the server knows only open ones.
* `Implements`: `Spec => Promise!Spec`. Every step of the connection is, for the
  callers, a step of `LiveSubscription` or none: a connect is `Resolve`, an error is
  `Reject`, whatever the number of callers.

`SearchPage_proofs`

* `LastShown`: `Spec => []OnlyCurrentShown`; `NothingRunsOn`:
  `Spec => []AbandonedAborted`; `NothingLeaked`: `Spec => []NoSubscriptionLeaked`,
  for any number of submissions, values and routes. They rest on what no line of the
  code says (`Bookkeeping`): there is at most one submission which isn't cancelled, it
  is the last, and `activeSubmission` refers to it. Whatever settles late finds itself
  active or cancelled. `ReleaseKeepsBooks` and `SubmitInvariant` show that
  `releaseSubmission` and `submit` keep this.
* `UrlShown`: `Spec => []ResultsMatchRoute`. What is shown or waited for was
  submitted by the effect of the route (`submittedCriteria`) or is remembered for
  the URL it navigates to, which `RememberedIsRead` shows to be read back however
  full the map is; a URL without a search shows nothing once its effects have run
  (`InUrl`). It is kept because the user moves on only from a rendered route whose
  effects have run (`Settled`), an assumption about his speed.

`ConfigPersistence_proofs`

* `NothingUndone`: `Spec => []SettingsDurable`. What was answered with success is in
  the file, in memory, in the object a change comes from, and in what the holder of
  the lock writes (`SettingsInv`); the admin's own write has what was posted, because
  a change has replaced all parts before it gets to saving (`ChangeInOrder`).
* `KeysStay`: `Spec => []StorageKept`. The map of the generic storage is the same for
  the bean, `ConfigProvider` and the posted object (`SameMap`), so that no change of
  the references loses a key.
* `NothingForgotten`: `Spec => []NothingUnsaved`. What is not in the file is being
  written, or somebody is about to save, or `toSave` is set (`Tracked`); as `save(false)`
  waits for the lock, a write which began before cannot clear it.
* `PartsAgree`: `Spec => []ReferencesAgree`, with type correctness.
  All four use that exactly the holder of the lock is writing (`LockHeld`) and that
  threads of different kinds are different (`ThreadsAssumption`).

`SearchResults_proofs`

* `AllReachable`: `Spec => []NothingUnreachable`, with type correctness. `StableSorted`
  shows that a stable sort lists a set completely, once and in order. A result
  determines its bucket and its group (`BucketOfEach`, `GroupOfEach`), so that groups
  with the same leading result are the same and sorting them loses none
  (`GroupsArranged`). `PageCounted` is the arithmetic of pages: every group is on a page
  that exists, and every page has a group. The inductive invariant `IInv` says that the
  groups which were kept are those of what there is now (`RowsCurrent`: only what
  does not rearrange leaves them as they are) and that the page on screen exists.
* `SelectionIsFiltered`: `Spec => []SelectionPassesFilters`; `OnlyThisPage`:
  `Spec => OtherPagesKept`, an action property. What is visible is on the page, and what is
  on the page passes the filters (`ShownPass`), because of `RowsCurrent`. What leaves the
  selection elsewhere no longer passes the filters or was sent.
* `LoadedIsPrefix`: `Spec => []LoadedWithoutGap`. Merging reduces an answer to what
  follows the results there are, in the order of the answer (`AdditionLists`), also one
  that starts from the beginning (`Merging`). An answer sorted by date has each of its
  results once (`AnswerLists`), and what is added was not there (`Continued`). It needs that nothing is loaded once paging has ended
  (`CursorCurrent`).

Every safety property a passing run checks is proved. Only model-checked is
all liveness (`EveryRequestEnds`, `FirstOldEnoughDecided`, `EverySearchEnds`,
`TemporaryDisableEnds`, `DelayedSaveHappens`, `EveryoneServed`, `DialogCloses`), since
temporal induction over fairness is out of the prover's reach.

## Not modelled

The browser's code is large (about 300 files); these models have its search: what
is concurrent in it, and the pipeline of its results. Its other pages are forms over
one value and tables over one query. Generated code (`api/generated`) is types only.

On the server these are left out, with the reason in `PROJECT.json`: selecting the
indexers, instances, progress, downloads and their status, the disk cache, and
everything which is I/O or conversion. Structures shared by threads without a lock
(the lists of a `SearchCacheEntry` under two requests, the map of indexers) have no
outcome the Java language defines, which is why no model follows them; they are
listed as hazards.

What could follow: `DownloadStatus` (queue and history checks, their flags and the
event of a new download, a status which only moves forward); an abstract
configuration store which `ConfigPersistence` implements.
