----------------------------- MODULE SearchPaging -----------------------------
(***************************************************************************)
(* One search as its caller sees it: a first request and the continuations *)
(* ("load more" of the web UI, the next offset of an API client) which     *)
(* share a SearchCacheEntry.                                               *)
(*                                                                         *)
(* Searcher.search loops over rounds: query every indexer whose cache ran  *)
(* dry, group the new results, merge the caches newest first, persist,     *)
(* decide whether to go on. Afterwards it cuts the requested page out of   *)
(* the merged results.                                                     *)
(*                                                                         *)
(* Data: a result is a natural number, its rank by date (a larger number   *)
(* is newer), so NEWEST_FIRST is ">". What an indexer holds is a sequence  *)
(* of results; which results may be uploaded meanwhile, which the result   *)
(* acceptor rejects and which pairs DuplicateDetector.testForSameness      *)
(* calls the same is part of the world.                                    *)
(* Minimum age searches are modelled in MinAgeOffsetSearch.                *)
(***************************************************************************)
EXTENDS Integers, Sequences, FiniteSets, TLC

CONSTANTS
    Indexers,          \* the indexers picked for the search
    Items,             \* results, identified with their rank by date
    Owner,             \* the indexer a result comes from
    Score,             \* the score the user gave each indexer
    PageSize,          \* results per page of each indexer
    Liars,             \* indexers whose reported total is too large
    Worlds,            \* who searches and what the indexers hold, see World
    Limit,             \* SearchRequest.limit
    MaxQueries,        \* SearchCacheEntry.MAX_QUERIES_UNTIL_BREAK
    MaxQueriesLoadAll, \* SearchCacheEntry.MAX_QUERIES_UNTIL_BREAK_LOAD_ALL
    MaxResultsLoadAll, \* Searcher.maxResultsLoadAll
    MaxFailures,       \* bound: queries which fail
    MaxDbErrors,       \* bound: failing saves of the search history
    MaxRequests        \* bound: requests of the caller

InSeq(s) == {s[k] : k \in DOMAIN s}

World == [source    : {"API", "INTERNAL"},
          catalogue : [Indexers -> Seq(Items)],
          uploads   : SUBSET Items,
          rejected  : SUBSET Items,
          same      : SUBSET (Items \X Items)]

ASSUME ItemsAssumption == /\ Items \subseteq Nat
                          /\ IsFiniteSet(Items) /\ IsFiniteSet(Indexers)
                          /\ Owner \in [Items -> Indexers]
                          /\ Score \in [Indexers -> Nat]
                          /\ PageSize \in [Indexers -> Nat \ {0}]
ASSUME WorldsAssumption ==
    /\ Worlds \subseteq World
    /\ \A w \in Worlds : \A i \in Indexers : \A x \in InSeq(w.catalogue[i]) : Owner[x] = i
ASSUME BoundsAssumption == /\ {Limit, MaxQueries, MaxQueriesLoadAll} \subseteq Nat
                           /\ MaxResultsLoadAll \in Nat
                           /\ {MaxFailures, MaxDbErrors, MaxRequests} \subseteq Nat
                           /\ MaxQueries <= MaxQueriesLoadAll

VARIABLES
    world,        \* who searches and what the indexers hold right now
    \* SearchCacheEntry
    inCache,      \* whether searchRequestCache still has the entry
    queries,      \* per indexer: number of IndexerSearchResults
    last,         \* per indexer: the last IndexerSearchResult
    loaded,       \* accepted results of all IndexerSearchResults
    popped,       \* IndexerSearchCacheEntry.poppedItems of all indexers
    merged,       \* SearchCacheEntry.searchResultItems
    removed,      \* results counted by numberOfRemovedDuplicates
    groupOf,      \* duplicate group of a result, 0 if it has none (yet)
    nextGroup,    \* DuplicateGroups.nextIdentifier
    represented,  \* groups with DuplicateGroup.represented set
    persisted,    \* per indexer: persistedResultCount
    \* the running request
    pc,
    request,      \* offset and loadAll
    shortcut,     \* ActiveSearch.shortcutRequested
    round,        \* local variables of one pass of the loop
    \* the caller
    shown,        \* results returned so far, in the order they were returned
    position,     \* offset of the next continuation
    exhausted,    \* the caller got nothing and stops
    \* history
    disturbed,    \* an answer of an indexer was lost or changed meanwhile
    rebuilt,      \* the entry was evicted and built again for a continuation
    resorted,     \* the sort before a page was cut out changed the merged order
    requests, failures, dbErrors

entryVars   == <<inCache, queries, last, loaded, popped, merged, removed,
                 groupOf, nextGroup, represented, persisted>>
requestVars == <<request, shortcut, round>>
callerVars  == <<shown, position, exhausted>>
historyVars == <<disturbed, rebuilt, resorted, requests, failures, dbErrors>>
vars == <<world, entryVars, pc, requestVars, callerVars, historyVars>>

-----------------------------------------------------------------------------
(* The search and the indexers                                             *)

\* SearchRequest.source
Source == world.source

Catalogue(i) == world.catalogue[i]

\* The results an indexer returns for an offset, before any are rejected.
PageAt(i, offset) ==
    LET end == offset + PageSize[i]
    IN  SubSeq(Catalogue(i), offset + 1,
               IF end > Len(Catalogue(i)) THEN Len(Catalogue(i)) ELSE end)

\* An IndexerSearchResult without its items.
SearchResultMeta == [offset : Nat, size : Nat, ok : BOOLEAN, more : BOOLEAN]

\* A page which is too small for the reported total is taken for all there is
\* (checkForInvalidTotal), but only if it's the first. PageSize stands for the 100
\* results with which a page is large enough.
PageResult(i, offset) ==
    LET size == Len(PageAt(i, offset))
    IN  [offset |-> offset,
         size   |-> size,
         ok     |-> TRUE,
         more   |-> /\ i \in Liars \/ offset + size < Len(Catalogue(i))
                    /\ ~ (offset = 0 /\ size < PageSize[i])]

FailedResult == [offset |-> 0, size |-> 0, ok |-> FALSE, more |-> FALSE]

-----------------------------------------------------------------------------
(* IndexerSearchCacheEntry                                                 *)

\* Mutant: the rebuilt list is served from its start again.
CachedFromStart(i) == {x \in loaded : Owner[x] = i}

Cached(i) == {x \in loaded \ popped : Owner[x] = i}

IsMoreResultsInCache(i) == Cached(i) # {}

IsMoreResultsAvailable(i) == queries[i] = 0 \/ last[i].more

IsLastSuccessful(i) == queries[i] = 0 \/ last[i].ok

\* Mutant: the page after the next result.
GetNextOffsetTooFar(i) == IF queries[i] = 0 THEN 0 ELSE last[i].offset + last[i].size + 1

GetNextOffset(i) == IF queries[i] = 0 THEN 0 ELSE last[i].offset + last[i].size

\* The entry's cached results are those loaded without those popped; the next
\* one to be popped is the newest of them.
Peek(i) == CHOOSE x \in Cached(i) : \A y \in Cached(i) : x >= y

-----------------------------------------------------------------------------
(* SearchCacheEntry                                                        *)

UsesLoadAllQueryCap == request.loadAll \/ (Source = "INTERNAL" /\ request.offset > 0)

QueryCap == IF UsesLoadAllQueryCap THEN MaxQueriesLoadAll ELSE MaxQueries

GetIndexersToSearch ==
    {i \in Indexers : /\ queries[i] < QueryCap
                      /\ queries[i] < MaxQueriesLoadAll
                      /\ \/ queries[i] = 0
                         \/ /\ IsMoreResultsAvailable(i)
                            /\ IsLastSuccessful(i)
                            /\ ~ IsMoreResultsInCache(i)}

GetIndexersWithCachedResults == {i \in Indexers : IsMoreResultsInCache(i)}

\* BEST_DUPLICATE_FIRST: the higher indexer score, then the newer result.
BetterDuplicate(x, y) ==
    \/ Score[Owner[x]] > Score[Owner[y]]
    \/ Score[Owner[x]] = Score[Owner[y]] /\ x > y

GroupMembers(g) == {x \in Items : groupOf[x] = g}

\* Mutant: a better member of the group may be added later nevertheless.
ShouldBeAddedAgain(x) ==
    \/ groupOf[x] = 0
    \/ \A y \in GroupMembers(groupOf[x]) \ {x} : y \in popped \/ BetterDuplicate(x, y)

ShouldBeAdded(x) ==
    \/ groupOf[x] = 0
    \/ /\ groupOf[x] \notin represented
       /\ \A y \in GroupMembers(groupOf[x]) \ {x} :
              y \in popped \/ BetterDuplicate(x, y)

-----------------------------------------------------------------------------
(* Searcher.getSearchCacheEntry                                            *)

NoRound == [fresh |-> {}, gotItems |-> FALSE, merged |-> 0, removed |-> 0, advanced |-> TRUE]

NewEntry ==
    /\ inCache' = TRUE
    /\ queries' = [i \in Indexers |-> 0]
    /\ last' = [i \in Indexers |-> FailedResult]
    /\ loaded' = {}
    /\ popped' = {}
    /\ merged' = <<>>
    /\ removed' = {}
    /\ groupOf' = [x \in Items |-> 0]
    /\ nextGroup' = 1
    /\ represented' = {}
    /\ persisted' = [i \in Indexers |-> 0]

BeginRequest(offset, loadAll) ==
    /\ requests < MaxRequests
    /\ requests' = requests + 1
    /\ request' = [offset |-> offset, loadAll |-> loadAll]
    /\ shortcut' = FALSE
    /\ round' = NoRound
    /\ pc' = "loop"

\* Offset 0 always starts a new search, even if the cache has an entry for it.
StartSearch ==
    /\ pc = "idle"
    /\ BeginRequest(0, FALSE)
    /\ NewEntry
    /\ shown' = <<>>
    /\ position' = 0
    /\ exhausted' = FALSE
    /\ disturbed' = FALSE
    /\ rebuilt' = FALSE
    /\ resorted' = FALSE
    /\ UNCHANGED <<world, failures, dbErrors>>

\* A caller continues behind what it was given, and no more after it was given
\* nothing or asked for everything. Only the web UI asks for everything. If the
\* entry is not cached anymore the search is done again from the start.
ContinueSearch(loadAll) ==
    /\ pc = "idle"
    /\ position > 0
    /\ ~ exhausted
    /\ loadAll => Source = "INTERNAL"
    /\ BeginRequest(position, loadAll)
    /\ IF inCache THEN UNCHANGED <<entryVars, rebuilt>>
                  ELSE NewEntry /\ rebuilt' = TRUE
    /\ UNCHANGED <<world, callerVars, disturbed, resorted, failures, dbErrors>>

\* The ExpiringMap drops the entry: five minutes without an access or more than
\* 20 newer searches. A running search keeps its reference, so dropping the entry
\* while it runs has the same effect as dropping it afterwards.
Expire ==
    /\ pc = "idle"
    /\ inCache
    /\ inCache' = FALSE
    /\ UNCHANGED <<world, queries, last, loaded, popped, merged, removed, groupOf,
                   nextGroup, represented, persisted, pc, requestVars, callerVars, historyVars>>

\* Somebody uploads a result, everything the indexer has moves back by one.
Upload(i) ==
    /\ \E x \in world.uploads :
          /\ Owner[x] = i
          /\ \A j \in Indexers : x \notin InSeq(Catalogue(j))
          /\ \A y \in InSeq(Catalogue(i)) : x > y
          /\ world' = [world EXCEPT !.catalogue[i] = <<x>> \o @]
    /\ disturbed' = TRUE
    /\ UNCHANGED <<entryVars, pc, requestVars, callerVars, rebuilt, resorted, requests, failures, dbErrors>>

-----------------------------------------------------------------------------
(* Searcher.search                                                         *)

SingleRound == Source = "INTERNAL" /\ request.offset = 0 /\ ~ request.loadAll

\* Mutant: only enough results end the loop.
LoopShouldStopWithEnough ==
    \/ shortcut
    \/ Len(merged) >= request.offset + Limit /\ ~ request.loadAll
    \/ UsesLoadAllQueryCap /\ Len(merged) >= MaxResultsLoadAll

LoopShouldStop ==
    \/ shortcut
    \/ GetIndexersToSearch = {} /\ GetIndexersWithCachedResults = {}
    \/ Len(merged) >= request.offset + Limit /\ ~ request.loadAll
    \/ UsesLoadAllQueryCap /\ Len(merged) >= MaxResultsLoadAll

LoopStop ==
    /\ pc = "loop"
    /\ LoopShouldStop
    /\ pc' = "respond"
    /\ UNCHANGED <<world, entryVars, requestVars, callerVars, historyVars>>

\* shortcutSearch, here between two rounds; calls it cancels are in QueryRound.
Shortcut ==
    /\ Source = "INTERNAL"
    /\ pc = "loop"
    /\ ~ shortcut
    /\ shortcut' = TRUE
    /\ UNCHANGED <<world, entryVars, pc, request, round, callerVars, historyVars>>

\* queryIndexers: all indexers are asked in parallel and their answers are added
\* one after the other, so a round is one step. A cancelled call adds no result.
Accepted(i) == InSeq(PageAt(i, GetNextOffset(i))) \ world.rejected

QueryRound(outcome) ==
    LET asked     == GetIndexersToSearch
        ok        == {i \in asked : outcome[i] = "ok"}
        cancelled == {i \in asked : outcome[i] = "cancelled"}
        items     == UNION {Accepted(i) : i \in ok}
    IN  /\ pc = "loop"
        /\ ~ LoopShouldStop
        /\ cancelled # {} => Source = "INTERNAL"
        /\ failures + Cardinality(asked \ ok) <= MaxFailures
        /\ queries' = [i \in Indexers |-> IF i \in asked \ cancelled THEN queries[i] + 1 ELSE queries[i]]
        /\ last' = [i \in Indexers |->
                      IF i \in ok THEN PageResult(i, GetNextOffset(i))
                      ELSE IF i \in asked \ cancelled THEN FailedResult
                      ELSE last[i]]
        /\ loaded' = loaded \cup items
        /\ round' = [fresh    |-> {x \in items : groupOf[x] = 0},
                     gotItems |-> items # {},
                     merged   |-> Len(merged),
                     removed  |-> Cardinality(removed),
                     advanced |-> asked = {} \/ \E i \in asked : ~ (queries'[i] > 0 /\ last'[i].size = 0)]
        /\ shortcut' = (shortcut \/ cancelled # {})
        /\ failures' = failures + Cardinality(asked \ ok)
        /\ disturbed' = (disturbed \/ ok # asked)
        /\ pc' = "group"
        /\ UNCHANGED <<world, inCache, popped, merged, removed, groupOf, nextGroup, represented,
                       persisted, request, callerVars, rebuilt, resorted, requests, dbErrors>>

\* DuplicateDetector.addToGroups, one new result after the other, newest first.
\* A result joins the oldest group which has a result it's the same as and none
\* of its own indexer. Groups are numbered from 1, so that 0 can mean none. A result
\* which was loaded again keeps its group (only uploads move results to a later page).
MatchingGroups(x) ==
    {g \in 1..(nextGroup - 1) :
        /\ \A y \in GroupMembers(g) : Owner[y] # Owner[x]
        /\ \E y \in GroupMembers(g) : <<x, y>> \in world.same \/ <<y, x>> \in world.same}

AddToGroups ==
    /\ pc = "group"
    /\ \E x \in round.fresh :
          /\ \A y \in round.fresh : x >= y
          /\ round' = [round EXCEPT !.fresh = @ \ {x}]
          /\ IF MatchingGroups(x) = {}
             THEN /\ groupOf' = [groupOf EXCEPT ![x] = nextGroup]
                  /\ nextGroup' = nextGroup + 1
             ELSE \E g \in MatchingGroups(x) :
                  /\ \A h \in MatchingGroups(x) : g <= h
                  /\ groupOf' = [groupOf EXCEPT ![x] = g]
                  /\ UNCHANGED nextGroup
    /\ UNCHANGED <<world, inCache, queries, last, loaded, popped, merged, removed, represented,
                   persisted, pc, request, shortcut, callerVars, historyVars>>

AddToGroupsDone ==
    /\ pc = "group"
    /\ round.fresh = {}
    /\ pc' = "merge"
    /\ UNCHANGED <<world, entryVars, requestVars, callerVars, historyVars>>

\* Mutant: the other caches are merged while one ran dry.
MergeMustStopNever(i) == FALSE

\* Mutant: the web UI gets only what is in order.
MergeMustStopAlways(i) == Cached(i) = {Peek(i)} /\ IsMoreResultsAvailable(i)

\* An indexer which ran dry is asked again before anything else is merged.
MergeMustStop(i) ==
    /\ Source # "INTERNAL"
    /\ Cached(i) = {Peek(i)}
    /\ IsMoreResultsAvailable(i)

\* NEWEST_FIRST. The sort is stable.
SortedNewestFirst(s) ==
    LET place(k) == Cardinality({j \in DOMAIN s : s[j] > s[k] \/ (s[j] = s[k] /\ j <= k)})
    IN  [n \in DOMAIN s |-> s[CHOOSE k \in DOMAIN s : place(k) = n]]

\* One pass of the loop in mergeCachedResults.
MergeCachedResults ==
    /\ pc = "merge"
    /\ \E i \in GetIndexersWithCachedResults :
          /\ \A j \in GetIndexersWithCachedResults : Peek(i) >= Peek(j)
          /\ popped' = popped \cup {Peek(i)}
          /\ IF Source # "API" \/ ShouldBeAdded(Peek(i))
             THEN /\ merged' = Append(merged, Peek(i))
                  /\ represented' = IF Source = "API" THEN represented \cup {groupOf[Peek(i)]}
                                                     ELSE represented
                  /\ UNCHANGED removed
             ELSE /\ removed' = removed \cup {Peek(i)}
                  /\ UNCHANGED <<merged, represented>>
          /\ pc' = IF MergeMustStop(i) THEN "endRound" ELSE "merge"
    /\ UNCHANGED <<world, inCache, queries, last, loaded, groupOf, nextGroup, persisted,
                   requestVars, callerVars, historyVars>>

MergeDone ==
    /\ pc = "merge"
    /\ GetIndexersWithCachedResults = {}
    /\ pc' = "endRound"
    /\ UNCHANGED <<world, entryVars, requestVars, callerVars, historyVars>>

\* The circuit breaker: the next round would do exactly the same again.
RoundWasFruitless ==
    /\ ~ round.gotItems
    /\ Len(merged) = round.merged
    /\ Cardinality(removed) = round.removed
    /\ ~ round.advanced

\* persistNewIndexerSearchResults, then the decisions at the end of the loop.
EndRound ==
    /\ pc = "endRound"
    /\ persisted' = queries
    /\ pc' = IF RoundWasFruitless \/ (SingleRound /\ merged # <<>>) THEN "respond" ELSE "loop"
    /\ UNCHANGED <<world, inCache, queries, last, loaded, popped, merged, removed, groupOf,
                   nextGroup, represented, requestVars, callerVars, historyVars>>

\* The database fails after the results of some indexers were saved. The exception
\* ends the request, its caller gets an error.
EndRoundFails(saved) ==
    /\ pc = "endRound"
    /\ dbErrors < MaxDbErrors
    /\ dbErrors' = dbErrors + 1
    /\ persisted' = [i \in Indexers |-> IF i \in saved THEN queries[i] ELSE persisted[i]]
    /\ pc' = "idle"
    /\ UNCHANGED <<world, inCache, queries, last, loaded, popped, merged, removed, groupOf,
                   nextGroup, represented, requestVars, callerVars,
                   disturbed, rebuilt, resorted, requests, failures>>

\* The results of an API search are sorted once more, the web UI sorts for itself.
Ordered == IF Source = "API" THEN SortedNewestFirst(merged) ELSE merged

\* Mutant: the limit is counted from the first result.
ResponseFromStart ==
    IF request.loadAll
    THEN Ordered
    ELSE SubSeq(Ordered, 1, IF request.offset + Limit > Len(merged)
                            THEN Len(merged) ELSE request.offset + Limit)

\* spliceSearchResultItemsAccordingToOffsetAndLimit
Response ==
    LET behind == IF Source = "INTERNAL" THEN Len(merged) ELSE request.offset + Limit
    IN  IF request.loadAll
        THEN Ordered
        ELSE SubSeq(Ordered, request.offset + 1,
                    IF behind > Len(merged) THEN Len(merged) ELSE behind)

\* What the web UI takes of an answer with everything: what it was not shown yet, in its order.
Unseen(s) ==
    LET new == {k \in DOMAIN s : s[k] \notin InSeq(shown)}
    IN  [n \in 1..Cardinality(new) |->
            s[CHOOSE k \in new : Cardinality({j \in new : j <= k}) = n]]

Respond ==
    /\ pc = "respond"
    /\ shown' = shown \o (IF request.loadAll THEN Unseen(Response) ELSE Response)
    /\ position' = request.offset + Len(Response)
    /\ exhausted' = (request.loadAll \/ Response = <<>>)
    /\ resorted' = (resorted \/ Ordered # merged)
    /\ pc' = "idle"
    /\ UNCHANGED <<world, entryVars, requestVars, disturbed, rebuilt, requests, failures, dbErrors>>

-----------------------------------------------------------------------------

Init ==
    /\ world \in Worlds
    /\ inCache = FALSE
    /\ queries = [i \in Indexers |-> 0]
    /\ last = [i \in Indexers |-> FailedResult]
    /\ loaded = {}
    /\ popped = {}
    /\ merged = <<>>
    /\ removed = {}
    /\ groupOf = [x \in Items |-> 0]
    /\ nextGroup = 1
    /\ represented = {}
    /\ persisted = [i \in Indexers |-> 0]
    /\ pc = "idle"
    /\ request = [offset |-> 0, loadAll |-> FALSE]
    /\ shortcut = FALSE
    /\ round = NoRound
    /\ shown = <<>>
    /\ position = 0
    /\ exhausted = FALSE
    /\ disturbed = FALSE
    /\ rebuilt = FALSE
    /\ resorted = FALSE
    /\ requests = 0
    /\ failures = 0
    /\ dbErrors = 0

\* What the thread which runs the search does.
SearchStep ==
    \/ LoopStop
    \/ \E outcome \in [Indexers -> {"ok", "failed", "cancelled"}] : QueryRound(outcome)
    \/ AddToGroups
    \/ AddToGroupsDone
    \/ MergeCachedResults
    \/ MergeDone
    \/ EndRound
    \/ \E saved \in SUBSET Indexers : EndRoundFails(saved)
    \/ Respond

Next ==
    \/ StartSearch
    \/ \E loadAll \in BOOLEAN : ContinueSearch(loadAll)
    \/ Expire
    \/ \E i \in Indexers : Upload(i)
    \/ Shortcut
    \/ SearchStep

\* The thread of a search goes on, calls to indexers end because they have a
\* timeout. Callers, the cache's eviction and uploads come as they like.
Spec == Init /\ [][Next]_vars /\ WF_vars(SearchStep)

-----------------------------------------------------------------------------
(* Correctness                                                             *)

\* Every variable of the search has a value the code could store in it.
TypeOK ==
    /\ world \in World
    /\ inCache \in BOOLEAN
    /\ queries \in [Indexers -> Nat]
    /\ last \in [Indexers -> SearchResultMeta]
    /\ loaded \in SUBSET Items
    /\ popped \in SUBSET Items
    /\ merged \in Seq(Items)
    /\ removed \in SUBSET Items
    /\ groupOf \in [Items -> Nat]
    /\ nextGroup \in Nat \ {0}
    /\ represented \in SUBSET Nat
    /\ persisted \in [Indexers -> Nat]
    /\ pc \in {"idle", "loop", "group", "merge", "endRound", "respond"}
    /\ request \in [offset : Nat, loadAll : BOOLEAN]
    /\ shortcut \in BOOLEAN
    /\ round \in [fresh : SUBSET Items, gotItems : BOOLEAN, merged : Nat, removed : Nat, advanced : BOOLEAN]
    /\ shown \in Seq(Items)
    /\ position \in Nat
    /\ exhausted \in BOOLEAN
    /\ disturbed \in BOOLEAN
    /\ rebuilt \in BOOLEAN
    /\ resorted \in BOOLEAN
    /\ requests \in 0..MaxRequests
    /\ failures \in 0..MaxFailures
    /\ dbErrors \in 0..MaxDbErrors

NoDuplicates(s) == \A j, k \in DOMAIN s : s[j] = s[k] => j = k

\* What was popped was either merged, exactly once, or removed as a duplicate:
\* rebuilding and sorting an indexer's list for every page (addIndexerSearchResult)
\* neither serves a result twice nor loses one, even if its pages overlap.
MergedOnce ==
    /\ NoDuplicates(merged)
    /\ InSeq(merged) \cap removed = {}
    /\ InSeq(merged) \cup removed = popped
    /\ popped \subseteq loaded

\* An API search returns at most one result of every duplicate group, and none of
\* a group is skipped (shouldBeAdded) unless another one of it was returned or is
\* still waiting to be.
EveryGroupOnce ==
    Source = "API" =>
        /\ \A j, k \in DOMAIN merged :
              j # k => groupOf[merged[j]] # groupOf[merged[k]]
        /\ \A x \in removed :
              \E y \in GroupMembers(groupOf[x]) : y \in InSeq(merged) \/ y \in loaded \ popped

\* Indexers answer newest first, none has a page without an accepted result while a later
\* page has some, and nothing is uploaded meanwhile.
Orderly(w) ==
    /\ \A i \in Indexers :
          LET c == w.catalogue[i]
              accepted(k) == c[k] \notin w.rejected
          IN  /\ \A j, k \in DOMAIN c : j < k => c[j] > c[k]
              /\ \A page \in 0..Len(c) :
                    (\E k \in DOMAIN c : k > page * PageSize[i] /\ accepted(k))
                        => \E k \in DOMAIN c : /\ k > page * PageSize[i] /\ accepted(k)
                                             /\ k <= page * PageSize[i] + PageSize[i]
    /\ w.uploads = {}

\* The merged results of an API search of orderly indexers are newest first at all times, also
\* over several rounds, failures and requests: mergeCachedResults stops where an indexer which
\* ran dry could have a newer result than those still cached. An indexer whose first page was
\* rejected completely never ran dry, and the others are merged without waiting for it.
MergedNewestFirst ==
    Source = "API" /\ Orderly(world) =>
        \A j, k \in DOMAIN merged : j < k => merged[j] > merged[k]

\* No result is returned twice to a caller which pages through a search, not even if the cache
\* lost the search in between, as long as the indexers answer as they did the first time. API
\* results which were merged out of order (see MergedNewestFirst) are excepted: the sort
\* before the cut moves them across offsets the caller has already passed.
NothingReturnedTwice == TypeOK /\ (~ (rebuilt /\ disturbed) /\ ~ resorted => NoDuplicates(shown))

CapReached ==
    \/ \E i \in Indexers : queries[i] >= QueryCap
    \/ UsesLoadAllQueryCap /\ Len(merged) >= MaxResultsLoadAll

\* A caller which continued until it got nothing was given every accepted result
\* the indexers have, or (API) a duplicate of it: no break of the loop in
\* Searcher.search and no cut by offset and limit drops one silently. API results which
\* were merged out of order are excepted as in NothingReturnedTwice: one which the sort moves
\* before the offset the caller has reached is never returned.
NothingLost ==
    pc = "idle" /\ exhausted /\ ~ shortcut /\ ~ disturbed /\ ~ resorted /\ ~ CapReached =>
        \A i \in Indexers : \A x \in InSeq(Catalogue(i)) \ world.rejected :
            \E y \in InSeq(shown) :
                x = y \/ (Source = "API" /\ groupOf[x] # 0 /\ groupOf[x] = groupOf[y])

\* The web UI is shown everything which was retrieved, also by a search which was
\* cut short: between two requests no result waits in a cache or was left behind.
NothingHeldBack ==
    Source = "INTERNAL" /\ pc = "idle" /\ inCache /\ dbErrors = 0 /\ ~ (rebuilt /\ disturbed) =>
        popped = loaded /\ InSeq(merged) \subseteq InSeq(shown)

\* Every request is answered (or fails): whatever the indexers report, the loop of
\* Searcher.search ends.
EveryRequestEnds == pc # "idle" ~> pc = "idle"
=============================================================================
