----------------------------- MODULE SearchResults -----------------------------
(***************************************************************************)
(* The results of a search in the web UI, from their answer to the next    *)
(* search: features/search/results/SearchResults.tsx with the pipeline of  *)
(* resultTable.ts (filter, sort, group, page, expand), the selection of    *)
(* useResultSelection.ts and the continuations which loadMore of           *)
(* SearchPage.tsx asks the server for.                                     *)
(*                                                                         *)
(* What a render derives from the state (the groups, which are memoized,   *)
(* the page, the visible rows) and what an effect adjusts afterwards (the  *)
(* selection) is part of the step which made it necessary. A new search    *)
(* unmounts all of this. Of the filters only the one by indexer and the    *)
(* one of downloaded results are kept: all are predicates on a result.     *)
(***************************************************************************)
EXTENDS Integers, Sequences, FiniteSets, SequencesExt

CONSTANTS
    Accepted,      \* what the server merges for this search, in that order (see SearchPaging)
    RejectedUpTo,  \* how many results it has rejected when it has merged the first n
    EpochOf,       \* the date of a result
    Indexers, IndexerOf,
    ScoreOf,       \* indexerscore: the priority of an indexer
    TitleOf,       \* the normalized title with the download type
    IdentityOf,    \* duplicateIdentity: the hash, or the result itself
    ValueOf,       \* of each column that sorts: the value of each result
    Downloaded,    \* what was downloaded before the search
    StoredChoices, \* the display choices the browser may have kept
    PageSize,      \* main.resultsPageSize; no paging is a size which fits all
    MaxActs,       \* bound: what the user does
    MaxFailures    \* bound: continuations which fail

Results == ToSet(Accepted)
Columns == DOMAIN ValueOf
DisplayChoices == [column : Columns, descending : BOOLEAN, groupTitles : BOOLEAN, hideDownloaded : BOOLEAN,
            expandGroups : BOOLEAN, duplicateControls : BOOLEAN]

ASSUME ResultsAssumption ==
    /\ Accepted \in Seq(Results) /\ IsInjective(Accepted)
    /\ RejectedUpTo \in [0..Len(Accepted) -> Nat] /\ EpochOf \in [Results -> Int]
    /\ IndexerOf \in [Results -> Indexers] /\ ScoreOf \in [Indexers -> Nat]
    /\ \A c \in Columns : ValueOf[c] \in [Results -> Int]
    /\ Downloaded \subseteq Results /\ StoredChoices \subseteq DisplayChoices
ASSUME BoundsAssumption == PageSize \in Nat \ {0} /\ MaxActs \in Nat /\ MaxFailures \in Nat

VARIABLES
    counted,             \* whether the indexers know how many results they have
    sent,                \* what was downloaded, as the server knows it
    data,                \* the answers so far, merged
    filters,             \* filters.indexers
    choices,             \* the display choices, which outlive the search
    groups,              \* the memoized groups: sequences of buckets, these of results
    requestedPage,
    overrides,           \* titleExpansionOverrides
    expandedDuplicates,
    selected,
    lastSelected,        \* lastSelectedId, as a set of at most one
    loading,             \* pagingLoading: "no", or whether "more" or "all" is loaded
    exhausted,           \* pagingExhausted
    error,               \* pagingError: "none", "failed" or "stuck": it did not advance
    acts, failures

rowVars == <<data, filters, choices, groups, requestedPage>>
expansionVars == <<overrides, expandedDuplicates>>
pagingVars == <<loading, exhausted, error>>
vars == <<counted, sent, rowVars, expansionVars, pagingVars, selected, lastSelected, acts, failures>>

Acts == acts < MaxActs /\ acts' = acts + 1

-----------------------------------------------------------------------------
(* Filtering, sorting and grouping                                         *)

\* defaultFilters.
DefaultFilters(d) == {IndexerOf[r] : r \in ToSet(d.results)}

\* filterResults, which keeps their order.
FilterResults(d, f, c) ==
    {r \in ToSet(d.results) : IndexerOf[r] \in f /\ (c.hideDownloaded => r \notin d.downloaded)}

Place(r, rs) == CHOOSE k \in DOMAIN rs : rs[k] = r
PlaceIn(rs, set) == [r \in set |-> Place(r, rs)]

\* Array.prototype.sort, which is stable: equal values keep the order of their places.
StableSort(set, value, place) ==
    LET upTo(x) == {y \in set : value[y] < value[x] \/ (value[y] = value[x] /\ place[y] <= place[x])}
    IN  [n \in 1..Cardinality(set) |-> CHOOSE x \in set : Cardinality(upTo(x)) = n]
ByPlace(set, place) == StableSort(set, place, place)

\* Equal values keep the order in which the results were loaded, in either direction.
Sorted(filtered, loaded, column, descending) ==
    StableSort(filtered,
               [r \in filtered |-> IF descending THEN -ValueOf[column][r] ELSE ValueOf[column][r]],
               PlaceIn(loaded, filtered))

\* groupingKey. Without grouping by title the duplicates still share a row.
KeyOf(r, byTitle) == IF byTitle THEN <<"title", TitleOf[r]>> ELSE <<"duplicate", IdentityOf[r]>>

\* byIndexerScore, on what is sorted already.
ByIndexerScore(set, sorted) ==
    StableSort(set, [r \in set |-> -ScoreOf[IndexerOf[r]]], PlaceIn(sorted, set))

\* The bucket of a result, all duplicates in its group, and its group.
BucketOf(r, sorted, byTitle) ==
    ByIndexerScore({q \in ToSet(sorted) : /\ KeyOf(q, byTitle) = KeyOf(r, byTitle)
                                          /\ IdentityOf[q] = IdentityOf[r]}, sorted)
BucketsWith(r, sorted, byTitle) ==
    {BucketOf(q, sorted, byTitle) : q \in {p \in ToSet(sorted) : KeyOf(p, byTitle) = KeyOf(r, byTitle)}}
GroupOf(r, sorted, byTitle) ==
    LET buckets == BucketsWith(r, sorted, byTitle)
    IN  ByPlace(buckets, [b \in buckets |-> Place(b[1], sorted)])

\* groupResults. Buckets of duplicates and groups stand where their leading results do.
GroupResults(sorted, byTitle) ==
    LET all == {GroupOf(r, sorted, byTitle) : r \in ToSet(sorted)}
    IN  ByPlace(all, [g \in all |-> Place(g[1][1], sorted)])

\* The memoized groups, from the filtered results on.
Grouped(d, f, c) ==
    GroupResults(Sorted(FilterResults(d, f, c), d.results, c.column, c.descending), c.groupTitles)

-----------------------------------------------------------------------------
(* Pages and visible rows                                                  *)

Loaded == ToSet(data.results)
Filtered == FilterResults(data, filters, choices)

PageCount(gs) == IF gs = <<>> THEN 1 ELSE (Len(gs) + PageSize - 1) \div PageSize

\* Mutant: the page which was asked for is believed.
ClampedPageTrusted(page, gs) == page

\* The page of pageOfGroups.
ClampedPage(page, gs) == IF page > PageCount(gs) THEN PageCount(gs) ELSE page

\* Where a result can be: in which group, in which of its buckets, and where in this one.
Places ==
    UNION {UNION {{<<k, b, n>> : n \in DOMAIN groups[k][b]} : b \in DOMAIN groups[k]} :
               k \in DOMAIN groups}
ResultAt(p) == groups[p[1]][p[2]][p[3]]
ResultsAt(places) == {ResultAt(p) : p \in places}

\* The groups of pageOfGroups: each is on one page.
PageOf(k) == (k - 1) \div PageSize + 1

IdsOn(page) == ResultsAt({p \in Places : PageOf(p[1]) = page})
OtherPageIds == Filtered \ IdsOn(requestedPage)

\* expandedTitles: an override is an exception to what is expanded by default.
Expanded(key) == (key \in overrides) # choices.expandGroups

GroupKey(k) == KeyOf(groups[k][1][1], choices.groupTitles)
DuplicateKey(b) == <<KeyOf(b[1], choices.groupTitles), IdentityOf[b[1]]>>

\* visibleGroupedResults: the first row of a group, those of its buckets if it is expanded, and
\* those of their duplicates if these are.
VisibleOn(page) ==
    {p \in Places :
        /\ PageOf(p[1]) = page
        /\ p[2] = 1 \/ Expanded(GroupKey(p[1]))
        /\ p[3] = 1 \/ (choices.duplicateControls
                            /\ DuplicateKey(groups[p[1]][p[2]]) \in expandedDuplicates)}
Visible == VisibleOn(requestedPage)

-----------------------------------------------------------------------------
(* Selecting                                                               *)

\* The order of the rows.
NotBelow(p, q) ==
    \/ p[1] < q[1]
    \/ p[1] = q[1] /\ (p[2] < q[2] \/ (p[2] = q[2] /\ p[3] <= q[3]))
Between(v, p, q) == (NotBelow(p, v) /\ NotBelow(v, q)) \/ (NotBelow(q, v) /\ NotBelow(v, p))

\* selectionAfterClick. Shift takes all rows from the one clicked before, if that is visible.
SelectionAfterClick(r, checked, shift) ==
    LET previous == {p \in Visible : ResultAt(p) \in lastSelected}
        now == {p \in Visible : ResultAt(p) = r}
        clicked == IF shift /\ previous # {}
                   THEN ResultsAt({v \in Visible : \E p \in previous, q \in now : Between(v, p, q)})
                   ELSE {r}
    IN  IF checked THEN selected \cup clicked ELSE selected \ clicked

\* Mutant: it works on all that is selected, as it did before there were pages.
SelectVisibleEverywhere(action) ==
    {r \in ResultsAt(Visible) : action = "all" \/ (action = "invert" /\ r \notin selected)}

\* selectVisibleResults.
SelectVisible(action) ==
    (selected \cap OtherPageIds)
        \cup {r \in ResultsAt(Visible) : action = "all" \/ (action = "invert" /\ r \notin selected)}

-----------------------------------------------------------------------------
(* Continuing the search                                                   *)

CursorOf(answer) == answer.offset + answer.limit

PagingAvailable ==
    /\ data.hasMore \/ data.processed < data.available
    /\ ~(data.offset = 0 /\ data.limit = 0)
    /\ ~exhausted

\* The limit of "Load all results".
Remaining == IF data.processed > data.available THEN 0 ELSE data.available - data.processed

\* What is accepted after m results up to n.
Part(m, n) == {Accepted[k] : k \in m + 1..n}

\* transformSearchResults. An answer is sorted by date, whatever its rounds merged.
NewestFirst(set) == StableSort(set, [r \in set |-> -EpochOf[r]], PlaceIn(Accepted, set))

\* What the server can answer after it has merged the first n results. An indexer which does
\* not count reports no more than it returned, and that there is more, or not. Rejected results
\* count as available and, those of all rounds, as processed. What was downloaded is looked up
\* for each answer.
Answers(from, offset, limit, n) ==
    {[results |-> NewestFirst(Part(from, n)), offset |-> offset, limit |-> limit,
      available |-> IF counted THEN Len(Accepted) + RejectedUpTo[Len(Accepted)] ELSE n,
      processed |-> n - from + RejectedUpTo[n],
      hasMore |-> more, downloaded |-> sent \cap Part(from, n)] :
        more \in IF counted /\ n = Len(Accepted) THEN {FALSE} ELSE BOOLEAN}

\* All there is for "Load all results", with the limit it came with, otherwise all behind the offset.
Continuations ==
    LET o == CursorOf(data)
    IN  UNION {IF loading = "all" THEN Answers(0, o, Remaining, n) ELSE Answers(o, o, n - o, n) :
                   n \in o..Len(Accepted)}

\* Whether loadMore refuses the answer because the server did not advance the cursor.
Stuck(next) ==
    /\ ~(loading = "all" /\ next.offset = 0 /\ next.limit = 0)
    /\ ~(next.offset = CursorOf(data) /\ next.limit = 0 /\ next.results = <<>>)
    /\ CursorOf(next) <= CursorOf(data)

\* Mutant: what was loaded before is not recognized.
MergeResponsesAppended(next) == [next EXCEPT !.results = data.results \o @]

\* mergeSearchResponses. A Map keeps the place of a result it has but takes its new value.
MergeResponses(next) ==
    [next EXCEPT
        !.results = LET new == ToSet(@) \ Loaded IN data.results \o ByPlace(new, PlaceIn(@, new)),
        !.downloaded = (data.downloaded \ ToSet(next.results)) \cup @,
        !.offset = IF data.offset > @ THEN data.offset ELSE @]

-----------------------------------------------------------------------------
(* What follows a change of the rows                                       *)

\* Mutant: what is selected stays so, whatever the filters hide.
PrunedNever(selection, filtered) == selection

\* The effect on filteredResults.
Pruned(selection, filtered) == selection \cap filtered

\* Page 1 after any change of what is listed, but if the list has become too short for the page on
\* screen the same render asks for its last page.
PageAfterReset(gs) ==
    IF ClampedPage(requestedPage, gs) # requestedPage THEN ClampedPage(requestedPage, gs) ELSE 1

\* The renders and effects with these results, filters and choices and with this page asked for.
Rendered(d, f, c, page) ==
    /\ data' = d /\ filters' = f /\ choices' = c
    /\ groups' = Grouped(d, f, c)
    /\ requestedPage' = ClampedPage(page, groups')
    /\ selected' = Pruned(selected, FilterResults(d, f, c))

-----------------------------------------------------------------------------
(* Actions                                                                 *)

ToggledIn(x, set) == IF x \in set THEN set \ {x} ELSE set \cup {x}

Init ==
    /\ counted \in BOOLEAN
    /\ sent = Downloaded
    /\ data \in UNION {Answers(0, 0, n, n) : n \in 0..Len(Accepted)}
    /\ filters = DefaultFilters(data)
    /\ choices \in StoredChoices
    /\ groups = Grouped(data, filters, choices)
    /\ requestedPage = 1
    /\ overrides = {} /\ expandedDuplicates = {}
    /\ selected = {} /\ lastSelected = {}
    /\ loading = "no" /\ exhausted = FALSE /\ error = "none"
    /\ acts = 0 /\ failures = 0

\* updateSelection.
Click(r, shift) ==
    /\ Acts
    /\ selected' = SelectionAfterClick(r, r \notin selected, shift)
    /\ lastSelected' = {r}
    /\ UNCHANGED <<counted, sent, rowVars, expansionVars, pagingVars, failures>>

\* selectAllVisible, deselectAllVisible, invertVisibleSelection.
Bulk(action) ==
    /\ Acts
    /\ selected' = SelectVisible(action)
    /\ UNCHANGED <<counted, sent, rowVars, expansionVars, pagingVars, lastSelected, failures>>

GoToPage(page) ==
    /\ Acts
    /\ requestedPage' = page
    /\ UNCHANGED <<counted, sent, data, filters, choices, groups, expansionVars, pagingVars, selected,
                   lastSelected, failures>>

\* handleToggleTitleExpansion, on a group with more than one bucket.
ToggleTitle(k) ==
    /\ Acts
    /\ Len(groups[k]) > 1
    /\ overrides' = ToggledIn(GroupKey(k), overrides)
    /\ UNCHANGED <<counted, sent, rowVars, expandedDuplicates, pagingVars, selected, lastSelected, failures>>

\* handleToggleDuplicateExpansion, on a bucket with duplicates whose first row is visible.
ToggleDuplicates(b) ==
    /\ Acts
    /\ choices.duplicateControls /\ Len(b) > 1
    /\ expandedDuplicates' = ToggledIn(DuplicateKey(b), expandedDuplicates)
    /\ UNCHANGED <<counted, sent, rowVars, overrides, pagingVars, selected, lastSelected, failures>>

\* handleToggleExpandGroupsByDefault, and the switch of the controls of duplicates with its effect.
ToggleExpansion(choice) ==
    /\ Acts
    /\ choices' = [choices EXCEPT ![choice] = ~@]
    /\ overrides' = IF choice = "expandGroups" THEN {} ELSE overrides
    /\ expandedDuplicates' = IF choices'.duplicateControls THEN expandedDuplicates ELSE {}
    /\ UNCHANGED <<counted, sent, data, filters, groups, requestedPage, pagingVars, selected,
                   lastSelected, failures>>

\* Hiding downloaded results, grouping by title, and the sort.
Rearrange(changed) ==
    /\ Acts
    /\ changed # choices
    /\ Rendered(data, filters, changed, PageAfterReset(Grouped(data, filters, changed)))
    /\ UNCHANGED <<counted, sent, expansionVars, pagingVars, lastSelected, failures>>

\* The filters of the sidebar, or clearAllFilters.
SetFilters(indexers) ==
    /\ Acts
    /\ Rendered(data, indexers, choices, PageAfterReset(Grouped(data, indexers, choices)))
    /\ UNCHANGED <<counted, sent, expansionVars, pagingVars, lastSelected, failures>>

\* requestContinuation and requestLoadAll, whose dialog lets nothing else happen.
Continue(what) ==
    /\ Acts
    /\ loading = "no" /\ PagingAvailable
    /\ loading' = what /\ error' = "none"
    /\ UNCHANGED <<counted, sent, rowVars, expansionVars, exhausted, selected, lastSelected, failures>>

\* An answer which did not advance is refused and ends paging.
Answered(next) ==
    /\ loading' = "no"
    /\ UNCHANGED <<counted, sent, expansionVars, lastSelected, acts, failures>>
    /\ IF Stuck(next)
       THEN exhausted' = TRUE /\ error' = "stuck" /\ UNCHANGED <<rowVars, selected>>
       ELSE /\ Rendered(MergeResponses(next), filters, choices, requestedPage)
            /\ exhausted' = (loading = "all" \/ next.results = <<>>)
            /\ UNCHANGED error

ContinuationFails ==
    /\ loading # "no"
    /\ failures < MaxFailures /\ failures' = failures + 1
    /\ loading' = "no" /\ error' = "failed"
    /\ UNCHANGED <<counted, sent, rowVars, expansionVars, exhausted, selected, lastSelected, acts>>

\* A bulk send, of which the downloader added these. They are deselected wherever they are, and
\* carry a downloadedAt only in a later answer.
Send(added) ==
    /\ Acts
    /\ sent' = sent \cup added
    /\ selected' = selected \ added
    /\ UNCHANGED <<counted, rowVars, expansionVars, pagingVars, lastSelected, failures>>

Selecting ==
    \/ \E p \in Visible, shift \in BOOLEAN : Click(ResultAt(p), shift)
    \/ \E action \in {"all", "none", "invert"} : Bulk(action)
    \/ \E added \in SUBSET selected \ {{}} : Send(added)
Looking ==
    \/ \E page \in 1..PageCount(groups) : GoToPage(page)
    \/ \E k \in {j \in DOMAIN groups : PageOf(j) = requestedPage} : ToggleTitle(k)
    \/ \E p \in {q \in Visible : q[3] = 1} : ToggleDuplicates(groups[p[1]][p[2]])
    \/ \E choice \in {"expandGroups", "duplicateControls"} : ToggleExpansion(choice)
Arranging ==
    \/ \E choice \in {"hideDownloaded", "groupTitles"} : Rearrange([choices EXCEPT ![choice] = ~@])
    \/ \E column \in Columns, descending \in BOOLEAN :
        Rearrange([choices EXCEPT !.column = column, !.descending = descending])
    \/ \E i \in DefaultFilters(data) : SetFilters(ToggledIn(i, filters))
    \/ SetFilters(DefaultFilters(data))
Paging ==
    \/ \E what \in {"more", "all"} : Continue(what)
    \/ loading # "no" /\ \E next \in Continuations : Answered(next)
    \/ ContinuationFails

Next == Selecting \/ Looking \/ Arranging \/ Paging
Spec == Init /\ [][Next]_vars

-----------------------------------------------------------------------------
(* Properties                                                              *)

\* The type invariant.
TypeOK ==
    /\ data.results \in Seq(Results) /\ {data.offset, data.limit} \subseteq Nat
    /\ data.downloaded \subseteq Loaded \cap sent
    /\ filters \subseteq Indexers /\ choices \in DisplayChoices
    /\ requestedPage \in Nat \ {0}
    /\ lastSelected \subseteq Results
    /\ loading \in {"no", "more", "all"} /\ error \in {"none", "failed", "stuck"}

\* Whatever is filtered, grouped, expanded or loaded, every result that passes the filters can
\* be reached: it is in one group only, whose page has the row of that group, no duplicate is
\* hidden behind one of an indexer with a lower priority, and the page on screen is not blank
\* while there is anything to show (groupResults, pageOfGroups, visibleGroupedResults).
NothingUnreachable ==
    /\ TypeOK
    /\ Filtered # {} => Visible # {}
    /\ \A p \in Places : ResultAt(p) \in Filtered
    /\ \A p, q \in Places : ResultAt(p) = ResultAt(q) => p = q
    /\ \A r \in Filtered : \E p \in Places :
        /\ ResultAt(p) = r
        /\ PageOf(p[1]) \in 1..PageCount(groups)
        /\ <<p[1], 1, 1>> \in VisibleOn(PageOf(p[1]))
        /\ ScoreOf[IndexerOf[groups[p[1]][p[2]][1]]] >= ScoreOf[IndexerOf[r]]

\* What would be sent to a downloader passes the filters: a filter, "hide downloaded" or another
\* answer never leaves something selected that the user has filtered out (the effect which prunes).
SelectionPassesFilters == selected \subseteq Filtered

\* What a step selects is on the page on screen. What it deselects is there as well, or does not
\* pass the filters any more, or was sent: a range, select all or invert never reaches into another
\* page, not even after more results moved the rows (selectVisibleResults, selectionAfterClick,
\* onDownloaded of ResultsToolbar).
OtherPagesKept ==
    [][/\ selected' \ selected \subseteq IdsOn(requestedPage)
       /\ \A r \in selected \ selected' :
              r \in IdsOn(requestedPage) \/ r \notin Filtered' \/ r \in sent']_vars

\* However "Load more", "Load all results" and failures alternate, and in whatever order each answer
\* has its results, the loaded ones are those the server merged first, none is missing, none there
\* twice, and the cursor stands behind them as long as there is more to load (loadMore,
\* mergeSearchResponses).
LoadedWithoutGap ==
    /\ Loaded = Part(0, Len(data.results)) /\ IsInjective(data.results)
    /\ ~exhausted => CursorOf(data) = Len(data.results)

\* "Load all results" fetches every remaining page in one commit (SearchResults.tsx, FM-162): it
\* is not refused because the server did not advance.
LoadAllTaken == error # "stuck"
=============================================================================
