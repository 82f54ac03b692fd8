-------------------------- MODULE MinAgeOffsetSearch --------------------------
(***************************************************************************)
(* How the first result old enough for a minimum age is found at one       *)
(* indexer: MinAgeOffsetSearch bisects the offset, the cache entry of the  *)
(* indexer (IndexerSearchCacheEntry) keeps or discards the page it loaded. *)
(*                                                                         *)
(* Data: a result is numbered from the indexer's last one (1) to its first *)
(* (Len(dates)), so that it keeps its number when newer ones are uploaded; *)
(* the result at offset o is number Len(dates) - o. A date is an integer,  *)
(* a larger one is newer, and a result is old enough if its date is at     *)
(* most Threshold. Results which aren't are rejected by the acceptor, also *)
(* on a page which is kept.                                                *)
(***************************************************************************)
EXTENDS Integers, Sequences, FiniteSets

CONSTANTS
    Dates,             \* the dates of results
    Threshold,         \* the newest date which is old enough
    Tolerance,         \* IndexerSearchResult.SORT_ORDER_TOLERANCE
    Worlds,            \* what the indexer holds and what it says of the total
    PageSize,          \* results on a full page
    MaxQueries,        \* SearchCacheEntry.MAX_QUERIES_UNTIL_BREAK
    MaxQueriesLoadAll, \* SearchCacheEntry.MAX_QUERIES_UNTIL_BREAK_LOAD_ALL
    MaxUploads,        \* bound: results uploaded during the search
    MaxFailures        \* bound: failing queries

ASSUME DatesAssumption == Dates \subseteq Int /\ Threshold \in Int /\ Tolerance \in Nat
ASSUME WorldsAssumption == Worlds \subseteq [dates : Seq(Dates), total : Nat, totalKnown : BOOLEAN]
ASSUME BoundsAssumption == /\ PageSize \in Nat \ {0}
                           /\ {MaxQueries, MaxQueriesLoadAll, MaxUploads, MaxFailures} \subseteq Nat

VARIABLES
    dates,        \* dates of the indexer's results, by their number
    total,        \* the total it reports, or where its pages end if it reports none
    totalKnown,   \* whether it reports one (IndexerSearchResult.totalResultsKnown)
    uploads,      \* how many results were uploaded meanwhile
    \* MinAgeOffsetSearch
    state,
    lowerBound,
    upperBound,
    oldestTooYoungDate,
    probes,
    \* IndexerSearchCacheEntry
    executed,     \* number of indexerSearchResults
    last,         \* the last one: offset, size, more, ok
    kept,         \* the accepted results of all pages which were kept
    failures

searchVars == <<state, lowerBound, upperBound, oldestTooYoungDate, probes>>
entryVars  == <<executed, last, kept>>
vars == <<dates, total, totalKnown, uploads, searchVars, entryVars, failures>>

States == {"STARTING", "PROBING", "RESUMING", "DONE", "NOTHING_OLD_ENOUGH"}

-----------------------------------------------------------------------------
(* A page: the results at its offset and the following ones                *)

ResultAt(offset) == Len(dates) - offset

\* Mutant: an offset behind the last result is forgotten.
PageLenNegative(offset) == IF offset + PageSize <= Len(dates) THEN PageSize
                           ELSE Len(dates) - offset

PageLen(offset) == IF offset + PageSize <= Len(dates) THEN PageSize
                   ELSE IF offset <= Len(dates) THEN Len(dates) - offset
                   ELSE 0

ResultsOf(offset) == {ResultAt(o) : o \in offset..(offset + PageLen(offset) - 1)}

IsOldEnough(r) == dates[r] <= Threshold

\* A page smaller than the indexer could have sent is taken for all there is if
\* it's the first (Newznab.checkForInvalidTotal).
InvalidTotal(offset) == totalKnown /\ offset = 0 /\ PageLen(offset) < total /\ PageLen(offset) < PageSize

TotalResults(offset) == IF InvalidTotal(offset) THEN PageLen(offset) ELSE total

HasMoreResults(offset) == ~ InvalidTotal(offset) /\ total > offset + PageLen(offset)

\* IndexerSearchResult.rememberResultDates: the order of the page as returned.
SortedNewestFirst(offset) ==
    \A r \in ResultsOf(offset) : r - 1 \in ResultsOf(offset) => dates[r - 1] <= dates[r] + Tolerance

\* getOldestResultDate, remembered as oldestTooYoungDate.
RememberOldest(offset) ==
    \E r \in ResultsOf(offset) :
        /\ \A s \in ResultsOf(offset) : dates[r] <= dates[s]
        /\ oldestTooYoungDate' = dates[r]

-----------------------------------------------------------------------------
(* MinAgeOffsetSearch                                                      *)

NextProbe == IF upperBound - lowerBound <= PageSize
             THEN lowerBound
             ELSE lowerBound + (upperBound - lowerBound) \div 2

GetNextOffset == IF executed = 0 THEN 0
                 ELSE IF state = "PROBING" THEN NextProbe
                 ELSE IF state = "RESUMING" THEN lowerBound
                 ELSE last.offset + last.size

\* Mutant: what the last page said counts, also while probing.
IsMoreResultsAvailableOfLastPage == executed = 0 \/ last.more

IsMoreResultsAvailable ==
    \/ executed = 0
    \/ state \in {"PROBING", "RESUMING"}
    \/ state \in {"STARTING", "DONE"} /\ last.more

IsSearchingFirstOldEnough == state \in {"PROBING", "RESUMING"}

Smaller(m, n) == IF m <= n THEN m ELSE n
Larger(m, n)  == IF m >= n THEN m ELSE n

Keep(offset)    == kept' = kept \cup {r \in ResultsOf(offset) : IsOldEnough(r)}
Discard(offset) == UNCHANGED kept

FirstPageLoaded(offset) ==
    /\ state = "STARTING"
    /\ Keep(offset)
    /\ IF \/ ~ totalKnown
          \/ ~ HasMoreResults(offset)
          \/ ~ SortedNewestFirst(offset)
          \/ ResultsOf(offset) = {}
          \/ \E r \in ResultsOf(offset) : IsOldEnough(r)
       THEN /\ state' = "DONE"
            /\ UNCHANGED <<lowerBound, upperBound, oldestTooYoungDate>>
       ELSE /\ state' = "PROBING"
            /\ lowerBound' = offset + PageLen(offset)
            /\ upperBound' = TotalResults(offset)
            /\ RememberOldest(offset)
    /\ UNCHANGED probes

\* Whether a probe shows that the indexer doesn't return its results newest first.
OutOfOrder(offset) ==
    \/ ~ SortedNewestFirst(offset)
    \/ \E r \in ResultsOf(offset) : dates[r] > oldestTooYoungDate + Tolerance

Contiguous(offset) == offset = lowerBound

\* Mutant: a page behind a gap is kept as well.
KeepAnyway(offset) == Keep(offset)

KeepIfContiguous(offset) == IF Contiguous(offset) THEN Keep(offset) ELSE Discard(offset)

\* Mutant: the upper bound is not moved to the empty page.
ProbeBeyondEndForgotten(offset) ==
    /\ ResultsOf(offset) = {}
    /\ state' = IF Contiguous(offset) THEN "NOTHING_OLD_ENOUGH" ELSE state
    /\ KeepIfContiguous(offset)
    /\ UNCHANGED <<lowerBound, upperBound, oldestTooYoungDate>>

ProbeBeyondEnd(offset) ==
    /\ ResultsOf(offset) = {}
    /\ upperBound' = Smaller(upperBound, offset)
    /\ state' = IF Contiguous(offset) THEN "NOTHING_OLD_ENOUGH" ELSE state
    /\ KeepIfContiguous(offset)
    /\ UNCHANGED <<lowerBound, oldestTooYoungDate>>

ProbeOutOfOrder(offset) ==
    /\ ResultsOf(offset) # {}
    /\ OutOfOrder(offset)
    /\ state' = IF Contiguous(offset) THEN "DONE" ELSE "RESUMING"
    /\ KeepIfContiguous(offset)
    /\ UNCHANGED <<lowerBound, upperBound, oldestTooYoungDate>>

ProbeTooYoung(offset) ==
    /\ ResultsOf(offset) # {}
    /\ ~ OutOfOrder(offset)
    /\ \A r \in ResultsOf(offset) : ~ IsOldEnough(r)
    /\ lowerBound' = Larger(lowerBound, offset + PageLen(offset))
    /\ RememberOldest(offset)
    /\ Keep(offset)
    /\ UNCHANGED <<state, upperBound>>

\* Mutant: the wrong bound is moved.
ProbeOldEnoughSwapped(offset) ==
    /\ ResultsOf(offset) # {}
    /\ ~ OutOfOrder(offset)
    /\ \A r \in ResultsOf(offset) : IsOldEnough(r)
    /\ lowerBound' = Larger(lowerBound, offset)
    /\ state' = IF Contiguous(offset) THEN "DONE" ELSE state
    /\ KeepIfContiguous(offset)
    /\ UNCHANGED <<upperBound, oldestTooYoungDate>>

ProbeOldEnough(offset) ==
    /\ ResultsOf(offset) # {}
    /\ ~ OutOfOrder(offset)
    /\ \A r \in ResultsOf(offset) : IsOldEnough(r)
    /\ upperBound' = Smaller(upperBound, offset)
    /\ state' = IF Contiguous(offset) THEN "DONE" ELSE state
    /\ KeepIfContiguous(offset)
    /\ UNCHANGED <<lowerBound, oldestTooYoungDate>>

ProbeOnBoundary(offset) ==
    /\ ~ OutOfOrder(offset)
    /\ \E r, s \in ResultsOf(offset) : IsOldEnough(r) /\ ~ IsOldEnough(s)
    /\ state' = "DONE"
    /\ Keep(offset)
    /\ UNCHANGED <<lowerBound, upperBound, oldestTooYoungDate>>

ProbeLoaded(offset) ==
    /\ state = "PROBING"
    /\ probes' = probes + 1
    /\ \/ ProbeBeyondEnd(offset)
       \/ ProbeOutOfOrder(offset)
       \/ ProbeTooYoung(offset)
       \/ ProbeOldEnough(offset)
       \/ ProbeOnBoundary(offset)

\* Page by page, after the first page at which loading resumed.
NextPageLoaded(offset) ==
    /\ state \in {"RESUMING", "DONE"}
    /\ state' = "DONE"
    /\ Keep(offset)
    /\ UNCHANGED <<lowerBound, upperBound, oldestTooYoungDate, probes>>

-----------------------------------------------------------------------------
(* The search loop, as far as it's about this indexer                      *)

CapReached == executed - probes >= MaxQueries \/ executed >= MaxQueriesLoadAll

\* Whether getIndexersToSearch picks the indexer when its cache is exhausted, and
\* the circuit breaker of Searcher.search doesn't stop because it is stalled.
WillBeQueried ==
    /\ ~ CapReached
    /\ executed = 0 \/ (last.ok /\ IsMoreResultsAvailable /\ GetNextOffset # last.offset)

LoadPage ==
    LET offset == GetNextOffset
    IN  /\ WillBeQueried
        /\ \/ FirstPageLoaded(offset)
           \/ ProbeLoaded(offset)
           \/ NextPageLoaded(offset)
        /\ executed' = executed + 1
        /\ last' = [offset |-> offset, size |-> PageLen(offset), more |-> HasMoreResults(offset), ok |-> TRUE]
        /\ UNCHANGED <<dates, total, totalKnown, uploads, failures>>

\* The indexer is not asked again after a failure, see isLastSuccessful.
LoadPageFails ==
    /\ WillBeQueried
    /\ failures < MaxFailures
    /\ failures' = failures + 1
    /\ state' = "DONE"
    /\ executed' = executed + 1
    /\ last' = [offset |-> 0, size |-> 0, more |-> FALSE, ok |-> FALSE]
    /\ UNCHANGED <<dates, total, totalKnown, uploads, lowerBound, upperBound, oldestTooYoungDate, probes, kept>>

\* A new result is the newest and moves all others one offset back.
Upload(date) ==
    /\ uploads < MaxUploads
    /\ date > Threshold
    /\ \A r \in DOMAIN dates : date >= dates[r]
    /\ dates' = Append(dates, date)
    /\ total' = total + 1
    /\ uploads' = uploads + 1
    /\ UNCHANGED <<totalKnown, searchVars, entryVars, failures>>

Init ==
    /\ \E w \in Worlds : dates = w.dates /\ total = w.total /\ totalKnown = w.totalKnown
    /\ uploads = 0
    /\ state = "STARTING"
    /\ lowerBound = 0
    /\ upperBound = 0
    /\ oldestTooYoungDate = Threshold
    /\ probes = 0
    /\ executed = 0
    /\ last = [offset |-> 0, size |-> 0, more |-> TRUE, ok |-> TRUE]
    /\ kept = {}
    /\ failures = 0

Next == LoadPage \/ LoadPageFails \/ \E date \in Dates : Upload(date)

\* The thread of the search goes on as long as the loop doesn't stop.
Spec == Init /\ [][Next]_vars /\ WF_vars(LoadPage)

-----------------------------------------------------------------------------
(* Correctness                                                             *)

\* Every field has a value the code could store in it.
TypeOK ==
    /\ dates \in Seq(Dates)
    /\ total \in Nat
    /\ totalKnown \in BOOLEAN
    /\ uploads \in Nat
    /\ state \in States
    /\ lowerBound \in Nat
    /\ upperBound \in Nat
    /\ oldestTooYoungDate \in Dates \cup {Threshold}
    /\ probes \in Nat
    /\ executed \in Nat
    /\ last \in [offset : Nat, size : Nat, more : BOOLEAN, ok : BOOLEAN]
    /\ kept \subseteq DOMAIN dates
    /\ failures \in Nat

\* The indexer returns its results newest first, but for the tolerated deviation.
Sorted == \A r, s \in DOMAIN dates : r < s => dates[r] <= dates[s] + Tolerance

\* Old enough by more than the tolerated deviation.
SurelyOld(r) == dates[r] <= Threshold - Tolerance

\* While the first result old enough is searched none before lowerBound is, as the
\* comment on that field says: jumping over pages skips nothing.
LowerBoundCorrect ==
    Sorted /\ IsSearchingFirstOldEnough =>
        \A r \in DOMAIN dates : r > ResultAt(lowerBound) => ~ SurelyOld(r)

\* The results which were kept are contiguous: if one was kept then all old enough
\* ones before it were, so that nothing is merged before the results between it
\* and the boundary are loaded.
KeptContiguous ==
    Sorted => \A r \in kept, s \in DOMAIN dates : r < s /\ SurelyOld(s) => s \in kept

Finished == ~ WillBeQueried

\* When nothing is loaded anymore all results old enough were, unless the indexer
\* reported too small a total, failed, or was sent all the queries it may be sent.
NothingOldSkipped ==
    Finished /\ Sorted /\ failures = 0 /\ ~ CapReached /\ total >= Len(dates) =>
        \A r \in DOMAIN dates : SurelyOld(r) => r \in kept

\* The search for the first result old enough ends: it never asks for the same page
\* again, at which the circuit breaker of Searcher.search would give up.
FirstOldEnoughDecided ==
    IsSearchingFirstOldEnough ~> ~ IsSearchingFirstOldEnough \/ CapReached
=============================================================================
