---------------------------- MODULE ActiveSearches ----------------------------
(***************************************************************************)
(* Searches which run at the same time and how they are cut short: the     *)
(* registry Searcher.activeSearches, the calls of a round with the race    *)
(* between submitting a call and cancelling it, and the shutdown.          *)
(*                                                                         *)
(* One process per running Searcher.search, one per call to an indexer,    *)
(* and the requests to cut a search short. What a search does with its     *)
(* results is the subject of SearchPaging; here it goes on as long as it   *)
(* likes, until its queries are used up.                                   *)
(***************************************************************************)
EXTENDS Integers, Sequences, FiniteSets

CONSTANTS
    Searches,        \* calls of Searcher.search
    Ids,             \* values of searchRequestId
    IdOf,            \* the ID of each search, a continuation has the same one
    Indexers,
    MaxQueries,      \* bound: queries of an indexer for a search
    MaxSize,         \* maxSize of the ExpiringMap activeSearches
    MayExpire,       \* whether a search may run longer than its registration lives
    MayOverlap,      \* whether a caller may search again while it still searches
    MaxDbErrors,     \* bound: searches which end with an exception
    MayStop          \* whether the application is stopped

ASSUME SearchesAssumption == IsFiniteSet(Searches) /\ IdOf \in [Searches -> Ids]
ASSUME IndexersAssumption == Indexers # {}
ASSUME BoundsAssumption == /\ MaxQueries \in Nat /\ MaxDbErrors \in Nat
                           /\ MaxSize \in Nat \ {0}
                           /\ {MayExpire, MayOverlap, MayStop} \subseteq BOOLEAN

VARIABLES
    active,        \* activeSearches, the least recently accessed first
    pc,            \* where each search is
    flag,          \* ActiveSearch.shortcutRequested
    futures,       \* ActiveSearch.futures
    toSubmit,      \* indexers of this round not submitted yet
    submitting,    \* the call being submitted
    calls,         \* state of each call of this round
    queries,       \* results of each indexer added to the search
    interrupted,   \* interrupt status of the threads of the searches
    executor,      \* the executor of the round
    cancelling,    \* searches whose futures a shortcut is about to cancel
    shutdown,      \* how far the application was stopped
    dbErrors,
    requested,     \* searches running when a shortcut of theirs was requested
    late           \* searches which began a round after that

searchVars == <<toSubmit, submitting, calls, queries, executor>>
vars == <<active, pc, flag, futures, searchVars, interrupted, cancelling, shutdown, dbErrors,
          requested, late>>

PCs == {"new", "select", "loop", "open", "submit", "track", "check", "await", "persist", "done", "failed"}
Ended == {"done", "failed"}

\* Whether a search was registered and has not ended.
IsRunning(s) == pc[s] \notin {"new", "select"} \cup Ended

-----------------------------------------------------------------------------
(* activeSearches                                                          *)

Registered == {active[k] : k \in DOMAIN active}

\* There is at most one entry for an ID, see Put.
Without(id) ==
    IF \E s \in Registered : IdOf[s] = id
    THEN LET k == CHOOSE k \in DOMAIN active : IdOf[active[k]] = id
         IN  SubSeq(active, 1, k - 1) \o SubSeq(active, k + 1, Len(active))
    ELSE active

\* Mutant: only a new ID is put in.
PutIfAbsent(s) == IF \E t \in Registered : IdOf[t] = IdOf[s] THEN active ELSE Append(active, s)

\* put replaces the entry of the same ID. A full map drops the entry which was not
\* accessed for the longest time.
Put(s) ==
    LET others == Without(IdOf[s])
    IN  Append(IF Len(others) >= MaxSize THEN Tail(others) ELSE others, s)

\* A registration which was not accessed for five minutes is dropped.
Expire ==
    /\ MayExpire
    /\ active # <<>>
    /\ active' = Tail(active)
    /\ UNCHANGED <<pc, flag, futures, searchVars, interrupted, cancelling, shutdown, dbErrors,
                   requested, late>>

-----------------------------------------------------------------------------
(* Searcher.search                                                         *)

\* A caller continues a search with the same ID, normally after it was answered.
Enter(s) ==
    /\ pc[s] = "new"
    /\ MayOverlap \/ \A t \in Searches : IdOf[t] = IdOf[s] => pc[t] \in {"new"} \cup Ended
    /\ shutdown = "no"
    /\ pc' = [pc EXCEPT ![s] = "select"]
    /\ UNCHANGED <<active, flag, futures, searchVars, interrupted, cancelling, shutdown, dbErrors,
                   requested, late>>

\* After getSearchCacheEntry the search is registered, before any indexer is queried.
Register(s) ==
    /\ pc[s] = "select"
    /\ active' = Put(s)
    /\ pc' = [pc EXCEPT ![s] = "loop"]
    /\ UNCHANGED <<flag, futures, searchVars, interrupted, cancelling, shutdown, dbErrors,
                   requested, late>>

\* Mutant: the shutdown is not looked at.
MustEndOnShortcut(s) == flag[s]

MustEnd(s) == shutdown = "requested" \/ shutdown = "closed" \/ flag[s]

\* Mutant: one query too many.
CanBeQueriedAgain(s) == {i \in Indexers : queries[s][i] <= MaxQueries}

CanBeQueried(s) == {i \in Indexers : queries[s][i] < MaxQueries}

\* The condition of the loop, then the indexers to search.
BeginRound(s, toSearch) ==
    /\ pc[s] = "loop"
    /\ ~ MustEnd(s)
    /\ toSearch # {}
    /\ toSearch \subseteq CanBeQueried(s)
    /\ toSubmit' = [toSubmit EXCEPT ![s] = toSearch]
    /\ pc' = [pc EXCEPT ![s] = "open"]
    /\ late' = IF s \in requested THEN late \cup {s} ELSE late
    /\ UNCHANGED <<active, flag, futures, submitting, calls, queries, executor, interrupted,
                   cancelling, shutdown, dbErrors, requested>>

\* The loop ends; removes whatever is registered with the search's ID.
End(s) ==
    /\ pc[s] = "loop"
    /\ active' = Without(IdOf[s])
    /\ pc' = [pc EXCEPT ![s] = "done"]
    /\ UNCHANGED <<flag, futures, searchVars, interrupted, cancelling, shutdown, dbErrors,
                   requested, late>>

\* Saving the results fails. The registration stays, see Expire.
Fail(s) ==
    /\ pc[s] = "persist"
    /\ dbErrors < MaxDbErrors
    /\ dbErrors' = dbErrors + 1
    /\ pc' = [pc EXCEPT ![s] = "failed"]
    /\ UNCHANGED <<active, flag, futures, searchVars, interrupted, cancelling, shutdown, requested, late>>

Persisted(s) ==
    /\ pc[s] = "persist"
    /\ pc' = [pc EXCEPT ![s] = "loop"]
    /\ UNCHANGED <<active, flag, futures, searchVars, interrupted, cancelling, shutdown, dbErrors,
                   requested, late>>

-----------------------------------------------------------------------------
(* Searcher.queryIndexers                                                  *)

\* The executor of a round which began just before the shutdown is not closed by it.
OpenExecutor(s) ==
    /\ pc[s] = "open"
    /\ executor' = [executor EXCEPT ![s] = "open"]
    /\ pc' = [pc EXCEPT ![s] = "submit"]
    /\ UNCHANGED <<active, flag, futures, toSubmit, submitting, calls, queries, interrupted,
                   cancelling, shutdown, dbErrors, requested, late>>

Submit(s, i) ==
    /\ pc[s] = "submit"
    /\ i \in toSubmit[s]
    /\ executor[s] = "open"
    /\ calls' = [calls EXCEPT ![s][i] = "running"]
    /\ toSubmit' = [toSubmit EXCEPT ![s] = @ \ {i}]
    /\ submitting' = [submitting EXCEPT ![s] = i]
    /\ pc' = [pc EXCEPT ![s] = "track"]
    /\ UNCHANGED <<active, flag, futures, queries, executor, interrupted, cancelling, shutdown,
                   dbErrors, requested, late>>

Track(s) ==
    /\ pc[s] = "track"
    /\ futures' = [futures EXCEPT ![s] = @ \cup {submitting[s]}]
    /\ pc' = [pc EXCEPT ![s] = "check"]
    /\ UNCHANGED <<active, flag, searchVars, interrupted, cancelling, shutdown, dbErrors,
                   requested, late>>

Cancelled(call) == IF call = "running" THEN "cancelled" ELSE call

\* Mutant: a shortcut between submitting and registering the call is not noticed.
CancelIfRequestedNever(s) == UNCHANGED calls

CancelIfRequested(s) ==
    calls' = IF flag[s] THEN [calls EXCEPT ![s][submitting[s]] = Cancelled(@)] ELSE calls

Check(s) ==
    /\ pc[s] = "check"
    /\ CancelIfRequested(s)
    /\ pc' = [pc EXCEPT ![s] = IF toSubmit[s] = {} THEN "await" ELSE "submit"]
    /\ UNCHANGED <<active, flag, futures, toSubmit, submitting, queries, executor, interrupted,
                   cancelling, shutdown, dbErrors, requested, late>>

\* The answer of an indexer is added, a cancelled one ends the search.
Await(s, i) ==
    /\ pc[s] = "await"
    /\ \/ /\ calls[s][i] = "answered"
          /\ queries' = [queries EXCEPT ![s][i] = @ + 1]
          /\ UNCHANGED flag
       \/ /\ calls[s][i] = "cancelled"
          /\ flag' = [flag EXCEPT ![s] = TRUE]
          /\ UNCHANGED queries
    /\ calls' = [calls EXCEPT ![s][i] = "none"]
    /\ UNCHANGED <<active, pc, futures, toSubmit, submitting, executor, interrupted, cancelling,
                   shutdown, dbErrors, requested, late>>

\* The finally block: the calls still running are interrupted, their results lost.
CloseRound(s) ==
    /\ futures' = [futures EXCEPT ![s] = {}]
    /\ calls' = [calls EXCEPT ![s] = [i \in Indexers |-> "none"]]
    /\ toSubmit' = [toSubmit EXCEPT ![s] = {}]
    /\ executor' = [executor EXCEPT ![s] = "none"]
    /\ UNCHANGED <<active, flag, submitting, queries, interrupted, cancelling, shutdown, dbErrors,
                   requested, late>>

EndRound(s) ==
    /\ pc[s] = "await"
    /\ \A i \in Indexers : calls[s][i] = "none"
    /\ pc' = [pc EXCEPT ![s] = "persist"]
    /\ CloseRound(s)

\* get is interrupted; the interrupt status is set again, so that the next one is too.
RoundInterrupted(s) ==
    /\ pc[s] = "await"
    /\ interrupted[s]
    /\ \E i \in Indexers : calls[s][i] = "running"
    /\ pc' = [pc EXCEPT ![s] = "persist"]
    /\ CloseRound(s)

\* submit is rejected by an executor which was shut down, the exception ends the search.
SubmitRejected(s) ==
    /\ pc[s] = "submit"
    /\ executor[s] = "closed"
    /\ pc' = [pc EXCEPT ![s] = "failed"]
    /\ CloseRound(s)

\* The call to an indexer ends, at the latest with its timeout.
CallEnds(s, i) ==
    /\ calls[s][i] = "running"
    /\ calls' = [calls EXCEPT ![s][i] = "answered"]
    /\ UNCHANGED <<active, pc, flag, futures, toSubmit, submitting, queries, executor, interrupted,
                   cancelling, shutdown, dbErrors, requested, late>>

-----------------------------------------------------------------------------
(* Searcher.shortcutSearch                                                 *)

\* Mutant: all searches are cut short.
FoundAll(id) == Registered

FoundBy(id) == {s \in Registered : IdOf[s] = id}

\* A shortcut requested again, or when no search with the ID runs, changes nothing.
\* Getting a registration counts as an access.
Shortcut(id) ==
    /\ \E s \in Searches : IdOf[s] = id /\ IsRunning(s) /\ s \notin requested
    /\ requested' = requested \cup {s \in Searches : IdOf[s] = id /\ IsRunning(s)}
    /\ flag' = [s \in Searches |-> flag[s] \/ s \in FoundBy(id)]
    /\ cancelling' = cancelling \cup FoundBy(id)
    /\ \/ FoundBy(id) = {} /\ UNCHANGED active
       \/ \E s \in FoundBy(id) : active' = Append(Without(id), s)
    /\ UNCHANGED <<pc, futures, searchVars, interrupted, shutdown, dbErrors, late>>

\* The block synchronized on the futures.
CancelFutures(s) ==
    /\ s \in cancelling
    /\ cancelling' = cancelling \ {s}
    /\ calls' = [calls EXCEPT ![s] = [i \in Indexers |-> IF i \in futures[s] THEN Cancelled(@[i]) ELSE @[i]]]
    /\ UNCHANGED <<active, pc, flag, futures, toSubmit, submitting, queries, executor, interrupted,
                   shutdown, dbErrors, requested, late>>

-----------------------------------------------------------------------------
(* The application is stopped                                              *)

\* First the web server stops and interrupts the threads of its requests.
StopWebServer ==
    /\ MayStop
    /\ shutdown = "no"
    /\ shutdown' = "stopping"
    /\ interrupted' = [s \in Searches |-> pc[s] \notin {"new"} \cup Ended]
    /\ UNCHANGED <<active, pc, flag, futures, searchVars, cancelling, dbErrors, requested, late>>

\* Searcher.onShutdown, then its loop over the executors.
RequestShutdown ==
    /\ shutdown = "stopping"
    /\ shutdown' = "requested"
    /\ UNCHANGED <<active, pc, flag, futures, searchVars, interrupted, cancelling, dbErrors,
                   requested, late>>

CloseExecutors ==
    /\ shutdown = "requested"
    /\ shutdown' = "closed"
    /\ executor' = [s \in Searches |-> IF executor[s] = "open" THEN "closed" ELSE executor[s]]
    /\ UNCHANGED <<active, pc, flag, futures, toSubmit, submitting, calls, queries, interrupted,
                   cancelling, dbErrors, requested, late>>

-----------------------------------------------------------------------------

Init ==
    /\ active = <<>>
    /\ pc = [s \in Searches |-> "new"]
    /\ flag = [s \in Searches |-> FALSE]
    /\ futures = [s \in Searches |-> {}]
    /\ toSubmit = [s \in Searches |-> {}]
    /\ submitting = [s \in Searches |-> CHOOSE i \in Indexers : TRUE]
    /\ calls = [s \in Searches |-> [i \in Indexers |-> "none"]]
    /\ queries = [s \in Searches |-> [i \in Indexers |-> 0]]
    /\ executor = [s \in Searches |-> "none"]
    /\ interrupted = [s \in Searches |-> FALSE]
    /\ cancelling = {}
    /\ shutdown = "no"
    /\ dbErrors = 0
    /\ requested = {}
    /\ late = {}

\* What the thread of a search does.
SearchStep(s) ==
    \/ Register(s)
    \/ \E toSearch \in SUBSET Indexers : BeginRound(s, toSearch)
    \/ OpenExecutor(s)
    \/ End(s)
    \/ Fail(s)
    \/ Persisted(s)
    \/ \E i \in Indexers : Submit(s, i) \/ Await(s, i)
    \/ Track(s)
    \/ Check(s)
    \/ EndRound(s)
    \/ RoundInterrupted(s)
    \/ SubmitRejected(s)

Next ==
    \/ Expire
    \/ \E s \in Searches : Enter(s) \/ SearchStep(s) \/ CancelFutures(s)
    \/ \E s \in Searches, i \in Indexers : CallEnds(s, i)
    \/ \E id \in Ids : Shortcut(id)
    \/ StopWebServer
    \/ RequestShutdown
    \/ CloseExecutors

\* Threads run, calls have a timeout, and an application which is being stopped is
\* stopped completely.
Spec ==
    /\ Init /\ [][Next]_vars
    /\ \A s \in Searches : WF_vars(SearchStep(s)) /\ WF_vars(CancelFutures(s))
    /\ \A s \in Searches, i \in Indexers : WF_vars(CallEnds(s, i))
    /\ WF_vars(RequestShutdown) /\ WF_vars(CloseExecutors)

-----------------------------------------------------------------------------
(* Correctness                                                             *)

\* Every variable has a value the code could store in it, and no indexer is queried
\* more often than allowed.
TypeOK ==
    /\ active \in Seq(Searches)
    /\ pc \in [Searches -> PCs]
    /\ flag \in [Searches -> BOOLEAN]
    /\ futures \in [Searches -> SUBSET Indexers]
    /\ toSubmit \in [Searches -> SUBSET Indexers]
    /\ submitting \in [Searches -> Indexers]
    /\ calls \in [Searches -> [Indexers -> {"none", "running", "answered", "cancelled"}]]
    /\ queries \in [Searches -> [Indexers -> 0..MaxQueries]]
    /\ executor \in [Searches -> {"none", "open", "closed"}]
    /\ interrupted \in [Searches -> BOOLEAN]
    /\ cancelling \in SUBSET Searches
    /\ shutdown \in {"no", "stopping", "requested", "closed"}
    /\ dbErrors \in 0..MaxDbErrors
    /\ requested \in SUBSET Searches
    /\ late \in SUBSET Searches

\* A shortcut is never lost, as the comment in Searcher.search says: once it was
\* requested for a registered search no other round of queries begins.
NoRoundAfterShortcut == late = {}

\* A shortcut ends the calls of the round in flight, even one which is being submitted
\* while the others are cancelled: no search which was cut short waits for an answer.
EveryCallCancelled ==
    \A s \in Searches : flag[s] /\ s \notin cancelling /\ pc[s] = "await" =>
        \A i \in Indexers : calls[s][i] # "running"

\* Only a search for which it was requested is cut short, never one which runs next to
\* it, follows it with the same ID, or is interrupted.
OnlyRequestedCut == \A s \in Searches : flag[s] /\ pc[s] \notin Ended => s \in requested

\* Every search ends, also one whose thread was interrupted: its rounds add no results
\* and so never reach a limit, the shutdown which follows has to end it.
EverySearchEnds == \A s \in Searches : pc[s] = "select" ~> pc[s] \in Ended
=============================================================================
