------------------------------ MODULE SearchPage ------------------------------
(***************************************************************************)
(* The search page of the web UI: features/search/SearchPage.tsx with the  *)
(* calls of api/search.ts, its subscription to the progress of the search, *)
(* the router, and the searches which run on the server for it.            *)
(*                                                                         *)
(* Every submission is a call of submit which goes on in steps: when the   *)
(* navigation ends, when the search is answered, when its subscription is  *)
(* settled. Between these the user goes on, submits again, cancels, moves  *)
(* through the browser's history or leaves. What the user can type and     *)
(* what a URL can say are Values and Routes; a URL need not say all that   *)
(* was typed.                                                              *)
(***************************************************************************)
EXTENDS Naturals, Sequences, FiniteSets

CONSTANTS
    Values,           \* what a search form can hold (SearchFormValues)
    Routes,           \* criteria in the URL, as routeKey tells them apart
    Executable,       \* the routes which hold an executed search
    Canonical,        \* canonicalSearch: the route of what was submitted
    Resolved,         \* valuesFromSearch: how a route is read
    MaxRemembered,    \* rememberedRouteLimit
    EmbyConfigured,   \* isEmbyConfigured
    NoValues,         \* nothing submitted yet
    MaxActs,          \* bound: what the user does
    MaxSubmissions,   \* bound: submissions; enough for all that MaxActs acts can cause
    MaxFailures       \* bound: requests and subscriptions which fail

ASSUME RoutesAssumption ==
    /\ Executable \subseteq Routes
    /\ Canonical \in [Values -> Executable] /\ Resolved \in [Routes -> Values]
ASSUME NoValuesAssumption == NoValues \notin Values
ASSUME BoundsAssumption ==
    /\ MaxRemembered \in Nat \ {0} /\ EmbyConfigured \in BOOLEAN
    /\ MaxActs \in Nat /\ MaxSubmissions \in Nat /\ MaxFailures \in Nat

Submissions == 1..MaxSubmissions

VARIABLES
    life,          \* "mounted", "leaving": unmounted with the release pending, "gone", "hidden"
    location,      \* the URL
    route,         \* the route of the last render
    effectsDue,    \* whether the effects of that render are still to run
    remembered,    \* submittedRoutes, in the order of the Map
    criteria,      \* submittedCriteria of AutoSubmitFromRoute
    count,         \* submissions so far
    values,        \* what each one submitted
    pc,            \* where each one is
    cancelled,     \* the submissions with cancelled set
    active,        \* activeSubmission, 0 for none
    inFlight,      \* inFlightSearchRequestId, 0 for none
    page,          \* state: loading, whose data, whether there is an error
    progress,      \* whose progress is shown, 0 for none
    live,          \* the subscription of each submission
    emby,          \* submissions whose check of Emby is under way
    generation,    \* embyGeneration: the submission it was increased for, 0 after unmounting
    embyShown,     \* whose Emby availability is shown, 0 for none
    aborted,       \* submissions whose search was aborted on the server
    blank,         \* whether the user cancelled the last submission
    acts,          \* what the user did so far
    failures       \* failures so far

routeVars == <<location, route, effectsDue, remembered, criteria>>
submissionVars == <<count, values, pc, cancelled, active, inFlight>>
shownVars == <<page, progress, embyShown>>
vars == <<life, routeVars, submissionVars, shownVars, live, emby, generation, aborted, blank,
          acts, failures>>

Live == INSTANCE LiveSubscription WITH Subscribers <- Submissions

Nothing == [loading |-> FALSE, data |-> 0, error |-> FALSE]
Loading == [Nothing EXCEPT !.loading = TRUE]

Acts == life = "mounted" /\ acts < MaxActs /\ acts' = acts + 1
Fails == failures < MaxFailures /\ failures' = failures + 1

-----------------------------------------------------------------------------
(* Routes                                                                  *)

Remembered(r) == {k \in DOMAIN remembered : remembered[k].route = r}

\* rememberSubmittedRoute. A Map keeps the place of a key it has; the oldest go first.
Remember(r, v) ==
    LET entry == [route |-> r, values |-> v]
        all == IF Remembered(r) # {}
               THEN [k \in DOMAIN remembered |-> IF k \in Remembered(r) THEN entry ELSE remembered[k]]
               ELSE Append(remembered, entry)
    IN  IF Len(all) > MaxRemembered THEN Tail(all) ELSE all

\* Mutant: what was submitted is always read back from the URL.
RouteValuesResolved(r) == Resolved[r]

\* routeValues.
RouteValues(r) ==
    IF Remembered(r) # {}
    THEN remembered[CHOOSE k \in Remembered(r) : TRUE].values
    ELSE Resolved[r]

-----------------------------------------------------------------------------
(* Giving up on a search                                                   *)

\* Mutant: the search goes on on the server.
AbortRunningSearchNever == UNCHANGED <<inFlight, aborted>>

\* abortRunningSearch.
AbortRunningSearch ==
    /\ inFlight' = 0
    /\ aborted' = IF inFlight = 0 THEN aborted ELSE aborted \cup {inFlight}

\* What cancelling s does. A subscription which is not settled yet has no handle to close.
Cancel(s) ==
    /\ cancelled' = cancelled \cup {s}
    /\ IF live[s] = "open" THEN Live!Close(s) ELSE UNCHANGED live

\* releaseSubmission.
Release(s) ==
    IF s = 0 \/ s \in cancelled
    THEN UNCHANGED <<cancelled, active, live>>
    ELSE Cancel(s) /\ active' = IF active = s THEN 0 ELSE active

-----------------------------------------------------------------------------
(* submit                                                                  *)

\* Until the navigation is awaited.
Submit(v) ==
    /\ count < MaxSubmissions
    /\ count' = count + 1
    /\ values' = [values EXCEPT ![count'] = v]
    /\ pc' = [pc EXCEPT ![count'] = "navigating"]
    /\ AbortRunningSearch
    /\ IF active = 0 THEN UNCHANGED <<cancelled, live>> ELSE Cancel(active)
    /\ active' = count'
    /\ generation' = count'
    /\ remembered' = Remember(Canonical[v], v)
    /\ location' = Canonical[v]
    /\ page' = Loading
    /\ progress' = 0 /\ embyShown' = 0
    /\ blank' = FALSE
    /\ UNCHANGED <<life, route, emby>>

\* The form, or repeating a recent search.
UserSubmits(v) ==
    /\ Acts
    /\ Submit(v)
    /\ UNCHANGED <<effectsDue, criteria, failures>>

\* The navigation ends, before or after its route is rendered. The subscription is not
\* awaited before the search is sent.
NavigationEnds(s) ==
    /\ life # "hidden"
    /\ pc[s] = "navigating"
    /\ IF s \in cancelled
       THEN /\ pc' = [pc EXCEPT ![s] = "done"]
            /\ UNCHANGED <<live, inFlight>>
       ELSE /\ pc' = [pc EXCEPT ![s] = "waiting"]
            /\ Live!Subscribe(s)
            /\ inFlight' = s
    /\ UNCHANGED <<life, routeVars, count, values, cancelled, active, shownVars, emby,
                   generation, aborted, blank, acts, failures>>

\* Mutant: whatever is answered is shown.
IsActiveAlways(s) == TRUE

\* Mutant: an answer counts only as long as its search is in flight.
IsActiveInFlight(s) == inFlight = s

IsActive(s) == active = s

\* The finally block.
InFlightAfter(s) == IF inFlight = s THEN 0 ELSE inFlight

\* executeSearch returns.
Answered(s) ==
    /\ life # "hidden"
    /\ pc[s] = "waiting"
    /\ pc' = [pc EXCEPT ![s] = "done"]
    /\ page' = IF IsActive(s) THEN [Nothing EXCEPT !.data = s] ELSE page
    /\ emby' = IF IsActive(s) /\ EmbyConfigured THEN emby \cup {s} ELSE emby
    /\ inFlight' = InFlightAfter(s)
    /\ Release(s)
    /\ UNCHANGED <<life, routeVars, count, values, progress, embyShown, generation,
                   aborted, blank, acts, failures>>

\* executeSearch throws, on its way there or back, or because the answer is malformed. The
\* server may go on with the search.
SearchFails(s) ==
    /\ life # "hidden"
    /\ pc[s] = "waiting"
    /\ Fails
    /\ pc' = [pc EXCEPT ![s] = "done"]
    /\ page' = IF IsActive(s) THEN [Nothing EXCEPT !.error = TRUE] ELSE page
    /\ inFlight' = InFlightAfter(s)
    /\ Release(s)
    /\ UNCHANGED <<life, routeVars, count, values, progress, embyShown, emby, generation,
                   aborted, blank, acts>>

\* checkEmbyAvailability is answered, or fails, which is shown as well.
EmbyAnswered(s) ==
    /\ life # "hidden"
    /\ s \in emby
    /\ emby' = emby \ {s}
    /\ embyShown' = IF generation = s THEN s ELSE embyShown
    /\ UNCHANGED <<life, routeVars, submissionVars, page, progress, live, generation,
                   aborted, blank, acts, failures>>

-----------------------------------------------------------------------------
(* The subscription to the progress                                        *)

UnchangedByLive == UNCHANGED <<life, routeVars, submissionVars, page, embyShown, emby, generation,
                               aborted, blank, acts>>

\* Mutant: a subscription which arrives late is kept.
KeptAfterAll(s) == TRUE

IsKept(s) == s \notin cancelled

\* The connection comes up, late or at once. What arrives for a submission which was
\* cancelled meanwhile is closed rather than leaked.
Subscribed ==
    /\ \E s \in Submissions : live[s] = "waiting"
    /\ live' = [s \in Submissions |->
                   IF live[s] # "waiting" THEN live[s] ELSE IF IsKept(s) THEN "open" ELSE "closed"]
    /\ UNCHANGED <<progress, failures>>
    /\ UnchangedByLive

\* The connection fails before it was there.
SubscribeFails ==
    /\ \E s \in Submissions : live[s] = "waiting"
    /\ Fails
    /\ Live!Reject
    /\ UNCHANGED progress
    /\ UnchangedByLive

\* A message of the search. Those of other searches are filtered by their ID.
Progress(s) ==
    /\ life # "hidden"
    /\ pc[s] = "waiting"
    /\ live[s] = "open"
    /\ progress' = IF IsActive(s) THEN s ELSE progress
    /\ UNCHANGED <<live, failures>>
    /\ UnchangedByLive

-----------------------------------------------------------------------------
(* The user                                                                *)

\* The comparison of AutoSubmitFromRoute.
IsDistinct == RouteValues(route) # criteria

\* The route is rendered and its effects have run.
Settled == location = route /\ ~ effectsDue /\ (route \in Executable => ~ IsDistinct)

\* Back, forward, a link, a search of the history, another URL. The user is slower than a
\* render and its effects, never mind how much slower the answers are.
Navigate(r) ==
    /\ Acts
    /\ Settled
    /\ location' = r
    /\ UNCHANGED <<life, route, effectsDue, remembered, criteria, submissionVars, shownVars,
                   live, emby, generation, aborted, blank, failures>>

Render ==
    /\ life = "mounted"
    /\ route # location
    /\ route' = location
    /\ effectsDue' = TRUE
    /\ UNCHANGED <<life, location, remembered, criteria, submissionVars, shownVars, live, emby,
                   generation, aborted, blank, acts, failures>>

\* AutoSubmitFromRoute's effect. A submission on the same route can be a reason, too.
SubmitRoute ==
    /\ life = "mounted"
    /\ route \in Executable
    /\ effectsDue \/ IsDistinct
    /\ effectsDue' = FALSE
    /\ IF IsDistinct
       THEN /\ criteria' = RouteValues(route)
            /\ Submit(RouteValues(route))
       ELSE UNCHANGED <<life, location, route, remembered, criteria, submissionVars, shownVars,
                        live, emby, generation, aborted, blank>>
    /\ UNCHANGED <<acts, failures>>

\* What cancelling and a route without a search have in common.
Reset ==
    /\ AbortRunningSearch
    /\ Release(active)
    /\ page' = Nothing
    /\ progress' = 0
    /\ UNCHANGED <<life, location, route, remembered, criteria, count, values, pc, emby, generation>>

\* The effect of a route without a search.
LeaveSearch ==
    /\ life = "mounted"
    /\ effectsDue /\ route \notin Executable
    /\ effectsDue' = FALSE
    /\ Reset
    /\ embyShown' = 0
    /\ blank' = FALSE
    /\ UNCHANGED <<acts, failures>>

CancelSearch ==
    /\ Acts
    /\ page.loading
    /\ Reset
    /\ blank' = TRUE
    /\ UNCHANGED <<effectsDue, embyShown, failures>>

\* The tab is closed, or only put aside and shown again later.
PageHide ==
    /\ Acts
    /\ AbortRunningSearch
    /\ life' \in {"mounted", "hidden"}
    /\ UNCHANGED <<routeVars, count, values, pc, cancelled, active, shownVars, live, emby,
                   generation, blank, failures>>

\* Another page of the UI is opened. The search is given up in a task of its own.
Unmount ==
    /\ Acts
    /\ life' = "leaving"
    /\ UNCHANGED <<routeVars, submissionVars, shownVars, live, emby, generation, aborted,
                   blank, failures>>

ReleaseAfterUnmount ==
    /\ life = "leaving"
    /\ life' = "gone"
    /\ generation' = 0
    /\ AbortRunningSearch
    /\ Release(active)
    /\ UNCHANGED <<routeVars, count, values, pc, shownVars, emby, blank, acts, failures>>

-----------------------------------------------------------------------------

Init ==
    /\ life = "mounted"
    /\ location \in Routes
    /\ route = location
    /\ effectsDue = TRUE
    /\ remembered = <<>>
    /\ criteria = NoValues
    /\ count = 0
    /\ values = [s \in Submissions |-> NoValues]
    /\ pc = [s \in Submissions |-> "none"]
    /\ cancelled = {}
    /\ active = 0
    /\ inFlight = 0
    /\ page = Nothing
    /\ progress = 0
    /\ Live!Init
    /\ emby = {}
    /\ generation = 0
    /\ embyShown = 0
    /\ aborted = {}
    /\ blank = FALSE
    /\ acts = 0
    /\ failures = 0

User ==
    \/ \E v \in Values : UserSubmits(v)
    \/ \E r \in Routes : Navigate(r)
    \/ CancelSearch
    \/ PageHide
    \/ Unmount

\* What goes on by itself.
Page ==
    \/ \E s \in Submissions : NavigationEnds(s) \/ Answered(s) \/ EmbyAnswered(s)
    \/ Render
    \/ SubmitRoute
    \/ LeaveSearch
    \/ ReleaseAfterUnmount

Next ==
    \/ User
    \/ Page
    \/ \E s \in Submissions : SearchFails(s) \/ Progress(s)
    \/ Subscribed
    \/ SubscribeFails

\* The browser runs what is due and searches are answered. The user and the connection for
\* the progress need do nothing.
Spec == Init /\ [][Next]_vars /\ WF_vars(Page)

-----------------------------------------------------------------------------
(* Correctness                                                             *)

\* Every variable has a value the code could store in it.
TypeOK ==
    /\ life \in {"mounted", "leaving", "gone", "hidden"}
    /\ {location, route} \subseteq Routes /\ effectsDue \in BOOLEAN
    /\ remembered \in Seq([route : Routes, values : Values]) /\ Len(remembered) <= MaxRemembered
    /\ criteria \in Values \cup {NoValues}
    /\ count \in 0..MaxSubmissions
    /\ values \in [Submissions -> Values \cup {NoValues}]
    /\ pc \in [Submissions -> {"none", "navigating", "waiting", "done"}]
    /\ {cancelled, emby, aborted} \subseteq SUBSET Submissions
    /\ {active, inFlight, progress, embyShown, generation} \subseteq {0} \cup Submissions
    /\ page \in [loading : BOOLEAN, data : {0} \cup Submissions, error : BOOLEAN]
    /\ blank \in BOOLEAN
    /\ live \in [Submissions -> Live!States]
    /\ acts \in 0..MaxActs /\ failures \in 0..MaxFailures

\* Whether nothing but the user moves the page.
AtRest == Settled /\ \A s \in Submissions : pc[s] \in {"none", "done"}

\* Results, progress and dialog on the page are those of the last submission, whatever
\* order the answers of earlier ones come in.
OnlyCurrentShown ==
    /\ TypeOK
    /\ page.data \in {0, count}
    /\ progress \in {0, count}
    /\ life = "mounted" => (page.loading <=> active # 0)

\* No search keeps running unaborted on the server for a page which does not wait for it:
\* after cancelling, searching again, leaving the search or the page.
AbandonedAborted ==
    \A s \in Submissions :
        pc[s] = "waiting" => s \in aborted \/ (s = active /\ s = inFlight)

\* No subscription outlives its submission, also when it is settled after that was over.
NoSubscriptionLeaked == \A s \in Submissions : live[s] = "open" => s = active

\* Results are those of the search in the URL.
ResultsMatchRoute ==
    AtRest /\ page.data # 0 => route \in Executable /\ values[page.data] = RouteValues(route)

\* The progress dialog closes by itself: every search is answered or fails in the end.
DialogCloses == page.loading /\ life = "mounted" ~> ~ page.loading \/ life # "mounted"
=============================================================================
