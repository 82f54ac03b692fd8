--------------------------- MODULE SearchPage_proofs ---------------------------
(***************************************************************************)
(* Proofs about SearchPage for any values and routes, and any number of    *)
(* submissions, acts and failures.                                         *)
(*                                                                         *)
(* The invariants rest on one fact which no line of the code states:       *)
(* there is never more than one submission which is not cancelled, it is   *)
(* the last, and activeSubmission refers to it (Bookkeeping). What settles *)
(* late then belongs to this one or finds cancelled set.                   *)
(***************************************************************************)
EXTENDS SearchPage, SequenceTheorems, TLAPS

\* Only the last submission can be active, it is not cancelled, and all others are.
\* Those to come have left no trace.
Bookkeeping ==
    /\ active \in {0, count} /\ active \notin cancelled
    /\ \A s \in Submissions : s <= count /\ s \notin cancelled => s = active
    /\ \A s \in Submissions : s > count => pc[s] = "none" /\ live[s] = "none" /\ s \notin cancelled

\* What is shown is the last submission's, and the dialog is there while it is active.
Shown ==
    /\ page.data \in {0, count} /\ progress \in {0, count}
    /\ life = "mounted" => (page.loading <=> active # 0)

IInv == TypeOK /\ Bookkeeping /\ Shown /\ AbandonedAborted /\ NoSubscriptionLeaked

-----------------------------------------------------------------------------
(* The operators                                                           *)

\* rememberSubmittedRoute keeps the routes in order and within the limit.
LEMMA RememberTyping ==
    ASSUME remembered \in Seq([route : Routes, values : Values]), Len(remembered) <= MaxRemembered,
           NEW r \in Routes, NEW v \in Values
    PROVE  /\ Remember(r, v) \in Seq([route : Routes, values : Values])
           /\ Len(Remember(r, v)) <= MaxRemembered
<1> DEFINE E == [route : Routes, values : Values]
           entry == [route |-> r, values |-> v]
           replaced == [k \in DOMAIN remembered |->
                           IF k \in Remembered(r) THEN entry ELSE remembered[k]]
           all == IF Remembered(r) # {} THEN replaced ELSE Append(remembered, entry)
<1>1. entry \in E
  OBVIOUS
<1>2. replaced \in Seq(E) /\ Len(replaced) = Len(remembered)
  <2> HIDE DEF E, entry
  <2>1. DOMAIN replaced = 1..Len(remembered) /\ Len(remembered) \in Nat
    BY DEF E
  <2>2. \A k \in 1..Len(remembered) : replaced[k] \in E
    <3>1. ASSUME NEW k \in 1..Len(remembered) PROVE remembered[k] \in E
      BY ElementOfSeq DEF E
    <3>2. QED BY <1>1, <3>1, <2>1
  <2>3. QED BY <2>1, <2>2
<1>3. all \in Seq(E) /\ Len(all) <= MaxRemembered + 1
  <2> HIDE DEF entry, replaced
  <2>1. CASE Remembered(r) # {}
    BY <2>1, <1>2, BoundsAssumption
  <2>2. CASE Remembered(r) = {}
    BY <2>2, <1>1, BoundsAssumption
  <2>3. QED BY <2>1, <2>2
<1>4. Remember(r, v) = IF Len(all) > MaxRemembered THEN Tail(all) ELSE all
  BY DEF Remember
<1>5. QED
  <2> HIDE DEF all, E
  <2>1. CASE Len(all) > MaxRemembered
    BY <2>1, <1>3, <1>4, BoundsAssumption DEF E
  <2>2. CASE ~(Len(all) > MaxRemembered)
    BY <2>2, <1>3, <1>4, BoundsAssumption DEF E
  <2>3. QED BY <2>1, <2>2

\* routeValues is always something the user could have typed.
LEMMA RouteValuesTyping ==
    ASSUME remembered \in Seq([route : Routes, values : Values]), NEW r \in Routes
    PROVE  RouteValues(r) \in Values
<1>1. CASE Remembered(r) # {}
  <2>1. PICK k \in DOMAIN remembered :
           k = (CHOOSE m \in Remembered(r) : TRUE)
    BY <1>1 DEF Remembered
  <2>2. remembered[k].values \in Values
    <3>1. k \in 1..Len(remembered)
      OBVIOUS
    <3>2. remembered[k] \in [route : Routes, values : Values]
      BY <3>1, ElementOfSeq
    <3>3. QED BY <3>2
  <2>3. QED BY <1>1, <2>1, <2>2 DEF RouteValues
<1>2. CASE Remembered(r) = {}
  BY <1>2, RoutesAssumption DEF RouteValues
<1>3. QED BY <1>1, <1>2

-----------------------------------------------------------------------------
(* The steps                                                               *)

\* A page without a search.
LEMMA InitInvariant == Init => IInv
<1> SUFFICES ASSUME Init PROVE IInv
  OBVIOUS
<1> USE DEF Init
<1>1. TypeOK
  <2>1. acts \in 0..MaxActs /\ failures \in 0..MaxFailures /\ count \in 0..MaxSubmissions
    BY BoundsAssumption
  <2>2. remembered \in Seq([route : Routes, values : Values]) /\ Len(remembered) <= MaxRemembered
    BY BoundsAssumption
  <2>3. live \in [Submissions -> Live!States]
    BY DEF Live!Init, Live!States
  <2>4. page \in [loading : BOOLEAN, data : {0} \cup Submissions, error : BOOLEAN]
    BY DEF Nothing
  <2>5. QED BY <2>1, <2>2, <2>3, <2>4 DEF TypeOK
<1>2. Bookkeeping
  BY DEF Bookkeeping, Live!Init
<1>3. Shown
  BY DEF Shown, Nothing
<1>4. AbandonedAborted /\ NoSubscriptionLeaked
  BY DEF AbandonedAborted, NoSubscriptionLeaked, Live!Init
<1>5. QED BY <1>1, <1>2, <1>3, <1>4 DEF IInv

\* abortRunningSearch tells the server of the one search which may run unaborted.
LEMMA AbortFacts ==
    ASSUME IInv, AbortRunningSearch
    PROVE  /\ inFlight' = 0 /\ aborted' \in SUBSET Submissions
           /\ \A s \in Submissions : pc[s] = "waiting" => s \in aborted'
<1>1. inFlight' = 0 /\ aborted' \in SUBSET Submissions
  BY DEF AbortRunningSearch, IInv, TypeOK
<1>2. ASSUME NEW s \in Submissions, pc[s] = "waiting" PROVE s \in aborted'
  <2>1. s \in aborted \/ s = inFlight
    BY <1>2 DEF IInv, AbandonedAborted
  <2>2. s # 0
    BY DEF Submissions
  <2>3. QED BY <2>1, <2>2 DEF AbortRunningSearch
<1>3. QED BY <1>1, <1>2

\* releaseSubmission cancels, deactivates and closes what is there, or finds that done.
LEMMA ReleaseFacts ==
    ASSUME IInv, NEW s \in {0} \cup Submissions, Release(s)
    PROVE  /\ cancelled' \in SUBSET Submissions /\ cancelled' \subseteq cancelled \cup {s}
           /\ cancelled \subseteq cancelled' /\ (s # 0 => s \in cancelled')
           /\ active' = IF active = s THEN 0 ELSE active
           /\ live' \in [Submissions -> Live!States]
           /\ \A t \in Submissions : live'[t] = "open" => live[t] = "open" /\ t # s
           /\ \A t \in Submissions : live[t] = "none" => live'[t] = "none"
<1>1. live \in [Submissions -> Live!States] /\ cancelled \in SUBSET Submissions
  BY DEF IInv, TypeOK
<1>2. CASE s = 0 \/ s \in cancelled
  <2>1. cancelled' = cancelled /\ active' = active /\ live' = live
    BY <1>2 DEF Release
  <2>2. active = s => s = 0
    BY <1>2 DEF IInv, Bookkeeping
  <2>3. \A t \in Submissions : live[t] = "open" => t # s
    <3>1. \A t \in Submissions : live[t] = "open" => t = active /\ t # 0
      BY DEF IInv, NoSubscriptionLeaked, Submissions
    <3>2. QED BY <3>1, <2>2
  <2>4. QED BY <1>1, <1>2, <2>1, <2>2, <2>3
<1>3. CASE ~(s = 0 \/ s \in cancelled)
  <2>1. Cancel(s) /\ active' = IF active = s THEN 0 ELSE active
    BY <1>3 DEF Release
  <2>2. cancelled' = cancelled \cup {s} /\ s \in Submissions
    BY <1>3, <2>1 DEF Cancel
  <2>3. live' = IF live[s] = "open" THEN [live EXCEPT ![s] = "closed"] ELSE live
    BY <2>1 DEF Cancel, Live!Close
  <2>4. QED BY <1>1, <1>3, <2>1, <2>2, <2>3 DEF Live!States
<1>4. QED BY <1>2, <1>3

\* Releasing what is active, or what is over, leaves the books in order.
LEMMA ReleaseKeepsBooks ==
    ASSUME IInv, NEW s \in {0} \cup Submissions, s <= count, Release(s), count' = count,
           \A t \in Submissions : pc[t] = "none" => pc'[t] = "none"
    PROVE  Bookkeeping' /\ NoSubscriptionLeaked'
<1>1. cancelled \subseteq cancelled' /\ (s # 0 => s \in cancelled')
      /\ cancelled' \subseteq cancelled \cup {s} /\ cancelled' \in SUBSET Submissions
  BY ReleaseFacts
<1>2. active' = IF active = s THEN 0 ELSE active
  BY ReleaseFacts
<1>3. \A t \in Submissions : live'[t] = "open" => live[t] = "open" /\ t # s
  BY ReleaseFacts
<1>4. \A t \in Submissions : live[t] = "none" => live'[t] = "none"
  BY ReleaseFacts
<1>5. active' \in {0, count'} /\ active' \notin cancelled'
  <2>1. 0 \notin cancelled'
    BY <1>1 DEF Submissions
  <2>2. QED BY <2>1, <1>1, <1>2 DEF IInv, Bookkeeping
<1>6. \A t \in Submissions : t <= count' /\ t \notin cancelled' => t = active'
  <2>1. ASSUME NEW t \in Submissions, t <= count', t \notin cancelled' PROVE t = active'
    <3>1. t = active
      BY <1>1, <2>1 DEF IInv, Bookkeeping
    <3>2. t # s
      BY <1>1, <2>1 DEF Submissions
    <3>3. QED BY <1>2, <3>1, <3>2
  <2>2. QED BY <2>1
<1>7. \A t \in Submissions : t > count' => pc'[t] = "none" /\ live'[t] = "none" /\ t \notin cancelled'
  <2>1. ASSUME NEW t \in Submissions, t > count PROVE t # s
    BY <2>1 DEF Submissions, IInv, TypeOK
  <2>2. QED BY <1>1, <1>4, <2>1 DEF IInv, Bookkeeping
<1>8. NoSubscriptionLeaked'
  BY <1>2, <1>3 DEF IInv, NoSubscriptionLeaked
<1>9. QED BY <1>5, <1>6, <1>7, <1>8 DEF Bookkeeping

\* submit until the navigation: the submission before is cancelled, its search aborted, and
\* the new one is the last and active.
LEMMA SubmitInvariant ==
    ASSUME IInv, NEW v \in Values, Submit(v), acts' \in 0..MaxActs,
           failures' \in 0..MaxFailures, criteria' \in Values \cup {NoValues},
           effectsDue' \in BOOLEAN
    PROVE  IInv'
<1>1. count \in Nat /\ count' = count + 1 /\ count' \in Submissions
      /\ count' \in 0..MaxSubmissions
  BY BoundsAssumption DEF Submit, IInv, TypeOK, Submissions
<1>2. /\ active' = count' /\ generation' = count' /\ progress' = 0 /\ embyShown' = 0
      /\ life' = life /\ route' = route /\ emby' = emby /\ blank' = FALSE
      /\ location' = Canonical[v] /\ remembered' = Remember(Canonical[v], v)
      /\ page' = Loading
      /\ values' = [values EXCEPT ![count'] = v]
      /\ pc' = [pc EXCEPT ![count'] = "navigating"]
  BY DEF Submit
<1>3. inFlight' = 0 /\ aborted' \in SUBSET Submissions
      /\ \A s \in Submissions : pc[s] = "waiting" => s \in aborted'
  BY AbortFacts DEF Submit
<1>4. /\ live' \in [Submissions -> Live!States]
      /\ cancelled' = IF active = 0 THEN cancelled ELSE cancelled \cup {active}
      /\ \A t \in Submissions : live'[t] # "open"
      /\ \A t \in Submissions : live[t] = "none" => live'[t] = "none"
  <2>1. live \in [Submissions -> Live!States]
    BY DEF IInv, TypeOK
  <2>2. \A t \in Submissions : live[t] = "open" => t = active
    BY DEF IInv, NoSubscriptionLeaked
  <2>3. CASE active = 0
    <3>1. live' = live /\ cancelled' = cancelled
      BY <2>3 DEF Submit
    <3>2. \A t \in Submissions : t # 0
      BY DEF Submissions
    <3>3. QED BY <2>1, <2>2, <2>3, <3>1, <3>2
  <2>4. CASE active # 0
    <3>1. Cancel(active) /\ active \in Submissions
      BY <2>4 DEF Submit, IInv, TypeOK
    <3>2. cancelled' = cancelled \cup {active}
      BY <3>1 DEF Cancel
    <3>3. live' = IF live[active] = "open" THEN [live EXCEPT ![active] = "closed"] ELSE live
      BY <3>1 DEF Cancel, Live!Close
    <3>4. QED BY <2>1, <2>2, <2>4, <3>1, <3>2, <3>3 DEF Live!States
  <2>5. QED BY <2>3, <2>4
<1>5. TypeOK'
  <2>1. remembered' \in Seq([route : Routes, values : Values]) /\ Len(remembered') <= MaxRemembered
    BY <1>2, RememberTyping, RoutesAssumption DEF IInv, TypeOK
  <2>2. life' \in {"mounted", "leaving", "gone", "hidden"} /\ blank' \in BOOLEAN
    BY <1>2 DEF IInv, TypeOK
  <2>3. {location', route'} \subseteq Routes
    BY <1>2, RoutesAssumption DEF IInv, TypeOK
  <2>4. values' \in [Submissions -> Values \cup {NoValues}]
        /\ pc' \in [Submissions -> {"none", "navigating", "waiting", "done"}]
    BY <1>1, <1>2 DEF IInv, TypeOK
  <2>5. {cancelled', emby', aborted'} \subseteq SUBSET Submissions
    BY <1>2, <1>3, <1>4 DEF IInv, TypeOK
  <2>6. {active', inFlight', progress', embyShown', generation'} \subseteq {0} \cup Submissions
    BY <1>1, <1>2, <1>3
  <2>7. page' \in [loading : BOOLEAN, data : {0} \cup Submissions, error : BOOLEAN]
    BY <1>2 DEF Loading, Nothing
  <2>8. QED BY <1>1, <1>4, <2>1, <2>2, <2>3, <2>4, <2>5, <2>6, <2>7 DEF TypeOK
<1>6. Bookkeeping'
  <2>1. \A s \in Submissions : s \in Nat /\ s # 0
    BY DEF Submissions
  <2>2. active' \notin cancelled'
    <3>1. count' # active
      BY <1>1 DEF IInv, Bookkeeping
    <3>2. count' \notin cancelled
      BY <1>1 DEF IInv, Bookkeeping
    <3>3. QED BY <1>2, <1>4, <3>1, <3>2
  <2>3. \A s \in Submissions : s <= count' /\ s \notin cancelled' => s = active'
    BY <1>1, <1>2, <1>4, <2>1 DEF IInv, Bookkeeping
  <2>4. \A s \in Submissions : s > count' => pc'[s] = "none" /\ live'[s] = "none" /\ s \notin cancelled'
    BY <1>1, <1>2, <1>4, <2>1 DEF IInv, Bookkeeping, TypeOK
  <2>5. QED BY <1>2, <2>2, <2>3, <2>4 DEF Bookkeeping
<1>7. Shown'
  BY <1>1, <1>2 DEF Shown, Loading, Nothing
<1>8. AbandonedAborted'
  BY <1>1, <1>2, <1>3 DEF AbandonedAborted, IInv, TypeOK
<1>9. NoSubscriptionLeaked'
  BY <1>4 DEF NoSubscriptionLeaked
<1>10. QED BY <1>5, <1>6, <1>7, <1>8, <1>9 DEF IInv

-----------------------------------------------------------------------------

\* The navigation of the submission which is not cancelled ends: it is the active one.
LEMMA NavigationEndsInvariant ==
    ASSUME IInv, NEW s \in Submissions, NavigationEnds(s)
    PROVE  IInv'
<1>1. /\ UNCHANGED <<life, location, route, effectsDue, remembered, criteria, count, values,
                     cancelled, active, page, progress, embyShown, emby, generation, aborted,
                     blank, acts, failures>>
      /\ pc[s] = "navigating"
  BY DEF NavigationEnds, routeVars, shownVars
<1>2. s <= count /\ (s \notin cancelled => s = active)
  <2>1. s \in Nat /\ count \in Nat
    BY DEF Submissions, IInv, TypeOK
  <2>2. ~(s > count)
    BY <1>1 DEF IInv, Bookkeeping
  <2>3. QED BY <2>1, <2>2 DEF IInv, Bookkeeping
<1>3. CASE s \in cancelled
  <2>1. pc' = [pc EXCEPT ![s] = "done"] /\ live' = live /\ inFlight' = inFlight
    BY <1>3 DEF NavigationEnds
  <2>2. TypeOK'
    BY <1>1, <2>1 DEF IInv, TypeOK
  <2>3. Bookkeeping' /\ Shown' /\ NoSubscriptionLeaked'
    BY <1>1, <1>2, <2>1 DEF IInv, TypeOK, Bookkeeping, Shown, NoSubscriptionLeaked
  <2>4. AbandonedAborted'
    BY <1>1, <2>1 DEF IInv, TypeOK, AbandonedAborted
  <2>5. QED BY <2>2, <2>3, <2>4 DEF IInv
<1>4. CASE s \notin cancelled
  <2>1. pc' = [pc EXCEPT ![s] = "waiting"] /\ inFlight' = s
    BY <1>4 DEF NavigationEnds
  <2>2. PICK state \in {"waiting", "open"} : live' = [live EXCEPT ![s] = state]
    BY <1>4 DEF NavigationEnds, Live!Subscribe
  <2>3. TypeOK'
    BY <1>1, <2>1, <2>2 DEF IInv, TypeOK, Live!States
  <2>4. \A t \in Submissions : t # s => pc'[t] = pc[t] /\ live'[t] = live[t]
    BY <2>1, <2>2 DEF IInv, TypeOK
  <2>5. Bookkeeping'
    <3>1. ~(s > count)
      BY <1>1 DEF IInv, Bookkeeping
    <3>2. \A t \in Submissions : t > count' => pc'[t] = "none" /\ live'[t] = "none" /\ t \notin cancelled'
      BY <1>1, <2>4, <3>1 DEF IInv, Bookkeeping
    <3>3. QED BY <1>1, <3>2 DEF IInv, Bookkeeping
  <2>6. Shown' /\ NoSubscriptionLeaked'
    BY <1>1, <1>2, <1>4, <2>4 DEF IInv, Shown, NoSubscriptionLeaked
  <2>7. AbandonedAborted'
    <3>1. ASSUME NEW t \in Submissions, pc'[t] = "waiting", t # s PROVE t \in aborted'
      BY <1>1, <1>2, <1>4, <2>4, <3>1 DEF IInv, AbandonedAborted
    <3>2. QED BY <1>1, <1>2, <1>4, <2>1, <3>1 DEF AbandonedAborted
  <2>8. QED BY <2>3, <2>5, <2>6, <2>7 DEF IInv
<1>5. QED BY <1>3, <1>4

\* What answering and failing have in common: the submission is over, its page state is
\* written only if it is the active one, and the request is not in flight anymore.
LEMMA SettledInvariant ==
    ASSUME IInv, NEW s \in Submissions, pc[s] = "waiting", pc' = [pc EXCEPT ![s] = "done"],
           inFlight' = InFlightAfter(s), Release(s),
           UNCHANGED <<life, location, route, effectsDue, remembered, criteria, count, values,
                       progress, embyShown, generation, aborted, blank, acts>>,
           emby' \in SUBSET Submissions, failures' \in 0..MaxFailures,
           IF active = s
           THEN /\ page' \in [loading : {FALSE}, data : {0, s}, error : BOOLEAN]
           ELSE page' = page
    PROVE  IInv'
<1>1. s <= count /\ s \in Nat /\ s # 0
  <2>1. s \in Nat /\ count \in Nat /\ s # 0
    BY DEF Submissions, IInv, TypeOK
  <2>2. ~(s > count)
    BY DEF IInv, Bookkeeping
  <2>3. QED BY <2>1, <2>2
<1>2. Bookkeeping' /\ NoSubscriptionLeaked'
  BY <1>1, ReleaseKeepsBooks DEF IInv, TypeOK
<1>3. active' = (IF active = s THEN 0 ELSE active) /\ cancelled' \in SUBSET Submissions
      /\ live' \in [Submissions -> Live!States]
  BY ReleaseFacts
<1>4. TypeOK'
  <2>1. pc' \in [Submissions -> {"none", "navigating", "waiting", "done"}]
    BY DEF IInv, TypeOK
  <2>2. {cancelled', emby', aborted'} \subseteq SUBSET Submissions
    BY <1>3 DEF IInv, TypeOK
  <2>3. {active', inFlight', progress', embyShown', generation'} \subseteq {0} \cup Submissions
    BY <1>3 DEF IInv, TypeOK, InFlightAfter
  <2>4. page' \in [loading : BOOLEAN, data : {0} \cup Submissions, error : BOOLEAN]
    BY DEF IInv, TypeOK
  <2>5. QED BY <1>3, <2>1, <2>2, <2>3, <2>4 DEF IInv, TypeOK
<1>5. Shown'
  <2>1. CASE active = s
    <3>1. s = count
      BY <1>1, <2>1 DEF IInv, Bookkeeping
    <3>2. page'.loading = FALSE /\ page'.data \in {0, s}
      BY <2>1
    <3>3. QED BY <1>3, <2>1, <3>1, <3>2 DEF IInv, Shown
  <2>2. CASE active # s
    BY <1>3, <2>2 DEF IInv, Shown
  <2>3. QED BY <2>1, <2>2
<1>6. AbandonedAborted'
  <2>1. ASSUME NEW t \in Submissions, pc'[t] = "waiting", t \notin aborted'
        PROVE  t = active' /\ t = inFlight'
    <3>1. t # s /\ pc[t] = "waiting"
      BY <2>1 DEF IInv, TypeOK
    <3>2. t = active /\ t = inFlight
      BY <2>1, <3>1 DEF IInv, AbandonedAborted
    <3>3. QED BY <1>3, <3>1, <3>2 DEF InFlightAfter
  <2>2. QED BY <2>1 DEF AbandonedAborted
<1>7. QED BY <1>2, <1>4, <1>5, <1>6 DEF IInv

\* A late answer finds its submission inactive and changes nothing on the page.
LEMMA AnsweredInvariant ==
    ASSUME IInv, NEW s \in Submissions, Answered(s)
    PROVE  IInv'
<1>1. emby' \in SUBSET Submissions /\ failures' \in 0..MaxFailures
  BY DEF Answered, IInv, TypeOK
<1>2. IF active = s
      THEN page' \in [loading : {FALSE}, data : {0, s}, error : BOOLEAN]
      ELSE page' = page
  BY DEF Answered, IsActive, Nothing
<1>3. QED BY <1>1, <1>2, SettledInvariant DEF Answered, routeVars

\* A failure likewise.
LEMMA SearchFailsInvariant ==
    ASSUME IInv, NEW s \in Submissions, SearchFails(s)
    PROVE  IInv'
<1>1. emby' \in SUBSET Submissions /\ failures' \in 0..MaxFailures
  BY BoundsAssumption DEF SearchFails, Fails, IInv, TypeOK
<1>2. IF active = s
      THEN page' \in [loading : {FALSE}, data : {0, s}, error : BOOLEAN]
      ELSE page' = page
  BY DEF SearchFails, IsActive, Nothing
<1>3. QED BY <1>1, <1>2, SettledInvariant DEF SearchFails, routeVars

-----------------------------------------------------------------------------

\* The connection: who was cancelled meanwhile is closed, so only the active one can open.
LEMMA SubscribedInvariant ==
    ASSUME IInv, Subscribed
    PROVE  IInv'
<1>1. UNCHANGED <<life, location, route, effectsDue, remembered, criteria, count, values, pc,
                  cancelled, active, inFlight, page, progress, embyShown, emby, generation,
                  aborted, blank, acts, failures>>
  BY DEF Subscribed, UnchangedByLive, routeVars, submissionVars
<1>2. live' = [s \in Submissions |->
                  IF live[s] # "waiting" THEN live[s] ELSE IF s \notin cancelled THEN "open" ELSE "closed"]
  BY DEF Subscribed, IsKept
<1>3. TypeOK'
  BY <1>1, <1>2 DEF IInv, TypeOK, Live!States
<1>4. Bookkeeping' /\ Shown' /\ AbandonedAborted'
  BY <1>1, <1>2 DEF IInv, Bookkeeping, Shown, AbandonedAborted
<1>5. NoSubscriptionLeaked'
  <2>1. ASSUME NEW s \in Submissions, live[s] = "waiting", s \notin cancelled PROVE s = active
    <3>1. s <= count
      <4>1. s \in Nat /\ count \in Nat
        BY DEF Submissions, IInv, TypeOK
      <4>2. QED BY <2>1, <4>1 DEF IInv, Bookkeeping
    <3>2. QED BY <2>1, <3>1 DEF IInv, Bookkeeping
  <2>2. QED BY <1>1, <1>2, <2>1 DEF IInv, NoSubscriptionLeaked
<1>6. QED BY <1>3, <1>4, <1>5 DEF IInv

\* A rejected subscription is not open.
LEMMA SubscribeFailsInvariant ==
    ASSUME IInv, SubscribeFails
    PROVE  IInv'
<1>1. UNCHANGED <<life, location, route, effectsDue, remembered, criteria, count, values, pc,
                  cancelled, active, inFlight, page, progress, embyShown, emby, generation,
                  aborted, blank, acts>>
  BY DEF SubscribeFails, UnchangedByLive, routeVars, submissionVars
<1>2. live' = [s \in Submissions |-> IF live[s] = "waiting" THEN "failed" ELSE live[s]]
      /\ failures' \in 0..MaxFailures
  BY BoundsAssumption DEF SubscribeFails, Fails, Live!Reject, IInv, TypeOK
<1>3. TypeOK'
  BY <1>1, <1>2 DEF IInv, TypeOK, Live!States
<1>4. Bookkeeping' /\ Shown' /\ AbandonedAborted' /\ NoSubscriptionLeaked'
  BY <1>1, <1>2 DEF IInv, Bookkeeping, Shown, AbandonedAborted, NoSubscriptionLeaked
<1>5. QED BY <1>3, <1>4 DEF IInv

\* Progress of the active submission is that of the last, other progress is not shown.
LEMMA ProgressInvariant ==
    ASSUME IInv, NEW s \in Submissions, Progress(s)
    PROVE  IInv'
<1>1. UNCHANGED <<life, location, route, effectsDue, remembered, criteria, count, values, pc,
                  cancelled, active, inFlight, page, live, embyShown, emby, generation,
                  aborted, blank, acts, failures>>
  BY DEF Progress, UnchangedByLive, routeVars, submissionVars
<1>2. progress' = IF active = s THEN s ELSE progress
  BY DEF Progress, IsActive
<1>3. TypeOK'
  BY <1>1, <1>2 DEF IInv, TypeOK
<1>4. Shown'
  <2>1. s # 0
    BY DEF Submissions
  <2>2. QED BY <1>1, <1>2, <2>1 DEF IInv, Bookkeeping, Shown
<1>5. Bookkeeping' /\ AbandonedAborted' /\ NoSubscriptionLeaked'
  BY <1>1 DEF IInv, Bookkeeping, AbandonedAborted, NoSubscriptionLeaked
<1>6. QED BY <1>3, <1>4, <1>5 DEF IInv

-----------------------------------------------------------------------------

\* Cancelling, or a route without a search: nothing is active, nothing runs unaborted.
LEMMA ResetInvariant ==
    ASSUME IInv, Reset, effectsDue' \in BOOLEAN, embyShown' \in {0, embyShown},
           blank' \in BOOLEAN, acts' \in 0..MaxActs, failures' = failures
    PROVE  IInv'
<1>1. /\ UNCHANGED <<life, location, route, remembered, criteria, count, values, pc, emby, generation>>
      /\ page' = Nothing /\ progress' = 0 /\ Release(active)
  BY DEF Reset
<1>2. inFlight' = 0 /\ aborted' \in SUBSET Submissions
      /\ \A s \in Submissions : pc[s] = "waiting" => s \in aborted'
  BY AbortFacts DEF Reset
<1>3. active \in {0} \cup Submissions /\ active <= count
  BY DEF IInv, TypeOK, Bookkeeping
<1>4. active' = 0 /\ cancelled' \in SUBSET Submissions /\ live' \in [Submissions -> Live!States]
  BY <1>1, <1>3, ReleaseFacts
<1>5. Bookkeeping' /\ NoSubscriptionLeaked'
  BY <1>1, <1>3, ReleaseKeepsBooks
<1>6. TypeOK'
  BY <1>1, <1>2, <1>4 DEF IInv, TypeOK, Nothing
<1>7. Shown'
  BY <1>1, <1>4 DEF Shown, Nothing
<1>8. AbandonedAborted'
  BY <1>1, <1>2 DEF AbandonedAborted
<1>9. QED BY <1>5, <1>6, <1>7, <1>8 DEF IInv

\* The page goes away for good: what is pending is cancelled and aborted.
LEMMA ReleaseAfterUnmountInvariant ==
    ASSUME IInv, ReleaseAfterUnmount
    PROVE  IInv'
<1>1. /\ UNCHANGED <<location, route, effectsDue, remembered, criteria, count, values, pc, page,
                     progress, embyShown, emby, blank, acts, failures>>
      /\ life' = "gone" /\ generation' = 0 /\ Release(active)
  BY DEF ReleaseAfterUnmount, routeVars, shownVars
<1>2. inFlight' = 0 /\ aborted' \in SUBSET Submissions
      /\ \A s \in Submissions : pc[s] = "waiting" => s \in aborted'
  BY AbortFacts DEF ReleaseAfterUnmount
<1>3. active \in {0} \cup Submissions /\ active <= count
  BY DEF IInv, TypeOK, Bookkeeping
<1>4. active' = 0 /\ cancelled' \in SUBSET Submissions /\ live' \in [Submissions -> Live!States]
  BY <1>1, <1>3, ReleaseFacts
<1>5. Bookkeeping' /\ NoSubscriptionLeaked'
  BY <1>1, <1>3, ReleaseKeepsBooks
<1>6. TypeOK'
  BY <1>1, <1>2, <1>4 DEF IInv, TypeOK
<1>7. Shown'
  BY <1>1 DEF IInv, Shown
<1>8. AbandonedAborted'
  BY <1>1, <1>2 DEF AbandonedAborted
<1>9. QED BY <1>5, <1>6, <1>7, <1>8 DEF IInv

\* Closing the tab aborts the search and leaves the rest as it is.
LEMMA PageHideInvariant ==
    ASSUME IInv, PageHide
    PROVE  IInv'
<1>1. /\ UNCHANGED <<location, route, effectsDue, remembered, criteria, count, values, pc, cancelled,
                     active, page, progress, embyShown, live, emby, generation, blank, failures>>
      /\ life' \in {"mounted", "hidden"} /\ life = "mounted" /\ acts' \in 0..MaxActs
  BY BoundsAssumption DEF PageHide, Acts, routeVars, shownVars, IInv, TypeOK
<1>2. inFlight' = 0 /\ aborted' \in SUBSET Submissions
      /\ \A s \in Submissions : pc[s] = "waiting" => s \in aborted'
  BY AbortFacts DEF PageHide
<1>3. TypeOK'
  BY <1>1, <1>2 DEF IInv, TypeOK
<1>4. Bookkeeping' /\ Shown' /\ NoSubscriptionLeaked'
  BY <1>1 DEF IInv, Bookkeeping, Shown, NoSubscriptionLeaked
<1>5. AbandonedAborted'
  BY <1>1, <1>2 DEF AbandonedAborted
<1>6. QED BY <1>3, <1>4, <1>5 DEF IInv

\* The user moves through the history or leaves, the router renders, Emby answers: no
\* submission and nothing shown by one is touched.
LEMMA OtherInvariant ==
    ASSUME IInv,
           \/ \E r \in Routes : Navigate(r)
           \/ Unmount
           \/ Render
           \/ \E s \in Submissions : EmbyAnswered(s)
    PROVE  IInv'
<1>1. UNCHANGED <<remembered, criteria, submissionVars, page, progress, live, generation, aborted,
                  blank, failures>>
  BY DEF Navigate, Unmount, Render, EmbyAnswered, routeVars, shownVars
<1>2. acts' \in 0..MaxActs
  BY BoundsAssumption DEF Navigate, Unmount, Render, EmbyAnswered, Acts, IInv, TypeOK
<1>3. life' \in {"mounted", "leaving", "gone", "hidden"} /\ (life' = "mounted" => life = "mounted")
  BY DEF Navigate, Unmount, Render, EmbyAnswered, Acts, IInv, TypeOK
<1>4. {location', route'} \subseteq Routes /\ effectsDue' \in BOOLEAN
  <2>1. CASE \E r \in Routes : Navigate(r)
    BY <2>1 DEF Navigate, IInv, TypeOK
  <2>2. CASE Render
    BY <2>2 DEF Render, IInv, TypeOK
  <2>3. CASE Unmount \/ \E s \in Submissions : EmbyAnswered(s)
    BY <2>3 DEF Unmount, EmbyAnswered, routeVars, IInv, TypeOK
  <2>4. QED BY <2>1, <2>2, <2>3
<1>5. emby' \in SUBSET Submissions /\ embyShown' \in {0} \cup Submissions
  BY DEF Navigate, Unmount, Render, EmbyAnswered, shownVars, IInv, TypeOK
<1>6. TypeOK'
  BY <1>1, <1>2, <1>3, <1>4, <1>5 DEF IInv, TypeOK, submissionVars
<1>7. Bookkeeping' /\ Shown' /\ AbandonedAborted' /\ NoSubscriptionLeaked'
  BY <1>1, <1>3 DEF IInv, Bookkeeping, Shown, AbandonedAborted, NoSubscriptionLeaked, submissionVars
<1>8. QED BY <1>6, <1>7 DEF IInv

\* The effect of a route with a search submits it, or finds it submitted.
LEMMA SubmitRouteInvariant ==
    ASSUME IInv, SubmitRoute
    PROVE  IInv'
<1>1. effectsDue' = FALSE /\ acts' = acts /\ failures' = failures
  BY DEF SubmitRoute
<1>2. CASE IsDistinct
  <2>1. RouteValues(route) \in Values
    BY RouteValuesTyping DEF IInv, TypeOK
  <2>2. criteria' = RouteValues(route) /\ Submit(RouteValues(route))
    BY <1>2 DEF SubmitRoute
  <2>3. acts' \in 0..MaxActs /\ failures' \in 0..MaxFailures /\ effectsDue' \in BOOLEAN
    BY <1>1 DEF IInv, TypeOK
  <2>4. QED BY <2>1, <2>2, <2>3, SubmitInvariant
<1>3. CASE ~ IsDistinct
  <2>1. UNCHANGED <<life, location, route, remembered, criteria, submissionVars, shownVars,
                    live, emby, generation, aborted, blank>>
    BY <1>3 DEF SubmitRoute
  <2>2. TypeOK'
    BY <1>1, <2>1 DEF IInv, TypeOK, submissionVars, shownVars
  <2>3. Bookkeeping' /\ Shown' /\ AbandonedAborted' /\ NoSubscriptionLeaked'
    BY <2>1 DEF IInv, Bookkeeping, Shown, AbandonedAborted, NoSubscriptionLeaked, submissionVars, shownVars
  <2>4. QED BY <2>2, <2>3 DEF IInv
<1>4. QED BY <1>2, <1>3

-----------------------------------------------------------------------------

\* Every step keeps the inductive invariant.
LEMMA NextInvariant == IInv /\ [Next]_vars => IInv'
<1> SUFFICES ASSUME IInv, [Next]_vars PROVE IInv'
  OBVIOUS
<1>1. ASSUME NEW v \in Values, UserSubmits(v) PROVE IInv'
  <2>1. Submit(v) /\ effectsDue' \in BOOLEAN /\ criteria' \in Values \cup {NoValues}
        /\ failures' \in 0..MaxFailures
    BY <1>1 DEF UserSubmits, IInv, TypeOK
  <2>2. acts' \in 0..MaxActs
    BY <1>1, BoundsAssumption DEF UserSubmits, Acts, IInv, TypeOK
  <2>3. QED BY <2>1, <2>2, SubmitInvariant
<1>2. CASE CancelSearch
  <2>1. Reset /\ effectsDue' \in BOOLEAN /\ embyShown' \in {0, embyShown} /\ blank' \in BOOLEAN
        /\ failures' = failures
    BY <1>2 DEF CancelSearch, IInv, TypeOK
  <2>2. acts' \in 0..MaxActs
    BY <1>2, BoundsAssumption DEF CancelSearch, Acts, IInv, TypeOK
  <2>3. QED BY <2>1, <2>2, ResetInvariant
<1>3. CASE LeaveSearch
  <2>1. Reset /\ effectsDue' \in BOOLEAN /\ embyShown' \in {0, embyShown} /\ blank' \in BOOLEAN
        /\ acts' \in 0..MaxActs /\ failures' = failures
    BY <1>3 DEF LeaveSearch, IInv, TypeOK
  <2>2. QED BY <2>1, ResetInvariant
<1>4. CASE \/ \E r \in Routes : Navigate(r)
           \/ Unmount
           \/ Render
           \/ \E s \in Submissions : EmbyAnswered(s)
  BY <1>4, OtherInvariant
<1>5. CASE \E s \in Submissions : NavigationEnds(s) \/ Answered(s) \/ SearchFails(s) \/ Progress(s)
  BY <1>5, NavigationEndsInvariant, AnsweredInvariant, SearchFailsInvariant, ProgressInvariant
<1>6. CASE Subscribed \/ SubscribeFails
  BY <1>6, SubscribedInvariant, SubscribeFailsInvariant
<1>7. CASE PageHide \/ ReleaseAfterUnmount \/ SubmitRoute
  BY <1>7, PageHideInvariant, ReleaseAfterUnmountInvariant, SubmitRouteInvariant
<1>8. CASE UNCHANGED vars
  <2>1. TypeOK'
    BY <1>8 DEF vars, routeVars, submissionVars, shownVars, IInv, TypeOK
  <2>2. Bookkeeping' /\ Shown' /\ AbandonedAborted' /\ NoSubscriptionLeaked'
    BY <1>8 DEF vars, submissionVars, shownVars, IInv, Bookkeeping, Shown, AbandonedAborted,
       NoSubscriptionLeaked
  <2>3. QED BY <2>1, <2>2 DEF IInv
<1>9. QED BY <1>1, <1>2, <1>3, <1>4, <1>5, <1>6, <1>7, <1>8 DEF Next, User, Page

\* The inductive invariant holds in every reachable state.
THEOREM Invariant == Spec => []IInv
BY InitInvariant, NextInvariant, PTL DEF Spec

\* The page shows results, progress and dialog of the last submission only, for any number of
\* submissions and any order of their answers (submit). Includes type correctness.
THEOREM LastShown == Spec => []OnlyCurrentShown
<1>1. IInv => OnlyCurrentShown
  BY DEF IInv, Shown, OnlyCurrentShown
<1>2. QED BY <1>1, Invariant, PTL

\* A search which the page does not wait for anymore was aborted on the server
\* (abortRunningSearch in submit, cancelSearch, the effects, pagehide and the unmount).
THEOREM NothingRunsOn == Spec => []AbandonedAborted
<1>1. IInv => AbandonedAborted
  BY DEF IInv
<1>2. QED BY <1>1, Invariant, PTL

\* No subscription outlives its submission, whenever it is settled (releaseSubmission and the
\* cancelled flag the late handle finds).
THEOREM NothingLeaked == Spec => []NoSubscriptionLeaked
<1>1. IInv => NoSubscriptionLeaked
  BY DEF IInv
<1>2. QED BY <1>1, Invariant, PTL
-----------------------------------------------------------------------------
(* The results and the URL                                                 *)

IsShown == page.data # 0 \/ active # 0

\* What is shown or waited for was submitted for the URL, or is on its way to be in it. It
\* leaves the page with the effects of a route without a search.
InUrl ==
    /\ IsShown => \/ criteria = values[count]
                  \/ RouteValues(location) = values[count]
    /\ location = route /\ route \notin Executable /\ ~ effectsDue => ~ IsShown

\* What rememberSubmittedRoute stores is read back by routeValues, however full the Map is.
LEMMA RememberedIsRead ==
    ASSUME remembered \in Seq([route : Routes, values : Values]), Len(remembered) <= MaxRemembered,
           NEW r \in Routes, NEW v \in Values, remembered' = Remember(r, v)
    PROVE  RouteValues(r)' = v
<1> DEFINE E == [route : Routes, values : Values]
           entry == [route |-> r, values |-> v]
<1>1. Len(remembered) \in Nat /\ DOMAIN remembered = 1..Len(remembered) /\ MaxRemembered \in Nat \ {0}
  BY BoundsAssumption
<1>2. SUFFICES /\ \E k \in DOMAIN remembered' : remembered'[k].route = r
               /\ \A k \in DOMAIN remembered' : remembered'[k].route = r => remembered'[k].values = v
  <2>1. Remembered(r)' # {} /\ \A k \in Remembered(r)' : remembered'[k].values = v
    BY <1>2 DEF Remembered
  <2>2. (CHOOSE k \in Remembered(r)' : TRUE) \in Remembered(r)'
    BY <2>1
  <2>3. QED BY <2>1, <2>2 DEF RouteValues
<1>3. CASE Remembered(r) # {}
  <2> DEFINE replaced == [k \in DOMAIN remembered |->
                             IF k \in Remembered(r) THEN entry ELSE remembered[k]]
  <2>1. Len(replaced) = Len(remembered)
    <3>1. DOMAIN replaced = 1..Len(remembered)
      BY <1>1
    <3>2. \A k \in 1..Len(remembered) : replaced[k] \in E
      <4>1. ASSUME NEW k \in 1..Len(remembered) PROVE remembered[k] \in E
        BY ElementOfSeq DEF E
      <4>2. entry \in E
        OBVIOUS
      <4>3. QED BY <1>1, <4>1, <4>2
    <3>3. QED
      <4> HIDE DEF E, entry, replaced
      <4>1. replaced \in [1..Len(remembered) -> E]
        <5>1. replaced = [k \in 1..Len(remembered) |-> replaced[k]]
          BY <3>1 DEF replaced
        <5>2. QED BY <3>2, <5>1
      <4>2. QED BY <4>1, <1>1
  <2>2. remembered' = replaced
    <3>1. Remember(r, v) = IF Len(replaced) > MaxRemembered THEN Tail(replaced) ELSE replaced
      BY <1>3 DEF Remember
    <3>2. ~(Len(replaced) > MaxRemembered)
      <4> HIDE DEF replaced
      <4>1. QED BY <1>1, <2>1
    <3>3. QED BY <3>1, <3>2
  <2>3. \A k \in DOMAIN remembered' : remembered'[k].route = r => k \in Remembered(r)
    BY <2>2 DEF Remembered
  <2>4. \A k \in Remembered(r) : k \in DOMAIN remembered' /\ remembered'[k] = entry
    BY <2>2 DEF Remembered
  <2>5. QED BY <1>3, <2>3, <2>4
<1>4. CASE Remembered(r) = {}
  <2> DEFINE all == Append(remembered, entry)
  <2>1. /\ Len(all) = Len(remembered) + 1 /\ all[Len(remembered) + 1] = entry
        /\ \A k \in 1..Len(remembered) : all[k] = remembered[k]
        /\ all \in Seq(E)
    BY <1>1
  <2>2. remembered' = IF Len(all) > MaxRemembered THEN Tail(all) ELSE all
    BY <1>4 DEF Remember
  <2>3. \A k \in 1..Len(remembered) : all[k].route # r
    BY <1>1, <1>4, <2>1 DEF Remembered
  <2> HIDE DEF all, E
  <2>4. CASE Len(all) > MaxRemembered
    <3>1. DOMAIN remembered' = 1..Len(remembered)
          /\ \A k \in 1..Len(remembered) : remembered'[k] = all[k + 1]
      BY <1>1, <2>1, <2>2, <2>4
    <3>2. Len(remembered) >= 1
      BY <1>1, <2>1, <2>4
    <3>3. \A k \in 1..Len(remembered) : k # Len(remembered) => remembered'[k].route # r
      BY <1>1, <2>3, <3>1
    <3>4. remembered'[Len(remembered)] = entry
      BY <1>1, <2>1, <3>1, <3>2
    <3>5. Len(remembered) \in DOMAIN remembered' /\ entry.route = r /\ entry.values = v
      BY <1>1, <3>1, <3>2
    <3>6. \A k \in DOMAIN remembered' : remembered'[k].route = r => k = Len(remembered)
      BY <3>1, <3>3
    <3>7. QED
      <4> HIDE DEF entry
      <4>1. QED BY <3>4, <3>5, <3>6
  <2>5. CASE ~(Len(all) > MaxRemembered)
    <3>1. remembered' = all /\ DOMAIN remembered' = 1..(Len(remembered) + 1)
      BY <1>1, <2>1, <2>2, <2>5
    <3>2. QED BY <1>1, <2>1, <2>3, <3>1
  <2>6. QED BY <2>4, <2>5
<1>5. QED BY <1>3, <1>4

\* A submission is in the URL it navigates to, and that holds a search.
LEMMA SubmitInUrl ==
    ASSUME IInv, NEW v \in Values, Submit(v)
    PROVE  InUrl' /\ values'[count'] = v
<1>1. count' \in Submissions
  BY BoundsAssumption DEF Submit, IInv, TypeOK, Submissions
<1>2. values'[count'] = v
  BY <1>1 DEF Submit, IInv, TypeOK
<1>3. location' = Canonical[v] /\ Canonical[v] \in Executable /\ Canonical[v] \in Routes
      /\ remembered' = Remember(Canonical[v], v) /\ route' = route
  BY RoutesAssumption DEF Submit
<1>4. RouteValues(Canonical[v])' = v
  BY <1>3, RememberedIsRead DEF IInv, TypeOK
<1>5. RouteValues(location)' = v
  BY <1>3, <1>4 DEF RouteValues, Remembered
<1>6. QED BY <1>2, <1>3, <1>5 DEF InUrl

\* Only submissions, navigation and the effects have to do with the URL, all else can at most
\* take results away or put those of the active submission in its place.
LEMMA UrlUntouched ==
    ASSUME InUrl, UNCHANGED <<location, route, effectsDue, remembered, criteria, count, values>>,
           IsShown' => IsShown
    PROVE  InUrl'
BY DEF InUrl, RouteValues, Remembered

\* Every step keeps what is shown in the URL. The user moves on only when the effects have run.
LEMMA InUrlInductive == IInv /\ InUrl /\ [Next]_vars => InUrl'
<1> SUFFICES ASSUME IInv, InUrl, [Next]_vars PROVE InUrl'
  OBVIOUS
<1>1. ASSUME NEW v \in Values, UserSubmits(v) PROVE InUrl'
  BY <1>1, SubmitInUrl DEF UserSubmits
<1>2. ASSUME NEW r \in Routes, Navigate(r) PROVE InUrl'
  <2>1. UNCHANGED <<route, effectsDue, remembered, criteria, count, values, page, active>> /\ Settled
    BY <1>2 DEF Navigate, submissionVars, shownVars
  <2>2. IsShown => criteria = values[count]
    BY <2>1 DEF InUrl, Settled, IsDistinct
  <2>3. location = route /\ ~ effectsDue
    BY <2>1 DEF Settled
  <2>4. QED BY <2>1, <2>2, <2>3 DEF InUrl, IsShown
<1>3. CASE Render
  <2>1. UNCHANGED <<location, remembered, criteria, count, values, page, active>> /\ effectsDue' = TRUE
    BY <1>3 DEF Render, submissionVars, shownVars
  <2>2. QED BY <2>1 DEF InUrl, IsShown, RouteValues, Remembered
<1>4. CASE SubmitRoute
  <2>1. CASE IsDistinct
    <3>1. RouteValues(route) \in Values /\ criteria' = RouteValues(route) /\ Submit(RouteValues(route))
      BY <1>4, <2>1, RouteValuesTyping DEF SubmitRoute, IInv, TypeOK
    <3>2. QED BY <3>1, SubmitInUrl
  <2>2. CASE ~ IsDistinct
    <3>1. UNCHANGED <<location, route, remembered, criteria, count, values, page, active>>
          /\ route \in Executable
      BY <1>4, <2>2 DEF SubmitRoute, submissionVars, shownVars
    <3>2. QED BY <3>1 DEF InUrl, IsShown, RouteValues, Remembered
  <2>3. QED BY <2>1, <2>2
<1>5. CASE LeaveSearch \/ CancelSearch
  <2>1. Reset
    BY <1>5 DEF LeaveSearch, CancelSearch
  <2>2. active' = 0 /\ page' = Nothing
    <3>1. active \in {0} \cup Submissions /\ Release(active) /\ page' = Nothing
      BY <2>1 DEF Reset, IInv, TypeOK
    <3>2. QED BY <3>1, ReleaseFacts
  <2>3. QED BY <2>2 DEF InUrl, IsShown, Nothing
<1>6. ASSUME NEW s \in Submissions, Answered(s) \/ SearchFails(s) PROVE InUrl'
  <2>1. UNCHANGED <<location, route, effectsDue, remembered, criteria, count, values>> /\ Release(s)
    BY <1>6 DEF Answered, SearchFails, routeVars
  <2>2. active' = IF active = s THEN 0 ELSE active
    BY <2>1, ReleaseFacts
  <2>3. page' = page \/ active = s
    BY <1>6 DEF Answered, SearchFails, IsActive
  <2>4. s # 0
    BY DEF Submissions
  <2>5. IsShown' => IsShown
    BY <2>2, <2>3, <2>4 DEF IsShown
  <2>6. QED BY <2>1, <2>5, UrlUntouched
<1>7. CASE ReleaseAfterUnmount
  <2>1. UNCHANGED <<location, route, effectsDue, remembered, criteria, count, values, page>>
    BY <1>7 DEF ReleaseAfterUnmount, routeVars, shownVars
  <2>2. active' = 0
    <3>1. active \in {0} \cup Submissions /\ Release(active)
      BY <1>7 DEF ReleaseAfterUnmount, IInv, TypeOK
    <3>2. QED BY <3>1, ReleaseFacts
  <2>3. QED BY <2>1, <2>2, UrlUntouched DEF IsShown
<1>8. CASE \/ \E s \in Submissions : NavigationEnds(s) \/ EmbyAnswered(s) \/ Progress(s)
           \/ Subscribed \/ SubscribeFails \/ PageHide \/ Unmount \/ UNCHANGED vars
  <2>1. UNCHANGED <<location, route, effectsDue, remembered, criteria, count, values, page, active>>
    BY <1>8 DEF NavigationEnds, EmbyAnswered, Progress, Subscribed, SubscribeFails, PageHide, Unmount,
       UnchangedByLive, vars, routeVars, submissionVars, shownVars
  <2>2. QED BY <2>1, UrlUntouched DEF IsShown
<1>9. QED BY <1>1, <1>2, <1>3, <1>4, <1>5, <1>6, <1>7, <1>8 DEF Next, User, Page

\* Results which stay on the page are those of the search in the URL (AutoSubmitFromRoute and
\* rememberSubmittedRoute), though submissions, navigation and answers overtake each other.
THEOREM UrlShown == Spec => []ResultsMatchRoute
<1>1. Init => InUrl
  BY DEF Init, InUrl, IsShown, Nothing
<1>2. IInv /\ InUrl => ResultsMatchRoute
  BY DEF IInv, Shown, InUrl, IsShown, ResultsMatchRoute, AtRest, Settled, IsDistinct
<1>3. QED BY <1>1, <1>2, InUrlInductive, Invariant, PTL DEF Spec
=============================================================================
