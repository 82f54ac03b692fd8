------------------------ MODULE ActiveSearches_proofs ------------------------
(***************************************************************************)
(* A shortcut ends every call, for any number of searches and indexers:    *)
(* proofs about ActiveSearches for all values of its constants.            *)
(***************************************************************************)
EXTENDS ActiveSearches, FiniteSetTheorems, FunctionTheorems, SequenceTheorems, TLAPS

\* The assumptions on the constants as one fact per constant.
LEMMA Constants ==
    /\ IdOf \in [Searches -> Ids]
    /\ Indexers # {}
    /\ MaxQueries \in Nat
    /\ MaxDbErrors \in Nat
    /\ MaxSize \in Nat
    /\ MaxSize > 0
BY SearchesAssumption, IndexersAssumption, BoundsAssumption

-----------------------------------------------------------------------------
(* The type invariant                                                      *)

\* What is left without an ID's entry is a sequence of searches.
LEMMA WithoutType ==
    ASSUME active \in Seq(Searches), NEW id
    PROVE  Without(id) \in Seq(Searches)
<1>1. CASE \E s \in Registered : IdOf[s] = id
    <2>1. \E k \in DOMAIN active : IdOf[active[k]] = id
        BY <1>1 DEF Registered
    <2>2. PICK k \in DOMAIN active : k = CHOOSE m \in DOMAIN active : IdOf[active[m]] = id
        BY <2>1
    <2>3. k \in 1..Len(active)
        OBVIOUS
    <2>4. SubSeq(active, 1, k - 1) \in Seq(Searches) /\ SubSeq(active, k + 1, Len(active)) \in Seq(Searches)
        BY <2>3
    <2>5. SubSeq(active, 1, k - 1) \o SubSeq(active, k + 1, Len(active)) \in Seq(Searches)
        BY <2>4
    <2>6. QED
        BY <1>1, <2>2, <2>5 DEF Without
<1>2. CASE ~ \E s \in Registered : IdOf[s] = id
    BY <1>2 DEF Without
<1>3. QED
    BY <1>1, <1>2

\* Put adds a search to a sequence of searches.
LEMMA PutType ==
    ASSUME active \in Seq(Searches), NEW s \in Searches
    PROVE  Put(s) \in Seq(Searches)
<1>1. Without(IdOf[s]) \in Seq(Searches)
    BY WithoutType
<1>2. CASE Len(Without(IdOf[s])) >= MaxSize
    <2>1. Without(IdOf[s]) # <<>>
        BY <1>1, <1>2, Constants
    <2>2. Tail(Without(IdOf[s])) \in Seq(Searches)
        BY <1>1, <2>1
    <2>3. QED
        BY <1>2, <2>2 DEF Put
<1>3. CASE ~ (Len(Without(IdOf[s])) >= MaxSize)
    BY <1>1, <1>3 DEF Put
<1>4. QED
    BY <1>2, <1>3

\* What is left without an ID's entry was there before.
LEMMA WithoutAddsNothing ==
    ASSUME active \in Seq(Searches), NEW id, NEW k \in DOMAIN Without(id)
    PROVE  Without(id)[k] \in Registered
<1>1. CASE \E s \in Registered : IdOf[s] = id
    <2>1. \E m \in DOMAIN active : IdOf[active[m]] = id
        BY <1>1 DEF Registered
    <2>2. PICK m \in DOMAIN active : m = CHOOSE n \in DOMAIN active : IdOf[active[n]] = id
        BY <2>1
    <2>3. m \in 1..Len(active) /\ Len(active) \in Nat
        OBVIOUS
    <2> DEFINE before == SubSeq(active, 1, m - 1)
               after  == SubSeq(active, m + 1, Len(active))
    <2>4. Without(id) = before \o after
        BY <1>1, <2>2 DEF Without
    <2>5. /\ before \in Seq(Searches) /\ Len(before) = m - 1
          /\ \A n \in 1..(m - 1) : before[n] = active[n]
        BY <2>3
    <2>6. /\ after \in Seq(Searches) /\ Len(after) = Len(active) - m
          /\ \A n \in 1..(Len(active) - m) : after[n] = active[m + n]
        BY <2>3
    <2> HIDE DEF before, after
    <2>7. k \in 1..(Len(active) - 1)
        BY <2>3, <2>4, <2>5, <2>6
    <2>8. CASE k <= m - 1
        <3>1. Without(id)[k] = active[k]
            BY <2>3, <2>4, <2>5, <2>6, <2>7, <2>8
        <3>2. QED
            BY <3>1, <2>3, <2>7 DEF Registered
    <2>9. CASE k > m - 1
        <3>1. Without(id)[k] = after[k - (m - 1)] /\ k - (m - 1) \in 1..(Len(active) - m)
            BY <2>3, <2>4, <2>5, <2>6, <2>7, <2>9
        <3>2. Without(id)[k] = active[k + 1]
            BY <3>1, <2>3, <2>6, <2>7
        <3>3. QED
            BY <3>2, <2>3, <2>7 DEF Registered
    <2>10. QED
        BY <2>3, <2>7, <2>8, <2>9
<1>2. CASE ~ \E s \in Registered : IdOf[s] = id
    BY <1>2 DEF Without, Registered
<1>3. QED
    BY <1>1, <1>2

\* Put adds no other search.
LEMMA PutAddsOne ==
    ASSUME active \in Seq(Searches), NEW s \in Searches, NEW k \in DOMAIN Put(s)
    PROVE  Put(s)[k] \in Registered \cup {s}
<1> DEFINE others == Without(IdOf[s])
           room   == IF Len(others) >= MaxSize THEN Tail(others) ELSE others
<1>1. others \in Seq(Searches)
    BY WithoutType
<1>2. \A n \in DOMAIN others : others[n] \in Registered
    BY WithoutAddsNothing
<1>3. Put(s) = Append(room, s)
    BY DEF Put
<1> HIDE DEF others
<1>4. room \in Seq(Searches) /\ \A n \in DOMAIN room : room[n] \in Registered
    <2>1. CASE Len(others) >= MaxSize
        <3>1. others # <<>>
            BY <1>1, <2>1, Constants
        <3>2. Tail(others) \in Seq(Searches) /\ \A n \in DOMAIN Tail(others) : Tail(others)[n] = others[n + 1] /\ n + 1 \in DOMAIN others
            BY <1>1, <3>1
        <3>3. QED
            BY <1>2, <2>1, <3>2
    <2>2. CASE ~ (Len(others) >= MaxSize)
        BY <1>1, <1>2, <2>2
    <2>3. QED
        BY <2>1, <2>2
<1> HIDE DEF room
<1>5. CASE k = Len(room) + 1
    BY <1>3, <1>4, <1>5
<1>6. CASE k # Len(room) + 1
    BY <1>3, <1>4, <1>6
<1>7. QED
    BY <1>5, <1>6

\* Only searches are found.
LEMMA FoundAreSearches ==
    ASSUME active \in Seq(Searches), NEW id
    PROVE  FoundBy(id) \subseteq Searches
BY DEF FoundBy, Registered

\* A call is only made, or about to be made, to an indexer which may be queried again.
WithinCap ==
    /\ \A s \in Searches, i \in Indexers :
          calls[s][i] # "none" \/ i \in toSubmit[s] => queries[s][i] < MaxQueries
    /\ \A s \in Searches : pc[s] = "await" => toSubmit[s] = {}

\* A step keeps every variable's type.
LEMMA TypingInductive ==
    ASSUME TypeOK, WithinCap, [Next]_vars
    PROVE  TypeOK' /\ WithinCap'
<1> USE DEF TypeOK, WithinCap, PCs, searchVars
<1>1. CASE Expire
    BY <1>1 DEF Expire
<1>2. ASSUME NEW s \in Searches, Enter(s)
      PROVE  TypeOK' /\ WithinCap'
    BY <1>2 DEF Enter
<1>3. ASSUME NEW s \in Searches, Register(s)
      PROVE  TypeOK' /\ WithinCap'
    BY <1>3, PutType DEF Register
<1>4. ASSUME NEW s \in Searches, NEW toSearch \in SUBSET Indexers, BeginRound(s, toSearch)
      PROVE  TypeOK' /\ WithinCap'
    BY <1>4 DEF BeginRound, CanBeQueried
<1>5. ASSUME NEW s \in Searches, OpenExecutor(s)
      PROVE  TypeOK' /\ WithinCap'
    BY <1>5 DEF OpenExecutor
<1>6. ASSUME NEW s \in Searches, End(s)
      PROVE  TypeOK' /\ WithinCap'
    BY <1>6, WithoutType DEF End
<1>7. ASSUME NEW s \in Searches, Fail(s)
      PROVE  TypeOK' /\ WithinCap'
    BY <1>7, Constants DEF Fail
<1>8. ASSUME NEW s \in Searches, Persisted(s)
      PROVE  TypeOK' /\ WithinCap'
    BY <1>8 DEF Persisted
<1>9. ASSUME NEW s \in Searches, NEW i \in Indexers, Submit(s, i)
      PROVE  TypeOK' /\ WithinCap'
    BY <1>9 DEF Submit
<1>10. ASSUME NEW s \in Searches, NEW i \in Indexers, Await(s, i)
      PROVE  TypeOK' /\ WithinCap'
    <2>1. CASE calls[s][i] = "answered" /\ queries' = [queries EXCEPT ![s][i] = @ + 1] /\ UNCHANGED flag
        <3>1. queries[s][i] \in 0..MaxQueries /\ queries[s][i] < MaxQueries /\ MaxQueries \in Nat
            BY <2>1, Constants
        <3>2. queries[s][i] + 1 \in 0..MaxQueries
            BY <3>1
        <3>3. toSubmit[s] = {}
            BY <1>10 DEF Await
        <3>4. queries' \in [Searches -> [Indexers -> 0..MaxQueries]]
            BY <2>1, <3>2
        <3>5. TypeOK'
            BY <1>10, <2>1, <3>4 DEF Await
        <3>6. WithinCap'
            BY <1>10, <2>1, <3>3 DEF Await
        <3>7. QED
            BY <3>5, <3>6
    <2>2. CASE calls[s][i] = "cancelled" /\ flag' = [flag EXCEPT ![s] = TRUE] /\ UNCHANGED queries
        BY <1>10, <2>2 DEF Await
    <2>3. QED
        BY <1>10, <2>1, <2>2 DEF Await
<1>11. ASSUME NEW s \in Searches, Track(s)
      PROVE  TypeOK' /\ WithinCap'
    BY <1>11 DEF Track
<1>12. ASSUME NEW s \in Searches, Check(s)
      PROVE  TypeOK' /\ WithinCap'
    BY <1>12 DEF Check, CancelIfRequested, Cancelled
<1>13. ASSUME NEW s \in Searches, EndRound(s)
      PROVE  TypeOK' /\ WithinCap'
    BY <1>13 DEF EndRound, CloseRound
<1>14. ASSUME NEW s \in Searches, RoundInterrupted(s)
      PROVE  TypeOK' /\ WithinCap'
    BY <1>14 DEF RoundInterrupted, CloseRound
<1>15. ASSUME NEW s \in Searches, SubmitRejected(s)
      PROVE  TypeOK' /\ WithinCap'
    BY <1>15 DEF SubmitRejected, CloseRound
<1>16. ASSUME NEW s \in Searches, CancelFutures(s)
      PROVE  TypeOK' /\ WithinCap'
    BY <1>16 DEF CancelFutures, Cancelled
<1>17. ASSUME NEW s \in Searches, NEW i \in Indexers, CallEnds(s, i)
      PROVE  TypeOK' /\ WithinCap'
    BY <1>17 DEF CallEnds
<1>18. ASSUME NEW id \in Ids, Shortcut(id)
      PROVE  TypeOK' /\ WithinCap'
    <2>1. active' \in Seq(Searches)
        <3>1. FoundBy(id) \subseteq Searches /\ Without(id) \in Seq(Searches)
            BY WithoutType, FoundAreSearches
        <3>2. active' = active \/ \E s \in FoundBy(id) : active' = Append(Without(id), s)
            BY <1>18 DEF Shortcut
        <3>3. ASSUME NEW s \in FoundBy(id)
              PROVE  Append(Without(id), s) \in Seq(Searches)
            BY <3>1
        <3>4. QED
            BY <3>2, <3>3
    <2>2. cancelling' \in SUBSET Searches
        BY <1>18, FoundAreSearches DEF Shortcut
    <2>3. flag' \in [Searches -> BOOLEAN]
        <3>1. \A s \in Searches : (flag[s] \/ s \in FoundBy(id)) \in BOOLEAN
            OBVIOUS
        <3>2. QED
            BY <1>18, <3>1, Zenon DEF Shortcut
    <2>4. requested' \in SUBSET Searches
        BY <1>18 DEF Shortcut
    <2>5. QED
        BY <1>18, <2>1, <2>2, <2>3, <2>4 DEF Shortcut
<1>19. CASE StopWebServer
    BY <1>19 DEF StopWebServer
<1>20. CASE RequestShutdown
    BY <1>20 DEF RequestShutdown
<1>21. CASE CloseExecutors
    BY <1>21 DEF CloseExecutors
<1>22. CASE UNCHANGED vars
    BY <1>22 DEF vars
<1>23. QED
    BY <1>1, <1>2, <1>3, <1>4, <1>5, <1>6, <1>7, <1>8, <1>9, <1>10, <1>11, <1>12, <1>13, <1>14,
       <1>15, <1>16, <1>17, <1>18, <1>19, <1>20, <1>21, <1>22
       DEF Next, SearchStep

\* The first state has the right types.
LEMMA TypingInit ==
    ASSUME Init
    PROVE  TypeOK /\ WithinCap
BY Constants DEF Init, TypeOK, WithinCap, PCs

-----------------------------------------------------------------------------
(* Strengthening of EveryCallCancelled                                     *)

\* Only a search which was cut short has futures to be cancelled or a cancelled call.
CancelledOnlyIfFlagged ==
    /\ \A s \in cancelling : flag[s]
    /\ \A s \in Searches, i \in Indexers : calls[s][i] = "cancelled" => flag[s]

\* A running call can be found by a shortcut, but for the one just submitted.
RunningIsTracked ==
    \A s \in Searches, i \in Indexers : calls[s][i] = "running" =>
        \/ pc[s] \in {"submit", "track", "check", "await"} /\ i \in futures[s]
        \/ pc[s] = "track" /\ i = submitting[s]

\* The only call which may escape a shortcut is the one whose submitter still looks.
EscapedIsBeingChecked ==
    \A s \in Searches, i \in Indexers :
        flag[s] /\ s \notin cancelling /\ calls[s][i] = "running" =>
            pc[s] \in {"track", "check"} /\ i = submitting[s]

\* Awaiting a cancelled call flags a search which is flagged already.
LEMMA AwaitKeepsFlags ==
    ASSUME TypeOK, CancelledOnlyIfFlagged, NEW s \in Searches, NEW i \in Indexers, Await(s, i)
    PROVE  UNCHANGED flag
<1>1. calls[s][i] = "cancelled" => flag[s]
    BY DEF CancelledOnlyIfFlagged
<1>2. flag \in [Searches -> BOOLEAN]
    BY DEF TypeOK
<1>3. UNCHANGED flag \/ (flag[s] /\ flag' = [flag EXCEPT ![s] = TRUE])
    BY <1>1 DEF Await
<1>4. ASSUME flag[s]
      PROVE  [flag EXCEPT ![s] = TRUE] = flag
    <2>1. flag[s] = TRUE
        BY <1>4, <1>2, Zenon
    <2>2. [flag EXCEPT ![s] = flag[s]] = flag
        BY <1>2
    <2>3. QED
        BY <2>1, <2>2, Zenon
<1>5. QED
    BY <1>3, <1>4, Zenon

\* Every call can be found, and cancelled, by who cuts its search short.
CallsTracked ==
    /\ TypeOK
    /\ WithinCap
    /\ CancelledOnlyIfFlagged
    /\ RunningIsTracked
    /\ EscapedIsBeingChecked

\* A step keeps the invariant. Only what the invariant is about changes in a few actions.
LEMMA CallsTrackedInductive ==
    ASSUME CallsTracked, [Next]_vars
    PROVE  CallsTracked'
<1> USE DEF CallsTracked, CancelledOnlyIfFlagged, RunningIsTracked, EscapedIsBeingChecked, searchVars
<1>0. TypeOK' /\ WithinCap'
    BY TypingInductive
<1>1. CASE Expire
    BY <1>0, <1>1 DEF Expire
<1>2. ASSUME NEW s \in Searches, Enter(s)
      PROVE  CallsTracked'
    BY <1>0, <1>2 DEF Enter, TypeOK
<1>3. ASSUME NEW s \in Searches, Register(s)
      PROVE  CallsTracked'
    BY <1>0, <1>3 DEF Register, TypeOK
<1>4. ASSUME NEW s \in Searches, NEW toSearch \in SUBSET Indexers, BeginRound(s, toSearch)
      PROVE  CallsTracked'
    BY <1>0, <1>4 DEF BeginRound, TypeOK
<1>5. ASSUME NEW s \in Searches, OpenExecutor(s)
      PROVE  CallsTracked'
    BY <1>0, <1>5 DEF OpenExecutor, TypeOK
<1>6. ASSUME NEW s \in Searches, End(s)
      PROVE  CallsTracked'
    BY <1>0, <1>6 DEF End, TypeOK
<1>7. ASSUME NEW s \in Searches, Fail(s)
      PROVE  CallsTracked'
    BY <1>0, <1>7 DEF Fail, TypeOK
<1>8. ASSUME NEW s \in Searches, Persisted(s)
      PROVE  CallsTracked'
    <2>1. CancelledOnlyIfFlagged'
        BY <1>8 DEF Persisted, TypeOK
    <2>2. RunningIsTracked'
        BY <1>8 DEF Persisted, TypeOK
    <2>3. EscapedIsBeingChecked'
        BY <1>8 DEF Persisted, TypeOK
    <2>4. QED
        BY <1>0, <2>1, <2>2, <2>3
<1>9. ASSUME NEW s \in Searches, NEW i \in Indexers, Submit(s, i)
      PROVE  CallsTracked'
    <2>1. CancelledOnlyIfFlagged'
        BY <1>9 DEF Submit, TypeOK
    <2>2. RunningIsTracked'
        BY <1>9 DEF Submit, TypeOK
    <2>3. EscapedIsBeingChecked'
        BY <1>9 DEF Submit, TypeOK
    <2>4. QED
        BY <1>0, <2>1, <2>2, <2>3
<1>10. ASSUME NEW s \in Searches, NEW i \in Indexers, Await(s, i)
      PROVE  CallsTracked'
    <2>1. UNCHANGED <<pc, futures, submitting, cancelling>>
        BY <1>10 DEF Await
    <2>2. UNCHANGED flag
        BY <1>10, AwaitKeepsFlags DEF CallsTracked
    <2>3. \A t \in Searches, j \in Indexers : calls'[t][j] = "none" \/ calls'[t][j] = calls[t][j]
        <3>1. calls' = [calls EXCEPT ![s][i] = "none"]
            BY <1>10 DEF Await
        <3>2. \A t \in Searches : t # s => calls'[t] = calls[t]
            BY <3>1 DEF TypeOK
        <3>3. \A j \in Indexers : calls'[s][j] = IF j = i THEN "none" ELSE calls[s][j]
            BY <3>1 DEF TypeOK
        <3>4. QED
            BY <3>2, <3>3
    <2>4. CancelledOnlyIfFlagged'
        BY <2>1, <2>2, <2>3
    <2>5. RunningIsTracked'
        BY <2>1, <2>3
    <2>6. EscapedIsBeingChecked'
        BY <2>1, <2>2, <2>3
    <2>7. QED
        BY <1>0, <2>4, <2>5, <2>6
<1>11. ASSUME NEW s \in Searches, Track(s)
      PROVE  CallsTracked'
    <2>1. CancelledOnlyIfFlagged'
        BY <1>11 DEF Track, TypeOK
    <2>2. RunningIsTracked'
        BY <1>11 DEF Track, TypeOK
    <2>3. EscapedIsBeingChecked'
        BY <1>11 DEF Track, TypeOK
    <2>4. QED
        BY <1>0, <2>1, <2>2, <2>3
<1>12. ASSUME NEW s \in Searches, Check(s)
      PROVE  CallsTracked'
    <2>1. CancelledOnlyIfFlagged'
        BY <1>12 DEF Check, CancelIfRequested, Cancelled, TypeOK
    <2>2. RunningIsTracked'
        BY <1>12 DEF Check, CancelIfRequested, Cancelled, TypeOK
    <2>3. EscapedIsBeingChecked'
        BY <1>12 DEF Check, CancelIfRequested, Cancelled, TypeOK
    <2>4. QED
        BY <1>0, <2>1, <2>2, <2>3
<1>13. ASSUME NEW s \in Searches, EndRound(s)
      PROVE  CallsTracked'
    <2>1. CancelledOnlyIfFlagged'
        BY <1>13 DEF EndRound, CloseRound, TypeOK
    <2>2. RunningIsTracked'
        BY <1>13 DEF EndRound, CloseRound, TypeOK
    <2>3. EscapedIsBeingChecked'
        BY <1>13 DEF EndRound, CloseRound, TypeOK
    <2>4. QED
        BY <1>0, <2>1, <2>2, <2>3
<1>14. ASSUME NEW s \in Searches, RoundInterrupted(s)
      PROVE  CallsTracked'
    <2>1. CancelledOnlyIfFlagged'
        BY <1>14 DEF RoundInterrupted, CloseRound, TypeOK
    <2>2. RunningIsTracked'
        BY <1>14 DEF RoundInterrupted, CloseRound, TypeOK
    <2>3. EscapedIsBeingChecked'
        BY <1>14 DEF RoundInterrupted, CloseRound, TypeOK
    <2>4. QED
        BY <1>0, <2>1, <2>2, <2>3
<1>15. ASSUME NEW s \in Searches, SubmitRejected(s)
      PROVE  CallsTracked'
    <2>1. CancelledOnlyIfFlagged'
        BY <1>15 DEF SubmitRejected, CloseRound, TypeOK
    <2>2. RunningIsTracked'
        BY <1>15 DEF SubmitRejected, CloseRound, TypeOK
    <2>3. EscapedIsBeingChecked'
        BY <1>15 DEF SubmitRejected, CloseRound, TypeOK
    <2>4. QED
        BY <1>0, <2>1, <2>2, <2>3
<1>16. ASSUME NEW s \in Searches, CancelFutures(s)
      PROVE  CallsTracked'
    <2>1. CancelledOnlyIfFlagged'
        BY <1>16 DEF CancelFutures, Cancelled, TypeOK
    <2>2. RunningIsTracked'
        BY <1>16 DEF CancelFutures, Cancelled, TypeOK
    <2>3. EscapedIsBeingChecked'
        BY <1>16 DEF CancelFutures, Cancelled, TypeOK
    <2>4. QED
        BY <1>0, <2>1, <2>2, <2>3
<1>17. ASSUME NEW s \in Searches, NEW i \in Indexers, CallEnds(s, i)
      PROVE  CallsTracked'
    <2>1. CancelledOnlyIfFlagged'
        BY <1>17 DEF CallEnds, TypeOK
    <2>2. RunningIsTracked'
        BY <1>17 DEF CallEnds, TypeOK
    <2>3. EscapedIsBeingChecked'
        BY <1>17 DEF CallEnds, TypeOK
    <2>4. QED
        BY <1>0, <2>1, <2>2, <2>3
<1>18. ASSUME NEW id \in Ids, Shortcut(id)
      PROVE  CallsTracked'
    <2>1. FoundBy(id) \subseteq Searches
        BY FoundAreSearches DEF TypeOK
    <2>2. \A s \in Searches : flag'[s] <=> (flag[s] \/ s \in FoundBy(id))
        BY <1>18, Zenon DEF Shortcut
    <2>3. CancelledOnlyIfFlagged'
        BY <1>18, <2>1, <2>2 DEF Shortcut, TypeOK
    <2>4. RunningIsTracked'
        BY <1>18 DEF Shortcut
    <2>5. EscapedIsBeingChecked'
        BY <1>18, <2>2 DEF Shortcut
    <2>6. QED
        BY <1>0, <2>3, <2>4, <2>5
<1>19. CASE StopWebServer
    BY <1>0, <1>19 DEF StopWebServer
<1>20. CASE RequestShutdown
    BY <1>0, <1>20 DEF RequestShutdown
<1>21. CASE CloseExecutors
    BY <1>0, <1>21 DEF CloseExecutors
<1>22. CASE UNCHANGED vars
    BY <1>0, <1>22 DEF vars
<1>23. QED
    BY <1>1, <1>2, <1>3, <1>4, <1>5, <1>6, <1>7, <1>8, <1>9, <1>10, <1>11, <1>12, <1>13, <1>14,
       <1>15, <1>16, <1>17, <1>18, <1>19, <1>20, <1>21, <1>22
       DEF Next, SearchStep

\* It holds at first: nothing runs.
LEMMA CallsTrackedInit ==
    ASSUME Init
    PROVE  CallsTracked
BY TypingInit DEF Init, CallsTracked, CancelledOnlyIfFlagged, RunningIsTracked, EscapedIsBeingChecked

-----------------------------------------------------------------------------
(* Strengthening of OnlyRequestedCut                                       *)

\* A search is registered when it begins and flagged when a shortcut finds it.
FlaggedWereRequested ==
    /\ \A s \in Registered : pc[s] \notin {"new", "select"}
    /\ \A s \in Searches : flag[s] => s \in requested \/ pc[s] \in Ended

\* A step which leaves the registrations alone and starts no search again.
LEMMA NothingRegistered ==
    ASSUME FlaggedWereRequested, UNCHANGED <<active, flag>>, requested \subseteq requested',
           \A s \in Searches \cup Registered :
               /\ pc[s] \notin {"new", "select"} => pc'[s] \notin {"new", "select"}
               /\ pc[s] \in Ended => pc'[s] \in Ended
    PROVE  FlaggedWereRequested'
BY DEF FlaggedWereRequested, Registered

\* What is registered are searches.
LEMMA RegisteredAreSearches ==
    ASSUME active \in Seq(Searches)
    PROVE  Registered \subseteq Searches
BY DEF Registered

\* A step flags no search but those for which it's requested. The actions which register,
\* flag or request come first, the others leave all that alone.
LEMMA RequestedInductive ==
    ASSUME TypeOK, CancelledOnlyIfFlagged, FlaggedWereRequested, [Next]_vars
    PROVE  FlaggedWereRequested'
<1>0. active \in Seq(Searches) /\ Registered \subseteq Searches
    BY RegisteredAreSearches DEF TypeOK
<1>1. CASE Expire
    <2>1. Registered' \subseteq Registered
        <3>1. active # <<>> /\ active' = Tail(active)
            BY <1>1 DEF Expire
        <3>2. \A k \in DOMAIN Tail(active) : Tail(active)[k] = active[k + 1] /\ k + 1 \in DOMAIN active
            BY <1>0, <3>1
        <3>3. QED
            BY <3>1, <3>2 DEF Registered
    <2>2. QED
        BY <1>1, <2>1 DEF Expire, FlaggedWereRequested
<1>2. ASSUME NEW s \in Searches, Register(s)
      PROVE  FlaggedWereRequested'
    <2>1. Registered' \subseteq Registered \cup {s}
        BY <1>0, <1>2, PutAddsOne DEF Register, Registered
    <2>2. pc' = [pc EXCEPT ![s] = "loop"] /\ pc[s] = "select" /\ UNCHANGED <<flag, requested>>
        BY <1>2 DEF Register
    <2>3. QED
        BY <1>0, <2>1, <2>2 DEF FlaggedWereRequested, TypeOK, Ended
<1>3. ASSUME NEW s \in Searches, End(s)
      PROVE  FlaggedWereRequested'
    <2>1. Registered' \subseteq Registered
        BY <1>0, <1>3, WithoutAddsNothing DEF End, Registered
    <2>2. pc' = [pc EXCEPT ![s] = "done"] /\ UNCHANGED <<flag, requested>>
        BY <1>3 DEF End
    <2>3. QED
        BY <1>0, <2>1, <2>2 DEF FlaggedWereRequested, TypeOK, Ended
<1>4. ASSUME NEW id \in Ids, Shortcut(id)
      PROVE  FlaggedWereRequested'
    <2>1. FoundBy(id) \subseteq Registered
        BY DEF FoundBy
    <2>2. Registered' \subseteq Registered
        <3>1. CASE UNCHANGED active
            BY <3>1 DEF Registered
        <3>2. ASSUME NEW s \in FoundBy(id), active' = Append(Without(id), s)
              PROVE  Registered' \subseteq Registered
            <4>1. Without(id) \in Seq(Searches) /\ \A k \in DOMAIN Without(id) : Without(id)[k] \in Registered
                BY <1>0, WithoutType, WithoutAddsNothing
            <4>2. \A k \in DOMAIN active' : active'[k] \in Registered
                BY <2>1, <3>2, <4>1
            <4>3. Registered' = {active'[k] : k \in DOMAIN active'}
                BY DEF Registered
            <4>4. QED
                BY <4>2, <4>3
        <3>3. QED
            BY <1>4, <3>1, <3>2 DEF Shortcut
    <2>3. \A s \in Searches : flag'[s] => flag[s] \/ s \in FoundBy(id)
        BY <1>4, Zenon DEF Shortcut
    <2>4. \A s \in FoundBy(id) : IdOf[s] = id /\ pc[s] \notin {"new", "select"}
        BY <2>1 DEF FoundBy, FlaggedWereRequested
    <2>5. \A s \in Searches : s \in FoundBy(id) => s \in requested' \/ pc[s] \in Ended
        BY <1>4, <2>4 DEF Shortcut, IsRunning
    <2>6. requested \subseteq requested' /\ UNCHANGED pc
        BY <1>4 DEF Shortcut
    <2>7. QED
        BY <2>2, <2>3, <2>5, <2>6 DEF FlaggedWereRequested
<1>5. ASSUME NEW s \in Searches, Enter(s)
      PROVE  FlaggedWereRequested'
    BY <1>0, <1>5, NothingRegistered DEF Enter, searchVars, TypeOK, Ended
<1>6. ASSUME NEW s \in Searches, OpenExecutor(s)
      PROVE  FlaggedWereRequested'
    BY <1>0, <1>6, NothingRegistered DEF OpenExecutor, searchVars, TypeOK, Ended
<1>7. ASSUME NEW s \in Searches, Fail(s)
      PROVE  FlaggedWereRequested'
    BY <1>0, <1>7, NothingRegistered DEF Fail, searchVars, TypeOK, Ended
<1>8. ASSUME NEW s \in Searches, Persisted(s)
      PROVE  FlaggedWereRequested'
    BY <1>0, <1>8, NothingRegistered DEF Persisted, searchVars, TypeOK, Ended
<1>9. ASSUME NEW s \in Searches, Track(s)
      PROVE  FlaggedWereRequested'
    BY <1>0, <1>9, NothingRegistered DEF Track, searchVars, TypeOK, Ended
<1>10. ASSUME NEW s \in Searches, Check(s)
      PROVE  FlaggedWereRequested'
    BY <1>0, <1>10, NothingRegistered DEF Check, searchVars, TypeOK, Ended
<1>11. ASSUME NEW s \in Searches, EndRound(s)
      PROVE  FlaggedWereRequested'
    BY <1>0, <1>11, NothingRegistered DEF EndRound, CloseRound, searchVars, TypeOK, Ended
<1>12. ASSUME NEW s \in Searches, RoundInterrupted(s)
      PROVE  FlaggedWereRequested'
    BY <1>0, <1>12, NothingRegistered DEF RoundInterrupted, CloseRound, searchVars, TypeOK, Ended
<1>13. ASSUME NEW s \in Searches, SubmitRejected(s)
      PROVE  FlaggedWereRequested'
    BY <1>0, <1>13, NothingRegistered DEF SubmitRejected, CloseRound, searchVars, TypeOK, Ended
<1>14. ASSUME NEW s \in Searches, CancelFutures(s)
      PROVE  FlaggedWereRequested'
    BY <1>0, <1>14, NothingRegistered DEF CancelFutures, searchVars, TypeOK, Ended
<1>15. ASSUME NEW s \in Searches, NEW toSearch \in SUBSET Indexers, BeginRound(s, toSearch)
      PROVE  FlaggedWereRequested'
    BY <1>0, <1>15, NothingRegistered DEF BeginRound, TypeOK, Ended
<1>16. ASSUME NEW s \in Searches, NEW i \in Indexers, Submit(s, i)
      PROVE  FlaggedWereRequested'
    BY <1>0, <1>16, NothingRegistered DEF Submit, TypeOK, Ended
<1>17. ASSUME NEW s \in Searches, NEW i \in Indexers, CallEnds(s, i)
      PROVE  FlaggedWereRequested'
    BY <1>0, <1>17, NothingRegistered DEF CallEnds, TypeOK, Ended
<1>18. ASSUME NEW s \in Searches, NEW i \in Indexers, Await(s, i)
      PROVE  FlaggedWereRequested'
    <2>1. UNCHANGED <<active, pc, requested>>
        BY <1>18 DEF Await
    <2>2. UNCHANGED flag
        BY <1>18, AwaitKeepsFlags
    <2>3. QED
        BY <2>1, <2>2, NothingRegistered
<1>19. CASE StopWebServer
    BY <1>19, NothingRegistered DEF StopWebServer
<1>20. CASE RequestShutdown
    BY <1>20, NothingRegistered DEF RequestShutdown
<1>21. CASE CloseExecutors
    BY <1>21, NothingRegistered DEF CloseExecutors
<1>22. CASE UNCHANGED vars
    BY <1>22, NothingRegistered DEF vars
<1>23. QED
    BY <1>1, <1>2, <1>3, <1>4, <1>5, <1>6, <1>7, <1>8, <1>9, <1>10, <1>11,
       <1>12, <1>13, <1>14, <1>15, <1>16, <1>17, <1>18, <1>19, <1>20, <1>21, <1>22
       DEF Next, SearchStep

-----------------------------------------------------------------------------
(* The inductive invariant                                                 *)

IInv ==
    /\ CallsTracked
    /\ FlaggedWereRequested

\* The invariant holds in every state.
LEMMA Invariance == Spec => []IInv
<1>1. Init => IInv
    BY CallsTrackedInit DEF Init, IInv, FlaggedWereRequested, Registered
<1>2. IInv /\ [Next]_vars => IInv'
    BY CallsTrackedInductive, RequestedInductive DEF IInv, CallsTracked
<1>3. QED
    BY <1>1, <1>2, PTL DEF Spec

-----------------------------------------------------------------------------
(* No shortcut is lost while registrations last                            *)

\* What a sequence of registrations holds, and that it has one for an ID.
Held(q) == {q[k] : k \in DOMAIN q}
DistinctIds(q) == \A j, k \in DOMAIN q : IdOf[q[j]] = IdOf[q[k]] => j = k

\* Removing an ID removes exactly its registration.
LEMMA WithoutExact ==
    ASSUME active \in Seq(Searches), DistinctIds(active), NEW id
    PROVE  /\ DistinctIds(Without(id))
           /\ Held(Without(id)) = {s \in Registered : IdOf[s] # id}
<1>1. CASE \E s \in Registered : IdOf[s] = id
    <2>1. \E m \in DOMAIN active : IdOf[active[m]] = id
        BY <1>1 DEF Registered
    <2>2. PICK m \in DOMAIN active : m = CHOOSE n \in DOMAIN active : IdOf[active[n]] = id
        BY <2>1
    <2>3. m \in 1..Len(active) /\ Len(active) \in Nat /\ DOMAIN active = 1..Len(active)
        OBVIOUS
    <2>4. IdOf[active[m]] = id
        BY <2>1, <2>2
    <2> DEFINE before == SubSeq(active, 1, m - 1)
               after  == SubSeq(active, m + 1, Len(active))
               at(k)  == IF k < m THEN k ELSE k + 1
    <2>5. Without(id) = before \o after
        BY <1>1, <2>2 DEF Without
    <2>6. /\ before \in Seq(Searches) /\ Len(before) = m - 1
          /\ \A n \in 1..(m - 1) : before[n] = active[n]
        BY <2>3
    <2>7. /\ after \in Seq(Searches) /\ Len(after) = Len(active) - m
          /\ \A n \in 1..(Len(active) - m) : after[n] = active[m + n]
        BY <2>3
    <2> HIDE DEF before, after
    <2>8. DOMAIN Without(id) = 1..(Len(active) - 1)
        <3>1. Without(id) \in Seq(Searches)
            BY WithoutType
        <3>2. Len(Without(id)) = Len(before) + Len(after)
            BY <2>5, <2>6, <2>7, ConcatProperties
        <3>3. Len(before) + Len(after) = Len(active) - 1
            BY <2>3, <2>6, <2>7
        <3>4. QED
            BY <3>1, <3>2, <3>3, LenProperties
    <2>9. \A k \in 1..(Len(active) - 1) : Without(id)[k] = active[at(k)]
        <3>1. ASSUME NEW k \in 1..(Len(active) - 1), k < m
              PROVE  Without(id)[k] = active[k]
            BY <2>3, <2>5, <2>6, <2>7, <3>1
        <3>2. ASSUME NEW k \in 1..(Len(active) - 1), ~ (k < m)
              PROVE  Without(id)[k] = active[k + 1]
            <4>0. k \in 1..(Len(before) + Len(after)) /\ ~ (k <= Len(before))
                BY <2>3, <2>6, <2>7, <3>2
            <4>1. Without(id)[k] = after[k - (m - 1)] /\ k - (m - 1) \in 1..(Len(active) - m)
                <5>1. Without(id)[k] = after[k - Len(before)]
                    BY <2>5, <2>6, <2>7, <4>0, ConcatProperties
                <5>2. QED
                    BY <2>3, <2>6, <2>7, <4>0, <5>1
            <4>2. after[k - (m - 1)] = active[m + (k - (m - 1))] /\ m + (k - (m - 1)) = k + 1
                BY <2>3, <2>7, <4>1
            <4>3. QED
                BY <4>1, <4>2
        <3>3. QED
            BY <3>1, <3>2
    <2>10. \A k \in 1..(Len(active) - 1) : at(k) \in DOMAIN active /\ at(k) # m
        BY <2>3
    <2>11. \A n \in DOMAIN active : n # m => \E k \in 1..(Len(active) - 1) : n = at(k)
        <3>1. ASSUME NEW n \in DOMAIN active, n < m
              PROVE  \E k \in 1..(Len(active) - 1) : n = at(k)
            BY <2>3, <3>1
        <3>2. ASSUME NEW n \in DOMAIN active, n > m
              PROVE  \E k \in 1..(Len(active) - 1) : n = at(k)
            <4>1. n - 1 \in 1..(Len(active) - 1) /\ n = at(n - 1)
                BY <2>3, <3>2
            <4>2. QED
                BY <4>1
        <3>3. QED
            BY <2>3, <3>1, <3>2
    <2>12. \A j, k \in 1..(Len(active) - 1) : at(j) = at(k) => j = k
        BY <2>3
    <2> HIDE DEF at
    <2>13. DistinctIds(Without(id))
        BY <2>8, <2>9, <2>10, <2>12 DEF DistinctIds
    <2>14. \A n \in DOMAIN active : IdOf[active[n]] = id => n = m
        BY <2>4 DEF DistinctIds
    <2>15. Held(Without(id)) = {s \in Registered : IdOf[s] # id}
        <3>1. \A k \in DOMAIN Without(id) : Without(id)[k] \in Registered /\ IdOf[Without(id)[k]] # id
            BY <2>8, <2>9, <2>10, <2>14 DEF Registered
        <3>2. ASSUME NEW s \in Registered, IdOf[s] # id
              PROVE  s \in Held(Without(id))
            <4>1. PICK n \in DOMAIN active : s = active[n]
                BY DEF Registered
            <4>2. PICK k \in 1..(Len(active) - 1) : n = at(k)
                BY <2>4, <2>11, <3>2, <4>1
            <4>3. QED
                BY <2>8, <2>9, <4>1, <4>2 DEF Held
        <3>3. QED
            BY <3>1, <3>2 DEF Held
    <2>16. QED
        BY <2>13, <2>15
<1>2. CASE ~ \E s \in Registered : IdOf[s] = id
    <2>1. Without(id) = active
        BY <1>2 DEF Without
    <2>2. QED
        BY <1>2, <2>1 DEF Held, Registered
<1>3. QED
    BY <1>1, <1>2

\* Putting a search behind others of other IDs adds it and nothing else.
LEMMA AppendExact ==
    ASSUME NEW q \in Seq(Searches), DistinctIds(q), NEW s \in Searches,
           \A t \in Held(q) : IdOf[t] # IdOf[s]
    PROVE  DistinctIds(Append(q, s)) /\ Held(Append(q, s)) = Held(q) \cup {s}
<1>1. /\ Len(q) \in Nat /\ DOMAIN q = 1..Len(q)
      /\ DOMAIN Append(q, s) = 1..(Len(q) + 1)
      /\ \A k \in 1..Len(q) : Append(q, s)[k] = q[k]
      /\ Append(q, s)[Len(q) + 1] = s
    OBVIOUS
<1>2. \A k \in 1..Len(q) : IdOf[q[k]] # IdOf[s]
    BY <1>1 DEF Held
<1>3. DistinctIds(Append(q, s))
    BY <1>1, <1>2 DEF DistinctIds
<1>4. Held(Append(q, s)) = Held(q) \cup {s}
    BY <1>1 DEF Held
<1>5. QED
    BY <1>3, <1>4

\* A registry with room for every ID drops nothing but what the new search replaces.
LEMMA PutExact ==
    ASSUME active \in Seq(Searches), DistinctIds(active), NEW s \in Searches,
           IsFiniteSet(Ids), Cardinality(Ids) <= MaxSize
    PROVE  /\ DistinctIds(Put(s))
           /\ Held(Put(s)) = {t \in Registered : IdOf[t] # IdOf[s]} \cup {s}
<1> DEFINE others == Without(IdOf[s])
           Rest   == Ids \ {IdOf[s]}
<1>1. others \in Seq(Searches)
    BY WithoutType
<1>2. DistinctIds(others) /\ Held(others) = {t \in Registered : IdOf[t] # IdOf[s]}
    BY WithoutExact
<1> HIDE DEF others
<1>3. Len(others) \in Nat /\ DOMAIN others = 1..Len(others) /\ \A k \in 1..Len(others) : others[k] \in Searches
    BY <1>1
<1> DEFINE f == [k \in 1..Len(others) |-> IdOf[others[k]]]
<1>4. f \in [1..Len(others) -> Rest]
    <2>1. \A k \in 1..Len(others) : IdOf[others[k]] \in Rest
        BY <1>2, <1>3, Constants DEF Held
    <2>2. QED
        BY <2>1
<1>5. \A j, k \in 1..Len(others) : f[j] = f[k] => j = k
    BY <1>2, <1>3 DEF DistinctIds
<1>6. IsFiniteSet(Rest) /\ Cardinality(Rest) = Cardinality(Ids) - 1 /\ Cardinality(Ids) \in Nat
    BY Constants, FS_RemoveElement, FS_CardinalityType
<1> HIDE DEF f, Rest
<1>7. f \in Injection(1..Len(others), Rest)
    BY <1>4, <1>5, Fun_IsInj
<1>8. Cardinality(1..Len(others)) <= Cardinality(Rest)
    BY <1>6, <1>7, FS_Injection
<1>9. Cardinality(1..Len(others)) = Len(others)
    <2>1. \A n \in Nat : Cardinality(1..n) = IF 1 > n THEN 0 ELSE n - 1 + 1
        BY FS_Interval
    <2>2. QED
        BY <1>3, <2>1
<1>10. ~ (Len(others) >= MaxSize)
    BY <1>3, <1>6, <1>8, <1>9, Constants
<1>11. Put(s) = Append(others, s)
    BY <1>10 DEF Put, others
<1>12. QED
    BY <1>1, <1>2, <1>11, AppendExact

\* A caller does not search again while it still searches.
OneAtATime ==
    \A s, t \in Searches :
        /\ IdOf[s] = IdOf[t]
        /\ pc[s] \notin {"new"} \cup Ended
        /\ pc[t] \notin {"new"} \cup Ended
        => s = t

\* A running search can be found.
RunningAreRegistered == \A s \in Searches : IsRunning(s) => s \in Registered

\* A requested shortcut was for a registered search, and has reached it if it runs.
RequestedAreFlagged ==
    \A s \in requested : pc[s] \notin {"new", "select"} /\ (IsRunning(s) => flag[s])

NoneLost ==
    /\ DistinctIds(active)
    /\ OneAtATime
    /\ RunningAreRegistered
    /\ RequestedAreFlagged
    /\ late = {}

\* Steps of a running search, or of others than searches.
LEMMA NothingChanges ==
    ASSUME TypeOK, NoneLost, UNCHANGED <<active, flag, requested, late>>,
           \A s \in Searches :
               \/ pc'[s] = pc[s]
               \/ pc'[s] \in Ended
               \/ pc[s] \notin {"new", "select"} \cup Ended /\ pc'[s] \notin {"new", "select"} \cup Ended
    PROVE  NoneLost'
<1>1. DistinctIds(active)' /\ late' = {}
    BY DEF NoneLost, DistinctIds
<1>2. OneAtATime'
    BY DEF NoneLost, OneAtATime
<1>3. RunningAreRegistered'
    BY DEF NoneLost, RunningAreRegistered, IsRunning, Registered
<1>4. RequestedAreFlagged'
    BY DEF NoneLost, RequestedAreFlagged, IsRunning, TypeOK, Ended
<1>5. QED
    BY <1>1, <1>2, <1>3, <1>4 DEF NoneLost

\* A step loses no shortcut if registrations don't expire, callers don't overlap and the
\* registry has room for all IDs.
LEMMA NoneLostInductive ==
    ASSUME TypeOK, CancelledOnlyIfFlagged, NoneLost, [Next]_vars,
           ~ MayExpire, ~ MayOverlap, IsFiniteSet(Ids), Cardinality(Ids) <= MaxSize
    PROVE  NoneLost'
<1>0. /\ active \in Seq(Searches) /\ Registered \subseteq Searches /\ DistinctIds(active)
      /\ pc \in [Searches -> PCs] /\ Registered = Held(active)
    BY RegisteredAreSearches DEF TypeOK, NoneLost, Held, Registered
<1>1. CASE Expire
    BY <1>1 DEF Expire
<1>2. ASSUME NEW s \in Searches, Enter(s)
      PROVE  NoneLost'
    <2>1. /\ pc[s] = "new" /\ pc' = [pc EXCEPT ![s] = "select"]
          /\ \A t \in Searches : IdOf[t] = IdOf[s] => pc[t] \in {"new"} \cup Ended
          /\ UNCHANGED <<active, flag, requested, late>>
        BY <1>2 DEF Enter
    <2>2. \A t \in Searches : pc'[t] = IF t = s THEN "select" ELSE pc[t]
        BY <1>0, <2>1
    <2>3. OneAtATime'
        BY <2>1, <2>2 DEF NoneLost, OneAtATime
    <2>4. RunningAreRegistered'
        BY <2>1, <2>2 DEF NoneLost, RunningAreRegistered, IsRunning, Registered
    <2>5. RequestedAreFlagged'
        BY <2>1, <2>2 DEF NoneLost, RequestedAreFlagged, IsRunning, TypeOK
    <2>6. QED
        BY <2>1, <2>3, <2>4, <2>5 DEF NoneLost, DistinctIds
<1>3. ASSUME NEW s \in Searches, Register(s)
      PROVE  NoneLost'
    <2>1. /\ pc[s] = "select" /\ pc' = [pc EXCEPT ![s] = "loop"] /\ active' = Put(s)
          /\ UNCHANGED <<flag, requested, late>>
        BY <1>3 DEF Register
    <2>2. \A t \in Searches : pc'[t] = IF t = s THEN "loop" ELSE pc[t]
        BY <1>0, <2>1
    <2>3. DistinctIds(active)' /\ Registered' = {t \in Registered : IdOf[t] # IdOf[s]} \cup {s}
        <3>1. DistinctIds(Put(s)) /\ Held(Put(s)) = {t \in Registered : IdOf[t] # IdOf[s]} \cup {s}
            BY <1>0, PutExact
        <3>2. QED
            BY <2>1, <3>1 DEF DistinctIds, Registered, Held
    <2>4. OneAtATime'
        BY <2>1, <2>2 DEF NoneLost, OneAtATime, Ended
    <2>5. \A t \in Searches : t # s /\ IsRunning(t) => IdOf[t] # IdOf[s]
        BY <2>1 DEF NoneLost, OneAtATime, IsRunning, Ended
    <2>6. RunningAreRegistered'
        BY <2>2, <2>3, <2>5 DEF NoneLost, RunningAreRegistered, IsRunning
    <2>7. RequestedAreFlagged'
        BY <2>1, <2>2 DEF NoneLost, RequestedAreFlagged, IsRunning, TypeOK
    <2>8. QED
        BY <2>1, <2>3, <2>4, <2>6, <2>7 DEF NoneLost
<1>4. ASSUME NEW s \in Searches, End(s)
      PROVE  NoneLost'
    <2>1. /\ pc[s] = "loop" /\ pc' = [pc EXCEPT ![s] = "done"] /\ active' = Without(IdOf[s])
          /\ UNCHANGED <<flag, requested, late>>
        BY <1>4 DEF End
    <2>2. \A t \in Searches : pc'[t] = IF t = s THEN "done" ELSE pc[t]
        BY <1>0, <2>1
    <2>3. DistinctIds(active)' /\ Registered' = {t \in Registered : IdOf[t] # IdOf[s]}
        <3>1. DistinctIds(Without(IdOf[s])) /\ Held(Without(IdOf[s])) = {t \in Registered : IdOf[t] # IdOf[s]}
            BY <1>0, WithoutExact
        <3>2. QED
            BY <2>1, <3>1 DEF DistinctIds, Registered, Held
    <2>4. OneAtATime'
        BY <2>1, <2>2 DEF NoneLost, OneAtATime, Ended
    <2>5. \A t \in Searches : t # s /\ IsRunning(t) => IdOf[t] # IdOf[s]
        BY <2>1 DEF NoneLost, OneAtATime, IsRunning, Ended
    <2>6. RunningAreRegistered'
        BY <2>2, <2>3, <2>5 DEF NoneLost, RunningAreRegistered, IsRunning, Ended
    <2>7. RequestedAreFlagged'
        BY <2>1, <2>2 DEF NoneLost, RequestedAreFlagged, IsRunning, TypeOK, Ended
    <2>8. QED
        BY <2>1, <2>3, <2>4, <2>6, <2>7 DEF NoneLost
<1>5. ASSUME NEW id \in Ids, Shortcut(id)
      PROVE  NoneLost'
    <2>1. /\ requested' = requested \cup {s \in Searches : IdOf[s] = id /\ IsRunning(s)}
          /\ UNCHANGED <<pc, late>>
        BY <1>5 DEF Shortcut
    <2>2. \A s \in Searches : flag'[s] <=> (flag[s] \/ s \in FoundBy(id))
        BY <1>5, Zenon DEF Shortcut
    <2>3. DistinctIds(active)' /\ Registered' = Registered
        <3>1. CASE UNCHANGED active
            BY <1>0, <3>1 DEF DistinctIds, Registered
        <3>2. ASSUME NEW s \in FoundBy(id), active' = Append(Without(id), s)
              PROVE  DistinctIds(active)' /\ Registered' = Registered
            <4>1. s \in Registered /\ s \in Searches /\ IdOf[s] = id
                BY <1>0 DEF FoundBy
            <4>2. /\ Without(id) \in Seq(Searches) /\ DistinctIds(Without(id))
                  /\ Held(Without(id)) = {t \in Registered : IdOf[t] # id}
                BY <1>0, WithoutType, WithoutExact
            <4>3. DistinctIds(active') /\ Held(active') = {t \in Registered : IdOf[t] # id} \cup {s}
                BY <3>2, <4>1, <4>2, AppendExact
            <4>4. \A t \in Registered : IdOf[t] = id => t = s
                BY <1>0, <4>1 DEF DistinctIds, Registered
            <4>5. Held(active') = Registered
                BY <4>1, <4>3, <4>4
            <4>6. QED
                BY <4>3, <4>5 DEF DistinctIds, Registered, Held
        <3>3. QED
            BY <1>5, <3>1, <3>2 DEF Shortcut
    <2>4. OneAtATime' /\ RunningAreRegistered'
        BY <2>1, <2>3 DEF NoneLost, OneAtATime, RunningAreRegistered, IsRunning
    <2>5. RequestedAreFlagged'
        <3>1. ASSUME NEW s \in Searches, IdOf[s] = id, IsRunning(s)
              PROVE  pc[s] \notin {"new", "select"} /\ flag'[s]
            <4>1. s \in FoundBy(id)
                BY <3>1 DEF NoneLost, RunningAreRegistered, FoundBy
            <4>2. QED
                BY <2>2, <3>1, <4>1 DEF IsRunning
        <3>2. ASSUME NEW s \in requested
              PROVE  pc[s] \notin {"new", "select"} /\ (IsRunning(s) => flag'[s])
            BY <2>2 DEF NoneLost, RequestedAreFlagged, TypeOK
        <3>3. QED
            BY <2>1, <3>1, <3>2 DEF RequestedAreFlagged, IsRunning
    <2>6. QED
        BY <2>1, <2>3, <2>4, <2>5 DEF NoneLost
<1>6. ASSUME NEW s \in Searches, NEW toSearch \in SUBSET Indexers, BeginRound(s, toSearch)
      PROVE  NoneLost'
    <2>1. pc[s] = "loop" /\ ~ flag[s]
        BY <1>6 DEF BeginRound, MustEnd
    <2>2. s \notin requested
        BY <2>1 DEF NoneLost, RequestedAreFlagged, IsRunning, Ended
    <2>3. UNCHANGED <<active, flag, requested, late>> /\ pc' = [pc EXCEPT ![s] = "open"]
        BY <1>6, <2>2 DEF BeginRound
    <2>4. QED
        BY <1>0, <2>1, <2>3, NothingChanges DEF Ended
<1>7. ASSUME NEW s \in Searches, NEW i \in Indexers, Await(s, i)
      PROVE  NoneLost'
    <2>1. UNCHANGED <<active, pc, requested, late>>
        BY <1>7 DEF Await
    <2>2. UNCHANGED flag
        BY <1>7, AwaitKeepsFlags
    <2>3. QED
        BY <2>1, <2>2, NothingChanges
<1>8. ASSUME NEW s \in Searches, Fail(s)
      PROVE  NoneLost'
    BY <1>0, <1>8, NothingChanges DEF Fail, Ended
<1>9. ASSUME NEW s \in Searches, Persisted(s)
      PROVE  NoneLost'
    BY <1>0, <1>9, NothingChanges DEF Persisted, Ended
<1>10. ASSUME NEW s \in Searches, OpenExecutor(s)
      PROVE  NoneLost'
    BY <1>0, <1>10, NothingChanges DEF OpenExecutor, Ended
<1>11. ASSUME NEW s \in Searches, NEW i \in Indexers, Submit(s, i)
      PROVE  NoneLost'
    BY <1>0, <1>11, NothingChanges DEF Submit, Ended
<1>12. ASSUME NEW s \in Searches, Track(s)
      PROVE  NoneLost'
    BY <1>0, <1>12, NothingChanges DEF Track, Ended
<1>13. ASSUME NEW s \in Searches, Check(s)
      PROVE  NoneLost'
    BY <1>0, <1>13, NothingChanges DEF Check, Ended
<1>14. ASSUME NEW s \in Searches, EndRound(s)
      PROVE  NoneLost'
    BY <1>0, <1>14, NothingChanges DEF EndRound, CloseRound, Ended
<1>15. ASSUME NEW s \in Searches, RoundInterrupted(s)
      PROVE  NoneLost'
    BY <1>0, <1>15, NothingChanges DEF RoundInterrupted, CloseRound, Ended
<1>16. ASSUME NEW s \in Searches, SubmitRejected(s)
      PROVE  NoneLost'
    BY <1>0, <1>16, NothingChanges DEF SubmitRejected, CloseRound, Ended
<1>17. ASSUME NEW s \in Searches, CancelFutures(s)
      PROVE  NoneLost'
    BY <1>17, NothingChanges DEF CancelFutures
<1>18. ASSUME NEW s \in Searches, NEW i \in Indexers, CallEnds(s, i)
      PROVE  NoneLost'
    BY <1>18, NothingChanges DEF CallEnds
<1>19. CASE StopWebServer
    BY <1>19, NothingChanges DEF StopWebServer
<1>20. CASE RequestShutdown
    BY <1>20, NothingChanges DEF RequestShutdown
<1>21. CASE CloseExecutors
    BY <1>21, NothingChanges DEF CloseExecutors
<1>22. CASE UNCHANGED vars
    BY <1>22, NothingChanges DEF vars
<1>23. QED
    BY <1>1, <1>2, <1>3, <1>4, <1>5, <1>6, <1>7, <1>8, <1>9, <1>10, <1>11, <1>12, <1>13, <1>14,
       <1>15, <1>16, <1>17, <1>18, <1>19, <1>20, <1>21, <1>22
       DEF Next, SearchStep

-----------------------------------------------------------------------------
(* Theorems                                                                *)

\* No search ever stores a value of another type, and no indexer is queried by a
\* search more often than it may be, however its rounds are interrupted.
THEOREM Typing == Spec => []TypeOK
<1>1. IInv => TypeOK
    BY DEF IInv, CallsTracked
<1>2. QED
    BY <1>1, Invariance, PTL

\* Whenever a search which was cut short waits for the calls of its round none of
\* them still runs: the check after registering a future (Searcher.queryIndexers)
\* closes the gap in which a shortcut doesn't find it.
THEOREM NoCallEscapes == Spec => []EveryCallCancelled
<1>1. IInv => EveryCallCancelled
    BY DEF IInv, CallsTracked, EscapedIsBeingChecked, EveryCallCancelled
<1>2. QED
    BY <1>1, Invariance, PTL

\* No search is cut short for which it was not requested, be it one which runs next to
\* it or one which had the same ID before: Searcher.shortcutSearch finds a search by an
\* ID, and what is registered under it (Searcher.search) is the search which runs.
THEOREM NoOtherSearchCut == Spec => []OnlyRequestedCut
<1>1. IInv => OnlyRequestedCut
    BY DEF IInv, FlaggedWereRequested, OnlyRequestedCut
<1>2. QED
    BY <1>1, Invariance, PTL

\* Where registrations live longer than their searches, a caller waits for its answer
\* before it searches again and the registry has room for all IDs, no round begins after
\* a shortcut was requested: it finds the search, and the flag stays (Searcher.search).
THEOREM NoShortcutLost ==
    ASSUME ~ MayExpire, ~ MayOverlap, IsFiniteSet(Ids), Cardinality(Ids) <= MaxSize
    PROVE  Spec => []NoRoundAfterShortcut
<1>1. Init => NoneLost
    BY DEF Init, NoneLost, DistinctIds, OneAtATime, RunningAreRegistered, RequestedAreFlagged, IsRunning
<1>2. IInv /\ NoneLost /\ [Next]_vars => NoneLost'
    BY NoneLostInductive DEF IInv, CallsTracked
<1>3. NoneLost => NoRoundAfterShortcut
    BY DEF NoneLost, NoRoundAfterShortcut
<1>4. QED
    BY <1>1, <1>2, <1>3, Invariance, PTL DEF Spec
=============================================================================
