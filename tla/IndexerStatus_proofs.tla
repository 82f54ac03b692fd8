------------------------ MODULE IndexerStatus_proofs ------------------------
(***************************************************************************)
(* Theorems about IndexerStatus for any number of calls and configurations. *)
(***************************************************************************)
EXTENDS IndexerStatus, TLAPS

-----------------------------------------------------------------------------
(* Types                                                                   *)

\* What a call may leave in the object it writes to.
LEMMA WritingTyped ==
    ASSUME TypeOK, NEW c \in Calls, NEW permanently \in BOOLEAN,
           HandleSuccess(c) \/ HandleFailure(c, permanently)
    PROVE  configs' \in [1..MaxConfigs -> Status]
<1> USE OutcomesAssumption, BoundsAssumption DEF TypeOK, States, Status, Enabled, WrittenTo
<1>1. call[c] \in 1..MaxConfigs
  OBVIOUS
<1>2. configs[call[c]] \in Status
  BY <1>1
<1>3. CASE HandleSuccess(c)
  BY <1>1, <1>3 DEF HandleSuccess
<1>4. CASE HandleFailure(c, permanently)
  <2>1. CASE permanently
    <3>1. configs' = [configs EXCEPT ![call[c]].state = "DISABLED_SYSTEM"]
      BY <1>4, <2>1, Zenon DEF HandleFailure
    <3>2. QED
      BY <1>1, <1>2, <3>1
  <2>2. CASE ~ permanently /\ ignoring
    BY <1>4, <2>2 DEF HandleFailure
  <2>3. CASE ~ permanently /\ ~ ignoring
    <3> DEFINE failed == [state |-> "DISABLED_SYSTEM_TEMPORARY", level |-> configs[call[c]].level + 1, until |-> "future"]
    <3>1. configs[call[c]].level < MaxLevel /\ configs' = [configs EXCEPT ![call[c]] = failed]
      BY <1>4, <2>3, Zenon DEF HandleFailure
    <3>2. failed \in Status
      BY <1>2, <3>1
    <3>3. QED
      BY <1>1, <3>1, <3>2
  <2>4. QED
    BY <2>1, <2>2, <2>3
<1>5. QED
  BY <1>3, <1>4

\* Errors are counted up to one more than the highest level.
LEMMA CountingTyped ==
    ASSUME TypeOK, NEW c \in Calls, CountError(c)
    PROVE  inARow' \in [1..MaxConfigs -> 0..(MaxLevel + 1)]
<1>1. call[c] \in 1..MaxConfigs /\ inARow[call[c]] \in 0..(MaxLevel + 1)
  BY BoundsAssumption DEF TypeOK
<1>2. QED
  BY <1>1, BoundsAssumption DEF TypeOK, CountError

\* A configuration the user saves has a possible status.
LEMMA PreparedTyped ==
    ASSUME TypeOK, NEW state \in States
    PROVE  Prepared(state) \in Status
BY BoundsAssumption DEF Prepared, TypeOK, Status, States

\* Type correctness: whatever calls, the clean up and the user do in parallel, the status
\* of an indexer is one the code can have written, and every reference leads to an object.
THEOREM Typing == Spec => []TypeOK
<1>1. Init => TypeOK
  BY BoundsAssumption DEF Init, TypeOK, Status, States, Enabled
<1>2. TypeOK /\ [Next]_vars => TypeOK'
  <2> SUFFICES ASSUME TypeOK, [Next]_vars PROVE TypeOK'
    OBVIOUS
  <2> USE BoundsAssumption DEF callVars
  <2>1. ASSUME NEW c \in Calls, BeginCall(c) \/ ContinueCall(c) \/ BeginVisit(c) PROVE TypeOK'
    BY <2>1 DEF TypeOK, BeginCall, ContinueCall, BeginVisit
  <2>2. ASSUME NEW c \in Calls, CallSucceeds(c) PROVE TypeOK'
    <3>1. configs' \in [1..MaxConfigs -> Status]
      BY <2>2, WritingTyped DEF CallSucceeds
    <3>2. inARow' \in [1..MaxConfigs -> 0..(MaxLevel + 1)]
      BY <2>2 DEF TypeOK, CallSucceeds
    <3>3. QED
      BY <2>2, <3>1, <3>2 DEF TypeOK, CallSucceeds, EndsAs
  <2>3. ASSUME NEW c \in Calls, NEW error \in {"apiError", "authError"}, ErrorAnswered(c, error) PROVE TypeOK'
    <3>1. configs' \in [1..MaxConfigs -> Status]
      BY <2>3, WritingTyped DEF ErrorAnswered
    <3>2. QED
      BY <2>3, <3>1 DEF TypeOK, ErrorAnswered
  <2>4. ASSUME NEW c \in Calls, ErrorHandled(c) PROVE TypeOK'
    <3>1. configs' \in [1..MaxConfigs -> Status]
      <4>1. (step[c] = "authError") \in BOOLEAN /\ HandleFailure(c, step[c] = "authError")
        BY <2>4 DEF ErrorHandled
      <4>2. QED
        BY <4>1, WritingTyped
    <3>2. inARow' \in [1..MaxConfigs -> 0..(MaxLevel + 1)]
      BY <2>4, CountingTyped DEF TypeOK, ErrorHandled
    <3>3. QED
      BY <2>4, <3>1, <3>2 DEF TypeOK, ErrorHandled
  <2>5. ASSUME NEW c \in Calls, CallFails(c) PROVE TypeOK'
    <3>1. configs' \in [1..MaxConfigs -> Status]
      BY <2>5, WritingTyped DEF CallFails
    <3>2. inARow' \in [1..MaxConfigs -> 0..(MaxLevel + 1)]
      BY <2>5, CountingTyped DEF CallFails
    <3>3. QED
      BY <2>5, <3>1, <3>2 DEF TypeOK, CallFails, EndsAs
  <2>6. ASSUME NEW c \in Calls, CallAbandoned(c) PROVE TypeOK'
    BY <2>6 DEF TypeOK, CallAbandoned, EndsAs
  <2>7. ASSUME NEW g \in 1..created, TimePasses(g) PROVE TypeOK'
    BY <2>7 DEF TypeOK, TimePasses, Status
  <2>8. CASE Cleanup
    BY <2>8 DEF TypeOK, Cleanup, Status, States, StateAfterCleanup
  <2>9. CASE OpenPage
    BY <2>9 DEF TypeOK, OpenPage
  <2>10. ASSUME NEW state \in States, SaveConfig(state) PROVE TypeOK'
    <3>1. Prepared(state) \in Status /\ Prepared(state).level \in 0..(MaxLevel + 1)
      BY <2>10, PreparedTyped DEF Status
    <3>2. QED
      BY <2>10, <3>1 DEF TypeOK, SaveConfig
  <2>11. CASE LoadIndexers
    BY <2>11 DEF TypeOK, LoadIndexers
  <2>12. ASSUME NEW c \in Calls, VisitEnds(c) PROVE TypeOK'
    <3>1. CASE HandleSuccess(c) /\ inARow' = [inARow EXCEPT ![call[c]] = 0]
      <4>1. configs' \in [1..MaxConfigs -> Status]
        BY <3>1, WritingTyped
      <4>2. inARow' \in [1..MaxConfigs -> 0..(MaxLevel + 1)]
        BY <3>1 DEF TypeOK
      <4>3. QED
        BY <2>12, <4>1, <4>2 DEF TypeOK, VisitEnds
    <3>2. CASE UNCHANGED <<configs, inARow>>
      BY <2>12, <3>2 DEF TypeOK, VisitEnds
    <3>3. QED
      BY <2>12, <3>1, <3>2 DEF VisitEnds
  <2>13. CASE UNCHANGED vars
    BY <2>13 DEF TypeOK, vars
  <2>14. QED
    BY <2>1, <2>2, <2>3, <2>4, <2>5, <2>6, <2>7, <2>8, <2>9, <2>10, <2>11, <2>12, <2>13 DEF Next, CallEnds
<1>3. QED
  BY <1>1, <1>2, PTL DEF Spec

-----------------------------------------------------------------------------
(* What the user disabled                                                  *)

Searching == {"asking", "answered", "apiError", "authError"}

\* A search calls an Indexer with an object the user had not disabled. He disables an indexer
\* by saving a new object, which no search has yet.
NoCallToUserDisabled ==
    \A c \in Calls : step[c] \in Searching => configs[call[c]].state # "DISABLED_USER"

\* An object the user disabled isn't waiting for a time.
UserDisabledForGood ==
    \A g \in 1..MaxConfigs : configs[g].state = "DISABLED_USER" => configs[g].until = "none"

UserInv == TypeOK /\ NoCallToUserDisabled /\ UserDisabledForGood

\* What a call writes is never that the user disabled the indexer.
LEMMA CallWrites ==
    ASSUME UserInv, NEW c \in Calls, NEW permanently \in BOOLEAN, step[c] \in Searching,
           HandleSuccess(c) \/ HandleFailure(c, permanently)
    PROVE  /\ configs' \in [1..MaxConfigs -> Status]
           /\ configs[call[c]].state # "DISABLED_USER"
           /\ configs'[call[c]].state # "DISABLED_USER"
           /\ \A g \in 1..MaxConfigs : g # call[c] => configs'[g] = configs[g]
<1>1. configs' \in [1..MaxConfigs -> Status]
  BY WritingTyped DEF UserInv
<1>2. call[c] \in 1..MaxConfigs /\ configs[call[c]] \in Status /\ configs[call[c]].state # "DISABLED_USER"
  BY BoundsAssumption DEF UserInv, NoCallToUserDisabled, TypeOK
<1>3. QED
  BY <1>1, <1>2 DEF UserInv, TypeOK, HandleSuccess, HandleFailure, WrittenTo, Enabled, Status

\* What UserDisabledStays says of a step.
KeptOrVisited ==
    \A g \in 1..created :
        configs[g].state = "DISABLED_USER" =>
            \/ configs'[g] = configs[g]
            \/ /\ configs'[g] = Enabled
               /\ \E c \in Calls : call[c] = g /\ step[c] = "visiting" /\ step'[c] = "idle"

\* The end of a visit changes a single object, to Enabled.
LEMMA VisitStep ==
    ASSUME UserInv, TypeOK', NEW c \in Calls, VisitEnds(c)
    PROVE  UserInv' /\ KeptOrVisited
<1>1. created \in 1..MaxConfigs /\ configs \in [1..MaxConfigs -> Status]
      /\ call \in [Calls -> 1..MaxConfigs] /\ call[c] \in 1..MaxConfigs
      /\ step \in [Calls -> {"idle", "asking", "answered", "apiError", "authError", "visiting"}]
  <2>1. created \in 1..MaxConfigs /\ call \in [Calls -> 1..created] /\ configs \in [1..MaxConfigs -> Status]
        /\ step \in [Calls -> {"idle", "asking", "answered", "apiError", "authError", "visiting"}]
    BY DEF UserInv, TypeOK
  <2>2. call \in [Calls -> 1..MaxConfigs]
    BY <2>1, BoundsAssumption
  <2>3. QED
    BY <2>1, <2>2
<1>2. /\ call' = call /\ step[c] = "visiting" /\ step'[c] = "idle"
      /\ \A d \in Calls : step'[d] \in Searching => step[d] \in Searching
  BY <1>1 DEF VisitEnds, Searching
<1>3. CASE UNCHANGED configs
  BY <1>1, <1>2, <1>3 DEF UserInv, NoCallToUserDisabled, UserDisabledForGood, KeptOrVisited
<1>4. CASE HandleSuccess(c)
  <2>1. configs'[call[c]] = Enabled /\ \A g \in 1..MaxConfigs : g # call[c] => configs'[g] = configs[g]
    BY <1>1, <1>4 DEF HandleSuccess, WrittenTo
  <2>2. Enabled.state # "DISABLED_USER"
    BY DEF Enabled
  <2>3. NoCallToUserDisabled' /\ UserDisabledForGood'
    BY <1>1, <1>2, <2>1, <2>2 DEF UserInv, NoCallToUserDisabled, UserDisabledForGood
  <2>4. KeptOrVisited
    BY <1>1, <1>2, <2>1, BoundsAssumption DEF KeptOrVisited
  <2>5. QED
    BY <2>3, <2>4 DEF UserInv
<1>5. QED
  BY <1>3, <1>4 DEF VisitEnds

\* A step of the specification keeps UserInv and, except for visits, every object the user disabled.
LEMMA UserStep ==
    ASSUME UserInv, TypeOK', [Next]_vars
    PROVE  UserInv' /\ KeptOrVisited
<1> DEFINE Kept == \A g \in 1..created : configs[g].state = "DISABLED_USER" => configs'[g] = configs[g]
<1> USE BoundsAssumption DEF callVars
<1>0. created \in 1..MaxConfigs /\ call \in [Calls -> 1..created] /\ configs \in [1..MaxConfigs -> Status]
      /\ instance \in 1..created /\ provided \in 1..created
  BY DEF UserInv, TypeOK
<1>1. ASSUME NEW c \in Calls, BeginCall(c) \/ ContinueCall(c) \/ BeginVisit(c) PROVE UserInv' /\ Kept
  <2>1. CASE BeginCall(c)
    <3>1. configs[instance].state # "DISABLED_USER"
      BY <2>1 DEF BeginCall, IsSelectable
    <3>2. NoCallToUserDisabled'
      BY <1>0, <2>1, <3>1 DEF UserInv, NoCallToUserDisabled, BeginCall, TypeOK
    <3>3. QED
      BY <2>1, <3>2 DEF UserInv, UserDisabledForGood, BeginCall
  <2>2. CASE ContinueCall(c)
    <3>1. NoCallToUserDisabled'
      BY <1>0, <2>2 DEF UserInv, NoCallToUserDisabled, ContinueCall, TypeOK, Searching
    <3>2. QED
      BY <2>2, <3>1 DEF UserInv, UserDisabledForGood, ContinueCall
  <2>3. CASE BeginVisit(c)
    <3>1. NoCallToUserDisabled'
      BY <1>0, <2>3 DEF UserInv, NoCallToUserDisabled, BeginVisit, TypeOK, Searching
    <3>2. QED
      BY <2>3, <3>1 DEF UserInv, UserDisabledForGood, BeginVisit
  <2>4. QED
    BY <1>1, <2>1, <2>2, <2>3
<1>2. ASSUME NEW c \in Calls, CallEnds(c) PROVE UserInv' /\ KeptOrVisited
  <2>0. CASE VisitEnds(c)
    BY <2>0, VisitStep
  <2>1. ASSUME ~ VisitEnds(c)
        PROVE  /\ step[c] \in Searching /\ call' = call
               /\ \A other \in Calls : step'[other] \in Searching => step[other] \in Searching
    BY <1>2, <2>1 DEF CallEnds, CallSucceeds, ErrorAnswered, ErrorHandled, CallFails, CallAbandoned, EndsAs, UserInv,
       TypeOK, Searching
  <2>2. ASSUME ~ VisitEnds(c)
        PROVE  \/ UNCHANGED configs
               \/ \E permanently \in BOOLEAN : HandleSuccess(c) \/ HandleFailure(c, permanently)
    <3>1. CASE ErrorHandled(c)
      <4>1. (step[c] = "authError") \in BOOLEAN /\ HandleFailure(c, step[c] = "authError")
        BY <3>1 DEF ErrorHandled
      <4>2. QED
        BY <4>1
    <3>2. CASE CallFails(c)
      BY <3>2 DEF CallFails
    <3>3. CASE CallSucceeds(c) \/ \E error \in {"apiError", "authError"} : ErrorAnswered(c, error)
      BY <3>3 DEF CallSucceeds, ErrorAnswered
    <3>4. CASE CallAbandoned(c)
      BY <3>4 DEF CallAbandoned
    <3>5. QED
      BY <1>2, <2>2, <3>1, <3>2, <3>3, <3>4 DEF CallEnds
  <2>3. CASE ~ VisitEnds(c) /\ UNCHANGED configs
    BY <2>1, <2>3 DEF UserInv, NoCallToUserDisabled, UserDisabledForGood, KeptOrVisited
  <2>4. ASSUME ~ VisitEnds(c), NEW permanently \in BOOLEAN, HandleSuccess(c) \/ HandleFailure(c, permanently)
        PROVE UserInv' /\ Kept
    <3>1. /\ configs[call[c]].state # "DISABLED_USER"
          /\ configs'[call[c]].state # "DISABLED_USER"
          /\ \A g \in 1..MaxConfigs : g # call[c] => configs'[g] = configs[g]
      BY <2>1, <2>4, CallWrites
    <3>2. Kept
      BY <1>0, <3>1
    <3>3. NoCallToUserDisabled'
      BY <1>0, <2>1, <2>4, <3>1 DEF UserInv, NoCallToUserDisabled
    <3>4. UserDisabledForGood'
      BY <1>0, <3>1 DEF UserInv, UserDisabledForGood
    <3>5. QED
      BY <3>2, <3>3, <3>4 DEF UserInv
  <2>5. QED
    BY <2>0, <2>2, <2>3, <2>4 DEF KeptOrVisited
<1>3. ASSUME NEW g \in 1..created, TimePasses(g) PROVE UserInv' /\ Kept
  <2>1. g \in 1..MaxConfigs /\ configs[g].state # "DISABLED_USER"
    BY <1>0, <1>3 DEF UserInv, UserDisabledForGood, TimePasses
  <2>2. configs'[g].state = configs[g].state /\ \A h \in 1..MaxConfigs : h # g => configs'[h] = configs[h]
    BY <1>0, <1>3, <2>1 DEF TimePasses, Status
  <2>3. NoCallToUserDisabled' /\ UserDisabledForGood' /\ Kept
    BY <1>0, <1>3, <2>1, <2>2 DEF UserInv, NoCallToUserDisabled, UserDisabledForGood, TimePasses
  <2>4. QED
    BY <2>3 DEF UserInv
<1>4. ASSUME Cleanup PROVE UserInv' /\ Kept
  <2>1. configs[provided].state # "DISABLED_USER" /\ configs'[provided].state # "DISABLED_USER"
        /\ \A h \in 1..MaxConfigs : h # provided => configs'[h] = configs[h]
    BY <1>0, <1>4 DEF Cleanup, StateAfterCleanup, Status
  <2>2. NoCallToUserDisabled' /\ UserDisabledForGood' /\ Kept
    BY <1>0, <1>4, <2>1 DEF UserInv, NoCallToUserDisabled, UserDisabledForGood, Cleanup
  <2>3. QED
    BY <2>2 DEF UserInv
<1>5. ASSUME OpenPage PROVE UserInv' /\ Kept
  BY <1>5 DEF UserInv, NoCallToUserDisabled, UserDisabledForGood, OpenPage
<1>6. ASSUME NEW state \in States, SaveConfig(state) PROVE UserInv' /\ Kept
  <2>1. \A h \in 1..created : configs'[h] = configs[h]
    BY <1>0, <1>6 DEF SaveConfig
  <2>2. Prepared(state).state = "DISABLED_USER" => Prepared(state).until = "none"
    <3>1. CASE state \in {"ENABLED", "DISABLED_USER"}
      BY <3>1 DEF Prepared
    <3>2. CASE state \notin {"ENABLED", "DISABLED_USER"}
      BY <1>6, <3>2 DEF Prepared, SaveConfig
    <3>3. QED
      BY <3>1, <3>2
  <2>3. UserDisabledForGood'
    BY <1>0, <1>6, <2>2 DEF UserInv, UserDisabledForGood, SaveConfig
  <2>4. NoCallToUserDisabled'
    BY <1>0, <1>6, <2>1 DEF UserInv, NoCallToUserDisabled, SaveConfig
  <2>5. QED
    BY <2>1, <2>3, <2>4 DEF UserInv
<1>7. ASSUME LoadIndexers PROVE UserInv' /\ Kept
  BY <1>7 DEF UserInv, NoCallToUserDisabled, UserDisabledForGood, LoadIndexers
<1>8. ASSUME UNCHANGED vars PROVE UserInv' /\ Kept
  BY <1>8 DEF UserInv, NoCallToUserDisabled, UserDisabledForGood, vars
<1>9. Kept => KeptOrVisited
  BY DEF KeptOrVisited
<1>10. QED
  BY <1>1, <1>2, <1>3, <1>4, <1>5, <1>6, <1>7, <1>8, <1>9 DEF Next

\* An indexer which the user disabled stays disabled, for any number of parallel calls and
\* of configurations: no call of a search, first or later, and no clean up changes it. Only a
\* call for an NFO or details does, and then it enables the indexer.
THEOREM UserDecides == Spec => UserDisabledStays
<1>1. Init => UserInv
  BY BoundsAssumption DEF Init, UserInv, NoCallToUserDisabled, UserDisabledForGood, TypeOK, Status, States, Enabled
<1>2. UserInv /\ TypeOK' /\ [Next]_vars => UserInv'
  BY UserStep
<1>3. UserInv /\ TypeOK' /\ [Next]_vars => [KeptOrVisited]_vars
  BY UserStep
<1>4. QED
  BY <1>1, <1>2, <1>3, Typing, PTL DEF Spec, UserDisabledStays, KeptOrVisited
=============================================================================
