---------------------- MODULE MinAgeOffsetSearch_proofs -----------------------
(***************************************************************************)
(* No result old enough is jumped over, however many results an indexer    *)
(* has: proofs about MinAgeOffsetSearch for all values of its constants.   *)
(***************************************************************************)
EXTENDS MinAgeOffsetSearch, TLAPS

\* The assumptions on the constants as one fact per constant.
LEMMA Constants ==
    /\ Dates \subseteq Int
    /\ Threshold \in Int
    /\ Tolerance \in Nat
    /\ PageSize \in Nat
    /\ PageSize > 0
BY DatesAssumption, BoundsAssumption

\* Dates can be compared.
LEMMA DatesAreIntegers ==
    ASSUME TypeOK, NEW r \in DOMAIN dates
    PROVE  dates[r] \in Int /\ r \in Int /\ Len(dates) \in Nat
<1>1. dates \in Seq(Dates)
    BY DEF TypeOK
<1>2. r \in Int /\ dates[r] \in Dates /\ Len(dates) \in Nat
    BY <1>1
<1>3. QED
    BY <1>2, Constants

\* The results of a page are those between its first and its last.
LEMMA PageIsInterval ==
    ASSUME dates \in Seq(Dates), NEW offset \in Nat
    PROVE  /\ PageLen(offset) \in Nat
           /\ \A r : r \in ResultsOf(offset) <=>
                 /\ r \in DOMAIN dates
                 /\ ResultAt(offset) - PageLen(offset) < r
                 /\ r <= ResultAt(offset)
<1>1. Len(dates) \in Nat /\ DOMAIN dates = 1..Len(dates)
    OBVIOUS
<1>2. PageLen(offset) \in Nat
    BY <1>1, Constants DEF PageLen
<1>3. ASSUME NEW r \in ResultsOf(offset)
      PROVE  /\ r \in DOMAIN dates
             /\ ResultAt(offset) - PageLen(offset) < r
             /\ r <= ResultAt(offset)
    <2>1. PICK o \in offset..(offset + PageLen(offset) - 1) : r = Len(dates) - o
        BY DEF ResultsOf, ResultAt
    <2>2. o \in Int /\ offset <= o /\ o < offset + PageLen(offset)
        BY <1>2
    <2>3. offset + PageLen(offset) <= Len(dates) \/ PageLen(offset) = 0
        BY <1>1, Constants DEF PageLen
    <2>4. QED
        BY <1>1, <1>2, <2>1, <2>2, <2>3 DEF ResultAt
<1>4. ASSUME NEW r \in DOMAIN dates,
             ResultAt(offset) - PageLen(offset) < r,
             r <= ResultAt(offset)
      PROVE  r \in ResultsOf(offset)
    <2>1. Len(dates) - r \in offset..(offset + PageLen(offset) - 1)
        BY <1>1, <1>2, <1>4 DEF ResultAt
    <2>2. r = ResultAt(Len(dates) - r)
        BY <1>1 DEF ResultAt
    <2>3. QED
        BY <2>1, <2>2 DEF ResultsOf
<1>5. QED
    BY <1>2, <1>3, <1>4

\* Half of a positive distance lies between its ends.
LEMMA HalfIsBetween ==
    ASSUME NEW m \in Nat, NEW n \in Nat, n > m
    PROVE  m + (n - m) \div 2 \in Nat
OBVIOUS

\* The offset to be asked for next is one.
LEMMA NextOffsetIsNat ==
    ASSUME TypeOK
    PROVE  GetNextOffset \in Nat
<1>1. NextProbe \in Nat
    <2>1. CASE upperBound - lowerBound <= PageSize
        BY <2>1 DEF NextProbe, TypeOK
    <2>2. CASE ~ (upperBound - lowerBound <= PageSize)
        <3>1. upperBound > lowerBound
            BY <2>2, Constants DEF TypeOK
        <3>2. lowerBound + (upperBound - lowerBound) \div 2 \in Nat
            BY <3>1, HalfIsBetween DEF TypeOK
        <3>3. QED
            BY <2>2, <3>2 DEF NextProbe
    <2>3. QED
        BY <2>1, <2>2
<1>2. last.offset + last.size \in Nat /\ lowerBound \in Nat
    BY DEF TypeOK
<1>3. QED
    BY <1>1, <1>2 DEF GetNextOffset

-----------------------------------------------------------------------------
(* Types                                                                   *)

\* What a page does to the fields of the search keeps their types.
LEMMA PageLoadedType ==
    ASSUME TypeOK, NEW offset \in Nat,
           UNCHANGED <<dates, total, totalKnown>>,
           FirstPageLoaded(offset) \/ ProbeLoaded(offset) \/ NextPageLoaded(offset)
    PROVE  /\ state' \in States
           /\ lowerBound' \in Nat
           /\ upperBound' \in Nat
           /\ oldestTooYoungDate' \in Dates \cup {Threshold}
           /\ probes' \in Nat
           /\ kept' \subseteq DOMAIN dates'
<1>1. /\ PageLen(offset) \in Nat
      /\ ResultsOf(offset) \subseteq DOMAIN dates
      /\ offset + PageLen(offset) \in Nat
    <2>1. dates \in Seq(Dates)
        BY DEF TypeOK
    <2>2. PageLen(offset) \in Nat
        BY <2>1, PageIsInterval
    <2>3. ResultsOf(offset) \subseteq DOMAIN dates
        BY <2>1, PageIsInterval
    <2>4. QED
        BY <2>2, <2>3
<1>2. TotalResults(offset) \in Nat
    BY <1>1 DEF TotalResults, TypeOK
<1>3. Keep(offset) \/ Discard(offset) => kept' \subseteq DOMAIN dates'
    BY <1>1 DEF Keep, Discard, TypeOK
<1>4. RememberOldest(offset) => oldestTooYoungDate' \in Dates
    BY <1>1 DEF RememberOldest, TypeOK
<1>5. CASE FirstPageLoaded(offset)
    BY <1>1, <1>2, <1>3, <1>4, <1>5 DEF FirstPageLoaded, TypeOK, States
<1>6. CASE NextPageLoaded(offset)
    BY <1>3, <1>6 DEF NextPageLoaded, TypeOK, States
<1>7. CASE ProbeLoaded(offset)
    <2>1. probes' \in Nat /\ state \in States
        BY <1>7 DEF ProbeLoaded, TypeOK
    <2>2. KeepIfContiguous(offset) => kept' \subseteq DOMAIN dates'
        BY <1>3 DEF KeepIfContiguous
    <2>3. Smaller(upperBound, offset) \in Nat /\ Larger(lowerBound, offset + PageLen(offset)) \in Nat
        BY <1>1 DEF Smaller, Larger, TypeOK
    <2>4. CASE ProbeBeyondEnd(offset)
        BY <2>1, <2>2, <2>3, <2>4 DEF ProbeBeyondEnd, TypeOK, States
    <2>5. CASE ProbeOutOfOrder(offset)
        BY <2>1, <2>2, <2>5 DEF ProbeOutOfOrder, TypeOK, States
    <2>6. CASE ProbeTooYoung(offset)
        BY <1>3, <1>4, <2>1, <2>3, <2>6 DEF ProbeTooYoung, TypeOK, States
    <2>7. CASE ProbeOldEnough(offset)
        BY <2>1, <2>2, <2>3, <2>7 DEF ProbeOldEnough, TypeOK, States
    <2>8. CASE ProbeOnBoundary(offset)
        BY <1>3, <2>1, <2>8 DEF ProbeOnBoundary, TypeOK, States
    <2>9. QED
        BY <1>7, <2>4, <2>5, <2>6, <2>7, <2>8 DEF ProbeLoaded
<1>8. QED
    BY <1>5, <1>6, <1>7

\* Every step keeps the types.
LEMMA TypeOKInductive == TypeOK /\ [Next]_vars => TypeOK'
<1> SUFFICES ASSUME TypeOK, [Next]_vars PROVE TypeOK'
    OBVIOUS
<1>1. CASE LoadPage
    <2> DEFINE offset == GetNextOffset
    <2>1. offset \in Nat
        BY NextOffsetIsNat
    <2>2. PageLen(offset) \in Nat /\ HasMoreResults(offset) \in BOOLEAN
        BY <2>1, PageIsInterval DEF HasMoreResults, TypeOK
    <2>3. FirstPageLoaded(offset) \/ ProbeLoaded(offset) \/ NextPageLoaded(offset)
        BY <1>1 DEF LoadPage
    <2>4. /\ executed' = executed + 1
          /\ last' = [offset |-> offset, size |-> PageLen(offset), more |-> HasMoreResults(offset), ok |-> TRUE]
          /\ UNCHANGED <<dates, total, totalKnown, uploads, failures>>
        BY <1>1 DEF LoadPage
    <2> HIDE DEF offset
    <2>5. last' \in [offset : Nat, size : Nat, more : BOOLEAN, ok : BOOLEAN]
        BY <2>1, <2>2, <2>4
    <2>6. QED
        BY <2>1, <2>3, <2>4, <2>5, PageLoadedType DEF TypeOK
<1>2. CASE LoadPageFails
    BY <1>2 DEF LoadPageFails, TypeOK, States
<1>3. CASE \E date \in Dates : Upload(date)
    <2>1. PICK date \in Dates : Upload(date)
        BY <1>3
    <2>2. dates' \in Seq(Dates) /\ DOMAIN dates \subseteq DOMAIN dates'
        BY <2>1 DEF Upload, TypeOK
    <2>3. QED
        BY <2>1, <2>2 DEF Upload, TypeOK, searchVars, entryVars
<1>4. CASE UNCHANGED vars
    BY <1>4 DEF TypeOK, vars, searchVars, entryVars
<1>5. QED
    BY <1>1, <1>2, <1>3, <1>4 DEF Next

\* Init has the right types.
LEMMA TypeOKInit == Init => TypeOK
<1>1. ASSUME Init PROVE dates \in Seq(Dates) /\ total \in Nat /\ totalKnown \in BOOLEAN
    BY <1>1, WorldsAssumption DEF Init
<1>2. QED
    BY <1>1 DEF Init, TypeOK, States

\* Every field of MinAgeOffsetSearch and of the indexer's cache entry always has a
\* value the code could store in it.
THEOREM Typing == Spec => []TypeOK
BY TypeOKInit, TypeOKInductive, PTL DEF Spec

-----------------------------------------------------------------------------
(* No result old enough is jumped over                                     *)

\* The state and the number of pages agree, and nothing is kept before the first
\* result old enough was found.
StateAgrees ==
    /\ executed = 0 <=> state = "STARTING"
    /\ state # "DONE" => kept = {}

\* Once pages are loaded one after the other all results old enough on the last one
\* and on those before it were kept.
LoadedInOrder ==
    Sorted /\ state = "DONE" /\ last.ok =>
        \A r \in DOMAIN dates : r > ResultAt(last.offset + last.size) /\ SurelyOld(r) => r \in kept

\* LowerBoundCorrect says that a page which directly follows the lower bound may be
\* kept, LoadedInOrder that the page after the last one may.
IInv == TypeOK /\ StateAgrees /\ LowerBoundCorrect /\ KeptContiguous /\ LoadedInOrder

\* A result before one which is too young can only be old enough by the tolerance.
LEMMA BeforeTooYoung ==
    ASSUME TypeOK, Sorted,
           NEW s \in DOMAIN dates, ~ IsOldEnough(s),
           NEW r \in DOMAIN dates, s <= r
    PROVE  ~ SurelyOld(r)
<1>1. dates[s] \in Int /\ dates[r] \in Int /\ s \in Int /\ r \in Int
    BY DatesAreIntegers
<1>2. s < r => dates[s] <= dates[r] + Tolerance
    BY DEF Sorted
<1>3. QED
    BY <1>1, <1>2, Constants DEF IsOldEnough, SurelyOld

\* What comes before the end of a page is on it or before its start.
LEMMA BeforeEndOfPage ==
    ASSUME TypeOK, NEW offset \in Nat,
           NEW r \in DOMAIN dates, r > ResultAt(offset + PageLen(offset))
    PROVE  r \in ResultsOf(offset) \/ r > ResultAt(offset)
<1>1. dates \in Seq(Dates)
    BY DEF TypeOK
<1>2. PageLen(offset) \in Nat /\ Len(dates) \in Nat /\ r \in Int
    BY <1>1, PageIsInterval, DatesAreIntegers
<1>3. r <= ResultAt(offset) => r \in ResultsOf(offset)
    BY <1>1, <1>2, PageIsInterval DEF ResultAt
<1>4. QED
    BY <1>2, <1>3 DEF ResultAt

\* Before a page with a result which is too young there is none to be found.
LEMMA BeforePageWithTooYoung ==
    ASSUME TypeOK, Sorted, NEW offset \in Nat,
           NEW t \in ResultsOf(offset), ~ IsOldEnough(t),
           NEW r \in DOMAIN dates, r > ResultAt(offset)
    PROVE  ~ SurelyOld(r)
<1>1. dates \in Seq(Dates)
    BY DEF TypeOK
<1>2. t \in DOMAIN dates /\ t <= ResultAt(offset)
    BY <1>1, PageIsInterval
<1>3. t \in Int /\ r \in Int /\ ResultAt(offset) \in Int
    BY <1>1, <1>2 DEF ResultAt
<1>4. QED
    BY <1>2, <1>3, BeforeTooYoung

\* If all results of a page are too young there is none before its end either.
LEMMA BeforeEndOfTooYoung ==
    ASSUME TypeOK, Sorted, NEW offset \in Nat,
           ResultsOf(offset) # {},
           \A t \in ResultsOf(offset) : ~ IsOldEnough(t),
           NEW r \in DOMAIN dates, r > ResultAt(offset + PageLen(offset))
    PROVE  ~ SurelyOld(r)
<1>1. CASE r \in ResultsOf(offset)
    <2>1. r \in Int
        BY DatesAreIntegers
    <2>2. QED
        BY <1>1, <2>1, BeforeTooYoung
<1>2. CASE r > ResultAt(offset)
    BY <1>2, BeforePageWithTooYoung
<1>3. QED
    BY <1>1, <1>2, BeforeEndOfPage

\* A page may be kept if all results to be found before it were.
LEMMA KeepFollowing ==
    ASSUME TypeOK, Sorted, KeptContiguous, NEW offset \in Nat, Keep(offset),
           \A r \in DOMAIN dates : r > ResultAt(offset) /\ SurelyOld(r) => r \in kept
    PROVE  /\ \A r \in DOMAIN dates :
                 r > ResultAt(offset + PageLen(offset)) /\ SurelyOld(r) => r \in kept'
           /\ \A r \in kept', s \in DOMAIN dates : r < s /\ SurelyOld(s) => s \in kept'
<1>1. \A r \in DOMAIN dates : SurelyOld(r) => IsOldEnough(r)
    <2>1. \A r \in DOMAIN dates : dates[r] \in Int
        BY DatesAreIntegers
    <2>2. QED
        BY <2>1, Constants DEF SurelyOld, IsOldEnough
<1>2. ASSUME NEW r \in DOMAIN dates,
             r > ResultAt(offset + PageLen(offset)), SurelyOld(r)
      PROVE  r \in kept'
    <2>1. r \in ResultsOf(offset) => r \in kept'
        BY <1>1, <1>2 DEF Keep
    <2>2. r > ResultAt(offset) => r \in kept'
        BY <1>2 DEF Keep
    <2>3. QED
        BY <1>2, <2>1, <2>2, BeforeEndOfPage
<1>3. ASSUME NEW r \in kept', NEW s \in DOMAIN dates, r < s, SurelyOld(s)
      PROVE  s \in kept'
    <2>1. CASE r \in kept
        BY <1>3, <2>1 DEF Keep, KeptContiguous
    <2>2. CASE r \in ResultsOf(offset)
        <3>1. dates \in Seq(Dates)
            BY DEF TypeOK
        <3>2. /\ r \in DOMAIN dates
              /\ PageLen(offset) \in Nat
              /\ ResultAt(offset) - PageLen(offset) < r
            BY <2>2, <3>1, PageIsInterval
        <3>3. s > ResultAt(offset + PageLen(offset))
            BY <1>3, <3>1, <3>2 DEF ResultAt
        <3>4. QED
            BY <1>2, <1>3, <3>3
    <2>3. QED
        BY <2>1, <2>2 DEF Keep
<1>4. QED
    BY <1>2, <1>3

\* Nothing is kept of a page with only results which are too young.
LEMMA KeepTooYoung ==
    ASSUME NEW offset, Keep(offset), \A t \in ResultsOf(offset) : ~ IsOldEnough(t)
    PROVE  kept' = kept
BY DEF Keep

\* The evaluation of a page, see MinAgeOffsetSearch.pageLoaded: what it keeps follows
\* on what was kept before, and the lower bound only moves over results too young.
LEMMA PageLoadedCorrect ==
    ASSUME IInv, Sorted,
           NEW offset \in Nat, offset = GetNextOffset,
           executed = 0 \/ last.ok,
           FirstPageLoaded(offset) \/ ProbeLoaded(offset) \/ NextPageLoaded(offset)
    PROVE  /\ state' \in {"PROBING", "RESUMING"} =>
                 \A r \in DOMAIN dates : r > ResultAt(lowerBound') => ~ SurelyOld(r)
           /\ state' = "DONE" =>
                 \A r \in DOMAIN dates :
                    r > ResultAt(offset + PageLen(offset)) /\ SurelyOld(r) => r \in kept'
           /\ \A r \in kept', s \in DOMAIN dates : r < s /\ SurelyOld(s) => s \in kept'
<1> USE DEF IInv
<1> DEFINE AllKept == \A r \in DOMAIN dates : r > ResultAt(offset) /\ SurelyOld(r) => r \in kept
<1>1. Keep(offset) /\ AllKept =>
        /\ \A r \in DOMAIN dates :
              r > ResultAt(offset + PageLen(offset)) /\ SurelyOld(r) => r \in kept'
        /\ \A r \in kept', s \in DOMAIN dates : r < s /\ SurelyOld(s) => s \in kept'
    BY KeepFollowing
<1>2. CASE FirstPageLoaded(offset)
    <2>1. offset = 0
        BY <1>2 DEF FirstPageLoaded, StateAgrees, GetNextOffset
    <2>2. AllKept
        BY <2>1, DatesAreIntegers DEF ResultAt, TypeOK
    <2>3. Keep(offset)
        BY <1>2 DEF FirstPageLoaded
    <2>4. ASSUME state' \in {"PROBING", "RESUMING"}, NEW r \in DOMAIN dates, r > ResultAt(lowerBound')
          PROVE  ~ SurelyOld(r)
        <3>1. /\ lowerBound' = offset + PageLen(offset)
              /\ ResultsOf(offset) # {}
              /\ \A t \in ResultsOf(offset) : ~ IsOldEnough(t)
            BY <1>2, <2>4 DEF FirstPageLoaded
        <3>2. QED
            BY <2>4, <3>1, BeforeEndOfTooYoung
    <2>5. QED
        BY <1>1, <2>2, <2>3, <2>4
<1>3. CASE NextPageLoaded(offset)
    <2>1. AllKept
        <3>1. CASE state = "RESUMING"
            <4>1. offset = lowerBound
                BY <3>1 DEF StateAgrees, GetNextOffset
            <4>2. QED
                BY <3>1, <4>1 DEF LowerBoundCorrect, IsSearchingFirstOldEnough
        <3>2. CASE state = "DONE"
            <4>1. executed # 0 /\ offset = last.offset + last.size
                BY <3>2 DEF StateAgrees, GetNextOffset
            <4>2. QED
                BY <3>2, <4>1 DEF LoadedInOrder
        <3>3. QED
            BY <1>3, <3>1, <3>2 DEF NextPageLoaded
    <2>2. Keep(offset) /\ state' = "DONE"
        BY <1>3 DEF NextPageLoaded
    <2>3. QED
        BY <1>1, <2>1, <2>2
<1>4. CASE ProbeLoaded(offset)
    <2>1. state = "PROBING" /\ kept = {}
        BY <1>4 DEF ProbeLoaded, StateAgrees
    <2>2. \A r \in DOMAIN dates : r > ResultAt(lowerBound) => ~ SurelyOld(r)
        BY <2>1 DEF LowerBoundCorrect, IsSearchingFirstOldEnough
    <2>3. Contiguous(offset) => AllKept
        BY <2>2 DEF Contiguous
    <2>4. (\E t \in ResultsOf(offset) : ~ IsOldEnough(t)) => AllKept
        BY BeforePageWithTooYoung
    <2>5. Discard(offset) => kept' = {}
        BY <2>1 DEF Discard
    <2>6. KeepIfContiguous(offset) =>
            /\ Contiguous(offset) => Keep(offset)
            /\ ~ Contiguous(offset) => Discard(offset)
        BY DEF KeepIfContiguous
    <2>7. CASE ProbeBeyondEnd(offset) \/ ProbeOutOfOrder(offset) \/ ProbeOldEnough(offset)
        <3>1. /\ KeepIfContiguous(offset)
              /\ lowerBound' = lowerBound
              /\ state' = "DONE" => Contiguous(offset)
            BY <2>1, <2>7 DEF ProbeBeyondEnd, ProbeOutOfOrder, ProbeOldEnough
        <3>2. CASE Contiguous(offset)
            BY <1>1, <2>2, <2>3, <2>6, <3>1, <3>2
        <3>3. CASE ~ Contiguous(offset)
            BY <2>2, <2>5, <2>6, <3>1, <3>3
        <3>4. QED
            BY <3>2, <3>3
    <2>8. CASE ProbeTooYoung(offset)
        <3>1. /\ ResultsOf(offset) # {}
              /\ \A t \in ResultsOf(offset) : ~ IsOldEnough(t)
              /\ Keep(offset)
              /\ state' = state
              /\ lowerBound' = Larger(lowerBound, offset + PageLen(offset))
            BY <2>8 DEF ProbeTooYoung
        <3>2. \A r \in DOMAIN dates : r > ResultAt(lowerBound') => ~ SurelyOld(r)
            BY <2>2, <3>1, BeforeEndOfTooYoung DEF Larger
        <3>3. QED
            BY <1>1, <2>1, <2>4, <3>1, <3>2
    <2>9. CASE ProbeOnBoundary(offset)
        <3>1. /\ \E t \in ResultsOf(offset) : ~ IsOldEnough(t)
              /\ Keep(offset)
              /\ state' = "DONE"
            BY <2>9 DEF ProbeOnBoundary
        <3>2. QED
            BY <1>1, <2>4, <3>1
    <2>10. QED
        BY <1>4, <2>7, <2>8, <2>9 DEF ProbeLoaded
<1>5. QED
    BY <1>2, <1>3, <1>4

\* After a page was loaded the state and the number of pages agree.
LEMMA LoadPageAgrees ==
    ASSUME IInv, LoadPage
    PROVE  StateAgrees'
<1> DEFINE offset == GetNextOffset
<1>1. executed' # 0
    BY DEF LoadPage, IInv, TypeOK
<1>2. FirstPageLoaded(offset) \/ ProbeLoaded(offset) \/ NextPageLoaded(offset)
    BY DEF LoadPage
<1> HIDE DEF offset
<1>3. ASSUME state # "DONE" PROVE kept = {}
    BY <1>3 DEF IInv, StateAgrees
<1>4. state' # "STARTING"
    BY <1>2 DEF FirstPageLoaded, ProbeLoaded, NextPageLoaded, ProbeBeyondEnd, ProbeOutOfOrder,
                ProbeTooYoung, ProbeOldEnough, ProbeOnBoundary
<1>5. state' # "DONE" => kept' = {}
    <2>1. CASE FirstPageLoaded(offset)
        BY <1>3, <2>1, KeepTooYoung DEF FirstPageLoaded
    <2>2. CASE NextPageLoaded(offset)
        BY <2>2 DEF NextPageLoaded
    <2>3. CASE ProbeLoaded(offset)
        <3>1. kept = {}
            BY <1>3, <2>3 DEF ProbeLoaded
        <3>2. KeepIfContiguous(offset) /\ ~ Contiguous(offset) => kept' = {}
            BY <3>1 DEF KeepIfContiguous, Discard
        <3>3. CASE ProbeBeyondEnd(offset)
            BY <3>1, <3>3, KeepTooYoung DEF ProbeBeyondEnd, KeepIfContiguous, Discard
        <3>4. CASE ProbeOutOfOrder(offset)
            BY <3>2, <3>4 DEF ProbeOutOfOrder
        <3>5. CASE ProbeTooYoung(offset)
            BY <3>1, <3>5, KeepTooYoung DEF ProbeTooYoung
        <3>6. CASE ProbeOldEnough(offset)
            BY <3>2, <3>6 DEF ProbeOldEnough
        <3>7. CASE ProbeOnBoundary(offset)
            BY <3>7 DEF ProbeOnBoundary
        <3>8. QED
            BY <2>3, <3>3, <3>4, <3>5, <3>6, <3>7 DEF ProbeLoaded
    <2>4. QED
        BY <1>2, <2>1, <2>2, <2>3
<1>6. QED
    BY <1>1, <1>4, <1>5 DEF StateAgrees

\* An upload moves what was found by one offset but doesn't change which results are
\* before the lower bound and which were kept.
LEMMA UploadCorrect ==
    ASSUME IInv, NEW date \in Dates, Upload(date)
    PROVE  LowerBoundCorrect' /\ KeptContiguous' /\ LoadedInOrder'
<1> USE DEF IInv
<1>1. dates \in Seq(Dates) /\ Len(dates) \in Nat /\ date \in Int
    BY Constants DEF TypeOK
<1>2. /\ dates' = Append(dates, date)
      /\ date > Threshold
      /\ UNCHANGED <<state, lowerBound, kept, last>>
    BY DEF Upload, searchVars, entryVars
<1>3. /\ Len(dates') = Len(dates) + 1
      /\ DOMAIN dates' = DOMAIN dates \cup {Len(dates) + 1}
      /\ \A r \in DOMAIN dates : dates'[r] = dates[r]
      /\ dates'[Len(dates) + 1] = date
    BY <1>1, <1>2
<1>4. \A r \in DOMAIN dates' : SurelyOld(r)' => r \in DOMAIN dates /\ SurelyOld(r)
    <2>1. ~ (date <= Threshold - Tolerance)
        BY <1>1, <1>2, Constants
    <2>2. QED
        BY <1>3, <2>1 DEF SurelyOld
<1>5. Sorted' => Sorted
    BY <1>3 DEF Sorted
<1>6. \A n \in Nat, r \in DOMAIN dates : r > ResultAt(n)' => r > ResultAt(n)
    BY <1>1, <1>3, DatesAreIntegers DEF ResultAt
<1>7. LowerBoundCorrect'
    <2>1. ASSUME Sorted', IsSearchingFirstOldEnough',
                 NEW r \in DOMAIN dates', r > ResultAt(lowerBound)'
          PROVE  ~ SurelyOld(r)'
        <3>1. lowerBound \in Nat /\ lowerBound' = lowerBound
            BY <1>2 DEF TypeOK
        <3>2. SUFFICES ASSUME SurelyOld(r)' PROVE FALSE
            OBVIOUS
        <3>3. r \in DOMAIN dates /\ SurelyOld(r)
            BY <1>4, <2>1, <3>2
        <3>4. r > ResultAt(lowerBound)
            BY <1>6, <2>1, <3>1, <3>3 DEF ResultAt
        <3>5. Sorted /\ IsSearchingFirstOldEnough
            BY <1>2, <1>5, <2>1 DEF IsSearchingFirstOldEnough
        <3>6. QED
            BY <3>3, <3>4, <3>5 DEF LowerBoundCorrect
    <2>2. QED
        BY <2>1 DEF LowerBoundCorrect
<1>8. KeptContiguous'
    BY <1>2, <1>4, <1>5 DEF KeptContiguous
<1>9. LoadedInOrder'
    <2>1. ASSUME Sorted', state' = "DONE", last'.ok,
                 NEW r \in DOMAIN dates', r > ResultAt(last.offset + last.size)', SurelyOld(r)'
          PROVE  r \in kept'
        <3>1. r \in DOMAIN dates /\ SurelyOld(r)
            BY <1>4, <2>1
        <3>2. last.offset + last.size \in Nat /\ last' = last
            BY <1>2 DEF TypeOK
        <3>3. r > ResultAt(last.offset + last.size)
            BY <1>6, <2>1, <3>1, <3>2 DEF ResultAt
        <3>4. QED
            BY <1>2, <1>5, <2>1, <3>1, <3>3 DEF LoadedInOrder
    <2>2. QED
        BY <2>1 DEF LoadedInOrder
<1>10. QED
    BY <1>7, <1>8, <1>9

\* Every step keeps the invariant.
LEMMA IInvInductive == IInv /\ [Next]_vars => IInv'
<1> SUFFICES ASSUME IInv, [Next]_vars PROVE IInv'
    OBVIOUS
<1> USE DEF IInv
<1>1. TypeOK'
    BY TypeOKInductive
<1>2. CASE LoadPage
    <2> DEFINE offset == GetNextOffset
    <2>1. offset \in Nat
        BY NextOffsetIsNat
    <2>2. /\ executed = 0 \/ last.ok
          /\ FirstPageLoaded(offset) \/ ProbeLoaded(offset) \/ NextPageLoaded(offset)
          /\ last'.offset + last'.size = offset + PageLen(offset)
          /\ dates' = dates
        BY <1>2 DEF LoadPage, WillBeQueried
    <2> HIDE DEF offset
    <2>3. Sorted' => Sorted
        BY <2>2 DEF Sorted
    <2>4. \A r \in DOMAIN dates : SurelyOld(r)' <=> SurelyOld(r)
        BY <2>2 DEF SurelyOld
    <2>5. Sorted =>
            /\ state' \in {"PROBING", "RESUMING"} =>
                  \A r \in DOMAIN dates : r > ResultAt(lowerBound') => ~ SurelyOld(r)
            /\ state' = "DONE" =>
                  \A r \in DOMAIN dates :
                     r > ResultAt(offset + PageLen(offset)) /\ SurelyOld(r) => r \in kept'
            /\ \A r \in kept', s \in DOMAIN dates : r < s /\ SurelyOld(s) => s \in kept'
        BY <2>1, <2>2, PageLoadedCorrect DEF offset
    <2>6. LowerBoundCorrect'
        BY <2>2, <2>3, <2>4, <2>5 DEF LowerBoundCorrect, IsSearchingFirstOldEnough, ResultAt
    <2>7. KeptContiguous'
        BY <2>2, <2>3, <2>4, <2>5 DEF KeptContiguous
    <2>8. LoadedInOrder'
        BY <2>2, <2>3, <2>4, <2>5 DEF LoadedInOrder, ResultAt
    <2>9. QED
        BY <1>1, <1>2, <2>6, <2>7, <2>8, LoadPageAgrees
<1>3. CASE LoadPageFails
    <2>1. /\ state' = "DONE"
          /\ executed' # 0
          /\ ~ last'.ok
          /\ UNCHANGED <<dates, kept>>
        BY <1>3 DEF LoadPageFails, TypeOK
    <2>2. StateAgrees' /\ LowerBoundCorrect' /\ LoadedInOrder'
        BY <2>1 DEF StateAgrees, LowerBoundCorrect, LoadedInOrder, IsSearchingFirstOldEnough
    <2>3. KeptContiguous'
        BY <2>1 DEF KeptContiguous, Sorted, SurelyOld
    <2>4. QED
        BY <1>1, <2>2, <2>3
<1>4. CASE \E date \in Dates : Upload(date)
    <2>1. PICK date \in Dates : Upload(date)
        BY <1>4
    <2>2. StateAgrees'
        BY <2>1 DEF Upload, StateAgrees, searchVars, entryVars
    <2>3. QED
        BY <1>1, <2>1, <2>2, UploadCorrect
<1>5. CASE UNCHANGED vars
    BY <1>1, <1>5 DEF vars, searchVars, entryVars, StateAgrees, LowerBoundCorrect, KeptContiguous,
                      LoadedInOrder, Sorted, SurelyOld, ResultAt, IsSearchingFirstOldEnough
<1>6. QED
    BY <1>2, <1>3, <1>4, <1>5 DEF Next

\* The search starts with the invariant.
LEMMA IInvInit == Init => IInv
<1> SUFFICES ASSUME Init PROVE IInv
    OBVIOUS
<1>1. TypeOK
    BY TypeOKInit
<1>2. state = "STARTING" /\ executed = 0 /\ kept = {}
    BY DEF Init
<1>3. QED
    BY <1>1, <1>2 DEF IInv, StateAgrees, LowerBoundCorrect, KeptContiguous, LoadedInOrder,
                      IsSearchingFirstOldEnough

\* The invariant holds for every indexer, sorted or not, and for any uploads and failures.
LEMMA Invariance == Spec => []IInv
BY IInvInit, IInvInductive, PTL DEF Spec

\* While MinAgeOffsetSearch looks for the first result old enough none was jumped over:
\* the bisection loses nothing, however many results there are and whatever is uploaded.
THEOREM NothingJumpedOver == Spec => []LowerBoundCorrect
<1>1. IInv => LowerBoundCorrect
    BY DEF IInv
<1>2. QED
    BY <1>1, Invariance, PTL

\* What addIndexerSearchResult keeps is contiguous: if a result is kept then so were all
\* old enough ones before it, so that newer results are never merged after older ones.
THEOREM NothingKeptOutOfOrder == Spec => []KeptContiguous
<1>1. IInv => KeptContiguous
    BY DEF IInv
<1>2. QED
    BY <1>1, Invariance, PTL

-----------------------------------------------------------------------------
(* Nothing old enough is left behind                                       *)

\* The bisection never asks for the page it just loaded, at which it would be given up.
NotStalled == IsSearchingFirstOldEnough => last.ok /\ GetNextOffset # last.offset

\* When the indexer has nothing more, or sent an empty page, everything was loaded.
NothingLeft ==
    /\ Sorted /\ failures = 0 /\ total >= Len(dates)
    /\ \/ state = "NOTHING_OLD_ENOUGH"
       \/ state = "DONE" /\ (~ last.more \/ last.size = 0)
    => \A r \in DOMAIN dates : SurelyOld(r) => r \in kept

OkUnlessFailed == failures = 0 => last.ok

Completes == NotStalled /\ NothingLeft /\ OkUnlessFailed

\* The next probe is at the lower bound or between the bounds.
LEMMA ProbeIsBetween ==
    ASSUME NEW l \in Nat, NEW u \in Nat,
           NEW n, n = IF u - l <= PageSize THEN l ELSE l + (u - l) \div 2
    PROVE  n \in Nat /\ n >= l /\ (n = l \/ n < u)
<1>1. CASE u - l <= PageSize
    BY <1>1
<1>2. CASE ~ (u - l <= PageSize)
    <2>1. u - l > 1
        BY <1>2, Constants
    <2>2. (u - l) \div 2 \in Nat /\ (u - l) \div 2 < u - l
        BY <2>1
    <2>3. n = l + (u - l) \div 2
        BY <1>2
    <2>4. QED
        BY <2>2, <2>3
<1>3. QED
    BY <1>1, <1>2

\* A page is empty only behind the last result.
LEMMA EmptyPage ==
    ASSUME TypeOK, NEW offset \in Nat
    PROVE  /\ ResultsOf(offset) = {} => offset >= Len(dates)
           /\ PageLen(offset) = 0 => offset >= Len(dates)
           /\ ResultsOf(offset) # {} => PageLen(offset) > 0
<1>1. dates \in Seq(Dates) /\ Len(dates) \in Nat /\ DOMAIN dates = 1..Len(dates)
    BY DEF TypeOK
<1>2. PageLen(offset) = 0 => offset >= Len(dates)
    <2>1. CASE offset + PageSize <= Len(dates)
        <3>1. PageLen(offset) = PageSize /\ PageSize # 0
            BY <2>1, Constants DEF PageLen
        <3>2. QED
            BY <3>1
    <2>2. CASE ~ (offset + PageSize <= Len(dates)) /\ offset <= Len(dates)
        <3>1. PageLen(offset) = Len(dates) - offset
            BY <2>2 DEF PageLen
        <3>2. QED
            BY <1>1, <3>1
    <2>3. CASE ~ (offset <= Len(dates))
        BY <1>1, <2>3
    <2>4. QED
        BY <2>1, <2>2, <2>3
<1>3. PageLen(offset) \in Nat
    BY <1>1, PageIsInterval
<1>4. ASSUME ResultsOf(offset) = {}, ~ (offset >= Len(dates)) PROVE FALSE
    <2>1. ResultAt(offset) \in DOMAIN dates /\ ResultAt(offset) \in Int
        BY <1>1, <1>4 DEF ResultAt
    <2>2. PageLen(offset) > 0
        BY <1>1, <1>2, <1>3, <1>4
    <2>3. ResultAt(offset) \in ResultsOf(offset)
        <3>1. ResultAt(offset) - PageLen(offset) < ResultAt(offset) /\ ResultAt(offset) <= ResultAt(offset)
            BY <1>3, <2>1, <2>2
        <3>2. QED
            BY <1>1, <2>1, <3>1, PageIsInterval
    <2>4. QED
        BY <1>4, <2>3
<1>5. ASSUME NEW r \in ResultsOf(offset) PROVE PageLen(offset) > 0
    <2>1. r \in DOMAIN dates /\ ResultAt(offset) - PageLen(offset) < r /\ r <= ResultAt(offset)
        BY <1>1, PageIsInterval
    <2>2. r \in Int /\ ResultAt(offset) \in Int
        BY <1>1, <2>1 DEF ResultAt
    <2>3. QED
        BY <1>3, <2>1, <2>2
<1>6. QED
    BY <1>2, <1>4, <1>5

\* Behind a page after which there is nothing more there is none, if the total isn't too small.
LEMMA LastPage ==
    ASSUME TypeOK, NEW offset \in Nat, total >= Len(dates),
           ~ HasMoreResults(offset) \/ PageLen(offset) = 0
    PROVE  offset + PageLen(offset) >= Len(dates)
<1>1. dates \in Seq(Dates) /\ Len(dates) \in Nat /\ total \in Nat
    BY DEF TypeOK
<1>2. PageLen(offset) \in Nat
    BY <1>1, PageIsInterval
<1>3. CASE InvalidTotal(offset)
    BY <1>1, <1>3, Constants DEF InvalidTotal, PageLen
<1>4. CASE ~ (total > offset + PageLen(offset))
    BY <1>1, <1>2, <1>4
<1>5. CASE PageLen(offset) = 0
    BY <1>1, <1>5, EmptyPage
<1>6. QED
    BY <1>3, <1>4, <1>5 DEF HasMoreResults

\* A page either ends the bisection or leads to another offset.
LEMMA LoadPageAdvances ==
    ASSUME IInv, LoadPage
    PROVE  NotStalled'
<1> DEFINE offset == GetNextOffset
<1>1. offset \in Nat /\ TypeOK
    BY NextOffsetIsNat DEF IInv
<1>2. /\ FirstPageLoaded(offset) \/ ProbeLoaded(offset) \/ NextPageLoaded(offset)
      /\ last'.offset = offset /\ last'.ok
      /\ executed' = executed + 1
    BY DEF LoadPage
<1>3. state = "STARTING" => offset = 0
    BY DEF IInv, StateAgrees, GetNextOffset
<1> HIDE DEF offset
<1>4. executed' # 0
    BY <1>1, <1>2 DEF TypeOK
<1>5. lowerBound \in Nat /\ upperBound \in Nat /\ PageLen(offset) \in Nat /\ dates \in Seq(Dates)
    BY <1>1, PageIsInterval DEF TypeOK
<1>6. lowerBound' \in Nat /\ upperBound' \in Nat
    BY TypeOKInductive DEF IInv, TypeOK, Next
<1>7. NextProbe' \in Nat /\ NextProbe' >= lowerBound' /\ (NextProbe' = lowerBound' \/ NextProbe' < upperBound')
    <2>1. NextProbe' = IF upperBound' - lowerBound' <= PageSize THEN lowerBound'
                       ELSE lowerBound' + (upperBound' - lowerBound') \div 2
        BY DEF NextProbe
    <2>2. QED
        BY <1>6, <2>1, ProbeIsBetween
<1>8. SUFFICES ASSUME IsSearchingFirstOldEnough' PROVE GetNextOffset' # offset
    BY <1>2 DEF NotStalled
<1>9. GetNextOffset' = IF state' = "PROBING" THEN NextProbe' ELSE lowerBound'
    BY <1>4, <1>8 DEF GetNextOffset, IsSearchingFirstOldEnough
<1>10. ASSUME lowerBound' > offset PROVE GetNextOffset' # offset
    BY <1>1, <1>6, <1>7, <1>9, <1>10
<1>11. ASSUME lowerBound' # offset, upperBound' <= offset PROVE GetNextOffset' # offset
    BY <1>1, <1>6, <1>7, <1>9, <1>11
<1>12. CASE FirstPageLoaded(offset)
    <2>1. ResultsOf(offset) # {} /\ lowerBound' = offset + PageLen(offset)
        BY <1>8, <1>12 DEF FirstPageLoaded, IsSearchingFirstOldEnough
    <2>2. QED
        BY <1>1, <1>5, <1>10, <2>1, EmptyPage
<1>13. CASE NextPageLoaded(offset)
    BY <1>8, <1>13 DEF NextPageLoaded, IsSearchingFirstOldEnough
<1>14. CASE ProbeLoaded(offset)
    <2>1. CASE ProbeBeyondEnd(offset) \/ ProbeOldEnough(offset)
        <3>1. /\ ~ Contiguous(offset)
              /\ lowerBound' = lowerBound
              /\ upperBound' = Smaller(upperBound, offset)
            BY <1>8, <2>1 DEF ProbeBeyondEnd, ProbeOldEnough, IsSearchingFirstOldEnough
        <3>2. lowerBound' # offset /\ upperBound' <= offset
            BY <1>1, <1>5, <3>1 DEF Contiguous, Smaller
        <3>3. QED
            BY <1>11, <3>2
    <2>2. CASE ProbeOutOfOrder(offset)
        <3>1. ~ Contiguous(offset) /\ lowerBound' = lowerBound /\ state' = "RESUMING"
            BY <1>8, <2>2 DEF ProbeOutOfOrder, IsSearchingFirstOldEnough
        <3>2. QED
            BY <1>9, <3>1 DEF Contiguous
    <2>3. CASE ProbeTooYoung(offset)
        <3>1. ResultsOf(offset) # {} /\ lowerBound' = Larger(lowerBound, offset + PageLen(offset))
            BY <2>3 DEF ProbeTooYoung
        <3>2. PageLen(offset) > 0
            BY <1>1, <3>1, EmptyPage
        <3>3. lowerBound' > offset
            BY <1>1, <1>5, <3>1, <3>2 DEF Larger
        <3>4. QED
            BY <1>10, <3>3
    <2>4. CASE ProbeOnBoundary(offset)
        BY <1>8, <2>4 DEF ProbeOnBoundary, IsSearchingFirstOldEnough
    <2>5. QED
        BY <1>14, <2>1, <2>2, <2>3, <2>4 DEF ProbeLoaded
<1>15. QED
    BY <1>2, <1>12, <1>13, <1>14

\* When a page is the last one everything before it was kept as well.
LEMMA LoadPageLeavesNothing ==
    ASSUME IInv, LoadPage
    PROVE  NothingLeft'
<1> DEFINE offset == GetNextOffset
<1>1. offset \in Nat /\ TypeOK
    BY NextOffsetIsNat DEF IInv
<1>2. /\ executed = 0 \/ last.ok
      /\ FirstPageLoaded(offset) \/ ProbeLoaded(offset) \/ NextPageLoaded(offset)
      /\ last'.more = HasMoreResults(offset) /\ last'.size = PageLen(offset)
      /\ UNCHANGED <<dates, total, totalKnown, failures>>
    BY DEF LoadPage, WillBeQueried
<1> HIDE DEF offset
<1>3. /\ Sorted' => Sorted
      /\ \A r \in DOMAIN dates : SurelyOld(r)' <=> SurelyOld(r)
    BY <1>2 DEF Sorted, SurelyOld
<1>4. SUFFICES ASSUME Sorted, total >= Len(dates),
                      state' = "NOTHING_OLD_ENOUGH" \/
                          (state' = "DONE" /\ (~ HasMoreResults(offset) \/ PageLen(offset) = 0)),
                      NEW r \in DOMAIN dates, SurelyOld(r)
               PROVE  r \in kept'
    BY <1>2, <1>3 DEF NothingLeft
<1>5. r \in Int /\ r > 0 /\ Len(dates) \in Nat /\ PageLen(offset) \in Nat
    <2>1. dates \in Seq(Dates)
        BY <1>1 DEF TypeOK
    <2>2. QED
        BY <1>1, <2>1, PageIsInterval
<1>6. CASE state' = "DONE" /\ (~ HasMoreResults(offset) \/ PageLen(offset) = 0)
    <2>1. offset + PageLen(offset) >= Len(dates)
        BY <1>1, <1>4, <1>6, LastPage
    <2>2. r > ResultAt(offset + PageLen(offset))
        BY <1>1, <1>5, <2>1 DEF ResultAt
    <2>3. QED
        BY <1>1, <1>2, <1>4, <1>6, <2>2, PageLoadedCorrect DEF offset
<1>7. CASE state' = "NOTHING_OLD_ENOUGH"
    <2>1. state = "PROBING" /\ ProbeBeyondEnd(offset) /\ Contiguous(offset)
        BY <1>2, <1>7 DEF FirstPageLoaded, NextPageLoaded, ProbeLoaded, ProbeBeyondEnd, ProbeOutOfOrder,
                          ProbeTooYoung, ProbeOldEnough, ProbeOnBoundary
    <2>2. offset >= Len(dates)
        BY <1>1, <2>1, EmptyPage DEF ProbeBeyondEnd
    <2>3. r > ResultAt(lowerBound)
        BY <1>1, <1>5, <2>1, <2>2 DEF ResultAt, Contiguous
    <2>4. ~ SurelyOld(r)
        BY <1>4, <2>1, <2>3 DEF IInv, LowerBoundCorrect, IsSearchingFirstOldEnough
    <2>5. QED
        BY <1>4, <2>4
<1>8. QED
    BY <1>4, <1>6, <1>7

\* Every step keeps that.
LEMMA CompletesInductive == IInv /\ Completes /\ [Next]_vars => Completes'
<1> SUFFICES ASSUME IInv, Completes, [Next]_vars PROVE Completes'
    OBVIOUS
<1>1. CASE LoadPage
    <2>1. OkUnlessFailed'
        BY <1>1 DEF LoadPage, OkUnlessFailed
    <2>2. QED
        BY <1>1, <2>1, LoadPageAdvances, LoadPageLeavesNothing DEF Completes
<1>2. CASE LoadPageFails
    <2>1. state' = "DONE" /\ failures' # 0
        BY <1>2 DEF LoadPageFails, IInv, TypeOK
    <2>2. QED
        BY <2>1 DEF Completes, NotStalled, NothingLeft, OkUnlessFailed, IsSearchingFirstOldEnough
<1>3. ASSUME NEW date \in Dates, Upload(date) PROVE Completes'
    <2>1. /\ dates' = Append(dates, date) /\ date > Threshold /\ total' = total + 1
          /\ UNCHANGED <<state, lowerBound, upperBound, executed, last, kept, failures>>
        BY <1>3 DEF Upload, searchVars, entryVars
    <2>2. dates \in Seq(Dates) /\ Len(dates) \in Nat /\ date \in Int /\ total \in Nat
        BY Constants DEF IInv, TypeOK
    <2>3. /\ Len(dates') = Len(dates) + 1
          /\ DOMAIN dates' = DOMAIN dates \cup {Len(dates) + 1}
          /\ \A r \in DOMAIN dates : dates'[r] = dates[r]
          /\ dates'[Len(dates) + 1] = date
        BY <2>1, <2>2
    <2>4. \A r \in DOMAIN dates' : SurelyOld(r)' => r \in DOMAIN dates /\ SurelyOld(r)
        <3>1. ~ (date <= Threshold - Tolerance)
            BY <2>1, <2>2, Constants
        <3>2. QED
            BY <2>3, <3>1 DEF SurelyOld
    <2>5. Sorted' => Sorted
        BY <2>3 DEF Sorted
    <2>6. total' >= Len(dates') => total >= Len(dates)
        BY <2>1, <2>2, <2>3
    <2>7. NothingLeft'
        BY <2>1, <2>4, <2>5, <2>6 DEF Completes, NothingLeft
    <2>8. NotStalled' /\ OkUnlessFailed'
        BY <2>1 DEF Completes, NotStalled, OkUnlessFailed, IsSearchingFirstOldEnough, GetNextOffset, NextProbe
    <2>9. QED
        BY <2>7, <2>8 DEF Completes
<1>4. CASE UNCHANGED vars
    BY <1>4 DEF vars, searchVars, entryVars, Completes, NotStalled, NothingLeft, OkUnlessFailed, Sorted, SurelyOld,
                IsSearchingFirstOldEnough, GetNextOffset, NextProbe
<1>5. QED
    BY <1>1, <1>2, <1>3, <1>4 DEF Next

\* A search for which nothing is loaded anymore was given everything old enough, by an
\* indexer of any size which sorts its results and reports no smaller total than it has:
\* neither the bisection, nor the circuit breaker, nor the end of the pages skips any.
THEOREM NothingOldLeft == Spec => []NothingOldSkipped
<1>1. Init => Completes
    BY DEF Init, Completes, NotStalled, NothingLeft, OkUnlessFailed, IsSearchingFirstOldEnough
<1>2. IInv /\ Completes => NothingOldSkipped
    <2> SUFFICES ASSUME IInv, Completes, Finished, Sorted, failures = 0, ~ CapReached, total >= Len(dates)
                 PROVE  \A r \in DOMAIN dates : SurelyOld(r) => r \in kept
        BY DEF NothingOldSkipped
    <2>1. executed # 0 /\ ~ (last.ok /\ IsMoreResultsAvailable /\ GetNextOffset # last.offset)
        BY DEF Finished, WillBeQueried
    <2>2. last.ok /\ last.offset \in Nat /\ last.size \in Nat /\ state \in States
        BY DEF Completes, OkUnlessFailed, IInv, TypeOK
    <2>3. state # "STARTING"
        BY <2>1 DEF IInv, StateAgrees
    <2>4. ~ IsSearchingFirstOldEnough
        BY <2>1 DEF Completes, NotStalled, IsSearchingFirstOldEnough, IsMoreResultsAvailable
    <2>5. state \in {"DONE", "NOTHING_OLD_ENOUGH"}
        BY <2>2, <2>3, <2>4 DEF States, IsSearchingFirstOldEnough
    <2>6. CASE state = "DONE"
        <3>1. ~ last.more \/ last.offset + last.size = last.offset
            BY <2>1, <2>2, <2>6 DEF IsMoreResultsAvailable, GetNextOffset
        <3>2. ~ last.more \/ last.size = 0
            BY <2>2, <3>1
        <3>3. QED
            BY <2>6, <3>2 DEF Completes, NothingLeft
    <2>7. CASE state = "NOTHING_OLD_ENOUGH"
        BY <2>7 DEF Completes, NothingLeft
    <2>8. QED
        BY <2>5, <2>6, <2>7
<1>3. QED
    BY <1>1, <1>2, CompletesInductive, Invariance, PTL DEF Spec
=============================================================================
