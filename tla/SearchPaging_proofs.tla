-------------------------- MODULE SearchPaging_proofs --------------------------
(***************************************************************************)
(* Proofs about SearchPaging for any indexers, results, page sizes, worlds *)
(* and limits. The first half is about the SearchCacheEntry: what is       *)
(* merged is merged once, every duplicate group once, and for an API       *)
(* client of orderly indexers newest first. The second half is about the   *)
(* caller: a search is determined by its world as long as nothing fails,   *)
(* so that pages fit together even if the search was evicted and done      *)
(* again, nothing is held back and nothing is lost.                        *)
(***************************************************************************)
EXTENDS SearchPaging, FiniteSetTheorems, SequenceTheorems, WellFoundedInduction, TLAPS

\* The part of the state which belongs to the entry and has the type the code gives it.
EntryTyping ==
    /\ world \in World
    /\ queries \in [Indexers -> Nat] /\ last \in [Indexers -> SearchResultMeta]
    /\ loaded \in SUBSET Items /\ popped \in SUBSET Items /\ removed \in SUBSET Items
    /\ merged \in Seq(Items)
    /\ groupOf \in [Items -> Nat] /\ nextGroup \in Nat \ {0}
    /\ round \in [fresh : SUBSET Items, gotItems : BOOLEAN, merged : Nat, removed : Nat, advanced : BOOLEAN]

\* While results are grouped those of the round without a group are left, at all other
\* times every loaded result has one. Only loaded results have groups.
Grouped ==
    /\ \A x \in Items : groupOf[x] # 0 => x \in loaded
    /\ \A x \in loaded : groupOf[x] = 0 => pc = "group" /\ x \in round.fresh
    /\ pc = "group" => \A x \in round.fresh : x \in loaded /\ groupOf[x] = 0
    /\ \A x \in popped : groupOf[x] # 0

\* The groups with the represented flag are those of the merged results.
RepresentedMerged ==
    Source = "API" => /\ \A j \in DOMAIN merged : groupOf[merged[j]] \in represented
                      /\ \A g \in represented : \E j \in DOMAIN merged : groupOf[merged[j]] = g

IInv == EntryTyping /\ MergedOnce /\ Grouped /\ RepresentedMerged /\ EveryGroupOnce

-----------------------------------------------------------------------------

\* Of results which wait there is a newest one: Peek finds it.
LEMMA Newest ==
    ASSUME NEW S \in SUBSET Items, S # {}
    PROVE  \E x \in S : \A y \in S : x >= y
<1> DEFINE HasNewest(R) == \E x \in R : \A y \in R : x >= y
           Less == OpToRel(<, Nat)
           Sizes == {n \in Nat : \E R \in SUBSET Items : R # {} /\ ~ HasNewest(R) /\ Cardinality(R) = n}
<1>1. Sizes = {}
  <2>1. SUFFICES ASSUME Sizes # {} PROVE FALSE
    OBVIOUS
  <2>2. IsWellFoundedOn(Less, Nat)
    BY NatLessThanWellFounded
  <2>3. PICK n \in Sizes : \A m \in Sizes : ~ (<<m, n>> \in Less)
    <3> HIDE DEF Less
    <3>1. Sizes \subseteq Nat
      OBVIOUS
    <3> HIDE DEF Sizes
    <3>2. QED BY <2>1, <2>2, <3>1, WFMin
  <2>4. PICK R \in SUBSET Items : R # {} /\ ~ HasNewest(R) /\ Cardinality(R) = n
    OBVIOUS
  <2>5. PICK x \in R : TRUE
    BY <2>4
  <2>6. R \in SUBSET Nat /\ IsFiniteSet(R) /\ IsFiniteSet(R \ {x})
    BY <2>4, ItemsAssumption, FS_Subset
  <2>7. Cardinality(R \ {x}) = n - 1 /\ n \in Nat /\ n - 1 \in Nat
    <3>1. Cardinality(R \ {x}) = Cardinality(R) - 1
      BY <2>5, <2>6, FS_RemoveElement
    <3>2. Cardinality(R) \in Nat /\ Cardinality(R \ {x}) \in Nat
      BY <2>6, FS_CardinalityType
    <3>3. QED BY <3>1, <3>2, <2>4
  <2>8. R \ {x} # {} => HasNewest(R \ {x})
    <3>1. SUFFICES ASSUME R \ {x} # {}, ~ HasNewest(R \ {x}) PROVE FALSE
      OBVIOUS
    <3>2. n - 1 \in Sizes
      BY <2>4, <2>7, <3>1
    <3>3. <<n - 1, n>> \in Less
      BY <2>7 DEF OpToRel
    <3>4. QED BY <2>3, <3>2, <3>3
  <2>9. HasNewest(R)
    <3>1. CASE R \ {x} = {}
      BY <2>5, <2>6, <3>1
    <3>2. CASE R \ {x} # {}
      <4>1. PICK z \in R \ {x} : \A y \in R \ {x} : z >= y
        BY <2>8, <3>2
      <4>2. CASE x >= z
        BY <2>5, <2>6, <4>1, <4>2
      <4>3. CASE ~(x >= z)
        BY <2>5, <2>6, <4>1, <4>3
      <4>4. QED BY <4>2, <4>3
    <3>3. QED BY <3>1, <3>2
  <2>10. QED BY <2>4, <2>9
<1>2. SUFFICES ASSUME ~ HasNewest(S) PROVE FALSE
  OBVIOUS
<1>3. IsFiniteSet(S) /\ Cardinality(S) \in Nat
  BY ItemsAssumption, FS_Subset, FS_CardinalityType
<1>4. Cardinality(S) \in Sizes
  BY <1>2, <1>3
<1>5. QED BY <1>1, <1>4

-----------------------------------------------------------------------------

\* What an indexer returns are results, their number and the next offset are numbers.
LEMMA PageTyping ==
    ASSUME EntryTyping, NEW i \in Indexers
    PROVE  /\ GetNextOffset(i) \in Nat
           /\ InSeq(PageAt(i, GetNextOffset(i))) \subseteq Items
           /\ PageResult(i, GetNextOffset(i)) \in SearchResultMeta
<1> DEFINE off == GetNextOffset(i)
           s == Catalogue(i)
           last2 == IF off + PageSize[i] > Len(s) THEN Len(s) ELSE off + PageSize[i]
<1>1. off \in Nat /\ PageSize[i] \in Nat
  BY ItemsAssumption DEF EntryTyping, GetNextOffset, SearchResultMeta
<1>2. s \in Seq(Items)
  BY DEF EntryTyping, World, Catalogue
<1>3. Len(s) \in Nat /\ DOMAIN s = 1..Len(s) /\ \A k \in 1..Len(s) : s[k] \in Items
  BY <1>2, LenProperties, ElementOfSeq
<1> HIDE DEF off, s
<1>4. last2 \in Int /\ \A k \in (off + 1)..last2 : s[k] \in Items
  BY <1>1, <1>3
<1>5. SubSeq(s, off + 1, last2) \in Seq(Items)
  BY <1>1, <1>4, SubSeqProperties
<1>6. PageAt(i, off) \in Seq(Items)
  BY <1>5 DEF PageAt, s
<1>7. Len(PageAt(i, off)) \in Nat /\ InSeq(PageAt(i, off)) \subseteq Items
  BY <1>6, LenProperties, ElementOfSeq DEF InSeq
<1>8. PageResult(i, off) \in SearchResultMeta
  BY <1>1, <1>7 DEF PageResult, SearchResultMeta
<1>9. QED BY <1>1, <1>7, <1>8 DEF off

\* A search which is begun anew has an entry without results.
LEMMA NewEntryKeeps ==
    ASSUME EntryTyping, NewEntry, UNCHANGED world, round' = NoRound, pc' # "group"
    PROVE  IInv'
<1>1. EntryTyping'
  BY DEF EntryTyping, NewEntry, NoRound, FailedResult, SearchResultMeta
<1>2. merged' = <<>> /\ DOMAIN merged' = {} /\ InSeq(merged') = {}
  BY DEF NewEntry, InSeq
<1>3. MergedOnce' /\ EveryGroupOnce' /\ RepresentedMerged' /\ Grouped'
  BY <1>2 DEF NewEntry, MergedOnce, NoDuplicates, EveryGroupOnce, RepresentedMerged, Grouped, Source
<1>4. QED BY <1>1, <1>3 DEF IInv

\* Steps which leave the results of the entry alone: whoever searches stays the same,
\* and grouping goes on undisturbed or is over.
LEMMA EntryKept ==
    ASSUME IInv, world' \in World, world'.source = world.source,
           UNCHANGED <<queries, last, loaded, popped, merged, removed, groupOf, nextGroup, represented>>,
           \/ UNCHANGED <<pc, round>>
           \/ /\ pc' # "group"
              /\ pc = "group" => round.fresh = {}
              /\ round' = round \/ round' = NoRound
    PROVE  IInv'
<1>1. EntryTyping'
  <2> DEFINE Rounds == [fresh : SUBSET Items, gotItems : BOOLEAN, merged : Nat, removed : Nat, advanced : BOOLEAN]
  <2>1. NoRound \in Rounds
    BY DEF NoRound
  <2>2. round \in Rounds
    BY DEF IInv, EntryTyping
  <2>3. round' \in Rounds
    <3> HIDE DEF Rounds
    <3>1. QED BY <2>1, <2>2
  <2>4. QED BY <2>3 DEF IInv, EntryTyping
<1>2. MergedOnce' /\ EveryGroupOnce' /\ RepresentedMerged'
  BY DEF IInv, MergedOnce, NoDuplicates, EveryGroupOnce, RepresentedMerged, Source, InSeq, GroupMembers
<1>3. Grouped'
  BY DEF IInv, Grouped
<1>4. QED BY <1>1, <1>2, <1>3 DEF IInv

\* A round adds what it brings to the loaded results, nothing of it is grouped yet
\* which was not grouped before.
LEMMA QueryRoundKeeps ==
    ASSUME IInv, NEW outcome \in [Indexers -> {"ok", "failed", "cancelled"}], QueryRound(outcome)
    PROVE  IInv'
<1> DEFINE asked     == GetIndexersToSearch
           ok        == {i \in asked : outcome[i] = "ok"}
           cancelled == {i \in asked : outcome[i] = "cancelled"}
           items     == UNION {Accepted(i) : i \in ok}
<1>1. pc = "loop" /\ pc' = "group" /\ loaded' = loaded \cup items
      /\ UNCHANGED <<world, popped, merged, removed, groupOf, nextGroup, represented>>
  BY DEF QueryRound
<1>2. round'.fresh = {x \in items : groupOf[x] = 0}
  BY DEF QueryRound
<1>3. items \subseteq Items
  BY PageTyping DEF IInv, Accepted, GetIndexersToSearch
<1>4. EntryTyping'
  <2>1. queries' \in [Indexers -> Nat]
    BY DEF QueryRound, IInv, EntryTyping
  <2>2. last' \in [Indexers -> SearchResultMeta]
    <3>1. FailedResult \in SearchResultMeta
      BY DEF FailedResult, SearchResultMeta
    <3>2. \A i \in Indexers : PageResult(i, GetNextOffset(i)) \in SearchResultMeta
      BY PageTyping DEF IInv
    <3>3. last \in [Indexers -> SearchResultMeta]
      BY DEF IInv, EntryTyping
    <3>4. last' = [i \in Indexers |->
                      IF i \in ok THEN PageResult(i, GetNextOffset(i))
                      ELSE IF i \in asked \ cancelled THEN FailedResult
                      ELSE last[i]]
      BY DEF QueryRound
    <3>5. QED BY <3>1, <3>2, <3>3, <3>4
  <2>3. round' \in [fresh : SUBSET Items, gotItems : BOOLEAN, merged : Nat, removed : Nat, advanced : BOOLEAN]
    <3>1. Len(merged) \in Nat
      BY LenProperties DEF IInv, EntryTyping
    <3>2. Cardinality(removed) \in Nat
      BY ItemsAssumption, FS_Subset, FS_CardinalityType DEF IInv, EntryTyping
    <3>3. {x \in items : groupOf[x] = 0} \in SUBSET Items
      BY <1>3
    <3> HIDE DEF items
    <3>4. PICK gotItems \in BOOLEAN, advanced \in BOOLEAN :
              round' = [fresh    |-> {x \in items : groupOf[x] = 0},
                        gotItems |-> gotItems,
                        merged   |-> Len(merged),
                        removed  |-> Cardinality(removed),
                        advanced |-> advanced]
      BY DEF QueryRound, items
    <3>5. QED BY <3>1, <3>2, <3>3, <3>4
  <2>4. QED BY <1>1, <1>3, <2>1, <2>2, <2>3 DEF IInv, EntryTyping
<1>5. MergedOnce'
  BY <1>1 DEF IInv, MergedOnce, NoDuplicates, InSeq
<1>6. Grouped'
  BY <1>1, <1>2, <1>3 DEF IInv, Grouped
<1>7. RepresentedMerged'
  BY <1>1 DEF IInv, RepresentedMerged, Source
<1>8. EveryGroupOnce'
  BY <1>1 DEF IInv, EveryGroupOnce, Source, GroupMembers, InSeq
<1>9. QED BY <1>4, <1>5, <1>6, <1>7, <1>8 DEF IInv

\* A result gets a group while nothing of it was popped: the groups of what was merged
\* or removed stay as they were and only gain members.
LEMMA AddToGroupsKeeps ==
    ASSUME IInv, AddToGroups
    PROVE  IInv'
<1>1. PICK x \in round.fresh :
        /\ round' = [round EXCEPT !.fresh = @ \ {x}]
        /\ IF MatchingGroups(x) = {}
           THEN /\ groupOf' = [groupOf EXCEPT ![x] = nextGroup]
                /\ nextGroup' = nextGroup + 1
           ELSE \E g \in MatchingGroups(x) :
                /\ \A h \in MatchingGroups(x) : g <= h
                /\ groupOf' = [groupOf EXCEPT ![x] = g]
                /\ UNCHANGED nextGroup
  BY DEF AddToGroups
<1>2. pc = "group" /\ UNCHANGED <<world, queries, last, loaded, popped, merged, removed, represented, pc>>
  BY DEF AddToGroups
<1>3. x \in Items /\ x \in loaded /\ groupOf[x] = 0 /\ x \notin popped
  BY <1>1, <1>2 DEF IInv, Grouped, EntryTyping
<1>4. PICK g \in Nat \ {0} : groupOf' = [groupOf EXCEPT ![x] = g]
  <2>1. nextGroup \in Nat \ {0}
    BY DEF IInv, EntryTyping
  <2>2. MatchingGroups(x) \subseteq Nat \ {0}
    BY <2>1 DEF MatchingGroups
  <2>3. QED BY <1>1, <2>1, <2>2
<1>5. nextGroup' \in Nat \ {0}
  BY <1>1 DEF IInv, EntryTyping
<1>6. /\ \A y \in Items : groupOf'[y] = IF y = x THEN g ELSE groupOf[y]
      /\ groupOf' \in [Items -> Nat]
  BY <1>3, <1>4 DEF IInv, EntryTyping
<1>7. round'.fresh = round.fresh \ {x}
  BY <1>1 DEF IInv, EntryTyping
<1>8. EntryTyping'
  BY <1>1, <1>2, <1>5, <1>6 DEF IInv, EntryTyping
<1>9. MergedOnce'
  BY <1>2 DEF IInv, MergedOnce, NoDuplicates, InSeq
<1>10. Grouped'
  BY <1>2, <1>3, <1>6, <1>7 DEF IInv, Grouped, EntryTyping
<1>11. \A j \in DOMAIN merged : merged[j] \in popped /\ merged[j] \in Items /\ merged[j] # x
  BY <1>3 DEF IInv, MergedOnce, InSeq, EntryTyping
<1>12. RepresentedMerged'
  BY <1>2, <1>6, <1>11 DEF IInv, RepresentedMerged, Source
<1>13. EveryGroupOnce'
  <2>1. SUFFICES ASSUME Source = "API" PROVE EveryGroupOnce'
    BY <1>2 DEF EveryGroupOnce, Source
  <2>2. \A j, k \in DOMAIN merged' : j # k => groupOf'[merged'[j]] # groupOf'[merged'[k]]
    BY <1>2, <1>6, <1>11, <2>1 DEF IInv, EveryGroupOnce
  <2>3. ASSUME NEW z \in removed'
        PROVE  \E y \in GroupMembers(groupOf[z])' : y \in InSeq(merged)' \/ y \in loaded' \ popped'
    <3>1. z \in removed /\ z \in popped /\ z \in Items /\ z # x /\ groupOf[z] # 0
      BY <1>2, <1>3, <2>3 DEF IInv, MergedOnce, Grouped, EntryTyping
    <3>2. PICK y \in GroupMembers(groupOf[z]) : y \in InSeq(merged) \/ y \in loaded \ popped
      BY <2>1, <3>1 DEF IInv, EveryGroupOnce
    <3>3. y \in Items /\ groupOf[y] = groupOf[z] /\ y # x
      BY <1>3, <3>1, <3>2 DEF GroupMembers
    <3>4. y \in GroupMembers(groupOf[z])'
      BY <1>6, <3>1, <3>3 DEF GroupMembers
    <3>5. QED BY <1>2, <3>2, <3>4 DEF InSeq
  <2>4. QED BY <2>2, <2>3 DEF EveryGroupOnce
<1>14. QED BY <1>8, <1>9, <1>10, <1>12, <1>13 DEF IInv

\* What is merged next is a result which waits in a cache.
LEMMA Peeked ==
    ASSUME EntryTyping, NEW i \in GetIndexersWithCachedResults
    PROVE  Peek(i) \in loaded \ popped /\ Peek(i) \in Items
<1>1. Cached(i) # {} /\ Cached(i) \in SUBSET Items
  BY DEF GetIndexersWithCachedResults, IsMoreResultsInCache, Cached, EntryTyping
<1>2. \E x \in Cached(i) : \A y \in Cached(i) : x >= y
  BY <1>1, Newest
<1>3. Peek(i) \in Cached(i)
  BY <1>2 DEF Peek
<1>4. QED BY <1>1, <1>3 DEF Cached

\* What a sequence holds after something was put behind it.
LEMMA Appended ==
    ASSUME NEW s \in Seq(Items), NEW x \in Items
    PROVE  /\ Append(s, x) \in Seq(Items)
           /\ Len(s) \in Nat /\ DOMAIN s = 1..Len(s)
           /\ Len(Append(s, x)) = Len(s) + 1
           /\ DOMAIN Append(s, x) = 1..(Len(s) + 1)
           /\ \A j \in 1..Len(s) : Append(s, x)[j] = s[j]
           /\ Append(s, x)[Len(s) + 1] = x
           /\ InSeq(Append(s, x)) = InSeq(s) \cup {x}
<1>1. /\ Append(s, x) \in Seq(Items)
      /\ Len(s) \in Nat /\ DOMAIN s = 1..Len(s)
      /\ Len(Append(s, x)) = Len(s) + 1
      /\ \A j \in 1..Len(s) : Append(s, x)[j] = s[j]
      /\ Append(s, x)[Len(s) + 1] = x
  BY LenProperties, AppendProperties
<1>2. DOMAIN Append(s, x) = 1..(Len(s) + 1)
  BY <1>1, LenProperties
<1>3. InSeq(Append(s, x)) = InSeq(s) \cup {x}
  BY <1>1, <1>2 DEF InSeq
<1>4. QED BY <1>1, <1>2, <1>3

\* One pass of mergeCachedResults moves a result out of its cache, either behind those
\* merged so far or, when its group has one already or a better one which waits, to the
\* duplicates.
LEMMA MergeKeeps ==
    ASSUME IInv, MergeCachedResults
    PROVE  IInv'
<1>1. PICK i \in GetIndexersWithCachedResults :
        /\ popped' = popped \cup {Peek(i)}
        /\ IF Source # "API" \/ ShouldBeAdded(Peek(i))
           THEN /\ merged' = Append(merged, Peek(i))
                /\ represented' = IF Source = "API" THEN represented \cup {groupOf[Peek(i)]}
                                                   ELSE represented
                /\ UNCHANGED removed
           ELSE /\ removed' = removed \cup {Peek(i)}
                /\ UNCHANGED <<merged, represented>>
        /\ pc' \in {"endRound", "merge"}
  BY DEF MergeCachedResults
<1> DEFINE x == Peek(i)
<1>2. pc = "merge" /\ pc' # "group"
      /\ UNCHANGED <<world, queries, last, loaded, groupOf, nextGroup, round>>
  BY <1>1 DEF MergeCachedResults, requestVars
<1>3. x \in loaded \ popped /\ x \in Items
  BY <1>1, Peeked DEF IInv
<1>4. x \notin InSeq(merged) /\ x \notin removed /\ groupOf[x] # 0
  BY <1>2, <1>3 DEF IInv, MergedOnce, Grouped
<1>5. merged \in Seq(Items)
  BY DEF IInv, EntryTyping
<1> HIDE DEF x
<1>6. Grouped'
  BY <1>1, <1>2, <1>4 DEF IInv, Grouped, x
<1>7. CASE Source # "API" \/ ShouldBeAdded(x)
  <2>1. /\ merged' = Append(merged, x) /\ removed' = removed /\ popped' = popped \cup {x}
        /\ Source = "API" => represented' = represented \cup {groupOf[x]}
    BY <1>1, <1>7 DEF x
  <2>2. /\ merged' \in Seq(Items)
        /\ Len(merged) \in Nat /\ DOMAIN merged = 1..Len(merged)
        /\ DOMAIN merged' = 1..(Len(merged) + 1)
        /\ \A j \in 1..Len(merged) : merged'[j] = merged[j]
        /\ merged'[Len(merged) + 1] = x
        /\ InSeq(merged)' = InSeq(merged) \cup {x}
    BY <1>3, <1>5, <2>1, Appended DEF InSeq
  <2>3. EntryTyping'
    BY <1>2, <1>3, <2>1, <2>2 DEF IInv, EntryTyping
  <2>4. MergedOnce'
    <3>1. \A j \in 1..Len(merged) : merged[j] # x
      BY <1>4, <2>2 DEF InSeq
    <3>2. NoDuplicates(merged)'
      BY <2>2, <3>1 DEF IInv, MergedOnce, NoDuplicates
    <3>3. QED BY <1>2, <1>3, <1>4, <2>1, <2>2, <3>2 DEF IInv, MergedOnce
  <2>5. RepresentedMerged'
    <3>1. SUFFICES ASSUME Source = "API" PROVE RepresentedMerged'
      BY <1>2 DEF RepresentedMerged, Source
    <3>2. \A j \in DOMAIN merged' : groupOf[merged'[j]] \in represented'
      BY <2>1, <2>2, <3>1 DEF IInv, RepresentedMerged
    <3>3. \A g \in represented' : \E j \in DOMAIN merged' : groupOf[merged'[j]] = g
      <4>1. ASSUME NEW g \in represented PROVE \E j \in DOMAIN merged' : groupOf[merged'[j]] = g
        <5>1. PICK j \in DOMAIN merged : groupOf[merged[j]] = g
          BY <3>1, <4>1 DEF IInv, RepresentedMerged
        <5>2. j \in DOMAIN merged' /\ merged'[j] = merged[j]
          BY <2>2, <5>1
        <5>3. QED BY <5>1, <5>2
      <4>2. Len(merged) + 1 \in DOMAIN merged' /\ groupOf[merged'[Len(merged) + 1]] = groupOf[x]
        BY <2>2
      <4>3. QED BY <2>1, <3>1, <4>1, <4>2
    <3>4. QED BY <1>2, <3>2, <3>3 DEF RepresentedMerged
  <2>6. EveryGroupOnce'
    <3>1. SUFFICES ASSUME Source = "API" PROVE EveryGroupOnce'
      BY <1>2 DEF EveryGroupOnce, Source
    <3>2. groupOf[x] \notin represented
      BY <1>4, <1>7, <3>1 DEF ShouldBeAdded
    <3>3. \A j \in 1..Len(merged) : groupOf[merged[j]] # groupOf[x]
      BY <2>2, <3>1, <3>2 DEF IInv, RepresentedMerged
    <3>4. \A j, k \in DOMAIN merged' : j # k => groupOf'[merged'[j]] # groupOf'[merged'[k]]
      BY <1>2, <2>2, <3>1, <3>3 DEF IInv, EveryGroupOnce
    <3>5. \A z \in removed' : \E y \in GroupMembers(groupOf[z])' :
              y \in InSeq(merged)' \/ y \in loaded' \ popped'
      BY <1>2, <2>1, <2>2, <3>1 DEF IInv, EveryGroupOnce, GroupMembers
    <3>6. QED BY <3>4, <3>5 DEF EveryGroupOnce
  <2>7. QED BY <1>6, <2>3, <2>4, <2>5, <2>6 DEF IInv
<1>8. CASE ~ (Source # "API" \/ ShouldBeAdded(x))
  <2>1. removed' = removed \cup {x} /\ popped' = popped \cup {x} /\ UNCHANGED <<merged, represented>>
    BY <1>1, <1>8 DEF x
  <2>2. EntryTyping'
    BY <1>2, <1>3, <2>1 DEF IInv, EntryTyping
  <2>3. MergedOnce'
    BY <1>2, <1>3, <1>4, <2>1 DEF IInv, MergedOnce, NoDuplicates, InSeq
  <2>4. RepresentedMerged'
    BY <1>2, <2>1 DEF IInv, RepresentedMerged, Source
  <2>5. EveryGroupOnce'
    <3>1. Source = "API"
      BY <1>8
    <3>2. \A j, k \in DOMAIN merged' : j # k => groupOf'[merged'[j]] # groupOf'[merged'[k]]
      BY <1>2, <2>1, <3>1 DEF IInv, EveryGroupOnce
    \* Of the group of x something was merged or something better waits.
    <3>3. PICK w \in GroupMembers(groupOf[x]) : w \in InSeq(merged) \/ w \in loaded \ (popped \cup {x})
      <4>1. CASE groupOf[x] \in represented
        <5>1. PICK j \in DOMAIN merged : groupOf[merged[j]] = groupOf[x]
          BY <3>1, <4>1 DEF IInv, RepresentedMerged
        <5>2. merged[j] \in InSeq(merged) /\ merged[j] \in Items
          BY <1>5, <5>1 DEF InSeq
        <5>3. QED BY <5>1, <5>2 DEF GroupMembers
      <4>2. CASE groupOf[x] \notin represented
        <5>1. PICK y \in GroupMembers(groupOf[x]) \ {x} : y \notin popped
          BY <1>4, <1>8, <4>2 DEF ShouldBeAdded
        <5>2. y \in loaded
          BY <1>4, <5>1 DEF IInv, Grouped, GroupMembers
        <5>3. QED BY <5>1, <5>2
      <4>3. QED BY <4>1, <4>2
    <3>4. ASSUME NEW z \in removed'
          PROVE  \E y \in GroupMembers(groupOf[z])' : y \in InSeq(merged)' \/ y \in loaded' \ popped'
      <4>1. PICK y \in GroupMembers(groupOf[z]) : y \in InSeq(merged) \/ y \in loaded \ popped \/ z = x
        BY <2>1, <3>1, <3>3, <3>4 DEF IInv, EveryGroupOnce
      <4>2. CASE y # x /\ z # x
        BY <1>2, <2>1, <4>1, <4>2 DEF GroupMembers, InSeq
      <4>3. CASE y = x \/ z = x
        <5>1. groupOf[z] = groupOf[x]
          BY <4>1, <4>3 DEF GroupMembers
        <5>2. QED BY <1>2, <2>1, <3>3, <5>1 DEF GroupMembers, InSeq
      <4>4. QED BY <4>2, <4>3
    <3>5. QED BY <1>2, <3>2, <3>4 DEF EveryGroupOnce
  <2>6. QED BY <1>6, <2>2, <2>3, <2>4, <2>5 DEF IInv
<1>9. QED BY <1>7, <1>8

-----------------------------------------------------------------------------

\* A search nobody began has an entry without results.
LEMMA InitIInv == Init => IInv
<1> SUFFICES ASSUME Init PROVE IInv
  OBVIOUS
<1>1. EntryTyping
  BY WorldsAssumption DEF Init, EntryTyping, NoRound, FailedResult, SearchResultMeta
<1>2. merged = <<>> /\ DOMAIN merged = {} /\ InSeq(merged) = {}
  BY DEF Init, InSeq
<1>3. MergedOnce /\ EveryGroupOnce /\ RepresentedMerged /\ Grouped
  BY <1>2 DEF Init, MergedOnce, NoDuplicates, EveryGroupOnce, RepresentedMerged, Grouped
<1>4. QED BY <1>1, <1>3 DEF IInv

\* Every step keeps the entry consistent.
LEMMA NextIInv == IInv /\ [Next]_vars => IInv'
<1> SUFFICES ASSUME IInv, [Next]_vars PROVE IInv'
  OBVIOUS
<1> USE DEF entryVars, requestVars
<1>1. world \in World /\ EntryTyping
  BY DEF IInv, EntryTyping
<1>2. ASSUME StartSearch PROVE IInv'
  BY <1>1, <1>2, NewEntryKeeps DEF StartSearch, BeginRequest
<1>3. ASSUME NEW loadAll \in BOOLEAN, ContinueSearch(loadAll) PROVE IInv'
  <2>1. pc = "idle" /\ pc' = "loop" /\ round' = NoRound /\ UNCHANGED world
    BY <1>3 DEF ContinueSearch, BeginRequest
  <2>2. CASE inCache
    <3>1. UNCHANGED <<queries, last, loaded, popped, merged, removed, groupOf, nextGroup, represented>>
      BY <1>3, <2>2 DEF ContinueSearch
    <3>2. QED BY <1>1, <2>1, <3>1, EntryKept
  <2>3. CASE ~ inCache
    <3>1. NewEntry
      BY <1>3, <2>3 DEF ContinueSearch
    <3>2. QED BY <1>1, <2>1, <3>1, NewEntryKeeps
  <2>4. QED BY <2>2, <2>3
<1>4. ASSUME Expire PROVE IInv'
  BY <1>1, <1>4, EntryKept DEF Expire
<1>5. ASSUME NEW i \in Indexers, Upload(i) PROVE IInv'
  <2>1. PICK x \in world.uploads : world' = [world EXCEPT !.catalogue[i] = <<x>> \o @]
    BY <1>5 DEF Upload
  <2>2. x \in Items /\ world.catalogue[i] \in Seq(Items) /\ <<x>> \in Seq(Items)
    BY <1>1 DEF World
  <2>3. <<x>> \o world.catalogue[i] \in Seq(Items)
    BY <2>2, ConcatProperties
  <2>4. world' \in World /\ world'.source = world.source
    BY <1>1, <2>1, <2>3 DEF World
  <2>5. UNCHANGED <<queries, last, loaded, popped, merged, removed, groupOf, nextGroup, represented, pc, round>>
    BY <1>5 DEF Upload
  <2>6. QED BY <2>4, <2>5, EntryKept
<1>6. ASSUME Shortcut PROVE IInv'
  BY <1>1, <1>6, EntryKept DEF Shortcut
<1>7. ASSUME LoopStop PROVE IInv'
  BY <1>1, <1>7, EntryKept DEF LoopStop
<1>8. ASSUME NEW outcome \in [Indexers -> {"ok", "failed", "cancelled"}], QueryRound(outcome) PROVE IInv'
  BY <1>8, QueryRoundKeeps
<1>9. ASSUME AddToGroups PROVE IInv'
  BY <1>9, AddToGroupsKeeps
<1>10. ASSUME AddToGroupsDone PROVE IInv'
  BY <1>1, <1>10, EntryKept DEF AddToGroupsDone
<1>11. ASSUME MergeCachedResults PROVE IInv'
  BY <1>11, MergeKeeps
<1>12. ASSUME MergeDone PROVE IInv'
  BY <1>1, <1>12, EntryKept DEF MergeDone
<1>13. ASSUME EndRound PROVE IInv'
  BY <1>1, <1>13, EntryKept DEF EndRound
<1>14. ASSUME NEW saved \in SUBSET Indexers, EndRoundFails(saved) PROVE IInv'
  BY <1>1, <1>14, EntryKept DEF EndRoundFails
<1>15. ASSUME Respond PROVE IInv'
  BY <1>1, <1>15, EntryKept DEF Respond
<1>16. ASSUME UNCHANGED vars PROVE IInv'
  BY <1>1, <1>16, EntryKept DEF vars
<1>17. QED
  BY <1>2, <1>3, <1>4, <1>5, <1>6, <1>7, <1>8, <1>9, <1>10, <1>11, <1>12, <1>13, <1>14, <1>15, <1>16
     DEF Next, SearchStep

\* The entry of a search is consistent in every state: what was popped was merged once
\* or removed as a duplicate, and groups, their flags and the merged results agree.
THEOREM Invariant == Spec => []IInv
<1>1. QED BY InitIInv, NextIInv, PTL DEF Spec

\* Whatever pages indexers return and however they overlap, mergeCachedResults merges
\* every result once or removes it as a duplicate, and loses none.
THEOREM NothingMergedTwice == Spec => []MergedOnce
<1>1. IInv => MergedOnce
  BY DEF IInv
<1>2. QED BY Invariant, <1>1, PTL

\* An API search returns at most one result of each group of duplicates, and leaves one
\* out only for another which was merged or still waits, for every relation of sameness.
THEOREM OneOfEveryGroup == Spec => []EveryGroupOnce
<1>1. IInv => EveryGroupOnce
  BY DEF IInv
<1>2. QED BY Invariant, <1>1, PTL

-----------------------------------------------------------------------------
(* Pages                                                                   *)

\* What the indexer has behind an offset and the acceptor takes.
Behind(i, offset) ==
    {Catalogue(i)[k] : k \in {k \in 1..Len(Catalogue(i)) : k > offset}} \ world.rejected

\* What an indexer holds is a list of results, that is of numbers.
LEMMA CatalogueTyping ==
    ASSUME EntryTyping, NEW i \in Indexers
    PROVE  /\ Catalogue(i) \in Seq(Items) /\ Len(Catalogue(i)) \in Nat
           /\ DOMAIN Catalogue(i) = 1..Len(Catalogue(i))
           /\ \A k \in 1..Len(Catalogue(i)) : Catalogue(i)[k] \in Items /\ Catalogue(i)[k] \in Nat
<1>1. Catalogue(i) \in Seq(Items)
  BY DEF EntryTyping, World, Catalogue
<1> HIDE DEF Catalogue
<1>2. QED BY <1>1, LenProperties, ElementOfSeq, ItemsAssumption

\* A page holds what comes behind its offset, as much as fits.
LEMMA PageContents ==
    ASSUME EntryTyping, NEW i \in Indexers, NEW o \in Nat
    PROVE  LET n == Len(Catalogue(i))
               p == PageSize[i]
           IN  /\ Len(PageAt(i, o)) = IF o >= n THEN 0 ELSE IF o + p <= n THEN p ELSE n - o
               /\ InSeq(PageAt(i, o)) = {Catalogue(i)[k] : k \in {k \in 1..n : k > o /\ k <= o + p}}
<1> DEFINE c == Catalogue(i)
           n == Len(c)
           p == PageSize[i]
           m == IF o + p > n THEN n ELSE o + p
<1>1. p \in Nat \ {0} /\ c \in Seq(Items) /\ n \in Nat /\ DOMAIN c = 1..n
  BY CatalogueTyping, ItemsAssumption
<1>2. PageAt(i, o) = SubSeq(c, o + 1, m)
  BY DEF PageAt
<1> HIDE DEF c, p
<1>3. Len(SubSeq(c, o + 1, m)) = (IF o + 1 <= m THEN m - (o + 1) + 1 ELSE 0)
      /\ DOMAIN SubSeq(c, o + 1, m) = 1..Len(SubSeq(c, o + 1, m))
      /\ \A k \in 1..Len(SubSeq(c, o + 1, m)) : SubSeq(c, o + 1, m)[k] = c[o + k]
  <2>1. m \in Nat
    BY <1>1
  <2> HIDE DEF m
  <2>2. \A k \in (o + 1)..m : k \in 1..n
    BY <1>1, <2>1 DEF m
  <2>3. \A k \in (o + 1)..m : c[k] \in Items
    BY <1>1, <2>2, ElementOfSeq
  <2>4. SubSeq(c, o + 1, m) \in Seq(Items)
        /\ Len(SubSeq(c, o + 1, m)) = IF o + 1 <= m THEN m - (o + 1) + 1 ELSE 0
    BY <1>1, <2>1, <2>3, SubSeqProperties
  <2>5. DOMAIN SubSeq(c, o + 1, m) = 1..Len(SubSeq(c, o + 1, m))
    BY <2>4, LenProperties
  <2>6. \A k \in 1..Len(SubSeq(c, o + 1, m)) : SubSeq(c, o + 1, m)[k] = c[o + k]
    BY <1>1, <2>1, <2>4
  <2>7. QED BY <2>4, <2>5, <2>6
<1>4. Len(PageAt(i, o)) = IF o >= n THEN 0 ELSE IF o + p <= n THEN p ELSE n - o
  BY <1>1, <1>2, <1>3
<1>5. InSeq(PageAt(i, o)) = {c[k] : k \in {k \in 1..n : k > o /\ k <= o + p}}
  <2> DEFINE l == Len(PageAt(i, o))
  <2>1. InSeq(PageAt(i, o)) = {c[o + k] : k \in 1..l}
    BY <1>2, <1>3 DEF InSeq
  <2>2. l \in Nat /\ n \in Nat /\ p \in Nat \ {0} /\ l = IF o >= n THEN 0 ELSE IF o + p <= n THEN p ELSE n - o
    <3>1. n \in Nat /\ p \in Nat \ {0}
      BY <1>1
    <3>2. l = IF o >= n THEN 0 ELSE IF o + p <= n THEN p ELSE n - o
      BY <1>4
    <3> HIDE DEF l, n
    <3>3. QED BY <3>1, <3>2
  <2> HIDE DEF l, n
  <2>3. ASSUME NEW k \in 1..l
        PROVE  o + k \in 1..n /\ o + k > o /\ o + k <= o + p
    BY <2>2
  <2>4. ASSUME NEW k \in 1..n, k > o, k <= o + p
        PROVE  k - o \in 1..l /\ o + (k - o) = k
    BY <2>2, <2>4
  <2>5. {c[k] : k \in {k \in 1..n : k > o /\ k <= o + p}} \subseteq {c[o + k] : k \in 1..l}
    <3>1. ASSUME NEW k \in 1..n, k > o, k <= o + p PROVE \E j \in 1..l : c[k] = c[o + j]
      BY <2>4, <3>1
    <3>2. QED BY <3>1
  <2>6. {c[o + k] : k \in 1..l} \subseteq {c[k] : k \in {k \in 1..n : k > o /\ k <= o + p}}
    BY <2>3
  <2>7. QED BY <2>1, <2>5, <2>6
<1>6. QED BY <1>4, <1>5 DEF c, p

-----------------------------------------------------------------------------
(* The order of what an API client gets                                    *)

\* What an indexer may still bring to an API search.
Future(i) ==
    IF (queries[i] = 0 \/ (last[i].ok /\ last[i].more)) /\ queries[i] < MaxQueries
    THEN Behind(i, GetNextOffset(i))
    ELSE {}

\* An indexer is asked for whole pages, until it has no more.
AtPage(i) ==
    queries[i] = 0 \/ last[i].ok =>
        \/ GetNextOffset(i) >= Len(Catalogue(i))
        \/ \E page \in 0..Len(Catalogue(i)) : GetNextOffset(i) = page * PageSize[i]

\* What was loaded is newer than what its indexer may still bring, what was popped is newer
\* than all that waits or may come.
NewestPopped ==
    /\ \A x \in loaded : \A y \in Future(Owner[x]) : x > y
    /\ \A x \in popped : \A y \in loaded \ popped : x > y
    /\ \A x \in popped : \A i \in Indexers : \A y \in Future(i) : x > y

\* While results are grouped and merged no indexer has an empty cache and more to bring.
NoneDry == pc \in {"group", "merge"} => \A i \in Indexers : IsMoreResultsInCache(i) \/ Future(i) = {}

\* What was merged is newest first.
NewestMerged == \A j, k \in DOMAIN merged : j < k => merged[j] > merged[k]

\* What is invariant about the order of an API search as long as its indexers are orderly.
OrderInv ==
    Source = "API" =>
        /\ world \in Worlds /\ ~ request.loadAll
        /\ \A i \in Indexers : AtPage(i)
        /\ NewestPopped /\ NoneDry /\ NewestMerged

\* Steps which leave the entry's results alone.
LEMMA OrderKept ==
    ASSUME OrderInv, UNCHANGED <<world, queries, last, loaded, popped, merged>>,
           request' = request \/ (Source = "API" => ~ request'.loadAll),
           pc' \in {"group", "merge"} => pc \in {"group", "merge"}
    PROVE  OrderInv'
<1>1. \A i \in Indexers : Future(i)' = Future(i) /\ AtPage(i)' = AtPage(i)
                         /\ IsMoreResultsInCache(i)' = IsMoreResultsInCache(i)
  BY DEF Future, AtPage, Behind, Catalogue, GetNextOffset, IsMoreResultsInCache, Cached
<1>2. SUFFICES ASSUME Source = "API" PROVE OrderInv'
  BY DEF OrderInv, Source
<1>3. NewestPopped'
  <2>1. \A x \in loaded : Future(Owner[x])' = Future(Owner[x])
    BY DEF Future, Behind, Catalogue, GetNextOffset
  <2>2. QED BY <1>1, <1>2, <2>1 DEF OrderInv, NewestPopped
<1>4. NoneDry'
  BY <1>1, <1>2 DEF OrderInv, NoneDry
<1>5. NewestMerged' /\ world' \in Worlds /\ ~ request'.loadAll
  BY <1>2 DEF OrderInv, NewestMerged, Source
<1>6. QED BY <1>1, <1>2, <1>3, <1>4, <1>5 DEF OrderInv

\* An entry without results.
LEMMA OrderOfNewEntry ==
    ASSUME OrderInv, IInv, NewEntry, UNCHANGED world, Source = "API" => ~ request'.loadAll, pc' = "loop"
    PROVE  OrderInv'
<1>1. SUFFICES ASSUME Source = "API" PROVE OrderInv'
  BY DEF OrderInv, Source
<1>2. ASSUME NEW i \in Indexers PROVE AtPage(i)'
  <2>1. GetNextOffset(i)' = 0 /\ Len(Catalogue(i))' \in Nat /\ PageSize[i] \in Nat
    BY CatalogueTyping, ItemsAssumption DEF NewEntry, GetNextOffset, Catalogue, IInv
  <2>2. 0 \in 0..Len(Catalogue(i))' /\ 0 = 0 * PageSize[i]
    BY <2>1
  <2>3. QED BY <2>1, <2>2 DEF AtPage
<1>3. NewestPopped' /\ NoneDry' /\ NewestMerged'
  BY DEF NewEntry, NewestPopped, NoneDry, NewestMerged
<1>4. QED BY <1>1, <1>2, <1>3 DEF OrderInv, Source

\* The accepted results of the next page are the first of those behind its offset.
LEMMA NextPage ==
    ASSUME EntryTyping, NEW i \in Indexers
    PROVE  LET c == Catalogue(i)
               o == GetNextOffset(i)
               size == Len(PageAt(i, o))
           IN  /\ o \in Nat /\ size \in Nat
               /\ Accepted(i) = {c[k] : k \in {k \in 1..Len(c) : k > o /\ k <= o + size}} \ world.rejected
               /\ o + size >= Len(c) \/ size = PageSize[i]
<1> DEFINE c == Catalogue(i)
           n == Len(c)
           o == GetNextOffset(i)
           p == PageSize[i]
           size == Len(PageAt(i, o))
<1>1. o \in Nat /\ p \in Nat \ {0} /\ n \in Nat
  BY PageTyping, CatalogueTyping, ItemsAssumption
<1>2. size = (IF o >= n THEN 0 ELSE IF o + p <= n THEN p ELSE n - o)
      /\ InSeq(PageAt(i, o)) = {c[k] : k \in {k \in 1..n : k > o /\ k <= o + p}}
  BY <1>1, PageContents
<1>3. Accepted(i) = InSeq(PageAt(i, o)) \ world.rejected
  BY DEF Accepted
<1> HIDE DEF o, p, n, size, c
<1>4. size \in Nat /\ (o + size >= n \/ size = p)
  BY <1>1, <1>2
<1>5. {k \in 1..n : k > o /\ k <= o + p} = {k \in 1..n : k > o /\ k <= o + size}
  BY <1>1, <1>2
<1>6. QED BY <1>1, <1>2, <1>3, <1>4, <1>5 DEF o, p, n, size, c

\* What a successful call leaves of what the indexer may still bring.
LEMMA FutureAfterPage ==
    ASSUME IInv, OrderInv, Orderly(world), Source = "API", NEW i \in Indexers,
           UNCHANGED world, queries'[i] = queries[i] + 1, last'[i] = PageResult(i, GetNextOffset(i)),
           queries[i] < MaxQueries, queries[i] = 0 \/ (last[i].ok /\ last[i].more)
    PROVE  /\ AtPage(i)'
           /\ Accepted(i) \subseteq Future(i) /\ Future(i)' \subseteq Future(i)
           /\ \A x \in Accepted(i) : \A y \in Future(i)' : x > y
           /\ Future(i)' # {} => Accepted(i) # {}
           /\ \A x \in Accepted(i) : x \in Items /\ Owner[x] = i
<1> DEFINE c == Catalogue(i)
           n == Len(c)
           o == GetNextOffset(i)
           p == PageSize[i]
           size == Len(PageAt(i, o))
           Taken(k) == c[k] \notin world.rejected
<1>1. /\ o \in Nat /\ size \in Nat /\ n \in Nat /\ p \in Nat \ {0}
      /\ DOMAIN c = 1..n /\ \A k \in 1..n : c[k] \in Items /\ c[k] \in Nat
      /\ Accepted(i) = {c[k] : k \in {k \in 1..n : k > o /\ k <= o + size}} \ world.rejected
      /\ o + size >= n \/ size = p
  BY NextPage, CatalogueTyping, ItemsAssumption DEF IInv
<1>2. /\ \A j, k \in 1..n : j < k => c[j] > c[k]
      /\ \A page \in 0..n : (\E k \in 1..n : k > page * p /\ Taken(k))
                             => \E k \in 1..n : k > page * p /\ Taken(k) /\ k <= page * p + p
  BY <1>1 DEF Orderly, Catalogue
<1>3. GetNextOffset(i)' = o + size /\ Catalogue(i)' = c
  <2>1. queries[i] \in Nat
    BY DEF IInv, EntryTyping
  <2>2. queries'[i] # 0
    BY <2>1
  <2>3. last'[i].offset = o /\ last'[i].size = size
    BY DEF PageResult
  <2>4. QED BY <2>2, <2>3 DEF GetNextOffset, Catalogue
<1>4. Future(i) = {c[k] : k \in {k \in 1..n : k > o}} \ world.rejected
  BY DEF Future, Behind
<1>5. Future(i)' \subseteq {c[k] : k \in {k \in 1..n : k > o + size}} \ world.rejected
  BY <1>3 DEF Future, Behind
<1>6. o >= n \/ \E page \in 0..n : o = page * p
  BY DEF OrderInv, AtPage
<1> HIDE DEF c, n, o, p, size
<1>7. AtPage(i)'
  <2>1. o + size >= n \/ \E page \in 0..n : o + size = page * p
    <3>1. CASE o + size >= n
      BY <3>1
    <3>2. CASE ~(o + size >= n)
      <4>1. PICK page \in 0..n : o = page * p
        BY <1>1, <1>6, <3>2
      <4>2. o + size = (page + 1) * p
        BY <1>1, <3>2, <4>1
      <4>3. (page + 1) * p >= page + 1
        BY <1>1
      <4>4. page + 1 \in 0..n
        BY <1>1, <3>2, <4>2, <4>3
      <4>5. QED BY <4>2, <4>4
    <3>3. QED BY <3>1, <3>2
  <2>2. PageSize[i] = p /\ Len(Catalogue(i))' = n
    BY <1>3 DEF p, n, c
  <2>3. QED BY <1>3, <2>1, <2>2 DEF AtPage
<1>8. Accepted(i) \subseteq Future(i)
  BY <1>1, <1>4
<1>9. Future(i)' \subseteq Future(i)
  <2>1. \A k \in 1..n : k > o + size => k > o
    BY <1>1
  <2>2. QED BY <1>4, <1>5, <2>1
<1>10. ASSUME NEW x \in Accepted(i), NEW y \in Future(i)' PROVE x > y
  <2>1. PICK j \in 1..n : x = c[j] /\ j > o /\ j <= o + size
    BY <1>1
  <2>2. PICK k \in 1..n : y = c[k] /\ k > o + size
    BY <1>5
  <2>3. j < k
    BY <1>1, <2>1, <2>2
  <2>4. QED BY <1>2, <2>1, <2>2, <2>3
<1>11. ASSUME Future(i)' # {} PROVE Accepted(i) # {}
  <2>1. PICK k \in 1..n : k > o + size /\ Taken(k)
    BY <1>5, <1>11
  <2>2. k > o /\ size = p
    BY <1>1, <2>1
  <2>3. PICK page \in 0..n : o = page * p
    BY <1>1, <1>6, <2>2
  <2>4. PICK j \in 1..n : j > o /\ Taken(j) /\ j <= o + p
    BY <1>2, <2>1, <2>2, <2>3
  <2>5. c[j] \in Accepted(i)
    BY <1>1, <2>2, <2>4
  <2>6. QED BY <2>5
<1>12. ASSUME NEW x \in Accepted(i) PROVE x \in Items /\ Owner[x] = i
  <2>1. PICK k \in 1..n : x = c[k]
    BY <1>1
  <2>2. world \in Worlds /\ x \in InSeq(world.catalogue[i])
    BY <1>1, <2>1 DEF OrderInv, InSeq, c, Catalogue
  <2>3. QED BY <1>1, <2>1, <2>2, WorldsAssumption
<1>13. QED BY <1>7, <1>8, <1>9, <1>10, <1>11, <1>12

\* A round asks every indexer which ran dry and may have more, and gets something from it.
LEMMA QueryRoundOrder ==
    ASSUME IInv, OrderInv, Orderly(world), NEW outcome \in [Indexers -> {"ok", "failed", "cancelled"}],
           QueryRound(outcome)
    PROVE  OrderInv'
<1> DEFINE asked == GetIndexersToSearch
           ok    == {i \in asked : outcome[i] = "ok"}
<1>1. SUFFICES ASSUME Source = "API" PROVE OrderInv'
  BY DEF OrderInv, Source, QueryRound
<1>2. /\ loaded' = loaded \cup UNION {Accepted(i) : i \in ok}
      /\ pc' = "group" /\ UNCHANGED <<world, popped, merged, request>>
  BY DEF QueryRound
<1>3. \A i \in Indexers : i \in asked <=>
          /\ queries[i] < MaxQueries
          /\ queries[i] = 0 \/ (last[i].more /\ last[i].ok /\ ~ IsMoreResultsInCache(i))
  <2>1. QueryCap = MaxQueries
    BY <1>1 DEF QueryCap, UsesLoadAllQueryCap, OrderInv
  <2>2. \A i \in Indexers : queries[i] < MaxQueries => queries[i] < MaxQueriesLoadAll
    BY BoundsAssumption DEF IInv, EntryTyping
  <2>3. QED BY <2>1, <2>2 DEF GetIndexersToSearch, IsMoreResultsAvailable, IsLastSuccessful
<1>4. ASSUME NEW i \in ok
      PROVE  i \in Indexers /\ queries'[i] = queries[i] + 1 /\ last'[i] = PageResult(i, GetNextOffset(i))
  BY DEF QueryRound, GetIndexersToSearch
<1>5. ASSUME NEW i \in asked \ ok PROVE Future(i)' = {} /\ AtPage(i)'
  <2>1. i \in Indexers /\ outcome[i] # "cancelled" /\ queries[i] \in Nat
    BY <1>1 DEF QueryRound, GetIndexersToSearch, IInv, EntryTyping
  <2>2. queries'[i] = queries[i] + 1 /\ last'[i] = FailedResult
    BY <2>1 DEF QueryRound
  <2>3. queries'[i] # 0 /\ ~ last'[i].ok
    BY <2>1, <2>2 DEF FailedResult
  <2>4. QED BY <2>3 DEF Future, AtPage
<1>6. ASSUME NEW i \in Indexers \ asked PROVE Future(i)' = Future(i) /\ AtPage(i)'
  <2>1. queries'[i] = queries[i] /\ last'[i] = last[i]
    BY DEF QueryRound
  <2>2. Catalogue(i)' = Catalogue(i) /\ GetNextOffset(i)' = GetNextOffset(i) /\ world' = world
    BY <1>2, <2>1 DEF Catalogue, GetNextOffset
  <2>3. QED BY <1>1, <2>1, <2>2 DEF Future, AtPage, OrderInv, Behind
<1> HIDE DEF asked, ok
<1>7. asked \subseteq Indexers /\ ok \subseteq asked
  BY DEF asked, ok, GetIndexersToSearch
<1>8. ASSUME NEW i \in ok
      PROVE  /\ AtPage(i)'
             /\ Accepted(i) \subseteq Future(i) /\ Future(i)' \subseteq Future(i)
             /\ \A x \in Accepted(i) : \A y \in Future(i)' : x > y
             /\ Future(i)' # {} => Accepted(i) # {}
             /\ \A x \in Accepted(i) : x \in Items /\ Owner[x] = i
  <2>1. queries[i] < MaxQueries /\ (queries[i] = 0 \/ (last[i].ok /\ last[i].more))
    BY <1>3, <1>7
  <2>2. QED BY <1>1, <1>2, <1>4, <2>1, FutureAfterPage
<1>9. \A i \in Indexers : AtPage(i)' /\ Future(i)' \subseteq Future(i)
  BY <1>5, <1>6, <1>8
<1>10. NewestPopped'
  <2>1. ASSUME NEW x \in loaded', NEW y \in Future(Owner[x])' PROVE x > y
    <3>1. CASE x \in loaded
      <4>1. Owner[x] \in Indexers
        BY <3>1, ItemsAssumption DEF IInv, EntryTyping
      <4>2. QED BY <1>1, <1>9, <2>1, <3>1, <4>1 DEF OrderInv, NewestPopped
    <3>2. CASE x \notin loaded
      <4>1. PICK i \in ok : x \in Accepted(i)
        BY <1>2, <3>2
      <4>2. QED BY <1>8, <2>1, <4>1
    <3>3. QED BY <3>1, <3>2
  <2>2. ASSUME NEW x \in popped, NEW y \in loaded' \ popped PROVE x > y
    <3>1. CASE y \in loaded
      BY <1>1, <3>1, <2>2 DEF OrderInv, NewestPopped
    <3>2. CASE y \notin loaded
      <4>1. PICK i \in ok : y \in Accepted(i)
        BY <1>2, <3>2, <2>2
      <4>2. QED BY <1>1, <1>7, <1>8, <2>2, <4>1 DEF OrderInv, NewestPopped
    <3>3. QED BY <3>1, <3>2
  <2>3. ASSUME NEW x \in popped, NEW i \in Indexers, NEW y \in Future(i)' PROVE x > y
    BY <1>1, <1>9, <2>3 DEF OrderInv, NewestPopped
  <2>4. QED BY <1>2, <2>1, <2>2, <2>3 DEF NewestPopped
<1>11. ASSUME NEW i \in Indexers, Future(i)' # {} PROVE IsMoreResultsInCache(i)'
  <2>1. CASE i \in ok
    <3>1. PICK x \in Accepted(i) : x \in Future(i) /\ x \in Items /\ Owner[x] = i
      BY <1>8, <1>11, <2>1
    <3>2. x \notin popped
      <4>1. SUFFICES ASSUME x \in popped PROVE FALSE
        OBVIOUS
      <4>2. x > x
        BY <1>1, <3>1, <4>1 DEF OrderInv, NewestPopped
      <4>3. QED BY <3>1, <4>2, ItemsAssumption
    <3>3. x \in loaded' /\ popped' = popped
      BY <1>2, <2>1
    <3>4. QED BY <3>1, <3>2, <3>3 DEF IsMoreResultsInCache, Cached
  <2>2. CASE i \in asked \ ok
    BY <1>5, <1>11, <2>2
  <2>3. CASE i \notin asked
    <3>1. Future(i) # {}
      BY <1>6, <1>11, <2>3
    <3>2. IsMoreResultsInCache(i)
      BY <1>3, <2>3, <3>1 DEF Future
    <3>3. QED BY <1>2, <3>2 DEF IsMoreResultsInCache, Cached
  <2>4. QED BY <2>1, <2>2, <2>3
<1>12. NoneDry'
  BY <1>11 DEF NoneDry
<1>13. QED BY <1>1, <1>2, <1>9, <1>10, <1>12 DEF OrderInv, NewestMerged, Source

\* The newest of what waits is newer than all that may come: every indexer which has more to
\* bring has something newer in its cache.
LEMMA MergeOrder ==
    ASSUME IInv, OrderInv, MergeCachedResults
    PROVE  OrderInv'
<1>1. SUFFICES ASSUME Source = "API" PROVE OrderInv'
  BY DEF OrderInv, Source, MergeCachedResults
<1>2. PICK i \in GetIndexersWithCachedResults :
        /\ \A j \in GetIndexersWithCachedResults : Peek(i) >= Peek(j)
        /\ popped' = popped \cup {Peek(i)}
        /\ merged' = Append(merged, Peek(i)) \/ merged' = merged
        /\ pc' = IF MergeMustStop(i) THEN "endRound" ELSE "merge"
  BY DEF MergeCachedResults
<1> DEFINE x == Peek(i)
<1>3. pc = "merge" /\ UNCHANGED <<world, queries, last, loaded, request>>
  BY DEF MergeCachedResults, requestVars
<1>4. x \in loaded \ popped /\ x \in Items /\ x \in Nat
  BY <1>2, Peeked, ItemsAssumption DEF IInv
<1>5. ASSUME NEW j \in Indexers, NEW y \in Cached(j) PROVE x >= y
  <2>1. j \in GetIndexersWithCachedResults /\ y \in Items
    BY <1>5 DEF GetIndexersWithCachedResults, IsMoreResultsInCache, Cached, IInv, EntryTyping
  <2>2. Cached(j) \in SUBSET Items /\ Cached(j) # {}
    BY <1>5 DEF Cached, IInv, EntryTyping
  <2>3. Peek(j) \in Cached(j) /\ Peek(j) >= y
    BY <2>2, Newest DEF Peek
  <2>4. Peek(i) >= Peek(j) /\ Peek(i) \in Nat /\ Peek(j) \in Nat /\ y \in Nat
    BY <1>2, <1>4, <2>1, <2>2, <2>3, ItemsAssumption
  <2>5. QED BY <2>3, <2>4
<1> HIDE DEF x
<1>6. \A j \in Indexers : Future(j)' = Future(j) /\ AtPage(j)' = AtPage(j)
  BY <1>3 DEF Future, AtPage, Behind, Catalogue, GetNextOffset
<1>7. ASSUME NEW j \in Indexers, NEW y \in Future(j) PROVE x > y
  <2>1. PICK z \in Cached(j) : TRUE
    BY <1>1, <1>3, <1>7 DEF OrderInv, NoneDry, IsMoreResultsInCache
  <2>2. z > y /\ z \in Nat
    BY <1>1, <1>7, <2>1, ItemsAssumption DEF OrderInv, NewestPopped, Cached, IInv, EntryTyping
  <2>3. y \in Nat
    BY <1>7, CatalogueTyping DEF Future, Behind, IInv
  <2>4. QED BY <1>4, <1>5, <2>1, <2>2, <2>3
<1>8. ASSUME NEW y \in loaded \ popped, y # x PROVE x > y
  <2>1. y \in Items /\ y \in Nat /\ Owner[y] \in Indexers /\ y \in Cached(Owner[y])
    BY <1>8, ItemsAssumption DEF Cached, IInv, EntryTyping
  <2>2. QED BY <1>4, <1>5, <1>8, <2>1
<1>9. NewestPopped'
  <2>1. \A z \in loaded' : \A y \in Future(Owner[z])' : z > y
    <3>1. \A z \in loaded : Owner[z] \in Indexers
      BY ItemsAssumption DEF IInv, EntryTyping
    <3>2. QED BY <1>1, <1>3, <1>6, <3>1 DEF OrderInv, NewestPopped
  <2>2. popped' = popped \cup {x}
    BY <1>2 DEF x
  <2>3. \A z \in popped' : \A y \in loaded' \ popped' : z > y
    BY <1>1, <1>3, <1>8, <2>2 DEF OrderInv, NewestPopped
  <2>4. \A z \in popped' : \A j \in Indexers : \A y \in Future(j)' : z > y
    BY <1>1, <1>6, <1>7, <2>2 DEF OrderInv, NewestPopped
  <2>5. QED BY <2>1, <2>3, <2>4 DEF NewestPopped
<1>10. ASSUME pc' \in {"group", "merge"}, NEW j \in Indexers, ~ IsMoreResultsInCache(j)'
       PROVE  Future(j)' = {}
  <2>1. ~ MergeMustStop(i)
    BY <1>2, <1>10
  <2>2. popped' = popped \cup {x}
    BY <1>2 DEF x
  <2>3. CASE x \notin Cached(j)
    <3>1. ~ IsMoreResultsInCache(j)
      BY <1>3, <1>10, <2>2, <2>3 DEF IsMoreResultsInCache, Cached
    <3>2. QED BY <1>1, <1>3, <1>6, <3>1 DEF OrderInv, NoneDry
  <2>4. CASE x \in Cached(j)
    <3>1. j = i
      <4>1. Peek(i) \in Cached(i)
        <5>1. Cached(i) \in SUBSET Items /\ Cached(i) # {}
          BY <1>2 DEF GetIndexersWithCachedResults, IsMoreResultsInCache, Cached, IInv, EntryTyping
        <5>2. QED BY <5>1, Newest DEF Peek
      <4>2. QED BY <2>4, <4>1 DEF Cached, x
    <3>2. Cached(i) = {Peek(i)}
      BY <1>3, <1>10, <2>2, <2>4, <3>1 DEF IsMoreResultsInCache, Cached, x
    <3>3. ~ IsMoreResultsAvailable(i)
      BY <1>1, <2>1, <3>2 DEF MergeMustStop
    <3>4. QED BY <1>6, <3>1, <3>3 DEF IsMoreResultsAvailable, Future
  <2>5. QED BY <2>3, <2>4
<1>11. NoneDry'
  BY <1>10 DEF NoneDry
<1>12. NewestMerged'
  <2>1. CASE merged' = merged
    BY <1>1, <1>3, <2>1 DEF OrderInv, NewestMerged, Source
  <2>2. CASE merged' = Append(merged, x)
    <3>1. merged \in Seq(Items)
      BY DEF IInv, EntryTyping
    <3>2. /\ Len(merged) \in Nat /\ DOMAIN merged = 1..Len(merged)
          /\ DOMAIN merged' = 1..(Len(merged) + 1)
          /\ \A j \in 1..Len(merged) : merged'[j] = merged[j]
          /\ merged'[Len(merged) + 1] = x
      BY <1>4, <2>2, <3>1, Appended
    <3>3. \A j \in 1..Len(merged) : merged[j] > x
      <4>1. \A j \in 1..Len(merged) : merged[j] \in popped
        BY <3>2 DEF IInv, MergedOnce, InSeq
      <4>2. QED BY <1>1, <1>4, <4>1 DEF OrderInv, NewestPopped
    <3>4. \A j, k \in 1..(Len(merged) + 1) : j < k => merged'[j] > merged'[k]
      BY <1>1, <3>2, <3>3 DEF OrderInv, NewestMerged
    <3>5. QED BY <3>2, <3>4 DEF NewestMerged
  <2>3. QED BY <1>2, <2>1, <2>2 DEF x
<1>13. QED BY <1>1, <1>3, <1>6, <1>9, <1>11, <1>12 DEF OrderInv, Source

-----------------------------------------------------------------------------

\* A client which was given nothing was given nothing out of order.
LEMMA InitOrder == Init => OrderInv
<1> SUFFICES ASSUME Init, Source = "API" PROVE OrderInv
  BY DEF OrderInv
<1>1. IInv
  BY InitIInv
<1>2. ASSUME NEW i \in Indexers PROVE AtPage(i)
  <2>1. GetNextOffset(i) = 0 /\ Len(Catalogue(i)) \in Nat /\ PageSize[i] \in Nat
    BY <1>1, CatalogueTyping, ItemsAssumption DEF Init, GetNextOffset, IInv
  <2>2. 0 \in 0..Len(Catalogue(i)) /\ 0 = 0 * PageSize[i]
    BY <2>1
  <2>3. QED BY <2>1, <2>2 DEF AtPage
<1>3. NewestPopped /\ NoneDry /\ NewestMerged
  BY DEF Init, NewestPopped, NoneDry, NewestMerged
<1>4. QED BY <1>2, <1>3 DEF Init, OrderInv

\* Every step keeps the order, and what may still come behind it.
LEMMA NextOrder ==
    ASSUME IInv, OrderInv, Orderly(world), [Next]_vars
    PROVE  OrderInv'
<1> USE DEF entryVars, requestVars
<1>1. ASSUME StartSearch PROVE OrderInv'
  BY <1>1, OrderOfNewEntry DEF StartSearch, BeginRequest
<1>2. ASSUME NEW loadAll \in BOOLEAN, ContinueSearch(loadAll) PROVE OrderInv'
  <2>1. /\ pc' = "loop" /\ UNCHANGED world
        /\ Source = "API" => ~ request'.loadAll
    BY <1>2 DEF ContinueSearch, BeginRequest
  <2>2. CASE inCache
    <3>1. UNCHANGED <<queries, last, loaded, popped, merged>>
      BY <1>2, <2>2 DEF ContinueSearch
    <3>2. QED BY <2>1, <3>1, OrderKept
  <2>3. CASE ~ inCache
    <3>1. NewEntry
      BY <1>2, <2>3 DEF ContinueSearch
    <3>2. QED BY <2>1, <3>1, OrderOfNewEntry
  <2>4. QED BY <2>2, <2>3
<1>3. ASSUME NEW i \in Indexers, Upload(i) PROVE OrderInv'
  BY <1>3 DEF Upload, Orderly
<1>4. ASSUME NEW outcome \in [Indexers -> {"ok", "failed", "cancelled"}], QueryRound(outcome) PROVE OrderInv'
  BY <1>4, QueryRoundOrder
<1>5. ASSUME MergeCachedResults PROVE OrderInv'
  BY <1>5, MergeOrder
<1>6. CASE Expire \/ Shortcut \/ LoopStop \/ MergeDone \/ Respond \/ UNCHANGED vars
  BY <1>6, OrderKept DEF Expire, Shortcut, LoopStop, MergeDone, Respond, vars
<1>7. CASE AddToGroups \/ AddToGroupsDone \/ EndRound \/ \E saved \in SUBSET Indexers : EndRoundFails(saved)
  BY <1>7, OrderKept DEF AddToGroups, AddToGroupsDone, EndRound, EndRoundFails
<1>8. QED BY <1>1, <1>2, <1>3, <1>4, <1>5, <1>6, <1>7 DEF Next, SearchStep

-----------------------------------------------------------------------------
(* Sorting, and what the web UI has not seen yet                            *)

-----------------------------------------------------------------------------
(* What is returned                                                        *)

\* A relation in which any two elements can be compared, antisymmetric and transitive.
IsTotalOrder(R, K) ==
    /\ \A j, k \in K : <<j, k>> \in R \/ <<k, j>> \in R
    /\ \A j, k \in K : <<j, k>> \in R /\ <<k, j>> \in R => j = k
    /\ \A j, k, l \in K : <<j, k>> \in R /\ <<k, l>> \in R => <<j, l>> \in R

\* How many elements come before one, itself included.
Rank(R, K, k) == Cardinality({j \in K : <<j, k>> \in R})

\* In a finite set with a total order the ranks are 1 to the number of elements, each taken once.
LEMMA Ranks ==
    ASSUME NEW K, IsFiniteSet(K), NEW R, IsTotalOrder(R, K)
    PROVE  /\ Cardinality(K) \in Nat
           /\ \A k \in K : Rank(R, K, k) \in 1..Cardinality(K)
           /\ \A j, k \in K : Rank(R, K, j) = Rank(R, K, k) => j = k
           /\ \A r \in 1..Cardinality(K) : \E k \in K : Rank(R, K, k) = r
<1> DEFINE rank(k) == Cardinality({j \in K : <<j, k>> \in R})
           m == Cardinality(K)
<1>1. m \in Nat
  BY FS_CardinalityType
<1>2. ASSUME NEW k \in K
      PROVE  rank(k) \in 1..m /\ IsFiniteSet({j \in K : <<j, k>> \in R})
  <2> DEFINE T == {j \in K : <<j, k>> \in R}
  <2>1. T \in SUBSET K /\ k \in T
    BY DEF IsTotalOrder
  <2> HIDE DEF T
  <2>2. IsFiniteSet(T) /\ Cardinality(T) <= m /\ Cardinality(T) \in Nat
    BY <1>1, <2>1, FS_Subset, FS_CardinalityType
  <2>3. Cardinality(T) # 0
    BY <2>1, <2>2, FS_EmptySet
  <2>4. Cardinality(T) \in 1..m
    BY <1>1, <2>2, <2>3
  <2>5. QED BY <2>2, <2>4 DEF T
<1>3. ASSUME NEW j \in K, NEW k \in K, <<j, k>> \in R, j # k
      PROVE  rank(j) < rank(k)
  <2> DEFINE T == {l \in K : <<l, k>> \in R}
             S == {l \in K : <<l, j>> \in R}
  <2>1. S \in SUBSET T /\ k \in T /\ k \notin S
    <3>1. \A l \in K : <<l, j>> \in R => <<l, k>> \in R
      BY <1>3 DEF IsTotalOrder
    <3>2. S \subseteq T
      BY <3>1
    <3>3. k \in T /\ k \notin S
      BY <1>3 DEF IsTotalOrder
    <3>4. QED BY <3>2, <3>3
  <2>2. IsFiniteSet(T) /\ Cardinality(T) \in Nat /\ Cardinality(S) \in Nat
    BY <1>2
  <2> HIDE DEF T, S
  <2>3. Cardinality(S) <= Cardinality(T) /\ Cardinality(S) # Cardinality(T)
    BY <2>1, <2>2, FS_Subset
  <2>4. Cardinality(S) < Cardinality(T)
    BY <2>2, <2>3
  <2>5. QED BY <2>4 DEF T, S
<1> DEFINE f == [k \in K |-> rank(k)]
<1> HIDE DEF rank
<1>4. ASSUME NEW j \in K, NEW k \in K, rank(j) = rank(k) PROVE j = k
  <2>1. rank(j) \in 1..m /\ rank(k) \in 1..m
    BY <1>2
  <2>2. ~ (rank(j) < rank(k)) /\ ~ (rank(k) < rank(j))
    BY <1>1, <1>4, <2>1
  <2>3. QED BY <1>3, <2>2 DEF IsTotalOrder
<1>5. f \in Injection(K, 1..m)
  <2>1. f \in [K -> 1..m]
    BY <1>2
  <2>2. \A k \in K : f[k] = rank(k)
    OBVIOUS
  <2> HIDE DEF f
  <2>3. QED BY <1>4, <2>1, <2>2 DEF Injection, IsInjective
<1>6. IsFiniteSet(1..m) /\ Cardinality(1..m) = m
  BY <1>1, FS_Interval
<1>7. f \in Surjection(K, 1..m)
  <2> HIDE DEF f, m
  <2>1. Cardinality(K) = Cardinality(1..m)
    BY <1>6 DEF m
  <2>2. QED BY <1>5, <1>6, <2>1, FS_Injection
<1>8. \A r \in 1..m : \E k \in K : rank(k) = r
  BY <1>7 DEF Surjection
<1>9. QED BY <1>1, <1>2, <1>4, <1>8 DEF rank, Rank

\* A list with as many entries as its length, each of them a result.
LEMMA IsList ==
    ASSUME NEW n \in Nat, NEW f \in [1..n -> Items]
    PROVE  f \in Seq(Items) /\ Len(f) = n /\ DOMAIN f = 1..n
  OBVIOUS

\* Sorting newest first gives a list of the same results.
LEMMA Sorted ==
    ASSUME NEW s \in Seq(Items)
    PROVE  SortedNewestFirst(s) \in Seq(Items) /\ Len(SortedNewestFirst(s)) = Len(s)
<1> DEFINE n == Len(s)
           K == 1..n
           Before(j, k) == s[j] > s[k] \/ (s[j] = s[k] /\ j <= k)
           place(k) == Cardinality({j \in K : Before(j, k)})
<1>1. n \in Nat /\ DOMAIN s = K /\ s \in [K -> Items] /\ \A k \in K : s[k] \in Nat
  <2>1. n \in Nat /\ DOMAIN s = K /\ s \in [K -> Items]
    BY LenProperties
  <2> HIDE DEF n
  <2>2. QED BY <2>1, ItemsAssumption
<1>2. SortedNewestFirst(s) = [r \in K |-> s[CHOOSE k \in K : place(k) = r]]
  BY <1>1 DEF SortedNewestFirst
<1> HIDE DEF n
<1>3. \A r \in K : \E k \in K : place(k) = r
  <2> DEFINE R == {p \in K \X K : Before(p[1], p[2])}
  <2>1. \A j, k \in K : <<j, k>> \in R <=> Before(j, k)
    OBVIOUS
  <2> HIDE DEF R
  <2>2. \A k \in K : {j \in K : Before(j, k)} = {j \in K : <<j, k>> \in R}
    BY <2>1
  <2>3. IsFiniteSet(K) /\ Cardinality(K) = n
    BY <1>1, FS_Interval
  <2>4. \A k \in K : k \in Int
    OBVIOUS
  <2> HIDE DEF K
  <2>5. ASSUME NEW j \in K, NEW k \in K PROVE <<j, k>> \in R \/ <<k, j>> \in R
    <3>1. Before(j, k) \/ Before(k, j)
      BY <1>1, <2>4
    <3>2. QED BY <2>1, <3>1
  <2>6. \A j, k \in K : <<j, k>> \in R /\ <<k, j>> \in R => j = k
    BY <1>1, <2>1, <2>4
  <2>7. \A j, k, l \in K : <<j, k>> \in R /\ <<k, l>> \in R => <<j, l>> \in R
    <3>1. SUFFICES ASSUME NEW j \in K, NEW k \in K, NEW l \in K, Before(j, k), Before(k, l)
                   PROVE  Before(j, l)
      BY <2>1
    <3>2. s[j] \in Nat /\ s[k] \in Nat /\ s[l] \in Nat /\ j \in Int /\ k \in Int /\ l \in Int
      BY <1>1, <2>4
    <3>3. QED BY <3>1, <3>2
  <2>8. IsTotalOrder(R, K)
    BY <2>5, <2>6, <2>7 DEF IsTotalOrder
  <2>9. \A r \in 1..Cardinality(K) : \E k \in K : Rank(R, K, k) = r
    BY <2>3, <2>8, Ranks
  <2>10. \A k \in K : place(k) = Rank(R, K, k)
    BY <2>2 DEF Rank
  <2>11. 1..Cardinality(K) = K
    BY <2>3 DEF K
  <2> HIDE DEF place
  <2>12. QED BY <2>9, <2>10, <2>11
<1> HIDE DEF place
<1>4. [r \in K |-> s[CHOOSE k \in K : place(k) = r]] \in [K -> Items]
  BY <1>1, <1>3
<1>5. QED BY <1>1, <1>2, <1>4, IsList DEF n

\* Sorting newest first changes nothing of what is in this order.
LEMMA SortedAlready ==
    ASSUME NEW s \in Seq(Items), \A j, k \in DOMAIN s : j < k => s[j] > s[k]
    PROVE  SortedNewestFirst(s) = s
<1> DEFINE n == Len(s)
           place(k) == Cardinality({j \in 1..n : s[j] > s[k] \/ (s[j] = s[k] /\ j <= k)})
<1>1. n \in Nat /\ DOMAIN s = 1..n /\ s \in [1..n -> Items] /\ \A k \in 1..n : s[k] \in Nat
  <2>1. n \in Nat /\ DOMAIN s = 1..n /\ s \in [1..n -> Items]
    BY LenProperties
  <2> HIDE DEF n
  <2>2. QED BY <2>1, ItemsAssumption
<1> HIDE DEF n
<1>2. ASSUME NEW k \in 1..n PROVE place(k) = k
  <2>1. ASSUME NEW j \in 1..n PROVE (s[j] > s[k] \/ (s[j] = s[k] /\ j <= k)) <=> j <= k
    <3>1. CASE j < k
      BY <1>1, <3>1
    <3>2. CASE j = k
      BY <3>2
    <3>3. CASE k < j
      BY <1>1, <3>3
    <3>4. QED BY <3>1, <3>2, <3>3
  <2>2. {j \in 1..n : s[j] > s[k] \/ (s[j] = s[k] /\ j <= k)} = 1..k
    BY <1>1, <2>1
  <2>3. Cardinality(1..k) = k
    BY FS_Interval
  <2>4. QED BY <2>2, <2>3
<1>3. SortedNewestFirst(s) = [r \in 1..n |-> s[CHOOSE k \in 1..n : place(k) = r]]
  BY <1>1 DEF SortedNewestFirst
<1> HIDE DEF place
<1>4. \A r \in 1..n : (CHOOSE k \in 1..n : place(k) = r) = r
  BY <1>2
<1>5. QED BY <1>1, <1>3, <1>4

\* What was not shown is taken over completely, in its order and once.
LEMMA UnseenResults ==
    ASSUME NEW s \in Seq(Items)
    PROVE  /\ Unseen(s) \in Seq(Items)
           /\ NoDuplicates(s) => NoDuplicates(Unseen(s))
           /\ InSeq(Unseen(s)) = InSeq(s) \ InSeq(shown)
<1> DEFINE n == Len(s)
           new == {k \in 1..n : s[k] \notin InSeq(shown)}
           rank(k) == Cardinality({j \in new : j <= k})
           m == Cardinality(new)
           at(r) == CHOOSE k \in new : rank(k) = r
<1>1. n \in Nat /\ DOMAIN s = 1..n /\ s \in [1..n -> Items]
  BY LenProperties
<1>2. Unseen(s) = [r \in 1..m |-> s[at(r)]]
  BY <1>1 DEF Unseen
<1> HIDE DEF n
<1>3. new \in SUBSET (1..n)
  OBVIOUS
<1>4. /\ m \in Nat
      /\ \A k \in new : rank(k) \in 1..m
      /\ \A r \in 1..m : \E k \in new : rank(k) = r
      /\ \A j, k \in new : rank(j) = rank(k) => j = k
  <2> DEFINE R == {p \in new \X new : p[1] <= p[2]}
  <2>1. \A j, k \in new : <<j, k>> \in R <=> j <= k
    OBVIOUS
  <2>2. \A j \in new : j \in Int
    OBVIOUS
  <2> HIDE DEF R
  <2>3. \A k \in new : {j \in new : j <= k} = {j \in new : <<j, k>> \in R}
    BY <2>1
  <2>4. IsFiniteSet(new)
    BY <1>1, <1>3, FS_Interval, FS_Subset
  <2> HIDE DEF new
  <2>5. ASSUME NEW j \in new, NEW k \in new PROVE <<j, k>> \in R \/ <<k, j>> \in R
    <3>1. j <= k \/ k <= j
      BY <2>2
    <3>2. QED BY <2>1, <3>1
  <2>6. \A j, k \in new : <<j, k>> \in R /\ <<k, j>> \in R => j = k
    BY <2>1, <2>2
  <2>7. \A j, k, l \in new : <<j, k>> \in R /\ <<k, l>> \in R => <<j, l>> \in R
    BY <2>1, <2>2
  <2> HIDE DEF new
  <2>8. IsTotalOrder(R, new)
    BY <2>5, <2>6, <2>7 DEF IsTotalOrder
  <2>10. \A k \in new : rank(k) = Rank(R, new, k)
    BY <2>3 DEF Rank
  <2> HIDE DEF rank
  <2>11. QED BY <2>4, <2>8, <2>10, Ranks
<1> HIDE DEF rank, m
<1>5. \A r \in 1..m : at(r) \in new /\ rank(at(r)) = r
  BY <1>4
<1>6. \A k \in new : at(rank(k)) = k
  BY <1>4, <1>5
<1> HIDE DEF at
<1>7. [r \in 1..m |-> s[at(r)]] \in [1..m -> Items]
  BY <1>1, <1>5
<1>8. Unseen(s) \in Seq(Items) /\ DOMAIN Unseen(s) = 1..m
  BY <1>2, <1>4, <1>7, IsList
<1>9. ASSUME NoDuplicates(s) PROVE NoDuplicates(Unseen(s))
  <2>1. ASSUME NEW j \in 1..m, NEW k \in 1..m, s[at(j)] = s[at(k)] PROVE j = k
    <3>1. at(j) = at(k)
      BY <1>1, <1>5, <1>9, <2>1 DEF NoDuplicates
    <3>2. QED BY <1>5, <3>1
  <2>2. QED BY <1>2, <1>8, <2>1 DEF NoDuplicates
<1>10. InSeq(Unseen(s)) = InSeq(s) \ InSeq(shown)
  <2>1. InSeq(Unseen(s)) = {s[at(r)] : r \in 1..m}
    BY <1>2, <1>8 DEF InSeq
  <2>2. InSeq(s) \ InSeq(shown) = {s[k] : k \in new}
    BY <1>1 DEF InSeq
  <2>3. {s[at(r)] : r \in 1..m} \subseteq {s[k] : k \in new}
    BY <1>5
  <2>4. {s[k] : k \in new} \subseteq {s[at(r)] : r \in 1..m}
    <3>1. ASSUME NEW k \in new PROVE \E r \in 1..m : s[k] = s[at(r)]
      BY <1>4, <1>6
    <3>2. QED BY <3>1
  <2>5. QED BY <2>1, <2>2, <2>3, <2>4
<1>11. QED BY <1>8, <1>9, <1>10

-----------------------------------------------------------------------------
(* The typing of the request and of the caller                              *)

\* What Respond returns.
LEMMA ResponseTyping ==
    ASSUME EntryTyping, request \in [offset : Nat, loadAll : BOOLEAN]
    PROVE  Response \in Seq(Items)
<1> DEFINE ordered == Ordered
           behind  == IF Source = "INTERNAL" THEN Len(merged) ELSE request.offset + Limit
           end     == IF behind > Len(merged) THEN Len(merged) ELSE behind
<1>1. merged \in Seq(Items) /\ Len(merged) \in Nat
  BY LenProperties DEF EntryTyping
<1>2. ordered \in Seq(Items) /\ Len(ordered) = Len(merged)
  BY <1>1, Sorted DEF Ordered
<1>3. end \in Int /\ end <= Len(merged) /\ request.offset + 1 \in Int /\ request.offset + 1 >= 1
  BY <1>1, BoundsAssumption
<1> HIDE DEF ordered, end
<1>4. \A k \in (request.offset + 1)..end : ordered[k] \in Items
  <2>1. \A k \in (request.offset + 1)..end : k \in 1..Len(ordered)
    BY <1>1, <1>2, <1>3
  <2>2. QED BY <1>2, <2>1, ElementOfSeq
<1>5. SubSeq(ordered, request.offset + 1, end) \in Seq(Items)
  BY <1>3, <1>4, SubSeqProperties
<1>6. Response = IF request.loadAll THEN ordered ELSE SubSeq(ordered, request.offset + 1, end)
  BY DEF Response, ordered, end
<1>7. QED BY <1>2, <1>5, <1>6

\* The typing of what the entry's invariant does not mention.
CallerTyping ==
    /\ inCache \in BOOLEAN
    /\ represented \in SUBSET Nat
    /\ persisted \in [Indexers -> Nat]
    /\ pc \in {"idle", "loop", "group", "merge", "endRound", "respond"}
    /\ request \in [offset : Nat, loadAll : BOOLEAN]
    /\ shortcut \in BOOLEAN
    /\ shown \in Seq(Items)
    /\ position \in Nat
    /\ exhausted \in BOOLEAN
    /\ disturbed \in BOOLEAN
    /\ rebuilt \in BOOLEAN
    /\ resorted \in BOOLEAN
    /\ requests \in 0..MaxRequests
    /\ failures \in 0..MaxFailures
    /\ dbErrors \in 0..MaxDbErrors

\* The typing holds initially.
LEMMA InitCallerTyping == Init => CallerTyping
<1>1. 0 \in 0..MaxRequests /\ 0 \in 0..MaxFailures /\ 0 \in 0..MaxDbErrors
  BY BoundsAssumption
<1>2. <<>> \in Seq(Items)
  BY EmptySeq
<1> SUFFICES ASSUME Init PROVE CallerTyping
  OBVIOUS
<1>3. request \in [offset : Nat, loadAll : BOOLEAN] /\ persisted \in [Indexers -> Nat]
  BY DEF Init
<1>4. /\ requests \in 0..MaxRequests /\ failures \in 0..MaxFailures /\ dbErrors \in 0..MaxDbErrors
      /\ shown \in Seq(Items)
  BY <1>1, <1>2 DEF Init
<1>5. QED BY <1>3, <1>4 DEF Init, CallerTyping

\* Every step keeps the typing of what the entry does not hold.
LEMMA NextCallerTyping ==
    ASSUME IInv, CallerTyping, [Next]_vars
    PROVE  CallerTyping'
<1> USE DEF entryVars, requestVars, callerVars, historyVars
<1>1. EntryTyping
  BY DEF IInv
<1>2. /\ requests < MaxRequests => requests + 1 \in 0..MaxRequests
      /\ dbErrors < MaxDbErrors => dbErrors + 1 \in 0..MaxDbErrors
  BY BoundsAssumption DEF CallerTyping
<1>3. ASSUME StartSearch PROVE CallerTyping'
  <2>1. requests' \in 0..MaxRequests /\ request' \in [offset : Nat, loadAll : BOOLEAN] /\ shown' \in Seq(Items)
    BY <1>2, <1>3, EmptySeq DEF StartSearch, BeginRequest
  <2>2. QED BY <1>3, <2>1 DEF StartSearch, BeginRequest, NewEntry, CallerTyping
<1>4. ASSUME NEW loadAll \in BOOLEAN, ContinueSearch(loadAll) PROVE CallerTyping'
  <2>1. /\ request' \in [offset : Nat, loadAll : BOOLEAN] /\ requests' \in 0..MaxRequests
        /\ shortcut' = FALSE /\ pc' = "loop"
    <3>1. BeginRequest(position, loadAll) /\ position \in Nat
      BY <1>4 DEF ContinueSearch, CallerTyping
    <3>2. QED BY <1>2, <3>1 DEF BeginRequest
  <2>2. UNCHANGED <<callerVars, disturbed, resorted, failures, dbErrors>>
    BY <1>4 DEF ContinueSearch
  <2>3. inCache' \in BOOLEAN /\ represented' \in SUBSET Nat /\ persisted' \in [Indexers -> Nat] /\ rebuilt' \in BOOLEAN
    <3>1. CASE inCache
      BY <1>4, <3>1 DEF ContinueSearch, CallerTyping
    <3>2. CASE ~ inCache
      <4>1. NewEntry /\ rebuilt' = TRUE
        BY <1>4, <3>2 DEF ContinueSearch
      <4>2. QED BY <4>1 DEF NewEntry
    <3>3. QED BY <3>1, <3>2
  <2>4. QED BY <2>1, <2>2, <2>3 DEF CallerTyping
<1>5. ASSUME NEW outcome \in [Indexers -> {"ok", "failed", "cancelled"}], QueryRound(outcome) PROVE CallerTyping'
  <2> DEFINE lost == GetIndexersToSearch \ {i \in GetIndexersToSearch : outcome[i] = "ok"}
  <2>1. failures' = failures + Cardinality(lost) /\ failures + Cardinality(lost) <= MaxFailures
    BY <1>5 DEF QueryRound
  <2>2. lost \in SUBSET Indexers
    BY DEF GetIndexersToSearch
  <2> HIDE DEF lost
  <2>3. Cardinality(lost) \in Nat
    BY <2>2, ItemsAssumption, FS_Subset, FS_CardinalityType
  <2>4. failures' \in 0..MaxFailures
    BY <2>1, <2>3, BoundsAssumption DEF CallerTyping
  <2>5. shortcut' \in BOOLEAN /\ disturbed' \in BOOLEAN /\ pc' = "group"
    BY <1>5 DEF QueryRound, CallerTyping
  <2>6. QED BY <1>5, <2>4, <2>5 DEF QueryRound, CallerTyping
<1>6. ASSUME MergeCachedResults PROVE CallerTyping'
  <2>1. PICK i \in GetIndexersWithCachedResults :
          /\ represented' = represented \/ represented' = represented \cup {groupOf[Peek(i)]}
          /\ pc' \in {"endRound", "merge"}
    BY <1>6 DEF MergeCachedResults
  <2>2. groupOf[Peek(i)] \in Nat
    BY <1>1, <2>1, Peeked DEF EntryTyping
  <2>3. QED BY <1>6, <2>1, <2>2 DEF MergeCachedResults, CallerTyping
<1>7. ASSUME EndRound PROVE CallerTyping'
  BY <1>1, <1>7 DEF EndRound, CallerTyping, EntryTyping
<1>8. ASSUME NEW saved \in SUBSET Indexers, EndRoundFails(saved) PROVE CallerTyping'
  BY <1>1, <1>2, <1>8 DEF EndRoundFails, CallerTyping, EntryTyping
<1>9. ASSUME Respond PROVE CallerTyping'
  <2>1. Response \in Seq(Items) /\ Len(Response) \in Nat
    BY <1>1, ResponseTyping, LenProperties DEF CallerTyping
  <2>2. request.loadAll => Unseen(Response) \in Seq(Items)
    BY <2>1, UnseenResults
  <2>3. QED BY <1>9, <2>1, <2>2, ConcatProperties DEF Respond, CallerTyping
<1>10. CASE Expire \/ (\E i \in Indexers : Upload(i)) \/ Shortcut \/ UNCHANGED vars
  BY <1>10 DEF Expire, Upload, Shortcut, vars, CallerTyping
<1>11. CASE LoopStop \/ AddToGroups \/ AddToGroupsDone \/ MergeDone
  BY <1>11 DEF LoopStop, AddToGroups, AddToGroupsDone, MergeDone, CallerTyping
<1>12. QED BY <1>3, <1>4, <1>5, <1>6, <1>7, <1>8, <1>9, <1>10, <1>11 DEF Next, SearchStep

-----------------------------------------------------------------------------
(* A search which is done again gives the same                             *)

\* What decides how a search goes on, apart from its request: the state of the entry.
Entry == [phase       |-> IF pc \in {"group", "merge"} THEN pc ELSE "loop",
          fresh       |-> IF pc = "group" THEN round.fresh ELSE {},
          queries     |-> queries,
          last        |-> last,
          loaded      |-> loaded,
          popped      |-> popped,
          merged      |-> merged,
          groupOf     |-> groupOf,
          nextGroup   |-> nextGroup,
          represented |-> represented]

Entries == [phase       : {"loop", "group", "merge"},
            fresh       : SUBSET Items,
            queries     : [Indexers -> Nat],
            last        : [Indexers -> SearchResultMeta],
            loaded      : SUBSET Items,
            popped      : SUBSET Items,
            merged      : Seq(Items),
            groupOf     : [Items -> Nat],
            nextGroup   : Nat \ {0},
            represented : SUBSET Nat]

EmptyEntry == [phase       |-> "loop",
               fresh       |-> {},
               queries     |-> [i \in Indexers |-> 0],
               last        |-> [i \in Indexers |-> FailedResult],
               loaded      |-> {},
               popped      |-> {},
               merged      |-> <<>>,
               groupOf     |-> [x \in Items |-> 0],
               nextGroup   |-> 1,
               represented |-> {}]

\* The operators of the search for a world and an entry which are not the current ones.
At(w, e) == INSTANCE SearchPaging WITH
    world <- w, queries <- e.queries, last <- e.last, loaded <- e.loaded, popped <- e.popped,
    merged <- e.merged, groupOf <- e.groupOf, nextGroup <- e.nextGroup, represented <- e.represented

NewestOf(S) == CHOOSE x \in S : \A y \in S : x >= y
OldestOf(S) == CHOOSE g \in S : \A h \in S : g <= h

\* The indexers which are asked unless a web UI's search reached its cap.
Asked(w, e) ==
    {i \in Indexers : /\ w.source = "API" => e.queries[i] < MaxQueries
                      /\ \/ e.queries[i] = 0
                         \/ /\ At(w, e)!IsMoreResultsAvailable(i)
                            /\ At(w, e)!IsLastSuccessful(i)
                            /\ ~ At(w, e)!IsMoreResultsInCache(i)}

\* Every step of an undisturbed search is determined by the entry.
AfterLoop(w, e) ==
    LET asked == Asked(w, e)
        items == UNION {At(w, e)!Accepted(i) : i \in asked}
    IN  [phase       |-> "group",
         fresh       |-> {x \in items : e.groupOf[x] = 0},
         queries     |-> [i \in Indexers |-> IF i \in asked THEN e.queries[i] + 1 ELSE e.queries[i]],
         last        |-> [i \in Indexers |-> IF i \in asked
                                             THEN At(w, e)!PageResult(i, At(w, e)!GetNextOffset(i))
                                             ELSE e.last[i]],
         loaded      |-> e.loaded \cup items,
         popped      |-> e.popped,
         merged      |-> e.merged,
         groupOf     |-> e.groupOf,
         nextGroup   |-> e.nextGroup,
         represented |-> e.represented]

AfterGroup(w, e) ==
    LET x     == NewestOf(e.fresh)
        found == At(w, e)!MatchingGroups(x)
        g     == IF found = {} THEN e.nextGroup ELSE OldestOf(found)
    IN  IF e.fresh = {}
        THEN [e EXCEPT !.phase = "merge"]
        ELSE [e EXCEPT !.fresh     = e.fresh \ {x},
                       !.groupOf   = [e.groupOf EXCEPT ![x] = g],
                       !.nextGroup = IF found = {} THEN e.nextGroup + 1 ELSE e.nextGroup]

AfterMerge(w, e) ==
    LET x     == NewestOf(e.loaded \ e.popped)
        added == w.source # "API" \/ At(w, e)!ShouldBeAdded(x)
    IN  IF e.loaded \ e.popped = {}
        THEN [e EXCEPT !.phase = "loop"]
        ELSE [e EXCEPT !.phase       = IF At(w, e)!MergeMustStop(Owner[x]) THEN "loop" ELSE "merge",
                       !.popped      = e.popped \cup {x},
                       !.merged      = IF added THEN Append(e.merged, x) ELSE e.merged,
                       !.represented = IF added /\ w.source = "API" THEN e.represented \cup {e.groupOf[x]}
                                                                   ELSE e.represented]

After(w, e) == CASE e.phase = "loop"  -> AfterLoop(w, e)
                 [] e.phase = "group" -> AfterGroup(w, e)
                 [] e.phase = "merge" -> AfterMerge(w, e)

\* The entries an undisturbed search comes by.
Reach(w, e) ==
    \E n \in Nat : \E g \in [0..n -> Entries] :
        /\ g[0] = EmptyEntry /\ g[n] = e
        /\ \A k \in 0..(n - 1) : g[k + 1] = After(w, g[k])

Begins(s, t) == Len(s) <= Len(t) /\ \A k \in 1..Len(s) : s[k] = t[k]

-----------------------------------------------------------------------------

\* The entry of a search has the fields an entry has.
LEMMA EntryTyped ==
    ASSUME IInv, CallerTyping
    PROVE  Entry \in Entries
<1>1. /\ (IF pc \in {"group", "merge"} THEN pc ELSE "loop") \in {"loop", "group", "merge"}
      /\ (IF pc = "group" THEN round.fresh ELSE {}) \in SUBSET Items
  BY DEF IInv, EntryTyping
<1>2. QED BY <1>1 DEF IInv, EntryTyping, CallerTyping, Entry, Entries

\* So has the one a search starts with.
LEMMA EmptyEntryTyped == EmptyEntry \in Entries
<1>1. FailedResult \in SearchResultMeta /\ <<>> \in Seq(Items)
  BY EmptySeq DEF FailedResult, SearchResultMeta
<1>2. QED BY <1>1 DEF EmptyEntry, Entries

\* Every search starts with the empty entry.
LEMMA ReachEmpty == ASSUME NEW w PROVE Reach(w, EmptyEntry)
<1> DEFINE g == [k \in 0..0 |-> EmptyEntry]
<1>1. g \in [0..0 -> Entries] /\ g[0] = EmptyEntry /\ \A k \in 0..(0 - 1) : g[k + 1] = After(w, g[k])
  BY EmptyEntryTyped
<1> HIDE DEF g
<1>2. QED BY <1>1 DEF Reach

\* A step further is reached as well.
LEMMA ReachAfter ==
    ASSUME NEW w, NEW e, Reach(w, e), After(w, e) \in Entries
    PROVE  Reach(w, After(w, e))
<1>1. PICK n \in Nat : \E g \in [0..n -> Entries] :
        /\ g[0] = EmptyEntry /\ g[n] = e
        /\ \A k \in 0..(n - 1) : g[k + 1] = After(w, g[k])
  BY DEF Reach
<1>2. PICK g \in [0..n -> Entries] :
        /\ g[0] = EmptyEntry /\ g[n] = e
        /\ \A k \in 0..(n - 1) : g[k + 1] = After(w, g[k])
  BY <1>1
<1> DEFINE f == After(w, e)
           h == [k \in 0..(n + 1) |-> IF k = n + 1 THEN f ELSE g[k]]
<1> HIDE DEF f
<1>3. h \in [0..(n + 1) -> Entries]
  BY DEF f
<1>4. h[0] = EmptyEntry /\ h[n + 1] = f
  BY <1>2
<1>5. ASSUME NEW k \in 0..((n + 1) - 1) PROVE h[k + 1] = After(w, h[k])
  <2>1. k \in 0..n /\ h[k] = g[k]
    OBVIOUS
  <2>2. CASE k = n
    BY <1>2, <1>4, <2>1, <2>2 DEF f
  <2>3. CASE k # n
    <3>1. k \in 0..(n - 1) /\ h[k + 1] = g[k + 1]
      BY <2>3
    <3>2. QED BY <1>2, <2>1, <3>1
  <2>4. QED BY <2>2, <2>3
<1> HIDE DEF h
<1>6. n + 1 \in Nat
  OBVIOUS
<1>7. QED BY <1>3, <1>4, <1>5, <1>6 DEF Reach, f

\* A step leaves the merged results as they are or appends to them.
LEMMA AfterGrows ==
    ASSUME NEW w, NEW e \in Entries, After(w, e) \in Entries
    PROVE  Begins(e.merged, After(w, e).merged)
<1>1. e.merged \in Seq(Items) /\ Len(e.merged) \in Nat
  BY LenProperties DEF Entries
<1>2. ASSUME After(w, e).merged = e.merged PROVE Begins(e.merged, After(w, e).merged)
  BY <1>1, <1>2 DEF Begins
<1>3. CASE e.phase = "loop"
  <2>1. AfterLoop(w, e).merged = e.merged
    BY DEF AfterLoop, Entries
  <2>2. QED BY <1>2, <1>3, <2>1 DEF After
<1>4. CASE e.phase = "group"
  <2>1. AfterGroup(w, e).merged = e.merged
    BY DEF AfterGroup, Entries
  <2>2. QED BY <1>2, <1>4, <2>1 DEF After
<1>5. CASE e.phase = "merge"
  <2> DEFINE x == NewestOf(e.loaded \ e.popped)
  <2>1. AfterMerge(w, e).merged = e.merged
        \/ (e.loaded \ e.popped # {} /\ AfterMerge(w, e).merged = Append(e.merged, x))
    BY DEF AfterMerge, Entries
  <2>2. After(w, e) = AfterMerge(w, e)
    BY <1>5 DEF After
  <2>3. CASE e.loaded \ e.popped # {} /\ AfterMerge(w, e).merged = Append(e.merged, x)
    <3>1. e.loaded \ e.popped \in SUBSET Items
      BY DEF Entries
    <3>2. x \in Items
      <4>1. \E y \in e.loaded \ e.popped : \A z \in e.loaded \ e.popped : y >= z
        BY <2>3, <3>1, Newest
      <4>2. QED BY <3>1, <4>1 DEF NewestOf
    <3> HIDE DEF x
    <3>3. QED BY <1>1, <2>2, <2>3, <3>2, AppendProperties DEF Begins
  <2>4. QED BY <1>2, <2>1, <2>2, <2>3
<1>6. e.phase \in {"loop", "group", "merge"}
  BY DEF Entries
<1>7. QED BY <1>3, <1>4, <1>5, <1>6

\* A set of numbers has a least one.
LEMMA LeastNumber ==
    ASSUME NEW S \in SUBSET Nat, S # {}
    PROVE  \E n \in S : \A m \in S : n <= m
<1> DEFINE Less == OpToRel(<, Nat)
<1>1. IsWellFoundedOn(Less, Nat)
  BY NatLessThanWellFounded
<1>2. PICK n \in S : \A m \in S : ~ (<<m, n>> \in Less)
  <2> HIDE DEF Less
  <2>1. QED BY <1>1, WFMin
<1>3. \A m \in S : ~ (m < n)
  BY <1>2 DEF OpToRel
<1>4. \A m \in S : n <= m
  BY <1>3
<1>5. QED BY <1>4

\* A beginning of a beginning is a beginning.
LEMMA BeginsTransitive ==
    ASSUME NEW s \in Seq(Items), NEW t \in Seq(Items), NEW u \in Seq(Items), Begins(s, t), Begins(t, u)
    PROVE  Begins(s, u)
<1>1. Len(s) \in Nat /\ Len(t) \in Nat /\ Len(u) \in Nat
  BY LenProperties
<1>2. QED BY <1>1 DEF Begins

\* Of two undisturbed searches the one which did less has a part of what the other has.
LEMMA Comparable ==
    ASSUME NEW w, NEW e, NEW f, Reach(w, e), Reach(w, f)
    PROVE  /\ Begins(e.merged, f.merged) \/ Begins(f.merged, e.merged)
           /\ e \in Entries /\ f \in Entries
<1> DEFINE Run(n, g, d) == /\ g \in [0..n -> Entries] /\ g[0] = EmptyEntry /\ g[n] = d
                           /\ \A k \in 0..(n - 1) : g[k + 1] = After(w, g[k])
<1>1. \E n \in Nat : \E g : Run(n, g, e)
  BY DEF Reach
<1>2. \E n \in Nat : \E g : Run(n, g, f)
  BY DEF Reach
<1>3. ASSUME NEW p \in Nat, NEW q \in Nat, p <= q, NEW c, NEW d, NEW r, NEW s, Run(p, r, c), Run(q, s, d)
      PROVE  Begins(c.merged, d.merged)
  <2>1. ASSUME NEW k \in 0..p PROVE r[k] = s[k]
    <3> DEFINE Bad == {j \in Nat : j <= p /\ r[j] # s[j]}
    <3>1. SUFFICES ASSUME Bad # {} PROVE FALSE
      OBVIOUS
    <3>2. PICK j \in Bad : \A l \in Bad : j <= l
      <4>1. Bad \in SUBSET Nat
        OBVIOUS
      <4> HIDE DEF Bad
      <4>2. QED BY <3>1, <4>1, LeastNumber
    <3>3. j # 0
      BY <1>3
    <3>4. j - 1 \in Nat /\ j - 1 <= p /\ j - 1 \notin Bad
      BY <3>2, <3>3
    <3>5. r[j - 1] = s[j - 1]
      BY <3>4
    <3>6. j - 1 \in 0..(p - 1) /\ j - 1 \in 0..(q - 1) /\ (j - 1) + 1 = j
      BY <1>3, <3>4
    <3>7. r[j] = After(w, r[j - 1]) /\ s[j] = After(w, s[j - 1])
      BY <1>3, <3>6
    <3>8. QED BY <3>2, <3>5, <3>7
  <2>2. c = s[p] /\ c \in Entries /\ d \in Entries
    BY <1>3, <2>1
  <2>3. ASSUME NEW k \in p..q PROVE Begins(c.merged, s[k].merged)
    <3> DEFINE Bad == {j \in Nat : p <= j /\ j <= q /\ ~ Begins(c.merged, s[j].merged)}
    <3>1. SUFFICES ASSUME Bad # {} PROVE FALSE
      BY <1>3
    <3>2. PICK j \in Bad : \A l \in Bad : j <= l
      <4>1. Bad \in SUBSET Nat
        OBVIOUS
      <4> HIDE DEF Bad
      <4>2. QED BY <3>1, <4>1, LeastNumber
    <3>3. j # p
      <4>1. c.merged \in Seq(Items) /\ Len(c.merged) \in Nat
        BY <2>2, LenProperties DEF Entries
      <4>2. Begins(c.merged, c.merged)
        BY <4>1 DEF Begins
      <4>3. QED BY <2>2, <3>2, <4>2
    <3>4. j - 1 \in Nat /\ p <= j - 1 /\ j - 1 <= q /\ j - 1 \notin Bad
      BY <1>3, <3>2, <3>3
    <3>5. Begins(c.merged, s[j - 1].merged)
      BY <3>4
    <3>6. j - 1 \in 0..(q - 1) /\ (j - 1) + 1 = j /\ j \in 0..q /\ j - 1 \in 0..q
      BY <1>3, <3>2, <3>4
    <3>7. s[j] = After(w, s[j - 1]) /\ s[j] \in Entries /\ s[j - 1] \in Entries
      BY <1>3, <3>6
    <3>8. Begins(s[j - 1].merged, s[j].merged)
      BY <3>7, AfterGrows
    <3>9. c.merged \in Seq(Items) /\ s[j - 1].merged \in Seq(Items) /\ s[j].merged \in Seq(Items)
      BY <2>2, <3>7 DEF Entries
    <3>10. Begins(c.merged, s[j].merged)
      BY <3>5, <3>8, <3>9, BeginsTransitive
    <3>11. QED BY <3>2, <3>10
  <2>4. Begins(c.merged, s[q].merged)
    BY <1>3, <2>3
  <2>5. QED BY <1>3, <2>4
<1>4. e \in Entries /\ f \in Entries
  BY <1>1, <1>2
<1> HIDE DEF Run
<1>5. PICK n \in Nat : \E g : Run(n, g, e)
  BY <1>1
<1>6. PICK m \in Nat : \E g : Run(m, g, f)
  BY <1>2
<1>7. n <= m \/ m <= n
  OBVIOUS
<1>8. QED BY <1>3, <1>4, <1>5, <1>6, <1>7

\* For the current world and entry the operators are those of the search.
LEMMA SameOperators ==
    ASSUME NEW i
    PROVE  /\ At(world, Entry)!GetNextOffset(i) = GetNextOffset(i)
           /\ At(world, Entry)!Accepted(i) = Accepted(i)
           /\ \A o : At(world, Entry)!PageResult(i, o) = PageResult(i, o)
           /\ At(world, Entry)!IsMoreResultsAvailable(i) = IsMoreResultsAvailable(i)
           /\ At(world, Entry)!IsLastSuccessful(i) = IsLastSuccessful(i)
           /\ At(world, Entry)!IsMoreResultsInCache(i) = IsMoreResultsInCache(i)
           /\ At(world, Entry)!MatchingGroups(i) = MatchingGroups(i)
           /\ At(world, Entry)!ShouldBeAdded(i) = ShouldBeAdded(i)
           /\ At(world, Entry)!MergeMustStop(i) = MergeMustStop(i)
<1>1. /\ Entry.queries = queries /\ Entry.last = last /\ Entry.loaded = loaded /\ Entry.popped = popped
      /\ Entry.groupOf = groupOf /\ Entry.nextGroup = nextGroup /\ Entry.represented = represented
  BY DEF Entry
<1>2. At(world, Entry)!GetNextOffset(i) = GetNextOffset(i)
  BY <1>1 DEF At!GetNextOffset, GetNextOffset
<1>3. \A o : At(world, Entry)!PageAt(i, o) = PageAt(i, o)
  BY DEF At!PageAt, PageAt, At!Catalogue, Catalogue
<1>4. At(world, Entry)!Accepted(i) = Accepted(i)
  BY <1>2, <1>3 DEF At!Accepted, Accepted, At!InSeq, InSeq
<1>5. \A o : At(world, Entry)!PageResult(i, o) = PageResult(i, o)
  BY <1>3 DEF At!PageResult, PageResult, At!Catalogue, Catalogue
<1>6. /\ At(world, Entry)!IsMoreResultsAvailable(i) = IsMoreResultsAvailable(i)
      /\ At(world, Entry)!IsLastSuccessful(i) = IsLastSuccessful(i)
  BY <1>1 DEF At!IsMoreResultsAvailable, IsMoreResultsAvailable, At!IsLastSuccessful, IsLastSuccessful
<1>7. /\ At(world, Entry)!Cached(i) = Cached(i)
      /\ At(world, Entry)!IsMoreResultsInCache(i) = IsMoreResultsInCache(i)
  BY <1>1 DEF At!IsMoreResultsInCache, IsMoreResultsInCache, At!Cached, Cached
<1>8. At(world, Entry)!MatchingGroups(i) = MatchingGroups(i)
  BY <1>1 DEF At!MatchingGroups, MatchingGroups, At!GroupMembers, GroupMembers
<1>9. At(world, Entry)!ShouldBeAdded(i) = ShouldBeAdded(i)
  BY <1>1 DEF At!ShouldBeAdded, ShouldBeAdded, At!GroupMembers, GroupMembers, At!BetterDuplicate, BetterDuplicate
<1>10. At(world, Entry)!MergeMustStop(i) = MergeMustStop(i)
  BY <1>6, <1>7 DEF At!MergeMustStop, MergeMustStop, At!Source, Source, At!Peek, Peek
<1>11. QED BY <1>2, <1>4, <1>5, <1>6, <1>7, <1>8, <1>9, <1>10

\* A round in which every indexer is asked, and answers.
LEMMA LoopDetermined ==
    ASSUME IInv, CallerTyping, NEW outcome \in [Indexers -> {"ok", "failed", "cancelled"}],
           QueryRound(outcome), ~ disturbed', GetIndexersToSearch = Asked(world, Entry)
    PROVE  Entry' = After(world, Entry)
<1> DEFINE asked == GetIndexersToSearch
           items == UNION {Accepted(i) : i \in asked}
<1>1. {i \in asked : outcome[i] = "ok"} = asked
  BY DEF QueryRound
<1>2. \A i \in asked : outcome[i] = "ok"
  BY <1>1
<1>3. {i \in asked : outcome[i] = "cancelled"} = {}
  BY <1>2
<1>4. /\ queries' = [i \in Indexers |-> IF i \in asked THEN queries[i] + 1 ELSE queries[i]]
      /\ last' = [i \in Indexers |-> IF i \in asked THEN PageResult(i, GetNextOffset(i)) ELSE last[i]]
      /\ loaded' = loaded \cup items
      /\ round'.fresh = {x \in items : groupOf[x] = 0}
      /\ pc = "loop" /\ pc' = "group"
      /\ UNCHANGED <<world, popped, merged, groupOf, nextGroup, represented>>
  BY <1>1, <1>3 DEF QueryRound
<1>5. UNION {At(world, Entry)!Accepted(i) : i \in Asked(world, Entry)} = items
  BY SameOperators
<1>6. \A i : At(world, Entry)!PageResult(i, At(world, Entry)!GetNextOffset(i)) = PageResult(i, GetNextOffset(i))
  BY SameOperators
<1> HIDE DEF asked, items
<1>7. asked = Asked(world, Entry)
  BY DEF asked
<1> DEFINE fresh2   == {x \in items : groupOf[x] = 0}
           queries2 == [i \in Indexers |-> IF i \in asked THEN queries[i] + 1 ELSE queries[i]]
           last2    == [i \in Indexers |-> IF i \in asked THEN PageResult(i, GetNextOffset(i)) ELSE last[i]]
<1>8. /\ fresh2 = {x \in UNION {At(world, Entry)!Accepted(i) : i \in Asked(world, Entry)} : Entry.groupOf[x] = 0}
      /\ queries2 = [i \in Indexers |-> IF i \in Asked(world, Entry) THEN Entry.queries[i] + 1
                                                                    ELSE Entry.queries[i]]
      /\ last2 = [i \in Indexers |-> IF i \in Asked(world, Entry)
                                     THEN At(world, Entry)!PageResult(i, At(world, Entry)!GetNextOffset(i))
                                     ELSE Entry.last[i]]
  BY <1>5, <1>6, <1>7 DEF Entry
<1> HIDE DEF fresh2, queries2, last2
<1> DEFINE next == [phase |-> "group", fresh |-> fresh2, queries |-> queries2, last |-> last2,
                    loaded |-> loaded \cup items, popped |-> popped, merged |-> merged, groupOf |-> groupOf,
                    nextGroup |-> nextGroup, represented |-> represented]
<1>9. AfterLoop(world, Entry) = next
  <2>1. /\ Entry.loaded = loaded /\ Entry.popped = popped /\ Entry.merged = merged /\ Entry.groupOf = groupOf
        /\ Entry.nextGroup = nextGroup /\ Entry.represented = represented
    BY DEF Entry
  <2>2. QED BY <1>5, <1>8, <2>1 DEF AfterLoop
<1>10. Entry.phase = "loop"
  BY <1>4 DEF Entry
<1>11. Entry' = next
  BY <1>4 DEF Entry, fresh2, queries2, last2
<1> HIDE DEF next
<1>12. QED BY <1>9, <1>10, <1>11 DEF After

\* The newest result without a group is added to the oldest group it matches.
LEMMA GroupDetermined ==
    ASSUME IInv, CallerTyping, AddToGroups \/ AddToGroupsDone
    PROVE  Entry' = After(world, Entry)
<1>1. pc = "group" /\ Entry.phase = "group" /\ After(world, Entry) = AfterGroup(world, Entry)
  BY DEF AddToGroups, AddToGroupsDone, Entry, After
<1>2. CASE AddToGroupsDone
  BY <1>1, <1>2 DEF AddToGroupsDone, AfterGroup, Entry, entryVars
<1>3. CASE AddToGroups
  <2>1. PICK x \in round.fresh :
          /\ \A y \in round.fresh : x >= y
          /\ round' = [round EXCEPT !.fresh = @ \ {x}]
          /\ IF MatchingGroups(x) = {}
             THEN /\ groupOf' = [groupOf EXCEPT ![x] = nextGroup]
                  /\ nextGroup' = nextGroup + 1
             ELSE \E g \in MatchingGroups(x) :
                  /\ \A h \in MatchingGroups(x) : g <= h
                  /\ groupOf' = [groupOf EXCEPT ![x] = g]
                  /\ UNCHANGED nextGroup
    BY <1>3 DEF AddToGroups
  <2>2. round.fresh \in SUBSET Nat
    BY ItemsAssumption DEF IInv, EntryTyping
  <2>3. NewestOf(round.fresh) = x
    <3>1. \A z \in round.fresh : (\A y \in round.fresh : z >= y) => z = x
      BY <2>1, <2>2
    <3>2. QED BY <2>1, <3>1 DEF NewestOf
  <2> DEFINE found == MatchingGroups(x)
             g == IF found = {} THEN nextGroup ELSE OldestOf(found)
  <2>4. groupOf' = [groupOf EXCEPT ![x] = g] /\ nextGroup' = IF found = {} THEN nextGroup + 1 ELSE nextGroup
    <3>1. CASE found = {}
      BY <2>1, <3>1
    <3>2. CASE found # {}
      <4>1. found \in SUBSET Int
        BY DEF MatchingGroups
      <4>2. PICK k \in found : /\ \A h \in found : k <= h
                               /\ groupOf' = [groupOf EXCEPT ![x] = k]
                               /\ UNCHANGED nextGroup
        BY <2>1, <3>2
      <4> HIDE DEF found
      <4>3. \A l \in found : (\A h \in found : l <= h) => l = k
        BY <4>1, <4>2
      <4>4. OldestOf(found) = k
        BY <4>2, <4>3 DEF OldestOf
      <4>5. QED BY <3>2, <4>2, <4>4
    <3>3. QED BY <3>1, <3>2
  <2>5. round'.fresh = round.fresh \ {x} /\ pc' = "group"
        /\ UNCHANGED <<world, queries, last, loaded, popped, merged, represented>>
    BY <1>3, <2>1 DEF AddToGroups, IInv, EntryTyping
  <2>6. At(world, Entry)!MatchingGroups(x) = found
    BY SameOperators
  <2>7. Entry.fresh = round.fresh /\ round.fresh # {}
    BY <1>1, <2>1 DEF Entry
  <2> HIDE DEF found
  <2>8. AfterGroup(world, Entry) =
          [Entry EXCEPT !.fresh     = round.fresh \ {x},
                        !.groupOf   = [groupOf EXCEPT ![x] = g],
                        !.nextGroup = IF found = {} THEN nextGroup + 1 ELSE nextGroup]
    <3>1. Entry.groupOf = groupOf /\ Entry.nextGroup = nextGroup
      BY DEF Entry
    <3>2. QED BY <2>3, <2>6, <2>7, <3>1 DEF AfterGroup
  <2> HIDE DEF g
  <2>9. QED BY <1>1, <2>4, <2>5, <2>8 DEF Entry
<1>4. QED BY <1>2, <1>3

\* The result which is merged next is the newest of all which wait.
LEMMA NewestWaiting ==
    ASSUME EntryTyping, NEW i \in GetIndexersWithCachedResults,
           \A j \in GetIndexersWithCachedResults : Peek(i) >= Peek(j)
    PROVE  NewestOf(loaded \ popped) = Peek(i) /\ Owner[Peek(i)] = i /\ Peek(i) \in loaded \ popped
<1>1. ASSUME NEW j \in GetIndexersWithCachedResults
      PROVE  Peek(j) \in Cached(j) /\ Cached(j) \subseteq Nat /\ \A y \in Cached(j) : Peek(j) >= y
  <2>1. Cached(j) # {} /\ Cached(j) \in SUBSET Items
    BY DEF GetIndexersWithCachedResults, IsMoreResultsInCache, Cached, EntryTyping
  <2>2. Peek(j) \in Cached(j) /\ \A y \in Cached(j) : Peek(j) >= y
    BY <2>1, Newest DEF Peek
  <2>3. QED BY <2>1, <2>2, ItemsAssumption
<1>2. Peek(i) \in loaded \ popped /\ Owner[Peek(i)] = i
  BY <1>1 DEF Cached
<1>3. ASSUME NEW y \in loaded \ popped PROVE Peek(i) >= y /\ y \in Nat
  <2>1. y \in Cached(Owner[y]) /\ Owner[y] \in Indexers
    BY ItemsAssumption DEF Cached, EntryTyping
  <2>2. Owner[y] \in GetIndexersWithCachedResults
    BY <2>1 DEF GetIndexersWithCachedResults, IsMoreResultsInCache
  <2>3. Peek(Owner[y]) >= y /\ Peek(i) >= Peek(Owner[y]) /\ y \in Nat
    BY <1>1, <2>1, <2>2
  <2>4. Peek(i) \in Nat /\ Peek(Owner[y]) \in Nat
    BY <1>1, <2>2
  <2>5. QED BY <2>3, <2>4
<1>4. \A z \in loaded \ popped : (\A y \in loaded \ popped : z >= y) => z = Peek(i)
  BY <1>2, <1>3
<1>5. NewestOf(loaded \ popped) = Peek(i)
  BY <1>2, <1>3, <1>4 DEF NewestOf
<1>6. QED BY <1>2, <1>5

\* Nothing waits if no indexer has something in its cache.
LEMMA NothingWaits ==
    ASSUME EntryTyping
    PROVE  GetIndexersWithCachedResults = {} <=> loaded \subseteq popped
<1>1. ASSUME NEW y \in loaded \ popped PROVE Owner[y] \in GetIndexersWithCachedResults
  BY ItemsAssumption DEF Cached, EntryTyping, GetIndexersWithCachedResults, IsMoreResultsInCache
<1>2. ASSUME NEW i \in GetIndexersWithCachedResults PROVE \E y \in loaded : y \notin popped
  BY Peeked
<1>3. QED BY <1>1, <1>2

\* One pass of the merge.
LEMMA MergeDetermined ==
    ASSUME IInv, CallerTyping, MergeCachedResults \/ MergeDone
    PROVE  Entry' = After(world, Entry)
<1>1. pc = "merge" /\ Entry.phase = "merge" /\ After(world, Entry) = AfterMerge(world, Entry)
  BY DEF MergeCachedResults, MergeDone, Entry, After
<1>2. EntryTyping /\ Entry.loaded = loaded /\ Entry.popped = popped /\ Entry.merged = merged
      /\ Entry.represented = represented /\ Entry.groupOf = groupOf
  BY DEF IInv, Entry
<1>3. CASE MergeDone
  <2>1. loaded \ popped = {} /\ pc' = "endRound" /\ UNCHANGED entryVars
    BY <1>2, <1>3, NothingWaits DEF MergeDone
  <2>2. AfterMerge(world, Entry) = [Entry EXCEPT !.phase = "loop"]
    BY <1>2, <2>1 DEF AfterMerge
  <2>3. QED BY <1>1, <2>1, <2>2 DEF Entry, entryVars
<1>4. CASE MergeCachedResults
  <2>1. PICK i \in GetIndexersWithCachedResults :
          /\ \A j \in GetIndexersWithCachedResults : Peek(i) >= Peek(j)
          /\ popped' = popped \cup {Peek(i)}
          /\ IF Source # "API" \/ ShouldBeAdded(Peek(i))
             THEN /\ merged' = Append(merged, Peek(i))
                  /\ represented' = IF Source = "API" THEN represented \cup {groupOf[Peek(i)]}
                                                     ELSE represented
                  /\ UNCHANGED removed
             ELSE /\ removed' = removed \cup {Peek(i)}
                  /\ UNCHANGED <<merged, represented>>
          /\ pc' = IF MergeMustStop(i) THEN "endRound" ELSE "merge"
    BY <1>4 DEF MergeCachedResults
  <2> DEFINE x == Peek(i)
             added == Source # "API" \/ ShouldBeAdded(x)
             phase2 == IF MergeMustStop(i) THEN "loop" ELSE "merge"
             merged2 == IF added THEN Append(merged, x) ELSE merged
             represented2 == IF added /\ Source = "API" THEN represented \cup {groupOf[x]} ELSE represented
  <2>2. UNCHANGED <<world, queries, last, loaded, groupOf, nextGroup, round>>
    BY <1>4 DEF MergeCachedResults, requestVars
  <2>3. NewestOf(loaded \ popped) = x /\ Owner[x] = i /\ loaded \ popped # {}
    BY <1>2, <2>1, NewestWaiting
  <2>4. popped' = popped \cup {x} /\ merged' = merged2 /\ represented' = represented2
        /\ pc' = IF MergeMustStop(i) THEN "endRound" ELSE "merge"
    BY <2>1
  <2>5. AfterMerge(world, Entry) = [Entry EXCEPT !.phase = phase2, !.popped = popped \cup {x},
                                                 !.merged = merged2, !.represented = represented2]
    <3>1. At(world, Entry)!ShouldBeAdded(x) = ShouldBeAdded(x)
          /\ At(world, Entry)!MergeMustStop(i) = MergeMustStop(i)
      BY SameOperators
    <3> HIDE DEF x
    <3>2. QED BY <1>2, <2>3, <3>1 DEF AfterMerge, Source
  <2> HIDE DEF x, added, merged2, represented2
  <2>6. Entry' = [phase |-> phase2, fresh |-> {}, queries |-> queries, last |-> last, loaded |-> loaded,
                  popped |-> popped \cup {x}, merged |-> merged2, groupOf |-> groupOf,
                  nextGroup |-> nextGroup, represented |-> represented2]
    BY <2>2, <2>4 DEF Entry
  <2>7. Entry = [phase |-> "merge", fresh |-> {}, queries |-> queries, last |-> last, loaded |-> loaded,
                 popped |-> popped, merged |-> merged, groupOf |-> groupOf,
                 nextGroup |-> nextGroup, represented |-> represented]
    BY <1>1 DEF Entry
  <2>8. QED BY <1>1, <2>5, <2>6, <2>7
<1>5. QED BY <1>3, <1>4

-----------------------------------------------------------------------------
(* Rounds                                                                  *)

\* An API client gets pages only. After a round nothing of a web UI's search waits, so that its
\* indexers are asked in step: all as often, but for those which have no more.
ApiPages == Source = "API" => ~ request.loadAll
AllMerged == Source = "INTERNAL" /\ pc \notin {"group", "merge"} => loaded \subseteq popped
FailedHasNoMore == \A i \in Indexers : ~ last[i].ok => ~ last[i].more
Lockstep ==
    Source = "INTERNAL" /\ ~ disturbed =>
        \E n \in Nat : \A i \in Indexers : queries[i] = n \/ (queries[i] # 0 /\ ~ last[i].more)

\* What is invariant about the rounds of a search.
RoundInv == ApiPages /\ AllMerged /\ FailedHasNoMore /\ Lockstep

\* The caps do not leave out one indexer and ask another.
LEMMA AllAreAsked ==
    ASSUME IInv, CallerTyping, RoundInv, ~ disturbed, pc = "loop", ~ LoopShouldStop
    PROVE  GetIndexersToSearch = Asked(world, Entry)
<1>1. /\ Entry.queries = queries /\ queries \in [Indexers -> Nat]
      /\ MaxQueries \in Nat /\ MaxQueriesLoadAll \in Nat /\ MaxQueries <= MaxQueriesLoadAll
  BY BoundsAssumption DEF Entry, IInv, EntryTyping
<1> DEFINE Dry(i) == queries[i] = 0 \/ /\ IsMoreResultsAvailable(i)
                                       /\ IsLastSuccessful(i)
                                       /\ ~ IsMoreResultsInCache(i)
<1>2. Asked(world, Entry) = {i \in Indexers : (Source = "API" => queries[i] < MaxQueries) /\ Dry(i)}
  BY <1>1, SameOperators DEF Asked, Source
<1>3. GetIndexersToSearch =
          {i \in Indexers : queries[i] < QueryCap /\ queries[i] < MaxQueriesLoadAll /\ Dry(i)}
  BY DEF GetIndexersToSearch
<1>4. CASE Source = "API"
  <2>1. QueryCap = MaxQueries
    BY <1>4 DEF QueryCap, UsesLoadAllQueryCap, RoundInv, ApiPages
  <2>2. \A i \in Indexers : queries[i] < MaxQueries => queries[i] < MaxQueriesLoadAll
    BY <1>1
  <2> HIDE DEF Dry
  <2>3. QED BY <1>2, <1>3, <1>4, <2>1, <2>2
<1>5. CASE Source = "INTERNAL"
  <2>1. GetIndexersWithCachedResults = {}
    BY <1>5, NothingWaits DEF RoundInv, AllMerged, IInv
  <2>2. GetIndexersToSearch # {}
    BY <2>1 DEF LoopShouldStop
  <2>3. PICK n \in Nat : \A i \in Indexers : queries[i] = n \/ (queries[i] # 0 /\ ~ last[i].more)
    BY <1>5 DEF RoundInv, Lockstep
  <2>4. \A i \in Indexers : Dry(i) => queries[i] = n
    BY <2>3 DEF IsMoreResultsAvailable
  <2> HIDE DEF Dry
  <2>5. n < QueryCap /\ n < MaxQueriesLoadAll
    BY <1>3, <2>2, <2>4
  <2>6. QED BY <1>2, <1>3, <1>5, <2>4, <2>5
<1>6. QED BY <1>4, <1>5 DEF IInv, EntryTyping, World, Source

\* Before the first request nothing was asked, nothing waits.
LEMMA InitRound == Init => RoundInv
<1> SUFFICES ASSUME Init PROVE RoundInv
  OBVIOUS
<1>1. ApiPages /\ AllMerged /\ FailedHasNoMore
  BY DEF Init, ApiPages, AllMerged, FailedHasNoMore, FailedResult
<1>2. 0 \in Nat /\ \A i \in Indexers : queries[i] = 0
  BY DEF Init
<1>3. Lockstep
  BY <1>2 DEF Lockstep
<1>4. QED BY <1>1, <1>3 DEF RoundInv

\* The same holds for a new entry.
LEMMA NewEntryRound ==
    ASSUME NewEntry, Source' = "API" => ~ request'.loadAll
    PROVE  RoundInv'
<1>1. ApiPages' /\ AllMerged' /\ FailedHasNoMore'
  BY DEF NewEntry, ApiPages, AllMerged, FailedHasNoMore, FailedResult
<1>2. 0 \in Nat /\ \A i \in Indexers : queries'[i] = 0
  BY DEF NewEntry
<1>3. Lockstep'
  BY <1>2 DEF Lockstep
<1>4. QED BY <1>1, <1>3 DEF RoundInv

\* A round asks the indexers in step.
LEMMA QueryRoundRound ==
    ASSUME IInv, CallerTyping, RoundInv,
           NEW outcome \in [Indexers -> {"ok", "failed", "cancelled"}], QueryRound(outcome)
    PROVE  RoundInv'
<1> DEFINE asked == GetIndexersToSearch
           ok == {i \in asked : outcome[i] = "ok"}
           cancelled == {i \in asked : outcome[i] = "cancelled"}
<1>1. ApiPages' /\ AllMerged'
  BY DEF RoundInv, QueryRound, ApiPages, AllMerged, Source
<1>2. /\ queries' = [i \in Indexers |-> IF i \in asked \ cancelled THEN queries[i] + 1 ELSE queries[i]]
      /\ last' = [i \in Indexers |->
                    IF i \in ok THEN PageResult(i, GetNextOffset(i))
                    ELSE IF i \in asked \ cancelled THEN FailedResult
                    ELSE last[i]]
      /\ disturbed' = (disturbed \/ ok # asked)
      /\ pc = "loop" /\ ~ LoopShouldStop /\ UNCHANGED world
  BY DEF QueryRound
<1>3. FailedHasNoMore'
  <2>1. \A i : PageResult(i, GetNextOffset(i)).ok /\ ~ FailedResult.more
    BY DEF PageResult, FailedResult
  <2> HIDE DEF asked, ok, cancelled
  <2>2. QED BY <1>2, <2>1 DEF RoundInv, FailedHasNoMore
<1>4. Lockstep'
  <2>1. SUFFICES ASSUME Source = "INTERNAL", ~ disturbed'
                 PROVE  \E n \in Nat : \A i \in Indexers :
                            queries'[i] = n \/ (queries'[i] # 0 /\ ~ last'[i].more)
    BY <1>2 DEF Lockstep, Source
  <2>2. ~ disturbed /\ ok = asked /\ cancelled = {}
    BY <1>2, <2>1
  <2>3. PICK n \in Nat : \A i \in Indexers : queries[i] = n \/ (queries[i] # 0 /\ ~ last[i].more)
    BY <2>1, <2>2 DEF RoundInv, Lockstep
  <2>4. asked = Asked(world, Entry)
    BY <1>2, <2>2, AllAreAsked
  <2>5. \A i \in Indexers : i \in asked <=> \/ queries[i] = 0
                                            \/ last[i].more
    <3>1. \A i \in Indexers : ~ IsMoreResultsInCache(i)
      BY <1>2, <2>1, NothingWaits DEF RoundInv, AllMerged, IInv, GetIndexersWithCachedResults
    <3>2. \A i \in Indexers : last[i].more => last[i].ok
      BY DEF RoundInv, FailedHasNoMore
    <3>3. Entry.queries = queries /\ world.source # "API"
      BY <2>1 DEF Entry, Source
    <3>4. QED BY <2>4, <3>1, <3>2, <3>3, SameOperators DEF Asked, IsMoreResultsAvailable, IsLastSuccessful
  <2> HIDE DEF asked, ok, cancelled
  <2>6. ASSUME NEW i \in Indexers
        PROVE  queries'[i] = n + 1 \/ (queries'[i] # 0 /\ ~ last'[i].more)
    <3>1. CASE i \in asked
      BY <1>2, <2>2, <2>3, <2>5, <3>1
    <3>2. CASE i \notin asked
      BY <1>2, <2>2, <2>3, <2>5, <3>2
    <3>3. QED BY <3>1, <3>2
  <2>7. QED BY <2>6
<1>5. QED BY <1>1, <1>3, <1>4 DEF RoundInv

\* Every step keeps what is invariant about rounds.
LEMMA NextRound ==
    ASSUME IInv, CallerTyping, RoundInv, [Next]_vars
    PROVE  RoundInv'
<1> USE DEF entryVars, requestVars, historyVars
<1>1. ASSUME UNCHANGED <<world, request, queries, last, loaded, popped>>,
             pc' \in {"group", "merge"} \/ pc \notin {"group", "merge"}, disturbed' = disturbed
      PROVE  RoundInv'
  BY <1>1 DEF RoundInv, ApiPages, AllMerged, FailedHasNoMore, Lockstep, Source
<1>2. ASSUME StartSearch PROVE RoundInv'
  BY <1>2, NewEntryRound DEF StartSearch, BeginRequest
<1>3. ASSUME NEW loadAll \in BOOLEAN, ContinueSearch(loadAll) PROVE RoundInv'
  <2>1. /\ pc = "idle" /\ pc' = "loop" /\ UNCHANGED <<world, disturbed>>
        /\ Source' = "API" => ~ request'.loadAll
    BY <1>3 DEF ContinueSearch, BeginRequest, Source
  <2>2. CASE inCache
    <3>1. UNCHANGED <<queries, last, loaded, popped>>
      BY <1>3, <2>2 DEF ContinueSearch
    <3>2. QED BY <2>1, <3>1 DEF RoundInv, ApiPages, AllMerged, FailedHasNoMore, Lockstep, Source
  <2>3. CASE ~ inCache
    BY <1>3, <2>1, <2>3, NewEntryRound DEF ContinueSearch
  <2>4. QED BY <2>2, <2>3
<1>4. ASSUME NEW i \in Indexers, Upload(i) PROVE RoundInv'
  <2>1. world'.source = world.source
    BY <1>4 DEF Upload, IInv, EntryTyping, World
  <2>2. QED BY <1>4, <2>1 DEF Upload, RoundInv, ApiPages, AllMerged, FailedHasNoMore, Lockstep, Source
<1>5. ASSUME NEW outcome \in [Indexers -> {"ok", "failed", "cancelled"}], QueryRound(outcome) PROVE RoundInv'
  BY <1>5, QueryRoundRound
<1>6. ASSUME MergeCachedResults PROVE RoundInv'
  <2>1. UNCHANGED <<world, request, queries, last, loaded, disturbed>>
    BY <1>6 DEF MergeCachedResults
  <2>2. Source = "INTERNAL" => pc' = "merge"
    BY <1>6 DEF MergeCachedResults, MergeMustStop
  <2>3. QED BY <2>1, <2>2 DEF RoundInv, ApiPages, AllMerged, FailedHasNoMore, Lockstep, Source
<1>7. ASSUME MergeDone PROVE RoundInv'
  <2>1. loaded \subseteq popped
    BY <1>7, NothingWaits DEF MergeDone, IInv
  <2>2. QED BY <1>7, <2>1 DEF MergeDone, RoundInv, ApiPages, AllMerged, FailedHasNoMore, Lockstep, Source
<1>8. CASE Expire \/ Shortcut \/ UNCHANGED vars
  BY <1>1, <1>8 DEF Expire, Shortcut, vars
<1>9. CASE LoopStop \/ AddToGroups \/ AddToGroupsDone
  BY <1>1, <1>9 DEF LoopStop, AddToGroups, AddToGroupsDone
<1>10. CASE EndRound \/ (\E saved \in SUBSET Indexers : EndRoundFails(saved)) \/ Respond
  BY <1>1, <1>10 DEF EndRound, EndRoundFails, Respond
<1>11. QED BY <1>2, <1>3, <1>4, <1>5, <1>6, <1>7, <1>8, <1>9, <1>10 DEF Next, SearchStep

\* As long as nothing of an indexer's answers was lost or changed.
ReachInv == ~ disturbed => Reach(world, Entry)

\* The entry keeps its fields.
LEMMA EntryStaysTyped == IInv' /\ CallerTyping' => (Entry \in Entries)'
<1>1. IInv /\ CallerTyping => Entry \in Entries
  BY EntryTyped
<1>2. QED BY <1>1, PTL

\* Every step of an undisturbed search is the one its world and entry determine.
LEMMA NextReach ==
    ASSUME IInv, CallerTyping, RoundInv, ReachInv, [Next]_vars
    PROVE  ReachInv'
<1> USE DEF entryVars, requestVars, historyVars
<1>1. SUFFICES ASSUME ~ disturbed' PROVE Reach(world, Entry)'
  BY DEF ReachInv
<1>2. Entry' \in Entries
  <2>1. IInv' /\ CallerTyping'
    BY NextIInv, NextCallerTyping
  <2>2. (Entry \in Entries)'
    BY <2>1, EntryStaysTyped
  <2>3. QED BY <2>2 DEF Entries
<1>3. ASSUME world' = world, ~ disturbed, Entry' = Entry \/ Entry' = After(world, Entry)
      PROVE  Reach(world, Entry)'
  <2>1. Reach(world, Entry)
    BY <1>3 DEF ReachInv
  <2>2. Reach(world, Entry')
    BY <1>2, <1>3, <2>1, ReachAfter
  <2>3. QED BY <1>3, <2>2 DEF Reach
<1>4. ASSUME UNCHANGED <<world, queries, last, loaded, popped, merged, groupOf, nextGroup, represented>>,
             ~ disturbed, pc \notin {"group", "merge"}, pc' \notin {"group", "merge"}
      PROVE  Reach(world, Entry)'
  <2>1. Entry' = Entry
    BY <1>4 DEF Entry
  <2>2. QED BY <1>3, <1>4, <2>1
<1>5. ASSUME NewEntry, pc' = "loop", world' = world PROVE Reach(world, Entry)'
  <2>1. Entry' = EmptyEntry
    BY <1>5 DEF NewEntry, Entry, EmptyEntry
  <2>2. Reach(world, Entry')
    BY <2>1, ReachEmpty
  <2>3. QED BY <1>5, <2>2 DEF Reach
<1>6. ASSUME StartSearch PROVE Reach(world, Entry)'
  BY <1>5, <1>6 DEF StartSearch, BeginRequest
<1>7. ASSUME NEW loadAll \in BOOLEAN, ContinueSearch(loadAll) PROVE Reach(world, Entry)'
  BY <1>1, <1>4, <1>5, <1>7 DEF ContinueSearch, BeginRequest
<1>8. ASSUME NEW outcome \in [Indexers -> {"ok", "failed", "cancelled"}], QueryRound(outcome)
      PROVE  Reach(world, Entry)'
  <2>1. ~ disturbed /\ pc = "loop" /\ ~ LoopShouldStop /\ UNCHANGED world
    BY <1>1, <1>8 DEF QueryRound
  <2>2. Entry' = After(world, Entry)
    BY <1>1, <1>8, <2>1, AllAreAsked, LoopDetermined
  <2>3. QED BY <1>3, <2>1, <2>2
<1>9. ASSUME AddToGroups \/ AddToGroupsDone PROVE Reach(world, Entry)'
  <2>1. UNCHANGED <<world, disturbed>>
    BY <1>9 DEF AddToGroups, AddToGroupsDone
  <2>2. QED BY <1>1, <1>3, <1>9, <2>1, GroupDetermined
<1>10. ASSUME MergeCachedResults \/ MergeDone PROVE Reach(world, Entry)'
  <2>1. UNCHANGED <<world, disturbed>>
    BY <1>10 DEF MergeCachedResults, MergeDone
  <2>2. QED BY <1>1, <1>3, <1>10, <2>1, MergeDetermined
<1>11. CASE Expire \/ LoopStop \/ Respond
  BY <1>1, <1>4, <1>11 DEF Expire, LoopStop, Respond
<1>12. CASE EndRound \/ \E saved \in SUBSET Indexers : EndRoundFails(saved)
  BY <1>1, <1>4, <1>12 DEF EndRound, EndRoundFails
<1>13. CASE Shortcut \/ UNCHANGED vars
  <2>1. Entry' = Entry /\ UNCHANGED <<world, disturbed>>
    BY <1>13 DEF Shortcut, vars, Entry
  <2>2. QED BY <1>1, <1>3, <2>1
<1>14. CASE \E i \in Indexers : Upload(i)
  BY <1>1, <1>14 DEF Upload
<1>15. QED
  BY <1>6, <1>7, <1>8, <1>9, <1>10, <1>11, <1>12, <1>13, <1>14 DEF Next, SearchStep

-----------------------------------------------------------------------------
(* What the caller was given                                               *)

\* A page is cut out of the merged results as they are.
LEMMA ResponseSlice ==
    ASSUME EntryTyping, CallerTyping, Ordered = merged
    PROVE  LET behind == IF Source = "INTERNAL" THEN Len(merged) ELSE request.offset + Limit
               end    == IF behind > Len(merged) THEN Len(merged) ELSE behind
           IN  /\ request.loadAll => Response = merged
               /\ ~ request.loadAll =>
                     /\ Response \in Seq(Items)
                     /\ Len(Response) = IF request.offset < end THEN end - request.offset ELSE 0
                     /\ \A k \in 1..Len(Response) : Response[k] = merged[request.offset + k]
<1> DEFINE behind == IF Source = "INTERNAL" THEN Len(merged) ELSE request.offset + Limit
           end == IF behind > Len(merged) THEN Len(merged) ELSE behind
           o == request.offset
<1>1. merged \in Seq(Items) /\ Len(merged) \in Nat /\ o \in Nat
  BY LenProperties DEF EntryTyping, CallerTyping
<1>2. Response = IF request.loadAll THEN merged ELSE SubSeq(merged, o + 1, end)
  BY DEF Response
<1>3. end \in Nat /\ end <= Len(merged)
  BY <1>1, BoundsAssumption
<1> HIDE DEF end, o
<1>4. \A k \in (o + 1)..end : merged[k] \in Items
  <2>1. \A k \in (o + 1)..end : k \in 1..Len(merged)
    BY <1>1, <1>3
  <2>2. QED BY <1>1, <2>1, ElementOfSeq
<1>5. /\ SubSeq(merged, o + 1, end) \in Seq(Items)
      /\ Len(SubSeq(merged, o + 1, end)) = IF o + 1 <= end THEN end - (o + 1) + 1 ELSE 0
      /\ \A k \in 1..(end - (o + 1) + 1) : SubSeq(merged, o + 1, end)[k] = merged[(o + 1) + k - 1]
  BY <1>1, <1>3, <1>4, SubSeqProperties
<1>6. Len(SubSeq(merged, o + 1, end)) = IF o < end THEN end - o ELSE 0
  BY <1>1, <1>3, <1>5
<1>7. \A k \in 1..Len(SubSeq(merged, o + 1, end)) : SubSeq(merged, o + 1, end)[k] = merged[o + k]
  BY <1>1, <1>3, <1>5, <1>6
<1>8. QED BY <1>2, <1>5, <1>6, <1>7 DEF end, o

\* Until a caller got nothing its pages are the beginning of what is merged: of what is merged
\* now, or, if the search is done again, of what was merged before and will be merged once more.
CallerInv ==
    /\ pc # "idle" => ~ exhausted /\ request.offset = position
    /\ resorted => Source = "API"
    /\ ~ (rebuilt /\ disturbed) /\ ~ resorted => NoDuplicates(shown)
    /\ ~ exhausted => position = Len(shown)
    /\ ~ exhausted /\ ~ rebuilt /\ ~ resorted => Begins(shown, merged)
    /\ ~ exhausted /\ ~ disturbed /\ ~ resorted => \E e \in Entries : Reach(world, e) /\ Begins(shown, e.merged)

\* What was shown and what is merged agree as far as both go.
LEMMA ShownAgrees ==
    ASSUME IInv, CallerTyping, ReachInv, CallerInv, ~ exhausted, ~ (rebuilt /\ disturbed), ~ resorted
    PROVE  Begins(shown, merged) \/ Begins(merged, shown)
<1>1. CASE ~ rebuilt
  BY <1>1 DEF CallerInv
<1>2. CASE ~ disturbed
  <2>1. PICK e \in Entries : Reach(world, e) /\ Begins(shown, e.merged)
    BY <1>2 DEF CallerInv
  <2>2. Reach(world, Entry) /\ Entry.merged = merged
    BY <1>2 DEF ReachInv, Entry
  <2>3. Begins(e.merged, merged) \/ Begins(merged, e.merged)
    BY <2>1, <2>2, Comparable
  <2>4. /\ shown \in Seq(Items) /\ merged \in Seq(Items) /\ e.merged \in Seq(Items)
        /\ Len(shown) \in Nat /\ Len(merged) \in Nat /\ Len(e.merged) \in Nat
    BY LenProperties DEF CallerTyping, IInv, EntryTyping, Entries
  <2>5. QED BY <2>1, <2>3, <2>4 DEF Begins
<1>3. QED BY <1>1, <1>2

\* A caller without a request has nothing.
LEMMA InitCaller == Init => CallerInv /\ ReachInv
<1> SUFFICES ASSUME Init PROVE CallerInv /\ ReachInv
  OBVIOUS
<1>1. Entry = EmptyEntry
  BY DEF Init, Entry, EmptyEntry
<1>2. Reach(world, EmptyEntry) /\ EmptyEntry \in Entries /\ EmptyEntry.merged = <<>>
  BY ReachEmpty, EmptyEntryTyped DEF EmptyEntry
<1>3. Len(<<>>) = 0 /\ Begins(<<>>, <<>>) /\ NoDuplicates(<<>>)
  BY DEF Begins, NoDuplicates
<1>4. ReachInv
  BY <1>1, <1>2 DEF ReachInv
<1>5. CallerInv
  BY <1>2, <1>3 DEF Init, CallerInv
<1>6. QED BY <1>4, <1>5

\* Steps of a request which was not answered yet.
LEMMA CallerWaits ==
    ASSUME CallerInv, UNCHANGED <<world, request, callerVars, rebuilt, resorted>>,
           pc' # "idle" => pc # "idle", disturbed => disturbed', CallerTyping, CallerTyping',
           ~ exhausted /\ ~ rebuilt /\ ~ resorted => Begins(shown, merged')
    PROVE  CallerInv'
<1> USE DEF callerVars
<1>1. pc' # "idle" => ~ exhausted' /\ request'.offset = position'
  BY DEF CallerInv
<1>2. /\ ~ (rebuilt' /\ disturbed') /\ ~ resorted' => NoDuplicates(shown)'
      /\ resorted' => Source' = "API"
  BY DEF CallerInv, NoDuplicates, Source
<1>3. ~ exhausted' => position' = Len(shown')
  BY DEF CallerInv
<1>4. ~ exhausted' /\ ~ rebuilt' /\ ~ resorted' => Begins(shown, merged)'
  BY DEF Begins
<1>5. ~ exhausted' /\ ~ disturbed' /\ ~ resorted' => \E e \in Entries : Reach(world, e) /\ Begins(shown, e.merged)
  BY DEF CallerInv
<1>6. QED BY <1>1, <1>2, <1>3, <1>4, <1>5 DEF CallerInv, Begins, Reach

\* What is appended to the merged results leaves their beginning as it is.
LEMMA BeginsAppend ==
    ASSUME NEW s \in Seq(Items), NEW t \in Seq(Items), NEW x \in Items, Begins(s, t)
    PROVE  Begins(s, Append(t, x))
<1>1. Len(s) \in Nat /\ Len(t) \in Nat
  BY LenProperties
<1>2. QED BY <1>1, AppendProperties DEF Begins

\* A page continues where the one before ended; all at once adds what was not shown.
LEMMA RespondCaller ==
    ASSUME IInv, CallerTyping, ReachInv, CallerInv, Respond
    PROVE  CallerInv'
<1> USE DEF entryVars, requestVars, historyVars
<1>1. /\ pc = "respond" /\ pc' = "idle"
      /\ shown' = shown \o (IF request.loadAll THEN Unseen(Response) ELSE Response)
      /\ position' = request.offset + Len(Response)
      /\ exhausted' = (request.loadAll \/ Response = <<>>)
      /\ resorted' = (resorted \/ Ordered # merged)
      /\ UNCHANGED <<world, queries, last, loaded, popped, merged, groupOf, nextGroup, represented,
                     round, disturbed, rebuilt>>
  BY DEF Respond
<1>2. ~ exhausted /\ request.offset = position /\ position = Len(shown)
  BY <1>1 DEF CallerInv
<1>3. /\ merged \in Seq(Items) /\ Len(merged) \in Nat /\ DOMAIN merged = 1..Len(merged)
      /\ shown \in Seq(Items) /\ Len(shown) \in Nat /\ DOMAIN shown = 1..Len(shown)
      /\ NoDuplicates(merged) /\ EntryTyping
  BY LenProperties DEF IInv, MergedOnce, EntryTyping, CallerTyping
<1>4. Source' = Source /\ (resorted' => Source' = "API")
  BY <1>1 DEF CallerInv, Ordered, Source
<1>5. /\ Response \in Seq(Items) /\ Len(Response) \in Nat /\ (Response = <<>> <=> Len(Response) = 0)
  BY <1>3, ResponseTyping, LenProperties, EmptySeq DEF CallerTyping
<1>6. ASSUME resorted' PROVE CallerInv'
  <2>1. ASSUME ~ exhausted' PROVE position' = Len(shown')
    <3>1. shown' = shown \o Response
      BY <1>1, <2>1
    <3>2. Len(shown') = Len(shown) + Len(Response)
      BY <1>3, <1>5, <3>1, ConcatProperties
    <3>3. position' = Len(shown) + Len(Response)
      BY <1>1, <1>2
    <3>4. QED BY <3>2, <3>3
  <2>2. QED BY <1>1, <1>4, <1>6, <2>1 DEF CallerInv
<1>7. SUFFICES ASSUME ~ resorted, ~ resorted', Ordered = merged PROVE CallerInv'
  BY <1>1, <1>6
<1>8. CASE request.loadAll
  <2>1. Response = merged
    BY <1>3, <1>8, <1>7, ResponseSlice
  <2> DEFINE new == Unseen(merged)
  <2>2. /\ new \in Seq(Items) /\ NoDuplicates(new) /\ InSeq(new) \cap InSeq(shown) = {}
        /\ shown' = shown \o new
    BY <1>1, <1>3, <1>8, <2>1, UnseenResults
  <2> HIDE DEF new
  <2>3. Len(new) \in Nat /\ DOMAIN new = 1..Len(new)
    BY <2>2, LenProperties
  <2>4. ASSUME NoDuplicates(shown) PROVE NoDuplicates(shown')
    <3>1. /\ shown' \in Seq(Items) /\ Len(shown') = Len(shown) + Len(new)
          /\ \A k \in 1..(Len(shown) + Len(new)) :
                shown'[k] = IF k <= Len(shown) THEN shown[k] ELSE new[k - Len(shown)]
      BY <1>3, <2>2, ConcatProperties
    <3>2. DOMAIN shown' = 1..(Len(shown) + Len(new))
      BY <3>1, LenProperties
    <3>3. ASSUME NEW j \in DOMAIN shown', NEW k \in DOMAIN shown', shown'[j] = shown'[k] PROVE j = k
      <4>1. CASE j <= Len(shown) /\ k <= Len(shown)
        <5>1. j \in DOMAIN shown /\ k \in DOMAIN shown /\ shown[j] = shown[k]
          BY <1>3, <2>3, <3>1, <3>2, <3>3, <4>1
        <5>2. QED BY <2>4, <5>1 DEF NoDuplicates
      <4>2. CASE j > Len(shown) /\ k > Len(shown)
        <5>1. /\ j - Len(shown) \in DOMAIN new /\ k - Len(shown) \in DOMAIN new
              /\ new[j - Len(shown)] = new[k - Len(shown)]
          BY <1>3, <2>3, <3>1, <3>2, <3>3, <4>2
        <5>2. j - Len(shown) = k - Len(shown)
          BY <2>2, <5>1 DEF NoDuplicates
        <5>3. QED BY <1>3, <2>3, <3>2, <5>2
      <4>3. CASE j <= Len(shown) /\ k > Len(shown)
        <5>1. j \in DOMAIN shown /\ k - Len(shown) \in DOMAIN new /\ shown[j] = new[k - Len(shown)]
          BY <1>3, <2>3, <3>1, <3>2, <3>3, <4>3
        <5>2. QED BY <2>2, <5>1 DEF InSeq
      <4>4. CASE j > Len(shown) /\ k <= Len(shown)
        <5>1. k \in DOMAIN shown /\ j - Len(shown) \in DOMAIN new /\ shown[k] = new[j - Len(shown)]
          BY <1>3, <2>3, <3>1, <3>2, <3>3, <4>4
        <5>2. QED BY <2>2, <5>1 DEF InSeq
      <4>5. QED BY <1>3, <2>3, <3>2, <4>1, <4>2, <4>3, <4>4
    <3>4. QED BY <3>3 DEF NoDuplicates
  <2>5. ~ (rebuilt' /\ disturbed') => NoDuplicates(shown)'
    BY <1>1, <1>7, <2>4 DEF CallerInv, NoDuplicates
  <2>6. exhausted'
    BY <1>1, <1>8
  <2>7. QED BY <1>1, <1>4, <2>5, <2>6 DEF CallerInv
<1>9. CASE ~ request.loadAll
  <2> DEFINE n == Len(Response)
  <2>1. /\ Response \in Seq(Items) /\ n \in Nat
        /\ \A k \in 1..n : Response[k] = merged[Len(shown) + k]
        /\ n # 0 => Len(shown) + n <= Len(merged)
    <3> DEFINE behind == IF Source = "INTERNAL" THEN Len(merged) ELSE request.offset + Limit
               end == IF behind > Len(merged) THEN Len(merged) ELSE behind
    <3>1. /\ Response \in Seq(Items)
          /\ n = IF request.offset < end THEN end - request.offset ELSE 0
          /\ \A k \in 1..n : Response[k] = merged[request.offset + k]
      BY <1>3, <1>9, <1>7, ResponseSlice
    <3>2. end \in Int /\ end <= Len(merged)
      BY <1>2, <1>3, BoundsAssumption
    <3> HIDE DEF end
    <3>3. n # 0 => Len(shown) + n <= Len(merged)
      BY <1>2, <1>3, <3>1, <3>2
    <3>4. n \in Nat
      BY <3>1, LenProperties
    <3>5. QED BY <1>2, <3>1, <3>3, <3>4
  <2>2. /\ shown' = shown \o Response /\ shown' \in Seq(Items) /\ Len(shown') = Len(shown) + n
        /\ DOMAIN shown' = 1..(Len(shown) + n)
        /\ \A k \in 1..(Len(shown) + n) :
              shown'[k] = IF k <= Len(shown) THEN shown[k] ELSE Response[k - Len(shown)]
    <3>1. shown' = shown \o Response
      BY <1>1, <1>9
    <3>2. QED BY <1>3, <2>1, <3>1, ConcatProperties, LenProperties
  <2>3. position' = Len(shown') /\ (Response = <<>> <=> n = 0)
    BY <1>1, <1>2, <2>1, <2>2, EmptySeq
  <2> HIDE DEF n
  <2>4. ASSUME n # 0, ~ (rebuilt /\ disturbed) PROVE Begins(shown', merged)
    <3>1. Begins(shown, merged)
      <4>1. Begins(shown, merged) \/ Begins(merged, shown)
        BY <1>2, <1>7, <2>4, ShownAgrees
      <4>2. ~ Begins(merged, shown)
        BY <1>3, <2>1, <2>4 DEF Begins
      <4>3. QED BY <4>1, <4>2
    <3>2. ASSUME NEW k \in 1..(Len(shown) + n) PROVE shown'[k] = merged[k]
      <4>1. CASE k <= Len(shown)
        BY <1>3, <2>2, <3>1, <4>1 DEF Begins
      <4>2. CASE k > Len(shown)
        <5>1. k - Len(shown) \in 1..n /\ Len(shown) + (k - Len(shown)) = k
          BY <1>3, <2>1, <4>2
        <5>2. shown'[k] = Response[k - Len(shown)]
          BY <1>3, <2>1, <2>2, <4>2
        <5>3. Response[k - Len(shown)] = merged[Len(shown) + (k - Len(shown))]
          BY <2>1, <5>1
        <5>4. QED BY <5>1, <5>2, <5>3
      <4>3. QED BY <1>3, <2>1, <4>1, <4>2
    <3>3. QED BY <2>1, <2>2, <2>4, <3>2 DEF Begins
  <2>5. n = 0 => shown' = shown
    <3>1. n = 0 => Response = <<>>
      BY <2>3
    <3>2. QED BY <1>3, <2>2, <3>1, ConcatEmptySeq
  <2>6. ~ (rebuilt' /\ disturbed') => NoDuplicates(shown)'
    <3>1. SUFFICES ASSUME ~ (rebuilt /\ disturbed) PROVE NoDuplicates(shown')
      BY <1>1 DEF NoDuplicates
    <3>2. CASE n = 0
      BY <1>7, <2>5, <3>1, <3>2 DEF CallerInv
    <3>3. CASE n # 0
      <4>1. Begins(shown', merged)
        BY <2>4, <3>1, <3>3
      <4>2. DOMAIN shown' = 1..Len(shown') /\ \A k \in DOMAIN shown' : k \in DOMAIN merged /\ shown'[k] = merged[k]
        BY <1>3, <2>1, <2>2, <4>1 DEF Begins
      <4>3. QED BY <1>3, <4>2 DEF NoDuplicates
    <3>4. QED BY <3>2, <3>3
  <2>7. ASSUME ~ exhausted' PROVE n # 0
    BY <1>1, <2>3, <2>7
  <2>8. ~ exhausted' /\ ~ rebuilt' => Begins(shown, merged)'
    BY <1>1, <2>4, <2>7 DEF Begins
  <2>9. ~ exhausted' /\ ~ disturbed' => \E e \in Entries : Reach(world, e)' /\ Begins(shown', e.merged)
    <3>1. SUFFICES ASSUME ~ exhausted', ~ disturbed
                   PROVE  \E e \in Entries : Reach(world, e)' /\ Begins(shown', e.merged)
      BY <1>1
    <3>2. Reach(world, Entry) /\ Entry.merged = merged /\ Entry \in Entries
      BY <3>1, EntryTyped DEF ReachInv, Entry
    <3>3. Begins(shown', Entry.merged)
      BY <2>4, <2>7, <3>1, <3>2
    <3>4. PICK e \in Entries : Reach(world, e) /\ Begins(shown', e.merged)
      BY <3>2, <3>3
    <3>5. Reach(world, e)'
      BY <1>1, <3>4 DEF Reach
    <3>6. QED BY <3>4, <3>5
  <2>10. QED BY <1>1, <1>4, <2>3, <2>6, <2>8, <2>9 DEF CallerInv, Begins
<1>10. QED BY <1>8, <1>9

\* What a caller was given continues to fit what is merged.
LEMMA NextCaller ==
    ASSUME IInv, CallerTyping, ReachInv, CallerInv, [Next]_vars
    PROVE  CallerInv'
<1> USE DEF entryVars, requestVars, callerVars, historyVars
<1>1. CallerTyping'
  BY NextCallerTyping
<1>2. /\ shown \in Seq(Items) /\ merged \in Seq(Items) /\ EntryTyping
  BY DEF IInv, EntryTyping, CallerTyping
<1>3. ASSUME UNCHANGED <<world, request, callerVars, rebuilt, resorted, merged>>,
             pc' # "idle" => pc # "idle", disturbed => disturbed'
      PROVE  CallerInv'
  <2>1. ~ exhausted /\ ~ rebuilt /\ ~ resorted => Begins(shown, merged')
    BY <1>3 DEF CallerInv
  <2>2. QED BY <1>1, <1>3, <2>1, CallerWaits
<1>4. ASSUME StartSearch PROVE CallerInv'
  <2>1. /\ NewEntry /\ shown' = <<>> /\ position' = 0 /\ ~ exhausted' /\ request'.offset = 0
    BY <1>4 DEF StartSearch, BeginRequest
  <2>2. Reach(world, EmptyEntry) /\ EmptyEntry \in Entries /\ EmptyEntry.merged = <<>>
    BY ReachEmpty, EmptyEntryTyped DEF EmptyEntry
  <2>3. Len(<<>>) = 0 /\ Begins(<<>>, <<>>) /\ NoDuplicates(<<>>)
    BY DEF Begins, NoDuplicates
  <2>4. merged' = <<>>
    BY <2>1 DEF NewEntry
  <2>5. \E e \in Entries : Reach(world, e) /\ Begins(shown', e.merged)
    BY <2>1, <2>2, <2>3
  <2>6. QED BY <1>4, <2>1, <2>3, <2>4, <2>5 DEF StartSearch, CallerInv, Begins, NoDuplicates, Reach
<1>5. ASSUME NEW loadAll \in BOOLEAN, ContinueSearch(loadAll) PROVE CallerInv'
  <2>1. /\ ~ exhausted /\ request' = [offset |-> position, loadAll |-> loadAll]
        /\ UNCHANGED <<world, shown, position, exhausted, disturbed, resorted>>
        /\ IF inCache THEN UNCHANGED <<merged, rebuilt>> ELSE rebuilt' = TRUE
    BY <1>5 DEF ContinueSearch, BeginRequest
  <2>2. ~ exhausted' /\ request'.offset = position' /\ position' = Len(shown')
    BY <2>1 DEF CallerInv
  <2>3. /\ ~ (rebuilt' /\ disturbed') /\ ~ resorted' => NoDuplicates(shown)'
        /\ resorted' => Source' = "API"
    BY <2>1 DEF CallerInv, NoDuplicates, Source
  <2>4. ~ rebuilt' /\ ~ resorted' => Begins(shown, merged)'
    BY <2>1 DEF CallerInv, Begins
  <2>5. ~ disturbed' /\ ~ resorted' => \E e \in Entries : Reach(world, e) /\ Begins(shown, e.merged)
    BY <2>1 DEF CallerInv
  <2>6. QED BY <2>1, <2>2, <2>3, <2>4, <2>5 DEF CallerInv, Begins, Reach
<1>6. ASSUME NEW i \in Indexers, Upload(i) PROVE CallerInv'
  <2>1. disturbed' /\ UNCHANGED <<pc, request, merged, callerVars, rebuilt, resorted>>
    BY <1>6 DEF Upload
  <2>2. Source' = Source
    BY <1>6 DEF Upload, Source, IInv, EntryTyping, World
  <2>3. QED BY <2>1, <2>2 DEF CallerInv, Begins, NoDuplicates
<1>7. ASSUME NEW outcome \in [Indexers -> {"ok", "failed", "cancelled"}], QueryRound(outcome) PROVE CallerInv'
  BY <1>3, <1>7 DEF QueryRound
<1>8. ASSUME MergeCachedResults PROVE CallerInv'
  <2>1. UNCHANGED <<world, request, callerVars, historyVars>> /\ pc = "merge"
    BY <1>8 DEF MergeCachedResults
  <2>2. PICK i \in GetIndexersWithCachedResults : merged' = Append(merged, Peek(i)) \/ merged' = merged
    BY <1>8 DEF MergeCachedResults
  <2>3. Peek(i) \in Items
    BY <1>2, Peeked
  <2>4. Begins(shown, merged) => Begins(shown, merged')
    BY <1>2, <2>2, <2>3, BeginsAppend
  <2>5. QED BY <1>1, <2>1, <2>4, CallerWaits DEF CallerInv
<1>9. ASSUME Respond PROVE CallerInv'
  BY <1>9, RespondCaller
<1>10. CASE Expire \/ Shortcut \/ LoopStop \/ UNCHANGED vars
  BY <1>3, <1>10 DEF Expire, Shortcut, LoopStop, vars
<1>11. CASE AddToGroups \/ AddToGroupsDone \/ MergeDone
  BY <1>3, <1>11 DEF AddToGroups, AddToGroupsDone, MergeDone
<1>12. CASE EndRound \/ \E saved \in SUBSET Indexers : EndRoundFails(saved)
  BY <1>3, <1>12 DEF EndRound, EndRoundFails
<1>13. QED
  BY <1>4, <1>5, <1>6, <1>7, <1>8, <1>9, <1>10, <1>11, <1>12 DEF Next, SearchStep

\* The web UI gets everything merged, whether it asks for the next page or for everything.
LEMMA RespondHoldsNothingBack ==
    ASSUME IInv, CallerTyping, ReachInv, CallerInv, Respond, Source = "INTERNAL", ~ (rebuilt /\ disturbed)
    PROVE  InSeq(merged) \subseteq InSeq(shown')
<1>1. /\ pc = "respond" /\ shown' = shown \o (IF request.loadAll THEN Unseen(Response) ELSE Response)
  BY DEF Respond
<1>2. ~ exhausted /\ request.offset = Len(shown)
  BY <1>1 DEF CallerInv
<1>3. /\ merged \in Seq(Items) /\ Len(merged) \in Nat /\ DOMAIN merged = 1..Len(merged)
      /\ shown \in Seq(Items) /\ Len(shown) \in Nat /\ DOMAIN shown = 1..Len(shown)
      /\ EntryTyping /\ Ordered = merged /\ ~ resorted
  BY LenProperties DEF IInv, EntryTyping, CallerTyping, Ordered, CallerInv
<1> DEFINE more == IF request.loadAll THEN Unseen(Response) ELSE Response
<1>4. more \in Seq(Items)
  BY <1>3, ResponseTyping, UnseenResults DEF CallerTyping
<1> HIDE DEF more
<1>5. /\ Len(more) \in Nat /\ DOMAIN more = 1..Len(more)
      /\ DOMAIN (shown \o more) = 1..(Len(shown) + Len(more))
      /\ \A k \in 1..(Len(shown) + Len(more)) :
            (shown \o more)[k] = IF k <= Len(shown) THEN shown[k] ELSE more[k - Len(shown)]
  BY <1>3, <1>4, ConcatProperties, LenProperties
<1>6. InSeq(shown) \subseteq InSeq(shown \o more)
  <2>1. ASSUME NEW k \in 1..Len(shown) PROVE \E j \in DOMAIN (shown \o more) : (shown \o more)[j] = shown[k]
    <3>1. k \in DOMAIN (shown \o more) /\ (shown \o more)[k] = shown[k]
      BY <1>3, <1>5
    <3>2. QED BY <3>1
  <2>2. QED BY <1>3, <2>1 DEF InSeq
<1>7. InSeq(more) \subseteq InSeq(shown \o more)
  <2>1. ASSUME NEW k \in 1..Len(more) PROVE \E j \in DOMAIN (shown \o more) : (shown \o more)[j] = more[k]
    <3>1. Len(shown) + k \in DOMAIN (shown \o more) /\ (shown \o more)[Len(shown) + k] = more[k]
      BY <1>3, <1>5
    <3>2. QED BY <3>1
  <2>2. QED BY <1>5, <2>1 DEF InSeq
<1>8. CASE request.loadAll
  <2>1. Response = merged
    BY <1>3, <1>8, ResponseSlice
  <2>2. InSeq(more) = InSeq(merged) \ InSeq(shown)
    BY <1>3, <1>8, <2>1, UnseenResults DEF more
  <2>3. QED BY <1>1, <1>6, <1>7, <2>2 DEF more
<1>9. CASE ~ request.loadAll
  <2>1. /\ Len(more) = IF Len(shown) < Len(merged) THEN Len(merged) - Len(shown) ELSE 0
        /\ \A k \in 1..Len(more) : more[k] = merged[Len(shown) + k]
    <3>1. /\ Len(Response) = IF Len(shown) < Len(merged) THEN Len(merged) - Len(shown) ELSE 0
          /\ \A k \in 1..Len(Response) : Response[k] = merged[Len(shown) + k]
      BY <1>2, <1>3, <1>9, ResponseSlice
    <3>2. QED BY <1>9, <3>1 DEF more
  <2>2. Begins(shown, merged) \/ Begins(merged, shown)
    BY <1>2, <1>3, ShownAgrees
  <2>3. ASSUME NEW k \in 1..Len(merged) PROVE merged[k] \in InSeq(shown) \/ merged[k] \in InSeq(more)
    <3>1. CASE k <= Len(shown)
      <4>1. k \in DOMAIN shown /\ shown[k] = merged[k]
        BY <1>3, <2>2, <3>1 DEF Begins
      <4>2. QED BY <4>1 DEF InSeq
    <3>2. CASE k > Len(shown)
      <4>0. /\ Len(shown) \in Nat /\ Len(merged) \in Nat /\ DOMAIN more = 1..Len(more)
            /\ Len(more) = IF Len(shown) < Len(merged) THEN Len(merged) - Len(shown) ELSE 0
        BY <1>3, <1>5, <2>1
      <4>1. k - Len(shown) \in DOMAIN more /\ Len(shown) + (k - Len(shown)) = k
        BY ONLY <4>0, <3>2, k \in 1..Len(merged)
      <4>2. more[k - Len(shown)] = merged[k]
        BY <1>5, <2>1, <4>1
      <4>3. QED BY <4>1, <4>2 DEF InSeq
    <3>3. QED BY <1>3, <3>1, <3>2
  <2>4. InSeq(merged) \subseteq InSeq(shown) \cup InSeq(more)
    BY <1>3, <2>3 DEF InSeq
  <2>5. QED BY <1>1, <1>6, <1>7, <2>4 DEF more
<1>10. QED BY <1>8, <1>9

\* No step leaves anything behind which the web UI is not given.
LEMMA NextHeldBack ==
    ASSUME IInv, CallerTyping, RoundInv, ReachInv, CallerInv, NothingHeldBack,
           [Next]_vars, RoundInv', IInv'
    PROVE  NothingHeldBack'
<1> USE DEF entryVars, requestVars, callerVars, historyVars
<1>1. SUFFICES ASSUME Source' = "INTERNAL", pc' = "idle", inCache', dbErrors' = 0, ~ (rebuilt' /\ disturbed')
               PROVE  (popped = loaded /\ InSeq(merged) \subseteq InSeq(shown))'
  BY DEF NothingHeldBack
<1>2. (popped = loaded)'
  BY <1>1 DEF RoundInv, AllMerged, IInv, MergedOnce
<1>3. ASSUME UNCHANGED <<pc, merged, shown, inCache, dbErrors, rebuilt>>, disturbed => disturbed', Source' = Source
      PROVE  (InSeq(merged) \subseteq InSeq(shown))'
  BY <1>1, <1>3 DEF NothingHeldBack, InSeq
<1>4. ASSUME Respond PROVE (InSeq(merged) \subseteq InSeq(shown))'
  <2>1. Source = "INTERNAL" /\ ~ (rebuilt /\ disturbed) /\ merged' = merged
    BY <1>1, <1>4 DEF Respond, Source
  <2>2. QED BY <1>4, <2>1, RespondHoldsNothingBack DEF InSeq
<1>5. ~ \E saved \in SUBSET Indexers : EndRoundFails(saved)
  <2>1. dbErrors \in Nat
    BY BoundsAssumption DEF CallerTyping
  <2>2. ASSUME NEW saved \in SUBSET Indexers, EndRoundFails(saved) PROVE FALSE
    <3>1. dbErrors' = dbErrors + 1 /\ dbErrors' = 0
      BY <1>1, <2>2 DEF EndRoundFails
    <3>2. QED BY ONLY <2>1, <3>1
  <2>3. QED BY <2>2
<1>6. ~ StartSearch /\ ~ (\E loadAll \in BOOLEAN : ContinueSearch(loadAll)) /\ ~ Expire /\ ~ EndRound
  BY <1>1 DEF StartSearch, ContinueSearch, BeginRequest, Expire, EndRound
<1>7. ~ Shortcut /\ ~ LoopStop /\ ~ AddToGroups /\ ~ AddToGroupsDone /\ ~ MergeCachedResults /\ ~ MergeDone
  BY <1>1 DEF Shortcut, LoopStop, AddToGroups, AddToGroupsDone, MergeCachedResults, MergeDone
<1>8. ~ \E outcome \in [Indexers -> {"ok", "failed", "cancelled"}] : QueryRound(outcome)
  BY <1>1 DEF QueryRound
<1>9. ASSUME NEW i \in Indexers, Upload(i) PROVE (InSeq(merged) \subseteq InSeq(shown))'
  <2>1. world'.source = world.source
    BY <1>9 DEF Upload, IInv, EntryTyping, World
  <2>2. QED BY <1>3, <1>9, <2>1 DEF Upload, Source
<1>10. ASSUME UNCHANGED vars PROVE (InSeq(merged) \subseteq InSeq(shown))'
  BY <1>3, <1>10 DEF vars, Source
<1>11. QED BY <1>2, <1>4, <1>5, <1>6, <1>7, <1>8, <1>9, <1>10 DEF Next, SearchStep

-----------------------------------------------------------------------------

\* Who searches does not change.
LEMMA SameSource == IInv /\ [Next]_vars => Source' = Source
<1> SUFFICES ASSUME IInv, [Next]_vars PROVE Source' = Source
  OBVIOUS
<1>1. ASSUME NEW i \in Indexers, Upload(i) PROVE Source' = Source
  BY <1>1 DEF Upload, Source, IInv, EntryTyping, World
<1>2. CASE StartSearch \/ Expire \/ Shortcut \/ UNCHANGED vars
  BY <1>2 DEF StartSearch, Expire, Shortcut, vars, Source
<1>3. CASE (\E loadAll \in BOOLEAN : ContinueSearch(loadAll)) \/ SearchStep
  BY <1>3 DEF ContinueSearch, SearchStep, LoopStop, QueryRound, AddToGroups, AddToGroupsDone,
     MergeCachedResults, MergeDone, EndRound, EndRoundFails, Respond, Source
<1>4. QED BY <1>1, <1>2, <1>3 DEF Next

\* What is invariant about a search. Orderly indexers keep it in order.
SearchInv ==
    /\ IInv /\ CallerTyping /\ RoundInv /\ ReachInv /\ CallerInv /\ NothingHeldBack
    /\ Orderly(world) => OrderInv /\ ~ resorted

\* What is in order is not sorted again, and orderly indexers stay so.
LEMMA NextOrderly ==
    ASSUME IInv, CallerInv, Orderly(world) => OrderInv /\ ~ resorted, [Next]_vars
    PROVE  Orderly(world') => OrderInv' /\ ~ resorted'
<1> USE DEF entryVars, requestVars, callerVars, historyVars
<1>1. ASSUME NEW i \in Indexers, Upload(i) PROVE ~ Orderly(world')
  <2>1. world.uploads # {} /\ world' = [world EXCEPT !.catalogue = world'.catalogue]
    BY <1>1 DEF Upload, IInv, EntryTyping, World
  <2>2. world'.uploads # {}
    BY <2>1 DEF IInv, EntryTyping, World
  <2>3. QED BY <2>2 DEF Orderly
<1>2. SUFFICES ASSUME Orderly(world'), ~ \E i \in Indexers : Upload(i) PROVE OrderInv' /\ ~ resorted'
  BY <1>1
<1>3. world' = world
  BY <1>2 DEF Next, SearchStep, vars, StartSearch, ContinueSearch, Expire, Shortcut, LoopStop, QueryRound,
     AddToGroups, AddToGroupsDone, MergeCachedResults, MergeDone, EndRound, EndRoundFails, Respond
<1>4. Orderly(world) /\ OrderInv /\ ~ resorted
  BY <1>2, <1>3
<1>5. OrderInv'
  BY <1>4, NextOrder
<1>6. ASSUME Respond PROVE ~ resorted'
  <2>1. Source = "API" => Ordered = merged
    BY <1>4, SortedAlready DEF OrderInv, NewestMerged, Ordered, IInv, EntryTyping
  <2>2. Ordered = merged
    BY <2>1 DEF Ordered
  <2>3. QED BY <1>4, <1>6, <2>2 DEF Respond
<1>7. ASSUME ~ Respond PROVE ~ resorted'
  BY <1>2, <1>4, <1>7 DEF Next, SearchStep, vars, StartSearch, ContinueSearch, Expire, Shortcut, LoopStop,
     QueryRound, AddToGroups, AddToGroupsDone, MergeCachedResults, MergeDone, EndRound, EndRoundFails
<1>8. QED BY <1>5, <1>6, <1>7

\* What is invariant about a search holds in every state.
LEMMA SearchInvariant == Spec => []SearchInv
<1>1. Init => SearchInv
  <2> SUFFICES ASSUME Init PROVE SearchInv
    OBVIOUS
  <2>1. NothingHeldBack
    BY DEF Init, NothingHeldBack
  <2>2. ~ resorted
    BY DEF Init
  <2>3. QED BY <2>1, <2>2, InitIInv, InitCallerTyping, InitOrder, InitRound, InitCaller DEF SearchInv
<1>2. SearchInv /\ [Next]_vars => SearchInv'
  <2> SUFFICES ASSUME SearchInv, [Next]_vars PROVE SearchInv'
    OBVIOUS
  <2>1. IInv /\ CallerTyping /\ RoundInv /\ ReachInv /\ CallerInv
    BY DEF SearchInv
  <2>2. IInv' /\ CallerTyping' /\ RoundInv' /\ ReachInv' /\ CallerInv'
    BY <2>1, NextIInv, NextCallerTyping, NextRound, NextReach, NextCaller
  <2>3. Orderly(world') => OrderInv' /\ ~ resorted'
    BY <2>1, NextOrderly DEF SearchInv
  <2>4. NothingHeldBack'
    BY <2>1, <2>2, NextHeldBack DEF SearchInv
  <2>5. QED BY <2>2, <2>3, <2>4 DEF SearchInv
<1>3. QED BY <1>1, <1>2, PTL DEF Spec

\* Every variable of the search keeps its type: the limits of a page, and the positions of a
\* stable sort, stay within the results.
THEOREM Typed == Spec => []TypeOK
<1>1. SearchInv => TypeOK
  BY DEF SearchInv, IInv, EntryTyping, CallerTyping, TypeOK
<1>2. QED BY SearchInvariant, <1>1, PTL

\* What an API client of orderly indexers gets is newest first over all rounds, pages and
\* failures: an indexer is asked again before anything older than what it may still have is merged.
THEOREM NewestFirstOverall == Spec => []MergedNewestFirst
<1>1. SearchInv => MergedNewestFirst
  BY DEF SearchInv, OrderInv, NewestMerged, MergedNewestFirst
<1>2. QED BY SearchInvariant, <1>1, PTL

\* The sort before a page is cut out changes nothing for the web UI and for orderly indexers,
\* for whom the two theorems below hold without exception.
THEOREM NeverResorted == Spec => [](Source = "INTERNAL" \/ Orderly(world) => ~ resorted)
<1>1. SearchInv => (Source = "INTERNAL" \/ Orderly(world) => ~ resorted)
  BY DEF SearchInv, CallerInv
<1>2. QED BY SearchInvariant, <1>1, PTL

\* Pages which were returned do not overlap unless the sort before one of them was cut out moved
\* something, for all indexers and rejected results, and also when the search was evicted
\* and done again: a search of unchanged indexers comes by the same merged results.
THEOREM PagesDoNotOverlap == Spec => []NothingReturnedTwice
<1>1. SearchInv => NothingReturnedTwice
  BY DEF SearchInv, IInv, EntryTyping, CallerTyping, TypeOK, CallerInv, NothingReturnedTwice
<1>2. QED BY SearchInvariant, <1>1, PTL

\* The web UI is given all that was retrieved, for all indexers and uploads, and also by a search
\* which was cut short or done again.
THEOREM AllIsShown == Spec => []NothingHeldBack
<1>1. SearchInv => NothingHeldBack
  BY DEF SearchInv
<1>2. QED BY SearchInvariant, <1>1, PTL

-----------------------------------------------------------------------------
(* Nothing is lost                                                         *)

\* An indexer has nothing behind what it was asked for.
AskedForAll(i) == GetNextOffset(i) >= Len(Catalogue(i))

\* Without failures what an indexer was asked for was loaded or rejected, and an indexer which
\* has no more was asked for all: checkForInvalidTotal ends only what is over.
LoadedSoFar ==
    ~ disturbed =>
        \A i \in Indexers :
            /\ IsLastSuccessful(i)
            /\ \A k \in 1..Len(Catalogue(i)) :
                  k <= GetNextOffset(i) => Catalogue(i)[k] \in loaded \cup world.rejected
            /\ ~ IsMoreResultsAvailable(i) => AskedForAll(i)

\* A web UI's search removes no duplicates.
NoneRemoved == Source = "INTERNAL" => removed = {}

\* What a round which brought nothing, merged nothing and removed nothing tells.
FruitlessRound ==
    pc \in {"group", "merge", "endRound"} =>
        /\ round.merged <= Len(merged) /\ round.removed <= Cardinality(removed)
        /\ Len(merged) = round.merged /\ Cardinality(removed) = round.removed =>
              /\ ~ disturbed /\ ~ round.advanced =>
                    \A i \in Indexers : AskedForAll(i) \/ queries[i] >= QueryCap \/ Cached(i) # {}
              /\ pc = "endRound" => loaded \subseteq popped

\* Why the loop ended: there is enough for a page, or nothing left to ask for or to merge.
EnoughMerged == ~ request.loadAll /\ Len(merged) >= request.offset + Limit
Finished == loaded \subseteq popped /\ \A i \in Indexers : AskedForAll(i)

LoopEnded ==
    pc = "respond" /\ ~ shortcut /\ ~ disturbed /\ ~ CapReached =>
        EnoughMerged \/ (SingleRound /\ merged # <<>>) \/ Finished

LossInv == LoadedSoFar /\ NoneRemoved /\ FruitlessRound /\ LoopEnded /\ NothingLost

\* An indexer is not asked because it was asked for all, its cap is reached or something waits.
LEMMA NotAsked ==
    ASSUME EntryTyping, LoadedSoFar, ~ disturbed, NEW i \in Indexers, i \notin GetIndexersToSearch
    PROVE  AskedForAll(i) \/ queries[i] >= QueryCap \/ Cached(i) # {}
<1>1. queries[i] \in Nat /\ QueryCap \in Nat /\ QueryCap <= MaxQueriesLoadAll /\ MaxQueriesLoadAll \in Nat
  BY BoundsAssumption DEF EntryTyping, QueryCap
<1>2. queries[i] >= QueryCap \/ (queries[i] < QueryCap /\ queries[i] < MaxQueriesLoadAll)
  BY <1>1
<1>3. IsLastSuccessful(i) /\ (~ IsMoreResultsAvailable(i) => AskedForAll(i))
  BY DEF LoadedSoFar
<1>4. queries[i] # 0 \/ IsMoreResultsAvailable(i)
  BY DEF IsMoreResultsAvailable
<1>5. QED BY <1>2, <1>3, <1>4 DEF GetIndexersToSearch, IsMoreResultsInCache

\* How many results were removed is a number.
LEMMA RemovedCount ==
    ASSUME EntryTyping
    PROVE  IsFiniteSet(removed) /\ Cardinality(removed) \in Nat /\ Len(merged) \in Nat
BY ItemsAssumption, FS_Subset, FS_CardinalityType, LenProperties DEF EntryTyping

\* Steps which leave alone what was loaded.
LEMMA LoadedKept ==
    ASSUME LoadedSoFar, UNCHANGED <<world, queries, last, loaded>>, ~ disturbed' => ~ disturbed
    PROVE  LoadedSoFar'
BY DEF LoadedSoFar, IsLastSuccessful, GetNextOffset, IsMoreResultsAvailable, AskedForAll, Catalogue

\* A new entry was asked for nothing yet.
LEMMA LoadedByNewEntry ==
    ASSUME IInv', NewEntry
    PROVE  LoadedSoFar'
<1>1. \A i \in Indexers : queries'[i] = 0
  BY DEF NewEntry
<1>2. \A i \in Indexers : GetNextOffset(i)' = 0 /\ IsLastSuccessful(i)' /\ IsMoreResultsAvailable(i)'
  BY <1>1 DEF GetNextOffset, IsLastSuccessful, IsMoreResultsAvailable
<1>3. \A i \in Indexers : \A k \in 1..Len(Catalogue(i))' : ~ (k <= 0)
  OBVIOUS
<1>4. QED BY <1>2, <1>3 DEF LoadedSoFar

\* A round loads the accepted results of the pages it asked for.
LEMMA QueryRoundLoads ==
    ASSUME IInv, LoadedSoFar, NEW outcome \in [Indexers -> {"ok", "failed", "cancelled"}], QueryRound(outcome)
    PROVE  LoadedSoFar'
<1> DEFINE asked == GetIndexersToSearch
           ok    == {i \in asked : outcome[i] = "ok"}
<1>1. SUFFICES ASSUME ~ disturbed' PROVE LoadedSoFar'
  BY DEF LoadedSoFar
<1>2. /\ ok = asked /\ ~ disturbed /\ UNCHANGED world
      /\ loaded' = loaded \cup UNION {Accepted(i) : i \in ok}
  BY <1>1 DEF QueryRound
<1>3. ASSUME NEW i \in asked
      PROVE  queries'[i] = queries[i] + 1 /\ last'[i] = PageResult(i, GetNextOffset(i)) /\ i \in Indexers
  BY <1>2 DEF QueryRound, GetIndexersToSearch
<1>4. ASSUME NEW i \in Indexers \ asked PROVE queries'[i] = queries[i] /\ last'[i] = last[i]
  BY DEF QueryRound
<1> HIDE DEF asked, ok
<1>5. ASSUME NEW i \in Indexers
      PROVE  /\ IsLastSuccessful(i)'
             /\ \A k \in 1..Len(Catalogue(i)) :
                    k <= GetNextOffset(i)' => Catalogue(i)[k] \in loaded' \cup world.rejected
             /\ ~ IsMoreResultsAvailable(i)' => GetNextOffset(i)' >= Len(Catalogue(i))
  <2> DEFINE c == Catalogue(i)
             n == Len(c)
             o == GetNextOffset(i)
             size == Len(PageAt(i, o))
  <2>1. CASE i \notin asked
    <3>1. GetNextOffset(i)' = GetNextOffset(i)
      BY <1>4, <2>1 DEF GetNextOffset
    <3>2. IsLastSuccessful(i)' = IsLastSuccessful(i) /\ IsMoreResultsAvailable(i)' = IsMoreResultsAvailable(i)
      BY <1>4, <2>1 DEF IsLastSuccessful, IsMoreResultsAvailable
    <3>3. QED BY <1>2, <3>1, <3>2 DEF LoadedSoFar, AskedForAll
  <2>2. CASE i \in asked
    <3>1. /\ o \in Nat /\ size \in Nat /\ n \in Nat /\ PageSize[i] \in Nat \ {0}
          /\ Accepted(i) = {c[k] : k \in {k \in 1..n : k > o /\ k <= o + size}} \ world.rejected
          /\ o + size >= n \/ size = PageSize[i]
      BY NextPage, CatalogueTyping, ItemsAssumption DEF IInv
    <3>2. /\ queries'[i] # 0
          /\ last'[i] = PageResult(i, o)
      BY <1>3, <2>2 DEF IInv, EntryTyping
    <3>3. /\ last'[i].offset = o /\ last'[i].size = size /\ last'[i].ok
          /\ ~ last'[i].more => ~ (o + size < n) \/ (o = 0 /\ size < PageSize[i])
      BY <3>2 DEF PageResult
    <3>4. GetNextOffset(i)' = o + size
      BY <3>2, <3>3 DEF GetNextOffset
    <3>5. \A k \in 1..n : k <= o => c[k] \in loaded \cup world.rejected
      BY <1>2 DEF LoadedSoFar
    <3>6. Accepted(i) \subseteq loaded'
      BY <1>2, <2>2
    <3>7. IsLastSuccessful(i)' /\ (IsMoreResultsAvailable(i)' <=> last'[i].more)
      BY <3>2, <3>3 DEF IsLastSuccessful, IsMoreResultsAvailable
    <3> HIDE DEF c, o, n, size
    <3>8. ASSUME NEW k \in 1..n, k <= o + size PROVE c[k] \in loaded' \cup world.rejected
      <4>1. CASE k <= o
        BY <1>2, <3>5, <4>1
      <4>2. CASE k > o
        BY <3>1, <3>6, <3>8, <4>2
      <4>3. QED BY <3>1, <4>1, <4>2
    <3>9. ~ last'[i].more => o + size >= n
      <4>1. o \in Nat /\ size \in Nat /\ n \in Nat /\ PageSize[i] \in Nat \ {0}
            /\ (o + size >= n \/ size = PageSize[i])
        BY <3>1
      <4>2. ~ (o + size < n) => o + size >= n
        BY <4>1
      <4>3. size < PageSize[i] => o + size >= n
        BY <4>1
      <4>4. QED BY <3>3, <4>2, <4>3
    <3>10. QED BY <3>4, <3>7, <3>8, <3>9 DEF c, o, n, size
  <2>3. QED BY <2>1, <2>2
<1>6. \A i \in Indexers : Catalogue(i)' = Catalogue(i)
  BY <1>2 DEF Catalogue
<1>7. QED BY <1>2, <1>5, <1>6 DEF LoadedSoFar, AskedForAll

\* A round in which every page that came was empty: who was asked has nothing more.
LEMMA QueryRoundFruitless ==
    ASSUME IInv, LoadedSoFar, NEW outcome \in [Indexers -> {"ok", "failed", "cancelled"}], QueryRound(outcome)
    PROVE  FruitlessRound'
<1> DEFINE asked == GetIndexersToSearch
           ok    == {i \in asked : outcome[i] = "ok"}
<1>1. /\ pc' = "group" /\ UNCHANGED <<world, popped, merged, removed, request>>
      /\ round'.merged = Len(merged) /\ round'.removed = Cardinality(removed)
      /\ loaded \subseteq loaded'
  BY DEF QueryRound
<1>2. Len(merged) \in Nat /\ Cardinality(removed) \in Nat
  BY RemovedCount DEF IInv
<1>3. QueryCap' = QueryCap
  BY <1>1 DEF QueryCap, UsesLoadAllQueryCap, Source
<1>4. SUFFICES ASSUME ~ disturbed', ~ round'.advanced, NEW i \in Indexers
               PROVE  AskedForAll(i)' \/ queries'[i] >= QueryCap \/ Cached(i)' # {}
  BY <1>1, <1>2, <1>3 DEF FruitlessRound
<1>5. ok = asked /\ ~ disturbed
  BY <1>4 DEF QueryRound
<1>6. CASE i \in asked
  <2>1. /\ queries'[i] = queries[i] + 1 /\ last'[i] = PageResult(i, GetNextOffset(i))
        /\ last'[i].size = 0
    BY <1>4, <1>5, <1>6 DEF QueryRound
  <2> HIDE DEF asked, ok
  <2> DEFINE o == GetNextOffset(i)
             n == Len(Catalogue(i))
  <2>2. /\ o \in Nat /\ n \in Nat /\ PageSize[i] \in Nat \ {0}
        /\ o + Len(PageAt(i, o)) >= n \/ Len(PageAt(i, o)) = PageSize[i]
    BY NextPage, CatalogueTyping, ItemsAssumption DEF IInv
  <2>3. last'[i].offset = o /\ Len(PageAt(i, o)) = 0
    BY <2>1 DEF PageResult
  <2>4. queries'[i] # 0
    BY <2>1 DEF IInv, EntryTyping
  <2>5. GetNextOffset(i)' = o + 0
    BY <2>1, <2>3, <2>4 DEF GetNextOffset
  <2> HIDE DEF o, n
  <2>6. o + 0 >= n
    BY <2>2, <2>3
  <2>7. AskedForAll(i)'
    BY <1>1, <2>5, <2>6 DEF AskedForAll, Catalogue, n
  <2>8. QED BY <2>7
<1>7. CASE i \notin asked
  <2>1. queries'[i] = queries[i] /\ last'[i] = last[i]
    BY <1>7 DEF QueryRound
  <2>2. AskedForAll(i) \/ queries[i] >= QueryCap \/ Cached(i) # {}
    BY <1>5, <1>7, NotAsked DEF IInv
  <2>3. AskedForAll(i)' = AskedForAll(i)
    BY <1>1, <2>1 DEF AskedForAll, GetNextOffset, Catalogue
  <2>4. Cached(i) \subseteq Cached(i)'
    BY <1>1 DEF Cached
  <2>5. QED BY <2>1, <2>2, <2>3, <2>4
<1>8. QED BY <1>6, <1>7

\* Everything merged shows in the number of merged or of removed results.
LEMMA MergeCounts ==
    ASSUME IInv, FruitlessRound, MergeCachedResults
    PROVE  FruitlessRound'
<1>1. pc = "merge" /\ round' = round
  BY DEF MergeCachedResults, requestVars
<1>2. IsFiniteSet(removed) /\ Cardinality(removed) \in Nat /\ Len(merged) \in Nat
  BY RemovedCount DEF IInv
<1>3. round.merged \in Nat /\ round.removed \in Nat /\ round.merged <= Len(merged) /\ round.removed <= Cardinality(removed)
  BY <1>1 DEF FruitlessRound, IInv, EntryTyping
<1>4. PICK i \in GetIndexersWithCachedResults :
          \/ merged' = Append(merged, Peek(i)) /\ removed' = removed
          \/ removed' = removed \cup {Peek(i)} /\ merged' = merged
  BY DEF MergeCachedResults
<1>5. Peek(i) \in loaded \ popped /\ Peek(i) \in Items
  BY <1>4, Peeked DEF IInv
<1>6. CASE merged' = Append(merged, Peek(i)) /\ removed' = removed
  <2>1. Len(merged') = Len(merged) + 1
    BY <1>5, <1>6, Appended DEF IInv, EntryTyping
  <2>2. round.merged <= Len(merged') /\ Len(merged') # round.merged
    BY <1>2, <1>3, <2>1
  <2>3. QED BY <1>1, <1>3, <1>6, <2>2 DEF FruitlessRound
<1>7. CASE removed' = removed \cup {Peek(i)} /\ merged' = merged
  <2>1. Peek(i) \notin removed
    BY <1>5 DEF IInv, MergedOnce
  <2>2. Cardinality(removed') = Cardinality(removed) + 1
    BY <1>2, <1>7, <2>1, FS_AddElement
  <2>3. round.removed <= Cardinality(removed') /\ Cardinality(removed') # round.removed
    BY <1>2, <1>3, <2>2
  <2>4. QED BY <1>1, <1>3, <1>7, <2>3 DEF FruitlessRound
<1>8. QED BY <1>4, <1>6, <1>7

\* Nothing waits where the merge is done.
LEMMA NoneWaits ==
    ASSUME IInv, \A x \in Items : Owner[x] \in Indexers, \A i \in Indexers : Cached(i) = {}
    PROVE  loaded \subseteq popped
BY DEF IInv, EntryTyping, Cached

\* Every step keeps what a fruitless round tells.
LEMMA NextFruitless ==
    ASSUME IInv, LoadedSoFar, FruitlessRound, [Next]_vars
    PROVE  FruitlessRound'
<1> USE DEF entryVars, requestVars, callerVars, historyVars
<1>1. ASSUME pc' \notin {"group", "merge", "endRound"} PROVE FruitlessRound'
  BY <1>1 DEF FruitlessRound
<1>2. ASSUME UNCHANGED <<world, queries, last, loaded, popped, merged, removed, request>>,
             round'.merged = round.merged, round'.removed = round.removed, round'.advanced = round.advanced,
             ~ disturbed' => ~ disturbed, pc \in {"group", "merge", "endRound"},
             pc' = "endRound" => pc = "endRound" \/ loaded \subseteq popped
      PROVE  FruitlessRound'
  <2>1. QueryCap' = QueryCap
    BY <1>2 DEF QueryCap, UsesLoadAllQueryCap, Source
  <2>2. \A i \in Indexers : AskedForAll(i)' = AskedForAll(i) /\ Cached(i)' = Cached(i)
    BY <1>2 DEF AskedForAll, GetNextOffset, Catalogue, Cached
  <2>3. QED BY <1>2, <2>1, <2>2 DEF FruitlessRound
<1>3. CASE StartSearch \/ (\E loadAll \in BOOLEAN : ContinueSearch(loadAll)) \/ Expire \/ Shortcut \/ LoopStop
  BY <1>1, <1>3 DEF StartSearch, ContinueSearch, BeginRequest, Expire, Shortcut, LoopStop
<1>4. CASE EndRound \/ (\E saved \in SUBSET Indexers : EndRoundFails(saved)) \/ Respond
  BY <1>1, <1>4 DEF EndRound, EndRoundFails, Respond
<1>5. ASSUME NEW i \in Indexers, Upload(i) PROVE FruitlessRound'
  <2>1. /\ disturbed' /\ UNCHANGED <<pc, round, merged, removed, loaded, popped>>
    BY <1>5 DEF Upload
  <2>2. QED BY <2>1 DEF FruitlessRound
<1>6. ASSUME NEW outcome \in [Indexers -> {"ok", "failed", "cancelled"}], QueryRound(outcome)
      PROVE  FruitlessRound'
  BY <1>6, QueryRoundFruitless
<1>7. ASSUME AddToGroups PROVE FruitlessRound'
  <2>1. PICK x \in round.fresh : round' = [round EXCEPT !.fresh = @ \ {x}]
    BY <1>7 DEF AddToGroups
  <2>2. round'.merged = round.merged /\ round'.removed = round.removed /\ round'.advanced = round.advanced
    BY <2>1 DEF IInv, EntryTyping
  <2>3. QED BY <1>2, <1>7, <2>2 DEF AddToGroups
<1>8. ASSUME AddToGroupsDone PROVE FruitlessRound'
  BY <1>2, <1>8 DEF AddToGroupsDone
<1>9. ASSUME MergeCachedResults PROVE FruitlessRound'
  BY <1>9, MergeCounts
<1>10. ASSUME MergeDone PROVE FruitlessRound'
  <2>1. \A i \in Indexers : Cached(i) = {}
    BY <1>10 DEF MergeDone, GetIndexersWithCachedResults, IsMoreResultsInCache
  <2>2. loaded \subseteq popped
    BY <2>1, NoneWaits, ItemsAssumption
  <2>3. QED BY <1>2, <1>10, <2>2 DEF MergeDone
<1>11. ASSUME UNCHANGED vars PROVE FruitlessRound'
  <2>1. CASE pc \in {"group", "merge", "endRound"}
    BY <1>2, <1>11, <2>1 DEF vars
  <2>2. CASE pc \notin {"group", "merge", "endRound"}
    BY <1>1, <1>11, <2>2 DEF vars
  <2>3. QED BY <2>1, <2>2
<1>12. QED BY <1>3, <1>4, <1>5, <1>6, <1>7, <1>8, <1>9, <1>10, <1>11 DEF Next, SearchStep

\* The loop ends where everything was loaded and merged, unless there's enough for a page.
LEMMA NextLoopEnded ==
    ASSUME IInv, LoadedSoFar, FruitlessRound, LoopEnded, [Next]_vars
    PROVE  LoopEnded'
<1> USE DEF entryVars, requestVars, callerVars, historyVars
<1>1. ASSUME pc' # "respond" \/ disturbed' PROVE LoopEnded'
  BY <1>1 DEF LoopEnded
<1>2. ASSUME UNCHANGED <<world, request, queries, last, loaded, popped, merged, shortcut, disturbed>>
      PROVE  /\ CapReached' = CapReached /\ EnoughMerged' = EnoughMerged /\ SingleRound' = SingleRound
             /\ Finished' = Finished /\ QueryCap' = QueryCap
  BY <1>2 DEF CapReached, QueryCap, UsesLoadAllQueryCap, EnoughMerged, SingleRound, Finished, AskedForAll,
     GetNextOffset, Catalogue, Source
<1>3. ASSUME NEW i \in Indexers, ~ CapReached PROVE ~ (queries[i] >= QueryCap)
  BY <1>3 DEF CapReached
<1>4. ASSUME LoopStop PROVE LoopEnded'
  <2>1. LoopShouldStop /\ UNCHANGED <<world, request, queries, last, loaded, popped, merged, shortcut, disturbed>>
    BY <1>4 DEF LoopStop
  <2>2. SUFFICES ASSUME ~ shortcut, ~ disturbed, ~ CapReached PROVE EnoughMerged \/ Finished
    BY <1>2, <2>1 DEF LoopEnded
  <2>3. CASE GetIndexersToSearch = {} /\ GetIndexersWithCachedResults = {}
    <3>1. \A i \in Indexers : Cached(i) = {}
      BY <2>3 DEF GetIndexersWithCachedResults, IsMoreResultsInCache
    <3>2. loaded \subseteq popped
      BY <3>1, NoneWaits, ItemsAssumption
    <3>3. \A i \in Indexers : AskedForAll(i)
      BY <1>3, <2>2, <2>3, <3>1, NotAsked DEF IInv
    <3>4. QED BY <3>2, <3>3 DEF Finished
  <2>4. QED BY <2>1, <2>2, <2>3 DEF LoopShouldStop, EnoughMerged, CapReached
<1>5. ASSUME EndRound PROVE LoopEnded'
  <2>1. /\ pc = "endRound" /\ UNCHANGED <<world, request, queries, last, loaded, popped, merged, shortcut, disturbed>>
        /\ pc' = "respond" => RoundWasFruitless \/ (SingleRound /\ merged # <<>>)
    BY <1>5 DEF EndRound
  <2>2. SUFFICES ASSUME RoundWasFruitless, ~ disturbed, ~ CapReached PROVE Finished
    BY <1>1, <1>2, <2>1 DEF LoopEnded
  <2>3. /\ loaded \subseteq popped
        /\ \A i \in Indexers : AskedForAll(i) \/ queries[i] >= QueryCap \/ Cached(i) # {}
    BY <2>1, <2>2 DEF FruitlessRound, RoundWasFruitless
  <2>4. \A i \in Indexers : Cached(i) = {}
    BY <2>3 DEF Cached
  <2>5. QED BY <1>3, <2>2, <2>3, <2>4 DEF Finished
<1>6. CASE StartSearch \/ (\E loadAll \in BOOLEAN : ContinueSearch(loadAll)) \/ Expire \/ Shortcut
  BY <1>1, <1>6 DEF StartSearch, ContinueSearch, BeginRequest, Expire, Shortcut
<1>7. CASE \E i \in Indexers : Upload(i)
  BY <1>1, <1>7 DEF Upload
<1>8. CASE \/ \E outcome \in [Indexers -> {"ok", "failed", "cancelled"}] : QueryRound(outcome)
           \/ AddToGroups \/ AddToGroupsDone
  BY <1>1, <1>8 DEF QueryRound, AddToGroups, AddToGroupsDone
<1>9. CASE MergeCachedResults \/ MergeDone \/ (\E saved \in SUBSET Indexers : EndRoundFails(saved)) \/ Respond
  BY <1>1, <1>9 DEF MergeCachedResults, MergeDone, EndRoundFails, Respond
<1>10. ASSUME UNCHANGED vars PROVE LoopEnded'
  <2>1. pc' = pc /\ shortcut' = shortcut /\ disturbed' = disturbed /\ merged' = merged
    BY <1>10 DEF vars
  <2>2. /\ CapReached' = CapReached /\ EnoughMerged' = EnoughMerged /\ SingleRound' = SingleRound
        /\ Finished' = Finished
    BY <1>2, <1>10 DEF vars
  <2>3. QED BY <2>1, <2>2 DEF LoopEnded
<1>11. QED BY <1>4, <1>5, <1>6, <1>7, <1>8, <1>9, <1>10 DEF Next, SearchStep

\* Every step keeps what was loaded complete up to the next offset.
LEMMA NextLoaded ==
    ASSUME IInv, LoadedSoFar, [Next]_vars
    PROVE  LoadedSoFar'
<1> USE DEF entryVars, requestVars, callerVars, historyVars
<1>1. CASE StartSearch
  BY <1>1, NextIInv, LoadedByNewEntry DEF StartSearch
<1>2. ASSUME NEW loadAll \in BOOLEAN, ContinueSearch(loadAll) PROVE LoadedSoFar'
  <2>1. UNCHANGED <<world, disturbed>>
    BY <1>2 DEF ContinueSearch
  <2>2. CASE inCache
    BY <1>2, <2>1, <2>2, LoadedKept DEF ContinueSearch
  <2>3. CASE ~ inCache
    BY <1>2, <2>3, NextIInv, LoadedByNewEntry DEF ContinueSearch
  <2>4. QED BY <2>2, <2>3
<1>3. CASE \E i \in Indexers : Upload(i)
  BY <1>3 DEF Upload, LoadedSoFar
<1>4. ASSUME NEW outcome \in [Indexers -> {"ok", "failed", "cancelled"}], QueryRound(outcome)
      PROVE  LoadedSoFar'
  BY <1>4, QueryRoundLoads
<1>5. CASE Expire \/ Shortcut \/ LoopStop \/ Respond \/ UNCHANGED vars
  BY <1>5, LoadedKept DEF Expire, Shortcut, LoopStop, Respond, vars
<1>6. CASE AddToGroups \/ AddToGroupsDone \/ MergeCachedResults \/ MergeDone
  BY <1>6, LoadedKept DEF AddToGroups, AddToGroupsDone, MergeCachedResults, MergeDone
<1>7. CASE EndRound \/ \E saved \in SUBSET Indexers : EndRoundFails(saved)
  BY <1>7, LoadedKept DEF EndRound, EndRoundFails
<1>8. QED BY <1>1, <1>2, <1>3, <1>4, <1>5, <1>6, <1>7 DEF Next, SearchStep

\* Only an API search removes duplicates.
LEMMA NextNoneRemoved ==
    ASSUME IInv, NoneRemoved, [Next]_vars
    PROVE  NoneRemoved'
<1> USE DEF entryVars, requestVars, callerVars, historyVars
<1>1. Source' = Source
  BY SameSource
<1>2. ASSUME removed' = removed \/ removed' = {} PROVE NoneRemoved'
  BY <1>1, <1>2 DEF NoneRemoved
<1>3. CASE StartSearch \/ \E loadAll \in BOOLEAN : ContinueSearch(loadAll)
  BY <1>2, <1>3 DEF StartSearch, ContinueSearch, NewEntry
<1>4. CASE Expire \/ Shortcut \/ (\E i \in Indexers : Upload(i)) \/ UNCHANGED vars
  BY <1>2, <1>4 DEF Expire, Shortcut, Upload, vars
<1>5. CASE MergeCachedResults
  <2>1. Source # "API" => removed' = removed
    BY <1>5 DEF MergeCachedResults
  <2>2. QED BY <1>1, <2>1 DEF NoneRemoved
<1>6. CASE SearchStep /\ ~ MergeCachedResults
  BY <1>2, <1>6 DEF SearchStep, LoopStop, QueryRound, AddToGroups, AddToGroupsDone, MergeDone,
     EndRound, EndRoundFails, Respond
<1>7. QED BY <1>3, <1>4, <1>5, <1>6 DEF Next

\* An API client which gets nothing has everything which was merged.
LEMMA NothingMoreToPage ==
    ASSUME IInv, CallerTyping, ReachInv, CallerInv, Ordered = merged, ~ resorted, Respond,
           Limit > 0, ~ request.loadAll, Response = <<>>, Source = "API", ~ (rebuilt /\ disturbed)
    PROVE  InSeq(merged) \subseteq InSeq(shown')
<1>1. /\ pc = "respond" /\ shown' = shown \o Response
  BY DEF Respond
<1>2. ~ exhausted /\ request.offset = Len(shown)
  BY <1>1 DEF CallerInv
<1>3. /\ merged \in Seq(Items) /\ Len(merged) \in Nat /\ DOMAIN merged = 1..Len(merged)
      /\ shown \in Seq(Items) /\ Len(shown) \in Nat /\ DOMAIN shown = 1..Len(shown)
      /\ EntryTyping /\ Limit \in Nat
  BY LenProperties, BoundsAssumption DEF IInv, EntryTyping, CallerTyping
<1>4. shown' = shown
  BY <1>1, <1>3, ConcatEmptySeq
<1>5. Len(merged) <= Len(shown)
  <2>1. Len(Response) = 0
    OBVIOUS
  <2> DEFINE behind == request.offset + Limit
             end == IF behind > Len(merged) THEN Len(merged) ELSE behind
  <2>2. Len(Response) = IF request.offset < end THEN end - request.offset ELSE 0
    BY <1>3, ResponseSlice
  <2>3. ~ (request.offset < end)
    <3>1. end \in Nat /\ request.offset \in Nat
      BY <1>2, <1>3
    <3> HIDE DEF end
    <3>2. QED BY <2>1, <2>2, <3>1
  <2>4. QED BY <1>2, <1>3, <2>3
<1>6. Begins(shown, merged) \/ Begins(merged, shown)
  BY <1>2, ShownAgrees
<1>7. ASSUME NEW k \in 1..Len(merged) PROVE k \in DOMAIN shown /\ shown[k] = merged[k]
  BY <1>3, <1>5, <1>6 DEF Begins
<1>8. QED BY <1>3, <1>4, <1>7 DEF InSeq

\* The answer which tells a caller that there's nothing more tells the truth.
LEMMA RespondLosesNothing ==
    ASSUME IInv, CallerTyping, RoundInv, ReachInv, CallerInv,
           LoadedSoFar, NoneRemoved, LoopEnded, Limit > 0, Respond
    PROVE  NothingLost'
<1> USE DEF entryVars, requestVars, historyVars
<1>1. /\ pc = "respond" /\ UNCHANGED <<world, queries, last, loaded, popped, merged, removed, groupOf,
                                       request, shortcut, disturbed, rebuilt>>
      /\ resorted' = (resorted \/ Ordered # merged)
      /\ exhausted' = (request.loadAll \/ Response = <<>>)
      /\ shown' = shown \o (IF request.loadAll THEN Unseen(Response) ELSE Response)
  BY DEF Respond
<1>2. CapReached' = CapReached
  BY <1>1 DEF CapReached, QueryCap, UsesLoadAllQueryCap, Source
<1>3. SUFFICES ASSUME request.loadAll \/ Response = <<>>, ~ shortcut, ~ disturbed, ~ CapReached,
                      ~ resorted, Ordered = merged
               PROVE  \A i \in Indexers : \A x \in InSeq(Catalogue(i)) \ world.rejected : \E y \in InSeq(shown') :
                          x = y \/ (Source = "API" /\ groupOf[x] # 0 /\ groupOf[x] = groupOf[y])
  <2>1. Source' = Source /\ (\A i \in Indexers : Catalogue(i)' = Catalogue(i)) /\ InSeq(shown)' = InSeq(shown')
    BY <1>1 DEF Source, Catalogue, InSeq
  <2>2. \A i \in Indexers : InSeq(Catalogue(i))' = InSeq(Catalogue(i))
    BY <1>1 DEF InSeq, Catalogue
  <2>3. NothingLost' \/ (exhausted' /\ ~ shortcut' /\ ~ disturbed' /\ ~ resorted' /\ ~ CapReached')
    BY DEF NothingLost
  <2>4. SUFFICES ASSUME exhausted', ~ shortcut', ~ disturbed', ~ resorted', ~ CapReached' PROVE NothingLost'
    BY <2>3
  <2>5. /\ request.loadAll \/ Response = <<>>
        /\ ~ shortcut /\ ~ disturbed /\ ~ CapReached /\ ~ resorted /\ Ordered = merged
    BY <1>1, <1>2, <2>4
  <2>6. \A i \in Indexers : \A x \in InSeq(Catalogue(i)) \ world.rejected : \E y \in InSeq(shown') :
            x = y \/ (Source = "API" /\ groupOf[x] # 0 /\ groupOf[x] = groupOf[y])
    BY <1>3, <2>5
  <2>7. \A i \in Indexers : \A x \in InSeq(Catalogue(i))' \ world'.rejected : \E y \in InSeq(shown)' :
            x = y \/ (Source' = "API" /\ groupOf'[x] # 0 /\ groupOf'[x] = groupOf'[y])
    BY <1>1, <2>1, <2>2, <2>6
  <2>8. QED BY <2>7 DEF NothingLost
<1>4. SUFFICES ASSUME NEW i \in Indexers, NEW x \in InSeq(Catalogue(i)) \ world.rejected
               PROVE  \E y \in InSeq(shown') :
                          x = y \/ (Source = "API" /\ groupOf[x] # 0 /\ groupOf[x] = groupOf[y])
  OBVIOUS
<1>5. /\ merged \in Seq(Items) /\ Len(merged) \in Nat /\ EntryTyping
      /\ request.offset \in Nat /\ Limit \in Nat
  BY LenProperties, BoundsAssumption DEF IInv, EntryTyping, CallerTyping
<1>6. Source \in {"API", "INTERNAL"}
  BY <1>5 DEF EntryTyping, World, Source
<1>7. Finished
  <2> DEFINE behind == IF Source = "INTERNAL" THEN Len(merged) ELSE request.offset + Limit
             end == IF behind > Len(merged) THEN Len(merged) ELSE behind
  <2>1. ~ request.loadAll =>
            /\ Response = <<>>
            /\ Len(Response) = IF request.offset < end THEN end - request.offset ELSE 0
    BY <1>3, <1>5, ResponseSlice
  <2>2. ~ request.loadAll => ~ (request.offset < end)
    <3>1. Len(<<>>) = 0
      OBVIOUS
    <3>2. end \in Nat
      BY <1>5
    <3> HIDE DEF end
    <3>3. QED BY <1>5, <2>1, <3>1, <3>2
  <2>3. ~ EnoughMerged
    BY <1>5, <2>2 DEF EnoughMerged
  <2>4. ~ (SingleRound /\ merged # <<>>)
    <3>1. SUFFICES ASSUME SingleRound PROVE ~ (0 < Len(merged))
      BY <1>5, EmptySeq
    <3>2. Source = "INTERNAL" /\ request.offset = 0 /\ ~ request.loadAll
      BY <3>1 DEF SingleRound
    <3>3. QED BY <1>5, <2>2, <3>2
  <2>5. QED BY <1>1, <1>3, <2>3, <2>4 DEF LoopEnded
<1>8. InSeq(merged) \subseteq InSeq(shown')
  BY <1>3, <1>5, <1>6, RespondHoldsNothingBack, NothingMoreToPage DEF RoundInv, ApiPages
<1>9. x \in loaded
  <2>1. DOMAIN Catalogue(i) = 1..Len(Catalogue(i)) /\ Len(Catalogue(i)) \in Nat /\ GetNextOffset(i) \in Nat
    BY <1>5, CatalogueTyping, PageTyping
  <2>2. PICK k \in 1..Len(Catalogue(i)) : x = Catalogue(i)[k]
    BY <1>4, <2>1 DEF InSeq
  <2>3. k <= GetNextOffset(i)
    BY <1>7, <2>1 DEF Finished, AskedForAll
  <2>4. QED BY <1>3, <1>4, <2>2, <2>3 DEF LoadedSoFar
<1>10. x \in popped /\ x \in InSeq(merged) \cup removed /\ groupOf[x] # 0
  BY <1>7, <1>9 DEF Finished, IInv, MergedOnce, Grouped
<1>11. CASE x \in InSeq(merged)
  BY <1>8, <1>11
<1>12. CASE x \in removed
  <2>1. Source = "API"
    BY <1>6, <1>12 DEF NoneRemoved
  <2>2. PICK y \in GroupMembers(groupOf[x]) : y \in InSeq(merged) \/ y \in loaded \ popped
    BY <1>12, <2>1 DEF IInv, EveryGroupOnce
  <2>3. y \in InSeq(merged) /\ groupOf[y] = groupOf[x]
    BY <1>7, <2>2 DEF Finished, GroupMembers
  <2>4. QED BY <1>8, <1>10, <2>1, <2>3
<1>13. QED BY <1>10, <1>11, <1>12

\* No step leaves a caller which got nothing without something.
LEMMA NextNothingLost ==
    ASSUME IInv, CallerTyping, RoundInv, ReachInv, CallerInv,
           LossInv, Limit > 0, [Next]_vars
    PROVE  NothingLost'
<1> USE DEF entryVars, requestVars, callerVars, historyVars
<1>1. ASSUME pc' # "idle" \/ disturbed' \/ ~ exhausted' PROVE NothingLost'
  BY <1>1 DEF NothingLost
<1>2. ASSUME UNCHANGED <<pc, exhausted, shortcut, disturbed, resorted, world, shown, groupOf, queries, request, merged>>
      PROVE  NothingLost'
  <2>1. CapReached' = CapReached
    BY <1>2 DEF CapReached, QueryCap, UsesLoadAllQueryCap, Source
  <2>2. NothingLost
    BY DEF LossInv
  <2>3. QED BY <1>2, <2>1, <2>2 DEF NothingLost, Catalogue, InSeq, Source
<1>3. CASE StartSearch \/ (\E loadAll \in BOOLEAN : ContinueSearch(loadAll)) \/ (\E i \in Indexers : Upload(i))
  BY <1>1, <1>3 DEF StartSearch, ContinueSearch, BeginRequest, Upload
<1>4. CASE Expire \/ UNCHANGED vars
  BY <1>2, <1>4 DEF Expire, vars
<1>5. CASE Shortcut \/ LoopStop \/ AddToGroups \/ AddToGroupsDone \/ MergeCachedResults \/ MergeDone
  BY <1>1, <1>5 DEF Shortcut, LoopStop, AddToGroups, AddToGroupsDone, MergeCachedResults, MergeDone
<1>6. CASE EndRound \/ \E outcome \in [Indexers -> {"ok", "failed", "cancelled"}] : QueryRound(outcome)
  BY <1>1, <1>6 DEF EndRound, QueryRound
<1>7. CASE \E saved \in SUBSET Indexers : EndRoundFails(saved)
  <2>1. pc = "endRound" /\ exhausted' = exhausted
    BY <1>7 DEF EndRoundFails
  <2>2. QED BY <1>1, <2>1 DEF CallerInv
<1>8. CASE Respond
  BY <1>8, RespondLosesNothing DEF LossInv
<1>9. QED BY <1>3, <1>4, <1>5, <1>6, <1>7, <1>8 DEF Next, SearchStep

\* Before the first request nothing is lost.
LEMMA InitLoss == Init => LossInv
<1> SUFFICES ASSUME Init PROVE LossInv
  OBVIOUS
<1>1. \A i \in Indexers : queries[i] = 0
  BY DEF Init
<1>2. \A i \in Indexers : GetNextOffset(i) = 0 /\ IsLastSuccessful(i) /\ IsMoreResultsAvailable(i)
  BY <1>1 DEF GetNextOffset, IsLastSuccessful, IsMoreResultsAvailable
<1>3. \A i \in Indexers : \A k \in 1..Len(Catalogue(i)) : ~ (k <= 0)
  OBVIOUS
<1>4. LoadedSoFar
  BY <1>2, <1>3 DEF LoadedSoFar
<1>5. NoneRemoved /\ FruitlessRound /\ LoopEnded /\ NothingLost
  BY DEF Init, NoneRemoved, FruitlessRound, LoopEnded, NothingLost
<1>6. QED BY <1>4, <1>5 DEF LossInv

\* A caller which pages until it gets nothing has got everything, or a duplicate of it, however
\* many rounds and rejected or overlapping pages it takes and whether or not the search is evicted
\* meanwhile, unless the sort before a page was cut out moved something. A limit of 0 gives
\* nothing from the start.
THEOREM EverythingIsFound ==
    ASSUME Limit > 0
    PROVE  Spec => []NothingLost
<1>1. SearchInv => CallerInv /\ IInv /\ CallerTyping /\ RoundInv /\ ReachInv
  BY DEF SearchInv
<1>2. SearchInv /\ LossInv /\ [Next]_vars => LossInv'
  <2> SUFFICES ASSUME SearchInv, LossInv, [Next]_vars PROVE LossInv'
    OBVIOUS
  <2>1. LoadedSoFar' /\ NoneRemoved' /\ FruitlessRound' /\ LoopEnded'
    BY <1>1, NextLoaded, NextNoneRemoved, NextFruitless, NextLoopEnded DEF LossInv
  <2>2. NothingLost'
    BY <1>1, NextNothingLost
  <2>3. QED BY <2>1, <2>2 DEF LossInv
<1>3. LossInv => NothingLost
  BY DEF LossInv
<1>4. QED BY SearchInvariant, InitLoss, <1>2, <1>3, PTL DEF Spec
=============================================================================
