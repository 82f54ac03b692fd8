---------------------------- MODULE MCSearchPaging ----------------------------
(***************************************************************************)
(* Instances of SearchPaging for TLC: two indexers, pages of one or two    *)
(* results, at most three pages each.                                      *)
(***************************************************************************)
EXTENDS SearchPaging, SequencesExt

CONSTANTS a, b

MCIndexers == {a, b}

\* b's score is higher, so that the better duplicate is not always the newer one.
MCScore == (a :> 1) @@ (b :> 2)

MCPageSize == (a :> 2) @@ (b :> 1)

\* Sorted newest first, as an indexer returns them.
NewestFirst(S) == SetToSortSeq(S, >)

MCItems == 1..7
MCOwner == [x \in MCItems |-> IF x \in {1, 4, 5, 7} THEN a ELSE b]

CatalogueOf(S) == [i \in MCIndexers |-> NewestFirst({x \in S : MCOwner[x] = i})]

AllWorlds(source, catalogues, uploads, rejected, same) ==
    [source : {source}, catalogue : catalogues, uploads : {uploads}, rejected : rejected, same : same]

\* Sets of pairs which are duplicates: none, newer of the lower score, a chain of
\* three (not transitive), two groups.
MCSame == {{}, {<<5, 3>>}, {<<7, 6>>, <<6, 4>>}, {<<5, 6>>, <<2, 4>>}}

MCLiars == {a}

\* With 5 and 7, or 3 and 6, rejected an indexer has pages without an accepted result.
MCApiWorlds ==
    AllWorlds("API", {CatalogueOf(MCItems)}, {},
              {{}, {1}, {5}, {6}, {1, 2}, {3, 4}, {2, 5}, {3, 6}, {5, 7}}, MCSame)

MCInternalWorlds ==
    AllWorlds("INTERNAL", {CatalogueOf(MCItems)}, {}, {{2, 3, 5}}, {{<<5, 3>>}})
        \cup AllWorlds("INTERNAL", {CatalogueOf(1..5)}, {6, 7}, {{}, {3, 4, 5, 6, 7}}, {{<<5, 3>>}})

MCWorlds == MCApiWorlds \cup MCInternalWorlds
=============================================================================
