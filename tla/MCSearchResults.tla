---------------------------- MODULE MCSearchResults ----------------------------
(***************************************************************************)
(* Instances of SearchResults for TLC. The server has four results of two  *)
(* indexers: 1 and 2 are the same release, 3 has their title, 4 another.   *)
(* Another is rejected. They are merged in an order which is not that of   *)
(* their dates, as happens if one answer covers several rounds.            *)
(***************************************************************************)
EXTENDS SearchResults, TLC

CONSTANTS preferred, other, movie, show

MCAccepted == <<2, 4, 1, 3>>
MCRejectedUpTo == [n \in 0..4 |-> IF n < 2 THEN 0 ELSE 1]
MCEpochOf == (1 :> 4) @@ (2 :> 1) @@ (3 :> 2) @@ (4 :> 3)
MCIndexers == {preferred, other}
MCIndexerOf == (1 :> preferred) @@ (2 :> other) @@ (3 :> other) @@ (4 :> preferred)
MCScoreOf == (preferred :> 2) @@ (other :> 1)
MCTitleOf == (1 :> movie) @@ (2 :> movie) @@ (3 :> movie) @@ (4 :> show)
MCIdentityOf == (1 :> 1) @@ (2 :> 1) @@ (3 :> 3) @@ (4 :> 4)
MCValueOf == [epoch |-> MCEpochOf]
MCDownloaded == {2}
MCStoredChoices ==
    [column : {"epoch"}, descending : BOOLEAN, groupTitles : BOOLEAN, hideDownloaded : BOOLEAN,
     expandGroups : {FALSE}, duplicateControls : {TRUE}]
=============================================================================
