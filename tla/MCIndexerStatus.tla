--------------------------- MODULE MCIndexerStatus ---------------------------
(***************************************************************************)
(* Instances of IndexerStatus for TLC.                                     *)
(***************************************************************************)
EXTENDS IndexerStatus

CONSTANTS c1, c2

MCTwoCalls == {c1, c2}
MCOneCall == {c1}

\* Calls one after the other to an indexer which can be reached.
MCReachable == {"result", "apiError"}
=============================================================================
