------------------------- MODULE MCConfigPersistence -------------------------
(***************************************************************************)
(* Instances of ConfigPersistence for TLC.                                 *)
(***************************************************************************)
EXTENDS ConfigPersistence

CONSTANTS theme, query, call

MCKeys == {theme}
MCSavedSearches == {query}
MCCalls == {call}
MCNone == {}
=============================================================================
