--------------------------- MODULE MCActiveSearches ---------------------------
(***************************************************************************)
(* Instances of ActiveSearches for TLC: a search, its continuation with    *)
(* the same ID, and another search running next to them.                   *)
(***************************************************************************)
EXTENDS ActiveSearches, TLC

CONSTANTS first, more, other, id1, id2, a, b

MCSearches == {first, more, other}
MCIds      == {id1, id2}
MCIdOf     == (first :> id1) @@ (more :> id1) @@ (other :> id2)
MCContinued == {first, more}
MCContinuedIdOf == (first :> id1) @@ (more :> id1)
MCOne      == {a}
MCTwo      == {a, b}
=============================================================================
