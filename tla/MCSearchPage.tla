----------------------------- MODULE MCSearchPage -----------------------------
(***************************************************************************)
(* Instances of SearchPage for TLC: a search which can be typed in two     *)
(* ways that give the same URL, the route without a search and the route   *)
(* of a repeated search of the history, which is not the one that          *)
(* submitting it gives.                                                    *)
(***************************************************************************)
EXTENDS SearchPage, TLC

CONSTANTS movie, movieTyped, noValues, bare, movieRoute, repeatedMovie

MCValues == {movie, movieTyped}
MCRoutes == {bare, movieRoute, repeatedMovie}
MCExecutable == {movieRoute, repeatedMovie}
MCCanonical == (movie :> movieRoute) @@ (movieTyped :> movieRoute)
MCResolved == (bare :> movie) @@ (movieRoute :> movie) @@ (repeatedMovie :> movieTyped)
=============================================================================
