------------------------- MODULE MCMinAgeOffsetSearch -------------------------
(***************************************************************************)
(* MinAgeOffsetSearch for TLC: every sequence of up to five dates, sorted  *)
(* or not, and totals which are right, too small, too large or not known.  *)
(* Longer ones are sorted, so that the bisection needs several probes.     *)
(***************************************************************************)
EXTENDS MinAgeOffsetSearch

MCDates == 0..3

ShortWorlds ==
    LET worlds(n, totals, known) ==
            [dates : [1..n -> MCDates], total : totals \cap Nat, totalKnown : {known}]
    IN  UNION {worlds(n, {n - 1, n, n + 2}, TRUE) \cup worlds(n, {n}, FALSE) : n \in 0..5}

\* n results of which the last k are old enough.
LongWorlds ==
    {[dates |-> [r \in 1..n |-> IF r <= k THEN 0 ELSE 3], total |-> n + more, totalKnown |-> TRUE] :
        n \in 6..14, k \in 0..14, more \in {-3, 0, 4}}

MCWorlds == ShortWorlds \cup LongWorlds
=============================================================================
