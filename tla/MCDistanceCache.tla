--------------------------- MODULE MCDistanceCache ---------------------------
(* DistanceCache for TLC: two calls, a cache for two matrices. The lists have *)
(* the same places in two orders, a place that cannot be located, and three   *)
(* places, which is enough here for the parallel calculation.                 *)
EXTENDS DistanceCache, TLC

MCPlaceLists ==
    { <<"a">>, <<"a", "b">>, <<"b", "a">>, <<"a", "b", "c">>,
      <<"x", "a">>, <<"a", "x", "b">> }
MCUnlocatable == {"x"}
MCSymmetry == Permutations(Calls)
==============================================================================
