--------------------------- MODULE MCShadowMemory ---------------------------
(* Bounds for the model checking of ShadowMemory. *)
EXTENDS ShadowMemory, TLC

CONSTANTS i1, i2, j1, j2

\* One byte or two bytes of one first level page; two bytes of different ones.
ShortRanges == {{<<i1, j1>>}, {<<i1, j2>>}, {<<i1, j1>>, <<i1, j2>>}}

CrossingRanges == {{<<i1, j1>>, <<i2, j1>>}}

Symmetry == Permutations(Threads)
=============================================================================
