--------------------------- MODULE MCSegmentBits ---------------------------
(***************************************************************************)
(* The arguments of the setters: 0, all ones of each width, and the first  *)
(* number that no longer fits 16 bits.                                     *)
(***************************************************************************)
EXTENDS SegmentBits

BoundaryNumbers == {{}, 0..3, 0..14, 0..15, {16}}

\* Iteration numbers of 32 bits, and -1
SmallIds == {{}, {0}, 0..31}
NegativeIds == {0..63}
=============================================================================
