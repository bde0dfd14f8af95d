----------------------------- MODULE MCRingBuf ------------------------------
(***************************************************************************)
(* RingBuf with three usable slots: enough for the indices to wrap with    *)
(* data on both sides of the end, and for two hotspots at one position or  *)
(* at two.  Requests of up to four bytes include one larger than the       *)
(* buffer.  Byte values and hotspot arguments are interchangeable.         *)
(***************************************************************************)
EXTENDS RingBuf, TLC

Symmetry == Permutations(Byte) \cup Permutations(Mark)
=============================================================================
