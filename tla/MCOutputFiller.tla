--------------------------- MODULE MCOutputFiller ---------------------------
(***************************************************************************)
(* OutputFiller with a buffer of two units, decoded one at a time and read *)
(* two at a time: the least that keeps both threads from waiting for each  *)
(* other, so every wait is met.  Two clients give three commands and the   *)
(* filler takes two songs, enough for a song to be jumped over, sought in  *)
(* or stopped while the other is decoded.                                  *)
(***************************************************************************)
EXTENDS OutputFiller
=============================================================================
