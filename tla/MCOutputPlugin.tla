--------------------------- MODULE MCOutputPlugin ---------------------------
(***************************************************************************)
(* OutputPlugin with two clients and three commands, so that a play, a     *)
(* pause and a stop can all cross one teardown.                            *)
(***************************************************************************)
EXTENDS OutputPlugin
=============================================================================
