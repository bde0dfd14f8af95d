----------------------------- MODULE MCCollSync -----------------------------
(***************************************************************************)
(* Three changes by two editors and a server that is started again once:   *)
(* a change before, during and after a save, and one on either side of a   *)
(* crash or of the last save.                                              *)
(***************************************************************************)
EXTENDS CollSync
=============================================================================
