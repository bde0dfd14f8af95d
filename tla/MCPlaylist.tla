----------------------------- MODULE MCPlaylist -----------------------------
(***************************************************************************)
(* A list of up to two entries that jumps to a queue of up to three that   *)
(* jumps to itself, and a party shuffle of up to three whose jumplist is   *)
(* gone beside a list of one without any.  History and Upcoming are 1, so  *)
(* that the handlers trim and refill by one or more entries.               *)
(***************************************************************************)
EXTENDS Playlist, TLC

CONSTANTS a, b, gone

Both(x, y) == (a :> x) @@ (b :> y)

SetupChoices ==
  {[kind |-> Both("list", "queue"),    jumplist |-> Both(b, b),
    room |-> Both(2, 3)],
   [kind |-> Both("pshuffle", "list"), jumplist |-> Both(gone, NoList),
    room |-> Both(3, 1)]}

Symmetry == Permutations(Entry)
=============================================================================
