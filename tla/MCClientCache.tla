--------------------------- MODULE MCClientCache ----------------------------
(***************************************************************************)
(* Two playlists, the active one with two entries, which can be moved, and *)
(* an empty one.  Three changes make room for one before the client has    *)
(* registered, one that the answer overtakes, and one in reply to which    *)
(* the client reloads, in any combination.                                 *)
(***************************************************************************)
EXTENDS ClientCache, TLC

CONSTANTS a, b, x, y

TwoLists == (a :> <<x, y>>) @@ (b :> <<>>)
=============================================================================
