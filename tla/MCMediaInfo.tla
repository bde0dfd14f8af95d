---------------------------- MODULE MCMediaInfo ----------------------------
(***************************************************************************)
(* Two urls, of which a chain can be built for one, and two ids: an id is  *)
(* used again when the newest entry was removed.  Four commands are an     *)
(* entry added, removed and added again while a thread is at work on it,   *)
(* and one more: a rehash, a song that is played, a playlist file or a     *)
(* restart.                                                                *)
(***************************************************************************)
EXTENDS MediaInfo
=============================================================================
