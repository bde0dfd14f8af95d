---------------------------- MODULE MCIpcClient -----------------------------
(***************************************************************************)
(* Two clients, two messages from them in all and two emissions: enough    *)
(* for a registration, a command or another emission on either side of     *)
(* one, for a queue that empties and fills while it is written, and for a  *)
(* client that comes or goes while the loop is at the other.  c1 reads     *)
(* what it is sent and may hang up; c2 does neither.                       *)
(***************************************************************************)
EXTENDS IpcClient
=============================================================================
