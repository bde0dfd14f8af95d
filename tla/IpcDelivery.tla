---------------------------- MODULE IpcDelivery -----------------------------
(***************************************************************************)
(* What the server's side of the IPC promises for every connection: what   *)
(* is put in a client's queue, by whichever thread, reaches the client     *)
(* once, whole and in the order it was put there, and it does reach it as  *)
(* long as the connection lasts.                                           *)
(***************************************************************************)
EXTENDS Naturals, Sequences

CONSTANTS Clients,    \* the connections
          Message     \* what can be queued for one

VARIABLES pending,    \* per connection: queued and not yet at the client
          got,        \* per connection: what the client received
          closed      \* the connections that ended

vars == <<pending, got, closed>>

Init == /\ pending = [c \in Clients |-> <<>>]
        /\ got = [c \in Clients |-> <<>>]
        /\ closed = {}

\* Several messages can be queued at once: one broadcast, for a client that
\* registered for it more than once.
Queue(c) ==
  LET before == Len(pending[c])
      added == SubSeq(pending'[c], before + 1, Len(pending'[c]))
  IN  /\ added \in Seq(Message) \ {<<>>}
      /\ pending' = [pending EXCEPT ![c] = @ \o added]
      /\ UNCHANGED <<got, closed>>

Deliver(c) == /\ c \notin closed
              /\ pending[c] # <<>>
              /\ pending' = [pending EXCEPT ![c] = Tail(@)]
              /\ got' = [got EXCEPT ![c] = Append(@, Head(pending[c]))]
              /\ UNCHANGED closed

\* Either side ends connections; what is queued and what was received of one
\* that ended is forgotten, sooner or later.
Forget(seqs) == {seqs} \cup {[seqs EXCEPT ![c] = <<>>] : c \in closed'}

Close == /\ closed \subseteq closed'
         /\ pending' \in Forget(pending)
         /\ got' \in Forget(got)

Next == Close \/ \E c \in Clients : Queue(c) \/ Deliver(c)

\* What may happen, ...
Safety == Init /\ [][Next]_vars

\* ... and what does happen in the end.
Spec == Safety /\ \A c \in Clients : WF_vars(Deliver(c))
=============================================================================
