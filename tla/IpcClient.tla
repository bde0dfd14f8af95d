----------------------------- MODULE IpcClient ------------------------------
(***************************************************************************)
(* The server's side of the IPC, src/src/xmms/ipc.c: one thread per client *)
(* runs a main loop with a source that reads commands and, while there is  *)
(* something to write, sources that write the queue out_msg; any thread of *)
(* the server emits signals and broadcasts, which puts messages in the     *)
(* queues of the clients that registered.                                  *)
(*                                                                         *)
(* Critical sections of one client's lock are single steps: nothing blocks *)
(* inside one.  The emission loop holds ipc_servers_lock and the server's  *)
(* mutex_lock from its first to its last client, so that both are taken    *)
(* exactly while "emission" is not Idle.                                   *)
(***************************************************************************)
EXTENDS SequencesExt

CONSTANTS Clients,        \* the clients that may connect, once each
          Stalled,        \* those of them that do not read what is sent
          Leaving,        \* those of them that may hang up
          MaxRequests,    \* bound: messages the clients send in all
          MaxEmissions    \* bound: signals and broadcasts emitted in all

ASSUME IpcAssumption ==
  /\ MaxRequests \in Nat /\ MaxEmissions \in Nat
  /\ Stalled \subseteq Clients /\ Leaving \subseteq Clients
  /\ "server" \notin Clients

\* No emission is in progress.
Idle == [by |-> "nobody", kind |-> "none", rest |-> <<>>]

\* A message is written in two parts at most: a write may accept all of it
\* or only a part, and what follows is written the next time.
Parts == 2

Garbled == "garbled"

Message == [kind : {"reply", "signal", "broadcast"},
            cookie : Nat \ {0}, val : Nat]

VARIABLES
  \* the server
  clients,          \* ipc->clients, in the order of the list
  ipc_servers,      \* the server is listed (until xmms_ipc_shutdown)
  emission,         \* the emission loop in progress, or Idle
  emitted,          \* the kinds of the emissions so far: the n-th has value n
  \* each client's record in the server
  thread,           \* where the client's thread is
  read_msg,         \* the command it processes: its cookie, and its effect
  ipc,              \* client->ipc is set
  out_msg,          \* messages waiting to be written
  xfered,           \* parts of the head already written
  sources,          \* write sources attached to the client's main loop
  pendingsignals,   \* cookie to answer when the signal is emitted, or 0
  broadcasts,       \* cookies registered for the broadcast
  since,            \* history: emissions begun when each was registered
  undefined,        \* a thread used freed memory: anything may follow
  \* the connection and the other end
  asked,            \* how many messages of the client were read
  partial,          \* the message whose first part only went down the socket
  got,              \* whole messages that went down the socket
  open              \* the client has not closed the connection

serverVars == <<clients, ipc_servers, emission, emitted>>
queueVars == <<out_msg, sources, pendingsignals>>
registered == <<broadcasts, since>>
socketVars == <<partial, got>>
peerVars == <<asked, open>>
vars == <<serverVars, thread, read_msg, ipc, queueVars, xfered, registered,
          undefined, socketVars, peerVars>>

NoCommand == [cookie |-> 0, val |-> 0]

Init == /\ clients = <<>> /\ ipc_servers = TRUE
        /\ emission = Idle /\ emitted = <<>>
        /\ thread = [c \in Clients |-> "none"]
        /\ read_msg = [c \in Clients |-> NoCommand]
        /\ ipc = [c \in Clients |-> FALSE]
        /\ out_msg = [c \in Clients |-> <<>>]
        /\ xfered = [c \in Clients |-> 0]
        /\ sources = [c \in Clients |-> 0]
        /\ pendingsignals = [c \in Clients |-> 0]
        /\ broadcasts = [c \in Clients |-> <<>>]
        /\ since = [c \in Clients |-> <<>>]
        /\ undefined = FALSE
        /\ asked = [c \in Clients |-> 0]
        /\ partial = [c \in Clients |-> <<>>]
        /\ got = [c \in Clients |-> <<>>]
        /\ open = [c \in Clients |-> TRUE]

(***************************************************************************)
(* The queue of a client                                                   *)
(***************************************************************************)

\* Mutation: a source is attached only if there is none.
ClientMsgWrite_IfNoSource(c, msgs) ==
  /\ out_msg' = [out_msg EXCEPT ![c] = @ \o msgs]
  /\ sources' = IF sources[c] = 0 /\ msgs # <<>>
                THEN [sources EXCEPT ![c] = @ + 1]
                ELSE sources

\* Queue messages for c under its lock.  A write source is attached by the
\* message that finds the queue empty.
ClientMsgWrite(c, msgs) ==
  /\ out_msg' = [out_msg EXCEPT ![c] = @ \o msgs]
  /\ sources' = IF out_msg[c] = <<>> /\ msgs # <<>>
                THEN [sources EXCEPT ![c] = @ + 1]
                ELSE sources

Goto(c, where) == thread' = [thread EXCEPT ![c] = where]

\* The main loop dispatches a write source, when the socket takes data or the
\* other end is gone, or the callback looks for the next message.
WritePeek(c) ==
  /\ \/ thread[c] = "loop" /\ sources[c] > 0
     \/ thread[c] = "peek"
  /\ Goto(c, IF out_msg[c] = <<>> THEN "done" ELSE "send")
  /\ UNCHANGED <<serverVars, read_msg, ipc, queueVars, xfered, registered,
                 undefined, socketVars, peerVars>>

\* The callback returns FALSE, after it released the lock: its source is
\* removed.
WriteDone(c) ==
  /\ thread[c] = "done"
  /\ sources' = [sources EXCEPT ![c] = @ - 1]
  /\ Goto(c, "loop")
  /\ UNCHANGED <<serverVars, read_msg, ipc, out_msg, pendingsignals, xfered,
                 registered, undefined, socketVars, peerVars>>

\* Mutation: a partly written message is taken for a written one.
Transfer_AlwaysDone(c, m, n) ==
  LET total == xfered[c] + n
      first == IF partial[c] = <<>> THEN m ELSE Head(partial[c])
  IN  /\ xfered' = [xfered EXCEPT ![c] = total]
      /\ partial' = [partial EXCEPT ![c] = IF Len(@) + n = 1 THEN <<first>>
                                                             ELSE <<>>]
      /\ got' = IF Len(partial[c]) + n = Parts
                THEN [got EXCEPT ![c] = Append(@, IF first = m THEN m
                                                               ELSE Garbled)]
                ELSE got
      /\ Goto(c, "pop")

\* n parts of m, some before, go down the socket.  The other end takes the
\* first part it sees for the beginning of a message and the second for its
\* rest.
Transfer(c, m, n) ==
  LET total == xfered[c] + n
      first == IF partial[c] = <<>> THEN m ELSE Head(partial[c])
  IN  /\ xfered' = [xfered EXCEPT ![c] = total]
      /\ partial' = [partial EXCEPT ![c] = IF Len(@) + n = 1 THEN <<first>>
                                                             ELSE <<>>]
      /\ got' = IF Len(partial[c]) + n = Parts
                THEN [got EXCEPT ![c] = Append(@, IF first = m THEN m
                                                               ELSE Garbled)]
                ELSE got
      /\ Goto(c, IF total = Parts THEN "pop" ELSE "loop")

\* Write what the socket takes of the rest of the head, without the lock: all
\* of it, or a part or nothing, and try again later ...
WriteSome(c) ==
  /\ thread[c] = "send"
  /\ open[c]
  /\ c \notin Stalled
  /\ \E n \in 1..Parts - xfered[c] : Transfer(c, Head(out_msg[c]), n)
  /\ UNCHANGED <<serverVars, read_msg, ipc, queueVars, registered, undefined,
                 peerVars>>

WriteNothing(c) ==
  /\ thread[c] = "send"
  /\ open[c]
  /\ Goto(c, "loop")
  /\ UNCHANGED <<serverVars, read_msg, ipc, queueVars, xfered, registered,
                 undefined, socketVars, peerVars>>

\* ... or find the other end gone, and give up with the message in the queue.
WriteFails(c) ==
  /\ thread[c] = "send"
  /\ ~open[c]
  /\ Goto(c, "done")
  /\ UNCHANGED <<serverVars, read_msg, ipc, queueVars, xfered, registered,
                 undefined, socketVars, peerVars>>

WritePop(c) ==
  /\ thread[c] = "pop"
  /\ out_msg' = [out_msg EXCEPT ![c] = Tail(@)]
  /\ xfered' = [xfered EXCEPT ![c] = 0]
  /\ Goto(c, "peek")
  /\ UNCHANGED <<serverVars, read_msg, ipc, sources, pendingsignals,
                 registered, undefined, socketVars, peerVars>>

(***************************************************************************)
(* Emission: xmms_ipc_signal_cb and xmms_ipc_broadcast_cb                  *)
(***************************************************************************)

\* Thread t takes ipc_servers_lock and the mutex_lock of the listed server.
EmitBegin(t, kind) ==
  /\ emission = Idle
  /\ Len(emitted) < MaxEmissions
  /\ emission' = [by |-> t, kind |-> kind,
                  rest |-> IF ipc_servers THEN clients ELSE <<>>]
  /\ emitted' = Append(emitted, kind)

\* The messages one emission queues for c.
SignalFor(c) == IF pendingsignals[c] = 0 THEN <<>>
                ELSE <<[kind |-> "signal", cookie |-> pendingsignals[c],
                        val |-> Len(emitted)]>>

\* Mutation: a client is told once, however often it registered.
BroadcastsFor_FirstOnly(c) ==
  IF broadcasts[c] = <<>> THEN <<>>
  ELSE <<[kind |-> "broadcast", cookie |-> Head(broadcasts[c]),
          val |-> Len(emitted)]>>

BroadcastsFor(c) == [i \in DOMAIN broadcasts[c] |->
                       [kind |-> "broadcast", cookie |-> broadcasts[c][i],
                        val |-> Len(emitted)]]

\* Mutation: the registration is kept.
EmitSignal_Kept(c) == /\ ClientMsgWrite(c, SignalFor(c))
                      /\ UNCHANGED pendingsignals

EmitSignal(c) == /\ ClientMsgWrite(c, SignalFor(c))
                 /\ pendingsignals' = [pendingsignals EXCEPT ![c] = 0]

EmitBroadcast(c) == /\ ClientMsgWrite(c, BroadcastsFor(c))
                    /\ UNCHANGED pendingsignals

\* One client of the list, under its lock ...
EmitVisit ==
  /\ emission.rest # <<>>
  /\ LET c == Head(emission.rest)
     IN  IF emission.kind = "signal" THEN EmitSignal(c) ELSE EmitBroadcast(c)
  /\ emission' = [emission EXCEPT !.rest = Tail(@)]
  /\ UNCHANGED <<clients, ipc_servers, emitted, thread, read_msg, ipc, xfered,
                 registered, undefined, socketVars, peerVars>>

\* ... and both locks are released after the last.
EmitEnd ==
  /\ emission # Idle
  /\ emission.rest = <<>>
  /\ emission' = Idle
  /\ IF emission.by \in Clients THEN Goto(emission.by, "reply")
                                ELSE UNCHANGED thread
  /\ UNCHANGED <<clients, ipc_servers, emitted, read_msg, ipc, queueVars,
                 xfered, registered, undefined, socketVars, peerVars>>

\* A thread of the server that is no client's: the player, the media library.
ServerEmits ==
  /\ \E kind \in {"signal", "broadcast"} : EmitBegin("server", kind)
  /\ UNCHANGED <<clients, ipc_servers, thread, read_msg, ipc, queueVars,
                 xfered, registered, undefined, socketVars, peerVars>>

(***************************************************************************)
(* Commands                                                                *)
(***************************************************************************)

RegisterSignal(c, cookie) ==
  /\ pendingsignals' = [pendingsignals EXCEPT ![c] = cookie]
  /\ Goto(c, "read")
  /\ UNCHANGED <<read_msg, registered>>

RegisterBroadcast(c, cookie) ==
  /\ broadcasts' = [broadcasts EXCEPT ![c] = Append(@, cookie)]
  /\ since' = [since EXCEPT ![c] = Append(@, Len(emitted))]
  /\ Goto(c, "read")
  /\ UNCHANGED <<read_msg, pendingsignals>>

\* The messages that the clients have sent.
Requests == MapThenSumSet(LAMBDA c : asked[c], Clients)

BeginCommand(c, cookie) ==
  /\ read_msg' = [read_msg EXCEPT ![c] = [cookie |-> cookie, val |-> 0]]
  /\ Goto(c, "command")
  /\ UNCHANGED <<pendingsignals, registered>>

\* The main loop dispatches the read source, or its callback goes on reading,
\* and what the client sent, at any time before, also before it hung up, is
\* read as a whole message.
\* A registration is not answered.
ReadRequest(c) ==
  /\ thread[c] \in {"loop", "read"}
  /\ Requests < MaxRequests
  /\ asked' = [asked EXCEPT ![c] = @ + 1]
  /\ \/ RegisterSignal(c, asked'[c])
     \/ RegisterBroadcast(c, asked'[c])
     \/ BeginCommand(c, asked'[c])
  /\ UNCHANGED <<serverVars, ipc, out_msg, sources, xfered, undefined,
                 socketVars, open>>

\* The handler changes something and emits a broadcast of it, or ...
CommandEmits(c) ==
  /\ thread[c] = "command"
  /\ EmitBegin(c, "broadcast")
  /\ read_msg' = [read_msg EXCEPT ![c].val = Len(emitted')]
  /\ Goto(c, "emit")
  /\ UNCHANGED <<clients, ipc_servers, ipc, queueVars, xfered, registered,
                 undefined, socketVars, peerVars>>

\* ... it only reads, or fails.
CommandReads(c) ==
  /\ thread[c] = "command"
  /\ Goto(c, "reply")
  /\ UNCHANGED <<serverVars, read_msg, ipc, queueVars, xfered, registered,
                 undefined, socketVars, peerVars>>

\* The answer is queued when the handler has returned.
Reply(c) ==
  /\ thread[c] = "reply"
  /\ ClientMsgWrite(c, <<[kind |-> "reply", cookie |-> read_msg[c].cookie,
                          val |-> read_msg[c].val]>>)
  /\ read_msg' = [read_msg EXCEPT ![c] = NoCommand]
  /\ Goto(c, "read")
  /\ UNCHANGED <<serverVars, ipc, pendingsignals, xfered, registered,
                 undefined, socketVars, peerVars>>

\* Nothing more to read: back to the main loop, or out of it on a hangup.
ReadEnd(c) ==
  /\ \/ thread[c] = "read" /\ open[c] /\ Goto(c, "loop")
     \/ thread[c] \in {"loop", "read"} /\ ~open[c] /\ Goto(c, "quit")
  /\ UNCHANGED <<serverVars, read_msg, ipc, queueVars, xfered, registered,
                 undefined, socketVars, peerVars>>

(***************************************************************************)
(* Connections: accept, the end of a client's thread, shutdown             *)
(***************************************************************************)

\* The client is in the list before its thread starts.
SourceAccept(c) ==
  /\ thread[c] = "none"
  /\ ipc_servers
  /\ emission = Idle
  /\ clients' = Append(clients, c)
  /\ ipc' = [ipc EXCEPT ![c] = TRUE]
  /\ Goto(c, "loop")
  /\ UNCHANGED <<ipc_servers, emission, emitted, read_msg, queueVars, xfered,
                 registered, undefined, socketVars, peerVars>>

\* xmms_ipc_client_destroy reads client->ipc without a lock ...
DestroyBegin(c) ==
  /\ thread[c] = "quit"
  /\ Goto(c, IF ipc[c] THEN "remove" ELSE "free")
  /\ UNCHANGED <<serverVars, read_msg, ipc, queueVars, xfered, registered,
                 undefined, socketVars, peerVars>>

\* Mutation: the client leaves the list without the server's lock.
DestroyRemove_NoLock(c) ==
  /\ thread[c] = "remove"
  /\ IF ipc[c]
     THEN /\ clients' = RemoveFirst(clients, c)
          /\ Goto(c, "free")
          /\ UNCHANGED undefined
     ELSE undefined' = TRUE /\ UNCHANGED <<clients, thread>>
  /\ UNCHANGED <<ipc_servers, emission, emitted, read_msg, ipc, queueVars,
                 xfered, registered, socketVars, peerVars>>

\* ... takes the mutex of the server it read, which a shutdown in between
\* freed, and leaves the list ...
DestroyRemove(c) ==
  /\ thread[c] = "remove"
  /\ IF ipc[c]
     THEN /\ emission = Idle
          /\ clients' = RemoveFirst(clients, c)
          /\ Goto(c, "free")
          /\ UNCHANGED undefined
     ELSE undefined' = TRUE /\ UNCHANGED <<clients, thread>>
  /\ UNCHANGED <<ipc_servers, emission, emitted, read_msg, ipc, queueVars,
                 xfered, registered, socketVars, peerVars>>

\* ... and frees the main loop with its sources, the queue and the rest.
DestroyFree(c) ==
  /\ thread[c] = "free"
  /\ out_msg' = [out_msg EXCEPT ![c] = <<>>]
  /\ xfered' = [xfered EXCEPT ![c] = 0]
  /\ sources' = [sources EXCEPT ![c] = 0]
  /\ pendingsignals' = [pendingsignals EXCEPT ![c] = 0]
  /\ broadcasts' = [broadcasts EXCEPT ![c] = <<>>]
  /\ since' = [since EXCEPT ![c] = <<>>]
  /\ Goto(c, "dead")
  /\ UNCHANGED <<serverVars, read_msg, ipc, undefined, socketVars, peerVars>>

\* Connections outlive the server: only their pointer to it is cleared.
Shutdown ==
  /\ ipc_servers
  /\ emission = Idle
  /\ ipc_servers' = FALSE
  /\ clients' = <<>>
  /\ ipc' = [c \in Clients |-> FALSE]
  /\ UNCHANGED <<emission, emitted, thread, read_msg, queueVars, xfered,
                 registered, undefined, socketVars, peerVars>>

(***************************************************************************)
(* The other end                                                           *)
(***************************************************************************)

\* What it received matters no more.
PeerClose(c) ==
  /\ c \in Leaving
  /\ thread[c] # "none"
  /\ open[c]
  /\ open' = [open EXCEPT ![c] = FALSE]
  /\ got' = [got EXCEPT ![c] = <<>>]
  /\ partial' = [partial EXCEPT ![c] = <<>>]
  /\ UNCHANGED <<serverVars, thread, read_msg, ipc, queueVars, xfered,
                 registered, undefined, asked>>

(***************************************************************************)

ClientThread(c) ==
  \/ WritePeek(c) \/ WriteDone(c) \/ WriteSome(c) \/ WriteNothing(c)
  \/ WriteFails(c) \/ WritePop(c) \/ ReadRequest(c) \/ ReadEnd(c)
  \/ CommandEmits(c) \/ CommandReads(c) \/ Reply(c)
  \/ DestroyBegin(c) \/ DestroyRemove(c) \/ DestroyFree(c)

Emit == EmitVisit \/ EmitEnd

Defined == ~undefined

Next == /\ Defined
        /\ \/ \E c \in Clients :
                ClientThread(c) \/ PeerClose(c) \/ SourceAccept(c)
           \/ Emit \/ ServerEmits \/ Shutdown

\* Threads run, and a socket that is tried over and over takes something in
\* the end; nobody has to connect, ask, hang up or shut down.
Spec == /\ Init /\ [][Next]_vars
        /\ WF_vars(Defined /\ Emit)
        /\ \A c \in Clients : /\ WF_vars(Defined /\ ClientThread(c))
                              /\ SF_vars(Defined /\ WriteSome(c))

(***************************************************************************)
(* Properties                                                              *)
(***************************************************************************)

Places == {"none", "loop", "peek", "send", "pop", "done", "read", "command",
           "emit", "reply", "quit", "remove", "free", "dead"}

TypeOK ==
  /\ clients \in Seq(Clients) /\ ipc_servers \in BOOLEAN
  /\ emission \in [by : Clients \cup {"server", "nobody"},
                   kind : {"none", "signal", "broadcast"}, rest : Seq(Clients)]
  /\ emitted \in Seq({"signal", "broadcast"})
  /\ thread \in [Clients -> Places] /\ ipc \in [Clients -> BOOLEAN]
  /\ read_msg \in [Clients -> [cookie : Nat, val : Nat]]
  /\ out_msg \in [Clients -> Seq(Message)]
  /\ xfered \in [Clients -> 0..Parts] /\ sources \in [Clients -> Nat]
  /\ pendingsignals \in [Clients -> Nat]
  /\ broadcasts \in [Clients -> Seq(Nat)] /\ since \in [Clients -> Seq(Nat)]
  /\ undefined \in BOOLEAN /\ open \in [Clients -> BOOLEAN]
  /\ asked \in [Clients -> Nat]
  /\ partial \in [Clients -> Seq(Message)] /\ got \in [Clients -> Seq(Message)]

Alive(c) == thread[c] \notin {"none", "dead"}

\* Everything queued for c that did not wholly go down the socket.
Undelivered(c) == IF xfered[c] = Parts THEN Tail(out_msg[c]) ELSE out_msg[c]

Queued(c) == got[c] \o Undelivered(c)

Readers == Clients \ Stalled

Delivery == INSTANCE IpcDelivery
              WITH Clients <- Readers,
                   pending <- [c \in Readers |-> Undelivered(c)],
                   got <- [c \in Readers |-> got[c]],
                   closed <- {c \in Readers : ~open[c] \/ undefined}

\* The threads that queue messages, the callback that writes them without the
\* lock between a peek and a pop, and the sources it takes turns with the
\* reader in, together deliver everything once, whole and in order.
ImplementsDelivery == Delivery!Spec

\* A queue with messages in it is being written: a source is attached besides
\* one whose callback is about to return, unless the other end is gone
\* (comment at ipc.c:468: "If there's no write in progress, add a new
\* callback").
WriteInProgress ==
  /\ TypeOK
  /\ \A c \in Clients : Alive(c) /\ open[c] /\ out_msg[c] # <<>> =>
       sources[c] > IF thread[c] = "done" THEN 1 ELSE 0

\* The broadcasts so far that the emission loop has taken past c.
BroadcastPast(c) ==
  {n \in 1..Len(emitted) :
     /\ emitted[n] = "broadcast"
     /\ ~(/\ emission # Idle /\ n = Len(emitted)
          /\ \E i \in DOMAIN emission.rest : emission.rest[i] = c)}

\* A client that registered gets every broadcast from then on, under each of
\* its cookies, once, and every client gets them in the order of emission;
\* clients that come, go or register during an emission disturb nobody.
BroadcastsComplete ==
  \A c \in Clients : ipc[c] /\ open[c] =>
    \A i \in DOMAIN broadcasts[c] :
      LET q == Queued(c)
          Tells(j) == q[j].kind = "broadcast" /\ q[j].cookie = broadcasts[c][i]
      IN  /\ \A j, k \in DOMAIN q :
               j < k /\ Tells(j) /\ Tells(k) => q[j].val < q[k].val
          /\ \A n \in BroadcastPast(c) :
               n > since[c][i] => \E j \in DOMAIN q : Tells(j) /\ q[j].val = n

\* A command is answered once, and a signal registered for is sent once,
\* however many threads emit it meanwhile; one still registered was not sent.
\* Answers come in the order of the commands, and after the broadcasts of what
\* the command changed, so that a client that has its answer has seen them.
AnswersInOrder ==
  \A c \in Clients :
    LET q == Queued(c)
    IN  /\ \A i \in DOMAIN q : q[i].kind # "broadcast" =>
             /\ \A j \in DOMAIN q : q[j].cookie = q[i].cookie => j = i
             /\ q[i].cookie # pendingsignals[c]
        /\ \A i, j \in DOMAIN q : i < j /\ q[i].kind = "reply" =>
             /\ q[j].kind = "reply" => q[i].cookie < q[j].cookie
             /\ q[j].kind = "broadcast" => q[j].val # q[i].val

\* The emission loop never comes to a client that was freed: a thread that
\* ends takes its client out of the list before it frees it.
VisitsOnlyLiveClients ==
  emission # Idle =>
    \A i \in DOMAIN emission.rest :
      thread[emission.rest[i]] \notin {"none", "free", "dead"}
=============================================================================
