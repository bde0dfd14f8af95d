---------------------------- MODULE OutputFiller ----------------------------
(***************************************************************************)
(* The producer half of the output (src/xmms/output.c): the filler thread  *)
(* that decodes the current song into the ring buffer, the output thread   *)
(* that reads from it and runs the hotspots, and the commands of the IPC   *)
(* client threads that steer the filler by writing filler_state.           *)
(*                                                                         *)
(* filler_mutex is not a variable: what a thread does between taking and   *)
(* releasing it is one action, and a wait on a condition variable ends the *)
(* action with the thread asleep.  What the filler does WITHOUT the mutex  *)
(* (asking the playlist, building the chain, decoding, and two of its      *)
(* writes to filler_state) leaves it in the "lookup" or "read" phase,      *)
(* where the others act before its next action.                            *)
(*                                                                         *)
(* The ring buffer is the queue that RingBuf implements: a sequence of     *)
(* data units and of the two hotspots output.c sets.  What only the sound  *)
(* card hears (the flush calls, and last_was_kill that asks for one) and   *)
(* the counters of played bytes are left out.                              *)
(***************************************************************************)
EXTENDS Integers, Sequences, FiniteSets

CONSTANTS Client,      \* the IPC client threads
          Usable,      \* units the ring buffer holds
          Block,       \* sizeof (buf): the units the filler reads at once
          Chunk,       \* the units the output thread asks for
          MaxSkip,     \* bound: units a seek can stop short of its target
          MaxSongs,    \* bound: entries the filler takes from the playlist
          MaxOps       \* bound: commands of all clients together

\* Filler and output thread must not wait for each other: one needs Block free
\* units, the other Chunk used ones.  output.buffersize is 32768 by default,
\* Block is 4096 and the output thread asks for 4096.
ASSUME BufferAssumption ==
  /\ Usable \in Nat /\ Block \in Nat \ {0} /\ Chunk \in Nat \ {0}
  /\ Usable >= Block + Chunk - 1
ASSUME BoundsAssumption == MaxSkip \in Nat /\ MaxSongs \in Nat /\ MaxOps \in Nat

VARIABLES
  filler_state,   \* what the filler is told to do
  filler,         \* its thread: pc, chain, units in hand
  ring, eos,      \* the ring buffer
  toskip,         \* units the filler has yet to discard after a seek
  filler_skip,    \* the value seek_done will copy to toskip
  status,         \* the playback status
  reader,         \* the output thread
  current_entry,  \* the song whose song_changed ran last
  client,         \* where each client thread is inside its command
  main,           \* the main thread's shutdown
  songs,          \* entries taken from the playlist
  ops,            \* commands issued
  unseen,         \* history: a clearing request the filler has not seen yet
  overtaken,      \* history: such a request was replaced by RUN or SEEK
  silenced        \* history: a seek dropped the announcement of its own song

vars == <<filler_state, filler, ring, eos, toskip, filler_skip, status, reader,
          current_entry, client, main, songs, ops, unseen, overtaken, silenced>>

\* Mutation: a quit does not wake the filler out of a full buffer.
Clearing_NotQuit == {"STOP", "KILL"}

\* The requests that clear the ring buffer.
Clearing == {"STOP", "KILL", "QUIT"}

NoChain == 0

Data(c) == [kind |-> "data", chain |-> c]
SongChanged(c) == [kind |-> "song", chain |-> c]
SeekDone == [kind |-> "seek", chain |-> NoChain]

MIN(a, b) == IF a <= b THEN a ELSE b

DataAt(r) == {i \in 1..Len(r) : r[i].kind = "data"}

Used(r) == Cardinality(DataAt(r))

Free(r) == Usable - Used(r)

Init ==
  /\ filler_state = "STOP"
  /\ filler = [pc |-> "top", chain |-> NoChain, ret |-> 0]
  /\ ring = <<>> /\ eos = FALSE
  /\ toskip = 0 /\ filler_skip = 0
  /\ status = "STOP"
  /\ reader = "idle"
  /\ current_entry = NoChain
  /\ client = [c \in Client |-> "idle"]
  /\ main = "up"
  /\ songs = 0 /\ ops = 0
  /\ unseen = FALSE /\ overtaken = FALSE /\ silenced = FALSE

-----------------------------------------------------------------------------
(***************************************************************************)
(* Condition variables.  The filler sleeps on filler_state_cond or on the  *)
(* ring's free_cond, the output thread on used_cond.                       *)
(***************************************************************************)

StateSignalled(f) == IF f.pc = "stop_wait" THEN [f EXCEPT !.pc = "top"] ELSE f

FreeSignalled(f) ==
  IF f.pc = "free_wait" THEN [f EXCEPT !.pc = "free_woken"]
  ELSE IF f.pc = "write_wait" THEN [f EXCEPT !.pc = "write_woken"]
  ELSE f

UsedSignalled(r) == IF r = "used_wait" THEN "used_woken" ELSE r

-----------------------------------------------------------------------------
(***************************************************************************)
(* Requests to the filler.                                                 *)
(***************************************************************************)

\* Mutation: the buffer is cleared without a signal.
FillerState_Quiet(s) ==
  LET clear == s \in Clearing
  IN  /\ filler_state' = s
      /\ filler' = StateSignalled(filler)
      /\ ring' = IF clear THEN <<>> ELSE ring
      /\ eos' = (eos /\ s = "STOP")
      /\ unseen' = clear
      /\ overtaken' = (overtaken \/ (unseen /\ ~clear))
      /\ UNCHANGED <<toskip, filler_skip, reader, current_entry, songs, silenced>>

\* Mutation: the end of the stream is not taken back.
EosAfter_Kept(s) == eos

EosAfter(s) == eos /\ s = "STOP"

\* xmms_output_filler_state
FillerState(s) ==
  LET clear == s \in Clearing
      signalled == StateSignalled(filler)
  IN  /\ filler_state' = s
      /\ filler' = IF clear THEN FreeSignalled(signalled) ELSE signalled
      /\ ring' = IF clear THEN <<>> ELSE ring
      /\ eos' = EosAfter(s)
      /\ unseen' = clear
      /\ overtaken' = (overtaken \/ (unseen /\ ~clear))
      /\ UNCHANGED <<toskip, filler_skip, reader, current_entry, songs, silenced>>

\* xmms_output_filler_seek_state: neither the ring nor its sleepers hear of it
FillerSeekState ==
  /\ filler_state' = "SEEK"
  /\ filler' = StateSignalled(filler)
  /\ unseen' = FALSE
  /\ overtaken' = (overtaken \/ unseen)
  /\ UNCHANGED <<ring, eos, toskip, filler_skip, reader, current_entry, songs,
                 silenced>>

unchangedFiller == <<filler_state, filler, ring, eos, toskip, filler_skip, reader,
                     current_entry, songs, unseen, overtaken, silenced>>

\* The status that xmms_output_status_set (s) can leave: pause only from play,
\* and STOP when the plugin refuses.
StatusSet(s) ==
  IF (s = "PAUSE" /\ status # "PLAY") \/ s = status
  THEN {status} ELSE IF s = "STOP" THEN {"STOP"} ELSE {s, "STOP"}

Command(c, next) ==
  /\ client[c] = "idle"
  /\ main \in {"up", "joining"}
  /\ ops < MaxOps
  /\ ops' = ops + 1
  /\ client' = [client EXCEPT ![c] = next]
  /\ UNCHANGED main

Continue(c, at, next) ==
  /\ client[c] = at
  /\ client' = [client EXCEPT ![c] = next]
  /\ UNCHANGED <<main, ops>>

\* xmms_playback_client_start
Start(c) == Command(c, "start_status") /\ FillerState("RUN") /\ UNCHANGED status

StartStatus(c) ==
  \E s \in StatusSet("PLAY") :
    /\ Continue(c, "start_status", IF s = "PLAY" THEN "idle" ELSE "start_undo")
    /\ status' = s
    /\ UNCHANGED unchangedFiller

StartUndo(c) ==
  Continue(c, "start_undo", "idle") /\ FillerState("STOP") /\ UNCHANGED status

\* xmms_playback_client_stop
Stop(c) ==
  /\ Command(c, "stop_filler")
  /\ status' = "STOP"
  /\ UNCHANGED unchangedFiller

StopFiller(c) ==
  Continue(c, "stop_filler", "idle") /\ FillerState("STOP") /\ UNCHANGED status

\* xmms_playback_client_pause
Pause(c) ==
  /\ Command(c, "idle")
  /\ status' \in StatusSet("PAUSE")
  /\ UNCHANGED unchangedFiller

\* xmms_playback_client_tickle: leave the current song
Tickle(c) == Command(c, "idle") /\ FillerState("KILL") /\ UNCHANGED status

\* xmms_playback_client_seek_samples
Seek(c) == Command(c, "idle") /\ FillerSeekState /\ UNCHANGED status

\* xmms_output_destroy: tell the filler to quit, then join it.  The IPC is shut
\* down only later, so clients still send commands meanwhile.
Destroy ==
  /\ main = "up"
  /\ main' = "joining"
  /\ FillerState("QUIT")
  /\ UNCHANGED <<status, client, ops>>

Joined ==
  /\ main = "joining" /\ filler.pc = "done"
  /\ main' = "joined"
  /\ UNCHANGED <<unchangedFiller, status, client, ops>>

Requests ==
  \/ \E c \in Client : \/ Start(c) \/ StartStatus(c) \/ StartUndo(c)
                       \/ Stop(c) \/ StopFiller(c)
                       \/ Pause(c) \/ Tickle(c) \/ Seek(c)
  \/ Destroy \/ Joined

-----------------------------------------------------------------------------
(***************************************************************************)
(* The filler thread.                                                      *)
(***************************************************************************)

unchangedOthers == <<silenced, status, current_entry, client, main, ops>>

AtTop(s) == filler.pc = "top" /\ filler_state = s

\* Mutation: the filler decodes a block without waiting for room.
AfterWaitFree_NoWait(f, r, s) == [f EXCEPT !.pc = IF s # "RUN" THEN "top" ELSE "read"]

\* xmms_ringbuf_wait_free, and the look at filler_state behind it.
AfterWaitFree(f, r, s) ==
  IF Free(r) < Block /\ ~ eos THEN [f EXCEPT !.pc = "free_wait"]
  ELSE IF s # "RUN" THEN [f EXCEPT !.pc = "top"]
  ELSE [f EXCEPT !.pc = "read"]

\* The loop ends and the thread returns; a chain it still has is leaked.
SeeQuit ==
  /\ AtTop("QUIT")
  /\ filler' = [filler EXCEPT !.pc = "done"]
  /\ unseen' = FALSE
  /\ UNCHANGED <<filler_state, ring, eos, toskip, filler_skip, reader, songs,
                 overtaken, unchangedOthers>>

\* Mutation: the stream is not marked ended.
SeeStop_NoEos ==
  /\ AtTop("STOP")
  /\ filler' = [filler EXCEPT !.pc = "stop_wait", !.chain = NoChain]
  /\ unseen' = FALSE
  /\ UNCHANGED <<filler_state, ring, eos, toskip, filler_skip, reader, songs,
                 overtaken, unchangedOthers>>

SeeStop ==
  /\ AtTop("STOP")
  /\ filler' = [filler EXCEPT !.pc = "stop_wait", !.chain = NoChain]
  /\ eos' = TRUE
  /\ reader' = UsedSignalled(reader)
  /\ unseen' = FALSE
  /\ UNCHANGED <<filler_state, ring, toskip, filler_skip, songs, overtaken,
                 unchangedOthers>>

\* Mutation: the song goes on after a jump.
SeeKill_KeepChain ==
  /\ AtTop("KILL")
  /\ filler_state' = IF filler.chain # NoChain THEN "RUN" ELSE "STOP"
  /\ unseen' = FALSE
  /\ UNCHANGED <<filler, ring, eos, toskip, filler_skip, reader, songs, overtaken,
                 unchangedOthers>>

SeeKill ==
  /\ AtTop("KILL")
  /\ IF filler.chain # NoChain
     THEN /\ filler_state' = "RUN"
          /\ filler' = [filler EXCEPT !.chain = NoChain]
     ELSE filler_state' = "STOP" /\ UNCHANGED filler
  /\ unseen' = FALSE
  /\ UNCHANGED <<ring, eos, toskip, filler_skip, reader, songs, overtaken,
                 unchangedOthers>>

SeekWithoutChain ==
  /\ AtTop("SEEK") /\ filler.chain = NoChain
  /\ filler_state' = "STOP"
  /\ UNCHANGED <<filler, ring, eos, toskip, filler_skip, reader, songs, unseen,
                 overtaken, unchangedOthers>>

\* The xform seeks, maybe short of the target: the ring is cleared and
\* seek_done will tell the output thread what is still to be skipped.
SeekOk ==
  /\ AtTop("SEEK") /\ filler.chain # NoChain
  /\ filler_skip' \in 0..MaxSkip
  /\ ring' = <<SeekDone>>
  /\ filler_state' = "RUN"
  /\ filler' = AfterWaitFree(filler, ring', "RUN")
  /\ silenced' = (silenced \/ \E i \in 1..Len(ring) : ring[i].kind = "song")
  /\ UNCHANGED <<eos, toskip, reader, songs, unseen, overtaken, status,
                 current_entry, client, main, ops>>

SeekFailed ==
  /\ AtTop("SEEK") /\ filler.chain # NoChain
  /\ filler_state' = "RUN"
  /\ filler' = AfterWaitFree(filler, ring, "RUN")
  /\ UNCHANGED <<ring, eos, toskip, filler_skip, reader, songs, unseen, overtaken,
                 unchangedOthers>>

RunChain ==
  /\ AtTop("RUN") /\ filler.chain # NoChain
  /\ filler' = AfterWaitFree(filler, ring, "RUN")
  /\ UNCHANGED <<filler_state, ring, eos, toskip, filler_skip, reader, songs,
                 unseen, overtaken, unchangedOthers>>

\* Without a chain the mutex is released to get one.
RunNoChain ==
  /\ AtTop("RUN") /\ filler.chain = NoChain
  /\ filler' = [filler EXCEPT !.pc = "lookup"]
  /\ UNCHANGED <<filler_state, ring, eos, toskip, filler_skip, reader, songs,
                 unseen, overtaken, unchangedOthers>>

\* The filler asks the playlist and builds the chain without the mutex.  With
\* no entry, or when the chain fails and the playlist has no next entry, it
\* writes filler_state = FILLER_STOP, still without the mutex: that replaces
\* whatever was requested since the filler last looked.
GiveUp ==
  /\ filler.pc = "lookup"
  /\ songs' \in {songs, MIN(songs + 1, MaxSongs)}
  /\ filler_state' = "STOP"
  /\ filler' = [filler EXCEPT !.pc = "top"]
  /\ UNCHANGED <<ring, eos, toskip, filler_skip, reader, unseen, overtaken,
                 unchangedOthers>>

TryNextSong ==
  /\ filler.pc = "lookup" /\ songs < MaxSongs
  /\ songs' = songs + 1
  /\ filler' = [filler EXCEPT !.pc = "top"]
  /\ UNCHANGED <<filler_state, ring, eos, toskip, filler_skip, reader, unseen,
                 overtaken, unchangedOthers>>

\* The new chain is announced whatever was requested while it was being built.
AnnounceSong ==
  /\ filler.pc = "lookup" /\ songs < MaxSongs
  /\ songs' = songs + 1
  /\ ring' = Append(ring, SongChanged(songs'))
  /\ filler' = AfterWaitFree([filler EXCEPT !.chain = songs'], ring', filler_state)
  /\ UNCHANGED <<filler_state, eos, toskip, filler_skip, reader, unseen, overtaken,
                 unchangedOthers>>

FreeWoken ==
  /\ filler.pc = "free_woken"
  /\ filler' = AfterWaitFree(filler, ring, filler_state)
  /\ UNCHANGED <<filler_state, ring, eos, toskip, filler_skip, reader, songs,
                 unseen, overtaken, unchangedOthers>>

\* One round of xmms_ringbuf_write_wait with n units in hand.
WriteRound(n) ==
  LET w == MIN(n, Free(ring))
  IN  /\ ring' = ring \o [i \in 1..w |-> Data(filler.chain)]
      /\ reader' = IF w > 0 THEN UsedSignalled(reader) ELSE reader
      /\ filler' = IF w = n \/ eos
                   THEN [filler EXCEPT !.pc = "top", !.ret = 0]
                   ELSE [filler EXCEPT !.pc = "write_wait", !.ret = n - w]

\* xmms_xform_this_read runs without the mutex; the block it returns is written
\* whatever was requested meanwhile, but for the units to be skipped.
WriteBlock ==
  /\ filler.pc = "read"
  /\ \E ret \in 1..Block :
       LET skip == MIN(ret, toskip)
       IN  /\ toskip' = toskip - skip
           /\ WriteRound(ret - skip)
  /\ UNCHANGED <<filler_state, eos, filler_skip, songs, unseen, overtaken,
                 unchangedOthers>>

WriteWoken ==
  /\ filler.pc = "write_woken"
  /\ WriteRound(filler.ret)
  /\ UNCHANGED <<filler_state, eos, toskip, filler_skip, songs, unseen, overtaken,
                 unchangedOthers>>

\* The song is over, or the decoder failed: the playlist moves on, or the
\* filler stops itself, in place of any request that came while it decoded.
SongOver ==
  /\ filler.pc = "read"
  /\ filler' = [filler EXCEPT !.pc = "top", !.chain = NoChain]
  /\ filler_state' \in {filler_state, "STOP"}
  /\ UNCHANGED <<ring, eos, toskip, filler_skip, reader, songs, unseen, overtaken,
                 unchangedOthers>>

Filler ==
  \/ SeeQuit \/ SeeStop \/ SeeKill \/ SeekWithoutChain \/ SeekOk \/ SeekFailed
  \/ RunChain \/ RunNoChain \/ GiveUp \/ TryNextSong \/ AnnounceSong
  \/ FreeWoken \/ WriteBlock \/ WriteWoken \/ SongOver

-----------------------------------------------------------------------------
(***************************************************************************)
(* The output thread: xmms_output_read.                                    *)
(***************************************************************************)

\* The first k items are hotspots, and item k + 1 is not.
AtHead(k) == /\ \A i \in 1..k : ring[i].kind # "data"
             /\ k < Len(ring) => ring[k + 1].kind = "data"

\* The units before the next hotspot, when the first k items are gone.
Run(k) == Cardinality({i \in DataAt(ring) :
                         \A j \in k + 1..i : ring[j].kind = "data"})

LastSong(k) ==
  LET marks == {i \in 1..k : ring[i].kind = "song"}
  IN  IF marks = {} THEN current_entry
      ELSE ring[CHOOSE i \in marks : \A j \in marks : j <= i].chain

ToSkip(k) == IF \E i \in 1..k : ring[i].kind = "seek" THEN filler_skip ELSE toskip

MayRead == /\ (reader = "idle" /\ status = "PLAY") \/ reader = "used_woken"
           /\ main # "joined"

ReadWaits ==
  /\ MayRead
  /\ Used(ring) < Chunk /\ ~ eos
  /\ reader' = "used_wait"
  /\ UNCHANGED <<filler_state, filler, ring, eos, toskip, filler_skip, songs,
                 unseen, overtaken, unchangedOthers>>

\* Run the hotspots that are due, then take data up to the next one.  Nothing
\* left after the end of the stream stops the playback.
ReadData ==
  /\ MayRead
  /\ Used(ring) >= Chunk \/ eos
  /\ \E k \in 0..Len(ring) :
       LET n == MIN(Chunk, Run(k))
       IN  /\ AtHead(k)
           /\ current_entry' = LastSong(k)
           /\ toskip' = ToSkip(k)
           /\ ring' = SubSeq(ring, k + n + 1, Len(ring))
           /\ filler' = IF n > 0 THEN FreeSignalled(filler) ELSE filler
           /\ status' = IF n = 0 /\ Used(ring) = 0 /\ eos THEN "STOP" ELSE status
  /\ reader' = "idle"
  /\ UNCHANGED <<filler_state, eos, filler_skip, client, main, songs, ops, unseen,
                 overtaken, silenced>>

\* song_changed cannot set the format: it stops the filler, ends the stream and
\* refuses, so the read returns nothing and stops the playback.
ReadRefused ==
  /\ MayRead
  /\ Used(ring) >= Chunk \/ eos
  /\ \E k \in 0..Len(ring) : \E j \in 1..k :
       /\ AtHead(k)
       /\ ring[j].kind = "song"
       /\ current_entry' = ring[j].chain
       /\ toskip' = ToSkip(j)
  /\ filler_state' = "STOP"
  /\ filler' = FreeSignalled(StateSignalled(filler))
  /\ ring' = <<>>
  /\ eos' = TRUE
  /\ unseen' = TRUE
  /\ status' = "STOP"
  /\ reader' = "idle"
  /\ UNCHANGED <<filler_skip, client, main, songs, ops, overtaken, silenced>>

Reader == ReadWaits \/ ReadData \/ ReadRefused

Next == Requests \/ Filler \/ Reader

(***************************************************************************)
(* Threads are scheduled fairly, decoding and building a chain end, and a  *)
(* command that has begun runs to its end.  Nobody has to send a command.  *)
(***************************************************************************)
Fairness ==
  /\ WF_vars(Filler)
  /\ WF_vars(Reader)
  /\ \A c \in Client : WF_vars(StartStatus(c) \/ StartUndo(c) \/ StopFiller(c))

Spec == Init /\ [][Next]_vars /\ Fairness

-----------------------------------------------------------------------------

FillerPc == {"top", "stop_wait", "lookup", "free_wait", "free_woken", "read",
             "write_wait", "write_woken", "done"}

Item == [kind : {"data", "song"}, chain : 1..MaxSongs] \cup {SeekDone}

\* The type invariant.
TypeOK ==
  /\ filler_state \in {"STOP", "RUN", "QUIT", "KILL", "SEEK"}
  /\ filler \in [pc : FillerPc, chain : 0..MaxSongs, ret : 0..Block]
  /\ ring \in Seq(Item) /\ Used(ring) <= Usable
  /\ eos \in BOOLEAN
  /\ toskip \in 0..MaxSkip /\ filler_skip \in 0..MaxSkip
  /\ status \in {"STOP", "PLAY", "PAUSE"}
  /\ reader \in {"idle", "used_wait", "used_woken"}
  /\ current_entry \in 0..MaxSongs
  /\ client \in [Client -> {"idle", "start_status", "start_undo", "stop_filler"}]
  /\ main \in {"up", "joining", "joined"}
  /\ songs \in 0..MaxSongs /\ ops \in 0..MaxOps
  /\ unseen \in BOOLEAN /\ overtaken \in BOOLEAN /\ silenced \in BOOLEAN

\* No thread sleeps on a condition that already holds: every change that could
\* end a wait signals the thread that waits for it.
NoMissedWakeup ==
  /\ filler.pc = "stop_wait" => filler_state = "STOP"
  /\ filler.pc = "free_wait" => Free(ring) < Block /\ ~ eos
  /\ filler.pc = "write_wait" => Free(ring) = 0 /\ ~ eos
  /\ reader = "used_wait" => Used(ring) < Chunk /\ ~ eos

\* The buffer is marked ended only while the filler has no chain and is not told
\* to get one, or has been stopped and cleared by a request it has not looked at
\* yet, when it may still hold the chain it will drop: the output thread, which
\* takes "ended and empty" for the end of playback, is never told so in the
\* middle of a song that goes on.  The one exception is a stop that a seek or a
\* start replaced before the filler saw it.
EndedOnlyWhenStopped ==
  (eos /\ ~ overtaken) =>
    \/ filler_state \in {"STOP", "SEEK"} /\ filler.chain = NoChain
    \/ filler_state = "STOP" /\ unseen

\* Having waited for a free block, the filler never sleeps in the write that
\* follows, where it would not look at filler_state.
WriteNeverSleeps == ~ overtaken => filler.pc # "write_wait"

\* The song the output thread believes in when it reaches item i.
Announced(i) ==
  LET before == {j \in 1..i : ring[j].kind = "song"}
  IN  IF before = {} THEN current_entry
      ELSE ring[CHOOSE j \in before : \A l \in before : l <= j].chain

\* At most one block is ever played under another song's name and format: the
\* block the filler was decoding while a stop or a jump cleared the buffer, and
\* wrote afterwards without looking at filler_state.
OneStaleBlock ==
  /\ TypeOK
  /\ ~ overtaken /\ ~ silenced =>
       Cardinality({i \in DataAt(ring) : ring[i].chain # Announced(i)}) <= Block

\* The filler cannot sleep through a stop, a jump or a quit, neither in the full
\* buffer of a paused player nor between two songs: it acts upon the request
\* unless something replaces it first.  That is another request, or the filler's
\* own stop, which it writes when it has nothing to play without looking whether
\* it was told something meanwhile (output.c:444, 463, 512).  A quit that is lost
\* to it leaves the filler asleep and the shutdown in its join for good.
RequestSeen ==
  /\ (filler_state = "QUIT") ~> (filler_state # "QUIT" \/ filler.pc = "done")
  /\ (filler_state = "KILL") ~> (filler_state # "KILL" \/ filler.pc = "done")
  /\ (filler_state = "STOP") ~> \/ filler_state # "STOP"
                                \/ filler.pc = "done"
                                \/ filler.pc = "stop_wait" /\ filler.chain = NoChain

\* The output thread is not left waiting for data: it gets some or is told the
\* stream has ended, as long as the filler lives.
ReaderServed == (reader = "used_wait") ~> (reader # "used_wait" \/ filler.pc = "done")
=============================================================================
