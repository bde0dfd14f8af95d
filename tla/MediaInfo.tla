----------------------------- MODULE MediaInfo -----------------------------
(***************************************************************************)
(* The media info reader of src/xmms/mediainfo.c, a thread that builds a   *)
(* chain for every entry not resolved yet, for the metadata that comes     *)
(* with it; beside it the filler thread of src/xmms/output.c, which builds *)
(* chains to play entries, and clients that add, remove and rehash them.   *)
(*                                                                         *)
(* mrt->mutex is held for a moment only and so is no variable: a signal    *)
(* reaches the reader when it sleeps, and is lost otherwise.               *)
(***************************************************************************)
EXTENDS Medialib

CONSTANTS
  Client,
  MaxCommands  \* bound: commands of clients and songs the filler tries

VARIABLES
  running,    \* mrt->running
  thread,     \* where the reader and the filler are, and with which entry
  adder,      \* what the thread of each client's commands is in the middle of
  commands,
  missed,     \* history: the reader went to sleep over a signal
  mixed,      \* history: entries whose metadata may be another's
  stuck       \* history: entries that a crash left RESOLVING

vars == <<media, writer, running, thread, adder, commands, missed, mixed, stuck>>

ASSUME ClientAssumption == "none" \notin Client
ASSUME CommandsAssumption == MaxCommands \in Nat

Thread == {"reader", "filler"}

Pc == {"test", "pick", "wait", "asleep", "ended", "idle",
       "setup", "collect", "finish", "failed", "removing"}

At(pc) == [pc |-> pc, entry |-> 0, prev |-> "NONE", url |-> Nothing]

Ready == [pc |-> "idle", url |-> Nothing]

\* The threads of a server that has just been started.
Fresh == [reader |-> At("test"), filler |-> At("idle")]
NobodyAdds == [c \in Client |-> Ready]

Init ==
  /\ media = [i \in Id |-> Gone]
  /\ writer = "none"
  /\ running = TRUE
  /\ thread = Fresh
  /\ adder = NobodyAdds
  /\ commands = 0
  /\ missed = FALSE /\ mixed = {} /\ stuck = {}

reader == thread["reader"]
filler == thread["filler"]

Goes(t, pc) == thread' = [thread EXCEPT ![t] = At(pc)]

Free == writer = "none"

\* An entry that a crash left RESOLVING is that until somebody changes it.
StillStuck == stuck' = {i \in stuck : media'[i].status = "RESOLVING"}

-----------------------------------------------------------------------------
(***************************************************************************)
(* The reader.                                                             *)
(***************************************************************************)

\* Mutation: nobody is signalled.
Signal_None == UNCHANGED <<thread, missed>>

\* xmms_mediainfo_reader_wakeup
Signal ==
  /\ thread' = IF reader.pc = "asleep"
               THEN [thread EXCEPT !["reader"] = At("test")] ELSE thread
  /\ missed' = (missed \/ reader.pc = "wait")

\* while (mrt->running), tested without the mutex
Test ==
  /\ reader.pc = "test"
  /\ Goes("reader", IF running THEN "pick" ELSE "ended")
  /\ missed' = FALSE
  /\ UNCHANGED <<media, running, adder, commands, mixed, stuck>>

Pick(i) ==
  /\ reader.pc = "pick"
  /\ Free
  /\ i \in NotResolved
  /\ thread' = [thread EXCEPT !["reader"] =
                  [At("setup") EXCEPT !.entry = i, !.prev = media[i].status]]
  /\ media' = StatusSet(i, "RESOLVING")
  /\ UNCHANGED <<running, adder, commands, missed, mixed, stuck>>

\* Nothing to do; the reader has not taken the mutex yet.
FindNone ==
  /\ reader.pc = "pick"
  /\ Free
  /\ NotResolved = {}
  /\ Goes("reader", "wait")
  /\ UNCHANGED <<media, running, adder, commands, missed, mixed, stuck>>

\* g_cond_wait, with nothing tested before it
Sleep ==
  /\ reader.pc = "wait"
  /\ Goes("reader", "asleep")
  /\ UNCHANGED <<media, running, adder, commands, missed, mixed, stuck>>

\* xmms_medialib_entry_status_set (OK), after the chain is gone again
Finish ==
  /\ reader.pc = "finish"
  /\ Free
  /\ media' = StatusSet(reader.entry, "OK")
  /\ Goes("reader", "test")
  /\ StillStuck
  /\ UNCHANGED <<running, adder, commands, missed, mixed>>

\* Mutation: an entry that fails is left as it is.
NoChain_Kept(i, prev) == media

\* A new entry without a chain is removed, an old one marked.
NoChain(i, prev) ==
  IF prev = "NEW" THEN Deleted(i) ELSE StatusSet(i, "NOT_AVAILABLE")

ReaderFailed ==
  /\ reader.pc = "failed"
  /\ Free
  /\ media' = NoChain(reader.entry, reader.prev)
  /\ Goes("reader", "test")
  /\ StillStuck
  /\ UNCHANGED <<running, adder, commands, missed, mixed>>

-----------------------------------------------------------------------------
(***************************************************************************)
(* xmms_xform_chain_setup, for either thread, and the filler.              *)
(***************************************************************************)

\* get_url_for_entry; then the chain is tried.
SetUp(t) ==
  /\ thread[t].pc = "setup"
  /\ Free
  /\ LET url == media[thread[t].entry].url
     IN  thread' = [thread EXCEPT ![t].url = url,
                      ![t].pc = IF url \in Playable THEN "collect"
                                                    ELSE "failed"]
  /\ UNCHANGED <<media, running, adder, commands, missed, mixed, stuck>>

\* Mutation: the metadata goes to the newest entry.
Target_Newest(t) == IF Present = {} THEN 1 ELSE NextId - 1

\* The entry that the metadata is written to.
Target(t) == thread[t].entry

\* xmms_xform_metadata_collect
Collect(t) ==
  /\ thread[t].pc = "collect"
  /\ Free
  /\ media' = MetadataCollected(Target(t), thread[t].url)
  /\ thread' = IF t = "reader" THEN [thread EXCEPT ![t].pc = "finish"]
                               ELSE [thread EXCEPT ![t] = At("idle")]
  /\ StillStuck
  /\ UNCHANGED <<running, adder, commands, missed, mixed>>

\* xmms_output_filler comes to the next entry of the playlist.
Play(i) ==
  /\ filler.pc = "idle"
  /\ commands < MaxCommands
  /\ commands' = commands + 1
  /\ thread' = [thread EXCEPT !["filler"] =
                  [At("setup") EXCEPT !.entry = i]]
  /\ UNCHANGED <<media, running, adder, missed, mixed, stuck>>

\* No chain: the status of a new entry is read in one transaction and the
\* entry removed in the next.
FillerFailed ==
  /\ filler.pc = "failed"
  /\ Free
  /\ IF media[filler.entry].status = "NEW"
     THEN thread' = [thread EXCEPT !["filler"].pc = "removing"] /\ UNCHANGED media
     ELSE /\ media' = StatusSet(filler.entry, "NOT_AVAILABLE")
          /\ Goes("filler", "idle")
  /\ StillStuck
  /\ UNCHANGED <<running, adder, commands, missed, mixed>>

FillerRemoves ==
  /\ filler.pc = "removing"
  /\ Free
  /\ media' = Deleted(filler.entry)
  /\ Goes("filler", "idle")
  /\ StillStuck
  /\ UNCHANGED <<running, adder, commands, missed, mixed>>

-----------------------------------------------------------------------------
(***************************************************************************)
(* The clients.  One that adds an entry signals the reader before it       *)
(* commits, one that rehashes after.                                       *)
(***************************************************************************)

\* Once the reader is being stopped, what the clients call is freed one by one
\* and no command is taken here.
Command ==
  running /\ commands < MaxCommands /\ commands' = commands + 1

\* xmms_medialib_entry_new_encoded, of a url that is not there yet
Add(c, url) ==
  /\ Command
  /\ adder[c] = Ready
  /\ Free
  /\ \A i \in Present : media[i].url # url
  /\ NextId \in Id
  /\ writer' = c
  /\ adder' = [adder EXCEPT ![c] = [pc |-> "adding", url |-> url]]
  /\ Signal
  /\ UNCHANGED <<media, running, mixed, stuck>>

\* COMMIT.  The id may be that of an entry just removed, and a thread still
\* be at work on that one.
AddCommit(c) ==
  /\ adder[c].pc = "adding"
  /\ media' = Inserted(adder[c].url)
  /\ writer' = "none"
  /\ adder' = [adder EXCEPT ![c] = Ready]
  /\ mixed' = IF \E t \in Thread : thread[t].entry = NextId
              THEN mixed \cup {NextId} ELSE mixed \ {NextId}
  /\ StillStuck
  /\ UNCHANGED <<running, thread, commands, missed>>

\* xmms_medialib_entry_remove
RemoveEntry(i) ==
  /\ Command
  /\ Free
  /\ i \in Present
  /\ media' = Deleted(i)
  /\ StillStuck
  /\ UNCHANGED <<running, thread, adder, missed, mixed>>

\* xmms_medialib_client_rehash, of one entry or of all
Rehash(c, S) ==
  /\ Command
  /\ adder[c] = Ready
  /\ Free
  /\ media' = [i \in Id |-> IF i \in S \cap Present
                            THEN [media[i] EXCEPT !.status = "REHASH"]
                            ELSE media[i]]
  /\ adder' = [adder EXCEPT ![c] = [pc |-> "rehashed", url |-> Nothing]]
  /\ StillStuck
  /\ UNCHANGED <<running, thread, missed, mixed>>

RehashSignal(c) ==
  /\ adder[c].pc = "rehashed"
  /\ adder' = [adder EXCEPT ![c] = Ready]
  /\ Signal
  /\ UNCHANGED <<media, running, commands, mixed, stuck>>

\* A playlist file is read through a chain for entry 0, which chain_setup
\* turns into entry 1.
IdlistFromPlaylist(url) ==
  /\ Command
  /\ Free
  /\ url \in Playable
  /\ media' = MetadataCollected(1, url)
  /\ mixed' = mixed \cup {1}
  /\ StillStuck
  /\ UNCHANGED <<running, thread, adder, missed>>

\* Mutation: the sleeping reader is not woken.
StopReader_Quiet ==
  /\ running
  /\ running' = FALSE
  /\ missed' = (missed \/ reader.pc \in {"pick", "wait"})
  /\ UNCHANGED <<media, writer, thread, adder, commands, mixed, stuck>>

\* xmms_mediainfo_reader_stop, up to the join: running is not looked at again
\* before a sleep.
StopReader ==
  /\ running
  /\ running' = FALSE
  /\ thread' = IF reader.pc = "asleep"
               THEN [thread EXCEPT !["reader"] = At("test")] ELSE thread
  /\ missed' = (missed \/ reader.pc \in {"pick", "wait"})
  /\ UNCHANGED <<media, writer, adder, commands, mixed, stuck>>

\* The server is gone, after a stop or by a crash, and a transaction in
\* progress with it; another is started on the media library it left.
Restart ==
  /\ commands < MaxCommands /\ commands' = commands + 1
  /\ running' = TRUE
  /\ thread' = Fresh
  /\ adder' = NobodyAdds
  /\ writer' = "none"
  /\ missed' = FALSE
  /\ stuck' = {i \in Id : media[i].status = "RESOLVING"}
  /\ UNCHANGED <<media, mixed>>

ReaderStep ==
  \/ /\ \/ Test \/ \E i \in Id : Pick(i) \/ FindNone \/ Sleep \/ Finish
        \/ ReaderFailed \/ SetUp("reader") \/ Collect("reader")
     /\ UNCHANGED writer

FillerStep ==
  /\ SetUp("filler") \/ Collect("filler") \/ FillerFailed \/ FillerRemoves
  /\ UNCHANGED writer

ClientCommand ==
  \/ \E c \in Client, url \in Url : Add(c, url)
  \/ /\ \/ \E i \in Id : RemoveEntry(i) \/ Play(i)
        \/ \E c \in Client : \/ Rehash(c, Id)
                             \/ \E i \in Id : Rehash(c, {i})
        \/ \E url \in Url : IdlistFromPlaylist(url)
     /\ UNCHANGED writer

ClientEnds(c) == AddCommit(c) \/ (RehashSignal(c) /\ UNCHANGED writer)

Next ==
  \/ ReaderStep \/ FillerStep \/ ClientCommand \/ StopReader \/ Restart
  \/ \E c \in Client : ClientEnds(c)

\* The threads run and what a client has begun ends; nobody has to begin.
Fairness ==
  /\ WF_vars(ReaderStep) /\ WF_vars(FillerStep)
  /\ \A c \in Client : WF_vars(ClientEnds(c))

Spec == Init /\ [][Next]_vars /\ Fairness

-----------------------------------------------------------------------------
(***************************************************************************)
(* Properties.                                                             *)
(***************************************************************************)

TypeOK ==
  /\ media \in [Id -> Entries]
  /\ writer \in Client \cup {"none"}
  /\ running \in BOOLEAN
  /\ thread \in [Thread -> [pc : Pc, entry : Id \cup {0},
                            prev : Status \cup {"NONE"}, url : Url \cup {Nothing}]]
  /\ adder \in [Client -> [pc : {"idle", "adding", "rehashed"},
                           url : Url \cup {Nothing}]]
  /\ commands \in 0..MaxCommands
  /\ missed \in BOOLEAN
  /\ mixed \subseteq Id /\ stuck \subseteq Id

\* The reader does not sleep while an entry waits for it, though it is
\* signalled before the entry can be seen; unless the signal came after its
\* look and before its sleep.
ReaderAwake ==
  reader.pc = "asleep" /\ NotResolved # {} /\ ~missed
    => \E c \in Client : adder[c].pc = "rehashed"

\* An entry is marked RESOLVING only while the reader is at it, or since a
\* crash; one marked OK has the metadata of its own url, unless its id had
\* another entry when a thread began with it, or a playlist file was read
\* into it.
InfoIsOwn ==
  /\ TypeOK
  /\ \A i \in Id :
       /\ media[i].status = "RESOLVING" /\ i \notin stuck => reader.entry = i
       /\ media[i].status = "OK" /\ i \notin mixed => media[i].info = media[i].url

\* An entry that is added or rehashed is looked into in the end, or removed,
\* by a reader that is not stopped and has not slept over the signal.
NothingForgotten ==
  \A i \in Id :
    media[i].status \in {"NEW", "REHASH", "RESOLVING"}
      ~> \/ media[i].status \notin {"NEW", "REHASH", "RESOLVING"}
         \/ i \in stuck \/ missed \/ ~running

\* "Kill the mediainfo reader thread": a reader that is told to stop ends,
\* unless it was told between its look and its sleep.
StopEnds == ~running ~> (reader.pc = "ended" \/ running \/ missed)
=============================================================================
