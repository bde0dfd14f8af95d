---------------------------- MODULE ClientCache -----------------------------
(***************************************************************************)
(* The cache of the active playlist that the command line client keeps,    *)
(* src/src/clients/nycli/cli_cache.c, together with what feeds it: the     *)
(* thread of the server that answers this client, another client whose     *)
(* commands edit and load playlists, and the two directions of the         *)
(* connection, each of which delivers once and in order (IpcDelivery).     *)
(*                                                                         *)
(* The other client is served by one thread, so that its commands follow   *)
(* one another.  An edit and its notice, and the snapshot that answers     *)
(* list_entries, are each made under playlist->mutex: single steps.  Every *)
(* change of the server's state has a version, which notices and answers   *)
(* carry: a history by which properties tell older from newer.             *)
(***************************************************************************)
EXTENDS Naturals, SequencesExt

CONSTANTS Name,         \* the playlists
          Entry,        \* the medialib entries
          Setup,        \* the entries of each playlist at first
          FirstActive,  \* the playlist that is active at first
          MaxChanges,   \* bound: edits and loads
          MaxEntries    \* bound: entries of a playlist

NoName == "(null)"

ASSUME CacheAssumption ==
  /\ FirstActive \in Name /\ Setup \in [Name -> Seq(Entry)]
  /\ NoName \notin Name
  /\ MaxChanges \in Nat /\ MaxEntries \in Nat

\* What a position beyond the end of a GArray leaves before an inserted entry.
Zero == "zero"

VARIABLES
  \* the server
  lists,        \* the entries of each playlist
  active,       \* the playlist _active points at
  loading,      \* a load that moved the pointer and not yet said so, or <<>>
  version,      \* the number of changes so far
  registered,   \* the broadcasts this client registered for
  answer,       \* what its thread has looked up and not yet queued, or <<>>
  \* the connection
  requests,     \* from the client to the server
  inbox,        \* from the server to the client
  \* the client
  phase,        \* the answer cli_cache_refresh waits for, or "run"
  parsed,       \* that answer, arrived and not yet used, or <<>>
  active_playlist, active_playlist_name,
  fresh_list, fresh_name,   \* freshness of the two
  crashed,      \* strcmp was called with NULL, or memmove with a negative size
  newest,       \* history: newest version the client dealt with
  overtaken     \* history: it dealt with an older one after a newer one

serverVars == <<lists, active, loading, version>>
threadVars == <<registered, answer>>
cacheVars == <<active_playlist, active_playlist_name, fresh_list, fresh_name>>
ghostVars == <<newest, overtaken>>
vars == <<serverVars, threadVars, requests, inbox, phase, parsed, cacheVars,
          crashed, ghostVars>>

NotInit == [status |-> "NOT_INIT", pending_queries |-> 0]

Ask(what, sync) == [what |-> what, sync |-> sync]

\* cli_cache_start registers, asks for the values that are not modelled
\* further, and waits.
Init == /\ lists = Setup /\ active = FirstActive
        /\ loading = <<>> /\ version = 0
        /\ registered = {} /\ answer = <<>>
        /\ requests = <<Ask("changed", FALSE), Ask("loaded", FALSE),
                        Ask("values", TRUE)>>
        /\ inbox = <<>>
        /\ phase = "values" /\ parsed = <<>>
        /\ active_playlist = <<>> /\ active_playlist_name = NoName
        /\ fresh_list = NotInit /\ fresh_name = NotInit
        /\ crashed = FALSE
        /\ newest = 0 /\ overtaken = FALSE

(***************************************************************************)
(* Arrays.  Positions count from 0.                                        *)
(***************************************************************************)

Without(s, pos) == IF pos < Len(s) THEN RemoveAt(s, pos + 1) ELSE s

Inserted(s, pos, e) ==
  InsertAt(s \o [i \in 1..pos - Len(s) |-> Zero], pos + 1, e)

(***************************************************************************)
(* The server: commands of the other client                                *)
(***************************************************************************)

Notify(kind, notice) ==
  inbox' = IF kind \in registered THEN Append(inbox, notice) ELSE inbox

\* A handler of playlist.c that changed list n, under playlist->mutex.
Edit(n, list, change) ==
  /\ lists' = [lists EXCEPT ![n] = list]
  /\ version' = version + 1
  /\ Notify("changed", [is |-> "changed", name |-> n, change |-> change,
                        version |-> version + 1])
  /\ UNCHANGED <<active, loading>>

Change(type, pos, newpos, id) ==
  [type |-> type, pos |-> pos, newpos |-> newpos, id |-> id]

Positions(n) == 0..Len(lists[n]) - 1

AddEntry(n) ==
  /\ Len(lists[n]) < MaxEntries
  /\ \E e \in Entry :
       Edit(n, Append(lists[n], e), Change("ADD", Len(lists[n]), 0, e))

InsertEntry(n) ==
  /\ Len(lists[n]) < MaxEntries
  /\ \E e \in Entry, pos \in 0..Len(lists[n]) :
       Edit(n, Inserted(lists[n], pos, e), Change("INSERT", pos, 0, e))

MoveEntry(n) ==
  \E pos, newpos \in Positions(n) :
    LET e == lists[n][pos + 1]
    IN  Edit(n, Inserted(Without(lists[n], pos), newpos, e),
             Change("MOVE", pos, newpos, e))

RemoveEntry(n) ==
  \E pos \in Positions(n) :
    Edit(n, Without(lists[n], pos), Change("REMOVE", pos, 0, Zero))

Clear(n) == Edit(n, <<>>, Change("CLEAR", 0, 0, Zero))

\* A shuffle or a sort: the entries in some order.
Reorder(n) ==
  \E p \in Bijection(DOMAIN lists[n], DOMAIN lists[n]) :
    Edit(n, [i \in DOMAIN lists[n] |-> lists[n][p[i]]],
         Change("SHUFFLE", 0, 0, Zero))

\* xmms_playlist_client_load moves the pointer ...
Load(n) ==
  /\ active # n
  /\ active' = n
  /\ version' = version + 1
  /\ loading' = <<[is |-> "loaded", name |-> n, version |-> version + 1]>>
  /\ UNCHANGED <<lists, inbox>>

\* ... and emits the broadcast after it released the lock.
Loaded ==
  /\ loading # <<>>
  /\ Notify("loaded", Head(loading))
  /\ loading' = <<>>
  /\ UNCHANGED <<lists, active, version>>

OtherClient ==
  /\ \/ /\ loading = <<>>
        /\ version < MaxChanges
        /\ \E n \in Name : \/ AddEntry(n) \/ InsertEntry(n) \/ MoveEntry(n)
                           \/ RemoveEntry(n) \/ Clear(n) \/ Reorder(n)
                           \/ Load(n)
     \/ Loaded
  /\ UNCHANGED <<threadVars, requests, phase, parsed, cacheVars, crashed,
                 ghostVars>>

(***************************************************************************)
(* The server: the thread of this client                                   *)
(***************************************************************************)

\* A command is handled: its answer is what the server holds now.
Lookup ==
  /\ answer = <<>>
  /\ requests # <<>>
  /\ LET r == Head(requests)
     IN  IF r.what \in {"changed", "loaded"}
         THEN /\ registered' = registered \cup {r.what}
              /\ UNCHANGED answer
         ELSE /\ answer' = <<[is |-> r.what, sync |-> r.sync,
                              list |-> lists[active], name |-> active,
                              version |-> version]>>
              /\ UNCHANGED registered
  /\ requests' = Tail(requests)
  /\ UNCHANGED <<serverVars, inbox, phase, parsed, cacheVars, crashed,
                 ghostVars>>

\* The mutex was released long before the answer is queued.
Reply ==
  /\ answer # <<>>
  /\ inbox' = Append(inbox, Head(answer))
  /\ answer' = <<>>
  /\ UNCHANGED <<serverVars, registered, requests, phase, parsed, cacheVars,
                 crashed, ghostVars>>

(***************************************************************************)
(* The client: freshness                                                   *)
(***************************************************************************)

Requested(f) == [status |-> "PENDING",
                 pending_queries |-> f.pending_queries + 1]

\* Mutation: the count is tested before it is decreased.
Received_TestFirst(f) ==
  LET left == IF f.pending_queries > 0 THEN f.pending_queries - 1 ELSE 0
  IN  CASE f.status = "NOT_INIT" -> [status |-> "FRESH", pending_queries |-> 0]
        [] f.status = "PENDING" ->
             [status |-> IF f.pending_queries = 0 THEN "FRESH" ELSE "PENDING",
              pending_queries |-> left]
        [] f.status = "FRESH" -> f

Received(f) ==
  LET left == IF f.pending_queries > 0 THEN f.pending_queries - 1 ELSE 0
  IN  CASE f.status = "NOT_INIT" -> [status |-> "FRESH", pending_queries |-> 0]
        [] f.status = "PENDING" ->
             [status |-> IF left = 0 THEN "FRESH" ELSE "PENDING",
              pending_queries |-> left]
        [] f.status = "FRESH" -> f

(***************************************************************************)
(* The client: what it does with a message                                 *)
(***************************************************************************)

Older(m) == overtaken' = (overtaken \/ m.version < newest)

Deal(m) == /\ Older(m)
           /\ newest' = IF m.version > newest THEN m.version ELSE newest

\* Get all the entries again.
Reload == /\ requests' = Append(requests, Ask("entries", FALSE))
          /\ fresh_list' = Requested(fresh_list)

\* An array without the element at a position it does not have is left as it
\* is; one with an element put beyond its end grows, in newer versions of the
\* library, or is moved by a negative size.
Apply(c) ==
  LET cut == IF c.type = "MOVE" THEN Without(active_playlist, c.pos)
                                ELSE active_playlist
      at == IF c.type = "MOVE" THEN c.newpos ELSE c.pos
  IN  \/ /\ c.type = "ADD"
         /\ active_playlist' = Append(active_playlist, c.id)
         /\ UNCHANGED crashed
      \/ /\ c.type = "REMOVE"
         /\ active_playlist' = Without(active_playlist, c.pos)
         /\ UNCHANGED crashed
      \/ /\ c.type \in {"INSERT", "MOVE"}
         /\ active_playlist' = Inserted(cut, at, c.id)
         /\ crashed' \in (IF at > Len(cut) THEN BOOLEAN ELSE {crashed})

\* Mutation: whichever playlist it was.
UpdateActivePlaylist_AnyName(m) ==
  \/ /\ m.change.type \in {"SHUFFLE", "CLEAR"}
     /\ Reload
     /\ UNCHANGED <<active_playlist, crashed>>
  \/ /\ Apply(m.change)
     /\ UNCHANGED <<fresh_list, requests>>

\* The handler of the broadcast of an edit.
UpdateActivePlaylist(m) ==
  \/ /\ active_playlist_name = NoName
     /\ crashed' = TRUE
     /\ UNCHANGED <<active_playlist, fresh_list, requests>>
  \/ /\ active_playlist_name \notin {NoName, m.name}
     /\ UNCHANGED <<active_playlist, fresh_list, requests, crashed>>
  \/ /\ active_playlist_name = m.name
     /\ m.change.type \in {"SHUFFLE", "CLEAR"}
     /\ Reload
     /\ UNCHANGED <<active_playlist, crashed>>
  \/ /\ active_playlist_name = m.name
     /\ Apply(m.change)
     /\ UNCHANGED <<fresh_list, requests>>

\* The handler of the broadcast of a load.
ReloadActivePlaylist(m) ==
  /\ active_playlist_name' = m.name
  /\ Reload
  /\ UNCHANGED <<active_playlist, crashed>>

RefreshActivePlaylist(m) ==
  /\ active_playlist' = m.list
  /\ fresh_list' = Received(fresh_list)

RefreshActivePlaylistName(m) ==
  /\ active_playlist_name' = m.name
  /\ fresh_name' = Received(fresh_name)

\* The client reads a message and runs its notifier.  The answer it waits for
\* has none: it is only parsed.
Receive ==
  /\ inbox # <<>>
  /\ LET m == Head(inbox)
     IN  \/ /\ m.is = "changed"
            /\ UpdateActivePlaylist(m)
            /\ Deal(m)
            /\ UNCHANGED <<active_playlist_name, fresh_name, parsed>>
         \/ /\ m.is = "loaded"
            /\ ReloadActivePlaylist(m)
            /\ Deal(m)
            /\ UNCHANGED <<fresh_name, parsed>>
         \/ /\ m.is = "entries" /\ ~m.sync
            /\ RefreshActivePlaylist(m)
            /\ Deal(m)
            /\ UNCHANGED <<active_playlist_name, fresh_name, requests, parsed,
                           crashed>>
         \/ /\ m.is \in {"values", "entries", "name"} /\ m.sync
            /\ parsed' = <<m>>
            /\ UNCHANGED <<cacheVars, requests, crashed, ghostVars>>
  /\ inbox' = Tail(inbox)
  /\ UNCHANGED <<serverVars, threadVars, phase>>

\* cli_cache_refresh goes on, after everything that could be read together
\* with the answer was dealt with.
Refreshed ==
  /\ parsed # <<>>
  /\ LET m == Head(parsed)
     IN  \/ /\ phase = "values"
            /\ phase' = "entries"
            /\ requests' = Append(requests, Ask("entries", TRUE))
            /\ UNCHANGED <<cacheVars, ghostVars>>
         \/ /\ phase = "entries"
            /\ RefreshActivePlaylist(m)
            /\ Deal(m)
            /\ phase' = "name"
            /\ requests' = Append(requests, Ask("name", TRUE))
            /\ UNCHANGED <<active_playlist_name, fresh_name>>
         \/ /\ phase = "name"
            /\ RefreshActivePlaylistName(m)
            /\ Deal(m)
            /\ phase' = "run"
            /\ UNCHANGED <<active_playlist, fresh_list, requests>>
  /\ parsed' = <<>>
  /\ UNCHANGED <<serverVars, threadVars, inbox, crashed>>

Client == /\ ~crashed
          /\ Receive \/ Refreshed

ServerThread == Lookup \/ Reply

Next == OtherClient \/ ServerThread \/ Client

\* The threads run; the other client need not change anything, but a load it
\* began is announced.
Spec == /\ Init /\ [][Next]_vars
        /\ WF_vars(ServerThread) /\ WF_vars(Client)
        /\ WF_vars(OtherClient /\ Loaded)

(***************************************************************************)
(* Properties                                                              *)
(***************************************************************************)

Freshness == [status : {"NOT_INIT", "PENDING", "FRESH"}, pending_queries : Nat]

TypeOK ==
  /\ lists \in [Name -> Seq(Entry)] /\ active \in Name
  /\ registered \subseteq {"changed", "loaded"}
  /\ phase \in {"values", "entries", "name", "run"}
  /\ active_playlist \in Seq(Entry \cup {Zero})
  /\ active_playlist_name \in Name \cup {NoName}
  /\ fresh_list \in Freshness /\ fresh_name \in Freshness
  /\ crashed \in BOOLEAN /\ overtaken \in BOOLEAN

\* cli_cache_is_fresh
IsFresh == /\ phase # "values"
           /\ fresh_list.status = "FRESH"
           /\ fresh_name.status = "FRESH"

\* Nothing is under way between the server and the client.
Quiet == /\ loading = <<>> /\ answer = <<>> /\ requests = <<>>
         /\ inbox = <<>> /\ parsed = <<>> /\ ~crashed

UpToDate == /\ active_playlist = lists[active]
            /\ active_playlist_name = active

\* A client that never dealt with something older after something newer holds
\* the active playlist when nothing is under way, through loads, reloads in
\* flight, edits applied to a list about to be replaced, and edits before the
\* first answer: overtaking is the only way to a stale cache.
UpToDateUnlessOvertaken == TypeOK /\ (Quiet /\ ~overtaken => UpToDate)

\* The client's commands wait for a fresh cache (main.c:128): they get one
\* over and over, whatever was edited meanwhile, unless the client crashed.
FreshAgain == []<>(IsFresh \/ crashed)
=============================================================================
