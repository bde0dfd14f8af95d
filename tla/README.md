# A verification project for the XMMS2 server

TLA+ models of the XMMS2 music server (`src/src/xmms`), checked with TLC on
small instances, and proofs of some of their properties, checked with TLAPS for
every value of the parameters. Paths below are relative to `src/src/xmms`
unless they begin with `src/`.

## 1. The system

`xmms2d` is one process with many threads and one mutex per object.

| part | files | state | operations |
|---|---|---|---|
| ring buffer | `ringbuf.c` | array, read and write index, end-of-stream flag, queue of hotspots, three condition variables | read, peek, write, their waiting forms, clear, hotspot_set, set_eos |
| output, filler | `output.c` | `filler_state`, the ring buffer, the chain of the current song, `toskip`, `status`, playtime | the filler thread; `xmms_output_read`; the playback commands start, stop, pause, tickle, seek; plugin switch, destroy |
| output plugin driver | `outputplugin.c` | `wanted_status`, `status`, `write_running`, four mutexes | the writer thread, status, volume, teardown |
| playlists | `playlist.c` | lists of medialib ids, "position" attributes, the active playlist, repeat modes | edits, set_next, advance, the handlers that trim queues and refill party shuffles |
| collections | `collection.c`, `collquery.c`, `collserial.c`, `collsync.c` | a DAG of named collections, a debounced writer thread | save, remove, rename, query, sync |
| media library | `medialib.c`, `sqlite.c`, `mediainfo.c` | the SQLite database, the status of each entry, a resolver thread | add, remove, resolve, rehash |
| xforms | `xform.c`, `segment_plugin.c`, `converter_plugin.c`, `magic.c`, `streamtype.c` | a chain of decoders, read-ahead buffers with hotspots | init, read, peek, seek, metadata |
| IPC | `ipc.c`, `object.c`, `src/src/lib/xmmsipc` | clients with out queues, pending signals, broadcasts; signal handlers of objects | read and write callbacks, signal, broadcast, client and server teardown |
| configuration | `config.c` | the property tree, a file | register, set, callbacks, save, load |
| visualization, bindata, plugins, log, main | the rest | client table, files, loaded modules | |
| clients | `src/src/clients` | results, caches | the client library, nycli, bindings |

### How the parts interact

* A **client thread** per connection executes a command under the mutex of the
  object it is for. Playback commands write `filler_state` and call
  `status_set`; playlist commands emit signals.
* **Signals** (`object.c`) are handled synchronously, in the emitting thread,
  in the order the handlers were connected. For a playlist these are first the
  IPC broadcast, then the handler that trims or refills the playlist, so an
  operation of a playlist is interrupted by further operations it causes.
* The **filler thread** asks the playlist for the current entry, builds a chain
  for it and decodes it, all without `filler_mutex`, and puts the data into the
  ring buffer under it. In front of a song it sets a hotspot that will run
  `song_changed` when the reader gets there.
* The **output thread** (the writer of `outputplugin.c`, or a thread of the
  plugin) reads from the ring buffer; the hotspots run in it, set the format
  and tell the clients the current id.
* A **media info thread** looks into every entry of the media library that is
  new or to be read again, in the same transactions as the filler, which sets
  up a chain for an entry it plays; a **collection sync thread** writes the
  collections to the database when they have not been changed for a while. Both
  sleep on a condition variable and are woken by the threads that change things.
* The **configuration** is written as a whole by whichever thread changes a
  value.
* The **main thread** switches the output plugin when the configuration says
  so, and at the end quits and joins filler and writer, before the IPC is shut
  down: clients send commands until the last moment.

### What is hard

Requests are left in one variable, `filler_state`, and a later one replaces an
earlier one; the filler acts with the mutex released and writes its result
after others have acted; clearing the buffer races with the block in hand; two
condition variables must wake two threads that wait for each other; four
mutexes are nested; a teardown races with commands; in the playlist a
position is read before a signal and written after it; a collection is
validated under one lock and saved under the next; a condition is tested
without the mutex that is held for the wait; and a file is emptied before it is
written, while others may do the same. `PROJECT.json` lists
these hazards at their lines, with the properties that watch them.

### What makes each part correct

* ring buffer: bytes come out once and in order; a hotspot runs before the
  first byte behind it is read.
* output: no lost wake-up; the filler sleeps through no request (though its own
  stop may replace one); the end of the stream is announced only by a filler
  that is told to stop or to seek; no song is heard under the name of another,
  but for one block.
* plugin driver: a stopped writer has closed the device; a writer that ends
  finds it closed; a requested status is reached.
* playlists: the current entry stays the current one through edits; a client
  that applies the broadcasts has the server's list; advancing answers whether
  there is something to play.
* collections: a reference is bound to what its name leads to; none leads back
  to itself; the active playlist exists. What was saved is what was there.
* media info reader and collection sync: woken up they work, stopped they end.
* IPC: replies and broadcasts arrive once and in order; nothing is sent to a
  client that is gone; a cache fed by broadcasts converges.
* configuration: a value that was set survives; a crash loses no more than the
  value being set.

## 2. The modules

### `MarkedFifo` and `RingBuf`

`MarkedFifo` is the abstract queue: a bounded sequence of bytes and a sequence
of marks, each some bytes away from the front. A read runs the marks at the
front and takes bytes up to the next mark; a write takes as many as fit.

`RingBuf` is `struct xmms_ringbuf_St`: `buffer`, `rd_index`, `wr_index`, `eos`,
`hotspots`, with one action per function. `out` holds what the last call
returned (data, the hotspots it ran) or took (`wrote`), so that properties can
speak of it. The callers hold a mutex throughout, so an operation is an action.
A hotspot's callback is its argument; that it may refuse the read, and clear
the buffer while doing so, is `ReadRefused`. The mapping to `MarkedFifo` reads
the array from the read to the write index (`ImplementsFifo`).

### `OutputFiller`

The producer half of `output.c`, on top of the queue that `RingBuf` implements
(`ring`, a sequence of data units and of the two hotspots of `output.c`).
`filler_mutex` is not a variable: what a thread does from taking it to
releasing it is one action, and waiting on a condition variable ends the action
with the thread asleep (`stop_wait`, `free_wait`, `write_wait`, `used_wait`),
from where only a signal wakes it. What the filler does without the mutex is a
phase of its own, `lookup` or `read`, in which everybody else may act before
the filler's next action writes what it decided.

| actions | code |
|---|---|
| `Start` .. `Seek` | the client commands, split where they release `filler_mutex` before `status_set` |
| `SeeQuit`, `SeeStop`, `SeeKill`, `SeekOk`, ... | the branches of the filler's loop |
| `GiveUp`, `TryNextSong`, `AnnounceSong` | the outcomes of the look-up and the set-up of a chain |
| `WriteBlock`, `WriteWoken`, `SongOver` | the outcomes of decoding a block |
| `ReadWaits`, `ReadData`, `ReadRefused` | `xmms_output_read` with `song_changed` and `seek_done` |
| `Destroy`, `Joined` | the shutdown |

The playlist is reduced to its answers (an entry or none, a next one or none).
Three history variables remember what excuses an exception: `unseen` (the
filler has not looked since the last request that clears the buffer),
`overtaken` (RUN or SEEK replaced such a request), `silenced` (a seek dropped
the announcement of its song).

### `OutputPlugin`

The consumer half: `outputplugin.c`, with `status_set`, `plugin_switch` and
`destroy` of `output.c`. Here mutexes nest, so they are a variable (`holder`)
and each thread has a program counter; an action ends where the code could
block or another thread could look. `reading` stands for `xmms_output_read`
with its outcomes: data, none, or the end of the stream, on which it stops the
playback itself. The volume and latency methods, which take no mutex and change
no state of the driver, are left out. The history variable `raced` records that
a client told the writer to play when the teardown had told it to stop: in a
shutdown, which takes no mutex of the output, this can happen.

### `Playlist`

All operations hold `playlist->mutex` (but `load`, one assignment), so each is
one action; the difficulty is inside it. An operation is a function on a store
(`Store`: the lists, the positions, the active playlist, what was broadcast),
and `Changed` and `CurrPos` apply the handlers of the signal where the code
emits it, so what was read before is stale after it, as in the code. `mirror`
is the list a client reconstructs from the broadcasts as the cache of `nycli`
does. `advance_do` calls itself; it is unfolded as often as it can matter
(`AdvanceCalls`), and if it has not returned then it never does (`hung`).
`misled` records that the last operation left a playlist with another position
than it had and than the operation broadcast.

A client may edit any playlist, and the handler of a new position trims the
active one, whichever moved (`playlist.c:178`). A queue or party shuffle that is
not active and gets an entry in front of its current one is therefore left with
one entry too many before it, until its next edit, which is then trimmed in its
middle. `late` records which playlists this has happened to, until their
position is right again. `room`, in a setup, is a bound of the model: to so many
entries of a playlist a client adds no more.

Not in it: `remove_by_entry`, listing, negative positions, creating, renaming
and removing playlists (that is `collection.c`), `load` in the middle of
another operation, how a sort compares (any order is allowed).

### `IpcDelivery` and `IpcClient`

`IpcDelivery` is the promise made for each connection: what is queued for it is
delivered once, whole, in order, and in the end, unless the connection ends.
`Safety` is what may happen, and `Spec` adds the fairness from which the end
follows.

`IpcClient` is `ipc.c`: a thread per client that reads commands, answers them
and writes the client's queue, and an emission loop that any thread may run and
that puts messages into every client's queue. What happens under one client's
lock is one action (nothing blocks in it); the emission loop is a variable,
`emission`, because it holds the locks of the server list and of the server
from its first client to its last, while the others go on.

| actions | code |
|---|---|
| `ReadRequest`, `CommandEmits`, `CommandReads`, `Reply`, `ReadEnd` | `xmms_ipc_client_read_cb` and `process_msg`: a registration, or a command with the broadcast it causes and its answer |
| `WritePeek`, `WriteSome`, `WriteNothing`, `WriteFails`, `WritePop`, `WriteDone` | `xmms_ipc_client_write_cb`, whose lock is free between a peek and a pop |
| `EmitVisit`, `EmitEnd`, `ServerEmits` | `xmms_ipc_signal_cb`, `xmms_ipc_broadcast_cb` |
| `SourceAccept`, `DestroyBegin`, `DestroyRemove`, `DestroyFree`, `Shutdown` | the life of connections and of the server |

`sources` counts the write sources attached to a client's main loop: the code
attaches one when it finds the queue empty, also while the callback of another
has seen the empty queue and not yet returned, so that there may be two. A
message goes down the socket in at most two parts, and `Transfer` computes what
the other end makes of the parts it sees. A client thread that ends during a
shutdown may use the freed server (`undefined`): the model stops there.

The refinement maps a client's queue, without a head that has wholly gone down
the socket, to `pending`.

### `ClientCache`

The cache of `nycli` (`src/src/clients/nycli/cli_cache.c`), with the thread
that serves it and another client that edits and loads playlists. An edit and
its broadcast happen under `playlist->mutex`, and so does the look-up that
answers `list_entries`; but the answer is queued later (`Lookup`, `Reply`), and
the load broadcast is emitted after the pointer moved (`Load`, `Loaded`). The
two directions of the connection are queues, which is what `IpcDelivery`
promises. `Receive` is a message with the notifier it runs; while
`cli_cache_refresh` waits for an answer, others go on being dispatched, and the
answer is used in a later step (`Refreshed`), as `xmmsc_result_wait` only
returns when everything that could be read was dispatched. Each message carries
the version of the server's state it describes, so that `overtaken` can record
that an older one was dealt with after a newer one.

A broadcast that arrives before the name is known is compared with NULL:
the client crashes (`crashed`). The single values (position, id, status) and
the rename handler are left out.

### `Collections`

`collection.c` with the part of `collquery.c` that stores and restores. `table`
is `dag->collrefs`, from labels (a namespace and a name) to operators; the
operators lie in `heap`, a function from addresses, so that operands are shared
and an operator may be freed while somebody still has its address. An address
is a sequence of numbers: what a save brings begins with the number of the
save, so that none is used again, and a copy that is read back at a start has
the address of its original behind that of the collection it was written with.
A reference is an operator with a label; its operand is what the label led to
when the reference was bound. Instead of a label it may name the namespace `*`,
for the label with its name in any of them (`Anywhere`, `Target`): it is looked
up by that (`Lookup`) when it is saved and when the server starts, but where the
code compares namespaces it is nobody's reference, so that it is not bound anew
or renamed, and is left when what it refers to is removed (`collection.c:1552`,
`1579`, `1617`).

| actions | code |
|---|---|
| `Validate`, `Save` | `xmms_collection_client_save`: the check, which takes `dag->mutex` for each of its look-ups, and the save, which takes it again |
| `RemoveCollection`, `RenameCollection` | the commands of these names, under the mutex |
| `LookUp`, `Load` | `xmms_playlist_load`, which takes no `dag->mutex` at all |
| `Restart` | `xmms_collection_dag_save`, then `xmms_collection_dag_restore` in a new process |

What a client saves is one of `Shape`, and names labels; its references have no
operand before the save binds them. Each change ends with `Commit`, which drops
the operators that nothing refers to. What is reached in the graph is `Closure`,
by references as operands for one search (`Walked`), and without following them
for the walk of `xmms_collection_apply_to_collection` (`Visited`). A search that
meets an operator again on its way does not end in the code (`Endless`,
`Circular`), and the server is `broken`. `MaxDepth` bounds only how deep
`Meaning` follows a query. `COMPLEMENT` stands for all operators on operators,
as nothing here tells them apart. Not in it: queries, matching, find, attributes
and the broadcast.

Three history variables say what excuses an exception. `strayed`: `_active` was
set to what has no other name, or renamed. `loose` has the labels that
references may be out of step with, and `tangled` says that the check against
loops was passed by:

* the graph was changed between a check and its save, or under another name:
  `_active` and the playlist it stands for are two names of one operator, and
  each of the commands looks at the name it is called with;
* a load stores the operator it looked up before. If the playlist was removed
  meanwhile, and is still in use behind a reference, then what it refers to was
  left out when references were bound in between, and comes back as it was
  (`fresh` in `Load`);
* a collection was removed that a label refers to directly. The reference of a
  label has no parent in which to put the target (the FIXME in
  `xmms_collection_unreference`), so it keeps its name without an operand, and
  what refers to that label has a stale operand (`Held`). A later save, rename
  or removal can close a loop of operands there.

The last two lie outside the bounds of the run. The proof found them: the steps
from `Load` and `RemoveCollection` failed, and instances with more commands but
fewer shapes have the behaviours.

### `Medialib` and `MediaInfo`

`Medialib` is the database as its users see it: the url, status and metadata of
each id, and the exclusive transaction, `writer`. What a transaction has done
is seen when it is committed; an action that opens and closes one only needs
that nobody else has it.

`MediaInfo` is `mediainfo.c`, next to the filler of `output.c` and to clients.

| actions | code |
|---|---|
| `Test`, `Pick`, `FindNone`, `Sleep` | the loop of the reader: `running`, the look for an entry, the wait |
| `SetUp`, `Collect` | `xmms_xform_chain_setup`, by reader or filler: the url is read at its beginning, the metadata written at its end |
| `Finish`, `ReaderFailed` | what the reader makes of the outcome |
| `Play`, `FillerFailed`, `FillerRemoves` | the filler with an entry, and with one it cannot play |
| `Add`, `AddCommit`, `RemoveEntry`, `Rehash`, `RehashSignal`, `IdlistFromPlaylist` | the commands, split where they signal before they commit or commit before they signal |
| `StopReader`, `Restart` | the end of the server; a crash or a start |

`mrt->mutex` is no variable: it is held for the signal and for the wait only,
so the step between the look and the wait is what matters, and a signal in it
is lost. The history variables: `missed` (that has happened), `mixed` (an id
was given to a new entry while a chain was set up for the old one), `stuck` (a
crash left an entry `RESOLVING`).

### `CollSync`

`collsync.c` with `xmms_collection_dag_save` and `_restore` and the order in
which `xmms_collection_destroy` ends things. What the collections are is a
number, that of the last change; `Edit` makes one under `dag->mutex`, or under
`playlist->mutex`, which a save does not take, and `Schedule` is the wake-up it
sends before it lets the mutex go. The thread goes through `Loop`, `Wakeup`,
`Debounce`, `Unlock`, `SaveBegin`, `SaveEnd`; what it writes of a playlist that
changes meanwhile may be `Torn`. `StopSync`, `LastSaveBegin` and `LastSaveEnd`
are the shutdown, `StartServer` a start after it or after a crash, `Restore` the
reading of the database, before which the sync thread already runs.

### `Config`

`config.c`: `tree`, the properties and their values; `file`, the lines its
parser would see and whether they are well formed; `saver`, what each thread is
doing. `Set` and `Register` change the tree and go on to save it, `SaveAtEnd` is
the shutdown's, during which clients are still served; a save is `Open` (the
file is empty now) or `OpenFails`, `Write` (the tree goes into the stream's
buffer) and `Close` (the buffer into the file), with no mutex held, so that
those of two threads overlap. `Start` is a start after a shutdown or a crash at
any of these places. A key is a sequence of up to `MaxNames` names, as
`dump_tree` decides by the names two keys have in common which sections to close
and to open; once it closes a section that is not open, the file is lost.
`Order` has all keys in the order of `strcmp`, in which the tree is written, and
it has all of them because an unfortunate pair of keys is written as if it were
another key: `a.b.c` after `a.b` as `a.c`. `Load` is what the parser makes of a
file: the last value given for a key, and nothing of a file that is not well
formed. Of values is told apart what the file does to them: an empty one, and
one with markup in it, which is not escaped.

The source compares characters where the model compares names. They agree where
no name is another one continued by a character that sorts before the dot, as
`a-b` continues `a`; no key of the server does.

### Mutations

Above some definitions stands a variant, `Name_Change`, under a comment that
begins "Mutation:". It is used by nothing: it is what a plausible mistake in
that piece of code would look like, and substituting it for `Name` must make
the property it belongs to fail (`PROJECT.json`, "mutants"). That keeps the
properties from holding for the wrong reason.

## 3. The runs

| run | configuration | shows |
|---|---|---|
| `ring_buf` | 3 usable slots, 2 byte values, 2 hotspots queued, requests up to 4 | types, hotspots sorted and run before their data, refinement of `MarkedFifo` |
| `output_filler` | buffer of 2, block 1, request 2, 2 songs, 2 clients, 3 commands, skip 1 | no missed wake-up, end of stream only when stopped, at most one stale block, no request slept through, reader served |
| `output_plugin` | 2 clients, 3 commands, one switch or destroy | closed when stopped, a writer that ends has closed the device unless raced in a shutdown, status reached |
| `playlist` | 2 playlists (a list filled to 2 jumps to a queue filled to 3 that jumps to itself; a party shuffle filled to 3 whose jumplist is gone, beside a list filled to 1), 2 ids, history and upcoming 1 | position in range, history kept, mirror exact, current entry kept, its position told, advancing answers, where it and trimming do not end |
| `ipc` | 2 clients (one may hang up, one never reads), 2 requests, 2 emissions, messages of 2 parts | refinement of `IpcDelivery`; a queue is always being written; broadcasts complete; answers in order and behind their broadcasts; no freed client visited |
| `client_cache` | 2 playlists of at most 2 entries, 2 ids, 3 changes | up to date unless overtaken; commands get a fresh cache |
| `collections` | `_active`, 2 playlists, a collection with the name of one; 2 clients, 5 shapes, one of them on that name in `*`, 4 changes, queries 12 deep | references bound to what their labels lead to; no loop of labels passes the validation; the active playlist has a name; what a collection means survives removals, renames and restarts of others |
| `collections_loop` | as above, 2 shapes | violated: a collection made of itself |
| `media_info` | 2 urls, one playable, 2 ids, 2 clients, 4 commands, crashes | entries have their own metadata; the reader sleeps only with nothing to do; nothing forgotten; a reader told to end does |
| `coll_sync` | 2 editors, 4 edits, 2 starts, a crash anywhere | no change unscheduled; a peaceful stop has saved everything; changes written in the end; the shutdown ends |
| `config` | 2 clients and the server, 5 changes, 2 starts, keys a.a, a.a.c, a.b of the clients and b.a of the server among the 39 of up to three of three names, three kinds of values | what was set is there after a restart |
| `config_nested` | as above, ordinary values | violated: a key that continues another |

### The bounds

* Three usable slots give four places: the indices wrap, data lies on both
  sides of the end, two hotspots sit at one place or at two. A request of four
  is larger than the buffer. Bytes and marks are interchangeable (symmetry).
  The proofs below do not have these bounds.
* Filler: `Usable = Block + Chunk - 1` is the smallest buffer in which the two
  threads do not wait for each other (`BufferAssumption`; with the default
  `output.buffersize` of 32768 and blocks of 4096 it holds with room to spare,
  a smaller value set by a user would hang both). In it every wait is reached.
  Three commands are enough for any two to race while the first is still being
  acted upon, and for a restart behind them; two songs, to confuse one with the
  other.
* Plugin: three commands let a play, a pause and a stop cross one teardown.
* Playlist: three entries place an edit before, on and behind the current one;
  history 1 makes the handlers act in nearly every operation. Queue and party
  shuffle take three, so that one of them, inactive, is trimmed late and then
  edited until its list runs out; the plain list beside it needs fewer.
* IPC: with two requests a client registers twice, or registers and commands,
  or two clients do one each; two emissions overlap a registration, an accept,
  a hangup and each other's messages in the queue. The client that never reads
  keeps its queue; the refinement is about the other.
* Cache: three changes put one before the client has registered, one beside an
  answer and one behind a reload. Both kinds of playlist event cross the first
  four answers.
* Collections: two labels beside `_active` and its playlist make references
  cross namespaces and form chains, and having one name they are both what a
  reference in `*` may lead to; four changes build a loop of three and
  rename, remove or restart in it; two clients, so that a change falls between
  a check and its save. `View` makes one state of those that differ in addresses
  only: it names the operators in the order in which the table reaches them. No
  query in a graph of that size is deeper than 12, unless it is circular.
* Media info: two ids, so that one is freed and given again while a chain is
  set up for it and another entry waits; four commands cross one round of the
  reader; a url that no chain can be built for takes the failing paths of both
  threads.
* Collection sync: four edits fall before, into and behind a save and into the
  shutdown; the second start reads what the first has left, crash or not.
* Configuration: of the four keys that are registered, two are in a section, one
  continues another, and one is in a section of its own, which is what
  `dump_tree` decides by; five changes overlap two saves and set each key.
* `MaxOps`, `MaxRequests`, `MaxEmissions`, `MaxChanges`, `MaxCommands`,
  `MaxEdits`, `MaxStarts`, `MaxRuns`, `MaxDepth`, `MaxNames`, `MaxId`,
  `MaxSongs`, `MaxLen`, `MaxSkip`, `MaxMarks` and `MaxEntries` are bounds of the
  models and not of the program. All but `MaxDepth` and `MaxNames` are in the
  guards of actions.

The models stop when all commands are used up, an operation hangs, a server is
`undefined` or `broken`, or a client crashed, so deadlock is checked only in
`RingBuf`, which never stops. That no thread sleeps for ever is stated by
`NoMissedWakeup`, `RequestSeen`, `ReaderServed`, `StatusReached`,
`ImplementsDelivery`, `FreshAgain`, `NothingForgotten`, `StopEnds`,
`EventuallySaved` and `ShutdownEnds` instead.

### Fairness

`OutputFiller` assumes weak fairness of the filler, of the output thread and of
the second half of a command that has begun: the threads are scheduled,
decoding a block and building a chain come to an end, and nobody has to send a
command. `OutputPlugin` assumes strong fairness of each thread, as a mutex that
is released again and again is got in the end; nobody has to begin a teardown.
Neither assumes that a plugin's method succeeds. `IpcClient` assumes weak
fairness of each client's thread and of the emission loop, and strong fairness
of a write to the socket of a client that reads: the main loop takes turns
between its sources, so that the write source comes up again and again.
`ClientCache` assumes weak fairness of the client, of the thread that serves it
and of the rest of a load that has begun.
`MediaInfo` assumes weak fairness of the reader, of the filler and of the rest
of a command that has begun; that the filler plays something, that anybody
stops the server or that it crashes is not assumed. `CollSync` assumes weak
fairness of the thread when it does not sleep on its condition variable (the
ten seconds of the debounce do end), of the start and the shutdown once begun,
and of the wake-up behind an edit. `Collections` and `Config` state safety only.

### What they found

Two runs contradict what the source says of itself:

* `collections_loop`: the validation looks for the name under which a
  collection is saved, and the active playlist has a second, `_active`.
  `Collections/a` is saved as a reference to the active playlist,
  `Playlists/p`, and then `_active` as a party shuffle of `a`. Nothing in `a`
  names `_active`, so the validation passes (`collection.c:436`); the save
  updates all names of the operator (`460`), so that `p` is a party shuffle of
  `a` as well, which is a reference to `p`. The names form a loop now, the
  operands when references are bound at the next start, and the next search
  along them does not end. The comments there say "self-reference is of course
  forbidden" (`1112`) and "check if the referenced coll references this one
  (loop!)" (`1119`).
* `config_nested`: when one key is the beginning of the next (`a.b`, `a.b.c`)
  the file gets an end tag too many and is dropped as a whole at the next start
  (`config.c:823`).

The rest is in the models as the code has it, and the properties name it as
their exception:

* A jump or a seek can clear the `song_changed` hotspot out of the buffer
  (`output.c:428`, `478`): the song is then played under the id of the last
  one, for a block or, after a seek, to its end.
* When the filler has no entry, no chain or nothing to follow it tells itself to
  stop, without another look at what it was told meanwhile (`output.c:444`,
  `463`, `512`): a start or a jump is lost, and so is the quit of the shutdown,
  which then waits for the filler for ever.
* A client's start during a shutdown makes the writer leave with the device
  open and fail its `g_assert (!output)` (`outputplugin.c:480`). In a switch
  `status_mutex` of the output prevents it (`AbortsOnlyWhenRaced`).
* A teardown may not end, for three reasons. The writer's last wake-up is sent
  without the writer's mutex (`outputplugin.c:195`). The teardown waits for the
  status STOP, and a client's start may replace its stop. And it holds
  `status_mutex` of the driver while it takes `write_mutex` (`372`), which the
  writer takes the other way round when it publishes a status (`408`, `425`,
  `449`), contrary to the locking order in `output.c:99`: a deadlock.
* The current_pos broadcast is missing after clear and wrong after sort, and
  after a move in a queue (`playlist.c:1114`, `1502`, `774`). An insert into a
  playlist without current entry makes entry 0 the current one
  (`playlist.c:919`), and `set_next` on an empty playlist with a jumplist leaves
  position 0 on it (`playlist.c:1150`), from where the position can stand one
  behind the end.
* A queue that is not active keeps one entry of history too many after an
  insertion in front of its current entry (`playlist.c:178`). Its next edit
  trims it in its middle and goes on with the position from before (`610`,
  `627`): another entry becomes the current one, or the position stands behind
  the end. If removals empty the list, the trim has nothing left to remove and
  does not end, with the mutex held (`218`).
* With `repeat_one`, `advance` answers TRUE for any playlist with entries
  (`playlist.c:343`), also when the position is behind the last of them, where
  nothing is played.
* The cache of `nycli` can stay different from the server's playlist while it
  calls itself fresh: an answer from before an edit is applied behind the
  edit's broadcast (`cli_cache.c:297`, `ipc.c:246`). Overtaking is the only
  cause (`UpToDateUnlessOvertaken`). A broadcast that arrives before the
  playlist's name crashes it (`cli_cache.c:166`).
* A client thread that ends while its server is shut down uses the freed server
  (`ipc.c:407`).
* The media info reader tests `running` and looks for an entry, both without
  its mutex, and then waits without another test: a wake-up in between is lost,
  an entry waits for the next one, and the join of a shutdown does not return
  (`mediainfo.c:166`).
* A crash leaves an entry `RESOLVING`, which nobody picks up again. A new entry
  gets the id of the last one that was removed (`medialib.c:976`), so that a
  chain set up for the old one writes its metadata to the new (`xform.c:1297`).
  An entry rehashed while it is `RESOLVING` becomes `OK` without having been
  read again.
* The collection sync thread is started before the collections are restored
  (`collection.c:224`); a wait that ends spuriously, as `g_cond_wait` may, then
  writes the empty graph over the database. A client that
  changes something every few seconds puts the save off without limit
  (`collsync.c:55`). What is changed during or after the last save is lost.
* A collection saved as an operator on its own name in the namespace `*` passes
  the check against references to itself, and no search for loops finds it, as
  both compare the namespace literally (`collection.c:1113`, `1648`). It is made
  of itself, and the next search along it does not end (`StarLoop`).
* References to `_active` are not bound anew when another playlist is loaded;
  one to a label that is a reference itself dangles when that is removed
  (`collection.c:1268`, a FIXME there), and what was saved on it may then be
  part of a loop that no validation has seen; a load that crosses a removal
  stores a freed operator, or one with references that were not bound meanwhile;
  renaming `_active` leaves the server without one.
* A configuration file that cannot be opened, two saves that overlap and a
  crash between `fopen` and `fclose` lose all of it (`config.c:894`). A value
  with markup in it makes the file unreadable, an empty one becomes the default,
  and a key without a dot makes the dump read in front of a string.

## 4. The proofs

Eight modules prove theorems for every value of the constants, from the named
assumptions in the modules they are about. Each follows one pattern: an
inductive invariant, a lemma that the initial states have it, one lemma for each
action that disturbs it (or for a group that does so in one way), and the
theorems as its consequences. The inductive invariants hold in the instances of
the runs, as TLC finds; only that of `ClientCacheProofs`, which begins with
"there is a history", it cannot evaluate.

| theorem | states |
|---|---|
| `OutputProofs`: `TypeCorrect`, `HotspotOrder`, `HotspotsRunFirst` | `TypeOK`, `HotspotsInOrder`, `HotspotBeforeItsData` |
| `OutputProofs`: `RefinesMarkedFifo` | `ImplementsFifo` |
| `OutputFillerProofs`: `NobodyMissesAWakeup`, `EndOfStreamIsStopped`, `WaitsOnlyBeforeDecoding` | `NoMissedWakeup`, `EndedOnlyWhenStopped`, `WriteNeverSleeps` |
| `OutputFillerProofs`: `StaleBlockIsTheOnlyOne` | `OneStaleBlock` |
| `OutputProofs`: `StoppedWriterClosed`, `OnlyARaceAborts` | `StoppedMeansClosed`, `AbortsOnlyWhenRaced` |
| `PlaylistProofs`: `MirrorsMatch`, `PositionsInRange`, `HistoriesKept`, `OnlyEmptyCirclesHang` | `MirrorMatches`, `PositionInRange`, `HistoryKept`, `HangsOnlyWhenEmpty` |
| `PlaylistProofs`: `CurrentStaysCurrent`, `PositionsAreTold`, `AnswersAreRight` | `CurrentKept`, `PositionTold`, `AdvanceAnswers` |
| `IpcClientProofs`: `QueuesAreWritten`, `VisitsAreSafe`, `AnswersAreInOrder`, `BroadcastsAreComplete` | `WriteInProgress`, `VisitsOnlyLiveClients`, `AnswersInOrder`, `BroadcastsComplete` |
| `IpcClientProofs`: `DeliversSafely` | the safety half of `ImplementsDelivery` |
| `ClientCacheProofs`: `OnlyOvertakingMakesStale` | `UpToDateUnlessOvertaken` |
| `MediaInfoProofs`: `SignalBeforeCommit`, `EntriesKeepTheirOwn` | `ReaderAwake`, `InfoIsOwn` |
| `CollectionsProofs`: `TypesOK`, `ReferencesStayBound`, `LoopsAreKeptOut`, `ActivePlaylistHasName` | `TypeOK`, `ReferencesBound`, `LoopsKeptOut`, `ActiveHasName` |
| `StorageProofs`: `ChangesScheduled`, `NothingLostAtTheEnd` | `SyncNotLost`, `StoppedSaved` of `CollSync` |
| `StorageProofs`: `SavedConfigSurvives` | `CrashLosesNothing` of `Config` |

`OutputProofs` is about `RingBuf` and `OutputPlugin`, `StorageProofs` about
`CollSync` and `Config`; the definitions of `OutputPlugin` and of `CollSync`
that all modules have (`Init`, `Next`, `TypeOK`, ...) carry a prefix, so that
the two can be extended together.

**Ring buffer.** From `Usable` and `MaxLen` positive and `MaxMarks` natural.
The invariant is `TypeOK /\ HotspotsInOrder`. `TypeOK` is not
enough for the third theorem: that a read which stops at the first hotspot
crosses none needs that no later hotspot is nearer. And the order is kept by a
write only because no hotspot lies beyond the data, and by `HotspotSet` because
the write index is as far from the reader as the data reaches.
The arithmetic of the indices is isolated in four lemmas about `Advance` and
`Distance` (`AdvanceValue`, `DistanceValue`, `DistanceAdvance`,
`DistanceExtend`), which express `%` by two cases; the steps above them use
only these.

The refinement has one lemma per function: it is an operation of the queue, on
the array from the read to the write index and on the distances of the
hotspots. `AbstractState` says once what these are for a well-typed state, so
that no step looks into the mapping itself.

**Filler.** From `BufferAssumption`, without which the two threads can wait for
each other, and the bounds. `IInv` adds to `NoMissedWakeup` the types;
`EndedStopped` (a stream that is marked ended has a filler without a chain, at
a place from which it gets none before it is told to run, or was marked by a
stop that the filler has not seen); and `HasRoom` (a filler that decodes has
room for the block, and so never waits to write it), the last two unless a RUN
or a SEEK has overtaken a stop. What the ring holds is the sum of its data
units, so the lemmas on `Used` come first: how appending, reading off and
clearing change it, the only facts about the ring that the steps need.

That at most one block is stale (`OneStaleBlock`) needs a second invariant,
`Tune`. A request that cleared the buffer is still in `filler_state` until the
filler looks; the block it has in hand meanwhile goes into a buffer without
data, and it looks before it decodes the next; and a filler that has looked has
a chain only for the song announced last. "Announced last" is the last song
mark in the ring, which exists as a least counterexample.

**Plugin driver.** `IInv` is `TypeOK /\ Order`, and `Order` says what each
place in the writer's program implies: the mutex it holds, that it does as it
was told until it has published it, that the device is open under the status
STOP for one moment only, on the way to PLAY, and that a writer that has exited
has closed it.

That only a race makes the writer end with the device open needs a second
invariant, `Race`. From the teardown's stop on the writer does nothing but what
it was told (`StopHolds`, `EndsAsTold`), and whoever is about to tell it to play
holds `output->status_mutex` (`TellsLocked`); in a switch the main thread holds
that mutex all the while (`SwitchLocked`), so nobody does, and in a shutdown one
who does is recorded (`RacedInDestroy`).

**Playlists.** An operation is a function from store to store that applies the
handlers of a signal in its middle, so most lemmas are about stores and not
about steps: what trimming and refilling do, one update, an edit with its
broadcast, a new position with its broadcast, and then the operations.

* `Plain` has the types and that the mirror is the list.
* `Ordered` has the ranges of the positions and the bound on the history
  (`Sound`), and that an operation has not returned only if there is a circle
  of empty playlists or the trimming of a `late` playlist has run out of entries
  (`Jam`). A playlist that is `late` has a position within the history or, as
  long as it has entries, one behind it (`Owes`); of the others the ranges hold
  (`Rests`). In the middle of an operation this is false of the playlist it
  works on, and true of the others (`GoodBut`). What has to be shown is that
  the update in between does not move the position the operation has read and
  is about to write (`Grown`), and, where it is late and the update does move
  it, that what is written owes no more than one entry.
* That only a circle of empty playlists keeps advancing from an end is a
  pigeonhole argument: a call that calls again has jumped, and leaves a playlist
  with entries without a current one, at which the calls end when they come to
  it again. More calls than playlists come to one of them twice, and if they go
  on, what lies between is empty.
* `CurrentKept` follows from what an edit does to the current entry (`NowAt`,
  for `With`, `Without`, `Moved` and `Reordered`) and from the update keeping it
  (`Keeps`); `PositionTold` from the last position broadcast being the one
  that is left (`Heard`), through each step of an operation; `AdvanceAnswers`
  from what each call of `advance_do` has left as it was when it answers, so
  that "false" is said only at an end there was before the operation.

The theorems have no hypothesis on which playlists are edited. A playlist that
is `late` is the exception each of them names: `PositionInRange`, `CurrentKept`
and `PositionTold` say nothing of it, `HistoryKept` allows it one entry more,
and `HangsOnlyWhenEmpty` that its trimming does not end if its list is empty.

**IPC.** `IInv` has the types, the lists of the server (`Lists`: who is in
them, who is visited, whose thread is at its end), and four parts for each
client. `Writing`: a queue that is not empty has a source besides the one that
is just being removed, and what the socket holds in part is the head of the
queue. `Cookies`: each one-shot answer has a cookie that is used once. `Values`:
no broadcast of a change is behind the answer that tells of it, also while the
thread still has that answer in hand. `Told`: the emission loop has not brought
the current broadcast to whom it has still to visit, and all earlier ones are
in the queue, or received. The refinement then needs nothing but `IInv`: a
step changes `pending` of one client only, at one end. The theorem is about
`Delivery!Safety`.

**Cache.** The property speaks of moments when nothing is under way, so the
invariant must say what is true of everything under way. It does so by
histories: there is an `H`, the server's lists at each version, and an `r`, the
version at which the client was registered, such that each message tells how
`H` went on at its version, or what it held then (`Truth`); the inbox is in the
order of the versions as far as the exception allows (`InOrder`); each version
since `r` that the client has not dealt with is told by a notice to come
(`Following`); and the client's list is that of the newest version it has
dealt with unless it is going to be replaced (`ListCached`), its name that of
the active playlist unless a load is to come (`NameCached`). `H` is bound by a
quantifier and extended by each step of the server: the model needs no further
variable.

**Media info.** `IInv` has `Held` (a thread has an entry from the time it has
chosen one until it is done), `Adding` (whoever has signalled and not yet
committed keeps everybody else out of the database, so that the reader that was
woken cannot look and sleep before the commit), `Awake` (the
reader sleeps only if nothing is to be resolved, or a wake-up was
missed, or the thread that brought work has still to signal) and `Own` (the
entry that is `RESOLVING` is the reader's, and what a thread is about to write
for an entry is that entry's own unless it is `mixed`).

**Collection sync.** To the two properties come: a save not touched since it
began has read the collections as they are; a change since then has
been, or is about to be, asked for; the thread knows that the server stops if
it does; it has ended only if it was told to; and the last save begins when it
has been joined.

**Collections.** From the assumptions on `Label` and `Shape`; the bound on the
commands is any. `IInv` has five parts:

* the types, `TypeIs`;
* `InTune`: a reference that is reached, and whose label is not `loose`, has as
  its operand what the table has for the label. This is `ReferencesBound`; a
  reference in `*` is nobody's, and nothing is said of it;
* `Free`: unless `tangled`, that is true of all labels, and walks along operands
  end wherever they begin if they do not follow a reference in `*` (`Led`;
  `Acyclic`: every part of the graph has an operator that nothing of the part
  follows), so that a search which does not end has met one (`EndlessByStar`).
  `LoopsKeptOut` speaks of loops of labels instead, and does not imply this;
  with `InTune` it follows (`NoLoopWhenInTune`), as labels and operands then
  agree;
* `Settled`: what a client has validated and nobody has overtaken is still
  valid, so that the save may rely on it;
* `Named`: unless `strayed`, the active playlist exists and has a name.

What is reached is `Closure`, which is computed in as many layers as the graph
has members. Two lemmas show that this is the least closed set (a layer that
adds nothing is the last, and there are not more layers than members), and
nothing else is used of it. What an operation makes of the graph is said once,
by a predicate that names which operators it changes and how (`IsSaved`,
`IsStripped`, `IsRenamed`, `IsRestored`), and one lemma for each says that
references are in tune after it and one that walks end. The second argues by a
part of the new graph in which everything is followed by something: with what
the operation has changed taken out it would be such a part of the old graph,
so the change is in it, and for a save this gives the way from a target to the
name that the validation has excluded. `Commit` is dealt with once, in
`CommitIs`: it keeps what is in use, and all of this is about what is in use.

**Configuration.** From the assumptions on names, keys, their order and the
values. `ConfigInv` says that the file, or the buffer of the one who has the
file open, is good for the tree as it is (`LastSave`), unless a save wrote over
another or failed (`astray`) or somebody is still to write (`Pending`). For
this it needs that a new key is in no other hands and not yet in the tree
(`NewKeys`: it joins the tree when the save is over, with the value a start
gives it), and that one thread at most has the file open (`OneOpen`).

That a tree that is written is read again (`DumpGood`) is a statement on texts.
After each key the sections that are open are those the key lies in, and the
lines are those of the keys up to it, one each (`InSections`, `LinesRight`), if
no key continues another. What is closed and opened between two keys is by the
names they have in common (`SectionsOpened`). A file with one line for each key
gives each its value back (`WholeRecovers`). Without the hypothesis the lines
may be of other keys, or the file lost, and what is left is that it is a file
(`DumpWritten`), which the types need.

**Recursive functions.** `Closure` and `Dump` are defined by recursive functions
on numbers. That there is such a function is itself to be proved, by the least
number up to which there is none (`WithinExists`, `DumpExists`).

**Induction.** The library's induction theorems take an operator as a
parameter, which the installed provers cannot instantiate. Where a proof needs
induction on a number (the units in a ring, the calls of `advance_do`, the last
song mark) it takes the least counterexample, which `WFMin` and
`NatLessThanWellFounded` give as facts about sets (lemma `Least`).

**Only model-checked:**

* liveness under fairness, which depends on ENABLED: `RequestSeen`,
  `ReaderServed`, `StatusReached`, `FreshAgain`, `NothingForgotten`, `StopEnds`,
  `EventuallySaved`, `ShutdownEnds`, and the fairness half of
  `ImplementsDelivery`;
* `EditsKeepMeaning` of `Collections`. What a query makes of an operator,
  `Meaning`, is cut off at `MaxDepth`, and a removal that puts a target in place
  of a reference makes the query less deep: the property is about depths that
  suffice, and holds for a graph of any size only if the bound grows with it.
  What replaces it, an equality of unbounded unfoldings, is induction over data.

All other invariants and action properties of the runs are theorems.

## 5. Not modelled

The reasons stand with each component in `PROJECT.json`. In short: the map
covers a small share of the repository, most of which is generated bindings
(Python, Perl, Ruby), decoders and sound cards around libraries of their own,
the command line, and tables for the serialization of messages. They are I/O or
transformations without state that two actors share. In the parts that are
modelled, these are missing:

* output: the arithmetic of playtime and latency, the volume monitor, and that
  `status_set` is sometimes called with `filler_mutex` held;
* objects: connecting and disconnecting a handler while its signal is emitted.
  The server's own objects do it only at its start and end, but the equalizer,
  karaoke, ladspa and normalize effects disconnect from configuration properties
  whenever a chain is freed, while clients may be setting these
  (`object.c:218`);
* media library: the SQL text, the order of preference of sources, queries;
* xforms: which plugins make a chain, the read-ahead buffer with its hotspots,
  and the arithmetic of segments;
* visualization: a table of clients behind one lock;
* values: reference counts, iterators, serialization.

## 6. Plan

Done, in this order:

1. `RingBuf` refining `MarkedFifo`, with `OutputProofs`, the refinement
   included.
2. `OutputFiller`: requests, filler, reader, with `OutputFillerProofs`.
3. `OutputPlugin`: the writer and its teardown, also in `OutputProofs`.
4. `Playlist`: edits, handlers, advance, with `PlaylistProofs`.
5. `IpcClient` refining `IpcDelivery`, and `ClientCache` on top of it, with
   `IpcClientProofs` and `ClientCacheProofs`.
6. `Config`: set, register, save and load with a crash between any two steps,
   with `StorageProofs`.
7. `Collections`: references, save with validation, remove, rename, restart,
   with `CollectionsProofs`.
8. `MediaInfo` on `Medialib`, and `CollSync`, the two background threads, with
   `MediaInfoProofs` and, for `CollSync`, `StorageProofs`.

To come: the xform's read-ahead buffer and the segment plugin's arithmetic; the
client library's restarted signals and the life of a result; visualization
clients; the composition of `OutputFiller` with `Playlist`, in which songs that
cannot be played are skipped.

Theorems to come: an abstract collection, a finite tree in which a reference is
what it stands for, of which `Collections` would be a refinement and
`EditsKeepMeaning` a consequence. In `PlaylistProofs` the lemmas `...Leads` and
`...Stays` follow the same operations twice and could become one series.
