------------------------------ MODULE CollSync ------------------------------
(***************************************************************************)
(* The thread of src/xmms/collsync.c, which writes the collections to the  *)
(* database when nobody has changed them for ten seconds; the threads that *)
(* change them; and the start and the end of the server around them.       *)
(*                                                                         *)
(* The collections are a number, that of the last change.  Named           *)
(* collections are changed under dag->mutex, under which they are also     *)
(* written; the entries of a playlist under playlist->mutex, and what is   *)
(* read of them meanwhile may be Torn.                                     *)
(***************************************************************************)
EXTENDS Integers

CONSTANTS
  Editor,
  MaxEdits,  \* bound: how often the collections are changed
  MaxRuns  \* bound: how often the server is started

ASSUME EditsAssumption == MaxEdits \in Nat
ASSUME RunsAssumption == MaxRuns \in Nat

NoCollections == 0
Torn == -1

Version == {Torn} \cup 0..MaxEdits

VARIABLES
  dag,           \* the collections in memory
  saved,         \* the collections in the database
  snapshot,      \* the collections as the writing in progress began
  touched,       \* they were changed since then
  editor,        \* which mutex each editor holds, from its change to the end
  want_sync, keep_running,
  sync,          \* where the thread is
  main,          \* how far the server is started or stopped
  edits, runs

sync_vars ==
  <<dag, saved, snapshot, touched, editor, want_sync, keep_running, sync, main,
    edits, runs>>

Mutexes == {"dag", "playlist"}

SyncStates ==
  {"loop", "asleep", "woken", "debounce", "unlocked", "saving", "ended"}

MainStates == {"starting", "running", "stopping", "writing", "stopped"}

SyncInit ==
  /\ dag = NoCollections /\ saved = NoCollections /\ snapshot = NoCollections
  /\ touched = FALSE
  /\ editor = [e \in Editor |-> "none"]
  /\ want_sync = FALSE /\ keep_running = TRUE
  /\ sync = "loop"
  /\ main = "starting"
  /\ edits = 0 /\ runs = 0

\* Mutation: the thread keeps its mutex while it writes.
Holding_AlsoSaving == sync \in {"loop", "woken", "unlocked", "saving"}

\* The thread has its own mutex.
Holding == sync \in {"loop", "woken"}

\* dag->mutex and playlist->mutex
Locked(m) ==
  \/ \E e \in Editor : editor[e] = m
  \/ m = "dag" /\ sync = "saving"

\* g_cond_signal
Woken == IF sync \in {"asleep", "debounce"} THEN "woken" ELSE sync

-----------------------------------------------------------------------------
(***************************************************************************)
(* The threads that change collections and playlists.                      *)
(***************************************************************************)

\* Under the mutex, before the signal that coll_sync_cb is connected to.
\* Clients are served until the collections are freed.
Edit(e, m) ==
  /\ main \in {"running", "stopping", "writing"}
  /\ edits < MaxEdits
  /\ editor[e] = "none" /\ ~Locked(m)
  /\ edits' = edits + 1
  /\ dag' = edits'
  /\ touched' = TRUE
  /\ editor' = [editor EXCEPT ![e] = m]
  /\ UNCHANGED <<saved, snapshot, want_sync, keep_running, sync, main, runs>>

\* xmms_coll_sync_schedule_sync; then the mutex of the edit is released.
Schedule(e) ==
  /\ editor[e] # "none"
  /\ ~Holding
  /\ want_sync' = TRUE
  /\ sync' = Woken
  /\ editor' = [editor EXCEPT ![e] = "none"]
  /\ UNCHANGED <<dag, saved, snapshot, touched, keep_running, main, edits,
                 runs>>

-----------------------------------------------------------------------------
(***************************************************************************)
(* do_loop.                                                                *)
(***************************************************************************)

SyncGoes(pc) ==
  /\ sync' = pc
  /\ UNCHANGED <<dag, saved, snapshot, touched, editor, keep_running, main,
                 edits, runs>>

\* while (keep_running) and if (!want_sync)
Loop ==
  /\ sync = "loop"
  /\ SyncGoes(IF ~keep_running THEN "ended"
          ELSE IF want_sync THEN "woken" ELSE "asleep")
  /\ UNCHANGED want_sync

\* The time of g_cond_timed_wait is over, or g_cond_wait returns without a
\* signal, as it may.
Wakeup ==
  /\ sync \in {"debounce", "asleep"}
  /\ SyncGoes("woken")
  /\ UNCHANGED want_sync

\* while (keep_running && want_sync)
Debounce ==
  /\ sync = "woken"
  /\ keep_running /\ want_sync
  /\ want_sync' = FALSE
  /\ SyncGoes("debounce")

Unlock ==
  /\ sync = "woken"
  /\ ~(keep_running /\ want_sync)
  /\ SyncGoes(IF keep_running THEN "unlocked" ELSE "loop")
  /\ UNCHANGED want_sync

\* xmms_collection_sync: the lock, and the transaction of dag_save.
SaveBegin ==
  /\ sync = "unlocked"
  /\ ~Locked("dag")
  /\ sync' = "saving"
  /\ snapshot' = dag /\ touched' = FALSE
  /\ UNCHANGED <<dag, saved, editor, want_sync, keep_running, main, edits,
                 runs>>

\* What dag_save has written when it commits.
Committed ==
  IF touched THEN {snapshot, dag, Torn} ELSE {snapshot}

\* Mutation: a request is settled when the save is over.
SaveEnd_Clears ==
  /\ sync = "saving"
  /\ saved' \in Committed
  /\ sync' = "loop"
  /\ want_sync' = FALSE
  /\ UNCHANGED <<dag, snapshot, touched, editor, keep_running, main, edits,
                 runs>>

SaveEnd ==
  /\ sync = "saving"
  /\ saved' \in Committed
  /\ sync' = "loop"
  /\ UNCHANGED <<dag, snapshot, touched, editor, want_sync, keep_running, main,
                 edits, runs>>

-----------------------------------------------------------------------------
(***************************************************************************)
(* The server.                                                             *)
(***************************************************************************)

\* xmms_collection_init starts the thread before it reads the database, so
\* that a wake-up without a signal can save what is not read yet.
Restore ==
  /\ main = "starting"
  /\ sync # "saving"
  /\ dag' = saved
  /\ main' = "running"
  /\ UNCHANGED <<saved, snapshot, touched, editor, want_sync, keep_running, sync,
                 edits, runs>>

\* Mutation: a thread that sleeps is left asleep.
StopSync_Quiet ==
  /\ main = "running"
  /\ ~Holding
  /\ keep_running' = FALSE
  /\ main' = "stopping"
  /\ UNCHANGED <<dag, saved, snapshot, touched, editor, want_sync, sync, edits,
                 runs>>

\* xmms_coll_sync_shutdown, up to the join
StopSync ==
  /\ main = "running"
  /\ ~Holding
  /\ keep_running' = FALSE
  /\ sync' = Woken
  /\ main' = "stopping"
  /\ UNCHANGED <<dag, saved, snapshot, touched, editor, want_sync, edits, runs>>

\* Mutation: the server stops without the last save.
LastSaveBegin_None ==
  /\ main = "stopping"
  /\ sync = "ended"
  /\ main' = "stopped"
  /\ touched' = FALSE
  /\ UNCHANGED <<dag, saved, snapshot, editor, want_sync, keep_running, sync,
                 edits, runs>>

\* After g_thread_join, the last dag_save, without dag->mutex.
LastSaveBegin ==
  /\ main = "stopping"
  /\ sync = "ended"
  /\ main' = "writing"
  /\ snapshot' = dag /\ touched' = FALSE
  /\ UNCHANGED <<dag, saved, editor, want_sync, keep_running, sync, edits,
                 runs>>

\* Its commit, after which the collections are freed.
LastSaveEnd ==
  /\ main = "writing"
  /\ saved' \in Committed
  /\ main' = "stopped"
  /\ UNCHANGED <<dag, snapshot, touched, editor, want_sync, keep_running, sync,
                 edits, runs>>

\* A server is started after the last one has stopped or crashed; what that
\* one had not committed is gone.
StartServer ==
  /\ runs < MaxRuns
  /\ runs' = runs + 1
  /\ dag' = NoCollections
  /\ touched' = FALSE
  /\ editor' = [e \in Editor |-> "none"]
  /\ want_sync' = FALSE /\ keep_running' = TRUE
  /\ sync' = "loop"
  /\ main' = "starting"
  /\ UNCHANGED <<saved, snapshot, edits>>

SyncStep ==
  Loop \/ Wakeup \/ Debounce \/ Unlock \/ SaveBegin \/ SaveEnd

MainStep == Restore \/ LastSaveBegin \/ LastSaveEnd

SyncNext ==
  \/ SyncStep \/ MainStep \/ StopSync \/ StartServer
  \/ \E e \in Editor : Schedule(e) \/ \E m \in Mutexes : Edit(e, m)

\* Threads that can run do, and a wait with a time ends.
Fairness ==
  /\ WF_sync_vars(SyncStep /\ sync # "asleep") /\ WF_sync_vars(MainStep)
  /\ \A e \in Editor : WF_sync_vars(Schedule(e))

SyncSpec == SyncInit /\ [][SyncNext]_sync_vars /\ Fairness

-----------------------------------------------------------------------------
(***************************************************************************)
(* Properties.                                                             *)
(***************************************************************************)

SyncTypeOK ==
  /\ dag \in Version /\ saved \in Version /\ snapshot \in Version
  /\ touched \in BOOLEAN
  /\ editor \in [Editor -> Mutexes \cup {"none"}]
  /\ want_sync \in BOOLEAN /\ keep_running \in BOOLEAN
  /\ sync \in SyncStates /\ main \in MainStates
  /\ edits \in 0..MaxEdits /\ runs \in 0..MaxRuns

\* The thread will come to the changes not written yet.
Scheduled ==
  \/ want_sync
  \/ \E e \in Editor : editor[e] # "none"
  \/ sync \in {"debounce", "woken", "unlocked"}
  \/ sync = "saving" /\ ~touched

\* While the server runs, no change is forgotten: if the database has not the
\* collections as they are, a save is wanted, or in progress with all of them
\* before it, or the thread that changed them has still to ask for one.
SyncNotLost ==
  SyncTypeOK /\ (main = "running" /\ saved # dag => Scheduled)

\* A server that has stopped leaves the collections as they were, unless they
\* were changed while they were written for the last time.
StoppedSaved ==
  main = "stopped" /\ ~touched => saved = dag

\* Changes are written in the end, once they stop coming.
EventuallySaved ==
  main = "running" /\ saved # dag ~> saved = dag \/ main # "running"

\* The thread ends when it is told to, whatever it and the editors wait for.
ShutdownEnds == main = "stopping" ~> main # "stopping"
=============================================================================
