---------------------------- MODULE OutputPlugin ----------------------------
(***************************************************************************)
(* The consumer half of the output: src/xmms/outputplugin.c, which drives  *)
(* a sound card that has to be written to from a thread of its own, and    *)
(* the parts of src/xmms/output.c that command it (status_set) and tear it *)
(* down (plugin_switch, destroy).                                          *)
(*                                                                         *)
(* Four mutexes are taken in nested order here, so they are variables, and *)
(* a thread that blocks keeps what it holds:                               *)
(*   "output"  output->status_mutex     "write"  plugin->write_mutex       *)
(*   "status"  plugin->status_mutex     "api"    plugin->api_mutex         *)
(* xmms_output_read (OutputFiller) is one phase, "reading", that returns   *)
(* data or finds the end of the stream.                                    *)
(***************************************************************************)
EXTENDS Naturals

CONSTANTS Client,      \* the IPC client threads
          MaxOps       \* bound: commands of all clients together

ASSUME MaxOpsAssumption == MaxOps \in Nat

Writer == "writer"
Main == "main"        \* the thread that switches the plugin or shuts down

Thread == Client \cup {Writer, Main}

ASSUME ThreadAssumption == Client \cap {Writer, Main, "nobody"} = {}

Mutex == {"output", "write", "status", "api"}

VARIABLES
  holder,          \* who holds each mutex
  pc,              \* where each thread is
  arg,             \* the status a thread passes to status_set
  output_status,   \* output->status
  wanted_status,   \* what the writer is told
  status,          \* what it has reached
  write_running,
  open,            \* the writer's local "output": the device is open
  plugin,          \* output->plugin is set
  teardown,        \* what Main is doing: "none", "switch", "destroy"
  ops,
  raced            \* history: a client told the writer to play behind the
                   \* teardown's stop

output_vars ==
  <<holder, pc, arg, output_status, wanted_status, status, write_running,
    open, plugin, teardown, ops, raced>>

OutputInit ==
  /\ holder = [m \in Mutex |-> "nobody"]
  /\ pc = [t \in Thread |-> IF t = Writer THEN "lock" ELSE "idle"]
  /\ arg = [t \in Thread |-> "STOP"]
  /\ output_status = "STOP" /\ wanted_status = "STOP" /\ status = "STOP"
  /\ write_running = TRUE /\ open = FALSE /\ plugin = TRUE
  /\ teardown = "none"
  /\ ops = 0 /\ raced = FALSE

-----------------------------------------------------------------------------

IsFree(m) == holder[m] = "nobody"

Goto(t, l) == pc' = [pc EXCEPT ![t] = l]

Take(t, m) == IsFree(m) /\ holder' = [holder EXCEPT ![m] = t]

Drop(m) == holder' = [holder EXCEPT ![m] = "nobody"]

pluginVars == <<wanted_status, status, write_running, open>>

-----------------------------------------------------------------------------
(***************************************************************************)
(* xmms_output_status_set, by any thread: under output->status_mutex set   *)
(* output->status, then tell the writer under its write_mutex.  Without a  *)
(* plugin the call does nothing; if a switch took the plugin away since    *)
(* the caller looked, the plugin's answer is a failure.                    *)
(***************************************************************************)

SetStatusDone(t) ==
  IF t = Writer THEN "lock"
  ELSE IF t = Main /\ teardown = "switch" THEN "switch_lock" ELSE "idle"

SetStatusLock(t) ==
  /\ pc[t] = "set_status"
  /\ IsFree("output")
  /\ IF \/ output_status = arg[t]
        \/ arg[t] = "PAUSE" /\ output_status # "PLAY"
     THEN Goto(t, SetStatusDone(t)) /\ UNCHANGED <<holder, output_status>>
     ELSE IF plugin
     THEN /\ output_status' = arg[t]
          /\ Take(t, "output")
          /\ Goto(t, "writer_status")
     ELSE /\ output_status' = "STOP"
          /\ Goto(t, SetStatusDone(t))
          /\ UNCHANGED holder
  /\ UNCHANGED <<arg, pluginVars, plugin, teardown, ops, raced>>

\* Mutation: nobody signals write_cond.
WriteSignalled_Never(p) == p

\* The writer asleep on write_cond goes for its mutex again.
WriteSignalled(p) == IF p[Writer] = "write_wait" THEN [p EXCEPT ![Writer] = "lock"]
                     ELSE p

\* Where the teardown has told the writer to stop, or found it told.
StopTold == {"status_test", "status_wait", "status_woken", "stop_thread",
             "signal_thread", "join"}

WriterStatus(t) ==
  /\ pc[t] = "writer_status"
  /\ IsFree("write")
  /\ wanted_status' = arg[t]
  /\ raced' = (raced \/ (arg[t] = "PLAY" /\ pc[Main] \in StopTold))
  /\ pc' = WriteSignalled([pc EXCEPT ![t] = SetStatusDone(t)])
  /\ Drop("output")
  /\ UNCHANGED <<arg, output_status, status, write_running, open, plugin, teardown,
                 ops>>

-----------------------------------------------------------------------------
(***************************************************************************)
(* Clients: start, stop and pause call status_set.                         *)
(***************************************************************************)

Command(c, s) ==
  /\ pc[c] = "idle" /\ plugin /\ ops < MaxOps
  /\ ops' = ops + 1
  /\ arg' = [arg EXCEPT ![c] = s]
  /\ Goto(c, "set_status")
  /\ UNCHANGED <<holder, output_status, pluginVars, plugin, teardown, raced>>

-----------------------------------------------------------------------------
(***************************************************************************)
(* The writer thread.  It holds write_mutex except while it reads, writes  *)
(* or sleeps.                                                              *)
(***************************************************************************)

writerKeeps == <<arg, output_status, plugin, teardown, ops, raced>>

WriterLock ==
  /\ pc[Writer] = "lock"
  /\ Take(Writer, "write")
  /\ Goto(Writer, "loop")
  /\ UNCHANGED <<pluginVars, writerKeeps>>

\* g_assert (!output) aborts the server: nobody is ever joined with it.
WriterExit ==
  /\ pc[Writer] = "loop" /\ ~ write_running
  /\ Goto(Writer, IF open THEN "aborted" ELSE "exited")
  /\ Drop("write")
  /\ UNCHANGED <<pluginVars, writerKeeps>>

\* Mutation: a stop leaves the device open.
MethodFor_NoClose(s) ==
  IF s = "STOP" THEN {"publish"}
  ELSE IF s = "PAUSE" THEN {"flush", "publish"}
  ELSE {IF open THEN "publish" ELSE "open"}

\* What the loop may do for the status it is told: a method to call first, under
\* api_mutex, or the status to publish at once.  A pause flushes the device if
\* output.flush_on_pause says so, be it open or not.
MethodFor(s) ==
  IF s = "STOP" THEN {IF open THEN "close" ELSE "publish"}
  ELSE IF s = "PAUSE" THEN {"flush", "publish"}
  ELSE {IF open THEN "publish" ELSE "open"}

WriterLoop ==
  /\ pc[Writer] = "loop" /\ write_running
  /\ \E next \in MethodFor(wanted_status) :
       /\ Goto(Writer, next)
       /\ IF next = "publish" THEN UNCHANGED holder
          ELSE Take(Writer, "api")
  /\ UNCHANGED <<pluginVars, writerKeeps>>

\* close, flush and open come back; open may fail, and then the writer stops.
WriterMethodEnd ==
  /\ Drop("api")
  /\ \/ /\ pc[Writer] = "close" /\ open' = FALSE
        /\ Goto(Writer, "publish") /\ UNCHANGED wanted_status
     \/ /\ pc[Writer] = "flush"
        /\ Goto(Writer, "publish") /\ UNCHANGED <<open, wanted_status>>
     \/ /\ pc[Writer] = "open" /\ open' = TRUE
        /\ Goto(Writer, "publish") /\ UNCHANGED wanted_status
     \/ /\ pc[Writer] = "open" /\ wanted_status' = "STOP"
        /\ Goto(Writer, "loop") /\ UNCHANGED open
  /\ UNCHANGED <<status, write_running, writerKeeps>>

\* A thread waiting for the status looks again.
StatusSignalled(p) == IF p[Main] = "status_wait" THEN [p EXCEPT ![Main] = "status_woken"]
                      ELSE p

\* Publish the status under plugin->status_mutex, then sleep on write_cond or,
\* when playing, release write_mutex to read.
WriterPublish ==
  /\ pc[Writer] = "publish"
  /\ IsFree("status")
  /\ status' = wanted_status
  /\ pc' = StatusSignalled([pc EXCEPT ![Writer] = "published"])
  /\ UNCHANGED <<holder, wanted_status, write_running, open, writerKeeps>>

WriterPublished ==
  /\ pc[Writer] = "published"
  /\ Drop("write")
  /\ Goto(Writer, IF wanted_status = "PLAY" THEN "reading" ELSE "write_wait")
  /\ UNCHANGED <<pluginVars, writerKeeps>>

\* xmms_output_read returns data to write, or nothing.
WriterReadData ==
  /\ pc[Writer] = "reading"
  /\ \/ Take(Writer, "api") /\ Goto(Writer, "write")
     \/ Goto(Writer, "lock") /\ UNCHANGED holder
  /\ UNCHANGED <<pluginVars, writerKeeps>>

\* It found the end of the stream: it stops the playback itself.
WriterReadEnd ==
  /\ pc[Writer] = "reading"
  /\ arg' = [arg EXCEPT ![Writer] = "STOP"]
  /\ Goto(Writer, "set_status")
  /\ UNCHANGED <<holder, output_status, pluginVars, plugin, teardown, ops, raced>>

WriterWriteEnd ==
  /\ pc[Writer] = "write"
  /\ Drop("api")
  /\ Goto(Writer, "lock") \/ Goto(Writer, "write_error")
  /\ UNCHANGED <<pluginVars, writerKeeps>>

\* The write failed: stop the writer, then xmms_output_set_error.
WriterWriteError ==
  /\ pc[Writer] = "write_error"
  /\ IsFree("write")
  /\ wanted_status' = "STOP"
  /\ arg' = [arg EXCEPT ![Writer] = "STOP"]
  /\ Goto(Writer, "set_status")
  /\ UNCHANGED <<holder, output_status, status, write_running, open, plugin,
                 teardown, ops, raced>>

WriterStep ==
  \/ WriterLock \/ WriterExit \/ WriterLoop \/ WriterMethodEnd \/ WriterPublish
  \/ WriterPublished \/ WriterReadData \/ WriterReadEnd \/ WriterWriteEnd
  \/ WriterWriteError \/ SetStatusLock(Writer) \/ WriterStatus(Writer)

-----------------------------------------------------------------------------
(***************************************************************************)
(* Main: xmms_output_plugin_switch, which stops the playback and then      *)
(* keeps output->status_mutex while it replaces the plugin, and the        *)
(* teardown in xmms_output_destroy, which takes no mutex.                  *)
(***************************************************************************)

mainKeeps == <<arg, output_status, open, ops, raced>>

SwitchBegin ==
  /\ teardown = "none" /\ plugin
  /\ teardown' = "switch"
  /\ arg' = [arg EXCEPT ![Main] = "STOP"]
  /\ Goto(Main, "set_status")
  /\ UNCHANGED <<holder, output_status, pluginVars, plugin, ops, raced>>

\* Mutation: the plugin is replaced without output->status_mutex.
SwitchLock_Unlocked ==
  /\ pc[Main] = "switch_lock"
  /\ Goto(Main, "method_destroy")
  /\ UNCHANGED <<holder, pluginVars, plugin, teardown, mainKeeps>>

SwitchLock ==
  /\ pc[Main] = "switch_lock"
  /\ Take(Main, "output")
  /\ Goto(Main, "method_destroy")
  /\ UNCHANGED <<pluginVars, plugin, teardown, mainKeeps>>

DestroyBegin ==
  /\ teardown = "none" /\ plugin
  /\ teardown' = "destroy"
  /\ Goto(Main, "method_destroy")
  /\ UNCHANGED <<holder, pluginVars, plugin, mainKeeps>>

\* writer_status_wait (STOP): under plugin->status_mutex ...
StatusWaitLock ==
  /\ pc[Main] = "method_destroy"
  /\ Take(Main, "status")
  /\ Goto(Main, IF wanted_status # "STOP" THEN "want_stop" ELSE "status_test")
  /\ UNCHANGED <<pluginVars, plugin, teardown, mainKeeps>>

\* ... it takes write_mutex to tell the writer ...
StatusWaitTell ==
  /\ pc[Main] = "want_stop"
  /\ IsFree("write")
  /\ wanted_status' = "STOP"
  /\ pc' = WriteSignalled([pc EXCEPT ![Main] = "status_test"])
  /\ UNCHANGED <<holder, status, write_running, plugin, teardown, mainKeeps>>

\* ... and sleeps until the writer is there.
StatusWaitTest ==
  /\ \/ pc[Main] = "status_test"
     \/ pc[Main] = "status_woken" /\ IsFree("status")
  /\ Drop("status")
  /\ Goto(Main, IF status = "STOP" THEN "stop_thread" ELSE "status_wait")
  /\ UNCHANGED <<pluginVars, plugin, teardown, mainKeeps>>

\* write_running is cleared and write_cond signalled without write_mutex.
StopThread ==
  /\ pc[Main] = "stop_thread"
  /\ write_running' = FALSE
  /\ Goto(Main, "signal_thread")
  /\ UNCHANGED <<holder, wanted_status, status, plugin, teardown, mainKeeps>>

SignalThread ==
  /\ pc[Main] = "signal_thread"
  /\ pc' = WriteSignalled([pc EXCEPT ![Main] = "join"])
  /\ UNCHANGED <<holder, pluginVars, plugin, teardown, mainKeeps>>

\* The writer is joined and the plugin's destroy method called.
Join ==
  /\ pc[Main] = "join" /\ pc[Writer] = "exited"
  /\ Take(Main, "api")
  /\ Goto(Main, "destroying")
  /\ UNCHANGED <<arg, output_status, pluginVars, plugin, teardown, ops, raced>>

\* After a switch a plugin is set up again, the new one or the old one, with a
\* thread of its own; or neither will start.
Destroyed ==
  /\ pc[Main] = "destroying"
  /\ holder' = [holder EXCEPT !["api"] = "nobody",
                              !["output"] = IF @ = Main THEN "nobody" ELSE @]
  /\ teardown' = "over"
  /\ \E started \in {FALSE, teardown = "switch"} :
       /\ plugin' = started
       /\ write_running' = started
       /\ pc' = [pc EXCEPT ![Main] = "idle",
                           ![Writer] = IF started THEN "lock" ELSE "exited"]
  /\ wanted_status' = "STOP" /\ status' = "STOP"
  /\ UNCHANGED <<arg, output_status, open, ops, raced>>

MainStep ==
  \/ SwitchBegin \/ SwitchLock \/ DestroyBegin \/ StatusWaitLock \/ StatusWaitTell
  \/ StatusWaitTest \/ StopThread \/ SignalThread \/ Join \/ Destroyed
  \/ SetStatusLock(Main) \/ WriterStatus(Main)

ClientStep(c) == SetStatusLock(c) \/ WriterStatus(c)

OutputNext ==
  \/ WriterStep \/ MainStep
  \/ \E c \in Client : \/ ClientStep(c)
                       \/ \E s \in {"PLAY", "PAUSE", "STOP"} : Command(c, s)

(***************************************************************************)
(* Threads run, and a mutex that is free again and again is got in the     *)
(* end.  Nobody has to give a command or to begin a teardown.              *)
(***************************************************************************)
Fairness ==
  /\ SF_output_vars(WriterStep)
  /\ SF_output_vars(MainStep /\ teardown' # "none" /\ teardown # "none")
  /\ \A c \in Client : SF_output_vars(ClientStep(c))

OutputSpec == OutputInit /\ [][OutputNext]_output_vars /\ Fairness

-----------------------------------------------------------------------------

Status == {"STOP", "PLAY", "PAUSE"}

WriterPc == {"lock", "loop", "close", "flush", "open", "publish", "published",
             "write_wait", "reading", "write", "write_error", "exited", "aborted"}

MainPc == {"switch_lock", "method_destroy", "want_stop", "status_test", "status_wait",
           "status_woken", "stop_thread", "signal_thread", "join", "destroying"}

\* The type invariant.
OutputTypeOK ==
  /\ DOMAIN holder = Mutex
  /\ holder["output"] \in Thread \cup {"nobody"}
  /\ holder["write"] \in {Writer, "nobody"}
  /\ holder["status"] \in {Main, "nobody"}
  /\ holder["api"] \in {Writer, Main, "nobody"}
  /\ pc \in [Thread -> WriterPc \cup MainPc
                       \cup {"idle", "set_status", "writer_status"}]
  /\ arg \in [Thread -> Status]
  /\ output_status \in Status /\ wanted_status \in Status /\ status \in Status
  /\ write_running \in BOOLEAN /\ open \in BOOLEAN /\ plugin \in BOOLEAN
  /\ teardown \in {"none", "switch", "destroy", "over"}
  /\ ops \in 0..MaxOps /\ raced \in BOOLEAN

\* Once the writer was told to stop and says it has stopped, the device is
\* closed: a teardown that waits for that status may take the plugin away.
StoppedMeansClosed ==
  /\ OutputTypeOK
  /\ wanted_status = "STOP" /\ status = "STOP" /\ holder["write"] # Writer
       => ~ open

\* The writer ends with the device open, and fails its assertion that it is
\* closed, only if a client told it to play behind the teardown's stop, and only
\* when the server shuts down: a switch keeps output->status_mutex from before
\* the stop until the writer is joined, so that no client gets in between.
AbortsOnlyWhenRaced == pc[Writer] = "aborted" => raced /\ teardown = "destroy"

\* A status the writer is told is reached, or replaced: play opens the device
\* (or fails and stops), stop closes it, unless a teardown has begun.
StatusReached ==
  \A s \in Status :
    (wanted_status = s) ~> \/ wanted_status # s
                           \/ status = s
                           \/ teardown # "none"
=============================================================================
