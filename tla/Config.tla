------------------------------- MODULE Config -------------------------------
(***************************************************************************)
(* The configuration of src/xmms/config.c: a tree of properties that is    *)
(* written anew, as a whole, whenever the value of one changes, and read   *)
(* when the server starts.                                                 *)
(*                                                                         *)
(* A key is a sequence of names, "a.b" is <<"a", "b">>.  The file is what  *)
(* its parser makes of it: the lines in their order, and whether the whole *)
(* is well formed.  Every thread that changes a property saves the file    *)
(* itself, and no mutex is held for that.                                  *)
(***************************************************************************)
EXTENDS Naturals, SequencesExt

CONSTANTS
  Main, Client,   \* the threads that set and register properties
  Name, MaxNames, \* what keys are made of, and the most of them in a key
  Order,          \* the keys in the order of strcmp
  Core, Own,      \* the keys main registers, and those of the clients
  Default, Value, \* the value a key is registered with, and the others
  Empty, Markup,  \* of these, the empty string and one with a '<' or '&'
  MaxChanges,     \* bound: how often properties are set, registered or saved
  MaxStarts       \* bound: how often the server is started

Key == BoundedSeq(Name, MaxNames) \ {<<>>}

ASSUME NamesAssumption == MaxNames \in Nat
ASSUME BoundsAssumption == MaxChanges \in Nat /\ MaxStarts \in Nat
ASSUME OrderAssumption ==
  /\ Order \in Seq(Key) /\ Range(Order) = Key
  /\ \A i, j \in DOMAIN Order : IsPrefix(Order[i], Order[j]) => i <= j
ASSUME KeysAssumption == Core \cup Own \subseteq Key
ASSUME ValuesAssumption == Default \notin Value \cup {Empty, Markup}

VARIABLES
  tree,     \* the properties and their values
  file,     \* the file on disk
  saver,    \* what each thread is doing about it
  astray,   \* history: the file is not what the last save should have left
  changes, starts

vars == <<tree, file, saver, astray, changes, starts>>

Thread == {Main} \cup Client

Nothing == [lines |-> <<>>, sound |-> FALSE]

\* Where a thread is, the key it will insert after the save, under the mutex,
\* and what it has put in the buffer of the stream.
Idle == [at |-> "idle", new |-> <<>>, text |-> Nothing]

Init ==
  /\ tree = <<>> /\ file = Nothing
  /\ saver = [t \in Thread |-> Idle]
  /\ astray = FALSE
  /\ changes = 0 /\ starts = 0

-----------------------------------------------------------------------------
(* What is written, and what is read of it.                                *)

\* How many names two keys have in common at their beginnings.
Common(p, k) ==
  Max({n \in 0..Len(p) : n <= Len(k) /\ SubSeq(p, 1, n) = SubSeq(k, 1, n)})

\* Mutation: one section too few is closed.
Closes_OneLess(p, k) ==
  IF Len(p) <= Common(p, k) + 1 THEN 0 ELSE Len(p) - Common(p, k) - 2

\* The sections to close are the dots left in the key before.  There are none
\* when it is the beginning of this one, whose own section is not opened then.
Closes(p, k) ==
  IF Common(p, k) = Len(p) THEN 0 ELSE Len(p) - Common(p, k) - 1

\* One property is written.  Once a section is closed that is not open, the
\* file is lost.
DumpKey(d, k) ==
  LET shut == Closes(d.prev, k)
      kept == SubSeq(d.open, 1, Len(d.open) - shut)
      open == kept \o SubSeq(k, Common(d.prev, k) + 1, Len(k) - 1)
  IN IF ~d.sound \/ shut > Len(d.open)
     THEN [d EXCEPT !.sound = FALSE]
     ELSE [d EXCEPT !.prev = k, !.open = open,
                    !.lines = Append(@, <<Append(open, Last(k)), tree[k]>>)]

\* All of them; the markup of a value is written as it is.
Dump ==
  LET dump[n \in 0..Len(Order)] ==
        IF n = 0
        THEN [prev |-> <<>>, open |-> <<>>, lines |-> <<>>, sound |-> TRUE]
        ELSE IF Order[n] \in DOMAIN tree THEN DumpKey(dump[n - 1], Order[n])
        ELSE dump[n - 1]
      last == dump[Len(Order)]
  IN [lines |-> last.lines,
      sound |-> last.sound /\ \A k \in DOMAIN tree : tree[k] # Markup]

\* The lines of a file that give a key a value: the text of an element is not
\* reported when it is empty.
Given(f, k) ==
  {i \in DOMAIN f.lines : f.lines[i][1] = k /\ f.lines[i][2] # Empty}

\* The last of them counts, and nothing is kept of a file with an error in it.
Load(f) ==
  LET keys == {k \in {f.lines[i][1] : i \in DOMAIN f.lines} : Given(f, k) # {}}
  IN IF f.sound THEN [k \in keys |-> f.lines[Max(Given(f, k))][2]] ELSE <<>>

-----------------------------------------------------------------------------

\* A property is registered, and so saved, under the mutex, which every look
\* at the tree takes as well.
MutexFree == \A t \in Thread : saver[t].new = <<>>

Goes(t, from, to) ==
  saver[t].at = from /\ saver' = [saver EXCEPT ![t].at = to]

\* Clients are served when the server has registered its own properties, and
\* still while main saves for the last time: the IPC ends after that.
Serves(t) == t = Main \/ Core \subseteq DOMAIN tree

Change(t) == changes < MaxChanges /\ changes' = changes + 1 /\ Serves(t)

\* xmms_config_client_set_value: the value is changed without the mutex.
Set(t, k, v) ==
  /\ Change(t) /\ MutexFree
  /\ k \in DOMAIN tree /\ tree[k] # v
  /\ Goes(t, "idle", "save")
  /\ tree' = [tree EXCEPT ![k] = v]
  /\ UNCHANGED <<file, astray, starts>>

\* xmms_config_property_register: the key is not in the tree that is saved.
Register(t, k) ==
  /\ Change(t) /\ MutexFree
  /\ k \in IF t = Main THEN Core ELSE Own
  /\ k \notin DOMAIN tree
  /\ saver[t].at = "idle"
  /\ saver' = [saver EXCEPT ![t].at = "save", ![t].new = k]
  /\ UNCHANGED <<tree, file, astray, starts>>

\* The end of main saves once more.
SaveAtEnd ==
  /\ Change(Main)
  /\ Goes(Main, "idle", "save")
  /\ UNCHANGED <<tree, file, astray, starts>>

HasOpen(t) == saver[t].at \in {"opened", "dumped"}

\* The file is emptied as it is opened.
Open(t) ==
  /\ Goes(t, "save", "opened")
  /\ file' = Nothing
  /\ astray' = \E u \in Thread : HasOpen(u)
  /\ UNCHANGED <<tree, changes, starts>>

\* What is left to do when the save has returned.
Finish(t) ==
  /\ saver' = [saver EXCEPT ![t] = Idle]
  /\ LET k == saver[t].new IN
     tree' = IF k = <<>> THEN tree
             ELSE [j \in DOMAIN tree \cup {k} |->
                     IF j = k THEN Default ELSE tree[j]]

\* It cannot be opened: nobody is told.
OpenFails(t) ==
  /\ saver[t].at = "save"
  /\ Finish(t)
  /\ astray' = TRUE
  /\ UNCHANGED <<file, changes, starts>>

\* The name of a property is what follows the last dot of its key: the program
\* crashes where there is none, with the file empty.
Undotted == \E k \in DOMAIN tree : Len(k) = 1

Write(t) ==
  /\ saver[t].at = "opened" /\ ~Undotted
  /\ saver' = [saver EXCEPT ![t].at = "dumped", ![t].text = Dump]
  /\ UNCHANGED <<tree, file, astray, changes, starts>>

\* The buffer is written out.  Two threads that have the file open at once
\* write over each other, and over what one of them has emptied.
Close(t) ==
  /\ saver[t].at = "dumped"
  /\ file' \in IF astray THEN {saver[t].text, Nothing} ELSE {saver[t].text}
  /\ Finish(t)
  /\ UNCHANGED <<astray, changes, starts>>

\* The server ends, is killed, or has crashed, and is started again.
Start ==
  /\ starts < MaxStarts /\ starts' = starts + 1
  /\ tree' = Load(file)
  /\ saver' = [t \in Thread |-> Idle]
  /\ astray' = FALSE
  /\ UNCHANGED <<file, changes>>

Next ==
  \/ \E t \in Client, k \in DOMAIN tree, v \in Value : Set(t, k, v)
  \/ \E t \in Thread, k \in Core \cup Own : Register(t, k)
  \/ SaveAtEnd
  \/ \E t \in Thread : Open(t) \/ OpenFails(t) \/ Write(t) \/ Close(t)
  \/ Start

Spec == Init /\ [][Next]_vars

-----------------------------------------------------------------------------

Written ==
  [lines : Seq(Key \X (Value \cup {Default})), sound : BOOLEAN]

TypeOK ==
  /\ DOMAIN tree \subseteq Key
  /\ tree \in [DOMAIN tree -> Value \cup {Default}]
  /\ file \in Written
  /\ saver \in [Thread -> [at : {"idle", "save", "opened", "dumped"},
                           new : {<<>>} \cup Core \cup Own, text : Written]]
  /\ astray \in BOOLEAN
  /\ changes \in 0..MaxChanges /\ starts \in 0..MaxStarts

\* Nobody is saving, and nothing went wrong with the last save.
Settled == ~astray /\ \A t \in Thread : saver[t] = Idle

\* The value a key has when the server has started again and registered it.
Recovered(k) == IF k \in DOMAIN Load(file) THEN Load(file)[k] ELSE Default

\* What the format of the file cannot hold: markup in a value, and a key that
\* continues another one.
Unwritable ==
  \/ \E k \in DOMAIN tree : tree[k] = Markup
  \/ \E j, k \in DOMAIN tree : j # k /\ IsPrefix(j, k)

\* Once the last of the threads that change the configuration, one over the
\* other, has saved it, a crash loses nothing: every key gets its value back,
\* an empty one its default, unless the format cannot hold it.  A save that
\* wrote over another one, or failed, is repaired by the next one.
CrashLosesNothing ==
  /\ TypeOK
  /\ Settled /\ ~Unwritable =>
       \A k \in DOMAIN tree :
         Recovered(k) = IF tree[k] = Empty THEN Default ELSE tree[k]

\* xmms_config_property_set_data says it: "save the database to disk, so we
\* don't lose any data if the daemon crashes".
SavedIsKept == Settled => \A k \in DOMAIN tree : Recovered(k) = tree[k]
=============================================================================
