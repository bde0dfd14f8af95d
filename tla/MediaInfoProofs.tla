-------------------------- MODULE MediaInfoProofs ---------------------------
(***************************************************************************)
(* The reader sleeps over an entry only if a signal reached it between its *)
(* look and its sleep, and entries keep their own metadata, for any number *)
(* of clients, urls, ids and commands.                                     *)
(***************************************************************************)
EXTENDS MediaInfo, TLAPS

-----------------------------------------------------------------------------
(***************************************************************************)
(* What the operations on the media library make of each entry.            *)
(***************************************************************************)

MediaType == media \in [Id -> Entries]

Records == [url : Url, status : Status, info : Url \cup {Nothing}]

LEMMA GoneIsNone == Gone.status = "NONE" /\ Gone \notin Records
BY UrlAssumption DEF Gone, Records, Status

LEMMA StatusSetValue ==
  ASSUME MediaType, NEW i \in Id, NEW s \in Status
  PROVE  /\ StatusSet(i, s) \in [Id -> Entries]
         /\ \A j \in Id : j # i => StatusSet(i, s)[j] = media[j]
         /\ media[i] = Gone => StatusSet(i, s)[i] = Gone
         /\ media[i] # Gone => /\ StatusSet(i, s)[i] # Gone
                               /\ StatusSet(i, s)[i].status = s
                               /\ StatusSet(i, s)[i].url = media[i].url
                               /\ StatusSet(i, s)[i].info = media[i].info
<1>1. CASE media[i] = Gone
  BY <1>1 DEF StatusSet, MediaType
<1>2. CASE media[i] # Gone
  <2>1. media[i] \in Records
    BY <1>2 DEF MediaType, Entries, Records
  <2>2. [media[i] EXCEPT !.status = s] \in Records
    BY <2>1 DEF Records
  <2> QED
    BY <1>2, <2>1, <2>2, GoneIsNone
       DEF StatusSet, MediaType, Entries, Records
<1> QED
  BY <1>1, <1>2

LEMMA MetadataCollectedValue ==
  ASSUME MediaType, NEW i \in Id, NEW u \in Url \cup {Nothing}
  PROVE  /\ MetadataCollected(i, u) \in [Id -> Entries]
         /\ \A j \in Id : j # i => MetadataCollected(i, u)[j] = media[j]
         /\ media[i] = Gone => MetadataCollected(i, u)[i] = Gone
         /\ media[i] # Gone => /\ MetadataCollected(i, u)[i] # Gone
                               /\ MetadataCollected(i, u)[i].status = "OK"
                               /\ MetadataCollected(i, u)[i].url = media[i].url
                               /\ MetadataCollected(i, u)[i].info = u
<1>1. CASE media[i] = Gone
  BY <1>1 DEF MetadataCollected, MediaType
<1>2. CASE media[i] # Gone
  <2>1. media[i] \in Records
    BY <1>2 DEF MediaType, Entries, Records
  <2>2. [media[i] EXCEPT !.info = u, !.status = "OK"] \in Records
    BY <2>1 DEF Records, Status
  <2> QED
    BY <1>2, <2>1, <2>2, GoneIsNone
       DEF MetadataCollected, MediaType, Entries, Records
<1> QED
  BY <1>1, <1>2

LEMMA DeletedValue ==
  ASSUME MediaType, NEW i \in Id
  PROVE  /\ Deleted(i) \in [Id -> Entries]
         /\ \A j \in Id : j # i => Deleted(i)[j] = media[j]
         /\ Deleted(i)[i] = Gone
BY DEF Deleted, MediaType, Entries

LEMMA InsertedValue ==
  ASSUME MediaType, NextId \in Id, NEW u \in Url
  PROVE  /\ Inserted(u) \in [Id -> Entries]
         /\ \A j \in Id : j # NextId => Inserted(u)[j] = media[j]
         /\ Inserted(u)[NextId] =
              [url |-> u, status |-> "NEW", info |-> Nothing]
<1> DEFINE new == [url |-> u, status |-> "NEW", info |-> Nothing]
<1>1. new \in Entries
  BY DEF Entries, Status
<1> HIDE DEF new
<1>2. [media EXCEPT ![NextId] = new] \in [Id -> Entries]
  BY <1>1 DEF MediaType
<1> QED
  BY <1>2 DEF Inserted, new, MediaType

-----------------------------------------------------------------------------
(***************************************************************************)
(* The invariant.                                                          *)
(***************************************************************************)

ThreadRecords ==
  [pc : Pc, entry : Id \cup {0}, prev : Status \cup {"NONE"},
   url : Url \cup {Nothing}]

ThreadType == thread \in [Thread -> ThreadRecords]

AdderRecords ==
  [pc : {"idle", "adding", "rehashed"}, url : Url \cup {Nothing}]

AdderType == adder \in [Client -> AdderRecords]

HistoryType == mixed \subseteq Id /\ stuck \subseteq Id

FlagType ==
  /\ running \in BOOLEAN /\ missed \in BOOLEAN
  /\ commands \in 0..MaxCommands
  /\ writer \in Client \cup {"none"}

\* A thread has an entry from the time it has chosen one until it is done.
Busy == {"setup", "collect", "finish", "failed", "removing"}

Held ==
  \A t \in Thread : IF thread[t].pc \in Busy THEN thread[t].entry \in Id
                                            ELSE thread[t].entry = 0

\* Nobody changes the media library under an adder, and the reader does not
\* fall asleep under it without having missed its signal.
Adding ==
  \A c \in Client : adder[c].pc = "adding" =>
    /\ writer = c
    /\ adder[c].url \in Url
    /\ NextId \in Id
    /\ reader.pc \in {"wait", "asleep"} => missed

Awake ==
  reader.pc \in {"wait", "asleep"} /\ ~missed =>
    \/ \A i \in Id : media[i].status \notin {"NEW", "REHASH"}
    \/ \E c \in Client : adder[c].pc = "rehashed"

Resolving ==
  \A i \in Id :
    media[i].status = "RESOLVING" /\ i \notin stuck => reader.entry = i

OkOwn ==
  \A i \in Id :
    media[i].status = "OK" /\ i \notin mixed => media[i].info = media[i].url

\* What a thread is about to write is the entry's own.
CollectOwn ==
  \A t \in Thread, i \in Id :
    /\ thread[t].pc = "collect" /\ thread[t].entry = i
    /\ i \notin mixed /\ media[i] # Gone
    => thread[t].url = media[i].url

FinishOwn ==
  \A i \in Id :
    reader.pc = "finish" /\ reader.entry = i /\ i \notin mixed /\ media[i] # Gone
    => media[i].info = media[i].url

Types == MediaType /\ ThreadType /\ AdderType /\ HistoryType /\ FlagType

Own == Resolving /\ OkOwn /\ CollectOwn /\ FinishOwn

IInv == Types /\ Held /\ Adding /\ Awake /\ Own

LEMMA TypesAreTypeOK == Types <=> TypeOK
BY Zenon DEF Types, TypeOK, MediaType, ThreadType, ThreadRecords, AdderType,
             AdderRecords, HistoryType, FlagType

LEMMA IInvImplies == IInv => ReaderAwake /\ InfoIsOwn
<1> SUFFICES ASSUME IInv PROVE ReaderAwake /\ InfoIsOwn
  OBVIOUS
<1>1. TypeOK
  BY TypesAreTypeOK DEF IInv
<1>2. ReaderAwake
  BY DEF IInv, Awake, ReaderAwake, NotResolved
<1>3. InfoIsOwn
  BY <1>1 DEF IInv, Own, Resolving, OkOwn, InfoIsOwn
<1> QED
  BY <1>2, <1>3

LEMMA AtType ==
  ASSUME NEW pc \in Pc
  PROVE  /\ At(pc) \in ThreadRecords
         /\ At(pc).pc = pc /\ At(pc).entry = 0
BY DEF At, ThreadRecords

LEMMA InitIInv == Init => IInv
<1> SUFFICES ASSUME Init PROVE IInv
  OBVIOUS
<1>1. MediaType /\ \A i \in Id : media[i] = Gone
  BY DEF Init, MediaType, Entries
<1>2. /\ thread = [reader |-> At("test"), filler |-> At("idle")]
      /\ adder = [c \in Client |-> Ready]
  BY DEF Init, Fresh, NobodyAdds
<1>3. At("test") \in ThreadRecords /\ At("idle") \in ThreadRecords
  BY AtType DEF Pc
<1>4. /\ ThreadType
      /\ thread["reader"] = At("test") /\ thread["filler"] = At("idle")
  BY <1>2, <1>3 DEF ThreadType, Thread
<1>5. AdderType /\ \A c \in Client : adder[c].pc = "idle"
  BY <1>2 DEF AdderType, AdderRecords, Ready
<1>6. HistoryType /\ mixed = {}
  BY DEF Init, HistoryType
<1>7. FlagType
  <2>1. running \in BOOLEAN /\ missed \in BOOLEAN
    BY Zenon DEF Init
  <2>2. commands = 0 /\ writer = "none"
    BY DEF Init
  <2> QED
    BY <2>1, <2>2, CommandsAssumption DEF FlagType
<1>8. Held
  BY <1>4, AtType DEF Held, Thread, Pc, Busy
<1>9. Adding /\ Awake
  BY <1>1, <1>5, GoneIsNone DEF Adding, Awake
<1>10. Own
  BY <1>1, <1>4, AtType, GoneIsNone
     DEF Own, Resolving, OkOwn, CollectOwn, FinishOwn, reader, Thread, Pc
<1> QED
  BY <1>1, <1>4, <1>5, <1>6, <1>7, <1>8, <1>9, <1>10 DEF IInv, Types

-----------------------------------------------------------------------------
(***************************************************************************)
(* Facts that several steps need.                                          *)
(***************************************************************************)

LEMMA ThreadUpdate ==
  ASSUME ThreadType, NEW t \in Thread, NEW r \in ThreadRecords,
         thread' = [thread EXCEPT ![t] = r]
  PROVE  /\ ThreadType'
         /\ thread'[t] = r
         /\ \A u \in Thread : u # t => thread'[u] = thread[u]
BY DEF ThreadType

\* A step that leaves a thread without an entry.
LEMMA GoesValue ==
  ASSUME ThreadType, Held, NEW t \in Thread, NEW pc \in Pc \ Busy, Goes(t, pc)
  PROVE  /\ ThreadType' /\ Held'
         /\ thread'[t].pc = pc /\ thread'[t].entry = 0
         /\ \A u \in Thread : u # t => thread'[u] = thread[u]
<1>1. At(pc) \in ThreadRecords /\ At(pc).pc = pc /\ At(pc).entry = 0
  BY AtType
<1>2. thread' = [thread EXCEPT ![t] = At(pc)]
  BY DEF Goes
<1>3. /\ ThreadType'
      /\ thread'[t] = At(pc)
      /\ \A u \in Thread : u # t => thread'[u] = thread[u]
  BY <1>1, <1>2, ThreadUpdate
<1> QED
  BY <1>1, <1>3 DEF Held

LEMMA NoAdder ==
  ASSUME Adding, Free
  PROVE  \A c \in Client : adder[c].pc # "adding"
BY ClientAssumption DEF Adding, Free

LEMMA NextSame == media' = media => NextId' = NextId
BY DEF NextId, Present

\* What a thread holds stays its own when the entries do and it writes none.
LEMMA OwnKept ==
  ASSUME Own, UNCHANGED <<media, mixed, stuck>>, ThreadType, Held,
         \A t \in Thread :
           \/ thread'[t] = thread[t]
           \/ /\ thread'[t].pc \notin {"collect", "finish"}
              /\ thread[t].entry = 0
  PROVE  Own'
<1>1. "reader" \in Thread
  BY DEF Thread
<1>2. Resolving'
  BY <1>1 DEF Own, Resolving, reader, Id
<1>3. OkOwn'
  BY DEF Own, OkOwn
<1>4. CollectOwn'
  BY DEF Own, CollectOwn
<1>5. FinishOwn'
  BY <1>1 DEF Own, FinishOwn, reader
<1> QED
  BY <1>2, <1>3, <1>4, <1>5 DEF Own

-----------------------------------------------------------------------------
(***************************************************************************)
(* The reader's steps.                                                     *)
(***************************************************************************)

LEMMA IdleSteps ==
  ASSUME IInv, Test \/ FindNone \/ Sleep, UNCHANGED writer
  PROVE  IInv'
<1> USE DEF IInv, Types
<1>1. PICK pc \in {"test", "pick", "wait", "asleep", "ended"} :
        Goes("reader", pc)
  BY DEF Test, FindNone, Sleep
<1>2. /\ reader.pc \notin Busy
      /\ UNCHANGED <<media, running, adder, commands, mixed, stuck, writer>>
  BY DEF Test, FindNone, Sleep, Busy
<1>3. "reader" \in Thread /\ pc \in Pc \ Busy
  BY DEF Thread, Pc, Busy
<1>4. /\ ThreadType' /\ Held'
      /\ thread'["reader"].pc = pc /\ thread'["reader"].entry = 0
      /\ \A u \in Thread : u # "reader" => thread'[u] = thread[u]
  BY <1>1, <1>3, GoesValue
<1>5. missed' \in BOOLEAN
  BY Zenon DEF Test, FindNone, Sleep, FlagType
<1>6. Types'
  BY <1>2, <1>4, <1>5 DEF MediaType, AdderType, HistoryType, FlagType
<1>7. Own'
  BY <1>2, <1>3, <1>4, OwnKept DEF Held, reader, Busy
<1>8. Adding'
  <2>1. CASE Test
    <3>1. reader'.pc \notin {"wait", "asleep"}
      BY <2>1, <1>1, <1>4, AtType DEF Test, Goes, reader, ThreadType, Thread, Pc
    <3> QED
      BY <3>1, <1>2, NextSame DEF Adding
  <2>2. CASE FindNone
    BY <2>2, <1>2, NoAdder DEF FindNone, Adding
  <2>3. CASE Sleep
    BY <2>3, <1>2, NextSame DEF Sleep, Adding
  <2> QED
    BY <2>1, <2>2, <2>3
<1>9. Awake'
  <2>1. CASE Test
    <3>1. reader'.pc \notin {"wait", "asleep"}
      BY <2>1, <1>1, <1>4, AtType DEF Test, Goes, reader, ThreadType, Thread, Pc
    <3> QED
      BY <3>1 DEF Awake
  <2>2. CASE FindNone
    BY <2>2, <1>2 DEF FindNone, Awake, NotResolved
  <2>3. CASE Sleep
    BY <2>3, <1>2 DEF Sleep, Awake
  <2> QED
    BY <2>1, <2>2, <2>3
<1> QED
  BY <1>4, <1>6, <1>7, <1>8, <1>9

LEMMA PickStep ==
  ASSUME IInv, NEW i \in Id, Pick(i), UNCHANGED writer
  PROVE  IInv'
<1> USE DEF IInv, Types
<1> DEFINE r == [At("setup") EXCEPT !.entry = i, !.prev = media[i].status]
<1>1. media[i].status \in {"NEW", "REHASH"} /\ media[i] # Gone
  BY GoneIsNone DEF Pick, NotResolved
<1>2. /\ r \in ThreadRecords /\ r.pc = "setup" /\ r.entry = i
  BY <1>1 DEF At, ThreadRecords, Pc, Status
<1>3. thread' = [thread EXCEPT !["reader"] = r] /\ reader.pc = "pick"
  BY DEF Pick
<1> HIDE DEF r
<1>4. /\ ThreadType'
      /\ thread'["reader"] = r
      /\ thread'["filler"] = thread["filler"]
  BY <1>2, <1>3, ThreadUpdate DEF Thread
<1>5. Held'
  BY <1>2, <1>4 DEF Held, Thread, Busy
<1>6. /\ MediaType'
      /\ \A j \in Id : j # i => media'[j] = media[j]
      /\ media'[i] # Gone /\ media'[i].status = "RESOLVING"
      /\ media'[i].url = media[i].url /\ media'[i].info = media[i].info
  BY <1>1, StatusSetValue DEF Pick, Status, MediaType
<1>7. UNCHANGED <<running, adder, commands, missed, mixed, stuck, writer>>
  BY DEF Pick
<1>8. Types'
  BY <1>4, <1>6, <1>7 DEF AdderType, HistoryType, FlagType
<1>9. Adding'
  BY <1>7, NoAdder DEF Pick, Adding
<1>10. Awake'
  BY <1>2, <1>4 DEF Awake, reader
<1>11. reader.entry = 0
  BY <1>3 DEF Held, reader, Thread, Busy
<1>12. Own'
  <2>1. Resolving'
    BY <1>2, <1>4, <1>6, <1>7, <1>11 DEF Own, Resolving, reader, Id
  <2>2. OkOwn'
    BY <1>6, <1>7 DEF Own, OkOwn
  <2>3. CollectOwn'
    BY <1>1, <1>2, <1>4, <1>6, <1>7 DEF Own, CollectOwn, Thread
  <2>4. FinishOwn'
    BY <1>2, <1>4 DEF FinishOwn, reader
  <2> QED
    BY <2>1, <2>2, <2>3, <2>4 DEF Own
<1> QED
  BY <1>5, <1>8, <1>9, <1>10, <1>12

\* The entry leaves RESOLVING with the reader.
LEMMA ReaderEnds ==
  ASSUME IInv, Finish \/ ReaderFailed, UNCHANGED writer
  PROVE  IInv'
<1> USE DEF IInv, Types
<1> DEFINE i == reader.entry
<1>1. i \in Id /\ reader.pc \in {"finish", "failed"}
  BY DEF Finish, ReaderFailed, Held, reader, Thread, Busy
<1>2. Goes("reader", "test")
  BY DEF Finish, ReaderFailed
<1>3. /\ ThreadType' /\ Held'
      /\ thread'["reader"].pc = "test" /\ thread'["reader"].entry = 0
      /\ thread'["filler"] = thread["filler"]
  BY <1>2, GoesValue DEF Thread, Pc, Busy
<1>4. /\ MediaType'
      /\ \A j \in Id : j # i => media'[j] = media[j]
      /\ media'[i].status # "RESOLVING"
      /\ media'[i] # Gone => /\ media[i] # Gone
                             /\ media'[i].url = media[i].url
                             /\ media'[i].info = media[i].info
      /\ media'[i].status = "OK" => media'[i] # Gone /\ reader.pc = "finish"
  <2>1. CASE Finish
    BY <2>1, <1>1, StatusSetValue, GoneIsNone DEF Finish, Status, MediaType
  <2>2. CASE ReaderFailed /\ reader.prev = "NEW"
    BY <2>2, <1>1, DeletedValue, GoneIsNone
       DEF ReaderFailed, NoChain, MediaType
  <2>3. CASE ReaderFailed /\ reader.prev # "NEW"
    BY <2>3, <1>1, StatusSetValue, GoneIsNone
       DEF ReaderFailed, NoChain, Status, MediaType
  <2> QED
    BY <2>1, <2>2, <2>3
<1>5. /\ UNCHANGED <<running, adder, commands, missed, mixed, writer>>
      /\ StillStuck /\ Free
  BY DEF Finish, ReaderFailed
<1> HIDE DEF i
<1>6. Types'
  BY <1>3, <1>4, <1>5 DEF AdderType, HistoryType, FlagType, StillStuck
<1>7. Adding'
  BY <1>5, NoAdder DEF Adding
<1>8. Awake'
  BY <1>3 DEF Awake, reader
<1>9. Own'
  <2>1. Resolving'
    BY <1>4, <1>5 DEF Own, Resolving, StillStuck, i
  <2>2. OkOwn'
    BY <1>1, <1>4, <1>5 DEF Own, OkOwn, FinishOwn, i
  <2>3. CollectOwn'
    BY <1>1, <1>3, <1>4, <1>5 DEF Own, CollectOwn, Thread
  <2>4. FinishOwn'
    BY <1>3 DEF FinishOwn, reader
  <2> QED
    BY <2>1, <2>2, <2>3, <2>4 DEF Own
<1> QED
  BY <1>3, <1>6, <1>7, <1>8, <1>9

-----------------------------------------------------------------------------
(***************************************************************************)
(* The steps of either thread, and the filler's.                           *)
(***************************************************************************)

LEMMA SetUpStep ==
  ASSUME IInv, NEW t \in Thread, SetUp(t), UNCHANGED writer
  PROVE  IInv'
<1> USE DEF IInv, Types
<1> DEFINE i == thread[t].entry
           u == media[i].url
           r == [thread[t] EXCEPT !.url = u,
                   !.pc = IF u \in Playable THEN "collect" ELSE "failed"]
<1>1. thread[t] \in ThreadRecords /\ thread[t].pc = "setup"
  BY DEF SetUp, ThreadType
<1>2. i \in Id
  BY <1>1 DEF Held, Busy
<1>3. u \in Url \cup {Nothing}
  BY <1>2 DEF MediaType, Entries, Gone
<1>4. /\ r \in ThreadRecords /\ r.entry = i /\ r.url = u
      /\ r.pc \in {"collect", "failed"}
  BY <1>1, <1>3 DEF ThreadRecords, Pc
<1>5. thread' = [thread EXCEPT ![t] = r]
  BY <1>1 DEF SetUp, ThreadType
<1>6. UNCHANGED <<media, running, adder, commands, missed, mixed, stuck, writer>>
  BY DEF SetUp
<1> HIDE DEF r, u
<1>7. /\ ThreadType'
      /\ thread'[t] = r
      /\ \A v \in Thread : v # t => thread'[v] = thread[v]
  BY <1>4, <1>5, ThreadUpdate
<1>8. Held'
  BY <1>2, <1>4, <1>7 DEF Held, Busy
<1>9. Types'
  BY <1>6, <1>7 DEF MediaType, AdderType, HistoryType, FlagType
<1>10. Adding'
  BY <1>6, NoAdder DEF SetUp, Adding
<1>11. Awake'
  BY <1>4, <1>6, <1>7 DEF Awake, reader, Thread
<1>12. Own'
  <2>1. Resolving'
    BY <1>4, <1>6, <1>7 DEF Own, Resolving, reader, Thread
  <2>2. OkOwn'
    BY <1>6 DEF Own, OkOwn
  <2>3. CollectOwn'
    BY <1>4, <1>6, <1>7 DEF Own, CollectOwn, u
  <2>4. FinishOwn'
    BY <1>4, <1>6, <1>7 DEF Own, FinishOwn, reader, Thread
  <2> QED
    BY <2>1, <2>2, <2>3, <2>4 DEF Own
<1> QED
  BY <1>8, <1>9, <1>10, <1>11, <1>12

LEMMA CollectStep ==
  ASSUME IInv, NEW t \in Thread, Collect(t), UNCHANGED writer
  PROVE  IInv'
<1> USE DEF IInv, Types
<1> DEFINE i == thread[t].entry
           u == thread[t].url
           r == IF t = "reader" THEN [thread[t] EXCEPT !.pc = "finish"]
                                ELSE At("idle")
<1>1. thread[t] \in ThreadRecords /\ thread[t].pc = "collect"
  BY DEF Collect, ThreadType
<1>2. i \in Id /\ u \in Url \cup {Nothing}
  BY <1>1 DEF Held, Busy, ThreadRecords
<1>3. /\ r \in ThreadRecords
      /\ t = "reader" => r.pc = "finish" /\ r.entry = i
      /\ t # "reader" => r.pc = "idle" /\ r.entry = 0
  BY <1>1, AtType DEF ThreadRecords, Pc
<1>4. thread' = [thread EXCEPT ![t] = r]
  BY <1>1 DEF Collect, ThreadType, Thread
<1>5. /\ UNCHANGED <<running, adder, commands, missed, mixed, writer>>
      /\ StillStuck /\ Free
  BY DEF Collect
<1>6. /\ MediaType'
      /\ \A j \in Id : j # i => media'[j] = media[j]
      /\ media'[i].status \notin {"RESOLVING", "NEW", "REHASH"}
      /\ media[i] = Gone => media'[i] = Gone
      /\ media[i] # Gone => media'[i].url = media[i].url /\ media'[i].info = u
  BY <1>2, MetadataCollectedValue, GoneIsNone DEF Collect, Target, MediaType
<1>7. media[i] # Gone /\ i \notin mixed => u = media[i].url
  BY <1>1, <1>2 DEF Own, CollectOwn
<1> HIDE DEF r, i, u
<1>8. /\ ThreadType'
      /\ thread'[t] = r
      /\ \A v \in Thread : v # t => thread'[v] = thread[v]
  BY <1>3, <1>4, ThreadUpdate
<1>9. Held'
  BY <1>2, <1>3, <1>8 DEF Held, Busy
<1>10. Types'
  BY <1>5, <1>6, <1>8 DEF AdderType, HistoryType, FlagType, StillStuck
<1>11. Adding'
  BY <1>5, NoAdder DEF Adding
<1>12. Awake'
  BY <1>3, <1>5, <1>6, <1>8 DEF Awake, reader, Thread
<1>13. Own'
  <2>1. Resolving'
    BY <1>1, <1>3, <1>5, <1>6, <1>8
       DEF Own, Resolving, reader, Thread, StillStuck, i
  <2>2. OkOwn'
    BY <1>5, <1>6, <1>7, GoneIsNone DEF Own, OkOwn
  <2>3. CollectOwn'
    BY <1>3, <1>5, <1>6, <1>8 DEF Own, CollectOwn
  <2>4. FinishOwn'
    BY <1>1, <1>3, <1>5, <1>6, <1>7, <1>8 DEF Own, FinishOwn, reader, Thread
  <2> QED
    BY <2>1, <2>2, <2>3, <2>4 DEF Own
<1> QED
  BY <1>9, <1>10, <1>11, <1>12, <1>13

LEMMA PlayStep ==
  ASSUME IInv, NEW i \in Id, Play(i), UNCHANGED writer
  PROVE  IInv'
<1> USE DEF IInv, Types
<1> DEFINE r == [At("setup") EXCEPT !.entry = i]
<1>1. r \in ThreadRecords /\ r.pc = "setup" /\ r.entry = i
  BY DEF At, ThreadRecords, Pc
<1>2. /\ thread' = [thread EXCEPT !["filler"] = r]
      /\ commands < MaxCommands /\ commands' = commands + 1
      /\ UNCHANGED <<media, running, adder, missed, mixed, stuck, writer>>
  BY DEF Play
<1> HIDE DEF r
<1>3. /\ ThreadType'
      /\ thread'["filler"] = r
      /\ thread'["reader"] = thread["reader"]
  BY <1>1, <1>2, ThreadUpdate DEF Thread
<1>4. Held'
  BY <1>1, <1>3 DEF Held, Thread, Busy
<1>5. commands' \in 0..MaxCommands
  BY <1>2, CommandsAssumption DEF FlagType
<1>6. Types'
  BY <1>2, <1>3, <1>5 DEF MediaType, AdderType, HistoryType, FlagType
<1>7. Adding' /\ Awake'
  BY <1>2, <1>3, NextSame DEF Adding, Awake, reader
<1>8. Own'
  BY <1>1, <1>2, <1>3
     DEF Own, Resolving, OkOwn, CollectOwn, FinishOwn, reader, Thread
<1> QED
  BY <1>4, <1>6, <1>7, <1>8

\* What the filler makes of an entry it finds no chain for.
LEMMA FillerEnds ==
  ASSUME IInv, FillerFailed \/ FillerRemoves, UNCHANGED writer
  PROVE  IInv'
<1> USE DEF IInv, Types
<1> DEFINE i == filler.entry
<1>1. i \in Id /\ filler.pc \in {"failed", "removing"}
  BY DEF FillerFailed, FillerRemoves, Held, filler, Thread, Busy
<1>2. /\ UNCHANGED <<running, adder, commands, missed, mixed, writer>>
      /\ StillStuck /\ Free
  BY DEF FillerFailed, FillerRemoves
<1>3. /\ ThreadType' /\ Held'
      /\ thread'["filler"].pc \in {"removing", "idle"}
      /\ thread'["reader"] = thread["reader"]
  <2>1. CASE Goes("filler", "idle")
    BY <2>1, GoesValue DEF Thread, Pc, Busy
  <2>2. CASE thread' = [thread EXCEPT !["filler"].pc = "removing"]
    <3> DEFINE r == [thread["filler"] EXCEPT !.pc = "removing"]
    <3>1. r \in ThreadRecords /\ r.pc = "removing" /\ r.entry = i
      BY DEF ThreadType, ThreadRecords, Thread, Pc, filler
    <3>2. thread' = [thread EXCEPT !["filler"] = r]
      BY <2>2 DEF ThreadType, Thread
    <3> HIDE DEF r
    <3>3. /\ ThreadType' /\ thread'["filler"] = r
          /\ thread'["reader"] = thread["reader"]
      BY <3>1, <3>2, ThreadUpdate DEF Thread
    <3> QED
      BY <1>1, <3>1, <3>3 DEF Held, Thread, Busy
  <2> QED
    BY <2>1, <2>2 DEF FillerFailed, FillerRemoves
<1>4. /\ MediaType'
      /\ \A j \in Id : j # i => media'[j] = media[j]
      /\ media'[i] = media[i] \/ media'[i] = Gone
           \/ /\ media'[i].status = "NOT_AVAILABLE" /\ media[i] # Gone
              /\ media'[i].url = media[i].url /\ media'[i].info = media[i].info
  <2>1. CASE FillerRemoves
    BY <2>1, <1>1, DeletedValue DEF FillerRemoves, MediaType
  <2>2. CASE FillerFailed
    BY <2>2, <1>1, StatusSetValue DEF FillerFailed, MediaType, Status
  <2> QED
    BY <2>1, <2>2
<1> HIDE DEF i
<1>5. Types'
  BY <1>2, <1>3, <1>4 DEF AdderType, HistoryType, FlagType, StillStuck
<1>6. Adding'
  BY <1>2, NoAdder DEF Adding
<1>7. Awake'
  BY <1>1, <1>2, <1>3, <1>4, GoneIsNone DEF Awake, reader
<1>8. Own'
  <2>1. Resolving'
    BY <1>1, <1>2, <1>3, <1>4, GoneIsNone DEF Own, Resolving, reader, StillStuck
  <2>2. OkOwn'
    BY <1>1, <1>2, <1>4, GoneIsNone DEF Own, OkOwn
  <2>3. CollectOwn'
    BY <1>1, <1>2, <1>3, <1>4 DEF Own, CollectOwn, Thread
  <2>4. FinishOwn'
    BY <1>1, <1>2, <1>3, <1>4 DEF Own, FinishOwn, reader
  <2> QED
    BY <2>1, <2>2, <2>3, <2>4 DEF Own
<1> QED
  BY <1>3, <1>5, <1>6, <1>7, <1>8

-----------------------------------------------------------------------------
(***************************************************************************)
(* The clients' steps.                                                     *)
(***************************************************************************)

\* A signal ends a sleep, or is missed by a reader about to sleep.
LEMMA SignalValue ==
  ASSUME ThreadType, Held, FlagType, Signal
  PROVE  /\ ThreadType' /\ Held' /\ missed' \in BOOLEAN
         /\ reader'.pc \in {"wait", "asleep"} => missed'
         /\ thread'["filler"] = thread["filler"]
         /\ \/ thread'["reader"] = thread["reader"]
            \/ /\ thread'["reader"].pc = "test" /\ thread'["reader"].entry = 0
               /\ thread["reader"].pc = "asleep" /\ thread["reader"].entry = 0
<1>1. missed' \in BOOLEAN
  BY Zenon DEF Signal, FlagType
<1>2. CASE reader.pc = "asleep"
  <2>1. Goes("reader", "test")
    BY <1>2 DEF Signal, Goes
  <2>2. thread["reader"].entry = 0
    BY <1>2 DEF Held, reader, Thread, Busy
  <2> QED
    BY <1>1, <1>2, <2>1, <2>2, GoesValue DEF Thread, Pc, Busy, reader
<1>3. CASE reader.pc # "asleep"
  BY <1>1, <1>3 DEF Signal, ThreadType, Held, reader
<1> QED
  BY <1>2, <1>3

LEMMA AddStep ==
  ASSUME IInv, NEW c \in Client, NEW url \in Url, Add(c, url)
  PROVE  IInv'
<1> USE DEF IInv, Types
<1>1. /\ Free /\ writer' = c /\ NextId \in Id /\ Signal
      /\ adder' = [adder EXCEPT ![c] = [pc |-> "adding", url |-> url]]
      /\ commands' = commands + 1 /\ commands < MaxCommands
      /\ UNCHANGED <<media, running, mixed, stuck>>
  BY DEF Add, Command
<1>2. /\ AdderType' /\ adder'[c].pc = "adding" /\ adder'[c].url = url
      /\ \A d \in Client : d # c => adder'[d] = adder[d]
  BY <1>1 DEF AdderType, AdderRecords
<1>3. /\ ThreadType' /\ Held' /\ missed' \in BOOLEAN
      /\ reader'.pc \in {"wait", "asleep"} => missed'
      /\ \A t \in Thread : \/ thread'[t] = thread[t]
                          \/ /\ thread'[t].pc \notin {"collect", "finish"}
                             /\ thread[t].entry = 0
  BY <1>1, SignalValue DEF Thread
<1>4. commands' \in 0..MaxCommands
  BY <1>1, CommandsAssumption DEF FlagType
<1>5. Types'
  BY <1>1, <1>2, <1>3, <1>4 DEF MediaType, HistoryType, FlagType
<1>6. Adding'
  BY <1>1, <1>2, <1>3, NoAdder, NextSame DEF Adding
<1>7. Awake'
  BY <1>3 DEF Awake
<1>8. Own'
  BY <1>1, <1>3, OwnKept
<1> QED
  BY <1>3, <1>5, <1>6, <1>7, <1>8

\* The new entry takes an id under which a thread may hold an older one; such
\* an entry counts as mixed.
LEMMA AddCommitStep ==
  ASSUME IInv, NEW c \in Client, AddCommit(c)
  PROVE  IInv'
<1> USE DEF IInv, Types
<1> DEFINE n == NextId
<1>1. /\ adder[c].pc = "adding" /\ writer' = "none"
      /\ media' = Inserted(adder[c].url)
      /\ adder' = [adder EXCEPT ![c] = Ready] /\ StillStuck
      /\ UNCHANGED <<running, thread, commands, missed>>
  BY DEF AddCommit
<1>2. /\ n \in Id /\ writer = c /\ adder[c].url \in Url
      /\ reader.pc \in {"wait", "asleep"} => missed
  BY <1>1 DEF Adding
<1>3. /\ \A t \in Thread : thread[t].entry = n => n \in mixed'
      /\ mixed' \subseteq Id
      /\ \A j \in Id : j # n => (j \in mixed' <=> j \in mixed)
  <2>1. mixed' = IF \E t \in Thread : thread[t].entry = n
                 THEN mixed \cup {n} ELSE mixed \ {n}
    BY DEF AddCommit
  <2> HIDE DEF n
  <2>2. CASE \E t \in Thread : thread[t].entry = n
    BY <1>2, <2>1, <2>2 DEF HistoryType
  <2>3. CASE ~ \E t \in Thread : thread[t].entry = n
    BY <1>2, <2>1, <2>3 DEF HistoryType
  <2> QED
    BY <2>2, <2>3
<1>4. /\ MediaType'
      /\ \A j \in Id : j # n => media'[j] = media[j]
      /\ media'[n].status = "NEW"
  <2> DEFINE m == Inserted(adder[c].url)
  <2>1. /\ m \in [Id -> Entries]
        /\ \A j \in Id : j # n => m[j] = media[j]
        /\ m[n] = [url |-> adder[c].url, status |-> "NEW", info |-> Nothing]
    BY <1>2, InsertedValue, Zenon
  <2> HIDE DEF n, m
  <2>2. media' = m
    BY <1>1 DEF m
  <2> QED
    BY <2>1, <2>2 DEF MediaType
<1> HIDE DEF n
<1>5. /\ AdderType' /\ adder'[c].pc = "idle"
      /\ \A d \in Client : d # c => adder'[d] = adder[d]
  BY <1>1 DEF AdderType, AdderRecords, Ready
<1>6. ThreadType' /\ Held'
  BY <1>1 DEF ThreadType, Held
<1>7. HistoryType'
  BY <1>1, <1>3 DEF HistoryType, StillStuck
<1>8. Types'
  BY <1>1, <1>4, <1>5, <1>6, <1>7 DEF FlagType
<1>9. \A d \in Client : adder'[d].pc # "adding"
  BY <1>2, <1>5 DEF Adding
<1>10. Adding' /\ Awake'
  BY <1>1, <1>2, <1>9 DEF Adding, Awake, reader
<1>11. Own'
  <2>1. Resolving'
    BY <1>1, <1>4 DEF Own, Resolving, reader, StillStuck
  <2>2. OkOwn'
    BY <1>3, <1>4 DEF Own, OkOwn
  <2>3. CollectOwn'
    BY <1>1, <1>3, <1>4 DEF Own, CollectOwn
  <2>4. FinishOwn'
    BY <1>1, <1>3, <1>4 DEF Own, FinishOwn, reader, Thread
  <2> QED
    BY <2>1, <2>2, <2>3, <2>4 DEF Own
<1> QED
  BY <1>6, <1>8, <1>10, <1>11

LEMMA RemoveStep ==
  ASSUME IInv, NEW i \in Id, RemoveEntry(i), UNCHANGED writer
  PROVE  IInv'
<1> USE DEF IInv, Types
<1>1. /\ Free /\ StillStuck /\ media' = Deleted(i)
      /\ commands < MaxCommands /\ commands' = commands + 1
      /\ UNCHANGED <<running, thread, adder, missed, mixed, writer>>
  BY DEF RemoveEntry, Command
<1>2. /\ MediaType' /\ media'[i] = Gone
      /\ \A j \in Id : j # i => media'[j] = media[j]
  BY <1>1, DeletedValue DEF MediaType
<1>3. commands' \in 0..MaxCommands
  BY <1>1, CommandsAssumption DEF FlagType
<1>4. Types'
  BY <1>1, <1>2, <1>3
     DEF ThreadType, AdderType, HistoryType, FlagType, StillStuck
<1>5. Held' /\ Adding'
  BY <1>1, NoAdder DEF Held, Adding
<1>6. Awake'
  BY <1>1, <1>2, GoneIsNone DEF Awake, reader
<1>7. Own'
  BY <1>1, <1>2, GoneIsNone
     DEF Own, Resolving, OkOwn, CollectOwn, FinishOwn, reader, StillStuck
<1> QED
  BY <1>4, <1>5, <1>6, <1>7

LEMMA RehashStep ==
  ASSUME IInv, NEW c \in Client, NEW S \in SUBSET Id, Rehash(c, S),
         UNCHANGED writer
  PROVE  IInv'
<1> USE DEF IInv, Types
<1> DEFINE r == [pc |-> "rehashed", url |-> Nothing]
<1>1. /\ Free /\ StillStuck
      /\ adder' = [adder EXCEPT ![c] = r]
      /\ commands < MaxCommands /\ commands' = commands + 1
      /\ UNCHANGED <<running, thread, missed, mixed, writer>>
  BY DEF Rehash, Command
<1>2. /\ MediaType'
      /\ \A i \in Id :
           \/ media'[i] = media[i]
           \/ /\ media[i] # Gone /\ media'[i].status = "REHASH"
              /\ media'[i].url = media[i].url /\ media'[i].info = media[i].info
  <2>1. ASSUME NEW i \in Id, media[i] # Gone
        PROVE  /\ [media[i] EXCEPT !.status = "REHASH"] \in Entries
               /\ [media[i] EXCEPT !.status = "REHASH"].status = "REHASH"
               /\ [media[i] EXCEPT !.status = "REHASH"].url = media[i].url
               /\ [media[i] EXCEPT !.status = "REHASH"].info = media[i].info
    <3>1. media[i] \in Records
      BY <2>1 DEF MediaType, Entries, Records
    <3> QED
      BY <3>1 DEF Records, Entries, Status
  <2>2. media' = [i \in Id |-> IF i \in S \cap Present
                              THEN [media[i] EXCEPT !.status = "REHASH"]
                              ELSE media[i]]
    BY DEF Rehash
  <2>3. \A i \in Id : /\ media[i] \in Entries
                      /\ i \in Present <=> media[i] # Gone
    BY DEF MediaType, Present
  <2> DEFINE m(i) == [media[i] EXCEPT !.status = "REHASH"]
  <2> HIDE DEF m
  <2>4. \A i \in Id :
          /\ media'[i] \in Entries
          /\ media'[i] = media[i] \/ (media[i] # Gone /\ media'[i] = m(i))
    BY <2>1, <2>2, <2>3 DEF m
  <2>5. MediaType'
    BY <2>2, <2>4 DEF MediaType
  <2> QED
    BY <2>1, <2>4, <2>5 DEF m
<1>3. commands' \in 0..MaxCommands
  BY <1>1, CommandsAssumption DEF FlagType
<1>4. /\ AdderType' /\ adder'[c].pc = "rehashed"
      /\ \A d \in Client : d # c => adder'[d] = adder[d]
  BY <1>1 DEF AdderType, AdderRecords
<1>5. Types'
  BY <1>1, <1>2, <1>3, <1>4 DEF ThreadType, HistoryType, FlagType, StillStuck
<1>6. Held' /\ Adding'
  BY <1>1, <1>4, NoAdder DEF Held, Adding
<1>7. Awake'
  BY <1>4 DEF Awake
<1>8. Own'
  BY <1>1, <1>2
     DEF Own, Resolving, OkOwn, CollectOwn, FinishOwn, reader, StillStuck
<1> QED
  BY <1>5, <1>6, <1>7, <1>8

LEMMA RehashSignalStep ==
  ASSUME IInv, NEW c \in Client, RehashSignal(c), UNCHANGED writer
  PROVE  IInv'
<1> USE DEF IInv, Types
<1>1. /\ Signal /\ adder[c].pc = "rehashed"
      /\ adder' = [adder EXCEPT ![c] = Ready]
      /\ UNCHANGED <<media, running, commands, mixed, stuck, writer>>
  BY DEF RehashSignal
<1>2. /\ AdderType' /\ adder'[c].pc = "idle"
      /\ \A d \in Client : d # c => adder'[d] = adder[d]
  BY <1>1 DEF AdderType, AdderRecords, Ready
<1>3. /\ ThreadType' /\ Held' /\ missed' \in BOOLEAN
      /\ reader'.pc \in {"wait", "asleep"} => missed'
      /\ \A t \in Thread : \/ thread'[t] = thread[t]
                          \/ /\ thread'[t].pc \notin {"collect", "finish"}
                             /\ thread[t].entry = 0
  BY <1>1, SignalValue DEF Thread
<1>4. Types'
  BY <1>1, <1>2, <1>3 DEF MediaType, HistoryType, FlagType
<1>5. Adding'
  BY <1>1, <1>2, <1>3, NextSame DEF Adding
<1>6. Awake'
  BY <1>3 DEF Awake
<1>7. Own'
  BY <1>1, <1>3, OwnKept
<1> QED
  BY <1>3, <1>4, <1>5, <1>6, <1>7

LEMMA IdlistStep ==
  ASSUME IInv, NEW url \in Url, IdlistFromPlaylist(url), UNCHANGED writer
  PROVE  IInv'
<1> USE DEF IInv, Types
<1>1. /\ Free /\ StillStuck /\ media' = MetadataCollected(1, url)
      /\ mixed' = mixed \cup {1}
      /\ commands < MaxCommands /\ commands' = commands + 1
      /\ UNCHANGED <<running, thread, adder, missed, writer>>
  BY DEF IdlistFromPlaylist, Command
<1>2. 1 \in Id
  BY IdAssumption DEF Id
<1>3. /\ MediaType'
      /\ \A j \in Id : j # 1 => media'[j] = media[j]
      /\ media'[1].status \notin {"RESOLVING", "NEW", "REHASH"}
  BY <1>1, <1>2, MetadataCollectedValue, GoneIsNone DEF MediaType
<1>4. commands' \in 0..MaxCommands
  BY <1>1, CommandsAssumption DEF FlagType
<1>5. Types'
  BY <1>1, <1>2, <1>3, <1>4
     DEF ThreadType, AdderType, HistoryType, FlagType, StillStuck
<1>6. Held' /\ Adding'
  BY <1>1, NoAdder DEF Held, Adding
<1>7. Awake'
  BY <1>1, <1>3 DEF Awake, reader
<1>8. Own'
  BY <1>1, <1>3
     DEF Own, Resolving, OkOwn, CollectOwn, FinishOwn, reader, StillStuck
<1> QED
  BY <1>5, <1>6, <1>7, <1>8

-----------------------------------------------------------------------------
(***************************************************************************)
(* The end of the reader and of the server.                                *)
(***************************************************************************)

LEMMA StopStep ==
  ASSUME IInv, StopReader
  PROVE  IInv'
<1> USE DEF IInv, Types
<1>1. UNCHANGED <<media, writer, adder, commands, mixed, stuck>>
  BY DEF StopReader
<1>2. running' \in BOOLEAN /\ missed' \in BOOLEAN /\ (missed => missed')
  BY Zenon DEF StopReader, FlagType
<1>3. /\ ThreadType' /\ Held'
      /\ \A t \in Thread : \/ thread'[t] = thread[t]
                          \/ /\ thread'[t].pc = "test" /\ t = "reader"
                             /\ thread[t].entry = 0
  <2>1. CASE reader.pc = "asleep"
    <3>1. Goes("reader", "test")
      BY <2>1 DEF StopReader, Goes
    <3>2. thread["reader"].entry = 0
      BY <2>1 DEF Held, reader, Thread, Busy
    <3> QED
      BY <3>1, <3>2, GoesValue DEF Thread, Pc, Busy
  <2>2. CASE reader.pc # "asleep"
    BY <2>2 DEF StopReader, ThreadType, Held
  <2> QED
    BY <2>1, <2>2
<1>4. Types'
  BY <1>1, <1>2, <1>3 DEF MediaType, AdderType, HistoryType, FlagType
<1>5. Adding' /\ Awake'
  BY <1>1, <1>2, <1>3, NextSame DEF Adding, Awake, reader, Thread
<1>6. Own'
  BY <1>1, <1>3, OwnKept
<1> QED
  BY <1>3, <1>4, <1>5, <1>6

LEMMA RestartStep ==
  ASSUME IInv, Restart
  PROVE  IInv'
<1> USE DEF IInv, Types
<1>1. /\ thread' = [reader |-> At("test"), filler |-> At("idle")]
      /\ adder' = [c \in Client |-> Ready]
      /\ writer' = "none"
      /\ stuck' = {i \in Id : media[i].status = "RESOLVING"}
      /\ commands < MaxCommands /\ commands' = commands + 1
      /\ UNCHANGED <<media, mixed>>
  BY DEF Restart, Fresh, NobodyAdds
<1>2. running' \in BOOLEAN /\ missed' \in BOOLEAN
  BY Zenon DEF Restart
<1>3. At("test") \in ThreadRecords /\ At("idle") \in ThreadRecords
  BY AtType DEF Pc
<1>4. /\ ThreadType'
      /\ thread'["reader"] = At("test") /\ thread'["filler"] = At("idle")
  BY <1>1, <1>3 DEF ThreadType, Thread
<1>5. AdderType' /\ \A c \in Client : adder'[c].pc = "idle"
  BY <1>1 DEF AdderType, AdderRecords, Ready
<1>6. commands' \in 0..MaxCommands
  BY <1>1, CommandsAssumption DEF FlagType
<1>7. Types'
  BY <1>1, <1>2, <1>4, <1>5, <1>6 DEF MediaType, HistoryType, FlagType
<1>8. Held'
  BY <1>4, AtType DEF Held, Thread, Pc, Busy
<1>9. Adding' /\ Awake'
  BY <1>4, <1>5, AtType DEF Adding, Awake, reader, Pc
<1>10. Own'
  BY <1>1, <1>4, AtType
     DEF Own, Resolving, OkOwn, CollectOwn, FinishOwn, reader, Thread, Pc
<1> QED
  BY <1>7, <1>8, <1>9, <1>10

LEMMA StutterStep ==
  ASSUME IInv, UNCHANGED vars
  PROVE  IInv'
<1> USE DEF vars, IInv
<1>1. Types'
  BY DEF Types, MediaType, ThreadType, AdderType, HistoryType, FlagType
<1>2. Held' /\ Awake'
  BY DEF Held, Awake, reader
<1>3. Adding'
  BY NextSame DEF Adding, reader
<1>4. Own'
  BY DEF Own, Resolving, OkOwn, CollectOwn, FinishOwn, reader
<1> QED
  BY <1>1, <1>2, <1>3, <1>4

LEMMA Step == IInv /\ [Next]_vars => IInv'
<1> SUFFICES ASSUME IInv, [Next]_vars PROVE IInv'
  OBVIOUS
<1>1. CASE ReaderStep
  <2>1. UNCHANGED writer
    BY <1>1 DEF ReaderStep
  <2>2. "reader" \in Thread
    BY DEF Thread
  <2> QED
    BY <1>1, <2>1, <2>2, IdleSteps, PickStep, ReaderEnds, SetUpStep, CollectStep
       DEF ReaderStep
<1>2. CASE FillerStep
  <2>1. UNCHANGED writer
    BY <1>2 DEF FillerStep
  <2>2. "filler" \in Thread
    BY DEF Thread
  <2> QED
    BY <1>2, <2>1, <2>2, SetUpStep, CollectStep, FillerEnds DEF FillerStep
<1>3. CASE ClientCommand
  <2>1. ASSUME NEW c \in Client, NEW url \in Url, Add(c, url) PROVE IInv'
    BY <2>1, AddStep
  <2>2. ASSUME NEW i \in Id, RemoveEntry(i) \/ Play(i), UNCHANGED writer
        PROVE  IInv'
    BY <2>2, RemoveStep, PlayStep
  <2>3. ASSUME NEW c \in Client, NEW S \in SUBSET Id, Rehash(c, S),
               UNCHANGED writer
        PROVE  IInv'
    BY <2>3, RehashStep
  <2>4. ASSUME NEW url \in Url, IdlistFromPlaylist(url), UNCHANGED writer
        PROVE  IInv'
    BY <2>4, IdlistStep
  <2>5. /\ Id \in SUBSET Id
        /\ \A i \in Id : {i} \in SUBSET Id
    OBVIOUS
  <2> QED
    BY <1>3, <2>1, <2>2, <2>3, <2>4, <2>5 DEF ClientCommand
<1>4. ASSUME NEW c \in Client, ClientEnds(c) PROVE IInv'
  BY <1>4, AddCommitStep, RehashSignalStep DEF ClientEnds
<1>5. CASE StopReader \/ Restart
  BY <1>5, StopStep, RestartStep
<1>6. CASE UNCHANGED vars
  BY <1>6, StutterStep
<1> QED
  BY <1>1, <1>2, <1>3, <1>4, <1>5, <1>6 DEF Next

-----------------------------------------------------------------------------
LEMMA Inductive == Spec => []IInv
<1> QED
  BY InitIInv, Step, PTL DEF Spec

\* The signal sent before the commit of a new entry is enough, because the
\* reader cannot look while the transaction is open.
THEOREM SignalBeforeCommit == Spec => []ReaderAwake
<1>1. IInv => ReaderAwake
  BY IInvImplies
<1> QED
  BY <1>1, Inductive, PTL

\* No entry is left RESOLVING by the reader or shows what was read for another
\* url, except where an id is used again, a playlist file is read, or the
\* server crashed.
THEOREM EntriesKeepTheirOwn == Spec => []InfoIsOwn
<1>1. IInv => InfoIsOwn
  BY IInvImplies
<1> QED
  BY <1>1, Inductive, PTL
=============================================================================
