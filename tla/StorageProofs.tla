--------------------------- MODULE StorageProofs ---------------------------
(***************************************************************************)
(* What is on disk, when the server stops, crashes and starts again: the   *)
(* collections (CollSync) and the configuration (Config), for any number   *)
(* of threads, changes and restarts, and, of the configuration, any names. *)
(*                                                                         *)
(* No change of the collections is forgotten while the server runs, and a  *)
(* server that stops leaves the last of them in the database.              *)
(*                                                                         *)
(* The configuration comes back after a crash if the last save was not     *)
(* disturbed and the file can hold it.  This takes two arguments.  One is  *)
(* about the text: while no key continues another one, the sections that   *)
(* are open between two keys are those of the first (InSections), whatever *)
(* the order of the keys, and so every line is read as the key it was      *)
(* written for; if keys do continue others, the sections that are open are *)
(* still fewer than the names of the key before (IsWriting), because a key *)
(* comes before those that continue it.  The other is about the threads:   *)
(* between the saves, the file, or the buffer of the one thread that has   *)
(* it open, holds the tree (LastSave); it lacks a key that is still to be  *)
(* inserted, but this one comes with its default.                          *)
(***************************************************************************)
EXTENDS CollSync, Config, WellFoundedInduction, SequenceTheorems, TLAPS

-----------------------------------------------------------------------------
(***************************************************************************)
(* What SyncNotLost and StoppedSaved need to be inductive: what a save     *)
(* reads, and who may still run while the server stops.                    *)
(***************************************************************************)

Forgotten == main = "running" /\ saved # dag

ReadAsItIs ==
  (sync = "saving" \/ main = "writing") /\ ~touched => snapshot = dag

\* A change made since the save in progress began will be asked for, even if
\* the save has it.
AskedSince ==
  sync = "saving" /\ touched =>
    want_sync \/ \E e \in Editor : editor[e] # "none"

Told == keep_running <=> main \in {"starting", "running"}

EndedIfTold == sync = "ended" => ~keep_running

JoinedFirst == main \in {"writing", "stopped"} => sync = "ended"

SyncInv ==
  /\ SyncNotLost /\ StoppedSaved
  /\ ReadAsItIs /\ AskedSince /\ Told /\ EndedIfTold /\ JoinedFirst

EditorType == editor \in [Editor -> Mutexes \cup {"none"}]

\* TypeOK but for the editors
PlainType ==
  /\ dag \in Version /\ saved \in Version /\ snapshot \in Version
  /\ touched \in BOOLEAN
  /\ want_sync \in BOOLEAN /\ keep_running \in BOOLEAN
  /\ sync \in SyncStates /\ main \in MainStates
  /\ edits \in 0..MaxEdits /\ runs \in 0..MaxRuns

LEMMA SyncTypeParts == SyncTypeOK <=> EditorType /\ PlainType
BY Zenon DEF SyncTypeOK, EditorType, PlainType

LEMMA SyncTypePartsNext == SyncTypeOK' <=> EditorType' /\ PlainType'
BY Zenon DEF SyncTypeOK, EditorType, PlainType

LEMMA SyncInitInv == SyncInit => SyncInv
<1> SUFFICES ASSUME SyncInit PROVE SyncInv
  OBVIOUS
<1>1. EditorType
  BY Zenon DEF SyncInit, EditorType
<1>2. /\ dag = 0 /\ saved = 0 /\ snapshot = 0 /\ edits = 0 /\ runs = 0
      /\ touched = FALSE /\ want_sync = FALSE /\ keep_running = TRUE
      /\ sync = "loop" /\ main = "starting"
  BY Zenon DEF SyncInit, NoCollections
<1>3. touched \in BOOLEAN /\ want_sync \in BOOLEAN /\ keep_running \in BOOLEAN
  BY <1>2, Zenon
<1>4. PlainType
  BY <1>2, <1>3, EditsAssumption, RunsAssumption
     DEF PlainType, Version, Torn, SyncStates, MainStates
<1> QED
  BY <1>1, <1>2, <1>4, SyncTypeParts
     DEF SyncInv, SyncNotLost, StoppedSaved, ReadAsItIs, AskedSince, Told, EndedIfTold,
         JoinedFirst

\* Every step keeps the types.
LEMMA SyncTypeStep == SyncTypeOK /\ [SyncNext]_sync_vars => SyncTypeOK'
<1> SUFFICES ASSUME SyncTypeOK, [SyncNext]_sync_vars PROVE EditorType' /\ PlainType'
  BY SyncTypePartsNext
<1>1. EditorType /\ PlainType
  BY SyncTypeParts
<1>2. CASE SyncStep
  <2>1. EditorType'
    BY <1>1, <1>2 DEF EditorType, SyncStep, Loop, Wakeup, Debounce, Unlock,
                      SaveBegin, SaveEnd, SyncGoes
  <2>2. PlainType'
    BY <1>1, <1>2 DEF PlainType, SyncStates, SyncStep, Loop, Wakeup, Debounce,
                      Unlock, SaveBegin, SaveEnd, SyncGoes, Committed, Version
  <2> QED BY <2>1, <2>2
<1>3. CASE MainStep
  <2>1. EditorType'
    BY <1>1, <1>3 DEF EditorType, MainStep, Restore, LastSaveBegin, LastSaveEnd
  <2>2. PlainType'
    BY <1>1, <1>3 DEF PlainType, MainStates, MainStep, Restore, LastSaveBegin,
                      LastSaveEnd, Committed, Version
  <2> QED BY <2>1, <2>2
<1>4. CASE StopSync
  BY <1>1, <1>4 DEF EditorType, PlainType, MainStates, SyncStates, StopSync,
                    Woken
<1>5. CASE StartServer
  <2>1. EditorType'
    BY <1>5, Zenon DEF StartServer, EditorType
  <2>2. /\ runs < MaxRuns /\ runs' = runs + 1
        /\ dag' = 0 /\ saved' = saved /\ snapshot' = snapshot
        /\ edits' = edits
        /\ touched' = FALSE /\ want_sync' = FALSE /\ keep_running' = TRUE
        /\ sync' = "loop" /\ main' = "starting"
    BY <1>5, Zenon DEF StartServer, NoCollections
  <2>3. /\ touched' \in BOOLEAN /\ want_sync' \in BOOLEAN
        /\ keep_running' \in BOOLEAN
    BY <2>2, Zenon
  <2>4. PlainType'
    BY <1>1, <2>2, <2>3, EditsAssumption, RunsAssumption
       DEF PlainType, Version, MainStates, SyncStates
  <2> QED BY <2>1, <2>4
<1>6. ASSUME NEW e \in Editor, Schedule(e)
      PROVE  EditorType' /\ PlainType'
  <2>1. EditorType'
    BY <1>1, <1>6 DEF EditorType, Schedule
  <2>2. PlainType'
    BY <1>1, <1>6 DEF PlainType, SyncStates, Schedule, Woken
  <2> QED BY <2>1, <2>2
<1>7. ASSUME NEW e \in Editor, NEW m \in Mutexes, Edit(e, m)
      PROVE  EditorType' /\ PlainType'
  <2>1. EditorType'
    BY <1>1, <1>7 DEF EditorType, Edit
  <2>2. PlainType'
    BY <1>1, <1>7, EditsAssumption DEF PlainType, Version, Edit
  <2> QED BY <2>1, <2>2
<1>8. CASE UNCHANGED sync_vars
  BY <1>1, <1>8 DEF sync_vars, EditorType, PlainType
<1> QED
  BY <1>2, <1>3, <1>4, <1>5, <1>6, <1>7, <1>8 DEF SyncNext

-----------------------------------------------------------------------------
(***************************************************************************)
(* The steps, without the types.                                           *)
(***************************************************************************)

NotLost == Forgotten => Scheduled

SyncRest ==
  /\ NotLost /\ StoppedSaved /\ ReadAsItIs /\ AskedSince
  /\ Told /\ EndedIfTold /\ JoinedFirst

LEMMA SyncParts == SyncInv <=> SyncTypeOK /\ SyncRest
BY Zenon DEF SyncInv, SyncRest, NotLost, Forgotten, SyncNotLost

LEMMA SyncPartsNext == SyncInv' <=> SyncTypeOK' /\ SyncRest'
BY Zenon DEF SyncInv, SyncRest, NotLost, Forgotten, SyncNotLost

LEMMA EditStep ==
  ASSUME SyncTypeOK, SyncRest, NEW e \in Editor, NEW m \in Mutexes, Edit(e, m)
  PROVE  SyncRest'
<1>1. editor' = [editor EXCEPT ![e] = m] /\ touched'
  BY DEF Edit
<1>2. editor'[e] # "none"
  BY <1>1, SyncTypeParts DEF EditorType, Mutexes
<1>3. Scheduled' /\ AskedSince'
  BY <1>2 DEF Scheduled, AskedSince
<1>4. UNCHANGED <<keep_running, sync, main>> /\ main # "stopped"
  BY DEF Edit
<1> QED
  BY <1>1, <1>3, <1>4 DEF SyncRest, NotLost, StoppedSaved, ReadAsItIs, AskedSince, Told,
                          EndedIfTold, JoinedFirst

LEMMA ScheduleStep ==
  ASSUME SyncTypeOK, SyncRest, NEW e \in Editor, Schedule(e)
  PROVE  SyncRest'
<1>1. want_sync' /\ UNCHANGED <<dag, saved, snapshot, touched, keep_running, main>>
  BY DEF Schedule
<1>2. sync' = sync \/ (sync \in {"asleep", "debounce"} /\ sync' = "woken")
  BY DEF Schedule, Woken
<1>3. Scheduled'
  BY <1>1 DEF Scheduled
<1> QED
  BY <1>1, <1>2, <1>3 DEF SyncRest, NotLost, StoppedSaved, ReadAsItIs, AskedSince, Told,
                          EndedIfTold, JoinedFirst

\* The thread's steps: it sleeps or comes back to its mutex only when nothing
\* is forgotten, and what it writes are the collections as they were read.
LEMMA SyncStepRest ==
  ASSUME SyncTypeOK, SyncRest, SyncStep
  PROVE  SyncRest'
<1> USE DEF SyncRest, NotLost, Forgotten, StoppedSaved, ReadAsItIs, AskedSince, Told,
            EndedIfTold, JoinedFirst
<1>1. CASE Loop
  BY <1>1 DEF Loop, SyncGoes, Scheduled
<1>2. CASE Wakeup
  BY <1>2 DEF Wakeup, SyncGoes, Scheduled
<1>3. CASE Debounce
  BY <1>3 DEF Debounce, SyncGoes, Scheduled
<1>4. CASE Unlock
  BY <1>4 DEF Unlock, SyncGoes, Scheduled
<1>5. CASE SaveBegin
  BY <1>5 DEF SaveBegin, Scheduled
<1>6. CASE SaveEnd
  BY <1>6 DEF SaveEnd, Committed, Scheduled
<1> QED
  BY <1>1, <1>2, <1>3, <1>4, <1>5, <1>6 DEF SyncStep

LEMMA MainStepRest ==
  ASSUME SyncTypeOK, SyncRest, MainStep \/ StopSync \/ StartServer
  PROVE  SyncRest'
<1> USE DEF SyncRest, NotLost, Forgotten, StoppedSaved, ReadAsItIs, AskedSince, Told,
            EndedIfTold, JoinedFirst
<1>1. CASE Restore
  BY <1>1 DEF Restore
<1>2. CASE LastSaveBegin
  BY <1>2 DEF LastSaveBegin
<1>3. CASE LastSaveEnd
  BY <1>3 DEF LastSaveEnd, Committed
<1>4. CASE StopSync
  BY <1>4 DEF StopSync, Woken, Holding
<1>5. CASE StartServer
  BY <1>5 DEF StartServer
<1> QED
  BY <1>1, <1>2, <1>3, <1>4, <1>5 DEF MainStep

LEMMA SyncStepInv == SyncInv /\ [SyncNext]_sync_vars => SyncInv'
<1> SUFFICES ASSUME SyncInv, [SyncNext]_sync_vars PROVE SyncInv'
  OBVIOUS
<1>1. SyncTypeOK /\ SyncRest
  BY SyncParts
<1>2. SyncTypeOK'
  BY <1>1, SyncTypeStep
<1>3. SyncRest'
  <2>1. CASE SyncStep
    BY <1>1, <2>1, SyncStepRest
  <2>2. CASE MainStep \/ StopSync \/ StartServer
    BY <1>1, <2>2, MainStepRest
  <2>3. ASSUME NEW e \in Editor, Schedule(e) PROVE SyncRest'
    BY <1>1, <2>3, ScheduleStep
  <2>4. ASSUME NEW e \in Editor, NEW m \in Mutexes, Edit(e, m) PROVE SyncRest'
    BY <1>1, <2>4, EditStep
  <2>5. CASE UNCHANGED sync_vars
    BY <1>1, <2>5 DEF sync_vars, SyncRest, NotLost, Forgotten, Scheduled, StoppedSaved,
                      ReadAsItIs, AskedSince, Told, EndedIfTold, JoinedFirst
  <2> QED
    BY <2>1, <2>2, <2>3, <2>4, <2>5 DEF SyncNext
<1> QED
  BY <1>2, <1>3, SyncPartsNext

-----------------------------------------------------------------------------
LEMMA SyncInductive == SyncSpec => []SyncInv
<1> QED
  BY SyncInitInv, SyncStepInv, PTL DEF SyncSpec

\* No interleaving of editors, the thread of collsync.c and restarts makes a
\* running server forget a change.
THEOREM ChangesScheduled == SyncSpec => []SyncNotLost
<1>1. SyncInv => SyncNotLost
  BY DEF SyncInv
<1> QED
  BY <1>1, SyncInductive, PTL

\* The last save of a server that stops is of all changes that came before it:
\* the thread, whose save would be older, is gone.
THEOREM NothingLostAtTheEnd == SyncSpec => []StoppedSaved
<1>1. SyncInv => StoppedSaved
  BY DEF SyncInv
<1> QED
  BY <1>1, SyncInductive, PTL

-----------------------------------------------------------------------------
(***************************************************************************)
(* What CrashLosesNothing needs to be inductive.                           *)
(***************************************************************************)

\* What the file cannot hold of t.
UnwritableIn(t) ==
  \/ \E k \in DOMAIN t : t[k] = Markup
  \/ \E j, k \in DOMAIN t : j # k /\ IsPrefix(j, k)

\* A server that is started from f has every value of t again, and no key that
\* t has not: one that is being registered still comes with its default.
Recovers(t, f) ==
  /\ \A k \in DOMAIN t :
       (IF k \in DOMAIN Load(f) THEN Load(f)[k] ELSE Default)
         = IF t[k] = Empty THEN Default ELSE t[k]
  /\ DOMAIN Load(f) \subseteq DOMAIN t

Good(t, f) == ~UnwritableIn(t) => Recovers(t, f)

\* The mutex: one key at a time is registered, and nobody else brings it.
NewKeys ==
  /\ \A t \in Thread : saver[t].new # <<>> => saver[t].new \notin DOMAIN tree
  /\ \A t, u \in Thread : saver[t].new # <<>> /\ saver[u].new # <<>> => t = u

\* Who is going to write the tree as it is now, or as it will be.
Pending == \E t \in Thread : saver[t].at \in {"save", "opened"}

OneOpen == \A t, u \in Thread : HasOpen(t) /\ HasOpen(u) => t = u

\* The tree as it is is in the file, or in the buffer of the one who has the
\* file open.
LastSave ==
  /\ (\A t \in Thread : ~HasOpen(t)) => Good(tree, file)
  /\ \A t \in Thread : saver[t].at = "dumped" => Good(tree, saver[t].text)

ConfigInv ==
  /\ TypeOK /\ NewKeys
  /\ ~astray => OneOpen
  /\ ~astray /\ ~Pending => LastSave

-----------------------------------------------------------------------------
\* Induction over the natural numbers is by the least counterexample.
LEMMA OrderOfNat ==
  \E R : /\ IsWellFoundedOn(R, Nat)
         /\ \A k, m \in Nat : k < m => <<k, m>> \in R
<1>1. \A k, m \in Nat : k < m => <<k, m>> \in OpToRel(<, Nat)
  BY DEF OpToRel
<1> QED
  BY <1>1, NatLessThanWellFounded, ZenonT(30)

\* A set of natural numbers has a least element.
LEMMA Least ==
  ASSUME NEW S, S \subseteq Nat, S # {}
  PROVE  \E m \in S : \A k \in S : m <= k
<1>1. PICK R : /\ IsWellFoundedOn(R, Nat)
               /\ \A k, m \in Nat : k < m => <<k, m>> \in R
  BY OrderOfNat
<1>2. PICK m \in S : \A k \in S : ~(<<k, m>> \in R)
  <2>1. IsWellFoundedOn(R, Nat)
    BY <1>1
  <2> QED
    BY <2>1, WFMin
<1>3. ASSUME NEW k \in S PROVE m <= k
  <2>1. k \in Nat /\ m \in Nat
    OBVIOUS
  <2>2. ~(k < m)
    BY <1>1, <1>2, <2>1
  <2> QED
    BY <2>1, <2>2
<1> QED
  BY <1>3

\* One that holds 0 and what follows a member is all of them.
LEMMA ByInduction ==
  ASSUME NEW P, P \subseteq Nat, 0 \in P, \A k \in P : k + 1 \in P
  PROVE  P = Nat
<1> SUFFICES ASSUME Nat \ P # {} PROVE FALSE
  OBVIOUS
<1> DEFINE S == Nat \ P
<1>1. S \subseteq Nat /\ S # {}
  OBVIOUS
<1> HIDE DEF S
<1>2. PICK m \in S : \A k \in S : m <= k
  BY <1>1, Least
<1>3. m \in Nat /\ m \notin P /\ m # 0
  BY <1>2 DEF S
<1>4. m - 1 \in Nat /\ ~(m <= m - 1) /\ (m - 1) + 1 = m
  BY <1>3
<1>5. m - 1 \in P
  BY <1>2, <1>4 DEF S
<1> QED
  BY <1>3, <1>4, <1>5

\* The greatest member of a set of natural numbers that is not empty.
LEMMA Greatest ==
  ASSUME NEW n \in Nat, NEW S, S \subseteq 0..n, S # {}
  PROVE  Max(S) \in S /\ \A k \in S : Max(S) >= k
<1> DEFINE R == {m \in Nat : \E k \in S : m = n - k}
<1>1. R \subseteq Nat /\ R # {}
  <2>1. PICK k \in S : TRUE
    OBVIOUS
  <2>2. n - k \in Nat
    BY <2>1
  <2> QED
    BY <2>1, <2>2
<1> HIDE DEF R
<1>2. PICK m \in R : \A j \in R : m <= j
  BY <1>1, Least
<1>3. PICK k \in S : m = n - k
  BY <1>2 DEF R
<1>4. ASSUME NEW j \in S PROVE k >= j
  <2>1. n - j \in Nat /\ n - j \in R
    BY DEF R
  <2>2. m <= n - j
    BY <1>2, <2>1
  <2>3. k \in 0..n /\ j \in 0..n
    OBVIOUS
  <2> QED
    BY <1>3, <2>2, <2>3
<1>5. \E x \in S : \A y \in S : x >= y
  BY <1>4
<1> QED
  BY <1>5 DEF Max

-----------------------------------------------------------------------------
(***************************************************************************)
(* Keys, and what two of them have in common.                              *)
(***************************************************************************)

LEMMA KeyIs ==
  \A k : k \in Key <=> k \in Seq(Name) /\ Len(k) \in 1..MaxNames
<1> USE NamesAssumption DEF NamesAssumption
<1>1. ASSUME NEW k \in Key
      PROVE  k \in Seq(Name) /\ Len(k) \in 1..MaxNames
  <2>1. k # <<>>
    BY Zenon DEF Key
  <2>2. PICK m \in 0..MaxNames : k \in [1..m -> Name]
    BY Zenon DEF Key, BoundedSeq, SeqOf
  <2>3. k \in Seq(Name) /\ Len(k) = m
    BY <2>2
  <2>4. Len(k) # 0
    BY <2>1, <2>3, EmptySeq
  <2> QED
    BY <2>3, <2>4
<1>2. ASSUME NEW k \in Seq(Name), Len(k) \in 1..MaxNames
      PROVE  k \in Key
  <2>1. k # <<>>
    BY <1>2, EmptySeq
  <2>2. k \in [1..Len(k) -> Name] /\ Len(k) \in 0..MaxNames
    BY <1>2, LenProperties
  <2>3. k \in UNION {[1..m -> Name] : m \in 0..MaxNames}
    BY <2>2, Zenon
  <2> QED
    BY <2>1, <2>3, Zenon DEF Key, BoundedSeq, SeqOf
<1> QED
  BY <1>1, <1>2

\* The first c names of p and k are the same.
Agree(p, k, c) ==
  /\ c \in 0..Len(p) /\ c <= Len(k)
  /\ SubSeq(p, 1, c) = SubSeq(k, 1, c)

LEMMA CommonIs ==
  ASSUME NEW p \in Seq(Name), NEW k \in Seq(Name)
  PROVE  Agree(p, k, Common(p, k))
<1> DEFINE S == {n \in 0..Len(p) :
                   n <= Len(k) /\ SubSeq(p, 1, n) = SubSeq(k, 1, n)}
<1>1. SubSeq(p, 1, 0) = <<>> /\ SubSeq(k, 1, 0) = <<>>
  OBVIOUS
<1>2. S \subseteq 0..Len(p) /\ 0 \in S /\ Len(p) \in Nat
  BY <1>1
<1>3. Common(p, k) = Max(S)
  BY Zenon DEF Common
<1>4. \A n \in S : Agree(p, k, n)
  BY DEF Agree
<1> HIDE DEF S
<1>5. Max(S) \in S
  BY <1>2, Greatest
<1> QED
  BY <1>3, <1>4, <1>5

-----------------------------------------------------------------------------
(***************************************************************************)
(* What is written, one key after the other.                               *)
(***************************************************************************)

Values == Value \cup {Default}

TreeType == DOMAIN tree \subseteq Key /\ tree \in [DOMAIN tree -> Values]

Lines == Seq(Key \X Values)

\* Before the first key, or after prev with so many sections open that a line
\* is for a key again.
IsWriting(d) ==
  /\ d \in [prev : {<<>>} \cup Key, open : Seq(Name), lines : Lines, sound : BOOLEAN]
  /\ IF d.prev = <<>> THEN d.open = <<>> ELSE Len(d.open) < Len(d.prev)

\* What one key adds, part by part.
Opened(d, k) ==
  SubSeq(d.open, 1, Len(d.open) - Closes(d.prev, k))
    \o SubSeq(k, Common(d.prev, k) + 1, Len(k) - 1)

WithKey(d, k) ==
  [prev |-> k, open |-> Opened(d, k),
   lines |-> Append(d.lines, <<Append(Opened(d, k), Last(k)), tree[k]>>),
   sound |-> d.sound]

LEMMA DumpKeyIs ==
  ASSUME NEW d, IsWriting(d), NEW k
  PROVE  DumpKey(d, k) =
           IF ~d.sound \/ Closes(d.prev, k) > Len(d.open)
           THEN [prev |-> d.prev, open |-> d.open, lines |-> d.lines, sound |-> FALSE]
           ELSE WithKey(d, k)
<1> DEFINE p == d.prev
           o == d.open
           l == d.lines
           s == d.sound
<1>1. d = [prev |-> p, open |-> o, lines |-> l, sound |-> s]
  BY DEF IsWriting
<1> DEFINE shut == Closes(d.prev, k)
           open == Opened(d, k)
           line == <<Append(open, Last(k)), tree[k]>>
           all == Append(l, line)
           no == FALSE
<1>2. DumpKey(d, k) =
        IF ~d.sound \/ shut > Len(d.open)
        THEN [d EXCEPT !.sound = no]
        ELSE [d EXCEPT !.prev = k, !.open = open, !.lines = all]
  BY Zenon DEF DumpKey, Opened
<1>3. WithKey(d, k) = [prev |-> k, open |-> open, lines |-> all, sound |-> s]
  BY Zenon DEF WithKey
<1> HIDE DEF p, o, l, s, shut, open, line, all, no
<1>4. [d EXCEPT !.sound = no] = [prev |-> p, open |-> o, lines |-> l, sound |-> no]
  BY <1>1
<1>5. [d EXCEPT !.prev = k, !.open = open, !.lines = all]
        = [prev |-> k, open |-> open, lines |-> all, sound |-> s]
  <2> DEFINE d1 == [d EXCEPT !.prev = k]
             d2 == [d1 EXCEPT !.open = open]
             d3 == [d2 EXCEPT !.lines = all]
  <2>1. [d EXCEPT !.prev = k, !.open = open, !.lines = all] = d3
    OBVIOUS
  <2>2. d1 = [prev |-> k, open |-> o, lines |-> l, sound |-> s]
    BY <1>1
  <2> HIDE DEF d1
  <2>3. d2 = [prev |-> k, open |-> open, lines |-> l, sound |-> s]
    BY <2>2
  <2> HIDE DEF d2
  <2>4. d3 = [prev |-> k, open |-> open, lines |-> all, sound |-> s]
    BY <2>3
  <2> HIDE DEF d3
  <2> QED
    BY <2>1, <2>4
<1> QED
  BY <1>2, <1>3, <1>4, <1>5, Zenon DEF shut, p, o, l, no

LEMMA ClosesIs ==
  ASSUME NEW p \in Seq(Name), NEW k \in Seq(Name)
  PROVE  \E c : /\ c = Common(p, k) /\ Agree(p, k, c)
                /\ Closes(p, k) = IF c = Len(p) THEN 0 ELSE Len(p) - c - 1
                /\ Closes(p, k) \in Nat
<1>1. Agree(p, k, Common(p, k))
  BY CommonIs
<1>2. Closes(p, k) = IF Common(p, k) = Len(p) THEN 0 ELSE Len(p) - Common(p, k) - 1
  BY DEF Closes
<1>3. Common(p, k) \in 0..Len(p) /\ Len(p) \in Nat
  BY <1>1 DEF Agree
<1>4. Closes(p, k) \in Nat
  BY <1>2, <1>3
<1> QED
  BY <1>1, <1>2, <1>4

LEMMA WithKeyWriting ==
  ASSUME TreeType, NEW d, IsWriting(d), NEW k \in DOMAIN tree,
         Closes(d.prev, k) <= Len(d.open), ~IsPrefix(k, d.prev)
  PROVE  IsWriting(WithKey(d, k))
<1>1. /\ d.prev \in Seq(Name) /\ d.open \in Seq(Name) /\ d.lines \in Lines
      /\ d.sound \in BOOLEAN
      /\ IF d.prev = <<>> THEN d.open = <<>> ELSE Len(d.open) < Len(d.prev)
  <2>1. d.prev \in {<<>>} \cup Key
    BY DEF IsWriting
  <2>2. d.prev \in Seq(Name)
    BY <2>1, KeyIs, EmptySeq
  <2> QED
    BY <2>2 DEF IsWriting
<1>2. k \in Key /\ k \in Seq(Name) /\ Len(k) \in 1..MaxNames /\ tree[k] \in Values
  BY KeyIs DEF TreeType
<1>3. PICK c : /\ c = Common(d.prev, k) /\ Agree(d.prev, k, c)
               /\ Closes(d.prev, k) = IF c = Len(d.prev) THEN 0
                                      ELSE Len(d.prev) - c - 1
               /\ Closes(d.prev, k) \in Nat
  BY <1>1, <1>2, ClosesIs
<1> DEFINE p == d.prev
           shut == Closes(d.prev, k)
           n == Len(d.open) - shut
           kept == SubSeq(d.open, 1, n)
           more == SubSeq(k, c + 1, Len(k) - 1)
<1>4. /\ c \in 0..Len(p) /\ c <= Len(k) /\ Len(p) \in Nat /\ Len(k) \in Nat
      /\ Len(d.open) \in Nat /\ n \in 0..Len(d.open)
  <2>1. Len(p) \in Nat /\ Len(k) \in Nat /\ Len(d.open) \in Nat
    BY <1>1, <1>2, LenProperties
  <2>2. c \in 0..Len(p) /\ c <= Len(k)
    BY <1>3 DEF Agree
  <2>3. Closes(d.prev, k) \in Nat /\ Closes(d.prev, k) <= Len(d.open)
    BY <1>3
  <2> QED
    BY <2>1, <2>2, <2>3
<1>5. c # Len(k)
  <2>1. ASSUME c = Len(k) PROVE FALSE
    <3>1. Len(k) <= Len(p) /\ SubSeq(k, 1, Len(k)) = SubSeq(p, 1, Len(k))
      BY <1>3, <1>4, <2>1 DEF Agree
    <3> QED
      BY <3>1 DEF IsPrefix
  <2> QED
    BY <2>1
<1>6. kept \in Seq(Name) /\ Len(kept) = n
  BY <1>1, <1>4, SubSeqProperties
<1>7. /\ more \in Seq(Name)
      /\ Len(more) = IF c + 1 <= Len(k) - 1 THEN Len(k) - 1 - c ELSE 0
  <2>1. \A i \in c + 1..Len(k) - 1 : k[i] \in Name
    BY <1>2, <1>4
  <2>2. c + 1 \in Int /\ Len(k) - 1 \in Int
    BY <1>4
  <2>3. /\ more \in Seq(Name)
        /\ Len(more) = IF c + 1 <= Len(k) - 1 THEN Len(k) - 1 - (c + 1) + 1 ELSE 0
    BY <2>1, <2>2, SubSeqProperties
  <2> QED
    BY <2>3, <1>4
<1>8. Opened(d, k) = kept \o more
  BY <1>3, Zenon DEF Opened
<1>9. Opened(d, k) \in Seq(Name) /\ Len(Opened(d, k)) = n + Len(more)
  BY <1>6, <1>7, <1>8, ConcatProperties
<1>10. n <= c
  <2>1. CASE p = <<>>
    <3>1. Len(p) = 0 /\ Len(d.open) = 0
      BY <1>1, <2>1, EmptySeq
    <3> QED
      BY <1>3, <1>4, <3>1
  <2>2. CASE p # <<>>
    <3>1. Len(d.open) < Len(p)
      BY <1>1, <2>2
    <3> QED
      BY <1>3, <1>4, <3>1
  <2> QED
    BY <2>1, <2>2
<1>11. Len(Opened(d, k)) < Len(k)
  BY <1>4, <1>5, <1>7, <1>9, <1>10
<1>12. Append(Opened(d, k), Last(k)) \in Key
  <2>1. Last(k) \in Name
    BY <1>2 DEF Last
  <2>2. /\ Append(Opened(d, k), Last(k)) \in Seq(Name)
        /\ Len(Append(Opened(d, k), Last(k))) = Len(Opened(d, k)) + 1
    BY <1>9, <2>1, AppendProperties
  <2>3. Len(Opened(d, k)) \in Nat
    BY <1>9, LenProperties
  <2>4. Len(Append(Opened(d, k), Last(k))) \in 1..MaxNames
    BY <1>2, <1>11, <2>2, <2>3, NamesAssumption DEF NamesAssumption
  <2> QED
    BY <2>2, <2>4, KeyIs
<1>13. Append(d.lines, <<Append(Opened(d, k), Last(k)), tree[k]>>) \in Lines
  BY <1>1, <1>2, <1>12, AppendProperties DEF Lines
<1>14. k # <<>>
  BY <1>2, EmptySeq
<1> HIDE DEF p, shut, n, kept, more
<1> QED
  BY <1>1, <1>2, <1>9, <1>11, <1>13, <1>14 DEF IsWriting, WithKey

-----------------------------------------------------------------------------
First == [prev |-> <<>>, open |-> <<>>, lines |-> <<>>, sound |-> TRUE]

Adds(d, k) == IF k \in DOMAIN tree THEN DumpKey(d, k) ELSE d

\* The walk through the tree that Dump is defined by.
IsDump(f, n) ==
  f = [i \in 0..n |-> IF i = 0 THEN First
                      ELSE IF Order[i] \in DOMAIN tree
                           THEN DumpKey(f[i - 1], Order[i])
                      ELSE f[i - 1]]

LEMMA DumpExists ==
  ASSUME NEW n \in Nat
  PROVE  \E f : IsDump(f, n)
<1> DEFINE P == {k \in Nat : \E f : IsDump(f, k)}
<1>1. 0 \in P
  <2> DEFINE f == [k \in 0..0 |-> First]
  <2>1. IsDump(f, 0)
    BY DEF IsDump
  <2> QED
    BY <2>1
<1>2. ASSUME NEW m \in P PROVE m + 1 \in P
  <2>1. PICK f : IsDump(f, m)
    OBVIOUS
  <2> DEFINE g == [i \in 0..m + 1 |-> IF i = m + 1 THEN Adds(f[m], Order[m + 1])
                                      ELSE f[i]]
  <2>2. ASSUME NEW i \in 0..m + 1
        PROVE  g[i] = IF i = 0 THEN First ELSE Adds(g[i - 1], Order[i])
    <3>1. CASE i = m + 1
      BY <3>1
    <3>2. CASE i # m + 1
      <4>1. i \in 0..m /\ (i # 0 => i - 1 \in 0..m + 1 /\ i - 1 # m + 1)
        BY <3>2
      <4>2. f[i] = IF i = 0 THEN First ELSE Adds(f[i - 1], Order[i])
        BY <2>1, <4>1, Zenon DEF IsDump, Adds
      <4>3. g[i] = f[i] /\ (i # 0 => g[i - 1] = f[i - 1])
        BY <3>2, <4>1
      <4> HIDE DEF g
      <4> QED
        BY <4>2, <4>3
    <3> QED
      BY <3>1, <3>2
  <2>3. g = [i \in 0..m + 1 |-> g[i]]
    OBVIOUS
  <2> HIDE DEF g
  <2>4. g = [i \in 0..m + 1 |-> IF i = 0 THEN First ELSE Adds(g[i - 1], Order[i])]
    BY <2>2, <2>3
  <2>5. IsDump(g, m + 1)
    BY <2>4 DEF IsDump, Adds
  <2> QED
    BY <2>5
<1>3. P = Nat
  <2> HIDE DEF P
  <2>1. P \subseteq Nat
    BY DEF P
  <2> QED
    BY <1>1, <1>2, <2>1, ByInduction
<1> QED
  BY <1>3

\* f computes Dump in as many steps as there are keys.
AreDumps(f) ==
  /\ f[0] = First
  /\ \A k \in 0..Len(Order) - 1 : f[k + 1] = Adds(f[k], Order[k + 1])
  /\ Dump = [lines |-> f[Len(Order)].lines,
             sound |-> f[Len(Order)].sound /\ \A k \in DOMAIN tree : tree[k] # Markup]

LEMMA DumpIs == \E f : AreDumps(f)
<1>1. PICK n \in Nat : n = Len(Order)
  BY OrderAssumption, LenProperties DEF OrderAssumption
<1> DEFINE dump[i \in 0..Len(Order)] ==
             IF i = 0
             THEN [prev |-> <<>>, open |-> <<>>, lines |-> <<>>, sound |-> TRUE]
             ELSE IF Order[i] \in DOMAIN tree THEN DumpKey(dump[i - 1], Order[i])
             ELSE dump[i - 1]
<1>2. \E f : IsDump(f, Len(Order))
  BY <1>1, DumpExists
<1>3. dump = [i \in 0..Len(Order) |->
                IF i = 0
                THEN [prev |-> <<>>, open |-> <<>>, lines |-> <<>>, sound |-> TRUE]
                ELSE IF Order[i] \in DOMAIN tree THEN DumpKey(dump[i - 1], Order[i])
                ELSE dump[i - 1]]
  BY <1>2, Zenon DEF IsDump, First
<1>4. Dump = [lines |-> dump[Len(Order)].lines,
              sound |-> dump[Len(Order)].sound
                          /\ \A k \in DOMAIN tree : tree[k] # Markup]
  BY Zenon DEF Dump
<1> HIDE DEF dump
<1>5. IsDump(dump, n)
  BY <1>1, <1>3, Zenon DEF IsDump, First
<1>6. dump[0] = First
  BY <1>1, <1>5 DEF IsDump
<1>7. ASSUME NEW k \in 0..n - 1
      PROVE  dump[k + 1] = Adds(dump[k], Order[k + 1])
  <2>1. k + 1 \in 0..n /\ k + 1 # 0 /\ (k + 1) - 1 = k
    BY <1>1
  <2>2. dump[k + 1] = Adds(dump[(k + 1) - 1], Order[k + 1])
    BY <1>5, <2>1, Zenon DEF IsDump, Adds
  <2> QED
    BY <2>1, <2>2
<1>8. AreDumps(dump)
  BY <1>1, <1>4, <1>6, <1>7, Zenon DEF AreDumps
<1> QED
  BY <1>8

-----------------------------------------------------------------------------
\* A key comes before those that continue it.
LEMMA InOrder ==
  ASSUME NEW m \in 1..Len(Order), NEW n \in 1..Len(Order), m < n
  PROVE  ~IsPrefix(Order[n], Order[m])
<1>1. m \in DOMAIN Order /\ n \in DOMAIN Order
  BY OrderAssumption, LenProperties DEF OrderAssumption
<1>2. IsPrefix(Order[n], Order[m]) => n <= m
  BY <1>1, OrderAssumption, Zenon DEF OrderAssumption
<1>3. m \in Int /\ n \in Int
  OBVIOUS
<1> QED
  BY <1>2, <1>3

\* After n keys.
Reached(d, n) ==
  IsWriting(d) /\ (d.prev = <<>> \/ \E m \in 1..n : d.prev = Order[m])

LEMMA NothingHasNoKey ==
  ASSUME NEW k \in Key
  PROVE  ~IsPrefix(k, <<>>)
<1>1. Len(k) \in 1..MaxNames /\ Len(<<>>) = 0
  BY KeyIs
<1> QED
  BY <1>1, NamesAssumption DEF IsPrefix, NamesAssumption

LEMMA AddsReached ==
  ASSUME TreeType, NEW n \in 0..Len(Order) - 1, NEW d, Reached(d, n)
  PROVE  Reached(Adds(d, Order[n + 1]), n + 1)
<1>0. Len(Order) \in Nat
  BY OrderAssumption, LenProperties DEF OrderAssumption
<1>1. n + 1 \in 1..Len(Order) /\ n \in Nat
  BY <1>0
<1> DEFINE k == Order[n + 1]
<1>2. \A m \in 1..n : m \in 1..n + 1
  BY <1>1
<1>3. Reached(d, n + 1)
  BY <1>2 DEF Reached
<1>4. ASSUME k \in DOMAIN tree PROVE Reached(DumpKey(d, k), n + 1)
  <2>1. k \in Key
    BY <1>4 DEF TreeType
  <2>2. ~IsPrefix(k, d.prev)
    <3>1. CASE d.prev = <<>>
      BY <2>1, <3>1, NothingHasNoKey
    <3>2. ASSUME NEW m \in 1..n, d.prev = Order[m] PROVE ~IsPrefix(k, d.prev)
      <4>1. m \in 1..Len(Order) /\ m < n + 1
        BY <1>0
      <4> QED
        BY <1>1, <4>1, <3>2, InOrder
    <3> QED
      BY <3>1, <3>2 DEF Reached
  <2> HIDE DEF k
  <2>3. IsWriting(d)
    BY DEF Reached
  <2>4. CASE ~d.sound \/ Closes(d.prev, k) > Len(d.open)
    <3>1. DumpKey(d, k) =
            [prev |-> d.prev, open |-> d.open, lines |-> d.lines, sound |-> FALSE]
      BY <2>3, <2>4, DumpKeyIs
    <3>2. IsWriting([prev |-> d.prev, open |-> d.open, lines |-> d.lines, sound |-> FALSE])
      BY <2>3 DEF IsWriting
    <3>3. DumpKey(d, k).prev = d.prev /\ IsWriting(DumpKey(d, k))
      BY <3>1, <3>2
    <3> QED
      BY <1>3, <3>3 DEF Reached
  <2>5. CASE ~(~d.sound \/ Closes(d.prev, k) > Len(d.open))
    <3>1. DumpKey(d, k) = WithKey(d, k)
      BY <2>3, <2>5, DumpKeyIs
    <3>2. Closes(d.prev, k) <= Len(d.open)
      <4>1. d.prev \in Seq(Name) /\ k \in Seq(Name) /\ Len(d.open) \in Nat
        <5>1. d.prev \in {<<>>} \cup Key /\ d.open \in Seq(Name)
          BY <2>3 DEF IsWriting
        <5> QED
          BY <2>1, <5>1, KeyIs, EmptySeq, LenProperties
      <4>2. Closes(d.prev, k) \in Nat
        BY <4>1, ClosesIs
      <4> QED
        BY <2>5, <4>1, <4>2
    <3>3. IsWriting(WithKey(d, k))
      BY <1>4, <2>2, <2>3, <3>2, WithKeyWriting
    <3>4. WithKey(d, k).prev = Order[n + 1] /\ n + 1 \in 1..n + 1
      BY <1>1 DEF WithKey, k
    <3> QED
      BY <3>1, <3>3, <3>4 DEF Reached
  <2> QED
    BY <2>4, <2>5
<1> QED
  BY <1>3, <1>4 DEF Adds

LEMMA DumpReached ==
  ASSUME TreeType, NEW f, AreDumps(f)
  PROVE  \A n \in 0..Len(Order) : Reached(f[n], n)
<1>0. Len(Order) \in Nat
  BY OrderAssumption, LenProperties DEF OrderAssumption
<1> DEFINE P == {n \in Nat : n \in 0..Len(Order) => Reached(f[n], n)}
<1>1. 0 \in P
  <2>1. f[0] = First
    BY DEF AreDumps
  <2>2. <<>> \in Seq(Name) /\ <<>> \in Lines
    BY EmptySeq DEF Lines
  <2>3. IsWriting(First)
    BY <2>2 DEF IsWriting, First
  <2>4. Reached(f[0], 0)
    BY <2>1, <2>3 DEF Reached, First
  <2> QED
    BY <2>4
<1>2. ASSUME NEW n \in P PROVE n + 1 \in P
  <2> SUFFICES ASSUME n + 1 \in 0..Len(Order) PROVE Reached(f[n + 1], n + 1)
    OBVIOUS
  <2>1. n \in 0..Len(Order) /\ n \in 0..Len(Order) - 1
    BY <1>0
  <2>2. Reached(f[n], n) /\ f[n + 1] = Adds(f[n], Order[n + 1])
    BY <2>1 DEF AreDumps
  <2> HIDE DEF P
  <2> QED
    BY <2>1, <2>2, AddsReached
<1>3. P = Nat
  <2> HIDE DEF P
  <2>1. P \subseteq Nat
    BY DEF P
  <2> QED
    BY <1>1, <1>2, <2>1, ByInduction
<1> QED
  BY <1>0, <1>3

\* A file is what its parser makes of it, however the save before it ended.
LEMMA DumpWritten ==
  ASSUME TreeType
  PROVE  Dump \in Written
<1>1. PICK f : AreDumps(f)
  BY DumpIs
<1>0. Len(Order) \in 0..Len(Order)
  BY OrderAssumption, LenProperties DEF OrderAssumption
<1>2. IsWriting(f[Len(Order)])
  BY <1>0, <1>1, DumpReached DEF Reached
<1> DEFINE b == f[Len(Order)].sound /\ \A k \in DOMAIN tree : tree[k] # Markup
<1>3. b \in BOOLEAN
  BY Zenon
<1>4. Dump = [lines |-> f[Len(Order)].lines, sound |-> b]
  BY <1>1, Zenon DEF AreDumps
<1>5. f[Len(Order)].lines \in Lines
  BY <1>2 DEF IsWriting
<1> HIDE DEF b
<1> QED
  BY <1>3, <1>4, <1>5 DEF Written, Lines, Values

-----------------------------------------------------------------------------
(***************************************************************************)
(* A tree in which no key continues another one is written as it is: the   *)
(* sections that are open are always those of the key before.              *)
(***************************************************************************)

Apart == \A j, k \in DOMAIN tree : IsPrefix(j, k) => j = k

Sections(k) == SubSeq(k, 1, Len(k) - 1)

InSections(d) ==
  d.prev # <<>> => d.prev \in DOMAIN tree /\ d.open = Sections(d.prev)

\* What has been written is in the tree, and what came of the tree is written.
LinesRight(d, n) ==
  /\ \A i \in DOMAIN d.lines : \E k \in DOMAIN tree : d.lines[i] = <<k, tree[k]>>
  /\ \A m \in 1..n : Order[m] \in DOMAIN tree =>
       \E i \in DOMAIN d.lines : d.lines[i] = <<Order[m], tree[Order[m]]>>

Right(d, n) == IsWriting(d) /\ d.sound /\ InSections(d) /\ LinesRight(d, n)

\* What k has in common with the key before is left open, and the rest of its
\* sections is opened.
LEMMA SectionsOpened ==
  ASSUME TreeType, Apart, NEW d, IsWriting(d), InSections(d), NEW k \in DOMAIN tree
  PROVE  Closes(d.prev, k) <= Len(d.open) /\ Opened(d, k) = Sections(k)
<1> DEFINE p == d.prev
<1>1. p \in Seq(Name) /\ d.open \in Seq(Name)
  <2>1. p \in {<<>>} \cup Key /\ d.open \in Seq(Name)
    BY DEF IsWriting
  <2> QED
    BY <2>1, KeyIs, EmptySeq
<1>2. k \in Key /\ k \in Seq(Name) /\ Len(k) \in 1..MaxNames /\ k # <<>>
  BY KeyIs, EmptySeq DEF TreeType
<1>3. PICK c : /\ c = Common(p, k) /\ Agree(p, k, c)
               /\ Closes(p, k) = IF c = Len(p) THEN 0 ELSE Len(p) - c - 1
               /\ Closes(p, k) \in Nat
  BY <1>1, <1>2, ClosesIs
<1>4. /\ Len(p) \in Nat /\ Len(k) \in Nat /\ Len(k) >= 1
      /\ c \in 0..Len(p) /\ c <= Len(k) /\ SubSeq(p, 1, c) = SubSeq(k, 1, c)
  <2>1. Len(p) \in Nat /\ Len(k) \in Nat /\ Len(k) >= 1
    BY <1>1, <1>2, LenProperties
  <2> QED
    BY <1>3, <2>1 DEF Agree
<1>5. Opened(d, k) = SubSeq(d.open, 1, Len(d.open) - Closes(p, k))
                       \o SubSeq(k, c + 1, Len(k) - 1)
  BY <1>3, Zenon DEF Opened
<1>6. ASSUME c \in 0..Len(k) - 1,
             Closes(p, k) <= Len(d.open),
             SubSeq(d.open, 1, Len(d.open) - Closes(p, k)) = SubSeq(k, 1, c)
      PROVE  Opened(d, k) = Sections(k)
  <2>1. 1 \in 1..Len(k) + 1 /\ c \in 1 - 1..Len(k) /\ Len(k) - 1 \in c..Len(k)
    BY <1>4, <1>6
  <2>2. SubSeq(k, 1, c) \o SubSeq(k, c + 1, Len(k) - 1) = SubSeq(k, 1, Len(k) - 1)
    BY <1>2, <2>1, ConcatAdjacentSubSeq
  <2> QED
    BY <1>5, <1>6, <2>2 DEF Sections
<1>7. CASE p = <<>>
  <2>1. d.open = <<>> /\ Len(p) = 0 /\ c = 0
    <3>1. Len(p) = 0
      BY <1>7, EmptySeq
    <3> QED
      BY <1>4, <1>7, <3>1 DEF IsWriting
  <2>2. Len(d.open) = 0 /\ Closes(p, k) = 0
    BY <1>3, <2>1, EmptySeq
  <2>3. SubSeq(d.open, 1, 0) = <<>> /\ SubSeq(k, 1, 0) = <<>>
    BY SubSeqEmpty
  <2>4. SubSeq(d.open, 1, Len(d.open) - Closes(p, k)) = SubSeq(k, 1, c)
    BY <2>1, <2>2, <2>3
  <2>5. c \in 0..Len(k) - 1 /\ Closes(p, k) <= Len(d.open)
    BY <1>4, <2>1, <2>2
  <2> QED
    BY <1>6, <2>4, <2>5
<1>8. CASE p # <<>>
  <2>1. p \in DOMAIN tree /\ d.open = Sections(p) /\ p \in Key
    BY <1>8 DEF InSections, TreeType
  <2>2. Len(p) >= 1
    BY <1>4, <2>1, KeyIs
  <2>3. Len(d.open) = Len(p) - 1
    <3>1. 1 \in Int /\ Len(p) - 1 \in Int /\ \A i \in 1..Len(p) - 1 : p[i] \in Name
      BY <1>1, <1>4
    <3>2. Len(SubSeq(p, 1, Len(p) - 1)) =
            IF 1 <= Len(p) - 1 THEN Len(p) - 1 - 1 + 1 ELSE 0
      BY <3>1, SubSeqProperties
    <3> QED
      BY <1>4, <2>1, <2>2, <3>2 DEF Sections
  <2>4. \A m \in 0..Len(p) - 1 : SubSeq(d.open, 1, m) = SubSeq(p, 1, m)
    <3> SUFFICES ASSUME NEW m \in 0..Len(p) - 1
                 PROVE  SubSeq(d.open, 1, m) = SubSeq(p, 1, m)
      OBVIOUS
    <3>1. CASE m = 0
      BY <3>1, SubSeqEmpty
    <3>2. CASE m # 0
      <4>1. /\ 1 \in 1..Len(p) /\ Len(p) - 1 \in 1..Len(p)
            /\ 1 \in 1..Len(p) - 1 - 1 + 1 /\ m \in 1..Len(p) - 1 - 1 + 1
            /\ 1 + 1 - 1 = 1 /\ 1 + m - 1 = m
        BY <1>4, <2>2, <3>2
      <4>2. SubSeq(SubSeq(p, 1, Len(p) - 1), 1, m) = SubSeq(p, 1 + 1 - 1, 1 + m - 1)
        BY <1>1, <4>1, SubSeqOfSubSeq
      <4> QED
        BY <2>1, <4>1, <4>2 DEF Sections
    <3> QED
      BY <3>1, <3>2
  <2>5. CASE p = k
    <3>1. c \in 0..Len(k) - 1 \/ c = Len(k)
      BY <1>4
    <3>2. CASE c = Len(k)
      <4>1. Closes(p, k) = 0
        BY <1>3, <2>5, <3>2
      <4>2. /\ SubSeq(d.open, 1, Len(d.open) - Closes(p, k)) = Sections(k)
            /\ Closes(p, k) <= Len(d.open)
        <5>1. Len(p) - 1 \in 0..Len(p) - 1 /\ Len(d.open) - 0 = Len(p) - 1
          BY <1>4, <2>2, <2>3
        <5>2. SubSeq(d.open, 1, Len(p) - 1) = Sections(p)
          BY <2>4, <5>1 DEF Sections
        <5>3. Len(d.open) - Closes(p, k) = Len(p) - 1 /\ 0 <= Len(d.open)
          BY <1>4, <2>2, <2>3, <4>1
        <5> QED
          BY <2>5, <4>1, <5>2, <5>3
      <4>3. SubSeq(k, c + 1, Len(k) - 1) = <<>>
        BY <1>4, <3>2, SubSeqEmpty
      <4>4. Sections(k) \in Seq(Name)
        BY <1>1, <2>1, <2>5
      <4> QED
        BY <1>5, <4>2, <4>3, <4>4, ConcatEmptySeq
    <3>3. CASE c \in 0..Len(k) - 1
      <4>1. Closes(p, k) = Len(p) - c - 1
        BY <1>3, <1>4, <2>5, <3>3
      <4>2. Len(d.open) - Closes(p, k) = c /\ Closes(p, k) <= Len(d.open)
        BY <1>4, <2>3, <4>1
      <4> QED
        BY <1>4, <1>6, <2>4, <2>5, <3>3, <4>2
    <3> QED
      BY <3>1, <3>2, <3>3
  <2>6. CASE p # k
    <3>1. c # Len(p)
      <4>1. ASSUME c = Len(p) PROVE FALSE
        <5>1. IsPrefix(p, k)
          BY <1>4, <4>1 DEF IsPrefix
        <5> QED
          BY <2>1, <2>6, <5>1 DEF Apart
      <4> QED
        BY <4>1
    <3>2. c # Len(k)
      <4>1. ASSUME c = Len(k) PROVE FALSE
        <5>1. IsPrefix(k, p)
          BY <1>4, <4>1 DEF IsPrefix
        <5> QED
          BY <2>1, <2>6, <5>1 DEF Apart
      <4> QED
        BY <4>1
    <3>3. /\ c \in 0..Len(k) - 1 /\ c \in 0..Len(p) - 1
          /\ Closes(p, k) = Len(p) - c - 1
      BY <1>3, <1>4, <3>1, <3>2
    <3>4. Len(d.open) - Closes(p, k) = c /\ Closes(p, k) <= Len(d.open)
      BY <1>4, <2>3, <3>3
    <3> QED
      BY <1>4, <1>6, <2>4, <3>3, <3>4
  <2> QED
    BY <2>5, <2>6
<1> QED
  BY <1>7, <1>8

LEMMA SectionsAndName ==
  ASSUME NEW k \in Key
  PROVE  Append(Sections(k), Last(k)) = k
<1>1. k \in Seq(Name) /\ Len(k) \in 1..MaxNames /\ MaxNames \in Nat
  BY KeyIs, NamesAssumption DEF NamesAssumption
<1>2. Sections(k) \in Seq(Name) /\ Last(k) \in Name
  BY <1>1 DEF Sections, Last
<1>3. 1 \in 1..Len(k) /\ Len(k) \in 1..Len(k)
  BY <1>1
<1>4. SubSeq(k, 1, Len(k)) = SubSeq(k, 1, Len(k) - 1) \o <<k[Len(k)]>>
  BY <1>1, <1>3, SubSeqRecursiveSecond
<1>5. SubSeq(k, 1, Len(k)) = k
  BY <1>1, SubSeqFull
<1> QED
  BY <1>2, <1>4, <1>5, AppendIsConcat DEF Sections, Last

LEMMA AddsRight ==
  ASSUME TreeType, Apart, NEW n \in 0..Len(Order) - 1, NEW d, Reached(d, n),
         Right(d, n)
  PROVE  Right(Adds(d, Order[n + 1]), n + 1)
<1>0. Len(Order) \in Nat /\ n \in Nat
  BY OrderAssumption, LenProperties DEF OrderAssumption
<1>1. \A m \in 1..n + 1 : m \in 1..n \/ m = n + 1
  BY <1>0
<1>2. IsWriting(Adds(d, Order[n + 1]))
  BY AddsReached DEF Reached
<1> DEFINE k == Order[n + 1]
<1>3. CASE k \notin DOMAIN tree
  <2>1. Adds(d, k) = d
    BY <1>3 DEF Adds
  <2> QED
    BY <1>1, <1>3, <2>1 DEF Right, LinesRight
<1>4. CASE k \in DOMAIN tree
  <2> HIDE DEF k
  <2>1. IsWriting(d) /\ InSections(d) /\ d.sound /\ LinesRight(d, n)
    BY DEF Right
  <2>2. k \in Key /\ k \in Seq(Name) /\ Len(d.open) \in Nat
    BY <1>4, <2>1, KeyIs, LenProperties DEF TreeType, IsWriting
  <2>3. Closes(d.prev, k) <= Len(d.open) /\ Opened(d, k) = Sections(k)
    BY <1>4, <2>1, SectionsOpened
  <2>4. Closes(d.prev, k) \in Nat
    <3>1. d.prev \in Seq(Name)
      <4>1. d.prev \in {<<>>} \cup Key
        BY <2>1 DEF IsWriting
      <4> QED
        BY <4>1, KeyIs, EmptySeq
    <3> QED
      BY <2>2, <3>1, ClosesIs
  <2>5. Adds(d, k) = WithKey(d, k)
    <3>1. ~(Closes(d.prev, k) > Len(d.open))
      BY <2>2, <2>3, <2>4
    <3>2. DumpKey(d, k) = WithKey(d, k)
      BY <2>1, <3>1, DumpKeyIs
    <3> QED
      BY <1>4, <3>2 DEF Adds
  <2> DEFINE e == WithKey(d, k)
             line == <<k, tree[k]>>
  <2>6. /\ e.prev = k /\ e.open = Sections(k) /\ e.sound
        /\ e.lines = Append(d.lines, line)
    BY <2>1, <2>2, <2>3, SectionsAndName DEF WithKey
  <2>7. d.lines \in Seq(Key \X Values) /\ line \in Key \X Values
    BY <1>4, <2>1, <2>2 DEF IsWriting, Lines, TreeType
  <2>8. /\ Len(e.lines) = Len(d.lines) + 1
        /\ \A i \in 1..Len(d.lines) : e.lines[i] = d.lines[i]
        /\ e.lines[Len(d.lines) + 1] = line
        /\ DOMAIN e.lines = 1..Len(d.lines) + 1
        /\ DOMAIN d.lines = 1..Len(d.lines)
        /\ Len(d.lines) \in Nat
    <3>1. Append(d.lines, line) \in Seq(Key \X Values)
      BY <2>7, AppendProperties
    <3> QED
      BY <2>6, <2>7, <3>1, AppendProperties, LenProperties
  <2> HIDE DEF e, line
  <2>9. \A i \in DOMAIN e.lines : \E j \in DOMAIN tree : e.lines[i] = <<j, tree[j]>>
    <3> SUFFICES ASSUME NEW i \in DOMAIN e.lines
                 PROVE  \E j \in DOMAIN tree : e.lines[i] = <<j, tree[j]>>
      OBVIOUS
    <3>1. CASE i = Len(d.lines) + 1
      BY <1>4, <2>8, <3>1 DEF line
    <3>2. CASE i # Len(d.lines) + 1
      <4>1. i \in DOMAIN d.lines /\ e.lines[i] = d.lines[i]
        BY <2>8, <3>2
      <4> QED
        BY <2>1, <4>1 DEF LinesRight
    <3> QED
      BY <3>1, <3>2
  <2>10. ASSUME NEW m \in 1..n + 1, Order[m] \in DOMAIN tree
         PROVE  \E i \in DOMAIN e.lines : e.lines[i] = <<Order[m], tree[Order[m]]>>
    <3>1. CASE m = n + 1
      <4>1. Len(d.lines) + 1 \in DOMAIN e.lines
        BY <2>8
      <4> QED
        BY <2>8, <3>1, <4>1 DEF line, k
    <3>2. CASE m \in 1..n
      <4>1. PICK i \in DOMAIN d.lines : d.lines[i] = <<Order[m], tree[Order[m]]>>
        BY <2>1, <2>10, <3>2 DEF LinesRight
      <4>2. i \in DOMAIN e.lines /\ e.lines[i] = d.lines[i]
        BY <2>8
      <4> QED
        BY <4>1, <4>2
    <3> QED
      BY <1>1, <3>1, <3>2
  <2>11. LinesRight(e, n + 1)
    BY <2>9, <2>10 DEF LinesRight
  <2>12. InSections(e)
    BY <1>4, <2>6 DEF InSections
  <2>13. IsWriting(e)
    BY <1>2, <2>5 DEF e, k
  <2> QED
    BY <2>5, <2>6, <2>11, <2>12, <2>13 DEF Right, e, k
<1> QED
  BY <1>3, <1>4

\* The whole tree.
IsWhole(ls) ==
  /\ \A i \in DOMAIN ls : \E k \in DOMAIN tree : ls[i] = <<k, tree[k]>>
  /\ \A k \in DOMAIN tree : \E i \in DOMAIN ls : ls[i] = <<k, tree[k]>>

LEMMA DumpWhole ==
  ASSUME TreeType, Apart, \A k \in DOMAIN tree : tree[k] # Markup
  PROVE  Dump.sound /\ IsWhole(Dump.lines)
<1>0. Len(Order) \in Nat
  BY OrderAssumption, LenProperties DEF OrderAssumption
<1>1. PICK f : AreDumps(f)
  BY DumpIs
<1>2. \A n \in 0..Len(Order) : Reached(f[n], n)
  BY <1>1, DumpReached
<1> DEFINE P == {n \in Nat : n \in 0..Len(Order) => Right(f[n], n)}
<1>3. 0 \in P
  <2>1. f[0] = First /\ Reached(f[0], 0)
    BY <1>0, <1>1, <1>2 DEF AreDumps
  <2>2. \A i \in DOMAIN <<>> : FALSE
    BY EmptySeq
  <2>3. Right(f[0], 0)
    BY <2>1, <2>2 DEF Right, Reached, InSections, LinesRight, First
  <2> QED
    BY <2>3
<1>4. ASSUME NEW n \in P PROVE n + 1 \in P
  <2> SUFFICES ASSUME n + 1 \in 0..Len(Order) PROVE Right(f[n + 1], n + 1)
    OBVIOUS
  <2>1. n \in 0..Len(Order) /\ n \in 0..Len(Order) - 1
    BY <1>0
  <2>2. Right(f[n], n) /\ Reached(f[n], n) /\ f[n + 1] = Adds(f[n], Order[n + 1])
    BY <1>1, <1>2, <2>1 DEF AreDumps
  <2> HIDE DEF P
  <2> QED
    BY <2>1, <2>2, AddsRight
<1>5. P = Nat
  <2> HIDE DEF P
  <2>1. P \subseteq Nat
    BY DEF P
  <2> QED
    BY <1>3, <1>4, <2>1, ByInduction
<1>6. Right(f[Len(Order)], Len(Order))
  BY <1>0, <1>5
<1>7. Dump.sound /\ Dump.lines = f[Len(Order)].lines
  BY <1>1, <1>6 DEF AreDumps, Right
<1>8. ASSUME NEW k \in DOMAIN tree
      PROVE  \E m \in 1..Len(Order) : Order[m] = k
  <2>1. k \in Range(Order)
    BY OrderAssumption DEF TreeType, OrderAssumption
  <2>2. DOMAIN Order = 1..Len(Order)
    BY OrderAssumption, LenProperties DEF OrderAssumption
  <2> QED
    BY <2>1, <2>2 DEF Range
<1> HIDE DEF P
<1> QED
  BY <1>6, <1>7, <1>8 DEF Right, LinesRight, IsWhole

-----------------------------------------------------------------------------
(***************************************************************************)
(* What is read of a file.                                                 *)
(***************************************************************************)

LineKeys(f) == {k \in {f.lines[i][1] : i \in DOMAIN f.lines} : Given(f, k) # {}}

LEMMA LoadIs ==
  ASSUME NEW f
  PROVE  Load(f) = IF f.sound THEN [k \in LineKeys(f) |-> f.lines[Max(Given(f, k))][2]]
                   ELSE <<>>
BY Zenon DEF Load, LineKeys

LEMMA LastGiven ==
  ASSUME NEW f \in Written, NEW k, Given(f, k) # {}
  PROVE  Max(Given(f, k)) \in Given(f, k)
<1>1. Len(f.lines) \in Nat /\ DOMAIN f.lines = 1..Len(f.lines)
  BY LenProperties DEF Written
<1>2. Given(f, k) \subseteq 0..Len(f.lines)
  BY <1>1 DEF Given
<1> QED
  BY <1>1, <1>2, Greatest

\* The tree that a file gives.
LEMMA LoadTyped ==
  ASSUME NEW f \in Written
  PROVE  /\ DOMAIN Load(f) \subseteq Key
         /\ Load(f) \in [DOMAIN Load(f) -> Values]
         /\ \A k \in DOMAIN Load(f) : Load(f)[k] # Empty
<1>1. CASE ~f.sound
  <2>1. Load(f) = <<>>
    BY <1>1, LoadIs
  <2>2. PICK e : e = <<>>
    OBVIOUS
  <2>3. DOMAIN e = {} /\ e = [i \in {} |-> 0]
    BY <2>2
  <2> QED
    BY <2>1, <2>2, <2>3
<1>2. CASE f.sound
  <2>1. Load(f) = [k \in LineKeys(f) |-> f.lines[Max(Given(f, k))][2]]
    BY <1>2, LoadIs
  <2>2. \A i \in DOMAIN f.lines : f.lines[i] \in Key \X Values
    BY LenProperties, ElementOfSeq DEF Written, Values
  <2>3. ASSUME NEW k \in LineKeys(f)
        PROVE  /\ k \in Key
               /\ f.lines[Max(Given(f, k))][2] \in Values
               /\ f.lines[Max(Given(f, k))][2] # Empty
    <3>1. Max(Given(f, k)) \in Given(f, k)
      BY LastGiven DEF LineKeys
    <3>2. PICK i \in DOMAIN f.lines : /\ i = Max(Given(f, k)) /\ f.lines[i][1] = k
                                      /\ f.lines[i][2] # Empty
      BY <3>1 DEF Given
    <3> QED
      BY <2>2, <3>2
  <2> QED
    BY <2>1, <2>3
<1> QED
  BY <1>1, <1>2

\* A file with the whole tree in it brings it back.
LEMMA WholeRecovers ==
  ASSUME NEW f \in Written, f.sound, IsWhole(f.lines)
  PROVE  Recovers(tree, f)
<1>1. Load(f) = [k \in LineKeys(f) |-> f.lines[Max(Given(f, k))][2]]
  BY LoadIs
<1>2. ASSUME NEW k \in LineKeys(f)
      PROVE  k \in DOMAIN tree /\ Load(f)[k] = tree[k] /\ tree[k] # Empty
  <2>1. Max(Given(f, k)) \in Given(f, k)
    BY LastGiven DEF LineKeys
  <2>2. PICK i \in DOMAIN f.lines : /\ i = Max(Given(f, k)) /\ f.lines[i][1] = k
                                    /\ f.lines[i][2] # Empty
    BY <2>1 DEF Given
  <2>3. PICK j \in DOMAIN tree : f.lines[i] = <<j, tree[j]>>
    BY <2>2 DEF IsWhole
  <2>4. j = k /\ f.lines[i][2] = tree[k]
    BY <2>2, <2>3
  <2> QED
    BY <1>1, <2>2, <2>3, <2>4
<1>3. ASSUME NEW k \in DOMAIN tree, tree[k] # Empty
      PROVE  k \in LineKeys(f)
  <2>1. PICK i \in DOMAIN f.lines : f.lines[i] = <<k, tree[k]>>
    BY DEF IsWhole
  <2>2. i \in Given(f, k) /\ f.lines[i][1] = k
    BY <1>3, <2>1 DEF Given
  <2> QED
    BY <2>2 DEF LineKeys
<1>4. DOMAIN Load(f) = LineKeys(f)
  BY <1>1
<1> QED
  BY <1>2, <1>3, <1>4 DEF Recovers

\* What Dump writes of the tree is read as the tree, unless it cannot hold it.
LEMMA DumpGood ==
  ASSUME TreeType
  PROVE  Good(tree, Dump)
<1> SUFFICES ASSUME ~UnwritableIn(tree) PROVE Recovers(tree, Dump)
  BY DEF Good
<1>1. Apart /\ \A k \in DOMAIN tree : tree[k] # Markup
  BY DEF UnwritableIn, Apart
<1> QED
  BY <1>1, DumpWhole, DumpWritten, WholeRecovers

-----------------------------------------------------------------------------
(***************************************************************************)
(* The steps.                                                              *)
(***************************************************************************)

Places == {"idle", "save", "opened", "dumped"}

SaverType == saver \in [Thread -> [at : Places, new : {<<>>} \cup Core \cup Own,
                                   text : Written]]

RestType ==
  file \in Written /\ astray \in BOOLEAN
    /\ changes \in 0..MaxChanges /\ starts \in 0..MaxStarts

LEMMA ConfigTypeParts == TypeOK <=> TreeType /\ SaverType /\ RestType
BY Zenon DEF TypeOK, TreeType, SaverType, RestType, Values, Places

LEMMA ConfigTypePartsNext == TypeOK' <=> TreeType' /\ SaverType' /\ RestType'
BY Zenon DEF TypeOK, TreeType, SaverType, RestType, Values, Places

LEMMA NothingWritten == Nothing \in Written /\ Load(Nothing) = <<>>
<1>1. <<>> \in Lines
  BY EmptySeq DEF Lines
<1>2. Nothing \in Written
  BY <1>1 DEF Nothing, Written, Lines, Values
<1>3. ~Nothing.sound
  BY DEF Nothing
<1> QED
  BY <1>2, <1>3, LoadIs

\* A key that comes with its default is not in the file.
WithNew(t, k) ==
  IF k = <<>> THEN t ELSE [j \in DOMAIN t \cup {k} |-> IF j = k THEN Default ELSE t[j]]

LEMMA NewKeyGood ==
  ASSUME NEW t, NEW k, k # <<>> => k \notin DOMAIN t, NEW f, Good(t, f)
  PROVE  Good(WithNew(t, k), f)
<1>1. CASE k = <<>>
  BY <1>1 DEF WithNew
<1>2. CASE k # <<>>
  <2> DEFINE n == WithNew(t, k)
  <2>1. /\ DOMAIN n = DOMAIN t \cup {k} /\ n[k] = Default
        /\ \A j \in DOMAIN t : n[j] = t[j]
    BY <1>2 DEF WithNew
  <2> HIDE DEF n
  <2>2. UnwritableIn(t) => UnwritableIn(n)
    BY <2>1 DEF UnwritableIn
  <2>3. ASSUME Recovers(t, f) PROVE Recovers(n, f)
    <3>1. k \notin DOMAIN Load(f)
      BY <1>2, <2>3 DEF Recovers
    <3> QED
      BY <2>1, <2>3, <3>1 DEF Recovers
  <2> QED
    BY <2>2, <2>3 DEF Good, n
<1> QED
  BY <1>1, <1>2

LEMMA NewKeyTyped ==
  ASSUME TreeType, NEW k \in {<<>>} \cup Core \cup Own, tree' = WithNew(tree, k)
  PROVE  TreeType'
<1>1. CASE k = <<>>
  BY <1>1 DEF WithNew, TreeType
<1>2. CASE k # <<>>
  <2>1. k \in Key
    BY <1>2, KeysAssumption DEF KeysAssumption
  <2>2. tree' = [j \in DOMAIN tree \cup {k} |-> IF j = k THEN Default ELSE tree[j]]
    BY <1>2 DEF WithNew
  <2> QED
    BY <2>1, <2>2 DEF TreeType, Values
<1> QED
  BY <1>1, <1>2

\* What a server is started with is the file.
LEMMA LoadedGood ==
  ASSUME NEW f \in Written
  PROVE  Good(Load(f), f)
BY LoadTyped DEF Good, Recovers

LEMMA ConfigInitInv == Init => ConfigInv
<1> SUFFICES ASSUME Init PROVE ConfigInv
  OBVIOUS
<1>1. saver = [t \in Thread |-> Idle] /\ tree = <<>> /\ file = Nothing
  BY DEF Init
<1>2. \A t \in Thread : saver[t] = Idle
  BY <1>1
<1>3. Idle.at = "idle" /\ Idle.new = <<>> /\ Idle.text = Nothing
  BY DEF Idle
<1>4. TreeType
  <2>1. PICK e : e = <<>>
    OBVIOUS
  <2>2. DOMAIN e = {} /\ e = [i \in {} |-> 0]
    BY <2>1
  <2> QED
    BY <1>1, <2>1, <2>2 DEF TreeType
<1>5. Idle \in [at : Places, new : {<<>>} \cup Core \cup Own, text : Written]
  BY NothingWritten DEF Idle, Places
<1>6. SaverType
  BY <1>1, <1>5 DEF SaverType
<1>7. RestType
  <2>1. astray \in BOOLEAN
    BY Zenon DEF Init
  <2>2. changes = 0 /\ starts = 0
    BY DEF Init
  <2> QED
    BY <1>1, <2>1, <2>2, NothingWritten, BoundsAssumption
       DEF RestType, BoundsAssumption
<1>8. TypeOK
  BY <1>4, <1>6, <1>7, ConfigTypeParts
<1>9. NewKeys /\ \A t \in Thread : ~HasOpen(t)
  BY <1>2, <1>3 DEF NewKeys, HasOpen
<1>10. OneOpen
  BY <1>9 DEF OneOpen
<1>11. Good(tree, file)
  <2>1. tree = Load(file)
    BY <1>1, NothingWritten
  <2> QED
    BY <1>1, <2>1, NothingWritten, LoadedGood
<1>12. LastSave
  BY <1>2, <1>3, <1>11 DEF LastSave
<1> QED
  BY <1>8, <1>9, <1>10, <1>12 DEF ConfigInv

-----------------------------------------------------------------------------
\* A thread goes on to another place.
Moved(t, a, x) ==
  /\ saver'[t].at = a /\ saver'[t].new = saver[t].new /\ saver'[t].text = x
  /\ \A u \in Thread \ {t} : saver'[u] = saver[u]
  /\ SaverType'

LEMMA MoveIs ==
  ASSUME SaverType, NEW t \in Thread, NEW a \in Places,
         saver' = [saver EXCEPT ![t].at = a]
  PROVE  Moved(t, a, saver[t].text)
BY DEF SaverType, Moved

LEMMA WriteIs ==
  ASSUME SaverType, NEW t \in Thread, NEW x \in Written,
         saver' = [saver EXCEPT ![t].at = "dumped", ![t].text = x]
  PROVE  Moved(t, "dumped", x)
BY DEF SaverType, Moved, Places

LEMMA FinishIs ==
  ASSUME SaverType, NEW t \in Thread, saver' = [saver EXCEPT ![t] = Idle]
  PROVE  /\ saver'[t] = Idle
         /\ \A u \in Thread \ {t} : saver'[u] = saver[u]
         /\ SaverType'
<1>1. Idle \in [at : Places, new : {<<>>} \cup Core \cup Own, text : Written]
  BY NothingWritten DEF Idle, Places
<1> QED
  BY <1>1 DEF SaverType

IdleIs == Idle.at = "idle" /\ Idle.new = <<>> /\ Idle.text = Nothing

LEMMA IdleParts == IdleIs
BY DEF IdleIs, Idle

LEMMA NewKeysKept ==
  ASSUME NewKeys, DOMAIN tree' = DOMAIN tree,
         \A u \in Thread : saver'[u].new = saver[u].new
  PROVE  NewKeys'
BY DEF NewKeys

\* Somebody is going to write what has changed.
LEMMA GoesToSave ==
  ASSUME ConfigInv, TypeOK', DOMAIN tree' = DOMAIN tree, astray' = astray,
         NEW t \in Thread, ~HasOpen(t),
         Moved(t, "save", saver[t].text)
  PROVE  ConfigInv'
<1>1. NewKeys'
  <2>1. \A u \in Thread : saver'[u].new = saver[u].new
    BY DEF Moved
  <2> QED
    BY <2>1, NewKeysKept DEF ConfigInv
<1>2. \A u \in Thread : HasOpen(u)' => HasOpen(u)
  BY DEF Moved, HasOpen
<1>3. OneOpen => OneOpen'
  BY <1>2 DEF OneOpen
<1>4. Pending'
  BY DEF Moved, Pending
<1> QED
  BY <1>1, <1>3, <1>4 DEF ConfigInv

LEMMA SetInv ==
  ASSUME ConfigInv, NEW t \in Client, NEW k \in DOMAIN tree, NEW v \in Value,
         Set(t, k, v)
  PROVE  ConfigInv'
<1>1. TypeOK /\ TreeType /\ SaverType /\ RestType /\ t \in Thread
  BY ConfigTypeParts DEF ConfigInv, Thread
<1>2. /\ changes < MaxChanges /\ changes' = changes + 1
      /\ saver[t].at = "idle" /\ saver' = [saver EXCEPT ![t].at = "save"]
      /\ tree' = [tree EXCEPT ![k] = v]
      /\ file' = file /\ astray' = astray /\ starts' = starts
  BY DEF Set, Change, Goes
<1>3. Moved(t, "save", saver[t].text)
  BY <1>1, <1>2, MoveIs DEF Places
<1>4. TreeType' /\ DOMAIN tree' = DOMAIN tree
  BY <1>1, <1>2 DEF TreeType, Values
<1>5. RestType'
  BY <1>1, <1>2, BoundsAssumption DEF RestType, BoundsAssumption
<1>6. TypeOK'
  BY <1>3, <1>4, <1>5, ConfigTypePartsNext DEF Moved
<1>7. ~HasOpen(t)
  BY <1>2 DEF HasOpen
<1> QED
  BY <1>1, <1>2, <1>3, <1>4, <1>6, <1>7, GoesToSave

LEMMA SaveAtEndInv ==
  ASSUME ConfigInv, SaveAtEnd
  PROVE  ConfigInv'
<1>1. TypeOK /\ TreeType /\ SaverType /\ RestType /\ Main \in Thread
  BY ConfigTypeParts DEF ConfigInv, Thread
<1>2. /\ changes < MaxChanges /\ changes' = changes + 1
      /\ saver[Main].at = "idle" /\ saver' = [saver EXCEPT ![Main].at = "save"]
      /\ tree' = tree
      /\ file' = file /\ astray' = astray /\ starts' = starts
  BY DEF SaveAtEnd, Change, Goes
<1>3. Moved(Main, "save", saver[Main].text)
  BY <1>1, <1>2, MoveIs DEF Places
<1>4. TreeType' /\ DOMAIN tree' = DOMAIN tree
  BY <1>1, <1>2 DEF TreeType
<1>5. RestType'
  BY <1>1, <1>2, BoundsAssumption DEF RestType, BoundsAssumption
<1>6. TypeOK'
  BY <1>3, <1>4, <1>5, ConfigTypePartsNext DEF Moved
<1>7. ~HasOpen(Main)
  BY <1>2 DEF HasOpen
<1> QED
  BY <1>1, <1>2, <1>3, <1>4, <1>6, <1>7, GoesToSave

LEMMA RegisterInv ==
  ASSUME ConfigInv, NEW t \in Thread, NEW k \in Core \cup Own, Register(t, k)
  PROVE  ConfigInv'
<1>1. TypeOK /\ TreeType /\ SaverType /\ RestType
  BY ConfigTypeParts DEF ConfigInv
<1>2. /\ changes < MaxChanges /\ changes' = changes + 1
      /\ \A u \in Thread : saver[u].new = <<>>
      /\ k \notin DOMAIN tree
      /\ saver[t].at = "idle"
      /\ saver' = [saver EXCEPT ![t].at = "save", ![t].new = k]
      /\ UNCHANGED <<tree, file, astray, starts>>
  BY DEF Register, Change, MutexFree
<1>3. /\ saver'[t].at = "save" /\ saver'[t].new = k
      /\ \A u \in Thread \ {t} : saver'[u] = saver[u]
      /\ SaverType'
  BY <1>1, <1>2 DEF SaverType, Places
<1>4. TreeType'
  BY <1>1, <1>2 DEF TreeType
<1>5. RestType'
  BY <1>1, <1>2, BoundsAssumption DEF RestType, BoundsAssumption
<1>6. TypeOK'
  BY <1>3, <1>4, <1>5, ConfigTypePartsNext
<1>7. NewKeys'
  <2>1. \A u \in Thread : saver'[u].new = <<>> \/ (u = t /\ saver'[u].new = k)
    BY <1>2, <1>3
  <2>2. k \notin DOMAIN tree'
    BY <1>2
  <2> QED
    BY <2>1, <2>2, Zenon DEF NewKeys
<1>8. \A u \in Thread : HasOpen(u)' => HasOpen(u)
  BY <1>2, <1>3 DEF HasOpen
<1>9. OneOpen => OneOpen'
  BY <1>8 DEF OneOpen
<1>10. Pending' /\ astray' = astray
  BY <1>2, <1>3 DEF Pending
<1> QED
  BY <1>6, <1>7, <1>9, <1>10 DEF ConfigInv

LEMMA OpenInv ==
  ASSUME ConfigInv, NEW t \in Thread, Open(t)
  PROVE  ConfigInv'
<1>1. TypeOK /\ TreeType /\ SaverType /\ RestType
  BY ConfigTypeParts DEF ConfigInv
<1>2. /\ saver[t].at = "save" /\ saver' = [saver EXCEPT ![t].at = "opened"]
      /\ file' = Nothing /\ astray' = \E u \in Thread : HasOpen(u)
      /\ UNCHANGED <<tree, changes, starts>>
  BY Zenon DEF Open, Goes
<1>3. Moved(t, "opened", saver[t].text)
  BY <1>1, <1>2, MoveIs DEF Places
<1>4. TreeType'
  BY <1>1, <1>2 DEF TreeType
<1>5. RestType'
  <2>1. astray' \in BOOLEAN
    BY <1>2, Zenon
  <2> QED
    BY <1>1, <1>2, <2>1, NothingWritten DEF RestType
<1>6. TypeOK'
  BY <1>3, <1>4, <1>5, ConfigTypePartsNext DEF Moved
<1>7. NewKeys'
  <2>1. \A u \in Thread : saver'[u].new = saver[u].new
    BY <1>3 DEF Moved
  <2> QED
    BY <1>2, <2>1, NewKeysKept DEF ConfigInv
<1>8. ASSUME ~astray' PROVE OneOpen'
  <2>1. \A u \in Thread : ~HasOpen(u)
    BY <1>2, <1>8, Zenon
  <2>2. \A u \in Thread \ {t} : ~HasOpen(u)'
    BY <1>3, <2>1 DEF Moved, HasOpen
  <2> QED
    BY <2>2 DEF OneOpen
<1>9. Pending'
  BY <1>3 DEF Moved, Pending
<1> QED
  BY <1>6, <1>7, <1>8, <1>9 DEF ConfigInv
\* A save that has returned, with or without success.
LEMMA FinishParts ==
  ASSUME TypeOK, NewKeys, NEW t \in Thread, Finish(t)
  PROVE  /\ saver'[t] = Idle /\ \A u \in Thread \ {t} : saver'[u] = saver[u]
         /\ SaverType' /\ TreeType' /\ NewKeys'
         /\ tree' = WithNew(tree, saver[t].new)
         /\ saver[t].new # <<>> => saver[t].new \notin DOMAIN tree
<1>1. SaverType /\ TreeType
  BY ConfigTypeParts
<1>2. /\ saver' = [saver EXCEPT ![t] = Idle]
      /\ tree' = WithNew(tree, saver[t].new)
  BY Zenon DEF Finish, WithNew
<1>3. /\ saver'[t] = Idle /\ \A u \in Thread \ {t} : saver'[u] = saver[u]
      /\ SaverType'
  BY <1>1, <1>2, FinishIs
<1>4. saver[t].new \in {<<>>} \cup Core \cup Own
  BY <1>1 DEF SaverType
<1>5. TreeType'
  BY <1>1, <1>2, <1>4, NewKeyTyped
<1>6. saver[t].new # <<>> => saver[t].new \notin DOMAIN tree
  BY DEF NewKeys
<1>7. NewKeys'
  <2>1. \A u \in Thread : saver'[u].new = <<>> \/ (u # t /\ saver'[u].new = saver[u].new)
    BY <1>3, IdleParts DEF IdleIs
  <2>2. ASSUME NEW u \in Thread, u # t, saver[u].new # <<>>
        PROVE  saver[u].new \notin DOMAIN tree'
    <3>1. saver[t].new = <<>> /\ saver[u].new \notin DOMAIN tree
      BY <2>2 DEF NewKeys
    <3> QED
      BY <1>2, <3>1 DEF WithNew
  <2>3. \A u \in Thread : saver'[u].new # <<>> => saver'[u].new \notin DOMAIN tree'
    BY <2>1, <2>2
  <2>4. \A u, v \in Thread : saver'[u].new # <<>> /\ saver'[v].new # <<>> => u = v
    BY <2>1 DEF NewKeys
  <2> QED
    BY <2>3, <2>4, Zenon DEF NewKeys
<1> QED
  BY <1>2, <1>3, <1>5, <1>6, <1>7

LEMMA OpenFailsInv ==
  ASSUME ConfigInv, NEW t \in Thread, OpenFails(t)
  PROVE  ConfigInv'
<1>1. TypeOK /\ NewKeys
  BY DEF ConfigInv
<1>2. Finish(t) /\ astray' = TRUE /\ UNCHANGED <<file, changes, starts>>
  BY DEF OpenFails
<1>3. SaverType' /\ TreeType' /\ NewKeys'
  BY <1>1, <1>2, FinishParts
<1>4. RestType'
  <2>1. astray' \in BOOLEAN
    BY <1>2, Zenon
  <2> QED
    BY <1>1, <1>2, <2>1, ConfigTypeParts DEF RestType
<1>5. TypeOK'
  BY <1>3, <1>4, ConfigTypePartsNext
<1>6. astray'
  BY <1>2
<1> QED
  BY <1>3, <1>5, <1>6 DEF ConfigInv

LEMMA WriteInv ==
  ASSUME ConfigInv, NEW t \in Thread, Write(t)
  PROVE  ConfigInv'
<1>1. TypeOK /\ TreeType /\ SaverType /\ RestType
  BY ConfigTypeParts DEF ConfigInv
<1>2. /\ saver[t].at = "opened"
      /\ saver' = [saver EXCEPT ![t].at = "dumped", ![t].text = Dump]
      /\ UNCHANGED <<tree, file, astray, changes, starts>>
  BY DEF Write
<1>3. Moved(t, "dumped", Dump)
  BY <1>1, <1>2, DumpWritten, WriteIs
<1>4. TreeType' /\ RestType'
  BY <1>1, <1>2 DEF TreeType, RestType
<1>5. TypeOK'
  BY <1>3, <1>4, ConfigTypePartsNext DEF Moved
<1>6. NewKeys'
  <2>1. \A u \in Thread : saver'[u].new = saver[u].new
    BY <1>3 DEF Moved
  <2> QED
    BY <1>2, <2>1, NewKeysKept DEF ConfigInv
<1>7. \A u \in Thread : HasOpen(u)' <=> HasOpen(u)
  BY <1>2, <1>3 DEF Moved, HasOpen
<1>8. OneOpen => OneOpen'
  BY <1>7 DEF OneOpen
<1>9. ASSUME OneOpen PROVE LastSave'
  <2>1. HasOpen(t)'
    BY <1>3 DEF Moved, HasOpen
  <2>2. ASSUME NEW u \in Thread, saver'[u].at = "dumped"
        PROVE  Good(tree', saver'[u].text)
    <3>1. HasOpen(u)' /\ HasOpen(t)'
      BY <2>1, <2>2 DEF HasOpen
    <3>2. u = t
      BY <1>7, <1>9, <3>1 DEF OneOpen
    <3>3. saver'[u].text = Dump /\ tree' = tree
      BY <1>2, <1>3, <3>2 DEF Moved
    <3> QED
      BY <1>1, <3>3, DumpGood
  <2> QED
    BY <2>1, <2>2 DEF LastSave
<1>10. astray' = astray
  BY <1>2
<1> QED
  BY <1>5, <1>6, <1>8, <1>9, <1>10 DEF ConfigInv

LEMMA CloseInv ==
  ASSUME ConfigInv, NEW t \in Thread, Close(t)
  PROVE  ConfigInv'
<1>1. TypeOK /\ TreeType /\ SaverType /\ RestType /\ NewKeys
  BY ConfigTypeParts DEF ConfigInv
<1>2. /\ saver[t].at = "dumped" /\ Finish(t)
      /\ file' = saver[t].text \/ (astray /\ file' = Nothing)
      /\ UNCHANGED <<astray, changes, starts>>
  BY DEF Close
<1>3. /\ saver'[t] = Idle /\ \A u \in Thread \ {t} : saver'[u] = saver[u]
      /\ SaverType' /\ TreeType' /\ NewKeys'
      /\ tree' = WithNew(tree, saver[t].new)
      /\ saver[t].new # <<>> => saver[t].new \notin DOMAIN tree
  BY <1>1, <1>2, FinishParts
<1>4. saver[t].text \in Written
  BY <1>1 DEF SaverType
<1>5. RestType'
  BY <1>1, <1>2, <1>4, NothingWritten DEF RestType
<1>6. TypeOK'
  BY <1>3, <1>5, ConfigTypePartsNext
<1>7. Idle.at = "idle"
  BY IdleParts DEF IdleIs
<1>8. \A u \in Thread : HasOpen(u)' => HasOpen(u) /\ u # t
  BY <1>3, <1>7 DEF HasOpen
<1>9. OneOpen => OneOpen'
  BY <1>8 DEF OneOpen
<1>10. Pending => Pending'
  BY <1>2, <1>3 DEF Pending
<1>11. ASSUME ~astray, ~Pending, OneOpen PROVE LastSave'
  <2>1. Good(tree, saver[t].text)
    BY <1>2, <1>11 DEF ConfigInv, LastSave
  <2>2. Good(tree', file')
    <3>1. file' = saver[t].text
      BY <1>2, <1>11
    <3> QED
      BY <1>3, <2>1, <3>1, NewKeyGood
  <2>3. \A u \in Thread : ~HasOpen(u)'
    BY <1>2, <1>8, <1>11 DEF OneOpen, HasOpen
  <2>4. \A u \in Thread : saver'[u].at # "dumped"
    BY <2>3 DEF HasOpen
  <2> QED
    BY <2>2, <2>4 DEF LastSave
<1>12. astray' = astray
  BY <1>2
<1> QED
  BY <1>3, <1>6, <1>9, <1>10, <1>11, <1>12 DEF ConfigInv

LEMMA StartInv ==
  ASSUME ConfigInv, Start
  PROVE  ConfigInv'
<1>1. TypeOK /\ TreeType /\ SaverType /\ RestType
  BY ConfigTypeParts DEF ConfigInv
<1>2. /\ starts < MaxStarts /\ starts' = starts + 1
      /\ tree' = Load(file) /\ saver' = [t \in Thread |-> Idle]
      /\ astray' = FALSE /\ file' = file /\ changes' = changes
  BY DEF Start
<1>3. file \in Written
  BY <1>1 DEF RestType
<1>4. TreeType'
  BY <1>2, <1>3, LoadTyped DEF TreeType
<1>5. Idle \in [at : Places, new : {<<>>} \cup Core \cup Own, text : Written]
  BY NothingWritten DEF Idle, Places
<1>6. SaverType' /\ \A t \in Thread : saver'[t] = Idle
  BY <1>2, <1>5 DEF SaverType
<1>7. RestType'
  <2>1. astray' \in BOOLEAN
    BY <1>2, Zenon
  <2> QED
    BY <1>1, <1>2, <2>1, BoundsAssumption DEF RestType, BoundsAssumption
<1>8. TypeOK'
  BY <1>4, <1>6, <1>7, ConfigTypePartsNext
<1>9. Idle.at = "idle" /\ Idle.new = <<>>
  BY IdleParts DEF IdleIs
<1>10. NewKeys' /\ \A t \in Thread : ~HasOpen(t)'
  BY <1>6, <1>9 DEF NewKeys, HasOpen
<1>11. OneOpen'
  BY <1>10 DEF OneOpen
<1>12. Good(tree', file')
  BY <1>2, <1>3, LoadedGood
<1>13. LastSave'
  BY <1>6, <1>9, <1>12 DEF LastSave
<1> QED
  BY <1>8, <1>10, <1>11, <1>13 DEF ConfigInv

LEMMA ConfigStepInv == ConfigInv /\ [Next]_vars => ConfigInv'
<1> SUFFICES ASSUME ConfigInv, [Next]_vars PROVE ConfigInv'
  OBVIOUS
<1>1. ASSUME NEW t \in Client, NEW k \in DOMAIN tree, NEW v \in Value, Set(t, k, v)
      PROVE  ConfigInv'
  BY <1>1, SetInv
<1>2. ASSUME NEW t \in Thread, NEW k \in Core \cup Own, Register(t, k)
      PROVE  ConfigInv'
  BY <1>2, RegisterInv
<1>3. CASE SaveAtEnd
  BY <1>3, SaveAtEndInv
<1>4. ASSUME NEW t \in Thread, Open(t) \/ OpenFails(t) \/ Write(t) \/ Close(t)
      PROVE  ConfigInv'
  BY <1>4, OpenInv, OpenFailsInv, WriteInv, CloseInv
<1>5. CASE Start
  BY <1>5, StartInv
<1>6. CASE UNCHANGED vars
  <2>1. TypeOK => TypeOK'
    BY <1>6 DEF vars, TypeOK
  <2>2. UNCHANGED <<tree, file, saver, astray>>
    BY <1>6 DEF vars
  <2> QED
    BY <2>1, <2>2 DEF ConfigInv, NewKeys, OneOpen, Pending, LastSave, HasOpen
<1> QED
  BY <1>1, <1>2, <1>3, <1>4, <1>5, <1>6 DEF Next

LEMMA ConfigInductive == Spec => []ConfigInv
BY ConfigInitInv, ConfigStepInv, PTL DEF Spec

LEMMA InvCrash == ConfigInv => CrashLosesNothing
<1> SUFFICES ASSUME ConfigInv, Settled, ~Unwritable, NEW k \in DOMAIN tree
             PROVE  Recovered(k) = IF tree[k] = Empty THEN Default ELSE tree[k]
  BY DEF ConfigInv, CrashLosesNothing
<1>1. \A t \in Thread : saver[t].at = "idle"
  BY IdleParts DEF Settled, IdleIs
<1>2. ~Pending /\ ~astray /\ \A t \in Thread : ~HasOpen(t)
  BY <1>1 DEF Pending, HasOpen, Settled
<1>3. Good(tree, file)
  BY <1>2 DEF ConfigInv, LastSave
<1>4. Recovers(tree, file)
  BY <1>3 DEF Good, UnwritableIn, Unwritable
<1> QED
  BY <1>4, Zenon DEF Recovers, Recovered

\* A crash when the last save has ended well loses nothing that the file can
\* hold, whoever changed the configuration meanwhile.
THEOREM SavedConfigSurvives == Spec => []CrashLosesNothing
BY ConfigInductive, InvCrash, PTL
=============================================================================
