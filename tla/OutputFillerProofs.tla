------------------------- MODULE OutputFillerProofs -------------------------
(***************************************************************************)
(* No wake-up between filler, output thread and clients is missed, the     *)
(* stream ends only for a stopped filler, and the filler sleeps only where *)
(* it sees a request; and at most one block is played under another song's *)
(* name: for any sizes of buffer, block and chunk, and any number of       *)
(* clients, commands and songs.                                            *)
(***************************************************************************)
EXTENDS OutputFiller, FiniteSetTheorems, WellFoundedInduction, TLAPS

-----------------------------------------------------------------------------
(***************************************************************************)
(* How many units of data a ring holds.                                    *)
(***************************************************************************)

AnyItem == [kind : {"data", "song", "seek"}, chain : Nat]

Rings == Seq(AnyItem)

LEMMA SizeOfInterval ==
  ASSUME NEW a \in Nat, NEW w \in Nat
  PROVE  IsFiniteSet(a + 1..a + w) /\ Cardinality(a + 1..a + w) = w
<1> DEFINE b == a + 1
           e == a + w
<1>1. b \in Int /\ e \in Int
  OBVIOUS
<1> HIDE DEF b, e
<1>2. IsFiniteSet(b..e) /\ Cardinality(b..e) = IF b > e THEN 0 ELSE e - b + 1
  BY <1>1, FS_Interval
<1>3. (IF b > e THEN 0 ELSE e - b + 1) = w
  BY DEF b, e
<1> QED
  BY <1>2, <1>3 DEF b, e

LEMMA SizeOfUnion ==
  ASSUME NEW S, NEW T, IsFiniteSet(S), IsFiniteSet(T), S \cap T = {}
  PROVE  Cardinality(S \cup T) = Cardinality(S) + Cardinality(T)
<1>1. Cardinality(S \cap T) = 0
  BY FS_EmptySet, Zenon
<1>2. Cardinality(S \cup T) = Cardinality(S) + Cardinality(T) - Cardinality(S \cap T)
  BY FS_Union, Zenon
<1>3. Cardinality(S) \in Nat /\ Cardinality(T) \in Nat
  BY FS_CardinalityType, Zenon
<1> QED
  BY <1>1, <1>2, <1>3

LEMMA UsedType ==
  ASSUME NEW r \in Rings
  PROVE  /\ IsFiniteSet(DataAt(r))
         /\ Used(r) \in Nat
<1>1. IsFiniteSet(1..Len(r))
  BY FS_Interval DEF Rings
<1>2. DataAt(r) \in SUBSET (1..Len(r))
  BY Zenon DEF DataAt
<1>3. IsFiniteSet(DataAt(r))
  BY <1>1, <1>2, FS_Subset
<1> QED
  BY <1>3, FS_CardinalityType, Zenon DEF Used

LEMMA UsedEmpty == << >> \in Rings /\ Used(<< >>) = 0
<1>1. DataAt(<< >>) = {}
  BY DEF DataAt
<1>2. << >> \in Rings
  BY DEF Rings
<1> QED
  BY <1>1, <1>2, FS_EmptySet, Zenon DEF Used

LEMMA UsedSeekDone == <<SeekDone>> \in Rings /\ Used(<<SeekDone>>) = 0
<1>1. <<SeekDone>> \in Rings
  BY DEF Rings, AnyItem, SeekDone, NoChain
<1>2. DataAt(<<SeekDone>>) = {}
  BY DEF DataAt, SeekDone
<1> QED
  BY <1>1, <1>2, FS_EmptySet, Zenon DEF Used

\* Writing w units.
LEMMA UsedWritten ==
  ASSUME NEW r \in Rings, NEW w \in Nat, NEW c \in Nat
  PROVE  LET s == r \o [i \in 1..w |-> Data(c)]
         IN  s \in Rings /\ Used(s) = Used(r) + w
<1> DEFINE t == [i \in 1..w |-> Data(c)]
           s == r \o t
<1>1. t \in Rings /\ Len(t) = w
  BY DEF Rings, AnyItem, Data
<1>2. s \in Rings /\ Len(s) = Len(r) + w
  BY <1>1 DEF Rings
<1>3. DataAt(s) = DataAt(r) \cup (Len(r) + 1..Len(r) + w)
  <2>1. Len(r) \in Nat
    BY DEF Rings
  <2>2. ASSUME NEW i \in 1..Len(r) PROVE s[i] = r[i]
    BY <1>1, <2>1, <2>2 DEF Rings
  <2>3. ASSUME NEW i \in Len(r) + 1..Len(r) + w PROVE s[i].kind = "data"
    <3>1. s[i] = t[i - Len(r)]
      BY <1>1, <2>1, <2>3 DEF Rings
    <3>2. i - Len(r) \in 1..w
      BY <2>1
    <3>3. t[i - Len(r)] = Data(c)
      BY <3>2
    <3> QED
      BY <3>1, <3>3 DEF Data
  <2> HIDE DEF s, t
  <2> QED
    BY <1>2, <2>1, <2>2, <2>3 DEF DataAt
<1>4. /\ IsFiniteSet(DataAt(r)) /\ Cardinality(DataAt(r)) \in Nat
      /\ Len(r) \in Nat
  BY UsedType DEF Used, Rings
<1>5. /\ IsFiniteSet(Len(r) + 1..Len(r) + w)
      /\ Cardinality(Len(r) + 1..Len(r) + w) = w
  BY <1>4, SizeOfInterval, Zenon
<1>6. DataAt(r) \cap (Len(r) + 1..Len(r) + w) = {}
  BY <1>4 DEF DataAt
<1>7. Cardinality(DataAt(s)) = Cardinality(DataAt(r)) + w
  BY <1>3, <1>4, <1>5, <1>6, SizeOfUnion, Zenon
<1> QED
  BY <1>2, <1>7 DEF Used

\* Setting a hotspot.
LEMMA UsedAnnounced ==
  ASSUME NEW r \in Rings, NEW c \in Nat
  PROVE  /\ Append(r, SongChanged(c)) \in Rings
         /\ Used(Append(r, SongChanged(c))) = Used(r)
<1>1. Append(r, SongChanged(c)) \in Rings
  BY DEF Rings, AnyItem, SongChanged
<1>2. DataAt(Append(r, SongChanged(c))) = DataAt(r)
  BY DEF DataAt, Rings, SongChanged
<1> QED
  BY <1>1, <1>2 DEF Used

\* Taking items off the front.
LEMMA UsedTaken ==
  ASSUME NEW r \in Rings, NEW m \in Nat
  PROVE  LET s == SubSeq(r, m + 1, Len(r))
         IN  /\ s \in Rings
             /\ Used(s) <= Used(r)
             /\ (\A i \in 1..m : i <= Len(r) => r[i].kind # "data")
                  => Used(s) = Used(r)
<1> DEFINE s == SubSeq(r, m + 1, Len(r))
<1>1. Len(r) \in Nat /\ \A i \in 1..Len(r) : r[i] \in AnyItem
  BY DEF Rings
<1>2. /\ s \in Rings
      /\ Len(s) = IF m + 1 <= Len(r) THEN Len(r) - m ELSE 0
      /\ \A i \in 1..Len(r) - m : s[i] = r[m + i]
  BY <1>1 DEF Rings
<1> DEFINE f == [i \in DataAt(s) |-> i + m]
<1> HIDE DEF s
<1>3. DataAt(s) \subseteq Nat /\ \A i \in DataAt(s) : i + m \in DataAt(r)
  BY <1>1, <1>2 DEF DataAt
<1>4. f \in Injection(DataAt(s), DataAt(r))
  BY <1>3 DEF Injection, IsInjective
<1>5. IsFiniteSet(DataAt(r)) /\ IsFiniteSet(DataAt(s))
  BY <1>2, UsedType
<1>6. Used(s) <= Used(r)
  BY <1>4, <1>5, FS_Injection DEF Used
<1>7. ASSUME \A i \in 1..m : i <= Len(r) => r[i].kind # "data"
      PROVE  Used(s) = Used(r)
  <2>1. \A j \in DataAt(r) : j - m \in DataAt(s) /\ (j - m) + m = j
    BY <1>1, <1>2, <1>7 DEF DataAt
  <2>2. f \in Surjection(DataAt(s), DataAt(r))
    BY <1>3, <2>1 DEF Surjection
  <2> QED
    BY <1>4, <1>5, <2>2, FS_Injection, Zenon DEF Used
<1> QED
  BY <1>2, <1>6, <1>7 DEF s

-----------------------------------------------------------------------------
(***************************************************************************)
(* What a step makes of the filler thread, field by field.                 *)
(***************************************************************************)

Fillers == [pc : FillerPc, chain : Nat, ret : Nat]

Is(f, p, c, q) == f \in Fillers /\ f.pc = p /\ f.chain = c /\ f.ret = q

LEMMA FieldTypes ==
  ASSUME NEW f \in Fillers
  PROVE  f.pc \in FillerPc /\ f.chain \in Nat /\ f.ret \in Nat
BY DEF Fillers

LEMMA Updated ==
  ASSUME NEW f \in Fillers, NEW p \in FillerPc, NEW c \in Nat, NEW q \in Nat
  PROVE  /\ Is([f EXCEPT !.pc = p], p, f.chain, f.ret)
         /\ Is([f EXCEPT !.chain = c], f.pc, c, f.ret)
         /\ Is([f EXCEPT !.pc = p, !.chain = c], p, c, f.ret)
         /\ Is([f EXCEPT !.pc = p, !.ret = q], p, f.chain, q)
BY DEF Is, Fillers

TopPc(f) == IF f.pc = "stop_wait" THEN "top" ELSE f.pc

FreePc(p) == IF p = "free_wait" THEN "free_woken"
             ELSE IF p = "write_wait" THEN "write_woken" ELSE p

LEMMA StateSignalledFields ==
  ASSUME NEW f \in Fillers
  PROVE  Is(StateSignalled(f), TopPc(f), f.chain, f.ret)
<1>1. CASE f.pc = "stop_wait"
  <2>1. "top" \in FillerPc
    BY DEF FillerPc
  <2>2. Is([f EXCEPT !.pc = "top"], "top", f.chain, f.ret)
    BY <2>1, Updated, FieldTypes, Zenon
  <2> QED
    BY <1>1, <2>2, Zenon DEF StateSignalled, TopPc
<1>2. CASE f.pc # "stop_wait"
  BY <1>2, Zenon DEF StateSignalled, TopPc, Is
<1> QED
  BY <1>1, <1>2, Zenon

LEMMA FreeSignalledFields ==
  ASSUME NEW f \in Fillers
  PROVE  Is(FreeSignalled(f), FreePc(f.pc), f.chain, f.ret)
<1>1. /\ Is([f EXCEPT !.pc = "free_woken"], "free_woken", f.chain, f.ret)
      /\ Is([f EXCEPT !.pc = "write_woken"], "write_woken", f.chain, f.ret)
  <2>1. "free_woken" \in FillerPc /\ "write_woken" \in FillerPc
    BY DEF FillerPc
  <2> QED
    BY <2>1, Updated, FieldTypes, Zenon
<1>2. CASE f.pc = "free_wait"
  BY <1>1, <1>2, Zenon DEF FreeSignalled, FreePc
<1>3. CASE f.pc = "write_wait"
  BY <1>1, <1>3 DEF FreeSignalled, FreePc
<1>4. CASE f.pc # "free_wait" /\ f.pc # "write_wait"
  BY <1>4, Zenon DEF FreeSignalled, FreePc, Is
<1> QED
  BY <1>2, <1>3, <1>4, Zenon

WaitPc(r, s) == IF Free(r) < Block /\ ~ eos THEN "free_wait"
                ELSE IF s # "RUN" THEN "top" ELSE "read"

LEMMA WaitedFields ==
  ASSUME NEW f \in Fillers, NEW r, NEW s
  PROVE  Is(AfterWaitFree(f, r, s), WaitPc(r, s), f.chain, f.ret)
<1>1. \A p \in {"free_wait", "top", "read"} :
         Is([f EXCEPT !.pc = p], p, f.chain, f.ret)
  <2>1. {"free_wait", "top", "read"} \subseteq FillerPc
    BY DEF FillerPc
  <2> QED
    BY <2>1, Updated, FieldTypes, Zenon
<1>2. CASE Free(r) < Block /\ ~ eos
  BY <1>1, <1>2, Zenon DEF AfterWaitFree, WaitPc
<1>3. CASE ~ (Free(r) < Block /\ ~ eos) /\ s # "RUN"
  BY <1>1, <1>3, Zenon DEF AfterWaitFree, WaitPc
<1>4. CASE ~ (Free(r) < Block /\ ~ eos) /\ s = "RUN"
  BY <1>1, <1>4, Zenon DEF AfterWaitFree, WaitPc
<1> QED
  BY <1>2, <1>3, <1>4, Zenon

-----------------------------------------------------------------------------
(***************************************************************************)
(* The inductive invariant.                                                *)
(***************************************************************************)

Types ==
  /\ filler \in Fillers
  /\ ring \in Rings /\ Used(ring) <= Usable
  /\ toskip \in Nat /\ filler_skip \in Nat /\ songs \in Nat

\* The stream is marked ended by the filler that stops, which then has no chain
\* and gets none before it is told to run, or together with a stop that the
\* filler has not seen.
EndedStopped ==
  eos /\ ~ overtaken =>
    \/ unseen /\ filler_state = "STOP"
    \/ /\ filler_state \in {"STOP", "SEEK"}
       /\ filler.chain = NoChain
       /\ filler.pc \in {"top", "stop_wait", "done"}

\* What is decoded has room in the buffer, or the filler has been told to stop
\* and the buffer cleared since.
HasRoom ==
  ~ overtaken =>
    /\ filler.pc = "read" => Free(ring) >= Block
    /\ filler.pc \notin {"write_wait", "write_woken"}

IInv == Types /\ NoMissedWakeup /\ EndedStopped /\ HasRoom

\* What the invariant says of the fields, with the records hidden.
LEMMA InvFields ==
  ASSUME IInv
  PROVE  /\ filler.pc \in FillerPc /\ filler.chain \in Nat /\ filler.ret \in Nat
         /\ Used(ring) \in Nat /\ Used(ring) <= Usable
         /\ filler \in Fillers /\ ring \in Rings
         /\ toskip \in Nat /\ filler_skip \in Nat /\ songs \in Nat
BY FieldTypes, UsedType DEF IInv, Types

LEMMA InitIInv == Init => IInv
<1> SUFFICES ASSUME Init PROVE IInv
  OBVIOUS
<1>1. ring \in Rings /\ Used(ring) = 0
  BY UsedEmpty, Zenon DEF Init
<1>2. /\ filler = [pc |-> "top", chain |-> 0, ret |-> 0] /\ reader = "idle"
      /\ toskip = 0 /\ filler_skip = 0 /\ songs = 0 /\ eos = FALSE
  BY Zenon DEF Init, NoChain
<1> QED
  BY <1>1, <1>2, BufferAssumption
     DEF IInv, Types, Fillers, FillerPc, NoMissedWakeup, EndedStopped, HasRoom

Inner == <<filler_state, filler, ring, eos, toskip, filler_skip, reader, songs,
           unseen, overtaken>>

LEMMA UnchangedStep == ASSUME IInv, UNCHANGED Inner PROVE IInv'
BY Zenon DEF IInv, Types, NoMissedWakeup, EndedStopped, HasRoom, Inner

LEMMA SizesKnown ==
  /\ Usable \in Nat /\ Block \in Nat \ {0} /\ Chunk \in Nat \ {0}
  /\ Usable >= Block
  /\ Used(<< >>) = 0 /\ << >> \in Rings
BY BufferAssumption, UsedEmpty


\* What xmms_output_filler_state makes of the filler.
LEMMA FillerStateEffect ==
  ASSUME filler \in Fillers, NEW s \in {"STOP", "RUN", "QUIT", "KILL"}, FillerState(s)
  PROVE  /\ Is(filler', IF s \in Clearing THEN FreePc(TopPc(filler)) ELSE TopPc(filler),
               filler.chain, filler.ret)
         /\ filler_state' = s
         /\ ring' = IF s \in Clearing THEN << >> ELSE ring
         /\ eos' = (eos /\ s = "STOP")
         /\ unseen' = (s \in Clearing)
         /\ overtaken' = (overtaken \/ (unseen /\ ~ (s \in Clearing)))
         /\ UNCHANGED <<toskip, filler_skip, reader, songs>>
         /\ UNCHANGED <<current_entry, silenced>>
<1> DEFINE clear == s \in Clearing
           f == StateSignalled(filler)
<1>1. Is(f, TopPc(filler), filler.chain, filler.ret)
  BY StateSignalledFields, Zenon
<1>2. Is(FreeSignalled(f), FreePc(TopPc(filler)), filler.chain, filler.ret)
  BY <1>1, FreeSignalledFields, Zenon DEF Is
<1>3. Is(filler', IF clear THEN FreePc(TopPc(filler)) ELSE TopPc(filler),
         filler.chain, filler.ret)
  <2>1. filler' = IF clear THEN FreeSignalled(f) ELSE f
    BY Zenon DEF FillerState
  <2> HIDE DEF f, clear
  <2> QED
    BY <1>1, <1>2, <2>1, Zenon
<1> QED
  BY <1>3, Zenon DEF FillerState, EosAfter

\* xmms_output_filler_state, by whichever command.
LEMMA FillerStateStep ==
  ASSUME IInv, NEW s \in {"STOP", "RUN", "QUIT", "KILL"}, FillerState(s)
  PROVE  IInv'
<1> DEFINE clear == s \in Clearing
<1>3. Is(filler', IF clear THEN FreePc(TopPc(filler)) ELSE TopPc(filler),
         filler.chain, filler.ret)
  BY InvFields, FillerStateEffect, Zenon
<1>4. /\ filler_state' = s
      /\ ring' = IF clear THEN << >> ELSE ring
      /\ eos' = (eos /\ s = "STOP")
      /\ unseen' = clear
      /\ overtaken' = (overtaken \/ (unseen /\ ~ clear))
      /\ UNCHANGED <<toskip, filler_skip, reader, songs>>
  BY InvFields, FillerStateEffect, Zenon
<1>5. clear <=> s # "RUN"
  BY DEF Clearing
<1> HIDE DEF clear
<1>6. /\ filler.pc \in FillerPc
      /\ Used(ring) \in Nat /\ Used(ring) <= Usable /\ ring \in Rings
      /\ toskip \in Nat /\ filler_skip \in Nat /\ songs \in Nat
  BY InvFields, Zenon
<1>7. CASE s = "RUN"
  <2>1. filler'.pc = TopPc(filler) /\ filler'.chain = filler.chain
        /\ filler' \in Fillers
    BY <1>3, <1>5, <1>7, Zenon DEF Is
  <2>2. /\ filler_state' = "RUN" /\ ring' = ring /\ eos' = FALSE
        /\ overtaken' = (overtaken \/ unseen)
        /\ UNCHANGED <<toskip, filler_skip, reader, songs>>
    BY <1>4, <1>5, <1>7
  <2> QED
    BY <1>6, <2>1, <2>2
       DEF IInv, Types, NoMissedWakeup, EndedStopped, HasRoom, TopPc
<1>8. CASE s # "RUN"
  <2>1. filler'.pc = FreePc(TopPc(filler)) /\ filler'.chain = filler.chain
        /\ filler' \in Fillers
    BY <1>3, <1>5, <1>8, Zenon DEF Is
  <2>2. /\ filler_state' = s /\ Used(ring') = 0 /\ ring' \in Rings
        /\ eos' = (eos /\ s = "STOP")
        /\ unseen' = TRUE /\ (overtaken' <=> overtaken)
        /\ UNCHANGED <<toskip, filler_skip, reader, songs>>
    BY <1>4, <1>5, <1>8, SizesKnown
  <2>3. Types'
    BY <1>6, <2>1, <2>2, SizesKnown DEF Types
  <2>4. NoMissedWakeup'
    <3>1. filler'.pc \notin {"stop_wait", "free_wait", "write_wait"}
      BY <2>1 DEF FreePc, TopPc
    <3>2. reader' = "used_wait" => ~ eos
      BY <2>2 DEF IInv, NoMissedWakeup
    <3>3. eos' => eos
      BY <2>2
    <3>4. Used(ring') < Chunk
      BY <2>2, SizesKnown
    <3> QED
      BY <3>1, <3>2, <3>3, <3>4 DEF NoMissedWakeup
  <2>5. EndedStopped'
    BY <2>1, <2>2 DEF EndedStopped
  <2>6. HasRoom'
    BY <1>6, <2>1, <2>2, SizesKnown DEF IInv, HasRoom, FreePc, TopPc, Free
  <2> QED
    BY <2>3, <2>4, <2>5, <2>6 DEF IInv
<1> QED
  BY <1>7, <1>8

LEMMA FillerSeekStateStep == ASSUME IInv, FillerSeekState PROVE IInv'
<1>1. Is(filler', TopPc(filler), filler.chain, filler.ret)
  BY InvFields, StateSignalledFields, Zenon DEF FillerSeekState
<1>2. /\ filler'.pc = TopPc(filler)
      /\ filler'.chain = filler.chain /\ filler' \in Fillers
  BY <1>1, Zenon DEF Is
<1>3. /\ filler_state' = "SEEK" /\ unseen' = FALSE
      /\ overtaken' = (overtaken \/ unseen)
      /\ UNCHANGED <<ring, eos, toskip, filler_skip, reader, songs>>
  BY Zenon DEF FillerSeekState
<1> QED
  BY <1>2, <1>3, InvFields, SizesKnown
     DEF IInv, Types, NoMissedWakeup, EndedStopped, HasRoom, TopPc, Free

LEMMA RequestsStep == ASSUME IInv, Requests PROVE IInv'
<1>1. \/ \E s \in {"STOP", "RUN", "QUIT", "KILL"} : FillerState(s)
      \/ FillerSeekState
      \/ UNCHANGED unchangedFiller
  BY Zenon DEF Requests, Start, StartStatus, StartUndo, Stop, StopFiller, Pause,
               Tickle, Seek, Destroy, Joined
<1>2. UNCHANGED unchangedFiller => UNCHANGED Inner
  BY Zenon DEF unchangedFiller, Inner
<1> QED
  BY <1>1, <1>2, FillerStateStep, FillerSeekStateStep, UnchangedStep, Zenon

\* The steps of the filler that leave the ring alone.
LEMMA LookStep ==
  ASSUME IInv,
         \/ SeeQuit \/ SeeStop \/ SeeKill \/ SeekWithoutChain
         \/ RunNoChain \/ GiveUp \/ TryNextSong \/ SongOver
  PROVE  IInv'
<1> DEFINE Becomes(p, c) == Is(filler', p, c, filler.ret)
<1>1. /\ filler.pc \in FillerPc /\ filler.chain \in Nat /\ filler \in Fillers
      /\ Used(ring) \in Nat /\ Used(ring) <= Usable /\ ring \in Rings
      /\ toskip \in Nat /\ filler_skip \in Nat /\ songs \in Nat
      /\ filler.ret \in Nat
  BY InvFields, Zenon
<1>2. 0 \in Nat /\ MIN(songs + 1, MaxSongs) \in Nat /\ songs + 1 \in Nat
  BY <1>1, BoundsAssumption DEF MIN
<1>3. {"done", "stop_wait", "lookup", "top"} \subseteq FillerPc
  BY DEF FillerPc
<1> USE <1>1, <1>2
<1>4. CASE SeeQuit
  <2>1. Becomes("done", filler.chain)
    BY <1>3, <1>4, Updated, Zenon DEF SeeQuit
  <2>2. /\ filler.pc = "top" /\ filler_state = "QUIT"
        /\ UNCHANGED <<filler_state, ring, eos, toskip, filler_skip, reader,
                       songs, overtaken>>
    BY <1>4, Zenon DEF SeeQuit, AtTop
  <2> QED
    BY <2>1, <2>2 DEF IInv, Types, NoMissedWakeup, EndedStopped, HasRoom, Is
<1>5. CASE SeeStop
  <2>1. Becomes("stop_wait", 0)
    BY <1>3, <1>5, Updated, Zenon DEF SeeStop, NoChain
  <2>2. /\ filler.pc = "top" /\ filler_state = "STOP"
        /\ eos' = TRUE /\ reader' = UsedSignalled(reader)
        /\ UNCHANGED <<filler_state, ring, toskip, filler_skip, songs, overtaken>>
    BY <1>5, Zenon DEF SeeStop, AtTop
  <2> QED
    BY <2>1, <2>2
       DEF IInv, Types, NoMissedWakeup, EndedStopped, HasRoom, Is, NoChain,
           UsedSignalled
<1>6. CASE SeeKill
  <2>1. /\ filler.pc = "top" /\ filler_state = "KILL"
        /\ filler_state' \in {"RUN", "STOP"}
        /\ Is(filler', filler.pc, filler'.chain, filler.ret)
        /\ UNCHANGED <<ring, eos, toskip, filler_skip, reader, songs, overtaken>>
    <3>1. CASE filler.chain # NoChain
      <4>1. Becomes(filler.pc, 0) /\ filler_state' = "RUN"
        BY <1>6, <3>1, Updated, Zenon DEF SeeKill, NoChain
      <4> QED
        BY <1>6, <4>1, Zenon DEF SeeKill, AtTop, Is
    <3>2. CASE filler.chain = NoChain
      BY <1>6, <3>2, Zenon DEF SeeKill, AtTop, Is
    <3> QED
      BY <3>1, <3>2
  <2> QED
    BY <2>1 DEF IInv, Types, NoMissedWakeup, EndedStopped, HasRoom, Is
<1>7. CASE SeekWithoutChain
  <2>1. /\ filler.pc = "top" /\ filler_state = "SEEK" /\ filler.chain = NoChain
        /\ filler_state' = "STOP"
        /\ UNCHANGED <<filler, ring, eos, toskip, filler_skip, reader, songs,
                       unseen, overtaken>>
    BY <1>7, Zenon DEF SeekWithoutChain, AtTop
  <2> QED
    BY <2>1 DEF IInv, Types, NoMissedWakeup, EndedStopped, HasRoom
<1>8. CASE RunNoChain
  <2>1. Becomes("lookup", filler.chain)
    BY <1>3, <1>8, Updated, Zenon DEF RunNoChain
  <2>2. /\ filler.pc = "top" /\ filler_state = "RUN"
        /\ UNCHANGED <<filler_state, ring, eos, toskip, filler_skip, reader,
                       songs, unseen, overtaken>>
    BY <1>8, Zenon DEF RunNoChain, AtTop
  <2> QED
    BY <2>1, <2>2 DEF IInv, Types, NoMissedWakeup, EndedStopped, HasRoom, Is
<1>9. CASE GiveUp \/ TryNextSong
  <2>1. filler' = [filler EXCEPT !.pc = "top"]
    BY <1>9, Zenon DEF GiveUp, TryNextSong
  <2>2. Becomes("top", filler.chain)
    BY <1>3, <2>1, Updated, Zenon
  <2>3. /\ filler.pc = "lookup" /\ songs' \in Nat
        /\ filler_state' \in {filler_state, "STOP"}
        /\ UNCHANGED <<ring, eos, toskip, filler_skip, reader, unseen, overtaken>>
    BY <1>9, Zenon DEF GiveUp, TryNextSong
  <2> QED
    BY <2>2, <2>3 DEF IInv, Types, NoMissedWakeup, EndedStopped, HasRoom, Is
<1>10. CASE SongOver
  <2>1. Becomes("top", 0)
    BY <1>3, <1>10, Updated, Zenon DEF SongOver, NoChain
  <2>2. /\ filler.pc = "read"
        /\ filler_state' \in {filler_state, "STOP"}
        /\ UNCHANGED <<ring, eos, toskip, filler_skip, reader, songs, unseen,
                       overtaken>>
    BY <1>10, Zenon DEF SongOver
  <2> QED
    BY <2>1, <2>2 DEF IInv, Types, NoMissedWakeup, EndedStopped, HasRoom, Is
<1> QED
  BY <1>4, <1>5, <1>6, <1>7, <1>8, <1>9, <1>10

\* The steps of the filler that wait for a free block.
LEMMA WaitStep ==
  ASSUME IInv, SeekOk \/ SeekFailed \/ RunChain \/ AnnounceSong \/ FreeWoken
  PROVE  IInv'
<1>1. /\ filler.pc \in FillerPc /\ filler.chain \in Nat /\ filler \in Fillers
      /\ Used(ring) \in Nat /\ Used(ring) <= Usable /\ ring \in Rings
      /\ toskip \in Nat /\ filler_skip \in Nat /\ songs \in Nat
      /\ filler.ret \in Nat
  BY InvFields, Zenon
\* A filler that may have a chain waits for room and looks again.
<1> DEFINE Looks(f) ==
      /\ f \in Fillers /\ filler' = AfterWaitFree(f, ring', filler_state')
      /\ ring' \in Rings /\ Used(ring') \in Nat /\ Used(ring') <= Usable
      /\ Used(ring') <= Used(ring) /\ reader' = reader
      /\ filler.pc \in {"top", "lookup", "free_woken"}
      /\ ~ overtaken => ~ eos \/ (unseen /\ filler_state' = "STOP")
      /\ filler_skip' \in Nat /\ songs' \in Nat
      /\ eos' = eos /\ toskip' = toskip /\ unseen' = unseen
      /\ overtaken' = overtaken
<1>2. ASSUME NEW f, Looks(f) PROVE IInv'
  <2>1. filler' \in Fillers /\ filler'.pc = WaitPc(ring', filler_state')
    BY <1>2, WaitedFields, Zenon DEF Is
  <2>2. Types'
    BY <1>1, <1>2, <2>1 DEF Types
  <2>3. NoMissedWakeup'
    BY <1>1, <1>2, <2>1, SizesKnown DEF IInv, NoMissedWakeup, WaitPc, Free
  <2>4. EndedStopped'
    BY <1>2 DEF EndedStopped
  <2>5. HasRoom'
    <3>1. filler'.pc \notin {"write_wait", "write_woken"}
      BY <2>1 DEF WaitPc
    <3>2. CASE Free(ring') >= Block
      BY <3>1, <3>2 DEF HasRoom
    <3>3. CASE Free(ring') < Block /\ ~ eos
      BY <2>1, <3>1, <3>3 DEF HasRoom, WaitPc
    <3>4. CASE ~ overtaken /\ unseen /\ filler_state' = "STOP"
      BY <1>2, <2>1, <3>1, <3>4 DEF HasRoom, WaitPc
    <3>5. CASE overtaken
      BY <1>2, <3>5 DEF HasRoom
    <3> QED
      BY <1>1, <1>2, <3>2, <3>3, <3>4, <3>5, SizesKnown DEF Free
  <2> QED
    BY <2>2, <2>3, <2>4, <2>5 DEF IInv
<1> HIDE DEF Looks
<1>3. CASE SeekOk
  <2>1. /\ AtTop("SEEK") /\ filler.chain # NoChain
        /\ filler_skip' \in 0..MaxSkip
        /\ ring' = <<SeekDone>> /\ filler_state' = "RUN"
        /\ filler' = AfterWaitFree(filler, ring', "RUN")
        /\ UNCHANGED <<eos, toskip, reader, songs, unseen, overtaken>>
    BY <1>3, Zenon DEF SeekOk
  <2>2. Used(ring') = 0 /\ ring' \in Rings
    BY <2>1, UsedSeekDone, Zenon
  <2>3. filler_skip' \in Nat
    BY <2>1, BoundsAssumption
  <2>4. ~ overtaken => ~ eos
    BY <2>1 DEF IInv, EndedStopped, AtTop
  <2>5. Looks(filler)
    BY <1>1, <2>1, <2>2, <2>3, <2>4, SizesKnown DEF AtTop, Looks
  <2> QED
    BY <1>2, <2>5, Zenon
<1>4. CASE SeekFailed
  <2>1. /\ AtTop("SEEK") /\ filler.chain # NoChain /\ filler_state' = "RUN"
        /\ filler' = AfterWaitFree(filler, ring', "RUN")
        /\ UNCHANGED <<ring, eos, toskip, filler_skip, reader, songs, unseen,
                       overtaken>>
    BY <1>4, Zenon DEF SeekFailed
  <2>2. ~ overtaken => ~ eos
    BY <2>1 DEF IInv, EndedStopped, AtTop
  <2>3. Looks(filler)
    BY <1>1, <2>1, <2>2 DEF AtTop, Looks
  <2> QED
    BY <1>2, <2>3, Zenon
<1>5. CASE RunChain
  <2>1. /\ AtTop("RUN") /\ filler.chain # NoChain /\ filler_state' = "RUN"
        /\ filler' = AfterWaitFree(filler, ring', "RUN")
        /\ UNCHANGED <<ring, eos, toskip, filler_skip, reader, songs, unseen,
                       overtaken>>
    BY <1>5, Zenon DEF RunChain, AtTop
  <2>2. ~ overtaken => ~ eos
    BY <2>1 DEF IInv, EndedStopped, AtTop
  <2>3. Looks(filler)
    BY <1>1, <2>1, <2>2 DEF AtTop, Looks
  <2> QED
    BY <1>2, <2>3, Zenon
<1>6. CASE AnnounceSong
  <2> DEFINE f == [filler EXCEPT !.chain = songs']
  <2>1. /\ filler.pc = "lookup" /\ songs' = songs + 1
        /\ ring' = Append(ring, SongChanged(songs'))
        /\ filler' = AfterWaitFree(f, ring', filler_state)
        /\ UNCHANGED <<filler_state, eos, toskip, filler_skip, reader, unseen,
                       overtaken>>
    BY <1>6, Zenon DEF AnnounceSong
  <2>2. songs' \in Nat
    BY <1>1, <2>1
  <2>3. ring' \in Rings /\ Used(ring') = Used(ring)
    BY <1>1, <2>1, <2>2, UsedAnnounced, Zenon
  <2>4. f \in Fillers
    BY <1>1, <2>2, Updated, Zenon DEF Is
  <2>5. ~ overtaken => ~ eos \/ (unseen /\ filler_state' = "STOP")
    BY <2>1 DEF IInv, EndedStopped
  <2> HIDE DEF f
  <2>6. Looks(f)
    BY <1>1, <2>1, <2>2, <2>3, <2>4, <2>5 DEF Looks
  <2> QED
    BY <1>2, <2>6, Zenon
<1>7. CASE FreeWoken
  <2>1. /\ filler.pc = "free_woken"
        /\ filler' = AfterWaitFree(filler, ring', filler_state)
        /\ UNCHANGED <<filler_state, ring, eos, toskip, filler_skip, reader,
                       songs, unseen, overtaken>>
    BY <1>7, Zenon DEF FreeWoken
  <2>2. ~ overtaken => ~ eos \/ (unseen /\ filler_state' = "STOP")
    BY <2>1 DEF IInv, EndedStopped
  <2>3. Looks(filler)
    BY <1>1, <2>1, <2>2 DEF Looks
  <2> QED
    BY <1>2, <2>3, Zenon
<1> QED
  BY <1>3, <1>4, <1>5, <1>6, <1>7

\* One round of writing; who has room for n units writes them all.
LEMMA WriteRoundStep ==
  ASSUME IInv, NEW n \in Nat, WriteRound(n),
         filler.pc \in {"read", "write_woken"},
         ~ overtaken => n <= Free(ring),
         toskip' \in Nat, filler_skip' = filler_skip, songs' = songs,
         filler_state' = filler_state, eos' = eos, unseen' = unseen,
         overtaken' = overtaken
  PROVE  IInv'
<1> DEFINE w == MIN(n, Free(ring))
<1>1. /\ filler.pc \in FillerPc /\ filler.chain \in Nat /\ filler \in Fillers
      /\ Used(ring) \in Nat /\ Used(ring) <= Usable /\ ring \in Rings
      /\ filler_skip \in Nat /\ songs \in Nat
  BY InvFields, Zenon
<1>2. w \in Nat /\ w <= n /\ w <= Free(ring) /\ (w = n \/ w = Free(ring))
  BY <1>1, SizesKnown DEF MIN, Free
<1>3. ring' \in Rings /\ Used(ring') = Used(ring) + w
  <2>1. ring' = ring \o [i \in 1..w |-> Data(filler.chain)]
    BY DEF WriteRound
  <2> HIDE DEF w
  <2> QED
    BY <1>1, <1>2, <2>1, UsedWritten
<1>4. reader' = "used_wait" => reader = "used_wait" /\ w = 0
  BY <1>2 DEF WriteRound, UsedSignalled
<1>5. CASE w = n \/ eos
  <2>1. filler' = [filler EXCEPT !.pc = "top", !.ret = 0]
    BY <1>5, Zenon DEF WriteRound
  <2>2. Is(filler', "top", filler.chain, 0)
    BY <1>1, <2>1, Updated, Zenon DEF FillerPc
  <2> HIDE DEF w
  <2> QED
    BY <1>1, <1>2, <1>3, <1>4, <2>2, SizesKnown
       DEF IInv, Types, NoMissedWakeup, EndedStopped, HasRoom, Is, Free
<1>6. CASE ~ (w = n \/ eos)
  <2>1. filler' = [filler EXCEPT !.pc = "write_wait", !.ret = n - w]
    BY <1>6, Zenon DEF WriteRound
  <2>2. n - w \in Nat /\ w = Free(ring) /\ overtaken
    BY <1>1, <1>2, <1>6, SizesKnown DEF Free
  <2>3. Is(filler', "write_wait", filler.chain, n - w)
    BY <1>1, <2>1, <2>2, Updated, Zenon DEF FillerPc
  <2> HIDE DEF w
  <2> QED
    BY <1>1, <1>2, <1>3, <1>4, <1>6, <2>2, <2>3, SizesKnown
       DEF IInv, Types, NoMissedWakeup, EndedStopped, HasRoom, Is, Free
<1> QED
  BY <1>5, <1>6

LEMMA WriteStep == ASSUME IInv, WriteBlock \/ WriteWoken PROVE IInv'
<1>1. /\ Used(ring) \in Nat /\ toskip \in Nat /\ filler.ret \in Nat
      /\ Block \in Nat /\ Usable \in Nat
  BY InvFields, SizesKnown
<1>2. CASE WriteBlock
  <2>1. PICK ret \in 1..Block :
          /\ toskip' = toskip - MIN(ret, toskip)
          /\ WriteRound(ret - MIN(ret, toskip))
    BY <1>2, Zenon DEF WriteBlock
  <2>2. /\ ret - MIN(ret, toskip) \in Nat
        /\ ret - MIN(ret, toskip) <= Block
        /\ toskip' \in Nat
    BY <1>1, <2>1 DEF MIN
  <2>3. /\ filler.pc = "read" /\ filler_skip' = filler_skip /\ songs' = songs
        /\ filler_state' = filler_state /\ eos' = eos /\ unseen' = unseen
        /\ overtaken' = overtaken
    BY <1>2, Zenon DEF WriteBlock
  <2>4. ~ overtaken => ret - MIN(ret, toskip) <= Free(ring)
    <3>1. ~ overtaken => Free(ring) >= Block
      BY <2>3 DEF IInv, HasRoom
    <3> QED
      BY <1>1, <2>2, <3>1 DEF Free
  <2> QED
    BY <2>1, <2>2, <2>3, <2>4, WriteRoundStep
<1>3. CASE WriteWoken
  <2>1. /\ filler.pc = "write_woken" /\ WriteRound(filler.ret)
        /\ filler_skip' = filler_skip /\ songs' = songs /\ toskip' = toskip
        /\ filler_state' = filler_state /\ eos' = eos /\ unseen' = unseen
        /\ overtaken' = overtaken
    BY <1>3, Zenon DEF WriteWoken
  <2>2. overtaken
    BY <2>1 DEF IInv, HasRoom
  <2> QED
    BY <1>1, <2>1, <2>2, WriteRoundStep
<1> QED
  BY <1>2, <1>3

LEMMA FillerPart == ASSUME IInv, Filler PROVE IInv'
BY LookStep, WaitStep, WriteStep, Zenon DEF Filler

LEMMA ReadWaitsStep == ASSUME IInv, ReadWaits PROVE IInv'
<1>1. /\ Used(ring) < Chunk /\ ~ eos /\ reader' = "used_wait"
      /\ UNCHANGED <<filler_state, filler, ring, eos, toskip, filler_skip, songs,
                     unseen, overtaken>>
  BY Zenon DEF ReadWaits
<1> QED
  BY <1>1 DEF IInv, Types, NoMissedWakeup, EndedStopped, HasRoom

\* Taking items never makes the ring fuller, and frees units only together with
\* a signal to the filler.
LEMMA ReadDataStep == ASSUME IInv, ReadData PROVE IInv'
<1>1. /\ filler.pc \in FillerPc /\ filler.chain \in Nat /\ filler \in Fillers
      /\ Used(ring) \in Nat /\ Used(ring) <= Usable /\ ring \in Rings
      /\ toskip \in Nat /\ filler_skip \in Nat /\ songs \in Nat
  BY InvFields, Zenon
<1>2. PICK k \in 0..Len(ring) :
        /\ AtHead(k) /\ toskip' = ToSkip(k)
        /\ ring' = SubSeq(ring, k + MIN(Chunk, Run(k)) + 1, Len(ring))
        /\ filler' = IF MIN(Chunk, Run(k)) > 0 THEN FreeSignalled(filler)
                                               ELSE filler
  BY Zenon DEF ReadData
<1>3. /\ reader' = "idle"
      /\ UNCHANGED <<filler_state, eos, filler_skip, songs, unseen, overtaken>>
  BY Zenon DEF ReadData
<1> DEFINE n == MIN(Chunk, Run(k))
<1>4. n \in Nat
  <2>1. {i \in DataAt(ring) : \A j \in k + 1..i : ring[j].kind = "data"}
          \in SUBSET DataAt(ring)
    BY Zenon
  <2>2. IsFiniteSet(DataAt(ring))
    BY <1>1, UsedType
  <2>3. Run(k) \in Nat
    BY <2>1, <2>2, FS_Subset, FS_CardinalityType, Zenon DEF Run
  <2> QED
    BY <2>3, SizesKnown DEF MIN
<1>5. ring' = SubSeq(ring, k + n + 1, Len(ring))
  BY <1>2
<1>6. filler' = IF n > 0 THEN FreeSignalled(filler) ELSE filler
  BY <1>2
<1>7. toskip' \in Nat
  BY <1>1, <1>2 DEF ToSkip
<1> HIDE DEF n
<1>8. k + n \in Nat /\ k \in Nat
  BY <1>1, <1>4 DEF Rings
<1>9. /\ ring' \in Rings /\ Used(ring') <= Used(ring)
      /\ (\A i \in 1..k + n : i <= Len(ring) => ring[i].kind # "data")
           => Used(ring') = Used(ring)
  BY <1>1, <1>5, <1>8, UsedTaken, Zenon
<1>10. Used(ring') \in Nat
  BY <1>9, UsedType
<1>11. CASE n > 0
  <2>1. Is(filler', FreePc(filler.pc), filler.chain, filler.ret)
    BY <1>1, <1>6, <1>11, FreeSignalledFields, Zenon
  <2>2. filler' \in Fillers /\ filler'.pc = FreePc(filler.pc)
        /\ filler'.chain = filler.chain
    BY <2>1, Zenon DEF Is
  <2>3. Types'
    BY <1>1, <1>3, <1>7, <1>9, <1>10, <2>2, SizesKnown DEF Types
  <2>4. NoMissedWakeup'
    BY <1>3, <2>2 DEF IInv, NoMissedWakeup, FreePc
  <2>5. EndedStopped'
    BY <1>3, <2>2 DEF IInv, EndedStopped, FreePc
  <2>6. HasRoom'
    BY <1>1, <1>3, <1>9, <1>10, <2>2, SizesKnown DEF IInv, HasRoom, FreePc, Free
  <2> QED
    BY <2>3, <2>4, <2>5, <2>6 DEF IInv
<1>12. CASE ~ (n > 0)
  <2>1. Used(ring') = Used(ring)
    <3>1. k + n = k
      BY <1>4, <1>8, <1>12
    <3>2. \A i \in 1..k : ring[i].kind # "data"
      BY <1>2 DEF AtHead
    <3> QED
      BY <1>9, <3>1, <3>2, Zenon
  <2>2. filler' = filler
    BY <1>6, <1>12, Zenon
  <2> QED
    BY <1>1, <1>3, <1>7, <1>9, <2>1, <2>2, SizesKnown
       DEF IInv, Types, NoMissedWakeup, EndedStopped, HasRoom, Free
<1> QED
  BY <1>4, <1>11, <1>12

\* The refusal clears the buffer, which wakes whatever waits for room, and
\* leaves a stop behind that the filler has not seen.
LEMMA ReadRefusedStep == ASSUME IInv, ReadRefused PROVE IInv'
<1>1. /\ filler \in Fillers /\ Used(ring) \in Nat /\ ring \in Rings
      /\ toskip \in Nat /\ filler_skip \in Nat /\ songs \in Nat
  BY InvFields, Zenon
<1>2. /\ filler_state' = "STOP" /\ ring' = << >> /\ eos' = TRUE
      /\ unseen' = TRUE /\ reader' = "idle"
      /\ filler' = FreeSignalled(StateSignalled(filler))
      /\ UNCHANGED <<filler_skip, songs, overtaken>>
  BY Zenon DEF ReadRefused
<1>3. toskip' \in Nat
  <2>1. \E j \in Nat : toskip' = ToSkip(j)
    BY <1>1 DEF ReadRefused, Rings
  <2> QED
    BY <1>1, <2>1 DEF ToSkip
<1>4. Is(StateSignalled(filler), TopPc(filler), filler.chain, filler.ret)
  BY <1>1, StateSignalledFields, Zenon
<1>5. Is(filler', FreePc(TopPc(filler)), filler.chain, filler.ret)
  BY <1>2, <1>4, FreeSignalledFields, Zenon DEF Is
<1>6. filler' \in Fillers /\ filler'.pc = FreePc(TopPc(filler))
  BY <1>5, Zenon DEF Is
<1>7. filler'.pc \notin {"stop_wait", "free_wait", "write_wait"}
  BY <1>6 DEF FreePc, TopPc
<1>8. ring' \in Rings /\ Used(ring') = 0
  BY <1>2, SizesKnown
<1>9. Types'
  BY <1>1, <1>2, <1>3, <1>6, <1>8, SizesKnown DEF Types
<1>10. NoMissedWakeup'
  BY <1>2, <1>7 DEF NoMissedWakeup
<1>11. EndedStopped'
  BY <1>2 DEF EndedStopped
<1>12. HasRoom'
  <2>1. filler'.pc = "write_woken" => filler.pc \in {"write_wait", "write_woken"}
    BY <1>6 DEF FreePc, TopPc
  <2> QED
    BY <1>2, <1>7, <1>8, <2>1, SizesKnown DEF IInv, HasRoom, Free
<1> QED
  BY <1>9, <1>10, <1>11, <1>12 DEF IInv

LEMMA StepIInv == IInv /\ [Next]_vars => IInv'
<1>1. UNCHANGED vars => UNCHANGED Inner
  BY Zenon DEF vars, Inner
<1> QED
  BY <1>1, UnchangedStep, RequestsStep, FillerPart, ReadWaitsStep, ReadDataStep,
     ReadRefusedStep, Zenon DEF Next, Reader

LEMMA AlwaysIInv == Spec => []IInv
BY InitIInv, StepIInv, PTL DEF Spec

-----------------------------------------------------------------------------

\* No thread sleeps on a condition that already holds: the filler, the output
\* thread and every command signal what they change.
THEOREM NobodyMissesAWakeup == Spec => []NoMissedWakeup
<1>1. IInv => NoMissedWakeup
  BY Zenon DEF IInv
<1> QED
  BY <1>1, AlwaysIInv, PTL

\* The output thread, which takes "ended and empty" for the end of playback,
\* sees the end only when the filler has no chain and is not told to get one, or
\* when it was stopped and the buffer cleared and it has not looked since, unless
\* a seek or a start replaced such a stop.
THEOREM EndOfStreamIsStopped == Spec => []EndedOnlyWhenStopped
<1>1. IInv => EndedOnlyWhenStopped
  BY DEF IInv, EndedStopped, EndedOnlyWhenStopped
<1> QED
  BY <1>1, AlwaysIInv, PTL

\* A filler that waited for a free block never sleeps in the write that follows,
\* so that it sees the next request: whatever the sizes, since no one but the
\* filler adds to the buffer.
THEOREM WaitsOnlyBeforeDecoding == Spec => []WriteNeverSleeps
<1>1. IInv => WriteNeverSleeps
  BY DEF IInv, HasRoom, WriteNeverSleeps
<1> QED
  BY <1>1, AlwaysIInv, PTL

-----------------------------------------------------------------------------
(***************************************************************************)
(* Under which song a unit of data is played.                              *)
(***************************************************************************)

LEMMA OrderOfNat ==
  \E R : /\ IsWellFoundedOn(R, Nat)
         /\ \A k, m \in Nat : k < m => <<k, m>> \in R
<1>1. \A k, m \in Nat : k < m => <<k, m>> \in OpToRel(<, Nat)
  BY DEF OpToRel
<1> QED
  BY <1>1, NatLessThanWellFounded, ZenonT(30)

\* A set of natural numbers has a least element.
LEMMA Least ==
  ASSUME NEW S, S \subseteq Nat, S # {}
  PROVE  \E m \in S : \A k \in S : m <= k
<1>1. PICK R : /\ IsWellFoundedOn(R, Nat)
               /\ \A k, m \in Nat : k < m => <<k, m>> \in R
  BY OrderOfNat
<1>2. PICK m \in S : \A k \in S : ~(<<k, m>> \in R)
  <2>1. IsWellFoundedOn(R, Nat)
    BY <1>1
  <2> QED
    BY <2>1, WFMin
<1>3. ASSUME NEW k \in S PROVE m <= k
  <2>1. k \in Nat /\ m \in Nat
    OBVIOUS
  <2>2. ~(k < m)
    BY <1>1, <1>2, <2>1
  <2> QED
    BY <2>1, <2>2
<1> QED
  BY <1>3

\* A set of places in a sequence has a last one.
LEMMA Latest ==
  ASSUME NEW n \in Nat, NEW S, S \subseteq 1..n, S # {}
  PROVE  \E m \in S : \A k \in S : k <= m
<1> DEFINE T == {t \in 0..n : n - t \in S}
<1>1. T \subseteq Nat
  OBVIOUS
<1>2. T # {}
  <2>1. PICK k \in S : TRUE
    OBVIOUS
  <2>2. k \in 1..n
    OBVIOUS
  <2>3. n - k \in 0..n /\ n - (n - k) = k
    BY <2>2
  <2>4. n - k \in T
    BY <2>1, <2>3
  <2> QED
    BY <2>4
<1>3. PICK t \in T : \A u \in T : t <= u
  <2> HIDE DEF T
  <2> QED
    BY <1>1, <1>2, Least
<1>4. n - t \in S
  OBVIOUS
<1>5. ASSUME NEW k \in S PROVE k <= n - t
  <2>1. k \in 1..n
    OBVIOUS
  <2>2. n - k \in 0..n /\ n - (n - k) = k
    BY <2>1
  <2>3. n - k \in T
    BY <2>2
  <2>4. t <= n - k
    BY <1>3, <2>3
  <2> QED
    BY <2>1, <2>4
<1> QED
  BY <1>4, <1>5

SongMarks(r, i) == {j \in 1..i : r[j].kind = "song"}

\* The song announced last before place i, in a ring in front of which e was.
Song(r, e, i) ==
  IF SongMarks(r, i) = {} THEN e
  ELSE r[CHOOSE j \in SongMarks(r, i) : \A l \in SongMarks(r, i) : l <= j].chain

LEMMA SongMarked ==
  ASSUME NEW r, NEW e, NEW i \in Nat, NEW j \in SongMarks(r, i),
         \A l \in SongMarks(r, i) : l <= j
  PROVE  Song(r, e, i) = r[j].chain
<1> DEFINE m == CHOOSE k \in SongMarks(r, i) : \A l \in SongMarks(r, i) : l <= k
<1>1. m \in SongMarks(r, i) /\ \A l \in SongMarks(r, i) : l <= m
  BY Zenon
<1>2. m <= j /\ j <= m
  BY <1>1
<1>3. m \in Int /\ j \in Int
  BY <1>1 DEF SongMarks
<1> HIDE DEF m
<1>4. m = j
  BY <1>2, <1>3
<1> QED
  BY <1>4, Zenon DEF Song, m

LEMMA SongUnmarked ==
  ASSUME NEW r, NEW e, NEW i, SongMarks(r, i) = {}
  PROVE  Song(r, e, i) = e
BY DEF Song

LEMMA SongCases ==
  ASSUME NEW r, NEW i \in Nat
  PROVE  \/ SongMarks(r, i) = {}
         \/ \E j \in SongMarks(r, i) : \A l \in SongMarks(r, i) : l <= j
<1>1. SongMarks(r, i) \subseteq 1..i
  BY DEF SongMarks
<1> QED
  BY <1>1, Latest

\* Items that are not announcements do not change the song, nor does the part
\* of the ring that is behind.
LEMMA SongContinues ==
  ASSUME NEW r, NEW s, NEW e, NEW i \in Nat, NEW k \in Nat, i <= k,
         \A l \in 1..i : s[l] = r[l],
         \A l \in i + 1..k : s[l].kind # "song"
  PROVE  Song(s, e, k) = Song(r, e, i)
<1>1. SongMarks(s, k) = SongMarks(r, i)
  BY DEF SongMarks
<1>2. CASE SongMarks(r, i) = {}
  BY <1>1, <1>2, SongUnmarked
<1>3. CASE \E j \in SongMarks(r, i) : \A l \in SongMarks(r, i) : l <= j
  <2>1. PICK j \in SongMarks(r, i) : \A l \in SongMarks(r, i) : l <= j
    BY <1>3
  <2>2. Song(r, e, i) = r[j].chain
    BY <2>1, SongMarked
  <2>3. Song(s, e, k) = s[j].chain
    BY <1>1, <2>1, SongMarked
  <2>4. s[j] = r[j]
    BY <2>1 DEF SongMarks
  <2> QED
    BY <2>2, <2>3, <2>4
<1> QED
  BY <1>2, <1>3, SongCases

\* The first m items are taken, of which those behind the first k are not
\* announcements.
Rest(r, s, m, i) == \A l \in 1..i : s[l] = r[m + l]

NoMarks(r, k, m) == \A l \in k + 1..m : r[l].kind # "song"

TakenAlong(r, s, e, k, m, i) == Song(s, Song(r, e, k), i) = Song(r, e, m + i)

LEMMA SongTaken ==
  ASSUME NEW r, NEW s, NEW e, NEW i \in Nat, NEW k \in Nat, NEW m \in Nat, k <= m,
         Rest(r, s, m, i), NoMarks(r, k, m)
  PROVE  TakenAlong(r, s, e, k, m, i)
<1> DEFINE n == m + i
<1> SUFFICES Song(s, Song(r, e, k), i) = Song(r, e, n)
  BY DEF TakenAlong
<1>0. n = m + i
  OBVIOUS
<1> HIDE DEF n
<1> USE <1>0 DEF Rest, NoMarks
<1>1. CASE SongMarks(s, i) = {}
  <2>1. Song(s, Song(r, e, k), i) = Song(r, e, k)
    BY <1>1, SongUnmarked
  <2>2. ASSUME NEW l \in k + 1..n PROVE r[l].kind # "song"
    <3>1. CASE l <= m
      BY <3>1
    <3>2. CASE l > m
      <4>1. l - m \in 1..i /\ m + (l - m) = l
        BY <3>2
      <4>2. s[l - m] = r[l]
        BY <4>1
      <4> QED
        BY <1>1, <4>1, <4>2 DEF SongMarks
    <3> QED
      BY <3>1, <3>2
  <2>3. Song(r, e, n) = Song(r, e, k)
    <3>1. n \in Nat /\ k <= n
      OBVIOUS
    <3> QED
      BY <2>2, <3>1, SongContinues
  <2> QED
    BY <2>1, <2>3
<1>2. CASE \E j \in SongMarks(s, i) : \A l \in SongMarks(s, i) : l <= j
  <2>1. PICK j \in SongMarks(s, i) : \A l \in SongMarks(s, i) : l <= j
    BY <1>2
  <2>2. Song(s, Song(r, e, k), i) = s[j].chain
    BY <2>1, SongMarked
  <2>3. j \in 1..i /\ s[j].kind = "song"
    BY DEF SongMarks
  <2>4. m + j \in SongMarks(r, n)
    BY <2>3 DEF SongMarks
  <2>5. ASSUME NEW l \in SongMarks(r, n) PROVE l <= m + j
    <3>1. l \in 1..n /\ r[l].kind = "song"
      BY DEF SongMarks
    <3>2. CASE l <= m
      BY <2>3, <3>1, <3>2
    <3>3. CASE l > m
      <4>1. l - m \in 1..i /\ m + (l - m) = l
        BY <3>1, <3>3
      <4>2. s[l - m] = r[l]
        BY <4>1
      <4>3. l - m \in SongMarks(s, i)
        BY <3>1, <4>1, <4>2 DEF SongMarks
      <4>4. l - m <= j
        BY <2>1, <4>3
      <4> QED
        BY <2>3, <3>1, <4>4
    <3> QED
      BY <3>1, <3>2, <3>3
  <2>6. Song(r, e, n) = r[m + j].chain
    <3>1. n \in Nat
      OBVIOUS
    <3> QED
      BY <2>4, <2>5, <3>1, SongMarked
  <2> QED
    BY <2>2, <2>3, <2>6
<1> QED
  BY <1>1, <1>2, SongCases

\* The units that are played under another song's name.
Stale(r, e) == {i \in DataAt(r) : r[i].chain # Song(r, e, i)}

LEMMA StaleFinite ==
  ASSUME NEW r \in Rings, NEW e
  PROVE  /\ IsFiniteSet(Stale(r, e))
         /\ Cardinality(Stale(r, e)) \in Nat
         /\ Cardinality(Stale(r, e)) <= Used(r)
<1>1. Stale(r, e) \subseteq DataAt(r)
  BY Zenon DEF Stale
<1>2. IsFiniteSet(DataAt(r))
  BY UsedType
<1> QED
  BY <1>1, <1>2, FS_Subset, FS_CardinalityType, Zenon DEF Used

LEMMA NothingStale ==
  ASSUME NEW r, NEW e, DataAt(r) = {}
  PROVE  Cardinality(Stale(r, e)) = 0
<1>1. Stale(r, e) = {}
  BY Zenon DEF Stale
<1> QED
  BY <1>1, FS_EmptySet, Zenon

LEMMA NoData ==
  /\ DataAt(<< >>) = {}
  /\ DataAt(<<SeekDone>>) = {}
BY DEF DataAt, SeekDone

\* What writing w units makes of a ring.
Written(s, r, w, c) == s = r \o [i \in 1..w |-> Data(c)]

\* Writing under the song announced last makes nothing stale.
LEMMA StaleWritten ==
  ASSUME NEW r \in Rings, NEW s, NEW e, NEW w \in Nat, NEW c \in Nat,
         Song(r, e, Len(r)) = c, Written(s, r, w, c)
  PROVE  Stale(s, e) = Stale(r, e) /\ Song(s, e, Len(s)) = c
<1> DEFINE t == [i \in 1..w |-> Data(c)]
<1>0. s = r \o t
  BY DEF Written
<1>1. Len(r) \in Nat /\ Len(t) = w /\ t \in Rings
  BY DEF Rings, AnyItem, Data
<1>2. Len(s) = Len(r) + w
  BY <1>0, <1>1 DEF Rings
<1>3. \A i \in 1..Len(r) : s[i] = r[i]
  BY <1>0, <1>1 DEF Rings
<1>4. \A i \in Len(r) + 1..Len(r) + w : s[i] = Data(c)
  <2> SUFFICES ASSUME NEW i \in Len(r) + 1..Len(r) + w PROVE s[i] = Data(c)
    OBVIOUS
  <2>1. s[i] = t[i - Len(r)]
    BY <1>0, <1>1 DEF Rings
  <2>2. i - Len(r) \in 1..w
    BY <1>1
  <2>3. t[i - Len(r)] = Data(c)
    BY <2>2
  <2> QED
    BY <2>1, <2>3
<1> HIDE DEF t
<1>5. \A i \in Len(r) + 1..Len(r) + w : s[i].kind = "data" /\ s[i].chain = c
  BY <1>4 DEF Data
<1>6. ASSUME NEW i \in 1..Len(r) PROVE Song(s, e, i) = Song(r, e, i)
  <2>1. i \in Nat /\ i <= i /\ (\A l \in 1..i : s[l] = r[l])
        /\ (\A l \in i + 1..i : s[l].kind # "song")
    BY <1>1, <1>3
  <2> QED
    BY <2>1, SongContinues
<1>7. ASSUME NEW i \in Len(r)..Len(r) + w PROVE Song(s, e, i) = c
  <2>1. PICK n \in Nat : n = Len(r)
    BY <1>1
  <2>2. i \in Nat /\ n <= i
    BY <2>1
  <2>3. \A l \in 1..n : s[l] = r[l]
    BY <1>3, <2>1, Zenon
  <2>4. \A l \in n + 1..i : s[l].kind # "song"
    BY <1>5, <2>1
  <2>5. Song(s, e, i) = Song(r, e, n)
    BY <2>2, <2>3, <2>4, SongContinues
  <2> QED
    BY <2>1, <2>5
<1>8. Stale(s, e) = Stale(r, e)
  <2>1. ASSUME NEW i \in Stale(s, e) PROVE i \in Stale(r, e)
    <3>1. i \in 1..Len(r) + w /\ s[i].kind = "data" /\ s[i].chain # Song(s, e, i)
      BY <1>2 DEF Stale, DataAt
    <3>2. CASE i <= Len(r)
      <4>1. i \in 1..Len(r)
        BY <1>1, <3>1, <3>2
      <4>2. s[i] = r[i] /\ Song(s, e, i) = Song(r, e, i)
        BY <1>3, <1>6, <4>1
      <4> QED
        BY <3>1, <4>1, <4>2 DEF Stale, DataAt
    <3>3. CASE i > Len(r)
      <4>1. i \in Len(r) + 1..Len(r) + w /\ i \in Len(r)..Len(r) + w
        BY <1>1, <3>1, <3>3
      <4> QED
        BY <1>5, <1>7, <3>1, <4>1
    <3> QED
      BY <1>1, <3>1, <3>2, <3>3
  <2>2. ASSUME NEW i \in Stale(r, e) PROVE i \in Stale(s, e)
    <3>1. i \in 1..Len(r) /\ r[i].kind = "data" /\ r[i].chain # Song(r, e, i)
      BY DEF Stale, DataAt
    <3>2. s[i] = r[i] /\ Song(s, e, i) = Song(r, e, i)
      BY <1>3, <1>6, <3>1
    <3>3. i \in 1..Len(s)
      BY <1>1, <1>2, <3>1
    <3> QED
      BY <3>1, <3>2, <3>3 DEF Stale, DataAt
  <2> QED
    BY <2>1, <2>2
<1>9. Song(s, e, Len(s)) = c
  BY <1>1, <1>2, <1>7
<1> QED
  BY <1>8, <1>9

\* Nor does the announcement of a song.
LEMMA StaleAnnounced ==
  ASSUME NEW r \in Rings, NEW e, NEW c \in Nat
  PROVE  LET s == Append(r, SongChanged(c))
         IN  /\ Stale(s, e) = Stale(r, e) /\ Song(s, e, Len(s)) = c
             /\ DataAt(s) = DataAt(r)
<1> DEFINE s == Append(r, SongChanged(c))
<1>1. /\ Len(r) \in Nat /\ Len(s) = Len(r) + 1
      /\ \A i \in 1..Len(r) : s[i] = r[i]
      /\ s[Len(r) + 1] = SongChanged(c)
  BY DEF Rings
<1> HIDE DEF s
<1>2. s[Len(s)].kind = "song" /\ s[Len(s)].chain = c
  BY <1>1 DEF SongChanged
<1>3. DataAt(s) = DataAt(r)
  BY <1>1, <1>2 DEF DataAt
<1>4. ASSUME NEW i \in DataAt(r) PROVE s[i] = r[i] /\ Song(s, e, i) = Song(r, e, i)
  <2>1. i \in 1..Len(r)
    BY DEF DataAt
  <2>2. i \in Nat /\ i <= i /\ (\A l \in 1..i : s[l] = r[l])
        /\ (\A l \in i + 1..i : s[l].kind # "song")
    BY <1>1, <2>1
  <2>3. s[i] = r[i]
    BY <1>1, <2>1
  <2> QED
    BY <2>2, <2>3, SongContinues
<1>5. Stale(s, e) = Stale(r, e)
  BY <1>3, <1>4 DEF Stale
<1>6. Song(s, e, Len(s)) = c
  <2>1. Len(s) \in SongMarks(s, Len(s)) /\ Len(s) \in Nat
    BY <1>1, <1>2 DEF SongMarks
  <2>2. \A l \in SongMarks(s, Len(s)) : l <= Len(s)
    BY DEF SongMarks
  <2>3. Song(s, e, Len(s)) = s[Len(s)].chain
    BY <2>1, <2>2, SongMarked
  <2> QED
    BY <1>2, <2>3
<1> QED
  BY <1>3, <1>5, <1>6 DEF s

\* Nor does the reader, which takes the announcements along.
LEMMA StaleTaken ==
  ASSUME NEW r \in Rings, NEW e, NEW k \in Nat, NEW m \in Nat, k <= m,
         m <= Len(r),
         \A l \in k + 1..m : r[l].kind # "song"
  PROVE  LET s == SubSeq(r, m + 1, Len(r))
             f == Song(r, e, k)
         IN  /\ Cardinality(Stale(s, f)) <= Cardinality(Stale(r, e))
             /\ Song(s, f, Len(s)) = Song(r, e, Len(r))
             /\ DataAt(r) = {} => DataAt(s) = {}
<1> DEFINE s == SubSeq(r, m + 1, Len(r))
           f == Song(r, e, k)
           g == [i \in Stale(s, f) |-> i + m]
<1>1. Len(r) \in Nat
  BY DEF Rings
<1>2. /\ s \in Rings /\ Len(s) = Len(r) - m
      /\ \A i \in 1..Len(r) - m : s[i] = r[m + i]
  BY <1>1 DEF Rings
<1> HIDE DEF s, f, g
<1>3. ASSUME NEW i \in 0..Len(s) PROVE Song(s, f, i) = Song(r, e, m + i)
  <2>1. i \in Nat /\ Rest(r, s, m, i)
    BY <1>1, <1>2 DEF Rest
  <2>2. NoMarks(r, k, m)
    BY DEF NoMarks
  <2>3. TakenAlong(r, s, e, k, m, i)
    BY <2>1, <2>2, SongTaken
  <2> QED
    BY <2>3 DEF f, TakenAlong
<1>4. \A i \in DataAt(s) : m + i \in DataAt(r)
  BY <1>1, <1>2 DEF DataAt
<1>5. ASSUME NEW i \in Stale(s, f) PROVE i \in Nat /\ i + m \in Stale(r, e)
  <2>1. i \in DataAt(s) /\ s[i].chain # Song(s, f, i)
    BY DEF Stale
  <2>2. i \in 1..Len(r) - m /\ i \in 0..Len(s)
    BY <1>1, <1>2, <2>1 DEF DataAt
  <2>3. s[i] = r[m + i] /\ Song(s, f, i) = Song(r, e, m + i)
    BY <1>2, <1>3, <2>2
  <2>4. m + i \in Stale(r, e)
    BY <1>4, <2>1, <2>3 DEF Stale
  <2>5. m + i = i + m
    BY <2>2
  <2> QED
    BY <2>2, <2>4, <2>5
<1>6. g \in Injection(Stale(s, f), Stale(r, e))
  BY <1>5 DEF Injection, IsInjective, g
<1>7. Cardinality(Stale(s, f)) <= Cardinality(Stale(r, e))
  BY <1>2, <1>6, StaleFinite, FS_Injection
<1>8. Song(s, f, Len(s)) = Song(r, e, Len(r))
  <2>1. Len(s) \in 0..Len(s) /\ m + Len(s) = Len(r)
    BY <1>1, <1>2
  <2> QED
    BY <1>3, <2>1
<1> QED
  BY <1>4, <1>7, <1>8 DEF s, f

\* As many items from place k + 1 as there is data before the next hotspot.
LEMMA RunIsData ==
  ASSUME NEW r \in Rings, NEW k \in 0..Len(r),
         \A i \in 1..k : r[i].kind # "data",
         NEW X, X = {i \in DataAt(r) : \A j \in k + 1..i : r[j].kind = "data"}
  PROVE  /\ Cardinality(X) \in Nat
         /\ k + Cardinality(X) <= Len(r)
         /\ \A l \in k + 1..k + Cardinality(X) : r[l].kind = "data"
<1> DEFINE Y == {i \in k + 1..Len(r) + 1 : i = Len(r) + 1 \/ r[i].kind # "data"}
<1>1. Len(r) \in Nat /\ k \in Nat
  BY DEF Rings
<1>2. PICK y \in Y : \A z \in Y : y <= z
  <2>1. Y \subseteq Nat /\ Len(r) + 1 \in Y
    BY <1>1
  <2> HIDE DEF Y
  <2> QED
    BY <2>1, Least
<1>3. y \in k + 1..Len(r) + 1
  OBVIOUS
<1>4. ASSUME NEW i \in k + 1..y - 1 PROVE i \in 1..Len(r) /\ r[i].kind = "data"
  <2>1. i \in k + 1..Len(r) + 1 /\ i # Len(r) + 1 /\ ~(y <= i)
    BY <1>1, <1>3
  <2>2. i \notin Y
    BY <1>2, <2>1
  <2> QED
    BY <1>1, <2>1, <2>2
<1>5. X = k + 1..k + (y - 1 - k)
  <2>1. ASSUME NEW i \in X PROVE i \in k + 1..y - 1
    <3>1. i \in 1..Len(r) /\ r[i].kind = "data"
          /\ \A j \in k + 1..i : r[j].kind = "data"
      BY DEF DataAt
    <3>2. i > k
      BY <1>1, <3>1
    <3>3. ~(y <= i)
      BY <1>1, <1>3, <3>1
    <3> QED
      BY <1>1, <1>3, <3>1, <3>2, <3>3
  <2>2. ASSUME NEW i \in k + 1..y - 1 PROVE i \in X
    <3>1. i \in DataAt(r)
      BY <1>4 DEF DataAt
    <3>2. \A j \in k + 1..i : r[j].kind = "data"
      <4> SUFFICES ASSUME NEW j \in k + 1..i PROVE r[j].kind = "data"
        OBVIOUS
      <4>1. j \in k + 1..y - 1
        BY <1>1, <1>3
      <4> QED
        BY <1>4, <4>1
    <3> QED
      BY <3>1, <3>2
  <2>3. k + (y - 1 - k) = y - 1
    BY <1>1, <1>3
  <2> QED
    BY <2>1, <2>2, <2>3
<1>6. y - 1 - k \in Nat
  BY <1>1, <1>3
<1>7. Cardinality(X) = y - 1 - k
  BY <1>1, <1>5, <1>6, SizeOfInterval
<1>8. k + Cardinality(X) = y - 1
  BY <1>1, <1>3, <1>7
<1>9. ASSUME NEW l \in k + 1..k + Cardinality(X) PROVE r[l].kind = "data"
  <2>1. l \in k + 1..y - 1
    BY <1>8
  <2> QED
    BY <1>4, <2>1
<1>10. Cardinality(X) \in Nat /\ k + Cardinality(X) <= Len(r)
  BY <1>1, <1>3, <1>6, <1>7
<1> QED
  BY <1>9, <1>10

-----------------------------------------------------------------------------
(***************************************************************************)
(* The inductive invariant for the songs.                                  *)
(***************************************************************************)

\* A filler that decodes, or waits for room to, has a chain.
HasChain ==
  filler.pc \in {"read", "free_wait", "free_woken", "write_wait", "write_woken"}
    => filler.chain # NoChain

StaleUnits == Cardinality(Stale(ring, current_entry))

LastSongIs(c) == Song(ring, current_entry, Len(ring)) = c

\* A request that cleared the buffer is still there when the filler has not
\* seen it; the block that it decodes meanwhile comes into a buffer without
\* data, and is the only one before it looks.  A filler that has seen it has a
\* chain only for the song announced last.
InTune ==
  ~ overtaken /\ ~ silenced =>
    /\ StaleUnits <= Block
    /\ unseen => filler_state \in Clearing
    /\ unseen /\ filler.pc = "read" => DataAt(ring) = {}
    /\ ~ unseen /\ filler.chain # NoChain /\ filler.pc # "done" =>
         LastSongIs(filler.chain)

SongTypes ==
  /\ filler.chain \in 0..MaxSongs /\ filler.ret \in 0..Block
  /\ ring \in Seq(Item)
  /\ toskip \in 0..MaxSkip /\ filler_skip \in 0..MaxSkip
  /\ songs \in 0..MaxSongs /\ current_entry \in 0..MaxSongs

Tune == SongTypes /\ HasChain /\ InTune

LEMMA InitTune == Init => Tune
<1> SUFFICES ASSUME Init PROVE Tune
  OBVIOUS
<1>1. /\ filler = [pc |-> "top", chain |-> 0, ret |-> 0] /\ ring = << >>
      /\ toskip = 0 /\ filler_skip = 0 /\ songs = 0 /\ current_entry = 0
      /\ unseen = FALSE
  BY Zenon DEF Init, NoChain
<1>2. StaleUnits = 0
  BY <1>1, NothingStale, NoData DEF StaleUnits
<1>3. SongTypes
  BY <1>1, SizesKnown, BoundsAssumption DEF SongTypes
<1> QED
  BY <1>1, <1>2, <1>3, SizesKnown DEF Tune, HasChain, InTune, NoChain

\* The steps after which the ring is as it was.
LEMMA RingKept ==
  ASSUME Tune, SongTypes', HasChain',
         UNCHANGED <<ring, current_entry, silenced>>, overtaken => overtaken',
         ~ overtaken' /\ ~ silenced' =>
           /\ unseen' => filler_state' \in Clearing
           /\ ~ unseen' /\ filler'.chain # NoChain /\ filler'.pc # "done" =>
                LastSongIs(filler'.chain)
           /\ unseen' /\ filler'.pc = "read" => DataAt(ring) = {}
  PROVE  Tune'
<1>1. ring' = ring /\ current_entry' = current_entry /\ silenced' = silenced
  OBVIOUS
<1>2. StaleUnits' = StaleUnits /\ DataAt(ring)' = DataAt(ring)
  BY <1>1, Zenon DEF StaleUnits
<1>3. ASSUME NEW c PROVE LastSongIs(c) = LastSongIs(c)'
  BY <1>1, Zenon DEF LastSongIs
<1>4. LastSongIs(filler'.chain) => Song(ring', current_entry', Len(ring')) = filler'.chain
  BY <1>1, Zenon DEF LastSongIs
<1>5. InTune'
  BY <1>1, <1>2, <1>4 DEF Tune, InTune, LastSongIs
<1> QED
  BY <1>5 DEF Tune

LEMMA UnchangedTune ==
  ASSUME Tune, UNCHANGED <<filler_state, filler, ring, toskip, filler_skip,
                           current_entry, songs, unseen, overtaken, silenced>>
  PROVE  Tune'
BY Zenon DEF Tune, SongTypes, HasChain, InTune, StaleUnits, LastSongIs

\* The steps that clear the buffer.
LEMMA RingCleared ==
  ASSUME Tune, SongTypes', HasChain',
         ring' = << >>, unseen', filler_state' \in Clearing
  PROVE  Tune'
<1>1. StaleUnits' = 0 /\ DataAt(ring)' = {}
  BY NothingStale, NoData, Zenon DEF StaleUnits
<1>2. InTune'
  BY <1>1, SizesKnown DEF InTune
<1> QED
  BY <1>2 DEF Tune

LEMMA FillerStateTune ==
  ASSUME IInv, Tune, NEW s \in {"STOP", "RUN", "QUIT", "KILL"}, FillerState(s)
  PROVE  Tune'
<1>1. filler \in Fillers
  BY InvFields
<1>2. /\ filler_state' = s
      /\ unseen' = (s \in Clearing)
      /\ overtaken' = (overtaken \/ (unseen /\ ~ (s \in Clearing)))
      /\ UNCHANGED <<toskip, filler_skip, songs, current_entry, silenced>>
  BY <1>1, FillerStateEffect, Zenon
<1>3. s \in Clearing <=> s # "RUN"
  BY DEF Clearing
<1>4. CASE s = "RUN"
  <2>1. Is(filler', TopPc(filler), filler.chain, filler.ret) /\ ring' = ring
    BY <1>1, <1>3, <1>4, FillerStateEffect
  <2>2. /\ filler'.pc = TopPc(filler) /\ filler'.chain = filler.chain
        /\ filler'.ret = filler.ret
    BY <2>1, Zenon DEF Is
  <2>3. SongTypes' /\ HasChain'
    BY <1>2, <2>1, <2>2 DEF Tune, SongTypes, HasChain, TopPc
  <2>4. ~ unseen' /\ (overtaken \/ unseen => overtaken')
    <3>1. ~ (s \in Clearing)
      BY <1>3, <1>4, Zenon
    <3> QED
      BY <1>2, <3>1, Zenon
  <2>5. filler'.pc # "done" => filler.pc # "done"
    BY <2>2 DEF TopPc
  <2> QED
    BY <1>2, <2>1, <2>2, <2>3, <2>4, <2>5, RingKept DEF Tune, InTune
<1>5. CASE s # "RUN"
  <2>1. Is(filler', FreePc(TopPc(filler)), filler.chain, filler.ret) /\ ring' = << >>
    BY <1>1, <1>3, <1>5, FillerStateEffect
  <2>2. /\ filler'.pc = FreePc(TopPc(filler)) /\ filler'.chain = filler.chain
        /\ filler'.ret = filler.ret
    BY <2>1, Zenon DEF Is
  <2>3. SongTypes' /\ HasChain'
    BY <1>2, <2>1, <2>2 DEF Tune, SongTypes, HasChain, TopPc, FreePc
  <2> QED
    BY <1>2, <1>3, <1>5, <2>1, <2>3, RingCleared
<1> QED
  BY <1>4, <1>5

LEMMA FillerSeekStateTune == ASSUME IInv, Tune, FillerSeekState PROVE Tune'
<1>1. Is(filler', TopPc(filler), filler.chain, filler.ret)
  BY InvFields, StateSignalledFields, Zenon DEF FillerSeekState
<1>2. /\ filler'.pc = TopPc(filler)
      /\ filler'.chain = filler.chain /\ filler'.ret = filler.ret
  BY <1>1, Zenon DEF Is
<1>3. /\ unseen' = FALSE
      /\ overtaken' = (overtaken \/ unseen)
      /\ UNCHANGED <<ring, toskip, filler_skip, songs, current_entry, silenced>>
  BY Zenon DEF FillerSeekState
<1>4. SongTypes' /\ HasChain'
  BY <1>2, <1>3 DEF Tune, SongTypes, HasChain, TopPc
<1>5. filler'.pc # "done" => filler.pc # "done"
  BY <1>2 DEF TopPc
<1> QED
  BY <1>2, <1>3, <1>4, <1>5, RingKept DEF Tune, InTune

LEMMA RequestsTune == ASSUME IInv, Tune, Requests PROVE Tune'
<1>1. \/ \E s \in {"STOP", "RUN", "QUIT", "KILL"} : FillerState(s)
      \/ FillerSeekState
      \/ UNCHANGED unchangedFiller
  BY Zenon DEF Requests, Start, StartStatus, StartUndo, Stop, StopFiller, Pause,
               Tickle, Seek, Destroy, Joined
<1>2. UNCHANGED unchangedFiller => Tune'
  BY UnchangedTune, Zenon DEF unchangedFiller
<1> QED
  BY <1>1, <1>2, FillerStateTune, FillerSeekStateTune, Zenon

\* The steps of the filler that leave the ring alone.
LEMMA LookTune ==
  ASSUME IInv, Tune,
         \/ SeeQuit \/ SeeStop \/ SeeKill \/ SeekWithoutChain
         \/ RunNoChain \/ GiveUp \/ TryNextSong \/ SongOver
  PROVE  Tune'
<1> DEFINE Becomes(p, c) == Is(filler', p, c, filler.ret)
<1>1. filler.pc \in FillerPc /\ filler.chain \in Nat /\ filler \in Fillers
      /\ filler.ret \in Nat
  BY InvFields, Zenon
<1>2. 0 \in Nat /\ {"done", "stop_wait", "lookup", "top"} \subseteq FillerPc
  BY DEF FillerPc
<1>3. /\ UNCHANGED <<ring, toskip, filler_skip, current_entry, silenced, overtaken>>
      /\ songs' \in {songs, songs + 1, MIN(songs + 1, MaxSongs)}
      /\ songs' = songs + 1 => songs < MaxSongs
  <2>1. songs' = songs \/ songs' = MIN(songs + 1, MaxSongs)
        \/ (songs' = songs + 1 /\ songs < MaxSongs)
    BY Zenon DEF SeeQuit, SeeStop, SeeKill, SeekWithoutChain, RunNoChain, GiveUp,
                 TryNextSong, SongOver
  <2>2. songs \in Nat /\ MaxSongs \in Nat /\ songs <= MaxSongs
    BY BoundsAssumption DEF Tune, SongTypes
  <2>3. songs' = songs + 1 => songs < MaxSongs
    BY <2>1, <2>2 DEF MIN
  <2>4. UNCHANGED <<ring, toskip, filler_skip, current_entry, silenced, overtaken>>
    BY Zenon DEF SeeQuit, SeeStop, SeeKill, SeekWithoutChain, RunNoChain, GiveUp,
                 TryNextSong, SongOver, unchangedOthers
  <2> QED
    BY <2>1, <2>3, <2>4
<1>4. songs' \in 0..MaxSongs
  BY <1>3, BoundsAssumption DEF Tune, SongTypes, MIN
\* Wherever the filler goes, with a chain it had or none.
<1>5. ASSUME NEW p \in {"done", "stop_wait", "lookup", "top"}, NEW c \in {0, filler.chain},
             Becomes(p, c), p # "done" => filler.pc # "done",
             unseen' => unseen /\ filler_state' \in {filler_state, "STOP"},
             unseen /\ ~ unseen' => c = 0 \/ p = "done"
      PROVE  Tune'
  <2>1. filler'.pc = p /\ filler'.chain = c /\ filler'.ret = filler.ret
    BY <1>5, Zenon DEF Is
  <2>2. SongTypes'
    BY <1>3, <1>4, <1>5, <2>1, BoundsAssumption DEF Tune, SongTypes
  <2>3. HasChain'
    BY <1>5, <2>1 DEF HasChain
  <2>4. ~ overtaken' /\ ~ silenced' /\ unseen' => filler_state' \in Clearing
    BY <1>3, <1>5 DEF Tune, InTune, Clearing
  <2>5. ~ overtaken' /\ ~ silenced' /\ ~ unseen' /\ filler'.chain # NoChain
          /\ filler'.pc # "done" => LastSongIs(filler'.chain)
    BY <1>3, <1>5, <2>1 DEF Tune, InTune, NoChain
  <2>6. filler'.pc # "read"
    BY <1>5, <2>1
  <2> QED
    BY <1>3, <2>2, <2>3, <2>4, <2>5, <2>6, RingKept
<1> USE <1>1, <1>2
<1>6. CASE SeeQuit
  <2>1. Becomes("done", filler.chain)
    BY <1>6, Updated, Zenon DEF SeeQuit
  <2>2. unseen' = FALSE
    BY <1>6, Zenon DEF SeeQuit
  <2> QED
    BY <1>5, <2>1, <2>2
<1>7. CASE SeeStop
  <2>1. Becomes("stop_wait", 0)
    BY <1>7, Updated, Zenon DEF SeeStop, NoChain
  <2>2. unseen' = FALSE /\ filler.pc = "top"
    BY <1>7, Zenon DEF SeeStop, AtTop
  <2> QED
    BY <1>5, <2>1, <2>2
<1>8. CASE SeeKill
  <2>1. unseen' = FALSE /\ filler.pc = "top"
    BY <1>8, Zenon DEF SeeKill, AtTop
  <2>2. Becomes("top", 0)
    <3>1. CASE filler.chain # NoChain
      <4>1. filler' = [filler EXCEPT !.chain = 0]
        BY <1>8, <3>1, Zenon DEF SeeKill, NoChain
      <4> QED
        BY <2>1, <4>1, Updated, Zenon
    <3>2. CASE filler.chain = NoChain
      BY <1>8, <2>1, <3>2, Zenon DEF SeeKill, Is, NoChain
    <3> QED
      BY <3>1, <3>2
  <2> QED
    BY <1>5, <2>1, <2>2
<1>9. CASE SeekWithoutChain
  <2>1. /\ filler.pc = "top" /\ filler_state' = "STOP" /\ filler' = filler
        /\ unseen' = unseen
    BY <1>9, Zenon DEF SeekWithoutChain, AtTop
  <2>2. Becomes("top", filler.chain)
    BY <2>1, Zenon DEF Is
  <2> QED
    BY <1>5, <2>1, <2>2
<1>10. CASE RunNoChain
  <2>1. Becomes("lookup", filler.chain)
    BY <1>10, Updated, Zenon DEF RunNoChain
  <2>2. filler.pc = "top" /\ filler_state' = filler_state /\ unseen' = unseen
    BY <1>10, Zenon DEF RunNoChain, AtTop
  <2> QED
    BY <1>5, <2>1, <2>2
<1>11. CASE GiveUp \/ TryNextSong
  <2>1. filler' = [filler EXCEPT !.pc = "top"] /\ filler.pc = "lookup"
    BY <1>11, Zenon DEF GiveUp, TryNextSong
  <2>2. Becomes("top", filler.chain)
    BY <2>1, Updated, Zenon
  <2>3. filler_state' \in {filler_state, "STOP"} /\ unseen' = unseen
    BY <1>11, Zenon DEF GiveUp, TryNextSong
  <2> QED
    BY <1>5, <2>1, <2>2, <2>3
<1>12. CASE SongOver
  <2>1. Becomes("top", 0)
    BY <1>12, Updated, Zenon DEF SongOver, NoChain
  <2>2. filler.pc = "read" /\ filler_state' \in {filler_state, "STOP"} /\ unseen' = unseen
    BY <1>12, Zenon DEF SongOver
  <2> QED
    BY <1>5, <2>1, <2>2
<1> QED
  BY <1>6, <1>7, <1>8, <1>9, <1>10, <1>11, <1>12

\* The ring holds announcements and data of songs that were taken.
LEMMA ItemTypes ==
  /\ Item \subseteq AnyItem
  /\ \A c \in 1..MaxSongs : SongChanged(c) \in Item /\ Data(c) \in Item
  /\ SeekDone \in Item
<1>1. MaxSongs \in Nat
  BY BoundsAssumption
<1> QED
  BY <1>1 DEF Item, AnyItem, SongChanged, Data, SeekDone, NoChain

\* Without a song in the ring the one that plays is the last announced.
LEMMA NoSongInRing ==
  ASSUME NEW r, NEW e, NEW n \in Nat, \A i \in 1..n : r[i].kind # "song"
  PROVE  Song(r, e, n) = e
<1>1. SongMarks(r, n) = {}
  BY DEF SongMarks
<1> QED
  BY <1>1, SongUnmarked

\* Who looks at a request that is not RUN does not decode.
LEMMA Waited ==
  ASSUME NEW f \in Fillers, NEW r, NEW s, filler' = AfterWaitFree(f, r, s)
  PROVE  /\ filler'.chain = f.chain /\ filler'.ret = f.ret
         /\ filler'.pc \in {"free_wait", "top", "read"}
         /\ filler'.pc = "read" => s = "RUN"
<1>1. Is(filler', WaitPc(r, s), f.chain, f.ret)
  BY WaitedFields, Zenon
<1>2. filler'.pc = WaitPc(r, s) /\ filler'.chain = f.chain /\ filler'.ret = f.ret
  BY <1>1, Zenon DEF Is
<1> QED
  BY <1>2 DEF WaitPc

\* The filler's song was announced last.
LEMMA InTuneWhen ==
  ASSUME NEW c, filler'.chain = c,
         ~ overtaken' /\ ~ silenced' =>
           /\ StaleUnits' <= Block
           /\ unseen' => filler_state' \in Clearing
           /\ unseen' => filler'.pc # "read"
           /\ ~ unseen' => Song(ring', current_entry', Len(ring')) = c
  PROVE  InTune'
BY DEF InTune, LastSongIs

\* The steps of the filler that wait for a free block.
LEMMA WaitTune ==
  ASSUME IInv, Tune, SeekOk \/ SeekFailed \/ RunChain \/ AnnounceSong \/ FreeWoken
  PROVE  Tune'
<1>1. /\ filler.chain \in Nat /\ filler \in Fillers /\ ring \in Rings
      /\ songs \in Nat /\ filler.ret \in Nat
  BY InvFields, Zenon
<1>3. CASE SeekOk
  <2>1. /\ AtTop("SEEK") /\ filler.chain # NoChain
        /\ filler_skip' \in 0..MaxSkip
        /\ ring' = <<SeekDone>> /\ filler_state' = "RUN"
        /\ filler' = AfterWaitFree(filler, ring', "RUN")
        /\ silenced' = (silenced \/ \E i \in 1..Len(ring) : ring[i].kind = "song")
        /\ UNCHANGED <<eos, toskip, reader, songs, unseen, overtaken, current_entry>>
    BY <1>3, Zenon DEF SeekOk
  <2>3. /\ filler'.chain = filler.chain /\ filler'.ret = filler.ret
        /\ filler'.pc \in {"free_wait", "top", "read"}
    BY <1>1, <2>1, Waited, Zenon
  <2>4. ring' \in Seq(Item)
    BY <2>1, ItemTypes
  <2>5. SongTypes' /\ HasChain'
    BY <2>1, <2>3, <2>4 DEF Tune, SongTypes, HasChain
  <2>6. StaleUnits' = 0
    BY <2>1, NothingStale, NoData DEF StaleUnits
  <2>7. ASSUME ~ overtaken', ~ silenced'
        PROVE  ~ unseen' /\ Song(ring', current_entry', Len(ring')) = filler.chain
    <3>1. ~ overtaken /\ ~ silenced
          /\ \A i \in 1..Len(ring) : ring[i].kind # "song"
      BY <2>1, <2>7
    <3>2. ~ unseen
      BY <2>1, <3>1 DEF Tune, InTune, AtTop, Clearing
    <3>3. Song(ring, current_entry, Len(ring)) = filler.chain
      BY <2>1, <3>1, <3>2 DEF Tune, InTune, AtTop, LastSongIs
    <3>4. Len(ring) \in Nat
      BY <1>1 DEF Rings
    <3>5. current_entry = filler.chain
      BY <3>1, <3>3, <3>4, NoSongInRing
    <3>6. Len(ring') = 1 /\ ring'[1].kind # "song"
      BY <2>1 DEF SeekDone
    <3>7. Song(ring', current_entry', Len(ring')) = current_entry'
      BY <3>6, NoSongInRing
    <3> QED
      BY <2>1, <3>2, <3>5, <3>7
  <2>8. InTune'
    BY <2>3, <2>6, <2>7, SizesKnown, InTuneWhen
  <2> QED
    BY <2>5, <2>8 DEF Tune
\* Who leaves the ring alone and has a chain.
<1>4. ASSUME filler' = AfterWaitFree(filler, ring', filler_state'),
             filler.chain # NoChain, filler.pc # "done",
             filler_state' = "RUN" => ~ unseen \/ overtaken \/ silenced,
             filler_state' = filler_state \/ ~ unseen \/ overtaken \/ silenced,
             UNCHANGED <<ring, toskip, filler_skip, songs, current_entry, silenced,
                         unseen, overtaken>>
      PROVE  Tune'
  <2>2. /\ filler'.chain = filler.chain /\ filler'.ret = filler.ret
        /\ filler'.pc \in {"free_wait", "top", "read"}
        /\ filler'.pc = "read" => filler_state' = "RUN"
    BY <1>1, <1>4, Waited, Zenon
  <2>3. SongTypes' /\ HasChain'
    BY <1>4, <2>2 DEF Tune, SongTypes, HasChain
  <2>4. ~ overtaken' /\ ~ silenced' =>
           /\ unseen' => filler_state' \in Clearing
           /\ ~ unseen' /\ filler'.chain # NoChain /\ filler'.pc # "done" =>
                LastSongIs(filler'.chain)
           /\ unseen' /\ filler'.pc = "read" => DataAt(ring) = {}
    BY <1>4, <2>2 DEF Tune, InTune
  <2>5. UNCHANGED <<ring, current_entry, silenced>> /\ (overtaken => overtaken')
    BY <1>4
  <2> QED
    BY <2>3, <2>4, <2>5, RingKept
<1>5. CASE SeekFailed
  <2>1. /\ AtTop("SEEK") /\ filler.chain # NoChain /\ filler_state' = "RUN"
        /\ filler' = AfterWaitFree(filler, ring', filler_state')
        /\ UNCHANGED <<ring, toskip, filler_skip, songs, current_entry, silenced,
                       unseen, overtaken>>
    BY <1>5, Zenon DEF SeekFailed, unchangedOthers
  <2>2. ~ unseen \/ overtaken \/ silenced
    BY <2>1 DEF Tune, InTune, AtTop, Clearing
  <2>3. filler.pc # "done"
    BY <2>1 DEF AtTop
  <2> QED
    BY <1>4, <2>1, <2>2, <2>3, Zenon
<1>6. CASE RunChain
  <2>1. /\ AtTop("RUN") /\ filler.chain # NoChain /\ filler_state' = filler_state
        /\ filler' = AfterWaitFree(filler, ring', filler_state')
        /\ UNCHANGED <<ring, toskip, filler_skip, songs, current_entry, silenced,
                       unseen, overtaken>>
    BY <1>6, Zenon DEF RunChain, AtTop, unchangedOthers
  <2>2. ~ unseen \/ overtaken \/ silenced
    BY <2>1 DEF Tune, InTune, AtTop, Clearing
  <2>3. filler.pc # "done"
    BY <2>1 DEF AtTop
  <2> QED
    BY <1>4, <2>1, <2>2, <2>3, Zenon
<1>7. CASE FreeWoken
  <2>1. /\ filler.pc = "free_woken" /\ filler_state' = filler_state
        /\ filler' = AfterWaitFree(filler, ring', filler_state')
        /\ UNCHANGED <<ring, toskip, filler_skip, songs, current_entry, silenced,
                       unseen, overtaken>>
    BY <1>7, Zenon DEF FreeWoken, unchangedOthers
  <2>2. filler.chain # NoChain /\ filler.pc # "done"
    BY <2>1 DEF Tune, HasChain
  <2>3. filler_state' = "RUN" => ~ unseen \/ overtaken \/ silenced
    BY <2>1 DEF Tune, InTune, Clearing
  <2> QED
    BY <1>4, <2>1, <2>2, <2>3, Zenon
<1>8. CASE AnnounceSong
  <2> DEFINE f == [filler EXCEPT !.chain = songs']
  <2>1. /\ filler.pc = "lookup" /\ songs < MaxSongs /\ songs' = songs + 1
        /\ ring' = Append(ring, SongChanged(songs'))
        /\ filler' = AfterWaitFree(f, ring', filler_state)
        /\ UNCHANGED <<filler_state, toskip, filler_skip, unseen, overtaken,
                       current_entry, silenced>>
    BY <1>8, Zenon DEF AnnounceSong, unchangedOthers
  <2>2. songs' \in Nat /\ songs' \in 1..MaxSongs
    BY <2>1, BoundsAssumption DEF Tune, SongTypes
  <2>3. Is(f, filler.pc, songs', filler.ret)
    BY <1>1, <2>2, InvFields, Updated, Zenon
  <2> HIDE DEF f
  <2>4. f \in Fillers /\ f.chain = songs' /\ f.ret = filler.ret
    BY <2>3, Zenon DEF Is
  <2>5. /\ filler'.chain = songs' /\ filler'.ret = filler.ret
        /\ filler'.pc \in {"free_wait", "top", "read"}
        /\ filler'.pc = "read" => filler_state = "RUN"
    <3>1. filler' = AfterWaitFree(f, ring', filler_state)
      BY <2>1, Zenon
    <3>2. /\ filler'.chain = f.chain /\ filler'.ret = f.ret
          /\ filler'.pc \in {"free_wait", "top", "read"}
          /\ filler'.pc = "read" => filler_state = "RUN"
      BY <2>4, <3>1, Waited, Zenon
    <3> QED
      BY <2>4, <3>2, Zenon
  <2>6. ring' \in Seq(Item)
    <3>1. SongChanged(songs') \in Item
      BY <2>2, ItemTypes
    <3> QED
      BY <2>1, <3>1 DEF Tune, SongTypes
  <2>7. SongTypes' /\ HasChain'
    BY <2>1, <2>2, <2>5, <2>6 DEF Tune, SongTypes, HasChain, NoChain
  <2>8. /\ Stale(ring', current_entry) = Stale(ring, current_entry)
        /\ Song(ring', current_entry, Len(ring')) = songs'
    BY <1>1, <2>1, <2>2, StaleAnnounced
  <2>9. StaleUnits' = StaleUnits
        /\ Song(ring', current_entry', Len(ring')) = filler'.chain
    BY <2>1, <2>5, <2>8 DEF StaleUnits
  <2>10. ~ overtaken /\ ~ silenced /\ unseen => filler_state # "RUN"
    BY DEF Tune, InTune, Clearing
  <2>11. InTune'
    BY <2>1, <2>5, <2>9, <2>10, InTuneWhen DEF Tune, InTune
  <2> QED
    BY <2>7, <2>11 DEF Tune
<1> QED
  BY <1>3, <1>5, <1>6, <1>7, <1>8

LEMMA WrittenType ==
  ASSUME NEW r \in Seq(Item), NEW s, NEW w \in Nat, NEW c \in 1..MaxSongs,
         Written(s, r, w, c)
  PROVE  s \in Seq(Item)
<1> DEFINE t == [i \in 1..w |-> Data(c)]
<1>1. t \in Seq(Item)
  BY ItemTypes
<1>2. s = r \o t
  BY DEF Written
<1> HIDE DEF t
<1> QED
  BY <1>1, <1>2

LEMMA WrittenUsed ==
  ASSUME NEW r \in Rings, NEW s, NEW w \in Nat, NEW c \in Nat, Written(s, r, w, c)
  PROVE  s \in Rings /\ Used(s) = Used(r) + w
BY UsedWritten, Zenon DEF Written

\* A round of writing.
LEMMA WriteRoundTune ==
  ASSUME IInv, Tune, NEW n \in 0..Block, WriteRound(n),
         \/ filler.pc = "read"
         \/ filler.pc = "write_woken" /\ overtaken,
         toskip' \in 0..MaxSkip,
         UNCHANGED <<filler_skip, songs, filler_state, unseen, overtaken, silenced,
                     current_entry>>
  PROVE  Tune'
<1> DEFINE w == MIN(n, Free(ring))
<1>1. /\ filler.chain \in Nat /\ filler \in Fillers /\ ring \in Rings
      /\ Used(ring) \in Nat /\ Used(ring) <= Usable
  BY InvFields, Zenon
<1>2. w \in Nat /\ w <= n /\ n - w \in 0..Block /\ w <= Block
  BY <1>1, SizesKnown DEF MIN, Free
<1>3. PICK c \in 1..MaxSongs : c = filler.chain
  BY BoundsAssumption DEF Tune, HasChain, SongTypes, NoChain
<1>4. Written(ring', ring, w, c)
  BY <1>3, Zenon DEF WriteRound, Written
<1>5. /\ filler'.chain = c /\ filler'.ret \in 0..Block
      /\ filler'.pc \in {"top", "write_wait"}
  <2>1. \/ filler' = [filler EXCEPT !.pc = "top", !.ret = 0]
        \/ filler' = [filler EXCEPT !.pc = "write_wait", !.ret = n - w]
    BY DEF WriteRound
  <2>2. 0 \in Nat /\ n - w \in Nat /\ {"top", "write_wait"} \subseteq FillerPc
        /\ 0 \in 0..Block
    BY <1>2, SizesKnown DEF FillerPc
  <2> HIDE DEF w
  <2>3. CASE filler' = [filler EXCEPT !.pc = "top", !.ret = 0]
    <3>1. Is(filler', "top", filler.chain, 0)
      BY <1>1, <2>2, <2>3, Updated, Zenon
    <3> QED
      BY <1>3, <2>2, <3>1, Zenon DEF Is
  <2>4. CASE filler' = [filler EXCEPT !.pc = "write_wait", !.ret = n - w]
    <3>1. Is(filler', "write_wait", filler.chain, n - w)
      BY <1>1, <2>2, <2>4, Updated, Zenon
    <3> QED
      BY <1>2, <1>3, <2>2, <3>1, Zenon DEF Is
  <2> QED
    BY <2>1, <2>3, <2>4
<1> HIDE DEF w
<1>6. ring' \in Seq(Item)
  <2>1. ring \in Seq(Item)
    BY DEF Tune, SongTypes
  <2> QED
    BY <1>2, <1>4, <2>1, WrittenType, Zenon
<1>7. SongTypes' /\ HasChain'
  BY <1>3, <1>5, <1>6 DEF Tune, SongTypes, HasChain, NoChain
<1>8. ASSUME ~ overtaken, ~ silenced
      PROVE  /\ StaleUnits' <= Block
             /\ ~ unseen => Song(ring', current_entry', Len(ring')) = c
  <2>1. filler.pc = "read"
    BY <1>8
  <2>2. CASE unseen
    <3>1. DataAt(ring) = {}
      BY <1>8, <2>1, <2>2 DEF Tune, InTune
    <3>2. Used(ring) = 0
      BY <3>1, FS_EmptySet, Zenon DEF Used
    <3>3. ring' \in Rings /\ Used(ring') = w
      <4>1. c \in Nat
        OBVIOUS
      <4>2. ring' \in Rings /\ Used(ring') = Used(ring) + w
        BY <1>1, <1>2, <1>4, <4>1, WrittenUsed, Zenon
      <4> QED
        BY <1>2, <3>2, <4>2
    <3>4. Cardinality(Stale(ring', current_entry')) <= Used(ring')
          /\ Cardinality(Stale(ring', current_entry')) \in Nat
      BY <3>3, StaleFinite, Zenon
    <3> QED
      BY <1>2, <2>2, <3>3, <3>4, SizesKnown DEF StaleUnits
  <2>3. CASE ~ unseen
    <3>1. c # NoChain
      BY <1>3 DEF NoChain
    <3>2. Song(ring, current_entry, Len(ring)) = c
      BY <1>3, <1>5, <1>8, <2>1, <2>3, <3>1 DEF Tune, InTune, LastSongIs
    <3>3. /\ Stale(ring', current_entry) = Stale(ring, current_entry)
          /\ Song(ring', current_entry, Len(ring')) = c
      <4>1. c \in Nat
        OBVIOUS
      <4> QED
        BY <1>1, <1>2, <1>4, <3>2, <4>1, StaleWritten, Zenon
    <3>4. StaleUnits' = StaleUnits
          /\ Song(ring', current_entry', Len(ring')) = c
      BY <3>3 DEF StaleUnits
    <3>5. StaleUnits <= Block
      BY <1>8 DEF Tune, InTune
    <3> QED
      BY <3>4, <3>5
  <2> QED
    BY <2>2, <2>3
<1>9. InTune'
  <2>1. ~ overtaken /\ ~ silenced /\ unseen => filler_state \in Clearing
    BY DEF Tune, InTune
  <2> QED
    BY <1>5, <1>8, <2>1, InTuneWhen
<1> QED
  BY <1>7, <1>9 DEF Tune

LEMMA WriteTune == ASSUME IInv, Tune, WriteBlock \/ WriteWoken PROVE Tune'
<1>1. /\ toskip \in 0..MaxSkip /\ filler.ret \in 0..Block
      /\ Block \in Nat /\ MaxSkip \in Nat
  BY SizesKnown, BoundsAssumption DEF Tune, SongTypes
<1>2. CASE WriteBlock
  <2>1. PICK ret \in 1..Block :
          /\ toskip' = toskip - MIN(ret, toskip)
          /\ WriteRound(ret - MIN(ret, toskip))
    BY <1>2, Zenon DEF WriteBlock
  <2>2. /\ ret - MIN(ret, toskip) \in 0..Block
        /\ toskip' \in 0..MaxSkip
    BY <1>1, <2>1 DEF MIN
  <2>3. /\ filler.pc = "read"
        /\ UNCHANGED <<filler_skip, songs, filler_state, unseen, overtaken,
                       silenced, current_entry>>
    BY <1>2, Zenon DEF WriteBlock, unchangedOthers
  <2> QED
    BY <2>1, <2>2, <2>3, WriteRoundTune
<1>3. CASE WriteWoken
  <2>1. /\ filler.pc = "write_woken" /\ WriteRound(filler.ret) /\ toskip' = toskip
        /\ UNCHANGED <<filler_skip, songs, filler_state, unseen, overtaken,
                       silenced, current_entry>>
    BY <1>3, Zenon DEF WriteWoken, unchangedOthers
  <2>2. overtaken
    BY <2>1 DEF IInv, HasRoom
  <2> QED
    BY <1>1, <2>1, <2>2, WriteRoundTune
<1> QED
  BY <1>2, <1>3

LEMMA FillerTune == ASSUME IInv, Tune, Filler PROVE Tune'
BY LookTune, WaitTune, WriteTune, Zenon DEF Filler

LEMMA ReadWaitsTune == ASSUME IInv, Tune, ReadWaits PROVE Tune'
BY UnchangedTune, Zenon DEF ReadWaits, unchangedOthers

\* A song in the ring, or the one that plays, is one that was taken.
LEMMA SongType ==
  ASSUME NEW r \in Seq(Item), NEW e \in 0..MaxSongs, NEW k \in 0..Len(r)
  PROVE  Song(r, e, k) \in 0..MaxSongs
<1>1. k \in Nat
  OBVIOUS
<1>2. CASE SongMarks(r, k) = {}
  BY <1>2, SongUnmarked
<1>3. CASE \E j \in SongMarks(r, k) : \A l \in SongMarks(r, k) : l <= j
  <2>1. PICK j \in SongMarks(r, k) : \A l \in SongMarks(r, k) : l <= j
    BY <1>3
  <2>2. Song(r, e, k) = r[j].chain
    BY <1>1, <2>1, SongMarked
  <2>3. j \in 1..Len(r) /\ r[j].kind = "song"
    BY DEF SongMarks
  <2>4. r[j] \in Item
    BY <2>3
  <2>5. r[j].chain \in 1..MaxSongs
    BY <2>3, <2>4 DEF Item, SeekDone
  <2> QED
    BY <2>2, <2>5, BoundsAssumption
<1> QED
  BY <1>1, <1>2, <1>3, SongCases

LEMMA ReadDataTune == ASSUME IInv, Tune, ReadData PROVE Tune'
<1>1. /\ filler.chain \in Nat /\ filler \in Fillers /\ ring \in Rings
      /\ ring \in Seq(Item) /\ Len(ring) \in Nat
  BY InvFields DEF Tune, SongTypes
<1>2. PICK k \in 0..Len(ring) :
        /\ AtHead(k) /\ toskip' = ToSkip(k)
        /\ current_entry' = LastSong(k)
        /\ ring' = SubSeq(ring, k + MIN(Chunk, Run(k)) + 1, Len(ring))
        /\ filler' = IF MIN(Chunk, Run(k)) > 0 THEN FreeSignalled(filler)
                                               ELSE filler
  BY Zenon DEF ReadData
<1>3. UNCHANGED <<filler_state, filler_skip, songs, unseen, overtaken, silenced>>
  BY Zenon DEF ReadData
<1>4. current_entry' = Song(ring, current_entry, k)
  BY <1>2, Zenon DEF LastSong, Song, SongMarks
<1>5. PICK m \in Nat :
        /\ k <= m /\ m <= Len(ring) /\ ring' = SubSeq(ring, m + 1, Len(ring))
        /\ \A l \in k + 1..m : ring[l].kind # "song"
  <2> DEFINE X == {i \in DataAt(ring) : \A j \in k + 1..i : ring[j].kind = "data"}
             n == MIN(Chunk, Run(k))
  <2>1. Run(k) = Cardinality(X)
    BY Zenon DEF Run
  <2>2. \A i \in 1..k : ring[i].kind # "data"
    BY <1>2 DEF AtHead
  <2>3. /\ Cardinality(X) \in Nat /\ k + Cardinality(X) <= Len(ring)
        /\ \A l \in k + 1..k + Cardinality(X) : ring[l].kind = "data"
    <3> HIDE DEF X
    <3>1. X = {i \in DataAt(ring) : \A j \in k + 1..i : ring[j].kind = "data"}
      BY DEF X
    <3> QED
      BY <1>1, <2>2, <3>1, RunIsData
  <2> HIDE DEF X
  <2>4. n \in Nat /\ n <= Run(k)
    BY <2>1, <2>3, SizesKnown DEF MIN
  <2>5. ring' = SubSeq(ring, k + n + 1, Len(ring))
    BY <1>2
  <2> HIDE DEF n
  <2>6. k + n \in Nat /\ k <= k + n /\ k + n <= Len(ring)
    BY <1>1, <2>1, <2>3, <2>4
  <2>7. ASSUME NEW l \in k + 1..k + n PROVE ring[l].kind # "song"
    <3>1. l \in k + 1..k + Cardinality(X)
      BY <1>1, <2>1, <2>3, <2>4
    <3>2. ring[l].kind = "data"
      BY <2>3, <3>1
    <3> QED
      BY <3>2
  <2> QED
    BY <2>5, <2>6, <2>7
<1>6. /\ Cardinality(Stale(ring', current_entry')) <= Cardinality(Stale(ring, current_entry))
      /\ Song(ring', current_entry', Len(ring')) = Song(ring, current_entry, Len(ring))
      /\ DataAt(ring) = {} => DataAt(ring') = {}
  <2>1. k \in Nat
    BY <1>1
  <2> QED
    BY <1>1, <1>4, <1>5, <2>1, StaleTaken
<1>7. ring' \in Seq(Item) /\ ring' \in Rings
  <2>1. ASSUME NEW T, NEW r \in Seq(T), NEW i \in Nat
        PROVE  SubSeq(r, i + 1, Len(r)) \in Seq(T)
    OBVIOUS
  <2> QED
    BY <1>1, <1>5, <2>1 DEF Rings
<1>8. StaleUnits \in Nat /\ StaleUnits' \in Nat
  BY <1>1, <1>7, StaleFinite, Zenon DEF StaleUnits
<1>9. current_entry' \in 0..MaxSongs
  BY <1>1, <1>4, SongType DEF Tune, SongTypes
<1>10. toskip' \in 0..MaxSkip
  BY <1>2 DEF Tune, SongTypes, ToSkip
<1>11. /\ filler'.chain = filler.chain /\ filler'.ret = filler.ret
       /\ filler'.pc \in {filler.pc, FreePc(filler.pc)}
  <2>1. Is(FreeSignalled(filler), FreePc(filler.pc), filler.chain, filler.ret)
    BY <1>1, FreeSignalledFields, Zenon
  <2>2. filler' = FreeSignalled(filler) \/ filler' = filler
    BY <1>2, Zenon
  <2>3. CASE filler' = filler
    BY <2>3
  <2>4. CASE filler' = FreeSignalled(filler)
    <3>1. /\ filler'.chain = filler.chain /\ filler'.ret = filler.ret
          /\ filler'.pc = FreePc(filler.pc)
      BY <2>1, <2>4, Zenon DEF Is
    <3> QED
      BY <3>1
  <2> QED
    BY <2>2, <2>3, <2>4
<1>12. SongTypes' /\ HasChain'
  BY <1>3, <1>7, <1>9, <1>10, <1>11 DEF Tune, SongTypes, HasChain, FreePc
<1>13. /\ filler'.pc = "read" => filler.pc = "read"
       /\ filler'.pc # "done" => filler.pc # "done"
  BY <1>11 DEF FreePc
<1>14. StaleUnits' <= StaleUnits
  BY <1>6, Zenon DEF StaleUnits
<1>15. InTune'
  BY <1>3, <1>6, <1>8, <1>11, <1>13, <1>14, SizesKnown DEF Tune, InTune, LastSongIs
<1> QED
  BY <1>12, <1>15 DEF Tune

LEMMA ReadRefusedTune == ASSUME IInv, Tune, ReadRefused PROVE Tune'
<1>1. filler \in Fillers /\ ring \in Rings
  BY InvFields
<1>2. /\ filler_state' = "STOP" /\ ring' = << >> /\ unseen' = TRUE
      /\ filler' = FreeSignalled(StateSignalled(filler))
      /\ UNCHANGED <<filler_skip, songs, overtaken>>
  BY Zenon DEF ReadRefused
<1>3. PICK k \in 0..Len(ring) : \E j \in 1..k :
        /\ ring[j].kind = "song"
        /\ current_entry' = ring[j].chain /\ toskip' = ToSkip(j)
  BY Zenon DEF ReadRefused
<1>4. PICK j \in 1..k :
        /\ ring[j].kind = "song"
        /\ current_entry' = ring[j].chain /\ toskip' = ToSkip(j)
  BY <1>3
<1>5. current_entry' \in 0..MaxSongs
  <2>1. Len(ring) \in Nat
    BY <1>1 DEF Rings
  <2>2. j \in 1..Len(ring)
    BY <2>1
  <2>3. ring[j] \in Item
    BY <2>2 DEF Tune, SongTypes
  <2>4. ring[j].chain \in 1..MaxSongs
    BY <1>4, <2>3 DEF Item, SeekDone
  <2> QED
    BY <1>4, <2>4, BoundsAssumption
<1>6. toskip' \in 0..MaxSkip
  BY <1>4 DEF Tune, SongTypes, ToSkip
<1>7. Is(StateSignalled(filler), TopPc(filler), filler.chain, filler.ret)
  BY <1>1, StateSignalledFields, Zenon
<1>8. Is(filler', FreePc(TopPc(filler)), filler.chain, filler.ret)
  BY <1>2, <1>7, FreeSignalledFields, Zenon DEF Is
<1>9. /\ filler'.pc = FreePc(TopPc(filler)) /\ filler'.chain = filler.chain
      /\ filler'.ret = filler.ret
  BY <1>8, Zenon DEF Is
<1>10. << >> \in Seq(Item)
  OBVIOUS
<1>11. SongTypes' /\ HasChain'
  BY <1>2, <1>5, <1>6, <1>9, <1>10 DEF Tune, SongTypes, HasChain, TopPc, FreePc
<1>12. unseen' /\ filler_state' \in Clearing
  BY <1>2 DEF Clearing
<1> QED
  BY <1>2, <1>11, <1>12, RingCleared

LEMMA StepTune == ASSUME IInv, Tune, [Next]_vars PROVE Tune'
<1>1. CASE UNCHANGED vars
  BY <1>1, UnchangedTune, Zenon DEF vars
<1>2. CASE Next
  BY <1>2, RequestsTune, FillerTune, ReadWaitsTune, ReadDataTune, ReadRefusedTune,
     Zenon DEF Next, Reader
<1> QED
  BY <1>1, <1>2

-----------------------------------------------------------------------------
(***************************************************************************)
(* The types of the rest.                                                  *)
(***************************************************************************)

PlainTypes ==
  /\ filler_state \in {"STOP", "RUN", "QUIT", "KILL", "SEEK"}
  /\ eos \in BOOLEAN
  /\ status \in {"STOP", "PLAY", "PAUSE"}
  /\ reader \in {"idle", "used_wait", "used_woken"}
  /\ client \in [Client -> {"idle", "start_status", "start_undo", "stop_filler"}]
  /\ main \in {"up", "joining", "joined"}
  /\ ops \in 0..MaxOps
  /\ unseen \in BOOLEAN /\ overtaken \in BOOLEAN /\ silenced \in BOOLEAN

LEMMA InitPlain == Init => PlainTypes
<1> SUFFICES ASSUME Init PROVE PlainTypes
  OBVIOUS
<1>1. /\ filler_state = "STOP" /\ eos = FALSE /\ status = "STOP" /\ reader = "idle"
      /\ client = [c \in Client |-> "idle"] /\ main = "up" /\ ops = 0
  BY Zenon DEF Init
<1>2. unseen = FALSE /\ overtaken = FALSE /\ silenced = FALSE
  BY Zenon DEF Init
<1>3. ops \in 0..MaxOps
  BY <1>1, BoundsAssumption
<1>4. client \in [Client -> {"idle", "start_status", "start_undo", "stop_filler"}]
  BY <1>1
<1> QED
  BY <1>1, <1>2, <1>3, <1>4, Zenon DEF PlainTypes

LEMMA FillerStatePlain ==
  ASSUME PlainTypes, filler \in Fillers,
         NEW s \in {"STOP", "RUN", "QUIT", "KILL"}, FillerState(s)
  PROVE  /\ filler_state' \in {"STOP", "RUN", "QUIT", "KILL", "SEEK"}
         /\ eos' \in BOOLEAN /\ reader' = reader
         /\ unseen' \in BOOLEAN /\ overtaken' \in BOOLEAN /\ silenced' = silenced
<1>1. /\ filler_state' = s /\ eos' = (eos /\ s = "STOP")
      /\ unseen' = (s \in Clearing)
      /\ overtaken' = (overtaken \/ (unseen /\ ~ (s \in Clearing)))
      /\ UNCHANGED <<reader, silenced>>
  BY FillerStateEffect, Zenon
<1> QED
  BY <1>1 DEF PlainTypes

\* Commands.
Commands ==
  /\ status' \in {"STOP", "PLAY", "PAUSE"}
  /\ client' \in [Client -> {"idle", "start_status", "start_undo", "stop_filler"}]
  /\ main' \in {"up", "joining", "joined"}
  /\ ops' \in 0..MaxOps

LEMMA RequestsPlain == ASSUME PlainTypes, filler \in Fillers, Requests PROVE PlainTypes'
<1>1. \/ \E s \in {"STOP", "RUN", "QUIT", "KILL"} : FillerState(s)
      \/ FillerSeekState
      \/ UNCHANGED unchangedFiller
  BY Zenon DEF Requests, Start, StartStatus, StartUndo, Stop, StopFiller, Pause,
               Tickle, Seek, Destroy, Joined
<1>2. /\ filler_state' \in {"STOP", "RUN", "QUIT", "KILL", "SEEK"}
      /\ eos' \in BOOLEAN /\ reader' = reader
      /\ unseen' \in BOOLEAN /\ overtaken' \in BOOLEAN /\ silenced' = silenced
  <2>1. CASE FillerSeekState
    BY <2>1 DEF FillerSeekState, PlainTypes
  <2>2. CASE UNCHANGED unchangedFiller
    BY <2>2 DEF unchangedFiller, PlainTypes
  <2> QED
    BY <1>1, <2>1, <2>2, FillerStatePlain, Zenon
<1> DEFINE Next4 == {"idle", "start_status", "start_undo", "stop_filler"}
<1>3. ASSUME NEW c \in Client, NEW n \in Next4, Command(c, n)
      PROVE  client' \in [Client -> Next4] /\ main' = main /\ ops' \in 0..MaxOps
  BY <1>3, BoundsAssumption DEF Command, PlainTypes
<1>4. ASSUME NEW c \in Client, NEW at, NEW n \in Next4, Continue(c, at, n)
      PROVE  client' \in [Client -> Next4] /\ main' = main /\ ops' \in 0..MaxOps
  BY <1>4, BoundsAssumption DEF Continue, PlainTypes
<1>5. \A s \in {"PLAY", "PAUSE"} : StatusSet(s) \subseteq {"STOP", "PLAY", "PAUSE"}
  BY DEF StatusSet, PlainTypes
<1>6. Commands
  <2> USE DEF Commands
  <2>1. CASE Destroy \/ Joined
    BY <2>1 DEF Destroy, Joined, PlainTypes
  <2>2. ASSUME NEW c \in Client,
               \/ Start(c) \/ Stop(c) \/ Pause(c) \/ Tickle(c) \/ Seek(c)
        PROVE  Commands
    <3>1. \E n \in Next4 : Command(c, n)
      BY <2>2 DEF Start, Stop, Pause, Tickle, Seek
    <3>2. status' \in {"STOP", "PLAY", "PAUSE"}
      BY <1>5, <2>2 DEF Start, Stop, Pause, Tickle, Seek, PlainTypes
    <3> QED
      BY <1>3, <3>1, <3>2 DEF PlainTypes
  <2>3. ASSUME NEW c \in Client, StartStatus(c) \/ StartUndo(c) \/ StopFiller(c)
        PROVE  Commands
    <3>1. \E at : \E n \in Next4 : Continue(c, at, n)
      BY <2>3 DEF StartStatus, StartUndo, StopFiller
    <3>2. status' \in {"STOP", "PLAY", "PAUSE"}
      BY <1>5, <2>3 DEF StartStatus, StartUndo, StopFiller, PlainTypes
    <3> QED
      BY <1>4, <3>1, <3>2 DEF PlainTypes
  <2> QED
    BY <2>1, <2>2, <2>3 DEF Requests
<1> QED
  BY <1>2, <1>6 DEF PlainTypes, Commands

LEMMA FillerPlain == ASSUME PlainTypes, Filler PROVE PlainTypes'
<1>1. /\ filler_state' \in {filler_state, "STOP", "RUN"}
      /\ eos' = eos \/ eos' = TRUE
      /\ UNCHANGED <<status, client, main, ops, overtaken>>
      /\ unseen' = unseen \/ unseen' = FALSE
      /\ silenced' = silenced
           \/ silenced' = (silenced \/ \E i \in 1..Len(ring) : ring[i].kind = "song")
  BY Zenon DEF Filler, SeeQuit, SeeStop, SeeKill, SeekWithoutChain, SeekOk, SeekFailed,
     RunChain, RunNoChain, GiveUp, TryNextSong, AnnounceSong, FreeWoken, WriteBlock,
     WriteWoken, SongOver, unchangedOthers
<1>2. reader' \in {reader, UsedSignalled(reader)}
  BY Zenon DEF Filler, SeeQuit, SeeStop, SeeKill, SeekWithoutChain, SeekOk, SeekFailed,
     RunChain, RunNoChain, GiveUp, TryNextSong, AnnounceSong, FreeWoken, WriteBlock,
     WriteWoken, WriteRound, SongOver
<1>3. silenced' \in BOOLEAN
  BY <1>1 DEF PlainTypes
<1>4. reader' \in {"idle", "used_wait", "used_woken"}
  BY <1>2 DEF PlainTypes, UsedSignalled
<1>5. /\ filler_state' \in {"STOP", "RUN", "QUIT", "KILL", "SEEK"}
      /\ eos' \in BOOLEAN /\ unseen' \in BOOLEAN
  BY <1>1 DEF PlainTypes
<1> QED
  BY <1>1, <1>3, <1>4, <1>5, Zenon DEF PlainTypes

LEMMA ReaderPlain == ASSUME PlainTypes, Reader PROVE PlainTypes'
<1>1. CASE ReadWaits
  BY <1>1 DEF ReadWaits, PlainTypes, unchangedOthers
<1>2. CASE ReadData
  <2>1. status' \in {status, "STOP"} /\ reader' = "idle"
        /\ UNCHANGED <<filler_state, eos, client, main, ops, unseen, overtaken, silenced>>
    BY <1>2, Zenon DEF ReadData
  <2> QED
    BY <2>1 DEF PlainTypes
<1>3. CASE ReadRefused
  <2>1. /\ filler_state' = "STOP" /\ eos' = TRUE /\ unseen' = TRUE
        /\ status' = "STOP" /\ reader' = "idle"
        /\ UNCHANGED <<client, main, ops, overtaken, silenced>>
    BY <1>3, Zenon DEF ReadRefused
  <2> QED
    BY <2>1 DEF PlainTypes
<1> QED
  BY <1>1, <1>2, <1>3 DEF Reader

LEMMA StepPlain == ASSUME PlainTypes, filler \in Fillers, [Next]_vars PROVE PlainTypes'
<1>1. CASE UNCHANGED vars
  BY <1>1 DEF vars, PlainTypes
<1> QED
  BY <1>1, RequestsPlain, FillerPlain, ReaderPlain DEF Next

-----------------------------------------------------------------------------

LEMMA StaleIsBounded == ASSUME IInv, Tune, PlainTypes PROVE OneStaleBlock
<1>1. filler \in [pc : FillerPc, chain : 0..MaxSongs, ret : 0..Block]
  <2>1. filler \in Fillers /\ filler.chain \in 0..MaxSongs /\ filler.ret \in 0..Block
    BY InvFields DEF Tune, SongTypes
  <2> QED
    BY <2>1 DEF Fillers
<1>2. Used(ring) <= Usable
  BY InvFields
<1>3. TypeOK
  BY <1>1, <1>2, Zenon DEF TypeOK, Tune, SongTypes, PlainTypes
<1>4. {i \in DataAt(ring) : ring[i].chain # Announced(i)} = Stale(ring, current_entry)
  BY Zenon DEF Stale, Announced, Song, SongMarks
<1>5. ~ overtaken /\ ~ silenced => Cardinality(Stale(ring, current_entry)) <= Block
  BY Zenon DEF Tune, InTune, StaleUnits
<1> QED
  BY <1>3, <1>4, <1>5, Zenon DEF OneStaleBlock

\* At most one block is ever played under another song's name and format: the
\* one the filler was decoding while a stop or a jump cleared the buffer, unless
\* a request was replaced before the filler saw it or a seek dropped the
\* announcement of its own song.
THEOREM StaleBlockIsTheOnlyOne == Spec => []OneStaleBlock
<1> DEFINE Inv == IInv /\ Tune /\ PlainTypes
<1>1. Init => Inv
  BY InitIInv, InitTune, InitPlain
<1>2. Inv /\ [Next]_vars => Inv'
  <2>1. ASSUME Inv, [Next]_vars PROVE Inv'
    <3>1. IInv'
      BY <2>1, StepIInv
    <3>2. Tune'
      BY <2>1, StepTune
    <3>3. PlainTypes'
      BY <2>1, InvFields, StepPlain
    <3> QED
      BY <3>1, <3>2, <3>3
  <2> QED
    BY <2>1
<1>3. Inv => OneStaleBlock
  BY StaleIsBounded
<1> QED
  BY <1>1, <1>2, <1>3, PTL DEF Spec
=============================================================================
