------------------------------ MODULE RingBuf -------------------------------
(***************************************************************************)
(* The ring buffer of src/xmms/ringbuf.c: the array, the two indices, the  *)
(* end-of-stream flag and the queue of hotspots (callbacks that run when   *)
(* the reader reaches the position the writer had when they were set).     *)
(*                                                                         *)
(* Every operation runs under the mutex of its owner, so an operation that *)
(* does not sleep is one action.  The operations that sleep (write_wait,   *)
(* read_wait, wait_free, wait_used, ...) are loops of these around a       *)
(* condition variable; OutputFiller models the ones the server uses.       *)
(***************************************************************************)
EXTENDS Integers, Sequences

CONSTANTS Usable,     \* buffer_size_usable: the size asked for
          Byte,       \* the values of a byte
          Mark,       \* the arguments of hotspots
          MaxMarks,   \* bound: hotspots queued at once
          MaxLen      \* bound: bytes asked for or offered by one call

ASSUME UsableAssumption == Usable \in Nat \ {0}
ASSUME MaxMarksAssumption == MaxMarks \in Nat
ASSUME MaxLenAssumption == MaxLen \in Nat \ {0}

VARIABLES buffer, rd_index, wr_index, eos, hotspots,
          out         \* what the last call gave to its caller, and took

vars == <<buffer, rd_index, wr_index, eos, hotspots, out>>

\* One byte more than asked for: with Usable slots a full buffer would look
\* like an empty one.
Size == Usable + 1

Index == 0..Size - 1

Hotspot == [pos : Index, arg : Mark]

MIN(a, b) == IF a <= b THEN a ELSE b

Nothing == [data |-> <<>>, fired |-> <<>>, wrote |-> <<>>]

BytesUsed == IF wr_index >= rd_index THEN wr_index - rd_index
             ELSE Size - (rd_index - wr_index)

BytesFree == Usable - BytesUsed

\* The slot n places after slot p, and the places from p to the slot q.
Advance(p, n) == (p + n) % Size

Distance(p, q) == (q - p + Size) % Size

(***************************************************************************)
(* The allocator leaves the array as it finds it.                          *)
(***************************************************************************)
Init == /\ buffer \in [Index -> Byte]
        /\ rd_index = 0
        /\ wr_index = 0
        /\ eos = FALSE
        /\ hotspots = <<>>
        /\ out = Nothing

-----------------------------------------------------------------------------
(***************************************************************************)
(* Reading.  read_bytes runs the hotspots that sit at the read index, then *)
(* copies up to the next hotspot.                                          *)
(***************************************************************************)

\* The first k hotspots, and no more, sit at the read index.
Reached(k) == /\ \A i \in 1..k : hotspots[i].pos = rd_index
              /\ k < Len(hotspots) => hotspots[k + 1].pos # rd_index

\* The bytes to copy for a request of len once the first k hotspots have run.
ToRead(len, k) ==
  LET available == MIN(len, BytesUsed)
  IN  IF k < Len(hotspots)
      THEN MIN(available, Distance(rd_index, hotspots[k + 1].pos))
      ELSE available

Copied(n) == [i \in 1..n |-> buffer[Advance(rd_index, i - 1)]]

\* Mutation: the hotspot that ran is not taken off the queue before the next.
Fired_FirstAgain(k) == [i \in 1..k |-> hotspots[1].arg]

Fired(k) == [i \in 1..k |-> hotspots[i].arg]

ReadBytes(len, advance) ==
  \E k \in 0..Len(hotspots) :
    LET n == ToRead(len, k)
    IN  /\ Reached(k)
        /\ out' = [data |-> Copied(n), fired |-> Fired(k), wrote |-> <<>>]
        /\ rd_index' = IF advance THEN Advance(rd_index, n) ELSE rd_index
        /\ hotspots' = SubSeq(hotspots, k + 1, Len(hotspots))
        /\ UNCHANGED <<buffer, wr_index, eos>>

Read(len) == ReadBytes(len, TRUE)

Peek(len) == len <= Usable /\ ReadBytes(len, FALSE)

\* The j-th hotspot's callback returns FALSE: read and peek return 0.  A
\* callback may clear the buffer it is called from (song_changed does, by
\* stopping the filler), which also drops the hotspots behind it.
ReadRefused(clears) ==
  \E k \in 0..Len(hotspots) : \E j \in 1..k :
    /\ Reached(k)
    /\ out' = [data |-> <<>>, fired |-> Fired(j), wrote |-> <<>>]
    /\ hotspots' = IF clears THEN <<>> ELSE SubSeq(hotspots, j + 1, Len(hotspots))
    /\ rd_index' = IF clears THEN 0 ELSE rd_index
    /\ wr_index' = IF clears THEN 0 ELSE wr_index
    /\ UNCHANGED <<buffer, eos>>

-----------------------------------------------------------------------------

\* Mutation: the part behind the end of the array is copied from its index on.
Stored_FromIndex(src, w, p) ==
  IF Distance(wr_index, p) < w
  THEN IF p < wr_index THEN src[p + 1] ELSE src[Distance(wr_index, p) + 1]
  ELSE buffer[p]

\* What slot p holds after the first w bytes of src were copied.
Stored(src, w, p) ==
  IF Distance(wr_index, p) < w THEN src[Distance(wr_index, p) + 1] ELSE buffer[p]

\* Mutation: the write index is not wrapped around.
Write_Unwrapped(src) ==
  LET w == MIN(Len(src), BytesFree)
  IN  /\ buffer' = [p \in Index |-> Stored(src, w, p)]
      /\ wr_index' = wr_index + w
      /\ out' = [Nothing EXCEPT !.wrote = SubSeq(src, 1, w)]
      /\ UNCHANGED <<rd_index, eos, hotspots>>

\* As many of the bytes as fit, from the write index on, around the end.
Write(src) ==
  LET w == MIN(Len(src), BytesFree)
  IN  /\ buffer' = [p \in Index |-> Stored(src, w, p)]
      /\ wr_index' = Advance(wr_index, w)
      /\ out' = [Nothing EXCEPT !.wrote = SubSeq(src, 1, w)]
      /\ UNCHANGED <<rd_index, eos, hotspots>>

HotspotSet(m) ==
  /\ Len(hotspots) < MaxMarks
  /\ hotspots' = Append(hotspots, [pos |-> wr_index, arg |-> m])
  /\ out' = Nothing
  /\ UNCHANGED <<buffer, rd_index, wr_index, eos>>

\* Mutation: the hotspots outlive the data they were set in.
Clear_KeepHotspots ==
  /\ rd_index' = 0
  /\ wr_index' = 0
  /\ out' = Nothing
  /\ UNCHANGED <<buffer, eos, hotspots>>

Clear ==
  /\ rd_index' = 0
  /\ wr_index' = 0
  /\ hotspots' = <<>>
  /\ out' = Nothing
  /\ UNCHANGED <<buffer, eos>>

SetEos(e) ==
  /\ eos' = e
  /\ out' = Nothing
  /\ UNCHANGED <<buffer, rd_index, wr_index, hotspots>>

Next == \/ \E len \in 1..MaxLen : Read(len)
        \/ \E len \in 1..MaxLen : Peek(len)
        \/ \E clears \in BOOLEAN : ReadRefused(clears)
        \/ \E len \in 1..MaxLen : \E src \in [1..len -> Byte] : Write(src)
        \/ \E m \in Mark : HotspotSet(m)
        \/ Clear
        \/ \E e \in BOOLEAN : SetEos(e)

Spec == Init /\ [][Next]_vars

-----------------------------------------------------------------------------

\* The type invariant of the structure and of what its calls return.
TypeOK == /\ buffer \in [Index -> Byte]
          /\ rd_index \in Index
          /\ wr_index \in Index
          /\ eos \in BOOLEAN
          /\ hotspots \in Seq(Hotspot)
          /\ out.data \in Seq(Byte)
          /\ out.fired \in Seq(Mark)
          /\ out.wrote \in Seq(Byte)

Offset(i) == Distance(rd_index, hotspots[i].pos)

\* The queue of hotspots is sorted by how far the reader still is from each,
\* and none lies beyond the data: read_bytes looks only at the head of the
\* queue, so a hotspot out of order would run late or never.
HotspotsInOrder ==
  \A i, j \in 1..Len(hotspots) :
    i <= j => Offset(i) <= Offset(j) /\ Offset(j) <= BytesUsed

\* No call hands out a byte that lies behind a hotspot which has not run: of
\* the hotspots that were queued before the bytes a read copied, every one
\* sat at the read index and was run by that same read.
HotspotBeforeItsData ==
  [][\A i \in 1..Len(hotspots) :
       Offset(i) < Len(out'.data) =>
         /\ i <= Len(out'.fired)
         /\ out'.fired[i] = hotspots[i].arg]_vars

(***************************************************************************)
(* The structure implements the queue of MarkedFifo: its bytes are the     *)
(* slots from the read index to the write index, and a hotspot is a mark   *)
(* as many bytes away as its position is from the read index.              *)
(***************************************************************************)
AbstractBytes == Copied(BytesUsed)

AbstractMarks == [i \in 1..Len(hotspots) |->
                    [at |-> Offset(i), arg |-> hotspots[i].arg]]

Fifo == INSTANCE MarkedFifo WITH Capacity <- Usable, bytes <- AbstractBytes,
                                 marks <- AbstractMarks, ended <- eos

\* Every call of the ring buffer is a call of the bounded queue with marks:
\* no byte is lost, repeated or reordered around the end of the array, and no
\* mark moves relative to the bytes.
ImplementsFifo == Fifo!Spec
=============================================================================
