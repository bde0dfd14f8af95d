---------------------------- MODULE OutputProofs ----------------------------
(***************************************************************************)
(* Proofs about the two ends of the way decoded data takes to the sound    *)
(* card.                                                                   *)
(*                                                                         *)
(* The ring buffer between the filler and the writer (RingBuf.tla), for    *)
(* every size of the buffer, every set of byte values and every set of     *)
(* hotspot arguments: it is a bounded queue with marks.                    *)
(*                                                                         *)
(* The output plugin's writer (OutputPlugin.tla), for any number of        *)
(* clients and commands: a writer that says it has stopped has closed the  *)
(* device, and one that ends with it open was raced by a client.           *)
(***************************************************************************)
EXTENDS RingBuf, OutputPlugin, SequenceTheorems, TLAPS

-----------------------------------------------------------------------------
(***************************************************************************)
(* Index arithmetic: the two uses of % in ringbuf.c wrap at most once, so  *)
(* each is a case distinction over linear terms.                           *)
(***************************************************************************)

\* A number below the divisor is its own remainder.
LEMMA ModSmall ==
  ASSUME NEW n \in Nat \ {0}, NEW a \in 0..n - 1
  PROVE  a % n = a
  BY SMT

\* From the divisor up to its double, the remainder is what is left over.
LEMMA ModOnce ==
  ASSUME NEW n \in Nat \ {0}, NEW a \in n..2 * n - 1
  PROVE  a % n = a - n
  BY SMT

\* Advancing an index by at most the size of the array wraps at most once.
LEMMA AdvanceValue ==
  ASSUME NEW p \in Index, NEW n \in 0..Size - 1
  PROVE  /\ Advance(p, n) = IF p + n < Size THEN p + n ELSE p + n - Size
         /\ Advance(p, n) \in Index
  <1>1. Size \in Nat \ {0}
    BY UsableAssumption DEF Size
  <1>2. CASE p + n < Size
    BY <1>1, <1>2, ModSmall DEF Advance, Index
  <1>3. CASE p + n >= Size
    <2>1. p + n \in Size..2 * Size - 1
      BY <1>1, <1>3 DEF Index
    <2>2. (p + n) % Size = p + n - Size
      BY <1>1, <2>1, ModOnce DEF Index
    <2> QED BY <1>1, <2>1, <2>2 DEF Advance, Index
  <1> QED BY <1>1, <1>2, <1>3 DEF Index

\* The distance from p to q counts the places forward from p.
LEMMA DistanceValue ==
  ASSUME NEW p \in Index, NEW q \in Index
  PROVE  /\ Distance(p, q) = IF q >= p THEN q - p ELSE q - p + Size
         /\ Distance(p, q) \in Index
  <1>1. Size \in Nat \ {0}
    BY UsableAssumption DEF Size
  <1>2. CASE q >= p
    <2>1. q - p + Size \in Size..2 * Size - 1
      BY <1>1, <1>2 DEF Index
    <2>2. (q - p + Size) % Size = q - p
      BY <1>1, <2>1, ModOnce DEF Index
    <2> QED BY <1>1, <1>2, <2>2 DEF Distance, Index
  <1>3. CASE q < p
    <2>1. q - p + Size \in 0..Size - 1
      BY <1>1, <1>3 DEF Index
    <2> QED BY <1>1, <1>3, <2>1, ModSmall DEF Distance, Index
  <1> QED BY <1>1, <1>2, <1>3 DEF Index

\* Moving the near end of a stretch n places forward shortens it by n.
LEMMA DistanceAdvance ==
  ASSUME NEW p \in Index, NEW q \in Index, NEW n \in 0..Distance(p, q)
  PROVE  Distance(Advance(p, n), q) = Distance(p, q) - n
  <1>1. Size \in Nat \ {0}
    BY UsableAssumption DEF Size
  <1>2. n \in 0..Size - 1
    BY DistanceValue, <1>1 DEF Index
  <1>3. /\ Advance(p, n) = IF p + n < Size THEN p + n ELSE p + n - Size
        /\ Advance(p, n) \in Index
    BY <1>2, AdvanceValue
  <1>4. Distance(p, q) = IF q >= p THEN q - p ELSE q - p + Size
    BY DistanceValue
  <1>5. Distance(Advance(p, n), q) =
          IF q >= Advance(p, n) THEN q - Advance(p, n) ELSE q - Advance(p, n) + Size
    BY <1>3, DistanceValue
  <1> QED BY <1>1, <1>2, <1>3, <1>4, <1>5 DEF Index

\* Moving the far end n places forward lengthens it by n, if it stays short
\* of a whole turn.
LEMMA DistanceExtend ==
  ASSUME NEW p \in Index, NEW q \in Index, NEW n \in 0..Size - 1,
         Distance(p, q) + n < Size
  PROVE  Distance(p, Advance(q, n)) = Distance(p, q) + n
  <1>1. Size \in Nat \ {0}
    BY UsableAssumption DEF Size
  <1>3. /\ Advance(q, n) = IF q + n < Size THEN q + n ELSE q + n - Size
        /\ Advance(q, n) \in Index
    BY AdvanceValue
  <1>4. Distance(p, q) = IF q >= p THEN q - p ELSE q - p + Size
    BY DistanceValue
  <1>5. Distance(p, Advance(q, n)) =
          IF Advance(q, n) >= p THEN Advance(q, n) - p ELSE Advance(q, n) - p + Size
    BY <1>3, DistanceValue
  <1> QED BY <1>1, <1>3, <1>4, <1>5 DEF Index

-----------------------------------------------------------------------------
(***************************************************************************)
(* The amounts the operations move.                                        *)
(***************************************************************************)

\* The bytes in use are the places from the read index to the write index.
LEMMA UsedIsDistance ==
  ASSUME TypeOK
  PROVE  /\ BytesUsed = Distance(rd_index, wr_index)
         /\ BytesUsed \in 0..Usable
         /\ BytesFree \in 0..Usable
  <1>1. Distance(rd_index, wr_index) =
          IF wr_index >= rd_index THEN wr_index - rd_index
          ELSE wr_index - rd_index + Size
    BY DistanceValue DEF TypeOK
  <1>2. Distance(rd_index, wr_index) \in 0..Size - 1
    BY DistanceValue DEF TypeOK, Index
  <1> QED BY <1>1, <1>2, UsableAssumption
          DEF TypeOK, BytesUsed, BytesFree, Size, Index

\* A queued hotspot has a position in the array and an argument.
LEMMA HotspotTypes ==
  ASSUME TypeOK, NEW i \in 1..Len(hotspots)
  PROVE  /\ hotspots[i] \in Hotspot
         /\ hotspots[i].pos \in Index
         /\ hotspots[i].arg \in Mark
         /\ Offset(i) \in Nat
         /\ Offset(i) \in Index
  <1>1. hotspots[i] \in Hotspot
    BY DEF TypeOK
  <1>2. hotspots[i].pos \in Index /\ hotspots[i].arg \in Mark
    BY <1>1 DEF Hotspot
  <1>3. Offset(i) \in Index
    BY <1>2, DistanceValue DEF TypeOK, Offset
  <1> QED BY <1>1, <1>2, <1>3, UsableAssumption DEF Index, Size

\* The same after a step, from the indices it leaves.
LEMMA UsedIsDistanceAfter ==
  ASSUME rd_index' \in Index, wr_index' \in Index
  PROVE  BytesUsed' = Distance(rd_index', wr_index')
  <1>1. Distance(rd_index', wr_index') =
          IF wr_index' >= rd_index' THEN wr_index' - rd_index'
          ELSE wr_index' - rd_index' + Size
    BY DistanceValue
  <1> QED BY <1>1, UsableAssumption DEF BytesUsed, Size, Index

\* A read stops at the data's end and at the first hotspot that did not run.
LEMMA ToReadBounds ==
  ASSUME TypeOK, HotspotsInOrder,
         NEW len \in 1..MaxLen, NEW k \in 0..Len(hotspots)
  PROVE  /\ ToRead(len, k) \in 0..BytesUsed
         /\ \A i \in k + 1..Len(hotspots) : ToRead(len, k) <= Offset(i)
  <1>1. BytesUsed \in Nat /\ len \in Nat
    BY UsedIsDistance, UsableAssumption, MaxLenAssumption
  <1>2. \A i \in 1..Len(hotspots) : Offset(i) \in Nat
    BY HotspotTypes
  <1>3. CASE k < Len(hotspots)
    <2>1. k + 1 \in 1..Len(hotspots)
      BY <1>3 DEF TypeOK
    <2>2. ToRead(len, k) = MIN(MIN(len, BytesUsed), Offset(k + 1))
      BY <1>3 DEF ToRead, Offset
    <2>3. \A i \in k + 1..Len(hotspots) : Offset(k + 1) <= Offset(i)
      BY <2>1 DEF HotspotsInOrder, TypeOK
    <2> QED BY <1>1, <1>2, <2>1, <2>2, <2>3 DEF MIN, TypeOK
  <1>4. CASE ~ (k < Len(hotspots))
    BY <1>1, <1>4 DEF ToRead, MIN, TypeOK
  <1> QED BY <1>3, <1>4

\* What is copied and which hotspots run are sequences of the right kind.
LEMMA OutTypes ==
  ASSUME TypeOK
  PROVE  /\ \A n \in 0..Usable : /\ Copied(n) \in Seq(Byte)
                                 /\ Len(Copied(n)) = n
         /\ \A k \in 0..Len(hotspots) : Fired(k) \in Seq(Mark)
  <1>1. ASSUME NEW n \in 0..Usable
        PROVE  Copied(n) \in Seq(Byte) /\ Len(Copied(n)) = n
    <2>1. n \in Nat
      BY UsableAssumption
    <2>2. \A i \in 1..n : buffer[Advance(rd_index, i - 1)] \in Byte
      <3> SUFFICES ASSUME NEW i \in 1..n
                   PROVE  buffer[Advance(rd_index, i - 1)] \in Byte
        OBVIOUS
      <3>1. i - 1 \in 0..Size - 1
        BY UsableAssumption DEF Size
      <3>2. Advance(rd_index, i - 1) \in Index
        BY <3>1, AdvanceValue DEF TypeOK
      <3> QED BY <3>2 DEF TypeOK
    <2> QED BY <2>1, <2>2 DEF Copied
  <1>2. ASSUME NEW k \in 0..Len(hotspots)
        PROVE  Fired(k) \in Seq(Mark)
    <2>1. k \in Nat /\ \A i \in 1..k : i \in 1..Len(hotspots)
      BY DEF TypeOK
    <2>2. \A i \in 1..k : hotspots[i].arg \in Mark
      BY <2>1, HotspotTypes
    <2> QED BY <2>1, <2>2 DEF Fired
  <1> QED BY <1>1, <1>2

-----------------------------------------------------------------------------
(***************************************************************************)
(* Type correctness and the order of the hotspots are inductive together:  *)
(* the order needs the indices in range, and a read keeps the order only   *)
(* because it stops at the first hotspot, which the order makes the        *)
(* nearest one.                                                            *)
(***************************************************************************)
Inv == TypeOK /\ HotspotsInOrder

\* A new ring buffer satisfies the invariant.
LEMMA InitInv == Init => Inv
  <1> SUFFICES ASSUME Init PROVE Inv
    OBVIOUS
  <1>1. 0 \in Index /\ 0 \in 0..Usable
    BY UsableAssumption DEF Index, Size
  <1>2. hotspots = <<>> /\ Len(hotspots) = 0
    BY DEF Init
  <1>3. /\ out.data = <<>> /\ out.fired = <<>> /\ out.wrote = <<>>
        /\ buffer \in [Index -> Byte] /\ rd_index = 0 /\ wr_index = 0 /\ eos = FALSE
    BY DEF Init, Nothing
  <1>4. TypeOK
    BY <1>1, <1>2, <1>3 DEF TypeOK
  <1> QED BY <1>2, <1>4 DEF Inv, HotspotsInOrder

\* What a read leaves: the reader m places ahead, not beyond the data nor the
\* next hotspot, and the hotspots behind the first k, m places nearer.
LEMMA ReadBytesMoves ==
  ASSUME Inv, NEW len \in 1..MaxLen, NEW advance \in BOOLEAN,
         NEW k \in 0..Len(hotspots), NEW m,
         m = IF advance THEN ToRead(len, k) ELSE 0,
         rd_index' = IF advance THEN Advance(rd_index, ToRead(len, k)) ELSE rd_index,
         hotspots' = SubSeq(hotspots, k + 1, Len(hotspots)),
         UNCHANGED wr_index
  PROVE  /\ m \in 0..BytesUsed
         /\ rd_index' = Advance(rd_index, m) /\ rd_index' \in Index
         /\ BytesUsed' = BytesUsed - m
         /\ hotspots' \in Seq(Hotspot) /\ Len(hotspots') = Len(hotspots) - k
         /\ \A i \in 1..Len(hotspots') : /\ k + i \in 1..Len(hotspots)
                                        /\ hotspots'[i] = hotspots[k + i]
                                        /\ Offset(i)' = Offset(k + i) - m
  <1>0. TypeOK /\ HotspotsInOrder
    BY DEF Inv
  <1> DEFINE n == ToRead(len, k)
  <1>2. /\ n \in 0..BytesUsed
        /\ \A i \in k + 1..Len(hotspots) : n <= Offset(i)
        /\ BytesUsed \in 0..Usable
        /\ BytesUsed = Distance(rd_index, wr_index)
    BY <1>0, ToReadBounds, UsedIsDistance
  <1>3. /\ m \in 0..BytesUsed
        /\ m \in 0..Size - 1
        /\ m \in Nat
        /\ \A i \in k + 1..Len(hotspots) : m <= Offset(i)
    <2>1. \A i \in k + 1..Len(hotspots) : Offset(i) \in Nat
      BY <1>0, HotspotTypes
    <2> QED BY <1>2, <2>1, UsableAssumption DEF Size
  <1>4. rd_index' = Advance(rd_index, m) /\ rd_index' \in Index
    <2>1. Advance(rd_index, 0) = rd_index
      BY <1>0, AdvanceValue, UsableAssumption DEF TypeOK, Index, Size
    <2>2. Advance(rd_index, m) \in Index
      BY <1>0, <1>3, AdvanceValue DEF TypeOK
    <2>3. rd_index' = Advance(rd_index, m)
      BY <2>1
    <2> QED BY <2>2, <2>3
  <1>5. /\ hotspots' \in Seq(Hotspot)
        /\ Len(hotspots') = Len(hotspots) - k
        /\ \A i \in 1..Len(hotspots') : /\ k + i \in k + 1..Len(hotspots)
                                       /\ k + i \in 1..Len(hotspots)
                                       /\ hotspots'[i] = hotspots[k + i]
    <2>1. hotspots \in Seq(Hotspot) /\ k + 1 \in 1..Len(hotspots) + 1
      BY <1>0 DEF TypeOK
    <2> QED BY <2>1
  <1>7. \A i \in 1..Len(hotspots') : Offset(i)' = Offset(k + i) - m
    <2> SUFFICES ASSUME NEW i \in 1..Len(hotspots')
                 PROVE  Offset(i)' = Offset(k + i) - m
      OBVIOUS
    <2>1. hotspots[k + i].pos \in Index /\ Offset(k + i) \in Nat
      BY <1>0, <1>5, HotspotTypes
    <2>2. m \in 0..Distance(rd_index, hotspots[k + i].pos)
      <3>1. m <= Offset(k + i) /\ m \in Nat
        BY <1>3, <1>5
      <3>2. m \in 0..Offset(k + i)
        BY <2>1, <3>1
      <3> QED BY <3>2 DEF Offset
    <2>3. Offset(i)' = Distance(Advance(rd_index, m), hotspots[k + i].pos)
      BY <1>4, <1>5 DEF Offset
    <2> QED BY <1>0, <2>1, <2>2, <2>3, DistanceAdvance DEF Offset, TypeOK
  <1>8. BytesUsed' = BytesUsed - m
    <2>1. BytesUsed' = Distance(rd_index', wr_index)
      BY <1>0, <1>4, UsedIsDistanceAfter DEF TypeOK
    <2>2. m \in 0..Distance(rd_index, wr_index)
      BY <1>2, <1>3
    <2>3. Distance(Advance(rd_index, m), wr_index) = Distance(rd_index, wr_index) - m
      BY <1>0, <2>2, DistanceAdvance DEF TypeOK
    <2> QED BY <1>2, <1>4, <2>1, <2>3
  <1> QED BY <1>3, <1>4, <1>5, <1>7, <1>8

\* Dropping the first k hotspots and moving the reader n places forward, not
\* beyond the data nor the next hotspot, keeps both.
LEMMA ReadBytesInv ==
  ASSUME Inv, NEW len \in 1..MaxLen, NEW advance \in BOOLEAN,
         ReadBytes(len, advance)
  PROVE  Inv'
  <1>0. TypeOK /\ HotspotsInOrder
    BY DEF Inv
  <1>1. PICK k \in 0..Len(hotspots) :
          LET n == ToRead(len, k)
          IN  /\ Reached(k)
              /\ out' = [data |-> Copied(n), fired |-> Fired(k), wrote |-> <<>>]
              /\ rd_index' = IF advance THEN Advance(rd_index, n) ELSE rd_index
              /\ hotspots' = SubSeq(hotspots, k + 1, Len(hotspots))
              /\ UNCHANGED <<buffer, wr_index, eos>>
    BY DEF ReadBytes
  <1> DEFINE m == IF advance THEN ToRead(len, k) ELSE 0
  <1>2. /\ m \in 0..BytesUsed
        /\ rd_index' \in Index
        /\ BytesUsed' = BytesUsed - m
        /\ hotspots' \in Seq(Hotspot) /\ Len(hotspots') = Len(hotspots) - k
        /\ \A i \in 1..Len(hotspots') : /\ k + i \in 1..Len(hotspots)
                                       /\ Offset(i)' = Offset(k + i) - m
    BY <1>1, ReadBytesMoves
  <1>3. TypeOK'
    <2>1. ToRead(len, k) \in 0..Usable
      BY <1>0, ToReadBounds, UsedIsDistance, UsableAssumption
    <2>2. Copied(ToRead(len, k)) \in Seq(Byte) /\ Fired(k) \in Seq(Mark)
      BY <1>0, <2>1, OutTypes
    <2> QED BY <1>0, <1>1, <1>2, <2>2 DEF TypeOK
  <1>4. HotspotsInOrder'
    <2> SUFFICES ASSUME NEW i \in 1..Len(hotspots'), NEW j \in 1..Len(hotspots'),
                        i <= j
                 PROVE  Offset(i)' <= Offset(j)' /\ Offset(j)' <= BytesUsed'
      BY DEF HotspotsInOrder
    <2>1. /\ k + i \in 1..Len(hotspots) /\ k + j \in 1..Len(hotspots)
          /\ k + i <= k + j
      BY <1>2
    <2>2. Offset(k + i) <= Offset(k + j) /\ Offset(k + j) <= BytesUsed
      BY <1>0, <2>1 DEF HotspotsInOrder
    <2>3. Offset(k + i) \in Nat /\ Offset(k + j) \in Nat /\ BytesUsed \in Nat
      BY <1>0, <2>1, HotspotTypes, UsedIsDistance, UsableAssumption
    <2> QED BY <1>2, <2>2, <2>3
  <1> QED BY <1>3, <1>4 DEF Inv

\* An operation that leaves both indices alone and queues fewer hotspots.
LEMMA FewerHotspots ==
  ASSUME Inv, NEW j \in 0..Len(hotspots),
         hotspots' = SubSeq(hotspots, j + 1, Len(hotspots)),
         UNCHANGED <<rd_index, wr_index>>
  PROVE  hotspots' \in Seq(Hotspot) /\ HotspotsInOrder'
  <1>0. TypeOK /\ HotspotsInOrder
    BY DEF Inv
  <1>1. /\ hotspots' \in Seq(Hotspot)
        /\ Len(hotspots') = Len(hotspots) - j
        /\ \A i \in 1..Len(hotspots') : /\ j + i \in 1..Len(hotspots)
                                       /\ hotspots'[i] = hotspots[j + i]
    <2>1. hotspots \in Seq(Hotspot) /\ j + 1 \in 1..Len(hotspots) + 1
      BY <1>0 DEF TypeOK
    <2> QED BY <2>1
  <1>2. \A i \in 1..Len(hotspots') : Offset(i)' = Offset(j + i)
    BY <1>1 DEF Offset, Distance, Size
  <1>3. BytesUsed' = BytesUsed
    BY DEF BytesUsed
  <1>4. HotspotsInOrder'
    <2> SUFFICES ASSUME NEW a \in 1..Len(hotspots'), NEW b \in 1..Len(hotspots'),
                        a <= b
                 PROVE  Offset(a)' <= Offset(b)' /\ Offset(b)' <= BytesUsed'
      BY DEF HotspotsInOrder
    <2>1. /\ j + a \in 1..Len(hotspots) /\ j + b \in 1..Len(hotspots)
          /\ j + a <= j + b
      BY <1>1
    <2>2. Offset(j + a) <= Offset(j + b) /\ Offset(j + b) <= BytesUsed
      BY <1>0, <2>1 DEF HotspotsInOrder
    <2> QED BY <1>2, <1>3, <2>2
  <1> QED BY <1>1, <1>4

\* With no hotspot and both indices at 0 the invariant holds.
LEMMA ClearedInv ==
  ASSUME Inv, rd_index' = 0, wr_index' = 0, hotspots' = <<>>,
         UNCHANGED <<buffer, eos>>,
         out'.data \in Seq(Byte), out'.fired \in Seq(Mark), out'.wrote \in Seq(Byte)
  PROVE  Inv'
  <1>1. 0 \in Index
    BY UsableAssumption DEF Index, Size
  <1>2. Len(hotspots') = 0
    OBVIOUS
  <1> QED BY <1>1, <1>2 DEF Inv, TypeOK, HotspotsInOrder

\* A read that a hotspot refuses keeps the invariant.
LEMMA ReadRefusedInv ==
  ASSUME Inv, NEW clears \in BOOLEAN, ReadRefused(clears)
  PROVE  Inv'
  <1>0. PICK k \in 0..Len(hotspots) : \E j \in 1..k :
          /\ out' = [data |-> <<>>, fired |-> Fired(j), wrote |-> <<>>]
          /\ hotspots' = IF clears THEN <<>>
                         ELSE SubSeq(hotspots, j + 1, Len(hotspots))
          /\ rd_index' = IF clears THEN 0 ELSE rd_index
          /\ wr_index' = IF clears THEN 0 ELSE wr_index
          /\ UNCHANGED <<buffer, eos>>
    BY DEF ReadRefused
  <1>1. PICK j \in 1..k :
          /\ out' = [data |-> <<>>, fired |-> Fired(j), wrote |-> <<>>]
          /\ hotspots' = IF clears THEN <<>>
                         ELSE SubSeq(hotspots, j + 1, Len(hotspots))
          /\ rd_index' = IF clears THEN 0 ELSE rd_index
          /\ wr_index' = IF clears THEN 0 ELSE wr_index
          /\ UNCHANGED <<buffer, eos>>
    BY <1>0
  <1>2. j \in 0..Len(hotspots)
    BY DEF Inv, TypeOK
  <1>3. /\ out'.data \in Seq(Byte)
        /\ out'.fired \in Seq(Mark)
        /\ out'.wrote \in Seq(Byte)
    BY <1>1, <1>2, OutTypes, UsableAssumption DEF Inv
  <1>4. CASE clears
    BY <1>1, <1>3, <1>4, ClearedInv
  <1>5. CASE ~ clears
    <2>1. hotspots' \in Seq(Hotspot) /\ HotspotsInOrder'
      BY <1>1, <1>2, <1>5, FewerHotspots
    <2> QED BY <1>1, <1>3, <1>5, <2>1 DEF Inv, TypeOK
  <1> QED BY <1>4, <1>5

\* A write only adds data behind the hotspots, so it keeps the invariant.
LEMMA WriteInv ==
  ASSUME Inv, NEW len \in 1..MaxLen, NEW src \in [1..len -> Byte], Write(src)
  PROVE  Inv'
  <1> DEFINE w == MIN(Len(src), BytesFree)
  <1>0. TypeOK /\ HotspotsInOrder
    BY DEF Inv
  <1>1. /\ BytesUsed = Distance(rd_index, wr_index)
        /\ BytesUsed \in 0..Usable
        /\ BytesFree = Usable - BytesUsed
    BY <1>0, UsedIsDistance DEF BytesFree
  <1>2. len \in Nat /\ Len(src) = len
    BY MaxLenAssumption
  <1>3. /\ w \in 0..Usable /\ w \in 0..Size - 1 /\ w <= Len(src)
        /\ BytesUsed + w < Size
    BY <1>1, <1>2, UsableAssumption DEF MIN, Size
  <1>4. wr_index' = Advance(wr_index, w) /\ wr_index' \in Index
    BY <1>0, <1>3, AdvanceValue DEF Write, TypeOK
  <1>5. BytesUsed' = BytesUsed + w
    <2>1. BytesUsed' = Distance(rd_index, wr_index')
      BY <1>0, <1>4, UsedIsDistanceAfter DEF Write, TypeOK
    <2> QED BY <1>0, <1>1, <1>3, <1>4, <2>1, DistanceExtend DEF TypeOK
  <1>6. buffer' \in [Index -> Byte]
    <2>1. buffer' = [p \in Index |-> Stored(src, w, p)]
      BY DEF Write
    <2>2. ASSUME NEW p \in Index, Distance(wr_index, p) < w
          PROVE  src[Distance(wr_index, p) + 1] \in Byte
      <3>1. Distance(wr_index, p) \in 0..Size - 1
        BY <1>0, DistanceValue DEF TypeOK, Index
      <3>2. Distance(wr_index, p) + 1 \in 1..len
        BY <1>2, <1>3, <2>2, <3>1, UsableAssumption DEF Size
      <3> QED BY <3>2
    <2> QED BY <1>0, <2>1, <2>2 DEF TypeOK, Stored
  <1>7. TypeOK'
    <2>1. SubSeq(src, 1, w) \in Seq(Byte)
      BY <1>2, <1>3
    <2> QED BY <1>0, <1>3, <1>4, <1>6, <2>1 DEF Write, TypeOK, Nothing
  <1>8. HotspotsInOrder'
    <2>1. UNCHANGED <<rd_index, hotspots>>
      BY DEF Write
    <2>2. \A i \in 1..Len(hotspots) : Offset(i)' = Offset(i) /\ Offset(i) \in Nat
      BY <1>0, <2>1, HotspotTypes DEF Offset, Distance, Size
    <2>3. BytesUsed <= BytesUsed' /\ BytesUsed \in Nat /\ BytesUsed' \in Nat
      BY <1>1, <1>3, <1>5
    <2> QED BY <1>0, <2>1, <2>2, <2>3 DEF HotspotsInOrder
  <1> QED BY <1>7, <1>8 DEF Inv

\* A hotspot set now is the farthest: it sits behind all the data.
LEMMA HotspotSetInv ==
  ASSUME Inv, NEW m \in Mark, HotspotSet(m)
  PROVE  Inv'
  <1> DEFINE h == [pos |-> wr_index, arg |-> m]
  <1>0. TypeOK /\ HotspotsInOrder
    BY DEF Inv
  <1>1. /\ hotspots' = Append(hotspots, h)
        /\ h \in Hotspot
        /\ UNCHANGED <<buffer, rd_index, wr_index, eos>>
    BY <1>0 DEF HotspotSet, Hotspot, TypeOK
  <1>2. /\ hotspots' \in Seq(Hotspot)
        /\ Len(hotspots') = Len(hotspots) + 1
        /\ Len(hotspots) \in Nat
        /\ \A i \in 1..Len(hotspots) : hotspots'[i] = hotspots[i]
        /\ hotspots'[Len(hotspots) + 1] = h
    BY <1>0, <1>1 DEF TypeOK
  <1>3. TypeOK'
    BY <1>0, <1>1, <1>2, UsableAssumption DEF HotspotSet, TypeOK, Nothing
  <1>4. BytesUsed' = BytesUsed /\ BytesUsed \in Nat
    BY <1>0, <1>1, UsedIsDistance, UsableAssumption DEF BytesUsed
  <1>5. \A i \in 1..Len(hotspots) : Offset(i)' = Offset(i) /\ Offset(i) \in Nat
    BY <1>0, <1>1, <1>2, HotspotTypes DEF Offset, Distance, Size
  <1>6. ASSUME NEW i \in 1..Len(hotspots'), i = Len(hotspots) + 1
        PROVE  Offset(i)' = BytesUsed
    <2>1. Offset(i)' = Distance(rd_index, wr_index)
      BY <1>1, <1>2, <1>6 DEF Offset, Distance, Size
    <2> QED BY <1>0, <2>1, UsedIsDistance
  <1>7. HotspotsInOrder'
    <2> SUFFICES ASSUME NEW i \in 1..Len(hotspots'), NEW j \in 1..Len(hotspots'),
                        i <= j
                 PROVE  Offset(i)' <= Offset(j)' /\ Offset(j)' <= BytesUsed'
      BY DEF HotspotsInOrder
    <2>1. CASE j \in 1..Len(hotspots)
      <3>1. i \in 1..Len(hotspots)
        BY <1>2, <2>1
      <3> QED BY <1>0, <1>4, <1>5, <2>1, <3>1 DEF HotspotsInOrder
    <2>2. CASE j = Len(hotspots) + 1
      <3>1. CASE i \in 1..Len(hotspots)
        <4>1. Offset(i) <= BytesUsed
          BY <1>0, <3>1 DEF HotspotsInOrder
        <4> QED BY <1>4, <1>5, <1>6, <2>2, <3>1, <4>1
      <3>2. CASE i = Len(hotspots) + 1
        BY <1>4, <1>6, <2>2, <3>2
      <3> QED BY <1>2, <3>1, <3>2
    <2> QED BY <1>2, <2>1, <2>2
  <1> QED BY <1>3, <1>7 DEF Inv

\* Every step keeps the invariant.
LEMMA StepInv == Inv /\ [Next]_vars => Inv'
  <1> SUFFICES ASSUME Inv, [Next]_vars PROVE Inv'
    OBVIOUS
  <1>1. ASSUME NEW len \in 1..MaxLen, Read(len) PROVE Inv'
    BY <1>1, ReadBytesInv DEF Read
  <1>2. ASSUME NEW len \in 1..MaxLen, Peek(len) PROVE Inv'
    BY <1>2, ReadBytesInv DEF Peek
  <1>3. ASSUME NEW clears \in BOOLEAN, ReadRefused(clears) PROVE Inv'
    BY <1>3, ReadRefusedInv
  <1>4. ASSUME NEW len \in 1..MaxLen, NEW src \in [1..len -> Byte], Write(src)
        PROVE  Inv'
    BY <1>4, WriteInv
  <1>5. ASSUME NEW m \in Mark, HotspotSet(m) PROVE Inv'
    BY <1>5, HotspotSetInv
  <1>6. CASE Clear
    BY <1>6, ClearedInv, UsableAssumption DEF Clear, Nothing
  <1>7. ASSUME NEW e \in BOOLEAN, SetEos(e) PROVE Inv'
    BY <1>7, UsableAssumption
       DEF SetEos, Inv, TypeOK, HotspotsInOrder, Offset, Distance, BytesUsed,
           Size, Nothing
  <1>8. CASE UNCHANGED vars
    BY <1>8 DEF vars, Inv, TypeOK, HotspotsInOrder, Offset, Distance, BytesUsed, Size
  <1> QED BY <1>1, <1>2, <1>3, <1>4, <1>5, <1>6, <1>7, <1>8 DEF Next

\* The invariant always holds.
LEMMA Invariance == Spec => []Inv
  <1> QED BY InitInv, StepInv, PTL DEF Spec

\* The indices stay inside the array, the hotspots stay well formed and the
\* calls return what they say, whatever the sizes.
THEOREM TypeCorrect == Spec => []TypeOK
  <1>1. Inv => TypeOK
    BY DEF Inv
  <1> QED BY <1>1, Invariance, PTL

\* The queue of hotspots is always sorted by position and within the data
\* (ringbuf.c looks only at its head), whatever the size of the buffer.
THEOREM HotspotOrder == Spec => []HotspotsInOrder
  <1>1. Inv => HotspotsInOrder
    BY DEF Inv
  <1> QED BY <1>1, Invariance, PTL

-----------------------------------------------------------------------------
\* A read that copies bytes beyond a hotspot has run that hotspot.
LEMMA ReadBytesOrder ==
  ASSUME Inv, NEW len \in 1..MaxLen, NEW advance \in BOOLEAN,
         ReadBytes(len, advance),
         NEW i \in 1..Len(hotspots), Offset(i) < Len(out'.data)
  PROVE  i <= Len(out'.fired) /\ out'.fired[i] = hotspots[i].arg
  <1>0. TypeOK /\ HotspotsInOrder
    BY DEF Inv
  <1>1. PICK k \in 0..Len(hotspots) :
          out' = [data |-> Copied(ToRead(len, k)), fired |-> Fired(k), wrote |-> <<>>]
    BY DEF ReadBytes
  <1> DEFINE n == ToRead(len, k)
  <1>2. n \in 0..BytesUsed /\ \A j \in k + 1..Len(hotspots) : n <= Offset(j)
    BY <1>0, ToReadBounds
  <1>3. n \in 0..Usable
    BY <1>0, <1>2, UsedIsDistance, UsableAssumption
  <1>4. Len(out'.data) = n
    BY <1>0, <1>1, <1>3, OutTypes
  <1>5. Offset(i) \in Nat /\ n \in Nat
    BY <1>0, <1>3, HotspotTypes, UsableAssumption
  <1>6. ~ (n <= Offset(i))
    BY <1>4, <1>5
  <1>7. i \in 1..k
    BY <1>0, <1>2, <1>6 DEF TypeOK
  <1>8. Len(Fired(k)) = k /\ Fired(k)[i] = hotspots[i].arg
    BY <1>0, <1>7 DEF Fired, TypeOK
  <1> QED BY <1>1, <1>7, <1>8

\* No byte behind a hotspot is handed out before the hotspot has run: for any
\* size of buffer and request, the song-changed and seek-done callbacks of
\* output.c run before the first byte they announce is played.
THEOREM HotspotsRunFirst == Spec => HotspotBeforeItsData
  <1> DEFINE P == \A i \in 1..Len(hotspots) :
                    Offset(i) < Len(out'.data) =>
                      /\ i <= Len(out'.fired)
                      /\ out'.fired[i] = hotspots[i].arg
  <1>1. ASSUME Inv, [Next]_vars PROVE [P]_vars
    <2> SUFFICES ASSUME Inv, Next, NEW i \in 1..Len(hotspots),
                        Offset(i) < Len(out'.data)
                 PROVE  i <= Len(out'.fired) /\ out'.fired[i] = hotspots[i].arg
      BY <1>1
    <2>1. Offset(i) \in Nat
      BY HotspotTypes DEF Inv
    <2>2. ASSUME out'.data = <<>> PROVE FALSE
      BY <2>1, <2>2
    <2>3. ASSUME NEW len \in 1..MaxLen, Read(len) \/ Peek(len)
          PROVE  i <= Len(out'.fired) /\ out'.fired[i] = hotspots[i].arg
      BY <2>3, ReadBytesOrder DEF Read, Peek
    <2>4. ASSUME NEW clears \in BOOLEAN, ReadRefused(clears) PROVE FALSE
      BY <2>2, <2>4 DEF ReadRefused
    <2>5. ASSUME NEW len \in 1..MaxLen, NEW src \in [1..len -> Byte], Write(src)
          PROVE  FALSE
      BY <2>2, <2>5 DEF Write, Nothing
    <2>6. ASSUME NEW m \in Mark, HotspotSet(m) PROVE FALSE
      BY <2>2, <2>6 DEF HotspotSet, Nothing
    <2>7. CASE Clear
      BY <2>2, <2>7 DEF Clear, Nothing
    <2>8. ASSUME NEW e \in BOOLEAN, SetEos(e) PROVE FALSE
      BY <2>2, <2>8 DEF SetEos, Nothing
    <2> QED BY <2>3, <2>4, <2>5, <2>6, <2>7, <2>8 DEF Next
  <1>2. [][P]_vars <=> HotspotBeforeItsData
    BY DEF HotspotBeforeItsData
  <1> QED BY <1>1, <1>2, Invariance, PTL DEF Spec

-----------------------------------------------------------------------------
(***************************************************************************)
(* The refinement of MarkedFifo: what each call does to the queue of bytes *)
(* and marks that the array, the indices and the hotspots stand for.       *)
(***************************************************************************)

AbstractMark == [at : Nat, arg : Mark]

AbstractState ==
  /\ AbstractBytes \in Seq(Byte) /\ Len(AbstractBytes) = BytesUsed
  /\ \A i \in 1..BytesUsed :
       AbstractBytes[i] = buffer[Advance(rd_index, i - 1)]
  /\ AbstractMarks \in Seq(AbstractMark)
  /\ Len(AbstractMarks) = Len(hotspots)
  /\ \A i \in 1..Len(hotspots) :
       /\ AbstractMarks[i] = [at |-> Offset(i), arg |-> hotspots[i].arg]
       /\ AbstractMarks[i].at = Offset(i)
       /\ AbstractMarks[i].arg = hotspots[i].arg

\* A mark has what it was made of, and can come nearer.
LEMMA MarkFields ==
  \A r, a, b, m : r = [at |-> a, arg |-> b] =>
    /\ r.at = a /\ r.arg = b
    /\ [r EXCEPT !.at = @ - m] = [at |-> a - m, arg |-> b]
  OBVIOUS

\* The bytes between the indices, and the hotspots seen from the read index.
LEMMA AbstractValues == TypeOK => AbstractState
  <1> SUFFICES ASSUME TypeOK PROVE AbstractState
    OBVIOUS
  <1>1. BytesUsed \in 0..Usable /\ BytesUsed \in Nat
    BY UsedIsDistance, UsableAssumption
  <1>2. AbstractBytes \in Seq(Byte) /\ Len(AbstractBytes) = BytesUsed
    BY <1>1, OutTypes DEF AbstractBytes
  <1>3. \A i \in 1..BytesUsed :
          AbstractBytes[i] = buffer[Advance(rd_index, i - 1)]
    BY <1>1 DEF AbstractBytes, Copied
  <1>4. Len(hotspots) \in Nat
    BY DEF TypeOK
  <1>5. \A i \in 1..Len(hotspots) :
          [at |-> Offset(i), arg |-> hotspots[i].arg] \in AbstractMark
    BY HotspotTypes DEF AbstractMark
  <1>6. AbstractMarks \in Seq(AbstractMark) /\ Len(AbstractMarks) = Len(hotspots)
    BY <1>4, <1>5 DEF AbstractMarks
  <1>7. \A i \in 1..Len(hotspots) :
          AbstractMarks[i] = [at |-> Offset(i), arg |-> hotspots[i].arg]
    BY <1>4 DEF AbstractMarks
  <1>8. \A i \in 1..Len(hotspots) : /\ AbstractMarks[i].at = Offset(i)
                                   /\ AbstractMarks[i].arg = hotspots[i].arg
    <2> SUFFICES ASSUME NEW i \in 1..Len(hotspots)
                 PROVE  /\ AbstractMarks[i].at = Offset(i)
                        /\ AbstractMarks[i].arg = hotspots[i].arg
      OBVIOUS
    <2>1. AbstractMarks[i] = [at |-> Offset(i), arg |-> hotspots[i].arg]
      BY <1>7
    <2> QED BY <2>1, MarkFields
  <1> QED BY <1>2, <1>3, <1>6, <1>7, <1>8 DEF AbstractState

\* Going m places and then n places forward is going m + n places forward.
LEMMA AdvanceAdvance ==
  ASSUME NEW p \in Index, NEW m \in 0..Size - 1, NEW n \in 0..Size - 1,
         m + n < Size
  PROVE  Advance(Advance(p, m), n) = Advance(p, m + n)
  <1>1. Size \in Nat \ {0}
    BY UsableAssumption DEF Size
  <1>2. m + n \in 0..Size - 1
    BY <1>1
  <1>3. /\ Advance(p, m) = IF p + m < Size THEN p + m ELSE p + m - Size
        /\ Advance(p, m) \in Index
    BY AdvanceValue
  <1>4. Advance(p, m + n) =
          IF p + (m + n) < Size THEN p + (m + n) ELSE p + (m + n) - Size
    BY <1>2, AdvanceValue
  <1>5. Advance(Advance(p, m), n) =
          IF Advance(p, m) + n < Size THEN Advance(p, m) + n
                                      ELSE Advance(p, m) + n - Size
    BY <1>3, AdvanceValue
  <1> QED BY <1>1, <1>3, <1>4, <1>5 DEF Index

\* What is left of a sequence without its first m elements.
LEMMA RestValues ==
  ASSUME NEW S, NEW s \in Seq(S), NEW m \in 0..Len(s)
  PROVE  /\ SubSeq(s, m + 1, Len(s)) \in Seq(S)
         /\ Len(SubSeq(s, m + 1, Len(s))) = Len(s) - m
         /\ \A i \in 1..Len(s) - m : SubSeq(s, m + 1, Len(s))[i] = s[m + i]
  OBVIOUS

\* A read takes its bytes off the front of the queue.
LEMMA ReadTakesBytes ==
  ASSUME TypeOK, TypeOK', NEW m \in 0..BytesUsed,
         rd_index' = Advance(rd_index, m), BytesUsed' = BytesUsed - m,
         UNCHANGED buffer
  PROVE  AbstractBytes' = SubSeq(AbstractBytes, m + 1, Len(AbstractBytes))
  <1> DEFINE left == SubSeq(AbstractBytes, m + 1, Len(AbstractBytes))
  <1>1. /\ BytesUsed \in 0..Usable /\ BytesUsed \in Nat
        /\ Size \in Nat /\ Usable = Size - 1
    BY UsedIsDistance, UsableAssumption DEF Size
  <1>2. /\ AbstractBytes \in Seq(Byte) /\ Len(AbstractBytes) = BytesUsed
        /\ \A i \in 1..BytesUsed :
             AbstractBytes[i] = buffer[Advance(rd_index, i - 1)]
    BY AbstractValues DEF AbstractState
  <1>3. /\ AbstractBytes' \in Seq(Byte) /\ Len(AbstractBytes') = BytesUsed - m
        /\ \A i \in 1..BytesUsed - m :
             AbstractBytes'[i] = buffer[Advance(rd_index', i - 1)]
    <2>1. AbstractState'
      BY AbstractValues, PTL
    <2>2. \A p, n : Advance(p, n)' = Advance(p', n')
      BY DEF Advance, Size
    <2>3. /\ AbstractBytes' \in Seq(Byte) /\ Len(AbstractBytes') = BytesUsed'
          /\ \A i \in 1..BytesUsed' :
               AbstractBytes'[i] = buffer'[Advance(rd_index', i - 1)]
      BY <2>1, <2>2, Zenon DEF AbstractState
    <2> QED BY <2>3, Zenon
  <1>4. /\ left \in Seq(Byte) /\ Len(left) = BytesUsed - m
        /\ \A i \in 1..BytesUsed - m : left[i] = AbstractBytes[m + i]
    <2>1. m \in 0..Len(AbstractBytes)
      BY <1>1, <1>2
    <2> QED BY <1>2, <2>1, RestValues, Zenon
  <1>5. ASSUME NEW i \in 1..BytesUsed - m
        PROVE  AbstractBytes'[i] = left[i]
    <2>1. /\ m \in 0..Size - 1 /\ i - 1 \in 0..Size - 1 /\ m + (i - 1) < Size
          /\ m + i \in 1..BytesUsed /\ m + (i - 1) = m + i - 1
      BY <1>1
    <2>2. Advance(rd_index', i - 1) = Advance(rd_index, m + (i - 1))
      BY <2>1, AdvanceAdvance DEF TypeOK
    <2> QED BY <1>2, <1>3, <1>4, <2>1, <2>2
  <1> QED BY <1>3, <1>4, <1>5, SeqEqual, Zenon

\* Hotspots that ran leave the front of the queue, and the others come nearer
\* by what was read.
LEMMA ReadTakesMarks ==
  ASSUME TypeOK, TypeOK', NEW k \in 0..Len(hotspots), NEW m \in Nat,
         Len(hotspots') = Len(hotspots) - k,
         \A i \in 1..Len(hotspots') : /\ k + i \in 1..Len(hotspots)
                                      /\ hotspots'[i] = hotspots[k + i]
                                      /\ Offset(i)' = Offset(k + i) - m
  PROVE  AbstractMarks' = Fifo!MarksLeft(k, m)
  <1>1. /\ Len(AbstractMarks) = Len(hotspots)
        /\ \A i \in 1..Len(hotspots) :
             AbstractMarks[i] = [at |-> Offset(i), arg |-> hotspots[i].arg]
    BY AbstractValues DEF AbstractState
  <1>2. AbstractMarks' = [i \in 1..Len(hotspots') |->
                            [at |-> Offset(i)', arg |-> hotspots'[i].arg]]
    BY DEF AbstractMarks
  <1>3. \A i \in 1..Len(hotspots') :
          [AbstractMarks[k + i] EXCEPT !.at = @ - m] =
            [at |-> Offset(i)', arg |-> hotspots'[i].arg]
    <2> SUFFICES ASSUME NEW i \in 1..Len(hotspots')
                 PROVE  [AbstractMarks[k + i] EXCEPT !.at = @ - m] =
                          [at |-> Offset(i)', arg |-> hotspots'[i].arg]
      OBVIOUS
    <2>1. AbstractMarks[k + i] = [at |-> Offset(k + i), arg |-> hotspots[k + i].arg]
      BY <1>1
    <2>2. /\ hotspots'[i].arg = hotspots[k + i].arg
          /\ Offset(i)' = Offset(k + i) - m
      BY Zenon
    <2> QED BY <2>1, <2>2, MarkFields
  <1> QED BY <1>1, <1>2, <1>3 DEF Fifo!MarksLeft

\* The hotspots at the read index are the marks that are due.
LEMMA ReachedIsDue ==
  ASSUME TypeOK, NEW k \in 0..Len(hotspots), Reached(k)
  PROVE  Fifo!Due(k) /\ Fifo!FirstMarks(k) = Fired(k)
  <1>1. /\ Len(AbstractMarks) = Len(hotspots) /\ Len(hotspots) \in Nat
        /\ \A i \in 1..Len(hotspots) :
             /\ AbstractMarks[i].at = Offset(i)
             /\ AbstractMarks[i].arg = hotspots[i].arg
    <2>1. Len(hotspots) \in Nat
      BY DEF TypeOK
    <2> QED BY <2>1, AbstractValues, Zenon DEF AbstractState
  <1>2. \A i \in 1..Len(hotspots) :
          Offset(i) \in Nat /\ (Offset(i) = 0 <=> hotspots[i].pos = rd_index)
    <2> SUFFICES ASSUME NEW i \in 1..Len(hotspots)
                 PROVE  /\ Offset(i) \in Nat
                        /\ Offset(i) = 0 <=> hotspots[i].pos = rd_index
      OBVIOUS
    <2>1. hotspots[i].pos \in Index /\ rd_index \in Index /\ Offset(i) \in Nat
      BY HotspotTypes DEF TypeOK
    <2>2. Offset(i) = IF hotspots[i].pos >= rd_index
                      THEN hotspots[i].pos - rd_index
                      ELSE hotspots[i].pos - rd_index + Size
      BY <2>1, DistanceValue DEF Offset
    <2> QED BY <2>1, <2>2, UsableAssumption DEF Index, Size
  <1>3. Fifo!Due(k)
    <2>1. \A i \in 1..k : i \in 1..Len(hotspots) /\ AbstractMarks[i].at = 0
      BY <1>1, <1>2 DEF Reached
    <2>2. ASSUME k < Len(hotspots) PROVE AbstractMarks[k + 1].at > 0
      <3>1. k + 1 \in 1..Len(hotspots)
        BY <1>1, <2>2
      <3> QED BY <1>1, <1>2, <2>2, <3>1 DEF Reached
    <2> QED BY <1>1, <2>1, <2>2 DEF Fifo!Due
  <1>4. \A i \in 1..k : AbstractMarks[i].arg = hotspots[i].arg
    BY <1>1
  <1> QED BY <1>3, <1>4 DEF Fifo!FirstMarks, Fired

\* What read_bytes copies is the front of the queue.
LEMMA CopiedIsFront ==
  ASSUME TypeOK, NEW n \in 0..BytesUsed
  PROVE  SubSeq(AbstractBytes, 1, n) = Copied(n)
  <1>1. BytesUsed \in Nat /\ n \in 0..Usable /\ n \in Nat
    BY UsedIsDistance, UsableAssumption
  <1>2. /\ AbstractBytes \in Seq(Byte) /\ Len(AbstractBytes) = BytesUsed
        /\ \A i \in 1..BytesUsed :
             AbstractBytes[i] = buffer[Advance(rd_index, i - 1)]
    BY AbstractValues DEF AbstractState
  <1>3. /\ SubSeq(AbstractBytes, 1, n) \in Seq(Byte)
        /\ Len(SubSeq(AbstractBytes, 1, n)) = n
        /\ \A i \in 1..n : SubSeq(AbstractBytes, 1, n)[i] = AbstractBytes[i]
    BY <1>1, <1>2
  <1>4. Copied(n) \in Seq(Byte) /\ Len(Copied(n)) = n
    BY <1>1, OutTypes
  <1>5. \A i \in 1..n : Copied(n)[i] = buffer[Advance(rd_index, i - 1)]
    BY <1>1 DEF Copied
  <1>6. \A i \in 1..n : SubSeq(AbstractBytes, 1, n)[i] = Copied(n)[i]
    BY <1>1, <1>2, <1>3, <1>5
  <1> QED BY <1>3, <1>4, <1>6, SeqEqual, Zenon

\* A read that runs k hotspots delivers the k marks that are due and the bytes
\* up to the next one, or to the end of the data.
LEMMA ReadBytesDelivers ==
  ASSUME Inv, Inv', NEW len \in 1..MaxLen, NEW advance \in BOOLEAN,
         ReadBytes(len, advance)
  PROVE  Fifo!Deliver(len, advance)
  <1>0. TypeOK /\ HotspotsInOrder /\ TypeOK'
    BY DEF Inv
  <1>1. PICK k \in 0..Len(hotspots) :
          LET n == ToRead(len, k)
          IN  /\ Reached(k)
              /\ out' = [data |-> Copied(n), fired |-> Fired(k), wrote |-> <<>>]
              /\ rd_index' = IF advance THEN Advance(rd_index, n) ELSE rd_index
              /\ hotspots' = SubSeq(hotspots, k + 1, Len(hotspots))
              /\ UNCHANGED <<buffer, wr_index, eos>>
    BY DEF ReadBytes
  <1> DEFINE n == ToRead(len, k)
             m == IF advance THEN n ELSE 0
             available == Fifo!Smaller(len, Len(AbstractBytes))
             upTo == IF k < Len(AbstractMarks)
                     THEN Fifo!Smaller(available, AbstractMarks[k + 1].at)
                     ELSE available
  <1>2. /\ m \in 0..BytesUsed
        /\ rd_index' = Advance(rd_index, m)
        /\ BytesUsed' = BytesUsed - m
        /\ Len(hotspots') = Len(hotspots) - k
        /\ \A i \in 1..Len(hotspots') : /\ k + i \in 1..Len(hotspots)
                                       /\ hotspots'[i] = hotspots[k + i]
                                       /\ Offset(i)' = Offset(k + i) - m
    BY <1>1, ReadBytesMoves
  <1>3. n \in 0..BytesUsed
    BY <1>0, ToReadBounds
  <1>4. /\ Len(AbstractBytes) = BytesUsed /\ Len(AbstractMarks) = Len(hotspots)
        /\ \A i \in 1..Len(hotspots) : AbstractMarks[i].at = Offset(i)
    BY <1>0, AbstractValues, Zenon DEF AbstractState
  <1>5. upTo = n
    <2>1. ASSUME k < Len(hotspots) PROVE AbstractMarks[k + 1].at = Offset(k + 1)
      <3>1. k + 1 \in 1..Len(hotspots)
        BY <1>0, <2>1 DEF TypeOK
      <3> QED BY <1>4, <3>1, Zenon
    <2> QED BY <1>4, <2>1 DEF ToRead, MIN, Fifo!Smaller, Offset
  <1>6. Fifo!Due(k) /\ Fifo!FirstMarks(k) = Fired(k)
    BY <1>0, <1>1, ReachedIsDue
  <1>7. out' = [data |-> SubSeq(AbstractBytes, 1, n),
                fired |-> Fifo!FirstMarks(k), wrote |-> <<>>]
    BY <1>0, <1>1, <1>3, <1>6, CopiedIsFront, Zenon
  <1>8. AbstractBytes' = SubSeq(AbstractBytes, m + 1, Len(AbstractBytes))
    BY <1>0, <1>1, <1>2, ReadTakesBytes
  <1>9. AbstractMarks' = Fifo!MarksLeft(k, m)
    <2>1. m \in Nat
      BY <1>0, <1>2, UsedIsDistance, UsableAssumption
    <2> QED BY <1>0, <1>2, <2>1, ReadTakesMarks
  <1>10. k \in 0..Len(AbstractMarks) /\ eos' = eos
    BY <1>1, <1>4
  <1> QED BY <1>5, <1>6, <1>7, <1>8, <1>9, <1>10, Zenon DEF Fifo!Deliver

\* An empty structure is an empty queue.
LEMMA ClearedIsEmpty ==
  ASSUME rd_index' = 0, wr_index' = 0, hotspots' = <<>>
  PROVE  AbstractBytes' = <<>> /\ AbstractMarks' = <<>>
  <1>1. BytesUsed' = 0 /\ Len(hotspots') = 0
    BY DEF BytesUsed
  <1> QED BY <1>1 DEF AbstractBytes, AbstractMarks, Copied

\* The bytes do not change when neither the array nor the indices do, nor do
\* the marks when neither the hotspots nor the read index do.
LEMMA SameBytes ==
  ASSUME UNCHANGED <<buffer, rd_index, wr_index>>
  PROVE  AbstractBytes' = AbstractBytes
  BY DEF AbstractBytes, Copied, BytesUsed, Advance, Size

LEMMA SameMarks ==
  ASSUME UNCHANGED <<hotspots, rd_index>>
  PROVE  AbstractMarks' = AbstractMarks
  BY DEF AbstractMarks, Offset, Distance, Size

\* A read that a hotspot refuses delivers the marks up to it, and no bytes.
LEMMA ReadRefusedRefuses ==
  ASSUME Inv, Inv', NEW clears \in BOOLEAN, ReadRefused(clears)
  PROVE  Fifo!Refuse(clears)
  <1>0. TypeOK /\ HotspotsInOrder /\ TypeOK'
    BY DEF Inv
  <1>1. PICK k \in 0..Len(hotspots) : \E j \in 1..k :
          /\ Reached(k)
          /\ out' = [data |-> <<>>, fired |-> Fired(j), wrote |-> <<>>]
          /\ hotspots' = IF clears THEN <<>>
                         ELSE SubSeq(hotspots, j + 1, Len(hotspots))
          /\ rd_index' = IF clears THEN 0 ELSE rd_index
          /\ wr_index' = IF clears THEN 0 ELSE wr_index
          /\ UNCHANGED <<buffer, eos>>
    BY DEF ReadRefused
  <1>2. PICK j \in 1..k :
          /\ Reached(k)
          /\ out' = [data |-> <<>>, fired |-> Fired(j), wrote |-> <<>>]
          /\ hotspots' = IF clears THEN <<>>
                         ELSE SubSeq(hotspots, j + 1, Len(hotspots))
          /\ rd_index' = IF clears THEN 0 ELSE rd_index
          /\ wr_index' = IF clears THEN 0 ELSE wr_index
          /\ UNCHANGED <<buffer, eos>>
    BY <1>1
  <1>3. Len(hotspots) \in Nat /\ j \in 0..Len(hotspots)
    BY <1>0 DEF TypeOK
  <1>4. /\ Len(AbstractMarks) = Len(hotspots)
        /\ \A i \in 1..Len(hotspots) : AbstractMarks[i].arg = hotspots[i].arg
    BY <1>0, AbstractValues, Zenon DEF AbstractState
  <1>5. Fifo!Due(k)
    BY <1>0, <1>2, ReachedIsDue
  <1>6. Fifo!FirstMarks(j) = Fired(j)
    BY <1>3, <1>4 DEF Fifo!FirstMarks, Fired
  <1>7. /\ AbstractBytes' = IF clears THEN <<>> ELSE AbstractBytes
        /\ AbstractMarks' = IF clears THEN <<>> ELSE Fifo!MarksLeft(j, 0)
    <2>1. CASE clears
      BY <1>2, <2>1, ClearedIsEmpty
    <2>2. CASE ~ clears
      <3>1. hotspots' = SubSeq(hotspots, j + 1, Len(hotspots))
            /\ UNCHANGED <<buffer, rd_index, wr_index>>
        BY <1>2, <2>2
      <3>2. AbstractBytes' = AbstractBytes
        BY <3>1, SameBytes
      <3>3. /\ Len(hotspots') = Len(hotspots) - j
            /\ \A i \in 1..Len(hotspots') : /\ j + i \in 1..Len(hotspots)
                                           /\ hotspots'[i] = hotspots[j + i]
        <4>1. hotspots \in Seq(Hotspot) /\ j + 1 \in 1..Len(hotspots) + 1
          BY <1>0, <1>3 DEF TypeOK
        <4> QED BY <3>1, <4>1
      <3>4. \A i \in 1..Len(hotspots') : Offset(i)' = Offset(j + i) - 0
        <4>1. \A i \in 1..Len(hotspots') : Offset(i)' = Offset(j + i)
          BY <3>1, <3>3 DEF Offset, Distance, Size
        <4> QED BY <1>0, <3>3, <4>1, HotspotTypes
      <3> QED BY <1>0, <1>3, <2>2, <3>2, <3>3, <3>4, ReadTakesMarks
    <2> QED BY <2>1, <2>2
  <1>8. k \in 0..Len(AbstractMarks) /\ eos' = eos
    BY <1>2, <1>4
  <1> QED BY <1>2, <1>5, <1>6, <1>7, <1>8, Zenon DEF Fifo!Refuse

\* Where the places behind the read index lie, seen from the write index: the
\* first used ones not before it, the others behind it.
LEMMA WrappedPlace ==
  ASSUME NEW s \in Nat, NEW r \in 0..s - 1, NEW q \in 0..s - 1,
         NEW used \in Nat, used = IF q >= r THEN q - r ELSE q - r + s,
         NEW w \in Nat, used + w < s, NEW i \in 1..used + w,
         NEW p \in Int, p = IF r + (i - 1) < s THEN r + (i - 1) ELSE r + (i - 1) - s,
         NEW d \in Int, d = IF p >= q THEN p - q ELSE p - q + s
  PROVE  /\ i <= used => ~ (d < w)
         /\ ~ (i <= used) => d < w /\ d + 1 = i - used
  OBVIOUS

LEMMA ConcatValues ==
  ASSUME NEW S, NEW s \in Seq(S), NEW t \in Seq(S)
  PROVE  /\ s \o t \in Seq(S)
         /\ Len(s \o t) = Len(s) + Len(t)
         /\ \A i \in 1..Len(s) + Len(t) :
              (s \o t)[i] = IF i <= Len(s) THEN s[i] ELSE t[i - Len(s)]
  OBVIOUS

\* A write puts as many bytes as fit behind the others.
LEMMA WritePuts ==
  ASSUME Inv, Inv', NEW len \in 1..MaxLen, NEW src \in [1..len -> Byte], Write(src)
  PROVE  Fifo!Put(src)
  <1> DEFINE w == MIN(Len(src), BytesFree)
             added == SubSeq(src, 1, w)
  <1>0. TypeOK /\ HotspotsInOrder /\ TypeOK'
    BY DEF Inv
  <1>1. /\ BytesUsed = Distance(rd_index, wr_index)
        /\ BytesUsed \in 0..Usable
        /\ BytesFree = Usable - BytesUsed
        /\ Size \in Nat /\ Usable = Size - 1
    BY <1>0, UsedIsDistance, UsableAssumption DEF BytesFree, Size
  <1>2. len \in Nat /\ Len(src) = len /\ src \in Seq(Byte)
    BY MaxLenAssumption
  <1>3. /\ w \in 0..Usable /\ w \in 0..Size - 1 /\ w <= len /\ w \in Nat
        /\ BytesUsed + w < Size
    BY <1>1, <1>2 DEF MIN
  <1>4. /\ wr_index' = Advance(wr_index, w)
        /\ buffer' = [p \in Index |-> Stored(src, w, p)]
        /\ UNCHANGED <<rd_index, eos, hotspots>>
        /\ out' = [Nothing EXCEPT !.wrote = added]
    BY DEF Write
  <1>5. BytesUsed' = BytesUsed + w
    <2>1. BytesUsed' = Distance(rd_index, wr_index')
      BY <1>0, <1>4, UsedIsDistanceAfter DEF TypeOK
    <2> QED BY <1>0, <1>1, <1>3, <1>4, <2>1, DistanceExtend DEF TypeOK
  <1>6. w = Fifo!Smaller(Len(src), Usable - Len(AbstractBytes))
    BY <1>0, <1>1, AbstractValues DEF AbstractState, MIN, Fifo!Smaller
  <1>7. /\ AbstractBytes \in Seq(Byte) /\ Len(AbstractBytes) = BytesUsed
        /\ \A i \in 1..BytesUsed :
             AbstractBytes[i] = buffer[Advance(rd_index, i - 1)]
    BY <1>0, AbstractValues, Zenon DEF AbstractState
  <1>8. /\ AbstractBytes' \in Seq(Byte) /\ Len(AbstractBytes') = BytesUsed + w
        /\ \A i \in 1..BytesUsed + w :
             AbstractBytes'[i] = Stored(src, w, Advance(rd_index, i - 1))
    <2>1. AbstractState'
      BY <1>0, AbstractValues, PTL
    <2>2. \A p, n : Advance(p, n)' = Advance(p', n')
      BY DEF Advance, Size
    <2>3. /\ AbstractBytes' \in Seq(Byte) /\ Len(AbstractBytes') = BytesUsed + w
          /\ \A i \in 1..BytesUsed + w :
               AbstractBytes'[i] = buffer'[Advance(rd_index, i - 1)]
      BY <1>4, <1>5, <2>1, <2>2 DEF AbstractState
    <2>4. \A i \in 1..BytesUsed + w : Advance(rd_index, i - 1) \in Index
      <3> SUFFICES ASSUME NEW i \in 1..BytesUsed + w
                   PROVE  Advance(rd_index, i - 1) \in Index
        OBVIOUS
      <3>1. i - 1 \in 0..Size - 1
        BY <1>1, <1>3
      <3> QED BY <1>0, <3>1, AdvanceValue DEF TypeOK
    <2> QED BY <1>4, <2>3, <2>4
  <1>9. /\ added \in Seq(Byte) /\ Len(added) = w
        /\ \A i \in 1..w : added[i] = src[i]
    BY <1>2, <1>3
  <1>10. /\ AbstractBytes \o added \in Seq(Byte)
         /\ Len(AbstractBytes \o added) = BytesUsed + w
         /\ \A i \in 1..BytesUsed + w : (AbstractBytes \o added)[i] =
              IF i <= BytesUsed THEN AbstractBytes[i] ELSE added[i - BytesUsed]
    <2> HIDE DEF w, added
    <2>1. /\ AbstractBytes \o added \in Seq(Byte)
          /\ Len(AbstractBytes \o added) = Len(AbstractBytes) + Len(added)
          /\ \A i \in 1..Len(AbstractBytes) + Len(added) : (AbstractBytes \o added)[i] =
               IF i <= Len(AbstractBytes) THEN AbstractBytes[i]
                                          ELSE added[i - Len(AbstractBytes)]
      BY <1>7, <1>9, ConcatValues, Zenon
    <2>2. Len(AbstractBytes) = BytesUsed /\ Len(added) = w
      BY <1>7, <1>9
    <2> QED BY <2>1, <2>2, Zenon
  <1>11. ASSUME NEW i \in 1..BytesUsed + w
         PROVE  AbstractBytes'[i] = (AbstractBytes \o added)[i]
    <2> DEFINE p == Advance(rd_index, i - 1)
    <2> HIDE DEF w, added
    <2>1. i \in Nat /\ i - 1 \in 0..Size - 1
      BY <1>1, <1>3
    <2>2. /\ p \in Index
          /\ p = IF rd_index + (i - 1) < Size THEN rd_index + (i - 1)
                                              ELSE rd_index + (i - 1) - Size
      BY <1>0, <2>1, AdvanceValue DEF TypeOK
    <2> HIDE DEF p
    <2>3. /\ wr_index \in Index /\ rd_index \in Index
          /\ BytesUsed = IF wr_index >= rd_index THEN wr_index - rd_index
                                                 ELSE wr_index - rd_index + Size
      BY <1>0, <1>1, DistanceValue DEF TypeOK
    <2>4. Distance(wr_index, p) = IF p >= wr_index THEN p - wr_index
                                                   ELSE p - wr_index + Size
      BY <2>2, <2>3, DistanceValue
    <2>5. /\ p \in Int /\ Distance(wr_index, p) \in Int /\ BytesUsed \in Nat
          /\ rd_index \in 0..Size - 1 /\ wr_index \in 0..Size - 1
      BY <1>1, <2>2, <2>3, <2>4 DEF Index
    <2>6. /\ i <= BytesUsed => ~ (Distance(wr_index, p) < w)
          /\ ~ (i <= BytesUsed) => /\ Distance(wr_index, p) < w
                                   /\ Distance(wr_index, p) + 1 = i - BytesUsed
      BY <1>1, <1>3, <2>2, <2>3, <2>4, <2>5, WrappedPlace
    <2>7. AbstractBytes'[i] = Stored(src, w, p)
      BY <1>8 DEF p
    <2>8. CASE i <= BytesUsed
      <3>1. i \in 1..BytesUsed
        BY <1>1, <2>1, <2>8
      <3>2. Stored(src, w, p) = buffer[p]
        BY <2>6, <2>8, Zenon DEF Stored
      <3>3. AbstractBytes[i] = buffer[p]
        BY <1>7, <3>1, Zenon DEF p
      <3> QED BY <1>10, <2>7, <2>8, <3>2, <3>3, Zenon
    <2>9. CASE ~ (i <= BytesUsed)
      <3>1. i - BytesUsed \in 1..w
        BY <1>1, <1>3, <2>1, <2>9
      <3>2. Stored(src, w, p) = src[i - BytesUsed]
        BY <2>6, <2>9, Zenon DEF Stored
      <3>3. added[i - BytesUsed] = src[i - BytesUsed]
        BY <1>9, <3>1, Zenon
      <3> QED BY <1>10, <2>7, <2>9, <3>2, <3>3, Zenon
    <2> QED BY <2>8, <2>9
  <1>12. AbstractBytes' = AbstractBytes \o added
    BY <1>8, <1>10, <1>11, SeqEqual, Zenon
  <1>13. AbstractMarks' = AbstractMarks
    BY <1>4, SameMarks
  <1>14. out' = [Fifo!Nothing EXCEPT !.wrote = added]
    BY <1>4 DEF Nothing, Fifo!Nothing
  <1> QED BY <1>4, <1>6, <1>12, <1>13, <1>14, Zenon DEF Fifo!Put

\* A hotspot is a mark behind all the bytes.
LEMMA HotspotSetLeaves ==
  ASSUME Inv, Inv', NEW m \in Mark, HotspotSet(m)
  PROVE  Fifo!Leave(m)
  <1> DEFINE h == [pos |-> wr_index, arg |-> m]
             last == [at |-> BytesUsed, arg |-> m]
             n == Len(hotspots)
  <1>0. TypeOK /\ TypeOK'
    BY DEF Inv
  <1>1. /\ n < MaxMarks
        /\ hotspots' = Append(hotspots, h)
        /\ UNCHANGED <<buffer, rd_index, wr_index, eos>>
        /\ out' = Nothing
    BY DEF HotspotSet
  <1>2. /\ n \in Nat /\ Len(hotspots') = n + 1
        /\ \A i \in 1..n : hotspots'[i] = hotspots[i]
        /\ hotspots'[n + 1] = h
    BY <1>0, <1>1 DEF TypeOK
  <1>3. /\ Len(AbstractBytes) = BytesUsed /\ BytesUsed = Distance(rd_index, wr_index)
        /\ AbstractMarks \in Seq(AbstractMark) /\ Len(AbstractMarks) = n
        /\ \A i \in 1..n :
             AbstractMarks[i] = [at |-> Offset(i), arg |-> hotspots[i].arg]
    BY <1>0, UsedIsDistance, AbstractValues, Zenon DEF AbstractState
  <1>4. last \in AbstractMark
    BY <1>0, UsedIsDistance, UsableAssumption DEF AbstractMark
  <1>5. /\ AbstractMarks' \in Seq(AbstractMark) /\ Len(AbstractMarks') = n + 1
        /\ \A i \in 1..n + 1 :
             AbstractMarks'[i] = [at |-> Offset(i)', arg |-> hotspots'[i].arg]
    <2>1. AbstractState'
      BY <1>0, AbstractValues, PTL
    <2> QED BY <1>2, <2>1, Zenon DEF AbstractState
  <1>6. ASSUME NEW i \in 1..n PROVE AbstractMarks'[i] = AbstractMarks[i]
    <2>1. i \in 1..n + 1 /\ hotspots'[i] = hotspots[i]
      BY <1>2
    <2>2. Offset(i)' = Offset(i)
      BY <1>1, <2>1 DEF Offset, Distance, Size
    <2> QED BY <1>3, <1>5, <2>1, <2>2, Zenon
  <1>7. ASSUME NEW i \in 1..n + 1, i = n + 1
        PROVE  AbstractMarks'[i] = last
    <2>1. hotspots'[i] = h /\ h.pos = wr_index /\ h.arg = m
      BY <1>2, <1>7
    <2>2. Offset(i)' = Distance(rd_index, wr_index)
      BY <1>1, <2>1 DEF Offset, Distance, Size
    <2> QED BY <1>3, <1>5, <2>1, <2>2, Zenon
  <1>8. AbstractMarks' = Append(AbstractMarks, last)
    BY <1>2, <1>3, <1>4, <1>5, <1>6, <1>7
  <1>9. AbstractBytes' = AbstractBytes
    BY <1>1, SameBytes
  <1>10. out' = Fifo!Nothing
    BY <1>1 DEF Nothing, Fifo!Nothing
  <1> QED BY <1>1, <1>3, <1>8, <1>9, <1>10, Zenon DEF Fifo!Leave

\* A new ring buffer is an empty queue, whatever the array holds.
LEMMA InitImplements == Init => Fifo!Init
  <1> SUFFICES ASSUME Init PROVE Fifo!Init
    OBVIOUS
  <1>1. BytesUsed = 0 /\ Len(hotspots) = 0
    BY DEF Init, BytesUsed
  <1>2. AbstractBytes = <<>> /\ AbstractMarks = <<>>
    BY <1>1 DEF AbstractBytes, AbstractMarks, Copied
  <1> QED BY <1>2 DEF Init, Fifo!Init, Nothing, Fifo!Nothing

\* Every call is a call of the queue.
LEMMA StepImplements == Inv /\ Inv' /\ [Next]_vars => [Fifo!Next]_Fifo!vars
  <1> SUFFICES ASSUME Inv, Inv', [Next]_vars PROVE [Fifo!Next]_Fifo!vars
    OBVIOUS
  <1> USE DEF Fifo!Next, Fifo!Lengths
  <1>1. ASSUME NEW len \in 1..MaxLen, Read(len) PROVE Fifo!Next
    <2>1. Fifo!Deliver(len, TRUE)
      BY <1>1, ReadBytesDelivers DEF Read
    <2> QED BY <2>1, Zenon
  <1>2. ASSUME NEW len \in 1..MaxLen, Peek(len) PROVE Fifo!Next
    <2>1. Fifo!Deliver(len, FALSE)
      BY <1>2, ReadBytesDelivers DEF Peek
    <2> QED BY <2>1, Zenon
  <1>3. ASSUME NEW clears \in BOOLEAN, ReadRefused(clears) PROVE Fifo!Next
    BY <1>3, ReadRefusedRefuses, Zenon
  <1>4. ASSUME NEW len \in 1..MaxLen, NEW src \in [1..len -> Byte], Write(src)
        PROVE  Fifo!Next
    BY <1>4, WritePuts, Zenon
  <1>5. ASSUME NEW m \in Mark, HotspotSet(m) PROVE Fifo!Next
    BY <1>5, HotspotSetLeaves, Zenon
  <1>6. ASSUME Clear PROVE Fifo!Next
    <2>1. AbstractBytes' = <<>> /\ AbstractMarks' = <<>>
      BY <1>6, ClearedIsEmpty DEF Clear
    <2> QED BY <1>6, <2>1 DEF Clear, Fifo!Empty, Nothing, Fifo!Nothing
  <1>7. ASSUME NEW e \in BOOLEAN, SetEos(e) PROVE Fifo!Next
    <2>1. AbstractBytes' = AbstractBytes /\ AbstractMarks' = AbstractMarks
      BY <1>7, SameBytes, SameMarks DEF SetEos
    <2>2. Fifo!End(e)
      BY <1>7, <2>1 DEF SetEos, Fifo!End, Nothing, Fifo!Nothing
    <2> QED BY <2>2, Zenon
  <1>8. ASSUME UNCHANGED vars PROVE UNCHANGED Fifo!vars
    BY <1>8, SameBytes, SameMarks DEF vars, Fifo!vars
  <1>9. CASE UNCHANGED vars
    BY <1>8, <1>9, Zenon
  <1>10. CASE Next
    BY <1>1, <1>2, <1>3, <1>4, <1>5, <1>6, <1>7, <1>10, Zenon DEF Next
  <1> QED BY <1>9, <1>10

\* The ring buffer of ringbuf.c is a bounded queue with marks, of any size and
\* for requests of any length: no byte is lost, repeated or reordered around
\* the end of the array, and no mark moves relative to the bytes.
THEOREM RefinesMarkedFifo == Spec => ImplementsFifo
  <1> QED BY InitImplements, StepImplements, Invariance, PTL
          DEF Spec, ImplementsFifo, Fifo!Spec

-----------------------------------------------------------------------------
(***************************************************************************)
(* The output plugin.  The theorems rest on where the writer holds         *)
(* write_mutex, under which alone it is told what to do, and on what it    *)
(* knows at each place there.                                              *)
(***************************************************************************)

Calling == {"idle", "set_status", "writer_status"}

Inside == {"loop", "close", "flush", "open", "publish", "published"}

Places ==
  /\ pc[Writer] \in WriterPc \cup Calling
  /\ pc[Main] \in MainPc \cup Calling
  /\ \A c \in Client : pc[c] \in Calling

WriteMutex == holder["write"] = Writer <=> pc[Writer] \in Inside

\* What the writer does is what it was told, until it has published it.
DoesAsTold ==
  /\ pc[Writer] = "flush" => wanted_status = "PAUSE"
  /\ pc[Writer] = "open" => wanted_status = "PLAY"
  /\ pc[Writer] \in {"publish", "published"} /\ wanted_status = "STOP" => ~ open
  /\ pc[Writer] = "published" => status = wanted_status

\* The one moment in which the device is open and the status STOP.
OpenMeansPlaying ==
  open /\ status = "STOP" => pc[Writer] = "publish" /\ wanted_status = "PLAY"

ExitedClosed == pc[Writer] = "exited" => ~ open

DestroysLast == pc[Main] = "destroying" => pc[Writer] = "exited"

Order ==
  /\ Places /\ WriteMutex /\ DoesAsTold
  /\ OpenMeansPlaying /\ ExitedClosed /\ DestroysLast

IInv == OutputTypeOK /\ Order

\* TypeOK but for the two functions.
PlainType ==
  /\ output_status \in Status /\ wanted_status \in Status /\ status \in Status
  /\ write_running \in BOOLEAN /\ open \in BOOLEAN /\ plugin \in BOOLEAN
  /\ teardown \in {"none", "switch", "destroy", "over"}
  /\ ops \in 0..MaxOps /\ raced \in BOOLEAN

HolderType ==
  /\ DOMAIN holder = Mutex
  /\ holder["output"] \in Thread \cup {"nobody"}
  /\ holder["write"] \in {Writer, "nobody"}
  /\ holder["status"] \in {Main, "nobody"}
  /\ holder["api"] \in {Writer, Main, "nobody"}

PlaceType == pc \in [Thread -> WriterPc \cup MainPc \cup Calling]

ArgType == arg \in [Thread -> Status]

LEMMA TypeParts == OutputTypeOK <=> PlainType /\ HolderType /\ PlaceType /\ ArgType
BY Zenon DEF OutputTypeOK, PlainType, HolderType, PlaceType, ArgType, Calling

LEMMA TypePartsNext ==
  OutputTypeOK' <=> PlainType' /\ HolderType' /\ PlaceType' /\ ArgType'
BY Zenon DEF OutputTypeOK, PlainType, HolderType, PlaceType, ArgType, Calling

LEMMA InitIInv == OutputInit => IInv
<1> SUFFICES ASSUME OutputInit PROVE IInv
  OBVIOUS
<1>1. HolderType /\ holder["write"] = "nobody"
  BY Zenon DEF OutputInit, HolderType, Mutex
<1>2. pc[Writer] = "lock" /\ \A t \in Thread \ {Writer} : pc[t] = "idle"
  BY Zenon DEF OutputInit, Thread
<1>3. ArgType
  BY Zenon DEF OutputInit, ArgType, Status
<1>4. PlaceType
  <2>1. \A t \in Thread : (IF t = Writer THEN "lock" ELSE "idle")
                             \in WriterPc \cup MainPc \cup Calling
    BY DEF WriterPc, Calling
  <2> QED
    BY <2>1, Zenon DEF OutputInit, PlaceType
<1>5. PlainType
  <2>1. /\ write_running \in BOOLEAN /\ open \in BOOLEAN /\ plugin \in BOOLEAN
        /\ raced \in BOOLEAN
    BY Zenon DEF OutputInit
  <2> QED
    BY <2>1, MaxOpsAssumption DEF OutputInit, PlainType, Status
<1>6. open = FALSE
  BY Zenon DEF OutputInit
<1>7. Order
  BY <1>1, <1>2, <1>6, ThreadAssumption
     DEF Order, Places, WriteMutex, DoesAsTold, OpenMeansPlaying, ExitedClosed,
         DestroysLast, Thread, Writer, Main, WriterPc, MainPc, Calling, Inside
<1> QED
  BY <1>1, <1>3, <1>4, <1>5, <1>7, TypeParts DEF IInv

\* A step of a thread in xmms_output_status_set.
LEMMA SetStatusStep ==
  ASSUME IInv, NEW t \in Thread, SetStatusLock(t) \/ WriterStatus(t)
  PROVE  IInv'
<1> USE ThreadAssumption DEF Thread, Writer, Main
<1>1. PlainType /\ HolderType /\ PlaceType /\ ArgType
  BY TypeParts DEF IInv
<1>2. PlainType'
  BY <1>1 DEF PlainType, ArgType, Status, SetStatusLock, WriterStatus, pluginVars
<1>3. HolderType'
  BY <1>1 DEF HolderType, Mutex, SetStatusLock, WriterStatus, IsFree, Take, Drop
<1>4. PlaceType'
  BY <1>1 DEF PlaceType, SetStatusLock, WriterStatus, SetStatusDone, Goto,
              WriteSignalled, WriterPc, MainPc, Calling
<1>5. ArgType'
  BY <1>1 DEF ArgType, SetStatusLock, WriterStatus
<1>6. Order'
  BY <1>1 DEF IInv, Order, Places, WriteMutex, DoesAsTold, OpenMeansPlaying,
              ExitedClosed, DestroysLast, HolderType, PlaceType, Mutex,
              SetStatusLock, WriterStatus, SetStatusDone, Goto, WriteSignalled,
              IsFree, Take, Drop, pluginVars, WriterPc, MainPc, Calling, Inside
<1> QED
  BY <1>2, <1>3, <1>4, <1>5, <1>6, TypePartsNext DEF IInv

LEMMA CommandStep ==
  ASSUME IInv, NEW c \in Client, NEW s \in {"PLAY", "PAUSE", "STOP"}, Command(c, s)
  PROVE  IInv'
<1> USE ThreadAssumption DEF Thread, Writer, Main
<1>1. PlainType /\ HolderType /\ PlaceType /\ ArgType
  BY TypeParts DEF IInv
<1>2. PlainType' /\ HolderType' /\ ArgType'
  BY <1>1, MaxOpsAssumption
     DEF PlainType, HolderType, ArgType, Status, Command, pluginVars
<1>3. PlaceType'
  BY <1>1 DEF PlaceType, Command, Goto, WriterPc, MainPc, Calling
<1>4. Order'
  BY <1>1 DEF IInv, Order, Places, WriteMutex, DoesAsTold, OpenMeansPlaying,
              ExitedClosed, DestroysLast, PlaceType, Command, Goto, pluginVars,
              WriterPc, MainPc, Calling, Inside
<1> QED
  BY <1>2, <1>3, <1>4, TypePartsNext DEF IInv

\* The writer's own steps.
WriterOwn ==
  \/ WriterLock \/ WriterExit \/ WriterLoop \/ WriterMethodEnd \/ WriterPublish
  \/ WriterPublished \/ WriterReadData \/ WriterReadEnd \/ WriterWriteEnd
  \/ WriterWriteError

LEMMA WriterType == ASSUME IInv, WriterOwn PROVE OutputTypeOK'
<1> USE ThreadAssumption DEF Thread, Writer, Main
<1>1. PlainType /\ HolderType /\ PlaceType /\ ArgType
  BY TypeParts DEF IInv
<1>2. PlainType'
  <2>1. CASE WriterLock
    BY <1>1, <2>1 DEF PlainType, Status, pluginVars, writerKeeps, WriterLock
  <2>2. CASE WriterExit
    BY <1>1, <2>2 DEF PlainType, Status, pluginVars, writerKeeps, WriterExit
  <2>3. CASE WriterLoop
    BY <1>1, <2>3 DEF PlainType, Status, pluginVars, writerKeeps, WriterLoop
  <2>4. CASE WriterMethodEnd
    BY <1>1, <2>4 DEF PlainType, Status, pluginVars, writerKeeps,
         WriterMethodEnd
  <2>5. CASE WriterPublish
    BY <1>1, <2>5 DEF PlainType, Status, pluginVars, writerKeeps, WriterPublish
  <2>6. CASE WriterPublished
    BY <1>1, <2>6 DEF PlainType, Status, pluginVars, writerKeeps,
         WriterPublished
  <2>7. CASE WriterReadData
    BY <1>1, <2>7 DEF PlainType, Status, pluginVars, writerKeeps, WriterReadData
  <2>8. CASE WriterReadEnd
    BY <1>1, <2>8 DEF PlainType, Status, pluginVars, writerKeeps, WriterReadEnd
  <2>9. CASE WriterWriteEnd
    BY <1>1, <2>9 DEF PlainType, Status, pluginVars, writerKeeps, WriterWriteEnd
  <2>10. CASE WriterWriteError
    BY <1>1, <2>10 DEF PlainType, Status, pluginVars, writerKeeps,
         WriterWriteError
  <2> QED
    BY <2>1, <2>2, <2>3, <2>4, <2>5, <2>6, <2>7, <2>8, <2>9, <2>10 DEF WriterOwn
<1>3. HolderType'
  BY <1>1 DEF HolderType, Mutex, WriterOwn, WriterLock, WriterExit, WriterLoop,
              WriterMethodEnd, WriterPublish, WriterPublished, WriterReadData,
              WriterReadEnd, WriterWriteEnd, WriterWriteError, IsFree, Take, Drop
<1>4. PlaceType'
  BY <1>1 DEF PlaceType, WriterOwn, WriterLock, WriterExit, WriterLoop, MethodFor,
              WriterMethodEnd, WriterPublish, WriterPublished, WriterReadData,
              WriterReadEnd, WriterWriteEnd, WriterWriteError, StatusSignalled, Goto,
              WriterPc, MainPc, Calling
<1>5. ArgType'
  BY <1>1 DEF ArgType, Status, WriterOwn, WriterLock, WriterExit, WriterLoop,
              WriterMethodEnd, WriterPublish, WriterPublished, WriterReadData,
              WriterReadEnd, WriterWriteEnd, WriterWriteError, writerKeeps
<1> QED
  BY <1>2, <1>3, <1>4, <1>5, TypePartsNext

LEMMA WriterOrder == ASSUME IInv, WriterOwn PROVE Order'
<1> USE ThreadAssumption
    DEF Thread, Writer, Main, Order, Places, WriteMutex, DoesAsTold,
        OpenMeansPlaying, ExitedClosed, DestroysLast, HolderType, PlaceType,
        PlainType, Status, Mutex, Goto, Take, Drop, IsFree, pluginVars,
        writerKeeps, WriterPc, MainPc, Calling, Inside
<1>1. PlainType /\ HolderType /\ PlaceType /\ Order
  BY TypeParts DEF IInv
<1>2. CASE WriterLock \/ WriterExit
  BY <1>1, <1>2 DEF WriterLock, WriterExit
<1>3. CASE WriterLoop
  BY <1>1, <1>3 DEF WriterLoop, MethodFor
<1>4. CASE WriterMethodEnd
  BY <1>1, <1>4 DEF WriterMethodEnd
<1>5. CASE WriterPublish
  BY <1>1, <1>5 DEF WriterPublish, StatusSignalled
<1>6. CASE WriterPublished
  BY <1>1, <1>6 DEF WriterPublished
<1>7. CASE WriterReadData \/ WriterReadEnd
  BY <1>1, <1>7 DEF WriterReadData, WriterReadEnd
<1>8. CASE WriterWriteEnd \/ WriterWriteError
  BY <1>1, <1>8 DEF WriterWriteEnd, WriterWriteError
<1> QED
  BY <1>2, <1>3, <1>4, <1>5, <1>6, <1>7, <1>8 DEF WriterOwn

\* The teardown's own steps.
MainOwn ==
  \/ SwitchBegin \/ SwitchLock \/ DestroyBegin \/ StatusWaitLock
  \/ StatusWaitTell \/ StatusWaitTest \/ StopThread \/ SignalThread \/ Join
  \/ Destroyed

LEMMA MainType == ASSUME IInv, MainOwn PROVE OutputTypeOK'
<1> USE ThreadAssumption DEF Thread, Writer, Main
<1>1. PlainType /\ HolderType /\ PlaceType /\ ArgType
  BY TypeParts DEF IInv
<1>2. PlainType'
  <2>1. CASE SwitchBegin
    BY <1>1, <2>1 DEF PlainType, Status, pluginVars, mainKeeps, SwitchBegin
  <2>2. CASE SwitchLock
    BY <1>1, <2>2 DEF PlainType, Status, pluginVars, mainKeeps, SwitchLock
  <2>3. CASE DestroyBegin
    BY <1>1, <2>3 DEF PlainType, Status, pluginVars, mainKeeps, DestroyBegin
  <2>4. CASE StatusWaitLock
    BY <1>1, <2>4 DEF PlainType, Status, pluginVars, mainKeeps, StatusWaitLock
  <2>5. CASE StatusWaitTell
    BY <1>1, <2>5 DEF PlainType, Status, pluginVars, mainKeeps, StatusWaitTell
  <2>6. CASE StatusWaitTest
    BY <1>1, <2>6 DEF PlainType, Status, pluginVars, mainKeeps, StatusWaitTest
  <2>7. CASE StopThread
    BY <1>1, <2>7 DEF PlainType, Status, pluginVars, mainKeeps, StopThread
  <2>8. CASE SignalThread
    BY <1>1, <2>8 DEF PlainType, Status, pluginVars, mainKeeps, SignalThread
  <2>9. CASE Join
    BY <1>1, <2>9 DEF PlainType, Status, pluginVars, mainKeeps, Join
  <2>10. CASE Destroyed
    BY <1>1, <2>10 DEF PlainType, Status, pluginVars, mainKeeps, Destroyed
  <2> QED
    BY <2>1, <2>2, <2>3, <2>4, <2>5, <2>6, <2>7, <2>8, <2>9, <2>10 DEF MainOwn
<1>3. HolderType'
  BY <1>1 DEF HolderType, Mutex, MainOwn, SwitchBegin, SwitchLock, DestroyBegin,
              StatusWaitLock, StatusWaitTell, StatusWaitTest, StopThread,
              SignalThread, Join, Destroyed, IsFree, Take, Drop
<1>4. PlaceType'
  <2>1. CASE SwitchBegin
    BY <1>1, <2>1 DEF PlaceType, Goto, WriteSignalled, WriterPc, MainPc,
         Calling, SwitchBegin
  <2>2. CASE SwitchLock
    BY <1>1, <2>2 DEF PlaceType, Goto, WriteSignalled, WriterPc, MainPc,
         Calling, SwitchLock
  <2>3. CASE DestroyBegin
    BY <1>1, <2>3 DEF PlaceType, Goto, WriteSignalled, WriterPc, MainPc,
         Calling, DestroyBegin
  <2>4. CASE StatusWaitLock
    BY <1>1, <2>4 DEF PlaceType, Goto, WriteSignalled, WriterPc, MainPc,
         Calling, StatusWaitLock
  <2>5. CASE StatusWaitTell
    BY <1>1, <2>5 DEF PlaceType, Goto, WriteSignalled, WriterPc, MainPc,
         Calling, StatusWaitTell
  <2>6. CASE StatusWaitTest
    BY <1>1, <2>6 DEF PlaceType, Goto, WriteSignalled, WriterPc, MainPc,
         Calling, StatusWaitTest
  <2>7. CASE StopThread
    BY <1>1, <2>7 DEF PlaceType, Goto, WriteSignalled, WriterPc, MainPc,
         Calling, StopThread
  <2>8. CASE SignalThread
    BY <1>1, <2>8 DEF PlaceType, Goto, WriteSignalled, WriterPc, MainPc,
         Calling, SignalThread
  <2>9. CASE Join
    BY <1>1, <2>9 DEF PlaceType, Goto, WriteSignalled, WriterPc, MainPc,
         Calling, Join
  <2>10. CASE Destroyed
    BY <1>1, <2>10 DEF PlaceType, Goto, WriteSignalled, WriterPc, MainPc,
         Calling, Destroyed
  <2> QED
    BY <2>1, <2>2, <2>3, <2>4, <2>5, <2>6, <2>7, <2>8, <2>9, <2>10 DEF MainOwn
<1>5. ArgType'
  BY <1>1 DEF ArgType, Status, MainOwn, SwitchBegin, SwitchLock, DestroyBegin,
              StatusWaitLock, StatusWaitTell, StatusWaitTest, StopThread,
              SignalThread, Join, Destroyed, mainKeeps
<1> QED
  BY <1>2, <1>3, <1>4, <1>5, TypePartsNext

LEMMA MainOrder == ASSUME IInv, MainOwn PROVE Order'
<1> USE ThreadAssumption
    DEF Thread, Writer, Main, Order, Places, WriteMutex, DoesAsTold,
        OpenMeansPlaying, ExitedClosed, DestroysLast, HolderType, PlaceType,
        PlainType, Status, Mutex, Goto, Take, Drop, IsFree, pluginVars,
        mainKeeps, WriteSignalled, WriterPc, MainPc, Calling, Inside
<1>1. PlainType /\ HolderType /\ PlaceType /\ Order
  BY TypeParts DEF IInv
<1>2. CASE SwitchBegin \/ SwitchLock \/ DestroyBegin
  BY <1>1, <1>2 DEF SwitchBegin, SwitchLock, DestroyBegin
<1>3. CASE StatusWaitLock \/ StatusWaitTell \/ StatusWaitTest
  BY <1>1, <1>3 DEF StatusWaitLock, StatusWaitTell, StatusWaitTest
<1>4. CASE StopThread \/ SignalThread \/ Join
  BY <1>1, <1>4 DEF StopThread, SignalThread, Join
<1>5. CASE Destroyed
  BY <1>1, <1>5 DEF Destroyed
<1> QED
  BY <1>2, <1>3, <1>4, <1>5 DEF MainOwn

LEMMA StepIInv == IInv /\ [OutputNext]_output_vars => IInv'
<1> SUFFICES ASSUME IInv, [OutputNext]_output_vars PROVE IInv'
  OBVIOUS
<1>1. CASE WriterStep
  <2>1. WriterOwn \/ SetStatusLock(Writer) \/ WriterStatus(Writer)
    BY <1>1, Zenon DEF WriterStep, WriterOwn
  <2> QED
    BY <2>1, WriterType, WriterOrder, SetStatusStep DEF IInv, Thread
<1>2. CASE MainStep
  <2>1. MainOwn \/ SetStatusLock(Main) \/ WriterStatus(Main)
    BY <1>2, Zenon DEF MainStep, MainOwn
  <2> QED
    BY <2>1, MainType, MainOrder, SetStatusStep DEF IInv, Thread
<1>3. ASSUME NEW c \in Client, ClientStep(c) PROVE IInv'
  BY <1>3, SetStatusStep DEF ClientStep, Thread
<1>4. ASSUME NEW c \in Client, NEW s \in {"PLAY", "PAUSE", "STOP"}, Command(c, s)
      PROVE  IInv'
  BY <1>4, CommandStep
<1>5. CASE UNCHANGED output_vars
  <2>1. OutputTypeOK'
    BY <1>5, Zenon DEF IInv, OutputTypeOK, output_vars
  <2>2. Order'
    BY <1>5, Zenon DEF IInv, Order, Places, WriteMutex, DoesAsTold,
                       OpenMeansPlaying, ExitedClosed, DestroysLast, output_vars
  <2> QED
    BY <2>1, <2>2 DEF IInv
<1> QED
  BY <1>1, <1>2, <1>3, <1>4, <1>5 DEF OutputNext

-----------------------------------------------------------------------------

LEMMA AlwaysIInv == OutputSpec => []IInv
<1>1. OutputInit => IInv
  BY InitIInv
<1>2. IInv /\ [OutputNext]_output_vars => IInv'
  BY StepIInv
<1> QED
  BY <1>1, <1>2, PTL DEF OutputSpec

\* Whatever clients command, a writer that was told to stop and says it has
\* stopped has closed the device (xmms_output_plugin_writer and
\* xmms_output_plugin_method_destroy).
THEOREM StoppedWriterClosed == OutputSpec => []StoppedMeansClosed
<1>1. IInv => StoppedMeansClosed
  <2> SUFFICES ASSUME IInv, wanted_status = "STOP", status = "STOP" PROVE ~ open
    BY DEF StoppedMeansClosed, IInv
  <2> QED
    BY DEF IInv, Order, OpenMeansPlaying
<1> QED
  BY <1>1, AlwaysIInv, PTL

-----------------------------------------------------------------------------
(***************************************************************************)
(* The writer's end.  From the teardown's stop on, the writer is told to   *)
(* play only by a client (raced), and in a switch by nobody, as a thread   *)
(* that is about to tell the writer holds output->status_mutex.            *)
(***************************************************************************)

ArgStop == arg[Writer] = "STOP" /\ arg[Main] = "STOP"

TellsLocked == \A t \in Thread : pc[t] = "writer_status" => holder["output"] = t

Tearing == MainPc \ {"switch_lock"}

SwitchLocked == teardown = "switch" /\ pc[Main] \in Tearing => holder["output"] = Main

TornDown == pc[Main] \in MainPc => teardown \in {"switch", "destroy"}

RacedInDestroy == raced => teardown \in {"destroy", "over"}

\* What the teardown relies on when it has seen the writer stopped.
StopHolds ==
  ~ raced => /\ pc[Main] \in StopTold => wanted_status # "PLAY"
             /\ pc[Main] \in {"stop_thread", "signal_thread", "join"} => ~ open

EndsAsTold ==
  ~ write_running => \/ pc[Main] \in {"signal_thread", "join"}
                     \/ pc[Writer] \in {"exited", "aborted"}

Race ==
  /\ ArgStop /\ TellsLocked /\ SwitchLocked /\ TornDown /\ RacedInDestroy
  /\ StopHolds /\ EndsAsTold /\ AbortsOnlyWhenRaced

LEMMA InitRace == OutputInit => Race
<1> SUFFICES ASSUME OutputInit PROVE Race
  OBVIOUS
<1>1. pc[Writer] = "lock" /\ \A t \in Thread \ {Writer} : pc[t] = "idle"
  BY Zenon DEF OutputInit, Thread
<1>2. ArgStop
  BY Zenon DEF OutputInit, ArgStop, Thread
<1>3. write_running = TRUE /\ raced = FALSE
  BY Zenon DEF OutputInit
<1> QED
  BY <1>1, <1>2, <1>3, ThreadAssumption
     DEF Race, TellsLocked, SwitchLocked, TornDown, RacedInDestroy, StopHolds,
         EndsAsTold, AbortsOnlyWhenRaced, Tearing, StopTold, MainPc, Thread,
         Writer, Main

LEMMA SetStatusRace ==
  ASSUME IInv, Race, NEW t \in Thread, SetStatusLock(t) \/ WriterStatus(t)
  PROVE  Race'
<1> USE ThreadAssumption DEF Thread, Writer, Main
<1>1. PlainType /\ HolderType /\ PlaceType /\ ArgType /\ Order
  BY TypeParts DEF IInv
<1>2. CASE SetStatusLock(t)
  BY <1>1, <1>2
     DEF Race, ArgStop, TellsLocked, SwitchLocked, TornDown, RacedInDestroy,
         StopHolds, EndsAsTold, AbortsOnlyWhenRaced, Tearing, StopTold, MainPc,
         Order, Places, Calling, WriterPc, HolderType, PlaceType, Mutex,
         SetStatusLock, SetStatusDone, IsFree, Take, Goto, pluginVars
<1>3. CASE WriterStatus(t)
  <2>1. /\ pc[t] = "writer_status" /\ holder["output"] = t
        /\ \A u \in Thread \ {t} : pc[u] # "writer_status"
    BY <1>3 DEF Race, TellsLocked, WriterStatus
  <2>2. /\ wanted_status' = arg[t]
        /\ raced' = (raced \/ (arg[t] = "PLAY" /\ pc[Main] \in StopTold))
        /\ UNCHANGED <<arg, write_running, open, teardown>>
    BY <1>3 DEF WriterStatus
  <2>3. /\ pc'[t] \in {SetStatusDone(t), "lock"}
        /\ \A u \in Thread \ {t, Writer} : pc'[u] = pc[u]
        /\ \/ t = Writer
           \/ pc'[Writer] = pc[Writer]
           \/ pc[Writer] = "write_wait" /\ pc'[Writer] = "lock"
        /\ t # Writer => pc'[t] = SetStatusDone(t)
    <3> DEFINE p == [pc EXCEPT ![t] = SetStatusDone(t)]
    <3>1. pc' = WriteSignalled(p)
      BY <1>3 DEF WriterStatus
    <3>2. p[t] = SetStatusDone(t) /\ \A u \in Thread \ {t} : p[u] = pc[u]
      BY <1>1 DEF PlaceType
    <3>3. DOMAIN p = Thread
      BY <1>1 DEF PlaceType
    <3> HIDE DEF p
    <3> QED
      BY <3>1, <3>2, <3>3 DEF WriteSignalled
  <2>4. SetStatusDone(t) \in {"lock", "switch_lock", "idle"}
        /\ (SetStatusDone(t) = "switch_lock" => t = Main /\ teardown = "switch")
    BY DEF SetStatusDone
  <2>5. ArgStop' /\ TellsLocked'
    BY <2>1, <2>2, <2>3, <2>4 DEF Race, ArgStop, TellsLocked
  <2>6. CASE t = Main
    <3>1. /\ pc'[Main] \in {"lock", "switch_lock", "idle"}
          /\ pc'[Main] = "switch_lock" => teardown = "switch"
      BY <2>3, <2>4, <2>6
    <3>2. pc[Main] = "writer_status" /\ pc[Main] \notin StopTold
      BY <2>1, <2>6 DEF StopTold
    <3>3. raced' = raced
      BY <1>1, <2>2, <3>2 DEF PlainType
    <3>4. SwitchLocked' /\ TornDown' /\ RacedInDestroy' /\ StopHolds'
      BY <2>2, <3>1, <3>3
         DEF Race, SwitchLocked, TornDown, RacedInDestroy, StopHolds, Tearing,
             StopTold, MainPc
    <3>5. EndsAsTold' /\ AbortsOnlyWhenRaced'
      BY <2>2, <2>3, <2>6, <3>2, <3>3 DEF Race, EndsAsTold, AbortsOnlyWhenRaced
    <3> QED
      BY <2>5, <3>4, <3>5 DEF Race
  <2>7. CASE t # Main
    <3>1. pc'[Main] = pc[Main]
      BY <2>3, <2>7
    <3>2. SwitchLocked' /\ TornDown'
      BY <2>1, <2>2, <2>7, <3>1 DEF Race, SwitchLocked, TornDown
    <3>3. RacedInDestroy'
      BY <2>1, <2>2, <2>7 DEF Race, RacedInDestroy, SwitchLocked, TornDown,
                              Tearing, StopTold, MainPc
    <3>4. StopHolds'
      BY <2>2, <3>1 DEF Race, StopHolds, StopTold
    <3>5. EndsAsTold' /\ AbortsOnlyWhenRaced'
      <4>1. pc'[Writer] \in {pc[Writer], "lock"}
        BY <2>3, <2>4 DEF SetStatusDone
      <4>2. pc[Writer] \in {"exited", "aborted"} => pc'[Writer] = pc[Writer]
        BY <2>1, <2>3
      <4> QED
        BY <2>2, <3>1, <4>1, <4>2 DEF Race, EndsAsTold, AbortsOnlyWhenRaced
    <3> QED
      BY <2>5, <3>2, <3>3, <3>4, <3>5 DEF Race
  <2> QED
    BY <2>6, <2>7
<1> QED
  BY <1>2, <1>3

LEMMA CommandRace ==
  ASSUME IInv, Race, NEW c \in Client, NEW s \in {"PLAY", "PAUSE", "STOP"}, Command(c, s)
  PROVE  Race'
<1> USE ThreadAssumption DEF Thread, Writer, Main
<1>1. PlainType /\ HolderType /\ PlaceType /\ ArgType /\ Order
  BY TypeParts DEF IInv
<1> QED
  BY <1>1
     DEF Race, ArgStop, TellsLocked, SwitchLocked, TornDown, RacedInDestroy,
         StopHolds, EndsAsTold, AbortsOnlyWhenRaced, Tearing, StopTold, MainPc,
         PlaceType, ArgType, Command, Goto, pluginVars

LEMMA WriterRace == ASSUME IInv, Race, WriterOwn PROVE Race'
<1> USE ThreadAssumption
    DEF Thread, Writer, Main, Race, ArgStop, TellsLocked, SwitchLocked, TornDown,
        RacedInDestroy, StopHolds, EndsAsTold, AbortsOnlyWhenRaced, Tearing,
        StopTold, MainPc, HolderType, PlaceType, ArgType, Mutex, Goto, Take, Drop,
        IsFree, pluginVars, writerKeeps, Order, Places, DoesAsTold, DestroysLast
<1>1. PlainType /\ HolderType /\ PlaceType /\ ArgType /\ Order
  BY TypeParts DEF IInv
<1>2. CASE WriterLock
  BY <1>1, <1>2 DEF WriterLock
<1>3. CASE WriterExit
  BY <1>1, <1>3 DEF WriterExit
<1>4. CASE WriterLoop
  BY <1>1, <1>4 DEF WriterLoop, MethodFor
<1>5. CASE WriterMethodEnd
  BY <1>1, <1>5 DEF WriterMethodEnd
<1>6. CASE WriterPublish
  BY <1>1, <1>6 DEF WriterPublish, StatusSignalled
<1>7. CASE WriterPublished
  BY <1>1, <1>7 DEF WriterPublished
<1>8. CASE WriterReadData \/ WriterReadEnd
  BY <1>1, <1>8 DEF WriterReadData, WriterReadEnd
<1>9. CASE WriterWriteEnd \/ WriterWriteError
  BY <1>1, <1>9 DEF WriterWriteEnd, WriterWriteError
<1> QED
  BY <1>2, <1>3, <1>4, <1>5, <1>6, <1>7, <1>8, <1>9 DEF WriterOwn

LEMMA MainRace == ASSUME IInv, Race, MainOwn PROVE Race'
<1> USE ThreadAssumption
    DEF Thread, Writer, Main, Race, ArgStop, TellsLocked, SwitchLocked, TornDown,
        RacedInDestroy, StopHolds, EndsAsTold, AbortsOnlyWhenRaced, Tearing,
        StopTold, MainPc, HolderType, PlaceType, ArgType, Mutex, Goto, Take, Drop,
        IsFree, pluginVars, mainKeeps, WriteSignalled, Order, Places, DoesAsTold,
        OpenMeansPlaying, DestroysLast, Calling, WriterPc
<1>1. PlainType /\ HolderType /\ PlaceType /\ ArgType /\ Order
  BY TypeParts DEF IInv
<1>2. CASE SwitchBegin
  BY <1>1, <1>2 DEF SwitchBegin
<1>3. CASE SwitchLock
  BY <1>1, <1>3 DEF SwitchLock
<1>4. CASE DestroyBegin
  BY <1>1, <1>4 DEF DestroyBegin
<1>5. CASE StatusWaitLock
  BY <1>1, <1>5 DEF StatusWaitLock
<1>6. CASE StatusWaitTell
  BY <1>1, <1>6 DEF StatusWaitTell
<1>7. CASE StatusWaitTest
  BY <1>1, <1>7 DEF StatusWaitTest
<1>8. CASE StopThread \/ SignalThread \/ Join
  BY <1>1, <1>8 DEF StopThread, SignalThread, Join
<1>9. CASE Destroyed
  BY <1>1, <1>9 DEF Destroyed
<1> QED
  BY <1>2, <1>3, <1>4, <1>5, <1>6, <1>7, <1>8, <1>9 DEF MainOwn

LEMMA StepRace == IInv /\ Race /\ [OutputNext]_output_vars => Race'
<1> SUFFICES ASSUME IInv, Race, [OutputNext]_output_vars PROVE Race'
  OBVIOUS
<1>1. CASE WriterStep
  <2>1. WriterOwn \/ SetStatusLock(Writer) \/ WriterStatus(Writer)
    BY <1>1, Zenon DEF WriterStep, WriterOwn
  <2> QED
    BY <2>1, WriterRace, SetStatusRace DEF Thread
<1>2. CASE MainStep
  <2>1. MainOwn \/ SetStatusLock(Main) \/ WriterStatus(Main)
    BY <1>2, Zenon DEF MainStep, MainOwn
  <2> QED
    BY <2>1, MainRace, SetStatusRace DEF Thread
<1>3. ASSUME NEW c \in Client, ClientStep(c) PROVE Race'
  BY <1>3, SetStatusRace DEF ClientStep, Thread
<1>4. ASSUME NEW c \in Client, NEW s \in {"PLAY", "PAUSE", "STOP"}, Command(c, s)
      PROVE  Race'
  BY <1>4, CommandRace
<1>5. CASE UNCHANGED output_vars
  BY <1>5, Zenon
     DEF Race, ArgStop, TellsLocked, SwitchLocked, TornDown, RacedInDestroy,
         StopHolds, EndsAsTold, AbortsOnlyWhenRaced, output_vars
<1> QED
  BY <1>1, <1>2, <1>3, <1>4, <1>5 DEF OutputNext

\* However the teardown's waiting, its flag and its signal interleave with the
\* writer and with any number of clients that start playback again, the writer
\* fails its assertion only in the shutdown's teardown, behind a client's start
\* (xmms_output_plugin_writer, xmms_output_plugin_switch).
THEOREM OnlyARaceAborts == OutputSpec => []AbortsOnlyWhenRaced
<1>1. OutputInit => IInv /\ Race
  BY InitIInv, InitRace
<1>2. (IInv /\ Race) /\ [OutputNext]_output_vars => (IInv /\ Race)'
  BY StepIInv, StepRace
<1>3. Race => AbortsOnlyWhenRaced
  BY DEF Race
<1> QED
  BY <1>1, <1>2, <1>3, PTL DEF OutputSpec
=============================================================================
