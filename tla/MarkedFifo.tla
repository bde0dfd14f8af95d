----------------------------- MODULE MarkedFifo -----------------------------
(***************************************************************************)
(* What a ring buffer with hotspots promises its users, without indices:   *)
(* a bounded queue of bytes in which a mark can be left behind the last    *)
(* byte written.  A reader gets the bytes in the order they were written,  *)
(* never gets a byte that lies behind a mark before that mark was          *)
(* delivered, and gets every mark at most once and in order.               *)
(***************************************************************************)
EXTENDS Naturals, Sequences

CONSTANTS Capacity,   \* the bytes the queue can hold
          Byte,       \* the values of a byte
          Mark,       \* the marks
          MaxMarks,   \* bound: marks queued at once
          MaxLen      \* bound: bytes asked for or offered by one call

VARIABLES bytes,      \* the bytes written and not yet read
          marks,      \* the marks, each with the number of bytes before it
          ended,      \* the writer announced the end of the stream
          out         \* what the last call gave to its caller, and took

vars == <<bytes, marks, ended, out>>

Nothing == [data |-> <<>>, fired |-> <<>>, wrote |-> <<>>]

Smaller(a, b) == IF a <= b THEN a ELSE b

Lengths == 1..MaxLen

Init == /\ bytes = <<>>
        /\ marks = <<>>
        /\ ended = FALSE
        /\ out = Nothing

\* The first k marks, and no other, are due: no byte is left before them.
Due(k) == /\ \A i \in 1..k : marks[i].at = 0
          /\ k < Len(marks) => marks[k + 1].at > 0

FirstMarks(k) == [i \in 1..k |-> marks[i].arg]

\* The marks that are left when k of them are delivered and n bytes are read.
MarksLeft(k, n) ==
  [i \in 1..Len(marks) - k |-> [marks[k + i] EXCEPT !.at = @ - n]]

Deliver(len, advance) ==
  \E k \in 0..Len(marks) :
    LET available == Smaller(len, Len(bytes))
        n == IF k < Len(marks) THEN Smaller(available, marks[k + 1].at)
                               ELSE available
        step == IF advance THEN n ELSE 0
    IN  /\ Due(k)
        /\ out' = [data |-> SubSeq(bytes, 1, n), fired |-> FirstMarks(k),
                   wrote |-> <<>>]
        /\ bytes' = SubSeq(bytes, step + 1, Len(bytes))
        /\ marks' = MarksLeft(k, step)
        /\ UNCHANGED ended

\* A mark whose handler refuses ends the call without data; the handler may
\* also have emptied the queue.
Refuse(empties) ==
  \E k \in 0..Len(marks) : \E j \in 1..k :
    /\ Due(k)
    /\ out' = [data |-> <<>>, fired |-> FirstMarks(j), wrote |-> <<>>]
    /\ bytes' = IF empties THEN <<>> ELSE bytes
    /\ marks' = IF empties THEN <<>> ELSE MarksLeft(j, 0)
    /\ UNCHANGED ended

Put(src) ==
  LET w == Smaller(Len(src), Capacity - Len(bytes))
  IN  /\ bytes' = bytes \o SubSeq(src, 1, w)
      /\ out' = [Nothing EXCEPT !.wrote = SubSeq(src, 1, w)]
      /\ UNCHANGED <<marks, ended>>

Leave(m) ==
  /\ Len(marks) < MaxMarks
  /\ marks' = Append(marks, [at |-> Len(bytes), arg |-> m])
  /\ out' = Nothing
  /\ UNCHANGED <<bytes, ended>>

Empty ==
  /\ bytes' = <<>>
  /\ marks' = <<>>
  /\ out' = Nothing
  /\ UNCHANGED ended

End(e) ==
  /\ ended' = e
  /\ out' = Nothing
  /\ UNCHANGED <<bytes, marks>>

Next == \/ \E len \in Lengths, advance \in BOOLEAN : Deliver(len, advance)
        \/ \E empties \in BOOLEAN : Refuse(empties)
        \/ \E len \in Lengths : \E src \in [1..len -> Byte] : Put(src)
        \/ \E m \in Mark : Leave(m)
        \/ Empty
        \/ \E e \in BOOLEAN : End(e)

Spec == Init /\ [][Next]_vars
=============================================================================
