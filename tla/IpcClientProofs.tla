-------------------------- MODULE IpcClientProofs ---------------------------
(***************************************************************************)
(* Proofs about IpcClient, for every set of clients, whoever of them stalls *)
(* or leaves, and for every number of requests and emissions.              *)
(***************************************************************************)
EXTENDS IpcClient, SequenceTheorems, TLAPS

Distinct(s) == \A i, j \in DOMAIN s : s[i] = s[j] => i = j

\* The number of the emission in progress, or else of the next.
Current == IF emission = Idle THEN Len(emitted) + 1 ELSE Len(emitted)

(***************************************************************************)
(* The inductive invariant, in parts: the lists of the server, ...         *)
(***************************************************************************)
Listed(c) ==
  /\ c \in Range(clients) => ipc[c] /\ thread[c] \notin {"none", "free", "dead"}
  /\ ipc[c] => /\ ipc_servers
               /\ thread[c] # "none"
               /\ c \in Range(clients) \/ thread[c] \in {"free", "dead"}
  /\ thread[c] = "emit" <=> emission # Idle /\ emission.by = c
  /\ thread[c] = "none" => broadcasts[c] = <<>>

Lists ==
  /\ Distinct(clients)
  /\ Distinct(emission.rest)
  /\ Range(emission.rest) \subseteq Range(clients)
  /\ emission # Idle => /\ Len(emitted) > 0
                        /\ emission.kind = emitted[Len(emitted)]
  /\ \A c \in Clients : Listed(c)

\* ... the queue of a client, its sources and the socket, ...
Writing(c) ==
  /\ thread[c] \in {"peek", "send", "pop", "done"} => sources[c] > 0
  /\ thread[c] = "pop" <=> xfered[c] = Parts
  /\ thread[c] = "send" \/ xfered[c] > 0 => out_msg[c] # <<>>
  /\ thread[c] \in {"none", "dead"} => out_msg[c] = <<>>
  /\ thread[c] \in {"quit", "remove", "free", "dead"} => ~open[c]
  /\ open[c] /\ out_msg[c] # <<>> =>
       sources[c] > IF thread[c] = "done" THEN 1 ELSE 0
  /\ partial[c] = IF open[c] /\ xfered[c] = 1 THEN <<Head(out_msg[c])>> ELSE <<>>
  /\ ~open[c] => got[c] = <<>>

\* ... the cookies of what is in the queue q of a client that sent n messages,
\* is registered with the cookies of B for broadcasts and with p for the
\* signal, and whose command k, if its thread is at one, is the last of its
\* messages, ...
Busy == {"command", "emit", "reply"}

CookiesOf(q, n, B, p, at, k) ==
  /\ \A i \in DOMAIN q : q[i].cookie \in 1..n
  /\ \A i \in DOMAIN q : q[i].kind = "broadcast" => q[i].cookie \in B
  /\ \A i \in DOMAIN q : q[i].kind # "broadcast" =>
       /\ q[i].cookie \notin B
       /\ q[i].cookie # p
       /\ \A j \in DOMAIN q : q[j].cookie = q[i].cookie => j = i
  /\ \A i, j \in DOMAIN q :
       i < j /\ q[i].kind = "reply" /\ q[j].kind = "reply" =>
         q[i].cookie < q[j].cookie
  /\ B \subseteq 1..n
  /\ p \in 0..n
  /\ p \notin B
  /\ at \in Busy => /\ k = n /\ n > 0 /\ n \notin B /\ n # p
                    /\ \A i \in DOMAIN q : q[i].cookie # n

Cookies(c) == CookiesOf(Queued(c), asked[c], Range(broadcasts[c]),
                        pendingsignals[c], thread[c], read_msg[c].cookie)

\* ... the emissions that the answers in the queue tell of, and the one that
\* the answer of the thread will tell of, when the current one is cur, ...
ValuesOf(q, cur, at, v) ==
  /\ \A i \in DOMAIN q : q[i].kind = "reply" => q[i].val < cur
  /\ \A i, j \in DOMAIN q :
       i < j /\ q[i].kind = "reply" /\ q[j].kind = "broadcast" =>
         q[j].val # q[i].val
  /\ at = "command" => v = 0
  /\ at = "emit" => v = cur
  /\ at = "reply" => v < cur

Values(c) == ValuesOf(Queued(c), Current, thread[c], read_msg[c].val)

\* ... and the broadcasts in the queue of a client with the registrations b,
\* made after as many emissions as s says: what the current one, cur, brings is
\* not there before its loop comes to the client, and those of the set past are
\* there if it is served.
ToldOf(q, cur, b, s) ==
  /\ Distinct(b)
  /\ Len(s) = Len(b)
  /\ \A i \in DOMAIN q : q[i].kind = "broadcast" => q[i].val <= cur
  /\ \A i, j \in DOMAIN q :
       /\ i < j /\ q[i].kind = "broadcast" /\ q[j].kind = "broadcast"
       /\ q[i].cookie = q[j].cookie
       => q[i].val < q[j].val

NotYet(q, cur) ==
  \A i \in DOMAIN q : q[i].kind = "broadcast" => q[i].val < cur

Complete(q, b, s, past) ==
  \A i \in DOMAIN b : \A n \in past : n > s[i] =>
    \E j \in DOMAIN q : /\ q[j].kind = "broadcast" /\ q[j].cookie = b[i]
                       /\ q[j].val = n

Waits(c) == emission = Idle \/ c \in Range(emission.rest)

Told(c) ==
  /\ ToldOf(Queued(c), Current, broadcasts[c], since[c])
  /\ Waits(c) => NotYet(Queued(c), Current)
  /\ ipc[c] /\ open[c] =>
       Complete(Queued(c), broadcasts[c], since[c], BroadcastPast(c))

IInv == /\ TypeOK
        /\ Lists
        /\ \A c \in Clients : Writing(c) /\ Cookies(c) /\ Values(c) /\ Told(c)

-----------------------------------------------------------------------------
(***************************************************************************)
(* Sequences                                                               *)
(***************************************************************************)

LEMMA TailValues ==
  ASSUME NEW S, NEW s \in Seq(S), s # <<>>
  PROVE  /\ Head(s) \in S /\ Head(s) = s[1] /\ Len(s) > 0
         /\ Tail(s) \in Seq(S) /\ Len(Tail(s)) = Len(s) - 1
         /\ \A i \in 1..Len(s) - 1 : Tail(s)[i] = s[i + 1]
  OBVIOUS

LEMMA AppendValues ==
  ASSUME NEW S, NEW s \in Seq(S), NEW e \in S
  PROVE  /\ Append(s, e) \in Seq(S) /\ Len(Append(s, e)) = Len(s) + 1
         /\ \A i \in 1..Len(s) + 1 :
              Append(s, e)[i] = IF i <= Len(s) THEN s[i] ELSE e
  OBVIOUS

LEMMA ConcatValues ==
  ASSUME NEW S, NEW s \in Seq(S), NEW t \in Seq(S)
  PROVE  /\ s \o t \in Seq(S) /\ Len(s \o t) = Len(s) + Len(t)
         /\ \A i \in 1..Len(s) + Len(t) :
              (s \o t)[i] = IF i <= Len(s) THEN s[i] ELSE t[i - Len(s)]
  OBVIOUS

\* Moving the head of one sequence to the end of another.
LEMMA MoveHead ==
  ASSUME NEW S, NEW s \in Seq(S), NEW t \in Seq(S), t # <<>>
  PROVE  Append(s, Head(t)) \o Tail(t) = s \o t
  <1> DEFINE a == Append(s, Head(t))
             b == Tail(t)
  <1>1. /\ Head(t) \in S /\ Head(t) = t[1] /\ Len(t) > 0
        /\ b \in Seq(S) /\ Len(b) = Len(t) - 1
        /\ \A i \in 1..Len(t) - 1 : b[i] = t[i + 1]
    BY TailValues
  <1>2. /\ a \in Seq(S) /\ Len(a) = Len(s) + 1
        /\ \A i \in 1..Len(s) + 1 : a[i] = IF i <= Len(s) THEN s[i] ELSE Head(t)
    BY <1>1, AppendValues
  <1> HIDE DEF a, b
  <1>3. /\ a \o b \in Seq(S) /\ Len(a \o b) = Len(a) + Len(b)
        /\ \A i \in 1..Len(a) + Len(b) :
             (a \o b)[i] = IF i <= Len(a) THEN a[i] ELSE b[i - Len(a)]
    BY <1>1, <1>2, ConcatValues
  <1>4. /\ s \o t \in Seq(S) /\ Len(s \o t) = Len(s) + Len(t)
        /\ \A i \in 1..Len(s) + Len(t) :
             (s \o t)[i] = IF i <= Len(s) THEN s[i] ELSE t[i - Len(s)]
    BY ConcatValues
  <1>5. Len(s) \in Nat /\ Len(t) \in Nat
    OBVIOUS
  <1>6. ASSUME NEW i \in 1..Len(s) + Len(t) PROVE (a \o b)[i] = (s \o t)[i]
    <2>1. CASE i <= Len(s)
      BY <1>2, <1>3, <1>4, <1>5, <2>1, <1>1
    <2>2. CASE i = Len(s) + 1
      <3>1. /\ i \in 1..Len(a) + Len(b) /\ i \in 1..Len(s) + 1 /\ i <= Len(a)
            /\ ~ (i <= Len(s)) /\ i - Len(s) = 1
        BY <1>1, <1>2, <1>5, <2>2
      <3> QED BY <1>1, <1>2, <1>3, <1>4, <3>1, Zenon
    <2>3. CASE i > Len(s) + 1
      <3>1. i - Len(a) \in 1..Len(t) - 1 /\ ~ (i <= Len(a)) /\ ~ (i <= Len(s))
            /\ i - Len(a) + 1 = i - Len(s)
        BY <1>1, <1>2, <1>5, <2>3
      <3>2. b[i - Len(a)] = t[i - Len(a) + 1]
        BY <1>1, <3>1, Zenon
      <3>3. i \in 1..Len(a) + Len(b)
        BY <1>1, <1>2, <1>5
      <3>4. (a \o b)[i] = b[i - Len(a)] /\ (s \o t)[i] = t[i - Len(s)]
        BY <1>3, <1>4, <3>1, <3>3, Zenon
      <3>5. t[i - Len(a) + 1] = t[i - Len(s)]
        BY <3>1
      <3> QED BY <3>2, <3>4, <3>5, Zenon
    <2>4. i <= Len(s) \/ i = Len(s) + 1 \/ i > Len(s) + 1
      BY <1>5
    <2> QED BY <2>1, <2>2, <2>3, <2>4, Zenon
  <1>7. Len(a \o b) = Len(s \o t)
    BY <1>1, <1>2, <1>3, <1>4, <1>5
  <1>8. a \o b = s \o t
    BY <1>3, <1>4, <1>6, <1>7, SeqEqual
  <1> QED BY <1>8 DEF a, b

LEMMA DistinctTail ==
  ASSUME NEW S, NEW s \in Seq(S), s # <<>>, Distinct(s)
  PROVE  /\ Distinct(Tail(s))
         /\ Range(Tail(s)) = Range(s) \ {Head(s)}
  <1>1. /\ Head(s) = s[1] /\ DOMAIN s = 1..Len(s) /\ Len(s) \in Nat /\ Len(s) > 0
        /\ DOMAIN Tail(s) = 1..Len(s) - 1
        /\ \A i \in 1..Len(s) - 1 : Tail(s)[i] = s[i + 1]
    BY TailValues
  <1>2. Distinct(Tail(s))
    BY <1>1 DEF Distinct
  <1>3. ASSUME NEW x \in Range(Tail(s)) PROVE x \in Range(s) \ {Head(s)}
    BY <1>1 DEF Range, Distinct
  <1>4. ASSUME NEW x \in Range(s) \ {Head(s)} PROVE x \in Range(Tail(s))
    <2>1. PICK i \in 1..Len(s) : s[i] = x
      BY <1>1 DEF Range
    <2>2. i # 1 /\ i - 1 \in 1..Len(s) - 1 /\ i - 1 + 1 = i
      BY <1>1, <2>1
    <2> QED BY <1>1, <2>1, <2>2 DEF Range
  <1> QED BY <1>2, <1>3, <1>4

LEMMA DistinctAppend ==
  ASSUME NEW S, NEW s \in Seq(S), NEW e \in S, e \notin Range(s), Distinct(s)
  PROVE  /\ Distinct(Append(s, e))
         /\ Range(Append(s, e)) = Range(s) \cup {e}
  <1>1. /\ DOMAIN s = 1..Len(s) /\ Len(s) \in Nat
        /\ DOMAIN Append(s, e) = 1..Len(s) + 1
        /\ \A i \in 1..Len(s) + 1 : Append(s, e)[i] = IF i <= Len(s) THEN s[i] ELSE e
    BY AppendValues
  <1>2. Distinct(Append(s, e))
    BY <1>1 DEF Distinct, Range
  <1>3. Range(Append(s, e)) \subseteq Range(s) \cup {e}
    BY <1>1 DEF Range
  <1>4. e \in Range(Append(s, e))
    BY <1>1 DEF Range
  <1>5. Range(s) \subseteq Range(Append(s, e))
    BY <1>1 DEF Range
  <1> QED BY <1>2, <1>3, <1>4, <1>5

\* A list in which nothing is twice loses what is removed, and nothing else.
LEMMA RemoveFirstValues ==
  ASSUME NEW S, NEW s \in Seq(S), NEW e \in Range(s), Distinct(s)
  PROVE  /\ RemoveFirst(s, e) \in Seq(S)
         /\ Distinct(RemoveFirst(s, e))
         /\ Range(RemoveFirst(s, e)) = Range(s) \ {e}
  <1>1. DOMAIN s = 1..Len(s) /\ Len(s) \in Nat
    OBVIOUS
  <1>2. PICK n \in 1..Len(s) : s[n] = e
    BY <1>1 DEF Range
  <1>3. \A i \in 1..Len(s) : s[i] = e => i = n
    BY <1>1, <1>2 DEF Distinct
  <1> DEFINE r == SubSeq(s, 1, n - 1) \o SubSeq(s, n + 1, Len(s))
  <1>4. RemoveFirst(s, e) = r
    <2>1. {i \in 1..Len(s) : s[i] = e} = {n}
      BY <1>2, <1>3
    <2>2. SelectInSeq(s, LAMBDA v : v = e) = n
      BY <1>1, <2>1 DEF SelectInSeq, Min
    <2> QED BY <1>2, <2>2 DEF RemoveFirst, RemoveAt
  <1>5. /\ r \in Seq(S) /\ Len(r) = Len(s) - 1
        /\ \A i \in 1..Len(s) - 1 : r[i] = IF i < n THEN s[i] ELSE s[i + 1]
    <2> DEFINE u == SubSeq(s, 1, n - 1)
               v == SubSeq(s, n + 1, Len(s))
    <2>1. u \in Seq(S) /\ Len(u) = n - 1 /\ \A i \in 1..n - 1 : u[i] = s[i]
      OBVIOUS
    <2>2. v \in Seq(S) /\ Len(v) = Len(s) - n /\ \A i \in 1..Len(s) - n : v[i] = s[n + i]
      OBVIOUS
    <2> HIDE DEF u, v
    <2>3. /\ u \o v \in Seq(S) /\ Len(u \o v) = Len(u) + Len(v)
          /\ \A i \in 1..Len(u) + Len(v) :
               (u \o v)[i] = IF i <= Len(u) THEN u[i] ELSE v[i - Len(u)]
      BY <2>1, <2>2, ConcatValues
    <2>4. Len(u) + Len(v) = Len(s) - 1
      BY <1>1, <2>1, <2>2
    <2>5. ASSUME NEW i \in 1..Len(s) - 1
          PROVE  (u \o v)[i] = IF i < n THEN s[i] ELSE s[i + 1]
      <3>1. CASE i < n
        BY <1>1, <2>1, <2>3, <2>4, <3>1
      <3>2. CASE ~ (i < n)
        <4>1. /\ ~ (i <= Len(u)) /\ i - Len(u) \in 1..Len(s) - n
              /\ n + (i - Len(u)) = i + 1
          BY <1>1, <2>1, <3>2
        <4> QED BY <2>2, <2>3, <2>4, <3>2, <4>1
      <3> QED BY <3>1, <3>2
    <2> QED BY <2>3, <2>4, <2>5 DEF u, v
  <1> HIDE DEF r
  <1>6. DOMAIN r = 1..Len(s) - 1
    BY <1>5
  <1>7. Distinct(r)
    <2> SUFFICES ASSUME NEW i \in 1..Len(s) - 1, NEW j \in 1..Len(s) - 1, r[i] = r[j]
                 PROVE  i = j
      BY <1>6 DEF Distinct
    <2> DEFINE x == IF i < n THEN i ELSE i + 1
               y == IF j < n THEN j ELSE j + 1
    <2>1. r[i] = s[x] /\ r[j] = s[y]
      BY <1>5
    <2>2. x \in 1..Len(s) /\ y \in 1..Len(s) /\ (x = y => i = j)
      BY <1>1
    <2> HIDE DEF x, y
    <2>3. x = y
      BY <1>1, <2>1, <2>2, Zenon DEF Distinct
    <2> QED BY <2>2, <2>3
  <1>8. Range(r) = Range(s) \ {e}
    <2>1. ASSUME NEW x \in Range(r) PROVE x \in Range(s) \ {e}
      BY <1>1, <1>3, <1>5, <1>6, <2>1 DEF Range
    <2>2. ASSUME NEW x \in Range(s) \ {e} PROVE x \in Range(r)
      <3>1. PICK i \in 1..Len(s) : s[i] = x
        BY <1>1, <2>2 DEF Range
      <3>2. CASE i < n
        BY <1>2, <1>5, <1>6, <3>1, <3>2 DEF Range
      <3>3. CASE i > n
        <4>1. i - 1 \in 1..Len(s) - 1 /\ ~ (i - 1 < n) /\ i - 1 + 1 = i
          BY <1>2, <3>3
        <4> QED BY <1>5, <1>6, <3>1, <4>1 DEF Range
      <3> QED BY <1>2, <2>2, <3>1, <3>2, <3>3
    <2> QED BY <2>1, <2>2
  <1> QED BY <1>4, <1>5, <1>7, <1>8

LEMMA RestValues ==
  ASSUME NEW S, NEW s \in Seq(S), NEW m \in 0..Len(s)
  PROVE  /\ SubSeq(s, m + 1, Len(s)) \in Seq(S)
         /\ DOMAIN SubSeq(s, m + 1, Len(s)) = 1..Len(s) - m
         /\ \A i \in 1..Len(s) - m :
              /\ m + i \in DOMAIN s
              /\ SubSeq(s, m + 1, Len(s))[i] = s[m + i]
  OBVIOUS

LEMMA ConcatCases ==
  ASSUME NEW S, NEW s \in Seq(S), NEW t \in Seq(S), NEW i \in DOMAIN (s \o t)
  PROVE  \/ i \in DOMAIN s /\ (s \o t)[i] = s[i]
         \/ i - Len(s) \in DOMAIN t /\ (s \o t)[i] = t[i - Len(s)]
  <1>1. /\ DOMAIN (s \o t) = 1..Len(s) + Len(t) /\ DOMAIN s = 1..Len(s)
        /\ DOMAIN t = 1..Len(t) /\ Len(s) \in Nat /\ Len(t) \in Nat
    BY ConcatValues
  <1>2. CASE i <= Len(s)
    BY <1>1, <1>2, ConcatValues
  <1>3. CASE ~ (i <= Len(s))
    <2>1. i - Len(s) \in DOMAIN t
      BY <1>1, <1>3
    <2> QED BY <1>1, <1>3, <2>1, ConcatValues
  <1> QED BY <1>2, <1>3

LEMMA ConcatFront ==
  ASSUME NEW S, NEW s \in Seq(S), NEW t \in Seq(S), NEW i \in DOMAIN s
  PROVE  i \in DOMAIN (s \o t) /\ (s \o t)[i] = s[i]
  BY ConcatValues

LEMMA ConcatBack ==
  ASSUME NEW S, NEW s \in Seq(S), NEW t \in Seq(S), NEW j \in DOMAIN t
  PROVE  Len(s) + j \in DOMAIN (s \o t) /\ (s \o t)[Len(s) + j] = t[j]
  <1>1. /\ DOMAIN (s \o t) = 1..Len(s) + Len(t)
        /\ DOMAIN t = 1..Len(t) /\ Len(s) \in Nat /\ Len(t) \in Nat
    BY ConcatValues
  <1>2. /\ Len(s) + j \in 1..Len(s) + Len(t) /\ ~ (Len(s) + j <= Len(s))
        /\ Len(s) + j - Len(s) = j
    BY <1>1
  <1>3. /\ (s \o t)[Len(s) + j] = IF Len(s) + j <= Len(s) THEN s[Len(s) + j]
                                     ELSE t[Len(s) + j - Len(s)]
    BY <1>2, ConcatValues
  <1> QED BY <1>1, <1>2, <1>3

-----------------------------------------------------------------------------
(***************************************************************************)
(* What may happen to a queue                                              *)
(***************************************************************************)

LEMMA MessageFields ==
  ASSUME NEW q \in Seq(Message), NEW i \in DOMAIN q
  PROVE  /\ i \in Nat /\ q[i] \in Message
         /\ q[i].kind \in {"reply", "signal", "broadcast"}
         /\ q[i].cookie \in Nat /\ q[i].val \in Nat
  <1>1. i \in Nat /\ q[i] \in Message
    OBVIOUS
  <1>2. \A r \in Message : /\ r.kind \in {"reply", "signal", "broadcast"}
                           /\ r.cookie \in Nat /\ r.val \in Nat
    BY DEF Message
  <1> QED BY <1>1, <1>2, Zenon

\* What is left of a queue when its front is gone.
LEMMA CookiesRest ==
  ASSUME NEW q \in Seq(Message), NEW m \in 0..Len(q), NEW n \in Nat, NEW B, NEW p,
         NEW at, NEW k, CookiesOf(q, n, B, p, at, k)
  PROVE  CookiesOf(SubSeq(q, m + 1, Len(q)), n, B, p, at, k)
  <1> DEFINE r == SubSeq(q, m + 1, Len(q))
  <1>1. \A i \in DOMAIN r : m + i \in DOMAIN q /\ r[i] = q[m + i]
    BY RestValues
  <1>2. \A i, j \in DOMAIN r :
          (m + i = m + j => i = j) /\ (i < j => m + i < m + j)
    BY RestValues
  <1> HIDE DEF r
  <1>3. ASSUME NEW i \in DOMAIN r, NEW j \in DOMAIN r, i < j,
               r[i].kind = "reply", r[j].kind = "reply"
        PROVE  r[i].cookie < r[j].cookie
    <2>1. /\ m + i \in DOMAIN q /\ m + j \in DOMAIN q /\ m + i < m + j
          /\ r[i] = q[m + i] /\ r[j] = q[m + j]
      BY <1>1, <1>2, <1>3, Zenon
    <2>2. \A x, y \in DOMAIN q : x < y /\ q[x].kind = "reply" /\ q[y].kind = "reply" =>
                                 q[x].cookie < q[y].cookie
      BY Zenon DEF CookiesOf
    <2> QED BY <1>3, <2>1, <2>2, Zenon
  <1>4. \A i \in DOMAIN r : r[i].kind # "broadcast" =>
       /\ r[i].cookie \notin B
       /\ r[i].cookie # p
       /\ \A j \in DOMAIN r : r[j].cookie = r[i].cookie => j = i
    BY <1>1, <1>2, ZenonT(40) DEF CookiesOf
  <1>5. /\ \A i \in DOMAIN r : r[i].cookie \in 1..n
        /\ \A i \in DOMAIN r : r[i].kind = "broadcast" => r[i].cookie \in B
        /\ at \in Busy => \A i \in DOMAIN r : r[i].cookie # n
    BY <1>1, Zenon DEF CookiesOf
  <1> QED BY <1>3, <1>4, <1>5, Zenon DEF CookiesOf, r

LEMMA ValuesRest ==
  ASSUME NEW q \in Seq(Message), NEW m \in 0..Len(q), NEW cur, NEW at, NEW v,
         ValuesOf(q, cur, at, v)
  PROVE  ValuesOf(SubSeq(q, m + 1, Len(q)), cur, at, v)
  <1> DEFINE r == SubSeq(q, m + 1, Len(q))
  <1>1. \A i \in DOMAIN r : m + i \in DOMAIN q /\ r[i] = q[m + i]
    BY RestValues
  <1>2. \A i, j \in DOMAIN r :
          (m + i = m + j => i = j) /\ (i < j => m + i < m + j)
    BY RestValues
  <1> HIDE DEF r
  <1>3. ASSUME NEW i \in DOMAIN r, NEW j \in DOMAIN r, i < j,
               r[i].kind = "reply", r[j].kind = "broadcast"
        PROVE  r[j].val # r[i].val
    <2>1. /\ m + i \in DOMAIN q /\ m + j \in DOMAIN q /\ m + i < m + j
          /\ r[i] = q[m + i] /\ r[j] = q[m + j]
      BY <1>1, <1>2, <1>3, Zenon
    <2>2. \A x, y \in DOMAIN q :
            x < y /\ q[x].kind = "reply" /\ q[y].kind = "broadcast" =>
              q[y].val # q[x].val
      BY Zenon DEF ValuesOf
    <2> QED BY <1>3, <2>1, <2>2, Zenon
  <1>4. \A i \in DOMAIN r : r[i].kind = "reply" => r[i].val < cur
    BY <1>1, Zenon DEF ValuesOf
  <1> QED BY <1>3, <1>4, Zenon DEF ValuesOf, r

LEMMA ToldRest ==
  ASSUME NEW q \in Seq(Message), NEW m \in 0..Len(q), NEW cur, NEW b, NEW s,
         ToldOf(q, cur, b, s)
  PROVE  /\ ToldOf(SubSeq(q, m + 1, Len(q)), cur, b, s)
         /\ NotYet(q, cur) => NotYet(SubSeq(q, m + 1, Len(q)), cur)
  <1> DEFINE r == SubSeq(q, m + 1, Len(q))
  <1>1. \A i \in DOMAIN r : m + i \in DOMAIN q /\ r[i] = q[m + i]
    BY RestValues
  <1>2. \A i, j \in DOMAIN r :
          (m + i = m + j => i = j) /\ (i < j => m + i < m + j)
    BY RestValues
  <1> HIDE DEF r
  <1>3. ASSUME NEW i \in DOMAIN r, NEW j \in DOMAIN r, i < j,
               r[i].kind = "broadcast", r[j].kind = "broadcast",
               r[i].cookie = r[j].cookie
        PROVE  r[i].val < r[j].val
    <2>1. /\ m + i \in DOMAIN q /\ m + j \in DOMAIN q /\ m + i < m + j
          /\ r[i] = q[m + i] /\ r[j] = q[m + j]
      BY <1>1, <1>2, <1>3, Zenon
    <2>2. \A x, y \in DOMAIN q :
            /\ x < y /\ q[x].kind = "broadcast" /\ q[y].kind = "broadcast"
            /\ q[x].cookie = q[y].cookie
            => q[x].val < q[y].val
      BY Zenon DEF ToldOf
    <2> QED BY <1>3, <2>1, <2>2, Zenon
  <1>4. ASSUME NEW i \in DOMAIN r, r[i].kind = "broadcast"
        PROVE  r[i].val <= cur /\ (NotYet(q, cur) => r[i].val < cur)
    <2>1. m + i \in DOMAIN q /\ r[i] = q[m + i]
      BY <1>1, Zenon
    <2> QED BY <1>4, <2>1, Zenon DEF ToldOf, NotYet
  <1>5. Distinct(b) /\ Len(s) = Len(b)
    BY Zenon DEF ToldOf
  <1>6. ToldOf(r, cur, b, s)
    BY <1>3, <1>4, <1>5 DEF ToldOf
  <1>7. NotYet(q, cur) => NotYet(r, cur)
    BY <1>4, Zenon DEF NotYet
  <1> QED BY <1>6, <1>7 DEF r

\* The client registers for the signal or for broadcasts, or its command begins.
LEMMA CookiesAsked ==
  ASSUME NEW q \in Seq(Message), NEW n \in Nat, NEW B, NEW p,
         NEW at, NEW k, NEW k2, CookiesOf(q, n, B, p, at, k)
  PROVE  /\ CookiesOf(q, n + 1, B, n + 1, "read", k2)
         /\ CookiesOf(q, n + 1, B \cup {n + 1}, p, "read", k2)
         /\ CookiesOf(q, n + 1, B, p, "command", n + 1)
  <1>0. "read" \notin Busy
    BY DEF Busy
  <1>1. /\ \A i \in DOMAIN q : q[i].cookie \in 1..n + 1 /\ q[i].cookie # n + 1
        /\ B \subseteq 1..n + 1 /\ n + 1 \notin B
        /\ p \in 0..n + 1 /\ p # n + 1 /\ n + 1 \in 0..n + 1 /\ n + 1 \in 1..n + 1
        /\ n + 1 > 0
    <2>1. \A i \in DOMAIN q : q[i].cookie \in 1..n
      BY DEF CookiesOf
    <2>2. B \subseteq 1..n /\ p \in 0..n
      BY DEF CookiesOf
    <2>3. 1..n \subseteq 1..n + 1 /\ n + 1 \notin 1..n
      OBVIOUS
    <2>4. p \in 0..n + 1 /\ p # n + 1 /\ n + 1 \in 0..n + 1 /\ n + 1 \in 1..n + 1
          /\ n + 1 > 0
      BY <2>2
    <2> QED BY <2>1, <2>2, <2>3, <2>4, Zenon
  <1>2. CookiesOf(q, n + 1, B, n + 1, "read", k2)
    BY <1>0, <1>1, Zenon DEF CookiesOf
  <1>3. CookiesOf(q, n + 1, B \cup {n + 1}, p, "read", k2)
    <2>1. B \cup {n + 1} \subseteq 1..n + 1 /\ p \notin B \cup {n + 1}
      BY <1>1 DEF CookiesOf
    <2> QED BY <1>0, <1>1, <2>1, Zenon DEF CookiesOf
  <1>4. CookiesOf(q, n + 1, B, p, "command", n + 1)
    BY <1>1, Zenon DEF CookiesOf
  <1> QED BY <1>2, <1>3, <1>4

LEMMA OneMore ==
  ASSUME NEW S, NEW q \in Seq(S), NEW e \in S
  PROVE  /\ q \o <<e>> \in Seq(S)
         /\ Len(q) + 1 \in DOMAIN (q \o <<e>>)
         /\ (q \o <<e>>)[Len(q) + 1] = e
         /\ \A i \in DOMAIN q : /\ i \in DOMAIN (q \o <<e>>)
                                /\ (q \o <<e>>)[i] = q[i]
         /\ \A i \in DOMAIN (q \o <<e>>) : i \in DOMAIN q \/ i = Len(q) + 1
         /\ \A i \in DOMAIN (q \o <<e>>) : ~ (Len(q) + 1 < i)
  <1>1. <<e>> \in Seq(S) /\ Len(<<e>>) = 1 /\ <<e>>[1] = e
    OBVIOUS
  <1>2. /\ q \o <<e>> \in Seq(S) /\ Len(q \o <<e>>) = Len(q) + 1
        /\ \A i \in 1..Len(q) + 1 :
             (q \o <<e>>)[i] = IF i <= Len(q) THEN q[i] ELSE <<e>>[i - Len(q)]
    BY <1>1, ConcatValues
  <1>3. /\ DOMAIN q = 1..Len(q) /\ DOMAIN (q \o <<e>>) = 1..Len(q) + 1
        /\ Len(q) \in Nat
    BY <1>2
  <1>4. (q \o <<e>>)[Len(q) + 1] = e
    <2>1. /\ Len(q) + 1 \in 1..Len(q) + 1 /\ ~ (Len(q) + 1 <= Len(q))
          /\ Len(q) + 1 - Len(q) = 1
      BY <1>3
    <2> QED BY <1>1, <1>2, <2>1
  <1> QED BY <1>2, <1>3, <1>4

\* The answer to the command, ...
LEMMA CookiesReply ==
  ASSUME NEW q \in Seq(Message), NEW n \in Nat, NEW B, NEW p, NEW k, NEW k2,
         CookiesOf(q, n, B, p, "reply", k),
         NEW e \in Message, e.kind = "reply", e.cookie = k
  PROVE  CookiesOf(q \o <<e>>, n, B, p, "read", k2)
  <1> DEFINE r == q \o <<e>>
             l == Len(q) + 1
  <1>1. /\ l \in DOMAIN r /\ r[l] = e
        /\ \A i \in DOMAIN q : i \in DOMAIN r /\ r[i] = q[i]
        /\ \A i \in DOMAIN r : i \in DOMAIN q \/ i = l
        /\ \A i \in DOMAIN r : ~ (l < i)
    BY OneMore
  <1> HIDE DEF r, l
  <1>2. /\ k = n /\ n > 0 /\ n \notin B /\ n # p
        /\ \A i \in DOMAIN q : q[i].cookie # n
    <2>1. "reply" \in Busy
      BY DEF Busy
    <2> QED BY <2>1, Zenon DEF CookiesOf
  <1>3. /\ \A i \in DOMAIN q : q[i].cookie \in 1..n
        /\ n \in 1..n
    BY <1>2 DEF CookiesOf
  <1>4. \A i \in DOMAIN q : q[i].cookie < n
    BY <1>2, <1>3
  <1>5. \A i \in DOMAIN r : r[i].cookie \in 1..n
    BY <1>1, <1>2, <1>3, Zenon
  <1>6. ASSUME NEW i \in DOMAIN r, r[i].kind = "broadcast" PROVE r[i].cookie \in B
    <2>1. i \in DOMAIN q /\ r[i] = q[i]
      BY <1>1, <1>6
    <2> QED BY <1>6, <2>1, Zenon DEF CookiesOf
  <1>7. ASSUME NEW i \in DOMAIN r, r[i].kind # "broadcast"
        PROVE  /\ r[i].cookie \notin B /\ r[i].cookie # p
               /\ \A j \in DOMAIN r : r[j].cookie = r[i].cookie => j = i
    <2>1. CASE i = l
      BY <1>1, <1>2, <2>1, Zenon
    <2>2. CASE i \in DOMAIN q
      BY <1>1, <1>2, <1>7, <2>2, Zenon DEF CookiesOf
    <2> QED BY <1>1, <2>1, <2>2, Zenon
  <1>8. ASSUME NEW i \in DOMAIN r, NEW j \in DOMAIN r, i < j,
               r[i].kind = "reply", r[j].kind = "reply"
        PROVE  r[i].cookie < r[j].cookie
    <2>1. i \in DOMAIN q /\ r[i] = q[i]
      BY <1>1, <1>8, Zenon
    <2>2. CASE j = l
      BY <1>1, <1>2, <1>4, <2>1, <2>2, Zenon
    <2>3. CASE j \in DOMAIN q
      BY <1>1, <1>8, <2>1, <2>3, Zenon DEF CookiesOf
    <2> QED BY <1>1, <2>2, <2>3, Zenon
  <1>9. "read" \notin Busy
    BY DEF Busy
  <1>10. B \subseteq 1..n /\ p \in 0..n /\ p \notin B
    BY Zenon DEF CookiesOf
  <1> QED BY <1>5, <1>6, <1>7, <1>8, <1>9, <1>10, Zenon DEF CookiesOf, r

\* ... the signal, once, ...
LEMMA CookiesSignal ==
  ASSUME NEW q \in Seq(Message), NEW n \in Nat, NEW B, NEW p, NEW at,
         NEW k, CookiesOf(q, n, B, p, at, k), p # 0,
         NEW e \in Message, e.kind = "signal", e.cookie = p
  PROVE  CookiesOf(q \o <<e>>, n, B, 0, at, k)
  <1> DEFINE r == q \o <<e>>
             l == Len(q) + 1
  <1>1. /\ l \in DOMAIN r /\ r[l] = e
        /\ \A i \in DOMAIN q : i \in DOMAIN r /\ r[i] = q[i]
        /\ \A i \in DOMAIN r : i \in DOMAIN q \/ i = l
    BY OneMore
  <1> HIDE DEF r, l
  <1>2. /\ p \in 1..n /\ p \notin B /\ 0 \notin B /\ 0 \in 0..n
    <2>1. p \in 0..n /\ p \notin B /\ B \subseteq 1..n
      BY Zenon DEF CookiesOf
    <2> QED BY <2>1
  <1>3. \A i \in DOMAIN q : q[i].cookie \in 1..n /\ q[i].cookie # p
    BY <1>2, Zenon DEF CookiesOf
  <1>4. \A i \in DOMAIN r : r[i].cookie \in 1..n /\ r[i].cookie # 0
    <2>1. \A i \in DOMAIN r : r[i].cookie \in 1..n
      BY <1>1, <1>2, <1>3, Zenon
    <2> QED BY <2>1
  <1>5. ASSUME NEW i \in DOMAIN r, r[i].kind = "broadcast" PROVE r[i].cookie \in B
    <2>1. i \in DOMAIN q /\ r[i] = q[i]
      BY <1>1, <1>5
    <2> QED BY <1>5, <2>1, Zenon DEF CookiesOf
  <1>6. ASSUME NEW i \in DOMAIN r, r[i].kind # "broadcast"
        PROVE  /\ r[i].cookie \notin B
               /\ \A j \in DOMAIN r : r[j].cookie = r[i].cookie => j = i
    <2>1. CASE i = l
      BY <1>1, <1>2, <1>3, <2>1, Zenon
    <2>2. CASE i \in DOMAIN q
      BY <1>1, <1>3, <1>6, <2>2, Zenon DEF CookiesOf
    <2> QED BY <1>1, <2>1, <2>2, Zenon
  <1>7. ASSUME NEW i \in DOMAIN r, NEW j \in DOMAIN r, i < j,
               r[i].kind = "reply", r[j].kind = "reply"
        PROVE  r[i].cookie < r[j].cookie
    <2>1. /\ i \in DOMAIN q /\ r[i] = q[i]
          /\ j \in DOMAIN q /\ r[j] = q[j]
      BY <1>1, <1>7
    <2> QED BY <1>7, <2>1, Zenon DEF CookiesOf
  <1>8. at \in Busy => k = n /\ n > 0 /\ n \notin B /\ n # 0
                /\ \A i \in DOMAIN r : r[i].cookie # n
    <2> SUFFICES ASSUME at \in Busy
                 PROVE  k = n /\ n > 0 /\ n \notin B /\ n # 0
                        /\ \A i \in DOMAIN r : r[i].cookie # n
      OBVIOUS
    <2>1. /\ k = n /\ n > 0 /\ n \notin B /\ n # p
          /\ \A i \in DOMAIN q : q[i].cookie # n
      BY Zenon DEF CookiesOf
    <2>2. n # 0
      BY <2>1
    <2> QED BY <1>1, <2>1, <2>2, Zenon
  <1>9. B \subseteq 1..n
    BY Zenon DEF CookiesOf
  <1> QED BY <1>2, <1>4, <1>5, <1>6, <1>7, <1>8, <1>9, Zenon DEF CookiesOf, r

\* ... and a broadcast under some of the client's cookies.
LEMMA CookiesBroadcast ==
  ASSUME NEW q \in Seq(Message), NEW n \in Nat, NEW B, NEW p, NEW at,
         NEW k, CookiesOf(q, n, B, p, at, k),
         NEW m \in Seq(Message),
         \A j \in DOMAIN m : m[j].kind = "broadcast" /\ m[j].cookie \in B
  PROVE  CookiesOf(q \o m, n, B, p, at, k)
  <1> DEFINE r == q \o m
  <1>1. ASSUME NEW i \in DOMAIN r
        PROVE  \/ i \in DOMAIN q /\ r[i] = q[i]
               \/ r[i].kind = "broadcast" /\ r[i].cookie \in B
    <2>1. \/ i \in DOMAIN q /\ r[i] = q[i]
          \/ i - Len(q) \in DOMAIN m /\ r[i] = m[i - Len(q)]
      BY ConcatCases
    <2> HIDE DEF r
    <2> QED BY <2>1, Zenon
  <1>2. \A i \in DOMAIN q : i \in DOMAIN r /\ r[i] = q[i]
    BY ConcatFront, Zenon
  <1> HIDE DEF r
  <1>3. B \subseteq 1..n
    BY Zenon DEF CookiesOf
  <1>4. \A i \in DOMAIN r : r[i].cookie \in 1..n
    BY <1>1, <1>3, Zenon DEF CookiesOf
  <1>5. \A i \in DOMAIN r : r[i].kind = "broadcast" => r[i].cookie \in B
    BY <1>1, Zenon DEF CookiesOf
  <1>6. ASSUME NEW i \in DOMAIN r, r[i].kind # "broadcast"
        PROVE  /\ r[i].cookie \notin B /\ r[i].cookie # p
               /\ \A j \in DOMAIN r : r[j].cookie = r[i].cookie => j = i
    <2>1. i \in DOMAIN q /\ r[i] = q[i]
      BY <1>1, <1>6, Zenon
    <2>2. /\ q[i].cookie \notin B /\ q[i].cookie # p
          /\ \A j \in DOMAIN q : q[j].cookie = q[i].cookie => j = i
      BY <1>6, <2>1, Zenon DEF CookiesOf
    <2> QED BY <1>1, <2>1, <2>2, Zenon
  <1>7. ASSUME NEW i \in DOMAIN r, NEW j \in DOMAIN r, i < j,
               r[i].kind = "reply", r[j].kind = "reply"
        PROVE  r[i].cookie < r[j].cookie
    <2>1. /\ i \in DOMAIN q /\ r[i] = q[i]
          /\ j \in DOMAIN q /\ r[j] = q[j]
      BY <1>1, <1>7
    <2> QED BY <1>7, <2>1, Zenon DEF CookiesOf
  <1>8. at \in Busy => /\ k = n /\ n > 0 /\ n \notin B /\ n # p
                /\ \A i \in DOMAIN r : r[i].cookie # n
    BY <1>1, Zenon DEF CookiesOf
  <1>9. p \in 0..n /\ p \notin B
    BY Zenon DEF CookiesOf
  <1> QED BY <1>3, <1>4, <1>5, <1>6, <1>7, <1>8, <1>9, Zenon DEF CookiesOf, r

LEMMA ValuesReply ==
  ASSUME NEW q \in Seq(Message), NEW cur \in Nat, NEW v, ValuesOf(q, cur, "reply", v),
         NEW e \in Message, e.kind = "reply", e.val = v, NEW v2
  PROVE  ValuesOf(q \o <<e>>, cur, "read", v2)
  <1> DEFINE r == q \o <<e>>
             l == Len(q) + 1
  <1>1. /\ l \in DOMAIN r /\ r[l] = e
        /\ \A i \in DOMAIN q : i \in DOMAIN r /\ r[i] = q[i]
        /\ \A i \in DOMAIN r : i \in DOMAIN q \/ i = l
    BY OneMore
  <1>0. \A i \in DOMAIN r : ~ (l < i)
    BY OneMore
  <1> HIDE DEF r, l
  <1>2. \A i \in DOMAIN r : r[i].kind = "reply" => r[i].val < cur
    BY <1>1, Zenon DEF ValuesOf
  <1>3. ASSUME NEW i \in DOMAIN r, NEW j \in DOMAIN r, i < j,
               r[i].kind = "reply", r[j].kind = "broadcast"
        PROVE  r[j].val # r[i].val
    <2>1. j \in DOMAIN q /\ r[j] = q[j]
      BY <1>1, <1>3
    <2>2. i \in DOMAIN q /\ r[i] = q[i]
      BY <1>0, <1>1, <1>3, Zenon
    <2> QED BY <1>3, <2>1, <2>2, Zenon DEF ValuesOf
  <1> QED BY <1>2, <1>3 DEF ValuesOf, r

LEMMA ValuesEmitted ==
  ASSUME NEW q \in Seq(Message), NEW cur \in Nat, NEW at, NEW v, ValuesOf(q, cur, at, v),
         NEW m \in Seq(Message),
         \A j \in DOMAIN m : m[j].kind # "reply" /\ m[j].val = cur
  PROVE  ValuesOf(q \o m, cur, at, v)
  <1> DEFINE r == q \o m
  <1>1. ASSUME NEW i \in DOMAIN r
        PROVE  \/ i \in DOMAIN q /\ r[i] = q[i]
               \/ r[i].kind # "reply" /\ r[i].val = cur
    <2>1. \/ i \in DOMAIN q /\ r[i] = q[i]
          \/ i - Len(q) \in DOMAIN m /\ r[i] = m[i - Len(q)]
      BY ConcatCases
    <2> HIDE DEF r
    <2> QED BY <2>1, Zenon
  <1> HIDE DEF r
  <1>2. \A i \in DOMAIN r : r[i].kind = "reply" => r[i].val < cur
    BY <1>1, Zenon DEF ValuesOf
  <1>3. ASSUME NEW i \in DOMAIN r, NEW j \in DOMAIN r, i < j,
               r[i].kind = "reply", r[j].kind = "broadcast"
        PROVE  r[j].val # r[i].val
    <2>1. /\ i \in DOMAIN q /\ r[i] = q[i] /\ q[i].val < cur
      BY <1>1, <1>3, Zenon DEF ValuesOf
    <2>2. q[i].val # cur
      <3>1. q[i].val \in Nat
        BY <2>1, MessageFields
      <3> QED BY <2>1, <3>1
    <2> QED BY <1>1, <1>3, <2>1, <2>2, Zenon DEF ValuesOf
  <1> QED BY <1>2, <1>3, Zenon DEF ValuesOf, r

\* What a client was told when another emission begins or ends, ...
LEMMA ToldEnd ==
  ASSUME NEW q \in Seq(Message), NEW cur \in Nat, NEW b, NEW s, ToldOf(q, cur, b, s)
  PROVE  ToldOf(q, cur + 1, b, s) /\ NotYet(q, cur + 1)
  <1>1. ASSUME NEW i \in DOMAIN q, q[i].kind = "broadcast"
        PROVE  q[i].val <= cur + 1 /\ q[i].val < cur + 1
    <2>1. q[i].val <= cur
      BY <1>1, Zenon DEF ToldOf
    <2>2. q[i].val \in Nat
      BY MessageFields
    <2> QED BY <2>1, <2>2
  <1> QED BY <1>1, Zenon DEF ToldOf, NotYet

\* ... when it registers after n emissions, ...
LEMMA ToldRegister ==
  ASSUME NEW q \in Seq(Message), NEW cur, NEW b \in Seq(Nat), NEW s \in Seq(Nat),
         ToldOf(q, cur, b, s),
         NEW k \in Nat, k \notin Range(b), NEW n \in Nat, NEW past, past \subseteq 1..n
  PROVE  /\ ToldOf(q, cur, Append(b, k), Append(s, n))
         /\ Complete(q, b, s, past) => Complete(q, Append(b, k), Append(s, n), past)
  <1> DEFINE b2 == Append(b, k)
             s2 == Append(s, n)
  <1>1. Distinct(b) /\ Len(s) = Len(b)
    BY Zenon DEF ToldOf
  <1>2. Distinct(b2)
    BY <1>1, DistinctAppend
  <1>3. /\ Len(b) \in Nat /\ DOMAIN b = 1..Len(b)
        /\ Len(b2) = Len(b) + 1 /\ DOMAIN b2 = 1..Len(b) + 1
        /\ \A i \in 1..Len(b) + 1 : b2[i] = IF i <= Len(b) THEN b[i] ELSE k
    BY AppendValues
  <1>7. /\ Len(s2) = Len(s) + 1
        /\ \A i \in 1..Len(s) + 1 : s2[i] = IF i <= Len(s) THEN s[i] ELSE n
    BY AppendValues
  <1> HIDE DEF b2, s2
  <1>8. Len(s2) = Len(b2)
    BY <1>1, <1>3, <1>7
  <1>4. ASSUME Complete(q, b, s, past), NEW i \in DOMAIN b2, NEW a \in past, a > s2[i]
        PROVE  \E j \in DOMAIN q : /\ q[j].kind = "broadcast"
                                   /\ q[j].cookie = b2[i] /\ q[j].val = a
    <2>1. i \in DOMAIN b
      <3>1. ~ (a > n)
        OBVIOUS
      <3>2. i \in 1..Len(b) + 1 /\ s2[i] = IF i <= Len(b) THEN s[i] ELSE n
        BY <1>1, <1>3, <1>7, Zenon
      <3>3. i <= Len(b)
        BY <1>4, <3>1, <3>2, Zenon
      <3> QED BY <1>3, <3>2, <3>3
    <2>2. b2[i] = b[i] /\ a > s[i]
      <3>1. i <= Len(b) /\ i \in 1..Len(b) + 1
        BY <1>3, <2>1
      <3> QED BY <1>1, <1>3, <1>4, <1>7, <3>1, Zenon
    <2>3. \E j \in DOMAIN q : /\ q[j].kind = "broadcast"
                             /\ q[j].cookie = b[i] /\ q[j].val = a
      BY <1>4, <2>1, <2>2, Zenon DEF Complete
    <2> QED BY <2>2, <2>3, Zenon
  <1>5. /\ \A i \in DOMAIN q : q[i].kind = "broadcast" =>
             q[i].val <= cur
        /\ \A i, j \in DOMAIN q :
             /\ i < j /\ q[i].kind = "broadcast" /\ q[j].kind = "broadcast"
             /\ q[i].cookie = q[j].cookie
             => q[i].val < q[j].val
    BY Zenon DEF ToldOf
  <1>6. ToldOf(q, cur, b2, s2)
    BY <1>2, <1>8, <1>5 DEF ToldOf
  <1>9. ASSUME Complete(q, b, s, past) PROVE Complete(q, b2, s2, past)
    <2>1. \A i \in DOMAIN b2 : \A a \in past : a > s2[i] =>
            \E j \in DOMAIN q : /\ q[j].kind = "broadcast"
                               /\ q[j].cookie = b2[i] /\ q[j].val = a
      BY <1>4, <1>9
    <2> QED BY <2>1 DEF Complete
  <1> QED BY <1>6, <1>9 DEF b2, s2

\* ... when it is sent something else than a broadcast, ...
LEMMA ToldOthers ==
  ASSUME NEW q \in Seq(Message), NEW cur, NEW b, NEW s, NEW past,
         ToldOf(q, cur, b, s),
         NEW m \in Seq(Message), \A j \in DOMAIN m : m[j].kind # "broadcast"
  PROVE  /\ ToldOf(q \o m, cur, b, s)
         /\ NotYet(q, cur) => NotYet(q \o m, cur)
         /\ Complete(q, b, s, past) => Complete(q \o m, b, s, past)
  <1> DEFINE r == q \o m
  <1>1. ASSUME NEW i \in DOMAIN r
        PROVE  (i \in DOMAIN q /\ r[i] = q[i]) \/ r[i].kind # "broadcast"
    <2>1. \/ i \in DOMAIN q /\ r[i] = q[i]
          \/ i - Len(q) \in DOMAIN m /\ r[i] = m[i - Len(q)]
      BY ConcatCases
    <2> HIDE DEF r
    <2> QED BY <2>1, Zenon
  <1>2. \A i \in DOMAIN q : i \in DOMAIN r /\ r[i] = q[i]
    BY ConcatFront, Zenon
  <1> HIDE DEF r
  <1>3. \A i \in DOMAIN r : r[i].kind = "broadcast" =>
          r[i].val <= cur /\ (NotYet(q, cur) => r[i].val < cur)
    BY <1>1, Zenon DEF ToldOf, NotYet
  <1>4. ASSUME NEW i \in DOMAIN r, NEW j \in DOMAIN r, i < j,
               r[i].kind = "broadcast", r[j].kind = "broadcast",
               r[i].cookie = r[j].cookie
        PROVE  r[i].val < r[j].val
    <2>1. i \in DOMAIN q /\ r[i] = q[i] /\ j \in DOMAIN q /\ r[j] = q[j]
      BY <1>1, <1>4, Zenon
    <2> QED BY <1>4, <2>1, Zenon DEF ToldOf
  <1>5. ASSUME Complete(q, b, s, past), NEW i \in DOMAIN b, NEW n \in past, n > s[i]
        PROVE  \E j \in DOMAIN r : /\ r[j].kind = "broadcast" /\ r[j].cookie = b[i]
                                   /\ r[j].val = n
    <2>1. PICK j \in DOMAIN q : /\ q[j].kind = "broadcast" /\ q[j].cookie = b[i]
                                /\ q[j].val = n
      BY <1>5, Zenon DEF Complete
    <2> QED BY <1>2, <2>1, Zenon
  <1>6. Distinct(b) /\ Len(s) = Len(b)
    BY Zenon DEF ToldOf
  <1>7. ToldOf(r, cur, b, s)
    BY <1>3, <1>4, <1>6 DEF ToldOf
  <1>8. NotYet(q, cur) => NotYet(r, cur)
    BY <1>3, Zenon DEF NotYet
  <1>9. Complete(q, b, s, past) => Complete(r, b, s, past)
    BY <1>5, Zenon DEF Complete
  <1> QED BY <1>7, <1>8, <1>9 DEF r

\* ... and when the emission of a broadcast visits it.
LEMMA ToldBroadcast ==
  ASSUME NEW q \in Seq(Message), NEW cur \in Nat, NEW b \in Seq(Nat), NEW s,
         NEW past, ToldOf(q, cur, b, s), NotYet(q, cur),
         NEW past2, past2 \subseteq past \cup {cur},
         NEW m \in Seq(Message), DOMAIN m = DOMAIN b,
         \A j \in DOMAIN m : /\ m[j].kind = "broadcast" /\ m[j].cookie = b[j]
                             /\ m[j].val = cur
  PROVE  /\ ToldOf(q \o m, cur, b, s)
         /\ Complete(q, b, s, past) => Complete(q \o m, b, s, past2)
  <1> DEFINE r == q \o m
  <1>1. /\ DOMAIN q = 1..Len(q) /\ DOMAIN m = 1..Len(m) /\ Len(q) \in Nat /\ Len(m) \in Nat
        /\ DOMAIN r = 1..Len(q) + Len(m)
    BY ConcatValues
  <1>2. ASSUME NEW i \in DOMAIN r
        PROVE  \/ i \in DOMAIN q /\ r[i] = q[i]
               \/ i \notin DOMAIN q /\ i - Len(q) \in DOMAIN m /\ r[i] = m[i - Len(q)]
    <2>1. \/ i \in DOMAIN q /\ r[i] = q[i]
          \/ i - Len(q) \in DOMAIN m /\ r[i] = m[i - Len(q)]
      BY ConcatCases
    <2>2. i - Len(q) \in DOMAIN m => i \notin DOMAIN q
      BY <1>1
    <2> QED BY <2>1, <2>2, Zenon
  <1>3. \A i \in DOMAIN q : i \in DOMAIN r /\ r[i] = q[i]
    BY ConcatFront
  <1>4. \A j \in DOMAIN m : Len(q) + j \in DOMAIN r /\ r[Len(q) + j] = m[j]
    BY ConcatBack
  <1> HIDE DEF r
  <1>5. \A i \in DOMAIN q : q[i].kind = "broadcast" => q[i].val < cur
    BY Zenon DEF NotYet
  <1>6. ASSUME NEW i \in DOMAIN r, r[i].kind = "broadcast"
        PROVE  r[i].val <= cur
    <2>1. CASE i \in DOMAIN q /\ r[i] = q[i]
      BY <1>6, <2>1, Zenon DEF ToldOf
    <2>2. CASE r[i].val = cur
      BY <2>2
    <2> QED BY <1>2, <2>1, <2>2, Zenon
  <1>7. ASSUME NEW i \in DOMAIN r, NEW j \in DOMAIN r, i < j,
               r[i].kind = "broadcast", r[j].kind = "broadcast",
               r[i].cookie = r[j].cookie
        PROVE  r[i].val < r[j].val
    <2>1. CASE j \in DOMAIN q
      <3>1. i \in DOMAIN q
        BY <1>1, <1>7, <2>1
      <3>2. r[i] = q[i] /\ r[j] = q[j]
        BY <1>3, <2>1, <3>1, Zenon
      <3> QED BY <1>7, <2>1, <3>1, <3>2, Zenon DEF ToldOf
    <2>2. CASE j \notin DOMAIN q /\ i \in DOMAIN q
      <3>1. r[i] = q[i] /\ r[j].val = cur
        BY <1>2, <1>3, <2>2, Zenon
      <3> QED BY <1>5, <1>7, <2>2, <3>1, Zenon
    <2>3. CASE j \notin DOMAIN q /\ i \notin DOMAIN q
      <3>1. /\ i - Len(q) \in DOMAIN b /\ r[i].cookie = b[i - Len(q)]
            /\ j - Len(q) \in DOMAIN b /\ r[j].cookie = b[j - Len(q)]
        BY <1>2, <2>3, Zenon
      <3>2. i - Len(q) = j - Len(q)
        BY <1>7, <3>1, Zenon DEF ToldOf, Distinct
      <3> QED BY <1>1, <1>7, <3>2
    <2> QED BY <2>1, <2>2, <2>3
  <1>8. ASSUME Complete(q, b, s, past), NEW i \in DOMAIN b, NEW n \in past2, n > s[i]
        PROVE  \E j \in DOMAIN r : /\ r[j].kind = "broadcast" /\ r[j].cookie = b[i]
                                   /\ r[j].val = n
    <2>1. CASE n \in past
      <3>1. PICK j \in DOMAIN q : /\ q[j].kind = "broadcast" /\ q[j].cookie = b[i]
                                  /\ q[j].val = n
        BY <1>8, <2>1, Zenon DEF Complete
      <3> QED BY <1>3, <3>1, Zenon
    <2>2. CASE n = cur
      <3>1. i \in DOMAIN m /\ Len(q) + i \in DOMAIN r /\ r[Len(q) + i] = m[i]
        BY <1>4
      <3>2. r[Len(q) + i].kind = "broadcast" /\ r[Len(q) + i].cookie = b[i]
            /\ r[Len(q) + i].val = n
        BY <2>2, <3>1, Zenon
      <3> QED BY <3>1, <3>2, Zenon
    <2> QED BY <2>1, <2>2
  <1>9. Distinct(b) /\ Len(s) = Len(b)
    BY Zenon DEF ToldOf
  <1>10. ToldOf(r, cur, b, s)
    BY <1>6, <1>7, <1>9 DEF ToldOf
  <1>11. Complete(q, b, s, past) => Complete(r, b, s, past2)
    BY <1>8, Zenon DEF Complete
  <1> QED BY <1>10, <1>11 DEF r

LEMMA CookiesAt ==
  ASSUME NEW q, NEW n, NEW B, NEW p, NEW at, NEW k, CookiesOf(q, n, B, p, at, k),
         NEW at2, at2 \in Busy => at \in Busy
  PROVE  CookiesOf(q, n, B, p, at2, k)
  BY Zenon DEF CookiesOf

LEMMA ValuesAt ==
  ASSUME NEW q, NEW cur, NEW at, NEW v, ValuesOf(q, cur, at, v),
         NEW at2, at2 \in Busy => at2 = at
  PROVE  ValuesOf(q, cur, at2, v)
  BY Zenon DEF ValuesOf, Busy

-----------------------------------------------------------------------------

LEMMA Quiet ==
  ASSUME IInv, NEW d \in Clients, UNCHANGED <<emission, emitted>>,
         Queued(d)' = Queued(d), asked'[d] = asked[d],
         broadcasts'[d] = broadcasts[d], since'[d] = since[d],
         pendingsignals'[d] = pendingsignals[d], read_msg'[d] = read_msg[d],
         thread'[d] \in Busy => thread'[d] = thread[d],
         ipc'[d] /\ open'[d] => (ipc[d] /\ open[d]) \/ broadcasts[d] = <<>>
  PROVE  Cookies(d)' /\ Values(d)' /\ Told(d)'
  <1>0. Cookies(d) /\ Values(d) /\ Told(d)
    BY DEF IInv
  <1>1. Current' = Current /\ (Waits(d)' <=> Waits(d)) /\ BroadcastPast(d)' = BroadcastPast(d)
    BY DEF Current, Waits, BroadcastPast, Idle
  <1>2. Cookies(d)'
    <2>1. CookiesOf(Queued(d), asked[d], Range(broadcasts[d]),
                    pendingsignals[d], thread'[d], read_msg[d].cookie)
      BY <1>0, CookiesAt, Zenon DEF Cookies
    <2> QED BY <2>1, Zenon DEF Cookies
  <1>3. Values(d)'
    <2>1. ValuesOf(Queued(d), Current, thread'[d], read_msg[d].val)
      BY <1>0, ValuesAt, Zenon DEF Values
    <2> QED BY <1>1, <2>1, Zenon DEF Values
  <1>4. Told(d)'
    <2>1. broadcasts[d] = <<>> =>
            Complete(Queued(d), broadcasts[d], since[d], BroadcastPast(d))
      BY DEF Complete
    <2> QED BY <1>0, <1>1, <2>1, Zenon DEF Told
  <1> QED BY <1>2, <1>3, <1>4

LEMMA TailConcat ==
  ASSUME NEW S, NEW s \in Seq(S), NEW t \in Seq(S), s # <<>>
  PROVE  Tail(s \o t) = Tail(s) \o t
  <1> DEFINE a == s \o t
             b == Tail(s)
  <1>1. /\ a \in Seq(S) /\ Len(a) = Len(s) + Len(t)
        /\ \A i \in 1..Len(s) + Len(t) :
             a[i] = IF i <= Len(s) THEN s[i] ELSE t[i - Len(s)]
    BY ConcatValues
  <1>2. /\ Len(s) \in Nat /\ Len(s) > 0 /\ Len(t) \in Nat
        /\ b \in Seq(S) /\ Len(b) = Len(s) - 1
        /\ \A i \in 1..Len(s) - 1 : b[i] = s[i + 1]
    BY TailValues
  <1> HIDE DEF a, b
  <1>3. a # <<>>
    BY <1>1, <1>2
  <1>4. /\ Tail(a) \in Seq(S) /\ Len(Tail(a)) = Len(a) - 1
        /\ \A i \in 1..Len(a) - 1 : Tail(a)[i] = a[i + 1]
    BY <1>1, <1>3, TailValues
  <1>5. /\ b \o t \in Seq(S) /\ Len(b \o t) = Len(b) + Len(t)
        /\ \A i \in 1..Len(b) + Len(t) :
             (b \o t)[i] = IF i <= Len(b) THEN b[i] ELSE t[i - Len(b)]
    BY <1>2, ConcatValues
  <1>6. Len(Tail(a)) = Len(b \o t)
    BY <1>1, <1>2, <1>4, <1>5
  <1>7. ASSUME NEW i \in 1..Len(Tail(a)) PROVE Tail(a)[i] = (b \o t)[i]
    <2>1. /\ i \in 1..Len(a) - 1 /\ i + 1 \in 1..Len(s) + Len(t)
          /\ i \in 1..Len(b) + Len(t)
          /\ (i + 1 <= Len(s)) <=> (i <= Len(b))
          /\ i <= Len(b) => i \in 1..Len(s) - 1
      BY <1>1, <1>2, <1>4
    <2>2. t[i + 1 - Len(s)] = t[i - Len(b)]
      BY <1>2
    <2>3. Tail(a)[i] = IF i + 1 <= Len(s) THEN s[i + 1] ELSE t[i + 1 - Len(s)]
      <3>1. Tail(a)[i] = a[i + 1]
        BY <1>4, <2>1, Zenon
      <3>2. a[i + 1] = IF i + 1 <= Len(s) THEN s[i + 1] ELSE t[i + 1 - Len(s)]
        BY <1>1, <2>1
      <3> QED BY <3>1, <3>2, Zenon
    <2>4. (b \o t)[i] = IF i <= Len(b) THEN b[i] ELSE t[i - Len(b)]
      BY <1>5, <2>1, Zenon
    <2>5. CASE i <= Len(b)
      BY <1>2, <2>1, <2>3, <2>4, <2>5, Zenon
    <2>6. CASE ~ (i <= Len(b))
      BY <2>1, <2>2, <2>3, <2>4, <2>6, Zenon
    <2> QED BY <2>5, <2>6
  <1>8. Tail(a) = b \o t
    BY <1>4, <1>5, <1>6, <1>7, SeqEqual
  <1> QED BY <1>8 DEF a, b

-----------------------------------------------------------------------------
(***************************************************************************)
(* What a step does to the queue of a client                               *)
(***************************************************************************)

LEMMA QueueTypes ==
  ASSUME IInv, NEW c \in Clients
  PROVE  /\ out_msg[c] \in Seq(Message) /\ got[c] \in Seq(Message)
         /\ xfered[c] \in 0..Parts
         /\ Undelivered(c) \in Seq(Message) /\ Queued(c) \in Seq(Message)
         /\ xfered[c] = Parts => out_msg[c] # <<>>
         /\ thread[c] = "pop" <=> xfered[c] = Parts
  <1>1. out_msg[c] \in Seq(Message) /\ got[c] \in Seq(Message) /\ xfered[c] \in 0..Parts
    BY DEF IInv, TypeOK
  <1>2. xfered[c] = Parts => out_msg[c] # <<>>
    <2>1. Parts > 0
      BY DEF Parts
    <2> QED BY <2>1, Zenon DEF IInv, Writing
  <1>3. Undelivered(c) \in Seq(Message)
    BY <1>1, <1>2 DEF Undelivered
  <1>4. Queued(c) \in Seq(Message)
    BY <1>1, <1>3, ConcatValues DEF Queued
  <1>5. thread[c] = "pop" <=> xfered[c] = Parts
    BY DEF IInv, Writing
  <1> QED BY <1>1, <1>2, <1>3, <1>4, <1>5

LEMMA QueuedSame ==
  ASSUME NEW c, out_msg'[c] = out_msg[c], xfered'[c] = xfered[c], got'[c] = got[c]
  PROVE  Undelivered(c)' = Undelivered(c) /\ Queued(c)' = Queued(c)
  BY DEF Undelivered, Queued

LEMMA QueuedMore ==
  ASSUME IInv, NEW c \in Clients, NEW msgs \in Seq(Message),
         out_msg'[c] = out_msg[c] \o msgs, xfered'[c] = xfered[c], got'[c] = got[c]
  PROVE  /\ Undelivered(c)' = Undelivered(c) \o msgs
         /\ Queued(c)' = Queued(c) \o msgs
  <1>1. /\ out_msg[c] \in Seq(Message) /\ got[c] \in Seq(Message)
        /\ Undelivered(c) \in Seq(Message)
        /\ xfered[c] = Parts => out_msg[c] # <<>>
    BY QueueTypes
  <1>2. Undelivered(c)' = Undelivered(c) \o msgs
    <2>1. CASE xfered[c] = Parts
      <3>1. Tail(out_msg[c] \o msgs) = Tail(out_msg[c]) \o msgs
        BY <1>1, <2>1, TailConcat
      <3> QED BY <2>1, <3>1, Zenon DEF Undelivered
    <2>2. CASE xfered[c] # Parts
      BY <2>2, Zenon DEF Undelivered
    <2> QED BY <2>1, <2>2
  <1>3. (got[c] \o Undelivered(c)) \o msgs = got[c] \o (Undelivered(c) \o msgs)
    <2>1. \A s, t, u \in Seq(Message) : (s \o t) \o u = s \o (t \o u)
      BY ConcatAssociative
    <2> QED BY <1>1, <2>1, Zenon
  <1> QED BY <1>2, <1>3, Zenon DEF Queued

\* Parts of the head go down the socket: the rest, or the first of two.
LEMMA SendEffect ==
  ASSUME IInv, NEW c \in Clients, WriteSome(c)
  PROVE  /\ out_msg[c] # <<>> /\ Head(out_msg[c]) \in Message /\ open[c]
         /\ thread[c] = "send" /\ xfered[c] # Parts /\ out_msg' = out_msg
         /\ \/ /\ xfered' = [xfered EXCEPT ![c] = 1]
               /\ partial' = [partial EXCEPT ![c] = <<Head(out_msg[c])>>]
               /\ got' = got
               /\ thread' = [thread EXCEPT ![c] = "loop"]
            \/ /\ xfered' = [xfered EXCEPT ![c] = Parts]
               /\ partial' = [partial EXCEPT ![c] = <<>>]
               /\ got' = [got EXCEPT ![c] = Append(@, Head(out_msg[c]))]
               /\ thread' = [thread EXCEPT ![c] = "pop"]
  <1> DEFINE h == Head(out_msg[c])
  <1>1. /\ thread[c] = "send" /\ open[c] /\ out_msg' = out_msg
        /\ xfered \in [Clients -> 0..Parts] /\ partial \in [Clients -> Seq(Message)]
        /\ got \in [Clients -> Seq(Message)] /\ out_msg \in [Clients -> Seq(Message)]
    BY DEF WriteSome, queueVars, IInv, TypeOK
  <1>2. /\ out_msg[c] # <<>> /\ xfered[c] # Parts
        /\ partial[c] = IF xfered[c] = 1 THEN <<h>> ELSE <<>>
    BY <1>1 DEF IInv, Writing
  <1>3. h \in Message
    BY <1>1, <1>2
  <1>4. PICK n \in 1..Parts - xfered[c] : Transfer(c, h, n)
    BY DEF WriteSome
  <1> HIDE DEF h
  <1>5. xfered[c] \in {0, 1}
    BY <1>1, <1>2 DEF Parts
  <1>6. CASE xfered[c] = 0 /\ n = 1
    <2>1. partial[c] = <<>> /\ Len(partial[c]) = 0
      BY <1>2, <1>6
    <2> QED BY <1>1, <1>2, <1>3, <1>4, <1>6, <2>1 DEF Transfer, Goto, Parts, h
  <1>7. CASE xfered[c] + n = Parts
    <2>1. /\ partial[c] = <<>> => n = 2 /\ Len(partial[c]) = 0
          /\ partial[c] # <<>> => n = 1 /\ Len(partial[c]) = 1 /\ Head(partial[c]) = h
      BY <1>2, <1>5, <1>7 DEF Parts
    <2>2. /\ Len(partial[c]) + n = Parts /\ Len(partial[c]) + n # 1
          /\ (IF partial[c] = <<>> THEN h ELSE Head(partial[c])) = h
      <3>1. CASE partial[c] = <<>>
        BY <2>1, <3>1 DEF Parts
      <3>2. CASE partial[c] # <<>>
        <4>1. n = 1 /\ Len(partial[c]) = 1 /\ Head(partial[c]) = h
          BY <2>1, <3>2, Zenon
        <4>2. Len(partial[c]) + n = Parts /\ Len(partial[c]) + n # 1
          BY <4>1 DEF Parts
        <4> QED BY <3>2, <4>1, <4>2, Zenon
      <3> QED BY <3>1, <3>2
    <2>3. /\ xfered' = [xfered EXCEPT ![c] = Parts]
          /\ partial' = [partial EXCEPT ![c] = <<>>]
          /\ got' = [got EXCEPT ![c] = Append(@, h)]
          /\ thread' = [thread EXCEPT ![c] = "pop"]
      BY <1>4, <1>7, <2>2 DEF Transfer, Goto
    <2> QED BY <1>1, <1>2, <1>3, <2>3 DEF h
  <1>8. (xfered[c] = 0 /\ n = 1) \/ xfered[c] + n = Parts
    BY <1>5 DEF Parts
  <1> QED BY <1>6, <1>7, <1>8

LEMMA SendQueued ==
  ASSUME IInv, NEW c \in Clients, WriteSome(c), NEW d \in Clients
  PROVE  Queued(d)' = Queued(d)
  <1>1. /\ xfered \in [Clients -> 0..Parts] /\ got \in [Clients -> Seq(Message)]
        /\ out_msg[c] \in Seq(Message)
    BY DEF IInv, TypeOK
  <1>2. CASE d # c
    <2>1. out_msg'[d] = out_msg[d] /\ xfered'[d] = xfered[d] /\ got'[d] = got[d]
      BY <1>1, <1>2, SendEffect
    <2> QED BY <2>1, QueuedSame
  <1>3. CASE d = c
    <2>0. out_msg'[c] = out_msg[c] /\ out_msg[c] # <<>> /\ xfered[c] # Parts
      BY SendEffect
    <2>1. CASE xfered' = [xfered EXCEPT ![c] = 1] /\ got' = got
      <3>1. xfered'[c] = 1 /\ 1 # Parts
        BY <1>1, <2>1 DEF Parts
      <3> QED BY <1>3, <2>0, <2>1, <3>1 DEF Queued, Undelivered
    <2>2. CASE /\ xfered' = [xfered EXCEPT ![c] = Parts]
               /\ got' = [got EXCEPT ![c] = Append(@, Head(out_msg[c]))]
      <3>1. xfered'[c] = Parts /\ got'[c] = Append(got[c], Head(out_msg[c]))
        BY <1>1, <2>2
      <3>2. Append(got[c], Head(out_msg[c])) \o Tail(out_msg[c]) = got[c] \o out_msg[c]
        BY <1>1, <2>0, MoveHead
      <3> QED BY <1>3, <2>0, <3>1, <3>2, Zenon DEF Queued, Undelivered
    <2> QED BY <2>1, <2>2, SendEffect
  <1> QED BY <1>2, <1>3

LEMMA PopQueued ==
  ASSUME IInv, NEW c \in Clients, WritePop(c), NEW d \in Clients
  PROVE  Undelivered(d)' = Undelivered(d) /\ Queued(d)' = Queued(d)
  <1>1. xfered \in [Clients -> 0..Parts] /\ out_msg \in [Clients -> Seq(Message)]
    BY DEF IInv, TypeOK
  <1>2. /\ out_msg' = [out_msg EXCEPT ![c] = Tail(@)] /\ xfered' = [xfered EXCEPT ![c] = 0]
        /\ got' = got /\ thread[c] = "pop"
    BY DEF WritePop, socketVars
  <1>3. CASE d # c
    <2>1. out_msg'[d] = out_msg[d] /\ xfered'[d] = xfered[d] /\ got'[d] = got[d]
      BY <1>1, <1>2, <1>3
    <2> QED BY <2>1, QueuedSame
  <1>4. CASE d = c
    <2>1. xfered[c] = Parts
      BY <1>2, QueueTypes
    <2>2. xfered'[c] = 0 /\ 0 # Parts /\ out_msg'[c] = Tail(out_msg[c])
      BY <1>1, <1>2 DEF Parts
    <2> QED BY <1>2, <1>4, <2>1, <2>2 DEF Queued, Undelivered
  <1> QED BY <1>3, <1>4

\* The messages that the emission in progress queues for c.
VisitFor(c) == IF emission.kind = "signal" THEN SignalFor(c) ELSE BroadcastsFor(c)

\* What steps do to the functions of the clients and to sequences.
LEMMA ExceptType ==
  ASSUME NEW S, NEW f \in [Clients -> S], NEW c, NEW v \in S
  PROVE  [f EXCEPT ![c] = v] \in [Clients -> S]
  OBVIOUS

LEMMA FunctionSeq ==
  ASSUME NEW S, NEW n \in Nat, NEW f \in [1..n -> S]
  PROVE  f \in Seq(S)
  BY SeqDef

LEMMA EmptySeqType == ASSUME NEW S PROVE <<>> \in Seq(S)
  OBVIOUS

LEMMA ClientTypes ==
  ASSUME TypeOK, NEW c \in Clients
  PROVE  /\ asked[c] \in Nat /\ sources[c] \in Nat /\ pendingsignals[c] \in Nat
         /\ broadcasts[c] \in Seq(Nat) /\ since[c] \in Seq(Nat)
         /\ read_msg[c].cookie \in Nat /\ read_msg[c].val \in Nat
         /\ out_msg[c] \in Seq(Message) /\ got[c] \in Seq(Message)
         /\ emitted \in Seq({"signal", "broadcast"}) /\ Len(emitted) \in Nat
         /\ emission.rest \in Seq(Clients) /\ clients \in Seq(Clients)
  <1>1. /\ asked[c] \in Nat /\ sources[c] \in Nat /\ pendingsignals[c] \in Nat
    BY Zenon DEF TypeOK
  <1>2. /\ broadcasts[c] \in Seq(Nat) /\ since[c] \in Seq(Nat)
        /\ out_msg[c] \in Seq(Message) /\ got[c] \in Seq(Message)
    BY Zenon DEF TypeOK
  <1>3. read_msg[c] \in [cookie : Nat, val : Nat]
    BY Zenon DEF TypeOK
  <1>4. read_msg[c].cookie \in Nat /\ read_msg[c].val \in Nat
    BY <1>3
  <1>5. emitted \in Seq({"signal", "broadcast"}) /\ clients \in Seq(Clients)
    BY Zenon DEF TypeOK
  <1>6. Len(emitted) \in Nat
    BY <1>5
  <1>7. emission.rest \in Seq(Clients)
    BY DEF TypeOK
  <1> QED BY <1>1, <1>2, <1>4, <1>5, <1>6, <1>7

LEMMA VisitTypes ==
  ASSUME IInv, NEW c \in Clients
  PROVE  /\ VisitFor(c) \in Seq(Message)
         /\ DOMAIN BroadcastsFor(c) = DOMAIN broadcasts[c]
         /\ \A j \in DOMAIN BroadcastsFor(c) :
              /\ BroadcastsFor(c)[j].kind = "broadcast"
              /\ BroadcastsFor(c)[j].cookie = broadcasts[c][j]
              /\ BroadcastsFor(c)[j].val = Len(emitted)
  <1>1. /\ pendingsignals[c] \in Nat /\ Len(emitted) \in Nat /\ broadcasts[c] \in Seq(Nat)
        /\ asked[c] \in Nat
    BY DEF IInv, TypeOK
  <1>2. SignalFor(c) \in Seq(Message)
    <2> DEFINE e == [kind |-> "signal", cookie |-> pendingsignals[c],
                     val |-> Len(emitted)]
    <2>1. CASE pendingsignals[c] = 0
      <3>1. SignalFor(c) = <<>>
        BY <2>1, Zenon DEF SignalFor
      <3> QED BY <3>1
    <2>2. CASE pendingsignals[c] # 0
      <3>1. e \in Message
        BY <1>1, <2>2 DEF Message
      <3>2. SignalFor(c) = <<e>>
        BY <2>2, Zenon DEF SignalFor
      <3> HIDE DEF e
      <3> QED BY <3>1, <3>2
    <2> QED BY <2>1, <2>2
  <1>3. \A j \in DOMAIN broadcasts[c] : broadcasts[c][j] \in Nat \ {0}
    <2>1. Range(broadcasts[c]) \subseteq 1..asked[c]
      BY Zenon DEF IInv, Cookies, CookiesOf
    <2> QED BY <1>1, <2>1 DEF Range
  <1>4. \A j \in DOMAIN broadcasts[c] :
          [kind |-> "broadcast", cookie |-> broadcasts[c][j], val |-> Len(emitted)]
            \in Message
    BY <1>1, <1>3 DEF Message
  <1>5. BroadcastsFor(c) \in Seq(Message)
    <2>1. DOMAIN broadcasts[c] = 1..Len(broadcasts[c]) /\ Len(broadcasts[c]) \in Nat
      BY <1>1
    <2>2. BroadcastsFor(c) \in [DOMAIN broadcasts[c] -> Message]
      BY <1>4, Zenon DEF BroadcastsFor
    <2> QED BY <2>1, <2>2, FunctionSeq
  <1> QED BY <1>2, <1>5 DEF VisitFor, BroadcastsFor

LEMMA VisitEffect ==
  ASSUME IInv, EmitVisit, NEW c, c = Head(emission.rest)
  PROVE  /\ c \in Clients /\ emission.rest # <<>>
         /\ out_msg' = [out_msg EXCEPT ![c] = @ \o VisitFor(c)]
         /\ sources' = IF out_msg[c] = <<>> /\ VisitFor(c) # <<>>
                       THEN [sources EXCEPT ![c] = @ + 1] ELSE sources
         /\ pendingsignals' = IF emission.kind = "signal"
                              THEN [pendingsignals EXCEPT ![c] = 0] ELSE pendingsignals
         /\ emission' = [emission EXCEPT !.rest = Tail(@)]
  <1>1. emission.rest # <<>> /\ emission.rest \in Seq(Clients)
    BY DEF EmitVisit, IInv, TypeOK
  <1>2. c \in Clients
    BY <1>1
  <1>3. CASE emission.kind = "signal"
    BY <1>1, <1>2, <1>3, Zenon DEF EmitVisit, EmitSignal, ClientMsgWrite, VisitFor
  <1>4. CASE emission.kind # "signal"
    BY <1>1, <1>2, <1>4, Zenon DEF EmitVisit, EmitBroadcast, ClientMsgWrite, VisitFor
  <1> QED BY <1>3, <1>4

LEMMA ReplyType ==
  ASSUME IInv, NEW c \in Clients, thread[c] = "reply"
  PROVE  [kind |-> "reply", cookie |-> read_msg[c].cookie, val |-> read_msg[c].val]
           \in Message
  <1>1. read_msg[c].cookie \in Nat /\ read_msg[c].val \in Nat /\ asked[c] \in Nat
    BY DEF IInv, TypeOK
  <1>2. read_msg[c].cookie = asked[c] /\ asked[c] > 0
    <2>1. "reply" \in Busy
      BY DEF Busy
    <2> QED BY <2>1, Zenon DEF IInv, Cookies, CookiesOf
  <1> QED BY <1>1, <1>2 DEF Message

LEMMA BeginType ==
  ASSUME TypeOK, NEW t \in Clients \cup {"server"}, NEW kind \in {"signal", "broadcast"},
         EmitBegin(t, kind)
  PROVE  /\ emission' \in [by : Clients \cup {"server", "nobody"},
                           kind : {"none", "signal", "broadcast"}, rest : Seq(Clients)]
         /\ emitted' \in Seq({"signal", "broadcast"})
         /\ Len(emitted') \in Nat /\ Len(emitted') = Len(emitted) + 1
         /\ emission' = [by |-> t, kind |-> kind,
                         rest |-> IF ipc_servers THEN clients ELSE <<>>]
         /\ emission = Idle /\ emission' # Idle
         /\ emitted'[Len(emitted')] = kind
         /\ \A n \in 1..Len(emitted) : emitted'[n] = emitted[n]
  <1>1. /\ emission' = [by |-> t, kind |-> kind,
                        rest |-> IF ipc_servers THEN clients ELSE <<>>]
        /\ emission = Idle /\ emitted' = Append(emitted, kind)
    BY DEF EmitBegin
  <1>2. (IF ipc_servers THEN clients ELSE <<>>) \in Seq(Clients)
    BY DEF TypeOK
  <1> DEFINE r == IF ipc_servers THEN clients ELSE <<>>
  <1> HIDE DEF r
  <1>3. emission' = [by |-> t, kind |-> kind, rest |-> r] /\ r \in Seq(Clients)
    BY <1>1, <1>2 DEF r
  <1>4. /\ emission' \in [by : Clients \cup {"server", "nobody"},
                          kind : {"none", "signal", "broadcast"}, rest : Seq(Clients)]
        /\ emission'.kind = kind /\ kind # "none"
    BY <1>3
  <1>5. emission' # Idle
    <2>1. Idle.kind = "none"
      BY DEF Idle
    <2> QED BY <1>4, <2>1
  <1>6. /\ emitted' \in Seq({"signal", "broadcast"})
        /\ Len(emitted') \in Nat /\ Len(emitted') = Len(emitted) + 1
        /\ \A n \in 1..Len(emitted) + 1 :
             emitted'[n] = IF n <= Len(emitted) THEN emitted[n] ELSE kind
    <2>1. emitted \in Seq({"signal", "broadcast"}) /\ Len(emitted) \in Nat
      BY DEF TypeOK
    <2>2. kind \in {"signal", "broadcast"} /\ emitted' = Append(emitted, kind)
      BY <1>1
    <2>3. /\ Append(emitted, kind) \in Seq({"signal", "broadcast"})
          /\ Len(Append(emitted, kind)) = Len(emitted) + 1
          /\ \A n \in 1..Len(emitted) + 1 :
               Append(emitted, kind)[n] = IF n <= Len(emitted) THEN emitted[n] ELSE kind
      BY <2>1, <2>2, AppendValues
    <2> QED BY <2>1, <2>2, <2>3
  <1>7. /\ emitted'[Len(emitted')] = kind
        /\ \A n \in 1..Len(emitted) : emitted'[n] = emitted[n]
    <2>1. Len(emitted) \in Nat
      BY DEF TypeOK
    <2> QED BY <1>6, <2>1
  <1> QED BY <1>1, <1>4, <1>5, <1>6, <1>7

\* Each step keeps the types.
LEMMA TypeStep == IInv /\ Next => TypeOK'
  <1> SUFFICES ASSUME IInv, Next PROVE TypeOK'
    OBVIOUS
  <1>0. TypeOK /\ Lists /\ (\A c \in Clients : Writing(c))
    BY DEF IInv
  <1> USE DEF Goto, vars, serverVars, queueVars, registered, socketVars, peerVars, Places
  <1>1. ASSUME NEW c \in Clients, WritePeek(c) PROVE TypeOK'
    BY <1>0, <1>1 DEF TypeOK, WritePeek
  <1>2. ASSUME NEW c \in Clients, WriteDone(c) PROVE TypeOK'
    <2>1. sources[c] > 0
      BY <1>0, <1>2 DEF WriteDone, Writing
    <2>2. sources[c] - 1 \in Nat /\ sources' = [sources EXCEPT ![c] = sources[c] - 1]
      <3>1. sources[c] \in Nat
        BY <1>0, ClientTypes
      <3>2. sources' = [sources EXCEPT ![c] = sources[c] - 1]
        BY <1>2, Zenon DEF WriteDone
      <3> QED BY <2>1, <3>1, <3>2
    <2>3. sources' \in [Clients -> Nat]
      BY <1>0, <2>2, ExceptType DEF TypeOK
    <2> QED BY <1>0, <1>2, <2>3 DEF TypeOK, WriteDone
  <1>3. ASSUME NEW c \in Clients, WriteSome(c) PROVE TypeOK'
    <2>1. /\ Head(out_msg[c]) \in Message
          /\ \/ /\ xfered' = [xfered EXCEPT ![c] = 1]
                /\ partial' = [partial EXCEPT ![c] = <<Head(out_msg[c])>>]
                /\ got' = got
                /\ thread' = [thread EXCEPT ![c] = "loop"]
             \/ /\ xfered' = [xfered EXCEPT ![c] = Parts]
                /\ partial' = [partial EXCEPT ![c] = <<>>]
                /\ got' = [got EXCEPT ![c] = Append(@, Head(out_msg[c]))]
                /\ thread' = [thread EXCEPT ![c] = "pop"]
      BY <1>3, SendEffect
    <2>2. /\ xfered' \in [Clients -> 0..Parts] /\ thread' \in [Clients -> Places]
          /\ partial' \in [Clients -> Seq(Message)] /\ got' \in [Clients -> Seq(Message)]
      <3>1. /\ 1 \in 0..Parts /\ Parts \in 0..Parts /\ "loop" \in Places
            /\ "pop" \in Places /\ <<>> \in Seq(Message)
        BY DEF Parts
      <3>2. <<Head(out_msg[c])>> \in Seq(Message)
        BY <2>1
      <3>3. Append(got[c], Head(out_msg[c])) \in Seq(Message)
        BY <1>0, <2>1 DEF TypeOK
      <3>4. /\ xfered \in [Clients -> 0..Parts] /\ thread \in [Clients -> Places]
            /\ partial \in [Clients -> Seq(Message)] /\ got \in [Clients -> Seq(Message)]
        BY <1>0, Zenon DEF TypeOK
      <3> DEFINE h == Head(out_msg[c])
                 P == Parts
                 R == 0..Parts
                 Q == Places
      <3> HIDE DEF h, P, R, Q
      <3>5. /\ [xfered EXCEPT ![c] = 1] \in [Clients -> R]
            /\ [xfered EXCEPT ![c] = P] \in [Clients -> R]
        BY <3>1, <3>4 DEF P, R
      <3>6. /\ [thread EXCEPT ![c] = "loop"] \in [Clients -> Q]
            /\ [thread EXCEPT ![c] = "pop"] \in [Clients -> Q]
        BY <3>1, <3>4 DEF Q
      <3>7. /\ [partial EXCEPT ![c] = <<h>>] \in [Clients -> Seq(Message)]
            /\ [partial EXCEPT ![c] = <<>>] \in [Clients -> Seq(Message)]
        BY <3>1, <3>2, <3>4, ExceptType DEF h
      <3>8. [got EXCEPT ![c] = Append(got[c], h)] \in [Clients -> Seq(Message)]
        BY <3>3, <3>4, ExceptType DEF h
      <3> QED BY <2>1, <3>4, <3>5, <3>6, <3>7, <3>8, Zenon DEF h, P, R, Q
    <2> QED BY <1>0, <1>3, <2>2 DEF TypeOK, WriteSome
  <1>4. ASSUME NEW c \in Clients, WriteNothing(c) PROVE TypeOK'
    BY <1>0, <1>4 DEF TypeOK, WriteNothing
  <1>5. ASSUME NEW c \in Clients, WriteFails(c) PROVE TypeOK'
    BY <1>0, <1>5 DEF TypeOK, WriteFails
  <1>6. ASSUME NEW c \in Clients, WritePop(c) PROVE TypeOK'
    <2>1. out_msg[c] # <<>> /\ out_msg[c] \in Seq(Message)
      BY <1>0, <1>6, QueueTypes DEF WritePop
    <2>2. Tail(out_msg[c]) \in Seq(Message)
      BY <2>1
    <2>3. 0 \in 0..Parts
      BY DEF Parts
    <2>4. out_msg' \in [Clients -> Seq(Message)] /\ xfered' \in [Clients -> 0..Parts]
      BY <1>0, <1>6, <2>2, <2>3, ExceptType DEF TypeOK, WritePop
    <2> QED BY <1>0, <1>6, <2>4 DEF TypeOK, WritePop
  <1>7. ASSUME NEW c \in Clients, ReadRequest(c) PROVE TypeOK'
    <2>1. asked[c] + 1 \in Nat /\ asked' = [asked EXCEPT ![c] = @ + 1] /\ Len(emitted) \in Nat
          /\ asked'[c] = asked[c] + 1 /\ asked' \in [Clients -> Nat]
      <3>1. asked[c] \in Nat /\ asked \in [Clients -> Nat] /\ Len(emitted) \in Nat
        BY <1>0, ClientTypes, Zenon DEF TypeOK
      <3>2. asked' = [asked EXCEPT ![c] = asked[c] + 1]
        BY <1>7, Zenon DEF ReadRequest
      <3> QED BY <3>1, <3>2
    <2>2. /\ thread' \in [Clients -> Places] /\ pendingsignals' \in [Clients -> Nat]
          /\ broadcasts' \in [Clients -> Seq(Nat)] /\ since' \in [Clients -> Seq(Nat)]
          /\ read_msg' \in [Clients -> [cookie : Nat, val : Nat]]
      <3>1. CASE RegisterSignal(c, asked'[c])
        <4>1. pendingsignals' \in [Clients -> Nat]
          BY <1>0, <2>1, <3>1, ExceptType DEF TypeOK, RegisterSignal
        <4>2. thread' \in [Clients -> Places]
          BY <1>0, <3>1 DEF TypeOK, RegisterSignal
        <4> QED BY <1>0, <3>1, <4>1, <4>2, Zenon DEF TypeOK, RegisterSignal
      <3>2. CASE RegisterBroadcast(c, asked'[c])
        <4>1. /\ Append(broadcasts[c], asked'[c]) \in Seq(Nat)
              /\ Append(since[c], Len(emitted)) \in Seq(Nat)
          BY <1>0, <2>1 DEF TypeOK
        <4>2. broadcasts' \in [Clients -> Seq(Nat)]
          BY <1>0, <3>2, <4>1, ExceptType DEF TypeOK, RegisterBroadcast
        <4>3. since' \in [Clients -> Seq(Nat)]
          BY <1>0, <3>2, <4>1, ExceptType DEF TypeOK, RegisterBroadcast
        <4>4. thread' \in [Clients -> Places]
          BY <1>0, <3>2 DEF TypeOK, RegisterBroadcast
        <4> QED BY <1>0, <3>2, <4>2, <4>3, <4>4, Zenon DEF TypeOK, RegisterBroadcast
      <3>3. CASE BeginCommand(c, asked'[c])
        <4>1. [cookie |-> asked'[c], val |-> 0] \in [cookie : Nat, val : Nat]
          BY <2>1
        <4>2. read_msg' \in [Clients -> [cookie : Nat, val : Nat]]
          BY <1>0, <3>3, <4>1, ExceptType DEF TypeOK, BeginCommand
        <4>3. thread' \in [Clients -> Places]
          BY <1>0, <3>3 DEF TypeOK, BeginCommand
        <4> QED BY <1>0, <3>3, <4>2, <4>3, Zenon DEF TypeOK, BeginCommand
      <3> QED BY <1>7, <3>1, <3>2, <3>3 DEF ReadRequest
    <2> QED BY <1>0, <1>7, <2>1, <2>2 DEF TypeOK, ReadRequest
  <1>8. ASSUME NEW c \in Clients, ReadEnd(c) PROVE TypeOK'
    BY <1>0, <1>8 DEF TypeOK, ReadEnd
  <1>9. ASSUME NEW c \in Clients, CommandEmits(c) PROVE TypeOK'
    <2>1. EmitBegin(c, "broadcast")
      BY <1>9 DEF CommandEmits
    <2>2. /\ emission' \in [by : Clients \cup {"server", "nobody"},
                            kind : {"none", "signal", "broadcast"}, rest : Seq(Clients)]
          /\ emitted' \in Seq({"signal", "broadcast"}) /\ Len(emitted') \in Nat
      BY <1>0, <2>1, BeginType
    <2>3. read_msg' \in [Clients -> [cookie : Nat, val : Nat]]
      <3>1. read_msg[c] \in [cookie : Nat, val : Nat]
        BY <1>0 DEF TypeOK
      <3>2. [read_msg[c] EXCEPT !.val = Len(emitted')] \in [cookie : Nat, val : Nat]
        BY <2>2, <3>1
      <3>3. read_msg' = [read_msg EXCEPT ![c] = [read_msg[c] EXCEPT !.val = Len(emitted')]]
        BY <1>9 DEF CommandEmits
      <3> QED BY <1>0, <3>2, <3>3 DEF TypeOK
    <2> QED BY <1>0, <1>9, <2>2, <2>3 DEF TypeOK, CommandEmits
  <1>10. ASSUME NEW c \in Clients, CommandReads(c) PROVE TypeOK'
    BY <1>0, <1>10 DEF TypeOK, CommandReads
  <1>11. ASSUME NEW c \in Clients, Reply(c) PROVE TypeOK'
    <2> DEFINE e == [kind |-> "reply", cookie |-> read_msg[c].cookie,
                     val |-> read_msg[c].val]
    <2>1. e \in Message
      BY <1>11, ReplyType DEF Reply
    <2>2. out_msg[c] \o <<e>> \in Seq(Message)
      BY <1>0, <2>1 DEF TypeOK
    <2>3. /\ out_msg' = [out_msg EXCEPT ![c] = @ \o <<e>>]
          /\ sources' = IF out_msg[c] = <<>> /\ <<e>> # <<>>
                        THEN [sources EXCEPT ![c] = @ + 1] ELSE sources
          /\ read_msg' = [read_msg EXCEPT ![c] = NoCommand]
          /\ thread' = [thread EXCEPT ![c] = "read"]
      BY <1>11 DEF Reply, ClientMsgWrite
    <2> HIDE DEF e
    <2>4. /\ out_msg' \in [Clients -> Seq(Message)] /\ sources' \in [Clients -> Nat]
      <3>1. out_msg \in [Clients -> Seq(Message)] /\ sources \in [Clients -> Nat]
        BY <1>0, Zenon DEF TypeOK
      <3>2. out_msg' \in [Clients -> Seq(Message)]
        BY <2>2, <2>3, <3>1
      <3>3. sources' \in [Clients -> Nat]
        BY <2>3, <3>1
      <3> QED BY <3>2, <3>3
    <2>5. read_msg' \in [Clients -> [cookie : Nat, val : Nat]]
      BY <1>0, <2>3 DEF TypeOK, NoCommand
    <2> QED BY <1>0, <1>11, <2>3, <2>4, <2>5 DEF TypeOK, Reply
  <1>12. ASSUME NEW c \in Clients, DestroyBegin(c) PROVE TypeOK'
    BY <1>0, <1>12 DEF TypeOK, DestroyBegin
  <1>13. ASSUME NEW c \in Clients, DestroyRemove(c) PROVE TypeOK'
    <2>1. CASE ipc[c]
      <3>1. c \in Range(clients) /\ Distinct(clients)
        BY <1>0, <1>13, <2>1 DEF DestroyRemove, Lists, Listed
      <3>2. RemoveFirst(clients, c) \in Seq(Clients)
        BY <1>0, <3>1, RemoveFirstValues DEF TypeOK
      <3>3. clients' = RemoveFirst(clients, c)
        BY <1>13, <2>1 DEF DestroyRemove
      <3> QED BY <1>0, <1>13, <2>1, <3>2, <3>3 DEF TypeOK, DestroyRemove
    <2>2. CASE ~ ipc[c]
      BY <1>0, <1>13, <2>2 DEF TypeOK, DestroyRemove
    <2> QED BY <2>1, <2>2
  <1>14. ASSUME NEW c \in Clients, DestroyFree(c) PROVE TypeOK'
    <2>1. 0 \in 0..Parts /\ 0 \in Nat /\ <<>> \in Seq(Message) /\ <<>> \in Seq(Nat)
          /\ "dead" \in Places
      BY DEF Parts
    <2>2. /\ out_msg' \in [Clients -> Seq(Message)] /\ xfered' \in [Clients -> 0..Parts]
          /\ sources' \in [Clients -> Nat] /\ pendingsignals' \in [Clients -> Nat]
      BY <1>0, <1>14, <2>1, ExceptType DEF TypeOK, DestroyFree
    <2>3. /\ broadcasts' \in [Clients -> Seq(Nat)] /\ since' \in [Clients -> Seq(Nat)]
          /\ thread' \in [Clients -> Places]
      BY <1>0, <1>14, <2>1, ExceptType DEF TypeOK, DestroyFree
    <2> QED BY <1>0, <1>14, <2>2, <2>3, Zenon DEF TypeOK, DestroyFree
  <1>15. ASSUME NEW c \in Clients, PeerClose(c) PROVE TypeOK'
    <2>1. FALSE \in BOOLEAN /\ <<>> \in Seq(Message)
      OBVIOUS
    <2>2. /\ open' \in [Clients -> BOOLEAN] /\ got' \in [Clients -> Seq(Message)]
          /\ partial' \in [Clients -> Seq(Message)]
      BY <1>0, <1>15, <2>1, ExceptType DEF TypeOK, PeerClose
    <2> QED BY <1>0, <1>15, <2>2, Zenon DEF TypeOK, PeerClose
  <1>16. ASSUME NEW c \in Clients, SourceAccept(c) PROVE TypeOK'
    <2>1. Append(clients, c) \in Seq(Clients)
      BY <1>0 DEF TypeOK
    <2>2. /\ ipc' \in [Clients -> BOOLEAN] /\ thread' \in [Clients -> Places]
      BY <1>0, <1>16 DEF TypeOK, SourceAccept
    <2> QED BY <1>0, <1>16, <2>1, <2>2, Zenon DEF TypeOK, SourceAccept
  <1>17. ASSUME EmitVisit PROVE TypeOK'
    <2> DEFINE c == Head(emission.rest)
    <2>1. /\ c \in Clients /\ emission.rest # <<>>
          /\ out_msg' = [out_msg EXCEPT ![c] = @ \o VisitFor(c)]
          /\ sources' = IF out_msg[c] = <<>> /\ VisitFor(c) # <<>>
                        THEN [sources EXCEPT ![c] = @ + 1] ELSE sources
          /\ pendingsignals' = IF emission.kind = "signal"
                               THEN [pendingsignals EXCEPT ![c] = 0] ELSE pendingsignals
          /\ emission' = [emission EXCEPT !.rest = Tail(@)]
      BY <1>17, VisitEffect
    <2> HIDE DEF c
    <2>2. VisitFor(c) \in Seq(Message)
      BY <2>1, VisitTypes
    <2>3. out_msg' \in [Clients -> Seq(Message)]
      <3>1. out_msg[c] \o VisitFor(c) \in Seq(Message)
        BY <1>0, <2>1, <2>2 DEF TypeOK
      <3> QED BY <1>0, <2>1, <3>1, ExceptType DEF TypeOK
    <2>4. sources' \in [Clients -> Nat] /\ pendingsignals' \in [Clients -> Nat]
      <3>1. sources[c] + 1 \in Nat /\ 0 \in Nat
        BY <1>0, <2>1, ClientTypes
      <3>2. sources \in [Clients -> Nat] /\ pendingsignals \in [Clients -> Nat]
        BY <1>0, Zenon DEF TypeOK
      <3> QED BY <2>1, <3>1, <3>2, ExceptType
    <2>5. emission' \in [by : Clients \cup {"server", "nobody"},
                         kind : {"none", "signal", "broadcast"}, rest : Seq(Clients)]
      <3>1. emission.rest \in Seq(Clients) /\ Tail(emission.rest) \in Seq(Clients)
        BY <1>0, <2>1 DEF TypeOK
      <3> DEFINE r == Tail(emission.rest)
      <3> HIDE DEF r
      <3>2. emission' = [emission EXCEPT !.rest = r] /\ r \in Seq(Clients)
        BY <2>1, <3>1 DEF r
      <3> QED BY <1>0, <3>2 DEF TypeOK
    <2> QED BY <1>0, <1>17, <2>3, <2>4, <2>5 DEF TypeOK, EmitVisit
  <1>18. ASSUME EmitEnd PROVE TypeOK'
    <2>1. emission' \in [by : Clients \cup {"server", "nobody"},
                         kind : {"none", "signal", "broadcast"}, rest : Seq(Clients)]
      BY <1>18 DEF EmitEnd, Idle
    <2>2. thread' \in [Clients -> Places]
      BY <1>0, <1>18 DEF TypeOK, EmitEnd
    <2> QED BY <1>0, <1>18, <2>1, <2>2 DEF TypeOK, EmitEnd
  <1>19. ASSUME ServerEmits PROVE TypeOK'
    <2>1. PICK kind \in {"signal", "broadcast"} : EmitBegin("server", kind)
      BY <1>19 DEF ServerEmits
    <2>2. /\ emission' \in [by : Clients \cup {"server", "nobody"},
                            kind : {"none", "signal", "broadcast"}, rest : Seq(Clients)]
          /\ emitted' \in Seq({"signal", "broadcast"})
      BY <1>0, <2>1, BeginType
    <2> QED BY <1>0, <1>19, <2>2 DEF TypeOK, ServerEmits
  <1>20. ASSUME Shutdown PROVE TypeOK'
    <2>1. /\ clients' \in Seq(Clients) /\ ipc' \in [Clients -> BOOLEAN]
          /\ ipc_servers' \in BOOLEAN
      <3>1. clients' = <<>> /\ ipc' = [c \in Clients |-> FALSE] /\ ipc_servers' = FALSE
        BY <1>20, Zenon DEF Shutdown
      <3>2. <<>> \in Seq(Clients)
        BY EmptySeqType
      <3>3. [c \in Clients |-> FALSE] \in [Clients -> BOOLEAN]
        OBVIOUS
      <3> QED BY <3>1, <3>2, <3>3, Zenon
    <2> QED BY <1>0, <1>20, <2>1, Zenon DEF TypeOK, Shutdown
  <1> QED BY <1>1, <1>2, <1>3, <1>4, <1>5, <1>6, <1>7, <1>8, <1>9, <1>10, <1>11,
             <1>12, <1>13, <1>14, <1>15, <1>16, <1>17, <1>18, <1>19, <1>20
          DEF Next, ClientThread, Emit

-----------------------------------------------------------------------------
(***************************************************************************)
(* The lists of the server                                                 *)
(***************************************************************************)

LEMMA ListedSame ==
  ASSUME NEW d \in Clients, Listed(d), UNCHANGED <<clients, ipc_servers, emission, ipc>>,
         thread'[d] = thread[d], broadcasts'[d] = broadcasts[d]
  PROVE  Listed(d)'
  BY Zenon DEF Listed

\* The thread of one client goes on.
LEMMA ListsMove ==
  ASSUME IInv, NEW c \in Clients, UNCHANGED <<clients, ipc_servers, emission, emitted, ipc>>,
         NEW at, thread' = [thread EXCEPT ![c] = at],
         at \notin {"none", "emit"}, thread[c] \notin {"none", "emit"},
         thread[c] \in {"free", "dead"} => at \in {"free", "dead"},
         at \in {"free", "dead"} => c \notin Range(clients),
         \A d \in Clients : d # c => broadcasts'[d] = broadcasts[d]
  PROVE  Lists'
  <1>1. \A d \in Clients : Listed(d)
    BY Zenon DEF IInv, Lists
  <1>2. thread'[c] = at /\ \A d \in Clients : d # c => thread'[d] = thread[d]
    BY DEF IInv, TypeOK
  <1>3. Listed(c)'
    <2>1. Listed(c)
      BY <1>1
    <2> QED BY <1>2, <2>1 DEF Listed
  <1>4. ASSUME NEW d \in Clients, d # c PROVE Listed(d)'
    BY <1>1, <1>2, <1>4, ListedSame
  <1>5. \A d \in Clients : Listed(d)'
    BY <1>3, <1>4
  <1> QED BY <1>5 DEF IInv, Lists

\* An emission begins.
LEMMA ListsBegin ==
  ASSUME IInv, NEW t \in Clients \cup {"server"}, NEW kind \in {"signal", "broadcast"},
         EmitBegin(t, kind), UNCHANGED <<clients, ipc_servers, ipc, broadcasts>>,
         IF t \in Clients
         THEN thread[t] = "command" /\ thread' = [thread EXCEPT ![t] = "emit"]
         ELSE thread' = thread
  PROVE  Lists'
  <1>0. Lists /\ TypeOK
    BY DEF IInv
  <1>1. /\ Len(emitted') \in Nat /\ Len(emitted') = Len(emitted) + 1 /\ Len(emitted) \in Nat
        /\ emission = Idle /\ emission' # Idle
        /\ emission' = [by |-> t, kind |-> kind,
                        rest |-> IF ipc_servers THEN clients ELSE <<>>]
        /\ emitted'[Len(emitted')] = kind
    <2>1. Len(emitted) \in Nat
      BY <1>0 DEF TypeOK
    <2> QED BY <1>0, <2>1, BeginType, Zenon
  <1>2. /\ emission'.by = t /\ emission'.kind = kind
        /\ emission'.rest = IF ipc_servers THEN clients ELSE <<>>
    BY <1>1
  <1>3. Distinct(emission'.rest) /\ Range(emission'.rest) \subseteq Range(clients)
    <2>1. CASE ipc_servers
      BY <1>0, <1>2, <2>1 DEF Lists
    <2>2. CASE ~ ipc_servers
      BY <1>2, <2>2 DEF Distinct, Range
    <2> QED BY <2>1, <2>2
  <1>4. ASSUME NEW d \in Clients PROVE Listed(d)'
    <2>1. Listed(d) /\ thread[d] # "emit"
      BY <1>0, <1>1 DEF Lists, Listed
    <2>2. CASE d = t
      <3>1. thread[d] = "command" /\ thread'[d] = "emit"
        BY <1>0, <2>2 DEF TypeOK
      <3> QED BY <1>1, <1>2, <2>1, <2>2, <3>1 DEF Listed
    <2>3. CASE d # t
      <3>1. thread'[d] = thread[d]
        BY <1>0, <2>3 DEF TypeOK
      <3> QED BY <1>1, <1>2, <2>1, <2>3, <3>1 DEF Listed
    <2> QED BY <2>2, <2>3
  <1>5. Len(emitted') > 0
    BY <1>1
  <1> QED BY <1>0, <1>1, <1>2, <1>3, <1>4, <1>5 DEF Lists

LEMMA ListsStep == IInv /\ Next => Lists'
  <1> SUFFICES ASSUME IInv, Next PROVE Lists'
    OBVIOUS
  <1>0. TypeOK /\ Lists /\ \A c \in Clients : Listed(c)
    BY DEF IInv, Lists
  <1> USE DEF Goto, vars, serverVars, queueVars, registered, socketVars, peerVars
  <1>1. ASSUME NEW c \in Clients, WritePeek(c) PROVE Lists'
    <2> DEFINE at == IF out_msg[c] = <<>> THEN "done" ELSE "send"
    <2>1. at \in {"done", "send"} /\ thread[c] \in {"loop", "peek"}
      BY <1>1 DEF WritePeek
    <2>2. thread' = [thread EXCEPT ![c] = at]
      BY <1>1 DEF WritePeek
    <2>3. UNCHANGED <<clients, ipc_servers, emission, emitted, ipc, broadcasts>>
      BY <1>1 DEF WritePeek
    <2> HIDE DEF at
    <2> QED BY <2>1, <2>2, <2>3, ListsMove
  <1>2. ASSUME NEW c \in Clients, WriteDone(c) PROVE Lists'
    BY <1>2, ListsMove DEF WriteDone
  <1>3. ASSUME NEW c \in Clients, WriteSome(c) PROVE Lists'
    <2>1. /\ thread[c] = "send"
          /\ UNCHANGED <<clients, ipc_servers, emission, emitted, ipc, broadcasts>>
      BY <1>3 DEF WriteSome
    <2>2. CASE thread' = [thread EXCEPT ![c] = "loop"]
      BY <2>1, <2>2, ListsMove
    <2>3. CASE thread' = [thread EXCEPT ![c] = "pop"]
      BY <2>1, <2>3, ListsMove
    <2> QED BY <1>3, <2>2, <2>3, SendEffect
  <1>4. ASSUME NEW c \in Clients, WriteNothing(c) PROVE Lists'
    BY <1>4, ListsMove DEF WriteNothing
  <1>5. ASSUME NEW c \in Clients, WriteFails(c) PROVE Lists'
    BY <1>5, ListsMove DEF WriteFails
  <1>6. ASSUME NEW c \in Clients, WritePop(c) PROVE Lists'
    BY <1>6, ListsMove DEF WritePop
  <1>7. ASSUME NEW c \in Clients, ReadRequest(c) PROVE Lists'
    <2>1. /\ thread[c] \in {"loop", "read"}
          /\ UNCHANGED <<clients, ipc_servers, emission, emitted, ipc>>
      BY <1>7 DEF ReadRequest
    <2>2. \A d \in Clients : d # c => broadcasts'[d] = broadcasts[d]
      BY <1>0, <1>7 DEF ReadRequest, RegisterSignal, RegisterBroadcast, BeginCommand, TypeOK
    <2>3. CASE thread' = [thread EXCEPT ![c] = "read"]
      BY <2>1, <2>2, <2>3, ListsMove
    <2>4. CASE thread' = [thread EXCEPT ![c] = "command"]
      BY <2>1, <2>2, <2>4, ListsMove
    <2>5. \/ thread' = [thread EXCEPT ![c] = "read"]
          \/ thread' = [thread EXCEPT ![c] = "command"]
      BY <1>7, Zenon DEF ReadRequest, RegisterSignal, RegisterBroadcast, BeginCommand
    <2> QED BY <2>3, <2>4, <2>5
  <1>8. ASSUME NEW c \in Clients, ReadEnd(c) PROVE Lists'
    <2>1. /\ thread[c] \in {"loop", "read"}
          /\ UNCHANGED <<clients, ipc_servers, emission, emitted, ipc, broadcasts>>
      BY <1>8 DEF ReadEnd
    <2>2. CASE thread' = [thread EXCEPT ![c] = "loop"]
      BY <2>1, <2>2, ListsMove
    <2>3. CASE thread' = [thread EXCEPT ![c] = "quit"]
      BY <2>1, <2>3, ListsMove
    <2> QED BY <1>8, <2>2, <2>3 DEF ReadEnd
  <1>9. ASSUME NEW c \in Clients, CommandEmits(c) PROVE Lists'
    BY <1>9, ListsBegin DEF CommandEmits
  <1>10. ASSUME NEW c \in Clients, CommandReads(c) PROVE Lists'
    BY <1>10, ListsMove DEF CommandReads
  <1>11. ASSUME NEW c \in Clients, Reply(c) PROVE Lists'
    BY <1>11, ListsMove DEF Reply
  <1>12. ASSUME NEW c \in Clients, DestroyBegin(c) PROVE Lists'
    <2>1. /\ thread[c] = "quit"
          /\ UNCHANGED <<clients, ipc_servers, emission, emitted, ipc, broadcasts>>
      BY <1>12 DEF DestroyBegin
    <2>2. CASE ipc[c]
      <3>1. thread' = [thread EXCEPT ![c] = "remove"]
        BY <1>12, <2>2 DEF DestroyBegin
      <3> QED BY <2>1, <3>1, ListsMove
    <2>3. CASE ~ ipc[c]
      <3>1. thread' = [thread EXCEPT ![c] = "free"]
        BY <1>12, <2>3 DEF DestroyBegin
      <3>2. c \notin Range(clients)
        BY <1>0, <2>3 DEF Listed
      <3> QED BY <2>1, <3>1, <3>2, ListsMove
    <2> QED BY <2>2, <2>3
  <1>13. ASSUME NEW c \in Clients, DestroyRemove(c) PROVE Lists'
    <2>0. /\ thread[c] = "remove"
          /\ UNCHANGED <<ipc_servers, emission, emitted, ipc, broadcasts>>
      BY <1>13 DEF DestroyRemove
    <2>1. CASE ipc[c]
      <3>1. /\ emission = Idle /\ clients' = RemoveFirst(clients, c)
            /\ thread' = [thread EXCEPT ![c] = "free"]
        BY <1>13, <2>1 DEF DestroyRemove
      <3>2. c \in Range(clients) /\ Distinct(clients) /\ clients \in Seq(Clients)
        BY <1>0, <2>0, <2>1 DEF Lists, Listed, TypeOK
      <3>3. Distinct(clients') /\ Range(clients') = Range(clients) \ {c}
        BY <3>1, <3>2, RemoveFirstValues
      <3>4. emission.rest = <<>> /\ Range(emission.rest) = {}
        BY <3>1 DEF Idle, Range
      <3>5. thread'[c] = "free" /\ \A d \in Clients : d # c => thread'[d] = thread[d]
        BY <1>0, <3>1 DEF TypeOK
      <3>6. ASSUME NEW d \in Clients PROVE Listed(d)'
        <4>1. Listed(d)
          BY <1>0
        <4>2. CASE d = c
          BY <2>0, <3>3, <3>5, <4>1, <4>2 DEF Listed
        <4>3. CASE d # c
          BY <2>0, <3>3, <3>5, <4>1, <4>3 DEF Listed
        <4> QED BY <4>2, <4>3
      <3> QED BY <1>0, <2>0, <3>1, <3>3, <3>4, <3>6 DEF Lists
    <2>2. CASE ~ ipc[c]
      <3>1. clients' = clients /\ thread' = thread
        BY <1>13, <2>2 DEF DestroyRemove
      <3>2. \A d \in Clients : Listed(d)'
        BY <1>0, <2>0, <3>1, ListedSame
      <3> QED BY <1>0, <2>0, <3>1, <3>2 DEF Lists
    <2> QED BY <2>1, <2>2
  <1>14. ASSUME NEW c \in Clients, DestroyFree(c) PROVE Lists'
    <2>1. /\ thread[c] = "free" /\ thread' = [thread EXCEPT ![c] = "dead"]
          /\ UNCHANGED <<clients, ipc_servers, emission, emitted, ipc>>
      BY <1>14 DEF DestroyFree
    <2>2. \A d \in Clients : d # c => broadcasts'[d] = broadcasts[d]
      BY <1>0, <1>14 DEF DestroyFree, TypeOK
    <2>3. c \notin Range(clients)
      BY <1>0, <2>1 DEF Listed
    <2> QED BY <2>1, <2>2, <2>3, ListsMove
  <1>15. ASSUME NEW c \in Clients, PeerClose(c) PROVE Lists'
    <2>1. UNCHANGED <<clients, ipc_servers, emission, emitted, ipc, broadcasts, thread>>
      BY <1>15 DEF PeerClose
    <2>2. \A d \in Clients : Listed(d)'
      BY <1>0, <2>1, ListedSame
    <2> QED BY <1>0, <2>1, <2>2 DEF Lists
  <1>16. ASSUME NEW c \in Clients, SourceAccept(c) PROVE Lists'
    <2>1. /\ thread[c] = "none" /\ ipc_servers /\ emission = Idle
          /\ clients' = Append(clients, c) /\ ipc' = [ipc EXCEPT ![c] = TRUE]
          /\ thread' = [thread EXCEPT ![c] = "loop"]
          /\ UNCHANGED <<ipc_servers, emission, emitted, broadcasts>>
      BY <1>16 DEF SourceAccept
    <2>2. c \notin Range(clients) /\ Distinct(clients) /\ clients \in Seq(Clients)
      BY <1>0, <2>1 DEF Lists, Listed, TypeOK
    <2>3. Distinct(clients') /\ Range(clients') = Range(clients) \cup {c}
      BY <2>1, <2>2, DistinctAppend
    <2>4. emission.rest = <<>> /\ Range(emission.rest) = {}
      BY <2>1 DEF Idle, Range
    <2>5. /\ thread'[c] = "loop" /\ ipc'[c]
          /\ \A d \in Clients : d # c => thread'[d] = thread[d] /\ ipc'[d] = ipc[d]
      BY <1>0, <2>1 DEF TypeOK
    <2>6. ASSUME NEW d \in Clients PROVE Listed(d)'
      <3>1. Listed(d)
        BY <1>0
      <3>2. CASE d = c
        BY <2>1, <2>3, <2>5, <3>1, <3>2 DEF Listed
      <3>3. CASE d # c
        BY <2>1, <2>3, <2>5, <3>1, <3>3 DEF Listed
      <3> QED BY <3>2, <3>3
    <2> QED BY <1>0, <2>1, <2>3, <2>4, <2>6 DEF Lists
  <1>17. ASSUME EmitVisit PROVE Lists'
    <2>1. /\ emission.rest # <<>> /\ emission' = [emission EXCEPT !.rest = Tail(@)]
          /\ UNCHANGED <<clients, ipc_servers, emitted, thread, ipc, broadcasts>>
      BY <1>17 DEF EmitVisit
    <2>2. emission.rest \in Seq(Clients) /\ Distinct(emission.rest)
      BY <1>0 DEF Lists, TypeOK
    <2>3. /\ emission'.rest = Tail(emission.rest) /\ emission'.by = emission.by
          /\ emission'.kind = emission.kind
      BY <1>0, <2>1 DEF TypeOK
    <2>4. /\ Distinct(Tail(emission.rest))
          /\ Range(Tail(emission.rest)) = Range(emission.rest) \ {Head(emission.rest)}
      BY <2>1, <2>2, DistinctTail
    <2>5. emission # Idle
      BY <2>1 DEF Idle
    <2>6. emission' # Idle
      <3>1. emission.kind = emitted[Len(emitted)] /\ Len(emitted) > 0
        BY <1>0, <2>5 DEF Lists
      <3>2. emitted[Len(emitted)] \in {"signal", "broadcast"}
        BY <1>0, <3>1 DEF TypeOK
      <3>3. Idle.kind = "none"
        BY DEF Idle
      <3> QED BY <2>3, <3>1, <3>2, <3>3
    <2>7. ASSUME NEW d \in Clients PROVE Listed(d)'
      <3>1. Listed(d)
        BY <1>0
      <3> QED BY <2>1, <2>3, <2>5, <2>6, <3>1 DEF Listed
    <2> QED BY <1>0, <2>1, <2>3, <2>4, <2>5, <2>7 DEF Lists
  <1>18. ASSUME EmitEnd PROVE Lists'
    <2>1. /\ emission # Idle /\ emission' = Idle
          /\ UNCHANGED <<clients, ipc_servers, emitted, ipc, broadcasts>>
          /\ IF emission.by \in Clients
             THEN thread' = [thread EXCEPT ![emission.by] = "reply"]
             ELSE thread' = thread
      BY <1>18 DEF EmitEnd
    <2>2. Distinct(emission'.rest) /\ Range(emission'.rest) = {}
      BY <2>1 DEF Idle, Distinct, Range
    <2>3. ASSUME NEW d \in Clients PROVE Listed(d)'
      <3>1. Listed(d)
        BY <1>0
      <3>2. CASE d = emission.by
        <4>1. thread[d] = "emit" /\ thread'[d] = "reply"
          BY <1>0, <2>1, <3>1, <3>2 DEF Listed, TypeOK
        <4> QED BY <2>1, <3>1, <4>1 DEF Listed
      <3>3. CASE d # emission.by
        <4>1. thread[d] # "emit" /\ thread'[d] = thread[d]
          BY <1>0, <2>1, <3>1, <3>3 DEF Listed, TypeOK
        <4> QED BY <2>1, <3>1, <4>1 DEF Listed
      <3> QED BY <3>2, <3>3
    <2> QED BY <1>0, <2>1, <2>2, <2>3 DEF Lists
  <1>19. ASSUME ServerEmits PROVE Lists'
    <2>1. PICK kind \in {"signal", "broadcast"} : EmitBegin("server", kind)
      BY <1>19 DEF ServerEmits
    <2>2. "server" \notin Clients
      BY IpcAssumption
    <2> QED BY <1>19, <2>1, <2>2, ListsBegin DEF ServerEmits
  <1>20. ASSUME Shutdown PROVE Lists'
    <2>1. /\ emission = Idle /\ ipc_servers' = FALSE /\ clients' = <<>>
          /\ ipc' = [c \in Clients |-> FALSE]
          /\ UNCHANGED <<emission, emitted, thread, broadcasts>>
      BY <1>20, Zenon DEF Shutdown
    <2>2. /\ Distinct(clients') /\ Range(clients') = {}
          /\ Distinct(emission'.rest) /\ Range(emission'.rest) = {}
      BY <2>1 DEF Idle, Distinct, Range
    <2>3. ASSUME NEW d \in Clients PROVE Listed(d)'
      <3>1. Listed(d) /\ ~ ipc'[d]
        BY <1>0, <2>1
      <3> QED BY <2>1, <2>2, <3>1 DEF Listed
    <2> QED BY <2>1, <2>2, <2>3 DEF Lists
  <1> QED BY <1>1, <1>2, <1>3, <1>4, <1>5, <1>6, <1>7, <1>8, <1>9, <1>10, <1>11,
             <1>12, <1>13, <1>14, <1>15, <1>16, <1>17, <1>18, <1>19, <1>20
          DEF Next, ClientThread, Emit

-----------------------------------------------------------------------------
(***************************************************************************)
(* What a step leaves alone                                                *)
(***************************************************************************)

LeavesAlone(d) ==
  /\ UNCHANGED <<thread[d], read_msg[d], ipc[d]>>
  /\ UNCHANGED <<out_msg[d], xfered[d], sources[d], partial[d], got[d]>>
  /\ UNCHANGED <<pendingsignals[d], broadcasts[d], since[d], asked[d], open[d]>>

\* A step of one client, or of its thread, is none of another's.
LEMMA OneClient ==
  ASSUME TypeOK, NEW c \in Clients, NEW d \in Clients, d # c,
         ClientThread(c) \/ PeerClose(c) \/ SourceAccept(c)
  PROVE  LeavesAlone(d)
  <1>0. /\ DOMAIN thread = Clients /\ DOMAIN read_msg = Clients /\ DOMAIN ipc = Clients
        /\ DOMAIN out_msg = Clients /\ DOMAIN xfered = Clients /\ DOMAIN sources = Clients
        /\ DOMAIN partial = Clients /\ DOMAIN got = Clients
        /\ DOMAIN pendingsignals = Clients /\ DOMAIN broadcasts = Clients
        /\ DOMAIN since = Clients /\ DOMAIN asked = Clients /\ DOMAIN open = Clients
    BY DEF TypeOK
  <1> USE DEF Goto, vars, serverVars, queueVars, registered, socketVars, peerVars
  <1>1. CASE WritePeek(c)
    BY <1>0, <1>1 DEF LeavesAlone, WritePeek
  <1>2. CASE WriteDone(c)
    BY <1>0, <1>2 DEF LeavesAlone, WriteDone
  <1>3. CASE WriteSome(c)
    <2>1. PICK n \in 1..Parts - xfered[c] : Transfer(c, Head(out_msg[c]), n)
      BY <1>3 DEF WriteSome
    <2>2. /\ UNCHANGED <<thread[d], xfered[d], partial[d], got[d]>>
      BY <1>0, <2>1 DEF Transfer
    <2> QED BY <1>3, <2>2 DEF LeavesAlone, WriteSome
  <1>4. CASE WriteNothing(c)
    BY <1>0, <1>4 DEF LeavesAlone, WriteNothing
  <1>5. CASE WriteFails(c)
    BY <1>0, <1>5 DEF LeavesAlone, WriteFails
  <1>6. CASE WritePop(c)
    BY <1>0, <1>6 DEF LeavesAlone, WritePop
  <1>7. CASE ReadRequest(c)
    BY <1>0, <1>7 DEF LeavesAlone, ReadRequest, RegisterSignal, RegisterBroadcast,
                      BeginCommand
  <1>8. CASE ReadEnd(c)
    BY <1>0, <1>8 DEF LeavesAlone, ReadEnd
  <1>9. CASE CommandEmits(c)
    BY <1>0, <1>9 DEF LeavesAlone, CommandEmits
  <1>10. CASE CommandReads(c)
    BY <1>0, <1>10 DEF LeavesAlone, CommandReads
  <1>11. CASE Reply(c)
    BY <1>0, <1>11 DEF LeavesAlone, Reply, ClientMsgWrite
  <1>12. CASE DestroyBegin(c)
    BY <1>0, <1>12 DEF LeavesAlone, DestroyBegin
  <1>13. CASE DestroyRemove(c)
    BY <1>0, <1>13 DEF LeavesAlone, DestroyRemove
  <1>14. CASE DestroyFree(c)
    BY <1>0, <1>14 DEF LeavesAlone, DestroyFree
  <1>15. CASE PeerClose(c)
    BY <1>0, <1>15 DEF LeavesAlone, PeerClose
  <1>16. CASE SourceAccept(c)
    BY <1>0, <1>16 DEF LeavesAlone, SourceAccept
  <1> QED BY <1>1, <1>2, <1>3, <1>4, <1>5, <1>6, <1>7, <1>8, <1>9, <1>10, <1>11,
             <1>12, <1>13, <1>14, <1>15, <1>16
          DEF ClientThread

LEMMA OneVisit ==
  ASSUME IInv, EmitVisit, NEW d \in Clients, d # Head(emission.rest)
  PROVE  LeavesAlone(d)
  <1> DEFINE c == Head(emission.rest)
  <1>1. /\ c \in Clients
        /\ out_msg' = [out_msg EXCEPT ![c] = @ \o VisitFor(c)]
        /\ sources' = IF out_msg[c] = <<>> /\ VisitFor(c) # <<>>
                      THEN [sources EXCEPT ![c] = @ + 1] ELSE sources
        /\ pendingsignals' = IF emission.kind = "signal"
                             THEN [pendingsignals EXCEPT ![c] = 0] ELSE pendingsignals
        /\ d # c
    BY VisitEffect
  <1>2. UNCHANGED <<thread, read_msg, ipc, xfered, registered, socketVars, peerVars>>
    BY DEF EmitVisit
  <1>3. /\ out_msg \in [Clients -> Seq(Message)] /\ sources \in [Clients -> Nat]
        /\ pendingsignals \in [Clients -> Nat]
    BY Zenon DEF IInv, TypeOK
  <1> HIDE DEF c
  <1>4. UNCHANGED <<out_msg[d], sources[d], pendingsignals[d]>>
    BY <1>1, <1>3
  <1> QED BY <1>2, <1>4 DEF LeavesAlone, registered, socketVars, peerVars

-----------------------------------------------------------------------------
(***************************************************************************)
(* Writing                                                                 *)
(***************************************************************************)

LEMMA WritingSame ==
  ASSUME NEW d \in Clients, Writing(d),
         UNCHANGED <<thread[d], sources[d], xfered[d], out_msg[d], partial[d], got[d],
                     open[d]>>
  PROVE  Writing(d)'
  BY Zenon DEF Writing

\* The thread goes on outside the write callback.
LEMMA WritingGo ==
  ASSUME NEW c \in Clients, Writing(c),
         UNCHANGED <<sources[c], xfered[c], out_msg[c], partial[c], got[c], open[c]>>,
         thread[c] \notin {"none", "pop", "done", "dead"},
         thread'[c] \notin {"none", "peek", "send", "pop", "done", "dead"},
         thread'[c] \in {"quit", "remove", "free"} => ~ open[c]
  PROVE  Writing(c)'
  BY DEF Writing

\* Messages are queued.
LEMMA WritingMore ==
  ASSUME IInv, NEW c \in Clients, thread[c] \notin {"none", "dead"},
         NEW msgs \in Seq(Message), out_msg'[c] = out_msg[c] \o msgs,
         sources'[c] = IF out_msg[c] = <<>> /\ msgs # <<>> THEN sources[c] + 1
                                                          ELSE sources[c],
         UNCHANGED <<xfered[c], partial[c], got[c], open[c]>>,
         thread'[c] = thread[c] \/ (thread[c] = "reply" /\ thread'[c] = "read")
  PROVE  Writing(c)'
  <1>1. Writing(c) /\ sources[c] \in Nat /\ out_msg[c] \in Seq(Message)
        /\ xfered[c] \in 0..Parts
    BY DEF IInv, TypeOK
  <1>2. /\ out_msg[c] \o msgs # <<>> <=> out_msg[c] # <<>> \/ msgs # <<>>
        /\ out_msg[c] # <<>> => Head(out_msg[c] \o msgs) = Head(out_msg[c])
    BY <1>1
  <1>3. sources'[c] >= sources[c] /\ sources'[c] \in Nat
    BY <1>1
  <1>4. partial'[c] = IF open'[c] /\ xfered'[c] = 1 THEN <<Head(out_msg'[c])>> ELSE <<>>
    <2>1. xfered[c] = 1 => out_msg[c] # <<>>
      BY <1>1 DEF Writing
    <2> QED BY <1>1, <1>2, <2>1, Zenon DEF Writing
  <1>5. open'[c] /\ out_msg'[c] # <<>> =>
          sources'[c] > IF thread'[c] = "done" THEN 1 ELSE 0
    BY <1>1, <1>2, <1>3 DEF Writing
  <1>6. thread'[c] \in {"peek", "send", "pop", "done"} => sources'[c] > 0
    BY <1>1, <1>3 DEF Writing
  <1>7. thread'[c] = "send" \/ xfered'[c] > 0 => out_msg'[c] # <<>>
    BY <1>1, <1>2 DEF Writing
  <1>8. /\ thread'[c] = "pop" <=> xfered'[c] = Parts
        /\ thread'[c] \notin {"none", "dead"}
        /\ thread'[c] \in {"quit", "remove", "free", "dead"} => ~open'[c]
        /\ ~open'[c] => got'[c] = <<>>
    BY <1>1 DEF Writing
  <1> QED BY <1>4, <1>5, <1>6, <1>7, <1>8 DEF Writing

LEMMA WritingStep == IInv /\ Next => \A d \in Clients : Writing(d)'
  <1> SUFFICES ASSUME IInv, Next PROVE \A d \in Clients : Writing(d)'
    OBVIOUS
  <1>0. TypeOK /\ Lists /\ (\A c \in Clients : Writing(c)) /\ (\A c \in Clients : Listed(c))
    BY DEF IInv, Lists
  <1>a. /\ DOMAIN thread = Clients
        /\ DOMAIN out_msg = Clients /\ DOMAIN xfered = Clients /\ DOMAIN sources = Clients
        /\ DOMAIN partial = Clients /\ DOMAIN got = Clients /\ DOMAIN open = Clients
        /\ \A c \in Clients : sources[c] \in Nat /\ xfered[c] \in 0..Parts
                              /\ out_msg[c] \in Seq(Message) /\ open[c] \in BOOLEAN
    BY <1>0 DEF TypeOK
  <1>b. Parts = 2
    BY DEF Parts
  <1> USE DEF Goto, vars, serverVars, queueVars, registered, socketVars, peerVars
  <1>c. ASSUME NEW c \in Clients, ClientThread(c) \/ PeerClose(c) \/ SourceAccept(c),
               Writing(c)'
        PROVE  \A d \in Clients : Writing(d)'
    <2> SUFFICES ASSUME NEW d \in Clients, d # c PROVE Writing(d)'
      BY <1>c
    <2>1. LeavesAlone(d)
      BY <1>0, <1>c, OneClient
    <2> QED BY <1>0, <2>1, WritingSame DEF LeavesAlone
  <1>d. ASSUME NEW c \in Clients,
               UNCHANGED <<sources, xfered, out_msg, partial, got, open>>,
               thread[c] \notin {"none", "pop", "done", "dead"},
               NEW at, thread' = [thread EXCEPT ![c] = at],
               at \notin {"none", "peek", "send", "pop", "done", "dead"},
               at \in {"quit", "remove", "free"} => ~ open[c]
        PROVE  Writing(c)'
    <2>1. thread'[c] = at
      BY <1>a, <1>d
    <2> QED BY <1>0, <1>d, <2>1, WritingGo
  <1>1. ASSUME NEW c \in Clients, WritePeek(c) PROVE \A d \in Clients : Writing(d)'
    <2>1. /\ UNCHANGED <<sources, xfered, out_msg, partial, got, open>>
          /\ (thread[c] = "loop" /\ sources[c] > 0) \/ thread[c] = "peek"
          /\ thread'[c] = IF out_msg[c] = <<>> THEN "done" ELSE "send"
      BY <1>a, <1>1 DEF WritePeek
    <2>2. Writing(c)'
      BY <1>0, <1>a, <2>1 DEF Writing
    <2> QED BY <1>1, <1>c, <2>2 DEF ClientThread
  <1>2. ASSUME NEW c \in Clients, WriteDone(c) PROVE \A d \in Clients : Writing(d)'
    <2>1. /\ UNCHANGED <<xfered, out_msg, partial, got, open>>
          /\ thread[c] = "done" /\ thread'[c] = "loop" /\ sources'[c] = sources[c] - 1
      BY <1>a, <1>2 DEF WriteDone
    <2>2. Writing(c)'
      BY <1>0, <1>a, <2>1 DEF Writing
    <2> QED BY <1>2, <1>c, <2>2 DEF ClientThread
  <1>3. ASSUME NEW c \in Clients, WriteSome(c) PROVE \A d \in Clients : Writing(d)'
    <2>0. /\ UNCHANGED <<sources, out_msg, open>>
          /\ thread[c] = "send" /\ out_msg[c] # <<>> /\ open[c]
      BY <1>3, SendEffect DEF WriteSome
    <2>1. ASSUME xfered' = [xfered EXCEPT ![c] = 1],
                 partial' = [partial EXCEPT ![c] = <<Head(out_msg[c])>>],
                 got' = got,
                 thread' = [thread EXCEPT ![c] = "loop"]
          PROVE  Writing(c)'
      <3>1. /\ xfered'[c] = 1 /\ partial'[c] = <<Head(out_msg[c])>> /\ thread'[c] = "loop"
        BY <1>a, <2>1
      <3> QED BY <1>0, <1>a, <1>b, <2>0, <3>1 DEF Writing
    <2>2. ASSUME xfered' = [xfered EXCEPT ![c] = Parts],
                 partial' = [partial EXCEPT ![c] = <<>>],
                 got' = [got EXCEPT ![c] = Append(@, Head(out_msg[c]))],
                 thread' = [thread EXCEPT ![c] = "pop"]
          PROVE  Writing(c)'
      <3>1. /\ xfered'[c] = Parts /\ partial'[c] = <<>> /\ thread'[c] = "pop"
        BY <1>a, <2>2
      <3> QED BY <1>0, <1>a, <1>b, <2>0, <3>1 DEF Writing
    <2>3. Writing(c)'
      BY <1>3, <2>1, <2>2, SendEffect
    <2> QED BY <1>3, <1>c, <2>3 DEF ClientThread
  <1>4. ASSUME NEW c \in Clients, WriteNothing(c) PROVE \A d \in Clients : Writing(d)'
    BY <1>4, <1>c, <1>d DEF WriteNothing, ClientThread
  <1>5. ASSUME NEW c \in Clients, WriteFails(c) PROVE \A d \in Clients : Writing(d)'
    <2>1. /\ UNCHANGED <<sources, xfered, out_msg, partial, got, open>>
          /\ thread[c] = "send" /\ thread'[c] = "done" /\ ~ open[c]
      BY <1>a, <1>5 DEF WriteFails
    <2>2. Writing(c)'
      BY <1>0, <1>a, <2>1 DEF Writing
    <2> QED BY <1>5, <1>c, <2>2 DEF ClientThread
  <1>6. ASSUME NEW c \in Clients, WritePop(c) PROVE \A d \in Clients : Writing(d)'
    <2>1. /\ UNCHANGED <<sources, partial, got, open>>
          /\ thread[c] = "pop" /\ thread'[c] = "peek" /\ xfered'[c] = 0
          /\ out_msg'[c] = Tail(out_msg[c])
      BY <1>a, <1>6 DEF WritePop
    <2>2. Writing(c)'
      BY <1>0, <1>a, <1>b, <2>1 DEF Writing
    <2> QED BY <1>6, <1>c, <2>2 DEF ClientThread
  <1>7. ASSUME NEW c \in Clients, ReadRequest(c) PROVE \A d \in Clients : Writing(d)'
    <2>1. /\ UNCHANGED <<sources, xfered, out_msg, partial, got, open>>
          /\ thread[c] \in {"loop", "read"}
      BY <1>7 DEF ReadRequest
    <2>2. \/ thread' = [thread EXCEPT ![c] = "read"]
          \/ thread' = [thread EXCEPT ![c] = "command"]
      BY <1>7, Zenon DEF ReadRequest, RegisterSignal, RegisterBroadcast, BeginCommand
    <2>3. Writing(c)'
      BY <1>d, <2>1, <2>2
    <2> QED BY <1>7, <1>c, <2>3 DEF ClientThread
  <1>8. ASSUME NEW c \in Clients, ReadEnd(c) PROVE \A d \in Clients : Writing(d)'
    <2>1. /\ UNCHANGED <<sources, xfered, out_msg, partial, got, open>>
          /\ thread[c] \in {"loop", "read"}
          /\ \/ thread' = [thread EXCEPT ![c] = "loop"]
             \/ thread' = [thread EXCEPT ![c] = "quit"] /\ ~ open[c]
      BY <1>8 DEF ReadEnd
    <2>2. Writing(c)'
      BY <1>d, <2>1
    <2> QED BY <1>8, <1>c, <2>2 DEF ClientThread
  <1>9. ASSUME NEW c \in Clients, CommandEmits(c) PROVE \A d \in Clients : Writing(d)'
    BY <1>9, <1>c, <1>d DEF CommandEmits, ClientThread
  <1>10. ASSUME NEW c \in Clients, CommandReads(c) PROVE \A d \in Clients : Writing(d)'
    BY <1>10, <1>c, <1>d DEF CommandReads, ClientThread
  <1>11. ASSUME NEW c \in Clients, Reply(c) PROVE \A d \in Clients : Writing(d)'
    <2> DEFINE e == [kind |-> "reply", cookie |-> read_msg[c].cookie,
                     val |-> read_msg[c].val]
    <2>1. e \in Message /\ <<e>> # <<>>
      BY <1>11, ReplyType DEF Reply
    <2>2. /\ out_msg' = [out_msg EXCEPT ![c] = @ \o <<e>>]
          /\ sources' = IF out_msg[c] = <<>> /\ <<e>> # <<>>
                        THEN [sources EXCEPT ![c] = @ + 1] ELSE sources
          /\ thread[c] = "reply" /\ thread' = [thread EXCEPT ![c] = "read"]
          /\ UNCHANGED <<xfered, partial, got, open>>
      BY <1>11 DEF Reply, ClientMsgWrite
    <2> HIDE DEF e
    <2>3. /\ <<e>> \in Seq(Message) /\ out_msg'[c] = out_msg[c] \o <<e>>
          /\ sources'[c] = IF out_msg[c] = <<>> /\ <<e>> # <<>> THEN sources[c] + 1
                                                               ELSE sources[c]
          /\ thread'[c] = "read"
      BY <1>a, <2>1, <2>2
    <2>4. Writing(c)'
      BY <2>2, <2>3, WritingMore
    <2> QED BY <1>11, <1>c, <2>4 DEF ClientThread
  <1>12. ASSUME NEW c \in Clients, DestroyBegin(c) PROVE \A d \in Clients : Writing(d)'
    <2>1. /\ UNCHANGED <<sources, xfered, out_msg, partial, got, open>>
          /\ thread[c] = "quit" /\ ~ open[c]
          /\ \/ thread' = [thread EXCEPT ![c] = "remove"]
             \/ thread' = [thread EXCEPT ![c] = "free"]
      BY <1>0, <1>12 DEF DestroyBegin, Writing
    <2>2. Writing(c)'
      BY <1>d, <2>1
    <2> QED BY <1>12, <1>c, <2>2 DEF ClientThread
  <1>13. ASSUME NEW c \in Clients, DestroyRemove(c) PROVE \A d \in Clients : Writing(d)'
    <2>1. /\ UNCHANGED <<sources, xfered, out_msg, partial, got, open>>
          /\ thread[c] = "remove" /\ ~ open[c]
      <3>1. /\ UNCHANGED <<sources, xfered, out_msg, partial, got, open>>
            /\ thread[c] = "remove"
        BY <1>13, Zenon DEF DestroyRemove
      <3> QED BY <1>0, <3>1 DEF Writing
    <2>2. ASSUME thread' = [thread EXCEPT ![c] = "free"] PROVE Writing(c)'
      BY <1>d, <2>1, <2>2
    <2>3. ASSUME thread' = thread PROVE Writing(c)'
      BY <1>0, <2>1, <2>3, WritingSame
    <2>4. Writing(c)'
      BY <1>13, <2>2, <2>3, Zenon DEF DestroyRemove
    <2> QED BY <1>13, <1>c, <2>4 DEF ClientThread
  <1>14. ASSUME NEW c \in Clients, DestroyFree(c) PROVE \A d \in Clients : Writing(d)'
    <2>1. /\ UNCHANGED <<partial, got, open>> /\ ~ open[c]
          /\ thread[c] = "free" /\ thread'[c] = "dead" /\ out_msg'[c] = <<>>
          /\ xfered'[c] = 0 /\ sources'[c] = 0
      BY <1>0, <1>a, <1>14 DEF DestroyFree, Writing
    <2>2. Writing(c)'
      BY <1>0, <1>a, <1>b, <2>1 DEF Writing
    <2> QED BY <1>14, <1>c, <2>2 DEF ClientThread
  <1>15. ASSUME NEW c \in Clients, PeerClose(c) PROVE \A d \in Clients : Writing(d)'
    <2>1. /\ UNCHANGED <<sources, xfered, out_msg, thread>> /\ ~ open'[c]
          /\ got'[c] = <<>> /\ partial'[c] = <<>>
      BY <1>a, <1>15 DEF PeerClose
    <2>2. Writing(c)'
      BY <1>0, <2>1 DEF Writing
    <2> QED BY <1>15, <1>c, <2>2
  <1>16. ASSUME NEW c \in Clients, SourceAccept(c) PROVE \A d \in Clients : Writing(d)'
    <2>1. /\ UNCHANGED <<sources, xfered, out_msg, partial, got, open>>
          /\ thread[c] = "none" /\ thread'[c] = "loop"
      BY <1>a, <1>16 DEF SourceAccept
    <2>2. Writing(c)'
      BY <1>0, <2>1 DEF Writing
    <2> QED BY <1>16, <1>c, <2>2
  <1>17. ASSUME EmitVisit PROVE \A d \in Clients : Writing(d)'
    <2>1. PICK c \in Clients : c = Head(emission.rest)
      BY <1>17, VisitEffect
    <2>2. /\ emission.rest # <<>>
          /\ out_msg' = [out_msg EXCEPT ![c] = @ \o VisitFor(c)]
          /\ sources' = IF out_msg[c] = <<>> /\ VisitFor(c) # <<>>
                        THEN [sources EXCEPT ![c] = @ + 1] ELSE sources
      BY <1>17, <2>1, VisitEffect
    <2>3. VisitFor(c) \in Seq(Message)
      BY VisitTypes
    <2>4. thread[c] \notin {"none", "dead"}
      <3>1. emission.rest \in Seq(Clients)
        BY <1>0 DEF TypeOK
      <3>2. c \in Range(emission.rest)
        BY <2>1, <2>2, <3>1 DEF Range
      <3> QED BY <1>0, <3>2 DEF Lists, Listed
    <2>5. UNCHANGED <<thread, xfered, partial, got, open>>
      BY <1>17 DEF EmitVisit
    <2>6. /\ out_msg'[c] = out_msg[c] \o VisitFor(c)
          /\ sources'[c] = IF out_msg[c] = <<>> /\ VisitFor(c) # <<>>
                           THEN sources[c] + 1 ELSE sources[c]
      BY <1>a, <2>2
    <2>7. Writing(c)'
      <3>1. PICK msgs \in Seq(Message) : msgs = VisitFor(c)
        BY <2>3
      <3>2. /\ msgs \in Seq(Message) /\ out_msg'[c] = out_msg[c] \o msgs
            /\ sources'[c] = IF out_msg[c] = <<>> /\ msgs # <<>> THEN sources[c] + 1
                                                                ELSE sources[c]
        BY <2>6, <3>1
      <3>3. /\ UNCHANGED <<xfered[c], partial[c], got[c], open[c]>>
            /\ thread'[c] = thread[c] /\ c \in Clients
        BY <2>1, <2>5
      <3> QED BY <2>4, <3>2, <3>3, WritingMore
    <2>8. ASSUME NEW d \in Clients, d # c PROVE Writing(d)'
      BY <1>0, <1>17, <2>1, <2>8, OneVisit, WritingSame DEF LeavesAlone
    <2> QED BY <2>7, <2>8
  <1>18. ASSUME EmitEnd PROVE \A d \in Clients : Writing(d)'
    <2> SUFFICES ASSUME NEW d \in Clients PROVE Writing(d)'
      OBVIOUS
    <2>1. UNCHANGED <<sources, xfered, out_msg, partial, got, open>>
      BY <1>18 DEF EmitEnd
    <2>2. CASE d = emission.by
      <3>1. /\ emission # Idle /\ thread' = [thread EXCEPT ![d] = "reply"]
        BY <1>18, <2>2, Zenon DEF EmitEnd
      <3>2. thread[d] = "emit"
        BY <1>0, <2>2, <3>1, Zenon DEF Listed
      <3> QED BY <1>d, <2>1, <3>1, <3>2
    <2>3. CASE d # emission.by
      <3>1. thread'[d] = thread[d]
        BY <1>a, <1>18, <2>3 DEF EmitEnd
      <3> QED BY <1>0, <2>1, <3>1, WritingSame
    <2> QED BY <2>2, <2>3
  <1>19. ASSUME ServerEmits PROVE \A d \in Clients : Writing(d)'
    BY <1>0, <1>19, WritingSame DEF ServerEmits
  <1>20. ASSUME Shutdown PROVE \A d \in Clients : Writing(d)'
    BY <1>0, <1>20, WritingSame DEF Shutdown
  <1> QED BY <1>1, <1>2, <1>3, <1>4, <1>5, <1>6, <1>7, <1>8, <1>9, <1>10, <1>11,
             <1>12, <1>13, <1>14, <1>15, <1>16, <1>17, <1>18, <1>19, <1>20
          DEF Next, ClientThread, Emit

-----------------------------------------------------------------------------
(***************************************************************************)
(* Cookies, values and what was told                                       *)
(***************************************************************************)

LEMMA DropFront ==
  ASSUME NEW S, NEW s \in Seq(S), NEW t \in Seq(S)
  PROVE  /\ Len(s) \in 0..Len(s \o t)
         /\ SubSeq(s \o t, Len(s) + 1, Len(s \o t)) = t
  <1> DEFINE a == s \o t
             r == SubSeq(a, Len(s) + 1, Len(a))
  <1>1. /\ a \in Seq(S) /\ Len(a) = Len(s) + Len(t) /\ Len(s) \in Nat /\ Len(t) \in Nat
        /\ \A i \in 1..Len(s) + Len(t) :
             a[i] = IF i <= Len(s) THEN s[i] ELSE t[i - Len(s)]
    BY ConcatValues
  <1>2. Len(s) \in 0..Len(a)
    BY <1>1
  <1>3. /\ r \in Seq(S) /\ DOMAIN r = 1..Len(a) - Len(s)
        /\ \A i \in 1..Len(a) - Len(s) : r[i] = a[Len(s) + i]
    BY <1>1, <1>2, RestValues
  <1> HIDE DEF a, r
  <1>4. Len(r) = Len(t)
    BY <1>1, <1>3
  <1>5. ASSUME NEW i \in 1..Len(r) PROVE r[i] = t[i]
    <2>1. /\ i \in 1..Len(a) - Len(s) /\ Len(s) + i \in 1..Len(s) + Len(t)
          /\ ~ (Len(s) + i <= Len(s)) /\ Len(s) + i - Len(s) = i
      BY <1>1, <1>3, <1>4
    <2>2. r[i] = a[Len(s) + i]
      BY <1>3, <2>1, Zenon
    <2>3. a[Len(s) + i] = IF Len(s) + i <= Len(s) THEN s[Len(s) + i]
                          ELSE t[Len(s) + i - Len(s)]
      BY <1>1, <2>1
    <2> QED BY <2>1, <2>2, <2>3, Zenon
  <1>6. r = t
    BY <1>3, <1>4, <1>5, SeqEqual
  <1> QED BY <1>2, <1>6 DEF a, r

LEMMA ValuesEnd ==
  ASSUME NEW q \in Seq(Message), NEW cur \in Nat, NEW v \in Nat, NEW at,
         ValuesOf(q, cur, at, v),
         NEW at2, at2 = at \/ (at = "emit" /\ at2 = "reply"), at2 # "emit"
  PROVE  ValuesOf(q, cur + 1, at2, v)
  <1>1. ASSUME NEW i \in DOMAIN q, q[i].kind = "reply" PROVE q[i].val < cur + 1
    <2>1. q[i].val \in Nat
      BY MessageFields
    <2>2. q[i].val < cur
      BY <1>1, Zenon DEF ValuesOf
    <2> QED BY <2>1, <2>2
  <1>2. /\ at2 = "command" => v = 0
        /\ at2 = "reply" => v < cur + 1
    BY DEF ValuesOf
  <1>3. \A i, j \in DOMAIN q :
          i < j /\ q[i].kind = "reply" /\ q[j].kind = "broadcast" =>
            q[j].val # q[i].val
    BY Zenon DEF ValuesOf
  <1> QED BY <1>1, <1>2, <1>3, Zenon DEF ValuesOf

LEMMA CurrentType ==
  ASSUME IInv
  PROVE  Current \in Nat /\ Current > 0 /\ Len(emitted) \in Nat
  <1>1. emitted \in Seq({"signal", "broadcast"})
    BY Zenon DEF IInv, TypeOK
  <1>2. emission # Idle => Len(emitted) > 0
    BY Zenon DEF IInv, Lists
  <1> QED BY <1>1, <1>2 DEF Current

\* What a step that queues nothing for a client keeps.
LEMMA QuietAlone ==
  ASSUME IInv, NEW d \in Clients, LeavesAlone(d), UNCHANGED <<emission, emitted>>
  PROVE  Cookies(d)' /\ Values(d)' /\ Told(d)'
  BY QueuedSame, Quiet DEF LeavesAlone

\* An emission begins: the clients of the list wait for it.
LEMMA GoodBegin ==
  ASSUME IInv, NEW t \in Clients \cup {"server"}, NEW kind \in {"signal", "broadcast"},
         EmitBegin(t, kind), NEW d \in Clients, Queued(d)' = Queued(d),
         asked'[d] = asked[d], broadcasts'[d] = broadcasts[d], since'[d] = since[d],
         pendingsignals'[d] = pendingsignals[d], ipc'[d] = ipc[d], open'[d] = open[d],
         \/ read_msg'[d] = read_msg[d] /\ thread'[d] = thread[d]
         \/ /\ read_msg'[d].cookie = read_msg[d].cookie
            /\ read_msg'[d].val = Len(emitted')
            /\ thread[d] = "command" /\ thread'[d] = "emit"
  PROVE  Cookies(d)' /\ Values(d)' /\ Told(d)'
  <1>0. TypeOK /\ Lists /\ Listed(d) /\ Writing(d) /\ Cookies(d) /\ Values(d) /\ Told(d)
    BY DEF IInv, Lists
  <1>1. /\ Len(emitted') \in Nat /\ Len(emitted') = Len(emitted) + 1
        /\ emission' = [by |-> t, kind |-> kind,
                        rest |-> IF ipc_servers THEN clients ELSE <<>>]
        /\ emission = Idle /\ emission' # Idle
        /\ \A n \in 1..Len(emitted) : emitted'[n] = emitted[n]
    BY <1>0, BeginType, Zenon
  <1>2. Len(emitted) \in Nat
    BY <1>0, ClientTypes
  <1>3. Current' = Current /\ Current = Len(emitted') /\ Waits(d)
    BY <1>1 DEF Current, Waits
  <1>4. Cookies(d)'
    <2>1. CookiesOf(Queued(d), asked[d], Range(broadcasts[d]),
                    pendingsignals[d], thread'[d], read_msg[d].cookie)
      BY <1>0, CookiesAt, Zenon DEF Cookies, Busy
    <2> QED BY <2>1, Zenon DEF Cookies
  <1>5. Values(d)'
    <2>1. CASE read_msg'[d] = read_msg[d] /\ thread'[d] = thread[d]
      BY <1>0, <1>3, <2>1, Zenon DEF Values
    <2>2. CASE read_msg'[d].val = Len(emitted') /\ thread'[d] = "emit"
      <3>1. ValuesOf(Queued(d), Current, "emit", Current)
        BY <1>0, Zenon DEF Values, ValuesOf
      <3> QED BY <1>3, <2>2, <3>1, Zenon DEF Values
    <2> QED BY <2>1, <2>2
  <1>6. Told(d)'
    <2>1. ASSUME ipc[d], open[d] PROVE BroadcastPast(d)' \subseteq BroadcastPast(d)
      <3>1. ipc_servers /\ d \in Range(clients)
        BY <1>0, <2>1 DEF Listed, Writing
      <3>2. emission'.rest = clients
        BY <1>1, <3>1
      <3>3. \E i \in DOMAIN emission'.rest : emission'.rest[i] = d
        BY <3>1, <3>2, Zenon DEF Range
      <3>4. ASSUME NEW n \in BroadcastPast(d)' PROVE n \in BroadcastPast(d)
        <4>1. n \in 1..Len(emitted') /\ emitted'[n] = "broadcast" /\ n # Len(emitted')
          BY <1>1, <3>3, <3>4, Zenon DEF BroadcastPast
        <4>2. n \in 1..Len(emitted)
          BY <1>1, <1>2, <4>1
        <4> QED BY <1>1, <4>1, <4>2, Zenon DEF BroadcastPast
      <3> QED BY <3>4
    <2>2. ASSUME ipc[d], open[d]
          PROVE  Complete(Queued(d), broadcasts[d], since[d], BroadcastPast(d)')
      <3>1. Complete(Queued(d), broadcasts[d], since[d], BroadcastPast(d))
        BY <1>0, <2>2, Zenon DEF Told
      <3>2. BroadcastPast(d)' \subseteq BroadcastPast(d)
        BY <2>1, <2>2
      <3> QED BY <3>1, <3>2, Zenon DEF Complete
    <2> QED BY <1>0, <1>3, <2>2, Zenon DEF Told
  <1> QED BY <1>4, <1>5, <1>6

\* An emission ends: everything emitted is behind every client.
LEMMA GoodEnd ==
  ASSUME IInv, EmitEnd, NEW d \in Clients
  PROVE  Cookies(d)' /\ Values(d)' /\ Told(d)'
  <1>0. /\ TypeOK /\ Lists /\ Listed(d) /\ Cookies(d) /\ Values(d) /\ Told(d)
        /\ Queued(d) \in Seq(Message) /\ read_msg[d].val \in Nat
    BY QueueTypes, ClientTypes DEF IInv, Lists
  <1>1. /\ emission # Idle /\ emission.rest = <<>> /\ emission' = Idle
        /\ UNCHANGED <<emitted, read_msg, ipc, xfered, pendingsignals, out_msg,
                       broadcasts, since, got, asked, open>>
        /\ IF emission.by \in Clients
           THEN thread' = [thread EXCEPT ![emission.by] = "reply"]
           ELSE thread' = thread
    BY DEF EmitEnd, queueVars, registered, socketVars, peerVars, Goto
  <1>2. Current \in Nat /\ Current' = Current + 1 /\ Queued(d)' = Queued(d)
    <2>1. Len(emitted) \in Nat
      BY <1>0, ClientTypes
    <2>2. Current = Len(emitted) /\ Current' = Len(emitted) + 1
      BY <1>1, Zenon DEF Current
    <2>3. Queued(d)' = Queued(d)
      BY <1>1, QueuedSame
    <2> QED BY <2>1, <2>2, <2>3
  <1>3. /\ thread'[d] = thread[d] \/ (thread[d] = "emit" /\ thread'[d] = "reply")
        /\ thread'[d] # "emit"
    <2>1. DOMAIN thread = Clients
      BY <1>0 DEF TypeOK
    <2>2. thread[d] = "emit" <=> emission.by = d
      BY <1>0, <1>1, Zenon DEF Listed
    <2> QED BY <1>1, <2>1, <2>2
  <1>4. Cookies(d)'
    <2>1. CookiesOf(Queued(d), asked[d], Range(broadcasts[d]),
                    pendingsignals[d], thread'[d], read_msg[d].cookie)
      BY <1>0, <1>3, CookiesAt, Zenon DEF Cookies, Busy
    <2> QED BY <1>1, <1>2, <2>1, Zenon DEF Cookies
  <1>5. Values(d)'
    <2>1. ValuesOf(Queued(d), Current + 1, thread'[d], read_msg[d].val)
      BY <1>0, <1>2, <1>3, ValuesEnd, Zenon DEF Values
    <2> QED BY <1>1, <1>2, <2>1, Zenon DEF Values
  <1>6. Told(d)'
    <2>1. /\ ToldOf(Queued(d), Current + 1, broadcasts[d], since[d])
          /\ NotYet(Queued(d), Current + 1)
      BY <1>0, <1>2, ToldEnd, Zenon DEF Told
    <2>2. BroadcastPast(d)' = BroadcastPast(d)
      BY <1>1 DEF BroadcastPast
    <2> QED BY <1>0, <1>1, <1>2, <2>1, <2>2, Zenon DEF Told
  <1> QED BY <1>4, <1>5, <1>6

\* The emission loop comes to a client: it queues what the client registered
\* for, and has now told it everything.
LEMMA GoodVisit ==
  ASSUME IInv, EmitVisit, NEW d \in Clients
  PROVE  Cookies(d)' /\ Values(d)' /\ Told(d)'
  <1>0. /\ TypeOK /\ Lists /\ Cookies(d) /\ Values(d) /\ Told(d)
        /\ Queued(d) \in Seq(Message)
        /\ pendingsignals[d] \in Nat /\ broadcasts[d] \in Seq(Nat) /\ asked[d] \in Nat
        /\ emission.rest \in Seq(Clients) /\ Len(emitted) \in Nat /\ Current \in Nat
    <2>1. TypeOK /\ Lists /\ Cookies(d) /\ Values(d) /\ Told(d)
      BY Zenon DEF IInv
    <2>2. /\ pendingsignals[d] \in Nat /\ broadcasts[d] \in Seq(Nat) /\ asked[d] \in Nat
          /\ emission.rest \in Seq(Clients) /\ Len(emitted) \in Nat
      BY <2>1, ClientTypes
    <2>3. Queued(d) \in Seq(Message) /\ Current \in Nat
      BY QueueTypes, CurrentType
    <2> QED BY <2>1, <2>2, <2>3
  <1>1. /\ emission.rest # <<>> /\ emission' = [emission EXCEPT !.rest = Tail(@)]
        /\ UNCHANGED <<emitted, thread, read_msg, ipc, xfered, broadcasts, since,
                       got, asked, open>>
    BY DEF EmitVisit, registered, socketVars, peerVars
  <1>2. /\ emission'.rest = Tail(emission.rest) /\ emission'.by = emission.by
        /\ emission'.kind = emission.kind
    BY <1>0, <1>1 DEF TypeOK
  <1>3. emission # Idle /\ emission' # Idle
        /\ emission.kind = emitted[Len(emitted)] /\ Len(emitted) > 0
        /\ emission.kind \in {"signal", "broadcast"}
    <2>1. emission # Idle
      BY <1>1 DEF Idle
    <2>2. emission.kind = emitted[Len(emitted)] /\ Len(emitted) > 0
      BY <1>0, <2>1 DEF Lists
    <2>3. emission.kind \in {"signal", "broadcast"}
      BY <1>0, <2>2 DEF TypeOK
    <2>4. Idle.kind = "none"
      BY DEF Idle
    <2>5. emission' # Idle
      BY <1>2, <2>3, <2>4
    <2> QED BY <2>1, <2>2, <2>3, <2>5
  <1>4. Current' = Current /\ Current = Len(emitted)
    BY <1>1, <1>3, Zenon DEF Current
  <1>5. Range(Tail(emission.rest)) = Range(emission.rest) \ {Head(emission.rest)}
    BY <1>0, <1>1, DistinctTail DEF Lists
  <1>6. Head(emission.rest) \in Range(emission.rest)
    BY <1>0, <1>1 DEF Range
  <1>7. \A p : (\E i \in DOMAIN p : p[i] = d) <=> d \in Range(p)
    BY DEF Range
  <1>8. CASE d # Head(emission.rest)
    <2>1. LeavesAlone(d)
      BY <1>8, OneVisit
    <2>2. /\ Queued(d)' = Queued(d) /\ asked'[d] = asked[d] /\ open'[d] = open[d]
          /\ broadcasts'[d] = broadcasts[d] /\ pendingsignals'[d] = pendingsignals[d]
          /\ thread'[d] = thread[d] /\ read_msg'[d] = read_msg[d] /\ since'[d] = since[d]
          /\ ipc'[d] = ipc[d]
      BY <2>1, QueuedSame DEF LeavesAlone
    <2>3. Waits(d)' <=> Waits(d)
      BY <1>2, <1>3, <1>5, <1>8 DEF Waits
    <2>4. BroadcastPast(d)' = BroadcastPast(d)
      <3>1. (\E i \in DOMAIN emission'.rest : emission'.rest[i] = d)
              <=> (\E i \in DOMAIN emission.rest : emission.rest[i] = d)
        BY <1>2, <1>5, <1>7, <1>8
      <3> QED BY <1>1, <1>3, <3>1, Zenon DEF BroadcastPast
    <2>5. Cookies(d)'
      BY <1>0, <2>2, Zenon DEF Cookies
    <2>6. Values(d)'
      BY <1>0, <1>4, <2>2, Zenon DEF Values
    <2>7. Told(d)'
      BY <1>0, <1>4, <2>2, <2>3, <2>4, Zenon DEF Told
    <2> QED BY <2>5, <2>6, <2>7
  <1>9. CASE d = Head(emission.rest)
    <2>1. PICK m \in Seq(Message) : m = VisitFor(d)
      BY VisitTypes
    <2>2. /\ out_msg' = [out_msg EXCEPT ![d] = @ \o m]
          /\ pendingsignals' = IF emission.kind = "signal"
                               THEN [pendingsignals EXCEPT ![d] = 0] ELSE pendingsignals
      BY <1>9, <2>1, VisitEffect
    <2>3. /\ out_msg'[d] = out_msg[d] \o m
          /\ pendingsignals'[d] = IF emission.kind = "signal" THEN 0
                                                              ELSE pendingsignals[d]
      <3>1. DOMAIN out_msg = Clients /\ DOMAIN pendingsignals = Clients
        BY <1>0, Zenon DEF TypeOK
      <3> QED BY <2>2, <3>1
    <2>4. Queued(d)' = Queued(d) \o m
      <3>1. xfered'[d] = xfered[d] /\ got'[d] = got[d]
        BY <1>1
      <3> QED BY <2>3, <3>1, QueuedMore
    <2>5. Waits(d) /\ ~ Waits(d)'
      BY <1>2, <1>3, <1>5, <1>6, <1>9 DEF Waits
    <2>6. NotYet(Queued(d), Current)
      BY <1>0, <2>5, Zenon DEF Told
    <2>7. ASSUME NEW n \in BroadcastPast(d)'
          PROVE  /\ n \in 1..Len(emitted) /\ emitted[n] = "broadcast"
                 /\ n # Len(emitted) => n \in BroadcastPast(d)
      <3>1. n \in 1..Len(emitted) /\ emitted[n] = "broadcast"
        BY <1>1, <2>7 DEF BroadcastPast
      <3> QED BY <3>1 DEF BroadcastPast
    <2>8. \A j \in DOMAIN m : m[j].kind # "reply" /\ m[j].val = Current
      <3>1. CASE emission.kind = "signal"
        BY <1>4, <2>1, <3>1 DEF VisitFor, SignalFor
      <3>2. CASE emission.kind # "signal"
        <4>1. m = BroadcastsFor(d)
          BY <2>1, <3>2 DEF VisitFor
        <4> QED BY <1>4, <4>1, VisitTypes
      <3> QED BY <3>1, <3>2
    <2>9. Values(d)'
      <3>1. ValuesOf(Queued(d) \o m, Current, thread[d], read_msg[d].val)
        BY <1>0, <2>8, ValuesEmitted DEF Values
      <3> QED BY <1>1, <1>4, <2>4, <3>1, Zenon DEF Values
    <2>10. CASE emission.kind = "signal"
      <3>1. m = SignalFor(d) /\ pendingsignals'[d] = 0
        BY <2>1, <2>3, <2>10, Zenon DEF VisitFor
      <3>2. \A j \in DOMAIN m : m[j].kind # "broadcast"
        BY <3>1 DEF SignalFor
      <3>3. CookiesOf(Queued(d) \o m, asked[d], Range(broadcasts[d]), 0,
                      thread[d], read_msg[d].cookie)
        <4>1. CASE pendingsignals[d] = 0
          <5>1. m = <<>> /\ Queued(d) \o m = Queued(d)
            <6>1. m = <<>>
              BY <3>1, <4>1, Zenon DEF SignalFor
            <6>2. \A s \in Seq(Message) : s \o <<>> = s
              OBVIOUS
            <6> QED BY <1>0, <6>1, <6>2
          <5> QED BY <1>0, <4>1, <5>1, Zenon DEF Cookies
        <4>2. CASE pendingsignals[d] # 0
          <5> DEFINE f == [kind |-> "signal", cookie |-> pendingsignals[d],
                           val |-> Len(emitted)]
          <5>1. f \in Message /\ f.kind = "signal" /\ f.cookie = pendingsignals[d]
            BY <1>0, <4>2 DEF Message
          <5>2. m = <<f>>
            BY <3>1, <4>2, Zenon DEF SignalFor
          <5> HIDE DEF f
          <5>3. CookiesOf(Queued(d), asked[d], Range(broadcasts[d]), pendingsignals[d],
                          thread[d], read_msg[d].cookie)
            BY <1>0, Zenon DEF Cookies
          <5> QED BY <1>0, <4>2, <5>1, <5>2, <5>3, CookiesSignal
        <4> QED BY <4>1, <4>2
      <3>4. Cookies(d)'
        BY <1>1, <2>4, <3>1, <3>3, Zenon DEF Cookies
      <3>5. BroadcastPast(d)' \subseteq BroadcastPast(d)
        <4>1. emitted[Len(emitted)] # "broadcast"
          BY <1>3, <2>10
        <4> QED BY <2>7, <4>1
      <3>6. /\ ToldOf(Queued(d) \o m, Current, broadcasts[d], since[d])
            /\ Complete(Queued(d), broadcasts[d], since[d], BroadcastPast(d)) =>
                 Complete(Queued(d) \o m, broadcasts[d], since[d], BroadcastPast(d))
        BY <1>0, <3>2, ToldOthers DEF Told
      <3>7. ASSUME ipc[d], open[d]
            PROVE  Complete(Queued(d) \o m, broadcasts[d], since[d], BroadcastPast(d)')
        <4>1. Complete(Queued(d) \o m, broadcasts[d], since[d], BroadcastPast(d))
          BY <1>0, <3>6, <3>7, Zenon DEF Told
        <4> QED BY <3>5, <4>1, Zenon DEF Complete
      <3>8. Told(d)'
        BY <1>1, <1>4, <2>4, <2>5, <3>6, <3>7, Zenon DEF Told
      <3> QED BY <2>9, <3>4, <3>8
    <2>11. CASE emission.kind # "signal"
      <3>1. m = BroadcastsFor(d) /\ pendingsignals'[d] = pendingsignals[d]
        BY <2>1, <2>3, <2>11, Zenon DEF VisitFor
      <3>2. /\ DOMAIN m = DOMAIN broadcasts[d]
            /\ \A j \in DOMAIN m : /\ m[j].kind = "broadcast"
                                   /\ m[j].cookie = broadcasts[d][j]
                                   /\ m[j].val = Current
        BY <1>4, <3>1, VisitTypes, Zenon
      <3>3. \A j \in DOMAIN m : m[j].kind = "broadcast" /\ m[j].cookie \in Range(broadcasts[d])
        BY <3>2, Zenon DEF Range
      <3>4. Cookies(d)'
        <4>1. CookiesOf(Queued(d), asked[d], Range(broadcasts[d]), pendingsignals[d],
                        thread[d], read_msg[d].cookie)
          BY <1>0, Zenon DEF Cookies
        <4>2. CookiesOf(Queued(d) \o m, asked[d], Range(broadcasts[d]), pendingsignals[d],
                        thread[d], read_msg[d].cookie)
          BY <1>0, <3>3, <4>1, CookiesBroadcast
        <4> QED BY <1>1, <2>4, <3>1, <4>2, Zenon DEF Cookies
      <3>5. PICK past2 : past2 = BroadcastPast(d)'
        OBVIOUS
      <3>6. past2 \subseteq BroadcastPast(d) \cup {Current}
        BY <1>4, <2>7, <3>5
      <3>7. /\ ToldOf(Queued(d) \o m, Current, broadcasts[d], since[d])
            /\ Complete(Queued(d), broadcasts[d], since[d], BroadcastPast(d)) =>
                 Complete(Queued(d) \o m, broadcasts[d], since[d], past2)
        <4>1. ToldOf(Queued(d), Current, broadcasts[d], since[d])
          BY <1>0, Zenon DEF Told
        <4> QED BY <1>0, <2>6, <3>2, <3>6, <4>1, ToldBroadcast
      <3>8. Told(d)'
        BY <1>0, <1>1, <1>4, <2>4, <2>5, <3>5, <3>7, Zenon DEF Told
      <3> QED BY <2>9, <3>4, <3>8
    <2> QED BY <2>10, <2>11
  <1> QED BY <1>8, <1>9

\* A message is read: a command, or a registration under a new cookie.
LEMMA GoodRequest ==
  ASSUME IInv, NEW c \in Clients, ReadRequest(c)
  PROVE  Cookies(c)' /\ Values(c)' /\ Told(c)'
  <1>0. /\ TypeOK /\ Cookies(c) /\ Values(c) /\ Told(c)
        /\ Queued(c) \in Seq(Message) /\ asked[c] \in Nat
        /\ broadcasts[c] \in Seq(Nat) /\ since[c] \in Seq(Nat) /\ Len(emitted) \in Nat
    <2>1. TypeOK /\ Cookies(c) /\ Values(c) /\ Told(c)
      BY Zenon DEF IInv
    <2> QED BY <2>1, ClientTypes, QueueTypes
  <1>1. /\ asked' = [asked EXCEPT ![c] = asked[c] + 1]
        /\ UNCHANGED <<emission, emitted, clients, ipc, out_msg, xfered, got, open>>
    BY DEF ReadRequest, serverVars, socketVars
  <1>2. asked'[c] = asked[c] + 1
    <2>1. DOMAIN asked = Clients
      BY <1>0, Zenon DEF TypeOK
    <2> QED BY <1>1, <2>1
  <1>3. /\ Queued(c)' = Queued(c) /\ Current' = Current /\ (Waits(c)' <=> Waits(c))
        /\ BroadcastPast(c)' = BroadcastPast(c)
    <2>1. Queued(c)' = Queued(c)
      BY <1>1, QueuedSame
    <2> QED BY <1>1, <2>1 DEF Current, Waits, BroadcastPast
  <1>4. CookiesOf(Queued(c), asked[c], Range(broadcasts[c]), pendingsignals[c],
                  thread[c], read_msg[c].cookie)
    BY <1>0, Zenon DEF Cookies
  <1>5. \A k : /\ CookiesOf(Queued(c), asked[c] + 1, Range(broadcasts[c]), asked[c] + 1,
                            "read", k)
               /\ CookiesOf(Queued(c), asked[c] + 1, Range(broadcasts[c]) \cup {asked[c] + 1},
                            pendingsignals[c], "read", k)
               /\ CookiesOf(Queued(c), asked[c] + 1, Range(broadcasts[c]), pendingsignals[c],
                            "command", asked[c] + 1)
    BY <1>0, <1>4, CookiesAsked
  <1>6. /\ DOMAIN thread = Clients /\ DOMAIN read_msg = Clients /\ DOMAIN since = Clients
        /\ DOMAIN pendingsignals = Clients /\ DOMAIN broadcasts = Clients
    BY <1>0 DEF TypeOK
  <1>7. ASSUME NEW at, thread'[c] = at, at \in {"read", "command"},
               NEW v, read_msg'[c].val = v, at = "command" => v = 0
        PROVE  Values(c)'
    <2>1. ValuesOf(Queued(c), Current, at, v)
      BY <1>0, <1>7 DEF Values, ValuesOf
    <2> QED BY <1>3, <1>7, <2>1, Zenon DEF Values
  <1>8. ASSUME broadcasts'[c] = broadcasts[c], since'[c] = since[c] PROVE Told(c)'
    BY <1>0, <1>1, <1>3, <1>8, Zenon DEF Told
  <1>9. CASE RegisterSignal(c, asked'[c])
    <2>1. /\ pendingsignals'[c] = asked[c] + 1 /\ thread'[c] = "read"
          /\ broadcasts' = broadcasts /\ since' = since /\ read_msg' = read_msg
      BY <1>2, <1>6, <1>9 DEF RegisterSignal, Goto, registered
    <2>2. Cookies(c)'
      BY <1>2, <1>3, <1>5, <2>1, Zenon DEF Cookies
    <2>3. Values(c)'
      BY <1>7, <2>1
    <2> QED BY <1>8, <2>1, <2>2, <2>3
  <1>10. CASE RegisterBroadcast(c, asked'[c])
    <2>1. /\ broadcasts'[c] = Append(broadcasts[c], asked[c] + 1)
          /\ since'[c] = Append(since[c], Len(emitted)) /\ thread'[c] = "read"
          /\ pendingsignals' = pendingsignals /\ read_msg' = read_msg
      BY <1>2, <1>6, <1>10 DEF RegisterBroadcast, Goto
    <2>2. Range(broadcasts[c]) \subseteq 1..asked[c]
      BY <1>4, Zenon DEF CookiesOf
    <2>3. asked[c] + 1 \in Nat /\ asked[c] + 1 \notin Range(broadcasts[c])
      BY <1>0, <2>2
    <2>4. Distinct(broadcasts[c])
      BY <1>0, Zenon DEF Told, ToldOf
    <2>5. Range(broadcasts'[c]) = Range(broadcasts[c]) \cup {asked[c] + 1}
      <3>1. PICK k \in Nat : k = asked[c] + 1
        BY <2>3
      <3>2. broadcasts[c] \in Seq(Nat) /\ k \notin Range(broadcasts[c])
        BY <1>0, <2>3, <3>1
      <3>3. Range(Append(broadcasts[c], k)) = Range(broadcasts[c]) \cup {k}
        BY <2>4, <3>2, DistinctAppend
      <3> QED BY <2>1, <3>1, <3>3
    <2>6. Cookies(c)'
      BY <1>2, <1>3, <1>5, <2>1, <2>5, Zenon DEF Cookies
    <2>7. Values(c)'
      BY <1>7, <2>1
    <2>8. BroadcastPast(c) \subseteq 1..Len(emitted)
      BY DEF BroadcastPast
    <2>9. /\ ToldOf(Queued(c), Current, broadcasts'[c], since'[c])
          /\ Complete(Queued(c), broadcasts[c], since[c], BroadcastPast(c)) =>
               Complete(Queued(c), broadcasts'[c], since'[c], BroadcastPast(c))
      <3>1. ToldOf(Queued(c), Current, broadcasts[c], since[c])
        BY <1>0, Zenon DEF Told
      <3> QED BY <1>0, <2>1, <2>3, <2>8, <3>1, ToldRegister
    <2>10. Told(c)'
      BY <1>0, <1>1, <1>3, <2>9, Zenon DEF Told
    <2> QED BY <2>6, <2>7, <2>10
  <1>11. CASE BeginCommand(c, asked'[c])
    <2>1. /\ read_msg'[c].cookie = asked[c] + 1 /\ read_msg'[c].val = 0
          /\ thread'[c] = "command" /\ broadcasts' = broadcasts /\ since' = since
          /\ pendingsignals' = pendingsignals
      BY <1>2, <1>6, <1>11 DEF BeginCommand, Goto, registered
    <2>2. Cookies(c)'
      BY <1>2, <1>3, <1>5, <2>1, Zenon DEF Cookies
    <2>3. Values(c)'
      BY <1>7, <2>1
    <2> QED BY <1>8, <2>1, <2>2, <2>3
  <1> QED BY <1>9, <1>10, <1>11 DEF ReadRequest

LEMMA GoodReads ==
  ASSUME IInv, NEW c \in Clients, CommandReads(c)
  PROVE  Cookies(c)' /\ Values(c)' /\ Told(c)'
  <1>0. Cookies(c) /\ Values(c) /\ Told(c) /\ DOMAIN thread = Clients
    BY DEF IInv, TypeOK
  <1>1. /\ UNCHANGED <<emission, emitted, read_msg, ipc, out_msg, xfered, got, broadcasts,
                       since, pendingsignals, asked, open>>
        /\ thread[c] = "command" /\ thread'[c] = "reply"
    BY <1>0 DEF CommandReads, serverVars, queueVars, registered, socketVars, peerVars, Goto
  <1>2. /\ Queued(c)' = Queued(c) /\ Current' = Current /\ (Waits(c)' <=> Waits(c))
        /\ BroadcastPast(c)' = BroadcastPast(c)
    <2>1. Queued(c)' = Queued(c)
      BY <1>1, QueuedSame
    <2> QED BY <1>1, <2>1 DEF Current, Waits, BroadcastPast
  <1>3. Cookies(c)'
    <2>1. CookiesOf(Queued(c), asked[c], Range(broadcasts[c]),
                    pendingsignals[c], thread'[c], read_msg[c].cookie)
      BY <1>0, <1>1, CookiesAt, Zenon DEF Cookies, Busy
    <2> QED BY <1>1, <1>2, <2>1, Zenon DEF Cookies
  <1>4. Values(c)'
    <2>1. read_msg[c].val = 0 /\ 0 < Current
      BY <1>0, <1>1, CurrentType DEF Values, ValuesOf
    <2>2. ValuesOf(Queued(c), Current, "reply", read_msg[c].val)
      BY <1>0, <2>1 DEF Values, ValuesOf
    <2> QED BY <1>1, <1>2, <2>2, Zenon DEF Values
  <1>5. Told(c)'
    BY <1>0, <1>1, <1>2, Zenon DEF Told
  <1> QED BY <1>3, <1>4, <1>5

LEMMA GoodReply ==
  ASSUME IInv, NEW c \in Clients, Reply(c)
  PROVE  Cookies(c)' /\ Values(c)' /\ Told(c)'
  <1>0. /\ TypeOK /\ Cookies(c) /\ Values(c) /\ Told(c)
        /\ Queued(c) \in Seq(Message) /\ asked[c] \in Nat /\ Current \in Nat
    <2>1. TypeOK /\ Cookies(c) /\ Values(c) /\ Told(c)
      BY Zenon DEF IInv
    <2> QED BY <2>1, ClientTypes, QueueTypes, CurrentType
  <1> DEFINE f == [kind |-> "reply", cookie |-> read_msg[c].cookie,
                   val |-> read_msg[c].val]
  <1>1. /\ out_msg' = [out_msg EXCEPT ![c] = @ \o <<f>>]
        /\ thread[c] = "reply" /\ thread' = [thread EXCEPT ![c] = "read"]
        /\ UNCHANGED <<emission, emitted, ipc, xfered, got, broadcasts, since,
                       pendingsignals, asked, open>>
    BY DEF Reply, ClientMsgWrite, serverVars, registered, socketVars, peerVars, Goto
  <1>2. f \in Message
    BY <1>1, ReplyType
  <1>3. PICK e \in Message : e = f
    BY <1>2
  <1>4. e.kind = "reply" /\ e.cookie = read_msg[c].cookie /\ e.val = read_msg[c].val
    BY <1>3
  <1> HIDE DEF f
  <1>5. /\ out_msg'[c] = out_msg[c] \o <<e>> /\ thread'[c] = "read"
    <2>1. DOMAIN out_msg = Clients /\ DOMAIN thread = Clients
      BY <1>0, Zenon DEF TypeOK
    <2> QED BY <1>1, <1>3, <2>1
  <1>6. Queued(c)' = Queued(c) \o <<e>>
    <2>1. <<e>> \in Seq(Message)
      BY <1>3
    <2>2. xfered'[c] = xfered[c] /\ got'[c] = got[c]
      BY <1>1
    <2> QED BY <1>5, <2>1, <2>2, QueuedMore
  <1>7. /\ Current' = Current /\ (Waits(c)' <=> Waits(c))
        /\ BroadcastPast(c)' = BroadcastPast(c)
    BY <1>1 DEF Current, Waits, BroadcastPast
  <1>8. Cookies(c)'
    <2>1. CookiesOf(Queued(c), asked[c], Range(broadcasts[c]), pendingsignals[c],
                    "reply", read_msg[c].cookie)
      BY <1>0, <1>1, Zenon DEF Cookies
    <2>2. \A k : CookiesOf(Queued(c) \o <<e>>, asked[c], Range(broadcasts[c]),
                           pendingsignals[c], "read", k)
      BY <1>0, <1>4, <2>1, CookiesReply
    <2> QED BY <1>1, <1>5, <1>6, <2>2, Zenon DEF Cookies
  <1>9. Values(c)'
    <2>1. ValuesOf(Queued(c), Current, "reply", read_msg[c].val)
      BY <1>0, <1>1, Zenon DEF Values
    <2>2. \A v : ValuesOf(Queued(c) \o <<e>>, Current, "read", v)
      BY <1>0, <1>4, <2>1, ValuesReply
    <2> QED BY <1>5, <1>6, <1>7, <2>2, Zenon DEF Values
  <1>10. Told(c)'
    <2>1. ToldOf(Queued(c), Current, broadcasts[c], since[c])
      BY <1>0, Zenon DEF Told
    <2>2. <<e>> \in Seq(Message) /\ \A j \in DOMAIN <<e>> : <<e>>[j].kind # "broadcast"
      BY <1>3, <1>4
    <2>3. /\ ToldOf(Queued(c) \o <<e>>, Current, broadcasts[c], since[c])
          /\ NotYet(Queued(c), Current) => NotYet(Queued(c) \o <<e>>, Current)
          /\ Complete(Queued(c), broadcasts[c], since[c], BroadcastPast(c)) =>
               Complete(Queued(c) \o <<e>>, broadcasts[c], since[c], BroadcastPast(c))
      BY <1>0, <2>1, <2>2, ToldOthers
    <2> QED BY <1>0, <1>1, <1>6, <1>7, <2>3, Zenon DEF Told
  <1> QED BY <1>8, <1>9, <1>10

\* The other end closes: what it received is forgotten.
LEMMA GoodClose ==
  ASSUME IInv, NEW c \in Clients, PeerClose(c)
  PROVE  Cookies(c)' /\ Values(c)' /\ Told(c)'
  <1>0. /\ TypeOK /\ Cookies(c) /\ Values(c) /\ Told(c)
        /\ Queued(c) \in Seq(Message) /\ got[c] \in Seq(Message)
        /\ Undelivered(c) \in Seq(Message) /\ asked[c] \in Nat
    <2>1. TypeOK /\ Cookies(c) /\ Values(c) /\ Told(c)
      BY Zenon DEF IInv
    <2> QED BY <2>1, ClientTypes, QueueTypes
  <1>1. /\ open' = [open EXCEPT ![c] = FALSE] /\ got' = [got EXCEPT ![c] = <<>>]
        /\ UNCHANGED <<emission, emitted, thread, read_msg, ipc, out_msg, xfered,
                       broadcasts, since, pendingsignals, asked>>
    BY DEF PeerClose, serverVars, queueVars, registered
  <1>2. ~ open'[c] /\ got'[c] = <<>>
    <2>1. DOMAIN open = Clients /\ DOMAIN got = Clients
      BY <1>0, Zenon DEF TypeOK
    <2> QED BY <1>1, <2>1
  <1>3. PICK m \in 0..Len(Queued(c)) :
          Queued(c)' = SubSeq(Queued(c), m + 1, Len(Queued(c)))
    <2>1. /\ Len(got[c]) \in 0..Len(Queued(c))
          /\ SubSeq(Queued(c), Len(got[c]) + 1, Len(Queued(c))) = Undelivered(c)
      BY <1>0, DropFront DEF Queued
    <2>2. Undelivered(c)' = Undelivered(c)
      BY <1>1, Zenon DEF Undelivered
    <2>3. <<>> \o Undelivered(c) = Undelivered(c)
      BY <1>0
    <2>4. Queued(c)' = Undelivered(c)
      BY <1>2, <2>2, <2>3, Zenon DEF Queued
    <2> QED BY <2>1, <2>4, Zenon
  <1>4. Current' = Current /\ (Waits(c)' <=> Waits(c))
    BY <1>1 DEF Current, Waits
  <1>5. Cookies(c)'
    <2>1. CookiesOf(Queued(c), asked[c], Range(broadcasts[c]), pendingsignals[c],
                    thread[c], read_msg[c].cookie)
      BY <1>0, Zenon DEF Cookies
    <2>2. CookiesOf(Queued(c)', asked[c], Range(broadcasts[c]), pendingsignals[c],
                    thread[c], read_msg[c].cookie)
      BY <1>0, <1>3, <2>1, CookiesRest
    <2> QED BY <1>1, <2>2, Zenon DEF Cookies
  <1>6. Values(c)'
    <2>1. ValuesOf(Queued(c), Current, thread[c], read_msg[c].val)
      BY <1>0, Zenon DEF Values
    <2>2. ValuesOf(Queued(c)', Current, thread[c], read_msg[c].val)
      BY <1>0, <1>3, <2>1, ValuesRest
    <2> QED BY <1>1, <1>4, <2>2, Zenon DEF Values
  <1>7. Told(c)'
    <2>1. ToldOf(Queued(c), Current, broadcasts[c], since[c])
      BY <1>0, Zenon DEF Told
    <2>2. /\ ToldOf(Queued(c)', Current, broadcasts[c], since[c])
          /\ NotYet(Queued(c), Current) => NotYet(Queued(c)', Current)
      BY <1>0, <1>3, <2>1, ToldRest
    <2> QED BY <1>0, <1>1, <1>2, <1>4, <2>2, Zenon DEF Told
  <1> QED BY <1>5, <1>6, <1>7

\* The queue of a client that is gone is freed, with what it registered.
LEMMA GoodFree ==
  ASSUME IInv, NEW c \in Clients, DestroyFree(c)
  PROVE  Cookies(c)' /\ Values(c)' /\ Told(c)'
  <1>0. TypeOK /\ Writing(c) /\ asked[c] \in Nat
    BY ClientTypes DEF IInv
  <1>1. /\ DOMAIN out_msg = Clients /\ DOMAIN xfered = Clients /\ DOMAIN thread = Clients
        /\ DOMAIN pendingsignals = Clients /\ DOMAIN broadcasts = Clients
        /\ DOMAIN since = Clients
    BY <1>0 DEF TypeOK
  <1>2. /\ out_msg'[c] = <<>> /\ xfered'[c] = 0 /\ pendingsignals'[c] = 0
        /\ broadcasts'[c] = <<>> /\ since'[c] = <<>> /\ thread'[c] = "dead"
        /\ UNCHANGED <<read_msg, asked, open, got>> /\ thread[c] = "free"
    BY <1>1 DEF DestroyFree, Goto, socketVars, peerVars
  <1>3. got'[c] = <<>> /\ ~ open'[c]
    BY <1>0, <1>2 DEF Writing
  <1>4. Queued(c)' = <<>>
    <2>1. 0 # Parts
      BY DEF Parts
    <2>2. Undelivered(c)' = <<>>
      BY <1>2, <2>1, Zenon DEF Undelivered
    <2>3. <<>> \o <<>> = <<>>
      OBVIOUS
    <2> QED BY <1>3, <2>2, <2>3, Zenon DEF Queued
  <1>5. DOMAIN <<>> = {} /\ Range(<<>>) = {} /\ Len(<<>>) = 0
    BY DEF Range
  <1>6. Cookies(c)'
    <2>1. \A k : CookiesOf(<<>>, asked[c], {}, 0, "dead", k)
      BY <1>0, <1>5 DEF CookiesOf, Busy
    <2> QED BY <1>2, <1>4, <1>5, <2>1, Zenon DEF Cookies
  <1>7. Values(c)'
    <2>1. \A cur, v : ValuesOf(<<>>, cur, "dead", v)
      BY <1>5 DEF ValuesOf
    <2> QED BY <1>2, <1>4, <2>1, Zenon DEF Values
  <1>8. Told(c)'
    <2>1. \A cur : ToldOf(<<>>, cur, <<>>, <<>>) /\ NotYet(<<>>, cur)
      BY <1>5 DEF ToldOf, NotYet, Distinct
    <2> QED BY <1>2, <1>3, <1>4, <2>1, Zenon DEF Told
  <1> QED BY <1>6, <1>7, <1>8

\* A step of a client's thread that queues nothing for it.
LEMMA GoodMove ==
  ASSUME IInv, NEW c \in Clients,
         \/ WritePeek(c) \/ WriteDone(c) \/ WriteSome(c) \/ WriteNothing(c)
         \/ WriteFails(c) \/ WritePop(c) \/ ReadEnd(c) \/ DestroyBegin(c)
         \/ DestroyRemove(c) \/ SourceAccept(c)
  PROVE  Cookies(c)' /\ Values(c)' /\ Told(c)'
  <1>0. TypeOK /\ DOMAIN thread = Clients
    BY DEF IInv, TypeOK
  <1> USE DEF serverVars, queueVars, registered, socketVars, peerVars, Goto
  <1>1. /\ UNCHANGED <<emission, emitted, asked, broadcasts, since, pendingsignals,
                       read_msg, open>>
    BY DEF WritePeek, WriteDone, WriteSome, WriteNothing, WriteFails, WritePop, ReadEnd,
           DestroyBegin, DestroyRemove, SourceAccept
  <1>2. Queued(c)' = Queued(c)
    <2>1. CASE WriteSome(c)
      BY <2>1, SendQueued
    <2>2. CASE WritePop(c)
      BY <2>2, PopQueued
    <2>3. CASE out_msg' = out_msg /\ xfered' = xfered /\ got' = got
      BY <2>3, QueuedSame
    <2> QED BY <2>1, <2>2, <2>3 DEF WritePeek, WriteDone, WriteNothing, WriteFails, ReadEnd,
                                   DestroyBegin, DestroyRemove, SourceAccept
  <1>3. thread'[c] \in Busy => thread'[c] = thread[c]
    <2>1. CASE WriteSome(c)
      BY <1>0, <2>1, SendEffect DEF Busy
    <2> QED BY <1>0, <2>1 DEF WritePeek, WriteDone, WriteNothing, WriteFails, WritePop,
               ReadEnd, DestroyBegin, DestroyRemove, SourceAccept, Busy
  <1>4. ipc'[c] => ipc[c] \/ broadcasts[c] = <<>>
    <2>1. CASE SourceAccept(c)
      BY <2>1 DEF SourceAccept, IInv, Lists, Listed
    <2> QED BY <2>1 DEF WritePeek, WriteDone, WriteSome, WriteNothing, WriteFails, WritePop,
               ReadEnd, DestroyBegin, DestroyRemove
  <1> QED BY <1>1, <1>2, <1>3, <1>4, Quiet

LEMMA GoodStep ==
  IInv /\ Next => \A d \in Clients : Cookies(d)' /\ Values(d)' /\ Told(d)'
  <1> SUFFICES ASSUME IInv, Next, NEW d \in Clients
               PROVE  Cookies(d)' /\ Values(d)' /\ Told(d)'
    OBVIOUS
  <1>0. TypeOK
    BY DEF IInv
  <1>1. ASSUME NEW c \in Clients, CommandEmits(c)
        PROVE  Cookies(d)' /\ Values(d)' /\ Told(d)'
    <2>1. EmitBegin(c, "broadcast")
      BY <1>1 DEF CommandEmits
    <2>2. /\ Queued(d)' = Queued(d)
          /\ UNCHANGED <<asked[d], broadcasts[d], since[d], pendingsignals[d], ipc[d], open[d]>>
      BY <1>1, QueuedSame DEF CommandEmits, queueVars, registered, socketVars, peerVars
    <2>3. \/ read_msg'[d] = read_msg[d] /\ thread'[d] = thread[d]
          \/ /\ read_msg'[d].cookie = read_msg[d].cookie
             /\ read_msg'[d].val = Len(emitted')
             /\ thread[d] = "command" /\ thread'[d] = "emit"
      <3>1. /\ DOMAIN thread = Clients /\ DOMAIN read_msg = Clients
            /\ read_msg[c] \in [cookie : Nat, val : Nat]
        BY <1>0, Zenon DEF TypeOK
      <3>2. /\ thread[c] = "command" /\ thread' = [thread EXCEPT ![c] = "emit"]
            /\ read_msg' = [read_msg EXCEPT ![c] = [read_msg[c] EXCEPT !.val = Len(emitted')]]
        BY <1>1 DEF CommandEmits, Goto
      <3>3. CASE d = c
        BY <3>1, <3>2, <3>3
      <3>4. CASE d # c
        BY <3>1, <3>2, <3>4
      <3> QED BY <3>3, <3>4
    <2> QED BY <2>1, <2>2, <2>3, GoodBegin
  <1>2. ASSUME NEW c \in Clients, ClientThread(c) \/ PeerClose(c) \/ SourceAccept(c),
               ~ CommandEmits(c)
        PROVE  Cookies(d)' /\ Values(d)' /\ Told(d)'
    <2>1. CASE d = c
      BY <1>2, <2>1, GoodMove, GoodRequest, GoodReads, GoodReply, GoodFree, GoodClose
         DEF ClientThread
    <2>2. CASE d # c
      <3>1. LeavesAlone(d)
        BY <1>0, <1>2, <2>2, OneClient
      <3>2. UNCHANGED <<emission, emitted>>
        BY <1>2 DEF ClientThread, WritePeek, WriteDone, WriteSome, WriteNothing, WriteFails,
                    WritePop, ReadRequest, ReadEnd, CommandReads, Reply, DestroyBegin,
                    DestroyRemove, DestroyFree, PeerClose, SourceAccept, serverVars
      <3> QED BY <3>1, <3>2, QuietAlone
    <2> QED BY <2>1, <2>2
  <1>3. ASSUME ServerEmits PROVE Cookies(d)' /\ Values(d)' /\ Told(d)'
    <2>1. PICK kind \in {"signal", "broadcast"} : EmitBegin("server", kind)
      BY <1>3 DEF ServerEmits
    <2>2. UNCHANGED <<thread, read_msg, ipc, out_msg, xfered, got, asked, broadcasts, since,
                      pendingsignals, open>>
      BY <1>3 DEF ServerEmits, queueVars, registered, socketVars, peerVars
    <2>3. Queued(d)' = Queued(d)
      BY <2>2, QueuedSame
    <2> QED BY <2>1, <2>2, <2>3, GoodBegin
  <1>4. ASSUME Shutdown PROVE Cookies(d)' /\ Values(d)' /\ Told(d)'
    <2>1. /\ UNCHANGED <<emission, emitted, thread, read_msg, out_msg, xfered, got, asked,
                         broadcasts, since, pendingsignals, open>>
          /\ ~ ipc'[d]
      BY <1>4 DEF Shutdown, queueVars, registered, socketVars, peerVars
    <2>2. Queued(d)' = Queued(d)
      BY <2>1, QueuedSame
    <2> QED BY <2>1, <2>2, Quiet
  <1> QED BY <1>1, <1>2, <1>3, <1>4, GoodVisit, GoodEnd DEF Next, Emit

-----------------------------------------------------------------------------
(***************************************************************************)
(* The invariant and what it says                                          *)
(***************************************************************************)

LEMMA IInvInit == Init => IInv
  <1> SUFFICES ASSUME Init PROVE IInv
    OBVIOUS
  <1>0. <<>> \in Seq(Clients) /\ <<>> \in Seq(Message) /\ <<>> \in Seq(Nat)
        /\ <<>> \in Seq({"signal", "broadcast"})
        /\ Range(<<>>) = {} /\ DOMAIN <<>> = {} /\ Len(<<>>) = 0 /\ <<>> \o <<>> = <<>>
    BY DEF Range
  <1>1. TypeOK
    <2>1. /\ clients \in Seq(Clients) /\ ipc_servers \in BOOLEAN
          /\ emitted \in Seq({"signal", "broadcast"})
      BY <1>0 DEF Init
    <2>2. emission \in [by : Clients \cup {"server", "nobody"},
                        kind : {"none", "signal", "broadcast"}, rest : Seq(Clients)]
      BY <1>0 DEF Init, Idle
    <2>3. /\ thread \in [Clients -> Places] /\ ipc \in [Clients -> BOOLEAN]
      <3>1. "none" \in Places
        BY DEF Places
      <3> QED BY <3>1 DEF Init
    <2>4. /\ read_msg \in [Clients -> [cookie : Nat, val : Nat]]
      BY DEF Init, NoCommand
    <2>5. /\ out_msg \in [Clients -> Seq(Message)]
          /\ partial \in [Clients -> Seq(Message)] /\ got \in [Clients -> Seq(Message)]
      BY <1>0 DEF Init
    <2>6. /\ xfered \in [Clients -> 0..Parts] /\ sources \in [Clients -> Nat]
          /\ pendingsignals \in [Clients -> Nat] /\ asked \in [Clients -> Nat]
      BY DEF Init, Parts
    <2>7. /\ broadcasts \in [Clients -> Seq(Nat)] /\ since \in [Clients -> Seq(Nat)]
          /\ undefined \in BOOLEAN /\ open \in [Clients -> BOOLEAN]
      BY <1>0 DEF Init
    <2> QED BY <2>1, <2>2, <2>3, <2>4, <2>5, <2>6, <2>7 DEF TypeOK
  <1>2. Lists
    <2>1. emission = Idle /\ clients = <<>> /\ emission.rest = <<>>
      BY DEF Init, Idle
    <2>2. Distinct(clients) /\ Distinct(emission.rest)
          /\ Range(emission.rest) \subseteq Range(clients)
      BY <2>1 DEF Distinct
    <2>3. \A c \in Clients : Listed(c)
      BY <1>0, <2>1 DEF Init, Listed
    <2> QED BY <2>1, <2>2, <2>3 DEF Lists
  <1>3. ASSUME NEW c \in Clients PROVE Writing(c) /\ Cookies(c) /\ Values(c) /\ Told(c)
    <2>1. /\ out_msg[c] = <<>> /\ xfered[c] = 0 /\ got[c] = <<>> /\ partial[c] = <<>>
          /\ thread[c] = "none" /\ broadcasts[c] = <<>> /\ since[c] = <<>>
          /\ pendingsignals[c] = 0 /\ asked[c] = 0 /\ open[c]
      BY DEF Init
    <2>2. 0 # Parts
      BY DEF Parts
    <2>3. Queued(c) = <<>>
      BY <1>0, <2>1, <2>2 DEF Queued, Undelivered
    <2>4. Writing(c)
      BY <2>1, <2>2 DEF Writing
    <2>5. Cookies(c)
      BY <1>0, <2>1, <2>3 DEF Cookies, CookiesOf, Busy
    <2>6. Values(c)
      BY <1>0, <2>1, <2>3 DEF Values, ValuesOf
    <2>7. Told(c)
      BY <1>0, <2>1, <2>3 DEF Told, ToldOf, NotYet, Complete, Distinct
    <2> QED BY <2>4, <2>5, <2>6, <2>7
  <1> QED BY <1>1, <1>2, <1>3 DEF IInv

LEMMA IInvStep == IInv /\ [Next]_vars => IInv'
  <1> SUFFICES ASSUME IInv, [Next]_vars PROVE IInv'
    OBVIOUS
  <1>1. CASE Next
    BY <1>1, TypeStep, ListsStep, WritingStep, GoodStep DEF IInv
  <1>2. CASE UNCHANGED vars
    <2>1. UNCHANGED <<clients, ipc_servers, emission, emitted, thread, read_msg, ipc, out_msg,
                      xfered, sources, pendingsignals, broadcasts, since, undefined, asked,
                      partial, got, open>>
      BY <1>2 DEF vars, serverVars, queueVars, registered, socketVars, peerVars
    <2>2. TypeOK'
      BY <2>1 DEF IInv, TypeOK
    <2>3. Lists'
      BY <2>1, ListedSame DEF IInv, Lists
    <2>4. \A c \in Clients : Writing(c)'
      BY <2>1, WritingSame DEF IInv
    <2>5. \A c \in Clients : Cookies(c)' /\ Values(c)' /\ Told(c)'
      BY <2>1, QueuedSame, Quiet
    <2> QED BY <2>2, <2>3, <2>4, <2>5 DEF IInv
  <1> QED BY <1>1, <1>2

LEMMA Invariant == Spec => []IInv
  BY IInvInit, IInvStep, PTL DEF Spec

\* A queue with messages in it has a write source attached, besides one whose
\* callback is about to return: the message that finds the queue empty
\* attaches one (xmms_ipc_client_msg_write), a callback keeps its own while
\* there is more (xmms_ipc_client_write_cb), and only a client that is gone is
\* given up.
THEOREM QueuesAreWritten == Spec => []WriteInProgress
  <1>1. IInv => WriteInProgress
    BY DEF IInv, WriteInProgress, Writing
  <1> QED BY <1>1, Invariant, PTL

\* The emission loops of xmms_ipc_signal_cb and xmms_ipc_broadcast_cb never
\* come to a client that was freed: who is to be visited is in the list, and a
\* thread takes its client out, under the lock the loop holds, before it frees
\* it (xmms_ipc_client_destroy).
THEOREM VisitsAreSafe == Spec => []VisitsOnlyLiveClients
  <1>1. ASSUME IInv PROVE VisitsOnlyLiveClients
    <2> SUFFICES ASSUME NEW i \in DOMAIN emission.rest
                 PROVE  thread[emission.rest[i]] \notin {"none", "free", "dead"}
      BY DEF VisitsOnlyLiveClients
    <2>1. emission.rest \in Seq(Clients)
      BY <1>1 DEF IInv, TypeOK
    <2>2. emission.rest[i] \in Clients /\ emission.rest[i] \in Range(emission.rest)
      BY <2>1 DEF Range
    <2> QED BY <1>1, <2>2 DEF IInv, Lists, Listed
  <1> QED BY <1>1, Invariant, PTL

\* Every command is answered at most once and every registration for a signal
\* is served at most once; a client's answers come in the order of its
\* commands, and none before the broadcasts of what its command changed
\* (process_msg, xmms_ipc_signal_cb, xmms_ipc_broadcast_cb).
THEOREM AnswersAreInOrder == Spec => []AnswersInOrder
  <1>1. ASSUME IInv PROVE AnswersInOrder
    <2>1. ASSUME NEW c \in Clients, NEW i \in DOMAIN Queued(c),
                 Queued(c)[i].kind # "broadcast"
          PROVE  /\ \A j \in DOMAIN Queued(c) :
                      Queued(c)[j].cookie = Queued(c)[i].cookie => j = i
                 /\ Queued(c)[i].cookie # pendingsignals[c]
      BY <1>1, <2>1, Zenon DEF IInv, Cookies, CookiesOf
    <2>2. ASSUME NEW c \in Clients, NEW i \in DOMAIN Queued(c), NEW j \in DOMAIN Queued(c),
                 i < j, Queued(c)[i].kind = "reply", Queued(c)[j].kind = "reply"
          PROVE  Queued(c)[i].cookie < Queued(c)[j].cookie
      BY <1>1, <2>2, Zenon DEF IInv, Cookies, CookiesOf
    <2>3. ASSUME NEW c \in Clients, NEW i \in DOMAIN Queued(c), NEW j \in DOMAIN Queued(c),
                 i < j, Queued(c)[i].kind = "reply", Queued(c)[j].kind = "broadcast"
          PROVE  Queued(c)[j].val # Queued(c)[i].val
      BY <1>1, <2>3, Zenon DEF IInv, Values, ValuesOf
    <2> QED BY <2>1, <2>2, <2>3, Zenon DEF AnswersInOrder
  <1> QED BY <1>1, Invariant, PTL

\* A client gets each broadcast emitted since it registered, under each of its
\* cookies, once and in the order of emission, whatever other clients come, go
\* or register while the loop of xmms_ipc_broadcast_cb is under way.
THEOREM BroadcastsAreComplete == Spec => []BroadcastsComplete
  <1>1. ASSUME IInv PROVE BroadcastsComplete
    <2> SUFFICES ASSUME NEW c \in Clients, ipc[c], open[c], NEW i \in DOMAIN broadcasts[c]
                 PROVE  LET q == Queued(c)
                            Tells(j) == /\ q[j].kind = "broadcast"
                                        /\ q[j].cookie = broadcasts[c][i]
                        IN  /\ \A j, k \in DOMAIN q :
                                 j < k /\ Tells(j) /\ Tells(k) => q[j].val < q[k].val
                            /\ \A n \in BroadcastPast(c) :
                                 n > since[c][i] =>
                                   \E j \in DOMAIN q : Tells(j) /\ q[j].val = n
      BY DEF BroadcastsComplete
    <2>0. Told(c)
      BY <1>1 DEF IInv
    <2>1. ASSUME NEW j \in DOMAIN Queued(c), NEW k \in DOMAIN Queued(c), j < k,
                 Queued(c)[j].kind = "broadcast", Queued(c)[k].kind = "broadcast",
                 Queued(c)[j].cookie = broadcasts[c][i], Queued(c)[k].cookie = broadcasts[c][i]
          PROVE  Queued(c)[j].val < Queued(c)[k].val
      BY <2>0, <2>1, Zenon DEF Told, ToldOf
    <2>2. ASSUME NEW n \in BroadcastPast(c), n > since[c][i]
          PROVE  \E j \in DOMAIN Queued(c) : /\ Queued(c)[j].kind = "broadcast"
                                             /\ Queued(c)[j].cookie = broadcasts[c][i]
                                             /\ Queued(c)[j].val = n
      BY <2>0, <2>2, Zenon DEF Told, Complete
    <2> QED BY <2>1, <2>2, Zenon
  <1> QED BY <1>1, Invariant, PTL

-----------------------------------------------------------------------------
(***************************************************************************)
(* The safety half of the refinement of IpcDelivery                        *)
(***************************************************************************)

LEMMA NothingDelivered ==
  ASSUME \A d \in Readers : Undelivered(d)' = Undelivered(d) /\ got'[d] = got[d],
         UNCHANGED <<open, undefined>>
  PROVE  UNCHANGED Delivery!vars
  BY DEF Delivery!vars

LEMMA QueueStep ==
  ASSUME NEW c \in Readers, NEW m \in Seq(Message), Undelivered(c) \in Seq(Message),
         Undelivered(c)' = Undelivered(c) \o m,
         \A d \in Readers : d # c => Undelivered(d)' = Undelivered(d),
         \A d \in Readers : got'[d] = got[d],
         UNCHANGED <<open, undefined>>
  PROVE  [Delivery!Next]_(Delivery!vars)
  <1>1. CASE m = <<>>
    <2>1. \A s \in Seq(Message) : s \o <<>> = s
      OBVIOUS
    <2>2. Undelivered(c)' = Undelivered(c)
      BY <1>1, <2>1
    <2> QED BY <2>2, NothingDelivered
  <1>2. CASE m # <<>>
    <2> DEFINE P == [d \in Readers |-> Undelivered(d)]
    <2>1. P' = [P EXCEPT ![c] = @ \o m]
      OBVIOUS
    <2>2. P[c] = Undelivered(c) /\ P'[c] = Undelivered(c) \o m
      OBVIOUS
    <2>3. SubSeq(P'[c], Len(P[c]) + 1, Len(P'[c])) = m
      BY <2>2, DropFront
    <2>4. UNCHANGED <<[d \in Readers |-> got[d]], {d \in Readers : ~open[d] \/ undefined}>>
      OBVIOUS
    <2>5. m \in Seq(Message) \ {<<>>}
      BY <1>2
    <2>6. Delivery!Queue(c)
      BY <2>1, <2>3, <2>4, <2>5, Zenon DEF Delivery!Queue
    <2> QED BY <2>6, Zenon DEF Delivery!Next
  <1> QED BY <1>1, <1>2

LEMMA DeliverStep ==
  ASSUME IInv, ~ undefined, NEW c \in Clients, WriteSome(c)
  PROVE  [Delivery!Next]_(Delivery!vars)
  <1>0. /\ got \in [Clients -> Seq(Message)] /\ xfered \in [Clients -> 0..Parts]
        /\ Readers \subseteq Clients /\ c \in Readers
    BY DEF IInv, TypeOK, Readers, WriteSome
  <1>1. UNCHANGED <<open, undefined>>
    BY DEF WriteSome, peerVars
  <1>2. /\ out_msg[c] # <<>> /\ open[c] /\ xfered[c] # Parts /\ out_msg' = out_msg
    BY SendEffect
  <1>3. Undelivered(c) = out_msg[c]
    BY <1>2 DEF Undelivered
  <1>4. \A d \in Readers : d # c => Undelivered(d)' = Undelivered(d) /\ got'[d] = got[d]
    <2>1. \A d \in Clients : d # c => LeavesAlone(d)
      BY OneClient DEF IInv, ClientThread
    <2> QED BY <1>0, <2>1, QueuedSame DEF LeavesAlone
  <1>5. CASE xfered' = [xfered EXCEPT ![c] = 1] /\ got' = got
    <2>1. xfered'[c] = 1 /\ 1 # Parts
      BY <1>0, <1>5 DEF Parts
    <2>2. Undelivered(c)' = Undelivered(c)
      BY <1>2, <2>1 DEF Undelivered
    <2> QED BY <1>1, <1>4, <1>5, <2>2, NothingDelivered
  <1>6. CASE /\ xfered' = [xfered EXCEPT ![c] = Parts]
             /\ got' = [got EXCEPT ![c] = Append(@, Head(out_msg[c]))]
    <2>1. xfered'[c] = Parts /\ got'[c] = Append(got[c], Head(out_msg[c]))
      BY <1>0, <1>6
    <2>2. Undelivered(c)' = Tail(out_msg[c])
      BY <1>2, <2>1 DEF Undelivered
    <2> DEFINE P == [d \in Readers |-> Undelivered(d)]
               G == [d \in Readers |-> got[d]]
               K == {d \in Readers : ~open[d] \/ undefined}
    <2>3. P[c] = out_msg[c] /\ G[c] = got[c] /\ c \notin K
      BY <1>0, <1>2, <1>3
    <2>4. P' = [P EXCEPT ![c] = Tail(@)]
      BY <1>0, <1>3, <1>4, <2>2
    <2>5. G' = [G EXCEPT ![c] = Append(@, Head(P[c]))]
      BY <1>0, <1>4, <2>1, <2>3
    <2>6. K' = K
      BY <1>1
    <2>7. Delivery!Deliver(c)
      BY <1>2, <2>3, <2>4, <2>5, <2>6, Zenon DEF Delivery!Deliver
    <2> QED BY <1>0, <2>7, Zenon DEF Delivery!Next
  <1> QED BY <1>5, <1>6, SendEffect

\* A connection ends, on either side, or all of them do.
LEMMA CloseStep ==
  ASSUME IInv, NEW c \in Clients,
         {d \in Readers : ~open[d] \/ undefined} \subseteq
           {d \in Readers : ~open'[d] \/ undefined'},
         ~ open'[c] \/ UNCHANGED <<out_msg, xfered, got>>,
         Undelivered(c)' \in {Undelivered(c), <<>>}, got'[c] \in {got[c], <<>>},
         \A d \in Readers : d # c => Undelivered(d)' = Undelivered(d) /\ got'[d] = got[d]
  PROVE  Delivery!Close
  <1> DEFINE P == [d \in Readers |-> Undelivered(d)]
             G == [d \in Readers |-> got[d]]
             K == {d \in Readers : ~open[d] \/ undefined}
  <1>1. K \subseteq K'
    OBVIOUS
  <1>2. P' \in {P} \cup {[P EXCEPT ![d] = <<>>] : d \in K'}
    <2>1. CASE P' = P
      BY <2>1
    <2>2. CASE P' # P
      <3>1. /\ c \in Readers /\ Undelivered(c)' = <<>> /\ ~ open'[c]
        BY <2>2 DEF Undelivered
      <3>2. c \in K' /\ P' = [P EXCEPT ![c] = <<>>]
        BY <3>1
      <3> QED BY <3>2
    <2> QED BY <2>1, <2>2
  <1>3. G' \in {G} \cup {[G EXCEPT ![d] = <<>>] : d \in K'}
    <2>1. CASE G' = G
      BY <2>1
    <2>2. CASE G' # G
      <3>1. /\ c \in Readers /\ got'[c] = <<>> /\ ~ open'[c]
        BY <2>2
      <3>2. c \in K' /\ G' = [G EXCEPT ![c] = <<>>]
        BY <3>1
      <3> QED BY <3>2
    <2> QED BY <2>1, <2>2
  <1> QED BY <1>1, <1>2, <1>3, Zenon DEF Delivery!Close, Delivery!Forget

LEMMA DeliveryInit == Init => Delivery!Init
  <1> SUFFICES ASSUME Init PROVE Delivery!Init
    OBVIOUS
  <1>1. \A c \in Readers : Undelivered(c) = <<>> /\ got[c] = <<>> /\ open[c]
    BY DEF Init, Undelivered, Readers, Parts
  <1>2. ~ undefined
    BY DEF Init
  <1> QED BY <1>1, <1>2 DEF Delivery!Init

LEMMA DeliveryStep == IInv /\ [Next]_vars => [Delivery!Next]_(Delivery!vars)
  <1> SUFFICES ASSUME IInv, [Next]_vars PROVE [Delivery!Next]_(Delivery!vars)
    OBVIOUS
  <1>0. TypeOK /\ Readers \subseteq Clients
    BY DEF IInv, Readers
  <1> USE DEF serverVars, queueVars, registered, socketVars, peerVars, Goto
  <1>a. ASSUME UNCHANGED <<out_msg, xfered, got, open, undefined>>
        PROVE  [Delivery!Next]_(Delivery!vars)
    BY <1>0, <1>a, QueuedSame, NothingDelivered
  <1>1. CASE UNCHANGED vars
    BY <1>1, <1>a DEF vars
  <1>2. ASSUME NEW c \in Clients, ~ undefined, ClientThread(c)
        PROVE  [Delivery!Next]_(Delivery!vars)
    <2>0. \A d \in Readers : d # c => /\ Undelivered(d)' = Undelivered(d)
                                      /\ got'[d] = got[d] /\ open'[d] = open[d]
      BY <1>0, <1>2, OneClient, QueuedSame DEF LeavesAlone
    <2>1. CASE WriteSome(c)
      BY <1>2, <2>1, DeliverStep
    <2>2. CASE WritePop(c)
      <3>1. \A d \in Clients : Undelivered(d)' = Undelivered(d)
        BY <2>2, PopQueued
      <3>2. UNCHANGED <<got, open, undefined>>
        BY <2>2 DEF WritePop
      <3> QED BY <1>0, <3>1, <3>2, NothingDelivered
    <2>3. CASE Reply(c)
      <3> DEFINE f == [kind |-> "reply", cookie |-> read_msg[c].cookie,
                       val |-> read_msg[c].val]
      <3>1. /\ out_msg' = [out_msg EXCEPT ![c] = @ \o <<f>>] /\ thread[c] = "reply"
            /\ UNCHANGED <<xfered, got, open, undefined>>
        BY <2>3 DEF Reply, ClientMsgWrite
      <3>2. f \in Message
        BY <3>1, ReplyType
      <3> HIDE DEF f
      <3>3. PICK m \in Seq(Message) : m = <<f>>
        <4>1. <<f>> \in Seq(Message)
          BY <3>2
        <4> QED BY <4>1, Zenon
      <3>4. out_msg'[c] = out_msg[c] \o m /\ xfered'[c] = xfered[c] /\ got'[c] = got[c]
        BY <1>0, <3>1, <3>3 DEF TypeOK
      <3>5. Undelivered(c)' = Undelivered(c) \o m /\ Undelivered(c) \in Seq(Message)
        BY <3>4, QueuedMore, QueueTypes
      <3>6. CASE c \in Readers
        BY <1>0, <2>0, <3>1, <3>5, <3>6, QueueStep
      <3>7. CASE c \notin Readers
        BY <1>0, <2>0, <3>1, <3>7, NothingDelivered
      <3> QED BY <3>6, <3>7
    <2>4. CASE DestroyRemove(c)
      <3>1. UNCHANGED <<out_msg, xfered, got, open>> /\ (undefined' = undefined \/ undefined')
        BY <2>4 DEF DestroyRemove
      <3>2. CASE undefined' = undefined
        BY <1>a, <3>1, <3>2
      <3>3. CASE undefined'
        <4>1. Undelivered(c)' = Undelivered(c)
          BY <3>1, QueuedSame
        <4>2. Delivery!Close
          BY <2>0, <3>1, <3>3, <4>1, CloseStep
        <4> QED BY <4>2, Zenon DEF Delivery!Next
      <3> QED BY <3>1, <3>2, <3>3
    <2>5. CASE DestroyFree(c)
      <3>1. /\ out_msg' = [out_msg EXCEPT ![c] = <<>>] /\ xfered' = [xfered EXCEPT ![c] = 0]
            /\ thread[c] = "free" /\ UNCHANGED <<got, open, undefined>>
        BY <2>5 DEF DestroyFree
      <3>2. ~ open'[c]
        BY <3>1 DEF IInv, Writing
      <3>3. Undelivered(c)' = <<>>
        <4>1. out_msg'[c] = <<>> /\ xfered'[c] = 0
          BY <1>0, <3>1 DEF TypeOK
        <4> QED BY <4>1 DEF Undelivered, Parts
      <3>4. Delivery!Close
        BY <2>0, <3>1, <3>2, <3>3, CloseStep
      <3> QED BY <3>4, Zenon DEF Delivery!Next
    <2>6. CASE UNCHANGED <<out_msg, xfered, got, open, undefined>>
      BY <1>a, <2>6
    <2>7. \/ UNCHANGED <<out_msg, xfered, got, open, undefined>>
          \/ WriteSome(c) \/ WritePop(c) \/ Reply(c) \/ DestroyRemove(c) \/ DestroyFree(c)
      BY <1>2 DEF ClientThread, WritePeek, WriteDone, WriteNothing, WriteFails, ReadRequest,
                  ReadEnd, CommandEmits, CommandReads, DestroyBegin
    <2> QED BY <2>1, <2>2, <2>3, <2>4, <2>5, <2>6, <2>7
  <1>3. ASSUME NEW c \in Clients, PeerClose(c)
        PROVE  [Delivery!Next]_(Delivery!vars)
    <2>1. /\ open' = [open EXCEPT ![c] = FALSE] /\ got' = [got EXCEPT ![c] = <<>>]
          /\ UNCHANGED <<out_msg, xfered, undefined>>
      BY <1>3 DEF PeerClose
    <2>2. ~ open'[c] /\ got'[c] = <<>>
      BY <1>0, <2>1 DEF TypeOK
    <2>3. \A d \in Readers : d # c => got'[d] = got[d] /\ open'[d] = open[d]
      BY <1>0, <2>1 DEF TypeOK
    <2>4. \A d \in Clients : Undelivered(d)' = Undelivered(d)
      BY <2>1 DEF Undelivered
    <2>5. {d \in Readers : ~open[d] \/ undefined} \subseteq
            {d \in Readers : ~open'[d] \/ undefined'}
      BY <2>1, <2>2, <2>3
    <2>6. Delivery!Close
      BY <1>0, <2>2, <2>3, <2>4, <2>5, CloseStep
    <2> QED BY <2>6, Zenon DEF Delivery!Next
  <1>4. ASSUME NEW c \in Clients, SourceAccept(c)
        PROVE  [Delivery!Next]_(Delivery!vars)
    BY <1>4, <1>a DEF SourceAccept
  <1>5. CASE EmitVisit
    <2>1. PICK c \in Clients : c = Head(emission.rest)
      BY <1>5, VisitEffect
    <2>2. PICK m \in Seq(Message) : m = VisitFor(c)
      BY VisitTypes
    <2>3. /\ out_msg' = [out_msg EXCEPT ![c] = @ \o m]
          /\ UNCHANGED <<xfered, got, open, undefined>>
      BY <1>5, <2>1, <2>2, VisitEffect DEF EmitVisit
    <2>4. out_msg'[c] = out_msg[c] \o m /\ xfered'[c] = xfered[c] /\ got'[c] = got[c]
      BY <1>0, <2>3 DEF TypeOK
    <2>5. Undelivered(c)' = Undelivered(c) \o m /\ Undelivered(c) \in Seq(Message)
      BY <2>4, QueuedMore, QueueTypes
    <2>6. \A d \in Readers : d # c => Undelivered(d)' = Undelivered(d)
      BY <1>0, <1>5, <2>1, OneVisit, QueuedSame DEF LeavesAlone
    <2>7. CASE c \in Readers
      BY <2>3, <2>5, <2>6, <2>7, QueueStep
    <2>8. CASE c \notin Readers
      BY <2>3, <2>6, <2>8, NothingDelivered
    <2> QED BY <2>7, <2>8
  <1>6. CASE EmitEnd \/ ServerEmits \/ Shutdown
    BY <1>6, <1>a DEF EmitEnd, ServerEmits, Shutdown
  <1> QED BY <1>1, <1>2, <1>3, <1>4, <1>5, <1>6 DEF Next, Defined, Emit

\* The threads that queue messages, the callback that writes them without the
\* lock, in parts, and the ends of connections never lose, double, tear or
\* reorder a message: what the clients receive is a behaviour of IpcDelivery,
\* but for what must happen in the end.
THEOREM DeliversSafely == Spec => Delivery!Safety
  BY Invariant, DeliveryInit, DeliveryStep, PTL DEF Spec, Delivery!Safety
=============================================================================
