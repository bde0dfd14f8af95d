------------------------- MODULE ClientCacheProofs --------------------------
(***************************************************************************)
(* The cache of a client that was not overtaken is up to date when nothing *)
(* is under way (ClientCache.tla), for any playlists and entries and any   *)
(* number of changes.                                                      *)
(*                                                                         *)
(* That is not inductive: it says nothing of what is under way.  The       *)
(* invariant says that everything under way is true of a history H, of     *)
(* what the server held at each version, and that the client's list is     *)
(* what it held at the newest version that the client has dealt with,      *)
(* unless it is going to be replaced.  The history is no variable of the   *)
(* model: it is enough that there is one, and each step of the server      *)
(* makes it longer.  So it is with r, the version at which the client was  *)
(* registered for both broadcasts, from which on it is told everything.    *)
(*                                                                         *)
(* Sequences of messages appear in the steps as sets, and the order of the *)
(* inbox as a fact about its pairs (InOrder) that the tail inherits.       *)
(***************************************************************************)
EXTENDS ClientCache, TLAPS

-----------------------------------------------------------------------------
(***************************************************************************)
(* The invariant                                                           *)
(***************************************************************************)

Notices == {"changed", "loaded"}
Answers == {"values", "entries", "name"}

Item == Entry \cup {Zero}

Changes ==
  [type : {"ADD", "INSERT", "MOVE", "REMOVE", "CLEAR", "SHUFFLE"},
   pos : Nat, newpos : Nat, id : Item]

Message ==
  [is : {"changed"}, name : Name, change : Changes, version : Nat]
    \cup [is : {"loaded"}, name : Name, version : Nat]
    \cup [is : Answers, sync : BOOLEAN, list : Seq(Entry), name : Name,
          version : Nat]

\* A load has at most one broadcast to come, a request one answer.
Types ==
  /\ TypeOK
  /\ loading \in Seq(Message) /\ version \in Nat
  /\ answer \in Seq(Message)
  /\ requests \in Seq([what : Notices \cup Answers, sync : BOOLEAN])
  /\ inbox \in Seq(Message) /\ parsed \in Seq(Message)
  /\ newest \in 0..version
  /\ Len(loading) <= 1 /\ Len(answer) <= 1

\* What a change that is told makes of a list.
Makes(c, s, t) ==
  \/ c.type \in {"SHUFFLE", "CLEAR"}
  \/ (c.type = "ADD" /\ t = Append(s, c.id))
  \/ (c.type = "REMOVE" /\ t = Without(s, c.pos))
  \/ (c.type = "INSERT" /\ t = Inserted(s, c.pos, c.id))
  \/ (c.type = "MOVE" /\ t = Inserted(Without(s, c.pos), c.newpos, c.id))

\* H[k] is the server at version k.
History(H) == H[version].lists = lists /\ H[version].active = active

ListOf(H, k) == H[k].lists[H[k].active]

\* Notice m tells how the server went from s to t.
Tells(m, s, t) ==
  /\ t.active = s.active
  /\ \A n \in Name \ {m.name} : t.lists[n] = s.lists[n]
  /\ Makes(m.change, s.lists[m.name], t.lists[m.name])

\* What is in a message was so at its version, which is at most v.
NoticeTrue(m, H, v) ==
  /\ m.version \in 1..v
  /\ m.is = "changed" => Tells(m, H[m.version - 1], H[m.version])
  /\ m.is = "loaded" => H[m.version].active = m.name

\* The client was registered at version r.
AnswerTrue(m, H, r, v) ==
  /\ m.version \in r..v
  /\ m.list = ListOf(H, m.version)
  /\ m.name = H[m.version].active

\* m was told after what describes version k.
Later(k, m) == \/ k < m.version
               \/ (k = m.version /\ m.is = "loaded")

\* Notice p may come behind message m: no answer is behind what it knows.
Follows(m, p) == /\ m.is \in Notices => m.version < p.version
                 /\ m.is \in Answers => Later(m.version, p)

InOrder(q) ==
  \A i, j \in DOMAIN q : i < j /\ q[j].is \in Notices => Follows(q[i], q[j])

InboxTrue(H, r) ==
  \A m \in Range(inbox) :
    /\ m.is \in Notices => /\ NoticeTrue(m, H, version)
                           /\ Later(newest, m)
                           /\ loading # <<>> => m.version < version
    /\ m.is = "loaded" => m.version >= r
    /\ m.is \in Answers => AnswerTrue(m, H, r, version)

AnswersTrue(H, r) ==
  \A m \in Range(answer) \cup Range(parsed) :
    m.is \in Answers /\ AnswerTrue(m, H, r, version)

ParsedFirst ==
  \A m \in Range(parsed), p \in Range(inbox) :
    p.is \in Notices => Later(m.version, p)

LoadingTrue(H) ==
  \A m \in Range(loading) :
    m.is = "loaded" /\ m.version = version /\ NoticeTrue(m, H, version)

Truth(H, r) ==
  /\ r \in 0..version
  /\ History(H) /\ InOrder(inbox) /\ InboxTrue(H, r) /\ AnswersTrue(H, r)
  /\ ParsedFirst /\ LoadingTrue(H)

\* Before the client is registered for both broadcasts, the first crashes it.
Beginning ==
  /\ phase = "values" /\ answer = <<>> /\ parsed = <<>>
  /\ active_playlist_name = NoName
  /\ \A m \in Range(inbox) : m.is = "changed"
  /\ \/ /\ registered = {}
        /\ requests = <<Ask("changed", FALSE), Ask("loaded", FALSE),
                        Ask("values", TRUE)>>
     \/ /\ registered = {"changed"}
        /\ requests = <<Ask("loaded", FALSE), Ask("values", TRUE)>>

\* Messages that the client will get: what they tell, and whether they load a
\* playlist later than version k.
ToCome == Range(inbox) \cup Range(loading)

NoticeIs(k) == \E m \in ToCome : m.is \in Notices /\ m.version = k

LoadIs(k) == \E m \in ToCome : m.is = "loaded" /\ m.version > k

\* Once it is registered, every version since then that it has not dealt with
\* is told by a notice to come, and if none is of a load, the active playlist
\* stays.
Following(H, r) ==
  /\ \A q \in Range(requests) : q.what \in Answers
  /\ \A k \in r + 1..version : k > newest => NoticeIs(k)
  /\ \A k \in r..version : k >= newest =>
       LoadIs(k) \/ \A j \in k..version : H[j].active = active

Registered(H, r) == Beginning \/ (registered = Notices /\ Following(H, r))

LoadedToCome == \E m \in ToCome : m.is = "loaded"

\* The list is to be replaced: by the answer to a reload or to the first
\* request, or by the reload that a load will cause.
Asked(m) == m.is = "entries" /\ ~ m.sync

ReloadToCome ==
  \/ phase \in {"values", "entries"}
  \/ Ask("entries", FALSE) \in Range(requests)
  \/ \E m \in Range(answer) \cup Range(inbox) : Asked(m)
  \/ LoadedToCome

\* What cli_cache_refresh waits for is on its way.
Awaited ==
  \/ \E q \in Range(requests) : q.sync
  \/ \E m \in Range(answer) \cup Range(inbox) : m.is \in Answers /\ m.sync
  \/ parsed # <<>>

\* If the list is not to be replaced, it is that of the newest version dealt
\* with; if no load is to come, the name is that of the active playlist.
ListCached(H, r) ==
  ~crashed /\ ~overtaken /\ ~ReloadToCome =>
    newest >= r /\ active_playlist = ListOf(H, newest)

NameCached ==
  ~crashed /\ ~overtaken /\ ~LoadedToCome
    /\ (phase = "run" \/ active_playlist_name # NoName)
    => active_playlist_name = active

Inv(H, r) == /\ Truth(H, r) /\ Registered(H, r)
             /\ phase # "run" => Awaited
             /\ ListCached(H, r) /\ NameCached

IInv == Types /\ \E H, r : Inv(H, r)

-----------------------------------------------------------------------------
(***************************************************************************)
(* Sequences                                                               *)
(***************************************************************************)

LEMMA JoinedType ==
  ASSUME NEW T, NEW x \in Seq(T), NEW y \in Seq(T)
  PROVE  x \o y \in Seq(T) /\ Len(x \o y) = Len(x) + Len(y)
OBVIOUS

LEMMA TailRange ==
  ASSUME NEW T, NEW q \in Seq(T), q # <<>>
  PROVE  /\ Head(q) \in T /\ Tail(q) \in Seq(T)
         /\ Range(q) = {Head(q)} \cup Range(Tail(q))
<1>1. /\ Head(q) \in T /\ Head(q) = q[1] /\ Len(q) \in Nat /\ Len(q) > 0
      /\ Tail(q) \in Seq(T) /\ DOMAIN q = 1..Len(q)
      /\ DOMAIN Tail(q) = 1..Len(q) - 1
      /\ \A i \in 1..Len(q) - 1 : Tail(q)[i] = q[i + 1]
  OBVIOUS
<1>2. ASSUME NEW x \in Range(q) PROVE x \in {Head(q)} \cup Range(Tail(q))
  <2>1. PICK i \in 1..Len(q) : q[i] = x
    BY <1>1 DEF Range
  <2>2. CASE i = 1
    BY <1>1, <2>1, <2>2
  <2>3. CASE i # 1
    <3>1. i - 1 \in 1..Len(q) - 1 /\ i - 1 + 1 = i
      BY <1>1, <2>3
    <3> QED
      BY <1>1, <2>1, <3>1 DEF Range
  <2> QED
    BY <2>2, <2>3
<1>3. ASSUME NEW x \in {Head(q)} \cup Range(Tail(q)) PROVE x \in Range(q)
  <2>1. Head(q) \in Range(q)
    BY <1>1 DEF Range
  <2>2. ASSUME x \in Range(Tail(q)) PROVE x \in Range(q)
    <3>1. PICK i \in 1..Len(q) - 1 : Tail(q)[i] = x
      BY <1>1, <2>2 DEF Range
    <3>2. i + 1 \in 1..Len(q)
      BY <1>1
    <3> QED
      BY <1>1, <3>1, <3>2 DEF Range
  <2> QED
    BY <1>3, <2>1, <2>2
<1> QED
  BY <1>1, <1>2, <1>3

LEMMA AppendRange ==
  ASSUME NEW T, NEW q \in Seq(T), NEW m \in T
  PROVE  Append(q, m) \in Seq(T) /\ Range(Append(q, m)) = Range(q) \cup {m}
<1>1. /\ DOMAIN q = 1..Len(q) /\ Len(q) \in Nat
      /\ Append(q, m) \in Seq(T) /\ DOMAIN Append(q, m) = 1..Len(q) + 1
      /\ \A i \in 1..Len(q) : Append(q, m)[i] = q[i]
      /\ Append(q, m)[Len(q) + 1] = m
  OBVIOUS
<1>2. Range(Append(q, m)) \subseteq Range(q) \cup {m}
  BY <1>1 DEF Range
<1>3. m \in Range(Append(q, m))
  BY <1>1 DEF Range
<1>4. Range(q) \subseteq Range(Append(q, m))
  BY <1>1 DEF Range
<1> QED
  BY <1>1, <1>2, <1>3, <1>4

LEMMA OneRange ==
  ASSUME NEW T, NEW m \in T
  PROVE  /\ <<m>> \in Seq(T) /\ Range(<<m>>) = {m} /\ Head(<<m>>) = m
         /\ <<m>> # <<>>
BY DEF Range

LEMMA EmptyRange == Range(<<>>) = {}
BY DEF Range

LEMMA InRangeType ==
  ASSUME NEW T, NEW q \in Seq(T), NEW m \in Range(q)
  PROVE  m \in T /\ q # <<>>
<1>1. PICK i \in 1..Len(q) : q[i] = m
  BY DEF Range
<1> QED
  BY <1>1

LEMMA MessageFields ==
  ASSUME NEW m \in Message
  PROVE  /\ m.version \in Nat /\ m.name \in Name
         /\ m.is \in Notices \/ m.is \in Answers
         /\ m.is = "changed" => m.change \in Changes
         /\ m.is \in Answers => m.sync \in BOOLEAN /\ m.list \in Seq(Entry)
         /\ ~(m.is \in Notices /\ m.is \in Answers)
BY DEF Message, Notices, Answers

-----------------------------------------------------------------------------
(***************************************************************************)
(* The order of the inbox                                                  *)
(***************************************************************************)

LEMMA OrderOfTail ==
  ASSUME NEW q \in Seq(Message), q # <<>>, InOrder(q)
  PROVE  /\ InOrder(Tail(q))
         /\ \A p \in Range(Tail(q)) : p.is \in Notices => Follows(Head(q), p)
<1>1. /\ Head(q) = q[1] /\ Len(q) \in Nat /\ Len(q) > 0
      /\ DOMAIN q = 1..Len(q) /\ DOMAIN Tail(q) = 1..Len(q) - 1
      /\ \A i \in 1..Len(q) - 1 : Tail(q)[i] = q[i + 1]
  OBVIOUS
<1>2. InOrder(Tail(q))
  <2> SUFFICES ASSUME NEW i \in 1..Len(q) - 1, NEW j \in 1..Len(q) - 1, i < j,
                      Tail(q)[j].is \in Notices
               PROVE  Follows(Tail(q)[i], Tail(q)[j])
    BY <1>1, Zenon DEF InOrder
  <2>1. i + 1 \in 1..Len(q) /\ j + 1 \in 1..Len(q) /\ i + 1 < j + 1
    BY <1>1
  <2>2. Tail(q)[i] = q[i + 1] /\ Tail(q)[j] = q[j + 1]
    BY <1>1
  <2> QED
    BY <1>1, <2>1, <2>2, Zenon DEF InOrder
<1>3. ASSUME NEW p \in Range(Tail(q)), p.is \in Notices PROVE Follows(Head(q), p)
  <2>1. PICK i \in 1..Len(q) - 1 : Tail(q)[i] = p
    BY <1>1 DEF Range
  <2>2. 1 \in 1..Len(q) /\ i + 1 \in 1..Len(q) /\ 1 < i + 1 /\ q[i + 1] = p
    BY <1>1, <2>1
  <2> QED
    BY <1>1, <1>3, <2>2, Zenon DEF InOrder
<1> QED
  BY <1>2, <1>3

LEMMA OrderOfAppend ==
  ASSUME NEW q \in Seq(Message), NEW m \in Message, InOrder(q),
         m.is \in Notices => \A p \in Range(q) : Follows(p, m)
  PROVE  InOrder(Append(q, m))
<1> DEFINE s == Append(q, m)
<1>1. /\ DOMAIN q = 1..Len(q) /\ Len(q) \in Nat
      /\ DOMAIN s = 1..Len(q) + 1
      /\ \A i \in 1..Len(q) : s[i] = q[i]
      /\ s[Len(q) + 1] = m
  OBVIOUS
<1> HIDE DEF s
<1>2. SUFFICES ASSUME NEW i \in 1..Len(q) + 1, NEW j \in 1..Len(q) + 1, i < j,
                      s[j].is \in Notices
               PROVE  Follows(s[i], s[j])
  <2>1. InOrder(s)
    BY <1>1, <1>2, Zenon DEF InOrder
  <2> QED
    BY <2>1 DEF s
<1>3. i \in 1..Len(q) /\ s[i] = q[i]
  BY <1>1, <1>2
<1>4. CASE j \in 1..Len(q)
  <2>1. s[j] = q[j]
    BY <1>1, <1>4
  <2> QED
    BY <1>1, <1>2, <1>3, <1>4, <2>1, Zenon DEF InOrder
<1>5. CASE j \notin 1..Len(q)
  <2>1. s[j] = m
    BY <1>1, <1>5
  <2>2. q[i] \in Range(q)
    BY <1>1, <1>3 DEF Range
  <2> QED
    BY <1>2, <1>3, <2>1, <2>2
<1> QED
  BY <1>4, <1>5

-----------------------------------------------------------------------------
(***************************************************************************)
(* The history                                                             *)
(***************************************************************************)

LEMMA HistoryGrows ==
  ASSUME NEW H, NEW G, NEW v \in Nat, NEW r \in 0..v,
         \A k \in 0..v : G[k] = H[k],
         NEW m \in Message
  PROVE  /\ NoticeTrue(m, H, v) => NoticeTrue(m, G, v + 1)
         /\ AnswerTrue(m, H, r, v) => AnswerTrue(m, G, r, v + 1)
<1>1. m.version \in Nat
  BY MessageFields
<1>2. ASSUME NoticeTrue(m, H, v) PROVE NoticeTrue(m, G, v + 1)
  <2>1. m.version \in 0..v /\ m.version - 1 \in 0..v /\ m.version \in 1..v + 1
    BY <1>1, <1>2 DEF NoticeTrue
  <2>2. G[m.version] = H[m.version] /\ G[m.version - 1] = H[m.version - 1]
    BY <2>1
  <2> QED
    BY <1>2, <2>1, <2>2, Zenon DEF NoticeTrue
<1>3. ASSUME AnswerTrue(m, H, r, v) PROVE AnswerTrue(m, G, r, v + 1)
  <2>1. m.version \in 0..v /\ m.version \in r..v + 1
    BY <1>1, <1>3 DEF AnswerTrue
  <2>2. G[m.version] = H[m.version]
    BY <2>1
  <2> QED
    BY <1>3, <2>1, <2>2, Zenon DEF AnswerTrue, ListOf
<1> QED
  BY <1>2, <1>3

-----------------------------------------------------------------------------
(***************************************************************************)
(* The other client's commands                                             *)
(***************************************************************************)

LEMMA Notified ==
  ASSUME Types, NEW m \in Message, NEW kind, Notify(kind, m), InOrder(inbox),
         m.is \in Notices => \A p \in Range(inbox) : Follows(p, m)
  PROVE  /\ inbox' \in Seq(Message) /\ InOrder(inbox')
         /\ Range(inbox) \subseteq Range(inbox')
         /\ Range(inbox') \subseteq Range(inbox) \cup {m}
         /\ kind \in registered => m \in Range(inbox')
         /\ kind \notin registered => inbox' = inbox
<1>1. inbox \in Seq(Message)
  BY DEF Types
<1>2. CASE kind \in registered
  <2>1. inbox' = Append(inbox, m)
    BY <1>2 DEF Notify
  <2> QED
    BY <1>1, <1>2, <2>1, AppendRange, OrderOfAppend
<1>3. CASE kind \notin registered
  <2>1. inbox' = inbox
    BY <1>3 DEF Notify
  <2> QED
    BY <1>1, <1>3, <2>1
<1> QED
  BY <1>2, <1>3

\* A change of the server's state is the last of the history.
LEMMA NextVersion ==
  ASSUME Types, NEW H, version' = version + 1
  PROVE  \E G : /\ \A k \in 0..version : G[k] = H[k]
                /\ G[version + 1].lists = lists' /\ G[version + 1].active = active'
<1> DEFINE last == [lists |-> lists', active |-> active']
           G == [k \in 0..version + 1 |-> IF k = version + 1 THEN last ELSE H[k]]
<1>1. version \in Nat
  BY DEF Types
<1>2. G[version + 1] = last
  BY <1>1
<1>3. \A k \in 0..version : G[k] = H[k]
  BY <1>1
<1>4. last.lists = lists' /\ last.active = active'
  OBVIOUS
<1> QED
  BY <1>2, <1>3, <1>4

\* What was true of messages stays true of them when the history grows.
LEMMA TruthGrows ==
  ASSUME Types, NEW H, NEW r, Truth(H, r), NEW G,
         \A k \in 0..version : G[k] = H[k]
  PROVE  /\ \A m \in Range(inbox) :
              /\ m.is \in Notices => NoticeTrue(m, G, version + 1) /\ m.version \in 1..version
              /\ m.is \in Answers => AnswerTrue(m, G, r, version + 1) /\ m.version \in 0..version
         /\ \A m \in Range(answer) \cup Range(parsed) :
              AnswerTrue(m, G, r, version + 1) /\ m.version \in 0..version
         /\ \A m \in Range(inbox) \cup Range(answer) \cup Range(parsed) \cup Range(loading) :
              m \in Message
<1>1. version \in Nat /\ r \in 0..version /\ inbox \in Seq(Message)
      /\ answer \in Seq(Message) /\ parsed \in Seq(Message) /\ loading \in Seq(Message)
  BY DEF Types, Truth
<1>2. \A m \in Range(inbox) \cup Range(answer) \cup Range(parsed) \cup Range(loading) :
         m \in Message
  BY <1>1, InRangeType
<1>3. ASSUME NEW m \in Range(inbox)
      PROVE  /\ m.is \in Notices => NoticeTrue(m, G, version + 1) /\ m.version \in 1..version
             /\ m.is \in Answers => AnswerTrue(m, G, r, version + 1) /\ m.version \in 0..version
  <2>1. m \in Message
    BY <1>2
  <2>2. /\ m.is \in Notices => NoticeTrue(m, H, version)
        /\ m.is \in Answers => AnswerTrue(m, H, r, version)
    BY Zenon DEF Truth, InboxTrue
  <2>3. /\ m.is \in Notices => NoticeTrue(m, G, version + 1)
        /\ m.is \in Answers => AnswerTrue(m, G, r, version + 1)
    BY <1>1, <2>1, <2>2, HistoryGrows
  <2>4. /\ m.is \in Notices => m.version \in 1..version
        /\ m.is \in Answers => m.version \in 0..version
    BY <1>1, <2>2 DEF NoticeTrue, AnswerTrue
  <2> QED
    BY <2>3, <2>4
<1>4. ASSUME NEW m \in Range(answer) \cup Range(parsed)
      PROVE  AnswerTrue(m, G, r, version + 1) /\ m.version \in 0..version
  <2>1. m \in Message
    BY <1>2
  <2>2. AnswerTrue(m, H, r, version)
    BY Zenon DEF Truth, AnswersTrue
  <2>3. AnswerTrue(m, G, r, version + 1)
    BY <1>1, <2>1, <2>2, HistoryGrows
  <2>4. m.version \in 0..version
    BY <1>1, <2>2 DEF AnswerTrue
  <2> QED
    BY <2>3, <2>4
<1> QED
  BY <1>2, <1>3, <1>4

LEMMA EditStep ==
  ASSUME Types, NEW H, NEW r, Inv(H, r),
         NEW n \in Name, NEW list \in Seq(Entry), NEW change \in Changes,
         Edit(n, list, change), Makes(change, lists[n], list), loading = <<>>,
         UNCHANGED <<threadVars, requests, phase, parsed, cacheVars, crashed,
                     ghostVars>>
  PROVE  \E G : Inv(G, r)'
<1> DEFINE m == [is |-> "changed", name |-> n, change |-> change,
                 version |-> version + 1]
<1>1. /\ version \in Nat /\ newest \in 0..version /\ r \in 0..version
      /\ lists \in [Name -> Seq(Entry)] /\ active \in Name
  BY DEF Types, TypeOK, Inv, Truth
<1>2. /\ lists' = [lists EXCEPT ![n] = list] /\ version' = version + 1
      /\ Notify("changed", m) /\ active' = active /\ loading' = <<>>
      /\ registered' = registered /\ answer' = answer /\ requests' = requests
      /\ phase' = phase /\ parsed' = parsed /\ crashed' = crashed
      /\ active_playlist' = active_playlist
      /\ active_playlist_name' = active_playlist_name
      /\ newest' = newest /\ overtaken' = overtaken
  BY Zenon DEF Edit, threadVars, cacheVars, ghostVars
<1>3. /\ m \in Message /\ m.is = "changed" /\ m.version = version + 1
      /\ m.name = n /\ m.change = change
      /\ m.is \in Notices /\ ~(m.is \in Answers)
  BY <1>1 DEF Message, Notices, Answers
<1> HIDE DEF m
<1>4. PICK G : /\ \A k \in 0..version : G[k] = H[k]
               /\ G[version + 1].lists = lists' /\ G[version + 1].active = active'
  BY <1>2, NextVersion
<1>5. Truth(H, r)
  BY DEF Inv
<1>6. /\ \A p \in Range(inbox) :
           /\ p.is \in Notices => NoticeTrue(p, G, version + 1) /\ p.version \in 1..version
           /\ p.is \in Answers => AnswerTrue(p, G, r, version + 1) /\ p.version \in 0..version
      /\ \A p \in Range(answer) \cup Range(parsed) :
           AnswerTrue(p, G, r, version + 1) /\ p.version \in 0..version
  BY <1>4, <1>5, TruthGrows
<1>7. /\ InOrder(inbox') /\ Range(inbox) \subseteq Range(inbox')
      /\ Range(inbox') \subseteq Range(inbox) \cup {m}
      /\ "changed" \in registered => m \in Range(inbox')
  <2>1. \A p \in Range(inbox) : Follows(p, m)
    BY <1>1, <1>3, <1>6 DEF Follows, Later
  <2>2. InOrder(inbox)
    BY <1>5 DEF Truth
  <2> QED
    BY <1>2, <1>3, <2>1, <2>2, Notified
<1>8. H[version].lists = lists /\ H[version].active = active /\ G[version] = H[version]
  BY <1>1, <1>4, <1>5 DEF Truth, History
<1>9. NoticeTrue(m, G, version + 1)
  <2>1. version + 1 \in 1..version + 1 /\ version + 1 - 1 = version
    BY <1>1
  <2>2. Tells(m, G[version], G[version + 1])
    BY <1>1, <1>2, <1>3, <1>4, <1>8 DEF Tells
  <2>3. m.version - 1 = version
    BY <1>1, <1>3
  <2>4. Tells(m, G[m.version - 1], G[m.version])
    BY <1>3, <2>2, <2>3, Zenon
  <2>5. m.is # "loaded" /\ m.version \in 1..version + 1
    BY <1>3, <2>1
  <2> QED
    BY <2>4, <2>5, Zenon DEF NoticeTrue
<1>10. Truth(G, r)'
  <2>1. r \in 0..version' /\ History(G)' /\ InOrder(inbox)'
    BY <1>1, <1>2, <1>4, <1>7 DEF History
  <2>2. InboxTrue(G, r)'
    <3> SUFFICES ASSUME NEW p \in Range(inbox')
                 PROVE  /\ p.is \in Notices => /\ NoticeTrue(p, G, version + 1)
                                               /\ Later(newest, p)
                        /\ p.is = "loaded" => p.version >= r
                        /\ p.is \in Answers => AnswerTrue(p, G, r, version + 1)
      BY <1>2, Zenon DEF InboxTrue
    <3>1. CASE p = m
      BY <1>1, <1>3, <1>9, <3>1 DEF Later
    <3>2. CASE p \in Range(inbox)
      <4>1. /\ p.is \in Notices => Later(newest, p)
            /\ p.is = "loaded" => p.version >= r
        BY <1>5, <3>2, Zenon DEF Truth, InboxTrue
      <4> QED
        BY <1>6, <3>2, <4>1
    <3> QED
      BY <1>7, <3>1, <3>2
  <2>3. AnswersTrue(G, r)'
    BY <1>2, <1>5, <1>6 DEF AnswersTrue, Truth
  <2>4. ParsedFirst'
    <3> SUFFICES ASSUME NEW q \in Range(parsed), NEW p \in Range(inbox'),
                        p.is \in Notices
                 PROVE  Later(q.version, p)
      BY <1>2 DEF ParsedFirst
    <3>1. CASE p = m
      BY <1>1, <1>3, <1>6, <3>1 DEF Later
    <3>2. CASE p \in Range(inbox)
      BY <1>5, <3>2, Zenon DEF Truth, ParsedFirst
    <3> QED
      BY <1>7, <3>1, <3>2
  <2>5. LoadingTrue(G)'
    BY <1>2, EmptyRange DEF LoadingTrue
  <2> QED
    BY <2>1, <2>2, <2>3, <2>4, <2>5 DEF Truth
<1>11. /\ ToCome \subseteq ToCome' /\ ToCome' \subseteq ToCome \cup {m}
       /\ "changed" \in registered => m \in ToCome'
  BY <1>2, <1>7 DEF ToCome
<1>12. Registered(G, r)'
  <2>1. CASE Beginning
    <3>1. \A p \in Range(inbox') : p.is = "changed"
      BY <1>3, <1>7, <2>1 DEF Beginning
    <3> QED
      BY <1>2, <2>1, <3>1 DEF Beginning, Registered
  <2>2. CASE registered = Notices /\ Following(H, r)
    <3>1. \A k \in r + 1..version' : k > newest => NoticeIs(k)'
      <4> SUFFICES ASSUME NEW k \in r + 1..version + 1, k > newest
                   PROVE  NoticeIs(k)'
        BY <1>2
      <4>1. CASE k = version + 1
        BY <1>3, <1>11, <2>2, <4>1 DEF NoticeIs, Notices
      <4>2. CASE k # version + 1
        <5>1. k \in r + 1..version
          BY <1>1, <4>2
        <5>2. NoticeIs(k)
          BY <2>2, <5>1 DEF Following
        <5> QED
          BY <1>11, <5>2 DEF NoticeIs
      <4> QED
        BY <4>1, <4>2
    <3>2. ASSUME NEW k \in r..version', k >= newest
          PROVE  LoadIs(k)' \/ \A j \in k..version' : G[j].active = active'
      <4>1. CASE k = version + 1
        BY <1>1, <1>2, <1>4, <4>1
      <4>2. CASE k # version + 1
        <5>1. k \in r..version
          BY <1>1, <1>2, <4>2
        <5>2. LoadIs(k) \/ \A j \in k..version : H[j].active = active
          BY <2>2, <3>2, <5>1 DEF Following
        <5>3. CASE LoadIs(k)
          BY <1>11, <5>3 DEF LoadIs
        <5>4. CASE \A j \in k..version : H[j].active = active
          <6> SUFFICES ASSUME NEW j \in k..version + 1
                       PROVE  G[j].active = active'
            BY <1>2
          <6>1. CASE j = version + 1
            BY <1>4, <6>1
          <6>2. CASE j # version + 1
            <7>1. j \in k..version /\ j \in 0..version
              BY <1>1, <5>1, <6>2
            <7> QED
              BY <1>2, <1>4, <5>4, <7>1
          <6> QED
            BY <6>1, <6>2
        <5> QED
          BY <5>2, <5>3, <5>4
      <4> QED
        BY <4>1, <4>2
    <3> QED
      BY <1>2, <2>2, <3>1, <3>2 DEF Registered, Following
  <2> QED
    BY <2>1, <2>2 DEF Inv, Registered
<1>13. (phase # "run" => Awaited)'
  BY <1>2, <1>7 DEF Inv, Awaited
<1>14. ReloadToCome => ReloadToCome'
  BY <1>2, <1>7, <1>11 DEF ReloadToCome, LoadedToCome
<1>15. LoadedToCome => LoadedToCome'
  BY <1>11 DEF LoadedToCome
<1>16. ListCached(G, r)'
  <2>1. G[newest] = H[newest]
    BY <1>1, <1>4
  <2> QED
    BY <1>2, <1>14, <2>1 DEF Inv, ListCached, ListOf
<1>17. NameCached'
  BY <1>2, <1>15 DEF Inv, NameCached
<1> QED
  BY <1>10, <1>12, <1>13, <1>16, <1>17 DEF Inv

LEMMA SingleRange ==
  ASSUME NEW T, NEW q \in Seq(T), q # <<>>, Len(q) <= 1
  PROVE  Head(q) \in T /\ Range(q) = {Head(q)}
<1>1. /\ Len(q) \in Nat /\ Len(q) > 0 /\ DOMAIN q = 1..Len(q)
      /\ Head(q) = q[1] /\ Head(q) \in T
  OBVIOUS
<1>2. DOMAIN q = {1}
  BY <1>1
<1> QED
  BY <1>1, <1>2 DEF Range

LEMMA LoadStep ==
  ASSUME Types, NEW H, NEW r, Inv(H, r), NEW n \in Name, Load(n), loading = <<>>,
         UNCHANGED <<threadVars, requests, phase, parsed, cacheVars, crashed,
                     ghostVars>>
  PROVE  \E G : Inv(G, r)'
<1> DEFINE m == [is |-> "loaded", name |-> n, version |-> version + 1]
<1>1. version \in Nat /\ newest \in 0..version /\ r \in 0..version
  BY DEF Types, Inv, Truth
<1>2. /\ lists' = lists /\ version' = version + 1 /\ active' = n
      /\ loading' = <<m>> /\ inbox' = inbox
      /\ registered' = registered /\ answer' = answer /\ requests' = requests
      /\ phase' = phase /\ parsed' = parsed /\ crashed' = crashed
      /\ active_playlist' = active_playlist
      /\ active_playlist_name' = active_playlist_name
      /\ newest' = newest /\ overtaken' = overtaken
  BY Zenon DEF Load, threadVars, cacheVars, ghostVars
<1>3. /\ m \in Message /\ m.is = "loaded" /\ m.version = version + 1
      /\ m.name = n /\ m.is \in Notices
  BY <1>1 DEF Message, Notices, Answers
<1> HIDE DEF m
<1>4. PICK G : /\ \A k \in 0..version : G[k] = H[k]
               /\ G[version + 1].lists = lists' /\ G[version + 1].active = active'
  BY <1>2, NextVersion
<1>5. Truth(H, r)
  BY DEF Inv
<1>6. /\ \A p \in Range(inbox) :
           /\ p.is \in Notices => NoticeTrue(p, G, version + 1) /\ p.version \in 1..version
           /\ p.is \in Answers => AnswerTrue(p, G, r, version + 1) /\ p.version \in 0..version
      /\ \A p \in Range(answer) \cup Range(parsed) :
           AnswerTrue(p, G, r, version + 1) /\ p.version \in 0..version
  BY <1>4, <1>5, TruthGrows
<1>7. Range(loading') = {m}
  BY <1>2, <1>3, OneRange
<1>8. NoticeTrue(m, G, version + 1)
  <2>1. version + 1 \in 1..version + 1 /\ m.is # "changed"
    BY <1>1, <1>3
  <2> QED
    BY <1>2, <1>3, <1>4, <2>1 DEF NoticeTrue
<1>9. Truth(G, r)'
  <2>1. r \in 0..version' /\ History(G)' /\ InOrder(inbox)'
    BY <1>1, <1>2, <1>4, <1>5 DEF History, Truth
  <2>2. InboxTrue(G, r)'
    <3> SUFFICES ASSUME NEW p \in Range(inbox)
                 PROVE  /\ p.is \in Notices => /\ NoticeTrue(p, G, version + 1)
                                               /\ Later(newest, p)
                                               /\ p.version < version + 1
                        /\ p.is = "loaded" => p.version >= r
                        /\ p.is \in Answers => AnswerTrue(p, G, r, version + 1)
      BY <1>2, Zenon DEF InboxTrue
    <3>1. /\ p.is \in Notices => Later(newest, p)
          /\ p.is = "loaded" => p.version >= r
      BY <1>5, Zenon DEF Truth, InboxTrue
    <3>2. p.is \in Notices => p.version < version + 1
      BY <1>1, <1>6
    <3> QED
      BY <1>6, <3>1, <3>2
  <2>3. AnswersTrue(G, r)'
    BY <1>2, <1>5, <1>6 DEF AnswersTrue, Truth
  <2>4. ParsedFirst'
    BY <1>2, <1>5 DEF ParsedFirst, Truth
  <2>5. LoadingTrue(G)'
    BY <1>2, <1>3, <1>7, <1>8 DEF LoadingTrue
  <2> QED
    BY <2>1, <2>2, <2>3, <2>4, <2>5 DEF Truth
<1>10. m \in ToCome' /\ (loading = <<>> => ToCome \subseteq ToCome')
  BY <1>2, <1>7, EmptyRange DEF ToCome
<1>11. Registered(G, r)'
  <2>1. CASE Beginning
    BY <1>2, <2>1 DEF Beginning, Registered
  <2>2. CASE registered = Notices /\ Following(H, r)
    <3>1. ASSUME NEW k \in r + 1..version', k > newest PROVE NoticeIs(k)'
      <4>1. CASE k = version + 1
        BY <1>3, <1>10, <4>1 DEF NoticeIs
      <4>2. CASE k # version + 1
        <5>1. k \in r + 1..version
          BY <1>1, <1>2, <4>2
        <5>2. NoticeIs(k)
          BY <2>2, <3>1, <5>1 DEF Following
        <5> QED
          BY <1>10, <5>2 DEF NoticeIs
      <4> QED
        BY <4>1, <4>2
    <3>2. ASSUME NEW k \in r..version', k >= newest
          PROVE  LoadIs(k)' \/ \A j \in k..version' : G[j].active = active'
      <4>1. CASE k = version + 1
        BY <1>1, <1>2, <1>4, <4>1
      <4>2. CASE k # version + 1
        <5>1. m.version > k
          BY <1>1, <1>2, <1>3, <4>2
        <5> QED
          BY <1>3, <1>10, <5>1 DEF LoadIs
      <4> QED
        BY <4>1, <4>2
    <3> QED
      BY <1>2, <2>2, <3>1, <3>2 DEF Registered, Following
  <2> QED
    BY <2>1, <2>2 DEF Inv, Registered
<1>12. (phase # "run" => Awaited)'
  BY <1>2 DEF Inv, Awaited
<1>13. LoadedToCome' /\ ReloadToCome'
  BY <1>3, <1>10 DEF LoadedToCome, ReloadToCome
<1>14. ListCached(G, r)' /\ NameCached'
  BY <1>13 DEF ListCached, NameCached
<1> QED
  BY <1>9, <1>11, <1>12, <1>14 DEF Inv

LEMMA LoadedStep ==
  ASSUME Types, NEW H, NEW r, Inv(H, r), Loaded,
         UNCHANGED <<threadVars, requests, phase, parsed, cacheVars, crashed,
                     ghostVars>>
  PROVE  Inv(H, r)'
<1> DEFINE m == Head(loading)
<1>1. /\ version \in Nat /\ newest \in 0..version /\ r \in 0..version
      /\ loading \in Seq(Message) /\ Len(loading) <= 1
  BY DEF Types, Inv, Truth
<1>2. /\ lists' = lists /\ version' = version /\ active' = active
      /\ loading # <<>> /\ loading' = <<>> /\ Notify("loaded", m)
      /\ registered' = registered /\ answer' = answer /\ requests' = requests
      /\ phase' = phase /\ parsed' = parsed /\ crashed' = crashed
      /\ active_playlist' = active_playlist
      /\ active_playlist_name' = active_playlist_name
      /\ newest' = newest /\ overtaken' = overtaken
  BY Zenon DEF Loaded, threadVars, cacheVars, ghostVars
<1>3. m \in Message /\ Range(loading) = {m}
  BY <1>1, <1>2, SingleRange
<1> HIDE DEF m
<1>4. Truth(H, r)
  BY DEF Inv
<1>5. /\ m.is = "loaded" /\ m.version = version /\ NoticeTrue(m, H, version)
      /\ m.is \in Notices /\ ~(m.is \in Answers)
  BY <1>3, <1>4 DEF Truth, LoadingTrue, Notices, Answers
<1>6. \A p \in Range(inbox) :
        /\ p.is \in Notices => p.version \in Nat /\ p.version < version
        /\ p.is \in Answers => p.version \in Nat /\ p.version <= version
  <2> SUFFICES ASSUME NEW p \in Range(inbox)
               PROVE  /\ p.is \in Notices => p.version \in Nat /\ p.version < version
                      /\ p.is \in Answers => p.version \in Nat /\ p.version <= version
    OBVIOUS
  <2>1. /\ p.is \in Notices => p.version < version
        /\ p.is \in Answers => AnswerTrue(p, H, r, version)
    BY <1>2, <1>4, Zenon DEF Truth, InboxTrue
  <2>2. p.version \in Nat
    <3>1. inbox \in Seq(Message)
      BY DEF Types
    <3> QED
      BY <3>1, InRangeType, MessageFields
  <2> QED
    BY <1>1, <2>1, <2>2 DEF AnswerTrue
<1>7. /\ InOrder(inbox') /\ Range(inbox) \subseteq Range(inbox')
      /\ Range(inbox') \subseteq Range(inbox) \cup {m}
      /\ "loaded" \in registered => m \in Range(inbox')
      /\ "loaded" \notin registered => inbox' = inbox
  <2>1. \A p \in Range(inbox) : Follows(p, m)
    BY <1>1, <1>5, <1>6 DEF Follows, Later
  <2>2. InOrder(inbox)
    BY <1>4 DEF Truth
  <2> QED
    BY <1>2, <1>3, <2>1, <2>2, Notified
<1>8. Truth(H, r)'
  <2>1. r \in 0..version' /\ History(H)' /\ InOrder(inbox)'
    BY <1>1, <1>2, <1>4, <1>7 DEF History, Truth
  <2>2. InboxTrue(H, r)'
    <3> SUFFICES ASSUME NEW p \in Range(inbox')
                 PROVE  /\ p.is \in Notices => /\ NoticeTrue(p, H, version)
                                               /\ Later(newest, p)
                        /\ p.is = "loaded" => p.version >= r
                        /\ p.is \in Answers => AnswerTrue(p, H, r, version)
      BY <1>2, Zenon DEF InboxTrue
    <3>1. CASE p = m
      BY <1>1, <1>5, <3>1 DEF Later
    <3>2. CASE p \in Range(inbox)
      BY <1>4, <3>2, Zenon DEF Truth, InboxTrue
    <3> QED
      BY <1>7, <3>1, <3>2
  <2>3. AnswersTrue(H, r)'
    BY <1>2, <1>4 DEF AnswersTrue, Truth
  <2>4. ParsedFirst'
    <3> SUFFICES ASSUME NEW q \in Range(parsed), NEW p \in Range(inbox'),
                        p.is \in Notices
                 PROVE  Later(q.version, p)
      BY <1>2 DEF ParsedFirst
    <3>1. CASE p = m
      <4>1. AnswerTrue(q, H, r, version)
        BY <1>4 DEF Truth, AnswersTrue
      <4> QED
        BY <1>1, <1>5, <3>1, <4>1 DEF Later, AnswerTrue
    <3>2. CASE p \in Range(inbox)
      BY <1>4, <3>2, Zenon DEF Truth, ParsedFirst
    <3> QED
      BY <1>7, <3>1, <3>2
  <2>5. LoadingTrue(H)'
    BY <1>2, EmptyRange DEF LoadingTrue
  <2> QED
    BY <2>1, <2>2, <2>3, <2>4, <2>5 DEF Truth
<1>9. ToCome = Range(inbox) \cup {m} /\ ToCome' = Range(inbox')
  BY <1>2, <1>3, EmptyRange DEF ToCome
<1>10. (phase # "run" => Awaited)'
  BY <1>2, <1>7 DEF Inv, Awaited
<1>11. CASE Beginning
  <2>1. "loaded" \notin registered
    <3>1. registered = {} \/ registered = {"changed"}
      BY <1>11, Zenon DEF Beginning
    <3> QED
      BY <3>1
  <2>2. Registered(H, r)'
    BY <1>2, <1>7, <1>11, <2>1 DEF Beginning, Registered
  <2>3. ListCached(H, r)' /\ NameCached'
    BY <1>2, <1>11 DEF Beginning, ListCached, NameCached, ReloadToCome
  <2> QED
    BY <1>8, <1>10, <2>2, <2>3 DEF Inv
<1>12. CASE registered = Notices /\ Following(H, r)
  <2>1. ToCome' = ToCome
    BY <1>7, <1>9, <1>12 DEF Notices
  <2>2. /\ \A k : NoticeIs(k)' <=> NoticeIs(k)
        /\ \A k : LoadIs(k)' <=> LoadIs(k)
        /\ LoadedToCome' <=> LoadedToCome
    BY <2>1 DEF NoticeIs, LoadIs, LoadedToCome
  <2>3. Registered(H, r)'
    BY <1>2, <1>12, <2>2 DEF Registered, Following
  <2>4. ReloadToCome => ReloadToCome'
    BY <1>2, <1>7, <2>2 DEF ReloadToCome
  <2>5. ListCached(H, r)' /\ NameCached'
    BY <1>2, <2>2, <2>4 DEF Inv, ListCached, NameCached
  <2> QED
    BY <1>8, <1>10, <2>3, <2>5 DEF Inv
<1> QED
  BY <1>11, <1>12 DEF Inv, Registered

-----------------------------------------------------------------------------
(***************************************************************************)
(* The thread of this client                                               *)
(***************************************************************************)

LEMMA ThreeInARow ==
  ASSUME NEW a, NEW b, NEW c
  PROVE  /\ Head(<<a, b, c>>) = a /\ Tail(<<a, b, c>>) = <<b, c>>
         /\ Head(<<b, c>>) = b /\ Tail(<<b, c>>) = <<c>>
         /\ c \in Range(<<b, c>>)
<1>1. Head(<<a, b, c>>) = a /\ Head(<<b, c>>) = b
  OBVIOUS
<1>2. Tail(<<a, b, c>>) = <<b, c>>
  OBVIOUS
<1>3. Tail(<<b, c>>) = <<c>>
  OBVIOUS
<1>4. 2 \in DOMAIN <<b, c>> /\ <<b, c>>[2] = c
  OBVIOUS
<1>5. c \in Range(<<b, c>>)
  BY <1>4, Zenon DEF Range
<1> QED
  BY <1>1, <1>2, <1>3, <1>5

LEMMA LookupStep ==
  ASSUME Types, NEW H, NEW r, Inv(H, r), Lookup
  PROVE  \E s : Inv(H, s)'
<1> DEFINE q == Head(requests)
           m == [is |-> q.what, sync |-> q.sync, list |-> lists[active],
                 name |-> active, version |-> version]
<1>1. /\ version \in Nat /\ newest \in 0..version /\ r \in 0..version
      /\ lists \in [Name -> Seq(Entry)] /\ active \in Name
      /\ requests \in Seq([what : Notices \cup Answers, sync : BOOLEAN])
      /\ registered \subseteq Notices
  BY DEF Types, TypeOK, Inv, Truth, Notices
<1>2. /\ lists' = lists /\ version' = version /\ active' = active
      /\ loading' = loading /\ inbox' = inbox
      /\ answer = <<>> /\ requests # <<>> /\ requests' = Tail(requests)
      /\ phase' = phase /\ parsed' = parsed /\ crashed' = crashed
      /\ active_playlist' = active_playlist
      /\ active_playlist_name' = active_playlist_name
      /\ newest' = newest /\ overtaken' = overtaken
  BY Zenon DEF Lookup, serverVars, cacheVars, ghostVars
<1>3. \/ /\ q.what \in Notices /\ registered' = registered \cup {q.what}
         /\ answer' = answer
      \/ /\ q.what \notin Notices /\ answer' = <<m>> /\ registered' = registered
  BY Zenon DEF Lookup, Notices
<1>4. /\ q \in [what : Notices \cup Answers, sync : BOOLEAN]
      /\ Range(requests) = {q} \cup Range(requests')
  BY <1>1, <1>2, TailRange
<1>5. q.what \in Notices \cup Answers /\ q.sync \in BOOLEAN
  BY <1>4
<1>6. Truth(H, r)
  BY DEF Inv
<1>7. CASE Beginning /\ registered = {}
  <2>1. requests = <<Ask("changed", FALSE), Ask("loaded", FALSE), Ask("values", TRUE)>>
    BY <1>7, Zenon DEF Beginning
  <2>2. /\ q = Ask("changed", FALSE)
        /\ requests' = <<Ask("loaded", FALSE), Ask("values", TRUE)>>
    <3> DEFINE a == Ask("changed", FALSE)
               b == Ask("loaded", FALSE)
               c == Ask("values", TRUE)
    <3> SUFFICES q = a /\ requests' = <<b, c>>
      OBVIOUS
    <3>1. requests = <<a, b, c>>
      BY <2>1
    <3> HIDE DEF a, b, c
    <3>2. Head(<<a, b, c>>) = a /\ Tail(<<a, b, c>>) = <<b, c>>
      BY ThreeInARow
    <3> QED
      BY <1>2, <3>1, <3>2, Zenon
  <2>3. q.what = "changed"
    BY <2>2 DEF Ask
  <2>4. registered' = {"changed"} /\ answer' = answer
    BY <1>3, <1>7, <2>3 DEF Notices
  <2>5. Registered(H, r)'
    BY <1>2, <1>7, <2>2, <2>4 DEF Beginning, Registered
  <2>6. Truth(H, r)'
    BY <1>2, <1>6, <2>4 DEF Truth, History, InboxTrue, AnswersTrue, ParsedFirst, LoadingTrue
  <2>7. (phase # "run" => Awaited)'
    <3>1. Ask("values", TRUE) \in Range(requests') /\ Ask("values", TRUE).sync
      BY <2>2, ThreeInARow DEF Ask
    <3> QED
      BY <3>1 DEF Awaited
  <2>8. ListCached(H, r)' /\ NameCached'
    BY <1>2, <1>7 DEF Beginning, ListCached, NameCached, ReloadToCome
  <2> QED
    BY <2>5, <2>6, <2>7, <2>8 DEF Inv
<1>8. CASE Beginning /\ registered = {"changed"}
  <2>1. requests = <<Ask("loaded", FALSE), Ask("values", TRUE)>>
    <3>1. registered # {}
      BY <1>8
    <3> QED
      BY <1>8, <3>1, Zenon DEF Beginning
  <2>2. q = Ask("loaded", FALSE) /\ requests' = <<Ask("values", TRUE)>>
    BY <1>2, <2>1, ThreeInARow, Zenon
  <2>3. q.what = "loaded"
    BY <2>2 DEF Ask
  <2>4. registered' = Notices /\ answer' = answer
    BY <1>3, <1>8, <2>3 DEF Notices
  <2>5. Range(requests') = {Ask("values", TRUE)}
    BY <2>2, OneRange
  <2>6. Range(answer) = {} /\ Range(parsed) = {}
    BY <1>2, <1>8, EmptyRange DEF Beginning
  <2>7. \A p \in Range(inbox) : p.is = "changed"
    BY <1>8 DEF Beginning
  <2>8. Following(H, version)'
    <3>1. \A p \in Range(requests') : p.what \in Answers
      BY <2>5 DEF Ask, Answers
    <3>2. version + 1..version' = {} /\ version..version' = {version}
      BY <1>1, <1>2
    <3>3. H[version].active = active'
      BY <1>2, <1>6 DEF Truth, History
    <3> QED
      BY <1>1, <1>2, <3>1, <3>2, <3>3 DEF Following
  <2>9. Truth(H, version)'
    <3>1. InboxTrue(H, version)'
      BY <1>2, <1>6, <2>7 DEF Truth, InboxTrue, Answers
    <3>2. AnswersTrue(H, version)'
      BY <1>2, <2>4, <2>6 DEF AnswersTrue
    <3> QED
      BY <1>1, <1>2, <1>6, <3>1, <3>2 DEF Truth, History, ParsedFirst, LoadingTrue
  <2>10. (phase # "run" => Awaited)'
    BY <2>5 DEF Awaited, Ask
  <2>11. ListCached(H, version)' /\ NameCached'
    BY <1>2, <1>8 DEF Beginning, ListCached, NameCached, ReloadToCome
  <2>12. Registered(H, version)'
    BY <2>4, <2>8 DEF Registered
  <2>13. Inv(H, version)'
    BY <2>9, <2>10, <2>11, <2>12 DEF Inv
  <2>14. \E s : s = version
    OBVIOUS
  <2> QED
    BY <2>13
<1>9. CASE registered = Notices /\ Following(H, r)
  <2>1. q.what \in Answers /\ q.what \notin Notices
    BY <1>4, <1>9 DEF Following, Notices, Answers
  <2>2. answer' = <<m>> /\ registered' = registered
    BY <1>3, <2>1
  <2>3. /\ m \in Message /\ m.is = q.what /\ m.sync = q.sync
        /\ m.version = version /\ m.list = lists[active] /\ m.name = active
    BY <1>1, <1>5, <2>1 DEF Message
  <2> HIDE DEF m
  <2>4. Range(answer') = {m} /\ Range(answer) = {}
    BY <1>2, <2>2, <2>3, OneRange, EmptyRange
  <2>5. Truth(H, r)'
    <3>1. AnswerTrue(m, H, r, version)
      BY <1>1, <1>6, <2>3 DEF AnswerTrue, ListOf, Truth, History
    <3>2. AnswersTrue(H, r)'
      BY <1>2, <1>6, <2>1, <2>3, <2>4, <3>1 DEF Truth, AnswersTrue
    <3>3. InboxTrue(H, r)'
      BY <1>2, <1>6, Zenon DEF Truth, InboxTrue
    <3> QED
      BY <1>2, <1>6, <3>2, <3>3 DEF Truth, History, ParsedFirst, LoadingTrue
  <2>6. ToCome' = ToCome
    BY <1>2 DEF ToCome
  <2>7. /\ \A k : NoticeIs(k)' <=> NoticeIs(k)
        /\ \A k : LoadIs(k)' <=> LoadIs(k)
        /\ LoadedToCome' <=> LoadedToCome
    BY <2>6 DEF NoticeIs, LoadIs, LoadedToCome
  <2>8. Registered(H, r)'
    BY <1>2, <1>4, <1>9, <2>2, <2>7 DEF Registered, Following
  <2>9. (phase # "run" => Awaited)'
    BY <1>2, <1>4, <2>1, <2>3, <2>4 DEF Inv, Awaited
  <2>10. ReloadToCome => ReloadToCome'
    <3>1. ASSUME Ask("entries", FALSE) = q PROVE Asked(m)
      BY <2>3, <3>1 DEF Ask, Asked
    <3> QED
      BY <1>2, <1>4, <2>4, <2>7, <3>1 DEF ReloadToCome
  <2>11. ListCached(H, r)' /\ NameCached'
    BY <1>2, <2>7, <2>10 DEF Inv, ListCached, NameCached
  <2> QED
    BY <2>5, <2>8, <2>9, <2>11 DEF Inv
<1> QED
  <2>1. Beginning => registered = {} \/ registered = {"changed"}
    BY Zenon DEF Beginning
  <2> QED
    BY <1>7, <1>8, <1>9, <2>1 DEF Inv, Registered

LEMMA ReplyStep ==
  ASSUME Types, NEW H, NEW r, Inv(H, r), Reply
  PROVE  Inv(H, r)'
<1> DEFINE m == Head(answer)
<1>1. /\ version \in Nat /\ newest \in 0..version /\ r \in 0..version
      /\ answer \in Seq(Message) /\ Len(answer) <= 1 /\ inbox \in Seq(Message)
  BY DEF Types, Inv, Truth
<1>2. /\ lists' = lists /\ version' = version /\ active' = active
      /\ loading' = loading /\ inbox' = Append(inbox, m)
      /\ answer # <<>> /\ answer' = <<>> /\ requests' = requests
      /\ registered' = registered
      /\ phase' = phase /\ parsed' = parsed /\ crashed' = crashed
      /\ active_playlist' = active_playlist
      /\ active_playlist_name' = active_playlist_name
      /\ newest' = newest /\ overtaken' = overtaken
  BY Zenon DEF Reply, serverVars, cacheVars, ghostVars
<1>3. m \in Message /\ Range(answer) = {m}
  BY <1>1, <1>2, SingleRange
<1> HIDE DEF m
<1>4. Truth(H, r)
  BY DEF Inv
<1>5. /\ m.is \in Answers /\ AnswerTrue(m, H, r, version)
      /\ m.is \notin Notices /\ m.is # "loaded"
  BY <1>3, <1>4 DEF Truth, AnswersTrue, Answers, Notices
<1>6. Range(inbox') = Range(inbox) \cup {m} /\ Range(answer') = {}
  BY <1>1, <1>2, <1>3, AppendRange, EmptyRange
<1>7. Truth(H, r)'
  <2>1. InOrder(inbox)'
    BY <1>1, <1>2, <1>3, <1>4, <1>5, OrderOfAppend DEF Truth
  <2>2. InboxTrue(H, r)'
    <3> SUFFICES ASSUME NEW p \in Range(inbox')
                 PROVE  /\ p.is \in Notices => /\ NoticeTrue(p, H, version)
                                               /\ Later(newest, p)
                                               /\ loading # <<>> => p.version < version
                        /\ p.is = "loaded" => p.version >= r
                        /\ p.is \in Answers => AnswerTrue(p, H, r, version)
      BY <1>2, Zenon DEF InboxTrue
    <3>1. CASE p = m
      BY <1>5, <3>1
    <3>2. CASE p \in Range(inbox)
      BY <1>4, <3>2, Zenon DEF Truth, InboxTrue
    <3> QED
      BY <1>6, <3>1, <3>2
  <2>3. AnswersTrue(H, r)'
    BY <1>2, <1>4, <1>6 DEF Truth, AnswersTrue
  <2>4. ParsedFirst'
    BY <1>2, <1>4, <1>5, <1>6 DEF Truth, ParsedFirst
  <2> QED
    BY <1>2, <1>4, <2>1, <2>2, <2>3, <2>4 DEF Truth, History, LoadingTrue
<1>8. ToCome' = ToCome \cup {m}
  BY <1>2, <1>6 DEF ToCome
<1>9. /\ \A k : NoticeIs(k)' <=> NoticeIs(k)
      /\ \A k : LoadIs(k)' <=> LoadIs(k)
      /\ LoadedToCome' <=> LoadedToCome
  BY <1>5, <1>8 DEF NoticeIs, LoadIs, LoadedToCome
<1>10. Registered(H, r)'
  BY <1>2, <1>9 DEF Inv, Registered, Following, Beginning
<1>11. (phase # "run" => Awaited)'
  BY <1>2, <1>3, <1>6 DEF Inv, Awaited
<1>12. ReloadToCome => ReloadToCome'
  BY <1>2, <1>3, <1>6, <1>9 DEF ReloadToCome
<1>13. ListCached(H, r)' /\ NameCached'
  BY <1>2, <1>9, <1>12 DEF Inv, ListCached, NameCached
<1> QED
  BY <1>7, <1>10, <1>11, <1>13 DEF Inv

-----------------------------------------------------------------------------
(***************************************************************************)
(* The client                                                              *)
(***************************************************************************)

LEMMA DealEffect ==
  ASSUME Types, NEW m \in Message, Deal(m)
  PROVE  /\ newest' \in {newest, m.version} /\ newest' \in Nat
         /\ newest' >= newest /\ newest' >= m.version
         /\ overtaken' \in BOOLEAN
         /\ ~overtaken' => ~overtaken /\ newest' = m.version
<1>1. newest \in Nat /\ m.version \in Nat /\ overtaken \in BOOLEAN
  BY MessageFields DEF Types, TypeOK
<1>2. /\ overtaken' = (overtaken \/ m.version < newest)
      /\ newest' = IF m.version > newest THEN m.version ELSE newest
  BY DEF Deal, Older
<1>3. overtaken' \in BOOLEAN /\ (~overtaken' => ~overtaken /\ ~(m.version < newest))
  BY <1>2, Zenon
<1>4. /\ newest' \in {newest, m.version} /\ newest' \in Nat
      /\ newest' >= newest /\ newest' >= m.version
      /\ ~(m.version < newest) => newest' = m.version
  BY <1>1, <1>2
<1> QED
  BY <1>3, <1>4

\* What the client does with the head of the inbox, as far as the messages and
\* the history variables go.
LEMMA ReceiveEffect ==
  ASSUME Types, NEW H, NEW r, Inv(H, r), Receive
  PROVE  LET h == Head(inbox)
         IN  /\ h \in Message /\ h \in Range(inbox)
             /\ Range(inbox) = {h} \cup Range(inbox') /\ InOrder(inbox')
             /\ \A p \in Range(inbox') : p.is \in Notices =>
                  Follows(h, p) /\ Later(h.version, p)
             /\ lists' = lists /\ active' = active /\ loading' = loading
             /\ version' = version /\ registered' = registered
             /\ answer' = answer /\ phase' = phase
             /\ newest' \in {newest, h.version} /\ newest' \in Nat
             /\ newest' >= newest
             /\ h.is \in Notices => newest' >= h.version
             /\ ~overtaken' => ~overtaken
             /\ parsed' = parsed \/ (parsed' = <<h>> /\ h.is \in Answers)
             /\ h.is \in Answers /\ h.sync => parsed' = <<h>>
             /\ requests' = requests
                  \/ requests' = Append(requests, Ask("entries", FALSE))
<1> DEFINE h == Head(inbox)
<1>1. /\ inbox \in Seq(Message) /\ inbox # <<>> /\ inbox' = Tail(inbox)
      /\ newest \in Nat /\ InOrder(inbox)
  BY DEF Types, Receive, Inv, Truth
<1>2. /\ h \in Message /\ Range(inbox) = {h} \cup Range(inbox')
  BY <1>1, TailRange
<1>3. InOrder(inbox') /\ \A p \in Range(inbox') : p.is \in Notices => Follows(h, p)
  BY <1>1, OrderOfTail
<1>4. /\ lists' = lists /\ active' = active /\ loading' = loading
      /\ version' = version /\ registered' = registered
      /\ answer' = answer /\ phase' = phase
  BY Zenon DEF Receive, serverVars, threadVars
<1>5. \/ h.is = "changed" /\ UpdateActivePlaylist(h) /\ Deal(h) /\ parsed' = parsed
      \/ h.is = "loaded" /\ ReloadActivePlaylist(h) /\ Deal(h) /\ parsed' = parsed
      \/ /\ h.is = "entries" /\ ~h.sync /\ Deal(h) /\ parsed' = parsed
         /\ requests' = requests
      \/ /\ h.is \in Answers /\ h.sync /\ parsed' = <<h>> /\ requests' = requests
         /\ newest' = newest /\ overtaken' = overtaken
  BY Zenon DEF Receive, Answers, ghostVars
<1> HIDE DEF h
<1>6. /\ h.version \in Nat /\ (h.is \in Notices \/ h.is \in Answers)
      /\ ~(h.is \in Notices /\ h.is \in Answers)
      /\ h.is = "changed" \/ h.is = "loaded" => h.is \in Notices
  BY <1>2, MessageFields DEF Notices
<1>7. UpdateActivePlaylist(h) \/ ReloadActivePlaylist(h) =>
        requests' = requests \/ requests' = Append(requests, Ask("entries", FALSE))
  BY Zenon DEF UpdateActivePlaylist, ReloadActivePlaylist, Reload
<1>8. \A p \in Range(inbox') : p.is \in Notices => Later(h.version, p)
  <2> SUFFICES ASSUME NEW p \in Range(inbox'), p.is \in Notices
               PROVE  Later(h.version, p)
    OBVIOUS
  <2>1. Follows(h, p)
    BY <1>3
  <2> QED
    BY <1>6, <2>1 DEF Follows, Later
<1>9. Deal(h) => /\ newest' \in {newest, h.version} /\ newest' \in Nat
                 /\ newest' >= newest /\ newest' >= h.version
                 /\ ~overtaken' => ~overtaken
  BY <1>2, DealEffect
<1>10. CASE h.is \in Notices
  BY <1>2, <1>3, <1>4, <1>5, <1>6, <1>7, <1>8, <1>9, <1>10 DEF h
<1>11. CASE h.is = "entries" /\ ~h.sync
  <2>1. Deal(h) /\ parsed' = parsed /\ requests' = requests /\ h.is \notin Notices
    BY <1>5, <1>11 DEF Notices
  <2> QED
    BY <1>2, <1>3, <1>4, <1>8, <1>9, <1>11, <2>1 DEF h
<1>12. CASE h.is \in Answers /\ h.sync
  <2>1. /\ parsed' = <<h>> /\ requests' = requests
        /\ newest' = newest /\ overtaken' = overtaken /\ h.is \notin Notices
    BY <1>5, <1>6, <1>12 DEF Notices
  <2> QED
    BY <1>1, <1>2, <1>3, <1>4, <1>8, <1>12, <2>1 DEF h
<1> QED
  BY <1>5, <1>6, <1>10, <1>11, <1>12

LEMMA ReceiveTruth ==
  ASSUME Types, NEW H, NEW r, Inv(H, r), Receive
  PROVE  Truth(H, r)'
<1> DEFINE h == Head(inbox)
<1>1. /\ h \in Message /\ h \in Range(inbox)
      /\ Range(inbox) = {h} \cup Range(inbox') /\ InOrder(inbox')
      /\ \A p \in Range(inbox') : p.is \in Notices => Later(h.version, p)
      /\ lists' = lists /\ active' = active /\ loading' = loading
      /\ version' = version /\ answer' = answer
      /\ newest' \in {newest, h.version}
      /\ parsed' = parsed \/ (parsed' = <<h>> /\ h.is \in Answers)
  BY ReceiveEffect
<1> HIDE DEF h
<1>2. Truth(H, r)
  BY DEF Inv
<1>3. h.is \in Answers => AnswerTrue(h, H, r, version)
  BY <1>1, <1>2, Zenon DEF Truth, InboxTrue
<1>4. Range(parsed') \subseteq Range(parsed) \/ (Range(parsed') = {h} /\ h.is \in Answers)
  BY <1>1, OneRange
<1>5. InboxTrue(H, r)'
  <2> SUFFICES ASSUME NEW p \in Range(inbox')
               PROVE  /\ p.is \in Notices => /\ NoticeTrue(p, H, version)
                                             /\ Later(newest', p)
                                             /\ loading # <<>> => p.version < version
                      /\ p.is = "loaded" => p.version >= r
                      /\ p.is \in Answers => AnswerTrue(p, H, r, version)
    BY <1>1, Zenon DEF InboxTrue
  <2>1. p \in Range(inbox)
    BY <1>1
  <2>2. p.is \in Notices => Later(newest', p)
    <3>1. p.is \in Notices => Later(newest, p)
      BY <1>2, <2>1, Zenon DEF Truth, InboxTrue
    <3> QED
      BY <1>1, <3>1
  <2> QED
    BY <1>2, <2>1, <2>2, Zenon DEF Truth, InboxTrue
<1>6. AnswersTrue(H, r)'
  BY <1>1, <1>2, <1>3, <1>4 DEF Truth, AnswersTrue
<1>7. ParsedFirst'
  BY <1>1, <1>2, <1>4 DEF Truth, ParsedFirst
<1> QED
  BY <1>1, <1>2, <1>5, <1>6, <1>7 DEF Truth, History, LoadingTrue

LEMMA RequestsGrow ==
  ASSUME Types,
         \/ requests' = requests
         \/ \E q \in [what : Answers, sync : BOOLEAN] : requests' = Append(requests, q)
  PROVE  /\ Range(requests) \subseteq Range(requests')
         /\ (\A q \in Range(requests) : q.what \in Answers)
              => \A q \in Range(requests') : q.what \in Answers
<1>1. CASE requests' = requests
  BY <1>1
<1>2. CASE \E q \in [what : Answers, sync : BOOLEAN] : requests' = Append(requests, q)
  <2>1. PICK q \in [what : Answers, sync : BOOLEAN] : requests' = Append(requests, q)
    BY <1>2
  <2>2. /\ requests \in Seq([what : Notices \cup Answers, sync : BOOLEAN])
        /\ q \in [what : Notices \cup Answers, sync : BOOLEAN] /\ q.what \in Answers
    BY <2>1 DEF Types
  <2>3. Range(requests') = Range(requests) \cup {q}
    <3> DEFINE T == [what : Notices \cup Answers, sync : BOOLEAN]
    <3>1. requests \in Seq(T) /\ q \in T
      BY <2>2
    <3> HIDE DEF T
    <3> QED
      BY <2>1, <3>1, AppendRange
  <2> QED
    BY <2>2, <2>3
<1> QED
  BY <1>1, <1>2

LEMMA ReceiveFollowing ==
  ASSUME Types, NEW H, NEW r, Inv(H, r), Receive, Following(H, r)
  PROVE  Following(H, r)'
<1> DEFINE h == Head(inbox)
<1>1. /\ h \in Message
      /\ Range(inbox) = {h} \cup Range(inbox')
      /\ active' = active /\ loading' = loading /\ version' = version
      /\ newest' >= newest /\ newest' \in Nat
      /\ h.is \in Notices => newest' >= h.version
      /\ requests' = requests \/ requests' = Append(requests, Ask("entries", FALSE))
  BY ReceiveEffect
<1> HIDE DEF h
<1>2. newest \in Nat /\ version \in Nat /\ r \in Nat /\ h.version \in Nat
  BY <1>1, MessageFields DEF Types, Inv, Truth
<1>3. \A q \in Range(requests') : q.what \in Answers
  <2>1. Ask("entries", FALSE) \in [what : Answers, sync : BOOLEAN]
    BY DEF Ask, Answers
  <2>2. \A q \in Range(requests) : q.what \in Answers
    BY DEF Following
  <2> QED
    BY <1>1, <2>1, <2>2, RequestsGrow
<1>4. ToCome = {h} \cup ToCome'
  BY <1>1 DEF ToCome
<1>5. ASSUME NEW k \in r + 1..version', k > newest' PROVE NoticeIs(k)'
  <2>1. k > newest
    BY <1>1, <1>2, <1>5
  <2>2. PICK m \in ToCome : m.is \in Notices /\ m.version = k
    BY <1>1, <2>1 DEF Following, NoticeIs
  <2>3. m # h
    BY <1>1, <1>2, <1>5, <2>2
  <2> QED
    BY <1>4, <2>2, <2>3 DEF NoticeIs
<1>6. ASSUME NEW k \in r..version', k >= newest'
      PROVE  LoadIs(k)' \/ \A j \in k..version' : H[j].active = active'
  <2>1. k >= newest
    BY <1>1, <1>2, <1>6
  <2>2. CASE LoadIs(k)
    <3>1. PICK m \in ToCome : m.is = "loaded" /\ m.version > k
      BY <2>2 DEF LoadIs
    <3>2. m # h
      BY <1>1, <1>2, <1>6, <3>1 DEF Notices
    <3> QED
      BY <1>4, <3>1, <3>2 DEF LoadIs
  <2>3. CASE ~LoadIs(k)
    BY <1>1, <2>1, <2>3 DEF Following
  <2> QED
    BY <2>2, <2>3
<1> QED
  BY <1>3, <1>5, <1>6 DEF Following

LEMMA ReceiveAwaited ==
  ASSUME Types, NEW H, NEW r, Inv(H, r), Receive
  PROVE  (phase # "run" => Awaited)'
<1> DEFINE h == Head(inbox)
<1>1. /\ Range(inbox) = {h} \cup Range(inbox') /\ answer' = answer /\ phase' = phase
      /\ parsed' = parsed \/ (parsed' = <<h>> /\ h.is \in Answers)
      /\ h.is \in Answers /\ h.sync => parsed' = <<h>>
      /\ requests' = requests \/ requests' = Append(requests, Ask("entries", FALSE))
  BY ReceiveEffect
<1> HIDE DEF h
<1>2. Range(requests) \subseteq Range(requests')
  <2>1. Ask("entries", FALSE) \in [what : Answers, sync : BOOLEAN]
    BY DEF Ask, Answers
  <2> QED
    BY <1>1, <2>1, RequestsGrow
<1>3. <<h>> # <<>>
  OBVIOUS
<1> QED
  BY <1>1, <1>2, <1>3 DEF Inv, Awaited

LEMMA ReloadRequested ==
  ASSUME Types, Reload
  PROVE  ReloadToCome'
<1> DEFINE T == [what : Notices \cup Answers, sync : BOOLEAN]
           q == Ask("entries", FALSE)
<1>1. requests \in Seq(T) /\ q \in T
  BY DEF Types, Ask, Answers
<1>2. requests' = Append(requests, q)
  BY DEF Reload
<1> HIDE DEF T
<1>3. q \in Range(requests')
  <2> HIDE DEF q
  <2>1. Range(Append(requests, q)) = Range(requests) \cup {q}
    BY <1>1, AppendRange
  <2> QED
    BY <1>2, <2>1
<1> QED
  BY <1>3 DEF ReloadToCome

LEMMA ReceiveBeginning ==
  ASSUME Types, NEW H, NEW r, Inv(H, r), ~crashed, Receive, Beginning
  PROVE  Registered(H, r)' /\ ListCached(H, r)' /\ NameCached'
<1> DEFINE h == Head(inbox)
<1>1. /\ h \in Message /\ h \in Range(inbox)
      /\ Range(inbox) = {h} \cup Range(inbox')
      /\ registered' = registered /\ answer' = answer /\ phase' = phase
  BY ReceiveEffect
<1>2. h.is = "changed" /\ h.name # NoName /\ active_playlist_name = NoName
  BY <1>1, MessageFields, CacheAssumption DEF Beginning
<1>3. /\ UpdateActivePlaylist(h) /\ parsed' = parsed
      /\ active_playlist_name' = active_playlist_name
  <2>1. h.is # "loaded" /\ h.is # "entries" /\ h.is \notin {"values", "entries", "name"}
    BY <1>2
  <2> QED
    BY <1>2, <2>1, Zenon DEF Receive
<1> HIDE DEF h
<1>4. crashed' = TRUE /\ requests' = requests
  <2>1. /\ active_playlist_name \in {NoName, h.name}
        /\ active_playlist_name # h.name
    BY <1>2
  <2> QED
    BY <1>3, <2>1, Zenon DEF UpdateActivePlaylist
<1>5. Registered(H, r)'
  BY <1>1, <1>3, <1>4 DEF Registered, Beginning
<1>6. ListCached(H, r)' /\ NameCached'
  BY <1>4 DEF ListCached, NameCached
<1> QED
  BY <1>5, <1>6

\* Without a load to come, the client deals with the changes one by one.
LEMMA OneByOne ==
  ASSUME Types, NEW H, NEW r, Inv(H, r), Receive, Following(H, r),
         Head(inbox).is = "changed", ~LoadedToCome, newest >= r
  PROVE  Head(inbox).version = newest + 1
<1> DEFINE h == Head(inbox)
<1>1. /\ h \in Message /\ h \in Range(inbox)
      /\ Range(inbox) = {h} \cup Range(inbox')
      /\ \A p \in Range(inbox') : p.is \in Notices => Follows(h, p)
  BY ReceiveEffect
<1> HIDE DEF h
<1>2. h.is = "changed" /\ h.is \in Notices /\ h.version \in Nat
  BY <1>1, MessageFields DEF h, Notices
<1>3. newest \in Nat /\ version \in Nat /\ r \in Nat
  BY DEF Types, Inv, Truth
<1>4. newest < h.version /\ h.version <= version
  <2>1. Later(newest, h) /\ NoticeTrue(h, H, version)
    BY <1>1, <1>2, Zenon DEF Inv, Truth, InboxTrue
  <2> QED
    BY <1>2, <1>3, <2>1 DEF Later, NoticeTrue
<1>5. ASSUME newest + 1 < h.version PROVE FALSE
  <2>1. newest + 1 \in r + 1..version /\ newest + 1 > newest
    BY <1>2, <1>3, <1>4, <1>5
  <2>2. PICK m \in ToCome : m.is \in Notices /\ m.version = newest + 1
    BY <2>1 DEF Following, NoticeIs
  <2>3. m \notin Range(loading)
    <3>1. m \in Range(loading) => m.is = "loaded"
      BY DEF Inv, Truth, LoadingTrue
    <3> QED
      BY <3>1 DEF LoadedToCome, ToCome
  <2>4. m # h
    BY <1>5, <2>2, <1>2, <1>3
  <2>5. m \in Range(inbox')
    BY <1>1, <2>2, <2>3, <2>4 DEF ToCome
  <2>6. h.version < m.version
    BY <1>1, <1>2, <2>2, <2>5 DEF Follows
  <2> QED
    BY <1>2, <1>3, <1>5, <2>2, <2>6
<1> QED
  BY <1>2, <1>3, <1>4, <1>5 DEF h

LEMMA ChangedReceived ==
  ASSUME Types, NEW H, NEW r, Inv(H, r), ~crashed, Receive, Following(H, r),
         Head(inbox).is = "changed"
  PROVE  ListCached(H, r)' /\ NameCached'
<1> DEFINE h == Head(inbox)
           c == h.change
<1>1. /\ h \in Message /\ h \in Range(inbox)
      /\ Range(inbox) = {h} \cup Range(inbox')
      /\ lists' = lists /\ active' = active /\ loading' = loading
      /\ version' = version /\ registered' = registered
      /\ answer' = answer /\ phase' = phase
      /\ requests' = requests \/ requests' = Append(requests, Ask("entries", FALSE))
  BY ReceiveEffect
<1>2. /\ UpdateActivePlaylist(h) /\ Deal(h) /\ parsed' = parsed
      /\ active_playlist_name' = active_playlist_name
  <2>1. h.is = "changed" /\ h.is # "loaded" /\ h.is # "entries"
        /\ h.is \notin {"values", "entries", "name"}
    OBVIOUS
  <2> QED
    BY <2>1, Zenon DEF Receive
<1> HIDE DEF h, c
<1>3. h.is = "changed" /\ h.is \in Notices /\ h.is \notin Answers
  BY DEF h, Notices, Answers
<1>4. ~overtaken' => ~overtaken /\ newest' = h.version
  BY <1>1, <1>2, DealEffect
<1>5. Range(requests) \subseteq Range(requests')
  <2>1. Ask("entries", FALSE) \in [what : Answers, sync : BOOLEAN]
    BY DEF Ask, Answers
  <2> QED
    BY <1>1, <2>1, RequestsGrow
<1>6. ToCome = {h} \cup ToCome'
  BY <1>1 DEF ToCome
<1>7. LoadedToCome => LoadedToCome'
  BY <1>3, <1>6 DEF LoadedToCome
<1>8. ReloadToCome => ReloadToCome'
  <2>1. ~Asked(h)
    BY <1>3 DEF Asked
  <2> QED
    BY <1>1, <1>5, <1>7, <2>1 DEF ReloadToCome
<1>9. ~crashed' => active_playlist_name # NoName
  <2>1. h.name # NoName
    BY <1>1, MessageFields, CacheAssumption
  <2> QED
    BY <1>2, <2>1, Zenon DEF UpdateActivePlaylist
<1>10. NameCached'
  BY <1>1, <1>2, <1>4, <1>7 DEF Inv, NameCached
<1>11. ASSUME ~crashed', ~overtaken', ~ReloadToCome'
       PROVE  newest' >= r /\ active_playlist' = ListOf(H, newest')
  <2>1. ~overtaken /\ newest' = h.version /\ ~ReloadToCome /\ ~LoadedToCome
    BY <1>4, <1>8, <1>11 DEF ReloadToCome
  <2>2. newest >= r /\ active_playlist = ListOf(H, newest)
    BY <2>1 DEF Inv, ListCached
  <2>3. active_playlist_name = active
    BY <1>9, <1>11, <2>1 DEF Inv, NameCached
  <2>4. h.version = newest + 1
    BY <2>1, <2>2, OneByOne DEF h
  <2>5. newest \in Nat /\ version \in Nat /\ r \in Nat /\ active \in Name
    BY DEF Types, TypeOK, Inv, Truth
  <2>6. NoticeTrue(h, H, version)
    BY <1>1, <1>3, Zenon DEF Inv, Truth, InboxTrue
  <2>7. newest + 1 <= version /\ h.version - 1 = newest
    BY <2>4, <2>5, <2>6 DEF NoticeTrue
  <2>8. Tells(h, H[newest], H[newest + 1])
    <3>1. Tells(h, H[h.version - 1], H[h.version])
      BY <1>3, <2>6, Zenon DEF NoticeTrue
    <3> QED
      BY <2>4, <2>7, <3>1
  <2>9. H[newest].active = active /\ H[newest + 1].active = active
    <3>1. newest \in r..version /\ newest \in newest..version
          /\ newest + 1 \in newest..version
      BY <2>2, <2>5, <2>7
    <3>2. ~LoadIs(newest)
      BY <2>1 DEF LoadIs, LoadedToCome
    <3> QED
      BY <2>5, <3>1, <3>2 DEF Following
  <2> DEFINE old == H[newest].lists[active]
             new == H[newest + 1].lists[active]
  <2>10. active_playlist = old /\ ListOf(H, newest') = new /\ newest' >= r
    BY <2>1, <2>2, <2>4, <2>5, <2>9 DEF ListOf
  <2>11. CASE active # h.name
    <3>1. new = old
      BY <2>5, <2>8, <2>11 DEF Tells
    <3>2. active_playlist' = active_playlist
      <4>1. active_playlist_name # h.name /\ active_playlist_name # NoName
        BY <1>9, <1>11, <2>3, <2>11
      <4> QED
        BY <1>2, <4>1, Zenon DEF UpdateActivePlaylist
    <3> QED
      BY <2>10, <3>1, <3>2
  <2>12. CASE active = h.name
    <3>1. Makes(c, old, new)
      BY <2>8, <2>12 DEF Tells, c
    <3>2. ~Reload
      BY <1>11, ReloadRequested
    <3>3. Apply(c)
      <4>1. active_playlist_name = h.name /\ active_playlist_name # NoName
            /\ ~(active_playlist_name \notin {NoName, h.name})
        BY <1>9, <1>11, <2>3, <2>12
      <4> QED
        BY <1>2, <3>2, <4>1, Zenon DEF UpdateActivePlaylist, c
    <3> HIDE DEF old, new
    <3>4. \/ c.type = "ADD" /\ active_playlist' = Append(old, c.id)
          \/ c.type = "REMOVE" /\ active_playlist' = Without(old, c.pos)
          \/ c.type = "INSERT" /\ active_playlist' = Inserted(old, c.pos, c.id)
          \/ /\ c.type = "MOVE"
             /\ active_playlist' = Inserted(Without(old, c.pos), c.newpos, c.id)
      <4>1. CASE c.type = "MOVE"
        BY <2>10, <3>3, <4>1 DEF Apply
      <4>2. CASE c.type # "MOVE"
        BY <2>10, <3>3, <4>2 DEF Apply
      <4> QED
        BY <4>1, <4>2
    <3>5. active_playlist' = new
      BY <3>1, <3>4 DEF Makes
    <3> QED
      BY <2>10, <3>5
  <2> QED
    BY <2>11, <2>12
<1>12. ListCached(H, r)'
  BY <1>11 DEF ListCached
<1> QED
  BY <1>10, <1>12

LEMMA LoadedReceived ==
  ASSUME Types, NEW H, NEW r, Inv(H, r), ~crashed, Receive, Following(H, r),
         Head(inbox).is = "loaded"
  PROVE  ListCached(H, r)' /\ NameCached'
<1> DEFINE h == Head(inbox)
<1>1. /\ h \in Message /\ h \in Range(inbox)
      /\ Range(inbox) = {h} \cup Range(inbox')
      /\ active' = active /\ loading' = loading /\ version' = version
  BY ReceiveEffect
<1>2. ReloadActivePlaylist(h) /\ Deal(h)
  <2>1. h.is # "changed" /\ h.is # "entries"
        /\ h.is \notin {"values", "entries", "name"}
    OBVIOUS
  <2> QED
    BY <2>1, Zenon DEF Receive
<1> HIDE DEF h
<1>3. h.is = "loaded" /\ h.is \in Notices
  BY DEF h, Notices
<1>4. ReloadToCome'
  BY <1>2, ReloadRequested DEF ReloadActivePlaylist
<1>5. ToCome = {h} \cup ToCome'
  BY <1>1 DEF ToCome
<1>6. ASSUME ~overtaken', ~LoadedToCome' PROVE active_playlist_name' = active'
  <2>1. active_playlist_name' = h.name
    BY <1>2 DEF ReloadActivePlaylist
  <2>2. newest' = h.version /\ newest' >= newest
    BY <1>1, <1>2, <1>6, DealEffect
  <2>3. NoticeTrue(h, H, version) /\ h.version >= r
    BY <1>1, <1>3, Zenon DEF Inv, Truth, InboxTrue
  <2>4. version \in Nat /\ r \in Nat /\ newest \in Nat /\ h.version \in Nat
    BY <1>1, MessageFields DEF Types, Inv, Truth
  <2>5. h.version \in r..version /\ h.version \in h.version..version
        /\ h.version >= newest /\ h.name = H[h.version].active
    BY <1>3, <2>2, <2>3, <2>4 DEF NoticeTrue
  <2>6. ~LoadIs(h.version)
    <3> SUFFICES ASSUME NEW m \in ToCome, m.is = "loaded", m.version > h.version
                 PROVE  FALSE
      BY DEF LoadIs
    <3>1. m # h
      BY <2>4
    <3> QED
      BY <1>5, <1>6, <3>1 DEF LoadedToCome
  <2>7. H[h.version].active = active
    BY <2>5, <2>6 DEF Following
  <2> QED
    BY <1>1, <2>1, <2>5, <2>7
<1> QED
  BY <1>4, <1>6 DEF ListCached, NameCached

LEMMA EntriesReceived ==
  ASSUME Types, NEW H, NEW r, Inv(H, r), ~crashed, Receive,
         Head(inbox).is = "entries", ~Head(inbox).sync
  PROVE  ListCached(H, r)' /\ NameCached'
<1> DEFINE h == Head(inbox)
<1>1. /\ h \in Message /\ h \in Range(inbox)
      /\ Range(inbox) = {h} \cup Range(inbox')
      /\ active' = active /\ loading' = loading /\ version' = version
      /\ phase' = phase
  BY ReceiveEffect
<1>2. /\ RefreshActivePlaylist(h) /\ Deal(h) /\ crashed' = crashed
      /\ active_playlist_name' = active_playlist_name
  <2>1. h.is = "entries" /\ ~h.sync /\ h.is # "changed" /\ h.is # "loaded"
    OBVIOUS
  <2> QED
    BY <2>1, Zenon DEF Receive
<1> HIDE DEF h
<1>3. h.is \in Answers /\ h.is # "loaded"
  BY DEF h, Answers
<1>4. ToCome = {h} \cup ToCome'
  BY <1>1 DEF ToCome
<1>5. LoadedToCome => LoadedToCome'
  BY <1>3, <1>4 DEF LoadedToCome
<1>6. ~overtaken' => ~overtaken /\ newest' = h.version
  BY <1>1, <1>2, DealEffect
<1>7. AnswerTrue(h, H, r, version)
  BY <1>1, <1>3, Zenon DEF Inv, Truth, InboxTrue
<1>8. h.version >= r /\ h.list = ListOf(H, h.version)
  BY <1>7 DEF AnswerTrue, Inv, Truth, Types
<1>9. ListCached(H, r)'
  <2>1. active_playlist' = h.list
    BY <1>2 DEF RefreshActivePlaylist
  <2> QED
    BY <1>6, <1>8, <2>1 DEF ListCached
<1>10. NameCached'
  BY <1>1, <1>2, <1>5, <1>6 DEF Inv, NameCached
<1> QED
  BY <1>9, <1>10

LEMMA AnswerReceived ==
  ASSUME Types, NEW H, NEW r, Inv(H, r), ~crashed, Receive,
         Head(inbox).is \in Answers, Head(inbox).sync
  PROVE  ListCached(H, r)' /\ NameCached'
<1> DEFINE h == Head(inbox)
<1>1. /\ h \in Message /\ h \in Range(inbox)
      /\ Range(inbox) = {h} \cup Range(inbox')
      /\ active' = active /\ loading' = loading /\ version' = version
      /\ answer' = answer /\ phase' = phase
  BY ReceiveEffect
<1>2. /\ UNCHANGED cacheVars /\ requests' = requests /\ crashed' = crashed
      /\ UNCHANGED ghostVars
  <2>1. h.sync /\ h.is # "changed" /\ h.is # "loaded"
    BY DEF Answers
  <2> QED
    BY <2>1, Zenon DEF Receive
<1> HIDE DEF h
<1>3. ~Asked(h) /\ h.is # "loaded"
  BY DEF h, Answers, Asked
<1>4. ToCome = {h} \cup ToCome'
  BY <1>1 DEF ToCome
<1>5. LoadedToCome => LoadedToCome'
  BY <1>3, <1>4 DEF LoadedToCome
<1>6. ReloadToCome => ReloadToCome'
  BY <1>1, <1>2, <1>3, <1>5 DEF ReloadToCome
<1> QED
  BY <1>1, <1>2, <1>5, <1>6 DEF Inv, ListCached, NameCached, cacheVars, ghostVars

LEMMA ReceiveStep ==
  ASSUME Types, NEW H, NEW r, Inv(H, r), ~crashed, Receive
  PROVE  Inv(H, r)'
<1> DEFINE h == Head(inbox)
<1>1. Truth(H, r)' /\ (phase # "run" => Awaited)'
  BY ReceiveTruth, ReceiveAwaited
<1>2. CASE Beginning
  BY <1>1, <1>2, ReceiveBeginning DEF Inv
<1>3. CASE registered = Notices /\ Following(H, r)
  <2>1. Registered(H, r)'
    <3>1. registered' = registered
      BY ReceiveEffect
    <3> QED
      BY <1>3, <3>1, ReceiveFollowing DEF Registered
  <2>2. h.is = "changed" \/ h.is = "loaded" \/ (h.is = "entries" /\ ~h.sync)
          \/ (h.is \in Answers /\ h.sync)
    BY Zenon DEF Receive, Answers
  <2>3. ListCached(H, r)' /\ NameCached'
    BY <1>3, <2>2, ChangedReceived, LoadedReceived, EntriesReceived, AnswerReceived
  <2> QED
    BY <1>1, <2>1, <2>3 DEF Inv
<1> QED
  BY <1>2, <1>3 DEF Inv, Registered

LEMMA RequestAwaited ==
  ASSUME Types, NEW what \in Answers, requests' = Append(requests, Ask(what, TRUE))
  PROVE  Awaited'
<1> DEFINE T == [what : Notices \cup Answers, sync : BOOLEAN]
           q == Ask(what, TRUE)
<1>1. requests \in Seq(T) /\ q \in T
  BY DEF Types, Ask
<1>2. requests' = Append(requests, q)
  OBVIOUS
<1> HIDE DEF T
<1>3. q \in Range(requests')
  <2> HIDE DEF q
  <2>1. Range(Append(requests, q)) = Range(requests) \cup {q}
    BY <1>1, AppendRange
  <2> QED
    BY <1>2, <2>1
<1>4. q.sync
  BY DEF Ask
<1> QED
  BY <1>3, <1>4 DEF Awaited

\* The answer that was waited for is used.
LEMMA RefreshedStep ==
  ASSUME Types, NEW H, NEW r, Inv(H, r), ~crashed, Refreshed
  PROVE  Inv(H, r)'
<1> DEFINE m == Head(parsed)
<1>1. /\ parsed \in Seq(Message) /\ newest \in Nat /\ version \in Nat /\ r \in 0..version
      /\ lists \in [Name -> Seq(Entry)] /\ active \in Name
  BY DEF Types, TypeOK, Inv, Truth
<1>2. /\ lists' = lists /\ version' = version /\ active' = active
      /\ loading' = loading /\ inbox' = inbox
      /\ registered' = registered /\ answer' = answer /\ crashed' = crashed
      /\ parsed # <<>> /\ parsed' = <<>>
  BY Zenon DEF Refreshed, serverVars, threadVars
<1>3. \/ /\ phase = "values" /\ phase' = "entries"
         /\ requests' = Append(requests, Ask("entries", TRUE))
         /\ active_playlist' = active_playlist
         /\ active_playlist_name' = active_playlist_name
         /\ newest' = newest /\ overtaken' = overtaken
      \/ /\ phase = "entries" /\ phase' = "name"
         /\ active_playlist' = m.list /\ Deal(m)
         /\ requests' = Append(requests, Ask("name", TRUE))
         /\ active_playlist_name' = active_playlist_name
      \/ /\ phase = "name" /\ phase' = "run"
         /\ active_playlist_name' = m.name /\ Deal(m)
         /\ active_playlist' = active_playlist /\ requests' = requests
  BY Zenon DEF Refreshed, cacheVars, ghostVars, RefreshActivePlaylist,
               RefreshActivePlaylistName
<1>4. m \in Message /\ m \in Range(parsed)
  BY <1>1, <1>2, TailRange
<1> HIDE DEF m
<1>5. Truth(H, r)
  BY DEF Inv
<1>6. /\ m.is \in Answers /\ AnswerTrue(m, H, r, version)
      /\ \A p \in Range(inbox) : p.is \in Notices => Later(m.version, p)
  BY <1>4, <1>5 DEF Truth, AnswersTrue, ParsedFirst
<1>7. /\ m.version \in Nat /\ m.version >= r /\ m.version <= version
      /\ m.list = ListOf(H, m.version) /\ m.name = H[m.version].active
  BY <1>1, <1>4, <1>6, MessageFields DEF AnswerTrue
<1>8. /\ newest' \in {newest, m.version} /\ newest' >= newest /\ newest' \in Nat
      /\ ~overtaken' => ~overtaken
  <2>1. Deal(m) => /\ newest' \in {newest, m.version} /\ newest' >= newest
                   /\ newest' \in Nat /\ (~overtaken' => ~overtaken)
    BY <1>4, DealEffect
  <2>2. ~overtaken' => ~overtaken
    BY <1>3, <2>1, Zenon
  <2>3. newest' = newest \/ Deal(m)
    BY <1>3, Zenon
  <2> QED
    BY <1>1, <2>1, <2>2, <2>3
<1>9. Truth(H, r)'
  <2>1. Range(parsed') = {}
    BY <1>2, EmptyRange
  <2>2. InboxTrue(H, r)'
    <3> SUFFICES ASSUME NEW p \in Range(inbox)
                 PROVE  /\ p.is \in Notices => /\ NoticeTrue(p, H, version)
                                               /\ Later(newest', p)
                                               /\ loading # <<>> => p.version < version
                        /\ p.is = "loaded" => p.version >= r
                        /\ p.is \in Answers => AnswerTrue(p, H, r, version)
      BY <1>2, Zenon DEF InboxTrue
    <3>1. p.is \in Notices => Later(newest', p)
      <4>1. p.is \in Notices => Later(newest, p)
        BY <1>5, Zenon DEF Truth, InboxTrue
      <4> QED
        BY <1>6, <1>8, <4>1
    <3> QED
      BY <1>5, <3>1, Zenon DEF Truth, InboxTrue
  <2>3. AnswersTrue(H, r)' /\ ParsedFirst'
    BY <1>2, <1>5, <2>1 DEF Truth, AnswersTrue, ParsedFirst
  <2> QED
    BY <1>2, <1>5, <2>2, <2>3 DEF Truth, History, LoadingTrue
<1>10. Following(H, r) /\ registered = Notices
  BY <1>2 DEF Inv, Registered, Beginning
<1>11. ToCome' = ToCome
  BY <1>2 DEF ToCome
<1>12. LoadedToCome' <=> LoadedToCome
  BY <1>11 DEF LoadedToCome
<1>13. \A q \in Range(requests') : q.what \in Answers
  <2>1. /\ Ask("entries", TRUE) \in [what : Answers, sync : BOOLEAN]
        /\ Ask("name", TRUE) \in [what : Answers, sync : BOOLEAN]
    BY DEF Ask, Answers
  <2>2. \/ requests' = requests
        \/ \E q \in [what : Answers, sync : BOOLEAN] : requests' = Append(requests, q)
    BY <1>3, <2>1, Zenon
  <2> QED
    BY <1>10, <2>2, RequestsGrow DEF Following
<1>14. Registered(H, r)'
  <2>1. \A k \in r + 1..version' : k > newest' => NoticeIs(k)'
    BY <1>1, <1>2, <1>8, <1>10, <1>11 DEF Following, NoticeIs
  <2>2. ASSUME NEW k \in r..version', k >= newest'
        PROVE  LoadIs(k)' \/ \A j \in k..version' : H[j].active = active'
    <3>1. k >= newest
      BY <1>1, <1>2, <1>8, <2>2
    <3>2. LoadIs(k) \/ \A j \in k..version : H[j].active = active
      BY <1>2, <1>10, <3>1 DEF Following
    <3> QED
      BY <1>2, <1>11, <3>2 DEF LoadIs
  <2> QED
    BY <1>2, <1>10, <1>13, <2>1, <2>2 DEF Registered, Following
<1>15. (phase # "run" => Awaited)'
  <2>1. "entries" \in Answers /\ "name" \in Answers
    BY DEF Answers
  <2> QED
    BY <1>3, <2>1, RequestAwaited
\* Without a load to come, what is still to be dealt with is newer than the
\* answer.
<1>16. ASSUME ~LoadedToCome, newest >= r, newest <= m.version PROVE newest = m.version
  <2>1. SUFFICES ASSUME newest < m.version PROVE FALSE
    BY <1>1, <1>7, <1>16
  <2>2. newest + 1 \in r + 1..version /\ newest + 1 > newest
    BY <1>1, <1>7, <1>16, <2>1
  <2>3. PICK p \in ToCome : p.is \in Notices /\ p.version = newest + 1
    BY <1>10, <2>2 DEF Following, NoticeIs
  <2>4. p.is # "loaded"
    BY <1>16 DEF LoadedToCome
  <2>5. p \in Range(inbox)
    BY <1>5, <2>3, <2>4 DEF ToCome, Truth, LoadingTrue
  <2>6. m.version < p.version
    BY <1>6, <2>3, <2>4, <2>5 DEF Later
  <2> QED
    BY <1>1, <1>7, <2>1, <2>3, <2>6
<1>17. CASE phase = "values"
  <2>1. phase' = "entries"  /\ active_playlist_name' = active_playlist_name
        /\ newest' = newest /\ overtaken' = overtaken
    BY <1>3, <1>17
  <2>2. ListCached(H, r)' /\ NameCached'
    BY <1>2, <1>12, <1>17, <2>1 DEF Inv, ListCached, NameCached, ReloadToCome
  <2> QED
    BY <1>9, <1>14, <1>15, <2>2 DEF Inv
<1>18. CASE phase = "entries"
  <2>1. /\ phase' = "name" /\ active_playlist_name' = active_playlist_name
        /\ active_playlist' = m.list /\ Deal(m)
    BY <1>3, <1>18
  <2>2. ~overtaken' => newest' = m.version
    BY <1>4, <2>1, DealEffect
  <2>3. ListCached(H, r)'
    BY <1>7, <2>1, <2>2 DEF ListCached
  <2>4. NameCached'
    BY <1>2, <1>8, <1>12, <1>18, <2>1 DEF Inv, NameCached
  <2> QED
    BY <1>9, <1>14, <1>15, <2>3, <2>4 DEF Inv
<1>19. CASE phase = "name"
  <2>1. /\ phase' = "run" /\ active_playlist_name' = m.name /\ Deal(m)
        /\ active_playlist' = active_playlist /\ requests' = requests
    BY <1>3, <1>19
  <2>2. ~overtaken' => newest' = m.version /\ newest <= m.version
    BY <1>1, <1>4, <1>7, <1>8, <2>1, DealEffect
  <2>3. ReloadToCome' <=> ReloadToCome
    BY <1>2, <1>12, <1>19, <2>1 DEF ReloadToCome
  <2>4. ListCached(H, r)'
    <3> SUFFICES ASSUME ~crashed', ~overtaken', ~ReloadToCome'
                 PROVE  newest' >= r /\ active_playlist' = ListOf(H, newest')
      BY DEF ListCached
    <3>1. newest >= r /\ active_playlist = ListOf(H, newest) /\ ~LoadedToCome
      BY <1>8, <2>3 DEF Inv, ListCached, ReloadToCome
    <3>2. newest' = newest
      BY <1>16, <2>2, <3>1
    <3> QED
      BY <2>1, <3>1, <3>2
  <2>5. NameCached'
    <3> SUFFICES ASSUME ~overtaken', ~LoadedToCome' PROVE m.name = active
      BY <1>2, <2>1 DEF NameCached
    <3>1. ~LoadIs(m.version)
      BY <1>12 DEF LoadIs, LoadedToCome
    <3>2. m.version \in r..version /\ m.version >= newest
          /\ m.version \in m.version..version
      BY <1>1, <1>7, <2>2
    <3> QED
      BY <1>7, <1>10, <3>1, <3>2 DEF Following
  <2> QED
    BY <1>9, <1>14, <1>15, <2>4, <2>5 DEF Inv
<1> QED
  BY <1>3, <1>17, <1>18, <1>19

-----------------------------------------------------------------------------
(***************************************************************************)
(* Types                                                                   *)
(***************************************************************************)

LEMMA WithoutType ==
  ASSUME NEW T, NEW s \in Seq(T), NEW pos \in Nat
  PROVE  /\ Without(s, pos) \in Seq(T)
         /\ pos < Len(s) => Len(Without(s, pos)) = Len(s) - 1
<1>1. CASE pos < Len(s)
  <2>1. pos + 1 - 1 = pos /\ pos + 1 + 1 = pos + 2 /\ Len(s) \in Nat
    OBVIOUS
  <2>2. /\ SubSeq(s, 1, pos) \in Seq(T) /\ Len(SubSeq(s, 1, pos)) = pos
        /\ SubSeq(s, pos + 2, Len(s)) \in Seq(T)
        /\ Len(SubSeq(s, pos + 2, Len(s))) = Len(s) - pos - 1
    BY <1>1, <2>1
  <2> DEFINE x == SubSeq(s, 1, pos)
             y == SubSeq(s, pos + 2, Len(s))
  <2>3. Without(s, pos) = x \o y
    <3> DEFINE k == pos + 1
    <3>1. Without(s, pos) = RemoveAt(s, k)
      BY <1>1, Zenon DEF Without
    <3>2. k - 1 = pos /\ k + 1 = pos + 2
      OBVIOUS
    <3> HIDE DEF k
    <3>3. RemoveAt(s, k) = SubSeq(s, 1, k - 1) \o SubSeq(s, k + 1, Len(s))
      BY Zenon DEF RemoveAt
    <3> QED
      BY <3>1, <3>2, <3>3, Zenon
  <2> HIDE DEF x, y
  <2>4. x \in Seq(T) /\ y \in Seq(T) /\ Len(x) = pos /\ Len(y) = Len(s) - pos - 1
    BY <2>2 DEF x, y
  <2> QED
    BY <2>1, <2>3, <2>4, JoinedType
<1>2. CASE ~(pos < Len(s))
  BY <1>2 DEF Without
<1> QED
  BY <1>1, <1>2

Padding(k) == [i \in 1..k |-> Zero]

LEMMA PaddingType ==
  ASSUME NEW T, NEW k \in Int, k > 0 => Zero \in T
  PROVE  /\ Padding(k) \in Seq(T)
         /\ Len(Padding(k)) = IF k > 0 THEN k ELSE 0
<1>1. CASE k > 0
  <2>1. Padding(k) \in [1..k -> T]
    BY <1>1 DEF Padding
  <2> QED
    BY <1>1, <2>1
<1>2. CASE ~(k > 0)
  <2>1. 1..k = 1..0 /\ 0 \in Nat
    BY <1>2
  <2>2. [i \in 1..0 |-> Zero] \in Seq(T) /\ Len([i \in 1..0 |-> Zero]) = 0
    OBVIOUS
  <2> QED
    BY <1>2, <2>1, <2>2 DEF Padding
<1> QED
  BY <1>1, <1>2

LEMMA InsertedType ==
  ASSUME NEW T, NEW s \in Seq(T), NEW pos \in Nat, NEW e \in T,
         pos > Len(s) => Zero \in T
  PROVE  Inserted(s, pos, e) \in Seq(T)
<1> DEFINE k == pos - Len(s)
           z == Padding(k)
           t == s \o z
<1>1. Len(s) \in Nat /\ k \in Int /\ (k > 0 <=> pos > Len(s))
  OBVIOUS
<1>2. Inserted(s, pos, e) = InsertAt(t, pos + 1, e)
  BY Zenon DEF Inserted, Padding
<1> HIDE DEF k
<1>3. z \in Seq(T) /\ Len(z) = IF k > 0 THEN k ELSE 0
  BY <1>1, PaddingType
<1> HIDE DEF z
<1>4. t \in Seq(T) /\ Len(t) = Len(s) + Len(z)
  BY <1>3, JoinedType
<1> HIDE DEF t
<1>5. Len(t) >= pos /\ Len(t) \in Nat /\ pos + 1 - 1 = pos
  BY <1>1, <1>3, <1>4 DEF k
<1> DEFINE x == SubSeq(t, 1, pos)
           y == SubSeq(t, pos + 1, Len(t))
           m == <<e>>
<1>6. x \in Seq(T) /\ y \in Seq(T) /\ m \in Seq(T)
  BY <1>4, <1>5
<1>7. Inserted(s, pos, e) = (x \o m) \o y
  <2> DEFINE n == pos + 1
  <2>1. n - 1 = pos /\ Inserted(s, pos, e) = InsertAt(t, n, e)
    BY <1>2
  <2>2. y = SubSeq(t, n, Len(t))
    OBVIOUS
  <2> HIDE DEF n, y
  <2>3. InsertAt(t, n, e) = (SubSeq(t, 1, n - 1) \o m) \o SubSeq(t, n, Len(t))
    BY Zenon DEF InsertAt
  <2> QED
    BY <2>1, <2>2, <2>3, Zenon
<1> HIDE DEF x, y, m
<1>8. x \o m \in Seq(T)
  BY <1>6, JoinedType
<1>9. (x \o m) \o y \in Seq(T)
  BY <1>6, <1>8, JoinedType
<1> QED
  BY <1>7, <1>9, Zenon

LEMMA FreshnessTypes ==
  ASSUME NEW f \in Freshness
  PROVE  Requested(f) \in Freshness /\ Received(f) \in Freshness
<1>1. f.status \in {"NOT_INIT", "PENDING", "FRESH"} /\ f.pending_queries \in Nat
  BY DEF Freshness
<1>2. Requested(f) \in Freshness
  BY <1>1 DEF Requested, Freshness
<1> DEFINE left == IF f.pending_queries > 0 THEN f.pending_queries - 1 ELSE 0
           n == [status |-> "FRESH", pending_queries |-> 0]
           p == [status |-> IF left = 0 THEN "FRESH" ELSE "PENDING",
                 pending_queries |-> left]
<1>3. n \in Freshness /\ p \in Freshness
  BY <1>1 DEF Freshness
<1>4. Received(f) = CASE f.status = "NOT_INIT" -> n
                      [] f.status = "PENDING" -> p
                      [] f.status = "FRESH" -> f
  BY Zenon DEF Received
<1> HIDE DEF n, p
<1>5. CASE f.status = "NOT_INIT"
  <2>1. f.status # "PENDING" /\ f.status # "FRESH"
    BY <1>5
  <2>2. Received(f) = n
    BY <1>4, <1>5, <2>1, Zenon
  <2> QED
    BY <1>2, <1>3, <2>2
<1>6. CASE f.status = "PENDING"
  <2>1. f.status # "NOT_INIT" /\ f.status # "FRESH"
    BY <1>6
  <2>2. Received(f) = p
    BY <1>4, <1>6, <2>1, Zenon
  <2> QED
    BY <1>2, <1>3, <2>2
<1>7. CASE f.status = "FRESH"
  <2>1. f.status # "NOT_INIT" /\ f.status # "PENDING"
    BY <1>7
  <2>2. Received(f) = f
    BY <1>4, <1>7, <2>1, Zenon
  <2> QED
    BY <1>2, <2>2
<1> QED
  BY <1>1, <1>5, <1>6, <1>7

\* A command that changes a list is an edit that tells the truth about it.
LEMMA EditsTell ==
  ASSUME Types, NEW n \in Name,
         \/ AddEntry(n) \/ InsertEntry(n) \/ MoveEntry(n)
         \/ RemoveEntry(n) \/ Clear(n) \/ Reorder(n)
  PROVE  \E list \in Seq(Entry), change \in Changes :
           Edit(n, list, change) /\ Makes(change, lists[n], list)
<1> DEFINE l == lists[n]
<1>1. l \in Seq(Entry) /\ Len(l) \in Nat
  BY DEF Types, TypeOK
<1>2. CASE AddEntry(n)
  <2>1. PICK e \in Entry : Edit(n, Append(l, e), Change("ADD", Len(l), 0, e))
    BY <1>2 DEF AddEntry
  <2>2. /\ Append(l, e) \in Seq(Entry) /\ Change("ADD", Len(l), 0, e) \in Changes
    BY <1>1 DEF Change, Changes, Item
  <2>3. Makes(Change("ADD", Len(l), 0, e), l, Append(l, e))
    BY DEF Makes, Change
  <2> QED
    BY <2>1, <2>2, <2>3
<1>3. CASE InsertEntry(n)
  <2>1. PICK e \in Entry, pos \in 0..Len(l) :
          Edit(n, Inserted(l, pos, e), Change("INSERT", pos, 0, e))
    BY <1>3 DEF InsertEntry
  <2>2. Change("INSERT", pos, 0, e) \in Changes
    BY <1>1 DEF Change, Changes, Item
  <2>3. Inserted(l, pos, e) \in Seq(Entry)
    <3>1. pos \in Nat /\ ~(pos > Len(l))
      BY <1>1
    <3> QED
      BY <1>1, <3>1, InsertedType
  <2>4. Makes(Change("INSERT", pos, 0, e), l, Inserted(l, pos, e))
    BY DEF Makes, Change
  <2> QED
    BY <2>1, <2>2, <2>3, <2>4
<1>4. CASE MoveEntry(n)
  <2>1. PICK pos \in Positions(n), newpos \in Positions(n) :
          Edit(n, Inserted(Without(l, pos), newpos, l[pos + 1]),
               Change("MOVE", pos, newpos, l[pos + 1]))
    BY <1>4 DEF MoveEntry
  <2>2. /\ pos \in Nat /\ newpos \in Nat /\ pos < Len(l) /\ newpos < Len(l)
        /\ l[pos + 1] \in Entry
    BY <1>1 DEF Positions
  <2>3. Change("MOVE", pos, newpos, l[pos + 1]) \in Changes
    BY <2>2 DEF Change, Changes, Item
  <2>4. Inserted(Without(l, pos), newpos, l[pos + 1]) \in Seq(Entry)
    <3>1. Without(l, pos) \in Seq(Entry) /\ Len(Without(l, pos)) = Len(l) - 1
      BY <1>1, <2>2, WithoutType
    <3>2. ~(newpos > Len(Without(l, pos)))
      BY <1>1, <2>2, <3>1
    <3> QED
      BY <2>2, <3>1, <3>2, InsertedType
  <2>5. Makes(Change("MOVE", pos, newpos, l[pos + 1]), l,
              Inserted(Without(l, pos), newpos, l[pos + 1]))
    BY DEF Makes, Change
  <2> QED
    BY <2>1, <2>3, <2>4, <2>5
<1>5. CASE RemoveEntry(n)
  <2>1. PICK pos \in Positions(n) :
          Edit(n, Without(l, pos), Change("REMOVE", pos, 0, Zero))
    BY <1>5 DEF RemoveEntry
  <2>2. pos \in Nat
    BY <1>1 DEF Positions
  <2>3. Change("REMOVE", pos, 0, Zero) \in Changes
    BY <2>2 DEF Change, Changes, Item
  <2>4. Without(l, pos) \in Seq(Entry)
    BY <1>1, <2>2, WithoutType
  <2>5. Makes(Change("REMOVE", pos, 0, Zero), l, Without(l, pos))
    BY DEF Makes, Change
  <2> QED
    BY <2>1, <2>3, <2>4, <2>5
<1>6. CASE Clear(n)
  <2>1. /\ Edit(n, <<>>, Change("CLEAR", 0, 0, Zero)) /\ <<>> \in Seq(Entry)
        /\ Change("CLEAR", 0, 0, Zero) \in Changes
        /\ Makes(Change("CLEAR", 0, 0, Zero), l, <<>>)
    BY <1>6 DEF Clear, Change, Changes, Item, Makes
  <2> QED
    BY <2>1
<1>7. CASE Reorder(n)
  <2> DEFINE c == Change("SHUFFLE", 0, 0, Zero)
  <2>1. PICK p \in [DOMAIN l -> DOMAIN l] :
          Edit(n, [i \in DOMAIN l |-> l[p[i]]], c)
    BY <1>7 DEF Reorder, Bijection, Injection, Surjection
  <2> DEFINE s == [i \in DOMAIN l |-> l[p[i]]]
  <2>2. s \in Seq(Entry)
    <3>1. DOMAIN l = 1..Len(l) /\ \A i \in 1..Len(l) : l[p[i]] \in Entry
      BY <1>1
    <3>2. s \in [1..Len(l) -> Entry]
      BY <3>1
    <3> HIDE DEF s
    <3> QED
      BY <1>1, <3>2
  <2>3. c \in Changes /\ Makes(c, l, s)
    BY DEF Change, Changes, Item, Makes
  <2> HIDE DEF s, c
  <2>4. Edit(n, s, c)
    BY <2>1 DEF s, c
  <2> QED
    BY <2>2, <2>3, <2>4
<1> QED
  BY <1>2, <1>3, <1>4, <1>5, <1>6, <1>7

LEMMA NotifyType ==
  ASSUME Types, NEW m \in Message, NEW kind, Notify(kind, m)
  PROVE  inbox' \in Seq(Message)
<1>1. inbox \in Seq(Message)
  BY DEF Types
<1>2. inbox' = inbox \/ inbox' = Append(inbox, m)
  BY Zenon DEF Notify
<1>3. Append(inbox, m) \in Seq(Message)
  BY <1>1, AppendRange
<1> QED
  BY <1>1, <1>2, <1>3

LEMMA OtherClientTypes ==
  ASSUME Types, OtherClient
  PROVE  Types'
<1>1. /\ registered' = registered /\ answer' = answer /\ requests' = requests
      /\ phase' = phase /\ parsed' = parsed /\ crashed' = crashed
      /\ active_playlist' = active_playlist
      /\ active_playlist_name' = active_playlist_name
      /\ fresh_list' = fresh_list /\ fresh_name' = fresh_name
      /\ newest' = newest /\ overtaken' = overtaken
  BY Zenon DEF OtherClient, threadVars, cacheVars, ghostVars
<1>2. /\ version \in Nat /\ newest \in 0..version /\ loading \in Seq(Message)
      /\ lists \in [Name -> Seq(Entry)] /\ active \in Name
  BY DEF Types, TypeOK
<1>3. SUFFICES /\ lists' \in [Name -> Seq(Entry)] /\ active' \in Name
               /\ loading' \in Seq(Message) /\ Len(loading') <= 1
               /\ version' \in Nat /\ version' >= version /\ inbox' \in Seq(Message)
  <2>1. newest' \in 0..version'
    BY <1>1, <1>2, <1>3
  <2> QED
    BY <1>1, <1>3, <2>1 DEF Types, TypeOK
<1>4. <<>> \in Seq(Message) /\ Len(<<>>) <= 1
  OBVIOUS
<1>5. CASE Loaded
  <2>1. /\ lists' = lists /\ active' = active /\ version' = version
        /\ loading' = <<>> /\ loading # <<>> /\ Notify("loaded", Head(loading))
    BY <1>5, Zenon DEF Loaded
  <2>2. Head(loading) \in Message
    BY <1>2, <2>1, TailRange
  <2>3. inbox' \in Seq(Message)
    BY <2>1, <2>2, NotifyType
  <2> QED
    BY <1>2, <1>4, <2>1, <2>3
<1>6. ASSUME NEW n \in Name,
             \/ AddEntry(n) \/ InsertEntry(n) \/ MoveEntry(n)
             \/ RemoveEntry(n) \/ Clear(n) \/ Reorder(n)
      PROVE  /\ lists' \in [Name -> Seq(Entry)] /\ active' \in Name
             /\ loading' \in Seq(Message) /\ Len(loading') <= 1
             /\ version' \in Nat /\ version' >= version /\ inbox' \in Seq(Message)
  <2>1. PICK list \in Seq(Entry), change \in Changes : Edit(n, list, change)
    BY <1>6, EditsTell
  <2> DEFINE m == [is |-> "changed", name |-> n, change |-> change,
                   version |-> version + 1]
  <2>2. /\ lists' = [lists EXCEPT ![n] = list] /\ version' = version + 1
        /\ active' = active /\ loading' = loading /\ Notify("changed", m)
    BY <2>1, Zenon DEF Edit
  <2>3. m \in Message
    BY <1>2 DEF Message
  <2>4. inbox' \in Seq(Message)
    BY <2>2, <2>3, NotifyType
  <2>5. Len(loading) <= 1
    BY DEF Types
  <2> QED
    BY <1>2, <2>2, <2>4, <2>5
<1>7. ASSUME NEW n \in Name, Load(n)
      PROVE  /\ lists' \in [Name -> Seq(Entry)] /\ active' \in Name
             /\ loading' \in Seq(Message) /\ Len(loading') <= 1
             /\ version' \in Nat /\ version' >= version /\ inbox' \in Seq(Message)
  <2> DEFINE m == [is |-> "loaded", name |-> n, version |-> version + 1]
  <2>1. /\ lists' = lists /\ version' = version + 1 /\ active' = n
        /\ loading' = <<m>> /\ inbox' = inbox
    BY <1>7, Zenon DEF Load
  <2>2. m \in Message
    BY <1>2 DEF Message
  <2> HIDE DEF m
  <2>3. <<m>> \in Seq(Message) /\ Len(<<m>>) <= 1
    BY <2>2
  <2>4. inbox \in Seq(Message)
    BY DEF Types
  <2> QED
    BY <1>2, <2>1, <2>3, <2>4
<1> QED
  BY <1>5, <1>6, <1>7, Zenon DEF OtherClient

LEMMA LookupTypes ==
  ASSUME Types, Lookup
  PROVE  Types'
<1> DEFINE q == Head(requests)
           m == [is |-> q.what, sync |-> q.sync, list |-> lists[active],
                 name |-> active, version |-> version]
           T == [what : Notices \cup Answers, sync : BOOLEAN]
<1>1. /\ lists' = lists /\ version' = version /\ active' = active
      /\ loading' = loading /\ inbox' = inbox
      /\ requests # <<>> /\ requests' = Tail(requests) /\ answer = <<>>
      /\ phase' = phase /\ parsed' = parsed /\ crashed' = crashed
      /\ active_playlist' = active_playlist
      /\ active_playlist_name' = active_playlist_name
      /\ fresh_list' = fresh_list /\ fresh_name' = fresh_name
      /\ newest' = newest /\ overtaken' = overtaken
  BY Zenon DEF Lookup, serverVars, cacheVars, ghostVars
<1>2. \/ /\ q.what \in Notices /\ registered' = registered \cup {q.what}
         /\ answer' = answer
      \/ /\ q.what \notin Notices /\ answer' = <<m>> /\ registered' = registered
  BY Zenon DEF Lookup, Notices
<1>3. requests' \in Seq(T) /\ q \in T
  <2>1. requests \in Seq(T)
    BY DEF Types
  <2> HIDE DEF T
  <2> QED
    BY <1>1, <2>1, TailRange
<1>4. q.what \in Notices \cup Answers /\ q.sync \in BOOLEAN
  BY <1>3
<1>5. /\ version \in Nat /\ lists[active] \in Seq(Entry) /\ active \in Name
      /\ registered \subseteq Notices /\ answer \in Seq(Message) /\ Len(answer) <= 1
  BY DEF Types, TypeOK, Notices
<1>6. answer' \in Seq(Message) /\ Len(answer') <= 1
  <2>1. CASE q.what \in Notices
    BY <1>2, <1>5, <2>1
  <2>2. CASE q.what \notin Notices
    <3>1. m \in Message
      BY <1>4, <1>5, <2>2 DEF Message
    <3>2. answer' = <<m>>
      BY <1>2, <2>2
    <3> HIDE DEF m
    <3> QED
      BY <3>1, <3>2
  <2> QED
    BY <2>1, <2>2
<1>7. registered' \subseteq Notices
  BY <1>2, <1>5
<1> HIDE DEF q, m
<1> QED
  BY <1>1, <1>3, <1>6, <1>7 DEF Types, TypeOK, Notices

LEMMA ReplyTypes ==
  ASSUME Types, Reply
  PROVE  Types'
<1>1. /\ lists' = lists /\ version' = version /\ active' = active
      /\ loading' = loading /\ inbox' = Append(inbox, Head(answer))
      /\ answer # <<>> /\ answer' = <<>> /\ requests' = requests
      /\ registered' = registered
      /\ phase' = phase /\ parsed' = parsed /\ crashed' = crashed
      /\ active_playlist' = active_playlist
      /\ active_playlist_name' = active_playlist_name
      /\ fresh_list' = fresh_list /\ fresh_name' = fresh_name
      /\ newest' = newest /\ overtaken' = overtaken
  BY Zenon DEF Reply, serverVars, cacheVars, ghostVars
<1>2. answer \in Seq(Message) /\ inbox \in Seq(Message)
  BY DEF Types
<1>3. Head(answer) \in Message
  BY <1>1, <1>2, TailRange
<1>4. inbox' \in Seq(Message)
  BY <1>1, <1>2, <1>3, AppendRange
<1>5. answer' \in Seq(Message) /\ Len(answer') <= 1
  BY <1>1
<1> QED
  BY <1>1, <1>4, <1>5 DEF Types, TypeOK

\* A change leaves the client with a list, whatever it is applied to.
LEMMA ApplyTypes ==
  ASSUME Types, NEW c \in Changes, Apply(c)
  PROVE  active_playlist' \in Seq(Item) /\ crashed' \in BOOLEAN
<1> DEFINE a == active_playlist
           cut == IF c.type = "MOVE" THEN Without(a, c.pos) ELSE a
           at == IF c.type = "MOVE" THEN c.newpos ELSE c.pos
<1>1. /\ a \in Seq(Item) /\ crashed \in BOOLEAN
      /\ c.pos \in Nat /\ c.newpos \in Nat /\ c.id \in Item /\ Zero \in Item
  BY DEF Types, TypeOK, Changes, Item
<1>2. /\ cut \in Seq(Item) /\ at \in Nat /\ Without(a, c.pos) \in Seq(Item)
  BY <1>1, WithoutType
<1>3. Inserted(cut, at, c.id) \in Seq(Item)
  <2> HIDE DEF cut, at
  <2> QED
    BY <1>1, <1>2, InsertedType
<1>4. Append(a, c.id) \in Seq(Item)
  BY <1>1
<1>5. \/ active_playlist' = Append(a, c.id) /\ crashed' = crashed
      \/ active_playlist' = Without(a, c.pos) /\ crashed' = crashed
      \/ /\ active_playlist' = Inserted(cut, at, c.id)
         /\ crashed' \in (IF at > Len(cut) THEN BOOLEAN ELSE {crashed})
  BY Zenon DEF Apply
<1> HIDE DEF cut, at
<1> QED
  BY <1>1, <1>2, <1>3, <1>4, <1>5

LEMMA RequestsType ==
  ASSUME Types, NEW what \in Answers, NEW sync \in BOOLEAN
  PROVE  Append(requests, Ask(what, sync)) \in Seq([what : Notices \cup Answers,
                                                    sync : BOOLEAN])
<1> DEFINE T == [what : Notices \cup Answers, sync : BOOLEAN]
           q == Ask(what, sync)
<1>1. requests \in Seq(T) /\ q \in T
  BY DEF Types, Ask
<1> HIDE DEF T, q
<1>2. Append(requests, q) \in Seq(T)
  BY <1>1, AppendRange
<1> QED
  BY <1>2 DEF T, q

LEMMA ReloadTypes ==
  ASSUME Types, Reload
  PROVE  /\ requests' \in Seq([what : Notices \cup Answers, sync : BOOLEAN])
         /\ fresh_list' \in Freshness
<1>1. "entries" \in Answers
  BY DEF Answers
<1>2. fresh_list \in Freshness
  BY DEF Types, TypeOK
<1>3. requests' = Append(requests, Ask("entries", FALSE)) /\ fresh_list' = Requested(fresh_list)
  BY DEF Reload
<1> QED
  BY <1>1, <1>2, <1>3, RequestsType, FreshnessTypes

LEMMA DealTypes ==
  ASSUME Types, NEW H, NEW r, Inv(H, r), version' = version, NEW m \in Message,
         m.is \in Notices => NoticeTrue(m, H, version),
         m.is \in Answers => AnswerTrue(m, H, r, version), Deal(m)
  PROVE  newest' \in 0..version' /\ overtaken' \in BOOLEAN
<1>1. newest \in 0..version /\ version \in Nat /\ r \in 0..version
  BY DEF Types, Inv, Truth
<1>2. newest' \in {newest, m.version} /\ newest' \in Nat /\ overtaken' \in BOOLEAN
  BY DealEffect
<1>3. m.version <= version
  <2>1. m.version \in Nat /\ (m.is \in Notices \/ m.is \in Answers)
    BY MessageFields
  <2> QED
    BY <1>1, <2>1 DEF NoticeTrue, AnswerTrue
<1> QED
  BY <1>1, <1>2, <1>3

LEMMA ReceiveTypes ==
  ASSUME Types, NEW H, NEW r, Inv(H, r), ~crashed, Receive
  PROVE  Types'
<1> DEFINE m == Head(inbox)
           T == [what : Notices \cup Answers, sync : BOOLEAN]
<1>1. /\ lists' = lists /\ version' = version /\ active' = active
      /\ loading' = loading /\ answer' = answer /\ registered' = registered
      /\ phase' = phase /\ inbox # <<>> /\ inbox' = Tail(inbox)
  BY Zenon DEF Receive, serverVars, threadVars
<1>2. /\ inbox \in Seq(Message) /\ parsed \in Seq(Message) /\ requests \in Seq(T)
      /\ active_playlist \in Seq(Item) /\ active_playlist_name \in Name \cup {NoName}
      /\ fresh_list \in Freshness /\ fresh_name \in Freshness
      /\ crashed \in BOOLEAN /\ overtaken \in BOOLEAN /\ newest \in 0..version
  BY DEF Types, TypeOK, Item
<1>3. m \in Message /\ m \in Range(inbox) /\ inbox' \in Seq(Message)
  BY <1>1, <1>2, TailRange
<1> HIDE DEF m
<1>4. /\ m.is \in Notices => NoticeTrue(m, H, version)
      /\ m.is \in Answers => AnswerTrue(m, H, r, version)
  BY <1>3, Zenon DEF Inv, Truth, InboxTrue
<1>5. Deal(m) => newest' \in 0..version' /\ overtaken' \in BOOLEAN
  BY <1>1, <1>3, <1>4, DealTypes
<1>6. m.name \in Name /\ (m.is = "changed" => m.change \in Changes)
      /\ (m.is \in Answers => m.list \in Seq(Entry))
  BY <1>3, MessageFields
<1>7. Reload => requests' \in Seq(T) /\ fresh_list' \in Freshness
  BY ReloadTypes
<1>8. SUFFICES /\ active_playlist' \in Seq(Item)
               /\ active_playlist_name' \in Name \cup {NoName}
               /\ fresh_list' \in Freshness /\ fresh_name' \in Freshness
               /\ crashed' \in BOOLEAN /\ overtaken' \in BOOLEAN
               /\ newest' \in 0..version'
               /\ parsed' \in Seq(Message) /\ requests' \in Seq(T)
  BY <1>1, <1>3, <1>8 DEF Types, TypeOK, Item
<1> HIDE DEF T
<1>9. CASE m.is = "changed" /\ UpdateActivePlaylist(m) /\ Deal(m)
             /\ UNCHANGED <<active_playlist_name, fresh_name, parsed>>
  <2>1. Apply(m.change) => active_playlist' \in Seq(Item) /\ crashed' \in BOOLEAN
    BY <1>6, <1>9, ApplyTypes
  <2>2. \/ crashed' = TRUE /\ UNCHANGED <<active_playlist, fresh_list, requests>>
        \/ UNCHANGED <<active_playlist, fresh_list, requests, crashed>>
        \/ Reload /\ UNCHANGED <<active_playlist, crashed>>
        \/ Apply(m.change) /\ UNCHANGED <<fresh_list, requests>>
    BY <1>9, Zenon DEF UpdateActivePlaylist
  <2>3. /\ active_playlist' \in Seq(Item) /\ crashed' \in BOOLEAN
        /\ requests' \in Seq(T) /\ fresh_list' \in Freshness
    BY <1>2, <1>7, <2>1, <2>2
  <2> QED
    BY <1>2, <1>5, <1>9, <2>3
<1>10. CASE ReloadActivePlaylist(m) /\ Deal(m) /\ UNCHANGED <<fresh_name, parsed>>
  <2>1. active_playlist_name' = m.name /\ Reload /\ UNCHANGED <<active_playlist, crashed>>
    BY <1>10, Zenon DEF ReloadActivePlaylist
  <2> QED
    BY <1>2, <1>5, <1>6, <1>7, <1>10, <2>1
<1>11. CASE m.is = "entries" /\ RefreshActivePlaylist(m) /\ Deal(m)
              /\ UNCHANGED <<active_playlist_name, fresh_name, requests, parsed, crashed>>
  <2>1. active_playlist' = m.list /\ fresh_list' = Received(fresh_list)
    BY <1>11, Zenon DEF RefreshActivePlaylist
  <2>2. m.list \in Seq(Item)
    BY <1>6, <1>11 DEF Answers, Item
  <2>3. fresh_list' \in Freshness
    BY <1>2, <2>1, FreshnessTypes
  <2> QED
    BY <1>2, <1>5, <1>11, <2>1, <2>2, <2>3
<1>12. CASE parsed' = <<m>> /\ UNCHANGED <<cacheVars, requests, crashed, ghostVars>>
  <2>1. parsed' \in Seq(Message)
    BY <1>3, <1>12
  <2> QED
    BY <1>1, <1>2, <1>12, <2>1 DEF cacheVars, ghostVars
<1> QED
  BY <1>9, <1>10, <1>11, <1>12, Zenon DEF Receive, m

LEMMA RefreshedTypes ==
  ASSUME Types, NEW H, NEW r, Inv(H, r), ~crashed, Refreshed
  PROVE  Types'
<1> DEFINE m == Head(parsed)
           T == [what : Notices \cup Answers, sync : BOOLEAN]
<1>1. /\ lists' = lists /\ version' = version /\ active' = active
      /\ loading' = loading /\ inbox' = inbox /\ answer' = answer
      /\ registered' = registered /\ crashed' = crashed
      /\ parsed # <<>> /\ parsed' = <<>>
  BY Zenon DEF Refreshed, serverVars, threadVars
<1>2. /\ inbox \in Seq(Message) /\ parsed \in Seq(Message) /\ requests \in Seq(T)
      /\ active_playlist \in Seq(Item) /\ active_playlist_name \in Name \cup {NoName}
      /\ fresh_list \in Freshness /\ fresh_name \in Freshness
      /\ overtaken \in BOOLEAN /\ newest \in 0..version
  BY DEF Types, TypeOK, Item
<1>3. m \in Message /\ m \in Range(parsed)
  BY <1>1, <1>2, TailRange
<1> HIDE DEF m
<1>4. m.is \in Answers /\ AnswerTrue(m, H, r, version) /\ ~(m.is \in Notices)
  BY <1>3, MessageFields DEF Inv, Truth, AnswersTrue
<1>5. Deal(m) => newest' \in 0..version' /\ overtaken' \in BOOLEAN
  BY <1>1, <1>3, <1>4, DealTypes
<1>6. m.name \in Name /\ m.list \in Seq(Item)
  BY <1>3, <1>4, MessageFields DEF Item
<1>7. /\ Append(requests, Ask("entries", TRUE)) \in Seq(T)
      /\ Append(requests, Ask("name", TRUE)) \in Seq(T)
  BY RequestsType DEF Answers
<1>8. Received(fresh_list) \in Freshness /\ Received(fresh_name) \in Freshness
  BY <1>2, FreshnessTypes
<1>9. /\ phase' \in {"entries", "name", "run"}
      /\ active_playlist' \in Seq(Item)
      /\ active_playlist_name' \in Name \cup {NoName}
      /\ fresh_list' \in Freshness /\ fresh_name' \in Freshness
      /\ overtaken' \in BOOLEAN /\ newest' \in 0..version' /\ requests' \in Seq(T)
  <2> HIDE DEF T
  <2>1. \/ /\ phase' = "entries" /\ requests' = Append(requests, Ask("entries", TRUE))
           /\ UNCHANGED <<active_playlist, active_playlist_name, fresh_list, fresh_name>>
           /\ newest' = newest /\ overtaken' = overtaken
        \/ /\ phase' = "name" /\ active_playlist' = m.list /\ Deal(m)
           /\ fresh_list' = Received(fresh_list)
           /\ requests' = Append(requests, Ask("name", TRUE))
           /\ UNCHANGED <<active_playlist_name, fresh_name>>
        \/ /\ phase' = "run" /\ active_playlist_name' = m.name /\ Deal(m)
           /\ fresh_name' = Received(fresh_name)
           /\ UNCHANGED <<active_playlist, fresh_list, requests>>
    BY Zenon DEF Refreshed, cacheVars, ghostVars, RefreshActivePlaylist,
                 RefreshActivePlaylistName, m
  <2> QED
    BY <1>1, <1>2, <1>5, <1>6, <1>7, <1>8, <2>1
<1>10. <<>> \in Seq(Message)
  OBVIOUS
<1> QED
  BY <1>1, <1>9, <1>10 DEF Types, TypeOK, Item

-----------------------------------------------------------------------------
(***************************************************************************)
(* The theorem                                                             *)
(***************************************************************************)

LEMMA InvInit == Init => IInv
<1> SUFFICES ASSUME Init PROVE IInv
  OBVIOUS
<1> DEFINE s == [lists |-> lists, active |-> active]
           H == [k \in {0} |-> s]
           T == [what : Notices \cup Answers, sync : BOOLEAN]
<1>1. /\ lists = Setup /\ active = FirstActive /\ loading = <<>> /\ version = 0
      /\ registered = {} /\ answer = <<>> /\ inbox = <<>>
      /\ requests = <<Ask("changed", FALSE), Ask("loaded", FALSE), Ask("values", TRUE)>>
      /\ phase = "values" /\ parsed = <<>> /\ active_playlist = <<>>
      /\ active_playlist_name = NoName /\ fresh_list = NotInit /\ fresh_name = NotInit
      /\ crashed = FALSE /\ newest = 0 /\ overtaken = FALSE
  BY Zenon DEF Init
<1>2. H[0] = s /\ s.lists = lists /\ s.active = active
  OBVIOUS
<1> HIDE DEF H, s
<1>3. Range(<<>>) = {} /\ 0..0 = {0} /\ 0 \in Nat
  BY EmptyRange
<1>4. Types
  <2>1. NotInit \in Freshness
    BY DEF NotInit, Freshness
  <2>2. requests \in Seq(T)
    <3> DEFINE a == Ask("changed", FALSE)
               b == Ask("loaded", FALSE)
               c == Ask("values", TRUE)
    <3>1. a \in T /\ b \in T /\ c \in T
      BY DEF Ask, Notices, Answers
    <3>2. requests = <<a, b, c>>
      BY <1>1
    <3> HIDE DEF T, a, b, c
    <3>3. <<a, b, c>> \in Seq(T)
      BY <3>1
    <3> QED
      BY <3>2, <3>3
  <2>3. <<>> \in Seq(Message) /\ Len(<<>>) <= 1 /\ <<>> \in Seq(Item)
    OBVIOUS
  <2> QED
    BY <1>1, <1>3, <2>1, <2>2, <2>3, CacheAssumption DEF Types, TypeOK, Item
<1>5. InOrder(inbox)
  <2>1. DOMAIN <<>> = {}
    OBVIOUS
  <2> QED
    BY <1>1, <2>1 DEF InOrder
<1>6. Truth(H, 0)
  BY <1>1, <1>2, <1>3, <1>5
     DEF Truth, History, InboxTrue, AnswersTrue, ParsedFirst, LoadingTrue
<1>7. Beginning
  BY <1>1, <1>3 DEF Beginning
<1>8. Awaited
  <2> DEFINE a == Ask("changed", FALSE)
             b == Ask("loaded", FALSE)
             c == Ask("values", TRUE)
  <2>1. requests = <<a, b, c>> /\ c.sync
    BY <1>1 DEF Ask
  <2> HIDE DEF a, b, c
  <2>2. 3 \in DOMAIN <<a, b, c>> /\ <<a, b, c>>[3] = c
    OBVIOUS
  <2>3. c \in Range(requests)
    BY <2>1, <2>2, Zenon DEF Range
  <2> QED
    BY <2>1, <2>3 DEF Awaited
<1>9. Inv(H, 0)
  BY <1>1, <1>6, <1>7, <1>8 DEF Inv, Registered, ListCached, NameCached, ReloadToCome
<1> QED
  BY <1>4, <1>9 DEF IInv

LEMMA OtherClientStep ==
  ASSUME Types, NEW H, NEW r, Inv(H, r), OtherClient
  PROVE  \E G : Inv(G, r)'
<1>1. UNCHANGED <<threadVars, requests, phase, parsed, cacheVars, crashed, ghostVars>>
  BY Zenon DEF OtherClient
<1>2. CASE Loaded
  BY <1>1, <1>2, LoadedStep
<1>3. ASSUME loading = <<>>, NEW n \in Name,
             \/ AddEntry(n) \/ InsertEntry(n) \/ MoveEntry(n)
             \/ RemoveEntry(n) \/ Clear(n) \/ Reorder(n)
      PROVE  \E G : Inv(G, r)'
  <2>1. PICK list \in Seq(Entry), change \in Changes :
          Edit(n, list, change) /\ Makes(change, lists[n], list)
    BY <1>3, EditsTell
  <2> QED
    BY <1>1, <1>3, <2>1, EditStep
<1>4. ASSUME loading = <<>>, NEW n \in Name, Load(n) PROVE \E G : Inv(G, r)'
  BY <1>1, <1>4, LoadStep
<1> QED
  BY <1>2, <1>3, <1>4, Zenon DEF OtherClient

LEMMA InvStep == IInv /\ [Next]_vars => IInv'
<1> SUFFICES ASSUME IInv, [Next]_vars PROVE IInv'
  OBVIOUS
<1>1. Types /\ \E H, r : Inv(H, r)
  BY Zenon DEF IInv
<1>2. PICK H, r : Inv(H, r)
  BY <1>1
<1>3. SUFFICES Types' /\ \E G, s : Inv(G, s)'
  BY DEF IInv
<1>4. CASE OtherClient
  <2>1. \E G : Inv(G, r)'
    BY <1>1, <1>2, <1>4, OtherClientStep
  <2> QED
    BY <1>1, <1>4, <2>1, OtherClientTypes
<1>5. CASE Lookup
  <2>1. \E s : Inv(H, s)'
    BY <1>1, <1>2, <1>5, LookupStep
  <2> QED
    BY <1>1, <1>5, <2>1, LookupTypes
<1>6. CASE Reply
  BY <1>1, <1>2, <1>6, ReplyStep, ReplyTypes
<1>7. CASE ~crashed /\ Receive
  BY <1>1, <1>2, <1>7, ReceiveStep, ReceiveTypes
<1>8. CASE ~crashed /\ Refreshed
  BY <1>1, <1>2, <1>8, RefreshedStep, RefreshedTypes
<1>9. CASE UNCHANGED vars
  <2>1. /\ lists' = lists /\ version' = version /\ active' = active
        /\ loading' = loading /\ registered' = registered /\ answer' = answer
        /\ requests' = requests /\ inbox' = inbox
        /\ phase' = phase /\ parsed' = parsed /\ crashed' = crashed
        /\ active_playlist' = active_playlist
        /\ active_playlist_name' = active_playlist_name
        /\ fresh_list' = fresh_list /\ fresh_name' = fresh_name
        /\ newest' = newest /\ overtaken' = overtaken
    BY <1>9, Zenon DEF vars, serverVars, threadVars, cacheVars, ghostVars
  <2>2. Types'
    BY <1>1, <2>1 DEF Types, TypeOK
  <2>3. Truth(H, r)'
    BY <1>2, <2>1 DEF Inv, Truth, History, InboxTrue, AnswersTrue, ParsedFirst, LoadingTrue
  <2>4. Registered(H, r)'
    <3>1. Registered(H, r)
      BY <1>2 DEF Inv
    <3> QED
      BY <2>1, <3>1 DEF Registered, Beginning, Following, NoticeIs, LoadIs, ToCome
  <2>5. LoadedToCome' <=> LoadedToCome
    BY <2>1 DEF LoadedToCome, ToCome
  <2>6. ReloadToCome' <=> ReloadToCome
    BY <2>1, <2>5 DEF ReloadToCome
  <2>7. (phase # "run" => Awaited)' /\ ListCached(H, r)' /\ NameCached'
    BY <1>2, <2>1, <2>5, <2>6 DEF Inv, Awaited, ListCached, NameCached
  <2> QED
    BY <2>2, <2>3, <2>4, <2>7 DEF Inv
<1> QED
  BY <1>4, <1>5, <1>6, <1>7, <1>8, <1>9, Zenon DEF Next, ServerThread, Client

LEMMA InvCaches == IInv => UpToDateUnlessOvertaken
<1> SUFFICES ASSUME IInv PROVE UpToDateUnlessOvertaken
  OBVIOUS
<1>1. Types /\ \E H, r : Inv(H, r)
  BY Zenon DEF IInv
<1>2. PICK H, r : Inv(H, r)
  BY <1>1
<1>3. ASSUME Quiet, ~overtaken PROVE UpToDate
  <2>1. /\ loading = <<>> /\ answer = <<>> /\ requests = <<>>
        /\ inbox = <<>> /\ parsed = <<>> /\ ~crashed
    BY <1>3 DEF Quiet
  <2>2. /\ Range(loading) = {} /\ Range(answer) = {} /\ Range(requests) = {}
        /\ Range(inbox) = {} /\ ToCome = {}
    BY <2>1, EmptyRange DEF ToCome
  <2>3. phase = "run"
    BY <1>2, <2>1, <2>2 DEF Inv, Awaited
  <2>4. ~LoadedToCome /\ ~ReloadToCome
    BY <2>2, <2>3 DEF LoadedToCome, ReloadToCome
  <2>5. /\ active_playlist_name = active
        /\ newest >= r /\ active_playlist = ListOf(H, newest)
    BY <1>2, <1>3, <2>1, <2>3, <2>4 DEF Inv, NameCached, ListCached
  <2>6. newest = version
    <3>1. newest \in 0..version /\ version \in Nat /\ r \in 0..version
      BY <1>1, <1>2 DEF Types, Inv, Truth
    <3>2. SUFFICES ASSUME newest < version PROVE FALSE
      BY <3>1
    <3>3. newest + 1 \in r + 1..version /\ newest + 1 > newest
      BY <2>5, <3>1, <3>2
    <3>4. Following(H, r)
      BY <1>2, <2>3 DEF Inv, Registered, Beginning
    <3>5. NoticeIs(newest + 1)
      BY <3>3, <3>4 DEF Following
    <3> QED
      BY <2>2, <3>5 DEF NoticeIs
  <2>7. ListOf(H, version) = lists[active]
    BY <1>2 DEF Inv, Truth, History, ListOf
  <2> QED
    BY <2>5, <2>6, <2>7 DEF UpToDate
<1> QED
  BY <1>1, <1>3 DEF UpToDateUnlessOvertaken, Types

\* The cache of the active playlist: when nothing is under way, a client that
\* never dealt with something older after something newer (cli_cache.c:297
\* behind ipc.c:246) holds the server's active playlist under its name, whatever
\* was edited and loaded, and whenever: for any playlists and any number of
\* changes.
THEOREM OnlyOvertakingMakesStale == Spec => []UpToDateUnlessOvertaken
BY InvInit, InvStep, InvCaches, PTL DEF Spec
=============================================================================
