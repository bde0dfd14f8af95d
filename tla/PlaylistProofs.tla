--------------------------- MODULE PlaylistProofs ---------------------------
(***************************************************************************)
(* What can be proved of the playlists (Playlist.tla), for any set of      *)
(* names, entries, kinds and jumplists, any History and Upcoming and any   *)
(* bound of the entries, whichever playlist the clients edit.              *)
(*                                                                         *)
(* A client that follows the broadcasts has the server's lists             *)
(* (MirrorMatches).  The position is that of an entry (PositionInRange),   *)
(* the history of a queue is bounded (HistoryKept), an edit keeps the      *)
(* current entry (CurrentKept) and the position is broadcast               *)
(* (PositionTold), all but for a playlist that is late: the update that an *)
(* inserted entry's new position should cause is that of the active        *)
(* playlist, so another queue may keep one entry too many, and its next    *)
(* edit starts from there.  How far it can go is part of the invariant:    *)
(* the position of a late playlist is one behind the history and its list  *)
(* is not empty (Owes), or it is where an operation was caught for ever    *)
(* (Jam).  That and a circle of empty playlists are all that keeps an      *)
(* operation from returning (HangsOnlyWhenEmpty).                          *)
(*                                                                         *)
(* An operation is a function from store to store.  The lemmas follow the  *)
(* store through it: what Trim and Refill make of it, the update, an edit  *)
(* with its broadcast, a new position with its broadcast, then the         *)
(* operations.  Between two of these steps the position may be that of no  *)
(* entry (GoodBut), and it must be shown that the update in between leaves *)
(* the position that the operation has read.                               *)
(***************************************************************************)
EXTENDS Playlist, FiniteSetTheorems, FunctionTheorems, WellFoundedInduction, TLAPS

-----------------------------------------------------------------------------
(***************************************************************************)
(* Induction over the natural numbers is by the least counterexample.      *)
(***************************************************************************)

LEMMA OrderOfNat ==
  \E R : /\ IsWellFoundedOn(R, Nat)
         /\ \A k, m \in Nat : k < m => <<k, m>> \in R
<1>1. \A k, m \in Nat : k < m => <<k, m>> \in OpToRel(<, Nat)
  BY DEF OpToRel
<1> QED
  BY <1>1, NatLessThanWellFounded, ZenonT(30)

\* A set of natural numbers has a least element.
LEMMA Least ==
  ASSUME NEW S, S \subseteq Nat, S # {}
  PROVE  \E m \in S : \A k \in S : m <= k
<1>1. PICK R : /\ IsWellFoundedOn(R, Nat)
               /\ \A k, m \in Nat : k < m => <<k, m>> \in R
  BY OrderOfNat
<1>2. PICK m \in S : \A k \in S : ~(<<k, m>> \in R)
  <2>1. IsWellFoundedOn(R, Nat)
    BY <1>1
  <2> QED
    BY <2>1, WFMin
<1>3. ASSUME NEW k \in S PROVE m <= k
  <2>1. k \in Nat /\ m \in Nat
    OBVIOUS
  <2>2. ~(k < m)
    BY <1>1, <1>2, <2>1
  <2> QED
    BY <2>1, <2>2
<1> QED
  BY <1>3

-----------------------------------------------------------------------------
(***************************************************************************)
(* Lists of ids.                                                           *)
(***************************************************************************)

Item == Entry \cup {Garbage}

LEMMA JoinedType ==
  ASSUME NEW T, NEW x \in Seq(T), NEW y \in Seq(T)
  PROVE  x \o y \in Seq(T) /\ Len(x \o y) = Len(x) + Len(y)
OBVIOUS

LEMMA WithoutType ==
  ASSUME NEW l \in Seq(Item), NEW p \in 0..Len(l) - 1
  PROVE  Without(l, p) \in Seq(Item) /\ Len(Without(l, p)) = Len(l) - 1
<1>1. Len(l) \in Nat
  OBVIOUS
<1>2. /\ SubSeq(l, 1, p) \in Seq(Item) /\ Len(SubSeq(l, 1, p)) = p
      /\ SubSeq(l, p + 2, Len(l)) \in Seq(Item)
      /\ Len(SubSeq(l, p + 2, Len(l))) = Len(l) - p - 1
  BY <1>1
<1> DEFINE x == SubSeq(l, 1, p)
           y == SubSeq(l, p + 2, Len(l))
<1>3. Without(l, p) = x \o y
  BY DEF Without
<1> HIDE DEF x, y
<1>4. x \in Seq(Item) /\ y \in Seq(Item) /\ Len(x) = p /\ Len(y) = Len(l) - p - 1
  BY <1>2 DEF x, y
<1> QED
  BY <1>1, <1>3, <1>4

LEMMA WithType ==
  ASSUME NEW l \in Seq(Item), NEW p \in 0..Len(l), NEW e \in Item
  PROVE  With(l, p, e) \in Seq(Item) /\ Len(With(l, p, e)) = Len(l) + 1
<1>1. Len(l) \in Nat
  OBVIOUS
<1> DEFINE x == SubSeq(l, 1, p)
           y == SubSeq(l, p + 1, Len(l))
           z == <<e>>
<1>2. x \in Seq(Item) /\ Len(x) = p
  BY <1>1
<1>3. y \in Seq(Item) /\ Len(y) = Len(l) - p
  BY <1>1
<1>4. z \in Seq(Item) /\ Len(z) = 1
  OBVIOUS
<1>5. With(l, p, e) = x \o z \o y
  BY DEF With
<1> HIDE DEF x, y, z
<1>6. x \o z \in Seq(Item) /\ Len(x \o z) = Len(x) + Len(z)
  BY <1>2, <1>4, JoinedType, Zenon
<1>7. (x \o z) \o y \in Seq(Item) /\ Len((x \o z) \o y) = Len(x \o z) + Len(y)
  BY <1>3, <1>6, JoinedType, Zenon
<1>8. Len((x \o z) \o y) = Len(l) + 1
  BY <1>1, <1>2, <1>3, <1>4, <1>6, <1>7
<1> QED
  BY <1>5, <1>7, <1>8, Zenon

LEMMA MovedType ==
  ASSUME NEW l \in Seq(Item), NEW p \in 0..Len(l) - 1, NEW q \in 0..Len(l) - 1
  PROVE  Moved(l, p, q) \in Seq(Item) /\ Len(Moved(l, p, q)) = Len(l)
<1>1. Len(l) \in Nat /\ l[p + 1] \in Item
  OBVIOUS
<1>2. Without(l, p) \in Seq(Item) /\ Len(Without(l, p)) = Len(l) - 1
  BY WithoutType
<1>3. q \in 0..Len(Without(l, p)) /\ Len(Without(l, p)) + 1 = Len(l)
  BY <1>1, <1>2
<1> QED
  BY <1>1, <1>2, <1>3, WithType DEF Moved

LEMMA RepeatedType ==
  ASSUME NEW e, NEW k \in Nat, k > 0 => e \in Item
  PROVE  Repeated(e, k) \in Seq(Item) /\ Len(Repeated(e, k)) = k
<1>1. Repeated(e, k) \in [1..k -> Item]
  BY DEF Repeated
<1> QED
  BY <1>1 DEF Repeated

LEMMA ReorderedType ==
  ASSUME NEW l \in Seq(Item), NEW f \in Orders(Len(l))
  PROVE  Reordered(l, f) \in Seq(Item) /\ Len(Reordered(l, f)) = Len(l)
<1>1. Len(l) \in Nat /\ f \in [1..Len(l) -> 1..Len(l)]
  BY DEF Orders
<1> QED
  BY <1>1 DEF Reordered

\* An order of a list has every place of the list.
LEMMA OrderHasAll ==
  ASSUME NEW k \in Nat, NEW f \in Orders(k), NEW j \in 1..k
  PROVE  \E i \in 1..k : f[i] = j
<1>1. f \in Injection(1..k, 1..k)
  BY DEF Orders, Injection, IsInjective
<1>2. IsFiniteSet(1..k)
  BY FS_Interval
<1>3. f \in Surjection(1..k, 1..k)
  BY <1>1, <1>2, FS_Injection
<1> QED
  BY <1>3 DEF Surjection

-----------------------------------------------------------------------------
(***************************************************************************)
(* What an operation's parts make of the store.                            *)
(***************************************************************************)

Place == Nat \cup {-1}

Stores ==
  [list : [Name -> Seq(Item)], position : [Name -> Place], active : Name,
   mirror : [Name -> Seq(Item)], said : [Name -> Int], hung : BOOLEAN]

Same(s) == s \in Stores /\ s.mirror = s.list

LEMMA StoreFields ==
  ASSUME NEW s \in Stores
  PROVE  /\ s.list \in [Name -> Seq(Item)] /\ s.position \in [Name -> Place]
         /\ s.active \in Name /\ s.hung \in BOOLEAN
         /\ s.mirror \in [Name -> Seq(Item)] /\ s.said \in [Name -> Int]
BY DEF Stores

LEMMA EntryFields ==
  ASSUME NEW s \in Stores, NEW n \in Name
  PROVE  /\ s.list[n] \in Seq(Item) /\ Len(s.list[n]) \in Nat
         /\ s.position[n] \in Int /\ s.position[n] >= -1 /\ s.position[n] \in Place
BY StoreFields DEF Place

LEMMA SizesKnown ==
  /\ History \in Nat /\ Upcoming \in Nat /\ MaxLen \in Nat
  /\ History + 1 + Upcoming <= MaxLen
  /\ History \in Place
BY BoundsAssumption DEF Place

-----------------------------------------------------------------------------
(***************************************************************************)
(* The update: on_playlist_updated.                                        *)
(***************************************************************************)

\* The entries and positions of all playlists but n are as they were.
OthersKept(s, r, n) ==
  /\ r.active = s.active
  /\ \A m \in Name \ {n} : r.list[m] = s.list[m] /\ r.position[m] = s.position[m]

\* Entries are added and the client told so.
Longer(s, n, l) == [s EXCEPT !.list[n] = l, !.mirror[n] = l]

LEMMA LongerFields ==
  ASSUME NEW s \in Stores, NEW n \in Name, NEW l \in Seq(Item)
  PROVE  LET r == Longer(s, n, l)
         IN  /\ r \in Stores
             /\ r.list = [s.list EXCEPT ![n] = l]
             /\ r.mirror = [s.mirror EXCEPT ![n] = l]
             /\ r.position = s.position
             /\ r.active = s.active /\ r.hung = s.hung
BY DEF Stores, Longer

\* A store with all but one of its fields changed for playlist n.
LEMMA FieldsSet ==
  ASSUME NEW s \in Stores, NEW n \in Name, NEW l \in Seq(Item), NEW v \in Seq(Item),
         NEW p \in Place, NEW q \in Int, NEW h \in BOOLEAN
  PROVE  [s EXCEPT !.list[n] = l, !.mirror[n] = v, !.position[n] = p,
                   !.said[n] = q, !.hung = h] \in Stores
<1> DEFINE a == [s EXCEPT !.list[n] = l]
           b == [a EXCEPT !.mirror[n] = v]
           c == [b EXCEPT !.position[n] = p]
           d == [c EXCEPT !.said[n] = q]
           e == [d EXCEPT !.hung = h]
<1>1. a \in Stores
  BY DEF Stores
<1> HIDE DEF a
<1>2. b \in Stores
  BY <1>1 DEF Stores
<1> HIDE DEF b
<1>3. c \in Stores
  BY <1>2 DEF Stores
<1> HIDE DEF c
<1>4. d \in Stores
  BY <1>3 DEF Stores
<1> HIDE DEF d
<1>5. e \in Stores
  BY <1>4 DEF Stores
<1>6. e = [s EXCEPT !.list[n] = l, !.mirror[n] = v, !.position[n] = p,
                    !.said[n] = q, !.hung = h]
  BY DEF a, b, c, d
<1> QED
  BY <1>5, <1>6

\* The trimming that hangs.
LEMMA TrimHangs ==
  ASSUME NEW s \in Stores, s.mirror = s.list, NEW n \in Name,
         s.position[n] > History + Len(s.list[n])
  PROVE  LET r == Trim(s, n)
         IN  /\ Same(r) /\ OthersKept(s, r, n) /\ r.hung = TRUE
             /\ Len(r.list[n]) = 0
             /\ r.position[n] = s.position[n] - Len(s.list[n])
             /\ r.said[n] = r.position[n] \/ (r.said = s.said /\ Len(s.list[n]) = 0)
             /\ r.said \in [Name -> Int]
             /\ \A m \in Name \ {n} : r.said[m] = s.said[m]
<1> DEFINE k == Len(s.list[n])
           l == SubSeq(s.list[n], k + 1, k)
           m == SubSeq(s.mirror[n], k + 1, Len(s.mirror[n]))
           p == s.position[n] - k
           r == Trim(s, n)
<1>1. s.position[n] \in Int /\ k \in Nat /\ s.list[n] \in Seq(Item)
  BY EntryFields
<1>2. s.position[n] - History > 0 /\ s.position[n] - History > k
  BY <1>1, SizesKnown
<1>3. p > History /\ p \in Place /\ p \in Int
  BY <1>1, SizesKnown DEF Place
<1>4. r = [s EXCEPT !.list[n] = l, !.mirror[n] = m, !.position[n] = p,
                    !.said[n] = IF k = 0 THEN @ ELSE p, !.hung = p > History]
  BY <1>1, <1>2, SizesKnown DEF Trim
<1>5. l \in Seq(Item) /\ Len(l) = 0 /\ m = l
  BY <1>1
<1>6. /\ s.list \in [Name -> Seq(Item)] /\ s.position \in [Name -> Place]
      /\ s.mirror \in [Name -> Seq(Item)] /\ s.said \in [Name -> Int]
  BY StoreFields
<1> HIDE DEF l, m, p, k
<1>7. /\ r.list = [s.list EXCEPT ![n] = l] /\ r.mirror = [s.mirror EXCEPT ![n] = l]
      /\ r.position = [s.position EXCEPT ![n] = p]
      /\ r.said = [s.said EXCEPT ![n] = IF k = 0 THEN s.said[n] ELSE p]
      /\ r.active = s.active /\ r.hung = TRUE
  <2>1. r.hung = (p > History)
    BY <1>4 DEF Stores
  <2>2. (p > History) = TRUE
    BY <1>3
  <2> QED
    BY <1>4, <1>5, <2>1, <2>2 DEF Stores
<1>8. r \in Stores
  <2> DEFINE q == IF k = 0 THEN s.said[n] ELSE p
             h == p > History
  <2>1. q \in Int /\ h \in BOOLEAN
    BY <1>3, <1>6
  <2>2. r = [s EXCEPT !.list[n] = l, !.mirror[n] = m, !.position[n] = p,
                      !.said[n] = q, !.hung = h]
    BY <1>4
  <2> HIDE DEF q, h, r
  <2> QED
    BY <1>3, <1>5, <2>1, <2>2, FieldsSet
<1> HIDE DEF r
<1>9. r.said \in [Name -> Int] /\ \A x \in Name \ {n} : r.said[x] = s.said[x]
  BY <1>3, <1>6, <1>7
<1>10. r.said[n] = p \/ (r.said = s.said /\ k = 0)
  BY <1>6, <1>7
<1>11. r.list[n] = l /\ r.position[n] = p
  BY <1>6, <1>7
<1>12. Same(r) /\ OthersKept(s, r, n)
  BY <1>6, <1>7, <1>8 DEF Same, OthersKept
<1>13. /\ Same(r) /\ OthersKept(s, r, n) /\ r.hung = TRUE
       /\ Len(r.list[n]) = 0
       /\ r.position[n] = s.position[n] - Len(s.list[n])
       /\ r.said[n] = r.position[n] \/ (r.said = s.said /\ Len(s.list[n]) = 0)
       /\ r.said \in [Name -> Int]
       /\ \A x \in Name \ {n} : r.said[x] = s.said[x]
  BY <1>5, <1>7, <1>9, <1>10, <1>11, <1>12 DEF p, k
<1> QED
  BY <1>13 DEF r

\* The trimming that ends.
LEMMA TrimIs ==
  ASSUME NEW s \in Stores, s.mirror = s.list, NEW n \in Name,
         s.position[n] <= History + Len(s.list[n]), s.position[n] > History
  PROVE  LET k == s.position[n] - History
             l == SubSeq(s.list[n], k + 1, Len(s.list[n]))
             r == Trim(s, n)
         IN  /\ l \in Seq(Item) /\ Len(l) = Len(s.list[n]) - k
             /\ r \in Stores
             /\ r.list = [s.list EXCEPT ![n] = l]
             /\ r.mirror = [s.mirror EXCEPT ![n] = l]
             /\ r.position = [s.position EXCEPT ![n] = History]
             /\ r.said = [s.said EXCEPT ![n] = History]
             /\ r.active = s.active /\ r.hung = FALSE
<1> DEFINE k == s.position[n] - History
           l == SubSeq(s.list[n], k + 1, Len(s.list[n]))
           m == SubSeq(s.mirror[n], k + 1, Len(s.mirror[n]))
           p == s.position[n] - k
           r == Trim(s, n)
<1>1. s.position[n] \in Int /\ Len(s.list[n]) \in Nat /\ s.list[n] \in Seq(Item)
  BY EntryFields
<1>2. k \in Nat /\ ~(k <= 0) /\ ~(k > Len(s.list[n])) /\ k # 0
  BY <1>1, SizesKnown
<1>3. p = History /\ (p > History) = FALSE
  BY <1>1, SizesKnown
<1>4. r = [s EXCEPT !.list[n] = l, !.mirror[n] = m, !.position[n] = p,
                    !.said[n] = IF k = 0 THEN @ ELSE p, !.hung = p > History]
  BY <1>2 DEF Trim
<1>5. Len(l) = Len(s.list[n]) - k /\ l \in Seq(Item) /\ m = l
  <2>1. k + 1 \in 1..Len(s.list[n]) + 1
    BY <1>1, <1>2
  <2> HIDE DEF k
  <2> QED
    BY <1>1, <1>2, <2>1
<1>6. /\ s.list \in [Name -> Seq(Item)] /\ s.position \in [Name -> Place]
      /\ s.mirror \in [Name -> Seq(Item)] /\ s.said \in [Name -> Int]
      /\ History \in Place /\ History \in Int
  BY StoreFields, SizesKnown
<1> HIDE DEF l, m, p, k
<1>7. /\ r.list = [s.list EXCEPT ![n] = l] /\ r.mirror = [s.mirror EXCEPT ![n] = l]
      /\ r.position = [s.position EXCEPT ![n] = p]
      /\ r.said = [s.said EXCEPT ![n] = IF k = 0 THEN s.said[n] ELSE p]
      /\ r.active = s.active /\ r.hung = (p > History)
  BY <1>4, <1>5 DEF Stores
<1>8. r.position = [s.position EXCEPT ![n] = History] /\ r.hung = FALSE
      /\ r.said = [s.said EXCEPT ![n] = History]
  BY <1>2, <1>3, <1>7
<1>9. r \in Stores
  <2> DEFINE q == IF k = 0 THEN s.said[n] ELSE p
             h == p > History
  <2>1. p \in Place /\ q \in Int /\ h \in BOOLEAN
    BY <1>3, <1>6
  <2>2. r = [s EXCEPT !.list[n] = l, !.mirror[n] = m, !.position[n] = p,
                      !.said[n] = q, !.hung = h]
    BY <1>4
  <2> HIDE DEF q, h, r
  <2> QED
    BY <1>5, <2>1, <2>2, FieldsSet
<1> HIDE DEF r
<1>10. /\ l \in Seq(Item) /\ Len(l) = Len(s.list[n]) - k
       /\ r \in Stores
       /\ r.list = [s.list EXCEPT ![n] = l]
       /\ r.mirror = [s.mirror EXCEPT ![n] = l]
       /\ r.position = [s.position EXCEPT ![n] = History]
       /\ r.said = [s.said EXCEPT ![n] = History]
       /\ r.active = s.active /\ r.hung = FALSE
  BY <1>5, <1>7, <1>8, <1>9
<1> QED
  BY <1>10 DEF r, l, k

LEMMA TrimSame ==
  ASSUME NEW s \in Stores, s.mirror = s.list, NEW n \in Name
  PROVE  Same(Trim(s, n)) /\ OthersKept(s, Trim(s, n), n)
<1> DEFINE r == Trim(s, n)
<1>1. s.position[n] \in Int /\ Len(s.list[n]) \in Nat
  BY EntryFields
<1>2. CASE s.position[n] <= History
  <2>1. s.position[n] - History <= 0
    BY <1>1, <1>2, SizesKnown
  <2>2. r = s
    BY <2>1 DEF Trim
  <2> QED
    BY <2>2 DEF Same, OthersKept
<1>3. CASE s.position[n] > History + Len(s.list[n])
  BY <1>3, TrimHangs
<1>4. CASE s.position[n] > History /\ s.position[n] <= History + Len(s.list[n])
  <2> DEFINE l == SubSeq(s.list[n], s.position[n] - History + 1, Len(s.list[n]))
  <2>1. /\ r \in Stores /\ r.active = s.active
        /\ r.list = [s.list EXCEPT ![n] = l] /\ r.mirror = [s.mirror EXCEPT ![n] = l]
        /\ r.position = [s.position EXCEPT ![n] = History]
    BY <1>4, TrimIs
  <2> HIDE DEF l, r
  <2>2. Same(r) /\ OthersKept(s, r, n)
    BY <2>1, StoreFields DEF Same, OthersKept
  <2> QED
    BY <2>2 DEF r
<1> QED
  BY <1>1, <1>2, <1>3, <1>4, SizesKnown

\* The trimming ends when the position is not far behind the list.
LEMMA TrimEnds ==
  ASSUME NEW s \in Stores, s.mirror = s.list, NEW n \in Name,
         s.position[n] <= History + Len(s.list[n]), s.position[n] > History
  PROVE  LET r == Trim(s, n)
             k == s.position[n] - History
         IN  /\ r.position[n] = History /\ r.hung = FALSE
             /\ Len(r.list[n]) = Len(s.list[n]) - k
<1> DEFINE l == SubSeq(s.list[n], s.position[n] - History + 1, Len(s.list[n]))
           r == Trim(s, n)
<1>1. /\ Len(l) = Len(s.list[n]) - (s.position[n] - History) /\ r.hung = FALSE
      /\ r.list = [s.list EXCEPT ![n] = l]
      /\ r.position = [s.position EXCEPT ![n] = History]
  BY TrimIs
<1> HIDE DEF l, r
<1>2. r.list[n] = l /\ r.position[n] = History
  BY <1>1, StoreFields
<1>3. /\ r.position[n] = History /\ r.hung = FALSE
      /\ Len(r.list[n]) = Len(s.list[n]) - (s.position[n] - History)
  BY <1>1, <1>2
<1> QED
  BY <1>3 DEF r

LEMMA TrimNothing ==
  ASSUME NEW s \in Stores, NEW n \in Name, s.position[n] <= History
  PROVE  Trim(s, n) = s
<1>1. s.position[n] - History <= 0
  BY EntryFields, SizesKnown
<1> QED
  BY <1>1 DEF Trim

\* How many entries a playlist is short of.
LEMMA Wanting ==
  ASSUME NEW a \in Int, NEW b \in Nat, NEW c \in Nat
  PROVE  a + 1 + b - c \in Int
OBVIOUS

LEMMA RefillEffect ==
  ASSUME NEW s \in Stores, s.mirror = s.list, NEW n \in Name, NEW rnd \in Media
  PROVE  LET r == Refill(s, n, rnd)
         IN  /\ Same(r) /\ OthersKept(s, r, n)
             /\ r.position = s.position /\ r.hung = s.hung
             /\ Len(r.list[n]) >= Len(s.list[n])
             /\ \/ Len(r.list[n]) = Len(s.list[n])
                \/ Len(r.list[n]) = s.position[n] + 1 + Upcoming
<1> DEFINE wanted == s.position[n] + 1 + Upcoming - Len(s.list[n])
           k == IF rnd = NoMedia \/ wanted < 0 THEN 0 ELSE wanted
           l == s.list[n] \o Repeated(rnd, k)
           m == s.mirror[n] \o Repeated(rnd, k)
<1>1. /\ s.position[n] \in Int /\ Len(s.list[n]) \in Nat /\ s.list[n] \in Seq(Item)
      /\ Upcoming \in Nat
  BY EntryFields, SizesKnown
<1>2. k \in Nat /\ (k = 0 \/ k = wanted)
  <2>1. wanted \in Int
    BY <1>1, Wanting, Zenon
  <2> HIDE DEF wanted
  <2> QED
    BY <2>1
<1>3. k > 0 => rnd \in Item
  BY DEF Media, Item
<1>4. Refill(s, n, rnd) = Longer(s, n, l)
  <2>1. Refill(s, n, rnd) = [s EXCEPT !.list[n] = l, !.mirror[n] = m]
    BY DEF Refill
  <2> QED
    BY <2>1, Zenon DEF Longer
<1>5. l \in Seq(Item) /\ Len(l) = Len(s.list[n]) + k
  <2> HIDE DEF k
  <2>1. Repeated(rnd, k) \in Seq(Item) /\ Len(Repeated(rnd, k)) = k
    BY <1>2, <1>3, RepeatedType
  <2>2. l \in Seq(Item) /\ Len(l) = Len(s.list[n]) + Len(Repeated(rnd, k))
    BY <1>1, <2>1, JoinedType, Zenon
  <2> QED
    BY <2>1, <2>2
<1> HIDE DEF l, m, k
<1>6. /\ Len(l) >= Len(s.list[n])
      /\ Len(l) = Len(s.list[n]) \/ Len(l) = s.position[n] + 1 + Upcoming
  <2>1. s.position[n] + 1 + Upcoming = Len(s.list[n]) + wanted
    BY <1>1
  <2>2. wanted \in Int
    BY <1>1, Wanting, Zenon
  <2>3. Len(l) = Len(s.list[n]) + k /\ Len(s.list[n]) \in Nat
    BY <1>1, <1>5
  <2> HIDE DEF wanted
  <2>4. k \in Nat /\ (k = 0 \/ k = wanted)
    BY <1>2
  <2> QED
    BY <2>1, <2>2, <2>3, <2>4
<1>7. LET r == Refill(s, n, rnd)
      IN  /\ r \in Stores
          /\ r.list = [s.list EXCEPT ![n] = l]
          /\ r.mirror = [s.mirror EXCEPT ![n] = l]
          /\ r.position = s.position
          /\ r.active = s.active /\ r.hung = s.hung
  BY <1>4, <1>5, LongerFields
<1> QED
  BY <1>6, <1>7, StoreFields DEF Same, OthersKept

LEMMA UpdatedSame ==
  ASSUME NEW s \in Stores, s.mirror = s.list, NEW n \in Name, NEW rnd \in Media
  PROVE  Same(Updated(s, n, rnd)) /\ OthersKept(s, Updated(s, n, rnd), n)
<1> DEFINE t == Trim(s, n)
<1>1. t \in Stores /\ t.mirror = t.list /\ OthersKept(s, t, n)
  BY TrimSame DEF Same
<1> HIDE DEF t
<1>2. Same(t) /\ Same(s) /\ OthersKept(s, s, n)
  BY <1>1 DEF Same, OthersKept
<1>3. Same(Refill(t, n, rnd)) /\ OthersKept(t, Refill(t, n, rnd), n)
  BY <1>1, RefillEffect
<1>4. OthersKept(s, Refill(t, n, rnd), n)
  BY <1>1, <1>3 DEF OthersKept
<1>5. Updated(s, n, rnd) \in {t, Refill(t, n, rnd), s}
  BY DEF Updated, Unless, t
<1> QED
  BY <1>1, <1>2, <1>3, <1>4, <1>5

\* A position is that of an entry or -1; or just behind the last entry, when there
\* is a jumplist.
Ranged(n, l, p) ==
  /\ p \in -1..Len(l)
  /\ p = Len(l) => Jumplist[n] # NoList

Within(s, n) == Ranged(n, s.list[n], s.position[n])

Kept(s, n) == Kinds[n] # "list" => s.position[n] <= History

\* The trimming of a playlist does not run out of entries.
Near(s, n) == s.position[n] <= History + Len(s.list[n])

Roomy(s) == s.hung = FALSE /\ \A m \in Name : Len(s.list[m]) <= MaxLen

Grown(s, r, n) ==
  r.position[n] = s.position[n] /\ Len(r.list[n]) >= Len(s.list[n])

\* The update trims and refills one playlist, and leaves it as it must be.
LEMMA UpdatedEffect ==
  ASSUME NEW s \in Stores, s.mirror = s.list, NEW n \in Name, NEW rnd \in Media,
         setup \in Setups, Roomy(s), Kinds[n] # "list" => Near(s, n)
  PROVE  LET r == Updated(s, n, rnd)
         IN  /\ Roomy(r) /\ Kept(r, n)
             /\ Within(s, n) => Within(r, n)
             /\ Kept(s, n) => Grown(s, r, n)
             /\ ~ Kept(s, n) =>
                  /\ r.position[n] = History
                  /\ Len(r.list[n]) >= Len(s.list[n]) - (s.position[n] - History)
<1> DEFINE t == Trim(s, n)
           u == Refill(t, n, rnd)
<1>1. /\ s.position[n] \in Int /\ s.position[n] >= -1 /\ Len(s.list[n]) \in Nat
      /\ s.list \in [Name -> Seq(Item)]
  BY EntryFields, StoreFields
<1>2. CASE Kinds[n] = "list"
  <2>1. Updated(s, n, rnd) = s
    BY <1>2 DEF Updated
  <2> QED
    BY <1>1, <1>2, <2>1 DEF Kept, Grown
\* Else it is trimmed.
<1>3. CASE Kinds[n] # "list"
  <2>1. t \in Stores /\ t.mirror = t.list /\ OthersKept(s, t, n)
    BY TrimSame DEF Same
  <2>2. /\ Roomy(t) /\ Kept(t, n) /\ t.position[n] >= -1
        /\ Within(s, n) => Within(t, n)
        /\ Kept(s, n) => Grown(s, t, n)
        /\ ~ Kept(s, n) =>
             /\ t.position[n] = History
             /\ Len(t.list[n]) >= Len(s.list[n]) - (s.position[n] - History)
        /\ t.position[n] <= History
    <3>1. CASE s.position[n] <= History
      <4>1. t = s
        BY <3>1, TrimNothing
      <4> HIDE DEF t
      <4> QED
        BY <1>1, <3>1, <4>1 DEF Kept, Grown
    <3>2. CASE s.position[n] > History
      <4>1. ~ Kept(s, n) /\ Near(s, n)
        BY <1>1, <1>3, <3>2, SizesKnown DEF Kept
      <4>2. /\ t.position[n] = History /\ t.hung = FALSE
            /\ Len(t.list[n]) = Len(s.list[n]) - (s.position[n] - History)
        BY <3>2, <4>1, TrimEnds DEF Near
      <4> HIDE DEF t
      <4>3. Len(t.list[n]) \in Nat
        BY <2>1, EntryFields
      <4>4. Within(s, n) => Within(t, n)
        BY <1>1, <3>2, <4>2, <4>3, SizesKnown DEF Within, Ranged
      <4>5. Roomy(t)
        <5>1. ASSUME NEW m \in Name PROVE Len(t.list[m]) <= MaxLen
          <6>1. CASE m = n
            <7>1. Len(s.list[n]) <= MaxLen
              BY <1>1 DEF Roomy
            <7>2. Len(t.list[n]) <= Len(s.list[n])
              BY <1>1, <3>2, <4>2, SizesKnown
            <7> QED
              BY <1>1, <4>3, <6>1, <7>1, <7>2, SizesKnown
          <6>2. CASE m # n
            BY <2>1, <6>2 DEF Roomy, OthersKept
          <6> QED
            BY <6>1, <6>2
        <5> QED
          BY <4>2, <5>1 DEF Roomy
      <4>6. Len(t.list[n]) >= Len(s.list[n]) - (s.position[n] - History)
        BY <1>1, <4>2, <4>3, SizesKnown
      <4> QED
        BY <4>1, <4>2, <4>4, <4>5, <4>6, SizesKnown DEF Kept
    <3> QED
      BY <1>1, <3>1, <3>2, SizesKnown
  <2> HIDE DEF t
  <2>3. t.position[n] \in Int /\ Len(t.list[n]) \in Nat
    BY <2>1, EntryFields
  <2>4. /\ OthersKept(t, u, n)
        /\ u.position = t.position /\ u.hung = t.hung
        /\ Len(u.list[n]) >= Len(t.list[n])
        /\ \/ Len(u.list[n]) = Len(t.list[n])
           \/ Len(u.list[n]) = t.position[n] + 1 + Upcoming
    BY <2>1, RefillEffect
  <2>5. u \in Stores
    BY <2>1, RefillEffect DEF Same
  <2>6. Len(u.list[n]) \in Nat
    BY <2>5, EntryFields
  <2> HIDE DEF u
  <2>7. Roomy(u)
    <3>1. ASSUME NEW m \in Name PROVE Len(u.list[m]) <= MaxLen
      <4>1. CASE m = n
        <5>1. Len(t.list[n]) <= MaxLen
          BY <2>2 DEF Roomy
        <5>2. t.position[n] + 1 + Upcoming <= MaxLen
          BY <2>2, <2>3, SizesKnown
        <5> QED
          BY <2>4, <4>1, <5>1, <5>2
      <4>2. CASE m # n
        BY <2>2, <2>4, <4>2 DEF Roomy, OthersKept
      <4> QED
        BY <4>1, <4>2
    <3> QED
      BY <2>2, <2>4, <3>1 DEF Roomy
  <2>8. Kept(u, n)
    BY <2>2, <2>4 DEF Kept
  <2>9. Within(t, n) => Within(u, n)
    BY <2>3, <2>4, <2>6 DEF Within, Ranged
  <2>10. Grown(s, t, n) => Grown(s, u, n)
    BY <1>1, <2>3, <2>4, <2>6 DEF Grown
  <2>11. ~ Kept(s, n) =>
           /\ u.position[n] = History
           /\ Len(u.list[n]) >= Len(s.list[n]) - (s.position[n] - History)
    <3>1. ASSUME ~ Kept(s, n)
          PROVE  Len(t.list[n]) >= Len(s.list[n]) - (s.position[n] - History)
      BY <2>2, <3>1
    <3>2. Len(s.list[n]) - (s.position[n] - History) \in Int
      BY <1>1, SizesKnown
    <3>3. ~ Kept(s, n) => u.position[n] = History
      BY <2>2, <2>4
    <3> QED
      BY <2>3, <2>4, <2>6, <3>1, <3>2, <3>3
  <2>12. Updated(s, n, rnd) \in {t, u}
    <3>1. Kinds[n] \in Kind
      BY SetupsAssumption DEF Kinds
    <3> QED
      BY <1>3, <3>1 DEF Updated, Unless, t, u, Kind
  <2> QED
    BY <2>2, <2>7, <2>8, <2>9, <2>10, <2>11, <2>12
<1> QED
  BY <1>2, <1>3

-----------------------------------------------------------------------------
(***************************************************************************)
(* An edit or a new position, and its broadcast.                           *)
(***************************************************************************)

\* Store r is s with other entries and another position of playlist n, of which
\* the client has been told.
Edited(r, s, n, l, p) ==
  /\ r \in Stores
  /\ r.list = [s.list EXCEPT ![n] = l]
  /\ r.mirror = [s.mirror EXCEPT ![n] = l]
  /\ r.position = [s.position EXCEPT ![n] = p]
  /\ r.active = s.active /\ r.hung = s.hung

Told(s, n, l) == [s EXCEPT !.mirror[n] = l]

LEMMA EditedFields ==
  ASSUME NEW s \in Stores, NEW n \in Name, NEW l \in Seq(Item), NEW p \in Place
  PROVE  /\ Edited(Told(SetEntries(s, n, l), n, l), s, n, l, s.position[n])
         /\ Edited(Told(SetAttr(SetEntries(s, n, l), n, p), n, l), s, n, l, p)
         /\ Edited(Told(s, n, s.list[n]), s, n, s.list[n], s.position[n])
<1>1. /\ s.list \in [Name -> Seq(Item)] /\ s.position \in [Name -> Place]
      /\ s.mirror \in [Name -> Seq(Item)]
  BY StoreFields
<1> DEFINE e == SetEntries(s, n, l)
           a == SetAttr(e, n, p)
<1>2. /\ e \in Stores /\ e.list = [s.list EXCEPT ![n] = l]
      /\ e.mirror = s.mirror /\ e.position = s.position
      /\ e.active = s.active /\ e.hung = s.hung
  BY DEF Stores, SetEntries
<1> HIDE DEF e
<1>3. /\ a \in Stores /\ a.list = e.list /\ a.mirror = e.mirror
      /\ a.position = [e.position EXCEPT ![n] = p]
      /\ a.active = e.active /\ a.hung = e.hung
  BY <1>2 DEF Stores, SetAttr
<1> HIDE DEF a
<1>4. ASSUME NEW t \in Stores, NEW m \in Seq(Item)
      PROVE  /\ Told(t, n, m) \in Stores /\ Told(t, n, m).list = t.list
             /\ Told(t, n, m).mirror = [t.mirror EXCEPT ![n] = m]
             /\ Told(t, n, m).position = t.position
             /\ Told(t, n, m).active = t.active /\ Told(t, n, m).hung = t.hung
  BY <1>4 DEF Stores, Told
<1>5. Edited(Told(e, n, l), s, n, l, s.position[n])
  <2>1. s.position = [s.position EXCEPT ![n] = s.position[n]]
    BY <1>1
  <2> QED
    BY <1>2, <1>4, <2>1 DEF Edited
<1>6. Edited(Told(a, n, l), s, n, l, p)
  BY <1>2, <1>3, <1>4 DEF Edited
<1>7. Edited(Told(s, n, s.list[n]), s, n, s.list[n], s.position[n])
  <2>1. /\ s.position = [s.position EXCEPT ![n] = s.position[n]]
        /\ s.list = [s.list EXCEPT ![n] = s.list[n]]
        /\ s.list[n] \in Seq(Item)
    BY <1>1
  <2> QED
    BY <1>4, <2>1 DEF Edited
<1> QED
  BY <1>5, <1>6, <1>7 DEF e, a

\* A playlist as every operation leaves it, and as the trimming can still bring
\* it there: one that is late may be one entry behind.
Owes(l, p) == p = History + 1 /\ Len(l) >= 1

Rests(n, l, p) ==
  IF n \in late THEN p <= History \/ Owes(l, p)
  ELSE Ranged(n, l, p) /\ (Kinds[n] # "list" => p <= History)

Suits(n, l, p) ==
  IF n \in late THEN p <= History + Len(l) ELSE Ranged(n, l, p)

Fine(s, n) == Rests(n, s.list[n], s.position[n])

Good(s) == Roomy(s) /\ \A m \in Name : Fine(s, m)

GoodBut(s, n) == Roomy(s) /\ \A m \in Name \ {n} : Fine(s, m)

\* The store when the trimming of a playlist that is late has run out of entries.
Jammed(s, n) ==
  /\ n \in late /\ s.hung = TRUE
  /\ Len(s.list[n]) = 0 /\ s.position[n] = History + 1
  /\ \A m \in Name : Len(s.list[m]) <= MaxLen
  /\ \A m \in Name \ {n} : Fine(s, m)

\* Only playlists that are trimmed are ever late.
Settled == setup \in Setups /\ \A m \in late : Kinds[m] # "list"

LEMMA RestsSuits ==
  ASSUME NEW n, NEW l \in Seq(Item), NEW p \in Place, Rests(n, l, p)
  PROVE  Suits(n, l, p)
<1>1. Len(l) \in Nat /\ p \in Int
  BY DEF Place
<1> QED
  BY <1>1, SizesKnown DEF Rests, Suits, Owes

\* The update of playlist n makes it what it must be.
Repairs(s, r, n) ==
  Roomy(r) /\ Fine(r, n) /\ \A m \in Name \ {n} : Fine(s, m) => Fine(r, m)

LEMMA RepairsGood ==
  ASSUME NEW s, NEW r, NEW n, Repairs(s, r, n), GoodBut(s, n)
  PROVE  Good(r)
BY DEF Repairs, GoodBut, Good

LEMMA UpdatedRepairs ==
  ASSUME NEW s \in Stores, s.mirror = s.list, NEW n \in Name, NEW rnd \in Media,
         Settled, Roomy(s), Suits(n, s.list[n], s.position[n])
  PROVE  Repairs(s, Updated(s, n, rnd), n)
<1> DEFINE r == Updated(s, n, rnd)
<1>1. /\ s.position[n] \in Int /\ Len(s.list[n]) \in Nat /\ setup \in Setups
  BY EntryFields DEF Settled
<1>2. Near(s, n)
  BY <1>1, SizesKnown DEF Suits, Ranged, Near
<1>3. Roomy(r) /\ Kept(r, n) /\ (Within(s, n) => Within(r, n))
  BY <1>1, <1>2, UpdatedEffect
<1>4. OthersKept(s, r, n)
  BY UpdatedSame
<1> HIDE DEF r
<1>5. Fine(r, n)
  BY <1>3 DEF Fine, Rests, Suits, Kept, Within, Settled
<1>6. ASSUME NEW m \in Name \ {n}, Fine(s, m) PROVE Fine(r, m)
  BY <1>4, <1>6 DEF OthersKept, Fine
<1> QED
  BY <1>3, <1>5, <1>6 DEF Repairs, r

\* The last position that was broadcast does not matter here.
LEMMA SaidFields ==
  ASSUME NEW s \in Stores, NEW n \in Name, NEW p \in Int
  PROVE  LET r == [s EXCEPT !.said[n] = p]
         IN  /\ r \in Stores /\ r.list = s.list /\ r.mirror = s.mirror
             /\ r.position = s.position /\ r.active = s.active /\ r.hung = s.hung
BY DEF Stores

LEMMA CurrPosEffect ==
  ASSUME NEW s \in Stores, s.mirror = s.list, NEW n \in Name, NEW p \in Int,
         NEW rnd \in Media, Settled
  PROVE  LET r == CurrPos(s, n, p, rnd)
             a == s.active
         IN  /\ Same(r) /\ OthersKept(s, r, a)
             /\ Roomy(s) /\ Suits(a, s.list[a], s.position[a]) => Repairs(s, r, a)
             /\ Good(s) => Good(r)
<1> DEFINE t == [s EXCEPT !.said[n] = p]
           a == s.active
           r == Updated(t, a, rnd)
<1>1. /\ t \in Stores /\ t.list = s.list /\ t.mirror = s.mirror
      /\ t.position = s.position /\ t.active = s.active /\ t.hung = s.hung
  BY SaidFields
<1>2. CurrPos(s, n, p, rnd) = IF s.hung THEN s ELSE r
  BY Zenon DEF CurrPos, Unless
<1> HIDE DEF t
<1>3. a \in Name
  BY StoreFields
<1>4. Same(r) /\ OthersKept(t, r, a)
  BY <1>1, <1>3, UpdatedSame
<1>5. OthersKept(s, r, a)
  BY <1>1, <1>4 DEF OthersKept
<1>6. ASSUME Roomy(s), Suits(a, s.list[a], s.position[a])
      PROVE  CurrPos(s, n, p, rnd) = r /\ Repairs(s, r, a)
  <2>1. Roomy(t) /\ Suits(a, t.list[a], t.position[a])
    BY <1>1, <1>6 DEF Roomy
  <2>2. Repairs(t, r, a)
    BY <1>1, <1>3, <2>1, UpdatedRepairs
  <2> HIDE DEF r
  <2> QED
    BY <1>1, <1>2, <1>6, <2>2 DEF Repairs, Fine, Roomy
<1> HIDE DEF r
<1>7. ASSUME Good(s) PROVE Good(CurrPos(s, n, p, rnd))
  <2>1. Roomy(s) /\ Fine(s, a) /\ GoodBut(s, a)
    BY <1>3, <1>7 DEF Good, GoodBut
  <2>2. s.list[a] \in Seq(Item) /\ s.position[a] \in Place
    BY <1>3, EntryFields
  <2>3. Suits(a, s.list[a], s.position[a])
    BY <2>1, <2>2, RestsSuits DEF Fine
  <2> QED
    BY <1>6, <2>1, <2>3, RepairsGood
<1>8. Same(s) /\ OthersKept(s, s, a)
  BY DEF Same, OthersKept
<1> QED
  BY <1>2, <1>4, <1>5, <1>6, <1>7, <1>8

\* The position p may be set: the update that it causes is that of the active
\* playlist.
Handled(s, n, p) == \/ n = s.active /\ Suits(n, s.list[n], p)
                    \/ Rests(n, s.list[n], p)

LEMMA SetPositionEffect ==
  ASSUME NEW s \in Stores, s.mirror = s.list, NEW n \in Name, NEW p \in Place,
         NEW rnd \in Media, Settled
  PROVE  LET r == SetPosition(s, n, p, rnd)
         IN  /\ Same(r) /\ r.active = s.active
             /\ GoodBut(s, n) /\ Handled(s, n, p) => Good(r)
             /\ GoodBut(s, n) /\ n # s.active =>
                  GoodBut(r, n) /\ r.list[n] = s.list[n] /\ r.position[n] = p
<1> DEFINE t == SetAttr(s, n, p)
           a == s.active
           r == CurrPos(t, n, p, rnd)
<1>1. /\ t \in Stores /\ t.list = s.list /\ t.mirror = s.mirror
      /\ t.position = [s.position EXCEPT ![n] = p]
      /\ t.active = s.active /\ t.hung = s.hung
  BY DEF SetAttr, Stores
<1>2. SetPosition(s, n, p, rnd) = IF s.hung THEN s ELSE r
  BY Zenon DEF SetPosition, Unless
<1> HIDE DEF t
<1>3. a \in Name /\ p \in Int /\ Same(s)
  BY StoreFields DEF Place, Same
<1>4. /\ Same(r) /\ OthersKept(t, r, a)
      /\ Good(t) => Good(r)
      /\ Roomy(t) /\ Suits(a, t.list[a], t.position[a]) => Repairs(t, r, a)
  BY <1>1, <1>3, CurrPosEffect
<1> HIDE DEF r
<1>5. t.position[n] = p /\ \A m \in Name \ {n} : t.position[m] = s.position[m]
  BY <1>1, StoreFields
<1>6. ASSUME GoodBut(s, n)
      PROVE  GoodBut(t, n) /\ Roomy(t) /\ SetPosition(s, n, p, rnd) = r
  BY <1>1, <1>2, <1>5, <1>6 DEF GoodBut, Roomy, Fine
<1>7. ASSUME GoodBut(s, n), Handled(s, n, p) PROVE Good(r)
  <2>1. CASE n = s.active /\ Suits(n, s.list[n], p)
    <3>1. Repairs(t, r, n)
      BY <1>1, <1>4, <1>5, <1>6, <1>7, <2>1
    <3> QED
      BY <1>6, <1>7, <3>1, RepairsGood
  <2>2. CASE Rests(n, s.list[n], p)
    <3>1. Fine(t, n)
      BY <1>1, <1>5, <2>2 DEF Fine
    <3>2. Good(t)
      BY <1>6, <1>7, <3>1 DEF Good, GoodBut
    <3> QED
      BY <1>4, <3>2
  <2> QED
    BY <1>7, <2>1, <2>2 DEF Handled
<1>8. ASSUME GoodBut(s, n), n # s.active
      PROVE  GoodBut(r, n) /\ r.list[n] = s.list[n] /\ r.position[n] = p
  <2>1. Fine(t, a)
    BY <1>3, <1>6, <1>8 DEF GoodBut
  <2>2. t.list[a] \in Seq(Item) /\ t.position[a] \in Place
    BY <1>1, <1>3, EntryFields
  <2>3. Repairs(t, r, a)
    BY <1>4, <1>6, <1>8, <2>1, <2>2, RestsSuits DEF Fine
  <2>4. GoodBut(r, n)
    BY <1>3, <1>6, <1>8, <2>3 DEF Repairs, GoodBut
  <2> QED
    BY <1>1, <1>4, <1>5, <1>8, <2>4 DEF OthersKept
<1>9. r.active = s.active
  BY <1>1, <1>4 DEF OthersKept
<1> QED
  BY <1>2, <1>3, <1>4, <1>6, <1>7, <1>8, <1>9

\* What the update after an edit makes of the playlist.
Changes(s, r, n, l, p) ==
  /\ Same(r) /\ r \in Stores /\ r.mirror = r.list /\ r.active = s.active
  /\ Good(s) /\ Len(l) <= MaxLen =>
       /\ Suits(n, l, p) => Good(r)
       /\ (Kinds[n] # "list" => p <= History) =>
            GoodBut(r, n) /\ r.position[n] = p /\ Len(r.list[n]) >= Len(l)
       /\ Kinds[n] # "list" /\ Owes(l, p) =>
            GoodBut(r, n) /\ r.position[n] = History /\ Len(r.list[n]) >= Len(l) - 1
       /\ n \in late /\ p = History + 1 /\ Len(l) < 1 => Jammed(r, n)

\* An edit and the update that its broadcast causes.
LEMMA ChangedEffect ==
  ASSUME Settled, NEW s \in Stores, s.mirror = s.list, NEW n \in Name,
         NEW rnd \in Media, NEW t, NEW l \in Seq(Item), NEW p \in Place,
         Edited(t, s, n, l, p)
  PROVE  Changes(s, Updated(t, n, rnd), n, l, p)
<1> DEFINE r == Updated(t, n, rnd)
<1>1. /\ s.list \in [Name -> Seq(Item)] /\ s.position \in [Name -> Place]
      /\ s.active \in Name /\ setup \in Setups /\ Len(l) \in Nat
      /\ p \in Int /\ p >= -1
  BY StoreFields DEF Settled, Place
<1>2. /\ t \in Stores /\ t.mirror = t.list /\ t.active = s.active /\ t.hung = s.hung
      /\ t.list[n] = l /\ t.position[n] = p
      /\ \A m \in Name \ {n} : t.list[m] = s.list[m] /\ t.position[m] = s.position[m]
  BY <1>1 DEF Edited
<1>3. Same(r) /\ OthersKept(t, r, n)
  BY <1>2, UpdatedSame
<1>4. ASSUME Good(s), Len(l) <= MaxLen PROVE GoodBut(t, n)
  <2>1. ASSUME NEW m \in Name \ {n} PROVE Fine(t, m)
    BY <1>2, <1>4 DEF Good, Fine
  <2>2. Roomy(t)
    BY <1>2, <1>4 DEF Good, Roomy
  <2> QED
    BY <2>1, <2>2 DEF GoodBut
<1>5. ASSUME Good(s), Len(l) <= MaxLen, Suits(n, l, p) PROVE Good(r)
  <2>1. GoodBut(t, n) /\ Roomy(t)
    BY <1>4, <1>5 DEF GoodBut
  <2>2. Repairs(t, r, n)
    BY <1>2, <1>5, <2>1, UpdatedRepairs
  <2> QED
    BY <2>1, <2>2, RepairsGood
\* The others stay, whatever the update makes of this one.
<1>6. ASSUME Good(s), Len(l) <= MaxLen, Kinds[n] # "list" => p <= History + Len(l)
      PROVE  /\ GoodBut(r, n)
             /\ (Kinds[n] # "list" => p <= History) =>
                  r.position[n] = p /\ Len(r.list[n]) >= Len(l)
             /\ Kinds[n] # "list" /\ p > History =>
                  /\ r.position[n] = History
                  /\ Len(r.list[n]) >= Len(l) - (p - History)
  <2>1. GoodBut(t, n) /\ Roomy(t)
    BY <1>4, <1>6 DEF GoodBut
  <2>2. Kinds[n] # "list" => Near(t, n)
    BY <1>2, <1>6 DEF Near
  <2>3. /\ Roomy(r) /\ (Kept(t, n) => Grown(t, r, n))
        /\ ~ Kept(t, n) =>
             /\ r.position[n] = History
             /\ Len(r.list[n]) >= Len(t.list[n]) - (t.position[n] - History)
    BY <1>1, <1>2, <2>1, <2>2, UpdatedEffect
  <2> HIDE DEF r
  <2>4. ASSUME NEW m \in Name \ {n} PROVE Fine(r, m)
    BY <1>3, <2>1 DEF OthersKept, GoodBut, Fine
  <2>5. Kept(t, n) <=> (Kinds[n] # "list" => p <= History)
    BY <1>2 DEF Kept
  <2>6. p > History => ~(p <= History)
    BY <1>1, SizesKnown
  <2> QED
    BY <1>2, <2>3, <2>4, <2>5, <2>6 DEF Grown, GoodBut
<1>7. ASSUME Good(s), Len(l) <= MaxLen, Kinds[n] # "list" => p <= History
      PROVE  GoodBut(r, n) /\ r.position[n] = p /\ Len(r.list[n]) >= Len(l)
  <2>1. Kinds[n] # "list" => p <= History + Len(l)
    BY <1>1, <1>7, SizesKnown
  <2> QED
    BY <1>6, <1>7, <2>1
<1>8. ASSUME Good(s), Len(l) <= MaxLen, Kinds[n] # "list", Owes(l, p)
      PROVE  GoodBut(r, n) /\ r.position[n] = History /\ Len(r.list[n]) >= Len(l) - 1
  <2>1. p <= History + Len(l) /\ p > History /\ Len(l) - (p - History) = Len(l) - 1
    BY <1>1, <1>8, SizesKnown DEF Owes
  <2> QED
    BY <1>6, <1>8, <2>1
<1>9. ASSUME Good(s), Len(l) <= MaxLen, n \in late, p = History + 1, Len(l) < 1
      PROVE  Jammed(r, n)
  <2> DEFINE v == Trim(t, n)
  <2>1. Kinds[n] # "list" /\ Kinds[n] \in Kind
    BY <1>1, <1>9, SetupsAssumption DEF Settled, Kinds
  <2>2. t.position[n] > History + Len(t.list[n])
    BY <1>1, <1>2, <1>9, SizesKnown
  <2>3. /\ OthersKept(t, v, n) /\ v.hung = TRUE
        /\ Len(v.list[n]) = 0
        /\ v.position[n] = t.position[n] - Len(t.list[n])
    BY <1>2, <2>2, TrimHangs
  <2> HIDE DEF v
  <2>4. r = v
    BY <2>1, <2>3 DEF Updated, Unless, Kind, v
  <2>5. v.position[n] = History + 1
    BY <1>1, <1>2, <1>9, <2>3, SizesKnown
  <2>6. ASSUME NEW m \in Name PROVE Len(v.list[m]) <= MaxLen
    <3>1. CASE m = n
      BY <2>3, <3>1, SizesKnown
    <3>2. CASE m # n
      BY <1>4, <1>9, <2>3, <3>2 DEF OthersKept, GoodBut, Roomy
    <3> QED
      BY <3>1, <3>2
  <2>7. ASSUME NEW m \in Name \ {n} PROVE Fine(v, m)
    BY <1>4, <1>9, <2>3 DEF OthersKept, GoodBut, Fine
  <2> QED
    BY <1>9, <2>3, <2>4, <2>5, <2>6, <2>7 DEF Jammed
<1>10. r.active = s.active
  BY <1>2, <1>3 DEF OthersKept
<1> HIDE DEF r
<1>11. r \in Stores /\ r.mirror = r.list
  BY <1>3 DEF Same
<1>12. Changes(s, r, n, l, p)
  BY <1>3, <1>5, <1>7, <1>8, <1>9, <1>10, <1>11 DEF Changes
<1> QED
  BY <1>12 DEF r

LEMMA JumpEffect ==
  ASSUME NEW s \in Stores, s.mirror = s.list, NEW a \in Name
  PROVE  LET r == [s EXCEPT !.active = a]
         IN  Same(r) /\ r.active = a /\ r.list = s.list /\ (Good(s) => Good(r))
<1> DEFINE r == [s EXCEPT !.active = a]
<1>1. /\ r \in Stores /\ r.list = s.list /\ r.mirror = s.mirror
      /\ r.position = s.position /\ r.hung = s.hung /\ r.active = a
  BY DEF Stores
<1> HIDE DEF r
<1>2. Good(s) => Good(r)
  BY <1>1 DEF Good, Roomy, Fine
<1>3. Same(r) /\ r.active = a /\ r.list = s.list /\ (Good(s) => Good(r))
  BY <1>1, <1>2 DEF Same
<1> QED
  BY <1>3 DEF r

-----------------------------------------------------------------------------
(***************************************************************************)
(* The operations.                                                         *)
(***************************************************************************)

Plain ==
  /\ Settled
  /\ list \in [Name -> Seq(Item)] /\ position \in [Name -> Place]
  /\ active \in Name
  /\ repeat_one \in BOOLEAN /\ repeat_all \in BOOLEAN
  /\ misled \subseteq Name /\ late \subseteq Name /\ hung \in BOOLEAN
  /\ mirror = list

\* The trimming of a playlist that was late has run out of entries.
Jam(m) ==
  hung /\ m \in late /\ Len(list[m]) = 0 /\ position[m] = History + 1

\* What the store tells of the state.
Sound ==
  \A m \in Name : /\ Len(list[m]) <= MaxLen
                  /\ Rests(m, list[m], position[m]) \/ Jam(m)

Fits == Sound /\ ~ hung

LEMMA StoreIs ==
  ASSUME Plain
  PROVE  /\ Store \in Stores /\ Store.mirror = Store.list
         /\ Store.list = list /\ Store.position = position /\ Store.active = active
         /\ Store.hung = FALSE
         /\ Fits => Good(Store)
<1>1. /\ Store \in Stores /\ Store.mirror = Store.list
      /\ Store.list = list /\ Store.position = position /\ Store.active = active
      /\ Store.hung = FALSE
  BY DEF Store, Stores, Plain, Unsaid
<1>2. Fits => Good(Store)
  BY <1>1 DEF Fits, Sound, Jam, Good, Roomy, Fine
<1> QED
  BY <1>1, <1>2

\* An operation ends in store s.
Leads(s) ==
  /\ Same(s)
  /\ \/ Done(s) /\ (Fits => Good(s) \/ \E n \in Name : Jammed(s, n))
     \/ \E n \in Name : /\ Returns(s, late \cup {n}) /\ Kinds[n] # "list"
                        /\ Fits => GoodBut(s, n) /\ Owes(s.list[n], s.position[n])

\* What is late after it is either right or still behind.
LEMMA RestsOn ==
  ASSUME NEW s \in Stores, NEW L \in SUBSET Name, Returns(s, L), late \subseteq L,
         NEW m \in Name, Plain,
         IF m \in L THEN s.position[m] <= History \/ Owes(s.list[m], s.position[m])
         ELSE Fine(s, m)
  PROVE  Rests(m, list[m], position[m])'
<1>1. /\ list' = s.list /\ position' = s.position /\ setup' = setup
      /\ late' = {n \in L : ~ Right(s, n)}
  BY DEF Returns
<1>2. Len(s.list[m]) \in Nat /\ s.position[m] \in Int /\ s.position[m] >= -1
  BY EntryFields
<1>3. CASE m \in late'
  BY <1>1, <1>3 DEF Rests, Owes
<1>4. CASE m \notin late' /\ m \in L
  <2>1. s.position[m] < Len(s.list[m]) /\ s.position[m] <= History
    BY <1>1, <1>4 DEF Right
  <2>2. s.position[m] \in -1..Len(s.list[m]) /\ s.position[m] # Len(s.list[m])
    BY <1>2, <2>1
  <2> QED
    BY <1>1, <1>4, <2>1, <2>2 DEF Rests, Ranged
<1>5. CASE m \notin L
  <2>1. Ranged(m, s.list[m], s.position[m])
        /\ (Kinds[m] # "list" => s.position[m] <= History)
    BY <1>5 DEF Fine, Rests
  <2> QED
    BY <1>1, <1>5, <2>1 DEF Rests, Ranged, Jumplist, Kinds
<1> QED
  BY <1>3, <1>4, <1>5

LEMMA PlainOn ==
  ASSUME NEW s \in Stores, s.mirror = s.list, NEW L \in SUBSET Name, Returns(s, L),
         \A m \in L : Kinds[m] # "list", Plain
  PROVE  Plain'
<1>1. /\ list' = s.list /\ position' = s.position
      /\ active' = s.active /\ mirror' = s.mirror /\ hung' = s.hung
      /\ misled' \subseteq Name /\ late' = {n \in L : ~ Right(s, n)}
      /\ setup' = setup /\ repeat_one' = repeat_one /\ repeat_all' = repeat_all
  BY DEF Returns
<1>2. late' \subseteq Name /\ \A m \in late' : setup'.kind[m] # "list"
  BY <1>1 DEF Kinds
<1>3. Settled'
  BY <1>1, <1>2 DEF Plain, Settled, Kinds
<1> QED
  BY <1>1, <1>2, <1>3, StoreFields DEF Plain

\* Every playlist is left as it must be.
LEMMA FineOn ==
  ASSUME NEW s \in Stores, Returns(s, late), Plain,
         \A m \in Name : Fine(s, m) /\ Len(s.list[m]) <= MaxLen
  PROVE  Sound'
<1>1. list' = s.list /\ late \in SUBSET Name
  BY DEF Returns, Plain
<1>2. ASSUME NEW m \in Name
      PROVE  Len(list'[m]) <= MaxLen /\ Rests(m, list[m], position[m])'
  <2>1. m \in late => s.position[m] <= History \/ Owes(s.list[m], s.position[m])
    BY DEF Fine, Rests
  <2> QED
    BY <1>1, <2>1, RestsOn
<1> QED
  BY <1>2 DEF Sound

LEMMA LeadsOn ==
  ASSUME NEW s, Plain, Leads(s)
  PROVE  Plain' /\ (Fits => Sound' /\ (hung' => \E m \in Name : Jam(m)'))
<1>1. s \in Stores /\ s.mirror = s.list
  BY DEF Leads, Same
<1>2. PICK L \in SUBSET Name :
        /\ Returns(s, L) /\ late \subseteq L /\ \A m \in L : Kinds[m] # "list"
        /\ \/ L = late /\ (Fits => Good(s) \/ \E n \in Name : Jammed(s, n))
           \/ \E n \in Name : /\ L = late \cup {n}
                              /\ Fits => GoodBut(s, n) /\ Owes(s.list[n], s.position[n])
  <2>1. late \in SUBSET Name /\ \A m \in late : Kinds[m] # "list"
    BY DEF Plain, Settled
  <2>2. CASE Done(s) /\ (Fits => Good(s) \/ \E n \in Name : Jammed(s, n))
    BY <2>1, <2>2 DEF Done
  <2>3. CASE \E n \in Name : /\ Returns(s, late \cup {n}) /\ Kinds[n] # "list"
                             /\ Fits => GoodBut(s, n) /\ Owes(s.list[n], s.position[n])
    <3>1. PICK n \in Name : /\ Returns(s, late \cup {n}) /\ Kinds[n] # "list"
                            /\ Fits => GoodBut(s, n) /\ Owes(s.list[n], s.position[n])
      BY <2>3
    <3>2. /\ late \cup {n} \in SUBSET Name /\ late \subseteq late \cup {n}
          /\ \A m \in late \cup {n} : Kinds[m] # "list"
      BY <2>1, <3>1
    <3> QED
      BY <3>1, <3>2
  <2> QED
    BY <2>2, <2>3 DEF Leads
<1>3. /\ list' = s.list /\ position' = s.position
      /\ active' = s.active /\ mirror' = s.mirror /\ hung' = s.hung
      /\ misled' \subseteq Name /\ late' = {n \in L : ~ Right(s, n)}
      /\ setup' = setup /\ repeat_one' = repeat_one /\ repeat_all' = repeat_all
  BY <1>2 DEF Returns
<1>4. Plain'
  BY <1>1, <1>2, PlainOn
<1>5. CASE L = late /\ (Fits => Good(s))
  <2>1. Fits => Sound'
    BY <1>1, <1>2, <1>5, FineOn DEF Good, Roomy
  <2>2. Fits => hung' = FALSE
    BY <1>3, <1>5 DEF Good, Roomy
  <2> QED
    BY <1>4, <2>1, <2>2
<1>6. CASE L = late /\ \E n \in Name : Jammed(s, n)
  <2>1. PICK n \in Name : Jammed(s, n)
    BY <1>6
  <2>2. ASSUME NEW m \in Name \ {n}
        PROVE  Rests(m, list[m], position[m])'
    <3>1. Fine(s, m)
      BY <2>1 DEF Jammed
    <3>2. m \in late => s.position[m] <= History \/ Owes(s.list[m], s.position[m])
      BY <3>1 DEF Fine, Rests
    <3> QED
      BY <1>1, <1>2, <1>6, <3>1, <3>2, RestsOn
  <2>3. Jam(n)'
    <3>1. ~ Right(s, n)
      BY <2>1, SizesKnown DEF Jammed, Right
    <3> QED
      BY <1>3, <1>6, <2>1, <3>1 DEF Jam, Jammed
  <2>4. \A m \in Name : Len(list'[m]) <= MaxLen
    BY <1>3, <2>1 DEF Jammed
  <2> QED
    BY <1>4, <2>2, <2>3, <2>4 DEF Sound
<1>7. CASE \E n \in Name : /\ L = late \cup {n}
                           /\ Fits => GoodBut(s, n) /\ Owes(s.list[n], s.position[n])
  <2>1. PICK n \in Name : /\ L = late \cup {n}
                          /\ Fits => GoodBut(s, n) /\ Owes(s.list[n], s.position[n])
    BY <1>7
  <2>2. ASSUME Fits, NEW m \in Name
        PROVE  Len(list'[m]) <= MaxLen /\ Rests(m, list[m], position[m])'
    <3>1. /\ m # n => Fine(s, m)
          /\ m = n => Owes(s.list[m], s.position[m])
          /\ Len(s.list[m]) <= MaxLen
      BY <2>1, <2>2 DEF GoodBut, Roomy
    <3>2. m \in L => s.position[m] <= History \/ Owes(s.list[m], s.position[m])
      BY <2>1, <3>1 DEF Fine, Rests
    <3>3. m \notin L => Fine(s, m)
      BY <2>1, <3>1
    <3> QED
      BY <1>1, <1>2, <1>3, <3>1, <3>2, <3>3, RestsOn
  <2>3. Fits => hung' = FALSE
    BY <1>3, <2>1 DEF GoodBut, Roomy
  <2> QED
    BY <1>4, <2>2, <2>3 DEF Sound
<1> QED
  BY <1>2, <1>4, <1>5, <1>6, <1>7

LEMMA FitsStore ==
  ASSUME Plain, Fits, NEW n \in Name
  PROVE  /\ Good(Store) /\ Len(list[n]) <= MaxLen
         /\ Rests(n, list[n], position[n]) /\ Suits(n, list[n], position[n])
         /\ n \notin late => /\ Ranged(n, list[n], position[n])
                             /\ Kinds[n] # "list" => position[n] <= History
         /\ n \in late => /\ Kinds[n] # "list"
                          /\ position[n] <= History \/ Owes(list[n], position[n])
         /\ Len(list[n]) \in Nat /\ position[n] \in Int /\ position[n] \in Place
<1>1. Good(Store)
  BY StoreIs
<1>2. Rests(n, list[n], position[n]) /\ Len(list[n]) <= MaxLen
  BY DEF Fits, Sound, Jam
<1>3. /\ Len(list[n]) \in Nat /\ position[n] \in Int /\ position[n] \in Place
      /\ list[n] \in Seq(Item)
  BY DEF Plain, Place
<1>4. Suits(n, list[n], position[n])
  BY <1>2, <1>3, RestsSuits
<1>5. n \in late => Kinds[n] # "list"
  BY DEF Plain, Settled
<1> QED
  BY <1>1, <1>2, <1>3, <1>4, <1>5 DEF Rests

\* What can be said of store r after the change.
ChangedTo(r, n, l, p) == Changes(Store, r, n, l, p) /\ r.active = active

LEMMA StoreChanges ==
  ASSUME Plain, NEW n \in Name, NEW rnd \in Media, NEW t, NEW l \in Seq(Item),
         NEW p \in Place, Edited(t, Store, n, l, p)
  PROVE  /\ ChangedTo(Updated(t, n, rnd), n, l, p)
         /\ Updated(t, n, rnd) \in Stores
         /\ Updated(t, n, rnd).mirror = Updated(t, n, rnd).list
<1> DEFINE r == Updated(t, n, rnd)
<1>1. Settled
  BY DEF Plain
<1>2. Changes(Store, r, n, l, p)
  BY <1>1, StoreIs, ChangedEffect
<1> HIDE DEF r
<1>3. ChangedTo(r, n, l, p) /\ r \in Stores /\ r.mirror = r.list
  BY <1>2, StoreIs DEF Changes, ChangedTo
<1> QED
  BY <1>3 DEF r

LEMMA RoomKnown ==
  ASSUME Plain, NEW n \in Name, HasRoom(n)
  PROVE  Len(list[n]) < MaxLen
<1>1. setup.room[n] \in 0..MaxLen
  BY SetupsAssumption DEF Plain, Settled
<1>2. Len(list[n]) \in Nat /\ Len(list[n]) < setup.room[n]
  BY DEF Plain, HasRoom
<1> QED
  BY <1>1, <1>2, SizesKnown

LEMMA AddEntryLeads ==
  ASSUME Plain, NEW n \in Name, NEW e \in Entry, NEW rnd \in Media,
         AddEntry(n, e, rnd)
  PROVE  \E s : Leads(s)
<1> DEFINE l == Append(list[n], e)
           t == Told(SetEntries(Store, n, l), n, l)
           r == Updated(t, n, rnd)
<1>1. list[n] \in Seq(Item) /\ e \in Item /\ position[n] \in Place
  BY DEF Plain, Item
<1>2. l \in Seq(Item) /\ Len(l) = Len(list[n]) + 1
  BY <1>1
<1>3. Done(r)
  BY DEF AddEntry, Plain, Changed, Told
<1>4. Len(list[n]) < MaxLen
  BY RoomKnown DEF AddEntry
<1> HIDE DEF l
<1>5. Edited(t, Store, n, l, position[n])
  BY <1>1, <1>2, StoreIs, EditedFields
<1> HIDE DEF t
<1>6. ChangedTo(r, n, l, position[n])
  BY <1>1, <1>2, <1>5, StoreChanges
<1>7. Same(r)
  BY <1>6 DEF ChangedTo, Changes
<1>8. ASSUME Fits PROVE Good(r)
  <2>1. /\ Len(list[n]) \in Nat /\ position[n] \in Int
        /\ Good(Store) /\ Suits(n, list[n], position[n])
    BY <1>8, FitsStore
  <2>2. Len(l) <= MaxLen /\ Suits(n, l, position[n])
    BY <1>2, <1>4, <2>1, SizesKnown DEF Suits, Ranged
  <2> HIDE DEF r
  <2> QED
    BY <1>6, <2>1, <2>2 DEF ChangedTo, Changes
<1> QED
  BY <1>3, <1>7, <1>8 DEF Leads

LEMMA ClearLeads ==
  ASSUME Plain, NEW n \in Name, NEW rnd \in Media, Clear(n, rnd)
  PROVE  \E s : Leads(s)
<1> DEFINE t == Told(SetAttr(SetEntries(Store, n, <<>>), n, -1), n, <<>>)
           r == Updated(t, n, rnd)
<1>1. Done(r)
  BY Zenon DEF Clear, Changed, Told
<1>2. <<>> \in Seq(Item) /\ -1 \in Place /\ Len(<<>>) = 0
  BY DEF Place
<1>3. Edited(t, Store, n, <<>>, -1)
  BY <1>2, StoreIs, EditedFields
<1> HIDE DEF t
<1>4. Suits(n, <<>>, -1) /\ Len(<<>>) <= MaxLen
  BY <1>2, SizesKnown DEF Suits, Ranged
<1>5. ChangedTo(r, n, <<>>, -1)
  BY <1>2, <1>3, StoreChanges
<1>6. Same(r) /\ (Fits => Good(r))
  BY <1>4, <1>5, StoreIs DEF ChangedTo, Changes
<1> QED
  BY <1>1, <1>6 DEF Leads

LEMMA InsertEntryLeads ==
  ASSUME Plain, NEW n \in Name, NEW p \in 0..MaxLen, NEW e \in Entry,
         NEW rnd \in Media, InsertEntry(n, p, e, rnd)
  PROVE  \E s : Leads(s)
<1> DEFINE l == With(list[n], p, e)
           t == Told(SetEntries(Store, n, l), n, l)
           r == Updated(t, n, rnd)
           currpos == r.position[n]
           u == SetPosition(r, n, currpos + 1, rnd)
           moves == p <= currpos \/ currpos = -1
           untrimmed ==
             n # active /\ Kinds[n] # "list" /\ p <= currpos /\ currpos = History
<1>1. list[n] \in Seq(Item) /\ e \in Item /\ position[n] \in Int /\ mirror = list
      /\ Len(list[n]) \in Nat /\ position[n] \in Place /\ Settled
  BY DEF Plain, Place, Item
<1>2. /\ Len(list[n]) < MaxLen /\ p <= Len(list[n])
      /\ p \in 0..Len(list[n])
  BY <1>1, RoomKnown, SizesKnown DEF InsertEntry
<1>3. l \in Seq(Item) /\ Len(l) = Len(list[n]) + 1
  BY <1>1, <1>2, WithType
<1>4. Returns(IF moves THEN u ELSE r, IF untrimmed THEN late \cup {n} ELSE late)
  BY <1>1, Zenon DEF InsertEntry, Changed, Told
<1> HIDE DEF l
<1>5. Edited(t, Store, n, l, position[n])
  BY <1>1, <1>3, StoreIs, EditedFields
<1> HIDE DEF t
<1>6. /\ ChangedTo(r, n, l, position[n])
      /\ r \in Stores /\ r.mirror = r.list /\ r.active = active /\ Same(r)
  <2>1. ChangedTo(r, n, l, position[n])
    BY <1>1, <1>3, <1>5, StoreChanges
  <2> HIDE DEF r
  <2> QED
    BY <2>1 DEF ChangedTo, Changes
<1> HIDE DEF r
<1>7. currpos \in Int /\ currpos >= -1 /\ Len(r.list[n]) \in Nat
  BY <1>6, EntryFields
<1>8. /\ Same(u)
      /\ GoodBut(r, n) /\ Handled(r, n, currpos + 1) => Good(u)
      /\ GoodBut(r, n) /\ n # active =>
           GoodBut(u, n) /\ u.list[n] = r.list[n] /\ u.position[n] = currpos + 1
  <2>1. currpos + 1 \in Place
    BY <1>7 DEF Place
  <2> QED
    BY <1>1, <1>6, <2>1, SetPositionEffect
\* After the update the list has the entry that was inserted.
<1>9. ASSUME Fits
      PROVE  /\ Good(r) /\ GoodBut(r, n) /\ Len(r.list[n]) >= 1
             /\ Kinds[n] # "list" => currpos <= History
             /\ n \notin late => Ranged(n, r.list[n], currpos + 1)
             /\ n \in late => Kinds[n] # "list"
  <2>1. Good(Store) /\ Len(l) <= MaxLen
    BY <1>1, <1>2, <1>3, <1>9, FitsStore, SizesKnown
  <2>2. /\ n \notin late => /\ Ranged(n, list[n], position[n])
                            /\ Kinds[n] # "list" => position[n] <= History
        /\ n \in late => /\ Kinds[n] # "list"
                         /\ position[n] <= History \/ Owes(list[n], position[n])
    BY <1>9, FitsStore
  <2>3. /\ Suits(n, l, position[n]) => Good(r)
        /\ (Kinds[n] # "list" => position[n] <= History) =>
             GoodBut(r, n) /\ r.position[n] = position[n] /\ Len(r.list[n]) >= Len(l)
        /\ Kinds[n] # "list" /\ Owes(l, position[n]) =>
             GoodBut(r, n) /\ r.position[n] = History /\ Len(r.list[n]) >= Len(l) - 1
    BY <1>6, <2>1 DEF ChangedTo, Changes
  <2>4. Suits(n, l, position[n])
    BY <1>1, <1>3, <2>2, SizesKnown DEF Suits, Ranged, Owes
  <2>5. CASE Kinds[n] # "list" => position[n] <= History
    <3>1. GoodBut(r, n) /\ currpos = position[n] /\ Len(r.list[n]) >= Len(l)
      BY <2>3, <2>5
    <3>2. n \notin late => Ranged(n, r.list[n], currpos + 1)
      BY <1>1, <1>3, <1>7, <2>2, <3>1 DEF Ranged
    <3> QED
      BY <1>1, <1>3, <1>7, <2>2, <2>3, <2>4, <2>5, <3>1, <3>2
  <2>6. CASE ~ (Kinds[n] # "list" => position[n] <= History)
    <3>1. n \in late /\ Owes(list[n], position[n])
      BY <2>2, <2>6
    <3>2. Owes(l, position[n]) /\ Len(l) - 1 >= 1
      BY <1>1, <1>3, <3>1 DEF Owes
    <3>3. GoodBut(r, n) /\ currpos = History /\ Len(r.list[n]) >= Len(l) - 1
      BY <2>3, <2>6, <3>2
    <3> QED
      BY <1>1, <1>3, <1>7, <2>2, <2>3, <2>4, <3>1, <3>2, <3>3, SizesKnown
  <2> QED
    BY <2>5, <2>6
<1>10. CASE untrimmed
  <2>1. moves /\ Kinds[n] # "list" /\ n # active /\ currpos = History
    BY <1>10
  <2>2. Returns(u, late \cup {n})
    BY <1>4, <1>10
  <2>3. Fits => GoodBut(u, n) /\ Owes(u.list[n], u.position[n])
    <3> HIDE DEF u
    <3> QED
      BY <1>8, <1>9, <2>1 DEF Owes
  <2> HIDE DEF u
  <2> QED
    BY <1>8, <2>1, <2>2, <2>3 DEF Leads
<1>11. CASE ~ untrimmed /\ moves
  <2>1. Done(u)
    BY <1>4, <1>11 DEF Done
  <2>2. ASSUME Fits PROVE Handled(r, n, currpos + 1)
    <3>1. Suits(n, r.list[n], currpos + 1)
      BY <1>7, <1>9, <2>2, SizesKnown DEF Suits
    <3>2. CASE n = active
      BY <1>6, <3>1, <3>2 DEF Handled
    <3>3. CASE n # active /\ Kinds[n] = "list"
      BY <1>9, <2>2, <3>3 DEF Handled, Rests
    <3>4. CASE n # active /\ Kinds[n] # "list"
      <4>1. currpos + 1 <= History
        BY <1>7, <1>9, <1>11, <2>2, <3>4, SizesKnown
      <4> QED
        BY <1>9, <2>2, <4>1 DEF Handled, Rests
    <3> QED
      BY <3>2, <3>3, <3>4
  <2>3. Same(u) /\ (Fits => Good(u))
    BY <1>8, <1>9, <2>2
  <2> HIDE DEF u
  <2> QED
    BY <2>1, <2>3 DEF Leads
<1>12. CASE ~ untrimmed /\ ~ moves
  <2>1. Done(r)
    BY <1>4, <1>12 DEF Done
  <2> QED
    BY <1>6, <1>9, <2>1 DEF Leads
<1> QED
  BY <1>10, <1>11, <1>12

LEMMA RemoveEntryLeads ==
  ASSUME Plain, NEW n \in Name, NEW p \in 0..MaxLen, NEW rnd \in Media,
         RemoveEntry(n, p, rnd)
  PROVE  \E s : Leads(s)
<1> DEFINE l == Without(list[n], p)
           t == Told(SetEntries(Store, n, l), n, l)
           r == Updated(t, n, rnd)
           currpos == position[n]
           u == SetPosition(r, n, currpos - 1, rnd)
           moves == currpos # -1 /\ p <= currpos
<1>1. list[n] \in Seq(Item) /\ position[n] \in Int /\ Len(list[n]) \in Nat
      /\ position[n] \in Place /\ position[n] >= -1 /\ Settled
  BY DEF Plain, Place
<1>2. p < Len(list[n]) /\ p \in 0..Len(list[n]) - 1
  BY <1>1, SizesKnown DEF RemoveEntry
<1>3. l \in Seq(Item) /\ Len(l) = Len(list[n]) - 1 /\ Len(l) \in Nat
  BY <1>1, <1>2, WithoutType
<1>4. Done(IF moves THEN u ELSE r)
  BY StoreIs, Zenon DEF RemoveEntry, Removed, Changed, Told
<1> HIDE DEF l
<1>5. Edited(t, Store, n, l, position[n])
  BY <1>1, <1>3, StoreIs, EditedFields
<1> HIDE DEF t
<1>6. /\ ChangedTo(r, n, l, position[n])
      /\ r \in Stores /\ r.mirror = r.list /\ r.active = active /\ Same(r)
  <2>1. ChangedTo(r, n, l, position[n])
    BY <1>1, <1>3, <1>5, StoreChanges
  <2> HIDE DEF r
  <2> QED
    BY <2>1 DEF ChangedTo, Changes
<1> HIDE DEF r
<1>7. Len(r.list[n]) \in Nat
  BY <1>6, EntryFields
<1>8. moves =>
        /\ Same(u)
        /\ GoodBut(r, n) /\ Handled(r, n, currpos - 1) => Good(u)
  <2>1. currpos # -1 => currpos - 1 \in Place
    BY <1>1 DEF Place
  <2> QED
    BY <1>1, <1>6, <2>1, SetPositionEffect
<1>9. Fits => Good(Store) /\ Len(l) <= MaxLen
  BY <1>1, <1>3, FitsStore, SizesKnown
<1>10. ASSUME Fits
       PROVE  /\ Suits(n, l, position[n]) => Good(r)
              /\ (Kinds[n] # "list" => position[n] <= History) =>
                   /\ GoodBut(r, n) /\ r.position[n] = position[n]
                   /\ Len(r.list[n]) >= Len(l)
              /\ Kinds[n] # "list" /\ Owes(l, position[n]) =>
                   GoodBut(r, n) /\ r.position[n] = History
              /\ n \in late /\ position[n] = History + 1 /\ Len(l) < 1 => Jammed(r, n)
  BY <1>6, <1>9, <1>10 DEF ChangedTo, Changes
<1>11. Fits =>
         /\ n \notin late => /\ Ranged(n, list[n], position[n])
                             /\ Kinds[n] # "list" => position[n] <= History
         /\ n \in late => /\ Kinds[n] # "list"
                          /\ position[n] <= History \/ Owes(list[n], position[n])
  BY FitsStore
\* The playlist was late, and this was its last entry.
<1>12. CASE Fits /\ n \in late /\ position[n] = History + 1 /\ Len(l) < 1
  <2>1. Jammed(r, n)
    BY <1>10, <1>12
  <2>2. u = r
    BY <2>1 DEF Jammed, SetPosition, Unless
  <2> HIDE DEF u
  <2> QED
    BY <1>4, <1>6, <2>1, <2>2 DEF Leads
<1>13. CASE ~ (Fits /\ n \in late /\ position[n] = History + 1 /\ Len(l) < 1)
  <2>1. ASSUME Fits, moves PROVE Good(u)
    <3>1. GoodBut(r, n)
      <4>1. CASE Kinds[n] # "list" => position[n] <= History
        BY <1>10, <2>1, <4>1
      <4>2. CASE ~ (Kinds[n] # "list" => position[n] <= History)
        <5>1. n \in late /\ position[n] = History + 1
          BY <1>11, <2>1, <4>2 DEF Owes
        <5>2. ~(Len(l) < 1)
          BY <1>13, <2>1, <5>1
        <5>3. Len(l) >= 1
          BY <1>1, <1>3, <5>2
        <5>4. Owes(l, position[n])
          BY <5>1, <5>3, Zenon DEF Owes
        <5> QED
          BY <1>10, <2>1, <4>2, <5>4
      <4> QED
        BY <4>1, <4>2
    <3>2. Kinds[n] # "list" => currpos - 1 <= History
      BY <1>1, <1>11, <2>1, SizesKnown DEF Owes
    <3>3. n \notin late => Ranged(n, r.list[n], currpos - 1)
      <4>1. SUFFICES ASSUME n \notin late PROVE Ranged(n, r.list[n], currpos - 1)
        OBVIOUS
      <4>2. /\ currpos \in 0..Len(list[n])
            /\ currpos = Len(list[n]) => Jumplist[n] # NoList
        BY <1>1, <1>2, <1>11, <2>1, <4>1 DEF Ranged
      <4>3. Len(r.list[n]) >= Len(list[n]) - 1
        BY <1>3, <1>10, <1>11, <2>1, <4>1
      <4> HIDE DEF currpos
      <4> QED
        BY <1>1, <1>7, <4>2, <4>3 DEF Ranged
    <3>4. Handled(r, n, currpos - 1)
      BY <1>11, <2>1, <3>2, <3>3 DEF Handled, Rests
    <3> QED
      BY <1>8, <2>1, <3>1, <3>4
  <2>2. ASSUME Fits, ~ moves PROVE Good(r)
    <3>1. Suits(n, l, position[n])
      <4>1. CASE n \in late
        <5>1. position[n] <= History \/ Owes(list[n], position[n])
          BY <1>11, <2>2, <4>1
        <5>2. CASE position[n] <= History
          <6>1. position[n] <= History + Len(l)
            BY <1>1, <1>3, <5>2, SizesKnown
          <6> QED
            BY <4>1, <6>1 DEF Suits
        <5>3. CASE Owes(list[n], position[n])
          <6>1. position[n] = History + 1
            BY <5>3 DEF Owes
          <6>2. ~(Len(l) < 1)
            BY <1>13, <2>2, <4>1, <6>1
          <6>3. Len(l) >= 1
            BY <1>1, <1>3, <6>2
          <6>4. position[n] <= History + Len(l)
            BY <1>1, <1>3, <6>1, <6>3, SizesKnown
          <6> QED
            BY <4>1, <6>4 DEF Suits
        <5> QED
          BY <5>1, <5>2, <5>3
      <4>2. CASE n \notin late
        BY <1>1, <1>2, <1>3, <1>11, <2>2, <4>2 DEF Suits, Ranged
      <4> QED
        BY <4>1, <4>2
    <3> QED
      BY <1>10, <2>2, <3>1
  <2>3. CASE moves
    BY <1>4, <1>8, <2>1, <2>3 DEF Leads
  <2>4. CASE ~ moves
    BY <1>4, <1>6, <2>2, <2>4 DEF Leads
  <2> QED
    BY <2>3, <2>4
<1> QED
  BY <1>12, <1>13

\* An operation that ends by broadcasting the position once more.
LEMMA TellsLeads ==
  ASSUME Plain, NEW n \in Name, NEW rnd \in Media, NEW t, NEW l \in Seq(Item),
         NEW p \in Place, Edited(t, Store, n, l, p), NEW q \in Int,
         Fits => Len(l) <= MaxLen /\ Suits(n, l, p),
         Done(CurrPos(Updated(t, n, rnd), n, q, rnd))
  PROVE  \E s : Leads(s)
<1> DEFINE r == Updated(t, n, rnd)
           u == CurrPos(r, n, q, rnd)
<1>1. ChangedTo(r, n, l, p) /\ r \in Stores /\ r.mirror = r.list
  BY StoreChanges, Zenon
<1> HIDE DEF r
<1>2. Fits => Good(r)
  BY <1>1, StoreIs DEF ChangedTo, Changes
<1>3. Same(u) /\ (Good(r) => Good(u))
  BY <1>1, CurrPosEffect DEF Plain
<1>4. Done(u)
  BY DEF r
<1> QED
  BY <1>2, <1>3, <1>4 DEF Leads

LEMMA AfterMoveRange ==
  ASSUME NEW k \in Nat, NEW c \in Place, NEW p \in 0..k - 1, NEW q \in 0..k - 1
  PROVE  /\ AfterMove(c, p, q) \in Place
         /\ c <= k => AfterMove(c, p, q) <= k
         /\ AfterMove(c, p, q) = k => c = k
         /\ AfterMove(c, p, q) <= c \/ AfterMove(c, p, q) <= k
<1> DEFINE r == AfterMove(c, p, q)
<1>1. /\ q <= c /\ p > c => r = c + 1
      /\ ~(q <= c /\ p > c) /\ q >= c /\ p < c => r = c - 1
      /\ ~(q <= c /\ p > c) /\ ~(q >= c /\ p < c) /\ p = c => r = q
      /\ ~(q <= c /\ p > c) /\ ~(q >= c /\ p < c) /\ p # c => r = c
  <2>1. ~((q <= c /\ p > c) /\ (q >= c /\ p < c))
    BY DEF Place
  <2>2. ~((q <= c /\ p > c) /\ p = c) /\ ~((q >= c /\ p < c) /\ p = c)
    BY DEF Place
  <2> QED
    BY <2>1, <2>2, Zenon DEF AfterMove
<1> HIDE DEF r
<1>2. c \in Int /\ c >= -1
  BY DEF Place
<1>3. r \in Int /\ r >= -1 /\ (c <= k => r <= k) /\ (r = k => c = k)
      /\ (r <= c \/ r <= k)
  BY <1>1, <1>2
<1> QED
  BY <1>3 DEF r, Place

\* The fields of a store that was edited.
LEMMA SetFields ==
  ASSUME NEW s \in Stores, NEW n \in Name, NEW l \in Seq(Item), NEW p \in Place
  PROVE  /\ SetEntries(s, n, l).list[n] = l
         /\ SetEntries(s, n, l).position = s.position
         /\ SetAttr(SetEntries(s, n, l), n, p).list[n] = l
         /\ SetAttr(SetEntries(s, n, l), n, p).position[n] = p
<1> DEFINE e == SetEntries(s, n, l)
<1>1. e \in Stores /\ e.list = [s.list EXCEPT ![n] = l] /\ e.position = s.position
  BY DEF SetEntries, Stores
<1> HIDE DEF e
<1>2. SetAttr(e, n, p).list = e.list /\ SetAttr(e, n, p).position[n] = p
  BY <1>1 DEF SetAttr, Stores
<1>3. e.list[n] = l
  BY <1>1, StoreFields
<1> QED
  BY <1>1, <1>2, <1>3 DEF e

LEMMA MoveEntryLeads ==
  ASSUME Plain, NEW n \in Name, NEW p \in 0..MaxLen, NEW q \in 0..MaxLen,
         NEW rnd \in Media, MoveEntry(n, p, q, rnd)
  PROVE  \E s : Leads(s)
<1> DEFINE l == Moved(list[n], p, q)
           newpos == AfterMove(position[n], p, q)
           t == Told(SetAttr(SetEntries(Store, n, l), n, newpos), n, l)
<1>1. list[n] \in Seq(Item) /\ position[n] \in Int /\ position[n] >= -1
      /\ Len(list[n]) \in Nat
  BY DEF Plain, Place
<1>2. p \in 0..Len(list[n]) - 1 /\ q \in 0..Len(list[n]) - 1
  BY <1>1, SizesKnown DEF MoveEntry
<1>3. l \in Seq(Item) /\ Len(l) = Len(list[n])
  BY <1>1, <1>2, MovedType
<1>4. /\ newpos \in Place /\ newpos \in Int /\ newpos >= -1
      /\ position[n] <= Len(list[n]) => newpos <= Len(list[n])
      /\ newpos = Len(list[n]) => position[n] = Len(list[n])
      /\ newpos <= position[n] \/ newpos <= Len(list[n])
  <2>1. position[n] \in Place
    BY DEF Plain
  <2>2. /\ newpos \in Place
        /\ position[n] <= Len(list[n]) => newpos <= Len(list[n])
        /\ newpos = Len(list[n]) => position[n] = Len(list[n])
        /\ newpos <= position[n] \/ newpos <= Len(list[n])
    BY <1>1, <1>2, <2>1, AfterMoveRange
  <2> QED
    BY <2>2 DEF Place
<1>5. Done(CurrPos(Updated(t, n, rnd), n, newpos, rnd))
  <2>1. mirror = list
    BY DEF Plain
  <2> QED
    BY <2>1, Zenon DEF MoveEntry, Moved, Changed, Told
<1> HIDE DEF l, newpos
<1>6. Fits => Len(l) <= MaxLen /\ Suits(n, l, newpos)
  <2>1. ASSUME Fits PROVE Len(list[n]) <= MaxLen /\ Suits(n, list[n], position[n])
    BY <2>1, FitsStore
  <2> QED
    BY <1>1, <1>3, <1>4, <2>1, SizesKnown DEF Suits, Ranged
<1>7. Edited(t, Store, n, l, newpos)
  BY <1>3, <1>4, StoreIs, EditedFields
<1> HIDE DEF t
<1> QED
  BY <1>3, <1>4, <1>5, <1>6, <1>7, TellsLeads

LEMMA SortLeads ==
  ASSUME Plain, NEW n \in Name, NEW f \in Orders(Len(list[n])), NEW rnd \in Media,
         Sort(n, f, rnd)
  PROVE  \E s : Leads(s)
<1> DEFINE l == Reordered(list[n], f)
           currpos == position[n]
           place == CHOOSE i \in 1..Len(list[n]) : f[i] = currpos + 1
           newpos == IF currpos \in 0..Len(list[n]) - 1 THEN place - 1 ELSE currpos
           t == Told(SetAttr(SetEntries(Store, n, l), n, newpos), n, l)
<1>1. list[n] \in Seq(Item) /\ position[n] \in Int /\ position[n] >= -1
      /\ Len(list[n]) \in Nat
  BY DEF Plain, Place
<1>2. l \in Seq(Item) /\ Len(l) = Len(list[n])
  BY <1>1, ReorderedType
<1>3. currpos \in 0..Len(list[n]) - 1 => place \in 1..Len(list[n])
  <2>1. ASSUME currpos \in 0..Len(list[n]) - 1
        PROVE  \E i \in 1..Len(list[n]) : f[i] = currpos + 1
    <3>1. currpos + 1 \in 1..Len(list[n])
      BY <1>1, <2>1
    <3> QED
      BY <1>1, <3>1, OrderHasAll
  <2> QED
    BY <2>1, Zenon
<1>4. newpos \in Place /\ (Fits => Suits(n, l, newpos))
  <2> HIDE DEF place
  <2>1. Fits => Suits(n, list[n], position[n])
    BY FitsStore
  <2> HIDE DEF l
  <2>2. CASE currpos \in 0..Len(list[n]) - 1
    BY <1>1, <1>2, <1>3, <2>2, SizesKnown DEF Suits, Ranged, Place
  <2>3. CASE currpos \notin 0..Len(list[n]) - 1
    BY <1>1, <1>2, <2>1, <2>3 DEF Suits, Ranged, Place
  <2> QED
    BY <2>2, <2>3
<1>5. Done(CurrPos(Updated(t, n, rnd), n, currpos, rnd))
  <2> DEFINE s == SetAttr(SetEntries(Store, n, l), n, newpos)
  <2>1. Done(CurrPos(Changed(s, n, s.list[n], rnd), n, currpos, rnd))
    BY Zenon DEF Sort
  <2> HIDE DEF l, newpos
  <2>2. s.list[n] = l
    BY <1>2, <1>4, StoreIs, SetFields
  <2>3. Changed(s, n, l, rnd) = Updated(t, n, rnd)
    BY Zenon DEF Changed, Told
  <2> HIDE DEF s, t
  <2> QED
    BY <2>1, <2>2, <2>3
<1> HIDE DEF l, newpos
<1>6. Fits => Len(l) <= MaxLen
  BY <1>2, FitsStore
<1>7. Edited(t, Store, n, l, newpos)
  BY <1>2, <1>4, StoreIs, EditedFields
<1> HIDE DEF t
<1> QED
  BY <1>1, <1>2, <1>4, <1>5, <1>6, <1>7, TellsLeads

LEMMA ShuffleLeads ==
  ASSUME Plain, NEW n \in Name, NEW f \in Orders(Len(list[n])), NEW rnd \in Media,
         Shuffle(n, f, rnd)
  PROVE  \E s : Leads(s)
<1> DEFINE o == list[n]
           currpos == position[n]
           top == IF currpos < Len(o)
                  THEN [o EXCEPT ![1] = o[currpos + 1], ![currpos + 1] = o[1]]
                  ELSE [o EXCEPT ![1] = Garbage]
           s == IF Len(o) < 2 THEN Store
                ELSE IF currpos = -1 THEN SetEntries(Store, n, Reordered(o, f))
                ELSE SetAttr(SetEntries(Store, n, Reordered(top, f)), n, 0)
           t == Told(s, n, s.list[n])
<1>1. /\ o \in Seq(Item) /\ Len(o) \in Nat /\ 0 \in Place
      /\ currpos \in Place /\ currpos \in Int /\ currpos >= -1
  BY DEF Plain, Place
<1>2. Store \in Stores /\ Store.list[n] = o /\ Store.position[n] = currpos
  BY StoreIs
<1>3. Done(CurrPos(Updated(t, n, rnd), n, s.position[n], rnd))
  BY Zenon DEF Shuffle, Changed, Told
<1> HIDE DEF top
<1>4. CASE Len(o) < 2
  <2>1. s = Store
    BY <1>4
  <2> HIDE DEF s
  <2>2. Edited(t, Store, n, o, currpos)
    BY <1>1, <1>2, <2>1, EditedFields
  <2> HIDE DEF t
  <2>3. Fits => Len(o) <= MaxLen /\ Suits(n, o, currpos)
    BY FitsStore
  <2> QED
    BY <1>1, <1>2, <1>3, <2>1, <2>2, <2>3, TellsLeads
<1>5. CASE Len(o) >= 2 /\ currpos = -1
  <2> DEFINE l == Reordered(o, f)
  <2>1. s = SetEntries(Store, n, l)
    BY <1>1, <1>5
  <2>2. l \in Seq(Item) /\ Len(l) = Len(o)
    BY <1>1, ReorderedType
  <2> HIDE DEF s, l
  <2>3. s.list[n] = l /\ s.position[n] = currpos
    BY <1>1, <1>2, <2>1, <2>2, SetFields
  <2>4. Edited(t, Store, n, l, currpos)
    BY <1>1, <1>2, <2>1, <2>2, <2>3, EditedFields
  <2> HIDE DEF t
  <2>5. Fits => Len(l) <= MaxLen /\ Suits(n, l, currpos)
    <3>1. Fits => Len(o) <= MaxLen /\ Suits(n, o, currpos)
      BY FitsStore
    <3> QED
      BY <1>1, <2>2, <3>1 DEF Suits, Ranged
  <2> QED
    BY <1>1, <1>3, <2>2, <2>3, <2>4, <2>5, TellsLeads
<1>6. CASE Len(o) >= 2 /\ currpos # -1
  <2> DEFINE l == Reordered(top, f)
  <2>1. s = SetAttr(SetEntries(Store, n, l), n, 0)
    BY <1>1, <1>6
  <2>2. top \in Seq(Item) /\ Len(top) = Len(o)
    <3>1. CASE currpos < Len(o)
      <4>1. top = [o EXCEPT ![1] = o[currpos + 1], ![currpos + 1] = o[1]]
        BY <3>1 DEF top
      <4>2. currpos + 1 \in 1..Len(o) /\ 1 \in 1..Len(o)
        BY <1>1, <1>6, <3>1
      <4>3. o[currpos + 1] \in Item /\ o[1] \in Item
        BY <1>1, <4>2
      <4> QED
        BY <1>1, <4>1, <4>2, <4>3
    <3>2. CASE ~(currpos < Len(o))
      <4>1. top = [o EXCEPT ![1] = Garbage]
        BY <3>2 DEF top
      <4> QED
        BY <1>1, <1>6, <4>1 DEF Item
    <3> QED
      BY <3>1, <3>2
  <2>3. l \in Seq(Item) /\ Len(l) = Len(o)
    BY <2>2, ReorderedType
  <2> HIDE DEF s, l
  <2>4. s.list[n] = l /\ s.position[n] = 0
    BY <1>1, <1>2, <2>1, <2>3, SetFields
  <2>5. Edited(t, Store, n, l, 0)
    BY <1>1, <1>2, <2>1, <2>3, <2>4, EditedFields
  <2> HIDE DEF t
  <2>6. Fits => Len(l) <= MaxLen /\ Suits(n, l, 0)
    <3>1. Fits => Len(o) <= MaxLen
      BY FitsStore
    <3> QED
      BY <1>1, <1>6, <2>3, <3>1, SizesKnown DEF Suits, Ranged
  <2> QED
    BY <1>1, <1>3, <2>3, <2>4, <2>5, <2>6, TellsLeads
<1> QED
  BY <1>1, <1>4, <1>5, <1>6

LEMMA LoadLeads ==
  ASSUME Plain, NEW n \in Name, Load(n)
  PROVE  \E s : Leads(s)
<1> DEFINE r == [Store EXCEPT !.active = n]
<1>1. Done(r)
  BY DEF Load
<1>2. Same(r) /\ (Good(Store) => Good(r))
  BY StoreIs, JumpEffect
<1> HIDE DEF r
<1> QED
  BY <1>1, <1>2, StoreIs DEF Leads

\* The active playlist gets another position.
LEMMA GoesTo ==
  ASSUME Plain, NEW p \in Place, NEW rnd \in Media, Suits(active, list[active], p)
  PROVE  LET r == SetPosition(Store, active, p, rnd)
         IN  Same(r) /\ (Fits => Good(r))
<1> DEFINE r == SetPosition(Store, active, p, rnd)
<1>1. active \in Name /\ Settled
  BY DEF Plain
<1>2. Same(r) /\ (GoodBut(Store, active) /\ Handled(Store, active, p) => Good(r))
  BY <1>1, StoreIs, SetPositionEffect
<1>3. Handled(Store, active, p)
  BY StoreIs DEF Handled
<1>4. Fits => GoodBut(Store, active)
  BY StoreIs DEF Good, GoodBut
<1> HIDE DEF r
<1>5. Same(r) /\ (Fits => Good(r))
  BY <1>2, <1>3, <1>4
<1> QED
  BY <1>5 DEF r

LEMMA CurrentEntryLeads ==
  ASSUME Plain, NEW rnd \in Media, CurrentEntry(rnd)
  PROVE  \E s : Leads(s)
<1>1. list[active] \in Seq(Item) /\ list[active] # <<>>
  BY DEF Plain, CurrentEntry
<1>2. Suits(active, list[active], 0) /\ 0 \in Place
  BY <1>1, SizesKnown DEF Suits, Ranged, Place
<1>3. Done(SetPosition(Store, active, 0, rnd))
  BY DEF CurrentEntry
<1> QED
  BY <1>2, <1>3, GoesTo DEF Leads

LEMMA SetCurrentPositionLeads ==
  ASSUME Plain, NEW pos, NEW rnd \in Media, SetCurrentPosition(pos, rnd)
  PROVE  \E s : Leads(s)
<1> DEFINE size == Len(list[active])
           s == SetPosition(Store, active, 0, rnd)
           j == [s EXCEPT !.active = Jumplist[active]]
<1>1. size \in Nat
  BY DEF Plain
<1>2. CASE /\ pos = size /\ Jumplist[active] # NoList
           /\ Done(IF Jumplist[active] \in Name THEN j ELSE s)
  <2>1. Suits(active, list[active], 0) /\ 0 \in Place
    BY <1>1, <1>2, SizesKnown DEF Suits, Ranged, Place
  <2>2. Same(s) /\ (Fits => Good(s))
    BY <2>1, GoesTo
  <2> HIDE DEF s
  <2>3. Jumplist[active] \in Name => Same(j) /\ (Good(s) => Good(j))
    BY <2>2, JumpEffect DEF Same
  <2> HIDE DEF j
  <2> QED
    BY <1>2, <2>2, <2>3 DEF Leads
<1>3. CASE pos \in 0..size - 1 /\ Done(SetPosition(Store, active, pos, rnd))
  <2>1. Suits(active, list[active], pos) /\ pos \in Place
    BY <1>1, <1>3, SizesKnown DEF Suits, Ranged, Place
  <2> QED
    BY <1>3, <2>1, GoesTo DEF Leads
<1> QED
  BY <1>2, <1>3, Zenon DEF SetCurrentPosition

\* Nothing is trimmed from a playlist without current entry.
LEMMA RestartEffect ==
  ASSUME NEW t \in Stores, t.mirror = t.list, NEW n \in Name, NEW rnd \in Media,
         t.position[n] = -1
  PROVE  LET r == Updated(t, n, rnd)
         IN  /\ r.position = t.position /\ OthersKept(t, r, n)
             /\ Len(r.list[n]) >= Len(t.list[n])
<1> DEFINE u == Refill(t, n, rnd)
<1>1. Trim(t, n) = t
  BY SizesKnown, TrimNothing
<1>2. Updated(t, n, rnd) \in {t, u}
  BY <1>1 DEF Updated, Unless
<1>3. /\ u.position = t.position /\ OthersKept(t, u, n)
      /\ Len(u.list[n]) >= Len(t.list[n])
  BY RefillEffect
<1> HIDE DEF u
<1>4. Len(t.list[n]) \in Nat /\ OthersKept(t, t, n)
  BY EntryFields DEF OthersKept
<1> QED
  BY <1>2, <1>3, <1>4

\* What leaving the active playlist of store s makes of it.
LeftBehind(s, r) ==
  /\ Same(r) /\ r.active = s.active /\ Good(r)
  /\ \A m \in Name : r.list[m] = <<>> <=> s.list[m] = <<>>
  /\ \A m \in Name \ {s.active} : r.position[m] = s.position[m] /\ r.list[m] = s.list[m]
  /\ ~ IsEmpty(s) => r.position[s.active] = -1

LEMMA LeftEffect ==
  ASSUME Settled, NEW s \in Stores, s.mirror = s.list, Good(s), NEW rnd \in Media
  PROVE  LeftBehind(s, Abandoned(s, rnd))
<1>1. CASE IsEmpty(s)
  BY <1>1 DEF Abandoned, LeftBehind, Same
<1>2. CASE ~ IsEmpty(s)
  <2> DEFINE n == s.active
             a == SetAttr(s, n, -1)
             t == [a EXCEPT !.said[n] = -1]
             r == Updated(t, n, rnd)
  <2>1. n \in Name /\ -1 \in Place /\ -1 \in Int /\ s.hung = FALSE
    BY StoreFields DEF Place, Good, Roomy
  <2>2. /\ a \in Stores /\ a.list = s.list /\ a.mirror = s.mirror
        /\ a.position = [s.position EXCEPT ![n] = -1] /\ a.active = s.active
        /\ a.hung = s.hung
    BY <2>1 DEF SetAttr, Stores
  <2>3. SetPosition(s, n, -1, rnd) = Updated([a EXCEPT !.said[n] = -1], a.active, rnd)
    BY <2>1, <2>2, Zenon DEF SetPosition, CurrPos, Unless
  <2>4. Abandoned(s, rnd) = SetPosition(s, n, -1, rnd)
    BY <1>2 DEF Abandoned
  <2>5. Same(SetPosition(s, n, -1, rnd)) /\ Good(SetPosition(s, n, -1, rnd))
    <3>1. Suits(n, s.list[n], -1)
      BY <2>1, EntryFields, SizesKnown DEF Suits, Ranged
    <3>2. Handled(s, n, -1) /\ GoodBut(s, n)
      BY <3>1 DEF Handled, Good, GoodBut
    <3> QED
      BY <2>1, <3>2, SetPositionEffect
  <2> HIDE DEF a
  <2>6. /\ t \in Stores /\ t.list = s.list /\ t.mirror = t.list
        /\ t.position = a.position /\ t.active = s.active
    BY <2>1, <2>2, SaidFields
  <2> HIDE DEF t
  <2>7. /\ t.position[n] = -1
        /\ \A m \in Name \ {n} : t.position[m] = s.position[m]
    BY <2>1, <2>2, <2>6, StoreFields
  <2>8. /\ r.position = t.position /\ OthersKept(t, r, n)
        /\ Len(r.list[n]) >= Len(t.list[n])
    BY <2>1, <2>6, <2>7, RestartEffect
  <2>9. Abandoned(s, rnd) = r
    BY <2>2, <2>3, <2>4 DEF t
  <2> HIDE DEF r
  <2>10. r \in Stores /\ Same(r) /\ Good(r)
    BY <2>4, <2>5, <2>9 DEF Same
  <2>11. r.list[n] # <<>> /\ s.list[n] # <<>>
    <3>1. r.list[n] \in Seq(Item) /\ s.list[n] \in Seq(Item)
      BY <2>1, <2>10, EntryFields
    <3>2. s.list[n] # <<>>
      BY <1>2 DEF IsEmpty
    <3> QED
      BY <2>6, <2>8, <3>1, <3>2
  <2>12. LeftBehind(s, r)
    BY <2>6, <2>7, <2>8, <2>10, <2>11 DEF OthersKept, LeftBehind
  <2> QED
    BY <2>9, <2>12
<1> QED
  BY <1>1, <1>2

-----------------------------------------------------------------------------
(***************************************************************************)
(* Advancing: the calls of xmms_playlist_advance_do, one inside the other. *)
(***************************************************************************)

\* A call of xmms_playlist_advance_do works on a store like this one.
Calling(a) ==
  a.store \in Stores /\ a.store.mirror = a.store.list /\ Good(a.store)

\* The call jumps: it leaves the active playlist for its jumplist.
Jumps(a, b) ==
  LET n == a.store.active
  IN  /\ IsEmpty(a.store) \/ AtEnd(a.store)
      /\ Jumplist[n] \in Name /\ b.store.active = Jumplist[n]
      /\ \A m \in Name : b.store.list[m] = <<>> <=> a.store.list[m] = <<>>
      /\ \A m \in Name \ {n} : b.store.position[m] = a.store.position[m]
      /\ ~ IsEmpty(a.store) => b.store.position[n] = -1

Ends(left, n, answer) == [store |-> [left EXCEPT !.active = n], answer |-> answer]

LEMMA EndsFields ==
  ASSUME NEW s \in Stores, s.mirror = s.list, NEW n \in Name, NEW answer
  PROVE  /\ Ends(s, n, answer).answer = answer
         /\ Ends(s, n, answer).store \in Stores
         /\ Ends(s, n, answer).store.active = n
         /\ Ends(s, n, answer).store.list = s.list
         /\ Ends(s, n, answer).store.mirror = s.list
         /\ Ends(s, n, answer).store.position = s.position
         /\ Good(s) => Good(Ends(s, n, answer).store)
<1> DEFINE r == [s EXCEPT !.active = n]
<1>1. Ends(s, n, answer).answer = answer /\ Ends(s, n, answer).store = r
  BY DEF Ends
<1>2. /\ r \in Stores /\ r.active = n /\ r.list = s.list /\ r.mirror = s.list
      /\ r.position = s.position /\ r.hung = s.hung
  BY DEF Stores
<1> HIDE DEF r
<1>3. Good(s) => Good(r)
  BY <1>2 DEF Good, Roomy, Fine
<1> QED
  BY <1>1, <1>2, <1>3

Answered(s, answer) == [store |-> s, answer |-> answer]

LEMMA AnsweredFields ==
  ASSUME NEW s, NEW answer
  PROVE  Answered(s, answer).store = s /\ Answered(s, answer).answer = answer
BY DEF Answered

LEMMA RestRange ==
  ASSUME NEW x \in Int, NEW y \in Nat \ {0}
  PROVE  x % y \in 0..y - 1
OBVIOUS

LEMMA FollowingRange ==
  ASSUME NEW s \in Stores, ~ IsEmpty(s)
  PROVE  Following(s) \in 0..Len(s.list[s.active]) - 1
<1> DEFINE x == s.position[s.active] + 1
           y == Len(s.list[s.active])
<1>1. x \in Int /\ y \in Nat \ {0}
  <2>1. s.active \in Name
    BY StoreFields
  <2>2. s.list[s.active] \in Seq(Item) /\ s.position[s.active] \in Int
    BY <2>1, EntryFields
  <2> QED
    BY <2>2 DEF IsEmpty
<1>2. Following(s) = x % y
  BY Zenon DEF Following
<1> HIDE DEF x, y
<1>3. x % y \in 0..y - 1
  BY <1>1, RestRange
<1> QED
  BY <1>2, <1>3 DEF y

\* One call.
LEMMA AdvanceDoEffect ==
  ASSUME Plain, NEW a, Calling(a), NEW rnd \in Media
  PROVE  LET b == AdvanceDo(a, rnd)
         IN  /\ Calling(b)
             /\ b.answer = "none" => a.answer = "none" /\ Jumps(a, b)
<1> DEFINE s == a.store
           n == s.active
           left == Abandoned(s, rnd)
           next == SetPosition(s, n, Following(s), rnd)
           over == IsEmpty(s) \/ (AtEnd(s) /\ ~ repeat_all)
           b == AdvanceDo(a, rnd)
<1> SUFFICES Calling(b) /\ (b.answer = "none" => a.answer = "none" /\ Jumps(a, b))
  OBVIOUS
<1>1. \/ a.answer # "none" /\ b = a
      \/ b = Answered(s, "true")
      \/ /\ a.answer = "none" /\ over /\ Jumplist[n] \in Name
         /\ b = Ends(left, Jumplist[n], "none")
      \/ b = Answered(left, "false")
      \/ b = Answered(s, "false")
      \/ /\ ~ IsEmpty(s)
         /\ b = Answered(next, "true") \/ b = Answered(next, "false")
  BY Zenon DEF AdvanceDo, Answered, Ends
<1>2. s \in Stores /\ s.mirror = s.list /\ Good(s) /\ Settled
  BY DEF Calling, Plain
<1>3. n \in Name
  BY <1>2, StoreFields
<1>4. /\ left \in Stores /\ left.mirror = left.list /\ left.active = n
      /\ Good(left)
      /\ \A m \in Name : left.list[m] = <<>> <=> s.list[m] = <<>>
      /\ \A m \in Name \ {n} : left.position[m] = s.position[m]
      /\ ~ IsEmpty(s) => left.position[n] = -1
  <2>1. LeftBehind(s, left)
    BY <1>2, LeftEffect
  <2> HIDE DEF left
  <2> QED
    BY <2>1 DEF LeftBehind, Same
<1>5. ASSUME ~ IsEmpty(s)
      PROVE  next \in Stores /\ next.mirror = next.list /\ Good(next)
  <2> DEFINE p == Following(s)
  <2>1. p \in 0..Len(s.list[n]) - 1
    BY <1>2, <1>5, FollowingRange
  <2> HIDE DEF p
  <2>2. p \in Place /\ Suits(n, s.list[n], p)
    <3> DEFINE k == Len(s.list[n])
    <3>1. k \in Nat
      BY <1>2, <1>3, EntryFields
    <3> HIDE DEF k, n
    <3>2. p \in Nat /\ p <= k /\ p # k /\ p <= History + k
      BY <2>1, <3>1, SizesKnown DEF k
    <3>3. p \in -1..k
      BY <3>1, <3>2
    <3> QED
      BY <3>2, <3>3 DEF Place, Suits, Ranged, k
  <2>3. Handled(s, n, p)
    BY <2>2 DEF Handled
  <2>4. GoodBut(s, n)
    BY <1>2 DEF Good, GoodBut
  <2>5. LET r == SetPosition(s, n, p, rnd)
        IN  r \in Stores /\ r.mirror = r.list /\ Good(r)
    BY <1>2, <1>3, <2>2, <2>3, <2>4, SetPositionEffect DEF Same
  <2> QED
    BY <2>5 DEF p
<1> HIDE DEF left, next, b
<1>6. CASE a.answer # "none" /\ b = a
  BY <1>6
<1>7. CASE \E r \in {s, left}, w \in {"true", "false"} : b = Answered(r, w)
  BY <1>2, <1>4, <1>7, AnsweredFields DEF Calling
<1>8. CASE /\ ~ IsEmpty(s)
           /\ b = Answered(next, "true") \/ b = Answered(next, "false")
  BY <1>2, <1>5, <1>8, AnsweredFields DEF Calling
<1>9. CASE /\ a.answer = "none" /\ over /\ Jumplist[n] \in Name
           /\ b = Ends(left, Jumplist[n], "none")
  <2>1. /\ b.store \in Stores /\ b.store.active = Jumplist[n]
        /\ b.store.list = left.list /\ b.store.mirror = left.list
        /\ b.store.position = left.position
        /\ Good(left) => Good(b.store)
    BY <1>4, <1>9, EndsFields
  <2>2. Calling(b)
    BY <1>2, <1>4, <2>1 DEF Calling
  <2>3. Jumps(a, b)
    BY <1>4, <1>9, <2>1 DEF Jumps
  <2> QED
    BY <1>9, <2>2, <2>3
<1> QED
  BY <1>1, <1>6, <1>7, <1>8, <1>9

\* The first m calls of xmms_playlist_advance_do, and the start.
IsCalls(f, rnd, m) ==
  f = [i \in 0..m |-> IF i = 0 THEN Answered(Store, "none")
                      ELSE AdvanceDo(f[i - 1], rnd)]

LEMMA CallsExist ==
  ASSUME NEW rnd, NEW m \in Nat
  PROVE  \E f : IsCalls(f, rnd, m)
<1> DEFINE S == {k \in Nat : ~ \E f : IsCalls(f, rnd, k)}
<1>1. SUFFICES ASSUME S # {} PROVE FALSE
  OBVIOUS
<1>2. PICK k \in S : \A i \in S : k <= i
  BY <1>1, Least
<1>3. CASE k = 0
  <2> DEFINE f == [i \in 0..0 |-> Answered(Store, "none")]
  <2>1. IsCalls(f, rnd, 0)
    BY DEF IsCalls
  <2> QED
    BY <1>2, <1>3, <2>1
<1>4. CASE k # 0
  <2>1. k \in Nat /\ k - 1 \in Nat /\ k - 1 \notin S
    BY <1>2, <1>4
  <2>2. PICK f : IsCalls(f, rnd, k - 1)
    BY <2>1
  <2> DEFINE g == [i \in 0..k |-> IF i = k THEN AdvanceDo(f[k - 1], rnd) ELSE f[i]]
  <2>3. ASSUME NEW i \in 0..k
        PROVE  g[i] = IF i = 0 THEN Answered(Store, "none") ELSE AdvanceDo(g[i - 1], rnd)
    <3>1. CASE i = k
      BY <2>1, <3>1
    <3>2. CASE i # k
      <4>1. i \in 0..k - 1 /\ i \in 0..k /\ (i # 0 => i - 1 \in 0..k /\ i - 1 # k)
        BY <2>1, <3>2
      <4>2. f[i] = IF i = 0 THEN Answered(Store, "none") ELSE AdvanceDo(f[i - 1], rnd)
        BY <2>2, <4>1, Zenon DEF IsCalls
      <4>3. g[i] = f[i] /\ (i # 0 => g[i - 1] = f[i - 1])
        BY <3>2, <4>1
      <4> HIDE DEF g
      <4> QED
        BY <4>2, <4>3
    <3> QED
      BY <3>1, <3>2
  <2>4. g = [i \in 0..k |-> g[i]]
    OBVIOUS
  <2> HIDE DEF g
  <2>5. IsCalls(g, rnd, k)
    BY <2>3, <2>4 DEF IsCalls
  <2> QED
    BY <1>2, <2>5
<1> QED
  BY <1>3, <1>4

LEMMA AdvanceCallsType == AdvanceCalls \in Nat /\ Cardinality(Name) \in Nat
BY NameAssumption, FS_CardinalityType DEF AdvanceCalls

LEMMA AdvancedIs ==
  ASSUME NEW rnd
  PROVE  \E f : IsCalls(f, rnd, AdvanceCalls) /\ Advanced(rnd) = f[AdvanceCalls]
<1> DEFINE call[i \in 0..AdvanceCalls] ==
             IF i = 0 THEN [store |-> Store, answer |-> "none"]
             ELSE AdvanceDo(call[i - 1], rnd)
<1>1. \E f : IsCalls(f, rnd, AdvanceCalls)
  BY AdvanceCallsType, CallsExist
<1>2. call = [i \in 0..AdvanceCalls |->
                IF i = 0 THEN [store |-> Store, answer |-> "none"]
                ELSE AdvanceDo(call[i - 1], rnd)]
  BY <1>1, Zenon DEF IsCalls, Answered
<1>3. Advanced(rnd) = call[AdvanceCalls]
  BY Zenon DEF Advanced
<1> HIDE DEF call
<1>4. IsCalls(call, rnd, AdvanceCalls)
  BY <1>2, Zenon DEF IsCalls, Answered
<1> QED
  BY <1>3, <1>4

\* Every call works on a store like that of the first; one that calls again
\* jumped.
LEMMA CallsEffect ==
  ASSUME Plain, Fits, NEW rnd \in Media, NEW m \in Nat, NEW f, IsCalls(f, rnd, m)
  PROVE  /\ f[0] = Answered(Store, "none")
         /\ \A i \in 0..m : Calling(f[i])
         /\ \A i \in 0..m - 1 :
              f[i + 1].answer = "none" => f[i].answer = "none" /\ Jumps(f[i], f[i + 1])
<1>1. f[0] = Answered(Store, "none")
  BY DEF IsCalls
<1>2. ASSUME NEW i \in 0..m - 1 PROVE f[i + 1] = AdvanceDo(f[i], rnd)
  <2>1. i + 1 \in 0..m /\ i + 1 # 0 /\ (i + 1) - 1 = i
    OBVIOUS
  <2>2. f[i + 1] = AdvanceDo(f[(i + 1) - 1], rnd)
    BY <2>1, Zenon DEF IsCalls
  <2> QED
    BY <2>1, <2>2
<1>3. \A i \in 0..m : Calling(f[i])
  <2> DEFINE S == {i \in 0..m : ~ Calling(f[i])}
  <2>1. SUFFICES ASSUME S # {} PROVE FALSE
    OBVIOUS
  <2>2. S \subseteq Nat
    OBVIOUS
  <2>3. PICK k \in S : \A i \in S : k <= i
    BY <2>1, <2>2, Least
  <2>4. CASE k = 0
    <3>1. Calling(Answered(Store, "none"))
      BY StoreIs, AnsweredFields DEF Calling
    <3> QED
      BY <1>1, <2>3, <2>4, <3>1
  <2>5. CASE k # 0
    <3>1. k - 1 \in 0..m - 1 /\ k - 1 \in 0..m /\ (k - 1) + 1 = k /\ k - 1 \notin S
      BY <2>3, <2>5
    <3>2. Calling(f[k - 1])
      BY <3>1
    <3>3. f[k] = AdvanceDo(f[k - 1], rnd)
      BY <1>2, <3>1
    <3>4. Calling(AdvanceDo(f[k - 1], rnd))
      BY <3>2, AdvanceDoEffect
    <3> QED
      BY <2>3, <3>3, <3>4
  <2> QED
    BY <2>4, <2>5
<1>4. ASSUME NEW i \in 0..m - 1, f[i + 1].answer = "none"
      PROVE  f[i].answer = "none" /\ Jumps(f[i], f[i + 1])
  <2>1. Calling(f[i])
    BY <1>3
  <2>2. LET b == AdvanceDo(f[i], rnd)
        IN  b.answer = "none" => f[i].answer = "none" /\ Jumps(f[i], b)
    BY <2>1, AdvanceDoEffect
  <2> QED
    BY <1>2, <1>4, <2>2
<1> QED
  BY <1>1, <1>3, <1>4

LEMMA AdvanceLeads ==
  ASSUME Plain, Fits, NEW answer, NEW rnd \in Media, Advance(answer, rnd)
  PROVE  \E s : Leads(s)
<1>1. PICK f : IsCalls(f, rnd, AdvanceCalls) /\ Advanced(rnd) = f[AdvanceCalls]
  BY AdvancedIs
<1>2. Calling(f[AdvanceCalls])
  BY <1>1, AdvanceCallsType, CallsEffect
<1>3. Done(f[AdvanceCalls].store)
  BY <1>1 DEF Advance
<1> QED
  BY <1>2, <1>3 DEF Leads, Calling, Same

-----------------------------------------------------------------------------
(***************************************************************************)
(* Calls that do not end: a playlist with entries that is left has no      *)
(* current entry, so when it is reached again the call ends there.  The    *)
(* playlists that come again are empty.                                    *)
(***************************************************************************)

Circle ==
  \E C \in (SUBSET Name) \ {{}} : \A n \in C : list[n] = <<>> /\ Jumplist[n] \in C

\* More values than playlists: one comes twice.
LEMMA ComesTwice ==
  ASSUME NEW g \in [0..Cardinality(Name) -> Name]
  PROVE  \E i, j \in 0..Cardinality(Name) : i < j /\ g[i] = g[j]
<1> DEFINE K == Cardinality(Name)
<1>1. K \in Nat /\ IsFiniteSet(Name)
  BY AdvanceCallsType, NameAssumption
<1>2. IsFiniteSet(0..K) /\ Cardinality(0..K) = K + 1
  <2> HIDE DEF K
  <2>1. 0 \in Int /\ K \in Int /\ ~(0 > K) /\ K - 0 + 1 = K + 1
    BY <1>1
  <2>2. /\ IsFiniteSet(0..K)
        /\ Cardinality(0..K) = IF 0 > K THEN 0 ELSE K - 0 + 1
    BY <2>1, FS_Interval, Zenon
  <2> QED
    BY <2>1, <2>2
<1>3. Cardinality(Name) < Cardinality(0..K)
  BY <1>1, <1>2
<1>4. PICK i, j \in 0..K : i # j /\ g[i] = g[j]
  BY <1>1, <1>2, <1>3, FS_PigeonHole
<1> QED
  BY <1>1, <1>4

\* Calls that do not end go round a circle of empty playlists.
LEMMA CircleOfCalls ==
  ASSUME Plain, Fits, NEW rnd \in Media, Advanced(rnd).answer = "none"
  PROVE  /\ Circle
         /\ Calling(Advanced(rnd))
         /\ \A n \in Name : Advanced(rnd).store.list[n] = <<>> <=> list[n] = <<>>
<1> DEFINE K == Cardinality(Name)
           N == AdvanceCalls
<1>1. K \in Nat /\ N = 2 * K + 1 /\ N \in Nat
  BY AdvanceCallsType DEF AdvanceCalls
<1>2. PICK f : IsCalls(f, rnd, N) /\ Advanced(rnd) = f[N]
  BY AdvancedIs
<1> HIDE DEF K, N
<1>3. /\ f[0] = Answered(Store, "none") /\ f[N].answer = "none"
      /\ \A i \in 0..N : Calling(f[i])
      /\ \A i \in 0..N - 1 :
           f[i + 1].answer = "none" => f[i].answer = "none" /\ Jumps(f[i], f[i + 1])
  BY <1>1, <1>2, CallsEffect
<1>4. \A i \in 0..N - 1 : Jumps(f[i], f[i + 1])
  <2> DEFINE S == {k \in 0..N : \A i \in k..N : f[i].answer = "none"}
  <2>1. N \in S /\ S \subseteq Nat
    BY <1>1, <1>3
  <2>2. PICK k \in S : \A i \in S : k <= i
    BY <2>1, Least
  <2>3. k = 0
    <3>1. SUFFICES ASSUME k # 0 PROVE FALSE
      OBVIOUS
    <3>2. k \in 0..N /\ k - 1 \in 0..N - 1 /\ (k - 1) + 1 = k /\ f[k].answer = "none"
      BY <1>1, <2>2, <3>1
    <3>3. f[k - 1].answer = "none"
      BY <1>3, <3>2
    <3>4. \A i \in k - 1..N : i = k - 1 \/ i \in k..N
      BY <1>1, <3>2
    <3>5. k - 1 \in S
      BY <1>1, <2>2, <3>2, <3>3, <3>4
    <3> QED
      BY <2>2, <3>2, <3>5
  <2>4. \A i \in 0..N : f[i].answer = "none"
    BY <2>2, <2>3
  <2> QED
    BY <1>1, <1>3, <2>4
<1> DEFINE at(i) == f[i].store.active
           was(i, n) == f[i].store.list[n]
           pos(i, n) == f[i].store.position[n]
<1>5. ASSUME NEW i \in 0..N PROVE at(i) \in Name
  BY <1>3, <1>5, StoreFields DEF Calling
<1>6. ASSUME NEW i \in 0..N - 1
      PROVE  /\ was(i, at(i)) = <<>> \/ pos(i, at(i)) + 1 = Len(was(i, at(i)))
             /\ at(i + 1) = Jumplist[at(i)]
             /\ \A n \in Name : was(i + 1, n) = <<>> <=> was(i, n) = <<>>
             /\ \A n \in Name \ {at(i)} : pos(i + 1, n) = pos(i, n)
             /\ was(i, at(i)) # <<>> => pos(i + 1, at(i)) = -1
  <2>1. Jumps(f[i], f[i + 1])
    BY <1>4
  <2> QED
    BY <2>1 DEF Jumps, IsEmpty, AtEnd
<1>7. ASSUME NEW n \in Name PROVE \A i \in 0..N : was(i, n) = <<>> <=> list[n] = <<>>
  <2> DEFINE S == {i \in 0..N : ~(was(i, n) = <<>> <=> list[n] = <<>>)}
  <2>1. SUFFICES ASSUME S # {} PROVE FALSE
    OBVIOUS
  <2>2. S \subseteq Nat
    BY <1>1
  <2>3. PICK k \in S : \A i \in S : k <= i
    BY <2>1, <2>2, Least
  <2>4. was(0, n) = list[n]
    BY <1>3, StoreIs, AnsweredFields
  <2>5. k # 0 /\ k - 1 \in 0..N - 1 /\ (k - 1) + 1 = k
    BY <1>1, <2>3, <2>4
  <2>6. was(k, n) = <<>> <=> was(k - 1, n) = <<>>
    BY <1>6, <2>5
  <2>7. k - 1 \in S /\ k - 1 < k
    BY <1>1, <2>3, <2>5, <2>6
  <2> QED
    BY <2>3, <2>7
\* A playlist that is reached twice is empty.
<1>8. ASSUME NEW i \in 0..N - 1, NEW j \in 0..N - 1, i < j, at(i) = at(j)
      PROVE  list[at(i)] = <<>>
  <2> DEFINE n == at(i)
  <2>1. SUFFICES ASSUME list[n] # <<>> PROVE FALSE
    OBVIOUS
  <2>2. n \in Name /\ i \in 0..N /\ j \in 0..N
    BY <1>1, <1>5
  <2> HIDE DEF n
  <2>3. \A k \in 0..N : was(k, n) # <<>>
    BY <1>7, <2>1, <2>2
  <2>4. \A k \in i + 1..j : pos(k, n) = -1
    <3> DEFINE S == {k \in i + 1..j : pos(k, n) # -1}
    <3>1. SUFFICES ASSUME S # {} PROVE FALSE
      OBVIOUS
    <3>2. S \subseteq Nat
      BY <1>1
    <3>3. PICK k \in S : \A l \in S : k <= l
      BY <3>1, <3>2, Least
    <3>4. k - 1 \in 0..N - 1 /\ (k - 1) + 1 = k /\ k - 1 \in 0..N
      BY <1>1, <3>3
    <3>5. CASE at(k - 1) = n
      <4>1. pos(k, n) = -1
        BY <1>6, <2>3, <3>4, <3>5
      <4> QED
        BY <3>3, <4>1
    <3>6. CASE at(k - 1) # n
      <4>1. pos(k, n) = pos(k - 1, n)
        BY <1>6, <2>2, <3>4, <3>6
      <4>2. k # i + 1
        BY <1>1, <3>6 DEF n
      <4>3. k - 1 \in S /\ k - 1 < k
        BY <1>1, <3>3, <4>1, <4>2
      <4> QED
        BY <3>3, <4>3
    <3> QED
      BY <3>5, <3>6
  <2>5. pos(j, n) = -1
    BY <1>1, <1>8, <2>4
  <2>6. at(j) = n
    BY <1>8 DEF n
  <2>7. was(j, n) # <<>> /\ -1 + 1 = Len(was(j, n))
    BY <1>6, <2>2, <2>3, <2>5, <2>6
  <2>8. was(j, n) \in Seq(Item)
    BY <1>3, <2>2, EntryFields DEF Calling
  <2> QED
    BY <2>7, <2>8
<1>9. PICK i, j \in 0..K : i < j /\ at(i) = at(j)
  <2> DEFINE g == [k \in 0..K |-> at(k)]
  <2>1. g \in [0..K -> Name]
    BY <1>1, <1>5
  <2>2. \E i, j \in 0..K : i < j /\ g[i] = g[j]
    <3> HIDE DEF g
    <3> QED
      BY <2>1, ComesTwice DEF K
  <2> QED
    BY <2>2
<1> DEFINE d == j - i
<1>10. d \in Nat /\ d > 0 /\ i \in Nat /\ j \in Nat /\ j = i + d /\ i + d + d < N
  BY <1>1, <1>9
<1> HIDE DEF d
<1>11. \A k \in i..j : at(k + d) = at(k)
  <2> DEFINE S == {k \in i..j : at(k + d) # at(k)}
  <2>1. SUFFICES ASSUME S # {} PROVE FALSE
    OBVIOUS
  <2>2. S \subseteq Nat
    BY <1>10
  <2>3. PICK k \in S : \A l \in S : k <= l
    BY <2>1, <2>2, Least
  <2>4. k # i
    BY <1>9, <1>10, <2>3
  <2>5. /\ k - 1 \in 0..N - 1 /\ (k - 1) + 1 = k /\ k - 1 \in i..j /\ k - 1 < k
        /\ (k - 1) + d \in 0..N - 1 /\ ((k - 1) + d) + 1 = k + d
    BY <1>1, <1>10, <2>3, <2>4
  <2>6. at((k - 1) + d) = at(k - 1)
    BY <2>3, <2>5
  <2>7. at(k) = Jumplist[at(k - 1)] /\ at(k + d) = Jumplist[at((k - 1) + d)]
    BY <1>6, <2>5
  <2> QED
    BY <2>3, <2>6, <2>7
<1> DEFINE C == {at(k) : k \in i..j - 1}
<1>12. ASSUME NEW k \in i..j - 1
       PROVE  /\ at(k) \in Name /\ list[at(k)] = <<>>
              /\ Jumplist[at(k)] \in C
  <2>1. /\ k \in i..j /\ k \in 0..N - 1 /\ k \in 0..N /\ k + d \in 0..N - 1 /\ k < k + d
        /\ k + 1 \in i..j - 1 \/ k + 1 = j
        /\ i \in i..j - 1
    BY <1>1, <1>10
  <2>2. list[at(k)] = <<>>
    BY <1>8, <1>11, <2>1
  <2>3. Jumplist[at(k)] = at(k + 1)
    BY <1>6, <2>1
  <2>4. at(k + 1) \in C
    BY <1>9, <2>1
  <2> QED
    BY <1>5, <2>1, <2>2, <2>3, <2>4
<1>13. at(i) \in C
  BY <1>10
<1>14. C \in (SUBSET Name) \ {{}} /\ \A n \in C : list[n] = <<>> /\ Jumplist[n] \in C
  BY <1>12, <1>13
<1>15. Circle
  BY <1>14 DEF Circle
<1>16. Calling(Advanced(rnd)) /\ N \in 0..N
  BY <1>1, <1>2, <1>3
<1>17. \A n \in Name : Advanced(rnd).store.list[n] = <<>> <=> list[n] = <<>>
  BY <1>2, <1>7, <1>16
<1> QED
  BY <1>15, <1>16, <1>17

\* Advancing round such a circle changes nothing about it.
LEMMA HangsOn ==
  ASSUME Plain, Fits, NEW rnd \in Media, AdvanceHangs(rnd)
  PROVE  Plain' /\ Sound' /\ Circle'
<1> DEFINE g == Advanced(rnd).store
           s == [g EXCEPT !.hung = TRUE]
<1>1. Advanced(rnd).answer = "none" /\ Returns(s, late)
  BY DEF AdvanceHangs, Done
<1>2. /\ Circle /\ Calling(Advanced(rnd))
      /\ \A n \in Name : g.list[n] = <<>> <=> list[n] = <<>>
  BY <1>1, CircleOfCalls
<1>3. g \in Stores /\ g.mirror = g.list /\ Good(g)
  BY <1>2 DEF Calling
<1> HIDE DEF g
<1>4. /\ s \in Stores /\ s.mirror = s.list /\ s.list = g.list
      /\ s.position = g.position
  BY <1>3 DEF Stores
<1> HIDE DEF s
<1>5. late \in SUBSET Name /\ \A m \in late : Kinds[m] # "list"
  BY DEF Plain, Settled
<1>6. Plain'
  BY <1>1, <1>4, <1>5, PlainOn
<1>7. Sound'
  BY <1>1, <1>3, <1>4, FineOn DEF Good, Roomy, Fine
<1>8. Circle'
  BY <1>1, <1>2, <1>4 DEF Circle, Returns, Jumplist
<1> QED
  BY <1>6, <1>7, <1>8

-----------------------------------------------------------------------------
(***************************************************************************)
(* What an update does to the current entry and to the broadcasts.         *)
(***************************************************************************)

Inside(s, n) == s.position[n] \in 0..Len(s.list[n]) - 1

Current(s, n) == s.list[n][s.position[n] + 1]

\* The current entry stays the current one.
Keeps(s, r, n) == Inside(s, n) => Inside(r, n) /\ Current(r, n) = Current(s, n)

\* The position stays, and entries are added behind the list at most.
Grows(s, r, n) ==
  /\ r.position[n] = s.position[n] /\ Len(r.list[n]) >= Len(s.list[n])
  /\ \A i \in 1..Len(s.list[n]) : r.list[n][i] = s.list[n][i]

\* A position that is changed is broadcast.
Tells(s, r, n) ==
  \/ r.position[n] = s.position[n] /\ r.said[n] = s.said[n]
  \/ r.said[n] = r.position[n]

LEMMA GrowsKeeps ==
  ASSUME NEW s \in Stores, NEW r \in Stores, NEW n \in Name, Grows(s, r, n)
  PROVE  Keeps(s, r, n)
<1>1. /\ s.position[n] \in Int /\ Len(s.list[n]) \in Nat /\ Len(r.list[n]) \in Nat
  BY EntryFields
<1>2. SUFFICES ASSUME Inside(s, n) PROVE Inside(r, n) /\ Current(r, n) = Current(s, n)
  BY DEF Keeps
<1>3. s.position[n] + 1 \in 1..Len(s.list[n])
  BY <1>1, <1>2 DEF Inside
<1>4. Inside(r, n)
  BY <1>1, <1>2 DEF Inside, Grows
<1> QED
  BY <1>3, <1>4 DEF Grows, Current

LEMMA KeepsOn ==
  ASSUME NEW s, NEW t, NEW r, NEW n, Keeps(s, t, n), Keeps(t, r, n)
  PROVE  Keeps(s, r, n)
BY DEF Keeps

LEMMA TrimKeeps ==
  ASSUME NEW s \in Stores, s.mirror = s.list, NEW n \in Name, NEW m \in Name
  PROVE  /\ Keeps(s, Trim(s, n), m) /\ Tells(s, Trim(s, n), m)
         /\ Trim(s, n).said \in [Name -> Int]
<1> DEFINE k == s.position[n] - History
<1>1. /\ k \in Int /\ s.position[n] \in Int /\ Len(s.list[n]) \in Nat
      /\ s.list[n] \in Seq(Item) /\ History \in Int /\ History >= 0
  BY EntryFields, SizesKnown
<1>2. Trim(s, n) \in Stores /\ OthersKept(s, Trim(s, n), n)
  BY TrimSame DEF Same
<1>3. CASE k <= 0
  <2>1. Trim(s, n) = s
    BY <1>3 DEF Trim
  <2> QED
    BY <1>2, <2>1, StoreFields DEF Keeps, Tells
<1>4. CASE s.position[n] > History + Len(s.list[n])
  <2> DEFINE r == Trim(s, n)
  <2>1. /\ r.position[n] = s.position[n] - Len(s.list[n])
        /\ r.said[n] = r.position[n] \/ (r.said = s.said /\ Len(s.list[n]) = 0)
        /\ r.said \in [Name -> Int]
        /\ \A x \in Name \ {n} : r.said[x] = s.said[x]
    BY <1>4, TrimHangs
  <2> HIDE DEF r
  <2>2. ~ Inside(s, n)
    BY <1>1, <1>4 DEF Inside
  <2>3. Tells(s, r, n)
    BY <1>1, <2>1 DEF Tells
  <2>4. ASSUME m # n PROVE Keeps(s, r, m) /\ Tells(s, r, m)
    BY <1>2, <2>1, <2>4 DEF OthersKept, Keeps, Inside, Current, Tells, r
  <2>5. Keeps(s, r, m) /\ Tells(s, r, m)
    BY <2>2, <2>3, <2>4 DEF Keeps
  <2> QED
    BY <2>1, <2>5 DEF r
<1>5. CASE ~(k <= 0) /\ s.position[n] <= History + Len(s.list[n])
  <2> DEFINE l == SubSeq(s.list[n], k + 1, Len(s.list[n]))
             r == Trim(s, n)
  <2>1. /\ r.list = [s.list EXCEPT ![n] = l]
        /\ r.position = [s.position EXCEPT ![n] = History]
        /\ r.said = [s.said EXCEPT ![n] = History]
    <3>1. s.position[n] > History
      BY <1>1, <1>5
    <3> QED
      BY <1>5, <3>1, TrimIs
  <2>2. /\ l \in Seq(Item) /\ Len(l) = Len(s.list[n]) - k
        /\ \A i \in 1..Len(s.list[n]) - k : l[i] = s.list[n][k + i]
    <3>1. k + 1 \in 1..Len(s.list[n]) + 1
      BY <1>1, <1>5
    <3> HIDE DEF k
    <3> QED
      BY <1>1, <3>1
  <2> HIDE DEF l, r
  <2>4. /\ r.list[n] = l /\ r.position[n] = History /\ r.said[n] = History
        /\ \A j \in Name \ {n} : r.list[j] = s.list[j] /\ r.position[j] = s.position[j]
                                /\ r.said[j] = s.said[j]
        /\ r.said \in [Name -> Int]
    BY <1>1, <2>1, StoreFields
  <2>5. CASE m = n
    <3>1. ASSUME Inside(s, n) PROVE Inside(r, n) /\ Current(r, n) = Current(s, n)
      <4>1. History + 1 \in 1..Len(s.list[n]) - k /\ k + (History + 1) = s.position[n] + 1
        <5> DEFINE a == Len(s.list[n])
                   b == s.position[n]
        <5>1. /\ a \in Nat /\ b \in Int /\ k = b - History /\ History \in Nat
              /\ ~(k <= 0) /\ b \in 0..a - 1
          BY <1>1, <1>5, <3>1, SizesKnown DEF Inside
        <5> HIDE DEF a, b, k
        <5>2. History + 1 \in 1..a - k /\ k + (History + 1) = b + 1
          BY <5>1
        <5> QED
          BY <5>2 DEF a, b
      <4>2. l[History + 1] = s.list[n][k + (History + 1)]
        BY <2>2, <4>1
      <4>3. Inside(r, n)
        BY <1>1, <2>2, <2>4, <4>1 DEF Inside
      <4> HIDE DEF k
      <4> QED
        BY <2>4, <4>1, <4>2, <4>3 DEF Current
    <3> QED
      BY <2>4, <2>5, <3>1 DEF Keeps, Tells, r
  <2>6. CASE m # n
    BY <2>4, <2>6 DEF Keeps, Inside, Current, Tells, r
  <2> QED
    BY <2>4, <2>5, <2>6 DEF r
<1>6. \/ k <= 0
      \/ s.position[n] > History + Len(s.list[n])
      \/ ~(k <= 0) /\ s.position[n] <= History + Len(s.list[n])
  BY <1>1
<1> QED
  BY <1>3, <1>4, <1>5, <1>6

LEMMA RefillGrows ==
  ASSUME NEW s \in Stores, s.mirror = s.list, NEW n \in Name, NEW rnd \in Media,
         NEW m \in Name
  PROVE  Grows(s, Refill(s, n, rnd), m) /\ Refill(s, n, rnd).said = s.said
<1> DEFINE wanted == s.position[n] + 1 + Upcoming - Len(s.list[n])
           k == IF rnd = NoMedia \/ wanted < 0 THEN 0 ELSE wanted
           l == s.list[n] \o Repeated(rnd, k)
           v == s.mirror[n] \o Repeated(rnd, k)
           r == Refill(s, n, rnd)
<1>1. /\ s.position[n] \in Int /\ Len(s.list[n]) \in Nat /\ s.list[n] \in Seq(Item)
      /\ Upcoming \in Nat
  BY EntryFields, SizesKnown
<1>2. k \in Nat
  <2> HIDE DEF r, l, v, k
  <2>1. wanted \in Int
    <3> DEFINE x == s.position[n]
               y == Len(s.list[n])
    <3>1. x \in Int /\ y \in Nat /\ Upcoming \in Nat
      BY <1>1
    <3> HIDE DEF x, y
    <3>2. x + 1 + Upcoming - y \in Int
      BY <3>1
    <3> QED
      BY <3>2 DEF x, y
  <2> HIDE DEF wanted
  <2> USE DEF k
  <2> QED
    BY <2>1
<1>3. k > 0 => rnd \in Item
  BY DEF Media, Item
<1>4. r = [s EXCEPT !.list[n] = l, !.mirror[n] = v]
  BY DEF Refill
<1>5. \A i \in 1..Len(s.list[n]) : l[i] = s.list[n][i]
  <2> HIDE DEF k
  <2>1. Repeated(rnd, k) \in Seq(Item)
    BY <1>2, <1>3, RepeatedType
  <2> DEFINE x == s.list[n]
             y == Repeated(rnd, k)
  <2>2. x \in Seq(Item) /\ y \in Seq(Item)
    BY <1>1, <2>1
  <2> HIDE DEF x, y
  <2>3. \A i \in 1..Len(x) : (x \o y)[i] = x[i]
    BY <2>2
  <2> QED
    BY <2>3 DEF x, y
<1>6. r.position = s.position /\ Len(r.list[n]) >= Len(s.list[n]) /\ OthersKept(s, r, n)
  BY RefillEffect
<1> HIDE DEF l, v, r
<1>7. r.list = [s.list EXCEPT ![n] = l] /\ r.said = s.said
  BY <1>4 DEF Stores
<1>8. r.list[n] = l
  BY <1>7, StoreFields
<1>9. CASE m = n
  BY <1>5, <1>6, <1>7, <1>8, <1>9 DEF Grows, r
<1>10. CASE m # n
  BY <1>6, <1>7, <1>10, EntryFields DEF Grows, OthersKept, r
<1> QED
  BY <1>9, <1>10

\* An update keeps the current entry, and broadcasts the position it changes.
LEMMA UpdatedKeeps ==
  ASSUME NEW s \in Stores, s.mirror = s.list, NEW n \in Name, NEW rnd \in Media,
         NEW m \in Name
  PROVE  LET r == Updated(s, n, rnd)
         IN  /\ Keeps(s, r, m) /\ Tells(s, r, m)
             /\ (m = n => Kept(s, n)) => Grows(s, r, m)
             /\ Kept(s, n) => r.hung = s.hung
<1> DEFINE t == Trim(s, n)
           u == Refill(t, n, rnd)
<1>1. t \in Stores /\ t.mirror = t.list /\ Keeps(s, t, m) /\ Tells(s, t, m)
  BY TrimSame, TrimKeeps DEF Same
<1>2. OthersKept(s, t, n)
  BY TrimSame
<1>3. Kept(s, n) => Kinds[n] = "list" \/ t = s
  BY TrimNothing DEF Kept
<1> HIDE DEF t
<1>4. u \in Stores /\ Grows(t, u, m) /\ u.said = t.said /\ u.hung = t.hung
  BY <1>1, RefillEffect, RefillGrows DEF Same
<1>5. Keeps(t, u, m)
  BY <1>1, <1>4, GrowsKeeps
<1>6. Keeps(s, u, m) /\ Tells(s, u, m)
  BY <1>1, <1>4, <1>5 DEF Keeps, Tells, Grows
<1>7. Updated(s, n, rnd) \in {s, t, u}
  BY DEF Updated, Unless, t
<1>8. Kinds[n] = "list" => Updated(s, n, rnd) = s
  BY DEF Updated
<1> HIDE DEF u
<1>9. Keeps(s, s, m) /\ Tells(s, s, m) /\ Grows(s, s, m)
  <2>1. Len(s.list[m]) \in Nat
    BY EntryFields
  <2> QED
    BY <2>1 DEF Keeps, Tells, Grows
<1>10. ASSUME m = n => Kept(s, n)
       PROVE  (Grows(s, t, m) /\ Grows(s, u, m)) \/ Kinds[n] = "list"
  <2>1. Len(s.list[m]) \in Nat
    BY EntryFields
  <2>2. m # n => t.list[m] = s.list[m] /\ t.position[m] = s.position[m]
    BY <1>2 DEF OthersKept
  <2>3. Kinds[n] # "list" => t.list[m] = s.list[m] /\ t.position[m] = s.position[m]
    BY <1>3, <1>10, <2>2
  <2> QED
    BY <1>4, <2>1, <2>3 DEF Grows
<1>11. Kept(s, n) => Updated(s, n, rnd).hung = s.hung
  BY <1>3, <1>4, <1>7, <1>8
<1> QED
  BY <1>1, <1>6, <1>7, <1>8, <1>9, <1>10, <1>11

\* Each playlist has the position that it had and that was not broadcast, or the
\* one that was broadcast last.
Heard(s, n) == \/ s.said[n] = s.position[n]
               \/ s.said[n] = Unsaid /\ s.position[n] = position[n]

AllHeard(s) == \A m \in Name \ late : Heard(s, m)

LEMMA TellsHeard ==
  ASSUME NEW s, NEW r, NEW m, Heard(s, m), Tells(s, r, m)
  PROVE  Heard(r, m)
BY DEF Heard, Tells

LEMMA CurrPosKeeps ==
  ASSUME NEW s \in Stores, s.mirror = s.list, NEW n \in Name, NEW p \in Int,
         NEW rnd \in Media, NEW m \in Name
  PROVE  LET r == CurrPos(s, n, p, rnd)
         IN  /\ Keeps(s, r, m)
             /\ m # n /\ Heard(s, m) => Heard(r, m)
             /\ s.hung = FALSE /\ m = n /\ p = s.position[n] => Heard(r, m)
             /\ (m = s.active => Kept(s, m)) => Grows(s, r, m)
<1> DEFINE t == [s EXCEPT !.said[n] = p]
           r == Updated(t, s.active, rnd)
<1>1. /\ t \in Stores /\ t.list = s.list /\ t.mirror = s.mirror
      /\ t.position = s.position /\ t.active = s.active
      /\ t.said = [s.said EXCEPT ![n] = p]
  BY DEF Stores
<1>2. CurrPos(s, n, p, rnd) = IF s.hung THEN s ELSE r
  BY Zenon DEF CurrPos, Unless
<1> HIDE DEF t
<1>3. s.active \in Name
  BY StoreFields
<1>4. /\ Keeps(t, r, m) /\ Tells(t, r, m)
      /\ (m = s.active => Kept(t, s.active)) => Grows(t, r, m)
  BY <1>1, <1>3, UpdatedKeeps
<1> HIDE DEF r
<1>5. Keeps(s, r, m)
  BY <1>1, <1>4 DEF Keeps, Inside, Current
<1>6. t.said[n] = p /\ (m # n => t.said[m] = s.said[m])
  BY <1>1, StoreFields
<1>7. /\ m # n /\ Heard(s, m) => Heard(t, m)
      /\ m = n /\ p = s.position[n] => Heard(t, m)
  BY <1>1, <1>6 DEF Heard
<1>8. (m = s.active => Kept(s, m)) => Grows(s, r, m)
  BY <1>1, <1>4 DEF Kept, Grows
<1>9. Heard(t, m) => Heard(r, m)
  BY <1>4, TellsHeard
<1>10. Keeps(s, s, m) /\ Grows(s, s, m)
  <2>1. Len(s.list[m]) \in Nat
    BY EntryFields
  <2> QED
    BY <2>1 DEF Keeps, Grows
<1>11. CASE s.hung = FALSE
  BY <1>2, <1>5, <1>7, <1>8, <1>9, <1>11
<1>12. CASE s.hung = TRUE
  BY <1>2, <1>10, <1>12
<1> QED
  BY <1>11, <1>12, StoreFields

\* The list of r begins with the list l.
Begun(r, n, l) ==
  Len(r.list[n]) >= Len(l) /\ \A i \in 1..Len(l) : r.list[n][i] = l[i]

Goes(s, r, n, p) ==
  s.hung = FALSE =>
    /\ Heard(r, n)
    /\ p \in 0..Len(s.list[n]) - 1 => Inside(r, n) /\ Current(r, n) = s.list[n][p + 1]
    /\ (n = s.active /\ Kinds[n] # "list" => p <= History) =>
         r.position[n] = p /\ Begun(r, n, s.list[n])

LEMMA SetPositionKeeps ==
  ASSUME NEW s \in Stores, s.mirror = s.list, NEW n \in Name, NEW p \in Place,
         NEW rnd \in Media
  PROVE  LET r == SetPosition(s, n, p, rnd)
         IN  /\ \A m \in Name \ {n} : Keeps(s, r, m) /\ (Heard(s, m) => Heard(r, m))
             /\ Goes(s, r, n, p)
<1> DEFINE t == SetAttr(s, n, p)
           r == CurrPos(t, n, p, rnd)
<1>1. /\ t \in Stores /\ t.list = s.list /\ t.mirror = s.mirror
      /\ t.position = [s.position EXCEPT ![n] = p]
      /\ t.active = s.active /\ t.said = s.said /\ t.hung = s.hung
  BY DEF SetAttr, Stores
<1>2. SetPosition(s, n, p, rnd) = IF s.hung THEN s ELSE r
  BY Zenon DEF SetPosition, Unless
<1> HIDE DEF t
<1>3. p \in Int
  BY DEF Place
<1>4. \A m \in Name : /\ Keeps(t, r, m)
                      /\ m # n /\ Heard(t, m) => Heard(r, m)
                      /\ t.hung = FALSE /\ m = n /\ p = t.position[n] => Heard(r, m)
                      /\ (m = t.active => Kept(t, m)) => Grows(t, r, m)
  BY <1>1, <1>3, CurrPosKeeps
<1> HIDE DEF r
<1>5. t.position[n] = p /\ \A m \in Name \ {n} : t.position[m] = s.position[m]
  BY <1>1, StoreFields
<1>6. ASSUME NEW m \in Name \ {n}
      PROVE  Keeps(s, r, m) /\ (Heard(s, m) => Heard(r, m))
  <2>1. t.position[m] = s.position[m] /\ t.said[m] = s.said[m] /\ t.list[m] = s.list[m]
    BY <1>1, <1>5
  <2>2. Keeps(t, r, m) /\ (Heard(t, m) => Heard(r, m))
    BY <1>4
  <2> QED
    BY <2>1, <2>2 DEF Keeps, Inside, Current, Heard
<1>7. s.hung = FALSE => Heard(r, n)
  BY <1>1, <1>4, <1>5
<1>8. ASSUME p \in 0..Len(s.list[n]) - 1
      PROVE  Inside(r, n) /\ Current(r, n) = s.list[n][p + 1]
  <2>1. Keeps(t, r, n)
    BY <1>4
  <2> QED
    BY <1>1, <1>5, <1>8, <2>1 DEF Keeps, Inside, Current
<1>9. ASSUME n = s.active /\ Kinds[n] # "list" => p <= History
      PROVE  r.position[n] = p /\ Begun(r, n, s.list[n])
  <2>1. Grows(t, r, n)
    BY <1>1, <1>4, <1>5, <1>9 DEF Kept
  <2> QED
    BY <1>1, <1>5, <2>1 DEF Grows, Begun
<1>10. CASE s.hung = FALSE
  BY <1>2, <1>6, <1>7, <1>8, <1>9, <1>10 DEF Goes
<1>11. CASE s.hung = TRUE
  <2>1. \A m \in Name : Keeps(s, s, m)
    BY DEF Keeps
  <2> QED
    BY <1>2, <1>11, <2>1 DEF Goes
<1> QED
  BY <1>10, <1>11, StoreFields

LEMMA EditedSaid ==
  ASSUME NEW s \in Stores, NEW n \in Name, NEW l \in Seq(Item), NEW p \in Place
  PROVE  /\ Told(SetEntries(s, n, l), n, l).said = s.said
         /\ Told(SetAttr(SetEntries(s, n, l), n, p), n, l).said = s.said
         /\ Told(s, n, s.list[n]).said = s.said
<1> DEFINE e == SetEntries(s, n, l)
           a == SetAttr(e, n, p)
<1>1. e \in Stores /\ e.said = s.said
  BY DEF Stores, SetEntries
<1> HIDE DEF e
<1>2. a \in Stores /\ a.said = e.said
  BY <1>1 DEF Stores, SetAttr
<1> HIDE DEF a
<1>3. ASSUME NEW t \in Stores, NEW m PROVE Told(t, n, m).said = t.said
  BY <1>3 DEF Stores, Told
<1>4. Told(e, n, l).said = s.said
  BY <1>1, <1>3
<1>5. Told(a, n, l).said = s.said
  BY <1>1, <1>2, <1>3
<1>6. Told(s, n, s.list[n]).said = s.said
  BY <1>3
<1> QED
  BY <1>4, <1>5, <1>6 DEF e, a

LEMMA StoreSaid == Store.said = [m \in Name |-> Unsaid]
BY DEF Store

-----------------------------------------------------------------------------
(***************************************************************************)
(* The position is told.                                                   *)
(***************************************************************************)

\* The operation returns, or hangs, with the store s.
Yields(s) == \E L : Returns(s, L)

\* Every position that changed is broadcast, and the current entries stay, but of
\* what was late; and but of playlist n.
Quiet == misled' \subseteq late

QuietBut(n) == misled' \subseteq late \cup {n}

LEMMA DoneTold ==
  ASSUME NEW s, Yields(s)
  PROVE  /\ AllHeard(s) => Quiet
         /\ \A n : (\A m \in Name \ {n} : Heard(s, m)) => QuietBut(n)
<1>1. \A m \in misled' : m \in Name /\ ~ Heard(s, m)
  BY DEF Yields, Returns, Heard
<1> QED
  BY <1>1, Zenon DEF AllHeard, Quiet, QuietBut

\* The update only adds entries behind the list l.
Follows(r, n, l, p) ==
  Kinds[n] = "list" \/ p <= History =>
    r.position[n] = p /\ Begun(r, n, l) /\ r.hung = FALSE

\* An edit and its update, of which the position is told, too, if it is changed:
\* of all playlists, or of all others.
LEMMA EditHeard ==
  ASSUME Plain, NEW n \in Name, NEW rnd \in Media, NEW t, NEW l \in Seq(Item),
         NEW p \in Place, Edited(t, Store, n, l, p), t.said = Store.said
  PROVE  LET r == Updated(t, n, rnd)
         IN  /\ \A m \in Name \ {n} : Heard(r, m)
             /\ p = position[n] => AllHeard(r)
             /\ Follows(r, n, l, p)
<1> DEFINE r == Updated(t, n, rnd)
<1>1. /\ t \in Stores /\ t.mirror = t.list
      /\ t.list[n] = l /\ t.position[n] = p /\ t.hung = FALSE
      /\ \A m \in Name \ {n} : t.position[m] = position[m]
      /\ \A m \in Name : t.said[m] = Unsaid
  <2>1. Store.list \in [Name -> Seq(Item)] /\ Store.position \in [Name -> Place]
    BY StoreIs, StoreFields
  <2> QED
    BY <2>1, StoreIs, StoreSaid DEF Edited
<1>2. \A m \in Name : /\ Tells(t, r, m)
                      /\ (m = n => Kept(t, n)) => Grows(t, r, m)
                      /\ Kept(t, n) => r.hung = t.hung
  BY <1>1, UpdatedKeeps
<1> HIDE DEF r
<1>3. ASSUME NEW m \in Name, m # n \/ p = position[n] PROVE Heard(r, m)
  <2>1. Heard(t, m)
    BY <1>1, <1>3 DEF Heard
  <2> QED
    BY <1>2, <2>1, TellsHeard
<1>4. Follows(r, n, l, p)
  <2>1. Kinds[n] = "list" \/ p <= History => Kept(t, n)
    BY <1>1 DEF Kept
  <2> QED
    BY <1>1, <1>2, <2>1 DEF Grows, Begun, Follows
<1> QED
  BY <1>3, <1>4 DEF AllHeard, r

\* The position is broadcast once more.
LEMMA TellsAgain ==
  ASSUME Plain, NEW n \in Name, NEW rnd \in Media, NEW t, NEW l \in Seq(Item),
         NEW p \in Place, Edited(t, Store, n, l, p), t.said = Store.said,
         NEW q \in Int
  PROVE  LET u == CurrPos(Updated(t, n, rnd), n, q, rnd)
         IN  /\ \A m \in Name \ {n} : Heard(u, m)
             /\ q = p /\ (Kinds[n] = "list" \/ p <= History) => Heard(u, n)
<1> DEFINE r == Updated(t, n, rnd)
           u == CurrPos(r, n, q, rnd)
<1>1. /\ \A m \in Name \ {n} : Heard(r, m)
      /\ Kinds[n] = "list" \/ p <= History => r.position[n] = p /\ r.hung = FALSE
  <2>1. /\ \A m \in Name \ {n} : Heard(r, m)
        /\ Follows(r, n, l, p)
    BY EditHeard, Zenon
  <2> HIDE DEF r
  <2> QED
    BY <2>1 DEF Follows
<1>2. r \in Stores /\ r.mirror = r.list
  BY StoreChanges, Zenon
<1> HIDE DEF r
<1>3. \A m \in Name : /\ m # n /\ Heard(r, m) => Heard(u, m)
                      /\ r.hung = FALSE /\ m = n /\ q = r.position[n] => Heard(u, m)
  BY <1>2, CurrPosKeeps
<1> HIDE DEF u
<1>4. /\ \A m \in Name \ {n} : Heard(u, m)
      /\ q = p /\ (Kinds[n] = "list" \/ p <= History) => Heard(u, n)
  BY <1>1, <1>3
<1> QED
  BY <1>4 DEF u, r

LEMMA SetPositionTold ==
  ASSUME NEW s \in Stores, s.mirror = s.list, NEW n \in Name, NEW p \in Place,
         NEW rnd \in Media, \A m \in Name \ {n} : m \in late \/ Heard(s, m),
         n \in late \/ s.hung = FALSE
  PROVE  AllHeard(SetPosition(s, n, p, rnd))
BY SetPositionKeeps DEF AllHeard, Goes

-----------------------------------------------------------------------------
(***************************************************************************)
(* Where the entries of a list are after an edit.                          *)
(***************************************************************************)

LEMMA JoinedValues ==
  ASSUME NEW T, NEW x \in Seq(T), NEW y \in Seq(T), NEW i \in 1..Len(x) + Len(y)
  PROVE  (x \o y)[i] = IF i <= Len(x) THEN x[i] ELSE y[i - Len(x)]
OBVIOUS

LEMMA WithValues ==
  ASSUME NEW l \in Seq(Item), NEW p \in 0..Len(l), NEW e \in Item
  PROVE  /\ \A i \in 1..Len(l) : With(l, p, e)[IF i <= p THEN i ELSE i + 1] = l[i]
         /\ With(l, p, e)[p + 1] = e
<1>1. Len(l) \in Nat
  OBVIOUS
<1> DEFINE x == SubSeq(l, 1, p)
           y == SubSeq(l, p + 1, Len(l))
           z == <<e>>
           w == (x \o z) \o y
<1>2. x \in Seq(Item) /\ Len(x) = p /\ \A i \in 1..p : x[i] = l[i]
  BY <1>1
<1>3. y \in Seq(Item) /\ Len(y) = Len(l) - p
      /\ \A i \in 1..Len(l) - p : y[i] = l[p + i]
  BY <1>1
<1>4. z \in Seq(Item) /\ Len(z) = 1 /\ z[1] = e
  OBVIOUS
<1>5. With(l, p, e) = w
  BY DEF With
<1> HIDE DEF x, y, z
<1>6. /\ \A i \in 1..p : w[i] = x[i]
      /\ w[p + 1] = z[1]
      /\ \A i \in 1..Len(l) - p : w[p + 1 + i] = y[i]
  <2> DEFINE v == x \o z
  <2>1. v \in Seq(Item) /\ Len(v) = Len(x) + Len(z)
    BY <1>2, <1>4, JoinedType, Zenon
  <2>2. \A i \in 1..Len(x) + Len(z) : v[i] = IF i <= Len(x) THEN x[i] ELSE z[i - Len(x)]
    BY <1>2, <1>4, JoinedValues, Zenon
  <2>3. /\ v \in Seq(Item) /\ Len(v) = p + 1
        /\ \A i \in 1..p : v[i] = x[i]
        /\ v[p + 1] = z[1]
    <3> HIDE DEF v
    <3>1. p + 1 \in 1..Len(x) + Len(z) /\ ~(p + 1 <= Len(x)) /\ (p + 1) - Len(x) = 1
      BY <1>1, <1>2, <1>4
    <3>2. v[p + 1] = z[(p + 1) - Len(x)]
      BY <2>2, <3>1
    <3>3. \A i \in 1..p : i \in 1..Len(x) + Len(z) /\ i <= Len(x)
      BY <1>1, <1>2, <1>4
    <3>4. \A i \in 1..p : v[i] = x[i]
      BY <2>2, <3>3
    <3> QED
      BY <1>2, <1>4, <2>1, <3>1, <3>2, <3>4
  <2> HIDE DEF v
  <2>4. /\ \A i \in 1..p + 1 : (v \o y)[i] = v[i]
        /\ \A i \in 1..Len(l) - p : (v \o y)[p + 1 + i] = y[i]
    BY <1>1, <1>3, <2>3
  <2>5. w = v \o y
    BY DEF v
  <2> HIDE DEF w
  <2>6. p + 1 \in 1..p + 1 /\ \A i \in 1..p : i \in 1..p + 1
    OBVIOUS
  <2> QED
    BY <2>3, <2>4, <2>5, <2>6
<1> HIDE DEF w
<1>7. ASSUME NEW i \in 1..Len(l), i <= p PROVE w[i] = l[i]
  BY <1>2, <1>6, <1>7
<1>8. ASSUME NEW i \in 1..Len(l), ~(i <= p) PROVE w[i + 1] = l[i]
  <2>1. i - p \in 1..Len(l) - p /\ p + 1 + (i - p) = i + 1 /\ p + (i - p) = i
    BY <1>1, <1>8
  <2>2. w[p + 1 + (i - p)] = y[i - p] /\ y[i - p] = l[p + (i - p)]
    BY <1>3, <1>6, <2>1
  <2> QED
    BY <2>1, <2>2
<1> QED
  BY <1>4, <1>5, <1>6, <1>7, <1>8

LEMMA WithoutValues ==
  ASSUME NEW l \in Seq(Item), NEW p \in 0..Len(l) - 1, NEW i \in 1..Len(l), i # p + 1
  PROVE  Without(l, p)[IF i <= p THEN i ELSE i - 1] = l[i]
<1>1. Len(l) \in Nat
  OBVIOUS
<1> DEFINE x == SubSeq(l, 1, p)
           y == SubSeq(l, p + 2, Len(l))
           w == x \o y
<1>2. x \in Seq(Item) /\ Len(x) = p /\ \A j \in 1..p : x[j] = l[j]
  BY <1>1
<1>3. y \in Seq(Item) /\ Len(y) = Len(l) - p - 1
      /\ \A j \in 1..Len(l) - p - 1 : y[j] = l[p + 1 + j]
  BY <1>1
<1>4. Without(l, p) = w
  BY DEF Without
<1> HIDE DEF x, y
<1>5. /\ \A j \in 1..p : w[j] = x[j]
      /\ \A j \in 1..Len(l) - p - 1 : w[p + j] = y[j]
  <2>1. ASSUME NEW j \in 1..p PROVE w[j] = x[j]
    <3>1. j \in 1..Len(x) + Len(y) /\ j <= Len(x)
      BY <1>1, <1>2, <1>3
    <3> QED
      BY <1>2, <1>3, <3>1, JoinedValues
  <2>2. ASSUME NEW j \in 1..Len(l) - p - 1 PROVE w[p + j] = y[j]
    <3>1. /\ p + j \in 1..Len(x) + Len(y) /\ ~(p + j <= Len(x))
          /\ p + j - Len(x) = j
      BY <1>1, <1>2, <1>3
    <3>2. w[p + j] = y[p + j - Len(x)]
      BY <1>2, <1>3, <3>1, JoinedValues
    <3> QED
      BY <3>1, <3>2
  <2> QED
    BY <2>1, <2>2
<1> HIDE DEF w
<1>6. CASE i <= p
  BY <1>2, <1>4, <1>5, <1>6
<1>7. CASE ~(i <= p)
  <2> DEFINE j == i - p - 1
  <2>1. j \in 1..Len(l) - p - 1 /\ p + j = i - 1 /\ p + 1 + j = i
    BY <1>1, <1>7
  <2> HIDE DEF j
  <2>2. w[p + j] = y[j] /\ y[j] = l[p + 1 + j]
    BY <1>3, <1>5, <2>1
  <2> QED
    BY <1>4, <1>7, <2>1, <2>2
<1> QED
  BY <1>6, <1>7

\* Entry c is where AfterMove says.
LEMMA MovedValues ==
  ASSUME NEW l \in Seq(Item), NEW p \in 0..Len(l) - 1, NEW q \in 0..Len(l) - 1,
         NEW c \in 0..Len(l) - 1
  PROVE  /\ AfterMove(c, p, q) \in 0..Len(l) - 1
         /\ Moved(l, p, q)[AfterMove(c, p, q) + 1] = l[c + 1]
<1> DEFINE r == AfterMove(c, p, q)
           x == Without(l, p)
           e == l[p + 1]
           m == With(x, q, e)
<1>1. Len(l) \in Nat /\ e \in Item
  OBVIOUS
<1>2. x \in Seq(Item) /\ Len(x) = Len(l) - 1
  BY WithoutType
<1>3. /\ q <= c /\ p > c => r = c + 1
      /\ ~(q <= c /\ p > c) /\ q >= c /\ p < c => r = c - 1
      /\ ~(q <= c /\ p > c) /\ ~(q >= c /\ p < c) /\ p = c => r = q
      /\ ~(q <= c /\ p > c) /\ ~(q >= c /\ p < c) /\ ~(p = c) => r = c
  BY DEF AfterMove
<1>4. c + 1 # p + 1 => x[IF c + 1 <= p THEN c + 1 ELSE c + 1 - 1] = l[c + 1]
  <2>1. c + 1 \in 1..Len(l)
    BY <1>1
  <2> QED
    BY <2>1, WithoutValues
<1>5. Moved(l, p, q) = m
  BY DEF Moved
<1> HIDE DEF x, e, r
<1>6. /\ \A i \in 1..Len(l) - 1 : m[IF i <= q THEN i ELSE i + 1] = x[i]
      /\ m[q + 1] = e
  <2>1. q \in 0..Len(x)
    BY <1>1, <1>2
  <2>2. /\ \A i \in 1..Len(x) : m[IF i <= q THEN i ELSE i + 1] = x[i]
        /\ m[q + 1] = e
    BY <1>1, <1>2, <2>1, WithValues
  <2> QED
    BY <1>2, <2>2
<1> HIDE DEF m
<1>7. r \in 0..Len(l) - 1
  BY <1>1, <1>3
<1>8. ASSUME p # c PROVE m[r + 1] = l[c + 1]
  <2> DEFINE i == IF c + 1 <= p THEN c + 1 ELSE c
  <2>1. i \in 1..Len(l) - 1 /\ x[i] = l[c + 1]
    BY <1>1, <1>4, <1>8
  <2>2. (IF i <= q THEN i ELSE i + 1) = r + 1
    BY <1>1, <1>3, <1>8
  <2>3. m[IF i <= q THEN i ELSE i + 1] = x[i]
    BY <1>6, <2>1
  <2> HIDE DEF i
  <2> QED
    BY <2>1, <2>2, <2>3
<1>9. m[r + 1] = l[c + 1]
  <2>1. CASE p = c
    <3>1. r = q
      BY <1>1, <1>3, <2>1
    <3> QED
      BY <1>6, <2>1, <3>1 DEF e
  <2> QED
    BY <1>8, <2>1
<1> QED
  BY <1>5, <1>7, <1>9 DEF r

-----------------------------------------------------------------------------
(***************************************************************************)
(* What an edit does to the current entries.                               *)
(***************************************************************************)

CurrentStays(m) ==
  position[m] \in 0..Len(list[m]) - 1 => CurrentIs(m, list[m][position[m] + 1])

LEMMA DoneStays ==
  ASSUME Plain, NEW s, Yields(s), NEW m \in Name, Keeps(Store, s, m)
  PROVE  CurrentStays(m)
BY StoreIs DEF Yields, Returns, Keeps, Inside, Current, CurrentStays, CurrentIs

\* The current entry of playlist n is at place p of list l.
NowAt(n, l, p) ==
  position[n] \in 0..Len(list[n]) - 1 =>
    p \in 0..Len(l) - 1 /\ l[p + 1] = list[n][position[n] + 1]

LEMMA EditKeeps ==
  ASSUME Plain, NEW n \in Name, NEW rnd \in Media, NEW t, NEW l \in Seq(Item),
         NEW p \in Place, Edited(t, Store, n, l, p)
  PROVE  LET r == Updated(t, n, rnd)
         IN  /\ \A m \in Name \ {n} : Keeps(Store, r, m)
             /\ NowAt(n, l, p) => Keeps(Store, r, n)
<1> DEFINE r == Updated(t, n, rnd)
<1>1. /\ t \in Stores /\ t.mirror = t.list
      /\ t.list[n] = l /\ t.position[n] = p
      /\ \A m \in Name \ {n} : t.position[m] = position[m] /\ t.list[m] = list[m]
  <2>1. Store.list \in [Name -> Seq(Item)] /\ Store.position \in [Name -> Place]
    BY StoreIs, StoreFields
  <2> QED
    BY <2>1, StoreIs DEF Edited
<1>2. \A m \in Name : Keeps(t, r, m)
  BY <1>1, UpdatedKeeps
<1> HIDE DEF r
<1>3. ASSUME NEW m \in Name \ {n} PROVE Keeps(Store, r, m)
  <2>1. Keeps(Store, t, m)
    BY <1>1, StoreIs DEF Keeps, Inside, Current
  <2> QED
    BY <1>2, <2>1, KeepsOn
<1>4. ASSUME NowAt(n, l, p) PROVE Keeps(Store, r, n)
  <2>1. Keeps(Store, t, n)
    BY <1>1, <1>4, StoreIs DEF Keeps, Inside, Current, NowAt
  <2> QED
    BY <1>2, <2>1, KeepsOn
<1> QED
  BY <1>3, <1>4 DEF r

\* The same when the position is broadcast once more.
LEMMA KeepsAgain ==
  ASSUME Plain, NEW n \in Name, NEW rnd \in Media, NEW t, NEW l \in Seq(Item),
         NEW p \in Place, Edited(t, Store, n, l, p), NEW q \in Int, NowAt(n, l, p),
         Yields(CurrPos(Updated(t, n, rnd), n, q, rnd)), NEW m \in Name
  PROVE  CurrentStays(m)
<1> DEFINE r == Updated(t, n, rnd)
           u == CurrPos(r, n, q, rnd)
<1>1. Keeps(Store, r, m)
  BY EditKeeps
<1>2. r \in Stores /\ r.mirror = r.list
  BY StoreChanges, Zenon
<1> HIDE DEF r
<1>3. Keeps(r, u, m)
  BY <1>2, CurrPosKeeps
<1> HIDE DEF u
<1>4. Keeps(Store, u, m)
  BY <1>1, <1>3, KeepsOn
<1> QED
  BY <1>4, DoneStays DEF u, r

-----------------------------------------------------------------------------
(***************************************************************************)
(* What the operations broadcast, and which current entries they keep.     *)
(***************************************************************************)

\* The store t as the edit leaves it: no position is broadcast yet.
Fresh(t, n, l, p) == Edited(t, Store, n, l, p) /\ t.said = Store.said

\* The current entries stay, but of what was late.
Stays == \A m \in Name \ late : CurrentStays(m)

LEMMA FreshFields ==
  ASSUME Plain, NEW n \in Name, NEW l \in Seq(Item), NEW p \in Place
  PROVE  /\ Fresh(Told(SetEntries(Store, n, l), n, l), n, l, position[n])
         /\ Fresh(Told(SetAttr(SetEntries(Store, n, l), n, p), n, l), n, l, p)
         /\ Fresh(Told(Store, n, list[n]), n, list[n], position[n])
<1>1. Store \in Stores /\ Store.list = list /\ Store.position = position
  BY StoreIs
<1>2. /\ Edited(Told(SetEntries(Store, n, l), n, l), Store, n, l, Store.position[n])
      /\ Edited(Told(SetAttr(SetEntries(Store, n, l), n, p), n, l), Store, n, l, p)
      /\ Edited(Told(Store, n, Store.list[n]), Store, n, Store.list[n],
                Store.position[n])
  BY <1>1, EditedFields, Zenon
<1>3. /\ Told(SetEntries(Store, n, l), n, l).said = Store.said
      /\ Told(SetAttr(SetEntries(Store, n, l), n, p), n, l).said = Store.said
      /\ Told(Store, n, Store.list[n]).said = Store.said
  BY <1>1, EditedSaid, Zenon
<1> QED
  BY <1>1, <1>2, <1>3, Zenon DEF Fresh

LEMMA EditDone ==
  ASSUME Plain, NEW n \in Name, NEW rnd \in Media, NEW t, NEW l \in Seq(Item),
         NEW p \in Place, Fresh(t, n, l, p), p = position[n],
         n \in late \/ NowAt(n, l, p), Yields(Updated(t, n, rnd))
  PROVE  Quiet /\ Stays
<1> DEFINE r == Updated(t, n, rnd)
<1>1. AllHeard(r)
  <2>1. LET u == Updated(t, n, rnd) IN p = position[n] => AllHeard(u)
    BY EditHeard, Zenon DEF Fresh
  <2> QED
    BY <2>1
<1>2. \A m \in Name \ late : Keeps(Store, r, m)
  <2>1. /\ \A m \in Name \ {n} : Keeps(Store, r, m)
        /\ NowAt(n, l, p) => Keeps(Store, r, n)
    BY EditKeeps, Zenon DEF Fresh
  <2> HIDE DEF r
  <2> QED
    BY <2>1
<1> HIDE DEF r
<1>3. Yields(r)
  BY DEF r
<1> QED
  BY <1>1, <1>2, <1>3, DoneTold, DoneStays, Zenon DEF Stays

\* An operation that ends by broadcasting the position once more.
LEMMA AgainDone ==
  ASSUME Plain, NEW n \in Name, NEW rnd \in Media, NEW t, NEW l \in Seq(Item),
         NEW p \in Place, Fresh(t, n, l, p), NEW q \in Int, NowAt(n, l, p),
         Yields(CurrPos(Updated(t, n, rnd), n, q, rnd))
  PROVE  /\ Stays /\ QuietBut(n)
         /\ n \in late => Quiet
         /\ q = p /\ (Kinds[n] = "list" \/ p <= History) => Quiet
<1> DEFINE u == CurrPos(Updated(t, n, rnd), n, q, rnd)
<1>1. Stays
  BY KeepsAgain, Zenon DEF Fresh, Stays
<1>2. /\ \A m \in Name \ {n} : Heard(u, m)
      /\ q = p /\ (Kinds[n] = "list" \/ p <= History) => Heard(u, n)
  BY TellsAgain, Zenon DEF Fresh
<1> HIDE DEF u
<1>3. Yields(u)
  BY DEF u
<1>4. QuietBut(n)
  BY <1>2, <1>3, DoneTold
<1>5. n \in late => Quiet
  BY <1>4 DEF Quiet, QuietBut
<1>6. ASSUME q = p, Kinds[n] = "list" \/ p <= History PROVE Quiet
  <2>1. AllHeard(u)
    BY <1>2, <1>6 DEF AllHeard
  <2> QED
    BY <1>3, <2>1, DoneTold
<1> QED
  BY <1>1, <1>4, <1>5, <1>6

\* An operation that ends by setting another position.
LEMMA EditThenSet ==
  ASSUME Plain, Fits, NEW n \in Name, NEW rnd \in Media, NEW t, NEW l \in Seq(Item),
         Fresh(t, n, l, position[n]), NEW p \in Place,
         Yields(SetPosition(Updated(t, n, rnd), n, p, rnd))
  PROVE  /\ Quiet
         /\ \A m \in Name \ {n} : CurrentStays(m)
         /\ n \notin late /\ NowAt(n, l, p) => CurrentStays(n)
         /\ n \notin late /\ p <= position[n] =>
              /\ position'[n] = p
              /\ Len(list'[n]) >= Len(l) /\ \A i \in 1..Len(l) : list'[n][i] = l[i]
<1> DEFINE r == Updated(t, n, rnd)
           u == SetPosition(r, n, p, rnd)
<1>1. /\ position[n] \in Place
      /\ n \notin late => Kinds[n] = "list" \/ position[n] <= History
  BY FitsStore
<1>2. Edited(t, Store, n, l, position[n]) /\ t.said = Store.said
  BY DEF Fresh
<1>3. /\ \A m \in Name \ {n} : Heard(r, m)
      /\ n \notin late => r.position[n] = position[n] /\ Begun(r, n, l) /\ r.hung = FALSE
  <2>1. (\A m \in Name \ {n} : Heard(r, m)) /\ Follows(r, n, l, position[n])
    BY <1>1, <1>2, EditHeard, Zenon
  <2> HIDE DEF r
  <2> QED
    BY <1>1, <2>1 DEF Follows
<1>4. \A m \in Name \ {n} : Keeps(Store, r, m)
  BY <1>1, <1>2, EditKeeps, Zenon
<1>5. r \in Stores /\ r.mirror = r.list
  BY <1>1, <1>2, StoreChanges, Zenon
<1> HIDE DEF r
<1>6. /\ \A m \in Name \ {n} : Keeps(r, u, m)
      /\ Goes(r, u, n, p)
  BY <1>5, SetPositionKeeps
<1>7. AllHeard(u)
  BY <1>3, <1>5, SetPositionTold
<1> HIDE DEF u
<1>8. Yields(u)
  BY DEF u, r
<1>9. Quiet
  BY <1>7, <1>8, DoneTold
<1>10. ASSUME NEW m \in Name \ {n} PROVE CurrentStays(m)
  <2>1. Keeps(Store, u, m)
    BY <1>4, <1>6, KeepsOn
  <2> QED
    BY <1>8, <2>1, DoneStays
<1>11. /\ Len(l) \in Nat /\ Len(r.list[n]) \in Nat
       /\ n \notin late => /\ Len(r.list[n]) >= Len(l) /\ r.hung = FALSE
                           /\ \A i \in 1..Len(l) : r.list[n][i] = l[i]
  BY <1>3, <1>5, EntryFields DEF Begun
<1>12. ASSUME n \notin late, NowAt(n, l, p) PROVE CurrentStays(n)
  <2>1. SUFFICES ASSUME position[n] \in 0..Len(list[n]) - 1
                 PROVE  CurrentIs(n, list[n][position[n] + 1])
    BY DEF CurrentStays
  <2>2. p \in 0..Len(l) - 1 /\ l[p + 1] = list[n][position[n] + 1]
    BY <1>12, <2>1 DEF NowAt
  <2>3. p \in 0..Len(r.list[n]) - 1 /\ r.list[n][p + 1] = l[p + 1]
    <3>1. p \in 0..Len(r.list[n]) - 1 /\ p + 1 \in 1..Len(l)
      BY <1>11, <1>12, <2>2
    <3> QED
      BY <1>11, <1>12, <3>1
  <2>4. Inside(u, n) /\ Current(u, n) = list[n][position[n] + 1]
    BY <1>6, <1>11, <1>12, <2>2, <2>3 DEF Goes
  <2> QED
    BY <1>8, <2>4 DEF Yields, Returns, Inside, Current, CurrentIs
<1>13. ASSUME n \notin late, p <= position[n]
       PROVE  /\ position'[n] = p
              /\ Len(list'[n]) >= Len(l) /\ \A i \in 1..Len(l) : list'[n][i] = l[i]
  <2>1. Kinds[n] # "list" => p <= History
    <3>1. p \in Int /\ position[n] \in Int /\ History \in Int
      BY <1>1, SizesKnown DEF Place
    <3> QED
      BY <1>1, <1>13, <3>1
  <2>2. u.position[n] = p /\ Begun(u, n, r.list[n])
    BY <1>6, <1>11, <1>13, <2>1 DEF Goes
  <2>3. list' = u.list /\ position' = u.position
    BY <1>8 DEF Yields, Returns
  <2>4. Same(u)
    BY <1>5, SetPositionEffect DEF Plain, u
  <2>5. Len(u.list[n]) \in Nat
    BY <2>4, EntryFields DEF Same
  <2>6. Len(u.list[n]) >= Len(l) /\ \A i \in 1..Len(l) : i \in 1..Len(r.list[n])
    BY <1>11, <1>13, <2>2, <2>5 DEF Begun
  <2> QED
    BY <1>11, <1>13, <2>2, <2>3, <2>6 DEF Begun
<1> QED
  BY <1>9, <1>10, <1>12, <1>13

LEMMA AddEntryStays ==
  ASSUME Plain, NEW n \in Name, NEW e \in Entry, NEW rnd \in Media,
         AddEntry(n, e, rnd)
  PROVE  Quiet /\ Stays
<1> DEFINE l == Append(list[n], e)
           t == Told(SetEntries(Store, n, l), n, l)
<1>1. list[n] \in Seq(Item) /\ e \in Item /\ position[n] \in Place
      /\ Len(list[n]) \in Nat
  BY DEF Plain, Item
<1>2. l \in Seq(Item) /\ Len(l) = Len(list[n]) + 1
      /\ \A i \in 1..Len(list[n]) : l[i] = list[n][i]
  BY <1>1
<1>3. Yields(Updated(t, n, rnd))
  BY DEF AddEntry, Plain, Changed, Told, Done, Yields
<1>4. NowAt(n, l, position[n])
  <2> HIDE DEF l
  <2>1. SUFFICES ASSUME position[n] \in 0..Len(list[n]) - 1
                 PROVE  /\ position[n] \in 0..Len(l) - 1
                        /\ l[position[n] + 1] = list[n][position[n] + 1]
    BY DEF NowAt
  <2>2. position[n] + 1 \in 1..Len(list[n]) /\ position[n] \in 0..Len(l) - 1
    BY <1>1, <1>2, <2>1
  <2> QED
    BY <1>2, <2>2
<1> HIDE DEF l
<1>5. Fresh(t, n, l, position[n])
  BY <1>1, <1>2, FreshFields, Zenon
<1> HIDE DEF t
<1> QED
  BY <1>1, <1>2, <1>3, <1>4, <1>5, EditDone

LEMMA InsertEntryStays ==
  ASSUME Plain, Fits, NEW n \in Name, NEW p \in 0..MaxLen, NEW e \in Entry,
         NEW rnd \in Media, InsertEntry(n, p, e, rnd)
  PROVE  Quiet /\ Stays
<1> DEFINE l == With(list[n], p, e)
           t == Told(SetEntries(Store, n, l), n, l)
           r == Updated(t, n, rnd)
           c == position[n]
<1>1. list[n] \in Seq(Item) /\ e \in Item /\ c \in Int /\ mirror = list
      /\ Len(list[n]) \in Nat /\ c \in Place /\ c >= -1
  BY DEF Plain, Place, Item
<1>2. p \in 0..Len(list[n]) /\ p \in Int
  BY <1>1, SizesKnown DEF InsertEntry
<1>3. l \in Seq(Item) /\ Len(l) = Len(list[n]) + 1
  BY <1>1, <1>2, WithType
<1>4. \A i \in 1..Len(list[n]) : l[IF i <= p THEN i ELSE i + 1] = list[n][i]
  BY <1>1, <1>2, WithValues
<1>5. Yields(IF p <= r.position[n] \/ r.position[n] = -1
             THEN SetPosition(r, n, r.position[n] + 1, rnd) ELSE r)
  BY <1>1, Zenon DEF InsertEntry, Changed, Told, Yields
<1> HIDE DEF l
<1>6. Fresh(t, n, l, c)
  BY <1>1, <1>3, FreshFields, Zenon
<1> HIDE DEF t
<1>7. /\ n \notin late => r.position[n] = c
      /\ r.position[n] \in Int /\ r.position[n] >= -1
  <2>1. n \notin late => Kinds[n] = "list" \/ position[n] <= History
    BY FitsStore
  <2>2. Follows(r, n, l, c)
    BY <1>1, <1>3, <1>6, EditHeard, Zenon DEF Fresh
  <2>3. r \in Stores
    BY <1>1, <1>3, <1>6, StoreChanges, Zenon DEF Fresh
  <2> HIDE DEF r
  <2> QED
    BY <2>1, <2>2, <2>3, EntryFields DEF Follows
<1>8. CASE n \notin late /\ (p <= c \/ c = -1)
  <2>1. Yields(SetPosition(r, n, c + 1, rnd))
    BY <1>5, <1>7, <1>8
  <2>2. c + 1 \in Place
    BY <1>1 DEF Place
  <2>3. NowAt(n, l, c + 1)
    <3>1. SUFFICES ASSUME c \in 0..Len(list[n]) - 1
                   PROVE  c + 1 \in 0..Len(l) - 1 /\ l[c + 1 + 1] = list[n][c + 1]
      BY DEF NowAt
    <3>2. c + 1 \in 1..Len(list[n]) /\ ~(c + 1 <= p) /\ c + 1 \in 0..Len(l) - 1
      BY <1>1, <1>2, <1>3, <1>8, <3>1
    <3> QED
      BY <1>4, <3>2
  <2> HIDE DEF c
  <2>4. /\ Quiet /\ \A m \in Name \ {n} : CurrentStays(m)
        /\ n \notin late /\ NowAt(n, l, c + 1) => CurrentStays(n)
    BY <1>3, <1>6, <2>1, <2>2, EditThenSet DEF c
  <2> QED
    BY <1>8, <2>3, <2>4 DEF Stays
<1>9. CASE n \notin late /\ ~(p <= c \/ c = -1)
  <2>1. Yields(r)
    BY <1>5, <1>7, <1>9
  <2>2. NowAt(n, l, c)
    <3>1. SUFFICES ASSUME c \in 0..Len(list[n]) - 1
                   PROVE  c \in 0..Len(l) - 1 /\ l[c + 1] = list[n][c + 1]
      BY DEF NowAt
    <3>2. c + 1 \in 1..Len(list[n]) /\ c + 1 <= p /\ c \in 0..Len(l) - 1
      BY <1>1, <1>2, <1>3, <1>9, <3>1
    <3> QED
      BY <1>4, <3>2
  <2> QED
    BY <1>1, <1>3, <1>6, <2>1, <2>2, EditDone
\* What was late is not looked at.
<1>10. CASE n \in late
  <2> DEFINE d == r.position[n] + 1
  <2>1. d \in Place
    BY <1>7 DEF Place
  <2> HIDE DEF d, c
  <2>2. CASE Yields(SetPosition(r, n, d, rnd))
    <3>1. Quiet /\ \A m \in Name \ {n} : CurrentStays(m)
      BY <1>3, <1>6, <2>1, <2>2, EditThenSet DEF c
    <3> QED
      BY <1>10, <3>1 DEF Stays
  <2>3. CASE Yields(r)
    BY <1>1, <1>3, <1>6, <1>10, <2>3, EditDone DEF c
  <2> QED
    BY <1>5, <2>2, <2>3 DEF d
<1> QED
  BY <1>8, <1>9, <1>10

\* Removing the current entry steps back to the one before it.
LEMMA RemoveEntryStays ==
  ASSUME Plain, Fits, NEW n \in Name, NEW p \in 0..MaxLen, NEW rnd \in Media,
         RemoveEntry(n, p, rnd)
  PROVE  /\ Quiet
         /\ \A m \in Name \ late :
              \/ CurrentStays(m)
              \/ /\ m = n /\ p = position[n] /\ position'[n] = position[n] - 1
                 /\ position[n] + 1 < Len(list[n]) =>
                      list'[n][position'[n] + 2] = list[n][position[n] + 2]
<1> DEFINE l == Without(list[n], p)
           t == Told(SetEntries(Store, n, l), n, l)
           r == Updated(t, n, rnd)
           c == position[n]
<1>1. list[n] \in Seq(Item) /\ c \in Int /\ c >= -1
      /\ Len(list[n]) \in Nat /\ c \in Place
  BY DEF Plain, Place
<1>2. p \in 0..Len(list[n]) - 1 /\ p \in Int
  BY <1>1, SizesKnown DEF RemoveEntry
<1>3. l \in Seq(Item) /\ Len(l) = Len(list[n]) - 1
  BY <1>1, <1>2, WithoutType
<1>4. \A i \in 1..Len(list[n]) :
        /\ i <= p => l[i] = list[n][i]
        /\ i > p + 1 => l[i - 1] = list[n][i]
  <2> HIDE DEF l
  <2>1. ASSUME NEW i \in 1..Len(list[n]), i # p + 1
        PROVE  l[IF i <= p THEN i ELSE i - 1] = list[n][i]
    BY <1>1, <1>2, <2>1, WithoutValues DEF l
  <2>2. ASSUME NEW i \in 1..Len(list[n]), i <= p PROVE l[i] = list[n][i]
    BY <1>2, <2>1, <2>2
  <2>3. ASSUME NEW i \in 1..Len(list[n]), i > p + 1 PROVE l[i - 1] = list[n][i]
    BY <1>2, <2>1, <2>3
  <2> QED
    BY <2>2, <2>3
<1>5. Yields(IF c # -1 /\ p <= c THEN SetPosition(r, n, c - 1, rnd) ELSE r)
  BY StoreIs, Zenon DEF RemoveEntry, Removed, Changed, Told, Done, Yields
<1> HIDE DEF l
<1>6. Fresh(t, n, l, c)
  BY <1>1, <1>3, FreshFields, Zenon
<1> HIDE DEF t, r
<1>7. CASE c # -1 /\ p <= c
  <2>1. Yields(SetPosition(r, n, c - 1, rnd))
    BY <1>5, <1>7
  <2>2. c - 1 \in Place
    BY <1>1, <1>7 DEF Place
  <2>3. /\ Quiet /\ \A m \in Name \ {n} : CurrentStays(m)
        /\ n \notin late /\ NowAt(n, l, c - 1) => CurrentStays(n)
        /\ n \notin late /\ c - 1 <= c =>
             /\ position'[n] = c - 1
             /\ Len(list'[n]) >= Len(l) /\ \A i \in 1..Len(l) : list'[n][i] = l[i]
    BY <1>3, <1>6, <2>1, <2>2, EditThenSet DEF r
  <2>4. ASSUME p # c PROVE NowAt(n, l, c - 1)
    <3>1. SUFFICES ASSUME c \in 0..Len(list[n]) - 1
                   PROVE  c - 1 \in 0..Len(l) - 1 /\ l[c - 1 + 1] = list[n][c + 1]
      BY DEF NowAt
    <3> DEFINE k == c + 1
    <3>2. /\ k \in 1..Len(list[n]) /\ k > p + 1 /\ c - 1 \in 0..Len(l) - 1
          /\ k - 1 = c - 1 + 1
      <4> DEFINE a == Len(list[n])
                 b == Len(l)
      <4>1. a \in Nat /\ b = a - 1 /\ c \in 0..a - 1 /\ p \in Int
        BY <1>1, <1>2, <1>3, <3>1
      <4>2. p >= 0 /\ p < c
        BY <1>1, <1>2, <1>7, <2>4
      <4> HIDE DEF a, b, c
      <4>3. /\ k \in 1..a /\ k > p + 1 /\ c - 1 \in 0..b - 1
            /\ k - 1 = c - 1 + 1
        BY <4>1, <4>2
      <4> QED
        BY <4>3 DEF a, b
    <3> HIDE DEF k
    <3>3. l[k - 1] = list[n][k]
      BY <1>4, <3>2
    <3> QED
      BY <3>2, <3>3 DEF k
  <2>5. ASSUME n \notin late, p = c, c + 1 < Len(list[n])
        PROVE  list'[n][position'[n] + 2] = list[n][c + 2]
    <3> DEFINE k == c + 2
    <3>1. /\ k \in 1..Len(list[n]) /\ k > p + 1
          /\ k - 1 = c + 1 /\ c - 1 + 2 = c + 1 /\ c + 1 \in 1..Len(l)
          /\ c - 1 <= c
      <4> DEFINE a == Len(list[n])
                 b == Len(l)
      <4>1. a \in Nat /\ b = a - 1 /\ c \in Int /\ c >= 0 /\ c + 1 < a /\ p = c
        BY <1>1, <1>2, <1>3, <1>7, <2>5
      <4> HIDE DEF a, b, c
      <4>2. /\ k \in 1..a /\ k > p + 1
            /\ k - 1 = c + 1 /\ c - 1 + 2 = c + 1 /\ c + 1 \in 1..b
            /\ c - 1 <= c
        BY <4>1
      <4> QED
        BY <4>2 DEF a, b
    <3> HIDE DEF k
    <3>2. l[k - 1] = list[n][k]
      BY <1>4, <3>1
    <3>3. position'[n] = c - 1 /\ list'[n][c + 1] = l[c + 1]
      BY <2>3, <2>5, <3>1
    <3> QED
      BY <3>1, <3>2, <3>3 DEF k
  <2>6. n \notin late => position'[n] = c - 1
    BY <1>1, <2>3
  <2> QED
    BY <2>3, <2>4, <2>5, <2>6
<1>8. CASE ~(c # -1 /\ p <= c)
  <2>1. Yields(r)
    BY <1>5, <1>8
  <2>2. NowAt(n, l, c)
    <3>1. SUFFICES ASSUME c \in 0..Len(list[n]) - 1
                   PROVE  c \in 0..Len(l) - 1 /\ l[c + 1] = list[n][c + 1]
      BY DEF NowAt
    <3>2. /\ c + 1 \in 1..Len(list[n]) /\ c + 1 <= p /\ c \in 0..Len(l) - 1
      BY <1>1, <1>2, <1>3, <1>8, <3>1
    <3> QED
      BY <1>4, <3>2
  <2>3. Quiet /\ Stays
    BY <1>1, <1>3, <1>6, <2>1, <2>2, EditDone DEF r
  <2> QED
    BY <2>3 DEF Stays
<1> QED
  BY <1>7, <1>8

LEMMA MoveEntryStays ==
  ASSUME Plain, NEW n \in Name, NEW p \in 0..MaxLen, NEW q \in 0..MaxLen,
         NEW rnd \in Media, MoveEntry(n, p, q, rnd)
  PROVE  Stays /\ QuietBut(n) /\ (Kinds[n] = "list" => Quiet)
<1> DEFINE l == Moved(list[n], p, q)
           newpos == AfterMove(position[n], p, q)
           t == Told(SetAttr(SetEntries(Store, n, l), n, newpos), n, l)
<1>1. list[n] \in Seq(Item) /\ position[n] \in Place /\ Len(list[n]) \in Nat
  BY DEF Plain
<1>2. p \in 0..Len(list[n]) - 1 /\ q \in 0..Len(list[n]) - 1
  BY <1>1, SizesKnown DEF MoveEntry
<1>3. l \in Seq(Item) /\ Len(l) = Len(list[n])
  BY <1>1, <1>2, MovedType
<1>4. newpos \in Place /\ newpos \in Int
  <2>1. newpos \in Place
    BY <1>1, <1>2, AfterMoveRange
  <2> QED
    BY <2>1 DEF Place
<1>5. NowAt(n, l, newpos)
  BY <1>1, <1>2, <1>3, MovedValues DEF NowAt
<1>6. Yields(CurrPos(Updated(t, n, rnd), n, newpos, rnd))
  <2>1. mirror = list
    BY DEF Plain
  <2> QED
    BY <2>1, Zenon DEF MoveEntry, Moved, Changed, Told, Done, Yields
<1> HIDE DEF l, newpos
<1>7. Fresh(t, n, l, newpos)
  BY <1>3, <1>4, FreshFields, Zenon
<1> HIDE DEF t
<1> QED
  BY <1>3, <1>4, <1>5, <1>6, <1>7, AgainDone

LEMMA SortStays ==
  ASSUME Plain, NEW n \in Name, NEW f \in Orders(Len(list[n])), NEW rnd \in Media,
         Sort(n, f, rnd)
  PROVE  Stays /\ QuietBut(n)
<1> DEFINE l == Reordered(list[n], f)
           c == position[n]
           place == CHOOSE i \in 1..Len(list[n]) : f[i] = c + 1
           newpos == IF c \in 0..Len(list[n]) - 1 THEN place - 1 ELSE c
           t == Told(SetAttr(SetEntries(Store, n, l), n, newpos), n, l)
<1>1. list[n] \in Seq(Item) /\ c \in Int /\ Len(list[n]) \in Nat /\ c \in Place
  BY DEF Plain, Place
<1>2. /\ l \in Seq(Item) /\ Len(l) = Len(list[n])
      /\ \A i \in 1..Len(list[n]) : l[i] = list[n][f[i]]
  <2>1. l \in Seq(Item) /\ Len(l) = Len(list[n])
    BY <1>1, ReorderedType
  <2> QED
    BY <2>1 DEF Reordered
<1>3. c \in 0..Len(list[n]) - 1 => place \in 1..Len(list[n]) /\ f[place] = c + 1
  <2>1. ASSUME c \in 0..Len(list[n]) - 1
        PROVE  \E i \in 1..Len(list[n]) : f[i] = c + 1
    <3>1. c + 1 \in 1..Len(list[n])
      BY <1>1, <2>1
    <3> QED
      BY <1>1, <3>1, OrderHasAll
  <2> QED
    BY <2>1, Zenon
<1>4. newpos \in Place /\ NowAt(n, l, newpos)
  <2> HIDE DEF place, l
  <2>1. CASE c \in 0..Len(list[n]) - 1
    <3>1. newpos = place - 1 /\ place \in 1..Len(list[n]) /\ place - 1 + 1 = place
      BY <1>1, <1>3, <2>1
    <3>2. l[place] = list[n][c + 1]
      BY <1>2, <1>3, <2>1
    <3>3. newpos \in Place /\ newpos \in 0..Len(l) - 1
      BY <1>1, <1>2, <3>1 DEF Place
    <3> QED
      BY <3>1, <3>2, <3>3 DEF NowAt
  <2>2. CASE c \notin 0..Len(list[n]) - 1
    BY <1>1, <2>2 DEF NowAt
  <2> QED
    BY <2>1, <2>2
<1>5. Yields(CurrPos(Updated(t, n, rnd), n, c, rnd))
  <2> DEFINE s == SetAttr(SetEntries(Store, n, l), n, newpos)
  <2>1. Yields(CurrPos(Changed(s, n, s.list[n], rnd), n, c, rnd))
    BY Zenon DEF Sort, Done, Yields
  <2> HIDE DEF l, newpos
  <2>2. s.list[n] = l
    BY <1>2, <1>4, StoreIs, SetFields
  <2>3. Changed(s, n, l, rnd) = Updated(t, n, rnd)
    BY Zenon DEF Changed, Told
  <2> HIDE DEF s, t
  <2> QED
    BY <2>1, <2>2, <2>3
<1> HIDE DEF l, newpos
<1>6. Fresh(t, n, l, newpos)
  BY <1>2, <1>4, FreshFields, Zenon
<1> HIDE DEF t
<1> QED
  BY <1>1, <1>2, <1>4, <1>5, <1>6, AgainDone

LEMMA ShuffleStays ==
  ASSUME Plain, Fits, NEW n \in Name, NEW f \in Orders(Len(list[n])),
         NEW rnd \in Media, Shuffle(n, f, rnd)
  PROVE  Quiet /\ Stays
<1> DEFINE o == list[n]
           c == position[n]
           top == IF c < Len(o)
                  THEN [o EXCEPT ![1] = o[c + 1], ![c + 1] = o[1]]
                  ELSE [o EXCEPT ![1] = Garbage]
           s == IF Len(o) < 2 THEN Store
                ELSE IF c = -1 THEN SetEntries(Store, n, Reordered(o, f))
                ELSE SetAttr(SetEntries(Store, n, Reordered(top, f)), n, 0)
           t == Told(s, n, s.list[n])
<1>1. /\ o \in Seq(Item) /\ Len(o) \in Nat /\ 0 \in Place
      /\ c \in Place /\ c \in Int /\ c >= -1
  BY DEF Plain, Place
<1>2. Store \in Stores /\ Store.list = list /\ Store.position = position
  BY StoreIs
<1>3. Yields(CurrPos(Updated(t, n, rnd), n, s.position[n], rnd))
  BY Zenon DEF Shuffle, Changed, Told, Done, Yields
<1>4. n \in late \/ Kinds[n] = "list" \/ c <= History
  BY FitsStore
<1>5. Len(o) >= 2 /\ c # -1 => f[1] = 1
  BY Zenon DEF Shuffle
<1> HIDE DEF top
<1>6. CASE Len(o) < 2
  <2>1. s = Store
    BY <1>6
  <2> HIDE DEF s
  <2>2. Fresh(t, n, o, c)
    <3>1. Fresh(Told(Store, n, list[n]), n, list[n], position[n])
      BY <1>1, FreshFields, Zenon
    <3> QED
      BY <1>2, <2>1, <3>1
  <2>3. NowAt(n, o, c)
    BY DEF NowAt
  <2> HIDE DEF t
  <2>4. Yields(CurrPos(Updated(t, n, rnd), n, c, rnd))
    BY <1>2, <1>3, <2>1
  <2> QED
    BY <1>1, <1>4, <2>2, <2>3, <2>4, AgainDone
<1>7. CASE Len(o) >= 2 /\ c = -1
  <2> DEFINE l == Reordered(o, f)
  <2>1. s = SetEntries(Store, n, l)
    BY <1>1, <1>7
  <2>2. l \in Seq(Item) /\ Len(l) = Len(o)
    BY <1>1, ReorderedType
  <2> HIDE DEF s, l
  <2>3. s.list[n] = l /\ s.position[n] = c
    BY <1>1, <1>2, <2>1, <2>2, SetFields
  <2>4. Fresh(t, n, l, c)
    <3>1. Fresh(Told(SetEntries(Store, n, l), n, l), n, l, position[n])
      BY <1>1, <2>2, FreshFields, Zenon
    <3> QED
      BY <2>1, <2>3, <3>1
  <2> HIDE DEF t
  <2>5. NowAt(n, l, c)
    BY <1>7 DEF NowAt
  <2>6. Yields(CurrPos(Updated(t, n, rnd), n, c, rnd))
    BY <1>3, <2>3
  <2> QED
    BY <1>1, <1>4, <2>2, <2>4, <2>5, <2>6, AgainDone
<1>8. CASE Len(o) >= 2 /\ c # -1
  <2> DEFINE l == Reordered(top, f)
  <2>1. s = SetAttr(SetEntries(Store, n, l), n, 0)
    BY <1>1, <1>8
  <2>2. /\ top \in Seq(Item) /\ Len(top) = Len(o)
        /\ c < Len(o) => top[1] = o[c + 1]
    <3>1. CASE c < Len(o)
      <4>1. top = [o EXCEPT ![1] = o[c + 1], ![c + 1] = o[1]]
        BY <3>1 DEF top
      <4>2. c + 1 \in 1..Len(o) /\ 1 \in 1..Len(o)
        BY <1>1, <1>8, <3>1
      <4>3. o[c + 1] \in Item /\ o[1] \in Item
        BY <1>1, <4>2
      <4> QED
        BY <1>1, <4>1, <4>2, <4>3
    <3>2. CASE ~(c < Len(o))
      <4>1. top = [o EXCEPT ![1] = Garbage]
        BY <3>2 DEF top
      <4> QED
        BY <1>1, <1>8, <3>2, <4>1 DEF Item
    <3> QED
      BY <3>1, <3>2
  <2>3. l \in Seq(Item) /\ Len(l) = Len(o)
    BY <2>2, ReorderedType
  <2>4. l[1] = top[1]
    BY <1>1, <1>5, <1>8, <2>2 DEF Reordered
  <2> HIDE DEF s, l
  <2>5. s.list[n] = l /\ s.position[n] = 0
    BY <1>1, <1>2, <2>1, <2>3, SetFields
  <2>6. Fresh(t, n, l, 0)
    <3>1. Fresh(Told(SetAttr(SetEntries(Store, n, l), n, 0), n, l), n, l, 0)
      BY <1>1, <2>3, FreshFields, Zenon
    <3> QED
      BY <2>1, <2>5, <3>1
  <2> HIDE DEF t
  <2>7. NowAt(n, l, 0)
    BY <1>1, <1>8, <2>2, <2>3, <2>4 DEF NowAt
  <2>8. Yields(CurrPos(Updated(t, n, rnd), n, 0, rnd))
    BY <1>3, <2>5
  <2>9. 0 <= History
    BY SizesKnown
  <2> QED
    BY <1>1, <2>3, <2>6, <2>7, <2>8, <2>9, AgainDone
<1> QED
  BY <1>1, <1>6, <1>7, <1>8

LEMMA ClearStays ==
  ASSUME Plain, NEW n \in Name, NEW rnd \in Media, Clear(n, rnd)
  PROVE  /\ \A m \in Name : CurrentStays(m) \/ (m = n /\ position'[n] = -1)
         /\ QuietBut(n)
<1> DEFINE t == Told(SetAttr(SetEntries(Store, n, <<>>), n, -1), n, <<>>)
           r == Updated(t, n, rnd)
<1>1. Yields(r)
  BY Zenon DEF Clear, Changed, Told, Done, Yields
<1>2. <<>> \in Seq(Item) /\ -1 \in Place
  BY DEF Place
<1>3. Fresh(t, n, <<>>, -1)
  BY <1>2, FreshFields, Zenon
<1> HIDE DEF t
<1>4. /\ t \in Stores /\ t.mirror = t.list /\ t.position[n] = -1
  <2>1. Store.position \in [Name -> Place]
    BY StoreIs, StoreFields
  <2> QED
    BY <2>1, <1>3, StoreIs DEF Fresh, Edited
<1>5. \A m \in Name \ {n} : Keeps(Store, r, m)
  BY <1>2, <1>3, EditKeeps, Zenon DEF Fresh
<1>8. \A m \in Name \ {n} : Heard(r, m)
  BY <1>2, <1>3, EditHeard, Zenon DEF Fresh
<1>6. r.position[n] = -1
  BY <1>4, RestartEffect
<1> HIDE DEF r
<1>7. ASSUME NEW m \in Name \ {n} PROVE CurrentStays(m)
  BY <1>1, <1>5, DoneStays
<1>9. QuietBut(n)
  BY <1>1, <1>8, DoneTold
<1> QED
  BY <1>1, <1>6, <1>7, <1>9 DEF Yields, Returns

\* Another playlist becomes the active one.
LEMMA JumpHeard ==
  ASSUME NEW s \in Stores, NEW a
  PROVE  LET r == [s EXCEPT !.active = a]
         IN  /\ AllHeard(s) => AllHeard(r)
             /\ r.list = s.list /\ r.position = s.position
BY DEF Stores, AllHeard, Heard

LEMMA StoreHeard == ASSUME Plain PROVE AllHeard(Store)
BY StoreIs, StoreSaid DEF AllHeard, Heard

LEMMA LoadStays ==
  ASSUME Plain, NEW n \in Name, Load(n)
  PROVE  Quiet /\ Stays
<1> DEFINE r == [Store EXCEPT !.active = n]
<1>1. Yields(r)
  BY DEF Load, Done, Yields
<1>2. AllHeard(r) /\ r.list = list /\ r.position = position
  BY StoreIs, StoreHeard, JumpHeard
<1> HIDE DEF r
<1>3. \A m \in Name : Keeps(Store, r, m)
  BY <1>2, StoreIs DEF Keeps, Inside, Current
<1> QED
  BY <1>1, <1>2, <1>3, DoneTold, DoneStays, Zenon DEF Stays

\* The active playlist gets another position, and it is broadcast.
LEMMA GoesToTold ==
  ASSUME Plain, NEW p \in Place, NEW rnd \in Media
  PROVE  LET r == SetPosition(Store, active, p, rnd)
         IN  /\ r \in Stores /\ AllHeard(r)
             /\ \A m \in Name \ {active} : Keeps(Store, r, m)
<1>1. active \in Name /\ Settled
  BY DEF Plain
<1> DEFINE r == SetPosition(Store, active, p, rnd)
<1>2. r \in Stores
  BY <1>1, StoreIs, SetPositionEffect DEF Same
<1>3. /\ \A m \in Name \ {active} : Keeps(Store, r, m)
  BY <1>1, StoreIs, SetPositionKeeps
<1>4. AllHeard(r)
  <2>1. \A m \in Name : m \in late \/ Heard(Store, m)
    BY StoreHeard DEF AllHeard
  <2> QED
    BY <1>1, <2>1, StoreIs, SetPositionTold
<1> QED
  BY <1>2, <1>3, <1>4

LEMMA CurrentEntryStays ==
  ASSUME Plain, NEW rnd \in Media, CurrentEntry(rnd)
  PROVE  Quiet /\ Stays
<1> DEFINE r == SetPosition(Store, active, 0, rnd)
<1>1. Yields(r) /\ position[active] = -1 /\ 0 \in Place
  BY DEF CurrentEntry, Place, Done, Yields
<1>2. AllHeard(r) /\ \A m \in Name \ {active} : Keeps(Store, r, m)
  BY <1>1, GoesToTold
<1> HIDE DEF r
<1>3. \A m \in Name \ {active} : CurrentStays(m)
  BY <1>1, <1>2, DoneStays
<1>4. CurrentStays(active)
  BY <1>1 DEF CurrentStays
<1>5. Quiet
  BY <1>1, <1>2, DoneTold
<1> QED
  BY <1>3, <1>4, <1>5 DEF Stays

\* The playlist is gone through; the place set is within the bound.
LEMMA SetCurrentPositionQuiet ==
  ASSUME Plain, Fits, NEW pos, NEW rnd \in Media, SetCurrentPosition(pos, rnd)
  PROVE  Quiet /\ pos \in 0..MaxLen
<1> DEFINE size == Len(list[active])
           s == SetPosition(Store, active, 0, rnd)
           j == [s EXCEPT !.active = Jumplist[active]]
<1>1. size \in Nat /\ size <= MaxLen /\ MaxLen \in Nat
  <2>1. active \in Name
    BY DEF Plain
  <2> QED
    BY <2>1, FitsStore, SizesKnown
<1>2. CASE /\ pos = size /\ Jumplist[active] # NoList
           /\ Done(IF Jumplist[active] \in Name THEN j ELSE s)
  <2>1. 0 \in Place
    BY DEF Place
  <2>2. s \in Stores /\ AllHeard(s)
    BY <2>1, GoesToTold
  <2> HIDE DEF s
  <2>3. AllHeard(j)
    BY <2>2, JumpHeard
  <2> HIDE DEF j
  <2>4. Quiet
    <3>1. Yields(j) \/ Yields(s)
      BY <1>2, Zenon DEF Done, Yields
    <3>2. Jumplist[active] \in Name \/ Yields(s)
      BY <1>2, Zenon DEF Done, Yields
    <3> QED
      BY <2>2, <2>3, <3>1, <3>2, DoneTold
  <2> QED
    BY <1>1, <1>2, <2>4
<1>3. CASE pos \in 0..size - 1 /\ Done(SetPosition(Store, active, pos, rnd))
  <2>1. pos \in Place /\ pos \in 0..MaxLen
    BY <1>1, <1>3 DEF Place
  <2>2. AllHeard(SetPosition(Store, active, pos, rnd))
    BY <2>1, GoesToTold
  <2> QED
    BY <1>3, <2>1, <2>2, DoneTold, Zenon DEF Done, Yields
<1> QED
  BY <1>2, <1>3, Zenon DEF SetCurrentPosition

-----------------------------------------------------------------------------
(***************************************************************************)
(* What advancing answers, and that it broadcasts the positions.           *)
(***************************************************************************)

\* A playlist is as it was, or has entries and was left.
Untouched(s) ==
  \A m \in Name : \/ s.position[m] = position[m] /\ s.list[m] = list[m]
                  \/ s.position[m] = -1 /\ s.list[m] # <<>>

\* What a call makes of the answer.
Answers(a) ==
  LET s == a.store
  IN  /\ AllHeard(s)
      /\ a.answer = "none" => Untouched(s)
      /\ a.answer = "true" => ~ IsEmpty(s) /\ (repeat_one \/ Inside(s, s.active))
      /\ a.answer = "false" => \/ IsEmpty(s)
                               \/ position[s.active] = Len(list[s.active]) - 1

LEMMA LeftKeeps ==
  ASSUME Settled, NEW s \in Stores, s.mirror = s.list, Good(s), NEW rnd \in Media
  PROVE  /\ AllHeard(s) => AllHeard(Abandoned(s, rnd))
         /\ Untouched(s) => Untouched(Abandoned(s, rnd))
         /\ IsEmpty(s) => IsEmpty(Abandoned(s, rnd))
<1> DEFINE n == s.active
           r == SetPosition(s, n, -1, rnd)
<1>1. n \in Name /\ -1 \in Place
  BY StoreFields DEF Place
<1>2. CASE IsEmpty(s)
  BY <1>2 DEF Abandoned
<1>3. CASE ~ IsEmpty(s)
  <2>1. Abandoned(s, rnd) = r
    BY <1>3 DEF Abandoned
  <2>2. AllHeard(s) => AllHeard(r)
    <3>1. AllHeard(s) => \A m \in Name \ {n} : m \in late \/ Heard(s, m)
      BY DEF AllHeard
    <3>2. s.hung = FALSE
      BY DEF Good, Roomy
    <3> QED
      BY <1>1, <3>1, <3>2, SetPositionTold
  <2>3. LeftBehind(s, r)
    BY <2>1, LeftEffect
  <2> HIDE DEF r
  <2>4. Untouched(s) => Untouched(r)
    BY <1>3, <2>3 DEF LeftBehind, Untouched, IsEmpty
  <2> QED
    BY <1>3, <2>1, <2>2, <2>4
<1> QED
  BY <1>2, <1>3

\* A playlist at its end was there before the operation.
LEMMA AtItsEnd ==
  ASSUME NEW s \in Stores, Untouched(s), AtEnd(s), ~ IsEmpty(s)
  PROVE  position[s.active] = Len(list[s.active]) - 1
<1> DEFINE n == s.active
<1>1. n \in Name
  BY StoreFields
<1>2. s.list[n] \in Seq(Item) /\ s.list[n] # <<>> /\ s.position[n] \in Int
  BY <1>1, EntryFields DEF IsEmpty
<1>3. s.position[n] + 1 = Len(s.list[n])
  BY DEF AtEnd
<1>4. s.position[n] = position[n] /\ s.list[n] = list[n]
  BY <1>1, <1>2, <1>3 DEF Untouched
<1> QED
  BY <1>2, <1>3, <1>4

LEMMA JumpUntouched ==
  ASSUME NEW s \in Stores, NEW n, Untouched(s)
  PROVE  Untouched([s EXCEPT !.active = n])
BY JumpHeard DEF Untouched

LEMMA AdvanceDoAnswers ==
  ASSUME Plain, NEW a, Calling(a), Answers(a), NEW rnd \in Media
  PROVE  Answers(AdvanceDo(a, rnd))
<1> DEFINE s == a.store
           n == s.active
           left == Abandoned(s, rnd)
           next == SetPosition(s, n, Following(s), rnd)
           over == IsEmpty(s) \/ (AtEnd(s) /\ ~ repeat_all)
           b == AdvanceDo(a, rnd)
<1> SUFFICES Answers(b)
  OBVIOUS
<1>1. \/ a.answer # "none" /\ b = a
      \/ /\ a.answer = "none"
         /\ \/ repeat_one /\ ~ IsEmpty(s) /\ b = Answered(s, "true")
            \/ over /\ b = Ends(left, Jumplist[n], "none")
            \/ over /\ b = Answered(left, "false")
            \/ IsEmpty(s) /\ b = Answered(s, "false")
            \/ /\ ~ IsEmpty(s)
               /\ \/ b = Answered(next, "true")
                  \/ AtEnd(s) /\ b = Answered(next, "false")
  BY Zenon DEF AdvanceDo, Answered, Ends
<1>2. s \in Stores /\ s.mirror = s.list /\ Settled /\ AllHeard(s)
      /\ Good(s) /\ s.hung = FALSE
      /\ (a.answer = "none" => Untouched(s)) /\ n \in Name
  BY StoreFields DEF Calling, Plain, Answers, Good, Roomy
<1>3. /\ left \in Stores /\ AllHeard(left) /\ left.active = n
      /\ a.answer = "none" => Untouched(left)
      /\ IsEmpty(s) => IsEmpty(left)
  <2>1. LeftBehind(s, left)
    BY <1>2, LeftEffect
  <2>2. AllHeard(left) /\ (Untouched(s) => Untouched(left))
        /\ (IsEmpty(s) => IsEmpty(left))
    BY <1>2, LeftKeeps
  <2> QED
    BY <1>2, <2>1, <2>2 DEF LeftBehind, Same
<1>4. ASSUME ~ IsEmpty(s)
      PROVE  AllHeard(next) /\ next.active = n /\ Inside(next, n)
  <2> DEFINE p == Following(s)
  <2>1. p \in 0..Len(s.list[n]) - 1
    BY <1>2, <1>4, FollowingRange
  <2> HIDE DEF p
  <2>2. p \in Place
    BY <2>1 DEF Place
  <2>3. LET r == SetPosition(s, n, p, rnd)
        IN  r.active = s.active /\ Goes(s, r, n, p)
    BY <1>2, <2>2, SetPositionEffect, SetPositionKeeps
  <2>4. AllHeard(SetPosition(s, n, p, rnd))
    BY <1>2, <2>2, SetPositionTold DEF AllHeard
  <2> QED
    BY <1>2, <2>1, <2>3, <2>4 DEF p, Goes
<1>5. a.answer = "none" /\ AtEnd(s) /\ ~ IsEmpty(s) =>
        position[n] = Len(list[n]) - 1
  BY <1>2, AtItsEnd
<1> HIDE DEF left, next, b
<1>6. CASE a.answer # "none" /\ b = a
  BY <1>6
<1>7. CASE repeat_one /\ ~ IsEmpty(s) /\ b = Answered(s, "true")
  BY <1>2, <1>7, AnsweredFields DEF Answers
<1>8. CASE a.answer = "none" /\ over /\ b = Ends(left, Jumplist[n], "none")
  <2>1. b.answer = "none" /\ b.store = [left EXCEPT !.active = Jumplist[n]]
    BY <1>8 DEF Ends
  <2>2. AllHeard(b.store) /\ Untouched(b.store)
    BY <1>3, <1>8, <2>1, JumpHeard, JumpUntouched
  <2> QED
    BY <2>1, <2>2 DEF Answers
<1>9. CASE a.answer = "none" /\ over /\ b = Answered(left, "false")
  <2>1. b.store = left /\ b.answer = "false"
    BY <1>9, AnsweredFields
  <2>2. IsEmpty(left) \/ position[n] = Len(list[n]) - 1
    BY <1>3, <1>5, <1>9
  <2> QED
    BY <1>3, <2>1, <2>2 DEF Answers
<1>10. CASE IsEmpty(s) /\ b = Answered(s, "false")
  BY <1>2, <1>10, AnsweredFields DEF Answers
<1>11. CASE ~ IsEmpty(s) /\ b = Answered(next, "true")
  <2>1. b.store = next /\ b.answer = "true"
    BY <1>11, AnsweredFields
  <2>2. next.list[n] # <<>>
    BY <1>4, <1>11 DEF Inside
  <2> QED
    BY <1>4, <1>11, <2>1, <2>2 DEF Answers, IsEmpty
<1>12. CASE /\ a.answer = "none" /\ ~ IsEmpty(s) /\ AtEnd(s)
            /\ b = Answered(next, "false")
  <2>1. b.store = next /\ b.answer = "false"
    BY <1>12, AnsweredFields
  <2> QED
    BY <1>4, <1>5, <1>12, <2>1 DEF Answers
<1> QED
  BY <1>1, <1>6, <1>7, <1>8, <1>9, <1>10, <1>11, <1>12

LEMMA AdvanceAnswersFit ==
  ASSUME Plain, Fits, NEW rnd \in Media
  PROVE  Answers(Advanced(rnd)) /\ Calling(Advanced(rnd))
<1> DEFINE N == AdvanceCalls
<1>1. PICK f : IsCalls(f, rnd, N) /\ Advanced(rnd) = f[N]
  BY AdvancedIs
<1>2. N \in Nat
  BY AdvanceCallsType
<1> HIDE DEF N
<1>3. f[0] = Answered(Store, "none") /\ \A i \in 0..N : Calling(f[i])
  BY <1>1, <1>2, CallsEffect
<1>4. \A i \in 0..N : Answers(f[i])
  <2> DEFINE S == {i \in 0..N : ~ Answers(f[i])}
  <2>1. SUFFICES ASSUME S # {} PROVE FALSE
    OBVIOUS
  <2>2. S \subseteq Nat
    OBVIOUS
  <2>3. PICK k \in S : \A i \in S : k <= i
    BY <2>1, <2>2, Least
  <2>4. CASE k = 0
    <3>1. Answers(Answered(Store, "none"))
      <4>1. AllHeard(Store) /\ Untouched(Store)
        BY StoreIs, StoreHeard DEF Untouched
      <4> QED
        BY <4>1, AnsweredFields DEF Answers
    <3> QED
      BY <1>3, <2>3, <2>4, <3>1
  <2>5. CASE k # 0
    <3>1. k - 1 \in 0..N /\ k - 1 \notin S /\ k \in 0..N
      BY <1>2, <2>3, <2>5
    <3>2. Answers(f[k - 1]) /\ Calling(f[k - 1])
      BY <1>3, <3>1
    <3>3. f[k] = AdvanceDo(f[k - 1], rnd)
      BY <1>1, <2>5, <3>1, Zenon DEF IsCalls
    <3> QED
      BY <2>3, <3>2, <3>3, AdvanceDoAnswers
  <2> QED
    BY <2>4, <2>5
<1>5. Answers(f[N]) /\ Calling(f[N])
  BY <1>2, <1>3, <1>4
<1> QED
  BY <1>1, <1>5

-----------------------------------------------------------------------------
(***************************************************************************)
(* The theorems.                                                           *)
(***************************************************************************)

LEMMA DrawsType ==
  ASSUME NEW N
  PROVE  DrawsFor(N) \subseteq Media /\ Draws \subseteq Media
BY DEF Draws, DrawsFor, Media

\* What the update of two playlists draws, the update of all may draw.
LEMMA DrawsGrow ==
  ASSUME Plain, NEW n \in Name
  PROVE  DrawsFor({n, active}) \subseteq Draws
BY DEF Plain, Draws, DrawsFor, Media

\* Every operation that returns ends in a store.
LEMMA OperationLeads ==
  ASSUME Plain, Fits, NEW n \in Name, NEW rnd \in Draws,
         \/ Load(n)
         \/ Edit(n, rnd)
         \/ CurrentEntry(rnd)
         \/ \E pos \in 0..MaxLen : SetNext(pos, rnd)
         \/ \E delta \in -1..1 : SetNextRel(delta, rnd)
         \/ \E answer \in {"true", "false"} : Advance(answer, rnd)
  PROVE  \E s : Leads(s)
<1>1. rnd \in Media
  BY DrawsType
<1>2. CASE Load(n)
  BY <1>2, LoadLeads DEF Load, Begins
<1>3. CASE Edit(n, rnd)
  <2>1. CASE \E e \in Entry : AddEntry(n, e, rnd)
    BY <1>1, <2>1, AddEntryLeads DEF AddEntry, Begins
  <2>2. CASE \E p \in 0..MaxLen, e \in Entry : InsertEntry(n, p, e, rnd)
    BY <1>1, <2>2, InsertEntryLeads DEF InsertEntry, Begins
  <2>3. CASE \E p \in 0..MaxLen : RemoveEntry(n, p, rnd)
    BY <1>1, <2>3, RemoveEntryLeads DEF RemoveEntry, Begins
  <2>4. CASE \E p, q \in 0..MaxLen : MoveEntry(n, p, q, rnd)
    BY <1>1, <2>4, MoveEntryLeads DEF MoveEntry, Begins
  <2>5. CASE \E f \in Orders(Len(list[n])) : Shuffle(n, f, rnd)
    BY <1>1, <2>5, ShuffleLeads DEF Shuffle, Begins
  <2>6. CASE \E f \in Orders(Len(list[n])) : Sort(n, f, rnd)
    BY <1>1, <2>6, SortLeads DEF Sort, Begins
  <2>7. CASE Clear(n, rnd)
    BY <1>1, <2>7, ClearLeads DEF Clear, Begins
  <2> QED
    BY <1>3, <2>1, <2>2, <2>3, <2>4, <2>5, <2>6, <2>7, Zenon DEF Edit
<1>4. CASE CurrentEntry(rnd)
  BY <1>1, <1>4, CurrentEntryLeads DEF CurrentEntry, Begins
<1>5. CASE \E pos \in 0..MaxLen : SetNext(pos, rnd)
  BY <1>1, <1>5, SetCurrentPositionLeads DEF SetNext, Begins
<1>6. CASE \E delta \in -1..1 : SetNextRel(delta, rnd)
  BY <1>1, <1>6, SetCurrentPositionLeads, Zenon DEF SetNextRel, Begins
<1>7. CASE \E answer \in {"true", "false"} : Advance(answer, rnd)
  BY <1>1, <1>7, AdvanceLeads DEF Advance, Begins
<1> QED
  BY <1>2, <1>3, <1>4, <1>5, <1>6, <1>7

\* What holds between the operations.
Ordered == Sound /\ (hung => Circle \/ \E m \in Name : Jam(m))

LEMMA PlainInit == Init => Plain /\ Ordered
<1> SUFFICES ASSUME Init PROVE Plain /\ Ordered
  OBVIOUS
<1>1. /\ list = [n \in Name |-> <<>>] /\ position = [n \in Name |-> -1]
      /\ setup \in Setups /\ active \in Name /\ mirror = list
      /\ repeat_one = FALSE /\ repeat_all = FALSE /\ misled = {} /\ late = {}
      /\ hung = FALSE
  BY DEF Init
<1>2. <<>> \in Seq(Item) /\ Len(<<>>) = 0 /\ -1 \in Place
  BY DEF Place
<1>3. Plain
  BY <1>1, <1>2 DEF Plain, Settled
<1>4. Sound
  BY <1>1, <1>2, SizesKnown DEF Sound, Rests, Ranged
<1> QED
  BY <1>1, <1>3, <1>4 DEF Ordered

LEMMA NextBegins == Next => Begins
<1>1. \A n, rnd : Edit(n, rnd) => Begins
  <2>1. \A n, e, rnd : AddEntry(n, e, rnd) => Begins
    BY Zenon DEF AddEntry
  <2>2. \A n, p, e, rnd : InsertEntry(n, p, e, rnd) => Begins
    BY DEF InsertEntry
  <2>3. \A n, p, rnd : RemoveEntry(n, p, rnd) => Begins
    BY Zenon DEF RemoveEntry
  <2>4. \A n, p, q, rnd : MoveEntry(n, p, q, rnd) => Begins
    BY Zenon DEF MoveEntry
  <2>5. \A n, f, rnd : Shuffle(n, f, rnd) \/ Sort(n, f, rnd) => Begins
    BY Zenon DEF Shuffle, Sort
  <2>6. \A n, rnd : Clear(n, rnd) => Begins
    BY Zenon DEF Clear
  <2> QED
    BY <2>1, <2>2, <2>3, <2>4, <2>5, <2>6, Zenon DEF Edit
<1>2. \A rnd, pos, delta, answer :
        CurrentEntry(rnd) \/ SetNext(pos, rnd) \/ SetNextRel(delta, rnd)
          \/ Advance(answer, rnd) \/ AdvanceHangs(rnd) => Begins
  BY Zenon DEF CurrentEntry, SetNext, SetNextRel, Advance, AdvanceHangs
<1>3. \A n : Load(n) \/ ConfigChanged => Begins
  BY Zenon DEF Load, ConfigChanged
<1> QED
  BY <1>1, <1>2, <1>3, Zenon DEF Next

LEMMA PlainStep ==
  ASSUME Plain, Ordered, [Next]_vars
  PROVE  Plain' /\ Ordered'
<1>1. CASE UNCHANGED vars
  BY <1>1 DEF vars, Plain, Settled, Ordered, Sound, Rests, Ranged, Jam, Circle, Kinds,
              Jumplist
<1>2. ASSUME Next PROVE Fits
  BY <1>2, NextBegins DEF Begins, Fits, Ordered
<1>3. CASE ConfigChanged
  <2>1. /\ ~ hung /\ UNCHANGED <<setup, list, position, active, mirror, late, hung>>
        /\ misled' = {}
    BY <1>3 DEF ConfigChanged, Begins
  <2>2. repeat_one' \in BOOLEAN /\ repeat_all' \in BOOLEAN
    BY <1>3 DEF ConfigChanged, Plain
  <2> QED
    BY <2>1, <2>2 DEF Plain, Settled, Ordered, Sound, Rests, Ranged, Jam, Kinds,
                      Jumplist
<1>4. CASE Fits /\ \E rnd \in Draws : AdvanceHangs(rnd)
  BY <1>4, DrawsType, HangsOn DEF Ordered
<1>5. CASE Fits /\ \E s : Leads(s)
  <2>1. PICK s : Leads(s)
    BY <1>5
  <2>2. Plain' /\ Sound' /\ (hung' => \E m \in Name : Jam(m)')
    BY <1>5, <2>1, LeadsOn
  <2> QED
    BY <2>2 DEF Ordered
<1>6. ASSUME Fits, Next, ~ ConfigChanged, ~ \E rnd \in Draws : AdvanceHangs(rnd)
      PROVE  \E s : Leads(s)
  <2>1. CASE \E n \in Name : Load(n)
    BY <2>1, LoadLeads
  <2>2. CASE \E n \in Name : \E rnd \in DrawsFor({n, active}) : Edit(n, rnd)
    BY <1>6, <2>2, DrawsGrow, OperationLeads, Zenon
  <2>3. CASE \E rnd \in Draws :
               \/ CurrentEntry(rnd)
               \/ \E pos \in 0..MaxLen : SetNext(pos, rnd)
               \/ \E delta \in -1..1 : SetNextRel(delta, rnd)
               \/ \E answer \in {"true", "false"} : Advance(answer, rnd)
    <3>1. active \in Name
      BY DEF Plain
    <3> QED
      BY <1>6, <2>3, <3>1, OperationLeads, Zenon
  <2> QED
    BY <1>6, <2>1, <2>2, <2>3, Zenon DEF Next
<1> QED
  BY <1>1, <1>2, <1>3, <1>4, <1>5, <1>6

\* The client's copy: whatever the playlists and the setup, and whichever is
\* edited, a client that applies the "changed" broadcasts has the server's entries
\* when an operation returns, the updates inside it (on_playlist_updated) included.
THEOREM MirrorsMatch == Spec => []MirrorMatches
<1>1. Init => Plain /\ Ordered
  BY PlainInit
<1>2. (Plain /\ Ordered) /\ [Next]_vars => (Plain /\ Ordered)'
  BY PlainStep
<1>3. Plain => MirrorMatches
  BY DEF Plain, MirrorMatches
<1> QED
  BY <1>1, <1>2, <1>3, PTL DEF Spec

LEMMA OrderedAlways == Spec => [](Plain /\ Ordered)
<1>1. Init => Plain /\ Ordered
  BY PlainInit
<1>2. (Plain /\ Ordered) /\ [Next]_vars => (Plain /\ Ordered)'
  BY PlainStep
<1> QED
  BY <1>1, <1>2, PTL DEF Spec

\* The position is that of an entry, -1, or just behind the end of a playlist
\* with a jumplist, whatever signals trimmed and refilled the playlist during the
\* operation, unless an insertion left the playlist to be trimmed late; the bound
\* of the entries is kept.
THEOREM PositionsInRange == Spec => []PositionInRange
<1>1. Plain /\ Ordered => PositionInRange
  <2>1. SUFFICES ASSUME Plain, Ordered PROVE PositionInRange
    OBVIOUS
  <2>2. ASSUME NEW n \in Name
        PROVE  /\ list[n] \in Seq(Item) /\ Len(list[n]) <= MaxLen
               /\ position[n] \in -1..MaxLen
               /\ \/ n \in late
                  \/ position[n] < Len(list[n])
                  \/ position[n] = Len(list[n]) /\ Jumplist[n] # NoList
    <3>1. /\ Len(list[n]) <= MaxLen
          /\ Rests(n, list[n], position[n]) \/ Jam(n)
      BY <2>1 DEF Ordered, Sound
    <3>2. Len(list[n]) \in Nat /\ list[n] \in Seq(Item) /\ position[n] \in Place
      BY <2>1 DEF Plain
    <3>3. n \in late => position[n] <= History + 1
      BY <3>1, <3>2, SizesKnown DEF Rests, Owes, Jam, Place
    <3>4. n \notin late => Ranged(n, list[n], position[n])
      BY <3>1 DEF Rests, Jam
    <3> QED
      BY <3>1, <3>2, <3>3, <3>4, SizesKnown DEF Ranged, Place
  <2>3. TypeOK
    BY <2>1, <2>2 DEF Plain, Settled, TypeOK, Item
  <2> QED
    BY <2>2, <2>3 DEF PositionInRange
<1> QED
  BY <1>1, OrderedAlways, PTL

\* Between operations no more than History entries lie before the current entry
\* of a queue or party shuffle, and one more of one that is to be trimmed late
\* (on_playlist_updated).
THEOREM HistoriesKept == Spec => []HistoryKept
<1>1. Plain /\ Ordered => HistoryKept
  <2>1. SUFFICES ASSUME Plain, Ordered, NEW n \in Name, Kinds[n] # "list"
                 PROVE  position[n] <= IF n \in late THEN History + 1 ELSE History
    BY DEF HistoryKept
  <2>2. position[n] \in Place /\ (Rests(n, list[n], position[n]) \/ Jam(n))
    BY <2>1 DEF Plain, Ordered, Sound
  <2> QED
    BY <2>1, <2>2, SizesKnown DEF Rests, Owes, Jam, Place, Ordered, Sound, Plain
<1> QED
  BY <1>1, OrderedAlways, PTL

\* xmms_playlist_advance_do ends unless the jumplists lead round a circle of empty
\* playlists, and the trimming in xmms_playlist_update_queue unless the playlist
\* was late and is empty; for any number of playlists.
THEOREM OnlyEmptyCirclesHang == Spec => []HangsOnlyWhenEmpty
<1>1. Plain /\ Ordered => HangsOnlyWhenEmpty
  <2>1. SUFFICES ASSUME Plain, Ordered, hung PROVE HangsOnlyWhenEmpty
    BY DEF HangsOnlyWhenEmpty
  <2>2. CASE Circle
    BY <2>2, Zenon DEF Circle, EmptyCircle, HangsOnlyWhenEmpty
  <2>3. CASE \E m \in Name : Jam(m)
    <3>1. PICK m \in Name : Jam(m)
      BY <2>3
    <3>2. list[m] \in Seq(Item)
      BY <2>1 DEF Plain
    <3>3. m \in late /\ list[m] = <<>> /\ position[m] > History
      BY <3>1, <3>2, SizesKnown DEF Jam
    <3> QED
      BY <3>3 DEF HangsOnlyWhenEmpty
  <2> QED
    BY <2>1, <2>2, <2>3 DEF Ordered
<1> QED
  BY <1>1, OrderedAlways, PTL

-----------------------------------------------------------------------------
(***************************************************************************)
(* What a step may never do.                                               *)
(***************************************************************************)

StepKeeps ==
  \A n \in Name \ late :
    position[n] \in 0..Len(list[n]) - 1 =>
      \/ CurrentIs(n, list[n][position[n] + 1])
      \/ position'[n] = -1 /\ \E rnd \in Draws : Clear(n, rnd)
      \/ /\ position'[n] = position[n] - 1
         /\ position[n] + 1 < Len(list[n]) =>
              list'[n][position'[n] + 2] = list[n][position[n] + 2]
         /\ \E rnd \in Draws : RemoveEntry(n, position[n], rnd)
      \/ \E rnd \in Draws : Going(rnd)

StepTells ==
  \A n \in misled' \ late :
    \/ \E rnd \in Draws : Clear(n, rnd)
    \/ \E rnd \in Draws, f \in Orders(Len(list[n])) : Sort(n, f, rnd)
    \/ /\ Kinds[n] # "list"
       /\ \E rnd \in Draws, p, q \in 0..MaxLen : MoveEntry(n, p, q, rnd)

StepAnswers ==
  \A rnd \in Draws :
    /\ ~ (HasNext' /\ (position'[active'] # -1 \/ repeat_one)) /\ Advance("true", rnd)
         => /\ repeat_one /\ list'[active'] # <<>>
            /\ \/ active' \in late
               \/ position'[active'] = Len(list'[active']) /\ Jumplist[active'] # NoList
    /\ (list'[active'] # <<>> /\ position[active'] # Len(list[active']) - 1)
         => ~ Advance("false", rnd)

LEMMA StaysFine == Quiet /\ Stays => StepKeeps /\ StepTells
<1>1. Quiet => StepTells
  BY DEF Quiet, StepTells
<1> QED
  BY <1>1, Zenon DEF Stays, CurrentStays, StepKeeps

LEMMA EditFine ==
  ASSUME Plain, Fits, NEW n \in Name, NEW rnd \in DrawsFor({n, active}), Edit(n, rnd)
  PROVE  StepKeeps /\ StepTells
<1>1. rnd \in Media /\ rnd \in Draws
  BY DrawsType, DrawsGrow
<1>2. CASE \E e \in Entry : AddEntry(n, e, rnd)
  BY <1>1, <1>2, AddEntryStays, StaysFine
<1>3. CASE \E p \in 0..MaxLen, e \in Entry : InsertEntry(n, p, e, rnd)
  BY <1>1, <1>3, InsertEntryStays, StaysFine
<1>4. CASE \E p \in 0..MaxLen : RemoveEntry(n, p, rnd)
  <2>1. PICK p \in 0..MaxLen : RemoveEntry(n, p, rnd)
    BY <1>4
  <2>2. /\ Quiet
        /\ \A m \in Name \ late :
             \/ CurrentStays(m)
             \/ /\ m = n /\ p = position[n] /\ position'[n] = position[n] - 1
                /\ position[n] + 1 < Len(list[n]) =>
                     list'[n][position'[n] + 2] = list[n][position[n] + 2]
    BY <1>1, <2>1, RemoveEntryStays, Zenon
  <2>3. StepKeeps
    BY <1>1, <2>1, <2>2, Zenon DEF CurrentStays, StepKeeps
  <2> QED
    BY <2>2, <2>3 DEF Quiet, StepTells
<1>5. CASE \E p, q \in 0..MaxLen : MoveEntry(n, p, q, rnd)
  <2>1. Stays /\ QuietBut(n) /\ (Kinds[n] = "list" => Quiet)
    BY <1>1, <1>5, MoveEntryStays
  <2>2. \E r \in Draws, p, q \in 0..MaxLen : MoveEntry(n, p, q, r)
    BY <1>1, <1>5
  <2>3. \A m \in misled' \ late : m = n /\ Kinds[n] # "list"
    BY <2>1 DEF Quiet, QuietBut
  <2> QED
    BY <2>1, <2>2, <2>3, Zenon DEF Stays, CurrentStays, StepKeeps, StepTells
<1>6. CASE \E f \in Orders(Len(list[n])) : Shuffle(n, f, rnd)
  BY <1>1, <1>6, ShuffleStays, StaysFine
<1>7. CASE \E f \in Orders(Len(list[n])) : Sort(n, f, rnd)
  <2>1. Stays /\ QuietBut(n)
    BY <1>1, <1>7, SortStays
  <2>2. \E r \in Draws, f \in Orders(Len(list[n])) : Sort(n, f, r)
    BY <1>1, <1>7
  <2>3. \A m \in misled' \ late : m = n
    BY <2>1 DEF QuietBut
  <2> QED
    BY <2>1, <2>2, <2>3, Zenon DEF Stays, CurrentStays, StepKeeps, StepTells
<1>8. CASE Clear(n, rnd)
  <2>1. /\ \A m \in Name : CurrentStays(m) \/ (m = n /\ position'[n] = -1)
        /\ QuietBut(n)
    BY <1>1, <1>8, ClearStays
  <2>2. \A m \in misled' \ late : m = n
    BY <2>1 DEF QuietBut
  <2> QED
    BY <1>1, <1>8, <2>1, <2>2, Zenon DEF CurrentStays, StepKeeps, StepTells
<1> QED
  BY <1>2, <1>3, <1>4, <1>5, <1>6, <1>7, <1>8, Zenon DEF Edit

LEMMA GoesFine ==
  ASSUME NEW rnd \in Draws, Going(rnd), Quiet
  PROVE  StepKeeps /\ StepTells
<1>1. StepTells
  BY DEF Quiet, StepTells
<1> QED
  BY <1>1, Zenon DEF StepKeeps

LEMMA GoingFine ==
  ASSUME Plain, Fits, NEW rnd \in Draws,
         \/ \E pos \in 0..MaxLen : SetNext(pos, rnd)
         \/ \E delta \in -1..1 : SetNextRel(delta, rnd)
         \/ \E answer \in {"true", "false"} : Advance(answer, rnd)
  PROVE  StepKeeps /\ StepTells
<1>1. rnd \in Media
  BY DrawsType
<1>2. CASE \E pos : SetCurrentPosition(pos, rnd)
  <2>1. PICK pos : SetCurrentPosition(pos, rnd)
    BY <1>2
  <2>2. Quiet /\ pos \in 0..MaxLen
    BY <1>1, <2>1, SetCurrentPositionQuiet
  <2>3. Going(rnd)
    BY <2>1, <2>2, Zenon DEF Going
  <2> QED
    BY <2>2, <2>3, GoesFine
<1>3. CASE \E answer \in {"true", "false"} : Advance(answer, rnd)
  <2>1. Going(rnd)
    BY <1>3, Zenon DEF Going
  <2>2. Quiet
    BY <1>1, <1>3, AdvanceAnswersFit, DoneTold DEF Advance, Done, Yields, Answers
  <2> QED
    BY <2>1, <2>2, GoesFine
<1> QED
  BY <1>2, <1>3, Zenon DEF SetNext, SetNextRel

LEMMA StepFine ==
  ASSUME Plain, Fits, Next
  PROVE  StepKeeps /\ StepTells
<1>1. CASE ConfigChanged
  <2>1. list' = list /\ position' = position /\ misled' = {}
    BY <1>1 DEF ConfigChanged
  <2>2. \A m \in Name : CurrentStays(m)
    BY <2>1 DEF CurrentStays, CurrentIs
  <2> QED
    BY <2>1, <2>2, StaysFine DEF Quiet, Stays
<1>2. CASE \E n \in Name : Load(n)
  BY <1>2, LoadStays, StaysFine
<1>3. CASE \E n \in Name : \E rnd \in DrawsFor({n, active}) : Edit(n, rnd)
  BY <1>3, EditFine
<1>4. CASE \E rnd \in Draws : CurrentEntry(rnd)
  BY <1>4, DrawsType, CurrentEntryStays, StaysFine
<1>5. CASE \E rnd \in Draws :
             \/ \E pos \in 0..MaxLen : SetNext(pos, rnd)
             \/ \E delta \in -1..1 : SetNextRel(delta, rnd)
             \/ \E answer \in {"true", "false"} : Advance(answer, rnd)
  BY <1>5, GoingFine, Zenon
<1>6. CASE \E rnd \in Draws : AdvanceHangs(rnd)
  <2>1. PICK rnd \in Draws : AdvanceHangs(rnd)
    BY <1>6
  <2>2. Quiet
    <3>1. rnd \in Media
      BY DrawsType
    <3>2. AllHeard(Advanced(rnd).store) /\ Advanced(rnd).store \in Stores
      BY <3>1, AdvanceAnswersFit DEF Answers, Calling
    <3> DEFINE r == [Advanced(rnd).store EXCEPT !.hung = TRUE]
    <3>3. AllHeard(r)
      BY <3>2 DEF AllHeard, Heard, Stores
    <3>4. Yields(r)
      BY <2>1 DEF AdvanceHangs, Done, Yields
    <3> QED
      BY <3>3, <3>4, DoneTold
  <2>3. Going(rnd)
    BY <2>1, Zenon DEF Going
  <2> QED
    BY <2>2, <2>3, GoesFine
<1> QED
  BY <1>1, <1>2, <1>3, <1>4, <1>5, <1>6, Zenon DEF Next

LEMMA AnswersFine ==
  ASSUME Plain, Fits
  PROVE  StepAnswers
<1>1. ASSUME NEW rnd \in Draws, Advance("true", rnd)
      PROVE  /\ list'[active'] # <<>>
             /\ \/ position'[active'] \in 0..Len(list'[active']) - 1
                \/ repeat_one /\ position'[active'] < Len(list'[active'])
                \/ /\ repeat_one
                   /\ \/ active' \in late
                      \/ /\ position'[active'] = Len(list'[active'])
                         /\ Jumplist[active'] # NoList
  <2> DEFINE a == Advanced(rnd)
  <2>1. a.answer = "true" /\ Done(a.store)
    BY <1>1 DEF Advance
  <2>2. Answers(a) /\ Calling(a)
    BY DrawsType, AdvanceAnswersFit
  <2> HIDE DEF a
  <2> DEFINE s == a.store
  <2>3. list' = s.list /\ position' = s.position /\ active' = s.active
    BY <2>1 DEF Done, Returns
  <2>4. s.active \in Name /\ s.position[s.active] \in Place
        /\ s.list[s.active] \in Seq(Item)
    BY <2>2 DEF Calling, Stores
  <2>5. Rests(s.active, s.list[s.active], s.position[s.active])
    BY <2>2, <2>4 DEF Calling, Good, Fine
  <2>6. s.list[s.active] # <<>> /\ (repeat_one \/ Inside(s, s.active))
    BY <2>1, <2>2 DEF Answers, IsEmpty
  <2>7. s.active \in late \/ Ranged(s.active, s.list[s.active], s.position[s.active])
    BY <2>5 DEF Rests
  <2> HIDE DEF s
  <2> QED
    BY <2>3, <2>4, <2>6, <2>7 DEF Inside, Ranged, Place
<1>2. ASSUME NEW rnd \in Draws, Advance("false", rnd)
      PROVE  list'[active'] = <<>> \/ position[active'] = Len(list[active']) - 1
  <2> DEFINE a == Advanced(rnd)
  <2>1. a.answer = "false" /\ Done(a.store)
    BY <1>2 DEF Advance
  <2>2. Answers(a)
    BY DrawsType, AdvanceAnswersFit
  <2> HIDE DEF a
  <2> QED
    BY <2>1, <2>2 DEF Done, Returns, Answers, IsEmpty
<1>3. \/ /\ active' \in Name
         /\ Len(list'[active']) \in Nat
         /\ position'[active'] \in Place
      \/ \A rnd \in Draws : ~ Advance("true", rnd) /\ ~ Advance("false", rnd)
  <2>1. SUFFICES ASSUME NEW rnd \in Draws, NEW c, Advance(c, rnd)
                 PROVE  /\ active' \in Name /\ Len(list'[active']) \in Nat
                        /\ position'[active'] \in Place
    BY Zenon
  <2>2. Done(Advanced(rnd).store) /\ Advanced(rnd).store \in Stores
    BY <2>1, DrawsType, AdvanceAnswersFit DEF Advance, Calling
  <2> QED
    BY <2>2 DEF Done, Returns, Stores
<1> QED
  <2>1. SUFFICES ASSUME NEW rnd \in Draws
        PROVE  /\ ~ (HasNext' /\ (position'[active'] # -1 \/ repeat_one)) /\ Advance("true", rnd)
                    => /\ repeat_one /\ list'[active'] # <<>>
                       /\ \/ active' \in late
                          \/ /\ position'[active'] = Len(list'[active'])
                             /\ Jumplist[active'] # NoList
               /\ (list'[active'] # <<>> /\ position[active'] # Len(list[active']) - 1)
                    => ~ Advance("false", rnd)
    BY DEF StepAnswers
  <2>2. CASE Advance("true", rnd)
    <3>1. HasNext' <=> list'[active'] # <<>> /\ position'[active'] < Len(list'[active'])
      BY DEF HasNext
    <3>2. Len(list'[active']) \in Nat /\ position'[active'] \in Place
      BY <1>3, <2>2, Zenon
    <3>3. position'[active'] \in 0..Len(list'[active']) - 1
            => position'[active'] # -1 /\ position'[active'] < Len(list'[active'])
      BY <3>2
    <3>4. list'[active'] # <<>> /\ position[active'] # Len(list[active']) - 1
            => ~ Advance("false", rnd)
      BY <1>2, Zenon
    <3>5. ASSUME ~ (HasNext' /\ (position'[active'] # -1 \/ repeat_one))
          PROVE  /\ repeat_one /\ list'[active'] # <<>>
                 /\ \/ active' \in late
                    \/ /\ position'[active'] = Len(list'[active'])
                       /\ Jumplist[active'] # NoList
      <4> HIDE DEF HasNext
      <4>1. /\ list'[active'] # <<>>
            /\ \/ position'[active'] \in 0..Len(list'[active']) - 1
               \/ repeat_one /\ position'[active'] < Len(list'[active'])
               \/ /\ repeat_one
                  /\ \/ active' \in late
                     \/ /\ position'[active'] = Len(list'[active'])
                        /\ Jumplist[active'] # NoList
        BY <1>1, <2>2, Zenon
      <4> QED
        BY <3>1, <3>3, <3>5, <4>1, Zenon
    <3> QED
      BY <3>4, <3>5
  <2>3. CASE ~ Advance("true", rnd)
    <3>1. list'[active'] # <<>> /\ position[active'] # Len(list[active']) - 1
            => ~ Advance("false", rnd)
      BY <1>2, Zenon
    <3> QED
      BY <2>3, <3>1
  <2> QED
    BY <2>2, <2>3

\* xmms_playlist_advance answers TRUE only with an entry there to play, but for the
\* two cases with repeat_one, and FALSE only at an end, through any number of
\* jumps, whatever the setup.
THEOREM AnswersAreRight == Spec => AdvanceAnswers
<1>1. (Plain /\ Ordered) /\ [Next]_vars => [StepAnswers]_vars
  <2>1. SUFFICES ASSUME Plain, Ordered, Next PROVE StepAnswers
    OBVIOUS
  <2>2. Fits
    BY <2>1, NextBegins DEF Begins, Fits, Ordered
  <2> QED
    BY <2>1, <2>2, AnswersFine
<1>2. Spec => [][StepAnswers]_vars
  BY <1>1, OrderedAlways, PTL DEF Spec
<1> QED
  BY <1>2 DEF AdvanceAnswers, StepAnswers

\* No edit makes another entry the current one, whatever update it causes, unless
\* the playlist was late: the position moves along with the entry (playlist.c, all
\* operations).
THEOREM CurrentStaysCurrent == Spec => CurrentKept
<1>1. (Plain /\ Ordered) /\ [Next]_vars => [StepKeeps]_vars
  <2>1. SUFFICES ASSUME Plain, Ordered, Next PROVE StepKeeps
    OBVIOUS
  <2>2. Fits
    BY <2>1, NextBegins DEF Begins, Fits, Ordered
  <2> QED
    BY <2>1, <2>2, StepFine
<1>2. Spec => [][StepKeeps]_vars
  BY <1>1, OrderedAlways, PTL DEF Spec
<1> QED
  BY <1>2 DEF CurrentKept, StepKeeps

\* The position that a playlist is left with is the one broadcast last, but for
\* the three operations that PositionTold names and the playlists that were late.
THEOREM PositionsAreTold == Spec => PositionTold
<1>1. (Plain /\ Ordered) /\ [Next]_vars => [StepTells]_vars
  <2>1. SUFFICES ASSUME Plain, Ordered, Next PROVE StepTells
    OBVIOUS
  <2>2. Fits
    BY <2>1, NextBegins DEF Begins, Fits, Ordered
  <2> QED
    BY <2>1, <2>2, StepFine
<1>2. Spec => [][StepTells]_vars
  BY <1>1, OrderedAlways, PTL DEF Spec
<1> QED
  BY <1>2 DEF PositionTold, StepTells
=============================================================================
