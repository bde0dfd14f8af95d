------------------------- MODULE CollectionsProofs -------------------------
(***************************************************************************)
(* What can be proved of the collections (Collections.tla), for any set    *)
(* of clients, labels and shapes and any bound of the commands.            *)
(*                                                                         *)
(* A reference leads to the operator its name leads to (ReferencesBound),  *)
(* the validation keeps loops out and comes to an end (LoopsKeptOut), and  *)
(* the active playlist has a name (ActiveHasName), up to the names, the    *)
(* histories and the namespace "*" that the properties themselves except.  *)
(*                                                                         *)
(* What is reached in the graph is Closure, which is computed in as many   *)
(* layers as the graph has members. The first section shows that this is   *)
(* the least set that is closed, which is all that is used of it then.     *)
(* The graph an operation leaves is described by a predicate (IsSaved,     *)
(* IsStripped, IsRenamed, IsRestored) that names which operators changed   *)
(* and how; from it follow, one lemma each, that references are in tune    *)
(* and that a search comes to an end.                                      *)
(*                                                                         *)
(* That there is no loop follows from the search: walks along operands     *)
(* that come to an end whatever they begin with, if they stop at a         *)
(* reference in all namespaces (Acyclic), together with references that    *)
(* are in tune, leave no way from a label back to it (NoLoopWhenInTune).   *)
(* A walk that is endless then goes through a reference in all namespaces  *)
(* (EndlessByStar).  An operation that changes what follows an operator    *)
(* keeps the walks finite if a cycle after it must have gone through the   *)
(* change, and the cycle then gives what the validation had excluded       *)
(* (SaveAcyclic, RemoveAcyclic, RestoredAcyclic).                          *)
(***************************************************************************)
EXTENDS Collections, FiniteSetTheorems, FunctionTheorems, WellFoundedInduction,
        SequenceTheorems, TLAPS

-----------------------------------------------------------------------------
(***************************************************************************)
(* Closure is the least set that is closed. Induction over the natural     *)
(* numbers is by the least counterexample.                                 *)
(***************************************************************************)

LEMMA OrderOfNat ==
  \E R : /\ IsWellFoundedOn(R, Nat)
         /\ \A k, m \in Nat : k < m => <<k, m>> \in R
<1>1. \A k, m \in Nat : k < m => <<k, m>> \in OpToRel(<, Nat)
  BY DEF OpToRel
<1> QED
  BY <1>1, NatLessThanWellFounded, ZenonT(30)

\* A set of natural numbers has a least element.
LEMMA Least ==
  ASSUME NEW S, S \subseteq Nat, S # {}
  PROVE  \E m \in S : \A k \in S : m <= k
<1>1. PICK R : /\ IsWellFoundedOn(R, Nat)
               /\ \A k, m \in Nat : k < m => <<k, m>> \in R
  BY OrderOfNat
<1>2. PICK m \in S : \A k \in S : ~(<<k, m>> \in R)
  <2>1. IsWellFoundedOn(R, Nat)
    BY <1>1
  <2> QED
    BY <2>1, WFMin
<1>3. ASSUME NEW k \in S PROVE m <= k
  <2>1. k \in Nat /\ m \in Nat
    OBVIOUS
  <2>2. ~(k < m)
    BY <1>1, <1>2, <2>1
  <2> QED
    BY <2>1, <2>2
<1> QED
  BY <1>3

\* One that holds 0 and what follows a member is all of them.
LEMMA ByInduction ==
  ASSUME NEW P, P \subseteq Nat, 0 \in P, \A k \in P : k + 1 \in P
  PROVE  P = Nat
<1> SUFFICES ASSUME Nat \ P # {} PROVE FALSE
  OBVIOUS
<1> DEFINE S == Nat \ P
<1>1. S \subseteq Nat /\ S # {}
  OBVIOUS
<1> HIDE DEF S
<1>2. PICK m \in S : \A k \in S : m <= k
  BY <1>1, Least
<1>3. m \in Nat /\ m \notin P /\ m # 0
  BY <1>2 DEF S
<1>4. m - 1 \in Nat /\ ~(m <= m - 1) /\ (m - 1) + 1 = m
  BY <1>3
<1>5. m - 1 \in P
  BY <1>2, <1>4 DEF S
<1> QED
  BY <1>3, <1>4, <1>5

-----------------------------------------------------------------------------
\* The layers of Closure.
IsWithin(f, E, S, n) ==
  f = [k \in 0..n |-> IF k = 0 THEN S
                      ELSE LET T == f[k - 1] IN T \cup UNION {E[i] : i \in T}]

Further(E, T) == T \cup UNION {E[i] : i \in T}

\* However many layers there are, the function that computes them exists.
LEMMA WithinExists ==
  ASSUME NEW E, NEW S, NEW n \in Nat
  PROVE  \E f : IsWithin(f, E, S, n)
<1> DEFINE P == {k \in Nat : \E f : IsWithin(f, E, S, k)}
<1>1. 0 \in P
  <2> DEFINE f == [k \in 0..0 |-> S]
  <2>1. IsWithin(f, E, S, 0)
    BY DEF IsWithin
  <2> QED
    BY <2>1
<1>2. ASSUME NEW m \in P PROVE m + 1 \in P
  <2>1. PICK f : IsWithin(f, E, S, m)
    OBVIOUS
  <2> DEFINE Next_(T) == T \cup UNION {E[i] : i \in T}
  <2> DEFINE g == [k \in 0..m + 1 |-> IF k = m + 1 THEN Next_(f[m]) ELSE f[k]]
  <2> HIDE DEF Next_
  <2>2. ASSUME NEW k \in 0..m + 1
        PROVE  g[k] = IF k = 0 THEN S ELSE Next_(g[k - 1])
    <3>1. CASE k = m + 1
      BY <3>1
    <3>2. CASE k # m + 1
      <4>1. k \in 0..m /\ (k # 0 => k - 1 \in 0..m + 1 /\ k - 1 # m + 1)
        BY <3>2
      <4>2. f[k] = IF k = 0 THEN S ELSE Next_(f[k - 1])
        BY <2>1, <4>1, Zenon DEF IsWithin, Next_
      <4>3. g[k] = f[k] /\ (k # 0 => g[k - 1] = f[k - 1])
        BY <3>2, <4>1
      <4> HIDE DEF g
      <4> QED
        BY <4>2, <4>3
    <3> QED
      BY <3>1, <3>2
  <2>3. g = [k \in 0..m + 1 |-> g[k]]
    OBVIOUS
  <2> HIDE DEF g
  <2>4. g = [k \in 0..m + 1 |-> IF k = 0 THEN S ELSE Next_(g[k - 1])]
    BY <2>2, <2>3
  <2>5. IsWithin(g, E, S, m + 1)
    BY <2>4 DEF IsWithin, Next_
  <2> QED
    BY <2>5
<1>3. P = Nat
  <2> HIDE DEF P
  <2>1. P \subseteq Nat
    BY DEF P
  <2> QED
    BY <1>1, <1>2, <2>1, ByInduction
<1> QED
  BY <1>3

\* The next layer adds what the members lead to.
LEMMA WithinStep ==
  ASSUME NEW E, NEW S, NEW n \in Nat, NEW f, IsWithin(f, E, S, n)
  PROVE  /\ f[0] = S
         /\ \A k \in 0..n - 1 : f[k + 1] = Further(E, f[k])
<1>1. f[0] = S
  BY DEF IsWithin
<1>2. ASSUME NEW k \in 0..n - 1
      PROVE  f[k + 1] = Further(E, f[k])
  <2>1. k + 1 \in 0..n /\ k + 1 # 0 /\ (k + 1) - 1 = k
    OBVIOUS
  <2>2. f[k + 1] = Further(E, f[(k + 1) - 1])
    BY <2>1, Zenon DEF IsWithin, Further
  <2> QED
    BY <2>1, <2>2
<1> QED
  BY <1>1, <1>2

\* Closure is the last layer.
LEMMA ClosureWithin ==
  ASSUME NEW E, NEW S, NEW n \in Nat, n = Cardinality(DOMAIN E)
  PROVE  \E f : IsWithin(f, E, S, n) /\ Closure(E, S) = f[n]
<1> DEFINE m == Cardinality(DOMAIN E)
           within[k \in 0..m] ==
             IF k = 0 THEN S
             ELSE LET T == within[k - 1] IN T \cup UNION {E[i] : i \in T}
<1>1. \E f : IsWithin(f, E, S, m)
  BY WithinExists
<1>2. within = [k \in 0..m |->
                  IF k = 0 THEN S
                  ELSE LET T == within[k - 1] IN T \cup UNION {E[i] : i \in T}]
  BY <1>1, Zenon DEF IsWithin
<1>3. Closure(E, S) = within[m]
  BY Zenon DEF Closure
<1> HIDE DEF within
<1>4. IsWithin(within, E, S, m)
  BY <1>2, Zenon DEF IsWithin
<1> QED
  BY <1>3, <1>4

\* f computes Closure(E, S) in n steps.
AreLayers(f, E, S, n) ==
  /\ f[0] = S
  /\ \A k \in 0..n - 1 : f[k + 1] = Further(E, f[k])
  /\ Closure(E, S) = f[n]

LEMMA ClosureIs ==
  ASSUME NEW E, NEW S, NEW n \in Nat, n = Cardinality(DOMAIN E)
  PROVE  \E f : AreLayers(f, E, S, n)
<1>1. PICK f : IsWithin(f, E, S, n) /\ Closure(E, S) = f[n]
  BY ClosureWithin
<1>2. /\ f[0] = S
      /\ \A k \in 0..n - 1 : f[k + 1] = Further(E, f[k])
  BY <1>1, WithinStep
<1>3. AreLayers(f, E, S, n)
  BY <1>1, <1>2 DEF AreLayers
<1> QED
  BY <1>3

\* A finite graph, and a set that nothing leads out of.
IsGraph(E) == IsFiniteSet(DOMAIN E) /\ \A x \in DOMAIN E : E[x] \subseteq DOMAIN E

Closed(E, C) == \A x \in C : E[x] \subseteq C

\* Closure(E, S) is in every closed set that S is in ...
LEMMA ClosureLeast ==
  ASSUME NEW E, IsGraph(E), NEW S, NEW C, S \subseteq C, Closed(E, C)
  PROVE  Closure(E, S) \subseteq C
<1>1. PICK n \in Nat : n = Cardinality(DOMAIN E)
  BY FS_CardinalityType DEF IsGraph
<1>0. PICK f : AreLayers(f, E, S, n)
  BY <1>1, ClosureIs
<1>2. /\ f[0] = S
      /\ \A k \in 0..n - 1 : f[k + 1] = Further(E, f[k])
      /\ Closure(E, S) = f[n]
  BY <1>0 DEF AreLayers
<1> DEFINE P == {k \in Nat : k \in 0..n => f[k] \subseteq C}
<1>4. 0 \in P
  BY <1>2
<1>5. ASSUME NEW k \in P PROVE k + 1 \in P
  <2> SUFFICES ASSUME k + 1 \in 0..n PROVE f[k + 1] \subseteq C
    OBVIOUS
  <2>1. k \in 0..n - 1 /\ k \in 0..n
    BY <1>1
  <2>2. f[k] \subseteq C
    BY <2>1
  <2>3. f[k + 1] = Further(E, f[k])
    BY <1>2, <2>1
  <2> QED
    BY <2>2, <2>3 DEF Closed, Further
<1>6. P = Nat
  <2> HIDE DEF P
  <2>1. P \subseteq Nat
    BY DEF P
  <2> QED
    BY <1>4, <1>5, <2>1, ByInduction
<1>7. n \in P
  BY <1>1, <1>6
<1> QED
  BY <1>1, <1>2, <1>7

LEMMA SmallerSubset ==
  ASSUME NEW T, IsFiniteSet(T), NEW U, U \subseteq T, U # T
  PROVE  /\ Cardinality(U) \in Nat /\ Cardinality(T) \in Nat
         /\ Cardinality(U) < Cardinality(T)
<1>1. /\ IsFiniteSet(U) /\ Cardinality(U) <= Cardinality(T)
      /\ Cardinality(T) = Cardinality(U) => T = U
  BY FS_Subset
<1>2. Cardinality(U) \in Nat /\ Cardinality(T) \in Nat
  BY <1>1, FS_CardinalityType
<1> QED
  BY <1>1, <1>2

\* ... and is closed itself: there are enough layers.
LEMMA ClosureType ==
  ASSUME NEW E, IsGraph(E), NEW S, S \subseteq DOMAIN E
  PROVE  /\ S \subseteq Closure(E, S)
         /\ Closure(E, S) \subseteq DOMAIN E
         /\ Closed(E, Closure(E, S))
<1>0. IsFiniteSet(DOMAIN E)
  BY DEF IsGraph
<1>1. PICK n \in Nat : n = Cardinality(DOMAIN E)
  BY <1>0, FS_CardinalityType
<1>3. PICK f : AreLayers(f, E, S, n)
  BY <1>1, ClosureIs
<1>2. /\ f[0] = S
      /\ \A k \in 0..n - 1 : f[k + 1] = Further(E, f[k])
      /\ Closure(E, S) = f[n]
  BY <1>3 DEF AreLayers
<1>4. Closure(E, S) \subseteq DOMAIN E
  <2>1. Closed(E, DOMAIN E)
    BY DEF IsGraph, Closed
  <2> QED
    BY <2>1, ClosureLeast
\* A layer that is not closed is smaller than the next one.
<1> DEFINE P == {k \in Nat : k \in 0..n =>
                   /\ S \subseteq f[k] /\ f[k] \subseteq DOMAIN E
                   /\ Closed(E, f[k]) \/ Cardinality(f[k]) >= k}
<1>5. 0 \in P
  <2>1. Cardinality(S) \in Nat
    BY <1>0, FS_Subset, FS_CardinalityType
  <2>2. Cardinality(f[0]) >= 0
    BY <1>2, <2>1
  <2> QED
    BY <1>2, <2>2
<1>6. ASSUME NEW k \in P PROVE k + 1 \in P
  <2> SUFFICES ASSUME k + 1 \in 0..n
               PROVE  /\ S \subseteq f[k + 1] /\ f[k + 1] \subseteq DOMAIN E
                      /\ Closed(E, f[k + 1]) \/ Cardinality(f[k + 1]) >= k + 1
    OBVIOUS
  <2>1. k \in 0..n - 1 /\ k \in 0..n /\ k \in Nat
    BY <1>1
  <2>2. /\ S \subseteq f[k] /\ f[k] \subseteq DOMAIN E
        /\ Closed(E, f[k]) \/ Cardinality(f[k]) >= k
    BY <2>1
  <2>3. f[k + 1] = Further(E, f[k])
    BY <1>2, <2>1
  <2>4. S \subseteq f[k + 1] /\ f[k + 1] \subseteq DOMAIN E
    BY <2>2, <2>3 DEF IsGraph, Further
  <2>5. CASE Closed(E, f[k])
    <3>1. f[k + 1] = f[k]
      BY <2>3, <2>5 DEF Closed, Further
    <3> QED
      BY <2>4, <2>5, <3>1
  <2>6. CASE ~Closed(E, f[k])
    <3>1. f[k] \subseteq f[k + 1] /\ f[k] # f[k + 1]
      BY <2>3, <2>6 DEF Closed, Further
    <3>2. IsFiniteSet(f[k + 1])
      BY <1>0, <2>4, FS_Subset
    <3>3. /\ Cardinality(f[k]) < Cardinality(f[k + 1])
          /\ Cardinality(f[k]) \in Nat /\ Cardinality(f[k + 1]) \in Nat
      BY <3>1, <3>2, SmallerSubset
    <3>5. Cardinality(f[k + 1]) >= k + 1
      BY <2>1, <2>2, <2>6, <3>3
    <3> QED
      BY <2>4, <3>5
  <2> QED
    BY <2>5, <2>6
<1>7. P = Nat
  <2> HIDE DEF P
  <2>1. P \subseteq Nat
    BY DEF P
  <2> QED
    BY <1>5, <1>6, <2>1, ByInduction
<1>8. /\ S \subseteq f[n] /\ f[n] \subseteq DOMAIN E
      /\ Closed(E, f[n]) \/ Cardinality(f[n]) >= n
  <2>1. n \in P
    BY <1>1, <1>7
  <2> QED
    BY <1>1, <2>1
\* A layer as large as the graph is the graph.
<1>9. Closed(E, f[n])
  <2>1. SUFFICES ASSUME Cardinality(f[n]) >= n PROVE f[n] = DOMAIN E
    BY <1>8 DEF IsGraph, Closed
  <2>2. Cardinality(f[n]) \in Nat
    BY <1>0, <1>8, FS_Subset, FS_CardinalityType
  <2>3. SUFFICES ASSUME f[n] # DOMAIN E PROVE FALSE
    OBVIOUS
  <2>4. Cardinality(f[n]) < n
    BY <1>0, <1>1, <1>8, <2>3, SmallerSubset
  <2> QED
    BY <1>1, <2>1, <2>2, <2>4
<1> QED
  BY <1>2, <1>4, <1>8, <1>9

\* What is reached is reached from one of the members.
LEMMA ClosureFrom ==
  ASSUME NEW E, IsGraph(E), NEW S, S \subseteq DOMAIN E, NEW z \in Closure(E, S)
  PROVE  \E s \in S : z \in Closure(E, {s})
<1> DEFINE C == UNION {Closure(E, {s}) : s \in S}
<1>1. ASSUME NEW s \in S
      PROVE  s \in Closure(E, {s}) /\ Closed(E, Closure(E, {s}))
  BY ClosureType
<1>2. S \subseteq C
  BY <1>1
<1>3. Closed(E, C)
  BY <1>1 DEF Closed
<1>4. Closure(E, S) \subseteq C
  BY <1>2, <1>3, ClosureLeast
<1> QED
  BY <1>4

\* What is reached is there from the start or follows what is reached.
LEMMA ClosureInto ==
  ASSUME NEW E, IsGraph(E), NEW S, S \subseteq DOMAIN E, NEW z \in Closure(E, S)
  PROVE  z \in S \/ \E y \in Closure(E, S) : z \in E[y]
<1> DEFINE C == S \cup UNION {E[y] : y \in Closure(E, S)}
<1>1. /\ S \subseteq Closure(E, S)
      /\ Closed(E, Closure(E, S))
  BY ClosureType
<1>2. C \subseteq Closure(E, S)
  BY <1>1 DEF Closed
<1>3. Closed(E, C)
  BY <1>2 DEF Closed
<1>4. Closure(E, S) \subseteq C
  BY <1>3, ClosureLeast
<1> QED
  BY <1>4

\* What is reached from x is x or reached from what follows it.
LEMMA ClosureStep ==
  ASSUME NEW E, IsGraph(E), NEW x \in DOMAIN E, NEW z \in Closure(E, {x})
  PROVE  z = x \/ \E y \in E[x] : z \in Closure(E, {y})
<1> DEFINE C == {x} \cup Closure(E, E[x])
<1>1. E[x] \subseteq DOMAIN E
  BY DEF IsGraph
<1>2. E[x] \subseteq Closure(E, E[x]) /\ Closed(E, Closure(E, E[x]))
  BY <1>1, ClosureType
<1>3. Closed(E, C)
  BY <1>2 DEF Closed
<1>4. Closure(E, {x}) \subseteq C
  BY <1>3, ClosureLeast
<1> QED
  BY <1>1, <1>4, ClosureFrom

\* A smaller graph reaches less.
LEMMA ClosureMonotone ==
  ASSUME NEW E, IsGraph(E), NEW F, IsGraph(F),
         NEW S, S \subseteq DOMAIN E, NEW T, S \subseteq T, T \subseteq DOMAIN F,
         \A x \in DOMAIN E : x \in DOMAIN F => E[x] \subseteq F[x]
  PROVE  Closure(E, S) \subseteq Closure(F, T)
<1> DEFINE C == Closure(F, T) \cap DOMAIN E
<1>1. T \subseteq Closure(F, T) /\ Closure(F, T) \subseteq DOMAIN F
      /\ Closed(F, Closure(F, T))
  BY ClosureType
<1>2. Closed(E, C)
  BY <1>1 DEF Closed, IsGraph
<1>3. S \subseteq C
  BY <1>1
<1> QED
  BY <1>2, <1>3, ClosureLeast

-----------------------------------------------------------------------------
(***************************************************************************)
(* The lists of operands.                                                  *)
(***************************************************************************)

\* What is added is there, and nothing else is new.
LEMMA AddedType ==
  ASSUME NEW D, NEW s \in Seq(D), NEW i \in D
  PROVE  Added(s, i) \in Seq(D)
BY DEF Added

\* What is added to nothing is alone.
LEMMA AddedFirst ==
  ASSUME NEW i
  PROVE  Added(<<>>, i) = <<i>>
BY DEF Added, Contains

\* What is removed leaves a list of the others ...
LEMMA RemovedType ==
  ASSUME NEW D, NEW s \in Seq(D), NEW i
  PROVE  Removed(s, i) \in Seq(D)
<1>1. CASE ~ \E k \in 1..Len(s) : s[k] = i
  BY <1>1 DEF Removed, RemoveFirst
<1>2. CASE \E k \in 1..Len(s) : s[k] = i
  <2> DEFINE I == {k \in 1..Len(s) : s[k] = i}
  <2>1. I \subseteq Nat /\ I # {} /\ Len(s) \in Nat
    BY <1>2
  <2>2. PICK m \in I : \A k \in I : m <= k
    <3> HIDE DEF I
    <3> QED
      BY <2>1, Least
  <2>3. \A k \in I : (\A j \in I : k <= j) => k = m
    BY <2>1, <2>2
  <2>4. Min(I) = m
    <3> HIDE DEF I
    <3> QED
      BY <2>2, <2>3 DEF Min
  <2>5. Removed(s, i) = RemoveAt(s, m)
    BY <1>2, <2>1, <2>4 DEF Removed, RemoveFirst, SelectInSeq
  <2>6. m \in 1..Len(s)
    BY <2>2
  <2>7. SubSeq(s, 1, m - 1) \in Seq(D) /\ SubSeq(s, m + 1, Len(s)) \in Seq(D)
    BY <2>1, <2>6
  <2>8. RemoveAt(s, m) \in Seq(D)
    BY <2>7 DEF RemoveAt
  <2> QED
    BY <2>5, <2>8
<1> QED
  BY <1>1, <1>2

\* ... and nothing where it was alone.
LEMMA RemovedOnly ==
  ASSUME NEW i
  PROVE  Removed(<<i>>, i) = <<>>
<1> DEFINE s == <<i>>
<1>1. Len(s) = 1 /\ s[1] = i
  OBVIOUS
<1>2. {k \in 1..Len(s) : s[k] = i} = {1}
  BY <1>1
<1>3. Min({1}) = 1
  BY DEF Min
<1>4. Removed(s, i) = RemoveAt(s, 1)
  BY <1>1, <1>2, <1>3 DEF Removed, RemoveFirst, SelectInSeq
<1>5. RemoveAt(s, 1) = <<>>
  BY <1>1 DEF RemoveAt
<1> QED
  BY <1>4, <1>5

-----------------------------------------------------------------------------
(***************************************************************************)
(* Heaps and tables, and what is in use and applied to.                    *)
(***************************************************************************)

LEMMA RangeType ==
  ASSUME NEW D, NEW s \in Seq(D)
  PROVE  Range(s) \subseteq D /\ FirstOf(s) \subseteq Range(s)
<1>1. Range(s) \subseteq D
  BY DEF Range
<1>2. CASE s = <<>>
  BY <1>1, <1>2 DEF FirstOf
<1>3. CASE s # <<>>
  <2>1. 1 \in DOMAIN s /\ Head(s) = s[1]
    BY <1>3
  <2> QED
    BY <1>1, <1>3, <2>1 DEF FirstOf, Range
<1> QED
  BY <1>2, <1>3

\* What a name is looked up as: something the table holds, if anything, and
\* what it holds under the name when that is a label.
LEMMA LookupIs ==
  ASSUME NEW t, NEW D, \A l \in Label : t[l] # None => t[l] \in D, NEW r
  PROVE  /\ Lookup(t, r) # None => Lookup(t, r) \in D
         /\ r \in Label => Lookup(t, r) = t[r]
<1> DEFINE found == {l \in Label : l[2] = r[2] /\ t[l] # None}
           one(l) == l[1] = "Collections" \/ <<"Collections", r[2]>> \notin found
<1>1. Lookup(t, r) = IF r \in Label THEN t[r]
                     ELSE IF found = {} THEN None
                     ELSE t[CHOOSE l \in found : one(l)]
  BY DEF Lookup
<1>2. CASE r \notin Label /\ found # {}
  <2>1. \E l \in found : one(l)
    <3>1. CASE <<"Collections", r[2]>> \in found
      BY <3>1
    <3>2. CASE <<"Collections", r[2]>> \notin found
      BY <1>2, <3>2
    <3> QED
      BY <3>1, <3>2
  <2>2. PICK l : l = CHOOSE x \in found : one(x)
    OBVIOUS
  <2>3. l \in found
    <3> HIDE DEF found, one
    <3> QED
      BY <2>1, <2>2
  <2>4. Lookup(t, r) = t[l] /\ t[l] # None /\ l \in Label
    BY <1>1, <1>2, <2>2, <2>3
  <2> QED
    BY <1>2, <2>4
<1>3. CASE r \in Label \/ found = {}
  BY <1>1, <1>3
<1> QED
  BY <1>2, <1>3

\* What an operator of a heap is, and what it is made of.
LEMMA HeapType ==
  ASSUME NEW h, IsHeap(h), NEW i \in DOMAIN h
  PROVE  /\ h[i] \in [type : Type, idlist : Nat,
                      reference : Target \cup {Nowhere}, operands : Seq(DOMAIN h)]
         /\ h[i].operands \in Seq(DOMAIN h)
         /\ Range(h[i].operands) \subseteq DOMAIN h
         /\ FirstOf(h[i].operands) \subseteq Range(h[i].operands)
         /\ IsReference(h, i) => h[i].reference \in Target
<1>1. /\ h[i] \in [type : Type, idlist : Nat,
                   reference : Target \cup {Nowhere}, operands : Seq(DOMAIN h)]
      /\ IsReference(h, i) => h[i].reference \in Target
  BY DEF IsHeap
<1>2. h[i].operands \in Seq(DOMAIN h)
  BY <1>1
<1> QED
  BY <1>1, <1>2, RangeType

\* Each of the three graphs is one.
LEMMA GraphsOfHeap ==
  ASSUME NEW h, IsHeap(h)
  PROVE  /\ IsGraph(Operands(h)) /\ DOMAIN Operands(h) = DOMAIN h
         /\ IsGraph(Below(h)) /\ DOMAIN Below(h) = DOMAIN h
         /\ IsGraph(Ahead(h)) /\ DOMAIN Ahead(h) = DOMAIN h
<1>1. IsFiniteSet(DOMAIN h)
  BY DEF IsHeap
<1>2. \A i \in DOMAIN h : /\ Range(h[i].operands) \subseteq DOMAIN h
                          /\ FirstOf(h[i].operands) \subseteq DOMAIN h
  BY HeapType
<1> QED
  BY <1>1, <1>2 DEF IsGraph, Operands, Below, Ahead

LEMMA VisitedType ==
  ASSUME NEW h, IsHeap(h), NEW S, S \subseteq DOMAIN h
  PROVE  /\ S \subseteq Visited(h, S) /\ Visited(h, S) \subseteq DOMAIN h
         /\ \A i \in Visited(h, S) :
              ~IsReference(h, i) => Range(h[i].operands) \subseteq Visited(h, S)
<1>1. IsGraph(Below(h)) /\ DOMAIN Below(h) = DOMAIN h
  BY GraphsOfHeap
<1>2. /\ S \subseteq Visited(h, S) /\ Visited(h, S) \subseteq DOMAIN h
      /\ Closed(Below(h), Visited(h, S))
  BY <1>1, ClosureType DEF Visited
<1> QED
  BY <1>2 DEF Closed, Below

\* Induction over what a walk visits.
LEMMA VisitedLeast ==
  ASSUME NEW h, IsHeap(h), NEW S, S \subseteq DOMAIN h,
         NEW C, S \subseteq C, C \subseteq DOMAIN h,
         \A i \in C : ~IsReference(h, i) => Range(h[i].operands) \subseteq C
  PROVE  Visited(h, S) \subseteq C
<1>1. IsGraph(Below(h))
  BY GraphsOfHeap
<1>2. Closed(Below(h), C)
  BY DEF Closed, Below
<1> QED
  BY <1>1, <1>2, ClosureLeast DEF Visited

LEMMA SavedType ==
  ASSUME NEW h, NEW t, IsTable(h, t)
  PROVE  /\ Saved(t) \subseteq DOMAIN h /\ \A r \in Saved(t) : Len(r) = 1
         /\ \A l \in Label : t[l] # None => t[l] \in Saved(t)
BY DEF IsTable, Saved

LEMMA AppliedType ==
  ASSUME NEW h, NEW t, IsHeap(h), IsTable(h, t)
  PROVE  /\ Saved(t) \subseteq Applied(h, t) /\ Applied(h, t) \subseteq DOMAIN h
         /\ \A i \in Applied(h, t) :
              ~IsReference(h, i) => Range(h[i].operands) \subseteq Applied(h, t)
BY SavedType, VisitedType DEF Applied

LEMMA InUseType ==
  ASSUME NEW h, NEW t, IsHeap(h), IsTable(h, t)
  PROVE  /\ Saved(t) \subseteq InUse(h, t) /\ InUse(h, t) \subseteq DOMAIN h
         /\ \A i \in InUse(h, t) : Range(h[i].operands) \subseteq InUse(h, t)
<1>1. IsGraph(Operands(h)) /\ DOMAIN Operands(h) = DOMAIN h
  BY GraphsOfHeap
<1>2. /\ Saved(t) \subseteq InUse(h, t) /\ InUse(h, t) \subseteq DOMAIN h
      /\ Closed(Operands(h), InUse(h, t))
  BY <1>1, SavedType, ClosureType DEF InUse
<1> QED
  BY <1>2 DEF Closed, Operands

-----------------------------------------------------------------------------
(***************************************************************************)
(* Loops of operands, and loops of names.                                  *)
(***************************************************************************)

\* A graph in which something is reached from what follows it has a part in
\* which everything is followed by something.
LEMMA Cycle ==
  ASSUME NEW E, IsGraph(E), NEW x \in DOMAIN E, x \in Closure(E, E[x])
  PROVE  \E C \in SUBSET DOMAIN E : C # {} /\ \A j \in C : E[j] \cap C # {}
<1> DEFINE C == {j \in DOMAIN E : x \in Closure(E, E[j])}
<1>1. ASSUME NEW j \in C PROVE E[j] \cap C # {}
  <2>1. E[j] \subseteq DOMAIN E
    BY DEF IsGraph
  <2>2. PICK s \in E[j] : x \in Closure(E, {s})
    BY <2>1, ClosureFrom
  <2>3. s \in DOMAIN E
    BY <2>1
  <2>4. CASE x = s
    BY <2>2, <2>4
  <2>5. CASE x # s
    <3>1. PICK y \in E[s] : x \in Closure(E, {y})
      BY <2>2, <2>3, <2>5, ClosureStep
    <3>2. E[s] \subseteq DOMAIN E
      BY <2>3 DEF IsGraph
    <3>3. Closure(E, {y}) \subseteq Closure(E, E[s])
      BY <3>2, ClosureMonotone
    <3> QED
      BY <2>2, <2>3, <3>1, <3>3
  <2> QED
    BY <2>4, <2>5
<1> QED
  BY <1>1

\* What the search goes on to by the labels that references carry.
Led(h) == [i \in DOMAIN h |->
             IF IsReference(h, i) /\ h[i].reference \notin Label THEN {}
             ELSE Ahead(h)[i]]

\* By labels the search comes to an end wherever it begins.
Acyclic(h) ==
  \A C \in SUBSET DOMAIN h : C # {} => \E i \in C : Led(h)[i] \cap C = {}

\* References lead to what their names lead to, but for the names in lo.
InTune(h, t, lo) ==
  \A i \in Applied(h, t) :
    IsReference(h, i) /\ h[i].reference \in Label \ lo
      => h[i].operands = <<t[h[i].reference]>>

\* Without a cycle no walk is endless, neither one that stops at references
\* ...
LEMMA NotCircular ==
  ASSUME NEW h, NEW t, IsHeap(h), IsTable(h, t), Acyclic(h)
  PROVE  ~Circular(h, Applied(h, t))
<1> SUFFICES ASSUME NEW i \in Applied(h, t), ~IsReference(h, i),
                    i \in Visited(h, Below(h)[i])
             PROVE  FALSE
  BY DEF Circular
<1>1. /\ IsGraph(Below(h)) /\ DOMAIN Below(h) = DOMAIN h
      /\ i \in DOMAIN h /\ i \in Closure(Below(h), Below(h)[i])
  BY GraphsOfHeap, AppliedType DEF Visited
<1>2. PICK C \in SUBSET DOMAIN h : C # {} /\ \A j \in C : Below(h)[j] \cap C # {}
  BY <1>1, Cycle
<1>3. \A j \in C : Below(h)[j] \subseteq Led(h)[j]
  BY DEF Below, Ahead, Led
<1> QED
  BY <1>2, <1>3 DEF Acyclic

\* ... nor the search for a name, but for one that leads to a reference in all
\* namespaces and from there back: without one, what is led to from i and leads
\* to it would be a cycle of labels.
LEMMA EndlessByStar ==
  ASSUME IsHeap(heap), Acyclic(heap), NEW s, Targets(s) \subseteq DOMAIN heap,
         Endless(s)
  PROVE  StarLoop
<1> DEFINE E == Ahead(heap)
<1>1. IsGraph(E) /\ DOMAIN E = DOMAIN heap
  BY GraphsOfHeap
<1>2. PICK i \in Closure(E, Targets(s)) : i \in Closure(E, E[i])
  BY DEF Endless, Walked
<1>3. i \in DOMAIN E
  BY <1>1, <1>2, ClosureType
<1> HIDE DEF E
<1>4. \A j \in DOMAIN E : /\ E[j] \subseteq DOMAIN E
                          /\ E[j] \subseteq Closure(E, E[j])
                          /\ Closure(E, E[j]) \subseteq DOMAIN E
                          /\ Closed(E, Closure(E, E[j]))
  BY <1>1, ClosureType DEF IsGraph
<1> DEFINE C == {j \in Closure(E, E[i]) : i \in Closure(E, {j})}
<1>5. i \in C /\ C \in SUBSET DOMAIN heap
  <2>1. i \in Closure(E, {i})
    BY <1>1, <1>3, ClosureType
  <2> QED
    BY <1>1, <1>2, <1>3, <1>4, <2>1
\* A member is followed by one, by which it is led back to.
<1>6. ASSUME NEW j \in C
      PROVE  \E y \in E[j] : y \in C
  <2>1. j \in DOMAIN E /\ j \in Closure(E, E[i]) /\ i \in Closure(E, {j})
    BY <1>3, <1>4
  <2>2. CASE j = i
    BY <1>1, <1>2, <1>3, <1>4, <2>2, ClosureFrom
  <2>3. CASE j # i
    <3>1. PICK y \in E[j] : i \in Closure(E, {y})
      BY <1>1, <2>1, <2>3, ClosureStep
    <3>2. y \in Closure(E, E[i])
      BY <1>3, <1>4, <2>1 DEF Closed
    <3> QED
      BY <3>1, <3>2
  <2> QED
    BY <2>2, <2>3
<1>7. ASSUME NEW j \in C PROVE j \in Closure(E, E[j])
  <2>1. j \in DOMAIN E /\ j \in Closure(E, E[i])
    BY <1>3, <1>4
  <2>2. PICK y \in E[j] : i \in Closure(E, {y})
    BY <1>6
  <2>3. Closure(E, {y}) \subseteq Closure(E, E[j])
    BY <1>1, <1>4, <2>1, <2>2, ClosureMonotone
  <2>4. E[i] \subseteq Closure(E, E[j])
    BY <1>4, <2>1, <2>2, <2>3 DEF Closed
  <2>5. Closure(E, E[i]) \subseteq Closure(E, E[j])
    BY <1>1, <1>4, <2>1, <2>4, ClosureLeast
  <2> QED
    BY <2>1, <2>5
<1>8. PICK j \in C : Led(heap)[j] \cap C = {}
  BY <1>5 DEF Acyclic
<1>9. j \in DOMAIN heap /\ Led(heap)[j] # E[j]
  BY <1>5, <1>6, <1>8
<1>10. IsReference(heap, j) /\ heap[j].reference \notin Label
  BY <1>9 DEF Led, E
<1>11. Starred(heap, j)
  BY <1>9, <1>10, HeapType DEF Starred, Target
<1>12. j \in Walked(heap, Ahead(heap)[j])
  BY <1>7 DEF Walked, E
<1> QED
  BY <1>9, <1>11, <1>12 DEF StarLoop

\* Where references are in tune, a loop of names would be a loop of
\* operands.
LEMMA NoLoopWhenInTune ==
  ASSUME IsHeap(heap), IsTable(heap, table), Acyclic(heap),
         InTune(heap, table, {})
  PROVE  NoLoop
<1> DEFINE E == [l \in Label |-> Referred(l)]
<1> SUFFICES ASSUME NEW l \in Label, l \in Reached(Referred(l))
             PROVE  FALSE
  BY DEF NoLoop
<1>1. ASSUME NEW m \in Label, table[m] # None
      PROVE  /\ table[m] \in Applied(heap, table)
             /\ Visited(heap, {table[m]}) \subseteq DOMAIN heap
  <2>1. table[m] \in Saved(table) /\ {table[m]} \subseteq DOMAIN heap
    BY <1>1, SavedType
  <2> QED
    BY <2>1, AppliedType, VisitedType
<1>2. ASSUME NEW m \in Label PROVE Referred(m) \subseteq Label
  BY DEF Referred
<1>3. IsGraph(E) /\ DOMAIN E = Label
  BY <1>2, LabelAssumption DEF IsGraph
<1>4. l \in Closure(E, E[l])
  BY DEF Reached
<1>5. PICK M \in SUBSET Label : M # {} /\ \A m \in M : E[m] \cap M # {}
  <2> HIDE DEF E
  <2> QED
    BY <1>3, <1>4, Cycle
<1> DEFINE C == {j \in Applied(heap, table) :
                   \E r \in Visited(heap, {j}) :
                     IsReference(heap, r) /\ heap[r].reference \in M}
<1>6. ASSUME NEW m \in M PROVE table[m] \in C
  <2>1. Referred(m) # {} /\ Referred(m) \cap M # {} /\ m \in Label
    BY <1>5
  <2>2. table[m] # None
    BY <2>1 DEF Referred, Members
  <2>3. \E r \in Visited(heap, {table[m]}) :
          IsReference(heap, r) /\ heap[r].reference \in M
    BY <2>1, <2>2 DEF Referred, Members
  <2> QED
    BY <1>1, <2>1, <2>2, <2>3
<1>7. C \subseteq DOMAIN heap /\ C # {}
  BY <1>5, <1>6, AppliedType
<1>8. ASSUME NEW j \in C PROVE Led(heap)[j] \cap C # {}
  <2>1. PICK r \in Visited(heap, {j}) :
          IsReference(heap, r) /\ heap[r].reference \in M
    OBVIOUS
  <2>2. j \in DOMAIN heap /\ j \in Applied(heap, table)
    BY <1>7
  <2>3. r = j \/ \E y \in Below(heap)[j] : r \in Visited(heap, {y})
    BY <2>1, <2>2, GraphsOfHeap, ClosureStep DEF Visited
  <2>4. CASE IsReference(heap, j)
    <3>1. r = j
      BY <2>2, <2>3, <2>4 DEF Below
    <3>2. heap[j].reference \in Label /\ heap[j].reference \in M
      BY <2>1, <3>1
    <3>3. heap[j].operands = <<table[heap[j].reference]>>
      BY <2>2, <2>4, <3>2 DEF InTune
    <3>4. Led(heap)[j] = {table[heap[j].reference]}
      BY <2>2, <2>4, <3>2, <3>3 DEF Led, Ahead, FirstOf
    <3> QED
      BY <1>6, <3>2, <3>4
  <2>5. CASE ~IsReference(heap, j)
    <3>1. r # j
      BY <2>1, <2>5
    <3>2. PICK y \in Below(heap)[j] : r \in Visited(heap, {y})
      BY <2>3, <3>1
    <3>3. y \in Led(heap)[j] /\ y \in Range(heap[j].operands)
      BY <2>2, <2>5, <3>2 DEF Led, Ahead, Below
    <3>4. y \in Applied(heap, table)
      BY <2>2, <2>5, <3>3, AppliedType
    <3> QED
      BY <2>1, <3>2, <3>3, <3>4
  <2> QED
    BY <2>4, <2>5
<1> HIDE DEF C
<1> QED
  BY <1>7, <1>8 DEF Acyclic

-----------------------------------------------------------------------------
(***************************************************************************)
(* What Commit leaves of a heap: what is in use, with all it is made of.   *)
(***************************************************************************)

Kept(h, t) == [i \in InUse(h, t) |-> h[i]]

LEMMA SeqWithin ==
  ASSUME NEW D, NEW s \in Seq(D), NEW U, Range(s) \subseteq U
  PROVE  s \in Seq(U)
<1>1. \A k \in 1..Len(s) : s[k] \in U
  BY DEF Range
<1> QED
  BY <1>1

\* It is a heap: what is in use is made of what is in use.
LEMMA KeptHeap ==
  ASSUME NEW h, NEW t, IsHeap(h), IsTable(h, t)
  PROVE  /\ IsHeap(Kept(h, t)) /\ IsTable(Kept(h, t), t)
         /\ DOMAIN Kept(h, t) = InUse(h, t) /\ InUse(h, t) \subseteq DOMAIN h
         /\ \A i \in DOMAIN Kept(h, t) : Kept(h, t)[i] = h[i]
<1> DEFINE k == Kept(h, t)
<1>1. /\ DOMAIN k = InUse(h, t)
      /\ \A i \in DOMAIN k : k[i] = h[i]
  BY DEF Kept
<1>2. /\ Saved(t) \subseteq DOMAIN k /\ DOMAIN k \subseteq DOMAIN h
      /\ \A i \in DOMAIN k : Range(h[i].operands) \subseteq DOMAIN k
  BY <1>1, InUseType
<1> HIDE DEF k
<1>3. IsFiniteSet(DOMAIN k) /\ DOMAIN k \subseteq Seq(Nat) \ {None}
  BY <1>2, FS_Subset DEF IsHeap
<1>4. ASSUME NEW i \in DOMAIN k
      PROVE  /\ k[i] \in [type : Type, idlist : Nat,
                          reference : Target \cup {Nowhere},
                          operands : Seq(DOMAIN k)]
             /\ IsReference(k, i) => k[i].reference \in Target
  <2>1. i \in DOMAIN h /\ k[i] = h[i]
    BY <1>1, <1>2
  <2>2. /\ h[i] \in [type : Type, idlist : Nat,
                     reference : Target \cup {Nowhere}, operands : Seq(DOMAIN h)]
        /\ h[i].operands \in Seq(DOMAIN h)
        /\ IsReference(h, i) => h[i].reference \in Target
    BY <2>1, HeapType
  <2>3. h[i].operands \in Seq(DOMAIN k)
    BY <1>2, <2>2, SeqWithin
  <2> QED
    BY <2>1, <2>2, <2>3 DEF IsReference
<1>5. IsHeap(k)
  BY <1>3, <1>4 DEF IsHeap
<1>6. IsTable(k, t)
  <2>1. ASSUME NEW l \in Label
        PROVE  t[l] \in {a \in DOMAIN k : Len(a) = 1} \cup {None}
    BY <1>2, SavedType DEF Saved
  <2>2. t = [l \in Label |-> t[l]]
    BY DEF IsTable
  <2> QED
    BY <2>1, <2>2 DEF IsTable
<1> QED
  BY <1>1, <1>2, <1>5, <1>6 DEF k

LEMMA KeptApplied ==
  ASSUME NEW h, NEW t, IsHeap(h), IsTable(h, t)
  PROVE  Applied(Kept(h, t), t) \subseteq Applied(h, t)
<1> DEFINE k == Kept(h, t)
           C == Applied(h, t) \cap DOMAIN k
<1>1. /\ IsHeap(k) /\ IsTable(k, t) /\ DOMAIN k \subseteq DOMAIN h
      /\ \A i \in DOMAIN k : k[i] = h[i]
  BY KeptHeap
<1> HIDE DEF k
<1>2. Saved(t) \subseteq C /\ Saved(t) \subseteq DOMAIN k
  BY <1>1, AppliedType, SavedType
<1>3. \A i \in C : ~IsReference(k, i) => Range(k[i].operands) \subseteq C
  BY <1>1, AppliedType, HeapType DEF IsReference
<1>4. Visited(k, Saved(t)) \subseteq C
  <2> HIDE DEF C
  <2>1. C \subseteq DOMAIN k
    BY DEF C
  <2> QED
    BY <1>1, <1>2, <1>3, <2>1, VisitedLeast
<1> QED
  BY <1>4 DEF k, Applied

LEMMA KeptInTune ==
  ASSUME NEW h, NEW t, NEW lo, IsHeap(h), IsTable(h, t), InTune(h, t, lo)
  PROVE  InTune(Kept(h, t), t, lo)
<1>1. \A i \in Applied(Kept(h, t), t) : /\ i \in Applied(h, t)
                                        /\ Kept(h, t)[i] = h[i]
  BY KeptApplied, KeptHeap, AppliedType
<1> QED
  BY <1>1 DEF InTune, IsReference

LEMMA KeptAcyclic ==
  ASSUME NEW h, NEW t, IsHeap(h), IsTable(h, t), Acyclic(h)
  PROVE  Acyclic(Kept(h, t))
<1>1. /\ DOMAIN Kept(h, t) \subseteq DOMAIN h
      /\ \A i \in DOMAIN Kept(h, t) : Led(Kept(h, t))[i] = Led(h)[i]
  BY KeptHeap DEF Led, Ahead, IsReference
<1> QED
  BY <1>1 DEF Acyclic

-----------------------------------------------------------------------------
(***************************************************************************)
(* What is applied to the graph keeps it a graph: references bound, a      *)
(* collection built and joined.                                            *)
(***************************************************************************)

\* g is like h in everything but what its operators are made of.
IsLike(g, h) ==
  \A i \in DOMAIN h :
    /\ g[i] \in [type : Type, idlist : Nat,
                 reference : Target \cup {Nowhere}, operands : Seq(DOMAIN h)]
    /\ g[i].type = h[i].type /\ g[i].reference = h[i].reference

LEMMA Refit ==
  ASSUME NEW h, IsHeap(h), NEW g, DOMAIN g = DOMAIN h, IsLike(g, h)
  PROVE  /\ IsHeap(g)
         /\ \A i \in DOMAIN h : IsReference(g, i) <=> IsReference(h, i)
<1>1. \A i \in DOMAIN h : IsReference(g, i) <=> IsReference(h, i)
  BY DEF IsReference, IsLike
<1>2. \A i \in DOMAIN h : IsReference(g, i) => g[i].reference \in Target
  BY <1>1, HeapType DEF IsLike
<1>3. IsFiniteSet(DOMAIN g) /\ DOMAIN g \subseteq Seq(Nat) \ {None}
  BY DEF IsHeap
<1> QED
  BY <1>1, <1>2, <1>3 DEF IsHeap, IsLike

\* An operator that is made of something else.
LEMMA Changed ==
  ASSUME NEW h, IsHeap(h), NEW i \in DOMAIN h, NEW o \in Seq(DOMAIN h),
         NEW x, x = [h[i] EXCEPT !.operands = o] \/ x = h[i]
  PROVE  /\ x \in [type : Type, idlist : Nat,
                   reference : Target \cup {Nowhere}, operands : Seq(DOMAIN h)]
         /\ x.type = h[i].type /\ x.reference = h[i].reference
         /\ x.idlist = h[i].idlist
         /\ x = [h[i] EXCEPT !.operands = o] => x.operands = o
<1>1. h[i] \in [type : Type, idlist : Nat,
                reference : Target \cup {Nowhere}, operands : Seq(DOMAIN h)]
  BY HeapType
<1> QED
  BY <1>1

\* rebind_references and bind_all_references, operator by operator.
LEMMA ReboundHeap ==
  ASSUME NEW h, IsHeap(h), NEW S, NEW l, NEW old, NEW new \in DOMAIN h,
         NEW g, g = Rebound(h, S, l, old, new)
  PROVE  /\ IsHeap(g) /\ DOMAIN g = DOMAIN h
         /\ \A i \in DOMAIN h :
              /\ g[i].type = h[i].type /\ g[i].reference = h[i].reference
              /\ IsReference(g, i) <=> IsReference(h, i)
              /\ IF i \in S /\ Names(h, i, l)
                 THEN g[i].operands = Added(Removed(h[i].operands, old), new)
                 ELSE g[i] = h[i]
<1>1. DOMAIN g = DOMAIN h
  BY DEF Rebound
<1>2. ASSUME NEW i \in DOMAIN h
      PROVE  /\ g[i] \in [type : Type, idlist : Nat,
                          reference : Target \cup {Nowhere}, operands : Seq(DOMAIN h)]
             /\ g[i].type = h[i].type /\ g[i].reference = h[i].reference
             /\ IF i \in S /\ Names(h, i, l)
                THEN g[i].operands = Added(Removed(h[i].operands, old), new)
                ELSE g[i] = h[i]
  <2>1. PICK o \in Seq(DOMAIN h) : o = Added(Removed(h[i].operands, old), new)
    BY HeapType, RemovedType, AddedType
  <2>2. g[i] = IF i \in S /\ Names(h, i, l) THEN [h[i] EXCEPT !.operands = o]
               ELSE h[i]
    BY <2>1 DEF Rebound
  <2> QED
    BY <2>1, <2>2, Changed
<1>3. /\ IsHeap(g)
      /\ \A i \in DOMAIN h : IsReference(g, i) <=> IsReference(h, i)
  <2>1. IsLike(g, h)
    BY <1>2 DEF IsLike
  <2> QED
    BY <1>1, <2>1, Refit
<1> QED
  BY <1>1, <1>2, <1>3

LEMMA BoundHeap ==
  ASSUME NEW h, IsHeap(h), NEW S, NEW t,
         \A l \in Label : t[l] # None => t[l] \in DOMAIN h,
         NEW g, g = Bound(h, S, t)
  PROVE  /\ IsHeap(g) /\ DOMAIN g = DOMAIN h
         /\ \A i \in DOMAIN h :
              /\ g[i].type = h[i].type /\ g[i].reference = h[i].reference
              /\ IsReference(g, i) <=> IsReference(h, i)
              /\ IF i \in S /\ IsReference(h, i) /\ Lookup(t, h[i].reference) # None
                 THEN g[i].operands = Added(h[i].operands, Lookup(t, h[i].reference))
                 ELSE g[i] = h[i]
<1>1. DOMAIN g = DOMAIN h
  BY DEF Bound
<1>2. ASSUME NEW i \in DOMAIN h
      PROVE  /\ g[i] \in [type : Type, idlist : Nat,
                          reference : Target \cup {Nowhere}, operands : Seq(DOMAIN h)]
             /\ g[i].type = h[i].type /\ g[i].reference = h[i].reference
             /\ IF i \in S /\ IsReference(h, i) /\ Lookup(t, h[i].reference) # None
                THEN g[i].operands = Added(h[i].operands, Lookup(t, h[i].reference))
                ELSE g[i] = h[i]
  <2>1. CASE i \in S /\ IsReference(h, i) /\ Lookup(t, h[i].reference) # None
    <3>0. Lookup(t, h[i].reference) \in DOMAIN h
      BY <2>1, LookupIs
    <3>1. PICK o \in Seq(DOMAIN h) : o = Added(h[i].operands, Lookup(t, h[i].reference))
      BY <3>0, HeapType, AddedType
    <3>2. g[i] = [h[i] EXCEPT !.operands = o]
      BY <2>1, <3>1 DEF Bound
    <3> QED
      BY <2>1, <3>1, <3>2, Changed
  <2>2. CASE ~(i \in S /\ IsReference(h, i) /\ Lookup(t, h[i].reference) # None)
    <3>1. g[i] = h[i]
      BY <2>2 DEF Bound
    <3> QED
      BY <2>2, <3>1, HeapType
  <2> QED
    BY <2>1, <2>2
<1>3. /\ IsHeap(g)
      /\ \A i \in DOMAIN h : IsReference(g, i) <=> IsReference(h, i)
  <2>1. IsLike(g, h)
    BY <1>2 DEF IsLike
  <2> QED
    BY <1>1, <2>1, Refit
<1> QED
  BY <1>1, <1>2, <1>3

-----------------------------------------------------------------------------
IsOperator(x, D, ty, r, o) ==
  /\ x \in [type : Type, idlist : Nat, reference : Target \cup {Nowhere},
            operands : Seq(D)]
  /\ x.type = ty /\ x.reference = r /\ x.operands = o

LEMMA OperatorType ==
  ASSUME NEW D, NEW ty \in Type, NEW n \in Nat, NEW r \in Target \cup {Nowhere},
         NEW o \in Seq(D)
  PROVE  IsOperator(Operator(ty, n, r, o), D, ty, r, o)
BY DEF Operator, IsOperator

LEMMA AppendOne ==
  ASSUME NEW n \in Nat
  PROVE  /\ Append(<<n>>, 1) = <<n, 1>> /\ Last(<<n, 1>>) = 1
         /\ Head(<<n, 1>>) = n /\ Head(<<n>>) = n
         /\ <<n>> # <<n, 1>> /\ Len(<<n>>) = 1
         /\ {<<n>>, <<n, 1>>} \subseteq Seq(Nat) \ {None}
<1>1. /\ Len(<<n, 1>>) = 2 /\ Len(<<n>>) = 1 /\ <<n, 1>>[1] = n /\ <<n, 1>>[2] = 1
      /\ <<n>>[1] = n /\ <<n>> \in Seq(Nat) /\ <<n, 1>> \in Seq(Nat)
      /\ Head(<<n, 1>>) = n /\ Head(<<n>>) = n
  OBVIOUS
<1>2. Last(<<n, 1>>) = 1
  BY <1>1 DEF Last
<1>3. <<n>> # <<n, 1>> /\ <<n>> # None /\ <<n, 1>> # None
  BY <1>1 DEF None
<1>4. Append(<<n>>, 1) = <<n, 1>>
  <2>1. PICK q \in Seq(Nat) : q = <<n>>
    BY <1>1
  <2>2. PICK w \in Seq(Nat) : w = <<n, 1>>
    BY <1>1
  <2>3. Len(q) = 1 /\ q[1] = n /\ Len(w) = 2 /\ w[1] = n /\ w[2] = 1
    BY <1>1, <2>1, <2>2
  <2>4. /\ Append(q, 1) \in Seq(Nat) /\ Len(Append(q, 1)) = 2
        /\ Append(q, 1)[1] = n /\ Append(q, 1)[2] = 1
    <3>1. /\ Append(q, 1) \in Seq(Nat) /\ Len(Append(q, 1)) = Len(q) + 1
          /\ \A i \in 1..Len(q) : Append(q, 1)[i] = q[i]
          /\ Append(q, 1)[Len(q) + 1] = 1
      BY AppendProperties
    <3> QED
      BY <2>3, <3>1
  <2>5. Append(q, 1) = w
    BY <2>3, <2>4, SeqEqual
  <2> QED
    BY <2>1, <2>2, <2>5
<1> QED
  BY <1>1, <1>2, <1>3, <1>4

\* What a client's collection becomes.
LEMMA BuiltIs ==
  ASSUME NEW s \in Shape, NEW n \in Nat, NEW B, B = Built(s, <<n>>)
  PROVE  /\ IsHeap(B) /\ <<n>> \in DOMAIN B
         /\ \A a \in DOMAIN B :
              /\ Head(a) = n
              /\ IsReference(B, a) => /\ B[a].reference \in Range(s.targets)
                                      /\ B[a].operands = <<>>
              /\ IsReference(B, a) \/ a = <<n>>
              /\ ~IsReference(B, a) => <<n>> \notin Range(B[a].operands)
              /\ a # <<n>> => /\ ~IsReference(B, <<n>>)
                              /\ a \in Range(B[<<n>>].operands)
<1>1. PICK id, kid : id = <<n>> /\ kid = <<n, 1>>
  OBVIOUS
<1>2. /\ Append(id, 1) = kid /\ Last(kid) = 1
      /\ Head(kid) = n /\ Head(id) = n
      /\ id # kid /\ {id, kid} \subseteq Seq(Nat) \ {None}
  BY <1>1, AppendOne
<1>3. /\ s.type \in Type /\ s.idlist \in Nat /\ s.targets \in Seq(Target)
      /\ Len(s.targets) = IF s.type = "IDLIST" THEN 0 ELSE 1
      /\ Nowhere \in Target \cup {Nowhere} /\ "REFERENCE" \in Type
  BY ShapeAssumption DEF Type
<1>4. \A D : <<>> \in Seq(D)
  OBVIOUS
<1>5. PICK none : none = <<>>
  OBVIOUS
<1>6. B = Built(s, id)
  BY <1>1
\* One operator alone.
<1>7. ASSUME NEW ty \in Type, NEW m \in Nat, NEW r \in Target \cup {Nowhere},
             DOMAIN B = {id}, B[id] = Operator(ty, m, r, none),
             ty = "REFERENCE" => r \in Target /\ r \in Range(s.targets)
      PROVE  /\ IsHeap(B)
             /\ \A a \in DOMAIN B :
                  /\ IsReference(B, a) => /\ B[a].reference \in Range(s.targets)
                                          /\ B[a].operands = <<>>
                  /\ Range(B[a].operands) = {}
  <2>1. none \in Seq(DOMAIN B)
    BY <1>4, <1>5
  <2>2. /\ B[id] \in [type : Type, idlist : Nat,
                      reference : Target \cup {Nowhere}, operands : Seq(DOMAIN B)]
        /\ B[id].type = ty /\ B[id].reference = r /\ B[id].operands = none
    BY <1>7, <2>1, OperatorType DEF IsOperator
  <2>3. IsFiniteSet({id})
    BY FS_Singleton
  <2>4. IsHeap(B)
    BY <1>2, <1>7, <2>2, <2>3 DEF IsHeap, IsReference
  <2>5. Range(none) = {}
    BY <1>5 DEF Range
  <2> QED
    BY <1>5, <1>7, <2>2, <2>4, <2>5 DEF IsReference
<1>8. CASE s.type = "REFERENCE"
  <2>1. s.targets[1] \in Target /\ s.targets[1] \in Range(s.targets)
    BY <1>3, <1>8 DEF Range
  <2>2. B = [a \in {id} |-> Operator("REFERENCE", 0, s.targets[1], none)]
    BY <1>5, <1>6, <1>8 DEF Built
  <2>3. DOMAIN B = {id} /\ B[id] = Operator("REFERENCE", 0, s.targets[1], none)
    BY <2>2
  <2>4. /\ IsHeap(B)
        /\ \A a \in DOMAIN B :
             /\ IsReference(B, a) => /\ B[a].reference \in Range(s.targets)
                                     /\ B[a].operands = <<>>
             /\ Range(B[a].operands) = {}
    BY <1>3, <1>7, <2>1, <2>3
  <2> QED
    BY <1>1, <1>2, <2>3, <2>4
<1>9. CASE s.type = "IDLIST"
  <2>1. s.targets = <<>>
    BY <1>3, <1>9
  <2>2. {id} \cup {Append(id, j) : j \in DOMAIN s.targets} = {id}
    BY <2>1
  <2>3. [j \in DOMAIN s.targets |-> Append(id, j)] = none
    BY <1>5, <2>1
  <2>4. DOMAIN B = {id} /\ B[id] = Operator(s.type, s.idlist, Nowhere, none)
    BY <1>6, <1>9, <2>2, <2>3 DEF Built
  <2>5. /\ IsHeap(B)
        /\ \A a \in DOMAIN B :
             /\ IsReference(B, a) => /\ B[a].reference \in Range(s.targets)
                                     /\ B[a].operands = <<>>
             /\ Range(B[a].operands) = {}
    BY <1>3, <1>7, <1>9, <2>4
  <2> QED
    BY <1>1, <1>2, <2>4, <2>5
<1>10. CASE s.type \notin {"REFERENCE", "IDLIST"}
  <2>1. /\ Len(s.targets) = 1 /\ DOMAIN s.targets = {1} /\ s.targets[1] \in Target
        /\ s.targets[1] \in Range(s.targets)
    BY <1>3, <1>10 DEF Range
  <2>2. {id} \cup {Append(id, j) : j \in DOMAIN s.targets} = {id, kid}
    BY <1>2, <2>1
  <2>3. PICK one : one = <<kid>>
    OBVIOUS
  <2>4. [j \in DOMAIN s.targets |-> Append(id, j)] = one
    <3>1. [j \in DOMAIN s.targets |-> Append(id, j)] = [j \in {1} |-> kid]
      BY <1>2, <2>1
    <3>2. one = [j \in {1} |-> kid]
      BY <2>3
    <3> QED
      BY <3>1, <3>2
  <2>5. /\ DOMAIN B = {id, kid}
        /\ B[id] = Operator(s.type, s.idlist, Nowhere, one)
        /\ B[kid] = Operator("REFERENCE", 0, s.targets[1], none)
    BY <1>2, <1>5, <1>6, <1>10, <2>2, <2>4 DEF Built
  <2>6. IsFiniteSet({id, kid})
    <3>1. IsFiniteSet({id})
      BY FS_Singleton
    <3>2. IsFiniteSet({id} \cup {kid})
      BY <3>1, FS_AddElement
    <3> QED
      BY <3>2
  <2>7. one \in Seq(DOMAIN B) /\ none \in Seq(DOMAIN B) /\ Range(one) = {kid}
    BY <1>4, <1>5, <2>3, <2>5 DEF Range
  <2>8. /\ B[id] \in [type : Type, idlist : Nat,
                      reference : Target \cup {Nowhere}, operands : Seq(DOMAIN B)]
        /\ B[id].type = s.type /\ B[id].operands = one
    <3>1. PICK r : r = Nowhere /\ r \in Target \cup {Nowhere}
      BY <1>3
    <3>2. B[id] = Operator(s.type, s.idlist, r, one)
      BY <2>5, <3>1
    <3> QED
      <4>1. s.type \in Type /\ s.idlist \in Nat /\ one \in Seq(DOMAIN B)
        BY <1>3, <2>7
      <4>2. r \in Target \cup {Nowhere}
        BY <3>1
      <4>3. IsOperator(Operator(s.type, s.idlist, r, one), DOMAIN B, s.type, r, one)
        BY <4>1, <4>2, OperatorType
      <4> QED
        BY <3>2, <4>3 DEF IsOperator
  <2>9. /\ B[kid] \in [type : Type, idlist : Nat,
                       reference : Target \cup {Nowhere}, operands : Seq(DOMAIN B)]
        /\ B[kid].type = "REFERENCE" /\ B[kid].reference = s.targets[1]
        /\ B[kid].operands = none
    <3>1. /\ "REFERENCE" \in Type /\ 0 \in Nat /\ none \in Seq(DOMAIN B)
          /\ s.targets[1] \in Target \cup {Nowhere}
      BY <2>1, <2>7 DEF Type
    <3>2. IsOperator(Operator("REFERENCE", 0, s.targets[1], none), DOMAIN B,
                     "REFERENCE", s.targets[1], none)
      BY <3>1, OperatorType
    <3> QED
      BY <2>5, <3>2 DEF IsOperator
  <2>10. IsHeap(B)
    BY <1>2, <1>10, <2>1, <2>5, <2>6, <2>8, <2>9 DEF IsHeap, IsReference
  <2> QED
    BY <1>1, <1>2, <1>5, <1>10, <2>1, <2>5, <2>7, <2>8, <2>9, <2>10
       DEF IsReference
<1> QED
  BY <1>8, <1>9, <1>10

IsJoined(g, h, B) ==
  /\ IsHeap(g) /\ DOMAIN g = DOMAIN h \cup DOMAIN B
  /\ \A i \in DOMAIN h : g[i] = h[i]
  /\ \A i \in DOMAIN B : g[i] = B[i]

\* Two heaps side by side.
LEMMA JoinedHeap ==
  ASSUME NEW h, IsHeap(h), NEW B, IsHeap(B), DOMAIN h \cap DOMAIN B = {}
  PROVE  IsJoined(Joined(h, B), h, B)
<1> DEFINE g == Joined(h, B)
<1>1. /\ DOMAIN g = DOMAIN h \cup DOMAIN B
      /\ \A i \in DOMAIN h : g[i] = h[i]
      /\ \A i \in DOMAIN B : g[i] = B[i]
  BY DEF Joined
<1>2. IsFiniteSet(DOMAIN g) /\ DOMAIN g \subseteq Seq(Nat) \ {None}
  <2>1. /\ IsFiniteSet(DOMAIN h) /\ IsFiniteSet(DOMAIN B)
        /\ DOMAIN h \subseteq Seq(Nat) \ {None}
        /\ DOMAIN B \subseteq Seq(Nat) \ {None}
    BY DEF IsHeap
  <2>2. IsFiniteSet(DOMAIN h \cup DOMAIN B)
    BY <2>1, FS_Union
  <2> QED
    BY <1>1, <2>1, <2>2
<1>3. ASSUME NEW i \in DOMAIN g
      PROVE  /\ g[i] \in [type : Type, idlist : Nat,
                          reference : Target \cup {Nowhere}, operands : Seq(DOMAIN g)]
             /\ IsReference(g, i) => g[i].reference \in Target
  <2>1. CASE i \in DOMAIN h
    <3>1. /\ h[i] \in [type : Type, idlist : Nat,
                       reference : Target \cup {Nowhere}, operands : Seq(DOMAIN h)]
          /\ h[i].operands \in Seq(DOMAIN h)
          /\ Range(h[i].operands) \subseteq DOMAIN h
          /\ IsReference(h, i) => h[i].reference \in Target
      BY <2>1, HeapType
    <3>2. h[i].operands \in Seq(DOMAIN g)
      BY <1>1, <3>1, SeqWithin
    <3> QED
      BY <1>1, <2>1, <3>1, <3>2 DEF IsReference
  <2>2. CASE i \in DOMAIN B
    <3>1. /\ B[i] \in [type : Type, idlist : Nat,
                       reference : Target \cup {Nowhere}, operands : Seq(DOMAIN B)]
          /\ B[i].operands \in Seq(DOMAIN B)
          /\ Range(B[i].operands) \subseteq DOMAIN B
          /\ IsReference(B, i) => B[i].reference \in Target
      BY <2>2, HeapType
    <3>2. B[i].operands \in Seq(DOMAIN g)
      BY <1>1, <3>1, SeqWithin
    <3> QED
      BY <1>1, <2>2, <3>1, <3>2 DEF IsReference
  <2> QED
    BY <1>1, <2>1, <2>2
<1>4. IsHeap(g)
  <2> HIDE DEF g
  <2> QED
    BY <1>1, <1>2, <1>3 DEF IsHeap
<1> QED
  BY <1>1, <1>4 DEF IsJoined

-----------------------------------------------------------------------------
(***************************************************************************)
(* Save. The new operators join the heap, references to the name are       *)
(* turned to the new one, and its own are bound.                           *)
(***************************************************************************)

\* Walks that stop at references see nothing of where these lead.
LEMMA BelowSame ==
  ASSUME NEW h, NEW g, DOMAIN g = DOMAIN h,
         \A i \in DOMAIN h :
           /\ IsReference(g, i) <=> IsReference(h, i)
           /\ ~IsReference(h, i) => g[i].operands = h[i].operands
  PROVE  /\ \A S : Visited(g, S) = Visited(h, S)
         /\ \A t : Applied(g, t) = Applied(h, t)
<1>1. \A i \in DOMAIN h :
        (IF IsReference(g, i) THEN {} ELSE Range(g[i].operands))
        = (IF IsReference(h, i) THEN {} ELSE Range(h[i].operands))
  OBVIOUS
<1>2. Below(g) = Below(h)
  BY <1>1 DEF Below
<1> QED
  BY <1>2 DEF Visited, Applied

-----------------------------------------------------------------------------
\* What Save(c) makes of the labels and of the heap.
SaveNames(l) == IF table[l] = None THEN {l} ELSE Aliases(table, l)

SaveTable(l) ==
  [m \in Label |-> IF m \in SaveNames(l) THEN <<ops + 1>> ELSE table[m]]

SaveTurned(l, s) ==
  IF table[l] = None THEN Joined(heap, Built(s, <<ops + 1>>))
  ELSE Rebound(Joined(heap, Built(s, <<ops + 1>>)), Applied(heap, table), l,
               table[l], <<ops + 1>>)

SaveHeap(l, s) ==
  Bound(SaveTurned(l, s),
        Visited(Joined(heap, Built(s, <<ops + 1>>)), {<<ops + 1>>}), table)

\* Addresses begin with the number of the save they came with.
LEMMA HeadType ==
  ASSUME NEW h, IsHeap(h), NEW a \in DOMAIN h
  PROVE  Head(a) \in Nat
<1>1. a \in Seq(Nat) /\ a # <<>>
  BY DEF IsHeap, None
<1> QED
  BY <1>1

\* What is kept in a state, as far as it takes to compute with the graph.
Sound == /\ IsHeap(heap) /\ IsTable(heap, table)
         /\ ops \in Nat /\ \A a \in DOMAIN heap : Head(a) <= ops

\* A reference that a save of l gives the new operator.
Turned(l, i) == table[l] # None /\ i \in Applied(heap, table) /\ Names(heap, i, l)

\* g is the heap with a collection saved as l: its own operators are those of
\* B, the first of them at id.
IsSaved(g, l, s, id, B) ==
  /\ IsHeap(g) /\ DOMAIN g = DOMAIN heap \cup DOMAIN B
  /\ DOMAIN heap \cap DOMAIN B = {} /\ id \in DOMAIN B
  /\ \A i \in DOMAIN g : Head(i) <= ops + 1
  /\ \A i \in DOMAIN heap :
       /\ g[i].reference = heap[i].reference
       /\ IsReference(g, i) <=> IsReference(heap, i)
       /\ IF Turned(l, i)
          THEN g[i].operands = Added(Removed(heap[i].operands, table[l]), id)
          ELSE g[i] = heap[i]
  /\ \A a \in DOMAIN B :
       /\ IsReference(g, a) =>
            /\ g[a].reference \in Range(s.targets)
            /\ g[a].operands = IF Lookup(table, g[a].reference) = None THEN <<>>
                               ELSE <<Lookup(table, g[a].reference)>>
       /\ ~IsReference(g, a) =>
            /\ a = id
            /\ Range(g[a].operands) \subseteq DOMAIN B \ {id}

LEMMA SaveHeapIs ==
  ASSUME Sound, NEW l \in Label, NEW s \in Shape,
         NEW id, id = <<ops + 1>>, NEW B, B = Built(s, id)
  PROVE  IsSaved(SaveHeap(l, s), l, s, id, B)
<1> DEFINE g == SaveHeap(l, s)
<1> DEFINE all == Joined(heap, B)
           turned == SaveTurned(l, s)
           V == Visited(all, {id})
<1>1. /\ IsHeap(heap) /\ IsTable(heap, table)
      /\ ops \in Nat /\ \A a \in DOMAIN heap : Head(a) <= ops
  BY DEF Sound
<1>2. /\ IsHeap(B) /\ id \in DOMAIN B
      /\ \A a \in DOMAIN B :
           /\ Head(a) = ops + 1
           /\ IsReference(B, a) => /\ B[a].reference \in Range(s.targets)
                                   /\ B[a].operands = <<>>
           /\ IsReference(B, a) \/ a = id
           /\ ~IsReference(B, a) => id \notin Range(B[a].operands)
           /\ a # id => ~IsReference(B, id) /\ a \in Range(B[id].operands)
  <2>1. ops + 1 \in Nat
    BY <1>1
  <2> QED
    BY <2>1, BuiltIs
<1>3. DOMAIN heap \cap DOMAIN B = {}
  BY <1>1, <1>2
<1>4. /\ IsHeap(all) /\ DOMAIN all = DOMAIN heap \cup DOMAIN B
      /\ \A i \in DOMAIN heap : all[i] = heap[i]
      /\ \A i \in DOMAIN B : all[i] = B[i]
  <2>1. IsHeap(heap) /\ IsHeap(B)
    BY <1>1, <1>2
  <2>2. IsJoined(all, heap, B)
    BY <1>3, <2>1, JoinedHeap
  <2> QED
    BY <2>2 DEF IsJoined
<1>5. V = DOMAIN B
  <2> HIDE DEF all
  <2>1. {id} \subseteq DOMAIN B /\ {id} \subseteq DOMAIN all
    BY <1>2, <1>4
  <2>2. \A i \in DOMAIN B : ~IsReference(all, i) =>
          Range(all[i].operands) \subseteq DOMAIN B
    BY <1>2, <1>4, HeapType DEF IsReference
  <2>3. V \subseteq DOMAIN B
    BY <1>4, <2>1, <2>2, VisitedLeast
  <2>4. /\ id \in V
        /\ ~IsReference(all, id) => Range(all[id].operands) \subseteq V
    BY <1>4, <2>1, VisitedType
  <2>5. \A a \in DOMAIN B : a \in V
    BY <1>2, <1>4, <2>4 DEF IsReference
  <2> QED
    BY <2>3, <2>5
<1>6. /\ IsHeap(turned) /\ DOMAIN turned = DOMAIN all
      /\ \A i \in DOMAIN all :
           /\ turned[i].reference = all[i].reference
           /\ IsReference(turned, i) <=> IsReference(all, i)
           /\ IF table[l] # None /\ i \in Applied(heap, table) /\ Names(all, i, l)
              THEN turned[i].operands =
                     Added(Removed(all[i].operands, table[l]), id)
              ELSE turned[i] = all[i]
  <2>1. CASE table[l] = None
    <3>1. turned = all
      BY <2>1 DEF SaveTurned
    <3> QED
      BY <1>4, <2>1, <3>1
  <2>2. CASE table[l] # None
    <3>1. turned = Rebound(all, Applied(heap, table), l, table[l], id)
      BY <2>2 DEF SaveTurned
    <3>2. id \in DOMAIN all
      BY <1>2, <1>4
    <3> HIDE DEF all, turned
    <3> QED
      BY <1>4, <2>2, <3>1, <3>2, ReboundHeap
  <2> QED
    BY <2>1, <2>2
<1>7. g = Bound(turned, V, table)
  BY DEF SaveHeap
<1>8. \A m \in Label : table[m] # None => table[m] \in DOMAIN turned
  BY <1>1, <1>4, <1>6, SavedType
<1> HIDE DEF all, turned, V, g
<1>9. /\ IsHeap(g) /\ DOMAIN g = DOMAIN turned
      /\ \A i \in DOMAIN turned :
           /\ g[i].reference = turned[i].reference
           /\ IsReference(g, i) <=> IsReference(turned, i)
           /\ IF i \in V /\ IsReference(turned, i)
                 /\ Lookup(table, turned[i].reference) # None
              THEN g[i].operands =
                     Added(turned[i].operands, Lookup(table, turned[i].reference))
              ELSE g[i] = turned[i]
  BY <1>6, <1>7, <1>8, BoundHeap
<1>10. DOMAIN g = DOMAIN heap \cup DOMAIN B
  BY <1>4, <1>6, <1>9
<1>11. \A i \in DOMAIN g : Head(i) <= ops + 1
  <2>1. \A i \in DOMAIN heap : Head(i) <= ops + 1
    BY <1>1, HeadType
  <2> QED
    BY <1>1, <1>2, <1>10, <2>1
<1>12. ASSUME NEW i \in DOMAIN heap
       PROVE  /\ g[i].reference = heap[i].reference
              /\ IsReference(g, i) <=> IsReference(heap, i)
              /\ IF Turned(l, i)
                 THEN g[i].operands =
                        Added(Removed(heap[i].operands, table[l]), id)
                 ELSE g[i] = heap[i]
  <2>1. i \in DOMAIN all /\ i \in DOMAIN turned /\ all[i] = heap[i] /\ i \notin V
    BY <1>3, <1>4, <1>5, <1>6
  <2>2. g[i] = turned[i]
    BY <1>9, <2>1
  <2> QED
    BY <1>6, <1>9, <2>1, <2>2 DEF Turned, Names, IsReference
<1>13. ASSUME NEW a \in DOMAIN B
       PROVE  /\ IsReference(g, a) =>
                   /\ g[a].reference \in Range(s.targets)
                   /\ g[a].operands = IF Lookup(table, g[a].reference) = None THEN <<>>
                                      ELSE <<Lookup(table, g[a].reference)>>
              /\ ~IsReference(g, a) =>
                   /\ a = id
                   /\ Range(g[a].operands) \subseteq DOMAIN B \ {id}
  <2>1. a \in DOMAIN all /\ a \in DOMAIN turned /\ all[a] = B[a] /\ a \in V
    BY <1>4, <1>5, <1>6
  <2>2. a \notin Applied(heap, table)
    BY <1>1, <1>3, AppliedType
  <2>3. turned[a] = B[a]
    BY <1>6, <2>1, <2>2
  <2>4. IsReference(g, a) <=> IsReference(B, a)
    BY <1>9, <2>1, <2>3 DEF IsReference
  <2>5. CASE IsReference(B, a)
    <3>1. /\ B[a].reference \in Range(s.targets) /\ B[a].operands = <<>>
          /\ g[a].reference = B[a].reference
      BY <1>2, <1>9, <2>1, <2>3, <2>5
    <3>2. CASE Lookup(table, B[a].reference) = None
      <4>1. g[a] = B[a]
        BY <1>9, <2>1, <2>3, <3>2
      <4> QED
        BY <2>4, <2>5, <3>1, <3>2, <4>1
    <3>3. CASE Lookup(table, B[a].reference) # None
      <4>1. IsReference(turned, a)
        BY <2>3, <2>5 DEF IsReference
      <4>2. g[a].operands = Added(<<>>, Lookup(table, B[a].reference))
        BY <1>9, <2>1, <2>3, <3>1, <3>3, <4>1
      <4>3. g[a].operands = <<Lookup(table, B[a].reference)>>
        BY <4>2, AddedFirst
      <4> QED
        BY <2>4, <2>5, <3>1, <3>3, <4>3
    <3> QED
      BY <3>2, <3>3
  <2>6. CASE ~IsReference(B, a)
    <3>1. g[a] = B[a]
      BY <1>9, <2>1, <2>3, <2>6 DEF IsReference
    <3>2. Range(B[a].operands) \subseteq DOMAIN B
      BY <1>2, HeapType
    <3>3. a = id /\ id \notin Range(B[a].operands)
      BY <1>2, <2>6
    <3> QED
      BY <2>4, <2>6, <3>1, <3>2, <3>3
  <2> QED
    BY <2>5, <2>6
<1> QED
  BY <1>2, <1>3, <1>9, <1>10, <1>11, <1>12, <1>13 DEF IsSaved, g

\* What a save leaves in the table, and what of the heap is applied to then.
LEMMA SaveTableIs ==
  ASSUME Sound, NEW l \in Label, NEW s \in Shape,
         NEW id, id = <<ops + 1>>, NEW B, B = Built(s, id),
         NEW g, g = SaveHeap(l, s), NEW t, t = SaveTable(l)
  PROVE  /\ IsTable(g, t)
         /\ t[l] = id
         /\ \A m \in Label : m \notin SaveNames(l) => t[m] = table[m]
         /\ Saved(t) \subseteq Saved(table) \cup {id}
         /\ Applied(g, t) \subseteq Applied(heap, table) \cup DOMAIN B
<1>1. /\ IsHeap(g) /\ DOMAIN g = DOMAIN heap \cup DOMAIN B
      /\ DOMAIN heap \cap DOMAIN B = {} /\ id \in DOMAIN B
      /\ \A i \in DOMAIN heap :
           /\ IsReference(g, i) <=> IsReference(heap, i)
           /\ ~IsReference(heap, i) => g[i] = heap[i]
      /\ \A a \in DOMAIN B :
           ~IsReference(g, a) => Range(g[a].operands) \subseteq DOMAIN B
  <2>1. IsSaved(g, l, s, id, B)
    BY SaveHeapIs
  <2> QED
    BY <2>1 DEF IsSaved, Turned, Names
<1>2. IsHeap(heap) /\ IsTable(heap, table) /\ Len(id) = 1
  BY DEF Sound
<1>3. /\ t[l] = id
      /\ \A m \in Label : m \notin SaveNames(l) => t[m] = table[m]
      /\ \A m \in Label : t[m] \in {id, table[m]}
  BY DEF SaveTable, SaveNames, Aliases
<1>4. IsTable(g, t)
  <2>1. \A m \in Label : table[m] \in {a \in DOMAIN heap : Len(a) = 1} \cup {None}
    BY <1>2 DEF IsTable
  <2>2. \A m \in Label : t[m] \in {a \in DOMAIN g : Len(a) = 1} \cup {None}
    BY <1>1, <1>2, <1>3, <2>1
  <2>3. t = [m \in Label |-> t[m]]
    BY DEF SaveTable
  <2> QED
    BY <2>2, <2>3 DEF IsTable
<1>5. Saved(t) \subseteq Saved(table) \cup {id}
  BY <1>3 DEF Saved
<1> DEFINE C == Applied(heap, table) \cup DOMAIN B
<1>6. /\ Saved(table) \subseteq Applied(heap, table)
      /\ Applied(heap, table) \subseteq DOMAIN heap
      /\ \A i \in Applied(heap, table) :
           ~IsReference(heap, i) => Range(heap[i].operands) \subseteq Applied(heap, table)
  BY <1>2, AppliedType
<1>7. /\ Saved(t) \subseteq C /\ C \subseteq DOMAIN g /\ Saved(t) \subseteq DOMAIN g
      /\ \A i \in C : ~IsReference(g, i) => Range(g[i].operands) \subseteq C
  BY <1>1, <1>5, <1>6
<1>8. Visited(g, Saved(t)) \subseteq C
  <2> HIDE DEF C
  <2> QED
    BY <1>1, <1>7, VisitedLeast
<1> QED
  BY <1>3, <1>4, <1>5, <1>8 DEF Applied

LEMMA NoneIsNoOperand ==
  ASSUME NEW h, IsHeap(h), NEW i \in DOMAIN h, NEW x, h[i].operands = <<x>>
  PROVE  x \in DOMAIN h /\ x # None
<1>1. PICK q \in Seq(DOMAIN h) : q = h[i].operands
  BY HeapType
<1>2. q = <<x>>
  BY <1>1
<1>3. Len(q) = 1 /\ q[1] = x
  BY <1>2
<1>4. q[1] \in DOMAIN h
  <2>1. 1 \in 1..Len(q)
    BY <1>3
  <2> QED
    BY <2>1, ElementOfSeq
<1> QED
  BY <1>3, <1>4 DEF IsHeap

\* References are in tune after a save, but for the other names of what was
\* saved and the names that were removed while the save waited.
LEMMA SaveInTune ==
  ASSUME Sound, NEW l \in Label, NEW s \in Shape, l \notin Range(s.targets),
         NEW g, g = SaveHeap(l, s), NEW t, t = SaveTable(l),
         NEW lo, InTune(heap, table, lo),
         NEW out, out = lo \cup (SaveNames(l) \ {l})
                           \cup {m \in Range(s.targets) \cap Label : table[m] = None}
  PROVE  InTune(g, t, out)
<1>1. PICK id, B : id = <<ops + 1>> /\ B = Built(s, id)
  OBVIOUS
<1>2. IsSaved(g, l, s, id, B)
  BY <1>1, SaveHeapIs
<1>3. /\ IsTable(g, t)
      /\ t[l] = id
      /\ \A m \in Label : m \notin SaveNames(l) => t[m] = table[m]
      /\ Applied(g, t) \subseteq Applied(heap, table) \cup DOMAIN B
  BY <1>1, SaveTableIs
<1>4. IsHeap(heap) /\ IsTable(heap, table)
  BY DEF Sound
<1> SUFFICES ASSUME NEW i \in Applied(g, t), IsReference(g, i),
                    g[i].reference \in Label \ out
             PROVE  g[i].operands = <<t[g[i].reference]>>
  BY DEF InTune
<1>5. PICK n : n = g[i].reference
  OBVIOUS
<1>6. i \in DOMAIN g /\ n \in Label /\ n \notin out
  BY <1>2, <1>3, <1>5, AppliedType DEF IsSaved
<1>7. n # l => t[n] = table[n]
  BY <1>3, <1>6
<1>8. CASE i \in DOMAIN B
  <2>0. n \in Range(s.targets)
    BY <1>2, <1>5, <1>8 DEF IsSaved
  <2>1. n \in Range(s.targets) /\ table[n] # None /\ n # l
    BY <2>0, <1>2, <1>5, <1>6, <1>8 DEF IsSaved
  <2>2. Lookup(table, n) = table[n]
    BY <1>6 DEF Lookup
  <2>3. g[i].operands = IF Lookup(table, n) = None THEN <<>>
                        ELSE <<Lookup(table, n)>>
    BY <1>2, <1>5, <1>8 DEF IsSaved
  <2> QED
    BY <1>5, <1>7, <2>1, <2>2, <2>3
<1>9. CASE i \notin DOMAIN B
  <2>1. i \in Applied(heap, table) /\ i \in DOMAIN heap
    BY <1>2, <1>3, <1>6, <1>9 DEF IsSaved
  <2>2. IsReference(heap, i) /\ heap[i].reference = n
    BY <1>2, <1>5, <2>1 DEF IsSaved
  <2>3. heap[i].operands = <<table[n]>>
    BY <1>5, <1>6, <2>1, <2>2 DEF InTune
  <2>4. table[n] # None
    BY <1>4, <2>1, <2>3, NoneIsNoOperand
  <2>5. CASE n = l
    <3>1. Turned(l, i)
      BY <2>1, <2>2, <2>4, <2>5 DEF Turned, Names
    <3>2. g[i].operands = Added(Removed(<<table[l]>>, table[l]), id)
      BY <1>2, <2>1, <2>3, <2>5, <3>1 DEF IsSaved
    <3>3. g[i].operands = <<id>>
      BY <3>2, RemovedOnly, AddedFirst
    <3> QED
      BY <1>3, <1>5, <2>5, <3>3
  <2>6. CASE n # l
    <3>1. ~Turned(l, i)
      BY <2>2, <2>6 DEF Turned, Names
    <3> QED
      BY <1>2, <1>5, <1>7, <2>1, <2>3, <2>6, <3>1 DEF IsSaved
  <2> QED
    BY <2>5, <2>6
<1> QED
  BY <1>8, <1>9

\* What is reached along operands.
LEMMA WalkedType ==
  ASSUME NEW h, IsHeap(h), NEW S, S \subseteq DOMAIN h
  PROVE  /\ S \subseteq Walked(h, S) /\ Walked(h, S) \subseteq DOMAIN h
         /\ \A i \in Walked(h, S) : Ahead(h)[i] \subseteq Walked(h, S)
<1>1. IsGraph(Ahead(h)) /\ DOMAIN Ahead(h) = DOMAIN h
  BY GraphsOfHeap
<1>2. /\ S \subseteq Walked(h, S) /\ Walked(h, S) \subseteq DOMAIN h
      /\ Closed(Ahead(h), Walked(h, S))
  BY <1>1, ClosureType DEF Walked
<1> QED
  BY <1>2 DEF Closed, IsSaved

LEMMA LedIs ==
  ASSUME NEW h, NEW i \in DOMAIN h
  PROVE  /\ Led(h)[i] \subseteq Ahead(h)[i]
         /\ IsReference(h, i) => Led(h)[i] \subseteq FirstOf(h[i].operands)
         /\ ~IsReference(h, i) => Led(h)[i] = Range(h[i].operands)
         /\ \A x : IsReference(h, i) /\ h[i].operands = <<x>>
                     => Led(h)[i] = IF h[i].reference \in Label THEN {x} ELSE {}
         /\ IsReference(h, i) /\ h[i].operands = <<>> => Led(h)[i] = {}
         /\ IsReference(h, i) /\ h[i].reference \notin Label => Led(h)[i] = {}
<1>1. /\ Ahead(h)[i] = IF IsReference(h, i) THEN FirstOf(h[i].operands)
                       ELSE Range(h[i].operands)
      /\ Led(h)[i] = IF IsReference(h, i) /\ h[i].reference \notin Label THEN {}
                     ELSE Ahead(h)[i]
  BY DEF Led, Ahead
<1>2. \A x : FirstOf(<<x>>) = {x}
  BY DEF FirstOf
<1>3. FirstOf(<<>>) = {}
  BY DEF FirstOf
<1> QED
  BY <1>1, <1>2, <1>3

\* By labels, the same is what follows if operands and references are the same.
LEMMA LedSame ==
  ASSUME NEW h, NEW g, NEW i \in DOMAIN h, i \in DOMAIN g,
         IsReference(g, i) <=> IsReference(h, i),
         g[i].operands = h[i].operands,
         IsReference(h, i) => (g[i].reference \in Label <=> h[i].reference \in Label)
  PROVE  Led(g)[i] = Led(h)[i]
BY DEF Led, Ahead

\* A save that is still valid makes no cycle: a cycle goes through the new
\* operator, whose references lead to the name that was saved.
LEMMA SaveAcyclic ==
  ASSUME Sound, NEW l \in Label, NEW s \in Shape, Validated(l, s) = "yes",
         NEW g, g = SaveHeap(l, s),
         Acyclic(heap), InTune(heap, table, {})
  PROVE  Acyclic(g)
<1>1. PICK id, B : id = <<ops + 1>> /\ B = Built(s, id)
  OBVIOUS
<1>2. IsSaved(g, l, s, id, B)
  BY <1>1, SaveHeapIs
<1>3. IsHeap(heap) /\ IsTable(heap, table)
  BY DEF Sound
<1>4. /\ \A m \in Range(s.targets) : Lookup(table, m) # None
      /\ ~Search(l, s)
  BY DEF Validated
<1>6. Targets(s) \subseteq DOMAIN heap
  BY <1>3, <1>4, SavedType, LookupIs DEF Targets
<1> DEFINE W == Walked(heap, Targets(s))
<1>7. /\ Targets(s) \subseteq W /\ W \subseteq DOMAIN heap
      /\ \A i \in W : Led(heap)[i] \subseteq W
  BY <1>3, <1>6, WalkedType, LedIs
<1>8. \A i \in W : ~Names(heap, i, l)
  BY <1>4 DEF Search
<1> HIDE DEF W
<1> SUFFICES ASSUME NEW C \in SUBSET DOMAIN g, C # {},
                    \A i \in C : Led(g)[i] \cap C # {}
             PROVE  FALSE
  BY DEF Acyclic
\* What was there is followed by what it was, unless it is turned to id.
<1>9. ASSUME NEW i \in C \cap DOMAIN heap
      PROVE  \/ ~Turned(l, i) /\ Led(heap)[i] \cap C # {}
             \/ Turned(l, i) /\ id \in C
  <2>1. CASE ~Turned(l, i)
    <3>1. g[i] = heap[i] /\ (IsReference(g, i) <=> IsReference(heap, i))
      BY <1>2, <2>1 DEF IsSaved
    <3>2. Led(g)[i] = Led(heap)[i]
      BY <1>2, <3>1, LedSame DEF IsSaved
    <3> QED
      BY <2>1, <3>2
  <2>2. CASE Turned(l, i)
    <3>1. IsReference(heap, i) /\ heap[i].operands = <<table[l]>>
      BY <2>2 DEF Turned, Names, InTune
    <3>2. g[i].operands = Added(Removed(<<table[l]>>, table[l]), id)
      BY <1>2, <2>2, <3>1 DEF IsSaved
    <3>3. g[i].operands = <<id>> /\ IsReference(g, i)
      BY <1>2, <3>1, <3>2, RemovedOnly, AddedFirst DEF IsSaved
    <3>4. g[i].reference \in Label
      BY <1>2, <2>2 DEF IsSaved, Turned, Names
    <3>5. Led(g)[i] = {id}
      BY <1>2, <3>3, <3>4, LedIs DEF IsSaved
    <3> QED
      BY <2>2, <3>5
  <2> QED
    BY <2>1, <2>2
<1>10. CASE C \cap DOMAIN B = {}
  <2>1. C \in SUBSET DOMAIN heap /\ id \notin C
    BY <1>2, <1>10 DEF IsSaved
  <2>2. \A i \in C : Led(heap)[i] \cap C # {}
    BY <1>9, <2>1
  <2> QED
    BY <2>1, <2>2 DEF Acyclic
<1>11. CASE C \cap DOMAIN B # {}
  <2>1. PICK a \in C \cap DOMAIN B : IsReference(g, a)
    <3>1. PICK b \in C \cap DOMAIN B : TRUE
      BY <1>11
    <3>2. CASE IsReference(g, b)
      BY <3>2
    <3>3. CASE ~IsReference(g, b)
      <4>1. b = id /\ Range(g[id].operands) \subseteq DOMAIN B \ {id}
        BY <1>2, <3>3 DEF IsSaved
      <4>2. PICK k \in C : k \in Led(g)[id]
        BY <3>1, <4>1
      <4>3. Led(g)[id] = Range(g[id].operands)
        BY <1>2, <3>3, <4>1, LedIs DEF IsSaved
      <4>4. k \in DOMAIN B
        BY <4>1, <4>2, <4>3
      <4>5. CASE IsReference(g, k)
        BY <4>2, <4>4, <4>5
      <4>6. CASE ~IsReference(g, k)
        <5>1. k = id
          BY <1>2, <4>4, <4>6 DEF IsSaved
        <5>2. k \in DOMAIN B \ {id}
          BY <4>1, <4>2, <4>3
        <5> QED
          BY <5>1, <5>2
      <4> QED
        BY <4>5, <4>6
    <3> QED
      BY <3>2, <3>3
  <2>2. PICK m : m = g[a].reference
    OBVIOUS
  <2>3. /\ a \in DOMAIN g /\ m \in Range(s.targets)
        /\ g[a].operands = <<Lookup(table, m)>>
    BY <1>2, <1>4, <2>1, <2>2 DEF IsSaved
  <2>4. Lookup(table, m) \in C \cap W
    <3>1. Led(g)[a] \subseteq {Lookup(table, m)}
      BY <2>1, <2>3, LedIs
    <3>2. Lookup(table, m) \in Targets(s)
      BY <2>3 DEF Targets
    <3> QED
      BY <1>7, <2>1, <3>1, <3>2
  <2>5. ASSUME NEW i \in C \cap W PROVE Led(heap)[i] \cap (C \cap W) # {}
    <3>1. ~Turned(l, i)
      BY <1>8 DEF Turned
    <3>2. Led(heap)[i] \cap C # {}
      BY <1>7, <1>9, <3>1
    <3> QED
      BY <1>7, <3>2
  <2>6. C \cap W \in SUBSET DOMAIN heap
    BY <1>7
  <2> QED
    BY <2>4, <2>5, <2>6 DEF Acyclic
<1> QED
  BY <1>10, <1>11

-----------------------------------------------------------------------------
(***************************************************************************)
(* Remove. The operator that was named takes the place of references to    *)
(* it.                                                                     *)
(***************************************************************************)

\* What strip_references makes of the operands s, and which operators go.
Put(h, s, l, target) ==
  [j \in DOMAIN s |-> IF Names(h, s[j], l) THEN target ELSE s[j]]

Gone(h, S, l, k) == Names(h, k, l) /\ \E i \in S : Contains(h[i].operands, k)

\* What p, which is Put(h, s, l, target), is made of.
IsPut(p, h, s, l, target) ==
  /\ \A x \in Range(p) : \/ x \in Range(s) /\ ~Names(h, x, l)
                         \/ x = target /\ \E y \in Range(s) : Names(h, y, l)
  /\ (\A x \in Range(s) : ~Names(h, x, l)) => p = s

LEMMA PutType ==
  ASSUME NEW h, NEW D, NEW s \in Seq(D), NEW l, NEW target \in D
  PROVE  /\ Put(h, s, l, target) \in Seq(D)
         /\ IsPut(Put(h, s, l, target), h, s, l, target)
<1>1. /\ DOMAIN s = 1..Len(s) /\ Len(s) \in Nat
      /\ \A j \in DOMAIN s : s[j] \in D /\ s[j] \in Range(s)
      /\ s = [j \in DOMAIN s |-> s[j]]
  BY DEF Range
<1> DEFINE p == Put(h, s, l, target)
<1>2. /\ DOMAIN p = DOMAIN s
      /\ \A j \in DOMAIN s : p[j] = IF Names(h, s[j], l) THEN target ELSE s[j]
      /\ p = [j \in DOMAIN s |-> p[j]]
  BY DEF Put
<1> HIDE DEF p
<1>3. p \in Seq(D)
  BY <1>1, <1>2
<1>4. ASSUME NEW x \in Range(p)
      PROVE  \/ x \in Range(s) /\ ~Names(h, x, l)
             \/ x = target /\ \E y \in Range(s) : Names(h, y, l)
  <2>1. PICK j \in DOMAIN s : p[j] = x
    BY <1>2 DEF Range
  <2> QED
    BY <1>1, <1>2, <2>1
<1>5. ASSUME \A x \in Range(s) : ~Names(h, x, l) PROVE p = s
  <2>1. \A j \in DOMAIN s : p[j] = s[j]
    BY <1>1, <1>2, <1>5
  <2> QED
    BY <1>1, <1>2, <2>1
<1> QED
  BY <1>3, <1>4, <1>5 DEF p, IsPut

\* g is h without references to l.
IsStripped(g, h, S, l, target) ==
  /\ IsHeap(g) /\ DOMAIN g = DOMAIN h
  /\ \A i \in DOMAIN h :
       /\ g[i].reference = h[i].reference
       /\ IsReference(g, i) <=> IsReference(h, i)
       /\ IF Gone(h, S, l, i) THEN g[i].operands = <<>>
          ELSE IF i \in S THEN g[i].operands = Put(h, h[i].operands, l, target)
          ELSE g[i] = h[i]

\* Stripped(h, S, l, target) is that.
LEMMA StrippedHeap ==
  ASSUME NEW h, IsHeap(h), NEW S, NEW l, NEW target \in DOMAIN h
  PROVE  IsStripped(Stripped(h, S, l, target), h, S, l, target)
<1> DEFINE g == Stripped(h, S, l, target)
           gone == {k \in DOMAIN h : Names(h, k, l) /\
                                  \E i \in S : Contains(h[i].operands, k)}
<1>1. /\ DOMAIN g = DOMAIN h
      /\ \A i \in DOMAIN h :
           g[i] = IF i \in gone THEN [h[i] EXCEPT !.operands = <<>>]
                  ELSE IF i \in S
                  THEN [h[i] EXCEPT !.operands = Put(h, h[i].operands, l, target)]
                  ELSE h[i]
  BY DEF Stripped, Put
<1>2. \A i \in DOMAIN h : i \in gone <=> Gone(h, S, l, i)
  BY DEF Gone
<1> HIDE DEF g, gone
<1>3. ASSUME NEW i \in DOMAIN h
      PROVE  /\ g[i] \in [type : Type, idlist : Nat,
                          reference : Target \cup {Nowhere}, operands : Seq(DOMAIN h)]
             /\ g[i].type = h[i].type /\ g[i].reference = h[i].reference
             /\ IF i \in gone THEN g[i].operands = <<>>
                ELSE IF i \in S
                THEN g[i].operands = Put(h, h[i].operands, l, target)
                ELSE g[i] = h[i]
  <2>1. CASE i \in gone
    <3>1. PICK o : o = <<>> /\ o \in Seq(DOMAIN h)
      <4>1. <<>> \in Seq(DOMAIN h)
        OBVIOUS
      <4> QED
        BY <4>1
    <3>2. g[i] = [h[i] EXCEPT !.operands = o]
      BY <1>1, <2>1, <3>1
    <3>3. o \in Seq(DOMAIN h)
      BY <3>1
    <3>4. /\ g[i] \in [type : Type, idlist : Nat,
                        reference : Target \cup {Nowhere}, operands : Seq(DOMAIN h)]
          /\ g[i].type = h[i].type /\ g[i].reference = h[i].reference
          /\ g[i].operands = o
      BY <3>2, <3>3, Changed
    <3> QED
      BY <2>1, <3>1, <3>4
  <2>2. CASE i \notin gone /\ i \in S
    <3>1. h[i].operands \in Seq(DOMAIN h)
      BY HeapType
    <3>2. PICK o \in Seq(DOMAIN h) : o = Put(h, h[i].operands, l, target)
      BY <3>1, PutType
    <3>3. g[i] = [h[i] EXCEPT !.operands = o]
      BY <1>1, <2>2, <3>2
    <3> QED
      BY <2>2, <3>2, <3>3, Changed
  <2>3. CASE i \notin gone /\ i \notin S
    <3>1. g[i] = h[i]
      BY <1>1, <2>3
    <3> QED
      BY <2>3, <3>1, HeapType
  <2> QED
    BY <2>1, <2>2, <2>3
<1>4. /\ IsHeap(g)
      /\ \A i \in DOMAIN h : IsReference(g, i) <=> IsReference(h, i)
  <2>1. IsLike(g, h)
    BY <1>3 DEF IsLike
  <2> QED
    BY <1>1, <2>1, Refit
<1>5. IsStripped(g, h, S, l, target)
  BY <1>1, <1>2, <1>3, <1>4 DEF IsStripped
<1> QED
  BY <1>5 DEF g

-----------------------------------------------------------------------------
\* What RemoveCollection(l) makes of the table and of the heap.
RemoveTable(l) ==
  [m \in Label |-> IF m \in Aliases(table, l) THEN None ELSE table[m]]

RemoveHeap(l) == Stripped(heap, Applied(heap, table), l, table[l])

LEMMA RemoveTableIs ==
  ASSUME Sound, NEW l \in Label, table[l] # None, NEW g, g = RemoveHeap(l)
  PROVE  /\ IsStripped(g, heap, Applied(heap, table), l, table[l])
         /\ IsTable(g, RemoveTable(l))
         /\ Saved(RemoveTable(l)) \subseteq Saved(table)
         /\ Applied(g, RemoveTable(l)) \subseteq Applied(heap, table)
         /\ table[l] \in Applied(heap, table)
<1> DEFINE t == RemoveTable(l)
           A == Applied(heap, table)
<1>1. IsHeap(heap) /\ IsTable(heap, table)
  BY DEF Sound
<1>2. /\ Saved(table) \subseteq A /\ A \subseteq DOMAIN heap
      /\ \A i \in A : ~IsReference(heap, i) => Range(heap[i].operands) \subseteq A
  BY <1>1, AppliedType
<1>3. table[l] \in A /\ table[l] \in DOMAIN heap
  BY <1>1, <1>2, SavedType
<1>4. IsStripped(g, heap, A, l, table[l])
  BY <1>1, <1>3, StrippedHeap DEF RemoveHeap
<1>5. IsHeap(g) /\ DOMAIN g = DOMAIN heap
  BY <1>4 DEF IsStripped
<1>6. IsTable(g, t)
  BY <1>1, <1>5 DEF IsTable, RemoveTable
<1>7. Saved(t) \subseteq Saved(table)
  BY DEF Saved, RemoveTable
<1>8. ASSUME NEW i \in A, ~IsReference(g, i)
      PROVE  Range(g[i].operands) \subseteq A
  <2>1. i \in DOMAIN heap /\ ~IsReference(heap, i)
    BY <1>2, <1>4, <1>8 DEF IsStripped
  <2>2. ~Gone(heap, A, l, i)
    BY <2>1 DEF Gone, Names
  <2>3. g[i].operands = Put(heap, heap[i].operands, l, table[l])
    BY <1>4, <2>1, <2>2 DEF IsStripped
  <2>4. heap[i].operands \in Seq(DOMAIN heap)
    BY <1>1, <2>1, HeapType
  <2>5. \A x \in Range(g[i].operands) : x \in Range(heap[i].operands) \/ x = table[l]
    <3>1. IsPut(g[i].operands, heap, heap[i].operands, l, table[l])
      BY <1>3, <2>3, <2>4, PutType
    <3> QED
      BY <3>1 DEF IsPut
  <2> QED
    BY <1>2, <1>3, <2>1, <2>5
<1>9. Visited(g, Saved(t)) \subseteq A
  <2>1. Saved(t) \subseteq A /\ Saved(t) \subseteq DOMAIN g /\ A \subseteq DOMAIN g
    BY <1>2, <1>5, <1>7
  <2> HIDE DEF A, t
  <2> QED
    BY <1>5, <1>8, <2>1, VisitedLeast
<1> QED
  BY <1>3, <1>4, <1>6, <1>7, <1>9 DEF Applied

\* References are in tune after a collection was removed, but for its other
\* names, and for the labels that had a reference to it and its own.
LEMMA RemoveInTune ==
  ASSUME Sound, NEW l \in Label, table[l] # None, NEW g, g = RemoveHeap(l),
         NEW lo, InTune(heap, table, lo),
         NEW out, out = lo \cup (Aliases(table, l) \ {l}) \cup Held(l)
                           \cup (IF Held(l) = {} THEN {} ELSE {l})
  PROVE  InTune(g, RemoveTable(l), out)
<1> DEFINE A == Applied(heap, table)
<1>1. PICK t : t = RemoveTable(l)
  OBVIOUS
<1>2. /\ IsStripped(g, heap, A, l, table[l])
      /\ IsTable(g, t) /\ Saved(t) \subseteq Saved(table)
      /\ Applied(g, t) \subseteq A /\ table[l] \in A
  BY <1>1, RemoveTableIs
<1>3. /\ IsHeap(heap) /\ IsTable(heap, table) /\ A \subseteq DOMAIN heap
      /\ IsHeap(g) /\ DOMAIN g = DOMAIN heap
  BY <1>2, AppliedType DEF Sound, IsStripped
<1> SUFFICES ASSUME NEW i \in Applied(g, t), IsReference(g, i),
                    g[i].reference \in Label \ out
             PROVE  g[i].operands = <<t[g[i].reference]>>
  BY <1>1 DEF InTune
<1>4. PICK n : n = g[i].reference
  OBVIOUS
<1>5. /\ i \in A /\ i \in DOMAIN heap /\ n \in Label
      /\ IsReference(heap, i) /\ heap[i].reference = n
  <2>1. i \in A /\ i \in DOMAIN heap
    BY <1>2, <1>3
  <2>2. IsReference(heap, i) /\ heap[i].reference = n
    BY <1>2, <1>4, <2>1 DEF IsStripped
  <2> QED
    BY <1>4, <2>1, <2>2
<1>6. CASE n # l
  <2>1. t[n] = table[n]
    BY <1>1, <1>4, <1>5, <1>6 DEF RemoveTable
  <2>2. heap[i].operands = <<table[n]>>
    BY <1>4, <1>5 DEF InTune
  <2>3. table[n] # None /\ table[n] \in DOMAIN heap
    BY <1>3, <1>5, <2>2, NoneIsNoOperand
  <2>4. ~Names(heap, table[n], l)
    BY <1>4, <1>5, <2>3 DEF Held
  <2>5. g[i].operands = Put(heap, heap[i].operands, l, table[l])
    <3>1. ~Gone(heap, A, l, i)
      BY <1>5, <1>6 DEF Gone, Names
    <3> QED
      BY <1>2, <1>5, <3>1 DEF IsStripped
  <2>6. heap[i].operands \in Seq(DOMAIN heap) /\ table[l] \in DOMAIN heap
    BY <1>2, <1>3, <1>5, HeapType
  <2>7. \A x \in Range(heap[i].operands) : ~Names(heap, x, l)
    BY <2>2, <2>4 DEF Range
  <2>8. Put(heap, heap[i].operands, l, table[l]) = heap[i].operands
    <3>1. IsPut(Put(heap, heap[i].operands, l, table[l]),
                heap, heap[i].operands, l, table[l])
      BY <2>6, PutType
    <3> QED
      BY <2>7, <3>1 DEF IsPut
  <2> QED
    BY <1>4, <2>1, <2>2, <2>5, <2>8
\* No reference to l is left.
<1>7. CASE n = l
  <2>1. Held(l) = {} /\ Names(heap, i, l)
    BY <1>4, <1>5, <1>7 DEF Names
  <2>2. i \notin Saved(table) /\ ~Names(heap, table[l], l)
    BY <2>1 DEF Held, Saved
  <2>3. /\ IsGraph(Below(g)) /\ DOMAIN Below(g) = DOMAIN g
        /\ Saved(t) \subseteq DOMAIN g
    BY <1>2, <1>3, GraphsOfHeap, SavedType
  <2>4. i \in Saved(t) \/ \E y \in Applied(g, t) : i \in Below(g)[y]
    BY <2>3, ClosureInto DEF Applied, Visited
  <2>5. PICK y \in Applied(g, t) : i \in Below(g)[y]
    BY <1>2, <2>2, <2>4
  <2>6. y \in A /\ y \in DOMAIN heap /\ ~IsReference(g, y) /\ i \in Range(g[y].operands)
    BY <1>2, <1>3, <2>5 DEF Below
  <2>7. ~Gone(heap, A, l, y)
    BY <1>2, <2>6 DEF Gone, Names, IsStripped
  <2>8. g[y].operands = Put(heap, heap[y].operands, l, table[l])
    BY <1>2, <2>6, <2>7 DEF IsStripped
  <2>9. heap[y].operands \in Seq(DOMAIN heap) /\ table[l] \in DOMAIN heap
    BY <1>2, <1>3, <2>6, HeapType
  <2>10. ~Names(heap, i, l) \/ i = table[l]
    <3>1. IsPut(g[y].operands, heap, heap[y].operands, l, table[l])
      BY <2>8, <2>9, PutType
    <3> QED
      BY <2>6, <3>1 DEF IsPut
  <2> QED
    BY <2>1, <2>2, <2>10
<1> QED
  BY <1>6, <1>7

\* A step to the target of a stripped reference was two steps before.
LEMMA RemoveAcyclic ==
  ASSUME Sound, NEW l \in Label, table[l] # None, NEW g, g = RemoveHeap(l),
         Held(l) = {}, Acyclic(heap), InTune(heap, table, {})
  PROVE  Acyclic(g)
<1> DEFINE A == Applied(heap, table)
<1>1. IsStripped(g, heap, A, l, table[l]) /\ table[l] \in A
  BY RemoveTableIs
<1>2. /\ IsHeap(heap) /\ IsTable(heap, table) /\ A \subseteq DOMAIN heap
      /\ IsHeap(g) /\ DOMAIN g = DOMAIN heap
      /\ \A i \in A : ~IsReference(heap, i) => Range(heap[i].operands) \subseteq A
  BY <1>1, AppliedType DEF Sound, IsStripped
<1> SUFFICES ASSUME NEW C \in SUBSET DOMAIN g, C # {},
                    \A i \in C : Led(g)[i] \cap C # {}
             PROVE  FALSE
  BY DEF Acyclic
\* References to l lay between what is now followed by its operator, and it.
<1> DEFINE D == C \cup {k \in A : Names(heap, k, l) /\ table[l] \in C}
<1>3. D \in SUBSET DOMAIN heap /\ D # {}
  BY <1>2
<1>4. ASSUME NEW k \in A, Names(heap, k, l)
      PROVE  Led(heap)[k] = {table[l]}
  <2>1. /\ IsReference(heap, k) /\ heap[k].operands = <<table[l]>>
        /\ heap[k].reference \in Label
    BY <1>4 DEF Names, InTune
  <2> QED
    BY <1>2, <2>1, LedIs
<1>5. ASSUME NEW i \in D \ C PROVE Led(heap)[i] \cap D # {}
  BY <1>4, <1>5
<1>6. ASSUME NEW i \in C PROVE Led(heap)[i] \cap D # {}
  <2>1. /\ i \in DOMAIN heap /\ i \in DOMAIN g
        /\ IsReference(g, i) <=> IsReference(heap, i)
    BY <1>1, <1>2 DEF IsStripped
  <2>2. PICK y \in C : y \in Led(g)[i]
    OBVIOUS
  <2>3. ~Gone(heap, A, l, i)
    <3> SUFFICES ASSUME Gone(heap, A, l, i) PROVE FALSE
      OBVIOUS
    <3>1. g[i].operands = <<>> /\ IsReference(g, i)
      BY <1>1, <2>1 DEF IsStripped, Gone, Names
    <3> QED
      BY <2>1, <2>2, <3>1, LedIs
  <2>4. CASE i \notin A
    <3>1. g[i] = heap[i]
      BY <1>1, <2>1, <2>3, <2>4 DEF IsStripped
    <3>2. Led(g)[i] = Led(heap)[i]
      BY <2>1, <3>1, LedSame
    <3> QED
      BY <2>2, <3>2
  <2>5. CASE i \in A
    <3>1. g[i].operands = Put(heap, heap[i].operands, l, table[l])
      BY <1>1, <2>1, <2>3, <2>5 DEF IsStripped
    <3>2. heap[i].operands \in Seq(DOMAIN heap) /\ table[l] \in DOMAIN heap
      BY <1>1, <1>2, <2>1, HeapType
    <3>3. IsPut(g[i].operands, heap, heap[i].operands, l, table[l])
      BY <3>1, <3>2, PutType
    <3>4. CASE IsReference(heap, i)
      <4>0. heap[i].reference \in Label
        <5>1. g[i].reference \in Label
          BY <2>1, <2>2, <3>4, LedIs
        <5> QED
          BY <1>1, <2>1, <5>1 DEF IsStripped
      <4>1. heap[i].operands = <<table[heap[i].reference]>>
            /\ heap[i].reference \in Label
        BY <1>2, <2>5, <3>4, <4>0 DEF InTune
      <4>2. table[heap[i].reference] # None
        BY <1>2, <2>1, <4>1, NoneIsNoOperand
      <4>3. ~Names(heap, table[heap[i].reference], l)
        BY <4>1, <4>2 DEF Held
      <4>4. \A x \in Range(heap[i].operands) : ~Names(heap, x, l)
        BY <4>1, <4>3 DEF Range
      <4>5. g[i].operands = heap[i].operands
        BY <3>3, <4>4 DEF IsPut
      <4>6. Led(g)[i] = Led(heap)[i]
        <5>1. g[i].reference = heap[i].reference
          BY <1>1, <2>1 DEF IsStripped
        <5> QED
          BY <2>1, <4>5, <5>1, LedSame
      <4> QED
        BY <2>2, <4>6
    <3>5. CASE ~IsReference(heap, i)
      <4>1. /\ Led(g)[i] = Range(g[i].operands)
            /\ Led(heap)[i] = Range(heap[i].operands)
        BY <2>1, <3>5, LedIs
      <4>2. \/ y \in Range(heap[i].operands)
            \/ y = table[l] /\ \E k \in Range(heap[i].operands) : Names(heap, k, l)
        BY <2>2, <3>3, <4>1 DEF IsPut
      <4>3. \A k \in Range(heap[i].operands) : k \in A
        BY <1>2, <2>5, <3>5
      <4> QED
        BY <2>2, <4>1, <4>2, <4>3
    <3> QED
      BY <3>4, <3>5
  <2> QED
    BY <2>4, <2>5
<1> HIDE DEF D
<1>7. \A i \in D : Led(heap)[i] \cap D # {}
  BY <1>5, <1>6
<1> QED
  BY <1>3, <1>7 DEF Acyclic

-----------------------------------------------------------------------------
(***************************************************************************)
(* Rename, and the load of a playlist.                                     *)
(***************************************************************************)

\* What RenameCollection(from, to) makes of the table and of the heap.
RenameTable(from, to) == [table EXCEPT ![to] = table[from], ![from] = None]

RenameHeap(from, to) ==
  Renamed(heap, Applied(heap, RenameTable(from, to)), from, to)

\* g is the heap with references to from turned into references to to.
IsRenamed(g, from, to) ==
  /\ IsHeap(g) /\ DOMAIN g = DOMAIN heap
  /\ \A i \in DOMAIN heap :
       /\ g[i].operands = heap[i].operands
       /\ IsReference(g, i) <=> IsReference(heap, i)
       /\ IF i \in Applied(heap, table) /\ Names(heap, i, from)
          THEN g[i].reference = to ELSE g[i].reference = heap[i].reference

LEMMA RenameIs ==
  ASSUME Sound, NEW from \in Label, NEW to \in Label,
         table[from] # None, table[to] = None,
         NEW g, g = RenameHeap(from, to), NEW t, t = RenameTable(from, to)
  PROVE  /\ IsRenamed(g, from, to) /\ IsTable(g, t)
         /\ Applied(g, t) = Applied(heap, table)
         /\ Led(g) = Led(heap)
         /\ t[to] = table[from]
         /\ \A m \in Label \ {from, to} : t[m] = table[m]
<1>1. IsHeap(heap) /\ IsTable(heap, table)
  BY DEF Sound
<1>2. table \in [Label -> {a \in DOMAIN heap : Len(a) = 1} \cup {None}]
  BY <1>1 DEF IsTable
<1>3. /\ t \in [Label -> {a \in DOMAIN heap : Len(a) = 1} \cup {None}]
      /\ t[to] = table[from] /\ t[from] = None
      /\ \A m \in Label \ {from, to} : t[m] = table[m]
  BY <1>2 DEF RenameTable
<1>4. Saved(t) = Saved(table)
  <2>1. \A m \in Label : t[m] # None => \E k \in Label : table[k] = t[m]
    BY <1>3
  <2>2. \A m \in Label : table[m] # None => \E k \in Label : t[k] = table[m]
    BY <1>3
  <2> QED
    BY <2>1, <2>2 DEF Saved
<1>5. Applied(heap, t) = Applied(heap, table)
  BY <1>4 DEF Applied
<1>6. /\ DOMAIN g = DOMAIN heap
      /\ \A i \in DOMAIN heap :
           g[i] = IF i \in Applied(heap, table) /\ Names(heap, i, from)
                  THEN [heap[i] EXCEPT !.reference = to] ELSE heap[i]
  BY <1>5 DEF RenameHeap, Renamed
<1>7. ASSUME NEW i \in DOMAIN heap
      PROVE  /\ g[i] \in [type : Type, idlist : Nat,
                          reference : Target \cup {Nowhere},
                          operands : Seq(DOMAIN heap)]
             /\ g[i].type = heap[i].type /\ g[i].operands = heap[i].operands
             /\ IF i \in Applied(heap, table) /\ Names(heap, i, from)
                THEN g[i].reference = to ELSE g[i].reference = heap[i].reference
  <2>1. heap[i] \in [type : Type, idlist : Nat,
                     reference : Target \cup {Nowhere}, operands : Seq(DOMAIN heap)]
    BY <1>1, HeapType
  <2>2. to \in Target \cup {Nowhere}
    BY DEF Target
  <2> QED
    BY <1>6, <2>1, <2>2
<1>8. \A i \in DOMAIN heap : IsReference(g, i) <=> IsReference(heap, i)
  BY <1>7 DEF IsReference
<1>9. \A i \in DOMAIN heap : IsReference(g, i) => g[i].reference \in Target
  BY <1>1, <1>7, <1>8, HeapType DEF Target
<1>10. IsHeap(g)
  <2>1. IsFiniteSet(DOMAIN g) /\ DOMAIN g \subseteq Seq(Nat) \ {None}
    BY <1>1, <1>6 DEF IsHeap
  <2> QED
    BY <1>6, <1>7, <1>9, <2>1 DEF IsHeap
<1>11. IsRenamed(g, from, to)
  BY <1>6, <1>7, <1>8, <1>10 DEF IsRenamed
<1>12. Applied(g, t) = Applied(heap, t)
  BY <1>6, <1>7, <1>8, BelowSame
<1>13. Led(g) = Led(heap)
  <2>1. ASSUME NEW i \in DOMAIN heap PROVE Led(g)[i] = Led(heap)[i]
    <3>1. g[i].reference \in Label <=> heap[i].reference \in Label
      BY <1>7 DEF Names
    <3> QED
      BY <1>6, <1>7, <1>8, <3>1, LedSame
  <2>2. /\ Led(g) = [i \in DOMAIN heap |-> Led(g)[i]]
        /\ Led(heap) = [i \in DOMAIN heap |-> Led(heap)[i]]
    BY <1>6 DEF Led
  <2> QED
    BY <2>1, <2>2
<1> QED
  BY <1>3, <1>5, <1>6, <1>11, <1>12, <1>13 DEF IsTable

LEMMA RenameInTune ==
  ASSUME Sound, NEW from \in Label, NEW to \in Label,
         table[from] # None, table[to] = None,
         NEW g, g = RenameHeap(from, to), NEW t, t = RenameTable(from, to),
         NEW lo, InTune(heap, table, lo)
  PROVE  InTune(g, t, IF from \in lo THEN lo \cup {to} ELSE lo)
<1>1. /\ IsRenamed(g, from, to)
      /\ Applied(g, t) = Applied(heap, table)
      /\ t[to] = table[from] /\ \A m \in Label \ {from, to} : t[m] = table[m]
  BY RenameIs
<1>2. /\ IsHeap(heap) /\ IsTable(heap, table)
      /\ Applied(heap, table) \subseteq DOMAIN heap
  BY AppliedType DEF Sound
<1> SUFFICES ASSUME NEW i \in Applied(g, t), IsReference(g, i),
                    g[i].reference \in Label,
                    g[i].reference \notin IF from \in lo THEN lo \cup {to} ELSE lo
             PROVE  g[i].operands = <<t[g[i].reference]>>
  BY DEF InTune
<1>3. /\ i \in Applied(heap, table) /\ i \in DOMAIN heap
      /\ IsReference(heap, i) /\ heap[i].reference \in Label
  <2>1. i \in Applied(heap, table) /\ i \in DOMAIN heap
    BY <1>1, <1>2
  <2>2. IsReference(heap, i)
    BY <1>1, <2>1 DEF IsRenamed
  <2> QED
    BY <1>1, <2>1, <2>2 DEF IsRenamed, Names
<1>4. g[i].operands = heap[i].operands
  BY <1>1, <1>3 DEF IsRenamed
<1>5. CASE heap[i].reference = from
  <2>1. g[i].reference = to
    BY <1>1, <1>3, <1>5 DEF IsRenamed, Names
  <2>2. heap[i].operands = <<table[from]>>
    BY <1>3, <1>5, <2>1 DEF InTune
  <2> QED
    BY <1>1, <1>4, <2>1, <2>2
<1>6. CASE heap[i].reference # from
  <2>1. g[i].reference = heap[i].reference
    BY <1>1, <1>3, <1>6 DEF IsRenamed, Names
  <2>2. heap[i].operands = <<table[heap[i].reference]>>
    BY <1>3, <2>1 DEF InTune
  <2>3. table[heap[i].reference] # None
    BY <1>2, <1>3, <2>2, NoneIsNoOperand
  <2> QED
    BY <1>1, <1>3, <1>4, <1>6, <2>1, <2>2, <2>3
<1> QED
  BY <1>5, <1>6

\* Whether there is a cycle depends on what is led to alone.
LEMMA SameLedAcyclic ==
  ASSUME NEW h, NEW g, DOMAIN g = DOMAIN h, Led(g) = Led(h), Acyclic(h)
  PROVE  Acyclic(g)
BY DEF Acyclic

-----------------------------------------------------------------------------
\* What Load(c) makes of the table, and the references it brings back.
LoadTable(id) == [table EXCEPT ![Active] = id]

Fresh(id) == {i \in Applied(heap, LoadTable(id)) \ Applied(heap, table) :
                IsReference(heap, i)}

LEMMA LoadIs ==
  ASSUME Sound, NEW id \in DOMAIN heap, Len(id) = 1, NEW t, t = LoadTable(id)
  PROVE  /\ IsTable(heap, t)
         /\ \A m \in Label \ {Active} : t[m] = table[m]
         /\ t[Active] = id
<1>1. Active \in Label
  BY LabelAssumption DEF Playlists
<1>2. table \in [Label -> {a \in DOMAIN heap : Len(a) = 1} \cup {None}]
  BY DEF Sound, IsTable
<1> QED
  BY <1>1, <1>2 DEF LoadTable, IsTable

LEMMA LoadInTune ==
  ASSUME Sound, NEW id \in DOMAIN heap, Len(id) = 1, NEW t, t = LoadTable(id),
         NEW lo, InTune(heap, table, lo),
         NEW out, lo \subseteq out,
         \A i \in Fresh(id) : heap[i].reference \in Label => heap[i].reference \in out,
         \A i \in Applied(heap, table) : Names(heap, i, Active) => Active \in out
  PROVE  InTune(heap, t, out)
<1>1. /\ IsTable(heap, t) /\ IsHeap(heap)
      /\ \A m \in Label \ {Active} : t[m] = table[m]
  BY LoadIs DEF Sound
<1> SUFFICES ASSUME NEW i \in Applied(heap, t), IsReference(heap, i),
                    heap[i].reference \in Label \ out
             PROVE  heap[i].operands = <<t[heap[i].reference]>>
  BY DEF InTune
<1>2. i \in Applied(heap, table)
  BY DEF Fresh
<1>3. heap[i].reference \in Label
  OBVIOUS
<1>4. heap[i].operands = <<table[heap[i].reference]>>
  BY <1>2 DEF InTune
<1>5. heap[i].reference # Active
  BY <1>2 DEF Names
<1> QED
  BY <1>1, <1>3, <1>4, <1>5

-----------------------------------------------------------------------------
(***************************************************************************)
(* Restart. An operator is written once for every collection it is a part  *)
(* of; its address there leads back to it.                                 *)
(***************************************************************************)

LEMMA HeadTailOfConcat ==
  ASSUME NEW r \in Seq(Nat), Len(r) = 1, NEW i \in Seq(Nat), i # <<>>
  PROVE  /\ r \o i \in Seq(Nat) /\ r \o i # <<>> /\ Len(r \o i) # 1
         /\ Head(r \o i) = Head(r) /\ Tail(r \o i) = i
<1>1. PICK w : w = r \o i
  OBVIOUS
<1>2. Len(i) \in Nat /\ Len(i) # 0
  BY EmptySeq, LenProperties
<1>3. /\ w \in Seq(Nat) /\ Len(w) = Len(r) + Len(i)
      /\ \A k \in 1..Len(r) + Len(i) :
           w[k] = IF k <= Len(r) THEN r[k] ELSE i[k - Len(r)]
  BY <1>1, ConcatProperties
<1>4. w # <<>> /\ Len(w) # 1 /\ Len(w) = 1 + Len(i) /\ w[1] = r[1]
  BY <1>2, <1>3
<1>5. Head(w) = Head(r)
  BY <1>3, <1>4
<1>6. /\ Tail(w) \in Seq(Nat) /\ Len(Tail(w)) = Len(w) - 1
      /\ \A k \in 1..Len(Tail(w)) : Tail(w)[k] = w[k + 1]
  BY <1>3, <1>4, HeadTailProperties
<1>7. \A k \in 1..Len(i) : Tail(w)[k] = i[k]
  <2> SUFFICES ASSUME NEW k \in 1..Len(i) PROVE Tail(w)[k] = i[k]
    OBVIOUS
  <2>1. k \in Nat /\ k + 1 \in 1..Len(r) + Len(i) /\ ~(k + 1 <= Len(r))
        /\ (k + 1) - Len(r) = k /\ k \in 1..Len(Tail(w))
    BY <1>2, <1>4, <1>6
  <2> QED
    BY <1>3, <1>6, <2>1
<1>8. Len(Tail(w)) = Len(i)
  BY <1>2, <1>4, <1>6
<1>9. Tail(w) = i
  BY <1>6, <1>7, <1>8, SeqEqual
<1> QED
  BY <1>1, <1>3, <1>4, <1>5, <1>9

\* The address of a copy tells whose copy it is, and of what.
LEMMA AtIs ==
  ASSUME NEW r \in Seq(Nat), Len(r) = 1, NEW i \in Seq(Nat), i # <<>>
  PROVE  /\ At(r, i) \in Seq(Nat) \ {None}
         /\ Head(At(r, i)) = Head(r)
         /\ Root(At(r, i)) = r /\ Source(At(r, i)) = i
         /\ At(r, r) = r /\ Source(r) = r
<1>0. r # <<>>
  BY EmptySeq
<1>1. PICK n \in Nat : n = Head(r)
  BY <1>0, HeadTailProperties
<1>2. <<n>> = r
  <2>1. n = r[1] /\ Len(<<n>>) = 1 /\ <<n>>[1] = n /\ <<n>> \in Seq(Nat)
    BY <1>1
  <2>2. PICK q \in Seq(Nat) : q = <<n>>
    BY <2>1
  <2>3. q = r
    BY <2>1, <2>2, SeqEqual
  <2> QED
    BY <2>2, <2>3
<1>3. CASE i = r
  BY <1>0, <1>1, <1>2, <1>3 DEF At, Root, Source, None
<1>4. CASE i # r
  BY <1>1, <1>2, <1>4, HeadTailOfConcat DEF At, Root, Source, None
<1> QED
  BY <1>3, <1>4

\* The copies are finitely many, each of an operator that a saved collection
\* is made of.
LEMMA CopiesIs ==
  ASSUME NEW h, IsHeap(h), NEW t, IsTable(h, t)
  PROVE  /\ IsFiniteSet(Copies(h, t))
         /\ Saved(t) \subseteq Copies(h, t)
         /\ \A a \in Copies(h, t) :
              \E r \in Saved(t) : \E i \in Visited(h, {r}) :
                /\ a = At(r, i) /\ r \in Seq(Nat) /\ Len(r) = 1
                /\ i \in DOMAIN h /\ i \in Seq(Nat) /\ i # <<>>
                /\ i \in Applied(h, t)
<1>1. \A r \in Saved(t) : r \in DOMAIN h /\ Len(r) = 1
  BY SavedType
<1>2. DOMAIN h \subseteq Seq(Nat) \ {<<>>} /\ IsFiniteSet(DOMAIN h)
  BY DEF IsHeap, None
<1>3. ASSUME NEW r \in Saved(t)
      PROVE  r \in Visited(h, {r}) /\ Visited(h, {r}) \subseteq DOMAIN h
  BY <1>1, VisitedType
<1>4. ASSUME NEW r \in Saved(t) PROVE Visited(h, {r}) \subseteq Applied(h, t)
  <2>1. /\ {r} \subseteq Applied(h, t) /\ {r} \subseteq DOMAIN h
        /\ Applied(h, t) \subseteq DOMAIN h
        /\ \A i \in Applied(h, t) :
             ~IsReference(h, i) => Range(h[i].operands) \subseteq Applied(h, t)
    BY <1>1, AppliedType
  <2> QED
    BY <2>1, VisitedLeast
<1>5. Saved(t) \subseteq Copies(h, t)
  <2> SUFFICES ASSUME NEW r \in Saved(t) PROVE r \in Copies(h, t)
    OBVIOUS
  <2>1. r \in Visited(h, {r}) /\ At(r, r) = r
    BY <1>3 DEF At
  <2> QED
    BY <2>1 DEF Copies
<1>6. IsFiniteSet(Copies(h, t))
  <2> DEFINE P == (DOMAIN h) \X (DOMAIN h)
             f == [p \in P |-> At(p[1], p[2])]
             T == {At(p[1], p[2]) : p \in P}
  <2>1. IsFiniteSet(P)
    BY <1>2, FS_Product
  <2>2. f \in Surjection(P, T)
    BY DEF Surjection
  <2>3. IsFiniteSet(T)
    <3> HIDE DEF f, T, P
    <3> QED
      BY <2>1, <2>2, FS_Surjection
  <2>4. ASSUME NEW r \in Saved(t), NEW i, i \in Visited(h, {r})
        PROVE  At(r, i) \in T
    <3>1. r \in DOMAIN h /\ i \in DOMAIN h
      BY <1>1, <1>3, <2>4
    <3>2. <<r, i>> \in P /\ <<r, i>>[1] = r /\ <<r, i>>[2] = i
      BY <3>1
    <3> QED
      BY <3>2
  <2>5. Copies(h, t) \subseteq T
    <3> HIDE DEF T
    <3> SUFFICES ASSUME NEW a \in Copies(h, t) PROVE a \in T
      OBVIOUS
    <3>1. PICK r \in Saved(t) : a \in {At(r, i) : i \in Visited(h, {r})}
      BY DEF Copies
    <3>2. PICK i \in Visited(h, {r}) : a = At(r, i)
      BY <3>1
    <3> QED
      BY <2>4, <3>2
  <2> QED
    BY <2>3, <2>5, FS_Subset
<1>7. ASSUME NEW a \in Copies(h, t)
      PROVE  \E r \in Saved(t) : \E i \in Visited(h, {r}) :
                /\ a = At(r, i) /\ r \in Seq(Nat) /\ Len(r) = 1
                /\ i \in DOMAIN h /\ i \in Seq(Nat) /\ i # <<>>
                /\ i \in Applied(h, t)
  <2>1. PICK r \in Saved(t) : a \in {At(r, i) : i \in Visited(h, {r})}
    BY DEF Copies
  <2>2. PICK i \in Visited(h, {r}) : a = At(r, i)
    BY <2>1
  <2> QED
    BY <1>1, <1>2, <1>3, <1>4, <2>2
<1> QED
  BY <1>5, <1>6, <1>7

\* g is what is read of h before references are bound.
IsRead(g, h, t) ==
  /\ IsHeap(g) /\ IsTable(g, t) /\ DOMAIN g = Copies(h, t)
  /\ \A a \in DOMAIN g :
       /\ Source(a) \in Applied(h, t)
       /\ \E r \in DOMAIN h : Head(a) = Head(r)
       /\ g[a].reference = h[Source(a)].reference
       /\ IsReference(g, a) <=> IsReference(h, Source(a))
       /\ IsReference(g, a) => g[a].operands = <<>>
       /\ ~IsReference(g, a) =>
            \A x \in Range(g[a].operands) :
              Source(x) \in Range(h[Source(a)].operands)

LEMMA ReadIs ==
  ASSUME NEW h, IsHeap(h), NEW t, IsTable(h, t)
  PROVE  IsRead([a \in Copies(h, t) |-> Copied(h, a)], h, t)
<1> DEFINE g == [a \in Copies(h, t) |-> Copied(h, a)]
<1>1. DOMAIN g = Copies(h, t) /\ \A a \in Copies(h, t) : g[a] = Copied(h, a)
  OBVIOUS
<1>2. /\ IsFiniteSet(Copies(h, t)) /\ Saved(t) \subseteq Copies(h, t)
      /\ \A a \in Copies(h, t) :
           \E r \in Saved(t) : \E i \in Visited(h, {r}) :
             /\ a = At(r, i) /\ r \in Seq(Nat) /\ Len(r) = 1
             /\ i \in DOMAIN h /\ i \in Seq(Nat) /\ i # <<>>
             /\ i \in Applied(h, t)
  BY CopiesIs
<1> HIDE DEF g
<1>3. ASSUME NEW a \in Copies(h, t)
      PROVE  /\ a \in Seq(Nat) \ {None}
             /\ Source(a) \in Applied(h, t)
             /\ \E r \in DOMAIN h : Head(a) = Head(r)
             /\ g[a] \in [type : Type, idlist : Nat,
                          reference : Target \cup {Nowhere},
                          operands : Seq(Copies(h, t))]
             /\ g[a].reference = h[Source(a)].reference
             /\ IsReference(g, a) <=> IsReference(h, Source(a))
             /\ IsReference(g, a) => g[a].operands = <<>>
             /\ IsReference(g, a) => g[a].reference \in Target
             /\ ~IsReference(g, a) =>
                  \A x \in Range(g[a].operands) :
                    Source(x) \in Range(h[Source(a)].operands)
  <2>1. PICK r \in Saved(t) : \E i \in Visited(h, {r}) :
               /\ a = At(r, i) /\ r \in Seq(Nat) /\ Len(r) = 1
               /\ i \in DOMAIN h /\ i \in Seq(Nat) /\ i # <<>>
               /\ i \in Applied(h, t)
    BY <1>2
  <2>2. PICK i \in Visited(h, {r}) :
               /\ a = At(r, i) /\ r \in Seq(Nat) /\ Len(r) = 1
               /\ i \in DOMAIN h /\ i \in Seq(Nat) /\ i # <<>>
               /\ i \in Applied(h, t)
    BY <2>1
  <2>3. /\ a \in Seq(Nat) \ {None} /\ Head(a) = Head(r)
        /\ Root(a) = r /\ Source(a) = i
    BY <2>2, AtIs
  <2>4. r \in DOMAIN h
    BY SavedType
  <2>5. /\ h[i] \in [type : Type, idlist : Nat,
                     reference : Target \cup {Nowhere}, operands : Seq(DOMAIN h)]
        /\ h[i].operands \in Seq(DOMAIN h)
        /\ Range(h[i].operands) \subseteq DOMAIN h
        /\ IsReference(h, i) => h[i].reference \in Target
    BY <2>2, HeapType
  <2>6. PICK q : q = h[i].operands
    OBVIOUS
  <2>7. PICK o : o = IF IsReference(h, i) THEN <<>>
                     ELSE [j \in DOMAIN q |-> At(r, q[j])]
    OBVIOUS
  <2>8. g[a] = [h[i] EXCEPT !.operands = o]
    BY <1>1, <2>3, <2>6, <2>7 DEF Copied
  <2>9. /\ q \in Seq(DOMAIN h) /\ DOMAIN q = 1..Len(q) /\ Len(q) \in Nat
        /\ \A j \in DOMAIN q : q[j] \in Range(q)
    BY <2>5, <2>6 DEF Range
  <2>10. ASSUME ~IsReference(h, i), NEW j \in DOMAIN q
         PROVE  At(r, q[j]) \in Copies(h, t) /\ Source(At(r, q[j])) = q[j]
    <3>1. q[j] \in Visited(h, {r}) /\ q[j] \in DOMAIN h
      BY <2>2, <2>4, <2>5, <2>6, <2>9, <2>10, VisitedType
    <3>2. q[j] \in Seq(Nat) /\ q[j] # <<>>
      BY <3>1 DEF IsHeap, None
    <3>3. Source(At(r, q[j])) = q[j]
      BY <2>2, <3>2, AtIs
    <3>4. At(r, q[j]) \in {At(r, k) : k \in Visited(h, {r})}
      BY <3>1
    <3>5. At(r, q[j]) \in Copies(h, t)
      <4>1. {At(r, k) : k \in Visited(h, {r})}
              \in {{At(p, k) : k \in Visited(h, {p})} : p \in Saved(t)}
        OBVIOUS
      <4> QED
        BY <3>4, <4>1, Zenon DEF Copies
    <3> QED
      BY <3>3, <3>5
  <2>11. o \in Seq(Copies(h, t))
    <3>1. CASE IsReference(h, i)
      BY <2>7, <3>1
    <3>2. CASE ~IsReference(h, i)
      <4>1. o = [j \in 1..Len(q) |-> At(r, q[j])]
        BY <2>7, <2>9, <3>2
      <4>2. \A j \in 1..Len(q) : At(r, q[j]) \in Copies(h, t)
        BY <2>9, <2>10, <3>2
      <4> QED
        BY <2>9, <4>1, <4>2
    <3> QED
      BY <3>1, <3>2
  <2>12. /\ g[a] \in [type : Type, idlist : Nat,
                      reference : Target \cup {Nowhere},
                      operands : Seq(Copies(h, t))]
         /\ g[a].reference = h[i].reference /\ g[a].type = h[i].type
         /\ g[a].operands = o
    BY <2>5, <2>8, <2>11
  <2>13. IsReference(g, a) <=> IsReference(h, i)
    BY <2>12 DEF IsReference
  <2>14. ASSUME ~IsReference(h, i), NEW x \in Range(o)
         PROVE  Source(x) \in Range(q)
    <3>1. o = [j \in DOMAIN q |-> At(r, q[j])]
      BY <2>7, <2>14
    <3>2. PICK j \in DOMAIN q : x = At(r, q[j])
      BY <3>1 DEF Range
    <3> QED
      BY <2>9, <2>10, <2>14, <3>2
  <2> QED
    BY <2>2, <2>3, <2>4, <2>5, <2>6, <2>7, <2>12, <2>13, <2>14
<1>4. IsHeap(g)
  BY <1>1, <1>2, <1>3 DEF IsHeap
<1>5. IsTable(g, t)
  <2>1. ASSUME NEW l \in Label
        PROVE  t[l] \in {a \in DOMAIN g : Len(a) = 1} \cup {None}
    BY <1>1, <1>2, SavedType DEF Saved
  <2>2. t = [l \in Label |-> t[l]]
    BY DEF IsTable
  <2> QED
    BY <2>1, <2>2 DEF IsTable
<1>6. IsRead(g, h, t)
  BY <1>1, <1>3, <1>4, <1>5 DEF IsRead
<1> QED
  BY <1>6 DEF g

\* g is h as it is restored: bound again.
IsRestored(g, h, t) ==
  /\ IsHeap(g) /\ IsTable(g, t)
  /\ \A a \in DOMAIN g :
       /\ Source(a) \in Applied(h, t)
       /\ \E r \in DOMAIN h : Head(a) = Head(r)
       /\ g[a].reference = h[Source(a)].reference
       /\ IsReference(g, a) <=> IsReference(h, Source(a))
       /\ IsReference(g, a) =>
            IF a \in Applied(g, t) /\ Lookup(t, g[a].reference) # None
            THEN g[a].operands = <<Lookup(t, g[a].reference)>>
            ELSE g[a].operands = <<>>
       /\ ~IsReference(g, a) =>
            \A x \in Range(g[a].operands) :
              Source(x) \in Range(h[Source(a)].operands)

LEMMA RestoredIs ==
  ASSUME NEW h, IsHeap(h), NEW t, IsTable(h, t)
  PROVE  IsRestored(Restored(h, t), h, t)
<1>1. PICK e : e = [a \in Copies(h, t) |-> Copied(h, a)]
  OBVIOUS
<1>2. PICK g : g = Bound(e, Applied(e, t), t)
  OBVIOUS
<1>3. IsRead(e, h, t)
  BY <1>1, ReadIs
<1>4. /\ IsHeap(e) /\ IsTable(e, t)
      /\ \A l \in Label : t[l] # None => t[l] \in DOMAIN e
  BY <1>3, SavedType DEF IsRead
<1>5. /\ IsHeap(g) /\ DOMAIN g = DOMAIN e
      /\ \A i \in DOMAIN e :
           /\ g[i].type = e[i].type /\ g[i].reference = e[i].reference
           /\ IsReference(g, i) <=> IsReference(e, i)
           /\ IF i \in Applied(e, t) /\ IsReference(e, i) /\ Lookup(t, e[i].reference) # None
              THEN g[i].operands = Added(e[i].operands, Lookup(t, e[i].reference))
              ELSE g[i] = e[i]
  BY <1>2, <1>4, BoundHeap
<1>6. Applied(g, t) = Applied(e, t)
  BY <1>5, BelowSame
<1>7. ASSUME NEW a \in DOMAIN g
      PROVE  /\ Source(a) \in Applied(h, t)
             /\ \E r \in DOMAIN h : Head(a) = Head(r)
             /\ g[a].reference = h[Source(a)].reference
             /\ IsReference(g, a) <=> IsReference(h, Source(a))
             /\ IsReference(g, a) =>
                  IF a \in Applied(g, t) /\ Lookup(t, g[a].reference) # None
                  THEN g[a].operands = <<Lookup(t, g[a].reference)>>
                  ELSE g[a].operands = <<>>
             /\ ~IsReference(g, a) =>
                  \A x \in Range(g[a].operands) :
                    Source(x) \in Range(h[Source(a)].operands)
  <2>1. /\ Source(a) \in Applied(h, t)
        /\ \E r \in DOMAIN h : Head(a) = Head(r)
        /\ e[a].reference = h[Source(a)].reference
        /\ IsReference(e, a) <=> IsReference(h, Source(a))
        /\ IsReference(e, a) => e[a].operands = <<>>
        /\ ~IsReference(e, a) =>
             \A x \in Range(e[a].operands) :
               Source(x) \in Range(h[Source(a)].operands)
    BY <1>3, <1>5 DEF IsRead
  <2>2. /\ g[a].reference = e[a].reference
        /\ IsReference(g, a) <=> IsReference(e, a)
    BY <1>5
  <2>3. CASE IsReference(e, a)
    <3>1. a \in Applied(e, t) /\ Lookup(t, e[a].reference) # None
            => g[a].operands = Added(<<>>, Lookup(t, e[a].reference))
      BY <1>5, <2>1, <2>3
    <3>2. ~(a \in Applied(e, t) /\ Lookup(t, e[a].reference) # None) => g[a] = e[a]
      BY <1>5
    <3> QED
      BY <1>6, <2>1, <2>2, <2>3, <3>1, <3>2, AddedFirst
  <2>4. CASE ~IsReference(e, a)
    <3>1. g[a] = e[a]
      BY <1>5, <2>4
    <3> QED
      BY <2>1, <2>2, <2>4, <3>1
  <2> QED
    BY <2>3, <2>4
<1>8. IsTable(g, t)
  BY <1>4, <1>5 DEF IsTable
<1>9. IsRestored(g, h, t)
  BY <1>5, <1>7, <1>8 DEF IsRestored
<1>10. g = Restored(h, t)
  BY <1>1, <1>2 DEF Restored
<1> QED
  BY <1>9, <1>10

\* A restart puts all references in tune.
LEMMA RestoredInTune ==
  ASSUME NEW h, IsHeap(h), NEW t, IsTable(h, t), NEW g, g = Restored(h, t),
         NEW lo, InTune(h, t, lo)
  PROVE  InTune(g, t, {l \in lo : t[l] = None})
<1>1. IsRestored(g, h, t)
  BY RestoredIs
<1> SUFFICES ASSUME NEW a \in Applied(g, t), IsReference(g, a),
                    g[a].reference \in Label \ {l \in lo : t[l] = None}
             PROVE  g[a].operands = <<t[g[a].reference]>>
  BY DEF InTune
<1>2. a \in DOMAIN g
  BY <1>1, AppliedType DEF IsRestored
<1>3. CASE t[g[a].reference] # None
  <2>1. Lookup(t, g[a].reference) = t[g[a].reference]
    BY DEF Lookup
  <2> QED
    BY <1>1, <1>2, <1>3, <2>1 DEF IsRestored
<1>4. CASE t[g[a].reference] = None
  <2>1. /\ Source(a) \in Applied(h, t) /\ IsReference(h, Source(a))
        /\ h[Source(a)].reference = g[a].reference
    BY <1>1, <1>2 DEF IsRestored
  <2>2. h[Source(a)].operands = <<t[g[a].reference]>>
    BY <1>4, <2>1 DEF InTune
  <2> QED
    BY <1>4, <2>1, <2>2, AppliedType, NoneIsNoOperand
<1> QED
  BY <1>3, <1>4

\* A cycle after a restart is a cycle from name to name before it.
LEMMA RestoredAcyclic ==
  ASSUME NEW h, IsHeap(h), NEW t, IsTable(h, t), NEW g, g = Restored(h, t),
         Acyclic(h), InTune(h, t, {})
  PROVE  Acyclic(g)
<1>1. IsRestored(g, h, t)
  BY RestoredIs
<1> SUFFICES ASSUME NEW C \in SUBSET DOMAIN g, C # {},
                    \A a \in C : Led(g)[a] \cap C # {}
             PROVE  FALSE
  BY DEF Acyclic
<1> DEFINE D == {Source(a) : a \in C}
<1>2. D \in SUBSET DOMAIN h /\ D # {}
  BY <1>1, AppliedType DEF IsRestored
<1>3. ASSUME NEW a \in C PROVE Led(h)[Source(a)] \cap D # {}
  <2>1. /\ a \in DOMAIN g /\ Source(a) \in DOMAIN h
        /\ Source(a) \in Applied(h, t)
        /\ IsReference(g, a) <=> IsReference(h, Source(a))
        /\ g[a].reference = h[Source(a)].reference
    BY <1>1, AppliedType DEF IsRestored
  <2>2. PICK y \in C : y \in Led(g)[a]
    OBVIOUS
  <2>3. CASE IsReference(g, a)
    <3>0. PICK r : r = g[a].reference
      OBVIOUS
    <3>1. r \in Label
      BY <2>1, <2>2, <2>3, <3>0, LedIs
    <3>2. Lookup(t, r) = t[r]
      BY <3>1 DEF Lookup
    <3>3. /\ g[a].operands = <<t[r]>> /\ t[r] # None
          /\ y = t[r]
      <4>1. g[a].operands # <<>>
        BY <2>1, <2>2, <2>3, LedIs
      <4>2. g[a].operands = <<t[r]>> /\ t[r] # None
        BY <1>1, <2>1, <2>3, <3>0, <3>2, <4>1 DEF IsRestored
      <4> QED
        <5>1. Led(g)[a] = {t[r]}
          BY <2>1, <2>3, <3>0, <3>1, <4>2, LedIs
        <5> QED
          BY <2>2, <4>2, <5>1
    <3>4. Source(y) = y
      BY <3>1, <3>3, SavedType DEF Source
    <3>5. h[Source(a)].operands = <<y>>
      BY <2>1, <2>3, <3>0, <3>1, <3>3 DEF InTune
    <3>6. Led(h)[Source(a)] = {y}
      <4>1. h[Source(a)].reference \in Label /\ IsReference(h, Source(a))
        BY <2>1, <2>3, <3>0, <3>1
      <4> QED
        BY <2>1, <3>5, <4>1, LedIs
    <3> QED
      BY <3>4, <3>6
  <2>4. CASE ~IsReference(g, a)
    <3>1. /\ Led(g)[a] = Range(g[a].operands)
          /\ Led(h)[Source(a)] = Range(h[Source(a)].operands)
      BY <2>1, <2>4, LedIs
    <3>2. Source(y) \in Led(h)[Source(a)]
      BY <1>1, <2>1, <2>2, <2>4, <3>1 DEF IsRestored
    <3> QED
      BY <3>2
  <2> QED
    BY <2>3, <2>4
<1>4. \A i \in D : Led(h)[i] \cap D # {}
  BY <1>3
<1> HIDE DEF D
<1> QED
  BY <1>2, <1>4 DEF Acyclic

-----------------------------------------------------------------------------
(***************************************************************************)
(* The invariant. What clients are in the middle of still fits the state,  *)
(* and what is committed is a state again.                                 *)
(***************************************************************************)

\* What a client may be in the middle of when n commands have changed
\* something.
Busy(h, n) ==
  {Idle}
  \cup [pc : {"validated"}, label : Label, shape : Shape, since : 0..n]
  \cup [pc : {"loading"}, label : Playlists \ {Active},
        id : {a \in DOMAIN h : Len(a) = 1} \cup {None}]

\* TypeOK, written as it is used.
TypeIs ==
  /\ Sound /\ client \in [Client -> Busy(heap, ops)]
  /\ broken \in {"no", "runaway", "freed"} /\ ops \in 0..MaxOps
  /\ loose \subseteq Label /\ tangled \in BOOLEAN /\ strayed \in BOOLEAN

LEMMA TypeIsOK == TypeOK <=> TypeIs
BY BoundsAssumption DEF TypeOK, TypeIs, Sound, Busy

\* A save that was validated and not overtaken is still valid, and no
\* collection that was validated refers to the name it is saved under.
Settled ==
  \A c \in Client : client[c].pc = "validated" =>
    /\ client[c].label \notin Range(client[c].shape.targets)
    /\ client[c].since = ops
         => Validated(client[c].label, client[c].shape) = "yes"

\* The three things a client may be in the middle of.
LEMMA BusyCases ==
  ASSUME TypeIs, NEW c \in Client
  PROVE  \/ client[c] = Idle /\ client[c].pc = "idle"
         \/ /\ client[c] \in [pc : {"validated"}, label : Label, shape : Shape,
                              since : 0..ops]
            /\ client[c].pc = "validated" /\ client[c].label \in Label
            /\ client[c].shape \in Shape /\ client[c].since \in 0..ops
         \/ /\ client[c] \in [pc : {"loading"}, label : Playlists \ {Active},
                              id : {a \in DOMAIN heap : Len(a) = 1} \cup {None}]
            /\ client[c].pc = "loading" /\ client[c].label \in Playlists \ {Active}
            /\ client[c].id \in {a \in DOMAIN heap : Len(a) = 1} \cup {None}
<1>1. client[c] \in Busy(heap, ops)
  BY DEF TypeIs
<1>2. CASE client[c] = Idle
  BY <1>2 DEF Idle
<1>3. CASE client[c] \in [pc : {"validated"}, label : Label, shape : Shape,
                          since : 0..ops]
  BY <1>3
<1>4. CASE client[c] \in [pc : {"loading"}, label : Playlists \ {Active},
                          id : {a \in DOMAIN heap : Len(a) = 1} \cup {None}]
  BY <1>4
<1> QED
  BY <1>1, <1>2, <1>3, <1>4 DEF Busy

\* The client that a change leaves behind.
LEMMA OvertakenIs ==
  ASSUME TypeIs, NEW h, NEW used, used = DOMAIN h, NEW c \in Client,
         NEW x, x = Overtaken(c, used)
  PROVE  /\ x \in Busy(h, ops + 1)
         /\ x.pc = "validated" => x = client[c]
<1>1. CASE client[c].pc = "loading"
  <2>1. client[c] \in [pc : {"loading"}, label : Playlists \ {Active},
                       id : {a \in DOMAIN heap : Len(a) = 1} \cup {None}]
    BY <1>1, BusyCases
  <2>2. x = [client[c] EXCEPT !.id = IF client[c].id \in used THEN client[c].id
                                     ELSE None]
    BY <1>1 DEF Overtaken
  <2>3. (IF client[c].id \in used THEN client[c].id ELSE None)
          \in {a \in DOMAIN h : Len(a) = 1} \cup {None}
    BY <2>1
  <2>4. /\ x \in [pc : {"loading"}, label : Playlists \ {Active},
                  id : {a \in DOMAIN h : Len(a) = 1} \cup {None}]
        /\ x.pc = "loading"
    BY <2>1, <2>2, <2>3
  <2> QED
    BY <2>4 DEF Busy
<1>2. CASE client[c].pc # "loading"
  <2>1. x = client[c]
    BY <1>2 DEF Overtaken
  <2>2. ops \in Nat
    BY DEF TypeIs, Sound
  <2>3. 0..ops \subseteq 0..(ops + 1)
    BY <2>2
  <2>4. x \in {Idle} \cup [pc : {"validated"}, label : Label, shape : Shape,
                           since : 0..(ops + 1)]
    BY <1>2, <2>1, <2>3, BusyCases
  <2> QED
    BY <2>1, <2>4 DEF Busy
<1> QED
  BY <1>1, <1>2

\* What a change commits is a state again, in tune and without loops as far as
\* the heap it was handed is.
Committed(h, t) ==
  /\ Sound' /\ client' \in [Client -> Busy(heap', ops')]
  /\ broken' \in {"no", "runaway", "freed"} /\ ops' \in 0..MaxOps
  /\ table' = t
  /\ \A lo : InTune(h, t, lo) => InTune(heap', table', lo)
  /\ Acyclic(h) => Acyclic(heap') /\ broken' = broken
  /\ Settled'

LEMMA CommitIs ==
  ASSUME TypeIs, Settled, ops < MaxOps,
         NEW h, IsHeap(h), NEW t, IsTable(h, t), \A a \in DOMAIN h : Head(a) <= ops + 1,
         NEW done, Commit(h, t, done)
  PROVE  Committed(h, t)
<1> DEFINE used == InUse(h, t)
<1>1. /\ heap' = Kept(h, t) /\ table' = t /\ ops' = ops + 1
      /\ client' = [c \in Client |-> IF c \in done THEN Idle ELSE Overtaken(c, used)]
      /\ broken' = IF Circular(h, Applied(h, t)) THEN "runaway" ELSE broken
  BY DEF Commit, Kept
<1>2. /\ IsHeap(heap') /\ IsTable(heap', t)
      /\ DOMAIN heap' = used /\ used \subseteq DOMAIN h
  BY <1>1, KeptHeap
<1>3. ops' \in 0..MaxOps /\ ops \in Nat /\ ops' \in Nat
  BY <1>1, BoundsAssumption DEF TypeIs
<1>4. Sound'
  <2>1. \A a \in DOMAIN heap' : Head(a) <= ops'
    BY <1>1, <1>2
  <2> QED
    BY <1>1, <1>2, <1>3, <2>1 DEF Sound
<1> HIDE DEF used
<1>5. ASSUME NEW c \in Client
      PROVE  /\ client'[c] \in Busy(heap', ops')
             /\ client'[c].pc = "validated" => client'[c] = client[c]
  <2>1. CASE c \in done
    BY <1>1, <2>1 DEF Busy, Idle
  <2>2. CASE c \notin done
    <3>1. client'[c] = Overtaken(c, used)
      BY <1>1, <2>2
    <3>2. /\ client'[c] \in Busy(heap', ops + 1)
          /\ client'[c].pc = "validated" => client'[c] = client[c]
      BY <1>2, <3>1, OvertakenIs
    <3> QED
      BY <1>1, <3>2
  <2> QED
    BY <2>1, <2>2
<1>6. client' \in [Client -> Busy(heap', ops')]
  BY <1>1, <1>5
<1>7. Settled'
  <2> SUFFICES ASSUME NEW c \in Client, client'[c].pc = "validated"
               PROVE  /\ client'[c].label \notin Range(client'[c].shape.targets)
                      /\ client'[c].since # ops'
    BY DEF Settled
  <2>1. client'[c] = client[c]
    BY <1>5
  <2>2. client[c].since \in 0..ops
    BY <2>1, BusyCases
  <2> QED
    BY <1>1, <1>3, <2>1, <2>2 DEF Settled
<1>8. \A lo : InTune(h, t, lo) => InTune(heap', table', lo)
  BY <1>1, KeptInTune
<1>9. Acyclic(h) => Acyclic(heap') /\ broken' = broken
  BY <1>1, KeptAcyclic, NotCircular
<1>10. broken' \in {"no", "runaway", "freed"}
  BY <1>1 DEF TypeIs
<1> QED
  BY <1>1, <1>3, <1>4, <1>6, <1>7, <1>8, <1>9, <1>10 DEF Committed

-----------------------------------------------------------------------------
(***************************************************************************)
(* In tune and without loops, up to the exceptions; a name for the active  *)
(* playlist. Out of step (tangled, loose, strayed) a state keeps its type  *)
(* and what is said of the other names.                                    *)
(***************************************************************************)

\* As long as nothing that tangles has happened, every reference to a label is
\* in tune, and every search comes to an end that follows these.
Free == ~tangled => /\ Acyclic(heap) /\ InTune(heap, table, {})
                    /\ broken = "runaway" => StarLoop

\* The active playlist has a name, and there is an active playlist.
Named == ~strayed => \E l \in Playlists \ {Active} :
                       table[l] = table[Active] /\ table[l] # None

\* The inductive invariant.
IInv == TypeIs /\ InTune(heap, table, loose) /\ Free /\ Settled /\ Named

LEMMA Labels == /\ Playlists \subseteq Label /\ Active \in Playlists
                /\ First \in Playlists /\ Active # First
                /\ \A l \in Label : l \in Playlists <=> l[1] = "Playlists"
BY LabelAssumption DEF Playlists

LEMMA MoreInTune ==
  ASSUME NEW h, NEW t, NEW lo, NEW out, lo \subseteq out, InTune(h, t, lo)
  PROVE  InTune(h, t, out)
BY DEF InTune

\* What a committed change has to show.
LEMMA CommittedInv ==
  ASSUME TypeIs, Free, broken = "no", NEW h, NEW t, Committed(h, t),
         InTune(h, t, loose'), loose' \subseteq Label,
         tangled' \in BOOLEAN, strayed' \in BOOLEAN,
         ~tangled' => ~tangled /\ Acyclic(h) /\ InTune(h, t, {}),
         Named'
  PROVE  IInv'
<1>1. TypeIs'
  BY DEF TypeIs, Committed
<1>2. InTune(heap', table', loose')
  BY DEF Committed
<1>3. Free'
  BY DEF Free, Committed
<1>4. Settled'
  BY DEF Committed
<1> QED
  BY <1>1, <1>2, <1>3, <1>4 DEF IInv

LEMMA InitInv == Init => IInv
<1> SUFFICES ASSUME Init PROVE IInv
  OBVIOUS
<1> DEFINE a0 == <<0>>
<1>1. /\ DOMAIN heap = {a0}
      /\ heap[a0] = [type |-> "IDLIST", idlist |-> 0,
                     reference |-> Nowhere, operands |-> <<>>]
  BY DEF Init
<1>2. Len(a0) = 1 /\ Head(a0) = 0 /\ a0 \in Seq(Nat) /\ a0 # None
  <2>1. Len(a0) = 1 /\ Head(a0) = 0 /\ a0 \in Seq(Nat)
    OBVIOUS
  <2> QED
    BY <2>1 DEF None
<1> HIDE DEF a0
<1>3. \A i \in DOMAIN heap : ~IsReference(heap, i)
  BY <1>1 DEF IsReference
<1>4. IsHeap(heap)
  <2>1. IsFiniteSet(DOMAIN heap)
    BY <1>1, FS_Singleton
  <2>2. <<>> \in Seq(DOMAIN heap) /\ "IDLIST" \in Type
    BY DEF Type
  <2>3. heap[a0] \in [type : Type, idlist : Nat,
                      reference : Target \cup {Nowhere}, operands : Seq(DOMAIN heap)]
    BY <1>1, <2>2
  <2> QED
    BY <1>1, <1>2, <1>3, <2>1, <2>3 DEF IsHeap
<1>5. IsTable(heap, table)
  <2>1. table = [l \in Label |-> IF l \in {Active, First} THEN a0 ELSE None]
    BY DEF Init, a0
  <2> QED
    BY <1>1, <1>2, <2>1 DEF IsTable
<1>6. TypeIs
  <2>1. \A a \in DOMAIN heap : Head(a) <= ops
    BY <1>1, <1>2 DEF Init
  <2>2. ops = 0 /\ ops \in Nat /\ ops \in 0..MaxOps
    BY BoundsAssumption DEF Init
  <2>3. Sound
    BY <1>4, <1>5, <2>1, <2>2 DEF Sound
  <2>4. client \in [Client -> Busy(heap, ops)]
    BY DEF Init, Busy
  <2>5. /\ broken \in {"no", "runaway", "freed"} /\ loose \subseteq Label
        /\ tangled \in BOOLEAN /\ strayed \in BOOLEAN
    BY DEF Init
  <2> QED
    BY <2>2, <2>3, <2>4, <2>5 DEF TypeIs
<1>7. \A lo : InTune(heap, table, lo)
  BY <1>3, <1>4, <1>5, AppliedType DEF InTune
<1>8. Acyclic(heap)
  <2> SUFFICES ASSUME NEW C \in SUBSET DOMAIN heap, C # {},
                      \A i \in C : Led(heap)[i] \cap C # {}
               PROVE  FALSE
    BY DEF Acyclic
  <2>1. a0 \in C
    BY <1>1
  <2>2. Led(heap)[a0] = Range(<<>>)
    BY <1>1, <1>3, LedIs
  <2>3. Range(<<>>) = {}
    BY DEF Range
  <2> QED
    BY <2>1, <2>2, <2>3
<1>9. Settled
  BY DEF Settled, Init, Idle
<1>10. Named
  BY <1>2, Labels DEF Named, Init, a0
<1>11. Free
  BY <1>7, <1>8 DEF Free, Init
<1> QED
  BY <1>6, <1>7, <1>9, <1>10, <1>11 DEF IInv

\* Validation depends on the graph alone.
LEMMA ValidatedSame ==
  ASSUME UNCHANGED <<heap, table>>, NEW d, NEW l, NEW s,
         client'[d].label = l, client'[d].shape = s
  PROVE  Validated(client[d].label, client[d].shape)' = Validated(l, s)
BY DEF Validated, Search, Endless, Targets

LEMMA ValidateInv ==
  ASSUME IInv, NEW c \in Client, NEW l \in Label, NEW s \in Shape, Validate(c, l, s)
  PROVE  IInv'
<1>1. /\ TypeIs /\ Settled /\ Free /\ Named /\ InTune(heap, table, loose)
      /\ UNCHANGED <<heap, table, ops, loose, tangled, strayed>>
  BY DEF IInv, Validate
<1>2. CASE Validated(l, s) = "hangs"
  <2>1. broken' = "runaway" /\ UNCHANGED client
    BY <1>2 DEF Validate
  <2>2. ~tangled => StarLoop
    <3> SUFFICES ASSUME ~tangled PROVE StarLoop
      OBVIOUS
    <3>1. /\ \A t \in Range(s.targets) : Lookup(table, t) # None
          /\ Endless(s)
      BY <1>2 DEF Validated
    <3>2. IsHeap(heap) /\ IsTable(heap, table) /\ Acyclic(heap)
      BY <1>1 DEF TypeIs, Sound, Free
    <3>3. Targets(s) \subseteq DOMAIN heap
      BY <3>1, <3>2, SavedType, LookupIs DEF Targets
    <3> QED
      BY <3>1, <3>2, <3>3, EndlessByStar
  <2>3. TypeIs' /\ Free' /\ Named' /\ InTune(heap, table, loose)'
    <3>1. StarLoop' <=> StarLoop
      BY <1>1 DEF StarLoop
    <3> QED
      BY <1>1, <2>1, <2>2, <3>1 DEF TypeIs, Sound, Free, Named
  <2>4. Settled'
    <3> SUFFICES ASSUME NEW d \in Client, client[d].pc = "validated"
                 PROVE  (/\ client[d].label \notin Range(client[d].shape.targets)
                         /\ client[d].since = ops
                              => Validated(client[d].label, client[d].shape) = "yes")'
      BY <2>1 DEF Settled
    <3>1. Validated(client[d].label, client[d].shape)'
            = Validated(client[d].label, client[d].shape)
      BY <1>1, <2>1, ValidatedSame
    <3> QED
      BY <1>1, <2>1, <3>1 DEF Settled
  <2> QED
    BY <2>3, <2>4 DEF IInv
<1>3. CASE Validated(l, s) # "hangs"
  <2> DEFINE x == [pc |-> "validated", label |-> l, shape |-> s, since |-> ops]
  <2>1. /\ client' = [client EXCEPT ![c] = x] /\ UNCHANGED broken
        /\ Validated(l, s) # "no"
    BY <1>3 DEF Validate
  <2>2. ops \in Nat /\ client \in [Client -> Busy(heap, ops)]
    BY <1>1 DEF TypeIs, Sound
  <2>3. x \in Busy(heap, ops)
    BY <2>2 DEF Busy
  <2>4. Validated(l, s) = "yes" /\ l \notin Range(s.targets)
    BY <1>3, <2>1 DEF Validated
  <2>5. \A d \in Client : client'[d] = IF d = c THEN x ELSE client[d]
    BY <2>1, <2>2
  <2>6. client' \in [Client -> Busy(heap, ops)]
    BY <2>1, <2>2, <2>3
  <2>7. TypeIs' /\ Free' /\ Named' /\ InTune(heap, table, loose)'
    <3> HIDE DEF x
    <3> QED
      BY <1>1, <2>1, <2>6 DEF TypeIs, Sound, Free, Named, StarLoop
  <2>8. Settled'
    <3> SUFFICES ASSUME NEW d \in Client, client'[d].pc = "validated"
                 PROVE  (/\ client[d].label \notin Range(client[d].shape.targets)
                         /\ client[d].since = ops
                              => Validated(client[d].label, client[d].shape) = "yes")'
      BY DEF Settled
    <3>1. CASE d = c
      <4>1. client'[d] = x /\ x.label = l /\ x.shape = s
        BY <2>5, <3>1
      <4> HIDE DEF x
      <4>2. Validated(client[d].label, client[d].shape)' = Validated(l, s)
        BY <1>1, <4>1, ValidatedSame
      <4> QED
        BY <2>4, <4>1, <4>2
    <3>2. CASE d # c
      <4>1. client'[d] = client[d]
        BY <2>5, <3>2
      <4>2. Validated(client[d].label, client[d].shape)'
              = Validated(client[d].label, client[d].shape)
        BY <1>1, <4>1, ValidatedSame
      <4> QED
        BY <1>1, <4>1, <4>2 DEF Settled
    <3> QED
      BY <3>1, <3>2
  <2> QED
    BY <2>7, <2>8 DEF IInv
<1> QED
  BY <1>2, <1>3

-----------------------------------------------------------------------------
(***************************************************************************)
(* The steps.                                                              *)
(***************************************************************************)

LEMMA SaveInv ==
  ASSUME IInv, broken = "no", NEW c \in Client, Save(c)
  PROVE  IInv'
<1>1. /\ TypeIs /\ Settled /\ Free /\ Named /\ InTune(heap, table, loose) /\ Sound
      /\ ops < MaxOps /\ client[c].pc = "validated"
  BY DEF IInv, Save, TypeIs
<1>2. PICK l \in Label, s \in Shape : l = client[c].label /\ s = client[c].shape
  BY <1>1, BusyCases
<1>3. PICK h, t : h = SaveHeap(l, s) /\ t = SaveTable(l)
  OBVIOUS
<1>4. /\ Commit(h, t, {c})
      /\ loose' = loose \cup (SaveNames(l) \ {l})
                   \cup {m \in Range(s.targets) \cap Label : table[m] = None}
      /\ tangled' = (tangled \/ client[c].since # ops \/ SaveNames(l) # {l})
      /\ strayed' = (strayed \/ (l = Active /\ table[l] = None))
  BY <1>2, <1>3 DEF Save, SaveHeap, SaveTable, SaveTurned, SaveNames
<1>5. PICK id, B : id = <<ops + 1>> /\ B = Built(s, id)
  OBVIOUS
<1>6. IsSaved(h, l, s, id, B)
  BY <1>1, <1>3, <1>5, SaveHeapIs
<1>7. IsHeap(h) /\ \A a \in DOMAIN h : Head(a) <= ops + 1
  BY <1>6 DEF IsSaved
<1>8. /\ IsTable(h, t) /\ t[l] = id /\ id # None
      /\ \A m \in Label : m \notin SaveNames(l) => t[m] = table[m]
  BY <1>1, <1>3, <1>5, SaveTableIs DEF None
<1>9. Committed(h, t)
  BY <1>1, <1>4, <1>7, <1>8, CommitIs
<1>10. l \notin Range(s.targets)
  BY <1>1, <1>2 DEF Settled
<1>11. InTune(h, t, loose')
  BY <1>1, <1>3, <1>4, <1>10, SaveInTune
<1>12. loose' \subseteq Label /\ tangled' \in BOOLEAN /\ strayed' \in BOOLEAN
  <2>2. SaveNames(l) \subseteq Label
    BY DEF SaveNames, Aliases
  <2> QED
    BY <1>1, <1>4, <2>2 DEF TypeIs
<1>13. ASSUME ~tangled'
       PROVE  ~tangled /\ Acyclic(h) /\ InTune(h, t, {})
  <2>1. ~tangled /\ client[c].since = ops /\ SaveNames(l) = {l}
    BY <1>4, <1>13
  <2>2. Validated(l, s) = "yes" /\ Acyclic(heap) /\ InTune(heap, table, {})
    BY <1>1, <1>2, <2>1 DEF Settled, Free
  <2>3. Acyclic(h)
    BY <1>1, <1>3, <2>2, SaveAcyclic
  <2>4. {m \in Range(s.targets) \cap Label : table[m] = None} = {}
    BY <2>2 DEF Validated, Lookup
  <2>5. {} = {} \cup (SaveNames(l) \ {l})
                \cup {m \in Range(s.targets) \cap Label : table[m] = None}
    BY <2>1, <2>4
  <2>6. InTune(h, t, {})
    BY <1>1, <1>3, <1>10, <2>2, <2>5, SaveInTune
  <2> QED
    BY <2>1, <2>3, <2>6
<1>14. Named'
  <2> SUFFICES ASSUME ~strayed'
               PROVE  \E p \in Playlists \ {Active} : t[p] = t[Active] /\ t[p] # None
    BY <1>9 DEF Named, Committed
  <2>1. PICK p \in Playlists \ {Active} : table[p] = table[Active] /\ table[p] # None
    BY <1>1, <1>4 DEF Named
  <2>2. p \in Label /\ Active \in Label /\ p[1] = Active[1]
    BY Labels
  <2>3. CASE table[l] = None
    <3>1. p \notin SaveNames(l) /\ Active \notin SaveNames(l)
      BY <2>1, <2>3 DEF SaveNames
    <3> QED
      BY <1>8, <2>1, <2>2, <3>1
  <2>4. CASE table[l] # None
    <3>1. p \in SaveNames(l) <=> Active \in SaveNames(l)
      BY <2>1, <2>2, <2>4 DEF SaveNames, Aliases
    <3>2. \A m \in SaveNames(l) : t[m] = id
      <4>1. SaveNames(l) \subseteq Label
        BY DEF SaveNames, Aliases
      <4> QED
        BY <1>3, <1>5, <4>1 DEF SaveTable
    <3> QED
      BY <1>8, <2>1, <2>2, <3>1, <3>2
  <2> QED
    BY <2>3, <2>4
<1> QED
  BY <1>1, <1>9, <1>11, <1>12, <1>13, <1>14, CommittedInv

LEMMA RemoveInv ==
  ASSUME IInv, broken = "no", NEW l \in Label, RemoveCollection(l)
  PROVE  IInv'
<1>1. /\ TypeIs /\ Settled /\ Free /\ Named /\ InTune(heap, table, loose) /\ Sound
      /\ ops < MaxOps /\ table[l] # None /\ table[l] # table[Active]
  BY DEF IInv, RemoveCollection, TypeIs
<1>2. PICK h, t : h = RemoveHeap(l) /\ t = RemoveTable(l)
  OBVIOUS
<1>3. PICK out : out = loose \cup (Aliases(table, l) \ {l}) \cup Held(l)
                         \cup (IF Held(l) = {} THEN {} ELSE {l})
  OBVIOUS
<1>4. /\ Commit(h, t, {}) /\ loose' = out
      /\ tangled' = (tangled \/ Aliases(table, l) # {l} \/ Held(l) # {})
      /\ strayed' = strayed
  BY <1>2, <1>3 DEF RemoveCollection, RemoveHeap, RemoveTable
<1>5. IsStripped(h, heap, Applied(heap, table), l, table[l]) /\ IsTable(h, t)
  BY <1>1, <1>2, RemoveTableIs
<1>6. IsHeap(h) /\ \A a \in DOMAIN h : Head(a) <= ops + 1
  <2>1. IsHeap(h) /\ DOMAIN h = DOMAIN heap
    BY <1>5 DEF IsStripped
  <2>2. \A a \in DOMAIN h : Head(a) <= ops /\ Head(a) \in Nat /\ ops \in Nat
    BY <1>1, <2>1, HeadType DEF Sound
  <2> QED
    BY <2>1, <2>2
<1>7. Committed(h, t)
  BY <1>1, <1>4, <1>5, <1>6, CommitIs
<1>8. InTune(h, t, loose')
  BY <1>1, <1>2, <1>3, <1>4, RemoveInTune
<1>9. loose' \subseteq Label /\ tangled' \in BOOLEAN /\ strayed' \in BOOLEAN
  BY <1>1, <1>3, <1>4 DEF TypeIs, Aliases, Held
<1>10. ASSUME ~tangled'
       PROVE  ~tangled /\ Acyclic(h) /\ InTune(h, t, {})
  <2>1. ~tangled /\ Aliases(table, l) = {l} /\ Held(l) = {}
    BY <1>4, <1>10
  <2>2. Acyclic(heap) /\ InTune(heap, table, {})
    BY <1>1, <2>1 DEF Free
  <2>3. Acyclic(h)
    BY <1>1, <1>2, <2>1, <2>2, RemoveAcyclic
  <2>4. {} = {} \cup (Aliases(table, l) \ {l}) \cup Held(l)
                \cup (IF Held(l) = {} THEN {} ELSE {l})
    BY <2>1
  <2>5. InTune(h, t, {})
    BY <1>1, <1>2, <2>2, <2>4, RemoveInTune
  <2> QED
    BY <2>1, <2>3, <2>5
<1>11. Named'
  <2> SUFFICES ASSUME ~strayed'
               PROVE  \E p \in Playlists \ {Active} : t[p] = t[Active] /\ t[p] # None
    BY <1>7 DEF Named, Committed
  <2>1. PICK p \in Playlists \ {Active} : table[p] = table[Active] /\ table[p] # None
    BY <1>1, <1>4 DEF Named
  <2>2. p \in Label /\ Active \in Label
    BY Labels
  <2>3. p \notin Aliases(table, l) /\ Active \notin Aliases(table, l)
    BY <1>1, <2>1 DEF Aliases
  <2> QED
    BY <1>2, <2>1, <2>2, <2>3 DEF RemoveTable
<1> QED
  BY <1>1, <1>7, <1>8, <1>9, <1>10, <1>11, CommittedInv

LEMMA RenameInv ==
  ASSUME IInv, broken = "no", NEW from \in Label, NEW to \in Label, RenameCollection(from, to)
  PROVE  IInv'
<1>1. /\ TypeIs /\ Settled /\ Free /\ Named /\ InTune(heap, table, loose) /\ Sound
      /\ ops < MaxOps /\ from[1] = to[1] /\ table[from] # None /\ table[to] = None
  BY DEF IInv, RenameCollection, TypeIs
<1>2. PICK h, t : h = RenameHeap(from, to) /\ t = RenameTable(from, to)
  OBVIOUS
<1>3. /\ Commit(h, t, {})
      /\ loose' = IF from \in loose THEN loose \cup {to} ELSE loose
      /\ tangled' = tangled /\ strayed' = (strayed \/ from = Active)
  BY <1>2 DEF RenameCollection, RenameHeap, RenameTable
<1>4. /\ IsRenamed(h, from, to) /\ IsTable(h, t) /\ Led(h) = Led(heap)
      /\ t[to] = table[from] /\ \A m \in Label \ {from, to} : t[m] = table[m]
  BY <1>1, <1>2, RenameIs
<1>5. /\ IsHeap(h) /\ DOMAIN h = DOMAIN heap
      /\ \A a \in DOMAIN h : Head(a) <= ops + 1
  <2>1. IsHeap(h) /\ DOMAIN h = DOMAIN heap
    BY <1>4 DEF IsRenamed
  <2>2. \A a \in DOMAIN h : Head(a) <= ops /\ Head(a) \in Nat /\ ops \in Nat
    BY <1>1, <2>1, HeadType DEF Sound
  <2> QED
    BY <2>1, <2>2
<1>6. Committed(h, t)
  BY <1>1, <1>3, <1>4, <1>5, CommitIs
<1>7. InTune(h, t, loose')
  BY <1>1, <1>2, <1>3, RenameInTune
<1>8. loose' \subseteq Label /\ tangled' \in BOOLEAN /\ strayed' \in BOOLEAN
  BY <1>1, <1>3 DEF TypeIs
<1>9. ASSUME ~tangled'
      PROVE  ~tangled /\ Acyclic(h) /\ InTune(h, t, {})
  <2>1. ~tangled /\ Acyclic(heap) /\ InTune(heap, table, {})
    BY <1>1, <1>3, <1>9 DEF Free
  <2>2. Acyclic(h)
    BY <1>4, <1>5, <2>1, SameLedAcyclic
  <2>3. InTune(h, t, IF from \in {} THEN {} \cup {to} ELSE {})
    BY <1>1, <1>2, <2>1, RenameInTune
  <2> QED
    BY <2>1, <2>2, <2>3
<1>10. Named'
  <2> SUFFICES ASSUME ~strayed'
               PROVE  \E p \in Playlists \ {Active} : t[p] = t[Active] /\ t[p] # None
    BY <1>6 DEF Named, Committed
  <2>1. PICK p \in Playlists \ {Active} : table[p] = table[Active] /\ table[p] # None
    BY <1>1, <1>3 DEF Named
  <2>2. p \in Label /\ Active \in Label /\ p # to /\ Active # to /\ Active # from
    BY <1>1, <1>3, <2>1, Labels
  <2>3. CASE p = from
    <3>1. to \in Playlists \ {Active}
      BY <1>1, <2>2, <2>3, Labels
    <3> QED
      BY <1>4, <2>1, <2>2, <2>3, <3>1
  <2>4. CASE p # from
    BY <1>4, <2>1, <2>2, <2>4
  <2> QED
    BY <2>3, <2>4
<1> QED
  BY <1>1, <1>6, <1>7, <1>8, <1>9, <1>10, CommittedInv

LEMMA LookUpInv ==
  ASSUME IInv, NEW c \in Client, NEW l \in Label, LookUp(c, l)
  PROVE  IInv'
<1>1. /\ TypeIs /\ Settled /\ Free /\ Named /\ InTune(heap, table, loose)
      /\ UNCHANGED <<heap, table, broken, ops, loose, tangled, strayed>>
      /\ l \in Playlists \ {Active} /\ table[l] # None
  BY DEF IInv, LookUp
<1> DEFINE x == [pc |-> "loading", label |-> l, id |-> table[l]]
<1>2. client' = [client EXCEPT ![c] = x]
  BY DEF LookUp
<1>3. x \in Busy(heap, ops) /\ x.pc = "loading"
  <2>1. table[l] \in {a \in DOMAIN heap : Len(a) = 1} \cup {None}
    BY <1>1 DEF TypeIs, Sound, IsTable
  <2> QED
    BY <1>1, <2>1 DEF Busy
<1> HIDE DEF x
<1>4. client \in [Client -> Busy(heap, ops)]
  BY <1>1 DEF TypeIs
<1>5. client' \in [Client -> Busy(heap, ops)]
  BY <1>2, <1>3, <1>4
<1>6. TypeIs' /\ Free' /\ Named' /\ InTune(heap, table, loose)'
  BY <1>1, <1>5 DEF TypeIs, Sound, Free, Named, StarLoop
<1>7. Settled'
  <2> SUFFICES ASSUME NEW d \in Client, client'[d].pc = "validated"
               PROVE  (/\ client[d].label \notin Range(client[d].shape.targets)
                       /\ client[d].since = ops
                            => Validated(client[d].label, client[d].shape) = "yes")'
    BY DEF Settled
  <2>1. client'[d] = client[d]
    BY <1>2, <1>3, <1>4
  <2>2. Validated(client[d].label, client[d].shape)'
          = Validated(client[d].label, client[d].shape)
    BY <1>1, <2>1, ValidatedSame
  <2> QED
    BY <1>1, <2>1, <2>2 DEF Settled
<1> QED
  BY <1>6, <1>7 DEF IInv

LEMMA LoadInv ==
  ASSUME IInv, broken = "no", NEW c \in Client, Load(c)
  PROVE  IInv'
<1>1. /\ TypeIs /\ Settled /\ Free /\ Named /\ InTune(heap, table, loose) /\ Sound
      /\ ops < MaxOps /\ client[c].pc = "loading"
  BY DEF IInv, Load, TypeIs
<1>2. PICK id : id = client[c].id
  OBVIOUS
<1>3. /\ client[c].label \in Playlists \ {Active}
      /\ id \in {a \in DOMAIN heap : Len(a) = 1} \cup {None}
  BY <1>1, <1>2, BusyCases
<1>4. CASE id = None
  <2>1. broken' = "freed"
        /\ UNCHANGED <<heap, table, client, ops, loose, tangled, strayed>>
    BY <1>2, <1>4 DEF Load
  <2>2. TypeIs' /\ Free' /\ Named' /\ InTune(heap, table, loose)'
    BY <1>1, <2>1 DEF TypeIs, Sound, Free, Named, StarLoop
  <2>3. Settled'
    <3> SUFFICES ASSUME NEW d \in Client, client[d].pc = "validated"
                 PROVE  (/\ client[d].label \notin Range(client[d].shape.targets)
                         /\ client[d].since = ops
                              => Validated(client[d].label, client[d].shape) = "yes")'
      BY <2>1 DEF Settled
    <3>1. Validated(client[d].label, client[d].shape)'
            = Validated(client[d].label, client[d].shape)
      BY <2>1, ValidatedSame
    <3> QED
      BY <1>1, <2>1, <3>1 DEF Settled
  <2> QED
    BY <2>2, <2>3 DEF IInv
<1>5. CASE id # None
  <2>1. PICK t : t = LoadTable(id)
    OBVIOUS
  <2>2. /\ Commit(heap, t, {c})
        /\ loose' = loose \cup {Active}
                   \cup ({heap[i].reference : i \in Fresh(id)} \cap Label)
        /\ tangled' = (tangled \/ Fresh(id) # {}
                         \/ \E i \in Applied(heap, table) : Names(heap, i, Active))
        /\ strayed' = (strayed \/ table[client[c].label] # id \/ table[Active] = None)
    BY <1>2, <1>5, <2>1 DEF Load, LoadTable, Fresh
  <2>3. id \in DOMAIN heap /\ Len(id) = 1
    BY <1>3, <1>5
  <2>4. /\ IsTable(heap, t) /\ t[Active] = id
        /\ \A m \in Label \ {Active} : t[m] = table[m]
    BY <1>1, <2>1, <2>3, LoadIs
  <2>5. IsHeap(heap) /\ \A a \in DOMAIN heap : Head(a) <= ops + 1
    <3>1. IsHeap(heap)
      BY <1>1 DEF Sound
    <3>2. \A a \in DOMAIN heap : Head(a) <= ops /\ Head(a) \in Nat /\ ops \in Nat
      BY <1>1, <3>1, HeadType DEF Sound
    <3> QED
      BY <3>1, <3>2
  <2>6. Committed(heap, t)
    BY <1>1, <2>2, <2>4, <2>5, CommitIs
  <2>7. InTune(heap, t, loose')
    <3>1. /\ loose \subseteq loose' /\ Active \in loose'
          /\ \A i \in Fresh(id) :
               heap[i].reference \in Label => heap[i].reference \in loose'
      BY <2>2
    <3> QED
      BY <1>1, <2>1, <2>3, <3>1, LoadInTune
  <2>8. loose' \subseteq Label /\ tangled' \in BOOLEAN /\ strayed' \in BOOLEAN
    <3>2. Active \in Label
      BY Labels
    <3> QED
      BY <1>1, <2>2, <3>2 DEF TypeIs
  <2>9. ASSUME ~tangled'
        PROVE  ~tangled /\ Acyclic(heap) /\ InTune(heap, t, {})
    <3>1. /\ ~tangled /\ Fresh(id) = {}
          /\ \A i \in Applied(heap, table) : ~Names(heap, i, Active)
      BY <2>2, <2>9
    <3>2. Acyclic(heap) /\ InTune(heap, table, {})
      BY <1>1, <3>1 DEF Free
    <3>3. InTune(heap, t, {})
      BY <1>1, <2>1, <2>3, <3>1, <3>2, LoadInTune
    <3> QED
      BY <3>1, <3>2, <3>3
  <2>10. Named'
    <3> SUFFICES ASSUME ~strayed'
                 PROVE  \E p \in Playlists \ {Active} : t[p] = t[Active] /\ t[p] # None
      BY <2>6 DEF Named, Committed
    <3>1. table[client[c].label] = id /\ client[c].label \in Label \ {Active}
      BY <1>3, <2>2, Labels
    <3> QED
      BY <1>3, <1>5, <2>4, <3>1
  <2> QED
    BY <1>1, <2>6, <2>7, <2>8, <2>9, <2>10, CommittedInv
<1> QED
  BY <1>4, <1>5

LEMMA RestartInv ==
  ASSUME IInv, broken = "no", Restart
  PROVE  IInv'
<1>1. /\ TypeIs /\ Settled /\ Free /\ Named /\ InTune(heap, table, loose) /\ Sound
      /\ ops < MaxOps /\ tangled' = tangled /\ strayed' = strayed
      /\ loose' = {l \in loose : table[l] = None}
  BY DEF IInv, Restart, TypeIs
<1>2. PICK h : h = Restored(heap, table)
  OBVIOUS
<1>3. Commit(h, table, {})
  BY <1>2 DEF Restart
<1>4. IsHeap(heap) /\ IsTable(heap, table) /\ ops \in Nat
  BY <1>1 DEF Sound
<1>5. IsRestored(h, heap, table)
  BY <1>2, <1>4, RestoredIs
<1>6. /\ IsHeap(h) /\ IsTable(h, table)
      /\ \A a \in DOMAIN h : Head(a) <= ops + 1
  <2>1. \A r \in DOMAIN heap : Head(r) <= ops /\ Head(r) \in Nat
    BY <1>1, <1>4, HeadType DEF Sound
  <2>2. \A a \in DOMAIN h : \E r \in DOMAIN heap : Head(a) = Head(r)
    BY <1>5 DEF IsRestored
  <2>3. \A a \in DOMAIN h : Head(a) <= ops + 1
    BY <1>4, <2>1, <2>2
  <2> QED
    BY <1>5, <2>3 DEF IsRestored
<1>7. Committed(h, table)
  BY <1>1, <1>3, <1>6, CommitIs
<1>8. InTune(h, table, loose')
  BY <1>1, <1>2, <1>4, RestoredInTune
<1>9. loose' \subseteq Label /\ tangled' \in BOOLEAN /\ strayed' \in BOOLEAN
  BY <1>1 DEF TypeIs
<1>10. ASSUME ~tangled'
       PROVE  ~tangled /\ Acyclic(h) /\ InTune(h, table, {})
  <2>1. ~tangled /\ Acyclic(heap) /\ InTune(heap, table, {})
    BY <1>1, <1>10 DEF Free
  <2>2. Acyclic(h)
    BY <1>2, <1>4, <2>1, RestoredAcyclic
  <2>3. InTune(h, table, {l \in {} : table[l] = None})
    BY <1>2, <1>4, <2>1, RestoredInTune
  <2> QED
    BY <2>1, <2>2, <2>3, MoreInTune
<1>11. Named'
  BY <1>1, <1>7 DEF Named, Committed
<1> QED
  BY <1>1, <1>7, <1>8, <1>9, <1>10, <1>11, CommittedInv

-----------------------------------------------------------------------------
(***************************************************************************)
(* The theorems.                                                           *)
(***************************************************************************)

LEMMA NextInv == IInv /\ [Next]_vars => IInv'
<1> SUFFICES ASSUME IInv, [Next]_vars PROVE IInv'
  OBVIOUS
<1>1. ASSUME NEW c \in Client, NEW l \in Label, NEW s \in Shape, Validate(c, l, s)
      PROVE  IInv'
  BY <1>1, ValidateInv
<1>2. ASSUME NEW c \in Client, broken = "no", Save(c) PROVE IInv'
  BY <1>2, SaveInv
<1>3. ASSUME NEW c \in Client, NEW l \in Label, LookUp(c, l) PROVE IInv'
  BY <1>3, LookUpInv
<1>4. ASSUME NEW c \in Client, broken = "no", Load(c) PROVE IInv'
  BY <1>4, LoadInv
<1>5. ASSUME NEW l \in Label, broken = "no", RemoveCollection(l) PROVE IInv'
  BY <1>5, RemoveInv
<1>6. ASSUME NEW from \in Label, NEW to \in Label, broken = "no",
             RenameCollection(from, to)
      PROVE  IInv'
  BY <1>6, RenameInv
<1>7. CASE broken = "no" /\ Restart
  BY <1>7, RestartInv
<1>8. CASE UNCHANGED vars
  <2>1. UNCHANGED <<heap, table, client, broken, ops, loose, tangled, strayed>>
    BY <1>8 DEF vars
  <2>2. TypeIs' /\ Free' /\ Named' /\ InTune(heap, table, loose)'
    BY <2>1 DEF IInv, TypeIs, Sound, Free, Named, StarLoop
  <2>3. Settled'
    BY <2>1, ValidatedSame DEF IInv, Settled
  <2> QED
    BY <2>2, <2>3 DEF IInv
<1> QED
  BY <1>1, <1>2, <1>3, <1>4, <1>5, <1>6, <1>7, <1>8 DEF Next, Edit

LEMMA SpecInv == Spec => []IInv
BY InitInv, NextInv, PTL DEF Spec

\* What the invariant says of the properties.
LEMMA InvBound == IInv => ReferencesBound
BY TypeIsOK DEF IInv, ReferencesBound, InTune

LEMMA InvLoops == IInv => LoopsKeptOut
<1> SUFFICES ASSUME IInv, ~tangled PROVE NoLoop /\ (broken = "runaway" => StarLoop)
  BY DEF LoopsKeptOut
<1>1. /\ IsHeap(heap) /\ IsTable(heap, table)
      /\ Acyclic(heap) /\ InTune(heap, table, {})
      /\ broken = "runaway" => StarLoop
  BY DEF IInv, TypeIs, Sound, Free
<1> QED
  BY <1>1, NoLoopWhenInTune

LEMMA InvNamed == IInv => ActiveHasName
BY DEF IInv, Named, ActiveHasName

\* No command of a client leaves the table, the graph or a client in a state
\* that the functions of collection.c do not expect.
THEOREM TypesOK == Spec => []TypeOK
<1>1. IInv => TypeOK
  BY TypeIsOK DEF IInv
<1> QED
  BY <1>1, SpecInv, PTL

\* After any sequence of saves, removals, renames, loads and restarts, with
\* any clients between their two halves, a reference to a label leads where its
\* name leads, so that has_reference_to, which follows operands, and a query,
\* which follows names, agree; but for the names under which the graph was
\* changed another way, and for references in the namespace "*".
THEOREM ReferencesStayBound == Spec => []ReferencesBound
BY SpecInv, InvBound, PTL

\* The validation of xmms_collection_client_save keeps loops of labels out,
\* whatever is done to the graph after it, unless it was overtaken or the graph
\* was changed under names it does not look at; and unless a reference in the
\* namespace "*" leads back to itself, it comes to an end.
THEOREM LoopsAreKeptOut == Spec => []LoopsKeptOut
BY SpecInv, InvLoops, PTL

\* current_active finds the name of the active playlist, whoever loads,
\* saves, renames or removes playlists, unless a load was overtaken or
\* _active was renamed.
THEOREM ActivePlaylistHasName == Spec => []ActiveHasName
BY SpecInv, InvNamed, PTL
=============================================================================
