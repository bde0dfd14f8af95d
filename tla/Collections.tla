---------------------------- MODULE Collections ----------------------------
(***************************************************************************)
(* The saved collections of src/xmms/collection.c: a table from labels, a  *)
(* namespace and a name, to operators, and the operators, which form a     *)
(* graph.  A reference is an operator that names a label; the operator the *)
(* label had when the reference was bound is its operand.  It may also     *)
(* name the namespace "*", for the label with its name in any of them; it  *)
(* is looked up by that, but where namespaces are compared it is no        *)
(* label's reference.                                                      *)
(*                                                                         *)
(* What a function does under dag->mutex is one action.  A save validates  *)
(* each reference under the mutex by itself and takes it again to save; a  *)
(* load (of a playlist, src/xmms/playlist.c) takes it not at all.          *)
(*                                                                         *)
(* Operators lie in heap; an operator's place in it is its address, a      *)
(* sequence of numbers.  What a save brings begins with the number of the  *)
(* save, so that no address is used again.                                 *)
(***************************************************************************)
EXTENDS Integers, FiniteSets, SequencesExt

CONSTANTS
  Client,
  Label,       \* pairs of a namespace and a name
  Active,      \* the label <<"Playlists", "_active">>
  First,       \* the playlist that is active in the beginning
  Shape,       \* the collections that clients save
  MaxOps,      \* bound: commands that change something
  MaxDepth     \* bound: how deep a query is followed

Namespace == {"Collections", "Playlists"}

Playlists == {l \in Label : l[1] = "Playlists"}

\* What a reference may name: a label, or a label's name in the namespace "*".
Anywhere == {<<"*", l[2]>> : l \in Label}
Target == Label \cup Anywhere

\* COMPLEMENT stands for every operator that works on other operators.
Type == {"REFERENCE", "COMPLEMENT", "IDLIST", "PARTYSHUFFLE"}

ASSUME LabelAssumption ==
  /\ Label \subseteq Namespace \X STRING /\ IsFiniteSet(Label)
  /\ {Active, First} \subseteq Playlists /\ Active # First
ASSUME ShapeAssumption ==
  /\ Shape \subseteq [type : Type, idlist : Nat, targets : Seq(Target)]
  /\ \A s \in Shape : Len(s.targets) = IF s.type = "IDLIST" THEN 0 ELSE 1
ASSUME BoundsAssumption == MaxOps \in Nat /\ MaxDepth \in Nat

None == <<>>
Nowhere == <<"", "">>

VARIABLES
  heap,      \* the operators
  table,     \* dag->collrefs: the operator of each label, or None
  client,    \* what each client's thread is in the middle of
  broken,    \* "no", or what has brought the server down
  ops,       \* how many commands have changed something
  loose,     \* history: labels that references may be out of step with
  tangled,   \* history: a check against loops was passed by
  strayed    \* history: _active was set to, or is, what has no other name

vars == <<heap, table, client, broken, ops, loose, tangled, strayed>>

Idle == [pc |-> "idle"]

Init ==
  /\ heap = [a \in {<<0>>} |-> [type |-> "IDLIST", idlist |-> 0,
                                reference |-> Nowhere, operands |-> <<>>]]
  /\ table = [l \in Label |-> IF l \in {Active, First} THEN <<0>> ELSE None]
  /\ client = [c \in Client |-> Idle]
  /\ broken = "no"
  /\ ops = 0
  /\ loose = {} /\ tangled = FALSE /\ strayed = FALSE

-----------------------------------------------------------------------------
(***************************************************************************)
(* The graph.                                                              *)
(***************************************************************************)

IsReference(h, i) == h[i].type = "REFERENCE"

Names(h, i, l) == IsReference(h, i) /\ h[i].reference = l

\* xmms_collection_get_pointer.  Of all namespaces Collections is looked in first.
Lookup(t, r) ==
  LET found == {l \in Label : l[2] = r[2] /\ t[l] # None}
  IN  IF r \in Label THEN t[r]
      ELSE IF found = {} THEN None
      ELSE t[CHOOSE l \in found :
               l[1] = "Collections" \/ <<"Collections", r[2]>> \notin found]

Saved(t) == {t[l] : l \in Label} \ {None}

\* S and what is reached from it, if E[i] is what follows i.
Closure(E, S) ==
  LET n == Cardinality(DOMAIN E)
      within[k \in 0..n] ==
        IF k = 0 THEN S
        ELSE LET T == within[k - 1] IN T \cup UNION {E[i] : i \in T}
  IN  within[n]

FirstOf(s) == IF s = <<>> THEN {} ELSE {Head(s)}

\* What an operator is made of, what xmms_collection_apply_to_collection goes
\* on to from it, and the search for a reference, which follows references.
Operands(h) == [i \in DOMAIN h |-> Range(h[i].operands)]
Below(h) == [i \in DOMAIN h |-> IF IsReference(h, i) THEN {}
                                ELSE Range(h[i].operands)]
Ahead(h) == [i \in DOMAIN h |-> IF IsReference(h, i) THEN FirstOf(h[i].operands)
                                ELSE Range(h[i].operands)]

Visited(h, S) == Closure(Below(h), S)
Walked(h, S) == Closure(Ahead(h), S)

Applied(h, t) == Visited(h, Saved(t))

\* The operators something refers to.
InUse(h, t) == Closure(Operands(h), Saved(t))

\* xmmsv_coll_add_operand and xmmsv_coll_remove_operand
Added(s, i) == IF Contains(s, i) THEN s ELSE Append(s, i)
Removed(s, i) == RemoveFirst(s, i)

Operator(type, idlist, reference, operands) ==
  [type |-> type, idlist |-> idlist, reference |-> reference,
   operands |-> operands]

\* The operators of a collection that arrives from a client, references not
\* bound, with its own operator at id.
Built(s, id) ==
  [a \in {id} \cup {Append(id, j) : j \in IF s.type = "REFERENCE" THEN {}
                                          ELSE DOMAIN s.targets} |->
     IF s.type = "REFERENCE" THEN Operator(s.type, 0, s.targets[1], <<>>)
     ELSE IF a = id THEN Operator(s.type, s.idlist, Nowhere,
                                  [j \in DOMAIN s.targets |-> Append(id, j)])
     ELSE Operator("REFERENCE", 0, s.targets[Last(a)], <<>>)]

\* Two heaps without an address in common.
Joined(h, new) ==
  [a \in DOMAIN h \cup DOMAIN new |-> IF a \in DOMAIN new THEN new[a] ELSE h[a]]

-----------------------------------------------------------------------------
(***************************************************************************)
(* What is applied to the graph.                                           *)
(***************************************************************************)

\* Mutation: a reference that is bound again keeps its old operand in front.
Rebound_Kept(h, S, l, old, new) ==
  [i \in DOMAIN h |->
     IF i \in S /\ Names(h, i, l)
     THEN [h[i] EXCEPT !.operands = Added(@, new)] ELSE h[i]]

\* rebind_references
Rebound(h, S, l, old, new) ==
  [i \in DOMAIN h |->
     IF i \in S /\ Names(h, i, l)
     THEN [h[i] EXCEPT !.operands = Added(Removed(@, old), new)] ELSE h[i]]

\* bind_all_references
Bound(h, S, t) ==
  [i \in DOMAIN h |->
     IF i \in S /\ IsReference(h, i) /\ Lookup(t, h[i].reference) # None
     THEN [h[i] EXCEPT !.operands = Added(@, Lookup(t, h[i].reference))] ELSE h[i]]

\* rename_references
Renamed(h, S, from, to) ==
  [i \in DOMAIN h |-> IF i \in S /\ Names(h, i, from)
                      THEN [h[i] EXCEPT !.reference = to] ELSE h[i]]

\* strip_references: the target takes the place of a reference to it, but in
\* the table itself, where a reference has no parent.
Stripped(h, S, l, target) ==
  LET gone == {k \in DOMAIN h : Names(h, k, l) /\
                                \E i \in S : Contains(h[i].operands, k)}
      put(s) == [j \in DOMAIN s |-> IF Names(h, s[j], l) THEN target ELSE s[j]]
  IN  [i \in DOMAIN h |->
         IF i \in gone THEN [h[i] EXCEPT !.operands = <<>>]
         ELSE IF i \in S THEN [h[i] EXCEPT !.operands = put(@)] ELSE h[i]]

\* Mutation: only the name that was asked for.
Aliases_NameOnly(t, l) == {l}

\* xmms_collection_find_alias, for all of them at once.
Aliases(t, l) == {a \in Label : a[1] = l[1] /\ t[a] = t[l]}

(***************************************************************************)
(* xmms_collection_dag_save and _dag_restore: what a label stands for is   *)
(* written once, with copies of the operators it is made of but nothing    *)
(* behind a reference; read again, references are bound by their names.    *)
(***************************************************************************)

\* The copy of operator i that the collection at r is written with, and back.
At(r, i) == IF i = r THEN r ELSE r \o i
Root(a) == <<Head(a)>>
Source(a) == IF Len(a) = 1 THEN a ELSE Tail(a)

Copies(h, t) ==
  UNION {{At(r, i) : i \in Visited(h, {r})} : r \in Saved(t)}

\* Mutation: what an operator is made of is not written.
Copied_NoOperands(h, a) == [h[Source(a)] EXCEPT !.operands = <<>>]

Copied(h, a) ==
  [h[Source(a)] EXCEPT !.operands =
     IF IsReference(h, Source(a)) THEN <<>>
     ELSE [j \in DOMAIN @ |-> At(Root(a), @[j])]]

Restored(h, t) ==
  LET read == [a \in Copies(h, t) |-> Copied(h, a)]
  IN  Bound(read, Applied(read, t), t)

-----------------------------------------------------------------------------
(***************************************************************************)
(* What clients do.                                                        *)
(***************************************************************************)

\* A loop of operators without a reference in it: every walk is endless.
Circular(h, S) ==
  \E i \in S : ~IsReference(h, i) /\ i \in Visited(h, Below(h)[i])

\* The client that a change by another one leaves behind: what it holds is
\* freed when nothing else refers to it.
Overtaken(c, used) ==
  IF client[c].pc = "loading"
  THEN [client[c] EXCEPT !.id = IF @ \in used THEN @ ELSE None]
  ELSE client[c]

\* Every change of the graph ends with this: the operators nothing refers to
\* are freed.
Commit(h, t, done) ==
  LET used == InUse(h, t)
  IN  /\ heap' = [i \in used |-> h[i]]
      /\ table' = t
      /\ client' = [c \in Client |->
                      IF c \in done THEN Idle ELSE Overtaken(c, used)]
      /\ broken' = IF Circular(h, Applied(h, t)) THEN "runaway" ELSE broken
      /\ ops' = ops + 1

Targets(s) == {Lookup(table, t) : t \in Range(s.targets)}

\* Mutation: what a reference leads to is not searched.
Search_Shallow(l, s) == \E i \in Targets(s) : Names(heap, i, l)

\* xmms_collection_has_reference_to: whether what a collection refers to
\* refers to the name it is saved under.
Search(l, s) == \E i \in Walked(heap, Targets(s)) : Names(heap, i, l)

\* The search goes round for ever.  As no operator has two operands, it meets
\* every operator on its way, and the name if it is there, before that.
Endless(s) == \E i \in Walked(heap, Targets(s)) : i \in Walked(heap, Ahead(heap)[i])

\* xmms_collection_validate: the namespace's types, and each reference.  One in
\* all namespaces is never taken for one to the name that is saved.
Validated(l, s) ==
  IF \/ l \in Playlists /\ s.type \notin {"IDLIST", "PARTYSHUFFLE"}
     \/ \E t \in Range(s.targets) : t = l \/ Lookup(table, t) = None
  THEN "no"
  ELSE IF Search(l, s) THEN "no" ELSE IF Endless(s) THEN "hangs" ELSE "yes"

\* The first half of xmms_collection_client_save.  A collection that is not
\* valid is answered with an error.
Validate(c, l, s) ==
  /\ client[c] = Idle
  /\ ops < MaxOps
  /\ Validated(l, s) # "no"
  /\ IF Validated(l, s) = "hangs"
     THEN broken' = "runaway" /\ UNCHANGED client
     ELSE /\ client' = [client EXCEPT ![c] =
                          [pc |-> "validated", label |-> l, shape |-> s,
                           since |-> ops]]
          /\ UNCHANGED broken
  /\ UNCHANGED <<heap, table, ops, loose, tangled, strayed>>

\* The second half: references to the name get the new operator, its own are
\* bound, and it takes the old one's place in the table, under every name.
Save(c) ==
  /\ client[c].pc = "validated"
  /\ ops < MaxOps
  /\ LET l    == client[c].label
         s    == client[c].shape
         old  == table[l]
         id   == <<ops + 1>>
         all  == Joined(heap, Built(s, id))
         turned == IF old = None THEN all
                   ELSE Rebound(all, Applied(heap, table), l, old, id)
         names  == IF old = None THEN {l} ELSE Aliases(table, l)
     IN  /\ Commit(Bound(turned, Visited(all, {id}), table),
                   [m \in Label |-> IF m \in names THEN id ELSE table[m]],
                   {c})
         /\ loose' = loose \cup (names \ {l})
                      \cup {m \in Range(s.targets) \cap Label : table[m] = None}
         /\ tangled' = (tangled \/ client[c].since # ops \/ names # {l})
         /\ strayed' = (strayed \/ (l = Active /\ old = None))

\* The labels of references to l: where they lead to is not made anew when l
\* is removed (the FIXME in xmms_collection_unreference).
Held(l) == {m \in Label : table[m] # None /\ Names(heap, table[m], l)}

\* xmms_collection_client_remove: refused for the active playlist.  For all
\* namespaces it is done in one after the other, as by two of these.
RemoveCollection(l) ==
  /\ ops < MaxOps
  /\ table[l] # None
  /\ table[l] # table[Active]
  /\ LET gone == Aliases(table, l)
     IN  /\ Commit(Stripped(heap, Applied(heap, table), l, table[l]),
                   [m \in Label |-> IF m \in gone THEN None ELSE table[m]],
                   {})
         /\ loose' = loose \cup (gone \ {l}) \cup Held(l)
                      \cup (IF Held(l) = {} THEN {} ELSE {l})
         /\ tangled' = (tangled \/ gone # {l} \/ Held(l) # {})
  /\ UNCHANGED strayed

\* xmms_collection_client_rename
RenameCollection(from, to) ==
  /\ ops < MaxOps
  /\ from[1] = to[1]
  /\ table[from] # None
  /\ table[to] = None
  /\ LET t == [table EXCEPT ![to] = table[from], ![from] = None]
     IN  Commit(Renamed(heap, Applied(heap, t), from, to), t, {})
  /\ loose' = IF from \in loose THEN loose \cup {to} ELSE loose
  /\ strayed' = (strayed \/ from = Active)
  /\ UNCHANGED tangled

\* xmms_playlist_client_load looks both playlists up ...
LookUp(c, l) ==
  /\ client[c] = Idle
  /\ ops < MaxOps
  /\ l \in Playlists \ {Active}
  /\ None \notin {table[Active], table[l]}
  /\ table[Active] # table[l]
  /\ client' = [client EXCEPT ![c] =
                  [pc |-> "loading", label |-> l, id |-> table[l]]]
  /\ UNCHANGED <<heap, table, broken, ops, loose, tangled, strayed>>

\* ... and xmms_collection_update_pointer stores the one under _active.
Load(c) ==
  /\ client[c].pc = "loading"
  /\ ops < MaxOps
  /\ LET id    == client[c].id
         t     == [table EXCEPT ![Active] = id]
         fresh == {i \in Applied(heap, t) \ Applied(heap, table) :
                     IsReference(heap, i)}
     IN  IF id = None
         THEN /\ broken' = "freed"
              /\ UNCHANGED <<heap, table, client, ops>>
              /\ UNCHANGED <<loose, tangled, strayed>>
         ELSE /\ Commit(heap, t, {c})
              /\ loose' = loose \cup {Active}
                           \cup ({heap[i].reference : i \in fresh} \cap Label)
              /\ tangled' = (tangled \/ fresh # {}
                               \/ \E i \in Applied(heap, table) :
                                     Names(heap, i, Active))
              /\ strayed' = (strayed \/ table[client[c].label] # id
                               \/ table[Active] = None)

\* The server stops and is started again; clients' commands are done.
Restart ==
  /\ ops < MaxOps
  /\ \A c \in Client : client[c] = Idle
  /\ Commit(Restored(heap, table), table, {})
  /\ loose' = {l \in loose : table[l] = None}
  /\ UNCHANGED <<tangled, strayed>>

Edit == \/ \E l \in Label : RemoveCollection(l)
        \/ \E from, to \in Label : RenameCollection(from, to)
        \/ Restart

Next ==
  /\ broken = "no"
  /\ \/ \E c \in Client : \/ \E l \in Label, s \in Shape : Validate(c, l, s)
                          \/ Save(c)
                          \/ \E l \in Label : LookUp(c, l)
                          \/ Load(c)
     \/ Edit

Spec == Init /\ [][Next]_vars

-----------------------------------------------------------------------------
(***************************************************************************)
(* Properties.                                                             *)
(***************************************************************************)

IsHeap(h) ==
  /\ IsFiniteSet(DOMAIN h) /\ DOMAIN h \subseteq Seq(Nat) \ {None}
  /\ \A i \in DOMAIN h :
       /\ h[i] \in [type : Type, idlist : Nat,
                    reference : Target \cup {Nowhere}, operands : Seq(DOMAIN h)]
       /\ IsReference(h, i) => h[i].reference \in Target

\* What a label stands for arrived from a client: its address has one number.
IsTable(h, t) ==
  t \in [Label -> {a \in DOMAIN h : Len(a) = 1} \cup {None}]

TypeOK ==
  /\ IsHeap(heap) /\ IsTable(heap, table)
  /\ \A a \in DOMAIN heap : Head(a) <= ops
  /\ client \in [Client ->
       {Idle}
       \cup [pc : {"validated"}, label : Label, shape : Shape, since : 0..ops]
       \cup [pc : {"loading"}, label : Playlists \ {Active},
             id : {a \in DOMAIN heap : Len(a) = 1} \cup {None}]]
  /\ broken \in {"no", "runaway", "freed"}
  /\ ops \in 0..MaxOps
  /\ loose \subseteq Label
  /\ tangled \in BOOLEAN /\ strayed \in BOOLEAN

\* A reference leads to the operator that its name leads to, whatever was
\* saved, removed and renamed in between, so that a search along operands
\* and a query agree.  Out of step may be only the names that changed under
\* another name: _active and its playlist, a collection a label referred to
\* when it was removed, one that was removed while a save waited, and those
\* that a playlist refers to which was loaded after it was removed.  It is not
\* said of a reference in all namespaces, which keeps the operator it was bound
\* to when it was saved or the server was started.
ReferencesBound ==
  /\ TypeOK
  /\ \A i \in Applied(heap, table) :
       IsReference(heap, i) /\ heap[i].reference \in Label \ loose
         => heap[i].operands = <<table[heap[i].reference]>>

Members(l) == IF table[l] = None THEN {} ELSE Visited(heap, {table[l]})

Referred(l) ==
  {heap[i].reference : i \in {j \in Members(l) : IsReference(heap, j)}} \cap Label

Reached(S) == Closure([l \in Label |-> Referred(l)], S)

\* No collection is made of itself, by the labels its references carry.  (One in
\* all namespaces is not followed: it may name the collection that it is part of.)
NoLoop == \A l \in Label : l \notin Reached(Referred(l))

Starred(h, i) == h[i].reference \in Anywhere

\* A reference in all namespaces is found again in the search that it leads to.
StarLoop ==
  \E i \in DOMAIN heap : Starred(heap, i) /\ i \in Walked(heap, Ahead(heap)[i])

\* The validation keeps loops out, unless the graph was changed after it or under
\* names it does not look at: a collection with two of them was saved or removed,
\* _active was set to another playlist while it was referred to, or a collection
\* was removed that a label referred to.  It ends as well, but for one more loop:
\* by a reference in all namespaces, which it neither takes for a self-reference
\* nor finds, a collection may refer to itself.
LoopsKeptOut ==
  ~tangled => NoLoop /\ (broken = "runaway" => StarLoop)

\* current_active finds a name for the active playlist, and a load stores an
\* operator that still exists, unless a load was overtaken by a change of its
\* playlist or _active itself was renamed.
ActiveHasName ==
  ~strayed => \E l \in Playlists \ {Active} : table[l] = table[Active]

\* What a query makes of an operator, from depth d on: a reference stands for
\* its operand or, without one, for what has its name, or for everything.
Meaning(h, t) ==
  LET meaning[d \in 0..MaxDepth] ==
        IF d = 0 THEN [i \in DOMAIN h |-> <<"too deep">>]
        ELSE LET inner == meaning[d - 1] IN
          [i \in DOMAIN h |->
             IF ~IsReference(h, i)
             THEN <<h[i].type, h[i].idlist,
                    [j \in DOMAIN h[i].operands |-> inner[h[i].operands[j]]]>>
             ELSE IF h[i].operands # <<>> THEN inner[h[i].operands[1]]
             ELSE IF Lookup(t, h[i].reference) # None
             THEN inner[Lookup(t, h[i].reference)]
             ELSE <<"All Media">>]
  IN  meaning[MaxDepth]

\* A step of Edit: a save and a load end what their client is in the middle of.
Edited == ops' # ops /\ \A c \in Client : client'[c].pc = client[c].pc

\* Removing or renaming a collection, and stopping and starting the server,
\* leaves what every other collection means as it was, unless it is made of
\* itself, of references that are, or come, out of step or of one in all
\* namespaces.
EditsKeepMeaning ==
  [][Edited /\ NoLoop =>
       LET before == Meaning(heap, table)
           after == Meaning(heap', table')
       IN  \A l \in Label :
             /\ table[l] # None /\ table'[l] # None
             /\ Reached(Referred(l)) \cap (loose \cup loose') = {}
             /\ \A m \in {l} \cup Reached(Referred(l)) :
                  \A i \in Members(m) : ~Starred(heap, i)
             => after[table'[l]] = before[table[l]]]_vars
=============================================================================
