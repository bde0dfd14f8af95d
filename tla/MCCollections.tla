--------------------------- MODULE MCCollections ---------------------------
(***************************************************************************)
(* The name _active, two playlists and a collection, which has the name of *)
(* one of them; clients save a list and operators on _active, on the first *)
(* playlist, on the collection and on its name in all namespaces.          *)
(***************************************************************************)
EXTENDS Collections, TLC

P(name) == <<"Playlists", name>>
C(name) == <<"Collections", name>>

ActiveLabel == P("_active")
FirstLabel == P("p")
Labels4 == {ActiveLabel, FirstLabel, P("a"), C("a")}

Of(type, idlist, targets) ==
  [type |-> type, idlist |-> idlist, targets |-> targets]

Shapes ==
  {Of("IDLIST", 1, <<>>), Of("REFERENCE", 0, <<FirstLabel>>),
   Of("COMPLEMENT", 0, <<ActiveLabel>>), Of("PARTYSHUFFLE", 0, <<C("a")>>),
   Of("COMPLEMENT", 0, <<<<"*", "a">>>>)}

\* Those it takes to save a playlist that is made of itself.
LoopShapes ==
  {Of("REFERENCE", 0, <<FirstLabel>>), Of("PARTYSHUFFLE", 0, <<C("a")>>)}

\* The operators in the order in which the table reaches them.
RECURSIVE Order(_, _)
Order(done, todo) ==
  IF todo = <<>> THEN done
  ELSE IF Contains(done, Head(todo)) THEN Order(done, Tail(todo))
  ELSE Order(Append(done, Head(todo)), Tail(todo) \o heap[Head(todo)].operands)

LabelsInOrder == SetToSeq(Label)

\* A comparison has TLC compute the functions that Commit defines, which it
\* would leave unevaluated in a state of which it needs the view only.
Computed == <<heap, table, client>> = <<heap, table, client>>

\* States that differ in addresses only are one state.
View ==
  LET order == Order(<<>>, SelectSeq([k \in DOMAIN LabelsInOrder |->
                                        table[LabelsInOrder[k]]],
                                     LAMBDA i : i # None))
      place == [i \in Range(order) \cup {None} |->
                  IF i = None THEN 0
                  ELSE CHOOSE k \in DOMAIN order : order[k] = i]
  IN  <<[k \in DOMAIN order |->
           [heap[order[k]] EXCEPT !.operands = [j \in DOMAIN @ |-> place[@[j]]]]],
        [l \in Label |-> place[table[l]]],
        [c \in Client |-> IF client[c].pc = "loading"
                          THEN [client[c] EXCEPT !.id = place[@]] ELSE client[c]],
        broken, ops, loose, tangled, strayed, Computed>>

Symmetry == Permutations(Client)
=============================================================================
