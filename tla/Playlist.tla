------------------------------ MODULE Playlist ------------------------------
(***************************************************************************)
(* The playlists of src/xmms/playlist.c: for each the list of entries and  *)
(* the "position" attribute, and the pointer to the active playlist.       *)
(*                                                                         *)
(* Every operation holds playlist->mutex to its end, so it is one action;  *)
(* but the signals it emits are handled inside it.  The handlers are       *)
(* on_playlist_updated_chg, for the playlist whose entries changed, and    *)
(* on_playlist_updated_pos, for the active playlist whichever moved: they  *)
(* trim a queue and refill a party shuffle in the middle of the operation, *)
(* which goes on with what it read before.  An operation is therefore a    *)
(* function from store to store, with the handlers run where the code      *)
(* emits the signal.                                                       *)
(*                                                                         *)
(* Entries are medialib ids, positions count from 0.  Playlists are not    *)
(* created, renamed or removed here (that is src/xmms/collection.c).       *)
(***************************************************************************)
EXTENDS Integers, Sequences, FiniteSets

CONSTANTS Name,       \* the playlists
          Entry,      \* medialib ids
          Setups,     \* the kinds and jumplists the playlists may have; and a
                      \* bound, "room": a client adds no more to so many entries
          NoList,     \* the jumplist of a playlist that has none
          Garbage,    \* an uninitialized medialib id
          NoMedia,    \* get_random_media finds nothing
          History,    \* the attributes "history" and "upcoming"
          Upcoming,
          MaxLen      \* bound: entries of a playlist

Kind == {"list", "queue", "pshuffle"}

\* A jumplist that is neither NoList nor a playlist names one that is gone.
ASSUME SetupsAssumption ==
  \A u \in Setups : /\ u.kind \in [Name -> Kind] /\ DOMAIN u.jumplist = Name
                     /\ u.room \in [Name -> 0..MaxLen]
ASSUME BoundsAssumption ==
  /\ History \in Nat /\ Upcoming \in Nat /\ MaxLen \in Nat
  /\ History + 1 + Upcoming <= MaxLen
ASSUME NameAssumption == IsFiniteSet(Name) /\ NoList \notin Name

VARIABLES
  setup,        \* kind and jumplist of each playlist
  list,         \* the entries of each playlist
  position,     \* its current position, -1 for none
  active,       \* the playlist that _active points to
  repeat_one, repeat_all,
  mirror,       \* what a client makes of the "changed" broadcasts
  misled,       \* playlists left with a position other than was broadcast last
  late,         \* history: playlists that an insertion left untrimmed, until
                \* their position is right again
  hung          \* an operation does not return, and keeps the mutex

vars == <<setup, list, position, active, repeat_one, repeat_all, mirror, misled,
          late, hung>>

Unsaid == -2

Init ==
  /\ setup \in Setups
  /\ list = [n \in Name |-> <<>>]
  /\ position = [n \in Name |-> -1]
  /\ active \in Name
  /\ repeat_one = FALSE /\ repeat_all = FALSE
  /\ mirror = list
  /\ misled = {} /\ late = {} /\ hung = FALSE

-----------------------------------------------------------------------------
(***************************************************************************)
(* Lists of ids: indices count from 0.                                     *)
(***************************************************************************)

Without(l, p) == SubSeq(l, 1, p) \o SubSeq(l, p + 2, Len(l))

With(l, p, e) == SubSeq(l, 1, p) \o <<e>> \o SubSeq(l, p + 1, Len(l))

Moved(l, p, q) == With(Without(l, p), q, l[p + 1])

Repeated(e, k) == [i \in 1..k |-> e]

Reordered(l, f) == [i \in 1..Len(l) |-> l[f[i]]]

Orders(k) == {f \in [1..k -> 1..k] : \A i, j \in 1..k : i # j => f[i] # f[j]}

-----------------------------------------------------------------------------
(***************************************************************************)
(* The store an operation works on: what it has changed so far, and the    *)
(* last position it has broadcast of each playlist.                        *)
(***************************************************************************)

Store == [list |-> list, position |-> position, active |-> active, mirror |-> mirror,
          said |-> [n \in Name |-> Unsaid], hung |-> FALSE]

Kinds == setup.kind
Jumplist == setup.jumplist

SetEntries(s, n, l) == [s EXCEPT !.list[n] = l]

SetAttr(s, n, p) == [s EXCEPT !.position[n] = p]

\* An operation that hangs does nothing more.
Unless(s, t) == IF s.hung THEN s ELSE t

\* The loop that removes the oldest entries until no more than History lie
\* before the current one.  When the list runs out first there is nothing to
\* remove, the position stays, and it never ends.
Trim(s, n) ==
  LET owed == s.position[n] - History
      k == IF owed > Len(s.list[n]) THEN Len(s.list[n]) ELSE owed
      p == s.position[n] - k
  IN  IF owed <= 0 THEN s
      ELSE [s EXCEPT !.list[n] = SubSeq(@, k + 1, Len(@)),
                     !.mirror[n] = SubSeq(@, k + 1, Len(@)),
                     !.position[n] = p, !.said[n] = IF k = 0 THEN @ ELSE p,
                     !.hung = p > History]

\* rnd is what get_random_media returns during the operation.
Refill(s, n, rnd) ==
  LET wanted == s.position[n] + 1 + Upcoming - Len(s.list[n])
      k == IF rnd = NoMedia \/ wanted < 0 THEN 0 ELSE wanted
  IN  [s EXCEPT !.list[n] = @ \o Repeated(rnd, k),
                !.mirror[n] = @ \o Repeated(rnd, k)]

\* on_playlist_updated
Updated(s, n, rnd) ==
  CASE Kinds[n] = "queue"    -> Trim(s, n)
    [] Kinds[n] = "pshuffle" -> Unless(Trim(s, n), Refill(Trim(s, n), n, rnd))
    [] OTHER                 -> s

\* Mutation: the update runs before the broadcast that caused it.
Changed_UpdateFirst(s, n, told, rnd) == [Updated(s, n, rnd) EXCEPT !.mirror[n] = told]

\* XMMS_IPC_SIGNAL_PLAYLIST_CHANGED.  The broadcast to the clients was
\* connected first, so it goes out before the update it causes; a client
\* applies it to its copy of the list.
Changed(s, n, told, rnd) == Updated([s EXCEPT !.mirror[n] = told], n, rnd)

\* Mutation: on_playlist_updated_pos is not connected.
CurrPos_NotHandled(s, n, p, rnd) == [s EXCEPT !.said[n] = p]

\* XMMS_IPC_SIGNAL_PLAYLIST_CURRENT_POS.  What it updates is the active playlist.
CurrPos(s, n, p, rnd) == Unless(s, Updated([s EXCEPT !.said[n] = p], s.active, rnd))

\* Mutation: the new position is not broadcast.
SetPosition_Untold(s, n, p, rnd) == SetAttr(s, n, p)

SetPosition(s, n, p, rnd) == Unless(s, CurrPos(SetAttr(s, n, p), n, p, rnd))

Right(s, n) == s.position[n] < Len(s.list[n]) /\ s.position[n] <= History

\* The operation returns, or hangs, with the store s; L are the playlists to be
\* trimmed late.
Returns(s, L) ==
  /\ list' = s.list /\ position' = s.position
  /\ active' = s.active /\ mirror' = s.mirror
  /\ hung' = s.hung
  /\ misled' = {n \in Name : /\ \/ s.position[n] # position[n]
                                \/ s.said[n] # Unsaid
                             /\ s.said[n] # s.position[n]}
  /\ late' = {n \in L : ~ Right(s, n)}
  /\ UNCHANGED <<setup, repeat_one, repeat_all>>

Done(s) == Returns(s, late)

Begins == ~ hung

HasRoom(n) == Len(list[n]) < setup.room[n]

Media == Entry \cup {NoMedia}

-----------------------------------------------------------------------------
(***************************************************************************)
(* Editing a playlist.                                                     *)
(***************************************************************************)

AddEntry(n, e, rnd) ==
  /\ Begins /\ HasRoom(n)
  /\ LET added == Append(list[n], e)
     IN  Done(Changed(SetEntries(Store, n, added), n, Append(mirror[n], e), rnd))

\* The position is compared as unsigned, so -1 counts as behind every place:
\* inserting makes entry 0 the current one.  The new position updates the active
\* playlist: another that is to be trimmed for it is late, until something else
\* causes an update of it.
InsertEntry(n, p, e, rnd) ==
  /\ Begins /\ HasRoom(n)
  /\ p <= Len(list[n])
  /\ LET s == Changed(SetEntries(Store, n, With(list[n], p, e)), n,
                      With(mirror[n], p, e), rnd)
         currpos == s.position[n]
         untrimmed == n # active /\ Kinds[n] # "list" /\ p <= currpos /\ currpos = History
     IN  Returns(IF p <= currpos \/ currpos = -1
                 THEN SetPosition(s, n, currpos + 1, rnd) ELSE s,
                 IF untrimmed THEN late \cup {n} ELSE late)

\* xmms_playlist_remove_unlocked: the position is read before the signal and
\* written after it.
Removed(s, n, p, rnd) ==
  LET currpos == s.position[n]
      t == Changed(SetEntries(s, n, Without(s.list[n], p)), n,
                   Without(s.mirror[n], p), rnd)
  IN  IF currpos # -1 /\ p <= currpos THEN SetPosition(t, n, currpos - 1, rnd) ELSE t

RemoveEntry(n, p, rnd) ==
  /\ Begins /\ p < Len(list[n])
  /\ Done(Removed(Store, n, p, rnd))

\* Mutation: an entry that lands on the current one does not push it on.
AfterMove_OffByOne(currpos, p, q) ==
  CASE q < currpos /\ p > currpos  -> currpos + 1
    [] q >= currpos /\ p < currpos -> currpos - 1
    [] p = currpos                 -> q
    [] OTHER                       -> currpos

\* Where the entry at currpos is once the one at p was moved to q.
AfterMove(currpos, p, q) ==
  CASE q <= currpos /\ p > currpos -> currpos + 1
    [] q >= currpos /\ p < currpos -> currpos - 1
    [] p = currpos                 -> q
    [] OTHER                       -> currpos

MoveEntry(n, p, q, rnd) ==
  /\ Begins /\ p < Len(list[n]) /\ q < Len(list[n])
  /\ LET newpos == AfterMove(position[n], p, q)
         s == SetAttr(SetEntries(Store, n, Moved(list[n], p, q)), n, newpos)
         told == With(Without(mirror[n], p), q, list[n][p + 1])
     IN  Done(CurrPos(Changed(s, n, told, rnd), n, newpos, rnd))

\* The current entry goes to the top, the others anywhere.  A position behind
\* the list swaps in an id that was never read.
Shuffle(n, f, rnd) ==
  /\ Begins
  /\ LET l == list[n]
         currpos == position[n]
         top == IF currpos < Len(l)
                THEN [l EXCEPT ![1] = l[currpos + 1], ![currpos + 1] = l[1]]
                ELSE [l EXCEPT ![1] = Garbage]
         s == IF Len(l) < 2 THEN Store
              ELSE IF currpos = -1 THEN SetEntries(Store, n, Reordered(l, f))
              ELSE SetAttr(SetEntries(Store, n, Reordered(top, f)), n, 0)
     IN  /\ Len(l) >= 2 /\ currpos # -1 => f[1] = 1
         /\ Done(CurrPos(Changed(s, n, s.list[n], rnd), n, s.position[n], rnd))

\* By any properties, so into any order.  Nothing happens if it is the same;
\* else the position broadcast is the one from before.
Sort(n, f, rnd) ==
  /\ Begins
  /\ LET l == list[n]
         currpos == position[n]
         newpos == IF currpos \in 0..Len(l) - 1
                   THEN (CHOOSE i \in 1..Len(l) : f[i] = currpos + 1) - 1
                   ELSE currpos
         s == SetAttr(SetEntries(Store, n, Reordered(l, f)), n, newpos)
     IN  /\ \E i \in 1..Len(l) : f[i] # i
         /\ Done(CurrPos(Changed(s, n, s.list[n], rnd), n, currpos, rnd))

Clear(n, rnd) ==
  /\ Begins
  /\ Done(Changed(SetAttr(SetEntries(Store, n, <<>>), n, -1), n, <<>>, rnd))

-----------------------------------------------------------------------------
(***************************************************************************)
(* Moving through the active playlist.                                     *)
(***************************************************************************)

Load(n) == Begins /\ Done([Store EXCEPT !.active = n])

\* xmms_playlist_current_entry picks the first entry if none is current; else
\* it changes nothing.
CurrentEntry(rnd) ==
  /\ Begins /\ position[active] = -1 /\ list[active] # <<>>
  /\ Done(SetPosition(Store, active, 0, rnd))

\* xmms_playlist_set_current_position_do; out of range it changes nothing.
SetCurrentPosition(pos, rnd) ==
  LET size == Len(list[active])
      s == SetPosition(Store, active, 0, rnd)
  IN  \/ /\ pos = size /\ Jumplist[active] # NoList
         /\ Done(IF Jumplist[active] \in Name
                 THEN [s EXCEPT !.active = Jumplist[active]] ELSE s)
      \/ /\ pos \in 0..size - 1
         /\ Done(SetPosition(Store, active, pos, rnd))

SetNext(pos, rnd) == Begins /\ SetCurrentPosition(pos, rnd)

SetNextRel(delta, rnd) ==
  LET size == Len(list[active])
      newpos == position[active] + delta
  IN  /\ Begins
      /\ SetCurrentPosition(IF repeat_all /\ size > 0 THEN newpos % size ELSE newpos,
                            rnd)

\* xmms_playlist_advance_do, in the store s with its active playlist.
IsEmpty(s) == s.list[s.active] = <<>>

\* Mutation: the last but one entry counts as the last.
AtEnd_OffByOne(s) == s.position[s.active] + 1 = Len(s.list[s.active]) - 1

AtEnd(s) == s.position[s.active] + 1 = Len(s.list[s.active])

\* Mutation: the position is not wrapped around.
Following_Unwrapped(s) == s.position[s.active] + 1

Following(s) == (s.position[s.active] + 1) % Len(s.list[s.active])

\* Mutation: the playlist that is left keeps its position.
Abandoned_AtEnd(s, rnd) == s

\* A playlist that is left for its jumplist has no current entry any more.
Abandoned(s, rnd) == IF IsEmpty(s) THEN s ELSE SetPosition(s, s.active, -1, rnd)

\* One call, which calls itself again ("none") after a jump.
AdvanceDo(a, rnd) ==
  LET s == a.store
      n == s.active
      stays == repeat_one /\ ~ IsEmpty(s)
      over == IsEmpty(s) \/ (AtEnd(s) /\ ~ repeat_all)
      left == Abandoned(s, rnd)
  IN  CASE a.answer # "none" -> a
        [] a.answer = "none" /\ stays -> [store |-> s, answer |-> "true"]
        [] a.answer = "none" /\ ~ stays /\ over /\ Jumplist[n] # NoList ->
             IF Jumplist[n] \in Name
             THEN [store |-> [left EXCEPT !.active = Jumplist[n]], answer |-> "none"]
             ELSE [store |-> left, answer |-> "false"]
        [] a.answer = "none" /\ IsEmpty(s) /\ Jumplist[n] = NoList ->
             [store |-> s, answer |-> "false"]
        [] OTHER -> [store |-> SetPosition(s, n, Following(s), rnd),
                     answer |-> IF ~ AtEnd(s) \/ repeat_all THEN "true" ELSE "false"]

\* A playlist with entries ends the recursion when it is reached again, so
\* after twice their number it goes round for ever.
AdvanceCalls == 2 * Cardinality(Name) + 1

Advanced(rnd) ==
  LET call[i \in 0..AdvanceCalls] ==
        IF i = 0 THEN [store |-> Store, answer |-> "none"]
        ELSE AdvanceDo(call[i - 1], rnd)
  IN  call[AdvanceCalls]

Advance(answer, rnd) ==
  LET result == Advanced(rnd)
  IN  /\ Begins
      /\ result.answer = answer
      /\ Done(result.store)

AdvanceHangs(rnd) ==
  /\ Begins
  /\ Advanced(rnd).answer = "none"
  /\ Done([Advanced(rnd).store EXCEPT !.hung = TRUE])

\* on_playlist_r_one_changed, on_playlist_r_all_changed
ConfigChanged ==
  /\ Begins
  /\ \/ repeat_one' = ~ repeat_one /\ UNCHANGED repeat_all
     \/ repeat_all' = ~ repeat_all /\ UNCHANGED repeat_one
  /\ misled' = {}
  /\ UNCHANGED <<setup, list, position, active, mirror, late, hung>>

\* It is asked for an entry when a party shuffle among the playlists N is updated.
DrawsFor(N) == IF \E n \in N : Kinds[n] = "pshuffle" THEN Media ELSE {NoMedia}

Draws == DrawsFor(Name)

Edit(n, rnd) ==
  \/ \E e \in Entry : AddEntry(n, e, rnd)
  \/ \E p \in 0..MaxLen, e \in Entry : InsertEntry(n, p, e, rnd)
  \/ \E p \in 0..MaxLen : RemoveEntry(n, p, rnd)
  \/ \E p, q \in 0..MaxLen : MoveEntry(n, p, q, rnd)
  \/ \E f \in Orders(Len(list[n])) : Shuffle(n, f, rnd) \/ Sort(n, f, rnd)
  \/ Clear(n, rnd)

Next ==
  \/ ConfigChanged
  \/ \E n \in Name : Load(n)
  \/ \E n \in Name : \E rnd \in DrawsFor({n, active}) : Edit(n, rnd)
  \/ \E rnd \in Draws :
       \/ CurrentEntry(rnd)
       \/ \E pos \in 0..MaxLen : SetNext(pos, rnd)
       \/ \E delta \in -1..1 : SetNextRel(delta, rnd)
       \/ \E answer \in {"true", "false"} : Advance(answer, rnd)
       \/ AdvanceHangs(rnd)

Spec == Init /\ [][Next]_vars

-----------------------------------------------------------------------------

\* The type invariant.
TypeOK ==
  /\ setup \in Setups
  /\ DOMAIN list = Name /\ \A n \in Name : /\ list[n] \in Seq(Entry \cup {Garbage})
                                           /\ Len(list[n]) <= MaxLen
  /\ position \in [Name -> -1..MaxLen]
  /\ active \in Name
  /\ repeat_one \in BOOLEAN /\ repeat_all \in BOOLEAN
  /\ DOMAIN mirror = Name
  /\ misled \subseteq Name /\ late \subseteq Name
  /\ hung \in BOOLEAN

\* The position is that of an entry or -1, but for two kinds of playlist.  One
\* that set_next left empty for its jumplist was given position 0, and from there
\* the position can stay one behind the last entry, where nothing is played.
\* A queue or party shuffle that was late is trimmed in the middle of the next
\* edit, which may then write the position it read before.
PositionInRange ==
  /\ TypeOK
  /\ \A n \in Name \ late : \/ position[n] < Len(list[n])
                            \/ position[n] = Len(list[n]) /\ Jumplist[n] # NoList

\* Between operations a queue or party shuffle holds no more than History
\* entries before the current one, though each signal trims the playlist in the
\* middle of an operation that is still changing the position.  It is one more
\* at most when an insertion was late to trim it (the position broadcast updates
\* the active playlist, whichever moved).
HistoryKept ==
  \A n \in Name : Kinds[n] # "list" =>
                    position[n] <= IF n \in late THEN History + 1 ELSE History

\* A client that applies the "changed" broadcasts one after the other to its
\* copy, as nycli's cache does, has the list of the server, also when a change
\* causes further changes before its operation is over.
MirrorMatches == mirror = list

EmptyCircle == \E C \in (SUBSET Name) \ {{}} :
                 \A n \in C : list[n] = <<>> /\ Jumplist[n] \in C

\* An operation keeps the mutex for ever in two cases only: advancing when the
\* jumplists lead round a circle of empty playlists (xmms_playlist_advance_do
\* calls itself), and the trimming of a queue or party shuffle that was late,
\* whose list runs out while the position is still behind the history.
HangsOnlyWhenEmpty ==
  hung => \/ EmptyCircle
          \/ \E n \in late : list[n] = <<>> /\ position[n] > History

CurrentIs(n, e) == /\ position'[n] \in 0..Len(list'[n]) - 1
                   /\ list'[n][position'[n] + 1] = e

Going(rnd) == \/ \E pos \in 0..MaxLen : SetCurrentPosition(pos, rnd)
              \/ \E answer \in {"true", "false"} : Advance(answer, rnd)
              \/ AdvanceHangs(rnd)

\* Another entry becomes the current one only by going through the playlist: no
\* edit does it, as an edit elsewhere moves the position along with the entry.
\* Removing the current entry steps back, so that the one behind it is next.
\* It does not hold of a playlist that was late: the next edit trims it in its
\* middle and goes on with the positions from before.
CurrentKept ==
  [][\A n \in Name \ late :
       position[n] \in 0..Len(list[n]) - 1 =>
         \/ CurrentIs(n, list[n][position[n] + 1])
         \/ position'[n] = -1 /\ \E rnd \in Draws : Clear(n, rnd)
         \/ /\ position'[n] = position[n] - 1
            /\ position[n] + 1 < Len(list[n]) =>
                 list'[n][position'[n] + 2] = list[n][position[n] + 2]
            /\ \E rnd \in Draws : RemoveEntry(n, position[n], rnd)
         \/ \E rnd \in Draws : Going(rnd)]_vars

\* xmms_playlist_current_entry, asked next, returns an entry.
HasNext == list[active] # <<>> /\ position[active] < Len(list[active])

\* When xmms_playlist_advance returns TRUE there is an entry to play, at the
\* position, or at none (-1, for which the first entry is taken) with repeat_one.
\* With repeat_one it answers TRUE for any playlist with entries and does not
\* look at the position, so there is none to play in the two cases in which a
\* position is behind the last entry (PositionInRange).  FALSE is returned only
\* if the active playlist, after all jumps, is empty, was at its end or jumps to
\* a playlist that is gone.
AdvanceAnswers ==
  [][\A rnd \in Draws :
       /\ ~ (HasNext' /\ (position'[active'] # -1 \/ repeat_one)) /\ Advance("true", rnd)
            => /\ repeat_one /\ list'[active'] # <<>>
               /\ \/ active' \in late
                  \/ position'[active'] = Len(list'[active']) /\ Jumplist[active'] # NoList
       /\ (list'[active'] # <<>> /\ position[active'] # Len(list[active']) - 1)
            => ~ Advance("false", rnd)]_vars

\* The current_pos broadcast of ipc.xml: "This broadcast is triggered when the
\* position in the playlist changes."  It holds, and with the position the
\* playlist is left with, but for three operations: clearing a playlist does not
\* send it, sorting one sends the position from before, and moving an entry of
\* one that is trimmed meanwhile the position from before that.  Of a playlist
\* that was late, any edit may send the position from before the trimming.
PositionTold ==
  [][\A n \in misled' \ late :
       \/ \E rnd \in Draws : Clear(n, rnd)
       \/ \E rnd \in Draws, f \in Orders(Len(list[n])) : Sort(n, f, rnd)
       \/ /\ Kinds[n] # "list"
          /\ \E rnd \in Draws, p, q \in 0..MaxLen : MoveEntry(n, p, q, rnd)]_vars
=============================================================================
