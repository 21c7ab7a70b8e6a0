------------------------------- MODULE SimcList -------------------------------
(***************************************************************************)
(* client/simclist.c: a doubly linked list between two sentinels, with a   *)
(* pointer to its middle, a stack of spare cells and an iteration session. *)
(* The comparator is the ready-made one for numbers, copy_data is off, and *)
(* sorting does not use threads.  The program destroys no list during a    *)
(* session (its cells would leak) and gives list_sort() 1 or -1.           *)
(***************************************************************************)
EXTENDS Integers, FiniteSets, SequencesExt, FiniteSetsExt

CONSTANTS Data,
          Cells,         \* cells of one list that malloc() has room for
          MaxSpare,      \* SIMCLIST_MAX_SPARE_ELEMS, 5
          MinQuick,      \* SIMCLIST_MINQUICKSORTELS, 24
          Others         \* lists that list_concat() joins to this one

ASSUME SimcListAssumption ==
  /\ Data \subseteq Nat
  /\ Cells \in Nat /\ MaxSpare \in Nat /\ MinQuick \in Nat \ {0}
  /\ \A s \in Others : s \in Seq(Data)

VARIABLES next, prev, data,   \* the cells, list_entry_s
          heap,               \* cells that are allocated
          numels, mid, spareels, iter_active, iter_pos, iter_curentry,
          call,               \* history: the last call, its arguments and value
          lost                \* the program has followed a NULL pointer

links == <<next, prev, data>>
size == <<heap, numels, mid, spareels>>
session == <<iter_active, iter_pos, iter_curentry>>
vars == <<links, size, session, call, lost>>

NULL == -1
HeadSentinel == 0
TailSentinel == Cells + 1
Cell == 1 .. Cells
Entry == HeadSentinel .. TailSentinel

Okay == 0
Failed == -1

\* n steps along the links from e, no further than to a NULL.
Step(link, e) == IF e = NULL THEN NULL ELSE link[e]
Follow(link, e, n) ==
  LET walk[k \in 0 .. n] == IF k = 0 THEN e ELSE Step(link, walk[k - 1])
  IN  IF n <= 0 THEN e ELSE walk[n]

At(pos) == Follow(next, HeadSentinel, pos + 1)         \* the entry pos steps from the first
Chain == [i \in 1 .. numels |-> At(i - 1)]
Items == [i \in 1 .. numels |-> data[At(i - 1)]]

Call(op, args, value) == call' = [op |-> op, args |-> args, value |-> value]
Refuse(op, args) == Call(op, args, Failed) /\ UNCHANGED <<links, size, session, lost>>

\* The program follows a NULL pointer.
Lose(op, args) ==
  /\ lost' = TRUE
  /\ Call(op, args, Failed)
  /\ UNCHANGED <<links, size, session>>

\* list_init(), and the cells list_concat() makes for the items s.
NewNext(s) == [e \in Entry |-> CASE e < Len(s)  -> e + 1
                                 [] e = Len(s)  -> TailSentinel
                                 [] e > Len(s)  -> NULL]
NewPrev(s) == [e \in Entry |-> CASE e = TailSentinel      -> Len(s)
                                 [] e \in 1 .. Len(s)     -> e - 1
                                 [] OTHER                 -> NULL]
NewData(s) == [e \in Entry |-> IF e \in DOMAIN s THEN s[e] ELSE NULL]

Init ==
  /\ next = NewNext(<<>>) /\ prev = NewPrev(<<>>) /\ data = NewData(<<>>)
  /\ heap = {}
  /\ numels = 0 /\ mid = NULL /\ spareels = <<>>
  /\ iter_active = FALSE /\ iter_pos = 0 /\ iter_curentry = NULL
  /\ call = [op |-> "init", args |-> <<>>, value |-> Okay]
  /\ lost = FALSE

-----------------------------------------------------------------------------
(* Reading.  An empty list divides by 0, which leads to the last quarter.  *)

FindposMiddleOff(posstart) ==     \* mutant: the middle of an even list is rounded up
  LET x == 4 * (posstart + 1)
      middle == numels \div 2
  IN  CASE numels > 0 /\ x <= numels      -> Follow(next, HeadSentinel, posstart + 1)
        [] numels = 0 \/ x > 3 * numels   -> Follow(prev, TailSentinel, numels - posstart)
        [] OTHER -> IF posstart < middle THEN Follow(prev, mid, middle - posstart)
                                         ELSE Follow(next, mid, posstart - middle)

list_findpos(posstart) ==
  LET x == 4 * (posstart + 1)         \* four times the code's x, times numels
      middle == (numels - 1) \div 2
  IN  CASE numels > 0 /\ x <= numels      -> Follow(next, HeadSentinel, posstart + 1)
        [] numels > 0 /\ x > numels /\ x < 2 * numels
                                          -> Follow(prev, mid, middle - posstart)
        [] numels > 0 /\ x >= 2 * numels /\ x <= 3 * numels
                                          -> Follow(next, mid, posstart - middle)
        [] numels = 0 \/ x > 3 * numels   -> Follow(prev, TailSentinel, numels - posstart)

list_get_at(pos) ==
  IF pos \in -1 .. numels THEN data[list_findpos(pos)] ELSE NULL

list_locate(x) ==
  LET found == {pos \in 0 .. numels - 1 : data[At(pos)] = x}
  IN  IF found = {} THEN -1 ELSE Min(found)

\* Whether b goes before a in the order: comparator(a, b) * -versus > 0.
Misplaced(a, b, versus) == a * versus > b * versus

Better(x, best, versus) == IF Misplaced(x, best, versus) THEN x ELSE best
list_get_minmax(versus) ==
  LET best[k \in 1 .. numels] == IF k = 1 THEN Items[1]
                                          ELSE Better(Items[k], best[k - 1], versus)
  IN  IF numels = 0 THEN NULL ELSE best[numels]

list_iterator_hasnext == iter_active /\ iter_pos < numels

-----------------------------------------------------------------------------
(* Modifying.  During an iteration session every call is refused. *)

\* Where mid goes after an insertion, from the links it has made.
MidAfterInsert(pos, lent) ==
  LET n == numels + 1
  IN  CASE n = 1                                          -> lent
        [] n > 1 /\ n % 2 = 1 /\ pos >= (n - 1) \div 2     -> next'[mid]
        [] n % 2 = 0 /\ pos <= (n - 1) \div 2              -> prev'[mid]
        [] OTHER                                          -> mid

list_insert_at(x, pos) ==
  LET spare == spareels # <<>>
      lent == IF spare THEN Last(spareels) ELSE Min(Cell \ heap)
      prec == list_findpos(pos - 1)
      succ == next[prec]
  IN  IF iter_active \/ pos > numels \/ (~spare /\ heap = Cell)
      THEN Refuse("insert_at", <<x, pos>>)
      ELSE /\ next' = [next EXCEPT ![prec] = lent, ![lent] = succ]
           /\ prev' = [prev EXCEPT ![lent] = prec, ![succ] = lent]
           /\ data' = [data EXCEPT ![lent] = x]
           /\ heap' = heap \cup {lent}
           /\ spareels' = IF spare THEN Front(spareels) ELSE spareels
           /\ numels' = numels + 1
           /\ mid' = MidAfterInsert(pos, lent)
           /\ Call("insert_at", <<x, pos>>, Okay)
           /\ UNCHANGED <<session, lost>>

\* Cells are kept as spares while there is room; the others are freed.
Release(cells) ==
  LET room == Min({MaxSpare - Len(spareels), Len(cells)})
  IN  /\ spareels' = spareels \o SubSeq(cells, 1, room)
      /\ heap' = heap \ ToSet(SubSeq(cells, room + 1, Len(cells)))

\* Takes the cells from first to last out of the chain.
Unlink(first, last) ==
  /\ next' = [next EXCEPT ![prev[first]] = next[last]]
  /\ prev' = [prev EXCEPT ![next[last]] = prev[first]]

DropBehindMid(pos) ==             \* mutant: > for >=
  CASE numels = 1                                         -> NULL
    [] numels > 1 /\ numels % 2 = 1 /\ pos > numels \div 2 -> prev[mid]
    [] numels % 2 = 0 /\ pos < numels \div 2              -> next[mid]
    [] OTHER                                              -> mid

MidAfterDrop(pos) ==
  CASE numels = 1                                          -> NULL
    [] numels > 1 /\ numels % 2 = 1 /\ pos >= numels \div 2 -> prev[mid]
    [] numels % 2 = 0 /\ pos < numels \div 2               -> next[mid]
    [] OTHER                                               -> mid

list_drop_elem(tmp, pos) ==
  /\ mid' = MidAfterDrop(pos)
  /\ Unlink(tmp, tmp)
  /\ Release(<<tmp>>)
  /\ numels' = numels - 1
  /\ UNCHANGED <<session, lost>>

list_delete_at(pos) ==
  IF iter_active \/ pos >= numels THEN Refuse("delete_at", <<pos>>)
  ELSE /\ list_drop_elem(list_findpos(pos), pos)
       /\ Call("delete_at", <<pos>>, Okay)
       /\ UNCHANGED data

list_extract_at(pos) ==
  LET tmp == list_findpos(pos)
  IN  IF iter_active \/ pos >= numels THEN Refuse("extract_at", <<pos>>)
      ELSE /\ list_drop_elem(tmp, pos)
           /\ data' = [data EXCEPT ![tmp] = NULL]
           /\ Call("extract_at", <<pos>>, data[tmp])

list_delete(x) ==
  LET pos == list_locate(x)
  IN  IF iter_active \/ pos < 0 THEN Refuse("delete", <<x>>)
      ELSE /\ list_drop_elem(list_findpos(pos), pos)
           /\ Call("delete", <<x>>, Okay)
           /\ UNCHANGED data

\* mid moves to the middle of what stays, along the links of before.  When all
\* is deleted (l->numels-1-numdel)/2 underflows to 2^31-1, and mid is sent some
\* 2^31 entries to the left of the first.
MidAfterRange(from, to) ==
  LET numdel == to - from + 1
      after == (numels - 1 - numdel) \div 2
      goal == IF after < from THEN after ELSE after + numdel
      movedx == goal - (numels - 1) \div 2
  IN  IF movedx > 0 THEN Follow(next, mid, movedx) ELSE Follow(prev, mid, -movedx)

list_delete_range(from, to) ==
  IF iter_active \/ to < from \/ to >= numels THEN Refuse("delete_range", <<from, to>>)
  ELSE IF to - from + 1 = numels THEN Lose("delete_range", <<from, to>>)
  ELSE /\ mid' = MidAfterRange(from, to)
       /\ Unlink(list_findpos(from), Chain[to + 1])
       /\ Release(SubSeq(Chain, from + 1, to + 1))
       /\ numels' = numels - (to - from + 1)
       /\ Call("delete_range", <<from, to>>, Okay)
       /\ UNCHANGED <<data, session, lost>>

list_clear ==
  IF iter_active THEN Refuse("clear", <<>>)
  ELSE /\ Release(Chain)
       /\ next' = [next EXCEPT ![HeadSentinel] = TailSentinel]
       /\ prev' = [prev EXCEPT ![TailSentinel] = HeadSentinel]
       /\ numels' = 0 /\ mid' = NULL
       /\ Call("clear", <<>>, Okay)
       /\ UNCHANGED <<data, session, lost>>

\* A new list of the items s, while the old one is destroyed.
Make(s) ==
  /\ ~iter_active
  /\ next' = NewNext(s) /\ prev' = NewPrev(s) /\ data' = NewData(s)
  /\ heap' = DOMAIN s
  /\ numels' = Len(s)
  /\ spareels' = <<>>
  /\ UNCHANGED <<session, lost>>

list_destroy == Make(<<>>) /\ mid' = NULL /\ Call("destroy", <<>>, Okay)

\* mid starts at the last cell of l1 and is moved by half the difference.
MidOfConcat(n1, n2) ==
  LET err == n2 - n1
  IN  CASE n1 + n2 = 0            -> NULL
        [] n1 + n2 > 0 /\ err > 0 -> Follow(next', n1, (err + 1) \div 2)
        [] err < -1               -> Follow(prev', n1, (-err) \div 2)
        [] OTHER                  -> n1

\* What malloc() returns is not looked at.
list_concat(l1, l2) ==
  IF Len(l1) + Len(l2) > Cells THEN ~iter_active /\ Lose("concat", <<l1, l2>>)
  ELSE /\ Make(l1 \o l2)
       /\ mid' = MidOfConcat(Len(l1), Len(l2))
       /\ Call("concat", <<l1, l2>>, Okay)

-----------------------------------------------------------------------------
(* Sorting works on the data of the cells, here a sequence.               *)

Swap(s, i, j) == [s EXCEPT ![i] = s[j], ![j] = s[i]]

\* One round: the first of the most misplaced from the i-th on comes to i.
Select(s, i, versus) ==
  LET toswap == CHOOSE j \in i .. Len(s) :
                  /\ \A k \in i .. Len(s) : ~Misplaced(s[j], s[k], versus)
                  /\ \A k \in i .. j - 1 : Misplaced(s[k], s[j], versus)
  IN  Swap(s, i, toswap)

list_sort_selectionsort(s, versus) ==
  LET t[i \in 0 .. Len(s)] == IF i = 0 THEN s ELSE Select(t[i - 1], i, versus)
  IN  t[Len(s)]

\* One round: the ends left and right run towards the pivot and swap what is on
\* the wrong side of it, until one of them has arrived.
Approach(m, pivot, versus) ==
  LET l == Min({pivot} \cup {i \in m.left .. pivot : Misplaced(m.s[i], m.s[pivot], versus)})
      r == Max({pivot} \cup {i \in pivot .. m.right : Misplaced(m.s[pivot], m.s[i], versus)})
  IN  IF pivot \in {m.left, m.right} THEN m
      ELSE IF pivot \in {l, r} THEN [s |-> m.s, left |-> l, right |-> r]
      ELSE [s |-> Swap(m.s, l, r), left |-> l + 1, right |-> r - 1]

Meet(s, pivot, versus) ==
  LET m[k \in 0 .. Len(s)] == IF k = 0 THEN [s |-> s, left |-> 1, right |-> Len(s)]
                                     ELSE Approach(m[k - 1], pivot, versus)
  IN  m[Len(s)]

\* The other end goes on; what is wrong on its side jumps over the pivot, which
\* makes room with a step d towards the end.
Wrong(s, end, pivot, d, versus) == IF d = -1 THEN Misplaced(s[end], s[pivot], versus)
                                            ELSE Misplaced(s[pivot], s[end], versus)

JumpBySwapping(g, d) ==     \* mutant: swapped with the pivot
  [s |-> Swap(g.s, g.end, g.pivot), end |-> g.end, pivot |-> g.pivot + d]

Jump(g, d) ==
  [s |-> [g.s EXCEPT ![g.end] = g.s[g.pivot + d], ![g.pivot + d] = g.s[g.pivot],
                     ![g.pivot] = g.s[g.end]],
   end |-> g.end, pivot |-> g.pivot + d]

GatherOne(g, d, versus) ==
  IF g.end = g.pivot THEN g
  ELSE IF Wrong(g.s, g.end, g.pivot, d, versus) THEN Jump(g, d)
  ELSE [s |-> g.s, end |-> g.end - d, pivot |-> g.pivot]

Gather(s, end, pivot, d, versus) ==
  LET g[k \in 0 .. Len(s)] == IF k = 0 THEN [s |-> s, end |-> end, pivot |-> pivot]
                                     ELSE GatherOne(g[k - 1], d, versus)
  IN  g[Len(s)]

Split(s, p, versus) ==
  LET met == Meet(s, p, versus)
  IN  IF met.right = p THEN Gather(met.s, met.left, p, -1, versus)
                       ELSE Gather(met.s, met.right, p, 1, versus)

\* The outcomes for every choice of the pivots, which are drawn at random.
list_sort_quicksort(s0, versus) ==
  LET sort[s \in {t \in Seq(Data) : Len(t) <= Len(s0)}] ==
        IF Len(s) <= 1 THEN {s}
        ELSE IF Len(s) <= MinQuick THEN {list_sort_selectionsort(s, versus)}
        ELSE UNION {LET split == Split(s, p, versus)
                        t == split.s
                        q == split.pivot
                    IN  {a \o <<t[q]>> \o b : a \in sort[SubSeq(t, 1, q - 1)],
                                              b \in sort[SubSeq(t, q + 1, Len(t))]}
                    : p \in 1 .. Len(s)}
  IN  sort[s0]

list_sort(versus) ==
  IF iter_active THEN Refuse("sort", <<versus>>)
  ELSE \E t \in list_sort_quicksort(Items, versus) :
         /\ data' = [e \in Entry |-> IF e \in ToSet(Chain)
                                     THEN t[CHOOSE i \in 1 .. numels : Chain[i] = e]
                                     ELSE data[e]]
         /\ Call("sort", <<versus>>, Okay)
         /\ UNCHANGED <<next, prev, size, session, lost>>

-----------------------------------------------------------------------------
(* The iteration session. *)

list_iterator_start ==
  IF iter_active THEN Refuse("start", <<>>)
  ELSE /\ iter_active' = TRUE /\ iter_pos' = 0
       /\ iter_curentry' = next[HeadSentinel]
       /\ Call("start", <<>>, Okay)
       /\ UNCHANGED <<links, size, lost>>

list_iterator_next ==
  IF ~iter_active THEN Refuse("next", <<>>)
  ELSE IF iter_curentry = NULL THEN Lose("next", <<>>)
  ELSE /\ iter_curentry' = next[iter_curentry]
       /\ iter_pos' = iter_pos + 1
       /\ Call("next", <<>>, data[iter_curentry])
       /\ UNCHANGED <<links, size, iter_active, lost>>

list_iterator_stop ==
  IF ~iter_active THEN Refuse("stop", <<>>)
  ELSE /\ iter_active' = FALSE /\ iter_pos' = 0
       /\ Call("stop", <<>>, Okay)
       /\ UNCHANGED <<links, size, iter_curentry, lost>>

Next ==
  /\ ~lost
  /\ \/ \E pos \in 0 .. numels :
          \/ list_delete_at(pos) \/ list_extract_at(pos)
          \/ \E x \in Data : list_insert_at(x, pos)
          \/ \E from \in 0 .. numels : list_delete_range(from, pos)
     \/ \E x \in Data : list_delete(x)
     \/ list_clear \/ list_destroy
     \/ \E other \in Others : list_concat(Items, other) \/ list_concat(other, Items)
     \/ list_concat(Items, Items)
     \/ \E versus \in {-1, 1} : list_sort(versus)
     \/ list_iterator_start \/ list_iterator_next \/ list_iterator_stop

Spec == Init /\ [][Next]_vars

-----------------------------------------------------------------------------
(* Properties. *)

\* list_repOk(): the links of either direction are each other's inverse and lead
\* from one sentinel over numels cells to the other, mid is where list_findpos()
\* takes it to be, and the spares fit.  Moreover no cell is in use twice, nor
\* lost to the heap, and the session stands where iter_pos says.
RepOk ==
  LET entries == <<HeadSentinel>> \o Chain \o <<TailSentinel>>
      used == ToSet(Chain) \cup ToSet(spareels)
  IN  /\ \A i \in 1 .. numels + 1 : /\ next[entries[i]] = entries[i + 1]
                                    /\ prev[entries[i + 1]] = entries[i]
      /\ prev[HeadSentinel] = NULL /\ next[TailSentinel] = NULL
      /\ mid = IF numels = 0 THEN NULL ELSE At((numels - 1) \div 2)
      /\ Len(spareels) <= MaxSpare
      /\ used = heap /\ Cardinality(heap) = numels + Len(spareels)
      /\ iter_active => iter_curentry = At(iter_pos)

\* What the calls that only read return agrees with the items: the walk of
\* list_findpos() from the nearest of head, mid and tail ends at the position
\* asked for, the sentinels at -1 and numels included; list_get_minmax() and
\* list_iterator_hasnext() are right, too.
Reads ==
  /\ \A pos \in -1 .. numels : list_findpos(pos) = At(pos)
  /\ \A pos \in 0 .. numels - 1 : list_get_at(pos) = Items[pos + 1]
  /\ numels > 0 => /\ list_get_minmax(1) = Max(ToSet(Items))
                   /\ list_get_minmax(-1) = Min(ToSet(Items))
  /\ list_iterator_hasnext <=> iter_active /\ iter_curentry \in Cell

Promise == INSTANCE ListSpec
             WITH items <- Items, session <- IF iter_active THEN iter_pos ELSE -1

\* Whatever is called in whatever order, the list does what ListSpec says of the
\* same calls: pointers, middle, spares and the choice of sorting algorithm and
\* pivots make no difference that a caller could see.
ImplementsList == Promise!Spec

-----------------------------------------------------------------------------
(* States that differ in which cells are used, and in the call that led to *)
(* them, are one state to the model checker, if the list is in order.      *)

View == IF RepOk
        THEN <<Items, Len(spareels), IF iter_active THEN iter_pos ELSE -1, lost>>
        ELSE <<links, size, session, lost>>
=============================================================================
