------------------------------- MODULE ListSpec -------------------------------
(***************************************************************************)
(* What client/simclist.h promises of a list: a sequence of items and one  *)
(* iteration session, during which the list cannot be modified.  Positions *)
(* count from 0.  Calls that only read are operators here.                 *)
(***************************************************************************)
EXTENDS Integers, FiniteSets, SequencesExt

CONSTANTS Data,       \* what the items are, ordered by <
          Cells       \* items that there is memory for

\* The value of a call that succeeds and returns no item, 1 of list_insert_at()
\* and 0 of the others.  Of list_clear() and list_delete_range() simclist.h
\* promises the number of items that go instead, which the code does not
\* return; in this the module is with the code.
Okay == 0
Failed == -1          \* value of one that does not, NULL or -1; it changes nothing

VARIABLES items,      \* the list
          session,    \* items the iteration session has passed; -1 without one
          call,       \* the last call: its name, its arguments and its value
          lost        \* a call has crashed the program

vars == <<items, session, call, lost>>

Call(op, args, value) == call' = [op |-> op, args |-> args, value |-> value]

Init ==
  /\ items = <<>>
  /\ session = -1
  /\ call = [op |-> "init", args |-> <<>>, value |-> Okay]
  /\ lost = FALSE

Without(s, from, to) == SubSeq(s, 1, from) \o SubSeq(s, to + 2, Len(s))

FirstAt(s, x) == CHOOSE pos \in 0 .. Len(s) - 1 :
                   s[pos + 1] = x /\ \A p \in 0 .. pos - 1 : s[p + 1] # x

Count(s, x) == Cardinality({i \in DOMAIN s : s[i] = x})
Sorted(s, t, versus) ==
  /\ t \in [1 .. Len(s) -> Data]
  /\ \A x \in Data : Count(s, x) = Count(t, x)
  /\ \A i \in 1 .. Len(t) - 1 : t[i] * versus <= t[i + 1] * versus

-----------------------------------------------------------------------------
(* The calls that modify the list. *)

Modify(op, args, new, value) ==
  /\ Call(op, args, value)
  /\ session = -1
  /\ items' = new
  /\ UNCHANGED <<session, lost>>

list_insert_at(x, pos) ==
  /\ pos <= Len(items)
  /\ Modify("insert_at", <<x, pos>>, InsertAt(items, pos + 1, x), Okay)

list_delete_at(pos) ==
  /\ pos < Len(items)
  /\ Modify("delete_at", <<pos>>, Without(items, pos, pos), Okay)

list_extract_at(pos) ==
  /\ pos < Len(items)
  /\ Modify("extract_at", <<pos>>, Without(items, pos, pos), items[pos + 1])

list_delete(x) ==
  /\ Contains(items, x)
  /\ Modify("delete", <<x>>, Without(items, FirstAt(items, x), FirstAt(items, x)), Okay)

\* Not of the whole list, whatever the header says: that is a call to Lose.
list_delete_range(from, to) ==
  /\ to < Len(items) /\ to - from + 1 < Len(items)
  /\ Modify("delete_range", <<from, to>>, Without(items, from, to), Okay)

list_clear == Modify("clear", <<>>, <<>>, Okay)
\* A new list takes the place of this one.
list_destroy == Modify("destroy", <<>>, <<>>, Okay)
list_concat(l1, l2) == Modify("concat", <<l1, l2>>, l1 \o l2, Okay)

list_sort(versus) ==
  /\ Modify("sort", <<versus>>, items', Okay)
  /\ Sorted(items, items', versus)

\* A modification is refused during a session, an insertion also when there is
\* no memory for it, and what an argument names must be there.
Refuse ==
  LET op == call'.op
      args == call'.args
  IN  /\ call'.value = Failed
      /\ UNCHANGED <<items, session, lost>>
      /\ \/ op = "insert_at"
            /\ (session # -1 \/ args[2] > Len(items) \/ Len(items) = Cells)
         \/ op \in {"delete_at", "extract_at"} /\ (session # -1 \/ args[1] >= Len(items))
         \/ op = "delete_range"
            /\ (session # -1 \/ args[2] >= Len(items) \/ args[2] < args[1])
         \/ op = "delete" /\ (session # -1 \/ ~Contains(items, args[1]))
         \/ op \in {"clear", "sort"} /\ session # -1
         \/ op \in {"next", "stop"} /\ session = -1

-----------------------------------------------------------------------------
(* The session. *)

list_iterator_start ==
  /\ session' = IF session = -1 THEN 0 ELSE session
  /\ Call("start", <<>>, IF session = -1 THEN Okay ELSE Failed)
  /\ UNCHANGED <<items, lost>>

\* One call too many returns nothing, a second one is undefined.
list_iterator_next ==
  /\ session \in 0 .. Len(items)
  /\ session' = session + 1
  /\ Call("next", <<>>, IF session < Len(items) THEN items[session + 1] ELSE Failed)
  /\ UNCHANGED <<items, lost>>

list_iterator_stop ==
  /\ session # -1
  /\ session' = -1
  /\ Call("stop", <<>>, Okay)
  /\ UNCHANGED <<items, lost>>

\* The three calls that crash, a second call too many of list_iterator_next(),
\* a deletion of the whole list as a range, and a concatenation there is no
\* memory for; nothing is said of what follows.
Lose ==
  /\ lost'
  /\ \/ session = Len(items) + 1 /\ call'.op = "next"
     \/ session = -1 /\ items # <<>> /\ call'.op = "delete_range"
        /\ call'.args = <<0, Len(items) - 1>>
     \/ call'.op = "concat" /\ Len(call'.args[1]) + Len(call'.args[2]) > Cells

Next ==
  \/ \E pos \in 0 .. Len(items) :
       list_delete_at(pos) \/ list_extract_at(pos) \/ \E x \in Data : list_insert_at(x, pos)
  \/ \E x \in Data : list_delete(x)
  \/ \E to \in 0 .. Len(items) : \E from \in 0 .. to : list_delete_range(from, to)
  \/ list_clear \/ list_destroy
  \/ call'.op = "concat" /\ list_concat(call'.args[1], call'.args[2])
  \/ \E versus \in {-1, 1} : list_sort(versus)
  \/ Refuse
  \/ list_iterator_start \/ list_iterator_next \/ list_iterator_stop
  \/ Lose

Spec == Init /\ [][lost \/ Next]_vars
=============================================================================
