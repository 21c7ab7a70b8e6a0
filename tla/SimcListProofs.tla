---------------------------- MODULE SimcListProofs ----------------------------
(***************************************************************************)
(* The list is in order after whatever calls, what it reads is right, and  *)
(* it is the sequence ListSpec says it is: for every number of cells and   *)
(* spares, every kind of data and every limit of quicksort.                *)
(*                                                                         *)
(* The first sections are about sequences of items: every outcome of       *)
(* list_sort_quicksort(), whatever pivots are drawn, has the same items in *)
(* the order that is asked for.  Then come the links between the cells,    *)
(* the middle, the spares, the invariant, what each call does to it and to *)
(* the items, and what ListSpec says of it; the theorems are at the end.   *)
(***************************************************************************)
EXTENDS SimcList, NumberTheorems, SequenceTheorems, FiniteSetTheorems

-----------------------------------------------------------------------------
(* The order of the items. *)

Versus == {-1, 1}

LEMMA ItemOrder ==
  ASSUME NEW versus \in Versus, NEW a \in Nat, NEW b \in Nat, NEW c \in Nat
  PROVE  /\ ~Misplaced(a, a, versus)
         /\ Misplaced(a, b, versus) => ~Misplaced(b, a, versus)
         /\ ~Misplaced(a, b, versus) /\ ~Misplaced(b, c, versus) => ~Misplaced(a, c, versus)
         /\ Misplaced(a, b, 1) <=> a > b
         /\ Misplaced(a, b, -1) <=> b > a
         /\ Misplaced(a, b, versus) \in BOOLEAN
<1>1. /\ \A x, y \in Nat : Misplaced(x, y, 1) <=> x > y
      /\ \A x, y \in Nat : Misplaced(x, y, -1) <=> y > x
  BY DEF Misplaced
<1>2. CASE versus = 1
  BY <1>1, <1>2 DEF Misplaced
<1>3. CASE versus = -1
  BY <1>1, <1>3 DEF Misplaced
<1> QED BY <1>2, <1>3 DEF Versus

\* Items at the positions from a to b, none before one that goes ahead of it.
InSequence(s, a, b, versus) ==
  \A i, j \in a .. b : i < j => ~Misplaced(s[i], s[j], versus)

-----------------------------------------------------------------------------
(* The same items in another order. *)

Same(s, t, n) ==
  \E f, g \in [1 .. n -> 1 .. n] :
     /\ \A i \in 1 .. n : f[g[i]] = i /\ g[f[i]] = i
     /\ \A i \in 1 .. n : t[i] = s[f[i]]

LEMMA SameAsItself ==
  ASSUME NEW n \in Nat, NEW s
  PROVE  Same(s, s, n)
<1> DEFINE f == [i \in 1 .. n |-> i]
<1>1. f \in [1 .. n -> 1 .. n] /\ \A i \in 1 .. n : f[f[i]] = i /\ s[i] = s[f[i]]
  OBVIOUS
<1> HIDE DEF f
<1> QED BY <1>1 DEF Same

LEMMA SameAgain ==
  ASSUME NEW n \in Nat, NEW r, NEW s, NEW t, Same(r, s, n), Same(s, t, n)
  PROVE  Same(r, t, n)
<1>1. PICK f \in [1 .. n -> 1 .. n], g \in [1 .. n -> 1 .. n] :
         /\ \A i \in 1 .. n : f[g[i]] = i /\ g[f[i]] = i
         /\ \A i \in 1 .. n : s[i] = r[f[i]]
  BY DEF Same
<1>2. PICK h \in [1 .. n -> 1 .. n], k \in [1 .. n -> 1 .. n] :
         /\ \A i \in 1 .. n : h[k[i]] = i /\ k[h[i]] = i
         /\ \A i \in 1 .. n : t[i] = s[h[i]]
  BY DEF Same
<1> DEFINE u == [i \in 1 .. n |-> f[h[i]]]
           v == [i \in 1 .. n |-> k[g[i]]]
<1>3. \A i \in 1 .. n : h[i] \in 1 .. n /\ g[i] \in 1 .. n
  BY <1>1, <1>2
<1>4. u \in [1 .. n -> 1 .. n] /\ v \in [1 .. n -> 1 .. n]
  BY <1>1, <1>2, <1>3
<1>5. ASSUME NEW i \in 1 .. n
      PROVE  u[v[i]] = i /\ v[u[i]] = i /\ t[i] = r[u[i]]
  <2>1. v[i] \in 1 .. n /\ u[i] \in 1 .. n /\ v[i] = k[g[i]] /\ u[i] = f[h[i]]
    BY <1>4
  <2>2. u[v[i]] = f[h[v[i]]] /\ v[u[i]] = k[g[u[i]]]
    BY <2>1
  <2>3. h[v[i]] = g[i] /\ g[u[i]] = h[i]
    BY <1>1, <1>2, <1>3, <2>1
  <2>4. f[g[i]] = i /\ k[h[i]] = i
    BY <1>1, <1>2
  <2>5. t[i] = s[h[i]] /\ s[h[i]] = r[f[h[i]]]
    BY <1>1, <1>2, <1>3
  <2> QED BY <2>1, <2>2, <2>3, <2>4, <2>5
<1> HIDE DEF u, v
<1>6. /\ \A i \in 1 .. n : u[v[i]] = i /\ v[u[i]] = i
      /\ \A i \in 1 .. n : t[i] = r[u[i]]
  BY <1>5
<1> QED BY ONLY <1>4, <1>6 DEF Same

LEMMA SameValues ==
  ASSUME NEW n \in Nat, NEW s, NEW t, Same(s, t, n), NEW i \in 1 .. n
  PROVE  \E j \in 1 .. n : t[i] = s[j]
<1>1. PICK f \in [1 .. n -> 1 .. n], g \in [1 .. n -> 1 .. n] :
         /\ \A k \in 1 .. n : f[g[k]] = k /\ g[f[k]] = k
         /\ \A k \in 1 .. n : t[k] = s[f[k]]
  BY DEF Same
<1>2. f[i] \in 1 .. n /\ g[i] \in 1 .. n /\ t[i] = s[f[i]]
  BY <1>1
<1> QED BY <1>2

PlacesOf(s, n, x) == {i \in 1 .. n : s[i] = x}

\* Two sequences of the same items have each item equally often.
LEMMA SameCount ==
  ASSUME NEW n \in Nat, NEW s, NEW t, Same(s, t, n), NEW x
  PROVE  Cardinality(PlacesOf(s, n, x)) = Cardinality(PlacesOf(t, n, x))
<1>1. PICK f \in [1 .. n -> 1 .. n], g \in [1 .. n -> 1 .. n] :
         /\ \A k \in 1 .. n : f[g[k]] = k /\ g[f[k]] = k
         /\ \A k \in 1 .. n : t[k] = s[f[k]]
  BY DEF Same
<1> DEFINE A == PlacesOf(t, n, x)
           B == PlacesOf(s, n, x)
           h == [i \in A |-> f[i]]
<1>2. h \in [A -> B]
  BY <1>1 DEF PlacesOf
<1>3. \A i, j \in A : h[i] = h[j] => i = j
  BY <1>1 DEF PlacesOf
<1>4. \A j \in B : \E i \in A : h[i] = j
  <2> SUFFICES ASSUME NEW j \in B PROVE \E i \in A : h[i] = j
    OBVIOUS
  <2>1. g[j] \in 1 .. n /\ f[g[j]] = j /\ t[g[j]] = x
    BY <1>1 DEF PlacesOf
  <2> QED BY <2>1 DEF PlacesOf
<1>5. h \in Bijection(A, B)
  BY <1>2, <1>3, <1>4 DEF Bijection, Injection, Surjection, IsInjective
<1>6. IsFiniteSet(A)
  <2>1. IsFiniteSet(1 .. n)
    BY FS_Interval
  <2>2. A \subseteq 1 .. n
    BY DEF PlacesOf
  <2> HIDE DEF A
  <2> QED BY <2>1, <2>2, FS_Subset
<1>7. ExistsBijection(A, B)
  BY <1>5 DEF ExistsBijection
<1> HIDE DEF A, B
<1>8. Cardinality(B) = Cardinality(A)
  BY <1>6, <1>7, FS_Bijection
<1> QED BY <1>8 DEF A, B

\* Two items change places; three do.
Swapped(t, s, n, i, j) ==
  /\ t \in Seq(Nat) /\ Len(t) = n /\ Same(s, t, n)
  /\ t[i] = s[j] /\ t[j] = s[i]
  /\ \A k \in 1 .. n : k # i /\ k # j => t[k] = s[k]

LEMMA SameSwap ==
  ASSUME NEW s \in Seq(Nat), NEW n \in Nat, Len(s) = n,
         NEW i \in 1 .. n, NEW j \in 1 .. n
  PROVE  Swapped(Swap(s, i, j), s, n, i, j)
<1> DEFINE t == Swap(s, i, j)
           f == [k \in 1 .. n |-> IF k = i THEN j ELSE IF k = j THEN i ELSE k]
<1>1. /\ t \in Seq(Nat) /\ Len(t) = n /\ t[i] = s[j] /\ t[j] = s[i]
      /\ \A k \in 1 .. n : k # i /\ k # j => t[k] = s[k]
  BY DEF Swap
<1>2. f \in [1 .. n -> 1 .. n] /\ \A k \in 1 .. n : f[f[k]] = k
  OBVIOUS
<1>3. \A k \in 1 .. n : t[k] = s[f[k]]
  BY <1>1
<1> HIDE DEF t, f
<1>4. Same(s, t, n)
  BY <1>2, <1>3 DEF Same
<1> QED BY <1>1, <1>4 DEF t, Swapped

Rotate(s, i, j, k) == [s EXCEPT ![i] = s[j], ![j] = s[k], ![k] = s[i]]

Rotated(t, s, n, i, j, k) ==
  /\ t \in Seq(Nat) /\ Len(t) = n /\ Same(s, t, n)
  /\ t[j] = s[k] /\ t[k] = s[i]
  /\ \A p \in 1 .. n : p \notin {i, j, k} => t[p] = s[p]

LEMMA SameRotate ==
  ASSUME NEW s \in Seq(Nat), NEW n \in Nat, Len(s) = n,
         NEW i \in 1 .. n, NEW j \in 1 .. n, NEW k \in 1 .. n, j # k, i # k
  PROVE  Rotated(Rotate(s, i, j, k), s, n, i, j, k)
<1> DEFINE t == Rotate(s, i, j, k)
           f == [p \in 1 .. n |-> IF p = k THEN i ELSE IF p = j THEN k ELSE IF p = i THEN j ELSE p]
           g == [p \in 1 .. n |-> IF p = i THEN k ELSE IF p = k THEN j ELSE IF p = j THEN i ELSE p]
<1>1. /\ t \in Seq(Nat) /\ Len(t) = n /\ t[j] = s[k] /\ t[k] = s[i]
      /\ i # j => t[i] = s[j]
      /\ \A p \in 1 .. n : p \notin {i, j, k} => t[p] = s[p]
  BY DEF Rotate
<1>2. f \in [1 .. n -> 1 .. n] /\ g \in [1 .. n -> 1 .. n]
  OBVIOUS
<1>3. \A p \in 1 .. n : f[g[p]] = p /\ g[f[p]] = p
  <2> SUFFICES ASSUME NEW p \in 1 .. n PROVE f[g[p]] = p /\ g[f[p]] = p
    OBVIOUS
  <2>1. CASE i = j
    BY <2>1
  <2>2. CASE i # j
    BY <2>2
  <2> QED BY <2>1, <2>2
<1>4. \A p \in 1 .. n : t[p] = s[f[p]]
  BY <1>1
<1> HIDE DEF t, f, g
<1>5. Same(s, t, n)
  BY ONLY <1>2, <1>3, <1>4 DEF Same
<1> QED BY <1>1, <1>5 DEF t, Rotated

-----------------------------------------------------------------------------
(* Selection sort. *)

\* Of the items at the positions from i to n there is one that no other goes ahead
\* of, and a first such.
LEMMA FirstOfBest ==
  ASSUME NEW versus \in Versus, NEW s \in Seq(Nat), NEW n \in Nat, Len(s) = n,
         NEW i \in 1 .. n
  PROVE  \E j \in i .. n : /\ \A k \in i .. n : ~Misplaced(s[j], s[k], versus)
                           /\ \A k \in i .. j - 1 : Misplaced(s[k], s[j], versus)
<1> DEFINE Best(j, m) == j \in i .. m /\ \A k \in i .. m : ~Misplaced(s[j], s[k], versus)
           P == {m \in 0 .. n - i : \E j \in i .. i + m : Best(j, i + m)}
<1>0. /\ i \in Nat /\ n - i \in Nat /\ i + (n - i) = n
      /\ \A k \in i .. n : k \in 1 .. n /\ s[k] \in Nat
  OBVIOUS
<1>1. 0 \in P
  <2>1. Best(i, i + 0)
    <3>1. \A k \in i .. i + 0 : k = i
      OBVIOUS
    <3> QED BY <1>0, <3>1, ItemOrder
  <2> QED BY <1>0, <2>1
<1>2. ASSUME NEW m \in 0 .. (n - i) - 1, m \in P
      PROVE  m + 1 \in P
  <2>1. PICK j \in i .. i + m : Best(j, i + m)
    BY <1>2
  <2> DEFINE new == i + (m + 1)
  <2>2. new \in i .. n /\ j \in i .. n /\ j \in i .. new /\ new \in i .. new /\ m + 1 \in 0 .. n - i
    BY <1>0
  <2>3. \A k \in i .. new : k = new \/ k \in i .. i + m
    BY <1>0
  <2>4. \A k \in i .. new : k \in i .. n
    BY <1>0
  <2>5. s[new] \in Nat /\ s[j] \in Nat /\ \A k \in i .. new : s[k] \in Nat
    BY <1>0, <2>2, <2>4
  <2> HIDE DEF new
  <2>6. CASE Misplaced(s[j], s[new], versus)
    <3>1. ASSUME NEW k \in i .. new PROVE ~Misplaced(s[new], s[k], versus)
      <4>1. CASE k = new
        BY <2>5, <4>1, ItemOrder
      <4>2. CASE k # new
        <5>1. ~Misplaced(s[j], s[k], versus)
          BY <2>1, <2>3, <4>2
        <5>2. ~Misplaced(s[new], s[j], versus)
          BY <2>5, <2>6, ItemOrder
        <5> QED BY <2>5, <5>1, <5>2, ItemOrder
      <4> QED BY <4>1, <4>2
    <3>2. Best(new, new)
      BY <2>2, <3>1
    <3> QED BY <2>2, <3>2 DEF new
  <2>7. CASE ~Misplaced(s[j], s[new], versus)
    <3>1. Best(j, new)
      BY <2>1, <2>2, <2>3, <2>7
    <3> QED BY <2>2, <3>1 DEF new
  <2> QED BY <2>6, <2>7
<1>3. n - i \in P
  <2> DEFINE r == n - i
  <2>1. r \in Nat /\ 0 \in P /\ \A m \in 0 .. r - 1 : m \in P => m + 1 \in P
    BY <1>0, <1>1, <1>2
  <2>2. r \in 0 .. r
    BY <1>0
  <2> HIDE DEF P, r
  <2>3. r \in P
    BY <2>1, <2>2, UpTo
  <2> QED BY <2>3 DEF r
<1>4. PICK j0 \in i .. n : Best(j0, n)
  BY <1>0, <1>3
<1> HIDE DEF P
<1> DEFINE B == {j \in i .. n : Best(j, n)}
<1>5. B \in SUBSET Nat /\ B # {}
  BY <1>4
<1>6. PICK j \in B : \A k \in B : j <= k
  <2> HIDE DEF B
  <2> QED BY <1>5, Least
<1>7. ASSUME NEW k \in i .. j - 1
      PROVE  Misplaced(s[k], s[j], versus)
  <2>1. k \in i .. n /\ k < j /\ j \in i .. n
    BY <1>6
  <2>2. k \notin B
    BY <1>6, <2>1
  <2>3. PICK l \in i .. n : Misplaced(s[k], s[l], versus)
    BY <2>1, <2>2
  <2>4. ~Misplaced(s[j], s[l], versus)
    BY <1>6
  <2>5. s[k] \in Nat /\ s[j] \in Nat /\ s[l] \in Nat
    BY <1>0, <2>1
  <2> QED BY <2>3, <2>4, <2>5, ItemOrder
<1> QED BY <1>6, <1>7

LEMMA SelectOne ==
  ASSUME NEW versus \in Versus, NEW s \in Seq(Nat), NEW n \in Nat, Len(s) = n,
         NEW i \in 1 .. n
  PROVE  \E j \in i .. n : /\ Select(s, i, versus) = Swap(s, i, j)
                           /\ \A k \in i .. n : ~Misplaced(s[j], s[k], versus)
<1> DEFINE Chosen(j) == /\ \A k \in i .. n : ~Misplaced(s[j], s[k], versus)
                        /\ \A k \in i .. j - 1 : Misplaced(s[k], s[j], versus)
           toswap == CHOOSE j \in i .. n : Chosen(j)
<1>1. \E j \in i .. n : Chosen(j)
  BY FirstOfBest
<1>2. toswap \in i .. n /\ Chosen(toswap)
  BY <1>1
<1>3. Select(s, i, versus) = Swap(s, i, toswap)
  BY DEF Select
<1> HIDE DEF toswap
<1> QED BY <1>2, <1>3

\* After i rounds the first i positions are in order, and nothing behind them goes
\* ahead of them.
Selected(t, i, n, versus) ==
  \A a \in 1 .. i : \A b \in a .. n : ~Misplaced(t[a], t[b], versus)

LEMMA SelectRound ==
  ASSUME NEW versus \in Versus, NEW s \in Seq(Nat), NEW n \in Nat, Len(s) = n,
         NEW i \in 1 .. n, Selected(s, i - 1, n, versus)
  PROVE  /\ Select(s, i, versus) \in Seq(Nat) /\ Len(Select(s, i, versus)) = n
         /\ Same(s, Select(s, i, versus), n)
         /\ Selected(Select(s, i, versus), i, n, versus)
<1>1. PICK j \in i .. n : /\ Select(s, i, versus) = Swap(s, i, j)
                          /\ \A k \in i .. n : ~Misplaced(s[j], s[k], versus)
  BY SelectOne
<1> DEFINE t == Swap(s, i, j)
<1>2. j \in 1 .. n
  OBVIOUS
<1>3. /\ Same(s, t, n) /\ t \in Seq(Nat) /\ Len(t) = n
      /\ t[i] = s[j] /\ t[j] = s[i]
      /\ \A k \in 1 .. n : k # i /\ k # j => t[k] = s[k]
  <2>1. Swapped(t, s, n, i, j)
    BY <1>2, SameSwap
  <2> QED BY <2>1 DEF Swapped
<1> HIDE DEF t
<1>4. ASSUME NEW b \in i .. n
      PROVE  \E k \in i .. n : t[b] = s[k]
  <2>1. b \in 1 .. n /\ i \in i .. n
    OBVIOUS
  <2>2. CASE b = i
    BY <1>3, <2>2
  <2>3. CASE b = j
    BY <1>3, <2>1, <2>3
  <2>4. CASE b # i /\ b # j
    BY <1>3, <2>1, <2>4
  <2> QED BY <2>2, <2>3, <2>4
<1>5. ASSUME NEW a \in 1 .. i, NEW b \in a .. n
      PROVE  ~Misplaced(t[a], t[b], versus)
  <2>1. CASE a = i
    <3>1. PICK k \in i .. n : t[b] = s[k]
      BY <1>4, <2>1
    <3> QED BY <1>1, <1>3, <2>1, <3>1
  <2>2. CASE a # i
    <3>1. a \in 1 .. i - 1 /\ a \in 1 .. n /\ a # j /\ t[a] = s[a]
      BY <1>3, <2>2
    <3>2. \A k \in a .. n : ~Misplaced(s[a], s[k], versus)
      BY <3>1 DEF Selected
    <3>3. CASE b \in i .. n
      <4>1. PICK k \in i .. n : t[b] = s[k]
        BY <1>4, <3>3
      <4>2. k \in a .. n
        BY <3>1
      <4> QED BY <3>1, <3>2, <4>1, <4>2
    <3>4. CASE b \notin i .. n
      <4>1. b \in 1 .. n /\ b # i /\ b # j
        BY <3>1, <3>4
      <4>2. t[b] = s[b]
        BY <1>3, <4>1
      <4> QED BY <3>1, <3>2, <4>2
    <3> QED BY <3>3, <3>4
  <2> QED BY <2>1, <2>2
<1>6. Selected(t, i, n, versus)
  BY <1>5 DEF Selected
<1> QED BY <1>1, <1>3, <1>6 DEF t

-----------------------------------------------------------------------------
(* Loops, as functions that say what each round starts from.               *)

Runs(w, A, a, n, step) ==
  /\ w \in [0 .. n -> A]
  /\ w[0] = a /\ \A k \in 1 .. n : w[k] = step[<<w[k - 1], k>>]

LEMMA Rounds ==
  ASSUME NEW A, NEW a \in A, NEW n \in Nat, NEW step \in [A \X (1 .. n) -> A]
  PROVE  \E w : Runs(w, A, a, n, step)
<1> DEFINE Run(w, m) == w[0] = a /\ \A k \in 1 .. m : w[k] = step[<<w[k - 1], k>>]
           P == {m \in 0 .. n : \E w \in [0 .. m -> A] : Run(w, m)}
<1>1. 0 \in P
  <2> DEFINE w == [k \in 0 .. 0 |-> a]
  <2>1. w \in [0 .. 0 -> A] /\ w[0] = a
    OBVIOUS
  <2>2. Run(w, 0) /\ 0 \in 0 .. n
    BY <2>1
  <2> HIDE DEF w
  <2> QED BY <2>1, <2>2
<1>2. ASSUME NEW m \in 0 .. n - 1, m \in P
      PROVE  m + 1 \in P
  <2>1. PICK w \in [0 .. m -> A] : Run(w, m)
    BY <1>2
  <2> DEFINE x == step[<<w[m], m + 1>>]
             v == [k \in 0 .. m + 1 |-> IF k <= m THEN w[k] ELSE x]
  <2>2. m \in 0 .. m /\ m + 1 \in 1 .. n /\ m + 1 \in 0 .. n /\ w[m] \in A /\ x \in A
    OBVIOUS
  <2> HIDE DEF x
  <2>3. v \in [0 .. m + 1 -> A] /\ v[m + 1] = x /\ \A k \in 0 .. m : v[k] = w[k]
    BY <2>2
  <2> HIDE DEF v
  <2>4. v[0] = a
    BY <2>1, <2>3
  <2>5. ASSUME NEW k \in 1 .. m + 1 PROVE v[k] = step[<<v[k - 1], k>>]
    <3>1. CASE k = m + 1
      <4>1. k - 1 = m /\ v[k - 1] = w[m]
        BY <2>2, <2>3, <3>1
      <4> QED BY <2>3, <3>1, <4>1 DEF x
    <3>2. CASE k # m + 1
      <4>1. k \in 1 .. m /\ k \in 0 .. m /\ k - 1 \in 0 .. m
        BY <3>2
      <4> QED BY <2>1, <2>3, <4>1
    <3> QED BY <3>1, <3>2
  <2>6. Run(v, m + 1)
    BY <2>4, <2>5
  <2> QED BY <2>2, <2>3, <2>6
<1> HIDE DEF P
<1>3. n \in P
  <2>1. \A m \in 0 .. n - 1 : m \in P => m + 1 \in P
    BY <1>2
  <2> QED BY <1>1, <2>1, UpTo
<1> QED BY <1>3 DEF P, Runs

LEMMA SelectKeeps ==
  ASSUME NEW versus \in Versus, NEW s \in Seq(Nat), NEW n \in Nat, Len(s) = n,
         NEW i \in 1 .. n
  PROVE  Select(s, i, versus) \in Seq(Nat) /\ Len(Select(s, i, versus)) = n
<1>1. PICK j \in i .. n : Select(s, i, versus) = Swap(s, i, j)
  BY SelectOne
<1>2. j \in 1 .. n
  OBVIOUS
<1>3. Swapped(Swap(s, i, j), s, n, i, j)
  BY <1>2, SameSwap
<1> QED BY <1>1, <1>3 DEF Swapped

LEMMA SelectionSorts ==
  ASSUME NEW versus \in Versus, NEW s \in Seq(Nat), NEW n \in Nat, Len(s) = n,
         NEW r, r = list_sort_selectionsort(s, versus)
  PROVE  /\ r \in Seq(Nat) /\ Len(r) = n /\ Same(s, r, n)
         /\ InSequence(r, 1, n, versus)
<1> DEFINE Loop(w) == w = [i \in 0 .. Len(s) |-> IF i = 0 THEN s ELSE Select(w[i - 1], i, versus)]
           t == CHOOSE w : Loop(w)
           A == {x \in Seq(Nat) : Len(x) = n}
           step == [y \in A \X (1 .. n) |-> Select(y[1], y[2], versus)]
<1>1. r = t[n]
  BY DEF list_sort_selectionsort
<1>2. step \in [A \X (1 .. n) -> A]
  <2>1. \A y \in A \X (1 .. n) : Select(y[1], y[2], versus) \in A
    BY SelectKeeps
  <2> QED BY <2>1
<1>3. \A x \in A, i \in 1 .. n : step[<<x, i>>] = Select(x, i, versus)
  OBVIOUS
<1>4. s \in A
  OBVIOUS
<1> HIDE DEF A, step
<1>15. PICK w : Runs(w, A, s, n, step)
  BY <1>2, <1>4, Rounds
<1>5. w \in [0 .. n -> A] /\ w[0] = s /\ \A i \in 1 .. n : w[i] = step[<<w[i - 1], i>>]
  BY <1>15 DEF Runs
<1>6. \A i \in 1 .. n : w[i] = Select(w[i - 1], i, versus)
  <2>1. \A i \in 1 .. n : i - 1 \in 0 .. n
    OBVIOUS
  <2>2. \A i \in 1 .. n : w[i - 1] \in A
    BY <1>5, <2>1
  <2> QED BY <1>3, <1>5, <2>2
<1>7. Loop(w)
  <2>1. w = [i \in 0 .. n |-> w[i]]
    BY <1>5
  <2>2. \A i \in 0 .. n : w[i] = IF i = 0 THEN s ELSE Select(w[i - 1], i, versus)
    <3>1. \A i \in 0 .. n : i # 0 => i \in 1 .. n
      OBVIOUS
    <3> QED BY <1>5, <1>6, <3>1
  <2> QED BY <2>1, <2>2
<1>8. Loop(t)
  BY <1>7
<1> HIDE DEF t
<1>9. t[0] = s /\ \A i \in 1 .. n : t[i] = Select(t[i - 1], i, versus)
  BY <1>8
<1> DEFINE P == {i \in 0 .. n : /\ t[i] \in Seq(Nat) /\ Len(t[i]) = n /\ Same(s, t[i], n)
                                /\ Selected(t[i], i, n, versus)}
<1>10. 0 \in P
  BY <1>9, SameAsItself DEF Selected
<1>11. ASSUME NEW k \in 0 .. n - 1, k \in P
       PROVE  k + 1 \in P
  <2> DEFINE x == t[k]
             i == k + 1
  <2>1. i \in 1 .. n /\ i - 1 = k /\ i \in 0 .. n
    OBVIOUS
  <2>2. x \in Seq(Nat) /\ Len(x) = n /\ Same(s, x, n) /\ Selected(x, i - 1, n, versus)
    BY <1>11, <2>1
  <2>3. t[i] = Select(x, i, versus)
    BY <1>9, <2>1
  <2> HIDE DEF x, i, P
  <2>4. Select(x, i, versus) \in Seq(Nat) /\ Len(Select(x, i, versus)) = n
    BY <2>1, <2>2, SelectRound
  <2>5. Same(x, Select(x, i, versus), n)
    BY <2>1, <2>2, SelectRound
  <2>6. Selected(Select(x, i, versus), i, n, versus)
    BY <2>1, <2>2, SelectRound
  <2>7. Same(s, t[i], n)
    BY <2>2, <2>3, <2>5, SameAgain
  <2>8. i \in P
    BY <2>1, <2>3, <2>4, <2>6, <2>7 DEF P
  <2> QED BY <2>8 DEF i
<1>12. n \in P
  <2>1. n \in 0 .. n /\ \A k \in 0 .. n - 1 : k \in P => k + 1 \in P
    BY <1>11
  <2> HIDE DEF P
  <2> QED BY <1>10, <2>1, UpTo
<1>13. Selected(t[n], n, n, versus) /\ t[n] \in Seq(Nat) /\ Len(t[n]) = n /\ Same(s, t[n], n)
  BY <1>12
<1>14. InSequence(t[n], 1, n, versus)
  <2>1. \A i, j \in 1 .. n : i < j => j \in i .. n
    OBVIOUS
  <2> QED BY <1>13, <2>1 DEF Selected, InSequence
<1> QED BY <1>1, <1>13, <1>14

-----------------------------------------------------------------------------
(* Quicksort: the parts on either side of the pivot. *)

\* What has been passed, on the left of left and on the right of right, is on the
\* right side of the item x.
Passed(t, left, right, x, n, versus) ==
  /\ \A i \in 1 .. left - 1 : ~Misplaced(t[i], x, versus)
  /\ \A i \in right + 1 .. n : ~Misplaced(x, t[i], versus)

Meetings(s, p, n, versus) ==
  {m \in [s : Seq(Nat), left : 1 .. p, right : p .. n] :
     /\ Len(m.s) = n /\ Same(s, m.s, n)
     /\ Passed(m.s, m.left, m.right, m.s[p], n, versus)}

LEMMA ApproachKeeps ==
  ASSUME NEW versus \in Versus, NEW s \in Seq(Nat), NEW n \in Nat, Len(s) = n,
         NEW p \in 1 .. n, NEW m \in Meetings(s, p, n, versus)
  PROVE  /\ Approach(m, p, versus) \in Meetings(s, p, n, versus)
         /\ p \in {m.left, m.right} => Approach(m, p, versus) = m
         /\ p \notin {m.left, m.right} =>
              \/ p \in {Approach(m, p, versus).left, Approach(m, p, versus).right}
              \/ Approach(m, p, versus).right - Approach(m, p, versus).left
                   <= m.right - m.left - 2
<1> DEFINE t == m.s
           left == m.left
           right == m.right
           x == t[p]
           L == {p} \cup {i \in left .. p : Misplaced(t[i], t[p], versus)}
           R == {p} \cup {i \in p .. right : Misplaced(t[p], t[i], versus)}
           l == Min(L)
           r == Max(R)
           q == Approach(m, p, versus)
<1>1. /\ t \in Seq(Nat) /\ Len(t) = n /\ Same(s, t, n)
      /\ left \in 1 .. p /\ right \in p .. n
      /\ Passed(t, left, right, x, n, versus)
      /\ m = [s |-> t, left |-> left, right |-> right]
  BY DEF Meetings
<1>2. ASSUME p \in {left, right} PROVE q = m
  BY <1>2, Zenon DEF Approach
<1>3. ASSUME p \notin {left, right}
      PROVE  /\ q \in Meetings(s, p, n, versus)
             /\ p \in {q.left, q.right} \/ q.right - q.left <= right - left - 2
  <2> HIDE DEF x
  <2>0. \A i \in 1 .. n : t[i] \in Nat
    BY <1>1
  <2>1. x = t[p] /\ x \in Nat
    BY <2>0 DEF x
  <2>2. l \in left .. p /\ l \in L /\ \A i \in left .. l - 1 : ~Misplaced(t[i], x, versus)
    <3>1. L \in SUBSET Nat /\ L # {}
      BY <1>1
    <3>2. l \in L /\ \A i \in L : l <= i
      <4>1. \E i \in L : \A j \in L : i <= j
        <5> HIDE DEF L
        <5> QED BY <3>1, Least
      <4> QED BY <4>1 DEF Min
    <3>3. l \in left .. p
      BY <1>1, <3>2
    <3>4. \A i \in left .. l - 1 : i \in left .. p /\ ~(l <= i)
      <4>1. left \in Nat
        BY <1>1
      <4> HIDE DEF left, l
      <4> QED BY ONLY <3>3, <4>1, p \in 1 .. n, n \in Nat
    <3> QED BY <2>1, <3>2, <3>3, <3>4
  <2>3. r \in p .. right /\ r \in R /\ \A i \in r + 1 .. right : ~Misplaced(x, t[i], versus)
    <3>1. R \in SUBSET (0 .. n) /\ R # {}
      BY <1>1
    <3>2. r \in R /\ \A i \in R : r >= i
      <4> HIDE DEF R
      <4> QED BY <3>1, Greatest
    <3>3. r \in p .. right
      BY <1>1, <3>2
    <3>4. \A i \in r + 1 .. right : i \in p .. right /\ ~(r >= i)
      <4>1. right \in Nat
        BY <1>1
      <4> HIDE DEF right, r
      <4> QED BY ONLY <3>3, <4>1, p \in 1 .. n, n \in Nat
    <3> QED BY <2>1, <3>2, <3>3, <3>4
  <2>4. q = IF p \in {l, r} THEN [s |-> t, left |-> l, right |-> r]
            ELSE [s |-> Swap(t, l, r), left |-> l + 1, right |-> r - 1]
    BY <1>3 DEF Approach
  <2>5. /\ l # p => Misplaced(t[l], x, versus)
        /\ r # p => Misplaced(x, t[r], versus)
    BY <2>1, <2>2, <2>3
  <2> HIDE DEF l, r, L, R, t, left, right, q
  <2>6. Passed(t, l, r, x, n, versus)
    <3>1. \A i \in 1 .. l - 1 : i \in 1 .. left - 1 \/ i \in left .. l - 1
      BY <1>1, <2>2
    <3>2. \A i \in r + 1 .. n : i \in right + 1 .. n \/ i \in r + 1 .. right
      BY <1>1, <2>3
    <3> QED BY <1>1, <2>2, <2>3, <3>1, <3>2 DEF Passed
  <2>7. CASE p \in {l, r}
    <3>1. l \in 1 .. p /\ r \in p .. n
      BY <1>1, <2>2, <2>3
    <3>2. q = [s |-> t, left |-> l, right |-> r]
      BY <2>4, <2>7
    <3>3. Passed(t, l, r, t[p], n, versus)
      BY <2>1, <2>6
    <3>4. q \in Meetings(s, p, n, versus)
      BY <1>1, <3>1, <3>2, <3>3 DEF Meetings
    <3> QED BY <2>7, <3>2, <3>4
  <2>8. CASE p \notin {l, r}
    <3> DEFINE u == Swap(t, l, r)
    <3>1. l \in 1 .. n /\ r \in 1 .. n /\ l + 1 \in 1 .. p /\ r - 1 \in p .. n /\ l < p /\ p < r
      BY <1>1, <2>2, <2>3, <2>8
    <3>14. t \in Seq(Nat) /\ Len(t) = n
      BY <1>1
    <3>2. /\ Same(t, u, n) /\ u \in Seq(Nat) /\ Len(u) = n /\ u[l] = t[r] /\ u[r] = t[l]
          /\ \A k \in 1 .. n : k # l /\ k # r => u[k] = t[k]
      <4>1. Swapped(u, t, n, l, r)
        BY <3>1, <3>14, SameSwap
      <4> QED BY <4>1 DEF Swapped
    <3>3. \A k \in 1 .. n : k # l /\ k # r => u[k] = t[k]
      BY <3>2
    <3> HIDE DEF u
    <3>4. u[p] = x
      BY <2>1, <2>8, <3>3
    <3>5. Misplaced(t[l], x, versus) /\ Misplaced(x, t[r], versus)
      BY <2>5, <2>8
    <3>6. ~Misplaced(u[l], x, versus) /\ ~Misplaced(x, u[r], versus)
      <4>1. t[l] \in Nat /\ t[r] \in Nat
        BY <2>0, <3>1
      <4>2. ~Misplaced(x, t[l], versus) /\ ~Misplaced(t[r], x, versus)
        BY <2>1, <3>5, <4>1, ItemOrder
      <4> QED BY <3>2, <4>2
    <3>7. \A i \in 1 .. (l + 1) - 1 : ~Misplaced(u[i], x, versus)
      <4>1. \A i \in 1 .. (l + 1) - 1 : i = l \/ (i \in 1 .. l - 1 /\ i # l /\ i # r /\ i \in 1 .. n)
        BY <3>1
      <4> QED BY <2>6, <3>3, <3>6, <4>1 DEF Passed
    <3>8. \A i \in (r - 1) + 1 .. n : ~Misplaced(x, u[i], versus)
      <4>1. \A i \in (r - 1) + 1 .. n : i = r \/ (i \in r + 1 .. n /\ i # l /\ i # r /\ i \in 1 .. n)
        BY <3>1
      <4> QED BY <2>6, <3>3, <3>6, <4>1 DEF Passed
    <3>9. Passed(u, l + 1, r - 1, u[p], n, versus)
      BY <3>4, <3>7, <3>8 DEF Passed
    <3>10. Same(s, u, n)
      BY <1>1, <3>2, SameAgain
    <3>11. q = [s |-> u, left |-> l + 1, right |-> r - 1]
      BY <2>4, <2>8 DEF u
    <3>12. q \in Meetings(s, p, n, versus)
      BY <3>1, <3>2, <3>9, <3>10, <3>11 DEF Meetings
    <3>13. (r - 1) - (l + 1) <= right - left - 2
      BY <1>1, <2>2, <2>3
    <3> QED BY <3>11, <3>12, <3>13
  <2> QED BY <2>7, <2>8
<1>4. CASE p \notin {left, right}
  BY <1>3, <1>4
<1> QED BY <1>2, <1>4

LEMMA MeetParts ==
  ASSUME NEW versus \in Versus, NEW s \in Seq(Nat), NEW n \in Nat, Len(s) = n,
         NEW p \in 1 .. n, NEW met, met = Meet(s, p, versus)
  PROVE  met \in Meetings(s, p, n, versus) /\ p \in {met.left, met.right}
<1> DEFINE a == [s |-> s, left |-> 1, right |-> Len(s)]
           Loop(w) == w = [k \in 0 .. Len(s) |-> IF k = 0 THEN a ELSE Approach(w[k - 1], p, versus)]
           m == CHOOSE w : Loop(w)
           A == Meetings(s, p, n, versus)
           step == [y \in A \X (1 .. n) |-> Approach(y[1], p, versus)]
<1>1. met = m[n]
  BY DEF Meet
<1>2. step \in [A \X (1 .. n) -> A]
  <2>1. \A x \in A : Approach(x, p, versus) \in A
    BY ApproachKeeps
  <2> HIDE DEF A
  <2> QED BY <2>1
<1>3. \A x \in A, k \in 1 .. n : step[<<x, k>>] = Approach(x, p, versus)
  OBVIOUS
<1>4. a \in A
  <2>1. Same(s, s, n)
    BY SameAsItself
  <2>2. a.s = s /\ a.left = 1 /\ a.right = n
    OBVIOUS
  <2>3. a \in [s : Seq(Nat), left : 1 .. p, right : p .. n]
    OBVIOUS
  <2> HIDE DEF a
  <2>4. Passed(a.s, a.left, a.right, a.s[p], n, versus)
    BY <2>2 DEF Passed
  <2> QED BY <2>1, <2>2, <2>3, <2>4 DEF Meetings
<1> HIDE DEF A, step
<1>5. PICK w : Runs(w, A, a, n, step)
  <2> HIDE DEF a
  <2> QED BY <1>2, <1>4, Rounds
<1>6. w \in [0 .. n -> A] /\ w[0] = a /\ \A k \in 1 .. n : w[k] = step[<<w[k - 1], k>>]
  BY <1>5 DEF Runs
<1> HIDE DEF a
<1>7. \A k \in 1 .. n : w[k] = Approach(w[k - 1], p, versus)
  <2>1. \A k \in 1 .. n : k - 1 \in 0 .. n
    OBVIOUS
  <2>2. \A k \in 1 .. n : w[k - 1] \in A
    BY <1>6, <2>1
  <2> QED BY <1>3, <1>6, <2>2
<1>8. Loop(w)
  <2>1. w = [k \in 0 .. n |-> w[k]]
    BY <1>6
  <2>2. \A k \in 0 .. n : w[k] = IF k = 0 THEN a ELSE Approach(w[k - 1], p, versus)
    <3>1. \A k \in 0 .. n : k # 0 => k \in 1 .. n
      OBVIOUS
    <3> QED BY <1>6, <1>7, <3>1
  <2> QED BY <2>1, <2>2
<1>9. Loop(m)
  BY <1>8
<1> HIDE DEF m
<1>10. m[0] = a /\ \A k \in 1 .. n : m[k] = Approach(m[k - 1], p, versus)
  BY <1>9
<1> DEFINE P == {k \in 0 .. n : /\ m[k] \in A
                                /\ p \in {m[k].left, m[k].right}
                                     \/ m[k].right - m[k].left <= n - 1 - 2 * k}
<1>11. 0 \in P
  <2>1. a.left = 1 /\ a.right = n
    BY DEF a
  <2> QED BY <1>4, <1>10, <2>1
<1>12. ASSUME NEW k \in 0 .. n - 1, k \in P
       PROVE  k + 1 \in P
  <2> DEFINE x == m[k]
             y == m[k + 1]
  <2>1. k + 1 \in 1 .. n /\ (k + 1) - 1 = k /\ k + 1 \in 0 .. n
    OBVIOUS
  <2>2. y = Approach(x, p, versus)
    BY <1>10, <2>1
  <2>3. x \in Meetings(s, p, n, versus)
    BY <1>12 DEF A
  <2>4. p \in {x.left, x.right} \/ x.right - x.left <= n - 1 - 2 * k
    BY <1>12
  <2> HIDE DEF x, y
  <2>5. y \in Meetings(s, p, n, versus)
    BY <2>2, <2>3, ApproachKeeps
  <2>6. p \in {x.left, x.right} => y = x
    BY <2>2, <2>3, ApproachKeeps
  <2>7. p \notin {x.left, x.right} =>
          p \in {y.left, y.right} \/ y.right - y.left <= x.right - x.left - 2
    BY <2>2, <2>3, ApproachKeeps
  <2>8. /\ x.left \in Int /\ x.right \in Int /\ y.left \in Int /\ y.right \in Int
    BY <2>3, <2>5 DEF Meetings
  <2>9. p \in {y.left, y.right} \/ y.right - y.left <= n - 1 - 2 * (k + 1)
    <3>1. CASE p \in {x.left, x.right}
      BY <2>6, <3>1
    <3>2. CASE p \notin {x.left, x.right}
      <4>1. x.right - x.left <= n - 1 - 2 * k
        BY <2>4, <3>2
      <4>2. p \in {y.left, y.right} \/ y.right - y.left <= x.right - x.left - 2
        BY <2>7, <3>2
      <4>3. CASE y.right - y.left <= x.right - x.left - 2
        BY ONLY <2>8, <4>1, <4>3, n \in Nat, k \in 0 .. n - 1
      <4> QED BY <4>2, <4>3
    <3> QED BY <3>1, <3>2
  <2> QED BY <2>1, <2>5, <2>9 DEF y, A
<1>13. n \in P
  <2>1. n \in 0 .. n /\ \A k \in 0 .. n - 1 : k \in P => k + 1 \in P
    BY <1>12
  <2> HIDE DEF P
  <2> QED BY <1>11, <2>1, UpTo
<1>14. met \in Meetings(s, p, n, versus)
  BY <1>1, <1>13 DEF A
<1>15. p \in {met.left, met.right} \/ met.right - met.left <= n - 1 - 2 * n
  BY <1>1, <1>13
<1>16. met.left \in 1 .. p /\ met.right \in p .. n
  BY <1>14 DEF Meetings
<1>17. ~(met.right - met.left <= n - 1 - 2 * n)
  <2> DEFINE l == met.left
             r == met.right
  <2>1. l \in 1 .. p /\ r \in p .. n
    BY <1>16
  <2> HIDE DEF l, r
  <2>2. ~(r - l <= n - 1 - 2 * n)
    BY <2>1
  <2> QED BY <2>2 DEF l, r
<1> QED BY <1>14, <1>15, <1>17

\* One end is at the pivot.  With the step -1 it is the right one, otherwise the left.
Gatherings(s, n, d, versus) ==
  {g \in [s : Seq(Nat), end : 1 .. n, pivot : 1 .. n] :
     /\ Len(g.s) = n /\ Same(s, g.s, n)
     /\ d = -1 => /\ g.end <= g.pivot
                  /\ Passed(g.s, g.end, g.pivot, g.s[g.pivot], n, versus)
     /\ d = 1 => /\ g.pivot <= g.end
                 /\ Passed(g.s, g.pivot, g.end, g.s[g.pivot], n, versus)}

Distance(g, d) == IF d = 1 THEN g.end - g.pivot ELSE g.pivot - g.end

LEMMA GatherKeeps ==
  ASSUME NEW versus \in Versus, NEW s \in Seq(Nat), NEW n \in Nat, Len(s) = n,
         NEW d \in {-1, 1}, NEW g \in Gatherings(s, n, d, versus),
         NEW h, h = GatherOne(g, d, versus)
  PROVE  /\ h \in Gatherings(s, n, d, versus)
         /\ Distance(g, d) \in Nat
         /\ Distance(g, d) = 0 => h = g
         /\ Distance(g, d) # 0 => Distance(h, d) = Distance(g, d) - 1
<1> DEFINE t == g.s
           e == g.end
           p == g.pivot
           x == t[p]
<1>1. /\ t \in Seq(Nat) /\ Len(t) = n /\ Same(s, t, n) /\ e \in 1 .. n /\ p \in 1 .. n
      /\ g = [s |-> t, end |-> e, pivot |-> p]
      /\ d = -1 => e <= p /\ Passed(t, e, p, x, n, versus)
      /\ d = 1 => p <= e /\ Passed(t, p, e, x, n, versus)
  BY DEF Gatherings
<1>2. Distance(g, d) = IF d = 1 THEN e - p ELSE p - e
  BY DEF Distance
<1>3. h = IF e = p THEN g
          ELSE IF Wrong(t, e, p, d, versus) THEN Jump(g, d)
          ELSE [s |-> t, end |-> e - d, pivot |-> p]
  BY <1>1 DEF GatherOne
<1> HIDE DEF t, e, p, x
<1>0. x = t[p] /\ x \in Nat /\ \A i \in 1 .. n : t[i] \in Nat
  <2>1. t \in Seq(Nat) /\ Len(t) = n /\ p \in 1 .. n
    BY <1>1
  <2>2. \A i \in 1 .. n : t[i] \in Nat
    BY ONLY <2>1
  <2>3. x = t[p]
    BY DEF x
  <2> QED BY <2>1, <2>2, <2>3
<1>4. Distance(g, d) \in Nat /\ (Distance(g, d) = 0 <=> e = p)
  <2>1. e \in 1 .. n /\ p \in 1 .. n /\ (d = -1 => e <= p) /\ (d = 1 => p <= e)
    BY <1>1
  <2>2. CASE d = 1
    BY ONLY <2>1, <2>2, <1>2, n \in Nat
  <2>3. CASE d = -1
    BY ONLY <2>1, <2>3, <1>2, n \in Nat
  <2> QED BY <2>2, <2>3
<1>5. CASE e = p
  BY <1>3, <1>4, <1>5
<1>6. ASSUME e # p, Wrong(t, e, p, d, versus)
      PROVE  h \in Gatherings(s, n, d, versus) /\ Distance(h, d) = Distance(g, d) - 1
  <2> DEFINE q == p + d
             u == Rotate(t, e, q, p)
  <2>1. q \in 1 .. n /\ (d = -1 => e <= q) /\ (d = 1 => q <= e) /\ q # p
    BY <1>1, <1>6
  <2>9. Jump(g, d) = [s |-> u, end |-> e, pivot |-> q]
    <3>1. g.s = t /\ g.end = e /\ g.pivot = p
      BY DEF t, e, p
    <3> QED BY <3>1 DEF Jump, Rotate
  <2>2. /\ u \in Seq(Nat) /\ Len(u) = n /\ Same(t, u, n) /\ u[q] = t[p] /\ u[p] = t[e]
        /\ \A i \in 1 .. n : i \notin {e, q, p} => u[i] = t[i]
    <3> HIDE DEF q
    <3>1. t \in Seq(Nat) /\ Len(t) = n /\ e \in 1 .. n /\ p \in 1 .. n /\ e # p
      BY <1>1, <1>6
    <3>2. Rotated(u, t, n, e, q, p)
      BY <2>1, <3>1, SameRotate
    <3> QED BY <3>2 DEF Rotated
  <2>3. \A i \in 1 .. n : i \notin {e, q, p} => u[i] = t[i]
    BY <2>2
  <2> HIDE DEF u, q
  <2>4. h = [s |-> u, end |-> e, pivot |-> q]
    BY <1>3, <1>6, <2>9
  <2>5. Same(s, u, n)
    BY <1>1, <2>2, SameAgain
  <2>6. u[q] = x
    BY <1>0, <2>2
  <2>7. CASE d = -1
    <3>1. q = p - 1 /\ e <= q /\ e < p
      BY <2>1, <2>7, <1>1, <1>6 DEF q
    <3>2. ~Misplaced(x, u[p], versus)
      <4>1. Misplaced(t[e], x, versus)
        BY <1>0, <1>6, <2>7 DEF Wrong
      <4> QED BY <1>0, <1>1, <2>2, <4>1, ItemOrder
    <3>3. \A i \in 1 .. e - 1 : ~Misplaced(u[i], x, versus)
      <4>1. \A i \in 1 .. e - 1 : i \in 1 .. n /\ i \notin {e, q, p}
        BY <1>1, <3>1
      <4> QED BY <1>1, <2>3, <2>7, <4>1 DEF Passed
    <3>4. \A i \in q + 1 .. n : ~Misplaced(x, u[i], versus)
      <4>1. \A i \in q + 1 .. n : i = p \/ (i \in 1 .. n /\ i \notin {e, q, p} /\ i \in p + 1 .. n)
        BY <1>1, <2>1, <3>1
      <4> QED BY <1>1, <2>3, <2>7, <3>2, <4>1 DEF Passed
    <3>5. Passed(u, e, q, u[q], n, versus)
      BY <2>6, <3>3, <3>4 DEF Passed
    <3>6. h \in Gatherings(s, n, d, versus)
      BY <1>1, <2>1, <2>2, <2>4, <2>5, <2>7, <3>5, d # 1 DEF Gatherings
    <3>7. Distance(h, d) = Distance(g, d) - 1
      <4>1. Distance(h, d) = q - e /\ Distance(g, d) = p - e
        BY <1>2, <2>4, <2>7 DEF Distance
      <4> QED BY <1>1, <3>1, <4>1
    <3> QED BY <3>6, <3>7
  <2>8. CASE d = 1
    <3>1. q = p + 1 /\ q <= e /\ p < e
      BY <2>1, <2>8, <1>1, <1>6 DEF q
    <3>2. ~Misplaced(u[p], x, versus)
      <4>1. Misplaced(x, t[e], versus)
        BY <1>0, <1>6, <2>8 DEF Wrong
      <4> QED BY <1>0, <1>1, <2>2, <4>1, ItemOrder
    <3>3. \A i \in e + 1 .. n : ~Misplaced(x, u[i], versus)
      <4>1. \A i \in e + 1 .. n : i \in 1 .. n /\ i \notin {e, q, p}
        BY <1>1, <3>1
      <4> QED BY <1>1, <2>3, <2>8, <4>1 DEF Passed
    <3>4. \A i \in 1 .. q - 1 : ~Misplaced(u[i], x, versus)
      <4>1. \A i \in 1 .. q - 1 : i = p \/ (i \in 1 .. n /\ i \notin {e, q, p} /\ i \in 1 .. p - 1)
        BY <1>1, <2>1, <3>1
      <4> QED BY <1>1, <2>3, <2>8, <3>2, <4>1 DEF Passed
    <3>5. Passed(u, q, e, u[q], n, versus)
      BY <2>6, <3>3, <3>4 DEF Passed
    <3>6. h \in Gatherings(s, n, d, versus)
      BY <1>1, <2>1, <2>2, <2>4, <2>5, <2>8, <3>5, d # -1 DEF Gatherings
    <3>7. Distance(h, d) = Distance(g, d) - 1
      <4>1. Distance(h, d) = e - q /\ Distance(g, d) = e - p
        BY <1>2, <2>4, <2>8 DEF Distance
      <4> QED BY <1>1, <3>1, <4>1
    <3> QED BY <3>6, <3>7
  <2> QED BY <2>7, <2>8
<1>7. ASSUME e # p, ~Wrong(t, e, p, d, versus)
      PROVE  h \in Gatherings(s, n, d, versus) /\ Distance(h, d) = Distance(g, d) - 1
  <2> DEFINE f == e - d
  <2>1. f \in 1 .. n /\ (d = -1 => f <= p) /\ (d = 1 => p <= f)
    BY <1>1, <1>7
  <2>2. h = [s |-> t, end |-> f, pivot |-> p]
    BY <1>3, <1>7
  <2>3. d = -1 => Passed(t, f, p, t[p], n, versus)
    <3> SUFFICES ASSUME d = -1 PROVE Passed(t, f, p, t[p], n, versus)
      OBVIOUS
    <3>1. ~Misplaced(t[e], x, versus)
      BY <1>0, <1>7 DEF Wrong
    <3>2. \A i \in 1 .. f - 1 : i = e \/ i \in 1 .. e - 1
      BY <1>1
    <3> QED BY <1>0, <1>1, <3>1, <3>2 DEF Passed
  <2>4. d = 1 => Passed(t, p, f, t[p], n, versus)
    <3> SUFFICES ASSUME d = 1 PROVE Passed(t, p, f, t[p], n, versus)
      OBVIOUS
    <3>1. ~Misplaced(x, t[e], versus)
      BY <1>0, <1>7 DEF Wrong
    <3>2. \A i \in f + 1 .. n : i = e \/ i \in e + 1 .. n
      BY <1>1
    <3> QED BY <1>0, <1>1, <3>1, <3>2 DEF Passed
  <2>5. Distance(h, d) = IF d = 1 THEN f - p ELSE p - f
    BY <2>2 DEF Distance
  <2>6. Distance(h, d) = Distance(g, d) - 1
    BY <1>1, <1>2, <2>5
  <2> HIDE DEF f
  <2>7. h \in Gatherings(s, n, d, versus)
    BY <1>1, <2>1, <2>2, <2>3, <2>4 DEF Gatherings
  <2> QED BY <2>6, <2>7
<1> QED BY <1>4, <1>5, <1>6, <1>7

LEMMA GatherParts ==
  ASSUME NEW versus \in Versus, NEW s \in Seq(Nat), NEW n \in Nat, Len(s) = n,
         NEW d \in {-1, 1}, NEW t, NEW e, NEW p, Len(t) = n,
         NEW a, a = [s |-> t, end |-> e, pivot |-> p], a \in Gatherings(s, n, d, versus),
         NEW last, last = Gather(t, e, p, d, versus)
  PROVE  last \in Gatherings(s, n, d, versus) /\ Distance(last, d) = 0
<1> DEFINE Loop(w) == w = [k \in 0 .. Len(t) |->
                             IF k = 0 THEN [s |-> t, end |-> e, pivot |-> p]
                                      ELSE GatherOne(w[k - 1], d, versus)]
           g == CHOOSE w : Loop(w)
           A == Gatherings(s, n, d, versus)
           step == [y \in A \X (1 .. n) |-> GatherOne(y[1], d, versus)]
<1>1. last = g[n]
  BY DEF Gather
<1>2. step \in [A \X (1 .. n) -> A]
  <2>1. \A x \in A : GatherOne(x, d, versus) \in A
    BY GatherKeeps
  <2> HIDE DEF A
  <2> QED BY <2>1
<1>3. \A x \in A, k \in 1 .. n : step[<<x, k>>] = GatherOne(x, d, versus)
  OBVIOUS
<1> HIDE DEF A, step
<1>4. a \in A
  BY DEF A
<1>5. PICK w : Runs(w, A, a, n, step)
  BY <1>2, <1>4, Rounds
<1>6. w \in [0 .. n -> A] /\ w[0] = a /\ \A k \in 1 .. n : w[k] = step[<<w[k - 1], k>>]
  BY <1>5 DEF Runs
<1>7. \A k \in 1 .. n : w[k] = GatherOne(w[k - 1], d, versus)
  <2>1. \A k \in 1 .. n : k - 1 \in 0 .. n
    OBVIOUS
  <2>2. \A k \in 1 .. n : w[k - 1] \in A
    BY <1>6, <2>1
  <2> QED BY <1>3, <1>6, <2>2
<1>8. Loop(w)
  <2>1. w = [k \in 0 .. n |-> w[k]]
    BY <1>6
  <2>2. \A k \in 0 .. n : w[k] = IF k = 0 THEN [s |-> t, end |-> e, pivot |-> p]
                                          ELSE GatherOne(w[k - 1], d, versus)
    <3>1. \A k \in 0 .. n : k # 0 => k \in 1 .. n
      OBVIOUS
    <3> QED BY <1>6, <1>7, <3>1
  <2> QED BY <2>1, <2>2
<1>9. Loop(g)
  BY <1>8
<1> HIDE DEF g
<1>10. g[0] = a /\ \A k \in 1 .. n : g[k] = GatherOne(g[k - 1], d, versus)
  BY <1>9
<1> DEFINE P == {k \in 0 .. n : g[k] \in A /\ Distance(g[k], d) \in Nat
                                /\ Distance(g[k], d) <= n - k}
<1>11. 0 \in P
  <2>1. Distance(a, d) \in Nat
    BY GatherKeeps
  <2>2. a.end \in 1 .. n /\ a.pivot \in 1 .. n
    BY DEF Gatherings
  <2>3. Distance(a, d) <= n
    BY <2>2 DEF Distance
  <2> QED BY <1>4, <1>10, <2>1, <2>3
<1>12. ASSUME NEW k \in 0 .. n - 1, k \in P
       PROVE  k + 1 \in P
  <2> DEFINE x == g[k]
             y == g[k + 1]
  <2>1. k + 1 \in 1 .. n /\ (k + 1) - 1 = k /\ k + 1 \in 0 .. n
    OBVIOUS
  <2>2. y = GatherOne(x, d, versus)
    BY <1>10, <2>1
  <2>3. x \in Gatherings(s, n, d, versus) /\ Distance(x, d) \in Nat /\ Distance(x, d) <= n - k
    BY <1>12 DEF A
  <2> HIDE DEF x, y
  <2>4. y \in Gatherings(s, n, d, versus)
    BY <2>2, <2>3, GatherKeeps
  <2>5. Distance(x, d) = 0 => y = x
    BY <2>2, <2>3, GatherKeeps
  <2>6. Distance(x, d) # 0 => Distance(y, d) = Distance(x, d) - 1
    BY <2>2, <2>3, GatherKeeps
  <2>7. Distance(y, d) \in Nat /\ Distance(y, d) <= n - (k + 1)
    BY <2>3, <2>5, <2>6
  <2> QED BY <2>1, <2>4, <2>7 DEF y, A
<1>13. n \in P
  <2>1. n \in 0 .. n /\ \A k \in 0 .. n - 1 : k \in P => k + 1 \in P
    BY <1>12
  <2> HIDE DEF P
  <2> QED BY <1>11, <2>1, UpTo
<1>14. last \in A /\ Distance(last, d) \in Nat /\ Distance(last, d) <= n - n
  BY <1>1, <1>13
<1>15. n - n = 0
  OBVIOUS
<1> QED BY <1>14, <1>15 DEF A

\* The pivot has come between what belongs before it and what belongs behind it.
LEMMA SplitParts ==
  ASSUME NEW versus \in Versus, NEW s \in Seq(Nat), NEW n \in Nat, Len(s) = n,
         NEW p \in 1 .. n, NEW split, split = Split(s, p, versus)
  PROVE  /\ split.s \in Seq(Nat) /\ Len(split.s) = n /\ Same(s, split.s, n)
         /\ split.pivot \in 1 .. n
         /\ Passed(split.s, split.pivot, split.pivot, split.s[split.pivot], n, versus)
<1> DEFINE met == Meet(s, p, versus)
           d == IF met.right = p THEN -1 ELSE 1
           t == met.s
           e == IF met.right = p THEN met.left ELSE met.right
           a == [s |-> t, end |-> e, pivot |-> p]
<1>1. split = Gather(t, e, p, d, versus)
  BY DEF Split
<1>2. met \in Meetings(s, p, n, versus) /\ p \in {met.left, met.right}
  BY MeetParts
<1> HIDE DEF met
<1>3. /\ t \in Seq(Nat) /\ Len(t) = n /\ Same(s, t, n)
      /\ met.left \in 1 .. p /\ met.right \in p .. n
      /\ Passed(t, met.left, met.right, t[p], n, versus)
  BY <1>2 DEF Meetings
<1>4. d \in {-1, 1} /\ e \in 1 .. n
  BY <1>3
<1>5. d = -1 => e <= p /\ Passed(t, e, p, t[p], n, versus)
  BY <1>3
<1>6. d = 1 => p <= e /\ Passed(t, p, e, t[p], n, versus)
  BY <1>2, <1>3
<1> HIDE DEF t, e, d
<1>7. a \in Gatherings(s, n, d, versus)
  BY <1>3, <1>4, <1>5, <1>6 DEF Gatherings
<1> HIDE DEF a
<1>8. split \in Gatherings(s, n, d, versus) /\ Distance(split, d) = 0
  <2>1. a = [s |-> t, end |-> e, pivot |-> p]
    BY DEF a
  <2> QED BY <1>1, <1>3, <1>4, <1>7, <2>1, GatherParts
<1>9. /\ split.s \in Seq(Nat) /\ Len(split.s) = n /\ Same(s, split.s, n)
      /\ split.pivot \in 1 .. n /\ split.end \in 1 .. n
  BY <1>8 DEF Gatherings
<1>10. split.end = split.pivot
  BY <1>4, <1>8, <1>9 DEF Distance
<1>11. Passed(split.s, split.pivot, split.pivot, split.s[split.pivot], n, versus)
  BY <1>4, <1>8, <1>10 DEF Gatherings
<1> QED BY <1>9, <1>11

-----------------------------------------------------------------------------
(* Parts of sequences. *)

\* Parts of sequences and sequences joined, with their lengths as numbers.
LEMMA PartOf ==
  ASSUME NEW S, NEW s \in Seq(S), NEW i \in Nat, NEW m \in Nat, i + m <= Len(s)
  PROVE  /\ SubSeq(s, i + 1, i + m) \in Seq(S)
         /\ Len(SubSeq(s, i + 1, i + m)) = m
         /\ \A k \in 1 .. m : SubSeq(s, i + 1, i + m)[k] = s[i + k]
<1> DEFINE a == SubSeq(s, i + 1, i + m)
<1>1. Len(s) \in Nat /\ i + 1 \in Int /\ i + m \in Int
  OBVIOUS
<1>2. \A k \in i + 1 .. i + m : k \in 1 .. Len(s) /\ s[k] \in S
  BY <1>1
<1>3. /\ a \in Seq(S)
      /\ Len(a) = IF i + 1 <= i + m THEN i + m - (i + 1) + 1 ELSE 0
      /\ \A k \in 1 .. i + m - (i + 1) + 1 : a[k] = s[(i + 1) + k - 1]
  <2>1. \A k \in i + 1 .. i + m : s[k] \in S
    BY <1>2
  <2> QED BY ONLY <1>1, <2>1, SubSeqProperties
<1> HIDE DEF a
<1>4. i + m - (i + 1) + 1 = m /\ (i + 1 <= i + m <=> m > 0)
  OBVIOUS
<1>5. \A k \in 1 .. m : (i + 1) + k - 1 = i + k
  OBVIOUS
<1>6. Len(a) = m
  BY <1>3, <1>4
<1>7. \A k \in 1 .. m : a[k] = s[i + k]
  BY <1>3, <1>4, <1>5
<1> QED BY <1>3, <1>6, <1>7 DEF a

LEMMA FirstPart ==
  ASSUME NEW S, NEW s \in Seq(S), NEW m \in 0 .. Len(s)
  PROVE  /\ SubSeq(s, 1, m) \in Seq(S)
         /\ Len(SubSeq(s, 1, m)) = m
         /\ \A k \in 1 .. m : SubSeq(s, 1, m)[k] = s[k]
<1>1. 0 + 1 = 1 /\ 0 + m = m /\ 0 + m <= Len(s) /\ m \in Nat /\ \A k \in 1 .. m : 0 + k = k
  OBVIOUS
<1>2. /\ SubSeq(s, 0 + 1, 0 + m) \in Seq(S)
      /\ Len(SubSeq(s, 0 + 1, 0 + m)) = m
      /\ \A k \in 1 .. m : SubSeq(s, 0 + 1, 0 + m)[k] = s[0 + k]
  BY <1>1, PartOf
<1> QED BY <1>1, <1>2

LEMMA LastPart ==
  ASSUME NEW S, NEW s \in Seq(S), NEW i \in 0 .. Len(s)
  PROVE  /\ SubSeq(s, i + 1, Len(s)) \in Seq(S)
         /\ Len(SubSeq(s, i + 1, Len(s))) = Len(s) - i
         /\ \A k \in 1 .. Len(s) - i : SubSeq(s, i + 1, Len(s))[k] = s[i + k]
<1> DEFINE m == Len(s) - i
<1>1. m \in Nat /\ i \in Nat /\ i + m = Len(s) /\ i + m <= Len(s)
  OBVIOUS
<1>2. /\ SubSeq(s, i + 1, i + m) \in Seq(S)
      /\ Len(SubSeq(s, i + 1, i + m)) = m
      /\ \A k \in 1 .. m : SubSeq(s, i + 1, i + m)[k] = s[i + k]
  <2> HIDE DEF m
  <2> QED BY <1>1, PartOf
<1> QED BY <1>1, <1>2

EndToEnd(c, S, a, b, m, r) ==
  /\ c \in Seq(S) /\ Len(c) = m + r
  /\ \A i \in 1 .. m + r : c[i] = IF i <= m THEN a[i] ELSE b[i - m]

LEMMA Joined ==
  ASSUME NEW S, NEW a \in Seq(S), NEW b \in Seq(S), NEW m \in Nat, NEW r \in Nat,
         Len(a) = m, Len(b) = r, NEW c, c = a \o b
  PROVE  EndToEnd(c, S, a, b, m, r)
<1>1. a \o b \in Seq(S)
  BY ConcatProperties
<1>2. Len(a \o b) = m + r
  BY ConcatProperties
<1>3. \A i \in 1 .. m + r : (a \o b)[i] = IF i <= m THEN a[i] ELSE b[i - m]
  BY ConcatProperties
<1> QED BY <1>1, <1>2, <1>3 DEF EndToEnd

LEMMA DataAreNumbers ==
  ASSUME NEW s \in Seq(Data)
  PROVE  s \in Seq(Nat)
<1>1. Data \subseteq Nat
  BY SimcListAssumption
<1>4. \A i \in 1 .. Len(s) : s[i] \in Data
  OBVIOUS
<1>2. \A i \in 1 .. Len(s) : s[i] \in Nat
  BY <1>1, <1>4
<1>3. s = [i \in 1 .. Len(s) |-> s[i]] /\ Len(s) \in Nat
  OBVIOUS
<1> QED BY <1>2, <1>3

LEMMA SameAreData ==
  ASSUME NEW s \in Seq(Data), NEW n \in Nat, Len(s) = n,
         NEW t \in Seq(Nat), Len(t) = n, Same(s, t, n)
  PROVE  t \in Seq(Data)
<1>1. ASSUME NEW i \in 1 .. n PROVE t[i] \in Data
  <2>1. PICK j \in 1 .. n : t[i] = s[j]
    BY ONLY n \in Nat, Same(s, t, n), i \in 1 .. n, SameValues
  <2>2. s[j] \in Data
    OBVIOUS
  <2> QED BY <2>1, <2>2
<1>2. t = [i \in 1 .. n |-> t[i]]
  OBVIOUS
<1> QED BY ONLY <1>1, <1>2, n \in Nat

\* Two sequences with an item between them, at q.
Around(r, S, a, x, b, q, n) ==
  /\ r \in Seq(S) /\ Len(r) = n
  /\ \A i \in 1 .. n : r[i] = IF i < q THEN a[i] ELSE IF i = q THEN x ELSE b[i - q]

LEMMA JoinedThree ==
  ASSUME NEW S, NEW a \in Seq(S), NEW x \in S, NEW b \in Seq(S), NEW q \in Nat, NEW n \in Nat,
         q >= 1, q <= n, Len(a) = q - 1, Len(b) = n - q,
         NEW r, r = a \o <<x>> \o b
  PROVE  Around(r, S, a, x, b, q, n)
<1> DEFINE m == q - 1
           k == n - q
           one == <<x>>
           c == a \o one
<1>1. m \in Nat /\ k \in Nat /\ one \in Seq(S) /\ Len(one) = 1 /\ one[1] = x
  OBVIOUS
<1>2. Len(a) = m /\ Len(b) = k /\ m + 1 = q /\ q + k = n
  OBVIOUS
<1> HIDE DEF m, k, one
<1>3. /\ c \in Seq(S) /\ Len(c) = q
      /\ \A i \in 1 .. q : c[i] = IF i <= m THEN a[i] ELSE one[i - m]
  <2>1. EndToEnd(c, S, a, one, m, 1)
    BY <1>1, <1>2, Joined
  <2> HIDE DEF c
  <2> QED BY <1>2, <2>1 DEF EndToEnd
<1> HIDE DEF c
<1>4. r = c \o b
  BY DEF c, one
<1>5. /\ r \in Seq(S) /\ Len(r) = n
      /\ \A i \in 1 .. n : r[i] = IF i <= q THEN c[i] ELSE b[i - q]
  <2>1. EndToEnd(r, S, c, b, q, k)
    BY <1>1, <1>2, <1>3, <1>4, Joined
  <2> QED BY <1>2, <2>1 DEF EndToEnd
<1>6. ASSUME NEW i \in 1 .. n
      PROVE  r[i] = IF i < q THEN a[i] ELSE IF i = q THEN x ELSE b[i - q]
  <2>2. r[i] = IF i <= q THEN c[i] ELSE b[i - q]
    BY <1>5
  <2>3. CASE i < q
    <3>1. i <= q /\ i \in 1 .. q /\ i <= m
      BY <1>1, <1>2, <2>3
    <3> QED BY <1>3, <2>2, <2>3, <3>1
  <2>4. CASE i = q
    <3>1. i <= q /\ i \in 1 .. q /\ ~(i <= m) /\ i - m = 1
      BY <1>1, <1>2, <2>4
    <3>2. c[i] = one[1]
      BY <1>3, <3>1
    <3>3. r[i] = x
      BY <1>1, <2>2, <3>1, <3>2
    <3> QED BY ONLY <2>4, <3>3
  <2>5. CASE ~(i < q) /\ i # q
    <3>1. ~(i <= q)
      BY <2>5
    <3> QED BY <2>2, <2>5, <3>1
  <2> QED BY <2>3, <2>4, <2>5
<1> QED BY <1>5, <1>6 DEF Around

-----------------------------------------------------------------------------
(* Quicksort: the parts put together. *)

\* The m positions before q, q itself and the k behind it are the n there are.
Divides(q, m, k, n) ==
  /\ q \in Nat /\ n \in Nat /\ q \in 1 .. n
  /\ \A i \in 1 .. n : i \in 1 .. m \/ i = q \/ \E j \in 1 .. k : i = q + j
  /\ \A i \in 1 .. m : i \in 1 .. n /\ i < q
  /\ \A i \in 1 .. k : q + i \in 1 .. n /\ q + i > q /\ (q + i) - q = i

LEMMA Thirds ==
  ASSUME NEW m \in Nat, NEW k \in Nat, NEW q, q = m + 1, NEW n, n = q + k
  PROVE  Divides(q, m, k, n)
<1>1. q \in Nat /\ n \in Nat /\ q \in 1 .. n
  OBVIOUS
<1>2. ASSUME NEW i \in 1 .. n, i \notin 1 .. m, i # q
      PROVE  \E j \in 1 .. k : i = q + j
  <2>1. i - q \in 1 .. k /\ i = q + (i - q)
    BY <1>2
  <2> QED BY <2>1
<1>3. \A i \in 1 .. k : q + i \in 1 .. n /\ q + i > q /\ (q + i) - q = i
  OBVIOUS
<1> QED BY <1>1, <1>2, <1>3 DEF Divides

\* The parts of t on either side of q are u and v, and those of r are a and b.
Parted(t, u, v, r, a, b, q, m, k) ==
  /\ \A i \in 1 .. m : u[i] = t[i] /\ r[i] = a[i]
  /\ r[q] = t[q]
  /\ \A i \in 1 .. k : v[i] = t[q + i] /\ r[q + i] = b[i]

LEMMA SameJoined ==
  ASSUME NEW m \in Nat, NEW k \in Nat, NEW q, NEW n, Divides(q, m, k, n),
         NEW t, NEW u, NEW v, NEW a, NEW b, NEW r, Same(u, a, m), Same(v, b, k),
         Parted(t, u, v, r, a, b, q, m, k)
  PROVE  Same(t, r, n)
<1>0. /\ \A i \in 1 .. m : u[i] = t[i] /\ r[i] = a[i]
      /\ r[q] = t[q]
      /\ \A i \in 1 .. k : v[i] = t[q + i] /\ r[q + i] = b[i]
  BY DEF Parted
<1>1. PICK fa \in [1 .. m -> 1 .. m], ga \in [1 .. m -> 1 .. m] :
         /\ \A i \in 1 .. m : fa[ga[i]] = i /\ ga[fa[i]] = i
         /\ \A i \in 1 .. m : a[i] = u[fa[i]]
  BY DEF Same
<1>2. PICK fb \in [1 .. k -> 1 .. k], gb \in [1 .. k -> 1 .. k] :
         /\ \A i \in 1 .. k : fb[gb[i]] = i /\ gb[fb[i]] = i
         /\ \A i \in 1 .. k : b[i] = v[fb[i]]
  BY DEF Same
<1>3. /\ q \in Nat /\ n \in Nat /\ q \in 1 .. n
      /\ \A i \in 1 .. n : i \in 1 .. m \/ i = q \/ \E j \in 1 .. k : i = q + j
      /\ \A i \in 1 .. m : i \in 1 .. n /\ i < q
      /\ \A i \in 1 .. k : q + i \in 1 .. n /\ q + i > q /\ (q + i) - q = i
  BY DEF Divides
<1>4. \A i \in 1 .. m : fa[i] \in 1 .. m /\ ga[i] \in 1 .. m
  BY <1>1
<1>5. \A i \in 1 .. k : fb[i] \in 1 .. k /\ gb[i] \in 1 .. k
  BY <1>2
<1> DEFINE f == [i \in 1 .. n |-> IF i < q THEN fa[i] ELSE IF i > q THEN q + fb[i - q] ELSE q]
           g == [i \in 1 .. n |-> IF i < q THEN ga[i] ELSE IF i > q THEN q + gb[i - q] ELSE q]
<1>6. /\ \A i \in 1 .. m : f[i] = fa[i] /\ g[i] = ga[i]
      /\ f[q] = q /\ g[q] = q
      /\ \A i \in 1 .. k : f[q + i] = q + fb[i] /\ g[q + i] = q + gb[i]
  <2>1. \A i \in 1 .. m : f[i] = fa[i] /\ g[i] = ga[i]
    BY <1>3
  <2>2. f[q] = q /\ g[q] = q
    <3>1. ~(q < q) /\ ~(q > q)
      BY <1>3
    <3> QED BY <1>3, <3>1
  <2>3. ASSUME NEW i \in 1 .. k
        PROVE  f[q + i] = q + fb[i] /\ g[q + i] = q + gb[i]
    <3>1. q + i \in 1 .. n /\ q + i > q /\ ~(q + i < q) /\ (q + i) - q = i
      <4>1. q + i \in 1 .. n /\ q + i > q /\ (q + i) - q = i
        BY <1>3
      <4>2. q \in Nat /\ n \in Nat
        BY <1>3
      <4> QED BY ONLY <4>1, <4>2
    <3> QED BY <3>1
  <2> QED BY <2>1, <2>2, <2>3
<1>7. f = [i \in 1 .. n |-> f[i]] /\ g = [i \in 1 .. n |-> g[i]]
  OBVIOUS
<1> HIDE DEF f, g
<1>8. ASSUME NEW i \in 1 .. n
      PROVE  f[i] \in 1 .. n /\ g[i] \in 1 .. n /\ f[g[i]] = i /\ g[f[i]] = i /\ r[i] = t[f[i]]
  <2>1. CASE i \in 1 .. m
    <3>1. f[i] = fa[i] /\ g[i] = ga[i] /\ fa[i] \in 1 .. m /\ ga[i] \in 1 .. m
      BY <1>4, <1>6, <2>1
    <3>2. f[ga[i]] = fa[ga[i]] /\ g[fa[i]] = ga[fa[i]]
      BY <1>6, <3>1
    <3>3. r[i] = a[i] /\ a[i] = u[fa[i]] /\ u[fa[i]] = t[fa[i]]
      BY <1>0, <1>1, <2>1, <3>1
    <3> QED BY <1>1, <1>3, <2>1, <3>1, <3>2, <3>3
  <2>2. CASE i = q
    BY <1>0, <1>3, <1>6, <2>2
  <2>3. ASSUME NEW j \in 1 .. k, i = q + j
        PROVE  /\ f[i] \in 1 .. n /\ g[i] \in 1 .. n
               /\ f[g[i]] = i /\ g[f[i]] = i /\ r[i] = t[f[i]]
    <3>1. f[i] = q + fb[j] /\ g[i] = q + gb[j] /\ fb[j] \in 1 .. k /\ gb[j] \in 1 .. k
      BY <1>5, <1>6, <2>3
    <3>2. f[q + gb[j]] = q + fb[gb[j]] /\ g[q + fb[j]] = q + gb[fb[j]]
      BY <1>6, <3>1
    <3>3. r[i] = b[j] /\ b[j] = v[fb[j]] /\ v[fb[j]] = t[q + fb[j]]
      BY <1>0, <1>2, <2>3, <3>1
    <3>4. fb[gb[j]] = j /\ gb[fb[j]] = j
      BY <1>2
    <3>5. q + fb[j] \in 1 .. n /\ q + gb[j] \in 1 .. n
      BY <1>3, <3>1
    <3> QED BY <2>3, <3>1, <3>2, <3>3, <3>4, <3>5
  <2>4. CASE \E j \in 1 .. k : i = q + j
    <3>0. PICK j \in 1 .. k : i = q + j
      BY <2>4
    <3> QED BY <3>0, <2>3
  <2> QED BY <1>3, <2>1, <2>2, <2>4
<1>9. f \in [1 .. n -> 1 .. n] /\ g \in [1 .. n -> 1 .. n]
  BY <1>7, <1>8
<1>10. /\ \A i \in 1 .. n : f[g[i]] = i /\ g[f[i]] = i
       /\ \A i \in 1 .. n : r[i] = t[f[i]]
  BY <1>8
<1> QED BY ONLY <1>9, <1>10 DEF Same

\* The q-th of r is the pivot, with a before it and b behind it, on their sides.
Flanked(r, q, a, m, b, k, versus) ==
  /\ \A i \in 1 .. m : r[i] = a[i] /\ ~Misplaced(a[i], r[q], versus)
  /\ \A i \in 1 .. k : r[q + i] = b[i] /\ ~Misplaced(r[q], b[i], versus)

LEMMA OrderJoined ==
  ASSUME NEW versus \in Versus,
         NEW m \in Nat, NEW k \in Nat, NEW q, NEW n, Divides(q, m, k, n),
         NEW a, NEW b, NEW r \in Seq(Nat), Len(r) = n,
         Flanked(r, q, a, m, b, k, versus),
         InSequence(a, 1, m, versus), InSequence(b, 1, k, versus)
  PROVE  InSequence(r, 1, n, versus)
<1>1. /\ q \in Nat /\ n \in Nat /\ q \in 1 .. n
      /\ \A i \in 1 .. n : i \in 1 .. m \/ i = q \/ \E j \in 1 .. k : i = q + j
      /\ \A i \in 1 .. m : i \in 1 .. n /\ i < q
      /\ \A i \in 1 .. k : q + i \in 1 .. n /\ q + i > q /\ (q + i) - q = i
  BY DEF Divides
<1> DEFINE x == r[q]
<1>0. /\ r[q] = x /\ x \in Nat
      /\ \A i \in 1 .. m : r[i] = a[i] /\ ~Misplaced(a[i], x, versus)
      /\ \A i \in 1 .. k : r[q + i] = b[i] /\ ~Misplaced(x, b[i], versus)
  BY <1>1 DEF Flanked
<1> HIDE DEF x
<1>2. ASSUME NEW i \in 1 .. n, i <= q
      PROVE  ~Misplaced(r[i], x, versus)
  <2>1. CASE i = q
    BY <1>0, <2>1, ItemOrder
  <2>2. CASE i \in 1 .. m
    BY <1>0, <2>2
  <2> QED BY <1>1, <1>2, <2>1, <2>2
<1>3. ASSUME NEW i \in 1 .. n, i >= q
      PROVE  ~Misplaced(x, r[i], versus)
  <2>1. CASE i = q
    BY <1>0, <2>1, ItemOrder
  <2>2. ASSUME NEW j \in 1 .. k, i = q + j
        PROVE  ~Misplaced(x, r[i], versus)
    BY <1>0, <2>2
  <2>3. i \notin 1 .. m
    BY <1>1, <1>3
  <2> QED BY <1>1, <2>1, <2>2, <2>3
<1>4. ASSUME NEW i \in 1 .. n, NEW j \in 1 .. n, i < j
      PROVE  ~Misplaced(r[i], r[j], versus)
  <2>1. CASE j < q
    <3>1. i \in 1 .. m /\ j \in 1 .. m
      BY <1>1, <1>4, <2>1
    <3>2. ~Misplaced(a[i], a[j], versus)
      BY <1>4, <3>1 DEF InSequence
    <3> QED BY <1>0, <3>1, <3>2
  <2>2. CASE i > q
    <3>0. i \notin 1 .. m /\ i # q
      BY <1>1, <2>2
    <3>1. PICK y \in 1 .. k : i = q + y
      BY <1>1, <3>0
    <3>2. PICK z \in 1 .. k : j = q + z
      <4>1. j \notin 1 .. m /\ j # q
        BY <1>1, <1>4, <2>2
      <4> QED BY <1>1, <4>1
    <3>3. y < z
      BY <1>1, <1>4, <3>1, <3>2
    <3>4. ~Misplaced(b[y], b[z], versus)
      BY <3>3 DEF InSequence
    <3> QED BY <1>0, <3>1, <3>2, <3>4
  <2>3. CASE i <= q /\ j >= q
    <3>1. ~Misplaced(r[i], x, versus) /\ ~Misplaced(x, r[j], versus)
      BY <1>2, <1>3, <2>3
    <3>2. r[i] \in Nat /\ r[j] \in Nat
      OBVIOUS
    <3> QED BY <1>0, <3>1, <3>2, ItemOrder
  <2>4. i \in Nat /\ j \in Nat
    BY <1>1
  <2> QED BY <1>1, <2>1, <2>2, <2>3, <2>4
<1> QED BY <1>4 DEF InSequence

\* What sorting may make of the items s.
Arranged(s, r, versus) ==
  /\ r \in Seq(Data) /\ Len(r) = Len(s)
  /\ Same(s, r, Len(s))
  /\ InSequence(r, 1, Len(s), versus)

LEMMA JoinSorts ==
  ASSUME NEW versus \in Versus, NEW t \in Seq(Data), NEW n \in Nat, Len(t) = n,
         NEW q \in 1 .. n, Passed(t, q, q, t[q], n, versus),
         NEW u, u = SubSeq(t, 1, q - 1), NEW v, v = SubSeq(t, q + 1, Len(t)),
         NEW a, NEW b, Arranged(u, a, versus), Arranged(v, b, versus),
         NEW r, r = a \o <<t[q]>> \o b
  PROVE  Arranged(t, r, versus)
<1> DEFINE m == q - 1
           k == n - q
           x == t[q]
<1>1. /\ m \in Nat /\ k \in Nat /\ q = m + 1 /\ n = q + k /\ q \in Nat /\ q >= 1 /\ q <= n
      /\ m \in 0 .. Len(t) /\ q \in 0 .. Len(t) /\ Len(t) - q = k
      /\ x \in Data /\ x \in Nat
  <2>1. Data \subseteq Nat
    BY SimcListAssumption
  <2>2. t[q] \in Data
    OBVIOUS
  <2>3. q \in Nat /\ q >= 1 /\ q <= n /\ m \in Nat /\ k \in Nat /\ q = m + 1 /\ n = q + k
    OBVIOUS
  <2>4. m \in 0 .. Len(t) /\ q \in 0 .. Len(t) /\ Len(t) - q = k
    BY <2>3
  <2> QED BY <2>1, <2>2, <2>3, <2>4
<1>0. x = t[q] /\ r = a \o <<x>> \o b /\ q - 1 = m /\ n - q = k
  OBVIOUS
<1> HIDE DEF m, k, x
<1>2. /\ u \in Seq(Data) /\ Len(u) = m
      /\ \A i \in 1 .. m : u[i] = t[i]
  BY <1>0, <1>1, FirstPart
<1>3. /\ v \in Seq(Data) /\ Len(v) = k
      /\ \A i \in 1 .. k : v[i] = t[q + i]
  BY <1>1, LastPart
<1>4. /\ a \in Seq(Data) /\ Len(a) = m /\ Same(u, a, m) /\ InSequence(a, 1, m, versus)
      /\ b \in Seq(Data) /\ Len(b) = k /\ Same(v, b, k) /\ InSequence(b, 1, k, versus)
  BY <1>2, <1>3 DEF Arranged
<1>5. /\ r \in Seq(Data) /\ Len(r) = n
      /\ \A i \in 1 .. n : r[i] = IF i < q THEN a[i] ELSE IF i = q THEN x ELSE b[i - q]
  <2>1. Len(a) = q - 1 /\ Len(b) = n - q
    BY <1>0, <1>4
  <2>2. Around(r, Data, a, x, b, q, n)
    BY <1>0, <1>1, <1>4, <2>1, JoinedThree
  <2> QED BY <2>2 DEF Around
<1>6. /\ \A i \in 1 .. m : r[i] = a[i] /\ i \in 1 .. n
      /\ r[q] = x
      /\ \A i \in 1 .. k : r[q + i] = b[i] /\ q + i \in 1 .. n
      /\ \A i \in 1 .. n : i \in 1 .. m \/ i = q \/ \E j \in 1 .. k : i = q + j
  <2>1. Divides(q, m, k, n)
    BY <1>1, Thirds
  <2>2. /\ q \in 1 .. n
        /\ \A i \in 1 .. m : i \in 1 .. n /\ i < q
        /\ \A i \in 1 .. k : q + i \in 1 .. n /\ q + i > q /\ (q + i) - q = i
        /\ \A i \in 1 .. n : i \in 1 .. m \/ i = q \/ \E j \in 1 .. k : i = q + j
    BY <2>1 DEF Divides
  <2>3. \A i \in 1 .. m : r[i] = a[i]
    BY <1>5, <2>2
  <2>4. r[q] = x
    BY <1>1, <1>5, <2>2
  <2>5. ASSUME NEW i \in 1 .. k PROVE r[q + i] = b[i]
    <3>1. q + i \in 1 .. n /\ ~(q + i < q) /\ q + i # q /\ (q + i) - q = i
      BY <1>1, <2>2
    <3> QED BY <1>5, <3>1
  <2> QED BY <2>2, <2>3, <2>4, <2>5
<1>7. Same(t, r, n)
  <2>1. \A i \in 1 .. m : u[i] = t[i] /\ r[i] = a[i]
    BY <1>2, <1>6
  <2>2. \A i \in 1 .. k : v[i] = t[q + i] /\ r[q + i] = b[i]
    BY <1>3, <1>6
  <2>3. r[q] = t[q]
    BY <1>0, <1>6
  <2>4. m \in Nat /\ k \in Nat /\ Divides(q, m, k, n)
    BY <1>1, Thirds
  <2>5. Same(u, a, m) /\ Same(v, b, k)
    BY <1>4
  <2>6. Parted(t, u, v, r, a, b, q, m, k)
    BY <2>1, <2>2, <2>3 DEF Parted
  <2> QED BY <2>4, <2>5, <2>6, SameJoined
<1>8. /\ \A i \in 1 .. m : ~Misplaced(t[i], x, versus)
      /\ \A i \in 1 .. k : ~Misplaced(x, t[q + i], versus)
  <2>1. /\ \A i \in 1 .. m : ~Misplaced(t[i], x, versus)
        /\ \A i \in q + 1 .. n : ~Misplaced(x, t[i], versus)
    BY <1>0 DEF Passed
  <2>2. \A i \in 1 .. k : q + i \in q + 1 .. n
    BY <1>1
  <2> QED BY <2>1, <2>2
<1>9. ASSUME NEW i \in 1 .. m PROVE ~Misplaced(a[i], x, versus)
  <2>0. m \in Nat /\ Same(u, a, m)
    BY <1>1, <1>4
  <2>1. PICK j \in 1 .. m : a[i] = u[j]
    BY ONLY <2>0, i \in 1 .. m, SameValues
  <2> QED BY <1>2, <1>8, <2>1
<1>10. ASSUME NEW i \in 1 .. k PROVE ~Misplaced(x, b[i], versus)
  <2>0. k \in Nat /\ Same(v, b, k)
    BY <1>1, <1>4
  <2>1. PICK j \in 1 .. k : b[i] = v[j]
    BY ONLY <2>0, i \in 1 .. k, SameValues
  <2> QED BY <1>3, <1>8, <2>1
<1>11. InSequence(r, 1, n, versus)
  <2>1. r \in Seq(Nat) /\ Len(r) = n
    BY <1>5, DataAreNumbers
  <2>2. \A i \in 1 .. m : r[i] = a[i] /\ ~Misplaced(a[i], r[q], versus)
    BY <1>6, <1>9
  <2>3. \A i \in 1 .. k : r[q + i] = b[i] /\ ~Misplaced(r[q], b[i], versus)
    BY <1>6, <1>10
  <2>4. Flanked(r, q, a, m, b, k, versus)
    BY <2>2, <2>3 DEF Flanked
  <2>5. m \in Nat /\ k \in Nat /\ Divides(q, m, k, n)
    BY <1>1, Thirds
  <2>6. InSequence(a, 1, m, versus) /\ InSequence(b, 1, k, versus)
    BY <1>4
  <2> QED BY ONLY versus \in Versus, <2>1, <2>4, <2>5, <2>6, OrderJoined
<1> QED BY <1>5, <1>7, <1>11 DEF Arranged

\* A split leaves two parts of s, both shorter than s, and the pivot between them;
\* it remains to sort the parts.
Splits(s, split, versus) ==
  LET t == split.s
      q == split.pivot
      n == Len(s)
  IN  /\ SubSeq(t, 1, q - 1) \in Seq(Data) /\ Len(SubSeq(t, 1, q - 1)) < n
      /\ SubSeq(t, q + 1, Len(t)) \in Seq(Data) /\ Len(SubSeq(t, q + 1, Len(t))) < n
      /\ \A a, b : /\ Arranged(SubSeq(t, 1, q - 1), a, versus)
                   /\ Arranged(SubSeq(t, q + 1, Len(t)), b, versus)
                   => Arranged(s, a \o <<t[q]>> \o b, versus)

LEMMA SplitSorts ==
  ASSUME NEW versus \in Versus, NEW s \in Seq(Data), NEW p \in 1 .. Len(s)
  PROVE  Splits(s, Split(s, p, versus), versus)
<1> DEFINE n == Len(s)
           split == Split(s, p, versus)
           t == split.s
           q == split.pivot
<1>11. n \in Nat /\ Len(s) = n /\ p \in 1 .. n /\ split = Split(s, p, versus)
  OBVIOUS
<1>12. n = Len(s) /\ t = split.s /\ q = split.pivot
  OBVIOUS
<1> HIDE DEF n, split
<1>0. s \in Seq(Nat)
  BY DataAreNumbers
<1>1. t \in Seq(Nat) /\ Len(t) = n /\ Same(s, t, n)
  BY <1>0, <1>11, SplitParts
<1>2. q \in 1 .. n
  BY <1>0, <1>11, SplitParts
<1>3. Passed(t, q, q, t[q], n, versus)
  BY <1>0, <1>11, SplitParts
<1> HIDE DEF t, q
<1>4. t \in Seq(Data)
  BY <1>1, <1>11, SameAreData
<1>5. q - 1 \in 0 .. Len(t) /\ q \in 0 .. Len(t)
  BY <1>1, <1>2
<1>6. SubSeq(t, 1, q - 1) \in Seq(Data) /\ Len(SubSeq(t, 1, q - 1)) = q - 1
  BY <1>4, <1>5, FirstPart
<1>7. SubSeq(t, q + 1, Len(t)) \in Seq(Data) /\ Len(SubSeq(t, q + 1, Len(t))) = Len(t) - q
  BY <1>4, <1>5, LastPart
<1>8. ASSUME NEW a, NEW b, Arranged(SubSeq(t, 1, q - 1), a, versus),
             Arranged(SubSeq(t, q + 1, Len(t)), b, versus)
      PROVE  Arranged(s, a \o <<t[q]>> \o b, versus)
  <2> DEFINE r == a \o <<t[q]>> \o b
             u == SubSeq(t, 1, q - 1)
             v == SubSeq(t, q + 1, Len(t))
  <2>1. Arranged(t, r, versus)
    <3>1. r = a \o <<t[q]>> \o b /\ u = SubSeq(t, 1, q - 1) /\ v = SubSeq(t, q + 1, Len(t))
      OBVIOUS
    <3>2. Arranged(u, a, versus) /\ Arranged(v, b, versus)
      BY <1>8
    <3> HIDE DEF r, u, v
    <3> QED BY <1>1, <1>2, <1>3, <1>4, <1>11, <3>1, <3>2, JoinSorts
  <2> HIDE DEF r
  <2>2. Same(t, r, n) /\ r \in Seq(Data) /\ Len(r) = n /\ InSequence(r, 1, n, versus)
    BY <1>1, <2>1 DEF Arranged
  <2>3. Same(s, r, n)
    BY <1>1, <2>2, SameAgain
  <2>4. Arranged(s, r, versus)
    BY <1>11, <2>2, <2>3 DEF Arranged
  <2> QED BY <2>4 DEF r
<1>9. q - 1 < n /\ Len(t) - q < n /\ Len(t) = n
  BY <1>1, <1>2
<1>10. \A a, b : /\ Arranged(SubSeq(t, 1, q - 1), a, versus)
                 /\ Arranged(SubSeq(t, q + 1, Len(t)), b, versus)
                 => Arranged(s, a \o <<t[q]>> \o b, versus)
  BY <1>8
<1>13. /\ SubSeq(t, 1, q - 1) \in Seq(Data) /\ Len(SubSeq(t, 1, q - 1)) < n
       /\ SubSeq(t, q + 1, Len(t)) \in Seq(Data) /\ Len(SubSeq(t, q + 1, Len(t))) < n
  BY ONLY <1>6, <1>7, <1>9
<1>14. Splits(s, split, versus)
  BY ONLY <1>10, <1>12, <1>13 DEF Splits
<1> QED BY <1>14 DEF split

-----------------------------------------------------------------------------
(* Quicksort: the recursion. *)

\* What comes of a split when w says what comes of its parts.
Joins(w, split) ==
  {a \o <<split.s[split.pivot]>> \o b :
     a \in w[SubSeq(split.s, 1, split.pivot - 1)],
     b \in w[SubSeq(split.s, split.pivot + 1, Len(split.s))]}

QuickStep(w, s, versus) ==
  IF Len(s) <= 1 THEN {s}
  ELSE IF Len(s) <= MinQuick THEN {list_sort_selectionsort(s, versus)}
  ELSE UNION {Joins(w, Split(s, p, versus)) : p \in 1 .. Len(s)}

Upto(m) == {t \in Seq(Data) : Len(t) <= m}
Sorting(w, m, versus) == w = [s \in Upto(m) |-> QuickStep(w, s, versus)]

\* One call depends on no others than those for shorter lists.
LEMMA QuickLocal ==
  ASSUME NEW versus \in Versus, NEW s \in Seq(Data), NEW v, NEW w,
         \A t \in Seq(Data) : Len(t) < Len(s) => v[t] = w[t]
  PROVE  QuickStep(v, s, versus) = QuickStep(w, s, versus)
<1>1. ASSUME NEW p \in 1 .. Len(s)
      PROVE  Joins(v, Split(s, p, versus)) = Joins(w, Split(s, p, versus))
  <2> DEFINE split == Split(s, p, versus)
             a == SubSeq(split.s, 1, split.pivot - 1)
             b == SubSeq(split.s, split.pivot + 1, Len(split.s))
  <2>1. Splits(s, split, versus)
    BY SplitSorts
  <2>2. a \in Seq(Data) /\ Len(a) < Len(s)
    BY <2>1 DEF Splits
  <2>3. b \in Seq(Data) /\ Len(b) < Len(s)
    BY <2>1 DEF Splits
  <2> HIDE DEF a, b
  <2>4. v[a] = w[a] /\ v[b] = w[b]
    BY <2>2, <2>3
  <2>5. Joins(v, split) = {x \o <<split.s[split.pivot]>> \o y : x \in v[a], y \in v[b]}
    BY DEF Joins, a, b
  <2>6. Joins(w, split) = {x \o <<split.s[split.pivot]>> \o y : x \in w[a], y \in w[b]}
    BY DEF Joins, a, b
  <2> HIDE DEF split
  <2>7. Joins(v, split) = Joins(w, split)
    BY <2>4, <2>5, <2>6
  <2> QED BY <2>7 DEF split
<1> DEFINE V == {Joins(v, Split(s, p, versus)) : p \in 1 .. Len(s)}
           W == {Joins(w, Split(s, p, versus)) : p \in 1 .. Len(s)}
<1>2. V = W
  BY <1>1
<1>3. QuickStep(v, s, versus) = IF Len(s) <= 1 THEN {s}
                                ELSE IF Len(s) <= MinQuick
                                     THEN {list_sort_selectionsort(s, versus)}
                                     ELSE UNION V
  BY DEF QuickStep
<1>4. QuickStep(w, s, versus) = IF Len(s) <= 1 THEN {s}
                                ELSE IF Len(s) <= MinQuick
                                     THEN {list_sort_selectionsort(s, versus)}
                                     ELSE UNION W
  BY DEF QuickStep
<1> HIDE DEF V, W
<1> QED BY <1>2, <1>3, <1>4

LEMMA SortingExists ==
  ASSUME NEW versus \in Versus, NEW n \in Nat
  PROVE  \E w : Sorting(w, n, versus)
<1> DEFINE P == {m \in 0 .. n : \E w : Sorting(w, m, versus)}
<1>1. 0 \in P
  <2> DEFINE w == [s \in Upto(0) |-> {s}]
  <2>1. ASSUME NEW s \in Upto(0) PROVE QuickStep(w, s, versus) = {s}
    <3>1. Len(s) <= 1
      BY DEF Upto
    <3> QED BY <3>1 DEF QuickStep
  <2>2. w = [s \in Upto(0) |-> QuickStep(w, s, versus)]
    BY <2>1
  <2> HIDE DEF w
  <2>3. Sorting(w, 0, versus)
    BY <2>2 DEF Sorting
  <2> QED BY <2>3
<1>2. ASSUME NEW m \in 0 .. n - 1, m \in P
      PROVE  m + 1 \in P
  <2>1. PICK w : Sorting(w, m, versus)
    BY <1>2
  <2> DEFINE v == [s \in Upto(m + 1) |-> QuickStep(w, s, versus)]
  <2>2. \A s \in Upto(m + 1) : v[s] = QuickStep(w, s, versus)
    OBVIOUS
  <2>3. w = [s \in Upto(m) |-> QuickStep(w, s, versus)]
    BY <2>1 DEF Sorting
  <2>4. \A s \in Upto(m) : w[s] = QuickStep(w, s, versus)
    <3> DEFINE u == [s \in Upto(m) |-> QuickStep(w, s, versus)]
    <3>1. \A s \in Upto(m) : u[s] = QuickStep(w, s, versus)
      OBVIOUS
    <3>2. w = u
      BY <2>3
    <3> HIDE DEF u
    <3> QED BY <3>1, <3>2
  <2>5. \A s \in Upto(m) : s \in Upto(m + 1)
    <3>1. \A s \in Seq(Data) : Len(s) <= m => Len(s) <= m + 1
      OBVIOUS
    <3> QED BY <3>1 DEF Upto
  <2>6. v = [s \in Upto(m + 1) |-> v[s]]
    OBVIOUS
  <2> HIDE DEF v
  <2>7. \A s \in Upto(m) : v[s] = w[s]
    BY <2>2, <2>4, <2>5
  <2>8. ASSUME NEW s \in Upto(m + 1) PROVE v[s] = QuickStep(v, s, versus)
    <3>1. s \in Seq(Data) /\ Len(s) <= m + 1 /\ Len(s) \in Nat
      BY DEF Upto
    <3>2. ASSUME NEW t \in Seq(Data), Len(t) < Len(s) PROVE v[t] = w[t]
      <4>1. Len(t) <= m
        BY <3>1, <3>2
      <4>2. t \in Upto(m)
        BY <4>1 DEF Upto
      <4> QED BY <2>7, <4>2
    <3>3. QuickStep(v, s, versus) = QuickStep(w, s, versus)
      BY <3>1, <3>2, QuickLocal
    <3> QED BY <2>2, <3>3
  <2>9. Sorting(v, m + 1, versus)
    <3>1. [s \in Upto(m + 1) |-> v[s]] = [s \in Upto(m + 1) |-> QuickStep(v, s, versus)]
      BY <2>8
    <3> QED BY <2>6, <3>1 DEF Sorting
  <2> QED BY <2>9
<1> HIDE DEF P
<1>3. \A m \in 0 .. n - 1 : m \in P => m + 1 \in P
  BY <1>2
<1>4. n \in P
  BY <1>1, <1>3, UpTo
<1> QED BY <1>4 DEF P

LEMMA QuickStepSorts ==
  ASSUME NEW versus \in Versus, NEW s \in Seq(Data), NEW w,
         \A t \in Seq(Data) : Len(t) < Len(s) => \A r \in w[t] : Arranged(t, r, versus),
         NEW r \in QuickStep(w, s, versus)
  PROVE  Arranged(s, r, versus)
<1> DEFINE n == Len(s)
<1>0. n \in Nat /\ s \in Seq(Nat) /\ Len(s) = n
  BY DataAreNumbers
<1>1. CASE Len(s) <= 1
  <2>1. r = s
    BY <1>1 DEF QuickStep
  <2>2. \A i, j \in 1 .. Len(s) : ~(i < j)
    BY <1>1
  <2>3. InSequence(s, 1, Len(s), versus)
    BY <2>2 DEF InSequence
  <2>4. Same(s, s, n)
    BY <1>0, SameAsItself
  <2> QED BY <2>1, <2>3, <2>4 DEF Arranged
<1>2. CASE ~(Len(s) <= 1) /\ Len(s) <= MinQuick
  <2>1. r = list_sort_selectionsort(s, versus)
    BY <1>2 DEF QuickStep
  <2> HIDE DEF n
  <2>2. r \in Seq(Nat) /\ Len(r) = n /\ Same(s, r, n)
    BY <1>0, <2>1, SelectionSorts
  <2>3. InSequence(r, 1, n, versus)
    BY <1>0, <2>1, SelectionSorts
  <2>4. r \in Seq(Data)
    BY <1>0, <2>2, SameAreData
  <2> QED BY <1>0, <2>2, <2>3, <2>4 DEF Arranged
<1>3. CASE ~(Len(s) <= 1) /\ ~(Len(s) <= MinQuick)
  <2>1. PICK p \in 1 .. n : r \in Joins(w, Split(s, p, versus))
    BY <1>3 DEF QuickStep
  <2> DEFINE split == Split(s, p, versus)
             t == split.s
             q == split.pivot
             u == SubSeq(t, 1, q - 1)
             v == SubSeq(t, q + 1, Len(t))
  <2>2. PICK a \in w[u], b \in w[v] : r = a \o <<t[q]>> \o b
    BY <2>1, SMTT(20) DEF Joins
  <2> HIDE DEF n
  <2>7. Splits(s, split, versus)
    BY <1>0, SplitSorts
  <2> HIDE DEF split
  <2>3. u \in Seq(Data) /\ Len(u) < n
    BY <1>0, <2>7 DEF Splits
  <2>4. v \in Seq(Data) /\ Len(v) < n
    BY <1>0, <2>7 DEF Splits
  <2>5. \A x, y : /\ Arranged(u, x, versus) /\ Arranged(v, y, versus)
                  => Arranged(s, x \o <<t[q]>> \o y, versus)
    BY <2>7 DEF Splits
  <2> HIDE DEF t, q, u, v
  <2>6. Arranged(u, a, versus) /\ Arranged(v, b, versus)
    BY <1>0, <2>3, <2>4
  <2> QED BY <2>2, <2>5, <2>6
<1> QED BY <1>1, <1>2, <1>3

LEMMA QuickSorts ==
  ASSUME NEW versus \in Versus, NEW s0 \in Seq(Data),
         NEW r0 \in list_sort_quicksort(s0, versus)
  PROVE  Arranged(s0, r0, versus)
<1> DEFINE Loop(w) ==
      w = [s \in {t \in Seq(Data) : Len(t) <= Len(s0)} |->
             IF Len(s) <= 1 THEN {s}
             ELSE IF Len(s) <= MinQuick THEN {list_sort_selectionsort(s, versus)}
             ELSE UNION {LET split == Split(s, p, versus)
                             t == split.s
                             q == split.pivot
                         IN  {a \o <<t[q]>> \o b : a \in w[SubSeq(t, 1, q - 1)],
                                                   b \in w[SubSeq(t, q + 1, Len(t))]}
                         : p \in 1 .. Len(s)}]
           sort == CHOOSE w : Loop(w)
           n == Len(s0)
<1>0. list_sort_quicksort(s0, versus) = sort[s0]
  BY DEF list_sort_quicksort
<1>2. \A w : Loop(w) <=> Sorting(w, n, versus)
  BY DEF Sorting, Upto, QuickStep, Joins
<1> HIDE DEF Loop
<1>1. r0 \in sort[s0] /\ n \in Nat
  <2> HIDE DEF sort
  <2> QED BY <1>0
<1>3. PICK v : Sorting(v, n, versus)
  BY SortingExists
<1>4. Loop(v)
  BY <1>2, <1>3
<1>5. Loop(sort)
  BY <1>4
<1> HIDE DEF sort, n
<1>6. Sorting(sort, n, versus)
  BY <1>2, <1>5
<1>7. \A s \in Seq(Data) : Len(s) <= n => sort[s] = QuickStep(sort, s, versus)
  <2> DEFINE u == [s \in Upto(n) |-> QuickStep(sort, s, versus)]
  <2>1. \A s \in Upto(n) : u[s] = QuickStep(sort, s, versus)
    OBVIOUS
  <2>2. sort = u
    BY <1>6 DEF Sorting
  <2> HIDE DEF u
  <2>3. \A s \in Upto(n) : sort[s] = QuickStep(sort, s, versus)
    BY <2>1, <2>2
  <2> QED BY <2>3 DEF Upto
<1> DEFINE P == {k \in 0 .. n : \A s \in Seq(Data) : Len(s) <= k =>
                                  \A r \in sort[s] : Arranged(s, r, versus)}
<1>8. 0 \in P
  <2>1. ASSUME NEW s \in Seq(Data), Len(s) <= 0, NEW r \in sort[s]
        PROVE  Arranged(s, r, versus)
    <3>1. Len(s) <= n
      BY <1>1, <2>1
    <3>2. r \in QuickStep(sort, s, versus)
      BY <1>7, <3>1
    <3>3. \A t \in Seq(Data) : ~(Len(t) < Len(s))
      BY <2>1
    <3> QED BY <3>2, <3>3, QuickStepSorts
  <2> QED BY <1>1, <2>1
<1>9. ASSUME NEW k \in 0 .. n - 1, k \in P
      PROVE  k + 1 \in P
  <2>0. \A s \in Seq(Data) : Len(s) <= k => \A r \in sort[s] : Arranged(s, r, versus)
    BY <1>9
  <2>1. ASSUME NEW s \in Seq(Data), Len(s) <= k + 1, NEW r \in sort[s]
        PROVE  Arranged(s, r, versus)
    <3>1. Len(s) <= n
      BY <1>1, <2>1
    <3>2. r \in QuickStep(sort, s, versus)
      BY <1>7, <3>1
    <3>3. \A t \in Seq(Data) : Len(t) < Len(s) => Len(t) <= k
      BY <2>1
    <3>4. \A t \in Seq(Data) : Len(t) < Len(s) => \A x \in sort[t] : Arranged(t, x, versus)
      BY <2>0, <3>3
    <3> QED BY <3>2, <3>4, QuickStepSorts
  <2>2. k + 1 \in 0 .. n
    BY <1>1
  <2> QED BY <2>1, <2>2
<1> HIDE DEF P
<1>10. n \in P
  <2>1. \A k \in 0 .. n - 1 : k \in P => k + 1 \in P
    BY <1>9
  <2>2. n \in 0 .. n
    BY <1>1
  <2> QED BY ONLY <1>1, <1>8, <2>1, <2>2, UpTo
<1>11. Len(s0) <= n
  BY <1>1 DEF n
<1> QED BY <1>1, <1>10, <1>11 DEF P

-----------------------------------------------------------------------------
(* The least and the greatest item.                                        *)

Running(best, s, n, versus) ==
  best = CHOOSE w : w = [k \in 1 .. n |->
                           IF k = 1 THEN s[1] ELSE Better(s[k], w[k - 1], versus)]

BestOf(x, s, n, versus) ==
  /\ \E j \in 1 .. n : x = s[j]
  /\ \A i \in 1 .. n : ~Misplaced(s[i], x, versus)

LEMMA BestIs ==
  ASSUME NEW versus \in Versus, NEW n \in Nat, n >= 1,
         NEW s, \A i \in 1 .. n : s[i] \in Nat,
         NEW best, Running(best, s, n, versus)
  PROVE  BestOf(best[n], s, n, versus)
<1> DEFINE Loop(w) == w = [k \in 1 .. n |->
                            IF k = 1 THEN s[1] ELSE Better(s[k], w[k - 1], versus)]
           m == n - 1
           step == [y \in Nat \X (1 .. m) |-> Better(s[y[2] + 1], y[1], versus)]
<1>0. best = CHOOSE w : Loop(w)
  BY DEF Running
<1>1. m \in Nat /\ n = m + 1 /\ s[1] \in Nat /\ \A k \in 1 .. m : k + 1 \in 1 .. n /\ s[k + 1] \in Nat
  OBVIOUS
<1>2. \A x \in Nat, k \in 1 .. m : Better(s[k + 1], x, versus) \in Nat
  BY <1>1 DEF Better
<1>3. step \in [Nat \X (1 .. m) -> Nat]
  <2>1. \A y \in Nat \X (1 .. m) : Better(s[y[2] + 1], y[1], versus) \in Nat
    BY <1>2
  <2> QED BY <2>1
<1>4. \A x \in Nat, k \in 1 .. m : step[<<x, k>>] = Better(s[k + 1], x, versus)
  OBVIOUS
<1> HIDE DEF m, step
<1>5. PICK v : Runs(v, Nat, s[1], m, step)
  BY <1>1, <1>3, Rounds
<1>6. v \in [0 .. m -> Nat] /\ v[0] = s[1] /\ \A k \in 1 .. m : v[k] = step[<<v[k - 1], k>>]
  BY <1>5 DEF Runs
<1> DEFINE w == [k \in 1 .. n |-> v[k - 1]]
<1>7. w[1] = s[1] /\ \A k \in 2 .. n : w[k] = Better(s[k], w[k - 1], versus)
  <2>1. w[1] = s[1]
    <3>1. 1 \in 1 .. n /\ 1 - 1 = 0
      OBVIOUS
    <3> QED BY <1>6, <3>1
  <2>2. ASSUME NEW k \in 2 .. n PROVE w[k] = Better(s[k], w[k - 1], versus)
    <3>1. k - 1 \in 1 .. m /\ k \in 1 .. n /\ k - 1 \in 1 .. n /\ (k - 1) + 1 = k /\ (k - 1) - 1 \in 0 .. m
      BY <1>1
    <3>2. w[k] = v[k - 1] /\ w[k - 1] = v[(k - 1) - 1]
      BY <3>1
    <3>3. v[k - 1] = step[<<v[(k - 1) - 1], k - 1>>] /\ v[(k - 1) - 1] \in Nat
      BY <1>6, <3>1
    <3> HIDE DEF w
    <3> QED BY <1>4, <3>1, <3>2, <3>3
  <2> QED BY <2>1, <2>2
<1>8. w = [k \in 1 .. n |-> w[k]]
  OBVIOUS
<1> HIDE DEF w
<1>9. Loop(w)
  <2>1. \A k \in 1 .. n : w[k] = IF k = 1 THEN s[1] ELSE Better(s[k], w[k - 1], versus)
    <3>1. \A k \in 1 .. n : k # 1 => k \in 2 .. n
      OBVIOUS
    <3> QED BY <1>7, <3>1
  <2> QED BY <1>8, <2>1
<1> HIDE DEF Loop
<1>10. Loop(best)
  BY <1>0, <1>9
<1>11. best[1] = s[1] /\ \A k \in 1 .. m : best[k + 1] = Better(s[k + 1], best[k], versus)
  <2>1. \A k \in 1 .. n : best[k] = IF k = 1 THEN s[1] ELSE Better(s[k], best[k - 1], versus)
    BY <1>10 DEF Loop
  <2>2. ASSUME NEW k \in 1 .. m PROVE best[k + 1] = Better(s[k + 1], best[k], versus)
    <3>1. k + 1 \in 1 .. n /\ k + 1 # 1 /\ (k + 1) - 1 = k
      BY <1>1
    <3> QED BY <2>1, <3>1
  <2> QED BY <2>1, <2>2
<1> DEFINE P == {k \in 0 .. m : /\ \E j \in 1 .. k + 1 : best[k + 1] = s[j]
                                /\ \A i \in 1 .. k + 1 : ~Misplaced(s[i], best[k + 1], versus)}
<1>12. 0 \in P
  <2>1. ~Misplaced(s[1], s[1], versus)
    BY <1>1, ItemOrder
  <2>2. 0 + 1 = 1 /\ 0 \in 0 .. m /\ 1 \in 1 .. 1 /\ \A i \in 1 .. 1 : i = 1
    BY <1>1
  <2> QED BY <1>11, <2>1, <2>2
<1>13. ASSUME NEW k \in 0 .. m - 1, k \in P
       PROVE  k + 1 \in P
  <2> DEFINE x == s[(k + 1) + 1]
             y == best[k + 1]
  <2>1. k + 1 \in 1 .. m /\ k + 1 \in 0 .. m /\ (k + 1) + 1 \in 1 .. n
    BY <1>1
  <2>2. best[(k + 1) + 1] = Better(x, y, versus)
    BY <1>11, <2>1
  <2>3. PICK j \in 1 .. k + 1 : y = s[j]
    BY <1>13
  <2>4. \A i \in 1 .. k + 1 : ~Misplaced(s[i], y, versus) /\ i \in 1 .. n /\ i \in 1 .. (k + 1) + 1
    BY <1>1, <1>13
  <2>5. x \in Nat /\ y \in Nat /\ j \in 1 .. (k + 1) + 1
    BY <1>1, <2>1, <2>3, <2>4
  <2>6. \A i \in 1 .. (k + 1) + 1 : i \in 1 .. k + 1 \/ i = (k + 1) + 1
    BY <2>1
  <2>7. (k + 1) + 1 \in 1 .. (k + 1) + 1
    BY <2>1
  <2> DEFINE z == best[(k + 1) + 1]
             r == (k + 1) + 1
  <2>8. ASSUME Misplaced(x, y, versus)
        PROVE  z = x /\ \A i \in 1 .. r : ~Misplaced(s[i], z, versus)
    <3>1. z = x
      BY <2>2, <2>8 DEF Better
    <3>2. ~Misplaced(y, x, versus) /\ ~Misplaced(x, x, versus)
      BY <2>5, <2>8, ItemOrder
    <3>3. \A i \in 1 .. k + 1 : ~Misplaced(s[i], x, versus)
      <4>1. \A i \in 1 .. k + 1 : s[i] \in Nat
        BY <2>4
      <4> HIDE DEF x, y
      <4> QED BY <2>4, <2>5, <3>2, <4>1, ItemOrder
    <3> QED BY <2>6, <3>1, <3>2, <3>3
  <2>9. ASSUME ~Misplaced(x, y, versus)
        PROVE  z = y /\ \A i \in 1 .. r : ~Misplaced(s[i], z, versus)
    <3>1. z = y
      BY <2>2, <2>9 DEF Better
    <3> QED BY <2>4, <2>6, <2>9, <3>1
  <2>10. \E i \in 1 .. r : z = s[i]
    BY <2>3, <2>5, <2>7, <2>8, <2>9
  <2>11. \A i \in 1 .. r : ~Misplaced(s[i], z, versus)
    BY <2>8, <2>9
  <2> QED BY <2>1, <2>10, <2>11
<1> HIDE DEF P
<1>14. m \in P
  <2>1. \A k \in 0 .. m - 1 : k \in P => k + 1 \in P
    BY <1>13
  <2>2. m \in Nat /\ m \in 0 .. m
    BY <1>1
  <2> QED BY ONLY <1>12, <2>1, <2>2, UpTo
<1> QED BY <1>1, <1>14 DEF P, BestOf

\* list_get_minmax() finds the greatest item for 1 and the least one for -1.
LEMMA MinmaxFinds ==
  ASSUME numels \in Nat, numels > 0, Items \in Seq(Data), Len(Items) = numels
  PROVE  /\ list_get_minmax(1) = Max(ToSet(Items))
         /\ list_get_minmax(-1) = Min(ToSet(Items))
<1> DEFINE n == numels
           s == Items
           S == ToSet(s)
           Best(versus) == list_get_minmax(versus)
<1>1. n \in Nat /\ n >= 1 /\ s \in Seq(Data) /\ Len(s) = n
  OBVIOUS
<1>2. \A i \in 1 .. n : s[i] \in Nat
  <2>1. s \in Seq(Nat)
    BY DataAreNumbers
  <2> QED BY <1>1, <2>1
<1>3. S = {s[i] : i \in 1 .. n}
  BY <1>1 DEF ToSet
<1>4. ASSUME NEW versus \in Versus
      PROVE  /\ \E j \in 1 .. n : Best(versus) = s[j]
             /\ \A i \in 1 .. n : ~Misplaced(s[i], Best(versus), versus)
  <2> DEFINE best == CHOOSE w : w = [k \in 1 .. n |->
                                      IF k = 1 THEN s[1] ELSE Better(s[k], w[k - 1], versus)]
  <2>1. Best(versus) = best[n]
    BY <1>1 DEF list_get_minmax
  <2>2. Running(best, s, n, versus)
    BY DEF Running
  <2> HIDE DEF best, n, s
  <2>3. BestOf(best[n], s, n, versus)
    BY <1>1, <1>2, <2>2, BestIs
  <2> HIDE DEF Best
  <2> QED BY <2>1, <2>3 DEF BestOf
<1> HIDE DEF n, s
<1>5. list_get_minmax(1) \in S /\ \A x \in S : list_get_minmax(1) >= x
  <2>1. 1 \in Versus
    BY DEF Versus
  <2>2. PICK j \in 1 .. n : Best(1) = s[j]
    BY <1>4, <2>1
  <2>3. \A i \in 1 .. n : ~Misplaced(s[i], Best(1), 1)
    BY <1>4, <2>1
  <2>4. \A i \in 1 .. n : ~(s[i] > Best(1))
    BY <1>2, <2>1, <2>2, <2>3, ItemOrder
  <2>5. \A i \in 1 .. n : Best(1) >= s[i]
    BY <1>2, <2>2, <2>4
  <2> QED BY <1>3, <2>2, <2>5
<1>6. list_get_minmax(-1) \in S /\ \A x \in S : list_get_minmax(-1) <= x
  <2>1. -1 \in Versus
    BY DEF Versus
  <2>2. PICK j \in 1 .. n : Best(-1) = s[j]
    BY <1>4, <2>1
  <2>3. \A i \in 1 .. n : ~Misplaced(s[i], Best(-1), -1)
    BY <1>4, <2>1
  <2>4. \A i \in 1 .. n : ~(Best(-1) > s[i])
    BY <1>2, <2>1, <2>2, <2>3, ItemOrder
  <2>5. \A i \in 1 .. n : Best(-1) <= s[i]
    BY <1>2, <2>2, <2>4
  <2> QED BY <1>3, <2>2, <2>5
<1>7. \A x \in S : x \in Nat
  BY <1>2, <1>3
<1> HIDE DEF S, Best
<1>8. Max(S) = list_get_minmax(1)
  <2>1. \A x \in S : (\A y \in S : x >= y) => x = list_get_minmax(1)
    BY <1>5, <1>7
  <2> QED BY <1>5, <2>1 DEF Max
<1>9. Min(S) = list_get_minmax(-1)
  <2>1. \A x \in S : (\A y \in S : x <= y) => x = list_get_minmax(-1)
    BY <1>6, <1>7
  <2> QED BY <1>6, <2>1 DEF Min
<1> QED BY <1>8, <1>9 DEF S, s

-----------------------------------------------------------------------------
(* Walks along the links.                                                  *)

Link == [Entry -> Entry \cup {NULL}]

LEMMA EntryFacts ==
  /\ Cells \in Nat
  /\ HeadSentinel \in Entry /\ TailSentinel \in Entry
  /\ HeadSentinel # NULL /\ TailSentinel # NULL /\ HeadSentinel # TailSentinel
  /\ \A e \in Entry : e # NULL
  /\ \A e \in Cell : e \in Entry /\ e # HeadSentinel /\ e # TailSentinel
  /\ \A e \in Entry : e = HeadSentinel \/ e = TailSentinel \/ e \in Cell
BY SimcListAssumption DEF HeadSentinel, TailSentinel, Entry, Cell, NULL

\* A walk that goes step by step through c ends where c does.
LEMMA FollowAlong ==
  ASSUME NEW link, NEW e, NEW n \in Nat, NEW c,
         c[0] = e, \A k \in 1 .. n : c[k] = Step(link, c[k - 1])
  PROVE  Follow(link, e, n) = c[n]
<1> DEFINE Walk(w) == w = [k \in 0 .. n |-> IF k = 0 THEN e ELSE Step(link, w[k - 1])]
           w == CHOOSE w : Walk(w)
<1>1. CASE n = 0
  BY <1>1 DEF Follow
<1>2. CASE n # 0
  <2>1. Follow(link, e, n) = w[n]
    BY <1>2 DEF Follow
  <2>2. \E v : Walk(v)
    <3> DEFINE v == [k \in 0 .. n |-> c[k]]
    <3>1. \A k \in 0 .. n : v[k] = c[k]
      OBVIOUS
    <3> HIDE DEF v
    <3>2. \A k \in 0 .. n : c[k] = IF k = 0 THEN e ELSE Step(link, v[k - 1])
      <4> SUFFICES ASSUME NEW k \in 0 .. n
                   PROVE  c[k] = IF k = 0 THEN e ELSE Step(link, v[k - 1])
        OBVIOUS
      <4>1. CASE k = 0
        BY <4>1
      <4>2. CASE k # 0
        <5>1. k \in 1 .. n /\ k - 1 \in 0 .. n
          BY <4>2
        <5> QED BY <3>1, <4>2, <5>1
      <4> QED BY <4>1, <4>2
    <3>3. Walk(v)
      BY <3>2 DEF v
    <3> QED BY <3>3
  <2>3. Walk(w)
    BY <2>2
  <2> HIDE DEF w
  <2> DEFINE P == {k \in 0 .. n : w[k] = c[k]}
  <2>4. 0 \in P
    BY <2>3
  <2>5. ASSUME NEW k \in 0 .. n - 1, k \in P
        PROVE  k + 1 \in P
    <3>1. k + 1 \in 1 .. n /\ (k + 1) - 1 = k /\ k + 1 # 0
      OBVIOUS
    <3>2. w[k + 1] = Step(link, w[k])
      BY <2>3, <3>1
    <3>3. c[k + 1] = Step(link, c[k])
      BY <3>1
    <3>4. w[k] = c[k]
      BY <2>5
    <3> QED BY <3>1, <3>2, <3>3, <3>4
  <2> HIDE DEF P
  <2>6. n \in P
    BY <2>4, <2>5, UpTo
  <2> QED BY <2>1, <2>6 DEF P
<1> QED BY <1>1, <1>2

\* The n cells of the list in their order, with a sentinel on either side and
\* NULL behind the last: c[pos + 1] is the entry at pos.
Linked(c, nx, pv, n) ==
  /\ n \in Nat
  /\ nx \in Link /\ pv \in Link
  /\ c[0] = HeadSentinel /\ c[n + 1] = TailSentinel /\ c[n + 2] = NULL
  /\ \A k \in 1 .. n : c[k] \in Cell
  /\ \A i, j \in 1 .. n : c[i] = c[j] => i = j
  /\ \A k \in 0 .. n + 1 : nx[c[k]] = c[k + 1]
  /\ \A k \in 1 .. n + 1 : pv[c[k]] = c[k - 1]
  /\ pv[HeadSentinel] = NULL

LEMMA LinkedEntries ==
  ASSUME NEW c, NEW nx, NEW pv, NEW n, Linked(c, nx, pv, n)
  PROVE  /\ n \in Nat
         /\ \A k \in 0 .. n + 1 : c[k] \in Entry /\ c[k] # NULL
         /\ \A i, j \in 0 .. n + 1 : c[i] = c[j] => i = j
         /\ \A k \in 0 .. n + 1 : k \in 1 .. n <=> c[k] \in Cell
<1>1. \A k \in 0 .. n + 1 : k = 0 \/ k = n + 1 \/ k \in 1 .. n
  BY DEF Linked
<1>2. \A k \in 1 .. n : c[k] # HeadSentinel /\ c[k] # TailSentinel /\ c[k] \in Entry
  BY EntryFacts DEF Linked
<1>3. HeadSentinel \notin Cell /\ TailSentinel \notin Cell
  BY EntryFacts
<1>4. \A k \in 0 .. n + 1 : c[k] \in Entry /\ c[k] # NULL
  BY <1>1, <1>2, EntryFacts DEF Linked
<1>5. ASSUME NEW i \in 0 .. n + 1, NEW j \in 0 .. n + 1, c[i] = c[j]
      PROVE  i = j
  BY <1>1, <1>2, <1>5, EntryFacts DEF Linked
<1>6. ASSUME NEW k \in 0 .. n + 1
      PROVE  k \in 1 .. n <=> c[k] \in Cell
  BY <1>1, <1>3 DEF Linked
<1> QED BY <1>4, <1>5, <1>6 DEF Linked

\* Walks from one entry to another.
LEMMA Forward ==
  ASSUME NEW c, NEW nx, NEW pv, NEW n, Linked(c, nx, pv, n),
         NEW j \in 0 .. n + 2, NEW m \in 0 .. n + 2 - j
  PROVE  Follow(nx, c[j], m) = c[j + m]
<1> DEFINE d == [k \in 0 .. m |-> c[j + k]]
<1>1. n \in Nat /\ m \in Nat /\ d[0] = c[j] /\ d[m] = c[j + m]
  BY DEF Linked
<1>2. ASSUME NEW k \in 1 .. m
      PROVE  d[k] = Step(nx, d[k - 1])
  <2>1. j + (k - 1) \in 0 .. n + 1 /\ (j + (k - 1)) + 1 = j + k
    BY <1>1
  <2>2. d[k] = c[j + k] /\ d[k - 1] = c[j + (k - 1)]
    BY <1>1
  <2>3. nx[c[j + (k - 1)]] = c[j + k]
    BY <2>1 DEF Linked
  <2>4. c[j + (k - 1)] # NULL
    BY <2>1, LinkedEntries
  <2> QED BY <2>2, <2>3, <2>4 DEF Step
<1> HIDE DEF d
<1> QED BY <1>1, <1>2, FollowAlong

LEMMA Backward ==
  ASSUME NEW c, NEW nx, NEW pv, NEW n, Linked(c, nx, pv, n),
         NEW j \in 0 .. n + 1, NEW m \in 0 .. j
  PROVE  Follow(pv, c[j], m) = c[j - m]
<1> DEFINE d == [k \in 0 .. m |-> c[j - k]]
<1>1. n \in Nat /\ m \in Nat /\ d[0] = c[j] /\ d[m] = c[j - m]
  BY DEF Linked
<1>2. ASSUME NEW k \in 1 .. m
      PROVE  d[k] = Step(pv, d[k - 1])
  <2>1. j - (k - 1) \in 1 .. n + 1 /\ (j - (k - 1)) - 1 = j - k
    BY <1>1
  <2>2. d[k] = c[j - k] /\ d[k - 1] = c[j - (k - 1)]
    BY <1>1
  <2>3. pv[c[j - (k - 1)]] = c[j - k]
    BY <2>1 DEF Linked
  <2>4. c[j - (k - 1)] # NULL
    BY <2>1, LinkedEntries
  <2> QED BY <2>2, <2>3, <2>4 DEF Step
<1> HIDE DEF d
<1> QED BY <1>1, <1>2, FollowAlong

Middle(c, n) == IF n = 0 THEN NULL ELSE c[(n - 1) \div 2 + 1]

\* list_findpos() finds the entry, whichever quarter it is in.
LEMMA FindposFinds ==
  ASSUME NEW c, Linked(c, next, prev, numels), mid = Middle(c, numels),
         NEW pos \in -1 .. numels
  PROVE  list_findpos(pos) = c[pos + 1]
<1> DEFINE x == 4 * (pos + 1)
           middle == (numels - 1) \div 2
<1>0. numels \in Nat /\ pos \in Int
  BY DEF Linked
<1>1. CASE numels > 0 /\ x <= numels
  <2>1. list_findpos(pos) = Follow(next, HeadSentinel, pos + 1)
    BY <1>0, <1>1 DEF list_findpos
  <2>2. pos + 1 \in 0 .. numels + 2 - 0 /\ 0 + (pos + 1) = pos + 1 /\ 0 \in 0 .. numels + 2
    BY <1>0
  <2>3. c[0] = HeadSentinel
    BY DEF Linked
  <2> QED BY <2>1, <2>2, <2>3, Forward
<1>2. CASE numels > 0 /\ x > numels /\ x < 2 * numels
  <2>1. list_findpos(pos) = Follow(prev, mid, middle - pos)
    BY <1>0, <1>2 DEF list_findpos
  <2>2. /\ middle + 1 \in 0 .. numels + 1
        /\ middle - pos \in 0 .. middle + 1
        /\ (middle + 1) - (middle - pos) = pos + 1
    BY <1>0, <1>2
  <2>3. mid = c[middle + 1]
    BY <1>0, <1>2 DEF Middle
  <2> QED BY <2>1, <2>2, <2>3, Backward
<1>3. CASE numels > 0 /\ x >= 2 * numels /\ x <= 3 * numels
  <2>1. list_findpos(pos) = Follow(next, mid, pos - middle)
    BY <1>0, <1>3 DEF list_findpos
  <2>2. /\ middle + 1 \in 0 .. numels + 2
        /\ pos - middle \in 0 .. numels + 2 - (middle + 1)
        /\ (middle + 1) + (pos - middle) = pos + 1
    BY <1>0, <1>3
  <2>3. mid = c[middle + 1]
    BY <1>0, <1>3 DEF Middle
  <2> QED BY <2>1, <2>2, <2>3, Forward
<1>4. CASE numels = 0 \/ x > 3 * numels
  <2>1. list_findpos(pos) = Follow(prev, TailSentinel, numels - pos)
    BY <1>0, <1>4 DEF list_findpos
  <2>2. /\ numels + 1 \in 0 .. numels + 1
        /\ numels - pos \in 0 .. numels + 1
        /\ (numels + 1) - (numels - pos) = pos + 1
    BY <1>0
  <2>3. c[numels + 1] = TailSentinel
    BY DEF Linked
  <2> QED BY <2>1, <2>2, <2>3, Backward
<1> QED BY <1>0, <1>1, <1>2, <1>3, <1>4

\* The chain by its links, in this state and in the next.
LEMMA ChainOfLinks ==
  ASSUME NEW c, NEW nx, NEW pv, NEW n, Linked(c, nx, pv, n)
  PROVE  /\ \A pos \in -1 .. n + 1 : Follow(nx, HeadSentinel, pos + 1) = c[pos + 1]
         /\ \A i \in 1 .. n : Follow(nx, HeadSentinel, (i - 1) + 1) = c[i]
<1>1. n \in Nat /\ c[0] = HeadSentinel
  BY DEF Linked
<1>2. ASSUME NEW pos \in -1 .. n + 1
      PROVE  Follow(nx, HeadSentinel, pos + 1) = c[pos + 1]
  <2>1. pos + 1 \in 0 .. n + 2 - 0 /\ 0 + (pos + 1) = pos + 1 /\ 0 \in 0 .. n + 2
    BY <1>1
  <2> QED BY <1>1, <2>1, Forward
<1>3. ASSUME NEW i \in 1 .. n
      PROVE  Follow(nx, HeadSentinel, (i - 1) + 1) = c[i]
  <2>1. i - 1 \in -1 .. n + 1 /\ (i - 1) + 1 = i
    BY <1>1
  <2> QED BY <1>2, <2>1
<1> QED BY <1>2, <1>3

LEMMA ChainIs ==
  ASSUME NEW c, Linked(c, next, prev, numels)
  PROVE  /\ \A pos \in -1 .. numels + 1 : At(pos) = c[pos + 1]
         /\ Chain = [i \in 1 .. numels |-> c[i]]
         /\ Items = [i \in 1 .. numels |-> data[c[i]]]
BY ChainOfLinks DEF At, Chain, Items

LEMMA ChainIsNext ==
  ASSUME NEW c, Linked(c, next', prev', numels')
  PROVE  /\ \A pos \in -1 .. numels' + 1 : At(pos)' = c[pos + 1]
         /\ Chain' = [i \in 1 .. numels' |-> c[i]]
         /\ Items' = [i \in 1 .. numels' |-> data'[c[i]]]
BY ChainOfLinks DEF At, Chain, Items

-----------------------------------------------------------------------------
(* What the calls do to the links.                                         *)

\* The cell lent comes to pos.
Inserted(c, n, pos, lent) ==
  [k \in 0 .. n + 3 |-> IF k <= pos THEN c[k] ELSE IF k = pos + 1 THEN lent ELSE c[k - 1]]

LEMMA LinkedInsert ==
  ASSUME NEW c, NEW nx, NEW pv, NEW n, Linked(c, nx, pv, n),
         NEW pos \in 0 .. n, NEW lent \in Cell, \A k \in 1 .. n : c[k] # lent
  PROVE  Linked(Inserted(c, n, pos, lent),
                [nx EXCEPT ![c[pos]] = lent, ![lent] = c[pos + 1]],
                [pv EXCEPT ![lent] = c[pos], ![c[pos + 1]] = lent],
                n + 1)
<1> DEFINE d == Inserted(c, n, pos, lent)
           nx2 == [nx EXCEPT ![c[pos]] = lent, ![lent] = c[pos + 1]]
           pv2 == [pv EXCEPT ![lent] = c[pos], ![c[pos + 1]] = lent]
<1>0. n \in Nat /\ pos \in 0 .. n + 1 /\ pos + 1 \in 0 .. n + 1
  BY DEF Linked
<1>1. /\ \A k \in 0 .. n + 1 : c[k] \in Entry /\ c[k] # NULL
      /\ \A i, j \in 0 .. n + 1 : c[i] = c[j] => i = j
  BY LinkedEntries
<1>2. \A k \in 0 .. n + 1 : c[k] # lent
  <2>1. ASSUME NEW k \in 0 .. n + 1 PROVE c[k] # lent
    <3>1. k \in 1 .. n \/ c[k] \notin Cell
      BY LinkedEntries
    <3> QED BY <3>1
  <2> QED BY <2>1
<1>3. lent \in Entry /\ lent # NULL /\ lent # HeadSentinel
  BY EntryFacts
<1>4. nx2 \in Link /\ pv2 \in Link
  BY <1>0, <1>1, <1>3 DEF Link, Linked
<1>5. \A e \in Entry : nx2[e] = IF e = lent THEN c[pos + 1]
                                 ELSE IF e = c[pos] THEN lent ELSE nx[e]
  BY <1>0, <1>1, <1>2, <1>3 DEF Link, Linked
<1>6. \A e \in Entry : pv2[e] = IF e = lent THEN c[pos]
                                 ELSE IF e = c[pos + 1] THEN lent ELSE pv[e]
  BY <1>0, <1>1, <1>2, <1>3 DEF Link, Linked
<1>7. \A k \in 0 .. n + 3 : d[k] = IF k <= pos THEN c[k]
                                   ELSE IF k = pos + 1 THEN lent ELSE c[k - 1]
  BY DEF Inserted
<1> HIDE DEF d, nx2, pv2
<1>8. d[0] = HeadSentinel /\ d[n + 2] = TailSentinel /\ d[n + 3] = NULL
  <2>1. c[0] = HeadSentinel /\ c[n + 1] = TailSentinel /\ c[n + 2] = NULL
    BY DEF Linked
  <2>2. n + 2 > pos + 1 /\ n + 3 > pos + 1 /\ 0 <= pos
    BY <1>0
  <2> QED BY <1>0, <1>7, <2>1, <2>2
<1>9. ASSUME NEW k \in 1 .. n + 1
      PROVE  d[k] \in Cell
  <2>1. CASE k <= pos
    BY <1>0, <1>7, <2>1 DEF Linked
  <2>2. CASE k = pos + 1
    BY <1>0, <1>7, <2>2
  <2>3. CASE k > pos + 1
    <3>1. k - 1 \in 1 .. n /\ d[k] = c[k - 1]
      BY <1>0, <1>7, <2>3
    <3> QED BY <3>1 DEF Linked
  <2> QED BY <1>0, <2>1, <2>2, <2>3
<1>10. ASSUME NEW i \in 1 .. n + 1, NEW j \in 1 .. n + 1, d[i] = d[j]
       PROVE  i = j
  <2> DEFINE g(k) == IF k <= pos THEN k ELSE k - 1
  <2>1. \A k \in 1 .. n + 1 : k # pos + 1 => g(k) \in 0 .. n + 1 /\ d[k] = c[g(k)]
    BY <1>0, <1>7
  <2>2. CASE i = pos + 1 \/ j = pos + 1
    <3>1. d[pos + 1] = lent
      BY <1>0, <1>7
    <3>2. \A k \in 1 .. n + 1 : k # pos + 1 => d[k] # lent
      BY <1>2, <2>1
    <3> QED BY <1>10, <2>2, <3>1, <3>2
  <2>3. CASE i # pos + 1 /\ j # pos + 1
    <3>1. g(i) = g(j)
      <4> HIDE DEF g
      <4> QED BY <1>1, <1>10, <2>1, <2>3
    <3> QED BY <1>0, <2>3, <3>1
  <2> QED BY <2>2, <2>3
<1>11. ASSUME NEW k \in 0 .. n + 2
       PROVE  nx2[d[k]] = d[k + 1]
  <2>0. \A j \in 0 .. n + 1 : nx[c[j]] = c[j + 1]
    BY DEF Linked
  <2>1. CASE k < pos
    <3>1. d[k] = c[k] /\ d[k + 1] = c[k + 1] /\ k \in 0 .. n + 1 /\ k # pos
      BY <1>0, <1>7, <2>1
    <3>2. c[k] # c[pos] /\ c[k] # lent /\ c[k] \in Entry
      BY <1>0, <1>1, <1>2, <3>1
    <3> QED BY <1>5, <2>0, <3>1, <3>2
  <2>2. CASE k = pos
    <3>1. d[k] = c[pos] /\ d[k + 1] = lent
      BY <1>0, <1>7, <2>2
    <3> QED BY <1>0, <1>1, <1>2, <1>5, <3>1
  <2>3. CASE k = pos + 1
    <3>1. d[k] = lent /\ d[k + 1] = c[pos + 1]
      BY <1>0, <1>7, <2>3
    <3> QED BY <1>3, <1>5, <3>1
  <2>4. CASE k > pos + 1
    <3>1. /\ d[k] = c[k - 1] /\ d[k + 1] = c[(k - 1) + 1]
          /\ k - 1 \in 0 .. n + 1 /\ k - 1 # pos
      BY <1>0, <1>7, <2>4
    <3>2. c[k - 1] # c[pos] /\ c[k - 1] # lent /\ c[k - 1] \in Entry
      BY <1>0, <1>1, <1>2, <3>1
    <3> QED BY <1>5, <2>0, <3>1, <3>2
  <2> QED BY <1>0, <2>1, <2>2, <2>3, <2>4
<1>12. ASSUME NEW k \in 1 .. n + 2
       PROVE  pv2[d[k]] = d[k - 1]
  <2>0. \A j \in 1 .. n + 1 : pv[c[j]] = c[j - 1]
    BY DEF Linked
  <2>1. CASE k <= pos
    <3>1. d[k] = c[k] /\ d[k - 1] = c[k - 1] /\ k \in 1 .. n + 1 /\ k # pos + 1
      BY <1>0, <1>7, <2>1
    <3>2. c[k] # c[pos + 1] /\ c[k] # lent /\ c[k] \in Entry
      BY <1>0, <1>1, <1>2, <3>1
    <3> QED BY <1>6, <2>0, <3>1, <3>2
  <2>2. CASE k = pos + 1
    <3>1. d[k] = lent /\ d[k - 1] = c[pos]
      BY <1>0, <1>7, <2>2
    <3> QED BY <1>3, <1>6, <3>1
  <2>3. CASE k = pos + 2
    <3>1. d[k] = c[pos + 1] /\ d[k - 1] = lent
      BY <1>0, <1>7, <2>3
    <3> QED BY <1>0, <1>1, <1>2, <1>6, <3>1
  <2>4. CASE k > pos + 2
    <3>1. /\ d[k] = c[k - 1] /\ d[k - 1] = c[(k - 1) - 1]
          /\ k - 1 \in 1 .. n + 1 /\ k - 1 # pos + 1
      BY <1>0, <1>7, <2>4
    <3>2. c[k - 1] # c[pos + 1] /\ c[k - 1] # lent /\ c[k - 1] \in Entry
      BY <1>0, <1>1, <1>2, <3>1
    <3> QED BY <1>6, <2>0, <3>1, <3>2
  <2> QED BY <1>0, <2>1, <2>2, <2>3, <2>4
<1>13. pv2[HeadSentinel] = NULL
  <2>1. HeadSentinel = c[0] /\ pos + 1 # 0 /\ 0 \in 0 .. n + 1
    BY <1>0 DEF Linked
  <2>2. HeadSentinel # c[pos + 1]
    BY <1>0, <1>1, <2>1
  <2> QED BY <1>3, <1>6, <2>2, EntryFacts DEF Linked
<1> QED
  <2>1. n + 1 \in Nat /\ (n + 1) + 1 = n + 2 /\ (n + 1) + 2 = n + 3
    BY <1>0
  <2>2. \A k \in 0 .. (n + 1) + 1 : nx2[d[k]] = d[k + 1]
    BY <1>11, <2>1
  <2>3. \A k \in 1 .. (n + 1) + 1 : pv2[d[k]] = d[k - 1]
    BY <1>12, <2>1
  <2>4. Linked(d, nx2, pv2, n + 1)
    BY <1>4, <1>8, <1>9, <1>10, <1>13, <2>1, <2>2, <2>3 DEF Linked
  <2> QED BY <2>4 DEF d, nx2, pv2

\* The cells at from .. to leave.
Shortened(c, n, from, to) ==
  [k \in 0 .. n - (to - from + 1) + 2 |->
     IF k <= from THEN c[k] ELSE c[k + (to - from + 1)]]

LEMMA LinkedCut ==
  ASSUME NEW c, NEW nx, NEW pv, NEW n, Linked(c, nx, pv, n),
         NEW from \in 0 .. n - 1, NEW to \in from .. n - 1
  PROVE  Linked(Shortened(c, n, from, to),
                [nx EXCEPT ![pv[c[from + 1]]] = nx[c[to + 1]]],
                [pv EXCEPT ![nx[c[to + 1]]] = pv[c[from + 1]]],
                n - (to - from + 1))
<1> DEFINE num == to - from + 1
           m == n - num
           d == Shortened(c, n, from, to)
           nx2 == [nx EXCEPT ![pv[c[from + 1]]] = nx[c[to + 1]]]
           pv2 == [pv EXCEPT ![nx[c[to + 1]]] = pv[c[from + 1]]]
<1>0. /\ n \in Nat /\ num \in Nat /\ num >= 1 /\ m \in Nat /\ m + num = n
      /\ from \in 0 .. m /\ from + num = to + 1 /\ from + 1 + num = to + 2
  BY DEF Linked
<1>1. /\ \A k \in 0 .. n + 1 : c[k] \in Entry /\ c[k] # NULL
      /\ \A i, j \in 0 .. n + 1 : c[i] = c[j] => i = j
  BY LinkedEntries
<1>2. pv[c[from + 1]] = c[from] /\ nx[c[to + 1]] = c[to + 2]
  <2>1. from + 1 \in 1 .. n + 1 /\ to + 1 \in 0 .. n + 1
    BY <1>0
  <2>2. (from + 1) - 1 = from /\ (to + 1) + 1 = to + 2
    BY <1>0
  <2> QED BY <2>1, <2>2 DEF Linked
<1>3. from \in 0 .. n + 1 /\ to + 2 \in 0 .. n + 1
  BY <1>0
<1>4. nx2 \in Link /\ pv2 \in Link
  BY <1>1, <1>2, <1>3 DEF Link, Linked
<1>5. \A e \in Entry : nx2[e] = IF e = c[from] THEN c[to + 2] ELSE nx[e]
  BY <1>1, <1>2, <1>3 DEF Link, Linked
<1>6. \A e \in Entry : pv2[e] = IF e = c[to + 2] THEN c[from] ELSE pv[e]
  BY <1>1, <1>2, <1>3 DEF Link, Linked
<1>7. \A k \in 0 .. m + 2 : d[k] = IF k <= from THEN c[k] ELSE c[k + num]
  BY DEF Shortened
<1> HIDE DEF nx2, pv2, d, m, num
<1>8. d[0] = HeadSentinel /\ d[m + 1] = TailSentinel /\ d[m + 2] = NULL
  <2>1. c[0] = HeadSentinel /\ c[n + 1] = TailSentinel /\ c[n + 2] = NULL
    BY DEF Linked
  <2>2. /\ m + 1 > from /\ m + 2 > from /\ 0 <= from
        /\ (m + 1) + num = n + 1 /\ (m + 2) + num = n + 2
        /\ 0 \in 0 .. m + 2 /\ m + 1 \in 0 .. m + 2 /\ m + 2 \in 0 .. m + 2
    BY <1>0
  <2>3. ~(m + 1 <= from) /\ ~(m + 2 <= from)
    BY <1>0
  <2> QED BY <1>7, <2>1, <2>2, <2>3
<1> DEFINE g(k) == IF k <= from THEN k ELSE k + num
<1>9. /\ \A k \in 0 .. m + 1 : g(k) \in 0 .. n + 1 /\ d[k] = c[g(k)]
      /\ \A k \in 1 .. m : g(k) \in 1 .. n
      /\ \A i, j \in 0 .. m + 1 : g(i) = g(j) => i = j
      /\ \A k \in 0 .. m + 1 : (g(k) = from <=> k = from) /\ (g(k) = to + 2 <=> k = from + 1)
  <2>1. ASSUME NEW k \in 0 .. m + 1
        PROVE  g(k) \in 0 .. n + 1 /\ d[k] = c[g(k)]
    BY <1>0, <1>7
  <2>2. \A k \in 1 .. m : g(k) \in 1 .. n
    BY <1>0
  <2>3. \A i, j \in 0 .. m + 1 : g(i) = g(j) => i = j
    BY <1>0
  <2>4. \A k \in 0 .. m + 1 : (g(k) = from <=> k = from) /\ (g(k) = to + 2 <=> k = from + 1)
    BY <1>0
  <2> QED BY <2>1, <2>2, <2>3, <2>4
<1>10. /\ \A k \in 0 .. m + 1 : k # from => g(k) + 1 = g(k + 1)
       /\ g(from) = from /\ g(from + 1) = to + 2
       /\ \A k \in 1 .. m + 1 : k # from + 1 => g(k) - 1 = g(k - 1) /\ g(k) # 0
  <2>1. \A k \in 0 .. m + 1 : k # from => g(k) + 1 = g(k + 1)
    BY <1>0
  <2>2. g(from) = from /\ g(from + 1) = to + 2
    BY <1>0
  <2>3. \A k \in 1 .. m + 1 : k # from + 1 => g(k) - 1 = g(k - 1) /\ g(k) # 0
    BY <1>0
  <2> QED BY <2>1, <2>2, <2>3
<1>11. d[m + 2] = c[g(m + 2)]
  BY <1>0, <1>7
<1> HIDE DEF g
<1>12. \A k \in 1 .. m : d[k] \in Cell
  <2>1. ASSUME NEW k \in 1 .. m PROVE d[k] \in Cell
    <3>1. k \in 0 .. m + 1
      BY <1>0
    <3> QED BY <1>9, <3>1 DEF Linked
  <2> QED BY <2>1
<1>13. ASSUME NEW i \in 1 .. m, NEW j \in 1 .. m, d[i] = d[j]
       PROVE  i = j
  <2>1. i \in 0 .. m + 1 /\ j \in 0 .. m + 1
    BY <1>0
  <2>2. c[g(i)] = c[g(j)]
    BY <1>9, <1>13, <2>1
  <2>3. g(i) = g(j)
    BY <1>1, <1>9, <2>1, <2>2
  <2> QED BY <1>9, <2>1, <2>3
<1>14. ASSUME NEW k \in 0 .. m + 1
       PROVE  nx2[d[k]] = d[k + 1]
  <2>0. \A j \in 0 .. n + 1 : nx[c[j]] = c[j + 1]
    BY DEF Linked
  <2>1. d[k] = c[g(k)] /\ g(k) \in 0 .. n + 1 /\ c[g(k)] \in Entry
    BY <1>1, <1>9
  <2>2. d[k + 1] = c[g(k + 1)]
    <3>1. k + 1 \in 0 .. m + 1 \/ k + 1 = m + 2
      BY <1>0
    <3> QED BY <1>9, <1>11, <3>1
  <2>3. CASE k = from
    BY <1>5, <1>10, <2>1, <2>2, <2>3
  <2>4. CASE k # from
    <3>1. g(k) # from
      BY <1>9, <2>4
    <3>2. c[g(k)] # c[from]
      BY <1>1, <1>3, <2>1, <3>1
    <3>3. nx2[d[k]] = nx[c[g(k)]]
      BY <1>5, <2>1, <3>2
    <3>4. g(k) + 1 = g(k + 1)
      BY <1>10, <2>4
    <3> QED BY <2>0, <2>1, <2>2, <3>3, <3>4
  <2> QED BY <2>3, <2>4
<1>15. ASSUME NEW k \in 1 .. m + 1
       PROVE  pv2[d[k]] = d[k - 1]
  <2>0. \A j \in 1 .. n + 1 : pv[c[j]] = c[j - 1]
    BY DEF Linked
  <2>1. k \in 0 .. m + 1 /\ k - 1 \in 0 .. m + 1
    BY <1>0
  <2>2. /\ d[k] = c[g(k)] /\ g(k) \in 0 .. n + 1 /\ c[g(k)] \in Entry
        /\ d[k - 1] = c[g(k - 1)]
    BY <1>1, <1>9, <2>1
  <2>3. CASE k = from + 1
    <3>1. k - 1 = from
      BY <1>0, <2>3
    <3> QED BY <1>6, <1>10, <2>2, <2>3, <3>1
  <2>4. CASE k # from + 1
    <3>1. g(k) # to + 2
      BY <1>9, <2>1, <2>4
    <3>2. c[g(k)] # c[to + 2]
      BY <1>1, <1>3, <2>2, <3>1
    <3>3. pv2[d[k]] = pv[c[g(k)]]
      BY <1>6, <2>2, <3>2
    <3>4. g(k) - 1 = g(k - 1) /\ g(k) # 0
      BY <1>10, <2>4
    <3>5. g(k) \in 1 .. n + 1
      BY <1>0, <2>2, <3>4
    <3> QED BY <2>0, <2>2, <3>3, <3>4, <3>5
  <2> QED BY <2>3, <2>4
<1>16. pv2[HeadSentinel] = NULL
  <2>1. HeadSentinel = c[0] /\ to + 2 # 0 /\ 0 \in 0 .. n + 1
    BY <1>0 DEF Linked
  <2>2. HeadSentinel # c[to + 2]
    BY <1>1, <1>3, <2>1
  <2> QED BY <1>6, <2>2, EntryFacts DEF Linked
<1> QED
  <2>1. Linked(d, nx2, pv2, m)
    BY <1>0, <1>4, <1>8, <1>12, <1>13, <1>14, <1>15, <1>16 DEF Linked
  <2> QED BY <2>1 DEF d, nx2, pv2, m, num

\* A new list, of cells in a row.
Row(n) == [k \in 0 .. n + 2 |-> IF k <= n THEN k ELSE IF k = n + 1 THEN TailSentinel ELSE NULL]

LEMMA LinkedNew ==
  ASSUME NEW s, Len(s) \in Nat, Len(s) <= Cells
  PROVE  Linked(Row(Len(s)), NewNext(s), NewPrev(s), Len(s))
<1> DEFINE n == Len(s)
           c == Row(n)
<1>1. n \in Nat /\ n <= Cells /\ Cells \in Nat
  BY EntryFacts
<1> HIDE DEF n
<1>2. /\ \A k \in 0 .. n : c[k] = k
      /\ c[n + 1] = TailSentinel /\ c[n + 2] = NULL
  BY <1>1 DEF Row
<1> HIDE DEF c
<1>3. /\ \A e \in 0 .. Cells + 1 : e < n => NewNext(s)[e] = e + 1
      /\ \A e \in 0 .. Cells + 1 : e = n => NewNext(s)[e] = TailSentinel
      /\ \A e \in 0 .. Cells + 1 : e > n => NewNext(s)[e] = NULL
  BY <1>1 DEF NewNext, Entry, HeadSentinel, TailSentinel, n
<1>4. /\ NewPrev(s)[TailSentinel] = n
      /\ \A e \in 1 .. n : NewPrev(s)[e] = e - 1
      /\ NewPrev(s)[HeadSentinel] = NULL
  BY <1>1 DEF NewPrev, Entry, HeadSentinel, TailSentinel, n
<1>5. NewNext(s) \in Link
  <2>1. \A e \in Entry : NewNext(s)[e] \in Entry \cup {NULL}
    BY <1>1, <1>3 DEF Entry, HeadSentinel, TailSentinel
  <2> QED BY <2>1 DEF Link, NewNext
<1>6. NewPrev(s) \in Link
  <2>1. \A e \in Entry : NewPrev(s)[e] \in Entry \cup {NULL}
    BY <1>1 DEF NewPrev, Entry, HeadSentinel, TailSentinel, n
  <2> QED BY <2>1 DEF Link, NewPrev
<1>7. c[0] = HeadSentinel
  BY <1>1, <1>2 DEF HeadSentinel
<1>8. \A k \in 1 .. n : c[k] \in Cell
  BY <1>1, <1>2 DEF Cell
<1>9. \A i, j \in 1 .. n : c[i] = c[j] => i = j
  BY <1>1, <1>2
<1>10. ASSUME NEW k \in 0 .. n + 1
       PROVE  NewNext(s)[c[k]] = c[k + 1]
  <2>1. CASE k < n
    <3>1. k \in 0 .. n /\ k + 1 \in 0 .. n /\ k \in 0 .. Cells + 1
      BY <1>1, <2>1
    <3> QED BY <1>2, <1>3, <2>1, <3>1
  <2>2. CASE k = n
    <3>1. k \in 0 .. n /\ k \in 0 .. Cells + 1
      BY <1>1, <2>2
    <3> QED BY <1>2, <1>3, <2>2, <3>1
  <2>3. CASE k = n + 1
    <3>1. TailSentinel \in 0 .. Cells + 1 /\ TailSentinel > n /\ k + 1 = n + 2
      BY <1>1, <2>3 DEF TailSentinel
    <3> QED BY <1>2, <1>3, <2>3, <3>1
  <2> QED BY <1>1, <2>1, <2>2, <2>3
<1>11. ASSUME NEW k \in 1 .. n + 1
       PROVE  NewPrev(s)[c[k]] = c[k - 1]
  <2>1. CASE k <= n
    <3>1. k \in 1 .. n /\ k \in 0 .. n /\ k - 1 \in 0 .. n
      BY <1>1, <2>1
    <3> QED BY <1>2, <1>4, <3>1
  <2>2. CASE k = n + 1
    <3>1. n \in 0 .. n /\ k - 1 = n
      BY <1>1, <2>2
    <3> QED BY <1>2, <1>4, <2>2, <3>1
  <2> QED BY <1>1, <2>1, <2>2
<1>12. Linked(c, NewNext(s), NewPrev(s), n)
  BY <1>1, <1>2, <1>4, <1>5, <1>6, <1>7, <1>8, <1>9, <1>10, <1>11 DEF Linked
<1> QED BY <1>12 DEF c, n

\* Nothing between the sentinels.
LEMMA LinkedClear ==
  ASSUME NEW c, NEW nx, NEW pv, NEW n, Linked(c, nx, pv, n)
  PROVE  Linked(Row(0), [nx EXCEPT ![HeadSentinel] = TailSentinel],
                [pv EXCEPT ![TailSentinel] = HeadSentinel], 0)
<1> DEFINE d == Row(0)
           nx2 == [nx EXCEPT ![HeadSentinel] = TailSentinel]
           pv2 == [pv EXCEPT ![TailSentinel] = HeadSentinel]
<1>1. d[0] = HeadSentinel /\ d[1] = TailSentinel /\ d[2] = NULL
  BY DEF Row, HeadSentinel
<1>2. nx[TailSentinel] = NULL
  <2>1. n \in Nat /\ n + 1 \in 0 .. n + 1 /\ (n + 1) + 1 = n + 2
    BY DEF Linked
  <2>2. nx[c[n + 1]] = c[(n + 1) + 1]
    BY <2>1 DEF Linked
  <2> QED BY <2>1, <2>2 DEF Linked
<1>3. nx2 \in Link /\ pv2 \in Link
  BY EntryFacts DEF Link, Linked
<1>4. /\ nx2[HeadSentinel] = TailSentinel /\ nx2[TailSentinel] = NULL
      /\ pv2[TailSentinel] = HeadSentinel /\ pv2[HeadSentinel] = NULL
  BY <1>2, EntryFacts DEF Link, Linked
<1> HIDE DEF d, nx2, pv2
<1>5. \A k \in 0 .. 0 + 1 : nx2[d[k]] = d[k + 1]
  <2>1. \A k \in 0 .. 0 + 1 : k = 0 \/ k = 1
    OBVIOUS
  <2> QED BY <1>1, <1>4, <2>1
<1>6. \A k \in 1 .. 0 + 1 : pv2[d[k]] = d[k - 1]
  <2>1. \A k \in 1 .. 0 + 1 : k = 1
    OBVIOUS
  <2> QED BY <1>1, <1>4, <2>1
<1>7. d[0 + 1] = TailSentinel /\ d[0 + 2] = NULL
  BY <1>1
<1>8. Linked(d, nx2, pv2, 0)
  BY <1>1, <1>3, <1>4, <1>5, <1>6, <1>7 DEF Linked
<1> QED BY <1>8 DEF d, nx2, pv2

-----------------------------------------------------------------------------
(* The middle after each call.                                             *)

\* The halves a list is in, as the proofs below need them.
LEMMA Halves ==
  ASSUME NEW n \in Nat
  PROVE  \/ \E h \in Nat : /\ n = 2 * h /\ n % 2 = 0 /\ n \div 2 = h
                           /\ (n - 1) \div 2 = h - 1 /\ (n - 2) \div 2 = h - 1
                           /\ (n + 1) % 2 = 1
         \/ \E h \in Nat : /\ n = 2 * h + 1 /\ n % 2 = 1 /\ n \div 2 = h
                           /\ (n - 1) \div 2 = h /\ (n - 2) \div 2 = h - 1
                           /\ (n + 1) % 2 = 0
<1> DEFINE h == n \div 2
<1>1. h \in Nat /\ (n = 2 * h \/ n = 2 * h + 1)
  OBVIOUS
<1> HIDE DEF h
<1>2. CASE n = 2 * h
  <2>1. /\ (2 * h) % 2 = 0 /\ (2 * h) \div 2 = h /\ (2 * h - 1) \div 2 = h - 1
        /\ (2 * h - 2) \div 2 = h - 1 /\ (2 * h + 1) % 2 = 1
    BY <1>1
  <2> QED BY <1>1, <1>2, <2>1
<1>3. CASE n = 2 * h + 1
  <2>1. /\ (2 * h + 1) % 2 = 1 /\ (2 * h + 1) \div 2 = h /\ ((2 * h + 1) - 1) \div 2 = h
        /\ ((2 * h + 1) - 2) \div 2 = h - 1 /\ ((2 * h + 1) + 1) % 2 = 0
    BY <1>1
  <2> QED BY <1>1, <1>3, <2>1
<1> QED BY <1>1, <1>2, <1>3

LEMMA MiddleInsert ==
  ASSUME NEW c, Linked(c, next, prev, numels), mid = Middle(c, numels),
         NEW pos \in 0 .. numels, NEW lent, NEW d, d = Inserted(c, numels, pos, lent),
         Linked(d, next', prev', numels + 1)
  PROVE  MidAfterInsert(pos, lent) = Middle(d, numels + 1)
<1>0. numels \in Nat
  BY DEF Linked
<1>1. \A k \in 0 .. numels + 3 : d[k] = IF k <= pos THEN c[k]
                                        ELSE IF k = pos + 1 THEN lent ELSE c[k - 1]
  BY DEF Inserted
<1>2. /\ \A k \in 0 .. numels + 2 : next'[d[k]] = d[k + 1]
      /\ \A k \in 1 .. numels + 2 : prev'[d[k]] = d[k - 1]
  <2>1. (numels + 1) + 1 = numels + 2
    BY <1>0
  <2> QED BY <2>1 DEF Linked
<1>3. Middle(d, numels + 1) = d[numels \div 2 + 1]
  BY <1>0 DEF Middle
<1>4. CASE numels = 0
  <2>1. MidAfterInsert(pos, lent) = lent
    BY <1>4 DEF MidAfterInsert
  <2>2. d[1] = lent /\ numels \div 2 + 1 = 1
    BY <1>1, <1>4
  <2> QED BY <1>3, <2>1, <2>2
<1>5. ASSUME numels # 0, NEW h \in Nat, numels = 2 * h, (numels + 1) % 2 = 1,
             numels \div 2 = h, (numels - 1) \div 2 = h - 1
      PROVE  MidAfterInsert(pos, lent) = d[h + 1]
  <2>1. mid = c[h] /\ h \in 1 .. numels + 2
    BY <1>0, <1>5 DEF Middle
  <2>2. CASE pos >= h
    <3>1. MidAfterInsert(pos, lent) = next'[mid]
      BY <1>0, <1>5, <2>2 DEF MidAfterInsert
    <3>2. d[h] = c[h]
      BY <1>0, <1>1, <1>5, <2>2
    <3> QED BY <1>2, <2>1, <3>1, <3>2
  <2>3. CASE pos < h
    <3>1. MidAfterInsert(pos, lent) = mid
      BY <1>0, <1>5, <2>3 DEF MidAfterInsert
    <3>2. d[h + 1] = c[h]
      <4>1. h + 1 \in 0 .. numels + 3 /\ ~(h + 1 <= pos) /\ h + 1 # pos + 1 /\ (h + 1) - 1 = h
        BY <1>0, <1>5, <2>3
      <4> QED BY <1>1, <4>1
    <3> QED BY <2>1, <3>1, <3>2
  <2> QED BY <2>2, <2>3
<1>6. ASSUME NEW h \in Nat, numels = 2 * h + 1, (numels + 1) % 2 = 0,
             numels \div 2 = h, (numels - 1) \div 2 = h
      PROVE  MidAfterInsert(pos, lent) = d[h + 1]
  <2>1. mid = c[h + 1]
    BY <1>0, <1>6 DEF Middle
  <2>2. CASE pos <= h
    <3>1. MidAfterInsert(pos, lent) = prev'[mid]
      BY <1>0, <1>6, <2>2 DEF MidAfterInsert
    <3>2. d[h + 2] = c[h + 1]
      <4>1. /\ h + 2 \in 0 .. numels + 3 /\ ~(h + 2 <= pos) /\ h + 2 # pos + 1
            /\ (h + 2) - 1 = h + 1
        BY <1>0, <1>6, <2>2
      <4> QED BY <1>1, <4>1
    <3>3. h + 2 \in 1 .. numels + 2 /\ (h + 2) - 1 = h + 1
      BY <1>6
    <3> QED BY <1>2, <2>1, <3>1, <3>2, <3>3
  <2>3. CASE pos > h
    <3>1. MidAfterInsert(pos, lent) = mid
      BY <1>0, <1>6, <2>3 DEF MidAfterInsert
    <3>2. d[h + 1] = c[h + 1]
      BY <1>0, <1>1, <1>6, <2>3
    <3> QED BY <2>1, <3>1, <3>2
  <2> QED BY <2>2, <2>3
<1> QED BY <1>0, <1>3, <1>4, <1>5, <1>6, Halves

LEMMA MiddleDrop ==
  ASSUME NEW c, Linked(c, next, prev, numels), mid = Middle(c, numels),
         NEW pos \in 0 .. numels - 1
  PROVE  MidAfterDrop(pos) = Middle(Shortened(c, numels, pos, pos), numels - 1)
<1> DEFINE d == Shortened(c, numels, pos, pos)
<1>0. numels \in Nat /\ numels > 0
  BY DEF Linked
<1>1. \A k \in 0 .. numels + 1 : d[k] = IF k <= pos THEN c[k] ELSE c[k + 1]
  <2>1. pos - pos + 1 = 1 /\ numels - 1 + 2 = numels + 1
    BY <1>0
  <2> QED BY <2>1 DEF Shortened
<1> HIDE DEF d
<1>2. /\ \A k \in 0 .. numels + 1 : next[c[k]] = c[k + 1]
      /\ \A k \in 1 .. numels + 1 : prev[c[k]] = c[k - 1]
  BY DEF Linked
<1>3. ASSUME numels = 1
      PROVE  MidAfterDrop(pos) = Middle(d, numels - 1)
  BY <1>3 DEF MidAfterDrop, Middle
<1>4. ASSUME numels # 1
      PROVE  Middle(d, numels - 1) = d[(numels - 2) \div 2 + 1]
  <2>1. (numels - 1) - 1 = numels - 2 /\ numels - 1 # 0
    BY <1>0, <1>4
  <2> QED BY <2>1 DEF Middle
<1>5. ASSUME NEW h \in Nat, numels = 2 * h, numels % 2 = 0, numels \div 2 = h,
             (numels - 1) \div 2 = h - 1
      PROVE  MidAfterDrop(pos) = d[h]
  <2>1. mid = c[h] /\ h \in 1 .. numels
    BY <1>0, <1>5 DEF Middle
  <2>2. CASE pos < h
    <3>1. MidAfterDrop(pos) = next[mid]
      BY <1>0, <1>5, <2>2 DEF MidAfterDrop
    <3>2. d[h] = c[h + 1]
      BY <1>0, <1>1, <2>1, <2>2
    <3> QED BY <1>0, <1>2, <2>1, <3>1, <3>2
  <2>3. CASE pos >= h
    <3>1. MidAfterDrop(pos) = mid
      BY <1>0, <1>5, <2>3 DEF MidAfterDrop
    <3>2. d[h] = c[h]
      BY <1>0, <1>1, <2>1, <2>3
    <3> QED BY <2>1, <3>1, <3>2
  <2> QED BY <1>0, <2>2, <2>3
<1>6. ASSUME numels # 1, NEW h \in Nat, numels = 2 * h + 1, numels % 2 = 1,
             numels \div 2 = h, (numels - 1) \div 2 = h
      PROVE  MidAfterDrop(pos) = d[h]
  <2>1. mid = c[h + 1] /\ h \in 1 .. numels
    BY <1>0, <1>6 DEF Middle
  <2>2. CASE pos >= h
    <3>1. MidAfterDrop(pos) = prev[mid]
      BY <1>0, <1>6, <2>2 DEF MidAfterDrop
    <3>2. d[h] = c[h]
      BY <1>0, <1>1, <2>1, <2>2
    <3>3. h + 1 \in 1 .. numels + 1 /\ (h + 1) - 1 = h
      BY <1>6
    <3> QED BY <1>2, <2>1, <3>1, <3>2, <3>3
  <2>3. CASE pos < h
    <3>1. MidAfterDrop(pos) = mid
      BY <1>0, <1>6, <2>3 DEF MidAfterDrop
    <3>2. d[h] = c[h + 1]
      BY <1>0, <1>1, <2>1, <2>3
    <3> QED BY <2>1, <3>1, <3>2
  <2> QED BY <1>0, <2>2, <2>3
<1>7. MidAfterDrop(pos) = Middle(d, numels - 1)
  <2>1. CASE numels = 1
    BY <1>3, <2>1
  <2>2. CASE numels # 1
    <3>1. CASE \E h \in Nat : /\ numels = 2 * h /\ numels % 2 = 0 /\ numels \div 2 = h
                              /\ (numels - 1) \div 2 = h - 1 /\ (numels - 2) \div 2 = h - 1
      <4>1. PICK h \in Nat : /\ numels = 2 * h /\ numels % 2 = 0 /\ numels \div 2 = h
                             /\ (numels - 1) \div 2 = h - 1 /\ (numels - 2) \div 2 = h - 1
        BY <3>1
      <4>2. (numels - 2) \div 2 + 1 = h
        BY <4>1
      <4> QED BY <1>4, <1>5, <2>2, <4>1, <4>2
    <3>2. CASE \E h \in Nat : /\ numels = 2 * h + 1 /\ numels % 2 = 1 /\ numels \div 2 = h
                              /\ (numels - 1) \div 2 = h /\ (numels - 2) \div 2 = h - 1
      <4>1. PICK h \in Nat : /\ numels = 2 * h + 1 /\ numels % 2 = 1 /\ numels \div 2 = h
                             /\ (numels - 1) \div 2 = h /\ (numels - 2) \div 2 = h - 1
        BY <3>2
      <4>2. (numels - 2) \div 2 + 1 = h
        BY <4>1
      <4> QED BY <1>4, <1>6, <2>2, <4>1, <4>2
    <3> QED BY <1>0, <3>1, <3>2, Halves
  <2> QED BY <2>1, <2>2
<1> QED BY <1>7 DEF d

LEMMA MiddleRange ==
  ASSUME NEW c, Linked(c, next, prev, numels), mid = Middle(c, numels),
         NEW from \in 0 .. numels - 1, NEW to \in from .. numels - 1,
         to - from + 1 # numels
  PROVE  MidAfterRange(from, to)
           = Middle(Shortened(c, numels, from, to), numels - (to - from + 1))
<1> DEFINE d == Shortened(c, numels, from, to)
           numdel == to - from + 1
           after == (numels - 1 - numdel) \div 2
           goal == IF after < from THEN after ELSE after + numdel
           half == (numels - 1) \div 2
           movedx == goal - half
<1>0. numels \in Nat /\ numdel \in Nat /\ numdel >= 1 /\ numdel < numels
  BY DEF Linked
<1>1. /\ after \in Nat /\ after + 1 <= numels - numdel
      /\ half \in Nat /\ half < numels
  BY <1>0
<1>2. goal \in 0 .. numels - 1
  BY <1>0, <1>1
<1>3. mid = c[half + 1]
  BY <1>0 DEF Middle
<1>4. MidAfterRange(from, to) = IF movedx > 0 THEN Follow(next, mid, movedx)
                                               ELSE Follow(prev, mid, -movedx)
  BY DEF MidAfterRange
<1>5. Middle(d, numels - numdel) = d[after + 1]
  <2>1. (numels - numdel) - 1 = numels - 1 - numdel /\ numels - numdel # 0
    BY <1>0
  <2> QED BY <2>1 DEF Middle
<1>6. d[after + 1] = c[goal + 1]
  <2>1. after + 1 \in 0 .. numels - numdel + 2
    BY <1>0, <1>1
  <2>2. d[after + 1] = IF after + 1 <= from THEN c[after + 1] ELSE c[(after + 1) + numdel]
    BY <2>1 DEF Shortened
  <2>3. after + 1 <= from <=> after < from
    BY <1>1
  <2>4. (after + 1) + numdel = (after + numdel) + 1
    BY <1>0, <1>1
  <2> QED BY <2>2, <2>3, <2>4
<1> HIDE DEF d, numdel, after, goal, half
<1>7. CASE movedx > 0
  <2>1. /\ half + 1 \in 0 .. numels + 2 /\ movedx \in 0 .. numels + 2 - (half + 1)
        /\ (half + 1) + movedx = goal + 1
    BY <1>0, <1>1, <1>2, <1>7
  <2>2. Follow(next, mid, movedx) = c[goal + 1]
    BY <1>3, <2>1, Forward
  <2> QED BY <1>4, <1>5, <1>6, <1>7, <2>2 DEF d, numdel
<1>8. CASE ~(movedx > 0)
  <2>1. /\ half + 1 \in 0 .. numels + 1 /\ -movedx \in 0 .. half + 1
        /\ (half + 1) - (-movedx) = goal + 1
    BY <1>0, <1>1, <1>2, <1>8
  <2>2. Follow(prev, mid, -movedx) = c[goal + 1]
    BY <1>3, <2>1, Backward
  <2> QED BY <1>4, <1>5, <1>6, <1>8, <2>2 DEF d, numdel
<1> QED BY <1>7, <1>8

LEMMA MiddleConcat ==
  ASSUME NEW n1 \in Nat, NEW n2 \in Nat, Linked(Row(n1 + n2), next', prev', n1 + n2)
  PROVE  MidOfConcat(n1, n2) = Middle(Row(n1 + n2), n1 + n2)
<1> DEFINE n == n1 + n2
           c == Row(n)
           err == n2 - n1
<1>1. n \in Nat /\ \A k \in 0 .. n : c[k] = k
  BY DEF Row
<1>2. c[n1] = n1 /\ n1 \in 0 .. n
  BY <1>1
<1> HIDE DEF c
<1>3. ASSUME n = 0
      PROVE  MidOfConcat(n1, n2) = Middle(c, n)
  BY <1>3 DEF MidOfConcat, Middle
<1>4. ASSUME n # 0
      PROVE  MidOfConcat(n1, n2) = Middle(c, n)
  <2>1. Middle(c, n) = c[(n - 1) \div 2 + 1]
    BY <1>4 DEF Middle
  <2>2. CASE err > 0
    <3>1. MidOfConcat(n1, n2) = Follow(next', n1, (err + 1) \div 2)
      BY <1>1, <1>4, <2>2 DEF MidOfConcat
    <3>2. /\ (err + 1) \div 2 \in 0 .. n + 2 - n1
          /\ n1 + (err + 1) \div 2 = (n - 1) \div 2 + 1
          /\ n1 \in 0 .. n + 2
      BY <2>2
    <3>3. Linked(c, next', prev', n)
      BY DEF c
    <3>4. Follow(next', c[n1], (err + 1) \div 2) = c[n1 + (err + 1) \div 2]
      <4> HIDE DEF n, err
      <4> QED BY <3>2, <3>3, Forward
    <3> QED BY <1>2, <2>1, <3>1, <3>2, <3>4
  <2>3. CASE err < -1
    <3>1. MidOfConcat(n1, n2) = Follow(prev', n1, (-err) \div 2)
      BY <1>1, <1>4, <2>3 DEF MidOfConcat
    <3>2. /\ (-err) \div 2 \in 0 .. n1
          /\ n1 - (-err) \div 2 = (n - 1) \div 2 + 1
          /\ n1 \in 0 .. n + 1
      BY <2>3
    <3>3. Linked(c, next', prev', n)
      BY DEF c
    <3>4. Follow(prev', c[n1], (-err) \div 2) = c[n1 - (-err) \div 2]
      <4> HIDE DEF n, err
      <4> QED BY <3>2, <3>3, Backward
    <3> QED BY <1>2, <2>1, <3>1, <3>2, <3>4
  <2>4. CASE err \in {-1, 0}
    <3>1. MidOfConcat(n1, n2) = n1
      BY <1>1, <1>4, <2>4 DEF MidOfConcat
    <3>2. (n - 1) \div 2 + 1 = n1
      BY <2>4
    <3> QED BY <1>2, <2>1, <3>1, <3>2
  <2> QED BY <2>2, <2>3, <2>4
<1> QED BY <1>3, <1>4 DEF c

-----------------------------------------------------------------------------
(* Cells in use, spare and free.                                           *)

CellsOf(c, n) == {c[i] : i \in 1 .. n}

\* The cells U of the list and the spares are the allocated ones, each once.
Stocked(U, sp, hp) ==
  /\ U \subseteq Cell
  /\ sp \in Seq(Cell) /\ Len(sp) <= MaxSpare
  /\ \A i, j \in 1 .. Len(sp) : sp[i] = sp[j] => i = j
  /\ \A i \in 1 .. Len(sp) : sp[i] \notin U
  /\ hp = U \cup {sp[i] : i \in 1 .. Len(sp)}

LEMMA SetOf ==
  ASSUME NEW S, NEW s \in Seq(S)
  PROVE  ToSet(s) = {s[i] : i \in 1 .. Len(s)}
BY DEF ToSet

\* A list without repetition has as many members as its length.
LEMMA CountOf ==
  ASSUME NEW n \in Nat, NEW s, \A i, j \in 1 .. n : s[i] = s[j] => i = j
  PROVE  /\ IsFiniteSet({s[i] : i \in 1 .. n})
         /\ Cardinality({s[i] : i \in 1 .. n}) = n
<1> DEFINE T == {s[i] : i \in 1 .. n}
           f == [i \in 1 .. n |-> s[i]]
<1>1. f \in Bijection(1 .. n, T)
  BY DEF Bijection, Injection, Surjection, IsInjective
<1>2. 1 \in Int /\ n \in Int /\ IsFiniteSet(1 .. n) /\ Cardinality(1 .. n) = n
  <2>1. IsFiniteSet(1 .. n) /\ Cardinality(1 .. n) = IF 1 > n THEN 0 ELSE n - 1 + 1
    BY FS_Interval
  <2> QED BY <2>1
<1>3. ExistsBijection(1 .. n, T)
  BY <1>1 DEF ExistsBijection
<1> HIDE DEF T, f
<1>4. IsFiniteSet(T) /\ Cardinality(T) = Cardinality(1 .. n)
  BY <1>2, <1>3, FS_Bijection
<1> QED BY <1>2, <1>4 DEF T

LEMMA StockCount ==
  ASSUME NEW c, NEW nx, NEW pv, NEW n, Linked(c, nx, pv, n),
         NEW sp, NEW hp, Stocked(CellsOf(c, n), sp, hp)
  PROVE  Cardinality(hp) = n + Len(sp)
<1> DEFINE U == CellsOf(c, n)
           V == {sp[i] : i \in 1 .. Len(sp)}
<1>1. IsFiniteSet(U) /\ Cardinality(U) = n
  BY CountOf DEF Linked, CellsOf
<1>2. IsFiniteSet(V) /\ Cardinality(V) = Len(sp)
  <2>1. Len(sp) \in Nat /\ \A i, j \in 1 .. Len(sp) : sp[i] = sp[j] => i = j
    BY DEF Stocked
  <2> DEFINE m == Len(sp)
  <2>2. m \in Nat /\ \A i, j \in 1 .. m : sp[i] = sp[j] => i = j
    BY <2>1
  <2>3. IsFiniteSet({sp[i] : i \in 1 .. m}) /\ Cardinality({sp[i] : i \in 1 .. m}) = m
    <3> HIDE DEF m
    <3> QED BY <2>2, CountOf
  <2> QED BY <2>3
<1>3. U \cap V = {} /\ hp = U \cup V
  BY DEF Stocked
<1> HIDE DEF U, V
<1>4. Cardinality(U \cap V) = 0
  BY <1>3, FS_EmptySet
<1>5. Cardinality(U \cup V) = Cardinality(U) + Cardinality(V) - Cardinality(U \cap V)
  BY <1>1, <1>2, FS_Union
<1>6. n \in Nat /\ Len(sp) \in Nat
  BY DEF Linked, Stocked
<1> QED BY <1>1, <1>2, <1>3, <1>4, <1>5, <1>6

\* The last spare cell is lent.
LEMMA LendSpare ==
  ASSUME NEW U, NEW sp, NEW hp, Stocked(U, sp, hp), sp # <<>>
  PROVE  /\ Last(sp) \in Cell /\ Last(sp) \notin U
         /\ Stocked(U \cup {Last(sp)}, Front(sp), hp \cup {Last(sp)})
<1> DEFINE n == Len(sp)
           lent == Last(sp)
           fr == Front(sp)
<1>1. sp \in Seq(Cell) /\ n \in Nat /\ n >= 1
  BY DEF Stocked
<1>2. lent = sp[n] /\ lent \in Cell
  BY <1>1 DEF Last
<1>3. fr \in Seq(Cell) /\ Len(fr) = n - 1 /\ \A i \in 1 .. n - 1 : fr[i] = sp[i]
  <2>1. fr = SubSeq(sp, 1, n - 1) /\ n - 1 \in 0 .. n
    BY <1>1 DEF Front
  <2> QED BY <1>1, <2>1, FirstPart
<1>4. lent \notin U
  BY <1>1, <1>2 DEF Stocked
<1> HIDE DEF lent, fr
<1>5. \A i \in 1 .. n - 1 : sp[i] # lent
  BY <1>1, <1>2 DEF Stocked
<1>6. {sp[i] : i \in 1 .. n} = {fr[i] : i \in 1 .. n - 1} \cup {lent}
  BY <1>1, <1>2, <1>3
<1>7. hp \cup {lent} = (U \cup {lent}) \cup {fr[i] : i \in 1 .. n - 1}
  BY <1>6 DEF Stocked
<1>8. MaxSpare \in Nat /\ n <= MaxSpare
  BY SimcListAssumption DEF Stocked
<1>9. /\ \A i, j \in 1 .. n - 1 : fr[i] = fr[j] => i = j
      /\ \A i \in 1 .. n - 1 : fr[i] \notin U \cup {lent}
  BY <1>1, <1>3, <1>5 DEF Stocked
<1>10. U \cup {lent} \subseteq Cell
  BY <1>2 DEF Stocked
<1>11. Stocked(U \cup {lent}, fr, hp \cup {lent})
  <2>1. Len(fr) <= MaxSpare
    BY <1>1, <1>3, <1>8
  <2> QED BY <1>3, <1>7, <1>9, <1>10, <2>1 DEF Stocked
<1> QED BY <1>2, <1>4, <1>11 DEF lent, fr

\* A free cell is lent.
LEMMA LendNew ==
  ASSUME NEW U, NEW sp, NEW hp, Stocked(U, sp, hp), NEW lent \in Cell, lent \notin hp
  PROVE  lent \notin U /\ Stocked(U \cup {lent}, sp, hp \cup {lent})
<1>1. lent \notin U /\ \A i \in 1 .. Len(sp) : sp[i] # lent
  BY DEF Stocked
<1>2. hp \cup {lent} = (U \cup {lent}) \cup {sp[i] : i \in 1 .. Len(sp)}
  BY DEF Stocked
<1> QED BY <1>1, <1>2 DEF Stocked

\* Cells that leave the list become spares, as long as there is room.
LEMMA ReleaseKeepsStock ==
  ASSUME NEW U, NEW sp, NEW hp, Stocked(U, sp, hp),
         NEW cells \in Seq(Cell), \A i \in 1 .. Len(cells) : cells[i] \in U,
         \A i, j \in 1 .. Len(cells) : cells[i] = cells[j] => i = j,
         NEW room, room = Min({MaxSpare - Len(sp), Len(cells)})
  PROVE  Stocked(U \ ToSet(cells), sp \o SubSeq(cells, 1, room),
                 hp \ ToSet(SubSeq(cells, room + 1, Len(cells))))
<1> DEFINE n == Len(cells)
           m == Len(sp)
           a == SubSeq(cells, 1, room)
           b == SubSeq(cells, room + 1, n)
<1>1. n \in Nat /\ m \in Nat /\ sp \in Seq(Cell) /\ MaxSpare \in Nat /\ m <= MaxSpare
  BY SimcListAssumption DEF Stocked
<1>2. room \in 0 .. n /\ m + room <= MaxSpare
  <2> DEFINE S == {MaxSpare - m, n}
  <2>1. S \in SUBSET Nat /\ S # {}
    BY <1>1
  <2>2. \E i \in S : \A j \in S : i <= j
    <3> HIDE DEF S
    <3> QED BY <2>1, Least
  <2>3. room \in S /\ \A j \in S : room <= j
    BY <2>2 DEF Min
  <2> QED BY <1>1, <2>3
<1> HIDE DEF n, m
<1>3. a \in Seq(Cell) /\ Len(a) = room /\ \A i \in 1 .. room : a[i] = cells[i]
  <2>1. room \in 0 .. Len(cells)
    BY <1>2 DEF n
  <2> QED BY <2>1, FirstPart
<1>4. /\ b \in Seq(Cell) /\ Len(b) = n - room
      /\ \A i \in 1 .. n - room : b[i] = cells[room + i]
  <2>1. room \in 0 .. Len(cells)
    BY <1>2 DEF n
  <2>2. /\ SubSeq(cells, room + 1, Len(cells)) \in Seq(Cell)
        /\ Len(SubSeq(cells, room + 1, Len(cells))) = Len(cells) - room
        /\ \A i \in 1 .. Len(cells) - room :
             SubSeq(cells, room + 1, Len(cells))[i] = cells[room + i]
    BY <2>1, LastPart
  <2> QED BY <2>2 DEF n
<1> DEFINE new == sp \o a
<1> HIDE DEF a, b
<1>5. /\ new \in Seq(Cell) /\ Len(new) = m + room
      /\ \A i \in 1 .. m + room : new[i] = IF i <= m THEN sp[i] ELSE cells[i - m]
  <2>1. /\ new \in Seq(Cell) /\ Len(new) = m + room
        /\ \A i \in 1 .. m + room : new[i] = IF i <= m THEN sp[i] ELSE a[i - m]
    <3>1. Len(sp) = m /\ room \in Nat
      BY <1>2 DEF m
    <3>2. EndToEnd(new, Cell, sp, a, m, room)
      BY ONLY <1>1, <1>3, <3>1, Joined DEF new
    <3> QED BY <3>2 DEF EndToEnd
  <2>2. \A i \in 1 .. m + room : ~(i <= m) => i - m \in 1 .. room
    BY <1>1, <1>2
  <2> QED BY <1>3, <2>1, <2>2
<1> HIDE DEF new
<1>6. ToSet(cells) = {cells[i] : i \in 1 .. n} /\ ToSet(b) = {b[i] : i \in 1 .. n - room}
  BY <1>4, SetOf DEF n
<1>7. /\ \A i \in 1 .. m : sp[i] \notin U
      /\ \A i, j \in 1 .. m : sp[i] = sp[j] => i = j
      /\ hp = U \cup {sp[i] : i \in 1 .. m}
      /\ U \subseteq Cell
  BY DEF Stocked, m
<1>8. /\ \A i \in 1 .. n : cells[i] \in U
      /\ \A i, j \in 1 .. n : cells[i] = cells[j] => i = j
  BY DEF n
<1>9. ASSUME NEW i \in 1 .. m + room, i <= m
      PROVE  i \in 1 .. m /\ new[i] = sp[i] /\ new[i] \notin U
  <2>1. i \in 1 .. m
    BY <1>1, <1>2, <1>9
  <2> QED BY <1>5, <1>7, <1>9, <2>1
<1>14. ASSUME NEW i \in 1 .. m + room, ~(i <= m)
       PROVE  i - m \in 1 .. n /\ i - m <= room /\ new[i] = cells[i - m] /\ new[i] \in U
  <2>1. i - m \in 1 .. n /\ i - m <= room
    BY <1>1, <1>2, <1>14
  <2> QED BY <1>5, <1>8, <1>14, <2>1
<1>10. ASSUME NEW i \in 1 .. m + room, NEW j \in 1 .. m + room, new[i] = new[j]
       PROVE  i = j
  <2>1. CASE i <= m /\ j <= m
    BY <1>7, <1>9, <1>10, <2>1
  <2>2. CASE ~(i <= m) /\ ~(j <= m)
    <3>1. i - m = j - m
      BY <1>8, <1>10, <1>14, <2>2
    <3> QED BY <1>1, <3>1
  <2>3. CASE i <= m /\ ~(j <= m)
    BY <1>9, <1>10, <1>14, <2>3
  <2>4. CASE ~(i <= m) /\ j <= m
    BY <1>9, <1>10, <1>14, <2>4
  <2> QED BY <2>1, <2>2, <2>3, <2>4
<1>11. ASSUME NEW i \in 1 .. m + room
       PROVE  new[i] \notin U \ ToSet(cells)
  <2>1. CASE i <= m
    BY <1>9, <2>1
  <2>2. CASE ~(i <= m)
    BY <1>6, <1>14, <2>2
  <2> QED BY <2>1, <2>2
<1>12. hp \ ToSet(b) = (U \ ToSet(cells)) \cup {new[i] : i \in 1 .. m + room}
  <2>1. ASSUME NEW e \in hp, e \notin ToSet(b), e \notin U \ ToSet(cells)
        PROVE  \E i \in 1 .. m + room : e = new[i]
    <3>1. CASE e \in ToSet(cells)
      <4>1. PICK i \in 1 .. n : e = cells[i]
        BY <1>6, <3>1
      <4>2. i <= room
        <5> SUFFICES ASSUME i > room PROVE FALSE
          BY <1>2
        <5>1. i - room \in 1 .. n - room /\ room + (i - room) = i
          BY <1>1, <1>2
        <5>2. b[i - room] = e
          BY <1>4, <4>1, <5>1
        <5> QED BY <1>6, <2>1, <5>1, <5>2
      <4>3. m + i \in 1 .. m + room /\ ~(m + i <= m) /\ (m + i) - m = i
        BY <1>1, <1>2, <4>2
      <4> QED BY <1>5, <4>1, <4>3
    <3>2. CASE e \notin ToSet(cells)
      <4>1. PICK i \in 1 .. m : e = sp[i]
        BY <1>7, <2>1, <3>2
      <4>2. i \in 1 .. m + room /\ i <= m
        BY <1>1, <1>2
      <4> QED BY <1>5, <4>1, <4>2
    <3> QED BY <3>1, <3>2
  <2>2. ASSUME NEW e \in U \ ToSet(cells)
        PROVE  e \in hp /\ e \notin ToSet(b)
    <3>1. ASSUME NEW i \in 1 .. n - room PROVE b[i] \in ToSet(cells)
      <4>1. room + i \in 1 .. n
        BY <1>1, <1>2
      <4>2. b[i] = cells[room + i]
        BY <1>4
      <4> QED BY <1>6, <4>1, <4>2
    <3>2. e \in hp
      BY <1>7
    <3>3. ASSUME e \in ToSet(b) PROVE FALSE
      <4>1. PICK i \in 1 .. n - room : e = b[i]
        BY <1>6, <3>3
      <4> QED BY <3>1, <4>1
    <3> QED BY <3>2, <3>3
  <2>3. ASSUME NEW i \in 1 .. m + room
        PROVE  new[i] \in hp /\ new[i] \notin ToSet(b)
    <3>1. CASE i <= m
      <4>1. new[i] = sp[i] /\ i \in 1 .. m /\ new[i] \notin U
        BY <1>9, <3>1
      <4>2. \A j \in 1 .. n - room : b[j] \in U
        <5>1. \A j \in 1 .. n - room : room + j \in 1 .. n
          BY <1>1, <1>2
        <5> QED BY <1>4, <1>8, <5>1
      <4> QED BY <1>6, <1>7, <4>1, <4>2
    <3>2. CASE ~(i <= m)
      <4>1. /\ new[i] = cells[i - m] /\ i - m \in 1 .. n /\ i - m <= room
            /\ new[i] \in hp
        BY <1>7, <1>14, <3>2
      <4>2. ASSUME NEW j \in 1 .. n - room PROVE b[j] # cells[i - m]
        <5>1. room + j \in 1 .. n /\ room + j # i - m
          BY <1>1, <1>2, <4>1
        <5> QED BY <1>4, <1>8, <4>1, <5>1
      <4> QED BY <1>6, <4>1, <4>2
    <3> QED BY <3>1, <3>2
  <2> DEFINE N == {new[i] : i \in 1 .. m + room}
  <2>4. \A e \in hp \ ToSet(b) : e \in (U \ ToSet(cells)) \cup N
    BY <2>1
  <2>5. \A e \in N : e \in hp \ ToSet(b)
    BY <2>3
  <2>6. \A e \in U \ ToSet(cells) : e \in hp \ ToSet(b)
    BY <2>2
  <2> HIDE DEF N
  <2>7. hp \ ToSet(b) = (U \ ToSet(cells)) \cup N
    BY ONLY <2>4, <2>5, <2>6
  <2> QED BY <2>7 DEF N
<1>13. Stocked(U \ ToSet(cells), new, hp \ ToSet(b))
  <2>1. U \ ToSet(cells) \subseteq Cell /\ Len(new) <= MaxSpare
    BY <1>2, <1>5, <1>7
  <2> QED BY <1>5, <1>10, <1>11, <1>12, <2>1 DEF Stocked
<1> QED BY <1>13 DEF new, a, b, n

LEMMA CellsInserted ==
  ASSUME NEW c, NEW n \in Nat, NEW pos \in 0 .. n, NEW lent
  PROVE  CellsOf(Inserted(c, n, pos, lent), n + 1) = CellsOf(c, n) \cup {lent}
<1> DEFINE d == Inserted(c, n, pos, lent)
<1>1. \A k \in 1 .. n + 1 : d[k] = IF k <= pos THEN c[k] ELSE IF k = pos + 1 THEN lent ELSE c[k - 1]
  BY DEF Inserted
<1> HIDE DEF d
<1>2. ASSUME NEW k \in 1 .. n + 1
      PROVE  d[k] \in CellsOf(c, n) \cup {lent}
  <2>1. CASE k <= pos
    BY <1>1, <2>1 DEF CellsOf
  <2>2. CASE k = pos + 1
    BY <1>1, <2>2
  <2>3. CASE k > pos + 1
    <3>1. k - 1 \in 1 .. n /\ d[k] = c[k - 1]
      BY <1>1, <2>3
    <3> QED BY <3>1 DEF CellsOf
  <2> QED BY <2>1, <2>2, <2>3
<1>3. lent \in CellsOf(d, n + 1)
  <2>1. pos + 1 \in 1 .. n + 1 /\ d[pos + 1] = lent
    BY <1>1
  <2> QED BY <2>1 DEF CellsOf
<1>4. ASSUME NEW k \in 1 .. n
      PROVE  c[k] \in CellsOf(d, n + 1)
  <2>1. CASE k <= pos
    <3>1. k \in 1 .. n + 1 /\ d[k] = c[k]
      BY <1>1, <2>1
    <3> QED BY <3>1 DEF CellsOf
  <2>2. CASE k > pos
    <3>1. k + 1 \in 1 .. n + 1 /\ d[k + 1] = c[k]
      <4>1. k + 1 \in 1 .. n + 1 /\ ~(k + 1 <= pos) /\ k + 1 # pos + 1 /\ (k + 1) - 1 = k
        BY <2>2
      <4> QED BY <1>1, <4>1
    <3> QED BY <3>1 DEF CellsOf
  <2> QED BY <2>1, <2>2
<1>5. CellsOf(d, n + 1) = CellsOf(c, n) \cup {lent}
  <2>1. CellsOf(d, n + 1) \subseteq CellsOf(c, n) \cup {lent}
    BY <1>2 DEF CellsOf
  <2>2. CellsOf(c, n) \subseteq CellsOf(d, n + 1)
    BY <1>4 DEF CellsOf
  <2> QED BY <1>3, <2>1, <2>2
<1> QED BY <1>5 DEF d

\* The cells that a range of positions has, and what stays without them.
CellsAt(c, from, to) == {c[i] : i \in from + 1 .. to + 1}

LEMMA CellsShortened ==
  ASSUME NEW c, NEW n \in Nat, NEW from \in 0 .. n - 1, NEW to \in from .. n - 1,
         \A i, j \in 1 .. n : c[i] = c[j] => i = j,
         NEW d, d = Shortened(c, n, from, to), NEW m, m = n - (to - from + 1)
  PROVE  CellsOf(d, m) = CellsOf(c, n) \ CellsAt(c, from, to)
<1> DEFINE num == to - from + 1
<1>0. num \in Nat /\ m \in Nat /\ m + num = n /\ from + num = to + 1 /\ from <= m
  OBVIOUS
<1>1. \A k \in 1 .. m : d[k] = IF k <= from THEN c[k] ELSE c[k + num]
  BY DEF Shortened
<1> HIDE DEF num
<1>2. ASSUME NEW k \in 1 .. m
      PROVE  d[k] \in CellsOf(c, n) /\ d[k] \notin CellsAt(c, from, to)
  <2> DEFINE g == IF k <= from THEN k ELSE k + num
  <2>1. g \in 1 .. n /\ g \notin from + 1 .. to + 1 /\ d[k] = c[g]
    BY <1>0, <1>1
  <2>2. \A i \in from + 1 .. to + 1 : i \in 1 .. n
    BY <1>0
  <2> HIDE DEF g
  <2> QED BY <2>1, <2>2 DEF CellsOf, CellsAt
<1>3. ASSUME NEW i \in 1 .. n, c[i] \notin CellsAt(c, from, to)
      PROVE  c[i] \in CellsOf(d, m)
  <2>1. i \notin from + 1 .. to + 1
    BY <1>3 DEF CellsAt
  <2>2. CASE i <= from
    <3>1. i \in 1 .. m /\ d[i] = c[i]
      BY <1>0, <1>1, <2>2
    <3> QED BY <3>1 DEF CellsOf
  <2>3. CASE i > to + 1
    <3>1. i - num \in 1 .. m /\ ~(i - num <= from) /\ (i - num) + num = i
      BY <1>0, <2>3
    <3>2. d[i - num] = c[i]
      BY <1>1, <3>1
    <3> QED BY <3>1, <3>2 DEF CellsOf
  <2> QED BY <2>1, <2>2, <2>3
<1>4. CellsOf(d, m) = CellsOf(c, n) \ CellsAt(c, from, to)
  <2>1. CellsOf(d, m) \subseteq CellsOf(c, n) \ CellsAt(c, from, to)
    BY <1>2 DEF CellsOf
  <2>2. CellsOf(c, n) \ CellsAt(c, from, to) \subseteq CellsOf(d, m)
    BY <1>3 DEF CellsOf
  <2> QED BY <2>1, <2>2
<1> QED BY <1>4

-----------------------------------------------------------------------------
(* The inductive invariant: the list is in order, with c its entries. *)

InOrder(c) ==
  /\ Linked(c, next, prev, numels)
  /\ mid = Middle(c, numels)
  /\ Stocked(CellsOf(c, numels), spareels, heap)
  /\ data \in [Entry -> Data \cup {NULL}]
  /\ \A k \in 1 .. numels : data[c[k]] \in Data
  /\ iter_active \in BOOLEAN /\ iter_pos \in Nat
  /\ iter_active => iter_pos \in 0 .. numels + 1 /\ iter_curentry = c[iter_pos + 1]

\* The sentinel at the end has nothing to return to a session that gets there.
IInv == data[TailSentinel] = NULL /\ \E c : InOrder(c)

LEMMA InitInOrder ==
  ASSUME Init
  PROVE  IInv
<1> DEFINE c == Row(0)
<1>1. numels = 0 /\ Len(<<>>) = 0 /\ Cells \in Nat
  BY EntryFacts DEF Init
<1>2. Linked(c, next, prev, numels)
  <2>1. Linked(Row(Len(<<>>)), NewNext(<<>>), NewPrev(<<>>), Len(<<>>))
    BY <1>1, LinkedNew
  <2> QED BY <1>1, <2>1 DEF Init
<1>3. Stocked(CellsOf(c, numels), spareels, heap)
  <2>1. CellsOf(c, 0) = {}
    BY DEF CellsOf
  <2>2. spareels = <<>> /\ heap = {} /\ MaxSpare \in Nat
    BY SimcListAssumption DEF Init
  <2>3. Len(spareels) = 0 /\ spareels \in Seq(Cell) /\ 1 .. 0 = {}
    BY <2>2
  <2> QED BY <1>1, <2>1, <2>2, <2>3 DEF Stocked
<1>4. data \in [Entry -> Data \cup {NULL}]
  <2>1. data = [e \in Entry |-> IF e \in {} THEN <<>>[e] ELSE NULL]
    BY DEF Init, NewData
  <2> QED BY <2>1
<1>5. mid = Middle(c, numels)
  BY <1>1 DEF Init, Middle
<1>6. iter_active \in BOOLEAN /\ ~iter_active /\ iter_pos \in Nat
  BY DEF Init
<1>8. \A k \in 1 .. numels : data[c[k]] \in Data
  BY <1>1
<1> HIDE DEF c
<1>7. InOrder(c)
  BY <1>2, <1>3, <1>4, <1>5, <1>6, <1>8 DEF InOrder
<1>9. data[TailSentinel] = NULL
  <2>1. TailSentinel \in Entry /\ TailSentinel \notin {}
    BY EntryFacts
  <2>2. data = [e \in Entry |-> IF e \in {} THEN <<>>[e] ELSE NULL]
    BY DEF Init, NewData
  <2> QED BY <2>1, <2>2
<1> QED BY <1>7, <1>9 DEF IInv

\* As long as links and sizes stay, so does the order.
LEMMA Undisturbed ==
  ASSUME NEW c, InOrder(c), UNCHANGED <<next, prev, size>>,
         data' \in [Entry -> Data \cup {NULL}],
         \A k \in 1 .. numels : data'[c[k]] \in Data,
         iter_active' \in BOOLEAN, iter_pos' \in Nat,
         iter_active' => iter_pos' \in 0 .. numels + 1 /\ iter_curentry' = c[iter_pos' + 1]
  PROVE  InOrder(c)'
<1>2. mid' = mid /\ spareels' = spareels /\ heap' = heap
  BY DEF size
<1>3. numels' = numels
  BY DEF size
<1>4. next' = next /\ prev' = prev
  OBVIOUS
<1> QED BY <1>2, <1>3, <1>4 DEF InOrder

LEMMA LentCell ==
  ASSUME heap \subseteq Cell, heap # Cell
  PROVE  Min(Cell \ heap) \in Cell \ heap
<1> DEFINE S == Cell \ heap
<1>1. S \in SUBSET Nat
  BY SimcListAssumption DEF Cell
<1>3. S # {}
  <2> SUFFICES ASSUME S = {} PROVE FALSE
    OBVIOUS
  <2>1. heap = Cell
    OBVIOUS
  <2> QED BY <2>1
<1> HIDE DEF S
<1>2. \E i \in S : \A j \in S : i <= j
  BY <1>1, <1>3, Least
<1>4. Min(S) \in S
  BY <1>2 DEF Min
<1> QED BY <1>4 DEF S

\* An insertion that is not refused.
LEMMA InsertKeeps ==
  ASSUME NEW c, InOrder(c), NEW x \in Data, NEW pos \in 0 .. numels,
         list_insert_at(x, pos),
         ~(iter_active \/ pos > numels \/ (~(spareels # <<>>) /\ heap = Cell))
  PROVE  \E lent, d : /\ InOrder(d)' /\ lent \notin CellsOf(c, numels) /\ lent \in Cell
                      /\ d = Inserted(c, numels, pos, lent)
                      /\ numels' = numels + 1
                      /\ data' = [data EXCEPT ![lent] = x]
                      /\ ~iter_active /\ ~iter_active'
<1> DEFINE spare == spareels # <<>>
           lent == IF spare THEN Last(spareels) ELSE Min(Cell \ heap)
           prec == list_findpos(pos - 1)
           succ == next[prec]
           U == CellsOf(c, numels)
<1>1. /\ next' = [next EXCEPT ![prec] = lent, ![lent] = succ]
      /\ prev' = [prev EXCEPT ![lent] = prec, ![succ] = lent]
      /\ data' = [data EXCEPT ![lent] = x]
      /\ heap' = heap \cup {lent}
      /\ spareels' = IF spare THEN Front(spareels) ELSE spareels
      /\ numels' = numels + 1
      /\ mid' = MidAfterInsert(pos, lent)
      /\ UNCHANGED session
  BY DEF list_insert_at
<1>2. /\ Linked(c, next, prev, numels) /\ mid = Middle(c, numels)
      /\ Stocked(U, spareels, heap) /\ numels \in Nat
  BY DEF InOrder, Linked
<1>3. prec = c[pos] /\ succ = c[pos + 1]
  <2>1. pos - 1 \in -1 .. numels /\ (pos - 1) + 1 = pos /\ pos \in 0 .. numels + 1
    BY <1>2
  <2>2. prec = c[pos]
    BY <1>2, <2>1, FindposFinds
  <2> QED BY <1>2, <2>1, <2>2 DEF Linked
<1>4. lent \in Cell /\ lent \notin U /\ Stocked(U \cup {lent}, spareels', heap')
  <2>1. CASE spare
    BY <1>1, <1>2, <2>1, LendSpare
  <2>2. CASE ~spare
    <3>1. heap # Cell /\ heap \subseteq Cell
      BY <1>2, <2>2 DEF Stocked
    <3>2. lent \in Cell /\ lent \notin heap
      BY <2>2, <3>1, LentCell
    <3> QED BY <1>1, <1>2, <2>2, <3>2, LendNew
  <2> QED BY <2>1, <2>2
<1> HIDE DEF spare, lent, prec, succ, U
<1> DEFINE d == Inserted(c, numels, pos, lent)
<1>5. PICK e : e = d
  OBVIOUS
<1>6. Linked(e, next', prev', numels')
  <2>1. \A k \in 1 .. numels : c[k] # lent
    BY <1>4 DEF U, CellsOf
  <2> QED BY <1>1, <1>2, <1>3, <1>4, <1>5, <2>1, LinkedInsert
<1>7. mid' = Middle(e, numels')
  <2>1. Linked(e, next', prev', numels + 1)
    BY <1>1, <1>6
  <2>2. MidAfterInsert(pos, lent) = Middle(e, numels + 1)
    BY <1>2, <1>5, <2>1, MiddleInsert
  <2> QED BY <1>1, <2>2
<1>8. Stocked(CellsOf(e, numels'), spareels', heap')
  <2>1. CellsOf(e, numels + 1) = U \cup {lent}
    BY <1>2, <1>5, CellsInserted DEF U
  <2> QED BY <1>1, <1>4, <2>1
<1>9. data \in [Entry -> Data \cup {NULL}] /\ \A k \in 1 .. numels : data[c[k]] \in Data
  BY DEF InOrder
<1>10. lent \in Entry
  BY <1>4, EntryFacts
<1>11. data' \in [Entry -> Data \cup {NULL}]
  BY <1>1, <1>9
<1>12. ASSUME NEW k \in 1 .. numels' PROVE data'[e[k]] \in Data
  <2>1. k \in 1 .. numels + 1 /\ k \in 0 .. numels + 3
    BY <1>1, <1>2
  <2>2. e[k] = IF k <= pos THEN c[k] ELSE IF k = pos + 1 THEN lent ELSE c[k - 1]
    BY <1>5, <2>1 DEF Inserted
  <2>3. data'[lent] = x
    BY <1>1, <1>9, <1>10
  <2>4. \A i \in 1 .. numels : data'[c[i]] = data[c[i]]
    <3>1. \A i \in 1 .. numels : c[i] # lent /\ c[i] \in Entry
      BY <1>2, <1>4, EntryFacts DEF U, CellsOf, Linked
    <3> QED BY <1>1, <1>9, <3>1
  <2>5. CASE k <= pos
    <3>1. k \in 1 .. numels
      BY <1>2, <2>1, <2>5
    <3> QED BY <1>9, <2>2, <2>4, <2>5, <3>1
  <2>6. CASE k = pos + 1
    BY <2>2, <2>3, <2>6
  <2>7. CASE ~(k <= pos) /\ k # pos + 1
    <3>1. k - 1 \in 1 .. numels
      BY <1>2, <2>1, <2>7
    <3> QED BY <1>9, <2>2, <2>4, <2>7, <3>1
  <2> QED BY <2>5, <2>6, <2>7
<1>13. ~iter_active /\ ~iter_active' /\ iter_active' \in BOOLEAN /\ iter_pos' \in Nat
  BY <1>1 DEF InOrder, session
<1>14. InOrder(e)'
  BY <1>6, <1>7, <1>8, <1>11, <1>12, <1>13 DEF InOrder
<1> QED BY <1>1, <1>4, <1>5, <1>13, <1>14 DEF U

\* Entries leave the list, from the position from to the position to.
LEMMA CutKeeps ==
  ASSUME NEW c, InOrder(c), NEW from \in 0 .. numels - 1, NEW to \in from .. numels - 1,
         ~iter_active, Unlink(c[from + 1], c[to + 1]),
         NEW cells \in Seq(Cell), Len(cells) = to - from + 1,
         \A i \in 1 .. Len(cells) : cells[i] = c[from + i], Release(cells),
         numels' = numels - (to - from + 1), UNCHANGED session,
         NEW d, d = Shortened(c, numels, from, to), mid' = Middle(d, numels'),
         data' \in [Entry -> Data \cup {NULL}],
         \A k \in 1 .. numels : k <= from \/ k > to + 1 => data'[c[k]] = data[c[k]]
  PROVE  InOrder(d)'
<1> DEFINE U == CellsOf(c, numels)
           num == to - from + 1
           room == Min({MaxSpare - Len(spareels), Len(cells)})
<1>1. /\ Linked(c, next, prev, numels) /\ numels \in Nat
      /\ Stocked(U, spareels, heap)
      /\ \A i \in 1 .. numels : c[i] \in U
      /\ \A i, j \in 1 .. numels : c[i] = c[j] => i = j
      /\ num \in Nat /\ from + num = to + 1 /\ numels - num \in Nat
  <2>1. Linked(c, next, prev, numels) /\ Stocked(U, spareels, heap)
    BY DEF InOrder
  <2>2. numels \in Nat /\ \A i, j \in 1 .. numels : c[i] = c[j] => i = j
    BY <2>1 DEF Linked
  <2>3. \A i \in 1 .. numels : c[i] \in U
    BY DEF CellsOf
  <2>4. num \in Nat /\ from + num = to + 1 /\ numels - num \in Nat
    BY <2>2
  <2> HIDE DEF U, num
  <2> QED BY <2>1, <2>2, <2>3, <2>4
<1>2. Linked(d, next', prev', numels')
  BY <1>1, LinkedCut DEF Unlink
<1>3. \A i \in 1 .. Len(cells) : from + i \in 1 .. numels /\ from + i \in from + 1 .. to + 1
  BY <1>1
<1>4. Stocked(CellsOf(d, numels'), spareels', heap')
  <2>1. ToSet(cells) = CellsAt(c, from, to)
    <3>1. ToSet(cells) = {cells[i] : i \in 1 .. Len(cells)}
      BY SetOf
    <3>2. ASSUME NEW k \in from + 1 .. to + 1
          PROVE  c[k] \in ToSet(cells)
      <4>1. k - from \in 1 .. Len(cells) /\ from + (k - from) = k
        BY <1>1
      <4>2. cells[k - from] = c[k]
        BY <4>1
      <4> QED BY <3>1, <4>1, <4>2
    <3>3. ASSUME NEW i \in 1 .. Len(cells)
          PROVE  cells[i] \in CellsAt(c, from, to)
      BY <1>3 DEF CellsAt
    <3>4. ToSet(cells) \subseteq CellsAt(c, from, to)
      BY <3>1, <3>3
    <3>5. CellsAt(c, from, to) \subseteq ToSet(cells)
      BY <3>2 DEF CellsAt
    <3> QED BY <3>4, <3>5
  <2>2. CellsOf(d, numels') = U \ ToSet(cells)
    <3>1. numels \in Nat /\ \A i, j \in 1 .. numels : c[i] = c[j] => i = j
      BY <1>1
    <3>2. CellsOf(d, numels') = CellsOf(c, numels) \ CellsAt(c, from, to)
      BY <3>1, CellsShortened
    <3> QED BY <2>1, <3>2
  <2>3. \A i \in 1 .. Len(cells) : cells[i] \in U
    BY <1>1, <1>3
  <2>4. \A i, j \in 1 .. Len(cells) : cells[i] = cells[j] => i = j
    <3> SUFFICES ASSUME NEW i \in 1 .. Len(cells), NEW j \in 1 .. Len(cells),
                        cells[i] = cells[j]
                 PROVE  i = j
      OBVIOUS
    <3>1. c[from + i] = c[from + j]
      OBVIOUS
    <3>2. from + i = from + j
      BY <1>1, <1>3, <3>1
    <3> QED BY <1>1, <3>2
  <2>5. /\ spareels' = spareels \o SubSeq(cells, 1, room)
        /\ heap' = heap \ ToSet(SubSeq(cells, room + 1, Len(cells)))
    BY DEF Release
  <2> HIDE DEF room, U
  <2>6. room = Min({MaxSpare - Len(spareels), Len(cells)})
    BY DEF room
  <2>7. Stocked(U \ ToSet(cells), spareels \o SubSeq(cells, 1, room),
                heap \ ToSet(SubSeq(cells, room + 1, Len(cells))))
    BY ONLY <1>1, <2>3, <2>4, <2>6, cells \in Seq(Cell), ReleaseKeepsStock
  <2> QED BY <2>2, <2>5, <2>7
<1>5. \A k \in 1 .. numels : data[c[k]] \in Data
  BY DEF InOrder
<1>6. ASSUME NEW k \in 1 .. numels' PROVE data'[d[k]] \in Data
  <2>1. k \in 0 .. numels - num + 2 /\ k \in 1 .. numels - num
    BY <1>1
  <2>2. d[k] = IF k <= from THEN c[k] ELSE c[k + num]
    BY <2>1 DEF Shortened
  <2>3. CASE k <= from
    BY <1>1, <1>5, <2>1, <2>2, <2>3
  <2>4. CASE ~(k <= from)
    <3>1. k + num \in 1 .. numels /\ k + num > to + 1
      BY <1>1, <2>1, <2>4
    <3> QED BY <1>5, <2>2, <2>4, <3>1
  <2> QED BY <2>3, <2>4
<1>7. ~iter_active' /\ iter_active' \in BOOLEAN /\ iter_pos' \in Nat
  BY DEF InOrder, session
<1> QED BY <1>2, <1>4, <1>6, <1>7 DEF InOrder

\* The data of the n cells of c is as before but for those from one to another.
Outside(c, n, from, to, old, new) ==
  \A k \in 1 .. n : k <= from \/ k > to + 1 => new[c[k]] = old[c[k]]

LEMMA DropKeeps ==
  ASSUME NEW c, InOrder(c), ~iter_active, NEW pos \in 0 .. numels - 1,
         list_drop_elem(c[pos + 1], pos), data' \in [Entry -> Data \cup {NULL}],
         Outside(c, numels, pos, pos, data, data')
  PROVE  \E d : d = Shortened(c, numels, pos, pos) /\ InOrder(d)'
               /\ numels' = numels - 1 /\ ~iter_active'
<1> DEFINE tmp == c[pos + 1]
           cells == <<tmp>>
<1>0. PICK d : d = Shortened(c, numels, pos, pos)
  OBVIOUS
<1>1. /\ mid' = MidAfterDrop(pos) /\ Unlink(tmp, tmp) /\ Release(cells)
      /\ numels' = numels - 1 /\ UNCHANGED session
  BY DEF list_drop_elem
<1>2. /\ Linked(c, next, prev, numels) /\ mid = Middle(c, numels) /\ numels \in Nat
      /\ pos \in pos .. numels - 1 /\ pos - pos + 1 = 1 /\ pos + 1 \in 1 .. numels
  BY DEF InOrder, Linked
<1>3. tmp \in Cell
  BY <1>2 DEF Linked
<1>4. cells \in Seq(Cell) /\ Len(cells) = pos - pos + 1
  BY <1>2, <1>3
<1>5. \A i \in 1 .. Len(cells) : cells[i] = c[pos + i]
  <2>1. \A i \in 1 .. Len(cells) : i = 1
    BY <1>4, <1>2
  <2>2. cells[1] = c[pos + 1]
    OBVIOUS
  <2> QED BY <2>1, <2>2
<1>6. mid' = Middle(d, numels')
  BY <1>0, <1>1, <1>2, MiddleDrop
<1>7. numels' = numels - (pos - pos + 1)
  BY <1>1, <1>2
<1>8. \A k \in 1 .. numels : k <= pos \/ k > pos + 1 => data'[c[k]] = data[c[k]]
  BY DEF Outside
<1> HIDE DEF cells
<1>9. InOrder(d)'
  BY <1>0, <1>1, <1>2, <1>4, <1>5, <1>6, <1>7, <1>8, CutKeeps
<1>10. ~iter_active'
  BY <1>1 DEF session
<1> QED BY <1>0, <1>1, <1>9, <1>10

LEMMA RangeKeeps ==
  ASSUME NEW c, InOrder(c), ~iter_active,
         NEW from \in 0 .. numels - 1, NEW to \in from .. numels - 1,
         to - from + 1 # numels, list_delete_range(from, to)
  PROVE  \E d : d = Shortened(c, numels, from, to) /\ InOrder(d)'
               /\ numels' = numels - (to - from + 1) /\ data' = data /\ ~iter_active'
<1>0. PICK d : d = Shortened(c, numels, from, to)
  OBVIOUS
<1> DEFINE cells == SubSeq(Chain, from + 1, to + 1)
<1>2. /\ Linked(c, next, prev, numels) /\ mid = Middle(c, numels) /\ numels \in Nat
      /\ from \in Nat /\ to \in Nat /\ to < numels /\ ~(to < from) /\ ~(to >= numels)
      /\ to + 1 \in 1 .. numels /\ from + 1 \in 1 .. numels /\ from \in -1 .. numels
  BY DEF InOrder, Linked
<1>1. /\ mid' = MidAfterRange(from, to) /\ Unlink(list_findpos(from), Chain[to + 1])
      /\ Release(cells) /\ numels' = numels - (to - from + 1)
      /\ UNCHANGED <<data, session>>
  BY <1>2 DEF list_delete_range
<1>3. Chain = [i \in 1 .. numels |-> c[i]]
  BY <1>2, ChainIs
<1>4. list_findpos(from) = c[from + 1] /\ Chain[to + 1] = c[to + 1]
  BY <1>2, <1>3, FindposFinds
<1>5. Chain \in Seq(Cell) /\ Len(Chain) = numels
  <2>1. \A i \in 1 .. numels : c[i] \in Cell
    BY <1>2 DEF Linked
  <2> QED BY <1>2, <1>3, <2>1
<1>6. /\ cells \in Seq(Cell) /\ Len(cells) = to - from + 1
      /\ \A i \in 1 .. Len(cells) : cells[i] = c[from + i]
  <2> DEFINE m == to - from + 1
  <2>1. m \in Nat /\ from \in Nat /\ from + m <= Len(Chain) /\ from + m = to + 1
    BY <1>2, <1>5
  <2>4. m = to - from + 1 /\ cells = SubSeq(Chain, from + 1, from + m)
    BY <2>1
  <2>2. /\ SubSeq(Chain, from + 1, from + m) \in Seq(Cell)
        /\ Len(SubSeq(Chain, from + 1, from + m)) = m
        /\ \A k \in 1 .. m : SubSeq(Chain, from + 1, from + m)[k] = Chain[from + k]
    <3> HIDE DEF m
    <3> QED BY ONLY <1>5, <2>1, PartOf
  <2>3. \A k \in 1 .. m : Chain[from + k] = c[from + k]
    BY <1>2, <1>3
  <2> HIDE DEF m, cells
  <2> QED BY <2>2, <2>3, <2>4
<1>7. mid' = Middle(d, numels')
  BY <1>0, <1>1, <1>2, MiddleRange
<1>8. data' = data /\ data \in [Entry -> Data \cup {NULL}]
  BY <1>1 DEF InOrder
<1> HIDE DEF cells
<1>9. InOrder(d)'
  BY <1>0, <1>1, <1>4, <1>6, <1>7, <1>8, CutKeeps
<1>10. ~iter_active'
  BY <1>1 DEF session
<1> QED BY <1>0, <1>1, <1>8, <1>9, <1>10

LEMMA ClearKeeps ==
  ASSUME NEW c, InOrder(c), ~iter_active, list_clear
  PROVE  InOrder(Row(0))' /\ numels' = 0 /\ ~iter_active'
<1> DEFINE U == CellsOf(c, numels)
           d == Row(0)
           room == Min({MaxSpare - Len(spareels), Len(Chain)})
<1>1. /\ Release(Chain)
      /\ next' = [next EXCEPT ![HeadSentinel] = TailSentinel]
      /\ prev' = [prev EXCEPT ![TailSentinel] = HeadSentinel]
      /\ numels' = 0 /\ mid' = NULL /\ UNCHANGED <<data, session>>
  BY DEF list_clear
<1>2. /\ Linked(c, next, prev, numels) /\ numels \in Nat
      /\ Stocked(U, spareels, heap)
      /\ \A i \in 1 .. numels : c[i] \in U /\ c[i] \in Cell
      /\ \A i, j \in 1 .. numels : c[i] = c[j] => i = j
  BY DEF InOrder, Linked, CellsOf
<1>3. Linked(d, next', prev', numels')
  BY <1>1, <1>2, LinkedClear
<1>4. Chain = [i \in 1 .. numels |-> c[i]]
  BY <1>2, ChainIs
<1>5. /\ Chain \in Seq(Cell) /\ Len(Chain) = numels
      /\ \A i \in 1 .. Len(Chain) : Chain[i] \in U
      /\ \A i, j \in 1 .. Len(Chain) : Chain[i] = Chain[j] => i = j
  BY <1>2, <1>4
<1>6. Stocked(CellsOf(d, numels'), spareels', heap')
  <2>1. ToSet(Chain) = U
    <3>1. ToSet(Chain) = {Chain[i] : i \in 1 .. Len(Chain)}
      BY <1>5, SetOf
    <3>2. \A i \in 1 .. numels : Chain[i] = c[i]
      BY <1>4
    <3> QED BY <1>5, <3>1, <3>2 DEF CellsOf
  <2>2. CellsOf(d, numels') = {}
    BY <1>1 DEF CellsOf
  <2>3. /\ spareels' = spareels \o SubSeq(Chain, 1, room)
        /\ heap' = heap \ ToSet(SubSeq(Chain, room + 1, Len(Chain)))
    BY <1>1 DEF Release
  <2>4. room = Min({MaxSpare - Len(spareels), Len(Chain)})
    OBVIOUS
  <2> HIDE DEF room, U
  <2>5. Stocked(U \ ToSet(Chain), spareels \o SubSeq(Chain, 1, room),
                heap \ ToSet(SubSeq(Chain, room + 1, Len(Chain))))
    BY ONLY <1>2, <1>5, <2>4, ReleaseKeepsStock
  <2>6. U \ ToSet(Chain) = {}
    BY <2>1
  <2> QED BY <2>2, <2>3, <2>5, <2>6
<1>7. mid' = Middle(d, numels')
  BY <1>1 DEF Middle
<1>8. data' \in [Entry -> Data \cup {NULL}]
  BY <1>1 DEF InOrder
<1>9. ~iter_active' /\ iter_active' \in BOOLEAN /\ iter_pos' \in Nat
  BY <1>1 DEF InOrder, session
<1>10. \A k \in 1 .. numels' : data'[d[k]] \in Data
  BY <1>1
<1> HIDE DEF d
<1>11. InOrder(d)'
  BY <1>3, <1>6, <1>7, <1>8, <1>9, <1>10 DEF InOrder
<1> QED BY <1>1, <1>9, <1>11 DEF d

\* A new list, whose cells are in a row.
LEMMA MakeKeeps ==
  ASSUME NEW c, InOrder(c), NEW s \in Seq(Data), Len(s) <= Cells, Make(s),
         mid' = Middle(Row(Len(s)), Len(s))
  PROVE  /\ InOrder(Row(Len(s)))'
         /\ numels' = Len(s) /\ ~iter_active /\ ~iter_active'
         /\ \A k \in 1 .. numels' : data'[Row(Len(s))[k]] = s[k]
<1> DEFINE n == Len(s)
           d == Row(n)
<1>1. /\ next' = NewNext(s) /\ prev' = NewPrev(s) /\ data' = NewData(s)
      /\ heap' = DOMAIN s /\ numels' = n /\ spareels' = <<>>
      /\ UNCHANGED session /\ ~iter_active
  BY DEF Make
<1>2. n \in Nat /\ Cells \in Nat /\ DOMAIN s = 1 .. n /\ n <= Cells
  BY EntryFacts
<1>3. Linked(d, next', prev', numels')
  BY <1>1, <1>2, LinkedNew
<1>4. \A k \in 1 .. n : d[k] = k
  BY <1>2 DEF Row
<1>5. Stocked(CellsOf(d, numels'), spareels', heap')
  <2>1. CellsOf(d, n) = 1 .. n
    BY <1>4 DEF CellsOf
  <2>2. 1 .. n \subseteq Cell
    BY <1>2 DEF Cell
  <2>3. MaxSpare \in Nat
    BY SimcListAssumption
  <2>4. <<>> \in Seq(Cell) /\ Len(<<>>) = 0 /\ 1 .. 0 = {}
    OBVIOUS
  <2>5. Stocked(1 .. n, <<>>, 1 .. n)
    BY <2>2, <2>3, <2>4 DEF Stocked
  <2> QED BY <1>1, <1>2, <2>1, <2>5
<1>6. \A e \in 1 .. n : e \in Entry /\ data'[e] = s[e] /\ s[e] \in Data
  BY <1>1, <1>2 DEF NewData, Entry, HeadSentinel, TailSentinel
<1>7. data' \in [Entry -> Data \cup {NULL}]
  <2>1. \A e \in Entry : (IF e \in DOMAIN s THEN s[e] ELSE NULL) \in Data \cup {NULL}
    BY <1>2, <1>6
  <2> QED BY <1>1, <2>1 DEF NewData
<1>8. \A k \in 1 .. n : data'[d[k]] = s[k] /\ data'[d[k]] \in Data
  BY <1>4, <1>6
<1>9. ~iter_active' /\ iter_active' \in BOOLEAN /\ iter_pos' \in Nat
  BY <1>1 DEF InOrder, session
<1>10. mid' = Middle(d, numels') /\ \A k \in 1 .. numels' : data'[d[k]] \in Data
  BY <1>1, <1>8
<1> HIDE DEF d
<1>11. InOrder(d)'
  BY <1>3, <1>5, <1>7, <1>9, <1>10 DEF InOrder
<1> QED BY <1>1, <1>8, <1>9, <1>11 DEF d

-----------------------------------------------------------------------------
(* The items, as a sequence.                                               *)

LEMMA ItemsAre ==
  ASSUME NEW c, InOrder(c)
  PROVE  /\ numels \in Nat /\ Items \in Seq(Data) /\ Len(Items) = numels
         /\ \A i \in 1 .. numels : Items[i] = data[c[i]]
<1>1. Linked(c, next, prev, numels) /\ numels \in Nat /\ \A k \in 1 .. numels : data[c[k]] \in Data
  BY DEF InOrder, Linked
<1>2. Items = [i \in 1 .. numels |-> data[c[i]]]
  BY <1>1, ChainIs
<1> QED BY <1>1, <1>2

LEMMA ItemsAreNext ==
  ASSUME NEW c, InOrder(c)'
  PROVE  /\ numels' \in Nat /\ Items' \in Seq(Data) /\ Len(Items') = numels'
         /\ \A i \in 1 .. numels' : Items'[i] = data'[c[i]]
<1>1. /\ Linked(c, next', prev', numels') /\ numels' \in Nat
      /\ \A k \in 1 .. numels' : data'[c[k]] \in Data
  BY DEF InOrder, Linked
<1>2. Items' = [i \in 1 .. numels' |-> data'[c[i]]]
  BY <1>1, ChainIsNext
<1> HIDE DEF Items
<1> QED BY <1>1, <1>2

LEMMA SameItems ==
  ASSUME NEW s \in Seq(Data), NEW t \in Seq(Data), Len(s) = Len(t),
         \A i \in 1 .. Len(s) : s[i] = t[i]
  PROVE  s = t
OBVIOUS

\* While links, size and data stay, so do the items.
LEMMA ItemsStay ==
  ASSUME NEW c, InOrder(c), InOrder(c)', numels' = numels, data' = data
  PROVE  Items' = Items
<1>1. Items \in Seq(Data) /\ Len(Items) = numels /\ numels \in Nat
  BY ItemsAre
<1>2. \A i \in 1 .. numels : Items[i] = data[c[i]]
  BY ItemsAre
<1>3. Items' \in Seq(Data) /\ Len(Items') = numels
  BY ItemsAreNext
<1>4. \A i \in 1 .. numels : Items'[i] = data[c[i]]
  BY ItemsAreNext
<1> DEFINE s == Items
           t == Items'
<1>5. s \in Seq(Data) /\ t \in Seq(Data) /\ Len(s) = Len(t)
  BY <1>1, <1>3
<1>6. \A i \in 1 .. Len(s) : t[i] = s[i]
  BY <1>1, <1>2, <1>4
<1> HIDE DEF s, t
<1>7. t = s
  BY <1>5, <1>6, SameItems
<1> QED BY <1>7 DEF s, t

\* A sequence with an item more.
LEMMA InsertAtIs ==
  ASSUME NEW s \in Seq(Data), NEW n \in Nat, Len(s) = n, NEW pos \in 0 .. n, NEW x \in Data,
         NEW r, r = InsertAt(s, pos + 1, x)
  PROVE  /\ r \in Seq(Data) /\ Len(r) = n + 1
         /\ \A k \in 1 .. n + 1 : r[k] = IF k <= pos THEN s[k]
                                         ELSE IF k = pos + 1 THEN x ELSE s[k - 1]
<1> DEFINE a == SubSeq(s, 1, pos)
           b == SubSeq(s, pos + 1, Len(s))
           q == pos + 1
           m == n + 1
<1>1. r = a \o <<x>> \o b
  <2>1. (pos + 1) - 1 = pos
    OBVIOUS
  <2> QED BY <2>1 DEF InsertAt
<1>2. a \in Seq(Data) /\ Len(a) = pos /\ \A k \in 1 .. pos : a[k] = s[k]
  BY FirstPart
<1>3. b \in Seq(Data) /\ Len(b) = n - pos /\ \A k \in 1 .. n - pos : b[k] = s[pos + k]
  BY LastPart
<1> HIDE DEF a, b
<1>4. q \in Nat /\ m \in Nat /\ q >= 1 /\ q <= m /\ Len(a) = q - 1 /\ Len(b) = m - q
  BY <1>2, <1>3
<1> HIDE DEF q, m
<1>5. /\ r \in Seq(Data) /\ Len(r) = m
      /\ \A i \in 1 .. m : r[i] = IF i < q THEN a[i] ELSE IF i = q THEN x ELSE b[i - q]
  <2>1. a \in Seq(Data) /\ b \in Seq(Data)
    BY <1>2, <1>3
  <2>2. Around(r, Data, a, x, b, q, m)
    BY <1>1, <1>4, <2>1, JoinedThree
  <2> QED BY <2>2 DEF Around
<1>6. ASSUME NEW k \in 1 .. m
      PROVE  r[k] = IF k <= pos THEN s[k] ELSE IF k = pos + 1 THEN x ELSE s[k - 1]
  <2>1. CASE k < q
    <3>1. k <= pos /\ k \in 1 .. pos
      BY <2>1 DEF q
    <3> QED BY <1>2, <1>5, <2>1, <3>1
  <2>2. CASE k = q
    <3>1. ~(k <= pos) /\ k = pos + 1 /\ ~(k < q)
      BY <2>2 DEF q
    <3> QED BY <1>5, <2>2, <3>1
  <2>3. CASE ~(k < q) /\ k # q
    <3>1. ~(k <= pos) /\ k # pos + 1 /\ k - q \in 1 .. n - pos /\ pos + (k - q) = k - 1
      BY <2>3 DEF q, m
    <3>2. r[k] = b[k - q] /\ b[k - q] = s[k - 1]
      BY <1>3, <1>5, <2>3, <3>1
    <3> QED BY <3>1, <3>2
  <2> QED BY <2>1, <2>2, <2>3
<1> QED BY <1>5, <1>6 DEF m

\* A sequence without the items from one position to another.
CutOut(r, s, n, from, to) ==
  /\ r \in Seq(Data) /\ Len(r) = n - (to - from + 1)
  /\ \A k \in 1 .. n - (to - from + 1) :
       r[k] = IF k <= from THEN s[k] ELSE s[k + (to - from + 1)]

LEMMA WithoutIs ==
  ASSUME NEW s \in Seq(Data), NEW n \in Nat, Len(s) = n,
         NEW from \in 0 .. n - 1, NEW to \in from .. n - 1,
         NEW r, r = Promise!Without(s, from, to)
  PROVE  CutOut(r, s, n, from, to)
<1> DEFINE a == SubSeq(s, 1, from)
           b == SubSeq(s, (to + 1) + 1, Len(s))
           l == n - (to + 1)
           m == n - (to - from + 1)
<1>1. r = a \o b
  <2>1. to + 2 = (to + 1) + 1
    OBVIOUS
  <2> QED BY <2>1 DEF Promise!Without
<1>2. from \in 0 .. Len(s) /\ to + 1 \in 0 .. Len(s) /\ from \in Nat /\ l \in Nat /\ m = from + l
  OBVIOUS
<1>3. a \in Seq(Data) /\ Len(a) = from /\ \A k \in 1 .. from : a[k] = s[k]
  BY <1>2, FirstPart
<1>4. b \in Seq(Data) /\ Len(b) = l /\ \A k \in 1 .. l : b[k] = s[(to + 1) + k]
  BY <1>2, LastPart
<1> HIDE DEF a, b
<1> HIDE DEF l, m
<1>8. a \in Seq(Data) /\ b \in Seq(Data) /\ Len(a) = from /\ Len(b) = l /\ from \in Nat /\ l \in Nat
  BY <1>2, <1>3, <1>4
<1>5. /\ r \in Seq(Data) /\ Len(r) = from + l
      /\ \A i \in 1 .. from + l : r[i] = IF i <= from THEN a[i] ELSE b[i - from]
  <2>1. EndToEnd(r, Data, a, b, from, l)
    BY <1>1, <1>8, Joined
  <2> QED BY <2>1 DEF EndToEnd
<1>7. ASSUME NEW k \in 1 .. m
      PROVE  r[k] = IF k <= from THEN s[k] ELSE s[k + (to - from + 1)]
  <2>1. k \in 1 .. from + l
    BY <1>2
  <2>2. CASE k <= from
    <3>1. k \in 1 .. from
      BY <2>2
    <3> QED BY <1>3, <1>5, <2>1, <2>2, <3>1
  <2>3. CASE ~(k <= from)
    <3>1. k - from \in 1 .. l /\ (to + 1) + (k - from) = k + (to - from + 1)
      BY <1>2, <2>1, <2>3 DEF l
    <3> QED BY <1>4, <1>5, <2>1, <2>3, <3>1
  <2> QED BY <2>2, <2>3
<1> QED BY <1>2, <1>5, <1>7 DEF m, CutOut

-----------------------------------------------------------------------------
(* What the calls do to the items.                                         *)

\* The refused calls, and those that lose the program: they change nothing.
LEMMA StayStep ==
  ASSUME IInv, UNCHANGED <<links, size, session>>
  PROVE  IInv' /\ Items' = Items
<1>1. PICK c : InOrder(c)
  BY DEF IInv
<1>2. /\ UNCHANGED <<next, prev, size>> /\ data' = data /\ numels' = numels
      /\ iter_active' = iter_active /\ iter_pos' = iter_pos /\ iter_curentry' = iter_curentry
  BY DEF links, size, session
<1>3. InOrder(c)'
  <2>1. data' \in [Entry -> Data \cup {NULL}] /\ \A k \in 1 .. numels : data'[c[k]] \in Data
    BY <1>1, <1>2 DEF InOrder
  <2>2. iter_active' \in BOOLEAN /\ iter_pos' \in Nat
    BY <1>1, <1>2 DEF InOrder
  <2>3. iter_active' => iter_pos' \in 0 .. numels + 1 /\ iter_curentry' = c[iter_pos' + 1]
    BY <1>1, <1>2 DEF InOrder
  <2> QED BY <1>1, <1>2, <2>1, <2>2, <2>3, Undisturbed
<1>4. Items' = Items
  BY <1>1, <1>2, <1>3, ItemsStay
<1>5. data'[TailSentinel] = NULL
  BY <1>2 DEF IInv
<1> QED BY <1>3, <1>4, <1>5 DEF IInv, TailSentinel

LEMMA InsertStep ==
  ASSUME IInv, NEW x \in Data, NEW pos \in 0 .. numels, list_insert_at(x, pos),
         ~(iter_active \/ pos > numels \/ (~(spareels # <<>>) /\ heap = Cell))
  PROVE  IInv' /\ Items' = InsertAt(Items, pos + 1, x) /\ ~iter_active'
<1> DEFINE n == numels
           r == InsertAt(Items, pos + 1, x)
<1>1. PICK c : InOrder(c)
  BY DEF IInv
<1>2. PICK lent, d : /\ InOrder(d)' /\ lent \notin CellsOf(c, numels) /\ lent \in Cell
                     /\ d = Inserted(c, numels, pos, lent)
                     /\ numels' = numels + 1
                     /\ data' = [data EXCEPT ![lent] = x]
                     /\ ~iter_active /\ ~iter_active'
  BY <1>1, InsertKeeps
<1>3. /\ n \in Nat /\ Items \in Seq(Data) /\ Len(Items) = n
      /\ \A i \in 1 .. n : Items[i] = data[c[i]]
  BY <1>1, ItemsAre
<1>4. Items' \in Seq(Data) /\ Len(Items') = n + 1
  BY <1>2, ItemsAreNext
<1>5. \A i \in 1 .. n + 1 : Items'[i] = data'[d[i]]
  BY <1>2, ItemsAreNext
<1>6. /\ r \in Seq(Data) /\ Len(r) = n + 1
      /\ \A k \in 1 .. n + 1 : r[k] = IF k <= pos THEN Items[k]
                                      ELSE IF k = pos + 1 THEN x ELSE Items[k - 1]
  <2> DEFINE s == Items
  <2>1. n \in Nat /\ s \in Seq(Data) /\ Len(s) = n /\ pos \in 0 .. n /\ r = InsertAt(s, pos + 1, x)
    BY <1>3
  <2> HIDE DEF s, r, n
  <2>2. r \in Seq(Data) /\ Len(r) = n + 1
    BY <2>1, InsertAtIs
  <2>3. \A k \in 1 .. n + 1 : r[k] = IF k <= pos THEN s[k]
                                     ELSE IF k = pos + 1 THEN x ELSE s[k - 1]
    BY <2>1, InsertAtIs
  <2> QED BY <2>2, <2>3 DEF s
<1>7. data \in [Entry -> Data \cup {NULL}] /\ lent \in Entry /\ TailSentinel \in Entry /\ lent # TailSentinel
      /\ \A i \in 1 .. n : c[i] \in Entry /\ c[i] # lent
  <2>1. \A i \in 1 .. n : c[i] \in Cell
    BY <1>1 DEF InOrder, Linked
  <2> QED BY <1>1, <1>2, <2>1, EntryFacts DEF InOrder, CellsOf
<1>8. /\ data'[lent] = x /\ data'[TailSentinel] = data[TailSentinel]
      /\ \A i \in 1 .. n : data'[c[i]] = data[c[i]]
  BY <1>2, <1>7
<1>9. ASSUME NEW k \in 1 .. n + 1 PROVE Items'[k] = r[k]
  <2>0. pos \in Nat /\ pos <= n
    BY <1>3
  <2>1. d[k] = IF k <= pos THEN c[k] ELSE IF k = pos + 1 THEN lent ELSE c[k - 1]
    BY <1>2, <1>3 DEF Inserted
  <2>2. CASE k <= pos
    <3>1. k \in 1 .. n
      BY <1>3, <2>0, <2>2
    <3>2. Items'[k] = data[c[k]]
      BY <1>5, <1>8, <2>1, <2>2, <3>1
    <3>3. r[k] = Items[k]
      BY <1>6, <2>2
    <3> QED BY <1>3, <3>1, <3>2, <3>3
  <2>3. CASE ~(k <= pos) /\ k = pos + 1
    BY <1>5, <1>6, <1>8, <2>1, <2>3
  <2>4. CASE ~(k <= pos) /\ k # pos + 1
    <3>1. k - 1 \in 1 .. n
      BY <1>3, <2>0, <2>4
    <3>2. Items'[k] = data[c[k - 1]] /\ r[k] = Items[k - 1]
      BY <1>5, <1>6, <1>8, <2>1, <2>4, <3>1
    <3> QED BY <1>3, <3>1, <3>2
  <2> QED BY <2>2, <2>3, <2>4
<1>10. Items' = r
  <2> DEFINE t == Items'
  <2> HIDE DEF r
  <2>1. t \in Seq(Data) /\ r \in Seq(Data) /\ Len(t) = Len(r) /\ \A i \in 1 .. Len(t) : t[i] = r[i]
    BY <1>4, <1>6, <1>9
  <2> HIDE DEF t
  <2>2. t = r
    BY <2>1, SameItems
  <2> QED BY <2>2 DEF t
<1>11. IInv'
  BY <1>2, <1>8 DEF IInv, TailSentinel
<1> QED BY <1>2, <1>10, <1>11

\* The items that stay when the cells from one position to another are taken out.
LEMMA CutItems ==
  ASSUME NEW c, InOrder(c), NEW from \in 0 .. numels - 1, NEW to \in from .. numels - 1,
         NEW d, d = Shortened(c, numels, from, to), InOrder(d)',
         numels' = numels - (to - from + 1),
         Outside(c, numels, from, to, data, data')
  PROVE  Items' = Promise!Without(Items, from, to)
<1> DEFINE n == numels
           m == n - (to - from + 1)
           s == Items
           t == Items'
           r == Promise!Without(s, from, to)
<1>3. /\ n \in Nat /\ s \in Seq(Data) /\ Len(s) = n
      /\ \A i \in 1 .. n : s[i] = data[c[i]]
  BY ItemsAre
<1>4. t \in Seq(Data) /\ Len(t) = m
  BY ItemsAreNext
<1>5. \A i \in 1 .. m : t[i] = data'[d[i]]
  BY ItemsAreNext
<1>2. r = Promise!Without(s, from, to) /\ t = Items' /\ s = Items /\ n = numels
      /\ m = n - (to - from + 1)
  OBVIOUS
<1>0. from \in 0 .. n - 1 /\ to \in from .. n - 1 /\ from \in Nat /\ to \in Nat /\ to < n /\ from <= to
  BY <1>3
<1>7. \A k \in 1 .. n : k <= from \/ k > to + 1 => data'[c[k]] = data[c[k]]
  BY DEF Outside
<1>8. \A k \in 1 .. m : d[k] = IF k <= from THEN c[k] ELSE c[k + (to - from + 1)]
  BY <1>0, <1>3 DEF Shortened
<1> HIDE DEF n, s, t, r
<1>6. /\ r \in Seq(Data) /\ Len(r) = m
      /\ \A k \in 1 .. m : r[k] = IF k <= from THEN s[k] ELSE s[k + (to - from + 1)]
  <2>1. n \in Nat /\ s \in Seq(Data) /\ Len(s) = n
    BY <1>3
  <2>2. CutOut(r, s, n, from, to)
    BY ONLY <1>0, <1>2, <2>1, WithoutIs
  <2> QED BY <2>2 DEF CutOut
<1>9. ASSUME NEW k \in 1 .. m PROVE t[k] = r[k]
  <2>1. CASE k <= from
    <3>1. k \in 1 .. n
      BY <1>0, <1>3, <2>1
    <3> QED BY <1>3, <1>5, <1>6, <1>7, <1>8, <2>1, <3>1
  <2>2. CASE ~(k <= from)
    <3>1. k + (to - from + 1) \in 1 .. n /\ k + (to - from + 1) > to + 1
      BY <1>0, <1>3, <2>2
    <3>2. t[k] = data'[c[k + (to - from + 1)]]
      BY <1>5, <1>8, <2>2
    <3>3. data'[c[k + (to - from + 1)]] = data[c[k + (to - from + 1)]]
      BY <1>7, <3>1
    <3>4. r[k] = s[k + (to - from + 1)]
      BY <1>6, <2>2
    <3> QED BY <1>3, <3>1, <3>2, <3>3, <3>4
  <2> QED BY <2>1, <2>2
<1> HIDE DEF m
<1>10. t = r
  <2>1. \A i \in 1 .. Len(t) : t[i] = r[i]
    BY <1>4, <1>9
  <2> QED BY <1>4, <1>6, <2>1, SameItems
<1> QED BY <1>2, <1>10

\* What is found at a position is the item there.
LEMMA ItemAt ==
  ASSUME IInv, NEW pos \in 0 .. numels - 1
  PROVE  /\ data[list_findpos(pos)] = Items[pos + 1] /\ list_findpos(pos) \in Cell
         /\ data[At(pos)] = Items[pos + 1]
<1>1. PICK c : InOrder(c)
  BY DEF IInv
<1>2. /\ Linked(c, next, prev, numels) /\ mid = Middle(c, numels) /\ numels \in Nat
      /\ \A k \in 1 .. numels : c[k] \in Cell
  BY <1>1 DEF InOrder, Linked
<1>3. pos \in -1 .. numels /\ pos \in -1 .. numels + 1 /\ pos + 1 \in 1 .. numels
  BY <1>2
<1>4. list_findpos(pos) = c[pos + 1]
  BY <1>2, <1>3, FindposFinds
<1>5. At(pos) = c[pos + 1]
  BY <1>2, <1>3, ChainIs
<1>6. Items[pos + 1] = data[c[pos + 1]]
  BY <1>1, <1>3, ItemsAre
<1> QED BY <1>2, <1>3, <1>4, <1>5, <1>6

LEMMA DropStep ==
  ASSUME IInv, ~iter_active, NEW pos \in 0 .. numels - 1,
         list_drop_elem(list_findpos(pos), pos),
         data' = data \/ data' = [data EXCEPT ![list_findpos(pos)] = NULL]
  PROVE  IInv' /\ Items' = Promise!Without(Items, pos, pos) /\ ~iter_active'
<1>1. PICK c : InOrder(c)
  BY DEF IInv
<1>2. /\ Linked(c, next, prev, numels) /\ mid = Middle(c, numels) /\ numels \in Nat
      /\ \A k \in 1 .. numels : c[k] \in Cell
      /\ \A i, j \in 1 .. numels : c[i] = c[j] => i = j
      /\ data \in [Entry -> Data \cup {NULL}]
  BY <1>1 DEF InOrder, Linked
<1>3. pos \in -1 .. numels /\ pos + 1 \in 1 .. numels
  BY <1>2
<1>4. list_findpos(pos) = c[pos + 1]
  BY <1>2, <1>3, FindposFinds
<1> DEFINE e == c[pos + 1]
<1>5. e \in Entry /\ e # TailSentinel /\ TailSentinel \in Entry
  BY <1>2, <1>3, EntryFacts
<1>6. list_drop_elem(e, pos) /\ (data' = data \/ data' = [data EXCEPT ![e] = NULL])
  BY <1>4
<1>7. data' \in [Entry -> Data \cup {NULL}]
  BY <1>2, <1>5, <1>6
<1>8. \A i \in Entry : i # e => data'[i] = data[i]
  BY <1>2, <1>5, <1>6
<1>9. Outside(c, numels, pos, pos, data, data')
  <2>1. \A k \in 1 .. numels : k # pos + 1 => c[k] # e /\ c[k] \in Entry
    BY <1>2, <1>3, EntryFacts
  <2>2. \A k \in 1 .. numels : k <= pos \/ k > pos + 1 => k # pos + 1
    BY <1>2
  <2> QED BY <1>8, <2>1, <2>2 DEF Outside
<1>11. PICK d : /\ d = Shortened(c, numels, pos, pos) /\ InOrder(d)'
                /\ numels' = numels - 1 /\ ~iter_active'
  BY <1>1, <1>6, <1>7, <1>9, DropKeeps
<1>12. Items' = Promise!Without(Items, pos, pos)
  <2>1. pos \in pos .. numels - 1 /\ numels' = numels - (pos - pos + 1)
    BY <1>2, <1>11
  <2> QED BY <1>1, <1>9, <1>11, <2>1, CutItems
<1>13. data'[TailSentinel] = NULL
  BY <1>5, <1>8 DEF IInv
<1> QED BY <1>11, <1>12, <1>13 DEF IInv, TailSentinel

\* list_locate() finds the first of the items that are equal to x, if there is one.
LEMMA LocateFinds ==
  ASSUME IInv, NEW x
  PROVE  /\ list_locate(x) \in Int
         /\ list_locate(x) >= 0 => /\ list_locate(x) \in 0 .. numels - 1
                                   /\ list_locate(x) = Promise!FirstAt(Items, x)
                                   /\ Contains(Items, x)
         /\ list_locate(x) < 0 => ~Contains(Items, x)
<1> DEFINE found == {pos \in 0 .. numels - 1 : data[At(pos)] = x}
           s == Items
<1>1. PICK c : InOrder(c)
  BY DEF IInv
<1>2. numels \in Nat /\ s \in Seq(Data) /\ Len(s) = numels
  BY <1>1, ItemsAre
<1>3. \A pos \in 0 .. numels - 1 : pos \in found <=> s[pos + 1] = x
  BY ItemAt
<1>4. list_locate(x) = IF found = {} THEN -1 ELSE Min(found)
  BY DEF list_locate
<1>5. found \in SUBSET (0 .. numels - 1) /\ found \in SUBSET Nat
  OBVIOUS
<1> HIDE DEF found, s
<1>6. CASE found = {}
  <2>1. \A i \in 1 .. Len(s) : i - 1 \in 0 .. numels - 1 /\ (i - 1) + 1 = i
    BY <1>2
  <2>2. \A i \in 1 .. Len(s) : s[i] # x
    <3>1. \A i \in 1 .. Len(s) : i - 1 \notin found
      BY <1>6
    <3> QED BY <1>3, <2>1, <3>1
  <2>3. ~Contains(s, x)
    BY <2>2 DEF Contains
  <2> QED BY <1>4, <1>6, <2>3 DEF s
<1>7. CASE found # {}
  <2> DEFINE m == Min(found)
  <2>1. m \in found /\ \A j \in found : m <= j
    <3>1. \E i \in found : \A j \in found : i <= j
      BY <1>5, <1>7, Least
    <3> QED BY <3>1 DEF Min
  <2>2. list_locate(x) = m
    BY <1>4, <1>7
  <2> HIDE DEF m
  <2>3. m \in 0 .. numels - 1 /\ s[m + 1] = x
    BY <1>3, <1>5, <2>1
  <2>4. \A p \in 0 .. m - 1 : s[p + 1] # x
    <3>1. \A p \in 0 .. m - 1 : p \in 0 .. numels - 1 /\ ~(m <= p)
      BY <1>2, <2>3
    <3> QED BY <1>3, <2>1, <3>1
  <2>5. Promise!FirstAt(s, x) = m
    <3>1. ASSUME NEW q \in 0 .. Len(s) - 1, s[q + 1] = x, \A p \in 0 .. q - 1 : s[p + 1] # x
          PROVE  q = m
      <4>1. q \in found
        BY <1>2, <1>3, <3>1
      <4>2. m <= q
        BY <2>1, <4>1
      <4>3. ~(m < q)
        <5>1. m < q => m \in 0 .. q - 1
          BY <1>2, <2>3
        <5> QED BY <2>3, <3>1, <5>1
      <4> QED BY <1>2, <2>3, <4>2, <4>3
    <3>2. m \in 0 .. Len(s) - 1 /\ s[m + 1] = x /\ \A p \in 0 .. m - 1 : s[p + 1] # x
      BY <1>2, <2>3, <2>4
    <3> QED BY <3>1, <3>2 DEF Promise!FirstAt
  <2>6. Contains(s, x)
    <3>1. m + 1 \in 1 .. Len(s)
      BY <1>2, <2>3
    <3> QED BY <2>3, <3>1 DEF Contains
  <2>7. m \in Int /\ m >= 0 /\ ~(m < 0)
    BY <1>2, <2>3
  <2> QED BY <2>2, <2>3, <2>5, <2>6, <2>7 DEF s
<1> QED BY <1>6, <1>7

LEMMA RangeStep ==
  ASSUME IInv, ~iter_active, NEW from \in 0 .. numels, NEW to \in from .. numels - 1,
         to - from + 1 # numels, list_delete_range(from, to)
  PROVE  IInv' /\ Items' = Promise!Without(Items, from, to) /\ ~iter_active'
<1>1. PICK c : InOrder(c)
  BY DEF IInv
<1>2. numels \in Nat /\ from \in 0 .. numels - 1
  BY <1>1 DEF InOrder, Linked
<1>4. PICK d : /\ d = Shortened(c, numels, from, to) /\ InOrder(d)'
               /\ numels' = numels - (to - from + 1) /\ data' = data /\ ~iter_active'
  BY <1>1, <1>2, RangeKeeps
<1>3. Outside(c, numels, from, to, data, data')
  BY <1>4 DEF Outside
<1>5. Items' = Promise!Without(Items, from, to)
  BY <1>1, <1>2, <1>3, <1>4, CutItems
<1> QED BY <1>4, <1>5 DEF IInv, TailSentinel

LEMMA ClearStep ==
  ASSUME IInv, ~iter_active, list_clear
  PROVE  IInv' /\ Items' = <<>> /\ ~iter_active'
<1>1. PICK c : InOrder(c)
  BY DEF IInv
<1>2. InOrder(Row(0))' /\ numels' = 0 /\ ~iter_active'
  BY <1>1, ClearKeeps
<1>3. Items' = <<>>
  <2>1. Items' \in Seq(Data) /\ Len(Items') = 0
    BY <1>2, ItemsAreNext
  <2> DEFINE t == Items'
  <2>2. t \in Seq(Data) /\ Len(t) = 0
    BY <2>1
  <2> HIDE DEF t
  <2>3. t = <<>>
    BY <2>2
  <2> QED BY <2>3 DEF t
<1>4. data' = data
  BY DEF list_clear
<1> QED BY <1>2, <1>3, <1>4 DEF IInv, TailSentinel

LEMMA MakeStep ==
  ASSUME IInv, NEW s \in Seq(Data), Len(s) <= Cells, Make(s),
         mid' = Middle(Row(Len(s)), Len(s))
  PROVE  IInv' /\ Items' = s /\ ~iter_active /\ ~iter_active'
<1> DEFINE n == Len(s)
           d == Row(n)
           t == Items'
<1>1. PICK c : InOrder(c)
  BY DEF IInv
<1>2. /\ InOrder(d)' /\ numels' = n /\ ~iter_active /\ ~iter_active'
      /\ \A k \in 1 .. numels' : data'[d[k]] = s[k]
  BY <1>1, MakeKeeps
<1>3. t = s
  <2>1. t \in Seq(Data) /\ Len(t) = n
    BY <1>2, ItemsAreNext
  <2>2. \A i \in 1 .. n : t[i] = data'[d[i]]
    BY <1>2, ItemsAreNext
  <2>3. \A i \in 1 .. Len(t) : t[i] = s[i]
    BY <1>2, <2>1, <2>2
  <2> HIDE DEF t
  <2> QED BY <2>1, <2>3, SameItems
<1>4. data'[TailSentinel] = NULL
  <2>1. TailSentinel \in Entry /\ TailSentinel \notin DOMAIN s
    BY EntryFacts DEF TailSentinel
  <2> QED BY <2>1 DEF Make, NewData
<1> QED BY <1>2, <1>3, <1>4 DEF IInv, TailSentinel

LEMMA ConcatStep ==
  ASSUME IInv, NEW l1 \in Seq(Data), NEW l2 \in Seq(Data), list_concat(l1, l2),
         ~(Len(l1) + Len(l2) > Cells)
  PROVE  IInv' /\ Items' = l1 \o l2 /\ ~iter_active /\ ~iter_active'
<1> DEFINE s == l1 \o l2
<1>1. s \in Seq(Data) /\ Len(s) = Len(l1) + Len(l2) /\ Len(l1) \in Nat /\ Len(l2) \in Nat
  OBVIOUS
<1>2. Len(s) <= Cells /\ Make(s) /\ mid' = MidOfConcat(Len(l1), Len(l2))
  BY <1>1, SimcListAssumption DEF list_concat
<1> HIDE DEF s
<1>3. Linked(Row(Len(s)), next', prev', Len(s))
  <2>1. next' = NewNext(s) /\ prev' = NewPrev(s)
    BY <1>2 DEF Make
  <2>2. Linked(Row(Len(s)), NewNext(s), NewPrev(s), Len(s))
    BY <1>1, <1>2, LinkedNew
  <2> QED BY <2>1, <2>2
<1>4. mid' = Middle(Row(Len(s)), Len(s))
  <2> DEFINE n1 == Len(l1)
             n2 == Len(l2)
  <2>1. n1 \in Nat /\ n2 \in Nat /\ Len(s) = n1 + n2 /\ mid' = MidOfConcat(n1, n2)
    BY <1>1, <1>2
  <2> HIDE DEF n1, n2
  <2>2. Linked(Row(n1 + n2), next', prev', n1 + n2)
    BY <1>3, <2>1
  <2> QED BY <2>1, <2>2, MiddleConcat
<1>5. IInv' /\ Items' = s /\ ~iter_active /\ ~iter_active'
  BY <1>1, <1>2, <1>4, MakeStep
<1> QED BY <1>5 DEF s

LEMMA SortStep ==
  ASSUME IInv, ~iter_active, NEW versus \in Versus, list_sort(versus)
  PROVE  IInv' /\ Arranged(Items, Items', versus) /\ ~iter_active'
<1> DEFINE n == numels
           s == Items
           u == Items'
<1>1. PICK c : InOrder(c)
  BY DEF IInv
<1>2. PICK t \in list_sort_quicksort(s, versus) :
        /\ data' = [e \in Entry |-> IF e \in ToSet(Chain)
                                    THEN t[CHOOSE i \in 1 .. n : Chain[i] = e]
                                    ELSE data[e]]
        /\ UNCHANGED <<next, prev, size, session>>
  BY DEF list_sort
<1>3. /\ Linked(c, next, prev, numels) /\ n \in Nat
      /\ \A k \in 1 .. n : c[k] \in Cell
      /\ \A i, j \in 1 .. n : c[i] = c[j] => i = j
      /\ data \in [Entry -> Data \cup {NULL}]
  BY <1>1 DEF InOrder, Linked
<1>4. s \in Seq(Data) /\ Len(s) = n
  BY <1>1, ItemsAre
<1>5. Arranged(s, t, versus)
  <2> HIDE DEF s
  <2> QED BY <1>2, <1>4, QuickSorts
<1>6. t \in Seq(Data) /\ Len(t) = n
  BY <1>4, <1>5 DEF Arranged
<1>7. Chain = [i \in 1 .. n |-> c[i]]
  BY <1>3, ChainIs
<1>8. ToSet(Chain) = {c[i] : i \in 1 .. n}
  <2>1. Chain \in Seq(Cell) /\ Len(Chain) = n
    BY <1>3, <1>7
  <2>2. ToSet(Chain) = {Chain[i] : i \in 1 .. Len(Chain)}
    BY <2>1, SetOf
  <2> QED BY <1>7, <2>1, <2>2
<1>9. ASSUME NEW k \in 1 .. n PROVE data'[c[k]] = t[k] /\ data'[c[k]] \in Data
  <2>1. c[k] \in Entry /\ c[k] \in ToSet(Chain)
    BY <1>3, <1>8, EntryFacts
  <2> DEFINE j == CHOOSE i \in 1 .. n : Chain[i] = c[k]
  <2>2. data'[c[k]] = t[j]
    BY <1>2, <2>1
  <2>3. j = k
    <3>1. \A i \in 1 .. n : Chain[i] = c[k] <=> i = k
      BY <1>3, <1>7
    <3> QED BY <3>1
  <2> HIDE DEF j
  <2>4. t[k] \in Data
    BY <1>3, <1>6
  <2> QED BY <2>2, <2>3, <2>4
<1>10. \A e \in Entry : e \notin ToSet(Chain) => data'[e] = data[e]
  BY <1>2
<1>11. data' \in [Entry -> Data \cup {NULL}]
  <2> DEFINE new(e) == IF e \in ToSet(Chain) THEN t[CHOOSE i \in 1 .. n : Chain[i] = e] ELSE data[e]
  <2>1. data' = [e \in Entry |-> new(e)]
    BY <1>2
  <2>2. \A e \in Entry : new(e) = data'[e]
    BY <2>1
  <2>3. \A e \in Entry : data'[e] \in Data \cup {NULL}
    <3>1. ASSUME NEW e \in Entry PROVE data'[e] \in Data \cup {NULL}
      <4>1. CASE e \in ToSet(Chain)
        BY <1>8, <1>9, <4>1
      <4>2. CASE e \notin ToSet(Chain)
        BY <1>3, <1>10, <4>2
      <4> QED BY <4>1, <4>2
    <3> QED BY <3>1
  <2> HIDE DEF new
  <2> QED BY <2>1, <2>2, <2>3
<1>12. iter_active' = iter_active /\ iter_pos' = iter_pos /\ numels' = numels
  BY <1>2 DEF session, size
<1>13. InOrder(c)'
  <2>1. iter_active' \in BOOLEAN /\ iter_pos' \in Nat /\ ~iter_active'
    BY <1>1, <1>12 DEF InOrder
  <2> QED BY <1>1, <1>2, <1>9, <1>11, <2>1, Undisturbed
<1>14. u = t
  <2>1. u \in Seq(Data) /\ Len(u) = n
    BY <1>12, <1>13, ItemsAreNext
  <2>2. \A i \in 1 .. n : u[i] = data'[c[i]]
    BY <1>12, <1>13, ItemsAreNext
  <2>3. \A i \in 1 .. Len(u) : u[i] = t[i]
    BY <1>9, <2>1, <2>2
  <2> HIDE DEF u
  <2> QED BY <1>6, <2>1, <2>3, SameItems
<1>15. data'[TailSentinel] = NULL
  <2>1. TailSentinel \in Entry /\ TailSentinel \notin ToSet(Chain)
    BY <1>3, <1>8, EntryFacts
  <2> QED BY <1>10, <2>1 DEF IInv
<1> QED BY <1>5, <1>12, <1>13, <1>14, <1>15 DEF IInv, TailSentinel

\* In the abstract list the session is the number of items it has passed.
Session == IF iter_active THEN iter_pos ELSE -1

LEMMA StartStep ==
  ASSUME IInv, ~iter_active, list_iterator_start
  PROVE  IInv' /\ Items' = Items /\ Session = -1 /\ Session' = 0
<1>1. PICK c : InOrder(c)
  BY DEF IInv
<1>2. /\ iter_active' = TRUE /\ iter_pos' = 0 /\ iter_curentry' = next[HeadSentinel]
      /\ UNCHANGED <<links, size>>
  BY DEF list_iterator_start
<1>3. /\ UNCHANGED <<next, prev, size>> /\ data' = data /\ numels' = numels
  BY <1>2 DEF links, size
<1>4. numels \in Nat /\ next[HeadSentinel] = c[0 + 1] /\ 0 \in 0 .. numels + 1
  <2>1. /\ numels \in Nat /\ c[0] = HeadSentinel
        /\ \A k \in 0 .. numels + 1 : next[c[k]] = c[k + 1]
    BY <1>1 DEF InOrder, Linked
  <2>2. 0 \in 0 .. numels + 1
    BY <2>1
  <2> QED BY <2>1, <2>2
<1>5. InOrder(c)'
  <2>1. data' \in [Entry -> Data \cup {NULL}] /\ \A k \in 1 .. numels : data'[c[k]] \in Data
    BY <1>1, <1>3 DEF InOrder
  <2>2. iter_active' \in BOOLEAN /\ iter_pos' \in Nat
    BY <1>2
  <2>3. iter_active' => iter_pos' \in 0 .. numels + 1 /\ iter_curentry' = c[iter_pos' + 1]
    BY <1>2, <1>4
  <2> QED BY <1>1, <1>3, <2>1, <2>2, <2>3, Undisturbed
<1>6. Items' = Items
  BY <1>1, <1>3, <1>5, ItemsStay
<1>7. data'[TailSentinel] = NULL
  BY <1>3 DEF IInv
<1> QED BY <1>2, <1>5, <1>6, <1>7 DEF IInv, TailSentinel, Session

LEMMA NextStep ==
  ASSUME IInv, iter_active, iter_curentry # NULL, list_iterator_next
  PROVE  /\ IInv' /\ Items' = Items
         /\ Session \in 0 .. Len(Items) /\ Session' = Session + 1
         /\ data[iter_curentry] = IF Session < Len(Items) THEN Items[Session + 1] ELSE NULL
<1>1. PICK c : InOrder(c)
  BY DEF IInv
<1>2. /\ iter_curentry' = next[iter_curentry] /\ iter_pos' = iter_pos + 1
      /\ UNCHANGED <<links, size, iter_active>>
  BY DEF list_iterator_next
<1>3. /\ UNCHANGED <<next, prev, size>> /\ data' = data /\ numels' = numels
  BY <1>2 DEF links, size
<1>4. /\ numels \in Nat /\ iter_pos \in 0 .. numels + 1 /\ iter_curentry = c[iter_pos + 1]
      /\ c[numels + 1] = TailSentinel /\ c[numels + 2] = NULL
      /\ \A k \in 0 .. numels + 1 : next[c[k]] = c[k + 1]
  BY <1>1 DEF InOrder, Linked
<1>5. iter_pos \in 0 .. numels
  <2>1. iter_pos + 1 # numels + 2
    BY <1>4
  <2> QED BY <1>4, <2>1
<1>6. iter_curentry' = c[iter_pos' + 1] /\ iter_pos' \in 0 .. numels + 1 /\ iter_pos' \in Nat
  <2>1. iter_pos + 1 \in 0 .. numels + 1
    BY <1>4, <1>5
  <2>2. next[c[iter_pos + 1]] = c[(iter_pos + 1) + 1]
    BY <1>4, <2>1
  <2> QED BY <1>2, <1>4, <2>1, <2>2
<1>7. InOrder(c)'
  <2>1. data' \in [Entry -> Data \cup {NULL}] /\ \A k \in 1 .. numels : data'[c[k]] \in Data
    BY <1>1, <1>3 DEF InOrder
  <2>2. iter_active' \in BOOLEAN
    BY <1>1, <1>2 DEF InOrder
  <2>3. iter_active' => iter_pos' \in 0 .. numels + 1 /\ iter_curentry' = c[iter_pos' + 1]
    BY <1>6
  <2> QED BY <1>1, <1>3, <1>6, <2>1, <2>2, <2>3, Undisturbed
<1>8. Items' = Items
  BY <1>1, <1>3, <1>7, ItemsStay
<1>9. data'[TailSentinel] = NULL /\ data[TailSentinel] = NULL
  BY <1>3 DEF IInv
<1>10. Len(Items) = numels /\ \A i \in 1 .. numels : Items[i] = data[c[i]]
  BY <1>1, ItemsAre
<1>11. Session = iter_pos /\ Session' = iter_pos + 1
  BY <1>2 DEF Session
<1>12. data[iter_curentry] = IF iter_pos < numels THEN Items[iter_pos + 1] ELSE NULL
  <2>1. CASE iter_pos < numels
    <3>1. iter_pos + 1 \in 1 .. numels
      BY <1>4, <1>5, <2>1
    <3> QED BY <1>4, <1>10, <2>1, <3>1
  <2>2. CASE ~(iter_pos < numels)
    <3>1. iter_pos = numels
      BY <1>4, <1>5, <2>2
    <3> QED BY <1>4, <1>9, <2>2, <3>1
  <2> QED BY <2>1, <2>2
<1>13. IInv'
  BY <1>7, <1>9 DEF IInv, TailSentinel
<1> QED BY <1>5, <1>8, <1>10, <1>11, <1>12, <1>13

LEMMA StopStep ==
  ASSUME IInv, iter_active, list_iterator_stop
  PROVE  IInv' /\ Items' = Items /\ Session \in Nat /\ Session' = -1
<1>1. PICK c : InOrder(c)
  BY DEF IInv
<1>2. iter_active' = FALSE /\ iter_pos' = 0 /\ UNCHANGED <<links, size>>
  BY DEF list_iterator_stop
<1>3. /\ UNCHANGED <<next, prev, size>> /\ data' = data /\ numels' = numels
  BY <1>2 DEF links, size
<1>4. InOrder(c)'
  <2>1. data' \in [Entry -> Data \cup {NULL}] /\ \A k \in 1 .. numels : data'[c[k]] \in Data
    BY <1>1, <1>3 DEF InOrder
  <2>2. iter_active' \in BOOLEAN /\ iter_pos' \in Nat /\ ~iter_active'
    BY <1>2
  <2> QED BY <1>1, <1>3, <2>1, <2>2, Undisturbed
<1>5. Items' = Items
  BY <1>1, <1>3, <1>4, ItemsStay
<1>6. data'[TailSentinel] = NULL
  BY <1>3 DEF IInv
<1>7. Session \in Nat
  BY <1>1 DEF InOrder, Session
<1> QED BY <1>2, <1>4, <1>5, <1>6, <1>7 DEF IInv, TailSentinel, Session

-----------------------------------------------------------------------------
(* Every call is one of the abstract list.                                 *)

LEMMA ItemsLength ==
  ASSUME IInv
  PROVE  /\ Items \in Seq(Data) /\ Len(Items) = numels /\ numels \in Nat
         /\ iter_active \in BOOLEAN /\ (Session = -1 <=> ~iter_active)
<1>1. PICK c : InOrder(c)
  BY DEF IInv
<1>2. iter_active \in BOOLEAN /\ iter_pos \in Nat
  BY <1>1 DEF InOrder
<1>3. iter_pos # -1
  BY <1>2
<1> QED BY <1>1, <1>2, <1>3, ItemsAre DEF Session

\* What SequencesExt says is the same in both modules.
LEMMA OfSequences ==
  ASSUME NEW s, NEW x, NEW i
  PROVE  /\ Promise!Contains(s, x) <=> Contains(s, x)
         /\ Promise!InsertAt(s, i, x) = InsertAt(s, i, x)
BY DEF Promise!Contains, Contains, Promise!InsertAt, InsertAt

LEMMA Refused ==
  ASSUME IInv, NEW op, NEW args, Refuse(op, args)
  PROVE  /\ IInv' /\ UNCHANGED <<Items, Session, lost>>
         /\ call'.op = op /\ call'.args = args /\ call'.value = -1
<1>1. /\ call' = [op |-> op, args |-> args, value |-> -1]
      /\ UNCHANGED <<links, size, session>> /\ lost' = lost
  BY DEF Refuse, Call, Failed
<1>2. IInv' /\ Items' = Items
  BY <1>1, StayStep
<1>3. Session' = Session
  BY <1>1 DEF Session, session
<1>4. call'.op = op /\ call'.args = args /\ call'.value = -1
  BY <1>1
<1> QED BY <1>1, <1>2, <1>3, <1>4

LEMMA Modified ==
  ASSUME NEW op, NEW args, NEW value, NEW new, ~iter_active, ~iter_active',
         Items' = new, Call(op, args, value), lost' = lost
  PROVE  Promise!Modify(op, args, new, value)
BY DEF Promise!Modify, Promise!Call, Call

LEMMA RefusedSo ==
  ASSUME UNCHANGED <<Items, Session, lost>>, call'.value = -1,
         \/ call'.op = "insert_at"
            /\ (Session # -1 \/ call'.args[2] > Len(Items) \/ Len(Items) = Cells)
         \/ call'.op \in {"delete_at", "extract_at"}
            /\ (Session # -1 \/ call'.args[1] >= Len(Items))
         \/ call'.op = "delete_range"
            /\ (Session # -1 \/ call'.args[2] >= Len(Items) \/ call'.args[2] < call'.args[1])
         \/ call'.op = "delete" /\ (Session # -1 \/ ~Contains(Items, call'.args[1]))
         \/ call'.op \in {"clear", "sort"} /\ Session # -1
         \/ call'.op \in {"next", "stop"} /\ Session = -1
  PROVE  Promise!Next
<1>1. Promise!Refuse
  BY OfSequences DEF Promise!Refuse, Promise!Failed, Session
<1> QED BY <1>1 DEF Promise!Next

\* Without a spare and without room the list has all the cells.
LEMMA NoRoom ==
  ASSUME IInv, spareels = <<>>, heap = Cell
  PROVE  Len(Items) = Cells
<1>1. PICK c : InOrder(c)
  BY DEF IInv
<1>2. Cardinality(heap) = numels + Len(spareels)
  BY <1>1, StockCount DEF InOrder
<1>3. Cardinality(1 .. Cells) = Cells
  <2>1. Cells \in Nat /\ 1 \in Int /\ Cells \in Int
    BY SimcListAssumption
  <2>2. Cardinality(1 .. Cells) = IF 1 > Cells THEN 0 ELSE Cells - 1 + 1
    BY <2>1, FS_Interval
  <2> QED BY <2>1, <2>2
<1>4. Len(Items) = numels /\ numels \in Nat /\ Len(spareels) = 0
  BY ItemsLength
<1> QED BY <1>2, <1>3, <1>4 DEF Cell

LEMMA InsertDoes ==
  ASSUME IInv, NEW x \in Data, NEW pos \in 0 .. numels, list_insert_at(x, pos)
  PROVE  IInv' /\ Promise!Next
<1> DEFINE no == iter_active \/ pos > numels \/ (~(spareels # <<>>) /\ heap = Cell)
<1>1. ASSUME no PROVE IInv' /\ Promise!Next
  <2>1. Refuse("insert_at", <<x, pos>>)
    BY <1>1 DEF list_insert_at
  <2>2. /\ IInv' /\ UNCHANGED <<Items, Session, lost>>
        /\ call'.op = "insert_at" /\ call'.args = <<x, pos>> /\ call'.value = -1
    BY <2>1, Refused
  <2>3. (Session = -1 <=> ~iter_active) /\ Len(Items) = numels
    BY ItemsLength
  <2>4. Session # -1 \/ call'.args[2] > Len(Items) \/ Len(Items) = Cells
    BY <1>1, <2>2, <2>3, NoRoom
  <2> QED BY <2>2, <2>4, RefusedSo
<1>2. ASSUME ~no PROVE IInv' /\ Promise!Next
  <2>1. IInv' /\ Items' = InsertAt(Items, pos + 1, x) /\ ~iter_active'
    BY <1>2, InsertStep
  <2>2. Call("insert_at", <<x, pos>>, Okay) /\ lost' = lost /\ ~iter_active
    BY <1>2 DEF list_insert_at
  <2>3. Promise!Modify("insert_at", <<x, pos>>, InsertAt(Items, pos + 1, x), Okay)
    BY <2>1, <2>2, Modified
  <2>4. pos \in 0 .. Len(Items) /\ pos <= Len(Items)
    BY ItemsLength
  <2>5. Promise!list_insert_at(x, pos)
    BY <2>3, <2>4, OfSequences DEF Promise!list_insert_at, Promise!Okay, Okay
  <2> QED BY <2>1, <2>4, <2>5 DEF Promise!Next
<1> QED BY <1>1, <1>2

LEMMA DeleteAtDoes ==
  ASSUME IInv, NEW pos \in 0 .. numels, list_delete_at(pos)
  PROVE  IInv' /\ Promise!Next
<1>0. Items \in Seq(Data) /\ Len(Items) = numels /\ numels \in Nat /\ (Session = -1 <=> ~iter_active)
  BY ItemsLength
<1>1. ASSUME iter_active \/ pos >= numels PROVE IInv' /\ Promise!Next
  <2>1. Refuse("delete_at", <<pos>>)
    BY <1>1 DEF list_delete_at
  <2>2. /\ IInv' /\ UNCHANGED <<Items, Session, lost>>
        /\ call'.op = "delete_at" /\ call'.args = <<pos>> /\ call'.value = -1
    BY <2>1, Refused
  <2>3. Session # -1 \/ call'.args[1] >= Len(Items)
    BY <1>0, <1>1, <2>2
  <2> QED BY <2>2, <2>3, RefusedSo
<1>2. ASSUME ~(iter_active \/ pos >= numels) PROVE IInv' /\ Promise!Next
  <2>1. /\ list_drop_elem(list_findpos(pos), pos) /\ Call("delete_at", <<pos>>, Okay)
        /\ data' = data /\ ~iter_active
    BY <1>2 DEF list_delete_at
  <2>2. pos \in 0 .. numels - 1 /\ pos \in 0 .. Len(Items) /\ pos < Len(Items)
    BY <1>0, <1>2
  <2>3. IInv' /\ Items' = Promise!Without(Items, pos, pos) /\ ~iter_active'
    BY <2>1, <2>2, DropStep
  <2>4. lost' = lost
    BY <2>1 DEF list_drop_elem
  <2>5. Promise!Modify("delete_at", <<pos>>, Promise!Without(Items, pos, pos), Okay)
    BY <2>1, <2>3, <2>4, Modified
  <2>6. Promise!list_delete_at(pos)
    BY <2>2, <2>5 DEF Promise!list_delete_at, Promise!Okay, Okay
  <2> QED BY <2>2, <2>3, <2>6 DEF Promise!Next
<1> QED BY <1>1, <1>2

LEMMA ExtractAtDoes ==
  ASSUME IInv, NEW pos \in 0 .. numels, list_extract_at(pos)
  PROVE  IInv' /\ Promise!Next
<1>0. Items \in Seq(Data) /\ Len(Items) = numels /\ numels \in Nat /\ (Session = -1 <=> ~iter_active)
  BY ItemsLength
<1>1. ASSUME iter_active \/ pos >= numels PROVE IInv' /\ Promise!Next
  <2>1. Refuse("extract_at", <<pos>>)
    BY <1>1 DEF list_extract_at
  <2>2. /\ IInv' /\ UNCHANGED <<Items, Session, lost>>
        /\ call'.op = "extract_at" /\ call'.args = <<pos>> /\ call'.value = -1
    BY <2>1, Refused
  <2>3. Session # -1 \/ call'.args[1] >= Len(Items)
    BY <1>0, <1>1, <2>2
  <2> QED BY <2>2, <2>3, RefusedSo
<1>2. ASSUME ~(iter_active \/ pos >= numels) PROVE IInv' /\ Promise!Next
  <2>1. /\ list_drop_elem(list_findpos(pos), pos)
        /\ data' = [data EXCEPT ![list_findpos(pos)] = NULL]
        /\ Call("extract_at", <<pos>>, data[list_findpos(pos)]) /\ ~iter_active
    BY <1>2 DEF list_extract_at
  <2>2. pos \in 0 .. numels - 1 /\ pos \in 0 .. Len(Items) /\ pos < Len(Items)
    BY <1>0, <1>2
  <2>3. IInv' /\ Items' = Promise!Without(Items, pos, pos) /\ ~iter_active'
    BY <2>1, <2>2, DropStep
  <2>4. lost' = lost
    BY <2>1 DEF list_drop_elem
  <2>5. Call("extract_at", <<pos>>, Items[pos + 1])
    BY <2>1, <2>2, ItemAt
  <2>6. Promise!Modify("extract_at", <<pos>>, Promise!Without(Items, pos, pos), Items[pos + 1])
    BY <2>1, <2>3, <2>4, <2>5, Modified
  <2>7. Promise!list_extract_at(pos)
    BY <2>2, <2>6 DEF Promise!list_extract_at
  <2> QED BY <2>2, <2>3, <2>7 DEF Promise!Next
<1> QED BY <1>1, <1>2

LEMMA DeleteDoes ==
  ASSUME IInv, NEW x \in Data, list_delete(x)
  PROVE  IInv' /\ Promise!Next
<1> DEFINE pos == list_locate(x)
           first == Promise!FirstAt(Items, x)
<1>0. Items \in Seq(Data) /\ Len(Items) = numels /\ numels \in Nat /\ (Session = -1 <=> ~iter_active)
  BY ItemsLength
<1>1. /\ pos \in Int
      /\ pos >= 0 => pos \in 0 .. numels - 1 /\ pos = first /\ Contains(Items, x)
      /\ pos < 0 => ~Contains(Items, x)
  BY LocateFinds
<1>2. ASSUME iter_active \/ pos < 0 PROVE IInv' /\ Promise!Next
  <2>1. Refuse("delete", <<x>>)
    BY <1>2 DEF list_delete
  <2>2. /\ IInv' /\ UNCHANGED <<Items, Session, lost>>
        /\ call'.op = "delete" /\ call'.args = <<x>> /\ call'.value = -1
    BY <2>1, Refused
  <2>3. Session # -1 \/ ~Contains(Items, call'.args[1])
    BY <1>0, <1>1, <1>2, <2>2
  <2> QED BY <2>2, <2>3, RefusedSo
<1>3. ASSUME ~(iter_active \/ pos < 0) PROVE IInv' /\ Promise!Next
  <2>1. /\ list_drop_elem(list_findpos(pos), pos) /\ Call("delete", <<x>>, Okay)
        /\ data' = data /\ ~iter_active
    BY <1>3 DEF list_delete
  <2>2. pos \in 0 .. numels - 1 /\ pos = first /\ Contains(Items, x)
    BY <1>1, <1>3
  <2> HIDE DEF pos, first
  <2>3. IInv' /\ Items' = Promise!Without(Items, pos, pos) /\ ~iter_active'
    BY <2>1, <2>2, DropStep
  <2>4. lost' = lost
    BY <2>1 DEF list_drop_elem
  <2>5. Promise!Modify("delete", <<x>>, Promise!Without(Items, first, first), Okay)
    BY <2>1, <2>2, <2>3, <2>4, Modified
  <2>6. Promise!list_delete(x)
    BY <2>2, <2>5, OfSequences DEF Promise!list_delete, Promise!Okay, Okay, first
  <2> QED BY <2>3, <2>6 DEF Promise!Next
<1> QED BY <1>2, <1>3

LEMMA LoseStep ==
  ASSUME IInv, NEW op, NEW args, Lose(op, args)
  PROVE  IInv' /\ lost' /\ call'.op = op /\ call'.args = args
<1>1. UNCHANGED <<links, size, session>> /\ lost' /\ call' = [op |-> op, args |-> args, value |-> Failed]
  BY DEF Lose, Call
<1>2. IInv'
  BY <1>1, StayStep
<1>3. call'.op = op /\ call'.args = args
  BY <1>1
<1> QED BY <1>1, <1>2, <1>3

LEMMA RangeDoes ==
  ASSUME IInv, NEW from \in 0 .. numels, NEW to \in 0 .. numels, list_delete_range(from, to)
  PROVE  IInv' /\ Promise!Next
<1>0. Items \in Seq(Data) /\ Len(Items) = numels /\ numels \in Nat /\ (Session = -1 <=> ~iter_active)
  BY ItemsLength
<1> DEFINE no == iter_active \/ to < from \/ to >= numels
<1>1. ASSUME no PROVE IInv' /\ Promise!Next
  <2>1. Refuse("delete_range", <<from, to>>)
    BY <1>1 DEF list_delete_range
  <2>2. /\ IInv' /\ UNCHANGED <<Items, Session, lost>>
        /\ call'.op = "delete_range" /\ call'.args = <<from, to>> /\ call'.value = -1
    BY <2>1, Refused
  <2>3. Session # -1 \/ call'.args[2] >= Len(Items) \/ call'.args[2] < call'.args[1]
    BY <1>0, <1>1, <2>2
  <2> QED BY <2>2, <2>3, RefusedSo
<1>2. ASSUME ~no, to - from + 1 = numels PROVE IInv' /\ Promise!Next
  <2>1. Lose("delete_range", <<from, to>>)
    BY <1>2 DEF list_delete_range
  <2>2. IInv' /\ lost' /\ call'.op = "delete_range" /\ call'.args = <<from, to>>
    BY <2>1, LoseStep
  <2>3. from = 0 /\ to = Len(Items) - 1 /\ Len(Items) # 0 /\ Session = -1
    BY <1>0, <1>2
  <2>4. Items # <<>>
    BY <2>3
  <2>5. Promise!Lose
    BY <2>2, <2>3, <2>4 DEF Promise!Lose, Session
  <2> QED BY <2>2, <2>5 DEF Promise!Next
<1>3. ASSUME ~no, to - from + 1 # numels PROVE IInv' /\ Promise!Next
  <2>1. /\ to \in from .. numels - 1 /\ from \in 0 .. to /\ to \in 0 .. Len(Items) /\ ~iter_active
        /\ to < Len(Items) /\ to - from + 1 < Len(Items)
    BY <1>0, <1>3
  <2>2. IInv' /\ Items' = Promise!Without(Items, from, to) /\ ~iter_active'
    BY <1>3, <2>1, RangeStep
  <2>3. Call("delete_range", <<from, to>>, Okay) /\ lost' = lost
    BY <1>3 DEF list_delete_range
  <2>4. Promise!Modify("delete_range", <<from, to>>, Promise!Without(Items, from, to), Okay)
    BY <2>1, <2>2, <2>3, Modified
  <2>5. Promise!list_delete_range(from, to)
    BY <2>1, <2>4 DEF Promise!list_delete_range, Promise!Okay, Okay
  <2> QED BY <2>1, <2>2, <2>5 DEF Promise!Next
<1> QED BY <1>1, <1>2, <1>3

LEMMA ClearDoes ==
  ASSUME IInv, list_clear
  PROVE  IInv' /\ Promise!Next
<1>0. Session = -1 <=> ~iter_active
  BY ItemsLength
<1>1. ASSUME iter_active PROVE IInv' /\ Promise!Next
  <2>1. Refuse("clear", <<>>)
    BY <1>1 DEF list_clear
  <2>2. IInv' /\ UNCHANGED <<Items, Session, lost>> /\ call'.op = "clear" /\ call'.value = -1
    BY <2>1, Refused
  <2> QED BY <1>0, <1>1, <2>2, RefusedSo
<1>2. ASSUME ~iter_active PROVE IInv' /\ Promise!Next
  <2>1. IInv' /\ Items' = <<>> /\ ~iter_active'
    BY <1>2, ClearStep
  <2>2. Call("clear", <<>>, Okay) /\ lost' = lost
    BY <1>2 DEF list_clear
  <2>3. Promise!Modify("clear", <<>>, <<>>, Okay)
    BY <1>2, <2>1, <2>2, Modified
  <2>4. Promise!list_clear
    BY <2>3 DEF Promise!list_clear, Promise!Okay, Okay
  <2> QED BY <2>1, <2>4 DEF Promise!Next
<1> QED BY <1>1, <1>2

LEMMA DestroyDoes ==
  ASSUME IInv, list_destroy
  PROVE  IInv' /\ Promise!Next
<1> DEFINE s == <<>>
<1>0. s \in Seq(Data) /\ Len(s) = 0 /\ 0 <= Cells
  BY EntryFacts
<1>1. Make(s) /\ mid' = NULL /\ Call("destroy", s, Okay)
  BY DEF list_destroy
<1>2. lost' = lost
  BY <1>1 DEF Make
<1>3. mid' = Middle(Row(Len(s)), Len(s))
  BY <1>0, <1>1 DEF Middle
<1> HIDE DEF s
<1>4. IInv' /\ Items' = s /\ ~iter_active /\ ~iter_active'
  BY <1>0, <1>1, <1>3, MakeStep
<1>5. Promise!Modify("destroy", s, s, Okay)
  BY <1>1, <1>2, <1>4, Modified
<1>6. Promise!list_destroy
  BY <1>5 DEF Promise!list_destroy, Promise!Okay, Okay, s
<1> QED BY <1>4, <1>6 DEF Promise!Next

LEMMA ConcatDoes ==
  ASSUME IInv, NEW l1 \in Seq(Data), NEW l2 \in Seq(Data), list_concat(l1, l2)
  PROVE  IInv' /\ Promise!Next
<1> DEFINE full == Len(l1) + Len(l2) > Cells
<1>1. ASSUME full PROVE IInv' /\ Promise!Next
  <2>1. Lose("concat", <<l1, l2>>)
    BY <1>1 DEF list_concat
  <2>2. IInv' /\ lost' /\ call'.op = "concat" /\ call'.args = <<l1, l2>>
    BY <2>1, LoseStep
  <2>3. Promise!Lose
    BY <1>1, <2>2 DEF Promise!Lose
  <2> QED BY <2>2, <2>3 DEF Promise!Next
<1>2. ASSUME ~full PROVE IInv' /\ Promise!Next
  <2>1. IInv' /\ Items' = l1 \o l2 /\ ~iter_active /\ ~iter_active'
    BY <1>2, ConcatStep
  <2>2. Call("concat", <<l1, l2>>, Okay) /\ lost' = lost
    BY <1>2 DEF list_concat, Make
  <2>3. Promise!Modify("concat", <<l1, l2>>, l1 \o l2, Okay)
    BY <2>1, <2>2, Modified
  <2>4. Promise!list_concat(l1, l2)
    BY <2>3 DEF Promise!list_concat, Promise!Okay, Okay
  <2>5. call'.op = "concat" /\ call'.args[1] = l1 /\ call'.args[2] = l2
    BY <2>2 DEF Call
  <2> QED BY <2>1, <2>4, <2>5 DEF Promise!Next
<1> QED BY <1>1, <1>2

LEMMA ArrangedIsSorted ==
  ASSUME NEW versus \in Versus, NEW s \in Seq(Data), NEW t, Arranged(s, t, versus)
  PROVE  Promise!Sorted(s, t, versus)
<1> DEFINE n == Len(s)
<1>1. /\ n \in Nat /\ t \in Seq(Data) /\ Len(t) = n /\ Same(s, t, n) /\ InSequence(t, 1, n, versus)
      /\ DOMAIN s = 1 .. n /\ DOMAIN t = 1 .. n
  BY DEF Arranged
<1>2. t \in [1 .. n -> Data]
  BY <1>1
<1>3. ASSUME NEW x \in Data PROVE Promise!Count(s, x) = Promise!Count(t, x)
  <2> DEFINE S == PlacesOf(s, n, x)
             T == PlacesOf(t, n, x)
  <2>1. n \in Nat /\ Same(s, t, n)
    BY <1>1
  <2>2. Cardinality(S) = Cardinality(T)
    <3> HIDE DEF n
    <3> QED BY ONLY <2>1, SameCount
  <2>3. Promise!Cardinality(S) = Cardinality(S) /\ Promise!Cardinality(T) = Cardinality(T)
    <3> HIDE DEF S, T
    <3> QED BY Zenon DEF Promise!Cardinality, Cardinality
  <2>4. Promise!Count(s, x) = Promise!Cardinality(S) /\ Promise!Count(t, x) = Promise!Cardinality(T)
    BY <1>1 DEF Promise!Count, PlacesOf
  <2> HIDE DEF S, T
  <2> QED BY <2>2, <2>3, <2>4
<1>4. ASSUME NEW i \in 1 .. Len(t) - 1 PROVE t[i] * versus <= t[i + 1] * versus
  <2>1. i \in 1 .. n /\ i + 1 \in 1 .. n /\ i < i + 1
    BY <1>1
  <2>2. ~Misplaced(t[i], t[i + 1], versus)
    BY <1>1, <2>1 DEF InSequence
  <2>3. t[i] \in Nat /\ t[i + 1] \in Nat
    <3>1. t \in Seq(Nat)
      BY <1>1, DataAreNumbers
    <3> QED BY <1>1, <2>1, <3>1
  <2>4. CASE versus = 1
    BY <2>2, <2>3, <2>4 DEF Misplaced
  <2>5. CASE versus = -1
    BY <2>2, <2>3, <2>5 DEF Misplaced
  <2> QED BY <2>4, <2>5 DEF Versus
<1> QED BY <1>2, <1>3, <1>4 DEF Promise!Sorted

LEMMA SortDoes ==
  ASSUME IInv, NEW versus \in {-1, 1}, list_sort(versus)
  PROVE  IInv' /\ Promise!Next
<1>0. Items \in Seq(Data) /\ (Session = -1 <=> ~iter_active)
  BY ItemsLength
<1>1. ASSUME iter_active PROVE IInv' /\ Promise!Next
  <2>1. Refuse("sort", <<versus>>)
    BY <1>1 DEF list_sort
  <2>2. IInv' /\ UNCHANGED <<Items, Session, lost>> /\ call'.op = "sort" /\ call'.value = -1
    BY <2>1, Refused
  <2> QED BY <1>0, <1>1, <2>2, RefusedSo
<1>2. ASSUME ~iter_active PROVE IInv' /\ Promise!Next
  <2>0. versus \in Versus
    BY DEF Versus
  <2>1. IInv' /\ Arranged(Items, Items', versus) /\ ~iter_active'
    BY <1>2, <2>0, SortStep
  <2>2. Call("sort", <<versus>>, Okay) /\ lost' = lost
    BY <1>2 DEF list_sort
  <2>3. Promise!Modify("sort", <<versus>>, Items', Okay)
    <3> DEFINE new == Items'
    <3>1. Items' = new
      OBVIOUS
    <3> HIDE DEF new
    <3>2. Promise!Modify("sort", <<versus>>, new, Okay)
      BY <1>2, <2>1, <2>2, <3>1, Modified
    <3> QED BY <3>1, <3>2
  <2>4. Promise!Sorted(Items, Items', versus)
    <3> DEFINE new == Items'
    <3>1. Arranged(Items, new, versus)
      BY <2>1
    <3> HIDE DEF new
    <3>2. Promise!Sorted(Items, new, versus)
      BY <1>0, <2>0, <3>1, ArrangedIsSorted
    <3> QED BY <3>2 DEF new
  <2>5. Promise!list_sort(versus)
    BY <2>3, <2>4 DEF Promise!list_sort, Promise!Okay, Okay
  <2> QED BY <2>1, <2>5 DEF Promise!Next
<1> QED BY <1>1, <1>2

LEMMA StartDoes ==
  ASSUME IInv, list_iterator_start
  PROVE  IInv' /\ Promise!Next
<1>0. Session = -1 <=> ~iter_active
  BY ItemsLength
<1>1. ASSUME iter_active PROVE IInv' /\ Promise!Next
  <2>1. Refuse("start", <<>>)
    BY <1>1 DEF list_iterator_start
  <2>2. IInv' /\ UNCHANGED <<Items, Session, lost>>
    BY <2>1, Refused
  <2>3. call' = [op |-> "start", args |-> <<>>, value |-> Failed]
    BY <2>1 DEF Refuse, Call
  <2>4. Session # -1
    BY <1>0, <1>1
  <2>5. Promise!list_iterator_start
    BY <2>2, <2>3, <2>4 DEF Promise!list_iterator_start, Promise!Call, Promise!Failed, Failed, Session
  <2> QED BY <2>2, <2>5 DEF Promise!Next
<1>2. ASSUME ~iter_active PROVE IInv' /\ Promise!Next
  <2>1. IInv' /\ Items' = Items /\ Session = -1 /\ Session' = 0
    BY <1>2, StartStep
  <2>2. call' = [op |-> "start", args |-> <<>>, value |-> Okay] /\ lost' = lost
    BY <1>2 DEF list_iterator_start, Call
  <2>3. Promise!list_iterator_start
    BY <2>1, <2>2 DEF Promise!list_iterator_start, Promise!Call, Promise!Okay, Okay, Session
  <2> QED BY <2>1, <2>3 DEF Promise!Next
<1> QED BY <1>1, <1>2

LEMMA NextDoes ==
  ASSUME IInv, list_iterator_next
  PROVE  IInv' /\ Promise!Next
<1>0. Session = -1 <=> ~iter_active
  BY ItemsLength
<1>1. ASSUME ~iter_active PROVE IInv' /\ Promise!Next
  <2>1. Refuse("next", <<>>)
    BY <1>1 DEF list_iterator_next
  <2>2. IInv' /\ UNCHANGED <<Items, Session, lost>> /\ call'.op = "next" /\ call'.value = -1
    BY <2>1, Refused
  <2> QED BY <1>0, <1>1, <2>2, RefusedSo
<1>2. ASSUME iter_active, iter_curentry = NULL PROVE IInv' /\ Promise!Next
  <2>1. Lose("next", <<>>)
    BY <1>2 DEF list_iterator_next
  <2>2. IInv' /\ lost' /\ call'.op = "next"
    BY <2>1, LoseStep
  <2>3. Session = Len(Items) + 1
    <3>1. PICK c : InOrder(c)
      BY DEF IInv
    <3>2. numels \in Nat /\ Len(Items) = numels
      BY ItemsLength
    <3>3. /\ iter_pos \in 0 .. numels + 1 /\ iter_curentry = c[iter_pos + 1]
          /\ Linked(c, next, prev, numels)
      BY <1>2, <3>1 DEF InOrder
    <3>4. \A k \in 0 .. numels + 1 : c[k] # NULL
      BY <3>3, LinkedEntries
    <3>5. ~(iter_pos + 1 \in 0 .. numels + 1)
      BY <1>2, <3>3, <3>4
    <3>6. iter_pos = numels + 1
      BY <3>2, <3>3, <3>5
    <3> QED BY <1>2, <3>2, <3>6 DEF Session
  <2>4. Promise!Lose
    BY <2>2, <2>3 DEF Promise!Lose, Session
  <2> QED BY <2>2, <2>4 DEF Promise!Next
<1>3. ASSUME iter_active, iter_curentry # NULL PROVE IInv' /\ Promise!Next
  <2>1. /\ IInv' /\ Items' = Items
        /\ Session \in 0 .. Len(Items) /\ Session' = Session + 1
        /\ data[iter_curentry] = IF Session < Len(Items) THEN Items[Session + 1] ELSE NULL
    BY <1>3, NextStep
  <2>2. call' = [op |-> "next", args |-> <<>>, value |-> data[iter_curentry]] /\ lost' = lost
    BY <1>3 DEF list_iterator_next, Call
  <2>3. call' = [op |-> "next", args |-> <<>>,
                 value |-> IF Session < Len(Items) THEN Items[Session + 1] ELSE Promise!Failed]
    BY <2>1, <2>2 DEF Promise!Failed, NULL
  <2>4. Promise!list_iterator_next
    BY <2>1, <2>2, <2>3 DEF Promise!list_iterator_next, Promise!Call, Session
  <2> QED BY <2>1, <2>4 DEF Promise!Next
<1> QED BY <1>1, <1>2, <1>3

LEMMA StopDoes ==
  ASSUME IInv, list_iterator_stop
  PROVE  IInv' /\ Promise!Next
<1>0. Session = -1 <=> ~iter_active
  BY ItemsLength
<1>1. ASSUME ~iter_active PROVE IInv' /\ Promise!Next
  <2>1. Refuse("stop", <<>>)
    BY <1>1 DEF list_iterator_stop
  <2>2. IInv' /\ UNCHANGED <<Items, Session, lost>> /\ call'.op = "stop" /\ call'.value = -1
    BY <2>1, Refused
  <2> QED BY <1>0, <1>1, <2>2, RefusedSo
<1>2. ASSUME iter_active PROVE IInv' /\ Promise!Next
  <2>1. IInv' /\ Items' = Items /\ Session \in Nat /\ Session' = -1
    BY <1>2, StopStep
  <2>2. call' = [op |-> "stop", args |-> <<>>, value |-> Okay] /\ lost' = lost
    BY <1>2 DEF list_iterator_stop, Call
  <2>3. Promise!list_iterator_stop
    BY <2>1, <2>2 DEF Promise!list_iterator_stop, Promise!Call, Promise!Okay, Okay, Session
  <2> QED BY <2>1, <2>3 DEF Promise!Next
<1> QED BY <1>1, <1>2

-----------------------------------------------------------------------------
(* The theorems. *)

LEMMA NextIsPromised ==
  ASSUME IInv, Next
  PROVE  IInv' /\ Promise!Next
<1>0. Items \in Seq(Data) /\ numels \in Nat
  BY ItemsLength
<1>1. ASSUME NEW pos \in 0 .. numels, list_delete_at(pos) PROVE IInv' /\ Promise!Next
  BY <1>1, DeleteAtDoes
<1>2. ASSUME NEW pos \in 0 .. numels, list_extract_at(pos) PROVE IInv' /\ Promise!Next
  BY <1>2, ExtractAtDoes
<1>3. ASSUME NEW pos \in 0 .. numels, NEW x \in Data, list_insert_at(x, pos)
      PROVE  IInv' /\ Promise!Next
  BY <1>3, InsertDoes
<1>4. ASSUME NEW pos \in 0 .. numels, NEW from \in 0 .. numels, list_delete_range(from, pos)
      PROVE  IInv' /\ Promise!Next
  BY <1>4, RangeDoes
<1>5. ASSUME NEW x \in Data, list_delete(x) PROVE IInv' /\ Promise!Next
  BY <1>5, DeleteDoes
<1>6. ASSUME list_clear \/ list_destroy PROVE IInv' /\ Promise!Next
  BY <1>6, ClearDoes, DestroyDoes
<1>7. ASSUME NEW other \in Others, list_concat(Items, other) \/ list_concat(other, Items)
      PROVE  IInv' /\ Promise!Next
  <2>1. other \in Seq(Data)
    BY SimcListAssumption
  <2> QED BY <1>0, <1>7, <2>1, ConcatDoes
<1>8. ASSUME list_concat(Items, Items) PROVE IInv' /\ Promise!Next
  BY <1>0, <1>8, ConcatDoes
<1>9. ASSUME NEW versus \in {-1, 1}, list_sort(versus) PROVE IInv' /\ Promise!Next
  BY <1>9, SortDoes
<1>10. ASSUME list_iterator_start \/ list_iterator_next \/ list_iterator_stop
       PROVE  IInv' /\ Promise!Next
  BY <1>10, StartDoes, NextDoes, StopDoes
<1> QED BY <1>1, <1>2, <1>3, <1>4, <1>5, <1>6, <1>7, <1>8, <1>9, <1>10 DEF Next

\* The invariant is inductive: the cells form a chain, mid is its middle, the
\* spares are cells of their own, and a session stands at one of its entries.
THEOREM Invariant == Spec => []IInv
<1>1. Init => IInv
  BY InitInOrder
<1>2. IInv /\ [Next]_vars => IInv'
  <2>1. ASSUME IInv, Next PROVE IInv'
    BY <2>1, NextIsPromised
  <2>2. ASSUME IInv, UNCHANGED vars PROVE IInv'
    <3>1. UNCHANGED <<links, size, session>>
      BY <2>2 DEF vars
    <3> QED BY <2>2, <3>1, StayStep
  <2> QED BY <2>1, <2>2
<1> QED BY <1>1, <1>2, PTL DEF Spec

LEMMA OrderIsRepOk ==
  ASSUME IInv
  PROVE  RepOk
<1> DEFINE entries == <<HeadSentinel>> \o Chain \o <<TailSentinel>>
           used == ToSet(Chain) \cup ToSet(spareels)
<1>1. PICK c : InOrder(c)
  BY DEF IInv
<1>2. /\ Linked(c, next, prev, numels) /\ mid = Middle(c, numels)
      /\ Stocked(CellsOf(c, numels), spareels, heap)
      /\ iter_active => iter_pos \in 0 .. numels + 1 /\ iter_curentry = c[iter_pos + 1]
  BY <1>1 DEF InOrder
<1>3. /\ numels \in Nat
      /\ c[0] = HeadSentinel /\ c[numels + 1] = TailSentinel /\ c[numels + 2] = NULL
      /\ \A k \in 1 .. numels : c[k] \in Cell
      /\ \A k \in 0 .. numels + 1 : next[c[k]] = c[k + 1]
      /\ \A k \in 1 .. numels + 1 : prev[c[k]] = c[k - 1]
      /\ prev[HeadSentinel] = NULL
  BY <1>2 DEF Linked
<1>4. /\ \A pos \in -1 .. numels + 1 : At(pos) = c[pos + 1]
      /\ Chain = [i \in 1 .. numels |-> c[i]]
  BY <1>2, ChainIs
<1>5. Chain \in Seq(Cell) /\ Len(Chain) = numels /\ \A i \in 1 .. numels : Chain[i] = c[i]
  BY <1>3, <1>4
<1>6. \A i \in 1 .. numels + 2 : entries[i] = c[i - 1]
  <2> SUFFICES ASSUME NEW i \in 1 .. numels + 2 PROVE entries[i] = c[i - 1]
    OBVIOUS
  <2>1. CASE i = 1
    BY <1>3, <1>5, <2>1
  <2>2. CASE i \in 2 .. numels + 1
    BY <1>3, <1>5, <2>2
  <2>3. CASE i = numels + 2
    BY <1>3, <1>5, <2>3
  <2>4. i = 1 \/ i \in 2 .. numels + 1 \/ i = numels + 2
    BY <1>3
  <2> QED BY ONLY <2>1, <2>2, <2>3, <2>4, Zenon
<1>7. \A i \in 1 .. numels + 1 : next[entries[i]] = entries[i + 1] /\ prev[entries[i + 1]] = entries[i]
  <2> SUFFICES ASSUME NEW i \in 1 .. numels + 1
               PROVE  next[entries[i]] = entries[i + 1] /\ prev[entries[i + 1]] = entries[i]
    OBVIOUS
  <2> HIDE DEF entries
  <2>1. entries[i] = c[i - 1] /\ entries[i + 1] = c[i]
    BY <1>3, <1>6
  <2>2. next[c[i - 1]] = c[i] /\ prev[c[i]] = c[i - 1]
    BY <1>3
  <2> QED BY <2>1, <2>2
<1>8. next[TailSentinel] = NULL
  <2>1. numels + 1 \in 0 .. numels + 1 /\ (numels + 1) + 1 = numels + 2
    BY <1>3
  <2> QED BY <1>3, <2>1
<1>9. mid = IF numels = 0 THEN NULL ELSE At((numels - 1) \div 2)
  <2>1. CASE numels = 0
    BY <1>2, <2>1 DEF Middle
  <2>2. CASE numels # 0
    <3>1. (numels - 1) \div 2 \in -1 .. numels + 1
      BY <1>3, <2>2
    <3> QED BY <1>2, <1>4, <2>2, <3>1 DEF Middle
  <2> QED BY <2>1, <2>2
<1>10. spareels \in Seq(Cell) /\ Len(spareels) <= MaxSpare
       /\ heap = CellsOf(c, numels) \cup {spareels[i] : i \in 1 .. Len(spareels)}
  BY <1>2 DEF Stocked
<1>11. used = heap
  <2>1. ToSet(Chain) = CellsOf(c, numels)
    <3>1. ToSet(Chain) = {Chain[i] : i \in 1 .. numels}
      BY <1>5, SetOf
    <3> QED BY <1>5, <3>1 DEF CellsOf
  <2>2. ToSet(spareels) = {spareels[i] : i \in 1 .. Len(spareels)}
    BY <1>10, SetOf
  <2> QED BY <1>10, <2>1, <2>2
<1>12. Cardinality(heap) = numels + Len(spareels)
  BY <1>2, StockCount
<1>13. iter_active => iter_curentry = At(iter_pos)
  BY <1>2, <1>3, <1>4
<1> HIDE DEF entries, used
<1> QED BY <1>3, <1>7, <1>8, <1>9, <1>10, <1>11, <1>12, <1>13 DEF RepOk, entries, used

\* What list_repOk() checks is so after every call: the links are each other's
\* inverse, mid is the middle, and no cell is lost or in use twice.
THEOREM RepresentationOk == Spec => []RepOk
<1>1. IInv => RepOk
  BY OrderIsRepOk
<1> QED BY <1>1, Invariant, PTL

LEMMA OrderReads ==
  ASSUME IInv
  PROVE  Reads
<1>1. PICK c : InOrder(c)
  BY DEF IInv
<1>2. /\ Linked(c, next, prev, numels) /\ mid = Middle(c, numels)
      /\ iter_active => iter_pos \in 0 .. numels + 1 /\ iter_curentry = c[iter_pos + 1]
  BY <1>1 DEF InOrder
<1>3. numels \in Nat /\ Items \in Seq(Data) /\ Len(Items) = numels /\ iter_active \in BOOLEAN
  BY ItemsLength
<1>4. ASSUME NEW pos \in -1 .. numels PROVE list_findpos(pos) = At(pos)
  <2>1. list_findpos(pos) = c[pos + 1]
    BY <1>2, FindposFinds
  <2>2. pos \in -1 .. numels + 1
    BY <1>3
  <2> QED BY <1>2, <2>1, <2>2, ChainIs
<1>5. ASSUME NEW pos \in 0 .. numels - 1 PROVE list_get_at(pos) = Items[pos + 1]
  <2>1. pos \in -1 .. numels
    BY <1>3
  <2>2. data[list_findpos(pos)] = Items[pos + 1]
    BY ItemAt
  <2> QED BY <2>1, <2>2 DEF list_get_at
<1>6. ASSUME numels > 0
      PROVE  list_get_minmax(1) = Max(ToSet(Items)) /\ list_get_minmax(-1) = Min(ToSet(Items))
  BY <1>3, <1>6, MinmaxFinds
<1>7. list_iterator_hasnext <=> iter_active /\ iter_curentry \in Cell
  <2>1. ASSUME iter_active PROVE iter_pos < numels <=> iter_curentry \in Cell
    <3>1. iter_pos \in 0 .. numels + 1 /\ iter_curentry = c[iter_pos + 1]
      BY <1>2, <2>1
    <3>2. CASE iter_pos = numels + 1
      <4>1. c[numels + 2] = NULL
        BY <1>2 DEF Linked
      <4>2. iter_curentry = NULL
        BY <1>3, <3>1, <3>2, <4>1
      <4>3. NULL \notin Cell
        BY SimcListAssumption DEF NULL, Cell
      <4> QED BY <1>3, <3>2, <4>2, <4>3
    <3>3. CASE iter_pos # numels + 1
      <4>1. iter_pos + 1 \in 0 .. numels + 1
        BY <1>3, <3>1, <3>3
      <4>2. iter_pos + 1 \in 1 .. numels <=> c[iter_pos + 1] \in Cell
        BY <1>2, <4>1, LinkedEntries
      <4> QED BY <1>3, <3>1, <4>2
    <3> QED BY <3>2, <3>3
  <2> QED BY <2>1 DEF list_iterator_hasnext
<1> QED BY <1>4, <1>5, <1>6, <1>7 DEF Reads

\* What is read agrees with the items: list_findpos() finds the entry whichever
\* end it starts from, and list_get_minmax() and list_iterator_hasnext() are right.
THEOREM ReadsRight == Spec => []Reads
<1>1. IInv => Reads
  BY OrderReads
<1> QED BY <1>1, Invariant, PTL

\* The chain of cells implements the sequence with a session of ListSpec: the
\* initial list is the empty one, and each call does what is said of it.
THEOREM Implements == Spec => ImplementsList
<1>1. Init => Promise!Init
  <2> SUFFICES ASSUME Init PROVE Promise!Init
    OBVIOUS
  <2>1. numels = 0 /\ iter_active = FALSE /\ lost = FALSE
        /\ call = [op |-> "init", args |-> <<>>, value |-> Okay]
    BY DEF Init
  <2>2. Items = <<>>
    BY <2>1 DEF Items
  <2> QED BY <2>1, <2>2 DEF Promise!Init, Promise!Okay, Okay
<1>2. IInv /\ [Next]_vars => [lost \/ Promise!Next]_(Promise!vars)
  <2>1. ASSUME IInv, Next PROVE Promise!Next
    BY <2>1, NextIsPromised
  <2>2. ASSUME IInv, UNCHANGED vars PROVE UNCHANGED Promise!vars
    <3>1. UNCHANGED <<links, size, session>> /\ UNCHANGED <<call, lost>>
      BY <2>2 DEF vars
    <3>2. Items' = Items
      BY <2>2, <3>1, StayStep
    <3>3. Session' = Session
      BY <3>1 DEF Session, session
    <3> QED BY <3>1, <3>2, <3>3 DEF Promise!vars, Session
  <2> QED BY <2>1, <2>2
<1>3. Spec => Promise!Spec
  BY <1>1, <1>2, Invariant, PTL DEF Spec, Promise!Spec
<1> QED BY <1>3 DEF ImplementsList
=============================================================================
