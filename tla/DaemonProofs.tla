----------------------------- MODULE DaemonProofs -----------------------------
(***************************************************************************)
(* The daemon's menu: the cursor stays in it, the display shows what the   *)
(* cursor is at, and the lists are the database's, for every database,     *)
(* every list of stations and any number of keys between two writes.       *)
(***************************************************************************)
EXTENDS Daemon, NumberTheorems, SequenceTheorems

-----------------------------------------------------------------------------
(* menu_populate().                                                        *)

\* One entry placed in the list.
Placed(list, text, sort) == IF sort THEN Insert(list, text) ELSE <<text>> \o list

\* Populate() places the entries one by one.
LEMMA PopulateSteps ==
  ASSUME NEW n \in Nat, NEW data, DOMAIN data = 1 .. n, NEW sort \in BOOLEAN
  PROVE  \E f : /\ f[0] = <<>>
                /\ \A k \in 1 .. n : f[k] = Placed(f[k - 1], data[k].name, sort)
                /\ Populate(data, sort) = f[n]
<1> DEFINE Step(s, g) == IF s = {} THEN <<>>
                         ELSE Placed(g[s \ {Max(s)}], Names(data)[Max(s)], sort)
           Iter(N, g) == g = [s \in SUBSET N |-> Step(s, g)]
           it == CHOOSE g : Iter(1 .. n, g)
<1>1. Populate(data, sort) = it[1 .. n]
  BY DEF Populate, FoldLeft, MapThenFoldSet, Names, Placed
<1>2. \A k \in 0 .. n : \E g : Iter(1 .. k, g)
  <2> DEFINE P == {k \in Nat : \E g : Iter(1 .. k, g)}
  <2>1. 0 \in P
    <3>1. Iter({}, [s \in {{}} |-> <<>>])
      OBVIOUS
    <3>2. 1 .. 0 = {}
      OBVIOUS
    <3> HIDE DEF Iter
    <3> QED BY <3>1, <3>2
  <2>2. ASSUME NEW k \in 0 .. n - 1, k \in P
        PROVE  k + 1 \in P
    <3>1. PICK g : Iter(1 .. k, g)
      BY <2>2
    <3> DEFINE h == [s \in SUBSET (1 .. k + 1) |->
                       IF s \subseteq 1 .. k THEN g[s] ELSE Step(s, g)]
    <3>2. ASSUME NEW s \in SUBSET (1 .. k + 1), s # {}
          PROVE  Max(s) \in s /\ s \ {Max(s)} \subseteq 1 .. k
      <4>1. s \in SUBSET Nat
        OBVIOUS
      <4>2. s \in SUBSET (0 .. k + 1) /\ k + 1 \in Nat
        OBVIOUS
      <4>3. Max(s) \in s /\ \A i \in s : Max(s) >= i
        BY <3>2, <4>2, Greatest
      <4>4. ASSUME NEW m \in s, \A i \in s : m >= i
            PROVE  s \ {m} \subseteq 1 .. k
        BY <4>4
      <4> QED BY <4>3, <4>4
    <3>3. Iter(1 .. k + 1, h)
      <4>1. ASSUME NEW s \in SUBSET (1 .. k + 1)
            PROVE  h[s] = Step(s, h)
        <5>1. CASE s = {}
          BY <3>1, <5>1
        <5>2. CASE s # {}
          <6>1. h[s \ {Max(s)}] = g[s \ {Max(s)}]
            BY <3>2, <5>2
          <6>2. h[s] = Step(s, g)
            BY <3>1, <5>2
          <6> QED BY <6>1, <6>2, <5>2
        <5> QED BY <5>1, <5>2
      <4> QED BY <4>1
    <3> HIDE DEF Iter, h
    <3> QED BY <3>3
  <2> HIDE DEF Iter
  <2>3. \A k \in 0 .. n : k \in P
    <3> HIDE DEF P
    <3> QED BY <2>1, <2>2, UpTo
  <2> QED BY <2>3
<1>3. it = [s \in SUBSET (1 .. n) |-> Step(s, it)]
  <2> HIDE DEF Iter
  <2>1. Iter(1 .. n, it)
    BY <1>2
  <2> QED BY <2>1 DEF Iter
<1> HIDE DEF it
<1>4. \A s \in SUBSET (1 .. n) : it[s] = Step(s, it)
  BY <1>3
<1> DEFINE f == [k \in 0 .. n |-> it[1 .. k]]
<1>5. \A k \in 0 .. n : f[k] = it[1 .. k]
  OBVIOUS
<1> HIDE DEF f
<1>6. f[0] = <<>>
  <2>1. 1 .. 0 = {} /\ {} \in SUBSET (1 .. n)
    OBVIOUS
  <2>2. it[{}] = <<>>
    BY <1>4, <2>1
  <2> QED BY <1>5, <2>1, <2>2
<1>7. ASSUME NEW k \in 1 .. n
      PROVE  f[k] = Placed(f[k - 1], data[k].name, sort)
  <2>1. Max(1 .. k) = k
    BY DEF Max
  <2>2. (1 .. k) \ {k} = 1 .. k - 1
    OBVIOUS
  <2>3. it[1 .. k] = Step(1 .. k, it)
    <3>1. 1 .. k \in SUBSET (1 .. n)
      OBVIOUS
    <3> QED BY <1>4, <3>1
  <2>4. 1 .. k # {}
    OBVIOUS
  <2>5. Names(data)[k] = data[k].name
    BY DEF Names
  <2>6. f[k] = it[1 .. k] /\ f[k - 1] = it[1 .. k - 1]
    BY <1>5
  <2> QED BY <2>1, <2>2, <2>3, <2>4, <2>5, <2>6
<1>8. f[n] = it[1 .. n]
  BY <1>5
<1> QED BY <1>1, <1>6, <1>7, <1>8

\* One list behind the other, with their lengths as numbers.
LEMMA JoinProperties ==
  ASSUME NEW c \in Seq(Text), NEW b \in Seq(Text), NEW m \in Nat, NEW all \in Nat,
         Len(c) = m, m + Len(b) = all
  PROVE  /\ c \o b \in Seq(Text)
         /\ Len(c \o b) = all
         /\ \A i \in 1 .. all : (c \o b)[i] = IF i <= m THEN c[i] ELSE b[i - m]
BY ConcatProperties

\* A text inserted at m.
LEMMA InsertAtProperties ==
  ASSUME NEW list \in Seq(Text), NEW text \in Text, NEW m \in 1 .. Len(list) + 1
  PROVE  /\ InsertAt(list, m, text) \in Seq(Text)
         /\ Len(InsertAt(list, m, text)) = Len(list) + 1
         /\ \A i \in 1 .. Len(list) + 1 :
              InsertAt(list, m, text)[i] = IF i < m THEN list[i]
                                           ELSE IF i = m THEN text ELSE list[i - 1]
<1> DEFINE a == SubSeq(list, 1, m - 1)
           b == SubSeq(list, m, Len(list))
<1>1. /\ a \in Seq(Text) /\ Len(a) = m - 1
      /\ \A i \in 1 .. m - 1 : a[i] = list[i]
  BY SubSeqProperties
<1>2. /\ b \in Seq(Text) /\ Len(b) = Len(list) - m + 1
      /\ \A i \in 1 .. Len(list) - m + 1 : b[i] = list[m + i - 1]
  BY SubSeqProperties
<1>3. InsertAt(list, m, text) = (a \o <<text>>) \o b
  BY DEF InsertAt
<1> HIDE DEF a, b
<1>4. /\ a \o <<text>> \in Seq(Text) /\ Len(a \o <<text>>) = m
      /\ \A i \in 1 .. m : (a \o <<text>>)[i] = IF i < m THEN list[i] ELSE text
  <2>1. <<text>> \in Seq(Text) /\ Len(<<text>>) = 1 /\ <<text>>[1] = text
    OBVIOUS
  <2> QED BY <1>1, <2>1, ConcatProperties
<1> DEFINE c == a \o <<text>>
<1>5. c \in Seq(Text) /\ Len(c) = m
  BY <1>4
<1>6. Len(list) \in Nat
  OBVIOUS
<1>7. \A i \in 1 .. m : c[i] = IF i < m THEN list[i] ELSE text
  BY <1>4
<1> HIDE DEF c
<1>8. /\ c \o b \in Seq(Text)
      /\ Len(c \o b) = Len(list) + 1
      /\ \A i \in 1 .. Len(list) + 1 : (c \o b)[i] = IF i <= m THEN c[i] ELSE b[i - m]
  <2> DEFINE all == Len(list) + 1
  <2>1. b \in Seq(Text) /\ Len(b) = Len(list) - m + 1
    BY <1>2
  <2>2. m \in Nat /\ all \in Nat /\ m + Len(b) = all
    BY <1>6, <2>1
  <2> HIDE DEF all
  <2>3. /\ c \o b \in Seq(Text)
        /\ Len(c \o b) = all
        /\ \A i \in 1 .. all : (c \o b)[i] = IF i <= m THEN c[i] ELSE b[i - m]
    BY <1>5, <2>1, <2>2, JoinProperties
  <2> QED BY <2>3 DEF all
<1>9. ASSUME NEW i \in 1 .. Len(list) + 1
      PROVE  (c \o b)[i] = IF i < m THEN list[i]
                           ELSE IF i = m THEN text ELSE list[i - 1]
  <2>1. CASE i <= m
    BY <1>6, <1>7, <1>8, <2>1
  <2>2. CASE i > m
    <3>1. i - m \in 1 .. Len(list) - m + 1 /\ m + (i - m) - 1 = i - 1
      BY <1>6, <2>2
    <3> QED BY <1>2, <1>6, <1>8, <2>2, <3>1
  <2>3. i <= m \/ i > m
    BY <1>6
  <2> QED BY <2>1, <2>2, <2>3
<1> QED BY <1>3, <1>8, <1>9 DEF c

\* menu_populate() with sort inserts the text somewhere and keeps the order.
LEMMA InsertProperties ==
  ASSUME NEW list \in Seq(Text), NEW text \in Text
  PROVE  /\ Insert(list, text) \in Seq(Text)
         /\ Len(Insert(list, text)) = Len(list) + 1
         /\ \E m \in 1 .. Len(list) + 1 : \A i \in 1 .. Len(list) + 1 :
              Insert(list, text)[i] = IF i < m THEN list[i]
                                      ELSE IF i = m THEN text ELSE list[i - 1]
         /\ Sorted(list) => Sorted(Insert(list, text))
<1> DEFINE stops == {i \in DOMAIN list : list[i] >= text}
<1>1. DOMAIN list = 1 .. Len(list) /\ Len(list) \in Nat
  OBVIOUS
<1>2. CASE stops = {}
  <2>1. Insert(list, text) = Append(list, text)
    BY <1>2 DEF Insert
  <2>2. \A i \in 1 .. Len(list) : list[i] < text
    BY <1>1, <1>2 DEF Text
  <2>3. /\ Append(list, text) \in Seq(Text)
        /\ Len(Append(list, text)) = Len(list) + 1
        /\ \A i \in 1 .. Len(list) + 1 :
              Append(list, text)[i] = IF i < Len(list) + 1 THEN list[i]
                                      ELSE IF i = Len(list) + 1 THEN text ELSE list[i - 1]
    BY <1>1, AppendProperties
  <2>4. Sorted(list) => Sorted(Append(list, text))
    <3> SUFFICES ASSUME Sorted(list),
                        NEW i \in 1 .. Len(list) + 1, NEW j \in 1 .. Len(list) + 1,
                        i < j
                 PROVE  Append(list, text)[i] <= Append(list, text)[j]
      BY <2>3 DEF Sorted
    <3>1. i \in DOMAIN list /\ Append(list, text)[i] = list[i]
      BY <1>1, <2>3
    <3>2. CASE j \in DOMAIN list
      BY <1>1, <2>3, <3>1, <3>2 DEF Sorted
    <3>3. CASE j = Len(list) + 1
      BY <1>1, <2>2, <2>3, <3>1, <3>3 DEF Text
    <3> QED BY <1>1, <3>2, <3>3
  <2> QED BY <1>1, <2>1, <2>3, <2>4
<1>3. CASE stops # {}
  <2> DEFINE m == Min(stops)
  <2>1. m \in stops /\ \A i \in stops : m <= i
    <3>1. stops \in SUBSET Nat
      OBVIOUS
    <3> HIDE DEF stops
    <3> QED BY <1>3, <3>1, Least DEF Min
  <2>2. Insert(list, text) = InsertAt(list, m, text)
    BY <1>3 DEF Insert
  <2> HIDE DEF m
  <2>3. /\ m \in 1 .. Len(list)
        /\ list[m] >= text
        /\ \A i \in 1 .. m - 1 : list[i] < text
    <3>1. ASSUME NEW i \in 1 .. m - 1
          PROVE  list[i] < text
      <4>1. i \in DOMAIN list /\ ~(m <= i)
        BY <2>1
      <4> QED BY <2>1, <4>1 DEF Text
    <3> QED BY <2>1, <3>1
  <2>4. /\ InsertAt(list, m, text) \in Seq(Text)
        /\ Len(InsertAt(list, m, text)) = Len(list) + 1
        /\ \A i \in 1 .. Len(list) + 1 :
             InsertAt(list, m, text)[i] = IF i < m THEN list[i]
                                          ELSE IF i = m THEN text ELSE list[i - 1]
    BY <2>3, InsertAtProperties
  <2>5. ASSUME Sorted(list)
        PROVE  Sorted(InsertAt(list, m, text))
    <3> DEFINE l == InsertAt(list, m, text)
    <3>1. DOMAIN l = 1 .. Len(list) + 1
      BY <2>4
    <3>2. \A i, j \in 1 .. Len(list) : i <= j => list[i] <= list[j]
      <4>1. \A i, j \in DOMAIN list : i < j => list[i] <= list[j]
        BY <2>5 DEF Sorted
      <4>2. \A i \in DOMAIN list : list[i] <= list[i]
        BY DEF Text
      <4>3. DOMAIN list = 1 .. Len(list)
        OBVIOUS
      <4> QED BY <4>1, <4>2, <4>3
    <3> HIDE DEF l
    <3>3. \A i \in 1 .. Len(list) + 1 :
             l[i] = IF i < m THEN list[i] ELSE IF i = m THEN text ELSE list[i - 1]
      BY <2>4 DEF l
    <3>4. \A i \in 1 .. Len(list) : list[i] \in Nat
      BY <1>1 DEF Text
    <3>5. ASSUME NEW i \in 1 .. Len(list) + 1, NEW j \in 1 .. Len(list) + 1, i < j
          PROVE  l[i] <= l[j]
      <4>1. CASE j < m
        <5>1. i < m
          <6>1. i \in Int /\ j \in Int /\ m \in Int
            BY <2>3
          <6> QED BY ONLY <3>5, <4>1, <6>1
        <5>3. l[i] = list[i] /\ l[j] = list[j]
          BY <3>3, <4>1, <5>1
        <5>2. i \in 1 .. Len(list) /\ j \in 1 .. Len(list) /\ i <= j
          BY <2>3, <3>5, <4>1
        <5> QED BY <3>2, <5>2, <5>3
      <4>2. CASE j = m
        <5>1. i \in 1 .. m - 1 /\ i < m /\ i \in 1 .. Len(list)
          BY <2>3, <3>5, <4>2
        <5>2. l[i] = list[i] /\ l[j] = text
          BY <3>3, <4>2, <5>1
        <5>3. list[i] < text /\ list[i] \in Nat
          BY <2>3, <3>4, <5>1
        <5> QED BY <5>2, <5>3 DEF Text
      <4>3. CASE j > m /\ i > m
        <5>1. l[i] = list[i - 1] /\ l[j] = list[j - 1]
          BY <2>3, <3>3, <3>5, <4>3
        <5>2. i - 1 \in 1 .. Len(list) /\ j - 1 \in 1 .. Len(list) /\ i - 1 <= j - 1
          BY <2>3, <3>5, <4>3
        <5> QED BY <3>2, <5>1, <5>2
      <4>4. CASE j > m /\ i = m
        <5>1. l[i] = text /\ l[j] = list[j - 1] /\ list[m] <= list[j - 1]
          BY <2>3, <3>2, <3>3, <4>4
        <5> QED BY <2>3, <3>4, <5>1, <4>4 DEF Text
      <4>5. CASE j > m /\ i < m
        <5>1. l[i] = list[i] /\ l[j] = list[j - 1]
          BY <2>3, <3>3, <4>5
        <5>2. i \in 1 .. Len(list) /\ j - 1 \in 1 .. Len(list) /\ i <= j - 1
          BY <2>3, <4>5
        <5> QED BY <3>2, <5>1, <5>2
      <4> QED BY <2>3, <4>1, <4>2, <4>3, <4>4, <4>5
    <3> QED BY <3>1, <3>5 DEF Sorted, l
  <2>6. m \in 1 .. Len(list) + 1
    BY <2>3
  <2> QED BY <2>2, <2>4, <2>5, <2>6
<1> QED BY <1>2, <1>3

\* Without sort every text goes in front of all others.
LEMMA PrependProperties ==
  ASSUME NEW list \in Seq(Text), NEW text \in Text
  PROVE  /\ <<text>> \o list \in Seq(Text)
         /\ Len(<<text>> \o list) = Len(list) + 1
         /\ \A i \in 1 .. Len(list) + 1 :
              (<<text>> \o list)[i] = IF i = 1 THEN text ELSE list[i - 1]
<1>1. <<text>> \in Seq(Text) /\ Len(<<text>>) = 1 /\ <<text>>[1] = text
  OBVIOUS
<1>2. Len(list) \in Nat
  OBVIOUS
<1> QED BY <1>1, <1>2, ConcatProperties

\* The text is placed at m in a list of k.
IsPlaced(longer, list, k, m, text) ==
  /\ DOMAIN list = 1 .. k
  /\ DOMAIN longer = 1 .. k + 1
  /\ \A i \in 1 .. k + 1 : longer[i] = IF i < m THEN list[i]
                                         ELSE IF i = m THEN text ELSE list[i - 1]

\* The same text placed in a list and behind its names.
LEMMA RearrangedExtends ==
  ASSUME NEW k \in Nat, NEW m \in 1 .. k + 1, NEW text,
         NEW first, NEW names, IsPlaced(names, first, k, k + 1, text),
         NEW list, NEW longer, IsPlaced(longer, list, k, m, text),
         Rearranged(list, first)
  PROVE  Rearranged(longer, names)
<1>0. /\ DOMAIN list = 1 .. k /\ DOMAIN longer = 1 .. k + 1
      /\ DOMAIN first = 1 .. k /\ DOMAIN names = 1 .. k + 1
      /\ \A i \in 1 .. k + 1 : longer[i] = IF i < m THEN list[i]
                                             ELSE IF i = m THEN text ELSE list[i - 1]
      /\ \A i \in 1 .. k : first[i] = names[i]
      /\ names[k + 1] = text
  BY DEF IsPlaced
<1>1. PICK f \in Bijection(1 .. k, 1 .. k) : \A i \in 1 .. k : list[i] = first[f[i]]
  BY <1>0 DEF Rearranged
<1>2. /\ f \in [1 .. k -> 1 .. k]
      /\ \A a, b \in 1 .. k : f[a] = f[b] => a = b
      /\ \A c \in 1 .. k : \E a \in 1 .. k : f[a] = c
  BY DEF Bijection, Injection, Surjection, IsInjective
<1> DEFINE g == [i \in 1 .. k + 1 |-> IF i < m THEN f[i]
                                      ELSE IF i = m THEN k + 1 ELSE f[i - 1]]
<1>3. \A i \in 1 .. k + 1 : /\ i < m => i \in 1 .. k
                            /\ i > m => i - 1 \in 1 .. k
  OBVIOUS
<1>4. /\ DOMAIN g = 1 .. k + 1
      /\ \A i \in 1 .. k + 1 : g[i] = IF i < m THEN f[i]
                                      ELSE IF i = m THEN k + 1 ELSE f[i - 1]
      /\ g = [i \in 1 .. k + 1 |-> g[i]]
  OBVIOUS
<1> HIDE DEF g
<1>5. ASSUME NEW i \in 1 .. k + 1
      PROVE  /\ i < m => g[i] = f[i] /\ g[i] \in 1 .. k
             /\ i = m => g[i] = k + 1
             /\ i > m => g[i] = f[i - 1] /\ g[i] \in 1 .. k
             /\ g[i] \in 1 .. k + 1
  <2>1. \A x \in 1 .. k : f[x] \in 1 .. k
    BY <1>2
  <2>2. CASE i < m
    <3>1. i \in 1 .. k /\ g[i] = f[i]
      BY <1>3, <1>4, <2>2
    <3> QED BY <2>1, <2>2, <3>1
  <2>3. CASE i = m
    BY <1>4, <2>3
  <2>4. CASE i > m
    <3>1. i - 1 \in 1 .. k /\ g[i] = f[i - 1]
      BY <1>3, <1>4, <2>4
    <3> QED BY <2>1, <2>4, <3>1
  <2> QED BY <2>2, <2>3, <2>4
<1>6. ASSUME NEW a \in 1 .. k + 1, NEW b \in 1 .. k + 1, g[a] = g[b]
      PROVE  a = b
  <2>1. CASE a = m \/ b = m
    BY <1>5, <1>6, <2>1
  <2>2. CASE a # m /\ b # m
    <3> DEFINE x == IF a < m THEN a ELSE a - 1
               y == IF b < m THEN b ELSE b - 1
    <3>1. x \in 1 .. k /\ y \in 1 .. k
      BY <1>3, <2>2
    <3>2. f[x] = f[y]
      BY <1>5, <1>6, <2>2
    <3>3. x = y
      BY <1>2, <3>1, <3>2
    <3> QED BY <2>2, <3>3
  <2> QED BY <2>1, <2>2
<1>7. ASSUME NEW c \in 1 .. k + 1
      PROVE  \E a \in 1 .. k + 1 : g[a] = c
  <2>1. CASE c = k + 1
    BY <1>5, <2>1
  <2>2. CASE c # k + 1
    <3>1. PICK a \in 1 .. k : f[a] = c
      BY <1>2, <2>2
    <3>2. CASE a < m
      BY <1>5, <3>1, <3>2
    <3>3. CASE a >= m
      <4>1. a + 1 \in 1 .. k + 1 /\ a + 1 > m /\ (a + 1) - 1 = a
        BY <3>3
      <4>2. g[a + 1] = c
        BY <1>5, <3>1, <4>1
      <4> QED BY <4>1, <4>2
    <3> QED BY <3>2, <3>3
  <2> QED BY <2>1, <2>2
<1>8. g \in Bijection(1 .. k + 1, 1 .. k + 1)
  <2>1. g \in [1 .. k + 1 -> 1 .. k + 1]
    BY <1>4, <1>5
  <2> QED BY <2>1, <1>6, <1>7 DEF Bijection, Injection, Surjection, IsInjective
<1>9. ASSUME NEW i \in 1 .. k + 1
      PROVE  longer[i] = names[g[i]]
  <2>1. \A j \in 1 .. k : list[j] = names[f[j]]
    BY <1>0, <1>1, <1>2
  <2>2. CASE i < m
    BY <1>0, <1>3, <1>5, <2>1, <2>2
  <2>3. CASE i = m
    BY <1>0, <1>5, <2>3
  <2>4. CASE i > m
    <3>1. i - 1 \in 1 .. k /\ g[i] = f[i - 1]
      BY <1>3, <1>5, <2>4
    <3>2. longer[i] = list[i - 1]
      BY <1>0, <2>4
    <3> QED BY <2>1, <3>1, <3>2
  <2> QED BY <2>2, <2>3, <2>4
<1> QED BY <1>0, <1>8, <1>9 DEF Rearranged

\* The list that menu_populate() makes of an answer.
LEMMA PopulateProperties ==
  ASSUME NEW n \in Nat, NEW data, DOMAIN data = 1 .. n,
         \A i \in 1 .. n : data[i].name \in Text,
         NEW sort \in BOOLEAN
  PROVE  /\ Populate(data, sort) \in Seq(Text)
         /\ Len(Populate(data, sort)) = n
         /\ sort => /\ Sorted(Populate(data, sort))
                    /\ Rearranged(Populate(data, sort), Names(data))
         /\ ~sort => Populate(data, sort) = Reverse(Names(data))
<1>1. PICK f : /\ f[0] = <<>>
               /\ \A k \in 1 .. n : f[k] = Placed(f[k - 1], data[k].name, sort)
               /\ Populate(data, sort) = f[n]
  BY PopulateSteps
<1> DEFINE N(k) == [i \in 1 .. k |-> data[i].name]
           Good(k) == /\ f[k] \in Seq(Text)
                      /\ Len(f[k]) = k
                      /\ sort => Sorted(f[k]) /\ Rearranged(f[k], N(k))
                      /\ ~sort => \A i \in 1 .. k : f[k][i] = data[k - i + 1].name
           P == {k \in Nat : Good(k)}
<1>2. 0 \in P
  <2>1. f[0] \in Seq(Text) /\ Len(f[0]) = 0 /\ 1 .. 0 = {} /\ DOMAIN f[0] = {}
    BY <1>1
  <2>2. Sorted(f[0])
    BY <2>1 DEF Sorted
  <2>3. Rearranged(f[0], N(0))
    <3> DEFINE e == [i \in {} |-> 0]
    <3>1. e \in Bijection({}, {})
      BY DEF Bijection, Injection, Surjection, IsInjective
    <3>2. DOMAIN N(0) = {}
      OBVIOUS
    <3> HIDE DEF e
    <3> QED BY <2>1, <3>1, <3>2 DEF Rearranged
  <2> QED BY <2>1, <2>2, <2>3
<1>3. ASSUME NEW k \in 0 .. n - 1, k \in P
      PROVE  k + 1 \in P
  <2>1. Good(k) /\ k \in Nat
    BY <1>3
  <2> DEFINE list == f[k]
             text == data[k + 1].name
             longer == f[k + 1]
  <2>2. list \in Seq(Text) /\ Len(list) = k /\ text \in Text /\ DOMAIN list = 1 .. k
    BY <2>1
  <2>3. longer = Placed(list, text, sort)
    <3>1. k + 1 \in 1 .. n /\ (k + 1) - 1 = k
      OBVIOUS
    <3> QED BY <1>1, <3>1
  <2>4. CASE sort
    <3>1. longer = Insert(list, text)
      BY <2>3, <2>4 DEF Placed
    <3>2. Sorted(list) /\ Rearranged(list, N(k))
      BY <2>1, <2>4
    <3> HIDE DEF list, text, longer, Good
    <3>3. longer \in Seq(Text) /\ Len(longer) = k + 1 /\ Sorted(longer)
      BY <2>2, <3>1, <3>2, InsertProperties
    <3>4. PICK m \in 1 .. k + 1 : \A i \in 1 .. k + 1 :
             longer[i] = IF i < m THEN list[i] ELSE IF i = m THEN text ELSE list[i - 1]
      BY <2>2, <3>1, InsertProperties
    <3>5. IsPlaced(longer, list, k, m, text)
      <4>1. DOMAIN longer = 1 .. k + 1 /\ DOMAIN list = 1 .. k
        BY <2>2, <3>3
      <4> QED BY ONLY <3>4, <4>1, Zenon DEF IsPlaced
    <3>6. IsPlaced(N(k + 1), N(k), k, k + 1, text)
      BY DEF IsPlaced, text
    <3>7. Rearranged(longer, N(k + 1))
      <4> HIDE DEF N
      <4>1. k \in Nat
        BY <2>1
      <4> QED BY <3>2, <3>5, <3>6, <4>1, RearrangedExtends
    <3>8. Good(k + 1)
      BY <2>4, <3>3, <3>7 DEF Good, longer
    <3> QED BY <3>8
  <2>5. CASE ~sort
    <3>1. longer = <<text>> \o list
      BY <2>3, <2>5 DEF Placed
    <3>2. \A i \in 1 .. k : list[i] = data[k - i + 1].name
      BY <2>1, <2>5
    <3> HIDE DEF list, longer, Good
    <3>3. /\ longer \in Seq(Text) /\ Len(longer) = k + 1
          /\ \A i \in 1 .. k + 1 : longer[i] = IF i = 1 THEN text ELSE list[i - 1]
      BY <2>2, <3>1, PrependProperties
    <3>4. ASSUME NEW i \in 1 .. k + 1
          PROVE  longer[i] = data[(k + 1) - i + 1].name
      <4>1. CASE i = 1
        BY <3>3, <4>1
      <4>2. CASE i # 1
        <5>1. i - 1 \in 1 .. k /\ k - (i - 1) + 1 = (k + 1) - i + 1
          BY <4>2
        <5> QED BY <3>2, <3>3, <4>2, <5>1
      <4> QED BY <4>1, <4>2
    <3>5. Good(k + 1)
      BY <2>5, <3>3, <3>4 DEF Good, longer
    <3> QED BY <3>5
  <2> QED BY <2>4, <2>5
<1>4. Good(n)
  <2>1. \A k \in 0 .. n : k \in P
    <3> HIDE DEF P
    <3> QED BY <1>2, <1>3, UpTo
  <2>2. n \in P
    BY <2>1
  <2> QED BY <2>2
<1>5. N(n) = Names(data) /\ DOMAIN Names(data) = 1 .. n
  BY DEF Names
<1>6. ASSUME ~sort
      PROVE  f[n] = Reverse(Names(data))
  <2>1. /\ Len(Names(data)) = n
        /\ \A i \in 1 .. n : Names(data)[i] = data[i].name
    BY DEF Names
  <2>2. f[n] = [i \in 1 .. n |-> f[n][i]]
    BY <1>4
  <2>3. ASSUME NEW i \in 1 .. n
        PROVE  f[n][i] = Names(data)[(n - i) + 1]
    <3>1. (n - i) + 1 \in 1 .. n
      OBVIOUS
    <3>2. f[n][i] = data[(n - i) + 1].name
      BY <1>4, <1>6
    <3> QED BY <2>1, <3>1, <3>2
  <2> QED BY <2>1, <2>2, <2>3 DEF Reverse
<1> QED BY <1>1, <1>4, <1>5, <1>6

-----------------------------------------------------------------------------
(* Paths.                                                                  *)

\* An entry's list and its place there.
LEMMA FrontProperties ==
  ASSUME NEW S, NEW p \in Seq(S), p # NULL
  PROVE  /\ Len(p) \in Nat /\ Len(p) >= 1
         /\ Front(p) \in Seq(S) /\ Len(Front(p)) = Len(p) - 1
         /\ \A i \in 1 .. Len(p) - 1 : Front(p)[i] = p[i]
         /\ Last(p) \in S
<1>1. Len(p) \in Nat /\ Len(p) >= 1
  BY EmptySeq DEF NULL
<1>2. SubSeq(p, 1, Len(p) - 1) \in Seq(S)
  BY <1>1, SubSeqProperties
<1>3. /\ Len(SubSeq(p, 1, Len(p) - 1)) = Len(p) - 1
      /\ \A i \in 1 .. Len(p) - 1 : SubSeq(p, 1, Len(p) - 1)[i] = p[i]
  <2> DEFINE m == Len(p) - 1
  <2>1. m \in Nat /\ m \in 0 .. Len(p)
    BY <1>1
  <2> HIDE DEF m
  <2>2. /\ Len(SubSeq(p, 1, m)) = m
        /\ \A i \in 1 .. m : SubSeq(p, 1, m)[i] = p[i]
    BY <2>1
  <2> QED BY <2>2 DEF m
<1> QED BY <1>1, <1>2, <1>3 DEF Front, Last

\* An entry of the list p.
LEMMA EntryProperties ==
  ASSUME NEW S, NEW p \in Seq(S), NEW x \in S
  PROVE  /\ Append(p, x) \in Seq(S) /\ Append(p, x) # NULL
         /\ Len(Append(p, x)) = Len(p) + 1
         /\ Front(Append(p, x)) = p /\ Last(Append(p, x)) = x
<1>1. /\ Append(p, x) \in Seq(S) /\ Append(p, x) # NULL
      /\ Len(Append(p, x)) = Len(p) + 1
      /\ Append(p, x)[Len(p) + 1] = x
      /\ Len(p) \in Nat
  BY AppendProperties DEF NULL
<1>2. SubSeq(Append(p, x), 1, Len(p)) = p
  BY AppendProperties, SubSeqProperties
<1> QED BY <1>1, <1>2 DEF Front, Last

\* The entries of the main menu.
LEMMA TopEntries ==
  /\ Front(<<1>>) = NULL /\ Last(<<1>>) = 1
  /\ Front(<<2>>) = NULL /\ Last(<<2>>) = 2
  /\ <<1>> \in Seq(Nat \ {0}) /\ <<1>> # NULL
  /\ <<2>> \in Seq(Nat \ {0}) /\ <<2>> # NULL
<1>1. \A k \in {1, 2} : Front(<<k>>) = NULL /\ Last(<<k>>) = k
  BY DEF Front, Last, NULL
<1>2. \A k \in {1, 2} : <<k>> \in Seq(Nat \ {0}) /\ <<k>> # NULL
  BY DEF NULL
<1> QED BY <1>1, <1>2

-----------------------------------------------------------------------------
(* What MPD answers.                                                       *)

\* What is below a name of the database.
LEMMA SubProperties ==
  ASSUME NEW T, NEW data \in Seq([name : Text, sub : T]), NEW name
  PROVE  /\ Sub(data, name) \in T \union {<<>>}
         /\ (\E i \in DOMAIN data : data[i].name = name) => Sub(data, name) \in T
<1> DEFINE hits == {i \in DOMAIN data : data[i].name = name}
<1>1. \A i \in DOMAIN data : data[i].sub \in T
  <2>1. \A i \in 1 .. Len(data) : data[i] \in [name : Text, sub : T]
    BY ElementOfSeq
  <2> QED BY <2>1
<1>2. hits = {} => Sub(data, name) = <<>>
  BY DEF Sub
<1>3. hits # {} => Sub(data, name) = data[CHOOSE i \in hits : TRUE].sub
  BY DEF Sub
<1>4. hits # {} => (CHOOSE i \in hits : TRUE) \in DOMAIN data
  OBVIOUS
<1> QED BY <1>1, <1>2, <1>3, <1>4

\* The kinds of entries with a list below them are distinct.
LEMMA Kinds ==
  ASSUME NEW p
  PROVE  /\ IsLibrary(p) => p = <<1>> /\ Len(p) = 1 /\ ~IsRadio(p) /\ ~IsArtist(p) /\ ~IsAlbum(p)
         /\ IsArtist(p) => Len(p) = 2 /\ ~IsLibrary(p) /\ ~IsRadio(p) /\ ~IsAlbum(p)
         /\ IsAlbum(p) => Len(p) = 3 /\ ~IsLibrary(p) /\ ~IsRadio(p) /\ ~IsArtist(p)
         /\ IsRadio(p) => p = <<2>> /\ Len(p) = 1 /\ ~IsLibrary(p) /\ ~IsArtist(p) /\ ~IsAlbum(p)
BY DEF IsLibrary, IsRadio, IsArtist, IsAlbum

SongRecord == [name : Text]
ArtistRecord == [name : Text, sub : Albums]
AlbumRecord == [name : Text, sub : Songs]

\* MPD answers with artists, albums or songs.
LEMMA AnswerType ==
  ASSUME db \in 1 .. Len(Library), NEW p
  PROVE  /\ Library[db] \in Seq(ArtistRecord)
         /\ IsLibrary(p) => Answer(p) = Library[db]
         /\ IsArtist(p) => /\ Answer(p) = Sub(Library[db], TextOf(p))
                           /\ Answer(p) \in Seq(AlbumRecord)
         /\ IsAlbum(p) => /\ Answer(p) = Sub(Sub(Library[db], TextOf(Parent(p))), TextOf(p))
                          /\ Answer(p) \in Seq(SongRecord)
<1>1. Library[db] \in Seq(ArtistRecord)
  BY DaemonAssumption DEF Artists, ArtistRecord
<1>2. \A t : Sub(Library[db], t) \in Seq(AlbumRecord)
  <2> TAKE t
  <2>1. Sub(Library[db], t) \in Albums \union {<<>>}
    BY <1>1, SubProperties DEF ArtistRecord
  <2> QED BY <2>1, EmptySeq DEF Albums, AlbumRecord
<1>3. \A t, u : Sub(Sub(Library[db], t), u) \in Seq(SongRecord)
  <2> TAKE t, u
  <2>1. Sub(Sub(Library[db], t), u) \in Songs \union {<<>>}
    BY <1>2, SubProperties DEF AlbumRecord
  <2> QED BY <2>1, EmptySeq DEF Songs, SongRecord
<1>4. IsLibrary(p) => Answer(p) = Library[db]
  BY DEF Answer
<1>5. IsArtist(p) => Answer(p) = Sub(Library[db], TextOf(p))
  BY Kinds DEF Answer
<1>6. IsAlbum(p) => Answer(p) = Sub(Sub(Library[db], TextOf(Parent(p))), TextOf(p))
  BY Kinds DEF Answer
<1> QED BY <1>1, <1>2, <1>3, <1>4, <1>5, <1>6

\* The kinds of entries that have a list.
HasList(p) == IsLibrary(p) \/ IsRadio(p) \/ IsArtist(p) \/ IsAlbum(p)

\* The list a handler makes is the one the menu should have.
LEMMA ListBelowProperties ==
  ASSUME db \in 1 .. Len(Library), NEW p, HasList(p)
  PROVE  /\ ListBelow(p) \in Seq(Text)
         /\ ~IsRadio(p) => /\ IsListOf(p, ListBelow(p))
                           /\ Len(ListBelow(p)) = Len(Answer(p))
                           /\ Len(Answer(p)) \in Nat
<1>1. CASE IsRadio(p)
  BY <1>1, DaemonAssumption DEF ListBelow
<1>2. CASE ~IsRadio(p)
  <2> DEFINE data == Answer(p)
             sort == IsLibrary(p)
             n == Len(data)
  <2>1. n \in Nat /\ DOMAIN data = 1 .. n
    BY <1>2, AnswerType DEF HasList
  <2>2. \A i \in 1 .. n : data[i].name \in Text
    <3>1. \/ data \in Seq(ArtistRecord)
          \/ data \in Seq(AlbumRecord)
          \/ data \in Seq(SongRecord)
      BY <1>2, AnswerType DEF HasList
    <3> HIDE DEF data
    <3>2. \A i \in 1 .. n : data[i] \in ArtistRecord \union AlbumRecord \union SongRecord
      BY <2>1, <3>1, ElementOfSeq
    <3>3. \A r \in ArtistRecord \union AlbumRecord \union SongRecord : r.name \in Text
      BY DEF ArtistRecord, AlbumRecord, SongRecord
    <3> QED BY <3>2, <3>3
  <2>3. sort \in BOOLEAN
    BY DEF IsLibrary
  <2>4. ListBelow(p) = Populate(data, sort)
    BY <1>2 DEF ListBelow
  <2>5. sort => data = Library[db]
    BY AnswerType
  <2>6. IsListOf(p, ListBelow(p)) <=>
          IF sort THEN /\ Rearranged(ListBelow(p), Names(data))
                       /\ Sorted(ListBelow(p))
                  ELSE ListBelow(p) = Reverse(Names(data))
    BY <2>5 DEF IsListOf
  <2> HIDE DEF data, sort, n
  <2>7. /\ Populate(data, sort) \in Seq(Text)
        /\ Len(Populate(data, sort)) = n
        /\ sort => /\ Sorted(Populate(data, sort))
                   /\ Rearranged(Populate(data, sort), Names(data))
        /\ ~sort => Populate(data, sort) = Reverse(Names(data))
    BY <2>1, <2>2, <2>3, PopulateProperties
  <2> QED BY <2>1, <2>4, <2>6, <2>7 DEF data, n
<1> QED BY <1>1, <1>2

-----------------------------------------------------------------------------
(* The invariant.                                                          *)

\* The entry exists.
IsEntry(p) == /\ p # NULL
              /\ Front(p) \in DOMAIN menu
              /\ Last(p) \in DOMAIN menu[Front(p)]

\* Every list but the main menu is below an entry, and none is empty.
MenuIsTree ==
  /\ NULL \in DOMAIN menu
  /\ menu[NULL] = Top
  /\ \A p \in DOMAIN menu : /\ p \in Seq(Nat \ {0})
                            /\ menu[p] \in Seq(Text) \ {<<>>}
                            /\ p # NULL => HasList(p) /\ IsEntry(p)

\* The cursor without the entries above it, which the tree has.
CursorAtEntry ==
  pmenu # NULL => IsEntry(pmenu) /\ (marker = 1 => HasPrev(pmenu))

Known ==
  /\ db \in 1 .. Len(Library)
  /\ known \in [player : {"play", "pause", "stop"}, db : 1 .. Len(Library)]

IInv ==
  /\ TypeOK
  /\ Known
  /\ MenuIsTree
  /\ CursorAtEntry
  /\ SelectionIsShown
  /\ MenuMatchesLibrary
  /\ CrashNeedsEmptyList

\* Below an entry that is no song a list may come.
LEMMA EntryKinds ==
  ASSUME MenuIsTree, NEW p \in Seq(Nat \ {0}), IsEntry(p), ~IsSong(p)
  PROVE  HasList(p)
<1> DEFINE q == Front(p)
<1>1. p # NULL /\ q \in DOMAIN menu /\ Last(p) \in DOMAIN menu[q]
  BY DEF IsEntry
<1>2. /\ Len(p) \in Nat /\ Len(p) >= 1 /\ Len(q) = Len(p) - 1
      /\ \A i \in 1 .. Len(p) - 1 : q[i] = p[i]
      /\ Last(p) = p[Len(p)]
  BY <1>1, FrontProperties DEF Last
<1>3. q \in Seq(Nat \ {0}) /\ (q # NULL => HasList(q))
  BY <1>1 DEF MenuIsTree
<1> HIDE DEF q
<1>4. CASE q = NULL
  <2>1. Len(q) = 0
    BY <1>4 DEF NULL
  <2>2. Len(p) = 1
    BY <1>2, <2>1
  <2>3. p[1] \in 1 .. 2
    BY <1>1, <1>2, <1>4, <2>2 DEF MenuIsTree, Top
  <2>4. p = <<p[1]>>
    BY <2>2
  <2>5. p = <<1>> \/ p = <<2>>
    BY <2>3, <2>4
  <2> QED BY <2>5 DEF HasList, IsLibrary, IsRadio
<1>5. CASE q # NULL
  <2>1. Len(q) >= 1 /\ Len(p) = Len(q) + 1 /\ p[1] = q[1]
    <3>1. Len(q) \in Nat /\ Len(q) # 0
      BY <1>3, <1>5, EmptySeq DEF NULL
    <3>2. Len(p) = Len(q) + 1 /\ 1 \in 1 .. Len(p) - 1
      BY <1>2, <3>1
    <3> QED BY <1>2, <3>1, <3>2
  <2>2. CASE IsLibrary(q)
    <3>1. q[1] = 1 /\ Len(q) = 1
      BY <2>2 DEF IsLibrary
    <3>2. p[1] = 1 /\ Len(p) = 2
      BY <2>1, <3>1
    <3> QED BY <3>2 DEF HasList, IsArtist
  <2>3. CASE IsRadio(q)
    <3>1. q[1] = 2 /\ Len(q) = 1
      BY <2>3 DEF IsRadio
    <3>2. p[1] = 2 /\ Len(p) = 2
      BY <2>1, <3>1
    <3> QED BY <3>2 DEF IsSong
  <2>4. CASE IsArtist(q)
    <3>1. p[1] = 1 /\ Len(p) = 3
      BY <2>1, <2>4 DEF IsArtist
    <3> QED BY <3>1 DEF HasList, IsAlbum
  <2>5. CASE IsAlbum(q)
    <3>1. p[1] = 1 /\ Len(p) = 4
      BY <2>1, <2>5 DEF IsAlbum
    <3> QED BY <3>1 DEF IsSong
  <2> QED BY <1>3, <1>5, <2>2, <2>3, <2>4, <2>5 DEF HasList
<1> QED BY <1>4, <1>5

\* A list that has one below it is not an album's.
LEMMA AboveIsNoAlbum ==
  ASSUME NEW S, NEW p \in Seq(S), p # NULL, HasList(p)
  PROVE  ~IsAlbum(Front(p))
<1>1. Len(p) = 1 \/ Len(p) = 2 \/ Len(p) = 3
  BY Kinds DEF HasList
<1>2. Len(Front(p)) = Len(p) - 1
  BY FrontProperties
<1>3. Len(Front(p)) # 3
  <2> DEFINE k == Len(p)
             l == Len(Front(p))
  <2>1. (k = 1 \/ k = 2 \/ k = 3) /\ l = k - 1
    BY <1>1, <1>2
  <2> HIDE DEF k, l
  <2>2. l # 3
    BY <2>1
  <2> QED BY <2>2 DEF l
<1> QED BY <1>3 DEF IsAlbum

\* An entry's place in its list.
LEMMA EntryPlace ==
  ASSUME MenuIsTree, NEW p, IsEntry(p)
  PROVE  /\ p # NULL /\ Siblings(p) = menu[Front(p)]
         /\ Front(p) \in Seq(Nat \ {0}) /\ menu[Front(p)] \in Seq(Text)
         /\ Len(menu[Front(p)]) \in Nat
         /\ Last(p) \in 1 .. Len(menu[Front(p)])
BY DEF MenuIsTree, IsEntry, Siblings

LEMMA InitIInv == Init => IInv
<1> SUFFICES ASSUME Init
             PROVE  IInv
  OBVIOUS
<1> USE DEF Init
<1>1. TypeOK
  BY DaemonAssumption, EmptySeq DEF TypeOK, NULL, Lines
<1>2. Known
  <2>1. 1 \in 1 .. Len(Library)
    BY DaemonAssumption, EmptySeq
  <2> QED BY <2>1, DaemonAssumption DEF Known
<1>3. MenuIsTree
  <2>1. DOMAIN menu = {NULL} /\ menu[NULL] = Top
    BY DEF NoMenu
  <2>2. Top \in Seq(Text) \ {<<>>}
    BY DEF Top, Text
  <2>3. NULL \in Seq(Nat \ {0})
    BY DEF NULL
  <2> QED BY <2>1, <2>2, <2>3 DEF MenuIsTree
<1>4. CursorAtEntry /\ SelectionIsShown /\ CrashNeedsEmptyList
  BY DEF CursorAtEntry, SelectionIsShown, CrashNeedsEmptyList
<1>5. MenuMatchesLibrary
  BY DEF MenuMatchesLibrary, NoMenu
<1> QED BY <1>1, <1>2, <1>3, <1>4, <1>5 DEF IInv

-----------------------------------------------------------------------------
(* Every step keeps the invariant.                                         *)

\* What LcdUpdate() flags.
LEMMA LcdUpdatePending ==
  ASSUME NEW st, NEW p, NEW mark, LcdUpdate(st, p, mark)
  PROVE  pending' = Lines \/ pending' = pending \union Lines
BY DEF LcdUpdate

LEMMA TypeStep == IInv /\ [Next]_vars => TypeOK' /\ Known'
<1> SUFFICES ASSUME IInv, [Next]_vars
             PROVE  TypeOK' /\ Known'
  OBVIOUS
<1>1. TypeOK /\ Known
  BY DEF IInv
<1>2. /\ pmenu \in Seq(Nat \ {0})
      /\ pmenu # NULL => /\ Front(pmenu) \in Seq(Nat \ {0})
                         /\ Last(pmenu) \in Nat \ {0}
  BY <1>1, FrontProperties DEF TypeOK
<1>3. \A q \in Seq(Nat \ {0}) : \A x \in Nat \ {0} : Append(q, x) \in Seq(Nat \ {0})
  BY AppendProperties
<1>4. NULL \in Seq(Nat \ {0}) /\ <<1>> \in Seq(Nat \ {0})
  BY TopEntries, EmptySeq DEF NULL
<1>5. keys \in 0 .. KeysMax /\ KeysMax \in Nat
  BY <1>1, DaemonAssumption DEF TypeOK
<1>6. ASSUME KeyRead PROVE keys' \in 0 .. KeysMax /\ pc' = pc /\ known' = known
  BY <1>5, <1>6 DEF KeyRead
<1>7. CASE CmdNext
  BY <1>1, <1>6, <1>7 DEF CmdNext, TypeOK, Known, browsing, display
<1>8. CASE CmdPrev
  <2>1. pmenu' \in Seq(Nat \ {0})
    BY <1>2, <1>8 DEF CmdPrev, Parent
  <2>2. marker' \in {0, 1} /\ player' \in {"play", "pause", "stop"}
    BY <1>1, <1>8 DEF CmdPrev, TypeOK
  <2> QED BY <1>1, <1>6, <1>8, <2>1, <2>2, LcdUpdatePending DEF CmdPrev, TypeOK, Known
<1>9. CASE CmdPlay
  <2>1. player' \in {"play", "pause", "stop"}
    BY <1>1, <1>9 DEF CmdPlay, TypeOK
  <2> QED BY <1>1, <1>6, <1>9, <2>1 DEF CmdPlay, TypeOK, Known, browsing, display
<1>10. CASE CmdPlayMenu
  <2>1. /\ player' \in {"play", "pause", "stop"}
        /\ state' \in {"STDBY", "IDLE", "PLAY", "PAUSE", "STOPPED"}
        /\ pmenu' \in Seq(Nat \ {0})
    BY <1>1, <1>4, <1>10 DEF CmdPlayMenu, PlaySelected, TypeOK
  <2> QED BY <1>1, <1>6, <1>10, <2>1 DEF CmdPlayMenu, LcdClear, TypeOK, Known
<1>11. CASE CmdStdby
  <2>1. /\ player' \in {"play", "pause", "stop"}
        /\ state' \in {"STDBY", "IDLE", "PLAY", "PAUSE", "STOPPED"}
        /\ pmenu' \in Seq(Nat \ {0})
    BY <1>1, <1>4, <1>11 DEF CmdStdby, TypeOK
  <2> QED BY <1>1, <1>6, <1>11, <2>1, LcdUpdatePending DEF CmdStdby, TypeOK, Known
<1>12. CASE CmdMenu
  BY <1>1, <1>4, <1>6, <1>12, LcdUpdatePending DEF CmdMenu, TypeOK, Known, mpd
<1>13. CASE CmdSelectSong
  BY <1>1, <1>4, <1>6, <1>13 DEF CmdSelectSong, PlaySelected, TypeOK, Known
<1>14. CASE CmdSelectList
  <2>1. pmenu' \in Seq(Nat \ {0})
    BY <1>2, <1>3, <1>14 DEF CmdSelectList, Child
  <2> QED BY <1>1, <1>6, <1>14, <2>1 DEF CmdSelectList, TypeOK, Known, mpd
<1>15. CASE CmdSelectNothing \/ CmdSelectUnanswered
  BY <1>1, <1>6, <1>15 DEF CmdSelectNothing, CmdSelectUnanswered, TypeOK, Known, browsing,
                           display, mpd
<1>16. CASE CmdSelectNoRadio
  BY <1>1, <1>4, <1>6, <1>16 DEF CmdSelectNoRadio, TypeOK, Known, mpd
<1>17. CASE CmdUp
  <2>1. Last(pmenu) - 1 \in Nat \ {0} /\ Front(pmenu) \in Seq(Nat \ {0})
    BY <1>2, <1>17 DEF CmdUp, HasPrev
  <2>2. pmenu' \in Seq(Nat \ {0})
    BY <1>3, <1>17, <2>1 DEF CmdUp, PrevOf
  <2>3. marker' \in {0, 1}
    BY <1>1, <1>17 DEF CmdUp, TypeOK
  <2> QED BY <1>1, <1>6, <1>17, <2>2, <2>3, LcdUpdatePending DEF CmdUp, TypeOK, Known, mpd
<1>18. CASE CmdDown
  <2>1. Last(pmenu) + 1 \in Nat \ {0} /\ Front(pmenu) \in Seq(Nat \ {0})
    BY <1>2, <1>18 DEF CmdDown
  <2>2. pmenu' \in Seq(Nat \ {0})
    BY <1>3, <1>18, <2>1 DEF CmdDown, NextOf
  <2>3. marker' \in {0, 1}
    BY <1>1, <1>18 DEF CmdDown, TypeOK
  <2> QED BY <1>1, <1>6, <1>18, <2>2, <2>3, LcdUpdatePending DEF CmdDown, TypeOK, Known, mpd
<1>19. ASSUME NEW value \in Dims, CmdDim(value)
       PROVE  TypeOK' /\ Known'
  <2>1. value \in {0, 2}
    BY DaemonAssumption
  <2> QED BY <1>1, <1>6, <1>19, <2>1 DEF CmdDim, TypeOK, Known, browsing, mpd
<1>20. CASE NewSecond
  BY <1>1, <1>20, LcdUpdatePending DEF NewSecond, At, TypeOK, Known, browsing, mpd
<1>21. CASE SameSecond
  BY <1>1, <1>21 DEF SameSecond, At, TypeOK, Known, browsing, display, mpd
<1>22. CASE ReadEnds
  BY <1>1, <1>5, <1>22 DEF ReadEnds, At, TypeOK, Known, browsing, display, mpd
<1>23. CASE Write \/ WriteShort \/ WriteNot \/ StatusFails
  BY <1>1, <1>23 DEF Write, WriteShort, WriteNot, StatusFails, At, TypeOK, Known, browsing,
                     display, mpd
<1>24. CASE Status
  <2>1. /\ state' \in {"STDBY", "IDLE", "PLAY", "PAUSE", "STOPPED"}
        /\ pending' \subseteq Lines \union {"dim"}
    <3>1. CASE UNCHANGED <<state, display>>
      BY <1>1, <3>1 DEF TypeOK, display
    <3>2. CASE UNCHANGED state /\ (LcdUpdate(state, NULL, marker) \/ UNCHANGED display)
      BY <1>1, <3>2, LcdUpdatePending DEF TypeOK, display
    <3>3. CASE /\ state' = IF state # "STDBY" THEN StateOf(player) ELSE state
               /\ pending' = pending \union Lines
      BY <1>1, <3>3 DEF TypeOK, StateOf
    <3> QED BY <1>24, <3>1, <3>2, <3>3 DEF Status
  <2>2. pmenu' \in Seq(Nat \ {0}) /\ pc' = "time"
    BY <1>2, <1>4, <1>24 DEF Status, At
  <2>3. known' = [player |-> player, db |-> db] /\ UNCHANGED <<marker, dim, crash, keys, mpd>>
    BY <1>24 DEF Status
  <2> QED BY <1>1, <2>1, <2>2, <2>3 DEF TypeOK, Known, mpd
<1>25. CASE PlayerChanges
  BY <1>1, <1>25 DEF PlayerChanges, TypeOK, Known, browsing, display, loop
<1>26. CASE DatabaseChanges
  <2>1. Len(Library) \in Nat
    BY DaemonAssumption
  <2> QED BY <1>1, <1>26, <2>1 DEF DatabaseChanges, TypeOK, Known, browsing, display, loop
<1>27. CASE UNCHANGED vars
  BY <1>1, <1>27 DEF TypeOK, Known, vars, browsing, display, loop, mpd
<1> QED BY <1>7, <1>8, <1>9, <1>10, <1>11, <1>12, <1>13, <1>14, <1>15, <1>16, <1>17,
           <1>18, <1>19, <1>20, <1>21, <1>22, <1>23, <1>24, <1>25, <1>26, <1>27
        DEF Next, HandleCommand, Loop, Gone

\* menu_select() adds the list it fetches below the cursor, and changes no
\* other; a list that has one below it stays as it is.
LEMMA SelectListStep ==
  ASSUME IInv, CmdSelectList
  PROVE  /\ IsEntry(pmenu) /\ HasList(pmenu)
         /\ DOMAIN menu' = DOMAIN menu \union {pmenu}
         /\ \A p \in DOMAIN menu : p # pmenu \/ ~IsAlbum(p) => menu'[p] = menu[p]
         /\ menu'[pmenu] \in Seq(Text) \ {<<>>}
         /\ known.db = db /\ ~IsRadio(pmenu) => IsListOf(pmenu, menu'[pmenu])
<1> DEFINE list == IF IsFetched(pmenu) THEN menu[pmenu] ELSE ListBelow(pmenu)
<1>1. /\ pmenu # NULL /\ ~IsSong(pmenu)
      /\ IsFetched(pmenu) \/ ListBelow(pmenu) # <<>>
      /\ menu' = [p \in DOMAIN menu \union {pmenu} |-> IF p = pmenu THEN list ELSE menu[p]]
  BY DEF CmdSelectList
<1>2. IsEntry(pmenu) /\ HasList(pmenu)
  BY <1>1, EntryKinds DEF IInv, CursorAtEntry, TypeOK
<1>3. /\ ListBelow(pmenu) \in Seq(Text)
      /\ ~IsRadio(pmenu) => IsListOf(pmenu, ListBelow(pmenu))
  BY <1>2, ListBelowProperties DEF IInv, Known
<1>4. list \in Seq(Text) \ {<<>>}
  BY <1>1, <1>3 DEF IInv, MenuIsTree, IsFetched
<1>5. known.db = db /\ ~IsRadio(pmenu) => IsListOf(pmenu, list)
  BY <1>1, <1>3 DEF IInv, MenuMatchesLibrary, IsFetched, IsRadio
<1>6. \A p \in DOMAIN menu : p # pmenu \/ ~IsAlbum(p) => menu'[p] = menu[p]
  BY <1>1 DEF IsFetched
<1>7. DOMAIN menu' = DOMAIN menu \union {pmenu} /\ menu'[pmenu] = list
  BY <1>1
<1> HIDE DEF list
<1> QED BY <1>2, <1>4, <1>5, <1>6, <1>7

LEMMA TreeStep == IInv /\ [Next]_vars => MenuIsTree'
<1> SUFFICES ASSUME IInv, [Next]_vars
             PROVE  MenuIsTree'
  OBVIOUS
<1>1. MenuIsTree
  BY DEF IInv
<1>2. CASE UNCHANGED menu
  BY <1>1, <1>2 DEF MenuIsTree, IsEntry, HasList
<1>3. CASE menu' = NoMenu
  <2>1. DOMAIN menu' = {NULL} /\ menu'[NULL] = Top
    BY <1>3 DEF NoMenu
  <2>2. Top \in Seq(Text) \ {<<>>}
    BY DEF Top, Text
  <2>3. NULL \in Seq(Nat \ {0})
    BY DEF NULL
  <2> QED BY <2>1, <2>2, <2>3 DEF MenuIsTree
<1>4. CASE CmdSelectList
  <2>1. NULL \in DOMAIN menu' /\ menu'[NULL] = Top
    <3>1. pmenu # NULL /\ NULL \in DOMAIN menu /\ menu[NULL] = Top
      BY <1>1, <1>4 DEF CmdSelectList, MenuIsTree
    <3> QED BY <1>4, <3>1, SelectListStep
  <2>2. ASSUME NEW p \in DOMAIN menu'
        PROVE  /\ p \in Seq(Nat \ {0})
               /\ menu'[p] \in Seq(Text) \ {<<>>}
               /\ p # NULL => HasList(p) /\ IsEntry(p)
    <3>1. CASE p = pmenu
      BY <1>4, <3>1, SelectListStep DEF IInv, TypeOK
    <3>2. CASE p # pmenu
      <4>1. p \in DOMAIN menu /\ menu'[p] = menu[p]
        BY <1>4, <2>2, <3>2, SelectListStep
      <4> QED BY <1>1, <4>1 DEF MenuIsTree
    <3> QED BY <3>1, <3>2
  <2>3. ASSUME NEW p \in DOMAIN menu', p # NULL
        PROVE  IsEntry(p)'
    <3>1. /\ Front(p) \in DOMAIN menu
          /\ Last(p) \in DOMAIN menu[Front(p)]
          /\ HasList(p) /\ p \in Seq(Nat \ {0})
      BY <2>2, <2>3 DEF IsEntry
    <3>2. ~IsAlbum(Front(p))
      BY <2>3, <3>1, AboveIsNoAlbum
    <3>3. Front(p) \in DOMAIN menu' /\ menu'[Front(p)] = menu[Front(p)]
      BY <1>4, <3>1, <3>2, SelectListStep
    <3> QED BY <2>3, <3>1, <3>3 DEF IsEntry
  <2> QED BY <2>1, <2>2, <2>3 DEF MenuIsTree, HasList
<1>5. UNCHANGED menu \/ menu' = NoMenu \/ CmdSelectList
  BY DEF Next, HandleCommand, CmdNext, CmdPrev, CmdPlay, CmdPlayMenu, CmdStdby, CmdMenu,
         CmdSelectSong, CmdSelectNothing, CmdSelectUnanswered, CmdSelectNoRadio, CmdUp,
         CmdDown, CmdDim, Loop, NewSecond, SameSecond, ReadEnds, Write, WriteShort,
         WriteNot, Status, StatusFails, PlayerChanges, DatabaseChanges, Gone, vars, browsing
<1> QED BY <1>2, <1>3, <1>4, <1>5

\* The entries next to an entry, and the first of a list.
LEMMA NeighbourEntries ==
  ASSUME MenuIsTree, NEW p, IsEntry(p)
  PROVE  /\ HasPrev(p) => /\ IsEntry(PrevOf(p))
         /\ HasNext(p) => /\ IsEntry(NextOf(p)) /\ HasPrev(NextOf(p))
         /\ Parent(p) # NULL => IsEntry(Parent(p))
<1> DEFINE q == Front(p)
           l == Last(p)
           n == Len(menu[q])
<1>1. /\ q \in DOMAIN menu /\ q \in Seq(Nat \ {0})
      /\ n \in Nat /\ l \in 1 .. n /\ DOMAIN menu[q] = 1 .. n
      /\ Siblings(p) = menu[q]
  BY EntryPlace DEF IsEntry
<1>2. ASSUME NEW x \in 1 .. n
      PROVE  IsEntry(Append(q, x)) /\ Last(Append(q, x)) = x
  <2>1. x \in Nat \ {0}
    BY <1>1
  <2> HIDE DEF q, n
  <2> QED BY <1>1, <1>2, <2>1, EntryProperties DEF IsEntry, n
<1>3. ASSUME HasPrev(p)
      PROVE  IsEntry(PrevOf(p))
  <2>1. l - 1 \in 1 .. n
    BY <1>1, <1>3 DEF HasPrev
  <2> QED BY <1>2, <2>1 DEF PrevOf
<1>4. ASSUME HasNext(p)
      PROVE  IsEntry(NextOf(p)) /\ HasPrev(NextOf(p))
  <2>1. l + 1 \in 1 .. n /\ l + 1 > 1
    BY <1>1, <1>4 DEF HasNext
  <2> QED BY <1>2, <2>1 DEF NextOf, HasPrev
<1>5. Parent(p) # NULL => IsEntry(Parent(p))
  BY <1>1 DEF MenuIsTree, Parent
<1> QED BY <1>3, <1>4, <1>5

LEMMA CursorStep == IInv /\ [Next]_vars => CursorAtEntry'
<1> SUFFICES ASSUME IInv, [Next]_vars, pmenu' # NULL
             PROVE  IsEntry(pmenu)' /\ (marker' = 1 => HasPrev(pmenu)')
  BY DEF CursorAtEntry
<1>1. MenuIsTree /\ marker \in {0, 1}
  BY DEF IInv, TypeOK
<1>2. pmenu # NULL => IsEntry(pmenu) /\ (marker = 1 => HasPrev(pmenu))
  BY DEF IInv, CursorAtEntry
<1>3. ASSUME UNCHANGED menu, IsEntry(pmenu'), marker' = 1 => HasPrev(pmenu')
      PROVE  IsEntry(pmenu)' /\ (marker' = 1 => HasPrev(pmenu)')
  BY <1>3 DEF IsEntry, HasPrev
<1>4. CASE UNCHANGED <<menu, pmenu, marker>>
  BY <1>2, <1>3, <1>4
<1>5. CASE CmdPrev
  <2>1. UNCHANGED menu
    BY <1>5 DEF CmdPrev
  <2>2. pmenu # NULL => pmenu' = Parent(pmenu) /\ marker' = 0
    BY <1>5 DEF CmdPrev
  <2>3. pmenu = NULL => UNCHANGED <<pmenu, marker>>
    BY <1>5 DEF CmdPrev
  <2> QED BY <1>1, <1>2, <1>3, <2>1, <2>2, <2>3, NeighbourEntries
<1>6. CASE CmdPlayMenu
  BY <1>2, <1>3, <1>6 DEF CmdPlayMenu, PlaySelected
<1>7. CASE CmdStdby
  BY <1>2, <1>3, <1>7 DEF CmdStdby
<1>8. CASE CmdMenu
  <2>1. UNCHANGED menu /\ pmenu' = <<1>> /\ marker' = IF pmenu # <<1>> THEN 0 ELSE marker
    BY <1>8 DEF CmdMenu
  <2>2. IsEntry(<<1>>)
    BY <1>1, TopEntries DEF IsEntry, MenuIsTree, Top
  <2> QED BY <1>2, <1>3, <2>1, <2>2
<1>9. CASE CmdSelectList
  <2>1. pmenu' = Append(pmenu, 1) /\ marker' = 0
    BY <1>9 DEF CmdSelectList, Child
  <2>2. pmenu \in Seq(Nat \ {0}) /\ 1 \in Nat \ {0}
    BY DEF IInv, TypeOK
  <2>3. pmenu' # NULL /\ Front(pmenu') = pmenu /\ Last(pmenu') = 1
    BY <2>1, <2>2, EntryProperties
  <2>4. pmenu \in DOMAIN menu' /\ menu'[pmenu] \in Seq(Text) \ {<<>>}
    BY <1>9, SelectListStep
  <2>5. 1 \in DOMAIN menu'[pmenu]
    BY <2>4, EmptySeq
  <2> QED BY <2>1, <2>3, <2>4, <2>5 DEF IsEntry
<1>10. CASE CmdUp
  BY <1>1, <1>2, <1>3, <1>10, NeighbourEntries DEF CmdUp
<1>11. CASE CmdDown
  BY <1>1, <1>2, <1>3, <1>11, NeighbourEntries DEF CmdDown
<1>12. CASE Status
  BY <1>2, <1>3, <1>12 DEF Status
<1>13. CASE CmdSelectSong \/ CmdSelectNoRadio
  BY <1>13 DEF CmdSelectSong, PlaySelected, CmdSelectNoRadio
<1> QED BY <1>4, <1>5, <1>6, <1>7, <1>8, <1>9, <1>10, <1>11, <1>12, <1>13
        DEF Next, HandleCommand, CmdNext, CmdPlay, CmdSelectNothing, CmdSelectUnanswered,
            CmdDim, Loop, NewSecond, SameSecond, ReadEnds, Write, WriteShort, WriteNot,
            StatusFails, PlayerChanges, DatabaseChanges, Gone, vars, browsing

\* A step either keeps the cursor and the buffer or, if the menu stays open,
\* blanks the buffer or shows the new selection.
LEMMA ShownStep == IInv /\ [Next]_vars => SelectionIsShown'
<1> SUFFICES ASSUME IInv, [Next]_vars, pmenu' # NULL
             PROVE  buffer' = BlankLines \/ buffer' = MenuLines(pmenu, marker)'
  BY DEF SelectionIsShown
<1>1. ASSUME UNCHANGED menu
      PROVE  MenuLines(pmenu, marker)' = MenuLines(pmenu', marker')
  BY <1>1 DEF MenuLines, TextOf, HasNext, Siblings
<1>2. pmenu # NULL => buffer = BlankLines \/ buffer = MenuLines(pmenu, marker)
  BY DEF IInv, SelectionIsShown
<1>3. CASE UNCHANGED <<menu, pmenu, marker, buffer>>
  BY <1>1, <1>2, <1>3
<1>4. ASSUME NEW st, LcdUpdate(st, pmenu', marker'), UNCHANGED menu
      PROVE  buffer' = MenuLines(pmenu, marker)'
  <2>1. buffer' = MenuLines(pmenu', marker')
    BY <1>4 DEF LcdUpdate, Show
  <2> QED BY <1>1, <1>4, <2>1
<1>5. CASE CmdPrev \/ CmdMenu \/ CmdUp \/ CmdDown
  BY <1>4, <1>5 DEF CmdPrev, CmdMenu, CmdUp, CmdDown
<1>6. CASE CmdStdby
  <2>1. LcdUpdate(state', pmenu', marker') /\ UNCHANGED menu
    BY <1>6 DEF CmdStdby
  <2> QED BY <1>4, <2>1
<1>7. CASE CmdPlayMenu
  BY <1>7 DEF CmdPlayMenu, LcdClear, Show
<1>8. CASE CmdSelectList
  <2>1. pmenu' = Append(pmenu, 1) /\ marker' = 0
    BY <1>8 DEF CmdSelectList, Child
  <2>2. pmenu \in Seq(Nat \ {0}) /\ 1 \in Nat \ {0} /\ 2 \in Nat \ {0}
    BY DEF IInv, TypeOK
  <2>3. Front(pmenu') = pmenu /\ Last(pmenu') = 1
    BY <2>1, <2>2, EntryProperties
  <2>4. NextOf(pmenu') = Append(pmenu, 2)
    BY <2>3 DEF NextOf
  <2>5. Front(NextOf(pmenu')) = pmenu /\ Last(NextOf(pmenu')) = 2
    BY <2>2, <2>4, EntryProperties
  <2> DEFINE list == menu'[pmenu]
  <2>6. buffer' = <<MenuLine(TRUE, list[1]),
                    IF Len(list) > 1 THEN MenuLine(FALSE, list[2]) ELSE BlankLine>>
    BY <1>8 DEF CmdSelectList, Show
  <2>7. MenuLines(pmenu, marker)' =
            <<MenuLine(TRUE, list[1]),
              IF Len(list) > 1 THEN MenuLine(FALSE, list[2]) ELSE BlankLine>>
    <3>1. TextOf(pmenu)' = list[1] /\ Siblings(pmenu)' = list
      BY <2>3 DEF TextOf, Siblings
    <3>2. TextOf(NextOf(pmenu))' = list[2]
      BY <2>5 DEF TextOf, Siblings, NextOf
    <3>3. HasNext(pmenu)' <=> Len(list) > 1
      BY <2>3, <3>1 DEF HasNext
    <3> QED BY <2>1, <3>1, <3>2, <3>3 DEF MenuLines
  <2> QED BY <2>6, <2>7
<1>9. CASE NewSecond
  <2>1. LcdUpdate(state, pmenu', marker') /\ UNCHANGED menu
    BY <1>9 DEF NewSecond, browsing
  <2> QED BY <1>4, <2>1
<1>10. CASE Status
  BY <1>3, <1>10 DEF Status, display
<1>11. CASE CmdSelectSong \/ CmdSelectNoRadio
  BY <1>11 DEF CmdSelectSong, PlaySelected, CmdSelectNoRadio
<1> QED BY <1>3, <1>5, <1>6, <1>7, <1>8, <1>9, <1>10, <1>11
        DEF Next, HandleCommand, CmdNext, CmdPlay, CmdSelectNothing, CmdSelectUnanswered,
            CmdDim, Loop, SameSecond, ReadEnds, Write, WriteShort, WriteNot, StatusFails,
            PlayerChanges, DatabaseChanges, Gone, vars, browsing, display

\* A list that menu_select() adds changes no text of an entry that has a list.
LEMMA TextStays ==
  ASSUME IInv, CmdSelectList,
         NEW p \in Seq(Nat \ {0}), IsEntry(p), HasList(p)
  PROVE  TextOf(p)' = TextOf(p)
<1>1. Front(p) \in DOMAIN menu /\ ~IsAlbum(Front(p))
  BY AboveIsNoAlbum DEF IsEntry
<1>2. menu'[Front(p)] = menu[Front(p)]
  BY <1>1, SelectListStep
<1> QED BY <1>2 DEF TextOf, Siblings

\* The entry above an album is an artist, the one above an artist Library.
LEMMA EntryAbove ==
  ASSUME MenuIsTree, NEW p \in Seq(Nat \ {0}), IsEntry(p)
  PROVE  /\ Front(p) \in Seq(Nat \ {0})
         /\ IsAlbum(p) => IsArtist(Front(p)) /\ IsEntry(Front(p)) /\ HasList(Front(p))
         /\ IsArtist(p) => IsLibrary(Front(p))
<1> DEFINE q == Front(p)
<1>1. /\ q \in Seq(Nat \ {0}) /\ Len(q) = Len(p) - 1
      /\ \A i \in 1 .. Len(p) - 1 : q[i] = p[i]
  BY FrontProperties DEF IsEntry
<1>2. q \in DOMAIN menu /\ (q # NULL => HasList(q) /\ IsEntry(q))
  BY DEF IsEntry, MenuIsTree
<1> HIDE DEF q
<1>3. CASE IsAlbum(p)
  <2>1. Len(q) = 2 /\ q[1] = 1
    BY <1>1, <1>3 DEF IsAlbum
  <2>2. q # NULL /\ IsArtist(q)
    BY <2>1 DEF NULL, IsArtist
  <2> QED BY <1>1, <1>2, <1>3, <2>2, Kinds DEF q
<1>4. CASE IsArtist(p)
  <2>1. Len(q) = 1 /\ q[1] = 1
    BY <1>1, <1>4 DEF IsArtist
  <2>2. q = <<1>>
    BY <1>1, <2>1
  <2> QED BY <1>1, <1>4, <2>2, Kinds DEF q, IsLibrary
<1> QED BY <1>1, <1>3, <1>4 DEF q

LEMMA MatchStep == IInv /\ [Next]_vars => MenuMatchesLibrary'
<1> SUFFICES ASSUME IInv, [Next]_vars, known'.db = db',
                    NEW p \in DOMAIN menu', p # NULL, ~IsRadio(p)
             PROVE  IsListOf(p, menu[p])'
  BY DEF MenuMatchesLibrary, IsRadio
<1>1. MenuIsTree /\ Known /\ known.db <= db
  BY DEF IInv, TypeOK
<1>2. ASSUME UNCHANGED <<menu, db>>, known.db = db
      PROVE  IsListOf(p, menu[p])'
  <2>1. IsListOf(p, menu[p])
    BY <1>2 DEF IInv, MenuMatchesLibrary, IsRadio
  <2>2. Answer(p)' = Answer(p)
    BY <1>2 DEF Answer, TextOf, Siblings, Parent
  <2> QED BY <1>2, <2>1, <2>2 DEF IsListOf
<1>3. CASE UNCHANGED <<menu, db, known>>
  BY <1>2, <1>3
<1>4. CASE CmdSelectList
  <2>1. UNCHANGED <<db, known>>
    BY <1>4 DEF CmdSelectList, KeyRead, mpd
  <2>2. /\ p \in Seq(Nat \ {0}) /\ IsEntry(p) /\ HasList(p)
    <3>1. p \in DOMAIN menu \/ p = pmenu
      BY <1>4, SelectListStep
    <3>2. CASE p \in DOMAIN menu
      BY <1>1, <3>2 DEF MenuIsTree
    <3>3. CASE p = pmenu
      BY <1>4, <3>3, SelectListStep DEF IInv, TypeOK
    <3> QED BY <3>1, <3>2, <3>3
  <2>3. IsListOf(p, menu'[p])
    <3>1. CASE p = pmenu
      BY <1>4, <2>1, <2>2, <3>1, SelectListStep
    <3>2. CASE p # pmenu
      <4>1. p \in DOMAIN menu /\ menu'[p] = menu[p]
        BY <1>4, <3>2, SelectListStep
      <4>2. IsListOf(p, menu[p])
        BY <2>1, <4>1 DEF IInv, MenuMatchesLibrary, IsRadio
      <4> QED BY <4>1, <4>2
    <3> QED BY <3>1, <3>2
  <2>4. TextOf(p)' = TextOf(p)
    BY <1>4, <2>2, TextStays
  <2>5. IsAlbum(p) => TextOf(Parent(p))' = TextOf(Parent(p))
    <3>1. ASSUME IsAlbum(p)
          PROVE  TextOf(Front(p))' = TextOf(Front(p))
      <4> DEFINE q == Front(p)
      <4>1. q \in Seq(Nat \ {0}) /\ IsEntry(q) /\ HasList(q)
        BY <1>1, <2>2, <3>1, EntryAbove
      <4> HIDE DEF q
      <4>2. TextOf(q)' = TextOf(q)
        BY <1>4, <4>1, TextStays
      <4> QED BY <4>2 DEF q
    <3> QED BY <3>1 DEF Parent
  <2>6. Answer(p)' = Answer(p)
    <3>1. IsLibrary(p) \/ IsArtist(p) \/ IsAlbum(p)
      BY <2>2 DEF HasList
    <3>2. CASE IsLibrary(p)
      BY <2>1, <3>2 DEF Answer
    <3>3. CASE IsArtist(p)
      BY <2>1, <2>4, <3>3, Kinds DEF Answer
    <3>4. CASE IsAlbum(p)
      BY <2>1, <2>4, <2>5, <3>4, Kinds DEF Answer
    <3> QED BY <3>1, <3>2, <3>3, <3>4
  <2> QED BY <2>1, <2>3, <2>6 DEF IsListOf
<1>5. CASE Status
  <2>1. known.db # db => menu' = NoMenu
    BY <1>5 DEF Status
  <2>2. known.db # db => p = NULL
    BY <2>1 DEF NoMenu
  <2>3. known.db = db => UNCHANGED <<menu, db>>
    BY <1>5 DEF Status, mpd
  <2> QED BY <1>2, <2>2, <2>3
<1>6. CASE DatabaseChanges
  <2>1. db' = db + 1 /\ known' = known
    BY <1>6 DEF DatabaseChanges
  <2> QED BY <1>1, <2>1 DEF Known
<1> QED BY <1>3, <1>4, <1>5, <1>6
        DEF Next, HandleCommand, KeyRead, CmdNext, CmdPrev, CmdPlay, CmdPlayMenu, CmdStdby,
            CmdMenu, CmdSelectSong, CmdSelectNothing, CmdSelectUnanswered,
            CmdSelectNoRadio, CmdUp, CmdDown, CmdDim, Loop, NewSecond, SameSecond,
            ReadEnds, Write, WriteShort, WriteNot, StatusFails, PlayerChanges, Gone, vars, browsing, mpd

\* What an entry of a menu of the present database lists is not empty, since
\* MPD names no artist without an album and no album without a song.
LEMMA SomethingToList ==
  ASSUME MenuIsTree, MenuMatchesLibrary, Known, known.db = db,
         NEW p \in Seq(Nat \ {0}), IsEntry(p), IsArtist(p) \/ IsAlbum(p)
  PROVE  Answer(p) # <<>>
<1> DEFINE q == Front(p)
           list == menu[q]
           text == TextOf(p)
           l == Last(p)
<1>1. /\ q \in DOMAIN menu /\ l \in 1 .. Len(list) /\ Len(list) \in Nat
      /\ DOMAIN list = 1 .. Len(list)
      /\ text = list[l]
  BY EntryPlace DEF IsEntry, TextOf, Siblings
<1>2. Library[db] \in Seq(ArtistRecord)
  BY AnswerType DEF Known
<1>3. CASE IsArtist(p)
  <2>1. q # NULL /\ q # <<2>> /\ IsLibrary(q)
    BY <1>3, EntryAbove, TopEntries DEF IsLibrary
  <2>2. Rearranged(list, Names(Library[db]))
    BY <1>1, <2>1 DEF MenuMatchesLibrary, IsListOf
  <2> HIDE DEF list, q, text, l
  <2>3. \E i \in DOMAIN Library[db] : Library[db][i].name = text
    <3>1. PICK f \in Bijection(DOMAIN list, DOMAIN Names(Library[db])) :
                 \A i \in DOMAIN list : list[i] = Names(Library[db])[f[i]]
      BY <2>2 DEF Rearranged
    <3>2. l \in DOMAIN list /\ f[l] \in DOMAIN Library[db]
      BY <1>1 DEF Bijection, Injection, Names
    <3> QED BY <1>1, <3>1, <3>2 DEF Names
  <2>4. Sub(Library[db], text) \in Albums
    BY <1>2, <2>3, SubProperties DEF ArtistRecord
  <2> QED BY <1>3, <2>4, AnswerType DEF Known, Albums, text
<1>4. CASE IsAlbum(p)
  <2>1. IsArtist(q)
    BY <1>4, EntryAbove
  <2>2. q # NULL /\ q # <<2>> /\ ~IsLibrary(q)
    BY <2>1, Kinds DEF NULL, IsArtist
  <2> DEFINE data == Answer(q)
  <2>3. list = Reverse(Names(data))
    BY <1>1, <2>2 DEF MenuMatchesLibrary, IsListOf
  <2>4. data \in Seq(AlbumRecord) /\ data = Sub(Library[db], TextOf(Parent(p)))
    BY <2>1, AnswerType DEF Known, Parent
  <2>5. Answer(p) = Sub(data, text)
    BY <1>4, <2>4, AnswerType DEF Known
  <2> HIDE DEF data, list, q, text, l
  <2>6. \E i \in DOMAIN data : data[i].name = text
    <3>1. Len(data) \in Nat /\ DOMAIN data = 1 .. Len(data)
      BY <2>4
    <3>2. /\ Len(Names(data)) = Len(data)
          /\ \A i \in 1 .. Len(data) : Names(data)[i] = data[i].name
      BY <3>1 DEF Names
    <3>3. /\ Len(list) = Len(data)
          /\ list[l] = Names(data)[(Len(data) - l) + 1]
      BY <1>1, <2>3, <3>1, <3>2 DEF Reverse
    <3>4. (Len(data) - l) + 1 \in 1 .. Len(data)
      BY <1>1, <3>1, <3>3
    <3> QED BY <1>1, <3>1, <3>2, <3>3, <3>4
  <2>7. Sub(data, text) \in Songs
    BY <2>4, <2>6, SubProperties DEF AlbumRecord
  <2> QED BY <2>5, <2>7 DEF Songs
<1> QED BY <1>3, <1>4

LEMMA CrashStep == IInv /\ [Next]_vars => CrashNeedsEmptyList'
<1> SUFFICES ASSUME IInv, [Next]_vars, crash' = "empty"
             PROVE  known'.db # db' \/ Library[db'] = <<>> \/ Stations = <<>>
  BY DEF CrashNeedsEmptyList
<1>1. CASE UNCHANGED vars
  BY <1>1 DEF IInv, CrashNeedsEmptyList, vars, loop, mpd
<1>2. CASE CmdSelectNothing
  <2>1. /\ UNCHANGED <<known, db>>
        /\ pmenu # NULL /\ ~IsSong(pmenu) /\ ListBelow(pmenu) = <<>>
    BY <1>2 DEF CmdSelectNothing, KeyRead, mpd
  <2>2. pmenu \in Seq(Nat \ {0}) /\ IsEntry(pmenu) /\ HasList(pmenu)
    BY <2>1, EntryKinds DEF IInv, TypeOK, CursorAtEntry
  <2>3. CASE IsRadio(pmenu)
    BY <2>1, <2>3 DEF ListBelow
  <2>4. CASE ~IsRadio(pmenu)
    <3>1. Len(Answer(pmenu)) = 0
      BY <2>1, <2>2, <2>4, ListBelowProperties DEF IInv, Known
    <3>2. Answer(pmenu) = <<>>
      BY <2>2, <2>4, <3>1, AnswerType, EmptySeq DEF IInv, Known, HasList
    <3>3. known.db = db => IsLibrary(pmenu)
      BY <2>2, <2>4, <3>2, SomethingToList DEF IInv, HasList
    <3>4. known.db = db => Library[db] = <<>>
      BY <3>2, <3>3 DEF Answer
    <3> QED BY <2>1, <3>4
  <2> QED BY <2>3, <2>4
<1> QED BY <1>1, <1>2
        DEF Next, HandleCommand, KeyRead, CmdNext, CmdPrev, CmdPlay, CmdPlayMenu, CmdStdby,
            CmdMenu, CmdSelectSong, CmdSelectList, CmdSelectUnanswered, CmdSelectNoRadio,
            CmdUp, CmdDown, CmdDim, Loop, Running, At, NewSecond, SameSecond, ReadEnds,
            Write, WriteShort, WriteNot, Status, StatusFails, LookedAt, PlayerChanges,
            DatabaseChanges, Gone, loop

-----------------------------------------------------------------------------
(* The theorems.                                                           *)

LEMMA Inductive == Spec => []IInv
<1>1. IInv /\ [Next]_vars => IInv'
  BY TypeStep, TreeStep, CursorStep, ShownStep, MatchStep, CrashStep DEF IInv
<1> QED BY InitIInv, <1>1, PTL DEF Spec

\* Whatever keys come, the cursor and the loop's counters stay in their
\* ranges, and libmpd is never ahead of the database.
THEOREM TypesKept == Spec => []TypeOK
<1>1. IInv => TypeOK
  BY DEF IInv
<1> QED BY Inductive, <1>1, PTL

\* All entries on the way to an entry exist.
LEMMA WayToEntry ==
  ASSUME MenuIsTree, NEW p \in Seq(Nat \ {0}), IsEntry(p)
  PROVE  \A i \in 1 .. Len(p) : LET above == SubSeq(p, 1, i - 1)
                                IN  above \in DOMAIN menu /\ p[i] \in DOMAIN menu[above]
<1> DEFINE n == Len(p)
           Way(k) == SubSeq(p, 1, n - k)
           P == {k \in 0 .. n : k < n => IsEntry(Way(k))}
<1>1. n \in Nat /\ n >= 1 /\ p # NULL
  BY FrontProperties DEF IsEntry
<1>2. ASSUME NEW k \in 0 .. n - 1
      PROVE  /\ Way(k) \in Seq(Nat \ {0}) /\ Way(k) # NULL
             /\ Front(Way(k)) = SubSeq(p, 1, n - k - 1)
             /\ Last(Way(k)) = p[n - k]
  <2>1. \A i \in 1 .. n - k : p[i] \in Nat \ {0}
    BY <1>1
  <2>2. n - k \in Int /\ n - k >= 1 /\ 1 \in Int
    BY <1>1
  <2>3. /\ Way(k) \in Seq(Nat \ {0})
        /\ Len(Way(k)) = n - k
        /\ \A i \in 1 .. n - k : Way(k)[i] = p[i]
    BY <2>1, <2>2, SubSeqProperties
  <2>4. SubSeq(Way(k), 1, n - k - 1) = SubSeq(p, 1, n - k - 1)
    <3>1. \A i \in 1 .. n - k - 1 : Way(k)[i] = p[i]
      BY <2>2, <2>3
    <3> HIDE DEF Way
    <3> QED BY <1>1, <2>2, <3>1
  <2> DEFINE w == Way(k)
             m == n - k
  <2>5. m - 1 = n - k - 1 /\ m \in 1 .. m
    BY <2>2
  <2>6. w \in Seq(Nat \ {0}) /\ Len(w) = m /\ w[m] = p[m]
    BY <2>3, <2>5
  <2>7. SubSeq(w, 1, m - 1) = SubSeq(p, 1, n - k - 1)
    BY <2>4, <2>5
  <2> HIDE DEF w, m
  <2>8. w # NULL
    BY <2>5, <2>6 DEF NULL
  <2>9. Front(w) = SubSeq(p, 1, n - k - 1) /\ Last(w) = p[m]
    BY <2>6, <2>7 DEF Front, Last
  <2> QED BY <2>6, <2>8, <2>9 DEF w, m
<1>3. 0 \in P
  <2>1. Way(0) = p
    BY <1>1
  <2> HIDE DEF Way
  <2>2. 0 \in 0 .. n
    BY <1>1
  <2> QED BY <2>1, <2>2
<1>4. ASSUME NEW k \in 0 .. n - 1, k \in P
      PROVE  k + 1 \in P
  <2>1. IsEntry(Way(k)) /\ k + 1 \in 0 .. n
    BY <1>1, <1>4
  <2>2. Front(Way(k)) = Way(k + 1)
    <3>1. n - k - 1 = n - (k + 1)
      BY <1>1
    <3> QED BY <1>2, <3>1
  <2>3. k + 1 < n => Way(k + 1) # NULL
    <3>1. k + 1 < n => k + 1 \in 0 .. n - 1
      BY <1>1
    <3> QED BY <1>2, <3>1
  <2> HIDE DEF Way
  <2>4. k + 1 < n => IsEntry(Way(k + 1))
    BY <2>1, <2>2, <2>3 DEF IsEntry, MenuIsTree
  <2> QED BY <2>1, <2>4
<1>5. \A k \in 0 .. n : k \in P
  <2> HIDE DEF P
  <2> QED BY <1>1, <1>3, <1>4, UpTo
<1>6. ASSUME NEW i \in 1 .. n
      PROVE  SubSeq(p, 1, i - 1) \in DOMAIN menu /\ p[i] \in DOMAIN menu[SubSeq(p, 1, i - 1)]
  <2> DEFINE k == n - i
  <2>1. k \in 0 .. n - 1 /\ k < n /\ n - k = i /\ n - k - 1 = i - 1
    BY <1>1
  <2>2. IsEntry(Way(k))
    BY <1>5, <2>1
  <2>3. Front(Way(k)) = SubSeq(p, 1, i - 1) /\ Last(Way(k)) = p[i]
    BY <1>2, <2>1
  <2> HIDE DEF Way, k
  <2> QED BY <2>2, <2>3 DEF IsEntry
<1> QED BY <1>6

\* Whatever is selected, fetched or freed, the cursor is at an entry that
\* exists, and lcd_update() finds the one it shows in the first line.
THEOREM CursorStaysInMenu == Spec => []CursorInMenu
<1>1. IInv => CursorInMenu
  <2> SUFFICES ASSUME IInv, pmenu # NULL
               PROVE  CursorInMenu
    BY DEF CursorInMenu
  <2>1. /\ MenuIsTree /\ pmenu \in Seq(Nat \ {0}) /\ IsEntry(pmenu)
        /\ marker = 1 => HasPrev(pmenu)
    BY DEF IInv, TypeOK, CursorAtEntry
  <2> QED BY <2>1, WayToEntry DEF CursorInMenu
<1> QED BY Inductive, <1>1, PTL

\* The entry the next key acts on is the one that is marked, unless a key
\* has just blanked the display.
THEOREM SelectionStaysShown == Spec => []SelectionIsShown
<1>1. IInv => SelectionIsShown
  BY DEF IInv
<1> QED BY Inductive, <1>1, PTL

\* What the menu lists is the answer of the database libmpd has seen, each
\* list whole and in the order menu_populate() gives it.
THEOREM MenuStaysTheLibrary == Spec => []MenuMatchesLibrary
<1>1. IInv => MenuMatchesLibrary
  BY DEF IInv
<1> QED BY Inductive, <1>1, PTL

\* As long as MPD answers and the menu is of the present database, the null
\* pointer is used only if there are no artists or no stations at all.
THEOREM CrashOnlyWithoutEntries == Spec => []CrashNeedsEmptyList
<1>1. IInv => CrashNeedsEmptyList
  BY DEF IInv
<1> QED BY Inductive, <1>1, PTL
=============================================================================
