----------------------------- MODULE DriverProofs -----------------------------
(***************************************************************************)
(* The UART and the timers of the firmware, which do not use each other.   *)
(*                                                                         *)
(* Each half of the UART is a FIFO, and the transmit half loses no wakeup, *)
(* for every buffer size and every set of bytes.                           *)
(*                                                                         *)
(* Only a timer that has an owner and was started is fired, for every      *)
(* number of timers, every width of a counter and every choice of the      *)
(* compiler, whatever callbacks do and wherever the interrupt falls.       *)
(***************************************************************************)
EXTENDS UartRx, UartTx, Timers, NumberTheorems, SequenceTheorems

-----------------------------------------------------------------------------
(* The index arithmetic of Ring, for every ring of n slots.                *)

\* A masked index is an index.
LEMMA SuccInRange ==
  ASSUME NEW n \in Nat \ {0}, NEW i \in 0 .. n - 1
  PROVE  Succ(i, n) \in 0 .. n - 1
BY DEF Succ

\* Different slots have different successors.
LEMMA SuccInjective ==
  ASSUME NEW n \in Nat \ {0}, NEW i \in 0 .. n - 1, NEW j \in 0 .. n - 1,
         Succ(i, n) = Succ(j, n)
  PROVE  i = j
BY DEF Succ

\* The number of bytes is at most n - 1, and 0 exactly when head meets tail.
LEMMA UsedRange ==
  ASSUME NEW n \in Nat \ {0}, NEW h \in 0 .. n - 1, NEW t \in 0 .. n - 1
  PROVE  /\ Used(h, t, n) \in 0 .. n - 1
         /\ Used(h, t, n) = 0 <=> h = t
         /\ Used(h, t, n) = IF h >= t THEN h - t ELSE n + h - t
BY DEF Used

\* The full test of both interrupt and uart_putc().
LEMMA FullIff ==
  ASSUME NEW n \in Nat \ {0}, NEW h \in 0 .. n - 1, NEW t \in 0 .. n - 1
  PROVE  Succ(h, n) = t <=> Used(h, t, n) = n - 1
BY DEF Used, Succ

\* Storing a byte lengthens the ring by one ...
LEMMA UsedStore ==
  ASSUME NEW n \in Nat \ {0}, NEW h \in 0 .. n - 1, NEW t \in 0 .. n - 1,
         Succ(h, n) # t
  PROVE  Used(Succ(h, n), t, n) = Used(h, t, n) + 1
BY DEF Used, Succ

\* ... and fetching one shortens it by one.
LEMMA UsedFetch ==
  ASSUME NEW n \in Nat \ {0}, NEW h \in 0 .. n - 1, NEW t \in 0 .. n - 1,
         h # t
  PROVE  Used(h, Succ(t, n), n) = Used(h, t, n) - 1
BY DEF Used, Succ

\* The slots between tail and head are indices, none of them the free slot
\* at the tail nor the one the next byte is stored in.
LEMMA SlotFacts ==
  ASSUME NEW n \in Nat \ {0}, NEW h \in 0 .. n - 1, NEW t \in 0 .. n - 1,
         NEW i \in 1 .. Used(h, t, n)
  PROVE  /\ Slot(t, i, n) \in 0 .. n - 1
         /\ Slot(t, i, n) # t
         /\ Slot(t, i, n) # Succ(h, n)
BY DEF Used, Succ, Slot

\* The byte stored next is the last in the ring.
LEMMA SlotLast ==
  ASSUME NEW n \in Nat \ {0}, NEW h \in 0 .. n - 1, NEW t \in 0 .. n - 1
  PROVE  Slot(t, Used(h, t, n) + 1, n) = Succ(h, n)
BY DEF Used, Succ, Slot

\* Moving the tail renumbers the slots; the first is the new tail.
LEMMA SlotShift ==
  ASSUME NEW n \in Nat \ {0}, NEW t \in 0 .. n - 1, NEW i \in 0 .. n - 1
  PROVE  /\ Slot(Succ(t, n), i, n) = Slot(t, i + 1, n)
         /\ Slot(t, 1, n) = Succ(t, n)
<1>1. Slot(t, 1, n) = Succ(t, n)
  BY DEF Succ, Slot
<1>2. CASE t = n - 1
  <2>1. Succ(t, n) = 0
    BY <1>2 DEF Succ
  <2>2. (t + (i + 1)) % n = (0 + i) % n
    BY <1>2
  <2> QED BY <1>1, <2>1, <2>2 DEF Slot
<1>3. CASE t # n - 1
  <2>1. Succ(t, n) = t + 1
    BY <1>3 DEF Succ
  <2> QED BY <1>1, <2>1 DEF Slot
<1> QED BY <1>2, <1>3

-----------------------------------------------------------------------------
(* The contents of the ring as a sequence.  R is the range of its slots.   *)

\* The contents are a sequence as long as the ring is filled.
LEMMA ContentsSeq ==
  ASSUME NEW n \in Nat \ {0}, NEW h \in 0 .. n - 1, NEW t \in 0 .. n - 1,
         NEW R, NEW buf \in [0 .. n - 1 -> R]
  PROVE  /\ Contents(buf, h, t, n) \in Seq(R)
         /\ Len(Contents(buf, h, t, n)) = Used(h, t, n)
         /\ Contents(buf, h, t, n) = <<>> <=> h = t
<1>1. Used(h, t, n) \in Nat /\ (Used(h, t, n) = 0 <=> h = t)
  BY UsedRange
<1>2. \A i \in 1 .. Used(h, t, n) : buf[Slot(t, i, n)] \in R
  BY SlotFacts
<1>3. Contents(buf, h, t, n) \in [1 .. Used(h, t, n) -> R]
  BY <1>2 DEF Contents
<1>4. Contents(buf, h, t, n) \in Seq(R) /\ Len(Contents(buf, h, t, n)) = Used(h, t, n)
  BY <1>1, <1>3
<1> QED BY <1>1, <1>4

\* Sequence s is r and b after it.  A name for the equation, which the SMT
\* backend would rewrite in a lemma's conclusion and then not instantiate.
Extended(r, b, s) == s = Append(r, b)

\* The buffer with b in a slot.
Stored(buf, slot, b) == [buf EXCEPT ![slot] = b]

\* Storing a byte behind the head appends it.
LEMMA ContentsStore ==
  ASSUME NEW n \in Nat \ {0}, NEW h \in 0 .. n - 1, NEW t \in 0 .. n - 1,
         NEW R, NEW buf \in [0 .. n - 1 -> R], NEW b \in R,
         Succ(h, n) # t
  PROVE  Extended(Contents(buf, h, t, n), b,
                  Contents(Stored(buf, Succ(h, n), b), Succ(h, n), t, n))
<1> DEFINE u == Used(h, t, n)
           c == Contents(buf, h, t, n)
           new == Stored(buf, Succ(h, n), b)
           d == Contents(new, Succ(h, n), t, n)
<1>1. Succ(h, n) \in 0 .. n - 1 /\ new \in [0 .. n - 1 -> R]
  BY SuccInRange DEF Stored
<1>2. u \in Nat /\ Used(Succ(h, n), t, n) = u + 1
  <2>1. u \in 0 .. n - 1
    BY UsedRange, Zenon
  <2>2. Used(Succ(h, n), t, n) = u + 1
    BY UsedStore
  <2>3. \A i \in 0 .. n - 1 : i \in Nat
    OBVIOUS
  <2>4. u \in Nat
    BY ONLY <2>1, <2>3, Zenon
  <2> QED BY <2>2, <2>4, Zenon
<1>3. c \in Seq(R) /\ Len(c) = u
  <2>1. /\ Contents(buf, h, t, n) \in Seq(R)
        /\ Len(Contents(buf, h, t, n)) = Used(h, t, n)
    BY ContentsSeq, SMTT(20)
  <2> QED BY <2>1
<1>4. d \in Seq(R) /\ Len(d) = u + 1
  <2> HIDE DEF new
  <2>1. /\ d \in Seq(R)
        /\ Len(d) = Used(Succ(h, n), t, n)
    BY <1>1, ContentsSeq
  <2> QED BY <2>1, <1>2
<1>5. /\ Append(c, b) \in Seq(R)
      /\ Len(Append(c, b)) = u + 1
      /\ \A i \in 1 .. u : Append(c, b)[i] = c[i]
      /\ Append(c, b)[u + 1] = b
  BY <1>3, AppendProperties
<1>6. ASSUME NEW i \in 1 .. u + 1
      PROVE  d[i] = Append(c, b)[i]
  <2>1. d[i] = new[Slot(t, i, n)]
    BY <1>2 DEF Contents
  <2>2. CASE i \in 1 .. u
    <3>1. Slot(t, i, n) \in 0 .. n - 1 /\ Slot(t, i, n) # Succ(h, n)
      BY <2>2, SlotFacts
    <3>2. new[Slot(t, i, n)] = buf[Slot(t, i, n)]
      BY <3>1 DEF Stored
    <3>3. c[i] = buf[Slot(t, i, n)]
      BY <2>2 DEF Contents
    <3> QED BY <2>1, <2>2, <3>2, <3>3, <1>5
  <2>3. CASE i = u + 1
    <3>1. Slot(t, i, n) = Succ(h, n)
      BY <2>3, SlotLast
    <3>2. new[Slot(t, i, n)] = b
      BY <3>1, <1>1 DEF Stored
    <3> QED BY <2>1, <2>3, <3>2, <1>5
  <2> HIDE DEF c, d, u
  <2> QED BY <2>2, <2>3, <1>2
<1>7. d = Append(c, b)
  <2> HIDE DEF c, d, u
  <2> QED BY <1>4, <1>5, <1>6, SeqEqual
<1> QED BY <1>7 DEF Extended

\* A byte stored in the slot behind the head is not seen before the head moves.
LEMMA ContentsUnseen ==
  ASSUME NEW n \in Nat \ {0}, NEW h \in 0 .. n - 1, NEW t \in 0 .. n - 1,
         NEW R, NEW buf \in [0 .. n - 1 -> R], NEW b
  PROVE  Contents(Stored(buf, Succ(h, n), b), h, t, n) = Contents(buf, h, t, n)
<1> DEFINE new == Stored(buf, Succ(h, n), b)
<1>1. ASSUME NEW i \in 1 .. Used(h, t, n)
      PROVE  new[Slot(t, i, n)] = buf[Slot(t, i, n)]
  <2>1. Slot(t, i, n) \in 0 .. n - 1 /\ Slot(t, i, n) # Succ(h, n)
    BY SlotFacts
  <2> QED BY <2>1 DEF Stored
<1> QED BY <1>1 DEF Contents

\* Moving the tail of a ring that is not empty takes the oldest byte off.
LEMMA ContentsFetch ==
  ASSUME NEW n \in Nat \ {0}, NEW h \in 0 .. n - 1, NEW t \in 0 .. n - 1,
         NEW R, NEW buf \in [0 .. n - 1 -> R],
         h # t
  PROVE  /\ Contents(buf, h, t, n) # <<>>
         /\ Head(Contents(buf, h, t, n)) = buf[Succ(t, n)]
         /\ Contents(buf, h, Succ(t, n), n) = Tail(Contents(buf, h, t, n))
<1> DEFINE u == Used(h, t, n)
           c == Contents(buf, h, t, n)
           d == Contents(buf, h, Succ(t, n), n)
<1>1. Succ(t, n) \in 0 .. n - 1
  BY SuccInRange
<1>2. u \in 0 .. n - 1 /\ u # 0
  <2>1. Used(h, t, n) \in 0 .. n - 1
    BY UsedRange
  <2>2. Used(h, t, n) = 0 <=> h = t
    BY UsedRange
  <2> QED BY <2>1, <2>2
<1>3. u \in 1 .. n - 1
  BY <1>2
<1>4. c \in Seq(R) /\ Len(c) = u
  BY ContentsSeq
<1>5. c # <<>>
  <2> HIDE DEF c, u
  <2> QED BY <1>2, <1>4, EmptySeq
<1>6. Used(h, Succ(t, n), n) = u - 1
  BY UsedFetch
<1>7. d \in Seq(R) /\ Len(d) = u - 1
  BY <1>1, <1>6, ContentsSeq
<1>8. c[1] = buf[Succ(t, n)]
  <2>1. c[1] = buf[Slot(t, 1, n)]
    BY <1>3 DEF Contents
  <2>2. Slot(t, 1, n) = Succ(t, n)
    BY <1>3, SlotShift
  <2> QED BY <2>1, <2>2
<1>9. /\ Tail(c) \in Seq(R)
      /\ Len(Tail(c)) = u - 1
      /\ \A i \in 1 .. u - 1 : Tail(c)[i] = c[i + 1]
  <2> HIDE DEF c, u
  <2>1. /\ Tail(c) \in Seq(R)
        /\ Len(Tail(c)) = Len(c) - 1
        /\ \A i \in 1 .. Len(Tail(c)) : Tail(c)[i] = c[i + 1]
    BY <1>4, <1>5, HeadTailProperties
  <2> QED BY <2>1, <1>4
<1>10. ASSUME NEW i \in 1 .. u - 1
       PROVE  d[i] = Tail(c)[i]
  <2>1. i \in 0 .. n - 1 /\ i + 1 \in 1 .. u
    BY <1>3
  <2>2. d[i] = buf[Slot(Succ(t, n), i, n)]
    BY <1>6 DEF Contents
  <2>3. Slot(Succ(t, n), i, n) = Slot(t, i + 1, n)
    BY <2>1, SlotShift
  <2>4. c[i + 1] = buf[Slot(t, i + 1, n)]
    BY <2>1 DEF Contents
  <2> QED BY <2>2, <2>3, <2>4, <1>9
<1>11. Head(c) = c[1]
  <2> HIDE DEF c
  <2> QED BY <1>4, <1>5
<1>12. d = Tail(c)
  <2> HIDE DEF c, d, u
  <2> QED BY <1>7, <1>9, <1>10, SeqEqual
<1> QED BY <1>5, <1>8, <1>11, <1>12

-----------------------------------------------------------------------------
(* The receive half.                                                       *)

\* Every admissible buffer size has a slot.
LEMMA RxSizePositive == RxSize \in Nat \ {0}
BY RxAssumption DEF RingSizes

\* No step of the main program or the interrupt takes a variable out of the
\* range its C type and use give it.
THEOREM RxTypeCorrect == RxSpec => []RxTypeOK
<1> USE DEF RxIndex, HwStatus, RxStatus
<1>1. RxInit => RxTypeOK
  <2>1. 0 \in RxIndex
    BY RxSizePositive
  <2>2. 0 \in Byte
    BY ByteAssumption
  <2> HIDE DEF RxIndex
  <2> QED BY <2>1, <2>2 DEF RxInit, RxTypeOK
<1>2. RxTypeOK /\ [RxNext]_rxVars => RxTypeOK'
  <2> SUFFICES ASSUME RxTypeOK, [RxNext]_rxVars
               PROVE  RxTypeOK'
    OBVIOUS
  <2>1. /\ Succ(rxHead, RxSize) \in RxIndex
        /\ Succ(rxTail, RxSize) \in RxIndex
    BY RxSizePositive, SuccInRange DEF RxTypeOK
  <2>2. ASSUME NEW b \in Byte, NEW usr \in HwStatus, RxIsr(b, usr)
        PROVE  RxTypeOK'
    BY <2>1, <2>2 DEF RxTypeOK, RxIsr
  <2>3. CASE GetcEmpty
    BY <2>3 DEF RxTypeOK, GetcEmpty
  <2>4. CASE GetcBegin
    BY <2>1, <2>4 DEF RxTypeOK, GetcBegin
  <2>5. CASE GetcAdvance
    BY <2>5 DEF RxTypeOK, GetcAdvance
  <2>6. CASE GetcRead
    BY <2>6 DEF RxTypeOK, GetcRead
  <2>7. CASE GetcReturn
    BY <2>7 DEF RxTypeOK, GetcReturn
  <2>8. CASE Flush
    BY <2>8 DEF RxTypeOK, Flush
  <2>9. CASE UNCHANGED rxVars
    BY <2>9 DEF RxTypeOK, rxVars
  <2> QED
    BY <2>2, <2>3, <2>4, <2>5, <2>6, <2>7, <2>8, <2>9 DEF RxNext, RxMain
<1> QED BY <1>1, <1>2, PTL DEF RxSpec

-----------------------------------------------------------------------------
(* TypeOK does not say that the byte uart_getc() is about to fetch is      *)
(* still there when it moves the tail, nor that the slot it then reads is  *)
(* the one the interrupt keeps off.  This does.                            *)
RxCallInProgress ==
  /\ getcPc = "advance" => rxHead # rxTail /\ tmptail = Succ(rxTail, RxSize)
  /\ getcPc = "read" => tmptail = rxTail

RxIInv == RxTypeOK /\ RxCallInProgress

\* The interrupt can fill the ring but never empties it, and main alone
\* moves the tail.
LEMMA RxCallInvariant == RxSpec => []RxIInv
<1>1. RxInit => RxCallInProgress
  BY DEF RxInit, RxCallInProgress
<1>2. RxIInv /\ [RxNext]_rxVars => RxCallInProgress'
  <2> SUFFICES ASSUME RxIInv, [RxNext]_rxVars
               PROVE  RxCallInProgress'
    OBVIOUS
  <2> USE DEF RxIInv, RxCallInProgress
  <2>1. ASSUME NEW b \in Byte, NEW usr \in HwStatus, RxIsr(b, usr)
        PROVE  RxCallInProgress'
    <3>1. Succ(rxHead, RxSize) = rxTail \/ rxHead' # rxTail
      BY <2>1 DEF RxIsr
    <3>2. Succ(rxHead, RxSize) = rxTail => rxHead' = rxHead
      BY <2>1 DEF RxIsr
    <3> QED BY <2>1, <3>1, <3>2 DEF RxIsr
  <2>2. CASE GetcEmpty
    BY <2>2 DEF GetcEmpty
  <2>3. CASE GetcBegin
    BY <2>3 DEF GetcBegin
  <2>4. CASE GetcAdvance
    BY <2>4 DEF GetcAdvance
  <2>5. CASE GetcRead
    BY <2>5 DEF GetcRead
  <2>6. CASE GetcReturn
    BY <2>6 DEF GetcReturn
  <2>7. CASE Flush
    BY <2>7 DEF Flush
  <2>8. CASE UNCHANGED rxVars
    BY <2>8 DEF rxVars
  <2> QED
    BY <2>1, <2>2, <2>3, <2>4, <2>5, <2>6, <2>7, <2>8 DEF RxNext, RxMain
<1> QED BY <1>1, <1>2, RxTypeCorrect, PTL DEF RxSpec, RxIInv

-----------------------------------------------------------------------------
(* Each step is a step of the queue or leaves it alone.                    *)

RxWaiting == Contents(rxBuf, rxHead, rxTail, RxSize)

\* The interrupt puts the byte, or refuses it when RxSize - 1 are waiting.
LEMMA RxIsrRefines ==
  ASSUME RxIInv, NEW b \in Byte, NEW usr \in HwStatus, RxIsr(b, usr)
  PROVE  RxFifo!Put(b) \/ RxFifo!Refuse
<1> DEFINE h == Succ(rxHead, RxSize)
<1>1. /\ RxSize \in Nat \ {0}
      /\ rxHead \in 0 .. RxSize - 1
      /\ rxTail \in 0 .. RxSize - 1
      /\ rxBuf \in [0 .. RxSize - 1 -> Byte]
  BY RxSizePositive DEF RxIInv, RxTypeOK, RxIndex
<1>2. Len(RxWaiting) = Used(rxHead, rxTail, RxSize)
  BY <1>1, ContentsSeq DEF RxWaiting
<1>3. CASE h = rxTail
  <2>1. Len(RxWaiting) = RxSize - 1
    BY <1>1, <1>2, <1>3, FullIff
  <2>2. /\ UNCHANGED <<rxBuf, rxHead, rxTail, getcPc, tmptail, data>>
        /\ lastRxError' = "overflow"
    BY <1>3 DEF RxIsr
  <2>3. UNCHANGED <<RxWaiting, InHand>>
    BY <2>2 DEF RxWaiting, InHand
  <2> QED BY <2>1, <2>2, <2>3 DEF RxFifo!Refuse, RxWaiting
<1>4. CASE h # rxTail
  <2>1. /\ rxHead' = h
        /\ rxBuf' = [rxBuf EXCEPT ![h] = b]
        /\ lastRxError' = usr
        /\ UNCHANGED <<rxTail, getcPc, tmptail, data>>
    BY <1>4 DEF RxIsr
  <2>2. RxWaiting' = Append(RxWaiting, b)
    <3>1. RxWaiting' = Contents(Stored(rxBuf, h, b), h, rxTail, RxSize)
      BY <2>1 DEF RxWaiting, Stored
    <3>2. Extended(RxWaiting, b, Contents(Stored(rxBuf, h, b), h, rxTail, RxSize))
      BY <1>1, <1>4, ContentsStore DEF RxWaiting
    <3> QED BY <3>1, <3>2 DEF Extended
  <2>3. Used(rxHead, rxTail, RxSize) \in 0 .. RxSize - 1
    BY <1>1, UsedRange
  <2>4. Used(rxHead, rxTail, RxSize) # RxSize - 1
    BY <1>1, <1>4, FullIff
  <2>5. Len(RxWaiting) < RxSize - 1
    BY <1>1, <1>2, <2>3, <2>4
  <2>6. InHand' = InHand
    BY <1>1, <1>4, <2>1 DEF InHand, RxIInv, RxCallInProgress
  <2>7. lastRxError' # "overflow"
    BY <2>1 DEF HwStatus
  <2> QED BY <2>2, <2>5, <2>6, <2>7 DEF RxFifo!Put, RxWaiting
<1> QED BY <1>3, <1>4

\* The byte is taken when the tail moves, although it is read later.
LEMMA AdvanceRefines ==
  ASSUME RxIInv, GetcAdvance
  PROVE  RxFifo!Take
<1>1. /\ RxSize \in Nat \ {0}
      /\ rxHead \in 0 .. RxSize - 1
      /\ rxTail \in 0 .. RxSize - 1
      /\ rxBuf \in [0 .. RxSize - 1 -> Byte]
      /\ rxHead # rxTail
      /\ tmptail = Succ(rxTail, RxSize)
  BY RxSizePositive DEF RxIInv, RxTypeOK, RxIndex, RxCallInProgress, GetcAdvance
<1>2. /\ RxWaiting # <<>>
      /\ Head(RxWaiting) = rxBuf[tmptail]
      /\ Contents(rxBuf, rxHead, tmptail, RxSize) = Tail(RxWaiting)
  BY <1>1, ContentsFetch DEF RxWaiting
<1>3. RxWaiting' = Tail(RxWaiting)
  BY <1>2 DEF GetcAdvance, RxWaiting
<1>4. InHand' = Head(RxWaiting)
  BY <1>2 DEF GetcAdvance, InHand
<1>5. lastRxError' = lastRxError
  BY DEF GetcAdvance
<1> QED BY <1>2, <1>3, <1>4, <1>5 DEF RxFifo!Take, RxWaiting

\* uart_flush() empties the queue.
LEMMA FlushRefines ==
  ASSUME RxIInv, Flush
  PROVE  RxFifo!Clear
<1>1. /\ RxSize \in Nat \ {0}
      /\ rxTail \in 0 .. RxSize - 1
      /\ rxBuf \in [0 .. RxSize - 1 -> Byte]
  BY RxSizePositive DEF RxIInv, RxTypeOK, RxIndex
<1>2. Contents(rxBuf, rxTail, rxTail, RxSize) = <<>>
  BY <1>1, ContentsSeq
<1>3. RxWaiting' = <<>>
  BY <1>2 DEF Flush, RxWaiting
<1>4. UNCHANGED <<InHand, lastRxError>>
  BY DEF Flush, InHand
<1> QED BY <1>3, <1>4 DEF RxFifo!Clear, RxWaiting

\* The ring buffer with its interrupt implements a bounded FIFO queue of
\* RxSize - 1 bytes: uart_getc() returns every stored byte once, in order
\* and unchanged, and a byte is dropped only when the buffer is full.
THEOREM RxIsFifo == RxSpec => RxImplementsFifo
<1>1. RxInit => RxFifo!Init
  <2> SUFFICES ASSUME RxInit
               PROVE  RxFifo!Init
    OBVIOUS
  <2>1. /\ RxSize \in Nat \ {0}
        /\ rxHead = 0 /\ rxTail = 0 /\ 0 \in 0 .. RxSize - 1
        /\ rxBuf \in [0 .. RxSize - 1 -> Byte]
    BY RxSizePositive, ByteAssumption DEF RxInit, RxIndex
  <2>2. RxWaiting = <<>>
    BY <2>1, ContentsSeq DEF RxWaiting
  <2>3. InHand \in Byte /\ lastRxError # "overflow"
    BY ByteAssumption DEF RxInit, InHand
  <2> QED BY <2>2, <2>3 DEF RxFifo!Init, RxWaiting
<1>2. RxIInv /\ [RxNext]_rxVars => [RxFifo!Next]_(RxFifo!qvars)
  <2> SUFFICES ASSUME RxIInv, [RxNext]_rxVars
               PROVE  RxFifo!Next \/ UNCHANGED RxFifo!qvars
    OBVIOUS
  <2>1. ASSUME NEW b \in Byte, NEW usr \in HwStatus, RxIsr(b, usr)
        PROVE  RxFifo!Next
    BY <2>1, RxIsrRefines DEF RxFifo!Next
  <2>2. CASE GetcAdvance
    BY <2>2, AdvanceRefines DEF RxFifo!Next
  <2>3. CASE Flush
    BY <2>3, FlushRefines DEF RxFifo!Next
  <2>4. ASSUME UNCHANGED <<rxBuf, rxHead, rxTail, lastRxError>>, InHand' = InHand
        PROVE  UNCHANGED RxFifo!qvars
    BY <2>4 DEF RxFifo!qvars
  <2>5. CASE GetcEmpty
    <3>1. UNCHANGED <<rxBuf, rxHead, rxTail, lastRxError>>
      BY <2>5 DEF GetcEmpty
    <3>2. InHand' = InHand
      BY <2>5 DEF GetcEmpty, InHand
    <3> QED BY <2>4, <3>1, <3>2
  <2>6. CASE GetcBegin
    <3>1. UNCHANGED <<rxBuf, rxHead, rxTail, lastRxError>>
      BY <2>6 DEF GetcBegin
    <3>2. InHand' = InHand
      BY <2>6 DEF GetcBegin, InHand
    <3> QED BY <2>4, <3>1, <3>2
  <2>7. CASE GetcRead
    <3>1. UNCHANGED <<rxBuf, rxHead, rxTail, lastRxError>>
      BY <2>7 DEF GetcRead
    <3>2. InHand' = InHand
      BY <2>7 DEF GetcRead, InHand
    <3> QED BY <2>4, <3>1, <3>2
  <2>8. CASE GetcReturn
    <3>1. UNCHANGED <<rxBuf, rxHead, rxTail, lastRxError>>
      BY <2>8 DEF GetcReturn
    <3>2. InHand' = InHand
      BY <2>8 DEF GetcReturn, InHand
    <3> QED BY <2>4, <3>1, <3>2
  <2>9. CASE UNCHANGED rxVars
    <3>1. UNCHANGED <<rxBuf, rxHead, rxTail, lastRxError>>
      BY <2>9 DEF rxVars
    <3>2. InHand' = InHand
      BY <2>9 DEF rxVars, InHand
    <3> QED BY <2>4, <3>1, <3>2
  <2> QED
    BY <2>1, <2>2, <2>3, <2>5, <2>6, <2>7, <2>8, <2>9 DEF RxNext, RxMain
<1> QED BY <1>1, <1>2, RxCallInvariant, PTL DEF RxSpec, RxImplementsFifo, RxFifo!Spec

-----------------------------------------------------------------------------
(* The transmit half.                                                      *)

\* Every admissible buffer size has a slot.
LEMMA TxSizePositive == TxSize \in Nat \ {0}
BY TxAssumption DEF RingSizes

\* No step of uart_putc(), the interrupt or the transmitter takes a variable
\* out of the range its C type and use give it.
THEOREM TxTypeCorrect == TxSpec => []TxTypeOK
<1> USE DEF ringVars, hwVars, putVars
<1>1. TxInit => TxTypeOK
  <2>1. 0 \in TxIndex /\ 0 \in Byte
    BY TxSizePositive, ByteAssumption DEF TxIndex
  <2> QED BY <2>1 DEF TxInit, TxTypeOK
<1>2. TxTypeOK /\ [TxNext]_txVars => TxTypeOK'
  <2> SUFFICES ASSUME TxTypeOK, [TxNext]_txVars
               PROVE  TxTypeOK'
    OBVIOUS
  <2>1. /\ Succ(txHead, TxSize) \in TxIndex
        /\ Succ(txTail, TxSize) \in TxIndex
    BY TxSizePositive, SuccInRange DEF TxTypeOK, TxIndex
  <2>2. ASSUME NEW b \in Byte, Putc(b)
        PROVE  TxTypeOK'
    BY <2>1, <2>2 DEF TxTypeOK, Putc
  <2>3. CASE PutcRoom
    BY <2>3 DEF TxTypeOK, PutcRoom
  <2>4. CASE PutcStore
    BY <2>4 DEF TxTypeOK, PutcStore
  <2>5. CASE PutcPublish
    BY <2>5 DEF TxTypeOK, PutcPublish
  <2>6. CASE PutcEnable
    BY <2>6 DEF TxTypeOK, PutcEnable
  <2>7. CASE TxIsrSend
    BY <2>1, <2>7 DEF TxTypeOK, TxIsrSend
  <2>8. CASE TxIsrOff
    BY <2>8 DEF TxTypeOK, TxIsrOff
  <2>9. CASE ShiftOut
    BY <2>9 DEF TxTypeOK, ShiftOut
  <2>10. CASE UNCHANGED txVars
    BY <2>10 DEF TxTypeOK, txVars
  <2> QED
    BY <2>2, <2>3, <2>4, <2>5, <2>6, <2>7, <2>8, <2>9, <2>10 DEF TxNext, TxMain
<1> QED BY <1>1, <1>2, PTL DEF TxSpec

-----------------------------------------------------------------------------
(* While uart_putc() is under way its local index stays the slot behind    *)
(* the head, and once room was seen the interrupt can only make more.      *)
TxCallInProgress ==
  /\ putcPc \in {"wait", "store", "publish"} => tmphead = Succ(txHead, TxSize)
  /\ putcPc \in {"store", "publish"} => tmphead # txTail
  /\ putcPc = "publish" => txBuf[tmphead] = arg

TxIInv == TxTypeOK /\ TxCallInProgress /\ NoLostWakeup

LEMMA TxCallInvariant == TxSpec => []TxIInv
<1> USE DEF ringVars, hwVars, putVars
<1>1. TxInit => TxCallInProgress /\ NoLostWakeup
  BY DEF TxInit, TxCallInProgress, NoLostWakeup
<1>2. TxIInv /\ [TxNext]_txVars => (TxCallInProgress /\ NoLostWakeup)'
  <2> SUFFICES ASSUME TxIInv, [TxNext]_txVars
               PROVE  TxCallInProgress' /\ NoLostWakeup'
    OBVIOUS
  <2> USE DEF TxIInv, TxCallInProgress, NoLostWakeup
  <2>1. ASSUME NEW b \in Byte, Putc(b)
        PROVE  TxCallInProgress' /\ NoLostWakeup'
    BY <2>1 DEF Putc
  <2>2. CASE PutcRoom
    BY <2>2 DEF PutcRoom
  <2>3. CASE PutcStore
    <3>1. txBuf'[tmphead] = arg
      BY <2>3 DEF PutcStore, TxTypeOK
    <3> QED BY <2>3, <3>1 DEF PutcStore
  <2>4. CASE PutcPublish
    BY <2>4 DEF PutcPublish
  <2>5. CASE PutcEnable
    BY <2>5 DEF PutcEnable
  <2>6. CASE TxIsrSend
    <3>1. /\ TxSize \in Nat \ {0}
          /\ txHead \in 0 .. TxSize - 1
          /\ txTail \in 0 .. TxSize - 1
      BY TxSizePositive DEF TxTypeOK, TxIndex
    <3>2. Succ(txTail, TxSize) # Succ(txHead, TxSize)
      BY <2>6, <3>1, SuccInjective DEF TxIsrSend
    <3> QED BY <2>6, <3>2 DEF TxIsrSend
  <2>7. CASE TxIsrOff
    BY <2>7 DEF TxIsrOff
  <2>8. CASE ShiftOut
    BY <2>8 DEF ShiftOut
  <2>9. CASE UNCHANGED txVars
    BY <2>9 DEF txVars
  <2> QED
    BY <2>1, <2>2, <2>3, <2>4, <2>5, <2>6, <2>7, <2>8, <2>9 DEF TxNext, TxMain
<1> QED BY <1>1, <1>2, TxTypeCorrect, PTL DEF TxSpec, TxIInv

\* The interrupt is never off while bytes wait, except in the two steps of
\* uart_putc() between publishing the head and enabling the interrupt.
THEOREM NoWakeupLost == TxSpec => []NoLostWakeup
<1>1. TxIInv => NoLostWakeup
  BY DEF TxIInv
<1> QED BY <1>1, TxCallInvariant, PTL

-----------------------------------------------------------------------------
(* Each step is a step of the queue or leaves it alone.                    *)

TxWaiting == Contents(txBuf, txHead, txTail, TxSize)

\* Storing the byte does not show before the head is published.
LEMMA StoreHidden ==
  ASSUME TxIInv, PutcStore
  PROVE  TxWaiting' = TxWaiting
<1>1. /\ TxSize \in Nat \ {0}
      /\ txHead \in 0 .. TxSize - 1
      /\ txTail \in 0 .. TxSize - 1
      /\ txBuf \in [0 .. TxSize - 1 -> Byte]
      /\ tmphead = Succ(txHead, TxSize)
  BY TxSizePositive DEF TxIInv, TxTypeOK, TxIndex, TxCallInProgress, PutcStore
<1>2. Contents(Stored(txBuf, Succ(txHead, TxSize), arg), txHead, txTail, TxSize)
        = Contents(txBuf, txHead, txTail, TxSize)
  BY <1>1, ContentsUnseen
<1> QED BY <1>1, <1>2 DEF PutcStore, TxWaiting, Stored

\* Publishing the head puts the byte.
LEMMA PublishRefines ==
  ASSUME TxIInv, PutcPublish
  PROVE  TxFifo!Put(arg)
<1>1. /\ TxSize \in Nat \ {0}
      /\ txHead \in 0 .. TxSize - 1
      /\ txTail \in 0 .. TxSize - 1
      /\ txBuf \in [0 .. TxSize - 1 -> Byte]
      /\ arg \in Byte
  BY TxSizePositive DEF TxIInv, TxTypeOK, TxIndex
<1>2. /\ tmphead = Succ(txHead, TxSize)
      /\ tmphead # txTail
      /\ txBuf[tmphead] = arg
  BY DEF TxIInv, TxCallInProgress, PutcPublish
<1>3. Stored(txBuf, tmphead, arg) = txBuf
  BY <1>1, <1>2 DEF Stored
<1>4. Extended(TxWaiting, arg, Contents(Stored(txBuf, tmphead, arg), tmphead, txTail, TxSize))
  BY <1>1, <1>2, ContentsStore DEF TxWaiting
<1>5. TxWaiting' = Append(TxWaiting, arg)
  <2>1. TxWaiting' = Contents(txBuf, tmphead, txTail, TxSize)
    BY DEF PutcPublish, TxWaiting, ringVars
  <2> QED BY <2>1, <1>3, <1>4 DEF Extended
<1>6. Len(TxWaiting) < TxSize - 1
  <2>1. Len(TxWaiting) = Used(txHead, txTail, TxSize)
    BY <1>1, ContentsSeq DEF TxWaiting
  <2>2. Used(txHead, txTail, TxSize) \in 0 .. TxSize - 1
    BY <1>1, UsedRange
  <2>3. Used(txHead, txTail, TxSize) # TxSize - 1
    BY <1>1, <1>2, FullIff
  <2> QED BY <1>1, <2>1, <2>2, <2>3
<1>7. udr' = udr
  BY DEF PutcPublish, hwVars
<1> QED BY <1>5, <1>6, <1>7 DEF TxFifo!Put, TxWaiting

\* The interrupt takes the oldest byte.
LEMMA SendRefines ==
  ASSUME TxIInv, TxIsrSend
  PROVE  TxFifo!Take
<1>1. /\ TxSize \in Nat \ {0}
      /\ txHead \in 0 .. TxSize - 1
      /\ txTail \in 0 .. TxSize - 1
      /\ txBuf \in [0 .. TxSize - 1 -> Byte]
      /\ txHead # txTail
  BY TxSizePositive DEF TxIInv, TxTypeOK, TxIndex, TxIsrSend
<1>2. /\ TxWaiting # <<>>
      /\ Head(TxWaiting) = txBuf[Succ(txTail, TxSize)]
      /\ Contents(txBuf, txHead, Succ(txTail, TxSize), TxSize) = Tail(TxWaiting)
  BY <1>1, ContentsFetch DEF TxWaiting
<1>3. TxWaiting' = Tail(TxWaiting)
  BY <1>2 DEF TxIsrSend, TxWaiting
<1>4. udr' = Head(TxWaiting)
  BY <1>2 DEF TxIsrSend
<1> QED BY <1>2, <1>3, <1>4 DEF TxFifo!Take, TxWaiting

\* The ring, uart_putc() and the interrupt implement a bounded FIFO queue of
\* TxSize - 1 bytes from which nothing is refused: each byte handed to
\* uart_putc() reaches the transmitter once, in order and unchanged.
THEOREM TxIsFifo == TxSpec => TxImplementsFifo
<1> USE DEF ringVars, hwVars, putVars
<1>1. TxInit => TxFifo!Init
  <2> SUFFICES ASSUME TxInit
               PROVE  TxFifo!Init
    OBVIOUS
  <2>1. /\ TxSize \in Nat \ {0}
        /\ txHead = 0 /\ txTail = 0 /\ 0 \in 0 .. TxSize - 1
        /\ txBuf \in [0 .. TxSize - 1 -> Byte]
        /\ udr \in Byte
    BY TxSizePositive, ByteAssumption DEF TxInit, TxIndex
  <2>2. TxWaiting = <<>>
    BY <2>1, ContentsSeq DEF TxWaiting
  <2> QED BY <2>1, <2>2 DEF TxFifo!Init, TxWaiting
<1>2. TxIInv /\ [TxNext]_txVars => [TxFifo!Next]_(TxFifo!qvars)
  <2> SUFFICES ASSUME TxIInv, [TxNext]_txVars
               PROVE  TxFifo!Next \/ UNCHANGED TxFifo!qvars
    OBVIOUS
  <2>1. ASSUME NEW b \in Byte, Putc(b)
        PROVE  UNCHANGED TxFifo!qvars
    BY <2>1 DEF Putc, TxFifo!qvars
  <2>2. CASE PutcRoom
    BY <2>2 DEF PutcRoom, TxFifo!qvars
  <2>3. CASE PutcStore
    BY <2>3, StoreHidden DEF PutcStore, TxFifo!qvars, TxWaiting
  <2>4. CASE PutcPublish
    BY <2>4, PublishRefines DEF TxFifo!Next, TxIInv, TxTypeOK
  <2>5. CASE PutcEnable
    BY <2>5 DEF PutcEnable, TxFifo!qvars
  <2>6. CASE TxIsrSend
    BY <2>6, SendRefines DEF TxFifo!Next
  <2>7. CASE TxIsrOff
    BY <2>7 DEF TxIsrOff, TxFifo!qvars
  <2>8. CASE ShiftOut
    BY <2>8 DEF ShiftOut, TxFifo!qvars
  <2>9. CASE UNCHANGED txVars
    BY <2>9 DEF txVars, TxFifo!qvars
  <2> QED
    BY <2>1, <2>2, <2>3, <2>4, <2>5, <2>6, <2>7, <2>8, <2>9 DEF TxNext, TxMain
<1> QED BY <1>1, <1>2, TxCallInvariant, PTL DEF TxSpec, TxImplementsFifo, TxFifo!Spec

-----------------------------------------------------------------------------
(* The timers.                                                             *)

\* What the argument needs of the types.
Tables ==
  /\ flags \in [Id -> SUBSET {"enabled", "auto", "valid"}]
  /\ ticks \in [Id -> Count]
  /\ DOMAIN callback = Id
  /\ armed \in [Id -> BOOLEAN]

Owned(i) == "valid" \in flags[i] /\ callback[i] # NULL

\* timer_add() fills a slot with a function.
ValidIsOwned == \A i \in Id : "valid" \in flags[i] => callback[i] # NULL

\* timer_enable() starts only a timer with ticks, and timer_remove() takes
\* those away with the owner.
TicksAreOwned == \A i \in Id : ticks[i] # 0 => Owned(i)

\* timer_set() has looked at the owner before it stores the flags.
CallIsOwned ==
  /\ pc \in {"second", "flags"} /\ call.fn = "set" =>
       /\ call.id \in Id /\ Owned(call.id)
       /\ call.flags \subseteq {"enabled", "auto"}
  /\ pc = "first" => call.fn = "enable"
  /\ pc = "flags" => call.fn = "set"

\* The timer timer_update() is at is enabled from the first read of its
\* counter on, until it is fired.
ScannedIsRunning == pc \in {"read", "due"} => k \in Id /\ Running(k)

RunningIsArmed == \A i \in Id : Running(i) => armed[i]

IInv ==
  /\ Tables /\ ValidIsOwned /\ TicksAreOwned /\ CallIsOwned /\ ScannedIsRunning
  /\ RunningIsArmed /\ EnabledIsOwned

LEMMA ZeroIsCount == 0 \in Count
<1>1. Base * Base \in Nat \ {0}
  BY TimersAssumption
<1> DEFINE m == Base * Base
<1>2. m - 1 >= 0 /\ m \in Nat
  BY <1>1
<1> HIDE DEF m
<1> QED BY <1>2 DEF Count, m

\* The interrupt and the steps of timer_update() that change no table.
LEMMA ScanKeepsInv ==
  ASSUME IInv,
         \/ Tick \/ Work \/ UpdateBegin \/ ScanSkip \/ ScanRead \/ ScanNonzero
         \/ ScanZero \/ ReloadFirst \/ ReloadSecond \/ CallbackReturn \/ UpdateEnd
         \/ UNCHANGED vars
  PROVE  IInv'
<1>1. UNCHANGED <<flags, ticks, callback, call, armed>>
  BY DEF Tick, Work, UpdateBegin, ScanSkip, ScanRead, ScanNonzero, ScanZero,
         ReloadFirst, ReloadSecond, CallbackReturn, UpdateEnd, timerVars, history, vars
<1>2. Tables' /\ ValidIsOwned' /\ TicksAreOwned' /\ RunningIsArmed' /\ EnabledIsOwned'
  BY <1>1 DEF IInv, Tables, ValidIsOwned, TicksAreOwned, RunningIsArmed, EnabledIsOwned, Owned, Running
<1>3. CallIsOwned' /\ ScannedIsRunning'
  BY <1>1
  DEF IInv, CallIsOwned, ScannedIsRunning, Owned, Running, timerVars, history, vars,
      Tick, Work, UpdateBegin, ScanSkip, ScanRead, ScanNonzero, ScanZero,
      ReloadFirst, ReloadSecond, CallbackReturn, UpdateEnd
<1> QED BY <1>2, <1>3 DEF IInv

\* The functions other code calls.
LEMMA CallKeepsInv ==
  ASSUME IInv, Call
  PROVE  IInv'
<1> USE DEF IInv, Tables, history
<1>1. ASSUME NEW i \in Id, "valid" \notin flags[i],
             flags' = [flags EXCEPT ![i] = @ \union {"valid"}],
             ticks' = [ticks EXCEPT ![i] = 0],
             callback' = [callback EXCEPT ![i] = "function"],
             pc' \in {"update", "returned"},
             UNCHANGED <<call, armed>>
      PROVE  IInv'
  <2> USE TimersAssumption
  <2>1. Tables'
    BY <1>1, ZeroIsCount
  <2> QED
    BY <1>1, <2>1
    DEF ValidIsOwned, TicksAreOwned, CallIsOwned, ScannedIsRunning, RunningIsArmed, EnabledIsOwned,
        Owned, Running
<1>2. CASE Add("function")
  BY <1>1, <1>2 DEF Add
<1>3. ASSUME NEW i \in Id, NEW t \in Period, NEW fl \in SUBSET {"enabled", "auto"},
             SetBegin(i, t, fl)
      PROVE  IInv'
  <2>1. /\ "valid" \in flags[i]
        /\ ticks' = [ticks EXCEPT ![i] = t] /\ t \in Count
        /\ call' = [fn |-> "set", id |-> i, ticks |-> t, flags |-> fl]
        /\ pc' = "second"
        /\ UNCHANGED <<flags, callback, k, armed>>
    BY <1>3, TimersAssumption DEF SetBegin
  <2>2. Owned(i)
    BY <2>1 DEF Owned, ValidIsOwned
  <2>3. Tables' /\ ScannedIsRunning'
    BY <2>1 DEF ScannedIsRunning
  <2>4. RunningIsArmed' /\ EnabledIsOwned'
    BY <2>1 DEF RunningIsArmed, EnabledIsOwned, Running
  <2>5. ValidIsOwned' /\ TicksAreOwned' /\ CallIsOwned'
    BY <2>1, <2>2 DEF ValidIsOwned, TicksAreOwned, CallIsOwned, Owned
  <2> QED BY <2>3, <2>4, <2>5
<1>4. ASSUME NEW i \in Id, EnableBegin(i)
      PROVE  IInv'
  BY <1>4
  DEF EnableBegin, ValidIsOwned, TicksAreOwned, CallIsOwned, ScannedIsRunning, RunningIsArmed,
      EnabledIsOwned, Owned, Running
<1>5. ASSUME NEW i \in Id, Remove(i)
      PROVE  IInv'
  BY <1>5, ZeroIsCount
  DEF Remove, ValidIsOwned, TicksAreOwned, CallIsOwned, ScannedIsRunning, RunningIsArmed,
      EnabledIsOwned, Owned, Running
<1>6. ASSUME NEW i \in Id, Disable(i)
      PROVE  IInv'
  BY <1>6
  DEF Disable, ValidIsOwned, TicksAreOwned, CallIsOwned, ScannedIsRunning, RunningIsArmed,
      EnabledIsOwned, Owned, Running
<1> QED BY <1>2, <1>3, <1>4, <1>5, <1>6 DEF Call

\* What is left of a call after its first step, and the firing of a timer.
LEMMA RestKeepsInv ==
  ASSUME IInv, CallStep \/ FireOnce
  PROVE  IInv'
<1> USE DEF IInv, Tables, history, ValidIsOwned, TicksAreOwned, CallIsOwned, ScannedIsRunning,
            RunningIsArmed, EnabledIsOwned, Owned, Running
<1>1. CASE EnableFirst
  BY <1>1 DEF EnableFirst
<1>2. CASE EnableEnd
  BY <1>2 DEF EnableEnd, Returned, NoCall
<1>3. CASE SetSecond
  BY <1>3 DEF SetSecond
<1>4. CASE SetEnd
  <2> DEFINE i == call.id
  <2>1. /\ i \in Id /\ Owned(i) /\ call.flags \subseteq {"enabled", "auto"}
        /\ flags' = [flags EXCEPT ![i] = call.flags \union {"valid"}]
        /\ armed' = [armed EXCEPT ![i] = "enabled" \in call.flags]
        /\ pc' \in {"update", "returned"} /\ UNCHANGED <<ticks, callback>>
    BY <1>4 DEF SetEnd, Returned
  <2>2. Tables'
    BY <2>1
  <2>3. \A j \in Id : /\ Owned(j) => Owned(j)'
                      /\ Running(j)' => armed'[j]
                      /\ Running(j)' => Running(j) \/ j = i
    BY <2>1
  <2> QED BY <2>1, <2>2, <2>3
<1>5. CASE FireOnce
  BY <1>5 DEF FireOnce
<1> QED BY <1>1, <1>2, <1>3, <1>4, <1>5 DEF CallStep

LEMMA TimersInvariant == Spec => []IInv
<1>1. Init => IInv
  BY ZeroIsCount
  DEF Init, IInv, Tables, ValidIsOwned, TicksAreOwned, CallIsOwned, ScannedIsRunning,
      RunningIsArmed, EnabledIsOwned, Owned, Running, NoCall
<1>2. IInv /\ [Next]_vars => IInv'
  BY ScanKeepsInv, CallKeepsInv, RestKeepsInv DEF Next, Main, Update
<1> QED BY <1>1, <1>2, PTL DEF Spec

-----------------------------------------------------------------------------
(* Counters and types.                                                     *)

LEMMA Times ==
  ASSUME NEW q \in Nat, NEW m \in Nat, NEW B \in Nat, q <= m
  PROVE  q * B <= m * B
OBVIOUS

\* A high and a low byte make a counter.
LEMMA BytesMakeCount ==
  ASSUME NEW q \in 0 .. Base - 1, NEW r \in 0 .. Base - 1
  PROVE  q * Base + r \in Count
<1>1. Base \in Nat /\ Base > 1
  BY TimersAssumption
<1>2. q * Base <= (Base - 1) * Base
  BY <1>1, Times
<1>3. (Base - 1) * Base = Base * Base - Base /\ Base * Base \in Nat
  BY <1>1
<1>4. q * Base \in Nat
  BY <1>1
<1> DEFINE high == q * Base
           all == Base * Base
<1> HIDE DEF high, all
<1>5. high + r \in 0 .. all - 1
  BY <1>1, <1>2, <1>3, <1>4 DEF high, all
<1> QED BY <1>5 DEF Count, high, all

LEMMA BytesOfCount ==
  ASSUME NEW c \in Count
  PROVE  /\ c \in Nat
         /\ c % Base \in 0 .. Base - 1
         /\ c \div Base \in 0 .. Base - 1
<1>1. Base \in Nat /\ Base > 0 /\ c \in 0 .. Base * Base - 1
  BY TimersAssumption DEF Count
<1>2. c \div Base <= Base - 1
  BY <1>1
<1> QED BY <1>1, <1>2

\* Whichever half is written, a counter remains one.
LEMMA HalfWritten ==
  ASSUME NEW c \in Count, NEW v \in Count, NEW h \in Half
  PROVE  WriteHalf(c, v, h) \in Count
BY BytesOfCount, BytesMakeCount DEF WriteHalf

LEMMA OneLess ==
  ASSUME NEW c \in Count, c > 0
  PROVE  c - 1 \in Count
BY TimersAssumption DEF Count

\* The scan is at a timer from the first read of its counter to the return
\* of its callback, the calls of the callback included.
ScanAtTimer ==
  /\ pc \in {"read", "due", "reload", "callback", "returned"} => k \in Id
  /\ pc \in {"first", "second", "flags"} /\ from = "callback" => k \in Id

TInv == TypeOK /\ ScanAtTimer

LEMMA NoCallTyped ==
  NoCall \in [fn : {"none", "set", "enable"}, id : Id, ticks : Count,
              flags : SUBSET {"enabled", "auto"}]
<1>1. 0 \in Id
  BY TimersAssumption DEF Id
<1> QED BY <1>1, ZeroIsCount DEF NoCall

LEMMA InitTyped == Init => TInv
<1>1. 0 \in 0 .. TimersMax
  BY TimersAssumption
<1> SUFFICES ASSUME Init PROVE TypeOK /\ ScanAtTimer
  BY DEF TInv
<1>2. /\ flags \in [Id -> SUBSET {"enabled", "auto", "valid"}]
      /\ ticks \in [Id -> Count] /\ counter \in [Id -> Count]
      /\ callback \in [Id -> {NULL, "function"}]
      /\ age \in [Id -> Nat] /\ armed \in [Id -> BOOLEAN]
  BY ZeroIsCount DEF Init
<1>3. /\ irq \in BOOLEAN /\ pc = "work" /\ half \in Half /\ k \in 0 .. TimersMax
      /\ from \in {"loop", "callback"} /\ call = NoCall
  BY <1>1 DEF Init, Half
<1> QED BY <1>2, <1>3, NoCallTyped DEF TypeOK, ScanAtTimer

LEMMA TickTyped ==
  ASSUME TInv, Tick
  PROVE  TInv'
<1>1. counter' \in [Id -> Count]
  <2>1. \A i \in Id : (IF Running(i) /\ counter[i] > 0
                      THEN counter[i] - 1 ELSE counter[i]) \in Count
    BY OneLess DEF TInv, TypeOK
  <2> QED BY <2>1 DEF Tick
<1>2. age' \in [Id -> Nat]
  BY DEF Tick, Older, TInv, TypeOK
<1>3. irq' = TRUE /\ UNCHANGED <<flags, ticks, callback, pc, k, half, call, from, armed>>
  BY DEF Tick
<1> QED BY <1>1, <1>2, <1>3 DEF TInv, TypeOK, ScanAtTimer

\* Where the main program goes when it has called a function.
LEMMA ReturnTyped ==
  ASSUME TInv, MayCall, UNCHANGED k
  PROVE  LET back == IF pc = "work" THEN "update" ELSE "returned"
         IN  back \in {"update", "returned"} /\ (back = "returned" => k' \in Id)
BY DEF TInv, ScanAtTimer, MayCall

LEMMA CallTyped ==
  ASSUME TInv, Call
  PROVE  TInv'
<1> USE DEF TInv, TypeOK, history
<1>1. CASE Add("function")
  <2> PICK i \in Id :
        /\ MayCall
        /\ flags' = [flags EXCEPT ![i] = @ \union {"valid"}]
        /\ ticks' = [ticks EXCEPT ![i] = 0]
        /\ counter' = [counter EXCEPT ![i] = 0]
        /\ callback' = [callback EXCEPT ![i] = "function"]
        /\ pc' = IF pc = "work" THEN "update" ELSE "returned"
        /\ UNCHANGED <<irq, k, half, call, from, age, armed>>
    BY <1>1 DEF Add
  <2>1. pc' \in {"update", "returned"} /\ ScanAtTimer'
    BY DEF ScanAtTimer, MayCall
  <2>2. ticks' \in [Id -> Count] /\ counter' \in [Id -> Count]
    BY ZeroIsCount
  <2>3. flags' \in [Id -> SUBSET {"enabled", "auto", "valid"}]
    OBVIOUS
  <2>4. callback' \in [Id -> {NULL, "function"}]
    OBVIOUS
  <2> QED BY <2>1, <2>2, <2>3, <2>4
<1>2. ASSUME NEW i \in Id, NEW t \in Period, NEW fl \in SUBSET {"enabled", "auto"},
             SetBegin(i, t, fl)
      PROVE  TInv'
  <2>1. t \in Count
    BY TimersAssumption
  <2>2. PICK h \in Half : /\ counter' = [counter EXCEPT ![i] = WriteHalf(@, t, h)]
                          /\ half' = Other(h)
    BY <1>2 DEF SetBegin
  <2>3. counter' \in [Id -> Count] /\ half' \in Half
    <3>1. WriteHalf(counter[i], t, h) \in Count
      BY <2>1, HalfWritten
    <3> QED BY <2>2, <3>1 DEF Half, Other
  <2>4. ticks' \in [Id -> Count] /\ age' \in [Id -> Nat]
    BY <1>2, <2>1 DEF SetBegin
  <2>5. call' \in [fn : {"none", "set", "enable"}, id : Id, ticks : Count,
                   flags : SUBSET {"enabled", "auto"}]
    BY <1>2, <2>1 DEF SetBegin
  <2>6. /\ from' \in {"loop", "callback"} /\ pc' = "second"
        /\ ScanAtTimer'
    BY <1>2 DEF SetBegin, ScanAtTimer, MayCall
  <2>7. UNCHANGED <<flags, callback, irq, k, armed>>
    BY <1>2 DEF SetBegin
  <2> QED BY <2>3, <2>4, <2>5, <2>6, <2>7
<1>3. ASSUME NEW i \in Id, EnableBegin(i)
      PROVE  TInv'
  <2>1. flags' \in [Id -> SUBSET {"enabled", "auto", "valid"}]
    BY <1>3 DEF EnableBegin
  <2>2. call' \in [fn : {"none", "set", "enable"}, id : Id, ticks : Count,
                   flags : SUBSET {"enabled", "auto"}]
    BY <1>3 DEF EnableBegin
  <2>3. /\ from' \in {"loop", "callback"} /\ pc' = "first"
        /\ ScanAtTimer'
    BY <1>3 DEF EnableBegin, ScanAtTimer, MayCall
  <2>4. age' \in [Id -> Nat] /\ armed' \in [Id -> BOOLEAN]
    BY <1>3 DEF EnableBegin
  <2>5. UNCHANGED <<ticks, counter, callback, irq, k, half>>
    BY <1>3 DEF EnableBegin
  <2> QED BY <2>1, <2>2, <2>3, <2>4, <2>5
<1>4. ASSUME NEW i \in Id, Remove(i)
      PROVE  TInv'
  <2>1. pc' \in {"update", "returned"} /\ ScanAtTimer'
    BY <1>4 DEF Remove, ScanAtTimer, MayCall
  <2>2. ticks' \in [Id -> Count] /\ counter' \in [Id -> Count]
    BY <1>4, ZeroIsCount DEF Remove
  <2>3. flags' \in [Id -> SUBSET {"enabled", "auto", "valid"}] /\ armed' \in [Id -> BOOLEAN]
    BY <1>4 DEF Remove
  <2>4. UNCHANGED <<callback, irq, k, half, call, from, age>>
    BY <1>4 DEF Remove
  <2> QED BY <2>1, <2>2, <2>3, <2>4
<1>5. ASSUME NEW i \in Id, Disable(i)
      PROVE  TInv'
  <2>1. pc' \in {"update", "returned"} /\ ScanAtTimer'
    BY <1>5 DEF Disable, ScanAtTimer, MayCall
  <2>2. flags' \in [Id -> SUBSET {"enabled", "auto", "valid"}] /\ armed' \in [Id -> BOOLEAN]
    BY <1>5 DEF Disable
  <2>3. UNCHANGED <<ticks, counter, callback, irq, k, half, call, from, age>>
    BY <1>5 DEF Disable
  <2> QED BY <2>1, <2>2, <2>3
<1> QED BY <1>1, <1>2, <1>3, <1>4, <1>5 DEF Call

LEMMA CallStepTyped ==
  ASSUME TInv, CallStep
  PROVE  TInv'
<1> USE DEF TInv, TypeOK, history
<1>0. call.id \in Id /\ call.ticks \in Count /\ call.flags \in SUBSET {"enabled", "auto"}
  OBVIOUS
<1>b. \A h \in Half : [counter EXCEPT ![call.id] = WriteHalf(@, call.ticks, h)]
                       \in [Id -> Count]
  <2> TAKE h \in Half
  <2>1. WriteHalf(counter[call.id], call.ticks, h) \in Count
    BY <1>0, HalfWritten
  <2> QED BY <2>1
<1>1. CASE EnableFirst
  <2>1. PICK h \in Half :
          /\ counter' = [counter EXCEPT ![call.id] = WriteHalf(@, call.ticks, h)]
          /\ half' = Other(h)
    BY <1>1 DEF EnableFirst
  <2>2. counter' \in [Id -> Count] /\ half' \in Half
    BY <1>b, <2>1 DEF Half, Other
  <2>3. age' \in [Id -> Nat]
    BY <1>1 DEF EnableFirst
  <2>4. /\ pc = "first" /\ pc' = "second"
        /\ UNCHANGED <<flags, ticks, callback, irq, k, call, from, armed>>
    BY <1>1 DEF EnableFirst
  <2> QED BY <2>2, <2>3, <2>4 DEF ScanAtTimer
<1>2. CASE EnableEnd
  <2>1. counter' \in [Id -> Count]
    BY <1>2, <1>b DEF EnableEnd
  <2>2. call' \in [fn : {"none", "set", "enable"}, id : Id, ticks : Count,
                   flags : SUBSET {"enabled", "auto"}]
    BY <1>2, NoCallTyped DEF EnableEnd
  <2>3. pc' \in {"update", "returned"} /\ ScanAtTimer'
    BY <1>2 DEF EnableEnd, Returned, ScanAtTimer
  <2>4. UNCHANGED <<flags, ticks, callback, irq, k, half, from, age, armed>>
    BY <1>2 DEF EnableEnd
  <2> QED BY <2>1, <2>2, <2>3, <2>4
<1>3. CASE SetSecond
  <2>1. counter' \in [Id -> Count]
    BY <1>3, <1>b DEF SetSecond
  <2>2. /\ pc = "second" /\ pc' = "flags"
        /\ UNCHANGED <<flags, ticks, callback, irq, k, half, call, from, age, armed>>
    BY <1>3 DEF SetSecond
  <2> QED BY <2>1, <2>2 DEF ScanAtTimer
<1>4. CASE SetEnd
  <2>1. flags' \in [Id -> SUBSET {"enabled", "auto", "valid"}] /\ armed' \in [Id -> BOOLEAN]
    BY <1>0, <1>4 DEF SetEnd
  <2>2. call' \in [fn : {"none", "set", "enable"}, id : Id, ticks : Count,
                   flags : SUBSET {"enabled", "auto"}]
    BY <1>4, NoCallTyped DEF SetEnd
  <2>3. pc' \in {"update", "returned"} /\ ScanAtTimer'
    BY <1>4 DEF SetEnd, Returned, ScanAtTimer
  <2>4. UNCHANGED <<ticks, counter, callback, irq, k, half, from, age>>
    BY <1>4 DEF SetEnd
  <2> QED BY <2>1, <2>2, <2>3, <2>4
<1> QED BY <1>1, <1>2, <1>3, <1>4 DEF CallStep

LEMMA UpdateTyped ==
  ASSUME TInv, Work \/ Update \/ UNCHANGED vars
  PROVE  TInv'
<1> USE DEF TInv, TypeOK, history, timerVars
<1>0. \A i \in Id : i \in 0 .. TimersMax /\ i + 1 \in 0 .. TimersMax
  BY TimersAssumption DEF Id
<1>a. 0 \in 0 .. TimersMax
  BY TimersAssumption
<1>1. CASE Work \/ UpdateBegin \/ UpdateEnd \/ UNCHANGED vars
  BY <1>1, <1>a DEF Work, UpdateBegin, UpdateEnd, vars, ScanAtTimer
<1>2. CASE ScanSkip \/ ScanNonzero \/ CallbackReturn
  <2>1. k \in Id /\ k' = k + 1 /\ pc' = "scan"
    BY <1>2 DEF ScanSkip, ScanNonzero, CallbackReturn, ScanAtTimer
  <2>2. UNCHANGED <<flags, ticks, counter, callback, irq, half, call, from, age, armed>>
    BY <1>2 DEF ScanSkip, ScanNonzero, CallbackReturn
  <2> QED BY <1>0, <2>1, <2>2 DEF ScanAtTimer
<1>3. CASE ScanRead
  <2>1. half' \in Half
    BY <1>3 DEF ScanRead, Half, Other
  <2> QED BY <1>3, <2>1 DEF ScanRead, ScanAtTimer
<1>4. CASE ScanZero
  BY <1>4 DEF ScanZero, ScanAtTimer
<1>5. CASE FireOnce
  BY <1>5 DEF FireOnce, ScanAtTimer
<1>6. CASE ReloadFirst
  <2>1. PICK h \in Half : /\ counter' = [counter EXCEPT ![k] = WriteHalf(@, ticks[k], h)]
                          /\ half' = Other(h)
    BY <1>6 DEF ReloadFirst
  <2>2. k \in Id /\ pc' = "reload" /\ UNCHANGED <<flags, ticks, callback, irq, k, call, from, armed>>
    BY <1>6 DEF ReloadFirst, ScanAtTimer
  <2>3. counter' \in [Id -> Count] /\ half' \in Half
    <3>1. WriteHalf(counter[k], ticks[k], h) \in Count
      BY <2>2, HalfWritten
    <3> QED BY <2>1, <3>1 DEF Half, Other
  <2>4. age' \in [Id -> Nat]
    BY <1>6 DEF ReloadFirst
  <2> QED BY <2>2, <2>3, <2>4 DEF ScanAtTimer
<1>7. CASE ReloadSecond
  <2>1. k \in Id /\ pc' = "callback"
        /\ UNCHANGED <<flags, ticks, callback, irq, k, half, call, from, age, armed>>
    BY <1>7 DEF ReloadSecond, ScanAtTimer
  <2>2. counter' \in [Id -> Count]
    <3>1. WriteHalf(counter[k], ticks[k], half) \in Count
      BY <2>1, HalfWritten
    <3> QED BY <1>7, <3>1 DEF ReloadSecond
  <2> QED BY <2>1, <2>2 DEF ScanAtTimer
<1> QED BY <1>1, <1>2, <1>3, <1>4, <1>5, <1>6, <1>7 DEF Update

LEMMA TypeInvariant == Spec => []TInv
<1>1. TInv /\ [Next]_vars => TInv'
  BY TickTyped, CallTyped, CallStepTyped, UpdateTyped DEF Next, Main
<1> QED BY <1>1, InitTyped, PTL DEF Spec

\* No counter leaves its sixteen bits, wherever the interrupt falls between
\* the two halves of a write, and the scan never looks behind the table.
THEOREM TypeCorrect == Spec => []TypeOK
<1>1. TInv => TypeOK
  BY DEF TInv
<1> QED BY <1>1, TypeInvariant, PTL

-----------------------------------------------------------------------------
(* Periods of one byte.  A tick between two halves cannot borrow then, and  *)
(* no timer fires early.                                                   *)

ShortPeriods == \A t \in Period : t < Base

\* The age at which ageing stops is the longest period.
LEMMA AgeMaxIsLongest ==
  ASSUME NEW t \in Period
  PROVE  AgeMax \in Nat /\ t <= AgeMax
<1> DEFINE top == Base * Base - 1
           Left == {top - p : p \in Period}
<1>1. top \in Int /\ \A p \in Period : p \in Nat /\ p <= top
  BY TimersAssumption DEF Count
<1> HIDE DEF top
<1>2. Left \in SUBSET Nat /\ Left # {}
  BY <1>1
<1>3. PICK least \in Left : \A l \in Left : least <= l
  <2> HIDE DEF Left
  <2> QED BY <1>2, Least
<1>4. PICK m \in Period : least = top - m
  OBVIOUS
<1>5. \A p \in Period : p <= m
  <2> TAKE p \in Period
  <2>1. top - m <= top - p
    BY <1>3, <1>4
  <2> QED BY <1>1, <2>1
<1>6. AgeMax \in Period /\ \A p \in Period : p <= AgeMax
  BY <1>5 DEF AgeMax
<1> QED BY <1>1, <1>6

\* As many ticks are still to be counted as the timer is younger than its
\* period ...
Covered(i) == counter[i] + age[i] >= ticks[i]

\* ... unless the low half of its counter is still to be written.
Pending(i) ==
  \/ pc = "first" /\ call.id = i
  \/ pc = "second" /\ call.id = i /\ half = "lo"
  \/ pc = "reload" /\ k = i /\ half = "lo"

AllCovered == \A i \in Id : Pending(i) \/ Covered(i)

OneByte ==
  /\ \A i \in Id : counter[i] < Base /\ ticks[i] \in Period \union {0}
  /\ call.ticks \in Period \union {0}

CallIsCurrent == pc \in {"first", "second"} => call.ticks = ticks[call.id]

\* The scan that has seen the low half zero has seen the counter zero.
ReadIsZero == pc = "read" /\ half = "hi" => counter[k] = 0

SInv == OneByte /\ CallIsCurrent /\ AllCovered /\ ReadIsZero

LEMMA ShortHalves ==
  ASSUME NEW c \in Nat, c < Base, NEW v \in Nat, v < Base
  PROVE  /\ WriteHalf(c, v, "lo") = v
         /\ WriteHalf(c, v, "hi") = c
         /\ HalfOf(c, "lo") = c
<1>1. /\ c \div Base = 0 /\ c % Base = c
      /\ v \div Base = 0 /\ v % Base = v
      /\ 0 * Base = 0
  BY TimersAssumption
<1> QED BY <1>1 DEF WriteHalf, HalfOf

LEMMA ShortTypes ==
  ASSUME ShortPeriods, TInv, OneByte
  PROVE  /\ Base \in Nat /\ 0 < Base
         /\ \A i \in Id : /\ counter[i] \in Nat /\ age[i] \in Nat
                         /\ ticks[i] \in Nat /\ ticks[i] < Base
         /\ call.id \in Id /\ call.ticks \in Nat /\ call.ticks < Base
<1>1. Base \in Nat /\ 0 < Base
  BY TimersAssumption
<1>2. \A c \in Count : c \in Nat
  BY BytesOfCount
<1> QED BY <1>1, <1>2 DEF ShortPeriods, TInv, TypeOK, OneByte

\* A step that leaves the counters alone and starts no write of them.
LEMMA NothingCounted ==
  ASSUME SInv, UNCHANGED <<ticks, counter, age>>,
         pc \notin {"first", "second", "reload"},
         call'.ticks = call.ticks,
         pc' \notin {"first", "second", "read"}
  PROVE  SInv'
BY DEF SInv, OneByte, CallIsCurrent, AllCovered, ReadIsZero, Covered, Pending

LEMMA TickKeepsShort ==
  ASSUME ShortPeriods, TInv, SInv, Tick
  PROVE  SInv'
<1>0. UNCHANGED <<ticks, pc, call, half, k>>
  BY DEF Tick
<1>1. \A i \in Id : counter'[i] = IF Running(i) /\ counter[i] > 0
                                 THEN counter[i] - 1 ELSE counter[i]
  BY DEF Tick
<1>2. \A i \in Id : age'[i] = IF Running(i) /\ age[i] < AgeMax THEN age[i] + 1 ELSE age[i]
  BY DEF Tick, Older
<1>3. ASSUME NEW i \in Id
      PROVE  /\ counter'[i] < Base
             /\ counter[i] = 0 => counter'[i] = 0
             /\ Covered(i) => Covered(i)'
  <2>1. counter[i] \in Nat /\ age[i] \in Nat /\ ticks[i] \in Nat /\ counter[i] < Base
        /\ Base \in Nat
    BY ShortTypes DEF SInv, OneByte
  <2>2. counter'[i] < Base /\ (counter[i] = 0 => counter'[i] = 0)
    BY <1>1, <2>1
  <2>3. ASSUME Covered(i) PROVE Covered(i)'
    <3>1. counter'[i] \in Nat /\ age'[i] \in Nat /\ age[i] <= age'[i]
      BY <1>1, <1>2, <2>1
    <3>2. CASE ~Running(i)
      BY <1>0, <1>1, <1>2, <2>3, <3>2 DEF Covered
    <3>3. CASE Running(i) /\ counter[i] = 0
      BY <1>0, <1>1, <2>1, <2>3, <3>1, <3>3 DEF Covered
    <3>4. CASE Running(i) /\ counter[i] > 0 /\ age[i] < AgeMax
      BY <1>0, <1>1, <1>2, <2>1, <2>3, <3>4 DEF Covered
    <3>5. CASE ~(age[i] < AgeMax) /\ ticks[i] # 0
      <4>1. ticks[i] \in Period
        BY <3>5 DEF SInv, OneByte
      <4>2. ticks[i] <= age[i]
        BY <2>1, <3>5, <4>1, AgeMaxIsLongest
      <4> QED BY <1>0, <2>1, <3>1, <4>2 DEF Covered
    <3>6. CASE ticks[i] = 0
      BY <1>0, <3>1, <3>6 DEF Covered
    <3> QED BY <2>1, <3>2, <3>3, <3>4, <3>5, <3>6
  <2> QED BY <2>2, <2>3
<1>4. OneByte' /\ CallIsCurrent'
  BY <1>0, <1>3 DEF SInv, OneByte, CallIsCurrent
<1>5. AllCovered'
  BY <1>0, <1>3 DEF SInv, AllCovered, Pending
<1>6. ReadIsZero'
  BY <1>0, <1>3 DEF SInv, ReadIsZero, TInv, ScanAtTimer
<1> QED BY <1>4, <1>5, <1>6 DEF SInv

LEMMA CallKeepsShort ==
  ASSUME ShortPeriods, TInv, SInv, Call
  PROVE  SInv'
<1>0. /\ counter \in [Id -> Count] /\ ticks \in [Id -> Count] /\ age \in [Id -> Nat]
      /\ call.id \in Id
  BY DEF TInv, TypeOK
<1>a. MayCall => \A i \in Id : Covered(i)
  BY DEF SInv, AllCovered, Pending, MayCall
<1>b. OneByte /\ \A i \in Id : counter[i] \in Nat /\ age[i] \in Nat /\ ticks[i] \in Nat
  BY ShortTypes DEF SInv
\* timer_add() and timer_remove() clear both.
<1>1. ASSUME NEW i \in Id, MayCall,
             ticks' = [ticks EXCEPT ![i] = 0], counter' = [counter EXCEPT ![i] = 0],
             pc' \in {"update", "returned"}, UNCHANGED <<call, age>>
      PROVE  SInv'
  <2>1. \A j \in Id : Covered(j)'
    BY <1>0, <1>1, <1>a, <1>b DEF Covered
  <2>2. OneByte'
    BY <1>0, <1>1, <1>b, TimersAssumption DEF OneByte
  <2>3. CallIsCurrent' /\ ReadIsZero'
    BY <1>1 DEF CallIsCurrent, ReadIsZero
  <2> QED BY <2>1, <2>2, <2>3 DEF SInv, AllCovered
<1>2. CASE Add("function")
  BY <1>1, <1>2 DEF Add, history
<1>3. ASSUME NEW i \in Id, Remove(i) PROVE SInv'
  BY <1>1, <1>3 DEF Remove
<1>4. ASSUME NEW i \in Id, Disable(i) PROVE SInv'
  BY <1>4, NothingCounted DEF Disable, MayCall
<1>5. ASSUME NEW i \in Id, NEW t \in Period, NEW fl \in SUBSET {"enabled", "auto"},
             SetBegin(i, t, fl)
      PROVE  SInv'
  <2>0. t \in Nat /\ t < Base /\ counter[i] \in Nat /\ counter[i] < Base
    BY <1>b, TimersAssumption, BytesOfCount DEF ShortPeriods, OneByte
  <2>1. /\ MayCall /\ ticks' = [ticks EXCEPT ![i] = t]
        /\ call' = [fn |-> "set", id |-> i, ticks |-> t, flags |-> fl]
        /\ pc' = "second" /\ age' = [age EXCEPT ![i] = 0]
    BY <1>5 DEF SetBegin
  <2>2. PICK h \in Half : /\ counter' = [counter EXCEPT ![i] = WriteHalf(@, t, h)]
                          /\ half' = Other(h)
    BY <1>5 DEF SetBegin
  <2>3. CASE h = "lo"
    <3>1. counter' = [counter EXCEPT ![i] = t]
      BY <1>0, <2>0, <2>2, <2>3, ShortHalves
    <3>2. \A j \in Id : Covered(j)'
      BY <1>0, <1>a, <2>0, <2>1, <3>1 DEF Covered
    <3>3. OneByte' /\ CallIsCurrent' /\ ReadIsZero'
      BY <1>0, <1>b, <2>0, <2>1, <3>1 DEF OneByte, CallIsCurrent, ReadIsZero
    <3> QED BY <3>2, <3>3 DEF SInv, AllCovered
  <2>4. CASE h = "hi"
    <3>1. counter' = counter /\ half' = "lo"
      BY <1>0, <2>0, <2>2, <2>4, ShortHalves DEF Other
    <3>2. \A j \in Id : j # i => Covered(j)'
      BY <1>0, <1>a, <2>1, <3>1 DEF Covered
    <3>3. Pending(i)'
      BY <2>1, <3>1 DEF Pending
    <3>4. OneByte' /\ CallIsCurrent' /\ ReadIsZero'
      BY <1>0, <1>b, <2>0, <2>1, <3>1 DEF OneByte, CallIsCurrent, ReadIsZero
    <3> QED BY <3>2, <3>3, <3>4 DEF SInv, AllCovered
  <2> QED BY <2>3, <2>4 DEF Half
<1>6. ASSUME NEW i \in Id, EnableBegin(i) PROVE SInv'
  <2>1. /\ MayCall /\ call' = [fn |-> "enable", id |-> i, ticks |-> ticks[i], flags |-> {}]
        /\ pc' = "first" /\ age' = [age EXCEPT ![i] = 0] /\ UNCHANGED <<ticks, counter>>
    BY <1>6 DEF EnableBegin
  <2>2. Pending(i)' /\ \A j \in Id : j # i => Covered(j)'
    BY <1>0, <1>a, <2>1 DEF Covered, Pending
  <2>3. OneByte' /\ CallIsCurrent' /\ ReadIsZero'
    BY <1>b, <2>1 DEF OneByte, CallIsCurrent, ReadIsZero
  <2> QED BY <2>2, <2>3 DEF SInv, AllCovered
<1> QED BY <1>2, <1>3, <1>4, <1>5, <1>6 DEF Call

LEMMA CallStepKeepsShort ==
  ASSUME ShortPeriods, TInv, SInv, CallStep
  PROVE  SInv'
<1> DEFINE i == call.id
<1>0. /\ counter \in [Id -> Count] /\ age \in [Id -> Nat] /\ i \in Id /\ half \in Half
  BY DEF TInv, TypeOK
<1>b. /\ OneByte
      /\ \A j \in Id : counter[j] \in Nat /\ age[j] \in Nat /\ ticks[j] \in Nat
      /\ call.ticks \in Nat /\ call.ticks < Base /\ Base \in Nat /\ 0 < Base
      /\ counter[i] \in Nat /\ counter[i] < Base
  BY <1>0, ShortTypes DEF SInv, OneByte
<1>c. /\ WriteHalf(counter[i], call.ticks, "lo") = call.ticks
      /\ WriteHalf(counter[i], call.ticks, "hi") = counter[i]
  BY <1>b, ShortHalves
\* A function that has written the second half has written the counter.
<1>1. ASSUME pc = "second",
             counter' = [counter EXCEPT ![i] = WriteHalf(@, call.ticks, half)],
             pc' \in {"flags", "update", "returned"},
             call'.ticks \in Period \union {0}, UNCHANGED <<ticks, age>>
      PROVE  SInv'
  <2>1. call.ticks = ticks[i] /\ \A j \in Id : j # i => Covered(j)
    BY <1>1 DEF SInv, CallIsCurrent, AllCovered, Pending
  <2>2. CASE half = "lo"
    <3>1. counter' = [counter EXCEPT ![i] = call.ticks]
      BY <1>0, <1>1, <1>c, <2>2
    <3>2. \A j \in Id : Covered(j)'
      BY <1>0, <1>1, <1>b, <2>1, <3>1 DEF Covered
    <3>3. OneByte'
      BY <1>0, <1>1, <1>b, <3>1 DEF OneByte
    <3> QED BY <1>1, <3>2, <3>3 DEF SInv, AllCovered, CallIsCurrent, ReadIsZero
  <2>3. CASE half = "hi"
    <3>1. counter' = counter
      BY <1>0, <1>1, <1>c, <2>3
    <3>2. Covered(i)
      BY <1>0, <1>1, <2>3 DEF SInv, AllCovered, Pending
    <3>3. \A j \in Id : Covered(j)'
      BY <1>1, <2>1, <3>1, <3>2 DEF Covered
    <3>4. OneByte'
      BY <1>1, <1>b, <3>1 DEF OneByte
    <3> QED BY <1>1, <3>3, <3>4 DEF SInv, AllCovered, CallIsCurrent, ReadIsZero
  <2> QED BY <1>0, <2>2, <2>3 DEF Half
<1>2. CASE EnableFirst
  <2>1. /\ pc = "first" /\ pc' = "second" /\ age' = [age EXCEPT ![i] = 0]
        /\ UNCHANGED <<ticks, call, k>>
    BY <1>2 DEF EnableFirst
  <2>2. PICK h \in Half :
          counter' = [counter EXCEPT ![i] = WriteHalf(@, call.ticks, h)] /\ half' = Other(h)
    BY <1>2 DEF EnableFirst
  <2>3. call.ticks = ticks[i] /\ \A j \in Id : j # i => Covered(j)
    BY <2>1 DEF SInv, CallIsCurrent, AllCovered, Pending
  <2>4. CASE h = "lo"
    <3>1. counter' = [counter EXCEPT ![i] = call.ticks]
      BY <1>0, <1>c, <2>2, <2>4
    <3>2. \A j \in Id : Covered(j)'
      BY <1>0, <1>b, <2>1, <2>3, <3>1 DEF Covered
    <3>3. OneByte'
      BY <1>0, <1>b, <2>1, <3>1 DEF OneByte
    <3> QED BY <2>1, <2>3, <3>2, <3>3 DEF SInv, AllCovered, CallIsCurrent, ReadIsZero
  <2>5. CASE h = "hi"
    <3>1. counter' = counter /\ half' = "lo"
      BY <1>0, <1>c, <2>2, <2>5 DEF Other
    <3>2. Pending(i)' /\ \A j \in Id : j # i => Covered(j)'
      BY <1>0, <2>1, <2>3, <3>1 DEF Covered, Pending
    <3>3. OneByte'
      BY <1>b, <2>1, <3>1 DEF OneByte
    <3> QED BY <2>1, <2>3, <3>2, <3>3 DEF SInv, AllCovered, CallIsCurrent, ReadIsZero
  <2> QED BY <2>4, <2>5 DEF Half
<1>3. CASE EnableEnd
  BY <1>1, <1>3 DEF EnableEnd, Returned, NoCall, history
<1>4. CASE SetSecond
  BY <1>1, <1>4, <1>b DEF SetSecond, OneByte, history
<1>5. CASE SetEnd
  <2>1. /\ pc = "flags" /\ pc' \in {"update", "returned"} /\ call' = NoCall
        /\ UNCHANGED <<ticks, counter, age>>
    BY <1>5 DEF SetEnd, Returned
  <2>2. \A j \in Id : Covered(j)'
    BY <2>1 DEF SInv, AllCovered, Pending, Covered
  <2>3. OneByte'
    BY <1>b, <2>1 DEF OneByte, NoCall
  <2> QED BY <2>1, <2>2, <2>3 DEF SInv, AllCovered, CallIsCurrent, ReadIsZero
<1> QED BY <1>2, <1>3, <1>4, <1>5 DEF CallStep

LEMMA UpdateKeepsShort ==
  ASSUME ShortPeriods, TInv, SInv, Work \/ Update \/ UNCHANGED vars
  PROVE  SInv'
<1> USE DEF history, timerVars
<1>0. /\ counter \in [Id -> Count] /\ age \in [Id -> Nat] /\ half \in Half
  BY DEF TInv, TypeOK
<1>b. /\ OneByte
      /\ \A j \in Id : /\ counter[j] \in Nat /\ age[j] \in Nat
                      /\ ticks[j] \in Nat /\ ticks[j] < Base /\ counter[j] < Base
  BY ShortTypes DEF SInv, OneByte
<1>c. \A j \in Id : /\ WriteHalf(counter[j], ticks[j], "lo") = ticks[j]
                   /\ WriteHalf(counter[j], ticks[j], "hi") = counter[j]
                   /\ HalfOf(counter[j], "lo") = counter[j]
  BY <1>b, ShortHalves
<1>1. CASE UNCHANGED vars
  BY <1>1 DEF vars, SInv, OneByte, CallIsCurrent, AllCovered, ReadIsZero, Covered, Pending
<1>2. CASE \/ Work \/ UpdateBegin \/ ScanSkip \/ ScanNonzero \/ ScanZero
           \/ FireOnce \/ CallbackReturn \/ UpdateEnd
  BY <1>2, NothingCounted DEF Work, UpdateBegin, ScanSkip, ScanNonzero, ScanZero,
     FireOnce, CallbackReturn, UpdateEnd
<1>3. CASE ScanRead
  <2>1. /\ pc = "scan" /\ pc' = "read" /\ k \in Id
        /\ UNCHANGED <<ticks, counter, age, call, k>>
    BY <1>3 DEF ScanRead
  <2>2. ReadIsZero'
    BY <1>3, <1>c, <2>1 DEF ScanRead, Other, Half, ReadIsZero
  <2>3. OneByte' /\ CallIsCurrent' /\ AllCovered'
    BY <1>b, <2>1 DEF SInv, OneByte, CallIsCurrent, AllCovered, Covered, Pending
  <2> QED BY <2>2, <2>3 DEF SInv
<1>4. CASE ReloadFirst
  <2>1. /\ pc = "due" /\ pc' = "reload" /\ k \in Id /\ age' = [age EXCEPT ![k] = 0]
        /\ UNCHANGED <<ticks, call, k>>
    BY <1>4 DEF ReloadFirst, TInv, ScanAtTimer
  <2>2. PICK h \in Half :
          counter' = [counter EXCEPT ![k] = WriteHalf(@, ticks[k], h)] /\ half' = Other(h)
    BY <1>4 DEF ReloadFirst
  <2>3. \A j \in Id : Covered(j)
    BY <2>1 DEF SInv, AllCovered, Pending
  <2>4. CASE h = "lo"
    <3>1. counter' = [counter EXCEPT ![k] = ticks[k]]
      BY <1>0, <1>c, <2>1, <2>2, <2>4
    <3>2. \A j \in Id : Covered(j)'
      BY <1>0, <1>b, <2>1, <2>3, <3>1 DEF Covered
    <3>3. OneByte'
      BY <1>0, <1>b, <2>1, <3>1 DEF OneByte
    <3> QED BY <2>1, <3>2, <3>3 DEF SInv, AllCovered, CallIsCurrent, ReadIsZero
  <2>5. CASE h = "hi"
    <3>1. counter' = counter /\ half' = "lo"
      BY <1>0, <1>c, <2>1, <2>2, <2>5 DEF Other
    <3>2. Pending(k)' /\ \A j \in Id : j # k => Covered(j)'
      BY <1>0, <2>1, <2>3, <3>1 DEF Covered, Pending
    <3>3. OneByte'
      BY <1>b, <2>1, <3>1 DEF OneByte
    <3>4. AllCovered'
      BY <2>1, <3>2 DEF AllCovered, Pending
    <3> QED BY <2>1, <3>3, <3>4 DEF SInv, CallIsCurrent, ReadIsZero
  <2> QED BY <2>4, <2>5 DEF Half
<1>5. CASE ReloadSecond
  <2>1. /\ pc = "reload" /\ pc' = "callback" /\ k \in Id
        /\ counter' = [counter EXCEPT ![k] = WriteHalf(@, ticks[k], half)]
        /\ UNCHANGED <<ticks, call, k, age>>
    BY <1>5 DEF ReloadSecond, TInv, ScanAtTimer
  <2>2. \A j \in Id : j # k => Covered(j)
    BY <2>1 DEF SInv, AllCovered, Pending
  <2>3. CASE half = "lo"
    <3>1. counter' = [counter EXCEPT ![k] = ticks[k]]
      BY <1>0, <1>c, <2>1, <2>3
    <3>2. \A j \in Id : Covered(j)'
      BY <1>0, <1>b, <2>1, <2>2, <3>1 DEF Covered
    <3>3. OneByte'
      BY <1>0, <1>b, <2>1, <3>1 DEF OneByte
    <3> QED BY <2>1, <3>2, <3>3 DEF SInv, AllCovered, CallIsCurrent, ReadIsZero
  <2>4. CASE half = "hi"
    <3>1. counter' = counter
      BY <1>0, <1>c, <2>1, <2>4
    <3>2. Covered(k)
      BY <2>1, <2>4 DEF SInv, AllCovered, Pending
    <3>3. \A j \in Id : Covered(j)'
      BY <2>1, <2>2, <3>1, <3>2 DEF Covered
    <3>4. OneByte'
      BY <1>b, <2>1, <3>1 DEF OneByte
    <3> QED BY <2>1, <3>3, <3>4 DEF SInv, AllCovered, CallIsCurrent, ReadIsZero
  <2> QED BY <1>0, <2>3, <2>4 DEF Half
<1> QED BY <1>1, <1>2, <1>3, <1>4, <1>5 DEF Update

LEMMA ShortInvariant ==
  ASSUME ShortPeriods
  PROVE  Spec => [](TInv /\ SInv)
<1>1. Init => SInv
  <2>1. Base > 0
    BY TimersAssumption
  <2> QED BY <2>1 DEF Init, SInv, OneByte, CallIsCurrent, AllCovered, Covered, ReadIsZero, NoCall
<1>2. TInv /\ SInv /\ [Next]_vars => SInv'
  BY TickKeepsShort, CallKeepsShort, CallStepKeepsShort, UpdateKeepsShort DEF Next, Main
<1> QED BY <1>1, <1>2, TypeInvariant, PTL DEF Spec

\* With periods of one byte timer_update() keeps what its comment says: no
\* timer fires before its ticks have passed, whichever half of a counter is
\* read or written first and wherever the interrupt falls.  (The firmware's
\* own periods take two bytes; TimersEarly shows what happens with those.)
THEOREM ShortNeverEarly ==
  ASSUME ShortPeriods
  PROVE  Spec => NoEarlyFire
<1>1. TInv /\ SInv /\ [Next]_vars => [pc = "read" /\ pc' = "due" => age[k] >= ticks[k]]_vars
  <2> SUFFICES ASSUME TInv, SInv, Next, pc = "read", pc' = "due"
               PROVE  age[k] >= ticks[k]
    OBVIOUS
  <2>1. ScanZero
    BY DEF Next, Main, Tick, Work, Call, Add, SetBegin, EnableBegin, Remove, Disable, MayCall,
           CallStep, EnableFirst, EnableEnd, SetSecond, SetEnd, Update, UpdateBegin, ScanSkip,
           ScanRead, ScanNonzero, FireOnce, ReloadFirst, ReloadSecond, CallbackReturn, UpdateEnd
  <2>2. k \in Id /\ half \in Half
    BY DEF TInv, TypeOK, ScanAtTimer
  <2>3. counter[k] \in Nat /\ counter[k] < Base /\ age[k] \in Nat /\ ticks[k] \in Nat
    BY <2>2, ShortTypes DEF SInv, OneByte
  <2>4. counter[k] = 0
    BY <2>1, <2>2, <2>3, ShortHalves DEF ScanZero, Half, SInv, ReadIsZero
  <2>5. Covered(k)
    BY <2>2 DEF SInv, AllCovered, Pending
  <2> QED BY <2>3, <2>4, <2>5 DEF Covered
<1> QED BY <1>1, ShortInvariant, PTL DEF Spec, NoEarlyFire

\* Every enabled timer has an owner and a function to call, although
\* timer_enable() checks neither.
THEOREM EnabledOwned == Spec => []EnabledIsOwned
<1>1. IInv => EnabledIsOwned
  BY DEF IInv
<1> QED BY <1>1, TimersInvariant, PTL

\* No timer fires that was not started, or has fired or been stopped since.
THEOREM OnlyArmedFire == Spec => FiresOnlyArmed
<1>1. IInv /\ [Next]_vars => [pc = "read" /\ pc' = "due" => armed[k]]_vars
  BY DEF IInv, ScannedIsRunning, RunningIsArmed
<1> QED BY <1>1, TimersInvariant, PTL DEF Spec, FiresOnlyArmed
=============================================================================
