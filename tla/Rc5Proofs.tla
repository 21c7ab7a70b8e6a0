------------------------------ MODULE Rc5Proofs ------------------------------
(***************************************************************************)
(* The RC5 decoder does not hang in a frame, leaves nothing of one behind  *)
(* and decodes each undisturbed frame exactly once, bit by bit: for frames *)
(* of every length, every clock tolerance the thresholds allow, every      *)
(* width of the tick counter and any amount of noise before.               *)
(***************************************************************************)
EXTENDS Rc5, SequenceTheorems, TLAPS

\* NotStuck speaks of a counter that wraps: it needs the counter's range,
\* and the timer interrupt, which resets the decoder as soon as the counter
\* passes the timeout, before it can wrap.
TickCntInRange == tickCnt \in 0 .. TickMod - 1

IInv == TickCntInRange /\ NotStuck /\ IdleIsClean

\* The decoder's own state, without the mailbox.
decoding == <<state, bitCnt, tickCnt, data>>

\* The timer interrupt.
LEMMA TimerKeepsInv ==
  ASSUME IInv, TimerIsr
  PROVE  IInv'
<1> USE Rc5Assumption DEF ToggleTimeout
<1>1. tickCnt' = (tickCnt + 1) % TickMod /\ TickCntInRange'
  BY DEF IInv, TickCntInRange, TimerIsr
<1>2. CASE tickCnt' > ToggleTimeout
  <2>1. state' = "IDLE" /\ bitCnt' = 0 /\ data' = 0
    BY <1>2 DEF TimerIsr, ResetCtx
  <2> QED BY <1>1, <2>1 DEF IInv, NotStuck, IdleIsClean
<1>3. CASE ~(tickCnt' > ToggleTimeout)
  <2>1. UNCHANGED <<state, bitCnt, data>>
    BY <1>3 DEF TimerIsr
  <2>2. tickCnt' <= ToggleTimeout
    BY <1>1, <1>3 DEF TickCntInRange
  <2> QED BY <1>1, <2>1, <2>2 DEF IInv, NotStuck, IdleIsClean
<1> QED BY <1>2, <1>3

\* The pin interrupt, in whatever state and at whatever level it finds the
\* line: it leaves a frame only by resetting all, and goes on with one only
\* with the counter as it was or at zero.
LEMMA EdgeKeepsInv ==
  ASSUME IInv, NEW p \in {0, 1}, EdgeIsr(p)
  PROVE  IInv'
<1> USE Rc5Assumption DEF IInv, TickCntInRange, NotStuck, IdleIsClean,
                          ToggleTimeout, StartThreshold, PulseDuration
<1>1. CASE EdgeIdle
  BY <1>1 DEF EdgeIdle
<1>2. CASE EdgeStart(p)
  BY <1>2 DEF EdgeStart, ResetCtx, Sample
<1>3. CASE EdgeSync(p)
  BY <1>3 DEF EdgeSync, ResetCtx, Sample
<1>4. CASE EdgeFinish
  BY <1>4 DEF EdgeFinish, ResetCtx
<1> QED BY <1>1, <1>2, <1>3, <1>4 DEF EdgeIsr

\* A step that does not touch the decoder.
LEMMA QuietKeepsInv ==
  ASSUME IInv, UNCHANGED decoding
  PROVE  IInv'
BY DEF IInv, TickCntInRange, NotStuck, IdleIsClean, decoding

\* A level the remote control gives the line, edge or not.
LEMMA LevelKeepsInv ==
  ASSUME IInv, NEW p \in {0, 1}, Level(p)
  PROVE  IInv'
<1>1. CASE EdgeIsr(p)
  BY <1>1, EdgeKeepsInv
<1>2. CASE UNCHANGED decoder
  BY <1>2, QuietKeepsInv DEF decoder, decoding
<1> QED BY <1>1, <1>2 DEF Level

-----------------------------------------------------------------------------
(* Types.                                                                  *)

\* TypeOK by parts, the decoder's and the line's.  The bit counter stays in
\* its range because a frame's first bit finds it at zero and only a frame
\* that lacks a bit is given one.
DecoderInRange ==
  /\ state \in {"IDLE", "START", "SYNC", "FINISH"}
  /\ bitCnt \in 0 .. FrameBits
  /\ data \in Word
  /\ mailbox \in Seq(Word) /\ Len(mailbox) <= 1
  /\ got \in Seq(Word)
  /\ state = "START" => bitCnt = 0
  /\ state = "SYNC" => bitCnt < FrameBits

LineInRange ==
  /\ pin \in {0, 1}
  /\ part \in {"gap", "first", "second"}
  /\ bit \in {0, 1}
  /\ length \in 0 .. HalfMax
  /\ sent \in Nat
  /\ n \in 0 .. FrameBits + 1
  /\ quiet \in 0 .. ToggleTimeout + 1
  /\ noise \in 0 .. NoiseMax
  /\ part = "first" => n <= FrameBits
  /\ part = "second" => n > 0

TInv == IInv /\ DecoderInRange /\ LineInRange

LEMMA TInvType == TInv => TypeOK
BY DEF TInv, IInv, TickCntInRange, DecoderInRange, LineInRange, TypeOK

LEMMA RestIsWord ==
  ASSUME NEW x \in Nat
  PROVE  x % 65536 \in Word
<1> DEFINE m == 65535
           r == x % 65536
<1>1. r \in Int /\ 0 <= r /\ r < 65536
  OBVIOUS
<1>2. m \in Int /\ m + 1 = 65536
  OBVIOUS
<1>3. Word = 0 .. m
  BY DEF Word
<1> HIDE DEF m, r
<1>4. r \in Word
  BY <1>1, <1>2, <1>3
<1> QED BY <1>4 DEF r

LEMMA WordIsNat ==
  \A w \in Word : w \in Nat
<1> DEFINE m == 65535
<1>1. m \in Int
  OBVIOUS
<1>2. Word = 0 .. m
  BY DEF Word
<1> HIDE DEF m
<1> QED BY <1>1, <1>2

LEMMA ShiftedWord ==
  ASSUME NEW p \in {0, 1}, data \in Word
  PROVE  Shifted(p) \in Word
<1>1. data \in Nat
  BY WordIsNat
<1>2. 2 * data + (1 - p) \in Nat
  BY <1>1
<1> QED BY <1>2, RestIsWord DEF Shifted

\* The timer interrupt and types.
LEMMA TimerKeepsType ==
  ASSUME DecoderInRange, TimerIsr
  PROVE  DecoderInRange'
<1>0. mailbox' = mailbox /\ got' = got
  BY DEF TimerIsr
<1>1. CASE ResetCtx
  <2>1. state' = "IDLE" /\ bitCnt' = 0 /\ data' \in Word
    BY <1>1 DEF ResetCtx, Word
  <2> QED BY <2>1, <1>0, Rc5Assumption DEF DecoderInRange
<1>2. CASE UNCHANGED <<state, bitCnt, data>>
  BY <1>2, <1>0 DEF DecoderInRange
<1> QED BY <1>1, <1>2 DEF TimerIsr

\* The pin interrupt and types.
LEMMA EdgeKeepsType ==
  ASSUME IInv, DecoderInRange, NEW p \in {0, 1}, EdgeIsr(p)
  PROVE  DecoderInRange'
<1> DEFINE shifted == Shifted(p)
<1>0. shifted \in Word
  BY ShiftedWord DEF DecoderInRange
<1>a. /\ <<shifted>> \in Seq(Word) /\ Len(<<shifted>>) = 1
      /\ Append(got, shifted) \in Seq(Word)
  BY <1>0, AppendProperties DEF DecoderInRange
<1>b. Sample(p) => data' = shifted /\ bitCnt' = bitCnt + 1
  BY DEF Sample
<1>c. ResetCtx => state' = "IDLE" /\ bitCnt' = 0 /\ data' \in Word
  BY DEF ResetCtx, Word
<1>d. bitCnt \in Nat /\ FrameBits \in Nat /\ FrameBits > 1
  BY Rc5Assumption DEF DecoderInRange
<1>1. CASE EdgeIdle
  BY <1>1, <1>d DEF EdgeIdle, DecoderInRange, IInv, IdleIsClean
<1>2. CASE EdgeStart(p)
  BY <1>2, <1>0, <1>b, <1>c, <1>d DEF EdgeStart, DecoderInRange
<1>3. CASE EdgeSync(p)
  <2>1. CASE UNCHANGED <<state, bitCnt, tickCnt, data, mailbox, got>>
    BY <2>1 DEF DecoderInRange
  <2>2. CASE bitCnt + 1 < FrameBits /\ Sample(p) /\ UNCHANGED <<state, mailbox, got>>
    BY <2>2, <1>0, <1>b, <1>d, <1>3 DEF DecoderInRange, EdgeSync
  <2>3. CASE /\ bitCnt + 1 = FrameBits
             /\ mailbox' = <<shifted>>
             /\ got' = Append(got, shifted)
             /\ ResetCtx \/ (Sample(p) /\ state' = "FINISH")
    BY <2>3, <1>0, <1>a, <1>b, <1>c, <1>d DEF DecoderInRange
  <2> QED BY <1>3, <2>1, <2>2, <2>3 DEF EdgeSync
<1>4. CASE EdgeFinish
  BY <1>4, <1>c, <1>d DEF EdgeFinish, DecoderInRange
<1> QED BY <1>1, <1>2, <1>3, <1>4 DEF EdgeIsr

LEMMA LevelKeepsType ==
  ASSUME IInv, DecoderInRange, NEW p \in {0, 1}, Level(p)
  PROVE  DecoderInRange'
<1>1. CASE EdgeIsr(p)
  BY <1>1, EdgeKeepsType
<1>2. CASE UNCHANGED <<decoder, got>>
  BY <1>2 DEF decoder, DecoderInRange
<1> QED BY <1>1, <1>2 DEF Level

\* What a level on the line does to the line.
LEMMA LevelOfLine ==
  ASSUME LineInRange, NEW p \in {0, 1}, Level(p)
  PROVE  pin' = p /\ quiet' \in 0 .. ToggleTimeout + 1
BY DEF Level, LineInRange, ToggleTimeout

LEMMA DecoderInvariant == Spec => []TInv
<1>1. Init => TInv
  <2> SUFFICES ASSUME Init PROVE TInv
    OBVIOUS
  <2>1. IInv
    BY Rc5Assumption DEF Init, IInv, TickCntInRange, NotStuck, IdleIsClean,
                         ToggleTimeout
  <2>2. DecoderInRange
    <3>1. <<>> \in Seq(Word) /\ Len(<<>>) = 0
      BY EmptySeq
    <3> QED BY <3>1, Rc5Assumption DEF Init, DecoderInRange, Word
  <2>3. LineInRange
    BY Rc5Assumption DEF Init, LineInRange, ToggleTimeout
  <2> QED BY <2>1, <2>2, <2>3 DEF TInv
<1>2. TInv /\ [Next]_vars => TInv'
  <2> SUFFICES ASSUME TInv, [Next]_vars
               PROVE  TInv'
    OBVIOUS
  <2>a. IInv /\ DecoderInRange /\ LineInRange
    BY DEF TInv
  <2>b. 1 - bit \in {0, 1}
    BY <2>a DEF LineInRange
  <2>1. CASE Tick
    <3>1. IInv' /\ DecoderInRange'
      BY <2>1, <2>a, TimerKeepsInv, TimerKeepsType DEF Tick
    <3>2. LineInRange'
      BY <2>1, <2>a, Rc5Assumption DEF Tick, LineInRange, ToggleTimeout
    <3> QED BY <3>1, <3>2 DEF TInv
  <2>2. CASE FrameBegin
    <3>1. IInv'
      BY <2>2, <2>a, QuietKeepsInv DEF FrameBegin, decoder, decoding
    <3>2. DecoderInRange'
      <4>1. <<>> \in Seq(Word)
        BY EmptySeq
      <4> QED BY <2>2, <2>a, <4>1 DEF FrameBegin, decoder, DecoderInRange
    <3>3. LineInRange'
      BY <2>2, <2>a, Rc5Assumption DEF FrameBegin, LineInRange
    <3> QED BY <3>1, <3>2, <3>3 DEF TInv
  <2>3. CASE BitMiddle
    <3>1. IInv' /\ DecoderInRange'
      BY <2>3, <2>a, <2>b, LevelKeepsInv, LevelKeepsType DEF BitMiddle
    <3>2. pin' = 1 - bit /\ quiet' \in 0 .. ToggleTimeout + 1
      BY <2>3, <2>a, <2>b, LevelOfLine DEF BitMiddle
    <3>3. LineInRange'
      BY <2>3, <2>a, <2>b, <3>2, Rc5Assumption DEF BitMiddle, LineInRange
    <3> QED BY <3>1, <3>3 DEF TInv
  <2>4. ASSUME NEW b \in {0, 1}, BitBegin(b)
        PROVE  TInv'
    <3>1. IInv' /\ DecoderInRange'
      BY <2>4, <2>a, LevelKeepsInv, LevelKeepsType DEF BitBegin
    <3>2. pin' = b /\ quiet' \in 0 .. ToggleTimeout + 1
      BY <2>4, <2>a, LevelOfLine DEF BitBegin
    <3>3. LineInRange'
      BY <2>4, <2>a, <3>2, Rc5Assumption DEF BitBegin, LineInRange
    <3> QED BY <3>1, <3>3 DEF TInv
  <2>5. CASE FrameEnd
    <3>1. IInv' /\ DecoderInRange'
      BY <2>5, <2>a, LevelKeepsInv, LevelKeepsType DEF FrameEnd
    <3>2. pin' = 1 /\ quiet' \in 0 .. ToggleTimeout + 1
      BY <2>5, <2>a, LevelOfLine DEF FrameEnd
    <3>3. LineInRange'
      BY <2>5, <2>a, <3>2, Rc5Assumption DEF FrameEnd, LineInRange
    <3> QED BY <3>1, <3>3 DEF TInv
  <2>6. ASSUME NEW p \in {0, 1}, Noise(p)
        PROVE  TInv'
    <3>1. IInv' /\ DecoderInRange'
      BY <2>6, <2>a, EdgeKeepsInv, EdgeKeepsType DEF Noise
    <3>2. LineInRange'
      BY <2>6, <2>a, Rc5Assumption DEF Noise, LineInRange, ToggleTimeout
    <3> QED BY <3>1, <3>2 DEF TInv
  <2>7. CASE Take
    <3>1. IInv'
      BY <2>7, <2>a, QuietKeepsInv DEF Take, decoding
    <3>2. DecoderInRange'
      <4>1. <<>> \in Seq(Word) /\ Len(<<>>) = 0
        BY EmptySeq
      <4> QED BY <2>7, <2>a, <4>1 DEF Take, DecoderInRange
    <3>3. LineInRange'
      BY <2>7, <2>a DEF Take, line, LineInRange
    <3> QED BY <3>1, <3>2, <3>3 DEF TInv
  <2>8. CASE UNCHANGED vars
    <3>1. IInv'
      BY <2>8, <2>a, QuietKeepsInv DEF vars, decoder, decoding
    <3>2. DecoderInRange' /\ LineInRange'
      BY <2>8, <2>a DEF vars, decoder, line, DecoderInRange, LineInRange
    <3> QED BY <3>1, <3>2 DEF TInv
  <2> QED BY <2>1, <2>2, <2>3, <2>4, <2>5, <2>6, <2>7, <2>8 DEF Next
<1> QED BY <1>1, <1>2, PTL DEF Spec

-----------------------------------------------------------------------------
(* Frames.  Where the decoder is in a frame that no noise has disturbed     *)
(* yet, for each place the remote control may be at.                       *)

\* A quiet line ends every frame, so the next one finds an idle decoder.
QuietEndsFrames == state # "IDLE" => quiet <= tickCnt

\* The last edge used was the one in the middle of the bit before.
MiddleUsed == tickCnt - length \in HalfMin .. HalfMax

\* The first half of the start bit, which looks like the gap.
StartFirst ==
  /\ part = "first" /\ n = 0
  /\ state = "IDLE" /\ pin = 1 /\ bit = 1
  /\ got = <<>>

StartSecond ==
  /\ part = "second" /\ n = 1
  /\ state = "START" /\ pin = 0 /\ bit = 1
  /\ tickCnt = length
  /\ data = 0
  /\ sent = 0 /\ got = <<>>

\* The first data bit is a 1, which began with an edge, or a 0, which did not.
FirstIsOne ==
  /\ part = "first" /\ n = 1
  /\ state = "SYNC" /\ pin = 1 /\ bit = 1
  /\ MiddleUsed
  /\ bitCnt = 0 /\ data = 0
  /\ sent = 0 /\ got = <<>>

FirstIsZero ==
  /\ part = "first" /\ n = 1
  /\ state = "START" /\ pin = 0 /\ bit = 0
  /\ MiddleUsed
  /\ data = 0
  /\ sent = 0 /\ got = <<>>

\* From the second data bit on the decoder holds exactly the bits sent.
AllHeld ==
  /\ n \in 2 .. FrameBits
  /\ state = "SYNC" /\ bitCnt = n - 1
  /\ data = sent % 65536
  /\ got = <<>>

BitSecond == part = "second" /\ pin = 1 - bit /\ tickCnt = length /\ AllHeld

BitFirst == part = "first" /\ pin = bit /\ MiddleUsed /\ AllHeld

Decoded ==
  /\ n = FrameBits + 1
  /\ got = <<sent % 65536>>

LastSecond == part = "second" /\ state \in {"IDLE", "FINISH"} /\ Decoded

InGap == part = "gap" /\ (n = FrameBits + 1 => Decoded)

InStep ==
  \/ StartFirst \/ StartSecond \/ FirstIsOne \/ FirstIsZero
  \/ BitSecond \/ BitFirst \/ LastSecond \/ InGap

FrameInv == QuietEndsFrames /\ (noise = 0 => InStep)

FInv == TInv /\ FrameInv

LEMMA RestOfShift ==
  ASSUME NEW x \in Nat, NEW b \in {0, 1}
  PROVE  (2 * (x % 65536) + b) % 65536 = (2 * x + b) % 65536
OBVIOUS

LEMMA RestOfSmall ==
  ASSUME NEW b \in {0, 1}
  PROVE  b % 65536 = b
OBVIOUS

\* What the lemmas below need to know of the types.
LEMMA SmallTypes ==
  ASSUME TInv
  PROVE  /\ tickCnt \in Nat /\ tickCnt < TickMod
         /\ length \in Nat /\ length <= HalfMax
         /\ n \in Nat /\ sent \in Nat /\ noise \in Nat /\ quiet \in Nat
         /\ bit \in {0, 1} /\ pin \in {0, 1}
         /\ 1 - bit \in {0, 1}
         /\ bitCnt \in Nat
         /\ state = "IDLE" => bitCnt = 0 /\ data = 0
         /\ state = "START" => bitCnt = 0
         /\ FrameBits \in Nat /\ FrameBits > 1
         /\ HalfMin \in Nat /\ HalfMax \in Nat
         /\ 7 <= HalfMin /\ 12 < 2 * HalfMin
         /\ HalfMax < 12 /\ 2 * HalfMax <= 20
         /\ TickMod \in Nat /\ TickMod > 21
BY Rc5Assumption DEF TInv, IInv, TickCntInRange, IdleIsClean, DecoderInRange,
     LineInRange, PulseDuration, StartThreshold, ToggleTimeout

\* Within a frame a tick only counts.
LEMMA TickCounts ==
  ASSUME TInv, Tick, part # "gap", tickCnt - length \in 0 .. HalfMax
  PROVE  /\ tickCnt' = tickCnt + 1
         /\ length' = length + 1
         /\ UNCHANGED <<state, bitCnt, data>>
<1>1. length < HalfMax /\ length' = length + 1
  BY DEF Tick
<1>2. tickCnt + 1 <= 20 /\ tickCnt + 1 \in Nat
  BY <1>1, SmallTypes
<1>3. (tickCnt + 1) % TickMod = tickCnt + 1
  BY <1>2, SmallTypes
<1>4. tickCnt' = tickCnt + 1 /\ ~(tickCnt' > ToggleTimeout)
  BY <1>2, <1>3 DEF Tick, TimerIsr, ToggleTimeout
<1>5. UNCHANGED <<state, bitCnt, data>>
  BY <1>4 DEF Tick, TimerIsr
<1> QED BY <1>1, <1>4, <1>5

LEMMA TickKeepsStep ==
  ASSUME TInv, Tick, InStep
  PROVE  InStep'
<1>0. UNCHANGED <<pin, part, bit, sent, n, got>>
  BY DEF Tick, TimerIsr
<1>1. CASE StartFirst
  <2>1. state' = "IDLE"
    BY <1>1 DEF StartFirst, Tick, TimerIsr, ResetCtx
  <2> QED BY <1>0, <1>1, <2>1 DEF StartFirst, InStep
<1>2. CASE LastSecond
  <2>1. state' \in {"IDLE", "FINISH"}
    BY <1>2 DEF LastSecond, Tick, TimerIsr, ResetCtx
  <2> QED BY <1>0, <1>2, <2>1 DEF LastSecond, Decoded, InStep
<1>3. CASE InGap
  BY <1>0, <1>3 DEF InGap, Decoded, InStep
<1>4. CASE StartSecond \/ BitSecond
  <2>1. tickCnt = length /\ part # "gap"
    BY <1>4 DEF StartSecond, BitSecond
  <2>2. tickCnt - length \in 0 .. HalfMax
    BY <2>1, SmallTypes
  <2>3. /\ tickCnt' = tickCnt + 1 /\ length' = length + 1
        /\ UNCHANGED <<state, bitCnt, data>>
    BY <2>1, <2>2, TickCounts
  <2>4. tickCnt' = length'
    BY <2>1, <2>3
  <2> QED BY <1>0, <1>4, <2>3, <2>4 DEF StartSecond, BitSecond, AllHeld, InStep
<1>5. CASE FirstIsOne \/ FirstIsZero \/ BitFirst
  <2>1. MiddleUsed /\ part # "gap"
    BY <1>5 DEF FirstIsOne, FirstIsZero, BitFirst
  <2>2. tickCnt - length \in 0 .. HalfMax
    BY <2>1, SmallTypes DEF MiddleUsed
  <2>3. /\ tickCnt' = tickCnt + 1 /\ length' = length + 1
        /\ UNCHANGED <<state, bitCnt, data>>
    BY <2>1, <2>2, TickCounts
  <2>4. tickCnt' - length' = tickCnt - length
    BY <2>3, SmallTypes
  <2>5. MiddleUsed'
    BY <2>1, <2>4 DEF MiddleUsed
  <2> QED BY <1>0, <1>5, <2>3, <2>5
            DEF FirstIsOne, FirstIsZero, BitFirst, AllHeld, InStep
<1> QED BY <1>1, <1>2, <1>3, <1>4, <1>5 DEF InStep

\* The standard's gap is longer than the timeout: a frame finds the decoder
\* idle, whatever came before.
LEMMA FrameBeginsInStep ==
  ASSUME TInv, QuietEndsFrames, FrameBegin
  PROVE  InStep'
<1>1. state = "IDLE"
  <2> SUFFICES ASSUME state # "IDLE" PROVE FALSE
    OBVIOUS
  <2>1. quiet <= tickCnt /\ tickCnt <= ToggleTimeout
    BY DEF QuietEndsFrames, TInv, IInv, NotStuck
  <2>2. quiet > ToggleTimeout
    BY DEF FrameBegin
  <2> QED BY <2>1, <2>2, SmallTypes DEF ToggleTimeout
<1> QED BY <1>1 DEF FrameBegin, decoder, StartFirst, InStep

\* What an edge does in each state.
LEMMA EdgeByState ==
  ASSUME NEW p, EdgeIsr(p)
  PROVE  /\ state = "IDLE" => EdgeIdle
         /\ state = "START" => EdgeStart(p)
         /\ state = "SYNC" => EdgeSync(p)
         /\ state = "FINISH" => EdgeFinish
BY DEF EdgeIsr, EdgeIdle, EdgeStart, EdgeSync, EdgeFinish

\* What the ticks since the last sample decide: an edge soon after it is the
\* border of two bits, a later one the middle of a bit.
LEMMA EarlyEdge ==
  ASSUME NEW p, tickCnt \in Nat, tickCnt >= PulseDuration, tickCnt < StartThreshold
  PROVE  /\ EdgeStart(p) => state' = "SYNC" /\ UNCHANGED <<bitCnt, tickCnt, data, got>>
         /\ EdgeSync(p) => UNCHANGED <<state, bitCnt, tickCnt, data, got>>
<1>1. /\ ~(tickCnt < PulseDuration) /\ ~(tickCnt > StartThreshold)
      /\ ~(tickCnt >= StartThreshold)
  BY DEF PulseDuration, StartThreshold
<1> QED BY <1>1 DEF EdgeStart, EdgeSync

LEMMA LateEdge ==
  ASSUME NEW p, tickCnt \in Nat, tickCnt > StartThreshold
  PROVE  /\ EdgeStart(p) => Sample(p) /\ state' = "SYNC" /\ UNCHANGED <<mailbox, got>>
         /\ EdgeSync(p) /\ bitCnt + 1 # FrameBits =>
              Sample(p) /\ UNCHANGED <<state, mailbox, got>>
<1>1. /\ ~(tickCnt < PulseDuration) /\ ~(tickCnt < StartThreshold)
      /\ tickCnt \notin PulseDuration .. StartThreshold
  BY DEF PulseDuration, StartThreshold
<1> QED BY <1>1 DEF EdgeStart, EdgeSync

LEMMA SampleOf ==
  ASSUME NEW b \in {0, 1}, Sample(1 - b)
  PROVE  tickCnt' = 0 /\ data' = (2 * data + b) % 65536 /\ bitCnt' = bitCnt + 1
<1>1. 1 - (1 - b) = b
  OBVIOUS
<1> QED BY <1>1 DEF Sample, Shifted

LEMMA MiddleKeepsStep ==
  ASSUME TInv, InStep, BitMiddle
  PROVE  InStep'
<1>0. /\ part = "first" /\ length >= HalfMin
      /\ part' = "second" /\ length' = 0
      /\ sent' = IF n = 0 THEN 0 ELSE 2 * sent + bit
      /\ n' = n + 1 /\ bit' = bit
      /\ pin' = 1 - bit
  BY DEF BitMiddle, Level
<1>a. pin # 1 - bit => EdgeIsr(1 - bit)
  BY DEF BitMiddle, Level
<1>b. MiddleUsed => tickCnt > StartThreshold
  BY <1>0, SmallTypes DEF MiddleUsed, StartThreshold
<1>1. CASE StartFirst
  <2>1. EdgeIdle
    BY <1>1, <1>a, EdgeByState DEF StartFirst
  <2>2. StartSecond'
    BY <1>0, <1>1, <2>1, SmallTypes DEF StartFirst, StartSecond, EdgeIdle
  <2> QED BY <2>2 DEF InStep
<1>2. CASE FirstIsOne
  <2>1. EdgeSync(0) /\ 1 - bit = 0
    BY <1>2, <1>a, EdgeByState DEF FirstIsOne
  <2>2. Sample(1 - bit) /\ UNCHANGED <<state, mailbox, got>>
    <3>1. tickCnt \in Nat /\ tickCnt > StartThreshold
      BY <1>2, <1>b, SmallTypes DEF FirstIsOne
    <3>2. bitCnt + 1 # FrameBits
      BY <1>2, SmallTypes DEF FirstIsOne
    <3> QED BY <2>1, <3>1, <3>2, LateEdge
  <2>3. tickCnt' = 0 /\ data' = (2 * 0 + 1) % 65536 /\ bitCnt' = 1
    BY <2>2, <1>2, SampleOf, SmallTypes DEF FirstIsOne
  <2>4. sent' = 2 * 0 + 1 /\ n' = 2 /\ FrameBits > 1 /\ FrameBits \in Nat
    BY <1>0, <1>2, SmallTypes DEF FirstIsOne
  <2>5. BitSecond'
    BY <1>0, <1>2, <2>2, <2>3, <2>4 DEF FirstIsOne, BitSecond, AllHeld
  <2> QED BY <2>5 DEF InStep
<1>3. CASE FirstIsZero
  <2>1. EdgeStart(1) /\ 1 - bit = 1
    BY <1>3, <1>a, EdgeByState DEF FirstIsZero
  <2>2. Sample(1 - bit) /\ state' = "SYNC" /\ UNCHANGED <<mailbox, got>>
    <3>1. tickCnt \in Nat /\ tickCnt > StartThreshold
      BY <1>3, <1>b, SmallTypes DEF FirstIsZero
    <3> QED BY <2>1, <3>1, LateEdge
  <2>3. tickCnt' = 0 /\ data' = (2 * 0 + 0) % 65536 /\ bitCnt' = 1
    BY <2>2, <1>3, SampleOf, SmallTypes DEF FirstIsZero
  <2>4. sent' = 2 * 0 + 0 /\ n' = 2 /\ FrameBits > 1 /\ FrameBits \in Nat
    BY <1>0, <1>3, SmallTypes DEF FirstIsZero
  <2>5. BitSecond'
    BY <1>0, <1>3, <2>2, <2>3, <2>4 DEF FirstIsZero, BitSecond, AllHeld
  <2> QED BY <2>5 DEF InStep
<1>4. CASE BitFirst
  <2>1. EdgeSync(1 - bit)
    <3>1. state = "SYNC" /\ pin = bit
      BY <1>4 DEF BitFirst, AllHeld
    <3>2. pin # 1 - bit
      BY <3>1, SmallTypes
    <3>3. EdgeIsr(1 - bit)
      BY <1>a, <3>2
    <3> QED BY <3>1, <3>3, EdgeByState
  <2>2. tickCnt >= StartThreshold /\ ~(tickCnt < StartThreshold)
    <3>1. tickCnt > StartThreshold
      BY <1>4, <1>b DEF BitFirst
    <3>2. tickCnt \in Nat
      BY SmallTypes
    <3> QED BY <3>1, <3>2 DEF StartThreshold
  <2>3. Shifted(1 - bit) = sent' % 65536
    <3>1. Shifted(1 - bit) = (2 * (sent % 65536) + bit) % 65536
      <4>1. 1 - (1 - bit) = bit
        BY SmallTypes
      <4> QED BY <1>4, <4>1 DEF BitFirst, AllHeld, Shifted
    <3>2. sent' = 2 * sent + bit
      BY <1>0, <1>4, SmallTypes DEF BitFirst, AllHeld
    <3>3. (2 * (sent % 65536) + bit) % 65536 = (2 * sent + bit) % 65536
      BY RestOfShift, SmallTypes
    <3> QED BY <3>1, <3>2, <3>3
  <2>4. CASE bitCnt + 1 < FrameBits
    <3>0. bitCnt + 1 # FrameBits
      BY <2>4, SmallTypes
    <3>1. Sample(1 - bit) /\ UNCHANGED <<state, mailbox, got>>
      BY <2>1, <2>2, <3>0 DEF EdgeSync
    <3>2. tickCnt' = 0 /\ data' = sent' % 65536 /\ bitCnt' = bitCnt + 1
      BY <3>1, <2>3 DEF Sample
    <3>3. bitCnt' = n' - 1 /\ n' \in 2 .. FrameBits
      <4>1. bitCnt = n - 1 /\ n \in 2 .. FrameBits /\ n' = n + 1
        BY <1>0, <1>4 DEF BitFirst, AllHeld
      <4>2. FrameBits \in Nat
        BY SmallTypes
      <4> QED BY <2>4, <3>2, <4>1, <4>2
    <3>4. AllHeld'
      BY <1>4, <3>1, <3>2, <3>3 DEF BitFirst, AllHeld
    <3>5. BitSecond'
      BY <1>0, <3>2, <3>4 DEF BitSecond
    <3> QED BY <3>5 DEF InStep
  <2>5. CASE bitCnt + 1 = FrameBits
    <3>0. ~(bitCnt + 1 < FrameBits)
      BY <2>5, SmallTypes
    <3>1. got' = Append(got, Shifted(1 - bit)) /\ state' \in {"IDLE", "FINISH"}
      BY <2>1, <2>2, <3>0 DEF EdgeSync, ResetCtx
    <3>2. got' = <<sent' % 65536>>
      BY <3>1, <2>3, <1>4 DEF BitFirst, AllHeld
    <3>3. n' = FrameBits + 1
      BY <1>0, <1>4, <2>5, SmallTypes DEF BitFirst, AllHeld
    <3>4. Decoded'
      BY <3>2, <3>3 DEF Decoded
    <3>5. LastSecond'
      BY <1>0, <3>1, <3>4 DEF LastSecond
    <3> QED BY <3>5 DEF InStep
  <2> QED BY <2>1, <2>2, <2>4, <2>5 DEF EdgeSync
<1> QED BY <1>0, <1>1, <1>2, <1>3, <1>4
          DEF InStep, StartSecond, BitSecond, LastSecond, InGap

LEMMA BeginKeepsStep ==
  ASSUME TInv, InStep, NEW b \in {0, 1}, BitBegin(b)
  PROVE  InStep'
<1>0. /\ part = "second" /\ n <= FrameBits /\ length >= HalfMin
      /\ part' = "first" /\ bit' = b /\ length' = 0
      /\ UNCHANGED <<sent, n>>
      /\ pin' = b
  BY DEF BitBegin, Level
<1>a. pin # b => EdgeIsr(b)
  BY DEF BitBegin, Level
<1>b. pin = b => UNCHANGED <<decoder, got>>
  <2>1. Level(b)
    BY DEF BitBegin
  <2> QED BY <2>1 DEF Level, decoder
<1>c. tickCnt = length => /\ tickCnt - 0 \in HalfMin .. HalfMax
                         /\ tickCnt >= PulseDuration
                         /\ tickCnt < StartThreshold
  BY <1>0, SmallTypes DEF StartThreshold, PulseDuration
<1>1. CASE StartSecond
  <2>0. bitCnt = 0
    BY <1>1, SmallTypes DEF StartSecond
  <2>1. CASE b = 0
    <3>1. UNCHANGED <<decoder, got>>
      BY <1>1, <1>b, <2>1 DEF StartSecond
    <3>2. MiddleUsed'
      BY <1>0, <1>1, <1>c, <3>1 DEF StartSecond, MiddleUsed, decoder
    <3>3. data' = 0 /\ state' = "START" /\ got' = <<>>
      BY <1>1, <3>1, SmallTypes DEF StartSecond, decoder, TInv, IInv
    <3>4. FirstIsZero'
      BY <1>0, <1>1, <2>1, <3>2, <3>3 DEF StartSecond, FirstIsZero
    <3> QED BY <3>4 DEF InStep
  <2>2. CASE b = 1
    <3>1. EdgeStart(1)
      BY <1>1, <1>a, <2>2, EdgeByState DEF StartSecond
    <3>2. state' = "SYNC" /\ UNCHANGED <<bitCnt, tickCnt, data, got>>
      BY <1>1, <1>c, <3>1, SmallTypes, EarlyEdge
         DEF StartSecond
    <3>3. MiddleUsed'
      BY <1>0, <1>1, <1>c, <3>2 DEF StartSecond, MiddleUsed
    <3>4. bitCnt' = 0 /\ data' = 0 /\ got' = <<>>
      BY <1>1, <2>0, <3>2 DEF StartSecond
    <3>5. FirstIsOne'
      BY <1>0, <1>1, <2>2, <3>2, <3>3, <3>4 DEF StartSecond, FirstIsOne
    <3> QED BY <3>5 DEF InStep
  <2> QED BY <2>1, <2>2
<1>2. CASE BitSecond
  <2>1. UNCHANGED <<state, bitCnt, tickCnt, data, got>>
    <3>1. CASE pin = b
      BY <3>1, <1>b DEF decoder
    <3>2. CASE pin # b
      <4>1. EdgeSync(b)
        BY <1>2, <1>a, <3>2, EdgeByState DEF BitSecond, AllHeld
      <4>2. /\ tickCnt \in Nat
            /\ tickCnt >= PulseDuration /\ tickCnt < StartThreshold
        BY <1>2, <1>c, SmallTypes DEF BitSecond
      <4> QED BY <4>1, <4>2, EarlyEdge
    <3> QED BY <3>1, <3>2
  <2>2. MiddleUsed'
    BY <1>0, <1>2, <1>c, <2>1 DEF BitSecond, MiddleUsed
  <2>3. AllHeld'
    BY <1>0, <1>2, <2>1 DEF BitSecond, AllHeld
  <2>4. BitFirst'
    BY <1>0, <2>2, <2>3 DEF BitFirst
  <2> QED BY <2>4 DEF InStep
<1>3. CASE LastSecond
  BY <1>0, <1>3, SmallTypes DEF LastSecond, Decoded
<1> QED BY <1>0, <1>1, <1>2, <1>3
          DEF InStep, StartFirst, FirstIsOne, FirstIsZero, BitFirst, InGap

LEMMA EndKeepsStep ==
  ASSUME TInv, InStep, FrameEnd
  PROVE  InStep'
<1>0. /\ part = "second" /\ n = FrameBits + 1
      /\ part' = "gap" /\ UNCHANGED <<sent, n>>
      /\ Level(1)
  BY DEF FrameEnd
<1>1. LastSecond
  <2>1. n # 1 /\ n \notin 2 .. FrameBits
    BY <1>0, SmallTypes
  <2> QED BY <1>0, <2>1 DEF InStep, StartFirst, StartSecond, FirstIsOne,
            FirstIsZero, BitSecond, BitFirst, AllHeld, InGap
<1>2. got' = got
  <2>1. CASE EdgeIsr(1)
    <3>1. EdgeIdle \/ EdgeFinish
      BY <1>1, <2>1, EdgeByState DEF LastSecond
    <3> QED BY <3>1 DEF EdgeIdle, EdgeFinish
  <2>2. CASE UNCHANGED <<decoder, got>>
    BY <2>2
  <2> QED BY <1>0, <2>1, <2>2 DEF Level
<1>3. InGap'
  BY <1>0, <1>1, <1>2 DEF LastSecond, Decoded, InGap
<1> QED BY <1>3 DEF InStep

\* The line is at most as long quiet as the tick counter says.
LEMMA EdgeKeepsQuiet ==
  ASSUME TInv, NEW p \in {0, 1}, EdgeIsr(p), quiet' = 0
  PROVE  QuietEndsFrames'
<1>1. IInv'
  BY EdgeKeepsInv DEF TInv
<1> QED BY <1>1, Rc5Assumption DEF IInv, TickCntInRange, QuietEndsFrames

LEMMA LevelKeepsQuiet ==
  ASSUME TInv, QuietEndsFrames, NEW p \in {0, 1}, Level(p)
  PROVE  QuietEndsFrames'
<1>1. CASE EdgeIsr(p) /\ quiet' = 0
  BY <1>1, EdgeKeepsQuiet
<1>2. CASE UNCHANGED <<decoder, got, quiet>>
  BY <1>2 DEF decoder, QuietEndsFrames
<1> QED BY <1>1, <1>2 DEF Level

LEMMA TickKeepsQuiet ==
  ASSUME TInv, QuietEndsFrames, Tick
  PROVE  QuietEndsFrames'
<1> SUFFICES ASSUME state' # "IDLE" PROVE quiet' <= tickCnt'
  BY DEF QuietEndsFrames
<1>1. ~(tickCnt' > ToggleTimeout) /\ state' = state
  BY DEF Tick, TimerIsr, ResetCtx
<1>2. quiet <= tickCnt /\ tickCnt <= ToggleTimeout
  BY <1>1 DEF QuietEndsFrames, TInv, IInv, NotStuck
<1>3. tickCnt + 1 < TickMod /\ tickCnt + 1 \in Nat
  BY <1>2, SmallTypes DEF ToggleTimeout
<1>4. tickCnt' = tickCnt + 1
  <2>1. (tickCnt + 1) % TickMod = tickCnt + 1
    BY <1>3, SmallTypes
  <2> QED BY <2>1 DEF Tick, TimerIsr
<1>5. quiet' = quiet + 1
  BY <1>2, SmallTypes DEF Tick, ToggleTimeout
<1> QED BY <1>2, <1>4, <1>5, SmallTypes

LEMMA FrameInvariant == Spec => []FInv
<1>1. Init => FrameInv
  BY Rc5Assumption DEF Init, FrameInv, QuietEndsFrames, InStep, InGap
<1>2. TInv /\ FrameInv /\ [Next]_vars => FrameInv'
  <2> SUFFICES ASSUME TInv, QuietEndsFrames, noise = 0 => InStep, [Next]_vars
               PROVE  QuietEndsFrames' /\ (noise' = 0 => InStep')
    BY DEF FrameInv
  <2>1. CASE Tick
    <3>1. noise' = noise
      BY <2>1 DEF Tick
    <3> QED BY <2>1, <3>1, TickKeepsStep, TickKeepsQuiet
  <2>2. CASE FrameBegin
    <3>1. QuietEndsFrames'
      BY <2>2 DEF FrameBegin, decoder, QuietEndsFrames
    <3> QED BY <2>2, <3>1, FrameBeginsInStep
  <2>3. CASE BitMiddle
    <3>1. noise' = noise /\ Level(1 - bit)
      BY <2>3 DEF BitMiddle
    <3> QED BY <2>3, <3>1, MiddleKeepsStep, LevelKeepsQuiet, SmallTypes
  <2>4. ASSUME NEW b \in {0, 1}, BitBegin(b)
        PROVE  QuietEndsFrames' /\ (noise' = 0 => InStep')
    <3>1. noise' = noise /\ Level(b)
      BY <2>4 DEF BitBegin
    <3> QED BY <2>4, <3>1, BeginKeepsStep, LevelKeepsQuiet
  <2>5. CASE FrameEnd
    <3>1. noise' = noise /\ Level(1)
      BY <2>5 DEF FrameEnd
    <3> QED BY <2>5, <3>1, EndKeepsStep, LevelKeepsQuiet
  <2>6. ASSUME NEW p \in {0, 1}, Noise(p)
        PROVE  QuietEndsFrames' /\ (noise' = 0 => InStep')
    <3>1. EdgeIsr(p) /\ quiet' = 0 /\ noise' = noise + 1
      BY <2>6 DEF Noise
    <3>2. noise' # 0
      BY <3>1, SmallTypes
    <3> QED BY <3>1, <3>2, EdgeKeepsQuiet
  <2>7. CASE Take \/ UNCHANGED vars
    <3>1. UNCHANGED <<state, bitCnt, tickCnt, data, line, got>>
      BY <2>7 DEF Take, vars, decoder
    <3>2. QuietEndsFrames'
      BY <3>1 DEF line, QuietEndsFrames
    <3>3. noise' = noise /\ (InStep => InStep')
      BY <3>1 DEF line, InStep, StartFirst, StartSecond, FirstIsOne, FirstIsZero,
           BitSecond, BitFirst, AllHeld, MiddleUsed, LastSecond, Decoded, InGap
    <3> QED BY <3>2, <3>3
  <2> QED BY <2>1, <2>2, <2>3, <2>4, <2>5, <2>6, <2>7 DEF Next
<1> QED BY <1>1, <1>2, DecoderInvariant, PTL DEF Spec, FInv

-----------------------------------------------------------------------------
\* Every frame that no noise disturbed is decoded once and bit by bit,
\* whatever state earlier noise left rc5_isr() in: the gap's timeout clears
\* it, the first edge after the start bit's is told from noise, the edges
\* between two bits are ignored and those in the middle are used.
THEOREM FramesAreDecoded == Spec => []DecodesExactly
<1>1. FInv => DecodesExactly
  BY DEF FInv, FrameInv, DecodesExactly, InStep, StartFirst, StartSecond, FirstIsOne,
         FirstIsZero, BitSecond, BitFirst, LastSecond, InGap, Decoded
<1> QED BY <1>1, FrameInvariant, PTL

\* Every variable of the decoder keeps to the values its C type and use give
\* it: the bit counter never passes the frame's length, which the decoder
\* compares it with for equality only, and the tick counter does not leave
\* its eight bits.
THEOREM DecoderTypes == Spec => []TypeOK
BY DecoderInvariant, TInvType, PTL

\* While a frame is being decoded the last edge used is at most
\* RC5_TOGGLE_TIMEOUT ticks old: rc5_timer_isr() ends every frame.
THEOREM DecoderNotStuck == Spec => []NotStuck
<1>1. TInv => NotStuck
  BY DEF TInv, IInv
<1> QED BY <1>1, DecoderInvariant, PTL

\* Whichever way rc5_isr() or rc5_timer_isr() leaves a frame, neither bits
\* nor their count remain.
THEOREM DecoderIdleIsClean == Spec => []IdleIsClean
<1>1. TInv => IdleIsClean
  BY DEF TInv, IInv
<1> QED BY <1>1, DecoderInvariant, PTL
=============================================================================
