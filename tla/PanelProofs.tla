----------------------------- MODULE PanelProofs -----------------------------
(***************************************************************************)
(* The parser is never left waiting without a timeout; as long as no byte  *)
(* is lost or late it takes no text for a header and writes nothing        *)
(* outside lcd.line; and the panel shows what the host sent whole.  For    *)
(* every length of lines and buffers, every set of frames and every        *)
(* timeout.                                                                *)
(***************************************************************************)
EXTENDS Panel, NumberTheorems, SequenceTheorems

\* What the argument needs of the types, and of the host: between frames
\* nothing of one is left.
Counters ==
  /\ cnt \in Nat
  /\ timer \in Off .. UartTimeout
  /\ pos \in Nat /\ age \in Nat /\ quiet \in Nat
  /\ frame = Unknown \/ frame \in Frames
  /\ Sending => pos < Len(frame)
  /\ ~Sending => pos = 0 /\ age = 0

\* As long as nothing is lost or late the parser is where the host is, and
\* the timeout will not come before the frame is late.
InStep ==
  synced =>
    /\ ~corrupt
    /\ Sending => age < UartTimeout /\ quiet = 0
    /\ pos = 0 => state = "idle"
    /\ pos > 0 => /\ state = "data"
                  /\ cmd = frame[1]
                  /\ cnt = Len(frame) - pos
                  /\ timer + age >= UartTimeout

\* After a disturbance the timeout comes before the silence is long enough
\* for the two to be together again.
SilenceIsTimed == ~synced /\ timer # Off => timer + quiet <= UartTimeout

Disturbed == synced \in BOOLEAN /\ (~synced => harmed)

IInv ==
  /\ state \in {"idle", "data"} /\ Counters /\ CollectingIsTimed
  /\ InStep /\ SilenceIsTimed /\ Disturbed

\* A frame is a header and the data its command asks for.
LEMMA FrameShape ==
  ASSUME NEW f \in Frames
  PROVE  /\ f # Unknown
         /\ IsCmd(f[1])
         /\ Len(f) \in Nat /\ Len(f) >= 2
         /\ Len(f) = 1 + CmdLength(f[1])
         /\ HighNibble(f[1]) = LcdUpdateCmd => LowNibble(f[1]) \in Line
<1>1. BufferLength \in Nat /\ BufferLength >= 1
  BY PanelAssumption, LineLengthAssumption
<1>2. Len(f) = IF HighNibble(f[1]) = LcdUpdateCmd THEN 1 + BufferLength ELSE 2
  BY PanelAssumption
<1>3. Len(f) \in Nat /\ Len(f) >= 2
  BY <1>1, <1>2
<1>4. f # Unknown
  BY <1>3 DEF Unknown
<1> QED BY <1>1, <1>2, <1>3, <1>4, PanelAssumption DEF CmdLength

\* Every command has data, and a byte that is none counts as one of one byte.
LEMMA CmdHasData ==
  ASSUME NEW b
  PROVE  CmdLength(b) \in Nat /\ CmdLength(b) > 0
BY PanelAssumption, LineLengthAssumption DEF CmdLength

LEMMA NoLess ==
  ASSUME NEW u \in Nat, NEW a \in Nat
  PROVE  u + a >= u
OBVIOUS

LEMMA MoreLess ==
  ASSUME NEW t \in Int, NEW q \in Nat, NEW r \in Nat, NEW u \in Nat,
         r <= q + 1, t + q <= u
  PROVE  (t - 1) + r <= u
OBVIOUS

\* The wire takes one byte of the frame.
LEMMA WireKeepsCounters ==
  ASSUME Counters, ByteGone
  PROVE  /\ pos' \in Nat /\ age' \in Nat /\ quiet' = 0
         /\ frame' = Unknown \/ frame' \in Frames
         /\ Sending' => pos' < Len(frame')
         /\ ~Sending' => pos' = 0 /\ age' = 0
         /\ frame \in Frames /\ ~corrupt
         /\ \/ /\ pos + 1 < Len(frame) /\ pos' = pos + 1
               /\ UNCHANGED <<frame, age>>
            \/ /\ pos + 1 = Len(frame) /\ pos' = 0 /\ ~Sending'
BY FrameShape DEF Counters, ByteGone, Sending, Unknown

\* The parser takes a byte.
LEMMA ReceiveKeepsInv ==
  ASSUME IInv, Receive
  PROVE  IInv'
<1> USE DEF IInv
<1> DEFINE b == frame[pos + 1]
<1>1. ByteGone /\ (HandleIdle(b) \/ HandleData(b)) /\ UNCHANGED <<synced, harmed>>
  BY DEF Receive
<1>2. /\ pos' \in Nat /\ age' \in Nat /\ quiet' = 0
      /\ frame' = Unknown \/ frame' \in Frames
      /\ Sending' => pos' < Len(frame')
      /\ ~Sending' => pos' = 0 /\ age' = 0
      /\ frame \in Frames /\ ~corrupt
      /\ \/ /\ pos + 1 < Len(frame) /\ pos' = pos + 1
            /\ UNCHANGED <<frame, age>>
         \/ /\ pos + 1 = Len(frame) /\ pos' = 0 /\ ~Sending'
  BY <1>1, WireKeepsCounters
<1>3. /\ IsCmd(frame[1])
      /\ Len(frame) \in Nat /\ Len(frame) >= 2
      /\ Len(frame) = 1 + CmdLength(frame[1])
      /\ HighNibble(frame[1]) = LcdUpdateCmd => LowNibble(frame[1]) \in Line
  BY <1>2, FrameShape
<1>4. UartTimeout \in Nat /\ UartTimeout > 0
  BY PanelAssumption
<1>5. Sending
  BY <1>1 DEF ByteGone
<1>6. synced => ((Sending' => age' < UartTimeout /\ quiet' = 0) /\ age \in Nat)
  BY <1>1, <1>2, <1>5 DEF InStep, Counters
<1>9. Disturbed'
  BY <1>1 DEF Disturbed
<1>7. CASE HandleIdle(b)
  <2>1. state = "idle" /\ corrupt' = corrupt
    BY <1>7 DEF HandleIdle
  <2>2. CASE IsCmd(b)
    <3>1. /\ cmd' = b /\ cnt' = CmdLength(b) /\ state' = "data" /\ timer' = UartTimeout
      BY <1>7, <2>2 DEF HandleIdle
    <3>2. Counters'
      BY <1>2, <1>4, <3>1, CmdHasData DEF Counters, Off
    <3>3. CollectingIsTimed'
      BY <1>4, <3>1, CmdHasData DEF CollectingIsTimed, Off
    <3>4. InStep'
      <4> SUFFICES ASSUME synced
                   PROVE  InStep'
        BY <1>1 DEF InStep
      <4>1. pos = 0
        BY <2>1 DEF InStep, Counters
      <4>2. pos' = 1 /\ frame' = frame /\ b = frame[1]
        BY <1>2, <1>3, <4>1
      <4>3. cmd' = frame'[1] /\ ~corrupt'
        BY <1>2, <2>1, <3>1, <4>2
      <4>4. cnt' = Len(frame') - pos'
        BY <1>3, <3>1, <4>2, CmdHasData
      <4>5. timer' + age' >= UartTimeout
        <5>1. timer' = UartTimeout
          BY <3>1
        <5>2. age' \in Nat
          BY <1>2
        <5>3. UartTimeout + age' >= UartTimeout
          BY <1>4, <5>2, NoLess
        <5> QED BY <5>1, <5>3
      <4> HIDE DEF b
      <4> QED BY <1>6, <3>1, <4>2, <4>3, <4>4, <4>5 DEF InStep
    <3>5. SilenceIsTimed'
      BY <1>2, <1>4, <3>1 DEF SilenceIsTimed
    <3> QED BY <1>9, <3>1, <3>2, <3>3, <3>4, <3>5
  <2>3. CASE ~IsCmd(b)
    <3>1. UNCHANGED <<state, cmd, cnt, timer>>
      BY <1>7, <2>3 DEF HandleIdle, parser
    <3>2. Counters'
      BY <1>2, <3>1 DEF Counters
    <3>3. CollectingIsTimed'
      BY <2>1, <3>1 DEF CollectingIsTimed
    <3>4. ~synced
      <4> SUFFICES ASSUME synced
                   PROVE  FALSE
        OBVIOUS
      <4>1. pos = 0
        BY <2>1 DEF InStep, Counters
      <4> QED BY <1>3, <2>3, <4>1
    <3>5. SilenceIsTimed'
      BY <1>2, <1>4, <3>1 DEF SilenceIsTimed, Counters, Off
    <3> QED BY <1>1, <1>9, <3>1, <3>2, <3>3, <3>4, <3>5 DEF InStep
  <2> QED BY <2>2, <2>3
<1>8. CASE HandleData(b)
  <2>1. /\ state = "data" /\ Collect(b) /\ cnt' = cnt - 1 /\ cmd' = cmd
        /\ \/ cnt = 1 /\ state' = "idle" /\ timer' = Off
           \/ cnt # 1 /\ UNCHANGED <<state, timer>>
    BY <1>8 DEF HandleData
  <2>2. cnt > 0 /\ cnt \in Nat /\ timer # Off
    BY <1>2, <2>1 DEF CollectingIsTimed, Counters
  <2>3. Counters'
    BY <1>2, <1>4, <2>1, <2>2 DEF Counters, Off
  <2>4. CollectingIsTimed'
    BY <2>1, <2>2 DEF CollectingIsTimed
  <2>5. InStep'
    <3> SUFFICES ASSUME synced
                 PROVE  InStep'
      BY <1>1 DEF InStep
    <3>1. /\ pos > 0 /\ cmd = frame[1] /\ cnt = Len(frame) - pos
          /\ timer + age >= UartTimeout
      BY <2>1 DEF InStep, Counters
    <3>2. ~corrupt'
      BY <1>2, <1>3, <2>1, <3>1
      DEF Collect, CollectLine, CollectOutside, CollectFlags, CollectDim
    <3>3. CASE pos + 1 = Len(frame) /\ pos' = 0 /\ ~Sending'
      <4>1. cnt = 1
        BY <1>3, <3>1, <3>3 DEF Counters
      <4> QED BY <1>6, <2>1, <3>2, <3>3, <4>1 DEF InStep
    <3>4. CASE pos + 1 < Len(frame) /\ pos' = pos + 1 /\ UNCHANGED <<frame, age>>
      <4>1. cnt # 1 /\ cnt' = Len(frame) - (pos + 1)
        BY <1>3, <2>1, <3>1, <3>4 DEF Counters
      <4> QED BY <1>6, <2>1, <3>1, <3>2, <3>4, <4>1 DEF InStep, Counters
    <3> QED BY <1>2, <3>3, <3>4
  <2>6. SilenceIsTimed'
    BY <1>2, <1>4, <2>1 DEF SilenceIsTimed, Counters, Off
  <2> QED BY <1>9, <2>1, <2>3, <2>4, <2>5, <2>6
<1> QED BY <1>1, <1>7, <1>8

\* The timeout, which comes only after a disturbance.
LEMMA TimeoutKeepsInv ==
  ASSUME IInv, Timeout
  PROVE  IInv'
<1> USE DEF IInv
<1>1. /\ timer = 0 /\ timer' = Off /\ cnt' = 0 /\ state' = "idle"
      /\ UNCHANGED <<corrupt, frame, pos, age, quiet, synced, harmed>>
  BY DEF Timeout, host
<1>2. Counters'
  BY <1>1, PanelAssumption DEF Counters, Sending, Off
<1>3. CollectingIsTimed'
  BY <1>1 DEF CollectingIsTimed
<1>4. ~synced
  <2> SUFFICES ASSUME synced
               PROVE  FALSE
    OBVIOUS
  <2>1. CASE pos = 0
    BY <1>1, <2>1 DEF InStep, CollectingIsTimed, Off
  <2>2. CASE pos > 0
    BY <1>1, <2>2, PanelAssumption DEF InStep, Counters
  <2> QED BY <2>1, <2>2 DEF Counters
<1>5. SilenceIsTimed' /\ Disturbed'
  BY <1>1 DEF SilenceIsTimed, Disturbed
<1> QED BY <1>1, <1>2, <1>3, <1>4, <1>5 DEF InStep

\* Time passes.
LEMMA TickKeepsInv ==
  ASSUME IInv, Tick
  PROVE  IInv'
<1> USE DEF IInv
<1>1. /\ timer # 0 /\ timer' = (IF timer > 0 THEN timer - 1 ELSE timer)
      /\ age' = (IF Sending /\ age < UartTimeout THEN age + 1 ELSE age)
      /\ quiet' = (IF ~synced /\ quiet <= UartTimeout THEN quiet + 1 ELSE quiet)
      /\ UNCHANGED <<state, cmd, cnt, corrupt, frame, pos>>
      /\ ~corrupt
  BY DEF Tick
<1>2. UartTimeout \in Nat /\ UartTimeout > 0 /\ timer \in Int /\ age \in Nat /\ quiet \in Nat
  BY PanelAssumption DEF Counters, Off
<1>3. Sending' = Sending
  BY <1>1 DEF Sending
<1>4. Counters'
  BY <1>1, <1>2, <1>3 DEF Counters, Off
<1>5. CollectingIsTimed'
  BY <1>1, <1>2 DEF CollectingIsTimed, Off
<1>6. CASE Sending /\ age' = UartTimeout
  <2>1. ~synced' /\ synced' \in BOOLEAN /\ harmed'
    BY <1>6 DEF Tick
  <2>2. SilenceIsTimed'
    <3>1. CASE synced
      <4>1. quiet' = 0
        BY <1>1, <1>6, <3>1 DEF InStep
      <4> QED BY <1>1, <1>2, <4>1 DEF SilenceIsTimed, Counters, Off
    <3>2. CASE ~synced
      BY <1>1, <1>2, <3>2 DEF SilenceIsTimed, Counters, Off
    <3> QED BY <3>1, <3>2
  <2> QED BY <1>1, <1>4, <1>5, <2>1, <2>2 DEF InStep, Disturbed
<1>7. CASE ~(Sending /\ age' = UartTimeout)
  <2>1. /\ synced' = (synced \/ (~Sending /\ quiet' > UartTimeout))
        /\ harmed' = harmed
    BY <1>7 DEF Tick
  <2>2. Disturbed'
    BY <2>1 DEF Disturbed
  <2>3. SilenceIsTimed'
    <3> SUFFICES ASSUME ~synced', timer' # Off
                 PROVE  timer' + quiet' <= UartTimeout
      BY DEF SilenceIsTimed
    <3>1. ~synced
      BY <2>1
    <3>2. timer > 0 /\ timer' = timer - 1 /\ timer + quiet <= UartTimeout
      BY <1>1, <1>2, <3>1 DEF SilenceIsTimed, Counters, Off
    <3>3. quiet' <= quiet + 1 /\ quiet' \in Nat
      BY <1>1, <1>2
    <3>4. (timer - 1) + quiet' <= UartTimeout
      BY <1>2, <3>2, <3>3, MoreLess
    <3> QED BY <3>2, <3>4
  <2>4. CASE synced
    <3>1. Sending => age' = age + 1 /\ age' < UartTimeout /\ quiet' = 0
      BY <1>1, <1>2, <1>7, <2>4 DEF InStep
    <3>2. pos > 0 => Sending
      BY DEF Counters
    <3>3. pos > 0 => timer' + age' >= UartTimeout
      BY <1>1, <1>2, <2>4, <3>1, <3>2 DEF InStep
    <3>4. InStep'
      BY <1>1, <1>3, <2>4, <3>1, <3>3 DEF InStep
    <3> QED BY <1>1, <1>4, <1>5, <2>2, <2>3, <3>4
  <2>5. CASE ~synced /\ synced'
    <3>1. ~Sending /\ quiet' > UartTimeout
      BY <2>1, <2>5
    <3>2. timer = Off
      BY <1>1, <1>2, <2>5, <3>1 DEF SilenceIsTimed, Counters, Off
    <3>3. state' = "idle" /\ pos' = 0
      BY <1>1, <3>1, <3>2 DEF CollectingIsTimed, Counters
    <3>4. InStep'
      BY <1>1, <1>3, <3>1, <3>3 DEF InStep
    <3> QED BY <1>1, <1>4, <1>5, <2>2, <2>3, <3>4
  <2>6. CASE ~synced'
    BY <1>1, <1>4, <1>5, <2>2, <2>3, <2>6 DEF InStep
  <2> QED BY <2>1, <2>4, <2>5, <2>6
<1> QED BY <1>6, <1>7

\* The host begins a frame, or a byte or the end of one is lost.
LEMMA HostKeepsInv ==
  ASSUME IInv, Lose \/ Cut \/ \E f \in Frames : Begin(f)
  PROVE  IInv'
<1> USE DEF IInv
<1>1. CASE Lose
  <2>1. /\ ByteGone /\ harmed' /\ synced' = FALSE
        /\ UNCHANGED <<state, cmd, cnt, timer, corrupt>>
    BY <1>1 DEF Lose, parser
  <2>2. Counters'
    BY <2>1, WireKeepsCounters DEF Counters
  <2>3. CollectingIsTimed'
    BY <2>1 DEF CollectingIsTimed
  <2>4. SilenceIsTimed'
    <3>1. quiet' = 0
      BY <2>1 DEF ByteGone
    <3> QED BY <2>1, <3>1, PanelAssumption DEF SilenceIsTimed, Counters, Off
  <2> QED BY <2>1, <2>2, <2>3, <2>4 DEF InStep, Disturbed
<1>2. CASE Cut
  <2>1. /\ harmed' /\ synced' = FALSE
        /\ UNCHANGED <<state, cmd, cnt, timer, corrupt>>
        /\ frame' = Unknown /\ pos' = 0 /\ age' = 0 /\ quiet' = 0
    BY <1>2 DEF Cut, parser
  <2>2. Counters'
    BY <2>1 DEF Counters, Sending
  <2>3. CollectingIsTimed'
    BY <2>1 DEF CollectingIsTimed
  <2>4. SilenceIsTimed'
    <3>1. quiet' = 0
      BY <2>1 DEF ByteGone
    <3> QED BY <2>1, <3>1, PanelAssumption DEF SilenceIsTimed, Counters, Off
  <2> QED BY <2>1, <2>2, <2>3, <2>4 DEF InStep, Disturbed
<1>3. ASSUME NEW f \in Frames, Begin(f)
      PROVE  IInv'
  <2>1. /\ ~Sending /\ frame' = f
        /\ UNCHANGED <<state, cmd, cnt, timer, corrupt, pos, age, synced, harmed>>
        /\ quiet' = 0
    BY <1>3 DEF Begin, parser, history
  <2>2. pos = 0 /\ age = 0 /\ Len(f) \in Nat /\ Len(f) >= 2 /\ f # Unknown
    BY <2>1, FrameShape DEF Counters
  <2>3. Counters'
    BY <2>1, <2>2 DEF Counters, Sending
  <2>4. CollectingIsTimed'
    BY <2>1 DEF CollectingIsTimed
  <2>5. InStep'
    BY <2>1, <2>2, PanelAssumption DEF InStep
  <2>6. SilenceIsTimed' /\ Disturbed'
    BY <2>1, PanelAssumption DEF SilenceIsTimed, Disturbed, Counters, Off
  <2> QED BY <2>1, <2>3, <2>4, <2>5, <2>6
<1> QED BY <1>1, <1>2, <1>3

\* Scrolling touches neither the parser nor the host.
LEMMA QuietKeepsInv ==
  ASSUME IInv, UNCHANGED <<state, cmd, cnt, timer, corrupt, frame, pos, age, quiet, synced, harmed>>
  PROVE  IInv'
BY DEF IInv, Counters, CollectingIsTimed, InStep, SilenceIsTimed, Disturbed, Sending

LEMMA PanelInvariant == Spec => []IInv
<1>1. Init => IInv
  BY PanelAssumption
  DEF Init, IInv, Counters, CollectingIsTimed, InStep, SilenceIsTimed, Disturbed, Sending, Off
<1>2. IInv /\ [Next]_vars => IInv'
  <2> SUFFICES ASSUME IInv, [Next]_vars
               PROVE  IInv'
    OBVIOUS
  <2>1. CASE Scroll \/ Undefined \/ UNCHANGED vars
    <3>1. UNCHANGED <<state, cmd, cnt, timer, corrupt, frame, pos, age, quiet, synced, harmed>>
      BY <2>1 DEF Scroll, Undefined, vars, parser, host, history
    <3> QED BY <3>1, QuietKeepsInv
  <2> QED
    BY <2>1, ReceiveKeepsInv, TimeoutKeepsInv, TickKeepsInv, HostKeepsInv DEF Next
<1> QED BY <1>1, <1>2, PTL DEF Spec

\* The parser waits for data only while the timeout runs, and between frames
\* the timeout never runs.
THEOREM CollectingTimed == Spec => []CollectingIsTimed
<1>1. IInv => CollectingIsTimed
  BY DEF IInv
<1> QED BY <1>1, PanelInvariant, PTL

\* As long as nothing is lost or late nothing is written outside lcd.line,
\* although the parser does not check the number of the line.
THEOREM StraysNeedHarm == Spec => []NoStrayWrite
<1>1. IInv => NoStrayWrite
  BY DEF IInv, InStep, Disturbed, NoStrayWrite
<1> QED BY <1>1, PanelInvariant, PTL
-----------------------------------------------------------------------------
(* What is written to the display.                                         *)

Cells == 0 .. 2 * RowCells - 1
Disp == [ram : [Cells -> Int], ac : Cells]

\* lcd_puts() writes the characters one by one.
LEMMA PutsSteps ==
  ASSUME NEW n \in Nat, NEW d, NEW s, DOMAIN s = 1 .. n
  PROVE  \E f : /\ f[0] = d
                /\ \A k \in 1 .. n : f[k] = Putc(f[k - 1], s[k])
                /\ Puts(d, s) = f[n]
<1> DEFINE Step(t, g) == IF t = {} THEN d
                         ELSE Putc(g[t \ {Max(t)}], s[Max(t)])
           Iter(N, g) == g = [t \in SUBSET N |-> Step(t, g)]
           it == CHOOSE g : Iter(1 .. n, g)
<1>1. Puts(d, s) = it[1 .. n]
  BY DEF Puts, FoldLeft, MapThenFoldSet
<1>2. \A k \in 0 .. n : \E g : Iter(1 .. k, g)
  <2> DEFINE P == {k \in Nat : \E g : Iter(1 .. k, g)}
  <2>1. 0 \in P
    <3>1. Iter({}, [t \in {{}} |-> d])
      OBVIOUS
    <3>2. 1 .. 0 = {}
      OBVIOUS
    <3> HIDE DEF Iter
    <3> QED BY <3>1, <3>2
  <2>2. ASSUME NEW k \in 0 .. n - 1, k \in P
        PROVE  k + 1 \in P
    <3>1. PICK g : Iter(1 .. k, g)
      BY <2>2
    <3> DEFINE h == [t \in SUBSET (1 .. k + 1) |->
                       IF t \subseteq 1 .. k THEN g[t] ELSE Step(t, g)]
    <3>2. ASSUME NEW t \in SUBSET (1 .. k + 1), t # {}
          PROVE  Max(t) \in t /\ t \ {Max(t)} \subseteq 1 .. k
      <4>2. t \in SUBSET (0 .. k + 1) /\ k + 1 \in Nat
        OBVIOUS
      <4>3. Max(t) \in t /\ \A i \in t : Max(t) >= i
        BY <3>2, <4>2, Greatest
      <4>4. ASSUME NEW m \in t, \A i \in t : m >= i
            PROVE  t \ {m} \subseteq 1 .. k
        BY <4>4
      <4> QED BY <4>3, <4>4
    <3>3. Iter(1 .. k + 1, h)
      <4>1. ASSUME NEW t \in SUBSET (1 .. k + 1)
            PROVE  h[t] = Step(t, h)
        <5>1. CASE t = {}
          BY <3>1, <5>1
        <5>2. CASE t # {}
          <6>1. h[t \ {Max(t)}] = g[t \ {Max(t)}]
            BY <3>2, <5>2
          <6>2. h[t] = Step(t, g)
            BY <3>1, <5>2
          <6> QED BY <6>1, <6>2, <5>2
        <5> QED BY <5>1, <5>2
      <4> QED BY <4>1
    <3> HIDE DEF Iter, h
    <3> QED BY <3>3
  <2> HIDE DEF Iter
  <2>3. \A k \in 0 .. n : k \in P
    <3> HIDE DEF P
    <3> QED BY <2>1, <2>2, UpTo
  <2> QED BY <2>3
<1>3. it = [t \in SUBSET (1 .. n) |-> Step(t, it)]
  <2> HIDE DEF Iter
  <2>1. Iter(1 .. n, it)
    BY <1>2
  <2> QED BY <2>1 DEF Iter
<1> HIDE DEF it
<1>4. \A t \in SUBSET (1 .. n) : it[t] = Step(t, it)
  BY <1>3
<1> DEFINE f == [k \in 0 .. n |-> it[1 .. k]]
<1>5. \A k \in 0 .. n : f[k] = it[1 .. k]
  OBVIOUS
<1> HIDE DEF f
<1>6. f[0] = d
  <2>1. 1 .. 0 = {} /\ {} \in SUBSET (1 .. n)
    OBVIOUS
  <2>2. it[{}] = d
    BY <1>4, <2>1
  <2> QED BY <1>5, <2>1, <2>2
<1>7. ASSUME NEW k \in 1 .. n
      PROVE  f[k] = Putc(f[k - 1], s[k])
  <2>1. Max(1 .. k) = k
    BY DEF Max
  <2>2. (1 .. k) \ {k} = 1 .. k - 1
    OBVIOUS
  <2>3. it[1 .. k] = Step(1 .. k, it)
    <3>1. 1 .. k \in SUBSET (1 .. n)
      OBVIOUS
    <3> QED BY <1>4, <3>1
  <2>4. 1 .. k # {}
    OBVIOUS
  <2>6. f[k] = it[1 .. k] /\ f[k - 1] = it[1 .. k - 1]
    BY <1>5
  <2> QED BY <2>1, <2>2, <2>3, <2>4, <2>6
<1>8. f[n] = it[1 .. n]
  BY <1>5
<1> QED BY <1>1, <1>6, <1>7, <1>8

\* The address counter wraps at the end of the memory.
LEMMA Wraps ==
  ASSUME NEW n \in Nat, NEW x \in 0 .. n - 1
  PROVE  /\ (x + 1) % n \in 0 .. n - 1
         /\ x + 1 < n => (x + 1) % n = x + 1
OBVIOUS

LEMMA CellsOfRows ==
  /\ LineLength \in Nat /\ LineLength > 0
  /\ RowCells \in Nat /\ RowCells = LineLength + LineLength
  /\ 2 * RowCells \in Nat /\ 2 * RowCells = RowCells + RowCells
  /\ Start(0) = 0 /\ Start(1) = RowCells
BY LineLengthAssumption DEF RowCells, Start

LEMMA PutcTyped ==
  ASSUME NEW d \in Disp, NEW c \in Int
  PROVE  Putc(d, c) \in Disp
<1>1. 2 * RowCells \in Nat /\ d.ac \in 0 .. 2 * RowCells - 1
  BY CellsOfRows DEF Disp, Cells
<1>2. (d.ac + 1) % (2 * RowCells) \in Cells
  BY <1>1, Wraps DEF Cells
<1>3. Write(d, c) \in Disp
  BY <1>2 DEF Write, Disp
<1>4. Start(0) \in Cells /\ Start(1) \in Cells
  BY CellsOfRows DEF Cells
<1>5. Newline(d) \in Disp
  BY <1>4 DEF Newline, Disp
<1> QED BY <1>3, <1>5 DEF Putc

\* Whatever is written, the display keeps its shape.
LEMMA PutsTyped ==
  ASSUME NEW d \in Disp, NEW n \in Nat, NEW s \in [1 .. n -> Int]
  PROVE  Puts(d, s) \in Disp
<1>1. PICK f : /\ f[0] = d
               /\ \A k \in 1 .. n : f[k] = Putc(f[k - 1], s[k])
               /\ Puts(d, s) = f[n]
  BY PutsSteps
<1> DEFINE P == {k \in Nat : f[k] \in Disp}
<1>2. 0 \in P
  BY <1>1
<1>3. ASSUME NEW k \in 0 .. n - 1, k \in P
      PROVE  k + 1 \in P
  <2>1. k + 1 \in 1 .. n /\ (k + 1) - 1 = k
    OBVIOUS
  <2>2. f[k + 1] = Putc(f[k], s[k + 1])
    BY <1>1, <2>1
  <2> QED BY <1>3, <2>1, <2>2, PutcTyped
<1>4. n \in P
  <2> HIDE DEF P
  <2>1. n \in 0 .. n
    OBVIOUS
  <2> QED BY <1>2, <1>3, <2>1, UpTo
<1> QED BY <1>1, <1>4

LEMMA GotoTyped ==
  ASSUME NEW d \in Disp, NEW y \in Line
  PROVE  /\ GotoXY(d, 0, y) \in Disp
         /\ GotoXY(d, 0, y).ac = Start(y)
         /\ GotoXY(d, 0, y).ram = d.ram
<1>1. Start(y) + 0 \in Cells /\ Start(y) + 0 = Start(y)
  BY CellsOfRows DEF Cells, Line, LineCount
<1> QED BY <1>1 DEF GotoXY, Disp

\* A text without a newline goes to the cells from the cursor on and to no
\* other, if they do not reach the end of the memory.
LEMMA PutsPlain ==
  ASSUME NEW d \in Disp, NEW n \in Nat, NEW s \in [1 .. n -> Int],
         \A i \in 1 .. n : s[i] # NewlineChar,
         d.ac + n < 2 * RowCells
  PROVE  \A a \in Cells :
           Puts(d, s).ram[a] = IF a \in d.ac .. d.ac + n - 1 THEN s[a - d.ac + 1]
                               ELSE d.ram[a]
<1>1. PICK f : /\ f[0] = d
               /\ \A k \in 1 .. n : f[k] = Putc(f[k - 1], s[k])
               /\ Puts(d, s) = f[n]
  <2>1. DOMAIN s = 1 .. n
    OBVIOUS
  <2>2. n \in Nat
    OBVIOUS
  <2> QED BY ONLY <2>1, <2>2, PutsSteps
<1> DEFINE c == d.ac
           Put(k) == /\ f[k] \in Disp /\ f[k].ac = c + k
                     /\ \A a \in Cells :
                          f[k].ram[a] = IF a \in c .. c + k - 1 THEN s[a - c + 1]
                                        ELSE d.ram[a]
           P == {k \in 0 .. n : Put(k)}
<1>0. c \in Cells /\ c \in Nat /\ 2 * RowCells \in Nat
  BY CellsOfRows DEF Disp, Cells
<1>2. 0 \in P
  BY <1>0, <1>1
<1>3. ASSUME NEW k \in 0 .. n - 1, k \in P
      PROVE  k + 1 \in P
  <2>1. k + 1 \in 1 .. n /\ (k + 1) - 1 = k
    OBVIOUS
  <2>2. f[k + 1] = Write(f[k], s[k + 1])
    BY <1>1, <2>1 DEF Putc
  <2>3. f[k + 1] \in Disp
    <3>1. f[k + 1] = Putc(f[k], s[k + 1])
      BY <1>1, <2>1
    <3> QED BY <1>3, <2>1, <3>1, PutcTyped
  <2>4. f[k].ac = c + k /\ c + k + 1 < 2 * RowCells + 0 /\ c + k \in 0 .. 2 * RowCells - 1
    BY <1>0, <1>3
  <2>5. f[k + 1].ac = c + (k + 1)
    <3>1. (c + k + 1) % (2 * RowCells) = c + k + 1
      BY <1>0, <2>4, Wraps
    <3> HIDE DEF c
    <3> QED BY <1>0, <2>2, <2>4, <3>1 DEF Write
  <2>6. \A a \in Cells : f[k + 1].ram[a] = IF a = c + k THEN s[k + 1] ELSE f[k].ram[a]
    <3>1. f[k] \in Disp
      BY <1>3
    <3> HIDE DEF c
    <3> QED BY <2>2, <2>4, <3>1 DEF Write, Disp
  <2>7. ASSUME NEW a \in Cells
        PROVE  f[k + 1].ram[a] = IF a \in c .. c + (k + 1) - 1 THEN s[a - c + 1]
                                 ELSE d.ram[a]
    <3>1. f[k].ram[a] = IF a \in c .. c + k - 1 THEN s[a - c + 1] ELSE d.ram[a]
      BY <1>3
    <3>2. a \in Int
      BY DEF Cells
    <3>3. c + (k + 1) - 1 = c + k
      BY <1>0
    <3> HIDE DEF c, P
    <3>4. CASE a = c + k
      <4>1. a - c + 1 = k + 1 /\ a \in c .. c + k
        BY <1>0, <3>4
      <4>2. f[k + 1].ram[a] = s[k + 1]
        BY <2>6, <3>4
      <4> QED BY <3>3, <4>1, <4>2
    <3>5. CASE a # c + k
      <4>1. a \in c .. c + k <=> a \in c .. c + k - 1
        BY <1>0, <3>2, <3>5
      <4>2. f[k + 1].ram[a] = f[k].ram[a]
        BY <2>6, <3>5
      <4> QED BY <3>1, <3>3, <4>1, <4>2
    <3> QED BY <3>4, <3>5
  <2> QED BY <2>1, <2>3, <2>5, <2>7
<1>4. n \in P
  <2> HIDE DEF P
  <2>1. n \in 0 .. n
    OBVIOUS
  <2> QED BY <1>2, <1>3, <2>1, UpTo
<1> QED BY <1>1, <1>4
-----------------------------------------------------------------------------
(* The lines and what lcd_update() shows of them.                          *)

LineRec == [buffer : [1 .. BufferLength -> Byte],
            sp : 0 .. BufferLength + Behind - LineLength,
            length : 0 .. BufferLength + Behind]

LEMMA Sizes ==
  /\ BufferLength \in Nat /\ BufferLength > LineLength
  /\ LineLength \in Nat /\ LineLength > 0
  /\ Behind \in Nat
  /\ 0 \in Line /\ 1 \in Line /\ \A l \in Line : l = 0 \/ l = 1
BY PanelAssumption, LineLengthAssumption DEF Line, LineCount

LEMMA WindowTyped ==
  ASSUME NEW ln \in LineRec
  PROVE  Window(ln) \in [1 .. LineLength -> Int]
<1>1. ASSUME NEW i \in 1 .. LineLength
      PROVE  Char(ln, ln.sp + i) \in Int
  <2>1. ln.sp \in Nat /\ ln.sp + i >= 1 /\ ln.sp + i \in Int
    BY Sizes DEF LineRec
  <2>2. CASE ln.sp + i <= BufferLength
    <3>1. ln.sp + i \in 1 .. BufferLength
      BY <2>1, <2>2
    <3>2. ln.buffer[ln.sp + i] \in Byte
      BY <3>1 DEF LineRec
    <3> QED BY <2>2, <3>2 DEF Char, Byte
  <2>3. CASE ~(ln.sp + i <= BufferLength)
    BY <2>3 DEF Char, Junk
  <2> QED BY <2>2, <2>3
<1> QED BY <1>1 DEF Window, Blank

\* A window holds no newline if the buffer does not.
LEMMA WindowPlain ==
  ASSUME NEW ln \in LineRec, \A i \in 1 .. BufferLength : ln.buffer[i] # NewlineChar
  PROVE  \A i \in 1 .. LineLength : Window(ln)[i] # NewlineChar
<1>1. ASSUME NEW i \in 1 .. LineLength
      PROVE  Char(ln, ln.sp + i) # NewlineChar
  <2>1. ln.sp \in Nat /\ ln.sp + i >= 1 /\ ln.sp + i \in Int
    BY Sizes DEF LineRec
  <2>2. CASE ln.sp + i <= BufferLength
    <3>1. ln.sp + i \in 1 .. BufferLength
      BY <2>1, <2>2
    <3> QED BY <2>2, <3>1 DEF Char
  <2>3. CASE ~(ln.sp + i <= BufferLength)
    BY <2>3 DEF Char, Junk, NewlineChar
  <2> QED BY <2>2, <2>3
<1> QED BY <1>1 DEF Window, Blank, NewlineChar

LEMMA UpdateTyped ==
  ASSUME NEW d \in Disp, NEW ln \in LineRec, NEW l \in Line
  PROVE  LcdUpdate(d, ln, l) \in Disp
BY GotoTyped, WindowTyped, PutsTyped, Sizes DEF LcdUpdate

\* lcd_update() shows the window in its row and leaves the other row alone.
LEMMA UpdateShows ==
  ASSUME NEW d \in Disp, NEW ln \in LineRec, NEW l \in Line,
         \A i \in 1 .. BufferLength : ln.buffer[i] # NewlineChar
  PROVE  /\ Row(LcdUpdate(d, ln, l), l) = Window(ln)
         /\ \A k \in Line : k # l => Row(LcdUpdate(d, ln, l), k) = Row(d, k)
<1> DEFINE w == Window(ln)
           g == GotoXY(d, 0, l)
<1>1. w \in [1 .. LineLength -> Int] /\ \A i \in 1 .. LineLength : w[i] # NewlineChar
  BY WindowTyped, WindowPlain
<1>2. g \in Disp /\ g.ac = Start(l) /\ g.ram = d.ram
  BY GotoTyped
<1>3. LcdUpdate(d, ln, l) = Puts(g, w)
  BY DEF LcdUpdate
<1> HIDE DEF w, g
<1>4. /\ Start(l) \in Nat /\ Start(l) + LineLength < 2 * RowCells
      /\ \A k \in Line : k # l => \/ Start(k) >= Start(l) + LineLength
                                  \/ Start(k) + LineLength <= Start(l)
      /\ \A k \in Line : Start(k) \in Nat /\ Start(k) + LineLength <= 2 * RowCells
  BY CellsOfRows, Sizes
<1>5. LineLength \in Nat
  BY Sizes
<1>6. \A a \in Cells :
        Puts(g, w).ram[a] = IF a \in Start(l) .. Start(l) + LineLength - 1
                              THEN w[a - Start(l) + 1] ELSE d.ram[a]
  <2>1. g \in Disp /\ g.ac + LineLength < 2 * RowCells
    BY <1>2, <1>4
  <2>2. \A a \in Cells :
          Puts(g, w).ram[a] = IF a \in g.ac .. g.ac + LineLength - 1
                                THEN w[a - g.ac + 1] ELSE g.ram[a]
    BY ONLY <1>1, <1>5, <2>1, PutsPlain
  <2> QED BY <1>2, <2>2
<1>7. ASSUME NEW k \in Line, NEW i \in 1 .. LineLength
      PROVE  Start(k) + i - 1 \in Cells
  <2>1. Start(k) \in Nat /\ Start(k) + LineLength <= 2 * RowCells /\ 2 * RowCells \in Nat
    BY <1>4, CellsOfRows
  <2> QED BY <1>5, <2>1 DEF Cells
<1>8. Row(Puts(g, w), l) = w
  <2>1. ASSUME NEW i \in 1 .. LineLength
        PROVE  Puts(g, w).ram[Start(l) + i - 1] = w[i]
    <3>1. /\ Start(l) + i - 1 \in Start(l) .. Start(l) + LineLength - 1
          /\ (Start(l) + i - 1) - Start(l) + 1 = i
      BY <1>4, <1>5
    <3> QED BY <1>6, <1>7, <3>1
  <2> QED BY <1>1, <2>1 DEF Row
<1>9. ASSUME NEW k \in Line, k # l
      PROVE  Row(Puts(g, w), k) = Row(d, k)
  <2>1. ASSUME NEW i \in 1 .. LineLength
        PROVE  Puts(g, w).ram[Start(k) + i - 1] = d.ram[Start(k) + i - 1]
    <3>1. Start(k) + i - 1 \notin Start(l) .. Start(l) + LineLength - 1
      <4>1. Start(k) \in Nat
        BY <1>4
      <4>2. \/ Start(k) >= Start(l) + LineLength
            \/ Start(k) + LineLength <= Start(l)
        BY <1>4, <1>9
      <4> QED BY <1>4, <1>5, <4>1, <4>2
    <3> QED BY <1>6, <1>7, <3>1
  <2> QED BY <2>1 DEF Row
<1> QED BY <1>3, <1>8, <1>9 DEF w
-----------------------------------------------------------------------------
(* Types.                                                                  *)

\* Only the first line is scrolled, and never beyond its text.
Shapes ==
  /\ line \in [Line -> LineRec]
  /\ disp \in Disp
  /\ \A l \in Line : line[l].sp > 0 => l = 0 /\ line[l].sp <= line[l].length - LineLength

Ranges ==
  /\ cmd \in Byte /\ cnt <= BufferLength
  /\ flags \in {0, 1} /\ bright \in 0 .. 3
  /\ lost \in 0 .. LossMax /\ quiet <= UartTimeout + 1

TInv == IInv /\ Shapes /\ Ranges

LEMMA ByteOfFrame ==
  ASSUME IInv, ByteGone
  PROVE  frame[pos + 1] \in Byte
<1>1. frame \in Frames /\ pos \in Nat /\ pos < Len(frame)
  BY WireKeepsCounters DEF IInv, ByteGone, Counters
<1>2. frame \in Seq(Byte)
  BY <1>1, PanelAssumption
<1>3. Len(frame) \in Nat /\ pos + 1 \in 1 .. Len(frame)
  BY <1>1, <1>2
<1> QED BY <1>2, <1>3, ElementOfSeq

LEMMA TextsTyped ==
  /\ Title \in [1 .. LineLength + 1 -> Int]
  /\ BlankRow \in [1 .. LineLength -> Int]
<1> DEFINE a == [i \in 1 .. LineLength |-> 84]
<1>1. LineLength \in Nat
  BY Sizes
<1>2. a \in Seq(Int) /\ Len(a) = LineLength
  BY <1>1
<1>3. <<NewlineChar>> \in Seq(Int) /\ Len(<<NewlineChar>>) = 1
  BY DEF NewlineChar
<1>4. Title = a \o <<NewlineChar>>
  BY DEF Title
<1> HIDE DEF a
<1>5. Title \in Seq(Int) /\ Len(Title) = LineLength + 1
  BY <1>2, <1>3, <1>4, ConcatProperties
<1> QED BY <1>5, LenProperties DEF BlankRow, Blank

\* The title and a text behind it, wherever they go.
LEMMA TitleWritten ==
  ASSUME NEW d \in Disp
  PROVE  /\ Puts(Puts(d, Title), Title) \in Disp
         /\ Puts(Puts(d, Title), BlankRow) \in Disp
<1>1. LineLength \in Nat /\ LineLength + 1 \in Nat
  BY Sizes
<1>2. Puts(d, Title) \in Disp
  BY <1>1, TextsTyped, PutsTyped
<1> QED BY <1>1, <1>2, TextsTyped, PutsTyped

\* A buffer's length is that of its text or, if the text fills the buffer,
\* more.
LEMMA LengthsTyped ==
  ASSUME NEW b, NEW n \in Lengths(b)
  PROVE  /\ n \in 0 .. BufferLength + Behind
         /\ n > BufferLength => \A i \in 1 .. BufferLength : b[i] # 0
<1> DEFINE zeros == {i \in 1 .. BufferLength : b[i] = 0}
<1>1. BufferLength \in Nat /\ Behind \in Nat
  BY Sizes
<1>2. CASE zeros = {}
  BY <1>1, <1>2 DEF Lengths
<1>3. CASE zeros # {}
  <2>1. PICK i \in zeros : n = i - 1
    BY <1>3 DEF Lengths
  <2> QED BY <1>1, <2>1
<1> QED BY <1>2, <1>3

\* The place a byte of a text goes to.
LEMMA PlaceInBuffer ==
  ASSUME TInv, state = "data", ~corrupt
  PROVE  cnt \in 1 .. BufferLength /\ BufferLength - cnt + 1 \in 1 .. BufferLength
<1>1. cnt \in Nat /\ cnt > 0 /\ cnt <= BufferLength
  BY DEF TInv, IInv, Ranges, CollectingIsTimed, Counters
<1> QED BY <1>1, Sizes

LEMMA CollectKeepsShapes ==
  ASSUME TInv, NEW b \in Byte, state = "data", Collect(b), ~corrupt
  PROVE  Shapes' /\ flags' \in {0, 1} /\ bright' \in 0 .. 3
<1> DEFINE l == LowNibble(cmd)
           buffer == [line[l].buffer EXCEPT ![BufferLength - cnt + 1] = b]
<1>1. BufferLength - cnt + 1 \in 1 .. BufferLength
  BY PlaceInBuffer
<1>2. b % 2 \in {0, 1}
  BY DEF Byte
<1>3. CASE CollectLine(b)
  <2>1. l \in Line /\ UNCHANGED <<flags, bright>>
    BY <1>3 DEF CollectLine
  <2>2. line[l] \in LineRec
    BY <2>1 DEF TInv, Shapes
  <2>3. buffer \in [1 .. BufferLength -> Byte]
    BY <1>1, <2>2 DEF LineRec
  <2>4. CASE cnt # 1
    <3>1. line' = [line EXCEPT ![l].buffer = buffer] /\ disp' = disp
      BY <1>3, <2>4 DEF CollectLine
    <3> HIDE DEF l, buffer
    <3>2. line' \in [Line -> LineRec]
      BY <2>1, <2>2, <2>3, <3>1 DEF TInv, Shapes, LineRec
    <3>3. \A k \in Line : line'[k].sp = line[k].sp /\ line'[k].length = line[k].length
      BY <2>1, <3>1 DEF TInv, Shapes, LineRec
    <3> QED BY <2>1, <3>1, <3>2, <3>3 DEF TInv, Shapes, Ranges
  <2>5. CASE cnt = 1
    <3>1. PICK n \in Lengths(buffer) :
            line' = [line EXCEPT ![l] = [buffer |-> buffer, sp |-> 0, length |-> n]]
      BY <1>3, <2>5 DEF CollectLine
    <3>2. disp' = LcdUpdate(disp, line'[l], l)
      BY <1>3, <2>5 DEF CollectLine
    <3>3. n \in 0 .. BufferLength + Behind
      BY <3>1, LengthsTyped
    <3> HIDE DEF l, buffer
    <3>4. [buffer |-> buffer, sp |-> 0, length |-> n] \in LineRec
      BY <2>3, <3>3, Sizes DEF LineRec
    <3>5. line' \in [Line -> LineRec] /\ line'[l] \in LineRec
      BY <2>1, <3>1, <3>4 DEF TInv, Shapes
    <3>6. disp' \in Disp
      BY <2>1, <3>2, <3>5, UpdateTyped DEF TInv, Shapes
    <3>7. \A k \in Line : line'[k] = line[k] \/ line'[k].sp = 0
      BY <2>1, <3>1 DEF TInv, Shapes
    <3> QED BY <2>1, <3>5, <3>6, <3>7 DEF TInv, Shapes, Ranges
  <2> QED BY <2>4, <2>5
<1>4. CASE UNCHANGED <<line, disp>>
  <2>1. flags' \in {0, 1} /\ bright' \in 0 .. 3
    BY <1>2, <1>4
    DEF TInv, Ranges, Byte, Collect, CollectLine, CollectOutside, CollectFlags, CollectDim, shown
  <2> QED BY <1>4, <2>1 DEF TInv, Shapes
<1> QED BY <1>3, <1>4 DEF Collect, CollectOutside, CollectFlags, CollectDim, shown

LEMMA ScrollKeepsShapes ==
  ASSUME TInv, Scroll
  PROVE  Shapes'
<1> DEFINE sp == IF line[0].sp < line[0].length - LineLength THEN line[0].sp + 1 ELSE 0
           ln == [line[0] EXCEPT !.sp = sp]
<1>1. line[0] \in LineRec /\ 0 \in Line
  BY Sizes DEF TInv, Shapes
<1>2. /\ line[0].sp \in Nat /\ line[0].length \in Nat /\ line[0].length <= BufferLength + Behind
      /\ line[0].length > LineLength
  BY <1>1, Sizes DEF LineRec, Scroll
<1>3. /\ sp \in 0 .. BufferLength + Behind - LineLength
      /\ sp <= line[0].length - LineLength
  BY <1>2, Sizes
<1>4. line' = [line EXCEPT ![0] = ln] /\ disp' = LcdUpdate(disp, line'[0], 0)
  BY <1>1 DEF Scroll, TInv, Shapes
<1> HIDE DEF sp
<1>5. ln \in LineRec /\ ln.sp = sp /\ ln.length = line[0].length
  BY <1>1, <1>3 DEF LineRec
<1> HIDE DEF ln
<1>6. line' \in [Line -> LineRec] /\ line'[0] = ln /\ \A k \in Line : k # 0 => line'[k] = line[k]
  BY <1>1, <1>4, <1>5 DEF TInv, Shapes
<1>7. disp' \in Disp
  BY <1>1, <1>4, <1>5, <1>6, UpdateTyped DEF TInv, Shapes
<1>8. ASSUME NEW k \in Line, line'[k].sp > 0
      PROVE  k = 0 /\ line'[k].sp <= line'[k].length - LineLength
  BY <1>3, <1>5, <1>6, <1>8 DEF TInv, Shapes
<1> QED BY <1>6, <1>7, <1>8 DEF Shapes

LEMMA TypesKept ==
  ASSUME TInv, [Next]_vars
  PROVE  TInv'
<1>1. IInv'
  <2>1. IInv
    BY DEF TInv
  <2>2. CASE Scroll \/ Undefined \/ UNCHANGED vars
    <3>1. UNCHANGED <<state, cmd, cnt, timer, corrupt, frame, pos, age, quiet, synced, harmed>>
      BY <2>2 DEF Scroll, Undefined, vars, parser, host, history
    <3> QED BY <2>1, <3>1, QuietKeepsInv
  <2> QED
    BY <2>1, <2>2, ReceiveKeepsInv, TimeoutKeepsInv, TickKeepsInv, HostKeepsInv DEF Next
<1>2. CASE Receive
  <2> DEFINE b == frame[pos + 1]
  <2>1. /\ ByteGone /\ (HandleIdle(b) \/ HandleData(b)) /\ ~corrupt
        /\ UNCHANGED lost /\ quiet' = 0
    BY <1>2 DEF Receive, ByteGone
  <2>2. b \in Byte
    BY <2>1, ByteOfFrame DEF TInv
  <2> HIDE DEF b
  <2>3. UartTimeout \in Nat /\ CmdLength(b) <= BufferLength
    BY PanelAssumption, Sizes DEF CmdLength
  <2>4. CASE HandleIdle(b)
    <3>1. cmd' \in Byte /\ cnt' <= BufferLength
      BY <2>2, <2>3, <2>4 DEF HandleIdle, parser, TInv, Ranges
    <3>2. UNCHANGED <<line, flags, disp, bright>>
      BY <2>4 DEF HandleIdle, shown
    <3> QED BY <1>1, <2>1, <2>3, <3>1, <3>2 DEF TInv, Shapes, Ranges
  <2>5. CASE HandleData(b)
    <3>1. state = "data" /\ Collect(b) /\ cnt' = cnt - 1 /\ cmd' = cmd
      BY <2>5 DEF HandleData
    <3>2. cnt' <= BufferLength
      BY <3>1, Sizes DEF TInv, Ranges, IInv, Counters
    <3>3. Shapes' /\ flags' \in {0, 1} /\ bright' \in 0 .. 3
      BY <2>1, <2>2, <3>1, CollectKeepsShapes
    <3> QED BY <1>1, <2>1, <2>3, <3>1, <3>2, <3>3 DEF TInv, Ranges
  <2> QED BY <2>1, <2>4, <2>5
<1>3. CASE Timeout
  <2>1. disp' \in Disp
    BY <1>3, TitleWritten DEF Timeout, TInv, Shapes
  <2>2. cnt' = 0 /\ UNCHANGED <<cmd, line, flags, bright, lost, quiet>>
    BY <1>3 DEF Timeout, host
  <2> QED BY <1>1, <2>1, <2>2, Sizes DEF TInv, Shapes, Ranges
<1>4. CASE Scroll
  <2>1. UNCHANGED <<cmd, cnt, flags, bright, lost, quiet>>
    BY <1>4 DEF Scroll, parser, host
  <2> QED BY <1>1, <1>4, <2>1, ScrollKeepsShapes DEF TInv, Ranges
<1>5. CASE Lose \/ Cut \/ Tick \/ (\E f \in Frames : Begin(f)) \/ Undefined \/ UNCHANGED vars
  <2>1. UNCHANGED <<cmd, cnt, line, flags, disp, bright>>
    BY <1>5 DEF Lose, Cut, Tick, Begin, Undefined, vars, parser, shown
  <2>2. LossMax \in Nat /\ UartTimeout \in Nat
    BY PanelAssumption
  <2>3. lost' \in 0 .. LossMax
    BY <1>5, <2>2 DEF Lose, Cut, Tick, Begin, Undefined, vars, host, TInv, Ranges
  <2>4. quiet' <= UartTimeout + 1
    BY <1>5, <2>2
    DEF Lose, Cut, Tick, Begin, Undefined, vars, host, ByteGone, TInv, Ranges, IInv, Counters
  <2> QED BY <1>1, <2>1, <2>3, <2>4 DEF TInv, Shapes, Ranges
<1> QED BY <1>2, <1>3, <1>4, <1>5 DEF Next

LEMMA TypesAtStart ==
  ASSUME Init
  PROVE  TInv
<1>1. IInv
  BY PanelAssumption
  DEF Init, IInv, Counters, CollectingIsTimed, InStep, SilenceIsTimed, Disturbed, Sending, Off
<1>2. Cleared \in Disp
  BY CellsOfRows DEF Cleared, Disp, Cells, Blank
<1>3. disp \in Disp
  BY <1>2, TitleWritten DEF Init
<1>4. line \in [Line -> LineRec] /\ \A l \in Line : line[l].sp = 0
  BY Sizes DEF Init, LineRec, Byte
<1> QED BY <1>1, <1>3, <1>4, Sizes, PanelAssumption DEF Init, TInv, Shapes, Ranges, Byte

LEMMA PanelTyped == Spec => []TInv
<1>1. Init => TInv
  BY TypesAtStart
<1>2. TInv /\ [Next]_vars => TInv'
  BY TypesKept
<1> QED BY <1>1, <1>2, PTL DEF Spec

\* Every variable keeps to its type: no length or scroll position leaves its
\* byte's range, and the display is only written where it has cells.
THEOREM PanelTypes == Spec => []TypeOK
<1>1. TInv => TypeOK
  <2> SUFFICES ASSUME TInv
               PROVE  TypeOK
    OBVIOUS
  <2>1. \A l \in Line : line[l] \in LineRec
    BY DEF TInv, Shapes
  <2>2. disp.ac \in 0 .. 2 * RowCells - 1
    BY DEF TInv, Shapes, Disp, Cells
  <2>3. cnt \in 0 .. BufferLength /\ quiet \in 0 .. UartTimeout + 1
    BY Sizes, PanelAssumption DEF TInv, Ranges, IInv, Counters
  <2> QED BY <2>1, <2>2, <2>3 DEF TInv, Ranges, IInv, Counters, LineRec, TypeOK
<1> QED BY <1>1, PanelTyped, PTL
-----------------------------------------------------------------------------
(* What the host sent is what the panel shows.                             *)

\* The host's texts and settings hold no newline, which would take the rest
\* of a text to the other row.
PlainFrames == \A f \in Frames : \A i \in 1 .. Len(f) : f[i] # NewlineChar

NoNewlines == \A l \in Line : \A i \in 1 .. BufferLength : line[l].buffer[i] # NewlineChar

WantShape == want \in [line : [Line -> Seq(Byte)], flags : Seq(Byte), dim : Seq(Byte)]

\* Nothing is promised before host and panel are together.
NothingBefore == ~synced => want = NothingWanted

\* A text for line l is on its way.
Filling(l) ==
  /\ Sending /\ HighNibble(frame[1]) = LcdUpdateCmd
  /\ LowNibble(frame[1]) = l /\ pos > 0

\* What has come of it is in the buffer.
Filled ==
  synced => \A l \in Line : Filling(l) => \A i \in 1 .. pos - 1 : line[l].buffer[i] = frame[i + 1]

\* What lcd_update() shows of a text from a position on.
Part(text, from) == Window([buffer |-> text, sp |-> from])

Held ==
  \A l \in Line : want.line[l] # Unknown =>
    /\ ~Filling(l) => line[l].buffer = want.line[l]
    /\ line[l].length \in Lengths(want.line[l])
    /\ ~(Filling(l) /\ flags = 1) => Row(disp, l) = Part(want.line[l], line[l].sp)

Settings ==
  /\ want.flags # Unknown => want.flags[1] % 2 = flags
  /\ want.dim # Unknown => want.dim = <<bright>>

FInv == TInv /\ NoNewlines /\ WantShape /\ NothingBefore /\ Filled /\ Held /\ Settings

LEMMA FrameText ==
  ASSUME NEW f \in Frames
  PROVE  /\ Text(f) \in Seq(Byte)
         /\ \A i \in 1 .. Len(f) - 1 : Text(f)[i] = f[i + 1]
         /\ HighNibble(f[1]) = LcdUpdateCmd =>
              /\ Len(f) = 1 + BufferLength
              /\ Text(f) \in [1 .. BufferLength -> Byte]
         /\ HighNibble(f[1]) # LcdUpdateCmd => Len(f) = 2 /\ Text(f) = <<f[2]>>
<1>1. f \in Seq(Byte) /\ f # << >> /\ Len(f) \in Nat
  BY PanelAssumption, FrameShape DEF Unknown
<1>2. Len(f) = IF HighNibble(f[1]) = LcdUpdateCmd THEN 1 + BufferLength ELSE 2
  BY PanelAssumption
<1>3. /\ Text(f) \in Seq(Byte) /\ Len(Text(f)) = Len(f) - 1
      /\ \A i \in 1 .. Len(f) - 1 : Text(f)[i] = f[i + 1]
  <2>1. /\ Tail(f) \in Seq(Byte) /\ Len(Tail(f)) = Len(f) - 1
        /\ \A i \in 1 .. Len(Tail(f)) : Tail(f)[i] = f[i + 1]
    BY <1>1, HeadTailProperties
  <2> QED BY <2>1 DEF Text
<1>4. Text(f) \in [1 .. Len(f) - 1 -> Byte]
  BY <1>3, LenProperties
<1>5. CASE HighNibble(f[1]) = LcdUpdateCmd
  <2>1. Len(f) - 1 = BufferLength
    BY <1>2, <1>5, Sizes
  <2> QED BY <1>2, <1>3, <1>4, <1>5, <2>1
<1>6. CASE HighNibble(f[1]) # LcdUpdateCmd
  <2>1. Len(f) = 2 /\ Len(Text(f)) = 1 /\ Text(f)[1] = f[2]
    BY <1>2, <1>3, <1>6
  <2>2. Text(f) = <<f[2]>>
    BY <1>3, <2>1
  <2> QED BY <1>3, <1>6, <2>1, <2>2
<1> QED BY <1>5, <1>6

LEMMA PlainByte ==
  ASSUME PlainFrames, IInv, ByteGone
  PROVE  frame[pos + 1] # NewlineChar
<1>1. frame \in Frames /\ pos \in Nat /\ pos < Len(frame) /\ Len(frame) \in Nat
  BY WireKeepsCounters, FrameShape DEF IInv, ByteGone, Counters
<1>2. pos + 1 \in 1 .. Len(frame)
  BY <1>1
<1> QED BY <1>1, <1>2 DEF PlainFrames

LEMMA WindowSame ==
  ASSUME NEW ln
  PROVE  Window(ln) = Part(ln.buffer, ln.sp)
BY DEF Window, Part, Char

\* The timeout comes only after a disturbance.
LEMMA TimeoutIsLate ==
  ASSUME IInv, Timeout
  PROVE  ~synced
<1> SUFFICES ASSUME synced
             PROVE  FALSE
  OBVIOUS
<1>0. timer = 0
  BY DEF Timeout
<1>1. CASE pos = 0
  BY <1>0, <1>1 DEF IInv, InStep, CollectingIsTimed, Off
<1>2. CASE pos > 0
  BY <1>0, <1>2, PanelAssumption DEF IInv, InStep, Counters
<1> QED BY <1>1, <1>2 DEF IInv, Counters

\* After a disturbance nothing is to be shown.
LEMMA NothingHeld ==
  ASSUME want' = NothingWanted, synced' => ~Sending'
  PROVE  WantShape' /\ NothingBefore' /\ Filled' /\ Held' /\ Settings'
<1>1. /\ want'.line = [l \in Line |-> Unknown]
      /\ want'.flags = Unknown /\ want'.dim = Unknown
  BY DEF NothingWanted
<1>2. WantShape'
  <2>1. Unknown \in Seq(Byte)
    BY EmptySeq DEF Unknown
  <2> QED BY <2>1 DEF WantShape, NothingWanted
<1>3. Filled'
  BY DEF Filled, Filling
<1>4. Held'
  BY <1>1 DEF Held
<1> QED BY <1>1, <1>2, <1>3, <1>4 DEF NothingBefore, Settings

\* Nothing of it changes.
LEMMA StillHeld ==
  ASSUME WantShape, NothingBefore, Filled, Held, Settings,
         UNCHANGED <<line, flags, disp, bright, synced, want>>,
         \/ UNCHANGED <<frame, pos>>
         \/ pos' = 0 /\ pos = 0
  PROVE  WantShape' /\ NothingBefore' /\ Filled' /\ Held' /\ Settings'
<1>1. WantShape' /\ NothingBefore' /\ Settings'
  BY DEF WantShape, NothingBefore, Settings
<1>2. \A l \in Line : Filling(l)' <=> Filling(l)
  BY DEF Filling, Sending
<1>3. Filled'
  BY <1>2 DEF Filled, Filling, Sending
<1>4. Held'
  BY <1>2 DEF Held
<1> QED BY <1>1, <1>3, <1>4
\* No buffer ever holds a newline.
LEMMA ReceivePlain ==
  ASSUME PlainFrames, TInv, NoNewlines, Receive
  PROVE  NoNewlines'
<1> DEFINE b == frame[pos + 1]
<1>1. /\ ByteGone /\ (HandleIdle(b) \/ HandleData(b)) /\ ~corrupt
  BY DEF Receive, ByteGone
<1>2. b # NewlineChar
  BY <1>1, PlainByte DEF TInv
<1> HIDE DEF b
<1>3. CASE UNCHANGED line
  BY <1>3 DEF NoNewlines
<1>4. CASE state = "data" /\ CollectLine(b)
  <2> DEFINE l == LowNibble(cmd)
             buffer == [line[l].buffer EXCEPT ![BufferLength - cnt + 1] = b]
  <2>1. l \in Line /\ line[l] \in LineRec /\ line \in [Line -> LineRec]
    BY <1>4 DEF CollectLine, TInv, Shapes
  <2>2. \A k \in Line : k # l => line'[k] = line[k]
    BY <1>4, <2>1 DEF CollectLine
  <2>3. line'[l].buffer = buffer
    BY <1>4, <2>1 DEF CollectLine, LineRec
  <2>4. \A i \in 1 .. BufferLength : buffer[i] = b \/ buffer[i] = line[l].buffer[i]
    BY <2>1 DEF LineRec
  <2> HIDE DEF l, buffer
  <2> QED BY <1>2, <2>1, <2>2, <2>3, <2>4 DEF NoNewlines
<1> QED
  BY <1>1, <1>3, <1>4
  DEF HandleIdle, HandleData, Collect, CollectOutside, CollectFlags, CollectDim, shown

\* The header of a frame comes.
LEMMA HeaderKeeps ==
  ASSUME FInv, synced, Receive, state = "idle"
  PROVE  WantShape' /\ NothingBefore' /\ Filled' /\ Held' /\ Settings'
<1> USE DEF FInv
<1>1. /\ ByteGone /\ HandleIdle(frame[pos + 1]) /\ synced' = synced
      /\ want' = IF synced /\ frame' = Unknown THEN Wanted(frame) ELSE want
  BY DEF Receive, HandleData
<1>2. pos = 0
  BY DEF TInv, IInv, InStep, Counters
<1>3. pos' = 1 /\ frame' = frame /\ Sending /\ want' = want
  <2>1. frame \in Frames /\ Sending
    BY <1>1, WireKeepsCounters DEF TInv, IInv, ByteGone
  <2>2. Len(frame) \in Nat /\ Len(frame) >= 2 /\ frame # Unknown
    BY <2>1, FrameShape
  <2> QED BY <1>1, <1>2, <2>1, <2>2 DEF ByteGone
<1>4. UNCHANGED <<line, flags, disp, bright>>
  BY <1>1 DEF HandleIdle, shown
<1>5. WantShape' /\ NothingBefore' /\ Settings'
  BY <1>1, <1>3, <1>4 DEF WantShape, NothingBefore, Settings
<1>6. Filled'
  BY <1>3 DEF Filled
<1>7. Held'
  <2>1. \A l \in Line : ~Filling(l)
    BY <1>2 DEF Filling
  <2> QED BY <1>3, <1>4, <2>1 DEF Held
<1> QED BY <1>5, <1>6, <1>7

\* A byte of a text comes, not the last.
LEMMA TextGrows ==
  ASSUME FInv, synced, Receive, state = "data", CollectLine(frame[pos + 1]), cnt # 1
  PROVE  WantShape' /\ NothingBefore' /\ Filled' /\ Held' /\ Settings'
<1> USE DEF FInv
<1> DEFINE l == LowNibble(cmd)
           b == frame[pos + 1]
           at == BufferLength - cnt + 1
<1>1. /\ ByteGone /\ synced' = synced /\ ~corrupt
      /\ want' = IF synced /\ frame' = Unknown THEN Wanted(frame) ELSE want
  BY DEF Receive, ByteGone
<1>2. pos > 0 /\ pos \in Nat /\ cmd = frame[1] /\ cnt = Len(frame) - pos
  BY DEF TInv, IInv, InStep, Counters
<1>3. frame \in Frames /\ Sending /\ frame # Unknown
  BY <1>1, WireKeepsCounters, FrameShape DEF TInv, IInv, ByteGone
<1>4. /\ Len(frame) = 1 + BufferLength /\ HighNibble(frame[1]) = LcdUpdateCmd
      /\ l \in Line /\ LowNibble(frame[1]) = l
  BY <1>2, <1>3, FrameText DEF CollectLine
<1>5. at = pos /\ at \in 1 .. BufferLength /\ pos + 1 < Len(frame)
  <2>1. cnt \in 1 .. BufferLength /\ at \in 1 .. BufferLength
    BY <1>1, PlaceInBuffer
  <2> QED BY <1>2, <1>4, <2>1, Sizes
<1>6. pos' = pos + 1 /\ frame' = frame /\ want' = want
  BY <1>1, <1>3, <1>5 DEF ByteGone
<1>7. line \in [Line -> LineRec]
  BY DEF TInv, Shapes
<1>8. /\ line' = [line EXCEPT ![l].buffer = [line[l].buffer EXCEPT ![at] = b]]
      /\ UNCHANGED <<disp, flags, bright>>
  BY DEF CollectLine
<1> HIDE DEF l, b, at
<1>9. /\ line'[l].buffer = [line[l].buffer EXCEPT ![at] = b]
      /\ line'[l].sp = line[l].sp /\ line'[l].length = line[l].length
      /\ \A k \in Line : k # l => line'[k] = line[k]
  BY <1>4, <1>7, <1>8 DEF LineRec
<1>10. \A k \in Line : (Filling(k) <=> k = l) /\ (Filling(k)' <=> k = l)
  BY <1>2, <1>3, <1>4, <1>6 DEF Filling, Sending
<1>11. WantShape' /\ NothingBefore' /\ Settings'
  BY <1>1, <1>6, <1>8 DEF WantShape, NothingBefore, Settings
<1>12. Filled'
  <2>1. ASSUME NEW i \in 1 .. pos
        PROVE  line'[l].buffer[i] = frame[i + 1]
    <3>0. line[l].buffer \in [1 .. BufferLength -> Byte]
      BY <1>4, <1>7 DEF LineRec
    <3>1. CASE i = pos
      <4>1. line'[l].buffer[i] = b
        BY <1>5, <1>9, <3>0, <3>1
      <4> QED BY <3>1, <4>1 DEF b
    <3>2. CASE i # pos
      <4>1. i \in 1 .. pos - 1
        BY <1>2, <3>2
      <4>2. line'[l].buffer[i] = line[l].buffer[i]
        BY <1>5, <1>9, <3>0, <3>2
      <4>3. line[l].buffer[i] = frame[i + 1]
        BY <1>4, <1>10, <4>1 DEF Filled
      <4> QED BY <4>2, <4>3
    <3> QED BY <3>1, <3>2
  <2>2. pos' - 1 = pos
    BY <1>2, <1>6
  <2> QED BY <1>6, <1>10, <2>1, <2>2 DEF Filled
<1>13. Held'
  <2>1. ASSUME NEW k \in Line, want.line[k] # Unknown
        PROVE  /\ ~Filling(k)' => line'[k].buffer = want.line[k]
               /\ line'[k].length \in Lengths(want.line[k])
               /\ ~(Filling(k)' /\ flags = 1) => Row(disp, k) = Part(want.line[k], line'[k].sp)
    <3>1. /\ ~Filling(k) => line[k].buffer = want.line[k]
          /\ line[k].length \in Lengths(want.line[k])
          /\ ~(Filling(k) /\ flags = 1) => Row(disp, k) = Part(want.line[k], line[k].sp)
      BY <2>1 DEF Held
    <3>2. line'[k].sp = line[k].sp /\ line'[k].length = line[k].length
      BY <1>9
    <3>3. k # l => line'[k].buffer = line[k].buffer
      BY <1>9
    <3> QED BY <1>10, <3>1, <3>2, <3>3
  <2> QED BY <1>6, <1>8, <2>1 DEF Held
<1> QED BY <1>11, <1>12, <1>13

LEMMA SameFunction ==
  ASSUME NEW S, NEW T, NEW f \in [S -> T], NEW g \in [S -> T],
         \A i \in S : f[i] = g[i]
  PROVE  f = g
OBVIOUS

\* The last byte of a text comes, and the text is shown.
LEMMA TextShown ==
  ASSUME PlainFrames, FInv, synced, Receive, state = "data",
         CollectLine(frame[pos + 1]), cnt = 1
  PROVE  WantShape' /\ NothingBefore' /\ Filled' /\ Held' /\ Settings'
<1> USE DEF FInv
<1> DEFINE l == LowNibble(cmd)
           b == frame[pos + 1]
           at == BufferLength - cnt + 1
           buffer == [line[l].buffer EXCEPT ![at] = b]
<1>1. /\ ByteGone /\ synced' = synced /\ ~corrupt
      /\ want' = IF synced /\ frame' = Unknown THEN Wanted(frame) ELSE want
  BY DEF Receive, ByteGone
<1>2. pos > 0 /\ pos \in Nat /\ cmd = frame[1] /\ cnt = Len(frame) - pos
  BY DEF TInv, IInv, InStep, Counters
<1>3. frame \in Frames /\ Sending /\ frame # Unknown
  BY <1>1, WireKeepsCounters, FrameShape DEF TInv, IInv, ByteGone
<1>4. /\ Len(frame) = 1 + BufferLength /\ HighNibble(frame[1]) = LcdUpdateCmd
      /\ l \in Line /\ LowNibble(frame[1]) = l
      /\ Text(frame) \in [1 .. BufferLength -> Byte] /\ Text(frame) \in Seq(Byte)
      /\ \A i \in 1 .. BufferLength : Text(frame)[i] = frame[i + 1]
  <2>1. HighNibble(frame[1]) = LcdUpdateCmd /\ l \in Line /\ LowNibble(frame[1]) = l
    BY <1>2 DEF CollectLine
  <2>2. /\ Len(frame) = 1 + BufferLength
        /\ Text(frame) \in [1 .. BufferLength -> Byte] /\ Text(frame) \in Seq(Byte)
        /\ \A i \in 1 .. Len(frame) - 1 : Text(frame)[i] = frame[i + 1]
    BY <1>3, <2>1, FrameText
  <2>3. Len(frame) - 1 = BufferLength
    BY <2>2, Sizes
  <2> QED BY <2>1, <2>2, <2>3
<1>5. at = pos /\ at = BufferLength /\ at \in 1 .. BufferLength /\ ~(pos + 1 < Len(frame))
  BY <1>2, <1>4, Sizes
<1>6. pos' = 0 /\ frame' = Unknown /\ want' = [want EXCEPT !.line[l] = Text(frame)]
  BY <1>1, <1>3, <1>4, <1>5 DEF ByteGone, Wanted
<1>7. line \in [Line -> LineRec] /\ disp \in Disp
  BY DEF TInv, Shapes
<1>8. /\ UNCHANGED <<flags, bright>>
      /\ \E n \in Lengths(buffer) :
           line' = [line EXCEPT ![l] = [buffer |-> buffer, sp |-> 0, length |-> n]]
      /\ disp' = LcdUpdate(disp, line'[l], l)
  BY DEF CollectLine
<1>9. buffer = Text(frame)
  <2>0. line[l].buffer \in [1 .. BufferLength -> Byte] /\ b \in Byte
    BY <1>1, <1>4, <1>7, ByteOfFrame DEF LineRec, TInv
  <2>1. ASSUME NEW i \in 1 .. BufferLength
        PROVE  buffer[i] = Text(frame)[i]
    <3>1. CASE i = pos
      <4>1. buffer[i] = b
        BY <1>5, <2>0, <3>1
      <4> QED BY <1>4, <3>1, <4>1
    <3>2. CASE i # pos
      <4>1. i \in 1 .. pos - 1
        BY <1>5, <3>2
      <4>2. buffer[i] = line[l].buffer[i]
        BY <1>5, <2>0, <3>2
      <4>3. Filling(l)
        BY <1>2, <1>3, <1>4 DEF Filling
      <4>4. line[l].buffer[i] = frame[i + 1]
        BY <1>4, <4>1, <4>3 DEF Filled
      <4> QED BY <1>4, <4>2, <4>4
    <3> QED BY <3>1, <3>2
  <2>2. buffer \in [1 .. BufferLength -> Byte]
    BY <1>5, <2>0
  <2>3. Text(frame) \in [1 .. BufferLength -> Byte]
    BY <1>4
  <2> QED BY ONLY <2>1, <2>2, <2>3, SameFunction
<1> HIDE DEF l, b, at, buffer
<1>10. PICK n \in Lengths(buffer) :
         line' = [line EXCEPT ![l] = [buffer |-> buffer, sp |-> 0, length |-> n]]
  BY <1>8
<1>11. /\ line'[l] = [buffer |-> Text(frame), sp |-> 0, length |-> n]
       /\ n \in Lengths(Text(frame))
       /\ \A k \in Line : k # l => line'[k] = line[k]
  BY <1>4, <1>7, <1>9, <1>10
<1>12. line'[l] \in LineRec
  <2>1. n \in 0 .. BufferLength + Behind
    BY <1>11, LengthsTyped
  <2> QED BY <1>4, <1>11, <2>1, Sizes DEF LineRec
<1>13. /\ Row(disp', l) = Part(Text(frame), 0)
       /\ \A k \in Line : k # l => Row(disp', k) = Row(disp, k)
  <2>1. ASSUME NEW i \in 1 .. BufferLength
        PROVE  line'[l].buffer[i] # NewlineChar
    <3>1. NoNewlines'
      BY ReceivePlain
    <3> QED BY <1>4, <3>1 DEF NoNewlines
  <2>2. /\ Row(disp', l) = Window(line'[l])
        /\ \A k \in Line : k # l => Row(disp', k) = Row(disp, k)
    BY <1>4, <1>7, <1>8, <1>12, <2>1, UpdateShows
  <2>3. line'[l].buffer = Text(frame) /\ line'[l].sp = 0
    BY <1>11
  <2> QED BY <2>2, <2>3, WindowSame
<1>14. /\ want'.line[l] = Text(frame) /\ \A k \in Line : k # l => want'.line[k] = want.line[k]
       /\ want'.flags = want.flags /\ want'.dim = want.dim
       /\ WantShape'
  BY <1>4, <1>6 DEF WantShape
<1>15. NothingBefore' /\ Settings'
  BY <1>1, <1>8, <1>14 DEF NothingBefore, Settings
<1>16. \A k \in Line : ~Filling(k)' /\ (k # l => ~Filling(k))
  BY <1>4, <1>6 DEF Filling
<1>17. Filled'
  BY <1>16 DEF Filled
<1>18. Held'
  <2>1. ASSUME NEW k \in Line, want'.line[k] # Unknown
        PROVE  /\ line'[k].buffer = want'.line[k]
               /\ line'[k].length \in Lengths(want'.line[k])
               /\ Row(disp', k) = Part(want'.line[k], line'[k].sp)
    <3>1. CASE k = l
      BY <1>11, <1>13, <1>14, <3>1
    <3>2. CASE k # l
      BY <1>11, <1>13, <1>14, <1>16, <2>1, <3>2 DEF Held
    <3> QED BY <3>1, <3>2
  <2> QED BY <2>1 DEF Held
<1> QED BY <1>14, <1>15, <1>17, <1>18

\* A setting comes.
LEMMA SettingKeeps ==
  ASSUME FInv, synced, Receive, state = "data",
         CollectFlags(frame[pos + 1]) \/ CollectDim(frame[pos + 1])
  PROVE  WantShape' /\ NothingBefore' /\ Filled' /\ Held' /\ Settings'
<1> USE DEF FInv
<1> DEFINE b == frame[pos + 1]
<1>1. /\ ByteGone /\ synced' = synced
      /\ want' = IF synced /\ frame' = Unknown THEN Wanted(frame) ELSE want
  BY DEF Receive
<1>2. pos > 0 /\ pos \in Nat /\ cmd = frame[1] /\ cnt = Len(frame) - pos
  BY DEF TInv, IInv, InStep, Counters
<1>3. frame \in Frames /\ Sending /\ pos < Len(frame)
  BY <1>1, WireKeepsCounters DEF TInv, IInv, ByteGone, Counters
<1>4. /\ HighNibble(frame[1]) # LcdUpdateCmd
      /\ Len(frame) = 2 /\ Text(frame) = <<frame[2]>> /\ Text(frame) \in Seq(Byte)
  <2>1. HighNibble(frame[1]) # LcdUpdateCmd
    BY <1>2 DEF CollectFlags, CollectDim, LcdUpdateCmd, LcdFlagsCmd, LcdDimCmd
  <2> QED BY <1>3, <2>1, FrameText
<1>5. pos = 1 /\ b = frame[2]
  <2>1. pos = 1
    BY <1>2, <1>3, <1>4
  <2> QED BY <2>1
<1>6. pos' = 0 /\ frame' = Unknown /\ want' = Wanted(frame)
  BY <1>1, <1>4, <1>5 DEF ByteGone
<1> HIDE DEF b
<1>7. CollectFlags(b) \/ CollectDim(b)
  BY DEF b
<1>8. UNCHANGED <<line, disp>>
  BY <1>7 DEF CollectFlags, CollectDim
<1>9. want'.line = want.line /\ WantShape' /\ NothingBefore' /\ Settings'
  <2>1. CASE CollectFlags(b)
    <3>1. HighNibble(frame[1]) = LcdFlagsCmd /\ flags' = b % 2 /\ bright' = bright
      BY <1>2, <2>1 DEF CollectFlags
    <3>2. want' = [want EXCEPT !.flags = Text(frame)]
      BY <1>4, <1>6, <3>1 DEF Wanted
    <3>3. /\ want'.line = want.line /\ want'.flags = Text(frame) /\ want'.dim = want.dim
          /\ WantShape'
      BY <1>4, <3>2 DEF WantShape
    <3>4. Text(frame)[1] = b
      BY <1>4, <1>5
    <3> QED BY <1>1, <3>1, <3>3, <3>4 DEF NothingBefore, Settings
  <2>2. CASE CollectDim(b)
    <3>1. /\ HighNibble(frame[1]) = LcdDimCmd /\ bright' = (IF b < 4 THEN b ELSE bright)
          /\ flags' = flags
      BY <1>2, <2>2 DEF CollectDim
    <3>2. want' = IF b < 4 THEN [want EXCEPT !.dim = Text(frame)] ELSE want
      BY <1>4, <1>5, <1>6, <3>1 DEF Wanted, LcdFlagsCmd, LcdDimCmd
    <3>3. /\ want'.line = want.line /\ want'.flags = want.flags
          /\ want'.dim = (IF b < 4 THEN Text(frame) ELSE want.dim)
          /\ WantShape'
      BY <1>4, <3>2 DEF WantShape
    <3> QED BY <1>1, <1>4, <1>5, <3>1, <3>3 DEF NothingBefore, Settings
  <2> QED BY <1>7, <2>1, <2>2
<1>10. \A k \in Line : ~Filling(k)' /\ ~Filling(k)
  BY <1>4, <1>6 DEF Filling
<1>11. Filled'
  BY <1>10 DEF Filled
<1>12. Held'
  BY <1>8, <1>9, <1>10 DEF Held
<1> QED BY <1>9, <1>11, <1>12
\* The first line moves on; what it shows is still of the text in the buffer.
LEMMA ScrollKeeps ==
  ASSUME FInv, Scroll
  PROVE  NoNewlines' /\ WantShape' /\ NothingBefore' /\ Filled' /\ Held' /\ Settings'
<1> USE DEF FInv
<1>1. line \in [Line -> LineRec] /\ disp \in Disp /\ 0 \in Line
  BY Sizes DEF TInv, Shapes
<1>2. /\ flags = 1 /\ UNCHANGED <<flags, bright, frame, pos, synced, want>>
      /\ disp' = LcdUpdate(disp, line'[0], 0)
  BY DEF Scroll, host, history
<1>3. /\ line'[0].buffer = line[0].buffer /\ line'[0].length = line[0].length
      /\ \A k \in Line : k # 0 => line'[k] = line[k]
  BY <1>1 DEF Scroll, LineRec
<1>4. line'[0] \in LineRec
  <2>1. Shapes'
    BY ScrollKeepsShapes
  <2> QED BY <1>1, <2>1 DEF Shapes
<1>5. NoNewlines'
  BY <1>3 DEF NoNewlines
<1>6. \A k \in Line : Filling(k)' <=> Filling(k)
  BY <1>2 DEF Filling, Sending
<1>7. Filled'
  <2>1. \A k \in Line : line'[k].buffer = line[k].buffer
    BY <1>3
  <2> QED BY <1>2, <1>6, <2>1 DEF Filled
<1>8. WantShape' /\ NothingBefore' /\ Settings'
  BY <1>2 DEF WantShape, NothingBefore, Settings
<1>9. /\ Row(disp', 0) = Part(line[0].buffer, line'[0].sp)
      /\ \A k \in Line : k # 0 => Row(disp', k) = Row(disp, k)
  <2>1. \A i \in 1 .. BufferLength : line'[0].buffer[i] # NewlineChar
    BY <1>1, <1>5 DEF NoNewlines
  <2>2. /\ Row(disp', 0) = Window(line'[0])
        /\ \A k \in Line : k # 0 => Row(disp', k) = Row(disp, k)
    BY <1>1, <1>2, <1>4, <2>1, UpdateShows
  <2> QED BY <1>3, <2>2, WindowSame
<1>10. Held'
  <2>1. ASSUME NEW k \in Line, want.line[k] # Unknown
        PROVE  /\ ~Filling(k) => line'[k].buffer = want.line[k]
               /\ line'[k].length \in Lengths(want.line[k])
               /\ ~(Filling(k) /\ flags = 1) => Row(disp', k) = Part(want.line[k], line'[k].sp)
    <3>1. /\ ~Filling(k) => line[k].buffer = want.line[k]
          /\ line[k].length \in Lengths(want.line[k])
          /\ ~(Filling(k) /\ flags = 1) => Row(disp, k) = Part(want.line[k], line[k].sp)
      BY <2>1 DEF Held
    <3>2. CASE k = 0
      BY <1>2, <1>3, <1>9, <3>1, <3>2
    <3>3. CASE k # 0
      BY <1>3, <1>9, <3>1, <3>3
    <3> QED BY <3>2, <3>3
  <2> QED BY <1>2, <1>6, <2>1 DEF Held
<1> QED BY <1>5, <1>7, <1>8, <1>10

LEMMA ShownKept ==
  ASSUME PlainFrames, FInv, [Next]_vars
  PROVE  FInv'
<1> USE DEF FInv
<1>0. TInv'
  BY TypesKept
<1>1. CASE Receive
  <2>1. NoNewlines'
    BY <1>1, ReceivePlain
  <2>2. CASE ~synced
    <3>1. want = NothingWanted /\ synced' = synced /\ want' = want
      BY <1>1, <2>2 DEF NothingBefore, Receive
    <3> QED BY <1>0, <2>1, <2>2, <3>1, NothingHeld
  <2>3. CASE synced /\ state = "idle"
    BY <1>0, <1>1, <2>1, <2>3, HeaderKeeps
  <2>4. CASE synced /\ state = "data"
    <3>1. Collect(frame[pos + 1])
      BY <1>1, <2>4 DEF Receive, HandleIdle, HandleData
    <3>2. ~CollectOutside(frame[pos + 1])
      <4>1. /\ pos > 0 /\ cmd = frame[1]
        BY <2>4 DEF TInv, IInv, InStep, Counters
      <4>2. frame \in Frames
        BY <1>1, WireKeepsCounters DEF TInv, IInv, Receive
      <4> QED BY <4>1, <4>2, FrameShape DEF CollectOutside
    <3> QED
      BY <1>0, <1>1, <2>1, <2>4, <3>1, <3>2, TextGrows, TextShown, SettingKeeps DEF Collect
  <2>5. state \in {"idle", "data"} /\ synced \in BOOLEAN
    BY DEF TInv, IInv, Disturbed
  <2> QED BY <2>2, <2>3, <2>4, <2>5
<1>2. CASE Timeout
  <2>1. ~synced
    BY <1>2, TimeoutIsLate DEF TInv
  <2>2. want = NothingWanted /\ synced' = synced /\ line' = line
        /\ want' = [want EXCEPT !.line = NothingWanted.line]
    BY <1>2, <2>1 DEF NothingBefore, Timeout
  <2>3. want' = NothingWanted
    BY <2>2 DEF NothingWanted
  <2>4. NoNewlines'
    BY <2>2 DEF NoNewlines
  <2> QED BY <1>0, <2>1, <2>2, <2>3, <2>4, NothingHeld
<1>3. CASE Scroll
  BY <1>0, <1>3, ScrollKeeps
<1>4. CASE Lose \/ Cut
  <2>1. want' = NothingWanted /\ synced' = FALSE /\ line' = line
    BY <1>4 DEF Lose, Cut, shown
  <2>2. NoNewlines'
    BY <2>1 DEF NoNewlines
  <2> QED BY <1>0, <2>1, <2>2, NothingHeld
<1>5. CASE Tick
  <2>1. UNCHANGED <<line, flags, disp, bright, frame, pos>>
    BY <1>5 DEF Tick, shown
  <2>2. NoNewlines'
    BY <2>1 DEF NoNewlines
  <2>3. CASE Sending /\ age' = UartTimeout
    <3>1. want' = NothingWanted /\ synced' = FALSE
      BY <1>5, <2>3 DEF Tick
    <3> QED BY <1>0, <2>2, <3>1, NothingHeld
  <2>4. CASE ~(Sending /\ age' = UartTimeout)
    <3>1. synced' = (synced \/ (~Sending /\ quiet' > UartTimeout)) /\ want' = want
      BY <1>5, <2>4 DEF Tick
    <3>2. CASE synced
      <4>1. synced' = synced
        BY <3>1, <3>2 DEF TInv, IInv, Disturbed
      <4> QED BY <1>0, <2>1, <2>2, <3>1, <4>1, StillHeld
    <3>3. CASE ~synced
      <4>1. want' = NothingWanted
        BY <3>1, <3>3 DEF NothingBefore
      <4>2. synced' => ~Sending'
        BY <2>1, <3>1, <3>3 DEF Sending
      <4> QED BY <1>0, <2>2, <4>1, <4>2, NothingHeld
    <3> QED BY <3>2, <3>3
  <2> QED BY <2>3, <2>4
<1>6. CASE \E f \in Frames : Begin(f)
  <2>1. UNCHANGED <<line, flags, disp, bright, synced, want, pos>> /\ ~Sending
    BY <1>6 DEF Begin, shown, history
  <2>2. pos = 0
    BY <2>1 DEF TInv, IInv, Counters
  <2>3. NoNewlines'
    BY <2>1 DEF NoNewlines
  <2> QED BY <1>0, <2>1, <2>2, <2>3, StillHeld
<1>7. CASE Undefined \/ UNCHANGED vars
  <2>1. UNCHANGED <<line, flags, disp, bright, synced, want, frame, pos>>
    BY <1>7 DEF Undefined, vars, shown, host, history
  <2>2. NoNewlines'
    BY <2>1 DEF NoNewlines
  <2> QED BY <1>0, <2>1, <2>2, StillHeld
<1> QED BY <1>1, <1>2, <1>3, <1>4, <1>5, <1>6, <1>7 DEF Next

\* A window that does not reach the end of the buffer shows the text.
LEMMA PartShowsText ==
  ASSUME NEW text, NEW l \in Line, NEW from \in 0 .. BufferLength - LineLength,
         l # 0 => from = 0, Row(disp, l) = Part(text, from)
  PROVE  ShowsText(l, text)
<1>1. from \in 0 .. (IF l = 0 THEN BufferLength - LineLength ELSE 0)
  BY Sizes
<1>2. ASSUME NEW i \in 1 .. LineLength
      PROVE  Row(disp, l)[i] = IF \E j \in 1 .. i : text[from + j] = 0
                                 THEN Blank ELSE text[from + i]
  <2> DEFINE ln == [buffer |-> text, sp |-> from]
  <2>1. \A j \in 1 .. i : Char(ln, ln.sp + j) = text[from + j]
    <3>1. \A j \in 1 .. i : from + j <= BufferLength
      BY Sizes
    <3> QED BY <3>1 DEF Char
  <2>2. i \in 1 .. i
    BY Sizes
  <2>3. Row(disp, l)[i] = IF \E j \in 1 .. i : Char(ln, ln.sp + j) = 0
                            THEN Blank ELSE Char(ln, ln.sp + i)
    BY DEF Part, Window
  <2> HIDE DEF ln
  <2> QED BY <2>1, <2>2, <2>3
<1> QED BY <1>1, <1>2 DEF ShowsText

LEMMA HeldIsShown ==
  ASSUME FInv
  PROVE  FrameShown
<1> USE DEF FInv
<1>1. synced /\ ~Sending /\ ~corrupt => state = "idle"
  BY DEF TInv, IInv, InStep, Counters
<1>2. ASSUME NEW l \in Line, want.line[l] # Unknown, ~Mixing(l)
      PROVE  ShowsText(l, want.line[l]) \/ Overruns(l, want.line[l])
  <2>1. /\ line[l].length \in Lengths(want.line[l])
        /\ Row(disp, l) = Part(want.line[l], line[l].sp)
    BY <1>2 DEF Held, Mixing, Filling
  <2>2. /\ line[l].sp \in Nat /\ line[l].length \in Nat
        /\ line[l].sp > 0 => l = 0 /\ line[l].sp <= line[l].length - LineLength
    BY Sizes DEF TInv, Shapes, LineRec
  <2>3. CASE line[l].sp <= BufferLength - LineLength
    <3>1. line[l].sp \in 0 .. BufferLength - LineLength /\ (l # 0 => line[l].sp = 0)
      BY <2>2, <2>3, Sizes
    <3> QED BY <2>1, <3>1, PartShowsText
  <2>4. CASE line[l].sp > BufferLength - LineLength
    <3>1. line[l].length > BufferLength
      BY <2>2, <2>4, Sizes
    <3>2. \A i \in 1 .. BufferLength : want.line[l][i] # 0
      BY <2>1, <3>1, LengthsTyped
    <3> QED BY <2>4, <3>2 DEF Overruns
  <2> QED BY <2>2, <2>3, <2>4, Sizes
<1> QED BY <1>1, <1>2 DEF FrameShown, Settings

\* If the host's frames hold no newline, both rows show the texts the host
\* sent whole, from where they are scrolled to, and flags and brightness are
\* the host's: from the start, and again from the first frame after a
\* disturbance and a silence longer than the timeout.
THEOREM FramesAreShown ==
  ASSUME PlainFrames
  PROVE  Spec => []FrameShown
<1>1. Init => FInv
  <2> SUFFICES ASSUME Init
               PROVE  FInv
    OBVIOUS
  <2>1. TInv
    BY TypesAtStart
  <2>2. NoNewlines
    <3>1. \A l \in Line : line[l].buffer = [i \in 1 .. BufferLength |-> 0]
      BY DEF Init
    <3>2. \A i \in 1 .. BufferLength : [j \in 1 .. BufferLength |-> 0][i] # NewlineChar
      BY DEF NewlineChar
    <3> QED BY <3>1, <3>2, Zenon DEF NoNewlines
  <2>3. /\ want.line = [l \in Line |-> Unknown]
        /\ want.flags = Unknown /\ want.dim = Unknown /\ want = NothingWanted /\ ~Sending
    BY DEF Init, NothingWanted, Sending
  <2>4. WantShape
    <3>1. Unknown \in Seq(Byte)
      BY EmptySeq DEF Unknown
    <3> QED BY <2>3, <3>1 DEF WantShape, NothingWanted
  <2> QED BY <2>1, <2>2, <2>3, <2>4 DEF FInv, NothingBefore, Filled, Filling, Held, Settings
<1>2. FInv /\ [Next]_vars => FInv'
  BY ShownKept
<1>3. FInv => FrameShown
  BY HeldIsShown
<1> QED BY <1>1, <1>2, <1>3, PTL DEF Spec
=============================================================================
