----------------------------- MODULE RemoteProofs -----------------------------
(***************************************************************************)
(* The main loop sends the keys that were pressed and drops no frame       *)
(* unread, for every set of keys, every time between frames and every      *)
(* length of debouncing and pulse, if the compiler reads the half of       *)
(* rc5_data with the valid bit first.                                      *)
(***************************************************************************)
EXTENDS Remote, TLAPS

-----------------------------------------------------------------------------
(* Words, their halves and the keys in them.                               *)

\* The numbers below 65536 are the words.
LEMMA InWord ==
  ASSUME NEW w \in Int, 0 <= w, w < 65536
  PROVE  w \in Word
<1> DEFINE m == 256 * 256 - 1
<1>1. m \in Int /\ w <= m
  OBVIOUS
<1>2. Word = 0 .. m
  BY DEF Word
<1> HIDE DEF m
<1> QED BY <1>1, <1>2

LEMMA WordIsInt ==
  ASSUME NEW w \in Word
  PROVE  w \in Int /\ 0 <= w /\ w < 65536
<1> DEFINE m == 256 * 256 - 1
<1>1. m \in Int /\ m < 65536
  OBVIOUS
<1>2. Word = 0 .. m
  BY DEF Word
<1> HIDE DEF m
<1> QED BY <1>1, <1>2

\* Division by 256 takes a word apart.
LEMMA Split ==
  ASSUME NEW w \in Word
  PROVE  \E q \in Int, r \in Int : /\ 0 <= q /\ q < 256 /\ 0 <= r /\ r < 256
                                   /\ w = 256 * q + r
                                   /\ w % 256 = r
<1> DEFINE q == w \div 256
           r == w % 256
<1>1. w \in Int /\ 0 <= w /\ w < 65536
  BY WordIsInt
<1>2. q \in Int /\ r \in Int /\ 0 <= r /\ r < 256 /\ w = 256 * q + r
  BY <1>1
<1> HIDE DEF q, r
<1>3. 0 <= q /\ q < 256
  BY <1>1, <1>2
<1> QED BY <1>2, <1>3 DEF r

\* What the halves of such a number are, and which has the valid bit.
LEMMA SplitHalves ==
  ASSUME NEW q \in Int, NEW r \in Int, 0 <= q, q < 256, 0 <= r, r < 256
  PROVE  /\ (256 * q) % 256 = 0
         /\ r % 256 = r
         /\ r \div 32768 = 0
         /\ (256 * q + r) \div 32768 = (256 * q) \div 32768
<1>1. CASE q < 128
  <2>1. (256 * q + r) \div 32768 = 0 /\ (256 * q) \div 32768 = 0
    BY <1>1
  <2> QED BY <2>1
<1>2. CASE q >= 128
  <2>1. (256 * q + r) \div 32768 = 1 /\ (256 * q) \div 32768 = 1
    BY <1>2
  <2> QED BY <2>1
<1> QED BY <1>1, <1>2

\* The halves of a word are words that make it up; each is wiped by clearing
\* it; the valid bit is in the high one.
LEMMA Halves ==
  ASSUME NEW w \in Word
  PROVE  /\ Lo(w) \in Word /\ Hi(w) \in Word
         /\ Hi(w) + Lo(w) = w /\ Lo(w) + Hi(w) = w
         /\ Lo(Hi(w)) = 0 /\ Hi(Lo(w)) = 0
         /\ Valid(Hi(w)) <=> Valid(w)
         /\ ~Valid(Lo(w)) /\ ~Valid(0)
<1>1. PICK q \in Int, r \in Int : /\ 0 <= q /\ q < 256 /\ 0 <= r /\ r < 256
                                  /\ w = 256 * q + r
                                  /\ w % 256 = r
  BY Split
<1>2. Lo(w) = r /\ Hi(w) = 256 * q
  BY <1>1 DEF Lo, Hi
<1>3. r \in Word /\ 256 * q \in Word
  <2>1. /\ r < 65536
        /\ 256 * q \in Int /\ 0 <= 256 * q /\ 256 * q < 65536
    BY <1>1
  <2> QED BY <1>1, <2>1, InWord
<1>4. /\ (256 * q) % 256 = 0
      /\ r % 256 = r
      /\ r \div 32768 = 0
      /\ (256 * q + r) \div 32768 = (256 * q) \div 32768
  BY <1>1, SplitHalves
<1>5. Lo(256 * q) = 0 /\ Hi(r) = 0
  BY <1>1, <1>4 DEF Lo, Hi
<1>6. /\ Valid(256 * q) <=> Valid(w)
      /\ ~Valid(r) /\ ~Valid(0)
  BY <1>1, <1>4 DEF Valid
<1> QED BY <1>1, <1>2, <1>3, <1>5, <1>6

\* Any low half and any high half make a word.
LEMMA Mixture ==
  ASSUME NEW v \in Word, NEW w \in Word
  PROVE  Lo(v) + Hi(w) \in Word /\ Hi(w) + Lo(v) \in Word
<1>1. PICK q \in Int, r \in Int : /\ 0 <= q /\ q < 256 /\ 0 <= r /\ r < 256
                                  /\ w = 256 * q + r
                                  /\ w % 256 = r
  BY Split
<1>2. PICK s \in Int, t \in Int : /\ 0 <= s /\ s < 256 /\ 0 <= t /\ t < 256
                                  /\ v = 256 * s + t
                                  /\ v % 256 = t
  BY Split
<1>3. Lo(v) = t /\ Hi(w) = 256 * q
  BY <1>1, <1>2 DEF Lo, Hi
<1>4. /\ t + 256 * q \in Int /\ 0 <= t + 256 * q /\ t + 256 * q < 65536
      /\ t + 256 * q = 256 * q + t
  BY <1>1, <1>2
<1> QED BY <1>3, <1>4, InWord

\* Clearing one half and then the other leaves nothing.
LEMMA BothCleared ==
  ASSUME NEW w \in Word, NEW h \in Half
  PROVE  Part(w, h) \in Word /\ Part(Part(w, Other(h)), h) = 0
<1>1. CASE h = "lo"
  BY <1>1, Halves DEF Part, Other
<1>2. CASE h = "hi"
  BY <1>2, Halves DEF Part, Other
<1> QED BY <1>1, <1>2 DEF Half

\* The fields of a frame, for either value of the seventh bit of the command.
LEMMA Fields ==
  ASSUME NEW b \in {0, 1}, NEW t \in {0, 1}, NEW a \in Int, NEW c \in Int,
         0 <= a, a < 32, 0 <= c, c < 64,
         NEW w, w = 32768 + 4096 * b + 2048 * t + 64 * a + c
  PROVE  /\ w \in Int /\ 0 <= w /\ w < 65536
         /\ w \div 32768 = 1
         /\ (w \div 4096) % 2 = b
         /\ (w \div 64) % 32 = a
         /\ w % 64 = c
<1>1. w \in Int /\ 0 <= w /\ w < 65536 /\ w \div 32768 = 1
  OBVIOUS
<1>2. w \div 4096 = 8 + b
  OBVIOUS
<1>3. w \div 64 = 512 + 64 * b + 32 * t + a /\ w % 64 = c
  OBVIOUS
<1>4. (w \div 4096) % 2 = b
  BY <1>2
<1>5. (w \div 64) % 32 = a
  BY <1>3
<1> QED BY <1>1, <1>3, <1>4, <1>5

\* rc5_get() returns from a frame the key that was pressed.
LEMMA FrameHoldsKey ==
  ASSUME NEW key \in Key, NEW toggle \in {0, 1}
  PROVE  /\ ValidBit + Encode(key, toggle) \in Word
         /\ Valid(ValidBit + Encode(key, toggle))
         /\ Get(ValidBit + Encode(key, toggle)) = key
<1>1. PICK a \in 0 .. 32 - 1, c \in 0 .. 128 - 1 : key = [addr |-> a, cmd |-> c]
  BY RemoteAssumption
<1> DEFINE d == c % 64
           b == 1 - c \div 64
           w == 32768 + 4096 * b + 2048 * toggle + 64 * a + d
<1>2. ValidBit + Encode(key, toggle) = w
  BY <1>1 DEF ValidBit, Encode
<1>3. d \in Int /\ 0 <= d /\ d < 64 /\ b \in {0, 1} /\ d + 64 * (1 - b) = c
  OBVIOUS
<1> HIDE DEF b, d
<1>4. /\ w \in Int /\ 0 <= w /\ w < 65536
      /\ w \div 32768 = 1
      /\ (w \div 4096) % 2 = b
      /\ (w \div 64) % 32 = a
      /\ w % 64 = d
  BY <1>3, Fields
<1> HIDE DEF w
<1>5. w \in Word
  BY <1>4, InWord
<1> QED BY <1>1, <1>2, <1>3, <1>4, <1>5 DEF Valid, Get

-----------------------------------------------------------------------------
(* Types.                                                                  *)

\* Between the two reads word holds the half that was read first.
HalfRange ==
  pc = "readRest" =>
    \E w \in Word : word = Part(w, ReadFirst)

\* The second half completes it to a word.
LEMMA ReadIsWord ==
  ASSUME TypeOK, HalfRange, pc = "readRest"
  PROVE  word + Part(rc5Data, Other(ReadFirst)) \in Word
<1>1. PICK w \in Word : word = Part(w, ReadFirst)
  BY DEF HalfRange
<1>2. rc5Data \in Word
  BY DEF TypeOK
<1>3. CASE ReadFirst = "lo"
  BY <1>1, <1>2, <1>3, Mixture DEF Part, Other
<1>4. CASE ReadFirst = "hi"
  BY <1>1, <1>2, <1>4, Mixture DEF Part, Other
<1> QED BY <1>3, <1>4, RemoteAssumption DEF Half

\* A timer counted down or switched off stays in its range.
LEMMA TimerRange ==
  ASSUME NEW n \in Nat, NEW t \in Off .. n
  PROVE  /\ Earlier(t) \in Off .. n
         /\ (IF t = 0 THEN Off ELSE t) \in Off .. n
         /\ Off \in Off .. n /\ n \in Off .. n
BY DEF Off, Earlier

TypeInv == TypeOK /\ HalfRange

LEMMA TypeInvariant == Spec => []TypeInv
<1>1. Init => TypeInv
  <2> SUFFICES ASSUME Init
               PROVE  TypeInv
    OBVIOUS
  <2>1. 0 \in Word
    BY InWord
  <2>2. Off \in Off .. DebounceTime /\ Off \in Off .. PulseTime
    BY RemoteAssumption DEF Off
  <2>3. FrameGap \in 0 .. FrameGap
    BY RemoteAssumption
  <2>4. TypeOK
    <3>1. dTimer \in Off .. DebounceTime /\ psTimer \in Off .. PulseTime
      BY <2>2 DEF Init
    <3>2. rc5Data \in Word /\ word \in Word /\ gap \in 0 .. FrameGap
      BY <2>1, <2>3 DEF Init
    <3>3. turns \in 0 .. 2
      BY DEF Init
    <3> QED BY <3>1, <3>2, <3>3 DEF Init, TypeOK
  <2>5. HalfRange
    BY DEF Init, HalfRange
  <2> QED BY <2>4, <2>5 DEF TypeInv
<1>2. TypeInv /\ [Next]_vars => TypeInv'
  <2> SUFFICES ASSUME TypeOK, HalfRange, [Next]_vars
               PROVE  TypeOK' /\ HalfRange'
    BY DEF TypeInv
  <2> USE RemoteAssumption DEF TypeOK, HalfRange, main, timers, history
  <2>1. ASSUME NEW key \in Key, NEW toggle \in {0, 1}, Frame(key, toggle)
        PROVE  TypeOK' /\ HalfRange'
    <3>1. rc5Data' \in Word /\ gap' \in 0 .. FrameGap
      BY <2>1, FrameHoldsKey DEF Frame
    <3>2. TypeOK'
      BY <2>1, <3>1 DEF Frame
    <3>3. HalfRange'
      BY <2>1 DEF Frame
    <3> QED BY <3>2, <3>3
  <2>2. CASE Tick
    BY <2>2, TimerRange DEF Tick
  <2>3. CASE ReadOne
    <3>1. Part(rc5Data, ReadFirst) \in Word
      BY BothCleared
    <3> QED BY <2>3, <3>1 DEF ReadOne
  <2>4. CASE ReadRest
    <3>1. word' \in Word
      BY <2>4, ReadIsWord DEF ReadRest
    <3>2. pc' \in {"send", "update"}
      BY <2>4 DEF ReadRest
    <3>3. taken' \in BOOLEAN
      BY <2>4 DEF ReadRest, Valid
    <3> QED BY <2>4, <3>1, <3>2, <3>3 DEF ReadRest
  <2>5. CASE Suppress
    BY <2>5 DEF Suppress
  <2>6. CASE SendAddr
    BY <2>6 DEF SendAddr
  <2>7. CASE SendCode
    BY <2>7 DEF SendCode
  <2>8. CASE StartDebounce
    BY <2>8, TimerRange DEF StartDebounce
  <2>9. CASE Standby
    BY <2>9, TimerRange DEF Standby
  <2>10. CASE ClearOne
    <3>1. Other(ClearFirst) \in Half
      BY DEF Half, Other
    <3>2. Part(rc5Data, Other(ClearFirst)) \in Word
      BY <3>1, BothCleared
    <3> QED BY <2>10, <3>2 DEF ClearOne
  <2>11. CASE ClearRest
    <3>1. Part(rc5Data, ClearFirst) \in Word
      BY BothCleared
    <3> QED BY <2>11, <3>1 DEF ClearRest
  <2>12. CASE Update
    BY <2>12, TimerRange DEF Update
  <2>13. CASE UNCHANGED vars
    BY <2>13 DEF vars
  <2> QED
    BY <2>1, <2>2, <2>3, <2>4, <2>5, <2>6, <2>7, <2>8, <2>9, <2>10, <2>11,
       <2>12, <2>13 DEF Next, Main
<1> QED BY <1>1, <1>2, PTL DEF Spec

\* No step of the decoder's interrupt, the main loop or time takes a variable
\* out of the range its C type and use give it.
THEOREM TypeCorrect == Spec => []TypeOK
<1>1. TypeInv => TypeOK
  BY DEF TypeInv
<1> QED BY <1>1, TypeInvariant, PTL

-----------------------------------------------------------------------------
(* The flags and their timers.                                             *)

\* Whenever keys are suppressed the debounce timer runs, whenever the power
\* pin is pulsed the pulse timer does, whatever the two durations are.
THEOREM FlagsTimed == Spec => []FlagsAreTimed
<1>1. Init => FlagsAreTimed
  BY DEF Init, FlagsAreTimed
<1>2. TypeOK /\ FlagsAreTimed /\ [Next]_vars => FlagsAreTimed'
  <2> SUFFICES ASSUME TypeOK, FlagsAreTimed, [Next]_vars
               PROVE  FlagsAreTimed'
    OBVIOUS
  <2> USE DEF FlagsAreTimed, timers
  <2>1. CASE Tick
    <3>1. /\ dTimer # Off => Earlier(dTimer) # Off
          /\ psTimer # Off => Earlier(psTimer) # Off
      BY RemoteAssumption DEF TypeOK, Off, Earlier
    <3> QED BY <2>1, <3>1 DEF Tick
  <2>2. CASE StartDebounce
    <3>1. dTimer' # Off
      BY <2>2, RemoteAssumption DEF StartDebounce, Off
    <3> QED BY <2>2, <3>1 DEF StartDebounce
  <2>3. CASE Standby
    <3>1. PulseTime # Off
      BY RemoteAssumption DEF Off
    <3> QED BY <2>3, <3>1 DEF Standby
  <2>4. CASE Update
    BY <2>4 DEF Update, Off
  <2>5. ASSUME UNCHANGED timers
        PROVE  FlagsAreTimed'
    BY <2>5
  <2>6. \/ Tick \/ StartDebounce \/ Standby \/ Update
        \/ UNCHANGED timers
    BY DEF Next, Main, vars, Frame, ReadOne, ReadRest, Suppress, SendAddr,
           SendCode, ClearOne, ClearRest
  <2> QED BY <2>1, <2>2, <2>3, <2>4, <2>5, <2>6
<1> QED BY <1>1, <1>2, TypeCorrect, PTL DEF Spec

-----------------------------------------------------------------------------
(* The keys.  A frame takes time and the main loop does not dawdle, so that *)
(* a frame is read, sent and wiped before the next one can come.            *)

Handling == pc \in {"send", "sendCode", "debounce", "standby", "clear", "clearRest"}

\* A word with a whole frame of the last key.
HasFrame(w) == Valid(w) /\ Get(w) = last

\* The loop is done with a frame before another can come...
InTime == Handling => gap = 0 \/ (gap = 1 /\ turns <= 1)

\* ...because it begins with it at the latest in the second turn of the unit
\* of time after the frame came.
Deadline ==
  ~taken => \/ gap = 0
            \/ gap = 1 /\ turns = 0
            \/ /\ gap = 1 /\ turns = 1
               /\ pc = "read" \/ (pc = "readRest" /\ Valid(word))

FrameWaits == ~taken => HasFrame(rc5Data)

\* With the high half read first a frame is seen whole or not at all.
HalfRead == pc = "readRest" => word = 0 \/ (~taken /\ word = Hi(rc5Data))

Emptied == taken /\ pc \in {"read", "readRest", "update"} => rc5Data = 0

InHand ==
  /\ Handling => taken /\ HasFrame(word)
  /\ pc = "sendCode" => out = <<last.addr>>
  /\ pc = "clearRest" => Part(rc5Data, ClearFirst) = 0

KeyInv ==
  InTime /\ Deadline /\ FrameWaits /\ HalfRead /\ Emptied /\ InHand /\ KeyIsReal

\* A frame can come only while the main loop has none in hand and none waits.
LEMMA FrameKeepsInv ==
  ASSUME TypeOK, KeyInv, NEW key \in Key, NEW toggle \in {0, 1}, Frame(key, toggle)
  PROVE  KeyInv'
<1> USE DEF KeyInv, main, timers
<1>1. gap >= 2
  BY RemoteAssumption DEF Frame
<1>2. ~Handling /\ taken
  BY <1>1 DEF InTime, Deadline
<1>3. pc \in {"read", "readRest", "update"} /\ rc5Data = 0
  BY <1>2 DEF TypeOK, Handling, Emptied
<1>4. UNCHANGED <<pc, word, out, turns>> /\ gap' = 0 /\ ~taken' /\ last' = key
  BY DEF Frame
<1>5. HasFrame(rc5Data)'
  BY FrameHoldsKey DEF Frame, HasFrame
<1>6. pc = "readRest" => word = 0
  BY <1>2 DEF HalfRead
<1>7. ~Handling'
  BY <1>2, <1>4 DEF Handling
<1>8. InTime' /\ Deadline' /\ FrameWaits'
  BY <1>4, <1>5, <1>7 DEF InTime, Deadline, FrameWaits
<1>9. HalfRead' /\ Emptied'
  BY <1>4, <1>6 DEF HalfRead, Emptied
<1>10. InHand' /\ KeyIsReal'
  BY <1>3, <1>4, <1>7 DEF InHand, KeyIsReal
<1> QED BY <1>8, <1>9, <1>10

\* Time passes.
LEMMA TickKeepsInv ==
  ASSUME TypeOK, KeyInv, Tick
  PROVE  KeyInv'
<1> USE DEF KeyInv, main, history
<1>1. /\ UNCHANGED <<rc5Data, pc, word, out, last, taken>>
      /\ turns = 2 /\ turns' = 0
  BY DEF Tick
<1>2. gap = 0 => gap' = 1
  BY RemoteAssumption DEF Tick
<1>3. InTime' /\ Deadline'
  BY <1>1, <1>2 DEF InTime, Deadline, Handling
<1>4. FrameWaits' /\ HalfRead' /\ Emptied' /\ InHand' /\ KeyIsReal'
  BY <1>1 DEF FrameWaits, HalfRead, Emptied, InHand, KeyIsReal, HasFrame, Handling
<1> QED BY <1>3, <1>4

\* The first half of rc5_data is read.
LEMMA ReadOneKeepsInv ==
  ASSUME TypeOK, KeyInv, ReadFirst = "hi", ReadOne
  PROVE  KeyInv'
<1> USE DEF KeyInv, timers, history
<1>1. /\ UNCHANGED <<rc5Data, out, turns, gap, last, taken>>
      /\ pc = "read" /\ pc' = "readRest" /\ word' = Hi(rc5Data)
  BY DEF ReadOne, Part
<1>2. rc5Data \in Word /\ Hi(0) = 0
  BY DEF TypeOK, Hi
<1>3. taken => word' = 0
  BY <1>1, <1>2 DEF Emptied
<1>4. ~taken => Valid(word)'
  BY <1>1, <1>2, Halves DEF FrameWaits, HasFrame, Valid
<1>5. InTime' /\ Deadline'
  BY <1>1, <1>4 DEF InTime, Deadline, Handling
<1>6. FrameWaits' /\ HalfRead' /\ Emptied' /\ InHand' /\ KeyIsReal'
  BY <1>1, <1>3 DEF FrameWaits, HalfRead, Emptied, InHand, KeyIsReal, HasFrame, Handling
<1> QED BY <1>5, <1>6

\* The second half is read: a frame that came since is left for the next turn.
LEMMA ReadRestKeepsInv ==
  ASSUME TypeOK, KeyInv, ReadFirst = "hi", ReadRest
  PROVE  KeyInv'
<1> USE DEF KeyInv, timers
<1>1. /\ UNCHANGED <<rc5Data, out, turns, gap, last>>
      /\ pc = "readRest" /\ pc' = (IF Valid(word') THEN "send" ELSE "update")
      /\ word' = word + Lo(rc5Data)
      /\ taken' = (taken \/ Valid(word'))
  BY DEF ReadRest, Part, Other
<1>2. rc5Data \in Word
  BY DEF TypeOK
<1>3. CASE word = 0
  <2>1. word' = Lo(rc5Data)
    <3>1. Lo(rc5Data) \in Word
      BY <1>2, Halves
    <3>2. Lo(rc5Data) \in Int
      BY <3>1, WordIsInt
    <3>3. 0 + Lo(rc5Data) = Lo(rc5Data)
      BY <3>2
    <3> QED BY <1>1, <1>3, <3>3
  <2>2. ~Valid(word') /\ ~Valid(word)
    BY <1>2, <1>3, <2>1, Halves
  <2>3. pc' = "update" /\ taken' = taken
    BY <1>1, <2>2 DEF TypeOK
  <2> QED
    BY <1>1, <2>2, <2>3
    DEF InTime, Deadline, FrameWaits, HalfRead, Emptied, InHand, KeyIsReal,
        HasFrame, Handling
<1>4. CASE ~taken /\ word = Hi(rc5Data)
  <2>1. word' = rc5Data
    BY <1>1, <1>2, <1>4, Halves
  <2>2. Valid(word') /\ Get(word') = last
    BY <1>4, <2>1 DEF FrameWaits, HasFrame
  <2>3. pc' = "send" /\ taken'
    BY <1>1, <2>2
  <2>4. gap = 0 \/ (gap = 1 /\ turns <= 1)
    BY <1>4 DEF Deadline
  <2> QED
    BY <1>1, <2>2, <2>3, <2>4
    DEF InTime, Deadline, FrameWaits, HalfRead, Emptied, InHand, KeyIsReal,
        HasFrame, Handling, Valid
<1> QED BY <1>1, <1>3, <1>4 DEF HalfRead

\* A frame in hand is sent or suppressed, and looked at for the standby key.
LEMMA SendKeepsInv ==
  ASSUME TypeOK, KeyInv,
         Suppress \/ SendAddr \/ SendCode \/ StartDebounce \/ Standby
  PROVE  KeyInv'
<1> USE DEF KeyInv, timers, history
<1>1. /\ UNCHANGED <<rc5Data, word, turns, gap, last, taken>>
      /\ Handling /\ Handling'
      /\ pc' # "clearRest" /\ pc' \notin {"read", "readRest", "update"}
  BY DEF Suppress, SendAddr, SendCode, StartDebounce, Standby, Handling
<1>2. taken /\ HasFrame(word)
  BY <1>1 DEF InHand
<1>3. InTime' /\ Deadline' /\ FrameWaits' /\ HalfRead' /\ Emptied'
  BY <1>1, <1>2 DEF InTime, Deadline, FrameWaits, HalfRead, Emptied
<1>4. (Handling => taken /\ HasFrame(word))'
  BY <1>1, <1>2 DEF HasFrame
<1>5. (pc = "sendCode" => out = <<last.addr>>)'
  BY <1>1, <1>2
  DEF Suppress, SendAddr, SendCode, StartDebounce, Standby, HasFrame
<1>6. KeyIsReal'
  BY <1>1, <1>2
  DEF Suppress, SendAddr, SendCode, StartDebounce, Standby, HasFrame, InHand, KeyIsReal
<1> QED BY <1>1, <1>3, <1>4, <1>5, <1>6 DEF InHand

\* The frame in hand is wiped, no other having come.
LEMMA ClearKeepsInv ==
  ASSUME TypeOK, KeyInv, ClearOne \/ ClearRest
  PROVE  KeyInv'
<1> USE DEF KeyInv, timers, history
<1>1. rc5Data \in Word
  BY DEF TypeOK
<1>2. CASE ClearOne
  <2>1. Part(rc5Data, ClearFirst)' = 0
    BY <1>1, <1>2, BothCleared, RemoteAssumption DEF ClearOne
  <2> QED
    BY <1>2, <2>1
    DEF ClearOne, InTime, Deadline, FrameWaits, HalfRead, Emptied, InHand,
        KeyIsReal, HasFrame, Handling
<1>3. CASE ClearRest
  BY <1>3
  DEF ClearRest, InTime, Deadline, FrameWaits, HalfRead, Emptied, InHand,
      KeyIsReal, HasFrame, Handling
<1> QED BY <1>2, <1>3

\* A turn of the main loop ends.
LEMMA UpdateKeepsInv ==
  ASSUME TypeOK, KeyInv, Update
  PROVE  KeyInv'
<1> USE DEF KeyInv, history
<1>1. /\ UNCHANGED <<rc5Data, word, gap, last, taken>>
      /\ pc = "update" /\ pc' = "read"
      /\ turns' = (IF turns < 2 THEN turns + 1 ELSE turns)
  BY DEF Update
<1>2. turns = 0 => turns' = 1
  BY <1>1
<1>3. InTime' /\ Deadline'
  BY <1>1, <1>2 DEF InTime, Deadline, Handling
<1>4. FrameWaits' /\ HalfRead' /\ Emptied' /\ InHand' /\ KeyIsReal'
  BY <1>1 DEF FrameWaits, HalfRead, Emptied, InHand, KeyIsReal, HasFrame, Handling
<1> QED BY <1>3, <1>4

\* Nothing happens.
LEMMA StutterKeepsInv ==
  ASSUME KeyInv, UNCHANGED vars
  PROVE  KeyInv'
BY DEF vars, KeyInv, InTime, Deadline, FrameWaits, HalfRead, Emptied, InHand,
       KeyIsReal, HasFrame, Handling

LEMMA KeyInvariant ==
  ASSUME ReadFirst = "hi"
  PROVE  Spec => []KeyInv
<1>1. Init => KeyInv
  BY DEF Init, KeyInv, InTime, Deadline, FrameWaits, HalfRead, Emptied, InHand,
         KeyIsReal, Handling
<1>2. TypeOK /\ KeyInv /\ [Next]_vars => KeyInv'
  BY FrameKeepsInv, TickKeepsInv, ReadOneKeepsInv, ReadRestKeepsInv,
     SendKeepsInv, ClearKeepsInv, UpdateKeepsInv, StutterKeepsInv
  DEF Next, Main
<1> QED BY <1>1, <1>2, TypeCorrect, PTL DEF Spec

\* The pair of bytes sent to the host is the key that was pressed, if the high
\* half of rc5_data is read first.
THEOREM KeysAreReal ==
  ASSUME ReadFirst = "hi"
  PROVE  Spec => []KeyIsReal
<1>1. KeyInv => KeyIsReal
  BY DEF KeyInv
<1> QED BY <1>1, KeyInvariant, PTL

\* No frame is wiped from rc5_data before the main loop has read it, if the
\* high half is read first.
THEOREM FramesAreTaken ==
  ASSUME ReadFirst = "hi"
  PROVE  Spec => FrameIsTaken
<1>1. KeyInv /\ TypeOK /\ [Next]_vars => [Valid(rc5Data) /\ ~Valid(rc5Data)' => taken]_vars
  <2> SUFFICES ASSUME KeyInv, TypeOK, [Next]_vars
               PROVE  Valid(rc5Data) /\ ~Valid(rc5Data)' => taken
    OBVIOUS
  <2>1. ASSUME NEW key \in Key, NEW toggle \in {0, 1}, Frame(key, toggle)
        PROVE  Valid(rc5Data)'
    BY <2>1, FrameHoldsKey DEF Frame
  <2>2. CASE ClearOne \/ ClearRest
    BY <2>2 DEF ClearOne, ClearRest, KeyInv, InHand, Handling
  <2>3. ASSUME UNCHANGED rc5Data
        PROVE  Valid(rc5Data)' = Valid(rc5Data)
    BY <2>3 DEF Valid
  <2>4. \/ \E key \in Key, toggle \in {0, 1} : Frame(key, toggle)
        \/ ClearOne \/ ClearRest
        \/ UNCHANGED rc5Data
    BY DEF Next, Main, vars, Tick, ReadOne, ReadRest, Suppress, SendAddr,
           SendCode, StartDebounce, Standby, Update
  <2> QED BY <2>1, <2>2, <2>3, <2>4
<1> QED BY <1>1, KeyInvariant, TypeCorrect, PTL DEF Spec, FrameIsTaken
=============================================================================
