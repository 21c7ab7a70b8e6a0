--------------------------------- MODULE Rc5 ---------------------------------
(***************************************************************************)
(* firmware/rc5_x.c: the RC5 decoder.  A timer interrupt counts ticks and  *)
(* a pin-change interrupt runs at every edge of the IR receiver's output;  *)
(* the decoder tells half-bit from full-bit distances and samples the pin  *)
(* at the edge in the middle of a bit.                                     *)
(*                                                                         *)
(* The remote control (external) sends frames of a start bit and FrameBits *)
(* data bits in Manchester code.  The receiver inverts: the line is high   *)
(* when idle, and a 1 is high and then low.  Half a bit lasts between      *)
(* HalfMin and HalfMax ticks, about 9 in reality.  Noise may add edges,    *)
(* swallow them or make the level wrong.                                   *)
(***************************************************************************)
EXTENDS Naturals, Sequences

CONSTANTS FrameBits,          \* bits stored in a frame, 13 in the firmware
          HalfMin, HalfMax,   \* ticks in half a bit
          TickMod,            \* r_tick_cnt is 8 bits wide: 256
          NoiseMax            \* bound: noise edges from one frame to the next

PulseDuration  == 7           \* RC5_PULSE_DURATION
StartThreshold == 12          \* RC5_START_TRESHOLD
ToggleTimeout  == 20          \* RC5_TOGGLE_TIMEOUT

Word == 0 .. 65535            \* r_data and rc5_data are 16 bits wide

\* The first bit of a frame may be stored without a look at its length, so
\* a frame has at least two.
\* Half a bit is long enough to be a pulse and short enough not to be a bit,
\* a whole bit is long enough to be one and beats the timeout.
ASSUME Rc5Assumption ==
  /\ FrameBits \in Nat \ {0, 1}
  /\ HalfMin \in Nat /\ HalfMax \in Nat /\ HalfMin <= HalfMax
  /\ PulseDuration <= HalfMin /\ StartThreshold < 2 * HalfMin
  /\ HalfMax < StartThreshold /\ 2 * HalfMax <= ToggleTimeout
  /\ TickMod \in Nat /\ TickMod > ToggleTimeout + 1
  /\ NoiseMax \in Nat

VARIABLES state,      \* rc5_ctx.r_state
          bitCnt,     \* rc5_ctx.r_bit_cnt
          tickCnt,    \* rc5_ctx.r_tick_cnt
          data,       \* rc5_ctx.r_data
          mailbox,    \* rc5_data: <<>> or <<frame>>, the flag RC5_FLAG_VALID set
          pin,        \* PIND bit PD2
          part,       \* what the remote is sending: gap, first or second half
          bit,        \* ... of this bit
          length,     \* ... for so many ticks
          sent,       \* the data bits of this frame sent so far, as a number
          n,          \* ... and how many, the start bit included
          quiet,      \* ticks since the last edge, up to ToggleTimeout + 1
          noise,      \* noise edges since the frame began
          got         \* history: frames decoded since this frame began

decoder == <<state, bitCnt, tickCnt, data, mailbox>>
line == <<pin, part, bit, length, sent, n, quiet, noise>>
vars == <<decoder, line, got>>

Init ==
  /\ state = "IDLE"
  /\ bitCnt = 0
  /\ tickCnt = 0
  /\ data = 0
  /\ mailbox = <<>>
  /\ pin = 1
  /\ part = "gap"
  /\ bit = 0
  /\ length = 0
  /\ sent = 0
  /\ n = 0
  /\ quiet = 0
  /\ noise = 0
  /\ got = <<>>

-----------------------------------------------------------------------------
(* The interrupts. *)

\* A plausible bug: the bit counter is not reset.
ResetCtxKeepsCount ==
  /\ state' = "IDLE"
  /\ data' = 0
  /\ UNCHANGED bitCnt

\* A plausible bug: the bits are not reset.
ResetCtxKeepsData ==
  /\ state' = "IDLE"
  /\ bitCnt' = 0
  /\ UNCHANGED data

\* rc5_reset_ctx()
ResetCtx ==
  /\ state' = "IDLE"
  /\ bitCnt' = 0
  /\ data' = 0

\* A plausible bug: the timeout is checked only while bits are collected.
TimerIsrSyncOnly ==
  /\ tickCnt' = (tickCnt + 1) % TickMod
  /\ IF tickCnt' > ToggleTimeout /\ state = "SYNC"
       THEN ResetCtx
       ELSE UNCHANGED <<state, bitCnt, data>>
  /\ UNCHANGED <<mailbox, got>>

\* rc5_timer_isr()
TimerIsr ==
  /\ tickCnt' = (tickCnt + 1) % TickMod
  /\ IF tickCnt' > ToggleTimeout
       THEN ResetCtx
       ELSE UNCHANGED <<state, bitCnt, data>>
  /\ UNCHANGED <<mailbox, got>>

Shifted(p) == (2 * data + (1 - p)) % 65536

\* The bit's value is the level after the edge in its middle, inverted.
Sample(p) ==
  /\ tickCnt' = 0
  /\ data' = Shifted(p)
  /\ bitCnt' = bitCnt + 1

EdgeIdle ==
  /\ state = "IDLE"
  /\ tickCnt' = 0
  /\ state' = "START"
  /\ UNCHANGED <<bitCnt, data, mailbox, got>>

\* The first edge after the start bit's: half a bit later it is the start
\* of a 1, a whole bit later the middle of a 0, earlier it is noise.
EdgeStart(p) ==
  /\ state = "START"
  /\ \/ /\ tickCnt < PulseDuration
        /\ ResetCtx
        /\ UNCHANGED tickCnt
     \/ /\ tickCnt \in PulseDuration .. StartThreshold
        /\ state' = "SYNC"
        /\ UNCHANGED <<bitCnt, tickCnt, data>>
     \/ /\ tickCnt > StartThreshold
        /\ state' = "SYNC"
        /\ Sample(p)
  /\ UNCHANGED <<mailbox, got>>

\* A plausible bug: an edge between two bits is taken for a bit.
EdgeSyncEvery(p) ==
  /\ state = "SYNC"
  /\ \/ /\ bitCnt + 1 < FrameBits
        /\ Sample(p)
        /\ UNCHANGED <<state, mailbox, got>>
     \/ /\ bitCnt + 1 = FrameBits
        /\ mailbox' = <<Shifted(p)>>
        /\ got' = Append(got, Shifted(p))
        /\ ResetCtx
        /\ tickCnt' = 0

\* Later edges: less than a bit after the last sample they lie between two
\* bits and are ignored, otherwise they are the middle of the next bit.  The
\* last bit fills the mailbox; after a 1 one more edge is to come.
EdgeSync(p) ==
  /\ state = "SYNC"
  /\ \/ /\ tickCnt < StartThreshold
        /\ UNCHANGED <<state, bitCnt, tickCnt, data, mailbox, got>>
     \/ /\ tickCnt >= StartThreshold
        /\ bitCnt + 1 < FrameBits
        /\ Sample(p)
        /\ UNCHANGED <<state, mailbox, got>>
     \/ /\ tickCnt >= StartThreshold
        /\ bitCnt + 1 = FrameBits
        /\ mailbox' = <<Shifted(p)>>
        /\ got' = Append(got, Shifted(p))
        /\ \/ p = 1 /\ ResetCtx /\ tickCnt' = 0
           \/ p = 0 /\ Sample(p) /\ state' = "FINISH"

EdgeFinish ==
  /\ state = "FINISH"
  /\ ResetCtx
  /\ UNCHANGED <<tickCnt, mailbox, got>>

\* rc5_isr(), the level being p by now
EdgeIsr(p) == EdgeIdle \/ EdgeStart(p) \/ EdgeSync(p) \/ EdgeFinish

-----------------------------------------------------------------------------
(* The line. *)

\* The level becomes p, with an interrupt if that is a change.
Level(p) ==
  /\ pin' = p
  /\ \/ p # pin /\ EdgeIsr(p) /\ quiet' = 0
     \/ p = pin /\ UNCHANGED <<decoder, got, quiet>>

\* One timer interrupt.  A half bit does not outlast HalfMax.
Tick ==
  /\ part # "gap" => length < HalfMax
  /\ TimerIsr
  /\ length' = IF part = "gap" THEN 0 ELSE length + 1
  /\ quiet' = IF quiet > ToggleTimeout THEN quiet ELSE quiet + 1
  /\ UNCHANGED <<pin, part, bit, sent, n, noise>>

\* The first half of the start bit, a 1, looks like the gap.  Frames follow
\* each other after a gap that outlasts the timeout; the standard's is some
\* 900 ticks.
FrameBegin ==
  /\ part = "gap"
  /\ pin = 1
  /\ quiet > ToggleTimeout
  /\ part' = "first"
  /\ bit' = 1
  /\ length' = 0
  /\ sent' = 0
  /\ n' = 0
  /\ noise' = 0
  /\ got' = <<>>
  /\ UNCHANGED <<decoder, pin, quiet>>

BitMiddle ==
  /\ part = "first"
  /\ length >= HalfMin
  /\ Level(1 - bit)
  /\ part' = "second"
  /\ length' = 0
  /\ sent' = IF n = 0 THEN 0 ELSE 2 * sent + bit
  /\ n' = n + 1
  /\ UNCHANGED <<bit, noise>>

BitBegin(b) ==
  /\ part = "second"
  /\ n <= FrameBits
  /\ length >= HalfMin
  /\ Level(b)
  /\ part' = "first"
  /\ bit' = b
  /\ length' = 0
  /\ UNCHANGED <<sent, n, noise>>

FrameEnd ==
  /\ part = "second"
  /\ n = FrameBits + 1
  /\ length >= HalfMin
  /\ Level(1)
  /\ part' = "gap"
  /\ length' = 0
  /\ UNCHANGED <<bit, sent, n, noise>>

\* An edge too many, which leaves the level p: the line flips, or a pulse
\* is over before the interrupt looks at the pin.
Noise(p) ==
  /\ noise < NoiseMax
  /\ pin' = p
  /\ EdgeIsr(p)
  /\ quiet' = 0
  /\ noise' = noise + 1
  /\ UNCHANGED <<part, bit, length, sent, n>>

\* The main program takes the mailbox (Remote has the details).
Take ==
  /\ mailbox # <<>>
  /\ mailbox' = <<>>
  /\ UNCHANGED <<state, bitCnt, tickCnt, data, line, got>>

-----------------------------------------------------------------------------
Next ==
  \/ Tick
  \/ FrameBegin
  \/ BitMiddle
  \/ \E b \in {0, 1} : BitBegin(b)
  \/ FrameEnd
  \/ \E p \in {0, 1} : Noise(p)
  \/ Take

Spec == Init /\ [][Next]_vars

-----------------------------------------------------------------------------
(* Every variable keeps to the values its C type and use give it.          *)
TypeOK ==
  /\ state \in {"IDLE", "START", "SYNC", "FINISH"}
  /\ bitCnt \in 0 .. FrameBits
  /\ tickCnt \in 0 .. TickMod - 1
  /\ data \in Word
  /\ mailbox \in Seq(Word) /\ Len(mailbox) <= 1
  /\ pin \in {0, 1}
  /\ part \in {"gap", "first", "second"}
  /\ bit \in {0, 1}
  /\ length \in 0 .. HalfMax
  /\ sent \in Nat
  /\ n \in 0 .. FrameBits + 1
  /\ quiet \in 0 .. ToggleTimeout + 1
  /\ noise \in 0 .. NoiseMax
  /\ got \in Seq(Word)

\* Every frame that no noise disturbed is decoded, once and bit by bit as
\* it was sent, whatever the state in which earlier noise, pulses or half
\* frames left the decoder.
DecodesExactly ==
  part = "gap" /\ noise = 0 /\ n = FrameBits + 1 => got = <<sent % 65536>>

\* The decoder cannot hang in the middle of a frame: ToggleTimeout ticks
\* after the last edge it used it is idle again, although the 8-bit tick
\* counter wraps and idle does not stop it.
NotStuck == state # "IDLE" => tickCnt <= ToggleTimeout

\* Nothing of an abandoned frame is left over when the next one begins.
IdleIsClean == state = "IDLE" => bitCnt = 0 /\ data = 0
=============================================================================
