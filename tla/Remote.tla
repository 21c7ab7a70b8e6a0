-------------------------------- MODULE Remote --------------------------------
(***************************************************************************)
(* firmware/main.c, the remote-control half of the main loop: it takes the *)
(* frame that the RC5 decoder leaves in rc5_data, sends address and code   *)
(* to the host with uart_putc(), debounces, and pulses the power pin on    *)
(* the standby key.  rc5_data is a plain 16-bit variable: the decoder's    *)
(* interrupt stores it whole, the main program reads and clears it in two  *)
(* halves, in the order the compiler chose.                                *)
(*                                                                         *)
(* Time is counted in units of 50 ms, in which the main loop makes a whole *)
(* turn or more: its longest work is to redraw a line of the display.      *)
(***************************************************************************)
EXTENDS Integers, Sequences

CONSTANTS Key,            \* what can be pressed: records of addr and cmd
          ReadFirst,      \* the half of rc5_data read first
          ClearFirst,     \* the half cleared first
          FrameGap,       \* least time between frames: 2
          DebounceTime,   \* DEBOUNCE_DURATION: 4
          PulseTime       \* PS_DURATION: 10

StbCode == 66             \* STB_CODE
Half == {"lo", "hi"}
Word == 0 .. 256 * 256 - 1    \* two bytes

ASSUME RemoteAssumption ==
  /\ Key \subseteq [addr : 0 .. 32 - 1, cmd : 0 .. 128 - 1]
  /\ ReadFirst \in Half /\ ClearFirst \in Half
  /\ FrameGap \in Nat /\ FrameGap >= 2
  /\ DebounceTime \in Nat /\ PulseTime \in Nat

VARIABLES rc5Data,    \* rc5_data
          pc,         \* where the main loop is
          word,       \* rc5_data as the main loop has read it
          debounce,   \* bit FLAG_DEBOUNCE of ctx.flags
          dTimer,     \* the debounce timer: Off or the time left
          ps,         \* PS_PIN
          psTimer,    \* the timer of the pulse
          out,        \* the bytes of the present pair given to uart_putc()
          turns,      \* turns of the main loop ended in this unit of time, up to 2
          gap,        \* time since the last frame, up to FrameGap
          last,       \* history: the key of the last frame
          taken       \* history: the main loop has read that frame

vars == <<rc5Data, pc, word, debounce, dTimer, ps, psTimer, out, turns, gap, last, taken>>
main == <<pc, word, out>>
timers == <<debounce, dTimer, ps, psTimer>>
history == <<last, taken>>

Off == -1

Valid(w) == w \div 32768 = 1
ValidBit == 32768
Lo(w) == w % 256
Hi(w) == w - (w % 256)
Part(w, h) == IF h = "lo" THEN Lo(w) ELSE Hi(w)
Other(h) == IF h = "lo" THEN "hi" ELSE "lo"

\* The frame of a key in extended RC5 (external): the second start bit is
\* the inverse of the seventh bit of the command.
Encode(key, toggle) ==
  4096 * (1 - key.cmd \div 64) + 2048 * toggle + 64 * key.addr + (key.cmd % 64)

\* A plausible bug: the seventh bit is not inverted.
GetSameBit(w) ==
  [addr |-> (w \div 64) % 32, cmd |-> (w % 64) + 64 * ((w \div 4096) % 2)]

\* rc5_get()
Get(w) ==
  [addr |-> (w \div 64) % 32, cmd |-> (w % 64) + 64 * (1 - ((w \div 4096) % 2))]

Init ==
  /\ rc5Data = 0
  /\ pc = "read"
  /\ word = 0
  /\ debounce = FALSE
  /\ dTimer = Off
  /\ ps = FALSE
  /\ psTimer = Off
  /\ out = <<>>
  /\ turns = 0
  /\ gap = FrameGap
  /\ last \in Key
  /\ taken = TRUE

-----------------------------------------------------------------------------
\* The decoder's interrupt stores a complete frame.
Frame(key, toggle) ==
  /\ gap = FrameGap
  /\ rc5Data' = ValidBit + Encode(key, toggle)
  /\ gap' = 0
  /\ last' = key
  /\ taken' = FALSE
  /\ UNCHANGED <<main, timers, turns>>

\* A plausible bug: a timer that is off or at zero is counted down too.
EarlierPastZero(t) == t - 1

Earlier(t) == IF t > 0 THEN t - 1 ELSE t

\* A unit of time passes; the main loop makes at least a whole turn in it.
Tick ==
  /\ turns = 2
  /\ turns' = 0
  /\ gap' = IF gap < FrameGap THEN gap + 1 ELSE gap
  /\ dTimer' = Earlier(dTimer)
  /\ psTimer' = Earlier(psTimer)
  /\ UNCHANGED <<rc5Data, main, debounce, ps, history>>

-----------------------------------------------------------------------------
(* The main loop. *)

ReadOne ==
  /\ pc = "read"
  /\ word' = Part(rc5Data, ReadFirst)
  /\ pc' = "readRest"
  /\ UNCHANGED <<rc5Data, timers, out, turns, gap, history>>

\* A plausible bug: rc5_data is cleared in every turn.
ReadRestClearAlways ==
  /\ pc = "readRest"
  /\ word' = word + Part(rc5Data, Other(ReadFirst))
  /\ pc' = IF Valid(word') THEN "send" ELSE "clear"
  /\ taken' = (taken \/ Valid(word'))
  /\ UNCHANGED <<rc5Data, timers, out, turns, gap, last>>

\* if (BIT_IS_SET(rc5_data, RC5_FLAG_VALID)) ... else on to the rest of the loop
ReadRest ==
  /\ pc = "readRest"
  /\ word' = word + Part(rc5Data, Other(ReadFirst))
  /\ pc' = IF Valid(word') THEN "send" ELSE "update"
  /\ taken' = (taken \/ Valid(word'))
  /\ UNCHANGED <<rc5Data, timers, out, turns, gap, last>>

\* While FLAG_DEBOUNCE is set the key is not sent.
Suppress ==
  /\ pc = "send"
  /\ debounce
  /\ pc' = "standby"
  /\ UNCHANGED <<rc5Data, word, timers, out, turns, gap, history>>

SendAddr ==
  /\ pc = "send"
  /\ ~debounce
  /\ out' = <<Get(word).addr>>
  /\ pc' = "sendCode"
  /\ UNCHANGED <<rc5Data, word, timers, turns, gap, history>>

SendCode ==
  /\ pc = "sendCode"
  /\ out' = <<out[1], Get(word).cmd>>
  /\ pc' = "debounce"
  /\ UNCHANGED <<rc5Data, word, timers, turns, gap, history>>

\* A plausible bug: the debounce timer is not started.
StartDebounceNoTimer ==
  /\ pc = "debounce"
  /\ debounce' = TRUE
  /\ pc' = "standby"
  /\ UNCHANGED <<rc5Data, word, dTimer, ps, psTimer, out, turns, gap, history>>

StartDebounce ==
  /\ pc = "debounce"
  /\ debounce' = TRUE
  /\ dTimer' = DebounceTime
  /\ pc' = "standby"
  /\ UNCHANGED <<rc5Data, word, ps, psTimer, out, turns, gap, history>>

\* if (code == STB_CODE), debounced or not: a held key prolongs the pulse.
Standby ==
  /\ pc = "standby"
  /\ IF Get(word).cmd = StbCode
       THEN ps' = TRUE /\ psTimer' = PulseTime
       ELSE UNCHANGED <<ps, psTimer>>
  /\ pc' = "clear"
  /\ UNCHANGED <<rc5Data, word, debounce, dTimer, out, turns, gap, history>>

\* rc5_data = 0
ClearOne ==
  /\ pc = "clear"
  /\ rc5Data' = Part(rc5Data, Other(ClearFirst))
  /\ pc' = "clearRest"
  /\ UNCHANGED <<word, timers, out, turns, gap, history>>

ClearRest ==
  /\ pc = "clearRest"
  /\ rc5Data' = Part(rc5Data, ClearFirst)
  /\ pc' = "update"
  /\ UNCHANGED <<word, timers, out, turns, gap, history>>

\* A plausible bug: debounce_cb() forgets the flag.
UpdateKeepsFlag ==
  /\ pc = "update"
  /\ UNCHANGED debounce
  /\ dTimer' = IF dTimer = 0 THEN Off ELSE dTimer
  /\ ps' = (ps /\ psTimer # 0)
  /\ psTimer' = IF psTimer = 0 THEN Off ELSE psTimer
  /\ turns' = IF turns < 2 THEN turns + 1 ELSE turns
  /\ pc' = "read"
  /\ out' = <<>>
  /\ UNCHANGED <<rc5Data, word, gap, history>>

\* A plausible bug: ps_cb() leaves the pin as it is.
UpdateKeepsPower ==
  /\ pc = "update"
  /\ debounce' = (debounce /\ dTimer # 0)
  /\ dTimer' = IF dTimer = 0 THEN Off ELSE dTimer
  /\ UNCHANGED ps
  /\ psTimer' = IF psTimer = 0 THEN Off ELSE psTimer
  /\ turns' = IF turns < 2 THEN turns + 1 ELSE turns
  /\ pc' = "read"
  /\ out' = <<>>
  /\ UNCHANGED <<rc5Data, word, gap, history>>

\* timer_update() with debounce_cb() and ps_cb(), and the end of the turn.
Update ==
  /\ pc = "update"
  /\ debounce' = (debounce /\ dTimer # 0)
  /\ dTimer' = IF dTimer = 0 THEN Off ELSE dTimer
  /\ ps' = (ps /\ psTimer # 0)
  /\ psTimer' = IF psTimer = 0 THEN Off ELSE psTimer
  /\ turns' = IF turns < 2 THEN turns + 1 ELSE turns
  /\ pc' = "read"
  /\ out' = <<>>
  /\ UNCHANGED <<rc5Data, word, gap, history>>

Main ==
  \/ ReadOne
  \/ ReadRest
  \/ Suppress
  \/ SendAddr
  \/ SendCode
  \/ StartDebounce
  \/ Standby
  \/ ClearOne
  \/ ClearRest
  \/ Update

Next ==
  \/ \E key \in Key, toggle \in {0, 1} : Frame(key, toggle)
  \/ Tick
  \/ Main

Spec == Init /\ [][Next]_vars

\* The main loop and time go on; nobody has to press a key.
FairSpec == Spec /\ WF_vars(Main) /\ WF_vars(Tick)

-----------------------------------------------------------------------------
(* Every variable keeps to the values its C type and use give it.          *)
TypeOK ==
  /\ rc5Data \in Word
  /\ pc \in {"read", "readRest", "send", "sendCode", "debounce", "standby",
             "clear", "clearRest", "update"}
  /\ word \in Word
  /\ debounce \in BOOLEAN
  /\ dTimer \in Off .. DebounceTime
  /\ ps \in BOOLEAN
  /\ psTimer \in Off .. PulseTime
  /\ turns \in 0 .. 2
  /\ gap \in 0 .. FrameGap
  /\ last \in Key
  /\ taken \in BOOLEAN

\* README.md: the ATmega8 is used to "decode RC5 signals".  So the pair of
\* bytes sent to the host is the key that was pressed, never a mixture of
\* two frames or of a frame and nothing.
KeyIsReal == pc = "debounce" => out = <<last.addr, last.cmd>>

\* rc5_data is not wiped before the main loop has read the frame in it: a
\* frame that arrives at whatever point of the loop is looked at.
FrameIsTaken == [][Valid(rc5Data) /\ ~Valid(rc5Data)' => taken]_vars

\* While keys are suppressed the debounce timer runs, so that they will not
\* stay so; while the power pin is pulsed the pulse timer runs.
FlagsAreTimed ==
  /\ debounce => dTimer # Off
  /\ ps => psTimer # Off

\* Keys are accepted again and again.
DebounceEnds == []<>~debounce

\* The pulse on the power pin ends, unless the standby key is held for ever.
PulseEnds == []<>~ps \/ []<>(gap = 0 /\ last.cmd = StbCode)
=============================================================================
