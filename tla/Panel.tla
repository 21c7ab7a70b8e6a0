--------------------------------- MODULE Panel ---------------------------------
(***************************************************************************)
(* firmware/main.c, the display half of the main loop: the parser of the   *)
(* host's frames, the two lines of text, their scrolling, and the timeout  *)
(* that ends a frame whose bytes do not come.  All of it runs in the main  *)
(* program, so a handler or a callback is one step.                        *)
(*                                                                         *)
(* The host (external) writes frames: a header byte, the command in its    *)
(* high and the line in its low nibble, and the data.  On the way bytes    *)
(* may be lost, in the receive buffer or on the wire, or come late, and    *)
(* the end of a frame may be missing: the daemon ignores what its write()  *)
(* returns.  Time is counted in fractions of UART_TIMEOUT.                 *)
(***************************************************************************)
EXTENDS Display

CONSTANTS BufferLength,  \* BUFFER_LENGTH, 40
          Behind,        \* bytes behind a buffer that can be other than zero: 3
          Frames,        \* the frames the host may send
          UartTimeout,   \* UART_TIMEOUT
          LossMax,       \* bound: bytes lost or frames cut
          AfterMax       \* bound: frames begun after the first disturbance

LineCount == 2         \* LINE_COUNT
Line == 0 .. LineCount - 1
Byte == 0 .. 255

HighNibble(b) == b \div 16
LowNibble(b) == b % 16
LcdUpdateCmd == 1
LcdFlagsCmd == 2
LcdDimCmd == 3

\* check_cmd()
IsCmd(b) == HighNibble(b) \in {LcdUpdateCmd, LcdFlagsCmd, LcdDimCmd}

\* A plausible bug: the header is counted among the data.
CmdLengthWithHeader(b) ==
  IF HighNibble(b) = LcdUpdateCmd THEN BufferLength + 1 ELSE 2

CmdLength(b) == IF HighNibble(b) = LcdUpdateCmd THEN BufferLength ELSE 1

ASSUME PanelAssumption ==
  /\ BufferLength \in Nat /\ BufferLength > LineLength
  /\ UartTimeout \in Nat \ {0}
  /\ Behind \in Nat /\ LossMax \in Nat /\ AfterMax \in Nat
  /\ \A f \in Frames : /\ f \in Seq(Byte)
                       /\ IsCmd(f[1])
                       /\ HighNibble(f[1]) = LcdUpdateCmd => LowNibble(f[1]) \in Line
                       /\ Len(f) = IF HighNibble(f[1]) = LcdUpdateCmd
                                     THEN 1 + BufferLength ELSE 2

VARIABLES state,      \* ctx.state
          cmd,        \* ctx.cmd
          cnt,        \* ctx.cnt
          timer,      \* the timeout timer: Off or the time left
          line,       \* lcd.line
          flags,      \* bit LCD_AUTO_SCROLL of lcd.flags, the only one read
          disp,       \* the display's memory
          bright,     \* its brightness
          corrupt,    \* a byte was written outside lcd.line
          frame,      \* the frame the host sends, or Unknown
          pos,        \* how many of its bytes have gone
          age,        \* time since it was begun
          quiet,      \* time since the last byte, after a disturbance
          lost,       \* bytes lost and frames cut so far
          after,      \* frames begun after the first disturbance
          synced,     \* history: nothing was lost or late since all was quiet
          harmed,     \* history: something was
          want        \* history: what the host has set since, or Unknown

parser == <<state, cmd, cnt, timer>>
shown == <<line, flags, disp, bright>>
host == <<frame, pos, age, quiet, lost, after>>
history == <<synced, harmed, want>>
vars == <<parser, shown, corrupt, host, history>>

Off == -1
Unknown == <<>>
NothingWanted == [line |-> [l \in Line |-> Unknown], flags |-> Unknown, dim |-> Unknown]

\* What lies behind a line's buffer: the other members of the structure.
Junk == 256

Text(f) == Tail(f)
Char(ln, i) == IF i <= BufferLength THEN ln.buffer[i] ELSE Junk

\* strlen(): of a buffer without a zero it also counts the bytes of sp and
\* length, until one of them or pause_cnt is zero.
Lengths(buffer) ==
  LET zeros == {i \in 1 .. BufferLength : buffer[i] = 0}
  IN  IF zeros = {} THEN BufferLength .. BufferLength + Behind
      ELSE {i - 1 : i \in {z \in zeros : \A y \in zeros : z <= y}}

\* The characters lcd_update() writes: from sp up to a zero, then spaces.
Window(ln) ==
  [i \in 1 .. LineLength |->
     IF \E j \in 1 .. i : Char(ln, ln.sp + j) = 0 THEN Blank ELSE Char(ln, ln.sp + i)]

LcdUpdate(d, ln, y) == Puts(GotoXY(d, 0, y), Window(ln))

\* A text of this length stands for "  Efika MPD Player  ".
Title == [i \in 1 .. LineLength |-> 84] \o <<NewlineChar>>
BlankRow == [i \in 1 .. LineLength |-> Blank]

Init ==
  /\ state = "idle"
  /\ cmd = 0
  /\ cnt = 0
  /\ timer = Off
  /\ line = [l \in Line |-> [buffer |-> [i \in 1 .. BufferLength |-> 0],
                             sp |-> 0, length |-> 0]]
  /\ flags = 0
  /\ disp = Puts(Puts(Cleared, Title), Title)
  /\ bright = 2
  /\ corrupt = FALSE
  /\ frame = Unknown
  /\ pos = 0
  /\ age = 0
  /\ quiet = 0
  /\ lost = 0
  /\ after = 0
  /\ synced = TRUE
  /\ harmed = FALSE
  /\ want = NothingWanted

-----------------------------------------------------------------------------
(* uart_handle_data() *)

\* Between frames only a header is looked at; it starts the timeout.
HandleIdle(b) ==
  /\ state = "idle"
  /\ IF IsCmd(b)
       THEN /\ cmd' = b
            /\ cnt' = CmdLength(b)
            /\ state' = "data"
            /\ timer' = UartTimeout
       ELSE UNCHANGED parser
  /\ UNCHANGED <<shown, corrupt>>

\* uart_collect(), one disjunct for each command.  Nothing keeps the line
\* number below LINE_COUNT.
CollectLine(b) ==
  /\ HighNibble(cmd) = LcdUpdateCmd
  /\ LowNibble(cmd) \in Line
  /\ LET l == LowNibble(cmd)
         buffer == [line[l].buffer EXCEPT ![BufferLength - cnt + 1] = b]
     IN  \/ /\ cnt # 1
            /\ line' = [line EXCEPT ![l].buffer = buffer]
            /\ UNCHANGED disp
         \/ /\ cnt = 1
            /\ \E n \in Lengths(buffer) :
                 line' = [line EXCEPT ![l] = [buffer |-> buffer, sp |-> 0, length |-> n]]
            /\ disp' = LcdUpdate(disp, line'[l], l)
  /\ UNCHANGED <<flags, bright, corrupt>>

CollectOutside(b) ==
  /\ HighNibble(cmd) = LcdUpdateCmd
  /\ LowNibble(cmd) \notin Line
  /\ corrupt' = TRUE
  /\ UNCHANGED shown

CollectFlags(b) ==
  /\ HighNibble(cmd) = LcdFlagsCmd
  /\ flags' = b % 2
  /\ UNCHANGED <<line, disp, bright, corrupt>>

CollectDim(b) ==
  /\ HighNibble(cmd) = LcdDimCmd
  /\ bright' = IF b < 4 THEN b ELSE bright
  /\ UNCHANGED <<line, flags, disp, corrupt>>

Collect(b) == CollectLine(b) \/ CollectOutside(b) \/ CollectFlags(b) \/ CollectDim(b)

\* A plausible bug: the timeout goes on after the last byte.
HandleDataTimed(b) ==
  /\ state = "data"
  /\ Collect(b)
  /\ cnt' = cnt - 1
  /\ state' = IF cnt = 1 THEN "idle" ELSE "data"
  /\ UNCHANGED <<cmd, timer>>

\* The last byte of a frame stops the timeout.
HandleData(b) ==
  /\ state = "data"
  /\ Collect(b)
  /\ cnt' = cnt - 1
  /\ IF cnt = 1 THEN state' = "idle" /\ timer' = Off
                ELSE UNCHANGED <<state, timer>>
  /\ UNCHANGED cmd

-----------------------------------------------------------------------------
(* timer_update() *)

\* A plausible bug: the parser is not reset.
TimeoutKeepsState ==
  /\ timer = 0
  /\ ~corrupt
  /\ timer' = Off
  /\ disp' = Puts(Puts(disp, Title), BlankRow)
  /\ want' = [want EXCEPT !.line = NothingWanted.line]
  /\ UNCHANGED <<state, cmd, cnt, line, flags, bright, corrupt, host, synced, harmed>>

\* uart_timeout_cb(): the title goes to wherever the cursor is.
Timeout ==
  /\ timer = 0
  /\ ~corrupt
  /\ timer' = Off
  /\ cnt' = 0
  /\ state' = "idle"
  /\ disp' = Puts(Puts(disp, Title), BlankRow)
  /\ want' = [want EXCEPT !.line = NothingWanted.line]
  /\ UNCHANGED <<cmd, line, flags, bright, corrupt, host, synced, harmed>>

\* lcd_scroll_cb(), which runs every second, here at any time: all lines
\* but the last, so the first, if LCD_AUTO_SCROLL is set.
Scroll ==
  /\ ~corrupt
  /\ flags = 1
  /\ line[0].length > LineLength
  /\ line' = [line EXCEPT ![0].sp = IF @ < line[0].length - LineLength THEN @ + 1 ELSE 0]
  /\ disp' = LcdUpdate(disp, line'[0], 0)
  /\ UNCHANGED <<parser, flags, bright, corrupt, host, history>>

-----------------------------------------------------------------------------
(* The host and the wire. *)

Sending == frame # Unknown

\* One byte of the frame leaves the wire.
ByteGone ==
  /\ Sending
  /\ ~corrupt
  /\ quiet' = 0
  /\ IF pos + 1 < Len(frame)
       THEN pos' = pos + 1 /\ UNCHANGED <<frame, age>>
       ELSE frame' = Unknown /\ pos' = 0 /\ age' = 0

Begin(f) ==
  /\ ~Sending
  /\ ~corrupt
  /\ frame' = f
  /\ UNCHANGED <<pos, age>>
  /\ after' = IF harmed THEN after + 1 ELSE after
  /\ after' <= AfterMax
  /\ quiet' = 0
  /\ UNCHANGED <<parser, shown, corrupt, lost, history>>

Wanted(f) ==
  IF HighNibble(f[1]) = LcdUpdateCmd
    THEN [want EXCEPT !.line[LowNibble(f[1])] = Text(f)]
  ELSE IF HighNibble(f[1]) = LcdFlagsCmd
    THEN [want EXCEPT !.flags = Text(f)]
  ELSE IF f[2] < 4
    THEN [want EXCEPT !.dim = Text(f)]
  ELSE want

Receive ==
  /\ ByteGone
  /\ HandleIdle(frame[pos + 1]) \/ HandleData(frame[pos + 1])
  /\ want' = IF synced /\ frame' = Unknown THEN Wanted(frame) ELSE want
  /\ UNCHANGED <<lost, after, synced, harmed>>

Lose ==
  /\ ByteGone
  /\ lost < LossMax
  /\ lost' = lost + 1
  /\ synced' = FALSE
  /\ harmed' = TRUE
  /\ want' = NothingWanted
  /\ UNCHANGED <<parser, shown, corrupt, after>>

\* write() takes only the beginning of the frame, and the daemon does not look.
Cut ==
  /\ Sending
  /\ ~corrupt
  /\ pos > 0
  /\ lost < LossMax
  /\ lost' = lost + 1
  /\ frame' = Unknown /\ pos' = 0 /\ age' = 0 /\ quiet' = 0
  /\ synced' = FALSE
  /\ harmed' = TRUE
  /\ want' = NothingWanted
  /\ UNCHANGED <<parser, shown, corrupt, after>>

\* A callback that is due runs before more time passes: the main loop turns
\* much faster than the timers.  A frame not over after a whole timeout is
\* late; after a silence longer than that host and panel agree again.
Tick ==
  /\ timer # 0
  /\ ~corrupt
  /\ timer' = IF timer > 0 THEN timer - 1 ELSE timer
  /\ quiet' = IF ~synced /\ quiet <= UartTimeout THEN quiet + 1 ELSE quiet
  /\ age' = IF Sending /\ age < UartTimeout THEN age + 1 ELSE age
  /\ IF Sending /\ age' = UartTimeout
       THEN synced' = FALSE /\ harmed' = TRUE /\ want' = NothingWanted
       ELSE /\ synced' = (synced \/ (~Sending /\ quiet' > UartTimeout))
            /\ UNCHANGED <<harmed, want>>
  /\ UNCHANGED <<state, cmd, cnt, shown, corrupt, frame, pos, lost, after>>

\* What follows a write outside lcd.line is undefined and not explored.
Undefined ==
  /\ corrupt
  /\ UNCHANGED vars

-----------------------------------------------------------------------------
Next ==
  \/ Timeout
  \/ Scroll
  \/ \E f \in Frames : Begin(f)
  \/ Receive
  \/ Lose
  \/ Cut
  \/ Tick
  \/ Undefined

Spec == Init /\ [][Next]_vars

\* Time passes and the main loop calls timer_update(); the host may stop.
FairSpec == Spec /\ WF_vars(Tick) /\ WF_vars(Timeout)

-----------------------------------------------------------------------------
(* Every variable keeps to the values its C type and use give it.          *)
TypeOK ==
  /\ state \in {"idle", "data"}
  /\ cmd \in Byte
  /\ cnt \in 0 .. BufferLength
  /\ timer \in Off .. UartTimeout
  /\ \A l \in Line : /\ line[l].buffer \in [1 .. BufferLength -> Byte]
                     /\ line[l].sp \in 0 .. BufferLength + Behind - LineLength
                     /\ line[l].length \in 0 .. BufferLength + Behind
  /\ flags \in {0, 1}
  /\ disp.ac \in 0 .. 2 * RowCells - 1
  /\ bright \in 0 .. 3
  /\ lost \in 0 .. LossMax
  /\ quiet \in 0 .. UartTimeout + 1

\* While a frame is collected bytes are missing and the timeout runs; it
\* never runs, and so never overwrites the display, between frames.
CollectingIsTimed ==
  ~corrupt => /\ state = "data" <=> cnt > 0
              /\ state = "data" <=> timer # Off

\* The row shows the text from its beginning or, in the first line, from
\* where scrolling has taken it; a zero ends the text.
ShowsText(l, text) ==
  \E from \in 0 .. (IF l = 0 THEN BufferLength - LineLength ELSE 0) :
    \A i \in 1 .. LineLength :
      Row(disp, l)[i] = IF \E j \in 1 .. i : text[from + j] = 0
                          THEN Blank ELSE text[from + i]

\* A text that fills its buffer has no zero at its end: it scrolls on into
\* the bytes behind the buffer.
Overruns(l, text) ==
  line[l].sp > BufferLength - LineLength /\ \A i \in 1 .. BufferLength : text[i] # 0

\* While the next text for line l comes in, scrolling shows a mixture.
Mixing(l) == Sending /\ LowNibble(frame[1]) = l /\ flags = 1

\* What the host sent whole is what the panel shows and uses: when bytes
\* were lost or late this holds again from the first frame after a silence
\* longer than the timeout.
FrameShown ==
  /\ synced /\ ~Sending /\ ~corrupt => state = "idle"
  /\ ~corrupt =>
       /\ \A l \in Line : want.line[l] # Unknown /\ ~Mixing(l)
                            => \/ ShowsText(l, want.line[l])
                               \/ Overruns(l, want.line[l])
       /\ want.flags # Unknown => want.flags[1] % 2 = flags
       /\ want.dim # Unknown => want.dim = <<bright>>

\* As long as no byte is lost or late no text is taken for a header, and
\* nothing is written outside lcd.line.
NoStrayWrite == corrupt => harmed

\* The parser does not wait for ever for the rest of a frame.
FrameEnds == state = "data" ~> (state = "idle" \/ corrupt)
=============================================================================
