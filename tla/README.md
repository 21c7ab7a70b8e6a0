# A verification of Efika MPD

Efika MPD is a music player's front panel and the program behind it.  The
**firmware** (`firmware/`, an ATmega8) drives a two-line vacuum fluorescent
display, decodes an RC5 remote control and talks to the host over a serial
line.  The **daemon** (`client/efikampd.c`, Linux) is a client of the music
player MPD: it sends the panel what to show and acts on the keys the panel
sends.  This directory holds TLA+ models of both, TLC configurations that check
them, and proofs checked by TLAPS.

    remote control --IR--> rc5_x.c --rc5_data--> main.c --> uart.c --serial--> efikampd.c <--> libmpd/MPD
                                      display <-- lcd.c <-- main.c <-- uart.c <--serial-- efikampd.c
                                      timers.c: callbacks into main.c

Contents: 1 the system, 2 the modules, 3 the runs, 4 fairness, 5 the proofs,
6 what the runs found, 7 what is not modelled, 8 the plan.

## 1. The system: components, state, hard behaviours

| component | state it keeps | operations | talks to | what is hard, what makes it correct |
|---|---|---|---|---|
| UART, `firmware/uart.c` | two rings of 32 bytes with head and tail, the last receive status, the transmit interrupt's enable bit | two interrupts; `uart_getc`, `uart_putc`, `uart_puts`, `uart_flush` | main loop by shared variables that nothing locks | interrupts between any two accesses; full ring; switching the transmit interrupt off: no byte lost, doubled, reordered or left behind |
| timers, `firmware/timers.c` | ten timers (flags, ticks, counter, callback), the request `irq` | tick interrupt; `timer_update` and its callbacks; add, set, enable, disable, remove | callbacks in `main.c` | 16-bit counters accessed byte by byte; a request lost during the scan; callbacks that stop timers: fire when due, not before, not after being stopped |
| RC5 decoder, `firmware/rc5_x.c` | state, bit and tick counters, bits so far; the mailbox `rc5_data` | timer interrupt, pin interrupt | main loop by `rc5_data` | noise and half frames before a good one; thresholds: a good frame is always decoded, exactly |
| main loop, remote half, `firmware/main.c` | `rc5_data`, the debounce flag, two timers, the power pin | one turn of the loop, `debounce_cb`, `ps_cb` | decoder, `uart_putc`, timers | the hand-over of 16 bits in two halves: only real keys are sent, none is wiped, suppression and pulse end |
| main loop, display half, `firmware/main.c` | parser (state, command, count), two lines, flags, the timeout | `uart_handle_data`, `lcd_scroll_cb`, `uart_timeout_cb` | `uart_getc`, `lcd.c`, timers | lost and late bytes, texts without an end, scrolling in the middle of a line: what was sent is shown, and again after a disturbance |
| LCD driver, `firmware/lcd.c` | the display's memory and address counter | gotoxy, putc, puts, brightness, init | the display's bus | busy flag, power-on sequence |
| daemon, `client/efikampd.c` | the menu tree and the cursor in it, the state, two lines with their update flags | one per key; status callback; the turn of the loop | panel (serial), libmpd (calls and callbacks) | events that come while the menu is open, a database that changes under the cursor, flags that commands overwrite: the cursor stays valid, the panel catches up |
| serial line | bytes on the way | `read`, `write` without blocking | both ends | short reads and writes, pairs out of step |
| daemon, start and end | files, the connection | `main`, `cleanup`, signal handler | the system | order of closing |
| terminal library, `client/term.c` | sixteen slots: a descriptor with the original, the current and the next settings of its device | add, remove, erase, replace, set..., apply, revert, refresh, reset; the exit handler | the devices, by calls that can fail | three copies of the settings, calls that fail half-way, devices closed and reopened: what was found is given back, a failure changes no settings and adds nothing |
| list library, `client/simclist.c` | cells linked both ways, a pointer to the middle, spare cells, an iteration session | insert, delete, get, find, sort, concatenate, iterate, destroy | its caller | a middle that is moved instead of computed, walks from three ends, cells reused, a session over a list that changes: it is a sequence |

The two halves of the firmware's main loop share nothing but their turn of the
loop, the timers and the UART, which have specifications of their own; so each
half is a module with the abstraction of the timers it needs (a count down and
a callback that runs at the next `timer_update()`).

`PROJECT.json` lists every component with its modules, every hazard at its line
with the properties that cover it, and for every definition the lines it
translates.

## 2. The modules

**`Ring`**: the index arithmetic of the circular buffers.  `Succ` is the masked
increment, `Contents` the bytes in the ring, oldest first.

**`ByteQueue`**: the abstract specification of one direction of the UART: a
bounded FIFO that refuses only when full and then says so.

**`UartRx`**: variables are the C variables.  The interrupt is one action, since
it runs to completion; `uart_getc()` is four (`GetcBegin`, `GetcAdvance`,
`GetcRead`, `GetcReturn`), one for each access of a shared variable.  It
implements `ByteQueue` with `q <- Contents(...)`: a byte is taken at the moment
the tail moves, though it is read one step later, and `taken` is therefore
`InHand`, the slot while it is still to be read.

**`UartTx`**: `uart_putc()` in five steps, the interrupt in two cases, and the
transmitter that empties UDR.  It implements `ByteQueue` with a byte in the
queue once its index is published, and `overflow` constantly `FALSE`.

**`Timers`**: every timer function.  A counter is a number below `Base * Base`;
its two halves are read and written in separate steps, in either order, and
`Tick` may come between them, as the AVR allows.  Callbacks call at most one
timer function, and so does a turn of the main loop (the bound `MayCall`).
`age` and `armed` are history.

**`Rc5`**: the decoder with its environment: `FrameBegin`, `BitMiddle`,
`BitBegin` and `FrameEnd` send a Manchester-coded frame in which every half bit
lasts anything between `HalfMin` and `HalfMax` ticks; `Noise` adds up to
`NoiseMax` edges from one frame to the next, which also leaves the decoder in
the middle of frames that never were.  `sent` is history, the bits after the start
bit, whose second half is the edge that starts the decoder; a word keeps sixteen.

**`Remote`** (`MCRemote`): the main loop from `rc5_data` to `uart_putc()`.
`ReadFirst` and `ClearFirst` are the halves the compiler reads and clears
first.  The variable is read once per turn, as a compiler does that keeps it in
registers until `rc5_get()`.

**`Display`**: `lcd_gotoxy()`, `lcd_putc()`, `lcd_newline()` and the puts
functions as functions of [ram, ac].  **`Panel`** (`MCPanel`) builds on it: the
parser, the lines, scrolling, the timeout, the host that sends whole frames and
a line that loses or delays bytes.  `Cut` is a frame whose end never comes, since
the daemon does not look at how much of it `write()` took.  A frame is *disturbed*
when a byte of it is lost, its end is missing or it takes longer than the timeout;
`synced` says that there was no
disturbance since the last silence longer than the timeout, and `want` what the
host has set since.  `strlen()` of a buffer without a zero is a choice over the
bytes that follow it.

**`Daemon`** (`MCDaemon`): the program has one thread, so a command, a status
callback or the writing of the display is one action.  The tree of menu entries
is a function from paths to lists: `menu[p]` is the list below `p`, and
`prev`, `next`, `parent` and `child` are neighbouring paths.  `pending` is
`update_flags`.  A null pointer that is used sets `crash`: to `"empty"` when the
list that was asked for has no entry (`CmdSelectNothing`), to `"unanswered"` when
the query has failed, because the connection is lost or MPD reports an error
(`CmdSelectUnanswered`): libmpd then gives NULL, which `menu_fetch_songs()`,
`menu_fetch_albums()` and `menu_fetch_artists()` pass on.  What the player is told
may fail, too, and so may the query of its status (`StatusFails`); the daemon looks
at none of these results.  `known` is what
libmpd compared with when it last looked: it reports a change once.  MPD's
changes are allowed only at the two points of the loop where MPD is looked at;
anywhere else they would commute with the step that follows.  `same` is
history: the buffer is what the panel was sent last.  `WriteShort` is a turn in
which `write()` does not take everything: the flags are cleared all the same.

**`Term`** (`MCTerm`): the table is a function from slots to entries; a device's
settings are its speed, its data bits and the flags the library touches.  A call
for a descriptor succeeds or, where it asks the device, may fail (`Outcomes`);
one that the library refuses at once changes nothing and is no step.  The program
opens a device once at a time and replaces the descriptor of one it has reopened,
as `term.h` describes.  `found` is history: the settings the library owes a
device.  `First` and `Last` are the ends of the library's loops over the slots.
`SetNew` is `term_set()` of a descriptor that is not managed.  The code takes the
value of `term_add()`, 0 for success, for the new slot, so after an invalid parameter
it frees slot 0, whichever device is there, and the new entry stays with what was set
of it.  `orphans` is history: the devices that lost their slot in this way.

**`ListSpec`** is what the list library promises: a sequence of items and an
iteration session, with memory for `Cells` items.  `Refuse` is a call that fails,
`Lose` one after which the program has crashed, each only where its guard allows it:
an insertion fails during a session, at a position that is not there or without
memory, and three calls crash.  In one thing the module is not with `simclist.h` but
with the code: `list_clear()` and `list_delete_range()` return no count (section 6).
**`SimcList`**
(`MCSimcList`) has the cells of the C program: `next`, `prev` and `data` over a
finite heap, `numels`, `mid`, the spare cells, and the session's `iter_pos` and
`iter_curentry`.  `list_findpos` walks from the head, from the middle or from
the tail, as the code does; sorting is the selection sort for short lists and
the quicksort, with every pivot it may draw, for long ones, exactly as many
elements as the code's threshold `MinQuick` says.  A loop of the code is an
operator for one round (`Select`, `Approach`, `GatherOne`) and a function that
counts the rounds; a round that has nothing left to do changes nothing, so the
count may be too high.  A list that `list_concat()` makes takes its cells from the
same `Cells`, those of the list it replaces and of the other one not counted, and
without enough of them the call uses the null pointer that `malloc()` gives.
`SimcList` implements `ListSpec` with `items` read along `next`.

## 3. The runs

`tlc -config X.cfg M` with the module named; all in `PROJECT.json`.  Deadlock is
checked everywhere but in `SimcList`, where the program may have crashed:
`Undefined` (Panel) and `Gone` (Daemon) are the steps of a program of which
nothing more is said.  What a property excepts is no less part of what it says:
`CrashNeedsEmptyList` is about queries that MPD answers, `Restored` not about devices
that a failed `term_set()` of another descriptor has taken out of the table, and
the last part of `FailureKeepsEntries`, that nothing is added, is for a free slot 0.

| run | module | expect | states | shows |
|---|---|---|---|---|
| `UartRx` | UartRx | pass | 99,792 | `RxImplementsFifo`: any interleaving of the interrupt with getc and flush is the FIFO |
| `UartTx` | UartTx | pass | 3,712 | `TxImplementsFifo`, `NoLostWakeup`, and live: `TxDrains`, `PutcReturns` |
| `Timers` | Timers | pass | 407,353 | `EnabledIsOwned`, `FiresOnlyArmed`, `NoEarlyFire` for periods within one byte, `EnabledIsServed` |
| `TimersEarly` | Timers | violation | | `NoEarlyFire` for a period that needs both bytes |
| `Rc5` | Rc5 | pass | 1,781,420 | `DecodesExactly`, `NotStuck`, `IdleIsClean` |
| `Remote` | MCRemote | pass | 15,762 | high byte first: `KeyIsReal`, `FrameIsTaken`, `FlagsAreTimed`, `DebounceEnds`, `PulseEnds` |
| `RemoteTorn` | MCRemote | violation | | low byte first: `KeyIsReal` fails |
| `Panel` | MCPanel | pass | 1,080,969 | `CollectingIsTimed`, `FrameShown`, `NoStrayWrite`, `FrameEnds` |
| `Daemon` | MCDaemon | pass | 1,392,120 | `CursorInMenu`, `SelectionIsShown`, `MenuMatchesLibrary`, `CrashNeedsEmptyList`, `ScreenCatchesUp` |
| `DaemonState` | MCDaemon | violation | | `StateFollowsPlayer` |
| `Term` | MCTerm | pass | 401,919 | `Restored`, `CurrIsDevice`, `FailureKeepsEntries` |
| `SimcList` | MCSimcList | pass | 15,969 | `RepOk`, `Reads`, `ImplementsList` |

### Bounds, and why they are enough

- `UartRx`, `UartTx`: rings of 4.  A ring of 4 holds 3 bytes, so it is empty,
  partly filled and full, and wraps at every offset; three values tell the
  order of bytes apart.  The proofs are for every size.
- `Timers`: two timers, so that a callback has another timer before and behind
  it in the scan.  `Base = 4` with periods 0, 1 and 2 stays within one half of
  a counter; the zero period is a timer that fires at once.  `Base = 2` with
  period 2 is the smallest counter whose decrement borrows.
- `Rc5`: three bits instead of 13 contain each sequence of two bits and a first
  and last bit of either value.  Half a bit lasts 7 to 10 ticks, the widest
  range that the thresholds of the code leave between
  `RC5_PULSE_DURATION` and half of `RC5_TOGGLE_TIMEOUT`.  The tick counter wraps
  at 24 instead of 256, just above the timeout, so that it wraps while idle.
  Two noise edges reach every state of the decoder.
- `Remote`: the firmware's own times in units of 50 ms; frames of a held key come
  every 114 ms, hence `FrameGap = 2`.  The keys are one with and one without the
  seventh bit of the same address and one of another.
- `Panel`: lines of one visible and buffers of three characters, the smallest at
  which a text is shorter than, as long as and longer than the display, and
  scrolls by two.  One byte is lost or one frame cut, in any place, or a frame comes late
  (any number of times); one more frame starts after that.
- `Daemon`: a database with two states, so that it changes once, with artists
  and albums of which some stay, move and vanish; three stations, a list longer
  than the display.  One key per turn of the loop (`KeysMax = 1`) and one of the
  two brightness keys: with a write skipped several keys still fall between two
  writes, in every order.
- `Term`: two slots and two devices, one of them opened under two descriptors in
  turn, so that a slot is free, taken and reused and a descriptor replaced; one
  valid request and one whose flow control, the last parameter that can be invalid, is
  so after the others have changed something; `term_set()` fails with slot 0 free and
  in use.  The proofs are for every number of each.
- `SimcList`: up to six cells of three values.  From one element to six the middle
  moves in every direction, each quarter of `list_findpos()` has an element of
  its own, and equal items meet when sorting; two spare cells are none, some and
  too many.  `VIEW` identifies states that differ in the names of cells: no
  operation compares two pointers except for equality, and `call`, which is
  dropped from the view too, is a note of what was called.

Each property of a passing run has in `PROJECT.json` a mutant: a plausible bug
of the code, defined just before the operator it replaces, with which TLC finds
the property violated.

## 4. Fairness

- `UartTx`: a call in progress goes on, a pending interrupt is served (interrupts
  are never masked after `sei()`), and the transmitter runs on its own clock.
  Nobody has to call `uart_putc()`.
- `Timers`, `Remote`: the hardware timer ticks, and the main loop turns, since
  nothing in it waits for ever (`PutcReturns` for `uart_putc()`).  No key has to
  be pressed.  In `Remote` two ends of a turn lie in each unit of 50 ms: the
  longest work, redrawing a line, is far shorter.
- `Panel`: time passes, and a callback that is due runs.  The host may stop in
  the middle of a frame.
- `Daemon`: weak fairness of the loop's steps.  Strong fairness of `NewSecond`,
  since a second begins again and again, and of a `Write` that takes both lines,
  since the serial line empties (82 bytes a second on a line that carries 1920) and
  takes whole frames again whatever was cut before.  MPD, the user and the
  database have no fairness; `DaemonState` alone (`AnsweredSpec`) assumes that again
  and again MPD answers the query of its status, without which nobody could know it.
- `Term`, `SimcList`: none; a library is called or it is not.

## 5. The proofs

TLAPS proves, for every value of the constants that meets the assumptions of the
modules (ring sizes are powers of two up to 256, as the C types and `uart.h`
demand; 0 is a byte):

| module | theorem | says |
|---|---|---|
| `DriverProofs` | `RxTypeCorrect`, `RxIsFifo` | `RxSpec => []RxTypeOK`, `RxSpec => RxFifo!Spec` |
| `DriverProofs` | `TxTypeCorrect`, `NoWakeupLost`, `TxIsFifo` | `TxSpec => []TxTypeOK`, `TxSpec => []NoLostWakeup`, `TxSpec => TxFifo!Spec` |
| `DriverProofs` | `TypeCorrect`, `EnabledOwned`, `OnlyArmedFire` | `Spec => []TypeOK`, `Spec => []EnabledIsOwned`, `Spec => FiresOnlyArmed` |
| `DriverProofs` | `ShortNeverEarly` | if every period is below `Base`: `Spec => NoEarlyFire` |
| `Rc5Proofs` | `DecoderTypes`, `FramesAreDecoded` | `Spec => []TypeOK`, `Spec => []DecodesExactly` |
| `Rc5Proofs` | `DecoderNotStuck`, `DecoderIdleIsClean` | `Spec => []NotStuck`, `Spec => []IdleIsClean` |
| `RemoteProofs` | `TypeCorrect`, `FlagsTimed` | `Spec => []TypeOK`, `Spec => []FlagsAreTimed` |
| `RemoteProofs` | `KeysAreReal`, `FramesAreTaken` | if `ReadFirst = "hi"`: `Spec => []KeyIsReal`, `Spec => FrameIsTaken` |
| `PanelProofs` | `PanelTypes`, `CollectingTimed`, `StraysNeedHarm` | `Spec => []TypeOK`, `Spec => []CollectingIsTimed`, `Spec => []NoStrayWrite` |
| `PanelProofs` | `FramesAreShown` | if no frame holds a newline: `Spec => []FrameShown` |
| `DaemonProofs` | `TypesKept`, `CursorStaysInMenu` | `Spec => []TypeOK`, `Spec => []CursorInMenu` |
| `DaemonProofs` | `SelectionStaysShown`, `MenuStaysTheLibrary` | `Spec => []SelectionIsShown`, `Spec => []MenuMatchesLibrary` |
| `DaemonProofs` | `CrashOnlyWithoutEntries` | `Spec => []CrashNeedsEmptyList` |
| `TermProofs` | `TypeCorrect`, `OriginalsRestored` | `Spec => []TypeOK`, `Spec => []Restored` |
| `TermProofs` | `CurrentSettingsKnown`, `FailuresKeepEntries` | `Spec => []CurrIsDevice`, `Spec => FailureKeepsEntries` |
| `SimcListProofs` | `RepresentationOk`, `ReadsRight` | `Spec => []RepOk`, `Spec => []Reads` |
| `SimcListProofs` | `Implements` | `Spec => Promise!Spec`, that is `ImplementsList` |

`NumberTheorems` has what several of them need of sets of numbers: `Least`,
`Greatest`, and `UpTo`, induction that speaks of a set instead of a predicate.  With
`UpTo` a fold over a sequence is unfolded into its steps (`PopulateSteps` for
`menu_populate()`, `PutsSteps` for `lcd_puts()`), after which a loop of the code is
reasoned about one turn at a time.  Each invariant below was checked by TLC on the
run's instance before it was proved.

**UART.**  `TypeOK` is inductive by itself, by `SuccInRange`.  For the refinement it
is too weak.  On the receive side it does not say that between the test of the head
and the move of the tail the ring stays non-empty and `tmptail` stays the slot
behind the tail, nor that the slot read after the move is the one at the tail,
which the interrupt never writes; the invariant says both.  On the transmit side it
says that `tmphead` stays the successor of the head during the call and, once the
wait has ended, different from the tail, although the interrupt moves the tail;
`NoLostWakeup` completes it.  The steps then follow from what storing at the
successor of the head, writing a slot outside the ring and moving the tail do to
`Contents` (`ContentsStore`, `ContentsUnseen`, `ContentsFetch`), which rest on
arithmetic modulo the size.

**`Timers`.**  `timer_enable()` does not check for an owner; it checks the ticks.
So the invariant is `TicksAreOwned`, that a timer without an owner has none,
kept by `timer_remove()`, which clears them, and `CallIsOwned`, that nobody takes
the owner away while `timer_set()` is between its first store and its last.
`FiresOnlyArmed` follows from `ScannedIsRunning`, that the timer looked at stays
enabled from the first read of its counter to its firing.  `TypeOK` needs the
arithmetic of the two halves (`BytesMakeCount`, `BytesOfCount`, `HalfWritten`) and
that the half not yet written still belongs to a count.  `NoEarlyFire` is false for
longer periods (section 6); with `ShortPeriods`, every period below `Base`, the high
half is always zero (`OneByte`), and then `AllCovered` says that the counter of a
running timer and the time since it was armed make up its period, allowing for what
the call in progress has still to store (`CallIsCurrent`) and for a zero that was
read and not yet acted upon (`ReadIsZero`).  The firmware's own periods of 500 and
1000 ticks are not short: there `TimersEarly` holds.

**`Rc5`.**  The results hold for every frame length, clock jitter and noise allowance
and every counter width the assumption of `Rc5` admits.  `NotStuck` and
`IdleIsClean` need the range of the tick counter, without which the counter's wrap
could not be told from its reset: the timer interrupt ends a frame as soon as the
counter passes the timeout, and the pin interrupt either resets the whole context or
goes on with the counter as it was or at zero.  `DecodesExactly` needs to know where
the decoder is for each place of the sender: `InStep` is a disjunction of the eight
phases of a frame, from `StartFirst` to `InGap`, each with the decoder's state, the
level of the line and the tick counter in terms of the time since the last edge.
The first data bit has phases of its own, since only a one begins with an edge that
the decoder uses.  From the second bit on `data = sent % 65536`.
`QuietEndsFrames`, that the tick counter of a busy decoder is never behind the
silence of the line, makes the decoder idle when a frame begins, whatever noise came
before.

**`Remote`.**  `KeyIsReal` says nothing of how the word in hand came about, so the
invariant follows a frame through the loop: it waits whole in `rc5_data`
(`FrameWaits`), is seen whole or not at all (`HalfRead`: the valid bit is in the
half read first, so a frame that comes between the reads leaves a word without
it), is in hand until it is wiped (`InHand`), and nothing is left of it then
(`Emptied`).  All of it rests on time: `Deadline` and `InTime` say that from a
frame's arrival to its wiping no second one can come, because time needs two ends
of turns to pass and frames are two units apart.  This is the assumption on
`FrameGap`; with the low half first the theorem does not hold, as `RemoteTorn`
shows.  That `rc5_get()` undoes the encoding of every key is the lemma
`FrameHoldsKey`; that two halves make a word, `Halves` and `Mixture`.

**`Panel`.**  `InStep` says that while host and panel are `synced` the parser's
count is what is left of the host's frame, and that the time left together with the
age of the frame is at least the timeout, so that the timeout cannot come in the
middle of a frame that is not late; this gives `NoStrayWrite`.  `SilenceIsTimed`
says that after a disturbance the timeout comes before the silence is long enough to
be synced again.  `FrameShown` adds what is held of each line: the part of a text
that has come is in the buffer (`Filled`), outside of that the buffer is the text
wanted, `length` is one of its lengths, and the row is the part of the text from
`sp` on, unless the next text is coming in and scrolling shows the mixture
(`Held`).  `UpdateShows`, that `lcd_update()` writes its row and no cell of the
other, holds because a window without a newline stays in its row.  Hence the
hypothesis `PlainFrames`: MPD's answers are lines, so names and tags have no newline,
the daemon takes it off the lines of `radio.csv` (`efikampd.c:265`), and flags and
brightness are smaller.  A newline in the first line's text would send the rest of it
to the second, and `FrameShown` would be false.  `PanelTypes` needs no such
hypothesis.

**`Daemon`.**  The theorems are for every database and every way it changes, every
list of stations and any number of keys in a turn.  The invariant is one for all:
the menu is a tree in which every list but the main menu is below an entry and none
is empty (`MenuIsTree`), the cursor is at an entry of it (`CursorAtEntry`), libmpd
knows a state the database was in (`Known`), and `SelectionIsShown`,
`MenuMatchesLibrary` and `CrashNeedsEmptyList`.  Fetching songs or albums replaces
a list below the cursor, and a changed database frees what is below the library
and takes the cursor out of it first.  That lists are sorted or
reversed and whole is proved of `Populate` for any data: `IsPlaced` describes the
insertion of one text, and the steps of `PopulateSteps` carry it through the loop.

**`Term`.**  The invariant adds to the two properties that a device is in one slot
at most (`OneOnDev`) and that the slot of a managed device has the settings owed
to it (`OrigIsFound`).  The steps fall into seven kinds, each with a lemma: an entry
is rewritten, inserted, deleted, inserted while slot 0 is freed, all are cleared, a
device is changed by others, and nothing happens.  `FirstIsIn`, that the loop over
the slots finds one if there
is one, rests on `Least`.

**`SimcList`.**  The theorems are for every number of cells and spares, every set
of numbers as data, every threshold of quicksort and every choice of its pivots.
`RepOk` and `Reads` speak of walks along the links; the invariant `InOrder(c)` names
the row `c` of entries that these walks go through: `Linked`, that `next` and `prev`
go along it in either direction, from one sentinel over cells that are all different
to the other and then to NULL; `Middle`, that `mid` is its middle; `Stocked`, that
the cells of the row and the spares are the allocated ones, each once; data of the
right kind; and where the session stands in the row.  `IInv` says that there is such
a row, and that the sentinel at the end has no data, which is what a session gets
that goes on past the last item.  For each operation a lemma says what the row is
afterwards: `Inserted`, `Shortened`, empty or a new one (`LinkedInsert`, `LinkedCut`,
`LinkedClear`, `LinkedNew`), that `mid` follows (`MiddleInsert`, `MiddleDrop`,
`MiddleRange`, `MiddleConcat`, whose cases of odd and even lengths are the code's),
and that no cell is lost or used twice (`LendSpare`, `LendNew`,
`ReleaseKeepsStock`).  That
`Reads` holds rests on `FindposFinds`: each of the four walks of `Findpos`, from an
end or from `mid`, is `Forward` or `Backward` along the row, and their lengths add up.

The steps of the refinement (`InsertDoes` to `StopDoes`) compare the row with the
sequence that `ListSpec` speaks of: what is left of the row after a cut is what
`Without` leaves of the items (`CutItems`), and so on.  Sorting moves data and no
links, and is reasoned about as a sequence.  `Same(s, t, n)` says by a pair of
inverse functions that `t` has the items of `s`; every round of a loop keeps it.
`Selected` is the invariant of the selection sort, `Meetings` the one of the two
ends that run towards the pivot, `Gatherings` the one of the end that goes on, with
`Distance` to the pivot as its variant, which is how `Split` is known to have parted
the items when the count of rounds is used up.  `QuickSorts` is by induction on the
length (`SortingExists`, `QuickStepSorts`): whatever the pivots, the parts are
shorter, sorted by themselves, and on the right side of the pivot.  The order used
is that of numbers; nothing is assumed of how many items are equal.

Every invariant, action property and refinement that a run checks and expects to
hold is thus proved, except that `KeyIsReal`, `FrameIsTaken`, `NoEarlyFire` and
`FrameShown` have the hypotheses above, which the runs' constants meet.  Only
model-checked are the liveness properties (`TxDrains`, `PutcReturns`,
`EnabledIsServed`, `DebounceEnds`, `PulseEnds`, `FrameEnds`, `ScreenCatchesUp`):
liveness under fairness is beyond the prover.

## 6. What the runs found

- **`TimersEarly`**: `timer_update()` tests a 16-bit counter that the interrupt
  decrements.  When a tick borrows from the high byte between the two reads,
  both bytes are seen as zero and the callback runs up to 256 ticks early.  The
  firmware's periods of 1000 and 500 ticks cross the boundary.  `timers.c:99-100`
  promises the callback when the tick count is zero.
- **`RemoteTorn`**: a frame that arrives between the two reads of `rc5_data`, the
  low byte first, is handed on as a mixture of both.  With the high byte first
  (`Remote`) this cannot happen.  Which of them is built is the compiler's choice.
- **`DaemonState`**: player events are dropped while the menu is open and in
  standby and not made up for: after leaving the menu the panel may show a
  stopped player while music plays, until the player changes again.

Seen while reading or modelling, without a run:

- daemon: `lcd_update()` and `lcd_clear()` assign `update_flags`
  (`efikampd.c:398`, `:339`), so a brightness request (`:577-584`) of the same
  turn is lost.  The opposite loss, of lines by `CMD_DIM`, heals with the next
  second (`ScreenCatchesUp`).  After a read of one byte `rc5[1]` is still the
  code of the key before (`:628-629`): its command is done again, and the pairs
  that follow are out of step.
- UART, timers, display: `uart_available()` divides by the mask and miscounts,
  against `uart.h:212-216`; `timer_add()` and `timer_set()` do not enable a timer,
  against `timers.c:125` and `:155`; `lcd_init()` ignores its argument, against
  `lcd.h:185-190`; a second of `clock` has 1001 ticks; README.md:9 speaks of a
  display of 16 columns, the code of 20.
- daemon: a query that fails gives NULL, which is passed on unchecked
  (`efikampd.c:209`, `:224`, `:238`), and `menu_populate()` uses a null pointer
  (`:197`), with any library; `error_callback()` only logs.  A lost connection while
  the menu is used ends the daemon so.  As long as MPD answers only an empty list
  does (`CrashNeedsEmptyList`).
- list library: `list_delete_range()` of a whole list of some length follows the
  middle into a null pointer (`simclist.c:544`); `list_iterator_next()` past the end
  hands out the sentinel and then crashes; `list_concat()` does not look at what
  `malloc()` returns (`:700-701`, `:710-711`).  `ListSpec` allows these three crashes
  and no other.  `list_delete_range()` returns 0 (`:592`) where `simclist.h:461`
  promises the number of elements removed, and `list_clear()` returns 0 (`:634`) where
  `simclist.h:474` promises the number there was.  `list_destroy()` during an iteration leaks.
  In the dump functions, not
  modelled: one branch starts to write again without seeking, `getinfo` does not
  skip the words that hold sizes, a check of the header joins with `&&` what it
  should with `||`, and sizes are written as `size_t` and read as four bytes;
  `list_hash()` reads its result before it is set.
- terminal library: `term_set()` of a new descriptor with an invalid parameter frees
  slot 0 instead of the slot it has got (`term.c:879`, `:920`): the new descriptor
  stays managed, against `term.h:460-462`, and the device in slot 0 is managed no
  longer and never gets its settings back, against `term.h:14-17`.  `Restored` and
  `FailureKeepsEntries` hold but for this and say so.
- terminal library: with two descriptors on one device, which `Term` excludes, the
  exit handler resets in the order of the slots, so the later one's "original"
  settings stay; `term_replace()` onto a descriptor that is managed already makes
  two slots of it; -1 is "found" in a free slot; `term_flush()` fails without
  setting `term_errno`.

## 7. What is not modelled

The bus of the display with its busy flag and power-on sequence, a fixed order of
port accesses and delays; the start and end of the daemon (straight-line system
calls); memory but for the room of one list (so no leaks);
the wording of the lines; wrong bytes on the serial
line, and the reading of key pairs: the daemon takes any command at any time,
which includes what a short read makes it do; MPD and libmpd themselves, of which
only answers, commands and status callbacks from `mpd_status_update()` appear, and
not callbacks from within a command; commands without a key (`CMD_STOP`,
`CMD_QUIT`, `CMD_RANDOM`); `ir.c`, a debugging tool; the copy of the UART code for
a second USART, which is not compiled.  Of `term.c` the calls that act on a line
and are not remembered (DTR, drain, flush, break) and the texts of errors; of
`simclist.c` copies of the data, sorting in threads, hashes and the dump format.
The daemon calls neither library.

## 8. Plan

Done, in this order: the UART (with the abstract queue, refinement and proofs),
timers, the RC5 decoder, the two halves of the main loop, the daemon, the two
libraries, short writes on the serial line, and proofs of every safety property the
runs check.

Left, by value:

1. **`Daemon`**: status callbacks from within the player calls of a command, and
   `KeysMax = 2` on a smaller library.
2. **`Link`**: the daemon's reader of key pairs against the panel's sender.  An
   abstract specification: the daemon handles a subsequence of the keys the panel
   sent; short reads refute it.
3. **`Lcd`**: the bus under `Display`, which would be its abstract specification.
