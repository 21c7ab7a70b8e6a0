-------------------------------- MODULE Display --------------------------------
(***************************************************************************)
(* The text functions of firmware/lcd.c, as functions of what the display  *)
(* holds: the characters of its memory, two rows of twice the visible      *)
(* length, and the address counter that its controller (external) moves to *)
(* the next cell after every write.  The second row follows the first.     *)
(***************************************************************************)
EXTENDS Integers, SequencesExt

CONSTANT LineLength      \* LCD_DISP_LENGTH, and LINE_LENGTH of main.c: 20

ASSUME LineLengthAssumption == LineLength \in Nat \ {0}

Blank == 32
NewlineChar == 10

RowCells == 2 * LineLength
Start(y) == IF y = 0 THEN 0 ELSE RowCells

Cleared == [ram |-> [a \in 0 .. 2 * RowCells - 1 |-> Blank], ac |-> 0]

\* lcd_write(c, 1), done by the controller.
Write(d, c) == [ram |-> [d.ram EXCEPT ![d.ac] = c],
                ac  |-> (d.ac + 1) % (2 * RowCells)]

\* A plausible bug: the cursor stays where it is.
GotoXYNowhere(d, x, y) == d

GotoXY(d, x, y) == [d EXCEPT !.ac = Start(y) + x]

\* lcd_newline(): from the first row to the second and back.
Newline(d) == [d EXCEPT !.ac = IF @ < Start(1) THEN Start(1) ELSE Start(0)]

Putc(d, c) == IF c = NewlineChar THEN Newline(d) ELSE Write(d, c)

Puts(d, s) == FoldLeft(Putc, d, s)

\* What can be seen of a row.
Row(d, y) == [i \in 1 .. LineLength |-> d.ram[Start(y) + i - 1]]
=============================================================================
