-------------------------------- MODULE Ring --------------------------------
(***************************************************************************)
(* Index arithmetic of the circular buffers of firmware/uart.c.  "head" is *)
(* the index of the byte stored last and "tail" that of the byte fetched   *)
(* last, so the slot at tail is free, one slot is never used, and the ring *)
(* is full when the successor of head is tail.  The size n is a power of   *)
(* two (uart.c refuses to compile otherwise), which makes masking with     *)
(* n - 1 the same as taking the remainder by n.                            *)
(***************************************************************************)
EXTENDS Integers

CONSTANT Byte     \* the values of a byte; a fresh buffer holds zeros

ASSUME ByteAssumption == 0 \in Byte

\* The sizes the two #if tests and the unsigned char indices admit.
RingSizes == {2, 4, 8, 16, 32, 64, 128, 256}

\* A plausible bug: the index is not masked.
SuccUnmasked(i, n) == i + 1

\* (i + 1) & UART_RX_BUFFER_MASK
Succ(i, n) == (i + 1) % n

\* How many bytes are in the ring, and the slot of the i-th oldest of them.
Used(head, tail, n) == (n + head - tail) % n
Slot(tail, i, n) == (tail + i) % n

\* The bytes in the ring, oldest first.
Contents(buf, head, tail, n) ==
  [i \in 1 .. Used(head, tail, n) |-> buf[Slot(tail, i, n)]]
=============================================================================
