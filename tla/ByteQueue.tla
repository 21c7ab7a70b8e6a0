------------------------------ MODULE ByteQueue ------------------------------
(***************************************************************************)
(* What one direction of the UART library promises its callers             *)
(* (firmware/uart.h: "transmit and receive circular buffers"): a bounded   *)
(* first-in first-out queue of bytes.  A byte leaves in the order in which *)
(* it arrived, exactly once and unchanged; an arrival is refused only when *)
(* the queue is full, and a refusal is visible in "overflow" until the     *)
(* next arrival.  UartRx and UartTx are shown to implement this module.    *)
(***************************************************************************)
EXTENDS Naturals, Sequences

CONSTANTS Byte,       \* the values a byte can have
          Capacity    \* how many bytes the queue holds

VARIABLES q,          \* accepted and not yet taken, oldest first
          taken,      \* the byte taken last
          overflow    \* the last arrival was refused

qvars == <<q, taken, overflow>>

Init ==
  /\ q = <<>>
  /\ taken \in Byte
  /\ overflow = FALSE

Put(b) ==
  /\ Len(q) < Capacity
  /\ q' = Append(q, b)
  /\ overflow' = FALSE
  /\ UNCHANGED taken

Refuse ==
  /\ Len(q) = Capacity
  /\ overflow' = TRUE
  /\ UNCHANGED <<q, taken>>

Take ==
  /\ q # <<>>
  /\ taken' = Head(q)
  /\ q' = Tail(q)
  /\ UNCHANGED overflow

Clear ==
  /\ q' = <<>>
  /\ UNCHANGED <<taken, overflow>>

Next ==
  \/ \E b \in Byte : Put(b)
  \/ Refuse
  \/ Take
  \/ Clear

Spec == Init /\ [][Next]_qvars
=============================================================================
