-------------------------------- MODULE UartRx --------------------------------
(***************************************************************************)
(* The receive half of firmware/uart.c.  The receive-complete interrupt    *)
(* stores bytes at the head of UART_RxBuf and runs to completion; the main *)
(* program fetches them with uart_getc(), whose reads and writes of the    *)
(* shared variables are separate steps because an interrupt can arrive     *)
(* between any two of them.  Nothing masks interrupts in the library.      *)
(***************************************************************************)
EXTENDS Ring, Sequences

CONSTANT RxSize     \* UART_RX_BUFFER_SIZE, 32 in the firmware

ASSUME RxAssumption == RxSize \in RingSizes

VARIABLES rxBuf,        \* UART_RxBuf
          rxHead,       \* UART_RxHead
          rxTail,       \* UART_RxTail
          lastRxError,  \* UART_LastRxError
          getcPc,       \* where the main program is in uart_getc()
          tmptail,      \* local of uart_getc()
          data,         \* local of uart_getc()
          ret           \* what uart_getc() returned last

rxVars == <<rxBuf, rxHead, rxTail, lastRxError, getcPc, tmptail, data, ret>>

RxIndex == 0 .. RxSize - 1

\* The receiver status the hardware reports with a byte: none, FE or DOR.
HwStatus == {"ok", "frame", "overrun"}
RxStatus == HwStatus \union {"overflow"}

RxInit ==
  /\ rxBuf = [i \in RxIndex |-> 0]
  /\ rxHead = 0
  /\ rxTail = 0
  /\ lastRxError = "ok"
  /\ getcPc = "idle"
  /\ tmptail = 0
  /\ data = 0
  /\ ret = "nodata"

-----------------------------------------------------------------------------
(* The interrupt. *)

\* A plausible bug: the full test is missing.
RxIsrUnguarded(b, usr) ==
  LET tmphead == Succ(rxHead, RxSize) IN
  /\ rxHead' = tmphead
  /\ rxBuf' = [rxBuf EXCEPT ![tmphead] = b]
  /\ lastRxError' = usr
  /\ UNCHANGED <<rxTail, getcPc, tmptail, data, ret>>

\* ISR(UART0_RECEIVE_INTERRUPT), for a byte b that arrived with status usr.
RxIsr(b, usr) ==
  LET tmphead == Succ(rxHead, RxSize) IN
  /\ \/ /\ tmphead = rxTail
        /\ lastRxError' = "overflow"
        /\ UNCHANGED <<rxBuf, rxHead>>
     \/ /\ tmphead # rxTail
        /\ rxHead' = tmphead
        /\ rxBuf' = [rxBuf EXCEPT ![tmphead] = b]
        /\ lastRxError' = usr
  /\ UNCHANGED <<rxTail, getcPc, tmptail, data, ret>>

-----------------------------------------------------------------------------
(* The main program. *)

\* if (UART_RxHead == UART_RxTail) return UART_NO_DATA;
GetcEmpty ==
  /\ getcPc = "idle"
  /\ rxHead = rxTail
  /\ ret' = "nodata"
  /\ UNCHANGED <<rxBuf, rxHead, rxTail, lastRxError, getcPc, tmptail, data>>

\* Otherwise the next index is computed from the tail ...
GetcBegin ==
  /\ getcPc = "idle"
  /\ rxHead # rxTail
  /\ tmptail' = Succ(rxTail, RxSize)
  /\ getcPc' = "advance"
  /\ UNCHANGED <<rxBuf, rxHead, rxTail, lastRxError, data, ret>>

\* ... and published to the interrupt before the byte is read.
GetcAdvance ==
  /\ getcPc = "advance"
  /\ rxTail' = tmptail
  /\ getcPc' = "read"
  /\ UNCHANGED <<rxBuf, rxHead, lastRxError, tmptail, data, ret>>

GetcRead ==
  /\ getcPc = "read"
  /\ data' = rxBuf[tmptail]
  /\ getcPc' = "status"
  /\ UNCHANGED <<rxBuf, rxHead, rxTail, lastRxError, tmptail, ret>>

\* return (UART_LastRxError << 8) + data;
GetcReturn ==
  /\ getcPc = "status"
  /\ ret' = lastRxError
  /\ getcPc' = "idle"
  /\ UNCHANGED <<rxBuf, rxHead, rxTail, lastRxError, tmptail, data>>

\* uart_flush()
Flush ==
  /\ getcPc = "idle"
  /\ rxHead' = rxTail
  /\ UNCHANGED <<rxBuf, rxTail, lastRxError, getcPc, tmptail, data, ret>>

-----------------------------------------------------------------------------
RxMain ==
  \/ GetcEmpty
  \/ GetcBegin
  \/ GetcAdvance
  \/ GetcRead
  \/ GetcReturn
  \/ Flush

RxNext ==
  \/ \E b \in Byte, usr \in HwStatus : RxIsr(b, usr)
  \/ RxMain

RxSpec == RxInit /\ [][RxNext]_rxVars

-----------------------------------------------------------------------------
(* Every variable keeps to the values its C type and use give it.          *)
RxTypeOK ==
  /\ rxBuf \in [RxIndex -> Byte]
  /\ rxHead \in RxIndex
  /\ rxTail \in RxIndex
  /\ lastRxError \in RxStatus
  /\ getcPc \in {"idle", "advance", "read", "status"}
  /\ tmptail \in RxIndex
  /\ data \in Byte
  /\ ret \in RxStatus \union {"nodata"}

\* The byte uart_getc() has taken or is about to read: from the moment the
\* tail has moved, the slot it left behind already belongs to the caller.
InHand == IF getcPc = "read" THEN rxBuf[tmptail] ELSE data

\* The ring and the call in progress are a bounded FIFO (ByteQueue): bytes
\* are returned by uart_getc() once each, in order and unchanged, although
\* the tail is published before the byte is read, and the interrupt drops
\* one only when RxSize - 1 bytes are waiting.
RxFifo == INSTANCE ByteQueue WITH
          Capacity <- RxSize - 1,
          q        <- Contents(rxBuf, rxHead, rxTail, RxSize),
          taken    <- InHand,
          overflow <- lastRxError = "overflow"

RxImplementsFifo == RxFifo!Spec
=============================================================================
