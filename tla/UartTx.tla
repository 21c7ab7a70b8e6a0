-------------------------------- MODULE UartTx --------------------------------
(***************************************************************************)
(* The transmit half of firmware/uart.c.  The main program stores bytes    *)
(* with uart_putc(), which waits for room; the data-register-empty         *)
(* interrupt moves them to the data register UDR and switches itself off   *)
(* when the ring is empty.  The interrupt is pending whenever it is        *)
(* enabled and UDR is empty, and can arrive between any two accesses of    *)
(* uart_putc(); it runs to completion.                                     *)
(***************************************************************************)
EXTENDS Ring, Sequences

CONSTANT TxSize     \* UART_TX_BUFFER_SIZE, 32 in the firmware

ASSUME TxAssumption == TxSize \in RingSizes

VARIABLES txBuf,     \* UART_TxBuf
          txHead,    \* UART_TxHead
          txTail,    \* UART_TxTail
          udrie,     \* bit UDRIE of UART0_CONTROL: the interrupt is enabled
          udr,       \* the byte last written to UART0_DATA
          udrEmpty,  \* UDRE: the transmitter has taken that byte
          putcPc,    \* where the main program is in uart_putc()
          arg,       \* argument of uart_putc()
          tmphead    \* local of uart_putc()

txVars == <<txBuf, txHead, txTail, udrie, udr, udrEmpty, putcPc, arg, tmphead>>

ringVars == <<txBuf, txHead, txTail>>
hwVars   == <<udrie, udr, udrEmpty>>
putVars  == <<putcPc, arg, tmphead>>

TxIndex == 0 .. TxSize - 1

TxInit ==
  /\ txBuf = [i \in TxIndex |-> 0]
  /\ txHead = 0
  /\ txTail = 0
  /\ udrie = FALSE
  /\ udr = 0
  /\ udrEmpty = TRUE
  /\ putcPc = "idle"
  /\ arg = 0
  /\ tmphead = 0

-----------------------------------------------------------------------------
(* The main program: uart_putc(), alone or in the loops of uart_puts() and *)
(* uart_puts_p().                                                          *)

Putc(b) ==
  /\ putcPc = "idle"
  /\ arg' = b
  /\ tmphead' = Succ(txHead, TxSize)
  /\ putcPc' = "wait"
  /\ UNCHANGED <<ringVars, hwVars>>

\* while (tmphead == UART_TxTail) ; has seen room.  Spinning on changes
\* nothing and is not a step.
PutcRoom ==
  /\ putcPc = "wait"
  /\ tmphead # txTail
  /\ putcPc' = "store"
  /\ UNCHANGED <<ringVars, hwVars, arg, tmphead>>

PutcStore ==
  /\ putcPc = "store"
  /\ txBuf' = [txBuf EXCEPT ![tmphead] = arg]
  /\ putcPc' = "publish"
  /\ UNCHANGED <<txHead, txTail, hwVars, arg, tmphead>>

PutcPublish ==
  /\ putcPc = "publish"
  /\ txHead' = tmphead
  /\ putcPc' = "enable"
  /\ UNCHANGED <<txBuf, txTail, hwVars, arg, tmphead>>

\* A plausible bug: the bit is toggled (^=) instead of set.
PutcEnableToggles ==
  /\ putcPc = "enable"
  /\ udrie' = ~udrie
  /\ putcPc' = "idle"
  /\ UNCHANGED <<ringVars, udr, udrEmpty, arg, tmphead>>

\* UART0_CONTROL |= _BV(UART0_UDRIE).  UCSRB is within the reach of the
\* sbi instruction, so the interrupt cannot split this update.
PutcEnable ==
  /\ putcPc = "enable"
  /\ udrie' = TRUE
  /\ putcPc' = "idle"
  /\ UNCHANGED <<ringVars, udr, udrEmpty, arg, tmphead>>

\* A plausible bug: the interrupt is enabled before the head is published.
MainEnableFirst ==
  \/ PutcRoom
  \/ PutcStore
  \/ /\ putcPc = "publish"
     /\ udrie' = TRUE
     /\ putcPc' = "enable"
     /\ UNCHANGED <<ringVars, udr, udrEmpty, arg, tmphead>>
  \/ /\ putcPc = "enable"
     /\ txHead' = tmphead
     /\ putcPc' = "idle"
     /\ UNCHANGED <<txBuf, txTail, hwVars, arg, tmphead>>

TxMain ==
  \/ PutcRoom
  \/ PutcStore
  \/ PutcPublish
  \/ PutcEnable

-----------------------------------------------------------------------------
(* The interrupt and the transmitter. *)

\* A plausible bug: UDR is loaded from the slot the tail has just left.
TxIsrOldSlot ==
  /\ udrie
  /\ udrEmpty
  /\ txHead # txTail
  /\ txTail' = Succ(txTail, TxSize)
  /\ udr' = txBuf[txTail]
  /\ udrEmpty' = FALSE
  /\ UNCHANGED <<txBuf, txHead, udrie, putVars>>

\* ISR(UART0_TRANSMIT_INTERRUPT) when a byte is waiting.
TxIsrSend ==
  /\ udrie
  /\ udrEmpty
  /\ txHead # txTail
  /\ txTail' = Succ(txTail, TxSize)
  /\ udr' = txBuf[Succ(txTail, TxSize)]
  /\ udrEmpty' = FALSE
  /\ UNCHANGED <<txBuf, txHead, udrie, putVars>>

\* ... and when none is.
TxIsrOff ==
  /\ udrie
  /\ udrEmpty
  /\ txHead = txTail
  /\ udrie' = FALSE
  /\ UNCHANGED <<ringVars, udr, udrEmpty, putVars>>

\* The transmitter moves UDR to its shift register.
ShiftOut ==
  /\ ~udrEmpty
  /\ udrEmpty' = TRUE
  /\ UNCHANGED <<ringVars, udrie, udr, putVars>>

-----------------------------------------------------------------------------
TxNext ==
  \/ \E b \in Byte : Putc(b)
  \/ TxMain
  \/ TxIsrSend
  \/ TxIsrOff
  \/ ShiftOut

TxSpec == TxInit /\ [][TxNext]_txVars

\* A call in progress goes on, a pending interrupt is served and the
\* transmitter runs on its own clock; nobody has to call uart_putc().
TxFairness ==
  /\ WF_txVars(TxMain)
  /\ WF_txVars(TxIsrSend \/ TxIsrOff)
  /\ WF_txVars(ShiftOut)

TxFairSpec == TxSpec /\ TxFairness

-----------------------------------------------------------------------------
(* Every variable keeps to the values its C type and use give it.          *)
TxTypeOK ==
  /\ txBuf \in [TxIndex -> Byte]
  /\ txHead \in TxIndex
  /\ txTail \in TxIndex
  /\ udrie \in BOOLEAN
  /\ udr \in Byte
  /\ udrEmpty \in BOOLEAN
  /\ putcPc \in {"idle", "wait", "store", "publish", "enable"}
  /\ arg \in Byte
  /\ tmphead \in TxIndex

\* uart_putc() and the interrupt together are a bounded FIFO (ByteQueue)
\* that refuses nothing: a byte is in the queue once its index is published,
\* and reaches the transmitter once, in order, as it was written.
TxFifo == INSTANCE ByteQueue WITH
          Capacity <- TxSize - 1,
          q        <- Contents(txBuf, txHead, txTail, TxSize),
          taken    <- udr,
          overflow <- FALSE

TxImplementsFifo == TxFifo!Spec

\* The interrupt never stays off while bytes wait: if it is off, either the
\* ring is empty or the uart_putc() that published is about to enable it.
\* This is why the head must be published before UDRIE is set.
NoLostWakeup == txHead # txTail => udrie \/ putcPc = "enable"

\* Whatever byte waits at the tail is sent: the tail moves on.
TxDrains ==
  \A i \in TxIndex : (txTail = i /\ txHead # i) ~> (txTail # i)

\* The busy wait of uart_putc() ends: every call returns.
PutcReturns == putcPc # "idle" ~> putcPc = "idle"
=============================================================================
