------------------------------- MODULE SerTx -------------------------------
(***************************************************************************)
(* The transmit side of the serial port: ser_putchar(), kfile_flush() and  *)
(* ser_purge() (bertos/drv/ser.c) in the main program, and the interrupt   *)
(* of an empty data register (bertos/cpu/avr/drv/ser_mega.c), on the FIFO  *)
(* of FifoBuf.                                                             *)
(*                                                                         *)
(* The interrupt may come between any two steps of the main program.  Its  *)
(* own test and pop are two steps of FifoBuf, and the main program stands  *)
(* still in between (byteSeen).                                            *)
(***************************************************************************)
EXTENDS FifoBuf

VARIABLES
  sending,  \* hw->sending
  udrie,    \* the interrupt of the empty data register is enabled
  pc        \* where the main program is

serVars == <<fifoVars, sending, udrie, pc>>

SerInit ==
  /\ FifoInit
  /\ sending = FALSE
  /\ udrie = FALSE
  /\ pc = "idle"

Goto(from, to) == ~byteSeen /\ pc = from /\ pc' = to

-----------------------------------------------------------------------------
(* The main program.                                                       *)

\* ser_putchar(): wait while the FIFO is full; there is no time-out.
Putchar_Room ==
  /\ Goto("idle", "push")
  /\ SeeRoom
  /\ UNCHANGED <<sending, udrie>>

Putchar_Push(c) ==
  /\ Goto("push", "txStart")
  /\ fifo_push(c)
  /\ UNCHANGED <<sending, udrie>>

\* uart0_enabletxirq(): the test, and the two statements it guards.
txStart_Already ==
  /\ Goto("txStart", "idle")
  /\ sending
  /\ UNCHANGED <<fifoVars, sending, udrie>>

\* Mutant: the statements in the other order.
txStart_Sending_Last ==
  \/ /\ Goto("txStart", "txBegin")
     /\ ~sending
     /\ udrie' = TRUE
     /\ UNCHANGED <<fifoVars, sending>>
  \/ /\ Goto("txBegin", "idle")
     /\ sending' = TRUE
     /\ UNCHANGED <<fifoVars, udrie>>

txStart_Sending ==
  /\ Goto("txStart", "txBegin")
  /\ ~sending
  /\ sending' = TRUE
  /\ UNCHANGED <<fifoVars, udrie>>

\* SER_UART0_BUS_TXBEGIN
txBegin ==
  /\ Goto("txBegin", "idle")
  /\ udrie' = TRUE
  /\ UNCHANGED <<fifoVars, sending>>

ser_flush ==
  /\ Goto("idle", "flush")
  /\ UNCHANGED <<fifoVars, sending, udrie>>

\* The pointers of the FIFO are read without a lock, in two halves each: while
\* the interrupt moves one of them they may seem to be equal.
Flush_Empty ==
  /\ Goto("flush", "flushed")
  /\ isempty(head, tail) \/ udrie
  /\ UNCHANGED <<fifoVars, sending, udrie>>

\* Mutants: the flush does not wait for the interrupt; it waits for its start.
Flush_Sending_Ignored ==
  /\ Goto("flushed", "idle")
  /\ UNCHANGED <<fifoVars, sending, udrie>>

Flush_Sending_Inverted ==
  /\ Goto("flushed", IF sending THEN "idle" ELSE "flush")
  /\ UNCHANGED <<fifoVars, sending, udrie>>

\* tx_sending(); the loop tests the FIFO again when it is true.
Flush_Sending ==
  /\ Goto("flushed", IF sending THEN "flush" ELSE "idle")
  /\ UNCHANGED <<fifoVars, sending, udrie>>

\* ser_purgeTx()
ser_purge ==
  /\ Goto("idle", "idle")
  /\ fifo_flush
  /\ UNCHANGED <<sending, udrie>>

PutcharSteps ==
  \/ \E c \in Data : Putchar_Push(c)
  \/ txStart_Already \/ txStart_Sending \/ txBegin

FlushSteps == Flush_Empty \/ Flush_Sending

-----------------------------------------------------------------------------
(* The interrupt.                                                          *)

\* SER_UART0_BUS_TXEND
Udre_End ==
  /\ udrie /\ ~byteSeen
  /\ isempty(head, tail)
  /\ udrie' = FALSE
  /\ sending' = FALSE
  /\ UNCHANGED <<fifoVars, pc>>

Udre_Byte ==
  /\ udrie
  /\ SeeByte \/ fifo_pop
  /\ UNCHANGED <<sending, udrie, pc>>

USART_UDRE == Udre_End \/ Udre_Byte

SerNext ==
  \/ Putchar_Room \/ PutcharSteps
  \/ ser_flush \/ FlushSteps
  \/ ser_purge
  \/ USART_UDRE

SerSpec == SerInit /\ [][SerNext]_serVars

\* ser_putchar() goes on once it has room, ser_flush() tests again and again, and
\* the data register gets empty.
SerFairSpec ==
  /\ SerSpec
  /\ WF_serVars(PutcharSteps) /\ WF_serVars(FlushSteps)
  /\ WF_serVars(USART_UDRE)

-----------------------------------------------------------------------------
(* Properties.                                                             *)

SerTypeOK ==
  /\ TypeOK
  /\ sending \in BOOLEAN /\ udrie \in BOOLEAN
  /\ pc \in {"idle", "push", "txStart", "txBegin", "flush", "flushed"}

\* A byte in the FIFO is going to be sent: "WARNING: racy code here!"  The test
\* of hw->sending may be stale by the time it is acted on, and still the
\* interrupt is enabled or about to be.
UartNotForgotten ==
  ~isempty(head, tail) => udrie \/ pc \in {"txStart", "txBegin"}

\* hw->sending says whether the interrupt is enabled, but for the moment between
\* the two statements of uart0_enabletxirq().
UartSendingTrue == sending <=> udrie \/ pc = "txBegin"

\* kfile_flush() on the port returns only when the FIFO is empty and the
\* interrupt is off, although it reads the pointers without a lock.
UartFlushed ==
  [][pc = "flushed" /\ pc' = "idle" => isempty(head, tail) /\ ~udrie]_serVars

\* The interrupt does not stay on for ever unless the main program keeps writing,
\* and a flush returns.
UartDrains ==
  /\ pc = "flush" ~> pc = "idle"
  /\ udrie ~> ~udrie \/ pc = "push"
=============================================================================
