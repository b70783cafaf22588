------------------------------ MODULE HdlcBytes ------------------------------
(***************************************************************************)
(* What the HDLC parser of the modem does to the receive FIFO, seen byte   *)
(* by byte: the three outcomes hdlc_parse() (bertos/net/afsk.c) can have.  *)
(* HdlcLink shows that the bit-by-bit parser does nothing else.           *)
(*                                                                         *)
(* Inside a frame the bytes that mean something to ax25_poll() are stored  *)
(* with an escape before them; a flag is stored as it is.                  *)
(***************************************************************************)
EXTENDS Integers, Sequences

CONSTANTS
  Bytes,     \* the bytes a frame is made of
  FLAG,      \* HDLC_FLAG
  RESET,     \* HDLC_RESET
  ESC,       \* AX25_ESC
  Capacity   \* CONFIG_AFSK_RX_BUFLEN - 1

ASSUME SpecialAssumption ==
  /\ FLAG \in Bytes /\ RESET \in Bytes /\ ESC \in Bytes
  /\ FLAG # RESET /\ ESC # FLAG /\ ESC # RESET
ASSUME RoomAssumption == Capacity \in Nat /\ Capacity >= 1

VARIABLES
  rx_fifo,   \* the receive FIFO
  rxstart,   \* hdlc->rxstart: a flag was seen, bytes are being collected
  overrun    \* AFSK_RXFIFO_OVERRUN in af->status

hdlcVars == <<rx_fifo, rxstart, overrun>>

HdlcInit ==
  /\ rx_fifo = << >>
  /\ rxstart = FALSE
  /\ overrun = FALSE

HasRoom(n) == Len(rx_fifo) + n <= Capacity

\* A flag: it is stored and a frame starts, or it is lost for want of room.
HdlcFlag ==
  \/ /\ HasRoom(1)
     /\ rx_fifo' = Append(rx_fifo, FLAG)
     /\ rxstart' = TRUE
     /\ UNCHANGED overrun
  \/ /\ ~HasRoom(1)
     /\ rxstart' = FALSE
     /\ overrun' = TRUE
     /\ UNCHANGED rx_fifo

\* Seven ones in a row: the frame is given up.
HdlcAbort ==
  /\ rxstart' = FALSE
  /\ UNCHANGED <<rx_fifo, overrun>>

\* What is stored for a byte when there is room for it.
Stored(c) == IF c \in {FLAG, RESET, ESC} THEN <<ESC, c>> ELSE <<c>>

\* Mutant: the collection goes on after an overrun.
HdlcByte_GoOn(c) ==
  /\ rxstart
  /\ \/ /\ HasRoom(Len(Stored(c)))
        /\ rx_fifo' = rx_fifo \o Stored(c)
        /\ UNCHANGED <<rxstart, overrun>>
     \/ /\ ~HasRoom(Len(Stored(c)))
        /\ rx_fifo' = IF HasRoom(1) THEN Append(rx_fifo, ESC) ELSE rx_fifo
        /\ overrun' = TRUE
        /\ UNCHANGED rxstart

\* A byte of a frame.  The escape and the byte are pushed one after the other,
\* each if there is room for it; the first that is not ends the collection.
HdlcByte(c) ==
  /\ rxstart
  /\ \/ /\ HasRoom(Len(Stored(c)))
        /\ rx_fifo' = rx_fifo \o Stored(c)
        /\ UNCHANGED <<rxstart, overrun>>
     \/ /\ ~HasRoom(Len(Stored(c)))
        /\ rx_fifo' = IF HasRoom(1) THEN Append(rx_fifo, ESC) ELSE rx_fifo
        /\ rxstart' = FALSE
        /\ overrun' = TRUE

\* The consumer's side: afsk_read() pops a byte, afsk_clearerr() clears.
Read ==
  /\ rx_fifo # << >>
  /\ rx_fifo' = Tail(rx_fifo)
  /\ UNCHANGED <<rxstart, overrun>>

ClearErr ==
  /\ overrun' = FALSE
  /\ UNCHANGED <<rx_fifo, rxstart>>

HdlcNext ==
  \/ HdlcFlag \/ HdlcAbort \/ Read \/ ClearErr
  \/ \E c \in Bytes : HdlcByte(c)

HdlcSpec == HdlcInit /\ [][HdlcNext]_hdlcVars
=============================================================================
