----------------------------- MODULE KissSerial -----------------------------
(***************************************************************************)
(* The serial side of KISS mode: a host sends KISS frames, the UART        *)
(* interrupt (bertos/cpu/avr/drv/ser_mega.c) stores their bytes in the     *)
(* receive FIFO or flags an error, and the main loop takes one byte per    *)
(* round with ser_getchar() and decodes it in kiss_poll_serial()           *)
(* (TinyAPRS/net/kiss.c).  The main loop may be slow: it blocks while the  *)
(* modem transmits.                                                        *)
(*                                                                         *)
(* Bytes are abstract: the four KISS bytes, the command bytes the code     *)
(* tells apart, "sum" for a checksum that is right, and others.  In        *)
(* SerialReader the same port also serves the other modes.                 *)
(***************************************************************************)
EXTENDS Integers, Sequences, Functions

CONSTANTS
  Frames,      \* the frames a host may send: command byte, payload
  Text,        \* the other bytes on the line (see SerialReader)
  MaxFrames,   \* bound: frames sent
  MaxPauses,   \* bound: pauses of more than two seconds
  RxCapacity,  \* CONFIG_UART0_RXBUFSIZE - 1
  BufLen,      \* reader->bufLen
  LenMod       \* 256: readLen is an uint8_t

ASSUME BufferAssumption ==
  {RxCapacity, BufLen, LenMod} \subseteq Nat \ {0} /\ BufLen > 2

FEND == "FEND"
FESC == "FESC"
TFEND == "TFEND"
TFESC == "TFESC"

DATA == "DATA"      \* port 0, KISS_CMD_DATA
CONFIG == "CONFIG"  \* port 0, one of the KISS_CMD_CONFIG_ commands
Sum == "sum"        \* the value calc_crc() has for the bytes before it

Byte == {FEND, FESC, TFEND, TFESC, DATA, CONFIG, Sum, "a"} \cup Text

VARIABLES
  rxfifo,    \* the port's receive FIFO
  rxerror,   \* status & SERRF_RX
  buf,       \* reader->buf
  readLen,   \* reader->readLen
  escaped,   \* the static variable of kiss_poll_serial()
  late,      \* more than two seconds have passed since rxTick
  stored,    \* history: bytes stored since readLen was last reset
  handled,   \* history: the frames given to kiss_handle_frame()
  modem,     \* history: what was passed on to the modem
  config,    \* history: the configuration payloads that were accepted
  sent,      \* history: the frames the host has sent or is sending
  todo,      \* the bytes of the last one that are still to come
  pauses     \* pauses so far

portVars == <<rxfifo, rxerror>>
kissVars == <<buf, readLen, escaped, stored, handled, modem, config>>
hostVars == <<sent, todo, pauses>>
serialVars == <<portVars, kissVars, late, hostVars>>

KissInit ==
  /\ rxfifo = << >> /\ rxerror = FALSE
  /\ buf = [i \in 0 .. BufLen - 1 |-> "NUL"]
  /\ readLen = 0 /\ escaped = FALSE /\ late = FALSE
  /\ stored = 0 /\ handled = << >> /\ modem = << >> /\ config = << >>
  /\ sent = << >> /\ todo = << >> /\ pauses = 0

-----------------------------------------------------------------------------
(* The host.  It frames its data the way the firmware does in              *)
(* kiss_send_to_serial().                                                  *)

\* Mutant: the escape byte itself is not escaped.
Escape_Once(c) == IF c = FEND THEN <<FESC, TFEND>> ELSE <<c>>

Escape(c) ==
  IF c = FEND THEN <<FESC, TFEND>>
  ELSE IF c = FESC THEN <<FESC, TFESC>> ELSE <<c>>

kiss_send(f) ==
  LET begun[i \in 0 .. Len(f)] ==
        IF i = 0 THEN <<FEND>> ELSE begun[i - 1] \o Escape(f[i])
  IN  begun[Len(f)] \o <<FEND>>

HostFrame(f) ==
  /\ todo = << >>
  /\ Len(sent) < MaxFrames
  /\ sent' = Append(sent, f)
  /\ todo' = kiss_send(f)
  /\ UNCHANGED <<portVars, kissVars, late, pauses>>

\* A byte arrives: the UART's receive interrupt.
USART_RX ==
  /\ todo # << >>
  /\ todo' = Tail(todo)
  /\ IF Len(rxfifo) = RxCapacity
     THEN rxerror' = TRUE /\ UNCHANGED rxfifo
     ELSE rxfifo' = Append(rxfifo, Head(todo)) /\ UNCHANGED rxerror
  /\ UNCHANGED <<kissVars, late, sent, pauses>>

\* Two seconds without a byte being stored.
Pause ==
  /\ pauses < MaxPauses
  /\ pauses' = pauses + 1
  /\ late' = TRUE
  /\ UNCHANGED <<portVars, kissVars, sent, todo>>

-----------------------------------------------------------------------------
(* The main loop.                                                          *)

Payload(f) == SubSeq(f, 2, Len(f))

\* verify_config_data(): the last byte is the checksum of those before it.
Verified(f) == f[Len(f)] = Sum

\* kiss_handle_frame(): other commands and other ports are ignored.
kiss_handle_frame(f) ==
  /\ handled' = Append(handled, f)
  /\ modem' = IF Len(f) >= 2 /\ f[1] = DATA THEN Append(modem, Payload(f)) ELSE modem
  /\ config' = IF Len(f) >= 2 /\ f[1] = CONFIG /\ Verified(f)
               THEN Append(config, SubSeq(f, 2, Len(f) - 1)) ELSE config

\* readLen after the two sanity checks: the timeout and the full buffer.
SaneLen ==
  LET len == IF readLen # 0 /\ late THEN 0 ELSE readLen
  IN  IF len >= BufLen - 2 THEN 0 ELSE len

\* Mutant: the frame is kept when it was handled.
Frame_End_NoReset(len) ==
  /\ IF ~escaped /\ len > 0
     THEN kiss_handle_frame([i \in 1 .. len |-> buf[i - 1]])
     ELSE UNCHANGED <<handled, modem, config>>
  /\ escaped' = FALSE
  /\ UNCHANGED <<buf, late, readLen, stored>>

Frame_End(len) ==
  /\ IF ~escaped /\ len > 0
     THEN kiss_handle_frame([i \in 1 .. len |-> buf[i - 1]])
     ELSE UNCHANGED <<handled, modem, config>>
  /\ escaped' = FALSE
  /\ readLen' = 0 /\ stored' = 0
  /\ UNCHANGED <<buf, late>>

Frame_Escape(len) ==
  /\ escaped' = TRUE
  /\ readLen' = len
  /\ stored' = IF len # readLen THEN 0 ELSE stored
  /\ UNCHANGED <<buf, late, handled, modem, config>>

\* Mutant: the escape is not over after a TFEND.
Frame_Byte_StillEscaped(c, len) ==
  /\ buf' = [buf EXCEPT ![len] = IF escaped /\ c = TFEND THEN FEND
                                 ELSE IF escaped /\ c = TFESC THEN FESC ELSE c]
  /\ escaped' = (escaped /\ c = TFEND)
  /\ readLen' = (len + 1) % LenMod
  /\ stored' = IF len # readLen THEN 1 ELSE stored + 1
  /\ late' = FALSE
  /\ UNCHANGED <<handled, modem, config>>

Frame_Byte(c, len) ==
  /\ buf' = [buf EXCEPT ![len] = IF escaped /\ c = TFEND THEN FEND
                                 ELSE IF escaped /\ c = TFESC THEN FESC ELSE c]
  /\ escaped' = FALSE
  /\ readLen' = (len + 1) % LenMod
  /\ stored' = IF len # readLen THEN 1 ELSE stored + 1
  /\ late' = FALSE
  /\ UNCHANGED <<handled, modem, config>>

\* Mutant: the error is not looked at.
ser_getchar_NoError(c) ==
  /\ rxfifo # << >>
  /\ c = Head(rxfifo)

\* A byte c and not EOF, which is what there is when the FIFO is empty and also,
\* whatever the FIFO holds, once the port has an error.  (The caller's rxfifo' is
\* without it.)
ser_getchar(c) ==
  /\ rxfifo # << >>
  /\ ~rxerror
  /\ c = Head(rxfifo)

kiss_poll_serial ==
  /\ \E c \in Byte :
       /\ ser_getchar(c)
       /\ \/ c = FEND /\ Frame_End(SaneLen)
          \/ c = FESC /\ Frame_Escape(SaneLen)
          \/ c \notin {FEND, FESC} /\ Frame_Byte(c, SaneLen)
  /\ rxfifo' = Tail(rxfifo)
  /\ UNCHANGED <<rxerror, hostVars>>

Finished == todo = << >> /\ Len(sent) = MaxFrames /\ UNCHANGED serialVars

KissNext ==
  \/ \E f \in Frames : HostFrame(f)
  \/ USART_RX \/ Pause \/ kiss_poll_serial \/ Finished

KissSpec == KissInit /\ [][KissNext]_serialVars

-----------------------------------------------------------------------------
(* Properties.                                                             *)

Last(s) == s[Len(s)]

\* g is the end of f.  The loss of what was before may have split an escape, or have
\* left one that its first byte is decoded with.
EndOf(g, f) ==
  /\ Len(g) <= Len(f)
  /\ LET k == Len(f) - Len(g) + 1
     IN  /\ SubSeq(g, 2, Len(g)) = SubSeq(f, k + 1, Len(f))
         /\ g # << >> =>
              g[1] = f[k] \/ g[1] = Last(Escape(f[k])) \/ f[k] = Last(Escape(g[1]))

\* Even when the beginning of a frame is thrown away, by a pause or by a switch of
\* the mode, no frame that kiss_handle_frame() gets has bytes of two frames of
\* the host, and none is handled twice: it is the end of one, or all of it.
NeverMixed ==
  \E at \in [DOMAIN handled -> DOMAIN sent] :
    /\ \A i, j \in DOMAIN handled : i < j => at[i] < at[j]
    /\ \A i \in DOMAIN handled : EndOf(handled[i], sent[at[i]])

\* What the check before a byte is stored is for: when the frame is about to
\* overflow the buffer, the reader is reset.
OverflowIsReset == stored <= BufLen - 2
=============================================================================
