------------------------------- MODULE Ax25Rx -------------------------------
(***************************************************************************)
(* The receive path of a station from the bytes on the air to the frames   *)
(* handed to the application: the modem's interrupt fills the receive FIFO *)
(* (HdlcBytes), the main loop empties it in ax25_poll() (bertos/net/ax25.c)*)
(* whenever it gets to it.  While the main loop is busy, in a blocking     *)
(* transmission for instance, the FIFO overflows.                          *)
(*                                                                         *)
(* The CRC is ideal: crc_in is right exactly for the frames in Valid.      *)
(* The statistics, and the dcd flag only they read, are left out.          *)
(***************************************************************************)
EXTENDS HdlcBytes

CONSTANTS
  AirFrames,  \* what stations send between two flags, FCS included
  Valid,      \* those whose FCS is right
  MinLen,     \* AX25_MIN_FRAME_LEN
  BufLen,     \* CONFIG_AX25_FRAME_BUF_LEN
  MaxFrames,  \* bound: frames on the air
  MaxFlags    \* bound: flags on the air

ASSUME ValidAssumption == Valid \subseteq AirFrames /\ AirFrames \subseteq Seq(Bytes)

ASSUME LenAssumption ==
  MinLen \in Nat \ {0} /\ BufLen \in Nat /\ MaxFrames \in Nat /\ MaxFlags \in Nat

\* Behind place o, v is the beginning of the frame f.
BeginsAfter(o, v, f) ==
  Len(v) - o <= Len(f) /\ \A i \in 1 .. Len(v) - o : v[o + i] = f[i]

\* v is f up to place j, where f has a byte that is escaped and v a flag.
CutAt(j, v, f) ==
  /\ j <= Len(f) /\ f[j] \in {FLAG, RESET, ESC} /\ v[j] = FLAG
  /\ \A i \in 1 .. j - 1 : v[i] = f[i]

\* The CRC tells a frame from the beginning of a longer one ...
ASSUME CrcAssumption ==
  \A v \in Valid, f \in AirFrames : BeginsAfter(0, v, f) => v = f

\* ... and from the pieces of several, joined by the flag that an escape without
\* its byte has swallowed.
ASSUME SpliceAssumption ==
  \A v \in Valid, f, g \in AirFrames : \A j, o \in DOMAIN v :
    j <= o /\ CutAt(j, v, f) /\ v[o] = FLAG /\ BeginsAfter(o, v, g) => v = f

VARIABLES
  buf,        \* ctx->buf[0 .. frm_len - 1]
  sync,       \* ctx->sync
  escape,     \* ctx->escape
  pc,         \* where ax25_poll() is
  delivered,  \* history: the frames given to the hook
  sending,    \* history: the frame on the air, or << >>
  rest,       \* the bytes of it still to come
  started,    \* history: every frame that was begun, in order
  flags,      \* the flags so far
  clean,      \* the flags stored since the last overrun, up to 2
  intact,     \* the frame on the air had two of them, and no overrun since
  due         \* history: the frames the station had every chance to receive

ctxVars == <<buf, sync, escape, pc, delivered>>
airVars == <<sending, rest, started, flags, clean, intact, due>>
vars == <<hdlcVars, ctxVars, airVars>>

Init ==
  /\ HdlcInit
  /\ buf = << >> /\ sync = FALSE /\ escape = FALSE
  /\ pc = "getc"
  /\ delivered = << >>
  /\ sending = << >> /\ rest = << >> /\ started = << >>
  /\ flags = 0 /\ clean = 1 /\ intact = FALSE
  /\ due = << >>

-----------------------------------------------------------------------------
(* The air: stations send flags, frames and, when they fail, aborts.       *)

GoodLength(f) == Len(f) >= MinLen /\ Len(f) <= BufLen

AirFlag ==
  /\ rest = << >>
  /\ flags < MaxFlags
  /\ HdlcFlag
  /\ flags' = flags + 1
  /\ clean' = IF ~HasRoom(1) THEN 0 ELSE IF clean = 2 THEN 2 ELSE clean + 1
  /\ due' = IF intact /\ HasRoom(1) /\ sending \in Valid /\ GoodLength(sending)
            THEN Append(due, sending) ELSE due
  /\ sending' = << >>
  /\ intact' = FALSE
  /\ UNCHANGED <<ctxVars, rest, started>>

\* A frame starts after a flag.
AirStart(f) ==
  /\ sending = << >>
  /\ flags > 0
  /\ Len(started) < MaxFrames
  /\ sending' = f
  /\ rest' = f
  /\ started' = Append(started, f)
  /\ intact' = (clean = 2 /\ rxstart)
  /\ UNCHANGED <<hdlcVars, ctxVars, flags, clean, due>>

\* A byte: hdlc_parse() ignores it when it is not collecting.
AirByte ==
  /\ rest # << >>
  /\ rest' = Tail(rest)
  /\ \/ HdlcByte(Head(rest))
     \/ ~rxstart /\ UNCHANGED hdlcVars
  /\ clean' = IF rxstart /\ ~rxstart' THEN 0 ELSE clean
  /\ intact' = (intact /\ rxstart')
  /\ UNCHANGED <<ctxVars, sending, started, flags, due>>

\* The carrier is lost, in a frame or instead of its closing flag.
AirAbort ==
  /\ sending # << >>
  /\ HdlcAbort
  /\ sending' = << >>
  /\ rest' = << >>
  /\ intact' = FALSE
  /\ UNCHANGED <<ctxVars, started, flags, clean, due>>

-----------------------------------------------------------------------------
(* ax25_poll().                                                            *)

\* Mutant: the buffer is not emptied.
Poll_Flag_Keep ==
  /\ ~escape /\ Head(rx_fifo) = FLAG
  /\ delivered' = IF Len(buf) >= MinLen /\ buf \in Valid
                  THEN Append(delivered, buf) ELSE delivered
  /\ sync' = TRUE
  /\ UNCHANGED <<buf, escape>>

\* Mutant: the buffer is emptied only when it held a frame.
Poll_Flag_KeepShort ==
  /\ ~escape /\ Head(rx_fifo) = FLAG
  /\ delivered' = IF Len(buf) >= MinLen /\ buf \in Valid
                  THEN Append(delivered, buf) ELSE delivered
  /\ sync' = TRUE
  /\ buf' = IF Len(buf) >= MinLen THEN << >> ELSE buf
  /\ UNCHANGED escape

\* An unescaped flag: the end of a frame, and the start of one.
Poll_Flag ==
  /\ ~escape /\ Head(rx_fifo) = FLAG
  /\ delivered' = IF Len(buf) >= MinLen /\ buf \in Valid
                  THEN Append(delivered, buf) ELSE delivered
  /\ sync' = TRUE
  /\ buf' = << >>
  /\ UNCHANGED escape

\* An unescaped reset or escape.
Poll_Control ==
  /\ ~escape /\ Head(rx_fifo) \in {RESET, ESC}
  /\ escape' = (Head(rx_fifo) = ESC)
  /\ sync' = (sync /\ Head(rx_fifo) # RESET)
  /\ UNCHANGED <<buf, delivered>>

\* Mutant: off by one at the end of the buffer.
Poll_Data_OffByOne ==
  /\ escape \/ Head(rx_fifo) \notin {FLAG, RESET, ESC}
  /\ escape' = FALSE
  /\ buf' = IF sync /\ Len(buf) <= BufLen THEN Append(buf, Head(rx_fifo)) ELSE buf
  /\ sync' = (sync /\ Len(buf) <= BufLen)
  /\ UNCHANGED delivered

\* A byte of the frame; one that does not fit ends the reception.
Poll_Data ==
  /\ escape \/ Head(rx_fifo) \notin {FLAG, RESET, ESC}
  /\ escape' = FALSE
  /\ buf' = IF sync /\ Len(buf) < BufLen THEN Append(buf, Head(rx_fifo)) ELSE buf
  /\ sync' = (sync /\ Len(buf) < BufLen)
  /\ UNCHANGED delivered

\* One round of the loop: kfile_getc() and what is done with the byte.
Poll_Byte ==
  /\ pc = "getc"
  /\ Read
  /\ Poll_Flag \/ Poll_Control \/ Poll_Data
  /\ UNCHANGED <<pc, airVars>>

\* EOF; the error check and its clearing follow, each atomic on its own.
Poll_Eof ==
  /\ pc = "getc"
  /\ rx_fifo = << >>
  /\ pc' = "error"
  /\ UNCHANGED <<hdlcVars, buf, sync, escape, delivered, airVars>>

Poll_Error ==
  /\ pc = "error"
  /\ pc' = IF overrun THEN "clearerr" ELSE "getc"
  /\ UNCHANGED <<hdlcVars, buf, sync, escape, delivered, airVars>>

Poll_Clear ==
  /\ pc = "clearerr"
  /\ ClearErr
  /\ pc' = "getc"
  /\ UNCHANGED <<buf, sync, escape, delivered, airVars>>

ax25_poll == Poll_Byte \/ Poll_Eof \/ Poll_Error \/ Poll_Clear

Next ==
  \/ AirFlag \/ AirByte \/ AirAbort
  \/ \E f \in AirFrames : AirStart(f)
  \/ ax25_poll

Spec == Init /\ [][Next]_vars

-----------------------------------------------------------------------------
(* Properties.                                                             *)

TypeOK ==
  /\ rx_fifo \in Seq(Bytes) /\ Len(rx_fifo) <= Capacity
  /\ rxstart \in BOOLEAN /\ overrun \in BOOLEAN
  /\ sync \in BOOLEAN /\ escape \in BOOLEAN /\ intact \in BOOLEAN
  /\ buf \in Seq(Bytes) /\ Len(buf) <= BufLen
  /\ pc \in {"getc", "error", "clearerr"}
  /\ delivered \in Seq(Valid) /\ due \in Seq(Valid) /\ started \in Seq(AirFrames)
  /\ sending \in AirFrames \union {<< >>} /\ rest \in Seq(Bytes)
  /\ flags \in 0 .. MaxFlags /\ clean \in 0 .. 2

\* s is t with some elements left out.
SomeOf(s, t) ==
  \E at \in [DOMAIN s -> DOMAIN t] :
    /\ \A i, j \in DOMAIN s : i < j => at[i] < at[j]
    /\ \A i \in DOMAIN s : s[i] = t[at[i]]

\* Overruns may cost frames, but what ax25_poll() hands to the hook is always
\* some of the frames that were sent, in their order, none of them twice.
NoFrameTwice == SomeOf(delivered, started)

\* After an overrun two flags are enough: a frame that follows two flags which
\* hdlc_parse() could store, and that meets no further overrun, is delivered.
\* (One flag is not: an escape whose byte did not fit swallows it.)
Resynchronised ==
  rx_fifo = << >> => SomeOf(due, delivered)

\* The escapes keep their place across overruns: ax25_poll() never takes a byte
\* of a frame for an HDLC_RESET, which the parser does not store on its own.
NoFalseReset ==
  rx_fifo # << >> /\ ~escape => Head(rx_fifo) # RESET
=============================================================================
