------------------------------- MODULE AfskTx -------------------------------
(***************************************************************************)
(* The transmit side of the modem: the main program writes a frame byte by *)
(* byte into the transmit FIFO (ax25_sendRaw() through afsk_write()), and  *)
(* the DAC interrupt takes a byte whenever it has sent the previous one    *)
(* (afsk_dac_isr(), bertos/net/afsk.c).  The FIFO is the bounded queue     *)
(* that FifoBuf implements.                                                *)
(*                                                                         *)
(* The interrupt is one step, taken when a byte is complete (tx_bit == 0); *)
(* in between it only shifts the bits of HdlcLink.  The main program may   *)
(* be interrupted between any two of its steps.                            *)
(***************************************************************************)
EXTENDS Integers, Sequences

CONSTANTS
  Plain,        \* bytes that need no escape
  Capacity,     \* CONFIG_AFSK_TX_BUFLEN - 1
  PreambleLen,  \* flags sent before the first byte
  TrailerLen,   \* flags sent after the last byte
  Frames,       \* the frames a client may send: sequences of bytes
  MaxFrames     \* bound: frames sent in one behaviour

\* There is room for an escape and its byte.
ASSUME CapacityAssumption == Capacity \in Nat /\ Capacity >= 2
ASSUME LenAssumption == PreambleLen \in Nat /\ TrailerLen \in Nat
ASSUME MaxFramesAssumption == MaxFrames \in Nat

FLAG  == "FLAG"   \* HDLC_FLAG
RESET == "RESET"  \* HDLC_RESET
ESC   == "ESC"    \* AX25_ESC

Escaped == {FLAG, RESET, ESC}
Byte == Plain \union Escaped

\* A frame ends with its FCS, so it is never empty.
ASSUME FramesAssumption == Frames \subseteq Seq(Byte) \ {<< >>}

VARIABLES
  tx_fifo,      \* the transmit FIFO
  sending,      \* af->sending
  dac_isr,      \* hw_afsk_dac_isr: the interrupt sends, the PTT line is on
  preamble_len, \* af->preamble_len
  trailer_len,  \* af->trailer_len
  pc,           \* where the main program is in the transmit code
  todo,         \* bytes of the current frame it has not written yet
  written,      \* bytes it wrote since the last interrupt, counted up to 2
  sent,         \* the frames handed to ax25_sendRaw(), in order
  caller,       \* the function that is sending: does it flush at the end?
  late,         \* history: it was once too slow for the interrupt
  heard,        \* the frames an ideal receiver has got from the air
  hearing,      \* the frame it is receiving
  synced,       \* it has heard a flag since the carrier came up
  flags         \* the flags since the last byte, counted up to TrailerLen + 1

txVars == <<tx_fifo, sending, dac_isr, preamble_len, trailer_len>>
mainVars == <<pc, todo, written, sent, caller, late>>
airVars == <<heard, hearing, synced, flags>>
vars == <<txVars, mainVars, airVars>>

Init ==
  /\ tx_fifo = << >>
  /\ sending = FALSE
  /\ dac_isr = FALSE
  /\ preamble_len = 0
  /\ trailer_len = 0
  /\ pc = "idle"
  /\ todo = << >>
  /\ written = 0
  /\ sent = << >>
  /\ caller = "sendRaw"
  /\ late = FALSE
  /\ heard = << >>
  /\ hearing = << >>
  /\ synced = FALSE
  /\ flags = 0

-----------------------------------------------------------------------------
(* The main program.                                                       *)

\* How the bytes of a frame are written: the two flags by kfile_putc(), the
\* contents by ax25_putchar().
Raw(c) == [byte |-> c, escape |-> FALSE]
Putchar(c) == [byte |-> c, escape |-> c \in Escaped]

\* ax25_sendRaw(), ax25_sendMsg(), ax25_sendVia(): flag, contents, flag.
ax25_send(f, fn) ==
  /\ pc = "idle"
  /\ Len(sent) < MaxFrames
  /\ sent' = Append(sent, f)
  /\ caller' = fn
  /\ todo' = <<Raw(FLAG)>> \o [i \in 1 .. Len(f) |-> Putchar(f[i])]
                           \o <<Raw(FLAG)>>
  /\ pc' = "write"
  /\ UNCHANGED <<txVars, airVars, written, late>>

WriteByte ==
  /\ tx_fifo' = Append(tx_fifo, Head(todo).byte)
  /\ todo' = Tail(todo)

\* ax25_putchar() writes the escape first.
WriteEscape ==
  /\ tx_fifo' = Append(tx_fifo, ESC)
  /\ todo' = [todo EXCEPT ![1].escape = FALSE]

\* Mutant: ax25_putchar() does not escape.
afsk_write_NoEscape ==
  /\ pc = "write"
  /\ Len(tx_fifo) < Capacity
  /\ WriteByte
  /\ pc' = "txStart"
  /\ UNCHANGED <<sending, dac_isr, preamble_len, trailer_len, written, sent,
                 caller, late, airVars>>

\* afsk_write(): wait while the FIFO is full, then push.
afsk_write ==
  /\ pc = "write"
  /\ Len(tx_fifo) < Capacity
  /\ IF Head(todo).escape THEN WriteEscape ELSE WriteByte
  /\ pc' = "txStart"
  /\ UNCHANGED <<sending, dac_isr, preamble_len, trailer_len, written, sent,
                 caller, late, airVars>>

\* afsk_txStart(): the test of af->sending, and what it guards.
txStart_On ==
  /\ pc = "txStart"
  /\ ~sending
  /\ sending' = TRUE
  /\ preamble_len' = PreambleLen
  /\ pc' = "irqStart"
  /\ UNCHANGED <<tx_fifo, dac_isr, trailer_len, todo, written, sent, caller,
                 late, airVars>>

txStart_Already ==
  /\ pc = "txStart"
  /\ sending
  /\ pc' = "trailer"
  /\ UNCHANGED <<txVars, todo, written, sent, caller, late, airVars>>

\* AFSK_DAC_IRQ_START()
irqStart ==
  /\ pc = "irqStart"
  /\ dac_isr' = TRUE
  /\ pc' = "trailer"
  /\ UNCHANGED <<tx_fifo, sending, preamble_len, trailer_len, todo, written,
                 sent, caller, late, airVars>>

AfterByte ==
  /\ written' = IF written = 2 THEN 2 ELSE written + 1
  /\ pc' = IF todo # << >> THEN "write"
           ELSE IF caller = "sendVia" THEN "idle" ELSE "flush"
  /\ UNCHANGED <<todo, sent, caller, late, airVars>>

\* Mutant: the trailer is set only when the modem is started.
setTrailer_Once ==
  /\ pc = "trailer"
  /\ trailer_len' = IF trailer_len = 0 THEN TrailerLen ELSE trailer_len
  /\ UNCHANGED <<tx_fifo, sending, dac_isr, preamble_len>>
  /\ AfterByte

\* The last statement of afsk_txStart(); then the next byte, kfile_flush() or,
\* in ax25_sendVia(), the return.
setTrailer ==
  /\ pc = "trailer"
  /\ trailer_len' = TrailerLen
  /\ UNCHANGED <<tx_fifo, sending, dac_isr, preamble_len>>
  /\ AfterByte

\* Mutant: the flush waits for the FIFO only.
afsk_flush_FifoOnly ==
  /\ pc = "flush"
  /\ tx_fifo = << >>
  /\ pc' = "idle"
  /\ UNCHANGED <<txVars, todo, written, sent, caller, late, airVars>>

\* afsk_flush(): wait until the modem has stopped.
afsk_flush ==
  /\ pc = "flush"
  /\ ~sending
  /\ pc' = "idle"
  /\ UNCHANGED <<txVars, todo, written, sent, caller, late, airVars>>

Main ==
  \/ afsk_write \/ txStart_On \/ txStart_Already \/ irqStart
  \/ setTrailer \/ afsk_flush

-----------------------------------------------------------------------------
(* The DAC interrupt, at the end of a byte.                                *)

\* The main program makes no progress until the interrupt does, or has
\* nothing to write.
MainWaits ==
  \/ pc \in {"idle", "flush"}
  \/ pc = "write" /\ Len(tx_fifo) = Capacity

\* A byte takes 6.7 ms on the air.  The main program, which only copies bytes
\* from memory, writes at least two in that time, or else it is late.
ByteTime ==
  /\ dac_isr
  /\ late' = (late \/ ~(MainWaits \/ written = 2))
  /\ written' = 0
  /\ UNCHANGED <<pc, todo, sent, caller>>

HearFlag ==
  /\ heard' = IF hearing = << >> THEN heard ELSE Append(heard, hearing)
  /\ hearing' = << >>
  /\ synced' = TRUE
  /\ flags' = IF flags > TrailerLen THEN flags ELSE flags + 1

HearByte(c) ==
  /\ hearing' = IF synced THEN Append(hearing, c) ELSE << >>
  /\ flags' = 0
  /\ UNCHANGED <<heard, synced>>

CarrierOff ==
  /\ hearing' = << >>
  /\ synced' = FALSE
  /\ flags' = 0
  /\ UNCHANGED heard

\* AFSK_DAC_IRQ_STOP(); af->sending = false
Stop ==
  /\ dac_isr' = FALSE
  /\ sending' = FALSE
  /\ CarrierOff
  /\ UNCHANGED <<preamble_len, trailer_len>>

\* Nothing left to send.
Dac_End ==
  /\ ByteTime
  /\ tx_fifo = << >> /\ trailer_len = 0
  /\ Stop
  /\ UNCHANGED tx_fifo

Dac_Preamble ==
  /\ ByteTime
  /\ ~(tx_fifo = << >> /\ trailer_len = 0)
  /\ preamble_len > 0
  /\ preamble_len' = preamble_len - 1
  /\ HearFlag
  /\ UNCHANGED <<tx_fifo, sending, dac_isr, trailer_len>>

\* Mutant: the trailer is not counted down.
Dac_Trailer_Forever ==
  /\ ByteTime
  /\ tx_fifo = << >> /\ trailer_len > 0
  /\ preamble_len = 0
  /\ HearFlag
  /\ UNCHANGED <<tx_fifo, sending, dac_isr, preamble_len, trailer_len>>

Dac_Trailer ==
  /\ ByteTime
  /\ tx_fifo = << >> /\ trailer_len > 0
  /\ preamble_len = 0
  /\ trailer_len' = trailer_len - 1
  /\ HearFlag
  /\ UNCHANGED <<tx_fifo, sending, dac_isr, preamble_len>>

\* A byte that is not an escape; flag and reset go out without bit stuffing.
Dac_Byte ==
  /\ ByteTime
  /\ preamble_len = 0
  /\ tx_fifo # << >> /\ Head(tx_fifo) # ESC
  /\ tx_fifo' = Tail(tx_fifo)
  /\ CASE Head(tx_fifo) = FLAG  -> HearFlag
       [] Head(tx_fifo) = RESET -> CarrierOff
       [] OTHER                 -> HearByte(Head(tx_fifo))
  /\ UNCHANGED <<sending, dac_isr, preamble_len, trailer_len>>

\* An escape and the byte it escapes, which is sent with bit stuffing.
Dac_Escape ==
  /\ ByteTime
  /\ preamble_len = 0
  /\ Len(tx_fifo) > 1 /\ Head(tx_fifo) = ESC
  /\ tx_fifo' = Tail(Tail(tx_fifo))
  /\ HearByte(tx_fifo[2])
  /\ UNCHANGED <<sending, dac_isr, preamble_len, trailer_len>>

\* Mutant: the second exit of the interrupt forgets af->sending.
Dac_EscapeUnderrun_Sending ==
  /\ ByteTime
  /\ preamble_len = 0
  /\ tx_fifo = <<ESC>>
  /\ tx_fifo' = << >>
  /\ dac_isr' = FALSE
  /\ CarrierOff
  /\ UNCHANGED <<sending, preamble_len, trailer_len>>

\* An escape whose byte is not in the FIFO yet: the modem stops.
Dac_EscapeUnderrun ==
  /\ ByteTime
  /\ preamble_len = 0
  /\ tx_fifo = <<ESC>>
  /\ tx_fifo' = << >>
  /\ Stop

afsk_dac_isr ==
  \/ Dac_End \/ Dac_Preamble \/ Dac_Trailer
  \/ Dac_Byte \/ Dac_Escape \/ Dac_EscapeUnderrun

\* The bound is reached and everything has been sent.
Finished ==
  /\ Len(sent) = MaxFrames
  /\ pc = "idle"
  /\ ~dac_isr
  /\ UNCHANGED vars

Next ==
  \/ \E f \in Frames, fn \in {"sendRaw", "sendVia"} : ax25_send(f, fn)
  \/ Main
  \/ afsk_dac_isr
  \/ Finished

Spec == Init /\ [][Next]_vars

\* The main program runs whenever no interrupt does, and the interrupt comes
\* with every sample of the timer.
FairSpec == Spec /\ WF_vars(Main) /\ WF_vars(afsk_dac_isr)

-----------------------------------------------------------------------------
\* No wake-up is lost: a byte in the FIFO is going to be sent.  Between the
\* push and the end of afsk_txStart() the main program has still to start the
\* interrupt; at any other time the interrupt is running, although it may have
\* decided to stop at any point around the test of af->sending.
NoLostWakeup ==
  tx_fifo # << >> => dac_isr \/ pc \in {"txStart", "irqStart"}

\* af->sending and the interrupt (and the PTT line) agree, except while the
\* main program is between setting one and the other.
SendingIsKeyed ==
  sending <=> dac_isr \/ pc = "irqStart"

\* kfile_flush() at the end of a frame returns when all of it is on the air
\* and the PTT line is released: "wait the radio send off" (ax25.c:361).
FlushMeansSent ==
  [][pc = "flush" /\ pc' = "idle" => tx_fifo = << >> /\ ~dac_isr]_vars

\* What is heard is what was sent: frames arrive whole, unaltered, once and in
\* order, also when one follows another without a pause, and when the modem
\* falls silent nothing is missing, as long as the main program keeps up.
AirIsIntact ==
  ~late => /\ heard = SubSeq(sent, 1, Len(heard))
           /\ pc = "idle" /\ ~dac_isr => heard = sent

\* The PTT line is released only after the closing flag and the whole trailer.
StopsAfterTrailer ==
  [][dac_isr /\ ~dac_isr' /\ ~late' => flags = TrailerLen + 1]_vars

\* The PTT line is always released again, and a flush always returns.
PttReleased ==
  /\ dac_isr ~> ~dac_isr
  /\ pc = "flush" ~> pc = "idle"
=============================================================================
