------------------------------ MODULE HdlcLink ------------------------------
(***************************************************************************)
(* The bit level of the modem (bertos/net/afsk.c), both ends of it: the    *)
(* part of afsk_dac_isr() that turns bytes into tones, with bit stuffing,  *)
(* and hdlc_parse(), which turns the tones back into bytes.  The           *)
(* transmission is preceded by noise, so it meets the parser in any state. *)
(***************************************************************************)
EXTENDS Integers, Sequences

CONSTANTS
  Transmissions,  \* Transmissions[n]: what may be sent with one keying after n
                  \* bits of noise: sequences of frames (sequences of bytes)
  PreambleLen,    \* flags before the first frame
  NoiseBits,      \* bound: noise bits before the transmission
  Capacity        \* CONFIG_AFSK_RX_BUFLEN - 1

ASSUME CapacityAssumption == Capacity \in Nat /\ Capacity >= 1

FLAG  == 126  \* HDLC_FLAG
RESET == 127  \* HDLC_RESET
ESC   == 27   \* AX25_ESC
Byte  == 0 .. 255

\* The first tone may be taken for the end of the noise, so there is a flag before
\* the one that opens the frame (CONFIG_AFSK_PREAMBLE_LEN); no frame is empty.
ASSUME TransmissionAssumption ==
  /\ PreambleLen \in Nat \ {0} /\ NoiseBits \in Nat
  /\ \A n \in 0 .. NoiseBits : \A fs \in Transmissions[n] :
       /\ fs \in Seq(Seq(Byte)) /\ fs # << >>
       /\ \A i \in DOMAIN fs : fs[i] # << >>

BIT_STUFF_LEN == 5

Mark == 0
Space == 1

VARIABLES
  demod_bits, rxstart, currchar, bit_idx,             \* struct Hdlc
  rx_fifo, overrun,                                   \* Afsk, receive side
  todo, curr_out, tx_bit, bit_stuff, stuff_cnt, tone, \* Afsk, transmit side
  line,                                               \* the tone on the air
  noise,                                              \* noise bits so far
  sent, got                \* the frames sent and the bytes read, in order

rxVars == <<demod_bits, rxstart, currchar, bit_idx, rx_fifo, overrun>>
txVars == <<todo, curr_out, tx_bit, bit_stuff, stuff_cnt, tone>>
vars == <<rxVars, txVars, line, noise, sent, got>>

Init ==
  /\ demod_bits = 0 /\ rxstart = FALSE /\ currchar = 0 /\ bit_idx = 0
  /\ rx_fifo = << >> /\ overrun = FALSE
  /\ todo = << >> /\ curr_out = 0 /\ tx_bit = 0
  /\ bit_stuff = FALSE /\ stuff_cnt = 0 /\ tone = Mark
  /\ line \in {Mark, Space}
  /\ noise = 0
  /\ sent = << >> /\ got = << >>

-----------------------------------------------------------------------------
(* hdlc_parse(), called with every bit.                                    *)

IsFull(q) == Len(q) = Capacity

Flag(bits) ==
  /\ bits = FLAG
  /\ rxstart' = ~IsFull(rx_fifo)
  /\ rx_fifo' = IF IsFull(rx_fifo) THEN rx_fifo ELSE Append(rx_fifo, FLAG)
  /\ overrun' = (overrun \/ IsFull(rx_fifo))
  /\ currchar' = 0
  /\ bit_idx' = 0

Reset(bits) ==
  /\ bits % 128 = RESET
  /\ rxstart' = FALSE
  /\ UNCHANGED <<rx_fifo, overrun, currchar, bit_idx>>

StuffedBit(bits) == bits % 64 = 62

\* Between frames, or the bit after five ones: nothing is collected.
Skip(bits) ==
  /\ ~rxstart \/ StuffedBit(bits)
  /\ UNCHANGED <<rx_fifo, rxstart, overrun, currchar, bit_idx>>

\* Mutant: the collection goes on after an overrun.
Push_GoOn(c) ==
  LET q == IF c \in {FLAG, RESET, ESC} /\ ~IsFull(rx_fifo)
           THEN Append(rx_fifo, ESC) ELSE rx_fifo
  IN  /\ rx_fifo' = IF IsFull(q) THEN q ELSE Append(q, c)
      /\ overrun' = (overrun \/ IsFull(q))
      /\ UNCHANGED rxstart

\* The eighth bit of a byte: escape if it needs one, then the byte.
Push(c) ==
  LET q == IF c \in {FLAG, RESET, ESC} /\ ~IsFull(rx_fifo)
           THEN Append(rx_fifo, ESC) ELSE rx_fifo
  IN  /\ rx_fifo' = IF IsFull(q) THEN q ELSE Append(q, c)
      /\ rxstart' = ~IsFull(q)
      /\ overrun' = (overrun \/ IsFull(q))

Collect(bits) ==
  /\ rxstart /\ ~StuffedBit(bits)
  /\ LET c == currchar + 128 * (bits % 2)
     IN  IF bit_idx = 7
         THEN Push(c) /\ currchar' = 0 /\ bit_idx' = 0
         ELSE /\ currchar' = c \div 2
              /\ bit_idx' = bit_idx + 1
              /\ UNCHANGED <<rx_fifo, rxstart, overrun>>

hdlc_parse(bit) ==
  LET bits == (2 * demod_bits + bit) % 256
  IN  /\ demod_bits' = bits
      /\ IF bits = FLAG THEN Flag(bits)
         ELSE IF bits % 128 = RESET THEN Reset(bits)
         ELSE Skip(bits) \/ Collect(bits)

\* afsk_adc_isr(): NRZ-S, a tone that does not change is a one.
Receive == hdlc_parse(IF line' = line THEN 1 ELSE 0)

-----------------------------------------------------------------------------
(* afsk_dac_isr(), once per bit.                                           *)

\* What the interrupt takes from the transmit FIFO: a byte and whether it goes
\* out with bit stuffing (flags that were not escaped go out without).
Raw(c) == [byte |-> c, stuff |-> FALSE]
Stuffed(c) == [byte |-> c, stuff |-> TRUE]

OnAir(f) == <<Raw(FLAG)>> \o [i \in 1 .. Len(f) |-> Stuffed(f[i])]
                          \o <<Raw(FLAG)>>

\* The frames of one keying, one behind the other.
Written(fs) ==
  LET upTo[i \in 1 .. Len(fs)] ==
        IF i = 1 THEN OnAir(fs[i]) ELSE upTo[i - 1] \o OnAir(fs[i])
  IN  upTo[Len(fs)]

\* afsk_txStart(), after any amount of noise: the first tone is a mark.
afsk_txStart(fs) ==
  /\ sent = << >>
  /\ sent' = fs
  /\ todo' = [i \in 1 .. PreambleLen |-> Raw(FLAG)] \o Written(fs)
  /\ tone' = Mark
  /\ stuff_cnt' = 0
  /\ UNCHANGED <<rxVars, curr_out, tx_bit, bit_stuff, line, noise, got>>

SwitchTone == Mark + Space - tone

\* Mutant: the zero is stuffed after six ones.
SendBit_Late(c, mask, stuff, ones) ==
  IF stuff /\ ones > BIT_STUFF_LEN
  THEN /\ stuff_cnt' = 0
       /\ tone' = SwitchTone
       /\ tx_bit' = mask
  ELSE /\ stuff_cnt' = IF (c \div mask) % 2 = 1 THEN ones + 1 ELSE 0
       /\ tone' = IF (c \div mask) % 2 = 1 THEN tone ELSE SwitchTone
       /\ tx_bit' = (2 * mask) % 256

\* The bit of byte c under the mask, or the zero stuffed after five ones.
SendBit(c, mask, stuff, ones) ==
  IF stuff /\ ones >= BIT_STUFF_LEN
  THEN /\ stuff_cnt' = 0
       /\ tone' = SwitchTone
       /\ tx_bit' = mask
  ELSE /\ stuff_cnt' = IF (c \div mask) % 2 = 1 THEN ones + 1 ELSE 0
       /\ tone' = IF (c \div mask) % 2 = 1 THEN tone ELSE SwitchTone
       /\ tx_bit' = (2 * mask) % 256

\* The counter of ones restarts after an unstuffed byte.
NewByte ==
  /\ tx_bit = 0
  /\ todo # << >>
  /\ todo' = Tail(todo)
  /\ curr_out' = Head(todo).byte
  /\ bit_stuff' = Head(todo).stuff
  /\ SendBit(Head(todo).byte, 1, Head(todo).stuff,
             IF bit_stuff THEN stuff_cnt ELSE 0)

SameByte ==
  /\ tx_bit # 0
  /\ SendBit(curr_out, tx_bit, bit_stuff, stuff_cnt)
  /\ UNCHANGED <<todo, curr_out, bit_stuff>>

-----------------------------------------------------------------------------

\* One bit time with a transmission on the air.
Bit ==
  /\ NewByte \/ SameByte
  /\ line' = tone'
  /\ Receive
  /\ UNCHANGED <<noise, sent, got>>

\* One bit time without: the demodulator decides on something.
Noise ==
  /\ sent = << >>
  /\ noise < NoiseBits
  /\ noise' = noise + 1
  /\ line' \in {Mark, Space}
  /\ Receive
  /\ UNCHANGED <<txVars, sent, got>>

\* afsk_read(): the main program takes a byte.
afsk_read ==
  /\ rx_fifo # << >>
  /\ rx_fifo' = Tail(rx_fifo)
  /\ got' = Append(got, Head(rx_fifo))
  /\ UNCHANGED <<demod_bits, rxstart, currchar, bit_idx, overrun, txVars, line,
                 noise, sent>>

Sent == sent # << >> /\ todo = << >> /\ tx_bit = 0

Finished == Sent /\ rx_fifo = << >> /\ UNCHANGED vars

Next ==
  \/ Noise
  \/ \E fs \in Transmissions[noise] : afsk_txStart(fs)
  \/ Bit
  \/ afsk_read
  \/ Finished

Spec == Init /\ [][Next]_vars

-----------------------------------------------------------------------------
(* Properties.                                                             *)

\* What ax25_poll() makes of a byte: flags end a frame, an escape makes the next
\* byte data.
Take(acc, c) ==
  IF acc.escape \/ c \notin {FLAG, ESC}
  THEN [acc EXCEPT !.escape = FALSE, !.frame = Append(@, c)]
  ELSE IF c = ESC THEN [acc EXCEPT !.escape = TRUE]
  ELSE [acc EXCEPT !.frame = << >>,
                   !.frames = IF acc.frame = << >> THEN @ ELSE Append(@, acc.frame)]

\* The frames in a stream of bytes as ax25_poll() separates them, with what is left.
Deframe(s) ==
  LET upTo[n \in 0 .. Len(s)] ==
        IF n = 0 THEN [escape |-> FALSE, frame |-> << >>, frames |-> << >>]
        ELSE Take(upTo[n - 1], s[n])
  IN  upTo[Len(s)]

\* s is what t ends with.
IsSuffix(s, t) == Len(s) <= Len(t) /\ s = SubSeq(t, Len(t) - Len(s) + 1, Len(t))

\* Whatever state noise left the parser in, and whatever the bytes are (flags,
\* escapes, runs of ones across bytes), once a transmission is over its frames
\* are the last ones received, byte for byte, unless an overrun was reported:
\* stuffing and NRZ-S in afsk_dac_isr() and hdlc_parse() undo each other.
FramesArrive ==
  Sent /\ ~overrun => IsSuffix(sent, Deframe(got \o rx_fifo).frames)

Bytes == INSTANCE HdlcBytes WITH Bytes <- Byte

\* Every bit does one of three things to the receive FIFO or nothing: a flag,
\* an abort, or one whole byte of a frame, escaped if need be.
BytesSpec == Bytes!HdlcSpec
=============================================================================
