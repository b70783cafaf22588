# TinyAPRS in TLA+

TinyAPRS is firmware for an AVR ATmega328P that turns an Arduino into an APRS
station: an AFSK1200 packet radio modem, an AX.25 link layer, and on top of it a
KISS TNC, a digipeater, a beacon and a GPS tracker. This directory holds TLA+
models of its parts, TLC configurations that check them on small instances, and
proofs that TLAPS checks for all instances. Paths below are relative to
`src/TinyAPRS/`.

## The system

One main loop and a few interrupts. The main loop (`TinyAPRS/main.c`) polls the
modem, the serial port and the module of the current mode, and blocks while a
frame is transmitted. The interrupts are the modem's sample interrupt, which
runs the demodulator and, while transmitting, the modulator; the UART; the
timer. Main loop and interrupts share byte FIFOs and a few flags, mostly without
locks. The settings are in EEPROM and survive a loss of power, which may come at
any time.

| Part | Source | Modelled by |
|---|---|---|
| Byte FIFO | `bertos/struct/fifobuf.h` | `FifoBuf`, abstract: `BoundedQueue` |
| Modem, transmit side | `bertos/net/afsk.c` | `AfskTx` (bytes), `HdlcLink` (bits) |
| Modem, receive side | `bertos/net/afsk.c` | `HdlcLink` (bits), `HdlcBytes` (bytes) |
| AX.25, receive | `bertos/net/ax25.c` | `Ax25Rx` |
| AX.25, send | `bertos/net/ax25.c` | `AfskTx` (order and escapes of the bytes) |
| KISS, serial side | `TinyAPRS/net/kiss.c`, `bertos/drv/ser.c`, `ser_mega.c` | `KissSerial`, with the other users of the port: `SerialLine`, `SerialReader` |
| KISS, channel access | `TinyAPRS/net/kiss.c` | `KissCsma` |
| Digipeater | `TinyAPRS/digi.c` | `Digi` |
| Settings | `TinyAPRS/settings.c` | `Settings` |
| Run modes, message callback | `TinyAPRS/main.c` | `Modes` |
| Line reader, and the main loop's polls that share it | `TinyAPRS/reader.c`, `main.c` | `SerialReader` |
| NMEA parser | `TinyAPRS/gps.c` | `Gps`, used by `SerialReader` |
| Console | `TinyAPRS/console.c` | its input: `SerialReader`; its commands that change state: `Settings`, `Modes`, `Beacons` |
| Beacon, tracker, fixes of the GPS | `TinyAPRS/beacon.c`, `tracker.c`, `gps.c` | `Beacons` |
| Serial driver, transmit side | `bertos/drv/ser.c`, `bertos/cpu/avr/drv/ser_mega.c` | `SerTx`, on `FifoBuf` |
| Software serial port, radio control, display, configuration tool, rest of BeRTOS | | not modelled, see below |

How they fit together: `FifoBuf` implements `BoundedQueue`; `SerTx` extends `FifoBuf`
by the driver on both its ends; and `AfskTx`, `HdlcBytes`, `KissSerial` use its FIFO
as a sequence with a capacity. `HdlcLink` implements the receive side `HdlcBytes`, and
`Ax25Rx` extends `HdlcBytes` by the main loop's reader. `KissCsma` needs only the
length of that FIFO. `SerialLine` extends `KissSerial` by what the modes have in
common, `SerialReader` extends that by the other modes that read the same port, and
`Gps` by the tracker that feeds it. The modules with an `MC_` prefix give constants
their values for TLC.

## The modules

**FifoBuf.** `head`, `tail`, `mem` are the fields of the C structure. The writer
and the reader are two contexts; each looks first (`SeeRoom`, `SeeByte`) and acts
later (`fifo_push`, `fifo_pop`), and the other may act any number of times in
between. A step is one access to a pointer that the other side reads; AVR
pointers are two bytes, and the firmware uses the `_locked` variants where that
matters.

**SerTx.** `ser_putchar()`, `ser_flush()` and `ser_purge()` in the main program, one
step for each access to what the interrupt shares, and the interrupt of the empty
data register between any two of them. Each action is a step of `FifoBuf` with
what it does to `hw->sending` (`sending`) and to the interrupt's enable bit
(`udrie`). `ser_flush()` reads the FIFO's pointers without a lock, so while the
interrupt is enabled they may seem equal when they are not.

**AfskTx.** `pc` is where the main program is in `afsk_write()`, `afsk_txStart()`
and `afsk_flush()`; the DAC interrupt, at the end of every byte, is one step that
may come between any two of its steps. `late` remembers whether the main
program, which copies bytes from memory, ever failed to write two bytes in the
6.7 ms that one takes on the air. The properties about what is heard assume that
it did not; the others hold at any speed. An ideal receiver (`heard`, `hearing`,
`synced`, `flags`) stands for the air.

**HdlcLink.** Both ends at bit level: `NewByte` and `SameByte` are
`afsk_dac_isr()` once per bit, `hdlc_parse` is the parser. Tones, filters and
clock recovery are left out; before a transmission the demodulator may decide on
any bits.

**HdlcBytes.** What the parser promises: each bit does nothing to the receive
FIFO, or stores a flag, or notes an abort, or stores a whole byte, with an escape
if it needs one, or reports an overrun.

**Ax25Rx.** `ax25_poll()` with the interrupt between any two of its steps; the
error is read (`Poll_Error`) and cleared (`Poll_Clear`) in steps of their own.
The checksum is ideal: right for the frames in `Valid` and for no others.

**KissSerial.** A host sends frames, the UART's interrupt stores the bytes or
notes an error, `kiss_poll_serial` takes one. `readLen` keeps its width: it counts
modulo `LenMod`, 256 in the code. On its own it is only run for `kiss_long`; everything
else about it is checked within `SerialReader`.

**SerialReader.** The same port, FIFO, line buffer and `readLen` in all modes:
`console_poll`, `kiss_poll` and `tracker_poll` each take one byte, `Switch` is what
`cmd_switch_mode()` does to them, called by a console command or by
`check_run_mode`. A switch empties the FIFO or not (`Purged`), and only the one to
tracker mode clears `readLen` and the error (`ReadLen`). A KISS host, a user and a GPS
receiver send while it happens. `cut` remembers that a switch came in the middle
of the input, until the next end of a frame, or of a line that is not within one. A
character is a model value;
a console command that switches is one of them.

**Gps.** `gps_parse()` as a fold of its loop body over the line, with the state, the
number of terms and the pointers that it keeps in `g_gps` from one sentence to the
next; a pointer is a place in the line. `gps_get_location()` is the strings it
reads through them. `TextOf` says independently what a term of a sentence is. One
bit stands for the checksum.

**KissCsma.** `kiss_send_to_modem()` with a step for each look at shared state.

**Digi.** Several digipeaters; a transmission is heard by any subset of the
others. The cache is the ring of the code, the clock is signed and wraps. `made` is
a history of when each hash was put in the cache: an entry is never removed, and
after a full period of the clock its age seems small again.

**Settings.** The EEPROM is a function from cells to bytes. An operation is the
sequence of its EEPROM calls, and a call is a set of bytes written one at a time
in any order; `PowerFails` may come between any two. Bytes keep a width
(`ByteMod`) so that the checksum can collide. A byte written behind the end of its
store may hit any other (`Target`); `Durable` shows that none is.

**Modes.** `currentMode`, `g_settings.run_mode`, `pass_through`, and the saved
mode. The clock counts modulo `ClockMod` with signed differences, as `ticks_t`.

**Beacons.** The seconds of the millisecond counter (`seconds`, read through `Clock`),
the time of day (`utc`) and a 16-bit difference of times of day (`Int16`), all
advanced by `Second`. `fixed` and `tracked` are the two static variables
`lastSendTimeSeconds`, and 0 means "never" in both, as in the code. A line of the
GPS is a fix or changes nothing. The speed computed from the distance of two
places is any that is not below the speeds told there. A beacon takes no time, and
its text is not empty. `hist` is a history variable: the true time since the
last beacon, against which the code's two clocks are judged.

## What is checked

| Run | Properties | States | What it shows |
|---|---|---|---|
| `ser_tx` | `NoStaleCheck`, `QueueSpec`, `UartNotForgotten`, `UartFlushed`, `UartDrains` | 2 088 | What one context has checked stays true until it acts; the ring buffer is a queue; the "racy code" of `uart0_enabletxirq()` never forgets a byte; a flush ends, and means that all is sent. |
| `afsk_tx` | `AirIsIntact`, `StopsAfterTrailer`, `NoLostWakeup`, `FlushMeansSent`, `PttReleased` | 106 554 | The race around `af->sending` is benign in every interleaving, the escape underrun included, and the PTT line never stays on. |
| `hdlc` | `FramesArrive`, `BytesSpec` | 330 731 | Stuffing and parser are inverse for every byte and for pairs with runs of ones across them, from any state noise leaves. |
| `ax25_rx` | `TypeOK`, `NoFrameTwice`, `Resynchronised`, `NoFalseReset` | 303 961 | No frame is delivered twice or joined from two; after an overrun two flags are enough. |
| `serial_reader` | `FrameWhole`, `LineWhole`, `NeverMixed`, `FixesTold`, `AllHandled` | 1 231 861 | Lines and frames arrive byte for byte in every mode, and are never mixed; only the first after a cut may lack its beginning. A location is made of the terms of one sentence. |
| `csma` | `SenseBeforeSend`, `DropJustified`, `PacketLeaves` | 1 260 | A transmission follows a look that found the channel idle; a packet is sent or dropped. |
| `digi` | `OncePerInterval`, `SuppressedForCause`, `HopsDecrease`, `RouteKept`, `FallsSilent` | 209 753 | One transmission per interval as far as cache and clock allow, and none suppressed without an earlier one; no loops. |
| `settings` | `TornDetected`, `NeverRejected`, `Durable`, `FirstWriteWhole` | 754 901 | What was saved is what is used, whatever power failures do to other stores. |
| `modes` | `NoNullMessage`, `ChoiceKept`, `Settles` | 71 382 | Mode and `pass_through` agree; the station settles in the mode of its settings. |
| `beacons` | `FixedInTime`, `FixedSpaced`, `TrackerSpaced`, `TrackerInTime` | 230 912 | Neither sender sends too often; both send in time until the counter wraps, but the tracker is silent for up to 5 h 47 min after midnight UTC. |

`TypeOK` of `ax25_rx` bounds the indices into the receive FIFO and the frame buffer.
The type invariants of `FifoBuf`, `SerTx`, `KissCsma`, `Ax25Rx` and `Beacons` are parts
of the inductive invariants of the proofs.

Two runs end with a violation. Each states what the repository says of the code:

* `kiss_long`: `kiss.c:96` "about to overflow buffer? reset". `readLen` has 8 bits,
  the buffer 330 bytes, so the check is never true and a frame of more than 255
  bytes overwrites its own beginning.
* `beacon_wrap`: `console.c:219` "Set beacon interval, 0 to disable". The clock's
  seconds become negative after 24.8 days. The last beacon before that was sent
  within one interval of the largest value the clock takes, so `beacon.c:79` never
  finds the interval over again: the beacon stops until the next reset.

Two comments the models contradict without a run of their own: `kiss.c:266` "If an
overflow or other error occurs, we'll back off and drop this packet silently"
(in `KissCsma`, `ax25_poll()` has just cleared the error, and the packet is normally
kept), and `settings.c:122` "if sum check failed, clear the setting data" (in
`Settings`, the EEPROM is cleared and `g_settings` keeps the rejected bytes: the
exception in `Durable`).

Smaller disagreements between comments and code, which no run is about:
`settings.h:74` says that `run_mode` "could be 0|1|2" and 3 is used;
`console.c` says that `AT+RESET=1` clears the settings and tests for `2`;
`settings.c:95` says that `settings_set_params_bytes()` saves to EEPROM and it does
not; `reader.h` documents an error value that is never returned; the last
character of a beacon text of full length is not sent (`beacon.c:45` reads into
127 bytes, the text may have 127 characters and needs a terminator).

### Bounds

* FIFO sizes of 3 or 4 in place of 32 and more: large enough for an escape and its
  byte, with and without room, and for both wrap-arounds.
* Two frames per transmission in `AfskTx`: the second meets every phase of the
  first one's end. Four kinds of frames hold every byte the code treats specially.
* Nine bits of noise: one more than `demod_bits` holds, so the transmission meets
  every content of the shift register and any alignment of the bit counter.
* `LenMod` = 6 and `BufLen` = 9 keep the order 256 < 328 of the code in `KissSerial`.
* `SerialReader`: three lines or frames of the other end, a FIFO of two bytes, and
  `LenMod` = 9 < `BufLen` = 12: a sentence fits, one console line is longer than the
  counter counts. One pause or framing error, at any byte. The sentences have a
  status or quality and one more term, and all have a fix.
* `Digi`: a cache of two and every sequence of four messages out of three, so that
  entries are found in either slot and driven out; one message with every path of
  `MC_Paths` heard by any digipeaters; a period of the clock of four seconds,
  repeated for ever.
* `Settings`: parameters of three bytes, the least for which a block torn in the
  middle can have the sum of the one it replaces; a text longer than its place.
* `Beacons`: no bound on time, since the clocks are cyclic. A day of 20 seconds, an
  `int16_t` of 14 values, a counter that wraps after 5 seconds and rates of 2 and 3
  keep the order of the real 86 400, 65 536, 2 147 483 and 45, 120 where the code
  depends on it: a rate is much shorter than half the word, the word is shorter
  than a day, and the difference of the two is longer than a rate. (The counter is
  shorter than a day, so that wrap and midnight meet in every order.)
* `Modes`: three commands or failures, and stored modes that are built, not built
  (4) and no digit (17).

### Fairness

The main loop and the interrupts are weakly fair: nothing else runs on the
processor, and no interrupt is masked for long. `KissCsma` assumes more, and says
so in `FairSpec`: the channel is idle infinitely often when it is looked at, the
receive FIFO is found empty in the end, and the random number is below the
persistence infinitely often, which fails for a persistence of zero. In `Modes`
the bound on events makes commands and failures end; `Settles` is about what
happens then. `SerTx` assumes that the data register gets empty and that the main
program goes on within `ser_putchar()` and `ser_flush()`, not that it calls them.
`Beacons` assumes (for `BeaconsForEver`, which fails nevertheless) strong fairness of
the beacon: the loop polls many times a second. `Digi` assumes nothing of the sources
and the clock. `SerialReader` assumes that the loop goes on polling while the port has
a byte for it, and that the other end finishes what it has begun to send.

Deadlock is checked in every run. Where a bound ends the behaviour the module has
a step `Finished` whose guard says that nothing is left to do.

## What is proved

The proofs are for every value of the constants under the `ASSUME`s of the modules.
Most only say that sizes are (positive) numbers and sets have the right elements.
Those of `Beacons` also fix the order of its rates, of half the range of an `int16_t`
and of a day, as the code's 45, 120, 32 768 and 86 400 have it; those of `HdlcBytes`
say that flag, reset and escape are three bytes. Five modules assume more, of what the
code is used with:

* `AfskTx`: the FIFO holds two bytes or more, since `ax25_putchar()` writes an escape
  and its byte together, and a frame has at least one byte.
* `HdlcLink`: there is a flag before the one that opens the first frame, since the
  first bit of a transmission, and with it the first flag, may be lost to the noise
  before it (`CONFIG_AFSK_PREAMBLE_LEN` makes 53 of them); and a frame has at least
  one byte, since all senders of `ax25.c` add a checksum.
* `Ax25Rx`: `AX25_MIN_FRAME_LEN` is positive; and the checksum is ideal, also for the
  two kinds of byte sequences that are no frames and yet reach it after an overrun: a
  beginning of a frame (`CrcAssumption`), and one that was cut, followed by a flag
  that was taken for its byte and the beginning of another (`SpliceAssumption`). A
  real CRC-16 lets one in 65 536 of them pass.
* `Digi`: in the path of a message on the air no used element comes behind one that
  can still be used (`TrafficAssumption`). `ax25_decode()` does not check it, and
  `digi_handle_aprs_message()` would overwrite such an element; it is what digipeaters
  that use a path from the front leave, and `CallsStay` rests on the proof that those
  of the model do.
* `SerialLine` and `SerialReader`: a host that means its frames for this station sends
  none that `readLen` cannot count (`kiss_long` is about the others); the buffer is
  longer than that, as it is in every build with KISS; a line is text, without the
  four special bytes of KISS, which are not ASCII, and without the bytes that end it;
  and its length is no multiple of 256, since such a line leaves `readLen` at 0 and is
  taken for an empty one.

* `DriverProofs`, of the FIFO: `ChecksStayValid` (`FifoSpec => []NoStaleCheck`) and
  `ImplementsQueue` (`FifoSpec => QueueSpec`). The inductive invariant is `TypeOK`
  with `NoStaleCheck`: what a side has seen bounds where the other's pointer can be.
  The refinement maps head and tail to the sequence of the bytes between them. They
  are about a reader and a writer either of which may be the interrupt.
* `DriverProofs`, of the port: `UsesFifo` shows that the driver takes only steps of
  `FifoBuf`, from which `UartIsAQueue` follows. `UartWakeupNeverLost` needs
  `UartSendingTrue` (which is proved with it), since `uart0_enabletxirq()` relies on
  `hw->sending`, and that the interrupt is off between its two statements, which is
  what their order is for. `UartFlushIsComplete` follows from the same invariant: the
  test of the pointers adds nothing to it, so it does not matter what it reads.
* `AfskTxProofs`: `WakeupNeverLost`, `SendingTellsTheTruth`, `FlushIsComplete`.
  `NoLostWakeup` needs `SendingIsKeyed`, since `afsk_txStart()` relies on
  `af->sending`; that in turn needs that the interrupt is not running while the main
  program is between its two assignments (`NotStartedTwice`). `FramesReachTheAir`
  (`Spec => []AirIsIntact`) and `WholeTrailer` (`Spec => StopsAfterTrailer`) rest on a
  second invariant, `AirInv`: there is a function `T` that gives each entry of the
  FIFO its place in the frames sent, all in order (`Stream`); the receiver has heard
  what is before the first place (`ReadUpTo`), and the main program has still to write
  what is behind the last (`WrittenUpTo`). `NoUnderrun` shows that an escape at the
  head of the FIFO has its byte behind it, and `EmptyMeansDone` that an empty FIFO at
  the end of a byte is the end of a transmission, both as long as the main program
  keeps up.
* `MainLoopProofs`, of the modes: `MessagesNeverNull` rests on `ModeAgrees`, which
  relates the mode and `pass_through` in every mode but the tracker's, which leaves
  `pass_through` alone. `ChoiceIsKept` is inductive as it stands.
* `MainLoopProofs`, of the channel access: `ChannelIsSensed` and `DropsAreJustified`.
  What the second look at the channel, the draw and the transmission each may assume
  of the one before it (`DrawAfterLook`, `TxAfterDraw`), and that an overrun which is
  still reported when the status is read came during this packet's wait
  (`OverrunIsOwn`).
* `Ax25RxProofs`: `BuffersSuffice`, `EscapesKeepTheirPlace`, `NoFrameRepeated` and
  `ResynchronisedAlways`. An escape and its byte are two entries of the FIFO, and an
  overrun can come between them or anywhere else. The invariant `StreamInv` says that
  there is a function `T` which gives each entry of the FIFO its place in the frames
  on the air: frame, index, and whether it is the escape before that byte. `Follows`
  is what two neighbours may be, with what an overrun leaves out; `Reader` relates the
  last place that was read to the buffer, `Writer` the last that was stored to the
  parser, and `Owed` the frames that are due to those that were delivered or are
  complete in the FIFO. The matching of delivered and sent frames is part of the
  invariant as a witness, so that each step extends it by one place and no induction
  over sequences is needed.
* `DriverProofs`, of the modem's parser: `BitsMakeBytes` (`Spec => BytesSpec`), for
  every size of the receive FIFO, any transmission and any amount of noise: each call
  of `hdlc_parse()` is one step of `HdlcBytes` or none. So what `Ax25Rx` adds to
  `HdlcBytes` is added to what the bit-by-bit parser does. The mapping is the identity
  on the FIFO, `rxstart` and the overrun status. `ParserInv` bounds the parser's
  registers, so that eight bits always make a byte, and the FIFO, so that a full FIFO
  at the escape or at the byte (`RoomIsNotFull`) is the lack of room for one entry or
  for two.
* `DriverProofs`, of both ends of the modem: `StuffingIsUndone` (`Spec =>
  []FramesArrive`), for frames of any number, length and content after any noise. An
  entry of the transmitter's FIFO has a place in the frames, and what is still to be
  sent `Leads` from the last place that is done to the final flag (`StreamPlaces`
  shows it of all that is sent). The invariant `LinkInv` says of some place `b` that
  the FIFO leads on from it and that the parser is there, too: `Between` and `Ready`
  give the last bits in `demod_bits`, as many ones as `stuff_cnt` counts or the part
  of a flag that is out; `Collected` gives `bit_idx` and `currchar` as the bits of the
  byte that `tx_bit` has passed; `At` gives the frames that `ax25_poll()` would make
  of all that was received. That a bit keeps it (`BitLink`) is three cases: a stuffed
  zero or a bit of data never completes a flag or an abort (`FiveOnes`, `DataBit`); a
  bit within a flag completes neither (`FirstOfFlag`, `MiddleOfFlag`), and the last
  makes one (`LastOfFlag`); of the first flag, before which there may be anything,
  only its last bits are known (`BluntMiddle`, `BluntEnd`), which is why the invariant
  claims nothing of the parser's bytes until the flag after it (`Synced`). `Deframe`
  is a recursive function over the received bytes; `DeframeAppend`, that one more byte
  is one more step of it, needs that the function exists (`RunsExist`).
* `DigiProofs`: `NotTwiceInInterval`, `DroppedForCause`, `CallsStay`, `HopsRunOut`.
  `Kept` says where in the ring the entry of a message sent less than `Interval`
  seconds ago is, counted back from `cacheIndex` by the entries made since; it gives
  the first. `Explained` says of each slot that it was never used, or when it was
  made, modulo the period of the clock; it gives the second. `RepeatedPath` shows that
  a rewritten path is again one of `Paths`, which gives the third for any number of
  hops. For the fourth, `FewerHops` compares the sums of the hops before and after it:
  the used alias asks for fewer, the rest for no more (`AsksLess`), also where an
  element is overwritten or put in.
* `MainLoopProofs`, of the beacons: `FixedKeepDistance`, `FixedIsDue`,
  `TrackerKeepsDistance`, `TrackerIsInTime`. The invariants (`FixedInv`, `TrackerInv`)
  relate the time stamp that the code keeps to the true age in `hist`: what the code
  subtracts is never more than the age (`NotAhead`), and less by one second at most
  unless the clock has wrapped (`NotBehind`; `DayTells` for the time of day). The rest
  is arithmetic of the remainders that `Clock` and `Int16` take, for every width.
* `SettingsProofs`: `TornIsDetected`, `CompleteIsAccepted`, `FirstIsWhole`, for stores
  of any length and with nothing assumed of `calc_crc()`. Every operation ends with
  one write that makes the others count (`FinalWrite`); a write of a save is done or
  still to come (`DoneInv`); the sum in the EEPROM is the one of the last complete
  save at all times (`SumInv`), and what is stored completely is there (`KnownInv`).
* `SettingsProofs`, of what is stored: `StoredIsUsed` (`Spec => []Durable`), by a
  second invariant on top of the first. `OpInv` says what the writes of the operation
  in progress amount to, done or still to come, and that nothing else is among them;
  `UseInv` relates each store that is known to what its reader returns. `TextRead`
  shows that the reader finds the end of a text at its terminator, `ReadOfWritten`
  that cutting a text when it is written and again when it is read is cutting it once,
  at the shorter length.

* `SerialReaderProofs`, with its lemmas in `SerialLineProofs`: `FramesNeverMixed`
  (`ReaderSpec => []NeverMixed`), `FramesWhole` and `LinesWhole`, for all lines and
  frames, all sizes, and any number of switches, pauses and errors. They follow from
  `ReaderInvariant`. Each byte in the FIFO or still to come has a place in what was
  sent: the item, the index, and whether it is the mark before or behind a frame, a
  byte, the first or second half of an escaped one, or a character of a line (`Wire`).
  `Read` says for each mode what the line buffer holds, relative to the place of the
  next byte: in KISS mode the end of what was sent of this frame so far (`KissMixed`),
  and all of it if it was read from its beginning (`KissExact`); otherwise the
  beginning of the line, as far as the counter counts (`LineExact`). A switch or a
  pause gives up the last two, and the end of an item gives them back.

Four of the proofs need induction over data: what `kiss_send()` makes of a frame
(`KissSendBegins`), the sums of hops (`SumsAgree`, `SumsBelow`), the transmitter's
stream (`JoinsExist`) and `Deframe`. The library's induction theorems cannot be
applied, since they take a predicate as a parameter; the proofs assume a
counterexample and take the least one, which exists by `WFMin`.

Only model-checked:

* all liveness (`UartDrains`, `PttReleased`, `AllHandled`, `PacketLeaves`,
  `FallsSilent`, `Settles`), which the proof system cannot prove under fairness;
* `FixesTold`, which is not true of every choice of `ConsoleLines` and `Sentences`: a
  typed line, or what a switch leaves of a sentence, may itself be a sentence with a
  right checksum, and the model's checksum has one bit. It is checked for lines none
  of which has such a remainder; a proof would have to assume just that.

## Not modelled

* The demodulator's filters and phase recovery, the floating point of GPS
  locations and distances, the encoding of addresses, `ax25_decode()` and the
  texts of console replies: data without control.
* The software serial port and radio control: timing by busy waiting, one command
  written. The display: output only, not built by default.
* The registry of console commands: filled once, before the main loop starts, and
  only read from then on.
* The configuration tool: a desktop program at the other end of the line, for which
  the host of `KissSerial` stands.
* Nearly all of BeRTOS. The repository contains the whole library, about 1000 files
  and 250 000 lines: drivers for other processors, a TCP/IP stack, file systems, GUI,
  fonts and code pages. The firmware links about a dozen of its files, and those
  with shared state or control (`fifobuf.h`, `afsk.c`, `ax25.c`, `ser.c`, `ser_mega.c`,
  `timer.h`) are modelled. The models therefore cover most of the firmware's control,
  but less than one per cent of the lines under `src/`; code that no build of the
  firmware contains has no behaviour here that could be checked.
* Bootloader, schematics and patches: no source code of the firmware.
