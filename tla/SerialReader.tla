---------------------------- MODULE SerialReader ----------------------------
(***************************************************************************)
(* One serial port, one receive FIFO and one line buffer                   *)
(* (TinyAPRS/reader.c) serve all modes: the console reads lines, KISS mode *)
(* reads frames (KissSerial), and the tracker reads the sentences of a GPS *)
(* receiver (Gps).  The main loop (main.c) polls the one of its mode.  A   *)
(* switch of the mode empties the FIFO or not, and clears the line buffer  *)
(* or not, while the other end goes on sending.                            *)
(*                                                                         *)
(* A console command that matters here is one character: the name of the   *)
(* mode that AT+MODE= asks for.                                            *)
(***************************************************************************)
EXTENDS SerialLine, Gps

CONSTANTS
  ConsoleLines,  \* lines a user may type
  Sentences,     \* lines a GPS receiver may send
  BootModes      \* what g_settings.run_mode may be when the station starts

ASSUME LinesAssumption ==
  /\ \A l \in ConsoleLines \cup Sentences :
       l \in Seq(Text \ {CR, NUL}) /\ Len(l) % LenMod > 0
  /\ CR \in Text
  /\ Text \cap {FEND, FESC, TFEND, TFESC} = {}   \* these are not ASCII
  /\ BootModes \subseteq Modes

VARIABLES
  mode,      \* currentMode
  run_mode,  \* g_settings.run_mode
  gps,       \* g_gps
  lines,     \* history: the lines handed over by serialreader_readline()
  fixes,     \* history: the locations given to the tracker, each with the number
             \* of its line in lines
  cut        \* history: "now", after a switch of the mode in the middle of the
             \* input or a frame in the wrong mode, up to the next end of a frame
             \* or of a line that is not within one; then "was"

modeVars == <<mode, run_mode, gps>>
readerHist == <<lines, fixes, cut>>
allVars == <<serialVars, modeVars, readerHist>>

ReaderInit ==
  /\ KissInit
  /\ mode = CFG
  /\ run_mode \in BootModes
  /\ gps = NoFix
  /\ lines = << >> /\ fixes = << >>
  /\ cut = "no"

-----------------------------------------------------------------------------
(* The other end of the line.                                              *)

\* A KISS host may begin before the grace period in config mode is over.
Host_Frame(f) ==
  /\ run_mode = KISS
  /\ HostFrame(f)
  /\ UNCHANGED <<modeVars, readerHist>>

\* So may a GPS receiver.
Host_Line(l) ==
  /\ mode # KISS
  /\ l \in IF run_mode = TRACKER THEN Sentences ELSE ConsoleLines
  /\ todo = << >> /\ Len(sent) < MaxFrames
  /\ sent' = Append(sent, l \o <<CR>>)
  /\ todo' = l \o <<CR>>
  /\ UNCHANGED <<portVars, kissVars, late, pauses, modeVars, readerHist>>

Receive == (USART_RX \/ Pause) /\ UNCHANGED <<modeVars, readerHist>>

\* A byte with a framing error is stored, whatever it is read as.  (It counts as
\* a pause, to bound the two together.)
USART_RX_Error ==
  /\ todo # << >>
  /\ pauses < MaxPauses
  /\ pauses' = pauses + 1
  /\ todo' = Tail(todo)
  /\ rxerror' = TRUE
  /\ rxfifo' = IF Len(rxfifo) = RxCapacity THEN rxfifo ELSE Append(rxfifo, "a")
  /\ UNCHANGED <<kissVars, late, sent, modeVars, readerHist>>

-----------------------------------------------------------------------------
(* serialreader_readline()                                                 *)

\* Mutant: the counter is not reset when a line is handed over.
Readline_Keep(c) ==
  LET n == IF c = CR THEN readLen ELSE (readLen + 1) % LenMod
      b == IF c = CR THEN buf ELSE [buf EXCEPT ![readLen] = c]
      done == n > 0 /\ (c = CR \/ n >= BufLen - 1)
  IN  [line |-> IF done THEN [i \in 1 .. n |-> b[i - 1]] ELSE << >>,
       buf |-> IF done THEN [b EXCEPT ![n] = NUL] ELSE b,
       readLen |-> n]

\* The line that the character c completes, or none; the buffer and the counter
\* afterwards.  A line is complete at its end, or when the buffer is full, which
\* a counter of eight bits never finds with the buffer of a build with KISS.
Readline(c) ==
  LET n == IF c = CR THEN readLen ELSE (readLen + 1) % LenMod
      b == IF c = CR THEN buf ELSE [buf EXCEPT ![readLen] = c]
      done == n > 0 /\ (c = CR \/ n >= BufLen - 1)
  IN  [line |-> IF done THEN [i \in 1 .. n |-> b[i - 1]] ELSE << >>,
       buf |-> IF done THEN [b EXCEPT ![n] = NUL] ELSE b,
       readLen |-> IF done THEN 0 ELSE n]

Resync(at) == IF at /\ cut = "now" THEN "was" ELSE cut

\* The character c ends a line, and is not one within a frame.
LineEnd(c) == c = CR /\ FEND \notin Range(Tail(rxfifo) \o todo)

\* What a poll of the console or the tracker does with the character c: up to
\* the line it hands over.
serialreader_readline(c) ==
  /\ ser_getchar(c)
  /\ LET r == Readline(c)
     IN  /\ buf' = r.buf
         /\ lines' = IF r.line = << >> THEN lines ELSE Append(lines, r.line)
  /\ UNCHANGED <<escaped, stored, handled, modem, config, late, sent, pauses>>

-----------------------------------------------------------------------------
(* Modes.                                                                  *)

\* tracker_init_gps() calls serialreader_reset(), which clears the counter and
\* the error; ser_purge() does neither.
ReadLen(m, len) == IF m = TRACKER THEN 0 ELSE len

Purged(m, fifo) == IF m = DIGI THEN fifo ELSE << >>

\* cmd_switch_mode() to another mode, with fifo in the FIFO and len in the
\* counter.  gps_init() takes most of a second and changes the baud rate: some of
\* what is sent in that time is lost.
Switch(m, fifo, len) ==
  /\ mode' = m /\ run_mode' = m
  /\ rxfifo' = Purged(m, fifo)
  /\ rxerror' = (rxerror /\ m # TRACKER)
  /\ readLen' = ReadLen(m, len)
  /\ gps' = IF m = TRACKER THEN NoFix ELSE gps
  /\ \E k \in 0 .. (IF m = TRACKER THEN Len(todo) ELSE 0) :
       todo' = SubSeq(todo, k + 1, Len(todo))
  /\ cut' = IF fifo # << >> \/ todo # << >> \/ len # 0 \/ rxerror THEN "now"
            ELSE cut
  /\ UNCHANGED fixes

\* The mode in a command, or in the payload of a configuration frame.
Requested(line) ==
  IF Len(line) = 1 /\ line[1] \in Modes THEN line[1] ELSE "none"

\* console_parse_command(): AT+MODE=m, for a mode it is not in.
Console_Switch ==
  /\ mode \in {CFG, DIGI}
  /\ \E c \in Byte :
       LET m == Requested(Readline(c).line)
       IN  /\ serialreader_readline(c)
           /\ m # "none" /\ (m # mode \/ m # run_mode)
           /\ Switch(m, Tail(rxfifo), Readline(c).readLen)

\* Any other line, or a character of a line.
Console_Poll ==
  /\ mode \in {CFG, DIGI}
  /\ \E c \in Byte :
       LET m == Requested(Readline(c).line)
       IN  /\ serialreader_readline(c)
           /\ m = "none" \/ (m = mode /\ m = run_mode)
           /\ readLen' = Readline(c).readLen
           /\ cut' = IF c = FEND THEN "now" ELSE Resync(LineEnd(c))
  /\ rxfifo' = Tail(rxfifo)
  /\ UNCHANGED <<rxerror, todo, modeVars, fixes>>

console_poll == Console_Switch \/ Console_Poll

\* In config mode ten seconds have passed since the station started.
check_run_mode ==
  /\ mode # run_mode
  /\ Switch(run_mode, rxfifo, readLen)
  /\ late' = (late \/ mode = CFG)
  /\ UNCHANGED <<buf, escaped, stored, handled, modem, config, sent, pauses, lines>>

\* kiss_poll(); a configuration frame may hold a run mode.
kiss_poll ==
  /\ mode = KISS
  /\ kiss_poll_serial
  /\ run_mode' = IF config' # config /\ Requested(Last(config')) # "none"
                 THEN Requested(Last(config')) ELSE run_mode
  /\ cut' = Resync(Head(rxfifo) = FEND)
  /\ UNCHANGED <<mode, gps, lines, fixes>>

\* tracker_poll(): a line is parsed and, with a fix, its location used at once
\* (Beacons), before the next character is read.
tracker_poll ==
  /\ mode = TRACKER
  /\ \E c \in Byte :
       LET line == Readline(c).line
           parsed == gps_parse(gps, line)
       IN  /\ serialreader_readline(c)
           /\ readLen' = Readline(c).readLen
           /\ cut' = Resync(LineEnd(c))
           /\ IF line = << >> THEN UNCHANGED <<gps, fixes>>
              ELSE /\ gps' = parsed.gps
                   /\ fixes' = IF parsed.fix /\ parsed.gps.valid
                               THEN Append(fixes, [line |-> Len(lines'),
                                      location |-> gps_get_location(parsed.gps, line)])
                               ELSE fixes
  /\ rxfifo' = Tail(rxfifo)
  /\ UNCHANGED <<rxerror, todo, mode, run_mode>>

Poll == console_poll \/ kiss_poll \/ tracker_poll

Rest == todo = << >> /\ Len(sent) = MaxFrames /\ UNCHANGED allVars

ReaderNext ==
  \/ \E f \in Frames : Host_Frame(f)
  \/ \E l \in ConsoleLines \cup Sentences : Host_Line(l)
  \/ Receive \/ USART_RX_Error
  \/ Poll \/ check_run_mode
  \/ Rest

ReaderSpec == ReaderInit /\ [][ReaderNext]_allVars

\* The main loop goes on, and so does the other end of the line.  (The first is
\* weak fairness of Poll: it can be taken whenever ser_getchar() has a byte.)
FairReaderSpec ==
  /\ ReaderSpec
  /\ []<>(rxfifo = << >> \/ rxerror) \/ []<><<Poll>>_allVars
  /\ WF_allVars(USART_RX /\ UNCHANGED <<modeVars, readerHist>>)

-----------------------------------------------------------------------------
(* Properties.                                                             *)

Frame(item) == Last(item) # CR

Typed == {SubSeq(item, 1, Len(item) - 1) : item \in {i \in Range(sent) : ~Frame(i)}}

\* A frame that kiss_handle_frame() gets is one the host has sent, byte for byte,
\* whatever bytes it contains, unless the host pauses within frames or the mode
\* was switched in the middle of the input and this is the first since.
FrameWhole ==
  [][handled' # handled =>
       Last(handled') \in Range(sent) \/ pauses > 0 \/ cut = "now"]_allVars

\* A line that the console or the tracker gets is one that was typed or sent by
\* the GPS receiver, as much of it as the counter can count.  Only the first
\* line after a switch of the mode in the middle of the input may have lost its
\* beginning or have bytes of a frame before it.
LineWhole ==
  [][lines' # lines =>
       (\E l \in Typed : Last(lines') = Counted(l)) \/ cut = "now"]_allVars

\* Every location that the tracker uses consists of the terms of one sentence
\* that the GPS receiver sent, although gps_parse() keeps pointers into a buffer
\* that all modes write to; and the altitude is from a sentence, too.  An input
\* that has lost bytes to an overflow of the FIFO yields none, because the error
\* stops it.
FixesTold ==
  \A i \in DOMAIN fixes :
    LET fix == fixes[i].location
        line == lines[fixes[i].line]
    IN  /\ line \in Sentences
        /\ \A t \in LocationTerms : fix.terms[t] = TextOf(line, t)
        /\ fix.altitude = << >> \/
             \E k \in 1 .. fixes[i].line - 1 :
               /\ lines[k] \in Sentences /\ lines[k][1] = "$GPGGA"
               /\ fix.altitude = TextOf(lines[k], GPGGA_TERM_ALTITUDE)

\* Every line and every frame reaches its reader in the end, unless the port has
\* an error, which only the way into tracker mode clears, or the input was cut
\* by a pause or a switch of the mode.
AllHandled ==
  \A n \in 1 .. MaxFrames :
    Len(sent) >= n ~> \/ Len(handled) + Len(lines) >= n
                      \/ rxerror \/ pauses > 0 \/ cut # "no"
=============================================================================
