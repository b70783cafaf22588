------------------------- MODULE SerialReaderProofs -------------------------
(***************************************************************************)
(* Theorems about SerialReader, for all lines and frames, all capacities   *)
(* of the FIFO and sizes of the buffer, and any number of switches, pauses *)
(* and errors: KISS mode hands over whole frames, or ends of one (never a  *)
(* mixture of two), and the console and the tracker get whole lines, but   *)
(* for the first of either after a switch in the middle of the input.      *)
(*                                                                         *)
(* The invariant is Read of SerialLineProofs, of the bytes that are in the *)
(* FIFO and still to come.                                                 *)
(***************************************************************************)
EXTENDS SerialReader, SerialLineProofs

-----------------------------------------------------------------------------
(* The invariant.                                                            *)

\* What is still to be read.  An error of the port stops the reader, and only
\* together with a purge of the FIFO it is cleared.
UnreadOf(f, e, t) == IF e THEN t ELSE f \o t

Unread == UnreadOf(rxfifo, rxerror, todo)

SerialTypeOK ==
  /\ rxfifo \in Seq(Byte) /\ todo \in Seq(Byte)
  /\ rxerror \in BOOLEAN /\ escaped \in BOOLEAN
  /\ buf \in [0 .. BufLen - 1 -> Cell] /\ readLen \in 0 .. LenMod - 1
  /\ handled \in Seq(Seq(Cell)) /\ lines \in Seq(Seq(Cell))
  /\ pauses \in Nat
  /\ mode \in Modes /\ run_mode \in Modes
  /\ mode \in {TRACKER, DIGI} => run_mode = mode

ReaderInv ==
  Read(mode, cut, rxerror, pauses, sent, todo, Unread, handled, buf, readLen, escaped, late)

LEMMA ReadNothing ==
  ASSUME NEW b
  PROVE  Read(CFG, "no", FALSE, 0, << >>, << >>, << >>, << >>, b, 0, FALSE, FALSE)
<1>1. PICK K, T, at : /\ K = [k \in 1 .. 0 |-> "line"]
                      /\ T = [m \in 1 .. 0 |-> [k |-> 0, j |-> 0, h |-> "open"]]
                      /\ at = [i \in 1 .. 0 |-> 0]
  BY Zenon
<1>2. PICK e : e = << >>
  BY Zenon
<1>3. e \in Seq(Seq(Byte)) /\ e \in Seq(Byte) /\ Len(e) = 0 /\ \A i \in 1 .. 0 : FALSE
  BY <1>2
<1>4. ItemsOK(e, K)
  BY <1>1, <1>3, Zenon DEF ItemsOK
<1>5. Wire(e, K, e, T)
  <2>1. T \in [1 .. 0 -> Places]
    BY <1>1, <1>3, Zenon
  <2>2. \A i \in 1 .. 0 - 1 : FALSE
    OBVIOUS
  <2>3. Chain(e, K, e, T)
    BY <1>3, <2>1, <2>2, Zenon DEF Chain
  <2>4. QED
    BY <1>2, <1>3, <2>3, Zenon DEF Wire, Closed, Rising
<1>6. TodoLast(e, Len(e), Len(e), T)
  <2>1. 0 <= 0 /\ \A m \in 0 - 0 + 1 .. 0 : FALSE
    OBVIOUS
  <2>2. QED
    BY <1>3, <2>1, Zenon DEF TodoLast
<1>7. at \in [1 .. Len(e) -> 1 .. Len(e)]
  BY <1>1, <1>3, Zenon
<1>8. Traced(e, e, e, e, K, T, at)
  BY <1>3, <1>4, <1>5, <1>6, <1>7, Zenon DEF Traced, Given
<1>9. InMode(CFG, "no", FALSE, 0, e, K, e, T, Len(e), at, b, 0, FALSE, FALSE)
  <2>1. CFG # KISS /\ CFG # TRACKER
    BY DEF CFG, KISS, TRACKER
  <2>2. LineExact(e, K, e, T, b, 0)
    BY <1>2, Zenon DEF LineExact, Fresh
  <2>3. QED
    BY <2>1, <2>2, Zenon DEF InMode
<1>10. QED
  BY <1>2, <1>8, <1>9, Zenon DEF Read

LEMMA ReaderInitial ==
  ReaderInit => SerialTypeOK /\ ReaderInv
<1>1. SUFFICES ASSUME ReaderInit
               PROVE  SerialTypeOK /\ ReaderInv
  BY Zenon
<1>2. SerialTypeOK
  <2>1. << >> \in Seq(Byte) /\ << >> \in Seq(Seq(Cell)) /\ 0 \in Nat /\ 0 \in 0 .. LenMod - 1
    BY BufferAssumption
  <2>2. buf \in [0 .. BufLen - 1 -> Cell]
    BY <1>1, Zenon DEF ReaderInit, KissInit, Cell, NUL
  <2>3. run_mode \in Modes /\ CFG \in Modes /\ CFG \notin {TRACKER, DIGI}
    BY <1>1, LinesAssumption DEF ReaderInit, Modes, CFG, TRACKER, DIGI
  <2>4. QED
    BY <1>1, <2>1, <2>2, <2>3, Zenon DEF SerialTypeOK, ReaderInit, KissInit
<1>3. Unread = << >>
  <2>1. << >> \o << >> = << >>
    OBVIOUS
  <2>2. QED
    BY <1>1, <2>1, Zenon DEF Unread, UnreadOf, ReaderInit, KissInit
<1>4. Read(CFG, "no", FALSE, 0, << >>, << >>, << >>, << >>, buf, 0, FALSE, FALSE)
  BY ReadNothing, Zenon
<1>5. ReaderInv
  BY <1>1, <1>3, <1>4, Zenon DEF ReaderInv, ReaderInit, KissInit
<1>6. QED
  BY <1>2, <1>5, Zenon

-----------------------------------------------------------------------------
(* The other end, and the interrupt.                                         *)

LEMMA SendsFrame ==
  ASSUME NEW f \in Frames
  PROVE  Sends(f, "frame", kiss_send(f))
BY FramesAssumption, Zenon DEF Sends

LEMMA SendsLine ==
  ASSUME NEW l \in ConsoleLines \cup Sentences
  PROVE  Sends(l \o <<CR>>, "line", l \o <<CR>>)
<1>1. l \in Seq(Text \ {CR, NUL}) /\ CR \in Text
  BY LinesAssumption, Zenon
<1>2. PICK x : x = l \o <<CR>>
  BY Zenon
<1>3. /\ Len(x) = Len(l) + 1 /\ Len(l) \in Nat /\ x[Len(l) + 1] = CR
      /\ \A j \in 1 .. Len(l) : x[j] = l[j] /\ l[j] \in Text /\ l[j] # CR
  BY <1>1, <1>2
<1>4. \A j \in 1 .. Len(x) : j \in 1 .. Len(l) \/ j = Len(l) + 1
  BY <1>3
<1>5. Len(x) >= 1
  BY <1>3
<1>6. \A j \in 1 .. Len(x) : x[j] \in Text /\ (x[j] = CR => j = Len(x))
  BY <1>1, <1>3, <1>4, Zenon
<1>7. Text \subseteq Byte /\ \A c \in Text : c \in Byte /\ c \notin {FEND, FESC}
  BY LinesAssumption, Zenon DEF Byte
<1>8. x \in Seq(Byte)
  <2>1. l \in Seq(Byte) /\ <<CR>> \in Seq(Byte)
    BY <1>1, <1>7
  <2>2. QED
    BY <1>2, <2>1
<1>9. LineItem(x)
  BY <1>3, <1>5, <1>6, <1>7, Zenon DEF LineItem
<1>10. QED
  BY <1>2, <1>8, <1>9, Zenon DEF Sends

LEMMA SentBytes ==
  ASSUME NEW x, NEW kind, NEW w, Sends(x, kind, w)
  PROVE  w \in Seq(Byte)
<1>1. x \in Seq(Byte)
  BY Zenon DEF Sends
<1>2. kiss_send(x) \in Seq(Byte)
  <2>1. PICK F \in [0 .. Len(x) -> Seq(Byte)] : kiss_send(x) = F[Len(x)] \o <<FEND>>
    BY <1>1, KissSendBegins, Zenon
  <2>2. Len(x) \in 0 .. Len(x)
    BY <1>1
  <2>3. F[Len(x)] \in Seq(Byte) /\ FEND \in Byte
    BY <2>2, Zenon DEF Byte
  <2>4. F[Len(x)] \o <<FEND>> \in Seq(Byte)
    BY <2>3
  <2>5. QED
    BY <2>1, <2>4, Zenon
<1>3. QED
  BY <1>1, <1>2, Zenon DEF Sends

\* The steps of the serial port change nothing else.
SameReader ==
  UNCHANGED <<escaped, buf, readLen, handled, lines, mode, run_mode, cut>>

LEMMA ItemSent ==
  ASSUME SerialTypeOK, ReaderInv, todo = << >>, NEW x, NEW kind, Sends(x, kind, todo'),
         sent' = Append(sent, x), SameReader, UNCHANGED <<rxfifo, rxerror, late, pauses>>,
         kind = "frame" => mode # TRACKER, kind = "line" => mode # KISS
  PROVE  SerialTypeOK' /\ ReaderInv'
<1>1. PICK w : w = todo'
  BY Zenon
<1>2. w \in Seq(Byte) /\ Sends(x, kind, w)
  BY <1>1, SentBytes, Zenon
<1>3. SerialTypeOK'
  BY <1>1, <1>2, Zenon DEF SerialTypeOK, SameReader
<1>4. PICK f \in Seq(Byte) : f = rxfifo
  BY Zenon DEF SerialTypeOK
<1>5. Unread' = Unread \o w
  <2>1. /\ << >> \o w = w /\ f \o << >> = f
    BY <1>2
  <2>2. CASE rxerror
    BY <1>1, <2>1, <2>2, Zenon DEF Unread, UnreadOf
  <2>3. CASE ~rxerror
    BY <1>1, <1>4, <2>1, <2>3, Zenon DEF Unread, UnreadOf
  <2>4. QED
    BY <2>2, <2>3, Zenon
<1>6. Read(mode, cut, rxerror, pauses, Append(sent, x), w, Unread \o w, handled, buf, readLen, escaped, late)
  BY <1>2, ReadSends, Zenon DEF ReaderInv
<1>7. ReaderInv'
  BY <1>1, <1>5, <1>6, Zenon DEF ReaderInv, SameReader
<1>8. QED
  BY <1>3, <1>7, Zenon

LEMMA HostStep ==
  ASSUME SerialTypeOK, ReaderInv,
         \/ \E f \in Frames : Host_Frame(f)
         \/ \E l \in ConsoleLines \cup Sentences : Host_Line(l)
  PROVE  SerialTypeOK' /\ ReaderInv'
<1>1. CASE \E f \in Frames : Host_Frame(f)
  <2>1. PICK f \in Frames : Host_Frame(f)
    BY <1>1, Zenon
  <2>2. /\ todo = << >> /\ sent' = Append(sent, f) /\ todo' = kiss_send(f) /\ run_mode = KISS
        /\ SameReader /\ UNCHANGED <<rxfifo, rxerror, late, pauses>>
    BY <2>1, Zenon DEF Host_Frame, HostFrame, portVars, kissVars, modeVars, readerHist, SameReader
  <2>3. Sends(f, "frame", todo')
    BY <2>2, SendsFrame, Zenon
  <2>4. mode # TRACKER
    BY <2>2 DEF SerialTypeOK, KISS, TRACKER
  <2>5. QED
    BY <2>2, <2>3, <2>4, ItemSent
<1>2. CASE \E l \in ConsoleLines \cup Sentences : Host_Line(l)
  <2>1. PICK l \in ConsoleLines \cup Sentences : Host_Line(l)
    BY <1>2, Zenon
  <2>2. /\ todo = << >> /\ sent' = Append(sent, l \o <<CR>>) /\ todo' = l \o <<CR>> /\ mode # KISS
        /\ SameReader /\ UNCHANGED <<rxfifo, rxerror, late, pauses>>
    BY <2>1, Zenon DEF Host_Line, portVars, kissVars, modeVars, readerHist, SameReader
  <2>3. Sends(l \o <<CR>>, "line", todo')
    BY <2>2, SendsLine, Zenon
  <2>4. QED
    BY <2>2, <2>3, ItemSent, Zenon
<1>3. QED
  BY <1>1, <1>2

\* Bytes that are lost stop the reader.
LEMMA BytesLost ==
  ASSUME SerialTypeOK, ReaderInv, todo # << >>, todo' = Tail(todo), rxerror' = TRUE,
         rxfifo' \in Seq(Byte), SameReader, UNCHANGED <<sent, late>>, pauses' \in Nat
  PROVE  SerialTypeOK' /\ ReaderInv'
<1>1. PICK f, t, t2 : /\ f = rxfifo /\ t = todo /\ t2 = todo'
                      /\ f \in Seq(Byte) /\ t \in Seq(Byte)
  BY Zenon DEF SerialTypeOK
<1>2. /\ t2 \in Seq(Byte) /\ Len(t) \in Nat /\ Len(t2) \in Nat /\ Len(t2) <= Len(t)
      /\ t2 = SubSeq(t, 1 + 1, Len(t)) /\ 1 \in 0 .. Len(t) /\ Len(t2) <= Len(t2)
  <2>1. t # << >> /\ t2 = Tail(t)
    BY <1>1, Zenon
  <2>2. QED
    BY <1>1, <2>1
<1>3. SerialTypeOK'
  BY <1>1, <1>2, Zenon DEF SerialTypeOK, SameReader
<1>4. Suffix(t2, Unread)
  <2>1. CASE rxerror
    BY <1>1, <1>2, <2>1, SuffixAll, Zenon DEF Unread, UnreadOf
  <2>2. CASE ~rxerror
    BY <1>1, <1>2, <2>2, SuffixOf, Zenon DEF Unread, UnreadOf
  <2>3. QED
    BY <2>1, <2>2, Zenon
<1>5. PICK d \in 0 .. Len(Unread) : t2 = SubSeq(Unread, d + 1, Len(Unread))
  BY <1>4, Zenon DEF Suffix
<1>6. Read(mode, cut, rxerror, pauses, sent, t, Unread, handled, buf, readLen, escaped, late)
  BY <1>1, Zenon DEF ReaderInv
<1>7. Read(mode, cut, TRUE, pauses', sent, t2, t2, handled, buf, readLen, escaped, late)
  BY <1>2, <1>5, <1>6, ReadLoses, Zenon
<1>8. Unread' = t2
  BY <1>1, Zenon DEF Unread, UnreadOf
<1>9. ReaderInv'
  BY <1>1, <1>7, <1>8, Zenon DEF ReaderInv, SameReader
<1>10. QED
  BY <1>3, <1>9, Zenon

LEMMA ReceiveStep ==
  ASSUME SerialTypeOK, ReaderInv, Receive
  PROVE  SerialTypeOK' /\ ReaderInv'
<1>1. CASE Pause /\ UNCHANGED <<modeVars, readerHist>>
  <2>1. /\ pauses \in Nat /\ pauses' = pauses + 1 /\ late' = TRUE
        /\ UNCHANGED <<rxfifo, rxerror, sent, todo>> /\ SameReader
    BY <1>1, Zenon DEF SerialTypeOK, Pause, portVars, kissVars, modeVars, readerHist, SameReader
  <2>2. pauses' \in Nat
    BY <2>1
  <2>3. SerialTypeOK'
    BY <2>1, <2>2, Zenon DEF SerialTypeOK, SameReader
  <2>4. Read(mode, cut, rxerror, pauses + 1, sent, todo, Unread, handled, buf, readLen, escaped, TRUE)
    BY <2>1, ReadPauses, Zenon DEF ReaderInv
  <2>5. Unread' = Unread
    BY <2>1, Zenon DEF Unread
  <2>6. ReaderInv'
    BY <2>1, <2>4, <2>5, Zenon DEF ReaderInv, SameReader
  <2>7. QED
    BY <2>3, <2>6, Zenon
<1>2. CASE USART_RX /\ UNCHANGED <<modeVars, readerHist>>
  <2>1. /\ todo # << >> /\ todo' = Tail(todo) /\ UNCHANGED <<sent, late, pauses>> /\ SameReader
        /\ IF Len(rxfifo) = RxCapacity THEN rxerror' = TRUE /\ UNCHANGED rxfifo
           ELSE rxfifo' = Append(rxfifo, Head(todo)) /\ UNCHANGED rxerror
    BY <1>2, Zenon DEF USART_RX, kissVars, modeVars, readerHist, SameReader
  <2>2. PICK f, t, t2 : /\ f = rxfifo /\ t = todo /\ t2 = todo'
                        /\ f \in Seq(Byte) /\ t \in Seq(Byte)
    BY Zenon DEF SerialTypeOK
  <2>3. t # << >> /\ t2 = Tail(t)
    BY <2>1, <2>2, Zenon
  <2>4. /\ Append(f, Head(t)) \in Seq(Byte) /\ t2 \in Seq(Byte)
        /\ Append(f, Head(t)) \o t2 = f \o t
        /\ Len(t) \in Nat /\ Len(t2) \in Nat /\ Len(t2) <= Len(t)
    <3>1. /\ Append(f, Head(t)) \in Seq(Byte) /\ t2 \in Seq(Byte)
          /\ Len(t) \in Nat /\ Len(t2) \in Nat /\ Len(t2) <= Len(t)
      BY <2>2, <2>3
    <3>2. Append(f, Head(t)) \o t2 = f \o t
      BY <2>2, <2>3
    <3>3. QED
      BY <3>1, <3>2, Zenon
  <2>5. rxfifo' \in Seq(Byte) /\ pauses' \in Nat
    BY <2>1, <2>2, <2>4, Zenon DEF SerialTypeOK
  <2>6. CASE rxerror' = TRUE
    BY <2>1, <2>5, <2>6, BytesLost
  <2>7. CASE rxerror' # TRUE
    <3>1. rxfifo' = Append(f, Head(t)) /\ UNCHANGED rxerror /\ rxerror = FALSE
      BY <2>1, <2>2, <2>7, Zenon DEF SerialTypeOK
    <3>2. SerialTypeOK'
      BY <2>1, <2>2, <2>4, <2>5, <3>1, Zenon DEF SerialTypeOK, SameReader
    <3>3. Unread' = Unread
      BY <2>2, <2>4, <3>1, Zenon DEF Unread, UnreadOf
    <3>4. Read(mode, cut, rxerror, pauses, sent, t, Unread, handled, buf, readLen, escaped, late)
      BY <2>2, Zenon DEF ReaderInv
    <3>5. Read(mode, cut, rxerror, pauses, sent, t2, Unread, handled, buf, readLen, escaped, late)
      BY <2>4, <3>4, ReadArrives, Zenon
    <3>6. ReaderInv'
      BY <2>1, <2>2, <3>1, <3>3, <3>5, Zenon DEF ReaderInv, SameReader
    <3>7. QED
      BY <3>2, <3>6, Zenon
  <2>8. QED
    BY <2>6, <2>7, Zenon
<1>3. QED
  BY <1>1, <1>2, Zenon DEF Receive

LEMMA ErrorStep ==
  ASSUME SerialTypeOK, ReaderInv, USART_RX_Error
  PROVE  SerialTypeOK' /\ ReaderInv'
<1>1. /\ todo # << >> /\ todo' = Tail(todo) /\ UNCHANGED <<sent, late>> /\ SameReader
      /\ rxerror' = TRUE /\ pauses' = pauses + 1
      /\ rxfifo' = IF Len(rxfifo) = RxCapacity THEN rxfifo ELSE Append(rxfifo, "a")
  BY Zenon DEF USART_RX_Error, kissVars, modeVars, readerHist, SameReader
<1>2. rxfifo' \in Seq(Byte) /\ pauses' \in Nat
  <2>1. "a" \in Byte
    BY Zenon DEF Byte
  <2>2. rxfifo \in Seq(Byte) /\ pauses \in Nat
    BY Zenon DEF SerialTypeOK
  <2>3. Append(rxfifo, "a") \in Seq(Byte) /\ pauses + 1 \in Nat
    BY <2>1, <2>2
  <2>4. QED
    BY <1>1, <2>2, <2>3, Zenon
<1>3. QED
  BY <1>1, <1>2, BytesLost

-----------------------------------------------------------------------------
(* Polls.                                                                    *)

\* There is a byte c to read, and v behind it.
Polled(c, v) ==
  /\ rxfifo # << >> /\ rxerror = FALSE /\ c = Head(rxfifo) /\ c \in Byte
  /\ Tail(rxfifo) \in Seq(Byte) /\ v = Tail(rxfifo) \o todo
  /\ Unread # << >> /\ c = Head(Unread) /\ v = Tail(Unread)
  /\ Len(todo) \in Nat /\ Len(todo) <= Len(v)

LEMMA PollReads ==
  ASSUME SerialTypeOK, NEW c, ser_getchar(c), NEW v, v = Tail(rxfifo) \o todo
  PROVE  Polled(c, v)
<1>1. PICK f, t, u : /\ f = rxfifo /\ t = todo /\ f \in Seq(Byte) /\ t \in Seq(Byte)
                     /\ u = f \o t
  BY Zenon DEF SerialTypeOK
<1>2. /\ rxfifo # << >> /\ rxerror = FALSE /\ c = Head(rxfifo) /\ f # << >>
      /\ c = Head(f) /\ v = Tail(f) \o t
  BY <1>1, Zenon DEF ser_getchar, SerialTypeOK
<1>3. Unread = u
  BY <1>1, <1>2, Zenon DEF Unread, UnreadOf
<1>4. c \in Byte /\ Tail(f) \in Seq(Byte) /\ u # << >> /\ c = Head(u) /\ Len(t) \in Nat
  BY <1>1, <1>2
<1>5. v = Tail(u)
  BY <1>1, <1>2
<1>6. Len(t) <= Len(v)
  BY <1>1, <1>2, <1>4
<1>7. QED
  BY <1>1, <1>2, <1>3, <1>4, <1>5, <1>6, Zenon DEF Polled

LEMMA ReadlineBy ==
  ASSUME SerialTypeOK, NEW c \in Byte
  PROVE  ReadlineGives(buf, readLen, c, Readline(c))
<1>1. Readline(c) = ReadlineOf(buf, readLen, c)
  BY Zenon DEF Readline, ReadlineOf
<1>2. QED
  BY <1>1, ReadlineIs, Zenon DEF SerialTypeOK

LEMMA LinesType ==
  ASSUME SerialTypeOK, NEW r, r.line \in Seq(Cell),
         lines' = IF r.line = << >> THEN lines ELSE Append(lines, r.line)
  PROVE  lines' \in Seq(Seq(Cell))
<1>1. lines \in Seq(Seq(Cell))
  BY Zenon DEF SerialTypeOK
<1>2. Append(lines, r.line) \in Seq(Seq(Cell))
  BY <1>1
<1>3. QED
  BY <1>1, <1>2, Zenon

LEMMA LinePoll ==
  ASSUME SerialTypeOK, ReaderInv, mode # KISS, NEW c \in Byte, serialreader_readline(c),
         readLen' = Readline(c).readLen, rxfifo' = Tail(rxfifo),
         UNCHANGED <<rxerror, todo, mode, run_mode>>,
         CutLine(mode, cut, c, Tail(rxfifo) \o todo, cut')
  PROVE  SerialTypeOK' /\ ReaderInv'
<1>1. PICK v, r : v = Tail(rxfifo) \o todo /\ r = Readline(c)
  BY Zenon
<1>2. /\ ser_getchar(c) /\ buf' = r.buf /\ UNCHANGED <<escaped, handled, late, sent, pauses>>
      /\ lines' = IF r.line = << >> THEN lines ELSE Append(lines, r.line)
  BY <1>1, Zenon DEF serialreader_readline
<1>3. Polled(c, v)
  BY <1>1, <1>2, PollReads, Zenon
<1>4. ReadlineGives(buf, readLen, c, r)
  BY <1>1, ReadlineBy, Zenon
<1>5. /\ r.buf \in [0 .. BufLen - 1 -> Cell] /\ r.readLen \in 0 .. LenMod - 1
      /\ r.line \in Seq(Cell)
  BY <1>4, Zenon DEF ReadlineGives
<1>6. lines' \in Seq(Seq(Cell))
  BY <1>2, <1>5, LinesType, Zenon
<1>7. rxfifo' \in Seq(Byte) /\ Unread' = v
  BY <1>1, <1>3, Zenon DEF Polled, Unread, UnreadOf
<1>8. SerialTypeOK'
  BY <1>1, <1>2, <1>5, <1>6, <1>7, Zenon DEF SerialTypeOK
<1>9. /\ Unread # << >> /\ v = Tail(Unread) /\ Len(todo) \in Nat /\ Len(todo) <= Len(v)
      /\ c = Head(Unread) /\ rxerror = FALSE
  BY <1>3, Zenon DEF Polled
<1>10. Read(mode, cut, FALSE, pauses, sent, todo, Unread, handled, buf, readLen, escaped, late)
  BY <1>9, Zenon DEF ReaderInv
<1>11. CutLine(mode, cut, c, v, cut')
  BY <1>1, Zenon
<1>12. Read(mode, cut', FALSE, pauses, sent, todo, v, handled, r.buf, r.readLen, escaped, late)
  BY <1>4, <1>9, <1>10, <1>11, ReadsLine, Zenon
<1>13. ReaderInv'
  BY <1>1, <1>2, <1>7, <1>9, <1>12, Zenon DEF ReaderInv
<1>14. QED
  BY <1>8, <1>13, Zenon

LEMMA ConsolePollStep ==
  ASSUME SerialTypeOK, ReaderInv, Console_Poll
  PROVE  SerialTypeOK' /\ ReaderInv'
<1>1. PICK c \in Byte : /\ serialreader_readline(c) /\ readLen' = Readline(c).readLen
                        /\ cut' = IF c = FEND THEN "now" ELSE Resync(LineEnd(c))
  BY Zenon DEF Console_Poll
<1>2. rxfifo' = Tail(rxfifo) /\ UNCHANGED <<rxerror, todo, mode, run_mode>>
  BY Zenon DEF Console_Poll, modeVars
<1>3. mode # KISS
  BY DEF Console_Poll, CFG, DIGI, KISS
<1>4. CutLine(mode, cut, c, Tail(rxfifo) \o todo, cut')
  BY <1>1, Zenon DEF CutLine, Resync, LineEnd
<1>5. QED
  BY <1>1, <1>2, <1>3, <1>4, LinePoll

LEMMA TrackerPollStep ==
  ASSUME SerialTypeOK, ReaderInv, tracker_poll
  PROVE  SerialTypeOK' /\ ReaderInv'
<1>1. PICK c \in Byte : /\ serialreader_readline(c) /\ readLen' = Readline(c).readLen
                        /\ cut' = Resync(LineEnd(c))
  BY Zenon DEF tracker_poll
<1>2. rxfifo' = Tail(rxfifo) /\ UNCHANGED <<rxerror, todo, mode, run_mode>>
  BY Zenon DEF tracker_poll
<1>3. mode # KISS
  BY DEF tracker_poll, TRACKER, KISS
<1>4. mode = TRACKER
  BY Zenon DEF tracker_poll
<1>5. CutLine(mode, cut, c, Tail(rxfifo) \o todo, cut')
  BY <1>1, <1>4, Zenon DEF CutLine, Resync, LineEnd
<1>6. QED
  BY <1>1, <1>2, <1>3, <1>5, LinePoll

LEMMA SentType ==
  ASSUME ReaderInv
  PROVE  sent \in Seq(Seq(Byte))
BY Zenon DEF ReaderInv, Read, Traced, ItemsOK

LEMMA LineTyped ==
  ASSUME SerialTypeOK, ReaderInv, mode # KISS, NEW c \in Byte, serialreader_readline(c),
         lines' # lines, cut # "now"
  PROVE  \E l \in Typed : Last(lines') = Counted(l)
<1>1. PICK v, r : v = Tail(rxfifo) \o todo /\ r = Readline(c)
  BY Zenon
<1>2. ser_getchar(c) /\ lines' = Append(lines, r.line) /\ r.line # << >>
  BY <1>1, Zenon DEF serialreader_readline
<1>3. Polled(c, v)
  BY <1>1, <1>2, PollReads, Zenon
<1>4. ReadlineGives(buf, readLen, c, r)
  BY <1>1, ReadlineBy, Zenon
<1>5. Unread # << >> /\ c = Head(Unread) /\ rxerror = FALSE
  BY <1>3, Zenon DEF Polled
<1>6. Read(mode, cut, FALSE, pauses, sent, todo, Unread, handled, buf, readLen, escaped, late)
  BY <1>5, Zenon DEF ReaderInv
<1>7. WholeLine(sent, r.line)
  BY <1>2, <1>4, <1>5, <1>6, LineIsWhole, Zenon
<1>8. PICK k \in 1 .. Len(sent) :
        Last(sent[k]) = CR /\ r.line = Counted(SubSeq(sent[k], 1, Len(sent[k]) - 1))
  BY <1>7, Zenon DEF WholeLine
<1>9. sent[k] \in Range(sent)
  <2>1. DOMAIN sent = 1 .. Len(sent)
    BY SentType
  <2>2. QED
    BY <2>1, Zenon DEF Range
<1>10. SubSeq(sent[k], 1, Len(sent[k]) - 1) \in Typed
  BY <1>8, <1>9, Zenon DEF Typed, Frame
<1>11. Last(lines') = r.line
  <2>1. lines \in Seq(Seq(Cell)) /\ r.line \in Seq(Cell)
    BY <1>4, Zenon DEF SerialTypeOK, ReadlineGives
  <2>2. PICK l2 : l2 = Append(lines, r.line)
    BY Zenon
  <2>3. l2[Len(l2)] = r.line
    BY <2>1, <2>2
  <2>4. QED
    BY <1>2, <2>2, <2>3, Zenon DEF Last
<1>12. QED
  BY <1>8, <1>10, <1>11, Zenon

-----------------------------------------------------------------------------
(* Switches of the mode.                                                     *)

\* What a switch leaves to be read.
Left(m, f, e, t, g, v, t2) ==
  /\ Suffix(v, UnreadOf(f, e, t)) /\ v \in Seq(Byte) /\ t2 \in Seq(Byte)
  /\ Len(t) \in Nat /\ Len(t2) \in Nat /\ Len(t2) <= Len(t) /\ Len(t2) <= Len(v)
  /\ m = KISS => Len(t2) = Len(v)
  /\ g = << >> /\ t = << >> /\ ~e => v = << >>

LEMMA SwitchLeaves ==
  ASSUME NEW f \in Seq(Byte), NEW t \in Seq(Byte), NEW e \in BOOLEAN, NEW m \in Modes,
         NEW g, g = f \/ (g = Tail(f) /\ f # << >> /\ e = FALSE),
         NEW k, k \in 0 .. (IF m = TRACKER THEN Len(t) ELSE 0),
         NEW t2, t2 = SubSeq(t, k + 1, Len(t)), NEW v, v = UnreadOf(Purged(m, g), e /\ m # TRACKER, t2)
  PROVE  Left(m, f, e, t, g, v, t2)
<1>1. k \in 0 .. Len(t) /\ Len(t) \in Nat
  <2>1. CASE m = TRACKER
    BY <2>1
  <2>2. CASE m # TRACKER
    BY <2>2
  <2>3. QED
    BY <2>1, <2>2, Zenon
<1>2. t2 \in Seq(Byte) /\ Len(t2) \in Nat /\ Len(t2) <= Len(t) /\ Len(t2) <= Len(t2)
      /\ << >> \o t2 = t2
  BY <1>1
<1>3. Suffix(t2, UnreadOf(f, e, t))
  <2>1. CASE e
    BY <1>1, <2>1, SuffixAll, Zenon DEF UnreadOf
  <2>2. CASE ~e
    BY <1>1, <2>2, SuffixOf, Zenon DEF UnreadOf
  <2>3. QED
    BY <2>1, <2>2, Zenon
<1>4. CASE v = t2
  <2>1. t = << >> => t2 = << >>
    BY <1>1
  <2>2. QED
    BY <1>1, <1>2, <1>3, <1>4, <2>1, Zenon DEF Left
<1>5. CASE v # t2
  <2>1. m = DIGI /\ ~e /\ v = g \o t2
    <3>1. DIGI # TRACKER
      BY Zenon DEF DIGI, TRACKER
    <3>2. QED
      BY <1>2, <1>5, <3>1, Zenon DEF UnreadOf, Purged
  <2>2. m # TRACKER /\ m # KISS
    BY <2>1 DEF DIGI, TRACKER, KISS
  <2>3. k = 0
    BY <2>2
  <2>4. t2 = t
    BY <2>3
  <2>5. UnreadOf(f, e, t) = f \o t
    BY <2>1, Zenon DEF UnreadOf
  <2>6. PICK u : u = f \o t
    BY Zenon
  <2>7. u \in Seq(Byte)
    BY <2>6
  <2>8. g \in Seq(Byte) /\ Suffix(v, u)
    <3>1. CASE g = f
      <4>1. v = SubSeq(u, 0 + 1, Len(u)) /\ 0 \in 0 .. Len(u)
        <5>1. v = u
          BY <2>1, <2>4, <2>6, <3>1, Zenon
        <5>2. QED
          BY <2>7, <5>1
      <4>2. QED
        BY <3>1, <4>1, <2>7, SuffixAll, Zenon
    <3>2. CASE g = Tail(f) /\ f # << >>
      <4>1. g \in Seq(Byte)
        BY <3>2
      <4>2. QED
        BY <2>1, <2>4, <2>6, <3>2, <4>1, SuffixTail, Zenon
    <3>3. QED
      BY <3>1, <3>2, Zenon
  <2>9. v \in Seq(Byte) /\ Len(t2) <= Len(v) /\ (g = << >> /\ t = << >> => v = << >>)
    BY <1>2, <2>1, <2>4, <2>8, JoinFacts, Zenon
  <2>10. QED
    BY <1>1, <1>2, <2>2, <2>5, <2>6, <2>8, <2>9, Zenon DEF Left
<1>6. QED
  BY <1>4, <1>5, Zenon

LEMMA SwitchStep ==
  ASSUME SerialTypeOK, ReaderInv, NEW m \in Modes, NEW g,
         g = rxfifo \/ (g = Tail(rxfifo) /\ rxfifo # << >> /\ rxerror = FALSE),
         NEW len \in 0 .. LenMod - 1, Switch(m, g, len),
         UNCHANGED <<escaped, handled, sent, pauses>>,
         buf' \in [0 .. BufLen - 1 -> Cell], lines' \in Seq(Seq(Cell)),
         m = KISS => len = 0 \/ late' = TRUE
  PROVE  SerialTypeOK' /\ ReaderInv'
<1>1. PICK f, e, t, t2 : /\ f = rxfifo /\ e = rxerror /\ t = todo /\ t2 = todo'
                         /\ f \in Seq(Byte) /\ t \in Seq(Byte) /\ e \in BOOLEAN
  BY Zenon DEF SerialTypeOK
<1>2. /\ mode' = m /\ run_mode' = m /\ rxfifo' = Purged(m, g) /\ rxerror' = (e /\ m # TRACKER)
      /\ readLen' = ReadLen(m, len)
      /\ cut' = IF g # << >> \/ t # << >> \/ len # 0 \/ e THEN "now" ELSE cut
  BY <1>1, Zenon DEF Switch
<1>3. PICK k \in 0 .. (IF m = TRACKER THEN Len(t) ELSE 0) : t2 = SubSeq(t, k + 1, Len(t))
  BY <1>1, Zenon DEF Switch
<1>4. PICK v : v = UnreadOf(Purged(m, g), e /\ m # TRACKER, t2)
  BY Zenon
<1>5. Unread' = v
  BY <1>1, <1>2, <1>4, Zenon DEF Unread
<1>6. Left(m, f, e, t, g, v, t2)
  <2>1. g = f \/ (g = Tail(f) /\ f # << >> /\ e = FALSE)
    BY <1>1, Zenon
  <2>2. QED
    BY <1>1, <1>3, <1>4, <2>1, SwitchLeaves, Zenon
<1>7. g \in Seq(Byte)
  <2>1. f # << >> => Tail(f) \in Seq(Byte)
    BY <1>1
  <2>2. QED
    BY <1>1, <2>1, Zenon
<1>8. rxfifo' \in Seq(Byte)
  <2>1. << >> \in Seq(Byte)
    OBVIOUS
  <2>2. QED
    BY <1>2, <1>7, <2>1, Zenon DEF Purged
<1>9. readLen' \in 0 .. LenMod - 1 /\ rxerror' \in BOOLEAN
  <2>1. 0 \in 0 .. LenMod - 1
    BY BufferAssumption
  <2>2. readLen' \in 0 .. LenMod - 1
    BY <1>2, <2>1, Zenon DEF ReadLen
  <2>3. QED
    BY <1>2, <2>2, Zenon
<1>10. SerialTypeOK'
  BY <1>1, <1>2, <1>6, <1>8, <1>9, Zenon DEF SerialTypeOK, Left
<1>11. PICK u : u = Unread
  BY Zenon
<1>12. u = UnreadOf(f, e, t)
  BY <1>1, <1>11, Zenon DEF Unread
<1>13. Read(mode, cut, rxerror, pauses, sent, t, u, handled, buf, readLen, escaped, late)
  BY <1>1, <1>11, Zenon DEF ReaderInv
<1>14. m = KISS => Len(t2) = Len(v) /\ (readLen' = 0 \/ late' = TRUE)
  <2>1. KISS # TRACKER
    BY DEF KISS, TRACKER
  <2>2. QED
    BY <1>2, <1>6, <2>1, Zenon DEF Left, ReadLen
<1>15. cut' # "now" => v = << >> /\ readLen' = 0
  BY <1>2, <1>6, Zenon DEF ReadLen, Left
<1>16. PICK c2, e2, b2, n2, l2 :
         c2 = cut' /\ e2 = rxerror' /\ b2 = buf' /\ n2 = readLen' /\ l2 = late'
  BY Zenon
<1>17. Read(m, c2, e2, pauses, sent, t2, v, handled, b2, n2, escaped, l2)
  <2>1. SwitchTo(m, c2, t, u, t2, v, n2, l2)
    BY <1>6, <1>12, <1>14, <1>15, <1>16, Zenon DEF SwitchTo, Left, Suffix
  <2>2. QED
    BY <1>13, <2>1, ReadSwitches, Zenon
<1>18. ReaderInv'
  BY <1>1, <1>2, <1>5, <1>16, <1>17, Zenon DEF ReaderInv
<1>19. QED
  BY <1>10, <1>18, Zenon

LEMMA CheckRunModeStep ==
  ASSUME SerialTypeOK, ReaderInv, check_run_mode
  PROVE  SerialTypeOK' /\ ReaderInv'
<1>1. /\ mode # run_mode /\ Switch(run_mode, rxfifo, readLen) /\ late' = (late \/ mode = CFG)
      /\ UNCHANGED <<escaped, handled, sent, pauses, buf, lines>>
  BY Zenon DEF check_run_mode
<1>2. run_mode \in Modes /\ readLen \in 0 .. LenMod - 1
      /\ buf' \in [0 .. BufLen - 1 -> Cell] /\ lines' \in Seq(Seq(Cell))
  BY <1>1, Zenon DEF SerialTypeOK
<1>3. run_mode = KISS => late' = TRUE
  <2>1. run_mode = KISS => mode = CFG
    BY <1>1, Zenon DEF SerialTypeOK, Modes
  <2>2. QED
    BY <1>1, <2>1, Zenon
<1>4. UNCHANGED <<escaped, handled, sent, pauses>>
  BY <1>1, Zenon
<1>5. QED
  BY <1>1, <1>2, <1>3, <1>4, SwitchStep, Zenon

LEMMA RequestedMode ==
  ASSUME NEW line, Requested(line) # "none"
  PROVE  Requested(line) \in Modes /\ line # << >>
<1>1. Requested(line) \in Modes /\ Len(line) = 1
  BY Zenon DEF Requested
<1>2. Len(<< >>) # 1
  OBVIOUS
<1>3. QED
  BY <1>1, <1>2, Zenon

LEMMA ConsoleSwitchStep ==
  ASSUME SerialTypeOK, ReaderInv, Console_Switch
  PROVE  SerialTypeOK' /\ ReaderInv'
<1>1. PICK c \in Byte :
        /\ serialreader_readline(c) /\ Requested(Readline(c).line) # "none"
        /\ Switch(Requested(Readline(c).line), Tail(rxfifo), Readline(c).readLen)
  BY Zenon DEF Console_Switch
<1>2. PICK r, m : r = Readline(c) /\ m = Requested(r.line)
  BY Zenon
<1>3. m \in Modes /\ r.line # << >>
  BY <1>1, <1>2, RequestedMode, Zenon
<1>4. ReadlineGives(buf, readLen, c, r)
  BY <1>2, ReadlineBy, Zenon
<1>5. /\ r.buf \in [0 .. BufLen - 1 -> Cell] /\ r.readLen \in 0 .. LenMod - 1
      /\ r.line \in Seq(Cell) /\ r.readLen = 0
  BY <1>3, <1>4, Zenon DEF ReadlineGives
<1>6. /\ ser_getchar(c) /\ buf' = r.buf /\ UNCHANGED <<escaped, handled, sent, pauses>>
      /\ lines' = IF r.line = << >> THEN lines ELSE Append(lines, r.line)
  BY <1>1, <1>2, Zenon DEF serialreader_readline
<1>7. rxfifo # << >> /\ rxerror = FALSE
  BY <1>6, Zenon DEF ser_getchar, SerialTypeOK
<1>8. lines' \in Seq(Seq(Cell)) /\ buf' \in [0 .. BufLen - 1 -> Cell]
  BY <1>5, <1>6, LinesType, Zenon
<1>9. Switch(m, Tail(rxfifo), r.readLen)
  BY <1>1, <1>2, Zenon
<1>10. PICK n, g : n = r.readLen /\ g = Tail(rxfifo)
  BY Zenon
<1>11. /\ n \in 0 .. LenMod - 1 /\ Switch(m, g, n) /\ (m = KISS => n = 0 \/ late' = TRUE)
       /\ g = rxfifo \/ (g = Tail(rxfifo) /\ rxfifo # << >> /\ rxerror = FALSE)
       /\ UNCHANGED <<escaped, handled, sent, pauses>>
  BY <1>5, <1>6, <1>7, <1>9, <1>10, Zenon
<1>12. QED
  BY <1>3, <1>8, <1>11, SwitchStep, Zenon

-----------------------------------------------------------------------------
(* KISS mode.                                                                *)

\* What kiss_poll_serial() leaves alone, and takes.
KissTakes(c) ==
  /\ ser_getchar(c) /\ rxfifo' = Tail(rxfifo)
  /\ UNCHANGED <<rxerror, sent, todo, pauses, lines>>
  /\ mode = KISS /\ mode' = KISS /\ run_mode' \in Modes
  /\ cut' = Resync(Head(rxfifo) = FEND)

KissTypes ==
  /\ buf' \in [0 .. BufLen - 1 -> Cell] /\ readLen' \in 0 .. LenMod - 1
  /\ escaped' \in BOOLEAN /\ handled' \in Seq(Seq(Cell))

KissReady(c, v, n) ==
  /\ Polled(c, v) /\ n = SaneLen /\ n = SaneOf(readLen, late) /\ n \in 0 .. LenMod - 1
  /\ Read(KISS, cut, FALSE, pauses, sent, todo, Unread, handled, buf, readLen, escaped, late)

LEMMA KissBegins ==
  ASSUME SerialTypeOK, ReaderInv, NEW c, KissTakes(c)
  PROVE  KissReady(c, Tail(rxfifo) \o todo, SaneLen)
<1>1. Polled(c, Tail(rxfifo) \o todo)
  BY PollReads, Zenon DEF KissTakes
<1>2. rxerror = FALSE /\ mode = KISS
  BY <1>1, Zenon DEF Polled, KissTakes
<1>3. Read(KISS, cut, FALSE, pauses, sent, todo, Unread, handled, buf, readLen, escaped, late)
  BY <1>2, Zenon DEF ReaderInv
<1>4. SaneLen = SaneOf(readLen, late)
  BY Zenon DEF SaneLen, SaneOf
<1>5. SaneLen \in 0 .. LenMod - 1
  BY <1>4, SaneOfSane, Zenon DEF SerialTypeOK
<1>6. QED
  BY <1>1, <1>3, <1>4, <1>5, Zenon DEF KissReady

\* What is left to show of a poll.
LEMMA KissEnds ==
  ASSUME SerialTypeOK, NEW c, KissTakes(c), KissTypes, NEW v, v = Tail(rxfifo) \o todo,
         Polled(c, v),
         Read(KISS, cut', FALSE, pauses, sent, todo, v, handled', buf', readLen', escaped', late')
  PROVE  SerialTypeOK' /\ ReaderInv'
<1>1. Unread' = v /\ rxerror' = FALSE /\ rxfifo' \in Seq(Byte) /\ mode' = KISS
  BY Zenon DEF KissTakes, Polled, Unread, UnreadOf
<1>2. mode' \in Modes /\ mode' \notin {TRACKER, DIGI}
  BY <1>1 DEF KISS, TRACKER, DIGI, Modes
<1>3. SerialTypeOK'
  BY <1>1, <1>2, Zenon DEF SerialTypeOK, KissTakes, KissTypes
<1>4. ReaderInv'
  BY <1>1, Zenon DEF ReaderInv, KissTakes
<1>5. QED
  BY <1>3, <1>4, Zenon

LEMMA KissEndStep ==
  ASSUME SerialTypeOK, ReaderInv, NEW c, KissTakes(c), c = FEND, Frame_End(SaneLen)
  PROVE  SerialTypeOK' /\ ReaderInv'
<1>1. PICK v, n : v = Tail(rxfifo) \o todo /\ n = SaneLen
  BY Zenon
<1>2. KissReady(c, v, n)
  BY <1>1, KissBegins, Zenon
<1>3. /\ Unread # << >> /\ v = Tail(Unread) /\ Len(todo) \in Nat /\ Len(todo) <= Len(v)
      /\ Head(Unread) = FEND /\ n = SaneOf(readLen, late) /\ n \in 0 .. LenMod - 1
      /\ Read(KISS, cut, FALSE, pauses, sent, todo, Unread, handled, buf, readLen, escaped, late)
  BY <1>2, Zenon DEF KissReady, Polled
<1>4. /\ handled \in Seq(Seq(Cell)) /\ buf \in [0 .. BufLen - 1 -> Cell]
      /\ readLen \in 0 .. LenMod - 1 /\ escaped \in BOOLEAN
  BY Zenon DEF SerialTypeOK
<1>5. handled' = Handed(handled, buf, n, escaped)
  BY <1>1, Zenon DEF Frame_End, kiss_handle_frame, Handed, Taken
<1>6. escaped' = FALSE /\ readLen' = 0 /\ buf' = buf /\ late' = late
  BY Zenon DEF Frame_End
<1>7. PICK c2, h2 : c2 = cut' /\ h2 = handled'
  BY Zenon
<1>8. Read(KISS, c2, FALSE, pauses, sent, todo, v, h2, buf, 0, FALSE, late)
  BY <1>3, <1>4, <1>5, <1>7, KissEnd, Zenon
<1>9. handled' \in Seq(Seq(Cell))
  <2>1. BufLen \in Nat /\ LenMod \in Nat /\ LenMod < BufLen
    BY BufferAssumption, FramesAssumption, Zenon
  <2>2. n \in Nat /\ \A i \in 1 .. n : i - 1 \in 0 .. BufLen - 1
    BY <1>3, <2>1
  <2>3. Taken(buf, n) \in [1 .. n -> Cell]
    BY <1>4, <2>2, Zenon DEF Taken
  <2>4. Taken(buf, n) \in Seq(Cell)
    BY <2>2, <2>3
  <2>5. Append(handled, Taken(buf, n)) \in Seq(Seq(Cell))
    BY <1>4, <2>4
  <2>6. QED
    BY <1>4, <1>5, <2>5, Zenon DEF Handed
<1>10. KissTypes
  <2>1. 0 \in 0 .. LenMod - 1
    BY BufferAssumption
  <2>2. QED
    BY <1>4, <1>6, <1>9, <2>1, Zenon DEF KissTypes
<1>11. Read(KISS, cut', FALSE, pauses, sent, todo, v, handled', buf', readLen', escaped', late')
  BY <1>6, <1>7, <1>8, Zenon
<1>12. Polled(c, v)
  BY <1>2, Zenon DEF KissReady
<1>13. QED
  BY <1>1, <1>10, <1>11, <1>12, KissEnds, Zenon

LEMMA KissEscapeStep ==
  ASSUME SerialTypeOK, ReaderInv, NEW c, KissTakes(c), c = FESC, Frame_Escape(SaneLen)
  PROVE  SerialTypeOK' /\ ReaderInv'
<1>1. PICK v, n : v = Tail(rxfifo) \o todo /\ n = SaneLen
  BY Zenon
<1>2. KissReady(c, v, n)
  BY <1>1, KissBegins, Zenon
<1>3. /\ Unread # << >> /\ v = Tail(Unread) /\ Len(todo) \in Nat /\ Len(todo) <= Len(v)
      /\ Head(Unread) = FESC /\ n = SaneOf(readLen, late) /\ n \in 0 .. LenMod - 1
      /\ Read(KISS, cut, FALSE, pauses, sent, todo, Unread, handled, buf, readLen, escaped, late)
      /\ Head(rxfifo) = FESC
  BY <1>2, Zenon DEF KissReady, Polled
<1>4. /\ handled \in Seq(Seq(Cell)) /\ buf \in [0 .. BufLen - 1 -> Cell]
      /\ readLen \in 0 .. LenMod - 1 /\ escaped \in BOOLEAN
  BY Zenon DEF SerialTypeOK
<1>5. escaped' = TRUE /\ readLen' = n /\ buf' = buf /\ late' = late /\ handled' = handled
  BY <1>1, Zenon DEF Frame_Escape
<1>6. cut' = cut
  <2>1. FESC # FEND
    BY Zenon DEF FEND, FESC
  <2>2. QED
    BY <1>3, <2>1, Zenon DEF KissTakes, Resync
<1>7. Read(KISS, cut, FALSE, pauses, sent, todo, v, handled, buf, n, TRUE, late)
  BY <1>3, <1>4, KissEscape, Zenon
<1>8. KissTypes
  BY <1>3, <1>4, <1>5, Zenon DEF KissTypes
<1>9. Read(KISS, cut', FALSE, pauses, sent, todo, v, handled', buf', readLen', escaped', late')
  BY <1>5, <1>6, <1>7, Zenon
<1>10. Polled(c, v)
  BY <1>2, Zenon DEF KissReady
<1>11. QED
  BY <1>1, <1>8, <1>9, <1>10, KissEnds, Zenon

LEMMA KissByteStep ==
  ASSUME SerialTypeOK, ReaderInv, NEW c, KissTakes(c), c \notin {FEND, FESC},
         Frame_Byte(c, SaneLen)
  PROVE  SerialTypeOK' /\ ReaderInv'
<1>1. PICK v, n : v = Tail(rxfifo) \o todo /\ n = SaneLen
  BY Zenon
<1>2. KissReady(c, v, n)
  BY <1>1, KissBegins, Zenon
<1>3. /\ Unread # << >> /\ v = Tail(Unread) /\ Len(todo) \in Nat /\ Len(todo) <= Len(v)
      /\ c = Head(Unread) /\ n = SaneOf(readLen, late) /\ n \in 0 .. LenMod - 1
      /\ Read(KISS, cut, FALSE, pauses, sent, todo, Unread, handled, buf, readLen, escaped, late)
      /\ Head(rxfifo) # FEND /\ c \in Byte
  BY <1>2, Zenon DEF KissReady, Polled
<1>4. /\ handled \in Seq(Seq(Cell)) /\ buf \in [0 .. BufLen - 1 -> Cell]
      /\ readLen \in 0 .. LenMod - 1 /\ escaped \in BOOLEAN
  BY Zenon DEF SerialTypeOK
<1>5. PICK d : d = Decoded(escaped, c)
  BY Zenon
<1>6. /\ buf' = [buf EXCEPT ![n] = d] /\ readLen' = (n + 1) % LenMod
      /\ escaped' = FALSE /\ late' = FALSE /\ handled' = handled
  BY <1>1, <1>5, Zenon DEF Frame_Byte, Decoded
<1>7. LenMod \in Nat \ {0} /\ BufLen \in Nat /\ LenMod < BufLen
  BY BufferAssumption, FramesAssumption, Zenon
<1>8. n \in 0 .. BufLen - 1 /\ n \in Nat /\ \A i \in 0 .. n - 1 : i \in 0 .. BufLen - 1 /\ i # n
  BY <1>3, <1>7
<1>9. d \in Cell
  <2>1. FEND \in Byte /\ FESC \in Byte
    BY Zenon DEF Byte
  <2>2. QED
    BY <1>3, <1>5, <2>1, Zenon DEF Decoded, Cell
<1>10. buf' \in [0 .. BufLen - 1 -> Cell] /\ Stores(buf, n, d, buf')
  <2>1. buf' \in [0 .. BufLen - 1 -> Cell]
    BY <1>4, <1>6, <1>8, <1>9, Zenon
  <2>2. buf'[n] = d /\ \A i \in 0 .. n - 1 : buf'[i] = buf[i]
    BY <1>4, <1>6, <1>8, Zenon
  <2>3. QED
    BY <2>1, <2>2, Zenon DEF Stores
<1>11. readLen' \in 0 .. LenMod - 1
  BY <1>6, <1>7, <1>8
<1>12. cut' = cut
  BY <1>3, Zenon DEF KissTakes, Resync
<1>13. PICK b2, n2 : b2 = buf' /\ n2 = readLen'
  BY Zenon
<1>14. Stores(buf, n, Decoded(escaped, c), b2) /\ n2 = (n + 1) % LenMod
  BY <1>5, <1>6, <1>10, <1>13, Zenon
<1>15. Read(KISS, cut, FALSE, pauses, sent, todo, v, handled, b2, n2, FALSE, FALSE)
  BY <1>3, <1>4, <1>14, KissByte, Zenon
<1>16. KissTypes
  BY <1>4, <1>6, <1>10, <1>11, Zenon DEF KissTypes
<1>17. Read(KISS, cut', FALSE, pauses, sent, todo, v, handled', buf', readLen', escaped', late')
  BY <1>6, <1>12, <1>13, <1>15, Zenon
<1>18. Polled(c, v)
  BY <1>2, Zenon DEF KissReady
<1>19. QED
  BY <1>1, <1>16, <1>17, <1>18, KissEnds, Zenon

LEMMA KissPollTakes ==
  ASSUME SerialTypeOK, kiss_poll
  PROVE  \E c \in Byte :
           /\ KissTakes(c)
           /\ \/ c = FEND /\ Frame_End(SaneLen)
              \/ c = FESC /\ Frame_Escape(SaneLen)
              \/ c \notin {FEND, FESC} /\ Frame_Byte(c, SaneLen)
<1>1. PICK c \in Byte :
        /\ ser_getchar(c)
        /\ \/ c = FEND /\ Frame_End(SaneLen)
           \/ c = FESC /\ Frame_Escape(SaneLen)
           \/ c \notin {FEND, FESC} /\ Frame_Byte(c, SaneLen)
  BY Zenon DEF kiss_poll, kiss_poll_serial
<1>2. run_mode' \in Modes
  <2>1. run_mode \in Modes
    BY Zenon DEF SerialTypeOK
  <2>2. Requested(Last(config')) # "none" => Requested(Last(config')) \in Modes
    BY RequestedMode, Zenon
  <2>3. QED
    BY <2>1, <2>2, Zenon DEF kiss_poll
<1>3. KissTakes(c)
  BY <1>1, <1>2, Zenon DEF kiss_poll, kiss_poll_serial, hostVars, KissTakes
<1>4. QED
  BY <1>1, <1>3, Zenon

LEMMA KissPollStep ==
  ASSUME SerialTypeOK, ReaderInv, kiss_poll
  PROVE  SerialTypeOK' /\ ReaderInv'
<1>1. PICK c \in Byte :
        /\ KissTakes(c)
        /\ \/ c = FEND /\ Frame_End(SaneLen)
           \/ c = FESC /\ Frame_Escape(SaneLen)
           \/ c \notin {FEND, FESC} /\ Frame_Byte(c, SaneLen)
  BY KissPollTakes, Zenon
<1>2. CASE c = FEND /\ Frame_End(SaneLen)
  BY <1>1, <1>2, KissEndStep
<1>3. CASE c = FESC /\ Frame_Escape(SaneLen)
  BY <1>1, <1>3, KissEscapeStep
<1>4. CASE c \notin {FEND, FESC} /\ Frame_Byte(c, SaneLen)
  BY <1>1, <1>4, KissByteStep
<1>5. QED
  BY <1>1, <1>2, <1>3, <1>4

-----------------------------------------------------------------------------
(* All steps.                                                                *)

LEMMA ReaderStuttering ==
  ASSUME SerialTypeOK, ReaderInv, UNCHANGED allVars
  PROVE  SerialTypeOK' /\ ReaderInv'
<1>1. UNCHANGED <<rxfifo, rxerror, todo, escaped, buf, readLen, handled, lines, pauses, mode,
                  run_mode, cut, sent, late>>
  BY Zenon DEF allVars, serialVars, portVars, kissVars, hostVars, modeVars, readerHist
<1>2. QED
  BY <1>1, Zenon DEF SerialTypeOK, ReaderInv, Unread

LEMMA ReaderSteps ==
  SerialTypeOK /\ ReaderInv /\ [ReaderNext]_allVars => SerialTypeOK' /\ ReaderInv'
<1>1. SUFFICES ASSUME SerialTypeOK, ReaderInv, [ReaderNext]_allVars
               PROVE  SerialTypeOK' /\ ReaderInv'
  BY Zenon
<1>2. CASE \/ \E f \in Frames : Host_Frame(f)
           \/ \E l \in ConsoleLines \cup Sentences : Host_Line(l)
  BY <1>1, <1>2, HostStep
<1>3. CASE Receive
  BY <1>1, <1>3, ReceiveStep
<1>4. CASE USART_RX_Error
  BY <1>1, <1>4, ErrorStep
<1>5. CASE Console_Switch
  BY <1>1, <1>5, ConsoleSwitchStep
<1>6. CASE Console_Poll
  BY <1>1, <1>6, ConsolePollStep
<1>7. CASE kiss_poll
  BY <1>1, <1>7, KissPollStep
<1>8. CASE tracker_poll
  BY <1>1, <1>8, TrackerPollStep
<1>9. CASE check_run_mode
  BY <1>1, <1>9, CheckRunModeStep
<1>10. CASE Rest \/ UNCHANGED allVars
  <2>1. UNCHANGED allVars
    BY <1>10, Zenon DEF Rest
  <2>2. QED
    BY <1>1, <2>1, ReaderStuttering
<1>11. QED
  BY <1>1, <1>2, <1>3, <1>4, <1>5, <1>6, <1>7, <1>8, <1>9, <1>10, Zenon
     DEF ReaderNext, Poll, console_poll

\* The invariant that the three properties follow from: every byte that is still to be
\* read has its place in what was sent, and what is in the line buffer is what the
\* reader of the mode is to have got by then.
THEOREM ReaderInvariant == ReaderSpec => [](SerialTypeOK /\ ReaderInv)
<1>1. ReaderInit => SerialTypeOK /\ ReaderInv
  BY ReaderInitial
<1>2. SerialTypeOK /\ ReaderInv /\ [ReaderNext]_allVars => (SerialTypeOK /\ ReaderInv)'
  BY ReaderSteps
<1>3. QED
  BY <1>1, <1>2, PTL DEF ReaderSpec

LEMMA GivenMeans ==
  SerialTypeOK /\ ReaderInv => NeverMixed
<1>1. SUFFICES ASSUME SerialTypeOK, ReaderInv
               PROVE  NeverMixed
  BY Zenon
<1>2. DOMAIN sent = 1 .. Len(sent) /\ DOMAIN handled = 1 .. Len(handled)
  <2>1. sent \in Seq(Seq(Byte)) /\ handled \in Seq(Seq(Cell))
    BY <1>1, SentType, Zenon DEF SerialTypeOK
  <2>2. QED
    BY <2>1
<1>3. PICK at : Given(sent, handled, at)
  BY <1>1, Zenon DEF ReaderInv, Read, Traced
<1>4. QED
  BY <1>2, <1>3, Zenon DEF Given, NeverMixed

\* No frame that kiss_handle_frame() gets has bytes of two frames, whatever the mode
\* switches, pauses and errors of the port before it, and none is handled twice.
THEOREM FramesNeverMixed == ReaderSpec => []NeverMixed
BY ReaderInvariant, GivenMeans, PTL

\* Only kiss_poll() hands over frames.
LEMMA FramesFrom ==
  ASSUME [ReaderNext]_allVars, handled' # handled
  PROVE  kiss_poll
BY Zenon DEF ReaderNext, allVars, serialVars, kissVars, Host_Frame, HostFrame, Host_Line,
   Receive, USART_RX, Pause, USART_RX_Error, Poll, console_poll, Console_Switch, Console_Poll,
   tracker_poll, serialreader_readline, check_run_mode, Rest

\* Only the polls of the other modes hand over lines.
LEMMA LinesFrom ==
  ASSUME [ReaderNext]_allVars, lines' # lines
  PROVE  mode # KISS /\ \E c \in Byte : serialreader_readline(c)
<1>1. CASE Console_Switch \/ Console_Poll \/ tracker_poll
  <2>1. mode # KISS
    BY <1>1 DEF Console_Switch, Console_Poll, tracker_poll, CFG, DIGI, TRACKER, KISS
  <2>2. \E c \in Byte : serialreader_readline(c)
    BY <1>1, Zenon DEF Console_Switch, Console_Poll, tracker_poll
  <2>3. QED
    BY <2>1, <2>2, Zenon
<1>2. CASE ~(Console_Switch \/ Console_Poll \/ tracker_poll)
  BY <1>2, Zenon DEF ReaderNext, allVars, readerHist, Host_Frame, Host_Line,
     Receive, USART_RX_Error, Poll, console_poll, kiss_poll, check_run_mode, Rest
<1>3. QED
  BY <1>1, <1>2, Zenon

LEMMA FrameSent ==
  ASSUME SerialTypeOK, ReaderInv, kiss_poll, handled' # handled, pauses = 0, cut # "now"
  PROVE  Last(handled') \in Range(sent)
<1>1. PICK c \in Byte :
        /\ KissTakes(c)
        /\ \/ c = FEND /\ Frame_End(SaneLen)
           \/ c = FESC /\ Frame_Escape(SaneLen)
           \/ c \notin {FEND, FESC} /\ Frame_Byte(c, SaneLen)
  BY KissPollTakes, Zenon
<1>2. c = FEND /\ Frame_End(SaneLen)
  BY <1>1, Zenon DEF Frame_Escape, Frame_Byte
<1>3. PICK v, n : v = Tail(rxfifo) \o todo /\ n = SaneLen
  BY Zenon
<1>4. KissReady(c, v, n)
  BY <1>1, <1>3, KissBegins, Zenon
<1>5. ~escaped /\ n > 0 /\ handled' = Append(handled, Taken(buf, n))
  BY <1>2, <1>3, Zenon DEF Frame_End, kiss_handle_frame, Taken
<1>6. escaped = FALSE /\ n # 0
  <2>1. escaped = FALSE
    BY <1>5, Zenon DEF SerialTypeOK
  <2>2. n # 0
    BY <1>5
  <2>3. QED
    BY <2>1, <2>2, Zenon
<1>7. /\ Unread # << >> /\ v = Tail(Unread) /\ Len(todo) \in Nat /\ Len(todo) <= Len(v)
      /\ Head(Unread) = FEND /\ n = SaneOf(readLen, late)
      /\ Read(KISS, cut, FALSE, pauses, sent, todo, Unread, handled, buf, readLen, FALSE, late)
  BY <1>2, <1>4, <1>6, Zenon DEF KissReady, Polled
<1>8. readLen \in 0 .. LenMod - 1
  BY Zenon DEF SerialTypeOK
<1>9. WholeFrame(sent, Taken(buf, n))
  BY <1>6, <1>7, <1>8, FrameIsWhole, Zenon
<1>10. Taken(buf, n) \in Range(sent)
  <2>1. DOMAIN sent = 1 .. Len(sent)
    BY SentType
  <2>2. QED
    BY <1>9, <2>1, Zenon DEF WholeFrame, Range
<1>11. Last(handled') = Taken(buf, n)
  <2>1. handled \in Seq(Seq(Cell))
    BY Zenon DEF SerialTypeOK
  <2>2. PICK g, h2 : g = Taken(buf, n) /\ h2 = Append(handled, g)
    BY Zenon
  <2>3. h2[Len(h2)] = g
    BY <2>1, <2>2
  <2>4. QED
    BY <1>5, <2>2, <2>3, Zenon DEF Last
<1>12. QED
  BY <1>10, <1>11, Zenon

\* A frame that is handed over without a pause and without a cut of the input before it is
\* one that was sent, byte for byte.
THEOREM FramesWhole == ReaderSpec => FrameWhole
<1>1. SerialTypeOK /\ ReaderInv /\ [ReaderNext]_allVars =>
        [handled' # handled =>
           Last(handled') \in Range(sent) \/ pauses > 0 \/ cut = "now"]_allVars
  <2>1. SUFFICES ASSUME SerialTypeOK, ReaderInv, [ReaderNext]_allVars, handled' # handled,
                        ~(pauses > 0), cut # "now"
                 PROVE  Last(handled') \in Range(sent)
    BY Zenon
  <2>2. kiss_poll
    BY <2>1, FramesFrom
  <2>3. pauses = 0
    BY <2>1 DEF SerialTypeOK
  <2>4. QED
    BY <2>1, <2>2, <2>3, FrameSent
<1>2. QED
  BY <1>1, ReaderInvariant, PTL DEF ReaderSpec, FrameWhole

\* A line that is handed over without a cut of the input before it is one that was typed, as
\* much of it as the counter can count.
THEOREM LinesWhole == ReaderSpec => LineWhole
<1>1. SerialTypeOK /\ ReaderInv /\ [ReaderNext]_allVars =>
        [lines' # lines =>
           (\E l \in Typed : Last(lines') = Counted(l)) \/ cut = "now"]_allVars
  <2>1. SUFFICES ASSUME SerialTypeOK, ReaderInv, [ReaderNext]_allVars, lines' # lines,
                        cut # "now"
                 PROVE  \E l \in Typed : Last(lines') = Counted(l)
    BY Zenon
  <2>2. mode # KISS /\ \E c \in Byte : serialreader_readline(c)
    BY <2>1, LinesFrom
  <2>3. PICK c \in Byte : serialreader_readline(c)
    BY <2>2, Zenon
  <2>4. QED
    BY <2>1, <2>2, <2>3, LineTyped
<1>2. QED
  BY <1>1, ReaderInvariant, PTL DEF ReaderSpec, LineWhole
=============================================================================
