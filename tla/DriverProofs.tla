---------------------------- MODULE DriverProofs ----------------------------
(***************************************************************************)
(* The two drivers that share a FIFO with an interrupt.                    *)
(*                                                                         *)
(* The serial port (SerTx), for every buffer size and every set of bytes.  *)
(* Of the FIFO: its clients never push on a full buffer or pop from an     *)
(* empty one, and the two pointers implement the bounded queue.  Of the    *)
(* port: no byte given to ser_putchar() is left in the FIFO with the       *)
(* interrupt off, and kfile_flush() returns only with all of them sent.    *)
(*                                                                         *)
(* The modem (HdlcLink), for every size of the receive FIFO, whatever is   *)
(* transmitted and however much noise comes before it: bit by bit,         *)
(* hdlc_parse() does to the FIFO what HdlcBytes says, and nothing else.    *)
(* And the two ends undo each other's work: while the transmitter's mask   *)
(* moves over the entries of its FIFO, what the parser has got is known    *)
(* from where that is, for frames of any length with any bytes.            *)
(***************************************************************************)
EXTENDS SerTx, HdlcLink, SequenceTheorems, WellFoundedInduction, TLAPS

-----------------------------------------------------------------------------
(* The FIFO and the serial port.                                           *)

\* The inductive invariant: neither conjunct is inductive alone, since what
\* a client has seen bounds where the pointers can be.
IInv == TypeOK /\ NoStaleCheck

LEMMA InitIInv == FifoInit => IInv
<1> SUFFICES ASSUME FifoInit
             PROVE  IInv
  OBVIOUS
<1>1. 0 \in Offsets
  BY SizeAssumption DEF Offsets, end
<1>2. QED
  BY <1>1, Zenon DEF FifoInit, IInv, TypeOK, NoStaleCheck

LEMMA NextIInv == IInv /\ [FifoNext]_fifoVars => IInv'
<1> SUFFICES ASSUME IInv, [FifoNext]_fifoVars
             PROVE  IInv'
  OBVIOUS
<1> USE SizeAssumption DEF IInv, TypeOK, NoStaleCheck, Offsets, end, advance,
        isfull, isempty
<1>1. CASE SeeRoom
  BY <1>1 DEF SeeRoom
<1>2. ASSUME NEW c \in Data, fifo_push(c)
      PROVE  IInv'
  <2>1. tail' \in Offsets
    BY <1>2 DEF fifo_push
  <2>2. mem' \in [Offsets -> Data]
    BY <1>2 DEF fifo_push
  <2>3. NoStaleCheck'
    BY <1>2 DEF fifo_push
  <2>4. QED
    BY <1>2, <2>1, <2>2, <2>3, Zenon DEF fifo_push
<1>3. CASE SeeByte
  BY <1>3 DEF SeeByte
<1>4. CASE fifo_pop
  <2>1. head' \in Offsets
    BY <1>4 DEF fifo_pop
  <2>2. popped' \in Data
    BY <1>4 DEF fifo_pop
  <2>3. NoStaleCheck'
    BY <1>4 DEF fifo_pop
  <2>4. QED
    BY <1>4, <2>1, <2>2, <2>3, Zenon DEF fifo_pop
<1>5. CASE fifo_flush
  BY <1>5 DEF fifo_flush
<1>6. CASE UNCHANGED fifoVars
  BY <1>6 DEF fifoVars
<1>7. QED
  BY <1>1, <1>2, <1>3, <1>4, <1>5, <1>6 DEF FifoNext

\* What a client saw of the buffer (not full, not empty) still holds when it
\* acts on it, whatever the other client did in between: fifo_push() is never
\* called on a full buffer nor fifo_pop() on an empty one.
THEOREM ChecksStayValid == FifoSpec => [](TypeOK /\ NoStaleCheck)
<1>1. IInv => TypeOK /\ NoStaleCheck
  BY DEF IInv
<1>2. QED
  BY InitIInv, NextIInv, <1>1, PTL DEF FifoSpec

-----------------------------------------------------------------------------
\* What Contents is, in the terms the provers reason with.
ContentsFacts ==
  /\ Count \in 0 .. Size - 1
  /\ Contents \in Seq(Data)
  /\ Len(Contents) = Count
  /\ \A i \in 1 .. Count : Contents[i] = mem[Slot(i - 1)]

LEMMA ContentsType ==
  TypeOK => ContentsFacts
<1> SUFFICES ASSUME TypeOK
             PROVE  ContentsFacts
  OBVIOUS
<1>1. Count \in 0 .. Size - 1
  BY SizeAssumption DEF TypeOK, Count, Offsets, end
<1>2. \A i \in 1 .. Count : Slot(i - 1) \in Offsets
  BY <1>1, SizeAssumption DEF TypeOK, Count, Slot, Offsets, end
<1>3. \A i \in 1 .. Count : mem[Slot(i - 1)] \in Data
  BY <1>2 DEF TypeOK
<1>4. Contents \in [1 .. Count -> Data]
  BY <1>3 DEF Contents
<1>5. Contents \in Seq(Data) /\ Len(Contents) = Count
  BY <1>1, <1>4
<1>6. QED
  BY <1>1, <1>5 DEF ContentsFacts, Contents

LEMMA PushAppends ==
  ASSUME IInv, IInv', NEW c \in Data, fifo_push(c)
  PROVE  /\ Len(Contents) < Size - 1
         /\ Contents' = Append(Contents, c)
<1> USE SizeAssumption
<1>1. /\ Count \in 0 .. Size - 1
      /\ Contents \in Seq(Data)
      /\ Len(Contents) = Count
      /\ \A i \in 1 .. Count : Contents[i] = mem[Slot(i - 1)]
  BY ContentsType DEF IInv, ContentsFacts
<1>2. /\ Count' \in 0 .. Size - 1
      /\ Contents' \in Seq(Data)
      /\ Len(Contents') = Count'
      /\ \A i \in 1 .. Count' : Contents'[i] = mem'[Slot(i - 1)']
  <2>1. TypeOK'
    BY DEF IInv
  <2>2. ContentsFacts'
    BY <2>1, ContentsType, PTL
  <2>3. QED
    BY <2>2 DEF ContentsFacts
<1>3. Count < Size - 1 /\ Count' = Count + 1
  BY DEF IInv, TypeOK, NoStaleCheck, fifo_push, advance, isfull, Count,
         Offsets, end
<1>4. \A i \in 1 .. Count : Slot(i - 1)' = Slot(i - 1) /\ Slot(i - 1) # tail
  BY <1>1, <1>3 DEF IInv, TypeOK, fifo_push, Slot, Count, Offsets, end
<1>5. \A n \in 0 .. Size : n = Count => Slot(n)' = tail
  BY <1>1, <1>3 DEF IInv, TypeOK, fifo_push, Slot, Count, Offsets, end
<1>6. /\ Append(Contents, c) \in Seq(Data)
      /\ Len(Append(Contents, c)) = Count + 1
      /\ \A i \in 1 .. Count : Append(Contents, c)[i] = Contents[i]
      /\ Append(Contents, c)[Count + 1] = c
  BY <1>1, AppendProperties
<1>7. ASSUME NEW i \in 1 .. Count + 1
      PROVE  Contents'[i] = Append(Contents, c)[i]
  <2>1. CASE i = Count + 1
    <3>1. Slot(i - 1)' = tail
      BY <1>1, <1>5, <2>1
    <3>2. mem'[tail] = c
      BY DEF IInv, TypeOK, fifo_push
    <3>3. QED
      BY <1>2, <1>3, <1>6, <2>1, <3>1, <3>2
  <2>2. CASE i \in 1 .. Count
    <3>1. mem'[Slot(i - 1)'] = mem[Slot(i - 1)]
      BY <1>4, <2>2 DEF IInv, TypeOK, fifo_push
    <3>2. QED
      BY <1>1, <1>2, <1>3, <1>6, <2>2, <3>1
  <2>3. QED
    BY <1>1, <2>1, <2>2
<1>8. Contents' = Append(Contents, c)
  BY <1>1, <1>2, <1>3, <1>6, <1>7, SeqEqual, Zenon
<1>9. QED
  BY <1>1, <1>3, <1>8

LEMMA PopRemovesHead ==
  ASSUME IInv, IInv', fifo_pop
  PROVE  /\ Contents # << >>
         /\ popped' = Head(Contents)
         /\ Contents' = Tail(Contents)
<1> USE SizeAssumption
<1>1. /\ Count \in 0 .. Size - 1
      /\ Contents \in Seq(Data)
      /\ Len(Contents) = Count
      /\ \A i \in 1 .. Count : Contents[i] = mem[Slot(i - 1)]
  BY ContentsType DEF IInv, ContentsFacts
<1>2. /\ Count' \in 0 .. Size - 1
      /\ Contents' \in Seq(Data)
      /\ Len(Contents') = Count'
      /\ \A i \in 1 .. Count' : Contents'[i] = mem'[Slot(i - 1)']
  <2>1. TypeOK'
    BY DEF IInv
  <2>2. ContentsFacts'
    BY <2>1, ContentsType, PTL
  <2>3. QED
    BY <2>2 DEF ContentsFacts
<1>3. Count > 0 /\ Count' = Count - 1
  BY DEF IInv, TypeOK, NoStaleCheck, fifo_pop, advance, isempty, Count,
         Offsets, end
<1>4. \A i \in 1 .. Count - 1 : Slot(i - 1)' = Slot(i)
  <2> TAKE i \in 1 .. Count - 1
  <2>1. /\ Size \in Nat /\ head \in 0 .. Size - 1 /\ tail \in 0 .. Size - 1
        /\ head' = IF head = Size - 1 THEN 0 ELSE head + 1
    BY SizeAssumption DEF IInv, TypeOK, fifo_pop, advance, Offsets, end
  <2>2. i \in 1 .. Size - 1
    BY <2>1 DEF Count
  <2>3. /\ Slot(i - 1)' = IF head' + (i - 1) <= Size - 1 THEN head' + (i - 1)
                         ELSE head' + (i - 1) - Size
        /\ Slot(i) = IF head + i <= Size - 1 THEN head + i ELSE head + i - Size
    BY Zenon DEF Slot, end
  <2>4. QED
    BY <2>1, <2>2, <2>3
<1>5. Slot(0) = head
  BY DEF IInv, TypeOK, Slot, Offsets, end
<1>6. Contents # << >> /\ Head(Contents) = Contents[1]
  BY <1>1, <1>3
<1>7. popped' = Contents[1]
  BY <1>1, <1>3, <1>5 DEF fifo_pop
<1>8. /\ Tail(Contents) \in Seq(Data)
      /\ Len(Tail(Contents)) = Count - 1
      /\ \A i \in 1 .. Count - 1 : Tail(Contents)[i] = Contents[i + 1]
  BY <1>1, <1>6, HeadTailProperties
<1>9. ASSUME NEW i \in 1 .. Count - 1
      PROVE  Contents'[i] = Tail(Contents)[i]
  <2>1. i + 1 \in 1 .. Count /\ (i + 1) - 1 = i
    BY <1>1
  <2>2. Contents[i + 1] = mem[Slot(i)]
    BY <1>1, <2>1
  <2>3. QED
    BY <1>2, <1>3, <1>4, <1>8, <2>2 DEF fifo_pop
<1>10. Contents' = Tail(Contents)
  BY <1>1, <1>2, <1>3, <1>8, <1>9, SeqEqual, Zenon
<1>11. QED
  BY <1>6, <1>7, <1>10

LEMMA FlushEmpties ==
  ASSUME IInv, IInv', fifo_flush
  PROVE  Contents' = << >>
<1>1. Count' = 0
  BY SizeAssumption DEF IInv, TypeOK, fifo_flush, Count, Offsets, end
<1>2. Contents' \in Seq(Data) /\ Len(Contents') = Count'
  <2>1. TypeOK'
    BY DEF IInv
  <2>2. ContentsFacts'
    BY <2>1, ContentsType, PTL
  <2>3. QED
    BY <2>2 DEF ContentsFacts
<1>3. QED
  BY <1>1, <1>2

\* The circular buffer implements the bounded queue of Size - 1 elements:
\* fifo_push() appends, fifo_pop() returns and removes the oldest byte,
\* fifo_flush() empties, and the clients' tests change nothing; no fifo_push()
\* overwrites a byte, since the room that its caller saw cannot have gone.
THEOREM ImplementsQueue == FifoSpec => QueueSpec
<1>1. FifoInit => Queue!Init
  BY SizeAssumption DEF FifoInit, Queue!Init, Contents, Count
<1>2. IInv /\ IInv' /\ [FifoNext]_fifoVars => [Queue!Next]_Queue!vars
  <2> SUFFICES ASSUME IInv, IInv', [FifoNext]_fifoVars
               PROVE  [Queue!Next]_Queue!vars
    OBVIOUS
  <2>1. CASE SeeRoom \/ SeeByte \/ UNCHANGED fifoVars
    BY <2>1 DEF SeeRoom, SeeByte, fifoVars, Queue!vars, Contents, Count, Slot
  <2>2. ASSUME NEW c \in Data, fifo_push(c)
        PROVE  Queue!Next
    BY <2>2, PushAppends, Zenon DEF Queue!Next, Queue!Push, fifo_push
  <2>3. CASE fifo_pop
    BY <2>3, PopRemovesHead DEF Queue!Next, Queue!Pop
  <2>4. CASE fifo_flush
    BY <2>4, FlushEmpties DEF Queue!Next, Queue!Flush, fifo_flush
  <2>5. QED
    BY <2>1, <2>2, <2>3, <2>4 DEF FifoNext
<1>3. IInv /\ IInv' => [\A c \in Data : fifo_push(c) => Queue!Push(c)]_fifoVars
  BY PushAppends, Zenon DEF Queue!Push, fifo_push
<1>4. QED
  BY InitIInv, NextIInv, <1>1, <1>2, <1>3, PTL DEF FifoSpec, QueueSpec, Queue!Spec

-----------------------------------------------------------------------------
(* The port.                                                               *)

\* The port takes only steps of FifoBuf, so what is proved there holds here.
LEMMA UsesFifo == SerSpec => FifoSpec
<1>1. SerInit => FifoInit
  BY DEF SerInit
<1>2. [SerNext]_serVars => [FifoNext]_fifoVars
  <2> SUFFICES ASSUME [SerNext]_serVars
               PROVE  [FifoNext]_fifoVars
    OBVIOUS
  <2>1. CASE SerNext
    BY <2>1, Zenon
       DEF SerNext, Putchar_Room, PutcharSteps, Putchar_Push, txStart_Already,
           txStart_Sending, txBegin, ser_flush, FlushSteps, Flush_Empty,
           Flush_Sending, ser_purge, USART_UDRE, Udre_End, Udre_Byte, FifoNext
  <2>2. CASE UNCHANGED serVars
    BY <2>2 DEF serVars
  <2>3. QED
    BY <2>1, <2>2
<1>3. QED
  BY <1>1, <1>2, PTL DEF SerSpec, FifoSpec

\* The inductive invariant.  The third conjunct is what the order of the two
\* statements of uart0_enabletxirq() buys: between them the interrupt is off and
\* cannot reset hw->sending.
UartIInv ==
  /\ UartNotForgotten
  /\ UartSendingTrue
  /\ pc = "txBegin" => ~udrie
  /\ sending \in BOOLEAN /\ udrie \in BOOLEAN
  /\ pc \in {"idle", "push", "txStart", "txBegin", "flush", "flushed"}

LEMMA InitUartIInv == SerInit => UartIInv
BY Zenon DEF SerInit, FifoInit, UartIInv, UartNotForgotten, UartSendingTrue, isempty

LEMMA NextUartIInv == UartIInv /\ [SerNext]_serVars => UartIInv'
<1> SUFFICES ASSUME UartIInv, [SerNext]_serVars
             PROVE  UartIInv'
  OBVIOUS
<1> USE DEF UartIInv, UartNotForgotten, UartSendingTrue, isempty, Goto
<1>1. CASE Putchar_Room
  BY <1>1 DEF Putchar_Room, SeeRoom
<1>2. ASSUME NEW c \in Data, Putchar_Push(c)
      PROVE  UartIInv'
  BY <1>2 DEF Putchar_Push
<1>3. CASE txStart_Already
  BY <1>3 DEF txStart_Already, fifoVars
<1>4. CASE txStart_Sending
  BY <1>4 DEF txStart_Sending, fifoVars
<1>5. CASE txBegin
  BY <1>5 DEF txBegin, fifoVars
<1>6. CASE ser_flush
  BY <1>6 DEF ser_flush, fifoVars
<1>7. CASE FlushSteps
  BY <1>7 DEF FlushSteps, Flush_Empty, Flush_Sending, fifoVars
<1>8. CASE ser_purge
  BY <1>8 DEF ser_purge, fifo_flush
<1>9. CASE Udre_End
  BY <1>9, Zenon DEF Udre_End, fifoVars
<1>10. CASE Udre_Byte
  BY <1>10 DEF Udre_Byte
<1>11. CASE UNCHANGED serVars
  BY <1>11 DEF serVars, fifoVars
<1>12. QED
  BY <1>1, <1>2, <1>3, <1>4, <1>5, <1>6, <1>7, <1>8, <1>9, <1>10, <1>11
     DEF SerNext, PutcharSteps, USART_UDRE

LEMMA UartIInvHolds == SerSpec => []UartIInv
BY InitUartIInv, NextUartIInv, PTL DEF SerSpec

\* Every variable of the port and its FIFO keeps its type.
THEOREM UartTypes == SerSpec => []SerTypeOK
<1>1. UartIInv /\ TypeOK => SerTypeOK
  BY DEF UartIInv, SerTypeOK
<1>2. QED
  BY <1>1, UartIInvHolds, UsesFifo, ChecksStayValid, PTL

\* A byte that ser_putchar() has put in the FIFO is going to be sent: the
\* interrupt is on, or the main program is about to turn it on, although it acts
\* on a value of hw->sending that may be out of date.
THEOREM UartWakeupNeverLost == SerSpec => [](UartNotForgotten /\ UartSendingTrue)
<1>1. UartIInv => UartNotForgotten /\ UartSendingTrue
  BY DEF UartIInv
<1>2. QED
  BY <1>1, UartIInvHolds, PTL

\* kfile_flush() returns only with an empty FIFO and the interrupt off, whatever
\* it read of the two pointers while the interrupt moved them.
THEOREM UartFlushIsComplete == SerSpec => UartFlushed
<1>1. UartIInv /\ [SerNext]_serVars
        => [pc = "flushed" /\ pc' = "idle" => isempty(head, tail) /\ ~udrie]_serVars
  BY DEF UartIInv, UartNotForgotten, UartSendingTrue, SerNext, Goto,
         Putchar_Room, PutcharSteps, Putchar_Push, txStart_Already,
         txStart_Sending, txBegin, ser_flush, FlushSteps, Flush_Empty,
         Flush_Sending, ser_purge, USART_UDRE, Udre_End, Udre_Byte, serVars
<1>2. QED
  BY <1>1, UartIInvHolds, PTL DEF SerSpec, UartFlushed

\* The FIFO of the port is a queue: every byte leaves it once and in the order
\* ser_putchar() put it in, unless ser_purge() dropped it.
THEOREM UartIsAQueue == SerSpec => QueueSpec
BY UsesFifo, ImplementsQueue

-----------------------------------------------------------------------------
(* The modem.                                                              *)

\* The parser's registers keep their widths.  currchar holds seven bits at most when
\* a bit comes, so that the eighth makes it a byte.
ParserInv ==
  /\ demod_bits \in 0 .. 255 /\ currchar \in 0 .. 127 /\ bit_idx \in 0 .. 7
  /\ rxstart \in BOOLEAN /\ overrun \in BOOLEAN
  /\ rx_fifo \in Seq(Byte) /\ Len(rx_fifo) <= Capacity

\* What a step of the bit level is to be at the byte level.
ByteStep == [Bytes!HdlcNext]_(Bytes!hdlcVars)

\* fifo_isfull() before a byte, or before the escape and before its byte, is the test for
\* room for one entry or for two.
LEMMA RoomIsNotFull ==
  ASSUME ParserInv
  PROVE  /\ Bytes!HasRoom(1) <=> ~IsFull(rx_fifo)
         /\ Bytes!HasRoom(2) <=> ~IsFull(rx_fifo) /\ ~IsFull(Append(rx_fifo, ESC))
<1>1. /\ Len(rx_fifo) \in Nat /\ Len(rx_fifo) <= Capacity
      /\ Len(Append(rx_fifo, ESC)) = Len(rx_fifo) + 1
  BY DEF ParserInv, ESC, Byte
<1>2. QED
  BY <1>1, CapacityAssumption, SMTT(30) DEF Bytes!HasRoom, IsFull

\* hdlc_parse() with the last bit of a flag.
LEMMA FlagStep ==
  ASSUME ParserInv, NEW bits, Flag(bits)
  PROVE  /\ Bytes!HdlcFlag
         /\ currchar' \in 0 .. 127 /\ bit_idx' \in 0 .. 7
         /\ rxstart' \in BOOLEAN /\ overrun' \in BOOLEAN
         /\ rx_fifo' \in Seq(Byte) /\ Len(rx_fifo') <= Capacity
<1>1. /\ rxstart' = ~IsFull(rx_fifo)
      /\ rx_fifo' = IF IsFull(rx_fifo) THEN rx_fifo ELSE Append(rx_fifo, FLAG)
      /\ overrun' = (overrun \/ IsFull(rx_fifo))
      /\ currchar' = 0 /\ bit_idx' = 0
  BY DEF Flag
<1>2. currchar' \in 0 .. 127 /\ bit_idx' \in 0 .. 7
  BY <1>1
<1>3. /\ rx_fifo \in Seq(Byte) /\ Len(rx_fifo) \in Nat /\ Len(rx_fifo) <= Capacity
      /\ rxstart \in BOOLEAN /\ overrun \in BOOLEAN
  BY DEF ParserInv
<1>4. CASE IsFull(rx_fifo)
  <2>1. rx_fifo' = rx_fifo /\ rxstart' = FALSE /\ overrun' = TRUE
    BY <1>1, <1>4, Zenon
  <2>2. QED
    BY <1>2, <1>3, <1>4, <2>1, RoomIsNotFull, Zenon DEF Bytes!HdlcFlag
<1>5. CASE ~IsFull(rx_fifo)
  <2>1. rx_fifo' = Append(rx_fifo, FLAG) /\ rxstart' = TRUE /\ overrun' = overrun
    BY <1>1, <1>3, <1>5, Zenon
  <2>2. rx_fifo' \in Seq(Byte) /\ Len(rx_fifo') <= Capacity
    BY <1>3, <1>5, <2>1, CapacityAssumption DEF IsFull, FLAG, Byte
  <2>3. QED
    BY <1>2, <1>3, <1>5, <2>1, <2>2, RoomIsNotFull, Zenon DEF Bytes!HdlcFlag
<1>6. QED
  BY <1>4, <1>5

\* hdlc_parse() with the eighth bit of a byte.
LEMMA PushStep ==
  ASSUME ParserInv, rxstart, NEW c \in Byte, Push(c)
  PROVE  /\ Bytes!HdlcByte(c)
         /\ rxstart' \in BOOLEAN /\ overrun' \in BOOLEAN
         /\ rx_fifo' \in Seq(Byte) /\ Len(rx_fifo') <= Capacity
<1>1. /\ rx_fifo \in Seq(Byte) /\ Len(rx_fifo) \in Nat /\ Len(rx_fifo) <= Capacity
      /\ rxstart = TRUE /\ overrun \in BOOLEAN /\ ESC \in Byte
  BY DEF ParserInv, ESC, Byte
<1>2. PICK q : q = IF c \in {FLAG, RESET, ESC} /\ ~IsFull(rx_fifo)
                   THEN Append(rx_fifo, ESC) ELSE rx_fifo
  BY Zenon
<1>3. /\ rx_fifo' = IF IsFull(q) THEN q ELSE Append(q, c)
      /\ rxstart' = ~IsFull(q)
      /\ overrun' = (overrun \/ IsFull(q))
  BY <1>2, Zenon DEF Push
<1>4. PICK stored : stored = IF c \in {FLAG, RESET, ESC} THEN <<ESC, c>> ELSE <<c>>
  BY Zenon
<1>5. Bytes!Stored(c) = stored
  BY <1>4, Zenon DEF Bytes!Stored
<1>6. q \in Seq(Byte) /\ Len(q) \in Nat /\ Len(q) <= Capacity
  BY <1>1, <1>2, CapacityAssumption DEF IsFull
<1>7. CASE IsFull(q)
  <2>1. rx_fifo' = q /\ rxstart' = FALSE /\ overrun' = TRUE
    BY <1>3, <1>7, Zenon
  <2>2. ~Bytes!HasRoom(Len(stored))
    <3>1. CASE c \in {FLAG, RESET, ESC}
      <4>1. Len(stored) = 2 /\ (IsFull(rx_fifo) \/ IsFull(Append(rx_fifo, ESC)))
        BY <1>2, <1>4, <1>7, <3>1
      <4>2. QED
        BY <4>1, RoomIsNotFull, Zenon
    <3>2. CASE c \notin {FLAG, RESET, ESC}
      <4>1. Len(stored) = 1 /\ IsFull(rx_fifo)
        BY <1>2, <1>4, <1>7, <3>2
      <4>2. QED
        BY <4>1, RoomIsNotFull, Zenon
    <3>3. QED
      BY <3>1, <3>2
  <2>3. rx_fifo' = IF Bytes!HasRoom(1) THEN Append(rx_fifo, ESC) ELSE rx_fifo
    BY <1>2, <1>7, <2>1, RoomIsNotFull, Zenon
  <2>4. Bytes!HdlcByte(c)
    BY <1>5, <2>1, <2>2, <2>3, Zenon DEF Bytes!HdlcByte
  <2>5. QED
    BY <1>6, <2>1, <2>4, Zenon
<1>8. CASE ~IsFull(q)
  <2>1. rx_fifo' = Append(q, c) /\ rxstart' = TRUE /\ overrun' = overrun
    BY <1>1, <1>3, <1>8, Zenon
  <2>2. Bytes!HasRoom(Len(stored)) /\ rx_fifo' = rx_fifo \o stored
    <3>1. CASE c \in {FLAG, RESET, ESC}
      <4>1. ~IsFull(rx_fifo) /\ q = Append(rx_fifo, ESC) /\ stored = <<ESC, c>>
        BY <1>2, <1>4, <1>8, <3>1, Zenon
      <4>2. Len(stored) = 2 /\ rx_fifo \o stored = Append(Append(rx_fifo, ESC), c)
        BY <1>1, <4>1
      <4>3. QED
        BY <1>8, <2>1, <4>1, <4>2, RoomIsNotFull, Zenon
    <3>2. CASE c \notin {FLAG, RESET, ESC}
      <4>1. ~IsFull(rx_fifo) /\ q = rx_fifo /\ stored = <<c>>
        BY <1>2, <1>4, <1>8, <3>2, Zenon
      <4>2. Len(stored) = 1 /\ rx_fifo \o stored = Append(rx_fifo, c)
        BY <1>1, <4>1
      <4>3. QED
        BY <2>1, <4>1, <4>2, RoomIsNotFull, Zenon
    <3>3. QED
      BY <3>1, <3>2
  <2>3. Bytes!HdlcByte(c)
    BY <1>1, <1>5, <2>1, <2>2, Zenon DEF Bytes!HdlcByte
  <2>4. rx_fifo' \in Seq(Byte) /\ Len(rx_fifo') <= Capacity
    BY <1>6, <1>8, <2>1, CapacityAssumption DEF IsFull
  <2>5. QED
    BY <1>1, <2>1, <2>3, <2>4, Zenon
<1>9. QED
  BY <1>7, <1>8

\* hdlc_parse() with one bit.
LEMMA ParseStep ==
  ASSUME ParserInv, NEW bit \in {0, 1}, hdlc_parse(bit)
  PROVE  ByteStep /\ ParserInv'
<1>1. /\ demod_bits \in 0 .. 255 /\ currchar \in 0 .. 127 /\ bit_idx \in 0 .. 7
      /\ rxstart \in BOOLEAN /\ overrun \in BOOLEAN
      /\ rx_fifo \in Seq(Byte) /\ Len(rx_fifo) <= Capacity
  BY DEF ParserInv
<1>2. PICK bits : bits = (2 * demod_bits + bit) % 256
  OBVIOUS
<1>3. /\ demod_bits' = bits
      /\ IF bits = FLAG THEN Flag(bits)
         ELSE IF bits % 128 = RESET THEN Reset(bits)
         ELSE Skip(bits) \/ Collect(bits)
  BY <1>2, Zenon DEF hdlc_parse
<1>4. bits \in 0 .. 255
  BY <1>1, <1>2
<1>5. demod_bits' \in 0 .. 255
  BY <1>3, <1>4, Zenon
<1>6. CASE Flag(bits)
  BY <1>5, <1>6, FlagStep, Zenon DEF ByteStep, ParserInv, Bytes!HdlcNext
<1>7. CASE Reset(bits)
  <2>1. /\ rxstart' = FALSE /\ rx_fifo' = rx_fifo /\ overrun' = overrun
        /\ currchar' = currchar /\ bit_idx' = bit_idx
    BY <1>7, Zenon DEF Reset
  <2>2. ByteStep
    BY <2>1, Zenon DEF ByteStep, Bytes!HdlcNext, Bytes!HdlcAbort
  <2>3. QED
    BY <1>1, <1>5, <2>1, <2>2, Zenon DEF ParserInv
<1>8. CASE Skip(bits)
  <2>1. /\ rxstart' = rxstart /\ rx_fifo' = rx_fifo /\ overrun' = overrun
        /\ currchar' = currchar /\ bit_idx' = bit_idx
    BY <1>8, Zenon DEF Skip
  <2>2. ByteStep
    BY <2>1, Zenon DEF ByteStep, Bytes!hdlcVars
  <2>3. QED
    BY <1>1, <1>5, <2>1, <2>2, Zenon DEF ParserInv
<1>9. CASE Collect(bits)
  <2>1. PICK c : c = currchar + 128 * (bits % 2)
    OBVIOUS
  <2>2. /\ rxstart
        /\ IF bit_idx = 7
           THEN Push(c) /\ currchar' = 0 /\ bit_idx' = 0
           ELSE /\ currchar' = c \div 2
                /\ bit_idx' = bit_idx + 1
                /\ UNCHANGED <<rx_fifo, rxstart, overrun>>
    BY <1>9, <2>1, Zenon DEF Collect
  <2>3. c \in 0 .. 255
    BY <1>1, <1>4, <2>1
  <2>4. CASE bit_idx = 7
    <3>1. c \in Byte /\ rxstart /\ Push(c) /\ currchar' = 0 /\ bit_idx' = 0
      BY <2>2, <2>3, <2>4, Zenon DEF Byte
    <3>2. currchar' \in 0 .. 127 /\ bit_idx' \in 0 .. 7
      BY <3>1
    <3>3. QED
      BY <1>5, <3>1, <3>2, PushStep, Zenon DEF ByteStep, ParserInv, Bytes!HdlcNext
  <2>5. CASE bit_idx # 7
    <3>1. /\ currchar' = c \div 2 /\ bit_idx' = bit_idx + 1
          /\ rxstart' = rxstart /\ rx_fifo' = rx_fifo /\ overrun' = overrun
      BY <2>2, <2>5, Zenon
    <3>2. currchar' \in 0 .. 127 /\ bit_idx' \in 0 .. 7
      BY <1>1, <2>3, <2>5, <3>1
    <3>3. ByteStep
      BY <3>1, Zenon DEF ByteStep, Bytes!hdlcVars
    <3>4. QED
      BY <1>1, <1>5, <3>1, <3>2, <3>3, Zenon DEF ParserInv
  <2>6. QED
    BY <2>4, <2>5
<1>10. QED
  BY <1>3, <1>6, <1>7, <1>8, <1>9, Zenon

\* afsk_adc_isr(), once per bit.
LEMMA ReceiveStep ==
  ASSUME ParserInv, Receive
  PROVE  ByteStep /\ ParserInv'
<1>1. (IF line' = line THEN 1 ELSE 0) \in {0, 1}
  OBVIOUS
<1>2. QED
  BY <1>1, ParseStep, Zenon DEF Receive

\* Steps that leave the receive side alone.
LEMMA RxStays ==
  ASSUME ParserInv, UNCHANGED rxVars
  PROVE  ByteStep /\ ParserInv'
BY Zenon DEF ParserInv, rxVars, ByteStep, Bytes!hdlcVars

\* afsk_read(), the other end of the FIFO.
LEMMA ReadStep ==
  ASSUME ParserInv, afsk_read
  PROVE  ByteStep /\ ParserInv'
<1>1. /\ rx_fifo # << >> /\ rx_fifo' = Tail(rx_fifo)
      /\ demod_bits' = demod_bits /\ currchar' = currchar /\ bit_idx' = bit_idx
      /\ rxstart' = rxstart /\ overrun' = overrun
  BY Zenon DEF afsk_read
<1>2. rx_fifo \in Seq(Byte) /\ Len(rx_fifo) \in Nat /\ Len(rx_fifo) <= Capacity
  BY DEF ParserInv
<1>3. rx_fifo' \in Seq(Byte) /\ Len(rx_fifo') <= Capacity
  BY <1>1, <1>2, CapacityAssumption
<1>4. ByteStep
  BY <1>1, Zenon DEF ByteStep, Bytes!HdlcNext, Bytes!Read
<1>5. QED
  BY <1>1, <1>3, <1>4, Zenon DEF ParserInv

\* Every step, of the transmitter, the receiver and the reader.
LEMMA EveryStep ==
  ASSUME ParserInv, [Next]_vars
  PROVE  ByteStep /\ ParserInv'
<1>1. CASE Noise
  BY <1>1, ReceiveStep, Zenon DEF Noise
<1>2. ASSUME NEW fs \in Transmissions[noise], afsk_txStart(fs)
      PROVE  ByteStep /\ ParserInv'
  BY <1>2, RxStays, Zenon DEF afsk_txStart
<1>3. CASE Bit
  BY <1>3, ReceiveStep, Zenon DEF Bit
<1>4. CASE afsk_read
  BY <1>4, ReadStep, Zenon
<1>5. CASE UNCHANGED vars
  BY <1>5, RxStays, Zenon DEF vars
<1>6. CASE Finished
  BY <1>5, <1>6, Zenon DEF Finished
<1>7. QED
  BY <1>1, <1>2, <1>3, <1>4, <1>5, <1>6, Zenon DEF Next

\* After afsk_init().
LEMMA InitStep == Init => Bytes!HdlcInit /\ ParserInv
<1>1. Init => Bytes!HdlcInit
  BY Zenon DEF Init, Bytes!HdlcInit
<1>2. /\ << >> \in Seq(Byte) /\ Len(<< >>) <= Capacity
      /\ 0 \in 0 .. 255 /\ 0 \in 0 .. 127 /\ 0 \in 0 .. 7
  BY CapacityAssumption
<1>3. ASSUME Init
      PROVE  ParserInv
  <2>1. /\ demod_bits = 0 /\ rxstart = FALSE /\ currchar = 0 /\ bit_idx = 0
        /\ rx_fifo = << >> /\ overrun = FALSE
    BY <1>3, Zenon DEF Init
  <2>2. /\ demod_bits \in 0 .. 255 /\ currchar \in 0 .. 127 /\ bit_idx \in 0 .. 7
        /\ rx_fifo \in Seq(Byte) /\ Len(rx_fifo) <= Capacity
    BY <1>2, <2>1
  <2>3. rxstart \in BOOLEAN /\ overrun \in BOOLEAN
    BY <2>1, Zenon
  <2>4. QED
    BY <2>2, <2>3, Zenon DEF ParserInv
<1>4. QED
  BY <1>1, <1>3

\* The bit-by-bit parser implements the byte-level description: whatever tones the
\* demodulator decides on, a call of hdlc_parse() stores a flag, gives the frame up,
\* stores one whole byte with its escape or what of it fits, or leaves the FIFO, the
\* collecting state and the overrun status as they are.
THEOREM BitsMakeBytes == Spec => BytesSpec
<1>1. Init => Bytes!HdlcInit /\ ParserInv
  BY InitStep
<1>2. ParserInv /\ [Next]_vars => ByteStep /\ ParserInv'
  BY EveryStep
<1>3. ByteStep => [Bytes!HdlcNext]_(Bytes!hdlcVars)
  BY Zenon DEF ByteStep
<1>4. QED
  BY <1>1, <1>2, <1>3, PTL DEF Spec, BytesSpec, Bytes!HdlcSpec

-----------------------------------------------------------------------------
(* The last bits.  The parser sees each bit in the same bit time that the      *)
(* transmitter sends it in, so what demod_bits ends with is known from where   *)
(* the transmitter is.                                                         *)

\* d ends with a zero and k ones.
Ones(d, k) ==
  \/ k = 0 /\ d % 2 = 0
  \/ k = 1 /\ d % 4 = 1
  \/ k = 2 /\ d % 8 = 3
  \/ k = 3 /\ d % 16 = 7
  \/ k = 4 /\ d % 32 = 15
  \/ k = 5 /\ d % 64 = 31

Masks == {1, 2, 4, 8, 16, 32, 64, 128}

\* How many bits are sent when m is the mask of the next.
Idx(m) ==
  IF m = 1 THEN 0 ELSE IF m = 2 THEN 1 ELSE IF m = 4 THEN 2 ELSE IF m = 8 THEN 3
  ELSE IF m = 16 THEN 4 ELSE IF m = 32 THEN 5 ELSE IF m = 64 THEN 6 ELSE 7

\* What currchar is when the bits of c below the mask have been collected.
Part(c, m) == (c % m) * (128 \div m)

\* d after the bits of a flag below the mask, when what was before is known.
FlagBits(m, d) ==
  IF m = 1 THEN \E k \in 0 .. 5 : Ones(d, k) ELSE d % m = (m \div 2) - 1

\* The same when its first bit may have been lost.
BluntBits(m, d) ==
  m \in {1, 2} \/ d % (m \div 2) = (m \div 2) - 1

\* A bit that is neither the end of a flag, nor of an abort, nor stuffed.
Plain(bits) == bits # FLAG /\ bits % 128 # RESET /\ ~StuffedBit(bits)

\* Shift a bit in.
Shift(d, v) == (2 * d + v) % 256

LEMMA DataBit ==
  ASSUME NEW d \in 0 .. 255, NEW k \in 0 .. 4, Ones(d, k), NEW v \in {0, 1}
  PROVE  Plain(Shift(d, v)) /\ Ones(Shift(d, v), IF v = 1 THEN k + 1 ELSE 0)
<1>1. CASE v = 0
  BY <1>1 DEF Ones, Plain, Shift, FLAG, RESET, StuffedBit
<1>2. CASE v = 1
  BY <1>2 DEF Ones, Plain, Shift, FLAG, RESET, StuffedBit
<1>3. QED
  BY <1>1, <1>2

LEMMA FiveOnes ==
  ASSUME NEW d \in 0 .. 255, Ones(d, 5)
  PROVE  /\ Shift(d, 0) # FLAG /\ Shift(d, 0) % 128 # RESET /\ StuffedBit(Shift(d, 0))
         /\ Ones(Shift(d, 0), 0)
BY DEF Ones, Shift, FLAG, RESET, StuffedBit

LEMMA FirstOfFlag ==
  ASSUME NEW d \in 0 .. 255, FlagBits(1, d)
  PROVE  Shift(d, 0) # FLAG /\ Shift(d, 0) % 128 # RESET /\ FlagBits(2, Shift(d, 0))
<1>1. PICK k \in 0 .. 5 : Ones(d, k)
  BY DEF FlagBits
<1>2. QED
  BY <1>1 DEF Ones, Shift, FLAG, RESET, FlagBits

LEMMA MiddleOfFlag ==
  ASSUME NEW d \in 0 .. 255, NEW m \in {2, 4, 8, 16, 32, 64}, FlagBits(m, d)
  PROVE  Plain(Shift(d, 1)) /\ FlagBits(2 * m, Shift(d, 1))
<1>1. CASE m = 2
  BY <1>1 DEF Plain, Shift, FLAG, RESET, StuffedBit, FlagBits
<1>2. CASE m = 4
  BY <1>2 DEF Plain, Shift, FLAG, RESET, StuffedBit, FlagBits
<1>3. CASE m = 8
  BY <1>3 DEF Plain, Shift, FLAG, RESET, StuffedBit, FlagBits
<1>4. CASE m = 16
  BY <1>4 DEF Plain, Shift, FLAG, RESET, StuffedBit, FlagBits
<1>5. CASE m = 32
  BY <1>5 DEF Plain, Shift, FLAG, RESET, StuffedBit, FlagBits
<1>6. CASE m = 64
  BY <1>6 DEF Plain, Shift, FLAG, RESET, StuffedBit, FlagBits
<1>7. QED
  BY <1>1, <1>2, <1>3, <1>4, <1>5, <1>6

LEMMA LastOfFlag ==
  ASSUME NEW d \in 0 .. 255, FlagBits(128, d)
  PROVE  Shift(d, 0) = FLAG
BY DEF Shift, FLAG, FlagBits

LEMMA BluntMiddle ==
  ASSUME NEW d \in 0 .. 255, NEW m \in {2, 4, 8, 16, 32, 64}, BluntBits(m, d)
  PROVE  BluntBits(2 * m, Shift(d, 1))
BY DEF Shift, BluntBits

LEMMA BluntEnd ==
  ASSUME NEW d \in 0 .. 255
  PROVE  Ones(Shift(d, 0), 0)
BY DEF Shift, Ones

\* SendBit without stuffing: the bit v under the mask m, and the next mask.
NextBit(c, m, v, m2) == v = (c \div m) % 2 /\ m2 = (2 * m) % 256

LEMMA BitOf ==
  ASSUME NEW c \in Byte, NEW m \in Masks, NEW v, NEW m2, NextBit(c, m, v, m2)
  PROVE  v \in {0, 1}
<1>1. c \div m \in Nat
  BY DEF Masks, Byte
<1>2. QED
  BY <1>1 DEF NextBit

\* One more bit of a byte collected, or the last.
Grows(c, m, v, m2) ==
  \/ /\ m2 \in Masks /\ Idx(m) # 7 /\ Idx(m2) = Idx(m) + 1
     /\ (Part(c, m) + 128 * v) \div 2 = Part(c, m2)
  \/ m2 = 0 /\ Idx(m) = 7 /\ Part(c, m) + 128 * v = c

LEMMA PartGrows ==
  ASSUME NEW c \in Byte, NEW m \in Masks, NEW v, NEW m2, NextBit(c, m, v, m2)
  PROVE  Grows(c, m, v, m2)
<1>1. CASE m # 128
  <2>1. m \in {1, 2, 4, 8, 16, 32, 64}
    BY <1>1 DEF Masks
  <2>2. m2 = 2 * m /\ m2 \in Masks /\ v = (c \div m) % 2
    BY <2>1 DEF Masks, NextBit
  <2>3. Idx(m) # 7 /\ Idx(2 * m) = Idx(m) + 1
    BY <2>1 DEF Idx
  <2>4. (Part(c, m) + 128 * ((c \div m) % 2)) \div 2 = Part(c, 2 * m)
    <3>1. CASE m = 1
      BY <3>1 DEF Part, Byte
    <3>2. CASE m = 2
      BY <3>2 DEF Part, Byte
    <3>3. CASE m = 4
      BY <3>3 DEF Part, Byte
    <3>4. CASE m = 8
      BY <3>4 DEF Part, Byte
    <3>5. CASE m = 16
      BY <3>5 DEF Part, Byte
    <3>6. CASE m = 32
      BY <3>6 DEF Part, Byte
    <3>7. CASE m = 64
      BY <3>7 DEF Part, Byte
    <3>8. QED
      BY <2>1, <3>1, <3>2, <3>3, <3>4, <3>5, <3>6, <3>7
  <2>5. QED
    BY <2>2, <2>3, <2>4, Zenon DEF Grows
<1>2. CASE m = 128
  <2>1. m2 = 0 /\ Idx(m) = 7 /\ Part(c, m) + 128 * v = c
    BY <1>2 DEF Part, Byte, Idx, NextBit
  <2>2. QED
    BY <2>1, Zenon DEF Grows
<1>3. QED
  BY <1>1, <1>2, Zenon

LEMMA PartFirst ==
  ASSUME NEW c \in Byte
  PROVE  Idx(1) = 0 /\ Part(c, 1) = 0 /\ 1 \in Masks
BY DEF Part, Byte, Idx, Masks

-----------------------------------------------------------------------------
(* What ax25_poll() makes of a stream.                                         *)

Accs == [escape : BOOLEAN, frame : Seq(Byte), frames : Seq(Seq(Byte))]

NoBytes == [escape |-> FALSE, frame |-> << >>, frames |-> << >>]

\* F[n] is what the first n bytes of s make.
Runs(s, N, F) ==
  /\ F \in [0 .. N -> Accs] /\ F[0] = NoBytes
  /\ \A n \in 1 .. N : F[n] = Take(F[n - 1], s[n])

LEMMA LeastNat ==
  ASSUME NEW S \in SUBSET Nat, S # {}
  PROVE  \E x \in S : \A y \in S : x <= y
<1>1. PICK x \in S : \A y \in S : ~(<<y, x>> \in OpToRel(<, Nat))
  BY NatLessThanWellFounded, WFMin, Zenon
<1>2. \A y \in S : x <= y
  <2>1. SUFFICES ASSUME NEW y \in S, y < x
                 PROVE  FALSE
    OBVIOUS
  <2>2. <<y, x>> \in OpToRel(<, Nat)
    BY <2>1 DEF OpToRel
  <2>3. QED
    BY <1>1, <2>2, Zenon
<1>3. QED
  BY <1>2, Zenon

LEMMA TakeAcc ==
  ASSUME NEW a \in Accs, NEW c \in Byte
  PROVE  Take(a, c) \in Accs
<1>1. a.escape \in BOOLEAN /\ a.frame \in Seq(Byte) /\ a.frames \in Seq(Seq(Byte))
  BY DEF Accs
<1>2. Append(a.frame, c) \in Seq(Byte) /\ << >> \in Seq(Byte)
  BY <1>1
<1>3. Append(a.frames, a.frame) \in Seq(Seq(Byte))
  BY <1>1
<1>4. a = [escape |-> a.escape, frame |-> a.frame, frames |-> a.frames]
  BY DEF Accs
<1>5. CASE a.escape \/ c \notin {FLAG, ESC}
  BY <1>1, <1>2, <1>4, <1>5 DEF Take, Accs
<1>6. CASE ~(a.escape \/ c \notin {FLAG, ESC}) /\ c = ESC
  BY <1>1, <1>4, <1>6 DEF Take, Accs
<1>7. CASE ~(a.escape \/ c \notin {FLAG, ESC}) /\ c # ESC
  BY <1>1, <1>2, <1>3, <1>4, <1>7 DEF Take, Accs
<1>8. QED
  BY <1>5, <1>6, <1>7, Zenon

LEMMA RunsExist ==
  ASSUME NEW s \in Seq(Byte), NEW N \in 0 .. Len(s)
  PROVE  \E F : Runs(s, N, F)
<1> DEFINE Good(n) == \E F : Runs(s, n, F)
           Bad == {n \in 0 .. Len(s) : ~Good(n)}
<1>1. SUFFICES ASSUME Bad # {}
               PROVE  FALSE
  BY Zenon
<1>2. PICK n \in Bad : \A y \in Bad : n <= y
  <2>1. Bad \in SUBSET Nat
    BY SMT
  <2>2. QED
    BY <1>1, <2>1, LeastNat, Zenon
<1>3. n \in 0 .. Len(s) /\ ~Good(n)
  BY <1>2, Zenon
<1>4. CASE n = 0
  <2>1. PICK F : F = [i \in 0 .. 0 |-> NoBytes]
    BY Zenon
  <2>2. NoBytes \in Accs
    BY DEF NoBytes, Accs
  <2>3. Runs(s, 0, F)
    BY <2>1, <2>2 DEF Runs
  <2>4. QED
    BY <1>3, <1>4, <2>3, Zenon
<1>5. CASE n # 0
  <2>1. n - 1 \in 0 .. Len(s) /\ ~(n <= n - 1) /\ n \in 1 .. Len(s)
    BY <1>3, <1>5
  <2>2. Good(n - 1)
    BY <1>2, <2>1, Zenon
  <2>3. PICK F : Runs(s, n - 1, F)
    BY <2>2, Zenon
  <2>4. PICK G : G = [i \in 0 .. n |-> IF i = n THEN Take(F[n - 1], s[n]) ELSE F[i]]
    BY Zenon
  <2>5. Take(F[n - 1], s[n]) \in Accs
    <3>1. s[n] \in Byte /\ n - 1 \in 0 .. n - 1
      BY <2>1
    <3>2. F[n - 1] \in Accs
      BY <2>3, <3>1, Zenon DEF Runs
    <3>3. QED
      BY <3>1, <3>2, TakeAcc, Zenon
  <2>6. G \in [0 .. n -> Accs]
    <3>1. \A i \in 0 .. n : i = n \/ i \in 0 .. n - 1
      BY <1>3
    <3>2. QED
      BY <2>3, <2>4, <2>5, <3>1, Zenon DEF Runs
  <2>7. G[0] = NoBytes
    <3>1. 0 \in 0 .. n /\ 0 # n
      BY <1>3, <1>5
    <3>2. QED
      BY <2>3, <2>4, <3>1, Zenon DEF Runs
  <2>8. ASSUME NEW i \in 1 .. n
        PROVE  G[i] = Take(G[i - 1], s[i])
    <3>1. i \in 0 .. n /\ i - 1 \in 0 .. n /\ i - 1 # n
      BY <1>3, <2>8
    <3>2. G[i - 1] = F[i - 1] /\ G[i] = IF i = n THEN Take(F[n - 1], s[n]) ELSE F[i]
      BY <2>4, <3>1, Zenon
    <3>3. CASE i = n
      BY <3>2, <3>3, Zenon
    <3>4. CASE i # n
      <4>1. i \in 1 .. n - 1
        BY <1>3, <2>8, <3>4
      <4>2. F[i] = Take(F[i - 1], s[i])
        BY <2>3, <4>1, Zenon DEF Runs
      <4>3. QED
        BY <3>2, <3>4, <4>2, Zenon
    <3>5. QED
      BY <3>3, <3>4, Zenon
  <2>9. QED
    BY <1>3, <2>6, <2>7, <2>8, Zenon DEF Runs
<1>6. QED
  BY <1>4, <1>5, Zenon

\* What the recursion of Deframe computes.
LEMMA DeframeRuns ==
  ASSUME NEW s \in Seq(Byte)
  PROVE  \E F : Runs(s, Len(s), F) /\ Deframe(s) = F[Len(s)]
<1>1. Len(s) \in 0 .. Len(s) /\ Len(s) \in Nat
  OBVIOUS
<1>2. PICK G : Runs(s, Len(s), G)
  BY <1>1, RunsExist, Zenon
<1>3. G = [n \in 0 .. Len(s) |-> IF n = 0 THEN NoBytes ELSE Take(G[n - 1], s[n])]
  <2>1. \A n \in 0 .. Len(s) : n # 0 => n \in 1 .. Len(s)
    BY <1>1
  <2>2. \A n \in 0 .. Len(s) : G[n] = IF n = 0 THEN NoBytes ELSE Take(G[n - 1], s[n])
    BY <1>2, <2>1, Zenon DEF Runs
  <2>3. QED
    BY <1>2, <2>2, Zenon DEF Runs
<1> DEFINE Eq(g) == g = [n \in 0 .. Len(s) |->
                           IF n = 0 THEN NoBytes ELSE Take(g[n - 1], s[n])]
           H == CHOOSE g : Eq(g)
<1>4. Eq(H)
  BY <1>3, Zenon
<1>5. Deframe(s) = H[Len(s)]
  BY Zenon DEF Deframe, NoBytes
<1>6. \A n \in 0 .. Len(s) : H[n] = G[n]
  <2> HIDE DEF H
  <2> DEFINE Diff == {n \in 0 .. Len(s) : H[n] # G[n]}
  <2>1. SUFFICES ASSUME Diff # {}
                 PROVE  FALSE
    BY Zenon
  <2>2. Diff \in SUBSET Nat
    BY SMT
  <2>3. PICK n \in Diff : \A y \in Diff : n <= y
    BY <2>1, <2>2, LeastNat, Zenon
  <2>4. n \in 0 .. Len(s) /\ H[n] # G[n]
    BY <2>3, Zenon
  <2>5. H[n] = IF n = 0 THEN NoBytes ELSE Take(H[n - 1], s[n])
    BY <1>4, <2>4, Zenon
  <2>6. G[n] = IF n = 0 THEN NoBytes ELSE Take(G[n - 1], s[n])
    BY <1>3, <2>4, Zenon
  <2>7. n # 0
    BY <2>4, <2>5, <2>6, Zenon
  <2>8. n - 1 \in 0 .. Len(s) /\ ~(n <= n - 1)
    BY <2>4, <2>7
  <2>9. H[n - 1] = G[n - 1]
    BY <2>3, <2>8, Zenon
  <2>10. QED
    BY <2>4, <2>5, <2>6, <2>7, <2>9, Zenon
<1>7. QED
  BY <1>1, <1>2, <1>5, <1>6, Zenon

\* One more byte.
LEMMA DeframeAppend ==
  ASSUME NEW s \in Seq(Byte), NEW c \in Byte
  PROVE  Deframe(s) \in Accs /\ Deframe(Append(s, c)) = Take(Deframe(s), c)
<1>1. PICK t, N : t = Append(s, c) /\ N = Len(s)
  BY Zenon
<1>2. /\ t \in Seq(Byte) /\ Len(t) = N + 1 /\ t[N + 1] = c /\ N \in Nat
      /\ \A n \in 1 .. N : t[n] = s[n]
  BY <1>1
<1>3. PICK F : Runs(s, N, F) /\ Deframe(s) = F[N]
  BY <1>1, DeframeRuns, Zenon
<1>4. PICK G : Runs(t, N + 1, G) /\ Deframe(t) = G[N + 1]
  BY <1>2, DeframeRuns, Zenon
<1>5. \A n \in 0 .. N : G[n] = F[n]
  <2> DEFINE Diff == {n \in 0 .. N : G[n] # F[n]}
  <2>1. SUFFICES ASSUME Diff # {}
                 PROVE  FALSE
    BY Zenon
  <2>2. Diff \in SUBSET Nat
    BY <1>2, SMT
  <2>3. PICK n \in Diff : \A y \in Diff : n <= y
    BY <2>1, <2>2, LeastNat, Zenon
  <2>4. n \in 0 .. N /\ G[n] # F[n]
    BY <2>3, Zenon
  <2>5. n # 0
    BY <1>3, <1>4, <2>4, Zenon DEF Runs
  <2>6. n - 1 \in 0 .. N /\ ~(n <= n - 1) /\ n \in 1 .. N /\ n \in 1 .. N + 1
    BY <1>2, <2>4, <2>5
  <2>7. G[n - 1] = F[n - 1]
    BY <2>3, <2>6, Zenon
  <2>8. G[n] = Take(G[n - 1], t[n]) /\ F[n] = Take(F[n - 1], s[n])
    BY <1>3, <1>4, <2>6, Zenon DEF Runs
  <2>9. QED
    BY <1>2, <2>4, <2>6, <2>7, <2>8, Zenon
<1>6. N \in 0 .. N /\ N + 1 \in 1 .. N + 1 /\ (N + 1) - 1 = N
  BY <1>2
<1>7. F[N] \in Accs /\ G[N + 1] = Take(G[N], c)
  BY <1>2, <1>3, <1>4, <1>6, Zenon DEF Runs
<1>8. QED
  BY <1>1, <1>3, <1>4, <1>5, <1>6, <1>7, Zenon

\* Nothing was received yet.
LEMMA DeframeNothing == Deframe(<< >>) = NoBytes
<1>1. << >> \in Seq(Byte) /\ Len(<< >>) = 0
  OBVIOUS
<1>2. PICK F : Runs(<< >>, 0, F) /\ Deframe(<< >>) = F[0]
  BY <1>1, DeframeRuns, Zenon
<1>3. QED
  BY <1>2, Zenon DEF Runs

-----------------------------------------------------------------------------
(* Places.  An entry that the interrupt takes has a frame and an index in it;  *)
(* frame 0 is the preamble, index 0 and the one behind the last byte are the   *)
(* flags around a frame.                                                       *)

Frames == {fs \in Seq(Seq(Byte)) : fs # << >> /\ \A n \in 1 .. Len(fs) : fs[n] # << >>}

Place(f, n) == [frame |-> f, index |-> n]

IsPlace(fs, p) ==
  /\ p \in [frame : Nat, index : Nat]
  /\ p.frame = 0 => p.index <= PreambleLen
  /\ p.frame # 0 => p.frame <= Len(fs) /\ p.index <= Len(fs[p.frame]) + 1

\* What is sent at a place.
Entry(fs, p) ==
  IF p.frame = 0 \/ p.index = 0 \/ p.index = Len(fs[p.frame]) + 1 THEN Raw(FLAG)
  ELSE Stuffed(fs[p.frame][p.index])

\* The place behind it.
Behind(fs, p) ==
  IF p.index = (IF p.frame = 0 THEN PreambleLen ELSE Len(fs[p.frame]) + 1)
  THEN Place(p.frame + 1, 0) ELSE Place(p.frame, p.index + 1)

\* Nothing sent yet, and everything.
Start == Place(0, 0)
Final(fs) == Place(Len(fs), Len(fs[Len(fs)]) + 1)

\* The entries s are those behind p up to q.
Trip(fs, p, s, q, T) ==
  /\ T[0] = p /\ T[Len(s)] = q
  /\ \A k \in 0 .. Len(s) : IsPlace(fs, T[k])
  /\ \A k \in 1 .. Len(s) : T[k] = Behind(fs, T[k - 1]) /\ s[k] = Entry(fs, T[k])

Leads(fs, p, s, q) == \E T : Trip(fs, p, s, q, T)

Items == [byte : Byte, stuff : BOOLEAN]

LEMMA LeadsOn ==
  ASSUME NEW fs, NEW p, NEW q, NEW r, NEW s \in Seq(Items), NEW t \in Seq(Items),
         Leads(fs, p, s, q), Leads(fs, q, t, r)
  PROVE  Leads(fs, p, s \o t, r)
<1>1. PICK T : Trip(fs, p, s, q, T)
  BY Zenon DEF Leads
<1>2. PICK U : Trip(fs, q, t, r, U)
  BY Zenon DEF Leads
<1>3. PICK M, N : M = Len(s) /\ N = Len(t) /\ M \in Nat /\ N \in Nat
  OBVIOUS
<1>4. PICK w : w = s \o t
  BY Zenon
<1>5. /\ Len(w) = M + N /\ \A k \in 1 .. M : w[k] = s[k]
      /\ \A k \in 1 .. N : w[M + k] = t[k]
  BY <1>3, <1>4
<1>6. PICK V : V = [k \in 0 .. M + N |-> IF k <= M THEN T[k] ELSE U[k - M]]
  BY Zenon
<1>7. \A k \in 0 .. M : V[k] = T[k]
  <2>1. \A k \in 0 .. M : k \in 0 .. M + N /\ k <= M
    BY <1>3
  <2>2. QED
    BY <1>6, <2>1, Zenon
<1>8. \A k \in 0 .. N : V[M + k] = U[k]
  <2>1. ASSUME NEW k \in 0 .. N
        PROVE  V[M + k] = U[k]
    <3>1. M + k \in 0 .. M + N /\ (M + k) - M = k /\ (M + k <= M <=> k = 0) /\ M \in 0 .. M
      BY <1>3
    <3>2. T[M] = U[0]
      BY <1>1, <1>2, <1>3, Zenon DEF Trip
    <3>3. CASE k = 0
      <4>1. M + k = M
        BY <1>3, <3>3
      <4>2. QED
        BY <1>7, <3>1, <3>2, <3>3, <4>1, Zenon
    <3>4. CASE k # 0
      BY <1>6, <3>1, <3>4, Zenon
    <3>5. QED
      BY <3>3, <3>4, Zenon
  <2>2. QED
    BY <2>1
<1>9. V[0] = p /\ V[M + N] = r
  <2>1. 0 \in 0 .. M /\ N \in 0 .. N
    BY <1>3
  <2>2. QED
    BY <1>1, <1>2, <1>3, <1>7, <1>8, <2>1, Zenon DEF Trip
<1>10. ASSUME NEW k \in 0 .. M + N
       PROVE  IsPlace(fs, V[k])
  <2>1. CASE k <= M
    <3>1. k \in 0 .. M
      BY <1>3, <2>1
    <3>2. QED
      BY <1>1, <1>3, <1>7, <3>1, Zenon DEF Trip
  <2>2. CASE ~(k <= M)
    <3>1. PICK n : n = k - M /\ n \in 0 .. N /\ k = M + n
      BY <1>3, <1>10, <2>2
    <3>2. QED
      BY <1>2, <1>3, <1>8, <3>1, Zenon DEF Trip
  <2>3. QED
    BY <2>1, <2>2, Zenon
<1>11. ASSUME NEW k \in 1 .. M + N
       PROVE  V[k] = Behind(fs, V[k - 1]) /\ w[k] = Entry(fs, V[k])
  <2>1. CASE k <= M
    <3>1. k \in 0 .. M /\ k - 1 \in 0 .. M /\ k \in 1 .. M
      BY <1>3, <1>11, <2>1
    <3>2. V[k] = T[k] /\ V[k - 1] = T[k - 1] /\ w[k] = s[k]
      BY <1>5, <1>7, <3>1, Zenon
    <3>3. QED
      BY <1>1, <1>3, <3>1, <3>2, Zenon DEF Trip
  <2>2. CASE ~(k <= M)
    <3>1. PICK n : n = k - M /\ n \in 1 .. N /\ n \in 0 .. N /\ n - 1 \in 0 .. N
                   /\ k = M + n /\ k - 1 = M + (n - 1)
      BY <1>3, <1>11, <2>2
    <3>2. V[k] = U[n] /\ V[k - 1] = U[n - 1] /\ w[k] = t[n]
      BY <1>5, <1>8, <3>1, Zenon
    <3>3. QED
      BY <1>2, <1>3, <3>1, <3>2, Zenon DEF Trip
  <2>3. QED
    BY <2>1, <2>2, Zenon
<1>12. Trip(fs, p, w, r, V)
  BY <1>5, <1>9, <1>10, <1>11, Zenon DEF Trip
<1>13. QED
  BY <1>4, <1>12, Zenon DEF Leads

\* The preamble.
LEMMA PreamblePlaces ==
  ASSUME NEW fs \in Frames
  PROVE  Leads(fs, Start, [n \in 1 .. PreambleLen |-> Raw(FLAG)], Place(0, PreambleLen))
<1>1. PreambleLen \in Nat
  BY TransmissionAssumption
<1>2. PICK s : s = [n \in 1 .. PreambleLen |-> Raw(FLAG)]
  BY Zenon
<1>3. Len(s) = PreambleLen
  BY <1>1, <1>2
<1>4. PICK T : T = [k \in 0 .. PreambleLen |-> Place(0, k)]
  BY Zenon
<1>5. T[0] = Start /\ T[PreambleLen] = Place(0, PreambleLen)
  BY <1>1, <1>4 DEF Start
<1>6. \A k \in 0 .. PreambleLen : IsPlace(fs, T[k])
  BY <1>1, <1>4 DEF IsPlace, Place
<1>7. ASSUME NEW k \in 1 .. PreambleLen
      PROVE  T[k] = Behind(fs, T[k - 1]) /\ s[k] = Entry(fs, T[k])
  <2>1. /\ k \in 0 .. PreambleLen /\ k - 1 \in 0 .. PreambleLen
        /\ k - 1 # PreambleLen /\ (k - 1) + 1 = k
    BY <1>1, <1>7
  <2>2. T[k] = Place(0, k) /\ T[k - 1] = Place(0, k - 1) /\ s[k] = Raw(FLAG)
    BY <1>2, <1>4, <2>1, Zenon
  <2>3. /\ Place(0, k - 1).frame = 0 /\ Place(0, k - 1).index = k - 1
        /\ Place(0, k).frame = 0
    BY DEF Place
  <2>4. QED
    BY <2>1, <2>2, <2>3, Zenon DEF Behind, Entry
<1>8. QED
  BY <1>2, <1>3, <1>5, <1>6, <1>7, Zenon DEF Leads, Trip

\* The flag that ends the frame n.
EndOf(fs, n) == IF n = 0 THEN Place(0, PreambleLen) ELSE Place(n, Len(fs[n]) + 1)

LEMMA EndPlace ==
  ASSUME NEW fs \in Frames, NEW n \in 0 .. Len(fs)
  PROVE  IsPlace(fs, EndOf(fs, n)) /\ Behind(fs, EndOf(fs, n)) = Place(n + 1, 0)
<1>1. PreambleLen \in Nat
  BY TransmissionAssumption
<1>2. CASE n = 0
  BY <1>1, <1>2 DEF EndOf, IsPlace, Behind, Place
<1>3. CASE n # 0
  <2>1. Len(fs[n]) \in Nat /\ n \in Nat /\ n <= Len(fs)
    BY <1>3 DEF Frames
  <2>2. QED
    BY <1>3, <2>1 DEF EndOf, IsPlace, Behind, Place
<1>4. QED
  BY <1>2, <1>3

\* One frame with its flags.
LEMMA FramePlaces ==
  ASSUME NEW fs \in Frames, NEW n \in 1 .. Len(fs)
  PROVE  /\ OnAir(fs[n]) \in Seq(Items)
         /\ Leads(fs, EndOf(fs, n - 1), OnAir(fs[n]), EndOf(fs, n))
<1>1. PICK f, L : f = fs[n] /\ L = Len(f) /\ f \in Seq(Byte) /\ L \in Nat
  <2>1. fs[n] \in Seq(Byte) /\ Len(fs[n]) \in Nat
    BY DEF Frames
  <2>2. QED
    BY <2>1, Zenon
<1>2. PICK s : s = OnAir(f)
  BY Zenon
<1>3. Raw(FLAG) \in Items /\ \A c \in Byte : Stuffed(c) \in Items
  BY DEF Raw, Stuffed, Items, FLAG, Byte
<1>4. PICK u : u = [k \in 1 .. L |-> Stuffed(f[k])]
  BY Zenon
<1>5. u \in Seq(Items) /\ Len(u) = L /\ \A k \in 1 .. L : u[k] = Stuffed(f[k])
  BY <1>1, <1>3, <1>4
<1>6. s = <<Raw(FLAG)>> \o u \o <<Raw(FLAG)>>
  BY <1>1, <1>2, <1>4, Zenon DEF OnAir
<1>7. /\ s \in Seq(Items) /\ Len(s) = L + 2 /\ s[1] = Raw(FLAG) /\ s[L + 2] = Raw(FLAG)
      /\ \A k \in 2 .. L + 1 : s[k] = u[k - 1]
  BY <1>1, <1>3, <1>5, <1>6
<1>8. PICK p : p = EndOf(fs, n - 1)
  BY Zenon
<1>9. IsPlace(fs, p) /\ Behind(fs, p) = Place(n, 0)
  <2>1. n - 1 \in 0 .. Len(fs) /\ (n - 1) + 1 = n
    OBVIOUS
  <2>2. QED
    BY <1>8, <2>1, EndPlace, Zenon
<1>10. PICK T : T = [k \in 0 .. L + 2 |-> IF k = 0 THEN p ELSE Place(n, k - 1)]
  BY Zenon
<1>11. T[0] = p /\ \A k \in 1 .. L + 2 : T[k] = Place(n, k - 1)
  BY <1>1, <1>10
<1>12. T[L + 2] = EndOf(fs, n)
  <2>1. L + 2 \in 1 .. L + 2 /\ (L + 2) - 1 = L + 1 /\ n # 0
    BY <1>1
  <2>2. QED
    BY <1>1, <1>11, <2>1, Zenon DEF EndOf
<1>13. ASSUME NEW k \in 0 .. L + 2
       PROVE  IsPlace(fs, T[k])
  <2>1. CASE k = 0
    BY <1>9, <1>11, <2>1, Zenon
  <2>2. CASE k # 0
    <3>1. T[k] = Place(n, k - 1) /\ k - 1 \in Nat /\ k - 1 <= L + 1
      BY <1>1, <1>11, <1>13, <2>2
    <3>2. QED
      BY <1>1, <3>1 DEF IsPlace, Place
  <2>3. QED
    BY <2>1, <2>2, Zenon
<1>14. ASSUME NEW k \in 1 .. L + 2
       PROVE  T[k] = Behind(fs, T[k - 1]) /\ s[k] = Entry(fs, T[k])
  <2>1. /\ T[k] = Place(n, k - 1)
        /\ Place(n, k - 1).frame = n /\ Place(n, k - 1).index = k - 1
    BY <1>11 DEF Place
  <2>2. T[k] = Behind(fs, T[k - 1])
    <3>1. CASE k = 1
      <4>1. k - 1 = 0
        BY <3>1
      <4>2. QED
        BY <1>9, <1>11, <2>1, <4>1, Zenon
    <3>2. CASE k # 1
      <4>1. k - 1 \in 1 .. L + 2 /\ (k - 1) - 1 # L + 1 /\ n # 0
            /\ ((k - 1) - 1) + 1 = k - 1
        BY <1>1, <1>14, <3>2
      <4>2. T[k - 1] = Place(n, (k - 1) - 1)
        BY <1>11, <4>1, Zenon
      <4>3. Place(n, (k - 1) - 1).frame = n /\ Place(n, (k - 1) - 1).index = (k - 1) - 1
        BY DEF Place
      <4>4. QED
        BY <1>1, <2>1, <4>1, <4>2, <4>3, Zenon DEF Behind
    <3>3. QED
      BY <3>1, <3>2, Zenon
  <2>3. s[k] = Entry(fs, T[k])
    <3>1. CASE k = 1 \/ k = L + 2
      <4>1. s[k] = Raw(FLAG)
        BY <1>7, <3>1, Zenon
      <4>2. k - 1 = 0 \/ k - 1 = L + 1
        BY <1>1, <3>1
      <4>3. QED
        BY <1>1, <2>1, <4>1, <4>2, Zenon DEF Entry
    <3>2. CASE k # 1 /\ k # L + 2
      <4>1. k \in 2 .. L + 1 /\ k - 1 \in 1 .. L /\ k - 1 # 0 /\ k - 1 # L + 1 /\ n # 0
        BY <1>1, <1>14, <3>2
      <4>2. s[k] = Stuffed(f[k - 1])
        BY <1>5, <1>7, <4>1, Zenon
      <4>3. QED
        BY <1>1, <2>1, <4>1, <4>2, Zenon DEF Entry
    <3>3. QED
      BY <3>1, <3>2, Zenon
  <2>4. QED
    BY <2>2, <2>3, Zenon
<1>15. Trip(fs, p, s, EndOf(fs, n), T)
  BY <1>7, <1>11, <1>12, <1>13, <1>14, Zenon DEF Trip
<1>16. QED
  BY <1>1, <1>2, <1>7, <1>8, <1>15, Zenon DEF Leads

\* F[n] is the first n frames with their flags.
Joins(fs, N, F) ==
  /\ F \in [1 .. N -> Seq(Items)]
  /\ \A n \in 1 .. N :
       /\ F[n] = IF n = 1 THEN OnAir(fs[n]) ELSE F[n - 1] \o OnAir(fs[n])
       /\ Leads(fs, EndOf(fs, 0), F[n], EndOf(fs, n))

LEMMA JoinsExist ==
  ASSUME NEW fs \in Frames, NEW N \in 1 .. Len(fs)
  PROVE  \E F : Joins(fs, N, F)
<1> DEFINE Good(n) == \E F : Joins(fs, n, F)
           Bad == {n \in 1 .. Len(fs) : ~Good(n)}
<1>1. SUFFICES ASSUME Bad # {}
               PROVE  FALSE
  BY Zenon
<1>2. PICK n \in Bad : \A y \in Bad : n <= y
  <2>1. Bad \in SUBSET Nat
    BY SMT
  <2>2. QED
    BY <1>1, <2>1, LeastNat, Zenon
<1>3. n \in 1 .. Len(fs) /\ ~Good(n)
  BY <1>2, Zenon
<1>4. PICK a : a = OnAir(fs[n])
  BY Zenon
<1>5. a \in Seq(Items) /\ Leads(fs, EndOf(fs, n - 1), a, EndOf(fs, n))
  BY <1>3, <1>4, FramePlaces, Zenon
<1>6. CASE n = 1
  <2>1. PICK F : F = [k \in 1 .. 1 |-> a]
    BY Zenon
  <2>2. F \in [1 .. 1 -> Seq(Items)] /\ F[1] = a /\ \A k \in 1 .. 1 : k = 1 /\ 1 - 1 = 0
    BY <1>5, <2>1
  <2>3. Joins(fs, 1, F)
    BY <1>4, <1>5, <1>6, <2>2, Zenon DEF Joins
  <2>4. QED
    BY <1>3, <1>6, <2>3, Zenon
<1>7. CASE n # 1
  <2>1. PICK m : m = n - 1 /\ m \in 1 .. Len(fs) /\ ~(n <= m) /\ m \in 1 .. m
    BY <1>3, <1>7
  <2>2. PICK F : Joins(fs, m, F)
    BY <1>2, <2>1, Zenon
  <2>3. F[m] \in Seq(Items) /\ Leads(fs, EndOf(fs, 0), F[m], EndOf(fs, m))
    BY <2>1, <2>2, Zenon DEF Joins
  <2>4. PICK w : w = F[m] \o a
    BY Zenon
  <2>5. w \in Seq(Items)
    BY <1>5, <2>3, <2>4
  <2>6. Leads(fs, EndOf(fs, 0), w, EndOf(fs, n))
    BY <1>5, <2>1, <2>3, <2>4, LeadsOn, Zenon
  <2>7. PICK G : G = [k \in 1 .. n |-> IF k = n THEN w ELSE F[k]]
    BY Zenon
  <2>8. \A k \in 1 .. n : k # n => k \in 1 .. m
    BY <1>3, <2>1
  <2>9. G \in [1 .. n -> Seq(Items)]
    BY <2>2, <2>5, <2>7, <2>8, Zenon DEF Joins
  <2>10. ASSUME NEW k \in 1 .. n
         PROVE  /\ G[k] = IF k = 1 THEN OnAir(fs[k]) ELSE G[k - 1] \o OnAir(fs[k])
                /\ Leads(fs, EndOf(fs, 0), G[k], EndOf(fs, k))
    <3>1. CASE k = n
      <4>1. m \in 1 .. n /\ m # n
        BY <1>3, <2>1
      <4>2. G[k] = w /\ G[k - 1] = F[m]
        BY <2>1, <2>7, <3>1, <4>1, Zenon
      <4>3. QED
        BY <1>4, <1>7, <2>4, <2>6, <3>1, <4>2, Zenon
    <3>2. CASE k # n
      <4>1. k \in 1 .. m /\ G[k] = F[k]
        BY <2>7, <2>8, <3>2, Zenon
      <4>2. k # 1 => k - 1 \in 1 .. n /\ k - 1 # n
        BY <1>3, <2>10
      <4>3. k # 1 => G[k - 1] = F[k - 1]
        BY <2>7, <4>2, Zenon
      <4>4. QED
        BY <2>2, <4>1, <4>3, Zenon DEF Joins
    <3>3. QED
      BY <3>1, <3>2, Zenon
  <2>11. Joins(fs, n, G)
    BY <2>9, <2>10, Zenon DEF Joins
  <2>12. QED
    BY <1>3, <2>11, Zenon
<1>8. QED
  BY <1>6, <1>7, Zenon

\* What afsk_txStart() and the writes that follow put in the FIFO.
Stream(fs) == [n \in 1 .. PreambleLen |-> Raw(FLAG)] \o Written(fs)

LEMMA WrittenPlaces ==
  ASSUME NEW fs \in Frames, NEW w, w = Written(fs)
  PROVE  w \in Seq(Items) /\ Leads(fs, EndOf(fs, 0), w, EndOf(fs, Len(fs)))
<1>1. PICK N : N = Len(fs) /\ N \in Nat /\ N # 0 /\ N \in 1 .. N
  BY DEF Frames
<1>2. PICK G : Joins(fs, N, G)
  BY <1>1, JoinsExist, Zenon
<1>3. G = [n \in 1 .. N |-> IF n = 1 THEN OnAir(fs[n]) ELSE G[n - 1] \o OnAir(fs[n])]
  <2>1. \A n \in 1 .. N : G[n] = IF n = 1 THEN OnAir(fs[n]) ELSE G[n - 1] \o OnAir(fs[n])
    BY <1>2, Zenon DEF Joins
  <2>2. QED
    BY <1>2, <2>1, Zenon DEF Joins
<1> DEFINE Eq(g) == g = [n \in 1 .. N |-> IF n = 1 THEN OnAir(fs[n]) ELSE g[n - 1] \o OnAir(fs[n])]
           H == CHOOSE g : Eq(g)
<1>4. Eq(H)
  BY <1>3, Zenon
<1>5. w = H[N]
  BY <1>1, Zenon DEF Written
<1>6. \A n \in 1 .. N : H[n] = G[n]
  <2> HIDE DEF H
  <2> DEFINE Diff == {n \in 1 .. N : H[n] # G[n]}
  <2>1. SUFFICES ASSUME Diff # {}
                 PROVE  FALSE
    BY Zenon
  <2>2. Diff \in SUBSET Nat
    BY SMT
  <2>3. PICK n \in Diff : \A y \in Diff : n <= y
    BY <2>1, <2>2, LeastNat, Zenon
  <2>4. n \in 1 .. N /\ H[n] # G[n]
    BY <2>3, Zenon
  <2>5. H[n] = IF n = 1 THEN OnAir(fs[n]) ELSE H[n - 1] \o OnAir(fs[n])
    BY <1>4, <2>4, Zenon
  <2>6. G[n] = IF n = 1 THEN OnAir(fs[n]) ELSE G[n - 1] \o OnAir(fs[n])
    BY <1>3, <2>4, Zenon
  <2>7. n # 1
    BY <2>4, <2>5, <2>6, Zenon
  <2>8. n - 1 \in 1 .. N /\ ~(n <= n - 1)
    BY <1>1, <2>4, <2>7
  <2>9. H[n - 1] = G[n - 1]
    BY <2>3, <2>8, Zenon
  <2>10. QED
    BY <2>4, <2>5, <2>6, <2>7, <2>9, Zenon
<1> HIDE DEF H
<1>7. w = G[N]
  BY <1>1, <1>5, <1>6, Zenon
<1>8. QED
  BY <1>1, <1>2, <1>7, Zenon DEF Joins

\* All that will be sent, in its places.
LEMMA StreamPlaces ==
  ASSUME NEW fs \in Frames
  PROVE  Stream(fs) \in Seq(Items) /\ Leads(fs, Start, Stream(fs), Final(fs))
<1>1. PICK u : u = [n \in 1 .. PreambleLen |-> Raw(FLAG)]
  BY Zenon
<1>2. PICK w : w = Written(fs)
  BY Zenon
<1>3. w \in Seq(Items) /\ Leads(fs, EndOf(fs, 0), w, EndOf(fs, Len(fs)))
  BY <1>2, WrittenPlaces, Zenon
<1>4. u \in Seq(Items)
  <2>1. PreambleLen \in Nat
    BY TransmissionAssumption
  <2>2. Raw(FLAG) \in Items
    BY DEF Raw, Items, FLAG, Byte
  <2>3. QED
    BY <1>1, <2>1, <2>2
<1>5. Leads(fs, Start, u, EndOf(fs, 0))
  BY <1>1, PreamblePlaces, Zenon DEF EndOf
<1>6. EndOf(fs, Len(fs)) = Final(fs)
  <2>1. Len(fs) # 0
    BY DEF Frames
  <2>2. QED
    BY <2>1, Zenon DEF EndOf, Final
<1>7. Stream(fs) = u \o w
  BY <1>1, <1>2, Zenon DEF Stream
<1>8. u \o w \in Seq(Items)
  BY <1>3, <1>4
<1>9. QED
  BY <1>3, <1>4, <1>5, <1>6, <1>7, <1>8, LeadsOn, Zenon

\* The next entry.
LEMMA LeadsTail ==
  ASSUME NEW fs, NEW p, NEW q, NEW s \in Seq(Items), s # << >>, Leads(fs, p, s, q)
  PROVE  /\ IsPlace(fs, p) /\ IsPlace(fs, Behind(fs, p)) /\ Head(s) = Entry(fs, Behind(fs, p))
         /\ Tail(s) \in Seq(Items) /\ Leads(fs, Behind(fs, p), Tail(s), q)
<1>1. PICK T : Trip(fs, p, s, q, T)
  BY Zenon DEF Leads
<1>2. PICK N : N = Len(s) /\ N \in Nat /\ N # 0
  OBVIOUS
<1>3. PICK t : t = Tail(s)
  BY Zenon
<1>4. t \in Seq(Items) /\ Len(t) = N - 1 /\ Head(s) = s[1] /\ \A k \in 1 .. N - 1 : t[k] = s[k + 1]
  BY <1>2, <1>3
<1>5. 0 \in 0 .. N /\ 1 \in 0 .. N /\ 1 \in 1 .. N /\ 1 - 1 = 0
  BY <1>2
<1>6. /\ T[0] = p /\ T[1] = Behind(fs, p) /\ s[1] = Entry(fs, T[1])
      /\ IsPlace(fs, T[0]) /\ IsPlace(fs, T[1])
  BY <1>1, <1>2, <1>5, Zenon DEF Trip
<1>7. PICK U : U = [k \in 0 .. N - 1 |-> T[k + 1]]
  BY Zenon
<1>8. /\ \A k \in 0 .. N - 1 : U[k] = T[k + 1]
      /\ 0 \in 0 .. N - 1 /\ N - 1 \in 0 .. N - 1 /\ 0 + 1 = 1 /\ (N - 1) + 1 = N
  BY <1>2, <1>7
<1>9. U[0] = Behind(fs, p) /\ U[N - 1] = q
  BY <1>1, <1>2, <1>6, <1>8, Zenon DEF Trip
<1>10. \A k \in 0 .. N - 1 : IsPlace(fs, U[k])
  <2>1. \A k \in 0 .. N - 1 : k + 1 \in 0 .. N
    BY <1>2
  <2>2. QED
    BY <1>1, <1>2, <1>8, <2>1, Zenon DEF Trip
<1>11. ASSUME NEW k \in 1 .. N - 1
       PROVE  U[k] = Behind(fs, U[k - 1]) /\ t[k] = Entry(fs, U[k])
  <2>1. k \in 0 .. N - 1 /\ k - 1 \in 0 .. N - 1 /\ k + 1 \in 1 .. N /\ (k - 1) + 1 = (k + 1) - 1
    BY <1>2, <1>11
  <2>2. U[k] = T[k + 1] /\ U[k - 1] = T[(k + 1) - 1] /\ t[k] = s[k + 1]
    BY <1>4, <1>8, <2>1, Zenon
  <2>3. QED
    BY <1>1, <1>2, <2>1, <2>2, Zenon DEF Trip
<1>12. Trip(fs, Behind(fs, p), t, q, U)
  BY <1>4, <1>9, <1>10, <1>11, Zenon DEF Trip
<1>13. QED
  BY <1>3, <1>4, <1>6, <1>12, Zenon DEF Leads

\* No entry left.
LEMMA LeadsEnd ==
  ASSUME NEW fs, NEW p, NEW q, Leads(fs, p, << >>, q)
  PROVE  p = q
<1>1. Len(<< >>) = 0
  OBVIOUS
<1>2. QED
  BY <1>1, Zenon DEF Leads, Trip

-----------------------------------------------------------------------------
(* What has been received when everything up to a place has been sent.         *)

\* The first n frames are the last of t.
Ends(t, fs, n) == n <= Len(t) /\ \A k \in 1 .. n : t[Len(t) - n + k] = fs[k]

At(a, fs, p) ==
  /\ a.escape = FALSE
  /\ IF p.frame = 0 THEN a.frame = << >>
     ELSE IF p.index = Len(fs[p.frame]) + 1
     THEN a.frame = << >> /\ Ends(a.frames, fs, p.frame)
     ELSE a.frame = SubSeq(fs[p.frame], 1, p.index) /\ Ends(a.frames, fs, p.frame - 1)

\* What a byte makes of it when it is stored.
TakeStored(a, c) == IF c \in {FLAG, RESET, ESC} THEN Take(Take(a, ESC), c) ELSE Take(a, c)

LEMMA TakeFlag ==
  ASSUME NEW a \in Accs, a.escape = FALSE, NEW b, b = Take(a, FLAG)
  PROVE  /\ b \in Accs /\ b.escape = FALSE /\ b.frame = << >>
         /\ b.frames = IF a.frame = << >> THEN a.frames ELSE Append(a.frames, a.frame)
<1>1. b \in Accs
  <2>1. FLAG \in Byte
    BY DEF FLAG, Byte
  <2>2. QED
    BY <2>1, TakeAcc, Zenon
<1>2. b = [a EXCEPT !.frame = << >>,
                    !.frames = IF a.frame = << >> THEN @ ELSE Append(@, a.frame)]
  BY DEF Take, FLAG, ESC
<1>3. QED
  BY <1>1, <1>2 DEF Accs

LEMMA TakeByte ==
  ASSUME NEW a \in Accs, a.escape = FALSE, NEW c \in Byte, NEW b, b = TakeStored(a, c)
  PROVE  b \in Accs /\ b.escape = FALSE /\ b.frame = Append(a.frame, c) /\ b.frames = a.frames
<1>1. CASE c \in {FLAG, RESET, ESC}
  <2>1. PICK d : d = Take(a, ESC)
    BY Zenon
  <2>2. d \in Accs
    <3>1. ESC \in Byte
      BY DEF ESC, Byte
    <3>2. QED
      BY <2>1, <3>1, TakeAcc, Zenon
  <2>3. d = [a EXCEPT !.escape = TRUE]
    BY <2>1 DEF Take, FLAG, ESC
  <2>4. d.escape = TRUE /\ d.frame = a.frame /\ d.frames = a.frames
    BY <2>3 DEF Accs
  <2>5. b = Take(d, c)
    BY <1>1, <2>1, Zenon DEF TakeStored
  <2>6. b = [d EXCEPT !.escape = FALSE, !.frame = Append(@, c)]
    BY <2>4, <2>5 DEF Take
  <2>7. b \in Accs
    BY <2>2, <2>5, TakeAcc, Zenon
  <2>8. QED
    BY <2>2, <2>4, <2>6, <2>7 DEF Accs
<1>2. CASE c \notin {FLAG, RESET, ESC}
  <2>1. b = Take(a, c)
    BY <1>2, Zenon DEF TakeStored
  <2>2. b = [a EXCEPT !.escape = FALSE, !.frame = Append(@, c)]
    BY <1>2, <2>1 DEF Take
  <2>3. b \in Accs
    BY <2>1, TakeAcc, Zenon
  <2>4. QED
    BY <2>2, <2>3 DEF Accs
<1>3. QED
  BY <1>1, <1>2, Zenon

LEMMA EndsMore ==
  ASSUME NEW fs \in Frames, NEW n \in 1 .. Len(fs), NEW t \in Seq(Seq(Byte)), Ends(t, fs, n - 1)
  PROVE  Ends(Append(t, fs[n]), fs, n)
<1>1. PICK u, L : u = Append(t, fs[n]) /\ L = Len(t) /\ L \in Nat
  <2>1. Len(t) \in Nat
    OBVIOUS
  <2>2. QED
    BY <2>1, Zenon
<1>2. Len(u) = L + 1 /\ u[L + 1] = fs[n] /\ \A k \in 1 .. L : u[k] = t[k]
  BY <1>1
<1>3. n - 1 <= L /\ \A k \in 1 .. n - 1 : t[L - (n - 1) + k] = fs[k]
  BY <1>1, Zenon DEF Ends
<1>4. n <= L + 1
  BY <1>1, <1>3
<1>5. ASSUME NEW k \in 1 .. n
      PROVE  u[(L + 1) - n + k] = fs[k]
  <2>1. CASE k = n
    <3>1. (L + 1) - n + k = L + 1
      BY <1>1, <2>1
    <3>2. QED
      BY <1>2, <2>1, <3>1, Zenon
  <2>2. CASE k # n
    <3>1. k \in 1 .. n - 1 /\ L - (n - 1) + k \in 1 .. L /\ (L + 1) - n + k = L - (n - 1) + k
      BY <1>1, <1>3, <1>5, <2>2
    <3>2. QED
      BY <1>2, <1>3, <3>1, Zenon
  <2>3. QED
    BY <2>1, <2>2, Zenon
<1>6. QED
  BY <1>1, <1>2, <1>4, <1>5, Zenon DEF Ends

\* A flag of the transmission.
LEMMA AtFlag ==
  ASSUME NEW fs \in Frames, NEW p, IsPlace(fs, p), NEW q, q = Behind(fs, p), IsPlace(fs, q),
         Entry(fs, q).stuff = FALSE,
         NEW a \in Accs, At(a, fs, p), NEW b, b = Take(a, FLAG)
  PROVE  At(b, fs, q)
<1>1. /\ a.escape = FALSE /\ b.escape = FALSE /\ b.frame = << >> /\ b \in Accs
      /\ b.frames = IF a.frame = << >> THEN a.frames ELSE Append(a.frames, a.frame)
  BY TakeFlag, Zenon DEF At
<1>2. PICK f, n : f = p.frame /\ n = p.index /\ f \in Nat /\ n \in Nat
  BY DEF IsPlace
<1>3. b.frames \in Seq(Seq(Byte)) /\ a.frames \in Seq(Seq(Byte))
  BY <1>1 DEF Accs
<1>4. Ends(b.frames, fs, 0)
  BY <1>3 DEF Ends
<1>5. CASE f = 0 /\ n # PreambleLen
  <2>1. q = Place(f, n + 1)
    BY <1>2, <1>5, Zenon DEF Behind
  <2>2. q.frame = 0
    BY <1>5, <2>1 DEF Place
  <2>3. QED
    BY <1>1, <2>2, Zenon DEF At
<1>6. CASE f = 0 /\ n = PreambleLen
  <2>1. q = Place(f + 1, 0)
    BY <1>2, <1>6, Zenon DEF Behind
  <2>2. q.frame = 1 /\ q.index = 0
    BY <1>6, <2>1 DEF Place
  <2>3. 1 # 0 /\ 0 # Len(fs[1]) + 1 /\ SubSeq(fs[1], 1, 0) = << >> /\ 1 - 1 = 0
    <3>1. fs[1] \in Seq(Byte)
      BY DEF Frames
    <3>2. QED
      BY <3>1
  <2>4. QED
    BY <1>1, <1>4, <2>2, <2>3, Zenon DEF At
<1>7. ASSUME f # 0
      PROVE  f \in 1 .. Len(fs) /\ fs[f] \in Seq(Byte) /\ fs[f] # << >> /\ n <= Len(fs[f]) + 1
  BY <1>2, <1>7 DEF IsPlace, Frames
<1>8. CASE f # 0 /\ n = Len(fs[f]) + 1
  <2>1. q = Place(f + 1, 0)
    BY <1>2, <1>8, Zenon DEF Behind
  <2>2. q.frame = f + 1 /\ q.index = 0 /\ f + 1 # 0 /\ (f + 1) - 1 = f
    BY <1>2, <2>1 DEF Place
  <2>3. f + 1 \in 1 .. Len(fs)
    BY <1>2, <2>2 DEF IsPlace
  <2>4. 0 # Len(fs[f + 1]) + 1 /\ SubSeq(fs[f + 1], 1, 0) = << >>
    <3>1. fs[f + 1] \in Seq(Byte)
      BY <2>3 DEF Frames
    <3>2. QED
      BY <3>1
  <2>5. a.frame = << >> /\ Ends(a.frames, fs, f)
    BY <1>2, <1>8, Zenon DEF At
  <2>6. QED
    BY <1>1, <2>2, <2>4, <2>5, Zenon DEF At
<1>9. CASE f # 0 /\ n # Len(fs[f]) + 1
  <2>1. q = Place(f, n + 1)
    BY <1>2, <1>9, Zenon DEF Behind
  <2>2. q.frame = f /\ q.index = n + 1 /\ n + 1 # 0
    BY <1>2, <2>1 DEF Place
  <2>3. n + 1 = Len(fs[f]) + 1
    <3>1. SUFFICES ASSUME n + 1 # Len(fs[f]) + 1
                   PROVE  FALSE
      OBVIOUS
    <3>2. Entry(fs, q) = Stuffed(fs[f][n + 1])
      BY <1>9, <2>2, <3>1, Zenon DEF Entry
    <3>3. QED
      BY <3>2 DEF Stuffed
  <2>4. n = Len(fs[f]) /\ SubSeq(fs[f], 1, n) = fs[f]
    BY <1>2, <1>7, <1>9, <2>3
  <2>5. a.frame = fs[f] /\ Ends(a.frames, fs, f - 1)
    BY <1>2, <1>9, <2>4, Zenon DEF At
  <2>6. b.frames = Append(a.frames, fs[f])
    BY <1>1, <1>7, <1>9, <2>5, Zenon
  <2>7. Ends(b.frames, fs, f)
    BY <1>3, <1>7, <1>9, <2>5, <2>6, EndsMore, Zenon
  <2>8. QED
    BY <1>1, <1>9, <2>2, <2>3, <2>7, Zenon DEF At
<1>10. QED
  BY <1>5, <1>6, <1>8, <1>9, Zenon

\* A byte of a frame.
LEMMA AtByte ==
  ASSUME NEW fs \in Frames, NEW p, IsPlace(fs, p), NEW q, q = Behind(fs, p), IsPlace(fs, q),
         Entry(fs, q).stuff = TRUE,
         NEW a \in Accs, At(a, fs, p), NEW b, b = TakeStored(a, Entry(fs, q).byte)
  PROVE  At(b, fs, q) /\ Entry(fs, q).byte \in Byte
<1>1. PICK f, n : f = p.frame /\ n = p.index /\ f \in Nat /\ n \in Nat
  BY DEF IsPlace
<1>2. PICK g, m : g = q.frame /\ m = q.index
  BY Zenon
<1>3. g # 0 /\ m # 0 /\ m # Len(fs[g]) + 1
  <2>1. SUFFICES ASSUME g = 0 \/ m = 0 \/ m = Len(fs[g]) + 1
                 PROVE  FALSE
    OBVIOUS
  <2>2. Entry(fs, q) = Raw(FLAG)
    BY <1>2, <2>1, Zenon DEF Entry
  <2>3. QED
    BY <2>2 DEF Raw
<1>4. q = Place(f, n + 1) /\ n # (IF f = 0 THEN PreambleLen ELSE Len(fs[f]) + 1)
  <2>1. Place(f + 1, 0).index = 0
    BY DEF Place
  <2>2. QED
    BY <1>1, <1>2, <1>3, <2>1, Zenon DEF Behind
<1>5. g = f /\ m = n + 1
  BY <1>2, <1>4 DEF Place
<1>6. /\ f \in 1 .. Len(fs) /\ fs[f] \in Seq(Byte) /\ n + 1 \in 1 .. Len(fs[f])
      /\ fs[f][n + 1] \in Byte
  BY <1>1, <1>2, <1>3, <1>5 DEF IsPlace, Frames
<1>7. Entry(fs, q).byte = fs[f][n + 1]
  <2>1. Entry(fs, q) = Stuffed(fs[f][n + 1])
    BY <1>2, <1>3, <1>5, Zenon DEF Entry
  <2>2. QED
    BY <2>1 DEF Stuffed
<1>8. a.escape = FALSE /\ a.frame = SubSeq(fs[f], 1, n) /\ Ends(a.frames, fs, f - 1)
  BY <1>1, <1>3, <1>4, <1>5, Zenon DEF At
<1>9. b.escape = FALSE /\ b.frame = Append(a.frame, fs[f][n + 1]) /\ b.frames = a.frames
  <2>1. b = TakeStored(a, fs[f][n + 1])
    BY <1>7, Zenon
  <2>2. QED
    BY <1>6, <1>8, <2>1, TakeByte, Zenon
<1>10. Append(SubSeq(fs[f], 1, n), fs[f][n + 1]) = SubSeq(fs[f], 1, n + 1)
  BY <1>1, <1>6
<1>11. QED
  BY <1>2, <1>3, <1>5, <1>6, <1>7, <1>8, <1>9, <1>10, Zenon DEF At

\* The first flag that is sure to be recognised.
LEMMA AtSync ==
  ASSUME NEW fs \in Frames, NEW q, q = Behind(fs, Place(0, 1)),
         NEW a \in Accs, a.escape = FALSE, NEW b, b = Take(a, FLAG)
  PROVE  At(b, fs, q)
<1>1. b.escape = FALSE /\ b.frame = << >> /\ b \in Accs
  BY TakeFlag, Zenon
<1>2. b.frames \in Seq(Seq(Byte))
  BY <1>1 DEF Accs
<1>3. Ends(b.frames, fs, 0)
  BY <1>2 DEF Ends
<1>4. q.frame = 0 \/ (q.frame = 1 /\ q.index = 0)
  BY DEF Behind, Place
<1>5. 1 # 0 /\ 0 # Len(fs[1]) + 1 /\ SubSeq(fs[1], 1, 0) = << >> /\ 1 - 1 = 0
  <2>1. fs[1] \in Seq(Byte)
    BY DEF Frames
  <2>2. QED
    BY <2>1
<1>6. QED
  BY <1>1, <1>3, <1>4, <1>5, Zenon DEF At

\* The end.
LEMMA AtFinal ==
  ASSUME NEW fs \in Frames, NEW a \in Accs, At(a, fs, Final(fs))
  PROVE  IsSuffix(fs, a.frames)
<1>1. PICK N, t, L : N = Len(fs) /\ t = a.frames /\ L = Len(t)
  BY Zenon
<1>2. N \in Nat /\ N # 0 /\ t \in Seq(Seq(Byte)) /\ L \in Nat
  BY <1>1 DEF Frames, Accs
<1>3. Final(fs).frame = N /\ Final(fs).index = Len(fs[N]) + 1
  BY <1>1 DEF Final, Place
<1>4. Ends(t, fs, N)
  BY <1>1, <1>2, <1>3, Zenon DEF At
<1>5. N <= L /\ \A k \in 1 .. N : t[L - N + k] = fs[k]
  BY <1>1, <1>4, Zenon DEF Ends
<1>6. PICK u : u = SubSeq(t, L - N + 1, L)
  BY Zenon
<1>7. u = [k \in 1 .. N |-> t[L - N + k]]
  <2>1. L - (L - N + 1) + 1 = N /\ \A k \in 1 .. N : (L - N + 1) + k - 1 = L - N + k
    BY <1>2, <1>5
  <2>2. L - N + 1 \in Int /\ L \in Int
    BY <1>2
  <2>3. u = [k \in 1 .. L - (L - N + 1) + 1 |-> t[(L - N + 1) + k - 1]]
    BY <1>2, <1>6, <2>2
  <2>4. QED
    BY <2>1, <2>3
<1>8. fs = [k \in 1 .. N |-> fs[k]]
  BY <1>1 DEF Frames
<1>9. fs = u
  BY <1>5, <1>7, <1>8, Zenon
<1>10. QED
  BY <1>1, <1>5, <1>6, <1>9, Zenon DEF IsSuffix

-----------------------------------------------------------------------------
(* hdlc_parse(), by what the last bits are.                                    *)

\* What was received up to now, taken or still in the FIFO.
Heard == Deframe(got \o rx_fifo)

LEMMA HeardAcc ==
  ASSUME ParserInv, got \in Seq(Byte)
  PROVE  Heard \in Accs
<1>1. got \o rx_fifo \in Seq(Byte) /\ 0 \in Byte
  BY DEF ParserInv, Byte
<1>2. QED
  BY <1>1, DeframeAppend, Zenon DEF Heard

LEMMA HeardFlag ==
  ASSUME ParserInv, got \in Seq(Byte), got' = got, NEW bits, Flag(bits)
  PROVE  \/ overrun' = TRUE
         \/ /\ rxstart' = TRUE /\ overrun' = overrun /\ Heard' = Take(Heard, FLAG)
            /\ bit_idx' = 0 /\ currchar' = 0
<1>1. rx_fifo \in Seq(Byte) /\ overrun \in BOOLEAN
  BY Zenon DEF ParserInv
<1>2. CASE IsFull(rx_fifo)
  BY <1>2, Zenon DEF Flag
<1>3. CASE ~IsFull(rx_fifo)
  <2>1. /\ rxstart' = TRUE /\ overrun' = overrun /\ bit_idx' = 0 /\ currchar' = 0
        /\ rx_fifo' = Append(rx_fifo, FLAG)
    BY <1>1, <1>3, Zenon DEF Flag
  <2>2. got \o rx_fifo \in Seq(Byte) /\ FLAG \in Byte
    BY <1>1 DEF FLAG, Byte
  <2>3. got \o Append(rx_fifo, FLAG) = Append(got \o rx_fifo, FLAG)
    BY <1>1, <2>2
  <2>4. Heard' = Deframe(got' \o rx_fifo')
    BY Zenon DEF Heard
  <2>5. Heard' = Take(Heard, FLAG)
    BY <2>1, <2>2, <2>3, <2>4, DeframeAppend, Zenon DEF Heard
  <2>6. QED
    BY <2>1, <2>5, Zenon
<1>4. QED
  BY <1>2, <1>3, Zenon

LEMMA HeardByte ==
  ASSUME ParserInv, got \in Seq(Byte), got' = got, NEW c \in Byte, Push(c)
  PROVE  \/ overrun' = TRUE
         \/ rxstart' = TRUE /\ overrun' = overrun /\ Heard' = TakeStored(Heard, c)
<1>1. rx_fifo \in Seq(Byte) /\ overrun \in BOOLEAN
  BY Zenon DEF ParserInv
<1>2. PICK q : q = IF c \in {FLAG, RESET, ESC} /\ ~IsFull(rx_fifo)
                   THEN Append(rx_fifo, ESC) ELSE rx_fifo
  BY Zenon
<1>3. /\ rx_fifo' = IF IsFull(q) THEN q ELSE Append(q, c)
      /\ rxstart' = ~IsFull(q)
      /\ overrun' = (overrun \/ IsFull(q))
  BY <1>2, Zenon DEF Push
<1>4. CASE IsFull(q)
  BY <1>3, <1>4, Zenon
<1>5. CASE ~IsFull(q)
  <2>1. rxstart' = TRUE /\ overrun' = overrun /\ rx_fifo' = Append(q, c)
    BY <1>1, <1>3, <1>5, Zenon
  <2>2. PICK s : s = got \o rx_fifo
    BY Zenon
  <2>3. s \in Seq(Byte) /\ ESC \in Byte /\ Append(s, ESC) \in Seq(Byte)
    BY <1>1, <2>2 DEF ESC, Byte
  <2>4. Heard = Deframe(s) /\ Heard' = Deframe(got \o Append(q, c))
    BY <2>1, <2>2, Zenon DEF Heard
  <2>5. CASE c \in {FLAG, RESET, ESC}
    <3>1. q = Append(rx_fifo, ESC)
      BY <1>2, <1>5, <2>5, Zenon
    <3>2. got \o Append(q, c) = Append(Append(s, ESC), c)
      <4>1. q \in Seq(Byte) /\ got \o q = Append(s, ESC)
        BY <1>1, <2>2, <2>3, <3>1
      <4>2. got \o Append(q, c) = Append(got \o q, c)
        BY <4>1
      <4>3. QED
        BY <4>1, <4>2, Zenon
    <3>3. Deframe(Append(Append(s, ESC), c)) = Take(Take(Deframe(s), ESC), c)
      BY <2>3, DeframeAppend, Zenon
    <3>4. QED
      BY <2>1, <2>4, <2>5, <3>2, <3>3, Zenon DEF TakeStored
  <2>6. CASE c \notin {FLAG, RESET, ESC}
    <3>1. q = rx_fifo
      BY <1>2, <2>6, Zenon
    <3>2. got \o Append(q, c) = Append(s, c)
      BY <1>1, <2>2, <3>1
    <3>3. Deframe(Append(s, c)) = Take(Deframe(s), c)
      BY <2>3, DeframeAppend, Zenon
    <3>4. QED
      BY <2>1, <2>4, <2>6, <3>2, <3>3, Zenon DEF TakeStored
  <2>7. QED
    BY <2>5, <2>6, Zenon
<1>6. QED
  BY <1>4, <1>5, Zenon

\* What the parser keeps when it stores nothing.
Same == rxstart' = rxstart /\ overrun' = overrun /\ Heard' = Heard

LEMMA HeardSame ==
  ASSUME rx_fifo' = rx_fifo, got' = got
  PROVE  Heard' = Heard
<1>1. Heard' = Deframe(got' \o rx_fifo')
  BY Zenon DEF Heard
<1>2. QED
  BY <1>1, Zenon DEF Heard

\* The parser with a bit v that ends no flag and no abort and is not stuffed.
LEMMA PlainBit ==
  ASSUME ParserInv, got' = got, NEW v \in {0, 1}, hdlc_parse(v), Plain(Shift(demod_bits, v))
  PROVE  /\ demod_bits' = Shift(demod_bits, v)
         /\ \/ ~rxstart /\ Same /\ bit_idx' = bit_idx /\ currchar' = currchar
            \/ /\ rxstart /\ bit_idx # 7 /\ Same /\ bit_idx' = bit_idx + 1
               /\ currchar' = (currchar + 128 * v) \div 2
            \/ /\ rxstart /\ bit_idx = 7 /\ Push(currchar + 128 * v)
               /\ bit_idx' = 0 /\ currchar' = 0
<1>1. PICK bits : bits = Shift(demod_bits, v)
  BY Zenon
<1>2. bits % 2 = v
  <2>1. demod_bits \in 0 .. 255
    BY Zenon DEF ParserInv
  <2>2. QED
    BY <1>1, <2>1 DEF Shift
<1>3. demod_bits' = bits /\ (Skip(bits) \/ Collect(bits))
  BY <1>1, Zenon DEF hdlc_parse, Shift, Plain
<1>4. ~StuffedBit(bits)
  BY <1>1, Zenon DEF Plain
<1>5. CASE Skip(bits)
  BY <1>1, <1>3, <1>4, <1>5, HeardSame, Zenon DEF Skip, Same
<1>6. CASE Collect(bits)
  <2>1. /\ rxstart
        /\ IF bit_idx = 7
           THEN Push(currchar + 128 * v) /\ currchar' = 0 /\ bit_idx' = 0
           ELSE /\ currchar' = (currchar + 128 * v) \div 2
                /\ bit_idx' = bit_idx + 1
                /\ UNCHANGED <<rx_fifo, rxstart, overrun>>
    BY <1>2, <1>6, Zenon DEF Collect
  <2>2. QED
    BY <1>1, <1>3, <2>1, HeardSame, Zenon DEF Same
<1>7. QED
  BY <1>3, <1>5, <1>6, Zenon

\* The parser with a stuffed bit.
LEMMA SkippedBit ==
  ASSUME got' = got, NEW v \in {0, 1}, hdlc_parse(v), StuffedBit(Shift(demod_bits, v)),
         Shift(demod_bits, v) # FLAG, Shift(demod_bits, v) % 128 # RESET
  PROVE  /\ demod_bits' = Shift(demod_bits, v)
         /\ Same /\ bit_idx' = bit_idx /\ currchar' = currchar
<1>1. PICK bits : bits = Shift(demod_bits, v)
  BY Zenon
<1>2. demod_bits' = bits /\ (Skip(bits) \/ Collect(bits))
  BY <1>1, Zenon DEF hdlc_parse, Shift
<1>3. Skip(bits)
  BY <1>1, <1>2, Zenon DEF Collect
<1>4. QED
  BY <1>1, <1>2, <1>3, HeardSame, Zenon DEF Skip, Same

\* The parser with the end of a flag.
LEMMA EndOfFlag ==
  ASSUME ParserInv, got \in Seq(Byte), got' = got, NEW v \in {0, 1}, hdlc_parse(v),
         Shift(demod_bits, v) = FLAG
  PROVE  /\ demod_bits' = FLAG
         /\ \/ overrun' = TRUE
            \/ /\ rxstart' = TRUE /\ overrun' = overrun /\ Heard' = Take(Heard, FLAG)
               /\ bit_idx' = 0 /\ currchar' = 0
<1>1. demod_bits' = FLAG /\ Flag(FLAG)
  BY Zenon DEF hdlc_parse, Shift
<1>2. QED
  BY <1>1, HeardFlag, Zenon

\* The parser with any bit: an escape is not left alone, unless there was no room.
LEMMA NoLoneEscape ==
  ASSUME ParserInv, got \in Seq(Byte), got' = got, NEW v \in {0, 1}, hdlc_parse(v)
  PROVE  /\ demod_bits' = Shift(demod_bits, v)
         /\ overrun = TRUE => overrun' = TRUE
         /\ Heard.escape = FALSE => overrun' = TRUE \/ Heard'.escape = FALSE
<1>1. PICK bits : bits = Shift(demod_bits, v)
  BY Zenon
<1>2. /\ demod_bits' = bits
      /\ Flag(bits) \/ Reset(bits) \/ Skip(bits) \/ Collect(bits)
  BY <1>1, Zenon DEF hdlc_parse, Shift
<1>3. Heard \in Accs
  BY HeardAcc, Zenon
<1>4. CASE Flag(bits)
  <2>1. overrun' = TRUE \/ (overrun' = overrun /\ Heard' = Take(Heard, FLAG))
    BY <1>4, HeardFlag, Zenon
  <2>2. QED
    BY <1>1, <1>2, <1>3, <2>1, TakeFlag, Zenon
<1>5. CASE Reset(bits)
  <2>1. overrun' = overrun /\ Heard' = Heard
    BY <1>5, HeardSame, Zenon DEF Reset
  <2>2. QED
    BY <1>1, <1>2, <2>1, Zenon
<1>6. CASE Skip(bits)
  <2>1. overrun' = overrun /\ Heard' = Heard
    BY <1>6, HeardSame, Zenon DEF Skip
  <2>2. QED
    BY <1>1, <1>2, <2>1, Zenon
<1>7. CASE Collect(bits)
  <2>1. PICK c : c = currchar + 128 * (bits % 2)
    BY Zenon
  <2>2. c \in Byte
    <3>1. demod_bits \in 0 .. 255 /\ currchar \in 0 .. 127
      BY Zenon DEF ParserInv
    <3>2. bits \in 0 .. 255 /\ bits % 2 = v
      BY <1>1, <3>1 DEF Shift
    <3>3. QED
      BY <2>1, <3>1, <3>2 DEF Byte
  <2>3. Push(c) \/ UNCHANGED <<rx_fifo, rxstart, overrun>>
    BY <1>7, <2>1, Zenon DEF Collect
  <2>4. CASE Push(c)
    <3>1. overrun' = TRUE \/ (overrun' = overrun /\ Heard' = TakeStored(Heard, c))
      BY <2>2, <2>4, HeardByte, Zenon
    <3>2. QED
      BY <1>1, <1>2, <1>3, <2>2, <3>1, TakeByte, Zenon
  <2>5. CASE UNCHANGED <<rx_fifo, rxstart, overrun>>
    <3>1. overrun' = overrun /\ Heard' = Heard
      BY <2>5, HeardSame, Zenon
    <3>2. QED
      BY <1>1, <1>2, <3>1, Zenon
  <2>6. QED
    BY <2>3, <2>4, <2>5, Zenon
<1>8. QED
  BY <1>2, <1>4, <1>5, <1>6, <1>7, Zenon

-----------------------------------------------------------------------------
(* One bit time.                                                               *)

\* The bits before the one under the mask m of the entry behind b.
Ready(b, m, c, st, k, d) ==
  IF st THEN b # Start /\ Ones(d, k)
  ELSE c = FLAG /\ IF b = Start THEN BluntBits(m, d) ELSE FlagBits(m, d)

\* The bits when the entry at b is sent.
Between(b, st, k, d) == IF b = Start THEN st = FALSE ELSE Ones(d, IF st THEN k ELSE 0)

\* What the parser has collected of the entry behind b.
Collected(m, c, st, i, h) ==
  IF m = 0 THEN i = 0 /\ h = 0
  ELSE IF st THEN i = Idx(m) /\ h = Part(c, m)
  ELSE i <= Idx(m)

\* The entry at b is not one that could be missed.
Synced(b) == b # Start /\ b # Place(0, 1)

Gathered(fs, b, m, c, st, o, r, a, i, h) ==
  Synced(b) /\ o = FALSE => r = TRUE /\ At(a, fs, b) /\ Collected(m, c, st, i, h)

\* SendBit: the bit v, and mask and counter after it.
Sends(c, m, st, k, v, m2, k2) ==
  IF st /\ k >= BIT_STUFF_LEN
  THEN v = 0 /\ m2 = m /\ k2 = 0
  ELSE NextBit(c, m, v, m2) /\ k2 = IF v = 1 THEN k + 1 ELSE 0

\* What holds after a bit, within the entry or at its end.
After(fs, b, m, c, st, k, d, o, r, a, i, h) ==
  \/ m \in Masks /\ Ready(b, m, c, st, k, d) /\ Gathered(fs, b, m, c, st, o, r, a, i, h)
  \/ /\ m = 0 /\ Between(Behind(fs, b), st, k, d)
     /\ Gathered(fs, Behind(fs, b), m, c, st, o, r, a, i, h)

LEMMA MaskNotZero ==
  ASSUME NEW m \in Masks
  PROVE  m # 0
BY DEF Masks

LEMMA NeverStart ==
  ASSUME NEW fs \in Frames, NEW b, IsPlace(fs, b)
  PROVE  Behind(fs, b) # Start
BY DEF IsPlace, Behind, Place, Start

LEMMA FirstBehind ==
  ASSUME NEW fs
  PROVE  Behind(fs, Start) = Place(0, 1)
<1>1. PreambleLen # 0
  BY TransmissionAssumption
<1>2. QED
  BY <1>1 DEF Behind, Place, Start

\* The first two entries are flags.
LEMMA StuffedSynced ==
  ASSUME NEW fs \in Frames, NEW b, IsPlace(fs, b), Entry(fs, Behind(fs, b)).stuff = TRUE
  PROVE  Synced(b)
<1>1. SUFFICES ASSUME b = Start \/ b = Place(0, 1)
               PROVE  Entry(fs, Behind(fs, b)).stuff = FALSE
  BY Zenon DEF Synced
<1>2. b.frame = 0
  BY <1>1 DEF Start, Place
<1>3. Behind(fs, b).frame = 0 \/ Behind(fs, b).index = 0
  BY <1>2 DEF Behind, Place
<1>4. Entry(fs, Behind(fs, b)) = Raw(FLAG)
  BY <1>3, Zenon DEF Entry
<1>5. QED
  BY <1>4 DEF Raw

\* A bit of a byte that goes out with stuffing, or the stuffed zero.
LEMMA StuffedStep ==
  ASSUME ParserInv, got \in Seq(Byte), got' = got,
         NEW fs \in Frames, NEW b, IsPlace(fs, b), NEW q, q = Behind(fs, b), IsPlace(fs, q),
         NEW m \in Masks, NEW c \in Byte, c = Entry(fs, q).byte, Entry(fs, q).stuff = TRUE, NEW k,
         Ready(b, m, c, TRUE, k, demod_bits),
         Gathered(fs, b, m, c, TRUE, overrun, rxstart, Heard, bit_idx, currchar),
         NEW v, NEW m2, NEW k2, Sends(c, m, TRUE, k, v, m2, k2), hdlc_parse(v)
  PROVE  After(fs, b, m2, c, TRUE, k2, demod_bits', overrun', rxstart', Heard', bit_idx', currchar')
<1>1. PICK d : d = demod_bits
  BY Zenon
<1>2. d \in 0 .. 255 /\ bit_idx \in 0 .. 7 /\ overrun \in BOOLEAN
  BY <1>1, Zenon DEF ParserInv
<1>3. b # Start /\ Ones(d, k) /\ Synced(b)
  BY <1>1, StuffedSynced, Zenon DEF Ready
<1>4. k \in 0 .. 5 /\ (k >= BIT_STUFF_LEN <=> k = 5) /\ (k # 5 => k \in 0 .. 4)
  BY <1>3 DEF Ones, BIT_STUFF_LEN
<1>5. overrun = FALSE =>
        rxstart = TRUE /\ At(Heard, fs, b) /\ bit_idx = Idx(m) /\ currchar = Part(c, m)
  BY <1>3, MaskNotZero, Zenon DEF Gathered, Collected
<1>6. CASE k = 5
  <2>1. v = 0 /\ m2 = m /\ k2 = 0
    BY <1>4, <1>6, Zenon DEF Sends
  <2>2. /\ Shift(d, v) # FLAG /\ Shift(d, v) % 128 # RESET /\ StuffedBit(Shift(d, v))
        /\ Ones(Shift(d, v), 0)
    BY <1>2, <1>3, <1>6, <2>1, FiveOnes, Zenon
  <2>3. demod_bits' = Shift(d, v) /\ Same /\ bit_idx' = bit_idx /\ currchar' = currchar
    <3>1. v \in {0, 1}
      BY <2>1, Zenon
    <3>2. QED
      BY <1>1, <2>2, <3>1, SkippedBit, Zenon
  <2>4. Ready(b, m2, c, TRUE, k2, demod_bits')
    BY <1>3, <2>1, <2>2, <2>3, Zenon DEF Ready
  <2>5. Gathered(fs, b, m2, c, TRUE, overrun', rxstart', Heard', bit_idx', currchar')
    BY <2>1, <2>3, Zenon DEF Gathered, Same
  <2>6. QED
    BY <2>1, <2>4, <2>5, Zenon DEF After
<1>7. CASE k # 5
  <2>1. NextBit(c, m, v, m2) /\ k2 = IF v = 1 THEN k + 1 ELSE 0
    BY <1>4, <1>7, Zenon DEF Sends
  <2>2. v \in {0, 1}
    BY <2>1, BitOf, Zenon
  <2>3. Plain(Shift(d, v)) /\ Ones(Shift(d, v), k2)
    BY <1>2, <1>3, <1>4, <1>7, <2>1, <2>2, DataBit, Zenon
  <2>4. overrun = TRUE => overrun' = TRUE
    BY <2>2, NoLoneEscape, Zenon
  <2>5. demod_bits' = Shift(d, v)
    BY <1>1, <2>2, NoLoneEscape, Zenon
  <2>6. \/ ~rxstart
        \/ /\ bit_idx # 7 /\ Same /\ bit_idx' = bit_idx + 1
           /\ currchar' = (currchar + 128 * v) \div 2
        \/ /\ bit_idx = 7 /\ Push(currchar + 128 * v)
           /\ bit_idx' = 0 /\ currchar' = 0
    BY <1>1, <2>2, <2>3, PlainBit, Zenon
  <2>7. Grows(c, m, v, m2)
    BY <2>1, PartGrows, Zenon
  <2>8. CASE m2 # 0
    <3>1. m2 \in Masks /\ Idx(m) # 7 /\ Idx(m2) = Idx(m) + 1
      BY <2>8, <2>7, Zenon DEF Grows
    <3>2. (Part(c, m) + 128 * v) \div 2 = Part(c, m2)
      BY <2>8, <2>7, Zenon DEF Grows
    <3>3. Ready(b, m2, c, TRUE, k2, demod_bits')
      BY <1>3, <2>3, <2>5, Zenon DEF Ready
    <3>4. ASSUME overrun' = FALSE
          PROVE  /\ rxstart' = TRUE /\ At(Heard', fs, b)
                 /\ bit_idx' = Idx(m2) /\ currchar' = Part(c, m2)
      <4>1. overrun = FALSE
        BY <1>2, <2>4, <3>4, Zenon
      <4>2. Same /\ bit_idx' = bit_idx + 1 /\ currchar' = (currchar + 128 * v) \div 2
        BY <1>5, <2>6, <3>1, <4>1, Zenon
      <4>3. QED
        BY <1>5, <3>1, <3>2, <4>1, <4>2, Zenon DEF Same
    <3>5. Gathered(fs, b, m2, c, TRUE, overrun', rxstart', Heard', bit_idx', currchar')
      BY <3>1, <3>4, MaskNotZero, Zenon DEF Gathered, Collected
    <3>6. QED
      BY <3>1, <3>3, <3>5, Zenon DEF After
  <2>9. CASE m2 = 0
    <3>1. m2 = 0 /\ Idx(m) = 7 /\ Part(c, m) + 128 * v = c
      BY <2>9, <2>7, MaskNotZero, Zenon DEF Grows
    <3>2. Between(q, TRUE, k2, demod_bits')
      BY <2>3, <2>5, NeverStart, Zenon DEF Between
    <3>3. ASSUME overrun' = FALSE
          PROVE  /\ rxstart' = TRUE /\ At(Heard', fs, q)
                 /\ bit_idx' = 0 /\ currchar' = 0
      <4>1. overrun = FALSE
        BY <1>2, <2>4, <3>3, Zenon
      <4>2. Push(c) /\ bit_idx' = 0 /\ currchar' = 0
        BY <1>5, <2>6, <3>1, <4>1, Zenon
      <4>3. rxstart' = TRUE /\ Heard' = TakeStored(Heard, c)
        BY <3>3, <4>2, HeardByte, Zenon
      <4>4. Heard \in Accs
        BY HeardAcc, Zenon
      <4>5. At(Heard', fs, q)
        BY <1>5, <4>1, <4>3, <4>4, AtByte, Zenon
      <4>6. QED
        BY <4>2, <4>3, <4>5, Zenon
    <3>4. Gathered(fs, q, m2, c, TRUE, overrun', rxstart', Heard', bit_idx', currchar')
      BY <3>1, <3>3, Zenon DEF Gathered, Collected
    <3>5. QED
      BY <3>1, <3>2, <3>4, Zenon DEF After
  <2>10. QED
    BY <2>8, <2>9, Zenon
<1>8. QED
  BY <1>6, <1>7, Zenon

\* The bits of a flag.
InFlag(m, v, m2) ==
  \/ m = 1 /\ v = 0 /\ m2 = 2
  \/ m \in {2, 4, 8, 16, 32, 64} /\ v = 1 /\ m2 = 2 * m
  \/ m = 128 /\ v = 0 /\ m2 = 0

LEMMA BitsOfFlag ==
  ASSUME NEW m \in Masks, NEW v, NEW m2, NextBit(FLAG, m, v, m2)
  PROVE  InFlag(m, v, m2)
<1>1. CASE m = 1
  BY <1>1 DEF NextBit, InFlag, FLAG
<1>2. CASE m = 128
  BY <1>2 DEF NextBit, InFlag, FLAG
<1>3. CASE m \in {2, 4, 8, 16, 32, 64}
  BY <1>3 DEF NextBit, InFlag, FLAG
<1>4. QED
  BY <1>1, <1>2, <1>3 DEF Masks

LEMMA NextMask ==
  ASSUME NEW m \in {2, 4, 8, 16, 32, 64}, NEW i \in 0 .. 7, i <= Idx(m)
  PROVE  2 * m \in Masks /\ i # 7 /\ i + 1 <= Idx(2 * m)
BY DEF Idx, Masks

\* A bit of the first flag.  It may be taken for something else.
LEMMA BluntStep ==
  ASSUME ParserInv, got \in Seq(Byte), got' = got, NEW fs \in Frames,
         NEW m \in Masks, BluntBits(m, demod_bits),
         NEW v, NEW m2, NEW k2, InFlag(m, v, m2), hdlc_parse(v)
  PROVE  After(fs, Start, m2, FLAG, FALSE, k2, demod_bits',
               overrun', rxstart', Heard', bit_idx', currchar')
<1>1. PICK d : d = demod_bits
  BY Zenon
<1>2. d \in 0 .. 255
  BY <1>1, Zenon DEF ParserInv
<1>3. demod_bits' = Shift(d, v)
  <2>1. v \in {0, 1}
    BY Zenon DEF InFlag
  <2>2. QED
    BY <1>1, <2>1, NoLoneEscape, Zenon
<1>4. ~Synced(Start) /\ ~Synced(Behind(fs, Start)) /\ Behind(fs, Start) # Start
  <2>1. Behind(fs, Start) = Place(0, 1)
    BY FirstBehind, Zenon
  <2>2. Place(0, 1) # Start
    BY DEF Place, Start
  <2>3. QED
    BY <2>1, <2>2, Zenon DEF Synced
<1>5. CASE m = 128
  <2>1. m2 = 0 /\ v = 0
    BY <1>5 DEF InFlag
  <2>2. Ones(demod_bits', 0)
    BY <1>2, <1>3, <2>1, BluntEnd, Zenon
  <2>3. QED
    BY <1>4, <2>1, <2>2, Zenon DEF After, Between, Gathered
<1>6. CASE m # 128
  <2>1. m2 \in Masks /\ BluntBits(m2, demod_bits')
    <3>1. CASE m = 1
      <4>1. m2 = 2
        BY <3>1 DEF InFlag
      <4>2. QED
        BY <4>1, Zenon DEF Masks, BluntBits
    <3>2. CASE m # 1
      <4>1. m \in {2, 4, 8, 16, 32, 64} /\ v = 1 /\ m2 = 2 * m
        BY <1>6, <3>2, Zenon DEF InFlag
      <4>2. 2 * m \in Masks
        BY <4>1 DEF Masks
      <4>3. BluntBits(2 * m, Shift(d, 1))
        BY <1>1, <1>2, <4>1, BluntMiddle, Zenon
      <4>4. QED
        BY <1>3, <4>1, <4>2, <4>3, Zenon
    <3>3. QED
      BY <3>1, <3>2, Zenon
  <2>2. QED
    BY <1>4, <2>1, Zenon DEF After, Ready, Gathered
<1>7. QED
  BY <1>5, <1>6, Zenon

\* A bit of any other flag.
LEMMA FlagStepBit ==
  ASSUME ParserInv, got \in Seq(Byte), got' = got, NEW fs \in Frames,
         NEW b, IsPlace(fs, b), b # Start, NEW q, q = Behind(fs, b), IsPlace(fs, q),
         Entry(fs, q).stuff = FALSE, overrun = TRUE \/ Heard.escape = FALSE,
         NEW m \in Masks, FlagBits(m, demod_bits),
         Gathered(fs, b, m, FLAG, FALSE, overrun, rxstart, Heard, bit_idx, currchar),
         NEW v, NEW m2, NEW k2, InFlag(m, v, m2), hdlc_parse(v)
  PROVE  After(fs, b, m2, FLAG, FALSE, k2, demod_bits',
               overrun', rxstart', Heard', bit_idx', currchar')
<1>1. PICK d : d = demod_bits
  BY Zenon
<1>2. d \in 0 .. 255 /\ bit_idx \in 0 .. 7 /\ overrun \in BOOLEAN
  BY <1>1, Zenon DEF ParserInv
<1>3. v \in {0, 1}
  BY Zenon DEF InFlag
<1>4. demod_bits' = Shift(d, v) /\ (overrun = TRUE => overrun' = TRUE)
  BY <1>1, <1>3, NoLoneEscape, Zenon
<1>5. Synced(b) /\ overrun = FALSE => rxstart = TRUE /\ At(Heard, fs, b) /\ bit_idx <= Idx(m)
  BY MaskNotZero, Zenon DEF Gathered, Collected
<1>6. CASE m = 1
  <2>1. v = 0 /\ m2 = 2 /\ m2 \in Masks
    BY <1>6 DEF InFlag, Masks
  <2>2. Shift(d, v) # FLAG /\ Shift(d, v) % 128 # RESET /\ FlagBits(m2, demod_bits')
    BY <1>1, <1>2, <1>4, <1>6, <2>1, FirstOfFlag, Zenon
  <2>3. ASSUME Synced(b), overrun' = FALSE
        PROVE  rxstart' = TRUE /\ At(Heard', fs, b) /\ bit_idx' <= Idx(m2)
    <3>1. overrun = FALSE
      BY <1>2, <1>4, <2>3, Zenon
    <3>2. rxstart = TRUE /\ At(Heard, fs, b) /\ bit_idx <= Idx(m)
      BY <1>5, <2>3, <3>1, Zenon
    <3>3. bit_idx = 0 /\ bit_idx # 7
      BY <1>2, <1>6, <3>2 DEF Idx
    <3>4. Same /\ (bit_idx' = bit_idx \/ bit_idx' = bit_idx + 1)
      <4>1. CASE StuffedBit(Shift(d, v))
        BY <1>1, <1>3, <2>2, <4>1, SkippedBit, Zenon
      <4>2. CASE ~StuffedBit(Shift(d, v))
        <5>1. Plain(Shift(demod_bits, v))
          BY <1>1, <2>2, <4>2, Zenon DEF Plain
        <5>2. QED
          BY <1>3, <3>2, <3>3, <5>1, PlainBit, Zenon
      <4>3. QED
        BY <4>1, <4>2, Zenon
    <3>5. bit_idx' <= Idx(m2)
      BY <2>1, <3>3, <3>4 DEF Idx
    <3>6. QED
      BY <3>2, <3>4, <3>5, Zenon DEF Same
  <2>4. QED
    BY <2>1, <2>2, <2>3, MaskNotZero, Zenon DEF After, Ready, Gathered, Collected
<1>7. CASE m = 128
  <2>1. v = 0 /\ m2 = 0
    BY <1>7 DEF InFlag
  <2>2. Shift(demod_bits, v) = FLAG
    BY <1>1, <1>2, <1>7, <2>1, LastOfFlag, Zenon
  <2>3. /\ demod_bits' = FLAG
        /\ \/ overrun' = TRUE
           \/ /\ rxstart' = TRUE /\ overrun' = overrun /\ Heard' = Take(Heard, FLAG)
              /\ bit_idx' = 0 /\ currchar' = 0
    BY <1>3, <2>2, EndOfFlag, Zenon
  <2>4. Ones(demod_bits', 0)
    BY <2>3 DEF Ones, FLAG
  <2>5. Between(q, FALSE, k2, demod_bits')
    BY <2>4, NeverStart, Zenon DEF Between
  <2>6. ASSUME overrun' = FALSE
        PROVE  rxstart' = TRUE /\ At(Heard', fs, q) /\ bit_idx' = 0 /\ currchar' = 0
    <3>1. /\ overrun = FALSE /\ Heard.escape = FALSE
          /\ rxstart' = TRUE /\ Heard' = Take(Heard, FLAG) /\ bit_idx' = 0 /\ currchar' = 0
      BY <1>2, <1>4, <2>3, <2>6, Zenon
    <3>2. Heard \in Accs
      BY HeardAcc, Zenon
    <3>3. CASE Synced(b)
      BY <1>5, <3>1, <3>2, <3>3, AtFlag, Zenon
    <3>4. CASE ~Synced(b)
      <4>1. q = Behind(fs, Place(0, 1))
        BY <3>4, Zenon DEF Synced
      <4>2. QED
        BY <3>1, <3>2, <4>1, AtSync, Zenon
    <3>5. QED
      BY <3>3, <3>4, Zenon
  <2>7. QED
    BY <2>1, <2>5, <2>6, Zenon DEF After, Gathered, Collected
<1>8. CASE m # 1 /\ m # 128
  <2>1. m \in {2, 4, 8, 16, 32, 64} /\ v = 1 /\ m2 = 2 * m
    BY <1>8, Zenon DEF InFlag
  <2>2. Plain(Shift(d, v)) /\ FlagBits(m2, demod_bits')
    BY <1>1, <1>2, <1>4, <2>1, MiddleOfFlag, Zenon
  <2>3. m2 \in Masks
    BY <2>1 DEF Masks
  <2>4. ASSUME Synced(b), overrun' = FALSE
        PROVE  rxstart' = TRUE /\ At(Heard', fs, b) /\ bit_idx' <= Idx(m2)
    <3>1. overrun = FALSE
      BY <1>2, <1>4, <2>4, Zenon
    <3>2. rxstart = TRUE /\ At(Heard, fs, b) /\ bit_idx <= Idx(m)
      BY <1>5, <2>4, <3>1, Zenon
    <3>3. bit_idx # 7 /\ bit_idx + 1 <= Idx(m2)
      BY <1>2, <2>1, <3>2, NextMask, Zenon
    <3>4. Same /\ bit_idx' = bit_idx + 1
      BY <1>1, <1>3, <2>2, <3>2, <3>3, PlainBit, Zenon
    <3>5. QED
      BY <3>2, <3>3, <3>4, Zenon DEF Same
  <2>5. QED
    BY <2>2, <2>3, <2>4, MaskNotZero, Zenon DEF After, Ready, Gathered, Collected
<1>9. QED
  BY <1>6, <1>7, <1>8, Zenon

\* The entry e is being sent: m is the mask of its next bit, k the ones before it.
Sending(fs, b, s, e, m, k, d, o, r, a, i, h) ==
  /\ e \in Items /\ m \in Masks /\ s \in Seq(Items)
  /\ Leads(fs, b, <<e>> \o s, Final(fs))
  /\ Ready(b, m, e.byte, e.stuff, k, d)
  /\ Gathered(fs, b, m, e.byte, e.stuff, o, r, a, i, h)

\* All before the place b is sent, and received, unless there was an overrun or it came
\* too early.
Link(fs, b, s, m, c, st, k, tn, ln, d, o, r, a, i, h) ==
  \/ /\ m = 0 /\ s \in Seq(Items) /\ Leads(fs, b, s, Final(fs))
     /\ b = Start \/ ln = tn
     /\ Between(b, st, k, d)
     /\ Gathered(fs, b, m, c, st, o, r, a, i, h)
  \/ /\ Sending(fs, b, s, [byte |-> c, stuff |-> st], m, k, d, o, r, a, i, h)
     /\ ln = tn

LinkNow(b) == Link(sent, b, todo, tx_bit, curr_out, bit_stuff, stuff_cnt, tone, line,
                   demod_bits, overrun, rxstart, Heard, bit_idx, currchar)

LEMMA OnesUpToFive ==
  ASSUME NEW d, NEW k, Ones(d, k)
  PROVE  k \in 0 .. 5
BY DEF Ones

LEMMA EntryIs ==
  ASSUME NEW fs, NEW q, NEW e, e = Entry(fs, q)
  PROVE  e.stuff \in BOOLEAN /\ (e.stuff = FALSE => e.byte = FLAG)
BY DEF Entry, Raw, Stuffed

\* afsk_dac_isr() takes an entry.
LEMMA BeginEntry ==
  ASSUME ParserInv, sent \in Frames, NEW b, LinkNow(b), tx_bit = 0, todo # << >>
  PROVE  Sending(sent, b, Tail(todo), Head(todo), 1, IF bit_stuff THEN stuff_cnt ELSE 0,
                 demod_bits, overrun, rxstart, Heard, bit_idx, currchar)
<1>1. PICK e, k, q : /\ e = Head(todo) /\ q = Behind(sent, b)
                     /\ k = IF bit_stuff THEN stuff_cnt ELSE 0
  BY Zenon
<1>2. /\ todo \in Seq(Items) /\ Leads(sent, b, todo, Final(sent))
      /\ Between(b, bit_stuff, stuff_cnt, demod_bits)
      /\ Gathered(sent, b, 0, curr_out, bit_stuff, overrun, rxstart, Heard, bit_idx, currchar)
  BY MaskNotZero, Zenon DEF LinkNow, Link, Sending
<1>3. e \in Items /\ Tail(todo) \in Seq(Items) /\ <<e>> \o Tail(todo) = todo
  BY <1>1, <1>2
<1>4. IsPlace(sent, b) /\ e = Entry(sent, q)
  BY <1>1, <1>2, LeadsTail, Zenon
<1>5. e.stuff \in BOOLEAN /\ e.byte \in Byte /\ (e.stuff = FALSE => e.byte = FLAG)
  <2>1. e.byte \in Byte
    BY <1>3 DEF Items
  <2>2. QED
    BY <1>4, <2>1, EntryIs, Zenon
<1>6. b # Start => Ones(demod_bits, k)
  BY <1>1, <1>2, Zenon DEF Between
<1>7. Ready(b, 1, e.byte, e.stuff, k, demod_bits)
  <2>1. CASE e.stuff = TRUE
    <3>1. b # Start
      BY <1>1, <1>4, <2>1, StuffedSynced, Zenon DEF Synced
    <3>2. QED
      BY <1>6, <2>1, <3>1, Zenon DEF Ready
  <2>2. CASE e.stuff = FALSE
    <3>1. b = Start => BluntBits(1, demod_bits)
      BY Zenon DEF BluntBits
    <3>2. b # Start => FlagBits(1, demod_bits)
      BY <1>6, OnesUpToFive, Zenon DEF FlagBits
    <3>3. QED
      BY <1>5, <2>2, <3>1, <3>2, Zenon DEF Ready
  <2>3. QED
    BY <1>5, <2>1, <2>2, Zenon
<1>8. Gathered(sent, b, 1, e.byte, e.stuff, overrun, rxstart, Heard, bit_idx, currchar)
  <2>1. bit_idx = 0 /\ currchar = 0 => Collected(1, e.byte, e.stuff, bit_idx, currchar)
    <3>1. Idx(1) = 0 /\ Part(e.byte, 1) = 0 /\ 1 # 0 /\ 0 <= 0
      BY <1>5, PartFirst
    <3>2. QED
      BY <3>1, Zenon DEF Collected
  <2>2. Collected(0, curr_out, bit_stuff, bit_idx, currchar) => bit_idx = 0 /\ currchar = 0
    BY Zenon DEF Collected
  <2>3. QED
    BY <1>2, <2>1, <2>2, Zenon DEF Gathered
<1>9. 1 \in Masks
  BY DEF Masks
<1>10. QED
  BY <1>1, <1>2, <1>3, <1>7, <1>8, <1>9, Zenon DEF Sending

\* A bit and what it leaves.
LEMMA SendingStep ==
  ASSUME ParserInv, got \in Seq(Byte), got' = got, overrun = TRUE \/ Heard.escape = FALSE,
         NEW fs \in Frames, NEW b, NEW s, NEW e, NEW m, NEW k,
         Sending(fs, b, s, e, m, k, demod_bits, overrun, rxstart, Heard, bit_idx, currchar),
         NEW v, NEW m2, NEW k2, Sends(e.byte, m, e.stuff, k, v, m2, k2),
         NEW w \in {0, 1}, hdlc_parse(w), w = v \/ (b = Start /\ m = 1)
  PROVE  After(fs, b, m2, e.byte, e.stuff, k2, demod_bits', overrun', rxstart', Heard',
               bit_idx', currchar')
<1>1. PICK q : q = Behind(fs, b)
  BY Zenon
<1>2. PICK t : t = <<e>> \o s
  BY Zenon
<1>3. /\ e \in Items /\ m \in Masks /\ s \in Seq(Items) /\ Leads(fs, b, t, Final(fs))
      /\ Ready(b, m, e.byte, e.stuff, k, demod_bits)
      /\ Gathered(fs, b, m, e.byte, e.stuff, overrun, rxstart, Heard, bit_idx, currchar)
  BY <1>2, Zenon DEF Sending
<1>4. t \in Seq(Items) /\ t # << >> /\ Head(t) = e
  BY <1>2, <1>3
<1>5. IsPlace(fs, b) /\ IsPlace(fs, q) /\ e = Entry(fs, q)
  BY <1>1, <1>3, <1>4, LeadsTail, Zenon
<1>6. e.stuff \in BOOLEAN /\ e.byte \in Byte /\ (e.stuff = FALSE => e.byte = FLAG)
  <2>1. e.byte \in Byte
    BY <1>3 DEF Items
  <2>2. QED
    BY <1>5, <2>1, EntryIs, Zenon
<1>7. CASE e.stuff = TRUE
  <2>1. w = v
    BY <1>3, <1>7, Zenon DEF Ready
  <2>2. QED
    BY <1>1, <1>3, <1>5, <1>6, <1>7, <2>1, StuffedStep, Zenon
<1>8. CASE e.stuff = FALSE
  <2>1. e.byte = FLAG /\ NextBit(FLAG, m, v, m2)
    BY <1>6, <1>8, Zenon DEF Sends
  <2>2. InFlag(m, v, m2)
    BY <1>3, <2>1, BitsOfFlag, Zenon
  <2>3. CASE b = Start /\ m = 1
    <3>1. m2 = 2
      BY <2>2, <2>3 DEF InFlag
    <3>2. m2 \in Masks /\ BluntBits(m2, demod_bits') /\ ~Synced(b)
      BY <2>3, <3>1, Zenon DEF Masks, BluntBits, Synced
    <3>3. QED
      BY <1>8, <2>1, <2>3, <3>2, Zenon DEF After, Ready, Gathered
  <2>4. CASE b = Start /\ m # 1
    <3>1. BluntBits(m, demod_bits) /\ w = v
      BY <1>3, <1>8, <2>4, Zenon DEF Ready
    <3>2. QED
      BY <1>3, <1>8, <2>1, <2>2, <2>4, <3>1, BluntStep, Zenon
  <2>5. CASE b # Start
    <3>1. FlagBits(m, demod_bits) /\ w = v
      BY <1>3, <1>8, <2>5, Zenon DEF Ready
    <3>2. Gathered(fs, b, m, FLAG, FALSE, overrun, rxstart, Heard, bit_idx, currchar)
      BY <1>3, <1>8, <2>1, Zenon
    <3>3. Entry(fs, q).stuff = FALSE
      BY <1>5, <1>8, Zenon
    <3>4. After(fs, b, m2, FLAG, FALSE, k2, demod_bits',
                overrun', rxstart', Heard', bit_idx', currchar')
      BY <1>1, <1>3, <1>5, <2>2, <2>5, <3>1, <3>2, <3>3, FlagStepBit, Zenon
    <3>5. QED
      BY <1>8, <2>1, <3>4, Zenon
  <2>6. QED
    BY <2>3, <2>4, <2>5, Zenon
<1>9. QED
  BY <1>6, <1>7, <1>8, Zenon

\* What the tones are.
LEMMA ToneOfBit ==
  ASSUME tone \in {0, 1}, NEW c, NEW m, NEW st, NEW k, SendBit(c, m, st, k)
  PROVE  \E v : /\ Sends(c, m, st, k, v, tx_bit', stuff_cnt')
                /\ tone' = (IF v = 1 THEN tone ELSE 1 - tone)
<1>1. SwitchTone = 1 - tone
  BY DEF SwitchTone, Mark, Space
<1>2. CASE st /\ k >= BIT_STUFF_LEN
  <2>1. stuff_cnt' = 0 /\ tone' = 1 - tone /\ tx_bit' = m
    BY <1>1, <1>2, Zenon DEF SendBit
  <2>2. 0 # 1
    OBVIOUS
  <2>3. QED
    BY <1>2, <2>1, <2>2, Zenon DEF Sends
<1>3. CASE ~(st /\ k >= BIT_STUFF_LEN)
  <2>1. PICK v : v = (c \div m) % 2
    BY Zenon
  <2>2. /\ stuff_cnt' = IF v = 1 THEN k + 1 ELSE 0
        /\ tone' = IF v = 1 THEN tone ELSE 1 - tone
        /\ tx_bit' = (2 * m) % 256
    BY <1>1, <1>3, <2>1, Zenon DEF SendBit
  <2>3. QED
    BY <1>3, <2>1, <2>2, Zenon DEF Sends, NextBit
<1>4. QED
  BY <1>2, <1>3, Zenon

\* One bit time of a transmission, from where the transmitter is.
LEMMA LinkFrom ==
  ASSUME ParserInv, got \in Seq(Byte), got' = got, overrun = TRUE \/ Heard.escape = FALSE,
         sent \in Frames, sent' = sent, tone \in {0, 1}, line' = tone', Receive,
         NEW b, NEW e, NEW m, NEW k,
         Sending(sent, b, todo', e, m, k, demod_bits, overrun, rxstart, Heard, bit_idx, currchar),
         SendBit(e.byte, m, e.stuff, k), curr_out' = e.byte, bit_stuff' = e.stuff,
         line = tone \/ (b = Start /\ m = 1)
  PROVE  tone' \in {0, 1} /\ \E p : LinkNow(p)'
<1>1. PICK v : /\ Sends(e.byte, m, e.stuff, k, v, tx_bit', stuff_cnt')
               /\ tone' = (IF v = 1 THEN tone ELSE 1 - tone)
  BY ToneOfBit, Zenon
<1>2. PICK t : t = <<e>> \o todo'
  BY Zenon
<1>3. /\ e \in Items /\ m \in Masks /\ todo' \in Seq(Items) /\ Leads(sent, b, t, Final(sent))
      /\ Ready(b, m, e.byte, e.stuff, k, demod_bits)
  BY <1>2, Zenon DEF Sending
<1>4. t \in Seq(Items) /\ t # << >> /\ Tail(t) = todo'
  BY <1>2, <1>3
<1>5. Leads(sent, Behind(sent, b), todo', Final(sent))
  BY <1>3, <1>4, LeadsTail, Zenon
<1>6. e = [byte |-> e.byte, stuff |-> e.stuff] /\ e.byte \in Byte /\ e.stuff \in BOOLEAN
  BY <1>3 DEF Items
<1>7. v \in {0, 1}
  <2>1. v = 0 \/ NextBit(e.byte, m, v, tx_bit')
    BY <1>1, Zenon DEF Sends
  <2>2. CASE v = 0
    BY <2>2, Zenon
  <2>3. CASE NextBit(e.byte, m, v, tx_bit')
    BY <1>3, <1>6, <2>3, BitOf, Zenon
  <2>4. QED
    BY <2>1, <2>2, <2>3, Zenon
<1>8. PICK w : w = IF line' = line THEN 1 ELSE 0
  BY Zenon
<1>9. w \in {0, 1} /\ hdlc_parse(w)
  BY <1>8, Zenon DEF Receive
<1>10. tone' \in {0, 1} /\ (tone' = tone <=> v = 1)
  BY <1>1, <1>7
<1>11. w = v \/ (b = Start /\ m = 1)
  BY <1>7, <1>8, <1>10
<1>12. After(sent, b, tx_bit', e.byte, e.stuff, stuff_cnt', demod_bits', overrun', rxstart', Heard',
             bit_idx', currchar')
  BY <1>1, <1>9, <1>11, SendingStep, Zenon
<1>13. CASE tx_bit' = 0
  <2>1. PICK q : q = Behind(sent, b)
    BY Zenon
  <2>2. /\ Between(q, e.stuff, stuff_cnt', demod_bits')
        /\ Gathered(sent, q, tx_bit', e.byte, e.stuff,
                    overrun', rxstart', Heard', bit_idx', currchar')
    BY <1>12, <1>13, <2>1, MaskNotZero, Zenon DEF After
  <2>3. LinkNow(q)'
    BY <1>3, <1>5, <1>13, <2>1, <2>2, Zenon DEF LinkNow, Link
  <2>4. QED
    BY <1>10, <2>3, Zenon
<1>14. CASE tx_bit' # 0
  <2>1. /\ tx_bit' \in Masks /\ Ready(b, tx_bit', e.byte, e.stuff, stuff_cnt', demod_bits')
        /\ Gathered(sent, b, tx_bit', e.byte, e.stuff,
                    overrun', rxstart', Heard', bit_idx', currchar')
    BY <1>12, <1>14, Zenon DEF After
  <2>2. Sending(sent, b, todo', e, tx_bit', stuff_cnt', demod_bits', overrun', rxstart', Heard',
                bit_idx', currchar')
    BY <1>2, <1>3, <2>1, Zenon DEF Sending
  <2>3. [byte |-> curr_out', stuff |-> bit_stuff'] = e
    BY <1>6, Zenon
  <2>4. LinkNow(b)'
    BY <2>2, <2>3, Zenon DEF LinkNow, Link
  <2>5. QED
    BY <1>10, <2>4, Zenon
<1>15. QED
  BY <1>13, <1>14, Zenon

\* afsk_dac_isr() and afsk_adc_isr() in one bit time.
LEMMA BitLink ==
  ASSUME ParserInv, got \in Seq(Byte), overrun = TRUE \/ Heard.escape = FALSE,
         sent \in Frames, tone \in {0, 1}, NEW b, LinkNow(b), Bit
  PROVE  tone' \in {0, 1} /\ \E p : LinkNow(p)'
<1>1. got' = got /\ sent' = sent /\ line' = tone' /\ Receive /\ (NewByte \/ SameByte)
  BY Zenon DEF Bit
<1>2. CASE NewByte
  <2>1. PICK e, k : e = Head(todo) /\ k = IF bit_stuff THEN stuff_cnt ELSE 0
    BY Zenon
  <2>2. /\ tx_bit = 0 /\ todo # << >> /\ todo' = Tail(todo)
        /\ curr_out' = e.byte /\ bit_stuff' = e.stuff /\ SendBit(e.byte, 1, e.stuff, k)
    BY <1>2, <2>1, Zenon DEF NewByte
  <2>3. Sending(sent, b, todo', e, 1, k, demod_bits, overrun, rxstart, Heard, bit_idx, currchar)
    BY <2>1, <2>2, BeginEntry, Zenon
  <2>4. line = tone \/ (b = Start /\ 1 = 1)
    BY <2>2, MaskNotZero, Zenon DEF LinkNow, Link, Sending
  <2>5. QED
    BY <1>1, <2>2, <2>3, <2>4, LinkFrom, Zenon
<1>3. CASE SameByte
  <2>1. PICK e : e = [byte |-> curr_out, stuff |-> bit_stuff]
    BY Zenon
  <2>2. e.byte = curr_out /\ e.stuff = bit_stuff
    BY <2>1
  <2>3. /\ tx_bit # 0 /\ todo' = todo /\ curr_out' = e.byte /\ bit_stuff' = e.stuff
        /\ SendBit(e.byte, tx_bit, e.stuff, stuff_cnt)
    BY <1>3, <2>2, Zenon DEF SameByte
  <2>4. /\ Sending(sent, b, todo', e, tx_bit, stuff_cnt, demod_bits, overrun, rxstart, Heard,
                   bit_idx, currchar)
        /\ line = tone
    BY <2>1, <2>3, Zenon DEF LinkNow, Link
  <2>5. QED
    BY <1>1, <2>3, <2>4, LinkFrom, Zenon
<1>4. QED
  BY <1>1, <1>2, <1>3, Zenon

-----------------------------------------------------------------------------
(* Both ends.                                                                  *)

\* The inductive invariant: no escape is left alone, and once a transmission has begun
\* the parser is where the transmitter is.
LinkInv ==
  /\ ParserInv /\ got \in Seq(Byte) /\ noise \in 0 .. NoiseBits /\ tone \in {0, 1}
  /\ overrun = TRUE \/ Heard.escape = FALSE
  /\ \/ sent = << >> /\ todo = << >> /\ tx_bit = 0 /\ bit_stuff = FALSE
     \/ sent \in Frames /\ \E b : LinkNow(b)

LEMMA InitLink == Init => LinkInv
<1>1. SUFFICES ASSUME Init
               PROVE  LinkInv
  OBVIOUS
<1>2. ParserInv
  BY <1>1, InitStep
<1>3. /\ rx_fifo = << >> /\ got = << >> /\ sent = << >> /\ todo = << >>
      /\ tx_bit = 0 /\ bit_stuff = FALSE /\ noise = 0 /\ tone = 0
  BY <1>1, Zenon DEF Init, Mark
<1>4. << >> \o << >> = << >> /\ << >> \in Seq(Byte)
  OBVIOUS
<1>5. Heard.escape = FALSE
  <2>1. Heard = NoBytes
    BY <1>3, <1>4, DeframeNothing, Zenon DEF Heard
  <2>2. QED
    BY <2>1 DEF NoBytes
<1>6. 0 \in 0 .. NoiseBits
  BY TransmissionAssumption
<1>7. QED
  BY <1>2, <1>3, <1>4, <1>5, <1>6, Zenon DEF LinkInv

\* afsk_adc_isr() with whatever it hears.
LEMMA HearsOn ==
  ASSUME LinkInv, Receive, got' = got
  PROVE  overrun' = TRUE \/ Heard'.escape = FALSE
<1>1. PICK v : v = IF line' = line THEN 1 ELSE 0
  BY Zenon
<1>2. v \in {0, 1} /\ hdlc_parse(v)
  BY <1>1, Zenon DEF Receive
<1>3. QED
  BY <1>2, NoLoneEscape, Zenon DEF LinkInv

LEMMA StartLink ==
  ASSUME LinkInv, NEW fs \in Transmissions[noise], afsk_txStart(fs)
  PROVE  LinkInv'
<1>1. fs \in Frames
  <2>1. noise \in 0 .. NoiseBits
    BY Zenon DEF LinkInv
  <2>2. fs \in Seq(Seq(Byte)) /\ fs # << >> /\ \A n \in DOMAIN fs : fs[n] # << >>
    BY <2>1, TransmissionAssumption, Zenon
  <2>3. DOMAIN fs = 1 .. Len(fs)
    BY <2>2
  <2>4. QED
    BY <2>2, <2>3, Zenon DEF Frames
<1>2. /\ sent = << >> /\ sent' = fs /\ todo' = Stream(fs) /\ tone' = 0
      /\ UNCHANGED <<rxVars, curr_out, tx_bit, bit_stuff, line, noise, got>>
  BY Zenon DEF afsk_txStart, Stream, Mark
<1>3. tx_bit' = 0 /\ bit_stuff' = FALSE
  <2>1. << >> \notin Frames
    BY Zenon DEF Frames
  <2>2. QED
    BY <1>2, <2>1, Zenon DEF LinkInv
<1>4. todo' \in Seq(Items) /\ Leads(sent', Start, todo', Final(sent'))
  BY <1>1, <1>2, StreamPlaces, Zenon
<1>5. Between(Start, bit_stuff', stuff_cnt', demod_bits')
  BY <1>3, Zenon DEF Between
<1>6. Gathered(sent', Start, tx_bit', curr_out', bit_stuff',
               overrun', rxstart', Heard', bit_idx', currchar')
  BY Zenon DEF Gathered, Synced
<1>7. LinkNow(Start)'
  BY <1>3, <1>4, <1>5, <1>6, Zenon DEF LinkNow, Link
<1>8. ParserInv' /\ overrun' = overrun /\ Heard' = Heard
  <2>1. ParserInv'
    BY <1>2, RxStays, Zenon DEF LinkInv
  <2>2. rx_fifo' = rx_fifo /\ overrun' = overrun /\ got' = got
    BY <1>2, Zenon DEF rxVars
  <2>3. QED
    BY <2>1, <2>2, HeardSame, Zenon
<1>9. tone' \in {0, 1}
  BY <1>2, Zenon
<1>10. QED
  BY <1>1, <1>2, <1>7, <1>8, <1>9, Zenon DEF LinkInv

LEMMA ReadLink ==
  ASSUME LinkInv, afsk_read
  PROVE  LinkInv'
<1>1. /\ rx_fifo # << >> /\ rx_fifo' = Tail(rx_fifo) /\ got' = Append(got, Head(rx_fifo))
      /\ UNCHANGED <<demod_bits, rxstart, currchar, bit_idx, overrun, txVars, line, noise, sent>>
  BY Zenon DEF afsk_read
<1>2. rx_fifo \in Seq(Byte) /\ got \in Seq(Byte)
  BY Zenon DEF LinkInv, ParserInv
<1>3. got' \in Seq(Byte) /\ got' \o rx_fifo' = got \o rx_fifo
  BY <1>1, <1>2
<1>4. Heard' = Heard
  <2>1. Heard' = Deframe(got' \o rx_fifo')
    BY Zenon DEF Heard
  <2>2. QED
    BY <1>3, <2>1, Zenon DEF Heard
<1>5. ParserInv'
  BY ReadStep, Zenon DEF LinkInv
<1>6. /\ todo' = todo /\ curr_out' = curr_out /\ tx_bit' = tx_bit /\ bit_stuff' = bit_stuff
      /\ stuff_cnt' = stuff_cnt /\ tone' = tone
  BY <1>1, Zenon DEF txVars
<1>7. ASSUME NEW b, LinkNow(b)
      PROVE  LinkNow(b)'
  BY <1>1, <1>4, <1>6, <1>7, Zenon DEF LinkNow
<1>8. QED
  BY <1>1, <1>3, <1>4, <1>5, <1>6, <1>7, Zenon DEF LinkInv

LEMMA StaysLink ==
  ASSUME LinkInv, UNCHANGED vars
  PROVE  LinkInv'
<1>1. UNCHANGED <<rxVars, txVars, line, noise, sent, got>>
  BY Zenon DEF vars
<1>2. /\ todo' = todo /\ curr_out' = curr_out /\ tx_bit' = tx_bit /\ bit_stuff' = bit_stuff
      /\ stuff_cnt' = stuff_cnt /\ tone' = tone /\ line' = line /\ noise' = noise
      /\ sent' = sent /\ got' = got /\ rx_fifo' = rx_fifo /\ overrun' = overrun
      /\ demod_bits' = demod_bits /\ rxstart' = rxstart /\ bit_idx' = bit_idx
      /\ currchar' = currchar
  BY <1>1, Zenon DEF rxVars, txVars
<1>3. Heard' = Heard
  BY <1>2, HeardSame, Zenon
<1>4. ParserInv'
  BY <1>1, RxStays, Zenon DEF LinkInv
<1>5. ASSUME NEW b, LinkNow(b)
      PROVE  LinkNow(b)'
  BY <1>2, <1>3, <1>5, Zenon DEF LinkNow
<1>6. QED
  BY <1>2, <1>3, <1>4, <1>5, Zenon DEF LinkInv

LEMMA NextLink == LinkInv /\ [Next]_vars => LinkInv'
<1> SUFFICES ASSUME LinkInv, [Next]_vars
             PROVE  LinkInv'
  OBVIOUS
<1>1. ParserInv'
  BY EveryStep, Zenon DEF LinkInv
<1>2. CASE Noise
  <2>1. /\ sent = << >> /\ noise < NoiseBits /\ noise' = noise + 1 /\ Receive
        /\ UNCHANGED <<txVars, sent, got>>
    BY <1>2, Zenon DEF Noise
  <2>2. /\ sent' = << >> /\ got' = got /\ todo' = todo /\ tx_bit' = tx_bit
        /\ bit_stuff' = bit_stuff /\ tone' = tone
    BY <2>1, Zenon DEF txVars
  <2>3. noise' \in 0 .. NoiseBits
    <3>1. noise \in 0 .. NoiseBits
      BY Zenon DEF LinkInv
    <3>2. QED
      BY <2>1, <3>1, TransmissionAssumption
  <2>4. todo = << >> /\ tx_bit = 0 /\ bit_stuff = FALSE
    <3>1. << >> \notin Frames
      BY Zenon DEF Frames
    <3>2. QED
      BY <2>1, <3>1, Zenon DEF LinkInv
  <2>5. overrun' = TRUE \/ Heard'.escape = FALSE
    BY <2>1, <2>2, HearsOn, Zenon
  <2>6. QED
    BY <1>1, <2>2, <2>3, <2>4, <2>5, Zenon DEF LinkInv
<1>3. ASSUME NEW fs \in Transmissions[noise], afsk_txStart(fs)
      PROVE  LinkInv'
  BY <1>3, StartLink, Zenon
<1>4. CASE Bit
  <2>1. Receive /\ noise' = noise /\ sent' = sent /\ got' = got /\ (NewByte \/ SameByte)
    BY <1>4, Zenon DEF Bit
  <2>2. sent \in Frames /\ \E b : LinkNow(b)
    BY <2>1, Zenon DEF LinkInv, NewByte, SameByte
  <2>3. PICK b : LinkNow(b)
    BY <2>2, Zenon
  <2>4. tone' \in {0, 1} /\ \E p : LinkNow(p)'
    BY <1>4, <2>2, <2>3, BitLink, Zenon DEF LinkInv
  <2>5. overrun' = TRUE \/ Heard'.escape = FALSE
    BY <2>1, HearsOn, Zenon
  <2>6. QED
    BY <1>1, <2>1, <2>2, <2>4, <2>5, Zenon DEF LinkInv
<1>5. CASE afsk_read
  BY <1>5, ReadLink, Zenon
<1>6. CASE UNCHANGED vars
  BY <1>6, StaysLink, Zenon
<1>7. CASE Finished
  BY <1>6, <1>7, Zenon DEF Finished
<1>8. QED
  BY <1>2, <1>3, <1>4, <1>5, <1>6, <1>7, Zenon DEF Next

LEMMA LinkArrives == LinkInv => FramesArrive
<1>1. SUFFICES ASSUME LinkInv, Sent, ~overrun
               PROVE  IsSuffix(sent, Heard.frames)
  BY Zenon DEF FramesArrive, Heard
<1>2. sent # << >> /\ todo = << >> /\ tx_bit = 0
  BY <1>1, Zenon DEF Sent
<1>3. sent \in Frames /\ got \in Seq(Byte) /\ ParserInv
  BY <1>1, <1>2, Zenon DEF LinkInv
<1>4. PICK b : LinkNow(b)
  BY <1>1, <1>2, Zenon DEF LinkInv
<1>5. /\ Leads(sent, b, << >>, Final(sent))
      /\ Gathered(sent, b, 0, curr_out, bit_stuff, overrun, rxstart, Heard, bit_idx, currchar)
  BY <1>2, <1>4, MaskNotZero, Zenon DEF LinkNow, Link, Sending
<1>6. b = Final(sent)
  BY <1>5, LeadsEnd, Zenon
<1>7. Synced(b)
  <2>1. Len(sent) # 0
    BY <1>3 DEF Frames
  <2>2. QED
    BY <1>6, <2>1 DEF Synced, Final, Start, Place
<1>8. overrun = FALSE
  BY <1>1, <1>3, Zenon DEF ParserInv
<1>9. At(Heard, sent, Final(sent))
  BY <1>5, <1>6, <1>7, <1>8, Zenon DEF Gathered
<1>10. Heard \in Accs
  BY <1>3, HeardAcc, Zenon
<1>11. QED
  BY <1>3, <1>9, <1>10, AtFinal, Zenon

\* Bit stuffing and NRZ-S in afsk_dac_isr(), and hdlc_parse() with ax25_poll()'s escapes,
\* undo each other: for frames of any number and length and with any bytes, after any
\* noise, what is sent is what is received last, unless an overrun was reported.
THEOREM StuffingIsUndone == Spec => []FramesArrive
BY InitLink, NextLink, LinkArrives, PTL DEF Spec
=============================================================================
