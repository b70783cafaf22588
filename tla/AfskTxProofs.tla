---------------------------- MODULE AfskTxProofs ----------------------------
(***************************************************************************)
(* For every FIFO of at least two bytes, every preamble, trailer and set   *)
(* of frames, and whatever the relative speed of the main program and the  *)
(* interrupt: the transmit FIFO never holds bytes that nobody will send,   *)
(* and a flush that returns has sent everything.  As long as the main      *)
(* program keeps up, what is heard on the air is what was sent, and the    *)
(* carrier stays up for the whole trailer.                                 *)
(***************************************************************************)
EXTENDS AfskTx, SequenceTheorems, TLAPS

\* While the main program is about to start the interrupt it is not running:
\* what makes the two invariants inductive.
NotStartedTwice == pc = "irqStart" => ~dac_isr

IInv ==
  /\ sending \in BOOLEAN
  /\ dac_isr \in BOOLEAN
  /\ NotStartedTwice
  /\ SendingIsKeyed
  /\ NoLostWakeup

LEMMA InitIInv == Init => IInv
  BY Zenon DEF Init, IInv, NotStartedTwice, SendingIsKeyed, NoLostWakeup

LEMMA NextIInv == IInv /\ [Next]_vars => IInv'
<1> SUFFICES ASSUME IInv, [Next]_vars
             PROVE  IInv'
  OBVIOUS
<1> USE DEF IInv, NotStartedTwice, SendingIsKeyed, NoLostWakeup,
        txVars, mainVars, airVars
<1>1. ASSUME NEW f \in Frames, NEW fn \in {"sendRaw", "sendVia"},
             ax25_send(f, fn)
      PROVE  IInv'
  BY <1>1 DEF ax25_send
<1>2. CASE afsk_write
  BY <1>2 DEF afsk_write
<1>3. CASE txStart_On
  BY <1>3 DEF txStart_On
<1>4. CASE txStart_Already
  BY <1>4 DEF txStart_Already
<1>5. CASE irqStart
  BY <1>5 DEF irqStart
<1>6. CASE setTrailer
  BY <1>6 DEF setTrailer, AfterByte
<1>7. CASE afsk_flush
  BY <1>7 DEF afsk_flush
<1>8. CASE Dac_End
  BY <1>8, Zenon DEF Dac_End, ByteTime, Stop
<1>9. CASE Dac_Preamble
  BY <1>9 DEF Dac_Preamble, ByteTime
<1>10. CASE Dac_Trailer
  BY <1>10 DEF Dac_Trailer, ByteTime
<1>11. CASE Dac_Byte
  BY <1>11 DEF Dac_Byte, ByteTime
<1>12. CASE Dac_Escape
  BY <1>12 DEF Dac_Escape, ByteTime
<1>13. CASE Dac_EscapeUnderrun
  BY <1>13, Zenon DEF Dac_EscapeUnderrun, ByteTime, Stop
<1>14. CASE Finished \/ UNCHANGED vars
  BY <1>14 DEF Finished, vars
<1>15. QED
  BY <1>1, <1>2, <1>3, <1>4, <1>5, <1>6, <1>7, <1>8, <1>9, <1>10, <1>11,
     <1>12, <1>13, <1>14
  DEF Next, Main, afsk_dac_isr

\* A byte in the transmit FIFO is always going to be sent: the interrupt runs
\* or the main program is about to start it.
THEOREM WakeupNeverLost == Spec => []NoLostWakeup
<1>1. IInv => NoLostWakeup
  BY DEF IInv
<1>2. QED
  BY InitIInv, NextIInv, <1>1, PTL DEF Spec

\* af->sending says whether the interrupt runs, but for the moment between the
\* two assignments of afsk_txStart().
THEOREM SendingTellsTheTruth == Spec => []SendingIsKeyed
<1>1. IInv => SendingIsKeyed
  BY DEF IInv
<1>2. QED
  BY InitIInv, NextIInv, <1>1, PTL DEF Spec

\* kfile_flush() returns only when the FIFO is empty and the PTT is off.
THEOREM FlushIsComplete == Spec => FlushMeansSent
<1>1. IInv /\ [Next]_vars =>
        [pc = "flush" /\ pc' = "idle" => tx_fifo = << >> /\ ~dac_isr]_vars
  <2> SUFFICES ASSUME IInv, Next, pc = "flush", pc' = "idle"
               PROVE  tx_fifo = << >> /\ ~dac_isr
    OBVIOUS
  <2>1. afsk_flush
    BY DEF Next, Main, afsk_dac_isr, ax25_send, afsk_write, txStart_On,
           txStart_Already, irqStart, setTrailer, AfterByte, Dac_End,
           Dac_Preamble, Dac_Trailer, Dac_Byte, Dac_Escape,
           Dac_EscapeUnderrun, ByteTime, Finished
  <2>2. QED
    BY <2>1 DEF afsk_flush, IInv, SendingIsKeyed, NoLostWakeup
<1>2. QED
  BY InitIInv, NextIInv, <1>1, PTL DEF Spec, FlushMeansSent

-----------------------------------------------------------------------------
(* What is heard is what was sent.  The bytes in the FIFO are consecutive   *)
(* places of the frames in sent: from the place the interrupt has read up   *)
(* to, to the place the main program has written up to.                     *)

\* Place j of frame k: 0 is the opening flag, Len + 1 the closing one.  h = 1
\* between an escape and its byte.
Place == [k : Nat \ {0}, j : Nat, h : 0 .. 1]
At(k, j, h) == [k |-> k, j |-> j, h |-> h]

IsData(s, p) == p.j \in 1 .. Len(s[p.k])
NeedsEscape(s, p) == IsData(s, p) /\ s[p.k][p.j] \in Escaped /\ p.h = 0

InFrame(s, p) ==
  /\ p.k <= Len(s) /\ p.j <= Len(s[p.k]) + 1
  /\ p.h = 1 => IsData(s, p) /\ s[p.k][p.j] \in Escaped

\* What is written at a place, and the place that follows it.
ByteAt(s, p) ==
  IF NeedsEscape(s, p) THEN ESC ELSE IF IsData(s, p) THEN s[p.k][p.j] ELSE FLAG

Following(s, p) ==
  IF NeedsEscape(s, p) THEN At(p.k, p.j, 1)
  ELSE IF p.j = Len(s[p.k]) + 1 THEN At(p.k + 1, 0, 0)
  ELSE At(p.k, p.j + 1, 0)

\* The bytes of q are those of the places T[1], T[2] ...
Stream(q, s, T) ==
  /\ T \in [1 .. Len(q) + 1 -> Place]
  /\ \A i \in 1 .. Len(q) :
       InFrame(s, T[i]) /\ q[i] = ByteAt(s, T[i]) /\ T[i + 1] = Following(s, T[i])

LEMMA FollowingIs ==
  ASSUME NEW s \in Seq(Frames), NEW p \in Place, InFrame(s, p)
  PROVE  /\ Following(s, p) \in Place
         /\ s[p.k] \in Seq(Byte) /\ s[p.k] # << >> /\ Len(s[p.k]) \in Nat \ {0}
         /\ ByteAt(s, p) \in Byte
<1>1. p.k \in 1 .. Len(s) /\ p.j \in Nat
  BY DEF InFrame, Place
<1>2. s[p.k] \in Frames
  BY <1>1
<1>3. s[p.k] \in Seq(Byte) /\ s[p.k] # << >>
  BY <1>2, FramesAssumption
<1>4. Len(s[p.k]) \in Nat \ {0}
  BY <1>3
<1>5. ByteAt(s, p) \in Byte
  BY <1>1, <1>3 DEF ByteAt, IsData, Byte, Escaped
<1>6. Following(s, p) \in Place
  BY <1>1, <1>4 DEF Following, Place, At
<1>7. QED
  BY <1>3, <1>4, <1>5, <1>6

\* A byte is pushed.
LEMMA StreamPush ==
  ASSUME NEW q \in Seq(Byte), NEW s \in Seq(Frames), NEW T, Stream(q, s, T),
         NEW p, p = T[Len(q) + 1], InFrame(s, p)
  PROVE  \E U : /\ Stream(Append(q, ByteAt(s, p)), s, U)
                /\ U[1] = T[1]
                /\ U[Len(q) + 2] = Following(s, p)
<1> DEFINE n == Len(q)
           r == Append(q, ByteAt(s, p))
           U == [i \in 1 .. n + 2 |-> IF i <= n + 1 THEN T[i] ELSE Following(s, p)]
<1>1. n \in Nat /\ T \in [1 .. n + 1 -> Place] /\ p \in Place
  BY DEF Stream
<1>2. Following(s, p) \in Place /\ ByteAt(s, p) \in Byte
  BY <1>1, FollowingIs
<1>3. U \in [1 .. n + 2 -> Place]
  BY <1>1, <1>2
<1>4. /\ Len(r) = n + 1 /\ r[n + 1] = ByteAt(s, p)
      /\ \A i \in 1 .. n : r[i] = q[i]
  BY <1>2
<1>5. /\ \A i \in 1 .. n + 1 : U[i] = T[i]
      /\ U[n + 2] = Following(s, p)
  BY <1>1
<1> HIDE DEF U, r, n
<1>6. ASSUME NEW i \in 1 .. Len(r)
      PROVE  InFrame(s, U[i]) /\ r[i] = ByteAt(s, U[i]) /\ U[i + 1] = Following(s, U[i])
  <2>1. CASE i = n + 1
    BY <1>1, <1>4, <1>5, <2>1 DEF n
  <2>2. CASE i # n + 1
    <3>1. i \in 1 .. n /\ i + 1 \in 1 .. n + 1
      BY <1>1, <1>4, <2>2
    <3>2. InFrame(s, T[i]) /\ q[i] = ByteAt(s, T[i]) /\ T[i + 1] = Following(s, T[i])
      BY <3>1 DEF Stream, n
    <3>3. QED
      BY <1>1, <1>4, <1>5, <3>1, <3>2
  <2>3. QED
    BY <2>1, <2>2
<1>7. Stream(r, s, U)
  BY <1>1, <1>3, <1>4, <1>6 DEF Stream
<1>8. QED
  BY <1>1, <1>5, <1>7 DEF r, n

\* A byte is taken.
LEMMA StreamPop ==
  ASSUME NEW q \in Seq(Byte), q # << >>, NEW s \in Seq(Frames), NEW T, Stream(q, s, T)
  PROVE  \E U : /\ Stream(Tail(q), s, U)
                /\ U[1] = Following(s, T[1])
                /\ U[Len(Tail(q)) + 1] = T[Len(q) + 1]
<1> DEFINE n == Len(q)
           r == Tail(q)
           U == [i \in 1 .. n |-> T[i + 1]]
<1>1. n \in Nat \ {0} /\ T \in [1 .. n + 1 -> Place]
  BY DEF Stream
<1>2. /\ Len(r) = n - 1
      /\ \A i \in 1 .. n - 1 : r[i] = q[i + 1]
  BY <1>1
<1>3. U \in [1 .. n -> Place] /\ \A i \in 1 .. n : U[i] = T[i + 1]
  BY <1>1
<1> HIDE DEF U, r, n
<1>4. ASSUME NEW i \in 1 .. Len(r)
      PROVE  InFrame(s, U[i]) /\ r[i] = ByteAt(s, U[i]) /\ U[i + 1] = Following(s, U[i])
  <2>1. i \in 1 .. n /\ i + 1 \in 1 .. n /\ r[i] = q[i + 1]
    BY <1>1, <1>2
  <2>2. /\ InFrame(s, T[i + 1]) /\ q[i + 1] = ByteAt(s, T[i + 1])
        /\ T[(i + 1) + 1] = Following(s, T[i + 1])
    BY <2>1 DEF Stream, n
  <2>3. QED
    BY <1>3, <2>1, <2>2
<1>5. Stream(r, s, U)
  BY <1>1, <1>2, <1>3, <1>4 DEF Stream
<1>6. U[1] = Following(s, T[1])
  BY <1>1, <1>3 DEF Stream, n
<1>7. QED
  BY <1>1, <1>2, <1>3, <1>5, <1>6 DEF r, n

\* Another frame is handed over.
LEMMA StreamGrows ==
  ASSUME NEW q, NEW s \in Seq(Frames), NEW f \in Frames, NEW T, Len(q) \in Nat,
         Stream(q, s, T)
  PROVE  Stream(q, Append(s, f), T)
<1> DEFINE t == Append(s, f)
<1>1. t \in Seq(Frames) /\ Len(t) = Len(s) + 1 /\ \A i \in 1 .. Len(s) : t[i] = s[i]
  BY SMTT(30)
<1> HIDE DEF t
<1>2. ASSUME NEW i \in 1 .. Len(q)
      PROVE  InFrame(t, T[i]) /\ q[i] = ByteAt(t, T[i]) /\ T[i + 1] = Following(t, T[i])
  <2>1. T[i] \in Place /\ InFrame(s, T[i]) /\ q[i] = ByteAt(s, T[i])
        /\ T[i + 1] = Following(s, T[i])
    BY DEF Stream
  <2>2. T[i].k \in 1 .. Len(s) /\ t[T[i].k] = s[T[i].k]
    BY <1>1, <2>1 DEF InFrame, Place
  <2>3. QED
    BY <1>1, <2>1, <2>2 DEF InFrame, ByteAt, Following, NeedsEscape, IsData
<1>3. QED
  BY <1>2 DEF Stream, t

-----------------------------------------------------------------------------
(* The state.                                                              *)

Item == [byte : Byte, escape : BOOLEAN]

TxType ==
  /\ tx_fifo \in Seq(Byte) /\ Len(tx_fifo) <= Capacity
  /\ preamble_len \in Nat /\ trailer_len \in 0 .. TrailerLen
  /\ pc \in {"idle", "write", "txStart", "irqStart", "trailer", "flush"}
  /\ todo \in Seq(Item)
  /\ pc = "write" => todo # << >>
  /\ pc \in {"idle", "flush"} => todo = << >>
  /\ written \in 0 .. 2 /\ flags \in 0 .. TrailerLen + 1
  /\ sent \in Seq(Frames) /\ heard \in Seq(Seq(Byte)) /\ hearing \in Seq(Byte)
  /\ late \in BOOLEAN /\ synced \in BOOLEAN

\* The receiver has heard everything before place p.
ReadUpTo(p) ==
  /\ p.h = 0 /\ p.k <= Len(sent) + 1
  /\ Len(heard) = p.k - 1
  /\ \A i \in 1 .. Len(heard) : heard[i] = sent[i]
  /\ p.j = 0 => hearing = << >>
  /\ p.j > 0 => /\ synced /\ dac_isr /\ preamble_len = 0 /\ InFrame(sent, p)
                /\ Len(hearing) = p.j - 1
                /\ \A i \in 1 .. Len(hearing) : hearing[i] = sent[p.k][i]
  /\ p.j > 1 => flags = 0

\* The main program has still to write what is at place p and behind it.
Unwritten(i, p) == At(p.k, p.j + i - 1, IF i = 1 THEN p.h ELSE 0)

WrittenUpTo(p) ==
  IF todo = << >> THEN p = At(Len(sent) + 1, 0, 0)
  ELSE /\ p.k = Len(sent) /\ InFrame(sent, p)
       /\ Len(todo) = Len(sent[p.k]) + 2 - p.j
       /\ \A i \in 1 .. Len(todo) :
            /\ todo[i].byte = IF IsData(sent, Unwritten(i, p))
                              THEN sent[p.k][p.j + i - 1] ELSE FLAG
            /\ todo[i].escape <=> NeedsEscape(sent, Unwritten(i, p))

Between ==
  \E T : /\ Stream(tx_fifo, sent, T)
         /\ ReadUpTo(T[1])
         /\ WrittenUpTo(T[Len(tx_fifo) + 1])

\* The main program is ahead of the interrupt: what it has written since the last
\* one is still in the FIFO.
KeepsUp ==
  IF dac_isr
  THEN Len(tx_fifo) >= IF pc \in {"txStart", "trailer"} THEN written + 1 ELSE written
  ELSE /\ written = 0 /\ pc # "trailer"
       /\ pc \in {"txStart", "irqStart"} => tx_fifo # << >>

\* Behind the last byte: the flags heard, and those still to be sent.
Trailing ==
  dac_isr /\ pc \in {"idle", "flush"} =>
    IF tx_fifo = << >>
    THEN preamble_len = 0 /\ flags = 1 + TrailerLen - trailer_len
    ELSE trailer_len = TrailerLen

AirInv == TxType /\ (~late => Between /\ KeepsUp /\ Trailing)

LEMMA InitAirInv == Init => AirInv
<1> SUFFICES ASSUME Init
             PROVE  AirInv
  OBVIOUS
<1> USE CapacityAssumption, LenAssumption
<1>1. TxType
  <2>1. late \in BOOLEAN /\ synced \in BOOLEAN
    BY Zenon DEF Init
  <2>2. QED
    BY <2>1 DEF Init, TxType
<1>2. KeepsUp /\ Trailing
  BY DEF Init, KeepsUp, Trailing
<1>3. Between
  <2> DEFINE T == [i \in 1 .. 1 |-> At(1, 0, 0)]
  <2>1. Len(tx_fifo) = 0 /\ T[1] = At(1, 0, 0) /\ T[Len(tx_fifo) + 1] = At(1, 0, 0)
    BY DEF Init
  <2>2. At(1, 0, 0) \in Place
    BY DEF At, Place
  <2>3. Stream(tx_fifo, sent, T)
    BY <2>1, <2>2 DEF Stream
  <2>4. ReadUpTo(At(1, 0, 0))
    BY DEF Init, ReadUpTo, At
  <2>5. WrittenUpTo(At(1, 0, 0))
    BY DEF Init, WrittenUpTo
  <2> HIDE DEF T
  <2>6. QED
    BY <2>1, <2>3, <2>4, <2>5 DEF Between
<1>4. QED
  BY <1>1, <1>2, <1>3 DEF AirInv

\* What is left of the FIFO after an escape and its byte.
LEMMA TwoTaken ==
  ASSUME NEW q \in Seq(Byte), Len(q) > 1
  PROVE  /\ Tail(q) \in Seq(Byte) /\ Tail(q) # << >>
         /\ Tail(Tail(q)) \in Seq(Byte) /\ Len(Tail(Tail(q))) = Len(q) - 2
<1>0. q # << >> /\ Tail(q) \in Seq(Byte)
  OBVIOUS
<1>1. PICK r \in Seq(Byte) : r = Tail(q)
  BY <1>0, Zenon
<1>2. Len(r) = Len(q) - 1
  BY <1>1
<1>3. r # << >>
  BY <1>2
<1>4. Tail(r) \in Seq(Byte) /\ Len(Tail(r)) = Len(r) - 1
  BY <1>3
<1>5. QED
  BY <1>1, <1>2, <1>3, <1>4

\* The items of a frame, and how they are put together.
LEMMA ItemsAre ==
  /\ Raw(FLAG) \in Item /\ Raw(FLAG).byte = FLAG /\ ~Raw(FLAG).escape
  /\ \A c \in Byte :
       Putchar(c) \in Item /\ Putchar(c).byte = c /\ (Putchar(c).escape <=> c \in Escaped)
<1>1. FLAG \in Byte
  BY DEF Byte, Escaped
<1>2. Raw(FLAG) \in Item
  BY <1>1, Zenon DEF Raw, Item
<1>3. Raw(FLAG).byte = FLAG /\ Raw(FLAG).escape = FALSE
  BY DEF Raw
<1>4. ASSUME NEW c \in Byte
      PROVE  Putchar(c) \in Item /\ Putchar(c).byte = c /\ (Putchar(c).escape <=> c \in Escaped)
  <2>1. Putchar(c).byte = c
    BY DEF Putchar
  <2>2. Putchar(c).escape = (c \in Escaped)
    BY DEF Putchar
  <2>3. CASE c \in Escaped
    BY <2>3, Zenon DEF Putchar, Item
  <2>4. CASE c \notin Escaped
    <3>1. (c \in Escaped) = FALSE
      BY <2>4
    <3>2. Putchar(c) \in Item
      BY <3>1, Zenon DEF Putchar, Item
    <3>3. QED
      BY <2>1, <2>2, <3>2, Zenon
  <2>5. QED
    BY <2>1, <2>2, <2>3, <2>4
<1>5. QED
  BY <1>2, <1>3, <1>4

LEMMA Enclosed ==
  ASSUME NEW S, NEW x \in S, NEW d \in Seq(S), NEW t, t = <<x>> \o d \o <<x>>
  PROVE  /\ t \in Seq(S) /\ t # << >> /\ Len(t) = Len(d) + 2
         /\ t[1] = x /\ t[Len(d) + 2] = x
         /\ \A i \in 1 .. Len(d) : t[i + 1] = d[i]
<1>0. <<x>> \o d \in Seq(S)
  OBVIOUS
<1>1. PICK u \in Seq(S) : u = <<x>> \o d
  BY <1>0, Zenon
<1>2. Len(u) = Len(d) + 1 /\ u[1] = x /\ \A i \in 1 .. Len(d) : u[i + 1] = d[i]
  BY <1>1
<1>3. t = u \o <<x>>
  BY <1>1
<1>4. t \in Seq(S) /\ Len(t) = Len(u) + 1 /\ t[Len(u) + 1] = x
      /\ \A i \in 1 .. Len(u) : t[i] = u[i]
  BY <1>3
<1>5. QED
  BY <1>2, <1>4

LEMMA NextTxType == TxType /\ [Next]_vars => TxType'
<1> SUFFICES ASSUME TxType, [Next]_vars
             PROVE  TxType'
  OBVIOUS
<1> USE CapacityAssumption, LenAssumption DEF TxType, txVars, mainVars, airVars
<1>1. ASSUME NEW f \in Frames, NEW fn \in {"sendRaw", "sendVia"},
             ax25_send(f, fn)
      PROVE  TxType'
  <2> DEFINE data == [i \in 1 .. Len(f) |-> Putchar(f[i])]
  <2>1. f \in Seq(Byte)
    BY FramesAssumption
  <2>2. data \in Seq(Item)
    BY <2>1, ItemsAre
  <2>3. todo' = <<Raw(FLAG)>> \o data \o <<Raw(FLAG)>>
    BY <1>1 DEF ax25_send
  <2> HIDE DEF data
  <2>4. todo' \in Seq(Item) /\ todo' # << >>
    BY <2>2, <2>3, ItemsAre, Enclosed
  <2>5. QED
    BY <1>1, <2>4 DEF ax25_send
<1>2. CASE afsk_write
  <2>1. Head(todo) \in Item /\ todo # << >> /\ ESC \in Byte
    BY <1>2 DEF afsk_write, Byte, Escaped
  <2>2. /\ tx_fifo' \in Seq(Byte) /\ Len(tx_fifo') <= Capacity
        /\ todo' \in Seq(Item)
    <3>1. CASE WriteByte
      <4>1. Head(todo).byte \in Byte
        BY <2>1 DEF Item
      <4>2. QED
        BY <1>2, <2>1, <3>1, <4>1 DEF afsk_write, WriteByte
    <3>2. CASE WriteEscape
      <4>1. todo[1] \in Item
        BY <2>1
      <4>2. [todo[1] EXCEPT !.escape = FALSE] \in Item
        BY <4>1, Zenon DEF Item
      <4>3. [todo EXCEPT ![1].escape = FALSE] \in Seq(Item)
        BY <2>1, <4>2
      <4>4. QED
        BY <1>2, <2>1, <3>2, <4>3 DEF afsk_write, WriteEscape
    <3>3. QED
      BY <1>2, <3>1, <3>2 DEF afsk_write
  <2>3. QED
    BY <1>2, <2>2 DEF afsk_write
<1>3. CASE txStart_On \/ txStart_Already \/ irqStart
  BY <1>3, Zenon DEF txStart_On, txStart_Already, irqStart
<1>4. CASE setTrailer
  <2>1. pc' = IF todo # << >> THEN "write" ELSE IF caller = "sendVia" THEN "idle" ELSE "flush"
    BY <1>4 DEF setTrailer, AfterByte
  <2>2. QED
    BY <1>4, <2>1 DEF setTrailer, AfterByte
<1>5. CASE afsk_flush
  BY <1>5 DEF afsk_flush
<1>6. ASSUME ByteTime
      PROVE  late' \in BOOLEAN
  BY <1>6, Zenon DEF ByteTime
<1>7. ASSUME HearFlag
      PROVE  /\ heard' \in Seq(Seq(Byte)) /\ hearing' \in Seq(Byte)
             /\ synced' \in BOOLEAN /\ flags' \in 0 .. TrailerLen + 1
  BY <1>7 DEF HearFlag
<1>8. ASSUME NEW c \in Byte, HearByte(c)
      PROVE  /\ heard' \in Seq(Seq(Byte)) /\ hearing' \in Seq(Byte)
             /\ synced' \in BOOLEAN /\ flags' \in 0 .. TrailerLen + 1
  BY <1>8 DEF HearByte
<1>9. ASSUME CarrierOff
      PROVE  /\ heard' \in Seq(Seq(Byte)) /\ hearing' \in Seq(Byte)
             /\ synced' \in BOOLEAN /\ flags' \in 0 .. TrailerLen + 1
  <2>1. synced' \in BOOLEAN
    BY <1>9, Zenon DEF CarrierOff
  <2>2. QED
    BY <1>9, <2>1 DEF CarrierOff
<1>10. CASE Dac_End
  BY <1>10, <1>6, <1>9 DEF Dac_End, ByteTime, Stop
<1>11. CASE Dac_Preamble
  BY <1>11, <1>6, <1>7 DEF Dac_Preamble, ByteTime
<1>12. CASE Dac_Trailer
  BY <1>12, <1>6, <1>7 DEF Dac_Trailer, ByteTime
<1>13. CASE Dac_Byte
  <2>1. HearFlag \/ CarrierOff \/ HearByte(Head(tx_fifo))
    BY <1>13, Zenon DEF Dac_Byte
  <2>2. Head(tx_fifo) \in Byte /\ Tail(tx_fifo) \in Seq(Byte)
        /\ Len(Tail(tx_fifo)) <= Capacity
    BY <1>13 DEF Dac_Byte
  <2>3. /\ heard' \in Seq(Seq(Byte)) /\ hearing' \in Seq(Byte)
        /\ synced' \in BOOLEAN /\ flags' \in 0 .. TrailerLen + 1
    BY <1>7, <1>8, <1>9, <2>1, <2>2
  <2>4. QED
    BY <1>13, <1>6, <2>2, <2>3 DEF Dac_Byte, ByteTime
<1>14. CASE Dac_Escape
  <2>1. Len(tx_fifo) > 1
    BY <1>14 DEF Dac_Escape
  <2>2. tx_fifo[2] \in Byte
    BY <2>1
  <2>3. Tail(Tail(tx_fifo)) \in Seq(Byte) /\ Len(Tail(Tail(tx_fifo))) <= Capacity
    <3>1. /\ Tail(Tail(tx_fifo)) \in Seq(Byte)
          /\ Len(Tail(Tail(tx_fifo))) = Len(tx_fifo) - 2
      BY <2>1, TwoTaken, Zenon
    <3>2. QED
      BY <3>1, SMTT(30)
  <2>4. HearByte(tx_fifo[2])
    BY <1>14, Zenon DEF Dac_Escape
  <2>5. /\ heard' \in Seq(Seq(Byte)) /\ hearing' \in Seq(Byte)
        /\ synced' \in BOOLEAN /\ flags' \in 0 .. TrailerLen + 1
    BY <1>8, <2>2, <2>4, Zenon
  <2>6. QED
    BY <1>14, <1>6, <2>3, <2>5, SMTT(30) DEF Dac_Escape, ByteTime
<1>15. CASE Dac_EscapeUnderrun
  BY <1>15, <1>6, <1>9 DEF Dac_EscapeUnderrun, ByteTime, Stop
<1>16. CASE Finished \/ UNCHANGED vars
  BY <1>16, Zenon DEF Finished, vars
<1>17. QED
  BY <1>1, <1>2, <1>3, <1>4, <1>5, <1>10, <1>11, <1>12, <1>13, <1>14, <1>15, <1>16, Zenon
  DEF Next, Main, afsk_dac_isr

-----------------------------------------------------------------------------
(* The steps of the main program.                                          *)

\* What the places depend on.
LEMMA BetweenKept ==
  ASSUME Between, UNCHANGED <<tx_fifo, sent, todo>>,
         \A p \in Place : ReadUpTo(p) => ReadUpTo(p)'
  PROVE  Between'
<1>1. PICK T : /\ Stream(tx_fifo, sent, T) /\ ReadUpTo(T[1])
               /\ WrittenUpTo(T[Len(tx_fifo) + 1])
  BY DEF Between
<1>2. CASE T[1] \in Place
  <2>1. ReadUpTo(T[1])'
    BY <1>1, <1>2
  <2>2. WrittenUpTo(T[Len(tx_fifo) + 1])'
    BY <1>1, Zenon DEF WrittenUpTo
  <2>3. QED
    BY <1>1, <2>1, <2>2 DEF Between
<1>3. QED
  BY <1>1, <1>2 DEF Stream

LEMMA PlacesOf ==
  ASSUME TxType, NEW T, Stream(tx_fifo, sent, T)
  PROVE  /\ Len(tx_fifo) \in Nat
         /\ T[1] \in Place /\ T[Len(tx_fifo) + 1] \in Place
  BY DEF TxType, Stream

LEMMA SendKeeps ==
  ASSUME AirInv, ~late, NEW f \in Frames, NEW fn \in {"sendRaw", "sendVia"},
         ax25_send(f, fn)
  PROVE  Between' /\ KeepsUp' /\ Trailing'
<1>1. PICK T : /\ Stream(tx_fifo, sent, T) /\ ReadUpTo(T[1])
               /\ WrittenUpTo(T[Len(tx_fifo) + 1])
  BY DEF AirInv, Between
<1>2. /\ sent' = Append(sent, f) /\ tx_fifo' = tx_fifo /\ todo = << >>
      /\ sent \in Seq(Frames) /\ f \in Seq(Byte) /\ f # << >>
  BY FramesAssumption DEF AirInv, TxType, ax25_send, txVars
<1>3. /\ Len(sent') = Len(sent) + 1 /\ sent'[Len(sent) + 1] = f
      /\ \A i \in 1 .. Len(sent) : sent'[i] = sent[i]
  BY <1>2
<1>4. Stream(tx_fifo', sent', T)
  BY <1>1, <1>2, StreamGrows, PlacesOf DEF AirInv
<1>5. PICK p \in Place : p = T[1]
  BY <1>1, PlacesOf DEF AirInv
<1>6. ReadUpTo(p)'
  <2>1. p.k \in Nat /\ p.j \in Nat /\ ReadUpTo(p)
    BY <1>1, <1>5 DEF Place
  <2>2. p.j > 0 => InFrame(sent', p) /\ sent'[p.k] = sent[p.k]
    BY <1>2, <1>3, <1>5, <2>1 DEF ReadUpTo, InFrame, Place, IsData
  <2>3. UNCHANGED <<heard, hearing, synced, flags, dac_isr, preamble_len>>
    BY DEF ax25_send, txVars, airVars
  <2>4. /\ Len(heard') = p.k - 1 /\ p.k <= Len(sent') + 1
        /\ \A i \in 1 .. Len(heard') : heard'[i] = sent'[i]
    BY <1>2, <1>3, <2>1, <2>3 DEF ReadUpTo
  <2>5. QED
    BY <2>1, <2>2, <2>3, <2>4 DEF ReadUpTo
<1>7. PICK q \in Place : q = T[Len(tx_fifo) + 1]
  BY <1>1, PlacesOf DEF AirInv
<1>8. q = At(Len(sent) + 1, 0, 0)
  BY <1>1, <1>2, <1>7, Zenon DEF WrittenUpTo
<1>9. WrittenUpTo(q)'
  <2> DEFINE data == [i \in 1 .. Len(f) |-> Putchar(f[i])]
             n == Len(f)
  <2>1. n \in Nat \ {0} /\ \A i \in 1 .. n : data[i] = Putchar(f[i])
    BY <1>2
  <2>2. data \in Seq(Item) /\ Len(data) = n
    BY <1>2, <2>1, ItemsAre
  <2>3. todo' = <<Raw(FLAG)>> \o data \o <<Raw(FLAG)>>
    BY DEF ax25_send
  <2> HIDE DEF data
  <2>4. /\ Len(todo') = Len(data) + 2 /\ todo'[1] = Raw(FLAG)
        /\ todo'[Len(data) + 2] = Raw(FLAG)
        /\ \A i \in 1 .. Len(data) : todo'[i + 1] = data[i]
    <3>1. Raw(FLAG) \in Item
      BY ItemsAre
    <3>2. PICK d \in Seq(Item) : d = data
      BY <2>2, Zenon
    <3>3. PICK t : t = todo'
      BY Zenon
    <3>4. t = <<Raw(FLAG)>> \o d \o <<Raw(FLAG)>>
      BY <2>3, <3>2, <3>3, Zenon
    <3>5. /\ Len(t) = Len(d) + 2 /\ t[1] = Raw(FLAG) /\ t[Len(d) + 2] = Raw(FLAG)
          /\ \A i \in 1 .. Len(d) : t[i + 1] = d[i]
      BY <3>1, <3>4, Enclosed, SMTT(30)
    <3>6. QED
      BY <3>2, <3>3, <3>5, Zenon
  <2>5. /\ Len(todo') = n + 2 /\ todo'[1] = Raw(FLAG) /\ todo'[n + 2] = Raw(FLAG)
        /\ \A i \in 1 .. n : todo'[i + 1] = Putchar(f[i])
    BY <2>1, <2>2, <2>4
  <2>6. q.k = Len(sent') /\ q.j = 0 /\ q.h = 0 /\ sent'[q.k] = f
    BY <1>2, <1>3, <1>8 DEF At
  <2>7. InFrame(sent', q)
    BY <1>2, <2>1, <2>6 DEF InFrame
  <2>8. todo' # << >>
    BY <2>1, <2>5
  <2> HIDE DEF n
  <2>9. ASSUME NEW i \in 1 .. n + 2
        PROVE  /\ todo'[i].byte = IF IsData(sent', Unwritten(i, q))
                                  THEN sent'[q.k][q.j + i - 1] ELSE FLAG
               /\ todo'[i].escape <=> NeedsEscape(sent', Unwritten(i, q))
    <3>1. /\ Unwritten(i, q).k = q.k /\ Unwritten(i, q).j = i - 1
          /\ Unwritten(i, q).h = 0
      BY <2>1, <2>6 DEF Unwritten, At
    <3>2. IsData(sent', Unwritten(i, q)) <=> i - 1 \in 1 .. n
      BY <2>6, <3>1, Zenon DEF IsData, n
    <3>3. CASE i - 1 \in 1 .. n
      <4>1. todo'[i] = Putchar(f[i - 1])
        BY <2>1, <2>5, <3>3
      <4>2. todo'[i].byte = f[i - 1] /\ (todo'[i].escape <=> f[i - 1] \in Escaped)
        BY <1>2, <3>3, <4>1, ItemsAre DEF n
      <4>3. QED
        BY <2>1, <2>6, <3>1, <3>2, <3>3, <4>2 DEF NeedsEscape
    <3>4. CASE i - 1 \notin 1 .. n
      <4>1. todo'[i] = Raw(FLAG)
        BY <2>1, <2>5, <3>4
      <4>2. todo'[i].byte = FLAG /\ ~todo'[i].escape
        BY <4>1, ItemsAre
      <4>3. QED
        BY <3>2, <3>4, <4>2 DEF NeedsEscape
    <3>5. QED
      BY <3>3, <3>4
  <2>10. Len(todo') = Len(sent'[q.k]) + 2 - q.j
    BY <2>1, <2>5, <2>6 DEF n
  <2>11. QED
    BY <2>5, <2>6, <2>7, <2>8, <2>9, <2>10 DEF WrittenUpTo
<1>10. Between'
  BY <1>2, <1>4, <1>5, <1>6, <1>7, <1>9 DEF Between
<1>11. KeepsUp' /\ Trailing'
  BY DEF ax25_send, txVars, AirInv, KeepsUp, Trailing
<1>12. QED
  BY <1>10, <1>11

LEMMA WriteKeeps ==
  ASSUME AirInv, TxType', ~late, afsk_write
  PROVE  Between' /\ KeepsUp' /\ Trailing'
<1>1. PICK T : /\ Stream(tx_fifo, sent, T) /\ ReadUpTo(T[1])
               /\ WrittenUpTo(T[Len(tx_fifo) + 1])
  BY DEF AirInv, Between
<1>2. PICK p \in Place : p = T[Len(tx_fifo) + 1]
  BY <1>1, PlacesOf DEF AirInv
<1>3. /\ sent' = sent /\ sent \in Seq(Frames) /\ tx_fifo \in Seq(Byte)
      /\ todo \in Seq(Item) /\ todo # << >> /\ Len(todo) \in Nat \ {0}
      /\ p.k \in Nat /\ p.j \in Nat /\ p.h \in 0 .. 1
  BY SMTT(30) DEF AirInv, TxType, afsk_write, Place
<1>4. /\ WrittenUpTo(p) /\ p.k = Len(sent) /\ InFrame(sent, p)
      /\ Len(todo) = Len(sent[p.k]) + 2 - p.j
  BY <1>1, <1>2, <1>3, Zenon DEF WrittenUpTo
<1>5. PICK U : /\ Stream(Append(tx_fifo, ByteAt(sent, p)), sent, U) /\ U[1] = T[1]
               /\ U[Len(tx_fifo) + 2] = Following(sent, p)
  BY <1>1, <1>2, <1>3, <1>4, StreamPush
<1>6. Head(todo) = todo[1] /\ Unwritten(1, p) = At(p.k, p.j, p.h)
  BY <1>3 DEF Unwritten
<1>7. /\ IsData(sent, Unwritten(1, p)) <=> IsData(sent, p)
      /\ NeedsEscape(sent, Unwritten(1, p)) <=> NeedsEscape(sent, p)
  BY <1>6 DEF IsData, NeedsEscape, At
<1>8. /\ Head(todo).byte = IF IsData(sent, p) THEN sent[p.k][p.j] ELSE FLAG
      /\ Head(todo).escape <=> NeedsEscape(sent, p)
  <2>1. /\ todo[1].byte = IF IsData(sent, Unwritten(1, p)) THEN sent[p.k][p.j + 1 - 1] ELSE FLAG
        /\ todo[1].escape <=> NeedsEscape(sent, Unwritten(1, p))
    <3>1. 1 \in 1 .. Len(todo)
      BY <1>3
    <3>2. QED
      BY <1>3, <1>4, <3>1, Zenon DEF WrittenUpTo
  <2>2. p.j + 1 - 1 = p.j
    BY <1>3
  <2>3. QED
    BY <1>6, <1>7, <2>1, <2>2
<1>9. tx_fifo' = Append(tx_fifo, ByteAt(sent, p))
  BY <1>8 DEF afsk_write, WriteByte, WriteEscape, ByteAt, NeedsEscape
<1>10. Len(tx_fifo') = Len(tx_fifo) + 1 /\ Len(tx_fifo) \in Nat
  BY <1>3, <1>9, SMTT(30) DEF TxType
<1>11. PICK r \in Place : r = Following(sent, p)
  BY <1>3, <1>4, FollowingIs
<1>12. PICK n \in Nat \ {0} : n = Len(sent[p.k])
  BY <1>3, <1>4, FollowingIs
<1>0. p.j <= n + 1 /\ Len(todo) = n + 2 - p.j
  BY <1>4, <1>12 DEF InFrame
<1>13. WrittenUpTo(r)'
  <2>1. CASE NeedsEscape(sent, p)
    <3>1. todo' = [todo EXCEPT ![1].escape = FALSE]
      BY <1>8, <2>1 DEF afsk_write, WriteEscape
    <3>2. todo[1] \in Item
      BY <1>3
    <3>3. /\ Len(todo') = Len(todo) /\ todo' # << >>
          /\ \A i \in 1 .. Len(todo) : i # 1 => todo'[i] = todo[i]
          /\ todo'[1] = [todo[1] EXCEPT !.escape = FALSE]
      <4>1. PICK x \in Item : x = [todo[1] EXCEPT !.escape = FALSE]
        BY <3>2, Zenon DEF Item
      <4>2. todo' = [todo EXCEPT ![1] = x]
        BY <3>1, <4>1
      <4>3. /\ Len([todo EXCEPT ![1] = x]) = Len(todo)
            /\ \A i \in 1 .. Len(todo) : i # 1 => [todo EXCEPT ![1] = x][i] = todo[i]
            /\ [todo EXCEPT ![1] = x][1] = x
        BY <1>3, ExceptSeq
      <4>4. Len(todo') = Len(todo)
        BY <4>2, <4>3
      <4>5. QED
        BY <1>3, <4>1, <4>2, <4>3, <4>4
    <3>4. todo'[1].byte = todo[1].byte /\ todo'[1].escape = FALSE
      BY <3>2, <3>3 DEF Item
    <3>5. r = At(p.k, p.j, 1) /\ r.k = p.k /\ r.j = p.j /\ r.h = 1
      BY <1>11, <2>1 DEF Following, At
    <3>6. InFrame(sent, r)
      BY <1>4, <2>1, <3>5, Zenon DEF InFrame, NeedsEscape, IsData
    <3>7. ASSUME NEW i \in 1 .. Len(todo)
          PROVE  /\ todo'[i].byte = IF IsData(sent, Unwritten(i, r))
                                    THEN sent[r.k][r.j + i - 1] ELSE FLAG
                 /\ todo'[i].escape <=> NeedsEscape(sent, Unwritten(i, r))
      <4>1. /\ todo[i].byte = IF IsData(sent, Unwritten(i, p))
                              THEN sent[p.k][p.j + i - 1] ELSE FLAG
            /\ todo[i].escape <=> NeedsEscape(sent, Unwritten(i, p))
        BY <1>3, <1>4, Zenon DEF WrittenUpTo
      <4>2. IsData(sent, Unwritten(i, p)) <=> IsData(sent, Unwritten(i, r))
        BY <3>5 DEF IsData, Unwritten, At
      <4>3. CASE i = 1
        <5>1. ~NeedsEscape(sent, Unwritten(i, r))
          BY <3>5, <4>3 DEF NeedsEscape, Unwritten, At
        <5>2. QED
          BY <3>4, <3>5, <4>1, <4>2, <4>3, <5>1
      <4>4. CASE i # 1
        <5>1. Unwritten(i, r) = Unwritten(i, p)
          BY <3>5, <4>4 DEF Unwritten
        <5>2. QED
          BY <3>3, <3>5, <4>1, <4>4, <5>1
      <4>5. QED
        BY <4>3, <4>4, Zenon
    <3>8. QED
      BY <1>3, <1>4, <3>3, <3>5, <3>6, <3>7, Zenon DEF WrittenUpTo
  <2>2. CASE ~NeedsEscape(sent, p)
    <3>1. todo' = Tail(todo)
      BY <1>8, <2>2 DEF afsk_write, WriteByte
    <3>2. /\ Len(todo') = Len(todo) - 1
          /\ \A i \in 1 .. Len(todo) - 1 : todo'[i] = todo[i + 1]
      BY <1>3, <3>1, SMTT(30)
    <3>3. CASE p.j = n + 1
      <4>1. todo' = << >>
        BY <1>0, <1>3, <3>2, <3>3 DEF TxType
      <4>2. r = At(Len(sent) + 1, 0, 0)
        BY <1>4, <1>11, <1>12, <2>2, <3>3, Zenon DEF Following
      <4>3. QED
        BY <1>3, <4>1, <4>2 DEF WrittenUpTo
    <3>4. CASE p.j # n + 1
      <4>1. r = At(p.k, p.j + 1, 0) /\ r.k = p.k /\ r.j = p.j + 1 /\ r.h = 0
        BY <1>11, <1>12, <2>2, <3>4 DEF Following, At
      <4>2. todo' # << >>
        <5>1. Len(todo') > 0
          BY <1>0, <1>3, <3>2, <3>4, SMTT(30)
        <5>2. QED
          BY <5>1
      <4>3. InFrame(sent, r)
        <5>1. r.j <= n + 1
          BY <1>0, <1>3, <3>4, <4>1
        <5>2. n = Len(sent[r.k]) /\ r.k <= Len(sent) /\ r.h # 1
          BY <1>3, <1>4, <1>12, <4>1, SMTT(30)
        <5>3. QED
          BY <5>1, <5>2 DEF InFrame
      <4>4. ASSUME NEW i \in 1 .. Len(todo')
            PROVE  /\ todo'[i].byte = IF IsData(sent, Unwritten(i, r))
                                      THEN sent[r.k][r.j + i - 1] ELSE FLAG
                   /\ todo'[i].escape <=> NeedsEscape(sent, Unwritten(i, r))
        <5>1. i + 1 \in 1 .. Len(todo) /\ todo'[i] = todo[i + 1] /\ i \in Nat /\ i + 1 # 1
          BY <1>3, <3>2
        <5>2. Unwritten(i + 1, p) = Unwritten(i, r) /\ p.j + (i + 1) - 1 = r.j + i - 1
          <6>1. p.j + (i + 1) - 1 = r.j + i - 1
            BY <1>3, <4>1, <5>1, SMTT(30)
          <6>2. QED
            BY <4>1, <5>1, <6>1 DEF Unwritten
        <5>3. /\ todo[i + 1].byte = IF IsData(sent, Unwritten(i + 1, p))
                                    THEN sent[p.k][p.j + (i + 1) - 1] ELSE FLAG
              /\ todo[i + 1].escape <=> NeedsEscape(sent, Unwritten(i + 1, p))
          BY <1>3, <1>4, <5>1, Zenon DEF WrittenUpTo
        <5>4. QED
          BY <4>1, <5>1, <5>2, <5>3
      <4>5. Len(todo') = Len(sent[r.k]) + 2 - r.j
        <5>1. Len(todo') = n + 2 - r.j
          BY <1>0, <1>3, <3>2, <4>1, SMTT(30)
        <5>2. QED
          BY <1>12, <4>1, <5>1
      <4>6. QED
        BY <1>3, <1>4, <4>1, <4>2, <4>3, <4>4, <4>5, Zenon DEF WrittenUpTo
    <3>5. QED
      BY <3>3, <3>4, Zenon
  <2>3. QED
    BY <2>1, <2>2
<1>14. PICK s \in Place : s = T[1]
  BY <1>1, PlacesOf, Zenon DEF AirInv
<1>15. ReadUpTo(s)'
  BY <1>1, <1>14, Zenon DEF ReadUpTo, afsk_write, airVars
<1>16. Between'
  <2>1. Len(tx_fifo') + 1 = Len(tx_fifo) + 2
    BY <1>10, SMTT(30)
  <2>2. Stream(tx_fifo', sent', U) /\ U[1] = s /\ U[Len(tx_fifo') + 1] = r
    BY <1>3, <1>5, <1>9, <1>11, <1>14, <2>1
  <2>3. QED
    BY <1>13, <1>15, <2>2 DEF Between
<1>17. KeepsUp'
  <2>1. tx_fifo' # << >> /\ written \in 0 .. 2
    BY <1>10 DEF AirInv, TxType
  <2>2. QED
    BY <1>10, <2>1 DEF afsk_write, AirInv, KeepsUp
<1>18. Trailing'
  BY DEF afsk_write, Trailing
<1>19. QED
  BY <1>16, <1>17, <1>18

LEMMA StartKeeps ==
  ASSUME AirInv, IInv, ~late,
         txStart_On \/ txStart_Already \/ irqStart \/ setTrailer \/ afsk_flush
  PROVE  Between' /\ KeepsUp' /\ Trailing'
<1> USE DEF txVars, airVars, SendingIsKeyed
<1>1. UNCHANGED <<tx_fifo, sent, todo>>
  BY DEF txStart_On, txStart_Already, irqStart, setTrailer, AfterByte, afsk_flush
<1>2. ASSUME NEW p \in Place, ReadUpTo(p)
      PROVE  ReadUpTo(p)'
  <2>1. CASE txStart_On
    <3>1. ~dac_isr
      BY <2>1 DEF txStart_On, IInv
    <3>2. ~(p.j > 0) /\ p.j \in Nat
      BY <1>2, <3>1, Zenon DEF ReadUpTo, Place
    <3>3. QED
      BY <1>2, <2>1, <3>2 DEF ReadUpTo, txStart_On
  <2>2. CASE irqStart
    BY <1>2, <2>2, Zenon DEF ReadUpTo, irqStart
  <2>3. CASE txStart_Already \/ setTrailer \/ afsk_flush
    BY <1>2, <2>3 DEF ReadUpTo, txStart_Already, setTrailer, AfterByte, afsk_flush
  <2>4. QED
    BY <2>1, <2>2, <2>3, Zenon
<1>3. Between'
  BY <1>1, <1>2, BetweenKept DEF AirInv
<1>4. KeepsUp /\ Trailing /\ Len(tx_fifo) \in Nat /\ written \in 0 .. 2
      /\ (tx_fifo # << >> => Len(tx_fifo) >= 1)
  BY DEF AirInv, TxType
<1>5. KeepsUp' /\ Trailing'
  <2>1. CASE txStart_On
    BY <1>4, <2>1 DEF txStart_On, IInv, KeepsUp, Trailing
  <2>2. CASE txStart_Already
    BY <1>4, <2>2 DEF txStart_Already, IInv, KeepsUp, Trailing
  <2>3. CASE irqStart
    BY <1>4, <2>3 DEF irqStart, IInv, NotStartedTwice, KeepsUp, Trailing
  <2>4. CASE setTrailer
    <3>1. dac_isr /\ Len(tx_fifo) >= written + 1 /\ tx_fifo # << >>
      BY <1>4, <2>4 DEF setTrailer, KeepsUp
    <3>2. pc' \in {"idle", "write", "flush"} /\ dac_isr' /\ Len(tx_fifo') >= written'
          /\ tx_fifo' # << >>
      BY <1>4, <2>4, <3>1 DEF setTrailer, AfterByte
    <3>3. QED
      BY <2>4, <3>2 DEF setTrailer, KeepsUp, Trailing
  <2>5. CASE afsk_flush
    BY <1>4, <2>5 DEF afsk_flush, IInv, KeepsUp, Trailing
  <2>6. QED
    BY <2>1, <2>2, <2>3, <2>4, <2>5
<1>6. QED
  BY <1>3, <1>5

-----------------------------------------------------------------------------
(* The steps of the interrupt.                                             *)

\* It comes in time: the main program waits, or it has written two bytes more than
\* it needs to have.
LEMMA InTime ==
  ASSUME AirInv, IInv, ByteTime, ~late'
  PROVE  /\ ~late /\ dac_isr /\ Between /\ KeepsUp /\ Trailing
         /\ \/ pc \in {"idle", "flush"} /\ todo = << >>
            \/ pc = "write" /\ Len(tx_fifo) >= 2
            \/ pc \in {"txStart", "trailer"} /\ Len(tx_fifo) >= 3
<1>1. ~late /\ dac_isr /\ (MainWaits \/ written = 2)
  BY Zenon DEF ByteTime
<1>2. Between /\ KeepsUp /\ Trailing /\ pc # "irqStart"
  BY <1>1 DEF AirInv, IInv, NotStartedTwice
<1>3. QED
  BY <1>1, <1>2, CapacityAssumption, SMTT(30) DEF AirInv, TxType, MainWaits, KeepsUp

\* With an empty FIFO nothing is left to write.
LEMMA EmptyMeansDone ==
  ASSUME AirInv, IInv, ByteTime, ~late', tx_fifo = << >>
  PROVE  /\ pc \in {"idle", "flush"} /\ preamble_len = 0
         /\ flags = 1 + TrailerLen - trailer_len
         /\ \A T : Stream(tx_fifo, sent, T) /\ WrittenUpTo(T[Len(tx_fifo) + 1]) => T[1].j = 0
<1>1. Len(tx_fifo) = 0
  OBVIOUS
<1>2. pc \in {"idle", "flush"} /\ todo = << >> /\ dac_isr /\ Trailing
  BY <1>1, InTime, SMTT(30)
<1>3. ASSUME NEW T, WrittenUpTo(T[Len(tx_fifo) + 1])
      PROVE  T[1].j = 0
  BY <1>1, <1>2, <1>3, SMTT(30) DEF WrittenUpTo, At
<1>4. QED
  BY <1>2, <1>3 DEF Trailing

\* Between two frames a flag, or silence, is not part of any.
LEMMA BoundaryKept ==
  ASSUME AirInv, NEW T, Stream(tx_fifo, sent, T), ReadUpTo(T[1]),
         WrittenUpTo(T[Len(tx_fifo) + 1]), T[1].j = 0,
         UNCHANGED <<tx_fifo, sent, todo>>, HearFlag \/ CarrierOff
  PROVE  Between'
<1>1. PICK p \in Place : p = T[1]
  BY PlacesOf, Zenon DEF AirInv
<1>2. heard' = heard /\ hearing' = << >>
  BY Zenon DEF ReadUpTo, HearFlag, CarrierOff
<1>3. ReadUpTo(p)'
  <2>1. p.j = 0 /\ ~(p.j > 0) /\ ~(p.j > 1)
    BY <1>1
  <2>2. ReadUpTo(p)
    BY <1>1, Zenon
  <2>3. QED
    BY <1>2, <2>1, <2>2, Zenon DEF ReadUpTo
<1>4. WrittenUpTo(T[Len(tx_fifo) + 1])'
  BY Zenon DEF WrittenUpTo
<1>5. QED
  BY <1>1, <1>3, <1>4 DEF Between

LEMMA PreambleKeeps ==
  ASSUME AirInv, IInv, ~late', Dac_Preamble
  PROVE  Between' /\ KeepsUp' /\ Trailing'
<1>1. /\ ByteTime /\ preamble_len > 0 /\ HearFlag
      /\ UNCHANGED <<tx_fifo, sending, dac_isr, trailer_len, pc, todo, sent>> /\ written' = 0
  BY DEF Dac_Preamble, ByteTime
<1>2. PICK T : /\ Stream(tx_fifo, sent, T) /\ ReadUpTo(T[1])
               /\ WrittenUpTo(T[Len(tx_fifo) + 1])
  BY <1>1, InTime, Zenon DEF Between
<1>3. T[1] \in Place /\ ~(T[1].j > 0)
  BY <1>1, <1>2, PlacesOf DEF AirInv, ReadUpTo
<1>4. T[1].j = 0
  BY <1>3 DEF Place
<1>5. Between'
  BY <1>1, <1>2, <1>4, BoundaryKept
<1>6. tx_fifo # << >>
  BY <1>1, EmptyMeansDone, SMTT(30)
<1>7. KeepsUp' /\ Trailing'
  BY <1>1, <1>6, InTime DEF KeepsUp, Trailing, AirInv, TxType
<1>8. QED
  BY <1>5, <1>7

LEMMA TrailerKeeps ==
  ASSUME AirInv, IInv, ~late', Dac_Trailer
  PROVE  Between' /\ KeepsUp' /\ Trailing'
<1>1. /\ ByteTime /\ tx_fifo = << >> /\ trailer_len > 0 /\ HearFlag
      /\ trailer_len' = trailer_len - 1
      /\ UNCHANGED <<tx_fifo, sending, dac_isr, preamble_len, pc, todo, sent>> /\ written' = 0
  BY DEF Dac_Trailer, ByteTime
<1>2. PICK T : /\ Stream(tx_fifo, sent, T) /\ ReadUpTo(T[1])
               /\ WrittenUpTo(T[Len(tx_fifo) + 1])
  BY <1>1, InTime DEF Between
<1>3. T[1].j = 0
  BY <1>1, <1>2, EmptyMeansDone
<1>4. Between'
  BY <1>1, <1>2, <1>3, BoundaryKept
<1>5. pc \in {"idle", "flush"} /\ preamble_len = 0 /\ flags = 1 + TrailerLen - trailer_len
  BY <1>1, EmptyMeansDone
<1>6. flags' = flags + 1
  BY <1>1, <1>5, LenAssumption, SMTT(30) DEF HearFlag, AirInv, TxType
<1>7. KeepsUp' /\ Trailing'
  BY <1>1, <1>5, <1>6, LenAssumption, InTime DEF KeepsUp, Trailing, AirInv, TxType
<1>8. QED
  BY <1>4, <1>7

LEMMA EndKeeps ==
  ASSUME AirInv, IInv, ~late', Dac_End
  PROVE  Between' /\ KeepsUp' /\ Trailing'
<1>1. /\ ByteTime /\ tx_fifo = << >> /\ CarrierOff /\ ~dac_isr'
      /\ UNCHANGED <<tx_fifo, pc, todo, sent>> /\ written' = 0
  BY DEF Dac_End, ByteTime, Stop
<1>2. PICK T : /\ Stream(tx_fifo, sent, T) /\ ReadUpTo(T[1])
               /\ WrittenUpTo(T[Len(tx_fifo) + 1])
  BY <1>1, InTime DEF Between
<1>3. T[1].j = 0
  BY <1>1, <1>2, EmptyMeansDone
<1>4. Between'
  BY <1>1, <1>2, <1>3, BoundaryKept
<1>5. pc \in {"idle", "flush"}
  BY <1>1, EmptyMeansDone
<1>6. KeepsUp' /\ Trailing'
  BY <1>1, <1>5 DEF KeepsUp, Trailing
<1>7. QED
  BY <1>4, <1>6

\* An escape without its byte: the main program would have been late.
LEMMA NoUnderrun ==
  ASSUME AirInv, IInv, Dac_EscapeUnderrun
  PROVE  late'
<1> SUFFICES ASSUME ~late'
             PROVE  FALSE
  OBVIOUS
<1>1. ByteTime /\ tx_fifo = <<ESC>> /\ Len(tx_fifo) = 1 /\ tx_fifo[1] = ESC
  BY DEF Dac_EscapeUnderrun
<1>2. todo = << >>
  BY <1>1, InTime
<1>3. PICK T : Stream(tx_fifo, sent, T) /\ WrittenUpTo(T[2])
  BY <1>1, InTime DEF Between
<1>4. /\ T[1] \in Place /\ InFrame(sent, T[1]) /\ ByteAt(sent, T[1]) = ESC
      /\ T[2] = Following(sent, T[1])
  BY <1>1, <1>3, SMTT(30) DEF Stream
<1>5. T[2].h = 0 /\ T[2].k = Len(sent) + 1
  BY <1>2, <1>3, SMTT(30) DEF WrittenUpTo, At
<1>6. CASE NeedsEscape(sent, T[1])
  BY <1>4, <1>5, <1>6, SMTT(30) DEF Following, At
<1>7. CASE ~NeedsEscape(sent, T[1])
  <2>1. T[1].j \in Nat /\ T[1].h \in 0 .. 1 /\ T[1].k <= Len(sent) /\ T[1].k \in Nat
    BY <1>4 DEF Place, InFrame
  <2>2. CASE IsData(sent, T[1])
    <3>1. T[2].k = T[1].k
      BY <1>4, <1>7, <2>1, <2>2, FollowingIs, SMTT(30) DEF Following, At, IsData, AirInv, TxType
    <3>2. QED
      BY <1>5, <2>1, <3>1, SMTT(30) DEF AirInv, TxType
  <2>3. CASE ~IsData(sent, T[1])
    BY <1>4, <1>7, <2>3 DEF ByteAt, ESC, FLAG
  <2>4. QED
    BY <2>2, <2>3
<1>8. QED
  BY <1>6, <1>7

\* The receiver hears the flag that opens a frame, or the one that closes it.
LEMMA HearsFlag ==
  ASSUME AirInv, NEW p \in Place, ReadUpTo(p), InFrame(sent, p), ~IsData(sent, p),
         HearFlag, UNCHANGED <<sent, dac_isr, preamble_len>>, dac_isr, preamble_len = 0,
         NEW r, r = Following(sent, p)
  PROVE  ReadUpTo(r)' /\ (r.j = 0 => flags' = 1)
<1>1. TxType /\ sent \in Seq(Frames) /\ p.k \in Nat \ {0} /\ p.j \in Nat /\ p.h = 0
  BY Zenon DEF AirInv, TxType, Place, ReadUpTo
<1>2. PICK f \in Seq(Byte) : f = sent[p.k] /\ Len(f) \in Nat \ {0} /\ p.k <= Len(sent)
  BY <1>1, FollowingIs, Zenon DEF InFrame
<1>3. p.j = 0 \/ p.j = Len(f) + 1
  BY <1>1, <1>2, SMTT(30) DEF IsData, InFrame
<1>4. r = IF p.j = 0 THEN At(p.k, 1, 0) ELSE At(p.k + 1, 0, 0)
  BY <1>1, <1>2, <1>3, SMTT(30) DEF Following, NeedsEscape
<1>5. CASE p.j = 0
  <2>1. r.k = p.k /\ r.j = 1 /\ r.h = 0
    BY <1>4, <1>5 DEF At
  <2>2. heard' = heard /\ hearing' = << >> /\ synced'
    BY <1>5, Zenon DEF ReadUpTo, HearFlag
  <2>3. InFrame(sent, r)
    BY <1>1, <1>2, <2>1 DEF InFrame
  <2>4. QED
    <3>1. InFrame(sent, r)'
      BY <2>3, Zenon DEF InFrame, IsData
    <3>2. Len(hearing') = r.j - 1 /\ \A i \in 1 .. Len(hearing') : hearing'[i] = sent'[r.k][i]
      BY <2>1, <2>2, SMTT(30)
    <3>3. r.k <= Len(sent') + 1 /\ Len(heard') = r.k - 1
          /\ \A i \in 1 .. Len(heard') : heard'[i] = sent'[i]
      BY <2>1, <2>2, Zenon DEF ReadUpTo
    <3>4. r.j > 0 /\ ~(r.j > 1) /\ r.j # 0
      BY <2>1, SMTT(30)
    <3>5. QED
      BY <2>1, <2>2, <3>1, <3>2, <3>3, <3>4, Zenon DEF ReadUpTo
<1>6. CASE p.j = Len(f) + 1
  <2>1. r.k = p.k + 1 /\ r.j = 0 /\ r.h = 0
    BY <1>2, <1>4, <1>6, SMTT(30) DEF At
  <2>2. hearing \in Seq(Byte) /\ Len(hearing) = Len(f) /\ \A i \in 1 .. Len(f) : hearing[i] = f[i]
    <3>1. p.j > 0 /\ p.j - 1 = Len(f)
      BY <1>2, <1>6
    <3>2. Len(hearing) = p.j - 1 /\ \A i \in 1 .. Len(hearing) : hearing[i] = sent[p.k][i]
      BY <3>1, Zenon DEF ReadUpTo
    <3>3. QED
      BY <1>1, <1>2, <3>1, <3>2, Zenon DEF TxType
  <2>3. hearing = f
    BY <1>2, <2>2, SeqEqual, Zenon
  <2>4. heard' = Append(heard, f) /\ hearing' = << >> /\ heard \in Seq(Seq(Byte))
    BY <1>1, <1>2, <2>3, SMTT(30) DEF HearFlag, TxType
  <2>5. /\ Len(heard) = p.k - 1 /\ Len(heard') = p.k /\ heard'[p.k] = f
        /\ \A i \in 1 .. p.k - 1 : heard'[i] = sent[i]
    BY <1>1, <1>2, <2>4, SMTT(30) DEF ReadUpTo
  <2>6. \A i \in 1 .. p.k : heard'[i] = sent[i]
    BY <1>1, <1>2, <2>5, SMTT(30)
  <2>7. ReadUpTo(r)'
    <3>1. /\ r.k <= Len(sent) + 1 /\ Len(heard') = r.k - 1
          /\ ~(r.j > 0) /\ ~(r.j > 1)
      BY <1>1, <1>2, <2>1, <2>5
    <3>2. \A i \in 1 .. Len(heard') : heard'[i] = sent'[i]
      BY <2>5, <2>6, Zenon
    <3>3. QED
      BY <2>1, <2>4, <3>1, <3>2, Zenon DEF ReadUpTo
  <2>8. flags = 0
    BY <1>1, <1>2, <1>6 DEF ReadUpTo
  <2>9. flags' = 1
    BY <2>8, LenAssumption, SMTT(30) DEF HearFlag
  <2>10. QED
    BY <2>7, <2>9, Zenon
<1>7. QED
  BY <1>3, <1>5, <1>6, Zenon

\* The beginning of a sequence, longer by one.
LEMMA AppendNext ==
  ASSUME NEW f \in Seq(Byte), NEW h \in Seq(Byte), NEW j \in 1 .. Len(f),
         Len(h) = j - 1, \A i \in 1 .. j - 1 : h[i] = f[i]
  PROVE  /\ Len(Append(h, f[j])) = j
         /\ \A i \in 1 .. j : Append(h, f[j])[i] = f[i]
OBVIOUS

\* The receiver hears a byte of a frame.
LEMMA HearsByte ==
  ASSUME AirInv, NEW p \in Place, ReadUpTo(p), InFrame(sent, p), IsData(sent, p),
         HearByte(sent[p.k][p.j]), UNCHANGED <<sent, dac_isr, preamble_len>>
  PROVE  ReadUpTo(At(p.k, p.j + 1, 0))'
<1>1. TxType /\ sent \in Seq(Frames) /\ p.k \in Nat \ {0} /\ p.j \in Nat
  BY Zenon DEF AirInv, TxType, Place
<1>2. PICK f \in Seq(Byte) : f = sent[p.k] /\ Len(f) \in Nat \ {0} /\ p.k <= Len(sent)
  BY <1>1, FollowingIs, Zenon DEF InFrame
<1>3. p.j \in 1 .. Len(f)
  BY <1>2, Zenon DEF IsData
<1>4. /\ synced /\ dac_isr /\ preamble_len = 0
      /\ hearing \in Seq(Byte) /\ Len(hearing) = p.j - 1
      /\ \A i \in 1 .. p.j - 1 : hearing[i] = f[i]
  <2>1. p.j > 0
    BY <1>3
  <2>2. /\ synced /\ dac_isr /\ preamble_len = 0 /\ Len(hearing) = p.j - 1
        /\ \A i \in 1 .. Len(hearing) : hearing[i] = sent[p.k][i]
    BY <2>1, Zenon DEF ReadUpTo
  <2>3. hearing \in Seq(Byte)
    BY <1>1, Zenon DEF TxType
  <2>4. QED
    BY <1>2, <2>2, <2>3, Zenon
<1>5. hearing' = Append(hearing, f[p.j]) /\ flags' = 0 /\ UNCHANGED <<heard, synced>>
  BY <1>2, <1>4, Zenon DEF HearByte
<1>6. Len(hearing') = p.j /\ \A i \in 1 .. p.j : hearing'[i] = f[i]
  BY <1>3, <1>4, <1>5, AppendNext, Zenon
<1>7. PICK r : r = At(p.k, p.j + 1, 0)
  BY Zenon
<1>8. r.k = p.k /\ r.j = p.j + 1 /\ r.h = 0
  BY <1>7, Zenon DEF At
<1>9. InFrame(sent, r)
  <2>1. r.k <= Len(sent) /\ r.j <= Len(f) + 1 /\ r.h # 1
    BY <1>2, <1>3, <1>8
  <2>2. sent[r.k] = f
    BY <1>2, <1>8, Zenon
  <2>3. QED
    BY <2>1, <2>2, Zenon DEF InFrame
<1>10. ReadUpTo(r)'
  <2>1. InFrame(sent, r)' /\ Len(hearing') = r.j - 1
    <3>1. InFrame(sent, r)'
      BY <1>9 DEF InFrame, IsData
    <3>2. p.j = (p.j + 1) - 1
      BY <1>1
    <3>3. QED
      BY <1>6, <1>8, <3>1, <3>2, Zenon
  <2>2. \A i \in 1 .. Len(hearing') : hearing'[i] = sent'[r.k][i]
    BY <1>2, <1>6, <1>8, Zenon
  <2>3. r.k <= Len(sent') + 1 /\ Len(heard') = r.k - 1
        /\ \A i \in 1 .. Len(heard') : heard'[i] = sent'[i]
    BY <1>5, <1>8 DEF ReadUpTo
  <2>4. r.j > 0 /\ r.j # 0
    BY <1>1, <1>8
  <2>5. QED
    BY <1>4, <1>5, <1>8, <2>1, <2>2, <2>3, <2>4, Zenon DEF ReadUpTo
<1>11. QED
  BY <1>7, <1>10, Zenon

\* Where the interrupt reads.
LEMMA ReadingAt ==
  ASSUME AirInv, NEW T, Stream(tx_fifo, sent, T), tx_fifo # << >>, ReadUpTo(T[1]),
         NEW p, p = T[1]
  PROVE  /\ p \in Place /\ ReadUpTo(p) /\ InFrame(sent, p)
         /\ Head(tx_fifo) = ByteAt(sent, p)
         /\ ByteAt(sent, p) = ESC => NeedsEscape(sent, p)
         /\ ByteAt(sent, p) # ESC => ~NeedsEscape(sent, p)
         /\ ByteAt(sent, p) = FLAG => ~IsData(sent, p)
         /\ ByteAt(sent, p) # RESET
<1>1. tx_fifo \in Seq(Byte) /\ Len(tx_fifo) \in Nat \ {0} /\ Head(tx_fifo) = tx_fifo[1]
  BY SMTT(30) DEF AirInv, TxType
<1>2. p \in Place /\ InFrame(sent, p) /\ tx_fifo[1] = ByteAt(sent, p) /\ p.h = 0
  BY <1>1 DEF Stream, ReadUpTo
<1>3. QED
  BY <1>1, <1>2, Zenon DEF ByteAt, NeedsEscape, Escaped, ESC, FLAG, RESET

LEMMA ByteKeeps ==
  ASSUME AirInv, IInv, ~late', Dac_Byte
  PROVE  Between' /\ KeepsUp' /\ Trailing'
<1>1. /\ ByteTime /\ preamble_len = 0 /\ tx_fifo # << >> /\ Head(tx_fifo) # ESC
      /\ tx_fifo' = Tail(tx_fifo)
      /\ UNCHANGED <<dac_isr, preamble_len, trailer_len, pc, todo, sent>> /\ written' = 0
  BY DEF Dac_Byte, ByteTime
<1>2. PICK T : /\ Stream(tx_fifo, sent, T) /\ ReadUpTo(T[1])
               /\ WrittenUpTo(T[Len(tx_fifo) + 1])
  BY <1>1, InTime DEF Between
<1>3. PICK p : p = T[1]
  BY Zenon
<1>4. /\ p \in Place /\ ReadUpTo(p) /\ InFrame(sent, p) /\ Head(tx_fifo) = ByteAt(sent, p)
      /\ ~NeedsEscape(sent, p) /\ Head(tx_fifo) # RESET
      /\ Head(tx_fifo) = FLAG => ~IsData(sent, p)
  BY <1>1, <1>2, <1>3, ReadingAt
<1>5. tx_fifo \in Seq(Byte) /\ sent \in Seq(Frames) /\ Len(tx_fifo') = Len(tx_fifo) - 1
  BY <1>1 DEF AirInv, TxType
<1>6. PICK U : /\ Stream(tx_fifo', sent, U) /\ U[1] = Following(sent, p)
               /\ U[Len(tx_fifo') + 1] = T[Len(tx_fifo) + 1]
  BY <1>1, <1>2, <1>3, <1>5, StreamPop, ZenonT(30)
<1>7. PICK r \in Place : r = Following(sent, p)
  BY <1>4, <1>5, FollowingIs, Zenon
<1>8. /\ ReadUpTo(r)'
      /\ IsData(sent, p) => r.k = p.k
      /\ ~IsData(sent, p) /\ r.j = 0 => flags' = 1
  <2>1. CASE IsData(sent, p)
    <3>1. Head(tx_fifo) = sent[p.k][p.j] /\ Head(tx_fifo) # FLAG
      BY <1>4, <2>1, Zenon DEF ByteAt
    <3>2. r = At(p.k, p.j + 1, 0)
      BY <1>4, <1>5, <1>7, <2>1, FollowingIs DEF Following, IsData, Place
    <3>3. HearByte(sent[p.k][p.j])
      BY <1>4, <3>1 DEF Dac_Byte
    <3>4. QED
      BY <1>1, <1>4, <2>1, <3>2, <3>3, HearsByte, Zenon DEF At
  <2>2. CASE ~IsData(sent, p)
    <3>1. Head(tx_fifo) = FLAG
      BY <1>4, <2>2 DEF ByteAt
    <3>2. HearFlag
      BY <3>1 DEF Dac_Byte, FLAG, RESET
    <3>3. dac_isr
      BY <1>1 DEF ByteTime
    <3>4. QED
      BY <1>1, <1>4, <1>7, <2>2, <3>2, <3>3, HearsFlag, Zenon
  <2>3. QED
    BY <2>1, <2>2
<1>9. PICK w : w = T[Len(tx_fifo) + 1]
  OBVIOUS
<1>10. WrittenUpTo(w)'
  BY <1>1, <1>2, <1>9, Zenon DEF WrittenUpTo
<1>11. Between'
  BY <1>1, <1>6, <1>7, <1>8, <1>9, <1>10, Zenon DEF Between
<1>12. KeepsUp'
  BY <1>1, <1>5, InTime DEF KeepsUp
<1>13. Trailing'
  <2>1. SUFFICES ASSUME dac_isr, pc \in {"idle", "flush"}
                 PROVE  IF tx_fifo' = << >> THEN flags' = 1 + TrailerLen - trailer_len
                                            ELSE trailer_len = TrailerLen
    BY <1>1, Zenon DEF Trailing
  <2>2. trailer_len = TrailerLen /\ todo = << >>
    BY <1>1, <2>1, InTime DEF Trailing, AirInv, TxType
  <2>3. CASE tx_fifo' = << >>
    <3>1. r = At(Len(sent) + 1, 0, 0)
      <4>1. Len(tx_fifo') + 1 = 1
        BY <2>3, SMTT(30)
      <4>2. T[Len(tx_fifo) + 1] = r
        BY <1>6, <1>7, <4>1, Zenon
      <4>3. QED
        BY <1>2, <2>2, <4>2, Zenon DEF WrittenUpTo
    <3>2. r.k = Len(sent) + 1 /\ r.j = 0 /\ Len(sent) \in Nat
      BY <1>5, <3>1, SMTT(30) DEF At
    <3>3. p.k <= Len(sent) /\ p.k \in Nat
      BY <1>4 DEF InFrame, Place
    <3>4. flags' = 1
      BY <1>8, <3>2, <3>3
    <3>5. QED
      BY <2>2, <2>3, <3>4, LenAssumption, SMTT(30)
  <2>4. QED
    BY <2>2, <2>3
<1>14. QED
  BY <1>11, <1>12, <1>13

LEMMA EscapeKeeps ==
  ASSUME AirInv, IInv, ~late', Dac_Escape
  PROVE  Between' /\ KeepsUp' /\ Trailing'
<1>1. /\ ByteTime /\ preamble_len = 0 /\ Len(tx_fifo) > 1 /\ Head(tx_fifo) = ESC
      /\ tx_fifo' = Tail(Tail(tx_fifo)) /\ HearByte(tx_fifo[2])
      /\ UNCHANGED <<dac_isr, preamble_len, trailer_len, pc, todo, sent>> /\ written' = 0
  BY DEF Dac_Escape, ByteTime
<1>2. PICK T : /\ Stream(tx_fifo, sent, T) /\ ReadUpTo(T[1])
               /\ WrittenUpTo(T[Len(tx_fifo) + 1])
  BY <1>1, InTime DEF Between
<1>3. PICK p : p = T[1]
  OBVIOUS
<1>4. tx_fifo \in Seq(Byte) /\ tx_fifo # << >> /\ sent \in Seq(Frames) /\ Len(tx_fifo) \in Nat
  BY <1>1, SMTT(30) DEF AirInv, TxType
<1>5. p \in Place /\ ReadUpTo(p) /\ InFrame(sent, p) /\ NeedsEscape(sent, p)
  BY <1>1, <1>2, <1>3, <1>4, ReadingAt
<1>6. PICK q \in Seq(Byte) : /\ q = Tail(tx_fifo) /\ q # << >> /\ Len(q) = Len(tx_fifo) - 1
                             /\ q[1] = tx_fifo[2] /\ Tail(q) \in Seq(Byte)
                             /\ Len(Tail(q)) = Len(tx_fifo) - 2
  <2>1. /\ Tail(tx_fifo) \in Seq(Byte) /\ Len(Tail(tx_fifo)) = Len(tx_fifo) - 1
        /\ Tail(tx_fifo)[1] = tx_fifo[2]
    BY <1>1, <1>4
  <2>2. PICK q \in Seq(Byte) : /\ q = Tail(tx_fifo) /\ Len(q) = Len(tx_fifo) - 1
                               /\ q[1] = tx_fifo[2]
    BY <2>1, Zenon
  <2>3. Len(q) \in Nat \ {0}
    BY <1>1, <1>4, <2>2
  <2>4. q # << >>
    BY <2>3
  <2>5. Tail(q) \in Seq(Byte) /\ Len(Tail(q)) = Len(tx_fifo) - 2
    <3>1. Tail(q) \in Seq(Byte) /\ Len(Tail(q)) = Len(q) - 1
      BY <2>3, <2>4, HeadTailProperties
    <3>2. QED
      BY <1>4, <2>2, <3>1
  <2>6. QED
    BY <2>2, <2>4, <2>5, Zenon
<1>7. PICK U : /\ Stream(q, sent, U) /\ U[1] = Following(sent, p)
               /\ U[Len(q) + 1] = T[Len(tx_fifo) + 1]
  BY <1>2, <1>3, <1>4, <1>6, StreamPop
<1>8. PICK h : h = At(p.k, p.j, 1) /\ h.k = p.k /\ h.j = p.j /\ h.h = 1
  <2>1. /\ At(p.k, p.j, 1).k = p.k /\ At(p.k, p.j, 1).j = p.j
        /\ At(p.k, p.j, 1).h = 1
    BY Zenon DEF At
  <2>2. QED
    BY <2>1, Zenon
<1>9. U[1] = h
  BY <1>5, <1>7, <1>8 DEF Following
<1>10. PICK V : /\ Stream(Tail(q), sent, V) /\ V[1] = Following(sent, h)
                /\ V[Len(Tail(q)) + 1] = T[Len(tx_fifo) + 1]
  <2>1. q \in Seq(Byte) /\ q # << >> /\ sent \in Seq(Frames) /\ Stream(q, sent, U)
    BY <1>4, <1>6, <1>7
  <2>2. \E V : /\ Stream(Tail(q), sent, V) /\ V[1] = Following(sent, U[1])
                /\ V[Len(Tail(q)) + 1] = U[Len(q) + 1]
    BY <2>1, StreamPop, SMTT(30)
  <2>3. QED
    BY <1>7, <1>9, <2>2, Zenon
<1>11. IsData(sent, p) /\ IsData(sent, h) /\ ~NeedsEscape(sent, h)
  BY <1>5, <1>8, SMTT(30) DEF NeedsEscape, IsData
<1>12. tx_fifo[2] = sent[p.k][p.j]
  <2>1. q[1] = ByteAt(sent, h)
    <3>1. 1 \in 1 .. Len(q)
      BY <1>6
    <3>2. QED
      BY <1>7, <1>9, <3>1, Zenon DEF Stream
  <2>2. QED
    BY <1>6, <1>8, <1>11, <2>1 DEF ByteAt
<1>13. V[1] = At(p.k, p.j + 1, 0)
  BY <1>4, <1>5, <1>8, <1>10, <1>11, FollowingIs DEF Following, IsData, Place
<1>14. PICK r : r = At(p.k, p.j + 1, 0)
  OBVIOUS
<1>15. ReadUpTo(r)'
  BY <1>1, <1>5, <1>11, <1>12, <1>14, HearsByte, Zenon
<1>16. PICK w : w = T[Len(tx_fifo) + 1]
  OBVIOUS
<1>17. WrittenUpTo(w)'
  BY <1>1, <1>2, <1>16, Zenon DEF WrittenUpTo
<1>18. Between'
  BY <1>1, <1>6, <1>10, <1>13, <1>14, <1>15, <1>16, <1>17, Zenon DEF Between
<1>19. KeepsUp'
  BY <1>1, <1>4, <1>6, InTime, SMTT(30) DEF KeepsUp
<1>20. Trailing'
  <2>1. SUFFICES ASSUME dac_isr, pc \in {"idle", "flush"}
                 PROVE  tx_fifo' # << >> /\ trailer_len = TrailerLen
    BY <1>1 DEF Trailing
  <2>2. trailer_len = TrailerLen /\ todo = << >>
    BY <1>1, <1>4, <2>1, InTime DEF Trailing, AirInv, TxType
  <2>3. CASE tx_fifo' = << >>
    <3>1. r = At(Len(sent) + 1, 0, 0)
      <4>1. Len(Tail(q)) + 1 = 1
        BY <1>1, <1>6, <2>3, SMTT(30)
      <4>2. T[Len(tx_fifo) + 1] = r
        BY <1>10, <1>13, <1>14, <4>1, Zenon
      <4>3. QED
        BY <1>2, <2>2, <4>2, Zenon DEF WrittenUpTo
    <3>2. p.k = Len(sent) + 1
      BY <1>14, <3>1, SMTT(30) DEF At
    <3>3. p.k <= Len(sent) /\ p.k \in Nat /\ Len(sent) \in Nat
      BY <1>4, <1>5 DEF InFrame, Place
    <3>4. QED
      BY <3>2, <3>3
  <2>4. QED
    BY <2>2, <2>3
<1>21. QED
  BY <1>18, <1>19, <1>20

-----------------------------------------------------------------------------
\* Once late the invariant claims nothing more.
LEMMA NextAirInv == AirInv /\ IInv /\ [Next]_vars => AirInv'
<1> SUFFICES ASSUME AirInv, IInv, [Next]_vars
             PROVE  AirInv'
  OBVIOUS
<1>1. TxType'
  BY NextTxType DEF AirInv
<1>2. SUFFICES ASSUME ~late'
               PROVE  Between' /\ KeepsUp' /\ Trailing'
  BY <1>1 DEF AirInv
<1>3. CASE afsk_dac_isr
  <2>1. ~Dac_EscapeUnderrun
    BY <1>2, NoUnderrun
  <2>2. QED
    BY <1>2, <1>3, <2>1, EndKeeps, PreambleKeeps, TrailerKeeps, ByteKeeps, EscapeKeeps
    DEF afsk_dac_isr
<1>4. ASSUME NEW f \in Frames, NEW fn \in {"sendRaw", "sendVia"}, ax25_send(f, fn)
      PROVE  Between' /\ KeepsUp' /\ Trailing'
  <2>1. ~late
    BY <1>2, <1>4 DEF ax25_send
  <2>2. QED
    BY <1>4, <2>1, SendKeeps
<1>5. CASE Main
  <2>1. ~late
    BY <1>2, <1>5, Zenon DEF Main, afsk_write, txStart_On, txStart_Already, irqStart, setTrailer,
                      AfterByte, afsk_flush
  <2>2. QED
    BY <1>1, <1>5, <2>1, WriteKeeps, StartKeeps, Zenon DEF Main
<1>6. CASE Finished \/ UNCHANGED vars
  <2>1. UNCHANGED vars
    BY <1>6 DEF Finished
  <2>2. ~late /\ Between /\ KeepsUp /\ Trailing
    BY <1>2, <2>1 DEF AirInv, vars, mainVars
  <2>3. Between'
    <3>1. \A p \in Place : ReadUpTo(p) => ReadUpTo(p)'
      BY <2>1 DEF ReadUpTo, InFrame, IsData, vars, txVars, mainVars, airVars
    <3>2. QED
      BY <2>1, <2>2, <3>1, BetweenKept, Zenon DEF vars, txVars, mainVars
  <2>4. QED
    BY <2>1, <2>2, <2>3 DEF KeepsUp, Trailing, vars, txVars, mainVars, airVars
<1>7. QED
  BY <1>3, <1>4, <1>5, <1>6 DEF Next

\* The whole path from ax25_sendRaw() and ax25_sendVia() to the air, for every
\* FIFO of at least two bytes: what an ideal receiver hears is what was sent, each
\* frame whole, once and in order, and nothing is missing once the modem is silent,
\* as long as the main program writes two bytes in the time the interrupt sends one.
THEOREM FramesReachTheAir == Spec => []AirIsIntact
<1>1. IInv /\ AirInv => AirIsIntact
  <2> SUFFICES ASSUME IInv, AirInv, ~late
               PROVE  /\ heard = SubSeq(sent, 1, Len(heard))
                      /\ pc = "idle" /\ ~dac_isr => heard = sent
    BY DEF AirIsIntact
  <2>1. PICK T : /\ Stream(tx_fifo, sent, T) /\ ReadUpTo(T[1])
                 /\ WrittenUpTo(T[Len(tx_fifo) + 1])
    BY DEF AirInv, Between
  <2>2. PICK p \in Place : p = T[1]
    BY <2>1, PlacesOf DEF AirInv
  <2>3. /\ heard \in Seq(Seq(Byte)) /\ sent \in Seq(Frames)
        /\ Len(heard) = p.k - 1 /\ p.k <= Len(sent) + 1
        /\ \A i \in 1 .. Len(heard) : heard[i] = sent[i]
    BY <2>1, <2>2, Zenon DEF AirInv, TxType, ReadUpTo
  <2>4. Frames \subseteq Seq(Byte)
    BY FramesAssumption
  <2>5. sent \in Seq(Seq(Byte))
    BY <2>3, <2>4
  <2>6. PICK s : s = SubSeq(sent, 1, Len(heard))
    BY Zenon
  <2>7. Len(heard) \in Nat /\ Len(heard) <= Len(sent) /\ Len(sent) \in Nat
    BY <2>3 DEF Place
  <2>8. s \in Seq(Seq(Byte)) /\ Len(s) = Len(heard) /\ \A i \in 1 .. Len(heard) : s[i] = sent[i]
    BY <2>5, <2>6, <2>7
  <2>9. heard = s
    BY <2>3, <2>8, SeqEqual, Zenon
  <2>10. ASSUME pc = "idle", ~dac_isr
         PROVE  heard = sent
    <3>1. tx_fifo = << >> /\ todo = << >>
      BY <2>10 DEF IInv, NoLostWakeup, AirInv, TxType
    <3>2. p = At(Len(sent) + 1, 0, 0)
      <4>1. T[Len(tx_fifo) + 1] = p
        BY <2>2, <3>1, SMTT(30)
      <4>2. QED
        BY <2>1, <3>1, <4>1, Zenon DEF WrittenUpTo
    <3>3. Len(heard) = Len(sent)
      <4>1. p.k = Len(sent) + 1
        BY <3>2 DEF At
      <4>2. QED
        BY <2>3, <2>7, <4>1, SMTT(30)
    <3>4. QED
      BY <2>3, <2>5, <3>3, SeqEqual, Zenon
  <2>11. QED
    BY <2>6, <2>9, <2>10
<1>2. QED
  BY InitIInv, NextIInv, InitAirInv, NextAirInv, <1>1, PTL DEF Spec

\* The interrupt keeps the carrier up until it has sent the closing flag and the
\* whole trailer behind it, for every trailer length.
THEOREM WholeTrailer == Spec => StopsAfterTrailer
<1>1. IInv /\ AirInv /\ [Next]_vars
      => [dac_isr /\ ~dac_isr' /\ ~late' => flags = TrailerLen + 1]_vars
  <2> SUFFICES ASSUME IInv, AirInv, Next, dac_isr, ~dac_isr', ~late'
               PROVE  flags = TrailerLen + 1
    OBVIOUS
  <2>1. Dac_End \/ Dac_EscapeUnderrun
    BY Zenon DEF Next, Main, afsk_dac_isr, ax25_send, afsk_write, txStart_On, txStart_Already,
           irqStart, setTrailer, AfterByte, afsk_flush, Dac_Preamble, Dac_Trailer, Dac_Byte,
           Dac_Escape, ByteTime, Finished, vars, txVars
  <2>2. ByteTime /\ tx_fifo = << >> /\ trailer_len = 0
    BY <2>1, NoUnderrun DEF Dac_End
  <2>3. QED
    BY <2>2, EmptyMeansDone, LenAssumption
<1>2. QED
  BY InitIInv, NextIInv, InitAirInv, NextAirInv, <1>1, PTL DEF Spec, StopsAfterTrailer
=============================================================================
