---------------------------- MODULE Ax25RxProofs ----------------------------
(***************************************************************************)
(* For every size of the receive FIFO and of the frame buffer, and any     *)
(* frames on the air, however the overruns cut them: ax25_poll() reads an  *)
(* escape where the parser has put one and never finds an HDLC_RESET; what *)
(* it hands to the hook are frames that were sent, in their order and none *)
(* twice; and behind two flags none is lost that meets no overrun.         *)
(*                                                                         *)
(* The argument follows each byte in the FIFO from where hdlc_parse() took *)
(* it to where ax25_poll() puts it.                                        *)
(***************************************************************************)
EXTENDS Ax25Rx, SequenceTheorems, TLAPS

Special == {FLAG, RESET, ESC}

\* Where a byte in the FIFO comes from: byte j of frame k, or its escape (h = 1);
\* j = 0 for a flag, with the number of the frames before it.  c = 1 when the flag
\* before the frame, or the flag itself, does not follow an escape without its byte.
Tag == [k : Nat, j : Nat, h : 0 .. 1, c : 0 .. 1]

Placed(s, t) ==
  IF t.j = 0 THEN t.h = 0 /\ t.k <= Len(s)
  ELSE /\ t.k \in 1 .. Len(s) /\ t.j <= Len(s[t.k])
       /\ t.h = 1 => s[t.k][t.j] \in Special

\* The byte x from place b is stored behind one from place a.
Follows(s, a, x, b) ==
  IF b.j = 0 THEN x = FLAG /\ b.k >= a.k /\ b.c = 1 - a.h
  ELSE /\ b.c = a.c
       /\ IF a.h = 1 THEN b.k = a.k /\ b.j = a.j /\ b.h = 0 /\ x = s[a.k][a.j]
          ELSE /\ b.j = a.j + 1 /\ b.k >= a.k
               /\ IF a.j = 0 THEN b.k > a.k ELSE b.k = a.k
               /\ IF b.h = 1 THEN x = ESC ELSE x = s[b.k][b.j] /\ x \notin Special

\* The bytes of q are those of the places T[1], T[2] ...; T[0] is the last one read.
Pieces(q, s, T) ==
  /\ T \in [0 .. Len(q) -> Tag]
  /\ \A i \in 0 .. Len(q) : Placed(s, T[i])
  /\ \A i \in 1 .. Len(q) : Follows(s, T[i - 1], q[i], T[i])

\* A byte is stored.
LEMMA PiecesPush ==
  ASSUME NEW q \in Seq(Bytes), NEW x \in Bytes, NEW s, NEW T, Pieces(q, s, T),
         NEW b \in Tag, Placed(s, b), Follows(s, T[Len(q)], x, b)
  PROVE  \E U : /\ Pieces(Append(q, x), s, U)
                /\ U[Len(q) + 1] = b
                /\ \A i \in 0 .. Len(q) : U[i] = T[i]
<1> DEFINE n == Len(q)
           r == Append(q, x)
           U == [i \in 0 .. n + 1 |-> IF i <= n THEN T[i] ELSE b]
<1>1. n \in Nat /\ T \in [0 .. n -> Tag]
  BY DEF Pieces
<1>2. Len(r) = n + 1 /\ r[n + 1] = x /\ \A i \in 1 .. n : r[i] = q[i]
  BY <1>1
<1>3. U \in [0 .. n + 1 -> Tag] /\ U[n + 1] = b /\ \A i \in 0 .. n : U[i] = T[i]
  BY <1>1
<1> HIDE DEF U, r
<1>4. ASSUME NEW i \in 0 .. n + 1
      PROVE  Placed(s, U[i])
  <2>1. CASE i \in 0 .. n
    BY <1>3, <2>1 DEF Pieces
  <2>2. CASE i = n + 1
    BY <1>3, <2>2
  <2>3. QED
    BY <1>1, <2>1, <2>2
<1>5. ASSUME NEW i \in 1 .. n + 1
      PROVE  Follows(s, U[i - 1], r[i], U[i])
  <2>1. i - 1 \in 0 .. n /\ U[i - 1] = T[i - 1]
    BY <1>1, <1>3
  <2>2. CASE i \in 1 .. n
    <3>1. U[i] = T[i] /\ r[i] = q[i]
      BY <1>1, <1>2, <1>3, <2>2
    <3>2. Follows(s, T[i - 1], q[i], T[i])
      BY <2>2 DEF Pieces
    <3>3. QED
      BY <2>1, <3>1, <3>2
  <2>3. CASE i = n + 1
    <3>1. i - 1 = n
      BY <1>1, <2>3
    <3>2. QED
      BY <1>2, <1>3, <2>1, <2>3, <3>1
  <2>4. QED
    BY <1>1, <2>2, <2>3
<1>6. Pieces(r, s, U)
  BY <1>2, <1>3, <1>4, <1>5 DEF Pieces
<1>7. QED
  BY <1>3, <1>6 DEF r

\* A byte is read.
LEMMA PiecesPop ==
  ASSUME NEW q \in Seq(Bytes), q # << >>, NEW s, NEW T, Pieces(q, s, T)
  PROVE  \E U : /\ Pieces(Tail(q), s, U)
                /\ \A i \in 0 .. Len(q) - 1 : U[i] = T[i + 1]
<1> DEFINE n == Len(q)
           r == Tail(q)
           U == [i \in 0 .. n - 1 |-> T[i + 1]]
<1>1. n \in Nat \ {0} /\ T \in [0 .. n -> Tag]
  BY DEF Pieces
<1>2. Len(r) = n - 1 /\ \A i \in 1 .. n - 1 : r[i] = q[i + 1]
  BY <1>1
<1>3. U \in [0 .. n - 1 -> Tag] /\ \A i \in 0 .. n - 1 : U[i] = T[i + 1]
  BY <1>1
<1> HIDE DEF U, r
<1>4. ASSUME NEW i \in 0 .. n - 1
      PROVE  Placed(s, U[i])
  <2>1. i + 1 \in 0 .. n
    BY <1>1
  <2>2. QED
    BY <1>3, <2>1 DEF Pieces
<1>5. ASSUME NEW i \in 1 .. n - 1
      PROVE  Follows(s, U[i - 1], r[i], U[i])
  <2>1. i + 1 \in 1 .. n /\ i \in 0 .. n - 1 /\ i - 1 \in 0 .. n - 1 /\ (i - 1) + 1 = i
        /\ (i + 1) - 1 = i
    BY <1>1
  <2>2. Follows(s, T[(i + 1) - 1], q[i + 1], T[i + 1])
    BY <2>1 DEF Pieces
  <2>3. QED
    BY <1>2, <1>3, <2>1, <2>2
<1>6. Pieces(r, s, U)
  BY <1>2, <1>3, <1>4, <1>5 DEF Pieces
<1>7. QED
  BY <1>3, <1>6 DEF r

\* Another frame starts.
LEMMA PlacedGrows ==
  ASSUME NEW s \in Seq(AirFrames), NEW f \in AirFrames, NEW t \in Tag, Placed(s, t)
  PROVE  Placed(Append(s, f), t) /\ (t.j # 0 => Append(s, f)[t.k] = s[t.k])
  BY DEF Placed, Tag

LEMMA PiecesGrow ==
  ASSUME NEW s \in Seq(AirFrames), NEW f \in AirFrames, NEW q \in Seq(Bytes), NEW T,
         Pieces(q, s, T)
  PROVE  Pieces(q, Append(s, f), T)
<1> DEFINE t == Append(s, f)
<1>1. ASSUME NEW i \in 0 .. Len(q)
      PROVE  T[i] \in Tag /\ Placed(s, T[i]) /\ Placed(t, T[i])
             /\ (T[i].j # 0 => t[T[i].k] = s[T[i].k])
  <2>1. T[i] \in Tag /\ Placed(s, T[i])
    BY DEF Pieces
  <2>2. QED
    BY <2>1, PlacedGrows, Zenon
<1> HIDE DEF t
<1>2. ASSUME NEW i \in 1 .. Len(q)
      PROVE  Follows(t, T[i - 1], q[i], T[i])
  <2>1. i - 1 \in 0 .. Len(q) /\ i \in 0 .. Len(q)
    OBVIOUS
  <2>2. Follows(s, T[i - 1], q[i], T[i])
    BY DEF Pieces
  <2>3. T[i].j # 0 => t[T[i].k] = s[T[i].k]
    BY <1>1, <2>1
  <2>4. T[i - 1].h = 1 => t[T[i - 1].k] = s[T[i - 1].k]
    BY <1>1, <2>1, SMTT(30) DEF Placed
  <2>5. QED
    BY <2>2, <2>3, <2>4, Zenon DEF Follows
<1>3. QED
  BY <1>1, <1>2 DEF Pieces, t

\* What can be told from a byte, and from whether the one before was an escape.
LEMMA TellsApart ==
  ASSUME NEW s, NEW a \in Tag, NEW b \in Tag, NEW x, Follows(s, a, x, b), Placed(s, a), Placed(s, b)
  PROVE  /\ b.k >= a.k
         /\ a.h = 1 => b.h = 0
         /\ a.h = 0 => /\ x = FLAG <=> b.j = 0
                       /\ x = ESC <=> b.h = 1
                       /\ x # RESET
  BY SpecialAssumption DEF Follows, Placed, Tag, Special

-----------------------------------------------------------------------------
(* What ax25_poll() has in its buffer, in terms of the place a it has read   *)
(* up to and of the places at in s of the frames it has delivered.           *)

\* The bytes of the frame read so far.
Count(a) == a.j - a.h

\* Frame k is behind all that were delivered.
Behind(at, k) == \A i \in DOMAIN at : at[i] < k

\* In sync the buffer ends with the bytes read of frame a.k.  Before them there is
\* nothing, or a frame cut at an escape and the flag taken for its byte.
InSync(s, v, a, at) ==
  \E o \in 0 .. Len(v) :
    /\ Len(v) - o = Count(a)
    /\ \A i \in 1 .. Count(a) : v[o + i] = s[a.k][i]
    /\ IF o = 0 THEN Behind(at, IF a.j = 0 THEN a.k + 1 ELSE a.k)
       ELSE v[o] = FLAG /\ \E k \in 1 .. a.k : \E j \in 1 .. o :
                             CutAt(j, v, s[k]) /\ Behind(at, k)

\* At the next flag the buffer is discarded, or it is a frame not delivered yet.
Ended(s, v, a, at) ==
  /\ Behind(at, a.k + 1)
  /\ v \in Valid /\ v # << >> => \E k \in 1 .. a.k : v = s[k] /\ Behind(at, k)

\* Behind a flag that was recognised nothing is missing from the buffer.
Exact(v, sy, a) == a.c = 1 /\ Count(a) <= BufLen => sy /\ Len(v) = Count(a)

Reader(s, v, sy, a, at) ==
  /\ IF sy THEN InSync(s, v, a, at) ELSE Ended(s, v, a, at)
  /\ Exact(v, sy, a)

LEMMA FrameAt ==
  ASSUME NEW s \in Seq(AirFrames), NEW k \in 1 .. Len(s)
  PROVE  s[k] \in AirFrames /\ s[k] \in Seq(Bytes) /\ Len(s[k]) \in Nat
  BY ValidAssumption

\* The CRC is right only for a frame that was sent.
LEMMA SyncEnds ==
  ASSUME NEW s \in Seq(AirFrames), NEW v \in Seq(Bytes), NEW a \in Tag, NEW at,
         \A i \in DOMAIN at : at[i] \in Nat, Placed(s, a), InSync(s, v, a, at)
  PROVE  /\ Ended(s, v, a, at)
         /\ v \in Valid /\ v # << >> /\ Len(v) = Count(a) => v = s[a.k] /\ Behind(at, a.k)
<1>1. PICK o \in 0 .. Len(v) :
        /\ Len(v) - o = Count(a)
        /\ \A i \in 1 .. Count(a) : v[o + i] = s[a.k][i]
        /\ IF o = 0 THEN Behind(at, IF a.j = 0 THEN a.k + 1 ELSE a.k)
           ELSE v[o] = FLAG /\ \E k \in 1 .. a.k : \E j \in 1 .. o :
                                 CutAt(j, v, s[k]) /\ Behind(at, k)
  BY DEF InSync
<1>2. a.k \in Nat /\ a.j \in Nat /\ a.h \in 0 .. 1 /\ Len(v) \in Nat /\ a.k <= Len(s)
  BY DEF Tag, Placed
<1>3. Behind(at, a.k + 1)
  <2>1. CASE o = 0
    BY <1>1, <1>2, <2>1 DEF Behind
  <2>2. CASE o # 0
    <3>1. PICK k \in 1 .. a.k : Behind(at, k)
      BY <1>1, <2>2
    <3>2. QED
      BY <1>2, <3>1 DEF Behind
  <2>3. QED
    BY <2>1, <2>2
<1>4. ASSUME Count(a) # 0
      PROVE  a.k \in 1 .. Len(s) /\ a.j > 0 /\ Count(a) <= Len(s[a.k])
             /\ s[a.k] \in AirFrames
  <2>1. a.j # 0
    BY <1>4 DEF Count, Placed
  <2>2. a.k \in 1 .. Len(s) /\ a.j <= Len(s[a.k])
    BY <2>1 DEF Placed
  <2>3. QED
    BY <1>2, <2>1, <2>2, FrameAt, SMTT(30) DEF Count
<1>5. CASE o = 0
  <2>1. ASSUME v \in Valid, v # << >>
        PROVE  v = s[a.k] /\ Behind(at, a.k) /\ a.k \in 1 .. a.k
    <3>1. Len(v) # 0 /\ Count(a) = Len(v)
      BY <1>1, <1>2, <1>5, <2>1
    <3>2. a.k \in 1 .. Len(s) /\ a.j > 0 /\ Count(a) <= Len(s[a.k]) /\ s[a.k] \in AirFrames
      BY <1>4, <3>1
    <3>3. BeginsAfter(0, v, s[a.k])
      BY <1>1, <1>2, <1>5, <3>1, <3>2 DEF BeginsAfter
    <3>4. v = s[a.k]
      BY <2>1, <3>2, <3>3, CrcAssumption
    <3>5. QED
      BY <1>1, <1>2, <1>5, <3>2, <3>4
  <2>2. QED
    BY <1>3, <2>1 DEF Ended
<1>6. CASE o # 0
  <2>1. PICK k \in 1 .. a.k, j \in 1 .. o : CutAt(j, v, s[k]) /\ Behind(at, k)
    BY <1>1, <1>6
  <2>2. s[k] \in AirFrames
    BY <1>2, <2>1, FrameAt
  <2>3. j \in DOMAIN v /\ o \in DOMAIN v /\ j <= o /\ v[o] = FLAG
    BY <1>1, <1>2, <1>6, <2>1, SMTT(30)
  <2>4. \E g \in AirFrames : BeginsAfter(o, v, g)
    <3>1. CASE Count(a) = 0
      <4>1. BeginsAfter(o, v, s[k])
        BY <1>1, <1>2, <2>1, <3>1, FrameAt, SMTT(30) DEF BeginsAfter
      <4>2. QED
        BY <2>2, <4>1
    <3>2. CASE Count(a) # 0
      <4>1. BeginsAfter(o, v, s[a.k])
        BY <1>1, <1>4, <3>2, Zenon DEF BeginsAfter
      <4>2. QED
        BY <1>4, <3>2, <4>1
    <3>3. QED
      BY <3>1, <3>2
  <2>5. v \in Valid => v = s[k]
    BY <2>1, <2>2, <2>3, <2>4, SpliceAssumption
  <2>6. Len(v) # Count(a)
    BY <1>1, <1>2, <1>6 DEF Count
  <2>7. QED
    BY <1>3, <2>1, <2>5, <2>6 DEF Ended
<1>7. QED
  BY <1>5, <1>6

LEMMA EndedLater ==
  ASSUME NEW s, NEW v, NEW a \in Tag, NEW b \in Tag, NEW at,
         \A i \in DOMAIN at : at[i] \in Nat, b.k >= a.k, Ended(s, v, a, at)
  PROVE  Ended(s, v, b, at)
<1>1. a.k \in Nat /\ b.k \in Nat
  BY DEF Tag
<1>2. Behind(at, b.k + 1)
  BY <1>1 DEF Ended, Behind
<1>3. \A k \in 1 .. a.k : k \in 1 .. b.k
  BY <1>1
<1>4. QED
  BY <1>2, <1>3 DEF Ended

\* A byte of a frame is read and goes to the buffer.
LEMMA DataInSync ==
  ASSUME NEW s \in Seq(AirFrames), NEW v \in Seq(Bytes), NEW a \in Tag, NEW b \in Tag,
         NEW x \in Bytes, NEW at, \A i \in DOMAIN at : at[i] \in Nat,
         Placed(s, a), Placed(s, b), Follows(s, a, x, b), b.j # 0, b.h = 0, InSync(s, v, a, at)
  PROVE  InSync(s, Append(v, x), b, at) /\ Count(b) = Count(a) + 1
<1>1. PICK o \in 0 .. Len(v) :
        /\ Len(v) - o = Count(a)
        /\ \A i \in 1 .. Count(a) : v[o + i] = s[a.k][i]
        /\ IF o = 0 THEN Behind(at, IF a.j = 0 THEN a.k + 1 ELSE a.k)
           ELSE v[o] = FLAG /\ \E k \in 1 .. a.k : \E j \in 1 .. o :
                                 CutAt(j, v, s[k]) /\ Behind(at, k)
  BY DEF InSync
<1>2. /\ a.k \in Nat /\ a.j \in Nat /\ a.h \in 0 .. 1 /\ b.k \in Nat /\ b.j \in Nat
      /\ Len(v) \in Nat
  BY DEF Tag
<1>3. /\ Count(b) = Count(a) + 1 /\ x = s[b.k][Count(b)] /\ b.k >= a.k
      /\ a.j # 0 => b.k = a.k
      /\ a.j = 0 => b.k > a.k /\ Count(a) = 0
  <2>1. CASE a.h = 1
    <3>1. b.k = a.k /\ b.j = a.j /\ x = s[a.k][a.j] /\ a.j # 0
      BY <2>1 DEF Follows, Placed
    <3>2. Count(a) = a.j - 1 /\ Count(b) = a.j
      BY <1>2, <2>1, <3>1 DEF Count
    <3>3. QED
      BY <1>2, <3>1, <3>2
  <2>2. CASE a.h = 0
    <3>1. b.j = a.j + 1 /\ x = s[b.k][b.j] /\ (IF a.j = 0 THEN b.k > a.k ELSE b.k = a.k)
      BY <2>2 DEF Follows
    <3>2. Count(a) = a.j /\ Count(b) = a.j + 1
      BY <1>2, <2>2, <3>1 DEF Count
    <3>3. QED
      BY <1>2, <3>1, <3>2
  <2>3. QED
    BY <1>2, <2>1, <2>2
<1> DEFINE w == Append(v, x)
<1>4. w \in Seq(Bytes) /\ Len(w) = Len(v) + 1 /\ w[Len(v) + 1] = x
      /\ \A i \in 1 .. Len(v) : w[i] = v[i]
  OBVIOUS
<1> HIDE DEF w
<1>5. Count(a) \in Nat /\ o \in 0 .. Len(w) /\ Len(w) - o = Count(b)
  BY <1>1, <1>2, <1>3, <1>4, SMTT(30) DEF Count
<1>6. ASSUME NEW i \in 1 .. Count(b)
      PROVE  w[o + i] = s[b.k][i]
  <2>1. CASE i = Count(b)
    <3>1. o + i = Len(v) + 1
      BY <1>1, <1>2, <1>3, <1>5, <2>1
    <3>2. QED
      BY <1>3, <1>4, <2>1, <3>1
  <2>2. CASE i # Count(b)
    <3>1. i \in 1 .. Count(a) /\ o + i \in 1 .. Len(v) /\ Count(a) # 0
      <4>1. Len(v) - o = Count(a) /\ Count(b) = Count(a) + 1 /\ Count(a) \in Nat
        BY <1>1, <1>3, <1>5
      <4>2. QED
        BY <1>2, <2>2, <4>1, SMTT(30)
    <3>2. b.k = a.k
      BY <1>3, <3>1
    <3>3. QED
      BY <1>1, <1>4, <3>1, <3>2
  <2>3. QED
    BY <2>1, <2>2
<1>7. CASE o = 0
  <2>1. Behind(at, b.k)
    BY <1>1, <1>2, <1>3, <1>7, SMTT(30) DEF Behind
  <2>2. QED
    BY <1>3, <1>5, <1>6, <1>7, <2>1, Zenon DEF InSync, w
<1>8. CASE o # 0
  <2>1. PICK k \in 1 .. a.k, j \in 1 .. o : CutAt(j, v, s[k]) /\ Behind(at, k)
    BY <1>1, <1>8
  <2>2. k \in 1 .. b.k /\ o \in 1 .. Len(v) /\ w[o] = FLAG
    BY <1>1, <1>2, <1>3, <1>4, <1>8, SMTT(30)
  <2>3. CutAt(j, w, s[k])
    BY <1>2, <1>4, <2>1, SMTT(30) DEF CutAt
  <2>4. QED
    BY <1>3, <1>5, <1>6, <1>8, <2>1, <2>2, <2>3, Zenon DEF InSync, w
<1>9. QED
  BY <1>7, <1>8

\* An escape is read.
LEMMA EscapeInSync ==
  ASSUME NEW s, NEW v, NEW a \in Tag, NEW b \in Tag, NEW x, NEW at,
         \A i \in DOMAIN at : at[i] \in Nat, Follows(s, a, x, b), Placed(s, b),
         b.h = 1, InSync(s, v, a, at)
  PROVE  InSync(s, v, b, at) /\ Count(b) = Count(a)
<1>1. PICK o \in 0 .. Len(v) :
        /\ Len(v) - o = Count(a)
        /\ \A i \in 1 .. Count(a) : v[o + i] = s[a.k][i]
        /\ IF o = 0 THEN Behind(at, IF a.j = 0 THEN a.k + 1 ELSE a.k)
           ELSE v[o] = FLAG /\ \E k \in 1 .. a.k : \E j \in 1 .. o :
                                 CutAt(j, v, s[k]) /\ Behind(at, k)
  BY Zenon DEF InSync
<1>2. a.k \in Nat /\ a.j \in Nat /\ a.h \in 0 .. 1 /\ b.k \in Nat /\ b.j \in Nat
  BY DEF Tag
<1>3. /\ b.j # 0 /\ Count(b) = Count(a) /\ b.k >= a.k
      /\ a.j # 0 => b.k = a.k
      /\ a.j = 0 => b.k > a.k /\ Count(a) = 0
  <2>1. b.j # 0 /\ a.h = 0
    BY <1>2 DEF Follows, Placed
  <2>2. b.j = a.j + 1 /\ b.k >= a.k /\ (IF a.j = 0 THEN b.k > a.k ELSE b.k = a.k)
    BY <2>1, SMTT(30) DEF Follows
  <2>3. QED
    BY <1>2, <2>1, <2>2 DEF Count
<1>4. \A i \in 1 .. Count(b) : v[o + i] = s[b.k][i]
  BY <1>1, <1>3, SMTT(30)
<1>5. o = 0 => Behind(at, b.k)
  BY <1>1, <1>2, <1>3 DEF Behind
<1>6. \A k \in 1 .. a.k : k \in 1 .. b.k
  BY <1>2, <1>3
<1>7. QED
  BY <1>1, <1>3, <1>4, <1>5, <1>6, Zenon DEF InSync

\* A flag is read with ctx->escape set: it goes to the buffer.
LEMMA FlagSwallowed ==
  ASSUME NEW s, NEW v \in Seq(Bytes), NEW a \in Tag, NEW b \in Tag, NEW at,
         Placed(s, a), b.j = 0, b.h = 0, b.k >= a.k, a.h = 1, InSync(s, v, a, at)
  PROVE  InSync(s, Append(v, FLAG), b, at)
<1>1. PICK o \in 0 .. Len(v) :
        /\ Len(v) - o = Count(a)
        /\ \A i \in 1 .. Count(a) : v[o + i] = s[a.k][i]
        /\ IF o = 0 THEN Behind(at, IF a.j = 0 THEN a.k + 1 ELSE a.k)
           ELSE v[o] = FLAG /\ \E k \in 1 .. a.k : \E j \in 1 .. o :
                                 CutAt(j, v, s[k]) /\ Behind(at, k)
  BY DEF InSync
<1>2. a.k \in Nat /\ a.j \in Nat /\ b.k \in Nat /\ Len(v) \in Nat
  BY DEF Tag
<1> DEFINE w == Append(v, FLAG)
<1>3. Len(w) = Len(v) + 1 /\ w[Len(v) + 1] = FLAG /\ \A i \in 1 .. Len(v) : w[i] = v[i]
  BY SpecialAssumption
<1>4. a.j # 0 /\ a.k \in 1 .. b.k /\ Count(a) = a.j - 1 /\ a.j <= Len(s[a.k])
      /\ s[a.k][a.j] \in {FLAG, RESET, ESC}
  BY <1>2 DEF Placed, Count, Special
<1> HIDE DEF w
<1>5. \E k \in 1 .. b.k : \E j \in 1 .. Len(w) : CutAt(j, w, s[k]) /\ Behind(at, k)
  <2>1. CASE o = 0
    <3>1. a.j = Len(v) + 1 /\ \A i \in 1 .. a.j - 1 : w[i] = s[a.k][i]
      BY <1>1, <1>2, <1>3, <1>4, <2>1, SMTT(30)
    <3>2. CutAt(a.j, w, s[a.k])
      BY <1>3, <1>4, <3>1 DEF CutAt
    <3>3. Behind(at, a.k)
      BY <1>1, <1>4, <2>1
    <3>4. a.j \in 1 .. Len(w)
      BY <1>2, <1>3, <3>1
    <3>5. QED
      BY <1>4, <3>2, <3>3, <3>4, Zenon
  <2>2. CASE o # 0
    <3>1. PICK k \in 1 .. a.k, j \in 1 .. o : CutAt(j, v, s[k]) /\ Behind(at, k)
      BY <1>1, <2>2
    <3>2. k \in 1 .. b.k /\ j \in 1 .. Len(w)
      BY <1>1, <1>2, <1>3, <3>1, SMTT(30)
    <3>3. CutAt(j, w, s[k])
      BY <1>2, <1>3, <3>1, SMTT(30) DEF CutAt
    <3>4. QED
      BY <3>1, <3>2, <3>3
  <2>3. QED
    BY <2>1, <2>2
<1>6. Len(w) \in 0 .. Len(w) /\ Len(w) # 0 /\ Len(w) - Len(w) = Count(b)
  BY <1>2, <1>3 DEF Count
<1>7. \A i \in 1 .. Count(b) : w[Len(w) + i] = s[b.k][i]
  BY DEF Count
<1>8. w[Len(w)] = FLAG
  BY <1>3
<1>9. InSync(s, w, b, at)
  BY <1>5, <1>6, <1>7, <1>8, Zenon DEF InSync
<1>10. QED
  BY <1>9 DEF w

\* A flag is read without it: the buffer is emptied.
LEMMA FlagInSync ==
  ASSUME NEW s, NEW b \in Tag, NEW at, b.j = 0, b.h = 0, Behind(at, b.k + 1)
  PROVE  InSync(s, << >>, b, at) /\ Count(b) = 0
<1>1. Count(b) = 0 /\ 0 \in 0 .. Len(<< >>) /\ Len(<< >>) - 0 = 0
  BY DEF Count
<1>2. QED
  BY <1>1 DEF InSync

\* The frames in dl are those at the places at of s, in their order.
TakenFrom(dl, s, at) ==
  /\ at \in [1 .. Len(dl) -> 1 .. Len(s)]
  /\ \A i, j \in 1 .. Len(dl) : i < j => at[i] < at[j]
  /\ \A i \in 1 .. Len(dl) : dl[i] = s[at[i]]

LEMMA TakenMore ==
  ASSUME NEW dl \in Seq(Valid), NEW s \in Seq(AirFrames), NEW at, TakenFrom(dl, s, at),
         NEW v \in Valid, NEW k \in 1 .. Len(s), v = s[k], Behind(at, k)
  PROVE  \E nt : /\ TakenFrom(Append(dl, v), s, nt)
                 /\ Behind(nt, k + 1)
                 /\ nt[Len(dl) + 1] = k
                 /\ \A i \in 1 .. Len(dl) : nt[i] = at[i]
<1> DEFINE n == Len(dl)
           e == Append(dl, v)
           nt == [i \in 1 .. n + 1 |-> IF i <= n THEN at[i] ELSE k]
<1>1. n \in Nat /\ at \in [1 .. n -> 1 .. Len(s)] /\ Len(s) \in Nat
  BY DEF TakenFrom
<1>2. Len(e) = n + 1 /\ e[n + 1] = v /\ \A i \in 1 .. n : e[i] = dl[i]
  OBVIOUS
<1>3. nt \in [1 .. n + 1 -> 1 .. Len(s)] /\ nt[n + 1] = k /\ \A i \in 1 .. n : nt[i] = at[i]
  BY <1>1
<1> HIDE DEF nt, e
<1>4. \A i \in 1 .. n : nt[i] < k
  BY <1>1, <1>3 DEF Behind
<1>5. ASSUME NEW i \in 1 .. n + 1, NEW j \in 1 .. n + 1, i < j
      PROVE  nt[i] < nt[j]
  <2>1. i \in 1 .. n
    BY <1>1, <1>5
  <2>2. CASE j = n + 1
    BY <1>3, <1>4, <2>1, <2>2
  <2>3. CASE j \in 1 .. n
    BY <1>3, <1>5, <2>1, <2>3 DEF TakenFrom
  <2>4. QED
    BY <1>1, <2>2, <2>3
<1>6. ASSUME NEW i \in 1 .. n + 1
      PROVE  e[i] = s[nt[i]]
  <2>1. CASE i = n + 1
    BY <1>2, <1>3, <2>1
  <2>2. CASE i \in 1 .. n
    BY <1>2, <1>3, <2>2 DEF TakenFrom
  <2>3. QED
    BY <1>1, <2>1, <2>2
<1>7. TakenFrom(e, s, nt)
  BY <1>2, <1>3, <1>5, <1>6 DEF TakenFrom
<1>8. DOMAIN nt = 1 .. n + 1
  BY <1>3
<1>9. Behind(nt, k + 1)
  <2>1. ASSUME NEW i \in 1 .. n + 1
        PROVE  nt[i] < k + 1
    <3>1. nt[i] \in Nat /\ (i \in 1 .. n \/ i = n + 1)
      BY <1>1, <1>3, SMTT(30)
    <3>2. QED
      BY <1>3, <1>4, <3>1
  <2>2. QED
    BY <1>8, <2>1 DEF Behind
<1>10. QED
  BY <1>3, <1>7, <1>9 DEF e

\* ax25_poll() finds a flag: what it does with the buffer.
\* What an unescaped flag does to the history of the frames given to the hook ...
Handed(dl, v) == IF Len(v) >= MinLen /\ v \in Valid THEN Append(dl, v) ELSE dl

\* ... and to the places they were taken from.
Extends(dl, s, at, v, sy, a, nt) ==
  /\ TakenFrom(Handed(dl, v), s, nt) /\ Behind(nt, a.k + 1)
  /\ \A i \in 1 .. Len(dl) : nt[i] = at[i]
  /\ Len(v) >= MinLen /\ v \in Valid /\ sy /\ Len(v) = Count(a)
       => v = s[a.k] /\ nt[Len(dl) + 1] = a.k /\ Len(Handed(dl, v)) = Len(dl) + 1

LEMMA FlagDelivers ==
  ASSUME NEW dl \in Seq(Valid), NEW s \in Seq(AirFrames), NEW at, TakenFrom(dl, s, at),
         NEW v \in Seq(Bytes), NEW sy \in BOOLEAN, NEW a \in Tag, Placed(s, a),
         Reader(s, v, sy, a, at)
  PROVE  \E nt : Extends(dl, s, at, v, sy, a, nt)
<1> DEFINE e == Handed(dl, v)
<1>1. /\ \A i \in DOMAIN at : at[i] \in Nat
      /\ a.k \in Nat /\ a.k <= Len(s) /\ Len(dl) \in Nat /\ Len(s) \in Nat
  BY DEF TakenFrom, Tag, Placed
<1>2. Ended(s, v, a, at)
  BY <1>1, SyncEnds, Zenon DEF Reader
<1>3. CASE Len(v) >= MinLen /\ v \in Valid
  <2>1. v # << >>
    BY <1>3, LenAssumption
  <2>2. PICK k \in 1 .. a.k :
          /\ v = s[k] /\ Behind(at, k)
          /\ sy /\ Len(v) = Count(a) => k = a.k
    <3>1. CASE sy /\ Len(v) = Count(a)
      <4>1. v = s[a.k] /\ Behind(at, a.k)
        BY <1>1, <1>3, <2>1, <3>1, SyncEnds, Zenon DEF Reader
      <4>2. a.k # 0
        <5>1. Count(a) # 0
          BY <1>3, <3>1, LenAssumption
        <5>2. a.j # 0
          BY <5>1 DEF Count, Placed
        <5>3. QED
          BY <5>2 DEF Placed
      <4>3. QED
        BY <1>1, <4>1, <4>2
    <3>2. CASE ~(sy /\ Len(v) = Count(a))
      BY <1>2, <1>3, <2>1, <3>2 DEF Ended
    <3>3. QED
      BY <3>1, <3>2
  <2>3. k \in 1 .. Len(s)
    BY <1>1
  <2>4. PICK nt : /\ TakenFrom(Append(dl, v), s, nt) /\ Behind(nt, k + 1)
                  /\ nt[Len(dl) + 1] = k /\ \A i \in 1 .. Len(dl) : nt[i] = at[i]
    BY <1>3, <2>2, <2>3, TakenMore
  <2>5. e = Append(dl, v) /\ Len(e) = Len(dl) + 1
    BY <1>3 DEF Handed
  <2>6. Behind(nt, a.k + 1)
    <3>1. \A i \in DOMAIN nt : nt[i] \in Nat
      BY <1>1, <2>4 DEF TakenFrom
    <3>2. QED
      BY <1>1, <2>4, <3>1 DEF Behind
  <2>7. QED
    BY <2>2, <2>4, <2>5, <2>6, Zenon DEF Extends
<1>4. CASE ~(Len(v) >= MinLen /\ v \in Valid)
  BY <1>2, <1>4 DEF Ended, Handed, Extends
<1>5. QED
  BY <1>3, <1>4

-----------------------------------------------------------------------------
(* The two ends of the FIFO.                                               *)

\* hdlc_parse() is in frame se, of which re is still to come, and has stored the
\* bytes up to place b.
Writer(s, b, se, re, collecting, cl, whole) ==
  /\ re # << >> => se # << >>
  /\ se # << >> => /\ Len(s) > 0 /\ se = s[Len(s)] /\ Len(re) <= Len(se)
                   /\ \A i \in 1 .. Len(re) : re[i] = se[Len(se) - Len(re) + i]
  /\ collecting => /\ b.h = 0
                   /\ IF se = << >> THEN b.j = 0
                      ELSE IF b.j = 0 THEN b.k < Len(s) /\ Len(re) = Len(se)
                      ELSE b.k = Len(s) /\ b.j = Len(se) - Len(re)
  /\ b.h = 1 => cl = 0
  /\ cl = 2 => b.c = 1
  /\ whole => cl = 2 /\ collecting

\* Place x of the FIFO is the flag that ends frame k, and all of the frame is there.
Closing(s, T, x, k) ==
  /\ T[x].j = 0
  /\ T[x - 1].h = 0 /\ T[x - 1].c = 1 /\ T[x - 1].k = k /\ T[x - 1].j = Len(s[k])

\* The frames of du, at the places d of s, are delivered or complete in the FIFO.
Owed(s, T, n, at, du, d, se) ==
  /\ TakenFrom(du, s, d)
  /\ \A i \in 1 .. Len(du) :
       /\ du[i] \in Valid /\ GoodLength(du[i])
       /\ se # << >> => d[i] < Len(s)
       /\ \/ \E m \in DOMAIN at : at[m] = d[i]
          \/ \E x \in 1 .. n : Closing(s, T, x, d[i])

Linked(T, at, d) ==
  /\ Pieces(rx_fifo, started, T)
  /\ Writer(started, T[Len(rx_fifo)], sending, rest, rxstart, clean, intact)
  /\ TakenFrom(delivered, started, at)
  /\ Reader(started, buf, sync, T[0], at)
  /\ escape <=> T[0].h = 1
  /\ Owed(started, T, Len(rx_fifo), at, due, d, sending)

StreamInv == \E T, at, d : Linked(T, at, d)

\* Nothing is being received any more.
LEMMA OwedIdle ==
  ASSUME NEW s, NEW T, NEW n, NEW at, NEW du, NEW d, NEW se, Owed(s, T, n, at, du, d, se)
  PROVE  Owed(s, T, n, at, du, d, << >>)
  BY Zenon DEF Owed

\* What a step of the writer leaves to show.
LEMMA OwedPushed ==
  ASSUME NEW s, NEW T, NEW U, NEW n \in Nat, NEW m \in Nat, n <= m, NEW at, NEW du, NEW d,
         NEW se, NEW so, Owed(s, T, n, at, du, d, se), so # << >> => se # << >>,
         \A i \in 0 .. n : U[i] = T[i]
  PROVE  Owed(s, U, m, at, du, d, so)
<1>1. ASSUME NEW k, NEW x \in 1 .. n, Closing(s, T, x, k)
      PROVE  x \in 1 .. m /\ Closing(s, U, x, k)
  <2>1. U[x] = T[x] /\ U[x - 1] = T[x - 1] /\ x \in 1 .. m
    OBVIOUS
  <2>2. QED
    BY <1>1, <2>1 DEF Closing
<1>2. QED
  BY <1>1 DEF Owed

\* A frame is complete.
LEMMA OwedMore ==
  ASSUME NEW s \in Seq(AirFrames), NEW T, NEW n \in Nat, NEW at, NEW du \in Seq(Valid), NEW d,
         NEW se \in Valid, se # << >>, GoodLength(se), Len(s) > 0, se = s[Len(s)],
         Owed(s, T, n, at, du, d, se), NEW x \in 1 .. n, Closing(s, T, x, Len(s))
  PROVE  \E e : Owed(s, T, n, at, Append(du, se), e, << >>)
<1>1. Len(s) \in 1 .. Len(s) /\ Len(du) \in Nat
  OBVIOUS
<1>2. Behind(d, Len(s))
  BY DEF Behind, Owed, TakenFrom
<1>3. PICK e : /\ TakenFrom(Append(du, se), s, e) /\ e[Len(du) + 1] = Len(s)
               /\ \A i \in 1 .. Len(du) : e[i] = d[i]
  BY <1>1, <1>2, TakenMore, SMTT(30) DEF Owed
<1> DEFINE w == Append(du, se)
<1>4. Len(w) = Len(du) + 1 /\ w[Len(du) + 1] = se /\ \A i \in 1 .. Len(du) : w[i] = du[i]
  BY SMTT(30)
<1> HIDE DEF w
<1>5. ASSUME NEW i \in 1 .. Len(w)
      PROVE  /\ w[i] \in Valid /\ GoodLength(w[i])
             /\ \/ \E m \in DOMAIN at : at[m] = e[i]
                \/ \E y \in 1 .. n : Closing(s, T, y, e[i])
  <2>1. CASE i \in 1 .. Len(du)
    BY <1>3, <1>4, <2>1, Zenon DEF Owed
  <2>2. CASE i = Len(du) + 1
    BY <1>3, <1>4, <2>2, Zenon
  <2>3. QED
    BY <1>1, <1>4, <2>1, <2>2, SMTT(30)
<1>6. QED
  BY <1>3, <1>5, Zenon DEF Owed, w

\* Another frame starts.
LEMMA ReaderGrows ==
  ASSUME NEW s \in Seq(AirFrames), NEW f \in AirFrames, NEW v, NEW sy, NEW a \in Tag, NEW at,
         Placed(s, a), Reader(s, v, sy, a, at)
  PROVE  Reader(Append(s, f), v, sy, a, at)
<1> DEFINE t == Append(s, f)
<1>1. a.k \in Nat /\ a.k <= Len(s) /\ Len(s) \in Nat
  BY DEF Tag, Placed
<1>2. \A k \in 1 .. a.k : t[k] = s[k]
  BY <1>1
<1> HIDE DEF t
<1>3. ASSUME NEW i \in 1 .. Count(a)
      PROVE  t[a.k][i] = s[a.k][i]
  <2>1. a.j # 0
    BY DEF Count, Placed
  <2>2. a.k \in 1 .. a.k
    BY <1>1, <2>1 DEF Placed
  <2>3. QED
    BY <1>2, <2>2
<1>4. InSync(s, v, a, at) => InSync(t, v, a, at)
  BY <1>2, <1>3, Zenon DEF InSync
<1>5. Ended(s, v, a, at) => Ended(t, v, a, at)
  BY <1>2, Zenon DEF Ended
<1>6. QED
  BY <1>4, <1>5 DEF Reader, t

LEMMA TakenGrows ==
  ASSUME NEW s \in Seq(AirFrames), NEW f \in AirFrames, NEW dl, NEW at, TakenFrom(dl, s, at)
  PROVE  TakenFrom(dl, Append(s, f), at)
         /\ \A i \in 1 .. Len(dl) : at[i] \in 1 .. Len(s) /\ Append(s, f)[at[i]] = s[at[i]]
<1> DEFINE t == Append(s, f)
<1>1. Len(t) = Len(s) + 1 /\ Len(s) \in Nat /\ \A i \in 1 .. Len(s) : t[i] = s[i]
  OBVIOUS
<1>2. at \in [1 .. Len(dl) -> 1 .. Len(s)]
  BY DEF TakenFrom
<1> HIDE DEF t
<1>3. \A i \in 1 .. Len(dl) : at[i] \in 1 .. Len(s) /\ t[at[i]] = s[at[i]]
  BY <1>1, <1>2
<1>4. at \in [1 .. Len(dl) -> 1 .. Len(t)]
  BY <1>1, <1>2
<1>5. QED
  BY <1>3, <1>4 DEF TakenFrom, t

LEMMA OwedGrows ==
  ASSUME NEW s \in Seq(AirFrames), NEW f \in AirFrames, NEW T, NEW n, NEW at, NEW du, NEW d,
         NEW se, Owed(s, T, n, at, du, d, << >>)
  PROVE  Owed(Append(s, f), T, n, at, du, d, se)
<1> DEFINE t == Append(s, f)
<1>1. /\ TakenFrom(du, t, d)
      /\ \A i \in 1 .. Len(du) : d[i] \in 1 .. Len(s) /\ t[d[i]] = s[d[i]]
  BY TakenGrows DEF Owed
<1>2. Len(t) = Len(s) + 1 /\ Len(s) \in Nat
  OBVIOUS
<1> HIDE DEF t
<1>3. \A i \in 1 .. Len(du) : d[i] < Len(t)
  BY <1>1, <1>2
<1>4. QED
  BY <1>1, <1>3 DEF Owed, Closing, t

-----------------------------------------------------------------------------
(* The steps of the parser.                                                *)

\* What the steps share: the last place stored, as a value.
LEMMA LastPlace ==
  ASSUME TypeOK, NEW T, Pieces(rx_fifo, started, T)
  PROVE  /\ Len(rx_fifo) \in Nat
         /\ T[0] \in Tag /\ Placed(started, T[0])
         /\ T[Len(rx_fifo)] \in Tag /\ Placed(started, T[Len(rx_fifo)])
         /\ T[Len(rx_fifo)].k \in Nat /\ T[Len(rx_fifo)].k <= Len(started)
<1>1. Len(rx_fifo) \in Nat /\ 0 \in 0 .. Len(rx_fifo) /\ Len(rx_fifo) \in 0 .. Len(rx_fifo)
  BY DEF TypeOK
<1>2. /\ T[0] \in Tag /\ Placed(started, T[0])
      /\ T[Len(rx_fifo)] \in Tag /\ Placed(started, T[Len(rx_fifo)])
  BY <1>1 DEF Pieces
<1>3. \A t \in Tag : Placed(started, t) => t.k \in Nat /\ t.k <= Len(started)
  BY DEF Tag, Placed, TypeOK
<1>4. QED
  BY <1>1, <1>2, <1>3

LEMMA FlagLinks ==
  ASSUME TypeOK, StreamInv, AirFlag
  PROVE  StreamInv'
<1>1. PICK T, at, d : Linked(T, at, d)
  BY DEF StreamInv
<1>2. PICK n \in Nat : n = Len(rx_fifo)
  BY SMTT(30) DEF TypeOK
<1>3. PICK b \in Tag : b = T[n] /\ Placed(started, b) /\ b.k <= Len(started)
  BY <1>1, <1>2, LastPlace, Zenon DEF Linked
<1>4. /\ UNCHANGED <<buf, sync, escape, pc, delivered, rest, started>>
      /\ rest = << >> /\ sending' = << >> /\ intact' = FALSE
      /\ HdlcFlag
  BY Zenon DEF AirFlag, ctxVars
<1>5. /\ Pieces(rx_fifo, started, T) /\ TakenFrom(delivered, started, at)
      /\ Reader(started, buf, sync, T[0], at) /\ (escape <=> T[0].h = 1)
      /\ Owed(started, T, n, at, due, d, sending)
      /\ Writer(started, b, sending, rest, rxstart, clean, intact)
  BY <1>1, <1>2, <1>3, Zenon DEF Linked
<1>6. CASE ~HasRoom(1)
  <2>1. rx_fifo' = rx_fifo /\ rxstart' = FALSE
    BY <1>4, <1>6 DEF HdlcFlag
  <2>2. clean' = 0 /\ due' = due
    BY <1>6 DEF AirFlag
  <2>3. Writer(started, b, << >>, << >>, FALSE, 0, FALSE)
    BY SMTT(30) DEF Writer
  <2>4. Owed(started, T, n, at, due, d, << >>)
    BY <1>5, OwedIdle, Zenon
  <2>5. Linked(T, at, d)'
    BY <1>2, <1>3, <1>4, <1>5, <2>1, <2>2, <2>3, <2>4, Zenon DEF Linked
  <2>6. QED
    BY <2>5 DEF StreamInv
<1>7. CASE HasRoom(1)
  <2>1. rx_fifo' = Append(rx_fifo, FLAG) /\ rxstart' = TRUE /\ rx_fifo \in Seq(Bytes)
    BY <1>4, <1>7 DEF HdlcFlag, TypeOK
  <2>2. Len(rx_fifo') = n + 1
    BY <1>2, <2>1
  <2>3. PICK e : e = [k |-> Len(started), j |-> 0, h |-> 0, c |-> 1 - b.h]
    BY Zenon
  <2>4. e \in Tag /\ e.k = Len(started) /\ e.j = 0 /\ e.h = 0 /\ e.c = 1 - b.h
    BY <1>3, <2>3, SMTT(30) DEF TypeOK, Tag
  <2>5. Placed(started, e) /\ Follows(started, b, FLAG, e)
    BY <1>3, <2>4 DEF Placed, Follows, TypeOK
  <2>6. PICK U : /\ Pieces(Append(rx_fifo, FLAG), started, U)
                 /\ U[n + 1] = e
                 /\ \A i \in 0 .. n : U[i] = T[i]
    <3>1. /\ rx_fifo \in Seq(Bytes) /\ FLAG \in Bytes /\ Pieces(rx_fifo, started, T)
          /\ e \in Tag /\ Placed(started, e) /\ Follows(started, T[Len(rx_fifo)], FLAG, e)
      BY <1>2, <1>3, <1>5, <2>4, <2>5, SpecialAssumption, Zenon DEF TypeOK
    <3>2. PICK U : /\ Pieces(Append(rx_fifo, FLAG), started, U) /\ U[Len(rx_fifo) + 1] = e
                   /\ \A i \in 0 .. Len(rx_fifo) : U[i] = T[i]
      BY <3>1, PiecesPush, SMTT(30)
    <3>3. QED
      BY <1>2, <3>2, Zenon
  <2>7. U[0] = T[0] /\ U[n] = b
    BY <1>3, <2>6
  <2>8. clean' = IF clean = 2 THEN 2 ELSE clean + 1
    BY <1>7 DEF AirFlag
  <2>9. clean' = 2 => e.c = 1
    <3>1. clean \in 0 .. 2 /\ (b.h = 1 => clean = 0) /\ b.h \in 0 .. 1
      BY <1>3, <1>5, Zenon DEF TypeOK, Writer, Tag
    <3>2. QED
      BY <2>4, <2>8, <3>1, SMTT(30)
  <2>10. Writer(started, e, << >>, << >>, TRUE, clean', FALSE)
    BY <2>4, <2>9 DEF Writer
  <2>11. \E dn : Owed(started, U, n + 1, at, due', dn, << >>)
    <3>1. Owed(started, U, n + 1, at, due, d, sending)
      <4>1. n + 1 \in Nat /\ n <= n + 1
        OBVIOUS
      <4>2. /\ n \in Nat /\ n + 1 \in Nat /\ n <= n + 1 /\ Owed(started, T, n, at, due, d, sending)
            /\ \A i \in 0 .. n : U[i] = T[i]
        BY <1>5, <2>6, <4>1, Zenon
      <4>3. QED
        BY <4>2, OwedPushed, SMTT(30)
    <3>2. CASE intact /\ sending \in Valid /\ GoodLength(sending)
      <4>1. due' = Append(due, sending) /\ due \in Seq(Valid)
        BY <1>7, <3>2 DEF AirFlag, TypeOK
      <4>2. sending # << >>
        BY <3>2, LenAssumption, SMTT(30) DEF GoodLength
      <4>3. /\ Len(started) > 0 /\ sending = started[Len(started)] /\ clean = 2
            /\ b.h = 0 /\ b.c = 1 /\ b.k = Len(started) /\ b.j = Len(sending)
        <5>1. intact => clean = 2 /\ rxstart
          BY <1>5, Zenon DEF Writer
        <5>2. Len(sending) \in Nat /\ Len(sending) # 0 /\ Len(rest) = 0
          BY <1>4, <3>2, <4>2, ValidAssumption
        <5>3. QED
          BY <1>5, <3>2, <4>2, <5>1, <5>2, SMTT(30) DEF Writer
      <4>4. Closing(started, U, n + 1, Len(started))
        BY <2>4, <2>6, <2>7, <4>3 DEF Closing
      <4>5. started \in Seq(AirFrames)
        BY DEF TypeOK
      <4>6. QED
        <5>1. n + 1 \in Nat /\ n + 1 \in 1 .. n + 1
          BY SMTT(30)
        <5>2. \E dn : Owed(started, U, n + 1, at, Append(due, sending), dn, << >>)
          BY <3>1, <3>2, <4>1, <4>2, <4>3, <4>4, <4>5, <5>1, OwedMore, Zenon
        <5>3. QED
          BY <4>1, <5>2
    <3>3. CASE ~(intact /\ sending \in Valid /\ GoodLength(sending))
      <4>1. due' = due
        BY <1>7, <3>3 DEF AirFlag
      <4>2. QED
        BY <3>1, <4>1, OwedIdle, Zenon
    <3>4. QED
      BY <3>2, <3>3, Zenon
  <2>12. PICK dn : Owed(started, U, n + 1, at, due', dn, << >>)
    BY <2>11
  <2>13. Linked(U, at, dn)'
    BY <1>4, <1>5, <2>1, <2>2, <2>6, <2>7, <2>10, <2>12, Zenon DEF Linked
  <2>14. QED
    BY <2>13 DEF StreamInv
<1>8. QED
  BY <1>6, <1>7

LEMMA StartLinks ==
  ASSUME TypeOK, StreamInv, NEW f \in AirFrames, AirStart(f)
  PROVE  StreamInv'
<1>1. PICK T, at, d : Linked(T, at, d)
  BY DEF StreamInv
<1>2. PICK n \in Nat : n = Len(rx_fifo)
  BY SMTT(30) DEF TypeOK
<1>3. PICK b \in Tag : b = T[n] /\ Placed(started, b) /\ b.k <= Len(started)
  BY <1>1, <1>2, LastPlace, Zenon DEF Linked
<1>4. /\ UNCHANGED <<rx_fifo, rxstart, buf, sync, escape, delivered, clean, due>>
      /\ sending = << >> /\ sending' = f /\ rest' = f /\ started' = Append(started, f)
      /\ intact' = (clean = 2 /\ rxstart)
  BY DEF AirStart, ctxVars, hdlcVars
<1>5. started \in Seq(AirFrames) /\ rx_fifo \in Seq(Bytes)
  BY Zenon DEF TypeOK
<1>6. Pieces(rx_fifo, started', T)
  BY <1>1, <1>4, <1>5, PiecesGrow, Zenon DEF Linked
<1>7. TakenFrom(delivered, started', at) /\ Reader(started', buf, sync, T[0], at)
  BY <1>1, <1>4, <1>5, TakenGrows, ReaderGrows, LastPlace, Zenon DEF Linked
<1>8. Owed(started', T, n, at, due, d, f)
  <2>1. Owed(started, T, n, at, due, d, << >>)
    BY <1>1, <1>2, <1>4, Zenon DEF Linked
  <2>2. QED
    BY <1>4, <1>5, <2>1, OwedGrows, Zenon
<1>9. Writer(started', b, f, f, rxstart, clean, clean = 2 /\ rxstart)
  <2>1. Len(started') = Len(started) + 1 /\ started'[Len(started')] = f /\ Len(started) \in Nat
    BY <1>4, <1>5
  <2>2. Len(f) \in Nat /\ \A i \in 1 .. Len(f) : f[i] = f[Len(f) - Len(f) + i]
    BY ValidAssumption
  <2>3. Writer(started, b, << >>, rest, rxstart, clean, intact)
    BY <1>1, <1>2, <1>3, <1>4, Zenon DEF Linked
  <2>4. b.k < Len(started')
    BY <1>3, <2>1 DEF Tag
  <2>5. rxstart => b.h = 0 /\ b.j = 0
    BY <2>3 DEF Writer
  <2>6. QED
    BY <2>1, <2>2, <2>3, <2>4, <2>5 DEF Writer
<1>10. Linked(T, at, d)'
  BY <1>1, <1>2, <1>3, <1>4, <1>6, <1>7, <1>8, <1>9, Zenon DEF Linked
<1>11. QED
  BY <1>10 DEF StreamInv

LEMMA AbortLinks ==
  ASSUME TypeOK, StreamInv, AirAbort
  PROVE  StreamInv'
<1>1. PICK T, at, d : Linked(T, at, d)
  BY DEF StreamInv
<1>2. PICK n \in Nat : n = Len(rx_fifo)
  BY DEF TypeOK
<1>3. PICK b \in Tag : b = T[n]
  BY <1>1, <1>2, LastPlace, Zenon DEF Linked
<1>4. /\ UNCHANGED <<rx_fifo, buf, sync, escape, delivered, clean, due, started>>
      /\ sending' = << >> /\ rest' = << >> /\ intact' = FALSE /\ rxstart' = FALSE
  BY Zenon DEF AirAbort, HdlcAbort, ctxVars
<1>5. Owed(started, T, n, at, due, d, << >>)
  BY <1>1, <1>2, OwedIdle, Zenon DEF Linked
<1>6. Writer(started, b, << >>, << >>, FALSE, clean, FALSE)
  <2>1. Writer(started, b, sending, rest, rxstart, clean, intact)
    BY <1>1, <1>2, <1>3, Zenon DEF Linked
  <2>2. QED
    BY <2>1, Zenon DEF Writer
<1>7. Linked(T, at, d)'
  BY <1>1, <1>2, <1>3, <1>4, <1>5, <1>6, Zenon DEF Linked
<1>8. QED
  BY <1>7 DEF StreamInv

\* The byte that comes, and what is left behind it.
LEMMA NextByte ==
  ASSUME NEW s \in Seq(AirFrames), NEW b \in Tag, NEW se, NEW re \in Seq(Bytes), re # << >>,
         NEW rs, NEW cl, NEW wh, Writer(s, b, se, re, rs, cl, wh),
         NEW m, m = Len(se) - Len(re) + 1
  PROVE  /\ Len(s) \in 1 .. Len(s) /\ m \in 1 .. Len(s[Len(s)]) /\ se = s[Len(s)] /\ se # << >>
         /\ Head(re) = s[Len(s)][m] /\ Tail(re) \in Seq(Bytes) /\ Len(Tail(re)) = Len(se) - m
         /\ \A i \in 1 .. Len(Tail(re)) : Tail(re)[i] = se[Len(se) - Len(Tail(re)) + i]
         /\ rs => /\ b.h = 0 /\ b.j = m - 1
                  /\ IF b.j = 0 THEN b.k < Len(s) ELSE b.k = Len(s)
<1>1. /\ se # << >> /\ Len(s) > 0 /\ se = s[Len(s)] /\ Len(re) <= Len(se)
      /\ \A i \in 1 .. Len(re) : re[i] = se[Len(se) - Len(re) + i]
  BY DEF Writer
<1>2. Len(s) \in 1 .. Len(s)
  BY <1>1
<1>3. Len(se) \in Nat /\ Len(re) \in Nat \ {0}
  BY <1>1, <1>2, FrameAt
<1>4. /\ Head(re) = re[1] /\ Tail(re) \in Seq(Bytes) /\ Len(Tail(re)) = Len(re) - 1
      /\ \A i \in 1 .. Len(re) - 1 : Tail(re)[i] = re[i + 1]
  BY <1>3
<1>5. m \in 1 .. Len(se) /\ Len(Tail(re)) = Len(se) - m
  BY <1>1, <1>3, <1>4
<1>6. Head(re) = se[m]
  BY <1>1, <1>3, <1>4, SMTT(30)
<1>7. ASSUME NEW i \in 1 .. Len(Tail(re))
      PROVE  Tail(re)[i] = se[Len(se) - Len(Tail(re)) + i]
  <2>1. i \in 1 .. Len(re) - 1 /\ i + 1 \in 1 .. Len(re)
    BY <1>3, <1>4
  <2>2. Len(se) - Len(re) + (i + 1) = Len(se) - Len(Tail(re)) + i
    BY <1>3, <1>4, <2>1
  <2>3. QED
    BY <1>1, <1>4, <2>1, <2>2, Zenon
<1>8. rs => /\ b.h = 0 /\ b.j = m - 1
            /\ IF b.j = 0 THEN b.k < Len(s) ELSE b.k = Len(s)
  BY <1>1, <1>3 DEF Writer, Tag
<1>9. QED
  BY <1>1, <1>2, <1>4, <1>5, <1>6, <1>7, <1>8, Zenon

LEMMA PairAppended ==
  ASSUME NEW q \in Seq(Bytes), NEW x \in Bytes, NEW y \in Bytes
  PROVE  q \o <<x, y>> = Append(Append(q, x), y)
<1>1. q \o <<x, y>> \in Seq(Bytes) /\ Append(Append(q, x), y) \in Seq(Bytes)
  OBVIOUS
<1>2. Len(q \o <<x, y>>) = Len(q) + 2 /\ Len(Append(Append(q, x), y)) = Len(q) + 2
  OBVIOUS
<1>3. \A i \in 1 .. Len(q) + 2 : (q \o <<x, y>>)[i] = Append(Append(q, x), y)[i]
  OBVIOUS
<1>4. QED
  BY <1>1, <1>2, <1>3, SeqEqual

LEMMA ByteLinks ==
  ASSUME TypeOK, StreamInv, AirByte
  PROVE  StreamInv'
<1>1. PICK T, at, d : Linked(T, at, d)
  BY DEF StreamInv
<1>2. PICK n \in Nat : n = Len(rx_fifo)
  BY DEF TypeOK
<1>3. PICK b \in Tag : b = T[n] /\ Placed(started, b)
  BY <1>1, <1>2, LastPlace, Zenon DEF Linked
<1>4. /\ UNCHANGED <<buf, sync, escape, delivered, due, started, sending>>
      /\ rest # << >> /\ rest' = Tail(rest)
      /\ clean' = (IF rxstart /\ ~rxstart' THEN 0 ELSE clean)
      /\ intact' = (intact /\ rxstart')
      /\ HdlcByte(Head(rest)) \/ (~rxstart /\ UNCHANGED <<rx_fifo, rxstart>>)
  BY DEF AirByte, ctxVars, hdlcVars
<1>5. /\ Pieces(rx_fifo, started, T) /\ TakenFrom(delivered, started, at)
      /\ Reader(started, buf, sync, T[0], at) /\ (escape <=> T[0].h = 1)
      /\ Owed(started, T, n, at, due, d, sending)
      /\ Writer(started, b, sending, rest, rxstart, clean, intact)
  BY <1>1, <1>2, <1>3, Zenon DEF Linked
<1>6. started \in Seq(AirFrames) /\ rest \in Seq(Bytes) /\ rx_fifo \in Seq(Bytes)
  BY DEF TypeOK
<1>7. PICK m : m = Len(sending) - Len(rest) + 1
  OBVIOUS
<1>8. PICK K : K = Len(started)
  BY Zenon
<1>9. PICK x : x = Head(rest)
  OBVIOUS
<1>10. /\ K \in 1 .. Len(started) /\ m \in 1 .. Len(started[K])
       /\ sending = started[K] /\ sending # << >>
       /\ x = started[K][m] /\ x \in Bytes /\ Len(rest') = Len(sending) - m
       /\ \A i \in 1 .. Len(rest') : rest'[i] = sending[Len(sending) - Len(rest') + i]
       /\ rxstart => /\ b.h = 0 /\ b.j = m - 1
                     /\ IF b.j = 0 THEN b.k < K ELSE b.k = K
  <2>1. Head(rest) \in Bytes
    BY <1>4, <1>6, SMTT(30)
  <2>2. /\ Len(started) \in 1 .. Len(started) /\ m \in 1 .. Len(started[Len(started)])
        /\ sending = started[Len(started)] /\ sending # << >>
        /\ Head(rest) = started[Len(started)][m] /\ Len(Tail(rest)) = Len(sending) - m
        /\ \A i \in 1 .. Len(Tail(rest)) :
             Tail(rest)[i] = sending[Len(sending) - Len(Tail(rest)) + i]
        /\ rxstart => /\ b.h = 0 /\ b.j = m - 1
                      /\ IF b.j = 0 THEN b.k < Len(started) ELSE b.k = Len(started)
    <3>1. rest # << >> /\ Writer(started, b, sending, rest, rxstart, clean, intact)
      BY <1>4, <1>5, Zenon
    <3>2. QED
      BY <1>6, <1>7, <3>1, NextByte, SMTT(60)
  <2>3. QED
    BY <1>4, <1>8, <1>9, <2>1, <2>2, Zenon
<1>11. K \in Nat \ {0} /\ m \in Nat \ {0} /\ m <= Len(sending) /\ Len(sending) \in Nat
  BY <1>6, <1>10, FrameAt, SMTT(30)
<1>12. ASSUME NEW U, NEW q, NEW t, Pieces(q, started, U), rx_fifo' = q, t = U[Len(q)],
              Len(q) \in Nat, n <= Len(q), \A i \in 0 .. n : U[i] = T[i],
              Writer(started, t, sending, rest', rxstart', clean', intact')
       PROVE  StreamInv'
  <2>1. U[0] = T[0]
    BY <1>12, SMTT(30)
  <2>2. Owed(started, U, Len(q), at, due, d, sending)
    <3>1. /\ n \in Nat /\ Len(q) \in Nat /\ n <= Len(q) /\ Owed(started, T, n, at, due, d, sending)
          /\ \A i \in 0 .. n : U[i] = T[i]
      BY <1>5, <1>12, Zenon
    <3>2. QED
      BY <3>1, OwedPushed, SMTT(30)
  <2>3. Linked(U, at, d)'
    BY <1>4, <1>5, <1>12, <2>1, <2>2, Zenon DEF Linked
  <2>4. QED
    BY <2>3 DEF StreamInv
<1>13. CASE rx_fifo' = rx_fifo /\ rxstart' = FALSE
  <2>1. Writer(started, b, sending, rest', FALSE, clean', FALSE)
    <3>1. b.h = 1 => clean = 0
      BY <1>5, Zenon DEF Writer
    <3>2. (clean = 2 => b.c = 1) /\ (clean' = clean \/ clean' = 0)
      BY <1>4, <1>5, Zenon DEF Writer
    <3>3. (b.h = 1 => clean' = 0) /\ (clean' = 2 => b.c = 1)
      BY <3>1, <3>2
    <3>4. QED
      BY <1>8, <1>10, <1>11, <3>3, SMTT(30) DEF Writer
  <2>2. intact' = FALSE
    BY <1>4, <1>13, Zenon
  <2>3. QED
    <3>1. PICK q : q = rx_fifo
      BY Zenon
    <3>2. /\ Pieces(q, started, T) /\ rx_fifo' = q /\ b = T[Len(q)] /\ Len(q) \in Nat
          /\ n <= Len(q) /\ \A i \in 0 .. n : T[i] = T[i]
      <4>1. Pieces(q, started, T) /\ rx_fifo' = q /\ n = Len(q) /\ b = T[Len(q)]
        BY <1>2, <1>3, <1>5, <1>13, <3>1, Zenon
      <4>2. n <= n
        OBVIOUS
      <4>3. QED
        BY <4>1, <4>2, Zenon
    <3>3. Writer(started, b, sending, rest', rxstart', clean', intact')
      BY <1>13, <2>1, <2>2, Zenon
    <3>4. QED
      BY <1>12, <3>2, <3>3
<1>14. CASE HdlcByte(x) /\ HasRoom(Len(Stored(x)))
  <2>1. rxstart /\ rxstart' = rxstart /\ rx_fifo' = rx_fifo \o Stored(x)
    BY <1>14 DEF HdlcByte
  <2>2. clean' = clean /\ (intact' => intact)
    BY <1>4, <2>1, Zenon
  <2>3. PICK e : e = [k |-> K, j |-> m, h |-> 0, c |-> b.c]
    BY Zenon
  <2>4. e \in Tag /\ e.k = K /\ e.j = m /\ e.h = 0 /\ e.c = b.c
    BY <1>11, <2>3 DEF Tag
  <2>5. Placed(started, e)
    BY <1>10, <1>11, <2>4, SMTT(30) DEF Placed
  <2>6. Writer(started, e, sending, rest', rxstart', clean', intact')
    <3>1. (clean = 2 => e.c = 1) /\ (intact' => clean = 2)
      BY <1>5, <2>2, <2>4, Zenon DEF Writer
    <3>2. e.j = Len(sending) - Len(rest')
      BY <1>10, <1>11, <2>4, SMTT(30)
    <3>3. Len(rest') <= Len(sending)
      BY <1>10, <1>11, SMTT(30)
    <3>4. QED
      BY <1>8, <1>10, <1>11, <2>1, <2>2, <2>4, <3>1, <3>2, <3>3, SMTT(30) DEF Writer
  <2>7. CASE x \notin Special
    <3>1. Stored(x) = <<x>>
      BY <2>7 DEF Stored, Special
    <3>2. rx_fifo' = Append(rx_fifo, x)
      BY <1>6, <1>10, <2>1, <3>1, SMTT(30)
    <3>3. Follows(started, b, x, e)
      BY <1>10, <1>11, <2>1, <2>4, <2>7, SMTT(30) DEF Follows, Tag
    <3>4. PICK U : /\ Pieces(rx_fifo', started, U) /\ U[n + 1] = e
                   /\ \A i \in 0 .. n : U[i] = T[i]
      <4>1. /\ rx_fifo \in Seq(Bytes) /\ x \in Bytes /\ Pieces(rx_fifo, started, T)
            /\ e \in Tag /\ Placed(started, e) /\ Follows(started, T[Len(rx_fifo)], x, e)
        BY <1>2, <1>3, <1>5, <1>6, <1>10, <2>4, <2>5, <3>3, Zenon
      <4>2. PICK U : /\ Pieces(Append(rx_fifo, x), started, U) /\ U[Len(rx_fifo) + 1] = e
                     /\ \A i \in 0 .. Len(rx_fifo) : U[i] = T[i]
        BY <4>1, PiecesPush, SMTT(30)
      <4>3. QED
        BY <1>2, <3>2, <4>2, Zenon
    <3>5. Len(rx_fifo') = n + 1
      BY <1>2, <1>6, <3>2, SMTT(30)
    <3>6. QED
      BY <1>12, <2>6, <3>4, <3>5, SMTT(30)
  <2>8. CASE x \in Special
    <3>1. Stored(x) = <<ESC, x>>
      BY <2>8 DEF Stored, Special
    <3>2. PICK q \in Seq(Bytes) : q = Append(rx_fifo, ESC) /\ Len(q) = n + 1
      <4>1. Append(rx_fifo, ESC) \in Seq(Bytes) /\ Len(Append(rx_fifo, ESC)) = n + 1
        BY <1>2, <1>6, SpecialAssumption
      <4>2. QED
        BY <4>1, Zenon
    <3>3. rx_fifo' = Append(q, x)
      <4>1. rx_fifo \o <<ESC, x>> = Append(Append(rx_fifo, ESC), x)
        BY <1>6, <1>10, PairAppended, SpecialAssumption, Zenon
      <4>2. QED
        BY <2>1, <3>1, <3>2, <4>1, Zenon
    <3>4. PICK g : g = [k |-> K, j |-> m, h |-> 1, c |-> b.c]
      BY Zenon
    <3>5. g \in Tag /\ g.k = K /\ g.j = m /\ g.h = 1 /\ g.c = b.c
      BY <1>11, <3>4 DEF Tag
    <3>6. Placed(started, g) /\ Follows(started, b, ESC, g)
      BY <1>10, <1>11, <2>1, <2>8, <3>5, SMTT(30) DEF Placed, Follows, Tag
    <3>7. Follows(started, g, x, e)
      BY <1>10, <1>11, <2>4, <3>5, Zenon DEF Follows
    <3>8. PICK V : /\ Pieces(q, started, V) /\ V[n + 1] = g
                   /\ \A i \in 0 .. n : V[i] = T[i]
      <4>1. /\ rx_fifo \in Seq(Bytes) /\ ESC \in Bytes /\ Pieces(rx_fifo, started, T)
            /\ g \in Tag /\ Placed(started, g) /\ Follows(started, T[Len(rx_fifo)], ESC, g)
        BY <1>2, <1>3, <1>5, <1>6, <3>5, <3>6, SpecialAssumption, Zenon
      <4>2. PICK V : /\ Pieces(Append(rx_fifo, ESC), started, V) /\ V[Len(rx_fifo) + 1] = g
                     /\ \A i \in 0 .. Len(rx_fifo) : V[i] = T[i]
        BY <4>1, PiecesPush, SMTT(30)
      <4>3. QED
        BY <1>2, <3>2, <4>2, Zenon
    <3>9. PICK U : /\ Pieces(rx_fifo', started, U) /\ U[n + 2] = e
                   /\ \A i \in 0 .. n + 1 : U[i] = V[i]
      <4>1. Follows(started, V[Len(q)], x, e)
        BY <3>2, <3>7, <3>8, Zenon
      <4>2. PICK U : /\ Pieces(Append(q, x), started, U) /\ U[Len(q) + 1] = e
                     /\ \A i \in 0 .. Len(q) : U[i] = V[i]
        BY <1>10, <2>4, <2>5, <3>8, <4>1, PiecesPush, SMTT(30)
      <4>3. Len(q) = n + 1 /\ Len(q) + 1 = n + 2
        BY <3>2
      <4>4. U[n + 2] = e /\ \A i \in 0 .. n + 1 : U[i] = V[i]
        BY <4>2, <4>3, Zenon
      <4>5. QED
        BY <3>3, <4>2, <4>4, Zenon
    <3>10. \A i \in 0 .. n : U[i] = T[i]
      BY <3>8, <3>9, SMTT(30)
    <3>11. Len(rx_fifo') = n + 2
      <4>1. Len(Append(q, x)) = Len(q) + 1
        BY <1>10, <3>2, SMTT(30)
      <4>2. QED
        BY <3>2, <3>3, <4>1
    <3>12. QED
      <4>1. n + 2 \in Nat /\ n <= n + 2
        OBVIOUS
      <4>2. /\ Pieces(rx_fifo', started, U) /\ e = U[Len(rx_fifo')]
            /\ Len(rx_fifo') \in Nat /\ n <= Len(rx_fifo') /\ \A i \in 0 .. n : U[i] = T[i]
        BY <3>9, <3>10, <3>11, <4>1, Zenon
      <4>3. QED
        BY <1>12, <2>6, <4>2, Zenon
  <2>9. QED
    BY <2>7, <2>8
<1>15. CASE HdlcByte(x) /\ ~HasRoom(Len(Stored(x))) /\ HasRoom(1)
  <2>1. rxstart /\ rxstart' = FALSE /\ rx_fifo' = Append(rx_fifo, ESC)
    BY <1>15, Zenon DEF HdlcByte
  <2>2. x \in Special
    BY <1>15 DEF Stored, Special
  <2>3. clean' = 0 /\ intact' = FALSE
    BY <1>4, <2>1, Zenon
  <2>4. PICK g : g = [k |-> K, j |-> m, h |-> 1, c |-> b.c]
    BY Zenon
  <2>5. g \in Tag /\ g.k = K /\ g.j = m /\ g.h = 1 /\ g.c = b.c
    BY <1>11, <2>4, SMTT(30) DEF Tag
  <2>6. Placed(started, g) /\ Follows(started, b, ESC, g)
    BY <1>10, <1>11, <2>1, <2>2, <2>5, SMTT(30) DEF Placed, Follows, Tag
  <2>7. PICK U : /\ Pieces(rx_fifo', started, U) /\ U[n + 1] = g
                 /\ \A i \in 0 .. n : U[i] = T[i]
    <3>1. /\ rx_fifo \in Seq(Bytes) /\ ESC \in Bytes /\ Pieces(rx_fifo, started, T)
          /\ g \in Tag /\ Placed(started, g) /\ Follows(started, T[Len(rx_fifo)], ESC, g)
      BY <1>2, <1>3, <1>5, <1>6, <2>5, <2>6, SpecialAssumption, Zenon
    <3>2. PICK U : /\ Pieces(Append(rx_fifo, ESC), started, U) /\ U[Len(rx_fifo) + 1] = g
                   /\ \A i \in 0 .. Len(rx_fifo) : U[i] = T[i]
      BY <3>1, PiecesPush, SMTT(30)
    <3>3. QED
      BY <1>2, <2>1, <3>2, Zenon
  <2>8. Len(rx_fifo') = n + 1
    BY <1>2, <1>6, <2>1, SpecialAssumption, SMTT(30)
  <2>9. Writer(started, g, sending, rest', rxstart', clean', intact')
    <3>1. Len(rest') <= Len(sending)
      BY <1>10, <1>11
    <3>2. QED
      BY <1>8, <1>10, <1>11, <2>1, <2>3, <3>1, SMTT(30) DEF Writer
  <2>10. QED
    BY <1>12, <2>7, <2>8, <2>9, SMTT(30)
<1>16. CASE HdlcByte(x) /\ ~HasRoom(Len(Stored(x))) /\ ~HasRoom(1)
  BY <1>13, <1>16, Zenon DEF HdlcByte
<1>17. CASE ~rxstart /\ UNCHANGED <<rx_fifo, rxstart>>
  BY <1>13, <1>17, Zenon DEF TypeOK
<1>18. QED
  BY <1>4, <1>9, <1>14, <1>15, <1>16, <1>17

-----------------------------------------------------------------------------
(* The steps of ax25_poll().                                               *)

LEMMA WholeFrame ==
  ASSUME NEW s \in Seq(AirFrames), NEW v \in Seq(Bytes), NEW a \in Tag, NEW at,
         InSync(s, v, a, at), Len(v) = Count(a), a.h = 0, a.k \in 1 .. Len(s),
         a.j = Len(s[a.k])
  PROVE  v = s[a.k]
<1>1. PICK o \in 0 .. Len(v) : /\ Len(v) - o = Count(a)
                               /\ \A i \in 1 .. Count(a) : v[o + i] = s[a.k][i]
  BY Zenon DEF InSync
<1>2. s[a.k] \in Seq(Bytes) /\ Count(a) = Len(s[a.k]) /\ Len(v) \in Nat
  BY FrameAt DEF Count, Tag
<1>3. o = 0
  BY <1>1, <1>2, SMTT(30)
<1>4. \A i \in 1 .. Len(v) : v[i] = s[a.k][i]
  BY <1>1, <1>2, <1>3, SMTT(30)
<1>5. PICK f \in Seq(Bytes) : f = s[a.k]
  BY <1>2, Zenon
<1>6. Len(v) = Len(f) /\ \A i \in 1 .. Len(v) : v[i] = f[i]
  BY <1>2, <1>4, <1>5, Zenon
<1>7. v = f
  BY <1>6, SeqEqual, SMTT(30)
<1>8. QED
  BY <1>5, <1>7, Zenon

\* A byte that is no flag, reset or escape, or is read with ctx->escape set.
LEMMA ReaderTakesData ==
  ASSUME NEW s \in Seq(AirFrames), NEW v \in Seq(Bytes), NEW sy \in BOOLEAN,
         NEW a \in Tag, NEW b \in Tag, NEW x \in Bytes, NEW at,
         \A i \in DOMAIN at : at[i] \in Nat, Placed(s, a), Placed(s, b), Follows(s, a, x, b),
         a.h = 1 \/ x \notin Special, Reader(s, v, sy, a, at)
  PROVE  /\ b.h = 0 /\ (b.j = 0 => a.h = 1)
         /\ sy /\ Len(v) < BufLen => Reader(s, Append(v, x), TRUE, b, at)
         /\ ~(sy /\ Len(v) < BufLen) => Reader(s, v, FALSE, b, at)
<1>1. /\ a.k \in Nat /\ a.j \in Nat /\ a.h \in 0 .. 1 /\ b.k \in Nat /\ b.j \in Nat
      /\ b.h \in 0 .. 1 /\ b.k >= a.k /\ Len(v) \in Nat /\ BufLen \in Nat
  BY TellsApart, LenAssumption, SMTT(30) DEF Tag
<1>2. b.h = 0 /\ (b.j = 0 => a.h = 1 /\ x = FLAG /\ b.c = 0)
  <2>1. /\ a.h = 1 => b.h = 0
        /\ a.h = 0 => (x = FLAG <=> b.j = 0) /\ (x = ESC <=> b.h = 1)
    BY TellsApart, Zenon
  <2>2. FLAG \in Special /\ ESC \in Special
    BY Zenon DEF Special
  <2>3. CASE a.h = 1
    <3>1. 1 - 1 = 0
      OBVIOUS
    <3>2. QED
      BY <2>1, <2>3, <3>1, Zenon DEF Follows
  <2>4. CASE a.h # 1
    <3>1. \A h \in 0 .. 1 : h # 1 => h = 0
      OBVIOUS
    <3>2. a.h = 0 /\ (b.h # 1 => b.h = 0)
      BY <1>1, <2>4, <3>1, Zenon
    <3>3. QED
      BY <2>1, <2>2, <2>4, <3>2, Zenon
  <2>5. QED
    BY <2>3, <2>4, Zenon
<1>3. b.j # 0 => b.c = a.c /\ Count(b) = Count(a) + 1
  <2>1. SUFFICES ASSUME b.j # 0
                 PROVE  b.c = a.c /\ Count(b) = Count(a) + 1
    OBVIOUS
  <2>2. b.c = a.c /\ (IF a.h = 1 THEN b.j = a.j ELSE b.j = a.j + 1)
    BY <2>1, Zenon DEF Follows
  <2>3. QED
    BY <1>1, <1>2, <2>2, SMTT(30) DEF Count
<1>4. Count(a) \in Int /\ Count(b) \in Int
  BY <1>1, <1>2, SMTT(30) DEF Count
<1>5. Exact(v, sy, a)
  BY DEF Reader
<1>6. ASSUME sy, Len(v) < BufLen
      PROVE  Reader(s, Append(v, x), TRUE, b, at)
  <2>1. InSync(s, v, a, at)
    BY <1>6 DEF Reader
  <2>2. Len(Append(v, x)) = Len(v) + 1
    OBVIOUS
  <2>3. CASE b.j = 0
    <3>1. InSync(s, Append(v, FLAG), b, at)
      BY <1>1, <1>2, <2>1, <2>3, FlagSwallowed, Zenon
    <3>2. Exact(Append(v, x), TRUE, b)
      BY <1>2, <2>3 DEF Exact
    <3>3. QED
      BY <1>2, <2>3, <3>1, <3>2, Zenon DEF Reader
  <2>4. CASE b.j # 0
    <3>1. InSync(s, Append(v, x), b, at)
      BY <1>2, <2>1, <2>4, DataInSync, Zenon
    <3>2. Exact(Append(v, x), TRUE, b)
      BY <1>1, <1>3, <1>4, <1>5, <2>2, <2>4, SMTT(30) DEF Exact
    <3>3. QED
      BY <3>1, <3>2, Zenon DEF Reader
  <2>5. QED
    BY <2>3, <2>4, Zenon
<1>7. ASSUME ~(sy /\ Len(v) < BufLen)
      PROVE  Reader(s, v, FALSE, b, at)
  <2>1. Ended(s, v, a, at)
    BY SyncEnds, Zenon DEF Reader
  <2>2. Ended(s, v, b, at)
    BY <1>1, <2>1, EndedLater, Zenon
  <2>3. Exact(v, FALSE, b)
    BY <1>1, <1>2, <1>3, <1>4, <1>5, <1>7, SMTT(30) DEF Exact
  <2>4. QED
    BY <2>2, <2>3, Zenon DEF Reader
<1>8. QED
  BY <1>2, <1>6, <1>7, Zenon

LEMMA ReaderTakesEscape ==
  ASSUME NEW s \in Seq(AirFrames), NEW v \in Seq(Bytes), NEW sy \in BOOLEAN,
         NEW a \in Tag, NEW b \in Tag, NEW x, NEW at,
         \A i \in DOMAIN at : at[i] \in Nat, Placed(s, a), Placed(s, b), Follows(s, a, x, b),
         b.h = 1, Reader(s, v, sy, a, at)
  PROVE  Reader(s, v, sy, b, at)
<1>1. b.k >= a.k
  BY TellsApart, Zenon
<1>2. b.c = a.c /\ Count(b) = Count(a)
  BY SMTT(30) DEF Follows, Count, Placed, Tag
<1>3. Exact(v, sy, b)
  BY <1>2 DEF Reader, Exact
<1>4. CASE sy
  BY <1>3, <1>4, EscapeInSync, Zenon DEF Reader
<1>5. CASE ~sy
  BY <1>1, <1>3, <1>5, EndedLater DEF Reader
<1>6. QED
  BY <1>4, <1>5

\* What was owed still is, or has just been delivered.
LEMMA OwedPopped ==
  ASSUME NEW s, NEW T, NEW U, NEW n \in Nat \ {0}, NEW at, NEW nt, NEW du, NEW d, NEW se,
         Owed(s, T, n, at, du, d, se), \A i \in 0 .. n - 1 : U[i] = T[i + 1],
         \A i \in DOMAIN at : i \in DOMAIN nt /\ nt[i] = at[i],
         \A k \in 1 .. Len(s) : Closing(s, T, 1, k) /\ s[k] \in Valid /\ GoodLength(s[k])
                                  => \E m \in DOMAIN nt : nt[m] = k
  PROVE  Owed(s, U, n - 1, nt, du, d, se)
<1>1. ASSUME NEW i \in 1 .. Len(du)
      PROVE  \/ \E m \in DOMAIN nt : nt[m] = d[i]
             \/ \E x \in 1 .. n - 1 : Closing(s, U, x, d[i])
  <2>1. CASE \E m \in DOMAIN at : at[m] = d[i]
    BY <2>1, Zenon
  <2>2. ASSUME NEW x \in 1 .. n, Closing(s, T, x, d[i])
        PROVE  \/ \E m \in DOMAIN nt : nt[m] = d[i]
               \/ \E y \in 1 .. n - 1 : Closing(s, U, y, d[i])
    <3>1. CASE x = 1
      <4>1. d[i] \in 1 .. Len(s) /\ s[d[i]] \in Valid /\ GoodLength(s[d[i]])
        BY Zenon DEF Owed, TakenFrom
      <4>2. QED
        BY <2>2, <3>1, <4>1, Zenon
    <3>2. CASE x # 1
      <4>1. /\ x - 1 \in 1 .. n - 1 /\ x - 1 \in 0 .. n - 1 /\ (x - 1) - 1 \in 0 .. n - 1
            /\ (x - 1) + 1 = x /\ ((x - 1) - 1) + 1 = x - 1
        BY <3>2, SMTT(30)
      <4>2. U[x - 1] = T[x] /\ U[(x - 1) - 1] = T[x - 1]
        BY <4>1, Zenon
      <4>3. Closing(s, U, x - 1, d[i])
        BY <2>2, <4>2, Zenon DEF Closing
      <4>4. QED
        BY <4>1, <4>3, Zenon
    <3>3. QED
      BY <3>1, <3>2, Zenon
  <2>3. QED
    BY <2>1, <2>2, Zenon DEF Owed
<1>2. QED
  BY <1>1, Zenon DEF Owed

LEMMA PollLinks ==
  ASSUME TypeOK, StreamInv, Poll_Byte
  PROVE  StreamInv'
<1>1. PICK T, at, d : Linked(T, at, d)
  BY DEF StreamInv
<1>2. /\ rx_fifo # << >> /\ rx_fifo' = Tail(rx_fifo) /\ rx_fifo \in Seq(Bytes)
      /\ UNCHANGED <<rxstart, sending, rest, started, clean, intact, due>>
      /\ Poll_Flag \/ Poll_Control \/ Poll_Data
      /\ started \in Seq(AirFrames) /\ buf \in Seq(Bytes) /\ delivered \in Seq(Valid)
      /\ sync \in BOOLEAN
  BY DEF Poll_Byte, Read, airVars, TypeOK
<1>3. PICK n \in Nat \ {0} : n = Len(rx_fifo)
  BY <1>2
<1>4. PICK x \in Bytes : x = Head(rx_fifo) /\ x = rx_fifo[1]
  BY <1>2, <1>3
<1>5. Len(rx_fifo') = n - 1
  BY <1>2, <1>3
<1>6. PICK a \in Tag : a = T[0] /\ Placed(started, a)
  BY <1>1, LastPlace, Zenon DEF Linked
<1>7. PICK b \in Tag : b = T[1] /\ Placed(started, b) /\ Follows(started, a, x, b)
  <2>1. 1 \in 0 .. Len(rx_fifo) /\ 1 \in 1 .. Len(rx_fifo) /\ 1 - 1 = 0
    BY <1>3
  <2>2. T[1] \in Tag /\ Placed(started, T[1]) /\ Follows(started, T[1 - 1], rx_fifo[1], T[1])
    BY <1>1, <2>1 DEF Linked, Pieces
  <2>3. QED
    BY <1>4, <1>6, <2>1, <2>2
<1>8. PICK U : Pieces(rx_fifo', started, U) /\ \A i \in 0 .. n - 1 : U[i] = T[i + 1]
  <2>1. rx_fifo \in Seq(Bytes) /\ rx_fifo # << >> /\ Pieces(rx_fifo, started, T)
    BY <1>1, <1>2, Zenon DEF Linked
  <2>2. PICK U : /\ Pieces(Tail(rx_fifo), started, U)
                 /\ \A i \in 0 .. Len(rx_fifo) - 1 : U[i] = T[i + 1]
    BY <2>1, PiecesPop, SMTT(30)
  <2>3. QED
    BY <1>2, <1>3, <2>2, Zenon
<1>9. U[0] = b /\ U[n - 1] = T[n]
  <2>1. 0 \in 0 .. n - 1 /\ n - 1 \in 0 .. n - 1 /\ 0 + 1 = 1 /\ (n - 1) + 1 = n
    OBVIOUS
  <2>2. QED
    <3>1. U[0] = T[0 + 1] /\ U[n - 1] = T[(n - 1) + 1]
      BY <1>8, <2>1, Zenon
    <3>2. QED
      BY <1>7, <2>1, <3>1, Zenon
<1>10. /\ Writer(started, T[n], sending, rest, rxstart, clean, intact)
       /\ TakenFrom(delivered, started, at) /\ Reader(started, buf, sync, a, at)
       /\ (escape <=> a.h = 1) /\ Owed(started, T, n, at, due, d, sending)
  BY <1>1, <1>3, <1>6, Zenon DEF Linked
<1>11. (\A i \in DOMAIN at : at[i] \in Nat) /\ DOMAIN at = 1 .. Len(delivered)
  <2>1. at \in [1 .. Len(delivered) -> 1 .. Len(started)]
    BY <1>10, Zenon DEF TakenFrom
  <2>2. \A k \in 1 .. Len(started) : k \in Nat
    BY <1>2, SMTT(30)
  <2>3. DOMAIN at = 1 .. Len(delivered)
    BY <2>1, Zenon
  <2>4. QED
    BY <2>1, <2>2, <2>3, Zenon
<1>12. /\ b.k >= a.k /\ a.k \in Nat /\ b.k \in Nat /\ a.h \in 0 .. 1
       /\ a.h = 0 => (x = FLAG <=> b.j = 0) /\ (x = ESC <=> b.h = 1) /\ x # RESET
  BY <1>6, <1>7, TellsApart, SMTT(30) DEF Tag
<1>13. ASSUME NEW nt, TakenFrom(delivered', started, nt),
              Reader(started, buf', sync', b, nt), escape' <=> b.h = 1,
              \A i \in DOMAIN at : i \in DOMAIN nt /\ nt[i] = at[i],
              \A k \in 1 .. Len(started) :
                Closing(started, T, 1, k) /\ started[k] \in Valid /\ GoodLength(started[k])
                  => \E m \in DOMAIN nt : nt[m] = k
       PROVE  StreamInv'
  <2>1. Owed(started, U, n - 1, nt, due, d, sending)
    BY <1>8, <1>10, <1>13, OwedPopped, Zenon
  <2>2. Writer(started, U[n - 1], sending, rest, rxstart, clean, intact)
    BY <1>9, <1>10, Zenon
  <2>3. Linked(U, nt, d)'
    BY <1>2, <1>5, <1>8, <1>9, <1>13, <2>1, <2>2, Zenon DEF Linked
  <2>4. QED
    BY <2>3 DEF StreamInv
<1>14. CASE Poll_Flag
  <2>1. /\ ~escape /\ x = FLAG /\ sync' = TRUE /\ buf' = << >> /\ escape' = escape
        /\ delivered' = IF Len(buf) >= MinLen /\ buf \in Valid
                        THEN Append(delivered, buf) ELSE delivered
    BY <1>4, <1>14 DEF Poll_Flag
  <2>2. a.h = 0 /\ b.j = 0 /\ b.h = 0
    <3>1. a.h # 1
      BY <1>10, <2>1, Zenon
    <3>2. a.h = 0
      BY <1>12, <3>1
    <3>3. b.j = 0
      BY <1>12, <2>1, <3>2, Zenon
    <3>4. QED
      BY <1>7, <3>2, <3>3, Zenon DEF Placed
  <2>3. PICK nt : /\ TakenFrom(delivered', started, nt) /\ Behind(nt, a.k + 1)
                  /\ \A i \in 1 .. Len(delivered) : nt[i] = at[i]
                  /\ Len(buf) >= MinLen /\ buf \in Valid /\ sync /\ Len(buf) = Count(a)
                      => /\ nt[Len(delivered) + 1] = a.k
                         /\ Len(delivered') = Len(delivered) + 1
    <3>1. delivered' = Handed(delivered, buf)
      BY <2>1 DEF Handed
    <3>2. PICK nt : Extends(delivered, started, at, buf, sync, a, nt)
      <4>1. /\ delivered \in Seq(Valid) /\ started \in Seq(AirFrames) /\ buf \in Seq(Bytes)
            /\ sync \in BOOLEAN /\ Placed(started, a)
            /\ TakenFrom(delivered, started, at) /\ Reader(started, buf, sync, a, at)
        BY <1>2, <1>6, <1>10, Zenon
      <4>2. QED
        BY <4>1, FlagDelivers, Zenon
    <3>3. QED
      BY <3>1, <3>2, Zenon DEF Extends
  <2>4. Len(delivered') >= Len(delivered) /\ Len(delivered) \in Nat /\ Len(delivered') \in Nat
    BY <1>2, <2>1, ValidAssumption
  <2>5. DOMAIN nt = 1 .. Len(delivered') /\ \A i \in DOMAIN nt : nt[i] \in Nat
    BY <2>3, SMTT(30) DEF TakenFrom
  <2>6. Reader(started, << >>, TRUE, b, nt)
    <3>1. Behind(nt, b.k + 1)
      BY <1>12, <2>3, <2>5, SMTT(30) DEF Behind
    <3>2. InSync(started, << >>, b, nt) /\ Count(b) = 0
      BY <2>2, <3>1, FlagInSync
    <3>3. Len(<< >>) = 0
      OBVIOUS
    <3>4. QED
      BY <3>2, <3>3 DEF Reader, Exact
  <2>7. \A i \in DOMAIN at : i \in DOMAIN nt /\ nt[i] = at[i]
    BY <1>11, <2>3, <2>4, <2>5, SMTT(30)
  <2>8. ASSUME NEW k \in 1 .. Len(started), Closing(started, T, 1, k),
               started[k] \in Valid, GoodLength(started[k])
        PROVE  \E m \in DOMAIN nt : nt[m] = k
    <3>1. a.c = 1 /\ a.k = k /\ a.j = Len(started[k])
      <4>1. 1 - 1 = 0
        OBVIOUS
      <4>2. QED
        BY <1>6, <2>8, <4>1, Zenon DEF Closing
    <3>2. Count(a) = Len(started[k]) /\ Count(a) <= BufLen /\ Count(a) >= MinLen
      <4>1. Count(a) = a.j
        BY <2>2 DEF Count, Tag
      <4>2. QED
        BY <2>8, <3>1, <4>1 DEF GoodLength
    <3>3. sync /\ Len(buf) = Count(a)
      BY <1>10, <3>1, <3>2 DEF Reader, Exact
    <3>4. InSync(started, buf, a, at)
      BY <1>10, <3>3 DEF Reader
    <3>5. buf = started[k]
      BY <1>2, <2>2, <3>1, <3>3, <3>4, WholeFrame, Zenon
    <3>6. nt[Len(delivered) + 1] = k /\ Len(delivered') = Len(delivered) + 1
      BY <2>3, <2>8, <3>1, <3>2, <3>3, <3>5
    <3>7. Len(delivered) + 1 \in DOMAIN nt
      BY <2>4, <2>5, <3>6
    <3>8. QED
      BY <3>6, <3>7
  <2>9. escape' <=> b.h = 1
    BY <2>1, <2>2, SMTT(30)
  <2>10. QED
    BY <1>13, <2>1, <2>3, <2>6, <2>7, <2>8, <2>9, Zenon
<1>15. CASE Poll_Control
  <2>1. /\ ~escape /\ x \in {RESET, ESC} /\ escape' = (x = ESC)
        /\ sync' = (sync /\ x # RESET) /\ buf' = buf /\ delivered' = delivered
    BY <1>4, <1>15, Zenon DEF Poll_Control
  <2>2. a.h = 0
    BY <1>10, <1>12, <2>1, SMTT(30)
  <2>3. x = ESC /\ b.h = 1 /\ x # RESET
    BY <1>12, <2>1, <2>2
  <2>4. escape' <=> b.h = 1
    BY <2>1, <2>3, Zenon
  <2>5. sync' = sync
    BY <1>2, <2>1, <2>3
  <2>6. Reader(started, buf, sync, b, at)
    BY <1>2, <1>6, <1>7, <1>10, <1>11, <2>3, ReaderTakesEscape, Zenon
  <2>7. \A k : ~Closing(started, T, 1, k)
    <3>1. b.j # 0
      BY <1>7, <2>3, SMTT(30) DEF Placed
    <3>2. QED
      BY <1>7, <3>1, Zenon DEF Closing
  <2>8. QED
    BY <1>10, <1>13, <2>1, <2>4, <2>5, <2>6, <2>7, Zenon
<1>16. CASE Poll_Data
  <2>1. /\ escape \/ x \notin Special
        /\ ~escape' /\ delivered' = delivered
        /\ buf' = IF sync /\ Len(buf) < BufLen THEN Append(buf, x) ELSE buf
        /\ sync' = (sync /\ Len(buf) < BufLen)
    BY <1>4, <1>16 DEF Poll_Data, Special
  <2>2. a.h = 1 \/ x \notin Special
    BY <1>10, <2>1, Zenon
  <2>3. /\ b.h = 0 /\ (b.j = 0 => a.h = 1)
        /\ sync /\ Len(buf) < BufLen => Reader(started, Append(buf, x), TRUE, b, at)
        /\ ~(sync /\ Len(buf) < BufLen) => Reader(started, buf, FALSE, b, at)
    <3>1. /\ started \in Seq(AirFrames) /\ buf \in Seq(Bytes) /\ sync \in BOOLEAN
          /\ \A i \in DOMAIN at : at[i] \in Nat
          /\ Placed(started, a) /\ Placed(started, b) /\ Follows(started, a, x, b)
          /\ Reader(started, buf, sync, a, at)
      BY <1>2, <1>6, <1>7, <1>10, <1>11, Zenon
    <3>2. QED
      BY <2>2, <3>1, ReaderTakesData, ZenonT(30)
  <2>4. Reader(started, buf', sync', b, at)
    <3>1. CASE sync /\ Len(buf) < BufLen
      <4>1. buf' = Append(buf, x) /\ sync' = TRUE
        BY <2>1, <3>1, Zenon
      <4>2. QED
        BY <2>3, <3>1, <4>1, Zenon
    <3>2. CASE ~(sync /\ Len(buf) < BufLen)
      <4>1. buf' = buf /\ sync' = FALSE
        BY <2>1, <3>2, Zenon
      <4>2. QED
        BY <2>3, <3>2, <4>1, Zenon
    <3>3. QED
      BY <3>1, <3>2
  <2>5. \A k : ~Closing(started, T, 1, k)
    <3>1. 1 - 1 = 0 /\ 1 # 0
      OBVIOUS
    <3>2. T[1] = b /\ T[1 - 1] = a
      BY <1>6, <1>7, <3>1
    <3>3. QED
      BY <2>3, <3>1, <3>2, Zenon DEF Closing
  <2>6. escape' <=> b.h = 1
    BY <2>1, <2>3
  <2>7. QED
    BY <1>10, <1>13, <2>1, <2>4, <2>5, <2>6, Zenon
<1>17. QED
  BY <1>2, <1>14, <1>15, <1>16

LEMMA InitLinks == Init => StreamInv
<1> SUFFICES ASSUME Init
             PROVE  StreamInv
  OBVIOUS
<1> DEFINE z == [k |-> 0, j |-> 0, h |-> 0, c |-> 0]
           T == [i \in 0 .. 0 |-> z]
           none == [i \in 1 .. 0 |-> 0]
<1>1. /\ rx_fifo = << >> /\ rxstart = FALSE /\ buf = << >> /\ sync = FALSE /\ escape = FALSE
      /\ delivered = << >> /\ sending = << >> /\ rest = << >> /\ started = << >>
      /\ clean = 1 /\ intact = FALSE /\ due = << >>
  BY DEF Init, HdlcInit
<1>2. z \in Tag /\ z.k = 0 /\ z.j = 0 /\ z.h = 0 /\ z.c = 0
  BY SMTT(30) DEF Tag
<1> HIDE DEF z
<1>3. Len(<< >>) = 0 /\ T[0] = z /\ \A i \in 0 .. 0 : T[i] = z
  OBVIOUS
<1>4. T \in [0 .. 0 -> Tag]
  BY <1>2
<1>5. Placed(<< >>, z)
  BY <1>2, <1>3 DEF Placed
<1> HIDE DEF T
<1>6. Pieces(<< >>, << >>, T)
  BY <1>3, <1>4, <1>5 DEF Pieces
<1>7. Writer(<< >>, z, << >>, << >>, FALSE, 1, FALSE)
  BY <1>2 DEF Writer
<1>8. TakenFrom(<< >>, << >>, none)
  BY <1>3 DEF TakenFrom
<1>9. Reader(<< >>, << >>, FALSE, z, none)
  BY <1>2 DEF Reader, Ended, Exact, Behind
<1>10. Owed(<< >>, T, 0, none, << >>, none, << >>)
  BY <1>3, <1>8 DEF Owed
<1> HIDE DEF none
<1>11. Linked(T, none, none)
  <2>1. Len(rx_fifo) = 0 /\ (escape <=> T[0].h = 1)
    BY <1>1, <1>2, <1>3
  <2>2. Pieces(rx_fifo, started, T) /\ TakenFrom(delivered, started, none)
    BY <1>1, <1>6, <1>8
  <2>3. Writer(started, T[Len(rx_fifo)], sending, rest, rxstart, clean, intact)
    BY <1>1, <1>3, <1>7, <2>1, Zenon
  <2>4. Reader(started, buf, sync, T[0], none)
    BY <1>1, <1>3, <1>9, Zenon
  <2>5. Owed(started, T, Len(rx_fifo), none, due, none, sending)
    BY <1>1, <1>10, <2>1, Zenon
  <2>6. QED
    BY <2>1, <2>2, <2>3, <2>4, <2>5, Zenon DEF Linked
<1>12. QED
  BY <1>11 DEF StreamInv

-----------------------------------------------------------------------------
(* The types.                                                              *)

FifoInv ==
  /\ rx_fifo \in Seq(Bytes) /\ Len(rx_fifo) <= Capacity
  /\ rxstart \in BOOLEAN /\ overrun \in BOOLEAN

CtxInv ==
  /\ buf \in Seq(Bytes) /\ Len(buf) <= BufLen /\ sync \in BOOLEAN /\ escape \in BOOLEAN
  /\ pc \in {"getc", "error", "clearerr"} /\ delivered \in Seq(Valid)

AirInv ==
  /\ sending \in AirFrames \union {<< >>} /\ rest \in Seq(Bytes)
  /\ started \in Seq(AirFrames) /\ due \in Seq(Valid)
  /\ flags \in 0 .. MaxFlags /\ clean \in 0 .. 2 /\ intact \in BOOLEAN

LEMMA TypeParts == TypeOK <=> FifoInv /\ CtxInv /\ AirInv
  BY DEF TypeOK, FifoInv, CtxInv, AirInv

LEMMA FlagFits == FifoInv /\ HdlcFlag => FifoInv'
<1> SUFFICES ASSUME FifoInv, HdlcFlag
             PROVE  FifoInv'
  OBVIOUS
<1>1. CASE HasRoom(1)
  <2>1. rx_fifo' = Append(rx_fifo, FLAG) /\ rxstart' = TRUE /\ overrun' = overrun
    BY <1>1 DEF HdlcFlag
  <2>2. rx_fifo' \in Seq(Bytes) /\ Len(rx_fifo') <= Capacity
    BY <1>1, <2>1, SpecialAssumption, RoomAssumption DEF FifoInv, HasRoom
  <2>3. QED
    BY <2>1, <2>2 DEF FifoInv
<1>2. CASE ~HasRoom(1)
  BY <1>2, Zenon DEF HdlcFlag, FifoInv
<1>3. QED
  BY <1>1, <1>2

LEMMA ByteFits ==
  ASSUME NEW c \in Bytes, FifoInv, HdlcByte(c)
  PROVE  FifoInv'
<1>1. rx_fifo \in Seq(Bytes)
  BY DEF FifoInv
<1>2. CASE HasRoom(Len(Stored(c)))
  <2>1. rx_fifo' = rx_fifo \o Stored(c) /\ rxstart' = rxstart /\ overrun' = overrun
    BY <1>2 DEF HdlcByte
  <2>2. Stored(c) \in Seq(Bytes)
    BY SpecialAssumption DEF Stored
  <2>3. rx_fifo' \in Seq(Bytes) /\ Len(rx_fifo') <= Capacity
    BY <1>1, <1>2, <2>1, <2>2, RoomAssumption DEF HasRoom
  <2>4. QED
    BY <2>1, <2>3 DEF FifoInv
<1>3. CASE ~HasRoom(Len(Stored(c)))
  <2>1. /\ rx_fifo' = IF HasRoom(1) THEN Append(rx_fifo, ESC) ELSE rx_fifo
        /\ rxstart' = FALSE /\ overrun' = TRUE
    BY <1>3, Zenon DEF HdlcByte
  <2>2. rx_fifo' \in Seq(Bytes) /\ Len(rx_fifo') <= Capacity
    BY <2>1, SpecialAssumption, RoomAssumption DEF HasRoom, FifoInv
  <2>3. QED
    BY <2>1, <2>2, Zenon DEF FifoInv
<1>4. QED
  BY <1>2, <1>3

LEMMA InitTypes == Init => TypeOK
<1> SUFFICES ASSUME Init
             PROVE  TypeOK
  OBVIOUS
<1>1. (\A S : << >> \in Seq(S)) /\ Len(<< >>) <= Capacity /\ Len(<< >>) <= BufLen
  BY RoomAssumption, LenAssumption
<1>2. flags \in 0 .. MaxFlags /\ clean \in 0 .. 2
  BY LenAssumption DEF Init
<1>3. QED
  BY <1>1, <1>2, Zenon DEF Init, HdlcInit, TypeOK

\* What ax25_poll() does with a byte stays within ctx->buf.
LEMMA BufferKept ==
  ASSUME FifoInv, CtxInv, rx_fifo # << >>, Poll_Flag \/ Poll_Control \/ Poll_Data, pc' = pc
  PROVE  CtxInv'
<1> USE DEF CtxInv
<1>1. CASE Poll_Flag
  <2>1. buf' = << >> /\ sync' = TRUE /\ escape' = escape
    BY <1>1 DEF Poll_Flag
  <2>2. delivered' \in Seq(Valid)
    BY <1>1 DEF Poll_Flag
  <2>3. QED
    BY <2>1, <2>2, LenAssumption
<1>2. CASE Poll_Control
  <2>1. sync' \in BOOLEAN /\ escape' \in BOOLEAN
    BY <1>2, Zenon DEF Poll_Control
  <2>2. QED
    BY <1>2, <2>1 DEF Poll_Control
<1>3. CASE Poll_Data
  <2>1. sync' \in BOOLEAN /\ escape' \in BOOLEAN
    BY <1>3, Zenon DEF Poll_Data
  <2>2. buf' \in Seq(Bytes) /\ Len(buf') <= BufLen
    <3>1. Head(rx_fifo) \in Bytes
      BY DEF FifoInv
    <3>2. CASE sync /\ Len(buf) < BufLen
      BY <1>3, <3>1, <3>2, LenAssumption DEF Poll_Data
    <3>3. CASE ~(sync /\ Len(buf) < BufLen)
      BY <1>3, <3>3 DEF Poll_Data
    <3>4. QED
      BY <3>2, <3>3
  <2>3. QED
    BY <1>3, <2>1, <2>2 DEF Poll_Data
<1>4. QED
  BY <1>1, <1>2, <1>3

LEMMA NextTypes == TypeOK /\ [Next]_vars => TypeOK'
<1> SUFFICES ASSUME FifoInv, CtxInv, AirInv, [Next]_vars
             PROVE  FifoInv' /\ CtxInv' /\ AirInv'
  BY TypeParts, Zenon DEF TypeOK, FifoInv, CtxInv, AirInv
<1> USE DEF hdlcVars, ctxVars, airVars
<1>1. CASE AirFlag
  <2>1. FifoInv'
    BY <1>1, FlagFits DEF AirFlag
  <2>2. CtxInv'
    BY <1>1 DEF AirFlag, CtxInv
  <2>3. due' \in Seq(Valid)
    BY <1>1 DEF AirFlag, AirInv
  <2>4. flags' \in 0 .. MaxFlags /\ clean' \in 0 .. 2
    BY <1>1, LenAssumption DEF AirFlag, AirInv
  <2>5. QED
    BY <1>1, <2>1, <2>2, <2>3, <2>4, Zenon DEF AirFlag, AirInv
<1>2. CASE AirByte
  <2>1. Head(rest) \in Bytes /\ rest' \in Seq(Bytes)
    BY <1>2 DEF AirByte, AirInv
  <2>2. FifoInv'
    BY <1>2, <2>1, ByteFits, Zenon DEF AirByte, FifoInv
  <2>3. CtxInv'
    BY <1>2 DEF AirByte, CtxInv
  <2>4. clean' \in 0 .. 2
    BY <1>2, SMTT(30) DEF AirByte, AirInv
  <2>5. intact' \in BOOLEAN
    BY <1>2, Zenon DEF AirByte
  <2>6. QED
    BY <1>2, <2>1, <2>2, <2>3, <2>4, <2>5, Zenon DEF AirByte, AirInv
<1>3. CASE AirAbort
  <2>1. FifoInv'
    BY <1>3, Zenon DEF AirAbort, HdlcAbort, FifoInv
  <2>2. CtxInv'
    BY <1>3 DEF AirAbort, CtxInv
  <2>3. \A S : << >> \in Seq(S)
    OBVIOUS
  <2>4. QED
    BY <1>3, <2>1, <2>2, <2>3, Zenon DEF AirAbort, AirInv
<1>4. ASSUME NEW f \in AirFrames, AirStart(f)
      PROVE  FifoInv' /\ CtxInv' /\ AirInv'
  <2>1. FifoInv' /\ CtxInv'
    BY <1>4, Zenon DEF AirStart, FifoInv, CtxInv
  <2>2. started' \in Seq(AirFrames) /\ rest' \in Seq(Bytes)
    BY <1>4, ValidAssumption, SMTT(30) DEF AirStart, AirInv
  <2>3. intact' \in BOOLEAN
    BY <1>4, Zenon DEF AirStart
  <2>4. QED
    BY <1>4, <2>1, <2>2, <2>3, Zenon DEF AirStart, AirInv
<1>5. CASE Poll_Byte
  <2>1. FifoInv'
    BY <1>5, RoomAssumption DEF Poll_Byte, Read, FifoInv
  <2>2. CtxInv'
    BY <1>5, BufferKept DEF Poll_Byte, Read
  <2>3. QED
    BY <1>5, <2>1, <2>2 DEF Poll_Byte, AirInv
<1>6. CASE Poll_Eof
  BY <1>6, Zenon DEF Poll_Eof, FifoInv, CtxInv, AirInv
<1>7. CASE Poll_Error
  BY <1>7, Zenon DEF Poll_Error, FifoInv, CtxInv, AirInv
<1>8. CASE Poll_Clear
  BY <1>8, Zenon DEF Poll_Clear, ClearErr, FifoInv, CtxInv, AirInv
<1>9. CASE UNCHANGED vars
  BY <1>9, Zenon DEF vars, FifoInv, CtxInv, AirInv
<1>10. QED
  BY <1>1, <1>2, <1>3, <1>4, <1>5, <1>6, <1>7, <1>8, <1>9, Zenon DEF Next, ax25_poll

-----------------------------------------------------------------------------
(* The station.                                                            *)

LEMMA NextLinks == TypeOK /\ StreamInv /\ [Next]_vars => StreamInv'
<1> SUFFICES ASSUME TypeOK, StreamInv, [Next]_vars
             PROVE  StreamInv'
  OBVIOUS
<1>1. ASSUME UNCHANGED <<rx_fifo, rxstart, buf, sync, escape, delivered>>,
             UNCHANGED <<sending, rest, started, clean, intact, due>>
      PROVE  StreamInv'
  <2>1. PICK T, at, d : Linked(T, at, d)
    BY DEF StreamInv
  <2>2. Linked(T, at, d)'
    BY <1>1, <2>1, Zenon DEF Linked
  <2>3. QED
    BY <2>2 DEF StreamInv
<1>2. CASE Poll_Eof
  BY <1>1, <1>2 DEF Poll_Eof, hdlcVars, airVars
<1>3. CASE Poll_Error
  BY <1>1, <1>3 DEF Poll_Error, hdlcVars, airVars
<1>4. CASE Poll_Clear
  BY <1>1, <1>4 DEF Poll_Clear, ClearErr, airVars
<1>5. CASE UNCHANGED vars
  BY <1>1, <1>5, Zenon DEF vars, hdlcVars, ctxVars, airVars
<1>6. QED
  BY <1>2, <1>3, <1>4, <1>5, FlagLinks, ByteLinks, AbortLinks, StartLinks, PollLinks
     DEF Next, ax25_poll

\* The receive FIFO and ctx->buf are never written beyond their ends, and only
\* frames whose FCS is right go to the hook.
THEOREM BuffersSuffice == Spec => []TypeOK
  BY InitTypes, NextTypes, PTL DEF Spec

\* Every byte in the FIFO has its place in the frames, at all times.
LEMMA StreamKept == Spec => [](TypeOK /\ StreamInv)
<1>1. Init => TypeOK /\ StreamInv
  BY InitTypes, InitLinks
<1>2. (TypeOK /\ StreamInv) /\ [Next]_vars => (TypeOK /\ StreamInv)'
  BY NextTypes, NextLinks
<1>3. QED
  BY <1>1, <1>2, PTL DEF Spec

\* However the overruns cut what hdlc_parse() stores, ax25_poll() never takes a byte
\* of a frame for an HDLC_RESET.
THEOREM EscapesKeepTheirPlace == Spec => []NoFalseReset
<1>1. TypeOK /\ StreamInv => NoFalseReset
  <2> SUFFICES ASSUME TypeOK, StreamInv, rx_fifo # << >>, ~escape
               PROVE  Head(rx_fifo) # RESET
    BY DEF NoFalseReset
  <2>1. PICK T, at, d : Linked(T, at, d)
    BY DEF StreamInv
  <2>2. /\ 0 \in 0 .. Len(rx_fifo) /\ 1 \in 0 .. Len(rx_fifo) /\ 1 \in 1 .. Len(rx_fifo)
        /\ 1 - 1 = 0 /\ Head(rx_fifo) = rx_fifo[1]
    BY DEF TypeOK
  <2>3. /\ T[0] \in Tag /\ T[1] \in Tag /\ Placed(started, T[0]) /\ Placed(started, T[1])
        /\ Follows(started, T[0], Head(rx_fifo), T[1])
    BY <2>1, <2>2, Zenon DEF Linked, Pieces
  <2>4. T[0].h = 0
    <3>1. T[0].h # 1
      BY <2>1, Zenon DEF Linked
    <3>2. T[0].h \in 0 .. 1
      BY <2>3, Zenon DEF Tag
    <3>3. \A h \in 0 .. 1 : h # 1 => h = 0
      OBVIOUS
    <3>4. QED
      BY <3>1, <3>2, <3>3, Zenon
  <2>5. QED
    BY <2>3, <2>4, TellsApart, ZenonT(30)
<1>2. QED
  BY StreamKept, <1>1, PTL

\* However the overruns cut the frames, what ax25_poll() hands to the hook are frames
\* that were sent, in their order, none of them twice.
THEOREM NoFrameRepeated == Spec => []NoFrameTwice
<1>1. TypeOK /\ StreamInv => NoFrameTwice
  <2> SUFFICES ASSUME TypeOK, StreamInv
               PROVE  SomeOf(delivered, started)
    BY DEF NoFrameTwice
  <2>1. PICK T, at, d : Linked(T, at, d)
    BY DEF StreamInv
  <2>2. DOMAIN delivered = 1 .. Len(delivered) /\ DOMAIN started = 1 .. Len(started)
    BY DEF TypeOK
  <2>3. QED
    BY <2>1, <2>2, Zenon DEF Linked, TakenFrom, SomeOf
<1>2. QED
  BY StreamKept, <1>1, PTL

\* A frame that follows two stored flags and meets no overrun has been delivered once
\* ax25_poll() has emptied the FIFO.
THEOREM ResynchronisedAlways == Spec => []Resynchronised
<1>1. TypeOK /\ StreamInv => Resynchronised
  <2> SUFFICES ASSUME TypeOK, StreamInv, rx_fifo = << >>
               PROVE  SomeOf(due, delivered)
    BY DEF Resynchronised
  <2>1. PICK T, at, d : Linked(T, at, d)
    BY DEF StreamInv
  <2>2. /\ DOMAIN delivered = 1 .. Len(delivered) /\ DOMAIN due = 1 .. Len(due)
        /\ Len(rx_fifo) = 0 /\ Len(delivered) \in Nat /\ Len(due) \in Nat
    BY DEF TypeOK
  <2>3. TakenFrom(delivered, started, at) /\ TakenFrom(due, started, d)
    BY <2>1, Zenon DEF Linked, Owed
  <2>4. /\ DOMAIN at = 1 .. Len(delivered)
        /\ (\A i \in 1 .. Len(delivered) : at[i] \in Nat) /\ (\A i \in 1 .. Len(due) : d[i] \in Nat)
    <3>1. \A k \in 1 .. Len(started) : k \in Nat
      OBVIOUS
    <3>2. /\ at \in [1 .. Len(delivered) -> 1 .. Len(started)]
          /\ d \in [1 .. Len(due) -> 1 .. Len(started)]
      BY <2>3, Zenon DEF TakenFrom
    <3>3. QED
      BY <3>1, <3>2, Zenon
  <2>5. \A i \in 1 .. Len(due) : \E m \in 1 .. Len(delivered) : at[m] = d[i]
    <3>1. Owed(started, T, 0, at, due, d, sending)
      BY <2>1, <2>2, Zenon DEF Linked
    <3>2. QED
      BY <2>4, <3>1 DEF Owed
  <2> DEFINE g == [i \in 1 .. Len(due) |-> CHOOSE m \in 1 .. Len(delivered) : at[m] = d[i]]
  <2>6. \A i \in 1 .. Len(due) : g[i] \in 1 .. Len(delivered) /\ at[g[i]] = d[i]
    BY <2>5
  <2>7. g \in [1 .. Len(due) -> 1 .. Len(delivered)]
    BY <2>6
  <2> HIDE DEF g
  <2>8. ASSUME NEW i \in 1 .. Len(due), NEW j \in 1 .. Len(due), i < j
        PROVE  g[i] < g[j]
    <3>1. d[i] < d[j] /\ d[i] \in Nat /\ d[j] \in Nat
      BY <2>3, <2>4, <2>8 DEF TakenFrom
    <3>2. \A m, k \in 1 .. Len(delivered) : m < k => at[m] < at[k]
      BY <2>3, Zenon DEF TakenFrom
    <3>3. g[i] # g[j] /\ ~(g[j] < g[i])
      BY <2>6, <3>1, <3>2, SMTT(30)
    <3>4. QED
      BY <2>6, <3>3
  <2>9. ASSUME NEW i \in 1 .. Len(due)
        PROVE  due[i] = delivered[g[i]]
    BY <2>3, <2>6, ZenonT(30) DEF TakenFrom
  <2>10. QED
    BY <2>2, <2>7, <2>8, <2>9, Zenon DEF SomeOf
<1>2. QED
  BY StreamKept, <1>1, PTL
=============================================================================
