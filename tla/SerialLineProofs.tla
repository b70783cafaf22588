-------------------------- MODULE SerialLineProofs --------------------------
(***************************************************************************)
(* What a reader of the serial line knows of the bytes that it has read    *)
(* and of those on the way: lemmas for SerialReaderProofs.  They are about *)
(* the operators below, on any state of the line, whose parts are their    *)
(* arguments.                                                              *)
(*                                                                         *)
(* Each byte that is still to be read is at a place in what was sent, and  *)
(* the places go on from one to the next; a byte is lost only up to the    *)
(* end of an item, or the port has an error.  So what is in the buffer is  *)
(* always the beginning of the item that goes on with the first byte to be *)
(* read, if it was read from its beginning (Exact for frames, LineExact    *)
(* for lines); if it was not, because the mode was switched or the other   *)
(* end paused, the reader is in step again with the next end of an item.   *)
(* Read says so for each mode, and the lemmas about Read that each step of *)
(* the line and of the reader keeps it.                                    *)
(***************************************************************************)
EXTENDS SerialLine, WellFoundedInduction, TLAPS

-----------------------------------------------------------------------------
(* Where a byte on the line comes from.                                      *)

\* Byte j of item k of what was sent: the FEND before a frame or the one behind it, a
\* byte of its own or one of the two halves of an escape; or a character of a line.
Places == [k : Nat, j : Nat, h : {"open", "byte", "esc", "half", "close", "char"}]

Half(c) == IF c = FEND THEN TFEND ELSE TFESC

ByteAt(s, p) ==
  IF p.h \in {"open", "close"} THEN FEND
  ELSE IF p.h = "esc" THEN FESC
  ELSE IF p.h = "half" THEN Half(s[p.k][p.j]) ELSE s[p.k][p.j]

\* The items that were sent are lines and frames.
LineItem(x) ==
  /\ Len(x) >= 1 /\ x[Len(x)] = CR
  /\ \A j \in 1 .. Len(x) : x[j] \in Byte \ {FEND, FESC} /\ (x[j] = CR => j = Len(x))

ItemsOK(s, K) ==
  /\ s \in Seq(Seq(Byte))
  /\ K \in [1 .. Len(s) -> {"line", "frame"}]
  /\ \A k \in 1 .. Len(s) : /\ K[k] = "frame" => Len(s[k]) < LenMod
                            /\ K[k] = "line" => LineItem(s[k])

PlaceOK(s, K, p) ==
  /\ p \in Places /\ p.k \in 1 .. Len(s) /\ p.j \in 0 .. Len(s[p.k]) + 1
  /\ p.h = "char" <=> K[p.k] = "line"
  /\ p.h = "open" <=> p.j = 0
  /\ p.h = "close" <=> p.j = Len(s[p.k]) + 1
  /\ p.h = "byte" => s[p.k][p.j] \notin {FEND, FESC}
  /\ p.h \in {"esc", "half"} => s[p.k][p.j] \in {FEND, FESC}

Starts(p) == p.h = "open" \/ (p.h = "char" /\ p.j = 1)

Ends(s, p) == p.h = "close" \/ (p.h = "char" /\ p.j = Len(s[p.k]))

Inner(p, q) ==
  /\ q.k = p.k
  /\ IF p.h = "esc" THEN q.j = p.j /\ q.h = "half" ELSE q.j = p.j + 1 /\ q.h # "half"

\* The byte that comes after the one at p is at q.
Follows(s, p, q) ==
  IF Ends(s, p) THEN Starts(q) /\ p.k < q.k ELSE Inner(p, q)

\* Each byte of w has its place.
Chain(s, K, w, T) ==
  /\ w \in Seq(Byte) /\ T \in [1 .. Len(w) -> Places]
  /\ \A m \in 1 .. Len(w) : PlaceOK(s, K, T[m]) /\ w[m] = ByteAt(s, T[m])
  /\ \A m \in 1 .. Len(w) - 1 : Follows(s, T[m], T[m + 1])

Closed(K, n, T) ==
  \A m \in 1 .. n : K[T[m].k] = "frame" => \E i \in m .. n : T[i].h = "close"

Rising(n, T) == \A m, i \in 1 .. n : m <= i => T[m].k <= T[i].k

\* What is still to be read, up to the end of an item.
Wire(s, K, u, T) ==
  /\ Chain(s, K, u, T)
  /\ Closed(K, Len(u), T)
  /\ Rising(Len(u), T)
  /\ u # << >> => Ends(s, T[Len(u)])

-----------------------------------------------------------------------------
(* Ends of a sequence of bytes.                                              *)

Suffix(v, u) == \E d \in 0 .. Len(u) : v = SubSeq(u, d + 1, Len(u))

LEMMA SuffixOf ==
  ASSUME NEW f \in Seq(Byte), NEW t \in Seq(Byte), NEW k \in 0 .. Len(t)
  PROVE  Suffix(SubSeq(t, k + 1, Len(t)), f \o t)
<1>1. PICK u : u = f \o t
  BY Zenon
<1>2. u \in Seq(Byte) /\ Len(u) = Len(f) + Len(t)
      /\ \A i \in 1 .. Len(t) : u[Len(f) + i] = t[i]
  BY <1>1
<1>3. PICK d : d = Len(f) + k
  BY Zenon
<1>4. d \in 0 .. Len(u) /\ Len(f) \in Nat /\ Len(t) \in Nat
  BY <1>2, <1>3
<1>5. SubSeq(t, k + 1, Len(t)) = SubSeq(u, d + 1, Len(u))
  <2>1. PICK x, y : x = SubSeq(t, k + 1, Len(t)) /\ y = SubSeq(u, d + 1, Len(u))
    BY Zenon
  <2>2. PICK N : N = Len(t) - k
    BY Zenon
  <2>3. x = [i \in 1 .. N |-> t[k + i]]
    BY <2>1, <2>2
  <2>4. y = [i \in 1 .. N |-> u[d + i]]
    <3>1. N = Len(u) - d
      BY <1>2, <1>3, <1>4, <2>2
    <3>2. QED
      BY <1>2, <1>4, <2>1, <3>1
  <2>5. \A i \in 1 .. N : k + i \in 1 .. Len(t) /\ Len(f) + (k + i) = d + i
    BY <1>3, <1>4, <2>2
  <2>6. \A i \in 1 .. N : t[k + i] = u[d + i]
    BY <1>2, <2>5, Zenon
  <2>7. QED
    BY <2>1, <2>3, <2>4, <2>6, Zenon
<1>6. QED
  BY <1>1, <1>4, <1>5, Zenon DEF Suffix

LEMMA SuffixAll ==
  ASSUME NEW u \in Seq(Byte), NEW d \in 0 .. Len(u)
  PROVE  Suffix(SubSeq(u, d + 1, Len(u)), u)
BY Zenon DEF Suffix

LEMMA SuffixTail ==
  ASSUME NEW f \in Seq(Byte), NEW t \in Seq(Byte), f # << >>
  PROVE  Suffix(Tail(f) \o t, f \o t)
<1>1. PICK u : u = f \o t
  BY Zenon
<1>2. u \in Seq(Byte) /\ u # << >> /\ Tail(f) \o t = Tail(u)
  BY <1>1
<1>3. Tail(u) = SubSeq(u, 1 + 1, Len(u)) /\ 1 \in 0 .. Len(u)
  BY <1>2
<1>4. QED
  BY <1>1, <1>2, <1>3, SuffixAll, Zenon

LEMMA JoinFacts ==
  ASSUME NEW f \in Seq(Byte), NEW t \in Seq(Byte)
  PROVE  /\ f \o t \in Seq(Byte) /\ Len(t) <= Len(f \o t)
         /\ f = << >> /\ t = << >> => f \o t = << >>
OBVIOUS

-----------------------------------------------------------------------------
(* The encoding of a frame.                                                  *)

\* A set of numbers that is not empty has a least element.
LEMMA LeastNat ==
  ASSUME NEW S \in SUBSET Nat, S # {}
  PROVE  \E x \in S : \A y \in S : x <= y
<1>1. PICK x \in S : \A y \in S : ~(<<y, x>> \in OpToRel(<, Nat))
  BY NatLessThanWellFounded, WFMin, Zenon
<1>2. \A y \in S : x <= y
  <2>1. SUFFICES ASSUME NEW y \in S, y < x
                 PROVE  FALSE
    OBVIOUS
  <2>2. <<y, x>> \in OpToRel(<, Nat)
    BY <2>1 DEF OpToRel
  <2>3. QED
    BY <1>1, <2>2, Zenon
<1>3. QED
  BY <1>2, Zenon

\* The loop of kiss_send(), up to byte n of the frame.
Begins(f, n, F) ==
  /\ F[0] = <<FEND>>
  /\ \A i \in 1 .. n : F[i] = F[i - 1] \o Escape(f[i])

LEMMA EscapeType ==
  ASSUME NEW c \in Byte
  PROVE  Escape(c) \in Seq(Byte)
<1>1. FESC \in Byte /\ TFEND \in Byte /\ TFESC \in Byte
  BY Zenon DEF Byte
<1>2. <<FESC, TFEND>> \in Seq(Byte) /\ <<FESC, TFESC>> \in Seq(Byte) /\ <<c>> \in Seq(Byte)
  BY <1>1
<1>3. QED
  BY <1>2, Zenon DEF Escape

\* The loop can be run to the end.
LEMMA BeginsExist ==
  ASSUME NEW f \in Seq(Byte), NEW N \in 0 .. Len(f)
  PROVE  \E F \in [0 .. N -> Seq(Byte)] : Begins(f, N, F)
<1> DEFINE Good(n) == \E F \in [0 .. n -> Seq(Byte)] : Begins(f, n, F)
           Bad == {n \in 0 .. Len(f) : ~Good(n)}
<1>1. SUFFICES ASSUME Bad # {}
               PROVE  FALSE
  BY Zenon
<1>2. PICK n \in Bad : \A y \in Bad : n <= y
  <2>1. Bad \in SUBSET Nat
    BY SMT
  <2>2. QED
    BY <1>1, <2>1, LeastNat, Zenon
<1>3. n \in 0 .. Len(f) /\ ~Good(n)
  BY <1>2, Zenon
<1>4. CASE n = 0
  <2>1. PICK F : F = [i \in 0 .. 0 |-> <<FEND>>]
    BY Zenon
  <2>2. F \in [0 .. 0 -> Seq(Byte)] /\ Begins(f, 0, F)
    BY <2>1 DEF Begins, Byte
  <2>3. QED
    BY <1>3, <1>4, <2>2, Zenon
<1>5. CASE n # 0
  <2>1. n - 1 \in 0 .. Len(f) /\ ~(n <= n - 1) /\ n \in 1 .. Len(f)
    BY <1>3, <1>5
  <2>2. Good(n - 1)
    BY <1>2, <2>1, Zenon
  <2>3. PICK F \in [0 .. n - 1 -> Seq(Byte)] : Begins(f, n - 1, F)
    BY <2>2, Zenon
  <2>4. PICK G : G = [i \in 0 .. n |-> IF i = n THEN F[n - 1] \o Escape(f[n]) ELSE F[i]]
    BY Zenon
  <2>5. Escape(f[n]) \in Seq(Byte) /\ F[n - 1] \in Seq(Byte)
    <3>1. f[n] \in Byte /\ n - 1 \in 0 .. n - 1
      BY <2>1
    <3>2. QED
      BY <2>3, <3>1, EscapeType, Zenon
  <2>6. F[n - 1] \o Escape(f[n]) \in Seq(Byte)
    BY <2>5
  <2>7. G \in [0 .. n -> Seq(Byte)]
    BY <1>3, <2>3, <2>4, <2>6
  <2>8. Begins(f, n, G)
    <3>1. G[0] = <<FEND>>
      <4>1. 0 \in 0 .. n /\ 0 # n
        BY <1>3, <1>5
      <4>2. QED
        BY <2>3, <2>4, <4>1, Zenon DEF Begins
    <3>2. ASSUME NEW i \in 1 .. n
          PROVE  G[i] = G[i - 1] \o Escape(f[i])
      <4>1. i \in 0 .. n /\ i - 1 \in 0 .. n /\ i - 1 # n
        BY <1>3, <3>2
      <4>2. G[i - 1] = F[i - 1] /\ G[i] = IF i = n THEN F[n - 1] \o Escape(f[n]) ELSE F[i]
        BY <2>4, <4>1, Zenon
      <4>3. CASE i = n
        BY <4>2, <4>3, Zenon
      <4>4. CASE i # n
        <5>1. i \in 1 .. n - 1
          BY <1>3, <3>2, <4>4
        <5>2. F[i] = F[i - 1] \o Escape(f[i])
          BY <2>3, <5>1, Zenon DEF Begins
        <5>3. QED
          BY <4>2, <4>4, <5>2, Zenon
      <4>5. QED
        BY <4>3, <4>4, Zenon
    <3>3. QED
      BY <3>1, <3>2, Zenon DEF Begins
  <2>9. QED
    BY <1>3, <2>7, <2>8, Zenon
<1>6. QED
  BY <1>4, <1>5

\* kiss_send() is what the loop makes, and a FEND.
LEMMA KissSendBegins ==
  ASSUME NEW f \in Seq(Byte)
  PROVE  \E F \in [0 .. Len(f) -> Seq(Byte)] :
           Begins(f, Len(f), F) /\ kiss_send(f) = F[Len(f)] \o <<FEND>>
<1>1. Len(f) \in 0 .. Len(f) /\ Len(f) \in Nat
  OBVIOUS
<1>2. PICK G \in [0 .. Len(f) -> Seq(Byte)] : Begins(f, Len(f), G)
  BY <1>1, BeginsExist, Zenon
<1>3. G = [i \in 0 .. Len(f) |-> IF i = 0 THEN <<FEND>> ELSE G[i - 1] \o Escape(f[i])]
  <2>1. \A i \in 0 .. Len(f) : i # 0 => i \in 1 .. Len(f)
    BY <1>1
  <2>2. \A i \in 0 .. Len(f) : G[i] = IF i = 0 THEN <<FEND>> ELSE G[i - 1] \o Escape(f[i])
    BY <1>2, <2>1, Zenon DEF Begins
  <2>3. QED
    BY <1>2, <2>2, Zenon
<1> DEFINE Eq(g) == g = [i \in 0 .. Len(f) |->
                           IF i = 0 THEN <<FEND>> ELSE g[i - 1] \o Escape(f[i])]
           H == CHOOSE g : Eq(g)
<1>4. Eq(H)
  BY <1>3, Zenon
<1>5. kiss_send(f) = H[Len(f)] \o <<FEND>>
  BY Zenon DEF kiss_send
<1>6. \A i \in 0 .. Len(f) : H[i] = G[i]
  <2> HIDE DEF H
  <2> DEFINE Diff == {i \in 0 .. Len(f) : H[i] # G[i]}
  <2>1. SUFFICES ASSUME Diff # {}
                 PROVE  FALSE
    BY Zenon
  <2>2. Diff \in SUBSET Nat
    BY SMT
  <2>3. PICK i \in Diff : \A y \in Diff : i <= y
    BY <2>1, <2>2, LeastNat, Zenon
  <2>4. i \in 0 .. Len(f) /\ H[i] # G[i]
    BY <2>3, Zenon
  <2>5. H[i] = IF i = 0 THEN <<FEND>> ELSE H[i - 1] \o Escape(f[i])
    BY <1>4, <2>4, Zenon
  <2>6. G[i] = IF i = 0 THEN <<FEND>> ELSE G[i - 1] \o Escape(f[i])
    BY <1>3, <2>4, Zenon
  <2>7. i # 0
    BY <2>4, <2>5, <2>6, Zenon
  <2>8. i - 1 \in 0 .. Len(f) /\ ~(i <= i - 1)
    BY <2>4, <2>7
  <2>9. H[i - 1] = G[i - 1]
    BY <2>3, <2>8, Zenon
  <2>10. QED
    BY <2>4, <2>5, <2>6, <2>7, <2>9, Zenon
<1>7. kiss_send(f) = G[Len(f)] \o <<FEND>>
  BY <1>1, <1>5, <1>6, Zenon
<1>8. QED
  BY <1>2, <1>7, Zenon

-----------------------------------------------------------------------------
(* Chains of places.                                                         *)

Joined(T, a, V, b) == [m \in 1 .. a + b |-> IF m <= a THEN T[m] ELSE V[m - a]]

JoinsUp(J, T, a, V, b) ==
  /\ \A m \in 1 .. a : J[m] = T[m]
  /\ \A m \in 1 .. b : J[a + m] = V[m]
  /\ \A m \in 1 .. a + b : m \in 1 .. a \/ \E i \in 1 .. b : m = a + i

LEMMA JoinedAt ==
  ASSUME NEW a \in Nat, NEW b \in Nat, NEW T, NEW V, NEW J, J = Joined(T, a, V, b)
  PROVE  JoinsUp(J, T, a, V, b)
<1>1. \A m \in 1 .. a : m \in 1 .. a + b /\ m <= a
  OBVIOUS
<1>2. \A m \in 1 .. b : a + m \in 1 .. a + b /\ ~(a + m <= a) /\ (a + m) - a = m
  OBVIOUS
<1>3. ASSUME NEW m \in 1 .. a + b
      PROVE  m \in 1 .. a \/ \E i \in 1 .. b : m = a + i
  <2>1. m \in 1 .. a \/ (m - a \in 1 .. b /\ m = a + (m - a))
    OBVIOUS
  <2>2. QED
    BY <2>1, Zenon
<1>4. \A m \in 1 .. a : J[m] = T[m]
  BY <1>1, Zenon DEF Joined
<1>5. \A m \in 1 .. b : J[a + m] = V[m]
  BY <1>2, Zenon DEF Joined
<1>6. QED
  BY <1>3, <1>4, <1>5, Zenon DEF JoinsUp

LEMMA ConcatAt ==
  ASSUME NEW w \in Seq(Byte), NEW v \in Seq(Byte)
  PROVE  /\ w \o v \in Seq(Byte) /\ Len(w \o v) = Len(w) + Len(v)
         /\ \A m \in 1 .. Len(w) : (w \o v)[m] = w[m]
         /\ \A m \in 1 .. Len(v) : (w \o v)[Len(w) + m] = v[m]
OBVIOUS

\* Two chains make one when the second goes on where the first ends.
LEMMA ChainJoins ==
  ASSUME NEW s, NEW K, NEW w, NEW T, NEW v, NEW V,
         Chain(s, K, w, T), Chain(s, K, v, V),
         w # << >> /\ v # << >> => Follows(s, T[Len(w)], V[1])
  PROVE  Chain(s, K, w \o v, Joined(T, Len(w), V, Len(v)))
<1>1. /\ w \in Seq(Byte) /\ v \in Seq(Byte) /\ Len(w) \in Nat /\ Len(v) \in Nat
      /\ T \in [1 .. Len(w) -> Places] /\ V \in [1 .. Len(v) -> Places]
  BY DEF Chain
<1>2. PICK J : J = Joined(T, Len(w), V, Len(v))
  BY Zenon
<1>3. /\ \A m \in 1 .. Len(w) : J[m] = T[m]
      /\ \A m \in 1 .. Len(v) : J[Len(w) + m] = V[m]
      /\ \A m \in 1 .. Len(w) + Len(v) :
           m \in 1 .. Len(w) \/ \E i \in 1 .. Len(v) : m = Len(w) + i
  <2>1. JoinsUp(J, T, Len(w), V, Len(v))
    BY <1>1, <1>2, JoinedAt, Zenon
  <2>2. QED
    BY <2>1, Zenon DEF JoinsUp
<1>4. PICK x : x = w \o v
  BY Zenon
<1>5. /\ x \in Seq(Byte) /\ Len(x) = Len(w) + Len(v)
      /\ \A m \in 1 .. Len(w) : x[m] = w[m]
      /\ \A m \in 1 .. Len(v) : x[Len(w) + m] = v[m]
  BY <1>1, <1>4, ConcatAt, Zenon
<1>6. \A m \in 1 .. Len(w) : J[m] \in Places /\ PlaceOK(s, K, J[m]) /\ x[m] = ByteAt(s, J[m])
  BY <1>1, <1>3, <1>5, Zenon DEF Chain
<1>7. \A m \in 1 .. Len(v) : /\ J[Len(w) + m] \in Places /\ PlaceOK(s, K, J[Len(w) + m])
                             /\ x[Len(w) + m] = ByteAt(s, J[Len(w) + m])
  BY <1>1, <1>3, <1>5, Zenon DEF Chain
<1>8. ASSUME NEW m \in 1 .. Len(x)
      PROVE  J[m] \in Places /\ PlaceOK(s, K, J[m]) /\ x[m] = ByteAt(s, J[m])
  <2>1. CASE m \in 1 .. Len(w)
    BY <1>6, <2>1, Zenon
  <2>2. CASE \E i \in 1 .. Len(v) : m = Len(w) + i
    BY <1>7, <2>2, Zenon
  <2>3. m \in 1 .. Len(w) + Len(v)
    BY <1>5, Zenon
  <2>4. QED
    BY <1>3, <2>1, <2>2, <2>3, Zenon
<1>9. J \in [1 .. Len(x) -> Places]
  BY <1>2, <1>5, <1>8, Zenon DEF Joined
<1>10. ASSUME NEW m \in 1 .. Len(x) - 1
       PROVE  Follows(s, J[m], J[m + 1])
  <2>1. m \in Int /\ m >= 1 /\ m + 1 <= Len(w) + Len(v)
    BY <1>1, <1>5, <1>10
  <2>2. CASE m + 1 <= Len(w)
    <3>1. m \in 1 .. Len(w) - 1 /\ m \in 1 .. Len(w) /\ m + 1 \in 1 .. Len(w)
      BY <1>1, <2>1, <2>2
    <3>2. QED
      BY <1>3, <3>1, Zenon DEF Chain
  <2>3. CASE m = Len(w)
    <3>1. m \in 1 .. Len(w) /\ 1 \in 1 .. Len(v) /\ w # << >> /\ v # << >>
      BY <1>1, <2>1, <2>3
    <3>2. J[m] = T[Len(w)] /\ J[m + 1] = V[1]
      BY <1>3, <2>3, <3>1, Zenon
    <3>3. QED
      BY <3>1, <3>2, Zenon
  <2>4. CASE m > Len(w)
    <3>1. PICK i : i = m - Len(w)
      BY Zenon
    <3>2. /\ i \in 1 .. Len(v) - 1 /\ i \in 1 .. Len(v) /\ i + 1 \in 1 .. Len(v)
          /\ m = Len(w) + i /\ m + 1 = Len(w) + (i + 1)
      BY <1>1, <2>1, <2>4, <3>1
    <3>3. J[m] = V[i] /\ J[m + 1] = V[i + 1]
      BY <1>3, <3>2, Zenon
    <3>4. QED
      BY <3>2, <3>3, Zenon DEF Chain
  <2>5. QED
    BY <1>1, <2>1, <2>2, <2>3, <2>4
<1>11. QED
  BY <1>2, <1>4, <1>5, <1>8, <1>9, <1>10, Zenon DEF Chain

One(q) == [m \in 1 .. 1 |-> q]

LEMMA ChainOfOne ==
  ASSUME NEW s, NEW K, NEW q, PlaceOK(s, K, q), ByteAt(s, q) \in Byte
  PROVE  /\ Chain(s, K, <<ByteAt(s, q)>>, One(q))
         /\ One(q)[1] = q /\ Len(<<ByteAt(s, q)>>) = 1
<1>1. PICK c \in Byte : c = ByteAt(s, q)
  BY Zenon
<1>2. <<c>> \in Seq(Byte) /\ Len(<<c>>) = 1 /\ <<c>>[1] = c
  OBVIOUS
<1>3. \A m \in 1 .. 1 : m = 1
  OBVIOUS
<1>4. 1 \in 1 .. 1 /\ \A m \in 1 .. 1 - 1 : FALSE
  OBVIOUS
<1>5. q \in Places
  BY Zenon DEF PlaceOK
<1>6. One(q) \in [1 .. 1 -> Places] /\ One(q)[1] = q
  BY <1>4, <1>5, Zenon DEF One
<1>7. QED
  <2>1. \A m \in 1 .. 1 : PlaceOK(s, K, One(q)[m]) /\ <<c>>[m] = ByteAt(s, One(q)[m])
    BY <1>1, <1>2, <1>3, <1>6, Zenon
  <2>2. Chain(s, K, <<c>>, One(q))
    BY <1>2, <1>4, <1>6, <2>1, Zenon DEF Chain
  <2>3. QED
    BY <1>1, <1>2, <1>6, <2>2, Zenon

\* Without its first d bytes a chain is one still.
Shifted(T, d, n) == [m \in 1 .. n - d |-> T[m + d]]

LEMMA SubSeqAt ==
  ASSUME NEW u \in Seq(Byte), NEW d \in 0 .. Len(u)
  PROVE  /\ SubSeq(u, d + 1, Len(u)) \in Seq(Byte)
         /\ Len(SubSeq(u, d + 1, Len(u))) = Len(u) - d
         /\ \A m \in 1 .. Len(u) - d : SubSeq(u, d + 1, Len(u))[m] = u[m + d]
OBVIOUS

LEMMA WireDrops ==
  ASSUME NEW s, NEW K, NEW u, NEW T, Wire(s, K, u, T), NEW d \in 0 .. Len(u)
  PROVE  Wire(s, K, SubSeq(u, d + 1, Len(u)), Shifted(T, d, Len(u)))
<1>1. /\ u \in Seq(Byte) /\ Len(u) \in Nat /\ T \in [1 .. Len(u) -> Places]
      /\ d \in Nat /\ d <= Len(u)
  BY DEF Wire, Chain
<1>2. PICK v : v = SubSeq(u, d + 1, Len(u))
  BY Zenon
<1>3. PICK V : V = Shifted(T, d, Len(u))
  BY Zenon
<1>4. /\ v \in Seq(Byte) /\ Len(v) = Len(u) - d
      /\ \A m \in 1 .. Len(v) : v[m] = u[m + d]
  BY <1>1, <1>2, SubSeqAt, Zenon
<1>5. \A m \in 1 .. Len(v) : V[m] = T[m + d]
  BY <1>3, <1>4, Zenon DEF Shifted
<1>6. \A m \in 1 .. Len(v) : m + d \in 1 .. Len(u)
  BY <1>1, <1>4
<1>7. V \in [1 .. Len(v) -> Places]
  BY <1>1, <1>3, <1>4, <1>5, <1>6, Zenon DEF Shifted
<1>8. \A m \in 1 .. Len(v) : PlaceOK(s, K, V[m]) /\ v[m] = ByteAt(s, V[m])
  BY <1>4, <1>5, <1>6, Zenon DEF Wire, Chain
<1>9. \A m \in 1 .. Len(v) - 1 : /\ m + d \in 1 .. Len(u) - 1 /\ (m + d) + 1 = (m + 1) + d
                                 /\ m \in 1 .. Len(v) /\ m + 1 \in 1 .. Len(v)
  BY <1>1, <1>4
<1>10. \A m \in 1 .. Len(v) - 1 : Follows(s, V[m], V[m + 1])
  BY <1>5, <1>9, Zenon DEF Wire, Chain
<1>11. Chain(s, K, v, V)
  BY <1>4, <1>7, <1>8, <1>10, Zenon DEF Chain
<1>12. Closed(K, Len(v), V)
  <2>1. SUFFICES ASSUME NEW m \in 1 .. Len(v), K[V[m].k] = "frame"
                 PROVE  \E i \in m .. Len(v) : V[i].h = "close"
    BY Zenon DEF Closed
  <2>2. PICK i \in m + d .. Len(u) : T[i].h = "close"
    BY <1>5, <1>6, <2>1, Zenon DEF Wire, Closed
  <2>3. i - d \in m .. Len(v) /\ i - d \in 1 .. Len(v) /\ (i - d) + d = i
    BY <1>1, <1>4, <2>1, <2>2
  <2>4. QED
    BY <1>5, <2>2, <2>3, Zenon
<1>13. Rising(Len(v), V)
  <2>1. SUFFICES ASSUME NEW m \in 1 .. Len(v), NEW i \in 1 .. Len(v), m <= i
                 PROVE  V[m].k <= V[i].k
    BY Zenon DEF Rising
  <2>2. m + d \in 1 .. Len(u) /\ i + d \in 1 .. Len(u) /\ m + d <= i + d
    BY <1>1, <1>6, <2>1
  <2>3. QED
    BY <1>5, <2>2, Zenon DEF Wire, Rising
<1>14. v # << >> => Ends(s, V[Len(v)])
  <2>1. SUFFICES ASSUME v # << >>
                 PROVE  Ends(s, V[Len(v)])
    OBVIOUS
  <2>2. Len(v) \in 1 .. Len(v) /\ Len(v) + d = Len(u) /\ u # << >>
    BY <1>1, <1>4, <2>1
  <2>3. QED
    BY <1>5, <2>2, Zenon DEF Wire
<1>15. QED
  BY <1>2, <1>3, <1>11, <1>12, <1>13, <1>14, Zenon DEF Wire

-----------------------------------------------------------------------------
(* A line and a frame on the wire.                                           *)

LEMMA PlaceHasByte ==
  ASSUME NEW s, NEW K, ItemsOK(s, K), NEW p, PlaceOK(s, K, p)
  PROVE  ByteAt(s, p) \in Byte
<1>1. FEND \in Byte /\ FESC \in Byte /\ TFEND \in Byte /\ TFESC \in Byte
  BY Zenon DEF Byte
<1>2. /\ s \in Seq(Seq(Byte)) /\ p.k \in 1 .. Len(s) /\ p.j \in 0 .. Len(s[p.k]) + 1
      /\ p.h \notin {"open", "close"} => p.j # 0 /\ p.j # Len(s[p.k]) + 1
  BY Zenon DEF ItemsOK, PlaceOK
<1>3. s[p.k] \in Seq(Byte)
  BY <1>2
<1>4. p.h \notin {"open", "close"} => p.j \in 1 .. Len(s[p.k])
  BY <1>2, <1>3
<1>5. p.h \notin {"open", "close"} => s[p.k][p.j] \in Byte
  BY <1>3, <1>4
<1>6. QED
  BY <1>1, <1>5, Zenon DEF ByteAt, Half

\* The beginning of item k.
Going(s, K, k, w, T) ==
  /\ Chain(s, K, w, T) /\ w # << >>
  /\ \A m \in 1 .. Len(w) : T[m].k = k
  /\ Starts(T[1])

GoesTo(s, K, k, v, q) == \E U : Going(s, K, k, v, U) /\ U[Len(v)] = q

LEMMA GoesOn ==
  ASSUME NEW s, NEW K, ItemsOK(s, K), NEW k, NEW w, NEW T, Going(s, K, k, w, T),
         NEW p, p = T[Len(w)], NEW q, PlaceOK(s, K, q), q.k = k, Follows(s, p, q),
         NEW c, c = ByteAt(s, q), NEW v, v = w \o <<c>>
  PROVE  GoesTo(s, K, k, v, q)
<1>1. c \in Byte
  BY PlaceHasByte, Zenon
<1>2. Chain(s, K, <<c>>, One(q)) /\ One(q)[1] = q /\ Len(<<c>>) = 1
  BY <1>1, ChainOfOne, Zenon
<1>3. w \in Seq(Byte) /\ Len(w) \in Nat /\ Len(w) >= 1
  BY DEF Going, Chain
<1>4. PICK U : U = Joined(T, Len(w), One(q), Len(<<c>>))
  BY Zenon
<1>5. Chain(s, K, w \o <<c>>, U)
  <2>1. Chain(s, K, w, T) /\ Follows(s, T[Len(w)], One(q)[1])
    BY <1>2, Zenon DEF Going
  <2>2. QED
    BY <1>2, <1>4, <2>1, ChainJoins, Zenon
<1>6. JoinsUp(U, T, Len(w), One(q), Len(<<c>>))
  <2>1. Len(<<c>>) \in Nat
    BY <1>2
  <2>2. QED
    BY <1>3, <1>4, <2>1, JoinedAt, Zenon
<1>7. Len(w \o <<c>>) = Len(w) + 1 /\ w \o <<c>> # << >>
  BY <1>1, <1>3
<1>8. U[Len(w) + 1] = q
  <2>1. 1 \in 1 .. Len(<<c>>)
    BY <1>2
  <2>2. QED
    BY <1>2, <1>6, <2>1, Zenon DEF JoinsUp
<1>9. ASSUME NEW m \in 1 .. Len(w) + 1
      PROVE  U[m].k = k
  <2>1. m \in 1 .. Len(w) \/ m = Len(w) + 1
    BY <1>3
  <2>2. CASE m \in 1 .. Len(w)
    BY <1>6, <2>2, Zenon DEF JoinsUp, Going
  <2>3. QED
    BY <1>8, <2>1, <2>2, Zenon
<1>10. Starts(U[1])
  <2>1. 1 \in 1 .. Len(w)
    BY <1>3
  <2>2. QED
    BY <1>6, <2>1, Zenon DEF JoinsUp, Going
<1>11. Going(s, K, k, w \o <<c>>, U) /\ U[Len(w \o <<c>>)] = q
  BY <1>5, <1>7, <1>8, <1>9, <1>10, Zenon DEF Going
<1>12. QED
  BY <1>11, Zenon DEF GoesTo

\* The first n bytes of frame k, whole escapes.
Partial(s, K, k, n, w, T) ==
  /\ Going(s, K, k, w, T)
  /\ T[Len(w)].j = n /\ T[Len(w)].h \notin {"esc", "close", "char"}

PlaceIn(s, K, k, p) == PlaceOK(s, K, p) /\ p.k = k

LEMMA LastPlace ==
  ASSUME NEW s, NEW K, NEW k, NEW w, NEW T, Going(s, K, k, w, T),
         NEW p, p = T[Len(w)]
  PROVE  PlaceIn(s, K, k, p)
<1>1. Len(w) \in 1 .. Len(w)
  BY DEF Going, Chain
<1>2. QED
  BY <1>1, Zenon DEF Going, Chain, PlaceIn

LEMMA PartialGrows ==
  ASSUME NEW s, NEW K, ItemsOK(s, K), NEW k \in 1 .. Len(s), K[k] = "frame",
         NEW n \in 0 .. Len(s[k]) - 1, NEW w, NEW T, Partial(s, K, k, n, w, T)
  PROVE  \E U : Partial(s, K, k, n + 1, w \o Escape(s[k][n + 1]), U)
<1>1. /\ s[k] \in Seq(Byte) /\ Len(s[k]) \in Nat /\ n + 1 \in 1 .. Len(s[k])
      /\ w \in Seq(Byte) /\ k \in Nat /\ n + 1 \in Nat
  BY DEF ItemsOK, Partial, Going, Chain
<1>2. PICK p : p = T[Len(w)]
  BY Zenon
<1>3. /\ PlaceOK(s, K, p) /\ p.k = k /\ p.j = n /\ p.h \notin {"esc", "close", "char"}
      /\ Going(s, K, k, w, T)
  <2>1. Going(s, K, k, w, T) /\ p.j = n /\ p.h \notin {"esc", "close", "char"}
    BY <1>2, Zenon DEF Partial
  <2>2. PlaceIn(s, K, k, p)
    BY <1>2, <2>1, LastPlace, Zenon
  <2>3. QED
    BY <2>1, <2>2, Zenon DEF PlaceIn
<1>4. PICK c \in Byte : c = s[k][n + 1]
  BY <1>1
<1>5. CASE c \notin {FEND, FESC}
  <2>1. PICK q : q = [k |-> k, j |-> n + 1, h |-> "byte"]
    BY Zenon
  <2>2. q \in Places /\ q.k = k /\ q.j = n + 1 /\ q.h = "byte"
    BY <1>1, <2>1 DEF Places
  <2>3. PlaceOK(s, K, q)
    BY <1>1, <1>4, <1>5, <2>2 DEF PlaceOK
  <2>4. Follows(s, p, q)
    BY <1>3, <2>2, Zenon DEF Follows, Ends, Inner
  <2>5. ByteAt(s, q) = c
    BY <1>4, <2>2, Zenon DEF ByteAt
  <2>6. PICK v : v = w \o <<c>>
    BY Zenon
  <2>10. PICK U : Going(s, K, k, v, U) /\ U[Len(v)] = q
    <3>1. GoesTo(s, K, k, v, q)
      BY <1>2, <1>3, <2>2, <2>3, <2>4, <2>5, <2>6, GoesOn, Zenon
    <3>2. QED
      BY <3>1, Zenon DEF GoesTo
  <2>7. Escape(s[k][n + 1]) = <<c>>
    BY <1>4, <1>5, Zenon DEF Escape
  <2>8. Partial(s, K, k, n + 1, v, U)
    <3>1. q.h \notin {"esc", "close", "char"}
      BY <2>2
    <3>2. QED
      BY <2>2, <2>10, <3>1, Zenon DEF Partial
  <2>9. QED
    BY <2>6, <2>7, <2>8, Zenon
<1>6. CASE c \in {FEND, FESC}
  <2>1. PICK q : q = [k |-> k, j |-> n + 1, h |-> "esc"]
    BY Zenon
  <2>2. q \in Places /\ q.k = k /\ q.j = n + 1 /\ q.h = "esc"
    BY <1>1, <2>1 DEF Places
  <2>3. PlaceOK(s, K, q)
    BY <1>1, <1>4, <1>6, <2>2 DEF PlaceOK
  <2>4. Follows(s, p, q)
    BY <1>3, <2>2, Zenon DEF Follows, Ends, Inner
  <2>5. ByteAt(s, q) = FESC
    BY <2>2, Zenon DEF ByteAt
  <2>17. PICK v : v = w \o <<FESC>>
    BY Zenon
  <2>6. PICK U : Going(s, K, k, v, U) /\ U[Len(v)] = q
    <3>1. GoesTo(s, K, k, v, q)
      BY <1>2, <1>3, <2>2, <2>3, <2>4, <2>5, <2>17, GoesOn, Zenon
    <3>2. QED
      BY <3>1, Zenon DEF GoesTo
  <2>7. PICK t : t = [k |-> k, j |-> n + 1, h |-> "half"]
    BY Zenon
  <2>8. t \in Places /\ t.k = k /\ t.j = n + 1 /\ t.h = "half"
    BY <1>1, <2>7 DEF Places
  <2>9. PlaceOK(s, K, t)
    BY <1>1, <1>4, <1>6, <2>8 DEF PlaceOK
  <2>10. Follows(s, q, t)
    BY <2>2, <2>8, Zenon DEF Follows, Ends, Inner
  <2>11. ByteAt(s, t) = Half(c)
    BY <1>4, <2>8, Zenon DEF ByteAt
  <2>18. PICK d : d = Half(c)
    BY Zenon
  <2>19. PICK x : x = v \o <<d>>
    BY Zenon
  <2>12. PICK V : Going(s, K, k, x, V) /\ V[Len(x)] = t
    <3>1. GoesTo(s, K, k, x, t)
      BY <2>6, <2>8, <2>9, <2>10, <2>11, <2>18, <2>19, GoesOn, Zenon
    <3>2. QED
      BY <3>1, Zenon DEF GoesTo
  <2>13. x = w \o <<FESC, Half(c)>>
    BY <1>1, <2>17, <2>18, <2>19, SMTT(30)
  <2>14. Escape(s[k][n + 1]) = <<FESC, Half(c)>>
    BY <1>4, <1>6, Zenon DEF Escape, Half, FEND, FESC
  <2>15. Partial(s, K, k, n + 1, x, V)
    <3>1. t.h \notin {"esc", "close", "char"}
      BY <2>8
    <3>2. QED
      BY <2>8, <2>12, <3>1, Zenon DEF Partial
  <2>16. QED
    BY <2>13, <2>14, <2>15, Zenon
<1>7. QED
  BY <1>5, <1>6, Zenon

\* All of item k.
ItemWire(s, K, k, w, T) ==
  /\ Going(s, K, k, w, T)
  /\ Ends(s, T[Len(w)])
  /\ K[k] = "frame" => T[Len(w)].h = "close"

\* kiss_send() and the escapes: each byte has its place in the frame.
LEMMA FrameWire ==
  ASSUME NEW s, NEW K, ItemsOK(s, K), NEW k \in 1 .. Len(s), K[k] = "frame"
  PROVE  \E U : ItemWire(s, K, k, kiss_send(s[k]), U)
<1>1. s[k] \in Seq(Byte) /\ Len(s[k]) \in Nat /\ k \in Nat
  BY DEF ItemsOK
<1>2. PICK f \in Seq(Byte) : f = s[k]
  BY <1>1, Zenon
<1>3. PICK F \in [0 .. Len(f) -> Seq(Byte)] :
        Begins(f, Len(f), F) /\ kiss_send(f) = F[Len(f)] \o <<FEND>>
  BY KissSendBegins, Zenon
<1> DEFINE Bad == {n \in 0 .. Len(f) : ~ \E T : Partial(s, K, k, n, F[n], T)}
<1>4. Bad = {}
  <2>1. SUFFICES ASSUME Bad # {}
                 PROVE  FALSE
    BY Zenon
  <2>2. Bad \in SUBSET Nat
    BY SMT
  <2>3. PICK n \in Bad : \A y \in Bad : n <= y
    BY <2>1, <2>2, LeastNat, Zenon
  <2>4. n \in 0 .. Len(f) /\ ~ \E T : Partial(s, K, k, n, F[n], T)
    BY <2>3, Zenon
  <2>5. CASE n = 0
    <3>1. PICK q : q = [k |-> k, j |-> 0, h |-> "open"]
      BY Zenon
    <3>2. q \in Places /\ q.k = k /\ q.j = 0 /\ q.h = "open"
      BY <1>1, <3>1 DEF Places
    <3>3. PlaceOK(s, K, q)
      BY <1>1, <3>2 DEF PlaceOK
    <3>4. ByteAt(s, q) = FEND /\ FEND \in Byte
      BY <3>2, Zenon DEF ByteAt, Byte
    <3>5. Chain(s, K, <<FEND>>, One(q)) /\ One(q)[1] = q /\ Len(<<FEND>>) = 1
      BY <3>3, <3>4, ChainOfOne, Zenon
    <3>6. <<FEND>> # << >> /\ \A m \in 1 .. 1 : m = 1
      OBVIOUS
    <3>7. Going(s, K, k, <<FEND>>, One(q))
      BY <3>2, <3>5, <3>6, Zenon DEF Going, Starts
    <3>8. q.h \notin {"esc", "close", "char"}
      BY <3>2
    <3>9. Partial(s, K, k, 0, <<FEND>>, One(q))
      BY <3>2, <3>5, <3>7, <3>8, Zenon DEF Partial
    <3>10. QED
      BY <1>3, <2>4, <2>5, <3>9, Zenon DEF Begins
  <2>6. CASE n # 0
    <3>1. PICK m : m = n - 1
      BY Zenon
    <3>2. /\ m \in 0 .. Len(f) /\ m \in 0 .. Len(f) - 1 /\ ~(n <= m)
          /\ n \in 1 .. Len(f) /\ n = m + 1 /\ n - 1 = m
      BY <2>4, <2>6, <3>1
    <3>3. PICK T : Partial(s, K, k, m, F[m], T)
      BY <2>3, <3>2, Zenon
    <3>4. \E U : Partial(s, K, k, m + 1, F[m] \o Escape(s[k][m + 1]), U)
      BY <1>2, <3>2, <3>3, PartialGrows, Zenon
    <3>5. F[n] = F[m] \o Escape(s[k][m + 1])
      BY <1>2, <1>3, <3>2, Zenon DEF Begins
    <3>6. QED
      BY <2>4, <3>2, <3>4, <3>5, Zenon
  <2>7. QED
    BY <2>5, <2>6, Zenon
<1>5. PICK n : n = Len(f)
  BY Zenon
<1>6. n \in 0 .. Len(f) /\ n \in Nat /\ n = Len(s[k])
  BY <1>1, <1>2, <1>5
<1>7. PICK T : Partial(s, K, k, n, F[n], T)
  BY <1>4, <1>6, Zenon
<1>8. PICK w : w = F[n]
  BY Zenon
<1>9. PICK p : p = T[Len(w)]
  BY Zenon
<1>10. p.k = k /\ p.j = n /\ p.h \notin {"esc", "close", "char"} /\ Going(s, K, k, w, T)
  <2>1. Going(s, K, k, w, T) /\ p.j = n /\ p.h \notin {"esc", "close", "char"}
    BY <1>7, <1>8, <1>9, Zenon DEF Partial
  <2>2. PlaceIn(s, K, k, p)
    BY <1>9, <2>1, LastPlace, Zenon
  <2>3. QED
    BY <2>1, <2>2, Zenon DEF PlaceIn
<1>11. PICK q : q = [k |-> k, j |-> n + 1, h |-> "close"]
  BY Zenon
<1>12. q \in Places /\ q.k = k /\ q.j = n + 1 /\ q.h = "close"
  BY <1>1, <1>6, <1>11 DEF Places
<1>13. PlaceOK(s, K, q)
  BY <1>1, <1>6, <1>12 DEF PlaceOK
<1>14. Follows(s, p, q) /\ ByteAt(s, q) = FEND /\ Ends(s, q)
  BY <1>10, <1>12, Zenon DEF Follows, Ends, Inner, ByteAt
<1>19. PICK v : v = w \o <<FEND>>
  BY Zenon
<1>15. PICK U : Going(s, K, k, v, U) /\ U[Len(v)] = q
  <2>1. GoesTo(s, K, k, v, q)
    BY <1>9, <1>10, <1>12, <1>13, <1>14, <1>19, GoesOn, Zenon
  <2>2. QED
    BY <2>1, Zenon DEF GoesTo
<1>16. kiss_send(s[k]) = v
  BY <1>2, <1>3, <1>5, <1>8, <1>19, Zenon
<1>17. ItemWire(s, K, k, kiss_send(s[k]), U)
  BY <1>12, <1>14, <1>15, <1>16, Zenon DEF ItemWire
<1>18. QED
  BY <1>17, Zenon

\* A line goes out as it is.
LEMMA LineWire ==
  ASSUME NEW s, NEW K, ItemsOK(s, K), NEW k \in 1 .. Len(s), K[k] = "line"
  PROVE  \E U : ItemWire(s, K, k, s[k], U)
<1>1. s[k] \in Seq(Byte) /\ Len(s[k]) \in Nat /\ k \in Nat /\ LineItem(s[k])
  BY DEF ItemsOK
<1>2. PICK x : x = s[k]
  BY Zenon
<1>3. x \in Seq(Byte) /\ Len(x) \in Nat /\ Len(x) >= 1 /\ x # << >>
  BY <1>1, <1>2 DEF LineItem
<1>4. PICK T : T = [m \in 1 .. Len(x) |-> [k |-> k, j |-> m, h |-> "char"]]
  BY Zenon
<1>5. \A m \in 1 .. Len(x) : T[m] = [k |-> k, j |-> m, h |-> "char"]
  BY <1>4, Zenon
<1>6. \A m \in 1 .. Len(x) : T[m] \in Places /\ T[m].k = k /\ T[m].j = m /\ T[m].h = "char"
  <2>1. SUFFICES ASSUME NEW m \in 1 .. Len(x)
                 PROVE  T[m] \in Places /\ T[m].k = k /\ T[m].j = m /\ T[m].h = "char"
    OBVIOUS
  <2>2. PICK q : q = [k |-> k, j |-> m, h |-> "char"]
    BY Zenon
  <2>3. q \in Places /\ q.k = k /\ q.j = m /\ q.h = "char"
    BY <1>1, <1>3, <2>2 DEF Places
  <2>4. QED
    BY <1>5, <2>2, <2>3, Zenon
<1>7. T \in [1 .. Len(x) -> Places]
  BY <1>4, <1>6, Zenon
<1>8. \A m \in 1 .. Len(x) : PlaceOK(s, K, T[m])
  BY <1>1, <1>2, <1>3, <1>6 DEF PlaceOK
<1>9. \A m \in 1 .. Len(x) : x[m] = ByteAt(s, T[m])
  BY <1>2, <1>6, Zenon DEF ByteAt
<1>10. ASSUME NEW m \in 1 .. Len(x) - 1
       PROVE  Follows(s, T[m], T[m + 1])
  <2>1. /\ m \in 1 .. Len(x) /\ m + 1 \in 1 .. Len(x) /\ m # Len(x)
    BY <1>3
  <2>2. /\ T[m].k = k /\ T[m].j = m /\ T[m].h = "char"
        /\ T[m + 1].k = k /\ T[m + 1].j = m + 1 /\ T[m + 1].h = "char"
    BY <1>6, <2>1, Zenon
  <2>3. ~Ends(s, T[m])
    BY <1>2, <2>1, <2>2, Zenon DEF Ends
  <2>4. Inner(T[m], T[m + 1])
    BY <2>2, Zenon DEF Inner
  <2>5. QED
    BY <2>3, <2>4, Zenon DEF Follows
<1>11. 1 \in 1 .. Len(x) /\ Len(x) \in 1 .. Len(x)
  BY <1>3
<1>12. Chain(s, K, x, T)
  BY <1>3, <1>7, <1>8, <1>9, <1>10, Zenon DEF Chain
<1>13. Starts(T[1]) /\ Ends(s, T[Len(x)])
  BY <1>2, <1>6, <1>11, Zenon DEF Starts, Ends
<1>14. ItemWire(s, K, k, x, T)
  BY <1>3, <1>6, <1>12, <1>13, Zenon DEF ItemWire, Going
<1>15. QED
  BY <1>2, <1>14, Zenon

\* One more item is sent.
Grown(s, K, s2, K2) ==
  /\ Len(s2) = Len(s) + 1
  /\ \A k \in 1 .. Len(s) : s2[k] = s[k] /\ K2[k] = K[k]

StaysPlaced(s, K, s2, K2, p) ==
  /\ PlaceOK(s2, K2, p) /\ ByteAt(s2, p) = ByteAt(s, p)
  /\ Ends(s2, p) <=> Ends(s, p)
  /\ \A q : Follows(s2, p, q) <=> Follows(s, p, q)

LEMMA PlaceStays ==
  ASSUME NEW s, NEW K, ItemsOK(s, K), NEW s2, NEW K2, Grown(s, K, s2, K2),
         NEW p, PlaceOK(s, K, p)
  PROVE  StaysPlaced(s, K, s2, K2, p)
<1>1. p.k \in 1 .. Len(s) /\ Len(s) \in Nat
  BY DEF PlaceOK, ItemsOK
<1>2. s2[p.k] = s[p.k] /\ K2[p.k] = K[p.k]
  BY <1>1, Zenon DEF Grown
<1>3. p.k \in 1 .. Len(s2)
  BY <1>1 DEF Grown
<1>4. PlaceOK(s2, K2, p)
  BY <1>2, <1>3, Zenon DEF PlaceOK
<1>5. ByteAt(s2, p) = ByteAt(s, p)
  BY <1>2, Zenon DEF ByteAt
<1>6. Ends(s2, p) <=> Ends(s, p)
  BY <1>2, Zenon DEF Ends
<1>7. \A q : Follows(s2, p, q) <=> Follows(s, p, q)
  BY <1>6, Zenon DEF Follows
<1>8. QED
  BY <1>4, <1>5, <1>6, <1>7, Zenon DEF StaysPlaced

LEMMA WireStays ==
  ASSUME NEW s, NEW K, ItemsOK(s, K), NEW s2, NEW K2, Grown(s, K, s2, K2),
         NEW u, NEW T, Wire(s, K, u, T)
  PROVE  Wire(s2, K2, u, T)
<1>1. u \in Seq(Byte) /\ Len(u) \in Nat /\ T \in [1 .. Len(u) -> Places]
  BY DEF Wire, Chain
<1>2. \A m \in 1 .. Len(u) : PlaceOK(s, K, T[m]) /\ u[m] = ByteAt(s, T[m])
  BY Zenon DEF Wire, Chain
<1>3. \A m \in 1 .. Len(u) : StaysPlaced(s, K, s2, K2, T[m])
  BY <1>2, PlaceStays, Zenon
<1>4. \A m \in 1 .. Len(u) : PlaceOK(s2, K2, T[m]) /\ u[m] = ByteAt(s2, T[m])
  BY <1>2, <1>3, Zenon DEF StaysPlaced
<1>5. \A m \in 1 .. Len(u) - 1 : m \in 1 .. Len(u)
  BY <1>1
<1>6. \A m \in 1 .. Len(u) - 1 : Follows(s, T[m], T[m + 1])
  BY Zenon DEF Wire, Chain
<1>7. \A m \in 1 .. Len(u) - 1 : Follows(s2, T[m], T[m + 1])
  BY <1>3, <1>5, <1>6, Zenon DEF StaysPlaced
<1>8. Chain(s2, K2, u, T)
  BY <1>1, <1>4, <1>7, Zenon DEF Chain
<1>9. \A m \in 1 .. Len(u) : K2[T[m].k] = K[T[m].k]
  BY <1>2, Zenon DEF PlaceOK, Grown
<1>10. Closed(K2, Len(u), T)
  BY <1>9, Zenon DEF Wire, Closed
<1>11. u # << >> => Ends(s2, T[Len(u)])
  <2>1. u # << >> => Len(u) \in 1 .. Len(u)
    BY <1>1
  <2>2. QED
    BY <1>3, <2>1, Zenon DEF Wire, StaysPlaced
<1>12. QED
  BY <1>8, <1>10, <1>11, Zenon DEF Wire

\* What comes behind the last item that was sent is the next item.
LEMMA WireAppends ==
  ASSUME NEW s, NEW K, ItemsOK(s, K), NEW u, NEW T, Wire(s, K, u, T),
         NEW k, k = Len(s), NEW w, NEW W, ItemWire(s, K, k, w, W),
         \A m \in 1 .. Len(u) : T[m].k < k,
         NEW J, J = Joined(T, Len(u), W, Len(w))
  PROVE  Wire(s, K, u \o w, J)
<1>1. /\ u \in Seq(Byte) /\ w \in Seq(Byte) /\ Len(u) \in Nat /\ Len(w) \in Nat /\ w # << >>
      /\ T \in [1 .. Len(u) -> Places] /\ W \in [1 .. Len(w) -> Places] /\ Len(w) >= 1
      /\ k \in Nat
  BY DEF Wire, Chain, ItemWire, Going, ItemsOK
<1>2. Chain(s, K, u, T) /\ Chain(s, K, w, W)
  BY Zenon DEF Wire, ItemWire, Going
<1>3. u # << >> => Follows(s, T[Len(u)], W[1])
  <2>1. SUFFICES ASSUME u # << >>
                 PROVE  Follows(s, T[Len(u)], W[1])
    OBVIOUS
  <2>2. Len(u) \in 1 .. Len(u) /\ 1 \in 1 .. Len(w)
    BY <1>1, <2>1
  <2>3. Ends(s, T[Len(u)]) /\ Starts(W[1]) /\ T[Len(u)].k < k /\ W[1].k = k
    BY <2>1, <2>2, Zenon DEF Wire, ItemWire, Going
  <2>4. QED
    BY <2>3, Zenon DEF Follows
<1>4. Chain(s, K, u \o w, J)
  BY <1>2, <1>3, ChainJoins, Zenon
<1>5. JoinsUp(J, T, Len(u), W, Len(w))
  BY <1>1, JoinedAt, Zenon
<1>6. Len(u \o w) = Len(u) + Len(w) /\ u \o w # << >> /\ Len(w) \in 1 .. Len(w)
  BY <1>1
<1>7. J[Len(u) + Len(w)] = W[Len(w)]
  BY <1>5, <1>6, Zenon DEF JoinsUp
<1>8. Ends(s, J[Len(u) + Len(w)])
  BY <1>7, Zenon DEF ItemWire
<1>9. /\ \A m \in 1 .. Len(u) : J[m] = T[m] /\ J[m].k < k /\ J[m].k \in Nat
      /\ \A m \in 1 .. Len(w) : J[Len(u) + m] = W[m] /\ J[Len(u) + m].k = k
  <2>1. \A m \in 1 .. Len(u) : T[m].k \in Nat
    BY <1>1 DEF Places
  <2>2. QED
    BY <1>5, <2>1, Zenon DEF JoinsUp, ItemWire, Going
<1>10. Closed(K, Len(u) + Len(w), J)
  <2>1. SUFFICES ASSUME NEW m \in 1 .. Len(u) + Len(w), K[J[m].k] = "frame"
                 PROVE  \E i \in m .. Len(u) + Len(w) : J[i].h = "close"
    BY Zenon DEF Closed
  <2>2. CASE m \in 1 .. Len(u)
    <3>1. PICK i \in m .. Len(u) : T[i].h = "close"
      BY <1>9, <2>1, <2>2, Zenon DEF Wire, Closed
    <3>2. i \in m .. Len(u) + Len(w) /\ i \in 1 .. Len(u)
      BY <1>1, <2>2, <3>1
    <3>3. QED
      BY <1>9, <3>1, <3>2, Zenon
  <2>3. CASE \E i \in 1 .. Len(w) : m = Len(u) + i
    <3>1. K[k] = "frame"
      BY <1>9, <2>1, <2>3, Zenon
    <3>2. W[Len(w)].h = "close"
      BY <3>1, Zenon DEF ItemWire
    <3>3. Len(u) + Len(w) \in m .. Len(u) + Len(w)
      BY <1>1, <2>1
    <3>4. QED
      BY <1>7, <3>2, <3>3, Zenon
  <2>4. QED
    BY <1>5, <2>1, <2>2, <2>3, Zenon DEF JoinsUp
<1>11. Rising(Len(u) + Len(w), J)
  <2>1. SUFFICES ASSUME NEW m \in 1 .. Len(u) + Len(w), NEW i \in 1 .. Len(u) + Len(w), m <= i
                 PROVE  J[m].k <= J[i].k
    BY Zenon DEF Rising
  <2>2. CASE i \in 1 .. Len(u)
    <3>1. m \in 1 .. Len(u)
      BY <1>1, <2>1, <2>2
    <3>2. QED
      BY <1>9, <2>1, <2>2, <3>1, Zenon DEF Wire, Rising
  <2>3. CASE \E n \in 1 .. Len(w) : i = Len(u) + n
    <3>1. J[i].k = k
      BY <1>9, <2>3, Zenon
    <3>2. CASE m \in 1 .. Len(u)
      <4>1. J[m].k < k /\ J[m].k \in Nat
        BY <1>9, <3>2, Zenon
      <4>2. QED
        BY <1>1, <3>1, <4>1
    <3>3. CASE \E n \in 1 .. Len(w) : m = Len(u) + n
      <4>1. J[m].k = k
        BY <1>9, <3>3, Zenon
      <4>2. QED
        BY <1>1, <3>1, <4>1
    <3>4. QED
      BY <1>5, <2>1, <3>2, <3>3, Zenon DEF JoinsUp
  <2>4. QED
    BY <1>5, <2>1, <2>2, <2>3, Zenon DEF JoinsUp
<1>12. QED
  BY <1>4, <1>6, <1>8, <1>10, <1>11, Zenon DEF Wire

-----------------------------------------------------------------------------
(* What the reader has read of an item.                                      *)

Fresh(u, T) == u = << >> \/ Starts(T[1])

\* The last byte that was read is the one at p.
Linked(s, K, u, T, p) ==
  PlaceOK(s, K, p) /\ IF u = << >> THEN Ends(s, p) ELSE Follows(s, p, T[1])

\* A byte c is read for the byte d.
LooksLike(c, d) == c = d \/ c = Last(Escape(d)) \/ d = Last(Escape(c))

\* The n bytes in b are those of x up to the j-th.
HoldsEnd(b, n, x, j) ==
  /\ n <= j
  /\ \A i \in 2 .. n : b[i - 1] = x[j - n + i]
  /\ n >= 1 => LooksLike(b[0], x[j - n + 1])

\* The bytes of the item that are in the buffer when the one at p was read.
Done(p) == IF p.h = "esc" THEN p.j - 1 ELSE p.j

\* In KISS mode at most one line is still to be read.
OneLine(n, T) ==
  \A m, i \in 1 .. n : m < i /\ T[i].h = "char" => T[m].h = "char" /\ T[m].k = T[i].k

\* What comes next is of the same line as p, if it is of a line.
SameLine(u, T, p) == u # << >> /\ T[1].h = "char" => T[1].k = p.k

KissAt(s, K, u, T, N, at, b, n, esc, p) ==
  /\ Linked(s, K, u, T, p) /\ p.h \notin {"open", "close"}
  /\ SameLine(u, T, p)
  /\ esc <=> p.h = "esc"
  /\ HoldsEnd(b, n, s[p.k], Done(p))
  /\ \A i \in 1 .. N : at[i] < p.k

\* Whatever happened: what is in the buffer is from one item.
KissMixed(s, K, u, T, N, at, b, n, esc, lt) ==
  n = 0 \/ lt \/ \E p : KissAt(s, K, u, T, N, at, b, n, esc, p)

NoChars(n, T) == \A m \in 1 .. n : T[m].h # "char"

AllChars(n, T) == \A m \in 1 .. n : T[m].h = "char"

ExactAt(s, K, u, T, b, n, esc, lt, p) ==
  /\ Linked(s, K, u, T, p) /\ p.h \in {"open", "byte", "half", "esc"}
  /\ lt => n = 0
  /\ esc <=> p.h = "esc"
  /\ n = Done(p)
  /\ \A i \in 1 .. n : b[i - 1] = s[p.k][i]

\* Without a pause or a cut: it is all of the item that was read.
KissExact(s, K, u, T, b, n, esc, lt) ==
  /\ NoChars(Len(u), T)
  /\ (n = 0 /\ Fresh(u, T)) \/ \E p : ExactAt(s, K, u, T, b, n, esc, lt, p)

LineAt(s, K, u, T, b, n, p) ==
  /\ Linked(s, K, u, T, p) /\ p.h = "char" /\ p.j < Len(s[p.k])
  /\ n = p.j % LenMod
  /\ \A i \in 1 .. n : b[i - 1] = s[p.k][p.j - n + i]

LineExact(s, K, u, T, b, n) ==
  (n = 0 /\ Fresh(u, T)) \/ \E p : LineAt(s, K, u, T, b, n, p)

-----------------------------------------------------------------------------
(* A byte is read.                                                           *)

Decoded(esc, c) ==
  IF esc /\ c = TFEND THEN FEND ELSE IF esc /\ c = TFESC THEN FESC ELSE c

Stores(b, n, c, b2) ==
  /\ b2[n] = c
  /\ \A i \in 0 .. n - 1 : b2[i] = b[i]

\* The first byte that is still to be read is the one at q, and what is behind it
\* is v.
Reads(s, K, u, T, q, v, V) ==
  /\ Wire(s, K, v, V) /\ Linked(s, K, v, V, q)
  /\ u \in Seq(Byte) /\ u # << >> /\ q = T[1] /\ Head(u) = ByteAt(s, q)
  /\ Len(u) = Len(v) + 1
  /\ \A m \in 1 .. Len(v) : m + 1 \in 1 .. Len(u) /\ V[m] = T[m + 1]

LEMMA ReadsOne ==
  ASSUME NEW s, NEW K, NEW u, NEW T, Wire(s, K, u, T), u # << >>,
         NEW q, q = T[1], NEW v, v = Tail(u), NEW V, V = Shifted(T, 1, Len(u))
  PROVE  Reads(s, K, u, T, q, v, V)
<1>1. u \in Seq(Byte) /\ Len(u) \in Nat /\ Len(u) >= 1 /\ Head(u) = u[1] /\ 1 \in 0 .. Len(u)
      /\ 1 \in 1 .. Len(u)
  BY DEF Wire, Chain
<1>2. v = SubSeq(u, 1 + 1, Len(u)) /\ Len(v) = Len(u) - 1 /\ v \in Seq(Byte)
  BY <1>1
<1>3. Wire(s, K, v, V)
  BY <1>1, <1>2, WireDrops, Zenon
<1>4. \A m \in 1 .. Len(v) : m + 1 \in 1 .. Len(u) /\ m \in 1 .. Len(u) - 1
  BY <1>1, <1>2
<1>5. \A m \in 1 .. Len(v) : V[m] = T[m + 1]
  BY <1>4, Zenon DEF Shifted
<1>6. PlaceOK(s, K, q) /\ u[1] = ByteAt(s, q)
  BY <1>1, Zenon DEF Wire, Chain
<1>7. Linked(s, K, v, V, q)
  <2>1. CASE v = << >>
    <3>1. Len(u) = 1
      BY <1>1, <1>2, <2>1
    <3>2. Ends(s, q)
      BY <3>1, Zenon DEF Wire
    <3>3. QED
      BY <1>6, <2>1, <3>2, Zenon DEF Linked
  <2>2. CASE v # << >>
    <3>1. 1 \in 1 .. Len(v) /\ 1 \in 1 .. Len(u) - 1
      BY <1>1, <1>2, <2>2
    <3>2. Follows(s, T[1], T[1 + 1])
      BY <3>1, Zenon DEF Wire, Chain
    <3>3. QED
      BY <1>5, <1>6, <2>2, <3>1, <3>2, Zenon DEF Linked
  <2>3. QED
    BY <2>1, <2>2
<1>8. Len(u) = Len(v) + 1
  BY <1>1, <1>2
<1>9. QED
  BY <1>1, <1>3, <1>4, <1>5, <1>6, <1>7, <1>8, Zenon DEF Reads

\* What may be at the place q of a byte that is neither FEND nor FESC.
LEMMA ByteOf ==
  ASSUME NEW s, NEW K, ItemsOK(s, K), NEW q, PlaceOK(s, K, q),
         ByteAt(s, q) \notin {FEND, FESC}
  PROVE  /\ q.h \in {"byte", "half", "char"} /\ q.j \in 1 .. Len(s[q.k])
         /\ q.h = "half" => s[q.k][q.j] \in {FEND, FESC} /\ ByteAt(s, q) = Half(s[q.k][q.j])
         /\ q.h # "half" => ByteAt(s, q) = s[q.k][q.j]
<1>1. q.h \in {"open", "byte", "esc", "half", "close", "char"}
  BY DEF PlaceOK, Places
<1>2. q.h \notin {"open", "close", "esc"}
  BY Zenon DEF ByteAt
<1>3. q.h \in {"byte", "half", "char"}
  BY <1>1, <1>2, Zenon
<1>4. s[q.k] \in Seq(Byte) /\ q.j \in 0 .. Len(s[q.k]) + 1 /\ q.j # 0 /\ q.j # Len(s[q.k]) + 1
  <2>1. q.k \in 1 .. Len(s) /\ s \in Seq(Seq(Byte)) /\ q.j \in 0 .. Len(s[q.k]) + 1
        /\ q.j # 0 /\ q.j # Len(s[q.k]) + 1
    BY <1>3, Zenon DEF PlaceOK, ItemsOK
  <2>2. QED
    BY <2>1
<1>5. q.j \in 1 .. Len(s[q.k])
  BY <1>4
<1>6. q.h = "half" => s[q.k][q.j] \in {FEND, FESC} /\ ByteAt(s, q) = Half(s[q.k][q.j])
  BY <1>3, Zenon DEF ByteAt, PlaceOK
<1>7. q.h # "half" => ByteAt(s, q) = s[q.k][q.j]
  BY <1>3, Zenon DEF ByteAt
<1>8. QED
  BY <1>3, <1>5, <1>6, <1>7, Zenon

LEMMA EscapeLast ==
  /\ Last(Escape(FEND)) = TFEND /\ Last(Escape(FESC)) = TFESC
  /\ Half(FEND) = TFEND /\ Half(FESC) = TFESC
  /\ Decoded(TRUE, TFEND) = FEND /\ Decoded(TRUE, TFESC) = FESC
<1>1. Escape(FEND) = <<FESC, TFEND>> /\ Escape(FESC) = <<FESC, TFESC>>
  BY Zenon DEF Escape, FEND, FESC
<1>2. Last(<<FESC, TFEND>>) = TFEND /\ Last(<<FESC, TFESC>>) = TFESC
  BY DEF Last
<1>3. Half(FEND) = TFEND /\ Half(FESC) = TFESC
  BY Zenon DEF Half, FEND, FESC
<1>4. Decoded(TRUE, TFEND) = FEND /\ Decoded(TRUE, TFESC) = FESC
  BY Zenon DEF Decoded, TFEND, TFESC
<1>5. QED
  BY <1>1, <1>2, <1>3, <1>4, Zenon

\* A byte that is stored is, whatever became of its escape, read for the one at q.
LEMMA ByteLooks ==
  ASSUME NEW s, NEW K, ItemsOK(s, K), NEW q, PlaceOK(s, K, q),
         NEW c, c = ByteAt(s, q), c \notin {FEND, FESC}, NEW esc \in BOOLEAN
  PROVE  LooksLike(Decoded(esc, c), s[q.k][q.j])
<1>1. /\ q.h \in {"byte", "half", "char"}
      /\ q.h = "half" => s[q.k][q.j] \in {FEND, FESC} /\ c = Half(s[q.k][q.j])
      /\ q.h # "half" => c = s[q.k][q.j]
  BY ByteOf, Zenon
<1>2. CASE q.h = "half"
  <2>1. CASE s[q.k][q.j] = FEND
    <3>1. c = TFEND
      BY <1>1, <1>2, <2>1, EscapeLast, Zenon
    <3>2. Decoded(esc, c) = FEND \/ Decoded(esc, c) = TFEND
      BY <3>1, Zenon DEF Decoded, TFEND, TFESC
    <3>3. QED
      BY <2>1, <3>2, EscapeLast, Zenon DEF LooksLike
  <2>2. CASE s[q.k][q.j] = FESC
    <3>1. c = TFESC
      BY <1>1, <1>2, <2>2, EscapeLast, Zenon
    <3>2. Decoded(esc, c) = FESC \/ Decoded(esc, c) = TFESC
      BY <3>1, Zenon DEF Decoded, TFEND, TFESC
    <3>3. QED
      BY <2>2, <3>2, EscapeLast, Zenon DEF LooksLike
  <2>3. QED
    BY <1>1, <1>2, <2>1, <2>2, Zenon
<1>3. CASE q.h # "half"
  <2>1. c = s[q.k][q.j]
    BY <1>1, <1>3, Zenon
  <2>2. \/ Decoded(esc, c) = c
        \/ Decoded(esc, c) = FEND /\ c = TFEND
        \/ Decoded(esc, c) = FESC /\ c = TFESC
    BY Zenon DEF Decoded
  <2>3. QED
    BY <2>1, <2>2, EscapeLast, Zenon DEF LooksLike
<1>4. QED
  BY <1>2, <1>3

\* Within an item the escape is known: the byte is stored as it was.
StoredAs(s, esc, c, p, q) ==
  Decoded(esc, c) = s[q.k][q.j] /\ q.j = Done(p) + 1 /\ Done(q) = q.j

LEMMA ByteStored ==
  ASSUME NEW s, NEW K, ItemsOK(s, K), NEW p, NEW q, PlaceOK(s, K, q),
         Inner(p, q),
         NEW c, c = ByteAt(s, q), c \notin {FEND, FESC},
         NEW esc \in BOOLEAN, esc <=> p.h = "esc"
  PROVE  StoredAs(s, esc, c, p, q)
<1>1. /\ q.h \in {"byte", "half", "char"} /\ q.j \in 1 .. Len(s[q.k])
      /\ q.h = "half" => s[q.k][q.j] \in {FEND, FESC} /\ c = Half(s[q.k][q.j])
      /\ q.h # "half" => c = s[q.k][q.j]
  BY ByteOf, Zenon
<1>2. Done(q) = q.j
  BY <1>1, Zenon DEF Done
<1>3. CASE p.h = "esc"
  <2>1. q.j = p.j /\ q.h = "half" /\ esc = TRUE /\ Done(p) = p.j - 1
    BY <1>3, Zenon DEF Inner, Done
  <2>2. Decoded(esc, c) = s[q.k][q.j]
    BY <1>1, <2>1, EscapeLast, Zenon
  <2>3. q.j = Done(p) + 1
    BY <1>1, <2>1
  <2>4. QED
    BY <1>2, <2>2, <2>3, Zenon DEF StoredAs
<1>4. CASE p.h # "esc"
  <2>1. q.j = p.j + 1 /\ q.h # "half" /\ esc = FALSE /\ Done(p) = p.j
    BY <1>4, Zenon DEF Inner, Done
  <2>2. Decoded(esc, c) = c
    BY <2>1, Zenon DEF Decoded
  <2>3. QED
    BY <1>1, <1>2, <2>1, <2>2, Zenon DEF StoredAs
<1>5. QED
  BY <1>3, <1>4

LEMMA HoldsMore ==
  ASSUME NEW b, NEW n \in Nat, NEW x, NEW j \in Nat, NEW i \in Nat, j = i + 1,
         HoldsEnd(b, n, x, i), n # 0, NEW b2, Stores(b, n, x[j], b2)
  PROVE  HoldsEnd(b2, n + 1, x, j)
<1>1. n + 1 <= j /\ 0 \in 0 .. n - 1 /\ n >= 1 /\ j - (n + 1) + 1 = i - n + 1
  BY DEF HoldsEnd
<1>2. LooksLike(b2[0], x[j - (n + 1) + 1])
  BY <1>1, Zenon DEF HoldsEnd, Stores
<1>3. ASSUME NEW m \in 2 .. n + 1
      PROVE  b2[m - 1] = x[j - (n + 1) + m]
  <2>1. CASE m = n + 1
    <3>1. m - 1 = n /\ j - (n + 1) + m = j
      BY <2>1
    <3>2. QED
      BY <3>1, Zenon DEF Stores
  <2>2. CASE m # n + 1
    <3>1. m \in 2 .. n /\ m - 1 \in 0 .. n - 1 /\ j - (n + 1) + m = i - n + m
      BY <2>2
    <3>2. QED
      BY <3>1, Zenon DEF HoldsEnd, Stores
  <2>3. QED
    BY <2>1, <2>2
<1>4. QED
  BY <1>1, <1>2, <1>3, Zenon DEF HoldsEnd

\* The counter after the sanity checks.
Sane(n, lt, len) == len = 0 \/ (len = n /\ ~lt)

\* In KISS mode the next byte is of the same item, unless it is a FEND.
LEMMA MixedInner ==
  ASSUME NEW s, NEW K, NEW u, NEW T, NEW N, NEW at, NEW b, NEW n, NEW esc,
         NEW p, KissAt(s, K, u, T, N, at, b, n, esc, p), u # << >>,
         NEW q, q = T[1], PlaceOK(s, K, q), ByteAt(s, q) # FEND
  PROVE  Inner(p, q)
<1>1. Follows(s, p, q) /\ (q.h = "char" => q.k = p.k) /\ p.k \in Nat
  <2>1. Follows(s, p, q) /\ (q.h = "char" => q.k = p.k) /\ p \in Places
    BY Zenon DEF KissAt, Linked, PlaceOK, SameLine
  <2>2. QED
    BY <2>1 DEF Places
<1>2. q.h # "open"
  BY Zenon DEF ByteAt
<1>3. CASE Ends(s, p)
  <2>1. Starts(q) /\ p.k < q.k
    BY <1>1, <1>3, Zenon DEF Follows
  <2>2. q.k = p.k
    BY <1>1, <1>2, <2>1, Zenon DEF Starts
  <2>3. QED
    BY <1>1, <2>1, <2>2
<1>4. QED
  BY <1>1, <1>3, Zenon DEF Follows

LEMMA EscapedPlace ==
  ASSUME NEW s, NEW K, ItemsOK(s, K), NEW q, PlaceOK(s, K, q), ByteAt(s, q) = FESC
  PROVE  q.h = "esc"
<1>1. q.h \notin {"open", "close"}
  BY Zenon DEF ByteAt, FEND, FESC
<1>2. q.h # "half"
  BY Zenon DEF ByteAt, Half, TFEND, TFESC, FESC
<1>3. q.h # "byte"
  BY Zenon DEF ByteAt, PlaceOK
<1>4. q.h # "char"
  <2>1. SUFFICES ASSUME q.h = "char"
                 PROVE  FALSE
    OBVIOUS
  <2>2. K[q.k] = "line" /\ q.k \in 1 .. Len(s) /\ q.j \in 0 .. Len(s[q.k]) + 1
        /\ q.j # 0 /\ q.j # Len(s[q.k]) + 1 /\ s[q.k][q.j] = FESC /\ s \in Seq(Seq(Byte))
    BY <2>1, Zenon DEF PlaceOK, ByteAt, ItemsOK
  <2>3. LineItem(s[q.k])
    BY <2>2, Zenon DEF ItemsOK
  <2>4. s[q.k] \in Seq(Byte)
    BY <2>2
  <2>5. q.j \in 1 .. Len(s[q.k])
    BY <2>2, <2>4
  <2>6. QED
    BY <2>2, <2>3, <2>5, Zenon DEF LineItem
<1>5. q.h \in {"open", "byte", "esc", "half", "close", "char"}
  BY DEF PlaceOK, Places
<1>6. QED
  BY <1>1, <1>2, <1>3, <1>4, <1>5, Zenon

LEMMA NextChar ==
  ASSUME NEW s, NEW K, NEW u, NEW T, OneLine(Len(u), T),
         NEW q, NEW v, NEW V, Reads(s, K, u, T, q, v, V)
  PROVE  SameLine(v, V, q)
<1>1. SUFFICES ASSUME v # << >>, V[1].h = "char"
               PROVE  V[1].k = q.k
  BY Zenon DEF SameLine
<1>2. v \in Seq(Byte)
  BY Zenon DEF Reads, Wire, Chain
<1>3. 1 \in 1 .. Len(v) /\ Len(v) \in Nat
  BY <1>1, <1>2
<1>4. V[1] = T[1 + 1] /\ Len(u) = Len(v) + 1 /\ q = T[1]
  BY <1>3, Zenon DEF Reads
<1>5. 1 \in 1 .. Len(u) /\ 1 + 1 \in 1 .. Len(u) /\ 1 < 1 + 1
  BY <1>3, <1>4
<1>6. T[1].k = T[1 + 1].k
  BY <1>1, <1>4, <1>5, Zenon DEF OneLine
<1>7. QED
  BY <1>4, <1>6, Zenon

LEMMA MixedByte ==
  ASSUME NEW s, NEW K, ItemsOK(s, K), NEW u, NEW T, NEW N, NEW at,
         NEW b, NEW n \in Nat, NEW esc \in BOOLEAN, NEW lt,
         KissMixed(s, K, u, T, N, at, b, n, esc, lt), OneLine(Len(u), T),
         \A m \in 1 .. Len(u) : \A i \in 1 .. N : at[i] < T[m].k,
         NEW q, NEW v, NEW V, Reads(s, K, u, T, q, v, V),
         NEW c, c = ByteAt(s, q), c \notin {FEND, FESC},
         NEW len \in 0 .. LenMod - 1, Sane(n, lt, len),
         NEW b2, Stores(b, len, Decoded(esc, c), b2),
         NEW n2, n2 = (len + 1) % LenMod
  PROVE  KissMixed(s, K, v, V, N, at, b2, n2, FALSE, FALSE)
<1>1. LenMod \in Nat \ {0}
  BY BufferAssumption, Zenon
<1>2. n2 = 0 \/ n2 = len + 1
  BY <1>1
<1>3. SUFFICES ASSUME n2 = len + 1
               PROVE  KissAt(s, K, v, V, N, at, b2, n2, FALSE, q)
  BY <1>2, Zenon DEF KissMixed
<1>4. PlaceOK(s, K, q) /\ Linked(s, K, v, V, q) /\ q = T[1] /\ u # << >>
  BY Zenon DEF Reads, Linked
<1>5. q.h \in {"byte", "half", "char"} /\ q.j \in 1 .. Len(s[q.k])
  BY <1>4, ByteOf, Zenon
<1>6. Done(q) = q.j /\ q.j \in Nat /\ q.j >= 1
  <2>1. q.j \in Nat
    BY <1>4 DEF PlaceOK, Places
  <2>2. q.j >= 1
    BY <1>5, <2>1
  <2>3. QED
    BY <1>5, <2>1, <2>2, Zenon DEF Done
<1>7. SameLine(v, V, q)
  BY NextChar, Zenon
<1>8. \A i \in 1 .. N : at[i] < q.k
  <2>1. 1 \in 1 .. Len(u)
    BY <1>4 DEF Reads
  <2>2. QED
    BY <1>4, <2>1, Zenon
<1>9. HoldsEnd(b2, n2, s[q.k], q.j)
  <2>1. CASE len = 0
    <3>1. b2[0] = Decoded(esc, c)
      BY <2>1, Zenon DEF Stores
    <3>2. LooksLike(b2[0], s[q.k][q.j])
      BY <1>4, <3>1, ByteLooks, Zenon
    <3>3. n2 = 1 /\ q.j - 1 + 1 = q.j /\ n2 <= q.j /\ \A i \in 2 .. n2 : FALSE
      BY <1>3, <1>6, <2>1
    <3>4. QED
      BY <3>2, <3>3, Zenon DEF HoldsEnd
  <2>2. CASE len # 0
    <3>1. len = n /\ n # 0 /\ ~lt
      BY <2>2, Zenon DEF Sane
    <3>2. PICK p : KissAt(s, K, u, T, N, at, b, n, esc, p)
      BY <3>1, Zenon DEF KissMixed
    <3>3. Inner(p, q)
      BY <1>4, <3>2, MixedInner, Zenon
    <3>4. q.k = p.k /\ (esc <=> p.h = "esc") /\ HoldsEnd(b, n, s[p.k], Done(p))
      BY <3>2, <3>3, Zenon DEF KissAt, Inner
    <3>5. Decoded(esc, c) = s[q.k][q.j] /\ q.j = Done(p) + 1
      <4>1. StoredAs(s, esc, c, p, q)
        BY <1>4, <3>3, <3>4, ByteStored, Zenon
      <4>2. QED
        BY <4>1, Zenon DEF StoredAs
    <3>6. p \in Places
      BY <3>2, Zenon DEF KissAt, Linked, PlaceOK
    <3>7. Done(p) \in Int
      BY <3>6 DEF Done, Places
    <3>8. Done(p) \in Nat
      BY <1>6, <3>5, <3>7
    <3>9. Stores(b, n, s[q.k][q.j], b2) /\ HoldsEnd(b, n, s[q.k], Done(p))
      BY <3>1, <3>4, <3>5, Zenon
    <3>10. HoldsEnd(b2, n + 1, s[q.k], q.j)
      BY <1>6, <3>1, <3>5, <3>8, <3>9, HoldsMore, Zenon
    <3>11. QED
      BY <1>3, <3>1, <3>10, Zenon
  <2>3. QED
    BY <2>1, <2>2
<1>10. QED
  BY <1>4, <1>5, <1>6, <1>7, <1>8, <1>9, Zenon DEF KissAt

LEMMA MixedEscape ==
  ASSUME NEW s, NEW K, NEW u, NEW T, NEW N, NEW at,
         NEW b, NEW n \in Nat, NEW esc \in BOOLEAN, NEW lt,
         KissMixed(s, K, u, T, N, at, b, n, esc, lt),
         \A m \in 1 .. Len(u) : \A i \in 1 .. N : at[i] < T[m].k, OneLine(Len(u), T),
         NEW q, NEW v, NEW V, Reads(s, K, u, T, q, v, V), ItemsOK(s, K),
         ByteAt(s, q) = FESC, NEW len, Sane(n, lt, len)
  PROVE  KissMixed(s, K, v, V, N, at, b, len, TRUE, lt)
<1>1. SUFFICES ASSUME len # 0
               PROVE  KissAt(s, K, v, V, N, at, b, len, TRUE, q)
  BY Zenon DEF KissMixed
<1>2. len = n /\ n # 0 /\ ~lt
  BY <1>1, Zenon DEF Sane
<1>3. PICK p : KissAt(s, K, u, T, N, at, b, n, esc, p)
  BY <1>2, Zenon DEF KissMixed
<1>4. PlaceOK(s, K, q) /\ Linked(s, K, v, V, q) /\ q = T[1] /\ u # << >>
  BY Zenon DEF Reads, Linked
<1>5. Inner(p, q)
  <2>1. ByteAt(s, q) # FEND
    BY Zenon DEF FEND, FESC
  <2>2. QED
    BY <1>3, <1>4, <2>1, MixedInner, Zenon
<1>6. q.h = "esc"
  BY <1>4, EscapedPlace, Zenon
<1>7. q.k = p.k /\ q.j = p.j + 1 /\ p.h # "esc" /\ p.j \in Nat
  <2>1. p \in Places
    BY <1>3, Zenon DEF KissAt, Linked, PlaceOK
  <2>2. p.j \in Nat
    BY <2>1 DEF Places
  <2>3. QED
    BY <1>5, <1>6, <2>2, Zenon DEF Inner
<1>8. Done(q) = Done(p)
  <2>1. Done(q) = q.j - 1 /\ Done(p) = p.j
    BY <1>6, <1>7, Zenon DEF Done
  <2>2. QED
    BY <1>7, <2>1
<1>9. \A i \in 1 .. N : at[i] < q.k
  BY <1>3, <1>7, Zenon DEF KissAt
<1>10. SameLine(v, V, q)
  BY <1>6, NextChar, Zenon
<1>11. HoldsEnd(b, len, s[q.k], Done(q))
  BY <1>2, <1>3, <1>7, <1>8, Zenon DEF KissAt
<1>12. QED
  BY <1>4, <1>6, <1>9, <1>10, <1>11, Zenon DEF KissAt

-----------------------------------------------------------------------------
(* A FEND is read.                                                           *)

LEMMA EndPlace ==
  ASSUME NEW s, NEW K, ItemsOK(s, K), NEW q, PlaceOK(s, K, q), ByteAt(s, q) = FEND
  PROVE  q.h \in {"open", "close"}
<1>1. q.h # "esc"
  BY Zenon DEF ByteAt, FEND, FESC
<1>2. q.h # "half"
  BY Zenon DEF ByteAt, Half, TFEND, TFESC, FEND
<1>3. q.h # "byte"
  BY Zenon DEF ByteAt, PlaceOK
<1>4. q.h # "char"
  <2>1. SUFFICES ASSUME q.h = "char"
                 PROVE  FALSE
    OBVIOUS
  <2>2. K[q.k] = "line" /\ q.k \in 1 .. Len(s) /\ q.j \in 0 .. Len(s[q.k]) + 1
        /\ q.j # 0 /\ q.j # Len(s[q.k]) + 1 /\ s[q.k][q.j] = FEND /\ s \in Seq(Seq(Byte))
    BY <2>1, Zenon DEF PlaceOK, ByteAt, ItemsOK
  <2>3. LineItem(s[q.k])
    BY <2>2, Zenon DEF ItemsOK
  <2>4. s[q.k] \in Seq(Byte)
    BY <2>2
  <2>5. q.j \in 1 .. Len(s[q.k])
    BY <2>2, <2>4
  <2>6. QED
    BY <2>2, <2>3, <2>5, Zenon DEF LineItem
<1>5. q.h \in {"open", "byte", "esc", "half", "close", "char"}
  BY DEF PlaceOK, Places
<1>6. QED
  BY <1>1, <1>2, <1>3, <1>4, <1>5, Zenon

Cell == Byte \cup {NUL}

Taken(b, n) == [i \in 1 .. n |-> b[i - 1]]

LEMMA EndsWith ==
  ASSUME NEW b, NEW n \in Nat, n >= 1, NEW x \in Seq(Byte), HoldsEnd(b, n, x, Len(x)),
         \A i \in 0 .. n - 1 : b[i] \in Cell
  PROVE  EndOf(Taken(b, n), x)
<1>1. PICK g : g = Taken(b, n)
  BY Zenon
<1>2. g \in Seq(Cell) /\ Len(g) = n /\ \A i \in 1 .. n : g[i] = b[i - 1]
  BY <1>1 DEF Taken
<1>3. PICK k : k = Len(x) - n + 1
  BY Zenon
<1>4. n <= Len(x) /\ k \in 1 .. Len(x) /\ Len(x) \in Nat /\ 1 \in 1 .. n /\ 1 - 1 = 0
  BY <1>3 DEF HoldsEnd
<1>5. LooksLike(g[1], x[k])
  BY <1>2, <1>3, <1>4, Zenon DEF HoldsEnd
<1>6. SubSeq(g, 2, n) = SubSeq(x, k + 1, Len(x))
  <2>1. \A i \in 1 .. n - 1 : g[i + 1] = x[k + i]
    <3>1. SUFFICES ASSUME NEW i \in 1 .. n - 1
                   PROVE  g[i + 1] = x[k + i]
      OBVIOUS
    <3>2. i + 1 \in 2 .. n /\ i + 1 \in 1 .. n /\ Len(x) - n + (i + 1) = k + i
      BY <1>3, <1>4
    <3>3. QED
      BY <1>2, <3>2, Zenon DEF HoldsEnd
  <2>2. /\ SubSeq(g, 2, n) = [i \in 1 .. n - 1 |-> g[i + 1]]
        /\ SubSeq(x, k + 1, Len(x)) = [i \in 1 .. n - 1 |-> x[k + i]]
    <3>1. SubSeq(g, 2, n) = [i \in 1 .. n - 1 |-> g[i + 1]]
      BY <1>2
    <3>2. SubSeq(x, k + 1, Len(x)) = [i \in 1 .. n - 1 |-> x[k + i]]
      BY <1>3, <1>4
    <3>3. QED
      BY <3>1, <3>2
  <2>3. QED
    BY <2>1, <2>2, Zenon
<1>7. EndOf(g, x)
  BY <1>2, <1>3, <1>4, <1>5, <1>6, Zenon DEF EndOf, LooksLike
<1>8. QED
  BY <1>1, <1>7, Zenon

\* Item k comes before everything that is still to be read.
Past(k, n, T) == \A m \in 1 .. n : k < T[m].k

\* A frame that is handed over, when those before it are at the items at.
HandsOver(s, g, v, V, N, at) ==
  \E k \in 1 .. Len(s) :
    EndOf(g, s[k]) /\ Past(k, Len(v), V) /\ \A i \in 1 .. N : at[i] < k

\* What comes behind the end of an item is of later ones.
LEMMA PastEnd ==
  ASSUME NEW s, NEW K, NEW v, NEW V, Wire(s, K, v, V), NEW q, Linked(s, K, v, V, q),
         Ends(s, q)
  PROVE  Past(q.k, Len(v), V)
<1>1. SUFFICES ASSUME NEW m \in 1 .. Len(v)
               PROVE  q.k < V[m].k
  BY Zenon DEF Past
<1>2. v \in Seq(Byte) /\ V \in [1 .. Len(v) -> Places]
  BY Zenon DEF Wire, Chain
<1>3. v # << >> /\ 1 \in 1 .. Len(v) /\ 1 <= m
  BY <1>1, <1>2
<1>4. q.k < V[1].k /\ V[1].k <= V[m].k
  BY <1>1, <1>3, Zenon DEF Linked, Follows, Wire, Rising
<1>5. q.k \in Nat /\ V[1].k \in Nat /\ V[m].k \in Nat
  <2>1. q \in Places /\ V[1] \in Places /\ V[m] \in Places
    BY <1>1, <1>2, <1>3, Zenon DEF Linked, PlaceOK
  <2>2. QED
    BY <2>1 DEF Places
<1>6. QED
  BY <1>4, <1>5

LEMMA MixedEnd ==
  ASSUME NEW s, NEW K, ItemsOK(s, K), NEW u, NEW T, Wire(s, K, u, T), NEW N, NEW at,
         NEW b, NEW n \in Nat, NEW lt, KissMixed(s, K, u, T, N, at, b, n, FALSE, lt),
         NEW q, NEW v, NEW V, Reads(s, K, u, T, q, v, V), ByteAt(s, q) = FEND,
         NEW len, Sane(n, lt, len), len # 0, \A i \in 0 .. n - 1 : b[i] \in Cell
  PROVE  HandsOver(s, Taken(b, len), v, V, N, at)
<1>1. len = n /\ n # 0 /\ ~lt
  BY Zenon DEF Sane
<1>2. PICK p : KissAt(s, K, u, T, N, at, b, n, FALSE, p)
  BY <1>1, Zenon DEF KissMixed
<1>3. PlaceOK(s, K, q) /\ Linked(s, K, v, V, q) /\ q = T[1] /\ u # << >> /\ Wire(s, K, v, V)
  BY Zenon DEF Reads, Linked
<1>4. /\ PlaceOK(s, K, p) /\ p.h \notin {"open", "close", "esc"} /\ Follows(s, p, q)
      /\ HoldsEnd(b, n, s[p.k], p.j) /\ \A i \in 1 .. N : at[i] < p.k
  BY <1>2, <1>3, Zenon DEF KissAt, Linked, Done
<1>5. q.h \in {"open", "close"}
  BY <1>3, EndPlace, Zenon
<1>6. /\ p.k \in 1 .. Len(s) /\ p.j \in Nat /\ p.k \in Nat /\ q.k \in Nat
      /\ s[p.k] \in Seq(Byte) /\ Len(s[p.k]) \in Nat
  <2>1. p \in Places /\ q \in Places /\ p.k \in 1 .. Len(s) /\ s \in Seq(Seq(Byte))
    BY <1>3, <1>4, Zenon DEF PlaceOK, ItemsOK
  <2>2. p.j \in Nat /\ p.k \in Nat /\ q.k \in Nat
    BY <2>1 DEF Places
  <2>3. QED
    BY <2>1, <2>2
<1>7. p.j = Len(s[p.k]) /\ Past(p.k, Len(v), V)
  <2>1. CASE Ends(s, p)
    <3>1. p.j = Len(s[p.k])
      BY <1>4, <2>1, Zenon DEF Ends
    <3>2. p.k < q.k
      BY <1>4, <2>1, Zenon DEF Follows
    <3>3. ASSUME NEW m \in 1 .. Len(v)
          PROVE  p.k < V[m].k
      <4>1. v \in Seq(Byte) /\ u \in Seq(Byte) /\ Len(u) = Len(v) + 1 /\ m + 1 \in 1 .. Len(u)
            /\ V[m] = T[m + 1] /\ T \in [1 .. Len(u) -> Places]
        BY <3>3, Zenon DEF Reads, Wire, Chain
      <4>2. 1 \in 1 .. Len(u) /\ 1 <= m + 1
        BY <3>3, <4>1
      <4>3. T[1].k <= T[m + 1].k
        BY <4>1, <4>2, Zenon DEF Wire, Rising
      <4>4. T[m + 1] \in Places
        BY <4>1, Zenon
      <4>5. T[m + 1].k \in Nat
        BY <4>4 DEF Places
      <4>6. q.k <= V[m].k /\ V[m].k \in Nat
        BY <1>3, <4>1, <4>3, <4>5, Zenon
      <4>7. QED
        BY <1>6, <3>2, <4>6
    <3>4. QED
      BY <3>1, <3>3, Zenon DEF Past
  <2>2. CASE ~Ends(s, p)
    <3>1. q.k = p.k /\ q.j = p.j + 1
      BY <1>4, <2>2, Zenon DEF Follows, Inner
    <3>2. q.j # 0
      BY <1>6, <3>1
    <3>3. q.h = "close" /\ q.j = Len(s[p.k]) + 1
      BY <1>3, <1>5, <3>1, <3>2, Zenon DEF PlaceOK
    <3>4. p.j = Len(s[p.k])
      BY <1>6, <3>1, <3>3
    <3>5. Ends(s, q)
      BY <3>3, Zenon DEF Ends
    <3>6. Past(q.k, Len(v), V)
      BY <1>3, <3>5, PastEnd, Zenon
    <3>7. QED
      BY <3>1, <3>4, <3>6, Zenon
  <2>3. QED
    BY <2>1, <2>2
<1>8. EndOf(Taken(b, n), s[p.k])
  <2>1. n >= 1 /\ HoldsEnd(b, n, s[p.k], Len(s[p.k]))
    <3>1. n >= 1
      BY <1>1
    <3>2. QED
      BY <1>4, <1>7, <3>1, Zenon
  <2>2. QED
    BY <1>6, <2>1, EndsWith, Zenon
<1>9. QED
  BY <1>1, <1>4, <1>6, <1>7, <1>8, Zenon DEF HandsOver

-----------------------------------------------------------------------------
(* Frames that are read from their beginning.                                *)

SaneOf(n, lt) ==
  LET len == IF n # 0 /\ lt THEN 0 ELSE n
  IN  IF len >= BufLen - 2 THEN 0 ELSE len

LEMMA SaneOfSane ==
  ASSUME NEW n \in 0 .. LenMod - 1, NEW lt
  PROVE  Sane(n, lt, SaneOf(n, lt)) /\ SaneOf(n, lt) \in 0 .. LenMod - 1
<1>1. LenMod \in Nat \ {0}
  BY BufferAssumption, Zenon
<1>2. 0 \in 0 .. LenMod - 1
  BY <1>1
<1>3. QED
  BY <1>2, Zenon DEF Sane, SaneOf

\* A frame that was sent fits.
Fits(s, q, n, lt) == (n + 1) % LenMod = n + 1 /\ SaneOf(n, lt) = n

LEMMA FrameFits ==
  ASSUME NEW s, NEW K, ItemsOK(s, K), NEW q, PlaceOK(s, K, q), q.h # "char",
         NEW n \in Nat, NEW lt, lt => n = 0, n + 1 <= Len(s[q.k])
  PROVE  Fits(s, q, n, lt)
<1>1. q.k \in 1 .. Len(s) /\ K[q.k] \in {"line", "frame"} /\ K[q.k] # "line" /\ s \in Seq(Seq(Byte))
  BY Zenon DEF ItemsOK, PlaceOK
<1>2. Len(s[q.k]) < LenMod
  BY <1>1, Zenon DEF ItemsOK
<1>3. Len(s[q.k]) \in Nat
  BY <1>1
<1>4. LenMod \in Nat \ {0} /\ BufLen \in Nat /\ LenMod < BufLen
  BY BufferAssumption, FramesAssumption, Zenon
<1>5. n + 1 \in Nat /\ n + 1 < LenMod /\ ~(n >= BufLen - 2)
  BY <1>2, <1>3, <1>4
<1>6. (n + 1) % LenMod = n + 1
  BY <1>4, <1>5, Z3
<1>7. SaneOf(n, lt) = n
  BY <1>5, Zenon DEF SaneOf
<1>8. QED
  BY <1>6, <1>7, Zenon DEF Fits

NoCharsNext(u, T, q, v, V) == q.h # "char" /\ NoChars(Len(v), V)

LEMMA NoCharsBehind ==
  ASSUME NEW s, NEW K, NEW u, NEW T, NoChars(Len(u), T),
         NEW q, NEW v, NEW V, Reads(s, K, u, T, q, v, V)
  PROVE  NoCharsNext(u, T, q, v, V)
<1>1. 1 \in 1 .. Len(u) /\ q = T[1]
  BY DEF Reads
<1>2. \A m \in 1 .. Len(v) : m + 1 \in 1 .. Len(u) /\ V[m] = T[m + 1]
  BY Zenon DEF Reads
<1>3. QED
  BY <1>1, <1>2, Zenon DEF NoChars, NoCharsNext

\* Up to a FEND each byte is of the frame that the last one is of.
LEMMA ExactInner ==
  ASSUME NEW s, NEW K, NEW u, NEW T, NEW b, NEW n, NEW esc, NEW lt,
         KissExact(s, K, u, T, b, n, esc, lt),
         NEW q, NEW v, NEW V, Reads(s, K, u, T, q, v, V), n # 0 \/ ByteAt(s, q) # FEND
  PROVE  \E p : ExactAt(s, K, u, T, b, n, esc, lt, p) /\ Inner(p, q)
<1>1. q.h # "char"
  <2>1. NoCharsNext(u, T, q, v, V)
    BY NoCharsBehind, Zenon DEF KissExact
  <2>2. QED
    BY <2>1, Zenon DEF NoCharsNext
<1>2. u # << >> /\ q = T[1]
  BY Zenon DEF Reads
<1>3. ~(n = 0 /\ Fresh(u, T))
  BY <1>1, <1>2, Zenon DEF Fresh, Starts, ByteAt
<1>4. PICK p : ExactAt(s, K, u, T, b, n, esc, lt, p)
  BY <1>3, Zenon DEF KissExact
<1>5. Inner(p, q)
  BY <1>2, <1>4, Zenon DEF ExactAt, Linked, Follows, Ends
<1>6. QED
  BY <1>4, <1>5, Zenon

LEMMA ExactByte ==
  ASSUME NEW s, NEW K, ItemsOK(s, K), NEW u, NEW T,
         NEW b, NEW n \in Nat, NEW esc \in BOOLEAN, NEW lt,
         KissExact(s, K, u, T, b, n, esc, lt),
         NEW q, NEW v, NEW V, Reads(s, K, u, T, q, v, V),
         NEW c, c = ByteAt(s, q), c \notin {FEND, FESC},
         NEW len, len = SaneOf(n, lt),
         NEW b2, Stores(b, len, Decoded(esc, c), b2),
         NEW n2, n2 = (len + 1) % LenMod
  PROVE  KissExact(s, K, v, V, b2, n2, FALSE, FALSE)
<1>1. PICK p : ExactAt(s, K, u, T, b, n, esc, lt, p) /\ Inner(p, q)
  <2>1. ByteAt(s, q) # FEND
    BY Zenon
  <2>2. QED
    BY <2>1, ExactInner, Zenon
<1>2. PlaceOK(s, K, q) /\ Linked(s, K, v, V, q)
  BY Zenon DEF Reads, Linked
<1>3. NoCharsNext(u, T, q, v, V)
  BY NoCharsBehind, Zenon DEF KissExact
<1>4. /\ (esc <=> p.h = "esc") /\ n = Done(p) /\ (lt => n = 0)
      /\ \A i \in 1 .. n : b[i - 1] = s[p.k][i]
  BY <1>1, Zenon DEF ExactAt
<1>5. Decoded(esc, c) = s[q.k][q.j] /\ q.j = n + 1 /\ Done(q) = q.j
  <2>1. StoredAs(s, esc, c, p, q)
    BY <1>1, <1>2, <1>4, ByteStored, Zenon
  <2>2. QED
    BY <1>4, <2>1, Zenon DEF StoredAs
<1>6. q.h \in {"byte", "half", "char"} /\ q.j \in 1 .. Len(s[q.k])
  BY <1>2, ByteOf, Zenon
<1>7. n + 1 <= Len(s[q.k])
  BY <1>5, <1>6
<1>8. n2 = n + 1 /\ len = n
  <2>1. Fits(s, q, n, lt)
    BY <1>2, <1>3, <1>4, <1>7, FrameFits, Zenon DEF NoCharsNext
  <2>2. QED
    BY <2>1, Zenon DEF Fits
<1>9. ASSUME NEW i \in 1 .. n2
      PROVE  b2[i - 1] = s[q.k][i]
  <2>1. CASE i = n + 1
    <3>1. i - 1 = n
      BY <2>1
    <3>2. QED
      BY <1>5, <1>8, <2>1, <3>1, Zenon DEF Stores
  <2>2. CASE i # n + 1
    <3>1. i \in 1 .. n /\ i - 1 \in 0 .. n - 1
      BY <1>8, <1>9, <2>2
    <3>2. q.k = p.k
      BY <1>1, Zenon DEF Inner
    <3>3. QED
      BY <1>4, <1>8, <3>1, <3>2, Zenon DEF Stores
  <2>3. QED
    BY <2>1, <2>2
<1>10. ExactAt(s, K, v, V, b2, n2, FALSE, FALSE, q)
  BY <1>2, <1>3, <1>5, <1>6, <1>8, <1>9, Zenon DEF ExactAt, NoCharsNext
<1>11. QED
  BY <1>3, <1>10, Zenon DEF KissExact, NoCharsNext

LEMMA ExactEscape ==
  ASSUME NEW s, NEW K, ItemsOK(s, K), NEW u, NEW T,
         NEW b, NEW n \in Nat, NEW esc \in BOOLEAN, NEW lt,
         KissExact(s, K, u, T, b, n, esc, lt),
         NEW q, NEW v, NEW V, Reads(s, K, u, T, q, v, V), ByteAt(s, q) = FESC,
         NEW len, len = SaneOf(n, lt)
  PROVE  KissExact(s, K, v, V, b, len, TRUE, lt)
<1>1. PICK p : ExactAt(s, K, u, T, b, n, esc, lt, p) /\ Inner(p, q)
  <2>1. ByteAt(s, q) # FEND
    BY Zenon DEF FEND, FESC
  <2>2. QED
    BY <2>1, ExactInner, Zenon
<1>2. PlaceOK(s, K, q) /\ Linked(s, K, v, V, q)
  BY Zenon DEF Reads, Linked
<1>3. NoCharsNext(u, T, q, v, V)
  BY NoCharsBehind, Zenon DEF KissExact
<1>4. /\ (esc <=> p.h = "esc") /\ n = Done(p) /\ (lt => n = 0)
      /\ \A i \in 1 .. n : b[i - 1] = s[p.k][i]
  BY <1>1, Zenon DEF ExactAt
<1>5. q.h = "esc"
  BY <1>2, EscapedPlace, Zenon
<1>6. q.k = p.k /\ q.j = n + 1 /\ p.h # "esc"
  BY <1>1, <1>4, <1>5, Zenon DEF Inner, Done
<1>7. Done(q) = n
  <2>1. Done(q) = q.j - 1
    BY <1>5, Zenon DEF Done
  <2>2. QED
    BY <1>6, <2>1
<1>8. n + 1 <= Len(s[q.k])
  <2>1. q.j \in 0 .. Len(s[q.k]) + 1 /\ q.j # Len(s[q.k]) + 1 /\ q.k \in 1 .. Len(s)
    BY <1>2, <1>5, Zenon DEF PlaceOK
  <2>2. Len(s[q.k]) \in Nat
    BY <2>1 DEF ItemsOK
  <2>3. QED
    BY <1>6, <2>1, <2>2
<1>9. len = n
  <2>1. Fits(s, q, n, lt)
    BY <1>2, <1>3, <1>4, <1>8, FrameFits, Zenon DEF NoCharsNext
  <2>2. QED
    BY <2>1, Zenon DEF Fits
<1>10. ExactAt(s, K, v, V, b, len, TRUE, lt, q)
  BY <1>2, <1>4, <1>5, <1>6, <1>7, <1>9, Zenon DEF ExactAt
<1>11. QED
  BY <1>3, <1>10, Zenon DEF KissExact, NoCharsNext

\* Behind a FEND in KISS mode there are frames only, and the next one is read from
\* its beginning.
LEMMA ExactEnd ==
  ASSUME NEW s, NEW K, ItemsOK(s, K), NEW u, NEW T, OneLine(Len(u), T),
         NEW q, NEW v, NEW V, Reads(s, K, u, T, q, v, V), ByteAt(s, q) = FEND,
         NEW b, NEW lt
  PROVE  KissExact(s, K, v, V, b, 0, FALSE, lt)
<1>1. PlaceOK(s, K, q) /\ Linked(s, K, v, V, q)
  BY Zenon DEF Reads, Linked
<1>2. q.h \in {"open", "close"}
  BY <1>1, EndPlace, Zenon
<1>3. NoChars(Len(v), V)
  <2>1. SUFFICES ASSUME NEW m \in 1 .. Len(v), V[m].h = "char"
                 PROVE  FALSE
    BY Zenon DEF NoChars
  <2>2. /\ m + 1 \in 1 .. Len(u) /\ V[m] = T[m + 1] /\ q = T[1]
        /\ v \in Seq(Byte) /\ Len(u) = Len(v) + 1
    BY <2>1, Zenon DEF Reads, Wire, Chain
  <2>3. 1 \in 1 .. Len(u) /\ 1 < m + 1
    BY <2>1, <2>2
  <2>4. T[1].h = "char"
    BY <2>1, <2>2, <2>3, Zenon DEF OneLine
  <2>5. QED
    BY <1>2, <2>2, <2>4, Zenon
<1>4. CASE q.h = "close"
  <2>1. Fresh(v, V)
    BY <1>1, <1>4, Zenon DEF Linked, Ends, Follows, Fresh
  <2>2. QED
    BY <1>3, <2>1, Zenon DEF KissExact
<1>5. CASE q.h = "open"
  <2>1. Done(q) = 0
    BY <1>1, <1>5, Zenon DEF Done, PlaceOK
  <2>2. \A i \in 1 .. 0 : FALSE
    OBVIOUS
  <2>3. ExactAt(s, K, v, V, b, 0, FALSE, lt, q)
    BY <1>1, <1>5, <2>1, <2>2, Zenon DEF ExactAt
  <2>4. QED
    BY <1>3, <2>3, Zenon DEF KissExact
<1>6. QED
  BY <1>2, <1>4, <1>5, Zenon

WholeFrame(s, g) == \E k \in 1 .. Len(s) : g = s[k]

\* A frame that is handed over then is all of the one that was sent.
LEMMA ExactWhole ==
  ASSUME NEW s, NEW K, ItemsOK(s, K), NEW u, NEW T,
         NEW b, NEW n \in Nat, NEW lt, KissExact(s, K, u, T, b, n, FALSE, lt),
         NEW q, NEW v, NEW V, Reads(s, K, u, T, q, v, V), ByteAt(s, q) = FEND,
         NEW len, len = SaneOf(n, lt), len # 0
  PROVE  WholeFrame(s, Taken(b, len))
<1>1. len = n /\ n # 0
  BY Zenon DEF SaneOf
<1>2. PICK p : ExactAt(s, K, u, T, b, n, FALSE, lt, p) /\ Inner(p, q)
  BY <1>1, ExactInner, Zenon
<1>3. PlaceOK(s, K, q)
  BY Zenon DEF Reads, Linked
<1>4. /\ p.h # "esc" /\ n = p.j /\ \A i \in 1 .. n : b[i - 1] = s[p.k][i]
      /\ q.k = p.k /\ q.j = p.j + 1
  BY <1>2, Zenon DEF ExactAt, Done, Inner
<1>5. q.h \in {"open", "close"} /\ q.j # 0
  <2>1. q.j # 0
    BY <1>4
  <2>2. QED
    BY <1>3, <2>1, EndPlace, Zenon
<1>6. q.j = Len(s[q.k]) + 1 /\ q.k \in 1 .. Len(s)
  BY <1>3, <1>5, Zenon DEF PlaceOK
<1>7. s[q.k] \in Seq(Byte)
  BY <1>6 DEF ItemsOK
<1>8. n = Len(s[q.k])
  BY <1>4, <1>6, <1>7
<1>9. Taken(b, n) = [i \in 1 .. n |-> s[q.k][i]]
  BY <1>4, Zenon DEF Taken
<1>10. s[q.k] = [i \in 1 .. n |-> s[q.k][i]]
  BY <1>7, <1>8
<1>11. QED
  BY <1>1, <1>6, <1>9, <1>10, Zenon DEF WholeFrame

-----------------------------------------------------------------------------
(* Lines.                                                                    *)

\* A modulus of the counter.
LEMMA ModNext ==
  ASSUME NEW j \in Nat, NEW m \in Nat \ {0}
  PROVE  ((j % m) + 1) % m = (j + 1) % m
<1>1. j \div m \in Nat
  BY Z3
<1>2. j % m \in 0 .. m - 1
  BY Z3
<1>3. j = m * (j \div m) + (j % m)
  BY Z3
<1>4. PICK w \in Nat : w = j \div m
  BY <1>1
<1>5. PICK r \in 0 .. m - 1 : r = j % m
  BY <1>2
<1>6. j = m * w + r
  BY <1>3, <1>4, <1>5
<1>7. CASE r + 1 < m
  <2>1. j + 1 = m * w + (r + 1)
    BY <1>6
  <2>2. (j + 1) % m = r + 1
    BY <1>6, <1>7, <2>1, Z3
  <2>3. (r + 1) % m = r + 1
    BY <1>7, Z3
  <2>4. QED
    BY <1>5, <2>2, <2>3
<1>8. CASE r + 1 = m
  <2>1. j + 1 = m * (w + 1)
    BY <1>6, <1>8, Z3
  <2>2. (m * (w + 1)) % m = 0
    BY Z3
  <2>3. (r + 1) % m = 0
    BY <1>8, Z3
  <2>4. QED
    BY <1>5, <2>1, <2>2, <2>3
<1>9. QED
  BY <1>7, <1>8

\* The character at q of a line; those before it are in the buffer, as far as the
\* counter goes.
CharAt(s, K, b, n, q) ==
  /\ q.h = "char" /\ LineItem(s[q.k]) /\ s[q.k] \in Seq(Byte)
  /\ q.k \in 1 .. Len(s) /\ q.j \in 1 .. Len(s[q.k])
  /\ n = (q.j - 1) % LenMod
  /\ \A i \in 1 .. n : b[i - 1] = s[q.k][q.j - 1 - n + i]

LEMMA LineOf ==
  ASSUME NEW s, NEW K, ItemsOK(s, K), NEW q, PlaceOK(s, K, q), q.h = "char"
  PROVE  /\ LineItem(s[q.k]) /\ s[q.k] \in Seq(Byte)
         /\ q.k \in 1 .. Len(s) /\ q.j \in 1 .. Len(s[q.k])
<1>1. /\ K[q.k] = "line" /\ q.k \in 1 .. Len(s) /\ s \in Seq(Seq(Byte))
      /\ q.j \in 0 .. Len(s[q.k]) + 1 /\ q.j # 0 /\ q.j # Len(s[q.k]) + 1
  BY Zenon DEF PlaceOK, ItemsOK
<1>2. LineItem(s[q.k])
  BY <1>1, Zenon DEF ItemsOK
<1>3. s[q.k] \in Seq(Byte)
  BY <1>1
<1>4. q.j \in 1 .. Len(s[q.k])
  BY <1>1, <1>3
<1>5. QED
  BY <1>1, <1>2, <1>3, <1>4

LEMMA LineInner ==
  ASSUME NEW s, NEW K, ItemsOK(s, K), NEW u, NEW T, NEW b, NEW n,
         LineExact(s, K, u, T, b, n),
         NEW q, NEW v, NEW V, Reads(s, K, u, T, q, v, V), ByteAt(s, q) # FEND
  PROVE  CharAt(s, K, b, n, q)
<1>1. u # << >> /\ q = T[1] /\ PlaceOK(s, K, q)
  BY Zenon DEF Reads, Linked
<1>2. LenMod \in Nat \ {0}
  BY BufferAssumption, Zenon
<1>3. CASE n = 0 /\ Fresh(u, T)
  <2>1. q.h = "char" /\ q.j = 1
    BY <1>1, <1>3, Zenon DEF Fresh, Starts, ByteAt
  <2>2. n = (q.j - 1) % LenMod /\ \A i \in 1 .. n : FALSE
    <3>1. 0 % LenMod = 0
      BY <1>2, Z3
    <3>2. q.j - 1 = 0 /\ \A i \in 1 .. n : FALSE
      BY <1>3, <2>1
    <3>3. QED
      BY <1>3, <3>1, <3>2, Zenon
  <2>3. QED
    BY <1>1, <2>1, <2>2, LineOf, Zenon DEF CharAt
<1>4. CASE \E p : LineAt(s, K, u, T, b, n, p)
  <2>1. PICK p : LineAt(s, K, u, T, b, n, p)
    BY <1>4, Zenon
  <2>2. /\ PlaceOK(s, K, p) /\ p.h = "char" /\ p.j < Len(s[p.k]) /\ Follows(s, p, q)
        /\ n = p.j % LenMod /\ \A i \in 1 .. n : b[i - 1] = s[p.k][p.j - n + i]
    BY <1>1, <2>1, Zenon DEF LineAt, Linked
  <2>3. s[p.k] \in Seq(Byte) /\ p.j \in 1 .. Len(s[p.k]) /\ K[p.k] = "line"
    <3>1. s[p.k] \in Seq(Byte) /\ p.j \in 1 .. Len(s[p.k])
      BY <2>2, LineOf, Zenon
    <3>2. QED
      BY <2>2, <3>1, Zenon DEF PlaceOK
  <2>4. p.j # Len(s[p.k]) /\ p.j \in Nat
    BY <2>2, <2>3
  <2>5. q.k = p.k /\ q.j = p.j + 1
    BY <2>2, <2>4, Zenon DEF Follows, Ends, Inner
  <2>6. q.h = "char"
    BY <1>1, <2>3, <2>5, Zenon DEF PlaceOK
  <2>7. q.j - 1 = p.j
    BY <2>4, <2>5
  <2>8. n = (q.j - 1) % LenMod /\ \A i \in 1 .. n : b[i - 1] = s[q.k][q.j - 1 - n + i]
    BY <2>2, <2>5, <2>7, Zenon
  <2>9. QED
    BY <1>1, <2>6, <2>8, LineOf, Zenon DEF CharAt
<1>5. QED
  BY <1>3, <1>4, Zenon DEF LineExact

\* A character that is not the end of its line is stored.
LEMMA LineGoesOn ==
  ASSUME NEW s, NEW K, NEW b, NEW n, NEW q, CharAt(s, K, b, n, q),
         NEW v, NEW V, Linked(s, K, v, V, q),
         NEW c, c = ByteAt(s, q), c # CR,
         NEW b2, Stores(b, n, c, b2), NEW n2, n2 = (n + 1) % LenMod
  PROVE  LineExact(s, K, v, V, b2, n2)
<1>1. /\ q.h = "char" /\ LineItem(s[q.k]) /\ s[q.k] \in Seq(Byte)
      /\ q.k \in 1 .. Len(s) /\ q.j \in 1 .. Len(s[q.k])
      /\ n = (q.j - 1) % LenMod
      /\ \A i \in 1 .. n : b[i - 1] = s[q.k][q.j - 1 - n + i]
  BY Zenon DEF CharAt
<1>2. LenMod \in Nat \ {0} /\ q.j \in Nat /\ q.j - 1 \in Nat /\ Len(s[q.k]) \in Nat
  <2>1. q.j \in 1 .. Len(s[q.k]) /\ s[q.k] \in Seq(Byte)
    BY <1>1, Zenon
  <2>2. QED
    BY <2>1, BufferAssumption
<1>3. c = s[q.k][q.j]
  BY <1>1, Zenon DEF ByteAt
<1>4. q.j < Len(s[q.k])
  <2>1. q.j # Len(s[q.k]) /\ q.j \in 1 .. Len(s[q.k])
    BY <1>1, <1>3, Zenon DEF LineItem
  <2>2. QED
    BY <1>2, <2>1
<1>5. n \in Nat /\ n < LenMod
  <2>1. \A i \in Nat : i % LenMod \in 0 .. LenMod - 1
    BY <1>2, Z3
  <2>2. n \in 0 .. LenMod - 1
    BY <1>1, <1>2, <2>1, Zenon
  <2>3. QED
    BY <1>2, <2>2
<1>6. n2 = q.j % LenMod
  <2>1. (((q.j - 1) % LenMod) + 1) % LenMod = ((q.j - 1) + 1) % LenMod
    BY <1>2, ModNext
  <2>2. (q.j - 1) + 1 = q.j
    BY <1>2
  <2>3. QED
    BY <1>1, <2>1, <2>2, Zenon
<1>7. n2 = 0 \/ n2 = n + 1
  <2>1. n + 1 < LenMod => (n + 1) % LenMod = n + 1
    BY <1>2, <1>5, Z3
  <2>2. n + 1 = LenMod => (n + 1) % LenMod = 0
    BY <1>2, <1>5, Z3
  <2>3. QED
    BY <1>2, <1>5, <2>1, <2>2
<1>8. ASSUME NEW i \in 1 .. n2
      PROVE  b2[i - 1] = s[q.k][q.j - n2 + i]
  <2>1. n2 = n + 1
    BY <1>7, <1>8
  <2>2. CASE i = n + 1
    <3>1. i - 1 = n /\ q.j - n2 + i = q.j
      BY <1>2, <1>5, <2>1, <2>2
    <3>2. QED
      BY <1>3, <3>1, Zenon DEF Stores
  <2>3. CASE i # n + 1
    <3>1. i \in 1 .. n /\ i - 1 \in 0 .. n - 1 /\ q.j - n2 + i = q.j - 1 - n + i
      BY <1>2, <1>5, <1>8, <2>1, <2>3
    <3>2. QED
      BY <1>1, <3>1, Zenon DEF Stores
  <2>4. QED
    BY <2>2, <2>3
<1>9. LineAt(s, K, v, V, b2, n2, q)
  BY <1>1, <1>4, <1>6, <1>8, Zenon DEF LineAt
<1>10. QED
  BY <1>9, Zenon DEF LineExact

\* At its end the line is handed over, as much of it as the counter can count.
LineDone(s, b, n, v, V) ==
  /\ Fresh(v, V)
  /\ \E k \in 1 .. Len(s) :
       /\ s[k] \in Seq(Byte) /\ Last(s[k]) = CR
       /\ Taken(b, n) = Counted(SubSeq(s[k], 1, Len(s[k]) - 1))

LEMMA PrefixAt ==
  ASSUME NEW x \in Seq(Byte), NEW j \in 0 .. Len(x)
  PROVE  /\ SubSeq(x, 1, j) \in Seq(Byte) /\ Len(SubSeq(x, 1, j)) = j
         /\ \A i \in 1 .. j : SubSeq(x, 1, j)[i] = x[i]
OBVIOUS

LEMMA LineEnds ==
  ASSUME NEW s, NEW K, NEW b, NEW n, NEW q, CharAt(s, K, b, n, q),
         NEW v, NEW V, Linked(s, K, v, V, q), ByteAt(s, q) = CR
  PROVE  LineDone(s, b, n, v, V)
<1>1. /\ q.h = "char" /\ LineItem(s[q.k]) /\ s[q.k] \in Seq(Byte)
      /\ q.k \in 1 .. Len(s) /\ q.j \in 1 .. Len(s[q.k])
      /\ n = (q.j - 1) % LenMod
      /\ \A i \in 1 .. n : b[i - 1] = s[q.k][q.j - 1 - n + i]
  BY Zenon DEF CharAt
<1>2. PICK x : x = s[q.k]
  BY Zenon
<1>3. PICK j : j = Len(x) - 1
  BY Zenon
<1>4. q.j = Len(x) /\ x[Len(x)] = CR
  BY <1>1, <1>2, Zenon DEF ByteAt, LineItem
<1>5. x \in Seq(Byte) /\ Len(x) \in Nat /\ j \in Nat /\ q.j - 1 = j /\ LenMod \in Nat \ {0}
  BY <1>1, <1>2, <1>3, <1>4, BufferAssumption
<1>6. Fresh(v, V)
  BY <1>1, <1>2, <1>4, Zenon DEF Fresh, Linked, Ends, Follows
<1>7. PICK l : l = SubSeq(x, 1, j)
  BY Zenon
<1>8. l \in Seq(Byte) /\ Len(l) = j /\ \A i \in 1 .. j : l[i] = x[i]
  <2>1. j \in 0 .. Len(x)
    BY <1>3, <1>5
  <2>2. QED
    BY <1>5, <1>7, <2>1, PrefixAt, Zenon
<1>9. n = j % LenMod
  BY <1>1, <1>5, Zenon
<1>10. n \in 0 .. j
  <2>1. \A i \in Nat : i % LenMod \in 0 .. i
    BY <1>5, Z3
  <2>2. QED
    BY <1>5, <1>9, <2>1, Zenon
<1>11. Taken(b, n) = SubSeq(l, j - n + 1, j)
  <2>1. \A i \in 1 .. n : b[i - 1] = l[j - n + i]
    <3>1. SUFFICES ASSUME NEW i \in 1 .. n
                   PROVE  b[i - 1] = l[j - n + i]
      OBVIOUS
    <3>2. j - n + i \in 1 .. j
      BY <1>5, <1>10
    <3>3. b[i - 1] = x[j - n + i]
      BY <1>1, <1>2, <1>5, <3>1, Zenon
    <3>4. QED
      BY <1>8, <3>2, <3>3, Zenon
  <2>2. SubSeq(l, j - n + 1, j) = [i \in 1 .. n |-> l[j - n + i]]
    BY <1>5, <1>8, <1>10
  <2>3. QED
    BY <2>1, <2>2, Zenon DEF Taken
<1>12. Taken(b, n) = Counted(l)
  BY <1>8, <1>9, <1>11, Zenon DEF Counted
<1>13. s[q.k] \in Seq(Byte) /\ Last(s[q.k]) = CR
       /\ Taken(b, n) = Counted(SubSeq(s[q.k], 1, Len(s[q.k]) - 1))
  BY <1>1, <1>2, <1>3, <1>4, <1>7, <1>12, Zenon DEF Last
<1>14. QED
  BY <1>1, <1>6, <1>13, Zenon DEF LineDone

\* A CR with no FEND behind it ends a line, because a frame has one.
LEMMA LastLine ==
  ASSUME NEW s, NEW K, ItemsOK(s, K), NEW u, NEW T, Wire(s, K, u, T),
         NEW q, NEW v, NEW V, Reads(s, K, u, T, q, v, V), ByteAt(s, q) = CR,
         FEND \notin Range(v)
  PROVE  Fresh(v, V)
<1>1. /\ PlaceOK(s, K, q) /\ Linked(s, K, v, V, q) /\ q = T[1] /\ v \in Seq(Byte)
      /\ Wire(s, K, v, V) /\ u \in Seq(Byte) /\ Len(u) = Len(v) + 1
  BY Zenon DEF Reads, Linked, Wire, Chain
<1>2. \A m \in 1 .. Len(v) : V[m].h # "close"
  <2>1. SUFFICES ASSUME NEW m \in 1 .. Len(v), V[m].h = "close"
                 PROVE  FALSE
    OBVIOUS
  <2>2. v[m] = FEND
    BY <1>1, <2>1, Zenon DEF Wire, Chain, ByteAt
  <2>3. m \in DOMAIN v
    BY <1>1, <2>1
  <2>4. QED
    BY <2>2, <2>3, Zenon DEF Range
<1>3. q.h # "close"
  BY Zenon DEF ByteAt, CR, FEND
<1>4. K[q.k] # "frame"
  <2>1. SUFFICES ASSUME K[q.k] = "frame"
                 PROVE  FALSE
    OBVIOUS
  <2>2. 1 \in 1 .. Len(u)
    BY <1>1
  <2>3. PICK i \in 1 .. Len(u) : T[i].h = "close"
    BY <1>1, <2>1, <2>2, Zenon DEF Wire, Closed
  <2>4. i # 1
    BY <1>1, <1>3, <2>3, Zenon
  <2>5. i - 1 \in 1 .. Len(v) /\ (i - 1) + 1 = i
    BY <1>1, <2>3, <2>4
  <2>6. V[i - 1] = T[i]
    BY <2>5, Zenon DEF Reads
  <2>7. QED
    BY <1>2, <2>3, <2>5, <2>6, Zenon
<1>5. q.h = "char"
  BY <1>1, <1>4, Zenon DEF PlaceOK, ItemsOK
<1>6. LineItem(s[q.k]) /\ q.j \in 1 .. Len(s[q.k])
  BY <1>1, <1>5, LineOf, Zenon
<1>7. q.j = Len(s[q.k])
  BY <1>5, <1>6, Zenon DEF ByteAt, LineItem
<1>8. QED
  BY <1>1, <1>5, <1>7, Zenon DEF Linked, Ends, Follows, Fresh

\* Nor is there a frame behind it.
LEMMA LastLines ==
  ASSUME NEW s, NEW K, ItemsOK(s, K), NEW v, NEW V, Wire(s, K, v, V), FEND \notin Range(v)
  PROVE  AllChars(Len(v), V)
<1>1. v \in Seq(Byte)
  BY Zenon DEF Wire, Chain
<1>2. \A m \in 1 .. Len(v) : V[m].h # "close"
  <2>1. SUFFICES ASSUME NEW m \in 1 .. Len(v), V[m].h = "close"
                 PROVE  FALSE
    OBVIOUS
  <2>2. v[m] = FEND
    BY <2>1, Zenon DEF Wire, Chain, ByteAt
  <2>3. m \in DOMAIN v
    BY <1>1, <2>1
  <2>4. QED
    BY <2>2, <2>3, Zenon DEF Range
<1>3. SUFFICES ASSUME NEW m \in 1 .. Len(v)
               PROVE  V[m].h = "char"
  BY Zenon DEF AllChars
<1>4. PlaceOK(s, K, V[m]) /\ K[V[m].k] # "frame"
  <2>1. \A i \in m .. Len(v) : i \in 1 .. Len(v)
    BY <1>1
  <2>2. QED
    BY <1>2, <2>1, Zenon DEF Wire, Chain, Closed
<1>5. QED
  BY <1>4, Zenon DEF PlaceOK, ItemsOK

-----------------------------------------------------------------------------
(* The invariant.                                                            *)

\* The bytes on the way from the other end are of the item that was sent last.
TodoLast(s, n, t, T) ==
  t <= n /\ \A m \in n - t + 1 .. n : T[m].k = Len(s)

\* The frames that were handled are the items at, or ends of them.
Given(s, hd, at) ==
  /\ at \in [1 .. Len(hd) -> 1 .. Len(s)]
  /\ \A i, j \in 1 .. Len(hd) : i < j => at[i] < at[j]
  /\ \A i \in 1 .. Len(hd) : EndOf(hd[i], s[at[i]])

Traced(s, td, u, hd, K, T, at) ==
  /\ ItemsOK(s, K) /\ Wire(s, K, u, T) /\ TodoLast(s, Len(u), Len(td), T)
  /\ Given(s, hd, at) /\ \A i \in 1 .. Len(hd) : Past(at[i], Len(u), T)

\* What the reader of mode md has got.
InMode(md, ct, err, pz, s, K, u, T, N, at, b, n, esc, lt) ==
  /\ md = KISS => OneLine(Len(u), T)
  /\ md = KISS /\ ~err => KissMixed(s, K, u, T, N, at, b, n, esc, lt)
  /\ md = KISS /\ ~err /\ ct # "now" /\ pz = 0 => KissExact(s, K, u, T, b, n, esc, lt)
  /\ md # KISS /\ ~err /\ ct # "now" => LineExact(s, K, u, T, b, n)
  /\ md = TRACKER /\ ~err /\ ct # "now" => AllChars(Len(u), T)

Read(md, ct, err, pz, s, td, u, hd, b, n, esc, lt) ==
  \E K, T, at : /\ Traced(s, td, u, hd, K, T, at)
                /\ InMode(md, ct, err, pz, s, K, u, T, Len(hd), at, b, n, esc, lt)

-----------------------------------------------------------------------------
(* Bytes are lost or read.                                                   *)

LEMMA TracedDrops ==
  ASSUME NEW s, NEW td, NEW u, NEW hd, NEW K, NEW T, NEW at, Traced(s, td, u, hd, K, T, at),
         NEW d \in 0 .. Len(u), NEW v, v = SubSeq(u, d + 1, Len(u)),
         NEW V, V = Shifted(T, d, Len(u)),
         NEW t2, Len(t2) \in Nat, Len(t2) <= Len(td), Len(t2) <= Len(v), Len(td) \in Nat
  PROVE  Traced(s, t2, v, hd, K, V, at)
<1>1. u \in Seq(Byte) /\ Len(u) \in Nat /\ d \in Nat
  BY DEF Traced, Wire, Chain
<1>2. Wire(s, K, v, V)
  BY WireDrops, Zenon DEF Traced
<1>3. Len(v) = Len(u) - d
  BY <1>1, SubSeqAt, Zenon
<1>4. \A m \in 1 .. Len(v) : V[m] = T[m + d]
  BY <1>3, Zenon DEF Shifted
<1>5. \A m \in 1 .. Len(v) : m + d \in 1 .. Len(u)
  BY <1>1, <1>3
<1>6. ASSUME NEW m \in Len(v) - Len(t2) + 1 .. Len(v)
      PROVE  V[m].k = Len(s)
  <2>1. m \in 1 .. Len(v) /\ m + d \in Len(u) - Len(td) + 1 .. Len(u)
    <3>1. Len(v) \in Nat /\ m \in Int /\ m >= Len(v) - Len(t2) + 1 /\ m <= Len(v)
      BY <1>1, <1>3
    <3>2. QED
      BY <1>1, <1>3, <3>1
  <2>2. QED
    BY <1>4, <2>1, Zenon DEF Traced, TodoLast
<1>7. TodoLast(s, Len(v), Len(t2), V)
  BY <1>6, Zenon DEF TodoLast
<1>8. \A i \in 1 .. Len(hd) : Past(at[i], Len(v), V)
  BY <1>4, <1>5, Zenon DEF Traced, Past
<1>9. QED
  BY <1>2, <1>7, <1>8, Zenon DEF Traced

LEMMA OneLineDrops ==
  ASSUME NEW u \in Seq(Byte), NEW d \in 0 .. Len(u), NEW T, OneLine(Len(u), T),
         NEW v, v = SubSeq(u, d + 1, Len(u)), NEW V, V = Shifted(T, d, Len(u))
  PROVE  OneLine(Len(v), V)
<1>1. Len(v) = Len(u) - d
  BY SubSeqAt, Zenon
<1>2. \A m \in 1 .. Len(v) : V[m] = T[m + d]
  BY <1>1, Zenon DEF Shifted
<1>3. SUFFICES ASSUME NEW m \in 1 .. Len(v), NEW i \in 1 .. Len(v), m < i, V[i].h = "char"
               PROVE  V[m].h = "char" /\ V[m].k = V[i].k
  BY Zenon DEF OneLine
<1>4. m + d \in 1 .. Len(u) /\ i + d \in 1 .. Len(u) /\ m + d < i + d
  BY <1>1, <1>3
<1>5. QED
  BY <1>2, <1>3, <1>4, Zenon DEF OneLine

\* The port has an error: nothing is read any more.
LEMMA ReadLoses ==
  ASSUME NEW md, NEW ct, NEW err, NEW pz, NEW s, NEW td, NEW u, NEW hd, NEW b, NEW n, NEW esc,
         NEW lt, Read(md, ct, err, pz, s, td, u, hd, b, n, esc, lt), Len(td) \in Nat,
         NEW d \in 0 .. Len(u), NEW v, v = SubSeq(u, d + 1, Len(u)),
         NEW t2, Len(t2) \in Nat, Len(t2) <= Len(td), Len(t2) <= Len(v), NEW p2
  PROVE  Read(md, ct, TRUE, p2, s, t2, v, hd, b, n, esc, lt)
<1>1. PICK K, T, at : /\ Traced(s, td, u, hd, K, T, at)
                      /\ InMode(md, ct, err, pz, s, K, u, T, Len(hd), at, b, n, esc, lt)
  BY Zenon DEF Read
<1>2. PICK V : V = Shifted(T, d, Len(u))
  BY Zenon
<1>3. Traced(s, t2, v, hd, K, V, at)
  BY <1>1, <1>2, TracedDrops, Zenon
<1>4. md = KISS => OneLine(Len(v), V)
  <2>1. u \in Seq(Byte)
    BY <1>1, Zenon DEF Traced, Wire, Chain
  <2>2. QED
    BY <1>1, <1>2, <2>1, OneLineDrops, Zenon DEF InMode
<1>5. InMode(md, ct, TRUE, p2, s, K, v, V, Len(hd), at, b, n, esc, lt)
  BY <1>4, Zenon DEF InMode
<1>6. QED
  BY <1>3, <1>5, Zenon DEF Read

-----------------------------------------------------------------------------
(* The other end sends the next item.                                        *)

Appended(s, K, u, T, s2, K2, w, W, J) ==
  /\ ItemsOK(s, K) /\ ItemsOK(s2, K2) /\ Grown(s, K, s2, K2)
  /\ Wire(s, K, u, T) /\ ItemWire(s2, K2, Len(s2), w, W)
  /\ Wire(s2, K2, u \o w, J) /\ JoinsUp(J, T, Len(u), W, Len(w))

LEMMA Appends ==
  ASSUME NEW s, NEW K, ItemsOK(s, K), NEW u, NEW T, Wire(s, K, u, T),
         NEW s2, NEW K2, ItemsOK(s2, K2), Grown(s, K, s2, K2),
         NEW w, NEW W, ItemWire(s2, K2, Len(s2), w, W),
         NEW J, J = Joined(T, Len(u), W, Len(w))
  PROVE  Appended(s, K, u, T, s2, K2, w, W, J)
<1>1. Wire(s2, K2, u, T)
  BY WireStays, Zenon
<1>2. u \in Seq(Byte) /\ w \in Seq(Byte)
  BY Zenon DEF Wire, ItemWire, Going, Chain
<1>3. Len(u) \in Nat /\ Len(w) \in Nat
  BY <1>2
<1>4. \A m \in 1 .. Len(u) : T[m].k < Len(s2)
  <2>1. SUFFICES ASSUME NEW m \in 1 .. Len(u)
                 PROVE  T[m].k < Len(s2)
    OBVIOUS
  <2>2. T[m].k \in 1 .. Len(s) /\ Len(s2) = Len(s) + 1 /\ s \in Seq(Seq(Byte))
    BY <2>1, Zenon DEF Wire, Chain, PlaceOK, Grown, ItemsOK
  <2>3. QED
    BY <2>2
<1>5. Wire(s2, K2, u \o w, J)
  BY <1>1, <1>4, WireAppends, Zenon
<1>6. JoinsUp(J, T, Len(u), W, Len(w))
  BY <1>3, JoinedAt, Zenon
<1>7. QED
  BY <1>5, <1>6, Zenon DEF Appended

\* What the proofs below use of it.
Joint(s, u, T, s2, w, W, J) ==
  /\ u \in Seq(Byte) /\ w \in Seq(Byte) /\ Len(u) \in Nat /\ Len(w) \in Nat /\ Len(w) >= 1
  /\ w # << >> /\ u \o w # << >> /\ Len(u \o w) = Len(u) + Len(w)
  /\ Len(s) \in Nat /\ Len(s2) = Len(s) + 1
  /\ \A m \in 1 .. Len(u) : J[m] = T[m] /\ T[m].k \in 1 .. Len(s)
  /\ \A m \in 1 .. Len(w) : J[Len(u) + m] = W[m] /\ W[m].k = Len(s) + 1
  /\ \A m \in 1 .. Len(u) + Len(w) :
       m \in 1 .. Len(u) \/ \E i \in 1 .. Len(w) : m = Len(u) + i
  /\ Starts(W[1])
  /\ u # << >> => J[1] = T[1]
  /\ u = << >> => J[1] = W[1]

LEMMA AppendedJoint ==
  ASSUME NEW s, NEW K, NEW u, NEW T, NEW s2, NEW K2, NEW w, NEW W, NEW J,
         Appended(s, K, u, T, s2, K2, w, W, J)
  PROVE  Joint(s, u, T, s2, w, W, J)
<1>1. u \in Seq(Byte) /\ w \in Seq(Byte) /\ w # << >> /\ s \in Seq(Seq(Byte))
      /\ Len(s2) = Len(s) + 1
  BY Zenon DEF Appended, Wire, ItemWire, Going, Chain, ItemsOK, Grown
<1>2. /\ Len(u) \in Nat /\ Len(w) \in Nat /\ Len(w) >= 1 /\ Len(s) \in Nat
      /\ u \o w # << >> /\ Len(u \o w) = Len(u) + Len(w)
  BY <1>1
<1>3. /\ \A m \in 1 .. Len(u) : J[m] = T[m]
      /\ \A m \in 1 .. Len(w) : J[Len(u) + m] = W[m]
      /\ \A m \in 1 .. Len(u) + Len(w) :
           m \in 1 .. Len(u) \/ \E i \in 1 .. Len(w) : m = Len(u) + i
  BY Zenon DEF Appended, JoinsUp
<1>4. \A m \in 1 .. Len(u) : T[m].k \in 1 .. Len(s)
  BY Zenon DEF Appended, Wire, Chain, PlaceOK
<1>5. Starts(W[1]) /\ \A m \in 1 .. Len(w) : W[m].k = Len(s) + 1
  BY <1>1, Zenon DEF Appended, ItemWire, Going
<1>6. u # << >> => J[1] = T[1]
  <2>1. u # << >> => 1 \in 1 .. Len(u)
    BY <1>1
  <2>2. QED
    BY <1>3, <2>1, Zenon
<1>7. u = << >> => J[1] = W[1]
  <2>1. u = << >> => Len(u) + 1 = 1 /\ 1 \in 1 .. Len(w)
    BY <1>1
  <2>2. u = << >> => J[Len(u) + 1] = W[1]
    BY <1>3, <2>1, Zenon
  <2>3. QED
    BY <2>1, <2>2, Zenon
<1>8. QED
  BY <1>1, <1>2, <1>3, <1>4, <1>5, <1>6, <1>7, Zenon DEF Joint

LEMMA FreshStays ==
  ASSUME NEW s, NEW K, NEW u, NEW T, NEW s2, NEW K2, NEW w, NEW W, NEW J,
         Appended(s, K, u, T, s2, K2, w, W, J), Fresh(u, T)
  PROVE  Fresh(u \o w, J)
<1>1. Starts(W[1]) /\ (u # << >> => J[1] = T[1]) /\ (u = << >> => J[1] = W[1])
  <2>1. Joint(s, u, T, s2, w, W, J)
    BY AppendedJoint, Zenon
  <2>2. QED
    BY <2>1, Zenon DEF Joint
<1>2. QED
  BY <1>1, Zenon DEF Fresh

LinkStays(s, s2, K2, u, w, J, p) ==
  Linked(s2, K2, u \o w, J, p) /\ s2[p.k] = s[p.k]

LEMMA LinkedStays ==
  ASSUME NEW s, NEW K, NEW u, NEW T, NEW s2, NEW K2, NEW w, NEW W, NEW J,
         Appended(s, K, u, T, s2, K2, w, W, J), NEW p, Linked(s, K, u, T, p)
  PROVE  LinkStays(s, s2, K2, u, w, J, p)
<1>1. /\ Starts(W[1]) /\ (u # << >> => J[1] = T[1]) /\ (u = << >> => J[1] = W[1])
      /\ Len(w) >= 1 /\ Len(s) \in Nat /\ u \o w # << >> /\ Len(w) \in Nat
      /\ \A m \in 1 .. Len(w) : W[m].k = Len(s) + 1
  <2>1. Joint(s, u, T, s2, w, W, J)
    BY AppendedJoint, Zenon
  <2>2. QED
    BY <2>1, Zenon DEF Joint
<1>2. PlaceOK(s, K, p) /\ ItemsOK(s, K) /\ Grown(s, K, s2, K2)
  BY Zenon DEF Linked, Appended
<1>3. StaysPlaced(s, K, s2, K2, p)
  BY <1>2, PlaceStays, Zenon
<1>4. PlaceOK(s2, K2, p) /\ (Ends(s2, p) <=> Ends(s, p))
      /\ \A q : Follows(s2, p, q) <=> Follows(s, p, q)
  BY <1>3, Zenon DEF StaysPlaced
<1>5. s2[p.k] = s[p.k] /\ p.k \in 1 .. Len(s)
  BY <1>2, Zenon DEF PlaceOK, Grown
<1>6. Follows(s2, p, J[1])
  <2>1. CASE u = << >>
    <3>1. 1 \in 1 .. Len(w)
      BY <1>1
    <3>2. W[1].k = Len(s) + 1
      BY <1>1, <3>1, Zenon
    <3>3. p.k < W[1].k
      BY <1>1, <1>5, <3>2
    <3>4. Ends(s2, p)
      BY <1>4, <2>1, Zenon DEF Linked
    <3>5. QED
      BY <1>1, <2>1, <3>3, <3>4, Zenon DEF Follows
  <2>2. CASE u # << >>
    BY <1>1, <1>4, <2>2, Zenon DEF Linked
  <2>3. QED
    BY <2>1, <2>2
<1>7. QED
  BY <1>1, <1>4, <1>5, <1>6, Zenon DEF LinkStays, Linked

LEMMA TracedAppends ==
  ASSUME NEW s, NEW td, NEW u, NEW hd, NEW K, NEW T, NEW at, Traced(s, td, u, hd, K, T, at),
         NEW s2, NEW K2, NEW w, NEW W, NEW J, Appended(s, K, u, T, s2, K2, w, W, J)
  PROVE  Traced(s2, w, u \o w, hd, K2, J, at)
<1>1. Joint(s, u, T, s2, w, W, J)
  BY AppendedJoint, Zenon
<1>2. /\ Len(u) \in Nat /\ Len(w) \in Nat /\ Len(u \o w) = Len(u) + Len(w)
      /\ Len(s) \in Nat /\ Len(s2) = Len(s) + 1
      /\ \A m \in 1 .. Len(u) : J[m] = T[m]
      /\ \A m \in 1 .. Len(w) : J[Len(u) + m].k = Len(s) + 1
      /\ \A m \in 1 .. Len(u) + Len(w) :
           m \in 1 .. Len(u) \/ \E i \in 1 .. Len(w) : m = Len(u) + i
  BY <1>1, Zenon DEF Joint
<1>3. TodoLast(s2, Len(u \o w), Len(w), J)
  <2>1. ASSUME NEW m \in Len(u \o w) - Len(w) + 1 .. Len(u \o w)
        PROVE  J[m].k = Len(s2)
    <3>1. m - Len(u) \in 1 .. Len(w) /\ Len(u) + (m - Len(u)) = m
      BY <1>2, <2>1
    <3>2. QED
      BY <1>2, <3>1, Zenon
  <2>2. Len(w) <= Len(u \o w)
    BY <1>2
  <2>3. QED
    BY <2>1, <2>2, Zenon DEF TodoLast
<1>4. at \in [1 .. Len(hd) -> 1 .. Len(s)] /\ \A k \in 1 .. Len(s) : s2[k] = s[k]
  BY Zenon DEF Traced, Given, Appended, Grown
<1>5. \A k \in 1 .. Len(s) : k \in 1 .. Len(s2) /\ k < Len(s) + 1
  BY <1>2
<1>6. Given(s2, hd, at)
  <2>1. at \in [1 .. Len(hd) -> 1 .. Len(s2)]
    BY <1>4, <1>5, Zenon
  <2>2. \A i \in 1 .. Len(hd) : s2[at[i]] = s[at[i]]
    BY <1>4, Zenon
  <2>3. QED
    BY <2>1, <2>2, Zenon DEF Traced, Given
<1>7. ASSUME NEW i \in 1 .. Len(hd)
      PROVE  Past(at[i], Len(u \o w), J)
  <2>1. Past(at[i], Len(u), T) /\ at[i] \in 1 .. Len(s)
    BY <1>4, <1>7, Zenon DEF Traced
  <2>2. \A m \in 1 .. Len(u) + Len(w) : at[i] < J[m].k
    BY <1>2, <1>5, <2>1, Zenon DEF Past
  <2>3. QED
    BY <1>2, <2>2, Zenon DEF Past
<1>8. ItemsOK(s2, K2) /\ Wire(s2, K2, u \o w, J)
  BY Zenon DEF Appended
<1>9. QED
  BY <1>3, <1>6, <1>7, <1>8, Zenon DEF Traced

\* The places of the new item are of its kind.
OfKind(s2, K2, w, W) == \A m \in 1 .. Len(w) : W[m].h = "char" <=> K2[Len(s2)] = "line"

LEMMA NewKind ==
  ASSUME NEW s, NEW K, NEW u, NEW T, NEW s2, NEW K2, NEW w, NEW W, NEW J,
         Appended(s, K, u, T, s2, K2, w, W, J)
  PROVE  OfKind(s2, K2, w, W)
<1>1. \A m \in 1 .. Len(w) : PlaceOK(s2, K2, W[m]) /\ W[m].k = Len(s2)
  BY Zenon DEF Appended, ItemWire, Going, Chain
<1>2. QED
  BY <1>1, Zenon DEF PlaceOK, OfKind

LEMMA LineExactStays ==
  ASSUME NEW s, NEW K, NEW u, NEW T, NEW s2, NEW K2, NEW w, NEW W, NEW J,
         Appended(s, K, u, T, s2, K2, w, W, J), NEW b, NEW n, LineExact(s, K, u, T, b, n)
  PROVE  LineExact(s2, K2, u \o w, J, b, n)
<1>1. CASE n = 0 /\ Fresh(u, T)
  <2>1. Fresh(u \o w, J)
    BY <1>1, FreshStays, Zenon
  <2>2. QED
    BY <1>1, <2>1, Zenon DEF LineExact
<1>2. ASSUME NEW p, LineAt(s, K, u, T, b, n, p)
      PROVE  LineExact(s2, K2, u \o w, J, b, n)
  <2>1. LinkStays(s, s2, K2, u, w, J, p)
    BY <1>2, LinkedStays, Zenon DEF LineAt
  <2>2. Linked(s2, K2, u \o w, J, p) /\ s2[p.k] = s[p.k]
    BY <2>1, Zenon DEF LinkStays
  <2>3. LineAt(s2, K2, u \o w, J, b, n, p)
    BY <1>2, <2>2, Zenon DEF LineAt
  <2>4. QED
    BY <2>3, Zenon DEF LineExact
<1>3. QED
  BY <1>1, <1>2, Zenon DEF LineExact

LEMMA KissMixedStays ==
  ASSUME NEW s, NEW K, NEW u, NEW T, NEW s2, NEW K2, NEW w, NEW W, NEW J,
         Appended(s, K, u, T, s2, K2, w, W, J), K2[Len(s2)] = "frame",
         NEW N, NEW at, NEW b, NEW n, NEW esc, NEW lt,
         KissMixed(s, K, u, T, N, at, b, n, esc, lt)
  PROVE  KissMixed(s2, K2, u \o w, J, N, at, b, n, esc, lt)
<1>1. CASE n = 0 \/ lt
  BY <1>1, Zenon DEF KissMixed
<1>2. ASSUME NEW p, KissAt(s, K, u, T, N, at, b, n, esc, p)
      PROVE  KissMixed(s2, K2, u \o w, J, N, at, b, n, esc, lt)
  <2>1. LinkStays(s, s2, K2, u, w, J, p)
    BY <1>2, LinkedStays, Zenon DEF KissAt
  <2>2. Linked(s2, K2, u \o w, J, p) /\ s2[p.k] = s[p.k]
    BY <2>1, Zenon DEF LinkStays
  <2>3. SameLine(u \o w, J, p)
    <3>1. Joint(s, u, T, s2, w, W, J)
      BY AppendedJoint, Zenon
    <3>2. /\ (u # << >> => J[1] = T[1]) /\ (u = << >> => J[1] = W[1]) 
          /\ Len(w) \in Nat /\ Len(w) >= 1
      BY <3>1, Zenon DEF Joint
    <3>3. 1 \in 1 .. Len(w)
      BY <3>2
    <3>4. W[1].h # "char"
      <4>1. OfKind(s2, K2, w, W)
        BY NewKind, Zenon
      <4>2. QED
        BY <3>3, <4>1, Zenon DEF OfKind
    <3>5. SameLine(u, T, p)
      BY <1>2, Zenon DEF KissAt
    <3>6. QED
      BY <3>2, <3>4, <3>5, Zenon DEF SameLine
  <2>4. KissAt(s2, K2, u \o w, J, N, at, b, n, esc, p)
    BY <1>2, <2>2, <2>3, Zenon DEF KissAt
  <2>5. QED
    BY <2>4, Zenon DEF KissMixed
<1>3. QED
  BY <1>1, <1>2, Zenon DEF KissMixed

LEMMA KissExactStays ==
  ASSUME NEW s, NEW K, NEW u, NEW T, NEW s2, NEW K2, NEW w, NEW W, NEW J,
         Appended(s, K, u, T, s2, K2, w, W, J), K2[Len(s2)] = "frame",
         NEW b, NEW n, NEW esc, NEW lt, KissExact(s, K, u, T, b, n, esc, lt)
  PROVE  KissExact(s2, K2, u \o w, J, b, n, esc, lt)
<1>1. NoChars(Len(u \o w), J)
  <2>1. Joint(s, u, T, s2, w, W, J)
    BY AppendedJoint, Zenon
  <2>2. \A m \in 1 .. Len(w) : W[m].h # "char"
    <3>1. OfKind(s2, K2, w, W)
      BY NewKind, Zenon
    <3>2. QED
      BY <3>1, Zenon DEF OfKind
  <2>3. \A m \in 1 .. Len(u) : T[m].h # "char"
    BY Zenon DEF KissExact, NoChars
  <2>4. \A m \in 1 .. Len(u) + Len(w) : J[m].h # "char"
    BY <2>1, <2>2, <2>3, Zenon DEF Joint
  <2>5. QED
    BY <2>1, <2>4, Zenon DEF Joint, NoChars
<1>2. CASE n = 0 /\ Fresh(u, T)
  <2>1. Fresh(u \o w, J)
    BY <1>2, FreshStays, Zenon
  <2>2. QED
    BY <1>1, <1>2, <2>1, Zenon DEF KissExact
<1>3. ASSUME NEW p, ExactAt(s, K, u, T, b, n, esc, lt, p)
      PROVE  KissExact(s2, K2, u \o w, J, b, n, esc, lt)
  <2>1. LinkStays(s, s2, K2, u, w, J, p)
    BY <1>3, LinkedStays, Zenon DEF ExactAt
  <2>2. Linked(s2, K2, u \o w, J, p) /\ s2[p.k] = s[p.k]
    BY <2>1, Zenon DEF LinkStays
  <2>3. ExactAt(s2, K2, u \o w, J, b, n, esc, lt, p)
    BY <1>3, <2>2, Zenon DEF ExactAt
  <2>4. QED
    BY <1>1, <2>3, Zenon DEF KissExact
<1>4. QED
  BY <1>2, <1>3, Zenon DEF KissExact

LEMMA OneLineStays ==
  ASSUME NEW s, NEW K, NEW u, NEW T, NEW s2, NEW K2, NEW w, NEW W, NEW J,
         Appended(s, K, u, T, s2, K2, w, W, J), K2[Len(s2)] = "frame", OneLine(Len(u), T)
  PROVE  OneLine(Len(u \o w), J)
<1>1. /\ Len(u \o w) = Len(u) + Len(w) /\ Len(u) \in Nat
      /\ \A m \in 1 .. Len(u) : J[m] = T[m]
      /\ \A m \in 1 .. Len(w) : J[Len(u) + m] = W[m]
      /\ \A m \in 1 .. Len(u) + Len(w) :
           m \in 1 .. Len(u) \/ \E i \in 1 .. Len(w) : m = Len(u) + i
  <2>1. Joint(s, u, T, s2, w, W, J)
    BY AppendedJoint, Zenon
  <2>2. QED
    BY <2>1, Zenon DEF Joint
<1>2. \A m \in 1 .. Len(w) : W[m].h # "char"
  <2>1. OfKind(s2, K2, w, W)
    BY NewKind, Zenon
  <2>2. QED
    BY <2>1, Zenon DEF OfKind
<1>3. SUFFICES ASSUME NEW m \in 1 .. Len(u) + Len(w), NEW i \in 1 .. Len(u) + Len(w), m < i,
                      J[i].h = "char"
               PROVE  J[m].h = "char" /\ J[m].k = J[i].k
  BY <1>1, Zenon DEF OneLine
<1>4. i \in 1 .. Len(u)
  BY <1>1, <1>2, <1>3, Zenon
<1>5. m \in 1 .. Len(u)
  BY <1>1, <1>3, <1>4
<1>6. QED
  BY <1>1, <1>3, <1>4, <1>5, Zenon DEF OneLine

LEMMA AllCharsStays ==
  ASSUME NEW s, NEW K, NEW u, NEW T, NEW s2, NEW K2, NEW w, NEW W, NEW J,
         Appended(s, K, u, T, s2, K2, w, W, J), K2[Len(s2)] = "line", AllChars(Len(u), T)
  PROVE  AllChars(Len(u \o w), J)
<1>1. /\ Len(u \o w) = Len(u) + Len(w) /\ Len(u) \in Nat
      /\ \A m \in 1 .. Len(u) : J[m] = T[m]
      /\ \A m \in 1 .. Len(w) : J[Len(u) + m] = W[m]
      /\ \A m \in 1 .. Len(u) + Len(w) :
           m \in 1 .. Len(u) \/ \E i \in 1 .. Len(w) : m = Len(u) + i
  <2>1. Joint(s, u, T, s2, w, W, J)
    BY AppendedJoint, Zenon
  <2>2. QED
    BY <2>1, Zenon DEF Joint
<1>2. \A m \in 1 .. Len(w) : W[m].h = "char"
  <2>1. OfKind(s2, K2, w, W)
    BY NewKind, Zenon
  <2>2. QED
    BY <2>1, Zenon DEF OfKind
<1>3. ASSUME NEW m \in 1 .. Len(u) + Len(w)
      PROVE  J[m].h = "char"
  <2>1. CASE m \in 1 .. Len(u)
    BY <1>1, <2>1, Zenon DEF AllChars
  <2>2. CASE \E i \in 1 .. Len(w) : m = Len(u) + i
    BY <1>1, <1>2, <2>2, Zenon
  <2>3. QED
    BY <1>1, <2>1, <2>2, Zenon
<1>4. QED
  BY <1>1, <1>3, Zenon DEF AllChars

\* The item x is put on the line as w.
Sends(x, kind, w) ==
  /\ x \in Seq(Byte)
  /\ \/ kind = "line" /\ LineItem(x) /\ w = x
     \/ kind = "frame" /\ Len(x) < LenMod /\ w = kiss_send(x)

IsSent(s, K, s2, kind, w) ==
  \E K2, W : /\ ItemsOK(s2, K2) /\ Grown(s, K, s2, K2) /\ K2[Len(s2)] = kind
             /\ ItemWire(s2, K2, Len(s2), w, W)

LEMMA NewItem ==
  ASSUME NEW s, NEW K, ItemsOK(s, K), NEW x, NEW kind, NEW w, Sends(x, kind, w),
         NEW s2, s2 = Append(s, x)
  PROVE  IsSent(s, K, s2, kind, w)
<1>1. s \in Seq(Seq(Byte)) /\ Len(s) \in Nat /\ x \in Seq(Byte)
  BY DEF ItemsOK, Sends
<1>2. PICK n : n = Len(s) + 1
  BY Zenon
<1>3. /\ s2 \in Seq(Seq(Byte)) /\ Len(s2) = n /\ s2[n] = x /\ n \in 1 .. n
      /\ \A k \in 1 .. Len(s) : s2[k] = s[k] /\ k \in 1 .. n /\ k # n
      /\ \A k \in 1 .. n : k = n \/ k \in 1 .. Len(s)
  BY <1>1, <1>2
<1>4. PICK K2 : K2 = [k \in 1 .. n |-> IF k = n THEN kind ELSE K[k]]
  BY Zenon
<1>5. K2[n] = kind /\ \A k \in 1 .. Len(s) : K2[k] = K[k]
  BY <1>3, <1>4, Zenon
<1>6. kind \in {"line", "frame"} /\ \A k \in 1 .. Len(s) : K[k] \in {"line", "frame"}
  BY Zenon DEF Sends, ItemsOK
<1>7. K2 \in [1 .. n -> {"line", "frame"}]
  BY <1>4, <1>3, <1>6, Zenon
<1>8. Grown(s, K, s2, K2)
  BY <1>2, <1>3, <1>5, Zenon DEF Grown
<1>9. ItemsOK(s2, K2)
  <2>1. ASSUME NEW k \in 1 .. n
        PROVE  (K2[k] = "frame" => Len(s2[k]) < LenMod) /\ (K2[k] = "line" => LineItem(s2[k]))
    <3>1. CASE k = n
      BY <1>3, <1>5, <3>1, Zenon DEF Sends
    <3>2. CASE k \in 1 .. Len(s)
      BY <1>3, <1>5, <3>2, Zenon DEF ItemsOK
    <3>3. QED
      BY <1>3, <3>1, <3>2, Zenon
  <2>2. QED
    BY <1>3, <1>7, <2>1, Zenon DEF ItemsOK
<1>10. \E W : ItemWire(s2, K2, n, w, W)
  <2>1. CASE kind = "line" /\ w = x
    <3>1. K2[n] = "line" /\ n \in 1 .. Len(s2)
      BY <1>3, <1>5, <2>1, Zenon
    <3>2. \E W : ItemWire(s2, K2, n, s2[n], W)
      BY <1>9, <3>1, LineWire, Zenon
    <3>3. QED
      BY <1>3, <2>1, <3>2, Zenon
  <2>2. CASE kind = "frame" /\ w = kiss_send(x)
    <3>1. K2[n] = "frame" /\ n \in 1 .. Len(s2)
      BY <1>3, <1>5, <2>2, Zenon
    <3>2. \E W : ItemWire(s2, K2, n, kiss_send(s2[n]), W)
      BY <1>9, <3>1, FrameWire, Zenon
    <3>3. QED
      BY <1>3, <2>2, <3>2, Zenon
  <2>3. QED
    BY <2>1, <2>2, Zenon DEF Sends
<1>11. QED
  BY <1>3, <1>5, <1>8, <1>9, <1>10, Zenon DEF IsSent

LEMMA ReadSends ==
  ASSUME NEW md, NEW ct, NEW err, NEW pz, NEW s, NEW td, NEW u, NEW hd, NEW b, NEW n, NEW esc,
         NEW lt, Read(md, ct, err, pz, s, td, u, hd, b, n, esc, lt),
         NEW x, NEW kind, NEW w, Sends(x, kind, w), NEW s2, s2 = Append(s, x),
         kind = "frame" => md # TRACKER, kind = "line" => md # KISS
  PROVE  Read(md, ct, err, pz, s2, w, u \o w, hd, b, n, esc, lt)
<1>1. PICK K, T, at : /\ Traced(s, td, u, hd, K, T, at)
                      /\ InMode(md, ct, err, pz, s, K, u, T, Len(hd), at, b, n, esc, lt)
  BY Zenon DEF Read
<1>2. ItemsOK(s, K) /\ Wire(s, K, u, T)
  BY <1>1, Zenon DEF Traced
<1>3. PICK K2, W : /\ ItemsOK(s2, K2) /\ Grown(s, K, s2, K2) /\ K2[Len(s2)] = kind
                   /\ ItemWire(s2, K2, Len(s2), w, W)
  <2>1. IsSent(s, K, s2, kind, w)
    BY <1>2, NewItem, Zenon
  <2>2. QED
    BY <2>1, Zenon DEF IsSent
<1>4. PICK J : J = Joined(T, Len(u), W, Len(w))
  BY Zenon
<1>5. Appended(s, K, u, T, s2, K2, w, W, J)
  BY <1>2, <1>3, <1>4, Appends, Zenon
<1>6. Traced(s2, w, u \o w, hd, K2, J, at)
  BY <1>1, <1>5, TracedAppends, Zenon
<1>7. kind = "line" \/ kind = "frame"
  BY Zenon DEF Sends
<1>8. md = KISS => OneLine(Len(u \o w), J)
  BY <1>1, <1>3, <1>5, <1>7, OneLineStays, Zenon DEF InMode
<1>9. md = KISS /\ ~err => KissMixed(s2, K2, u \o w, J, Len(hd), at, b, n, esc, lt)
  BY <1>1, <1>3, <1>5, <1>7, KissMixedStays, Zenon DEF InMode
<1>10. md = KISS /\ ~err /\ ct # "now" /\ pz = 0 => KissExact(s2, K2, u \o w, J, b, n, esc, lt)
  BY <1>1, <1>3, <1>5, <1>7, KissExactStays, Zenon DEF InMode
<1>11. md # KISS /\ ~err /\ ct # "now" => LineExact(s2, K2, u \o w, J, b, n)
  BY <1>1, <1>5, LineExactStays, Zenon DEF InMode
<1>12. md = TRACKER /\ ~err /\ ct # "now" => AllChars(Len(u \o w), J)
  BY <1>1, <1>3, <1>5, <1>7, AllCharsStays, Zenon DEF InMode
<1>13. InMode(md, ct, err, pz, s2, K2, u \o w, J, Len(hd), at, b, n, esc, lt)
  BY <1>8, <1>9, <1>10, <1>11, <1>12, Zenon DEF InMode
<1>14. QED
  BY <1>6, <1>13, Zenon DEF Read

-----------------------------------------------------------------------------
(* A pause, and a byte that arrives.                                         *)

LEMMA ReadPauses ==
  ASSUME NEW md, NEW ct, NEW err, NEW pz \in Nat, NEW s, NEW td, NEW u, NEW hd, NEW b, NEW n,
         NEW esc, NEW lt, Read(md, ct, err, pz, s, td, u, hd, b, n, esc, lt)
  PROVE  Read(md, ct, err, pz + 1, s, td, u, hd, b, n, esc, TRUE)
<1>1. PICK K, T, at : /\ Traced(s, td, u, hd, K, T, at)
                      /\ InMode(md, ct, err, pz, s, K, u, T, Len(hd), at, b, n, esc, lt)
  BY Zenon DEF Read
<1>2. pz + 1 # 0
  OBVIOUS
<1>3. InMode(md, ct, err, pz + 1, s, K, u, T, Len(hd), at, b, n, esc, TRUE)
  BY <1>1, <1>2, Zenon DEF InMode, KissMixed
<1>4. QED
  BY <1>1, <1>3, Zenon DEF Read

LEMMA ReadArrives ==
  ASSUME NEW md, NEW ct, NEW err, NEW pz, NEW s, NEW td, NEW u, NEW hd, NEW b, NEW n,
         NEW esc, NEW lt, Read(md, ct, err, pz, s, td, u, hd, b, n, esc, lt),
         NEW t2, Len(td) \in Nat, Len(t2) \in Nat, Len(t2) <= Len(td)
  PROVE  Read(md, ct, err, pz, s, t2, u, hd, b, n, esc, lt)
<1>1. PICK K, T, at : /\ Traced(s, td, u, hd, K, T, at)
                      /\ InMode(md, ct, err, pz, s, K, u, T, Len(hd), at, b, n, esc, lt)
  BY Zenon DEF Read
<1>2. TodoLast(s, Len(u), Len(td), T) /\ u \in Seq(Byte)
  BY <1>1, Zenon DEF Traced, Wire, Chain
<1>3. \A m \in Len(u) - Len(t2) + 1 .. Len(u) : m \in Len(u) - Len(td) + 1 .. Len(u)
  BY <1>2
<1>4. Len(t2) <= Len(u)
  BY <1>2 DEF TodoLast
<1>5. TodoLast(s, Len(u), Len(t2), T)
  BY <1>2, <1>3, <1>4, Zenon DEF TodoLast
<1>6. Traced(s, t2, u, hd, K, T, at)
  BY <1>1, <1>5, Zenon DEF Traced
<1>7. QED
  BY <1>1, <1>6, Zenon DEF Read

-----------------------------------------------------------------------------
(* The mode is switched.                                                     *)

LEMMA OneItem ==
  ASSUME NEW s, NEW td, NEW u, NEW hd, NEW K, NEW T, NEW at, Traced(s, td, u, hd, K, T, at),
         Len(td) = Len(u)
  PROVE  OneLine(Len(u), T)
<1>1. u \in Seq(Byte)
  BY Zenon DEF Traced, Wire, Chain
<1>2. \A m \in 1 .. Len(u) : m \in Len(u) - Len(td) + 1 .. Len(u)
  BY <1>1
<1>3. \A m \in 1 .. Len(u) : T[m].k = Len(s) /\ PlaceOK(s, K, T[m])
  BY <1>2, Zenon DEF Traced, TodoLast, Wire, Chain
<1>4. \A m \in 1 .. Len(u) : T[m].h = "char" <=> K[Len(s)] = "line"
  BY <1>3, Zenon DEF PlaceOK
<1>5. QED
  BY <1>3, <1>4, Zenon DEF OneLine

\* Of a switch it matters that the input is purged before KISS mode, and that the
\* counter is 0 or out of date there.
\* A switch to mode m2 with t2 to come and v to be read, instead of td and u.
SwitchTo(m2, c2, td, u, t2, v, n2, l2) ==
  /\ \E d \in 0 .. Len(u) : v = SubSeq(u, d + 1, Len(u))
  /\ Len(td) \in Nat /\ Len(t2) \in Nat /\ Len(t2) <= Len(td) /\ Len(t2) <= Len(v)
  /\ m2 = KISS => Len(t2) = Len(v) /\ (n2 = 0 \/ l2 = TRUE)
  /\ c2 # "now" => v = << >> /\ n2 = 0

LEMMA ReadSwitches ==
  ASSUME NEW md, NEW ct, NEW err, NEW pz, NEW s, NEW td, NEW u, NEW hd, NEW b, NEW n, NEW esc,
         NEW lt, Read(md, ct, err, pz, s, td, u, hd, b, n, esc, lt),
         NEW m2, NEW c2, NEW e2, NEW t2, NEW v, NEW b2, NEW n2, NEW l2,
         SwitchTo(m2, c2, td, u, t2, v, n2, l2)
  PROVE  Read(m2, c2, e2, pz, s, t2, v, hd, b2, n2, esc, l2)
<1>1. PICK K, T, at : /\ Traced(s, td, u, hd, K, T, at)
                      /\ InMode(md, ct, err, pz, s, K, u, T, Len(hd), at, b, n, esc, lt)
  BY Zenon DEF Read
<1>2. PICK d \in 0 .. Len(u) : v = SubSeq(u, d + 1, Len(u))
  BY Zenon DEF SwitchTo
<1>3. PICK V : V = Shifted(T, d, Len(u)) /\ Traced(s, t2, v, hd, K, V, at)
  <2>1. PICK V : V = Shifted(T, d, Len(u))
    BY Zenon
  <2>2. Len(td) \in Nat /\ Len(t2) \in Nat /\ Len(t2) <= Len(td) /\ Len(t2) <= Len(v)
    BY Zenon DEF SwitchTo
  <2>3. Traced(s, t2, v, hd, K, V, at)
    BY <1>1, <1>2, <2>1, <2>2, TracedDrops, Zenon
  <2>4. QED
    BY <2>1, <2>3, Zenon
<1>4. m2 = KISS => OneLine(Len(v), V)
  BY <1>3, OneItem, Zenon DEF SwitchTo
<1>5. m2 = KISS => KissMixed(s, K, v, V, Len(hd), at, b2, n2, esc, l2)
  BY Zenon DEF KissMixed, SwitchTo
<1>6. c2 # "now" => \A m \in 1 .. Len(v) : FALSE
  <2>1. \A m \in 1 .. Len(<< >>) : FALSE
    OBVIOUS
  <2>2. QED
    BY <2>1, Zenon DEF SwitchTo
<1>7. c2 # "now" => KissExact(s, K, v, V, b2, n2, esc, l2)
  BY <1>6, Zenon DEF KissExact, NoChars, Fresh, SwitchTo
<1>8. c2 # "now" => LineExact(s, K, v, V, b2, n2) /\ AllChars(Len(v), V)
  BY <1>6, Zenon DEF LineExact, AllChars, Fresh, SwitchTo
<1>9. InMode(m2, c2, e2, pz, s, K, v, V, Len(hd), at, b2, n2, esc, l2)
  BY <1>4, <1>5, <1>7, <1>8, Zenon DEF InMode
<1>10. QED
  BY <1>3, <1>9, Zenon DEF Read

-----------------------------------------------------------------------------
(* The console and the tracker poll.                                         *)

\* The first byte is taken.
LEMMA TracedReads ==
  ASSUME NEW s, NEW td, NEW u, NEW hd, NEW K, NEW T, NEW at, Traced(s, td, u, hd, K, T, at),
         u # << >>, NEW v, v = Tail(u), NEW V, V = Shifted(T, 1, Len(u)),
         Len(td) \in Nat, Len(td) <= Len(v)
  PROVE  Traced(s, td, v, hd, K, V, at)
<1>1. u \in Seq(Byte)
  BY Zenon DEF Traced, Wire, Chain
<1>2. v = SubSeq(u, 1 + 1, Len(u)) /\ 1 \in 0 .. Len(u) /\ Len(td) <= Len(td)
  BY <1>1
<1>3. QED
  BY <1>2, TracedDrops, Zenon

ReadlineOf(b, n, c) ==
  LET n1 == IF c = CR THEN n ELSE (n + 1) % LenMod
      b1 == IF c = CR THEN b ELSE [b EXCEPT ![n] = c]
      done == n1 > 0 /\ (c = CR \/ n1 >= BufLen - 1)
  IN  [line |-> IF done THEN [i \in 1 .. n1 |-> b1[i - 1]] ELSE << >>,
       buf |-> IF done THEN [b1 EXCEPT ![n1] = NUL] ELSE b1,
       readLen |-> IF done THEN 0 ELSE n1]

\* The buffer has more bytes than the counter can count: only a CR ends a line.
ReadlineGives(b, n, c, r) ==
  /\ r.buf \in [0 .. BufLen - 1 -> Cell] /\ r.readLen \in 0 .. LenMod - 1
  /\ r.line \in Seq(Cell)
  /\ c = CR => r.readLen = 0 /\ r.line = IF n > 0 THEN Taken(b, n) ELSE << >>
  /\ c # CR => /\ r.readLen = (n + 1) % LenMod /\ r.line = << >>
               /\ Stores(b, n, c, r.buf)

LEMMA ReadlineIs ==
  ASSUME NEW b \in [0 .. BufLen - 1 -> Cell], NEW n \in 0 .. LenMod - 1, NEW c \in Byte,
         NEW r, r = ReadlineOf(b, n, c)
  PROVE  ReadlineGives(b, n, c, r)
<1>1. LenMod \in Nat \ {0} /\ BufLen \in Nat /\ LenMod < BufLen
  BY BufferAssumption, FramesAssumption, Zenon
<1>2. n \in Nat /\ n \in 0 .. BufLen - 1 /\ 0 \in 0 .. LenMod - 1
  BY <1>1
<1>3. c \in Cell /\ NUL \in Cell
  BY Zenon DEF Cell
<1>4. CASE c = CR
  <2>1. CASE n > 0
    <3>1. r = [line |-> Taken(b, n), buf |-> [b EXCEPT ![n] = NUL], readLen |-> 0]
      BY <1>4, <2>1, Zenon DEF ReadlineOf, Taken
    <3>2. Taken(b, n) \in Seq(Cell)
      <4>1. \A i \in 1 .. n : b[i - 1] \in Cell
        BY <1>1, <1>2
      <4>2. QED
        BY <1>2, <4>1 DEF Taken
    <3>3. [b EXCEPT ![n] = NUL] \in [0 .. BufLen - 1 -> Cell]
      BY <1>3, Zenon
    <3>4. r.line = Taken(b, n) /\ r.buf = [b EXCEPT ![n] = NUL] /\ r.readLen = 0
      BY <3>1
    <3>5. QED
      BY <1>2, <1>4, <2>1, <3>2, <3>3, <3>4, Zenon DEF ReadlineGives
  <2>2. CASE ~(n > 0)
    <3>1. r = [line |-> << >>, buf |-> b, readLen |-> n] /\ n = 0
      <4>1. r = [line |-> << >>, buf |-> b, readLen |-> n]
        BY <1>4, <2>2, Zenon DEF ReadlineOf
      <4>2. QED
        BY <1>2, <2>2, <4>1
    <3>2. << >> \in Seq(Cell)
      OBVIOUS
    <3>3. r.line = << >> /\ r.buf = b /\ r.readLen = 0
      BY <3>1
    <3>4. QED
      BY <1>2, <1>4, <2>2, <3>2, <3>3, Zenon DEF ReadlineGives
  <2>3. QED
    BY <2>1, <2>2
<1>5. CASE c # CR
  <2>1. PICK n1 : n1 = (n + 1) % LenMod
    BY Zenon
  <2>2. n1 \in 0 .. LenMod - 1
    <3>1. \A i \in Nat : i % LenMod \in 0 .. LenMod - 1
      BY <1>1, Z3
    <3>2. n + 1 \in Nat
      BY <1>2
    <3>3. QED
      BY <2>1, <3>1, <3>2, Zenon
  <2>3. ~(n1 >= BufLen - 1)
    BY <1>1, <2>2
  <2>4. PICK b1 : b1 = [b EXCEPT ![n] = c]
    BY Zenon
  <2>5. b1 \in [0 .. BufLen - 1 -> Cell]
    BY <1>3, <2>4, Zenon
  <2>6. Stores(b, n, c, b1)
    <3>1. b1[n] = c
      BY <1>2, <2>4, Zenon
    <3>2. \A i \in 0 .. n - 1 : i \in 0 .. BufLen - 1 /\ i # n
      BY <1>1, <1>2
    <3>3. \A i \in 0 .. n - 1 : b1[i] = b[i]
      BY <2>4, <3>2, Zenon
    <3>4. QED
      BY <3>1, <3>3, Zenon DEF Stores
  <2>7. r = [line |-> << >>, buf |-> b1, readLen |-> n1]
    BY <1>5, <2>1, <2>3, <2>4, Zenon DEF ReadlineOf
  <2>8. << >> \in Seq(Cell)
    OBVIOUS
  <2>9. r.line = << >> /\ r.buf = b1 /\ r.readLen = n1
    BY <2>7
  <2>10. QED
    BY <1>5, <2>1, <2>2, <2>5, <2>6, <2>8, <2>9, Zenon DEF ReadlineGives
<1>6. QED
  BY <1>4, <1>5

\* The history variable cut, when the character c is read with v behind it.
CutLine(md, ct, c, v, c2) ==
  c2 # "now" => \/ ct # "now" /\ (c # FEND \/ md = TRACKER)
                \/ c = CR /\ FEND \notin Range(v)

LEMMA ReadsLine ==
  ASSUME NEW md, NEW ct, NEW pz, NEW s, NEW td, NEW u, NEW hd, NEW b, NEW n, NEW esc, NEW lt,
         Read(md, ct, FALSE, pz, s, td, u, hd, b, n, esc, lt), md # KISS,
         u # << >>, NEW v, v = Tail(u), Len(td) \in Nat, Len(td) <= Len(v),
         NEW c, c = Head(u), NEW r, ReadlineGives(b, n, c, r),
         NEW c2, CutLine(md, ct, c, v, c2)
  PROVE  Read(md, c2, FALSE, pz, s, td, v, hd, r.buf, r.readLen, esc, lt)
<1>1. PICK K, T, at : /\ Traced(s, td, u, hd, K, T, at)
                      /\ InMode(md, ct, FALSE, pz, s, K, u, T, Len(hd), at, b, n, esc, lt)
  BY Zenon DEF Read
<1>2. PICK V : V = Shifted(T, 1, Len(u))
  BY Zenon
<1>3. PICK q : q = T[1]
  BY Zenon
<1>4. Traced(s, td, v, hd, K, V, at)
  BY <1>1, <1>2, TracedReads, Zenon
<1>5. ItemsOK(s, K) /\ Wire(s, K, u, T)
  BY <1>1, Zenon DEF Traced
<1>6. Reads(s, K, u, T, q, v, V)
  BY <1>2, <1>3, <1>5, ReadsOne, Zenon
<1>7. c = ByteAt(s, q) /\ Linked(s, K, v, V, q) /\ Wire(s, K, v, V)
  BY <1>6, Zenon DEF Reads
<1>8. CASE c2 = "now"
  <2>1. InMode(md, c2, FALSE, pz, s, K, v, V, Len(hd), at, r.buf, r.readLen, esc, lt)
    BY <1>8, Zenon DEF InMode
  <2>2. QED
    BY <1>4, <2>1, Zenon DEF Read
<1>9. CASE ct # "now" /\ (c # FEND \/ md = TRACKER)
  <2>1. LineExact(s, K, u, T, b, n) /\ (md = TRACKER => AllChars(Len(u), T))
    BY <1>1, <1>9, Zenon DEF InMode
  <2>2. md = TRACKER => AllChars(Len(v), V)
    <3>1. \A m \in 1 .. Len(v) : m + 1 \in 1 .. Len(u) /\ V[m] = T[m + 1]
      BY <1>6, Zenon DEF Reads
    <3>2. QED
      BY <2>1, <3>1, Zenon DEF AllChars
  <2>3. c # FEND
    <3>1. SUFFICES ASSUME md = TRACKER, c = FEND
                   PROVE  FALSE
      BY <1>9, Zenon
    <3>2. u \in Seq(Byte)
      BY <1>6, Zenon DEF Reads
    <3>3. 1 \in 1 .. Len(u)
      BY <3>2
    <3>4. q.h = "char"
      BY <1>3, <2>1, <3>1, <3>3, Zenon DEF AllChars
    <3>5. PlaceOK(s, K, q)
      BY <1>7, Zenon DEF Linked
    <3>6. q.h \in {"open", "close"}
      BY <1>5, <1>7, <3>1, <3>5, EndPlace, Zenon
    <3>7. QED
      BY <3>4, <3>6, Zenon
  <2>4. CharAt(s, K, b, n, q)
    <3>1. ByteAt(s, q) # FEND
      BY <1>7, <2>3, Zenon
    <3>2. QED
      BY <1>5, <1>6, <2>1, <3>1, LineInner, Zenon
  <2>5. LineExact(s, K, v, V, r.buf, r.readLen)
    <3>1. CASE c = CR
      <4>1. ByteAt(s, q) = CR
        BY <1>7, <3>1, Zenon
      <4>2. LineDone(s, b, n, v, V)
        BY <1>7, <2>4, <4>1, LineEnds, Zenon
      <4>3. r.readLen = 0
        BY <3>1, Zenon DEF ReadlineGives
      <4>4. QED
        BY <4>2, <4>3, Zenon DEF LineExact, LineDone
    <3>2. CASE c # CR
      <4>1. r.readLen = (n + 1) % LenMod /\ Stores(b, n, c, r.buf)
        BY <3>2, Zenon DEF ReadlineGives
      <4>2. QED
        BY <1>7, <2>4, <3>2, <4>1, LineGoesOn, Zenon
    <3>3. QED
      BY <3>1, <3>2
  <2>6. InMode(md, c2, FALSE, pz, s, K, v, V, Len(hd), at, r.buf, r.readLen, esc, lt)
    BY <2>2, <2>5, Zenon DEF InMode
  <2>7. QED
    BY <1>4, <2>6, Zenon DEF Read
<1>10. CASE c = CR /\ FEND \notin Range(v)
  <2>1. ByteAt(s, q) = CR
    BY <1>7, <1>10, Zenon
  <2>2. Fresh(v, V)
    BY <1>5, <1>6, <1>10, <2>1, LastLine, Zenon
  <2>3. AllChars(Len(v), V)
    BY <1>5, <1>7, <1>10, LastLines, Zenon
  <2>4. r.readLen = 0
    BY <1>10, Zenon DEF ReadlineGives
  <2>5. LineExact(s, K, v, V, r.buf, r.readLen)
    BY <2>2, <2>4, Zenon DEF LineExact
  <2>6. InMode(md, c2, FALSE, pz, s, K, v, V, Len(hd), at, r.buf, r.readLen, esc, lt)
    BY <2>3, <2>5, Zenon DEF InMode
  <2>7. QED
    BY <1>4, <2>6, Zenon DEF Read
<1>11. QED
  BY <1>8, <1>9, <1>10, Zenon DEF CutLine

\* A line that is handed over, unless the input was cut, is one that was sent.
WholeLine(s, l) ==
  \E k \in 1 .. Len(s) :
    /\ s[k] \in Seq(Byte) /\ Last(s[k]) = CR
    /\ l = Counted(SubSeq(s[k], 1, Len(s[k]) - 1))

LEMMA LineIsWhole ==
  ASSUME NEW md, NEW ct, NEW pz, NEW s, NEW td, NEW u, NEW hd, NEW b, NEW n, NEW esc, NEW lt,
         Read(md, ct, FALSE, pz, s, td, u, hd, b, n, esc, lt), md # KISS, ct # "now",
         u # << >>, NEW c, c = Head(u), NEW r, ReadlineGives(b, n, c, r), r.line # << >>
  PROVE  WholeLine(s, r.line)
<1>1. c = CR /\ r.line = Taken(b, n)
  BY Zenon DEF ReadlineGives
<1>2. PICK K, T, at : /\ Traced(s, td, u, hd, K, T, at)
                      /\ InMode(md, ct, FALSE, pz, s, K, u, T, Len(hd), at, b, n, esc, lt)
  BY Zenon DEF Read
<1>3. ItemsOK(s, K) /\ Wire(s, K, u, T) /\ LineExact(s, K, u, T, b, n)
  BY <1>2, Zenon DEF Traced, InMode
<1>4. PICK v : v = Tail(u)
  BY Zenon
<1>5. PICK V : V = Shifted(T, 1, Len(u))
  BY Zenon
<1>6. PICK q : q = T[1]
  BY Zenon
<1>7. Reads(s, K, u, T, q, v, V)
  BY <1>3, <1>4, <1>5, <1>6, ReadsOne, Zenon
<1>8. ByteAt(s, q) = CR /\ Linked(s, K, v, V, q)
  BY <1>1, <1>7, Zenon DEF Reads
<1>9. ByteAt(s, q) # FEND
  BY <1>8, Zenon DEF CR, FEND
<1>10. CharAt(s, K, b, n, q)
  BY <1>3, <1>7, <1>9, LineInner, Zenon
<1>11. LineDone(s, b, n, v, V)
  BY <1>8, <1>10, LineEnds, Zenon
<1>12. QED
  BY <1>1, <1>11, Zenon DEF LineDone, WholeLine

-----------------------------------------------------------------------------
(* KISS mode polls.                                                          *)

\* What a poll in KISS mode starts from.
KissReads(ct, pz, s, td, u, hd, b, n, esc, lt, v, K, T, at, q, V) ==
  /\ Traced(s, td, u, hd, K, T, at) /\ Traced(s, td, v, hd, K, V, at)
  /\ ItemsOK(s, K) /\ Wire(s, K, u, T)
  /\ OneLine(Len(u), T) /\ OneLine(Len(v), V)
  /\ KissMixed(s, K, u, T, Len(hd), at, b, n, esc, lt)
  /\ ct # "now" /\ pz = 0 => KissExact(s, K, u, T, b, n, esc, lt)
  /\ Reads(s, K, u, T, q, v, V) /\ Head(u) = ByteAt(s, q)
  /\ \A m \in 1 .. Len(u) : \A i \in 1 .. Len(hd) : at[i] < T[m].k

LEMMA KissPolls ==
  ASSUME NEW ct, NEW pz, NEW s, NEW td, NEW u, NEW hd, NEW b, NEW n, NEW esc, NEW lt,
         Read(KISS, ct, FALSE, pz, s, td, u, hd, b, n, esc, lt),
         u # << >>, NEW v, v = Tail(u), Len(td) \in Nat, Len(td) <= Len(v)
  PROVE  \E K, T, at, q, V : KissReads(ct, pz, s, td, u, hd, b, n, esc, lt, v, K, T, at, q, V)
<1>1. PICK K, T, at : /\ Traced(s, td, u, hd, K, T, at)
                      /\ InMode(KISS, ct, FALSE, pz, s, K, u, T, Len(hd), at, b, n, esc, lt)
  BY Zenon DEF Read
<1>2. PICK V : V = Shifted(T, 1, Len(u))
  BY Zenon
<1>3. PICK q : q = T[1]
  BY Zenon
<1>4. Traced(s, td, v, hd, K, V, at)
  BY <1>1, <1>2, TracedReads, Zenon
<1>5. ItemsOK(s, K) /\ Wire(s, K, u, T)
  BY <1>1, Zenon DEF Traced
<1>6. Reads(s, K, u, T, q, v, V)
  BY <1>2, <1>3, <1>5, ReadsOne, Zenon
<1>7. OneLine(Len(u), T) /\ KissMixed(s, K, u, T, Len(hd), at, b, n, esc, lt)
      /\ (ct # "now" /\ pz = 0 => KissExact(s, K, u, T, b, n, esc, lt))
  BY <1>1, Zenon DEF InMode
<1>8. OneLine(Len(v), V)
  <2>1. u \in Seq(Byte)
    BY <1>6, Zenon DEF Reads
  <2>2. v = SubSeq(u, 1 + 1, Len(u)) /\ 1 \in 0 .. Len(u)
    BY <2>1
  <2>3. QED
    BY <1>2, <1>7, <2>1, <2>2, OneLineDrops, Zenon
<1>9. \A m \in 1 .. Len(u) : \A i \in 1 .. Len(hd) : at[i] < T[m].k
  BY <1>1, Zenon DEF Traced, Past
<1>10. KissReads(ct, pz, s, td, u, hd, b, n, esc, lt, v, K, T, at, q, V)
  BY <1>1, <1>4, <1>5, <1>6, <1>7, <1>8, <1>9, Zenon DEF KissReads, Reads
<1>11. QED
  BY <1>10, Zenon

LEMMA KissByte ==
  ASSUME NEW ct, NEW pz, NEW s, NEW td, NEW u, NEW hd, NEW b, NEW n \in 0 .. LenMod - 1,
         NEW esc \in BOOLEAN, NEW lt, Read(KISS, ct, FALSE, pz, s, td, u, hd, b, n, esc, lt),
         u # << >>, NEW v, v = Tail(u), Len(td) \in Nat, Len(td) <= Len(v),
         NEW c, c = Head(u), c \notin {FEND, FESC}, NEW len, len = SaneOf(n, lt),
         NEW b2, Stores(b, len, Decoded(esc, c), b2), NEW n2, n2 = (len + 1) % LenMod
  PROVE  Read(KISS, ct, FALSE, pz, s, td, v, hd, b2, n2, FALSE, FALSE)
<1>1. PICK K, T, at, q, V : KissReads(ct, pz, s, td, u, hd, b, n, esc, lt, v, K, T, at, q, V)
  BY KissPolls, Zenon
<1>2. n \in Nat /\ Sane(n, lt, len) /\ len \in 0 .. LenMod - 1
  <2>1. n \in Nat
    BY BufferAssumption
  <2>2. QED
    BY <2>1, SaneOfSane, Zenon
<1>3. c = ByteAt(s, q) /\ Reads(s, K, u, T, q, v, V) /\ ItemsOK(s, K)
  BY <1>1, Zenon DEF KissReads
<1>4. KissMixed(s, K, v, V, Len(hd), at, b2, n2, FALSE, FALSE)
  <2>1. /\ KissMixed(s, K, u, T, Len(hd), at, b, n, esc, lt) /\ OneLine(Len(u), T)
        /\ \A m \in 1 .. Len(u) : \A i \in 1 .. Len(hd) : at[i] < T[m].k
    BY <1>1, Zenon DEF KissReads
  <2>2. QED
    BY <1>2, <1>3, <2>1, MixedByte, Zenon
<1>5. ct # "now" /\ pz = 0 => KissExact(s, K, v, V, b2, n2, FALSE, FALSE)
  <2>1. SUFFICES ASSUME ct # "now", pz = 0
                 PROVE  KissExact(s, K, v, V, b2, n2, FALSE, FALSE)
    BY Zenon
  <2>2. KissExact(s, K, u, T, b, n, esc, lt)
    BY <1>1, <2>1, Zenon DEF KissReads
  <2>3. QED
    BY <1>2, <1>3, <2>2, ExactByte, Zenon
<1>6. InMode(KISS, ct, FALSE, pz, s, K, v, V, Len(hd), at, b2, n2, FALSE, FALSE)
  <2>1. OneLine(Len(v), V) /\ KISS # TRACKER
    BY <1>1, Zenon DEF KissReads, KISS, TRACKER
  <2>2. QED
    BY <1>4, <1>5, <2>1, Zenon DEF InMode
<1>7. QED
  BY <1>1, <1>6, Zenon DEF Read, KissReads

LEMMA KissEscape ==
  ASSUME NEW ct, NEW pz, NEW s, NEW td, NEW u, NEW hd, NEW b, NEW n \in 0 .. LenMod - 1,
         NEW esc \in BOOLEAN, NEW lt, Read(KISS, ct, FALSE, pz, s, td, u, hd, b, n, esc, lt),
         u # << >>, NEW v, v = Tail(u), Len(td) \in Nat, Len(td) <= Len(v),
         Head(u) = FESC, NEW len, len = SaneOf(n, lt)
  PROVE  Read(KISS, ct, FALSE, pz, s, td, v, hd, b, len, TRUE, lt)
<1>1. PICK K, T, at, q, V : KissReads(ct, pz, s, td, u, hd, b, n, esc, lt, v, K, T, at, q, V)
  BY KissPolls, Zenon
<1>2. n \in Nat /\ Sane(n, lt, len)
  <2>1. n \in Nat
    BY BufferAssumption
  <2>2. QED
    BY <2>1, SaneOfSane, Zenon
<1>3. ByteAt(s, q) = FESC /\ Reads(s, K, u, T, q, v, V) /\ ItemsOK(s, K)
  BY <1>1, Zenon DEF KissReads
<1>4. KissMixed(s, K, v, V, Len(hd), at, b, len, TRUE, lt)
  <2>1. /\ KissMixed(s, K, u, T, Len(hd), at, b, n, esc, lt) /\ OneLine(Len(u), T)
        /\ \A m \in 1 .. Len(u) : \A i \in 1 .. Len(hd) : at[i] < T[m].k
    BY <1>1, Zenon DEF KissReads
  <2>2. QED
    BY <1>2, <1>3, <2>1, MixedEscape, Zenon
<1>5. ct # "now" /\ pz = 0 => KissExact(s, K, v, V, b, len, TRUE, lt)
  <2>1. SUFFICES ASSUME ct # "now", pz = 0
                 PROVE  KissExact(s, K, v, V, b, len, TRUE, lt)
    BY Zenon
  <2>2. KissExact(s, K, u, T, b, n, esc, lt)
    BY <1>1, <2>1, Zenon DEF KissReads
  <2>3. QED
    BY <1>2, <1>3, <2>2, ExactEscape, Zenon
<1>6. InMode(KISS, ct, FALSE, pz, s, K, v, V, Len(hd), at, b, len, TRUE, lt)
  <2>1. OneLine(Len(v), V) /\ KISS # TRACKER
    BY <1>1, Zenon DEF KissReads, KISS, TRACKER
  <2>2. QED
    BY <1>4, <1>5, <2>1, Zenon DEF InMode
<1>7. QED
  BY <1>1, <1>6, Zenon DEF Read, KissReads

\* One more frame is handed over.
LEMMA TracedHands ==
  ASSUME NEW s, NEW td, NEW v, NEW hd, hd \in Seq(Seq(Cell)), NEW K, NEW V, NEW at,
         Traced(s, td, v, hd, K, V, at), NEW g, g \in Seq(Cell),
         HandsOver(s, g, v, V, Len(hd), at), NEW h2, h2 = Append(hd, g)
  PROVE  \E a2 : Traced(s, td, v, h2, K, V, a2)
<1>1. PICK k \in 1 .. Len(s) :
        EndOf(g, s[k]) /\ Past(k, Len(v), V) /\ \A i \in 1 .. Len(hd) : at[i] < k
  BY Zenon DEF HandsOver
<1>2. PICK N : N = Len(hd) + 1
  BY Zenon
<1>3. /\ Len(h2) = N /\ h2[N] = g /\ N \in 1 .. N
      /\ \A i \in 1 .. Len(hd) : h2[i] = hd[i] /\ i \in 1 .. N /\ i # N
      /\ \A i \in 1 .. N : i = N \/ i \in 1 .. Len(hd)
      /\ \A i, j \in 1 .. N : i < j => i \in 1 .. Len(hd)
  <2>1. Len(hd) \in Nat
    OBVIOUS
  <2>2. Len(h2) = N /\ h2[N] = g /\ \A i \in 1 .. Len(hd) : h2[i] = hd[i]
    BY <1>2
  <2>3. /\ N \in 1 .. N /\ \A i \in 1 .. Len(hd) : i \in 1 .. N /\ i # N
        /\ \A i \in 1 .. N : i = N \/ i \in 1 .. Len(hd)
        /\ \A i, j \in 1 .. N : i < j => i \in 1 .. Len(hd)
    BY <1>2, <2>1
  <2>4. QED
    BY <2>2, <2>3, Zenon
<1>4. PICK a2 : a2 = [i \in 1 .. N |-> IF i = N THEN k ELSE at[i]]
  BY Zenon
<1>5. a2[N] = k /\ \A i \in 1 .. Len(hd) : a2[i] = at[i]
  BY <1>3, <1>4, Zenon
<1>6. at \in [1 .. Len(hd) -> 1 .. Len(s)]
  BY Zenon DEF Traced, Given
<1>7. a2 \in [1 .. N -> 1 .. Len(s)]
  BY <1>1, <1>3, <1>4, <1>6, Zenon
<1>8. ASSUME NEW i \in 1 .. N, NEW j \in 1 .. N, i < j
      PROVE  a2[i] < a2[j]
  <2>1. i \in 1 .. Len(hd)
    BY <1>3, <1>8, Zenon
  <2>2. CASE j = N
    BY <1>1, <1>5, <2>1, <2>2, Zenon
  <2>3. CASE j \in 1 .. Len(hd)
    BY <1>5, <1>8, <2>1, <2>3, Zenon DEF Traced, Given
  <2>4. QED
    BY <1>3, <2>2, <2>3, Zenon
<1>9. ASSUME NEW i \in 1 .. N
      PROVE  EndOf(h2[i], s[a2[i]]) /\ Past(a2[i], Len(v), V)
  <2>1. CASE i = N
    BY <1>1, <1>3, <1>5, <2>1, Zenon
  <2>2. CASE i \in 1 .. Len(hd)
    BY <1>3, <1>5, <2>2, Zenon DEF Traced, Given
  <2>3. QED
    BY <1>3, <2>1, <2>2, Zenon
<1>10. Given(s, h2, a2)
  BY <1>3, <1>7, <1>8, <1>9, Zenon DEF Given
<1>11. Traced(s, td, v, h2, K, V, a2)
  BY <1>3, <1>9, <1>10, Zenon DEF Traced
<1>12. QED
  BY <1>11, Zenon

\* What a FEND hands over.
Handed(hd, b, len, esc) ==
  IF ~esc /\ len > 0 THEN Append(hd, Taken(b, len)) ELSE hd

LEMMA KissEnd ==
  ASSUME NEW ct, NEW pz, NEW s, NEW td, NEW u, NEW hd, hd \in Seq(Seq(Cell)),
         NEW b \in [0 .. BufLen - 1 -> Cell], NEW n \in 0 .. LenMod - 1,
         NEW esc \in BOOLEAN, NEW lt, Read(KISS, ct, FALSE, pz, s, td, u, hd, b, n, esc, lt),
         u # << >>, NEW v, v = Tail(u), Len(td) \in Nat, Len(td) <= Len(v),
         Head(u) = FEND, NEW len, len = SaneOf(n, lt), NEW h2, h2 = Handed(hd, b, len, esc),
         NEW c2
  PROVE  Read(KISS, c2, FALSE, pz, s, td, v, h2, b, 0, FALSE, lt)
<1>1. PICK K, T, at, q, V : KissReads(ct, pz, s, td, u, hd, b, n, esc, lt, v, K, T, at, q, V)
  BY KissPolls, Zenon
<1>2. LenMod \in Nat \ {0} /\ BufLen \in Nat /\ LenMod < BufLen
  BY BufferAssumption, FramesAssumption, Zenon
<1>3. n \in Nat /\ Sane(n, lt, len) /\ len \in 0 .. LenMod - 1
  <2>1. n \in Nat
    BY <1>2
  <2>2. QED
    BY <2>1, SaneOfSane, Zenon
<1>4. ByteAt(s, q) = FEND /\ Reads(s, K, u, T, q, v, V) /\ ItemsOK(s, K) /\ Wire(s, K, u, T)
      /\ Traced(s, td, v, hd, K, V, at) /\ OneLine(Len(v), V) /\ OneLine(Len(u), T)
      /\ KissMixed(s, K, u, T, Len(hd), at, b, n, esc, lt)
  BY <1>1, Zenon DEF KissReads
<1>5. \E a2 : Traced(s, td, v, h2, K, V, a2)
  <2>1. CASE ~esc /\ len > 0
    <3>1. len # 0 /\ esc = FALSE
      BY <1>3, <2>1
    <3>2. (\A i \in 0 .. n - 1 : b[i] \in Cell) /\ Taken(b, len) \in Seq(Cell)
      <4>1. /\ \A i \in 0 .. n - 1 : i \in 0 .. BufLen - 1
            /\ \A i \in 1 .. len : i - 1 \in 0 .. BufLen - 1
        BY <1>2, <1>3
      <4>2. (\A i \in 0 .. n - 1 : b[i] \in Cell) /\ \A i \in 1 .. len : b[i - 1] \in Cell
        BY <4>1, Zenon
      <4>3. len \in Nat
        BY <1>2, <1>3
      <4>4. Taken(b, len) \in [1 .. len -> Cell]
        BY <4>2, Zenon DEF Taken
      <4>5. Taken(b, len) \in Seq(Cell)
        BY <4>3, <4>4
      <4>6. QED
        BY <4>2, <4>5, Zenon
    <3>3. KissMixed(s, K, u, T, Len(hd), at, b, n, FALSE, lt)
      BY <1>4, <3>1, Zenon
    <3>4. HandsOver(s, Taken(b, len), v, V, Len(hd), at)
      BY <1>3, <1>4, <3>1, <3>2, <3>3, MixedEnd, Zenon
    <3>5. h2 = Append(hd, Taken(b, len))
      BY <2>1, Zenon DEF Handed
    <3>6. QED
      BY <1>4, <3>2, <3>4, <3>5, TracedHands, Zenon
  <2>2. CASE ~(~esc /\ len > 0)
    <3>1. h2 = hd
      BY <2>2, Zenon DEF Handed
    <3>2. QED
      BY <1>4, <3>1, Zenon
  <2>3. QED
    BY <2>1, <2>2
<1>6. PICK a2 : Traced(s, td, v, h2, K, V, a2)
  BY <1>5, Zenon
<1>7. KissExact(s, K, v, V, b, 0, FALSE, lt)
  BY <1>4, ExactEnd, Zenon
<1>8. InMode(KISS, c2, FALSE, pz, s, K, v, V, Len(h2), a2, b, 0, FALSE, lt)
  <2>1. KISS # TRACKER
    BY Zenon DEF KISS, TRACKER
  <2>2. KissMixed(s, K, v, V, Len(h2), a2, b, 0, FALSE, lt)
    BY Zenon DEF KissMixed
  <2>3. QED
    BY <1>4, <1>7, <2>1, <2>2, Zenon DEF InMode
<1>9. QED
  BY <1>6, <1>8, Zenon DEF Read

LEMMA FrameIsWhole ==
  ASSUME NEW ct, NEW pz, NEW s, NEW td, NEW u, NEW hd,
         NEW b, NEW n \in 0 .. LenMod - 1, NEW lt,
         Read(KISS, ct, FALSE, pz, s, td, u, hd, b, n, FALSE, lt), ct # "now", pz = 0,
         u # << >>, NEW v, v = Tail(u), Len(td) \in Nat, Len(td) <= Len(v),
         Head(u) = FEND, NEW len, len = SaneOf(n, lt), len # 0
  PROVE  WholeFrame(s, Taken(b, len))
<1>1. PICK K, T, at, q, V : KissReads(ct, pz, s, td, u, hd, b, n, FALSE, lt, v, K, T, at, q, V)
  BY KissPolls, Zenon
<1>2. ByteAt(s, q) = FEND /\ Reads(s, K, u, T, q, v, V) /\ ItemsOK(s, K)
      /\ KissExact(s, K, u, T, b, n, FALSE, lt)
  BY <1>1, Zenon DEF KissReads
<1>3. n \in Nat
  BY BufferAssumption
<1>4. QED
  BY <1>2, <1>3, ExactWhole, Zenon
=============================================================================
