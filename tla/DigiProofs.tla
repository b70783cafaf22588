----------------------------- MODULE DigiProofs -----------------------------
(***************************************************************************)
(* For any number of digipeaters and messages, any paths that fit, and     *)
(* every size of the cache, interval and clock: what a digipeater has sent *)
(* is in its cache for as long as it should be, what is in its cache has a *)
(* cause, the path keeps the calls of those it came through, and every     *)
(* copy asks for fewer hops than what it was made from.                    *)
(***************************************************************************)
EXTENDS Digi, SequenceTheorems, WellFoundedInduction, TLAPS

-----------------------------------------------------------------------------
(* Numbers.                                                                *)

LEMMA ModBelow ==
  ASSUME NEW n \in Nat, NEW m \in Nat \ {0}, n < m
  PROVE  n % m = n /\ m % m = 0
  BY Z3

LEMMA Sizes ==
  /\ MaxRpt \in Nat \ {0} /\ CacheSize \in Nat \ {0} /\ Interval \in Nat \ {0}
  /\ WrapAt \in Nat \ {0} /\ Period \in Nat \ {0}
<1>1. {MaxRpt, CacheSize, Interval, WrapAt} \subseteq Nat \ {0}
  BY SizeAssumption
<1>2. MaxRpt \in Nat \ {0} /\ CacheSize \in Nat \ {0} /\ Interval \in Nat \ {0} /\ WrapAt \in Nat \ {0}
  BY <1>1, Zenon
<1>3. QED
  BY <1>2 DEF Period

LEMMA LeastOf ==
  ASSUME NEW S \in SUBSET Nat, S # {}
  PROVE  Min(S) \in S /\ \A y \in S : Min(S) <= y
<1>1. PICK x \in S : \A y \in S : ~(<<y, x>> \in OpToRel(<, Nat))
  BY NatLessThanWellFounded, WFMin, Zenon
<1>2. \A y \in S : x <= y
  <2>1. SUFFICES ASSUME NEW y \in S, y < x
                 PROVE  FALSE
    OBVIOUS
  <2>2. <<y, x>> \in OpToRel(<, Nat)
    BY <2>1 DEF OpToRel
  <2>3. QED
    BY <1>1, <2>2, Zenon
<1>3. \E z \in S : \A y \in S : z =< y
  BY <1>2
<1>4. QED
  BY <1>3, Zenon DEF Min

-----------------------------------------------------------------------------
(* The path.                                                               *)

LEMMA FirstFound ==
  ASSUME NEW p \in Seq(Element), NEW i, i = FirstEligible(p)
  PROVE  /\ i \in 0 .. Len(p)
         /\ i # 0 => /\ i \in 1 .. Len(p) /\ Eligible(p[i])
                     /\ \A j \in 1 .. Len(p) : j < i => ~Eligible(p[j])
<1> DEFINE found == {j \in DOMAIN p : Eligible(p[j])}
<1>1. DOMAIN p = 1 .. Len(p) /\ Len(p) \in Nat
  OBVIOUS
<1>2. found \in SUBSET Nat
  BY <1>1
<1>3. i = IF found = {} THEN 0 ELSE Min(found)
  BY DEF FirstEligible
<1>4. CASE found = {}
  BY <1>1, <1>3, <1>4
<1>5. CASE found # {}
  <2>1. i = Min(found)
    BY <1>3, <1>5
  <2>2. i \in found /\ \A y \in found : i <= y
    BY <1>2, <1>5, <2>1, LeastOf, Zenon
  <2>3. i \in 1 .. Len(p) /\ Eligible(p[i])
    BY <1>1, <2>2
  <2>4. \A j \in 1 .. Len(p) : j < i => ~Eligible(p[j])
    BY <1>1, <2>2, <2>3
  <2>5. QED
    BY <1>1, <2>3, <2>4
<1>6. QED
  BY <1>4, <1>5

\* The elements before the one that is replaced stay, and no used one comes behind it.
LEMMA BehindIt ==
  ASSUME NEW p \in Paths, NEW i \in 1 .. Len(p), Eligible(p[i]),
         NEW k \in 1 .. Len(p), p[k].repeated
  PROVE  k < i
<1>1. /\ DOMAIN p = 1 .. Len(p) /\ Len(p) \in Nat
      /\ \A j, l \in DOMAIN p : j < l /\ p[l].repeated => ~Eligible(p[j])
  BY DEF Paths
<1>2. ~(i < k)
  BY <1>1
<1>3. k # i
  BY DEF Eligible
<1>4. QED
  BY <1>2, <1>3

\* q, a path of o elements, is p, one of n, with the element i used and at most the
\* one behind it rewritten or added.
Rewritten(p, n, i, q, o) ==
  /\ o >= n /\ o <= MaxRpt
  /\ o > n => i = n /\ o = n + 1
  /\ \A k \in 1 .. n : k # i /\ k # i + 1 => q[k] = p[k]
  /\ i + 1 <= n => q[i + 1] = p[i + 1] \/ ~q[i + 1].repeated
  /\ i + 1 > n /\ o > n => ~q[i + 1].repeated

LEMMA PathFrom ==
  ASSUME NEW p \in Paths, NEW n \in Nat, n = Len(p),
         NEW i \in 1 .. n, Eligible(p[i]),
         NEW q \in Seq(Element), NEW o \in Nat, o = Len(q),
         \A j \in 1 .. n : j < i => ~Eligible(p[j]),
         Rewritten(p, n, i, q, o)
  PROVE  q \in Paths /\ \A k \in 1 .. n : p[k].repeated => q[k] = p[k]
<1>1. /\ o >= n /\ o <= MaxRpt
      /\ o > n => i = n /\ o = n + 1
  BY DEF Rewritten
<1>2. \A k \in 1 .. n : k # i /\ k # i + 1 => q[k] = p[k]
  BY DEF Rewritten
<1>3. \A k \in 1 .. n : p[k].repeated => k < i
  BY BehindIt
<1>4. ASSUME NEW k \in 1 .. n, p[k].repeated
      PROVE  q[k] = p[k]
  <2>1. k # i /\ k # i + 1
    BY <1>3, <1>4
  <2>2. QED
    BY <1>2, <2>1, Zenon
<1>5. ASSUME NEW k \in 1 .. o, q[k].repeated
      PROVE  k <= i
  <2>1. k # i + 1
    <3>1. SUFFICES ASSUME k = i + 1
                   PROVE  FALSE
      OBVIOUS
    <3>2. CASE i + 1 <= n
      <4>1. q[k] = p[k] /\ k \in 1 .. n
        BY <1>5, <3>1, <3>2 DEF Rewritten
      <4>2. p[k].repeated
        BY <1>5, <4>1, Zenon
      <4>3. k < i
        BY <1>3, <4>1, <4>2, Zenon
      <4>4. QED
        BY <3>1, <4>3
    <3>3. CASE i + 1 > n
      <4>1. o > n
        BY <3>1, <3>3
      <4>2. QED
        BY <1>5, <3>1, <3>3, <4>1 DEF Rewritten
    <3>4. QED
      BY <3>2, <3>3
  <2>2. CASE k # i
    <3>1. k \in 1 .. n
      BY <1>1, <2>1, <2>2
    <3>2. p[k].repeated
      BY <1>2, <1>5, <2>1, <2>2, <3>1, Zenon
    <3>3. QED
      BY <1>3, <3>1, <3>2
  <2>3. QED
    BY <2>2
<1>6. ASSUME NEW j \in 1 .. o, NEW k \in 1 .. o, j < k, q[k].repeated
      PROVE  ~Eligible(q[j])
  <2>1. k <= i
    BY <1>5, <1>6
  <2>2. j \in 1 .. n /\ j # i /\ j # i + 1 /\ j < i
    BY <1>6, <2>1
  <2>3. q[j] = p[j]
    BY <1>2, <2>2, Zenon
  <2>4. QED
    BY <2>2, <2>3, Zenon
<1>7. DOMAIN q = 1 .. o
  OBVIOUS
<1>8. QED
  BY <1>1, <1>4, <1>6, <1>7 DEF Paths

\* The path that is sent fits, is one that the next station can take, and has the
\* used elements of the one that came.
LEMMA RepeatedPath ==
  ASSUME NEW p \in Paths, NEW d \in Digis, FirstEligible(p) # 0, ~NoSpace(p)
  PROVE  /\ Repeated(p, d) \in Paths
         /\ \A k \in DOMAIN p : p[k].repeated => Repeated(p, d)[k] = p[k]
<1>1. p \in Seq(Element) /\ Len(p) \in Nat /\ Len(p) <= MaxRpt /\ DOMAIN p = 1 .. Len(p)
  BY DEF Paths
<1>2. PICK n \in Nat : n = Len(p)
  BY <1>1, Zenon
<1>3. PICK i : i = FirstEligible(p)
  OBVIOUS
<1>4. i \in 1 .. n /\ Eligible(p[i]) /\ \A j \in 1 .. n : j < i => ~Eligible(p[j])
  BY <1>1, <1>2, <1>3, FirstFound, Zenon
<1>5. p[i] \in Element /\ p[i].ssid \in 0 .. 15 /\ p[i].ssid > 0
  <2>1. p[i] \in Element
    BY <1>1, <1>2, <1>4
  <2>2. p[i].ssid \in 0 .. 15
    BY <2>1 DEF Element
  <2>3. QED
    BY <1>4, <2>1, <2>2, Zenon DEF Eligible
<1>6. PICK mine : mine = Mine(d)
  OBVIOUS
<1>7. mine \in Element /\ mine.repeated
  BY <1>6, TrafficAssumption DEF Mine, Element
<1>8. PICK left : left = Left(p[i])
  OBVIOUS
<1>9. left \in Element /\ ~left.repeated
  <2>1. PICK e \in Element : e = p[i]
    BY <1>5
  <2>2. left = [e EXCEPT !.ssid = e.ssid - 1, !.repeated = FALSE] /\ e.ssid - 1 \in 0 .. 15
    BY <1>5, <1>8, <2>1 DEF Left
  <2>3. QED
    BY <2>2, Zenon DEF Element
<1>10. ~(p[i].ssid > 1 /\ i = MaxRpt)
  BY <1>3 DEF NoSpace
<1>11. PICK q : q = Repeated(p, d)
  OBVIOUS
<1>12. q = IF p[i].ssid = 1 THEN [p EXCEPT ![i] = mine]
           ELSE IF i = n THEN [p EXCEPT ![i] = mine] \o <<left>>
           ELSE [p EXCEPT ![i] = mine, ![i + 1] = left]
  BY <1>2, <1>3, <1>6, <1>8, <1>11, Zenon DEF Repeated
<1>. n <= MaxRpt /\ MaxRpt \in Nat
  BY <1>1, <1>2, Sizes, Zenon
<1>13. q \in Seq(Element) /\ Len(q) \in Nat /\ Rewritten(p, n, i, q, Len(q))
  <2>1. PICK r : r = [p EXCEPT ![i] = mine]
    BY Zenon
  <2>2. /\ r \in Seq(Element) /\ Len(r) = n
        /\ r[i] = mine /\ \A k \in 1 .. n : k # i => r[k] = p[k]
    BY <1>1, <1>2, <1>4, <1>7, <2>1
  <2>3. CASE p[i].ssid = 1
    <3>1. q = r
      BY <1>12, <2>1, <2>3, Zenon
    <3>2. Len(q) = n /\ q \in Seq(Element)
      BY <2>2, <3>1, Zenon
    <3>3. QED
      BY <1>4, <2>2, <3>1, <3>2 DEF Rewritten
  <2>4. CASE p[i].ssid # 1 /\ i = n
    <3>1. q = r \o <<left>>
      BY <1>12, <2>1, <2>4, Zenon
    <3>2. q \in Seq(Element) /\ Len(q) = n + 1 /\ q[n + 1] = left /\ \A k \in 1 .. n : q[k] = r[k]
      BY <1>9, <2>2, <3>1
    <3>3. n + 1 <= MaxRpt
      <4>1. PICK s \in Nat : s = p[i].ssid
        BY <1>5
      <4>2. s > 1
        BY <1>5, <2>4, <4>1
      <4>3. n # MaxRpt
        BY <1>10, <2>4, <4>1, <4>2, Zenon
      <4>4. QED
        BY <4>3
    <3>4. ~q[i + 1].repeated
      BY <1>9, <2>4, <3>2, Zenon
    <3>5. \A k \in 1 .. n : k # i => q[k] = p[k]
      BY <2>2, <3>2, Zenon
    <3>6. QED
      BY <2>4, <3>2, <3>3, <3>4, <3>5 DEF Rewritten
  <2>5. CASE p[i].ssid # 1 /\ i # n
    <3>1. q = [r EXCEPT ![i + 1] = left]
      BY <1>12, <2>1, <2>5, Zenon
    <3>2. i + 1 \in 1 .. n
      BY <1>4, <2>5
    <3>3. q \in Seq(Element) /\ Len(q) = n /\ q[i + 1] = left /\ \A k \in 1 .. n : k # i + 1 => q[k] = r[k]
      BY <1>9, <2>2, <3>1, <3>2
    <3>4. \A k \in 1 .. n : k # i /\ k # i + 1 => q[k] = p[k]
      BY <2>2, <3>3, Zenon
    <3>5. ~q[i + 1].repeated
      BY <1>9, <3>3, Zenon
    <3>6. QED
      BY <3>2, <3>3, <3>4, <3>5 DEF Rewritten
  <2>6. QED
    BY <2>3, <2>4, <2>5, Zenon
<1>14. q \in Paths /\ \A k \in 1 .. n : p[k].repeated => q[k] = p[k]
  BY <1>2, <1>4, <1>13, PathFrom, ZenonT(30)
<1>15. QED
  BY <1>1, <1>2, <1>11, <1>14, Zenon

-----------------------------------------------------------------------------
(* The hops.                                                               *)

\* F adds up the hops that the first N elements ask for.
Adds(p, N, F) ==
  /\ F \in [0 .. N -> Nat] /\ F[0] = 0
  /\ \A n \in 1 .. N : F[n] = F[n - 1] + Asks(p[n])

LEMMA AsksNat ==
  ASSUME NEW e \in Element
  PROVE  Asks(e) \in Nat
BY DEF Asks, Element

LEMMA AddsExist ==
  ASSUME NEW p \in Seq(Element), NEW N \in 0 .. Len(p)
  PROVE  \E F : Adds(p, N, F)
<1> DEFINE Good(n) == \E F : Adds(p, n, F)
           Bad == {n \in 0 .. Len(p) : ~Good(n)}
<1>1. SUFFICES ASSUME Bad # {}
               PROVE  FALSE
  BY Zenon
<1>2. PICK n \in Bad : \A y \in Bad : n <= y
  <2>1. Bad \in SUBSET Nat
    BY SMT
  <2>2. QED
    BY <1>1, <2>1, LeastOf, Zenon
<1>3. n \in 0 .. Len(p) /\ ~Good(n)
  BY <1>2, Zenon
<1>4. CASE n = 0
  <2>1. PICK F : F = [i \in 0 .. 0 |-> 0]
    BY Zenon
  <2>2. Adds(p, 0, F)
    BY <2>1 DEF Adds
  <2>3. QED
    BY <1>3, <1>4, <2>2, Zenon
<1>5. CASE n # 0
  <2>1. n - 1 \in 0 .. Len(p) /\ ~(n <= n - 1) /\ n \in 1 .. Len(p)
    BY <1>3, <1>5
  <2>2. Good(n - 1)
    BY <1>2, <2>1, Zenon
  <2>3. PICK F : Adds(p, n - 1, F)
    BY <2>2, Zenon
  <2>4. PICK G : G = [i \in 0 .. n |-> IF i = n THEN F[n - 1] + Asks(p[n]) ELSE F[i]]
    BY Zenon
  <2>5. F[n - 1] + Asks(p[n]) \in Nat
    <3>1. p[n] \in Element /\ n - 1 \in 0 .. n - 1
      BY <2>1
    <3>2. Asks(p[n]) \in Nat /\ F[n - 1] \in Nat
      BY <2>3, <3>1, AsksNat, Zenon DEF Adds
    <3>3. QED
      BY <3>2
  <2>6. G \in [0 .. n -> Nat]
    <3>1. \A i \in 0 .. n : i = n \/ i \in 0 .. n - 1
      BY <1>3
    <3>2. QED
      BY <2>3, <2>4, <2>5, <3>1, Zenon DEF Adds
  <2>7. G[0] = 0
    <3>1. 0 \in 0 .. n /\ 0 # n
      BY <1>3, <1>5
    <3>2. QED
      BY <2>3, <2>4, <3>1, Zenon DEF Adds
  <2>8. ASSUME NEW i \in 1 .. n
        PROVE  G[i] = G[i - 1] + Asks(p[i])
    <3>1. i \in 0 .. n /\ i - 1 \in 0 .. n /\ i - 1 # n
      BY <1>3, <2>8
    <3>2. G[i - 1] = F[i - 1] /\ G[i] = IF i = n THEN F[n - 1] + Asks(p[n]) ELSE F[i]
      BY <2>4, <3>1, Zenon
    <3>3. CASE i = n
      BY <3>2, <3>3, Zenon
    <3>4. CASE i # n
      <4>1. i \in 1 .. n - 1
        BY <1>3, <2>8, <3>4
      <4>2. F[i] = F[i - 1] + Asks(p[i])
        BY <2>3, <4>1, Zenon DEF Adds
      <4>3. QED
        BY <3>2, <3>4, <4>2, Zenon
    <3>5. QED
      BY <3>3, <3>4, Zenon
  <2>9. QED
    BY <1>3, <2>6, <2>7, <2>8, Zenon DEF Adds
<1>6. QED
  BY <1>4, <1>5, Zenon

\* What the recursion of Hops computes.
LEMMA HopsAdds ==
  ASSUME NEW p \in Seq(Element)
  PROVE  \E F : Adds(p, Len(p), F) /\ Hops(p) = F[Len(p)]
<1>1. Len(p) \in 0 .. Len(p) /\ Len(p) \in Nat
  OBVIOUS
<1>2. PICK G : Adds(p, Len(p), G)
  BY <1>1, AddsExist, Zenon
<1>3. G = [n \in 0 .. Len(p) |-> IF n = 0 THEN 0 ELSE G[n - 1] + Asks(p[n])]
  <2>1. \A n \in 0 .. Len(p) : n # 0 => n \in 1 .. Len(p)
    BY <1>1
  <2>2. \A n \in 0 .. Len(p) : G[n] = IF n = 0 THEN 0 ELSE G[n - 1] + Asks(p[n])
    BY <1>2, <2>1, Zenon DEF Adds
  <2>3. QED
    BY <1>2, <2>2, Zenon DEF Adds
<1> DEFINE Eq(g) == g = [n \in 0 .. Len(p) |->
                           IF n = 0 THEN 0 ELSE g[n - 1] + Asks(p[n])]
           H == CHOOSE g : Eq(g)
<1>4. Eq(H)
  BY <1>3, Zenon
<1>5. Hops(p) = H[Len(p)]
  BY Zenon DEF Hops
<1>6. \A n \in 0 .. Len(p) : H[n] = G[n]
  <2> HIDE DEF H
  <2> DEFINE Diff == {n \in 0 .. Len(p) : H[n] # G[n]}
  <2>1. SUFFICES ASSUME Diff # {}
                 PROVE  FALSE
    BY Zenon
  <2>2. Diff \in SUBSET Nat
    BY SMT
  <2>3. PICK n \in Diff : \A y \in Diff : n <= y
    BY <2>1, <2>2, LeastOf, Zenon
  <2>4. n \in 0 .. Len(p) /\ H[n] # G[n]
    BY <2>3, Zenon
  <2>5. H[n] = IF n = 0 THEN 0 ELSE H[n - 1] + Asks(p[n])
    BY <1>4, <2>4, Zenon
  <2>6. G[n] = IF n = 0 THEN 0 ELSE G[n - 1] + Asks(p[n])
    BY <1>3, <2>4, Zenon
  <2>7. n # 0
    BY <2>4, <2>5, <2>6, Zenon
  <2>8. n - 1 \in 0 .. Len(p) /\ ~(n <= n - 1)
    BY <2>4, <2>7
  <2>9. H[n - 1] = G[n - 1]
    BY <2>3, <2>8, Zenon
  <2>10. QED
    BY <2>4, <2>5, <2>6, <2>7, <2>9, Zenon
<1>7. QED
  BY <1>1, <1>2, <1>5, <1>6, Zenon

\* Two paths that begin alike ask for as many hops up to there.
LEMMA SumsAgree ==
  ASSUME NEW p, NEW N \in Nat, NEW F, Adds(p, N, F), NEW q, NEW M \in Nat, NEW G, Adds(q, M, G),
         NEW a \in Nat, a <= N, a <= M, \A k \in 1 .. a : q[k] = p[k]
  PROVE  F[a] = G[a]
<1> DEFINE Diff == {k \in 0 .. a : F[k] # G[k]}
<1>1. SUFFICES ASSUME Diff # {}
               PROVE  FALSE
  <2>1. a \in 0 .. a
    OBVIOUS
  <2>2. QED
    BY <2>1, Zenon
<1>2. Diff \in SUBSET Nat
  BY SMT
<1>3. PICK n \in Diff : \A y \in Diff : n <= y
  BY <1>1, <1>2, LeastOf, Zenon
<1>4. n \in 0 .. a /\ F[n] # G[n]
  BY <1>3, Zenon
<1>5. n # 0
  BY <1>4, Zenon DEF Adds
<1>6. n - 1 \in 0 .. a /\ ~(n <= n - 1) /\ n \in 1 .. N /\ n \in 1 .. M /\ n \in 1 .. a
  BY <1>4, <1>5
<1>7. F[n - 1] = G[n - 1]
  BY <1>3, <1>6, Zenon
<1>8. F[n] = F[n - 1] + Asks(p[n]) /\ G[n] = G[n - 1] + Asks(q[n]) /\ q[n] = p[n]
  BY <1>6, Zenon DEF Adds
<1>9. QED
  BY <1>4, <1>7, <1>8, Zenon

\* Of two paths that end alike the one that asks for less up to there asks for less.
LEMMA SumsBelow ==
  ASSUME NEW p \in Seq(Element), NEW N \in Nat, N = Len(p), NEW F, Adds(p, N, F),
         NEW q, NEW G, Adds(q, N, G),
         NEW a \in 0 .. N, G[a] < F[a], \A k \in 1 .. N : k > a => q[k] = p[k]
  PROVE  G[N] < F[N]
<1> DEFINE Less(k) == G[k] < F[k]
           Diff == {k \in a .. N : ~Less(k)}
<1>1. SUFFICES ASSUME Diff # {}
               PROVE  FALSE
  <2>1. N \in a .. N
    OBVIOUS
  <2>2. QED
    BY <2>1, Zenon
<1>2. Diff \in SUBSET Nat
  BY SMT
<1>3. PICK n \in Diff : \A y \in Diff : n <= y
  BY <1>1, <1>2, LeastOf, Zenon
<1>4. n \in a .. N /\ ~Less(n)
  BY <1>3, Zenon
<1>5. n # a
  BY <1>4, Zenon
<1>6. n - 1 \in a .. N /\ ~(n <= n - 1) /\ n \in 1 .. N /\ n > a /\ n - 1 \in 0 .. N
  BY <1>4, <1>5
<1>7. Less(n - 1)
  BY <1>3, <1>6, Zenon
<1>8. F[n] = F[n - 1] + Asks(p[n]) /\ G[n] = G[n - 1] + Asks(q[n]) /\ q[n] = p[n]
  BY <1>6, Zenon DEF Adds
<1>9. F[n - 1] \in Nat /\ G[n - 1] \in Nat
  BY <1>6, Zenon DEF Adds
<1>10. Asks(p[n]) \in Nat
  <2>1. p[n] \in Element
    BY <1>6
  <2>2. QED
    BY <2>1, AsksNat, Zenon
<1>11. PICK x, y, c : x = F[n - 1] /\ y = G[n - 1] /\ c = Asks(p[n])
  BY Zenon
<1>12. x \in Nat /\ y \in Nat /\ c \in Nat /\ y < x /\ ~(y + c < x + c)
  BY <1>4, <1>7, <1>8, <1>9, <1>10, <1>11, Zenon
<1>13. QED
  BY <1>12

\* The hops that are left are one less than the element had, and one that is used asks
\* for none.
LEMMA AsksLess ==
  ASSUME NEW e \in Element, Eligible(e), NEW d \in Digis
  PROVE  /\ Mine(d) \in Element /\ Left(e) \in Element
         /\ Asks(Mine(d)) = 0 /\ Asks(Left(e)) < Asks(e) /\ Asks(e) = e.ssid
<1>1. e.ssid \in 0 .. 15 /\ e.ssid > 0
  BY DEF Element, Eligible
<1>2. PICK f : f = Left(e)
  BY Zenon
<1>3. f = [e EXCEPT !.ssid = e.ssid - 1, !.repeated = FALSE] /\ e.ssid - 1 \in 0 .. 15
  BY <1>1, <1>2 DEF Left
<1>4. f \in Element /\ f.ssid = e.ssid - 1
  BY <1>3, Zenon DEF Element
<1>5. Asks(f) = f.ssid \/ Asks(f) = 0
  BY Zenon DEF Asks
<1>6. Asks(e) = e.ssid
  BY Zenon DEF Asks
<1>7. Asks(f) < Asks(e)
  BY <1>1, <1>4, <1>5, <1>6
<1>8. PICK g : g = Mine(d)
  BY Zenon
<1>9. g \in Element /\ g.repeated
  BY <1>8, TrafficAssumption DEF Mine, Element
<1>10. Asks(g) = 0
  BY <1>9, Zenon DEF Asks, Eligible
<1>11. QED
  BY <1>2, <1>4, <1>6, <1>7, <1>8, <1>9, <1>10, Zenon

\* The path that is sent asks for fewer hops than the one that came.
LEMMA FewerHops ==
  ASSUME NEW p \in Seq(Element), NEW d \in Digis, FirstEligible(p) # 0
  PROVE  Hops(Repeated(p, d)) < Hops(p)
<1>1. PICK n : n = Len(p) /\ n \in Nat
  OBVIOUS
<1>2. PICK i : i = FirstEligible(p)
  BY Zenon
<1>3. i \in 1 .. n /\ Eligible(p[i])
  BY <1>1, <1>2, FirstFound, Zenon
<1>4. PICK e : e = p[i] /\ e \in Element
  BY <1>1, <1>3
<1>5. PICK mine, left : mine = Mine(d) /\ left = Left(e)
  BY Zenon
<1>6. /\ mine \in Element /\ left \in Element
      /\ Asks(mine) = 0 /\ Asks(left) < Asks(e)
  BY <1>3, <1>4, <1>5, AsksLess, Zenon
<1>7. Asks(left) \in Nat /\ Asks(e) \in Nat
  BY <1>4, <1>6, AsksNat, Zenon
<1>8. PICK q : q = Repeated(p, d)
  BY Zenon
<1>9. q = IF e.ssid = 1 THEN [p EXCEPT ![i] = mine]
          ELSE IF i = n THEN [p EXCEPT ![i] = mine] \o <<left>>
          ELSE [p EXCEPT ![i] = mine, ![i + 1] = left]
  BY <1>1, <1>2, <1>4, <1>5, <1>8, Zenon DEF Repeated
<1>10. PICK r : r = [p EXCEPT ![i] = mine]
  BY Zenon
<1>11. /\ r \in Seq(Element) /\ Len(r) = n
       /\ r[i] = mine /\ \A k \in 1 .. n : k # i => r[k] = p[k]
  BY <1>1, <1>3, <1>6, <1>10
<1>12. PICK F : Adds(p, n, F) /\ Hops(p) = F[n]
  BY <1>1, HopsAdds, Zenon
<1>13. i - 1 \in 0 .. n /\ i - 1 \in Nat /\ i \in 0 .. n
  BY <1>1, <1>3
<1>14. F[i] = F[i - 1] + Asks(e) /\ F[i - 1] \in Nat
  BY <1>3, <1>4, <1>12, <1>13, Zenon DEF Adds
\* Up to the element that is used.
<1>15. ASSUME NEW m \in Nat, n <= m, NEW G, Adds(q, m, G),
              \A k \in 1 .. n : k < i => q[k] = p[k], q[i] = mine
       PROVE  G[i] = F[i - 1]
  <2>1. i - 1 <= n /\ i - 1 <= m /\ i \in 1 .. m
    BY <1>1, <1>3, <1>15
  <2>2. \A k \in 1 .. i - 1 : k \in 1 .. n /\ k < i
    BY <1>1, <1>3
  <2>3. \A k \in 1 .. i - 1 : q[k] = p[k]
    BY <1>15, <2>2, Zenon
  <2>4. F[i - 1] = G[i - 1]
    <3>1. PICK b : b = i - 1 /\ b \in Nat
      BY <1>13, Zenon
    <3>2. b \in Nat /\ b <= n /\ b <= m /\ \A k \in 1 .. b : q[k] = p[k]
      BY <2>1, <2>3, <3>1, Zenon
    <3>3. Adds(p, n, F) /\ Adds(q, m, G) /\ n \in Nat /\ m \in Nat
      BY <1>1, <1>12, <1>15, Zenon
    <3>4. F[b] = G[b]
      BY <3>2, <3>3, SumsAgree, SMT
    <3>5. QED
      BY <3>1, <3>4, Zenon
  <2>5. G[i] = F[i - 1] + 0
    BY <1>6, <1>15, <2>1, <2>4, Zenon DEF Adds
  <2>6. QED
    BY <1>14, <2>5
<1>16. CASE e.ssid = 1
  <2>1. q = r
    BY <1>9, <1>10, <1>16, Zenon
  <2>2. PICK G : Adds(q, n, G) /\ Hops(q) = G[n]
    BY <1>11, <2>1, HopsAdds, Zenon
  <2>3. (\A k \in 1 .. n : k < i => q[k] = p[k]) /\ \A k \in 1 .. n : k > i => q[k] = p[k]
    BY <1>3, <1>11, <2>1
  <2>4. G[i] = F[i - 1]
    <3>1. n <= n
      BY <1>1
    <3>2. QED
      BY <1>1, <1>11, <1>15, <2>1, <2>2, <2>3, <3>1, Zenon
  <2>5. G[i] < F[i]
    BY <1>6, <1>7, <1>14, <2>4
  <2>6. G[n] < F[n]
    <3>1. Adds(p, n, F) /\ Adds(q, n, G) /\ n \in Nat /\ n = Len(p) /\ i \in 0 .. n
      BY <1>1, <1>12, <1>13, <2>2, Zenon
    <3>2. \A k \in 1 .. n : k > i => q[k] = p[k]
      BY <2>3, Zenon
    <3>3. QED
      BY <2>5, <3>1, <3>2, SumsBelow, Zenon
  <2>7. QED
    BY <1>8, <1>12, <2>2, <2>6, Zenon
<1>17. CASE e.ssid # 1 /\ i = n
  <2>1. q = r \o <<left>>
    BY <1>9, <1>10, <1>17, Zenon
  <2>2. PICK m : m = n + 1 /\ m \in Nat /\ n <= m /\ m \in 1 .. m /\ m - 1 = n
    BY <1>1
  <2>3. q \in Seq(Element) /\ Len(q) = m /\ q[m] = left /\ \A k \in 1 .. n : q[k] = r[k]
    BY <1>6, <1>11, <2>1, <2>2
  <2>4. PICK G : Adds(q, m, G) /\ Hops(q) = G[m]
    BY <2>3, HopsAdds, Zenon
  <2>5. \A k \in 1 .. n : k < i => q[k] = p[k]
    BY <1>3, <1>11, <2>3
  <2>6. q[i] = mine
    BY <1>3, <1>11, <2>3, Zenon
  <2>7. G[n] = F[n - 1]
    BY <1>15, <1>17, <2>2, <2>4, <2>5, <2>6, Zenon
  <2>8. G[m] = F[n - 1] + Asks(left)
    BY <2>2, <2>3, <2>4, <2>7, Zenon DEF Adds
  <2>9. G[m] < F[n]
    BY <1>6, <1>7, <1>14, <1>17, <2>8
  <2>10. QED
    BY <1>8, <1>12, <2>4, <2>9, Zenon
<1>18. CASE e.ssid # 1 /\ i # n
  <2>1. q = [r EXCEPT ![i + 1] = left]
    BY <1>9, <1>10, <1>18, Zenon
  <2>2. PICK o : o = i + 1 /\ o \in 1 .. n /\ o \in 0 .. n /\ o - 1 = i /\ o # i
    BY <1>1, <1>3, <1>18
  <2>3. q \in Seq(Element) /\ Len(q) = n /\ q[o] = left /\ \A k \in 1 .. n : k # o => q[k] = r[k]
    BY <1>6, <1>11, <2>1, <2>2
  <2>4. PICK G : Adds(q, n, G) /\ Hops(q) = G[n]
    BY <2>3, HopsAdds, Zenon
  <2>5. (\A k \in 1 .. n : k < i => k # i /\ k # o) /\ \A k \in 1 .. n : k > o => k # i /\ k # o
    BY <1>3, <2>2
  <2>6. (\A k \in 1 .. n : k < i => q[k] = p[k]) /\ \A k \in 1 .. n : k > o => q[k] = p[k]
    BY <1>11, <2>3, <2>5, Zenon
  <2>7. q[i] = mine
    BY <1>3, <1>11, <2>2, <2>3, Zenon
  <2>8. G[i] = F[i - 1]
    <3>1. n <= n
      BY <1>1
    <3>2. QED
      BY <1>1, <1>15, <2>4, <2>6, <2>7, <3>1, Zenon
  <2>9. G[o] = G[i] + Asks(left) /\ F[o] = F[i] + Asks(p[o])
    BY <1>12, <2>2, <2>3, <2>4, Zenon DEF Adds
  <2>10. Asks(p[o]) \in Nat
    <3>1. p[o] \in Element
      BY <1>1, <2>2
    <3>2. QED
      BY <3>1, AsksNat, Zenon
  <2>11. G[o] < F[o]
    BY <1>6, <1>7, <1>14, <2>8, <2>9, <2>10
  <2>12. G[n] < F[n]
    <3>1. Adds(p, n, F) /\ Adds(q, n, G) /\ n \in Nat /\ n = Len(p) /\ o \in 0 .. n
      BY <1>1, <1>12, <2>2, <2>4, Zenon
    <3>2. \A k \in 1 .. n : k > o => q[k] = p[k]
      BY <2>6, Zenon
    <3>3. QED
      BY <2>11, <3>1, <3>2, SumsBelow, Zenon
  <2>13. QED
    BY <1>8, <1>12, <2>4, <2>12, Zenon
<1>19. QED
  BY <1>16, <1>17, <1>18, Zenon

-----------------------------------------------------------------------------
(* The invariant.                                                          *)

Message == [id : Messages, path : Paths]
Sent == [id : Messages, path : Paths, hearers : SUBSET Digis]
Slot == [hash : Nat, timestamp : -WrapAt .. WrapAt - 1]

Since == [Messages -> [seconds : 0 .. Interval, entries : 0 .. CacheSize]]
Made == [Hashes -> SUBSET (0 .. Period)]
Ring == [1 .. CacheSize -> Slot]

TypeInv ==
  /\ cache \in [Digis -> Ring]
  /\ cacheIndex \in [Digis -> 0 .. CacheSize]
  /\ heard \in [Digis -> Seq(Message)]
  /\ now \in 0 .. Period - 1
  /\ sources \in Seq(Sent)
  /\ since \in [Digis -> Since]
  /\ made \in [Digis -> Made]

\* The slot that was written e entries before the one at i.
Back(i, e) == IF e < i THEN i - e ELSE i - e + CacheSize

\* Unless its time is over or its slot has been used again, a message that was sent
\* has an entry c, with the time of it.
Kept(c, i, s, t) ==
  \A m \in Messages :
    s[m].seconds < Interval /\ s[m].entries < CacheSize =>
      /\ i > 0
      /\ c[Back(i, s[m].entries)].hash = Hash[m]
      /\ t - c[Back(i, s[m].entries)].timestamp = s[m].seconds

\* An entry that was never used, or one that was made a ago by the clock.
Explained(e, g, t) ==
  \/ e.hash = 0 /\ e.timestamp = 0
  \/ /\ e.hash \in Hashes
     /\ \E a \in g[e.hash] : a = Period \/ t - e.timestamp = a \/ t - e.timestamp = a - Period

IInv ==
  /\ TypeInv
  /\ \A d \in Digis : Kept(cache[d], cacheIndex[d], since[d], CurrentTime)
  /\ \A d \in Digis : \A k \in 1 .. CacheSize : Explained(cache[d][k], made[d], CurrentTime)

-----------------------------------------------------------------------------
(* The ring.                                                               *)

LEMMA NextPlace ==
  ASSUME NEW i \in 0 .. CacheSize
  PROVE  /\ (i % CacheSize) + 1 = IF i = CacheSize THEN 1 ELSE i + 1
         /\ (i % CacheSize) + 1 \in 1 .. CacheSize
<1>1. CASE i = CacheSize
  <2>1. i % CacheSize = 0
    BY <1>1, ModBelow, Sizes
  <2>2. QED
    BY <1>1, <2>1, Sizes
<1>2. CASE i # CacheSize
  <2>1. i \in Nat /\ i < CacheSize
    BY <1>2, Sizes
  <2>2. i % CacheSize = i
    BY <2>1, ModBelow, Sizes
  <2>3. QED
    BY <1>2, <2>1, <2>2, Sizes
<1>3. QED
  BY <1>1, <1>2

\* One more entry moves the slots one further back, and does not use those that are
\* fewer than CacheSize entries old.
LEMMA BackPlace ==
  ASSUME NEW i \in 1 .. CacheSize, NEW e \in 0 .. CacheSize - 1
  PROVE  Back(i, e) \in 1 .. CacheSize
  BY Sizes DEF Back

LEMMA BackNext ==
  ASSUME NEW i \in 1 .. CacheSize, NEW n, n = (i % CacheSize) + 1,
         NEW e \in Nat, e + 1 < CacheSize
  PROVE  Back(n, e + 1) = Back(i, e) /\ Back(i, e) # n
<1>1. n = IF i = CacheSize THEN 1 ELSE i + 1
  <2>1. i \in 0 .. CacheSize
    BY Sizes
  <2>2. QED
    BY <2>1, NextPlace, Zenon
<1>2. CASE i = CacheSize
  BY <1>1, <1>2, Sizes DEF Back
<1>3. CASE i # CacheSize
  BY <1>1, <1>3, Sizes DEF Back
<1>4. QED
  BY <1>2, <1>3

\* What an entry makes of a ring and of the histories.
Stored(c, n, m, t) == [c EXCEPT ![n] = [hash |-> Hash[m], timestamp |-> t]]
Counted(s, sent) ==
  [x \in Messages |-> [seconds |-> IF x \in sent THEN 0 ELSE s[x].seconds,
                       entries |-> IF x \in sent THEN 0 ELSE UpTo(s[x].entries + 1, CacheSize)]]
Recorded(g, m) == [g EXCEPT ![Hash[m]] = @ \union {0}]

LEMMA KeptEntry ==
  ASSUME NEW c \in Ring, NEW i \in 0 .. CacheSize,
         NEW s \in Since,
         NEW t \in Int, NEW m \in Messages, NEW sent, sent \subseteq {m},
         NEW n, n = (i % CacheSize) + 1,
         Kept(c, i, s, t)
  PROVE  Kept(Stored(c, n, m, t), n, Counted(s, sent), t)
<1>0. PICK c2, s2 : c2 = Stored(c, n, m, t) /\ s2 = Counted(s, sent)
  OBVIOUS
<1>1. n \in 1 .. CacheSize /\ n > 0
  <2>1. n \in 1 .. CacheSize
    BY NextPlace, Zenon
  <2>2. \A k \in 1 .. CacheSize : k > 0
    BY Sizes
  <2>3. QED
    BY <2>1, <2>2, Zenon
<1>2. SUFFICES ASSUME NEW x \in Messages, s2[x].seconds < Interval, s2[x].entries < CacheSize
               PROVE  /\ c2[Back(n, s2[x].entries)].hash = Hash[x]
                      /\ t - c2[Back(n, s2[x].entries)].timestamp = s2[x].seconds
  BY <1>0, <1>1, Zenon DEF Kept
<1>3. CASE x \in sent
  <2>1. x = m /\ s2[x].seconds = 0 /\ s2[x].entries = 0
    BY <1>0, <1>3 DEF Counted
  <2>2. Back(n, 0) = n
    BY <1>1 DEF Back
  <2>3. c2[n].hash = Hash[m] /\ c2[n].timestamp = t
    BY <1>0, <1>1 DEF Stored, Ring
  <2>4. t - t = 0
    OBVIOUS
  <2>5. QED
    BY <2>1, <2>2, <2>3, <2>4, Zenon
<1>4. CASE x \notin sent
  <2>1. PICK e \in 0 .. CacheSize, u \in 0 .. Interval : e = s[x].entries /\ u = s[x].seconds
    BY DEF Since
  <2>2. s2[x].seconds = u /\ s2[x].entries = UpTo(e + 1, CacheSize)
    BY <1>0, <1>4, <2>1 DEF Counted
  <2>3. e \in Nat /\ e + 1 < CacheSize /\ UpTo(e + 1, CacheSize) = e + 1
    BY <1>2, <2>2, Sizes DEF UpTo
  <2>4. u < Interval /\ e < CacheSize
    BY <1>2, <2>2, <2>3, Sizes
  <2>5. i > 0 /\ c[Back(i, e)].hash = Hash[x] /\ t - c[Back(i, e)].timestamp = u
    BY <2>1, <2>4, Zenon DEF Kept
  <2>6. i \in 1 .. CacheSize /\ e \in 0 .. CacheSize - 1
    BY <2>3, <2>5, Sizes
  <2>7. Back(n, e + 1) = Back(i, e) /\ Back(i, e) # n /\ Back(i, e) \in 1 .. CacheSize
    BY <2>3, <2>6, BackNext, BackPlace
  <2>8. c2[Back(i, e)] = c[Back(i, e)]
    BY <1>0, <2>7 DEF Stored, Ring
  <2>9. QED
    BY <2>2, <2>3, <2>5, <2>7, <2>8, Zenon
<1>5. QED
  BY <1>3, <1>4

LEMMA KeptTick ==
  ASSUME NEW c, NEW i, NEW s, NEW s2, NEW t \in Int, NEW t2 \in Int, Kept(c, i, s, t),
         c \in Ring, i \in 0 .. CacheSize,
         s \in Since,
         \A x \in Messages :
           /\ s2[x].entries = s[x].entries
           /\ s2[x].seconds = Interval \/ (s2[x].seconds = s[x].seconds + 1 /\ t2 = t + 1)
  PROVE  Kept(c, i, s2, t2)
<1>1. SUFFICES ASSUME NEW x \in Messages, s2[x].seconds < Interval, s2[x].entries < CacheSize
               PROVE  /\ i > 0 /\ c[Back(i, s2[x].entries)].hash = Hash[x]
                      /\ t2 - c[Back(i, s2[x].entries)].timestamp = s2[x].seconds
  BY Zenon DEF Kept
<1>2. PICK e \in 0 .. CacheSize, u \in 0 .. Interval : e = s[x].entries /\ u = s[x].seconds
  BY DEF Since
<1>3. s2[x].entries = e /\ s2[x].seconds = u + 1 /\ t2 = t + 1
  BY <1>1, <1>2, Sizes
<1>4. u < Interval /\ e < CacheSize
  BY <1>1, <1>3, Sizes
<1>5. i > 0 /\ c[Back(i, e)].hash = Hash[x] /\ t - c[Back(i, e)].timestamp = u
  BY <1>2, <1>4, Zenon DEF Kept
<1>6. Back(i, e) \in 1 .. CacheSize
  BY <1>4, <1>5, BackPlace, Sizes
<1>7. c[Back(i, e)].timestamp \in Int
  BY <1>6, Sizes DEF Slot, Ring
<1>8. t2 - c[Back(i, e)].timestamp = u + 1
  BY <1>3, <1>5, <1>7
<1>9. QED
  BY <1>3, <1>5, <1>8, Zenon

LEMMA ExplainedEntry ==
  ASSUME NEW c \in Ring, NEW t \in Int, NEW m \in Messages,
         NEW g \in Made, NEW n \in 1 .. CacheSize,
         \A k \in 1 .. CacheSize : Explained(c[k], g, t)
  PROVE  \A k \in 1 .. CacheSize : Explained(Stored(c, n, m, t)[k], Recorded(g, m), t)
<1>0. PICK c2, g2 : c2 = Stored(c, n, m, t) /\ g2 = Recorded(g, m)
  OBVIOUS
<1>1. Hash[m] \in Hashes
  BY DEF Hashes
<1>2. 0 \in g2[Hash[m]] /\ \A h \in Hashes : g[h] \subseteq g2[h]
  BY <1>0, <1>1 DEF Recorded, Made
<1>3. SUFFICES ASSUME NEW k \in 1 .. CacheSize
               PROVE  Explained(c2[k], g2, t)
  BY <1>0, Zenon
<1>4. CASE k = n
  <2>1. c2[k].hash = Hash[m] /\ c2[k].timestamp = t /\ t - t = 0
    BY <1>0, <1>4 DEF Stored, Ring
  <2>2. QED
    BY <1>1, <1>2, <2>1, Zenon DEF Explained
<1>5. CASE k # n
  <2>1. c2[k] = c[k] /\ Explained(c[k], g, t)
    BY <1>0, <1>5 DEF Stored, Ring
  <2>2. QED
    BY <1>2, <2>1, Zenon DEF Explained
<1>6. QED
  BY <1>4, <1>5

\* The clock goes on by one second, or from its last one to its first.
Advances(t, t2) == t2 = t + 1 \/ (t = WrapAt - 1 /\ t2 = -WrapAt)

LEMMA ExplainedTick ==
  ASSUME NEW e \in Slot, NEW g \in Made,
         NEW t \in -WrapAt .. WrapAt - 1, NEW t2 \in -WrapAt .. WrapAt - 1, Advances(t, t2),
         NEW g2, g2 = [h \in Hashes |-> {UpTo(age + 1, Period) : age \in g[h]}],
         Explained(e, g, t)
  PROVE  Explained(e, g2, t2)
<1>1. CASE e.hash = 0 /\ e.timestamp = 0
  BY <1>1, Zenon DEF Explained
<1>2. CASE ~(e.hash = 0 /\ e.timestamp = 0)
  <2>1. e.hash \in Hashes
    BY <1>2, Zenon DEF Explained
  <2>2. PICK a \in g[e.hash] : a = Period \/ t - e.timestamp = a \/ t - e.timestamp = a - Period
    BY <1>2, Zenon DEF Explained
  <2>3. PICK ts \in -WrapAt .. WrapAt - 1 : ts = e.timestamp
    BY DEF Slot
  <2>4. a \in 0 .. Period
    BY <2>1, <2>2 DEF Made
  <2>5. PICK b : b = UpTo(a + 1, Period)
    OBVIOUS
  <2>6. b \in g2[e.hash]
    BY <2>1, <2>2, <2>5
  <2>7. a = Period \/ t - ts = a \/ t - ts = a - Period
    BY <2>2, <2>3, Zenon
  <2>8. b = Period \/ t2 - ts = b \/ t2 - ts = b - Period
    <3>1. b = IF a + 1 > Period THEN Period ELSE a + 1
      BY <2>5 DEF UpTo
    <3>2. Period = 2 * WrapAt
      BY DEF Period
    <3>3. QED
      BY <2>4, <2>7, <3>1, <3>2, Sizes DEF Advances
  <2>9. QED
    BY <2>1, <2>3, <2>6, <2>8, Zenon DEF Explained
<1>3. QED
  BY <1>1, <1>2

-----------------------------------------------------------------------------
(* The clock.                                                              *)

LEMMA ClockInRange ==
  ASSUME now \in 0 .. Period - 1
  PROVE  CurrentTime \in -WrapAt .. WrapAt - 1
  BY Sizes DEF Period, CurrentTime

LEMMA ClockTick ==
  ASSUME now \in 0 .. Period - 1, now' = (now + 1) % Period
  PROVE  /\ now' \in 0 .. Period - 1
         /\ Advances(CurrentTime, CurrentTime')
         /\ now' # WrapAt => CurrentTime' = CurrentTime + 1
<1>1. now' = IF now + 1 = Period THEN 0 ELSE now + 1
  <2>1. CASE now + 1 = Period
    BY <2>1, ModBelow, Sizes
  <2>2. CASE now + 1 # Period
    <3>1. now + 1 \in Nat /\ now + 1 < Period
      BY <2>2, Sizes
    <3>2. (now + 1) % Period = now + 1
      BY <3>1, ModBelow, Sizes
    <3>3. QED
      BY <2>2, <3>2
  <2>3. QED
    BY <2>1, <2>2
<1>2. Period = 2 * WrapAt /\ WrapAt \in Nat \ {0}
  BY Sizes DEF Period
<1>3. /\ CurrentTime = IF now < WrapAt THEN now ELSE now - 2 * WrapAt
      /\ CurrentTime' = IF now' < WrapAt THEN now' ELSE now' - 2 * WrapAt
  BY DEF CurrentTime
<1>4. PICK x, y, t, t2 : x = now /\ y = now' /\ t = CurrentTime /\ t2 = CurrentTime'
  OBVIOUS
<1>5. /\ x \in 0 .. Period - 1 /\ y = IF x + 1 = Period THEN 0 ELSE x + 1
      /\ t = IF x < WrapAt THEN x ELSE x - 2 * WrapAt
      /\ t2 = IF y < WrapAt THEN y ELSE y - 2 * WrapAt
  BY <1>1, <1>3, <1>4, Zenon
<1>6. y \in 0 .. Period - 1 /\ (y # WrapAt => t2 = t + 1)
  BY <1>2, <1>5
<1>7. ASSUME y = WrapAt
      PROVE  t = WrapAt - 1 /\ t2 = -WrapAt
  <2>1. x + 1 = y /\ x < WrapAt
    BY <1>2, <1>5, <1>7
  <2>2. t = x /\ t2 = y - 2 * WrapAt
    BY <1>2, <1>5, <1>7, <2>1
  <2>3. QED
    BY <1>2, <1>5, <1>7, <2>1, <2>2
<1>8. Advances(t, t2)
  BY <1>6, <1>7 DEF Advances
<1>9. QED
  BY <1>4, <1>6, <1>8, Zenon

-----------------------------------------------------------------------------
(* The invariant is kept.                                                  *)

\* What the invariant says of the cache of one digipeater.
RingInv(c, i, s, g, t) ==
  /\ c \in Ring /\ i \in 0 .. CacheSize /\ s \in Since /\ g \in Made
  /\ Kept(c, i, s, t)
  /\ \A k \in 1 .. CacheSize : Explained(c[k], g, t)

RingsInv ==
  /\ cache = [d \in Digis |-> cache[d]] /\ cacheIndex = [d \in Digis |-> cacheIndex[d]]
  /\ since = [d \in Digis |-> since[d]] /\ made = [d \in Digis |-> made[d]]
  /\ \A d \in Digis : RingInv(cache[d], cacheIndex[d], since[d], made[d], CurrentTime)

AirInv ==
  /\ heard \in [Digis -> Seq(Message)] /\ sources \in Seq(Sent) /\ now \in 0 .. Period - 1

LEMMA IInvParts == IInv <=> RingsInv /\ AirInv
<1>1. ASSUME IInv
      PROVE  RingsInv /\ AirInv
  <2>1. /\ cache \in [Digis -> Ring] /\ cacheIndex \in [Digis -> 0 .. CacheSize]
        /\ since \in [Digis -> Since] /\ made \in [Digis -> Made]
    BY <1>1, Zenon DEF IInv, TypeInv
  <2>2. \A d \in Digis : /\ cache[d] \in Ring /\ cacheIndex[d] \in 0 .. CacheSize
                         /\ since[d] \in Since /\ made[d] \in Made
    BY <2>1
  <2>3. /\ cache = [d \in Digis |-> cache[d]] /\ cacheIndex = [d \in Digis |-> cacheIndex[d]]
        /\ since = [d \in Digis |-> since[d]] /\ made = [d \in Digis |-> made[d]]
    BY <2>1
  <2>4. QED
    BY <1>1, <2>2, <2>3, Zenon DEF IInv, TypeInv, RingsInv, RingInv, AirInv
<1>2. ASSUME RingsInv, AirInv
      PROVE  IInv
  <2>1. \A d \in Digis : /\ cache[d] \in Ring /\ cacheIndex[d] \in 0 .. CacheSize
                         /\ since[d] \in Since /\ made[d] \in Made
    BY <1>2, Zenon DEF RingsInv, RingInv
  <2>2. /\ cache = [d \in Digis |-> cache[d]] /\ cacheIndex = [d \in Digis |-> cacheIndex[d]]
        /\ since = [d \in Digis |-> since[d]] /\ made = [d \in Digis |-> made[d]]
    BY <1>2, Zenon DEF RingsInv
  <2>3. /\ cache \in [Digis -> Ring] /\ cacheIndex \in [Digis -> 0 .. CacheSize]
        /\ since \in [Digis -> Since] /\ made \in [Digis -> Made]
    BY <2>1, <2>2
  <2>4. TypeInv
    BY <1>2, <2>3, Zenon DEF TypeInv, AirInv
  <2>5. QED
    BY <1>2, <2>4, Zenon DEF IInv, RingsInv, RingInv
<1>3. QED
  BY <1>1, <1>2

\* An entry in one ring.
LEMMA RingEntry ==
  ASSUME NEW c, NEW i, NEW s, NEW g, NEW t, t \in -WrapAt .. WrapAt - 1,
         RingInv(c, i, s, g, t), NEW m \in Messages, NEW sent, sent \subseteq {m},
         NEW n, n = (i % CacheSize) + 1,
         NEW c2, c2 = Stored(c, n, m, t),
         NEW s2, s2 = Counted(s, sent),
         NEW g2, g2 = Recorded(g, m)
  PROVE  RingInv(c2, n, s2, g2, t)
<1>1. c \in Ring /\ i \in 0 .. CacheSize /\ s \in Since /\ g \in Made
  BY Zenon DEF RingInv
<1>2. n \in 1 .. CacheSize
  BY <1>1, NextPlace, Zenon
<1>3. t \in Int /\ n \in 0 .. CacheSize
  BY <1>2, Sizes
<1>4. Kept(Stored(c, n, m, t), n, Counted(s, sent), t)
  <2>1. Kept(c, i, s, t)
    BY Zenon DEF RingInv
  <2>2. QED
    BY <1>1, <1>3, <2>1, KeptEntry, Zenon
<1>5. \A k \in 1 .. CacheSize : Explained(Stored(c, n, m, t)[k], Recorded(g, m), t)
  <2>1. \A k \in 1 .. CacheSize : Explained(c[k], g, t)
    BY Zenon DEF RingInv
  <2>2. QED
    BY <1>1, <1>2, <1>3, <2>1, ExplainedEntry, Zenon
<1>6. c2 \in Ring
  <2>1. [hash |-> Hash[m], timestamp |-> t] \in Slot
    BY HashAssumption DEF Slot
  <2>2. QED
    BY <1>1, <1>2, <2>1 DEF Ring, Stored
<1>7. s2 \in Since
  <2>1. ASSUME NEW x \in Messages
        PROVE  [seconds |-> IF x \in sent THEN 0 ELSE s[x].seconds,
                entries |-> IF x \in sent THEN 0 ELSE UpTo(s[x].entries + 1, CacheSize)]
               \in [seconds : 0 .. Interval, entries : 0 .. CacheSize]
    <3>1. PICK e \in 0 .. CacheSize, u \in 0 .. Interval : e = s[x].entries /\ u = s[x].seconds
      BY <1>1 DEF Since
    <3>2. UpTo(e + 1, CacheSize) \in 0 .. CacheSize /\ 0 \in 0 .. CacheSize /\ 0 \in 0 .. Interval
      BY Sizes DEF UpTo
    <3>3. QED
      BY <3>1, <3>2
  <2>2. QED
    BY <2>1 DEF Since, Counted
<1>8. g2 \in Made
  <2>1. 0 \in 0 .. Period
    BY Sizes
  <2>2. QED
    BY <1>1, <2>1, Zenon DEF Made, Recorded
<1>9. QED
  BY <1>3, <1>4, <1>5, <1>6, <1>7, <1>8, Zenon DEF RingInv

\* A second in one ring.
LEMMA RingTick ==
  ASSUME NEW c, NEW i, NEW s, NEW g, NEW t, t \in -WrapAt .. WrapAt - 1,
         NEW t2, t2 \in -WrapAt .. WrapAt - 1, Advances(t, t2),
         RingInv(c, i, s, g, t), NEW wrap, ~wrap => t2 = t + 1,
         NEW s2, s2 = [x \in Messages |->
                        [s[x] EXCEPT !.seconds = IF wrap THEN Interval ELSE UpTo(@ + 1, Interval)]],
         NEW g2, g2 = [h \in Hashes |-> {UpTo(age + 1, Period) : age \in g[h]}]
  PROVE  RingInv(c, i, s2, g2, t2)
<1>1. c \in Ring /\ i \in 0 .. CacheSize /\ s \in Since /\ g \in Made
  BY Zenon DEF RingInv
<1>2. t \in Int /\ t2 \in Int
  BY Sizes
<1>3. ASSUME NEW x \in Messages
      PROVE  /\ s2[x] \in [seconds : 0 .. Interval, entries : 0 .. CacheSize]
             /\ s2[x].entries = s[x].entries
             /\ s2[x].seconds = Interval \/ (s2[x].seconds = s[x].seconds + 1 /\ t2 = t + 1)
  <2>1. PICK r \in [seconds : 0 .. Interval, entries : 0 .. CacheSize] : r = s[x]
    BY <1>1 DEF Since
  <2>2. PICK u \in 0 .. Interval : u = r.seconds
    OBVIOUS
  <2>3. PICK v : v = IF wrap THEN Interval ELSE UpTo(u + 1, Interval)
    OBVIOUS
  <2>4. s2[x] = [r EXCEPT !.seconds = v]
    BY <2>1, <2>2, <2>3
  <2>5. v \in 0 .. Interval /\ (v = Interval \/ v = u + 1)
    BY <2>3, Sizes DEF UpTo
  <2>6. v = Interval \/ ~wrap
    BY <2>3, Zenon
  <2>7. QED
    BY <2>1, <2>2, <2>4, <2>5, <2>6
<1>4. Kept(c, i, s2, t2)
  <2>1. Kept(c, i, s, t)
    BY Zenon DEF RingInv
  <2>2. QED
    BY <1>1, <1>2, <1>3, <2>1, KeptTick, Zenon
<1>5. ASSUME NEW k \in 1 .. CacheSize
      PROVE  Explained(c[k], g2, t2)
  <2>1. c[k] \in Slot /\ Explained(c[k], g, t)
    BY <1>1 DEF RingInv, Ring
  <2>2. QED
    BY <1>1, <2>1, ExplainedTick, Zenon
<1>6. s2 \in Since
  BY <1>3 DEF Since
<1>7. g2 \in Made
  <2>1. \A age \in 0 .. Period : UpTo(age + 1, Period) \in 0 .. Period
    BY Sizes DEF UpTo
  <2>2. QED
    BY <1>1, <2>1 DEF Made
<1>8. QED
  BY <1>1, <1>4, <1>5, <1>6, <1>7, Zenon DEF RingInv

LEMMA InitInv == Init => IInv
<1> SUFFICES ASSUME Init
             PROVE  IInv
  OBVIOUS
<1>1. /\ cache = [d \in Digis |-> [i \in 1 .. CacheSize |-> [hash |-> 0, timestamp |-> 0]]]
      /\ cacheIndex = [d \in Digis |-> 0] /\ heard = [d \in Digis |-> << >>]
      /\ now = 0 /\ sources \in Traffic
      /\ since = [d \in Digis |-> [m \in Messages |-> [seconds |-> Interval, entries |-> CacheSize]]]
      /\ made = [d \in Digis |-> [h \in Hashes |-> {}]]
  BY DEF Init
<1>2. AirInv
  <2>1. sources \in Seq(Sent)
    BY <1>1, TrafficAssumption, Zenon DEF Sent
  <2>2. heard \in [Digis -> Seq(Message)]
    BY <1>1
  <2>3. QED
    BY <1>1, <2>1, <2>2, Sizes DEF AirInv
<1>3. ASSUME NEW d \in Digis
      PROVE  RingInv(cache[d], cacheIndex[d], since[d], made[d], CurrentTime)
  <2>1. /\ cache[d] = [i \in 1 .. CacheSize |-> [hash |-> 0, timestamp |-> 0]]
        /\ cacheIndex[d] = 0 /\ made[d] = [h \in Hashes |-> {}]
        /\ since[d] = [m \in Messages |-> [seconds |-> Interval, entries |-> CacheSize]]
    BY <1>1
  <2>2. [hash |-> 0, timestamp |-> 0] \in Slot
    BY Sizes DEF Slot
  <2>3. cache[d] \in Ring /\ \A k \in 1 .. CacheSize : Explained(cache[d][k], made[d], CurrentTime)
    BY <2>1, <2>2 DEF Ring, Explained
  <2>4. cacheIndex[d] \in 0 .. CacheSize
    BY <2>1, Sizes
  <2>5. since[d] \in Since /\ made[d] \in Made
    BY <2>1, Sizes DEF Since, Made
  <2>6. Kept(cache[d], cacheIndex[d], since[d], CurrentTime)
    <3>1. \A m \in Messages : ~(since[d][m].seconds < Interval)
      BY <2>1, Sizes
    <3>2. QED
      BY <3>1, Zenon DEF Kept
  <2>7. QED
    BY <2>3, <2>4, <2>5, <2>6, Zenon DEF RingInv
<1>4. RingsInv
  BY <1>1, <1>3, Zenon DEF RingsInv
<1>5. QED
  BY <1>2, <1>4, IInvParts

\* Nothing but the entry changes.
LEMMA EntryRings ==
  ASSUME RingsInv, now \in 0 .. Period - 1, UNCHANGED now,
         NEW d \in Digis, NEW m \in Messages, NEW sent, sent \subseteq {m},
         Remember(d, m), Entry(d, m, sent)
  PROVE  RingsInv'
<1>1. PICK t : t = CurrentTime /\ t = CurrentTime'
  BY DEF CurrentTime
<1>2. t \in -WrapAt .. WrapAt - 1
  BY <1>1, ClockInRange, Zenon
<1>3. PICK n : n = (cacheIndex[d] % CacheSize) + 1
  OBVIOUS
<1>4. /\ cache = [x \in Digis |-> cache[x]] /\ cacheIndex = [x \in Digis |-> cacheIndex[x]]
      /\ since = [x \in Digis |-> since[x]] /\ made = [x \in Digis |-> made[x]]
  BY Zenon DEF RingsInv
<1>5. /\ cacheIndex' = [cacheIndex EXCEPT ![d] = n]
      /\ cache' = [cache EXCEPT ![d] = Stored(cache[d], n, m, t)]
  BY <1>1, <1>3 DEF Remember, NextIndex, Stored
<1>6. /\ since' = [since EXCEPT ![d] = Counted(since[d], sent)]
      /\ made' = [made EXCEPT ![d] = Recorded(made[d], m)]
  BY DEF Entry, Counted, Recorded
<1>7. /\ cache' = [x \in Digis |-> cache'[x]] /\ cacheIndex' = [x \in Digis |-> cacheIndex'[x]]
      /\ since' = [x \in Digis |-> since'[x]] /\ made' = [x \in Digis |-> made'[x]]
  BY <1>4, <1>5, <1>6, Zenon
<1>8. ASSUME NEW x \in Digis
      PROVE  RingInv(cache'[x], cacheIndex'[x], since'[x], made'[x], t)
  <2>1. RingInv(cache[x], cacheIndex[x], since[x], made[x], t)
    BY <1>1, Zenon DEF RingsInv
  <2>2. CASE x = d
    <3>1. /\ cache'[x] = Stored(cache[x], n, m, t) /\ cacheIndex'[x] = n
          /\ since'[x] = Counted(since[x], sent) /\ made'[x] = Recorded(made[x], m)
      BY <1>4, <1>5, <1>6, <2>2
    <3>2. QED
      BY <1>2, <1>3, <2>1, <2>2, <3>1, RingEntry, SMTT(30)
  <2>3. CASE x # d
    <3>1. /\ cache'[x] = cache[x] /\ cacheIndex'[x] = cacheIndex[x]
          /\ since'[x] = since[x] /\ made'[x] = made[x]
      BY <1>4, <1>5, <1>6, <2>3, Zenon
    <3>2. QED
      BY <2>1, <3>1, Zenon
  <2>4. QED
    BY <2>2, <2>3
<1>9. QED
  BY <1>1, <1>7, <1>8, Zenon DEF RingsInv

LEMMA RingsSame ==
  ASSUME RingsInv, UNCHANGED <<digiVars, since, made, now>>
  PROVE  RingsInv'
  BY DEF RingsInv, digiVars, CurrentTime

\* What is at the head of a queue.
LEMMA HeadMessage ==
  ASSUME AirInv, NEW d \in Digis, heard[d] # << >>
  PROVE  /\ Head(heard[d]) \in Message /\ Head(heard[d]).id \in Messages
         /\ Head(heard[d]).path \in Paths /\ Tail(heard[d]) \in Seq(Message)
<1>1. heard[d] \in Seq(Message)
  BY DEF AirInv
<1>2. Head(heard[d]) \in Message /\ Tail(heard[d]) \in Seq(Message)
  BY <1>1
<1>3. QED
  BY <1>2, Zenon DEF Message

LEMMA HandleInv ==
  ASSUME IInv, NEW d \in Digis, digi_handle_aprs_message(d)
  PROVE  IInv'
<1>1. RingsInv /\ AirInv
  BY IInvParts
<1>2. heard[d] # << >> /\ UNCHANGED <<now, sources>>
  BY DEF digi_handle_aprs_message
<1>3. PICK m : m = Head(heard[d])
  OBVIOUS
<1>4. m \in Message /\ m.id \in Messages /\ m.path \in Paths /\ Tail(heard[d]) \in Seq(Message)
  BY <1>1, <1>2, <1>3, HeadMessage, Zenon
<1>5. heard \in [Digis -> Seq(Message)] /\ sources \in Seq(Sent) /\ now \in 0 .. Period - 1
  BY <1>1, Zenon DEF AirInv
<1>6. ASSUME Drop(d)
      PROVE  heard' \in [Digis -> Seq(Message)]
  BY <1>4, <1>5, <1>6 DEF Drop
<1>7. CASE Digi_Ignore(d)
  <2>1. Drop(d) /\ UNCHANGED <<digiVars, since, made>>
    BY <1>7 DEF Digi_Ignore
  <2>2. RingsInv'
    BY <1>1, <1>2, <2>1, RingsSame
  <2>3. AirInv'
    BY <1>2, <1>5, <1>6, <2>1 DEF AirInv
  <2>4. QED
    BY <2>2, <2>3, IInvParts, PTL
<1>8. CASE Digi_Refuse(d)
  <2>1. Remember(d, m.id) /\ Drop(d) /\ Entry(d, m.id, {})
    BY <1>3, <1>8, Zenon DEF Digi_Refuse
  <2>2. RingsInv'
    <3>1. {} \subseteq {m.id} /\ UNCHANGED now
      BY <1>2
    <3>2. QED
      BY <1>1, <1>4, <1>5, <2>1, <3>1, EntryRings, Zenon
  <2>3. AirInv'
    BY <1>2, <1>5, <1>6, <2>1 DEF AirInv
  <2>4. QED
    BY <2>2, <2>3, IInvParts, PTL
<1>9. CASE \E hearers \in SUBSET (Digis \ {d}) : Digi_Repeat(d, hearers)
  <2>1. PICK hearers \in SUBSET (Digis \ {d}) : Digi_Repeat(d, hearers)
    BY <1>9
  <2>2. PICK out : out = [m EXCEPT !.path = Repeated(m.path, d)]
    BY Zenon
  <2>3. /\ FirstEligible(m.path) # 0 /\ ~NoSpace(m.path)
        /\ Remember(d, m.id) /\ Transmit(d, out, hearers) /\ Entry(d, m.id, {m.id})
    BY <1>3, <2>1, <2>2, Zenon DEF Digi_Repeat
  <2>4. RingsInv'
    <3>1. {m.id} \subseteq {m.id} /\ UNCHANGED now
      BY <1>2
    <3>2. QED
      BY <1>1, <1>4, <1>5, <2>3, <3>1, EntryRings, Zenon
  <2>5. out \in Message
    <3>1. Repeated(m.path, d) \in Paths
      BY <1>4, <2>3, RepeatedPath, Zenon
    <3>2. QED
      BY <1>4, <2>2, <3>1 DEF Message
  <2>6. heard' \in [Digis -> Seq(Message)]
    <3>1. ASSUME NEW x \in Digis
          PROVE  (LET rest == IF x = d THEN Tail(heard[x]) ELSE heard[x]
                  IN  IF x \in hearers THEN Append(rest, out) ELSE rest) \in Seq(Message)
      <4>1. PICK rest : rest = IF x = d THEN Tail(heard[x]) ELSE heard[x]
        BY Zenon
      <4>2. rest \in Seq(Message)
        BY <1>4, <1>5, <4>1
      <4>3. QED
        BY <2>5, <4>1, <4>2
    <3>2. QED
      BY <2>3, <3>1 DEF Transmit
  <2>7. AirInv'
    BY <1>2, <1>5, <2>6 DEF AirInv
  <2>8. QED
    BY <2>4, <2>7, IInvParts, PTL
<1>10. QED
  BY <1>7, <1>8, <1>9, Zenon DEF digi_handle_aprs_message

LEMMA SourceInv ==
  ASSUME IInv, Source
  PROVE  IInv'
<1>1. RingsInv /\ AirInv
  BY IInvParts
<1>2. PICK s : s = Head(sources)
  OBVIOUS
<1>3. /\ sources # << >> /\ sources' = Tail(sources)
      /\ heard' = [d \in Digis |-> IF d \in s.hearers
                                   THEN Append(heard[d], [id |-> s.id, path |-> s.path]) ELSE heard[d]]
      /\ UNCHANGED <<digiVars, now, since, made>>
  BY <1>2 DEF Source
<1>4. sources \in Seq(Sent) /\ heard \in [Digis -> Seq(Message)] /\ now \in 0 .. Period - 1
  BY <1>1, Zenon DEF AirInv
<1>5. s \in Sent /\ sources' \in Seq(Sent)
  BY <1>2, <1>3, <1>4
<1>6. [id |-> s.id, path |-> s.path] \in Message
  BY <1>5 DEF Sent, Message
<1>7. heard' \in [Digis -> Seq(Message)]
  BY <1>3, <1>4, <1>6
<1>8. AirInv'
  BY <1>3, <1>4, <1>5, <1>7 DEF AirInv
<1>9. RingsInv'
  BY <1>1, <1>3, RingsSame
<1>10. QED
  BY <1>8, <1>9, IInvParts, PTL

LEMMA TickInv ==
  ASSUME IInv, Tick
  PROVE  IInv'
<1>1. RingsInv /\ AirInv
  BY IInvParts
<1>2. /\ now' = (now + 1) % Period /\ UNCHANGED <<cache, cacheIndex, heard, sources>>
      /\ since' = [d \in Digis |-> [m \in Messages |->
                    [since[d][m] EXCEPT !.seconds = IF now' = WrapAt THEN Interval
                                                   ELSE UpTo(@ + 1, Interval)]]]
      /\ made' = [d \in Digis |-> [h \in Hashes |-> {UpTo(age + 1, Period) : age \in made[d][h]}]]
  BY DEF Tick, digiVars
<1>3. now \in 0 .. Period - 1
  BY <1>1, Zenon DEF AirInv
<1>4. PICK t, t2 : t = CurrentTime /\ t2 = CurrentTime'
  OBVIOUS
<1>5. now' \in 0 .. Period - 1 /\ Advances(t, t2) /\ (now' # WrapAt => t2 = t + 1)
  BY <1>2, <1>3, <1>4, ClockTick, Zenon
<1>6. t \in -WrapAt .. WrapAt - 1 /\ t2 \in -WrapAt .. WrapAt - 1
  <2>1. CurrentTime \in -WrapAt .. WrapAt - 1
    BY <1>3, ClockInRange
  <2>2. CurrentTime' \in -WrapAt .. WrapAt - 1
    <3>1. PICK y \in 0 .. Period - 1 : y = now'
      BY <1>5, Zenon
    <3>2. CurrentTime' = IF y < WrapAt THEN y ELSE y - 2 * WrapAt
      BY <3>1, Zenon DEF CurrentTime
    <3>3. QED
      BY <3>2, Sizes DEF Period
  <2>3. QED
    BY <1>4, <2>1, <2>2, Zenon
<1>7. PICK wrap : wrap = (now' = WrapAt)
  OBVIOUS
<1>8. ASSUME NEW d \in Digis
      PROVE  RingInv(cache[d], cacheIndex[d], since'[d], made'[d], t2)
  <2>1. RingInv(cache[d], cacheIndex[d], since[d], made[d], t)
    BY <1>1, <1>4, Zenon DEF RingsInv
  <2>2. since'[d] = [x \in Messages |->
          [since[d][x] EXCEPT !.seconds = IF wrap THEN Interval ELSE UpTo(@ + 1, Interval)]]
    BY <1>2, <1>7, Zenon
  <2>3. made'[d] = [h \in Hashes |-> {UpTo(age + 1, Period) : age \in made[d][h]}]
    BY <1>2, Zenon
  <2>4. ~wrap => t2 = t + 1
    BY <1>5, <1>7, Zenon
  <2>5. QED
    BY <1>5, <1>6, <2>1, <2>2, <2>3, <2>4, RingTick, SMTT(30)
<1>9. RingsInv'
  <2>1. /\ cache' = [d \in Digis |-> cache'[d]] /\ cacheIndex' = [d \in Digis |-> cacheIndex'[d]]
        /\ since' = [d \in Digis |-> since'[d]] /\ made' = [d \in Digis |-> made'[d]]
    <3>1. cache = [d \in Digis |-> cache[d]] /\ cacheIndex = [d \in Digis |-> cacheIndex[d]]
      BY <1>1, Zenon DEF RingsInv
    <3>2. QED
      BY <1>2, <3>1
  <2>2. QED
    BY <1>2, <1>4, <1>8, <2>1, Zenon DEF RingsInv
<1>10. AirInv'
  BY <1>1, <1>2, <1>5 DEF AirInv
<1>11. QED
  BY <1>9, <1>10, IInvParts, PTL

LEMMA NextInv == IInv /\ [Next]_vars => IInv'
<1> SUFFICES ASSUME IInv, [Next]_vars
             PROVE  IInv'
  OBVIOUS
<1>1. CASE \E d \in Digis : digi_handle_aprs_message(d)
  BY <1>1, HandleInv
<1>2. CASE Source
  BY <1>2, SourceInv
<1>3. CASE Tick
  BY <1>3, TickInv
<1>4. CASE UNCHANGED vars
  BY <1>4 DEF IInv, TypeInv, CurrentTime, vars, digiVars
<1>5. QED
  BY <1>1, <1>2, <1>3, <1>4, Zenon DEF Next, Finished

-----------------------------------------------------------------------------
(* What follows from it.                                                   *)

\* The digipeaters put their calls into a path (digi_handle_aprs_message, the part
\* that rewrites rpt_lst) without overwriting a call that is there, and without a
\* path longer than AX25_MAX_RPT: for every path that a source can ask for, and
\* however many digipeaters it has been through.
THEOREM CallsStay == Spec => RouteKept
<1>1. IInv /\ [Next]_vars =>
      [\A d \in Digis : Repeats(d) =>
         LET path == In(d).path
         IN  /\ \A k \in DOMAIN path : path[k].repeated => Repeated(path, d)[k] = path[k]
             /\ Len(Repeated(path, d)) <= MaxRpt]_vars
  <2> SUFFICES ASSUME IInv, NEW d \in Digis, Repeats(d)
               PROVE  /\ \A k \in DOMAIN In(d).path : In(d).path[k].repeated =>
                           Repeated(In(d).path, d)[k] = In(d).path[k]
                      /\ Len(Repeated(In(d).path, d)) <= MaxRpt
    OBVIOUS
  <2>1. heard[d] # << >> /\ FirstEligible(In(d).path) # 0 /\ ~NoSpace(In(d).path)
    BY Zenon DEF Repeats, Digi_Repeat, In
  <2>2. In(d).path \in Paths
    BY <2>1, IInvParts, HeadMessage, Zenon DEF In
  <2>3. /\ Repeated(In(d).path, d) \in Paths
        /\ \A k \in DOMAIN In(d).path : In(d).path[k].repeated =>
             Repeated(In(d).path, d)[k] = In(d).path[k]
    BY <2>1, <2>2, RepeatedPath, Zenon
  <2>4. QED
    BY <2>3, Zenon DEF Paths
<1>2. QED
  BY InitInv, NextInv, <1>1, PTL DEF Spec, RouteKept

\* Whatever path a source asks for, and however many digipeaters it has been through:
\* each repetition (digi_handle_aprs_message, the part that rewrites rpt_lst) leaves the
\* message with fewer hops, so that it cannot go round for ever.
THEOREM HopsRunOut == Spec => HopsDecrease
<1>1. IInv /\ [Next]_vars =>
      [\A d \in Digis : Repeats(d) =>
         Hops(Repeated(In(d).path, d)) < Hops(In(d).path)]_vars
  <2> SUFFICES ASSUME IInv, NEW d \in Digis, Repeats(d)
               PROVE  Hops(Repeated(In(d).path, d)) < Hops(In(d).path)
    OBVIOUS
  <2>1. heard[d] # << >> /\ FirstEligible(In(d).path) # 0
    BY Zenon DEF Repeats, Digi_Repeat, In
  <2>2. In(d).path \in Paths
    BY <2>1, IInvParts, HeadMessage, Zenon DEF In
  <2>3. In(d).path \in Seq(Element)
    BY <2>2, Zenon DEF Paths
  <2>4. QED
    BY <2>1, <2>3, FewerHops, Zenon
<1>2. QED
  BY InitInv, NextInv, <1>1, PTL DEF Spec, HopsDecrease

\* A digipeater does not send a message again within the interval
\* (_digi_check_is_duplicated and the ring it looks through), for every size of the
\* ring, until the ring has been written all round or the clock has wrapped.
THEOREM NotTwiceInInterval == Spec => OncePerInterval
<1>1. IInv /\ [Next]_vars =>
      [\A d \in Digis : Repeats(d) =>
         LET last == since[d][In(d).id]
         IN  last.seconds = Interval \/ last.entries = CacheSize]_vars
  <2> SUFFICES ASSUME IInv, NEW d \in Digis, Repeats(d),
                      since[d][In(d).id].seconds # Interval, since[d][In(d).id].entries # CacheSize
               PROVE  FALSE
    OBVIOUS
  <2>1. heard[d] # << >> /\ ~Duplicated(d, In(d).id)
    BY Zenon DEF Repeats, Digi_Repeat, In
  <2>2. PICK m \in Messages : m = In(d).id
    BY <2>1, IInvParts, HeadMessage, Zenon DEF In
  <2>3. RingInv(cache[d], cacheIndex[d], since[d], made[d], CurrentTime)
    BY IInvParts, Zenon DEF RingsInv
  <2>4. /\ cache[d] \in Ring /\ cacheIndex[d] \in 0 .. CacheSize /\ since[d] \in Since
        /\ Kept(cache[d], cacheIndex[d], since[d], CurrentTime)
    BY <2>3, Zenon DEF RingInv
  <2>5. PICK e \in 0 .. CacheSize, u \in 0 .. Interval :
          e = since[d][m].entries /\ u = since[d][m].seconds
    BY <2>4 DEF Since
  <2>6. e < CacheSize /\ u < Interval /\ u >= 0 /\ e \in 0 .. CacheSize - 1
    BY <2>2, <2>5, Sizes
  <2>7. PICK k : k = Back(cacheIndex[d], e)
    OBVIOUS
  <2>8. cacheIndex[d] > 0 /\ cache[d][k].hash = Hash[m] /\ CurrentTime - cache[d][k].timestamp = u
    BY <2>4, <2>5, <2>6, <2>7, Zenon DEF Kept
  <2>9. k \in 1 .. CacheSize
    <3>1. cacheIndex[d] \in 1 .. CacheSize
      BY <2>4, <2>8, Sizes
    <3>2. QED
      BY <2>6, <2>7, <3>1, BackPlace, Zenon
  <2>10. Recent(cache[d][k].timestamp)
    BY <2>6, <2>8, Zenon DEF Recent
  <2>11. Duplicated(d, m)
    BY <2>8, <2>9, <2>10, Zenon DEF Duplicated
  <2>12. QED
    BY <2>1, <2>2, <2>11, Zenon
<1>2. QED
  BY InitInv, NextInv, <1>1, PTL DEF Spec, OncePerInterval

\* A message that asks for a digipeater is dropped only for an entry that the
\* digipeater made for this hash within the interval, or a period of the clock ago;
\* or for a slot that was never used, which a message of hash 0 meets in the first
\* seconds (_digi_check_is_duplicated with its unsigned difference).
THEOREM DroppedForCause == Spec => SuppressedForCause
<1>1. IInv /\ [Next]_vars =>
      [\A d \in Digis :
         heard[d] # << >> /\ Digi_Ignore(d) /\ FirstEligible(In(d).path) # 0 =>
           LET h == Hash[In(d).id]
           IN  \/ made[d][h] \intersect ((0 .. Interval - 1) \union {Period}) # {}
               \/ h = 0 /\ now < Interval]_vars
  <2> SUFFICES ASSUME IInv, NEW d \in Digis, heard[d] # << >>, Digi_Ignore(d),
                      FirstEligible(In(d).path) # 0
               PROVE  \/ made[d][Hash[In(d).id]] \intersect ((0 .. Interval - 1) \union {Period}) # {}
                      \/ Hash[In(d).id] = 0 /\ now < Interval
    OBVIOUS
  <2>1. Duplicated(d, In(d).id)
    BY Zenon DEF Digi_Ignore, In
  <2>2. PICK k \in 1 .. CacheSize :
          cache[d][k].hash = Hash[In(d).id] /\ Recent(cache[d][k].timestamp)
    BY <2>1, Zenon DEF Duplicated
  <2>3. RingInv(cache[d], cacheIndex[d], since[d], made[d], CurrentTime) /\ now \in 0 .. Period - 1
    BY IInvParts, Zenon DEF RingsInv, AirInv
  <2>4. cache[d][k] \in Slot /\ made[d] \in Made
    BY <2>2, <2>3, Zenon DEF RingInv, Ring
  <2>5. Explained(cache[d][k], made[d], CurrentTime)
    BY <2>2, <2>3, Zenon DEF RingInv
  <2>6. PICK ts \in -WrapAt .. WrapAt - 1 : ts = cache[d][k].timestamp
    BY <2>4 DEF Slot
  <2>7. PICK t \in -WrapAt .. WrapAt - 1 : t = CurrentTime
    BY <2>3, ClockInRange, Zenon
  <2>8. t - ts >= 0 /\ t - ts < Interval
    BY <2>2, <2>6, <2>7, Zenon DEF Recent
  <2>9. CASE cache[d][k].hash = 0 /\ cache[d][k].timestamp = 0
    <3>1. t >= 0 /\ t < Interval
      BY <2>6, <2>8, <2>9
    <3>2. now < Interval
      BY <2>3, <2>7, <3>1, Sizes DEF CurrentTime, Period
    <3>3. QED
      BY <2>2, <2>9, <3>2, Zenon
  <2>10. CASE ~(cache[d][k].hash = 0 /\ cache[d][k].timestamp = 0)
    <3>1. Hash[In(d).id] \in Hashes
      BY <2>2, <2>5, <2>10, Zenon DEF Explained
    <3>2. PICK a \in made[d][Hash[In(d).id]] : a = Period \/ t - ts = a \/ t - ts = a - Period
      BY <2>2, <2>5, <2>6, <2>7, <2>10, Zenon DEF Explained
    <3>3. a \in 0 .. Period
      BY <2>4, <3>1, <3>2 DEF Made
    <3>4. a = Period \/ a \in 0 .. Interval - 1
      BY <2>8, <3>2, <3>3, Sizes
    <3>5. QED
      BY <3>2, <3>4, Zenon
  <2>11. QED
    BY <2>9, <2>10
<1>2. QED
  BY InitInv, NextInv, <1>1, PTL DEF Spec, SuppressedForCause
=============================================================================
