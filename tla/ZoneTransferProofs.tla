------------------------- MODULE ZoneTransferProofs -------------------------
(***************************************************************************)
(* What holds of zone transfers for any cluster, any lengths of records    *)
(* and any number of clients and transfers.  The cache goes its own way,   *)
(* so what KubeCacheProofs shows of it holds here too.  The lengths are    *)
(* sums, a recursive function: that it is defined, and what it adds up to, *)
(* comes from sets of natural numbers having smallest elements.            *)
(***************************************************************************)
EXTENDS ZoneTransfer, KubeCacheProofs, SetInduction

-----------------------------------------------------------------------------
(* Lengths                                                                 *)

\* A table of the lengths of records i to m, for m up to n.
IsTable(rrs, i, n, f) ==
    f = [m \in 0 .. n |-> IF m < i THEN 0 ELSE f[m - 1] + RRLen[rrs[m].type]]
IsSum(rrs, i, f) ==
    f = [m \in Nat |-> IF m < i THEN 0 ELSE f[m - 1] + RRLen[rrs[m].type]]

LEMMA Tables ==
    ASSUME NEW rrs, NEW i \in Nat \ {0}, NEW n \in Nat
    PROVE  \E f : IsTable(rrs, i, n, f)
<1> DEFINE T == {k \in Nat : \E f : IsTable(rrs, i, k, f)}
<1>1. 0 \in T
  <2> DEFINE g == [m \in 0 .. 0 |-> 0]
  <2>1. IsTable(rrs, i, 0, g)
    BY DEF IsTable
  <2> QED
    BY <2>1
<1>2. ASSUME NEW k \in Nat, k \in T PROVE k + 1 \in T
  <2>1. PICK f : IsTable(rrs, i, k, f)
    BY <1>2
  <2> DEFINE g == [m \in 0 .. k + 1 |-> IF m < i THEN 0 ELSE f[m - 1] + RRLen[rrs[m].type]]
  <2>2. \A m \in 0 .. k : g[m] = f[m]
    BY <2>1 DEF IsTable
  <2>3. \A m \in 0 .. k + 1 : g[m] = IF m < i THEN 0 ELSE g[m - 1] + RRLen[rrs[m].type]
    <3> TAKE m \in 0 .. k + 1
    <3>1. CASE m < i
      BY <3>1
    <3>2. CASE ~(m < i)
      <4>1. m - 1 \in 0 .. k
        BY <3>2
      <4> QED
        BY <2>2, <3>2, <4>1
    <3> QED
      BY <3>1, <3>2
  <2>4. g = [m \in 0 .. k + 1 |-> g[m]]
    OBVIOUS
  <2> HIDE DEF g
  <2>5. IsTable(rrs, i, k + 1, g)
    BY <2>3, <2>4 DEF IsTable
  <2> QED
    BY <2>5
<1> HIDE DEF T
<1>3. Nat \subseteq T
  BY <1>1, <1>2, Induction
<1> QED
  BY <1>3 DEF T

\* Two tables agree.
LEMMA OneTable ==
    ASSUME NEW rrs, NEW i \in Nat \ {0}, NEW n \in Nat, NEW k \in Nat, NEW f, NEW g,
           IsTable(rrs, i, n, f), IsTable(rrs, i, k, g), NEW m \in Nat, m <= n, m <= k
    PROVE  f[m] = g[m]
<1> DEFINE T == {x \in Nat : x <= n /\ x <= k => f[x] = g[x]}
<1>1. 0 \in T
  BY DEF IsTable
<1>2. ASSUME NEW x \in Nat, x \in T PROVE x + 1 \in T
  <2> SUFFICES ASSUME x + 1 <= n, x + 1 <= k PROVE f[x + 1] = g[x + 1]
    OBVIOUS
  <2>1. f[x] = g[x] /\ x + 1 \in 0 .. n /\ x + 1 \in 0 .. k
    BY <1>2
  <2>2. f[x + 1] = IF x + 1 < i THEN 0 ELSE f[x + 1 - 1] + RRLen[rrs[x + 1].type]
    BY <2>1 DEF IsTable
  <2>3. g[x + 1] = IF x + 1 < i THEN 0 ELSE g[x + 1 - 1] + RRLen[rrs[x + 1].type]
    BY <2>1 DEF IsTable
  <2> QED
    BY <2>1, <2>2, <2>3
<1> HIDE DEF T
<1>3. Nat \subseteq T
  BY <1>1, <1>2, Induction
<1> QED
  BY <1>3 DEF T

LEMMA SumExists ==
    ASSUME NEW rrs, NEW i \in Nat \ {0}
    PROVE  \E f : IsSum(rrs, i, f)
<1> DEFINE t(n) == CHOOSE f : IsTable(rrs, i, n, f)
           F == [n \in Nat |-> t(n)[n]]
<1>1. \A n \in Nat : IsTable(rrs, i, n, t(n))
  BY Tables
<1> HIDE DEF t
<1>2. ASSUME NEW m \in Nat PROVE F[m] = IF m < i THEN 0 ELSE F[m - 1] + RRLen[rrs[m].type]
  <2>1. t(m)[m] = IF m < i THEN 0 ELSE t(m)[m - 1] + RRLen[rrs[m].type]
    <3>1. IsTable(rrs, i, m, t(m)) /\ m \in 0 .. m
      BY <1>1
    <3> QED
      BY <3>1 DEF IsTable
  <2>2. CASE m < i
    BY <2>1, <2>2
  <2>3. CASE ~(m < i)
    <3>1. m - 1 \in Nat /\ m - 1 <= m
      BY <2>3
    <3>2. t(m)[m - 1] = t(m - 1)[m - 1]
      BY <1>1, <3>1, OneTable
    <3> QED
      BY <2>1, <2>3, <3>1, <3>2
  <2> QED
    BY <2>2, <2>3
<1>3. F = [n \in Nat |-> F[n]]
  OBVIOUS
<1> HIDE DEF F
<1>4. IsSum(rrs, i, F)
  BY <1>2, <1>3 DEF IsSum
<1> QED
  BY <1>4

\* The length of records i to k, record by record.
LEMMA LengthOf ==
    ASSUME NEW rrs, NEW i \in Nat \ {0}, NEW k \in Nat
    PROVE  Length(rrs, i, k) = IF k < i THEN 0 ELSE Length(rrs, i, k - 1) + RRLen[rrs[k].type]
<1> DEFINE S == CHOOSE f : IsSum(rrs, i, f)
<1>1. IsSum(rrs, i, S)
  BY SumExists
<1>2. \A m : Length(rrs, i, m) = S[m]
  BY DEF Length, IsSum
<1> HIDE DEF S
<1>3. S[k] = IF k < i THEN 0 ELSE S[k - 1] + RRLen[rrs[k].type]
  BY <1>1 DEF IsSum
<1> QED
  BY <1>2, <1>3

Contents == Data \cup Nat \cup {Significant[d] : d \in Data}
RRs == [type : RRTypes, of : Objects \cup {Absent}, content : Contents]

LEMMA RecordLength == ASSUME NEW rrs \in Seq(RRs), NEW k \in 1 .. Len(rrs) PROVE RRLen[rrs[k].type] \in Nat
<1>1. rrs[k] \in RRs
  OBVIOUS
<1> QED
  BY <1>1, TransferAssumption DEF RRs

LEMMA LengthNat ==
    ASSUME NEW rrs \in Seq(RRs), NEW i \in Nat \ {0}, NEW k \in 0 .. Len(rrs)
    PROVE  Length(rrs, i, k) \in Nat
<1> DEFINE T == {n \in Nat : n <= Len(rrs) => Length(rrs, i, n) \in Nat}
<1>1. 0 \in T
  BY LengthOf
<1>2. ASSUME NEW n \in Nat, n \in T PROVE n + 1 \in T
  <2> SUFFICES ASSUME n + 1 <= Len(rrs) PROVE Length(rrs, i, n + 1) \in Nat
    OBVIOUS
  <2>1. Length(rrs, i, n) \in Nat /\ n + 1 \in 1 .. Len(rrs)
    BY <1>2
  <2>2. RRLen[rrs[n + 1].type] \in Nat
    BY <2>1, RecordLength
  <2>3. Length(rrs, i, n + 1) =
            IF n + 1 < i THEN 0 ELSE Length(rrs, i, n + 1 - 1) + RRLen[rrs[n + 1].type]
    BY LengthOf
  <2> QED
    BY <2>1, <2>2, <2>3
<1> HIDE DEF T
<1>3. Nat \subseteq T
  BY <1>1, <1>2, Induction
<1> QED
  BY <1>3 DEF T

\* Without the first record the length is not greater.
LEMMA LengthWithoutFirst ==
    ASSUME NEW rrs \in Seq(RRs), NEW k \in 0 .. Len(rrs)
    PROVE  Length(rrs, 2, k) <= Length(rrs, 1, k)
<1> DEFINE T == {n \in Nat : n <= Len(rrs) => Length(rrs, 2, n) <= Length(rrs, 1, n)}
<1>1. 0 \in T
  <2>1. Length(rrs, 2, 0) = 0 /\ Length(rrs, 1, 0) = 0
    BY LengthOf
  <2> QED
    BY <2>1
<1>2. ASSUME NEW n \in Nat, n \in T PROVE n + 1 \in T
  <2> SUFFICES ASSUME n + 1 <= Len(rrs) PROVE Length(rrs, 2, n + 1) <= Length(rrs, 1, n + 1)
    OBVIOUS
  <2>1. /\ Length(rrs, 2, n) <= Length(rrs, 1, n) /\ n \in 0 .. Len(rrs)
        /\ n + 1 \in 1 .. Len(rrs)
    BY <1>2
  <2>2. /\ Length(rrs, 2, n) \in Nat /\ Length(rrs, 1, n) \in Nat
        /\ RRLen[rrs[n + 1].type] \in Nat
    <3>1. 2 \in Nat \ {0} /\ 1 \in Nat \ {0}
      OBVIOUS
    <3>2. Length(rrs, 2, n) \in Nat /\ Length(rrs, 1, n) \in Nat
      BY <2>1, <3>1, LengthNat
    <3> QED
      BY <2>1, <3>2, RecordLength
  <2>3. Length(rrs, 2, n + 1) =
            IF n + 1 < 2 THEN 0 ELSE Length(rrs, 2, n + 1 - 1) + RRLen[rrs[n + 1].type]
    BY LengthOf
  <2>4. Length(rrs, 1, n + 1) =
            IF n + 1 < 1 THEN 0 ELSE Length(rrs, 1, n + 1 - 1) + RRLen[rrs[n + 1].type]
    BY LengthOf
  <2>5. n + 1 - 1 = n
    OBVIOUS
  <2> QED
    BY <2>1, <2>2, <2>3, <2>4, <2>5
<1> HIDE DEF T
<1>3. Nat \subseteq T
  BY <1>1, <1>2, Induction
<1> QED
  BY <1>3 DEF T

\* An envelope is as long as its records where they were.
LEMMA LengthOfPart ==
    ASSUME NEW rrs \in Seq(RRs), NEW i \in 1 .. Len(rrs), NEW k \in i + 1 .. Len(rrs) + 1
    PROVE  LET e == SubSeq(rrs, i, k - 1) IN
           /\ e \in Seq(RRs) /\ Len(e) = k - i
           /\ Length(e, 2, Len(e)) = Length(rrs, i + 1, k - 1)
<1> DEFINE e == SubSeq(rrs, i, k - 1)
           T == {n \in Nat : n <= k - i => Length(e, 2, n) = Length(rrs, i + 1, i - 1 + n)}
<1>1. /\ e \in Seq(RRs) /\ Len(e) = k - i /\ k - i \in Nat /\ i \in Nat \ {0} /\ k \in Nat
      /\ \A n \in 1 .. k - i : e[n] = rrs[i - 1 + n]
  <2>1. i \in Nat \ {0} /\ k \in Nat /\ k - i \in Nat /\ k - 1 \in Nat /\ i <= k - 1
    OBVIOUS
  <2>2. e \in Seq(RRs)
    BY <2>1
  <2>3. Len(e) = k - i
    BY <2>1
  <2>4. \A n \in 1 .. k - i : e[n] = rrs[i - 1 + n]
    BY <2>1
  <2> QED
    BY <2>1, <2>2, <2>3, <2>4
<1> HIDE DEF e
<1>2. 0 \in T
  <2>1. Length(e, 2, 0) = 0
    BY <1>1, LengthOf
  <2>2. i - 1 + 0 \in Nat /\ i - 1 + 0 < i + 1 /\ i + 1 \in Nat \ {0}
    BY <1>1
  <2>3. Length(rrs, i + 1, i - 1 + 0) = 0
    BY <2>2, LengthOf
  <2> QED
    BY <2>1, <2>3
<1>3. ASSUME NEW n \in Nat, n \in T PROVE n + 1 \in T
  <2> SUFFICES ASSUME n + 1 <= k - i PROVE Length(e, 2, n + 1) = Length(rrs, i + 1, i - 1 + (n + 1))
    OBVIOUS
  <2> DEFINE m == i - 1 + (n + 1)
  <2>1. /\ Length(e, 2, n) = Length(rrs, i + 1, i - 1 + n) /\ e[n + 1] = rrs[m]
        /\ m \in Nat /\ m - 1 = i - 1 + n /\ i + 1 \in Nat \ {0} /\ (m < i + 1 <=> n + 1 < 2)
        /\ n + 1 - 1 = n
    BY <1>1, <1>3
  <2> HIDE DEF m
  <2>2. Length(e, 2, n + 1) = IF n + 1 < 2 THEN 0 ELSE Length(e, 2, n + 1 - 1) + RRLen[e[n + 1].type]
    <3>1. \A x \in Nat : Length(e, 2, x) = IF x < 2 THEN 0 ELSE Length(e, 2, x - 1) + RRLen[e[x].type]
      BY <1>1, LengthOf
    <3> HIDE DEF T
    <3> QED
      BY <3>1
  <2>3. Length(rrs, i + 1, m) = IF m < i + 1 THEN 0 ELSE Length(rrs, i + 1, m - 1) + RRLen[rrs[m].type]
    BY <2>1, LengthOf
  <2>4. Length(e, 2, n + 1) = Length(rrs, i + 1, m)
    BY <2>1, <2>2, <2>3
  <2> QED
    BY <2>4 DEF m
<1> HIDE DEF T
<1>4. k - i \in T
  BY <1>1, <1>2, <1>3, Induction
<1>5. Length(e, 2, k - i) = Length(rrs, i + 1, i - 1 + (k - i)) /\ i - 1 + (k - i) = k - 1
  BY <1>1, <1>4 DEF T
<1> QED
  BY <1>1, <1>5 DEF e

\* Where an envelope is cut.
LEMMA CutFacts ==
    ASSUME NEW rrs \in Seq(RRs), NEW i \in 1 .. Len(rrs), rrs[1].type = "SOA"
    PROVE  /\ Cut(rrs, i) \in i + 1 .. Len(rrs) + 1
           /\ Length(rrs, i + 1, Cut(rrs, i) - 1) <= transferLength
<1> DEFINE j == IF i = 1 THEN 1 ELSE i + 1
           C == Cuts(rrs, i)
           k == Cut(rrs, i)
<1>1. /\ i \in Nat \ {0} /\ j \in Nat \ {0} /\ Len(rrs) \in Nat /\ i \in 0 .. Len(rrs)
      /\ transferLength \in Nat
  BY TransferAssumption
<1>2. C = {n \in i .. Len(rrs) : Length(rrs, j, n) > transferLength} /\ C \subseteq Nat
  BY <1>1 DEF Cuts
<1>3. Length(rrs, j, i) <= transferLength
  <2>1. CASE i = 1
    <3>1. /\ Length(rrs, 1, 1) = IF 1 < 1 THEN 0 ELSE Length(rrs, 1, 1 - 1) + RRLen[rrs[1].type]
          /\ Length(rrs, 1, 0) = 0
      BY LengthOf
    <3>2. RRLen["SOA"] <= transferLength /\ RRLen["SOA"] \in Nat
      BY TransferAssumption DEF RRTypes
    <3>3. 1 - 1 = 0 /\ j = 1
      BY <2>1
    <3>4. Length(rrs, 1, 1) = RRLen["SOA"]
      BY <3>1, <3>2, <3>3
    <3> QED
      BY <2>1, <3>2, <3>3, <3>4
  <2>2. CASE i # 1
    <3>1. i < i + 1 /\ j = i + 1
      BY <1>1, <2>2
    <3>2. Length(rrs, j, i) = 0
      BY <1>1, <3>1, LengthOf
    <3> QED
      BY <1>1, <3>2
  <2> QED
    BY <2>1, <2>2
<1> HIDE DEF C, j
<1>4. k \in i + 1 .. Len(rrs) + 1 /\ \A n \in i .. k - 1 : n \notin C
  <2>1. CASE C = {}
    <3>1. k = Len(rrs) + 1
      BY <2>1 DEF Cut, C
    <3> QED
      BY <1>1, <2>1, <3>1
  <2>2. CASE C # {}
    <3>1. \E n \in C : \A m \in C : n <= m
      BY <1>2, <2>2, Smallest
    <3>2. k = CHOOSE n \in C : \A m \in C : n <= m
      BY <2>2 DEF Cut, C
    <3> HIDE DEF k
    <3>3. k \in C /\ \A m \in C : k <= m
      BY <3>1, <3>2
    <3>4. k \in i .. Len(rrs) /\ k \in Nat
      BY <1>2, <3>3
    <3>5. k # i
      <4>1. Length(rrs, j, i) \in Nat
        BY <1>1, LengthNat
      <4>2. i \notin C
        BY <1>1, <1>2, <1>3, <4>1
      <4> QED
        BY <3>3, <4>2
    <3>6. k \in i + 1 .. Len(rrs) + 1
      BY <1>1, <3>4, <3>5
    <3>7. \A n \in i .. k - 1 : n \notin C
      BY <1>1, <3>3, <3>4
    <3> QED
      BY <3>6, <3>7
  <2> QED
    BY <2>1, <2>2
<1> HIDE DEF k
<1>5. k - 1 \in i .. Len(rrs) /\ k - 1 \in 0 .. Len(rrs) /\ k - 1 \notin C
  BY <1>1, <1>4
<1>6. Length(rrs, j, k - 1) <= transferLength /\ Length(rrs, j, k - 1) \in Nat
  <2>1. Length(rrs, j, k - 1) \in Nat
    BY <1>1, <1>5, LengthNat
  <2> QED
    BY <1>1, <1>2, <1>5, <2>1
<1>7. Length(rrs, i + 1, k - 1) <= transferLength
  <2>1. CASE i = 1
    <3>1. j = 1 /\ i + 1 = 2
      BY <2>1 DEF j
    <3>2. Length(rrs, 2, k - 1) <= Length(rrs, 1, k - 1)
      BY <1>5, LengthWithoutFirst
    <3>3. Length(rrs, 2, k - 1) \in Nat
      BY <1>5, LengthNat
    <3> QED
      BY <1>1, <1>6, <3>1, <3>2, <3>3
  <2>2. CASE i # 1
    BY <1>6, <2>2 DEF j
  <2> QED
    BY <2>1, <2>2
<1> QED
  BY <1>4, <1>7 DEF k

-----------------------------------------------------------------------------
(* Sequences of records                                                    *)

LEMMA ElementsOf ==
    ASSUME NEW S, NEW a \in Seq(S), NEW b \in Seq(S)
    PROVE  Elements(a \o b) = Elements(a) \cup Elements(b)
<1> DEFINE w == a \o b
<1>1. /\ Len(a) \in Nat /\ Len(b) \in Nat /\ DOMAIN a = 1 .. Len(a) /\ DOMAIN b = 1 .. Len(b)
      /\ DOMAIN w = 1 .. Len(a) + Len(b)
      /\ \A k \in 1 .. Len(a) : w[k] = a[k]
      /\ \A k \in 1 .. Len(b) : w[Len(a) + k] = b[k]
  OBVIOUS
<1> HIDE DEF w
<1>2. \A k \in DOMAIN w : w[k] \in Elements(a) \cup Elements(b)
  <2> TAKE k \in DOMAIN w
  <2>1. CASE k \in 1 .. Len(a)
    BY <1>1, <2>1 DEF Elements
  <2>2. CASE k \notin 1 .. Len(a)
    <3>1. k - Len(a) \in 1 .. Len(b) /\ k = Len(a) + (k - Len(a))
      BY <1>1, <2>2
    <3>2. w[k] = b[k - Len(a)]
      BY <1>1, <3>1
    <3> QED
      BY <1>1, <3>1, <3>2 DEF Elements
  <2> QED
    BY <2>1, <2>2
<1>3. \A k \in DOMAIN a : a[k] \in Elements(w)
  BY <1>1 DEF Elements
<1>4. \A k \in DOMAIN b : b[k] \in Elements(w)
  <2> TAKE k \in DOMAIN b
  <2>1. Len(a) + k \in DOMAIN w /\ w[Len(a) + k] = b[k]
    BY <1>1
  <2> QED
    BY <2>1 DEF Elements
<1>5. Elements(w) \subseteq Elements(a) \cup Elements(b)
  BY <1>2 DEF Elements
<1>6. Elements(a) \cup Elements(b) \subseteq Elements(w)
  BY <1>3, <1>4 DEF Elements
<1> QED
  BY <1>5, <1>6 DEF w

\* The records between the first and the last.
LEMMA Wrapped ==
    ASSUME NEW S, NEW a \in Seq(S), NEW x \in S
    PROVE  LET w == <<x>> \o a \o <<x>> IN
           /\ w \in Seq(S) /\ Len(w) = Len(a) + 2 /\ w[1] = x /\ w[Len(w)] = x
           /\ SubSeq(w, 2, Len(w) - 1) = a
<1> DEFINE w == <<x>> \o a \o <<x>>
           m == SubSeq(w, 2, Len(w) - 1)
<1>1. w \in Seq(S) /\ Len(w) = Len(a) + 2 /\ w[1] = x /\ w[Len(w)] = x
  OBVIOUS
<1>2. \A k \in 1 .. Len(a) : w[k + 1] = a[k]
  OBVIOUS
<1> HIDE DEF w
<1>3. Len(m) = Len(a) /\ m \in Seq(S) /\ \A k \in 1 .. Len(a) : m[k] = a[k]
  <2>1. Len(a) \in Nat /\ Len(w) - 1 = Len(a) + 1
    BY <1>1
  <2>2. m \in Seq(S)
    BY <1>1, <2>1
  <2>3. Len(m) = Len(a)
    BY <1>1, <2>1
  <2>4. \A k \in 1 .. Len(a) : m[k] = w[k + 1]
    BY <1>1, <2>1
  <2> QED
    BY <1>2, <2>2, <2>3, <2>4
<1> HIDE DEF m
<1>4. m = a
  BY <1>3
<1> QED
  BY <1>1, <1>4 DEF w, m

\* Two neighbouring parts of a sequence.
LEMMA Joined ==
    ASSUME NEW S, NEW a \in Seq(S), NEW i \in 1 .. Len(a), NEW k \in i + 1 .. Len(a) + 1
    PROVE  /\ SubSeq(a, 1, i - 1) \o SubSeq(a, i, k - 1) = SubSeq(a, 1, k - 1)
           /\ k = Len(a) + 1 => SubSeq(a, 1, k - 1) = a
           /\ SubSeq(a, 1, k - 1) \in Seq(S)
<1> DEFINE p == SubSeq(a, 1, i - 1)
           q == SubSeq(a, i, k - 1)
           w == SubSeq(a, 1, k - 1)
<1>1. i \in Nat \ {0} /\ k \in Nat /\ Len(a) \in Nat /\ i - 1 \in Nat /\ k - 1 \in Nat /\ i <= k - 1
      /\ k - 1 <= Len(a)
  OBVIOUS
<1>2. p \in Seq(S) /\ Len(p) = i - 1
  BY <1>1
<1>3. q \in Seq(S) /\ Len(q) = k - i
  BY <1>1
<1>4. w \in Seq(S) /\ Len(w) = k - 1
  BY <1>1
<1>5. /\ \A n \in 1 .. i - 1 : p[n] = a[n]
      /\ \A n \in 1 .. k - i : q[n] = a[i - 1 + n]
      /\ \A n \in 1 .. k - 1 : w[n] = a[n]
  BY <1>1
<1> HIDE DEF p, q, w
<1>6. p \o q \in Seq(S) /\ Len(p \o q) = k - 1
  BY <1>1, <1>2, <1>3
<1>7. \A n \in 1 .. k - 1 : (p \o q)[n] = w[n]
  <2> TAKE n \in 1 .. k - 1
  <2>1. CASE n \in 1 .. i - 1
    BY <1>1, <1>2, <1>3, <1>5, <2>1
  <2>2. CASE n \notin 1 .. i - 1
    <3>1. n - (i - 1) \in 1 .. k - i /\ n = i - 1 + (n - (i - 1))
      BY <1>1, <2>2
    <3>2. (p \o q)[n] = q[n - (i - 1)]
      BY <1>1, <1>2, <1>3, <2>2, <3>1
    <3> QED
      BY <1>5, <3>1, <3>2
  <2> QED
    BY <2>1, <2>2
<1>8. p \o q = w
  <2> DEFINE v == p \o q
  <2>1. v \in Seq(S) /\ Len(v) = k - 1 /\ \A n \in 1 .. k - 1 : v[n] = w[n]
    BY <1>6, <1>7
  <2> HIDE DEF v
  <2>2. v = w
    BY <1>4, <2>1
  <2> QED
    BY <2>2 DEF v
<1>9. k = Len(a) + 1 => w = a
  BY <1>1, <1>4, <1>5
<1> QED
  BY <1>4, <1>8, <1>9 DEF p, q, w

-----------------------------------------------------------------------------
(* The zone                                                                *)

\* The records of a service, and of the zone, when the namespaces in sp are there.
RRsIn(sp, s, d) ==
    IF NsOf[s] \notin sp THEN <<>>
    ELSE IF ServiceType[d] = "cluster" THEN <<rr("A", s, d), rr("SRV", s, d), rr("portSRV", s, d)>>
    ELSE IF ServiceType[d] = "headless" THEN EndpointsRRs(s)
    ELSE <<rr("CNAME", s, d)>>
ZoneOf(sp) == UNION {Elements(RRsIn(sp, sd[1], sd[2])) : sd \in ServiceList}

LEMMA Exposed ==
    ASSUME Shape, NEW s \in Of("svc"), NEW d \in Data
    PROVE  ServiceRRs(s, d) = RRsIn(Spaces, s, d)
<1>1. NsOf[s] \in Of("ns") /\ ServiceType[d] \in {"cluster", "headless", "external"}
  BY TransferAssumption
<1>2. namespaceExposed(s) <=> NsOf[s] \in Spaces
  BY <1>1 DEF namespaceExposed, Spaces
<1> QED
  BY <1>1, <1>2 DEF ServiceRRs, RRsIn

LEMMA ListedServices ==
    ASSUME Shape, NEW sd \in ServiceList
    PROVE  sd \in Of("svc") \X Data
<1>1. PICK s \in Of("svc") : cache[s] # Absent /\ sd = <<s, cache[s].data>>
  BY DEF ServiceList
<1>2. cache[s] \in Cached
  BY <1>1 DEF Shape, TypeOK, Of
<1> QED
  BY <1>1, <1>2 DEF Cached

LEMMA ZoneIs ==
    ASSUME Shape PROVE ZoneRRs = ZoneOf(Spaces)
<1>1. \A sd \in ServiceList : ServiceRRs(sd[1], sd[2]) = RRsIn(Spaces, sd[1], sd[2])
  BY ListedServices, Exposed
<1> QED
  BY <1>1 DEF ZoneRRs, ZoneOf

LEMMA EndpointsType ==
    ASSUME Shape, NEW s PROVE EndpointsRRs(s) \in Seq(RRs)
<1> DEFINE eps == {e \in Of("ep") : SvcOf[e] = s /\ cache[e] # Absent}
           e == CHOOSE x \in eps : TRUE
           d == Significant[cache[e].data]
<1>1. CASE eps = {}
  <2>1. EndpointsRRs(s) = <<>>
    BY <1>1 DEF EndpointsRRs
  <2> QED
    BY <2>1
<1>2. CASE eps # {}
  <2>1. e \in eps
    BY <1>2
  <2>2. EndpointsRRs(s) = <<rr("A", e, d), rr("hostA", e, d), rr("SRV", e, d)>>
    BY <1>2 DEF EndpointsRRs
  <2>3. e \in Objects /\ cache[e] \in Cached
    BY <2>1 DEF Of, Shape, TypeOK
  <2> HIDE DEF e
  <2>4. d \in Contents
    BY <2>3 DEF Contents, Cached
  <2> HIDE DEF d
  <2>5. rr("A", e, d) \in RRs /\ rr("hostA", e, d) \in RRs /\ rr("SRV", e, d) \in RRs
    BY <2>3, <2>4 DEF rr, RRs, RRTypes
  <2> QED
    BY <2>2, <2>5
<1> QED
  BY <1>1, <1>2

LEMMA RecordsType ==
    ASSUME Shape, NEW s \in Of("svc"), NEW d \in Data
    PROVE  ServiceRRs(s, d) \in Seq(RRs)
<1>1. s \in Objects /\ d \in Contents
  BY DEF Of, Contents
<1>2. /\ rr("A", s, d) \in RRs /\ rr("SRV", s, d) \in RRs /\ rr("portSRV", s, d) \in RRs
      /\ rr("CNAME", s, d) \in RRs
  BY <1>1 DEF rr, RRs, RRTypes
<1>3. /\ <<>> \in Seq(RRs) /\ <<rr("CNAME", s, d)>> \in Seq(RRs)
      /\ <<rr("A", s, d), rr("SRV", s, d), rr("portSRV", s, d)>> \in Seq(RRs)
  BY <1>2
<1>4. EndpointsRRs(s) \in Seq(RRs)
  BY EndpointsType
<1>5. RRsIn(Spaces, s, d) \in Seq(RRs)
  BY <1>3, <1>4 DEF RRsIn
<1> QED
  BY <1>5, Exposed

\* EndpointsRRs, by the cache it reads.
EpsOf(c, s) == {e \in Of("ep") : SvcOf[e] = s /\ c[e] # Absent}
RRsOfEps(c, eps) ==
    IF eps = {} THEN <<>>
    ELSE LET e == CHOOSE x \in eps : TRUE
             d == Significant[c[e].data]
         IN  <<rr("A", e, d), rr("hostA", e, d), rr("SRV", e, d)>>

\* A change that detectChanges need not tell of leaves the zone as it is.
LEMMA InvisibleChange ==
    ASSUME Shape, NEW k \in Kinds, NEW o \in Of(k), NEW new \in Cached \cup {Absent},
           cache' = [cache EXCEPT ![o] = new], ~Visible(k, cache[o], new), NEW sp
    PROVE  ZoneOf(sp)' = ZoneOf(sp)
<1>1. /\ o \in Objects /\ KindOf[o] = k /\ cache'[o] = new
      /\ \A x \in Objects \ {o} : cache'[x] = cache[x]
  BY DEF Of, Shape, TypeOK
<1>2. ASSUME k # "ns"
      PROVE  /\ cache[o] = Absent <=> new = Absent
             /\ new # Absent /\ k # "ep" => cache[o].data = new.data
             /\ new # Absent /\ k = "ep" => Significant[cache[o].data] = Significant[new.data]
  BY <1>2 DEF Visible
<1>3. ASSUME NEW x \in Of("svc")
      PROVE  /\ cache'[x] = Absent <=> cache[x] = Absent
             /\ cache[x] # Absent => cache'[x].data = cache[x].data
  BY <1>1, <1>2 DEF Of
<1>4. ASSUME NEW x \in Of("ep")
      PROVE  /\ cache'[x] = Absent <=> cache[x] = Absent
             /\ cache[x] # Absent => Significant[cache'[x].data] = Significant[cache[x].data]
  BY <1>1, <1>2 DEF Of
<1>5. ServiceList' = ServiceList
  <2>1. ServiceList' = {<<s, cache'[s].data>> : s \in {x \in Of("svc") : cache'[x] # Absent}}
    BY DEF ServiceList, Of
  <2>2. {x \in Of("svc") : cache'[x] # Absent} = {x \in Of("svc") : cache[x] # Absent}
    BY <1>3
  <2> QED
    BY <1>3, <2>1, <2>2 DEF ServiceList
<1>6. ASSUME NEW s PROVE EndpointsRRs(s)' = EndpointsRRs(s)
  <2> DEFINE eps == EpsOf(cache, s)
             e == CHOOSE x \in eps : TRUE
  <2>1. EpsOf(cache', s) = eps
    BY <1>4 DEF EpsOf
  <2>2. EndpointsRRs(s) = RRsOfEps(cache, eps)
    BY Zenon DEF EndpointsRRs, RRsOfEps, EpsOf
  <2>3. EndpointsRRs(s)' = RRsOfEps(cache', EpsOf(cache', s))
    BY Zenon DEF EndpointsRRs, RRsOfEps, EpsOf, Of, rr
  <2>4. ASSUME eps # {} PROVE Significant[cache'[e].data] = Significant[cache[e].data]
    <3>1. e \in eps
      BY <2>4
    <3>2. e \in Of("ep") /\ cache[e] # Absent
      BY <3>1 DEF EpsOf
    <3> HIDE DEF e
    <3> QED
      BY <1>4, <3>2
  <2> HIDE DEF eps
  <2>5. RRsOfEps(cache', eps) = RRsOfEps(cache, eps)
    BY <2>4 DEF RRsOfEps
  <2> QED
    BY <2>1, <2>2, <2>3, <2>5
<1>7. \A s, d : RRsIn(sp, s, d)' = RRsIn(sp, s, d)
  BY <1>6 DEF RRsIn, rr
<1> QED
  BY <1>5, <1>7 DEF ZoneOf, Elements

-----------------------------------------------------------------------------
(* The cache and its serial                                                *)

\* The serial is not of the future, nor is a time that a handler is about to store.
Timely == modified <= now /\ \A k \in Kinds : proc[k].stamp <= now

LEMMA AdvanceTimely ==
    ASSUME Shape, Timely, NEW k \in Kinds, NEW todo \in Seq(Deltas), proc[k].pc # "idle",
           Advance(k, todo)
    PROVE  \A j \in Kinds : proc'[j].stamp <= now
<1>1. /\ \A j \in Kinds \ {k} : proc'[j] = proc[j]
      /\ todo # <<>> => proc'[k] = [proc[k] EXCEPT !.pc = "apply", !.todo = todo]
      /\ todo = <<>> => proc'[k] = Resting
      /\ proc[k] \in ProcLocals
  BY AdvanceFacts, BusyFacts
<1>2. now \in Nat /\ Resting.stamp = 0
  BY BoundsAssumption DEF Shape, TypeOK, Resting
<1>3. proc'[k].stamp \in {0, proc[k].stamp}
  BY <1>1, <1>2 DEF ProcLocals
<1> QED
  BY <1>1, <1>2, <1>3 DEF Timely

LEMMA NextTimely == Shape /\ Timely /\ [Next]_vars => Timely'
<1> SUFFICES ASSUME Shape, Timely, [Next]_vars PROVE Timely'
  OBVIOUS
<1>1. now \in Nat /\ modified \in Nat /\ \A k \in Kinds : proc[k].stamp \in Nat
  BY BoundsAssumption DEF Shape, TypeOK
<1>2. CASE UNCHANGED <<proc, modified>> /\ (now' = now \/ now' = now + 1)
  BY <1>1, <1>2 DEF Timely
<1>3. ASSUME NEW k \in Kinds, NEW o \in Objects, Pop(k, o) PROVE Timely'
  <2>1. /\ \A j \in Kinds \ {k} : proc'[j] = proc[j]
        /\ proc'[k].stamp = 0 /\ UNCHANGED <<now, modified>>
    BY <1>3 DEF Pop, Resting, serial, Shape, TypeOK
  <2> QED
    BY <1>1, <2>1 DEF Timely
<1>4. ASSUME NEW k \in Kinds, Apply(k) PROVE Timely'
  <2>1. /\ proc[k].pc # "idle" /\ Tail(proc[k].todo) \in Seq(Deltas) /\ <<>> \in Seq(Deltas)
        /\ UNCHANGED <<now, modified>> /\ proc[k] \in ProcLocals
    BY <1>4, BusyFacts, EmptyFacts DEF Apply
  <2>2. CASE Advance(k, <<>>) \/ Advance(k, Tail(proc[k].todo))
    BY <2>1, <2>2, AdvanceTimely DEF Timely
  <2>3. CASE proc' = [proc EXCEPT ![k].pc = "stamp", ![k].stamp = proc[k].stamp]
    <3>1. \A j \in Kinds : proc'[j].stamp = proc[j].stamp
      BY <2>1, <2>3 DEF Shape, TypeOK, ProcLocals
    <3> QED
      BY <2>1, <3>1 DEF Timely
  <2> QED
    BY <1>4, <2>2, <2>3, ApplyCases
<1>5. ASSUME NEW k \in Kinds, Stamp(k) PROVE Timely'
  <2>1. /\ \A j \in Kinds \ {k} : proc'[j] = proc[j]
        /\ proc'[k].stamp = now /\ UNCHANGED <<now, modified>>
    BY <1>5 DEF Stamp, serial, Shape, TypeOK
  <2> QED
    BY <1>1, <2>1 DEF Timely
<1>6. ASSUME NEW k \in Kinds, StoreModified(k) PROVE Timely'
  <2>1. /\ proc[k].pc # "idle" /\ Tail(proc[k].todo) \in Seq(Deltas)
        /\ now' = now /\ modified' = proc[k].stamp
    BY <1>6, BusyFacts DEF StoreModified
  <2>2. \A j \in Kinds : proc'[j].stamp <= now
    BY <1>6, <2>1, AdvanceTimely DEF StoreModified
  <2> QED
    BY <2>1, <2>2 DEF Timely
<1>7. \/ \E k \in Kinds : \E o \in Objects : Pop(k, o)
      \/ \E k \in Kinds : Apply(k) \/ Stamp(k) \/ StoreModified(k)
      \/ UNCHANGED <<proc, modified>> /\ (now' = now \/ now' = now + 1)
  BY DEF Next, vars, serial, Write, Terminate, Remove, Change, ReflectorStep, ListAndWatch,
     ReflectorStops, WatchBreaks, ProcStep, Tick, Run, Serve, Stop, Ask, DnsStep, ReadCache,
     CheckSynced
<1> QED
  BY <1>2, <1>3, <1>4, <1>5, <1>6, <1>7

\* What is known of the cache at every step.
CacheInv == Shape /\ Identified /\ KeepsUp /\ Timely

\* A step that changes the zone sets latest to the time.
LEMMA ZoneChange ==
    ASSUME CacheInv, [Next]_vars
    PROVE  /\ now' >= now /\ latest' >= latest
           /\ \/ \A sp : ZoneOf(sp)' = ZoneOf(sp)
              \/ cache' # cache /\ latest' = now
           /\ cache' = cache => UNCHANGED <<ServiceList, Spaces>>
                                /\ \A s, d : ServiceRRs(s, d)' = ServiceRRs(s, d)
<1>1. now \in Nat /\ latest \in Nat /\ latest <= now /\ Shape
  BY BoundsAssumption DEF CacheInv, Shape, TypeOK, KeepsUp
<1>2. ASSUME cache' = cache
      PROVE  /\ UNCHANGED <<ServiceList, Spaces>> /\ \A sp : ZoneOf(sp)' = ZoneOf(sp)
             /\ \A s, d : ServiceRRs(s, d)' = ServiceRRs(s, d)
  <2>1. UNCHANGED <<ServiceList, Spaces>>
    BY <1>2 DEF ServiceList, Spaces, Of
  <2>2. \A s : EndpointsRRs(s)' = EndpointsRRs(s)
    <3> TAKE s
    <3>1. EndpointsRRs(s) = RRsOfEps(cache, EpsOf(cache, s))
      BY Zenon DEF EndpointsRRs, RRsOfEps, EpsOf
    <3>2. EndpointsRRs(s)' = RRsOfEps(cache', EpsOf(cache', s))
      BY Zenon DEF EndpointsRRs, RRsOfEps, EpsOf, Of, rr
    <3> QED
      BY <1>2, <3>1, <3>2
  <2>3. \A s, d : ServiceRRs(s, d)' = ServiceRRs(s, d)
    BY <1>2, <2>2 DEF ServiceRRs, namespaceExposed, rr
  <2>4. \A sp, s, d : RRsIn(sp, s, d)' = RRsIn(sp, s, d)
    BY <2>2 DEF RRsIn, rr
  <2>5. \A sp : ZoneOf(sp)' = ZoneOf(sp)
    BY <2>1, <2>4 DEF ZoneOf, Elements
  <2> QED
    BY <2>1, <2>3, <2>5
<1>3. CASE UNCHANGED <<cache, latest>> /\ (now' = now \/ now' = now + 1)
  BY <1>1, <1>2, <1>3
<1>4. ASSUME NEW k \in Kinds, Apply(k)
      PROVE  /\ now' >= now /\ latest' >= latest
             /\ \/ \A sp : ZoneOf(sp)' = ZoneOf(sp)
                \/ cache' # cache /\ latest' = now
  <2> DEFINE o == proc[k].obj
             new == Effect(Head(proc[k].todo))
  <2>1. o \in Of(k) /\ new \in Cached \cup {Absent} /\ now' = now /\ KindOf[o] = k /\ o \in Objects
    <3>1. proc[k].pc # "idle"
      BY <1>4 DEF Apply
    <3>2. o \in Of(k) /\ proc[k].todo \in Seq(Deltas) /\ proc[k].todo # <<>>
      BY <1>1, <3>1, BusyFacts DEF Shape, TypeOK
    <3>3. Head(proc[k].todo) \in Deltas
      BY <3>2, TailFacts
    <3> QED
      BY <1>4, <3>2, <3>3, DeltaObject DEF Apply, Of
  <2>2. CASE UNCHANGED <<cache, latest>>
    BY <1>1, <1>2, <2>1, <2>2
  <2>3. CASE /\ cache' = [cache EXCEPT ![o] = new] /\ cache'[o] = new
             /\ latest' = IF Visible(k, cache[o], new) THEN now ELSE latest
    <3>1. CASE Visible(k, cache[o], new)
      <4>1. cache[o] # new
        BY <3>1 DEF Visible
      <4> QED
        BY <1>1, <2>1, <2>3, <3>1, <4>1
    <3>2. CASE ~Visible(k, cache[o], new)
      <4>1. \A sp : ZoneOf(sp)' = ZoneOf(sp)
        BY <1>1, <2>1, <2>3, <3>2, InvisibleChange
      <4> QED
        BY <1>1, <2>1, <2>3, <3>2, <4>1
    <3> QED
      BY <3>1, <3>2
  <2> QED
    BY <1>1, <1>4, <2>2, <2>3, ApplyCases
<1>5. \/ \E k \in Kinds : Apply(k)
      \/ UNCHANGED <<cache, latest>> /\ (now' = now \/ now' = now + 1)
  BY DEF Next, vars, serial, Write, Terminate, Remove, Change, ReflectorStep, ListAndWatch,
     ReflectorStops, WatchBreaks, ProcStep, Pop, Stamp, StoreModified, Tick, Run, Serve, Stop, Ask,
     DnsStep, ReadCache, CheckSynced
<1> QED
  BY <1>2, <1>3, <1>4, <1>5

-----------------------------------------------------------------------------
(* Transfers                                                               *)

XfrLocals == [pc : {"idle", "emit", "send"}, todo : SUBSET (Of("svc") \X Data), rrs : Seq(RRs),
              next : Nat, got : Seq(RRs), spaces : SUBSET Objects, raced : BOOLEAN]

\* A copy with its serial: it is the zone, or the zone has changed at a later time.
UpToDate(rrs, sp, n) == rrs = ZoneOf(sp) \/ latest > n

\* While nothing else happens, the records so far are those of the services so far.
Emitting(x) ==
    /\ x.next = 1 /\ x.got = <<>>
    /\ ~x.raced =>
         /\ x.todo \subseteq ServiceList /\ x.spaces = Spaces
         /\ Elements(x.rrs) = UNION {Elements(ServiceRRs(sd[1], sd[2])) : sd \in ServiceList \ x.todo}

\* The records are between two SOAs with a serial, and are sent up to the next envelope.
Sending(x) ==
    LET n == x.rrs[1].content
        l == Len(x.rrs)
    IN  /\ l >= 3 /\ n \in Nat /\ n <= now /\ x.rrs[1] = SOA(n) /\ x.rrs[l] = SOA(n)
        /\ x.next \in 1 .. l /\ x.got = SubSeq(x.rrs, 1, x.next - 1)
        /\ ~x.raced => UpToDate(Elements(SubSeq(x.rrs, 2, l - 1)), x.spaces, n)

Transferring(x) ==
    /\ x \in XfrLocals
    /\ x.pc = "idle" => x.rrs = <<>> /\ x.next = 1 /\ x.got = <<>>
    /\ x.pc = "emit" => Emitting(x)
    /\ x.pc = "send" => Sending(x)

Copies == [serial : Nat, rrs : SUBSET RRs, last : RRs, spaces : SUBSET Objects, raced : BOOLEAN]

Copied(y) ==
    /\ y \in Copies /\ y.serial <= now /\ y.last = SOA(y.serial)
    /\ ~y.raced => UpToDate(y.rrs, y.spaces, y.serial)

ZoneInv ==
    /\ DOMAIN xfr = Clients /\ DOMAIN copy = Clients
    /\ xfr = [c \in Clients |-> xfr[c]] /\ copy = [c \in Clients |-> copy[c]]
    /\ \A c \in Clients : Transferring(xfr[c]) /\ (copy[c] # Absent => Copied(copy[c]))

LEMMA Steady ==
    ASSUME CacheInv, UNCHANGED vars
    PROVE  /\ UNCHANGED <<cache, latest, now, modified, ServiceList, Spaces>>
           /\ \A sp : ZoneOf(sp)' = ZoneOf(sp)
           /\ \A s, d : ServiceRRs(s, d)' = ServiceRRs(s, d)
<1>1. UNCHANGED <<cache, latest, now, modified>> /\ latest \in Nat /\ now \in Nat
  BY BoundsAssumption DEF vars, serial, CacheInv, Shape, TypeOK
<1>2. [Next]_vars
  OBVIOUS
<1>3. UNCHANGED <<ServiceList, Spaces>> /\ \A s, d : ServiceRRs(s, d)' = ServiceRRs(s, d)
  BY <1>1, <1>2, ZoneChange
<1>4. \A sp : ZoneOf(sp)' = ZoneOf(sp)
  BY <1>1, <1>2, ZoneChange
<1> QED
  BY <1>1, <1>3, <1>4

LEMMA UpToDateKept ==
    ASSUME CacheInv, UNCHANGED vars, NEW rrs, NEW sp, NEW n, UpToDate(rrs, sp, n)
    PROVE  UpToDate(rrs, sp, n)'
<1>1. ZoneOf(sp)' = ZoneOf(sp) /\ latest' = latest
  BY Steady
<1> QED
  BY <1>1 DEF UpToDate

LEMMA TransferringKept ==
    ASSUME CacheInv, UNCHANGED vars, NEW x, Transferring(x) PROVE Transferring(x)'
<1>1. UNCHANGED <<cache, latest, now, ServiceList, Spaces>>
  BY Steady
<1>2. Emitting(x) => Emitting(x)'
  <2>1. \A s, d : Elements(ServiceRRs(s, d))' = Elements(ServiceRRs(s, d))
    BY Steady DEF Elements
  <2>2. Elements(x.rrs)' = Elements(x.rrs)
    BY DEF Elements
  <2> QED
    BY <1>1, <2>1, <2>2 DEF Emitting
<1>3. Sending(x) => Sending(x)'
  BY <1>1, UpToDateKept DEF Sending, SOA, rr, Elements
<1> QED
  BY <1>2, <1>3 DEF Transferring, XfrLocals, RRs, Contents, Of, NoTransfer

LEMMA CopiedKept ==
    ASSUME CacheInv, UNCHANGED vars, NEW y, Copied(y) PROVE Copied(y)'
<1>1. now' = now
  BY Steady
<1> QED
  BY <1>1, UpToDateKept DEF Copied, SOA, rr, Copies, RRs, Contents

\* A step of a transfer: what it leaves to its own client.
LEMMA OneTransfer ==
    ASSUME CacheInv, ZoneInv, UNCHANGED vars, NEW c \in Clients, NEW x, NEW y,
           xfr' = [xfr EXCEPT ![c] = x], copy' = [copy EXCEPT ![c] = y],
           Transferring(x), y # Absent => Copied(y)
    PROVE  ZoneInv'
<1>1. /\ DOMAIN xfr = Clients /\ DOMAIN copy = Clients
      /\ xfr = [d \in Clients |-> xfr[d]] /\ copy = [d \in Clients |-> copy[d]]
      /\ \A d \in Clients : Transferring(xfr[d]) /\ (copy[d] # Absent => Copied(copy[d]))
  BY DEF ZoneInv
<1>2. /\ xfr'[c] = x /\ copy'[c] = y /\ DOMAIN xfr' = Clients /\ DOMAIN copy' = Clients
      /\ \A d \in Clients \ {c} : xfr'[d] = xfr[d] /\ copy'[d] = copy[d]
      /\ xfr' = [d \in Clients |-> xfr'[d]] /\ copy' = [d \in Clients |-> copy'[d]]
  BY <1>1
<1>3. ASSUME NEW d \in Clients
      PROVE  Transferring(xfr[d])' /\ (copy'[d] # Absent => Copied(copy[d])')
  <2>1. CASE d = c
    BY <1>2, <2>1, TransferringKept, CopiedKept
  <2>2. CASE d # c
    BY <1>1, <1>2, <2>2, TransferringKept, CopiedKept
  <2> QED
    BY <2>1, <2>2
<1> QED
  BY <1>2, <1>3 DEF ZoneInv

LEMMA OwnTransfer ==
    ASSUME CacheInv, ZoneInv, UNCHANGED vars, NEW c \in Clients, NEW x,
           xfr' = [xfr EXCEPT ![c] = x], UNCHANGED copy, Transferring(x)
    PROVE  ZoneInv'
<1>1. copy' = [copy EXCEPT ![c] = copy[c]] /\ (copy[c] # Absent => Copied(copy[c]))
  BY DEF ZoneInv
<1> QED
  BY <1>1, OneTransfer

LEMMA IdleTransfer == Transferring(NoTransfer)
<1>1. <<>> \in Seq(RRs)
  OBVIOUS
<1>2. NoTransfer \in XfrLocals
  BY <1>1 DEF NoTransfer, XfrLocals
<1> QED
  BY <1>2 DEF Transferring, NoTransfer

LEMMA TransferZone ==
    ASSUME CacheInv, ZoneInv, NEW c \in Clients, Transfer(c) PROVE ZoneInv'
<1> DEFINE z == xfr[c]
<1>1. /\ UNCHANGED <<vars, copy>> /\ z.pc = "idle" /\ xfr = [d \in Clients |-> xfr[d]]
      /\ z \in XfrLocals /\ z.rrs = <<>> /\ z.next = 1 /\ z.got = <<>> /\ Transferring(z)
  BY DEF Transfer, ZoneInv, Transferring
<1> DEFINE x == [z EXCEPT !.pc = "emit", !.todo = ServiceList, !.spaces = Spaces]
<1>2. CASE transferAllowed(c)
  <2>1. xfr' = [xfr EXCEPT ![c].pc = "emit", ![c].todo = ServiceList, ![c].spaces = Spaces]
    BY <1>2 DEF Transfer
  <2>2. xfr' = [xfr EXCEPT ![c] = x]
    BY <1>1, <2>1
  <2>4. ServiceList \in SUBSET (Of("svc") \X Data) /\ Spaces \in SUBSET Objects
    BY ListedServices DEF CacheInv, Spaces, Of
  <2>5. <<>> \in Seq(RRs) /\ Elements(<<>>) = {}
    <3>1. DOMAIN << >> = {} /\ <<>> \in Seq(RRs)
      OBVIOUS
    <3> QED
      BY <3>1 DEF Elements
  <2>6. /\ x \in XfrLocals /\ x.pc = "emit" /\ x.todo = ServiceList /\ x.rrs = <<>>
        /\ x.next = 1 /\ x.got = <<>> /\ x.spaces = Spaces
    BY <1>1, <2>4 DEF XfrLocals
  <2> HIDE DEF x
  <2>7. Emitting(x)
    BY <2>5, <2>6 DEF Emitting
  <2>8. Transferring(x)
    BY <2>6, <2>7 DEF Transferring
  <2> QED
    BY <1>1, <2>2, <2>8, OwnTransfer DEF x
<1>3. CASE ~transferAllowed(c)
  <2>1. xfr' = [xfr EXCEPT ![c] = z]
    BY <1>1, <1>3 DEF Transfer
  <2> QED
    BY <1>1, <2>1, OwnTransfer
<1> QED
  BY <1>2, <1>3

LEMMA EmitServiceZone ==
    ASSUME CacheInv, ZoneInv, NEW c \in Clients, NEW sd \in xfr[c].todo, EmitService(c, sd) PROVE ZoneInv'
<1> DEFINE z == xfr[c]
           new == ServiceRRs(sd[1], sd[2])
           x == [z EXCEPT !.todo = z.todo \ {sd}, !.rrs = z.rrs \o new]
<1>1. /\ UNCHANGED <<vars, copy>> /\ z.pc = "emit" /\ z \in XfrLocals /\ Emitting(z)
      /\ xfr = [d \in Clients |-> xfr[d]]
  BY DEF EmitService, ZoneInv, Transferring
<1>2. xfr' = [xfr EXCEPT ![c] = x]
  BY <1>1 DEF EmitService
<1>3. z.rrs \in Seq(RRs) /\ z.todo \in SUBSET (Of("svc") \X Data)
  BY <1>1 DEF XfrLocals
<1>4. new \in Seq(RRs)
  BY <1>3, RecordsType DEF CacheInv
<1>5. Elements(z.rrs \o new) = Elements(z.rrs) \cup Elements(new)
  BY <1>3, <1>4, ElementsOf
<1>6. z.rrs \o new \in Seq(RRs)
  BY <1>3, <1>4
<1> HIDE DEF new
<1>7. /\ x \in XfrLocals /\ x.pc = "emit" /\ x.todo = z.todo \ {sd} /\ x.rrs = z.rrs \o new
      /\ x.next = z.next /\ x.got = z.got /\ x.spaces = z.spaces /\ x.raced = z.raced
  BY <1>1, <1>3, <1>6 DEF XfrLocals
<1> HIDE DEF x
<1>8. Emitting(x)
  <2> SUFFICES ASSUME ~x.raced
               PROVE  /\ x.todo \subseteq ServiceList /\ x.spaces = Spaces
                      /\ Elements(x.rrs) = UNION {Elements(ServiceRRs(t[1], t[2])) : t \in ServiceList \ x.todo}
    BY <1>1, <1>7 DEF Emitting
  <2>1. /\ z.todo \subseteq ServiceList /\ z.spaces = Spaces
        /\ Elements(z.rrs) = UNION {Elements(ServiceRRs(t[1], t[2])) : t \in ServiceList \ z.todo}
    BY <1>1, <1>7 DEF Emitting
  <2>2. ServiceList \ x.todo = (ServiceList \ z.todo) \cup {sd}
    BY <1>7, <2>1
  <2>3. Elements(x.rrs) = Elements(z.rrs) \cup Elements(ServiceRRs(sd[1], sd[2]))
    BY <1>5, <1>7 DEF new
  <2> QED
    BY <1>7, <2>1, <2>2, <2>3
<1>9. Transferring(x)
  BY <1>7, <1>8 DEF Transferring
<1> QED
  BY <1>1, <1>2, <1>9, OwnTransfer DEF x

LEMMA NothingToSendZone ==
    ASSUME CacheInv, ZoneInv, NEW c \in Clients, NothingToSend(c) \/ SendFails(c) PROVE ZoneInv'
<1>1. UNCHANGED <<vars, copy>> /\ xfr' = [xfr EXCEPT ![c] = NoTransfer]
  BY DEF NothingToSend, SendFails
<1> QED
  BY <1>1, IdleTransfer, OwnTransfer

LEMMA ReadSerialZone ==
    ASSUME CacheInv, ZoneInv, NEW c \in Clients, ReadSerial(c) PROVE ZoneInv'
<1> DEFINE z == xfr[c]
           soa == SOA(modified)
           w == <<soa>> \o z.rrs \o <<soa>>
           x == [z EXCEPT !.pc = "send", !.rrs = w]
<1>1. /\ UNCHANGED <<vars, copy>> /\ z.pc = "emit" /\ z \in XfrLocals /\ Emitting(z)
      /\ z.todo = {} /\ z.rrs # <<>> /\ xfr = [d \in Clients |-> xfr[d]]
  BY DEF ReadSerial, ZoneInv, Transferring
<1>2. xfr' = [xfr EXCEPT ![c] = x]
  BY <1>1 DEF ReadSerial
<1>3. z.rrs \in Seq(RRs) /\ Len(z.rrs) \in Nat \ {0} /\ modified \in Nat /\ modified <= now /\ Shape
  <2>1. z.rrs \in Seq(RRs)
    BY <1>1 DEF XfrLocals
  <2>2. modified \in Nat /\ modified <= now /\ Shape
    BY BoundsAssumption DEF CacheInv, Shape, TypeOK, Timely
  <2> QED
    BY <1>1, <2>1, <2>2
<1>4. soa \in RRs /\ soa.content = modified
  BY <1>3 DEF SOA, rr, RRs, RRTypes, Contents
<1> HIDE DEF soa
<1>5. /\ w \in Seq(RRs) /\ Len(w) = Len(z.rrs) + 2 /\ w[1] = soa /\ w[Len(w)] = soa
      /\ SubSeq(w, 2, Len(w) - 1) = z.rrs
  BY <1>3, <1>4, Wrapped
<1> HIDE DEF w
<1>6. /\ x \in XfrLocals /\ x.pc = "send" /\ x.rrs = w
      /\ x.next = z.next /\ x.got = z.got /\ x.spaces = z.spaces /\ x.raced = z.raced
  BY <1>1, <1>5 DEF XfrLocals
<1> HIDE DEF x
<1>7. ~x.raced => UpToDate(Elements(SubSeq(w, 2, Len(w) - 1)), x.spaces, modified)
  <2> SUFFICES ASSUME ~x.raced PROVE Elements(z.rrs) = ZoneOf(x.spaces)
    BY <1>5 DEF UpToDate
  <2>1. /\ z.spaces = Spaces
        /\ Elements(z.rrs) = UNION {Elements(ServiceRRs(t[1], t[2])) : t \in ServiceList \ z.todo}
    BY <1>1, <1>6 DEF Emitting
  <2>2. ServiceList \ z.todo = ServiceList
    BY <1>1
  <2>3. Elements(z.rrs) = ZoneRRs
    BY <2>1, <2>2 DEF ZoneRRs
  <2> QED
    BY <1>3, <1>6, <2>1, <2>3, ZoneIs
<1>8. x.next = 1 /\ x.got = <<>> /\ SubSeq(w, 1, 1 - 1) = <<>>
  BY <1>1, <1>5, <1>6 DEF Emitting
<1>9. Sending(x)
  <2>1. x.rrs[1].content = modified /\ Len(x.rrs) = Len(w) /\ Len(w) >= 3 /\ Len(w) \in Nat
    BY <1>3, <1>4, <1>5, <1>6
  <2>2. x.next \in 1 .. Len(w) /\ x.got = SubSeq(x.rrs, 1, x.next - 1)
    BY <1>6, <1>8, <2>1
  <2> QED
    BY <1>3, <1>5, <1>6, <1>7, <2>1, <2>2 DEF Sending, soa
<1>10. Transferring(x)
  BY <1>6, <1>9 DEF Transferring
<1> QED
  BY <1>1, <1>2, <1>10, OwnTransfer DEF x, w, soa

\* The next envelope of a transfer.
LEMMA EnvelopeFacts ==
    ASSUME ZoneInv, NEW c \in Clients, xfr[c].pc = "send"
    PROVE  LET z == xfr[c]
               k == Cut(z.rrs, z.next)
               e == Envelope(c) IN
           /\ z \in XfrLocals /\ Sending(z) /\ z.rrs \in Seq(RRs) /\ k \in z.next + 1 .. Len(z.rrs) + 1
           /\ z.next \in 1 .. Len(z.rrs) /\ Len(z.rrs) \in Nat
           /\ e # <<>> /\ Length(e, 2, Len(e)) <= transferLength
           /\ Received(c) = SubSeq(z.rrs, 1, k - 1) /\ Received(c) \in Seq(RRs)
           /\ IsLast(c) => Received(c) = z.rrs
<1> DEFINE z == xfr[c]
           k == Cut(z.rrs, z.next)
           e == Envelope(c)
<1>1. z \in XfrLocals /\ Sending(z)
  BY DEF ZoneInv, Transferring
<1>2. /\ z.rrs \in Seq(RRs) /\ z.next \in 1 .. Len(z.rrs) /\ z.rrs[1].type = "SOA"
      /\ z.got = SubSeq(z.rrs, 1, z.next - 1) /\ Len(z.rrs) \in Nat
  BY <1>1 DEF XfrLocals, Sending, SOA, rr
<1>3. k \in z.next + 1 .. Len(z.rrs) + 1 /\ Length(z.rrs, z.next + 1, k - 1) <= transferLength
  BY <1>2, CutFacts
<1>4. e = SubSeq(z.rrs, z.next, k - 1)
  BY DEF Envelope
<1> HIDE DEF k, e
<1>5. e \in Seq(RRs) /\ Len(e) = k - z.next /\ Length(e, 2, Len(e)) = Length(z.rrs, z.next + 1, k - 1)
  BY <1>2, <1>3, <1>4, LengthOfPart
<1>6. Len(e) # 0
  BY <1>2, <1>3, <1>5
<1>7. e # <<>> /\ Length(e, 2, Len(e)) <= transferLength
  BY <1>3, <1>5, <1>6
<1>8. /\ Received(c) = SubSeq(z.rrs, 1, k - 1) /\ Received(c) \in Seq(RRs)
      /\ k = Len(z.rrs) + 1 => Received(c) = z.rrs
  <2>1. Received(c) = SubSeq(z.rrs, 1, z.next - 1) \o SubSeq(z.rrs, z.next, k - 1)
    BY <1>2, <1>4 DEF Received, e
  <2> DEFINE rrs == z.rrs
             i == z.next
  <2>2. /\ rrs \in Seq(RRs) /\ i \in 1 .. Len(rrs) /\ k \in i + 1 .. Len(rrs) + 1
        /\ Received(c) = SubSeq(rrs, 1, i - 1) \o SubSeq(rrs, i, k - 1)
    BY <1>2, <1>3, <2>1
  <2> HIDE DEF rrs, i
  <2>3. /\ SubSeq(rrs, 1, i - 1) \o SubSeq(rrs, i, k - 1) = SubSeq(rrs, 1, k - 1)
        /\ k = Len(rrs) + 1 => SubSeq(rrs, 1, k - 1) = rrs
        /\ SubSeq(rrs, 1, k - 1) \in Seq(RRs)
    BY <2>2, Joined
  <2> QED
    BY <2>2, <2>3 DEF rrs
<1>9. IsLast(c) => k = Len(z.rrs) + 1
  <2>1. IsLast(c) => k > Len(z.rrs)
    BY DEF IsLast, k
  <2> QED
    BY <1>2, <1>3, <2>1
<1> QED
  BY <1>1, <1>2, <1>3, <1>7, <1>8, <1>9 DEF k, e

LEMMA SendEnvelopeZone ==
    ASSUME CacheInv, ZoneInv, NEW c \in Clients, SendEnvelope(c) PROVE ZoneInv'
<1> DEFINE z == xfr[c]
           k == Cut(z.rrs, z.next)
           all == Received(c)
<1>1. UNCHANGED vars /\ z.pc = "send" /\ xfr = [d \in Clients |-> xfr[d]]
  BY DEF SendEnvelope, ZoneInv
<1>2. /\ z \in XfrLocals /\ Sending(z) /\ z.rrs \in Seq(RRs) /\ k \in z.next + 1 .. Len(z.rrs) + 1
      /\ z.next \in 1 .. Len(z.rrs) /\ Len(z.rrs) \in Nat
      /\ all = SubSeq(z.rrs, 1, k - 1) /\ all \in Seq(RRs) /\ (IsLast(c) => all = z.rrs)
  BY <1>1, EnvelopeFacts
<1>3. CASE IsLast(c)
  <2>1. copy' = [copy EXCEPT ![c] = Kept(c)] /\ xfr' = [xfr EXCEPT ![c] = NoTransfer]
    BY <1>3 DEF SendEnvelope
  <2>2. Kept(c) = [serial |-> Head(z.rrs).content, rrs |-> Elements(SubSeq(z.rrs, 2, Len(z.rrs) - 1)),
                   last |-> z.rrs[Len(z.rrs)], spaces |-> z.spaces, raced |-> z.raced]
    BY <1>2, <1>3 DEF Kept
  <2>3. Head(z.rrs) = z.rrs[1]
    BY <1>2
  <2>4. Kept(c) \in Copies
    <3> DEFINE mid == SubSeq(z.rrs, 2, Len(z.rrs) - 1)
    <3>1. mid \in Seq(RRs) /\ z.rrs[Len(z.rrs)] \in RRs
      <4> DEFINE rrs == z.rrs
      <4>1. rrs \in Seq(RRs) /\ Len(rrs) \in Nat /\ Len(rrs) >= 3
        BY <1>2 DEF Sending
      <4> HIDE DEF rrs
      <4>2. SubSeq(rrs, 2, Len(rrs) - 1) \in Seq(RRs)
        BY <4>1
      <4>3. rrs[Len(rrs)] \in RRs
        BY <4>1
      <4> QED
        BY <4>2, <4>3 DEF rrs
    <3> HIDE DEF mid
    <3>2. Elements(mid) \in SUBSET RRs
      BY <3>1 DEF Elements
    <3>3. Head(z.rrs).content \in Nat /\ z.spaces \in SUBSET Objects /\ z.raced \in BOOLEAN
      BY <1>2, <2>3 DEF Sending, XfrLocals
    <3> QED
      BY <2>2, <3>1, <3>2, <3>3 DEF Copies, mid
  <2>5. Copied(Kept(c))
    BY <1>2, <2>2, <2>3, <2>4 DEF Copied, Sending
  <2> QED
    BY <1>1, <2>1, <2>5, IdleTransfer, OneTransfer
<1>4. CASE ~IsLast(c)
  <2> DEFINE x == [z EXCEPT !.got = all, !.next = k]
  <2>1. UNCHANGED copy /\ xfr' = [xfr EXCEPT ![c] = x]
    BY <1>1, <1>4 DEF SendEnvelope
  <2>2. k \in Nat /\ k <= Len(z.rrs) /\ k >= 1
    BY <1>2, <1>4 DEF IsLast
  <2> HIDE DEF k, all
  <2>3. /\ x \in XfrLocals /\ x.pc = "send" /\ x.rrs = z.rrs /\ x.next = k /\ x.got = all
        /\ x.spaces = z.spaces /\ x.raced = z.raced
    BY <1>1, <1>2, <2>2 DEF XfrLocals
  <2> HIDE DEF x
  <2>4. Sending(x)
    <3>1. x.next \in 1 .. Len(z.rrs) /\ x.got = SubSeq(x.rrs, 1, x.next - 1)
      BY <1>2, <2>2, <2>3
    <3> QED
      BY <1>2, <2>3, <3>1 DEF Sending
  <2>5. Transferring(x)
    BY <2>3, <2>4 DEF Transferring
  <2> QED
    BY <1>1, <2>1, <2>5, OwnTransfer DEF x, k, all
<1> QED
  BY <1>3, <1>4

\* A copy that is the zone stays so, or becomes older than the last change.
LEMMA UpToDateStep ==
    ASSUME CacheInv, [Next]_vars, NEW rrs, NEW sp, NEW n \in Nat, n <= now,
           UpToDate(rrs, sp, n), cache' = cache \/ n # now
    PROVE  UpToDate(rrs, sp, n)'
<1>1. now \in Nat /\ latest \in Nat
  BY BoundsAssumption DEF CacheInv, Shape, TypeOK
<1>2. /\ latest' >= latest
      /\ (ZoneOf(sp)' = ZoneOf(sp)) \/ (cache' # cache /\ latest' = now)
  BY ZoneChange
<1>3. latest' \in Nat
  <2>1. Shape'
    BY NextShape DEF CacheInv
  <2> QED
    BY <2>1, BoundsAssumption DEF Shape, TypeOK
<1>4. CASE ZoneOf(sp)' = ZoneOf(sp)
  BY <1>1, <1>2, <1>3, <1>4 DEF UpToDate
<1>5. CASE cache' # cache /\ latest' = now
  BY <1>1, <1>5 DEF UpToDate
<1> QED
  BY <1>2, <1>4, <1>5

LEMMA CacheStepZone ==
    ASSUME CacheInv, ZoneInv, CacheStep PROVE ZoneInv'
<1>1. /\ [Next]_vars /\ DOMAIN xfr' = Clients /\ DOMAIN copy' = Clients
      /\ xfr' = [c \in Clients |-> xfr'[c]] /\ copy' = [c \in Clients |-> copy'[c]]
  BY DEF CacheStep
<1>2. now \in Nat /\ now' \in Nat /\ now' >= now
  <2>1. Shape'
    BY <1>1, NextShape DEF CacheInv
  <2>2. now \in 0 .. MaxTime /\ now' \in 0 .. MaxTime
    BY <2>1 DEF CacheInv, Shape, TypeOK
  <2>3. now' >= now
    BY <1>1, ZoneChange
  <2> QED
    BY <2>2, <2>3, BoundsAssumption
<1>3. ASSUME NEW c \in Clients PROVE Transferring(xfr[c])'
  <2> DEFINE z == xfr[c]
  <2> PICK x : x = xfr'[c]
    OBVIOUS
  <2>1. z \in XfrLocals /\ Transferring(z)
    BY DEF ZoneInv, Transferring
  <2>2. x = [z EXCEPT !.raced = z.raced \/ RacedBy(c)]
    BY DEF CacheStep
  <2>3. x \in XfrLocals
    <3>1. (z.raced \/ RacedBy(c)) \in BOOLEAN
      OBVIOUS
    <3> QED
      BY <2>1, <2>2, <3>1 DEF XfrLocals
  <2>4. /\ x.pc = z.pc /\ x.rrs = z.rrs /\ x.next = z.next /\ x.got = z.got /\ x.todo = z.todo
        /\ x.spaces = z.spaces /\ x.raced = (z.raced \/ RacedBy(c))
    BY <2>1, <2>2 DEF XfrLocals
  <2>5. ~x.raced => ~z.raced /\ ~RacedBy(c)
    BY <2>4
  <2>6. x.pc = "idle" => x.rrs = <<>> /\ x.next = 1 /\ x.got = <<>>
    BY <2>1, <2>4 DEF Transferring
  <2>7. x.pc = "emit" => Emitting(x)'
    <3> SUFFICES ASSUME z.pc = "emit" PROVE Emitting(x)'
      BY <2>4
    <3>1. Emitting(z)
      BY <2>1 DEF Transferring
    <3>2. ASSUME ~x.raced
          PROVE  /\ x.todo \subseteq ServiceList' /\ x.spaces = Spaces'
                 /\ Elements(x.rrs)' = (UNION {Elements(ServiceRRs(sd[1], sd[2])) : sd \in ServiceList \ x.todo})'
      <4>1. cache' = cache
        BY <2>5, <3>2 DEF RacedBy
      <4>2. UNCHANGED <<ServiceList, Spaces>> /\ \A s, d : Elements(ServiceRRs(s, d))' = Elements(ServiceRRs(s, d))
        BY <1>1, <4>1, ZoneChange DEF Elements
      <4>3. Elements(x.rrs)' = Elements(z.rrs)
        BY <2>4 DEF Elements
      <4> QED
        BY <2>4, <2>5, <3>1, <3>2, <4>2, <4>3 DEF Emitting
    <3> QED
      BY <2>4, <3>1, <3>2 DEF Emitting
  <2>8. x.pc = "send" => Sending(x)'
    <3> SUFFICES ASSUME z.pc = "send" PROVE Sending(x)'
      BY <2>4
    <3> PICK n, mid, sp : /\ n = z.rrs[1].content /\ sp = z.spaces
                          /\ mid = Elements(SubSeq(z.rrs, 2, Len(z.rrs) - 1))
      OBVIOUS
    <3>1. /\ Sending(z) /\ n \in Nat /\ n <= now /\ Head(z.rrs) = z.rrs[1]
          /\ ~z.raced => UpToDate(mid, sp, n)
      BY <2>1 DEF Transferring, Sending
    <3>2. ~x.raced => cache' = cache \/ n # now
      BY <2>5, <3>1 DEF RacedBy
    <3>3. ~x.raced => UpToDate(mid, sp, n)'
      BY <1>1, <2>5, <3>1, <3>2, UpToDateStep
    <3>4. n <= now'
      BY <1>2, <3>1
    <3> QED
      BY <2>4, <3>1, <3>3, <3>4 DEF Sending, SOA, rr, Elements
  <2>9. Transferring(x)'
    BY <2>3, <2>6, <2>7, <2>8 DEF Transferring, XfrLocals, RRs, Contents, Of
  <2> QED
    BY <2>9
<1>4. ASSUME NEW c \in Clients, copy'[c] # Absent PROVE Copied(copy[c])'
  <2> DEFINE y == copy[c]
  <2> PICK t : t = copy'[c]
    OBVIOUS
  <2>1. y # Absent /\ t = [y EXCEPT !.raced = y.raced \/ (cache' # cache /\ y.serial = now)]
    BY <1>4 DEF CacheStep
  <2>2. Copied(y) /\ y \in Copies
    BY <2>1 DEF ZoneInv, Copied
  <2>3. /\ t.serial = y.serial /\ t.rrs = y.rrs /\ t.last = y.last /\ t.spaces = y.spaces
        /\ t.raced = (y.raced \/ (cache' # cache /\ y.serial = now))
    BY <2>1, <2>2 DEF Copies
  <2>4. t \in Copies
    <3>1. (y.raced \/ (cache' # cache /\ y.serial = now)) \in BOOLEAN
      OBVIOUS
    <3> QED
      BY <2>1, <2>2, <3>1 DEF Copies
  <2>5. /\ y.serial \in Nat /\ y.serial <= now /\ y.last = SOA(y.serial)
        /\ ~y.raced => UpToDate(y.rrs, y.spaces, y.serial)
    BY <2>2 DEF Copied, Copies
  <2>6. ~t.raced => UpToDate(y.rrs, y.spaces, y.serial) /\ (cache' = cache \/ y.serial # now)
    BY <2>3, <2>5
  <2> PICK rrs, sp, n : rrs = y.rrs /\ sp = y.spaces /\ n = y.serial
    OBVIOUS
  <2>7. ~t.raced => UpToDate(rrs, sp, n)'
    BY <1>1, <2>5, <2>6, UpToDateStep
  <2>8. t.serial <= now'
    BY <1>2, <2>3, <2>5
  <2>9. Copied(t)'
    BY <2>3, <2>4, <2>5, <2>7, <2>8 DEF Copied, SOA, rr, Copies, RRs, Contents
  <2> QED
    BY <2>9
<1> QED
  BY <1>1, <1>3, <1>4 DEF ZoneInv

LEMMA ZoneInvInit == ZoneInit => ZoneInv
<1> SUFFICES ASSUME ZoneInit PROVE ZoneInv
  OBVIOUS
<1>1. /\ DOMAIN xfr = Clients /\ DOMAIN copy = Clients
      /\ xfr = [c \in Clients |-> xfr[c]] /\ copy = [c \in Clients |-> copy[c]]
      /\ \A c \in Clients : xfr[c] = NoTransfer /\ copy[c] = Absent
  BY DEF ZoneInit
<1> QED
  BY <1>1, IdleTransfer DEF ZoneInv

LEMMA ZoneInvNext == CacheInv /\ ZoneInv /\ [ZoneNext]_allVars => ZoneInv'
<1> SUFFICES ASSUME CacheInv, ZoneInv, [ZoneNext]_allVars PROVE ZoneInv'
  OBVIOUS
<1>1. CASE CacheStep
  BY <1>1, CacheStepZone
<1>2. ASSUME NEW c \in Clients, Transfer(c) PROVE ZoneInv'
  BY <1>2, TransferZone
<1>3. ASSUME NEW c \in Clients, TransferStep(c) PROVE ZoneInv'
  BY <1>3, EmitServiceZone, ReadSerialZone, NothingToSendZone, SendEnvelopeZone DEF TransferStep
<1>4. CASE UNCHANGED allVars
  <2>1. UNCHANGED vars /\ UNCHANGED <<xfr, copy>>
    BY <1>4 DEF allVars, zoneVars
  <2>2. ASSUME NEW c \in Clients
        PROVE  Transferring(xfr[c])' /\ (copy'[c] # Absent => Copied(copy[c])')
    BY <2>1, TransferringKept, CopiedKept DEF ZoneInv
  <2> QED
    BY <2>1, <2>2 DEF ZoneInv
<1> QED
  BY <1>1, <1>2, <1>3, <1>4 DEF ZoneNext

\* The cache takes the steps it takes without transfers.
LEMMA CacheOnItsOwn == ZoneInit => Init
  BY DEF ZoneInit

LEMMA CacheSteps == [ZoneNext]_allVars => [Next]_vars
  BY DEF ZoneNext, allVars, CacheStep, Transfer, TransferStep, EmitService, ReadSerial,
     NothingToSend, SendEnvelope, SendFails

LEMMA CacheInvInit == Init => CacheInv
<1> SUFFICES ASSUME Init PROVE CacheInv
  OBVIOUS
<1>1. Identified /\ KeepsUp
  BY InitSerial
<1>2. Timely
  BY DEF Init, Timely, Resting
<1> QED
  BY <1>1, <1>2, InitShape DEF CacheInv

LEMMA CacheInvNext == CacheInv /\ [Next]_vars => CacheInv'
  BY NextShape, NextIdentified, NextKeepsUp, NextTimely DEF CacheInv

LEMMA ZoneInvariant == ZoneSpec => [](CacheInv /\ ZoneInv)
<1>1. ZoneInit => CacheInv /\ ZoneInv
  BY CacheOnItsOwn, CacheInvInit, ZoneInvInit
<1>2. CacheInv /\ ZoneInv /\ [ZoneNext]_allVars => (CacheInv /\ ZoneInv)'
  BY CacheSteps, CacheInvNext, ZoneInvNext
<1> QED
  BY <1>1, <1>2, PTL DEF ZoneSpec

\* A secondary whose copy is not the zone any more sees another serial (xfr.go:34-72,
\* controller.go:416-442, :510-519), except in the cases that SecondaryNotices names: for
\* any cluster, any number of secondaries and of changes, and envelopes of any length.
THEOREM SecondariesNotice == ZoneSpec => []SecondaryNotices
<1>1. CacheInv /\ ZoneInv => SecondaryNotices
  <2> SUFFICES ASSUME CacheInv, ZoneInv, NEW c \in Clients, copy[c] # Absent, Quiescent,
                      ~overlapped, ~copy[c].raced, copy[c].spaces = Spaces,
                      copy[c].rrs # ZoneRRs
               PROVE  copy[c].serial # modified
    BY DEF SecondaryNotices
  <2>1. /\ copy[c].serial \in Nat
        /\ copy[c].rrs = ZoneOf(Spaces) \/ latest > copy[c].serial
    BY DEF ZoneInv, Copied, UpToDate, Copies
  <2>2. latest > copy[c].serial
    BY <2>1, ZoneIs DEF CacheInv
  <2>3. modified >= latest /\ modified \in Nat /\ latest \in Nat
    BY BoundsAssumption DEF CacheInv, KeepsUp, Handling, Quiescent, Shape, TypeOK
  <2> QED
    BY <2>1, <2>2, <2>3
<1> QED
  BY <1>1, ZoneInvariant, PTL

\* A transfer ends with the SOA it began with; up to then the client has the records in
\* front of the next envelope, and no envelope is empty or too long (xfr.go:53-68),
\* whatever the lengths of the records.
THEOREM EnvelopesAlwaysFit == ZoneSpec => []EnvelopesFit
<1>1. ZoneInv => EnvelopesFit
  <2> SUFFICES ASSUME ZoneInv, NEW c \in Clients
               PROVE  /\ copy[c] # Absent => copy[c].last = SOA(copy[c].serial)
                      /\ xfr[c].pc = "send" =>
                            /\ xfr[c].got = SubSeq(xfr[c].rrs, 1, xfr[c].next - 1)
                            /\ Envelope(c) # <<>>
                            /\ Length(Envelope(c), 2, Len(Envelope(c))) <= transferLength
    BY DEF EnvelopesFit
  <2>1. copy[c] # Absent => copy[c].last = SOA(copy[c].serial)
    BY DEF ZoneInv, Copied
  <2>2. xfr[c].pc = "send" => /\ Sending(xfr[c]) /\ Envelope(c) # <<>>
                              /\ Length(Envelope(c), 2, Len(Envelope(c))) <= transferLength
    BY EnvelopeFacts
  <2>3. Sending(xfr[c]) => xfr[c].got = SubSeq(xfr[c].rrs, 1, xfr[c].next - 1)
    BY DEF Sending
  <2> QED
    BY <2>1, <2>2, <2>3
<1> QED
  BY <1>1, ZoneInvariant, PTL
=============================================================================
