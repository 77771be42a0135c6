----------------------------- MODULE WebHttpProofs -----------------------------
(***************************************************************************)
(* Proofs of the safety properties of WebResponse, WebRequest and          *)
(* WebMultipart.                                                           *)
(***************************************************************************)
EXTENDS MCWebHttp, FiniteSetTheorems, SequenceTheorems, TLAPS

(* A set with 0 and the next of each of its numbers has them all.          *)
LEMMA SetInduction ==
  ASSUME NEW T, 0 \in T, \A n \in Nat : n \in T => n + 1 \in T
  PROVE  Nat \subseteq T
<1> SUFFICES ASSUME NEW n \in Nat, n \notin T PROVE FALSE
  OBVIOUS
<1> DEFINE A == 0..n \cap T
           f == [x \in A |-> x + 1]
<1>1. IsFiniteSet(A) /\ 0 \in A
  <2>1. IsFiniteSet(0..n)
    BY FS_Interval
  <2>2. A \subseteq 0..n
    OBVIOUS
  <2> QED BY <2>1, <2>2, FS_Subset
<1>2. /\ IsFiniteSet(A \ {0}) /\ Cardinality(A) \in Nat
      /\ Cardinality(A \ {0}) = Cardinality(A) - 1
  BY <1>1, FS_RemoveElement, FS_CardinalityType
<1>3. f \in [A -> A \ {0}]
  <2> SUFFICES ASSUME NEW x \in A PROVE x + 1 \in A \ {0}
    OBVIOUS
  <2>1. x # n /\ x \in Nat /\ x + 1 \in T
    OBVIOUS
  <2> QED BY <2>1
<1>4. \E x, y \in A : x # y /\ f[x] = f[y]
  <2> HIDE DEF A, f
  <2>1. Cardinality(A \ {0}) < Cardinality(A)
    BY <1>2
  <2> QED BY <1>1, <1>2, <1>3, <2>1, FS_PigeonHole
<1> QED BY <1>4

Joins(a, b, c) == (a \o b) \o c = a \o (b \o c)

LEMMA AllJoin ==
  ASSUME NEW a \in Seq(Int), NEW b \in Seq(Int), NEW c \in Seq(Int)
  PROVE  Joins(a, b, c)
BY SMTT(20), ConcatAssociative DEF Joins

-------------------------------------------------------------------------------
(* The bytes in what was written: f[n] are the ones of the first n tokens. *)
IsBytesUpTo(w, m, f) ==
  f = [n \in 0..m |-> IF n = 0 THEN <<>>
                      ELSE IF Response!isByte(w[n]) THEN Append(f[n - 1], w[n]) ELSE f[n - 1]]
BytesUpTo(w) == CHOOSE f : IsBytesUpTo(w, Len(w), f)

Collects(w, f) ==
  /\ f[0] = <<>>
  /\ \A n \in 1..Len(w) :
       f[n] = IF Response!isByte(w[n]) THEN Append(f[n - 1], w[n]) ELSE f[n - 1]

LEMMA BytesAreDefined ==
  ASSUME NEW w, NEW m \in Nat
  PROVE  \E f : IsBytesUpTo(w, m, f)
<1> DEFINE T == {l \in Nat : \E f : IsBytesUpTo(w, l, f)}
<1>1. 0 \in T
  <2> DEFINE t == [n \in 0..0 |-> <<>>]
  <2>1. IsBytesUpTo(w, 0, t)
    BY DEF IsBytesUpTo
  <2> QED BY <2>1
<1>2. ASSUME NEW l \in Nat, l \in T PROVE l + 1 \in T
  <2>1. PICK t : IsBytesUpTo(w, l, t)
    BY <1>2
  <2> DEFINE last == IF Response!isByte(w[l + 1]) THEN Append(t[l], w[l + 1]) ELSE t[l]
             u == [n \in 0..(l + 1) |-> IF n = l + 1 THEN last ELSE t[n]]
             v == [n \in 0..(l + 1) |->
                     IF n = 0 THEN <<>>
                     ELSE IF Response!isByte(w[n]) THEN Append(u[n - 1], w[n]) ELSE u[n - 1]]
  <2>2. ASSUME NEW n \in 0..(l + 1) PROVE u[n] = v[n]
    <3>1. CASE n = l + 1
      <4>1. n # 0 /\ n - 1 = l /\ l \in 0..(l + 1) /\ l # l + 1
        BY <3>1
      <4> QED BY <3>1, <4>1
    <3>2. CASE n # l + 1
      <4>1. n \in 0..l
        BY <3>2
      <4>2. t[n] = IF n = 0 THEN <<>>
                   ELSE IF Response!isByte(w[n]) THEN Append(t[n - 1], w[n]) ELSE t[n - 1]
        BY <2>1, <4>1 DEF IsBytesUpTo
      <4>3. n # 0 => n - 1 \in 0..(l + 1) /\ n - 1 # l + 1
        BY <4>1
      <4> QED BY <3>2, <4>2, <4>3
    <3> QED BY <3>1, <3>2
  <2>3. u = v
    BY <2>2
  <2>4. IsBytesUpTo(w, l + 1, u)
    BY <2>3 DEF IsBytesUpTo
  <2> QED BY <2>4
<1>3. m \in T
  <2> HIDE DEF T
  <2> QED BY <1>1, <1>2, SetInduction
<1> QED BY <1>3

LEMMA BytesCollect ==
  ASSUME NEW w \in Seq(Int)
  PROVE  Collects(w, BytesUpTo(w)) /\ Response!bytesIn(w) = BytesUpTo(w)[Len(w)]
<1>1. Len(w) \in Nat
  OBVIOUS
<1>2. Response!bytesIn(w) = BytesUpTo(w)[Len(w)]
  BY DEF Response!bytesIn, BytesUpTo, IsBytesUpTo
<1>3. IsBytesUpTo(w, Len(w), BytesUpTo(w))
  BY <1>1, BytesAreDefined DEF BytesUpTo
<1>4. BytesUpTo(w)[0] = <<>>
  BY <1>1, <1>3 DEF IsBytesUpTo
<1>5. ASSUME NEW n \in 1..Len(w)
      PROVE  BytesUpTo(w)[n] = IF Response!isByte(w[n]) THEN Append(BytesUpTo(w)[n - 1], w[n])
                                                        ELSE BytesUpTo(w)[n - 1]
  <2>1. n \in 0..Len(w) /\ n # 0
    BY <1>1
  <2> QED BY <1>3, <2>1 DEF IsBytesUpTo
<1> QED BY <1>2, <1>4, <1>5 DEF Collects

(* Whatever collects the bytes one by one is what bytesIn computes.        *)
LEMMA CollectIs ==
  ASSUME NEW w \in Seq(Int), NEW g, Collects(w, g)
  PROVE  /\ Response!bytesIn(w) = g[Len(w)]
         /\ \A n \in 0..Len(w) : g[n] \in Seq(Int)
<1> DEFINE f == BytesUpTo(w)
           T == {n \in Nat : n <= Len(w) => f[n] = g[n] /\ g[n] \in Seq(Int)}
<1>0. Len(w) \in Nat
  OBVIOUS
<1>1. Collects(w, f) /\ Response!bytesIn(w) = f[Len(w)]
  BY BytesCollect
<1> HIDE DEF f
<1>2. 0 \in T
  <2>1. f[0] = <<>> /\ g[0] = <<>>
    BY <1>1 DEF Collects
  <2>2. <<>> \in Seq(Int)
    OBVIOUS
  <2>3. f[0] = g[0] /\ g[0] \in Seq(Int)
    BY <2>1, <2>2
  <2> QED BY <2>3
<1>3. ASSUME NEW n \in Nat, n \in T PROVE n + 1 \in T
  <2> SUFFICES ASSUME n + 1 <= Len(w)
               PROVE  f[n + 1] = g[n + 1] /\ g[n + 1] \in Seq(Int)
    OBVIOUS
  <2>1. n + 1 \in 1..Len(w) /\ (n + 1) - 1 = n /\ n <= Len(w)
    BY <1>0
  <2>2. f[n] = g[n] /\ g[n] \in Seq(Int) /\ w[n + 1] \in Int
    BY <1>3, <2>1
  <2>3. /\ f[n + 1] = IF Response!isByte(w[n + 1]) THEN Append(f[n], w[n + 1]) ELSE f[n]
        /\ g[n + 1] = IF Response!isByte(w[n + 1]) THEN Append(g[n], w[n + 1]) ELSE g[n]
    BY <1>1, <2>1 DEF Collects
  <2> QED BY <2>2, <2>3
<1>4. ASSUME NEW n \in 0..Len(w) PROVE f[n] = g[n] /\ g[n] \in Seq(Int)
  <2>1. n \in Nat /\ n <= Len(w)
    BY <1>0
  <2>2. n \in T
    <3> HIDE DEF T
    <3> QED BY <1>2, <1>3, <2>1, SetInduction
  <2> QED BY <2>1, <2>2
<1>5. Len(w) \in 0..Len(w)
  BY <1>0
<1> QED BY <1>1, <1>4, <1>5

LEMMA BytesType ==
  ASSUME NEW w \in Seq(Int)
  PROVE  Response!bytesIn(w) \in Seq(Int)
<1>1. Len(w) \in 0..Len(w)
  OBVIOUS
<1> QED BY <1>1, BytesCollect, CollectIs

LEMMA BytesOfNothing == Response!bytesIn(<<>>) = <<>>
<1>1. <<>> \in Seq(Int) /\ Len(<<>>) = 0
  OBVIOUS
<1> QED BY <1>1, BytesCollect DEF Collects

(* Bytes that are written add themselves, tokens around them nothing.      *)
LEMMA BytesOfBytes ==
  ASSUME NEW w \in Seq(Int), NEW u \in Seq(Int), \A i \in 1..Len(u) : Response!isByte(u[i])
  PROVE  Response!bytesIn(w \o u) = Response!bytesIn(w) \o u
<1> DEFINE m == Len(w)
           k == Len(u)
           f == BytesUpTo(w)
           b == Response!bytesIn(w)
           g == [n \in 0..(m + k) |-> IF n <= m THEN f[n] ELSE b \o SubSeq(u, 1, n - m)]
<1>0. m \in Nat /\ k \in Nat /\ w \o u \in Seq(Int) /\ Len(w \o u) = m + k
  BY ConcatProperties
<1>1. Collects(w, f) /\ b = f[m] /\ b \in Seq(Int)
  BY BytesCollect, BytesType
<1>2. ASSUME NEW n \in 1..(m + k)
      PROVE  g[n] = IF Response!isByte((w \o u)[n]) THEN Append(g[n - 1], (w \o u)[n]) ELSE g[n - 1]
  <2>1. n \in 0..(m + k) /\ n - 1 \in 0..(m + k)
    BY <1>0
  <2>2. (w \o u)[n] = IF n <= m THEN w[n] ELSE u[n - m]
    BY ConcatProperties
  <2>3. CASE n <= m
    <3>1. n \in 1..m /\ n - 1 <= m
      BY <1>0, <2>3
    <3>2. g[n] = f[n] /\ g[n - 1] = f[n - 1] /\ (w \o u)[n] = w[n]
      BY <2>1, <2>2, <2>3, <3>1
    <3> HIDE DEF g, f
    <3> QED BY <1>1, <3>1, <3>2 DEF Collects
  <2>4. CASE n > m
    <3>1. n - m \in 1..k /\ (w \o u)[n] = u[n - m] /\ Response!isByte(u[n - m])
      BY <1>0, <2>2, <2>4
    <3>2. g[n] = b \o SubSeq(u, 1, n - m)
      BY SMTT(30), <2>1, <2>4, <1>0
    <3>3. g[n - 1] = b \o SubSeq(u, 1, n - m - 1)
      <4>1. CASE n - 1 = m
        <5>1. g[n - 1] = b /\ SubSeq(u, 1, n - m - 1) = <<>>
          BY <1>0, <1>1, <2>1, <4>1
        <5> QED BY <5>1, <1>1, ConcatEmptySeq
      <4>2. CASE n - 1 # m
        <5>1. ~(n - 1 <= m) /\ (n - 1) - m = n - m - 1
          BY <1>0, <2>1, <2>4, <4>2
        <5>2. g[n - 1] = b \o SubSeq(u, 1, (n - 1) - m)
          BY <2>1, <5>1
        <5> QED BY <5>1, <5>2
      <4> QED BY <4>1, <4>2
    <3>4. b \o SubSeq(u, 1, n - m) = Append(b \o SubSeq(u, 1, n - m - 1), u[n - m])
      <4> DEFINE j == n - m
                 x == SubSeq(u, 1, j - 1)
                 y == SubSeq(u, 1, j)
      <4>1. x \in Seq(Int) /\ Len(x) = j - 1 /\ \A i \in 1..(j - 1) : x[i] = u[i]
        <5>1. j - 1 \in Int /\ \A i \in 1..(j - 1) : u[i] \in Int
          BY <1>0, <3>1
        <5> QED BY <5>1, <1>0, <3>1, SubSeqProperties
      <4>2. y \in Seq(Int) /\ Len(y) = j /\ u[j] \in Int /\ \A i \in 1..j : y[i] = u[i]
        <5>1. j \in Int /\ \A i \in 1..j : u[i] \in Int
          BY <1>0, <3>1
        <5> QED BY <5>1, <1>0, <3>1, SubSeqProperties
      <4>3. Append(x, u[j]) = y
        <5> HIDE DEF x, y
        <5>1. j \in Nat
          BY <3>1
        <5> HIDE DEF j
        <5>2. /\ Append(x, u[j]) \in Seq(Int) /\ Len(Append(x, u[j])) = Len(x) + 1
              /\ \A i \in 1..Len(x) : Append(x, u[j])[i] = x[i]
              /\ Append(x, u[j])[Len(x) + 1] = u[j]
          BY SMTT(30), <4>1, <4>2, AppendProperties
        <5>3. Len(Append(x, u[j])) = Len(y) /\ \A i \in 1..Len(y) : Append(x, u[j])[i] = y[i]
          <6>1. Len(x) = j - 1 /\ Len(y) = j /\ Len(x) + 1 = j
            BY <4>1, <4>2, <5>1
          <6>2. ASSUME NEW i \in 1..j PROVE Append(x, u[j])[i] = y[i]
            <7>1. CASE i = j
              BY <4>2, <5>1, <5>2, <6>1, <7>1
            <7>2. CASE i # j
              <8>1. i \in 1..(j - 1)
                BY <5>1, <7>2
              <8> QED BY <4>1, <4>2, <5>2, <6>1, <8>1
            <7> QED BY <7>1, <7>2
          <6> QED BY <5>2, <6>1, <6>2
        <5> QED BY <4>2, <5>2, <5>3, SeqEqual
      <4>4. b \o Append(x, u[j]) = Append(b \o x, u[j])
        <5> DEFINE e == u[j]
        <5>1. e \in Int
          BY <4>2
        <5> HIDE DEF x, b, e
        <5> DEFINE c == <<e>>
        <5>2. b \o x \in Seq(Int) /\ c \in Seq(Int)
          BY <1>1, <4>1, <5>1, ConcatProperties
        <5>3. Append(x, e) = x \o <<e>> /\ Append(b \o x, e) = (b \o x) \o <<e>>
          BY <1>1, <4>1, <5>1, <5>2, AppendIsConcat
        <5> HIDE DEF c
        <5>4. (b \o x) \o c = b \o (x \o c)
          <6>1. b \in Seq(Int) /\ x \in Seq(Int) /\ c \in Seq(Int)
            BY <1>1, <4>1, <5>2
          <6>2. Joins(b, x, c)
            BY <6>1, AllJoin
          <6> QED BY <6>2 DEF Joins
        <5> QED BY <5>3, <5>4 DEF c
      <4>5. SubSeq(u, 1, n - m - 1) = x /\ SubSeq(u, 1, n - m) = y
        OBVIOUS
      <4> HIDE DEF b, x, y
      <4> QED BY <4>3, <4>4, <4>5
    <3> QED BY <3>1, <3>2, <3>3, <3>4
  <2> QED BY SMTT(30), <1>0, <2>3, <2>4
<1>3. g[0] = <<>>
  BY <1>0, <1>1 DEF Collects
<1>4. Collects(w \o u, g)
  <2> HIDE DEF g
  <2> QED BY <1>0, <1>2, <1>3 DEF Collects
<1>5. Response!bytesIn(w \o u) = g[m + k]
  <2> HIDE DEF g
  <2> QED BY <1>0, <1>4, CollectIs
<1>6. g[m + k] = b \o u
  <2>1. CASE k = 0
    <3>1. u = <<>> /\ g[m + k] = b
      BY <1>0, <1>1, <2>1
    <3> QED BY <3>1, <1>1, ConcatEmptySeq
  <2>2. CASE k # 0
    <3>1. g[m + k] = b \o SubSeq(u, 1, k)
      BY <1>0, <2>2
    <3>2. SubSeq(u, 1, k) = u
      OBVIOUS
    <3> QED BY <3>1, <3>2
  <2> QED BY <2>1, <2>2
<1> QED BY <1>5, <1>6

LEMMA BytesOfFrames ==
  ASSUME NEW w \in Seq(Int), NEW u \in Seq(Int), \A i \in 1..Len(u) : ~Response!isByte(u[i])
  PROVE  Response!bytesIn(w \o u) = Response!bytesIn(w)
<1> DEFINE m == Len(w)
           k == Len(u)
           f == BytesUpTo(w)
           b == Response!bytesIn(w)
           g == [n \in 0..(m + k) |-> IF n <= m THEN f[n] ELSE b]
<1>0. m \in Nat /\ k \in Nat /\ w \o u \in Seq(Int) /\ Len(w \o u) = m + k
  BY ConcatProperties
<1>1. Collects(w, f) /\ b = f[m]
  BY BytesCollect
<1>2. ASSUME NEW n \in 1..(m + k)
      PROVE  g[n] = IF Response!isByte((w \o u)[n]) THEN Append(g[n - 1], (w \o u)[n]) ELSE g[n - 1]
  <2>1. n \in 0..(m + k) /\ n - 1 \in 0..(m + k)
    BY <1>0
  <2>2. (w \o u)[n] = IF n <= m THEN w[n] ELSE u[n - m]
    BY ConcatProperties
  <2>3. CASE n <= m
    <3>1. n \in 1..m /\ n - 1 <= m
      BY <1>0, <2>3
    <3>2. g[n] = f[n] /\ g[n - 1] = f[n - 1] /\ (w \o u)[n] = w[n]
      BY <2>1, <2>2, <2>3, <3>1
    <3> HIDE DEF g, f
    <3> QED BY <1>1, <3>1, <3>2 DEF Collects
  <2>4. CASE n > m
    <3>1. ~Response!isByte((w \o u)[n])
      <4>1. n - m \in 1..k /\ (w \o u)[n] = u[n - m]
        BY <1>0, <2>2, <2>4
      <4> QED BY <4>1
    <3>2. g[n] = b /\ g[n - 1] = b
      BY <1>0, <1>1, <2>1, <2>4
    <3> QED BY <3>1, <3>2
  <2> QED BY <1>0, <2>3, <2>4
<1>3. g[0] = <<>>
  BY <1>0, <1>1 DEF Collects
<1>4. Collects(w \o u, g)
  <2> HIDE DEF g
  <2> QED BY <1>0, <1>2, <1>3 DEF Collects
<1>5. Response!bytesIn(w \o u) = g[m + k]
  <2> HIDE DEF g
  <2> QED BY <1>0, <1>4, CollectIs
<1>6. g[m + k] = b
  <2>1. m + k \in 0..(m + k) /\ (m + k <= m => m + k = m)
    BY <1>0
  <2> QED BY <1>1, <2>1
<1> QED BY <1>5, <1>6

-------------------------------------------------------------------------------
(* What is taken of a sequence and what is left are the sequence.          *)
LEMMA TakenAndLeft ==
  ASSUME NEW q \in Seq(Int), NEW n \in Nat
  PROVE  /\ Response!Take(q, n) \in Seq(Int) /\ Response!Drop(q, n) \in Seq(Int)
         /\ Len(Response!Take(q, n)) = IF n < Len(q) THEN n ELSE Len(q)
         /\ Len(Response!Drop(q, n)) = IF n < Len(q) THEN Len(q) - n ELSE 0
         /\ Response!Take(q, n) \o Response!Drop(q, n) = q
<1> DEFINE k == IF n < Len(q) THEN n ELSE Len(q)
           a == SubSeq(q, 1, k)
           b == SubSeq(q, n + 1, Len(q))
<1>0. Len(q) \in Nat /\ k \in Nat /\ k <= Len(q)
  OBVIOUS
<1>1. a \in Seq(Int) /\ Len(a) = k /\ \A i \in 1..k : a[i] = q[i]
  <2>1. k \in Int /\ \A i \in 1..k : q[i] \in Int
    BY <1>0
  <2> HIDE DEF k
  <2> QED BY <1>0, <2>1, SubSeqProperties
<1>2. /\ b \in Seq(Int) /\ Len(b) = IF n < Len(q) THEN Len(q) - n ELSE 0
      /\ \A i \in 1..(Len(q) - n) : b[i] = q[n + i]
  <2>1. n + 1 \in Int /\ Len(q) \in Int /\ \A i \in (n + 1)..Len(q) : q[i] \in Int
    BY <1>0
  <2>2. /\ b \in Seq(Int) /\ Len(b) = IF n + 1 <= Len(q) THEN Len(q) - (n + 1) + 1 ELSE 0
        /\ \A i \in 1..(Len(q) - (n + 1) + 1) : b[i] = q[(n + 1) + i - 1]
    BY <2>1, SubSeqProperties
  <2> HIDE DEF b
  <2> QED BY <1>0, <2>2
<1>3. /\ a \o b \in Seq(Int) /\ Len(a \o b) = Len(a) + Len(b)
      /\ \A i \in 1..(Len(a) + Len(b)) : (a \o b)[i] = IF i <= Len(a) THEN a[i] ELSE b[i - Len(a)]
  <2> HIDE DEF a, b
  <2> QED BY <1>1, <1>2, ConcatProperties
<1> HIDE DEF a, b
<1>4. Len(a \o b) = Len(q)
  BY <1>0, <1>1, <1>2, <1>3
<1>5. ASSUME NEW i \in 1..Len(a \o b) PROVE (a \o b)[i] = q[i]
  <2>1. CASE i <= Len(a)
    <3>1. i \in 1..k /\ i \in 1..(Len(a) + Len(b))
      BY <1>0, <1>1, <1>4, <2>1, <1>3
    <3> HIDE DEF k
    <3> QED BY <1>1, <1>3, <2>1, <3>1
  <2>2. CASE ~(i <= Len(a))
    <3>1. n < Len(q) /\ Len(a) = n
      BY <1>0, <1>1, <1>4, <2>2
    <3>2. i - n \in 1..(Len(q) - n) /\ i \in 1..(Len(a) + Len(b)) /\ n + (i - n) = i
      BY <1>0, <1>3, <1>4, <2>2, <3>1
    <3>3. (a \o b)[i] = b[i - n]
      BY <1>3, <2>2, <3>1, <3>2
    <3> QED BY <1>2, <3>2, <3>3
  <2> QED BY <2>1, <2>2
<1>6. a \o b = q
  BY <1>3, <1>4, <1>5, SeqEqual
<1> QED BY <1>1, <1>2, <1>6 DEF a, b, Response!Take, Response!Drop

(* The bytes 1..n in order.                                                *)
UpTo(n) == [i \in 1..n |-> i]

(* Tokens of the frames in what was written.                               *)
frames(w) == Len(w) - Len(Response!bytesIn(w))

(* What was written and what is left are the bytes 1..n.                   *)
Given(w, left, n) ==
  w \in Seq(Int) /\ left \in Seq(Int) /\ Response!bytesIn(w) \o left = UpTo(n)

(* When the next bytes of a response are written they still are.           *)
LEMMA NextBytes ==
  ASSUME NEW w, NEW n \in Nat, NEW t \in Seq(Int), NEW left \in Seq(Int),
         Given(w, t \o left, n)
  PROVE  Given(w \o t, left, n) /\ frames(w \o t) = frames(w)
<1>0. w \in Seq(Int) /\ Response!bytesIn(w) \o (t \o left) = UpTo(n)
  BY DEF Given
<1> USE <1>0
<1> DEFINE b == Response!bytesIn(w)
<1>1. b \in Seq(Int)
  BY BytesType
<1>2. ASSUME NEW i \in 1..Len(t) PROVE Response!isByte(t[i])
  <2> HIDE DEF b
  <2>1. t \o left \in Seq(Int) /\ Len(t \o left) = Len(t) + Len(left) /\ (t \o left)[i] = t[i]
    BY ConcatProperties
  <2>2. Len(b) + i \in 1..(Len(b) + Len(t \o left)) /\ Len(b) + i > Len(b) /\ Len(b) + i - Len(b) = i
    BY <1>1, <2>1
  <2>3. (b \o (t \o left))[Len(b) + i] = t[i]
    BY <1>1, <2>1, <2>2, ConcatProperties
  <2>4. Len(b \o (t \o left)) = Len(b) + Len(t \o left)
    BY <1>1, <2>1, ConcatProperties
  <2>5. Len(UpTo(n)) = n
    BY DEF UpTo
  <2>6. Len(b) + i \in 1..n
    BY <1>1, <2>2, <2>4, <2>5 DEF b
  <2>7. UpTo(n)[Len(b) + i] = Len(b) + i
    BY <2>6 DEF UpTo
  <2>8. t[i] = Len(b) + i /\ Len(b) \in Nat
    BY <1>1, <2>3, <2>7 DEF b
  <2> QED BY <2>8 DEF Response!isByte, Response!Frame, Response!Crlf
<1>3. Response!bytesIn(w \o t) = b \o t
  BY <1>2, BytesOfBytes
<1>4. (b \o t) \o left = b \o (t \o left)
  <2>1. Joins(b, t, left)
    <3> HIDE DEF b
    <3> QED BY <1>1, AllJoin
  <2> QED BY <2>1 DEF Joins
<1>5. Len(w \o t) = Len(w) + Len(t)
  BY ConcatProperties
<1>6. Len(b \o t) = Len(b) + Len(t) /\ Len(b) \in Nat
  <2> HIDE DEF b
  <2> QED BY <1>1, ConcatProperties
<1>7. w \o t \in Seq(Int)
  BY ConcatProperties
<1> QED BY <1>3, <1>4, <1>5, <1>6, <1>7 DEF frames, Given

Regroups(w, h, f, d, t) ==
  w \o (h \o ((f \o d) \o t)) = (((w \o h) \o f) \o d) \o t

LEMMA Regrouped ==
  ASSUME NEW w \in Seq(Int), NEW h \in Seq(Int), NEW f \in Seq(Int), NEW d \in Seq(Int),
         NEW t \in Seq(Int)
  PROVE  Regroups(w, h, f, d, t)
<1> DEFINE e == f \o d
           g == e \o t
           x == w \o h
<1>1. e \in Seq(Int) /\ g \in Seq(Int) /\ x \in Seq(Int)
  BY ConcatProperties
<1>2. Joins(w, h, g) /\ Joins(x, e, t) /\ Joins(x, f, d)
  <2> HIDE DEF x, e, g
  <2> QED BY <1>1, AllJoin
<1> QED BY <1>2 DEF Joins, Regroups

(* The same with a chunk behind the head.                                  *)
ChunkWritten(w, n, h, d, left, c) ==
  /\ c \in Seq(Int) /\ Len(c) = Len(h) + FrameHead + Len(d) + FrameTail
  /\ Given(w \o c, left, n) /\ frames(w \o c) = frames(w) + (FrameHead + FrameTail)

LEMMA NextChunk ==
  ASSUME ResponseAssumption,
         NEW w, NEW n \in Nat, NEW h \in Seq(Int), NEW d \in Seq(Int),
         NEW left \in Seq(Int), Given(w, h \o (d \o left), n)
  PROVE  ChunkWritten(w, n, h, d, left, h \o Response!chunk(d))
<1> DEFINE before == [i \in 1..FrameHead |-> Response!Frame]
           after  == [i \in 1..FrameTail |-> Response!Crlf]
           b == Response!bytesIn(w)
<1>1. /\ before \in Seq(Int) /\ Len(before) = FrameHead
      /\ \A i \in 1..Len(before) : ~Response!isByte(before[i])
  BY DEF ResponseAssumption, Response!Frame, Response!isByte
<1>2. /\ after \in Seq(Int) /\ Len(after) = FrameTail
      /\ \A i \in 1..Len(after) : ~Response!isByte(after[i])
  BY DEF ResponseAssumption, Response!Crlf, Response!isByte
<1>3. Response!chunk(d) = (before \o d) \o after
  BY DEF Response!chunk
<1> HIDE DEF before, after
<1> DEFINE x == w \o h
           y == x \o before
           z == y \o d
           rest2 == d \o left
<1>4. w \in Seq(Int) /\ rest2 \in Seq(Int) /\ Given(w, h \o rest2, n)
  BY ConcatProperties DEF Given
<1>5. Given(x, rest2, n) /\ frames(x) = frames(w)
  <2> HIDE DEF rest2
  <2> QED BY <1>4, NextBytes
<1>6. x \in Seq(Int) /\ Response!bytesIn(x) \in Seq(Int)
  BY <1>5, BytesType DEF Given
<1>7. y \in Seq(Int) /\ Len(y) = Len(x) + FrameHead /\ Response!bytesIn(y) = Response!bytesIn(x)
  <2> HIDE DEF x
  <2> QED BY <1>1, <1>6, BytesOfFrames, ConcatProperties
<1>8. Given(y, d \o left, n)
  <2> HIDE DEF x, y
  <2> QED BY <1>5, <1>7 DEF Given
<1>9. frames(y) = frames(w) + FrameHead
  <2> HIDE DEF x, y
  <2>1. frames(y) = frames(x) + FrameHead
    BY <1>6, <1>7 DEF ResponseAssumption, frames
  <2> QED BY <1>5, <2>1
<1>10. Given(z, left, n) /\ frames(z) = frames(y)
  <2> HIDE DEF y
  <2> QED BY <1>8, NextBytes
<1>11. z \in Seq(Int) /\ Response!bytesIn(z) \in Seq(Int)
  BY <1>10, BytesType DEF Given
<1>a. /\ z \o after \in Seq(Int) /\ Len(z \o after) = Len(z) + FrameTail
      /\ Response!bytesIn(z \o after) = Response!bytesIn(z)
  <2> HIDE DEF z
  <2> QED BY <1>2, <1>11, BytesOfFrames, ConcatProperties
<1>b. Given(z \o after, left, n)
  <2> HIDE DEF z
  <2> QED BY <1>10, <1>a DEF Given
<1>c. frames(z \o after) = frames(w) + (FrameHead + FrameTail)
  <2>1. frames(w) \in Int
    BY <1>4, BytesType DEF frames
  <2>2. frames(z \o after) = frames(z) + FrameTail
    <3> HIDE DEF z
    <3> QED BY <1>11, <1>a DEF frames, ResponseAssumption
  <2> HIDE DEF z, y
  <2> QED BY <1>9, <1>10, <2>1, <2>2 DEF ResponseAssumption
<1>d. w \o (h \o ((before \o d) \o after)) = z \o after
  <2>1. w \in Seq(Int) /\ before \in Seq(Int) /\ after \in Seq(Int)
    BY <1>1, <1>2, <1>4
  <2>2. Regroups(w, h, before, d, after)
    BY <2>1, Regrouped
  <2> QED BY <2>2 DEF Regroups
<1>12. /\ h \o ((before \o d) \o after) \in Seq(Int)
       /\ Len(h \o ((before \o d) \o after)) = Len(h) + FrameHead + Len(d) + FrameTail
  <2> DEFINE e == before \o d
             c == e \o after
  <2>1. e \in Seq(Int) /\ Len(e) = FrameHead + Len(d)
    BY <1>1, ConcatProperties
  <2> HIDE DEF e
  <2>2. c \in Seq(Int) /\ Len(c) = FrameHead + Len(d) + FrameTail
    BY <1>2, <2>1, ConcatProperties
  <2> HIDE DEF c
  <2>3. h \o c \in Seq(Int) /\ Len(h \o c) = Len(h) + Len(c)
    BY <2>2, ConcatProperties
  <2>4. Len(h \o c) = Len(h) + FrameHead + Len(d) + FrameTail
    BY <2>2, <2>3 DEF ResponseAssumption
  <2> QED BY <2>3, <2>4 DEF c, e
<1> DEFINE e == h \o ((before \o d) \o after)
<1>e. e = h \o Response!chunk(d) /\ w \o e = z \o after
  BY <1>3, <1>d
<1> HIDE DEF z, e
<1>f. ChunkWritten(w, n, h, d, left, e)
  BY <1>12, <1>b, <1>c, <1>e DEF ChunkWritten, e
<1> QED BY <1>e, <1>f

-------------------------------------------------------------------------------
ResponseState ==
  [kind : Response!Kinds, sndbuf : Nat,
   state : {"setup", "headers", "content", "waitAck", "end", "failed"},
   contentLength : Nat, sentLength : Nat, ackedLength : Nat, writtenLength : Nat,
   head : Seq(Int), source : Seq(Int), total : Nat, wire : Seq(Int), flight : Nat,
   acked : Nat, busy : BOOLEAN, closing : BOOLEAN, faults : Nat, lost : BOOLEAN,
   headHeld : BOOLEAN]

(* A connection never holds more than its buffer.                          *)
Holds(s) ==
  /\ s \in ResponseState /\ s.flight <= s.sndbuf
  /\ s.sndbuf > FrameHead + FrameTail

(* Whole frames: n chunks.                                                 *)
Frames(w) == \E n \in Nat : frames(w) = n * (FrameHead + FrameTail)

(* Before it is begun nothing is written, and only a stream may still      *)
(* grow.                                                                   *)
Prepared(s) ==
  /\ s.wire = <<>> /\ s.head = UpTo(HeadLen) /\ s.sentLength = 0
  /\ s.head \o s.source = UpTo(HeadLen + Len(s.source))
  /\ s.contentLength = IF Response!sendsLength(s) THEN Len(s.source) ELSE 0
  /\ s.kind # "print" => s.total = HeadLen + Len(s.source)

(* From then on the counters say how much of the content is left, and the  *)
(* state whether the head is ...                                           *)
Placed(s) ==
  /\ IF Response!sendsLength(s)
       THEN s.state \in {"headers", "content"} => s.contentLength - s.sentLength = Len(s.source)
       ELSE s.contentLength = 0
  /\ s.state = "headers" => s.head # <<>>
  /\ s.state = "content" => s.head = <<>>
  /\ s.state \in {"waitAck", "end"} => s.head = <<>> /\ s.source = <<>>

(* ... and the bytes that are written, and the ones that are left, are the *)
(* response.                                                               *)
Sending(s) ==
  /\ Given(s.wire, s.head \o s.source, s.total)
  /\ Response!chunked(s) => Frames(s.wire)
  /\ Placed(s)

Spared(s) == ~s.lost /\ ~s.headHeld

ResponseInv(s) ==
  /\ Holds(s)
  /\ Spared(s) => IF s.state = "setup" THEN Prepared(s) ELSE Sending(s)

(* v is s after bytes were written, perhaps in another state.              *)
Written(s, v, bytes) ==
  /\ Holds(v)
  /\ v.kind = s.kind /\ v.contentLength = s.contentLength /\ v.sentLength = s.sentLength
  /\ v.head = s.head /\ v.source = s.source /\ v.total = s.total /\ v.headHeld = s.headHeld
  /\ ~v.lost => /\ ~s.lost
                /\ Len(bytes) <= Response!space(s) => v.wire = s.wire \o bytes

(* AsyncClient::write takes what there is room for.                        *)
LEMMA WriteTakes ==
  ASSUME NEW s, Holds(s), NEW bytes \in Seq(Int), NEW fault
  PROVE  /\ Written(s, Response!write(s, bytes, fault), bytes)
         /\ Response!write(s, bytes, fault).state = s.state
<1> DEFINE w == Response!write(s, bytes, fault)
           room == Response!space(s)
           taken == Response!Take(bytes, room)
           n == Len(taken)
<1>1. s \in ResponseState /\ s.flight <= s.sndbuf /\ s.flight \in Nat /\ s.sndbuf \in Nat
  BY DEF Holds, ResponseState
<1>2. room \in Nat /\ room = s.sndbuf - s.flight
  BY <1>1 DEF Response!space
<1>3. /\ taken \in Seq(Int) /\ n = IF room < Len(bytes) THEN room ELSE Len(bytes)
      /\ n \in Nat
  <2> HIDE DEF room
  <2> QED BY <1>2, TakenAndLeft
<1>4. Len(bytes) <= room => taken = bytes
  <2>1. Len(bytes) <= room => taken = SubSeq(bytes, 1, Len(bytes))
    BY <1>2 DEF Response!Take
  <2>2. SubSeq(bytes, 1, Len(bytes)) = bytes
    OBVIOUS
  <2> QED BY <2>1, <2>2
<1>5. CASE fault = "write"
  <2>1. w = [s EXCEPT !.lost = @ \/ bytes # <<>>]
    BY <1>5 DEF Response!write
  <2>2. bytes = <<>> => s.wire \o bytes = s.wire
    BY <1>1 DEF ResponseState
  <2> HIDE DEF w
  <2>3. /\ w \in ResponseState /\ w.lost = (s.lost \/ bytes # <<>>)
        /\ w.kind = s.kind /\ w.state = s.state /\ w.contentLength = s.contentLength
        /\ w.sentLength = s.sentLength /\ w.head = s.head /\ w.source = s.source
        /\ w.total = s.total /\ w.headHeld = s.headHeld /\ w.wire = s.wire
        /\ w.flight = s.flight /\ w.sndbuf = s.sndbuf
    BY <1>1, <2>1 DEF ResponseState
  <2> QED BY <1>1, <2>2, <2>3 DEF Holds, Written, w
<1>6. CASE fault # "write" /\ n = 0
  <2>1. w = s
    BY <1>6 DEF Response!write
  <2>2. Len(bytes) <= room => bytes = <<>>
    <3> HIDE DEF room
    <3> QED BY <1>2, <1>3, <1>6
  <2>3. s.wire \in Seq(Int)
    BY <1>1 DEF ResponseState
  <2>4. Len(bytes) <= room => s.wire \o bytes = s.wire
    <3> HIDE DEF room
    <3> QED BY <2>2, <2>3
  <2> QED BY <2>1, <2>4 DEF Written
<1>7. CASE fault # "write" /\ n # 0
  <2>1. w = [s EXCEPT !.wire = @ \o Response!Take(bytes, n), !.flight = @ + n,
                      !.writtenLength = @ + n, !.busy = TRUE]
    BY <1>7 DEF Response!write
  <2>2. Response!Take(bytes, n) = taken
    <3> HIDE DEF room
    <3> QED BY <1>2, <1>3 DEF Response!Take
  <2>3. s.wire \o taken \in Seq(Int)
    <3>1. s.wire \in Seq(Int)
      BY <1>1 DEF ResponseState
    <3> HIDE DEF taken
    <3> QED BY <1>3, <3>1, ConcatProperties
  <2>4. n <= room
    <3> HIDE DEF room, taken
    <3> QED BY <1>2, <1>3
  <2> HIDE DEF w, taken, n, room
  <2>a. w = [s EXCEPT !.wire = @ \o taken, !.flight = @ + n, !.writtenLength = @ + n, !.busy = TRUE]
    BY <2>1, <2>2
  <2>b. n \in Nat
    BY <1>3
  <2> DEFINE joined == s.wire \o taken
             flight == s.flight + n
             written == s.writtenLength + n
  <2>c. joined \in Seq(Int) /\ flight \in Nat /\ written \in Nat
    <3>1. s.writtenLength \in Nat
      BY <1>1 DEF ResponseState
    <3>2. joined \in Seq(Int)
      BY <2>3
    <3> HIDE DEF joined
    <3> QED BY <1>1, <2>b, <3>1, <3>2
  <2>d. w = [s EXCEPT !.wire = joined, !.flight = flight, !.writtenLength = written, !.busy = TRUE]
    BY <2>a
  <2> HIDE DEF joined, flight, written
  <2>5. /\ w \in ResponseState /\ w.lost = s.lost
        /\ w.kind = s.kind /\ w.state = s.state /\ w.contentLength = s.contentLength
        /\ w.sentLength = s.sentLength /\ w.head = s.head /\ w.source = s.source
        /\ w.total = s.total /\ w.headHeld = s.headHeld /\ w.wire = joined
        /\ w.flight = flight /\ w.sndbuf = s.sndbuf
    BY <1>1, <2>c, <2>d DEF ResponseState
  <2>6. w.flight <= w.sndbuf
    BY <1>1, <1>2, <2>b, <2>4, <2>5 DEF flight
  <2> QED BY <1>1, <1>4, <2>5, <2>6 DEF Holds, Written, w, room, joined
<1> QED BY <1>3, <1>5, <1>6, <1>7

LEMMA StateOf ==
  ASSUME NEW s, NEW w, NEW bytes, Written(s, w, bytes),
         NEW st \in {"headers", "content", "waitAck", "end", "failed"}
  PROVE  /\ Written(s, [w EXCEPT !.state = st], bytes)
         /\ [w EXCEPT !.state = st].state = st
<1> DEFINE v == [w EXCEPT !.state = st]
<1>1. w \in ResponseState
  BY DEF Written, Holds
<1>2. /\ v \in ResponseState /\ v.kind = w.kind /\ v.contentLength = w.contentLength
      /\ v.sentLength = w.sentLength /\ v.head = w.head /\ v.source = w.source
      /\ v.total = w.total /\ v.headHeld = w.headHeld /\ v.lost = w.lost /\ v.wire = w.wire
      /\ v.flight = w.flight /\ v.sndbuf = w.sndbuf /\ v.state = st
  BY <1>1 DEF ResponseState
<1> HIDE DEF v
<1>3. Written(s, v, bytes) /\ v.state = st
  BY <1>2 DEF Written, Holds
<1> QED BY <1>3 DEF v

(* What was right to write keeps the response right.                       *)
LEMMA WrittenKeeps ==
  ASSUME NEW u, NEW v, NEW bytes, Written(u, v, bytes), v.state # "setup",
         Spared(u) => /\ Len(bytes) <= Response!space(u)
                      /\ Given(u.wire \o bytes, u.head \o u.source, u.total)
                      /\ Response!chunked(u) => Frames(u.wire \o bytes)
                      /\ Placed(v)
  PROVE  ResponseInv(v)
<1>1. Holds(v)
  BY DEF Written
<1>2. ASSUME Spared(v) PROVE Sending(v)
  <2>1. Spared(u)
    BY <1>2 DEF Spared, Written
  <2>2. v.wire = u.wire \o bytes /\ v.head = u.head /\ v.source = u.source /\ v.total = u.total
        /\ v.kind = u.kind
    BY <1>2, <2>1 DEF Spared, Written
  <2> QED BY <2>1, <2>2 DEF Sending, Response!chunked
<1> QED BY <1>1, <1>2 DEF ResponseInv

(* The bytes of a prepared response are all still to be written.           *)
LEMMA PreparedGiven ==
  ASSUME ResponseAssumption, NEW s, Holds(s), Prepared(s),
         s.kind = "print" => HeadLen + Len(s.source) = s.total
  PROVE  /\ Given(<<>>, s.head \o s.source, s.total) /\ Frames(<<>>)
         /\ Len(s.head) = HeadLen /\ s.head # <<>>
<1>1. s.head \in Seq(Int) /\ s.source \in Seq(Int) /\ s.total \in Nat
  BY DEF Holds, ResponseState
<1>2. s.head \o s.source \in Seq(Int)
  BY <1>1, ConcatProperties
<1>3. s.head \o s.source = UpTo(s.total)
  BY DEF Prepared
<1>4. <<>> \o (s.head \o s.source) = s.head \o s.source
  BY <1>2, ConcatEmptySeq
<1>5. Len(UpTo(HeadLen)) = HeadLen /\ HeadLen > 0
  BY DEF UpTo, ResponseAssumption
<1>6. frames(<<>>) = 0
  BY BytesOfNothing DEF frames
<1>7. Given(<<>>, s.head \o s.source, s.total)
  BY <1>2, <1>3, <1>4, BytesOfNothing DEF Given
<1>8. 0 \in Nat /\ 0 = 0 * (FrameHead + FrameTail)
  BY DEF ResponseAssumption
<1>9. Frames(<<>>)
  BY <1>6, <1>8 DEF Frames
<1>10. Len(s.head) = HeadLen /\ s.head # <<>>
  BY <1>5 DEF Prepared
<1> QED BY <1>7, <1>9, <1>10

(* A prefix of what is left is written.                                    *)
LEMMA PrefixGiven ==
  ASSUME NEW w, NEW n \in Nat, NEW q \in Seq(Int), NEW room \in Nat, Given(w, q, n)
  PROVE  /\ Given(w \o Response!Take(q, room), Response!Drop(q, room), n)
         /\ frames(w \o Response!Take(q, room)) = frames(w)
<1> DEFINE t == Response!Take(q, room)
           left == Response!Drop(q, room)
<1>1. t \in Seq(Int) /\ left \in Seq(Int) /\ t \o left = q
  BY TakenAndLeft
<1> HIDE DEF t, left
<1>2. Given(w, t \o left, n)
  BY <1>1
<1>3. Given(w \o t, left, n) /\ frames(w \o t) = frames(w)
  BY <1>1, <1>2, NextBytes
<1> QED BY <1>3 DEF t, left

(* All that is left is written.                                            *)
LEMMA RestGiven ==
  ASSUME NEW w, NEW n \in Nat, NEW q \in Seq(Int), Given(w, q, n)
  PROVE  Given(w \o q, <<>>, n) /\ frames(w \o q) = frames(w)
<1>1. q \o <<>> = q /\ <<>> \in Seq(Int)
  BY ConcatEmptySeq
<1>2. Given(w, q \o <<>>, n)
  BY <1>1
<1> QED BY <1>1, <1>2, NextBytes

LEMMA BasicRespondKeeps ==
  ASSUME ResponseAssumption, NEW s, ResponseInv(s), s.state = "setup", s.kind = "basic", NEW fault
  PROVE  ResponseInv(Response!basicRespond(s, fault))
<1> DEFINE room == Response!space(s)
           all == s.head \o s.source
<1>1. /\ s \in ResponseState /\ s.flight <= s.sndbuf /\ s.flight \in Nat /\ s.sndbuf \in Nat
      /\ Holds(s) /\ (Spared(s) => Prepared(s))
      /\ s.head \in Seq(Int) /\ s.source \in Seq(Int) /\ s.total \in Nat
      /\ s.contentLength \in Nat /\ s.sentLength \in Nat /\ HeadLen \in Nat \ {0}
  BY DEF ResponseInv, Holds, ResponseState, ResponseAssumption
<1>2. room \in Nat /\ room = s.sndbuf - s.flight
  BY <1>1 DEF Response!space
<1>3. all \in Seq(Int) /\ Len(all) = Len(s.head) + Len(s.source) /\ Len(s.source) \in Nat
  BY <1>1, ConcatProperties
<1>4. Spared(s) => /\ Given(s.wire, all, s.total) /\ Len(s.head) = HeadLen
                   /\ s.contentLength = Len(s.source) /\ s.sentLength = 0
  BY <1>1, PreparedGiven DEF Prepared, Response!sendsLength
<1> HIDE DEF room, all
<1>5. /\ Response!Take(all, room) \in Seq(Int) /\ Response!Drop(all, room) \in Seq(Int)
      /\ Len(Response!Take(all, room)) = IF room < Len(all) THEN room ELSE Len(all)
      /\ Len(Response!Drop(all, room)) = IF room < Len(all) THEN Len(all) - room ELSE 0
  BY <1>2, <1>3, TakenAndLeft
<1>6. Spared(s) => Given(s.wire \o Response!Take(all, room), Response!Drop(all, room), s.total)
  BY <1>1, <1>2, <1>3, <1>4, PrefixGiven
<1>7. Spared(s) => Given(s.wire \o all, <<>>, s.total)
  BY <1>1, <1>3, <1>4, RestGiven
<1>8. <<>> \o Response!Drop(all, room) = Response!Drop(all, room)
      /\ <<>> \o all = all /\ <<>> \o <<>> = <<>> /\ <<>> \in Seq(Int)
  BY <1>3, <1>5, ConcatEmptySeq
<1>9. Len(all) \in Nat /\ HeadLen \in Nat
  <2>1. all \in Seq(Int)
    BY <1>3
  <2>2. Len(all) \in Nat
    BY <2>1
  <2> QED BY <1>1, <2>2
<1>10. Spared(s) => /\ Len(all) = HeadLen + s.contentLength /\ s.sentLength = 0
                    /\ s.contentLength \in Nat
  BY <1>1, <1>3, <1>4
<1>a. CASE room >= Len(all)
  <2> DEFINE u == [s EXCEPT !.head = <<>>, !.source = <<>>, !.state = "waitAck"]
             v == Response!write(u, all, fault)
  <2>1. Response!basicRespond(s, fault) = v
    <3>1. ~(room < Len(all))
      BY <1>2, <1>9, <1>a
    <3> QED BY <1>1, <1>a, <3>1 DEF Response!basicRespond, all, room
  <2>2. /\ u \in ResponseState /\ u.head = <<>> /\ u.source = <<>> /\ u.state = "waitAck"
        /\ u.wire = s.wire /\ u.total = s.total /\ u.kind = s.kind
        /\ u.lost = s.lost /\ u.headHeld = s.headHeld
        /\ u.flight = s.flight /\ u.sndbuf = s.sndbuf
    BY <1>1, <1>8 DEF ResponseState
  <2> HIDE DEF u
  <2>3. Holds(u) /\ Response!space(u) = room /\ (Spared(u) => Spared(s))
    BY <1>1, <1>2, <2>2 DEF Holds, Response!space, Spared
  <2>4. Written(u, v, all) /\ v.state = "waitAck"
    BY <1>3, <2>2, <2>3, WriteTakes
  <2> HIDE DEF v
  <2>5. v.kind = "basic" /\ v.head = <<>> /\ v.source = <<>>
    BY <2>2, <2>4 DEF Written
  <2>6. Placed(v) /\ ~Response!chunked(u)
    BY <2>2, <2>4, <2>5 DEF Placed, Response!sendsLength, Response!chunked
  <2>7. Spared(u) => Given(u.wire \o all, u.head \o u.source, u.total)
    BY <1>7, <1>8, <2>2, <2>3
  <2>8. Len(all) <= Response!space(u)
    BY <1>a, <1>2, <1>3, <2>3
  <2>9. v.state # "setup"
    BY <2>4
  <2>10. ResponseInv(v)
    BY <2>4, <2>6, <2>7, <2>8, <2>9, WrittenKeeps
  <2> QED BY <2>1, <2>10
<1>b. CASE room < Len(all) /\ room > 0 /\ room < HeadLen
  <2> DEFINE left == Response!Drop(all, room)
             n == s.contentLength + HeadLen - room
             u == [s EXCEPT !.head = <<>>, !.source = left, !.state = "content", !.contentLength = n]
             t == Response!Take(all, room)
             v == Response!write(u, t, fault)
  <2>1. Response!basicRespond(s, fault) = v
    <3> DEFINE rest1 == [s EXCEPT !.head = <<>>, !.source = left, !.state = "content"]
    <3>1. ~(room >= Len(all)) /\ ~(room > HeadLen)
      BY <1>2, <1>9, <1>b
    <3>2. Response!basicRespond(s, fault) = Response!write([rest1 EXCEPT !.contentLength = @ + HeadLen - room], t, fault)
      BY <1>1, <1>b, <3>1 DEF Response!basicRespond, all, room
    <3>3. [rest1 EXCEPT !.contentLength = @ + HeadLen - room] = u
      BY <1>1 DEF ResponseState
    <3> QED BY <3>2, <3>3
  <2>2. n \in Nat
    BY <1>1, <1>2, <1>b
  <2> HIDE DEF n
  <2>3. /\ u \in ResponseState /\ u.head = <<>> /\ u.source = left /\ u.state = "content"
        /\ u.wire = s.wire /\ u.total = s.total /\ u.kind = s.kind
        /\ u.contentLength = n /\ u.sentLength = s.sentLength
        /\ u.lost = s.lost /\ u.headHeld = s.headHeld
        /\ u.flight = s.flight /\ u.sndbuf = s.sndbuf
    BY <1>1, <1>5, <1>8, <2>2 DEF ResponseState
  <2> HIDE DEF u
  <2>4. Holds(u) /\ Response!space(u) = room /\ (Spared(u) => Spared(s))
    BY <1>1, <1>2, <2>3 DEF Holds, Response!space, Spared
  <2>5. Written(u, v, t) /\ v.state = "content"
    BY <1>5, <2>3, <2>4, WriteTakes
  <2> HIDE DEF v
  <2>6. v.kind = "basic" /\ v.head = <<>> /\ v.source = left /\ v.contentLength = n
        /\ v.sentLength = s.sentLength
    BY <2>3, <2>5 DEF Written
  <2>7. Spared(u) => n - s.sentLength = Len(left)
    BY SMTT(30), <1>2, <1>5, <1>9, <1>10, <1>b, <2>4 DEF n
  <2>8. Spared(u) => Placed(v)
    BY <2>5, <2>6, <2>7 DEF Placed, Response!sendsLength
  <2>9. Spared(u) => Given(u.wire \o t, u.head \o u.source, u.total)
    BY <1>6, <1>8, <2>3, <2>4
  <2>10. Len(t) <= Response!space(u) /\ ~Response!chunked(u)
    BY <1>b, <1>2, <1>3, <1>5, <2>3, <2>4 DEF Response!chunked
  <2>11. v.state # "setup"
    BY <2>5
  <2>12. ResponseInv(v)
    BY <2>5, <2>8, <2>9, <2>10, <2>11, WrittenKeeps
  <2> QED BY <2>1, <2>12
<1>c. CASE room < Len(all) /\ room > HeadLen
  <2> DEFINE left == Response!Drop(all, room)
             n == s.sentLength + room - HeadLen
             u == [s EXCEPT !.head = <<>>, !.source = left, !.state = "content", !.sentLength = n]
             t == Response!Take(all, room)
             v == Response!write(u, t, fault)
  <2>1. Response!basicRespond(s, fault) = v
    <3> DEFINE rest1 == [s EXCEPT !.head = <<>>, !.source = left, !.state = "content"]
    <3>1. ~(room >= Len(all)) /\ ~(room < HeadLen)
      BY <1>2, <1>9, <1>c
    <3>2. Response!basicRespond(s, fault) = Response!write([rest1 EXCEPT !.sentLength = @ + room - HeadLen], t, fault)
      BY <1>1, <1>c, <3>1 DEF Response!basicRespond, all, room
    <3>3. [rest1 EXCEPT !.sentLength = @ + room - HeadLen] = u
      BY <1>1 DEF ResponseState
    <3> QED BY <3>2, <3>3
  <2>2. n \in Nat
    BY <1>1, <1>2, <1>c
  <2> HIDE DEF n
  <2>3. /\ u \in ResponseState /\ u.head = <<>> /\ u.source = left /\ u.state = "content"
        /\ u.wire = s.wire /\ u.total = s.total /\ u.kind = s.kind
        /\ u.contentLength = s.contentLength /\ u.sentLength = n
        /\ u.lost = s.lost /\ u.headHeld = s.headHeld
        /\ u.flight = s.flight /\ u.sndbuf = s.sndbuf
    BY <1>1, <1>5, <1>8, <2>2 DEF ResponseState
  <2> HIDE DEF u
  <2>4. Holds(u) /\ Response!space(u) = room /\ (Spared(u) => Spared(s))
    BY <1>1, <1>2, <2>3 DEF Holds, Response!space, Spared
  <2>5. Written(u, v, t) /\ v.state = "content"
    BY <1>5, <2>3, <2>4, WriteTakes
  <2> HIDE DEF v
  <2>6. v.kind = "basic" /\ v.head = <<>> /\ v.source = left /\ v.sentLength = n
        /\ v.contentLength = s.contentLength
    BY <2>3, <2>5 DEF Written
  <2>7. Spared(u) => s.contentLength - n = Len(left)
    <3> SUFFICES ASSUME Spared(u) PROVE s.contentLength - n = Len(left)
      OBVIOUS
    <3>1. Len(left) = Len(all) - room
      BY <1>5, <1>c
    <3>2. n = room - HeadLen
      BY <1>2, <1>9, <1>10, <2>4 DEF n
    <3> HIDE DEF left
    <3> QED BY <1>2, <1>9, <1>10, <2>4, <3>1, <3>2
  <2>8. Spared(u) => Placed(v)
    BY <2>5, <2>6, <2>7 DEF Placed, Response!sendsLength
  <2>9. Spared(u) => Given(u.wire \o t, u.head \o u.source, u.total)
    BY <1>6, <1>8, <2>3, <2>4
  <2>10. Len(t) <= Response!space(u) /\ ~Response!chunked(u)
    BY <1>c, <1>2, <1>3, <1>5, <2>3, <2>4 DEF Response!chunked
  <2>11. v.state # "setup"
    BY <2>5
  <2>12. ResponseInv(v)
    BY <2>5, <2>8, <2>9, <2>10, <2>11, WrittenKeeps
  <2> QED BY <2>1, <2>12
<1>d. CASE room < Len(all) /\ (room = 0 \/ room = HeadLen)
  <2> DEFINE n == s.contentLength + HeadLen
             v == [s EXCEPT !.head = <<>>, !.source = all, !.state = "content", !.contentLength = n]
  <2>1. Response!basicRespond(s, fault) = v
    <3>1. ~(room >= Len(all)) /\ ~(room > 0 /\ room < HeadLen) /\ ~(room > HeadLen)
      BY <1>2, <1>9, <1>d
    <3> QED BY <1>1, <3>1 DEF Response!basicRespond, all, room, ResponseState
  <2>2. n \in Nat
    BY <1>1
  <2> HIDE DEF n
  <2>3. /\ v \in ResponseState /\ v.head = <<>> /\ v.source = all /\ v.state = "content"
        /\ v.wire = s.wire /\ v.total = s.total /\ v.kind = s.kind
        /\ v.contentLength = n /\ v.sentLength = s.sentLength
        /\ v.lost = s.lost /\ v.headHeld = s.headHeld
        /\ v.flight = s.flight /\ v.sndbuf = s.sndbuf
    BY <1>1, <1>3, <1>8, <2>2 DEF ResponseState
  <2> HIDE DEF v
  <2>4. Holds(v) /\ (Spared(v) => Spared(s))
    BY <1>1, <2>3 DEF Holds, Spared
  <2>5. Spared(v) => n - s.sentLength = Len(all)
    BY <1>9, <1>10, <2>4 DEF n
  <2>6. Spared(v) => Placed(v)
    BY <2>3, <2>5 DEF Placed, Response!sendsLength
  <2>7. Spared(v) => Given(v.wire, v.head \o v.source, v.total)
    BY <1>4, <1>8, <2>3, <2>4
  <2>8. ResponseInv(v)
    BY <2>3, <2>4, <2>6, <2>7 DEF ResponseInv, Sending, Response!chunked
  <2> QED BY <2>1, <2>8
<1>e. \/ room >= Len(all)
      \/ room < Len(all) /\ room > 0 /\ room < HeadLen
      \/ room < Len(all) /\ room > HeadLen
      \/ room < Len(all) /\ (room = 0 \/ room = HeadLen)
  BY <1>2, <1>9
<1> QED BY <1>a, <1>b, <1>c, <1>d, <1>e

LEMMA BasicAckKeeps ==
  ASSUME ResponseAssumption, NEW s, ResponseInv(s), s.state # "setup", s.kind = "basic",
         NEW len \in Nat, NEW fault
  PROVE  ResponseInv(Response!basicAck(s, len, fault))
<1> DEFINE acked == s.ackedLength + len
           a == [s EXCEPT !.ackedLength = acked]
           available == s.contentLength - s.sentLength
           room == Response!space(s)
<1>1. /\ s \in ResponseState /\ s.flight <= s.sndbuf /\ s.flight \in Nat /\ s.sndbuf \in Nat
      /\ Holds(s) /\ (Spared(s) => Sending(s)) /\ acked \in Nat
      /\ s.source \in Seq(Int) /\ s.head \in Seq(Int) /\ s.total \in Nat
      /\ s.contentLength \in Nat /\ s.sentLength \in Nat
  BY SMTT(30) DEF ResponseInv, Holds, ResponseState
<1>2. room \in Nat /\ room = s.sndbuf - s.flight
  BY <1>1 DEF Response!space
<1> HIDE DEF acked
<1>3. /\ a \in ResponseState /\ a.state = s.state /\ a.kind = s.kind /\ a.head = s.head
      /\ a.source = s.source /\ a.total = s.total /\ a.wire = s.wire /\ a.flight = s.flight
      /\ a.sndbuf = s.sndbuf /\ a.lost = s.lost /\ a.headHeld = s.headHeld
      /\ a.contentLength = s.contentLength /\ a.sentLength = s.sentLength
      /\ a.ackedLength = acked /\ a.writtenLength = s.writtenLength
  BY <1>1 DEF ResponseState
<1>4. Response!basicAck(s, len, fault) =
        CASE s.state = "content" /\ room > available ->
               Response!write([a EXCEPT !.source = <<>>, !.state = "waitAck"],
                              Response!Take(s.source, available), fault)
          [] s.state = "content" /\ room <= available ->
               Response!write([a EXCEPT !.source = Response!Drop(@, room), !.sentLength = @ + room],
                              Response!Take(s.source, room), fault)
          [] s.state = "waitAck" /\ a.ackedLength >= a.writtenLength ->
               [a EXCEPT !.state = "end"]
          [] OTHER -> a
  BY <1>3 DEF Response!basicAck, Response!space, acked, room
<1> HIDE DEF a, room
<1>5. Holds(a) /\ Response!space(a) = room /\ (Spared(a) => Spared(s))
  BY <1>1, <1>2, <1>3 DEF Holds, Response!space, Spared
<1>6. Spared(s) => /\ Given(s.wire, s.head \o s.source, s.total)
                   /\ (s.state = "content" => available = Len(s.source) /\ s.head = <<>>)
                   /\ s.state \in {"waitAck", "end"} => s.head = <<>> /\ s.source = <<>>
  BY <1>1 DEF Sending, Placed, Response!sendsLength
<1>7. <<>> \o s.source = s.source /\ <<>> \o <<>> = <<>> /\ <<>> \in Seq(Int)
      /\ available \in Int /\ Len(s.source) \in Nat
  <2>1. \A q \in Seq(Int) : <<>> \o q = q /\ Len(q) \in Nat
    BY ConcatEmptySeq
  <2> QED BY <1>1, <2>1
<1>8. ~Response!chunked(a) /\ ~Response!chunked(s)
  BY <1>3 DEF Response!chunked
<1>9. ResponseInv(a)
  <2>1. Spared(a) => Sending(a)
    BY <1>1, <1>3, <1>5, <1>8 DEF Sending, Placed, Response!sendsLength
  <2> QED BY <1>3, <1>5, <2>1 DEF ResponseInv
<1> HIDE DEF available
<1>a. CASE s.state = "content" /\ room > available
  <2> DEFINE t == Response!Take(s.source, available)
             u == [a EXCEPT !.source = <<>>, !.state = "waitAck"]
             v == Response!write(u, t, fault)
  <2>1. Response!basicAck(s, len, fault) = v
    <3>1. ~(room <= available)
      BY <1>2, <1>7, <1>a
    <3> QED BY <1>4, <1>a, <3>1
  <2>2. /\ u \in ResponseState /\ u.head = s.head /\ u.source = <<>> /\ u.state = "waitAck"
        /\ u.wire = s.wire /\ u.total = s.total /\ u.kind = s.kind
        /\ u.lost = s.lost /\ u.headHeld = s.headHeld
        /\ u.flight = s.flight /\ u.sndbuf = s.sndbuf
    BY <1>3, <1>7 DEF ResponseState
  <2> HIDE DEF u
  <2>3. Holds(u) /\ Response!space(u) = room /\ (Spared(u) => Spared(s))
    BY <1>1, <1>2, <2>2 DEF Holds, Response!space, Spared
  <2>4. t \in Seq(Int)
    <3> DEFINE k == IF available < Len(s.source) THEN available ELSE Len(s.source)
    <3>1. k \in Int /\ k <= Len(s.source)
      BY <1>7
    <3>2. \A i \in 1..k : s.source[i] \in Int
      <4>1. \A i \in 1..k : i \in 1..Len(s.source)
        BY <1>7, <3>1
      <4> QED BY <1>1, <4>1
    <3>3. t = SubSeq(s.source, 1, k)
      BY DEF Response!Take
    <3> HIDE DEF k, t
    <3> QED BY <3>1, <3>2, <3>3, SubSeqProperties
  <2>5. Spared(s) => t = s.source
    <3>1. Spared(s) => t = SubSeq(s.source, 1, Len(s.source))
      BY <1>6, <1>7, <1>a DEF Response!Take
    <3>2. SubSeq(s.source, 1, Len(s.source)) = s.source
      BY <1>1
    <3> QED BY <3>1, <3>2
  <2> HIDE DEF t
  <2>6. Written(u, v, t) /\ v.state = "waitAck"
    BY <2>2, <2>3, <2>4, WriteTakes
  <2> HIDE DEF v
  <2>7. v.kind = "basic" /\ v.head = s.head /\ v.source = <<>>
    BY <2>2, <2>6 DEF Written
  <2>8. Spared(u) => Placed(v)
    BY <1>6, <1>a, <2>3, <2>6, <2>7 DEF Placed, Response!sendsLength
  <2>9. Spared(u) => Given(u.wire \o t, u.head \o u.source, u.total)
    <3>1. Spared(s) => Given(s.wire, s.source, s.total)
      BY <1>6, <1>7, <1>a
    <3>2. Spared(s) => Given(s.wire \o s.source, <<>>, s.total)
      BY <1>1, <3>1, RestGiven
    <3> QED BY <1>6, <1>7, <1>a, <2>2, <2>3, <2>5, <3>2
  <2>10. Spared(u) => Len(t) <= Response!space(u)
    BY <1>2, <1>6, <1>7, <1>a, <2>3, <2>5
  <2>11. v.state # "setup" /\ ~Response!chunked(u)
    BY <1>8, <2>2, <2>6 DEF Response!chunked
  <2>12. ResponseInv(v)
    BY <2>6, <2>8, <2>9, <2>10, <2>11, WrittenKeeps
  <2> QED BY <2>1, <2>12
<1>b. CASE s.state = "content" /\ room <= available
  <2> DEFINE t == Response!Take(s.source, room)
             left == Response!Drop(s.source, room)
             n == s.sentLength + room
             u == [a EXCEPT !.source = left, !.sentLength = n]
             v == Response!write(u, t, fault)
  <2>1. Response!basicAck(s, len, fault) = v
    <3>1. ~(room > available)
      BY <1>2, <1>7, <1>b
    <3> QED BY <1>3, <1>4, <1>b, <3>1
  <2>2. n \in Nat
    BY <1>1, <1>2
  <2>3. /\ t \in Seq(Int) /\ left \in Seq(Int)
        /\ Len(t) = IF room < Len(s.source) THEN room ELSE Len(s.source)
        /\ Len(left) = IF room < Len(s.source) THEN Len(s.source) - room ELSE 0
    BY <1>1, <1>2, TakenAndLeft
  <2>a. Spared(s) => Given(s.wire \o t, left, s.total)
    <3>1. Spared(s) => Given(s.wire, s.source, s.total)
      BY <1>6, <1>7, <1>b
    <3> QED BY <1>1, <1>2, <3>1, PrefixGiven
  <2> HIDE DEF n, left, t
  <2>4. /\ u \in ResponseState /\ u.head = s.head /\ u.source = left /\ u.state = "content"
        /\ u.wire = s.wire /\ u.total = s.total /\ u.kind = s.kind
        /\ u.contentLength = s.contentLength /\ u.sentLength = n
        /\ u.lost = s.lost /\ u.headHeld = s.headHeld
        /\ u.flight = s.flight /\ u.sndbuf = s.sndbuf
    BY <1>3, <1>b, <2>2, <2>3 DEF ResponseState
  <2> HIDE DEF u
  <2>5. Holds(u) /\ Response!space(u) = room /\ (Spared(u) => Spared(s))
    BY <1>1, <1>2, <2>4 DEF Holds, Response!space, Spared
  <2>6. Written(u, v, t) /\ v.state = "content"
    BY <2>3, <2>4, <2>5, WriteTakes
  <2> HIDE DEF v
  <2>7. v.kind = "basic" /\ v.head = s.head /\ v.source = left /\ v.sentLength = n
        /\ v.contentLength = s.contentLength
    BY <2>4, <2>6 DEF Written
  <2>8. Spared(u) => s.contentLength - n = Len(left)
    <3> SUFFICES ASSUME Spared(u) PROVE s.contentLength - n = Len(left)
      OBVIOUS
    <3>1. s.contentLength - s.sentLength = Len(s.source)
      BY <1>6, <1>b, <2>5 DEF available
    <3>2. Len(left) = Len(s.source) - room
      BY <1>2, <1>6, <1>7, <1>b, <2>3, <2>5
    <3> QED BY <1>1, <1>2, <3>1, <3>2 DEF n
  <2>9. Spared(u) => Placed(v)
    BY <1>6, <1>b, <2>5, <2>6, <2>7, <2>8 DEF Placed, Response!sendsLength
  <2>10. Spared(u) => Given(u.wire \o t, u.head \o u.source, u.total)
    <3>1. <<>> \o left = left
      BY <2>3
    <3> QED BY <1>6, <1>b, <2>4, <2>5, <2>a, <3>1
  <2>11. Len(t) <= Response!space(u)
    BY <1>2, <1>7, <2>3, <2>5
  <2>12. v.state # "setup" /\ ~Response!chunked(u)
    BY <1>8, <2>4, <2>6 DEF Response!chunked
  <2>13. ResponseInv(v)
    BY <2>6, <2>9, <2>10, <2>11, <2>12, WrittenKeeps
  <2> QED BY <2>1, <2>13
<1>c. CASE s.state = "waitAck" /\ a.ackedLength >= a.writtenLength
  <2> DEFINE v == [a EXCEPT !.state = "end"]
  <2>1. Response!basicAck(s, len, fault) = v
    BY <1>4, <1>c
  <2>2. /\ v \in ResponseState /\ v.state = "end" /\ v.kind = s.kind /\ v.head = s.head
        /\ v.source = s.source /\ v.total = s.total /\ v.wire = s.wire /\ v.flight = s.flight
        /\ v.sndbuf = s.sndbuf /\ v.lost = s.lost /\ v.headHeld = s.headHeld
    BY <1>3 DEF ResponseState
  <2> HIDE DEF v
  <2>3. Holds(v) /\ (Spared(v) => Spared(s))
    BY <1>1, <2>2 DEF Holds, Spared
  <2>4. Spared(v) => Sending(v)
    BY <1>6, <1>8, <1>c, <2>2, <2>3 DEF Sending, Placed, Response!sendsLength, Response!chunked
  <2> QED BY <2>1, <2>2, <2>3, <2>4 DEF ResponseInv
<1>d. CASE ~(s.state = "content") /\ ~(s.state = "waitAck" /\ a.ackedLength >= a.writtenLength)
  <2>1. Response!basicAck(s, len, fault) = a
    BY <1>4, <1>d
  <2> QED BY <1>9, <2>1
<1>e. room > available \/ room <= available
  BY <1>2, <1>7
<1> QED BY <1>a, <1>b, <1>c, <1>d, <1>e

-------------------------------------------------------------------------------
(* What is left behind the piece that was taken.                           *)
IsPiece(q, n, d, left) ==
  /\ d \in Seq(Int) /\ left \in Seq(Int) /\ d \o left = q
  /\ Len(d) = (IF n < Len(q) THEN n ELSE Len(q)) /\ Len(left) = Len(q) - Len(d)

LEMMA PieceTaken ==
  ASSUME NEW q \in Seq(Int), NEW n \in Nat
  PROVE  IsPiece(q, n, Response!Take(q, n), Response!Drop(q, Len(Response!Take(q, n))))
<1> DEFINE d == Response!Take(q, n)
           left == Response!Drop(q, Len(d))
<1>1. d \in Seq(Int) /\ Len(d) = (IF n < Len(q) THEN n ELSE Len(q)) /\ Len(q) \in Nat
  BY TakenAndLeft
<1>2. Len(d) \in Nat /\ Len(d) <= Len(q)
  BY <1>1
<1>3. Response!Take(q, Len(d)) = SubSeq(q, 1, Len(d))
  BY <1>1, <1>2 DEF Response!Take
<1>4. d = SubSeq(q, 1, Len(d))
  BY <1>1 DEF Response!Take
<1> HIDE DEF d
<1>5. /\ Response!Drop(q, Len(d)) \in Seq(Int)
      /\ Len(Response!Drop(q, Len(d))) = (IF Len(d) < Len(q) THEN Len(q) - Len(d) ELSE 0)
      /\ Response!Take(q, Len(d)) \o Response!Drop(q, Len(d)) = q
  BY <1>2, TakenAndLeft
<1>6. Response!Take(q, Len(d)) = d
  BY <1>3, <1>4
<1>7. d \o left = q
  BY <1>5, <1>6
<1>8. Len(q) \in Nat /\ (Len(d) < Len(q) \/ Len(q) - Len(d) = 0)
  BY <1>1, <1>2
<1> HIDE DEF left
<1>9. left \in Seq(Int) /\ Len(left) = IF Len(d) < Len(q) THEN Len(q) - Len(d) ELSE 0
  BY <1>5 DEF left
<1>10. Len(left) = Len(q) - Len(d)
  BY <1>8, <1>9
<1>11. IsPiece(q, n, d, left)
  BY <1>1, <1>7, <1>9, <1>10 DEF IsPiece
<1> QED BY <1>11 DEF d, left

(* A response whose content is asked for, with room beside the head.       *)
Ready(s, room) ==
  /\ Holds(s) /\ s.state = "content" /\ room \in Nat
  /\ Spared(s) =>
       /\ Response!space(s) = room + Len(s.head)
       /\ s.head = <<>> => room > 0
       /\ Given(s.wire, s.head \o s.source, s.total)
       /\ Response!chunked(s) => Frames(s.wire)
       /\ IF Response!sendsLength(s) THEN s.contentLength - s.sentLength = Len(s.source)
                                     ELSE s.contentLength = 0

(* The response once the head and a piece of the content are taken.        *)
Taken(s, data) ==
  [s EXCEPT !.head = <<>>, !.source = Response!Drop(@, Len(data)), !.sentLength = @ + Len(data)]

LEMMA TakenState ==
  ASSUME NEW s, Holds(s), NEW data \in Seq(Int),
         Response!Drop(s.source, Len(data)) \in Seq(Int)
  PROVE  /\ Holds(Taken(s, data)) /\ Taken(s, data).state = s.state
         /\ Taken(s, data).head = <<>> /\ Taken(s, data).kind = s.kind
         /\ Taken(s, data).source = Response!Drop(s.source, Len(data))
         /\ Taken(s, data).sentLength = s.sentLength + Len(data)
         /\ Taken(s, data).contentLength = s.contentLength
         /\ Taken(s, data).total = s.total /\ Taken(s, data).wire = s.wire
         /\ Response!space(Taken(s, data)) = Response!space(s)
         /\ Spared(Taken(s, data)) <=> Spared(s)
<1> DEFINE u == Taken(s, data)
           left == Response!Drop(s.source, Len(data))
           n == s.sentLength + Len(data)
<1>1. s \in ResponseState /\ s.sentLength \in Nat /\ Len(data) \in Nat
  BY DEF Holds, ResponseState
<1>2. n \in Nat /\ left \in Seq(Int) /\ <<>> \in Seq(Int)
  BY <1>1
<1>3. u = [s EXCEPT !.head = <<>>, !.source = left, !.sentLength = n]
  BY <1>1 DEF Taken, ResponseState
<1> HIDE DEF u, left, n
<1>4. /\ u \in ResponseState /\ u.state = s.state /\ u.head = <<>> /\ u.kind = s.kind
      /\ u.source = left /\ u.sentLength = n /\ u.contentLength = s.contentLength
      /\ u.total = s.total /\ u.wire = s.wire /\ u.flight = s.flight /\ u.sndbuf = s.sndbuf
      /\ u.lost = s.lost /\ u.headHeld = s.headHeld
  BY <1>1, <1>2, <1>3 DEF ResponseState
<1>5. Holds(u) /\ Response!space(u) = Response!space(s) /\ (Spared(u) <=> Spared(s))
  BY <1>4 DEF Holds, Response!space, Spared
<1> QED BY <1>4, <1>5 DEF u, left, n

LEMMA ChunkedPieceKeeps ==
  ASSUME ResponseAssumption, NEW s, NEW room, Ready(s, room), Response!chunked(s),
         room > FrameHead + FrameTail, NEW fault
  PROVE  ResponseInv(Response!chunkedPiece(s, room, fault))
<1> DEFINE n == room - FrameHead - FrameTail
           data == Response!Take(s.source, n)
           left == Response!Drop(s.source, Len(data))
           bytes == s.head \o Response!chunk(data)
           u == Taken(s, data)
           w == Response!write(u, bytes, fault)
           st == IF data = <<>> THEN "waitAck" ELSE w.state
           v == [w EXCEPT !.state = st]
<1>1. /\ s.source \in Seq(Int) /\ s.head \in Seq(Int) /\ s.total \in Nat /\ Holds(s)
      /\ s.state = "content" /\ Len(s.head) \in Nat /\ room \in Nat
      /\ (Spared(s) => Response!space(s) = room + Len(s.head))
  BY DEF Ready, Holds, ResponseState
<1>2. n \in Nat /\ n > 0
  BY <1>1 DEF ResponseAssumption
<1>3. Response!chunkedPiece(s, room, fault) = v
  <2>1. w \in ResponseState => v = [w EXCEPT !.state = IF data = <<>> THEN "waitAck" ELSE @]
    BY DEF ResponseState
  <2>2. Response!chunkedPiece(s, room, fault) = [w EXCEPT !.state = IF data = <<>> THEN "waitAck" ELSE @]
    BY DEF Response!chunkedPiece, Taken
  <2> QED BY <2>2
<1> HIDE DEF n
<1>4. /\ data \in Seq(Int) /\ left \in Seq(Int) /\ data \o left = s.source
      /\ Len(left) = Len(s.source) - Len(data)
      /\ Len(data) = IF n < Len(s.source) THEN n ELSE Len(s.source)
  <2>1. IsPiece(s.source, n, data, left)
    BY <1>1, <1>2, PieceTaken
  <2> HIDE DEF data, left
  <2> QED BY <2>1 DEF IsPiece
<1> HIDE DEF data
<1>5. /\ Holds(u) /\ u.state = "content" /\ u.head = <<>> /\ u.kind = "chunked"
      /\ u.source = left /\ u.contentLength = s.contentLength /\ u.total = s.total
      /\ u.wire = s.wire /\ Response!space(u) = Response!space(s) /\ (Spared(u) <=> Spared(s))
  BY <1>1, <1>4, TakenState DEF Response!chunked
<1> HIDE DEF u, left
<1>6. ASSUME NEW m \in Nat, NEW x, Given(x, s.head \o (data \o left), m)
      PROVE  /\ bytes \in Seq(Int) /\ Len(bytes) = Len(s.head) + FrameHead + Len(data) + FrameTail
             /\ Given(x \o bytes, left, m)
             /\ frames(x \o bytes) = frames(x) + (FrameHead + FrameTail)
  <2>1. s.head \in Seq(Int) /\ data \in Seq(Int) /\ left \in Seq(Int)
    BY <1>1, <1>4
  <2>2. ChunkWritten(x, m, s.head, data, left, bytes)
    BY <1>6, <2>1, NextChunk
  <2> HIDE DEF bytes
  <2> QED BY <2>2 DEF ChunkWritten
<1>7. bytes \in Seq(Int) /\ Len(bytes) = Len(s.head) + FrameHead + Len(data) + FrameTail
  <2> DEFINE f == [i \in 1..FrameHead |-> Response!Frame]
             g == [i \in 1..FrameTail |-> Response!Crlf]
             e == f \o data
             c == e \o g
  <2>1. f \in Seq(Int) /\ Len(f) = FrameHead /\ g \in Seq(Int) /\ Len(g) = FrameTail
    BY DEF ResponseAssumption, Response!Frame, Response!Crlf
  <2>2. bytes = s.head \o c
    BY DEF Response!chunk
  <2> HIDE DEF f, g, bytes
  <2>3. e \in Seq(Int) /\ Len(e) = FrameHead + Len(data)
    BY ZenonT(40), <1>4, <2>1, ConcatProperties
  <2> HIDE DEF e
  <2>4. c \in Seq(Int) /\ Len(c) = FrameHead + Len(data) + FrameTail
    BY <2>1, <2>3, ConcatProperties
  <2> HIDE DEF c
  <2>5. bytes \in Seq(Int) /\ Len(bytes) = Len(s.head) + Len(c)
    BY <1>1, <2>2, <2>4, ConcatProperties
  <2>6. Len(data) \in Nat /\ Len(s.head) \in Nat
    BY <1>1, <1>4
  <2>7. FrameHead \in Nat /\ FrameTail \in Nat
    BY DEF ResponseAssumption
  <2> HIDE DEF bytes
  <2>8. Len(bytes) = Len(s.head) + (FrameHead + Len(data) + FrameTail)
    BY <2>4, <2>5
  <2> DEFINE i == Len(s.head)
             j == Len(data)
  <2>a. i \in Nat /\ j \in Nat
    BY <2>6
  <2>b. Len(bytes) = i + (FrameHead + j + FrameTail)
    BY <2>8
  <2> HIDE DEF i, j
  <2>9. Len(bytes) = i + FrameHead + j + FrameTail
    BY <2>7, <2>a, <2>b
  <2>10. Len(bytes) = Len(s.head) + FrameHead + Len(data) + FrameTail
    BY <2>9 DEF i, j
  <2> QED BY <2>5, <2>10
<1>8. Spared(u) => Len(bytes) <= Response!space(u)
  <2>1. Len(data) \in Nat /\ Len(s.source) \in Nat /\ Len(data) <= n
    BY <1>1, <1>2, <1>4
  <2> HIDE DEF bytes
  <2> QED BY <1>1, <1>5, <1>7, <2>1 DEF n, ResponseAssumption
<1>9. Spared(u) => /\ Given(u.wire \o bytes, u.head \o u.source, u.total)
                   /\ Frames(u.wire \o bytes)
  <2> SUFFICES ASSUME Spared(u)
               PROVE  Given(u.wire \o bytes, u.head \o u.source, u.total) /\ Frames(u.wire \o bytes)
    OBVIOUS
  <2> HIDE DEF bytes
  <2>1. Given(s.wire, s.head \o (data \o left), s.total) /\ Frames(s.wire)
    BY <1>4, <1>5 DEF Ready
  <2>2. Given(s.wire \o bytes, left, s.total) /\ frames(s.wire \o bytes) = frames(s.wire) + (FrameHead + FrameTail)
    BY <1>1, <1>6, <2>1
  <2>3. <<>> \o left = left
    BY <1>4
  <2>4. PICK k \in Nat : frames(s.wire) = k * (FrameHead + FrameTail)
    BY <2>1 DEF Frames
  <2>5. k * (FrameHead + FrameTail) + (FrameHead + FrameTail) = (k + 1) * (FrameHead + FrameTail)
        /\ k + 1 \in Nat
    BY DEF ResponseAssumption
  <2>6. Frames(s.wire \o bytes)
    BY <2>2, <2>4, <2>5 DEF Frames
  <2> QED BY <1>5, <2>2, <2>3, <2>6
<1> HIDE DEF bytes
<1>10. Written(u, w, bytes) /\ w.state = "content"
  BY <1>5, <1>7, WriteTakes
<1> HIDE DEF w
<1>11. st \in {"headers", "content", "waitAck", "end", "failed"}
  BY <1>10
<1>12. Written(u, v, bytes) /\ v.state = st
  <2> HIDE DEF st
  <2> QED BY ZenonT(40), <1>10, <1>11, StateOf
<1> HIDE DEF v
<1>13. v.head = <<>> /\ v.source = left /\ v.kind = "chunked" /\ v.contentLength = s.contentLength
  BY <1>5, <1>12 DEF Written
<1>14. data = <<>> => left = <<>>
  BY <1>1, <1>2, <1>4
<1>15. Spared(u) => Placed(v)
  <2>1. Spared(u) => s.contentLength = 0
    BY <1>5 DEF Ready, Response!sendsLength, Response!chunked
  <2>2. st \in {"content", "waitAck"} /\ (st = "waitAck" => data = <<>>)
    BY <1>10
  <2> HIDE DEF st
  <2> QED BY <1>12, <1>13, <1>14, <2>1, <2>2 DEF Placed, Response!sendsLength
<1>16. v.state # "setup"
  BY <1>10, <1>12
<1>17. ResponseInv(v)
  BY <1>8, <1>9, <1>12, <1>15, <1>16, WrittenKeeps
<1> QED BY <1>3, <1>17

LEMMA PlainPieceKeeps ==
  ASSUME ResponseAssumption, NEW s, NEW room, Ready(s, room), ~Response!chunked(s),
         Spared(s) /\ s.kind = "until" => room > 0, NEW fault
  PROVE  ResponseInv(Response!plainPiece(s, room, fault))
<1> DEFINE rest1 == s.contentLength - s.sentLength
           n == IF Response!sendsLength(s) /\ rest1 < room THEN rest1 ELSE room
           data == Response!Take(s.source, n)
           left == Response!Drop(s.source, Len(data))
           bytes == s.head \o data
           u == Taken(s, data)
           w == Response!write(u, bytes, fault)
           ends == (~Response!sendsLength(s) /\ bytes = <<>>) \/ w.sentLength = w.contentLength
           st == IF ends THEN "waitAck" ELSE w.state
           v == [w EXCEPT !.state = st]
<1>1. /\ s.source \in Seq(Int) /\ s.head \in Seq(Int) /\ s.total \in Nat /\ Holds(s)
      /\ s.state = "content" /\ Len(s.head) \in Nat /\ room \in Nat
      /\ (Spared(s) => Response!space(s) = room + Len(s.head)) /\ s.contentLength \in Nat /\ s.sentLength \in Nat
      /\ Len(s.source) \in Nat
  BY DEF Ready, Holds, ResponseState
<1>2. n \in Int /\ n <= room /\ (Response!sendsLength(s) \/ n = room)
  BY <1>1
<1>3. Spared(s) => n \in Nat
  <2>1. Spared(s) /\ Response!sendsLength(s) => rest1 = Len(s.source)
    BY DEF Ready
  <2> QED BY <1>1, <2>1
<1>4. Response!plainPiece(s, room, fault) = v
  BY DEF Response!plainPiece, Taken
<1> HIDE DEF rest1, n
<1>5. data \in Seq(Int) /\ left \in Seq(Int) /\ Len(data) \in Nat /\ Len(data) <= room
  <2> DEFINE k == IF n < Len(s.source) THEN n ELSE Len(s.source)
  <2>1. k \in Int /\ k <= Len(s.source) /\ k <= room
    BY <1>1, <1>2
  <2>2. \A i \in 1..k : s.source[i] \in Int
    <3>1. \A i \in 1..k : i \in 1..Len(s.source)
      BY <1>1, <2>1
    <3> QED BY <1>1, <3>1
  <2>3. data = SubSeq(s.source, 1, k)
    BY DEF Response!Take
  <2> HIDE DEF k
  <2>4. data \in Seq(Int) /\ Len(data) = IF 1 <= k THEN k - 1 + 1 ELSE 0
    <3> HIDE DEF data
    <3> QED BY <2>1, <2>2, <2>3, SubSeqProperties
  <2> HIDE DEF data
  <2>5. Len(data) \in Nat /\ Len(data) <= room
    BY <1>1, <2>1, <2>4
  <2>6. Len(s.source) \in Int /\ \A i \in (Len(data) + 1)..Len(s.source) : s.source[i] \in Int
    <3>1. \A i \in (Len(data) + 1)..Len(s.source) : i \in 1..Len(s.source)
      BY <1>1, <2>5
    <3> QED BY <1>1, <3>1
  <2>7. left \in Seq(Int)
    BY <2>5, <2>6, SubSeqProperties DEF Response!Drop
  <2> QED BY <2>4, <2>5, <2>7
<1>6. Spared(s) => IsPiece(s.source, n, data, left)
  BY <1>1, <1>3, PieceTaken
<1> HIDE DEF data
<1>7. /\ Holds(u) /\ u.state = "content" /\ u.head = <<>> /\ u.kind = s.kind
      /\ u.source = left /\ u.contentLength = s.contentLength /\ u.total = s.total
      /\ u.sentLength = s.sentLength + Len(data)
      /\ u.wire = s.wire /\ Response!space(u) = Response!space(s) /\ (Spared(u) <=> Spared(s))
  BY <1>1, <1>5, TakenState
<1> HIDE DEF u, left
<1>8. bytes \in Seq(Int) /\ Len(bytes) = Len(s.head) + Len(data)
  BY <1>1, <1>5, ConcatProperties
<1>9. Spared(u) => Len(bytes) <= Response!space(u)
  <2> HIDE DEF bytes
  <2> QED BY <1>1, <1>5, <1>7, <1>8
<1>10. Spared(u) => Given(u.wire \o bytes, u.head \o u.source, u.total)
  <2> SUFFICES ASSUME Spared(u) PROVE Given(u.wire \o bytes, u.head \o u.source, u.total)
    OBVIOUS
  <2>1. s.source = data \o left
    BY <1>6, <1>7 DEF IsPiece
  <2>2. Joins(s.head, data, left)
    BY <1>1, <1>5, AllJoin
  <2>3. s.head \o (data \o left) = bytes \o left
    BY <2>2 DEF Joins
  <2> HIDE DEF bytes
  <2>4. Given(s.wire, bytes \o left, s.total)
    BY <1>7, <2>1, <2>3 DEF Ready
  <2>5. Given(s.wire \o bytes, left, s.total)
    BY <1>1, <1>5, <1>8, <2>4, NextBytes
  <2>6. <<>> \o left = left
    BY <1>5
  <2> QED BY <1>7, <2>5, <2>6
<1>a. bytes = <<>> => s.head = <<>> /\ Len(data) = 0
  <2> HIDE DEF bytes
  <2> QED BY <1>1, <1>5, <1>8
<1> HIDE DEF bytes
<1>11. Written(u, w, bytes) /\ w.state = "content"
  BY <1>7, <1>8, WriteTakes
<1> HIDE DEF w
<1>12. w.sentLength = s.sentLength + Len(data) /\ w.contentLength = s.contentLength
  BY <1>7, <1>11 DEF Written
<1>13. st \in {"content", "waitAck"} /\ (st = "waitAck" <=> ends)
  BY <1>11
<1> HIDE DEF st
<1>14. Written(u, v, bytes) /\ v.state = st
  BY <1>11, <1>13, StateOf
<1> HIDE DEF v
<1>15. /\ v.head = <<>> /\ v.source = left /\ v.kind = s.kind
       /\ v.contentLength = s.contentLength /\ v.sentLength = s.sentLength + Len(data)
  BY <1>7, <1>14 DEF Written
<1>16. Spared(u) => Placed(v)
  <2> SUFFICES ASSUME Spared(u) PROVE Placed(v)
    OBVIOUS
  <2>1. /\ Len(left) = Len(s.source) - Len(data)
        /\ Len(data) = (IF n < Len(s.source) THEN n ELSE Len(s.source))
    BY <1>6, <1>7 DEF IsPiece
  <2>2. Response!sendsLength(v) <=> Response!sendsLength(s)
    BY <1>15 DEF Response!sendsLength
  <2>3. CASE Response!sendsLength(s)
    <3>1. v.contentLength - v.sentLength = Len(left)
      <4>1. s.contentLength - s.sentLength = Len(s.source)
        BY <1>7, <2>3 DEF Ready
      <4> QED BY <1>1, <1>5, <1>15, <2>1, <4>1
    <3>2. ends => left = <<>>
      <4>1. ends => v.contentLength - v.sentLength = 0
        BY <1>1, <1>5, <1>12, <1>15, <2>3
      <4> QED BY <1>5, <3>1, <4>1
    <3> QED BY <1>13, <1>14, <1>15, <2>2, <2>3, <3>1, <3>2 DEF Placed
  <2>4. CASE ~Response!sendsLength(s)
    <3>1. s.contentLength = 0 /\ n = room /\ s.kind = "until"
      <4>1. s.kind = "until"
        BY <2>4 DEF Response!sendsLength, Response!chunked
      <4> QED BY <1>2, <1>7, <2>4, <4>1 DEF Ready
    <3>2. room > 0
      BY <1>7, <3>1
    <3>3. ends => Len(data) = 0
      BY <1>1, <1>5, <1>12, <1>a, <2>4, <3>1
    <3>4. Len(data) = 0 => left = <<>>
      <4>0. Len(s.source) \in Nat /\ room \in Nat /\ Len(data) = IF room < Len(s.source) THEN room ELSE Len(s.source)
        BY <1>1, <2>1, <3>1
      <4>1. Len(data) = 0 => Len(s.source) = 0
        BY <3>2, <4>0
      <4> QED BY <1>5, <2>1, <4>1
    <3> QED BY <1>13, <1>14, <1>15, <2>2, <2>4, <3>1, <3>3, <3>4 DEF Placed
  <2> QED BY <2>3, <2>4
<1>17. v.state # "setup" /\ ~Response!chunked(u)
  BY <1>7, <1>13, <1>14 DEF Response!chunked
<1>18. ResponseInv(v)
  BY <1>9, <1>10, <1>14, <1>16, <1>17, WrittenKeeps
<1> QED BY <1>4, <1>18

LEMMA PieceKeeps ==
  ASSUME ResponseAssumption, NEW s, NEW room, Ready(s, room), NEW fault
  PROVE  ResponseInv(Response!piece(s, room, fault))
<1> DEFINE narrow == Response!chunked(s) /\ room <= FrameHead + FrameTail
           waits  == narrow \/ fault \in {"malloc", "tryAgain"}
           exact  == s.kind = "until" /\ room = 0
           held   == s.headHeld \/ (s.head # <<>> /\ (waits \/ exact))
           h == [s EXCEPT !.headHeld = held]
<1>1. s \in ResponseState /\ Holds(s) /\ s.state = "content" /\ room \in Nat
      /\ s.headHeld \in BOOLEAN /\ (Spared(s) /\ s.head = <<>> => room > 0)
  BY DEF Ready, Holds, ResponseState
<1>2. Response!piece(s, room, fault) =
        CASE waits -> h
          [] ~waits /\ Response!chunked(s)  -> Response!chunkedPiece(h, room, fault)
          [] ~waits /\ ~Response!chunked(s) -> Response!plainPiece(h, room, fault)
  BY <1>1 DEF Response!piece, ResponseState
<1>3. held \in BOOLEAN /\ (s.headHeld => held)
  BY <1>1
<1>4. ~held => ~(s.head # <<>> /\ (waits \/ exact))
  OBVIOUS
<1> HIDE DEF held
<1>5. /\ h \in ResponseState /\ h.state = "content" /\ h.kind = s.kind /\ h.head = s.head
      /\ h.source = s.source /\ h.contentLength = s.contentLength /\ h.sentLength = s.sentLength
      /\ h.total = s.total /\ h.wire = s.wire /\ h.flight = s.flight /\ h.sndbuf = s.sndbuf
      /\ h.lost = s.lost /\ h.headHeld = held
  BY <1>1, <1>3 DEF ResponseState
<1> HIDE DEF h
<1>6. /\ Holds(h) /\ Response!space(h) = Response!space(s) /\ (Spared(h) => Spared(s))
      /\ Response!chunked(h) = Response!chunked(s)
      /\ Response!sendsLength(h) = Response!sendsLength(s)
  BY <1>1, <1>3, <1>5 DEF Holds, Response!space, Spared, Response!chunked, Response!sendsLength
<1>7. Ready(h, room)
  BY <1>5, <1>6 DEF Ready
<1>8. CASE waits
  <2>1. Response!piece(s, room, fault) = h
    BY <1>2, <1>8
  <2>2. Spared(h) => h.head = <<>>
    BY <1>4, <1>5, <1>8 DEF Spared
  <2>3. Spared(h) => Sending(h)
    BY <1>5, <1>7, <2>2 DEF Ready, Sending, Placed
  <2> QED BY <1>5, <1>6, <2>1, <2>3 DEF ResponseInv
<1>9. CASE ~waits /\ Response!chunked(s)
  <2>1. room > FrameHead + FrameTail
    BY <1>1, <1>9 DEF ResponseAssumption
  <2>2. Response!piece(s, room, fault) = Response!chunkedPiece(h, room, fault)
    BY <1>2, <1>9
  <2> QED BY <1>6, <1>7, <1>9, <2>1, <2>2, ChunkedPieceKeeps
<1>10. CASE ~waits /\ ~Response!chunked(s)
  <2>1. Spared(h) /\ h.kind = "until" => room > 0
    <3>1. exact /\ s.head # <<>> => held
      BY DEF held
    <3> QED BY <1>1, <1>5, <1>6, <3>1 DEF Spared
  <2>2. Response!piece(s, room, fault) = Response!plainPiece(h, room, fault)
    BY <1>2, <1>10
  <2> QED BY <1>6, <1>7, <1>10, <2>1, <2>2, PlainPieceKeeps
<1> QED BY <1>8, <1>9, <1>10

LEMMA AbstractAckKeeps ==
  ASSUME ResponseAssumption, NEW s, ResponseInv(s), s.state # "setup",
         s.state = "content" => Response!space(s) > 0, NEW len \in Nat, NEW fault
  PROVE  ResponseInv(Response!abstractAck(s, len, fault))
<1> DEFINE acked == s.ackedLength + len
           a == [s EXCEPT !.ackedLength = acked]
           room == Response!space(s)
<1>1. /\ s \in ResponseState /\ s.flight <= s.sndbuf /\ s.flight \in Nat /\ s.sndbuf \in Nat
      /\ Holds(s) /\ (Spared(s) => Sending(s)) /\ acked \in Nat
      /\ s.source \in Seq(Int) /\ s.head \in Seq(Int) /\ s.total \in Nat
      /\ Len(s.head) \in Nat
  BY SMTT(20) DEF ResponseInv, Holds, ResponseState
<1>2. room \in Nat /\ room = s.sndbuf - s.flight
  BY <1>1 DEF Response!space
<1> HIDE DEF acked
<1>3. /\ a \in ResponseState /\ a.state = s.state /\ a.kind = s.kind /\ a.head = s.head
      /\ a.source = s.source /\ a.total = s.total /\ a.wire = s.wire /\ a.flight = s.flight
      /\ a.sndbuf = s.sndbuf /\ a.lost = s.lost /\ a.headHeld = s.headHeld
      /\ a.contentLength = s.contentLength /\ a.sentLength = s.sentLength
  BY <1>1 DEF ResponseState
<1>a. CASE fault = "source"
  <2> DEFINE v == [s EXCEPT !.state = "failed", !.closing = TRUE]
  <2>1. Response!abstractAck(s, len, fault) = v
    BY <1>1, <1>a DEF Response!abstractAck, Response!close, ResponseState
  <2>2. /\ v \in ResponseState /\ v.state = "failed" /\ v.kind = s.kind /\ v.head = s.head
        /\ v.source = s.source /\ v.total = s.total /\ v.wire = s.wire /\ v.flight = s.flight
        /\ v.sndbuf = s.sndbuf /\ v.lost = s.lost /\ v.headHeld = s.headHeld
        /\ v.contentLength = s.contentLength
    BY <1>1 DEF ResponseState
  <2> HIDE DEF v
  <2>3. Holds(v) /\ (Spared(v) => Spared(s))
    BY <1>1, <2>2 DEF Holds, Spared
  <2>4. Spared(v) => Sending(v)
    BY <1>1, <2>2, <2>3 DEF Sending, Placed, Response!sendsLength, Response!chunked
  <2> QED BY <2>1, <2>2, <2>3, <2>4 DEF ResponseInv
<1>b. CASE fault # "source"
  <2>1. Response!abstractAck(s, len, fault) =
          CASE fault = "source" -> Response!close([s EXCEPT !.state = "failed"])
            [] fault # "source" /\ a.state = "headers" /\ room < Len(a.head) ->
                 Response!write([a EXCEPT !.head = Response!Drop(@, room)],
                                Response!Take(a.head, room), fault)
            [] fault # "source" /\ a.state = "headers" /\ room >= Len(a.head) ->
                 Response!piece([a EXCEPT !.state = "content"], room - Len(a.head), fault)
            [] fault # "source" /\ a.state = "content" -> Response!piece(a, room, fault)
            [] fault # "source" /\ a.state = "waitAck"
                 /\ (~Response!sendsLength(a) \/ a.ackedLength >= a.writtenLength) ->
                 IF a.kind = "until" THEN Response!close([a EXCEPT !.state = "end"])
                                     ELSE [a EXCEPT !.state = "end"]
            [] OTHER -> a
    <3>1. Response!space(a) = room
      BY <1>3 DEF Response!space
    <3> QED BY <3>1 DEF Response!abstractAck, acked
  <2> HIDE DEF a, room
  <2>2. Holds(a) /\ Response!space(a) = room /\ (Spared(a) <=> Spared(s))
        /\ Response!sendsLength(a) = Response!sendsLength(s)
        /\ Response!chunked(a) = Response!chunked(s)
    BY <1>1, <1>2, <1>3 DEF Holds, Response!space, Spared, Response!sendsLength, Response!chunked
  <2>3. ResponseInv(a) /\ (Spared(a) => Sending(a))
    <3>1. Spared(a) => Sending(a)
      BY <1>1, <1>3, <2>2 DEF Sending, Placed
    <3> QED BY <1>3, <2>2, <3>1 DEF ResponseInv
  <2>4. a.head \in Seq(Int) /\ a.source \in Seq(Int) /\ a.total \in Nat /\ Len(a.head) \in Nat
    BY <1>1, <1>3
  <2>5. CASE a.state = "headers" /\ room < Len(a.head)
    <3> DEFINE t == Response!Take(a.head, room)
               left == Response!Drop(a.head, room)
               u == [a EXCEPT !.head = left]
               v == Response!write(u, t, fault)
    <3>1. Response!abstractAck(s, len, fault) = v
      <4>1. ~(room >= Len(a.head))
        BY <1>2, <2>4, <2>5
      <4> QED BY <1>b, <2>1, <2>5, <4>1
    <3>2. /\ t \in Seq(Int) /\ left \in Seq(Int) /\ t \o left = a.head
          /\ Len(t) = room /\ Len(left) = Len(a.head) - room
      BY <1>2, <2>4, <2>5, TakenAndLeft
    <3> HIDE DEF t, left
    <3>3. left # <<>>
      BY <1>2, <2>4, <2>5, <3>2
    <3>4. /\ u \in ResponseState /\ u.head = left /\ u.source = a.source /\ u.state = "headers"
          /\ u.wire = a.wire /\ u.total = a.total /\ u.kind = a.kind
          /\ u.contentLength = a.contentLength /\ u.sentLength = a.sentLength
          /\ u.lost = a.lost /\ u.headHeld = a.headHeld
          /\ u.flight = a.flight /\ u.sndbuf = a.sndbuf
      BY <1>3, <2>5, <3>2 DEF ResponseState
    <3> HIDE DEF u
    <3>5. Holds(u) /\ Response!space(u) = room /\ (Spared(u) <=> Spared(a))
      BY <2>2, <3>4 DEF Holds, Response!space, Spared
    <3>6. Written(u, v, t) /\ v.state = "headers"
      BY <3>2, <3>4, <3>5, WriteTakes
    <3> HIDE DEF v
    <3>7. v.kind = a.kind /\ v.head = left /\ v.source = a.source /\ v.sentLength = a.sentLength
          /\ v.contentLength = a.contentLength
      BY <3>4, <3>6 DEF Written
    <3>8. Spared(u) => Placed(v)
      BY <2>3, <2>5, <3>3, <3>5, <3>6, <3>7 DEF Sending, Placed, Response!sendsLength
    <3>9. Spared(u) => /\ Given(u.wire \o t, u.head \o u.source, u.total)
                       /\ frames(u.wire \o t) = frames(u.wire)
      <4> SUFFICES ASSUME Spared(u)
                   PROVE  /\ Given(a.wire \o t, left \o a.source, a.total)
                          /\ frames(a.wire \o t) = frames(a.wire)
        BY <3>4
      <4> DEFINE more == left \o a.source
      <4>1. Joins(t, left, a.source)
        BY <2>4, <3>2, AllJoin
      <4>2. more \in Seq(Int)
        BY <2>4, <3>2, ConcatProperties
      <4>3. a.head \o a.source = t \o more
        BY <3>2, <4>1 DEF Joins
      <4> HIDE DEF more
      <4>4. Given(a.wire, t \o more, a.total)
        BY <2>3, <3>5, <4>3 DEF Sending
      <4>5. Given(a.wire \o t, more, a.total) /\ frames(a.wire \o t) = frames(a.wire)
        BY <2>4, <3>2, <4>2, <4>4, NextBytes
      <4> QED BY <4>5 DEF more
    <3>10. Spared(u) => (Response!chunked(u) => Frames(u.wire \o t))
      BY <2>3, <3>4, <3>5, <3>9 DEF Sending, Frames, Response!chunked
    <3>11. Len(t) <= Response!space(u) /\ v.state # "setup"
      BY <1>2, <3>2, <3>5, <3>6
    <3>12. ResponseInv(v)
      BY <3>6, <3>8, <3>9, <3>10, <3>11, WrittenKeeps
    <3> QED BY <3>1, <3>12
  <2>6. CASE a.state = "headers" /\ room >= Len(a.head)
    <3> DEFINE beside == room - Len(a.head)
               u == [a EXCEPT !.state = "content"]
    <3>1. Response!abstractAck(s, len, fault) = Response!piece(u, beside, fault)
      <4>1. ~(room < Len(a.head))
        BY <1>2, <2>4, <2>6
      <4> QED BY <1>b, <2>1, <2>6, <4>1
    <3>2. /\ u \in ResponseState /\ u.head = a.head /\ u.source = a.source /\ u.state = "content"
          /\ u.wire = a.wire /\ u.total = a.total /\ u.kind = a.kind
          /\ u.contentLength = a.contentLength /\ u.sentLength = a.sentLength
          /\ u.lost = a.lost /\ u.headHeld = a.headHeld
          /\ u.flight = a.flight /\ u.sndbuf = a.sndbuf
      BY <1>3 DEF ResponseState
    <3> HIDE DEF u
    <3>3. Holds(u) /\ Response!space(u) = room /\ (Spared(u) <=> Spared(a))
      BY <2>2, <3>2 DEF Holds, Response!space, Spared
    <3>4. beside \in Nat /\ room = beside + Len(a.head)
      BY <1>2, <2>4, <2>6
    <3> HIDE DEF beside
    <3>5. Ready(u, beside)
      BY <2>3, <2>6, <3>2, <3>3, <3>4
      DEF Ready, Sending, Placed, Response!sendsLength, Response!chunked
    <3> QED BY <3>1, <3>5, PieceKeeps
  <2>7. CASE a.state = "content"
    <3>1. Response!abstractAck(s, len, fault) = Response!piece(a, room, fault)
      BY <1>b, <2>1, <2>7
    <3>2. Spared(a) => a.head = <<>> /\ Len(a.head) = 0
      <4>1. Spared(a) => a.head = <<>>
        BY <2>3, <2>7 DEF Sending, Placed
      <4> QED BY <4>1
    <3>3. room > 0 /\ room = room + 0
      BY <1>2, <1>3, <2>7 DEF room
    <3>4. Ready(a, room)
      BY <1>2, <2>2, <2>3, <2>7, <3>2, <3>3 DEF Ready, Sending, Placed
    <3> QED BY <3>1, <3>4, PieceKeeps
  <2>8. CASE a.state = "waitAck" /\ (~Response!sendsLength(a) \/ a.ackedLength >= a.writtenLength)
    <3> DEFINE e == [a EXCEPT !.state = "end"]
               f == [e EXCEPT !.closing = TRUE]
               v == IF a.kind = "until" THEN f ELSE e
    <3>1. Response!abstractAck(s, len, fault) = v
      BY <1>b, <2>1, <2>8 DEF Response!close
    <3>2. v \in {e, f}
      OBVIOUS
    <3>3. /\ e \in ResponseState /\ e.state = "end" /\ e.kind = a.kind /\ e.head = a.head
          /\ e.source = a.source /\ e.total = a.total /\ e.wire = a.wire /\ e.flight = a.flight
          /\ e.sndbuf = a.sndbuf /\ e.lost = a.lost /\ e.headHeld = a.headHeld
          /\ e.contentLength = a.contentLength
      BY <1>3 DEF ResponseState
    <3> HIDE DEF e
    <3>4. /\ f \in ResponseState /\ f.state = e.state /\ f.kind = e.kind /\ f.head = e.head
          /\ f.source = e.source /\ f.total = e.total /\ f.wire = e.wire /\ f.flight = e.flight
          /\ f.sndbuf = e.sndbuf /\ f.lost = e.lost /\ f.headHeld = e.headHeld
          /\ f.contentLength = e.contentLength
      BY <3>3 DEF ResponseState
    <3> HIDE DEF f, v
    <3>5. /\ v \in ResponseState /\ v.state = "end" /\ v.kind = a.kind /\ v.head = a.head
          /\ v.source = a.source /\ v.total = a.total /\ v.wire = a.wire /\ v.flight = a.flight
          /\ v.sndbuf = a.sndbuf /\ v.lost = a.lost /\ v.headHeld = a.headHeld
          /\ v.contentLength = a.contentLength
      BY <3>2, <3>3, <3>4
    <3>6. Holds(v) /\ (Spared(v) => Spared(a))
      BY <2>2, <3>5 DEF Holds, Spared
    <3>7. Spared(v) => Sending(v)
      BY <2>3, <2>8, <3>5, <3>6 DEF Sending, Placed, Response!sendsLength, Response!chunked
    <3> QED BY <3>1, <3>5, <3>6, <3>7 DEF ResponseInv
  <2>9. CASE /\ a.state \notin {"headers", "content"}
             /\ ~(a.state = "waitAck" /\ (~Response!sendsLength(a) \/ a.ackedLength >= a.writtenLength))
    <3>1. Response!abstractAck(s, len, fault) = a
      BY <1>b, <2>1, <2>9
    <3> QED BY <2>3, <3>1
  <2>10. room < Len(a.head) \/ room >= Len(a.head)
    BY <1>2, <2>4
  <2> QED BY <2>5, <2>6, <2>7, <2>8, <2>9, <2>10
<1> QED BY <1>a, <1>b

LEMMA AckKeeps ==
  ASSUME ResponseAssumption, NEW s, ResponseInv(s), s.state # "setup",
         Response!space(s) > 0, NEW len \in Nat, NEW fault
  PROVE  ResponseInv(Response!ack(s, len, fault))
BY BasicAckKeeps, AbstractAckKeeps DEF Response!ack

LEMMA RespondKeeps ==
  ASSUME ResponseAssumption, NEW s, ResponseInv(s), s.state = "setup",
         s.kind = "print" => HeadLen + Len(s.source) = s.total, NEW fault
  PROVE  ResponseInv(Response!respond(s, fault))
<1>1. CASE s.kind = "basic"
  BY <1>1, BasicRespondKeeps DEF Response!respond
<1>2. CASE s.kind # "basic"
  <2> DEFINE u == [s EXCEPT !.state = "headers"]
  <2>1. Response!respond(s, fault) = Response!abstractAck(u, 0, fault)
    BY <1>2 DEF Response!respond
  <2>2. s \in ResponseState /\ Holds(s) /\ (Spared(s) => Prepared(s))
    BY DEF ResponseInv, Holds
  <2>3. /\ u \in ResponseState /\ u.state = "headers" /\ u.kind = s.kind /\ u.head = s.head
        /\ u.source = s.source /\ u.total = s.total /\ u.wire = s.wire /\ u.flight = s.flight
        /\ u.sndbuf = s.sndbuf /\ u.lost = s.lost /\ u.headHeld = s.headHeld
        /\ u.contentLength = s.contentLength /\ u.sentLength = s.sentLength
    BY <2>2 DEF ResponseState
  <2> HIDE DEF u
  <2>4. Holds(u) /\ (Spared(u) => Spared(s))
    BY <2>2, <2>3 DEF Holds, Spared
  <2>5. Spared(u) => Sending(u)
    <3> SUFFICES ASSUME Spared(u) PROVE Sending(u)
      OBVIOUS
    <3>1. Prepared(s)
      BY <2>2, <2>4
    <3>2. Given(<<>>, s.head \o s.source, s.total) /\ Frames(<<>>) /\ s.head # <<>> /\ s.wire = <<>>
      BY <2>2, <3>1, PreparedGiven DEF Prepared
    <3>3. s.sentLength = 0 /\ (Response!sendsLength(s) => s.contentLength = Len(s.source))
          /\ (~Response!sendsLength(s) => s.contentLength = 0)
      BY <3>1 DEF Prepared
    <3>4. Response!sendsLength(s) => s.contentLength - s.sentLength = Len(s.source)
      <4>1. s.contentLength \in Nat
        BY <2>2 DEF ResponseState
      <4> QED BY <3>3, <4>1
    <3>5. Response!sendsLength(u) = Response!sendsLength(s)
      BY <2>3 DEF Response!sendsLength
    <3>6. Placed(u)
      BY <2>3, <3>2, <3>3, <3>4, <3>5 DEF Placed
    <3> QED BY <2>3, <3>2, <3>6 DEF Sending
  <2>6. ResponseInv(u)
    BY <2>3, <2>4, <2>5 DEF ResponseInv
  <2> QED BY <2>1, <2>3, <2>6, AbstractAckKeeps
<1> QED BY <1>1, <1>2

(* What the invariant does not speak of.                                   *)
LEMMA SameResponse ==
  ASSUME NEW s, ResponseInv(s), NEW v, v \in ResponseState,
         v.kind = s.kind, v.sndbuf = s.sndbuf, v.state = s.state,
         v.contentLength = s.contentLength, v.sentLength = s.sentLength, v.head = s.head,
         v.source = s.source, v.total = s.total, v.wire = s.wire, v.flight <= s.flight,
         v.lost = s.lost, v.headHeld = s.headHeld
  PROVE  ResponseInv(v)
<1>1. s \in ResponseState /\ Holds(s) /\ s.flight \in Nat /\ s.sndbuf \in Nat /\ v.flight \in Nat
  BY DEF ResponseInv, Holds, ResponseState
<1>2. Holds(v) /\ (Spared(v) => Spared(s))
  BY <1>1 DEF Holds, Spared
<1>3. Response!sendsLength(v) = Response!sendsLength(s) /\ Response!chunked(v) = Response!chunked(s)
  BY DEF Response!sendsLength, Response!chunked
<1>4. Prepared(s) => Prepared(v)
  BY <1>3 DEF Prepared
<1>5. Sending(s) => Sending(v)
  BY <1>3 DEF Sending, Placed
<1> QED BY <1>2, <1>4, <1>5 DEF ResponseInv

(* A call, with or without a fault.                                        *)
LEMMA FaultKeeps ==
  ASSUME NEW s, ResponseInv(s)
  PROVE  ResponseInv([s EXCEPT !.faults = @ + 1])
<1> DEFINE n == s.faults + 1
           v == [s EXCEPT !.faults = n]
<1>1. s \in ResponseState /\ n \in Nat /\ s.flight \in Nat
  BY DEF ResponseInv, Holds, ResponseState
<1> HIDE DEF n
<1>2. /\ v \in ResponseState /\ v.kind = s.kind /\ v.sndbuf = s.sndbuf /\ v.state = s.state
      /\ v.contentLength = s.contentLength /\ v.sentLength = s.sentLength /\ v.head = s.head
      /\ v.source = s.source /\ v.total = s.total /\ v.wire = s.wire /\ v.flight = s.flight
      /\ v.lost = s.lost /\ v.headHeld = s.headHeld
  BY <1>1 DEF ResponseState
<1> HIDE DEF v
<1>3. ResponseInv(v)
  BY <1>1, <1>2, SameResponse
<1> QED BY <1>3 DEF v, n

(* What is printed follows what is there.                                  *)
LEMMA OneMore ==
  ASSUME ResponseAssumption, NEW q \in Seq(Int), NEW m, m = HeadLen + Len(q),
         UpTo(HeadLen) \o q = UpTo(m)
  PROVE  /\ Append(q, m + 1) \in Seq(Int) /\ Len(Append(q, m + 1)) = Len(q) + 1
         /\ UpTo(HeadLen) \o Append(q, m + 1) = UpTo(m + 1)
<1> DEFINE h == UpTo(HeadLen)
           c == <<m + 1>>
<1>1. h \in Seq(Int) /\ Len(h) = HeadLen /\ HeadLen \in Nat
  BY DEF UpTo, ResponseAssumption
<1>2. m \in Nat /\ Len(q) \in Nat /\ m + 1 \in Int
  BY <1>1
<1>3. c \in Seq(Int) /\ Len(c) = 1 /\ c[1] = m + 1
  BY <1>2
<1>4. Append(q, m + 1) = q \o c
  BY <1>2, AppendIsConcat
<1>5. UpTo(m) \in Seq(Int) /\ Len(UpTo(m)) = m /\ \A i \in 1..m : UpTo(m)[i] = i
  BY <1>2 DEF UpTo
<1>6. UpTo(m + 1) \in Seq(Int) /\ Len(UpTo(m + 1)) = m + 1
      /\ \A i \in 1..(m + 1) : UpTo(m + 1)[i] = i
  BY <1>2 DEF UpTo
<1> HIDE DEF h, c
<1>7. h \o (q \o c) = UpTo(m) \o c
  <2>1. Joins(h, q, c)
    BY <1>1, <1>3, AllJoin
  <2> QED BY <2>1 DEF Joins, h
<1>8. UpTo(m) \o c = UpTo(m + 1)
  <2> DEFINE x == UpTo(m)
             y == UpTo(m + 1)
  <2>1. x \in Seq(Int) /\ y \in Seq(Int) /\ Len(x) = m /\ Len(y) = m + 1
        /\ (\A i \in 1..m : x[i] = i) /\ (\A i \in 1..(m + 1) : y[i] = i)
    BY <1>5, <1>6
  <2> HIDE DEF x, y
  <2>2. /\ x \o c \in Seq(Int) /\ Len(x \o c) = Len(x) + Len(c)
        /\ \A i \in 1..(Len(x) + Len(c)) : (x \o c)[i] = IF i <= Len(x) THEN x[i] ELSE c[i - Len(x)]
    BY ZenonT(40), <1>3, <2>1, ConcatProperties
  <2>3. ASSUME NEW i \in 1..(m + 1) PROVE (x \o c)[i] = y[i]
    <3>1. CASE i <= m
      <4>1. i \in 1..m /\ i \in 1..(Len(x) + Len(c))
        BY <1>2, <1>3, <2>1, <3>1
      <4> QED BY <2>1, <2>2, <3>1, <4>1
    <3>2. CASE i = m + 1
      <4>1. i \in 1..(Len(x) + Len(c)) /\ ~(i <= Len(x)) /\ i - Len(x) = 1
        BY <1>2, <1>3, <2>1, <3>2
      <4>2. (x \o c)[i] = c[i - Len(x)]
        BY <2>2, <4>1
      <4> QED BY <1>3, <2>1, <3>2, <4>1, <4>2
    <3>3. i <= m \/ i = m + 1
      BY <1>2
    <3> QED BY <3>1, <3>2, <3>3
  <2>4. Len(x \o c) = Len(y) /\ Len(y) = m + 1
    BY <1>2, <1>3, <2>1, <2>2
  <2>5. x \o c = y
    BY <2>1, <2>2, <2>3, <2>4, SeqEqual
  <2> QED BY <2>5 DEF x, y
<1>9. q \o c \in Seq(Int) /\ Len(q \o c) = Len(q) + 1
  <2>1. q \o c \in Seq(Int) /\ Len(q \o c) = Len(q) + Len(c)
    BY <1>3, ConcatProperties
  <2> QED BY <1>3, <2>1
<1> QED BY <1>4, <1>7, <1>8, <1>9 DEF h

LEMMA PrintedKeeps ==
  ASSUME ResponseAssumption, ResponseInv(response), Response!Printed
  PROVE  ResponseInv(response')
<1> DEFINE s == response
           m == HeadLen + Len(s.source)
           q == Append(s.source, m + 1)
           n == s.contentLength + 1
           v == [s EXCEPT !.source = q, !.contentLength = n]
<1>1. s \in ResponseState /\ Holds(s) /\ s.state = "setup" /\ s.kind = "print"
      /\ (Spared(s) => Prepared(s)) /\ s.source \in Seq(Int) /\ s.contentLength \in Nat
  BY DEF ResponseInv, Holds, ResponseState, Response!Printed, Response!started
<1>2. response' = v
  BY DEF Response!Printed
<1>3. m \in Nat /\ n \in Nat
  BY <1>1 DEF ResponseAssumption
<1>4. q \in Seq(Int)
  BY <1>1, <1>3, AppendProperties
<1> HIDE DEF q, n
<1>5. /\ v \in ResponseState /\ v.kind = "print" /\ v.sndbuf = s.sndbuf /\ v.state = "setup"
      /\ v.contentLength = n /\ v.sentLength = s.sentLength /\ v.head = s.head
      /\ v.source = q /\ v.total = s.total /\ v.wire = s.wire /\ v.flight = s.flight
      /\ v.lost = s.lost /\ v.headHeld = s.headHeld
  BY <1>1, <1>3, <1>4 DEF ResponseState
<1> HIDE DEF v
<1>6. Holds(v) /\ (Spared(v) => Spared(s))
  BY <1>1, <1>5 DEF Holds, Spared
<1>7. Spared(v) => Prepared(v)
  <2> SUFFICES ASSUME Spared(v) PROVE Prepared(v)
    OBVIOUS
  <2>1. Prepared(s)
    BY <1>1, <1>6
  <2>2. /\ s.wire = <<>> /\ s.head = UpTo(HeadLen) /\ s.sentLength = 0
        /\ UpTo(HeadLen) \o s.source = UpTo(m) /\ s.contentLength = Len(s.source)
    BY <1>1, <2>1 DEF Prepared, Response!sendsLength
  <2>3. Len(q) = Len(s.source) + 1 /\ UpTo(HeadLen) \o q = UpTo(m + 1)
    BY <1>1, <2>2, OneMore DEF q
  <2>4. m + 1 = HeadLen + Len(q) /\ n = Len(q)
    <3>1. HeadLen \in Nat /\ Len(s.source) \in Nat
      BY <1>1 DEF ResponseAssumption
    <3> QED BY <2>2, <2>3, <3>1 DEF n
  <2> QED BY <1>5, <2>2, <2>3, <2>4 DEF Prepared, Response!sendsLength
<1>8. ResponseInv(v)
  BY <1>5, <1>6, <1>7 DEF ResponseInv
<1> QED BY <1>2, <1>8

LEMMA RespondsKeeps ==
  ASSUME ResponseAssumption, ResponseInv(response), Response!Respond
  PROVE  ResponseInv(response')
<1>1. /\ response.state = "setup"
      /\ response.kind = "print" => HeadLen + Len(response.source) = response.total
  BY DEF Response!Respond, Response!started
<1>2. \/ response' = Response!respond(response, "none")
      \/ \E f \in Response!Faults :
           response' = [Response!respond(response, f) EXCEPT !.faults = @ + 1]
  BY DEF Response!Respond, Response!Step
<1>3. \A f : ResponseInv(Response!respond(response, f))
  BY <1>1, RespondKeeps
<1> QED BY <1>2, <1>3, FaultKeeps

LEMMA PollKeeps ==
  ASSUME ResponseAssumption, ResponseInv(response), Response!Poll
  PROVE  ResponseInv(response')
<1>1. response.state # "setup" /\ Response!space(response) > 0
  BY DEF Response!Poll, Response!started, Response!canSend
<1>2. \/ response' = Response!ack(response, 0, "none")
      \/ \E f \in Response!Faults :
           response' = [Response!ack(response, 0, f) EXCEPT !.faults = @ + 1]
  BY DEF Response!Poll, Response!Step
<1>3. \A f : ResponseInv(Response!ack(response, 0, f))
  BY <1>1, AckKeeps
<1> QED BY <1>2, <1>3, FaultKeeps

LEMMA AckedKeeps ==
  ASSUME ResponseAssumption, ResponseInv(response), NEW n \in 1..response.flight,
         Response!Acked(n)
  PROVE  ResponseInv(response')
<1> DEFINE s == response
           left == s.flight - n
           acked == s.acked + n
           a == [s EXCEPT !.flight = left, !.acked = acked]
           d == [a EXCEPT !.busy = FALSE, !.acked = 0]
           next(f) == IF Response!started(d) /\ ~Response!finished(d)
                        THEN Response!ack(d, acked, f) ELSE d
<1>1. s \in ResponseState /\ Holds(s) /\ s.flight \in Nat /\ s.acked \in Nat
  BY DEF ResponseInv, Holds, ResponseState
<1>2. left \in Nat /\ acked \in Nat /\ left <= s.flight
  BY <1>1
<1>3. \/ response' = a
      \/ left <= 0 /\ response' = next("none")
      \/ left <= 0 /\ \E f \in Response!Faults : response' = [next(f) EXCEPT !.faults = @ + 1]
  <2>1. a.acked = acked /\ a.flight = left
    BY <1>1 DEF ResponseState
  <2> QED BY <1>2, <2>1 DEF Response!Acked, Response!Step
<1> HIDE DEF left, acked
<1>4. /\ a \in ResponseState /\ a.kind = s.kind /\ a.sndbuf = s.sndbuf /\ a.state = s.state
      /\ a.contentLength = s.contentLength /\ a.sentLength = s.sentLength /\ a.head = s.head
      /\ a.source = s.source /\ a.total = s.total /\ a.wire = s.wire /\ a.flight = left
      /\ a.lost = s.lost /\ a.headHeld = s.headHeld
  BY <1>1, <1>2 DEF ResponseState
<1> HIDE DEF a
<1>5. /\ d \in ResponseState /\ d.kind = s.kind /\ d.sndbuf = s.sndbuf /\ d.state = s.state
      /\ d.contentLength = s.contentLength /\ d.sentLength = s.sentLength /\ d.head = s.head
      /\ d.source = s.source /\ d.total = s.total /\ d.wire = s.wire /\ d.flight = left
      /\ d.lost = s.lost /\ d.headHeld = s.headHeld
  BY <1>1, <1>2, <1>4 DEF ResponseState
<1> HIDE DEF d
<1>6. ResponseInv(a) /\ ResponseInv(d)
  BY <1>2, <1>4, <1>5, SameResponse
<1>7. ASSUME left <= 0, NEW f PROVE ResponseInv(next(f))
  <2>1. Response!space(d) > 0
    <3>1. d.flight = 0 /\ d.sndbuf = s.sndbuf /\ s.sndbuf \in Nat /\ s.sndbuf > FrameHead + FrameTail
      BY <1>1, <1>2, <1>5, <1>7 DEF Holds, ResponseState
    <3>2. FrameHead \in Nat /\ FrameTail \in Nat
      BY DEF ResponseAssumption
    <3> QED BY <3>1, <3>2 DEF Response!space
  <2>2. CASE Response!started(d) /\ ~Response!finished(d)
    <3>1. d.state # "setup"
      BY <2>2 DEF Response!started
    <3> QED BY <1>2, <1>6, <2>1, <2>2, <3>1, AckKeeps
  <2>3. CASE ~(Response!started(d) /\ ~Response!finished(d))
    BY <1>6, <2>3
  <2> QED BY <2>2, <2>3
<1> HIDE DEF next
<1> QED BY <1>3, <1>6, <1>7, FaultKeeps

LEMMA TimeoutKeeps ==
  ASSUME ResponseInv(response), Response!Timeout
  PROVE  ResponseInv(response')
<1> DEFINE s == response
           e == [s EXCEPT !.busy = FALSE]
           v == [e EXCEPT !.closing = TRUE]
<1>1. s \in ResponseState /\ s.flight \in Nat
  BY DEF ResponseInv, Holds, ResponseState
<1>2. response' = v
  BY DEF Response!Timeout, Response!close
<1>3. /\ e \in ResponseState /\ e.kind = s.kind /\ e.sndbuf = s.sndbuf /\ e.state = s.state
      /\ e.contentLength = s.contentLength /\ e.sentLength = s.sentLength /\ e.head = s.head
      /\ e.source = s.source /\ e.total = s.total /\ e.wire = s.wire /\ e.flight = s.flight
      /\ e.lost = s.lost /\ e.headHeld = s.headHeld
  BY <1>1 DEF ResponseState
<1> HIDE DEF e
<1>4. /\ v \in ResponseState /\ v.kind = s.kind /\ v.sndbuf = s.sndbuf /\ v.state = s.state
      /\ v.contentLength = s.contentLength /\ v.sentLength = s.sentLength /\ v.head = s.head
      /\ v.source = s.source /\ v.total = s.total /\ v.wire = s.wire /\ v.flight = s.flight
      /\ v.lost = s.lost /\ v.headHeld = s.headHeld
  BY <1>3 DEF ResponseState
<1> HIDE DEF v
<1>5. s.flight <= s.flight
  BY <1>1
<1>6. ResponseInv(v)
  BY <1>4, <1>5, SameResponse
<1> QED BY <1>2, <1>6

LEMMA ResponseInitially ==
  ASSUME ResponseAssumption, Response!Init
  PROVE  ResponseInv(response)
<1> USE DEF ResponseAssumption
<1>1. PICK k \in Response!Kinds, n \in ContentLens, buf \in SndBufs, cont \in ContinueLens :
        response = Response!Response(k, n, buf, cont)
  BY DEF Response!Init
<1> DEFINE s == response
           h == [i \in 1..HeadLen |-> i]
           c == [i \in 1..n |-> HeadLen + i]
           source == IF k = "print" THEN <<>> ELSE c
           length == IF k \in {"basic", "length"} THEN n ELSE 0
<1>2. n \in Nat /\ buf \in Nat /\ cont \in Nat /\ buf > FrameHead + FrameTail /\ cont <= buf
      /\ HeadLen \in Nat
  BY <1>1
<1>3. h \in Seq(Int) /\ Len(h) = HeadLen /\ c \in Seq(Int) /\ Len(c) = n /\ <<>> \in Seq(Int)
      /\ Len(<<>>) = 0
  BY <1>2
<1> USE DEF ResponseAssumption
<1>4. source \in Seq(Int) /\ length \in Nat /\ HeadLen + n \in Nat
  BY <1>2, <1>3
<1> HIDE DEF source, length, h, c
<1>5. s = [kind |-> k, sndbuf |-> buf, state |-> "setup", contentLength |-> length,
           sentLength |-> 0, ackedLength |-> 0, writtenLength |-> 0, head |-> h,
           source |-> source, total |-> HeadLen + n, wire |-> <<>>, flight |-> cont,
           acked |-> 0, busy |-> cont > 0, closing |-> FALSE, faults |-> 0, lost |-> FALSE,
           headHeld |-> FALSE]
  BY <1>1 DEF Response!Response, source, length, h, c
<1> HIDE DEF s, ResponseAssumption
<1>6. /\ s \in ResponseState /\ s.kind = k /\ s.state = "setup" /\ s.contentLength = length
      /\ s.sentLength = 0 /\ s.head = h /\ s.source = source /\ s.total = HeadLen + n
      /\ s.wire = <<>> /\ s.flight = cont /\ s.sndbuf = buf
  BY <1>2, <1>3, <1>4, <1>5 DEF ResponseState
<1>7. Holds(s)
  BY <1>2, <1>6 DEF Holds
<1>8. h \o source = UpTo(HeadLen + Len(source)) /\ h = UpTo(HeadLen)
  <2>1. h = UpTo(HeadLen)
    BY DEF h, UpTo
  <2>2. CASE k = "print"
    <3>1. source = <<>> /\ h \o <<>> = h /\ HeadLen + Len(source) = HeadLen
      BY <1>2, <1>3, <2>2 DEF source
    <3> QED BY <2>1, <3>1
  <2>3. CASE k # "print"
    <3>1. source = c
      BY <2>3 DEF source
    <3> DEFINE y == UpTo(HeadLen + n)
    <3>2. y \in Seq(Int) /\ Len(y) = HeadLen + n /\ \A i \in 1..(HeadLen + n) : y[i] = i
      BY <1>2 DEF UpTo
    <3>3. /\ h \o c \in Seq(Int) /\ Len(h \o c) = Len(h) + Len(c)
          /\ \A i \in 1..(Len(h) + Len(c)) : (h \o c)[i] = IF i <= Len(h) THEN h[i] ELSE c[i - Len(h)]
      BY <1>3, ConcatProperties
    <3>4. (\A i \in 1..HeadLen : h[i] = i) /\ (\A i \in 1..n : c[i] = HeadLen + i)
      BY DEF h, c
    <3> HIDE DEF y
    <3>5. ASSUME NEW i \in 1..(HeadLen + n) PROVE (h \o c)[i] = y[i]
      <4>1. CASE i <= HeadLen
        <5>1. i \in 1..HeadLen /\ i \in 1..(Len(h) + Len(c))
          BY <1>2, <1>3, <4>1
        <5> QED BY <1>3, <3>2, <3>3, <3>4, <4>1, <5>1
      <4>2. CASE ~(i <= HeadLen)
        <5>1. i - HeadLen \in 1..n /\ i \in 1..(Len(h) + Len(c)) /\ HeadLen + (i - HeadLen) = i
          BY <1>2, <1>3, <4>2
        <5>2. (h \o c)[i] = c[i - HeadLen]
          BY <1>3, <3>3, <4>2, <5>1
        <5> QED BY <3>2, <3>4, <5>1, <5>2
      <4> QED BY <4>1, <4>2
    <3>6. h \o c = y
      BY <1>3, <3>2, <3>3, <3>5, SeqEqual
    <3> QED BY <1>3, <2>1, <3>1, <3>6 DEF y
  <2> QED BY <2>2, <2>3
<1>9. Len(source) = (IF k = "print" THEN 0 ELSE n)
  BY <1>3 DEF source
<1>10. length = (IF Response!sendsLength(s) THEN Len(source) ELSE 0)
  <2>1. k \in Response!Kinds /\ s.kind = k
    BY <1>1, <1>6
  <2> QED BY <1>9, <2>1 DEF length, Response!sendsLength, Response!Kinds
<1>11. Prepared(s)
  BY <1>6, <1>8, <1>9, <1>10 DEF Prepared
<1>12. ResponseInv(s)
  BY <1>6, <1>7, <1>11 DEF ResponseInv
<1> QED BY <1>12 DEF s

(* The peer has got a prefix of the response, and when nothing is left to  *)
(* write, all of it.                                                       *)
LEMMA InvariantMeans ==
  ASSUME ResponseAssumption, ResponseInv(response)
  PROVE  WholeResponse
<1> DEFINE s == response
           w == s.wire
           b == Response!bytesIn(w)
<1> SUFFICES ASSUME Spared(s)
             PROVE  /\ b = [i \in 1..Len(b) |-> i]
                    /\ s.state \in {"waitAck", "end"} => Len(b) = s.total
                    /\ Response!chunked(s) => \E n \in 0..Len(w) :
                                                Len(w) = Len(b) + n * (FrameHead + FrameTail)
  BY DEF WholeResponse, Response!WholeResponse, Response!Bytes, Spared
<1>1. s \in ResponseState /\ w \in Seq(Int) /\ s.total \in Nat /\ s.head \in Seq(Int)
      /\ s.source \in Seq(Int) /\ Len(w) \in Nat
  BY DEF ResponseInv, Holds, ResponseState
<1>2. FrameHead + FrameTail \in Nat /\ FrameHead + FrameTail > 0
  BY DEF ResponseAssumption
<1>3. CASE s.state = "setup"
  <2>1. w = <<>> /\ b = <<>>
    BY <1>3, BytesOfNothing DEF ResponseInv, Prepared
  <2>2. <<>> = [i \in 1..0 |-> i] /\ Len(<<>>) = 0 /\ 0 = 0 + 0 * (FrameHead + FrameTail) /\ 0 \in 0..0
    BY <1>2
  <2> QED BY <1>3, <2>1, <2>2
<1>4. CASE s.state # "setup"
  <2> DEFINE left == s.head \o s.source
             all == UpTo(s.total)
  <2>1. Sending(s)
    BY <1>4 DEF ResponseInv
  <2>2. b \o left = all /\ left \in Seq(Int) /\ b \in Seq(Int)
    BY <1>1, <2>1, BytesType DEF Sending, Given
  <2>3. s.state \in {"waitAck", "end"} => left = <<>>
    <3>1. <<>> \o <<>> = <<>>
      OBVIOUS
    <3> QED BY <2>1, <3>1 DEF Sending, Placed
  <2>4. all \in Seq(Int) /\ Len(all) = s.total /\ \A i \in 1..s.total : all[i] = i
    BY <1>1 DEF UpTo
  <2>5. Response!chunked(s) => \E n \in Nat : Len(w) - Len(b) = n * (FrameHead + FrameTail)
    BY <2>1 DEF Sending, Frames, frames
  <2> HIDE DEF left, all, b
  <2>6. Len(b) \in Nat /\ Len(all) = Len(b) + Len(left) /\ Len(left) \in Nat
        /\ \A i \in 1..Len(b) : all[i] = b[i]
    <3>1. /\ Len(b \o left) = Len(b) + Len(left) /\ Len(b) \in Nat /\ Len(left) \in Nat
          /\ \A i \in 1..(Len(b) + Len(left)) :
               (b \o left)[i] = IF i <= Len(b) THEN b[i] ELSE left[i - Len(b)]
      BY <2>2, ConcatProperties
    <3>2. \A i \in 1..Len(b) : i \in 1..(Len(b) + Len(left)) /\ i <= Len(b)
      BY <3>1
    <3> QED BY <2>2, <3>1, <3>2
  <2>7. b = [i \in 1..Len(b) |-> i]
    <3> DEFINE e == [i \in 1..Len(b) |-> i]
    <3>1. e \in Seq(Int) /\ Len(e) = Len(b) /\ \A i \in 1..Len(b) : e[i] = i
      BY <2>6
    <3>2. \A i \in 1..Len(b) : b[i] = i
      BY <1>1, <2>4, <2>6
    <3> HIDE DEF e
    <3>3. e = b
      BY <2>2, <3>1, <3>2, SeqEqual
    <3> QED BY <3>3 DEF e
  <2>8. s.state \in {"waitAck", "end"} => Len(b) = s.total
    BY <2>3, <2>4, <2>6
  <2>9. Response!chunked(s) => \E n \in 0..Len(w) : Len(w) = Len(b) + n * (FrameHead + FrameTail)
    <3> SUFFICES ASSUME Response!chunked(s)
                 PROVE  \E n \in 0..Len(w) : Len(w) = Len(b) + n * (FrameHead + FrameTail)
      OBVIOUS
    <3>1. PICK n \in Nat : Len(w) - Len(b) = n * (FrameHead + FrameTail)
      BY <2>5
    <3> DEFINE f == FrameHead + FrameTail
               m == Len(w)
               k == Len(b)
    <3>2. f \in Nat /\ f > 0 /\ m \in Nat /\ k \in Nat /\ m - k = n * f
      BY <1>1, <1>2, <2>6, <3>1
    <3> HIDE DEF f, m, k
    <3>3. n * f \in Nat /\ n <= n * f
      BY <3>2
    <3>4. n <= m /\ m = k + n * f
      BY <3>2, <3>3
    <3>5. n \in 0..m
      BY <3>2, <3>4
    <3> QED BY <3>4, <3>5 DEF f, m, k
  <2> QED BY <2>7, <2>8, <2>9 DEF b
<1> QED BY <1>3, <1>4

(* The head and the content still to be written follow what was written,   *)
(* and the counters say how much content that is: the inductive invariant  *)
(* of every response, of any length, in any buffer.                        *)
THEOREM ResponseInvariant == MCSpec => []ResponseInv(response)
<1>1. MCInit => ResponseInv(response)
  BY ResponseAssumption, ResponseInitially DEF MCInit
<1>2. ResponseInv(response) /\ [MCNext]_MCvars => ResponseInv(response)'
  <2> SUFFICES ASSUME ResponseInv(response), [MCNext]_MCvars
               PROVE  ResponseInv(response')
    BY DEF ResponseInv, Holds, Sending, Prepared, Placed, Spared, Given, Frames
  <2>1. CASE OfResponse(Response!Next)
    <3>1. CASE Response!AckedAny
      BY <3>1, ResponseAssumption, AckedKeeps DEF Response!AckedAny
    <3> QED BY <2>1, <3>1, ResponseAssumption, PrintedKeeps, RespondsKeeps, PollKeeps, TimeoutKeeps
            DEF OfResponse, Response!Next
  <2>2. CASE UNCHANGED response
    BY <2>2
  <2> QED BY <2>1, <2>2 DEF MCNext, MCvars, OfRequest, OfMultipart
<1> QED BY <1>1, <1>2, PTL DEF MCSpec

(* The peer gets the response in order, none of it missing or twice, and   *)
(* all of it, whatever the lengths of the head, the content and the send   *)
(* buffer, and wherever pieces end.                                        *)
THEOREM WholeResponseAlways == MCSpec => []WholeResponse
<1>1. ResponseInv(response) => WholeResponse
  BY ResponseAssumption, InvariantMeans
<1> QED BY <1>1, ResponseInvariant, PTL

-------------------------------------------------------------------------------
(* FlattenSeq, element by element of the sequence of sequences.            *)
IsFlat(ss, f) ==
  f = [i \in 1..Len(ss) |-> IF i = 1 THEN ss[i] ELSE f[i - 1] \o ss[i]]
FlatOf(ss) == CHOOSE f : IsFlat(ss, f)

IsFlatUpTo(ss, n, f) ==
  f = [i \in 1..n |-> IF i = 1 THEN ss[i] ELSE f[i - 1] \o ss[i]]

LEMMA FlatsAreDefined ==
  ASSUME NEW ss, NEW n \in Nat
  PROVE  \E f : IsFlatUpTo(ss, n, f)
<1> DEFINE T == {k \in Nat : \E f : IsFlatUpTo(ss, k, f)}
<1>1. 0 \in T
  <2> DEFINE f == [i \in 1..0 |-> <<>>]
  <2>1. IsFlatUpTo(ss, 0, f)
    BY DEF IsFlatUpTo
  <2> QED BY <2>1
<1>2. ASSUME NEW l \in Nat, l \in T PROVE l + 1 \in T
  <2>1. PICK t : IsFlatUpTo(ss, l, t)
    BY <1>2
  <2> DEFINE u == [i \in 1..(l + 1) |->
                     IF i = l + 1 THEN IF i = 1 THEN ss[i] ELSE t[l] \o ss[i] ELSE t[i]]
             v == [i \in 1..(l + 1) |-> IF i = 1 THEN ss[i] ELSE u[i - 1] \o ss[i]]
  <2>2. ASSUME NEW i \in 1..(l + 1) PROVE u[i] = v[i]
    <3>1. CASE i = l + 1
      <4>1. CASE i = 1
        BY <3>1, <4>1
      <4>2. CASE i # 1
        <5>1. i - 1 = l /\ l \in 1..(l + 1) /\ l # l + 1
          BY <3>1, <4>2
        <5>2. u[l] = t[l]
          BY <5>1
        <5> QED BY <3>1, <4>2, <5>1, <5>2
      <4> QED BY <4>1, <4>2
    <3>2. CASE i # l + 1
      <4>1. i \in 1..l
        BY <3>2
      <4>2. t[i] = IF i = 1 THEN ss[i] ELSE t[i - 1] \o ss[i]
        BY <2>1, <4>1 DEF IsFlatUpTo
      <4>3. i # 1 => i - 1 \in 1..(l + 1) /\ i - 1 # l + 1
        BY <4>1
      <4> QED BY <3>2, <4>2, <4>3
    <3> QED BY <3>1, <3>2
  <2>3. u = v
    BY <2>2
  <2>4. IsFlatUpTo(ss, l + 1, u)
    BY <2>3 DEF IsFlatUpTo
  <2> QED BY <2>4
<1>3. n \in T
  <2> HIDE DEF T
  <2> QED BY <1>1, <1>2, SetInduction
<1> QED BY <1>3

LEMMA FlattenIs ==
  ASSUME NEW T, NEW ss \in Seq(T)
  PROVE  /\ Len(ss) = 0 => FlattenSeq(ss) = ss
         /\ Len(ss) # 0 => FlattenSeq(ss) = FlatOf(ss)[Len(ss)]
         /\ IsFlat(ss, FlatOf(ss))
<1>1. PICK f : IsFlatUpTo(ss, Len(ss), f)
  <2>1. Len(ss) \in Nat
    OBVIOUS
  <2> QED BY <2>1, FlatsAreDefined
<1>2. IsFlat(ss, FlatOf(ss))
  <2>1. IsFlat(ss, f)
    BY <1>1 DEF IsFlat, IsFlatUpTo
  <2> QED BY <2>1 DEF FlatOf
<1>3. Len(ss) = 0 => FlattenSeq(ss) = ss
  BY DEF FlattenSeq
<1>4. Len(ss) # 0 => FlattenSeq(ss) = FlatOf(ss)[Len(ss)]
  BY DEF FlattenSeq, FlatOf, IsFlat
<1> QED BY <1>2, <1>3, <1>4

LEMMA FlatStep ==
  ASSUME NEW T, NEW ss \in Seq(T), NEW i \in 1..Len(ss)
  PROVE  FlatOf(ss)[i] = IF i = 1 THEN ss[i] ELSE FlatOf(ss)[i - 1] \o ss[i]
<1> DEFINE f == FlatOf(ss)
<1>1. IsFlat(ss, f)
  BY FlattenIs
<1> HIDE DEF f
<1>2. f[i] = IF i = 1 THEN ss[i] ELSE f[i - 1] \o ss[i]
  BY <1>1 DEF IsFlat
<1> QED BY <1>2 DEF f

(* What is flattened is a sequence, and one more sequence is put behind it.*)
LEMMA FlattenType ==
  ASSUME NEW T, NEW ss \in Seq(Seq(T))
  PROVE  FlattenSeq(ss) \in Seq(T) /\ \A n \in 1..Len(ss) : FlatOf(ss)[n] \in Seq(T)
<1> DEFINE f == FlatOf(ss)
           A == {n \in Nat : n + 1 <= Len(ss) => f[n + 1] \in Seq(T)}
<1>0. Len(ss) \in Nat
  OBVIOUS
<1>1. ASSUME NEW i \in 1..Len(ss)
      PROVE  f[i] = (IF i = 1 THEN ss[i] ELSE f[i - 1] \o ss[i]) /\ ss[i] \in Seq(T)
  <2>1. ss[i] \in Seq(T)
    OBVIOUS
  <2>2. FlatOf(ss)[i] = IF i = 1 THEN ss[i] ELSE FlatOf(ss)[i - 1] \o ss[i]
    BY FlatStep
  <2> QED BY <2>1, <2>2
<1> HIDE DEF f
<1>2. 0 \in A
  BY <1>1
<1>3. ASSUME NEW n \in Nat, n \in A PROVE n + 1 \in A
  <2> SUFFICES ASSUME n + 1 + 1 <= Len(ss) PROVE f[n + 1 + 1] \in Seq(T)
    OBVIOUS
  <2>1. n + 1 + 1 \in 1..Len(ss) /\ n + 1 + 1 # 1 /\ (n + 1 + 1) - 1 = n + 1 /\ n + 1 <= Len(ss)
    BY <1>0
  <2>2. f[n + 1] \in Seq(T)
    BY <1>3, <2>1
  <2> HIDE DEF A
  <2>3. f[n + 1 + 1] = f[n + 1] \o ss[n + 1 + 1] /\ ss[n + 1 + 1] \in Seq(T)
    BY <1>1, <2>1
  <2> QED BY <2>2, <2>3, ConcatProperties
<1>4. ASSUME NEW n \in 1..Len(ss) PROVE f[n] \in Seq(T)
  <2>1. n - 1 \in Nat /\ (n - 1) + 1 = n
    OBVIOUS
  <2>2. n - 1 \in A
    <3> HIDE DEF A
    <3> QED BY <1>2, <1>3, <2>1, SetInduction
  <2> QED BY <2>1, <2>2
<1>5. FlattenSeq(ss) \in Seq(T)
  <2>1. CASE Len(ss) = 0
    <3>1. FlattenSeq(ss) = ss /\ ss = <<>>
      BY <2>1, FlattenIs, EmptySeq
    <3> QED BY <3>1
  <2>2. CASE Len(ss) # 0
    BY <1>0, <1>4, <2>2, FlattenIs DEF f
  <2> QED BY <2>1, <2>2
<1> QED BY <1>4, <1>5 DEF f

LEMMA FlattenAppend ==
  ASSUME NEW T, NEW ss \in Seq(Seq(T)), NEW y \in Seq(T)
  PROVE  FlattenSeq(Append(ss, y)) = FlattenSeq(ss) \o y
<1> DEFINE tt == Append(ss, y)
           l == Len(ss)
           f == FlatOf(ss)
           g == FlatOf(tt)
<1>1. /\ tt \in Seq(Seq(T)) /\ Len(tt) = l + 1 /\ l \in Nat
      /\ \A i \in 1..l : tt[i] = ss[i]
      /\ tt[l + 1] = y
  BY AppendProperties
<1> HIDE DEF tt
<1>2. ASSUME NEW i \in 1..l PROVE f[i] = IF i = 1 THEN ss[i] ELSE f[i - 1] \o ss[i]
  BY FlatStep
<1>3. ASSUME NEW i \in 1..(l + 1) PROVE g[i] = IF i = 1 THEN tt[i] ELSE g[i - 1] \o tt[i]
  BY <1>1, FlatStep
<1>4. FlattenSeq(tt) = g[l + 1]
  BY <1>1, FlattenIs
<1>5. l # 0 => FlattenSeq(ss) = f[l]
  BY FlattenIs
<1> DEFINE A == {n \in Nat : n + 1 <= l => f[n + 1] = g[n + 1]}
<1> HIDE DEF f, g, l
<1>6. 0 \in A
  <2> SUFFICES ASSUME 0 + 1 <= l PROVE f[0 + 1] = g[0 + 1]
    OBVIOUS
  <2>1. 1 \in 1..l /\ 1 \in 1..(l + 1) /\ 0 + 1 = 1
    BY <1>1
  <2> QED BY <1>1, <1>2, <1>3, <2>1
<1>7. ASSUME NEW n \in Nat, n \in A PROVE n + 1 \in A
  <2> SUFFICES ASSUME n + 1 + 1 <= l PROVE f[n + 1 + 1] = g[n + 1 + 1]
    OBVIOUS
  <2>1. n + 1 + 1 \in 1..l /\ n + 1 + 1 \in 1..(l + 1) /\ n + 1 + 1 # 1
        /\ (n + 1 + 1) - 1 = n + 1 /\ n + 1 <= l
    BY <1>1
  <2>2. f[n + 1] = g[n + 1]
    BY <1>7, <2>1
  <2> HIDE DEF A
  <2>3. /\ f[n + 1 + 1] = f[n + 1] \o ss[n + 1 + 1]
        /\ g[n + 1 + 1] = g[n + 1] \o tt[n + 1 + 1]
    BY <1>2, <1>3, <2>1
  <2>4. tt[n + 1 + 1] = ss[n + 1 + 1]
    BY <1>1, <2>1
  <2> QED BY <2>2, <2>3, <2>4
<1>8. CASE l = 0
  <2>1. FlattenSeq(ss) = <<>>
    BY <1>8, FlattenIs, EmptySeq DEF l
  <2>2. g[1] = y
    BY <1>1, <1>3, <1>8
  <2>3. <<>> \o y = y
    BY ConcatEmptySeq
  <2> QED BY <1>4, <1>8, <2>1, <2>2, <2>3 DEF tt
<1>9. CASE l # 0
  <2>1. l - 1 \in Nat /\ (l - 1) + 1 = l /\ l + 1 \in 1..(l + 1) /\ l + 1 # 1 /\ (l + 1) - 1 = l
    <3>1. l \in Nat
      BY <1>1
    <3> QED BY <1>9, <3>1
  <2>2. l - 1 \in A
    <3> HIDE DEF A
    <3> QED BY <1>6, <1>7, <2>1, SetInduction
  <2>3. f[l] = g[l]
    BY <1>1, <2>1, <2>2
  <2>4. g[l + 1] = g[l] \o tt[l + 1]
    BY <1>3, <2>1
  <2> QED BY <1>1, <1>4, <1>5, <1>9, <2>3, <2>4 DEF tt
<1> QED BY <1>8, <1>9

-------------------------------------------------------------------------------
(* The tokens that clients send.                                           *)
Words == {"GET", "POST", "&", "length", "form", "text", "raw", "expect", "upgrade"}
Token == Words \cup {Blank, Rest, NewLine}
         \cup UNION {Range(q.body) \cup Range(q.excess) : q \in Requests}

(* The tokens of a request: three of each line, one of the empty line, and *)
(* the bytes.                                                              *)
HeadEnd(q) == 3 * Len(q.headers) + 4
Whole(q)   == HeadEnd(q) + Len(q.body)

IsStream(q, S) ==
  /\ S \in Seq(Token)
  /\ q.first = Blank => Len(S) >= 1 /\ S[1] = NewLine
  /\ q.first # Blank =>
       /\ Len(S) = Whole(q) + Len(q.excess)
       /\ S[1] = q.first /\ S[2] = Rest /\ S[3] = NewLine
       /\ \A j \in 1..Len(q.headers) :
            S[3 * j + 1] = q.headers[j] /\ S[3 * j + 2] = Rest /\ S[3 * j + 3] = NewLine
       /\ S[HeadEnd(q)] = NewLine
       /\ \A k \in 1..Len(q.body) : S[HeadEnd(q) + k] = q.body[k]

LEMMA RequestIs ==
  ASSUME NEW q \in Requests
  PROVE  /\ q.first \in {"GET", "POST", Blank}
         /\ q.headers \in Seq(Token) /\ q.body \in Seq(Token) /\ q.excess \in Seq(Token)
         /\ \A i \in 1..Len(q.headers) :
              q.headers[i] \in {"length", "form", "text", "raw", "expect", "upgrade"}
         /\ q.body # <<>> => \E i \in 1..Len(q.headers) : q.headers[i] = "length"
<1>1. /\ q.first \in {"GET", "POST", Blank}
      /\ q.headers \in Seq(Range(q.headers)) /\ q.body \in Seq(Range(q.body))
      /\ q.excess \in Seq(Range(q.excess))
      /\ Range(q.headers) \subseteq {"length", "form", "text", "raw", "expect", "upgrade"}
      /\ q.body # <<>> => "length" \in Range(q.headers)
  BY RequestsAssumption
<1>2. Range(q.body) \subseteq Token /\ Range(q.excess) \subseteq Token
  BY DEF Token
<1>3. {"length", "form", "text", "raw", "expect", "upgrade"} \subseteq Token
  BY DEF Token, Words
<1>4. q.headers \in Seq(Token) /\ q.body \in Seq(Token) /\ q.excess \in Seq(Token)
  BY <1>1, <1>2, <1>3, SeqMonotonic
<1>5. DOMAIN q.headers = 1..Len(q.headers)
  BY <1>1
<1>6. /\ \A i \in 1..Len(q.headers) : q.headers[i] \in Range(q.headers)
      /\ "length" \in Range(q.headers) => \E i \in 1..Len(q.headers) : q.headers[i] = "length"
  BY <1>5 DEF Range
<1> QED BY <1>1, <1>4, <1>6

LEMMA LineIs ==
  ASSUME NEW t \in Token, t # Blank
  PROVE  /\ line(t) \in Seq(Token) /\ Len(line(t)) = 3
         /\ line(t)[1] = t /\ line(t)[2] = Rest /\ line(t)[3] = NewLine
<1>1. line(t) = <<t, Rest, NewLine>>
  BY DEF line
<1>2. Rest \in Token /\ NewLine \in Token
  BY DEF Token
<1> QED BY <1>1, <1>2

LEMMA HeadersAre ==
  ASSUME NEW h \in Seq(Token), \A i \in 1..Len(h) : h[i] # Blank
  PROVE  LET F == FlattenSeq([i \in DOMAIN h |-> line(h[i])])
         IN  /\ F \in Seq(Token) /\ Len(F) = 3 * Len(h)
             /\ \A j \in 1..Len(h) :
                  F[3 * j - 2] = h[j] /\ F[3 * j - 1] = Rest /\ F[3 * j] = NewLine
<1> DEFINE ss == [i \in DOMAIN h |-> line(h[i])]
           f == FlatOf(ss)
           n == Len(h)
           G(k, x) == /\ x \in Seq(Token) /\ Len(x) = 3 * k
                      /\ \A j \in 1..k : x[3 * j - 2] = h[j] /\ x[3 * j - 1] = Rest
                                         /\ x[3 * j] = NewLine
           A == {k \in Nat : k + 1 <= n => G(k + 1, f[k + 1])}
<1>0. n \in Nat
  OBVIOUS
<1>1. ASSUME NEW i \in 1..n
      PROVE  /\ line(h[i]) \in Seq(Token) /\ Len(line(h[i])) = 3
             /\ line(h[i])[1] = h[i] /\ line(h[i])[2] = Rest /\ line(h[i])[3] = NewLine
  <2>1. h[i] \in Token /\ h[i] # Blank
    OBVIOUS
  <2> QED BY <2>1, LineIs
<1>2. ss \in Seq(Seq(Token)) /\ Len(ss) = n /\ \A i \in 1..n : ss[i] = line(h[i])
  <2>1. DOMAIN h = 1..n
    OBVIOUS
  <2> QED BY <1>0, <1>1, <2>1
<1> HIDE DEF ss
<1>3. ASSUME NEW i \in 1..n PROVE f[i] = IF i = 1 THEN line(h[i]) ELSE f[i - 1] \o line(h[i])
  <2>1. i \in 1..Len(ss) /\ ss \in Seq(Seq(Token)) /\ ss[i] = line(h[i])
    BY <1>2
  <2>2. f[i] = IF i = 1 THEN ss[i] ELSE f[i - 1] \o ss[i]
    <3> HIDE DEF n
    <3> QED BY <2>1, FlatStep
  <2> HIDE DEF f, n
  <2> QED BY <2>1, <2>2
<1> HIDE DEF f, n
<1>4. 0 \in A
  <2> SUFFICES ASSUME 0 + 1 <= n PROVE G(0 + 1, f[0 + 1])
    OBVIOUS
  <2>1. 1 \in 1..n
    BY <1>0
  <2>2. f[1] = line(h[1])
    BY <1>3, <2>1
  <2>3. G(1, f[1])
    BY <1>1, <2>1, <2>2
  <2> QED BY <2>3
<1>5. ASSUME NEW k \in Nat, k \in A PROVE k + 1 \in A
  <2> SUFFICES ASSUME k + 1 + 1 <= n PROVE G(k + 1 + 1, f[k + 1 + 1])
    OBVIOUS
  <2> DEFINE m == k + 1
             l == line(h[m + 1])
  <2>1. m \in Nat /\ m <= n /\ m + 1 \in 1..n /\ m + 1 # 1 /\ (m + 1) - 1 = m /\ m >= 1
    BY <1>0
  <2>2. G(m, f[m])
    BY <1>5, <2>1
  <2> HIDE DEF A
  <2>3. f[m + 1] = f[m] \o l
    BY <1>3, <2>1
  <2>4. l \in Seq(Token) /\ Len(l) = 3 /\ l[1] = h[m + 1] /\ l[2] = Rest /\ l[3] = NewLine
    BY <1>1, <2>1
  <2> HIDE DEF m, l
  <2> DEFINE x == f[m]
             y == x \o l
  <2>5. /\ y \in Seq(Token) /\ Len(y) = 3 * m + 3
        /\ \A i \in 1..(3 * m + 3) : y[i] = IF i <= 3 * m THEN x[i] ELSE l[i - 3 * m]
    <3>1. x \in Seq(Token) /\ Len(x) = 3 * m
      BY <2>2
    <3> HIDE DEF x, G
    <3>2. /\ y \in Seq(Token) /\ Len(y) = Len(x) + Len(l)
          /\ \A i \in 1..(Len(x) + Len(l)) : y[i] = IF i <= Len(x) THEN x[i] ELSE l[i - Len(x)]
      BY <2>4, <3>1, ConcatProperties
    <3> HIDE DEF y
    <3> QED BY <2>4, <3>1, <3>2
  <2>6. ASSUME NEW j \in 1..(m + 1)
        PROVE  y[3 * j - 2] = h[j] /\ y[3 * j - 1] = Rest /\ y[3 * j] = NewLine
    <3>1. CASE j <= m
      <4>1. j \in 1..m /\ 3 * j - 2 \in 1..(3 * m) /\ 3 * j - 1 \in 1..(3 * m) /\ 3 * j \in 1..(3 * m)
        BY <2>1, <3>1
      <4>2. x[3 * j - 2] = h[j] /\ x[3 * j - 1] = Rest /\ x[3 * j] = NewLine
        BY <2>2, <4>1
      <4> HIDE DEF x, y, G
      <4> QED BY <2>1, <2>5, <4>1, <4>2
    <3>2. CASE ~(j <= m)
      <4>1. j = m + 1
        BY <2>1, <3>2
      <4>2. /\ 3 * j - 2 = 3 * m + 1 /\ 3 * j - 1 = 3 * m + 2 /\ 3 * j = 3 * m + 3
        BY <2>1, <4>1
      <4> HIDE DEF x, y, G
      <4>3. y[3 * m + 1] = l[1] /\ y[3 * m + 2] = l[2] /\ y[3 * m + 3] = l[3]
        BY <2>1, <2>5
      <4> QED BY <2>4, <4>1, <4>2, <4>3
    <3> QED BY <3>1, <3>2
  <2>7. G(m + 1, y)
    <3>1. Len(y) = 3 * (m + 1)
      <4> HIDE DEF y, G
      <4> QED BY <2>1, <2>5
    <3> HIDE DEF x
    <3> HIDE DEF y
    <3> QED BY <2>5, <2>6, <3>1
  <2> HIDE DEF G
  <2> QED BY <2>3, <2>7 DEF m
<1>6. CASE n = 0
  <2>1. FlattenSeq(ss) = <<>>
    BY <1>2, <1>6, FlattenIs, EmptySeq
  <2>2. /\ <<>> \in Seq(Token) /\ Len(<<>>) = 3 * n
        /\ \A j \in 1..n : <<>>[3 * j - 2] = h[j] /\ <<>>[3 * j - 1] = Rest /\ <<>>[3 * j] = NewLine
    BY <1>6
  <2> QED BY <2>1, <2>2 DEF ss, n
<1>7. CASE n # 0
  <2>1. n - 1 \in Nat /\ (n - 1) + 1 = n
    BY <1>0, <1>7
  <2>2. n - 1 \in A
    <3> HIDE DEF A
    <3> QED BY <1>4, <1>5, <2>1, SetInduction
  <2>3. G(n, f[n])
    BY <1>0, <2>1, <2>2
  <2>4. FlattenSeq(ss) = f[n]
    BY <1>2, <1>7, FlattenIs DEF f
  <2> QED BY <2>3, <2>4 DEF ss, n
<1> QED BY <1>6, <1>7

(* A concatenation, and what is where in it.                               *)
LEMMA Concat ==
  ASSUME NEW a \in Seq(Token), NEW b \in Seq(Token)
  PROVE  /\ a \o b \in Seq(Token) /\ Len(a \o b) = Len(a) + Len(b)
         /\ Len(a) \in Nat /\ Len(b) \in Nat
         /\ \A i \in 1..Len(a) : (a \o b)[i] = a[i]
         /\ \A i \in 1..Len(b) : (a \o b)[Len(a) + i] = b[i]
<1>1. Len(a) \in Nat /\ Len(b) \in Nat
  OBVIOUS
<1>2. /\ a \o b \in Seq(Token) /\ Len(a \o b) = Len(a) + Len(b)
      /\ \A i \in 1..(Len(a) + Len(b)) : (a \o b)[i] = IF i <= Len(a) THEN a[i] ELSE b[i - Len(a)]
  BY ConcatProperties
<1> DEFINE c == a \o b
           m == Len(a)
           n == Len(b)
<1> HIDE DEF c, m, n
<1>3. m \in Nat /\ n \in Nat /\ \A i \in 1..(m + n) : c[i] = IF i <= m THEN a[i] ELSE b[i - m]
  BY <1>1, <1>2 DEF c, m, n
<1>4. ASSUME NEW i \in 1..m PROVE c[i] = a[i]
  BY <1>3
<1>5. ASSUME NEW i \in 1..n PROVE c[m + i] = b[i]
  <2>1. m + i \in 1..(m + n) /\ ~(m + i <= m) /\ (m + i) - m = i
    BY <1>3
  <2> QED BY <1>3, <2>1
<1> QED BY <1>1, <1>2, <1>4, <1>5 DEF c, m, n

LEMMA StreamIs ==
  ASSUME NEW q \in Requests
  PROVE  IsStream(q, stream(q))
<1> DEFINE h == q.headers
           f == line(q.first)
           F == FlattenSeq([i \in DOMAIN h |-> line(h[i])])
           e == line(Blank)
           x1 == f \o F
           x2 == x1 \o e
           x3 == x2 \o q.body
           S == x3 \o q.excess
           n == Len(h)
<1>1. /\ q.first \in {"GET", "POST", Blank}
      /\ h \in Seq(Token) /\ q.body \in Seq(Token) /\ q.excess \in Seq(Token)
      /\ \A i \in 1..Len(h) : h[i] # Blank /\ h[i] \in Token
  BY RequestIs DEF Token, Words, Blank
<1>2. F \in Seq(Token) /\ Len(F) = 3 * n /\ n \in Nat
      /\ \A j \in 1..n : F[3 * j - 2] = h[j] /\ F[3 * j - 1] = Rest /\ F[3 * j] = NewLine
  <2>1. n \in Nat
    BY <1>1
  <2> QED BY <1>1, <2>1, HeadersAre
<1>3. e \in Seq(Token) /\ Len(e) = 1 /\ e[1] = NewLine
  <2>1. NewLine \in Token
    BY DEF Token
  <2>2. e = <<NewLine>>
    BY DEF line
  <2> HIDE DEF e
  <2> QED BY <2>1, <2>2
<1>4. stream(q) = S
  BY DEF stream
<1> HIDE DEF F, e, f, n
<1>5. ASSUME q.first = Blank PROVE IsStream(q, S)
  <2>1. f = e
    BY <1>5 DEF f, e
  <2> HIDE DEF x1, x2, x3, S
  <2>2. x1 \in Seq(Token) /\ Len(x1) = 1 + 3 * n /\ x1[1] = NewLine
    <3>1. f \in Seq(Token) /\ Len(f) = 1 /\ f[1] = NewLine
      BY <1>3, <2>1
    <3>2. /\ x1 \in Seq(Token) /\ Len(x1) = Len(f) + Len(F)
          /\ \A i \in 1..Len(f) : x1[i] = f[i]
      BY <1>2, <3>1, Concat DEF x1
    <3> QED BY <1>2, <3>1, <3>2
  <2>3. x2 \in Seq(Token) /\ Len(x2) = 2 + 3 * n /\ x2[1] = NewLine
    <3>1. /\ x2 \in Seq(Token) /\ Len(x2) = Len(x1) + Len(e)
          /\ \A i \in 1..Len(x1) : x2[i] = x1[i]
      BY <1>3, <2>2, Concat DEF x2
    <3> QED BY <1>2, <1>3, <2>2, <3>1
  <2>4. x3 \in Seq(Token) /\ Len(x3) >= 1 /\ x3[1] = NewLine
    <3>1. x3 \in Seq(Token) /\ Len(x3) = Len(x2) + Len(q.body) /\ Len(q.body) \in Nat
          /\ \A i \in 1..Len(x2) : x3[i] = x2[i]
      BY <1>1, <2>3, Concat DEF x3
    <3>2. 1 \in 1..Len(x2) /\ Len(x2) \in Nat /\ Len(x2) >= 1
      BY <1>2, <2>3
    <3> DEFINE l == Len(x2)
               m == Len(q.body)
    <3>3. Len(x3) = l + m /\ l \in Nat /\ l >= 1 /\ m \in Nat
      BY <3>1, <3>2
    <3> HIDE DEF l, m
    <3>4. Len(x3) >= 1
      BY <3>3
    <3> QED BY <2>3, <3>1, <3>2, <3>4
  <2>5. S \in Seq(Token) /\ Len(S) >= 1 /\ S[1] = NewLine
    <3>1. S \in Seq(Token) /\ Len(S) = Len(x3) + Len(q.excess) /\ Len(q.excess) \in Nat
          /\ Len(x3) \in Nat /\ \A i \in 1..Len(x3) : S[i] = x3[i]
      BY <1>1, <2>4, Concat DEF S
    <3> QED BY <2>4, <3>1
  <2> QED BY <1>5, <2>5 DEF IsStream
<1>6. ASSUME q.first # Blank PROVE IsStream(q, S)
  <2>1. f \in Seq(Token) /\ Len(f) = 3 /\ f[1] = q.first /\ f[2] = Rest /\ f[3] = NewLine
    <3>1. q.first \in Token
      BY <1>1 DEF Token, Words
    <3> QED BY <1>6, <3>1, LineIs DEF f
  <2> HIDE DEF x1, x2, x3, S
  <2> DEFINE b == Len(q.body)
             k == Len(q.excess)
  <2>2. /\ x1 \in Seq(Token) /\ Len(x1) = 3 + 3 * n
        /\ x1[1] = q.first /\ x1[2] = Rest /\ x1[3] = NewLine
        /\ \A i \in 1..(3 * n) : x1[3 + i] = F[i]
    <3>1. /\ x1 \in Seq(Token) /\ Len(x1) = Len(f) + Len(F)
          /\ \A i \in 1..Len(f) : x1[i] = f[i]
          /\ \A i \in 1..Len(F) : x1[Len(f) + i] = F[i]
      BY <1>2, <2>1, Concat DEF x1
    <3>2. Len(x1) = 3 + 3 * n /\ 1 \in 1..Len(f) /\ 2 \in 1..Len(f) /\ 3 \in 1..Len(f)
      BY <1>2, <2>1, <3>1
    <3>3. x1[1] = f[1] /\ x1[2] = f[2] /\ x1[3] = f[3]
      BY <3>1, <3>2
    <3>4. \A i \in 1..(3 * n) : x1[3 + i] = F[i]
      BY <1>2, <2>1, <3>1
    <3> QED BY <2>1, <3>1, <3>2, <3>3, <3>4
  <2>3. /\ x2 \in Seq(Token) /\ Len(x2) = 4 + 3 * n /\ x2[4 + 3 * n] = NewLine
        /\ \A i \in 1..(3 + 3 * n) : x2[i] = x1[i]
    <3>1. /\ x2 \in Seq(Token) /\ Len(x2) = Len(x1) + Len(e)
          /\ \A i \in 1..Len(x1) : x2[i] = x1[i]
          /\ \A i \in 1..Len(e) : x2[Len(x1) + i] = e[i]
      BY <1>3, <2>2, Concat DEF x2
    <3>2. x2[(3 + 3 * n) + 1] = e[1] /\ (3 + 3 * n) + 1 = 4 + 3 * n
      BY <1>2, <1>3, <2>2, <3>1
    <3> QED BY <1>2, <1>3, <2>2, <3>1, <3>2
  <2>4. /\ x3 \in Seq(Token) /\ Len(x3) = 4 + 3 * n + b /\ b \in Nat
        /\ \A i \in 1..(4 + 3 * n) : x3[i] = x2[i]
        /\ \A i \in 1..b : x3[4 + 3 * n + i] = q.body[i]
    <3>1. /\ x3 \in Seq(Token) /\ Len(x3) = Len(x2) + b /\ b \in Nat
          /\ \A i \in 1..Len(x2) : x3[i] = x2[i]
          /\ \A i \in 1..b : x3[Len(x2) + i] = q.body[i]
      BY <1>1, <2>3, Concat DEF x3
    <3> QED BY <2>3, <3>1
  <2>5. /\ S \in Seq(Token) /\ Len(S) = 4 + 3 * n + b + k /\ k \in Nat
        /\ \A i \in 1..(4 + 3 * n + b) : S[i] = x3[i]
    <3>1. /\ S \in Seq(Token) /\ Len(S) = Len(x3) + k /\ k \in Nat
          /\ \A i \in 1..Len(x3) : S[i] = x3[i]
      BY <1>1, <2>4, Concat DEF S
    <3> QED BY <2>4, <3>1
  <2> HIDE DEF b, k
  <2>6. ASSUME NEW i \in 1..(3 + 3 * n) PROVE S[i] = x1[i]
    <3>1. i \in 1..(4 + 3 * n) /\ i \in 1..(4 + 3 * n + b)
      BY <1>2, <2>4
    <3> QED BY <2>3, <2>4, <2>5, <3>1
  <2>7. S[1] = q.first /\ S[2] = Rest /\ S[3] = NewLine
    <3>1. 1 \in 1..(3 + 3 * n) /\ 2 \in 1..(3 + 3 * n) /\ 3 \in 1..(3 + 3 * n)
      BY <1>2
    <3> QED BY <2>2, <2>6, <3>1
  <2>8. ASSUME NEW j \in 1..n
        PROVE  S[3 * j + 1] = h[j] /\ S[3 * j + 2] = Rest /\ S[3 * j + 3] = NewLine
    <3>1. /\ 3 * j - 2 \in 1..(3 * n) /\ 3 * j - 1 \in 1..(3 * n) /\ 3 * j \in 1..(3 * n)
          /\ 3 + (3 * j - 2) = 3 * j + 1 /\ 3 + (3 * j - 1) = 3 * j + 2 /\ 3 + 3 * j = 3 * j + 3
          /\ 3 * j + 1 \in 1..(3 + 3 * n) /\ 3 * j + 2 \in 1..(3 + 3 * n)
          /\ 3 * j + 3 \in 1..(3 + 3 * n)
      BY <1>2
    <3>2. x1[3 * j + 1] = F[3 * j - 2] /\ x1[3 * j + 2] = F[3 * j - 1] /\ x1[3 * j + 3] = F[3 * j]
      BY <2>2, <3>1
    <3>3. F[3 * j - 2] = h[j] /\ F[3 * j - 1] = Rest /\ F[3 * j] = NewLine
      BY <1>2
    <3> QED BY <2>6, <3>1, <3>2, <3>3
  <2>9. S[4 + 3 * n] = NewLine
    <3>1. 4 + 3 * n \in 1..(4 + 3 * n) /\ 4 + 3 * n \in 1..(4 + 3 * n + b)
      BY <1>2, <2>4
    <3> QED BY <2>3, <2>4, <2>5, <3>1
  <2>10. ASSUME NEW i \in 1..b PROVE S[4 + 3 * n + i] = q.body[i]
    <3>1. 4 + 3 * n + i \in 1..(4 + 3 * n + b)
      BY <1>2, <2>4
    <3> QED BY <2>4, <2>5, <3>1
  <2>11. HeadEnd(q) = 4 + 3 * n /\ Whole(q) = 4 + 3 * n + b /\ k = Len(q.excess)
    <3>1. HeadEnd(q) = 3 * n + 4 /\ Whole(q) = HeadEnd(q) + b /\ k = Len(q.excess)
      BY DEF HeadEnd, Whole, n, b, k
    <3> QED BY <1>2, <2>4, <3>1
  <2> QED BY <1>6, <2>5, <2>7, <2>8, <2>9, <2>10, <2>11 DEF IsStream, n, b
<1> QED BY <1>4, <1>5, <1>6

-------------------------------------------------------------------------------
(* A line of the stream begins behind position b and ends at p; from c on  *)
(* it has not been seen yet.                                               *)
IsLine(S, b, p) == S[p] = NewLine /\ \A k \in (b + 1)..(p - 1) : S[k] # NewLine

LEMMA PieceIs ==
  ASSUME NEW S \in Seq(Token), NEW c \in 0..Len(S), NEW e \in c..Len(S)
  PROVE  /\ SubSeq(S, c + 1, e) \in Seq(Token) /\ Len(SubSeq(S, c + 1, e)) = e - c
         /\ \A i \in 1..(e - c) : SubSeq(S, c + 1, e)[i] = S[c + i]
<1>1. c + 1 \in Int /\ e \in Int /\ Len(S) \in Nat /\ \A i \in (c + 1)..e : S[i] \in Token
  OBVIOUS
<1> DEFINE x == SubSeq(S, c + 1, e)
<1>2. /\ x \in Seq(Token)
      /\ Len(x) = IF c + 1 <= e THEN e - (c + 1) + 1 ELSE 0
      /\ \A i \in 1..(e - (c + 1) + 1) : x[i] = S[(c + 1) + i - 1]
  BY <1>1, SubSeqProperties
<1> HIDE DEF x
<1>3. Len(x) = e - c
  BY <1>1, <1>2
<1>4. ASSUME NEW i \in 1..(e - c) PROVE x[i] = S[c + i]
  <2>1. i \in 1..(e - (c + 1) + 1) /\ (c + 1) + i - 1 = c + i
    BY <1>1
  <2> QED BY <1>2, <2>1
<1> QED BY <1>2, <1>3, <1>4 DEF x

LEMMA Adjacent ==
  ASSUME NEW S \in Seq(Token), NEW b \in 0..Len(S), NEW c \in b..Len(S), NEW e \in c..Len(S)
  PROVE  SubSeq(S, b + 1, c) \o SubSeq(S, c + 1, e) = SubSeq(S, b + 1, e)
<1>1. b + 1 \in 1..(Len(S) + 1) /\ c \in ((b + 1) - 1)..Len(S) /\ e \in c..Len(S)
  OBVIOUS
<1> QED BY <1>1, ConcatAdjacentSubSeq

LEMMA PieceOfPiece ==
  ASSUME NEW S \in Seq(Token), NEW c \in 0..Len(S), NEW e \in c..Len(S),
         NEW m \in 0..(e - c), NEW n \in m..(e - c)
  PROVE  SubSeq(SubSeq(S, c + 1, e), m + 1, n) = SubSeq(S, c + m + 1, c + n)
<1> DEFINE x == SubSeq(S, c + 1, e)
           y == SubSeq(x, m + 1, n)
           z == SubSeq(S, c + m + 1, c + n)
<1>1. /\ x \in Seq(Token) /\ Len(x) = e - c
      /\ \A i \in 1..(e - c) : x[i] = S[c + i]
  BY PieceIs
<1> HIDE DEF x
<1>2. m \in 0..Len(x) /\ n \in m..Len(x)
  BY <1>1
<1>3. y \in Seq(Token) /\ Len(y) = n - m /\ \A i \in 1..(n - m) : y[i] = x[m + i]
  BY <1>1, <1>2, PieceIs
<1>4. c + m \in 0..Len(S) /\ c + n \in (c + m)..Len(S) /\ (c + n) - (c + m) = n - m
  OBVIOUS
<1>5. z \in Seq(Token) /\ Len(z) = n - m /\ \A i \in 1..(n - m) : z[i] = S[c + m + i]
  BY <1>4, PieceIs
<1> HIDE DEF y, z
<1>6. ASSUME NEW i \in 1..(n - m) PROVE y[i] = z[i]
  <2>1. m + i \in 1..(e - c) /\ c + (m + i) = c + m + i
    OBVIOUS
  <2> QED BY <1>1, <1>3, <1>5, <2>1
<1> QED BY <1>3, <1>5, <1>6, SeqEqual DEF y, z, x

(* What a turn makes of a piece that begins in a line.                     *)
LEMMA LineTurn ==
  ASSUME NEW S \in Seq(Token), NEW b \in 0..Len(S), NEW c \in b..Len(S),
         NEW e \in (c + 1)..Len(S), NEW p \in (c + 1)..(b + 3), IsLine(S, b, p)
  PROVE  LET unread == SubSeq(S, c + 1, e)
             temp == SubSeq(S, b + 1, c)
             first == CHOOSE i \in DOMAIN unread :
                        unread[i] = NewLine /\ \A j \in 1..i-1 : unread[j] # NewLine
         IN  /\ e < p => /\ NewLine \notin Range(unread)
                         /\ temp \o unread = SubSeq(S, b + 1, e)
             /\ p <= e => /\ NewLine \in Range(unread) /\ first = p - c
                          /\ temp \o SubSeq(unread, 1, first - 1) = SubSeq(S, b + 1, p - 1)
                          /\ SubSeq(unread, first + 1, Len(unread)) = SubSeq(S, p + 1, e)
<1> DEFINE unread == SubSeq(S, c + 1, e)
           temp == SubSeq(S, b + 1, c)
           P(i) == unread[i] = NewLine /\ \A j \in 1..i-1 : unread[j] # NewLine
           first == CHOOSE i \in DOMAIN unread : P(i)
<1>1. b \in Nat /\ c \in Nat /\ e \in Nat /\ p \in Nat /\ Len(S) \in Nat
  OBVIOUS
<1>2. unread \in Seq(Token) /\ Len(unread) = e - c /\ \A i \in 1..(e - c) : unread[i] = S[c + i]
  BY PieceIs
<1>3. DOMAIN unread = 1..(e - c)
  BY <1>2
<1>4. temp \o unread = SubSeq(S, b + 1, e)
  BY Adjacent
<1> HIDE DEF unread
<1>5. ASSUME NEW k \in (c + 1)..(p - 1) PROVE S[k] # NewLine
  <2>1. k \in (b + 1)..(p - 1)
    OBVIOUS
  <2> QED BY <2>1 DEF IsLine
<1>6. ASSUME e < p PROVE NewLine \notin Range(unread)
  <2>1. ASSUME NEW i \in 1..(e - c) PROVE unread[i] # NewLine
    <3>1. c + i \in (c + 1)..(p - 1)
      BY <1>6
    <3> QED BY <1>2, <1>5, <3>1
  <2> QED BY <1>3, <2>1 DEF Range
<1>7. ASSUME p <= e
      PROVE  /\ NewLine \in Range(unread) /\ first = p - c
             /\ temp \o SubSeq(unread, 1, first - 1) = SubSeq(S, b + 1, p - 1)
             /\ SubSeq(unread, first + 1, Len(unread)) = SubSeq(S, p + 1, e)
  <2> DEFINE m == p - c
  <2>1. m \in 1..(e - c) /\ c + m = p
    BY <1>7
  <2> HIDE DEF m
  <2>2. unread[m] = NewLine
    BY <1>2, <2>1 DEF IsLine
  <2>3. ASSUME NEW j \in 1..(m - 1) PROVE unread[j] # NewLine
    <3>1. j \in 1..(e - c) /\ c + j \in (c + 1)..(p - 1)
      BY <2>1
    <3> QED BY <1>2, <1>5, <3>1
  <2>4. m \in DOMAIN unread /\ P(m)
    BY <1>3, <2>1, <2>2, <2>3
  <2>5. first \in DOMAIN unread /\ P(first)
    <3> HIDE DEF P
    <3> QED BY <2>4
  <2>6. first = m
    <3>1. first \in 1..(e - c)
      BY <1>3, <2>5
    <3>2. unread[first] = NewLine /\ \A j \in 1..first-1 : unread[j] # NewLine
      BY <2>5
    <3> HIDE DEF first, P
    <3>3. ~(first < m)
      <4> SUFFICES ASSUME first < m PROVE FALSE
        OBVIOUS
      <4>1. first \in 1..(m - 1)
        BY <2>1, <3>1
      <4> QED BY <2>3, <3>2, <4>1
    <3>4. ~(m < first)
      <4> SUFFICES ASSUME m < first PROVE FALSE
        OBVIOUS
      <4>1. m \in 1..(first - 1)
        BY <2>1, <3>1
      <4> QED BY <2>2, <3>2, <4>1
    <3> QED BY <2>1, <3>1, <3>3, <3>4
  <2> HIDE DEF first, P
  <2>7. NewLine \in Range(unread)
    BY <2>2, <2>4 DEF Range
  <2>8. SubSeq(unread, 1, m - 1) = SubSeq(S, c + 1, p - 1)
    <3>1. 0 \in 0..(e - c) /\ m - 1 \in 0..(e - c) /\ c + 0 + 1 = c + 1 /\ c + (m - 1) = p - 1
          /\ 0 + 1 = 1
      BY <2>1
    <3>2. c \in 0..Len(S) /\ e \in c..Len(S)
      OBVIOUS
    <3>3. SubSeq(unread, 0 + 1, m - 1) = SubSeq(S, c + 0 + 1, c + (m - 1))
      BY <3>1, <3>2, PieceOfPiece DEF unread
    <3> QED BY <3>1, <3>3
  <2>9. SubSeq(unread, m + 1, Len(unread)) = SubSeq(S, p + 1, e)
    <3>1. m \in 0..(e - c) /\ e - c \in m..(e - c) /\ c + (e - c) = e
      BY <2>1
    <3>2. c \in 0..Len(S) /\ e \in c..Len(S)
      OBVIOUS
    <3>3. SubSeq(unread, m + 1, e - c) = SubSeq(S, c + m + 1, c + (e - c))
      BY <3>1, <3>2, PieceOfPiece DEF unread
    <3> QED BY <1>2, <2>1, <3>1, <3>3
  <2>10. temp \o SubSeq(S, c + 1, p - 1) = SubSeq(S, b + 1, p - 1)
    <3>1. p - 1 \in c..Len(S)
      BY <1>7
    <3> QED BY <3>1, Adjacent
  <2> QED BY <2>1, <2>6, <2>7, <2>8, <2>9, <2>10 DEF m
<1> QED BY <1>4, <1>6, <1>7 DEF unread, P

-------------------------------------------------------------------------------
(* The request object after the first c tokens of what the client sends.   *)
HandlerSet ==
  {CatchAll} \cup {attachHandler(x) : x \in [method : Token \cup {"none"}, upgrade : BOOLEAN]}

RequestState ==
  [open : BOOLEAN, closing : BOOLEAN, rxTimeout : BOOLEAN,
   parse : {"start", "headers", "body", "end", "fail"}, temp : Seq(Token),
   contentLength : Nat, parsedLength : Nat, contentType : {"none", "form", "text", "raw"},
   upgrade : BOOLEAN, expecting : BOOLEAN, plainPost : BOOLEAN, method : Token \cup {"none"},
   handler : HandlerSet, params : Seq(Seq(Token)), body : Seq(Token), aligned : BOOLEAN,
   handled : 0..2, continued : BOOLEAN, response : {"none", "sent", "gone"}]

(* Parameters, with the '&' that ended each of them.                       *)
Ended(ps)  == [i \in DOMAIN ps |-> Append(ps[i], "&")]
Joined(ps) == FlattenSeq(Ended(ps))

Fresh(s) ==
  /\ s.parsedLength = 0 /\ ~s.plainPost /\ s.params = <<>> /\ s.body = <<>>
  /\ s.aligned /\ s.handled = 0

(* What the handler was given when it is asked to handle the request.      *)
Handed(s) ==
  sent.body # <<>> /\ ~s.handler.trivial =>
    \/ s.contentType # "form" /\ s.body = sent.body /\ s.params = <<>>
    \/ s.contentType \in {"form", "text"} /\ s.body = <<>> /\ PartsOf(sent.body, s.params)

(* The parameters and the one that has begun are what has come of a body.  *)
NoAmpersand(ps) == \A i \in DOMAIN ps : "&" \notin Range(ps[i])
PartsTaken(s, bytes) ==
  /\ NoAmpersand(s.params) /\ "&" \notin Range(s.temp)
  /\ Joined(s.params) \o s.temp = bytes

(* The body up to position c.                                              *)
BodyUpTo(c) == SubSeq(stream(sent), HeadEnd(sent) + 1, c)

BodyTaken(s, c) ==
  /\ s.parsedLength = 0 => ~s.plainPost /\ s.params = <<>> /\ s.body = <<>> /\ s.temp = <<>>
  /\ ~s.plainPost => /\ s.body = BodyUpTo(c) /\ s.params = <<>>
                     /\ s.parsedLength > 0 => s.contentType # "form"
  /\ s.plainPost => /\ s.body = <<>> /\ s.contentType \in {"form", "text"}
                    /\ ~s.handler.trivial /\ s.parsedLength < s.contentLength
                         => PartsTaken(s, BodyUpTo(c))

AtStart(s, c) ==
  /\ s.parse = "start" /\ Fresh(s) /\ s.contentLength = 0
  /\ c \in 0..(IF sent.first = Blank THEN 0 ELSE 2) /\ s.temp = SubSeq(stream(sent), 1, c)
AnnouncedBy(i) ==
  IF \E j \in 1..i : sent.headers[j] = "length" THEN Len(sent.body) ELSE 0
AtHeader(s, c, i) ==
  /\ s.parse = "headers" /\ Fresh(s) /\ sent.first # Blank /\ s.contentLength = AnnouncedBy(i)
  /\ i \in 0..Len(sent.headers)
  /\ c \in (3 * i + 3)..(IF i < Len(sent.headers) THEN 3 * i + 5 ELSE 3 * i + 3)
  /\ s.temp = SubSeq(stream(sent), 3 * i + 4, c)
AtBody(s, c) ==
  /\ s.parse = "body" /\ s.handled = 0 /\ s.aligned /\ sent.first # Blank
  /\ s.contentLength = Len(sent.body) /\ s.contentLength > 0
  /\ c >= HeadEnd(sent) /\ s.parsedLength = c - HeadEnd(sent)
  /\ s.parsedLength # s.contentLength /\ BodyTaken(s, c)
AtEnd(s, c) ==
  /\ s.parse = "end" /\ s.handled = 1 /\ s.aligned /\ sent.first # Blank
  /\ c >= Whole(sent) /\ Handed(s)
AtFail(s) == s.parse = "fail" /\ s.handled = 0 /\ s.aligned /\ sent.first = Blank

StateAt(s, c) ==
  /\ s \in RequestState /\ c \in 0..Len(stream(sent))
  /\ \/ AtStart(s, c) \/ (\E i \in 0..Len(sent.headers) : AtHeader(s, c, i))
     \/ AtBody(s, c) \/ AtEnd(s, c) \/ AtFail(s)

(* Two objects that differ in nothing that is said of them above.          *)
Same(s, t) ==
  /\ t.temp = s.temp /\ t.contentLength = s.contentLength /\ t.parsedLength = s.parsedLength
  /\ t.contentType = s.contentType /\ t.plainPost = s.plainPost /\ t.handler = s.handler
  /\ t.params = s.params /\ t.body = s.body /\ t.aligned = s.aligned

LEMMA SendIs ==
  ASSUME NEW s \in RequestState
  PROVE  /\ send(s) \in RequestState /\ Same(s, send(s))
         /\ send(s).parse = s.parse /\ send(s).handled = s.handled
<1> DEFINE t == [s EXCEPT !.response = "sent", !.rxTimeout = FALSE]
<1>1. t \in RequestState
  BY DEF RequestState
<1>2. Same(s, t) /\ t.parse = s.parse /\ t.handled = s.handled
  BY DEF RequestState, Same
<1> QED BY <1>1, <1>2 DEF send

LEMMA HandleIs ==
  ASSUME NEW s \in RequestState, s.handled = 0, NEW reaction
  PROVE  LET h == handleRequest(s, reaction)
         IN  /\ h \in RequestState /\ Same(s, h) /\ h.parse = "end" /\ h.handled = 1
<1> DEFINE t == [s EXCEPT !.parse = "end", !.handled = IF @ = 2 THEN 2 ELSE @ + 1]
           u == [s EXCEPT !.parse = "end", !.handled = 1]
<1>1. t = u
  <2>1. s.handled = 0 /\ (IF s.handled = 2 THEN 2 ELSE s.handled + 1) = 1
    OBVIOUS
  <2> QED BY <2>1
<1>2. u \in RequestState
  <2> DEFINE v == [s EXCEPT !.parse = "end"]
  <2>1. v \in RequestState
    BY DEF RequestState
  <2>2. u = [v EXCEPT !.handled = 1]
    OBVIOUS
  <2> HIDE DEF v, u, t
  <2>3. 1 \in 0..2
    OBVIOUS
  <2> QED BY <2>1, <2>2, <2>3 DEF RequestState
<1>3. Same(s, u) /\ u.parse = "end" /\ u.handled = 1
  BY DEF RequestState, Same
<1>4. handleRequest(s, reaction) = (IF s.handler.trivial \/ reaction = "send" THEN send(t) ELSE t)
  BY DEF handleRequest
<1> HIDE DEF t, u
<1>5. CASE s.handler.trivial \/ reaction = "send"
  BY <1>1, <1>2, <1>3, <1>4, <1>5, SendIs DEF Same
<1>6. CASE ~(s.handler.trivial \/ reaction = "send")
  BY <1>1, <1>2, <1>3, <1>4, <1>6
<1> QED BY <1>5, <1>6

LEMMA AttachIs ==
  ASSUME NEW s \in RequestState
  PROVE  attachHandler(s) \in HandlerSet
<1> DEFINE x == [method |-> s.method, upgrade |-> s.upgrade]
<1>1. x \in [method : Token \cup {"none"}, upgrade : BOOLEAN]
  BY DEF RequestState
<1>2. x.method = s.method /\ x.upgrade = s.upgrade
  OBVIOUS
<1> HIDE DEF x
<1>3. \A h : canHandle(h, s) <=> canHandle(h, x)
  BY <1>2 DEF canHandle
<1> DEFINE able(y) == {i \in DOMAIN Handlers : canHandle(Handlers[i], y)}
           G(A) == IF A = {} THEN CatchAll
                   ELSE Handlers[CHOOSE i \in A : \A j \in A : i <= j]
<1>4. able(s) = able(x)
  BY <1>3
<1>5. attachHandler(s) = attachHandler(x)
  <2>1. attachHandler(s) = G(able(s)) /\ attachHandler(x) = G(able(x))
    BY DEF attachHandler
  <2> HIDE DEF able, G
  <2> QED BY <1>4, <2>1
<1> QED BY <1>1, <1>5 DEF HandlerSet

(* The object when the text of a line is in temp, and when it is taken.    *)
LEMMA TempIs ==
  ASSUME NEW s \in RequestState, NEW x \in Seq(Token)
  PROVE  LET t == [s EXCEPT !.temp = x]
         IN  /\ t \in RequestState /\ t.temp = x /\ t.parse = s.parse
             /\ [t EXCEPT !.temp = <<>>] = [s EXCEPT !.temp = <<>>]
             /\ Fresh(s) => Fresh(t)
             /\ t.contentLength = s.contentLength /\ t.parsedLength = s.parsedLength
             /\ t.contentType = s.contentType /\ t.plainPost = s.plainPost
             /\ t.handler = s.handler /\ t.params = s.params /\ t.body = s.body
             /\ t.aligned = s.aligned /\ t.handled = s.handled
<1> DEFINE t == [s EXCEPT !.temp = x]
<1>1. t \in RequestState
  BY DEF RequestState
<1>2. /\ t.temp = x /\ t.parse = s.parse
      /\ t.contentLength = s.contentLength /\ t.parsedLength = s.parsedLength
      /\ t.contentType = s.contentType /\ t.plainPost = s.plainPost
      /\ t.handler = s.handler /\ t.params = s.params /\ t.body = s.body
      /\ t.aligned = s.aligned /\ t.handled = s.handled
  BY DEF RequestState
<1>3. [t EXCEPT !.temp = <<>>] = [s EXCEPT !.temp = <<>>]
  OBVIOUS
<1> HIDE DEF t
<1>4. Fresh(s) => Fresh(t)
  BY <1>2 DEF Fresh
<1> QED BY <1>1, <1>2, <1>3, <1>4 DEF t

LEMMA NothingYet ==
  ASSUME NEW S, NEW c \in Nat
  PROVE  SubSeq(S, c + 1, c) = <<>>
<1>1. c + 1 \in Int /\ c \in Int /\ c < c + 1
  OBVIOUS
<1> QED BY <1>1, SubSeqEmpty

LEMMA StartParsed ==
  ASSUME sent \in Requests, NEW s \in RequestState, s.parse = "start", Fresh(s),
         s.contentLength = 0, NEW text \in Seq(Token), NEW reaction,
         sent.first = Blank => text = <<>>,
         sent.first # Blank => text # <<>> /\ text[1] = sent.first
  PROVE  LET u == parseLine([s EXCEPT !.temp = text], reaction)
         IN  /\ u \in RequestState
             /\ sent.first = Blank => AtFail(u)
             /\ sent.first # Blank => AtHeader(u, 3, 0)
<1> DEFINE q == [s EXCEPT !.temp = text]
           t == [s EXCEPT !.temp = <<>>]
           u == parseLine(q, reaction)
<1>1. q.temp = text /\ q.parse = "start" /\ [q EXCEPT !.temp = <<>>] = t
  BY TempIs
<1>2. t \in RequestState /\ t.temp = <<>> /\ Fresh(t) /\ t.contentLength = 0
  <2>1. <<>> \in Seq(Token)
    OBVIOUS
  <2> QED BY <2>1, TempIs
<1> HIDE DEF q, t
<1>3. CASE sent.first = Blank
  <2> DEFINE v == [t EXCEPT !.parse = "fail", !.closing = TRUE]
  <2>1. u = v
    BY <1>1, <1>3 DEF parseLine
  <2>2. v \in RequestState
    BY <1>2 DEF RequestState
  <2>3. v.parse = "fail" /\ v.handled = t.handled /\ v.aligned = t.aligned
    BY <1>2 DEF RequestState
  <2> HIDE DEF v, u
  <2>4. AtFail(u)
    BY <1>2, <1>3, <2>1, <2>3 DEF AtFail, Fresh
  <2> QED BY <1>3, <2>1, <2>2, <2>4 DEF u, q
<1>4. CASE sent.first # Blank
  <2> DEFINE v == [t EXCEPT !.method = sent.first, !.parse = "headers"]
  <2>0. sent.first \in Token
    BY RequestIs DEF Token, Words
  <2>1. u = v
    BY <1>1, <1>4 DEF parseLine, parseReqHead
  <2>2. v \in RequestState
    BY <1>2, <2>0 DEF RequestState
  <2>3. v.parse = "headers" /\ v.temp = <<>> /\ v.contentLength = 0 /\ v.parsedLength = t.parsedLength
        /\ v.plainPost = t.plainPost /\ v.params = t.params /\ v.body = t.body
        /\ v.aligned = t.aligned /\ v.handled = t.handled
    BY <1>2 DEF RequestState
  <2> HIDE DEF v, u
  <2>4. Fresh(u)
    BY <1>2, <2>1, <2>3 DEF Fresh
  <2>5. AnnouncedBy(0) = 0
    BY DEF AnnouncedBy
  <2>6. Len(sent.headers) \in Nat /\ SubSeq(stream(sent), 3 * 0 + 4, 3) = <<>>
    <3>1. 3 * 0 + 4 = 3 + 1 /\ SubSeq(stream(sent), 3 + 1, 3) = <<>>
      BY NothingYet
    <3>2. Len(sent.headers) \in Nat
      BY RequestIs
    <3> QED BY <3>1, <3>2
  <2>7. 0 \in 0..Len(sent.headers)
        /\ 3 \in (3 * 0 + 3)..(IF 0 < Len(sent.headers) THEN 3 * 0 + 5 ELSE 3 * 0 + 3)
    BY <2>6
  <2>8. AtHeader(u, 3, 0)
    BY <1>4, <2>1, <2>3, <2>4, <2>5, <2>6, <2>7 DEF AtHeader
  <2> QED BY <1>4, <2>1, <2>2, <2>8 DEF u, q
<1> QED BY <1>3, <1>4

LEMMA HeaderTaken ==
  ASSUME sent \in Requests, NEW t \in RequestState, Fresh(t), t.temp = <<>>,
         t.parse = "headers", NEW word \in {"length", "form", "text", "raw", "expect", "upgrade"}
  PROVE  LET v == parseReqHeader(t, word)
         IN  /\ v \in RequestState /\ Fresh(v) /\ v.temp = <<>> /\ v.parse = "headers"
             /\ v.contentLength = IF word = "length" THEN Len(sent.body) ELSE t.contentLength
<1> DEFINE v == parseReqHeader(t, word)
<1>0. Len(sent.body) \in Nat
  BY RequestIs
<1>1. CASE word = "length"
  <2> DEFINE x == [t EXCEPT !.contentLength = Len(sent.body)]
  <2>1. v = x
    BY <1>1 DEF parseReqHeader
  <2>2. x \in RequestState
    BY <1>0 DEF RequestState
  <2>3. x.contentLength = Len(sent.body) /\ x.temp = <<>> /\ x.parse = "headers" /\ Fresh(x)
    BY DEF RequestState, Fresh
  <2> HIDE DEF v, x
  <2> QED BY <1>1, <2>1, <2>2, <2>3 DEF v
<1>2. CASE word \in {"form", "text", "raw"}
  <2> DEFINE x == [t EXCEPT !.contentType = word]
  <2>1. v = x
    BY <1>2 DEF parseReqHeader
  <2>2. x \in RequestState
    BY <1>2 DEF RequestState
  <2>3. x.contentLength = t.contentLength /\ x.temp = <<>> /\ x.parse = "headers" /\ Fresh(x)
    BY DEF RequestState, Fresh
  <2> HIDE DEF v, x
  <2> QED BY <1>2, <2>1, <2>2, <2>3 DEF v
<1>3. CASE word = "expect"
  <2> DEFINE x == [t EXCEPT !.expecting = TRUE]
  <2>1. v = x
    BY <1>3 DEF parseReqHeader
  <2>2. x \in RequestState
    BY DEF RequestState
  <2>3. x.contentLength = t.contentLength /\ x.temp = <<>> /\ x.parse = "headers" /\ Fresh(x)
    BY DEF RequestState, Fresh
  <2> HIDE DEF v, x
  <2> QED BY <1>3, <2>1, <2>2, <2>3 DEF v
<1>4. CASE word = "upgrade"
  <2> DEFINE x == [t EXCEPT !.upgrade = TRUE]
  <2>1. v = x
    BY <1>4 DEF parseReqHeader
  <2>2. x \in RequestState
    BY DEF RequestState
  <2>3. x.contentLength = t.contentLength /\ x.temp = <<>> /\ x.parse = "headers" /\ Fresh(x)
    BY DEF RequestState, Fresh
  <2> HIDE DEF v, x
  <2> QED BY <1>4, <2>1, <2>2, <2>3 DEF v
<1> QED BY <1>1, <1>2, <1>3, <1>4

LEMMA HeaderParsed ==
  ASSUME sent \in Requests, sent.first # Blank,
         NEW s \in RequestState, s.parse = "headers", Fresh(s),
         NEW i \in 0..(Len(sent.headers) - 1), s.contentLength = AnnouncedBy(i),
         NEW text \in Seq(Token), text # <<>>, text[1] = sent.headers[i + 1], NEW reaction
  PROVE  LET u == parseLine([s EXCEPT !.temp = text], reaction)
         IN  u \in RequestState /\ AtHeader(u, 3 * (i + 1) + 3, i + 1)
<1> DEFINE q == [s EXCEPT !.temp = text]
           t == [s EXCEPT !.temp = <<>>]
           u == parseLine(q, reaction)
           word == sent.headers[i + 1]
           n == Len(sent.headers)
<1>1. q.temp = text /\ q.parse = "headers" /\ [q EXCEPT !.temp = <<>>] = t
  BY TempIs
<1>2. t \in RequestState /\ t.temp = <<>> /\ Fresh(t) /\ t.contentLength = s.contentLength
      /\ t.parse = "headers"
  <2>1. <<>> \in Seq(Token)
    OBVIOUS
  <2> QED BY <2>1, TempIs
<1>3. n \in Nat /\ Len(sent.body) \in Nat /\ i + 1 \in 1..n
      /\ word \in {"length", "form", "text", "raw", "expect", "upgrade"}
  <2>1. n \in Nat /\ Len(sent.body) \in Nat
    BY RequestIs
  <2>2. i + 1 \in 1..n
    BY <2>1
  <2> QED BY <2>1, <2>2, RequestIs
<1> HIDE DEF q, t
<1>4. u = parseReqHeader(t, word)
  BY <1>1 DEF parseLine
<1>5. /\ u \in RequestState /\ Fresh(u) /\ u.temp = <<>> /\ u.parse = "headers"
      /\ u.contentLength = IF word = "length" THEN Len(sent.body) ELSE t.contentLength
  BY <1>2, <1>3, <1>4, HeaderTaken
<1> HIDE DEF u
<1>6. u.contentLength = AnnouncedBy(i + 1)
  <2>1. \A j \in 1..(i + 1) : j \in 1..i \/ j = i + 1
    OBVIOUS
  <2>2. \A j \in 1..i : j \in 1..(i + 1)
    OBVIOUS
  <2> HIDE DEF n
  <2>3. i + 1 \in 1..(i + 1)
    OBVIOUS
  <2>4. CASE word = "length"
    BY <1>5, <2>3, <2>4 DEF AnnouncedBy
  <2>5. CASE word # "length"
    <3>1. (\E j \in 1..(i + 1) : sent.headers[j] = "length")
            <=> (\E j \in 1..i : sent.headers[j] = "length")
      BY <2>1, <2>2, <2>5
    <3> QED BY <1>2, <1>5, <2>5, <3>1 DEF AnnouncedBy
  <2> QED BY <2>4, <2>5
<1> DEFINE c == 3 * (i + 1) + 3
<1>7. SubSeq(stream(sent), 3 * (i + 1) + 4, c) = <<>>
  <2>1. c \in Nat /\ 3 * (i + 1) + 4 = c + 1
    OBVIOUS
  <2> HIDE DEF c
  <2> QED BY <2>1, NothingYet
<1>8. i + 1 \in 0..n /\ c \in c..(IF i + 1 < n THEN 3 * (i + 1) + 5 ELSE c)
  BY <1>3
<1>9. AtHeader(u, c, i + 1)
  BY <1>5, <1>6, <1>7, <1>8 DEF AtHeader
<1> QED BY <1>5, <1>9 DEF u, q

(* The headers announce the body.                                          *)
LEMMA Announced ==
  ASSUME sent \in Requests
  PROVE  AnnouncedBy(Len(sent.headers)) = Len(sent.body) /\ Len(sent.body) \in Nat
         /\ (sent.body = <<>> <=> Len(sent.body) = 0)
<1>1. sent.body \in Seq(Token)
  BY RequestIs
<1>2. sent.body = <<>> <=> Len(sent.body) = 0
  BY <1>1, EmptySeq
<1>3. sent.body # <<>> => \E j \in 1..Len(sent.headers) : sent.headers[j] = "length"
  BY RequestIs
<1>4. AnnouncedBy(Len(sent.headers)) = Len(sent.body)
  BY <1>2, <1>3 DEF AnnouncedBy
<1> QED BY <1>1, <1>2, <1>4

LEMMA HeadersEnded ==
  ASSUME sent \in Requests, sent.first # Blank,
         NEW s \in RequestState, s.parse = "headers", Fresh(s),
         s.contentLength = AnnouncedBy(Len(sent.headers)), NEW reaction
  PROVE  LET u == parseLine([s EXCEPT !.temp = <<>>], reaction)
         IN  u \in RequestState /\ (AtBody(u, HeadEnd(sent)) \/ AtEnd(u, HeadEnd(sent)))
<1> DEFINE t == [s EXCEPT !.temp = <<>>]
           u == parseLine(t, reaction)
           hd == HeadEnd(sent)
           a == [t EXCEPT !.handler = attachHandler(t), !.continued = t.expecting]
<1>1. t.parse = "headers" /\ [t EXCEPT !.temp = <<>>] = t
      /\ t \in RequestState /\ t.temp = <<>> /\ Fresh(t) /\ t.contentLength = s.contentLength
  <2>1. <<>> \in Seq(Token)
    OBVIOUS
  <2> QED BY <2>1, TempIs
<1>2. attachHandler(t) \in HandlerSet
  BY <1>1, AttachIs
<1>3. hd \in Nat /\ AnnouncedBy(Len(sent.headers)) = Len(sent.body) /\ Len(sent.body) \in Nat
      /\ (sent.body = <<>> <=> Len(sent.body) = 0) /\ Whole(sent) = hd + Len(sent.body)
  <2>1. Len(sent.headers) \in Nat
    BY RequestIs
  <2> QED BY <2>1, Announced DEF HeadEnd, Whole
<1>4. u = IF a.contentLength > 0 THEN [a EXCEPT !.parse = "body"] ELSE handleRequest(a, reaction)
  <2> HIDE DEF t
  <2>1. t.parse # "start"
    BY <1>1
  <2>2. u = endOfHeaders(t, reaction)
    BY <1>1, <2>1 DEF parseLine
  <2> QED BY <2>2 DEF endOfHeaders
<1>5. a \in RequestState
  <2> DEFINE x == [t EXCEPT !.handler = attachHandler(t)]
  <2>1. x \in RequestState
    BY <1>1, <1>2 DEF RequestState
  <2>2. a = [x EXCEPT !.continued = t.expecting]
    BY <1>1 DEF RequestState
  <2>3. t.expecting \in BOOLEAN
    BY <1>1 DEF RequestState
  <2> HIDE DEF x, a, t
  <2> QED BY <2>1, <2>2, <2>3 DEF RequestState
<1>6. /\ Fresh(a) /\ a.temp = <<>> /\ a.contentLength = Len(sent.body)
  <2>1. /\ a.temp = t.temp /\ a.contentLength = t.contentLength /\ a.parsedLength = t.parsedLength
        /\ a.plainPost = t.plainPost /\ a.params = t.params /\ a.body = t.body
        /\ a.aligned = t.aligned /\ a.handled = t.handled
    BY <1>1 DEF RequestState
  <2> HIDE DEF a, t
  <2> QED BY <1>1, <1>3, <2>1 DEF Fresh
<1> HIDE DEF a, t, u
<1>7. CASE a.contentLength > 0
  <2> DEFINE v == [a EXCEPT !.parse = "body"]
  <2>1. v \in RequestState
    BY <1>5 DEF RequestState
  <2>2. /\ v.parse = "body" /\ v.temp = a.temp /\ v.contentLength = a.contentLength
        /\ v.parsedLength = a.parsedLength
        /\ v.plainPost = a.plainPost /\ v.params = a.params /\ v.body = a.body
        /\ v.aligned = a.aligned /\ v.handled = a.handled
    BY <1>5 DEF RequestState
  <2>3. u = v
    BY <1>4, <1>7
  <2> HIDE DEF v
  <2>4. BodyUpTo(hd) = <<>>
    BY <1>3, NothingYet DEF BodyUpTo
  <2>5. BodyTaken(u, hd)
    BY <1>6, <2>2, <2>3, <2>4 DEF BodyTaken, Fresh
  <2>6. 0 = hd - hd /\ hd >= hd /\ 0 # a.contentLength
    BY <1>3, <1>6, <1>7
  <2>8. /\ u.parsedLength = 0 /\ u.contentLength = Len(sent.body) /\ u.handled = 0 /\ u.aligned
        /\ u.contentLength > 0 /\ u.parse = "body" /\ u.parsedLength # u.contentLength
    BY <1>6, <1>7, <2>2, <2>3, <2>6 DEF Fresh
  <2> HIDE DEF hd
  <2>7. AtBody(u, hd)
    BY <2>5, <2>6, <2>8 DEF AtBody, hd
  <2> QED BY <2>1, <2>3, <2>7 DEF u, t, hd
<1>8. CASE ~(a.contentLength > 0)
  <2>1. u = handleRequest(a, reaction)
    BY <1>4, <1>8
  <2>2. u \in RequestState /\ Same(a, u) /\ u.parse = "end" /\ u.handled = 1
    BY <1>5, <1>6, <2>1, HandleIs DEF Fresh
  <2>3. sent.body = <<>> /\ hd >= Whole(sent)
    BY <1>3, <1>6, <1>8
  <2>4. Handed(u)
    BY <2>3 DEF Handed
  <2>5. AtEnd(u, hd)
    BY <1>6, <2>2, <2>3, <2>4 DEF AtEnd, Same, Fresh
  <2> QED BY <2>2, <2>5 DEF u, t
<1> QED BY <1>7, <1>8

-------------------------------------------------------------------------------
(* A turn of _onData in a line that begins behind b and ends at p.         *)
InLine(s, S, b, e, p, reaction, x) ==
  /\ e < p => x.s = [s EXCEPT !.temp = SubSeq(S, b + 1, e)] /\ x.rest = <<>>
  /\ p <= e => /\ x.s = parseLine([s EXCEPT !.temp = SubSeq(S, b + 1, p - 1)], reaction)
               /\ x.rest = SubSeq(S, p + 1, e)

InPiece(s, S, b, c, e, p, unread) ==
  /\ S \in Seq(Token) /\ b \in 0..Len(S) /\ c \in b..Len(S)
  /\ e \in (c + 1)..Len(S) /\ p \in (c + 1)..(b + 3) /\ IsLine(S, b, p)
  /\ s.parse \in {"start", "headers"} /\ s.temp = SubSeq(S, b + 1, c)
  /\ unread = SubSeq(S, c + 1, e)

LEMMA TurnInLine ==
  ASSUME NEW s, NEW S, NEW b, NEW c, NEW e, NEW p, NEW unread, InPiece(s, S, b, c, e, p, unread),
         NEW reaction
  PROVE  InLine(s, S, b, e, p, reaction, onDataTurn([s |-> s, rest |-> unread], reaction))
<1>a. /\ S \in Seq(Token) /\ b \in 0..Len(S) /\ c \in b..Len(S)
      /\ e \in (c + 1)..Len(S) /\ p \in (c + 1)..(b + 3) /\ IsLine(S, b, p)
      /\ s.parse \in {"start", "headers"} /\ s.temp = SubSeq(S, b + 1, c)
      /\ unread = SubSeq(S, c + 1, e)
  BY DEF InPiece
<1> DEFINE first == CHOOSE i \in DOMAIN unread :
                      unread[i] = NewLine /\ \A j \in 1..i-1 : unread[j] # NewLine
           x == onDataTurn([s |-> s, rest |-> unread], reaction)
<1> DEFINE temp == SubSeq(S, b + 1, c)
<1>1. /\ e < p => /\ NewLine \notin Range(unread)
                  /\ temp \o unread = SubSeq(S, b + 1, e)
      /\ p <= e => /\ NewLine \in Range(unread) /\ first = p - c
                   /\ temp \o SubSeq(unread, 1, first - 1) = SubSeq(S, b + 1, p - 1)
                   /\ SubSeq(unread, first + 1, Len(unread)) = SubSeq(S, p + 1, e)
  <2> DEFINE y == SubSeq(S, c + 1, e)
             f == CHOOSE i \in DOMAIN y : y[i] = NewLine /\ \A j \in 1..i-1 : y[j] # NewLine
  <2>1. /\ e < p => /\ NewLine \notin Range(y)
                    /\ temp \o y = SubSeq(S, b + 1, e)
        /\ p <= e => /\ NewLine \in Range(y) /\ f = p - c
                     /\ temp \o SubSeq(y, 1, f - 1) = SubSeq(S, b + 1, p - 1)
                     /\ SubSeq(y, f + 1, Len(y)) = SubSeq(S, p + 1, e)
    BY <1>a, LineTurn
  <2>2. unread = y
    BY <1>a
  <2> HIDE DEF y
  <2> QED BY <2>1, <2>2
<1>0. s.temp = temp
  BY <1>a
<1> HIDE DEF temp
<1>2. NewLine \notin Range(unread) => x = [s |-> [s EXCEPT !.temp = s.temp \o unread], rest |-> <<>>]
  BY <1>a DEF onDataTurn
<1>3. NewLine \in Range(unread) =>
        x = [s    |-> parseLine([s EXCEPT !.temp = s.temp \o SubSeq(unread, 1, first - 1)], reaction),
             rest |-> SubSeq(unread, first + 1, Len(unread))]
  BY <1>a DEF onDataTurn
<1> HIDE DEF x, first
<1>4. ASSUME e < p PROVE x.s = [s EXCEPT !.temp = SubSeq(S, b + 1, e)] /\ x.rest = <<>>
  <2>1. x = [s |-> [s EXCEPT !.temp = SubSeq(S, b + 1, e)], rest |-> <<>>]
    BY <1>0, <1>1, <1>2, <1>4
  <2> QED BY <2>1
<1>5. ASSUME p <= e
      PROVE  /\ x.s = parseLine([s EXCEPT !.temp = SubSeq(S, b + 1, p - 1)], reaction)
             /\ x.rest = SubSeq(S, p + 1, e)
  <2>1. x = [s    |-> parseLine([s EXCEPT !.temp = SubSeq(S, b + 1, p - 1)], reaction),
             rest |-> SubSeq(S, p + 1, e)]
    BY <1>0, <1>1, <1>3, <1>5
  <2> QED BY <2>1
<1> QED BY <1>4, <1>5 DEF x, InLine

(* Where the piece that is left begins, and the object there.              *)
TurnedTo(x, c, e) ==
  \E d \in (c + 1)..e : StateAt(x.s, d) /\ x.rest = SubSeq(stream(sent), d + 1, e)

LEMMA TurnToEnd ==
  ASSUME NEW c \in Nat, NEW e \in Nat, c < e, NEW x, StateAt(x.s, e), x.rest = <<>>
  PROVE  TurnedTo(x, c, e)
<1>1. e \in (c + 1)..e /\ SubSeq(stream(sent), e + 1, e) = <<>>
  BY NothingYet
<1> QED BY <1>1 DEF TurnedTo

LEMMA StartTurn ==
  ASSUME sent \in Requests, NEW c \in Nat, NEW e \in (c + 1)..Len(stream(sent)),
         NEW s \in RequestState, AtStart(s, c), NEW reaction
  PROVE  TurnedTo(onDataTurn([s |-> s, rest |-> SubSeq(stream(sent), c + 1, e)], reaction), c, e)
<1> DEFINE S == stream(sent)
           x == onDataTurn([s |-> s, rest |-> SubSeq(S, c + 1, e)], reaction)
<1>1. IsStream(sent, S)
  BY StreamIs
<1>2. /\ s.parse = "start" /\ Fresh(s) /\ s.contentLength = 0
      /\ c \in 0..(IF sent.first = Blank THEN 0 ELSE 2) /\ s.temp = SubSeq(S, 1, c)
  BY DEF AtStart
<1> HIDE DEF S
<1>3. S \in Seq(Token) /\ Len(S) \in Nat
  BY <1>1 DEF IsStream
<1>4. 0 + 1 = 1 /\ 0 \in 0..Len(S) /\ c \in 0..Len(S) /\ e \in (c + 1)..Len(S) /\ e \in Nat
  BY <1>3 DEF S
<1>5. CASE sent.first = Blank
  <2>1. c = 0
    BY <1>2, <1>5
  <2>2. IsLine(S, 0, 1)
    BY <1>1, <1>5 DEF IsStream, IsLine
  <2>3. 1 \in (c + 1)..(0 + 3) /\ 1 <= e /\ 1 - 1 = 0 /\ 1 + 1 = 2
    BY <1>4, <2>1
  <2>4. x.s = parseLine([s EXCEPT !.temp = SubSeq(S, 0 + 1, 1 - 1)], reaction)
        /\ x.rest = SubSeq(S, 1 + 1, e)
    <3>1. s.parse \in {"start", "headers"} /\ s.temp = SubSeq(S, 0 + 1, c)
      BY <1>2, <1>4
    <3> DEFINE y == SubSeq(S, c + 1, e)
    <3>3. y = SubSeq(S, c + 1, e) /\ S \in Seq(Token) /\ 0 \in 0..Len(S) /\ c \in 0..Len(S)
          /\ e \in (c + 1)..Len(S)
      BY <1>3, <1>4
    <3> HIDE DEF y
    <3>4. InLine(s, S, 0, e, 1, reaction, onDataTurn([s |-> s, rest |-> y], reaction))
      BY <2>2, <2>3, <3>1, <3>3, TurnInLine DEF InPiece
    <3>2. InLine(s, S, 0, e, 1, reaction, x)
      BY <3>4 DEF y
    <3> HIDE DEF x
    <3> QED BY <2>3, <3>2 DEF InLine
  <2>5. SubSeq(S, 0 + 1, 1 - 1) = <<>> /\ <<>> \in Seq(Token)
    BY <2>3, NothingYet
  <2> HIDE DEF x
  <2>6. x.s \in RequestState /\ AtFail(x.s)
    BY <1>2, <1>5, <2>4, <2>5, StartParsed
  <2>7. 1 \in 0..Len(S) /\ 1 \in (c + 1)..e
    BY <1>4, <2>1, <2>3
  <2>8. StateAt(x.s, 1)
    BY <2>6, <2>7 DEF StateAt, S
  <2> QED BY <2>4, <2>7, <2>8 DEF TurnedTo, S, x
<1>6. CASE sent.first # Blank
  <2>1. c \in 0..2
    BY <1>2, <1>6
  <2>2. sent.first \in {"GET", "POST"} /\ S[1] = sent.first /\ S[2] = Rest /\ S[3] = NewLine
        /\ Len(S) = Whole(sent) + Len(sent.excess)
    BY <1>1, <1>6, RequestIs DEF IsStream
  <2>3. IsLine(S, 0, 3)
    <3> SUFFICES ASSUME NEW k \in (0 + 1)..(3 - 1) PROVE S[k] # NewLine
      BY <2>2 DEF IsLine
    <3>1. k = 1 \/ k = 2
      OBVIOUS
    <3>2. "GET" # NewLine /\ "POST" # NewLine /\ Rest # NewLine
      BY DEF NewLine, Rest
    <3> QED BY <2>2, <3>1, <3>2
  <2>4. 3 \in (c + 1)..(0 + 3) /\ 3 - 1 = 2 /\ 3 + 1 = 4
    BY <2>1
  <2>5. /\ e < 3 => x.s = [s EXCEPT !.temp = SubSeq(S, 0 + 1, e)] /\ x.rest = <<>>
        /\ 3 <= e => /\ x.s = parseLine([s EXCEPT !.temp = SubSeq(S, 0 + 1, 3 - 1)], reaction)
                     /\ x.rest = SubSeq(S, 3 + 1, e)
    <3>1. s.parse \in {"start", "headers"} /\ s.temp = SubSeq(S, 0 + 1, c)
      BY <1>2, <1>4
    <3> DEFINE y == SubSeq(S, c + 1, e)
    <3>3. y = SubSeq(S, c + 1, e) /\ S \in Seq(Token) /\ 0 \in 0..Len(S) /\ c \in 0..Len(S)
          /\ e \in (c + 1)..Len(S)
      BY <1>3, <1>4
    <3> HIDE DEF y
    <3>4. InLine(s, S, 0, e, 3, reaction, onDataTurn([s |-> s, rest |-> y], reaction))
      BY <2>3, <2>4, <3>1, <3>3, TurnInLine DEF InPiece
    <3>2. InLine(s, S, 0, e, 3, reaction, x)
      BY <3>4 DEF y
    <3> HIDE DEF x
    <3> QED BY <3>2 DEF InLine
  <2> HIDE DEF x
  <2>6. ASSUME NEW m \in 0..Len(S)
        PROVE  SubSeq(S, 0 + 1, m) \in Seq(Token) /\ Len(SubSeq(S, 0 + 1, m)) = m
               /\ \A i \in 1..m : SubSeq(S, 0 + 1, m)[i] = S[i]
    <3>1. 0 \in 0..Len(S) /\ m \in 0..Len(S) /\ m - 0 = m
      BY <1>4
    <3>2. SubSeq(S, 0 + 1, m) \in Seq(Token) /\ Len(SubSeq(S, 0 + 1, m)) = m - 0
          /\ \A i \in 1..(m - 0) : SubSeq(S, 0 + 1, m)[i] = S[0 + i]
      BY <1>3, <3>1, PieceIs
    <3> QED BY <3>1, <3>2
  <2>7. CASE e < 3
    <3>1. e \in 0..Len(S) /\ e \in 0..2
      BY <1>3, <1>4, <2>7
    <3> DEFINE y == SubSeq(S, 0 + 1, e)
    <3>2. y \in Seq(Token)
      BY <2>6, <3>1
    <3> HIDE DEF y
    <3>3. /\ x.s \in RequestState /\ x.s.temp = y /\ x.s.parse = "start" /\ Fresh(x.s)
          /\ x.s.contentLength = 0
      <4>1. x.s = [s EXCEPT !.temp = y]
        BY <2>5, <2>7 DEF y
      <4> DEFINE z == [s EXCEPT !.temp = y]
      <4>2. /\ z \in RequestState /\ z.temp = y /\ z.parse = s.parse /\ (Fresh(s) => Fresh(z))
            /\ z.contentLength = s.contentLength
        BY <3>2, TempIs
      <4> HIDE DEF z
      <4> QED BY <1>2, <4>1, <4>2 DEF z
    <3>4. AtStart(x.s, e)
      BY <1>6, <3>1, <3>3 DEF AtStart, y, S
    <3>5. StateAt(x.s, e)
      BY <3>1, <3>3, <3>4 DEF StateAt, S
    <3>6. x.rest = <<>> /\ c \in Nat /\ e \in Nat /\ c < e
      BY <1>4, <2>5, <2>7
    <3>7. TurnedTo(x, c, e)
      BY <3>5, <3>6, TurnToEnd
    <3> QED BY <3>7 DEF x, S
  <2>8. CASE 3 <= e
    <3> DEFINE y == SubSeq(S, 0 + 1, 2)
    <3>1. 2 \in 0..Len(S)
      BY <1>4, <2>8
    <3>2. y \in Seq(Token) /\ Len(y) = 2 /\ y[1] = S[1]
      BY <2>6, <3>1
    <3> HIDE DEF y
    <3>3. y # <<>> /\ y[1] = sent.first
      <4>1. y # <<>>
        BY <3>2, SMTT(20)
      <4> QED BY <2>2, <3>2, <4>1
    <3>4. x.s = parseLine([s EXCEPT !.temp = y], reaction)
      BY <2>4, <2>5, <2>8 DEF y
    <3>5. x.s \in RequestState /\ AtHeader(x.s, 3, 0)
      BY <1>2, <1>6, <3>2, <3>3, <3>4, StartParsed
    <3>6. 0 \in 0..Len(sent.headers) /\ 3 \in 0..Len(S) /\ 3 \in (c + 1)..e
      <4>1. Len(sent.headers) \in Nat
        BY RequestIs
      <4> QED BY <1>4, <2>1, <2>8, <4>1
    <3>7. StateAt(x.s, 3)
      BY <3>5, <3>6 DEF StateAt, S
    <3> QED BY <2>5, <2>8, <3>6, <3>7 DEF TurnedTo, S, x
  <2> QED BY <1>4, <2>7, <2>8
<1> QED BY <1>5, <1>6

LEMMA HeaderTurn ==
  ASSUME sent \in Requests, NEW c \in Nat, NEW e \in (c + 1)..Len(stream(sent)),
         NEW s \in RequestState, NEW i, AtHeader(s, c, i), NEW reaction
  PROVE  TurnedTo(onDataTurn([s |-> s, rest |-> SubSeq(stream(sent), c + 1, e)], reaction), c, e)
<1> DEFINE S == stream(sent)
           n == Len(sent.headers)
           b == 3 * i + 3
           unread == SubSeq(S, c + 1, e)
           x == onDataTurn([s |-> s, rest |-> unread], reaction)
<1>1. IsStream(sent, S)
  BY StreamIs
<1>2. /\ s.parse = "headers" /\ Fresh(s) /\ s.contentLength = AnnouncedBy(i) /\ sent.first # Blank
      /\ i \in 0..n /\ c \in b..(IF i < n THEN 3 * i + 5 ELSE b)
      /\ s.temp = SubSeq(S, 3 * i + 4, c)
  BY DEF AtHeader
<1> HIDE DEF S
<1>3. S \in Seq(Token) /\ Len(S) \in Nat
  BY <1>1 DEF IsStream
<1>4. n \in Nat /\ HeadEnd(sent) = 3 * n + 4
  <2>1. n \in Nat
    BY RequestIs
  <2> QED BY <2>1 DEF HeadEnd
<1> HIDE DEF n
<1>5. /\ b \in Nat /\ b + 1 = 3 * i + 4 /\ b \in 0..Len(S) /\ c \in b..Len(S)
      /\ e \in (c + 1)..Len(S) /\ e \in Nat
  BY <1>2, <1>3, <1>4 DEF S
<1>6. unread = SubSeq(S, c + 1, e)
  OBVIOUS
<1> HIDE DEF unread
<1>7. ASSUME NEW p \in (c + 1)..(b + 3), IsLine(S, b, p)
      PROVE  InLine(s, S, b, e, p, reaction, x)
  <2>1. s.temp = SubSeq(S, b + 1, c) /\ s.parse \in {"start", "headers"}
    BY <1>2, <1>5
  <2> HIDE DEF b
  <2>2. InPiece(s, S, b, c, e, p, unread)
    BY <1>3, <1>5, <1>6, <1>7, <2>1 DEF InPiece
  <2> QED BY <2>2, TurnInLine
<1> HIDE DEF x
<1>8. CASE i < n
  <2> DEFINE p == 3 * i + 6
             j == i + 1
  <2>0. j \in 1..n /\ 3 * j + 1 = 3 * i + 4 /\ 3 * j + 2 = 3 * i + 5 /\ 3 * j + 3 = 3 * i + 6
    BY <1>2, <1>4, <1>8
  <2>1. S[3 * i + 4] = sent.headers[j] /\ S[3 * i + 5] = Rest /\ S[3 * i + 6] = NewLine
    <3> HIDE DEF j
    <3>1. S[3 * j + 1] = sent.headers[j] /\ S[3 * j + 2] = Rest /\ S[3 * j + 3] = NewLine
      BY <1>1, <1>2, <2>0 DEF IsStream, n
    <3> QED BY <2>0, <3>1
  <2>2. sent.headers[j] \in {"length", "form", "text", "raw", "expect", "upgrade"}
    BY <2>0, RequestIs DEF n
  <2>3. IsLine(S, b, p)
    <3> SUFFICES ASSUME NEW k \in (b + 1)..(p - 1) PROVE S[k] # NewLine
      BY <2>1 DEF IsLine
    <3>1. k = 3 * i + 4 \/ k = 3 * i + 5
      BY <1>2
    <3>2. sent.headers[j] # NewLine /\ Rest # NewLine
      BY <2>2 DEF NewLine, Rest
    <3> QED BY <2>1, <3>1, <3>2
  <2>4. p \in (c + 1)..(b + 3) /\ c <= p - 1 /\ p - 1 = 3 * i + 5 /\ p + 1 = 3 * i + 7
        /\ 3 * j + 3 = p /\ j - 1 = i /\ p \in Nat
    BY <1>2, <1>8
  <2>5. InLine(s, S, b, e, p, reaction, x)
    BY <1>7, <2>3, <2>4
  <2>6. ASSUME NEW m \in b..Len(S)
        PROVE  /\ SubSeq(S, b + 1, m) \in Seq(Token) /\ Len(SubSeq(S, b + 1, m)) = m - b
               /\ \A k \in 1..(m - b) : SubSeq(S, b + 1, m)[k] = S[b + k]
    BY <1>3, <1>5, PieceIs
  <2>7. CASE e < p
    <3> DEFINE y == SubSeq(S, b + 1, e)
    <3>1. e \in b..Len(S) /\ e \in b..(3 * i + 5) /\ e \in 0..Len(S)
      BY <1>5, <2>4, <2>7, SMTT(20)
    <3>2. y \in Seq(Token)
      BY <2>6, <3>1
    <3>3. y = SubSeq(S, 3 * i + 4, e)
      BY <1>5
    <3>4. x.s = [s EXCEPT !.temp = y] /\ x.rest = <<>>
      BY <2>5, <2>7 DEF InLine
    <3> HIDE DEF y
    <3>5. /\ x.s \in RequestState /\ x.s.temp = y /\ x.s.parse = "headers" /\ Fresh(x.s)
          /\ x.s.contentLength = AnnouncedBy(i)
      <4> DEFINE z == [s EXCEPT !.temp = y]
      <4>1. /\ z \in RequestState /\ z.temp = y /\ z.parse = s.parse /\ (Fresh(s) => Fresh(z))
            /\ z.contentLength = s.contentLength
        BY <3>2, TempIs
      <4> HIDE DEF z
      <4> QED BY <1>2, <3>4, <4>1 DEF z
    <3>6. AtHeader(x.s, e, i)
      BY <1>2, <1>8, <3>1, <3>3, <3>5 DEF AtHeader, S, n
    <3>7. StateAt(x.s, e)
      BY <1>2, <3>1, <3>5, <3>6 DEF StateAt, S, n
    <3>8. c \in Nat /\ e \in Nat /\ c < e
      BY <1>5
    <3>9. TurnedTo(x, c, e)
      BY <3>4, <3>7, <3>8, TurnToEnd
    <3> QED BY <3>9 DEF x, unread, S
  <2>8. CASE p <= e
    <3> DEFINE y == SubSeq(S, b + 1, p - 1)
    <3>1. p - 1 \in b..Len(S) /\ 1 \in 1..((p - 1) - b)
      BY <1>2, <1>3, <1>4, <1>5, <2>4, <2>8
    <3>2. y \in Seq(Token) /\ Len(y) = (p - 1) - b /\ y[1] = S[b + 1]
      BY <2>6, <3>1
    <3>3. x.s = parseLine([s EXCEPT !.temp = y], reaction) /\ x.rest = SubSeq(S, p + 1, e)
      BY <2>5, <2>8 DEF InLine
    <3> HIDE DEF y
    <3>4. y # <<>> /\ y[1] = sent.headers[j]
      <4>1. y # <<>>
        BY <3>1, <3>2
      <4> QED BY <1>5, <2>1, <3>2, <4>1
    <3>5. i \in 0..(Len(sent.headers) - 1)
      BY <1>2, <1>4, <1>8 DEF n
    <3>6. x.s \in RequestState /\ AtHeader(x.s, 3 * j + 3, j)
      BY <1>2, <3>2, <3>3, <3>4, <3>5, HeaderParsed
    <3>7. AtHeader(x.s, p, j)
      BY <2>4, <3>6
    <3>8. j \in 0..Len(sent.headers) /\ p \in 0..Len(S) /\ p \in (c + 1)..e
      <4>1. j \in 0..n
        BY <2>0
      <4>2. p \in 0..Len(S) /\ p \in (c + 1)..e
        BY <1>5, <2>4, <2>8
      <4> QED BY <4>1, <4>2 DEF n
    <3> HIDE DEF p, j
    <3>9. StateAt(x.s, p)
      BY <3>6, <3>7, <3>8 DEF StateAt, S
    <3> QED BY <3>3, <3>8, <3>9 DEF TurnedTo, S, x, unread
  <2> QED BY <1>5, <2>4, <2>7, <2>8
<1>9. CASE ~(i < n)
  <2> DEFINE p == b + 1
  <2>1. i = n /\ c = b /\ p = HeadEnd(sent)
    BY <1>2, <1>4, <1>9
  <2>2. IsLine(S, b, p)
    <3>1. S[p] = NewLine
      BY <1>1, <1>2, <2>1 DEF IsStream
    <3>2. (b + 1)..(p - 1) = {}
      BY <1>5
    <3> QED BY <3>1, <3>2 DEF IsLine
  <2>3. p \in (c + 1)..(b + 3) /\ p <= e /\ p - 1 = b
    BY <1>5, <2>1
  <2>4. InLine(s, S, b, e, p, reaction, x)
    BY <1>7, <2>2, <2>3
  <2>5. x.s = parseLine([s EXCEPT !.temp = SubSeq(S, b + 1, p - 1)], reaction)
        /\ x.rest = SubSeq(S, p + 1, e)
    BY <2>3, <2>4 DEF InLine
  <2>6. SubSeq(S, b + 1, p - 1) = <<>>
    BY <1>5, <2>3, NothingYet
  <2>7. x.s \in RequestState /\ (AtBody(x.s, p) \/ AtEnd(x.s, p))
    <3>1. s.contentLength = AnnouncedBy(Len(sent.headers))
      BY <1>2, <2>1 DEF n
    <3>2. x.s = parseLine([s EXCEPT !.temp = <<>>], reaction)
      BY <2>5, <2>6
    <3>3. x.s \in RequestState /\ (AtBody(x.s, HeadEnd(sent)) \/ AtEnd(x.s, HeadEnd(sent)))
      BY <1>2, <3>1, <3>2, HeadersEnded
    <3> QED BY <2>1, <3>3
  <2>8. p \in 0..Len(S) /\ p \in (c + 1)..e
    BY <1>5, <2>3
  <2> HIDE DEF p, b
  <2>9. StateAt(x.s, p)
    BY <2>7, <2>8 DEF StateAt, S
  <2> QED BY <2>5, <2>8, <2>9 DEF TurnedTo, S, x, unread
<1> QED BY <1>8, <1>9

-------------------------------------------------------------------------------
(* Appending behind a concatenation, and what it adds to the range.        *)
LEMMA AppendBehind ==
  ASSUME NEW a \in Seq(Token), NEW x \in Seq(Token), NEW y \in Token
  PROVE  a \o Append(x, y) = Append(a \o x, y)
<1>1. a \o x \in Seq(Token) /\ <<y>> \in Seq(Token)
  BY ConcatProperties
<1>2. Append(x, y) = x \o <<y>> /\ Append(a \o x, y) = (a \o x) \o <<y>>
  BY <1>1, AppendIsConcat
<1>3. (a \o x) \o <<y>> = a \o (x \o <<y>>)
  BY <1>1, ConcatAssociative
<1> QED BY <1>2, <1>3

LEMMA RangeOfAppend ==
  ASSUME NEW T, NEW x \in Seq(T), NEW y \in T
  PROVE  Range(Append(x, y)) = Range(x) \cup {y}
<1> DEFINE z == Append(x, y)
           n == Len(x)
<1>1. /\ z \in Seq(T) /\ Len(z) = n + 1 /\ n \in Nat /\ \A i \in 1..n : z[i] = x[i]
      /\ z[n + 1] = y
  BY AppendProperties
<1>2. DOMAIN x = 1..n
  OBVIOUS
<1> HIDE DEF z, n
<1>3. DOMAIN z = 1..(n + 1)
  BY <1>1
<1>4. \A i : i \in 1..(n + 1) <=> i \in 1..n \/ i = n + 1
  BY <1>1
<1>5. Range(z) = {z[i] : i \in DOMAIN z} /\ Range(x) = {x[i] : i \in DOMAIN x}
  BY DEF Range
<1>6. ASSUME NEW v \in Range(z) PROVE v \in Range(x) \cup {y}
  BY <1>1, <1>2, <1>3, <1>4, <1>5
<1>7. ASSUME NEW v \in Range(x) \cup {y} PROVE v \in Range(z)
  BY <1>1, <1>2, <1>3, <1>4, <1>5
<1> QED BY <1>6, <1>7 DEF z

LEMMA AmpersandIs ==
  "&" \in Token
BY DEF Token, Words

(* A parameter more.                                                       *)
LEMMA JoinedIs ==
  ASSUME NEW ps \in Seq(Seq(Token)), NEW x \in Seq(Token)
  PROVE  /\ Joined(ps) \in Seq(Token)
         /\ Joined(Append(ps, x)) = Joined(ps) \o Append(x, "&")
         /\ NoAmpersand(ps) /\ "&" \notin Range(x) => NoAmpersand(Append(ps, x))
<1> DEFINE qs == Append(ps, x)
           n == Len(ps)
           e == Ended(ps)
           f == Ended(qs)
<1>1. /\ qs \in Seq(Seq(Token)) /\ Len(qs) = n + 1 /\ n \in Nat
      /\ \A i \in 1..n : qs[i] = ps[i]
      /\ qs[n + 1] = x
  BY AppendProperties
<1>2. DOMAIN ps = 1..n
  OBVIOUS
<1> HIDE DEF qs, n
<1>3. DOMAIN qs = 1..(n + 1)
  BY <1>1
<1>4. ASSUME NEW y \in Seq(Token) PROVE Append(y, "&") \in Seq(Token)
  BY AmpersandIs, AppendProperties
<1>5. /\ e \in Seq(Seq(Token)) /\ Len(e) = n /\ \A i \in 1..n : e[i] = Append(ps[i], "&")
  <2>1. e = [i \in 1..n |-> Append(ps[i], "&")]
    BY <1>2 DEF Ended
  <2>2. \A i \in 1..n : ps[i] \in Seq(Token)
    BY LenProperties DEF n
  <2>3. \A i \in 1..n : Append(ps[i], "&") \in Seq(Token)
    BY <1>4, <2>2
  <2> HIDE DEF e
  <2>4. e \in [1..n -> Seq(Token)]
    BY <2>1, <2>3
  <2> QED BY <1>1, <2>1, <2>4
<1>6. /\ f \in Seq(Seq(Token)) /\ Len(f) = n + 1
      /\ \A i \in 1..(n + 1) : f[i] = Append(qs[i], "&")
  <2>1. f = [i \in 1..(n + 1) |-> Append(qs[i], "&")]
    BY <1>3 DEF Ended
  <2>2. \A i \in 1..(n + 1) : qs[i] \in Seq(Token)
    BY <1>1, <1>3
  <2>3. \A i \in 1..(n + 1) : Append(qs[i], "&") \in Seq(Token)
    BY <1>4, <2>2
  <2> HIDE DEF f
  <2>4. f \in [1..(n + 1) -> Seq(Token)]
    BY <2>1, <2>3
  <2> QED BY <1>1, <2>1, <2>4
<1> DEFINE y == Append(x, "&")
           g == Append(e, y)
<1>7. y \in Seq(Token)
  BY <1>4
<1> HIDE DEF e, f, y
<1>8. /\ g \in Seq(Seq(Token)) /\ Len(g) = n + 1 /\ \A i \in 1..n : g[i] = e[i]
      /\ g[n + 1] = y
  BY <1>5, <1>7, AppendProperties
<1> HIDE DEF g
<1>9. f = g
  <2>1. ASSUME NEW i \in 1..(n + 1) PROVE f[i] = g[i]
    <3>1. CASE i \in 1..n
      BY <1>1, <1>5, <1>6, <1>8, <3>1
    <3>2. CASE i = n + 1
      BY <1>1, <1>6, <1>8, <3>2 DEF y
    <3> QED BY <1>1, <3>1, <3>2
  <2> QED BY <1>6, <1>8, <2>1, SeqEqual
<1>10. Joined(ps) \in Seq(Token)
  BY <1>5, FlattenType DEF Joined, e
<1>11. Joined(qs) = Joined(ps) \o y
  <2>1. FlattenSeq(g) = FlattenSeq(e) \o y
    BY <1>5, <1>7, FlattenAppend DEF g
  <2> QED BY <1>9, <2>1 DEF Joined, e, f
<1>12. NoAmpersand(ps) /\ "&" \notin Range(x) => NoAmpersand(qs)
  <2> SUFFICES ASSUME NoAmpersand(ps), "&" \notin Range(x), NEW i \in 1..(n + 1)
               PROVE  "&" \notin Range(qs[i])
    BY <1>3 DEF NoAmpersand
  <2>1. CASE i \in 1..n
    BY <1>1, <1>2, <2>1 DEF NoAmpersand
  <2>2. CASE i = n + 1
    BY <1>1, <2>2
  <2> QED BY <1>1, <2>1, <2>2
<1> QED BY <1>10, <1>11, <1>12 DEF qs, y

LEMMA JoinedNothing ==
  Joined(<<>>) = <<>> /\ NoAmpersand(<<>>) /\ "&" \notin Range(<<>>)
<1>1. DOMAIN <<>> = {}
  OBVIOUS
<1>2. Ended(<<>>) = <<>>
  BY <1>1 DEF Ended
<1>3. <<>> \in Seq(Token) /\ Len(<<>>) = 0
  OBVIOUS
<1>4. FlattenSeq(<<>>) = <<>>
  BY <1>3, FlattenIs
<1> QED BY <1>1, <1>2, <1>4 DEF Joined, NoAmpersand, Range

(* A byte of a form: the object behind it, and the parameters.             *)
LEMMA CharIs ==
  ASSUME NEW s \in RequestState, NEW byte \in Token
  PROVE  LET w == plainPostChar(s, byte)
             t == IF byte = "&" THEN s.temp ELSE Append(s.temp, byte)
         IN  /\ w \in RequestState /\ w.parsedLength = s.parsedLength + 1
             /\ w.parse = s.parse /\ w.contentLength = s.contentLength
             /\ w.contentType = s.contentType /\ w.plainPost = s.plainPost
             /\ w.handler = s.handler /\ w.body = s.body /\ w.aligned = s.aligned
             /\ w.handled = s.handled
             /\ byte = "&" \/ s.parsedLength + 1 = s.contentLength =>
                  w.params = Append(s.params, t) /\ w.temp = <<>>
             /\ ~(byte = "&" \/ s.parsedLength + 1 = s.contentLength) =>
                  w.params = s.params /\ w.temp = t
<1> DEFINE w == plainPostChar(s, byte)
           t == IF byte = "&" THEN s.temp ELSE Append(s.temp, byte)
           l == s.parsedLength + 1
           a == [s EXCEPT !.parsedLength = l, !.temp = t]
           b == [a EXCEPT !.params = Append(s.params, t), !.temp = <<>>]
<1>1. /\ s.temp \in Seq(Token) /\ s.params \in Seq(Seq(Token)) /\ s.parsedLength \in Nat
  BY DEF RequestState
<1>2. t \in Seq(Token) /\ l \in Nat /\ Append(s.params, t) \in Seq(Seq(Token))
  <2>1. t \in Seq(Token) /\ l \in Nat
    BY <1>1, AppendProperties
  <2> HIDE DEF t
  <2> QED BY <1>1, <2>1, AppendProperties
<1>3. w = IF byte = "&" \/ a.parsedLength = a.contentLength
            THEN [a EXCEPT !.params = Append(a.params, a.temp), !.temp = <<>>] ELSE a
  BY DEF plainPostChar
<1> HIDE DEF w, t, l
<1>4. /\ a \in RequestState /\ a.parsedLength = l /\ a.temp = t /\ a.params = s.params
      /\ a.parse = s.parse /\ a.contentLength = s.contentLength
      /\ a.contentType = s.contentType /\ a.plainPost = s.plainPost
      /\ a.handler = s.handler /\ a.body = s.body /\ a.aligned = s.aligned
      /\ a.handled = s.handled
  <2>1. a \in RequestState
    BY <1>2 DEF RequestState
  <2>2. /\ a.parsedLength = l /\ a.temp = t /\ a.params = s.params
        /\ a.parse = s.parse /\ a.contentLength = s.contentLength
        /\ a.contentType = s.contentType /\ a.plainPost = s.plainPost
        /\ a.handler = s.handler /\ a.body = s.body /\ a.aligned = s.aligned
        /\ a.handled = s.handled
    BY DEF RequestState
  <2> QED BY <2>1, <2>2
<1> HIDE DEF a
<1>5. /\ b \in RequestState /\ b.parsedLength = l /\ b.temp = <<>> /\ b.params = Append(s.params, t)
      /\ b.parse = s.parse /\ b.contentLength = s.contentLength
      /\ b.contentType = s.contentType /\ b.plainPost = s.plainPost
      /\ b.handler = s.handler /\ b.body = s.body /\ b.aligned = s.aligned
      /\ b.handled = s.handled
  <2>1. b \in RequestState
    <3> DEFINE m == Append(s.params, t)
               x == [a EXCEPT !.params = m]
    <3> HIDE DEF m
    <3>1. x \in RequestState
      BY <1>2, <1>4 DEF RequestState, m
    <3>2. b = [x EXCEPT !.temp = <<>>]
      BY DEF m
    <3>3. <<>> \in Seq(Token)
      OBVIOUS
    <3> HIDE DEF x, b
    <3> QED BY <3>1, <3>2, <3>3 DEF RequestState
  <2>2. /\ b.parsedLength = a.parsedLength /\ b.temp = <<>> /\ b.params = Append(s.params, t)
        /\ b.parse = a.parse /\ b.contentLength = a.contentLength
        /\ b.contentType = a.contentType /\ b.plainPost = a.plainPost
        /\ b.handler = a.handler /\ b.body = a.body /\ b.aligned = a.aligned
        /\ b.handled = a.handled
    BY <1>4 DEF RequestState
  <2> HIDE DEF b
  <2> QED BY <1>4, <2>1, <2>2
<1>6. CASE byte = "&" \/ l = s.contentLength
  <2>1. w = b
    BY <1>3, <1>4, <1>6
  <2> HIDE DEF b
  <2> QED BY <1>5, <1>6, <2>1 DEF w, t, l
<1>7. CASE ~(byte = "&" \/ l = s.contentLength)
  <2>1. w = a
    BY <1>3, <1>4, <1>7
  <2> HIDE DEF b
  <2> QED BY <1>4, <1>7, <2>1 DEF w, t, l
<1> QED BY <1>6, <1>7

LEMMA CharTaken ==
  ASSUME NEW s \in RequestState, NEW byte \in Token, NEW bytes \in Seq(Token),
         PartsTaken(s, bytes)
  PROVE  LET w == plainPostChar(s, byte)
         IN  /\ w.parsedLength # w.contentLength => PartsTaken(w, Append(bytes, byte))
             /\ w.parsedLength = w.contentLength => PartsOf(Append(bytes, byte), w.params)
<1> DEFINE w == plainPostChar(s, byte)
           t == IF byte = "&" THEN s.temp ELSE Append(s.temp, byte)
           more == Append(bytes, byte)
           ended == byte = "&" \/ s.parsedLength + 1 = s.contentLength
<1>1. /\ s.temp \in Seq(Token) /\ s.params \in Seq(Seq(Token))
  BY DEF RequestState
<1>2. NoAmpersand(s.params) /\ "&" \notin Range(s.temp) /\ Joined(s.params) \o s.temp = bytes
  BY DEF PartsTaken
<1>3. /\ w.parsedLength = s.parsedLength + 1 /\ w.contentLength = s.contentLength
      /\ ended => w.params = Append(s.params, t) /\ w.temp = <<>>
      /\ ~ended => w.params = s.params /\ w.temp = t
  BY CharIs
<1>4. t \in Seq(Token) /\ "&" \notin Range(t) /\ Joined(s.params) \in Seq(Token)
  <2>1. CASE byte = "&"
    BY <1>1, <1>2, <2>1, JoinedIs
  <2>2. CASE byte # "&"
    <3>1. Append(s.temp, byte) \in Seq(Token)
          /\ Range(Append(s.temp, byte)) = Range(s.temp) \cup {byte}
      BY <1>1, AppendProperties, RangeOfAppend
    <3> QED BY <1>1, <1>2, <2>2, <3>1, JoinedIs
  <2> QED BY <2>1, <2>2
<1>5. more \in Seq(Token) /\ Last(more) = byte
  <2>1. more \in Seq(Token) /\ Len(more) = Len(bytes) + 1 /\ more[Len(bytes) + 1] = byte
    BY AppendProperties
  <2> QED BY <2>1 DEF Last
<1>6. Joined(s.params) \o t = IF byte = "&" THEN bytes ELSE more
  BY <1>1, <1>2, <1>4, AppendBehind
<1>7. Joined(s.params) \o Append(t, "&") = IF byte = "&" THEN more ELSE Append(more, "&")
  <2>1. Joined(s.params) \o Append(t, "&") = Append(Joined(s.params) \o t, "&")
    BY <1>4, AmpersandIs, AppendBehind
  <2> QED BY <1>6, <2>1
<1>8. /\ Joined(Append(s.params, t)) = Joined(s.params) \o Append(t, "&")
      /\ NoAmpersand(Append(s.params, t))
  BY <1>1, <1>2, <1>4, JoinedIs
<1> HIDE DEF w, t, more
<1>9. CASE ended
  <2>1. /\ NoAmpersand(w.params) /\ w.temp = <<>>
        /\ Joined(w.params) = IF byte = "&" THEN more ELSE Append(more, "&")
    BY <1>3, <1>7, <1>8, <1>9
  <2>2. PartsOf(more, w.params)
    <3>1. Joined(w.params) = FlattenSeq([i \in DOMAIN w.params |-> Append(w.params[i], "&")])
      BY DEF Joined, Ended
    <3> QED BY <1>5, <2>1, <3>1 DEF PartsOf, NoAmpersand
  <2>3. w.parsedLength # w.contentLength => PartsTaken(w, more)
    <3> SUFFICES ASSUME w.parsedLength # w.contentLength PROVE PartsTaken(w, more)
      OBVIOUS
    <3>1. byte = "&"
      BY <1>3, <1>9
    <3>2. Joined(w.params) \o w.temp = more
      BY <1>5, <2>1, <3>1, ConcatEmptySeq
    <3> QED BY <2>1, <3>2, JoinedNothing DEF PartsTaken
  <2> QED BY <2>2, <2>3 DEF w, more
<1>10. CASE ~ended
  <2>1. byte # "&" /\ w.parsedLength # w.contentLength /\ w.params = s.params /\ w.temp = t
    BY <1>3, <1>10
  <2>2. PartsTaken(w, more)
    BY <1>2, <1>4, <1>6, <2>1 DEF PartsTaken
  <2> QED BY <2>1, <2>2 DEF w, more
<1> QED BY <1>9, <1>10

-------------------------------------------------------------------------------
(* The body, as far as it has come.                                        *)
LEMMA BodyIs ==
  ASSUME sent \in Requests, sent.first # Blank
  PROVE  /\ HeadEnd(sent) \in Nat /\ Len(sent.body) \in Nat /\ Len(stream(sent)) \in Nat
         /\ Whole(sent) = HeadEnd(sent) + Len(sent.body) /\ Whole(sent) <= Len(stream(sent))
         /\ stream(sent) \in Seq(Token)
         /\ \A d \in HeadEnd(sent)..Len(stream(sent)) : BodyUpTo(d) \in Seq(Token)
         /\ \A d \in HeadEnd(sent)..(Len(stream(sent)) - 1) :
              BodyUpTo(d + 1) = Append(BodyUpTo(d), stream(sent)[d + 1])
         /\ BodyUpTo(Whole(sent)) = sent.body
<1> DEFINE S == stream(sent)
           h == HeadEnd(sent)
           l == Len(sent.body)
<1>1. IsStream(sent, S)
  BY StreamIs
<1>2. sent.body \in Seq(Token) /\ l \in Nat /\ Len(sent.headers) \in Nat /\ Len(sent.excess) \in Nat
  BY RequestIs
<1>3. h \in Nat /\ Whole(sent) = h + l
  BY <1>2 DEF HeadEnd, Whole
<1>4. S \in Seq(Token) /\ Len(S) = h + l + Len(sent.excess)
      /\ \A k \in 1..l : S[h + k] = sent.body[k]
  BY <1>1, <1>3 DEF IsStream
<1> HIDE DEF S, h
<1>5. Len(S) \in Nat /\ h + l <= Len(S) /\ h \in 0..Len(S)
  BY <1>2, <1>3, <1>4
<1>6. ASSUME NEW d \in h..Len(S)
      PROVE  /\ BodyUpTo(d) \in Seq(Token) /\ Len(BodyUpTo(d)) = d - h
             /\ \A i \in 1..(d - h) : BodyUpTo(d)[i] = S[h + i]
  <2>1. BodyUpTo(d) = SubSeq(S, h + 1, d)
    BY DEF BodyUpTo, S, h
  <2> DEFINE y == SubSeq(S, h + 1, d)
  <2>2. h \in 0..Len(S) /\ d \in h..Len(S) /\ S \in Seq(Token)
    BY <1>4, <1>5
  <2>3. y \in Seq(Token) /\ Len(y) = d - h /\ \A i \in 1..(d - h) : y[i] = S[h + i]
    BY <2>2, PieceIs
  <2>4. BodyUpTo(d) = y
    BY <2>1
  <2> HIDE DEF y
  <2> QED BY <2>3, <2>4
<1>7. ASSUME NEW d \in h..(Len(S) - 1)
      PROVE  BodyUpTo(d + 1) = Append(BodyUpTo(d), S[d + 1])
  <2>1. /\ h + 1 \in 1..Len(S) /\ d + 1 \in (h + 1)..Len(S) /\ (d + 1) - 1 = d
        /\ d \in h..Len(S) /\ d + 1 \in 1..Len(S)
    BY <1>3, <1>5
  <2>2. SubSeq(S, h + 1, d + 1) = SubSeq(S, h + 1, d) \o <<S[d + 1]>>
    <3>1. SubSeq(S, h + 1, d + 1) = SubSeq(S, h + 1, (d + 1) - 1) \o <<S[d + 1]>>
      BY <1>4, <2>1, SubSeqRecursiveSecond
    <3> QED BY <2>1, <3>1
  <2>3. BodyUpTo(d) = SubSeq(S, h + 1, d) /\ BodyUpTo(d + 1) = SubSeq(S, h + 1, d + 1)
    BY DEF BodyUpTo, S, h
  <2>4. S[d + 1] \in Token
    BY <1>4, <2>1
  <2>5. BodyUpTo(d) \in Seq(Token)
    BY <1>6, <2>1
  <2> QED BY <2>2, <2>3, <2>4, <2>5, AppendIsConcat
<1>8. BodyUpTo(h + l) = sent.body
  <2> HIDE DEF l
  <2>1. h + l \in h..Len(S) /\ (h + l) - h = l
    BY <1>2, <1>3, <1>5
  <2>2. /\ BodyUpTo(h + l) \in Seq(Token) /\ Len(BodyUpTo(h + l)) = l
        /\ \A i \in 1..l : BodyUpTo(h + l)[i] = S[h + i]
    BY <1>6, <2>1
  <2>3. \A i \in 1..l : BodyUpTo(h + l)[i] = sent.body[i]
    BY <1>4, <2>2
  <2> DEFINE y == BodyUpTo(h + l)
  <2>4. y \in Seq(Token) /\ Len(y) = Len(sent.body) /\ \A i \in 1..Len(y) : y[i] = sent.body[i]
    BY <2>2, <2>3 DEF l
  <2> HIDE DEF y
  <2>5. y = sent.body
    BY <1>2, <2>4, SeqEqual
  <2> QED BY <2>5 DEF y
<1> QED BY <1>2, <1>3, <1>4, <1>5, <1>6, <1>7, <1>8 DEF S, h

(* The loop over the bytes of a form.                                      *)
IsPosted(a, buf, m, f) ==
  f = [n \in 0..m |-> IF n = 0 THEN a ELSE plainPostChar(f[n - 1], buf[n])]
PostedOf(a, buf) ==
  CHOOSE after : after = [n \in 0..Len(buf) |->
                            IF n = 0 THEN a ELSE plainPostChar(after[n - 1], buf[n])]

LEMMA PostsAreDefined ==
  ASSUME NEW a, NEW buf, NEW m \in Nat
  PROVE  \E f : IsPosted(a, buf, m, f)
<1> DEFINE T == {k \in Nat : \E f : IsPosted(a, buf, k, f)}
<1>1. 0 \in T
  <2> DEFINE f == [i \in 0..0 |-> a]
             g == [n \in 0..0 |-> IF n = 0 THEN a ELSE plainPostChar(f[n - 1], buf[n])]
  <2>1. \A n \in 0..0 : n = 0 /\ f[n] = a
    OBVIOUS
  <2>2. f = g
    BY <2>1
  <2>3. IsPosted(a, buf, 0, f)
    BY <2>2 DEF IsPosted
  <2> QED BY <2>3
<1>2. ASSUME NEW l \in Nat, l \in T PROVE l + 1 \in T
  <2>1. PICK t : IsPosted(a, buf, l, t)
    BY <1>2
  <2> DEFINE u == [i \in 0..(l + 1) |-> IF i = l + 1 THEN plainPostChar(t[l], buf[i]) ELSE t[i]]
             v == [i \in 0..(l + 1) |-> IF i = 0 THEN a ELSE plainPostChar(u[i - 1], buf[i])]
  <2>2. ASSUME NEW i \in 0..(l + 1) PROVE u[i] = v[i]
    <3>1. CASE i = l + 1
      <4>1. i - 1 = l /\ l \in 0..(l + 1) /\ l # l + 1 /\ i # 0
        BY <3>1
      <4>2. u[l] = t[l]
        BY <4>1
      <4> QED BY <3>1, <4>1, <4>2
    <3>2. CASE i # l + 1
      <4>1. i \in 0..l
        BY <3>2
      <4>2. t[i] = IF i = 0 THEN a ELSE plainPostChar(t[i - 1], buf[i])
        BY <2>1, <4>1 DEF IsPosted
      <4>3. i # 0 => i - 1 \in 0..(l + 1) /\ i - 1 # l + 1
        BY <4>1
      <4>4. i # 0 => u[i - 1] = t[i - 1]
        BY <4>3
      <4>5. u[i] = t[i]
        BY <3>2
      <4> QED BY <4>2, <4>4, <4>5
    <3> QED BY <3>1, <3>2
  <2>3. u = v
    BY <2>2
  <2>4. IsPosted(a, buf, l + 1, u)
    BY <2>3 DEF IsPosted
  <2> QED BY <2>4
<1>3. m \in T
  <2> HIDE DEF T
  <2> QED BY <1>1, <1>2, SetInduction
<1> QED BY <1>3

LEMMA PostedIs ==
  ASSUME NEW a, NEW buf \in Seq(Token)
  PROVE  /\ PostedOf(a, buf)[0] = a
         /\ \A k \in 0..(Len(buf) - 1) :
              PostedOf(a, buf)[k + 1] = plainPostChar(PostedOf(a, buf)[k], buf[k + 1])
<1>1. Len(buf) \in Nat
  OBVIOUS
<1>2. PICK f : IsPosted(a, buf, Len(buf), f)
  BY <1>1, PostsAreDefined
<1> DEFINE g == PostedOf(a, buf)
<1>3. g = [n \in 0..Len(buf) |-> IF n = 0 THEN a ELSE plainPostChar(g[n - 1], buf[n])]
  <2>1. f = [n \in 0..Len(buf) |-> IF n = 0 THEN a ELSE plainPostChar(f[n - 1], buf[n])]
    BY <1>2 DEF IsPosted
  <2> QED BY <2>1 DEF PostedOf
<1> HIDE DEF g
<1>4. g[0] = a
  <2>1. 0 \in 0..Len(buf)
    BY <1>1
  <2> QED BY <1>3, <2>1
<1>5. ASSUME NEW k \in 0..(Len(buf) - 1) PROVE g[k + 1] = plainPostChar(g[k], buf[k + 1])
  <2>1. k + 1 \in 0..Len(buf) /\ k + 1 # 0 /\ (k + 1) - 1 = k
    BY <1>1
  <2> DEFINE j == k + 1
  <2> HIDE DEF j
  <2>2. j \in 0..Len(buf) /\ j # 0 /\ j - 1 = k
    BY <2>1 DEF j
  <2>3. g[j] = plainPostChar(g[j - 1], buf[j])
    BY <1>3, <2>2
  <2> QED BY <2>2, <2>3 DEF j
<1> QED BY <1>4, <1>5 DEF g

(* The object after the bytes of a form up to position d.                  *)
PostedAt(a, w, d) ==
  /\ w \in RequestState /\ w.parsedLength = d - HeadEnd(sent)
  /\ w.parse = a.parse /\ w.contentLength = a.contentLength /\ w.contentType = a.contentType
  /\ w.plainPost = a.plainPost /\ w.handler = a.handler /\ w.body = a.body
  /\ w.aligned = a.aligned /\ w.handled = a.handled
  /\ d < Whole(sent) => PartsTaken(w, BodyUpTo(d))
  /\ d = Whole(sent) => PartsOf(sent.body, w.params)

LEMMA PostedUpTo ==
  ASSUME sent \in Requests, sent.first # Blank,
         NEW c \in HeadEnd(sent)..Len(stream(sent)), NEW e \in c..Len(stream(sent)),
         NEW a, PostedAt(a, a, c), a.contentLength = Len(sent.body)
  PROVE  PostedAt(a, PostedOf(a, SubSeq(stream(sent), c + 1, e))[e - c], e)
<1> DEFINE S == stream(sent)
           h == HeadEnd(sent)
           buf == SubSeq(S, c + 1, e)
           g == PostedOf(a, buf)
           A == {k \in Nat : k <= e - c => PostedAt(a, g[k], c + k)}
<1>1. /\ h \in Nat /\ Len(sent.body) \in Nat /\ Len(S) \in Nat
      /\ Whole(sent) = h + Len(sent.body) /\ S \in Seq(Token)
      /\ \A d \in h..Len(S) : BodyUpTo(d) \in Seq(Token)
      /\ \A d \in h..(Len(S) - 1) : BodyUpTo(d + 1) = Append(BodyUpTo(d), S[d + 1])
      /\ BodyUpTo(Whole(sent)) = sent.body
  BY BodyIs
<1>2. c \in h..Len(S) /\ e \in c..Len(S) /\ c \in 0..Len(S)
  BY <1>1
<1> HIDE DEF S, h
<1>3. buf \in Seq(Token) /\ Len(buf) = e - c /\ \A i \in 1..(e - c) : buf[i] = S[c + i]
  BY <1>1, <1>2, PieceIs
<1> HIDE DEF buf
<1>4. g[0] = a /\ \A k \in 0..(Len(buf) - 1) : g[k + 1] = plainPostChar(g[k], buf[k + 1])
  BY <1>3, PostedIs
<1> HIDE DEF g
<1>5. 0 \in A
  <2>1. c + 0 = c
    BY <1>1, <1>2
  <2> QED BY <1>4, <2>1
<1>6. ASSUME NEW k \in Nat, k \in A PROVE k + 1 \in A
  <2> SUFFICES ASSUME k + 1 <= e - c PROVE PostedAt(a, g[k + 1], c + (k + 1))
    OBVIOUS
  <2> DEFINE d == c + k
             w == g[k]
             v == g[k + 1]
             byte == S[d + 1]
  <2>1. /\ k \in 0..(Len(buf) - 1) /\ k + 1 \in 1..(e - c) /\ c + (k + 1) = d + 1
        /\ d \in h..(Len(S) - 1) /\ d + 1 \in 1..Len(S) /\ d \in h..Len(S) /\ k <= e - c
    BY <1>1, <1>2, <1>3
  <2>2. PostedAt(a, w, d)
    BY <1>6, <2>1
  <2> HIDE DEF A
  <2>3. v = plainPostChar(w, byte)
    BY <1>3, <1>4, <2>1
  <2>4. byte \in Token /\ BodyUpTo(d) \in Seq(Token) /\ BodyUpTo(d + 1) = Append(BodyUpTo(d), byte)
    BY <1>1, <2>1
  <2> HIDE DEF d, w, v, byte
  <2>5. w \in RequestState /\ w.parsedLength = d - h /\ w.contentLength = Len(sent.body)
    BY <2>2 DEF PostedAt, h
  <2>6. /\ v \in RequestState /\ v.parsedLength = w.parsedLength + 1
        /\ v.parse = a.parse /\ v.contentLength = a.contentLength
        /\ v.contentType = a.contentType /\ v.plainPost = a.plainPost
        /\ v.handler = a.handler /\ v.body = a.body /\ v.aligned = a.aligned
        /\ v.handled = a.handled
    BY <2>2, <2>3, <2>4, <2>5, CharIs DEF PostedAt
  <2>7. v.parsedLength = (d + 1) - h
    BY <1>1, <2>1, <2>5, <2>6
  <2>8. ASSUME d + 1 <= Whole(sent)
        PROVE  /\ d + 1 # Whole(sent) => PartsTaken(v, BodyUpTo(d + 1))
               /\ d + 1 = Whole(sent) => PartsOf(BodyUpTo(d + 1), v.params)
    <3>1. d < Whole(sent) /\ (d + 1 = Whole(sent) <=> v.parsedLength = v.contentLength)
      <4> DEFINE l == Len(sent.body)
                 W == Whole(sent)
                 m == d + 1
      <4>1. v.contentLength = l /\ l \in Nat /\ h \in Nat /\ W = h + l /\ d \in Int
            /\ v.parsedLength = m - h /\ m <= W /\ m = d + 1
        <5>1. v.contentLength = l
          BY <2>6
        <5>2. l \in Nat /\ h \in Nat /\ W = h + l
          BY <1>1
        <5>3. d \in Int
          BY <1>1, <2>1
        <5> QED BY <2>7, <2>8, <5>1, <5>2, <5>3
      <4> HIDE DEF l, W, m
      <4>2. d < W /\ (m = W <=> m - h = l)
        BY <4>1
      <4> QED BY <4>1, <4>2 DEF W, m
    <3>2. PartsTaken(w, BodyUpTo(d))
      BY <2>2, <3>1 DEF PostedAt
    <3>3. /\ v.parsedLength # v.contentLength => PartsTaken(v, Append(BodyUpTo(d), byte))
          /\ v.parsedLength = v.contentLength => PartsOf(Append(BodyUpTo(d), byte), v.params)
      BY <2>3, <2>4, <2>5, <3>2, CharTaken
    <3> QED BY <2>4, <3>1, <3>3
  <2>9. /\ d + 1 < Whole(sent) => PartsTaken(v, BodyUpTo(d + 1))
        /\ d + 1 = Whole(sent) => PartsOf(sent.body, v.params)
    <3>1. d + 1 \in Int /\ Whole(sent) \in Int
      BY <1>1, <2>1
    <3>2. /\ d + 1 < Whole(sent) => d + 1 <= Whole(sent) /\ d + 1 # Whole(sent)
          /\ d + 1 = Whole(sent) => d + 1 <= Whole(sent)
      BY <3>1
    <3> QED BY <1>1, <2>8, <3>2
  <2>10. PostedAt(a, v, d + 1)
    BY <2>6, <2>7, <2>9 DEF PostedAt, h
  <2> QED BY <2>1, <2>10 DEF v, d
<1>7. e - c \in A
  <2>1. e - c \in Nat
    BY <1>1, <1>2
  <2> HIDE DEF A
  <2> QED BY <1>5, <1>6, <2>1, SetInduction
<1>8. c + (e - c) = e /\ e - c <= e - c
  BY <1>1, <1>2
<1> QED BY <1>7, <1>8 DEF g, buf, S

-------------------------------------------------------------------------------
(* A piece of the body, from c to e: the object before the request is      *)
(* handled, if this was the last of it.                                    *)
BodyGot(b, e) ==
  /\ b \in RequestState /\ b.parse = "body" /\ b.handled = 0 /\ b.aligned
  /\ b.contentLength = Len(sent.body) /\ b.parsedLength = e - HeadEnd(sent)
  /\ BodyTaken(b, e)
  /\ e = Whole(sent) => Handed(b)

(* The fields of an object whose mode is chosen.                           *)
LEMMA ModeChosen ==
  ASSUME NEW s \in RequestState, NEW plain \in BOOLEAN
  PROVE  LET a == [s EXCEPT !.plainPost = plain]
         IN  /\ a \in RequestState /\ a.plainPost = plain /\ a.parse = s.parse
             /\ a.temp = s.temp /\ a.contentLength = s.contentLength
             /\ a.parsedLength = s.parsedLength /\ a.contentType = s.contentType
             /\ a.handler = s.handler /\ a.params = s.params /\ a.body = s.body
             /\ a.aligned = s.aligned /\ a.handled = s.handled
BY DEF RequestState

LEMMA LengthCounted ==
  ASSUME NEW s \in RequestState, NEW l \in Nat
  PROVE  LET a == [s EXCEPT !.parsedLength = l]
         IN  /\ a \in RequestState /\ a.parsedLength = l /\ a.parse = s.parse
             /\ a.temp = s.temp /\ a.contentLength = s.contentLength
             /\ a.plainPost = s.plainPost /\ a.contentType = s.contentType
             /\ a.handler = s.handler /\ a.params = s.params /\ a.body = s.body
             /\ a.aligned = s.aligned /\ a.handled = s.handled
BY DEF RequestState

LEMMA HandleBodyIs ==
  ASSUME NEW s \in RequestState, NEW buf \in Seq(Token), s.aligned,
         s.parsedLength = Len(s.body)
  PROVE  LET a == handleBody(s, buf)
         IN  /\ a \in RequestState /\ a.body = s.body \o buf /\ a.parse = s.parse
             /\ a.temp = s.temp /\ a.contentLength = s.contentLength
             /\ a.parsedLength = s.parsedLength
             /\ a.plainPost = s.plainPost /\ a.contentType = s.contentType
             /\ a.handler = s.handler /\ a.params = s.params
             /\ a.aligned /\ a.handled = s.handled
<1> DEFINE more == s.body \o buf
           right == s.aligned /\ s.parsedLength = Len(s.body)
           a == [s EXCEPT !.body = more, !.aligned = right]
<1>1. more \in Seq(Token)
  <2>1. s.body \in Seq(Token)
    BY DEF RequestState
  <2> QED BY <2>1, ConcatProperties
<1>2. right \in BOOLEAN /\ right
  OBVIOUS
<1>3. handleBody(s, buf) = a
  BY DEF handleBody
<1> HIDE DEF more, right
<1>4. a \in RequestState
  <2> DEFINE x == [s EXCEPT !.body = more]
  <2>1. x \in RequestState
    BY <1>1 DEF RequestState
  <2>2. a = [x EXCEPT !.aligned = right]
    OBVIOUS
  <2> HIDE DEF x, a
  <2> QED BY <1>2, <2>1, <2>2 DEF RequestState
<1>5. /\ a.body = more /\ a.parse = s.parse
      /\ a.temp = s.temp /\ a.contentLength = s.contentLength
      /\ a.parsedLength = s.parsedLength
      /\ a.plainPost = s.plainPost /\ a.contentType = s.contentType
      /\ a.handler = s.handler /\ a.params = s.params
      /\ a.aligned = right /\ a.handled = s.handled
  BY DEF RequestState
<1> HIDE DEF a
<1> QED BY <1>2, <1>3, <1>4, <1>5 DEF more

(* A body that is handed over as it comes.                                 *)
LEMMA RawBody ==
  ASSUME sent \in Requests, sent.first # Blank,
         NEW c \in Nat, NEW e \in (c + 1)..Len(stream(sent)),
         NEW s \in RequestState, AtBody(s, c), ~s.plainPost, s.contentType # "form"
  PROVE  LET buf == SubSeq(stream(sent), c + 1, e)
         IN  BodyGot([handleBody(s, buf) EXCEPT !.parsedLength = @ + Len(buf)], e)
<1> DEFINE S == stream(sent)
           h == HeadEnd(sent)
           buf == SubSeq(S, c + 1, e)
           a == handleBody(s, buf)
           l == a.parsedLength + Len(buf)
           b == [a EXCEPT !.parsedLength = l]
<1>1. /\ h \in Nat /\ Len(sent.body) \in Nat /\ Len(S) \in Nat
      /\ Whole(sent) = h + Len(sent.body) /\ S \in Seq(Token)
      /\ BodyUpTo(Whole(sent)) = sent.body
  BY BodyIs
<1>2. /\ s.parse = "body" /\ s.handled = 0 /\ s.aligned
      /\ s.contentLength = Len(sent.body) /\ c >= h /\ s.parsedLength = c - h
      /\ s.body = BodyUpTo(c) /\ s.params = <<>>
  BY DEF AtBody, BodyTaken
<1>3. s.body = SubSeq(S, h + 1, c)
  BY <1>2 DEF BodyUpTo
<1> HIDE DEF S, h
<1>4. h \in 0..Len(S) /\ c \in h..Len(S) /\ e \in c..Len(S) /\ c \in 0..Len(S) /\ e > c
  BY <1>1, <1>2 DEF S
<1>5. buf \in Seq(Token) /\ Len(buf) = e - c
  BY <1>1, <1>4, PieceIs
<1>6. SubSeq(S, h + 1, c) \o buf = SubSeq(S, h + 1, e)
  BY <1>1, <1>4, Adjacent
<1>7. s.parsedLength = Len(s.body)
  <2> DEFINE y == SubSeq(S, h + 1, c)
  <2>1. Len(y) = c - h
    BY <1>1, <1>4, PieceIs
  <2> HIDE DEF y
  <2>2. s.body = y
    BY <1>3 DEF y
  <2> QED BY <1>2, <2>1, <2>2
<1> HIDE DEF buf
<1>8. /\ a \in RequestState /\ a.body = s.body \o buf /\ a.parse = s.parse
      /\ a.contentLength = s.contentLength /\ a.parsedLength = s.parsedLength
      /\ a.plainPost = s.plainPost /\ a.contentType = s.contentType
      /\ a.handler = s.handler /\ a.params = s.params
      /\ a.aligned /\ a.handled = s.handled
  BY <1>2, <1>5, <1>7, HandleBodyIs
<1> HIDE DEF a
<1>9. l = e - h /\ l \in Nat /\ l > 0
  BY <1>1, <1>2, <1>4, <1>5, <1>8
<1> HIDE DEF l
<1>10. /\ b \in RequestState /\ b.parsedLength = l /\ b.parse = a.parse
       /\ b.contentLength = a.contentLength
       /\ b.plainPost = a.plainPost /\ b.contentType = a.contentType
       /\ b.handler = a.handler /\ b.params = a.params /\ b.body = a.body
       /\ b.aligned = a.aligned /\ b.handled = a.handled
  <2>1. a \in RequestState /\ l \in Nat
    BY <1>8, <1>9
  <2> QED BY <2>1, LengthCounted
<1> HIDE DEF b
<1>11. b.body = BodyUpTo(e) /\ b.params = <<>> /\ ~b.plainPost /\ b.contentType # "form"
  <2>1. BodyUpTo(e) = SubSeq(S, h + 1, e)
    BY DEF BodyUpTo, S, h
  <2> QED BY <1>2, <1>3, <1>6, <1>8, <1>10, <2>1
<1>12. BodyTaken(b, e)
  BY <1>9, <1>10, <1>11 DEF BodyTaken
<1>13. e = Whole(sent) => Handed(b)
  BY <1>1, <1>11 DEF Handed
<1>14. BodyGot(b, e)
  <2>1. b.parse = "body" /\ b.handled = 0 /\ b.aligned /\ b.contentLength = Len(sent.body)
        /\ b.parsedLength = e - h
    BY <1>2, <1>8, <1>9, <1>10
  <2> QED BY <1>10, <1>12, <1>13, <2>1 DEF BodyGot, h
<1> QED BY <1>14 DEF b, l, a, buf, S

(* A form, whose handler is given its parameters; one without a handler is *)
(* only counted.                                                           *)
FormBegun(a, c) ==
  /\ a \in RequestState /\ a.plainPost /\ a.contentType \in {"form", "text"} /\ a.body = <<>>
  /\ a.parse = "body" /\ a.handled = 0 /\ a.aligned
  /\ a.contentLength = Len(sent.body) /\ c >= HeadEnd(sent)
  /\ a.parsedLength = c - HeadEnd(sent) /\ a.parsedLength # a.contentLength
  /\ ~a.handler.trivial /\ c < Whole(sent) => PartsTaken(a, BodyUpTo(c))

LEMMA CountedBody ==
  ASSUME sent \in Requests, sent.first # Blank,
         NEW c \in Nat, NEW e \in (c + 1)..Len(stream(sent)),
         NEW a, FormBegun(a, c), a.handler.trivial
  PROVE  BodyGot([a EXCEPT !.parsedLength = @ + (e - c)], e)
<1> DEFINE h == HeadEnd(sent)
           l == a.parsedLength + (e - c)
           b == [a EXCEPT !.parsedLength = l]
<1>1. h \in Nat /\ Len(stream(sent)) \in Nat
  BY BodyIs
<1>2. /\ a \in RequestState /\ a.plainPost /\ a.contentType \in {"form", "text"}
      /\ a.body = <<>> /\ a.parse = "body" /\ a.handled = 0 /\ a.aligned
      /\ a.contentLength = Len(sent.body) /\ c >= h /\ a.parsedLength = c - h
  BY DEF FormBegun
<1>3. l = e - h /\ l \in Nat /\ l > 0
  BY <1>1, <1>2
<1> HIDE DEF l
<1>4. /\ b \in RequestState /\ b.parsedLength = l /\ b.parse = a.parse
      /\ b.contentLength = a.contentLength
      /\ b.plainPost = a.plainPost /\ b.contentType = a.contentType
      /\ b.handler = a.handler /\ b.params = a.params /\ b.body = a.body
      /\ b.aligned = a.aligned /\ b.handled = a.handled
  <2>1. a \in RequestState /\ l \in Nat
    BY <1>2, <1>3
  <2> QED BY <2>1, LengthCounted
<1> HIDE DEF b
<1>5. BodyTaken(b, e)
  BY <1>2, <1>3, <1>4 DEF BodyTaken
<1>6. Handed(b)
  BY <1>4 DEF Handed
<1>7. BodyGot(b, e)
  BY <1>2, <1>3, <1>4, <1>5, <1>6 DEF BodyGot
<1> QED BY <1>7 DEF b, l

LEMMA FormBody ==
  ASSUME sent \in Requests, sent.first # Blank,
         NEW c \in Nat, NEW e \in (c + 1)..Len(stream(sent)),
         NEW a, FormBegun(a, c), ~a.handler.trivial
  PROVE  LET buf == SubSeq(stream(sent), c + 1, e)
         IN  BodyGot(PostedOf(a, buf)[Len(buf)], e)
<1> DEFINE S == stream(sent)
           h == HeadEnd(sent)
           buf == SubSeq(S, c + 1, e)
           b == PostedOf(a, buf)[e - c]
<1>1. /\ h \in Nat /\ Len(sent.body) \in Nat /\ Len(S) \in Nat
      /\ Whole(sent) = h + Len(sent.body) /\ S \in Seq(Token)
  BY BodyIs
<1>2. /\ a \in RequestState /\ a.plainPost /\ a.contentType \in {"form", "text"}
      /\ a.body = <<>> /\ a.parse = "body" /\ a.handled = 0 /\ a.aligned
      /\ a.contentLength = Len(sent.body) /\ c >= h /\ a.parsedLength = c - h
      /\ a.parsedLength # a.contentLength
      /\ c < Whole(sent) => PartsTaken(a, BodyUpTo(c))
  BY DEF FormBegun
<1>3. c \in h..Len(S) /\ e \in c..Len(S) /\ c # Whole(sent)
  BY <1>1, <1>2
<1>4. PostedAt(a, a, c)
  BY <1>2, <1>3 DEF PostedAt
<1>5. PostedAt(a, b, e)
  <2>1. c \in HeadEnd(sent)..Len(stream(sent)) /\ e \in c..Len(stream(sent))
    BY <1>3
  <2> QED BY <1>2, <1>4, <2>1, PostedUpTo
<1>6. Len(buf) = e - c
  <2>1. c \in 0..Len(S) /\ e \in c..Len(S)
    BY <1>1, <1>3
  <2> HIDE DEF S
  <2> QED BY <1>1, <2>1, PieceIs
<1> HIDE DEF b
<1>7. /\ b \in RequestState /\ b.parsedLength = e - h
      /\ b.parse = a.parse /\ b.contentLength = a.contentLength /\ b.contentType = a.contentType
      /\ b.plainPost = a.plainPost /\ b.handler = a.handler /\ b.body = a.body
      /\ b.aligned = a.aligned /\ b.handled = a.handled
      /\ e < Whole(sent) => PartsTaken(b, BodyUpTo(e))
      /\ e = Whole(sent) => PartsOf(sent.body, b.params)
  BY <1>5 DEF PostedAt
<1>8. b.parsedLength > 0 /\ (b.parsedLength < b.contentLength => e < Whole(sent))
  BY <1>1, <1>2, <1>3, <1>7
<1>9. BodyTaken(b, e)
  BY <1>2, <1>7, <1>8 DEF BodyTaken
<1>10. e = Whole(sent) => Handed(b)
  BY <1>2, <1>7 DEF Handed
<1>11. BodyGot(b, e)
  BY <1>2, <1>7, <1>9, <1>10 DEF BodyGot
<1> QED BY <1>6, <1>11 DEF b, buf, S

LEMMA BodyPieceGot ==
  ASSUME sent \in Requests, sent.first # Blank,
         NEW c \in Nat, NEW e \in (c + 1)..Len(stream(sent)),
         NEW s \in RequestState, AtBody(s, c), NEW reaction
  PROVE  \E b : /\ BodyGot(b, e)
                /\ bodyData(s, SubSeq(stream(sent), c + 1, e), reaction)
                     = IF b.parsedLength = b.contentLength THEN handleRequest(b, reaction) ELSE b
<1> DEFINE S == stream(sent)
           h == HeadEnd(sent)
           buf == SubSeq(S, c + 1, e)
           plain == s.plainPost \/ (s.parsedLength = 0 /\
                      (s.contentType = "form" \/ (s.contentType = "text" /\ looksLikeParams(buf))))
           a == [s EXCEPT !.plainPost = plain]
           b1 == [handleBody(a, buf) EXCEPT !.parsedLength = @ + Len(buf)]
           b2 == PostedOf(a, buf)[Len(buf)]
           b3 == [a EXCEPT !.parsedLength = @ + Len(buf)]
           b == CASE ~plain -> b1
                  [] plain /\ ~a.handler.trivial -> b2
                  [] plain /\ a.handler.trivial  -> b3
           u == bodyData(s, buf, reaction)
<1>1. u = IF b.parsedLength = b.contentLength THEN handleRequest(b, reaction) ELSE b
  BY DEF bodyData, PostedOf
<1>2. plain \in BOOLEAN
  OBVIOUS
<1>3. /\ h \in Nat /\ Len(S) \in Nat /\ S \in Seq(Token)
      /\ c >= h /\ c \in 0..Len(S) /\ e \in c..Len(S)
      /\ Len(sent.body) \in Nat /\ Whole(sent) = h + Len(sent.body)
  <2>1. h \in Nat /\ Len(S) \in Nat /\ S \in Seq(Token)
        /\ Len(sent.body) \in Nat /\ Whole(sent) = h + Len(sent.body)
    BY BodyIs
  <2>2. c >= h
    BY DEF AtBody
  <2> QED BY <2>1, <2>2
<1>4. Len(buf) = e - c
  <2> HIDE DEF S
  <2> QED BY <1>3, PieceIs
<1>5. ASSUME ~plain PROVE ~s.plainPost /\ s.contentType # "form"
  <2>1. s.parsedLength = c - h /\ BodyTaken(s, c)
    BY DEF AtBody
  <2>2. s.parsedLength = 0 \/ s.parsedLength > 0
    BY <1>3, <2>1
  <2>3. ~s.plainPost
    BY <1>5
  <2>4. CASE s.parsedLength = 0
    BY <1>5, <2>3, <2>4
  <2>5. CASE s.parsedLength > 0
    BY <2>1, <2>3, <2>5 DEF BodyTaken
  <2> QED BY <2>2, <2>4, <2>5
<1>6. ASSUME plain PROVE s.contentType \in {"form", "text"} /\ s.body = <<>>
  <2>1. CASE s.plainPost
    BY <2>1 DEF AtBody, BodyTaken
  <2>2. CASE ~s.plainPost
    <3>1. s.parsedLength = 0 /\ s.contentType \in {"form", "text"}
      BY <1>6, <2>2
    <3> QED BY <3>1 DEF AtBody, BodyTaken
  <2> QED BY <2>1, <2>2
<1>7. ASSUME plain, ~s.handler.trivial, c < Whole(sent) PROVE PartsTaken(s, BodyUpTo(c))
  <2>0. s.parsedLength = c - h /\ s.contentLength = Len(sent.body) /\ BodyTaken(s, c)
    BY DEF AtBody
  <2>1. CASE s.plainPost
    <3>1. s.parsedLength < s.contentLength
      BY <1>3, <1>7, <2>0
    <3> QED BY <1>7, <2>0, <2>1, <3>1 DEF BodyTaken
  <2>2. CASE ~s.plainPost
    <3>1. s.parsedLength = 0
      BY <1>7, <2>2
    <3>2. s.params = <<>> /\ s.temp = <<>> /\ c = h
      BY <1>3, <2>0, <3>1 DEF BodyTaken
    <3>3. BodyUpTo(c) = <<>>
      BY <1>3, <3>2, NothingYet DEF BodyUpTo
    <3>4. <<>> \o <<>> = <<>>
      OBVIOUS
    <3> QED BY <3>2, <3>3, <3>4, JoinedNothing DEF PartsTaken
  <2> QED BY <2>1, <2>2
<1> HIDE DEF plain, buf, S, h
<1>8. /\ a \in RequestState /\ a.plainPost = plain /\ a.parse = s.parse
      /\ a.temp = s.temp /\ a.contentLength = s.contentLength
      /\ a.parsedLength = s.parsedLength /\ a.contentType = s.contentType
      /\ a.handler = s.handler /\ a.params = s.params /\ a.body = s.body
      /\ a.aligned = s.aligned /\ a.handled = s.handled
  BY <1>2, ModeChosen
<1>9. CASE ~plain
  <2>1. a = s
    <3>1. s.plainPost = plain
      BY <1>2, <1>5, <1>9 DEF RequestState
    <3> QED BY <3>1 DEF RequestState
  <2>2. BodyGot(b1, e)
    <3> HIDE DEF a
    <3>1. BodyGot([handleBody(s, buf) EXCEPT !.parsedLength = @ + Len(buf)], e)
      BY <1>5, <1>9, RawBody DEF buf, S
    <3> QED BY <2>1, <3>1
  <2>3. b = b1
    BY <1>9
  <2> QED BY <1>1, <2>2, <2>3 DEF buf, S
<1>10. CASE plain
  <2>1. FormBegun(a, c)
    <3> HIDE DEF a
    <3>1. /\ s.parse = "body" /\ s.handled = 0 /\ s.aligned
          /\ s.contentLength = Len(sent.body) /\ c >= h
          /\ s.parsedLength = c - h /\ s.parsedLength # s.contentLength
      BY DEF AtBody, h
    <3>2. ~a.handler.trivial /\ c < Whole(sent) => PartsTaken(a, BodyUpTo(c))
      BY <1>7, <1>8, <1>10 DEF PartsTaken
    <3> QED BY <1>6, <1>8, <1>10, <3>1, <3>2 DEF FormBegun, h
  <2> HIDE DEF a
  <2>2. CASE a.handler.trivial
    <3>1. BodyGot(b3, e)
      BY <1>4, <2>1, <2>2, CountedBody
    <3>2. b = b3
      BY <1>10, <2>2
    <3> QED BY <1>1, <3>1, <3>2 DEF buf, S
  <2>3. CASE ~a.handler.trivial
    <3>1. BodyGot(b2, e)
      BY <2>1, <2>3, FormBody DEF buf, S
    <3>2. b = b2
      BY <1>10, <2>3
    <3> QED BY <1>1, <3>1, <3>2 DEF buf, S
  <2> QED BY <2>2, <2>3
<1> QED BY <1>2, <1>9, <1>10

LEMMA BodyTurn ==
  ASSUME sent \in Requests, NEW c \in Nat, NEW e \in (c + 1)..Len(stream(sent)),
         NEW s \in RequestState, AtBody(s, c), NEW reaction
  PROVE  TurnedTo(onDataTurn([s |-> s, rest |-> SubSeq(stream(sent), c + 1, e)], reaction), c, e)
<1> DEFINE S == stream(sent)
           buf == SubSeq(S, c + 1, e)
           x == onDataTurn([s |-> s, rest |-> buf], reaction)
           u == bodyData(s, buf, reaction)
<1>1. sent.first # Blank /\ s.parse = "body"
  BY DEF AtBody
<1>2. PICK b : /\ BodyGot(b, e)
               /\ u = IF b.parsedLength = b.contentLength THEN handleRequest(b, reaction) ELSE b
  BY <1>1, BodyPieceGot
<1>3. /\ HeadEnd(sent) \in Nat /\ Len(S) \in Nat
      /\ Len(sent.body) \in Nat /\ Whole(sent) = HeadEnd(sent) + Len(sent.body)
  BY BodyIs, <1>1
<1>4. c >= HeadEnd(sent) /\ e \in 0..Len(S) /\ e >= HeadEnd(sent) /\ c < e /\ e \in Nat
      /\ Len(sent.body) > 0
  BY <1>3 DEF AtBody
<1>5. /\ b \in RequestState /\ b.parse = "body" /\ b.handled = 0 /\ b.aligned
      /\ b.contentLength = Len(sent.body) /\ b.parsedLength = e - HeadEnd(sent)
      /\ BodyTaken(b, e)
      /\ e = Whole(sent) => Handed(b)
  BY <1>2 DEF BodyGot
<1>6. x.s = u /\ x.rest = <<>>
  <2> HIDE DEF buf, u
  <2>1. x = [s |-> bodyData(s, buf, reaction), rest |-> <<>>]
    BY <1>1 DEF onDataTurn
  <2> QED BY <2>1 DEF u
<1> HIDE DEF u, x, S
<1>7. CASE b.parsedLength = b.contentLength
  <2>1. e = Whole(sent)
    BY <1>3, <1>4, <1>5, <1>7
  <2>2. u = handleRequest(b, reaction)
    BY <1>2, <1>7
  <2>3. u \in RequestState /\ Same(b, u) /\ u.parse = "end" /\ u.handled = 1
    BY <1>5, <2>2, HandleIs
  <2>4. Handed(u)
    BY <1>5, <2>1, <2>3 DEF Handed, Same
  <2>5. AtEnd(u, e)
    <3>1. e >= Whole(sent)
      BY <1>4, <2>1
    <3> QED BY <1>1, <1>5, <2>3, <2>4, <3>1 DEF AtEnd, Same
  <2>6. StateAt(x.s, e)
    BY <1>4, <1>6, <2>3, <2>5 DEF StateAt, S
  <2>7. TurnedTo(x, c, e)
    BY <1>4, <1>6, <2>6, TurnToEnd
  <2> QED BY <2>7 DEF x, S
<1>8. CASE b.parsedLength # b.contentLength
  <2>1. u = b
    BY <1>2, <1>8
  <2>2. AtBody(u, e)
    BY <1>1, <1>4, <1>5, <1>8, <2>1 DEF AtBody
  <2>3. StateAt(x.s, e)
    BY <1>4, <1>5, <1>6, <2>1, <2>2 DEF StateAt, S
  <2>4. TurnedTo(x, c, e)
    BY <1>4, <1>6, <2>3, TurnToEnd
  <2> QED BY <2>4 DEF x, S
<1> QED BY <1>7, <1>8

(* What comes after the end, and after a failure, is thrown away.          *)
LEMMA EndTurn ==
  ASSUME sent \in Requests, NEW c \in Nat, NEW e \in (c + 1)..Len(stream(sent)),
         NEW s \in RequestState, AtEnd(s, c) \/ AtFail(s), NEW unread, NEW reaction
  PROVE  TurnedTo(onDataTurn([s |-> s, rest |-> unread], reaction), c, e)
<1> DEFINE x == onDataTurn([s |-> s, rest |-> unread], reaction)
<1>1. s.parse \in {"end", "fail"}
  BY DEF AtEnd, AtFail
<1>2. x.s = s /\ x.rest = <<>>
  <2>1. x = [s |-> s, rest |-> <<>>]
    BY <1>1 DEF onDataTurn
  <2> QED BY <2>1
<1> HIDE DEF x
<1>3. Len(stream(sent)) \in Nat
  <2>1. IsStream(sent, stream(sent))
    BY StreamIs
  <2>2. stream(sent) \in Seq(Token)
    BY <2>1 DEF IsStream
  <2> QED BY <2>2
<1>4. e \in 0..Len(stream(sent)) /\ c < e /\ e \in Nat
  BY <1>3
<1>5. AtEnd(s, e) \/ AtFail(s)
  <2>1. CASE AtFail(s)
    BY <2>1
  <2>2. CASE AtEnd(s, c)
    <3>1. Whole(sent) \in Nat /\ c >= Whole(sent)
      <4>1. sent.first # Blank
        BY <2>2 DEF AtEnd
      <4> QED BY <2>2, <4>1, BodyIs DEF AtEnd
    <3>2. e >= Whole(sent)
      BY <1>4, <3>1
    <3> QED BY <2>2, <3>2 DEF AtEnd
  <2> QED BY <2>1, <2>2
<1>6. StateAt(x.s, e)
  BY <1>2, <1>4, <1>5 DEF StateAt
<1>7. TurnedTo(x, c, e)
  BY <1>2, <1>4, <1>6, TurnToEnd
<1> QED BY <1>7 DEF x

LEMMA TurnIs ==
  ASSUME sent \in Requests, NEW c \in Nat, NEW e \in (c + 1)..Len(stream(sent)),
         NEW s, StateAt(s, c), NEW reaction
  PROVE  TurnedTo(onDataTurn([s |-> s, rest |-> SubSeq(stream(sent), c + 1, e)], reaction), c, e)
<1>1. s \in RequestState
  BY DEF StateAt
<1>2. CASE AtStart(s, c)
  BY <1>1, <1>2, StartTurn
<1>3. CASE \E i \in 0..Len(sent.headers) : AtHeader(s, c, i)
  <2>1. PICK i : AtHeader(s, c, i)
    BY <1>3
  <2> QED BY <1>1, <2>1, HeaderTurn
<1>4. CASE AtBody(s, c)
  BY <1>1, <1>4, BodyTurn
<1>5. CASE AtEnd(s, c) \/ AtFail(s)
  BY <1>1, <1>5, EndTurn
<1> QED BY <1>2, <1>3, <1>4, <1>5 DEF StateAt

-------------------------------------------------------------------------------
(* The loop of _onData.                                                    *)
IsTurned(s, buf, reaction, m, f) ==
  f = [n \in 0..m |-> IF n = 0 THEN [s |-> s, rest |-> buf]
                      ELSE LET x == f[n - 1]
                           IN  IF x.rest = <<>> THEN x ELSE onDataTurn(x, reaction)]
TurnedOf(s, buf, reaction) ==
  CHOOSE after : after = [n \in 0..Len(buf) |->
                            IF n = 0 THEN [s |-> s, rest |-> buf]
                            ELSE LET x == after[n - 1]
                                 IN  IF x.rest = <<>> THEN x ELSE onDataTurn(x, reaction)]
turn(x, reaction) == IF x.rest = <<>> THEN x ELSE onDataTurn(x, reaction)

LEMMA TurnsAreDefined ==
  ASSUME NEW s, NEW buf, NEW reaction, NEW m \in Nat
  PROVE  \E f : IsTurned(s, buf, reaction, m, f)
<1> DEFINE a == [s |-> s, rest |-> buf]
           T == {k \in Nat : \E f : IsTurned(s, buf, reaction, k, f)}
<1>0. ASSUME NEW k \in Nat, NEW f,
             f = [n \in 0..k |-> IF n = 0 THEN a ELSE turn(f[n - 1], reaction)]
      PROVE  IsTurned(s, buf, reaction, k, f)
  BY <1>0 DEF IsTurned, turn
<1>1. 0 \in T
  <2> DEFINE f == [i \in 0..0 |-> a]
             g == [n \in 0..0 |-> IF n = 0 THEN a ELSE turn(f[n - 1], reaction)]
  <2> HIDE DEF a
  <2>1. \A n \in 0..0 : n = 0 /\ f[n] = a
    OBVIOUS
  <2>2. f = g
    BY <2>1
  <2>3. IsTurned(s, buf, reaction, 0, f)
    BY <1>0, <2>2
  <2> QED BY <2>3
<1>2. ASSUME NEW l \in Nat, l \in T PROVE l + 1 \in T
  <2>1. PICK t : IsTurned(s, buf, reaction, l, t)
    BY <1>2
  <2>2. t = [n \in 0..l |-> IF n = 0 THEN a ELSE turn(t[n - 1], reaction)]
    BY <2>1 DEF IsTurned, turn
  <2> DEFINE u == [i \in 0..(l + 1) |-> IF i = l + 1 THEN turn(t[l], reaction) ELSE t[i]]
             v == [i \in 0..(l + 1) |-> IF i = 0 THEN a ELSE turn(u[i - 1], reaction)]
  <2> HIDE DEF a
  <2>3. ASSUME NEW i \in 0..(l + 1) PROVE u[i] = v[i]
    <3>1. CASE i = l + 1
      <4>1. i - 1 = l /\ l \in 0..(l + 1) /\ l # l + 1 /\ i # 0
        BY <3>1
      <4>2. u[l] = t[l]
        BY <4>1
      <4> QED BY <3>1, <4>1, <4>2
    <3>2. CASE i # l + 1
      <4>1. i \in 0..l
        BY <3>2
      <4>2. t[i] = IF i = 0 THEN a ELSE turn(t[i - 1], reaction)
        BY <2>2, <4>1
      <4>3. i # 0 => i - 1 \in 0..(l + 1) /\ i - 1 # l + 1
        BY <4>1
      <4>4. i # 0 => u[i - 1] = t[i - 1]
        BY <4>3
      <4>5. u[i] = t[i]
        BY <3>2
      <4> QED BY <4>2, <4>4, <4>5
    <3> QED BY <3>1, <3>2
  <2>4. u = v
    BY <2>3
  <2>5. IsTurned(s, buf, reaction, l + 1, u)
    <3> HIDE DEF T
    <3>1. l + 1 \in Nat
      OBVIOUS
    <3>2. u = [n \in 0..(l + 1) |-> IF n = 0 THEN a ELSE turn(u[n - 1], reaction)]
      BY <2>4
    <3> HIDE DEF u
    <3> QED BY <1>0, <3>1, <3>2
  <2> QED BY <2>5
<1>3. m \in T
  <2> HIDE DEF T
  <2> QED BY <1>1, <1>2, SetInduction
<1> QED BY <1>3

LEMMA TurnedIs ==
  ASSUME NEW s, NEW buf \in Seq(Token), NEW reaction
  PROVE  LET g == TurnedOf(s, buf, reaction)
         IN  /\ g[0] = [s |-> s, rest |-> buf]
             /\ \A k \in 0..(Len(buf) - 1) : g[k + 1] = turn(g[k], reaction)
             /\ onData(s, buf, reaction) = g[Len(buf)].s
<1>1. Len(buf) \in Nat
  OBVIOUS
<1>2. PICK f : IsTurned(s, buf, reaction, Len(buf), f)
  BY <1>1, TurnsAreDefined
<1> DEFINE g == TurnedOf(s, buf, reaction)
           a == [s |-> s, rest |-> buf]
<1>3. IsTurned(s, buf, reaction, Len(buf), g)
  BY <1>2 DEF TurnedOf, IsTurned
<1>6. onData(s, buf, reaction) = g[Len(buf)].s
  BY DEF onData, TurnedOf
<1> HIDE DEF g
<1>7. g = [n \in 0..Len(buf) |-> IF n = 0 THEN a ELSE turn(g[n - 1], reaction)]
  BY <1>3 DEF IsTurned, turn
<1> HIDE DEF a
<1>4. g[0] = a
  <2>1. 0 \in 0..Len(buf)
    BY <1>1
  <2> QED BY <1>7, <2>1
<1>5. ASSUME NEW k \in 0..(Len(buf) - 1) PROVE g[k + 1] = turn(g[k], reaction)
  <2> DEFINE j == k + 1
  <2>1. j \in 0..Len(buf) /\ j # 0 /\ j - 1 = k
    BY <1>1
  <2> HIDE DEF j
  <2>2. g[j] = turn(g[j - 1], reaction)
    BY <1>7, <2>1
  <2> QED BY <2>1, <2>2 DEF j
<1> QED BY <1>4, <1>5, <1>6 DEF g, a

(* Turn by turn the object comes to the end of the segment.                *)
TurnedBy(x, k, c, e) ==
  \E d \in c..e : /\ d >= c + k \/ d = e
                  /\ StateAt(x.s, d) /\ x.rest = SubSeq(stream(sent), d + 1, e)

LEMMA DataTaken ==
  ASSUME sent \in Requests, NEW c \in Nat, NEW e \in c..Len(stream(sent)),
         NEW s, StateAt(s, c), NEW reaction
  PROVE  StateAt(onData(s, SubSeq(stream(sent), c + 1, e), reaction), e)
<1> DEFINE S == stream(sent)
           buf == SubSeq(S, c + 1, e)
           g == TurnedOf(s, buf, reaction)
           A == {k \in Nat : k <= e - c => TurnedBy(g[k], k, c, e)}
<1>1. S \in Seq(Token) /\ Len(S) \in Nat
  <2>1. IsStream(sent, stream(sent))
    BY StreamIs
  <2>2. S \in Seq(Token)
    BY <2>1 DEF IsStream
  <2> HIDE DEF S
  <2> QED BY <2>2
<1>2. c \in 0..Len(S) /\ e \in c..Len(S) /\ e \in Nat
  BY <1>1
<1>3. buf \in Seq(Token) /\ Len(buf) = e - c
  <2> HIDE DEF S
  <2> QED BY <1>1, <1>2, PieceIs
<1>4. buf = SubSeq(stream(sent), c + 1, e)
  OBVIOUS
<1> HIDE DEF buf, S
<1>5. /\ g[0] = [s |-> s, rest |-> buf]
      /\ \A k \in 0..(Len(buf) - 1) : g[k + 1] = turn(g[k], reaction)
      /\ onData(s, buf, reaction) = g[Len(buf)].s
  BY <1>3, TurnedIs
<1> HIDE DEF g
<1>6. 0 \in A
  <2>1. g[0].s = s /\ g[0].rest = buf
    BY <1>5
  <2>2. c \in c..e /\ c >= c + 0
    BY <1>2
  <2>3. TurnedBy(g[0], 0, c, e)
    BY <1>4, <2>1, <2>2 DEF TurnedBy
  <2> QED BY <2>3
<1>7. ASSUME NEW k \in Nat, k \in A PROVE k + 1 \in A
  <2> SUFFICES ASSUME k + 1 <= e - c PROVE TurnedBy(g[k + 1], k + 1, c, e)
    OBVIOUS
  <2>1. k <= e - c /\ k \in 0..(Len(buf) - 1)
    BY <1>2, <1>3
  <2>2. TurnedBy(g[k], k, c, e)
    BY <1>7, <2>1
  <2>3. g[k + 1] = turn(g[k], reaction)
    BY <1>5, <2>1
  <2> DEFINE x == g[k]
             y == g[k + 1]
  <2> HIDE DEF x, y, A
  <2>4. PICK d \in c..e : /\ d >= c + k \/ d = e
                          /\ StateAt(x.s, d) /\ x.rest = SubSeq(stream(sent), d + 1, e)
    BY <2>2 DEF TurnedBy, x
  <2>5. d \in Nat /\ d \in 0..Len(S) /\ e \in d..Len(S)
    BY <1>2
  <2>6. x.rest \in Seq(Token) /\ Len(x.rest) = e - d
    <3> DEFINE z == SubSeq(S, d + 1, e)
    <3>1. z \in Seq(Token) /\ Len(z) = e - d
      BY <1>1, <2>5, PieceIs
    <3>2. x.rest = z
      BY <2>4 DEF S
    <3> HIDE DEF z
    <3> QED BY <3>1, <3>2
  <2>7. CASE d = e
    <3>1. x.rest = <<>>
      BY <2>5, <2>4, <2>7, NothingYet
    <3>2. y = x
      BY <2>3, <3>1 DEF turn, x, y
    <3> QED BY <2>4, <2>7, <3>2 DEF TurnedBy, y
  <2>8. CASE d # e
    <3>1. d < e /\ e \in (d + 1)..Len(S)
      BY <1>2, <2>5, <2>8
    <3>2. x.rest # <<>>
      BY <1>2, <2>5, <2>6, <3>1
    <3>3. y = onDataTurn(x, reaction)
      BY <2>3, <3>2 DEF turn, x, y
    <3>4. onDataTurn(x, reaction) = onDataTurn([s |-> x.s, rest |-> x.rest], reaction)
      BY DEF onDataTurn
    <3>5. TurnedTo(y, d, e)
      <4>1. e \in (d + 1)..Len(stream(sent))
        BY <3>1 DEF S
      <4>2. TurnedTo(onDataTurn([s |-> x.s, rest |-> SubSeq(stream(sent), d + 1, e)], reaction), d, e)
        BY <2>4, <2>5, <4>1, TurnIs
      <4> QED BY <2>4, <3>3, <3>4, <4>2
    <3>6. PICK p \in (d + 1)..e : StateAt(y.s, p) /\ y.rest = SubSeq(stream(sent), p + 1, e)
      BY <3>5 DEF TurnedTo
    <3>7. p \in c..e /\ p >= c + (k + 1)
      BY <1>2, <2>4, <2>5, <2>8
    <3> QED BY <3>6, <3>7 DEF TurnedBy, y
  <2> QED BY <2>7, <2>8
<1>8. e - c \in A
  <2>1. e - c \in Nat
    BY <1>2
  <2> HIDE DEF A
  <2> QED BY <1>6, <1>7, <2>1, SetInduction
<1>9. TurnedBy(g[e - c], e - c, c, e)
  <2>1. e - c <= e - c
    BY <1>2
  <2> QED BY <1>8, <2>1
<1>10. StateAt(g[e - c].s, e)
  <2>1. PICK d \in c..e : (d >= c + (e - c) \/ d = e) /\ StateAt(g[e - c].s, d)
    BY <1>9 DEF TurnedBy
  <2>2. d = e
    BY <1>2, <2>1
  <2> QED BY <2>1, <2>2
<1> QED BY <1>3, <1>5, <1>10 DEF buf, S

(* What a state of the object says of the request.                         *)
LEMMA StateTells ==
  ASSUME sent \in Requests, NEW s, NEW c, StateAt(s, c)
  PROVE  LET whole == Len(stream(sent)) - Len(sent.excess)
         IN  /\ s.handled <= 1
             /\ s.handled = 1 => c >= whole
             /\ sent.first # Blank /\ sent.excess = <<>> /\ c >= whole => s.handled = 1
             /\ s.aligned
             /\ s.handled = 1 => Handed(s)
<1> DEFINE S == stream(sent)
           whole == Len(S) - Len(sent.excess)
<1>1. c \in 0..Len(S) /\ s \in RequestState
  BY DEF StateAt
<1>2. IsStream(sent, S) /\ Len(sent.excess) \in Nat /\ Len(sent.headers) \in Nat
  BY StreamIs, RequestIs
<1>3. CASE sent.first = Blank
  <2>1. s.handled = 0 /\ s.aligned
    BY <1>3 DEF StateAt, AtStart, AtHeader, AtBody, AtEnd, AtFail, Fresh
  <2> QED BY <1>3, <2>1
<1>4. CASE sent.first # Blank
  <2>1. /\ HeadEnd(sent) \in Nat /\ Len(sent.body) \in Nat /\ Len(S) \in Nat
        /\ Whole(sent) = HeadEnd(sent) + Len(sent.body)
    BY <1>4, BodyIs
  <2>2. Len(S) = Whole(sent) + Len(sent.excess)
    BY <1>2, <1>4 DEF IsStream
  <2> DEFINE h == HeadEnd(sent)
             l == Len(sent.body)
             W == Whole(sent)
             n == Len(sent.headers)
             k == Len(sent.excess)
             L == Len(S)
  <2>3. h = 3 * n + 4 /\ (sent.excess = <<>> => k = 0) /\ whole = L - k
    BY DEF HeadEnd
  <2>9. h \in Nat /\ l \in Nat /\ L \in Nat /\ W = h + l /\ L = W + k /\ k \in Nat /\ n \in Nat
        /\ c \in 0..L
    BY <1>1, <1>2, <2>1, <2>2
  <2> HIDE DEF S, whole, h, l, W, n, k, L
  <2>10. whole = W /\ c \in Nat /\ (sent.excess = <<>> => L = W) /\ W >= h /\ h >= 4
    BY <2>3, <2>9
  <2>4. CASE AtStart(s, c)
    <3>1. s.handled = 0 /\ s.aligned /\ c \in 0..2
      BY <1>4, <2>4 DEF AtStart, Fresh
    <3>2. ~(c >= whole)
      BY <2>9, <2>10, <3>1
    <3> QED BY <3>1, <3>2 DEF whole, S
  <2>5. CASE \E i \in 0..Len(sent.headers) : AtHeader(s, c, i)
    <3>1. PICK i \in 0..Len(sent.headers) : AtHeader(s, c, i)
      BY <2>5
    <3>2. s.handled = 0 /\ s.aligned
          /\ c \in (3 * i + 3)..(IF i < n THEN 3 * i + 5 ELSE 3 * i + 3)
      BY <3>1 DEF AtHeader, Fresh, n
    <3>3. i \in 0..n
      BY DEF n
    <3>4. ~(c >= whole)
      <4>1. CASE i < n
        BY <2>3, <2>9, <2>10, <3>2, <3>3, <4>1
      <4>2. CASE ~(i < n)
        BY <2>3, <2>9, <2>10, <3>2, <3>3, <4>2
      <4> QED BY <4>1, <4>2
    <3> QED BY <3>2, <3>4 DEF whole, S
  <2>6. CASE AtBody(s, c)
    <3>1. /\ s.handled = 0 /\ s.aligned /\ s.parsedLength = c - h
          /\ s.parsedLength # l
      BY <2>6 DEF AtBody, h, l
    <3>2. c # W
      BY <2>9, <2>10, <3>1
    <3>3. sent.excess = <<>> => ~(c >= whole)
      BY <2>9, <2>10, <3>2
    <3> QED BY <3>1, <3>3 DEF whole, S
  <2>7. CASE AtEnd(s, c)
    <3>1. s.handled = 1 /\ s.aligned /\ c >= whole /\ Handed(s)
      BY <2>7, <2>10 DEF AtEnd, W
    <3> QED BY <3>1 DEF whole, S
  <2>8. CASE AtFail(s)
    BY <1>4, <2>8 DEF AtFail
  <2> QED BY <2>4, <2>5, <2>6, <2>7, <2>8 DEF StateAt
<1> QED BY <1>3, <1>4

(* The object is where the stream is, whatever becomes of its connection.  *)
ReqInv == sent \in Requests /\ pos \in Nat /\ StateAt(r, pos)

LEMMA StateKept ==
  ASSUME NEW s, NEW t, NEW c, StateAt(s, c), t \in RequestState, Same(s, t),
         t.parse = s.parse, t.handled = s.handled
  PROVE  StateAt(t, c)
<1>1. Fresh(s) => Fresh(t)
  BY DEF Fresh, Same
<1>2. AtStart(s, c) => AtStart(t, c)
  BY <1>1 DEF AtStart, Same
<1>3. ASSUME NEW i, AtHeader(s, c, i) PROVE AtHeader(t, c, i)
  BY <1>1, <1>3 DEF AtHeader, Same
<1>4. AtBody(s, c) => AtBody(t, c)
  <2>1. BodyTaken(s, c) => BodyTaken(t, c)
    BY DEF BodyTaken, PartsTaken, Same
  <2> QED BY <2>1 DEF AtBody, Same
<1>5. AtEnd(s, c) => AtEnd(t, c)
  <2>1. Handed(s) => Handed(t)
    BY DEF Handed, Same
  <2> QED BY <2>1 DEF AtEnd, Same
<1>6. AtFail(s) => AtFail(t)
  BY DEF AtFail, Same
<1>7. (\E i \in 0..Len(sent.headers) : AtHeader(s, c, i))
        => \E i \in 0..Len(sent.headers) : AtHeader(t, c, i)
  BY <1>3
<1> QED BY <1>2, <1>4, <1>5, <1>6, <1>7 DEF StateAt

LEMMA StartIs ==
  ASSUME sent \in Requests
  PROVE  StateAt(accepted, 0)
<1>1. accepted \in RequestState
  <2>1. CatchAll \in HandlerSet /\ <<>> \in Seq(Token) /\ <<>> \in Seq(Seq(Token))
    BY DEF HandlerSet
  <2> QED BY <2>1 DEF accepted, RequestState
<1>2. Len(stream(sent)) \in Nat
  <2>1. IsStream(sent, stream(sent))
    BY StreamIs
  <2>2. stream(sent) \in Seq(Token)
    BY <2>1 DEF IsStream
  <2> QED BY <2>2
<1>3. SubSeq(stream(sent), 1, 0) = <<>>
  <2>1. SubSeq(stream(sent), 0 + 1, 0) = <<>>
    BY NothingYet
  <2> QED BY <2>1
<1>4. AtStart(accepted, 0)
  BY <1>3 DEF AtStart, Fresh, accepted
<1> QED BY <1>1, <1>2, <1>4 DEF StateAt

LEMMA SegmentKeeps ==
  ASSUME ReqInv, NEW n \in Nat, NEW reaction, Segment(n, reaction)
  PROVE  StateAt(r', pos') /\ pos' \in Nat
<1> DEFINE c == pos
           e == pos + n
<1>1. /\ c \in Nat /\ e <= Len(stream(sent)) /\ pos' = e /\ StateAt(r, c) /\ sent \in Requests
      /\ r' = onData(r, SubSeq(stream(sent), c + 1, e), reaction)
  BY DEF ReqInv, Segment
<1>2. c \in Nat /\ e \in c..Len(stream(sent)) /\ e \in Nat
  <2>1. Len(stream(sent)) \in Int
    BY <1>1 DEF StateAt
  <2> QED BY <1>1, <2>1
<1> HIDE DEF c, e
<1>3. StateAt(onData(r, SubSeq(stream(sent), c + 1, e), reaction), e)
  BY <1>1, <1>2, DataTaken
<1> QED BY <1>1, <1>2, <1>3

LEMMA OthersKeep ==
  ASSUME ReqInv, RespondLater \/ Acked \/ AckTimeout \/ PollCloses \/ PeerCloses
  PROVE  StateAt(r', pos') /\ pos' \in Nat
<1>1. StateAt(r, pos) /\ r \in RequestState /\ pos \in Nat
  BY DEF ReqInv, StateAt
<1>2. CASE RespondLater
  <2>1. r' = send(r) /\ pos' = pos
    BY <1>2 DEF RespondLater
  <2> QED BY <1>1, <2>1, SendIs, StateKept
<1>3. CASE Acked
  <2> DEFINE t == [r EXCEPT !.response = "gone"]
  <2>1. t \in RequestState /\ Same(r, t) /\ t.parse = r.parse /\ t.handled = r.handled
    BY <1>1 DEF RequestState, Same
  <2>2. r' = t /\ pos' = pos
    BY <1>3 DEF Acked
  <2> HIDE DEF t
  <2> QED BY <1>1, <2>1, <2>2, StateKept
<1>4. CASE AckTimeout
  <2> DEFINE t == [r EXCEPT !.closing = TRUE]
  <2>1. t \in RequestState /\ Same(r, t) /\ t.parse = r.parse /\ t.handled = r.handled
    BY <1>1 DEF RequestState, Same
  <2>2. r' = t /\ pos' = pos
    BY <1>4 DEF AckTimeout
  <2> HIDE DEF t
  <2> QED BY <1>1, <2>1, <2>2, StateKept
<1>5. CASE PollCloses \/ PeerCloses
  <2> DEFINE t == [r EXCEPT !.open = FALSE, !.closing = FALSE]
  <2>1. t \in RequestState /\ Same(r, t) /\ t.parse = r.parse /\ t.handled = r.handled
    BY <1>1 DEF RequestState, Same
  <2>2. r' = t /\ pos' = pos
    BY <1>5 DEF PollCloses, PeerCloses, disconnected
  <2> HIDE DEF t
  <2> QED BY <1>1, <2>1, <2>2, StateKept
<1> QED BY <1>2, <1>3, <1>4, <1>5

LEMMA RequestKept ==
  ASSUME ReqInv, [Next]_vars
  PROVE  ReqInv'
<1>1. sent' = sent /\ sent \in Requests
  BY DEF ReqInv, Next, vars, Segment, RespondLater, Acked, AckTimeout, PollCloses, PeerCloses
<1>2. StateAt(r', pos') /\ pos' \in Nat
  <2>1. CASE \E n \in 1..MaxSegment, reaction \in Reactions : Segment(n, reaction)
    <3>1. PICK n \in 1..MaxSegment, reaction \in Reactions : Segment(n, reaction)
      BY <2>1
    <3>2. n \in Nat
      BY BoundAssumption
    <3> QED BY <3>1, <3>2, SegmentKeeps
  <2>2. CASE RespondLater \/ Acked \/ AckTimeout \/ PollCloses \/ PeerCloses
    BY <2>2, OthersKeep
  <2>3. CASE UNCHANGED vars
    BY <2>3 DEF ReqInv, vars
  <2> QED BY <2>1, <2>2, <2>3 DEF Next
<1>3. StateAt(r, pos)'
  BY <1>1, <1>2 DEF StateAt, AtStart, AtHeader, AtBody, AtEnd, AtFail, Handed, BodyTaken,
     BodyUpTo, AnnouncedBy, HeadEnd, Whole
<1> QED BY <1>1, <1>2, <1>3 DEF ReqInv

(* The object is always where the stream is: in a line of the request, in  *)
(* its body, behind its end, or failed at an empty first line; and has     *)
(* taken exactly what lies before.                                         *)
THEOREM RequestInvariant == MCSpec => []ReqInv
<1>1. MCInit => ReqInv
  BY StartIs DEF MCInit, Init, client, ReqInv
<1>2. ReqInv /\ [MCNext]_MCvars => ReqInv'
  <2> SUFFICES ASSUME ReqInv, [MCNext]_MCvars PROVE ReqInv'
    OBVIOUS
  <2>1. [Next]_vars
    BY DEF MCNext, MCvars, OfRequest, OfMultipart, OfResponse
  <2> QED BY <2>1, RequestKept
<1> QED BY <1>1, <1>2, PTL DEF MCSpec

THEOREM HandledWholeAlways == MCSpec => []HandledWhole
<1>1. ReqInv => HandledWhole
  BY StateTells DEF ReqInv, HandledWhole, Handed
<1> QED BY <1>1, RequestInvariant, PTL

-------------------------------------------------------------------------------
(* The bytes of multipart bodies.                                          *)
Octet == {Multipart!CR, Multipart!LF, Multipart!Dash, Multipart!FieldHeader, Multipart!FileHeader}
         \cup Range(Boundary) \cup UNION {Range(c) : c \in Contents}

Mark   == Multipart!Delimiter
Header(x) == IF x.file THEN Multipart!FileHeader ELSE Multipart!FieldHeader

(* A concatenation, and what is where in it.                               *)
LEMMA BytesJoined ==
  ASSUME NEW a \in Seq(Octet), NEW b \in Seq(Octet)
  PROVE  /\ a \o b \in Seq(Octet) /\ Len(a \o b) = Len(a) + Len(b)
         /\ Len(a) \in Nat /\ Len(b) \in Nat
         /\ \A i \in 1..Len(a) : (a \o b)[i] = a[i]
         /\ \A i \in 1..Len(b) : (a \o b)[Len(a) + i] = b[i]
<1>1. Len(a) \in Nat /\ Len(b) \in Nat
  OBVIOUS
<1>2. /\ a \o b \in Seq(Octet) /\ Len(a \o b) = Len(a) + Len(b)
      /\ \A i \in 1..(Len(a) + Len(b)) : (a \o b)[i] = IF i <= Len(a) THEN a[i] ELSE b[i - Len(a)]
  BY ConcatProperties
<1> DEFINE c == a \o b
           m == Len(a)
           n == Len(b)
<1> HIDE DEF c, m, n
<1>3. m \in Nat /\ n \in Nat /\ \A i \in 1..(m + n) : c[i] = IF i <= m THEN a[i] ELSE b[i - m]
  BY <1>1, <1>2 DEF c, m, n
<1>4. ASSUME NEW i \in 1..m PROVE c[i] = a[i]
  BY <1>3
<1>5. ASSUME NEW i \in 1..n PROVE c[m + i] = b[i]
  <2>1. m + i \in 1..(m + n) /\ ~(m + i <= m) /\ (m + i) - m = i
    BY <1>3
  <2> QED BY <1>3, <2>1
<1> QED BY <1>1, <1>2, <1>4, <1>5 DEF c, m, n

LEMMA ContentIs ==
  ASSUME NEW c \in Contents
  PROVE  /\ c \in Seq(Octet) /\ Len(c) \in Nat
         /\ \A k \in Len(Mark)..Len(c) : SubSeq(c, k - Len(Mark) + 1, k) # Mark
<1>1. c \in Seq(Range(c)) /\ \A k \in Len(Mark)..Len(c) : SubSeq(c, k - Len(Mark) + 1, k) # Mark
  BY BodyAssumption DEF Mark
<1>2. Range(c) \subseteq Octet
  BY DEF Octet
<1>3. c \in Seq(Octet)
  BY <1>1, <1>2, SeqMonotonic
<1> QED BY <1>1, <1>3

(* The delimiter begins with a CR, and has no other.                       *)
LEMMA MarkIs ==
  /\ Mark \in Seq(Octet) /\ Boundary \in Seq(Octet)
  /\ Len(Boundary) \in Nat \ {0} /\ Len(Mark) = 4 + Len(Boundary)
  /\ Mark[1] = Multipart!CR /\ Mark[2] = Multipart!LF
  /\ Mark[3] = Multipart!Dash /\ Mark[4] = Multipart!Dash
  /\ \A j \in 1..Len(Boundary) : Mark[4 + j] = Boundary[j]
  /\ \A j \in 2..Len(Mark) : Mark[j] # Multipart!CR
<1> DEFINE h == <<Multipart!CR, Multipart!LF, Multipart!Dash, Multipart!Dash>>
<1>1. Boundary \in Seq(Range(Boundary)) /\ Boundary # <<>> /\ Multipart!CR \notin Range(Boundary)
  BY BodyAssumption
<1>2. Boundary \in Seq(Octet)
  <2>1. Range(Boundary) \subseteq Octet
    BY DEF Octet
  <2> QED BY <1>1, <2>1, SeqMonotonic
<1>3. h \in Seq(Octet) /\ Len(h) = 4
  BY DEF Octet
<1>4. Mark = h \o Boundary
  BY DEF Mark, Multipart!Delimiter
<1>5. /\ Mark \in Seq(Octet) /\ Len(Mark) = 4 + Len(Boundary)
      /\ \A i \in 1..4 : Mark[i] = h[i]
      /\ \A i \in 1..Len(Boundary) : Mark[4 + i] = Boundary[i]
  <2> HIDE DEF h
  <2>1. /\ h \o Boundary \in Seq(Octet) /\ Len(h \o Boundary) = Len(h) + Len(Boundary)
        /\ \A i \in 1..Len(h) : (h \o Boundary)[i] = h[i]
        /\ \A i \in 1..Len(Boundary) : (h \o Boundary)[Len(h) + i] = Boundary[i]
    BY <1>2, <1>3, BytesJoined
  <2> QED BY <1>3, <1>4, <2>1
<1>6. Len(Boundary) \in Nat \ {0}
  BY <1>1, EmptySeq
<1>7. Mark[1] = Multipart!CR /\ Mark[2] = Multipart!LF /\ Mark[3] = Multipart!Dash
      /\ Mark[4] = Multipart!Dash
  <2>1. Mark[1] = h[1] /\ Mark[2] = h[2] /\ Mark[3] = h[3] /\ Mark[4] = h[4]
    BY <1>5
  <2> QED BY <2>1
<1>8. ASSUME NEW j \in 2..Len(Mark) PROVE Mark[j] # Multipart!CR
  <2> DEFINE m == Len(Boundary)
  <2>1. m \in Nat /\ j \in 2..(4 + m)
    BY <1>5, <1>6
  <2>2. CASE j \in {2, 3, 4}
    BY <1>7, <2>2 DEF Multipart!CR, Multipart!LF, Multipart!Dash
  <2>3. CASE j \notin {2, 3, 4}
    <3> HIDE DEF m
    <3>1. j - 4 \in 1..m /\ 4 + (j - 4) = j
      BY <2>1, <2>3
    <3>2. Mark[4 + (j - 4)] = Boundary[j - 4]
      BY <1>5, <3>1 DEF m
    <3>3. Boundary[j - 4] \in Range(Boundary)
      BY <1>2, <3>1 DEF m, Range
    <3> QED BY <1>1, <3>1, <3>2, <3>3
  <2> QED BY <2>2, <2>3
<1> QED BY <1>2, <1>5, <1>6, <1>7, <1>8

(* Where the header and the content of an item are, and a delimiter.       *)
HeaderAt(B, b, x) ==
  /\ B[b + 1] = Multipart!CR /\ B[b + 2] = Multipart!LF /\ B[b + 3] = Header(x)
  /\ B[b + 4] = Multipart!CR /\ B[b + 5] = Multipart!LF
  /\ B[b + 6] = Multipart!CR /\ B[b + 7] = Multipart!LF
ContentAt(B, b, c) == \A k \in 1..Len(c) : B[b + k] = c[k]
MarkAt(B, b)       == \A k \in 1..Len(Mark) : B[b + k] = Mark[k]

LEMMA ItemIs ==
  ASSUME NEW x \in Multipart!Item
  PROVE  /\ x = [file |-> x.file, content |-> x.content]
         /\ x.file \in BOOLEAN /\ x.content \in Contents
         /\ x.content \in Seq(Octet) /\ Len(x.content) \in Nat
<1>1. x \in [file : BOOLEAN, content : Contents]
  BY DEF Multipart!Item
<1>2. x.file \in BOOLEAN /\ x.content \in Contents /\ x = [file |-> x.file, content |-> x.content]
  BY <1>1
<1> QED BY <1>2, ContentIs

(* A delimiter and the text of an item.                                    *)
LEMMA TextIs ==
  ASSUME NEW x \in Multipart!Item
  PROVE  LET t == Mark \o Multipart!itemText(x)
         IN  /\ t \in Seq(Octet) /\ Len(t) = Len(Mark) + 7 + Len(x.content)
             /\ MarkAt(t, 0) /\ HeaderAt(t, Len(Mark), x)
             /\ ContentAt(t, Len(Mark) + 7, x.content)
<1> DEFINE a == <<Multipart!CR, Multipart!LF>>
           e == <<Header(x), Multipart!CR, Multipart!LF, Multipart!CR, Multipart!LF>>
           c == x.content
           h == a \o e
           u == h \o c
           t == Mark \o u
           L == Len(Mark)
           l == Len(c)
<1>1. Multipart!itemText(x) = u
  BY DEF Multipart!itemText, Header
<1>2. c \in Seq(Octet) /\ l \in Nat
  BY ItemIs
<1>3. Header(x) \in Octet
  BY DEF Octet, Header
<1>4. a \in Seq(Octet) /\ Len(a) = 2 /\ a[1] = Multipart!CR /\ a[2] = Multipart!LF
  BY DEF Octet
<1>5. /\ e \in Seq(Octet) /\ Len(e) = 5 /\ e[1] = Header(x) /\ e[2] = Multipart!CR
      /\ e[3] = Multipart!LF /\ e[4] = Multipart!CR /\ e[5] = Multipart!LF
  <2>1. Multipart!CR \in Octet /\ Multipart!LF \in Octet
    BY DEF Octet
  <2> QED BY <1>3, <2>1
<1> HIDE DEF a, e, c
<1>6. /\ h \in Seq(Octet) /\ Len(h) = 7
      /\ h[1] = Multipart!CR /\ h[2] = Multipart!LF /\ h[3] = Header(x) /\ h[4] = Multipart!CR
      /\ h[5] = Multipart!LF /\ h[6] = Multipart!CR /\ h[7] = Multipart!LF
  <2>1. /\ h \in Seq(Octet) /\ Len(h) = Len(a) + Len(e)
        /\ \A i \in 1..Len(a) : h[i] = a[i]
        /\ \A i \in 1..Len(e) : h[Len(a) + i] = e[i]
    BY <1>4, <1>5, BytesJoined
  <2> HIDE DEF h
  <2>2. Len(h) = 7 /\ \A i \in 1..2 : h[i] = a[i] /\ \A j \in 1..5 : h[2 + j] = e[j]
    BY <1>4, <1>5, <2>1
  <2>3. h[1] = a[1] /\ h[2] = a[2] /\ h[2 + 1] = e[1] /\ h[2 + 2] = e[2] /\ h[2 + 3] = e[3]
        /\ h[2 + 4] = e[4] /\ h[2 + 5] = e[5]
    BY <2>2
  <2> QED BY <1>4, <1>5, <2>1, <2>2, <2>3
<1> HIDE DEF h
<1>7. /\ u \in Seq(Octet) /\ Len(u) = 7 + l
      /\ \A i \in 1..7 : u[i] = h[i]
      /\ \A i \in 1..l : u[7 + i] = c[i]
  <2>1. /\ u \in Seq(Octet) /\ Len(u) = Len(h) + Len(c)
        /\ \A i \in 1..Len(h) : u[i] = h[i]
        /\ \A i \in 1..Len(c) : u[Len(h) + i] = c[i]
    BY <1>2, <1>6, BytesJoined
  <2> QED BY <1>6, <2>1
<1> HIDE DEF u
<1>8. L \in Nat /\ Mark \in Seq(Octet)
  BY MarkIs
<1>9. /\ t \in Seq(Octet) /\ Len(t) = L + (7 + l)
      /\ \A i \in 1..L : t[i] = Mark[i]
      /\ \A i \in 1..(7 + l) : t[L + i] = u[i]
  <2>1. /\ t \in Seq(Octet) /\ Len(t) = Len(Mark) + Len(u)
        /\ \A i \in 1..Len(Mark) : t[i] = Mark[i]
        /\ \A i \in 1..Len(u) : t[Len(Mark) + i] = u[i]
    BY <1>7, <1>8, BytesJoined
  <2> QED BY <1>7, <2>1
<1> HIDE DEF t, L, l
<1>10. MarkAt(t, 0)
  <2>1. \A k \in 1..L : 0 + k = k
    BY <1>8
  <2> QED BY <1>9, <2>1 DEF MarkAt, L
<1>11. HeaderAt(t, L, x)
  <2>1. \A i \in 1..7 : i \in 1..(7 + l)
    BY <1>2
  <2>2. \A i \in 1..7 : t[L + i] = h[i]
    BY <1>7, <1>9, <2>1
  <2>3. /\ t[L + 1] = h[1] /\ t[L + 2] = h[2] /\ t[L + 3] = h[3] /\ t[L + 4] = h[4]
        /\ t[L + 5] = h[5] /\ t[L + 6] = h[6] /\ t[L + 7] = h[7]
    BY <2>2
  <2> QED BY <1>6, <2>3 DEF HeaderAt
<1>12. ContentAt(t, L + 7, c)
  <2>1. ASSUME NEW k \in 1..l PROVE t[L + 7 + k] = c[k]
    <3>1. 7 + k \in 1..(7 + l) /\ L + (7 + k) = L + 7 + k
      BY <1>2, <1>8
    <3>2. t[L + (7 + k)] = u[7 + k]
      BY <1>9, <3>1
    <3> QED BY <1>7, <3>1, <3>2
  <2> QED BY <2>1 DEF ContentAt, l
<1>13. Len(t) = L + 7 + l
  BY <1>2, <1>8, <1>9
<1> QED BY <1>1, <1>9, <1>10, <1>11, <1>12, <1>13 DEF t, L, l, c

(* What is in a sequence is at another place in one that holds it there.   *)
Carries(B, d, s, e) == \A k \in 1..e : k + d > 0 => B[k + d] = s[k]

SameBytes(B, c, s, b, m) == \A k \in 1..m : B[c + k] = s[b + k]

LEMMA MovedBytes ==
  ASSUME NEW s, NEW B, NEW b \in Nat, NEW e \in Nat, NEW d \in Int, b + d >= 0,
         Carries(B, d, s, e), NEW m \in Nat, b + m <= e
  PROVE  SameBytes(B, b + d, s, b, m)
<1> SUFFICES ASSUME NEW k \in 1..m PROVE B[b + d + k] = s[b + k]
  BY DEF SameBytes
<1>1. b + k \in 1..e /\ (b + k) + d > 0 /\ (b + k) + d = b + d + k
  OBVIOUS
<1> QED BY <1>1 DEF Carries

LEMMA MovedHeader ==
  ASSUME NEW s, NEW B, NEW b \in Nat, NEW e \in Nat, NEW d \in Int, b + d >= 0,
         Carries(B, d, s, e), NEW x, HeaderAt(s, b, x), b + 7 <= e
  PROVE  HeaderAt(B, b + d, x)
<1>1. SameBytes(B, b + d, s, b, 7)
  BY MovedBytes
<1>2. /\ B[b + d + 1] = s[b + 1] /\ B[b + d + 2] = s[b + 2] /\ B[b + d + 3] = s[b + 3]
      /\ B[b + d + 4] = s[b + 4] /\ B[b + d + 5] = s[b + 5] /\ B[b + d + 6] = s[b + 6]
      /\ B[b + d + 7] = s[b + 7]
  BY <1>1 DEF SameBytes
<1> QED BY <1>2 DEF HeaderAt

LEMMA MovedContent ==
  ASSUME NEW s, NEW B, NEW b \in Nat, NEW e \in Nat, NEW d \in Int, b + d >= 0,
         Carries(B, d, s, e), NEW c, ContentAt(s, b, c), Len(c) \in Nat, b + Len(c) <= e
  PROVE  ContentAt(B, b + d, c)
<1>1. SameBytes(B, b + d, s, b, Len(c))
  BY MovedBytes
<1> QED BY <1>1 DEF ContentAt, SameBytes

LEMMA MovedMark ==
  ASSUME NEW s, NEW B, NEW b \in Nat, NEW e \in Nat, NEW d \in Int, b + d >= 0,
         Carries(B, d, s, e), MarkAt(s, b), b + Len(Mark) <= e
  PROVE  MarkAt(B, b + d)
<1>1. SameBytes(B, b + d, s, b, Len(Mark))
  <2>1. Len(Mark) \in Nat
    BY MarkIs
  <2> QED BY <2>1, MovedBytes
<1> QED BY <1>1 DEF MarkAt, SameBytes

(* A body begins without the CR LF of its first delimiter, and ends with   *)
(* one more.                                                               *)
LEMMA FramedIs ==
  ASSUME NEW y \in Seq(Octet), NEW n \in Nat, Len(y) = n, n >= 2
  PROVE  LET B == SubSeq(y, 3, Len(y)) \o Mark
                  \o <<Multipart!Dash, Multipart!Dash, Multipart!CR, Multipart!LF>>
         IN  /\ B \in Seq(Octet) /\ Len(B) = n - 2 + Len(Mark) + 4
             /\ \A k \in 1..n : k + (-2) > 0 => B[k + (-2)] = y[k]
             /\ MarkAt(B, n - 2)
             /\ B[n - 2 + Len(Mark) + 1] = Multipart!Dash
<1> DEFINE z == SubSeq(y, 3, Len(y))
           e == <<Multipart!Dash, Multipart!Dash, Multipart!CR, Multipart!LF>>
           u == z \o Mark
           B == u \o e
           L == Len(Mark)
<1>1. z \in Seq(Octet) /\ Len(z) = n - 2 /\ \A i \in 1..(n - 2) : z[i] = y[i + 2]
  <2>1. z \in Seq(Octet) /\ Len(z) = (IF 3 <= n THEN n - 3 + 1 ELSE 0)
        /\ \A i \in 1..(n - 3 + 1) : z[i] = y[3 + i - 1]
    BY SubSeqProperties
  <2> HIDE DEF z
  <2>2. \A i \in 1..(n - 2) : i \in 1..(n - 3 + 1) /\ 3 + i - 1 = i + 2
    OBVIOUS
  <2> QED BY <2>1, <2>2
<1>2. e \in Seq(Octet) /\ Len(e) = 4 /\ e[1] = Multipart!Dash
  BY DEF Octet
<1>3. L \in Nat /\ Mark \in Seq(Octet)
  BY MarkIs
<1> HIDE DEF z, e
<1>4. /\ u \in Seq(Octet) /\ Len(u) = Len(z) + L
      /\ \A i \in 1..Len(z) : u[i] = z[i]
      /\ \A i \in 1..L : u[Len(z) + i] = Mark[i]
  BY <1>1, <1>3, BytesJoined
<1> HIDE DEF u
<1>5. /\ B \in Seq(Octet) /\ Len(B) = Len(u) + Len(e)
      /\ \A i \in 1..Len(u) : B[i] = u[i]
      /\ \A i \in 1..Len(e) : B[Len(u) + i] = e[i]
  BY <1>2, <1>4, BytesJoined
<1> HIDE DEF B, L
<1>6. Len(B) = n - 2 + L + 4
  BY <1>1, <1>2, <1>3, <1>4, <1>5
<1>7. ASSUME NEW k \in 1..n, k + (-2) > 0 PROVE B[k + (-2)] = y[k]
  <2>1. k + (-2) \in 1..(n - 2) /\ k + (-2) \in 1..(n - 2 + L) /\ (k + (-2)) + 2 = k
    BY <1>3, <1>7
  <2> QED BY <1>1, <1>3, <1>4, <1>5, <2>1
<1>8. ASSUME NEW k \in 1..L PROVE B[n - 2 + k] = Mark[k]
  <2>1. n - 2 + k \in 1..(n - 2 + L)
    BY <1>3
  <2> QED BY <1>1, <1>3, <1>4, <1>5, <2>1
<1>9. B[n - 2 + L + 1] = Multipart!Dash
  <2>1. B[Len(u) + 1] = e[1]
    BY <1>2, <1>5
  <2> QED BY <1>1, <1>2, <1>4, <2>1
<1>10. MarkAt(B, n - 2)
  BY <1>8 DEF MarkAt, L
<1> QED BY <1>5, <1>6, <1>7, <1>9, <1>10 DEF B, u, e, z, L

(* The bytes of a body before the text of its i-th item.                   *)
Text(x) == 7 + Len(x.content)
Before(xs, i) ==
  Len(Mark) - 2 + (IF i > 1 THEN Text(xs[1]) + Len(Mark) ELSE 0)
                + (IF i > 2 THEN Text(xs[2]) + Len(Mark) ELSE 0)

Several == UNION {[1..n -> Multipart!Item] : n \in 1..2}

IsBody(xs, B) ==
  /\ B \in Seq(Octet) /\ Len(B) = Before(xs, Len(xs) + 1) + 4
  /\ \A k \in 3..Len(Mark) : B[k + (-2)] = Mark[k]
  /\ \A i \in 1..Len(xs) :
       /\ HeaderAt(B, Before(xs, i), xs[i])
       /\ ContentAt(B, Before(xs, i) + 7, xs[i].content)
       /\ MarkAt(B, Before(xs, i) + Text(xs[i]))
  /\ B[Before(xs, Len(xs) + 1) + 1] = Multipart!Dash

LEMMA SeveralAre ==
  ASSUME NEW xs \in Several
  PROVE  /\ Len(xs) \in 1..2 /\ DOMAIN xs = 1..Len(xs)
         /\ \A i \in 1..Len(xs) : xs[i] \in Multipart!Item
<1>1. PICK n \in 1..2 : xs \in [1..n -> Multipart!Item]
  BY DEF Several
<1>2. xs \in Seq(Multipart!Item) /\ Len(xs) = n
  BY <1>1
<1> QED BY <1>1, <1>2

LEMMA FlatsMatch == ASSUME NEW ss PROVE Multipart!FlattenSeq(ss) = FlattenSeq(ss)
BY DEF Multipart!FlattenSeq, FlattenSeq

(* What is flattened of one sequence, or two.                              *)
LEMMA FlatOfFew ==
  ASSUME NEW T, NEW n \in 1..2, NEW ss \in [1..n -> T]
  PROVE  Multipart!FlattenSeq(ss) = IF n = 1 THEN ss[1] ELSE ss[1] \o ss[2]
<1>1. ss \in Seq(T) /\ Len(ss) = n
  OBVIOUS
<1>2. FlattenSeq(ss) = FlatOf(ss)[n]
  BY <1>1, FlattenIs
<1>3. FlatOf(ss)[1] = ss[1]
  BY <1>1, FlatStep
<1>4. ASSUME n = 2 PROVE Multipart!FlattenSeq(ss) = IF n = 1 THEN ss[1] ELSE ss[1] \o ss[2]
  <2>1. 2 \in 1..Len(ss) /\ 2 # 1 /\ 2 - 1 = 1
    BY <1>1, <1>4
  <2>2. FlatOf(ss)[2] = IF 2 = 1 THEN ss[2] ELSE FlatOf(ss)[2 - 1] \o ss[2]
    BY <1>1, <2>1, FlatStep
  <2>3. FlatOf(ss)[2] = ss[1] \o ss[2]
    BY <1>3, <2>1, <2>2
  <2> QED BY <1>2, <1>4, <2>3, FlatsMatch
<1>5. ASSUME n = 1 PROVE Multipart!FlattenSeq(ss) = IF n = 1 THEN ss[1] ELSE ss[1] \o ss[2]
  BY <1>2, <1>3, <1>5, FlatsMatch
<1>6. n = 1 \/ n = 2
  OBVIOUS
<1> QED BY <1>4, <1>5, <1>6

LEMMA BodyTextIs ==
  ASSUME NEW xs \in Several
  PROVE  IsBody(xs, Multipart!bodyText(xs))
<1> DEFINE n == Len(xs)
           ss == [i \in DOMAIN xs |-> Mark \o Multipart!itemText(xs[i])]
           y == Multipart!FlattenSeq(ss)
           B == SubSeq(y, 3, Len(y)) \o Mark
                \o <<Multipart!Dash, Multipart!Dash, Multipart!CR, Multipart!LF>>
           L == Len(Mark)
           x == xs[1]
           z == xs[2]
           l == Len(x.content)
           m == Len(z.content)
           t == Mark \o Multipart!itemText(x)
           u == Mark \o Multipart!itemText(z)
<1>1. /\ n \in 1..2 /\ DOMAIN xs = 1..n
      /\ \A i \in 1..n : xs[i] \in Multipart!Item
  BY SeveralAre
<1>2. Multipart!bodyText(xs) = B
  BY DEF Multipart!bodyText, Mark
<1>3. L \in Nat /\ L >= 5
  BY MarkIs
<1>4. y = IF n = 1 THEN t ELSE t \o u
  <2>1. ss \in [1..n -> {ss[i] : i \in 1..n}]
    BY <1>1
  <2>2. ss[1] = t /\ (n = 2 => ss[2] = u)
    <3>1. 1 \in DOMAIN xs /\ (n = 2 => 2 \in DOMAIN xs)
      BY <1>1
    <3> HIDE DEF n
    <3> QED BY <3>1
  <2> HIDE DEF ss, t, u
  <2>3. y = IF n = 1 THEN ss[1] ELSE ss[1] \o ss[2]
    BY <1>1, <2>1, FlatOfFew
  <2> QED BY <1>1, <2>2, <2>3
<1>5. /\ x \in Multipart!Item /\ l \in Nat
      /\ t \in Seq(Octet) /\ Len(t) = L + 7 + l
      /\ MarkAt(t, 0) /\ HeaderAt(t, L, x) /\ ContentAt(t, L + 7, x.content)
  <2>1. 1 \in 1..n
    BY <1>1
  <2>2. x \in Multipart!Item
    BY <1>1, <2>1
  <2> HIDE DEF x
  <2> QED BY <2>2, TextIs, ItemIs
<1> HIDE DEF y, L, x, z, ss, t, u, n, l, m
<1>6. /\ y \in Seq(Octet) /\ Len(y) \in Nat /\ Len(y) >= 2
      => /\ B \in Seq(Octet) /\ Len(B) = Len(y) - 2 + L + 4
         /\ \A k \in 1..Len(y) : k + (-2) > 0 => B[k + (-2)] = y[k]
         /\ MarkAt(B, Len(y) - 2)
         /\ B[Len(y) - 2 + L + 1] = Multipart!Dash
  BY FramedIs DEF L
<1> HIDE DEF B
<1>7. CASE n = 1
  <2>1. y = t
    BY <1>4, <1>7
  <2>2. /\ B \in Seq(Octet) /\ Len(B) = L + 7 + l - 2 + L + 4
        /\ \A k \in 1..(L + 7 + l) : k + (-2) > 0 => B[k + (-2)] = t[k]
        /\ MarkAt(B, L + 7 + l - 2)
        /\ B[L + 7 + l - 2 + L + 1] = Multipart!Dash
    <3>1. y \in Seq(Octet) /\ Len(y) = L + 7 + l /\ Len(y) \in Nat /\ Len(y) >= 2
      BY <1>3, <1>5, <2>1
    <3>2. /\ B \in Seq(Octet) /\ Len(B) = Len(y) - 2 + L + 4
          /\ \A k \in 1..Len(y) : k + (-2) > 0 => B[k + (-2)] = y[k]
          /\ MarkAt(B, Len(y) - 2) /\ B[Len(y) - 2 + L + 1] = Multipart!Dash
      BY <1>6, <3>1
    <3> DEFINE e == L + 7 + l
    <3>3. Len(y) = e
      BY <3>1
    <3> HIDE DEF e
    <3>4. /\ B \in Seq(Octet) /\ Len(B) = e - 2 + L + 4
          /\ \A k \in 1..e : k + (-2) > 0 => B[k + (-2)] = t[k]
          /\ MarkAt(B, e - 2) /\ B[e - 2 + L + 1] = Multipart!Dash
      BY <2>1, <3>2, <3>3
    <3>5. e = L + 7 + l /\ L \in Nat /\ l \in Nat
      BY <1>3, <1>5 DEF e
    <3>6. \A k \in 1..(L + 7 + l) : k + (-2) > 0 => B[k + (-2)] = t[k]
      BY <3>4, <3>5
    <3>7. MarkAt(B, L + 7 + l - 2) /\ B[L + 7 + l - 2 + L + 1] = Multipart!Dash
      BY <3>4, <3>5
    <3>8. B \in Seq(Octet) /\ Len(B) = L + 7 + l - 2 + L + 4
      BY <3>4, <3>5
    <3> QED BY <3>6, <3>7, <3>8
  <2>c. Carries(B, -2, t, L + 7 + l)
    BY <2>2 DEF Carries
  <2>3. Before(xs, 1) = L - 2 /\ Before(xs, 2) = L - 2 + (7 + l + L) /\ Text(x) = 7 + l
    BY <1>3, <1>5 DEF Before, Text, x, L, l
  <2>4. HeaderAt(B, L + (-2), x)
    <3>1. L \in Nat /\ L + (-2) >= 0 /\ L + 7 <= L + 7 + l /\ L + 7 + l \in Nat /\ -2 \in Int
      BY <1>3, <1>5
    <3> QED BY <1>5, <2>c, <3>1, MovedHeader
  <2>5. ContentAt(B, L + 7 + (-2), x.content)
    <3>1. L + 7 \in Nat /\ L + 7 + (-2) >= 0 /\ L + 7 + l <= L + 7 + l /\ L + 7 + l \in Nat /\ -2 \in Int
      BY <1>3, <1>5
    <3>2. Len(x.content) \in Nat /\ L + 7 + Len(x.content) <= L + 7 + l
      BY <1>5, <3>1 DEF l
    <3> QED BY <1>5, <2>c, <3>1, <3>2, MovedContent
  <2>6. ASSUME NEW k \in 3..L PROVE B[k + (-2)] = Mark[k]
    <3>1. k \in 1..(L + 7 + l) /\ k + (-2) > 0 /\ 0 + k = k /\ k \in 1..L
      BY <1>3, <1>5
    <3>2. t[0 + k] = Mark[k]
      BY <1>5, <3>1 DEF MarkAt, L
    <3> QED BY <2>2, <3>1, <3>2
  <2>7. Len(B) = Before(xs, n + 1) + 4 /\ B[Before(xs, n + 1) + 1] = Multipart!Dash
    <3>1. /\ Before(xs, n + 1) + 4 = L + 7 + l - 2 + L + 4
          /\ Before(xs, n + 1) + 1 = L + 7 + l - 2 + L + 1
      BY <1>3, <1>5, <1>7, <2>3
    <3> QED BY <2>2, <3>1
  <2>8. ASSUME NEW i \in 1..n
        PROVE  /\ HeaderAt(B, Before(xs, i), xs[i])
               /\ ContentAt(B, Before(xs, i) + 7, xs[i].content)
               /\ MarkAt(B, Before(xs, i) + Text(xs[i]))
    <3>1. i = 1 /\ xs[i] = x
      BY <1>7 DEF x
    <3>2. /\ Before(xs, i) = L + (-2) /\ Before(xs, i) + 7 = L + 7 + (-2)
          /\ Before(xs, i) + Text(xs[i]) = L + 7 + l - 2
      BY <1>3, <1>5, <2>3, <3>1
    <3> QED BY <2>2, <2>4, <2>5, <3>1, <3>2
  <2> QED BY <1>2, <2>2, <2>6, <2>7, <2>8 DEF IsBody, n, L

<1>8. CASE n = 2
  <2>0. /\ z \in Multipart!Item /\ m \in Nat
        /\ u \in Seq(Octet) /\ Len(u) = L + 7 + m
        /\ MarkAt(u, 0) /\ HeaderAt(u, L, z) /\ ContentAt(u, L + 7, z.content)
    <3>1. 2 \in 1..n
      BY <1>8
    <3>2. z \in Multipart!Item
      BY <1>1, <3>1 DEF z
    <3> QED BY <3>2, TextIs, ItemIs DEF u, L, m
  <2> DEFINE b == L + 7 + l
  <2>1. /\ y \in Seq(Octet) /\ Len(y) = b + (L + 7 + m)
        /\ \A i \in 1..b : y[i] = t[i]
        /\ \A i \in 1..(L + 7 + m) : y[b + i] = u[i]
    <3>1. y = t \o u
      BY <1>4, <1>8
    <3>2. /\ t \o u \in Seq(Octet) /\ Len(t \o u) = Len(t) + Len(u)
          /\ \A i \in 1..Len(t) : (t \o u)[i] = t[i]
          /\ \A i \in 1..Len(u) : (t \o u)[Len(t) + i] = u[i]
      BY <1>5, <2>0, BytesJoined
    <3> QED BY <1>5, <2>0, <3>1, <3>2
  <2>a. b \in Nat /\ b = L + 7 + l
    BY <1>3, <1>5
  <2> HIDE DEF b
  <2> DEFINE e == b + (L + 7 + m)
  <2>b. e \in Nat /\ e >= 2 /\ e = b + (L + 7 + m)
    BY <1>3, <2>0, <2>a
  <2> HIDE DEF e
  <2>2. /\ B \in Seq(Octet) /\ Len(B) = e - 2 + L + 4
        /\ \A k \in 1..e : k + (-2) > 0 => B[k + (-2)] = y[k]
        /\ MarkAt(B, e - 2)
        /\ B[e - 2 + L + 1] = Multipart!Dash
    BY <1>6, <2>1, <2>b
  <2>c. Carries(B, -2, t, b)
    <3>1. \A k \in 1..b : k \in 1..e
      BY <1>3, <2>0, <2>a, <2>b
    <3> QED BY <2>1, <2>2, <3>1 DEF Carries
  <2>d. Carries(B, b - 2, u, L + 7 + m)
    <3> SUFFICES ASSUME NEW k \in 1..(L + 7 + m) PROVE B[k + (b - 2)] = u[k]
      BY DEF Carries
    <3>1. b + k \in 1..e /\ (b + k) + (-2) > 0 /\ (b + k) + (-2) = k + (b - 2)
      BY <1>3, <1>5, <2>0, <2>a, <2>b
    <3> QED BY <2>1, <2>2, <3>1
  <2>3. /\ Before(xs, 1) = L - 2 /\ Before(xs, 2) = b + L - 2 /\ Text(x) = 7 + l
        /\ Before(xs, 3) = e + L - 2 /\ Text(z) = 7 + m
    <3>1. Text(x) = 7 + l /\ Text(z) = 7 + m
      BY DEF Text, x, z, l, m
    <3>2. /\ Before(xs, 1) = L - 2 + 0 + 0
          /\ Before(xs, 2) = L - 2 + (7 + l + L) + 0
          /\ Before(xs, 3) = L - 2 + (7 + l + L) + (7 + m + L)
      BY <3>1 DEF Before, x, z, L
    <3> QED BY <1>3, <1>5, <2>0, <2>a, <2>b, <3>1, <3>2
  <2>4. HeaderAt(B, L + (-2), x)
    <3>1. L \in Nat /\ L + (-2) >= 0 /\ L + 7 <= b /\ b \in Nat /\ -2 \in Int
      BY <1>3, <1>5, <2>a
    <3> QED BY <1>5, <2>c, <3>1, MovedHeader
  <2>5. ContentAt(B, L + 7 + (-2), x.content)
    <3>1. L + 7 \in Nat /\ L + 7 + (-2) >= 0 /\ L + 7 + l <= b /\ b \in Nat /\ -2 \in Int
      BY <1>3, <1>5, <2>a
    <3>2. Len(x.content) \in Nat /\ L + 7 + Len(x.content) <= b
      BY <1>5, <3>1 DEF l
    <3> QED BY <1>5, <2>c, <3>1, <3>2, MovedContent
  <2>6. ASSUME NEW k \in 3..L PROVE B[k + (-2)] = Mark[k]
    <3>1. k \in 1..b /\ k + (-2) > 0 /\ 0 + k = k /\ k \in 1..L
      BY <1>3, <1>5, <2>a
    <3>2. t[0 + k] = Mark[k]
      BY <1>5, <3>1 DEF MarkAt, L
    <3> QED BY <2>c, <3>1, <3>2 DEF Carries
  <2>7. Len(B) = Before(xs, n + 1) + 4 /\ B[Before(xs, n + 1) + 1] = Multipart!Dash
    <3>1. /\ Before(xs, n + 1) + 4 = e - 2 + L + 4
          /\ Before(xs, n + 1) + 1 = e - 2 + L + 1
      BY <1>3, <1>8, <2>b, <2>3
    <3> QED BY <2>2, <3>1
  <2>8. MarkAt(B, 0 + (b - 2))
    <3>1. b - 2 >= 0 /\ 0 + L <= L + 7 + m /\ 0 \in Nat /\ b - 2 \in Int /\ L + 7 + m \in Nat
          /\ 0 + (b - 2) >= 0
      BY <1>3, <1>5, <2>0, <2>a
    <3> QED BY <2>0, <2>d, <3>1, MovedMark DEF L
  <2>9. HeaderAt(B, L + (b - 2), z)
    <3>1. /\ L + (b - 2) >= 0 /\ L + 7 <= L + 7 + m /\ L \in Nat /\ L \in Int /\ b - 2 \in Int
          /\ L + 7 + m \in Nat
      BY <1>3, <1>5, <2>0, <2>a
    <3>2. Len(z.content) \in Nat /\ L + 7 + Len(z.content) <= L + 7 + m
      BY <2>0, <3>1 DEF m
    <3> QED BY <2>0, <2>d, <3>1, <3>2, MovedHeader
  <2>10. ContentAt(B, L + 7 + (b - 2), z.content)
    <3>1. /\ L + 7 + (b - 2) >= 0 /\ L + 7 + m <= L + 7 + m /\ L + 7 \in Nat /\ L + 7 \in Int
          /\ b - 2 \in Int /\ L + 7 + m \in Nat
      BY <1>3, <1>5, <2>0, <2>a
    <3>2. Len(z.content) \in Nat /\ L + 7 + Len(z.content) <= L + 7 + m
      BY <2>0, <3>1 DEF m
    <3>3. ContentAt(u, L + 7, z.content)
      BY <2>0
    <3> DEFINE c == z.content
               i == L + 7
               d == b - 2
               k == L + 7 + m
    <3>4. /\ i \in Nat /\ d \in Int /\ k \in Nat /\ i + d >= 0 /\ Len(c) \in Nat
          /\ i + Len(c) <= k /\ ContentAt(u, i, c) /\ Carries(B, d, u, k)
      BY <2>d, <3>1, <3>2, <3>3
    <3> HIDE DEF c, i, d, k
    <3>5. ContentAt(B, i + d, c)
      BY <3>4, MovedContent
    <3> QED BY <3>5 DEF c, i, d
  <2>11. ASSUME NEW i \in 1..n
         PROVE  /\ HeaderAt(B, Before(xs, i), xs[i])
                /\ ContentAt(B, Before(xs, i) + 7, xs[i].content)
                /\ MarkAt(B, Before(xs, i) + Text(xs[i]))
    <3>1. CASE i = 1
      <4>1. xs[i] = x
        BY <3>1 DEF x
      <4>2. /\ Before(xs, i) = L + (-2) /\ Before(xs, i) + 7 = L + 7 + (-2)
            /\ Before(xs, i) + Text(xs[i]) = 0 + (b - 2)
        BY <1>3, <1>5, <2>a, <2>3, <3>1, <4>1
      <4> QED BY <2>4, <2>5, <2>8, <4>1, <4>2
    <3>2. CASE i = 2
      <4>1. xs[i] = z
        BY <3>2 DEF z
      <4>2. /\ Before(xs, i) = L + (b - 2) /\ Before(xs, i) + 7 = L + 7 + (b - 2)
            /\ Before(xs, i) + Text(xs[i]) = e - 2
        BY <1>3, <1>5, <2>0, <2>a, <2>b, <2>3, <3>2, <4>1
      <4> QED BY <2>2, <2>9, <2>10, <4>1, <4>2
    <3> QED BY <1>8, <3>1, <3>2
  <2> QED BY <1>2, <2>2, <2>6, <2>7, <2>11 DEF IsBody, n, L
<1> QED BY <1>1, <1>7, <1>8

-------------------------------------------------------------------------------
(* The parser, and what it has written of an item.                         *)
ParserState ==
  [parsedLength : Nat, contentLength : Nat,
   state : {"EXPECT_BOUNDARY", "PARSE_HEADERS", "WAIT_FOR_RETURN1", "EXPECT_FEED1",
            "EXPECT_DASH1", "EXPECT_DASH2", "BOUNDARY_OR_DATA", "DASH3_OR_RETURN2",
            "EXPECT_FEED2", "PARSING_FINISHED", "PARSE_ERROR"},
   position : Nat, header : BOOLEAN, isFile : BOOLEAN, size : Nat, value : Seq(Octet),
   buffer : Seq(Octet), found : Seq(Multipart!Item), upload : Seq(Octet), indexed : BOOLEAN]

Collected(s, w) ==
  s.size = Len(w) /\ (IF s.isFile THEN s.upload \o s.buffer = w ELSE s.value = w)

(* t is s but for the item, the state and the position in the boundary.    *)
Else(s, t) ==
  /\ t.parsedLength = s.parsedLength /\ t.contentLength = s.contentLength
  /\ t.header = s.header /\ t.isFile = s.isFile
  /\ t.found = s.found /\ t.indexed = s.indexed
Only(s, t) == Else(s, t) /\ t.state = s.state /\ t.position = s.position

(* The bytes of an item up to q.                                           *)
LEMMA NextByte ==
  ASSUME NEW B \in Seq(Octet), NEW c \in Nat, NEW q \in Nat, c <= q, q + 1 <= Len(B)
  PROVE  /\ SubSeq(B, c + 1, q) \in Seq(Octet) /\ Len(SubSeq(B, c + 1, q)) = q - c
         /\ Append(SubSeq(B, c + 1, q), B[q + 1]) = SubSeq(B, c + 1, q + 1)
         /\ B[q + 1] \in Octet
<1> DEFINE v == SubSeq(B, c + 1, q)
           w == SubSeq(B, c + 1, q + 1)
           n == Len(B)
<1>0. n \in Nat
  OBVIOUS
<1>1. v \in Seq(Octet) /\ Len(v) = q - c /\ \A i \in 1..(q - c) : v[i] = B[c + i]
  <2>1. v \in Seq(Octet) /\ Len(v) = (IF c + 1 <= q THEN q - (c + 1) + 1 ELSE 0)
        /\ \A i \in 1..(q - (c + 1) + 1) : v[i] = B[(c + 1) + i - 1]
    BY <1>0, SubSeqProperties
  <2> HIDE DEF v
  <2>2. \A i \in 1..(q - c) : i \in 1..(q - (c + 1) + 1) /\ (c + 1) + i - 1 = c + i
    OBVIOUS
  <2> QED BY <2>1, <2>2
<1>2. w \in Seq(Octet) /\ Len(w) = q + 1 - c /\ \A i \in 1..(q + 1 - c) : w[i] = B[c + i]
  <2>1. w \in Seq(Octet) /\ Len(w) = (IF c + 1 <= q + 1 THEN q + 1 - (c + 1) + 1 ELSE 0)
        /\ \A i \in 1..(q + 1 - (c + 1) + 1) : w[i] = B[(c + 1) + i - 1]
    BY <1>0, SubSeqProperties
  <2> HIDE DEF w
  <2>2. \A i \in 1..(q + 1 - c) : i \in 1..(q + 1 - (c + 1) + 1) /\ (c + 1) + i - 1 = c + i
    OBVIOUS
  <2> QED BY <2>1, <2>2
<1>3. B[q + 1] \in Octet
  <2>1. q + 1 \in 1..n
    BY <1>0
  <2> QED BY <2>1
<1> HIDE DEF v, w, n
<1> DEFINE a == Append(v, B[q + 1])
<1>4. /\ a \in Seq(Octet) /\ Len(a) = (q - c) + 1
      /\ \A i \in 1..(q - c) : a[i] = v[i]
      /\ a[(q - c) + 1] = B[q + 1]
  BY <1>1, <1>3, AppendProperties
<1> HIDE DEF a
<1>5. Len(a) = Len(w)
  BY <1>2, <1>4
<1>6. ASSUME NEW i \in 1..Len(a) PROVE a[i] = w[i]
  <2>1. i \in 1..(q + 1 - c) /\ (i \in 1..(q - c) \/ (i = (q - c) + 1 /\ c + i = q + 1))
    BY <1>4
  <2> QED BY <1>1, <1>2, <1>4, <2>1
<1>7. a = w
  BY <1>2, <1>4, <1>5, <1>6, SeqEqual
<1> QED BY <1>1, <1>3, <1>7 DEF a, v, w

LEMMA PutBehind ==
  ASSUME NEW a \in Seq(Octet), NEW b \in Seq(Octet), NEW y \in Octet
  PROVE  /\ a \o Append(b, y) = Append(a \o b, y)
         /\ a \o Append(b, y) \in Seq(Octet) /\ a \o b \in Seq(Octet)
         /\ Len(a \o b) = Len(a) + Len(b) /\ (a \o b) \o <<>> = a \o b
<1>1. a \o b \in Seq(Octet) /\ Len(a \o b) = Len(a) + Len(b)
  BY BytesJoined
<1>2. a \o Append(b, y) = Append(a \o b, y)
  BY AppendIsConcat, ConcatAssociative, <1>1
<1>3. Append(a \o b, y) \in Seq(Octet)
  BY <1>1, AppendProperties
<1>4. (a \o b) \o <<>> = a \o b
  BY <1>1, ConcatEmptySeq
<1> QED BY <1>1, <1>2, <1>3, <1>4

(* A byte is written behind what was written.                              *)
OneWritten(s, t, w) == t \in ParserState /\ Only(s, t) /\ Collected(t, w)

LEMMA WriteOne ==
  ASSUME NEW s \in ParserState, s.indexed = TRUE, NEW w \in Seq(Octet), Collected(s, w),
         NEW y \in Octet, NEW last
  PROVE  OneWritten(s, Multipart!itemWriteByte(s, y, last), Append(w, y))
<1> DEFINE u == [s EXCEPT !.size = @ + 1]
           t == Multipart!itemWriteByte(s, y, last)
<1>0. Len(w) \in Nat /\ Append(w, y) \in Seq(Octet) /\ Len(Append(w, y)) = Len(w) + 1
  BY AppendProperties
<1>1. u \in ParserState /\ Only(s, u) /\ u.size = Len(w) + 1 /\ u.buffer = s.buffer
      /\ u.upload = s.upload /\ u.value = s.value
  <2>1. s.size = Len(w) /\ s.size + 1 \in Nat
    BY <1>0 DEF Collected
  <2>2. u \in ParserState
    BY <2>1 DEF ParserState
  <2>3. Only(s, u)
    BY DEF ParserState, Only, Else
  <2>4. u.size = s.size + 1 /\ u.buffer = s.buffer /\ u.upload = s.upload /\ u.value = s.value
    BY DEF ParserState
  <2> HIDE DEF u
  <2> QED BY <2>1, <2>2, <2>3, <2>4
<1> HIDE DEF u
<1>2. CASE ~s.isFile
  <2>1. t = [u EXCEPT !.value = Append(@, y)]
    BY <1>1, <1>2 DEF Multipart!itemWriteByte, u, Only, Else
  <2>2. u.value = w
    BY <1>1, <1>2 DEF Collected
  <2>3. t.value = Append(w, y) /\ t.size = u.size /\ t \in ParserState /\ Only(s, t)
    <3> HIDE DEF t
    <3>1. t = [u EXCEPT !.value = Append(w, y)]
      BY <2>1, <2>2
    <3> DEFINE a == Append(w, y)
    <3>2. a \in Seq(Octet)
      BY <1>0
    <3> HIDE DEF a
    <3>3. t = [u EXCEPT !.value = a]
      BY <3>1 DEF a
    <3>4. t.value = a /\ t.size = u.size /\ t \in ParserState
      BY <1>1, <3>2, <3>3 DEF ParserState
    <3>5. Only(u, t)
      BY <1>1, <3>3 DEF ParserState, Only, Else
    <3>6. Only(s, t)
      BY <1>1, <3>5 DEF Only, Else
    <3> QED BY <3>4, <3>6 DEF a
  <2>4. Collected(t, Append(w, y))
    BY <1>0, <1>1, <1>2, <2>3 DEF Collected, Only, Else
  <2> QED BY <2>3, <2>4 DEF OneWritten
<1>3. CASE s.isFile
  <2> DEFINE v == [u EXCEPT !.buffer = Append(@, y)]
             f == Multipart!handleUpload(v)
  <2>1. u.isFile
    BY <1>1, <1>3 DEF Only, Else
  <2>2. t = v \/ t = f
    BY <2>1 DEF Multipart!itemWriteByte, Multipart!handleUploadByte, u
  <2>3. u.buffer \in Seq(Octet) /\ u.upload \in Seq(Octet) /\ u.upload \o u.buffer = w
    BY <1>1, <1>3 DEF Collected, ParserState
  <2>4. /\ Append(u.buffer, y) \in Seq(Octet)
        /\ u.upload \o Append(u.buffer, y) = Append(w, y)
        /\ Len(Append(u.buffer, y)) = Len(u.buffer) + 1
        /\ Len(w) = Len(u.upload) + Len(u.buffer)
        /\ Len(u.upload) \in Nat /\ Len(u.buffer) \in Nat
        /\ Append(w, y) \o <<>> = Append(w, y)
    <3>1. /\ u.upload \o Append(u.buffer, y) = Append(w, y)
          /\ Len(w) = Len(u.upload) + Len(u.buffer)
      BY <2>3, PutBehind
    <3>2. Append(u.buffer, y) \in Seq(Octet) /\ Len(Append(u.buffer, y)) = Len(u.buffer) + 1
      BY <2>3, AppendProperties
    <3>3. Append(w, y) \o <<>> = Append(w, y)
      BY <1>0, ConcatEmptySeq
    <3> QED BY <2>3, <3>1, <3>2, <3>3
  <2>5. /\ v \in ParserState /\ Only(s, v) /\ v.size = Len(w) + 1
        /\ v.buffer = Append(u.buffer, y) /\ v.upload = u.upload
    BY <1>1, <2>4 DEF ParserState, Only, Else
  <2>6. Collected(v, Append(w, y))
    BY <1>0, <1>3, <2>4, <2>5 DEF Collected, Only, Else
  <2> HIDE DEF v
  <2>7. v.indexed = TRUE /\ v.size - Len(v.buffer) = Len(v.upload)
    <3>1. v.indexed = TRUE
      BY <2>5 DEF Only, Else
    <3> DEFINE a == Len(u.upload)
               b == Len(u.buffer)
    <3>2. v.size = a + b + 1 /\ Len(v.buffer) = b + 1 /\ Len(v.upload) = a
      BY <2>4, <2>5
    <3>3. a \in Nat /\ b \in Nat
      BY <2>4
    <3> HIDE DEF a, b
    <3> QED BY <3>1, <3>2, <3>3
  <2>8. /\ f.buffer = <<>> /\ f.upload = Append(w, y) /\ f.indexed = TRUE
        /\ f.size = v.size /\ f.isFile = v.isFile /\ f.parsedLength = v.parsedLength
        /\ f.contentLength = v.contentLength /\ f.state = v.state /\ f.position = v.position
        /\ f.header = v.header /\ f.found = v.found /\ f.value = v.value
    BY <2>4, <2>5, <2>7 DEF Multipart!handleUpload, ParserState
  <2>9. f \in ParserState
    <3>1. v.upload \o v.buffer \in Seq(Octet)
      BY <1>0, <2>4, <2>5
    <3>2. <<>> \in Seq(Octet) /\ (v.indexed = TRUE /\ v.size - Len(v.buffer) = Len(v.upload)) \in BOOLEAN
      OBVIOUS
    <3> QED BY <2>5, <3>1, <3>2 DEF Multipart!handleUpload, ParserState
  <2> HIDE DEF f
  <2>10. Only(s, f)
    BY <2>5, <2>7, <2>8 DEF Only, Else
  <2>11. Collected(f, Append(w, y))
    <3>1. f.isFile /\ f.size = Len(Append(w, y))
      BY <1>0, <1>3, <2>5, <2>8 DEF Only, Else
    <3>2. f.upload \o f.buffer = Append(w, y)
      BY <2>4, <2>8
    <3> QED BY <3>1, <3>2 DEF Collected
  <2> QED BY <2>2, <2>5, <2>6, <2>9, <2>10, <2>11 DEF OneWritten
<1> QED BY <1>2, <1>3

(* The loop over the bytes that are written.                               *)
IsWrittenUpTo(s, bytes, last, m, f) ==
  f = [n \in 0..m |-> IF n = 0 THEN s ELSE Multipart!itemWriteByte(f[n - 1], bytes[n], last)]
WrittenOf(s, bytes, last) ==
  CHOOSE after : after = [n \in 0..Len(bytes) |->
                            IF n = 0 THEN s
                            ELSE Multipart!itemWriteByte(after[n - 1], bytes[n], last)]

LEMMA WritesAreDefined ==
  ASSUME NEW s, NEW bytes, NEW last, NEW m \in Nat
  PROVE  \E f : IsWrittenUpTo(s, bytes, last, m, f)
<1> DEFINE T == {k \in Nat : \E f : IsWrittenUpTo(s, bytes, last, k, f)}
<1>1. 0 \in T
  <2> DEFINE f == [i \in 0..0 |-> s]
             g == [n \in 0..0 |->
                     IF n = 0 THEN s ELSE Multipart!itemWriteByte(f[n - 1], bytes[n], last)]
  <2>1. \A n \in 0..0 : n = 0 /\ f[n] = s
    OBVIOUS
  <2>2. f = g
    BY <2>1
  <2>3. IsWrittenUpTo(s, bytes, last, 0, f)
    BY <2>2 DEF IsWrittenUpTo
  <2> QED BY <2>3
<1>2. ASSUME NEW l \in Nat, l \in T PROVE l + 1 \in T
  <2>1. PICK t : IsWrittenUpTo(s, bytes, last, l, t)
    BY <1>2
  <2> DEFINE u == [i \in 0..(l + 1) |->
                     IF i = l + 1 THEN Multipart!itemWriteByte(t[l], bytes[i], last) ELSE t[i]]
             v == [i \in 0..(l + 1) |->
                     IF i = 0 THEN s ELSE Multipart!itemWriteByte(u[i - 1], bytes[i], last)]
  <2>2. ASSUME NEW i \in 0..(l + 1) PROVE u[i] = v[i]
    <3>1. CASE i = l + 1
      <4>1. i - 1 = l /\ l \in 0..(l + 1) /\ l # l + 1 /\ i # 0
        BY <3>1
      <4>2. u[l] = t[l]
        BY <4>1
      <4> QED BY <3>1, <4>1, <4>2
    <3>2. CASE i # l + 1
      <4>1. i \in 0..l
        BY <3>2
      <4>2. t[i] = IF i = 0 THEN s ELSE Multipart!itemWriteByte(t[i - 1], bytes[i], last)
        BY <2>1, <4>1 DEF IsWrittenUpTo
      <4>3. i # 0 => i - 1 \in 0..(l + 1) /\ i - 1 # l + 1
        BY <4>1
      <4>4. i # 0 => u[i - 1] = t[i - 1]
        BY <4>3
      <4>5. u[i] = t[i]
        BY <3>2
      <4> QED BY <4>2, <4>4, <4>5
    <3> QED BY <3>1, <3>2
  <2>3. u = v
    BY <2>2
  <2>4. IsWrittenUpTo(s, bytes, last, l + 1, u)
    BY <2>3 DEF IsWrittenUpTo
  <2> QED BY <2>4
<1>3. m \in T
  <2> HIDE DEF T
  <2> QED BY <1>1, <1>2, SetInduction
<1> QED BY <1>3

LEMMA WrittenIs ==
  ASSUME NEW s, NEW bytes \in Seq(Octet), NEW last
  PROVE  /\ WrittenOf(s, bytes, last)[0] = s
         /\ \A k \in 0..(Len(bytes) - 1) :
              WrittenOf(s, bytes, last)[k + 1] =
                Multipart!itemWriteByte(WrittenOf(s, bytes, last)[k], bytes[k + 1], last)
         /\ Multipart!itemWrite(s, bytes, last) = WrittenOf(s, bytes, last)[Len(bytes)]
<1>1. Len(bytes) \in Nat
  OBVIOUS
<1>2. PICK f : IsWrittenUpTo(s, bytes, last, Len(bytes), f)
  BY <1>1, WritesAreDefined
<1> DEFINE g == WrittenOf(s, bytes, last)
<1>3. g = [n \in 0..Len(bytes) |->
             IF n = 0 THEN s ELSE Multipart!itemWriteByte(g[n - 1], bytes[n], last)]
  <2>1. f = [n \in 0..Len(bytes) |->
               IF n = 0 THEN s ELSE Multipart!itemWriteByte(f[n - 1], bytes[n], last)]
    BY <1>2 DEF IsWrittenUpTo
  <2> QED BY <2>1 DEF WrittenOf
<1> HIDE DEF g
<1>4. g[0] = s
  <2>1. 0 \in 0..Len(bytes)
    BY <1>1
  <2> QED BY <1>3, <2>1
<1>5. ASSUME NEW k \in 0..(Len(bytes) - 1)
      PROVE  g[k + 1] = Multipart!itemWriteByte(g[k], bytes[k + 1], last)
  <2>1. k + 1 \in 0..Len(bytes) /\ k + 1 # 0 /\ (k + 1) - 1 = k
    BY <1>1
  <2> DEFINE j == k + 1
  <2> HIDE DEF j
  <2>2. j \in 0..Len(bytes) /\ j # 0 /\ j - 1 = k
    BY <2>1 DEF j
  <2>3. g[j] = Multipart!itemWriteByte(g[j - 1], bytes[j], last)
    BY <1>3, <2>2
  <2> QED BY <2>2, <2>3 DEF j
<1>6. Multipart!itemWrite(s, bytes, last) = g[Len(bytes)]
  BY DEF Multipart!itemWrite, g, WrittenOf
<1> QED BY <1>4, <1>5, <1>6 DEF g

(* Bytes of the body that are written behind those before them.            *)
LEMMA WriteMany ==
  ASSUME NEW s \in ParserState, s.indexed = TRUE, NEW last, NEW B \in Seq(Octet),
         NEW c \in Nat, NEW q \in Nat, c <= q, Collected(s, SubSeq(B, c + 1, q)),
         NEW bytes \in Seq(Octet), q + Len(bytes) <= Len(B),
         SameBytes(bytes, 0, B, q, Len(bytes))
  PROVE  OneWritten(s, Multipart!itemWrite(s, bytes, last), SubSeq(B, c + 1, q + Len(bytes)))
<1> DEFINE f == WrittenOf(s, bytes, last)
           m == Len(bytes)
           G(k) == OneWritten(s, f[k], SubSeq(B, c + 1, q + k))
           T == {k \in Nat : k <= m => G(k)}
<1>0. m \in Nat /\ Len(B) \in Nat
  OBVIOUS
<1>1. /\ f[0] = s /\ Multipart!itemWrite(s, bytes, last) = f[m]
      /\ \A k \in 0..(m - 1) : f[k + 1] = Multipart!itemWriteByte(f[k], bytes[k + 1], last)
  BY WrittenIs
<1>2. q + m <= Len(B) /\ \A k \in 1..m : bytes[0 + k] = B[q + k]
  BY DEF SameBytes
<1> HIDE DEF f, m
<1>3. 0 \in T
  <2>1. G(0)
    BY <1>1 DEF OneWritten, Only, Else
  <2> QED BY <2>1
<1>4. ASSUME NEW k \in Nat, k \in T PROVE k + 1 \in T
  <2> SUFFICES ASSUME k + 1 <= m PROVE G(k + 1)
    OBVIOUS
  <2>1. k <= m /\ k \in 0..(m - 1) /\ k + 1 \in 1..m /\ 0 + (k + 1) = k + 1 /\ q + k \in Nat
        /\ c <= q + k /\ (q + k) + 1 <= Len(B) /\ q + (k + 1) = (q + k) + 1
    BY <1>0, <1>2
  <2>2. G(k)
    BY <1>4, <2>1
  <2>3. bytes[k + 1] = B[(q + k) + 1]
    BY <1>2, <2>1
  <2> DEFINE w == SubSeq(B, c + 1, q + k)
             t == f[k]
             u == f[k + 1]
  <2>4. /\ w \in Seq(Octet) /\ Append(w, B[(q + k) + 1]) = SubSeq(B, c + 1, (q + k) + 1)
        /\ B[(q + k) + 1] \in Octet
    BY <2>1, NextByte
  <2>5. u = Multipart!itemWriteByte(t, B[(q + k) + 1], last)
    BY <1>1, <2>1, <2>3
  <2>6. t \in ParserState /\ Only(s, t) /\ Collected(t, w) /\ t.indexed = TRUE
    BY <2>2 DEF OneWritten, Only, Else
  <2> HIDE DEF w, t, u
  <2>7. OneWritten(t, u, Append(w, B[(q + k) + 1]))
    BY <2>4, <2>5, <2>6, WriteOne
  <2>8. OneWritten(s, u, Append(w, B[(q + k) + 1]))
    BY <2>6, <2>7 DEF OneWritten, Only, Else
  <2> QED BY <2>1, <2>4, <2>8 DEF u
<1>5. m \in T
  <2> HIDE DEF T
  <2> QED BY <1>0, <1>3, <1>4, SetInduction
<1>6. G(m)
  BY <1>0, <1>5
<1> QED BY <1>1, <1>6 DEF m

-------------------------------------------------------------------------------
(* The parser within an item: it holds g bytes that may be a delimiter's.  *)
ScanState(s, g) ==
  /\ g \in 0..(Len(Mark) - 1)
  /\ g = 0 => s.state = "WAIT_FOR_RETURN1"
  /\ g = 1 => s.state = "EXPECT_FEED1"
  /\ g = 2 => s.state = "EXPECT_DASH1"
  /\ g = 3 => s.state = "EXPECT_DASH2"
  /\ g >= 4 => s.state = "BOUNDARY_OR_DATA" /\ s.position = g - 4

Held(g) == SubSeq(Mark, 1, g)

LEMMA HeldIs ==
  ASSUME NEW g \in 0..(Len(Mark) - 1)
  PROVE  /\ Held(g) \in Seq(Octet) /\ Len(Held(g)) = g
         /\ \A i \in 1..g : Held(g)[i] = Mark[i]
         /\ Held(0) = <<>> /\ Held(1) = <<Multipart!CR>>
         /\ Held(2) = <<Multipart!CR, Multipart!LF>>
         /\ Held(3) = <<Multipart!CR, Multipart!LF, Multipart!Dash>>
<1> DEFINE L == Len(Mark)
           b == Len(Boundary)
<1>1. /\ Mark \in Seq(Octet) /\ L \in Nat /\ L = 4 + b /\ b \in Nat
      /\ Mark[1] = Multipart!CR /\ Mark[2] = Multipart!LF /\ Mark[3] = Multipart!Dash
  BY MarkIs
<1>2. ASSUME NEW n \in 0..(L - 1)
      PROVE  Held(n) \in Seq(Octet) /\ Len(Held(n)) = n /\ \A i \in 1..n : Held(n)[i] = Mark[i]
  <2>1. /\ Held(n) \in Seq(Octet) /\ Len(Held(n)) = (IF 1 <= n THEN n - 1 + 1 ELSE 0)
        /\ \A i \in 1..(n - 1 + 1) : Held(n)[i] = Mark[1 + i - 1]
    BY <1>1, SubSeqProperties DEF Held
  <2>2. \A i \in 1..n : i \in 1..(n - 1 + 1) /\ 1 + i - 1 = i
    BY <1>1
  <2> HIDE DEF L
  <2> QED BY <1>1, <2>1, <2>2
<1>3. 0 \in 0..(L - 1) /\ 1 \in 0..(L - 1) /\ 2 \in 0..(L - 1) /\ 3 \in 0..(L - 1)
  BY <1>1
<1> HIDE DEF L, b
<1>4. Held(0) = <<>>
  BY <1>2, <1>3, EmptySeq
<1>5. Held(1) = <<Multipart!CR>>
  <2>1. Held(1) \in Seq(Octet) /\ Len(Held(1)) = 1 /\ Held(1)[1] = Multipart!CR
    <3>1. Held(1) \in Seq(Octet) /\ Len(Held(1)) = 1 /\ \A i \in 1..1 : Held(1)[i] = Mark[i]
      BY <1>2, <1>3
    <3>2. 1 \in 1..1
      OBVIOUS
    <3> QED BY <1>1, <3>1, <3>2
  <2> QED BY <2>1
<1>6. Held(2) = <<Multipart!CR, Multipart!LF>>
  <2>1. /\ Held(2) \in Seq(Octet) /\ Len(Held(2)) = 2
        /\ Held(2)[1] = Multipart!CR /\ Held(2)[2] = Multipart!LF
    <3>1. Held(2) \in Seq(Octet) /\ Len(Held(2)) = 2 /\ \A i \in 1..2 : Held(2)[i] = Mark[i]
      BY <1>2, <1>3
    <3>2. 1 \in 1..2 /\ 2 \in 1..2
      OBVIOUS
    <3> QED BY <1>1, <3>1, <3>2
  <2> QED BY <2>1
<1>7. Held(3) = <<Multipart!CR, Multipart!LF, Multipart!Dash>>
  <2>1. /\ Held(3) \in Seq(Octet) /\ Len(Held(3)) = 3 /\ Held(3)[1] = Multipart!CR
        /\ Held(3)[2] = Multipart!LF /\ Held(3)[3] = Multipart!Dash
    <3>1. Held(3) \in Seq(Octet) /\ Len(Held(3)) = 3 /\ \A i \in 1..3 : Held(3)[i] = Mark[i]
      BY <1>2, <1>3
    <3>2. 1 \in 1..3 /\ 2 \in 1..3 /\ 3 \in 1..3
      OBVIOUS
    <3> QED BY <1>1, <3>1, <3>2
  <2> QED BY <2>1
<1>8. g \in 0..(L - 1)
  BY DEF L
<1> QED BY <1>2, <1>4, <1>5, <1>6, <1>7, <1>8

(* Of the bytes behind c and up to q, the last g are held, and those       *)
(* before them are written.                                                *)
Scanning(s, B, c, q, g) ==
  /\ s \in ParserState /\ s.indexed = TRUE
  /\ ScanState(s, g) /\ g <= q - c
  /\ SameBytes(B, q - g, Mark, 0, g)
  /\ Collected(s, SubSeq(B, c + 1, q - g))

Scanned(s, t, B, c, q, g) == Scanning(t, B, c, q, g) /\ Else(s, t)

(* Bytes that were not a delimiter's are written, and the one that did not *)
(* fit, unless a delimiter may begin with it.                              *)
LEMMA NotTheEndKeeps ==
  ASSUME NEW s, NEW B \in Seq(Octet), NEW c \in Nat, NEW q \in Nat, c <= q, q + 1 <= Len(B),
         NEW g, Scanning(s, B, c, q, g), NEW last
  PROVE  Scanned(s, Multipart!notTheEnd(s, Held(g), B[q + 1], last), B, c, q + 1,
                 IF B[q + 1] = Multipart!CR THEN 1 ELSE 0)
<1> DEFINE a == Multipart!At(s, "WAIT_FOR_RETURN1")
           u == Multipart!itemWrite(a, Held(g), last)
           y == B[q + 1]
           t == Multipart!notTheEnd(s, Held(g), y, last)
           L == Len(Mark)
<1>1. /\ s \in ParserState /\ s.indexed = TRUE /\ g \in 0..(L - 1) /\ g <= q - c
      /\ SameBytes(B, q - g, Mark, 0, g) /\ Collected(s, SubSeq(B, c + 1, q - g))
  BY DEF Scanning, ScanState
<1>2. /\ a \in ParserState /\ a.indexed = TRUE /\ Else(s, a) /\ a.state = "WAIT_FOR_RETURN1"
      /\ Collected(a, SubSeq(B, c + 1, q - g))
  <2>1. a = [s EXCEPT !.state = "WAIT_FOR_RETURN1"]
    BY DEF Multipart!At
  <2>2. a \in ParserState
    BY <1>1, <2>1 DEF ParserState
  <2>3. Else(s, a) /\ a.state = "WAIT_FOR_RETURN1" /\ a.size = s.size /\ a.upload = s.upload
        /\ a.buffer = s.buffer /\ a.value = s.value /\ a.isFile = s.isFile /\ a.indexed = s.indexed
    BY <1>1, <2>1 DEF ParserState, Else
  <2> HIDE DEF a
  <2>4. Collected(a, SubSeq(B, c + 1, q - g))
    BY <1>1, <2>3 DEF Collected
  <2> QED BY <1>1, <2>2, <2>3, <2>4
<1>3. L \in Nat /\ L >= 5 /\ Mark[1] = Multipart!CR
  BY MarkIs
<1>4. Held(g) \in Seq(Octet) /\ Len(Held(g)) = g /\ \A i \in 1..g : Held(g)[i] = Mark[i]
  BY <1>1, HeldIs
<1> HIDE DEF a, L
<1>5. q - g \in Nat /\ c <= q - g /\ (q - g) + g = q /\ g \in Nat /\ Len(B) \in Nat /\ q <= Len(B)
  <2>1. Len(B) \in Nat
    OBVIOUS
  <2> QED BY <1>1, <1>3, <2>1
<1>6. OneWritten(a, u, SubSeq(B, c + 1, q))
  <2>1. SameBytes(Held(g), 0, B, q - g, Len(Held(g)))
    <3> SUFFICES ASSUME NEW k \in 1..g PROVE Held(g)[0 + k] = B[q - g + k]
      BY <1>4 DEF SameBytes
    <3>1. 0 + k = k
      BY <1>5
    <3> QED BY <1>1, <1>4, <3>1 DEF SameBytes
  <2>2. (q - g) + Len(Held(g)) = q /\ (q - g) + Len(Held(g)) <= Len(B)
    BY <1>4, <1>5
  <2> DEFINE e == q - g
             h == Held(g)
  <2>3. /\ e \in Nat /\ c <= e /\ e + Len(h) = q /\ e + Len(h) <= Len(B) /\ h \in Seq(Octet)
        /\ Collected(a, SubSeq(B, c + 1, e)) /\ SameBytes(h, 0, B, e, Len(h))
    BY <1>2, <1>4, <1>5, <2>1, <2>2
  <2> HIDE DEF e, h, u
  <2>4. OneWritten(a, Multipart!itemWrite(a, h, last), SubSeq(B, c + 1, e + Len(h)))
    BY <1>2, <2>3, WriteMany
  <2> QED BY <2>3, <2>4 DEF u, h
<1>7. /\ u \in ParserState /\ u.indexed = TRUE /\ Else(s, u) /\ u.state = "WAIT_FOR_RETURN1"
      /\ Collected(u, SubSeq(B, c + 1, q))
  <2> HIDE DEF u
  <2> QED BY <1>2, <1>6 DEF OneWritten, Only, Else
<1>8. t = IF y = Multipart!CR THEN Multipart!At(u, "EXPECT_FEED1")
          ELSE Multipart!itemWrite(u, <<y>>, last)
  BY DEF Multipart!notTheEnd, a
<1>9. y \in Octet
  BY NextByte
<1> HIDE DEF u, t
<1>10. CASE y = Multipart!CR
  <2>1. t = [u EXCEPT !.state = "EXPECT_FEED1"]
    BY <1>8, <1>10 DEF Multipart!At
  <2>2. t \in ParserState
    BY <1>7, <2>1 DEF ParserState
  <2>3. Else(u, t) /\ t.state = "EXPECT_FEED1" /\ t.size = u.size /\ t.upload = u.upload
        /\ t.buffer = u.buffer /\ t.value = u.value /\ t.isFile = u.isFile /\ t.indexed = u.indexed
    BY <1>7, <2>1 DEF ParserState, Else
  <2>4. Collected(t, SubSeq(B, c + 1, q))
    BY <1>7, <2>3 DEF Collected
  <2>5. SameBytes(B, (q + 1) - 1, Mark, 0, 1)
    <3> SUFFICES ASSUME NEW k \in 1..1 PROVE B[(q + 1) - 1 + k] = Mark[0 + k]
      BY DEF SameBytes
    <3>1. k = 1 /\ (q + 1) - 1 + k = q + 1 /\ 0 + k = 1
      OBVIOUS
    <3> QED BY <1>3, <1>10, <3>1
  <2>6. ScanState(t, 1)
    BY <1>3, <2>3 DEF ScanState, L
  <2>7. (q + 1) - 1 = q /\ 1 <= (q + 1) - c
    OBVIOUS
  <2>8. Scanning(t, B, c, q + 1, 1)
    BY <1>7, <2>2, <2>3, <2>4, <2>5, <2>6, <2>7 DEF Scanning
  <2> QED BY <1>7, <1>10, <2>3, <2>8 DEF Scanned, Else, t
<1>11. CASE y # Multipart!CR
  <2>1. OneWritten(u, t, SubSeq(B, c + 1, q + 1))
    <3> DEFINE h == <<y>>
    <3>1. h \in Seq(Octet) /\ Len(h) = 1 /\ h[1] = y
      BY <1>9
    <3> HIDE DEF h
    <3>2. SameBytes(h, 0, B, q, Len(h))
      <4> SUFFICES ASSUME NEW k \in 1..1 PROVE h[0 + k] = B[q + k]
        BY <3>1 DEF SameBytes
      <4>1. k = 1 /\ 0 + k = 1
        OBVIOUS
      <4> QED BY <3>1, <4>1
    <3>3. q + Len(h) <= Len(B) /\ q + Len(h) = q + 1
      BY <3>1
    <3>4. OneWritten(u, Multipart!itemWrite(u, h, last), SubSeq(B, c + 1, q + Len(h)))
      BY <1>7, <3>1, <3>2, <3>3, WriteMany
    <3> QED BY <1>8, <1>11, <3>3, <3>4 DEF h
  <2>2. /\ t \in ParserState /\ t.indexed = TRUE /\ Else(s, t) /\ t.state = "WAIT_FOR_RETURN1"
        /\ Collected(t, SubSeq(B, c + 1, q + 1))
    BY <1>7, <2>1 DEF OneWritten, Only, Else
  <2>3. SameBytes(B, (q + 1) - 0, Mark, 0, 0)
    BY DEF SameBytes
  <2>4. ScanState(t, 0)
    BY <1>3, <2>2 DEF ScanState, L
  <2>5. (q + 1) - 0 = q + 1 /\ 0 <= (q + 1) - c
    OBVIOUS
  <2>6. Scanning(t, B, c, q + 1, 0)
    BY <2>2, <2>3, <2>4, <2>5 DEF Scanning
  <2> QED BY <1>11, <2>2, <2>6 DEF Scanned, t
<1> QED BY <1>10, <1>11

(* A byte that is not the delimiter's next, and one that is.               *)
LEMMA OtherByte ==
  ASSUME NEW s \in ParserState, NEW g, ScanState(s, g), NEW y, NEW last,
         y # Mark[g + 1] \/ g = 0
  PROVE  Multipart!parseByte(s, y, last) = Multipart!notTheEnd(s, Held(g), y, last)
<1> DEFINE L == Len(Mark)
           b == Len(Boundary)
<1>1. /\ L \in Nat /\ L = 4 + b /\ b \in Nat
      /\ Mark[1] = Multipart!CR /\ Mark[2] = Multipart!LF /\ Mark[3] = Multipart!Dash
      /\ Mark[4] = Multipart!Dash /\ \A j \in 1..b : Mark[4 + j] = Boundary[j]
  BY MarkIs
<1>2. g \in 0..(L - 1)
  BY DEF ScanState
<1>3. /\ Held(0) = <<>> /\ Held(1) = <<Multipart!CR>>
      /\ Held(2) = <<Multipart!CR, Multipart!LF>>
      /\ Held(3) = <<Multipart!CR, Multipart!LF, Multipart!Dash>>
  BY <1>2, HeldIs
<1> HIDE DEF L, b
<1>4. CASE g = 0
  BY <1>3, <1>4 DEF ScanState, Multipart!parseByte
<1>5. CASE g = 1
  BY <1>1, <1>3, <1>5 DEF ScanState, Multipart!parseByte
<1>6. CASE g = 2
  BY <1>1, <1>3, <1>6 DEF ScanState, Multipart!parseByte
<1>7. CASE g = 3
  BY <1>1, <1>3, <1>7 DEF ScanState, Multipart!parseByte
<1>8. CASE g \notin {0, 1, 2, 3}
  <2>1. g >= 4 /\ g \in Nat /\ g - 3 \in 1..b /\ 4 + (g - 3) = g + 1 /\ (g - 4) + 1 = g - 3
        /\ 4 + (g - 4) = g
    BY <1>1, <1>2, <1>8
  <2>2. s.state = "BOUNDARY_OR_DATA" /\ s.position = g - 4
    BY <2>1 DEF ScanState
  <2>3. Boundary[s.position + 1] # y
    BY <1>1, <1>8, <2>1, <2>2
  <2>4. SubSeq(Multipart!Delimiter, 1, 4 + s.position) = Held(g)
    BY <2>1, <2>2 DEF Held, Mark
  <2> QED BY <2>2, <2>3, <2>4 DEF Multipart!parseByte
<1> QED BY <1>4, <1>5, <1>6, <1>7, <1>8

LEMMA NextOfMark ==
  ASSUME NEW s, NEW B \in Seq(Octet), NEW c \in Nat, NEW q \in Nat, c <= q, q + 1 <= Len(B),
         NEW g, Scanning(s, B, c, q, g), NEW last, B[q + 1] = Mark[g + 1], g + 1 < Len(Mark)
  PROVE  Scanned(s, Multipart!parseByte(s, B[q + 1], last), B, c, q + 1, g + 1)
<1> DEFINE y == B[q + 1]
           t == Multipart!parseByte(s, y, last)
           L == Len(Mark)
           b == Len(Boundary)
<1>1. /\ L \in Nat /\ L = 4 + b /\ b \in Nat
      /\ Mark[1] = Multipart!CR /\ Mark[2] = Multipart!LF /\ Mark[3] = Multipart!Dash
      /\ Mark[4] = Multipart!Dash /\ \A j \in 1..b : Mark[4 + j] = Boundary[j]
  BY MarkIs
<1>2. /\ s \in ParserState /\ s.indexed = TRUE /\ ScanState(s, g) /\ g <= q - c
      /\ SameBytes(B, q - g, Mark, 0, g) /\ Collected(s, SubSeq(B, c + 1, q - g))
      /\ g \in 0..(L - 1) /\ g + 1 < L
  BY DEF Scanning, ScanState
<1> HIDE DEF L, b
<1>3. CASE g = 0
  <2>1. t = Multipart!notTheEnd(s, Held(g), y, last)
    BY <1>2, <1>3, OtherByte
  <2>2. Scanned(s, Multipart!notTheEnd(s, Held(g), y, last), B, c, q + 1,
                IF y = Multipart!CR THEN 1 ELSE 0)
    BY NotTheEndKeeps
  <2>3. y = Multipart!CR /\ g + 1 = 1
    BY <1>1, <1>3
  <2> HIDE DEF t, y
  <2>4. Scanned(s, t, B, c, q + 1, g + 1)
    BY <2>1, <2>2, <2>3
  <2> QED BY <2>4 DEF t, y
<1>4. CASE g # 0
  <2>1. /\ t \in ParserState /\ Else(s, t)
        /\ t.size = s.size /\ t.value = s.value /\ t.upload = s.upload /\ t.buffer = s.buffer
        /\ g = 1 => t.state = "EXPECT_DASH1"
        /\ g = 2 => t.state = "EXPECT_DASH2"
        /\ g = 3 => t.state = "BOUNDARY_OR_DATA" /\ t.position = 0
        /\ g >= 4 => t.state = "BOUNDARY_OR_DATA" /\ t.position = g - 3
    <3>1. CASE g = 1
      <4>1. s.state = "EXPECT_FEED1" /\ y = Multipart!LF
        <5>1. g + 1 = 2
          BY <3>1
        <5> QED BY <1>1, <1>2, <3>1, <5>1 DEF ScanState
      <4>2. t = [s EXCEPT !.state = "EXPECT_DASH1"]
        BY <4>1 DEF Multipart!parseByte, Multipart!At
      <4> HIDE DEF t
      <4>3. t \in ParserState
        BY <1>2, <4>2 DEF ParserState
      <4>4. Else(s, t) /\ t.size = s.size /\ t.value = s.value /\ t.upload = s.upload
            /\ t.buffer = s.buffer /\ t.state = "EXPECT_DASH1"
        BY <1>2, <4>2 DEF ParserState, Else
      <4> QED BY <3>1, <4>3, <4>4
    <3>2. CASE g = 2
      <4>1. s.state = "EXPECT_DASH1" /\ y = Multipart!Dash
        <5>1. g + 1 = 3
          BY <3>2
        <5> QED BY <1>1, <1>2, <3>2, <5>1 DEF ScanState
      <4>2. t = [s EXCEPT !.state = "EXPECT_DASH2"]
        BY <4>1 DEF Multipart!parseByte, Multipart!At
      <4> HIDE DEF t
      <4>3. t \in ParserState
        BY <1>2, <4>2 DEF ParserState
      <4>4. Else(s, t) /\ t.size = s.size /\ t.value = s.value /\ t.upload = s.upload
            /\ t.buffer = s.buffer /\ t.state = "EXPECT_DASH2"
        BY <1>2, <4>2 DEF ParserState, Else
      <4> QED BY <3>2, <4>3, <4>4
    <3>3. CASE g = 3
      <4>1. s.state = "EXPECT_DASH2" /\ y = Multipart!Dash
        <5>1. g + 1 = 4
          BY <3>3
        <5> QED BY <1>1, <1>2, <3>3, <5>1 DEF ScanState
      <4>2. t = [s EXCEPT !.state = "BOUNDARY_OR_DATA", !.position = 0]
        BY <4>1 DEF Multipart!parseByte, Multipart!At
      <4> HIDE DEF t
      <4>3. t \in ParserState
        BY <1>2, <4>2 DEF ParserState
      <4>4. Else(s, t) /\ t.size = s.size /\ t.value = s.value /\ t.upload = s.upload
            /\ t.buffer = s.buffer /\ t.state = "BOUNDARY_OR_DATA" /\ t.position = 0
        BY <1>2, <4>2 DEF ParserState, Else
      <4> QED BY <3>3, <4>3, <4>4
    <3>4. CASE g \notin {1, 2, 3}
      <4>1. /\ g >= 4 /\ g \in Nat /\ g - 3 \in 1..b /\ 4 + (g - 3) = g + 1
            /\ (g - 4) + 1 = g - 3 /\ g - 3 \in Nat
        <5>1. g \in Nat /\ g >= 4 /\ g + 1 < L
          BY <1>1, <1>2, <1>4, <3>4
        <5> QED BY <1>1, <5>1
      <4>2. s.state = "BOUNDARY_OR_DATA" /\ s.position = g - 4
        BY <1>2, <4>1 DEF ScanState
      <4>3. Boundary[s.position + 1] = y
        BY <1>1, <4>1, <4>2
      <4>4. s.position < b - 1 /\ s.position # b - 1
        BY <1>1, <1>2, <4>1, <4>2
      <4>5. t = [s EXCEPT !.position = @ + 1]
        BY <4>2, <4>3, <4>4 DEF Multipart!parseByte, b
      <4> HIDE DEF t
      <4>6. t.position = g - 3
        BY <1>2, <4>1, <4>2, <4>5 DEF ParserState
      <4>7. t \in ParserState
        BY <1>2, <4>1, <4>2, <4>5 DEF ParserState
      <4>8. /\ Else(s, t) /\ t.size = s.size /\ t.value = s.value /\ t.upload = s.upload
            /\ t.buffer = s.buffer /\ t.state = s.state
        BY <1>2, <4>5 DEF ParserState, Else
      <4> QED BY <3>4, <4>1, <4>2, <4>6, <4>7, <4>8
    <3> QED BY <3>1, <3>2, <3>3, <3>4
  <2> HIDE DEF t
  <2>2. ScanState(t, g + 1)
    <3>1. /\ g + 1 \in 0..(L - 1) /\ g + 1 # 0 /\ g + 1 # 1 /\ (g + 1 = 2 => g = 1)
          /\ (g + 1 = 3 => g = 2)
          /\ (g + 1 >= 4 => (g = 3 /\ g + 1 - 4 = 0) \/ (g >= 4 /\ g + 1 - 4 = g - 3))
      BY <1>1, <1>2, <1>4
    <3> DEFINE h == g + 1
    <3>2. /\ h \in 0..(Len(Mark) - 1) /\ h # 0 /\ h # 1
          /\ h = 2 => t.state = "EXPECT_DASH1"
          /\ h = 3 => t.state = "EXPECT_DASH2"
          /\ h >= 4 => t.state = "BOUNDARY_OR_DATA" /\ t.position = h - 4
      <4>1. h \in 0..(Len(Mark) - 1) /\ h # 0 /\ h # 1
        BY <3>1 DEF L
      <4>2. /\ h = 2 => g = 1
            /\ h = 3 => g = 2
            /\ h >= 4 => (g = 3 /\ h - 4 = 0) \/ (g >= 4 /\ h - 4 = g - 3)
        <5>1. g \in Nat
          BY <1>1, <1>2
        <5> QED BY <5>1
      <4> HIDE DEF h
      <4>3. ASSUME h >= 4 PROVE t.state = "BOUNDARY_OR_DATA" /\ t.position = h - 4
        BY <2>1, <4>2, <4>3
      <4>4. (h = 2 => t.state = "EXPECT_DASH1") /\ (h = 3 => t.state = "EXPECT_DASH2")
        BY <2>1, <4>2
      <4> QED BY <4>1, <4>3, <4>4
    <3> HIDE DEF h
    <3>3. ScanState(t, h)
      BY <3>2 DEF ScanState
    <3> QED BY <3>3 DEF h
  <2>3. (q + 1) - (g + 1) = q - g /\ g + 1 <= (q + 1) - c /\ q - g \in Nat
    BY <1>1, <1>2
  <2>4. Collected(t, SubSeq(B, c + 1, (q + 1) - (g + 1)))
    <3>1. t.isFile = s.isFile
      BY <2>1 DEF Else
    <3> QED BY <1>2, <2>1, <2>3, <3>1 DEF Collected
  <2>5. SameBytes(B, (q + 1) - (g + 1), Mark, 0, g + 1)
    <3> SUFFICES ASSUME NEW k \in 1..(g + 1) PROVE B[q - g + k] = Mark[0 + k]
      BY <2>3 DEF SameBytes
    <3>1. CASE k \in 1..g
      BY <1>2, <3>1 DEF SameBytes
    <3>2. CASE k = g + 1
      <4>1. q - g + k = q + 1 /\ 0 + k = g + 1
        BY <1>2, <3>2, SMTT(20)
      <4> QED BY <4>1
    <3>3. k \in 1..g \/ k = g + 1
      BY <1>2
    <3> QED BY <3>1, <3>2, <3>3
  <2>6. t.indexed = TRUE
    BY <1>2, <2>1 DEF Else
  <2>7. Scanning(t, B, c, q + 1, g + 1)
    BY <2>1, <2>2, <2>3, <2>4, <2>5, <2>6 DEF Scanning
  <2> QED BY <2>1, <2>7 DEF Scanned, t
<1> QED BY <1>3, <1>4

LEMMA LastOfMark ==
  ASSUME NEW s, NEW g, ScanState(s, g), NEW y, NEW last, y = Mark[g + 1], g + 1 = Len(Mark)
  PROVE  Multipart!parseByte(s, y, last) = Multipart!endItem(s)
<1> DEFINE L == Len(Mark)
           b == Len(Boundary)
<1>1. L = 4 + b /\ b \in Nat /\ b >= 1 /\ \A j \in 1..b : Mark[4 + j] = Boundary[j]
  BY MarkIs
<1>2. g \in 0..(L - 1) /\ g + 1 = L
  BY DEF ScanState
<1> HIDE DEF L, b
<1>3. /\ g >= 4 /\ g \in Nat /\ g - 3 \in 1..b /\ 4 + (g - 3) = g + 1
      /\ (g - 4) + 1 = g - 3 /\ g - 4 = b - 1
  BY <1>1, <1>2
<1>4. s.state = "BOUNDARY_OR_DATA" /\ s.position = g - 4
  BY <1>3 DEF ScanState
<1>5. Boundary[s.position + 1] = y /\ s.position = b - 1
  BY <1>1, <1>3, <1>4
<1> QED BY <1>4, <1>5 DEF Multipart!parseByte, b

(* The next byte within an item, unless it completes a delimiter.          *)
LEMMA ScanByte ==
  ASSUME NEW s, NEW B \in Seq(Octet), NEW c \in Nat, NEW q \in Nat, c <= q, q + 1 <= Len(B),
         NEW g, Scanning(s, B, c, q, g), NEW last,
         ~(B[q + 1] = Mark[g + 1] /\ g + 1 = Len(Mark))
  PROVE  Scanned(s, Multipart!parseByte(s, B[q + 1], last), B, c, q + 1,
                 IF B[q + 1] = Mark[g + 1] THEN g + 1
                 ELSE IF B[q + 1] = Multipart!CR THEN 1 ELSE 0)
<1>1. Len(Mark) \in Nat /\ g \in 0..(Len(Mark) - 1) /\ s \in ParserState /\ ScanState(s, g)
  BY MarkIs DEF Scanning, ScanState
<1>2. CASE B[q + 1] = Mark[g + 1]
  <2>1. g + 1 < Len(Mark)
    BY <1>1, <1>2
  <2> QED BY <1>2, <2>1, NextOfMark
<1>3. CASE B[q + 1] # Mark[g + 1]
  <2>1. Multipart!parseByte(s, B[q + 1], last) = Multipart!notTheEnd(s, Held(g), B[q + 1], last)
    BY <1>1, <1>3, OtherByte
  <2> QED BY <1>3, <2>1, NotTheEndKeeps
<1> QED BY <1>2, <1>3

-------------------------------------------------------------------------------
(* The items that the first i leave, empty files left out.                 *)
Left(x)      == IF x.file /\ x.content = <<>> THEN <<>> ELSE <<x>>
Kept(xs, i)  == IF i = 0 THEN <<>> ELSE IF i = 1 THEN Left(xs[1]) ELSE Left(xs[1]) \o Left(xs[2])
NowKept(f, x) == IF x.file /\ x.content = <<>> THEN f ELSE Append(f, x)

LEMMA KeptNext ==
  ASSUME NEW xs \in Several, NEW i \in 1..Len(xs)
  PROVE  /\ Kept(xs, i) = NowKept(Kept(xs, i - 1), xs[i])
         /\ Kept(xs, i) \in Seq(Multipart!Item) /\ Kept(xs, i - 1) \in Seq(Multipart!Item)
<1>1. Len(xs) \in 1..2 /\ \A j \in 1..Len(xs) : xs[j] \in Multipart!Item
  BY SeveralAre
<1> DEFINE x == xs[1]
           y == xs[2]
<1>2. x \in Multipart!Item
  BY <1>1
<1>3. CASE i = 1
  <2>1. Kept(xs, i) = Left(x) /\ Kept(xs, i - 1) = <<>> /\ xs[i] = x
    BY <1>3 DEF Kept
  <2> HIDE DEF x
  <2>2. Append(<<>>, x) = <<x>> /\ <<x>> \in Seq(Multipart!Item) /\ <<>> \in Seq(Multipart!Item)
    BY <1>2
  <2>3. Left(x) = NowKept(<<>>, x) /\ Left(x) \in Seq(Multipart!Item)
    BY <2>2 DEF Left, NowKept
  <2> QED BY <2>1, <2>2, <2>3
<1>4. CASE i = 2
  <2>1. y \in Multipart!Item
    BY <1>1, <1>4
  <2>2. Kept(xs, i) = Left(x) \o Left(y) /\ Kept(xs, i - 1) = Left(x) /\ xs[i] = y
    BY <1>4 DEF Kept
  <2> HIDE DEF x, y
  <2>3. <<x>> \in Seq(Multipart!Item) /\ <<y>> \in Seq(Multipart!Item)
        /\ <<>> \in Seq(Multipart!Item)
    BY <1>2, <2>1
  <2>4. Left(x) \in Seq(Multipart!Item)
    BY <2>3 DEF Left
  <2>5. Left(x) \o <<>> = Left(x) /\ Append(Left(x), y) = Left(x) \o <<y>>
        /\ Append(Left(x), y) \in Seq(Multipart!Item)
    BY <2>1, <2>4, ConcatEmptySeq, AppendIsConcat, AppendProperties
  <2>6. Left(x) \o Left(y) = NowKept(Left(x), y) /\ Left(x) \o Left(y) \in Seq(Multipart!Item)
    BY <2>4, <2>5 DEF NowKept, Left
  <2> QED BY <2>2, <2>4, <2>6
<1>5. i = 1 \/ i = 2
  BY <1>1
<1> QED BY <1>3, <1>4, <1>5

LEMMA KeptAll ==
  ASSUME NEW xs \in Several
  PROVE  Kept(xs, Len(xs)) =
           Multipart!FlattenSeq([i \in DOMAIN xs |->
             IF xs[i].file /\ xs[i].content = <<>> THEN <<>> ELSE <<xs[i]>>])
<1> DEFINE n == Len(xs)
           ss == [i \in DOMAIN xs |->
                    IF xs[i].file /\ xs[i].content = <<>> THEN <<>> ELSE <<xs[i]>>]
<1>1. n \in 1..2 /\ DOMAIN xs = 1..n
  BY SeveralAre
<1>2. ss \in [1..n -> {ss[i] : i \in 1..n}]
  BY <1>1
<1>3. ss[1] = Left(xs[1]) /\ (n = 2 => ss[2] = Left(xs[2]))
  <2>1. 1 \in DOMAIN xs /\ (n = 2 => 2 \in DOMAIN xs)
    BY <1>1
  <2> HIDE DEF n
  <2> QED BY <2>1 DEF Left
<1> HIDE DEF ss, n
<1>4. Multipart!FlattenSeq(ss) = IF n = 1 THEN ss[1] ELSE ss[1] \o ss[2]
  BY <1>1, <1>2, FlatOfFew
<1>5. n = 1 \/ n = 2
  BY <1>1
<1>6. Kept(xs, n) = Multipart!FlattenSeq(ss)
  BY <1>3, <1>4, <1>5 DEF Kept
<1> QED BY <1>6 DEF ss, n

(* The item ends, and is added unless it is an empty file.                 *)
ItemEnded(s, t, x) ==
  /\ t \in ParserState /\ t.state = "DASH3_OR_RETURN2" /\ t.found = NowKept(s.found, x)
  /\ t.parsedLength = s.parsedLength /\ t.contentLength = s.contentLength
  /\ t.header = s.header /\ t.indexed = s.indexed

LEMMA ItemEnds ==
  ASSUME NEW s \in ParserState, s.indexed = TRUE, NEW x \in Multipart!Item,
         s.isFile = x.file, Collected(s, x.content)
  PROVE  ItemEnded(s, Multipart!endItem(s), x)
<1> DEFINE a == Multipart!At(s, "DASH3_OR_RETURN2")
           t == Multipart!endItem(s)
           f == Append(s.found, x)
           w == x.content
<1>1. /\ x = [file |-> x.file, content |-> w] /\ x.file \in BOOLEAN
      /\ w \in Seq(Octet) /\ Len(w) \in Nat
  BY ItemIs
<1>2. f \in Seq(Multipart!Item) /\ s.found \in Seq(Multipart!Item)
  <2>1. s.found \in Seq(Multipart!Item)
    BY DEF ParserState
  <2> QED BY <2>1, AppendProperties
<1>3. a = [s EXCEPT !.state = "DASH3_OR_RETURN2"]
  BY DEF Multipart!At
<1>4. /\ a \in ParserState /\ a.state = "DASH3_OR_RETURN2" /\ a.found = s.found
      /\ a.parsedLength = s.parsedLength /\ a.contentLength = s.contentLength
      /\ a.header = s.header /\ a.indexed = TRUE /\ a.isFile = s.isFile /\ a.size = s.size
      /\ a.value = s.value /\ a.upload = s.upload /\ a.buffer = s.buffer
      /\ a.position = s.position
  <2>1. a \in ParserState
    BY <1>3 DEF ParserState
  <2> QED BY <1>3, <2>1, SMTT(20) DEF ParserState
<1>5. s.size = Len(w) /\ (w = <<>> <=> s.size = 0) /\ s.size \in Nat
  BY <1>1, EmptySeq DEF Collected
<1> HIDE DEF a, f
<1>6. CASE ~x.file
  <2>1. s.value = w /\ ~s.isFile
    BY <1>6 DEF Collected
  <2>2. t = [a EXCEPT !.found = Append(@, [file |-> s.isFile, content |-> s.value])]
    BY <1>4, <2>1 DEF Multipart!endItem, a
  <2>3. t = [a EXCEPT !.found = f]
    BY <1>1, <1>4, <2>1, <2>2 DEF f
  <2> HIDE DEF t
  <2>4. t \in ParserState
    BY <1>2, <1>4, <2>3 DEF ParserState
  <2>5. /\ t.state = "DASH3_OR_RETURN2" /\ t.found = f /\ t.parsedLength = s.parsedLength
        /\ t.contentLength = s.contentLength /\ t.header = s.header /\ t.indexed = TRUE
    BY <1>4, <2>3 DEF ParserState
  <2>6. t.found = NowKept(s.found, x)
    BY <1>6, <2>5 DEF NowKept, f
  <2> QED BY <2>4, <2>5, <2>6 DEF ItemEnded, t
<1>7. CASE x.file /\ w = <<>>
  <2>1. t = a
    BY <1>4, <1>5, <1>7 DEF Multipart!endItem, a
  <2>2. a.found = NowKept(s.found, x)
    BY <1>4, <1>7 DEF NowKept
  <2> HIDE DEF t
  <2>3. ItemEnded(s, t, x)
    BY <1>4, <2>1, <2>2 DEF ItemEnded
  <2> QED BY <2>3 DEF t
<1>8. CASE x.file /\ w # <<>>
  <2> DEFINE u == Multipart!handleUpload(a)
             v == s.upload \o s.buffer
  <2>1. v = w /\ s.isFile /\ s.size > 0 /\ s.size # 0
    <3>1. s.isFile
      BY <1>8
    <3>2. v = w
      BY <3>1 DEF Collected
    <3>3. s.size > 0 /\ s.size # 0
      BY <1>5, <1>8
    <3> QED BY <3>1, <3>2, <3>3
  <2>2. t = [u EXCEPT !.found = Append(@, [file |-> s.isFile, content |-> u.upload])]
    BY <1>4, <2>1 DEF Multipart!endItem, a
  <2>3. s.size - Len(s.buffer) = Len(s.upload)
    <3>1. s.upload \in Seq(Octet) /\ s.buffer \in Seq(Octet)
      BY DEF ParserState
    <3>2. Len(v) = Len(s.upload) + Len(s.buffer) /\ Len(s.upload) \in Nat /\ Len(s.buffer) \in Nat
      BY <3>1, BytesJoined
    <3> DEFINE m == Len(s.upload)
               n == Len(s.buffer)
    <3>3. s.size = m + n /\ m \in Nat /\ n \in Nat
      BY <1>5, <2>1, <3>2
    <3> HIDE DEF m, n
    <3>4. s.size - n = m
      BY <3>3
    <3> QED BY <3>4 DEF m, n
  <2>4. u = [a EXCEPT !.buffer = <<>>, !.upload = w, !.indexed = TRUE]
    BY <1>4, <2>1, <2>3 DEF Multipart!handleUpload
  <2> HIDE DEF u
  <2>5. u.found = s.found /\ u.upload = w
    BY <1>4, <2>4 DEF ParserState
  <2>6. t = [u EXCEPT !.found = f]
    BY <1>1, <2>1, <2>2, <2>5 DEF f
  <2> HIDE DEF t
  <2>7. u \in ParserState
    <3>1. <<>> \in Seq(Octet)
      OBVIOUS
    <3> QED BY <1>1, <1>4, <2>4, <3>1 DEF ParserState
  <2>8. /\ u.state = "DASH3_OR_RETURN2" /\ u.parsedLength = s.parsedLength
        /\ u.contentLength = s.contentLength /\ u.header = s.header /\ u.indexed = TRUE
    BY <1>4, <2>4 DEF ParserState
  <2>9. t \in ParserState
    BY <1>2, <2>6, <2>7 DEF ParserState
  <2>10. /\ t.state = "DASH3_OR_RETURN2" /\ t.found = f /\ t.parsedLength = s.parsedLength
         /\ t.contentLength = s.contentLength /\ t.header = s.header /\ t.indexed = TRUE
    BY <2>6, <2>7, <2>8 DEF ParserState
  <2>11. t.found = NowKept(s.found, x)
    BY <1>8, <2>10 DEF NowKept, f
  <2> QED BY <2>9, <2>10, <2>11 DEF ItemEnded, t
<1> QED BY <1>1, <1>6, <1>7, <1>8

-------------------------------------------------------------------------------
(* The parser after the first q bytes of the body of xs.                   *)
ParsedUpTo(s, B, q) ==
  s \in ParserState /\ s.parsedLength = q /\ s.contentLength = Len(B) /\ s.indexed = TRUE

(* ... in the first delimiter,                                             *)
Opening(s, xs, q) ==
  /\ q \in 0..(Len(Mark) - 1) /\ s.state = "EXPECT_BOUNDARY"
  /\ s.header = FALSE /\ s.found = Kept(xs, 0)

(* ... in the header of the i-th item,                                     *)
InHeader(s, xs, i, q) ==
  /\ q - Before(xs, i) \in 2..6 /\ s.state = "PARSE_HEADERS" /\ s.found = Kept(xs, i - 1)
  /\ q - Before(xs, i) \in {2, 5, 6} => s.header = FALSE
  /\ q - Before(xs, i) \in {3, 4} => s.header = TRUE
  /\ q - Before(xs, i) = 2 => s.isFile = FALSE
  /\ q - Before(xs, i) > 2 => s.isFile = xs[i].file

(* ... in its content, or in the delimiter behind it: what is held of that *)
(* begins where it does,                                                   *)
Begin(xs, i) == Before(xs, i) + 7
End(xs, i)   == Begin(xs, i) + Len(xs[i].content)
InContent(s, xs, B, i, q) ==
  /\ Begin(xs, i) <= q /\ q < End(xs, i) + Len(Mark)
  /\ s.header = FALSE /\ s.isFile = xs[i].file /\ s.found = Kept(xs, i - 1)
  /\ \E g \in 0..(Len(Mark) - 1) : /\ Scanning(s, B, Begin(xs, i), q, g)
                                   /\ q > End(xs, i) => g = q - End(xs, i)

(* ... behind that delimiter, with another item to come,                   *)
Between(s, xs, i, q) ==
  /\ s.header = FALSE /\ s.found = Kept(xs, i)
  /\ \/ q = Before(xs, i + 1) /\ s.state = "DASH3_OR_RETURN2"
     \/ q = Before(xs, i + 1) + 1 /\ s.state = "EXPECT_FEED2" /\ i < Len(xs)

(* ... and at the end.                                                     *)
AtLast(s, xs, B, q) ==
  /\ s.state = "PARSING_FINISHED" /\ s.found = Kept(xs, Len(xs))
  /\ q > Before(xs, Len(xs) + 1)

ParserAt(s, xs, B, q) ==
  /\ ParsedUpTo(s, B, q) /\ q \in Nat
  /\ \/ Opening(s, xs, q)
     \/ \E i \in 1..Len(xs) : \/ InHeader(s, xs, i, q)
                              \/ InContent(s, xs, B, i, q)
                              \/ Between(s, xs, i, q)
     \/ AtLast(s, xs, B, q)

(* What _onData makes of the parser with the byte behind the first q.      *)
Fed(s, B, q, last) == [Multipart!parseByte(s, B[q + 1], last) EXCEPT !.parsedLength = @ + 1]

(* The parser counts the byte, and is else what the byte made of it.       *)
Counted(s, t) ==
  /\ t \in ParserState /\ t.parsedLength = s.parsedLength + 1
  /\ t.contentLength = s.contentLength /\ t.state = s.state /\ t.position = s.position
  /\ t.header = s.header /\ t.isFile = s.isFile /\ t.size = s.size /\ t.value = s.value
  /\ t.buffer = s.buffer /\ t.found = s.found /\ t.upload = s.upload /\ t.indexed = s.indexed

LEMMA FedIs ==
  ASSUME NEW s, NEW B, NEW q, NEW last, Multipart!parseByte(s, B[q + 1], last) \in ParserState
  PROVE  Counted(Multipart!parseByte(s, B[q + 1], last), Fed(s, B, q, last))
<1> DEFINE u == Multipart!parseByte(s, B[q + 1], last)
           t == Fed(s, B, q, last)
<1>1. t = [u EXCEPT !.parsedLength = @ + 1]
  BY DEF Fed
<1> HIDE DEF t, u
<1>2. u \in ParserState
  BY DEF u
<1>3. u.parsedLength + 1 \in Nat
  BY <1>2, SMTT(20) DEF ParserState
<1>4. t \in ParserState
  BY <1>1, <1>2, <1>3 DEF ParserState
<1>5. /\ t.parsedLength = u.parsedLength + 1 /\ t.contentLength = u.contentLength
      /\ t.state = u.state /\ t.position = u.position /\ t.header = u.header
      /\ t.isFile = u.isFile /\ t.size = u.size /\ t.value = u.value
      /\ t.buffer = u.buffer /\ t.found = u.found /\ t.upload = u.upload
      /\ t.indexed = u.indexed
  BY <1>1, <1>2 DEF ParserState
<1> QED BY <1>4, <1>5 DEF Counted, u, t

(* The places of the items in the body.                                    *)
LEMMA PlacesAre ==
  ASSUME NEW xs \in Several, NEW i \in 1..Len(xs)
  PROVE  /\ Before(xs, i) \in Nat /\ Before(xs, i + 1) = End(xs, i) + Len(Mark)
         /\ Before(xs, 1) = Len(Mark) - 2 /\ Len(Mark) \in Nat /\ Len(Mark) >= 5
         /\ Len(xs[i].content) \in Nat /\ xs[i] \in Multipart!Item
         /\ Before(xs, i + 1) <= Before(xs, Len(xs) + 1) /\ Before(xs, Len(xs) + 1) \in Nat
         /\ Begin(xs, i) \in Nat /\ End(xs, i) \in Nat
<1> DEFINE L == Len(Mark)
           n == Len(xs)
           a == Len(xs[1].content)
           b == Len(xs[2].content)
<1>1. L \in Nat /\ L >= 5
  BY MarkIs
<1>2. n \in 1..2 /\ \A j \in 1..n : xs[j] \in Multipart!Item
  BY SeveralAre
<1>3. a \in Nat /\ (n = 2 => b \in Nat)
  <2>1. 1 \in 1..n /\ (n = 2 => 2 \in 1..n)
    BY <1>2
  <2>2. xs[1] \in Multipart!Item /\ (n = 2 => xs[2] \in Multipart!Item)
    BY <1>2, <2>1
  <2> QED BY <2>2, ItemIs
<1>4. /\ Before(xs, 1) = L - 2 + 0 + 0
      /\ Before(xs, 2) = L - 2 + (7 + a + L) + 0
      /\ Before(xs, 3) = L - 2 + (7 + a + L) + (7 + b + L)
  BY DEF Before, Text
<1> HIDE DEF L, n, a, b
<1>5. Before(xs, 1) = L - 2 /\ Before(xs, 2) = L - 2 + 7 + a + L
  BY <1>1, <1>3, <1>4
<1>6. n = 2 => Before(xs, 3) = L - 2 + 7 + a + L + 7 + b + L
  BY <1>1, <1>3, <1>4
<1>7. i \in 1..n
  BY DEF n
<1>8. CASE i = 1
  <2>1. End(xs, i) = Before(xs, 1) + 7 + a /\ Begin(xs, i) = Before(xs, 1) + 7
        /\ Len(xs[i].content) = a /\ xs[i] \in Multipart!Item
    BY <1>2, <1>7, <1>8 DEF End, Begin, a
  <2>2. Before(xs, n + 1) \in Nat /\ Before(xs, 2) <= Before(xs, n + 1)
    <3>1. CASE n = 1
      BY <1>1, <1>3, <1>5, <3>1
    <3>2. CASE n = 2
      BY <1>1, <1>3, <1>5, <1>6, <3>2
    <3> QED BY <1>2, <3>1, <3>2
  <2>3. /\ Before(xs, 1) \in Nat /\ Before(xs, 1) + 7 \in Nat /\ Before(xs, 1) + 7 + a \in Nat
        /\ Before(xs, 2) = Before(xs, 1) + 7 + a + L
    BY <1>1, <1>3, <1>5
  <2>4. i + 1 = 2
    BY <1>8
  <2> QED BY <1>1, <1>3, <1>5, <1>8, <2>1, <2>2, <2>3, <2>4 DEF L, n
<1>9. CASE i = 2
  <2>1. n = 2 /\ i + 1 = 3 /\ n + 1 = 3
    BY <1>2, <1>7, <1>9
  <2>2. End(xs, i) = Before(xs, 2) + 7 + b /\ Begin(xs, i) = Before(xs, 2) + 7
        /\ Len(xs[i].content) = b /\ xs[i] \in Multipart!Item
    BY <1>2, <1>7, <1>9 DEF End, Begin, b
  <2>3. /\ Before(xs, 2) \in Nat /\ Before(xs, 2) + 7 \in Nat /\ Before(xs, 2) + 7 + b \in Nat
        /\ Before(xs, 3) = Before(xs, 2) + 7 + b + L /\ Before(xs, 3) \in Nat
        /\ Before(xs, 3) <= Before(xs, 3)
    BY <1>1, <1>3, <1>5, <1>6, <2>1
  <2> QED BY <1>1, <1>3, <1>5, <1>9, <2>1, <2>2, <2>3 DEF L, n
<1> QED BY <1>2, <1>7, <1>8, <1>9

(* The byte behind the first q, in each of these places.                   *)
LEMMA OpeningFed ==
  ASSUME NEW xs \in Several, NEW B, IsBody(xs, B), NEW q \in Nat, q + 1 <= Len(B),
         NEW s, ParsedUpTo(s, B, q), Opening(s, xs, q), NEW last
  PROVE  ParserAt(Fed(s, B, q, last), xs, B, q + 1)
<1> DEFINE L == Len(Mark)
           b == Len(Boundary)
           y == B[q + 1]
           u == Multipart!parseByte(s, y, last)
           t == Fed(s, B, q, last)
<1>1. /\ L \in Nat /\ L = 4 + b /\ b \in Nat /\ b >= 1
      /\ Mark[3] = Multipart!Dash /\ Mark[4] = Multipart!Dash
      /\ \A j \in 1..b : Mark[4 + j] = Boundary[j]
  BY MarkIs
<1>2. 1 \in 1..Len(xs) /\ Before(xs, 1) = L - 2
  <2>1. 1 \in 1..Len(xs)
    BY SeveralAre, SMTT(20)
  <2> QED BY <2>1, PlacesAre
<1>3. /\ \A k \in 3..L : B[k + (-2)] = Mark[k]
      /\ B[L - 2 + 1] = Multipart!CR /\ B[L - 2 + 2] = Multipart!LF
  BY <1>2 DEF IsBody, HeaderAt
<1>4. /\ s \in ParserState /\ s.parsedLength = q /\ s.contentLength = Len(B)
      /\ s.indexed = TRUE
      /\ q \in 0..(L - 1) /\ s.state = "EXPECT_BOUNDARY" /\ s.header = FALSE
      /\ s.found = Kept(xs, 0)
  BY DEF ParsedUpTo, Opening
<1> HIDE DEF L, b
<1>5. u = Multipart!expectBoundary(s, y)
  BY <1>4 DEF Multipart!parseByte
<1>6. Len(Boundary) = b
  BY DEF b
<1>7. CASE q < L - 1
  <2>1. u = s
    <3>1. CASE q < 2
      <4>1. q + 3 \in 3..L /\ (q + 3) + (-2) = q + 1 /\ (q = 0 \/ q = 1)
        BY <1>1, <1>4, <3>1
      <4>2. y = Multipart!Dash
        BY <1>1, <1>3, <4>1
      <4>3. ~(q \in 2..(b + 1)) /\ q # b + 2 /\ q # b + 3
        BY <1>1, <3>1
      <4> QED BY <1>4, <1>5, <1>6, <4>2, <4>3, <3>1 DEF Multipart!expectBoundary
    <3>2. CASE q \in 2..(b + 1)
      <4>1. /\ q + 3 \in 3..L /\ (q + 3) + (-2) = q + 1 /\ q - 1 \in 1..b /\ 4 + (q - 1) = q + 3
            /\ ~(q < 2) /\ q # b + 2 /\ q # b + 3
        BY <1>1, <3>2
      <4>2. y = Boundary[q - 1]
        BY <1>1, <1>3, <4>1
      <4> QED BY <1>4, <1>5, <1>6, <4>1, <4>2, <3>2 DEF Multipart!expectBoundary
    <3>3. CASE q = b + 2
      <4>1. q + 1 = L - 2 + 1 /\ ~(q < 2) /\ ~(q \in 2..(b + 1)) /\ q # b + 3
        BY <1>1, <3>3
      <4>2. y = Multipart!CR
        BY <1>3, <4>1
      <4> QED BY <1>4, <1>5, <1>6, <4>1, <4>2, <3>3 DEF Multipart!expectBoundary
    <3>4. q < 2 \/ q \in 2..(b + 1) \/ q = b + 2
      BY <1>1, <1>4, <1>7
    <3> QED BY <3>1, <3>2, <3>3, <3>4
  <2> HIDE DEF u, t
  <2>2. Counted(s, t)
    BY <1>4, <2>1, FedIs DEF u, t
  <2>3. q + 1 \in 0..(L - 1) /\ q + 1 \in Nat
    BY <1>1, <1>4, <1>7
  <2>4. ParsedUpTo(t, B, q + 1) /\ Opening(t, xs, q + 1)
    BY <1>4, <2>2, <2>3 DEF ParsedUpTo, Counted, Opening, L
  <2> QED BY <2>3, <2>4 DEF ParserAt, t
<1>8. CASE q = L - 1
  <2>1. q + 1 = L - 2 + 2 /\ ~(q < 2) /\ ~(q \in 2..(b + 1)) /\ q # b + 2 /\ q = b + 3
        /\ (q + 1) - (L - 2) = 2 /\ q + 1 \in Nat
    BY <1>1, <1>8
  <2>2. y = Multipart!LF
    BY <1>3, <2>1
  <2>3. u = [s EXCEPT !.state = "PARSE_HEADERS", !.isFile = FALSE]
    BY <1>4, <1>5, <1>6, <2>1, <2>2 DEF Multipart!expectBoundary, Multipart!At
  <2> HIDE DEF u, t, y
  <2>4. u \in ParserState
    BY <1>4, <2>3 DEF ParserState
  <2>5. /\ u.parsedLength = q /\ u.contentLength = Len(B) /\ u.indexed = TRUE
        /\ u.state = "PARSE_HEADERS" /\ u.isFile = FALSE /\ u.header = FALSE
        /\ u.found = Kept(xs, 0)
    BY <1>4, <2>3 DEF ParserState
  <2>6. Counted(u, t)
    BY <2>4, FedIs DEF u, t, y
  <2>7. ParsedUpTo(t, B, q + 1)
    BY <2>5, <2>6 DEF ParsedUpTo, Counted
  <2>8. InHeader(t, xs, 1, q + 1)
    <3>1. (q + 1) - Before(xs, 1) = 2
      BY <1>2, <2>1
    <3> QED BY <2>5, <2>6, <3>1 DEF InHeader, Counted
  <2> QED BY <1>2, <2>1, <2>7, <2>8 DEF ParserAt, t
<1> QED BY <1>1, <1>4, <1>7, <1>8

LEMMA HeaderFed ==
  ASSUME NEW xs \in Several, NEW B, IsBody(xs, B), NEW q \in Nat, q + 1 <= Len(B),
         NEW s, ParsedUpTo(s, B, q), NEW i \in 1..Len(xs), InHeader(s, xs, i, q), NEW last
  PROVE  ParserAt(Fed(s, B, q, last), xs, B, q + 1)
<1> DEFINE p == Before(xs, i)
           h == q - p
           y == B[q + 1]
           u == Multipart!parseByte(s, y, last)
           t == Fed(s, B, q, last)
           x == xs[i]
<1>1. /\ s \in ParserState /\ s.parsedLength = q /\ s.contentLength = Len(B)
      /\ s.indexed = TRUE /\ h \in 2..6 /\ s.state = "PARSE_HEADERS"
      /\ s.found = Kept(xs, i - 1)
      /\ h \in {2, 5, 6} => s.header = FALSE
      /\ h \in {3, 4} => s.header = TRUE
      /\ h = 2 => s.isFile = FALSE
      /\ h > 2 => s.isFile = x.file
  BY DEF ParsedUpTo, InHeader
<1>2. /\ B[p + 3] = Header(x) /\ B[p + 4] = Multipart!CR /\ B[p + 5] = Multipart!LF
      /\ B[p + 6] = Multipart!CR /\ B[p + 7] = Multipart!LF
  BY DEF IsBody, HeaderAt
<1>3. p \in Nat /\ Begin(xs, i) = p + 7 /\ x \in Multipart!Item /\ Len(x.content) \in Nat
      /\ Begin(xs, i) \in Nat /\ End(xs, i) = Begin(xs, i) + Len(x.content)
      /\ Len(Mark) \in Nat /\ Len(Mark) >= 5
  BY PlacesAre DEF Begin, End
<1>4. x.file \in BOOLEAN
  BY <1>3, ItemIs
<1>5. u = Multipart!parseHeaders(s, y)
  BY <1>1 DEF Multipart!parseByte
<1>6. q + 1 = p + (h + 1) /\ (q + 1) - p = h + 1 /\ q + 1 \in Nat
  BY <1>3, SMTT(20)
<1> DEFINE Told(v) == /\ v \in ParserState /\ v.parsedLength = q /\ v.contentLength = Len(B)
                      /\ v.indexed = TRUE /\ v.found = Kept(xs, i - 1)
<1>7. CASE h # 6
  <2> DEFINE k == h + 1
  <2>1. /\ Told(u) /\ u.state = "PARSE_HEADERS"
        /\ h \in {2, 3} => u.header = TRUE
        /\ h \in {4, 5} => u.header = FALSE
        /\ u.isFile = x.file
    <3>1. CASE h = 2
      <4>1. y = Header(x)
        BY <1>2, <1>6, <3>1
      <4>2. y \notin {Multipart!CR, Multipart!LF} /\ (y = Multipart!FileHeader <=> x.file)
        BY <1>4, <4>1 DEF Header, Multipart!CR, Multipart!LF, Multipart!FileHeader,
                          Multipart!FieldHeader
      <4>3. u = [s EXCEPT !.header = TRUE, !.isFile = @ \/ y = Multipart!FileHeader]
        BY <1>5, <4>2 DEF Multipart!parseHeaders
      <4>4. s.isFile = FALSE
        BY <1>1, <3>1
      <4> HIDE DEF u, y
      <4>5. u.isFile = (s.isFile \/ y = Multipart!FileHeader)
        BY <1>1, <4>3 DEF ParserState
      <4>6. u.isFile = x.file
        BY <1>4, <4>2, <4>4, <4>5
      <4>7. u \in ParserState
        <5>1. (s.isFile \/ y = Multipart!FileHeader) \in BOOLEAN
          OBVIOUS
        <5> QED BY <1>1, <4>3, <5>1 DEF ParserState
      <4>8. /\ u.parsedLength = q /\ u.contentLength = Len(B) /\ u.indexed = TRUE
            /\ u.found = Kept(xs, i - 1) /\ u.state = "PARSE_HEADERS" /\ u.header = TRUE
        BY <1>1, <4>3 DEF ParserState
      <4> QED BY <3>1, <4>6, <4>7, <4>8
    <3>2. CASE h \in {3, 5}
      <4>1. y = Multipart!CR
        BY <1>2, <1>6, <3>2
      <4>2. u = s
        BY <1>5, <4>1 DEF Multipart!parseHeaders, Multipart!CR, Multipart!LF
      <4> HIDE DEF u, y
      <4> QED BY <1>1, <3>2, <4>2
    <3>3. CASE h = 4
      <4>1. y = Multipart!LF /\ s.header = TRUE
        BY <1>1, <1>2, <1>6, <3>3
      <4>2. u = [s EXCEPT !.header = FALSE]
        BY <1>5, <4>1 DEF Multipart!parseHeaders, Multipart!CR, Multipart!LF
      <4> HIDE DEF u, y
      <4>3. u \in ParserState
        BY <1>1, <4>2 DEF ParserState
      <4>4. /\ u.parsedLength = q /\ u.contentLength = Len(B) /\ u.indexed = TRUE
            /\ u.found = Kept(xs, i - 1) /\ u.state = "PARSE_HEADERS" /\ u.header = FALSE
            /\ u.isFile = s.isFile
        BY <1>1, <4>2 DEF ParserState
      <4> QED BY <1>1, <3>3, <4>3, <4>4
    <3>4. h = 2 \/ h \in {3, 5} \/ h = 4
      BY <1>1, <1>7
    <3> QED BY <3>1, <3>2, <3>3, <3>4
  <2>2. Counted(u, t)
    BY <2>1, FedIs
  <2>3. /\ k \in 3..6 /\ (k \in {3, 4} => h \in {2, 3}) /\ (k \in {5, 6} => h \in {4, 5})
        /\ k # 2 /\ k > 2
    BY <1>1, <1>7
  <2> HIDE DEF u, t, h, y
  <2>4. ParsedUpTo(t, B, q + 1)
    BY <2>1, <2>2 DEF ParsedUpTo, Counted
  <2>5. (q + 1) - Before(xs, i) = k
    BY <1>6
  <2>6. InHeader(t, xs, i, q + 1)
    <3> HIDE DEF k
    <3> QED BY <2>1, <2>2, <2>3, <2>5, SMTT(20) DEF InHeader, Counted
  <2> QED BY <1>6, <2>4, <2>6 DEF ParserAt, t
<1>8. CASE h = 6
  <2>1. y = Multipart!LF /\ s.header = FALSE /\ s.isFile = x.file
    BY <1>1, <1>2, <1>6, <1>8
  <2>2. u = [s EXCEPT !.state = "WAIT_FOR_RETURN1", !.size = 0, !.value = <<>>,
                      !.buffer = <<>>, !.upload = <<>>]
    BY <1>5, <2>1 DEF Multipart!parseHeaders, Multipart!CR, Multipart!LF, Multipart!At
  <2> HIDE DEF u, y
  <2>3. u \in ParserState
    <3>1. <<>> \in Seq(Octet) /\ 0 \in Nat
      OBVIOUS
    <3> QED BY <1>1, <2>2, <3>1 DEF ParserState
  <2>4. /\ u.parsedLength = q /\ u.contentLength = Len(B) /\ u.indexed = TRUE
        /\ u.found = Kept(xs, i - 1) /\ u.state = "WAIT_FOR_RETURN1" /\ u.header = FALSE
        /\ u.isFile = x.file /\ u.size = 0 /\ u.value = <<>> /\ u.buffer = <<>>
        /\ u.upload = <<>>
    BY <1>1, <2>1, <2>2 DEF ParserState
  <2>5. Counted(u, t)
    BY <2>3, FedIs DEF u, y
  <2> HIDE DEF t
  <2>6. ParsedUpTo(t, B, q + 1)
    BY <2>4, <2>5 DEF ParsedUpTo, Counted
  <2>7. q + 1 = Begin(xs, i) /\ q + 1 < End(xs, i) + Len(Mark) /\ ~(q + 1 > End(xs, i))
    <3>1. q + 1 = p + (6 + 1)
      BY <1>6, <1>8
    <3> DEFINE c == Begin(xs, i)
               e == End(xs, i)
               l == Len(x.content)
               m == Len(Mark)
    <3>2. p \in Nat /\ c = p + 7 /\ c \in Nat /\ e = c + l /\ l \in Nat /\ m \in Nat /\ m >= 5
      BY <1>3
    <3> HIDE DEF p, c, e, l, m
    <3>3. q + 1 = c
      BY <3>1, <3>2
    <3>4. c < e + m /\ ~(c > e)
      BY <3>2
    <3> QED BY <3>3, <3>4 DEF c, e, m
  <2>8. Scanning(t, B, Begin(xs, i), q + 1, 0)
    <3> DEFINE c == Begin(xs, i)
    <3>1. c = q + 1 /\ c \in Nat
      BY <1>6, <2>7
    <3>2. SubSeq(B, c + 1, c - 0) = <<>>
      <4>1. c - 0 = c /\ c + 1 > c
        BY <3>1
      <4>2. B \in Seq(Octet)
        BY DEF IsBody
      <4> QED BY <3>1, <4>1, <4>2, SubSeqEmpty
    <3> HIDE DEF c
    <3>3. Collected(t, SubSeq(B, c + 1, c - 0))
      <4>1. <<>> \o <<>> = <<>> /\ Len(<<>>) = 0
        OBVIOUS
      <4> QED BY <2>4, <2>5, <3>2, <4>1 DEF Collected, Counted
    <3>4. SameBytes(B, c - 0, Mark, 0, 0)
      BY DEF SameBytes
    <3>5. ScanState(t, 0)
      <4>1. 0 \in 0..(Len(Mark) - 1)
        BY <1>3
      <4> QED BY <2>4, <2>5, <4>1 DEF ScanState, Counted
    <3>6. 0 <= c - c
      BY <3>1
    <3>7. Scanning(t, B, c, c, 0)
      BY <2>4, <2>5, <3>3, <3>4, <3>5, <3>6 DEF Scanning, Counted
    <3> QED BY <3>1, <3>7 DEF c
  <2>9. InContent(t, xs, B, i, q + 1)
    <3>1. 0 \in 0..(Len(Mark) - 1) /\ Begin(xs, i) <= q + 1
      BY <1>3, <2>7
    <3> QED BY <2>4, <2>5, <2>7, <2>8, <3>1 DEF InContent, Counted
  <2> QED BY <1>6, <2>6, <2>9 DEF ParserAt, t
<1> QED BY <1>7, <1>8

(* No content holds a delimiter, so that none is complete within one.      *)
LEMMA NoneWithin ==
  ASSUME NEW xs \in Several, NEW B, IsBody(xs, B), NEW i \in 1..Len(xs), NEW q \in Nat,
         Begin(xs, i) <= q, q < End(xs, i), NEW s, NEW g, Scanning(s, B, Begin(xs, i), q, g)
  PROVE  ~(B[q + 1] = Mark[g + 1] /\ g + 1 = Len(Mark))
<1> DEFINE L == Len(Mark)
           c == Begin(xs, i)
           w == xs[i].content
           l == Len(w)
           k == q - c + 1
           v == SubSeq(w, k - L + 1, k)
<1> SUFFICES ASSUME B[q + 1] = Mark[g + 1], g + 1 = L PROVE FALSE
  OBVIOUS
<1>1. /\ L \in Nat /\ L >= 5 /\ c \in Nat /\ l \in Nat /\ End(xs, i) = c + l
      /\ w \in Contents /\ w \in Seq(Octet)
  <2>1. xs[i] \in Multipart!Item
    BY PlacesAre
  <2> QED BY <2>1, ItemIs, PlacesAre DEF Begin, End
<1>2. g <= q - c /\ SameBytes(B, q - g, Mark, 0, g) /\ g \in 0..(L - 1)
  BY DEF Scanning, ScanState
<1>3. \A j \in 1..l : B[c + j] = w[j]
  <2>1. ContentAt(B, Before(xs, i) + 7, w)
    BY DEF IsBody
  <2> QED BY <2>1 DEF ContentAt, Begin
<1>4. \A j \in 1..g : B[q - g + j] = Mark[0 + j]
  BY <1>2 DEF SameBytes
<1>5. Mark \in Seq(Octet)
  BY MarkIs
<1>6. \A n \in L..l : SubSeq(w, n - L + 1, n) # Mark
  BY <1>1, ContentIs
<1> HIDE DEF L, c, w, l
<1>7. k \in L..l /\ k \in Nat
  BY <1>1, <1>2
<1>8. v \in Seq(Octet) /\ Len(v) = L /\ \A j \in 1..L : v[j] = w[k - L + j]
  <2>1. k - L + 1 \in 1..(l + 1) /\ k \in 0..l /\ k - L + 1 <= k
        /\ k - (k - L + 1) + 1 = L
    BY <1>1, <1>7, SMTT(20)
  <2>2. /\ v \in Seq(Octet) /\ Len(v) = (IF k - L + 1 <= k THEN k - (k - L + 1) + 1 ELSE 0)
        /\ \A j \in 1..(k - (k - L + 1) + 1) : v[j] = w[(k - L + 1) + j - 1]
    <3>1. k - L + 1 \in 1..(Len(w) + 1) /\ k \in 0..Len(w)
      BY <2>1 DEF l
    <3> HIDE DEF k
    <3> QED BY <1>1, <3>1, SubSeqProperties
  <2>3. \A j \in 1..L : (k - L + 1) + j - 1 = k - L + j
    BY <1>1, <1>7
  <2> HIDE DEF v, k
  <2> QED BY <2>1, <2>2, <2>3
<1>9. ASSUME NEW j \in 1..L PROVE v[j] = Mark[j]
  <2>1. k - L + j \in 1..l /\ c + (k - L + j) = q - g + j
    <3>1. k - L \in 0..(l - L) /\ k - L + j >= 1
      <4> HIDE DEF k
      <4> QED BY <1>1, <1>7
    <3>2. k - L + j \in 1..l
      <4> HIDE DEF k
      <4> QED BY <1>1, <1>7, <3>1
    <3>3. q \in Nat /\ g \in Nat /\ k - L = q - c - g
      BY <1>1, <1>2
    <3>4. c + (q - c - g + j) = q - g + j
      BY <1>1, <3>3, SMTT(20)
    <3> HIDE DEF k
    <3> QED BY <3>2, <3>3, <3>4
  <2>2. v[j] = B[q - g + j]
    <3> HIDE DEF v, k
    <3> QED BY <1>3, <1>8, <2>1
  <2>3. CASE j \in 1..g
    <3>1. 0 + j = j
      OBVIOUS
    <3> HIDE DEF v
    <3> QED BY <1>4, <2>2, <2>3, <3>1
  <2>4. CASE j = L
    <3>1. q - g + j = q + 1
      BY <1>1, <1>2, <2>4
    <3> HIDE DEF v
    <3> QED BY <2>2, <2>4, <3>1
  <2>5. j \in 1..g \/ j = L
    BY <1>1, <1>2
  <2> QED BY <2>3, <2>4, <2>5
<1>10. v = Mark
  <2> HIDE DEF v
  <2> QED BY <1>5, <1>8, <1>9, SeqEqual DEF L
<1> QED BY <1>6, <1>7, <1>10

LEMMA ContentFed ==
  ASSUME NEW xs \in Several, NEW B, IsBody(xs, B), NEW q \in Nat, q + 1 <= Len(B),
         NEW s, ParsedUpTo(s, B, q), NEW i \in 1..Len(xs), InContent(s, xs, B, i, q), NEW last
  PROVE  ParserAt(Fed(s, B, q, last), xs, B, q + 1)
<1> DEFINE L == Len(Mark)
           c == Begin(xs, i)
           e == End(xs, i)
           y == B[q + 1]
           u == Multipart!parseByte(s, y, last)
           t == Fed(s, B, q, last)
           x == xs[i]
           l == Len(x.content)
<1>1. /\ s \in ParserState /\ s.parsedLength = q /\ s.contentLength = Len(B)
      /\ s.indexed = TRUE /\ c <= q /\ q < e + L /\ s.header = FALSE
      /\ s.isFile = x.file /\ s.found = Kept(xs, i - 1)
  BY DEF ParsedUpTo, InContent
<1>2. PICK g \in 0..(L - 1) : Scanning(s, B, c, q, g) /\ (q > e => g = q - e)
  BY DEF InContent
<1>2a. (q > e => g = q - e) /\ g \in 0..(L - 1)
  BY <1>2
<1>3. L \in Nat /\ L >= 5 /\ c \in Nat /\ e \in Nat /\ l \in Nat /\ e = c + l
  BY PlacesAre DEF End
<1>3a. x \in Multipart!Item /\ Before(xs, i + 1) = e + L
  BY PlacesAre
<1>4. B \in Seq(Octet)
  BY DEF IsBody
<1>5. ASSUME q >= e PROVE y = Mark[q - e + 1]
  <2>1. MarkAt(B, Before(xs, i) + Text(x))
    BY DEF IsBody
  <2>2. Before(xs, i) + Text(x) = e
    <3> DEFINE b == Before(xs, i)
    <3>1. b \in Nat
      BY PlacesAre
    <3>2. e = b + 7 + l /\ Text(x) = 7 + l
      BY DEF Text, End, Begin
    <3> HIDE DEF b, e, l, x
    <3>3. b + Text(x) = e
      BY <1>3, <3>1, <3>2
    <3> QED BY <3>3 DEF b
  <2> HIDE DEF e, L, c, l
  <2>3. q - e + 1 \in 1..L /\ e + (q - e + 1) = q + 1
    BY <1>1, <1>3, <1>5
  <2> QED BY <2>1, <2>2, <2>3 DEF MarkAt, L
<1>6. Mark[1] = Multipart!CR /\ \A j \in 2..L : Mark[j] # Multipart!CR
  BY MarkIs
<1> HIDE DEF L, c, e, x, l
<1>7. CASE ~(y = Mark[g + 1] /\ g + 1 = L)
  <2> DEFINE h == IF y = Mark[g + 1] THEN g + 1 ELSE IF y = Multipart!CR THEN 1 ELSE 0
  <2>1. Scanned(s, u, B, c, q + 1, h)
    <3>1. B \in Seq(Octet) /\ c \in Nat /\ c <= q /\ q + 1 <= Len(B) /\ Scanning(s, B, c, q, g)
      BY <1>1, <1>2, <1>3, <1>4
    <3>2. ~(y = Mark[g + 1] /\ g + 1 = Len(Mark))
      BY <1>7 DEF L
    <3> QED BY <3>1, <3>2, ScanByte
  <2>2. h \in 0..(L - 1)
    <3>1. (y = Mark[g + 1] => g + 1 \in 0..(L - 1)) /\ 0 \in 0..(L - 1) /\ 1 \in 0..(L - 1)
      BY <1>2a, <1>3, <1>7, SMTT(20)
    <3> HIDE DEF y
    <3> QED BY <3>1
  <2>3. q + 1 > e => h = q + 1 - e
    <3> SUFFICES ASSUME q + 1 > e PROVE h = q + 1 - e
      OBVIOUS
    <3>1. CASE q = e
      <4>1. q - e + 1 = 1 /\ q + 1 - e = 1
        BY <1>3, <3>1
      <4>2. y = Multipart!CR
        <5>1. q >= e
          BY <1>3, <3>1
        <5> HIDE DEF y
        <5> QED BY <1>5, <1>6, <4>1, <5>1
      <4>3. y = Mark[g + 1] => g = 0
        <5>1. g # 0 => g + 1 \in 2..L
          BY <1>2a, <1>3
        <5> QED BY <1>6, <4>2, <5>1
      <4> HIDE DEF y
      <4> QED BY <4>1, <4>2, <4>3
    <3>2. CASE q > e
      <4>1. g = q - e /\ g + 1 = q - e + 1 /\ q + 1 - e = g + 1
        BY <1>2a, <1>3, <3>2
      <4>2. y = Mark[g + 1]
        BY <1>3, <1>5, <3>2, <4>1
      <4> HIDE DEF y
      <4> QED BY <4>1, <4>2
    <3> QED BY <1>3, <3>1, <3>2
  <2>4. q + 1 < e + L
    <3> SUFFICES ASSUME q + 1 = e + L PROVE FALSE
      BY <1>1, <1>3
    <3>1. q > e /\ q - e + 1 = L /\ q >= e
      BY <1>3
    <3>2. g + 1 = L
      BY <1>2a, <1>3, <3>1
    <3>3. y = Mark[g + 1]
      BY <1>5, <3>1, <3>2
    <3> QED BY <1>7, <3>2, <3>3
  <2> HIDE DEF h, u, t, y
  <2>5. u \in ParserState /\ Scanning(u, B, c, q + 1, h) /\ Else(s, u)
    BY <2>1 DEF Scanned, Scanning
  <2>6. Counted(u, t)
    BY <2>5, FedIs DEF u, t, y
  <2>7. Scanning(t, B, c, q + 1, h)
    <3>1. ScanState(t, h)
      BY <2>5, <2>6 DEF ScanState, Scanning, Counted
    <3>2. Collected(t, SubSeq(B, c + 1, (q + 1) - h))
      BY <2>5, <2>6 DEF Collected, Scanning, Counted
    <3> QED BY <2>5, <2>6, <3>1, <3>2 DEF Scanning, Counted
  <2>8. ParsedUpTo(t, B, q + 1)
    BY <1>1, <2>5, <2>6 DEF ParsedUpTo, Counted, Else
  <2>9. InContent(t, xs, B, i, q + 1)
    <3>1. /\ c <= q + 1 /\ t.header = FALSE /\ t.isFile = x.file /\ t.found = Kept(xs, i - 1)
      <4>1. c <= q + 1
        BY <1>1, <1>3
      <4> QED BY <1>1, <2>5, <2>6, <4>1 DEF Counted, Else
    <3>2. /\ Begin(xs, i) <= q + 1 /\ q + 1 < End(xs, i) + Len(Mark)
          /\ t.header = FALSE /\ t.isFile = xs[i].file /\ t.found = Kept(xs, i - 1)
      BY <2>4, <3>1 DEF L, c, e, x
    <3> DEFINE k == q + 1
    <3> HIDE DEF k, c, e, L, x
    <3>4. Begin(xs, i) <= k
      BY <3>2 DEF k
    <3>4a. k < End(xs, i) + Len(Mark)
      BY <3>2 DEF k
    <3>4b. t.header = FALSE /\ t.isFile = xs[i].file /\ t.found = Kept(xs, i - 1)
      BY <3>2
    <3>4c. \E f \in 0..(Len(Mark) - 1) :
               Scanning(t, B, Begin(xs, i), k, f) /\ (k > End(xs, i) => f = k - End(xs, i))
      <4>1. \E f \in 0..(L - 1) : Scanning(t, B, c, k, f) /\ (k > e => f = k - e)
        <5> WITNESS h \in 0..(L - 1)
        <5>1. Scanning(t, B, c, k, h)
          BY <2>7 DEF k
        <5>2. k > e => h = k - e
          BY <1>3, <2>3 DEF k
        <5> QED BY <5>1, <5>2
      <4> QED BY <4>1 DEF L, c, e
    <3>5. InContent(t, xs, B, i, k)
      BY <3>4, <3>4a, <3>4b, <3>4c DEF InContent
    <3> QED BY <3>5 DEF k
  <2> QED BY <2>8, <2>9 DEF ParserAt, t
<1>8. CASE y = Mark[g + 1] /\ g + 1 = L
  <2>1. ~(q < e)
    BY <1>1, <1>2, <1>8, NoneWithin DEF L, c, e
  <2>2. q # e
    <3> SUFFICES ASSUME q = e PROVE FALSE
      OBVIOUS
    <3>1. q >= e /\ q - e + 1 = 1 /\ L \in 2..L
      BY <1>3
    <3>2. y = Multipart!CR
      BY <1>5, <1>6, <3>1
    <3> QED BY <1>6, <1>8, <3>1, <3>2
  <2>3. q > e /\ g = q - e /\ q - g = e /\ q + 1 = e + L
    BY <1>2a, <1>3, <1>8, <2>1, <2>2
  <2>4. u = Multipart!endItem(s)
    BY <1>2, <1>8, LastOfMark DEF Scanning, L
  <2>5. Collected(s, x.content)
    <3>1. Collected(s, SubSeq(B, c + 1, e))
      BY <1>2, <2>3 DEF Scanning
    <3>2. SubSeq(B, c + 1, e) = x.content
      <4> DEFINE w == x.content
                 v == SubSeq(B, c + 1, e)
                 n == Len(B)
      <4>1. w \in Seq(Octet) /\ l \in Nat /\ e = c + l /\ n \in Nat /\ e <= n
        <5>1. w \in Seq(Octet)
          BY <1>3a, ItemIs
        <5>2. n \in Nat /\ q + 1 <= n
          BY <1>4
        <5> HIDE DEF n
        <5>3. e <= n
          BY <1>3, <2>3, <5>2
        <5> QED BY <1>3, <5>1, <5>2, <5>3
      <4>2. \A j \in 1..l : B[c + j] = w[j]
        <5>1. ContentAt(B, Before(xs, i) + 7, w)
          BY DEF IsBody, x
        <5> QED BY <5>1 DEF ContentAt, Begin, c, l
      <4>3. v \in Seq(Octet) /\ Len(v) = l /\ \A j \in 1..l : v[j] = B[c + j]
        <5>1. c + 1 \in 1..(Len(B) + 1) /\ e \in 0..Len(B)
          BY <1>3, <4>1
        <5>2. /\ v \in Seq(Octet)
              /\ Len(v) = (IF c + 1 <= e THEN e - (c + 1) + 1 ELSE 0)
              /\ \A j \in 1..(e - (c + 1) + 1) : v[j] = B[(c + 1) + j - 1]
          <6> DEFINE d == c + 1
          <6>1. d \in 1..(Len(B) + 1)
            BY <5>1
          <6> HIDE DEF d
          <6>2. /\ SubSeq(B, d, e) \in Seq(Octet)
                /\ Len(SubSeq(B, d, e)) = (IF d <= e THEN e - d + 1 ELSE 0)
                /\ \A j \in 1..(e - d + 1) : SubSeq(B, d, e)[j] = B[d + j - 1]
            BY <1>4, <5>1, <6>1, SubSeqProperties
          <6> QED BY <6>2 DEF d
        <5> HIDE DEF v, n
        <5>3. (IF c + 1 <= e THEN e - (c + 1) + 1 ELSE 0) = l /\ e - (c + 1) + 1 = l
          BY <1>3, <4>1
        <5>4. \A j \in 1..l : (c + 1) + j - 1 = c + j
          BY <1>3
        <5> QED BY <5>2, <5>3, <5>4
      <4> HIDE DEF v, w
      <4>4. v = w
        <5>1. Len(w) = l
          BY DEF l, w
        <5>2. Len(v) = Len(w) /\ \A j \in 1..Len(v) : v[j] = w[j]
          BY <4>2, <4>3, <5>1
        <5> QED BY <4>1, <4>3, <5>2, SeqEqual
      <4> QED BY <4>4 DEF v, w
    <3> QED BY <3>1, <3>2
  <2>6. ItemEnded(s, u, x)
    BY <1>1, <1>3a, <2>4, <2>5, ItemEnds
  <2> HIDE DEF u, t, y
  <2>7. Counted(u, t)
    BY <2>6, FedIs DEF u, t, y, ItemEnded
  <2>8. ParsedUpTo(t, B, q + 1)
    BY <1>1, <2>6, <2>7 DEF ParsedUpTo, Counted, ItemEnded
  <2>9. Between(t, xs, i, q + 1)
    <3>1. t.found = Kept(xs, i)
      BY <1>1, <2>6, <2>7, KeptNext DEF Counted, ItemEnded, x
    <3> QED BY <1>1, <1>3a, <2>3, <2>6, <2>7, <3>1 DEF Between, Counted, ItemEnded
  <2> QED BY <2>8, <2>9 DEF ParserAt, t
<1> QED BY <1>7, <1>8

LEMMA BetweenFed ==
  ASSUME NEW xs \in Several, NEW B, IsBody(xs, B), NEW q \in Nat, q + 1 <= Len(B),
         NEW s, ParsedUpTo(s, B, q), NEW i \in 1..Len(xs), Between(s, xs, i, q), NEW last
  PROVE  ParserAt(Fed(s, B, q, last), xs, B, q + 1)
<1> DEFINE n == Len(xs)
           b == Before(xs, i + 1)
           y == B[q + 1]
           u == Multipart!parseByte(s, y, last)
           t == Fed(s, B, q, last)
<1>1. /\ s \in ParserState /\ s.parsedLength = q /\ s.contentLength = Len(B)
      /\ s.indexed = TRUE /\ s.header = FALSE /\ s.found = Kept(xs, i)
  BY DEF ParsedUpTo, Between
<1>2. b \in Nat /\ q + 1 \in Nat /\ i \in 1..n /\ n \in 1..2
  BY PlacesAre, SeveralAre
<1>3. /\ i < n => B[b + 1] = Multipart!CR /\ B[b + 2] = Multipart!LF
      /\ i = n => B[b + 1] = Multipart!Dash
  <2>1. CASE i < n
    <3>1. i + 1 \in 1..Len(xs) /\ i # n
      BY <1>2, <2>1
    <3>2. HeaderAt(B, b, xs[i + 1])
      BY <3>1 DEF IsBody
    <3> QED BY <3>1, <3>2 DEF HeaderAt
  <2>2. CASE i = n
    <3>1. ~(i < n)
      BY <1>2, <2>2
    <3> QED BY <2>2, <3>1 DEF IsBody
  <2> QED BY <1>2, <2>1, <2>2
<1> HIDE DEF n, b
<1>4. CASE q = b /\ s.state = "DASH3_OR_RETURN2" /\ i < n
  <2>1. y = Multipart!CR
    BY <1>3, <1>4
  <2>2. u = [s EXCEPT !.state = "EXPECT_FEED2"]
    BY <1>1, <1>4, <2>1 DEF Multipart!parseByte, Multipart!At, Multipart!CR, Multipart!Dash
  <2> HIDE DEF u, y
  <2>3. u \in ParserState
    BY <1>1, <2>2 DEF ParserState
  <2>4. /\ u.parsedLength = q /\ u.contentLength = Len(B) /\ u.indexed = TRUE
        /\ u.header = FALSE /\ u.found = Kept(xs, i) /\ u.state = "EXPECT_FEED2"
    BY <1>1, <2>2 DEF ParserState
  <2>5. Counted(u, t)
    BY <2>3, FedIs DEF u, y
  <2> HIDE DEF t
  <2>6. ParsedUpTo(t, B, q + 1)
    BY <2>4, <2>5 DEF ParsedUpTo, Counted
  <2>7. Between(t, xs, i, q + 1)
    BY <1>4, <2>4, <2>5 DEF Between, Counted, b, n
  <2> QED BY <1>2, <2>6, <2>7 DEF ParserAt, t
<1>5. CASE q = b /\ s.state = "DASH3_OR_RETURN2" /\ i = n
  <2>1. y = Multipart!Dash
    BY <1>3, <1>5
  <2>2. u = [s EXCEPT !.state = "PARSING_FINISHED", !.contentLength = s.parsedLength + 4]
    BY <1>1, <1>5, <2>1 DEF Multipart!parseByte, Multipart!At, Multipart!CR, Multipart!Dash
  <2>3. Len(B) = b + 4 /\ Len(B) \in Nat /\ s.parsedLength + 4 = Len(B)
    <3>1. Len(B) = b + 4
      BY <1>5 DEF IsBody, b, n
    <3> QED BY <1>1, <1>2, <1>5, <3>1
  <2> HIDE DEF u, y
  <2>4. u \in ParserState
    BY <1>1, <2>2, <2>3 DEF ParserState
  <2>5. /\ u.parsedLength = q /\ u.contentLength = Len(B) /\ u.indexed = TRUE
        /\ u.found = Kept(xs, i) /\ u.state = "PARSING_FINISHED"
    BY <1>1, <2>2, <2>3 DEF ParserState
  <2>6. Counted(u, t)
    BY <2>4, FedIs DEF u, y
  <2> HIDE DEF t
  <2>7. ParsedUpTo(t, B, q + 1)
    BY <2>5, <2>6 DEF ParsedUpTo, Counted
  <2>8. AtLast(t, xs, B, q + 1)
    <3>1. q + 1 > b
      BY <1>2, <1>5
    <3>2. t.state = "PARSING_FINISHED" /\ t.found = Kept(xs, n)
      BY <1>5, <2>5, <2>6 DEF Counted
    <3> QED BY <1>5, <3>1, <3>2 DEF AtLast, b, n
  <2> QED BY <1>2, <2>7, <2>8 DEF ParserAt, t
<1>6. CASE q = b + 1 /\ s.state = "EXPECT_FEED2" /\ i < n
  <2>1. q + 1 = b + 2 /\ (q + 1) - b = 2 /\ i + 1 \in 1..n /\ (i + 1) - 1 = i
    BY <1>2, <1>6
  <2>2. y = Multipart!LF
    BY <1>3, <1>6, <2>1
  <2>3. u = [s EXCEPT !.state = "PARSE_HEADERS", !.isFile = FALSE]
    BY <1>1, <1>6, <2>2 DEF Multipart!parseByte, Multipart!At
  <2> HIDE DEF u, y
  <2>4. u \in ParserState
    BY <1>1, <2>3 DEF ParserState
  <2>5. /\ u.parsedLength = q /\ u.contentLength = Len(B) /\ u.indexed = TRUE
        /\ u.header = FALSE /\ u.found = Kept(xs, i) /\ u.state = "PARSE_HEADERS"
        /\ u.isFile = FALSE
    BY <1>1, <2>3 DEF ParserState
  <2>6. Counted(u, t)
    BY <2>4, FedIs DEF u, y
  <2> HIDE DEF t
  <2>7. ParsedUpTo(t, B, q + 1)
    BY <2>5, <2>6 DEF ParsedUpTo, Counted
  <2>8. InHeader(t, xs, i + 1, q + 1)
    <3>1. (q + 1) - Before(xs, i + 1) = 2
      BY <2>1 DEF b
    <3>2. t.found = Kept(xs, (i + 1) - 1)
      BY <2>1, <2>5, <2>6 DEF Counted
    <3> QED BY <2>5, <2>6, <3>1, <3>2 DEF InHeader, Counted
  <2>9. \E j \in 1..Len(xs) : InHeader(t, xs, j, q + 1)
    BY <2>1, <2>8 DEF n
  <2> QED BY <1>2, <2>7, <2>9 DEF ParserAt, t
<1>7. i < n \/ i = n
  BY <1>2
<1> QED BY <1>4, <1>5, <1>6, <1>7 DEF Between, b, n

LEMMA LastFed ==
  ASSUME NEW xs \in Several, NEW B, NEW q \in Nat, NEW s, ParsedUpTo(s, B, q),
         AtLast(s, xs, B, q), NEW last
  PROVE  ParserAt(Fed(s, B, q, last), xs, B, q + 1)
<1> DEFINE b == Before(xs, Len(xs) + 1)
           u == Multipart!parseByte(s, B[q + 1], last)
           t == Fed(s, B, q, last)
<1>1. /\ s \in ParserState /\ s.parsedLength = q /\ s.contentLength = Len(B)
      /\ s.indexed = TRUE /\ s.state = "PARSING_FINISHED" /\ s.found = Kept(xs, Len(xs))
      /\ q > b
  BY DEF ParsedUpTo, AtLast
<1>2. u = s
  BY <1>1 DEF Multipart!parseByte
<1>3. Counted(s, t)
  BY <1>1, <1>2, FedIs
<1>4. q + 1 \in Nat /\ q + 1 > b
  <2>1. b \in Nat
    <3>1. 1 \in 1..Len(xs)
      BY SeveralAre
    <3> QED BY <3>1, PlacesAre
  <2> HIDE DEF b
  <2> QED BY <1>1, <2>1
<1> HIDE DEF t, u
<1>5. ParsedUpTo(t, B, q + 1) /\ AtLast(t, xs, B, q + 1)
  BY <1>1, <1>3, <1>4 DEF ParsedUpTo, AtLast, Counted
<1> QED BY <1>4, <1>5 DEF ParserAt, t

-------------------------------------------------------------------------------
(* The items of the body that is sent, and the parser where it is in it.   *)
BodyInv ==
  /\ items \in Several
  /\ ParserAt(parser, items, Multipart!bodyText(items), parser.parsedLength)

LEMMA ParserStarts == MCInit => BodyInv
<1> SUFFICES ASSUME MCInit PROVE BodyInv
  OBVIOUS
<1> DEFINE B == Multipart!bodyText(items)
<1>1. items \in Several
  BY DEF MCInit, Multipart!Init, Several
<1>2. parser = [parsedLength |-> 0, contentLength |-> Len(B), state |-> "EXPECT_BOUNDARY",
                position |-> 0, header |-> FALSE, isFile |-> FALSE, size |-> 0,
                value |-> <<>>, buffer |-> <<>>, found |-> <<>>, upload |-> <<>>,
                indexed |-> TRUE]
  BY DEF MCInit, Multipart!Init
<1>3. Len(B) \in Nat
  <2>1. B \in Seq(Octet)
    BY <1>1, BodyTextIs DEF IsBody
  <2> QED BY <2>1
<1> HIDE DEF B
<1>4. parser \in ParserState
  <2>1. /\ <<>> \in Seq(Octet) /\ <<>> \in Seq(Multipart!Item) /\ 0 \in Nat
        /\ FALSE \in BOOLEAN /\ TRUE \in BOOLEAN
    OBVIOUS
  <2> QED BY <1>2, <1>3, <2>1 DEF ParserState
<1>5. ParsedUpTo(parser, B, 0) /\ parser.parsedLength = 0
  BY <1>2, <1>4 DEF ParsedUpTo
<1>6. Opening(parser, items, 0)
  <2>1. 0 \in 0..(Len(Mark) - 1)
    BY MarkIs
  <2> QED BY <1>2, <2>1 DEF Opening, Kept
<1> QED BY <1>1, <1>5, <1>6 DEF BodyInv, ParserAt, B

LEMMA ParserKeeps ==
  ASSUME BodyInv, [MCNext]_MCvars
  PROVE  BodyInv'
<1> DEFINE B == Multipart!bodyText(items)
           q == parser.parsedLength
<1>1. items \in Several /\ ParserAt(parser, items, B, q) /\ IsBody(items, B)
  BY BodyTextIs DEF BodyInv
<1>2. CASE UNCHANGED <<items, parser>>
  BY <1>2 DEF BodyInv
<1>3. CASE Multipart!Next
  <2>1. PICK last \in BOOLEAN : Multipart!Byte(last)
    BY <1>3 DEF Multipart!Next
  <2>2. /\ items' = items /\ q < Len(B)
        /\ parser' = Fed(parser, B, q, last)
    BY <2>1 DEF Multipart!Byte, Multipart!body, Fed
  <2> DEFINE t == Fed(parser, B, q, last)
  <2>3. q \in Nat /\ q + 1 <= Len(B) /\ ParsedUpTo(parser, B, q)
    <3>1. q \in Nat /\ ParsedUpTo(parser, B, q)
      BY <1>1 DEF ParserAt
    <3>2. Len(B) \in Nat
      BY <1>1 DEF IsBody
    <3> HIDE DEF q, B
    <3> QED BY <2>2, <3>1, <3>2
  <2> HIDE DEF q, B
  <2>4. ParserAt(t, items, B, q + 1)
    BY <1>1, <2>3, OpeningFed, HeaderFed, ContentFed, BetweenFed, LastFed DEF ParserAt
  <2>5. parser' = t /\ t.parsedLength = q + 1
    BY <2>2, <2>4 DEF ParserAt, ParsedUpTo
  <2> HIDE DEF t
  <2>6. Multipart!bodyText(items)' = B
    BY <2>2 DEF B
  <2>7. ParserAt(parser', items', B, parser'.parsedLength)
    BY <2>2, <2>4, <2>5
  <2> QED BY <1>1, <2>2, <2>7 DEF BodyInv, B
<1>4. Multipart!Next \/ UNCHANGED <<items, parser>>
  BY DEF MCNext, OfRequest, OfMultipart, OfResponse, MCvars, multipartVars
<1> QED BY <1>2, <1>3, <1>4

(* Behind any number of bytes the parser is where the body is: in its      *)
(* first delimiter, in the header of an item, in its content or the        *)
(* delimiter behind it, or behind the last; and it has found the items     *)
(* that end before that.                                                   *)
THEOREM BodyInvariant == MCSpec => []BodyInv
<1> QED BY ParserStarts, ParserKeeps, PTL DEF MCSpec

(* In every state of every behaviour the items found when the body ends    *)
(* are those that were sent, though their bytes may look like a delimiter  *)
(* up to its last, and however the body is cut into segments.              *)
THEOREM ItemsAsSentAlways == MCSpec => []ItemsAsSent
<1>1. BodyInv => ItemsAsSent
  <2> SUFFICES ASSUME BodyInv PROVE ItemsAsSent
    OBVIOUS
  <2> DEFINE B == Multipart!bodyText(items)
             q == parser.parsedLength
             n == Len(items)
             b == Before(items, n + 1)
  <2>1. items \in Several /\ ParserAt(parser, items, B, q) /\ IsBody(items, B)
    BY BodyTextIs DEF BodyInv
  <2>2. parser.indexed = TRUE /\ parser.contentLength = Len(B) /\ q \in Nat
    BY <2>1 DEF ParserAt, ParsedUpTo
  <2>3. Len(B) = b + 4 /\ b \in Nat /\ Len(Mark) \in Nat /\ Len(Mark) - 2 <= b
    <3>1. 1 \in 1..n
      BY <2>1, SeveralAre, SMTT(20)
    <3>2. Before(items, 1) = Len(Mark) - 2 /\ Len(Mark) \in Nat /\ b \in Nat
      BY <2>1, <3>1, PlacesAre
    <3>3. Before(items, 1 + 1) = End(items, 1) + Len(Mark) /\ Before(items, 1 + 1) <= b
          /\ End(items, 1) \in Nat /\ Before(items, 1 + 1) \in Nat
      BY <2>1, <3>1, PlacesAre
    <3> HIDE DEF b
    <3>4. Len(B) = b + 4
      BY <2>1 DEF IsBody, b
    <3> QED BY <3>2, <3>3, <3>4
  <2> HIDE DEF b, B, q
  <2>4. ~AtLast(parser, items, B, q) => parser.state # "PARSE_ERROR" /\ q < Len(B)
    <3> SUFFICES ASSUME ~AtLast(parser, items, B, q)
                 PROVE  parser.state # "PARSE_ERROR" /\ q < Len(B)
      OBVIOUS
    <3>1. CASE Opening(parser, items, q)
      BY <2>2, <2>3, <3>1 DEF Opening
    <3>2. ASSUME NEW i \in 1..n, InHeader(parser, items, i, q) \/ InContent(parser, items, B, i, q)
                                 \/ Between(parser, items, i, q)
          PROVE  parser.state # "PARSE_ERROR" /\ q < Len(B)
      <4> DEFINE e == End(items, i)
                 g == Begin(items, i)
                 c == Before(items, i)
                 d == Before(items, i + 1)
                 m == Len(Mark)
                 k == Len(items[i].content)
      <4>1. /\ d = e + m /\ d <= b /\ d \in Nat /\ e \in Nat /\ c \in Nat /\ g = c + 7
            /\ e = g + k /\ k \in Nat /\ m \in Nat /\ m >= 5
        BY <2>1, PlacesAre DEF Begin, End, b
      <4>2. (q - c) \in 2..6 \/ q < e + m \/ q = d \/ q = d + 1
        BY <3>2 DEF InHeader, InContent, Between
      <4>3. parser.state # "PARSE_ERROR"
        BY <3>2 DEF InHeader, InContent, Between, Scanning, ScanState
      <4> HIDE DEF e, g, c, d, m, k
      <4>4. q < Len(B)
        BY <2>2, <2>3, <4>1, <4>2
      <4> QED BY <4>3, <4>4
    <3> QED BY <2>1, <3>1, <3>2 DEF ParserAt
  <2>5. AtLast(parser, items, B, q) =>
          /\ parser.state = "PARSING_FINISHED"
          /\ parser.found = Multipart!FlattenSeq([i \in DOMAIN items |->
               IF items[i].file /\ items[i].content = <<>> THEN <<>> ELSE <<items[i]>>])
    BY <2>1, KeptAll DEF AtLast
  <2>6. q = Len(B) => AtLast(parser, items, B, q)
    BY <2>2, <2>3, <2>4
  <2>7. /\ parser.indexed /\ parser.state # "PARSE_ERROR" /\ parser.contentLength = Len(B)
        /\ q = parser.contentLength =>
             /\ parser.state = "PARSING_FINISHED"
             /\ parser.found = Multipart!FlattenSeq([i \in DOMAIN items |->
                  IF items[i].file /\ items[i].content = <<>> THEN <<>> ELSE <<items[i]>>])
    BY <2>2, <2>4, <2>5, <2>6
  <2> QED BY <2>7 DEF ItemsAsSent, Multipart!ItemsAsSent, Multipart!body, B, q
<1> QED BY <1>1, BodyInvariant, PTL

===============================================================================
