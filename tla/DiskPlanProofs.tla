--------------------------- MODULE DiskPlanProofs ---------------------------
(***************************************************************************)
(* Proofs about the methods that read a device, for volumes of any size.   *)
(***************************************************************************)
EXTENDS DiskPlan, AlgorithmProofs

-----------------------------------------------------------------------------
(* Sums.                                                                   *)

(* Steps of one reach every number.                                        *)
LEMMA StepByStep ==
  ASSUME NEW m \in Nat, NEW P, 0 \in P, \A k \in 1..m : k - 1 \in P => k \in P
  PROVE  \A k \in 0..m : k \in P
<1> DEFINE bad == {k \in 0..m : k \notin P}
<1>1. SUFFICES ASSUME bad # {} PROVE FALSE
  OBVIOUS
<1>2. bad \subseteq Nat
  OBVIOUS
<1> HIDE DEF bad
<1>3. PICK k \in bad : \A j \in bad : k <= j
  BY <1>1, <1>2, LeastNumber
<1>4. k \in 0..m /\ k \notin P
  BY <1>3 DEF bad
<1>5. k \in 1..m /\ k - 1 \in 0..m /\ ~(k <= k - 1)
  BY <1>4
<1>6. k - 1 \in P
  BY <1>3, <1>5 DEF bad
<1> QED  BY <1>4, <1>5, <1>6

(* f[k] is the sum of the first k numbers of s.                            *)
Sums(f, s, m) == f \in [0..m -> Nat] /\ f[0] = 0 /\ \A k \in 1..m : f[k] = f[k - 1] + s[k]

LEMMA SumOfIs ==
  ASSUME NEW s \in Seq(Nat)
  PROVE  \E f : Sums(f, s, Len(s)) /\ SumOf(s) = f[Len(s)]
<1> DEFINE step == [vk \in Nat \X (1..Len(s)) |-> vk[1] + s[vk[2]]]
<1>1. PICK n \in Nat : n = Len(s)
  BY LenProperties
<1>2. \A k \in 1..n : s[k] \in Nat
  BY <1>1, ElementOfSeq
<1>3. step \in [Nat \X (1..n) -> Nat] /\ 0 \in Nat
  BY <1>1, <1>2
<1>4. \A v \in Nat, k \in 1..n : step[<<v, k>>] = v + s[k]
  BY <1>1
<1> HIDE DEF step
<1>5. PICK g : Iterates(g, n, Nat, 0, step)
  BY <1>3, IterationExists
<1>6. g \in [0..n -> Nat] /\ g[0] = 0 /\ \A k \in 1..n : g[k] = step[<<g[k - 1], k>>]
  BY <1>5 DEF Iterates
<1> DEFINE Makes(f) == f = [k \in 0..n |-> IF k = 0 THEN 0 ELSE f[k - 1] + s[k]]
<1>7. Makes(g)
  <2>1. ASSUME NEW k \in 0..n  PROVE g[k] = IF k = 0 THEN 0 ELSE g[k - 1] + s[k]
    <3>1. CASE k # 0
      <4>1. k \in 1..n /\ k - 1 \in 0..n
        BY <3>1
      <4> QED  BY <1>4, <1>6, <3>1, <4>1
    <3> QED  BY <1>6, <3>1
  <2>2. g = [k \in 0..n |-> g[k]]
    BY <1>6
  <2> QED  BY <2>1, <2>2
<1> DEFINE first == CHOOSE f : Makes(f)
<1>8. Makes(first)
  <2> HIDE DEF Makes
  <2> QED  BY <1>7, Zenon
<1>9. SumOf(s) = first[n]
  BY <1>1 DEF SumOf
<1> HIDE DEF first
<1>10. DOMAIN first = 0..n /\ first[0] = 0 /\ \A k \in 1..n : first[k] = first[k - 1] + s[k]
  <2>1. \A k \in 0..n : first[k] = IF k = 0 THEN 0 ELSE first[k - 1] + s[k]
    BY <1>8
  <2>2. 0 \in 0..n /\ \A k \in 1..n : k \in 0..n /\ k # 0
    OBVIOUS
  <2> QED  BY <1>8, <2>1, <2>2
<1> HIDE DEF Makes
<1> DEFINE P == {k \in 0..n : first[k] \in Nat}
<1>11. 0 \in P /\ \A k \in 1..n : k - 1 \in P => k \in P
  <2>1. 0 \in P
    BY <1>10
  <2>2. ASSUME NEW k \in 1..n, k - 1 \in P  PROVE k \in P
    <3>1. first[k - 1] \in Nat /\ s[k] \in Nat /\ first[k] = first[k - 1] + s[k] /\ k \in 0..n
      BY <1>2, <1>10, <2>2
    <3> HIDE <1>8
    <3> QED  BY <3>1
  <2> QED  BY <2>1, <2>2
<1> HIDE DEF P
<1>12. \A k \in 0..n : k \in P
  BY <1>11, StepByStep
<1>13. \A k \in 0..n : first[k] \in Nat
  BY <1>12 DEF P
<1>14. Sums(first, s, n)
  <2>1. first \in [0..n -> Nat]
    BY <1>8, <1>13 DEF Makes
  <2> QED  BY <1>10, <2>1 DEF Sums
<1> QED  BY <1>1, <1>9, <1>14

(* Two sums of the same numbers.                                           *)
LEMMA SumsOnly ==
  ASSUME NEW m \in Nat, NEW n \in Nat, m <= n, NEW s, NEW t, NEW f, Sums(f, s, m),
         NEW g, Sums(g, t, n), \A k \in 1..m : s[k] = t[k]
  PROVE  \A k \in 0..m : f[k] = g[k]
<1> DEFINE P == {k \in 0..m : f[k] = g[k]}
<1>1. 0 \in P
  BY DEF Sums
<1>2. ASSUME NEW k \in 1..m, k - 1 \in P  PROVE k \in P
  BY <1>2 DEF Sums
<1> HIDE DEF P
<1>3. \A k \in 0..m : k \in P
  BY <1>1, <1>2, StepByStep
<1> QED  BY <1>3 DEF P

(* The sum is what such an f ends with.                                    *)
LEMMA SumOnly ==
  ASSUME NEW s \in Seq(Nat), NEW f, Sums(f, s, Len(s))
  PROVE  SumOf(s) = f[Len(s)] /\ SumOf(s) \in Nat
<1>1. Len(s) \in Nat /\ Len(s) <= Len(s) /\ Len(s) \in 0..Len(s)
  BY LenProperties
<1>2. PICK g : Sums(g, s, Len(s)) /\ SumOf(s) = g[Len(s)]
  BY SumOfIs
<1>3. f[Len(s)] = g[Len(s)]
  BY <1>1, <1>2, SumsOnly
<1> QED  BY <1>1, <1>2, <1>3 DEF Sums

LEMMA SumIsNat == ASSUME NEW s \in Seq(Nat)  PROVE SumOf(s) \in Nat
BY SumOfIs, SumOnly

LEMMA SumEmpty == SumOf(<<>>) = 0
<1>1. <<>> \in Seq(Nat) /\ Len(<<>>) = 0
  OBVIOUS
<1>2. PICK f : Sums(f, <<>>, Len(<<>>)) /\ SumOf(<<>>) = f[Len(<<>>)]
  BY <1>1, SumOfIs
<1> QED  BY <1>1, <1>2 DEF Sums

(* The numbers of a sequence one after those of another.                   *)
LEMMA SumConcat ==
  ASSUME NEW s \in Seq(Nat), NEW t \in Seq(Nat)
  PROVE  SumOf(s \o t) = SumOf(s) + SumOf(t)
<1>1. PICK m \in Nat : m = Len(s)
  BY LenProperties
<1>2. PICK n \in Nat : n = Len(t)
  BY LenProperties
<1>3. PICK f : Sums(f, s, m) /\ SumOf(s) = f[m]
  BY <1>1, SumOfIs
<1>4. PICK g : Sums(g, t, n) /\ SumOf(t) = g[n]
  BY <1>2, SumOfIs
<1>5. s \o t \in Seq(Nat) /\ Len(s \o t) = m + n
  BY <1>1, <1>2, ConcatProperties
<1>6. /\ \A k \in 1..m : (s \o t)[k] = s[k]
      /\ \A k \in 1..n : (s \o t)[m + k] = t[k]
  BY <1>1, <1>2
<1> DEFINE h == [k \in 0..(m + n) |-> IF k <= m THEN f[k] ELSE f[m] + g[k - m]]
<1>7. Sums(h, s \o t, m + n)
  <2>1. f \in [0..m -> Nat] /\ g \in [0..n -> Nat] /\ f[0] = 0 /\ g[0] = 0 /\ f[m] \in Nat
    BY <1>3, <1>4 DEF Sums
  <2>2. (\A k \in 0..m : h[k] = f[k]) /\ \A k \in 0..n : h[m + k] = f[m] + g[k]
    <3>1. \A k \in 0..m : k \in 0..(m + n) /\ k <= m
      OBVIOUS
    <3>2. ASSUME NEW k \in 0..n  PROVE h[m + k] = f[m] + g[k]
      <4>1. m + k \in 0..(m + n) /\ m + k - m = k /\ (m + k <= m => k = 0)
        OBVIOUS
      <4>2. h[m + k] = IF m + k <= m THEN f[m + k] ELSE f[m] + g[m + k - m]
        BY <4>1
      <4> QED  BY <2>1, <4>1, <4>2
    <3> QED  BY <3>1, <3>2
  <2>3. \A k \in 0..(m + n) : k \in 0..m \/ \E j \in 1..n : k = m + j
    <3>1. ASSUME NEW k \in 0..(m + n)  PROVE k <= m \/ (k - m \in 1..n /\ k = m + (k - m))
      OBVIOUS
    <3> QED  BY <3>1
  <2>4. DOMAIN h = 0..(m + n) /\ h = [k \in DOMAIN h |-> h[k]]
    OBVIOUS
  <2> HIDE DEF h
  <2>5. h \in [0..(m + n) -> Nat] /\ h[0] = 0
    <3>1. ASSUME NEW k \in 0..(m + n)  PROVE h[k] \in Nat
      <4>1. CASE k \in 0..m
        BY <2>1, <2>2, <4>1
      <4>2. CASE \E j \in 1..n : k = m + j
        <5>1. PICK j \in 1..n : k = m + j
          BY <4>2
        <5>2. j \in 0..n /\ g[j] \in Nat /\ f[m] \in Nat
          BY <2>1
        <5>3. h[k] = f[m] + g[j]
          BY <2>2, <5>1, <5>2
        <5> QED  BY <5>2, <5>3
      <4>3. k \in 0..m \/ \E j \in 1..n : k = m + j
        BY <2>3
      <4> QED  BY <4>1, <4>2, <4>3
    <3>2. h \in [0..(m + n) -> Nat]
      BY <2>4, <3>1
    <3> QED  BY <2>1, <2>2, <3>2
  <2>6. ASSUME NEW k \in 1..(m + n)  PROVE h[k] = h[k - 1] + (s \o t)[k]
    <3>1. CASE k \in 1..m
      <4>1. k \in 0..m /\ k - 1 \in 0..m
        BY <3>1
      <4>2. f[k] = f[k - 1] + s[k] /\ (s \o t)[k] = s[k]
        BY <1>3, <1>6, <3>1 DEF Sums
      <4> QED  BY <2>2, <4>1, <4>2
    <3>2. CASE \E j \in 1..n : k = m + j
      <4>1. PICK j \in 1..n : k = m + j
        BY <3>2
      <4>2. j \in 0..n /\ j - 1 \in 0..n /\ k - 1 = m + (j - 1)
        BY <4>1
      <4>3. g[j] = g[j - 1] + t[j] /\ (s \o t)[k] = t[j]
        BY <1>4, <1>6, <4>1 DEF Sums
      <4>4. h[k] = f[m] + g[j] /\ h[k - 1] = f[m] + g[j - 1]
        BY <2>2, <4>1, <4>2
      <4>5. t[j] \in Nat /\ g[j - 1] \in Nat /\ f[m] \in Nat
        BY <1>2, <2>1, <4>2, ElementOfSeq
      <4> QED  BY <4>3, <4>4, <4>5
    <3>3. k \in 1..m \/ \E j \in 1..n : k = m + j
      <4>1. k \in 0..(m + n) /\ k # 0
        OBVIOUS
      <4>2. k \in 0..m \/ \E j \in 1..n : k = m + j
        BY <2>3, <4>1
      <4> QED  BY <4>1, <4>2
    <3> QED  BY <3>1, <3>2, <3>3
  <2> QED  BY <2>5, <2>6 DEF Sums
<1>8. h[m + n] = f[m] + g[n]
  <2>1. g[0] = 0 /\ f[m] \in Nat /\ m + n \in 0..(m + n) /\ m + n - m = n
    BY <1>3, <1>4 DEF Sums
  <2> QED  BY <2>1
<1> HIDE DEF h
<1> QED  BY <1>3, <1>4, <1>5, <1>7, <1>8, SumOnly

(* One more number.                                                        *)
LEMMA SumAppend ==
  ASSUME NEW s \in Seq(Nat), NEW x \in Nat
  PROVE  SumOf(Append(s, x)) = SumOf(s) + x
<1>1. <<x>> \in Seq(Nat) /\ Len(<<x>>) = 1 /\ <<x>>[1] = x
  OBVIOUS
<1>2. SumOf(<<x>>) = x
  <2>1. PICK f : Sums(f, <<x>>, 1) /\ SumOf(<<x>>) = f[1]
    BY <1>1, SumOfIs
  <2> QED  BY <1>1, <2>1 DEF Sums
<1>3. Append(s, x) = s \o <<x>>
  BY AppendIsConcat
<1> QED  BY <1>1, <1>2, <1>3, SumConcat

(* The numbers of t but that at q.                                         *)
LEMMA SumWithoutOne ==
  ASSUME NEW t \in Seq(Nat), NEW u \in Seq(Nat), NEW q \in 1..Len(t), Len(u) = Len(t) - 1,
         \A i \in 1..Len(u) : u[i] = IF i < q THEN t[i] ELSE t[i + 1]
  PROVE  SumOf(t) = SumOf(u) + t[q]
<1>1. PICK m \in Nat : m = Len(t)
  BY LenProperties
<1>2. q \in 1..m /\ m - 1 \in Nat /\ m \in 0..m /\ t[q] \in Nat
  BY <1>1, ElementOfSeq
<1>3. PICK f : Sums(f, t, m) /\ SumOf(t) = f[m]
  BY <1>1, SumOfIs
<1>4. PICK g : Sums(g, u, m - 1) /\ SumOf(u) = g[m - 1]
  BY <1>1, SumOfIs
<1>5. /\ f[0] = 0 /\ \A k \in 1..m : f[k] = f[k - 1] + t[k]
      /\ g[0] = 0 /\ \A k \in 1..(m - 1) : g[k] = g[k - 1] + u[k]
      /\ \A k \in 0..(m - 1) : g[k] \in Nat
  BY <1>3, <1>4 DEF Sums
<1> DEFINE P == {k \in 0..m : f[k] = IF k < q THEN g[k] ELSE g[k - 1] + t[q]}
<1>6. 0 \in P
  BY <1>2, <1>5
<1>7. ASSUME NEW k \in 1..m, k - 1 \in P  PROVE k \in P
  <2>1. f[k] = f[k - 1] + t[k] /\ t[k] \in Nat
    BY <1>1, <1>5, ElementOfSeq
  <2>2. f[k - 1] = IF k - 1 < q THEN g[k - 1] ELSE g[k - 1 - 1] + t[q]
    BY <1>7
  <2>3. CASE k < q
    <3>1. k \in 1..(m - 1) /\ k - 1 < q
      BY <1>2, <2>3
    <3>2. u[k] = t[k] /\ g[k] = g[k - 1] + u[k]
      BY <1>1, <1>5, <2>3, <3>1
    <3> QED  BY <2>1, <2>2, <2>3, <3>1, <3>2
  <2>4. CASE k = q
    BY <1>2, <2>1, <2>2, <2>4
  <2>5. CASE k > q
    <3>1. k - 1 \in 1..(m - 1) /\ ~(k - 1 < q) /\ ~(k < q) /\ k - 1 - 1 \in 0..(m - 1)
      BY <1>2, <2>5
    <3>2. u[k - 1] = t[k] /\ g[k - 1] = g[k - 1 - 1] + u[k - 1]
      BY <1>1, <1>5, <3>1
    <3>3. f[k] = g[k - 1] + t[q]
      <4>1. f[k - 1] = g[k - 1 - 1] + t[q]
        BY <2>2, <3>1
      <4>2. g[k - 1 - 1] \in Nat
        BY <1>5, <3>1
      <4> QED  BY <1>2, <2>1, <3>2, <4>1, <4>2
    <3> QED  BY <3>1, <3>3
  <2> QED  BY <1>2, <2>3, <2>4, <2>5
<1> HIDE DEF P
<1>8. \A k \in 0..m : k \in P
  BY <1>6, <1>7, StepByStep
<1>9. f[m] = g[m - 1] + t[q]
  <2>1. m \in P /\ ~(m < q)
    BY <1>2, <1>8
  <2> QED  BY <2>1 DEF P
<1> QED  BY <1>3, <1>4, <1>9

(* p says where in t the elements of s are.                                *)
Moves(p, s, t, m) ==
  /\ p \in [1..m -> 1..m] /\ \A i, j \in 1..m : p[i] = p[j] => i = j
  /\ Len(s) = m /\ Len(t) = m /\ \A i \in 1..m : t[p[i]] = s[i]

(* A sum does not depend on the order.                                     *)
LEMMA SumMoved ==
  ASSUME NEW m \in Nat, NEW s \in Seq(Nat), NEW t \in Seq(Nat), NEW p, Moves(p, s, t, m)
  PROVE  SumOf(s) = SumOf(t)
<1> DEFINE Same(a, b) == SumOf(a) = SumOf(b)
           P == {k \in 0..m : \A a, b \in Seq(Nat) : (\E r : Moves(r, a, b, k)) => Same(a, b)}
<1>1. 0 \in P
  <2> SUFFICES ASSUME NEW a \in Seq(Nat), NEW b \in Seq(Nat), NEW r, Moves(r, a, b, 0)
               PROVE  Same(a, b)
    OBVIOUS
  <2>1. a = <<>> /\ b = <<>>
    BY EmptySeq DEF Moves
  <2> QED  BY <2>1
<1>2. ASSUME NEW k \in 1..m, k - 1 \in P  PROVE k \in P
  <2> SUFFICES ASSUME NEW a \in Seq(Nat), NEW b \in Seq(Nat), NEW r, Moves(r, a, b, k)
               PROVE  Same(a, b)
    OBVIOUS
  <2>1. PICK l \in Nat : l = k - 1 /\ k = l + 1
    OBVIOUS
  <2>2. /\ r \in [1..k -> 1..k] /\ \A i, j \in 1..k : r[i] = r[j] => i = j
        /\ Len(a) = k /\ Len(b) = k /\ \A i \in 1..k : b[r[i]] = a[i]
    BY <1>2 DEF Moves
  <2>3. PICK q \in 1..k : q = r[k]
    BY <2>2
  <2>4. \A i \in 1..k : a[i] \in Nat /\ b[i] \in Nat
    BY <2>2, ElementOfSeq
  <2> DEFINE c == [i \in 1..l |-> a[i]]
             d == [i \in 1..l |-> IF i < q THEN b[i] ELSE b[i + 1]]
             v == [i \in 1..l |-> IF r[i] < q THEN r[i] ELSE r[i] - 1]
  <2>5. c \in Seq(Nat) /\ Len(c) = l /\ d \in Seq(Nat) /\ Len(d) = l
    <3>1. \A i \in 1..l : i \in 1..k /\ i + 1 \in 1..k
      BY <2>1
    <3>2. \A i \in 1..l : a[i] \in Nat /\ (IF i < q THEN b[i] ELSE b[i + 1]) \in Nat
      BY <2>4, <3>1
    <3> QED  BY <3>2
  <2>6. SumOf(a) = SumOf(c) + a[k]
    <3>1. k \in 1..Len(a) /\ \A i \in 1..l : i < k
      BY <2>1, <2>2
    <3>2. \A i \in 1..Len(c) : c[i] = IF i < k THEN a[i] ELSE a[i + 1]
      BY <2>5, <3>1
    <3> HIDE DEF c
    <3>3. Len(c) = Len(a) - 1 /\ c \in Seq(Nat)
      BY <2>1, <2>2, <2>5
    <3> QED  BY <3>1, <3>2, <3>3, SumWithoutOne
  <2>7. SumOf(b) = SumOf(d) + b[q]
    <3>1. \A i \in 1..Len(d) : d[i] = IF i < q THEN b[i] ELSE b[i + 1]
      BY <2>5
    <3> HIDE DEF d
    <3>2. Len(d) = Len(b) - 1 /\ d \in Seq(Nat) /\ q \in 1..Len(b)
      BY <2>1, <2>2, <2>3, <2>5
    <3> QED  BY <3>1, <3>2, SumWithoutOne
  <2>8. \A i \in 1..l : i \in 1..k /\ r[i] \in 1..k /\ r[i] # q /\ v[i] = IF r[i] < q THEN r[i] ELSE r[i] - 1
    <3> SUFFICES ASSUME NEW i \in 1..l
                 PROVE  i \in 1..k /\ r[i] \in 1..k /\ r[i] # q
      OBVIOUS
    <3>1. i \in 1..k /\ k \in 1..k /\ i # k
      BY <2>1
    <3> QED  BY <2>2, <2>3, <3>1
  <2>9. Moves(v, c, d, l)
    <3>1. \A i \in 1..l : v[i] \in 1..l
      BY <2>1, <2>8, SMTT(60)
    <3>2. v \in [1..l -> 1..l]
      BY <3>1
    <3>3. ASSUME NEW i \in 1..l, NEW j \in 1..l, v[i] = v[j]  PROVE i = j
      <4>1. r[i] = r[j]
        BY <2>8, <3>3, SMTT(60)
      <4> QED  BY <2>2, <2>8, <4>1
    <3>4. ASSUME NEW i \in 1..l  PROVE d[v[i]] = c[i]
      <4>1. c[i] = a[i] /\ b[r[i]] = a[i]
        BY <2>2, <2>8
      <4>2. v[i] \in 1..l /\ d[v[i]] = IF v[i] < q THEN b[v[i]] ELSE b[v[i] + 1]
        BY <3>1
      <4>3. CASE r[i] < q
        BY <2>8, <4>1, <4>2, <4>3
      <4>4. CASE ~(r[i] < q)
        <5>1. v[i] = r[i] - 1 /\ ~(v[i] < q) /\ v[i] + 1 = r[i]
          BY <2>8, <4>4
        <5> QED  BY <4>1, <4>2, <5>1
      <4> QED  BY <4>3, <4>4
    <3> HIDE DEF c, d, v
    <3> QED  BY <2>5, <3>2, <3>3, <3>4 DEF Moves
  <2> HIDE DEF c, d, v
  <2>10. SumOf(c) = SumOf(d)
    BY <1>2, <2>1, <2>5, <2>9
  <2>11. a[k] = b[q] /\ SumOf(c) \in Nat
    BY <2>2, <2>3, <2>5, SumIsNat
  <2> QED  BY <2>6, <2>7, <2>10, <2>11
<1> HIDE DEF P
<1>3. \A k \in 0..m : k \in P
  BY <1>1, <1>2, StepByStep
<1>4. m \in P
  BY <1>3
<1> QED  BY <1>4 DEF P

-----------------------------------------------------------------------------
(* Sequences of sequences.                                                 *)

(* f[k] is the first k sequences of ss, one after the other.               *)
Flats(f, ss, m, X) ==
  f \in [0..m -> Seq(X)] /\ f[0] = <<>> /\ \A k \in 1..m : f[k] = f[k - 1] \o ss[k]

LEMMA FlattenIs ==
  ASSUME NEW X, NEW ss \in Seq(Seq(X))
  PROVE  \E f : Flats(f, ss, Len(ss), X) /\ FlattenSeq(ss) = f[Len(ss)]
<1>1. PICK n \in Nat : n = Len(ss)
  BY LenProperties
<1>2. \A k \in 1..n : ss[k] \in Seq(X)
  BY <1>1, ElementOfSeq
<1> DEFINE step == [vk \in Seq(X) \X (1..n) |-> vk[1] \o ss[vk[2]]]
<1>3. \A v \in Seq(X), k \in 1..n : v \o ss[k] \in Seq(X)
  BY <1>2, ConcatProperties
<1>4. step \in [Seq(X) \X (1..n) -> Seq(X)] /\ <<>> \in Seq(X)
  <2>1. \A v \in Seq(X) \X (1..n) : v[1] \in Seq(X) /\ v[2] \in 1..n
    OBVIOUS
  <2>2. \A v \in Seq(X) \X (1..n) : v[1] \o ss[v[2]] \in Seq(X)
    BY <1>3, <2>1
  <2> QED  BY <2>2
<1>5. \A v \in Seq(X), k \in 1..n : step[<<v, k>>] = v \o ss[k]
  OBVIOUS
<1> HIDE DEF step
<1>6. PICK g : Iterates(g, n, Seq(X), <<>>, step)
  BY <1>4, IterationExists
<1>7. /\ g \in [0..n -> Seq(X)] /\ g[0] = <<>>
      /\ \A k \in 1..n : g[k] = g[k - 1] \o ss[k]
  <2>1. g \in [0..n -> Seq(X)] /\ g[0] = <<>> /\ \A k \in 1..n : g[k] = step[<<g[k - 1], k>>]
    BY <1>6 DEF Iterates
  <2>2. ASSUME NEW k \in 1..n  PROVE g[k] = g[k - 1] \o ss[k]
    <3>1. k - 1 \in 0..n
      OBVIOUS
    <3>2. g[k - 1] \in Seq(X)
      BY <2>1, <3>1
    <3> QED  BY <1>5, <2>1, <3>2
  <2> QED  BY <2>1, <2>2
<1>71. 1 \in 1..n => g[1] = ss[1]
  <2> SUFFICES ASSUME 1 \in 1..n  PROVE g[1] = ss[1]
    OBVIOUS
  <2>1. 1 - 1 = 0
    OBVIOUS
  <2>2. g[1] = g[1 - 1] \o ss[1]
    BY <1>7, Zenon
  <2>3. g[1] = <<>> \o ss[1]
    BY <1>7, <2>1, <2>2, Zenon
  <2>4. ss[1] \in Seq(X)
    BY <1>2
  <2>5. <<>> \o ss[1] = ss[1]
    BY <2>4, ConcatEmptySeq
  <2> QED  BY <2>3, <2>5, Zenon
<1>8. CASE n = 0
  <2>1. ss = <<>>
    BY <1>1, <1>8, EmptySeq
  <2>2. FlattenSeq(ss) = <<>>
    BY <2>1 DEF FlattenSeq
  <2> QED  BY <1>1, <1>7, <1>8, <2>2 DEF Flats
<1>9. CASE n # 0
  <2> DEFINE Makes(f) == f = [i \in 1..n |-> IF i = 1 THEN ss[i] ELSE f[i - 1] \o ss[i]]
             h == [i \in 1..n |-> g[i]]
             flatten == CHOOSE f : Makes(f)
  <2>1. Makes(h)
    <3>1. ASSUME NEW i \in 1..n  PROVE h[i] = IF i = 1 THEN ss[i] ELSE h[i - 1] \o ss[i]
      <4>1. CASE i = 1
        <5>1. g[i] = ss[i]
          BY <1>71, <4>1
        <5> QED  BY <4>1, <5>1
      <4>2. CASE i # 1
        <5>1. i - 1 \in 1..n
          BY <4>2
        <5>2. h[i] = g[i] /\ h[i - 1] = g[i - 1] /\ g[i] = g[i - 1] \o ss[i]
          BY <1>7, <5>1
        <5> HIDE DEF h
        <5> QED  BY <4>2, <5>2
      <4> QED  BY <4>1, <4>2
    <3> QED  BY <3>1
  <2>2. Makes(flatten)
    <3> HIDE DEF Makes, h
    <3> QED  BY <2>1, Zenon
  <2>3. FlattenSeq(ss) = flatten[n]
    BY <1>1, <1>9 DEF FlattenSeq
  <2> HIDE DEF flatten, h
  <2>4. \A i \in 1..n : flatten[i] = IF i = 1 THEN ss[i] ELSE flatten[i - 1] \o ss[i]
    BY <2>2
  <2> HIDE DEF Makes
  <2> DEFINE P == {k \in 0..n : k # 0 => flatten[k] = g[k]}
  <2>5. 0 \in P
    OBVIOUS
  <2>6. ASSUME NEW k \in 1..n, k - 1 \in P  PROVE k \in P
    <3>1. flatten[k] = IF k = 1 THEN ss[k] ELSE flatten[k - 1] \o ss[k]
      BY <2>4
    <3>2. CASE k = 1
      <4>3. flatten[k] = g[k]
        BY <1>71, <3>1, <3>2
      <4> QED  BY <4>3
    <3>3. CASE k # 1
      <4>1. flatten[k - 1] = g[k - 1]
        BY <2>6, <3>3
      <4>2. flatten[k] = flatten[k - 1] \o ss[k] /\ g[k] = g[k - 1] \o ss[k]
        BY <1>7, <3>1, <3>3
      <4>3. flatten[k] = g[k]
        BY <4>1, <4>2, Zenon
      <4> QED  BY <4>3
    <3> QED  BY <3>2, <3>3
  <2> HIDE DEF P
  <2>7. n \in P
    <3>1. \A k \in 0..n : k \in P
      BY <2>5, <2>6, StepByStep
    <3> QED  BY <3>1
  <2>8. FlattenSeq(ss) = g[n]
    BY <1>9, <2>3, <2>7 DEF P
  <2> QED  BY <1>1, <1>7, <2>8 DEF Flats
<1> QED  BY <1>8, <1>9

LEMMA FlatsOnly ==
  ASSUME NEW X, NEW m \in Nat, NEW n \in Nat, m <= n, NEW s, NEW t, NEW f, Flats(f, s, m, X),
         NEW g, Flats(g, t, n, X), \A k \in 1..m : s[k] = t[k]
  PROVE  \A k \in 0..m : f[k] = g[k]
<1> DEFINE P == {k \in 0..m : f[k] = g[k]}
<1>1. 0 \in P
  BY DEF Flats
<1>2. ASSUME NEW k \in 1..m, k - 1 \in P  PROVE k \in P
  <2>0. k \in 1..n
    OBVIOUS
  <2>1. f[k] = f[k - 1] \o s[k] /\ g[k] = g[k - 1] \o t[k] /\ s[k] = t[k]
    BY <2>0, Zenon DEF Flats
  <2>2. f[k - 1] = g[k - 1]
    BY <1>2
  <2>3. f[k] = g[k]
    BY <2>1, <2>2, Zenon
  <2> QED  BY <2>3
<1> HIDE DEF P
<1>3. \A k \in 0..m : k \in P
  BY <1>1, <1>2, StepByStep
<1> QED  BY <1>3 DEF P

LEMMA FlatOnly ==
  ASSUME NEW X, NEW ss \in Seq(Seq(X)), NEW f, Flats(f, ss, Len(ss), X)
  PROVE  FlattenSeq(ss) = f[Len(ss)] /\ FlattenSeq(ss) \in Seq(X)
<1>1. Len(ss) \in Nat /\ Len(ss) <= Len(ss) /\ Len(ss) \in 0..Len(ss)
  BY LenProperties
<1>2. PICK g : Flats(g, ss, Len(ss), X) /\ FlattenSeq(ss) = g[Len(ss)]
  BY FlattenIs
<1>3. f[Len(ss)] = g[Len(ss)]
  BY <1>1, <1>2, FlatsOnly
<1> QED  BY <1>1, <1>2, <1>3 DEF Flats

LEMMA FlattenIsSeq ==
  ASSUME NEW X, NEW ss \in Seq(Seq(X))  PROVE FlattenSeq(ss) \in Seq(X)
BY FlattenIs, FlatOnly

LEMMA FlattenEmpty == FlattenSeq(<<>>) = <<>>
BY DEF FlattenSeq

(* All but the last, and the last.                                         *)
LEMMA FrontAndLast ==
  ASSUME NEW X, NEW s \in Seq(X), s # <<>>
  PROVE  /\ Front(s) \in Seq(X) /\ Last(s) \in X /\ s = Append(Front(s), Last(s))
         /\ Len(Front(s)) = Len(s) - 1 /\ Len(s) \in Nat \ {0}
         /\ \A i \in 1..(Len(s) - 1) : Front(s)[i] = s[i]
<1>1. PICK t \in Seq(X), e \in X : s = Append(t, e)
  BY SequenceEmptyOrAppend
<1>2. PICK n \in Nat : n = Len(t)
  BY <1>1, LenProperties
<1>3. /\ Len(s) = n + 1 /\ s[n + 1] = e /\ \A i \in 1..n : s[i] = t[i]
  BY <1>1, <1>2, AppendProperties
<1>4. Front(s) = SubSeq(s, 1, n)
  BY <1>3 DEF Front
<1>5. SubSeq(s, 1, n) = [i \in 1..n |-> s[i]]
  BY <1>3
<1>6. t = [i \in 1..n |-> t[i]]
  BY <1>1, <1>2
<1>7. Front(s) = t
  BY <1>3, <1>4, <1>5, <1>6
<1>8. Last(s) = e
  BY <1>3 DEF Last
<1> QED  BY <1>1, <1>2, <1>3, <1>7, <1>8

(* One more sequence,                                                      *)
LEMMA FlattenAppend ==
  ASSUME NEW X, NEW ss \in Seq(Seq(X)), NEW s \in Seq(X)
  PROVE  FlattenSeq(Append(ss, s)) = FlattenSeq(ss) \o s
<1>1. PICK n \in Nat : n = Len(ss)
  BY LenProperties
<1>2. /\ Append(ss, s) \in Seq(Seq(X)) /\ Len(Append(ss, s)) = n + 1 /\ Append(ss, s)[n + 1] = s
      /\ \A k \in 1..n : Append(ss, s)[k] = ss[k]
  BY <1>1, AppendProperties
<1>3. PICK f : Flats(f, ss, n, X) /\ FlattenSeq(ss) = f[n]
  BY <1>1, FlattenIs
<1>4. PICK g : Flats(g, Append(ss, s), n + 1, X) /\ FlattenSeq(Append(ss, s)) = g[n + 1]
  BY <1>2, FlattenIs
<1>5. n <= n + 1 /\ n + 1 \in Nat /\ n + 1 \in 1..(n + 1) /\ n + 1 - 1 = n /\ n \in 0..n
  OBVIOUS
<1>6. f[n] = g[n]
  <2>1. \A k \in 1..n : ss[k] = Append(ss, s)[k]
    BY <1>2
  <2>2. PICK l \in Nat : l = n + 1 /\ n <= l
    OBVIOUS
  <2> DEFINE t == Append(ss, s)
  <2>3. Flats(f, ss, n, X) /\ Flats(g, t, l, X) /\ \A k \in 1..n : ss[k] = t[k]
    BY <1>3, <1>4, <2>1, <2>2
  <2> HIDE DEF t
  <2>4. \A k \in 0..n : f[k] = g[k]
    BY <2>2, <2>3, FlatsOnly
  <2> QED  BY <1>5, <2>4
<1>7. g[n + 1] = g[n] \o s
  <2>1. \A k \in 1..(n + 1) : g[k] = g[k - 1] \o Append(ss, s)[k]
    BY <1>4 DEF Flats
  <2>2. PICK l \in 1..(n + 1) : l = n + 1 /\ l - 1 = n
    BY <1>5
  <2>3. g[l] = g[l - 1] \o Append(ss, s)[l]
    BY <2>1, <2>2, Zenon
  <2> QED  BY <1>2, <2>2, <2>3, Zenon
<1> QED  BY <1>3, <1>4, <1>6, <1>7

(* one more element of the last,                                           *)
LEMMA FlattenLonger ==
  ASSUME NEW X, NEW ss \in Seq(Seq(X)), ss # <<>>, NEW x \in X
  PROVE  FlattenSeq(Append(Front(ss), Append(Last(ss), x))) = Append(FlattenSeq(ss), x)
<1>1. /\ Front(ss) \in Seq(Seq(X)) /\ Last(ss) \in Seq(X) /\ ss = Append(Front(ss), Last(ss))
  BY FrontAndLast
<1>2. Append(Last(ss), x) \in Seq(X) /\ Append(Last(ss), x) = Last(ss) \o <<x>>
  BY <1>1, AppendProperties, AppendIsConcat
<1>3. FlattenSeq(ss) = FlattenSeq(Front(ss)) \o Last(ss)
  BY <1>1, FlattenAppend
<1>4. FlattenSeq(Append(Front(ss), Append(Last(ss), x))) = FlattenSeq(Front(ss)) \o (Last(ss) \o <<x>>)
  BY <1>1, <1>2, FlattenAppend
<1>5. FlattenSeq(Front(ss)) \in Seq(X) /\ FlattenSeq(ss) \in Seq(X) /\ <<x>> \in Seq(X)
  BY <1>1, FlattenIsSeq
<1>6. Append(FlattenSeq(ss), x) = FlattenSeq(ss) \o <<x>>
  BY <1>5, AppendIsConcat
<1>7. FlattenSeq(Front(ss)) \o (Last(ss) \o <<x>>) = (FlattenSeq(Front(ss)) \o Last(ss)) \o <<x>>
  BY <1>1, <1>5, ConcatAssociative, SMTT(60)
<1> QED  BY <1>3, <1>4, <1>6, <1>7

(* and the first taken off.                                                *)
LEMMA FlattenHead ==
  ASSUME NEW X, NEW ss \in Seq(Seq(X)), ss # <<>>
  PROVE  FlattenSeq(ss) = Head(ss) \o FlattenSeq(Tail(ss))
<1>1. PICK n \in Nat : n + 1 = Len(ss)
  <2>1. Len(ss) \in Nat /\ Len(ss) # 0
    BY LenProperties, EmptySeq
  <2>2. Len(ss) - 1 \in Nat /\ Len(ss) - 1 + 1 = Len(ss)
    BY <2>1
  <2> QED  BY <2>2
<1>2. /\ Tail(ss) \in Seq(Seq(X)) /\ Len(Tail(ss)) = n
      /\ \A k \in 1..n : Tail(ss)[k] = ss[k + 1] /\ ss[k + 1] \in Seq(X)
      /\ Head(ss) = ss[1] /\ ss[1] \in Seq(X)
  BY <1>1, ElementOfSeq
<1>3. PICK f : Flats(f, ss, n + 1, X) /\ FlattenSeq(ss) = f[n + 1]
  BY <1>1, FlattenIs
<1>4. PICK g : Flats(g, Tail(ss), n, X) /\ FlattenSeq(Tail(ss)) = g[n]
  BY <1>2, FlattenIs
<1>41. \A a, b, c \in Seq(X) : (a \o b) \o c = a \o (b \o c)
  BY ConcatAssociative, SMTT(60)
<1> DEFINE P == {k \in 0..n : f[k + 1] = ss[1] \o g[k]}
<1>5. 0 \in P
  <2>1. f[1] = <<>> \o ss[1] /\ g[0] = <<>>
    <3>1. 1 \in 1..(n + 1) /\ 1 - 1 = 0
      OBVIOUS
    <3>2. f[1] = f[1 - 1] \o ss[1] /\ f[0] = <<>> /\ g[0] = <<>>
      BY <1>3, <1>4, <3>1, Zenon DEF Flats
    <3> QED  BY <3>1, <3>2, Zenon
  <2>2. <<>> \o ss[1] = ss[1] /\ ss[1] \o <<>> = ss[1]
    BY <1>2, ConcatEmptySeq
  <2>3. 0 + 1 = 1 /\ 0 \in 0..n
    OBVIOUS
  <2>4. f[0 + 1] = ss[1] \o g[0]
    BY <2>1, <2>2, <2>3, Zenon
  <2> QED  BY <2>3, <2>4, Zenon
<1>6. ASSUME NEW k \in 1..n, k - 1 \in P  PROVE k \in P
  <2>1. k + 1 \in 1..(n + 1) /\ k + 1 - 1 = k /\ k - 1 + 1 = k /\ k - 1 \in 0..n
    OBVIOUS
  <2>2. f[k + 1] = f[k] \o ss[k + 1] /\ g[k] = g[k - 1] \o ss[k + 1] /\ g[k - 1] \in Seq(X)
    <3>1. \A j \in 1..(n + 1) : f[j] = f[j - 1] \o ss[j]
      BY <1>3 DEF Flats
    <3>2. f[k + 1] = f[k] \o ss[k + 1]
      <4>1. PICK l \in 1..(n + 1) : l = k + 1 /\ l - 1 = k
        BY <2>1
      <4>2. f[l] = f[l - 1] \o ss[l]
        BY <3>1, Zenon
      <4> QED  BY <4>1, <4>2, Zenon
    <3>3. g[k] = g[k - 1] \o Tail(ss)[k] /\ Tail(ss)[k] = ss[k + 1]
      BY <1>2, <1>4, Zenon DEF Flats
    <3>4. g[k - 1] \in Seq(X)
      BY <1>4, <2>1, Zenon DEF Flats
    <3> QED  BY <2>1, <3>2, <3>3, <3>4, Zenon
  <2>3. f[k] = ss[1] \o g[k - 1]
    BY <1>6, <2>1
  <2>4. (ss[1] \o g[k - 1]) \o ss[k + 1] = ss[1] \o (g[k - 1] \o ss[k + 1])
    <3>1. ss[1] \in Seq(X) /\ ss[k + 1] \in Seq(X) /\ g[k - 1] \in Seq(X)
      BY <1>2, <2>2
    <3> QED  BY <1>41, <3>1, Zenon
  <2>5. f[k + 1] = ss[1] \o g[k]
    BY <2>2, <2>3, <2>4, Zenon
  <2>6. k \in 0..n
    OBVIOUS
  <2> QED  BY <2>5, <2>6, Zenon
<1> HIDE DEF P
<1>7. n \in P
  <2>1. \A k \in 0..n : k \in P
    BY <1>5, <1>6, StepByStep
  <2> QED  BY <2>1
<1> QED  BY <1>2, <1>3, <1>4, <1>7 DEF P

(* A read of one piece each.                                               *)
LEMMA FlattenSingles ==
  ASSUME NEW X, NEW s \in Seq(X)
  PROVE  /\ [k \in DOMAIN s |-> <<s[k]>>] \in Seq(Seq(X))
         /\ FlattenSeq([k \in DOMAIN s |-> <<s[k]>>]) = s
<1> DEFINE ss == [k \in DOMAIN s |-> <<s[k]>>]
<1>1. PICK n \in Nat : n = Len(s) /\ DOMAIN s = 1..n
  BY LenProperties
<1>2. \A k \in 1..n : s[k] \in X
  BY <1>1, ElementOfSeq
<1>3. ss \in Seq(Seq(X)) /\ Len(ss) = n /\ \A k \in 1..n : ss[k] = <<s[k]>>
  BY <1>1, <1>2
<1> HIDE DEF ss
<1> DEFINE f == [k \in 0..n |-> [i \in 1..k |-> s[i]]]
<1>4. /\ \A k \in 0..n : f[k] = [i \in 1..k |-> s[i]]
      /\ DOMAIN f = 0..n /\ f = [k \in DOMAIN f |-> f[k]]
  OBVIOUS
<1> HIDE DEF f
<1>5. f \in [0..n -> Seq(X)]
  <2>1. \A k \in 0..n : [i \in 1..k |-> s[i]] \in Seq(X)
    BY <1>2
  <2> QED  BY <1>4, <2>1
<1>6. f[0] = <<>> /\ f[n] = s
  <2>1. f[0] = [i \in 1..0 |-> s[i]] /\ f[n] = [i \in 1..n |-> s[i]]
    <3>1. 0 \in 0..n /\ n \in 0..n
      OBVIOUS
    <3> QED  BY <1>4, <3>1, Zenon
  <2>2. s = [i \in 1..n |-> s[i]]
    BY <1>1
  <2>3. [i \in 1..0 |-> s[i]] = <<>>
    OBVIOUS
  <2> QED  BY <2>1, <2>2, <2>3
<1>7. ASSUME NEW k \in 1..n  PROVE f[k] = f[k - 1] \o ss[k]
  <2>1. PICK l \in 0..n : l = k - 1 /\ k = l + 1
    OBVIOUS
  <2>2. f[k] = [i \in 1..(l + 1) |-> s[i]] /\ f[l] = [i \in 1..l |-> s[i]] /\ f[l] \in Seq(X)
    <3>1. k \in 0..n /\ l \in 0..n
      OBVIOUS
    <3>2. f[k] = [i \in 1..k |-> s[i]] /\ f[l] = [i \in 1..l |-> s[i]] /\ f[l] \in Seq(X)
      BY <1>4, <1>5, <3>1, Zenon
    <3> QED  BY <2>1, <3>2, Zenon
  <2>3. Append(f[l], s[k]) = [i \in 1..(l + 1) |-> s[i]]
    <3>1. Len(f[l]) = l
      BY <2>2
    <3> QED  BY <2>1, <2>2, <3>1
  <2>4. Append(f[l], s[k]) = f[l] \o <<s[k]>>
    BY <1>2, <2>2, AppendIsConcat
  <2> QED  BY <1>3, <2>1, <2>2, <2>3, <2>4, Zenon
<1>8. Flats(f, ss, n, X)
  BY <1>5, <1>6, <1>7 DEF Flats
<1>9. FlattenSeq(ss) = f[n]
  BY <1>3, <1>8, FlatOnly
<1> QED  BY <1>3, <1>6, <1>9 DEF ss

(* Any element, and one behind it, are related by R.                       *)
Pairs(s, R) == \A a, b \in 1..Len(s) : a < b => <<s[a], s[b]>> \in R
Across(s, t, R) == \A a \in 1..Len(s), b \in 1..Len(t) : <<s[a], t[b]>> \in R

LEMMA PairsConcat ==
  ASSUME NEW X, NEW s \in Seq(X), NEW t \in Seq(X), NEW R,
         Pairs(s, R), Pairs(t, R), Across(s, t, R)
  PROVE  Pairs(s \o t, R)
<1>1. PICK m \in Nat, n \in Nat : m = Len(s) /\ n = Len(t)
  BY LenProperties
<1>2. /\ Len(s \o t) = m + n
      /\ \A a \in 1..(m + n) : (s \o t)[a] = IF a <= m THEN s[a] ELSE t[a - m]
  BY <1>1, ConcatProperties
<1>3. ASSUME NEW a \in 1..(m + n), NEW b \in 1..(m + n), a < b
      PROVE  <<(s \o t)[a], (s \o t)[b]>> \in R
  <2>1. /\ (s \o t)[a] = IF a <= m THEN s[a] ELSE t[a - m]
        /\ (s \o t)[b] = IF b <= m THEN s[b] ELSE t[b - m]
    BY <1>2
  <2>2. CASE b <= m
    <3>1. a \in 1..m /\ b \in 1..m /\ a <= m
      BY <1>3, <2>2
    <3> QED  BY <1>1, <1>3, <2>1, <2>2, <3>1 DEF Pairs
  <2>3. CASE a <= m /\ ~(b <= m)
    <3>1. a \in 1..m /\ b - m \in 1..n
      BY <2>3
    <3> QED  BY <1>1, <2>1, <2>3, <3>1 DEF Across
  <2>4. CASE ~(a <= m)
    <3>1. a - m \in 1..n /\ b - m \in 1..n /\ a - m < b - m /\ ~(b <= m)
      BY <1>3, <2>4
    <3> QED  BY <1>1, <2>1, <2>4, <3>1 DEF Pairs
  <2> QED  BY <2>2, <2>3, <2>4
<1> QED  BY <1>2, <1>3 DEF Pairs

(* What holds within each of the sequences, and between any two, holds in  *)
(* all of them together.                                                   *)
LEMMA FlattenPairs ==
  ASSUME NEW X, NEW ss \in Seq(Seq(X)), NEW R,
         \A i \in 1..Len(ss) : Pairs(ss[i], R),
         \A i, j \in 1..Len(ss) : i < j => Across(ss[i], ss[j], R)
  PROVE  Pairs(FlattenSeq(ss), R)
<1>1. PICK n \in Nat : n = Len(ss)
  BY LenProperties
<1>2. PICK f : Flats(f, ss, n, X) /\ FlattenSeq(ss) = f[n]
  BY <1>1, FlattenIs
<1>3. \A k \in 1..n : ss[k] \in Seq(X)
  BY <1>1, ElementOfSeq
<1>4. /\ f[0] = <<>> /\ (\A k \in 1..n : f[k] = f[k - 1] \o ss[k])
      /\ \A k \in 0..n : f[k] \in Seq(X)
  BY <1>2 DEF Flats
<1> DEFINE Behind(k) == \A j \in 1..n : k < j => Across(f[k], ss[j], R)
           P == {k \in 0..n : Pairs(f[k], R) /\ Behind(k)}
<1>5. 0 \in P
  <2>1. Len(f[0]) = 0
    BY <1>4
  <2> QED  BY <2>1 DEF Pairs, Across
<1>6. ASSUME NEW k \in 1..n, k - 1 \in P  PROVE k \in P
  <2>1. PICK l \in 0..n : l = k - 1
    OBVIOUS
  <2>2. Pairs(f[l], R) /\ Behind(l) /\ f[l] \in Seq(X) /\ ss[k] \in Seq(X)
    BY <1>3, <1>4, <1>6, <2>1
  <2>3. f[k] = f[l] \o ss[k]
    BY <1>4, <2>1
  <2>4. Pairs(ss[k], R) /\ Across(f[l], ss[k], R)
    BY <1>1, <2>1, <2>2
  <2>5. Pairs(f[l] \o ss[k], R)
    BY <2>2, <2>4, PairsConcat
  <2>6. Pairs(f[k], R)
    BY <2>3, <2>5, Zenon
  <2>7. ASSUME NEW j \in 1..n, k < j  PROVE Across(f[k], ss[j], R)
    <3>1. Across(f[l], ss[j], R) /\ Across(ss[k], ss[j], R)
      BY <1>1, <2>1, <2>2, <2>7
    <3>2. ASSUME NEW a \in 1..Len(f[k]), NEW b \in 1..Len(ss[j])
          PROVE  <<f[k][a], ss[j][b]>> \in R
      <4>1. PICK u \in Nat, v \in Nat : u = Len(f[l]) /\ v = Len(ss[k])
        BY <2>2, LenProperties
      <4>2. a \in 1..(u + v) /\ f[k][a] = IF a <= u THEN f[l][a] ELSE ss[k][a - u]
        <5>1. /\ Len(f[l] \o ss[k]) = u + v
              /\ \A c \in 1..(u + v) : (f[l] \o ss[k])[c] = IF c <= u THEN f[l][c] ELSE ss[k][c - u]
          BY <2>2, <4>1, ConcatProperties
        <5>2. Len(f[k]) = u + v
          BY <2>3, <5>1
        <5>3. a \in 1..(u + v)
          BY <5>2
        <5>4. f[k][a] = (f[l] \o ss[k])[a]
          BY <2>3
        <5> QED  BY <5>1, <5>3, <5>4
      <4>3. CASE a <= u
        <5>1. a \in 1..u
          BY <4>2, <4>3
        <5> QED  BY <3>1, <4>1, <4>2, <4>3, <5>1 DEF Across
      <4>4. CASE ~(a <= u)
        <5>1. a - u \in 1..v
          BY <4>2, <4>4, SMTT(60)
        <5> QED  BY <3>1, <4>1, <4>2, <4>4, <5>1 DEF Across
      <4> QED  BY <4>3, <4>4
    <3> QED  BY <3>2 DEF Across
  <2> QED  BY <2>6, <2>7
<1> HIDE DEF P
<1>7. \A k \in 0..n : k \in P
  BY <1>5, <1>6, StepByStep
<1>8. n \in P
  BY <1>7
<1> QED  BY <1>2, <1>8 DEF P

-----------------------------------------------------------------------------
(* What of file f is in s.                                                 *)
Amounts(f, s) == [k \in DOMAIN s |-> IF s[k].f = f THEN s[k].n ELSE 0]
Weight(f, s) == SumOf(Amounts(f, s))
Weighed(X) == \A x \in X : x.n \in Nat

LEMMA AmountsAre ==
  ASSUME NEW f, NEW X, Weighed(X), NEW s \in Seq(X)
  PROVE  /\ Amounts(f, s) \in Seq(Nat) /\ Len(Amounts(f, s)) = Len(s)
         /\ \A k \in 1..Len(s) : Amounts(f, s)[k] = IF s[k].f = f THEN s[k].n ELSE 0
         /\ Weight(f, s) \in Nat
<1>1. PICK n \in Nat : n = Len(s) /\ DOMAIN s = 1..n
  BY LenProperties
<1>2. \A k \in 1..n : (IF s[k].f = f THEN s[k].n ELSE 0) \in Nat
  <2>1. \A k \in 1..n : s[k] \in X
    BY <1>1, ElementOfSeq
  <2> QED  BY <2>1 DEF Weighed
<1>3. Amounts(f, s) = [k \in 1..n |-> IF s[k].f = f THEN s[k].n ELSE 0]
  BY <1>1 DEF Amounts
<1>4. Amounts(f, s) \in Seq(Nat) /\ Len(Amounts(f, s)) = n
  BY <1>2, <1>3
<1> QED  BY <1>1, <1>3, <1>4, SumIsNat DEF Weight

LEMMA WeightEmpty == ASSUME NEW f PROVE Weight(f, <<>>) = 0
<1>1. Amounts(f, <<>>) = <<>>
  BY DEF Amounts
<1> QED  BY <1>1, SumEmpty DEF Weight

LEMMA WeightConcat ==
  ASSUME NEW f, NEW X, Weighed(X), NEW s \in Seq(X), NEW t \in Seq(X)
  PROVE  Weight(f, s \o t) = Weight(f, s) + Weight(f, t)
<1>1. PICK m \in Nat, n \in Nat : m = Len(s) /\ n = Len(t)
  BY LenProperties
<1>2. PICK st : st = s \o t
  OBVIOUS
<1>3. /\ st \in Seq(X) /\ Len(st) = m + n
      /\ \A a \in 1..(m + n) : st[a] = IF a <= m THEN s[a] ELSE t[a - m]
  BY <1>1, <1>2, ConcatProperties
<1>4. PICK u, v, w : u = Amounts(f, s) /\ v = Amounts(f, t) /\ w = Amounts(f, st)
  OBVIOUS
<1>5. /\ u \in Seq(Nat) /\ Len(u) = m /\ \A k \in 1..m : u[k] = IF s[k].f = f THEN s[k].n ELSE 0
  <2>1. /\ Amounts(f, s) \in Seq(Nat) /\ Len(Amounts(f, s)) = Len(s)
        /\ \A k \in 1..Len(s) : Amounts(f, s)[k] = IF s[k].f = f THEN s[k].n ELSE 0
    BY AmountsAre
  <2> QED  BY <1>1, <1>4, <2>1
<1>6. /\ v \in Seq(Nat) /\ Len(v) = n /\ \A k \in 1..n : v[k] = IF t[k].f = f THEN t[k].n ELSE 0
  <2>1. /\ Amounts(f, t) \in Seq(Nat) /\ Len(Amounts(f, t)) = Len(t)
        /\ \A k \in 1..Len(t) : Amounts(f, t)[k] = IF t[k].f = f THEN t[k].n ELSE 0
    BY AmountsAre
  <2> QED  BY <1>1, <1>4, <2>1
<1>7. /\ w \in Seq(Nat) /\ Len(w) = m + n
      /\ \A k \in 1..(m + n) : w[k] = IF st[k].f = f THEN st[k].n ELSE 0
  <2>1. /\ Amounts(f, st) \in Seq(Nat) /\ Len(Amounts(f, st)) = Len(st)
        /\ \A k \in 1..Len(st) : Amounts(f, st)[k] = IF st[k].f = f THEN st[k].n ELSE 0
    <3>1. st \in Seq(X)
      BY <1>3
    <3> QED  BY <3>1, AmountsAre
  <2> QED  BY <1>3, <1>4, <2>1
<1>8. /\ u \o v \in Seq(Nat) /\ Len(u \o v) = m + n
      /\ \A a \in 1..(m + n) : (u \o v)[a] = IF a <= m THEN u[a] ELSE v[a - m]
  BY <1>5, <1>6, ConcatProperties
<1>9. ASSUME NEW a \in 1..(m + n)  PROVE w[a] = (u \o v)[a]
  <2>1. CASE a <= m
    <3>1. a \in 1..m
      BY <2>1
    <3> QED  BY <1>3, <1>5, <1>7, <1>8, <2>1, <3>1
  <2>2. CASE ~(a <= m)
    <3>1. a - m \in 1..n
      BY <2>2
    <3> QED  BY <1>3, <1>6, <1>7, <1>8, <2>2, <3>1
  <2> QED  BY <2>1, <2>2
<1>10. w = u \o v
  BY <1>7, <1>8, <1>9, SeqEqual
<1>11. SumOf(w) = SumOf(u) + SumOf(v)
  BY <1>5, <1>6, <1>10, SumConcat
<1> QED  BY <1>2, <1>4, <1>11 DEF Weight

(* All together weigh what they weigh one by one.                          *)
LEMMA WeightFlatten ==
  ASSUME NEW f, NEW X, Weighed(X), NEW ss \in Seq(Seq(X)), NEW w \in Seq(Nat),
         Len(w) = Len(ss), \A k \in 1..Len(ss) : w[k] = Weight(f, ss[k])
  PROVE  Weight(f, FlattenSeq(ss)) = SumOf(w)
<1>1. PICK n \in Nat : n = Len(ss)
  BY LenProperties
<1>2. PICK g : Flats(g, ss, n, X) /\ FlattenSeq(ss) = g[n]
  BY <1>1, FlattenIs
<1>3. PICK h : Sums(h, w, n) /\ SumOf(w) = h[n]
  BY <1>1, SumOfIs
<1>4. /\ g[0] = <<>> /\ (\A k \in 1..n : g[k] = g[k - 1] \o ss[k])
      /\ \A k \in 0..n : g[k] \in Seq(X)
      /\ \A k \in 1..n : ss[k] \in Seq(X)
  BY <1>1, <1>2, ElementOfSeq DEF Flats
<1> DEFINE P == {k \in 0..n : Weight(f, g[k]) = h[k]}
<1>5. 0 \in P
  BY <1>3, <1>4, WeightEmpty DEF Sums
<1>6. ASSUME NEW k \in 1..n, k - 1 \in P  PROVE k \in P
  <2>1. PICK l \in 0..n : l = k - 1
    OBVIOUS
  <2>2. g[k] = g[l] \o ss[k] /\ g[l] \in Seq(X) /\ ss[k] \in Seq(X) /\ Weight(f, g[l]) = h[l]
    BY <1>4, <1>6, <2>1
  <2>3. Weight(f, g[l] \o ss[k]) = h[l] + w[k]
    BY <1>1, <2>2, WeightConcat
  <2>4. h[k] = h[l] + w[k]
    BY <1>3, <2>1 DEF Sums
  <2>5. Weight(f, g[k]) = h[k]
    BY <2>2, <2>3, <2>4, Zenon
  <2>6. k \in 0..n
    OBVIOUS
  <2> QED  BY <2>5, <2>6, Zenon
<1> HIDE DEF P
<1>7. \A k \in 0..n : k \in P
  BY <1>5, <1>6, StepByStep
<1>8. n \in P
  BY <1>7
<1> QED  BY <1>2, <1>3, <1>8 DEF P

(* A sort changes no weight,                                               *)
LEMMA WeightSorted ==
  ASSUME NEW f, NEW X, Weighed(X), NEW a \in Seq(X), NEW key \in [X -> Nat],
         NEW out \in Seq(X), IsSortOf(out, a, key)
  PROVE  Weight(f, out) = Weight(f, a)
<1>1. PICK p : SortedTo(out, a, key, p)
  BY DEF IsSortOf
<1>2. PICK n \in Nat : n = Len(a)
  BY LenProperties
<1>3. /\ Len(out) = n /\ Arranges(p, n, KeysAt(a, key)) /\ Puts(out, a, n, p)
      /\ AreKeys(KeysAt(a, key), n)
  BY <1>1, <1>2, KeysAtIs DEF SortedTo
<1>0. PICK u, v : u = Amounts(f, a) /\ v = Amounts(f, out)
  OBVIOUS
<1>4. /\ u \in Seq(Nat) /\ Len(u) = n /\ \A k \in 1..n : u[k] = IF a[k].f = f THEN a[k].n ELSE 0
  <2>1. /\ Amounts(f, a) \in Seq(Nat) /\ Len(Amounts(f, a)) = Len(a)
        /\ \A k \in 1..Len(a) : Amounts(f, a)[k] = IF a[k].f = f THEN a[k].n ELSE 0
    BY AmountsAre
  <2> QED  BY <1>0, <1>2, <2>1
<1>5. /\ v \in Seq(Nat) /\ Len(v) = n /\ \A k \in 1..n : v[k] = IF out[k].f = f THEN out[k].n ELSE 0
  <2>1. /\ Amounts(f, out) \in Seq(Nat) /\ Len(Amounts(f, out)) = Len(out)
        /\ \A k \in 1..Len(out) : Amounts(f, out)[k] = IF out[k].f = f THEN out[k].n ELSE 0
    BY AmountsAre
  <2>2. Len(out) = n
    BY <1>3
  <2> QED  BY <1>0, <2>1, <2>2
<1>6. /\ p \in [1..n -> 1..n] /\ (\A i, j \in 1..n : p[i] = p[j] => i = j)
      /\ \A i \in 1..n : out[p[i]] = a[i]
  <2>1. \A i, j \in 1..n : p[i] = p[j] => i = j
    BY <1>3, ArrangedIsOneToOne
  <2>2. p \in [1..n -> 1..n] /\ \A i \in 1..n : out[p[i]] = a[i]
    BY <1>3 DEF Arranges, Puts
  <2> QED  BY <2>1, <2>2
<1>7. Moves(p, u, v, n)
  <2>1. ASSUME NEW i \in 1..n  PROVE v[p[i]] = u[i]
    <3>1. PICK q \in 1..n : q = p[i] /\ out[q] = a[i]
      BY <1>6
    <3>2. /\ v[q] = IF out[q].f = f THEN out[q].n ELSE 0
          /\ u[i] = IF a[i].f = f THEN a[i].n ELSE 0
      BY <1>4, <1>5
    <3> QED  BY <3>1, <3>2, Zenon
  <2> QED  BY <1>4, <1>5, <1>6, <2>1 DEF Moves
<1>8. SumOf(u) = SumOf(v)
  BY <1>4, <1>5, <1>7, SumMoved
<1> QED  BY <1>0, <1>8 DEF Weight

(* nor what holds between any two.                                         *)
LEMMA PairsSorted ==
  ASSUME NEW X, NEW a \in Seq(X), NEW key \in [X -> Nat], NEW out, IsSortOf(out, a, key),
         NEW R, \A x, y : <<x, y>> \in R => <<y, x>> \in R, Pairs(a, R)
  PROVE  Pairs(out, R)
<1>1. PICK p : SortedTo(out, a, key, p)
  BY DEF IsSortOf
<1>2. PICK n \in Nat : n = Len(a)
  BY LenProperties
<1>3. /\ Len(out) = n /\ Arranges(p, n, KeysAt(a, key)) /\ Puts(out, a, n, p)
      /\ AreKeys(KeysAt(a, key), n)
  BY <1>1, <1>2, KeysAtIs DEF SortedTo
<1>4. ASSUME NEW x \in 1..n, NEW y \in 1..n, x < y  PROVE <<out[x], out[y]>> \in R
  <2>1. PICK i \in 1..n : p[i] = x
    BY <1>3, ArrangedFills DEF Fills
  <2>2. PICK j \in 1..n : p[j] = y
    BY <1>3, ArrangedFills DEF Fills
  <2>3. i < j \/ j < i
    BY <1>4, <2>1, <2>2
  <2>4. out[x] = a[i] /\ out[y] = a[j]
    BY <1>3, <2>1, <2>2 DEF Puts
  <2>5. <<a[i], a[j]>> \in R \/ <<a[j], a[i]>> \in R
    BY <1>2, <2>3 DEF Pairs
  <2> QED  BY <2>4, <2>5
<1> QED  BY <1>3, <1>4 DEF Pairs

-----------------------------------------------------------------------------
(* Cutting l bytes into pieces of b.                                       *)
Cut(l, b, k) == Min({l - (k - 1) * b, b})

LEMMA LesserOf ==
  ASSUME NEW a \in Int, NEW b \in Int
  PROVE  Min({a, b}) = IF a <= b THEN a ELSE b
<1>1. \E x \in {a, b} : \A y \in {a, b} : x <= y
  <2>1. a <= b \/ b <= a
    OBVIOUS
  <2> QED  BY <2>1
<1>2. Min({a, b}) \in {a, b} /\ \A y \in {a, b} : Min({a, b}) <= y
  BY <1>1 DEF Min
<1> QED  BY <1>2

LEMMA CeilDivNat ==
  ASSUME NEW l \in Nat, NEW b \in Nat \ {0}
  PROVE  CeilDiv(l, b) \in Nat /\ (l = 0 => CeilDiv(l, b) = 0)
<1>1. CASE l = 0
  <2>1. CeilDiv(l, b) = (b - 1) \div b
    BY <1>1 DEF CeilDiv
  <2>2. (b - 1) \div b \in Nat /\ (b - 1) % b \in 0..(b - 1)
        /\ b - 1 = b * ((b - 1) \div b) + ((b - 1) % b)
    <3>1. b - 1 \in Nat
      OBVIOUS
    <3> QED  BY <3>1, DivMod
  <2>3. PICK q \in Nat : q = (b - 1) \div b
    BY <2>2
  <2>4. b * q <= b - 1
    BY <2>2, <2>3
  <2>5. q = 0
    <3> SUFFICES ASSUME 1 <= q PROVE FALSE
      OBVIOUS
    <3>1. b * 1 <= b * q
      BY TimesMono
    <3> QED  BY <2>4, <3>1
  <2> QED  BY <2>1, <2>3, <2>5
<1>2. CASE l # 0
  BY <1>2, CeilDivIs
<1> QED  BY <1>1, <1>2

(* Each piece begins inside, is not empty and not longer than b,           *)
LEMMA CutIs ==
  ASSUME NEW l \in Nat, NEW b \in Nat \ {0}, NEW k \in 1..CeilDiv(l, b)
  PROVE  /\ k \in Nat /\ (k - 1) * b \in Nat /\ (k - 1) * b < l
         /\ Cut(l, b, k) \in 1..b /\ (k - 1) * b + Cut(l, b, k) <= l
         /\ k * b \in Nat /\ k * b = (k - 1) * b + b
         /\ k * b <= l => Cut(l, b, k) = b
         /\ ~(k * b <= l) => (k - 1) * b + Cut(l, b, k) = l
<1>1. PICK n \in Nat : n = CeilDiv(l, b) /\ n # 0 /\ l # 0
  BY CeilDivNat
<1>2. b * n < l + b
  BY <1>1, CeilDivIs
<1>3. PICK j \in Nat : j = k - 1 /\ k = j + 1
  BY <1>1
<1>4. b * k <= b * n
  <2>1. k \in Nat /\ k <= n
    BY <1>1
  <2> QED  BY <1>1, <2>1, TimesMono
<1>5. k * b = j * b + b /\ j * b \in Nat /\ k * b \in Nat /\ b * k = k * b
  BY <1>3
<1>6. PICK o \in Nat : o = j * b
  BY <1>5
<1>7. PICK bn \in Nat : bn = b * n
  BY <1>1
<1>8. o < l
  BY <1>2, <1>4, <1>5, <1>6, <1>7
<1>9. Cut(l, b, k) = IF l - o <= b THEN l - o ELSE b
  BY <1>3, <1>6, LesserOf DEF Cut
<1> QED  BY <1>3, <1>5, <1>6, <1>8, <1>9

(* and all of them are the whole.                                          *)
LEMMA CutsSum ==
  ASSUME NEW l \in Nat, NEW b \in Nat \ {0}
  PROVE  /\ [k \in 1..CeilDiv(l, b) |-> Cut(l, b, k)] \in Seq(Nat)
         /\ SumOf([k \in 1..CeilDiv(l, b) |-> Cut(l, b, k)]) = l
<1> DEFINE s == [k \in 1..CeilDiv(l, b) |-> Cut(l, b, k)]
<1>1. PICK n \in Nat : n = CeilDiv(l, b)
  BY CeilDivNat
<1>2. s \in Seq(Nat) /\ Len(s) = n /\ \A k \in 1..n : s[k] = Cut(l, b, k)
  <2>1. \A k \in 1..n : Cut(l, b, k) \in Nat
    BY <1>1, CutIs
  <2> QED  BY <1>1, <2>1
<1> HIDE DEF s
<1>3. PICK f : Sums(f, s, n) /\ SumOf(s) = f[n]
  BY <1>2, SumOfIs
<1> DEFINE P == {k \in 0..n : f[k] = IF k * b <= l THEN k * b ELSE l}
<1>4. 0 \in P
  <2>1. f[0] = 0 /\ 0 * b = 0 /\ 0 <= l
    BY <1>3 DEF Sums
  <2>2. 0 \in 0..n /\ f[0] = IF 0 * b <= l THEN 0 * b ELSE l
    BY <2>1
  <2> QED  BY <2>2, Zenon
<1>5. ASSUME NEW k \in 1..n, k - 1 \in P  PROVE k \in P
  <2>1. /\ (k - 1) * b \in Nat /\ (k - 1) * b < l /\ k * b \in Nat /\ k * b = (k - 1) * b + b
        /\ Cut(l, b, k) \in 1..b
        /\ k * b <= l => Cut(l, b, k) = b
        /\ ~(k * b <= l) => (k - 1) * b + Cut(l, b, k) = l
    BY <1>1, CutIs
  <2>2. f[k - 1] = (k - 1) * b
    BY <1>5, <2>1
  <2>3. f[k] = f[k - 1] + Cut(l, b, k)
    BY <1>2, <1>3 DEF Sums
  <2>4. PICK o \in Nat, c \in Nat, u \in Nat : o = (k - 1) * b /\ c = Cut(l, b, k) /\ u = k * b
    <3>1. PICK o \in Nat : o = (k - 1) * b
      BY <2>1
    <3>2. PICK u \in Nat : u = k * b
      BY <2>1
    <3>3. PICK c \in 1..b : c = Cut(l, b, k)
      BY <2>1
    <3>4. c \in Nat
      OBVIOUS
    <3> QED  BY <3>1, <3>2, <3>3, <3>4, Zenon
  <2>5. f[k] = IF u <= l THEN u ELSE l
    BY <2>1, <2>2, <2>3, <2>4
  <2>6. k \in 0..n /\ f[k] = IF k * b <= l THEN k * b ELSE l
    BY <2>4, <2>5
  <2> QED  BY <2>6, Zenon
<1> HIDE DEF P
<1>6. \A k \in 0..n : k \in P
  BY <1>4, <1>5, StepByStep
<1>7. f[n] = IF n * b <= l THEN n * b ELSE l
  <2>1. n \in P
    BY <1>6
  <2> QED  BY <2>1 DEF P
<1>8. l <= n * b
  <2>1. CASE l = 0
    BY <2>1
  <2>2. CASE l # 0
    <3>1. l <= b * n
      BY <1>1, <2>2, CeilDivIs
    <3> QED  BY <3>1
  <2> QED  BY <2>1, <2>2
<1>9. PICK u \in Nat : u = n * b
  OBVIOUS
<1>10. f[n] = l
  BY <1>7, <1>8, <1>9
<1> QED  BY <1>2, <1>3, <1>10 DEF s

-----------------------------------------------------------------------------
(* The volume, in bytes.                                                   *)
Begin(e) == e.lblk * Block
End(e) == (e.lblk + e.len) * Block
Disk(e) == e.pblk * Block

LEMMA Constants0 ==
  Block \in Nat \ {0} /\ MaxBlk \in Nat \ {0} /\ BufSz \in Nat \ {0}
<1>1. Block \in Nat \ {0} /\ MaxBlk \in Nat \ {0}
  BY DiskPlanAssumption
<1>2. Block * 1 <= Block * MaxBlk /\ Block * MaxBlk \in Nat
  BY <1>1, TimesMono
<1> QED  BY <1>1, <1>2 DEF BufSz

LEMMA BlocksMono ==
  ASSUME NEW a \in Nat, NEW b \in Nat
  PROVE  /\ a * Block \in Nat /\ b * Block \in Nat
         /\ a <= b => a * Block <= b * Block
         /\ (a + b) * Block = a * Block + b * Block
<1>1. Block \in Nat
  BY Constants0
<1>2. a <= b => Block * a <= Block * b
  BY <1>1, TimesMono
<1> QED  BY <1>1, <1>2

LEMMA ExtentIs ==
  ASSUME NEW e \in Extent0
  PROVE  /\ Begin(e) \in Nat /\ End(e) \in Nat /\ Disk(e) \in Nat /\ e.len * Block \in Nat
         /\ End(e) = Begin(e) + e.len * Block /\ Begin(e) <= End(e)
         /\ e.lblk \in Nat /\ e.len \in Nat /\ e.pblk \in Nat /\ e.uninit \in BOOLEAN
<1>1. e.lblk \in Nat /\ e.len \in Nat /\ e.pblk \in Nat /\ e.uninit \in BOOLEAN
  BY DEF Extent0
<1>2. e.lblk * Block \in Nat /\ e.pblk * Block \in Nat /\ e.len * Block \in Nat
  BY <1>1, BlocksMono
<1>3. (e.lblk + e.len) * Block = e.lblk * Block + e.len * Block
  BY <1>1, BlocksMono
<1>4. PICK b \in Nat, l \in Nat : b = e.lblk * Block /\ l = e.len * Block
  BY <1>2
<1> QED  BY <1>1, <1>2, <1>3, <1>4 DEF Begin, End, Disk

(* What lies where on a volume.                                            *)
LEMMA VolumeIs ==
  ASSUME IsVolume(files), NEW f \in File
  PROVE  /\ File = 1..Len(files) /\ f \in Nat /\ files[f].size \in Nat
         /\ files[f].ext \in Seq(Extent0)
         /\ Len(files[f].ext) \in Nat /\ DOMAIN files[f].ext = 1..Len(files[f].ext)
         /\ \A k \in 1..Len(files[f].ext) : files[f].ext[k] \in Extent0
<1>1. files \in Seq([ino : Nat, size : Nat, ext : Seq(Extent0)])
  BY DEF IsVolume
<1>2. File = 1..Len(files) /\ f \in 1..Len(files) /\ Len(files) \in Nat
  BY <1>1, LenProperties DEF File
<1>3. files[f] \in [ino : Nat, size : Nat, ext : Seq(Extent0)]
  BY <1>1, <1>2, ElementOfSeq
<1>4. files[f].size \in Nat /\ files[f].ext \in Seq(Extent0)
  BY <1>3
<1>5. \A k \in 1..Len(files[f].ext) : files[f].ext[k] \in Extent0
  BY <1>4, ElementOfSeq
<1> QED  BY <1>2, <1>4, <1>5, LenProperties

LEMMA ExtentsInOrder ==
  ASSUME IsVolume(files), NEW f \in File,
         NEW i \in 1..Len(files[f].ext), NEW j \in 1..Len(files[f].ext), i < j
  PROVE  End(files[f].ext[i]) <= Begin(files[f].ext[j])
<1>1. DOMAIN files[f].ext = 1..Len(files[f].ext)
  BY VolumeIs
<1>2. PICK d \in Extent0, e \in Extent0 : d = files[f].ext[i] /\ e = files[f].ext[j]
  BY VolumeIs
<1>3. d.lblk + d.len <= e.lblk
  BY <1>1, <1>2 DEF IsVolume, File
<1>4. d.lblk + d.len \in Nat /\ e.lblk \in Nat
  BY ExtentIs, SMTT(60)
<1>5. (d.lblk + d.len) * Block <= e.lblk * Block
  BY <1>3, <1>4, BlocksMono
<1> QED  BY <1>2, <1>5 DEF Begin, End

LEMMA ExtentsApart ==
  ASSUME IsVolume(files), NEW f \in File, NEW g \in File,
         NEW i \in 1..Len(files[f].ext), NEW j \in 1..Len(files[g].ext), f # g \/ i # j
  PROVE  LET d == files[f].ext[i]  e == files[g].ext[j]
         IN Disk(d) + d.len * Block <= Disk(e) \/ Disk(e) + e.len * Block <= Disk(d)
<1>1. DOMAIN files[f].ext = 1..Len(files[f].ext) /\ DOMAIN files[g].ext = 1..Len(files[g].ext)
  BY VolumeIs
<1>2. PICK d \in Extent0, e \in Extent0 : d = files[f].ext[i] /\ e = files[g].ext[j]
  BY VolumeIs
<1>3. d.pblk + d.len <= e.pblk \/ e.pblk + e.len <= d.pblk
  BY <1>1, <1>2 DEF IsVolume, File, ApartOnDisk
<1>4. d.pblk \in Nat /\ d.len \in Nat /\ e.pblk \in Nat /\ e.len \in Nat
  BY ExtentIs
<1>5. d.pblk + d.len \in Nat /\ e.pblk + e.len \in Nat
  BY <1>4
<1>6. CASE d.pblk + d.len <= e.pblk
  <2>1. (d.pblk + d.len) * Block <= e.pblk * Block
    BY <1>4, <1>5, <1>6, BlocksMono
  <2>2. (d.pblk + d.len) * Block = d.pblk * Block + d.len * Block
    BY <1>4, BlocksMono
  <2> QED  BY <1>2, <2>1, <2>2 DEF Disk
<1>7. CASE e.pblk + e.len <= d.pblk
  <2>1. (e.pblk + e.len) * Block <= d.pblk * Block
    BY <1>4, <1>5, <1>7, BlocksMono
  <2>2. (e.pblk + e.len) * Block = e.pblk * Block + e.len * Block
    BY <1>4, BlocksMono
  <2> QED  BY <1>2, <2>1, <2>2 DEF Disk
<1> QED  BY <1>3, <1>6, <1>7

-----------------------------------------------------------------------------
(* The run that extent i of a file begins.                                 *)
Continues(ext, j) ==
  /\ ~ext[j].uninit
  /\ ext[j].lblk = ext[j - 1].lblk + ext[j - 1].len
  /\ ext[j].pblk = ext[j - 1].pblk + ext[j - 1].len

LEMMA RunEndIs ==
  ASSUME NEW ext, NEW n \in Nat, Len(ext) = n, NEW i \in 1..n
  PROVE  /\ RunEnd(ext, i) \in i..n
         /\ \A k \in (i + 1)..RunEnd(ext, i) : Continues(ext, k)
<1> DEFINE S == {j \in i..n : j < n => ~Continues(ext, j + 1)}
<1>1. n \in S /\ S \subseteq Nat
  OBVIOUS
<1>2. PICK m \in S : \A j \in S : m <= j
  BY <1>1, LeastNumber
<1>3. m \in i..n /\ (m < n => ~Continues(ext, m + 1))
  OBVIOUS
<1>4. ASSUME NEW k \in (i + 1)..m  PROVE Continues(ext, k)
  <2>1. PICK j \in Nat : j = k - 1 /\ j + 1 = k /\ j \in i..n /\ j < n /\ j < m
    BY <1>3
  <2>2. j \notin S
    BY <1>2, <2>1
  <2> QED  BY <2>1, <2>2
<1>5. \E j \in i..n : (\A k \in (i + 1)..j : Continues(ext, k)) /\ (j < n => ~Continues(ext, j + 1))
  BY <1>3, <1>4
<1> HIDE DEF S
<1>6. RunEnd(ext, i) = CHOOSE j \in i..n :
                          /\ \A k \in (i + 1)..j : Continues(ext, k)
                          /\ j < n => ~Continues(ext, j + 1)
  BY DEF RunEnd, Continues
<1> QED  BY <1>5, <1>6

(* Within a run the file's bytes lie on disk one after the other.          *)
LEMMA RunStep ==
  ASSUME NEW ext \in Seq(Extent0), NEW k \in 1..Len(ext), k - 1 \in 1..Len(ext), Continues(ext, k)
  PROVE  /\ ~ext[k].uninit /\ Begin(ext[k]) = End(ext[k - 1])
         /\ Disk(ext[k]) = Disk(ext[k - 1]) + (End(ext[k - 1]) - Begin(ext[k - 1]))
<1>1. PICK d \in Extent0, e \in Extent0 : d = ext[k - 1] /\ e = ext[k]
  BY ElementOfSeq
<1>2. ~e.uninit /\ e.lblk = d.lblk + d.len /\ e.pblk = d.pblk + d.len
  BY <1>1 DEF Continues
<1>3. End(d) = Begin(d) + d.len * Block /\ Begin(d) \in Nat /\ d.len * Block \in Nat /\ Disk(d) \in Nat
  BY ExtentIs
<1>4. Begin(e) = End(d)
  BY <1>2 DEF Begin, End
<1>5. Disk(e) = Disk(d) + d.len * Block
  <2>1. d.pblk \in Nat /\ d.len \in Nat
    BY ExtentIs
  <2>2. (d.pblk + d.len) * Block = d.pblk * Block + d.len * Block
    BY <2>1, BlocksMono
  <2> QED  BY <1>2, <2>2 DEF Disk
<1> QED  BY <1>1, <1>2, <1>3, <1>4, <1>5

(* A run [i, j] of a file.                                                 *)
IsRun(ext, i, j) ==
  /\ i \in 1..Len(ext) /\ j \in i..Len(ext) /\ ~ext[i].uninit
  /\ \A k \in (i + 1)..j : Continues(ext, k)

LEMMA RunIs ==
  ASSUME NEW ext \in Seq(Extent0), NEW i, NEW j, IsRun(ext, i, j), NEW k \in i..j
  PROVE  /\ ext[k] \in Extent0 /\ ~ext[k].uninit
         /\ Disk(ext[k]) - Begin(ext[k]) = Disk(ext[i]) - Begin(ext[i])
<1>1. PICK n \in Nat : n = Len(ext)
  BY LenProperties
<1>2. i \in 1..n /\ j \in i..n /\ ~ext[i].uninit /\ \A l \in (i + 1)..j : Continues(ext, l)
  BY <1>1 DEF IsRun
<1>3. \A l \in i..j : l \in 1..n /\ ext[l] \in Extent0
  BY <1>1, <1>2, ElementOfSeq
<1> DEFINE Same(l) == Disk(ext[l]) - Begin(ext[l]) = Disk(ext[i]) - Begin(ext[i])
           P == {d \in 0..(j - i) : Same(i + d)}
<1>4. 0 \in P
  BY <1>2
<1>5. ASSUME NEW d \in 1..(j - i), d - 1 \in P  PROVE d \in P
  <2>1. PICK l \in (i + 1)..j : l = i + d /\ l - 1 = i + (d - 1)
    BY <1>2
  <2>2. Same(l - 1)
    BY <1>5, <2>1
  <2>3. l \in 1..Len(ext) /\ l - 1 \in 1..Len(ext) /\ Continues(ext, l) /\ l - 1 \in i..j /\ l \in i..j
    BY <1>1, <1>2
  <2>4. /\ Begin(ext[l]) = End(ext[l - 1])
        /\ Disk(ext[l]) = Disk(ext[l - 1]) + (End(ext[l - 1]) - Begin(ext[l - 1]))
    BY <2>3, RunStep
  <2>5. /\ Begin(ext[l - 1]) \in Nat /\ End(ext[l - 1]) \in Nat /\ Disk(ext[l - 1]) \in Nat
    BY <1>3, <2>3, ExtentIs
  <2>6. Disk(ext[l]) - Begin(ext[l]) = Disk(ext[l - 1]) - Begin(ext[l - 1])
    BY <2>4, <2>5
  <2>7. Same(l)
    BY <2>2, <2>6
  <2>8. d \in 0..(j - i) /\ Same(i + d)
    BY <2>1, <2>7
  <2> QED  BY <2>8, Zenon
<1>6. \A d \in 0..(j - i) : d \in P
  <2> HIDE DEF P
  <2>1. j - i \in Nat
    BY <1>2
  <2>2. \A d \in 1..(j - i) : d - 1 \in P => d \in P
    BY <1>5
  <2> QED  BY <1>4, <2>1, <2>2, StepByStep
<1>7. k - i \in 0..(j - i) /\ i + (k - i) = k
  BY <1>2
<1>8. Same(i + (k - i))
  BY <1>6, <1>7
<1>9. Same(k)
  BY <1>7, <1>8
<1>10. ~ext[k].uninit
  <2>1. k = i \/ k \in (i + 1)..j
    BY <1>2
  <2> QED  BY <1>2, <2>1 DEF Continues
<1> QED  BY <1>3, <1>9, <1>10

(* Every byte of a run is in one of its extents.                           *)
LEMMA RunCovers ==
  ASSUME NEW ext \in Seq(Extent0), NEW i, NEW j, IsRun(ext, i, j),
         NEW at \in Nat, Begin(ext[i]) <= at, at < End(ext[j])
  PROVE  \E k \in i..j : Begin(ext[k]) <= at /\ at < End(ext[k])
<1>1. PICK n \in Nat : n = Len(ext)
  BY LenProperties
<1>2. i \in 1..n /\ j \in i..n /\ \A l \in (i + 1)..j : Continues(ext, l)
  BY <1>1 DEF IsRun
<1> DEFINE S == {k \in i..j : at < End(ext[k])}
<1>3. j \in S /\ S \subseteq Nat
  BY <1>2
<1>4. PICK k \in S : \A l \in S : k <= l
  BY <1>3, LeastNumber
<1>5. k \in i..j /\ at < End(ext[k])
  OBVIOUS
<1>6. CASE k = i
  BY <1>5, <1>6
<1>7. CASE k # i
  <2>1. k - 1 \in i..j /\ k \in (i + 1)..j /\ k \in 1..Len(ext) /\ k - 1 \in 1..Len(ext)
    BY <1>1, <1>2, <1>5, <1>7
  <2>2. Begin(ext[k]) = End(ext[k - 1])
    BY <1>2, <2>1, RunStep
  <2>3. k - 1 \notin S
    BY <1>4, <2>1
  <2>4. ~(at < End(ext[k - 1]))
    BY <2>1, <2>3
  <2>5. End(ext[k - 1]) \in Nat
    <3>1. ext[k - 1] \in Extent0
      BY <2>1, ElementOfSeq
    <3> QED  BY <3>1, ExtentIs
  <2> QED  BY <1>5, <2>2, <2>4, <2>5
<1> QED  BY <1>6, <1>7

-----------------------------------------------------------------------------
(* What of an extent is inside the file.                                   *)
Lesser(a, b) == IF a <= b THEN a ELSE b

LEMMA InsideIs ==
  ASSUME NEW e \in Extent0, NEW size \in Nat
  PROVE  /\ Inside(e, size) \in Nat
         /\ Inside(e, size) = IF e.uninit \/ Begin(e) >= size THEN 0
                              ELSE Lesser(End(e), size) - Begin(e)
<1>1. Begin(e) \in Nat /\ End(e) \in Nat /\ Begin(e) <= End(e)
  BY ExtentIs
<1>2. Clip(End(e), size) = Lesser(End(e), size)
  BY <1>1, LesserOf DEF Clip, Lesser
<1>3. Inside(e, size) = IF e.uninit \/ Begin(e) >= size THEN 0
                        ELSE Clip(End(e), size) - Begin(e)
  BY DEF Inside, Begin, End
<1> QED  BY <1>1, <1>2, <1>3 DEF Lesser

InsideOf(ext, size) == [k \in DOMAIN ext |-> Inside(ext[k], size)]

LEMMA InsideOfIs ==
  ASSUME NEW ext \in Seq(Extent0), NEW size \in Nat
  PROVE  /\ InsideOf(ext, size) \in Seq(Nat) /\ Len(InsideOf(ext, size)) = Len(ext)
         /\ \A k \in 1..Len(ext) : InsideOf(ext, size)[k] = Inside(ext[k], size)
<1>1. PICK n \in Nat : n = Len(ext) /\ DOMAIN ext = 1..n
  BY LenProperties
<1>2. \A k \in 1..n : Inside(ext[k], size) \in Nat
  <2>1. \A k \in 1..n : ext[k] \in Extent0
    BY <1>1, ElementOfSeq
  <2> QED  BY <2>1, InsideIs
<1>3. InsideOf(ext, size) = [k \in 1..n |-> Inside(ext[k], size)]
  BY <1>1 DEF InsideOf
<1> QED  BY <1>1, <1>2, <1>3

LEMMA DataBytesIs ==
  ASSUME IsVolume(files), NEW f \in File
  PROVE  /\ DataBytes(files[f]) = SumOf(InsideOf(files[f].ext, files[f].size))
         /\ DataBytes(files[f]) \in Nat
<1>1. files[f].ext \in Seq(Extent0) /\ files[f].size \in Nat
  BY VolumeIs
<1>2. InsideOf(files[f].ext, files[f].size) \in Seq(Nat)
  BY <1>1, InsideOfIs
<1>3. DataBytes(files[f]) = SumOf(InsideOf(files[f].ext, files[f].size))
  BY DEF DataBytes, InsideOf
<1> QED  BY <1>2, <1>3, SumIsNat

(* A run is so long as its extents are, inside the file, together.         *)
LEMMA RunBytes ==
  ASSUME NEW ext \in Seq(Extent0), NEW size \in Nat, NEW g,
         Sums(g, InsideOf(ext, size), Len(ext)),
         NEW i, NEW j, IsRun(ext, i, j), Begin(ext[i]) < size
  PROVE  /\ g[j] - g[i - 1] = Lesser(End(ext[j]), size) - Begin(ext[i])
         /\ Begin(ext[i]) <= Lesser(End(ext[j]), size)
<1>1. PICK n \in Nat : n = Len(ext)
  BY LenProperties
<1>2. i \in 1..n /\ j \in i..n /\ \A l \in (i + 1)..j : Continues(ext, l)
  BY <1>1 DEF IsRun
<1>3. \A l \in i..j : l \in 1..n /\ l - 1 \in 0..n /\ ext[l] \in Extent0
  BY <1>1, <1>2, ElementOfSeq
<1>4. /\ \A l \in 0..n : g[l] \in Nat
      /\ \A l \in 1..n : g[l] = g[l - 1] + Inside(ext[l], size)
  BY <1>1, InsideOfIs DEF Sums
<1> DEFINE Right(l) == /\ g[l] - g[i - 1] = Lesser(End(ext[l]), size) - Begin(ext[i])
                       /\ Begin(ext[i]) <= Lesser(End(ext[l]), size)
           P == {d \in 0..(j - i) : Right(i + d)}
<1>5. 0 \in P
  <2>1. i \in i..j /\ i \in 1..n /\ ext[i] \in Extent0 /\ ~ext[i].uninit /\ g[i - 1] \in Nat
    <3>1. i \in i..j /\ i \in 1..n /\ i - 1 \in 0..n
      BY <1>2
    <3>2. ext[i] \in Extent0 /\ g[i - 1] \in Nat
      BY <1>3, <1>4, <3>1
    <3>3. ~ext[i].uninit
      BY DEF IsRun
    <3> QED  BY <3>1, <3>2, <3>3
  <2>2. Begin(ext[i]) \in Nat /\ End(ext[i]) \in Nat /\ Begin(ext[i]) <= End(ext[i])
    BY <2>1, ExtentIs
  <2>3. g[i] = g[i - 1] + (Lesser(End(ext[i]), size) - Begin(ext[i]))
    <3>1. Inside(ext[i], size) = Lesser(End(ext[i]), size) - Begin(ext[i])
      <4>1. Inside(ext[i], size) = IF ext[i].uninit \/ Begin(ext[i]) >= size THEN 0
                                   ELSE Lesser(End(ext[i]), size) - Begin(ext[i])
        BY <2>1, InsideIs
      <4>2. ~(Begin(ext[i]) >= size)
        BY <2>2
      <4> QED  BY <2>1, <4>1, <4>2
    <3> QED  BY <1>4, <2>1, <3>1
  <2>4. Right(i)
    BY <2>1, <2>2, <2>3 DEF Lesser
  <2>5. 0 \in 0..(j - i) /\ Right(i + 0)
    BY <1>2, <2>4
  <2> QED  BY <2>5, Zenon
<1>6. ASSUME NEW d \in 1..(j - i), d - 1 \in P  PROVE d \in P
  <2>1. PICK l \in (i + 1)..j : l = i + d /\ l - 1 = i + (d - 1)
    BY <1>2
  <2>2. Right(l - 1)
    BY <1>6, <2>1
  <2>3. PICK m \in Nat : /\ m = l - 1 /\ m \in 1..n /\ m \in i..j /\ l \in i..j /\ l \in 1..n
    BY <1>2
  <2>4. l \in 1..Len(ext) /\ l - 1 \in 1..Len(ext) /\ Continues(ext, l)
    BY <1>1, <1>2, <2>3
  <2>5. ~ext[l].uninit /\ Begin(ext[l]) = End(ext[m])
    BY <2>3, <2>4, RunStep
  <2>6. PICK a \in Nat, b \in Nat, c \in Nat, s \in Nat :
          /\ a = End(ext[m]) /\ b = End(ext[l]) /\ c = Begin(ext[l]) /\ s = Begin(ext[i]) /\ c <= b
    <3>1. ext[m] \in Extent0 /\ ext[l] \in Extent0 /\ ext[i] \in Extent0
      <4>1. i \in i..j
        BY <1>2
      <4> QED  BY <1>3, <2>3, <4>1
    <3>2. /\ End(ext[m]) \in Nat /\ End(ext[l]) \in Nat /\ Begin(ext[l]) \in Nat
          /\ Begin(ext[l]) <= End(ext[l])
      BY <3>1, ExtentIs
    <3>3. Begin(ext[i]) \in Nat
      BY <3>1, ExtentIs
    <3> QED  BY <3>2, <3>3
  <2>7. PICK u \in Nat, v \in Nat, w \in Nat : u = g[i - 1] /\ v = g[m] /\ w = g[l]
    <3>1. i - 1 \in 0..n /\ m \in 0..n /\ l \in 0..n
      BY <1>2, <2>3
    <3> QED  BY <1>4, <3>1
  <2>8. v - u = Lesser(a, size) - s /\ s <= Lesser(a, size)
    BY <2>2, <2>3, <2>6, <2>7
  <2>9. w = v + Inside(ext[l], size)
    BY <1>4, <2>3, <2>7
  <2>10. Inside(ext[l], size) = IF c >= size THEN 0 ELSE Lesser(b, size) - c
    <3>1. ext[l] \in Extent0
      BY <1>3, <2>3
    <3> QED  BY <2>5, <2>6, <3>1, InsideIs
  <2>11. w - u = Lesser(b, size) - s /\ s <= Lesser(b, size)
    <3>1. c = a /\ c <= b
      BY <2>5, <2>6
    <3>2. w = v + (IF c >= size THEN 0 ELSE Lesser(b, size) - c)
      BY <2>9, <2>10
    <3> QED  BY <2>8, <3>1, <3>2 DEF Lesser
  <2>12. Right(l)
    BY <2>6, <2>7, <2>11
  <2>13. d \in 0..(j - i) /\ Right(i + d)
    BY <2>1, <2>12
  <2> QED  BY <2>13, Zenon
<1>7. \A d \in 0..(j - i) : d \in P
  <2> HIDE DEF P
  <2>1. j - i \in Nat
    BY <1>2
  <2>2. \A d \in 1..(j - i) : d - 1 \in P => d \in P
    BY <1>6
  <2> QED  BY <1>5, <2>1, <2>2, StepByStep
<1>8. j - i \in 0..(j - i) /\ i + (j - i) = j
  BY <1>2
<1>9. Right(i + (j - i))
  BY <1>7, <1>8
<1> QED  BY <1>8, <1>9

-----------------------------------------------------------------------------
(* Pieces, and what it is for two of them not to overlap in a file.        *)
P0 == [f : Nat, off : Nat, disk : Nat, n : Nat, len : Nat]
Clear == {x \in P0 \X P0 :
            x[1].f = x[2].f => \/ x[1].off + x[1].n <= x[2].off
                               \/ x[2].off + x[2].n <= x[1].off}

LEMMA CutsApart ==
  ASSUME NEW b \in Nat \ {0}, NEW j \in Nat \ {0}, NEW k \in Nat, j < k
  PROVE  (j - 1) * b \in Nat /\ (k - 1) * b \in Nat /\ (j - 1) * b + b <= (k - 1) * b
<1>1. PICK i \in Nat, l \in Nat : i = j - 1 /\ l = k - 1 /\ i + 1 <= l
  OBVIOUS
<1>2. b * (i + 1) <= b * l
  BY <1>1, TimesMono
<1>3. i * b \in Nat /\ l * b \in Nat /\ b * (i + 1) = i * b + b /\ b * l = l * b
  OBVIOUS
<1> QED  BY <1>1, <1>2, <1>3

(* X has room for any piece of [start, end) of file f.                     *)
Holds(X, f, start, end, disk) ==
  /\ X \subseteq P0
  /\ \A o \in Nat, c \in 1..BufSz : start + o + c <= end =>
       [f |-> f, off |-> start + o, disk |-> disk + o, n |-> c, len |-> c] \in X

(* A run is read in chunks that are its bytes, each once.                  *)
LEMMA ChunksAre ==
  ASSUME NEW f \in Nat, NEW start \in Nat, NEW end \in Nat, NEW disk \in Nat, start <= end,
         NEW X, Holds(X, f, start, end, disk)
  PROVE  /\ Chunks(f, start, end, disk) \in Seq(X)
         /\ Pairs(Chunks(f, start, end, disk), Clear)
         /\ Weight(f, Chunks(f, start, end, disk)) = end - start
<1>1. PICK l \in Nat : l = end - start
  OBVIOUS
<1>2. PICK m \in Nat : m = CeilDiv(l, BufSz)
  BY Constants0, CeilDivNat
<1> DEFINE P(k) == [f |-> f, off |-> start + (k - 1) * BufSz, disk |-> disk + (k - 1) * BufSz,
                    n |-> Cut(l, BufSz, k), len |-> Cut(l, BufSz, k)]
<1>3. Chunks(f, start, end, disk) = [k \in 1..m |-> P(k)]
  BY <1>1, <1>2 DEF Chunks, Cut
<1>4. ASSUME NEW k \in 1..m
      PROVE  /\ k \in Nat \ {0} /\ (k - 1) * BufSz \in Nat /\ Cut(l, BufSz, k) \in 1..BufSz
             /\ (k - 1) * BufSz + Cut(l, BufSz, k) <= l
             /\ P(k) \in X
  <2>1. /\ k \in Nat \ {0} /\ (k - 1) * BufSz \in Nat /\ Cut(l, BufSz, k) \in 1..BufSz
        /\ (k - 1) * BufSz + Cut(l, BufSz, k) <= l
    BY <1>2, Constants0, CutIs
  <2>2. PICK o \in Nat, c \in 1..BufSz : o = (k - 1) * BufSz /\ c = Cut(l, BufSz, k)
    BY <2>1
  <2>3. start + o + c <= end
    <3>1. c \in Nat /\ o + c <= l
      BY <2>1, <2>2, Constants0
    <3> QED  BY <1>1, <3>1
  <2>4. [f |-> f, off |-> start + o, disk |-> disk + o, n |-> c, len |-> c] \in X
    BY <2>3 DEF Holds
  <2> QED  BY <2>1, <2>2, <2>4
<1> DEFINE s == [k \in 1..m |-> P(k)]
<1>5. s \in Seq(X) /\ Len(s) = m
  BY <1>4
<1>6. Pairs(s, Clear)
  <2> SUFFICES ASSUME NEW a \in 1..m, NEW b \in 1..m, a < b  PROVE <<s[a], s[b]>> \in Clear
    BY <1>5 DEF Pairs
  <2>1. s[a] \in P0 /\ s[b] \in P0 /\ s[a] = P(a) /\ s[b] = P(b)
    BY <1>4 DEF Holds
  <2>2. PICK i \in Nat, j \in Nat, c \in Nat :
          i = (a - 1) * BufSz /\ j = (b - 1) * BufSz /\ c = Cut(l, BufSz, a) /\ c <= BufSz /\ i + BufSz <= j
    <3>1. a \in Nat \ {0} /\ b \in Nat
      OBVIOUS
    <3>2. (a - 1) * BufSz \in Nat /\ (b - 1) * BufSz \in Nat /\ (a - 1) * BufSz + BufSz <= (b - 1) * BufSz
      BY <3>1, Constants0, CutsApart
    <3>3. PICK c \in 1..BufSz : c = Cut(l, BufSz, a)
      BY <1>4
    <3>4. c \in Nat /\ c <= BufSz
      BY Constants0
    <3> QED  BY <3>2, <3>3, <3>4
  <2>3. s[a].off = start + i /\ s[a].n = c /\ s[b].off = start + j
    BY <2>1, <2>2
  <2>4. s[a].off + s[a].n <= s[b].off
    BY <2>2, <2>3, Constants0
  <2> HIDE DEF s
  <2> QED  BY <2>1, <2>4 DEF Clear
<1>7. Weight(f, s) = l
  <2>1. Amounts(f, s) = [k \in 1..CeilDiv(l, BufSz) |-> Cut(l, BufSz, k)]
    BY <1>2 DEF Amounts
  <2> QED  BY <2>1, Constants0, CutsSum DEF Weight
<1> QED  BY <1>1, <1>3, <1>5, <1>6, <1>7

(* What is of other files weighs nothing.                                  *)
LEMMA WeightNone ==
  ASSUME NEW f, NEW X, NEW s \in Seq(X), \A x \in X : x.f # f
  PROVE  Weight(f, s) = 0
<1>1. PICK n \in Nat : n = Len(s) /\ DOMAIN s = 1..n
  BY LenProperties
<1>2. \A k \in 1..n : s[k].f # f
  BY <1>1, ElementOfSeq
<1>3. Amounts(f, s) = [k \in 1..n |-> 0]
  BY <1>1, <1>2 DEF Amounts
<1>4. [k \in 1..n |-> 0] \in Seq(Nat) /\ Len([k \in 1..n |-> 0]) = n
  OBVIOUS
<1> DEFINE z == [k \in 0..n |-> 0]
<1>5. Sums(z, [k \in 1..n |-> 0], n)
  BY DEF Sums
<1>6. SumOf([k \in 1..n |-> 0]) = 0
  <2>1. SumOf([k \in 1..n |-> 0]) = z[n]
    <3> HIDE DEF z
    <3> QED  BY <1>4, <1>5, SumOnly
  <2> QED  BY <2>1
<1> QED  BY <1>3, <1>6 DEF Weight

-----------------------------------------------------------------------------
(* xfer_file.  The pieces of file f that are read from where it keeps them.*)
KeptOf(f) ==
  {p \in P0 : /\ p.f = f /\ p.len \in 1..BufSz
              /\ \A o \in 0..(p.n - 1) :
                   p.off + o < files[f].size /\ Mapped(f, p.off + o, p.disk + o)}
From(f, b) == {p \in KeptOf(f) : b <= p.off}
UpTo(f, e) == {p \in P0 : p.f = f /\ p.off + p.n <= e}

RunChunks(f, i) ==
  LET ext == files[f].ext
      j == RunEnd(ext, i)
  IN Chunks(f, ext[i].lblk * Block, Clip((ext[j].lblk + ext[j].len) * Block, files[f].size),
            ext[i].pblk * Block)

LEMMA MappedIs ==
  ASSUME NEW f, NEW at, NEW d, NEW e \in ToSet(files[f].ext), ~e.uninit,
         Begin(e) <= at, at < End(e), d - Disk(e) = at - Begin(e)
  PROVE  Mapped(f, at, d)
BY DEF Mapped, Begin, End, Disk

LEMMA SameShift ==
  ASSUME NEW a \in Nat, NEW b \in Nat, NEW c \in Nat, NEW d \in Nat, NEW x \in Nat,
         NEW u, u = a + x, NEW v, v = b + x, d - c = a - b
  PROVE  u - d = v - c
OBVIOUS

LEMMA ByteOfExtent ==
  ASSUME NEW f, NEW e \in ToSet(files[f].ext), e \in Extent0, ~e.uninit,
         NEW start \in Nat, NEW disk \in Nat, Disk(e) - Begin(e) = disk - start,
         NEW x \in Nat, NEW at, at = start + x, NEW d, d = disk + x, Begin(e) <= at, at < End(e)
  PROVE  Mapped(f, at, d)
<1>1. Begin(e) \in Nat /\ Disk(e) \in Nat
  BY ExtentIs
<1>2. d - Disk(e) = at - Begin(e)
  BY <1>1, SameShift
<1> QED  BY <1>2, MappedIs

(* A byte of a run lies on disk as far behind its beginning as in the file.*)
LEMMA ByteOfRun ==
  ASSUME NEW f, NEW ext, ext = files[f].ext, NEW n \in Nat, n = Len(ext),
         ext \in Seq(Extent0), \A k \in 1..n : ext[k] \in Extent0,
         NEW i \in 1..n, NEW j \in i..n, IsRun(ext, i, j), ~ext[i].uninit,
         NEW start \in Nat, start = Begin(ext[i]), NEW disk \in Nat, disk = Disk(ext[i]),
         NEW x \in Nat, start + x < End(ext[j])
  PROVE  Mapped(f, start + x, disk + x)
<1>1. PICK at \in Nat, d \in Nat : at = start + x /\ d = disk + x
  OBVIOUS
<1>2. PICK k \in i..j : Begin(ext[k]) <= at /\ at < End(ext[k])
  <2>1. Begin(ext[i]) <= at /\ at < End(ext[j])
    BY <1>1
  <2> QED  BY <2>1, RunCovers
<1>3. ext[k] \in Extent0 /\ ~ext[k].uninit /\ Disk(ext[k]) - Begin(ext[k]) = disk - start
  BY RunIs
<1>4. ext[k] \in ToSet(files[f].ext)
  <2>1. k \in DOMAIN ext
    OBVIOUS
  <2> QED  BY <2>1 DEF ToSet
<1>5. Mapped(f, at, d)
  BY <1>1, <1>2, <1>3, <1>4, ByteOfExtent
<1> QED  BY <1>1, <1>5

RunIsRead(f, g, i, j) ==
  /\ Pairs(RunChunks(f, i), Clear)
  /\ Weight(f, RunChunks(f, i)) = g[j] - g[i - 1]

LEMMA RunChunksAre ==
  ASSUME IsVolume(files), NEW f \in File, NEW ext, ext = files[f].ext, NEW size, size = files[f].size,
         NEW n \in Nat, n = Len(ext), NEW i \in 1..n, ~ext[i].uninit, Begin(ext[i]) < size,
         NEW g, Sums(g, InsideOf(ext, size), n), NEW j, j = RunEnd(ext, i)
  PROVE  /\ j \in i..n
         /\ RunChunks(f, i) \in Seq(From(f, Begin(ext[i])) \cap UpTo(f, End(ext[j])))
         /\ RunIsRead(f, g, i, j)
<1>1. ext \in Seq(Extent0) /\ size \in Nat /\ f \in Nat /\ \A k \in 1..n : ext[k] \in Extent0
  BY VolumeIs
<1>2. j \in i..n /\ \A k \in (i + 1)..j : Continues(ext, k)
  BY RunEndIs
<1>3. IsRun(ext, i, j)
  BY <1>2 DEF IsRun
<1>4. ext[i] \in Extent0 /\ ext[j] \in Extent0
  BY <1>1, <1>2
<1>5. PICK start \in Nat, stop \in Nat, disk \in Nat :
        start = Begin(ext[i]) /\ stop = End(ext[j]) /\ disk = Disk(ext[i])
  BY <1>4, ExtentIs
<1>6. PICK end \in Nat : end = Lesser(stop, size)
  BY <1>1 DEF Lesser
<1>7. g[j] - g[i - 1] = end - start /\ start <= end
  <2>1. Sums(g, InsideOf(ext, size), Len(ext))
    OBVIOUS
  <2>2. /\ g[j] - g[i - 1] = Lesser(End(ext[j]), size) - Begin(ext[i])
        /\ Begin(ext[i]) <= Lesser(End(ext[j]), size)
    BY <1>1, <1>3, <2>1, RunBytes, SMTT(60)
  <2> QED  BY <1>5, <1>6, <2>2
<1>8. end <= stop /\ end <= size
  BY <1>1, <1>6 DEF Lesser
<1>9. RunChunks(f, i) = Chunks(f, start, end, disk)
  <2>1. Clip(stop, size) = end
    BY <1>1, <1>6, LesserOf DEF Clip, Lesser
  <2> QED  BY <1>5, <2>1 DEF RunChunks, Begin, End, Disk
<1> DEFINE X == From(f, Begin(ext[i])) \cap UpTo(f, End(ext[j]))
<1>10. ASSUME NEW o \in Nat, NEW c \in 1..BufSz, start + o + c <= end
       PROVE  [f |-> f, off |-> start + o, disk |-> disk + o, n |-> c, len |-> c] \in X
  <2> DEFINE p == [f |-> f, off |-> start + o, disk |-> disk + o, n |-> c, len |-> c]
  <2>1. c \in Nat /\ p \in P0
    BY <1>1, Constants0 DEF P0
  <2>2. p.f = f /\ p.off = start + o /\ p.disk = disk + o /\ p.n = c /\ p.len = c
    OBVIOUS
  <2> HIDE DEF p
  <2>3. ASSUME NEW q \in 0..(c - 1)
        PROVE  p.off + q < size /\ Mapped(f, p.off + q, p.disk + q)
    <3>0. q \in Nat /\ q < c /\ size \in Nat
      BY <1>1, <2>1
    <3>1. PICK x \in Nat : x = o + q
      BY <3>0
    <3>2. start + x < stop /\ start + x < size
      <4>1. start + o + c <= end
        BY <1>10
      <4> QED  BY <1>8, <2>1, <3>0, <3>1, <4>1, SMTT(60)
    <3>3. Mapped(f, start + x, disk + x)
      <4>1. start + x < End(ext[j])
        BY <1>5, <3>2
      <4> QED  BY <1>1, <1>2, <1>3, <1>5, <4>1, ByteOfRun
    <3>4. p.off + q = start + x /\ p.disk + q = disk + x
      BY <2>1, <2>2, <3>0, <3>1
    <3> QED  BY <3>2, <3>3, <3>4
  <2>4. p \in KeptOf(f)
    BY <2>1, <2>2, <2>3 DEF KeptOf
  <2>5. p.off + p.n <= stop /\ start <= p.off
    BY <1>8, <1>10, <2>1, <2>2
  <2>6. p \in X
    BY <1>5, <2>1, <2>2, <2>4, <2>5 DEF From, UpTo
  <2> QED  BY <2>6 DEF p
<1>11. X \subseteq P0
  BY DEF UpTo
<1>12. /\ Chunks(f, start, end, disk) \in Seq(X)
       /\ Pairs(Chunks(f, start, end, disk), Clear)
       /\ Weight(f, Chunks(f, start, end, disk)) = end - start
  <2> HIDE DEF X
  <2>1. Holds(X, f, start, end, disk)
    BY <1>10, <1>11 DEF Holds
  <2>2. f \in Nat /\ start <= end
    BY <1>1, <1>7
  <2> QED  BY <2>1, <2>2, ChunksAre
<1> QED  BY <1>2, <1>7, <1>9, <1>12 DEF RunIsRead

(* The reads from extent i on, when g gives those from each later one.     *)
Rest(f, g, i) ==
  LET ext == files[f].ext
  IN IF i > Len(ext) \/ ext[i].lblk * Block >= files[f].size THEN <<>>
     ELSE IF ext[i].uninit THEN g[i + 1]
     ELSE RunChunks(f, i) \o g[RunEnd(ext, i) + 1]

RestCases(f, ext, n, i) ==
  \/ (i = n + 1 \/ Begin(ext[i]) >= files[f].size) /\ \A g : Rest(f, g, i) = <<>>
  \/ /\ i \in 1..n /\ ext[i].uninit /\ i + 1 \in 1..(n + 1)
     /\ \A g : Rest(f, g, i) = g[i + 1]
  \/ /\ i \in 1..n /\ ~ext[i].uninit /\ Begin(ext[i]) < files[f].size
     /\ RunEnd(ext, i) \in i..n
     /\ \A g : Rest(f, g, i) = RunChunks(f, i) \o g[RunEnd(ext, i) + 1]

LEMMA RestIs ==
  ASSUME IsVolume(files), NEW f \in File, NEW ext, ext = files[f].ext, NEW n \in Nat, n = Len(ext),
         NEW i \in 1..(n + 1)
  PROVE  RestCases(f, ext, n, i)
<1>1. \A g : Rest(f, g, i) =
        IF i > n \/ Begin(ext[i]) >= files[f].size THEN <<>>
        ELSE IF ext[i].uninit THEN g[i + 1]
        ELSE RunChunks(f, i) \o g[RunEnd(ext, i) + 1]
  BY DEF Rest, Begin
<1>2. CASE i = n + 1
  <2>1. i > n
    BY <1>2
  <2> QED  BY <1>1, <1>2, <2>1 DEF RestCases
<1>3. CASE i # n + 1
  <2>1. i \in 1..n /\ ~(i > n) /\ i + 1 \in 1..(n + 1)
    BY <1>3
  <2>2. RunEnd(ext, i) \in i..n
    BY <2>1, RunEndIs
  <2>3. ext[i] \in Extent0 /\ files[f].size \in Nat
    BY <2>1, VolumeIs
  <2>4. Begin(ext[i]) \in Nat
    BY <2>3, ExtentIs
  <2>5. Begin(ext[i]) >= files[f].size \/ Begin(ext[i]) < files[f].size
    BY <2>3, <2>4
  <2> QED  BY <1>1, <2>1, <2>2, <2>5 DEF RestCases
<1> QED  BY <1>2, <1>3

LEMMA XferPlanFrom ==
  ASSUME IsVolume(files), NEW f \in File, NEW ext, ext = files[f].ext, NEW n \in Nat, n = Len(ext)
  PROVE  \E h : XferPlan(f) = h[1] /\ \A i \in 1..(n + 1) : h[i] = Rest(f, h, i)
<1>0. ASSUME NEW i \in 1..(n + 1)
      PROVE  \/ \A e : Rest(f, e, i) = <<>>
             \/ i + 1 \in 1..(n + 1) /\ \A e : Rest(f, e, i) = e[i + 1]
             \/ /\ i \in 1..n /\ ~ext[i].uninit /\ Begin(ext[i]) < files[f].size
                /\ RunEnd(ext, i) \in i..n
                /\ \A e : Rest(f, e, i) = RunChunks(f, i) \o e[RunEnd(ext, i) + 1]
  <2>1. RestCases(f, ext, n, i)
    BY RestIs
  <2> QED  BY <2>1 DEF RestCases
<1> DEFINE D == 1..(n + 1)
           V == Seq(P0)
           rank == [i \in D |-> n + 1 - i]
           step == [gi \in [D -> V] \X D |-> Rest(f, gi[1], gi[2])]
<1>1. Ranked(D, rank)
  <2>1. rank \in [D -> 0..n]
    BY SMTT(60)
  <2> HIDE DEF rank, D
  <2> QED  BY <2>1 DEF Ranked
<1>2. PICK sums : Sums(sums, InsideOf(ext, files[f].size), n)
  <2>1. ext \in Seq(Extent0) /\ files[f].size \in Nat
    BY VolumeIs
  <2>2. InsideOf(ext, files[f].size) \in Seq(Nat) /\ Len(InsideOf(ext, files[f].size)) = n
    BY <2>1, InsideOfIs
  <2> QED  BY <2>2, SumOfIs
<1>3. ASSUME NEW i \in 1..n, ~ext[i].uninit, Begin(ext[i]) < files[f].size
      PROVE  RunChunks(f, i) \in V
  <2>1. RunChunks(f, i) \in Seq(From(f, Begin(ext[i])) \cap UpTo(f, End(ext[RunEnd(ext, i)])))
    BY <1>2, <1>3, RunChunksAre
  <2>2. From(f, Begin(ext[i])) \cap UpTo(f, End(ext[RunEnd(ext, i)])) \subseteq P0
    BY DEF UpTo
  <2> QED  BY <2>1, <2>2
<1>4. ASSUME NEW g \in [D -> V], NEW i \in D  PROVE Rest(f, g, i) \in V
  <2>1. CASE Rest(f, g, i) = <<>>
    BY <2>1
  <2>2. CASE i + 1 \in D /\ Rest(f, g, i) = g[i + 1]
    BY <2>2
  <2>3. CASE /\ i \in 1..n /\ ~ext[i].uninit /\ Begin(ext[i]) < files[f].size
             /\ RunEnd(ext, i) \in i..n
             /\ Rest(f, g, i) = RunChunks(f, i) \o g[RunEnd(ext, i) + 1]
    <3>1. RunChunks(f, i) \in V
      BY <1>3, <2>3
    <3>2. RunEnd(ext, i) + 1 \in D
      BY <2>3
    <3>3. g[RunEnd(ext, i) + 1] \in V
      BY <3>2
    <3> QED  BY <2>3, <3>1, <3>3, ConcatProperties
  <2>4. \/ \A e : Rest(f, e, i) = <<>>
        \/ i + 1 \in 1..(n + 1) /\ \A e : Rest(f, e, i) = e[i + 1]
        \/ /\ i \in 1..n /\ ~ext[i].uninit /\ Begin(ext[i]) < files[f].size
           /\ RunEnd(ext, i) \in i..n
           /\ \A e : Rest(f, e, i) = RunChunks(f, i) \o e[RunEnd(ext, i) + 1]
    BY <1>0
  <2> QED  BY <2>1, <2>2, <2>3, <2>4
<1>5. Steps(D, V, step)
  <2>1. <<>> \in V
    OBVIOUS
  <2>2. step \in [[D -> V] \X D -> V]
    BY <1>4
  <2> HIDE DEF V, step, D
  <2> QED  BY <2>1, <2>2 DEF Steps
<1>6. Local(D, V, rank, step)
  <2> SUFFICES ASSUME NEW i \in D, NEW g \in [D -> V], NEW h \in [D -> V],
                      \A j \in D : rank[j] < rank[i] => g[j] = h[j]
               PROVE  step[<<g, i>>] = step[<<h, i>>]
    <3> HIDE DEF V, step, D, rank
    <3> QED  BY DEF Local
  <2>1. ASSUME NEW j \in D, i < j  PROVE g[j] = h[j]
    <3>1. rank[j] = n + 1 - j /\ rank[i] = n + 1 - i
      OBVIOUS
    <3>2. rank[j] < rank[i]
      BY <2>1, <3>1
    <3> QED  BY <3>2
  <2>2. Rest(f, g, i) = Rest(f, h, i)
    <3>1. CASE i + 1 \in D /\ Rest(f, g, i) = g[i + 1] /\ Rest(f, h, i) = h[i + 1]
      <4>1. i < i + 1
        OBVIOUS
      <4> QED  BY <2>1, <3>1, <4>1
    <3>2. CASE /\ RunEnd(ext, i) \in i..n
               /\ Rest(f, g, i) = RunChunks(f, i) \o g[RunEnd(ext, i) + 1]
               /\ Rest(f, h, i) = RunChunks(f, i) \o h[RunEnd(ext, i) + 1]
      <4>1. PICK j \in D : j = RunEnd(ext, i) + 1 /\ i < j
        BY <3>2
      <4> QED  BY <2>1, <3>2, <4>1
    <3>3. CASE Rest(f, g, i) = <<>> /\ Rest(f, h, i) = <<>>
      BY <3>3
    <3>4. \/ \A e : Rest(f, e, i) = <<>>
          \/ i + 1 \in 1..(n + 1) /\ \A e : Rest(f, e, i) = e[i + 1]
          \/ /\ RunEnd(ext, i) \in i..n
             /\ \A e : Rest(f, e, i) = RunChunks(f, i) \o e[RunEnd(ext, i) + 1]
      BY <1>0
    <3> QED  BY <3>1, <3>2, <3>3, <3>4
  <2>3. step[<<g, i>>] = Rest(f, g, i) /\ step[<<h, i>>] = Rest(f, h, i)
    OBVIOUS
  <2> QED  BY <2>2, <2>3
<1>7. PICK g : Solves(g, D, V, step)
  <2> HIDE DEF V, step, D, rank
  <2> QED  BY <1>1, <1>5, <1>6, RecursionExists
<1>8. g \in [D -> V] /\ \A i \in D : g[i] = Rest(f, g, i)
  BY <1>7 DEF Solves
<1> DEFINE Makes(h) == h = [i \in D |-> Rest(f, h, i)]
           from == CHOOSE h : Makes(h)
<1>9. Makes(g)
  BY <1>8
<1>10. Makes(from)
  <2> HIDE DEF Makes
  <2> QED  BY <1>9, Zenon
<1>11. XferPlan(f) = from[1]
  BY DEF XferPlan, Rest, RunChunks
<1> HIDE DEF from
<1>12. \A i \in D : from[i] = Rest(f, from, i)
  BY <1>10
<1> QED  BY <1>11, <1>12

LEMMA AcrossSets ==
  ASSUME NEW S, NEW T, NEW R, NEW s \in Seq(S), NEW t \in Seq(T),
         \A x \in S, y \in T : <<x, y>> \in R
  PROVE  Across(s, t, R)
<1>1. \A a \in 1..Len(s) : s[a] \in S
  BY ElementOfSeq
<1>2. \A b \in 1..Len(t) : t[b] \in T
  BY ElementOfSeq
<1> QED  BY <1>1, <1>2 DEF Across

LEMMA NoPairs == ASSUME NEW R PROVE Pairs(<<>>, R)
<1>1. Len(<<>>) = 0
  OBVIOUS
<1> QED  BY <1>1 DEF Pairs

(* xfer_file reads the bytes of the extents inside the file, each once, as *)
(* many as data_bytes said, from where the file keeps them.                *)
LEMMA XferPlanIs ==
  ASSUME IsVolume(files), NEW f \in File
  PROVE  /\ XferPlan(f) \in Seq(KeptOf(f))
         /\ Pairs(XferPlan(f), Clear)
         /\ Weight(f, XferPlan(f)) = DataBytes(files[f])
<1>0. /\ files[f].size \in Nat /\ files[f].ext \in Seq(Extent0)
      /\ Len(files[f].ext) \in Nat /\ \A k \in 1..Len(files[f].ext) : files[f].ext[k] \in Extent0
  BY VolumeIs
<1>a. PICK n \in Nat : n = Len(files[f].ext)
  BY <1>0
<1>b. PICK size \in Nat : size = files[f].size
  BY <1>0
<1>c. PICK ext : ext = files[f].ext
  OBVIOUS
<1>1. /\ ext = files[f].ext /\ size = files[f].size /\ n = Len(ext)
      /\ ext \in Seq(Extent0) /\ size \in Nat /\ \A k \in 1..n : ext[k] \in Extent0
  BY <1>0, <1>a, <1>b, <1>c
<1>2. PICK h : XferPlan(f) = h[1] /\ \A i \in 1..(n + 1) : h[i] = Rest(f, h, i)
  BY <1>1, XferPlanFrom
<1>3. PICK g : Sums(g, InsideOf(ext, size), n) /\ DataBytes(files[f]) = g[n]
  BY <1>1, InsideOfIs, DataBytesIs, SumOfIs
<1>4. /\ g[0] = 0 /\ (\A k \in 0..n : g[k] \in Nat)
      /\ \A k \in 1..n : g[k] = g[k - 1] + Inside(ext[k], size)
  BY <1>1, <1>3, InsideOfIs DEF Sums
<1> DEFINE S(i) == IF i <= n THEN From(f, Begin(ext[i])) ELSE {}
           Claim(i) == /\ h[i] \in Seq(S(i)) /\ Pairs(h[i], Clear)
                       /\ Weight(f, h[i]) = g[n] - g[i - 1]
<1>5. \A i \in 1..n : /\ Begin(ext[i]) \in Nat /\ End(ext[i]) \in Nat /\ Begin(ext[i]) <= End(ext[i])
                      /\ \A k \in 1..n : i < k => Begin(ext[i]) <= Begin(ext[k])
  <2> SUFFICES ASSUME NEW i \in 1..n
               PROVE  /\ Begin(ext[i]) \in Nat /\ End(ext[i]) \in Nat /\ Begin(ext[i]) <= End(ext[i])
                      /\ \A k \in 1..n : i < k => Begin(ext[i]) <= Begin(ext[k])
    OBVIOUS
  <2>1. Begin(ext[i]) \in Nat /\ End(ext[i]) \in Nat /\ Begin(ext[i]) <= End(ext[i])
    BY <1>1, ExtentIs
  <2>2. ASSUME NEW k \in 1..n, i < k  PROVE Begin(ext[i]) <= Begin(ext[k])
    <3>1. End(ext[i]) <= Begin(ext[k])
      BY <1>1, <2>2, ExtentsInOrder
    <3>2. Begin(ext[k]) \in Nat
      BY <1>1, ExtentIs
    <3> QED  BY <2>1, <3>1, <3>2
  <2> QED  BY <2>1, <2>2
<1>6. Claim(n + 1)
  <2>1. h[n + 1] = <<>>
    <3>1. RestCases(f, ext, n, n + 1)
      BY <1>1, RestIs
    <3>2. Rest(f, h, n + 1) = <<>>
      <4>1. n + 1 \notin 1..n
        OBVIOUS
      <4> QED  BY <3>1, <4>1 DEF RestCases
    <3> QED  BY <1>2, <3>2
  <2>2. g[n] - g[n + 1 - 1] = 0
    BY <1>4
  <2>3. <<>> \in Seq(S(n + 1))
    OBVIOUS
  <2> HIDE DEF S
  <2> QED  BY <2>1, <2>2, <2>3, NoPairs, WeightEmpty
<1>7. \A i \in 1..n : \A j \in (i + 1)..(n + 1) : S(j) \subseteq From(f, Begin(ext[i]))
  <2> SUFFICES ASSUME NEW i \in 1..n, NEW j \in (i + 1)..n, NEW p \in From(f, Begin(ext[j]))
               PROVE  p \in From(f, Begin(ext[i]))
    OBVIOUS
  <2>1. Begin(ext[i]) \in Nat /\ Begin(ext[j]) \in Nat /\ Begin(ext[i]) <= Begin(ext[j])
    BY <1>5
  <2>2. p.off \in Nat
    BY DEF From, KeptOf, P0
  <2> QED  BY <2>1, <2>2 DEF From
<1>8. ASSUME NEW i \in 1..n, \A k \in (i + 1)..(n + 1) : Claim(k)  PROVE Claim(i)
  <2>1. RestCases(f, ext, n, i)
    BY <1>1, RestIs
  <2>2. /\ h[i] = Rest(f, h, i) /\ S(i) = From(f, Begin(ext[i])) /\ i + 1 \in (i + 1)..(n + 1)
        /\ i - 1 \in 0..n /\ i \in 0..n
    BY <1>2
  <2>a. Claim(i + 1) /\ S(i + 1) \subseteq S(i)
    <3> HIDE DEF S, Claim
    <3> QED  BY <1>7, <1>8, <2>2
  <2>b. h[i + 1] \in Seq(S(i + 1)) /\ Pairs(h[i + 1], Clear) /\ Weight(f, h[i + 1]) = g[n] - g[i + 1 - 1]
    <3> HIDE DEF S
    <3> QED  BY <2>a
  <2>c. i + 1 - 1 = i
    OBVIOUS
  <2>3. /\ h[i + 1] \in Seq(S(i)) /\ Pairs(h[i + 1], Clear) /\ Weight(f, h[i + 1]) = g[n] - g[i]
    <3> HIDE DEF S, Claim
    <3> QED  BY <2>a, <2>b, <2>c, SeqMonotonic
  <2>4. /\ g[i] = g[i - 1] + Inside(ext[i], size) /\ ext[i] \in Extent0
        /\ g[n] \in Nat /\ g[i] \in Nat /\ g[i - 1] \in Nat
    <3>1. n \in 0..n
      OBVIOUS
    <3> HIDE DEF S, Claim
    <3> QED  BY <1>1, <1>4, <2>2, <3>1
  <2>5. CASE Begin(ext[i]) >= size /\ Rest(f, h, i) = <<>>
    <3>1. h[i + 1] = <<>>
      <4>1. RestCases(f, ext, n, i + 1)
        BY <1>1, RestIs
      <4>2. CASE i = n
        <5>1. Rest(f, h, i + 1) = <<>>
          <6>1. i + 1 \notin 1..n
            BY <4>2
          <6> QED  BY <4>1, <6>1 DEF RestCases
        <5> QED  BY <1>2, <5>1
      <4>3. CASE i # n
        <5>1. i + 1 \in 1..n /\ i + 1 # n + 1
          BY <4>3
        <5>2. Begin(ext[i + 1]) \in Nat /\ Begin(ext[i]) \in Nat /\ Begin(ext[i + 1]) >= Begin(ext[i])
          BY <1>5, <5>1
        <5>3. Begin(ext[i + 1]) >= size /\ ~(Begin(ext[i + 1]) < size)
          BY <1>1, <2>5, <5>2
        <5>4. Rest(f, h, i + 1) = <<>>
          <6>1. files[f].ext[i + 1].lblk * Block >= files[f].size
            BY <1>1, <5>3 DEF Begin
          <6> QED  BY <6>1 DEF Rest
        <5> QED  BY <1>2, <5>1, <5>4
      <4> QED  BY <4>2, <4>3
    <3>2. g[n] - g[i] = 0
      BY <2>3, <3>1, WeightEmpty
    <3>3. Inside(ext[i], size) = 0
      BY <1>1, <2>4, <2>5, InsideIs
    <3>4. g[n] - g[i - 1] = 0
      BY <2>4, <3>2, <3>3
    <3>5. h[i] = <<>> /\ <<>> \in Seq(S(i))
      BY <2>2, <2>5
    <3> HIDE DEF S
    <3> QED  BY <3>4, <3>5, NoPairs, WeightEmpty
  <2>6. CASE ext[i].uninit /\ Rest(f, h, i) = h[i + 1]
    <3>1. Inside(ext[i], size) = 0
      BY <1>1, <2>4, <2>6, InsideIs
    <3>2. g[n] - g[i - 1] = g[n] - g[i + 1 - 1]
      BY <2>4, <3>1
    <3> HIDE DEF S
    <3> QED  BY <2>2, <2>3, <2>6, <3>2
  <2>7. CASE /\ ~ext[i].uninit /\ Begin(ext[i]) < size /\ RunEnd(ext, i) \in i..n
             /\ Rest(f, h, i) = RunChunks(f, i) \o h[RunEnd(ext, i) + 1]
    <3>1. PICK j \in i..n : j = RunEnd(ext, i)
      BY <2>7
    <3>2. PICK s, t : s = RunChunks(f, i) /\ t = h[j + 1]
      OBVIOUS
    <3>3. /\ s \in Seq(From(f, Begin(ext[i])) \cap UpTo(f, End(ext[j])))
          /\ Pairs(s, Clear) /\ Weight(f, s) = g[j] - g[i - 1]
      <4>1. /\ ext = files[f].ext /\ size = files[f].size /\ n = Len(ext)
            /\ ~ext[i].uninit /\ Begin(ext[i]) < size /\ j = RunEnd(ext, i)
        BY <1>1, <2>7, <3>1
      <4>2. Sums(g, InsideOf(ext, size), n)
        BY <1>3
      <4>3. RunChunks(f, i) = s
        BY <3>2
      <4>4. /\ RunChunks(f, i) \in Seq(From(f, Begin(ext[i])) \cap UpTo(f, End(ext[j])))
            /\ Pairs(RunChunks(f, i), Clear) /\ Weight(f, RunChunks(f, i)) = g[j] - g[i - 1]
        <5> HIDE DEF S, Claim
        <5>1. Begin(files[f].ext[i]) < files[f].size /\ ~files[f].ext[i].uninit
          BY <4>1
        <5>2. Sums(g, InsideOf(files[f].ext, files[f].size), n) /\ n = Len(files[f].ext)
          BY <4>1, <4>2
        <5>3. RunChunks(f, i) \in Seq(From(f, Begin(files[f].ext[i])) \cap UpTo(f, End(files[f].ext[RunEnd(files[f].ext, i)])))
          BY <5>1, <5>2, RunChunksAre
        <5>4. RunIsRead(f, g, i, RunEnd(files[f].ext, i))
          BY <5>1, <5>2, RunChunksAre
        <5> QED  BY <4>1, <5>3, <5>4 DEF RunIsRead
      <4> HIDE DEF S, Claim
      <4> QED  BY <4>3, <4>4
    <3>4. j + 1 \in (i + 1)..(n + 1) /\ j \in 1..n /\ j \in 0..n /\ j + 1 - 1 = j
      BY <3>1
    <3>5. t \in Seq(S(j + 1)) /\ Pairs(t, Clear) /\ Weight(f, t) = g[n] - g[j]
      BY <1>8, <3>2, <3>4
    <3>6. S(j + 1) \subseteq S(i)
      BY <1>7, <2>2, <3>4
    <3>7. \A x \in From(f, Begin(ext[i])) \cap UpTo(f, End(ext[j])), y \in S(j + 1) : <<x, y>> \in Clear
      <4> SUFFICES ASSUME NEW x \in UpTo(f, End(ext[j])), NEW y \in S(j + 1)  PROVE <<x, y>> \in Clear
        OBVIOUS
      <4>1. j + 1 \in 1..n /\ y \in From(f, Begin(ext[j + 1]))
        BY <3>4
      <4>2. End(ext[j]) <= Begin(ext[j + 1])
        BY <1>1, <3>4, <4>1, ExtentsInOrder
      <4>3. /\ x \in P0 /\ y \in P0 /\ x.off \in Nat /\ x.n \in Nat /\ y.off \in Nat
            /\ x.off + x.n <= End(ext[j]) /\ Begin(ext[j + 1]) <= y.off
        BY <4>1 DEF UpTo, From, KeptOf, P0
      <4>4. End(ext[j]) \in Nat /\ Begin(ext[j + 1]) \in Nat
        BY <1>5, <3>4, <4>1
      <4>5. x.off + x.n <= y.off
        BY <4>2, <4>3, <4>4
      <4> QED  BY <4>3, <4>5 DEF Clear
    <3>8. S(i) \subseteq P0 /\ S(i) = From(f, Begin(ext[i]))
      BY <2>2 DEF From, KeptOf
    <3> HIDE DEF S
    <3>9. s \in Seq(S(i)) /\ t \in Seq(S(i))
      BY <3>3, <3>5, <3>6, <3>8
    <3>10. Across(s, t, Clear)
      BY <3>3, <3>5, <3>7, AcrossSets
    <3>11. s \o t \in Seq(S(i)) /\ Pairs(s \o t, Clear)
      BY <3>3, <3>5, <3>9, <3>10, ConcatProperties, PairsConcat
    <3>12. Weighed(S(i))
      BY <3>8 DEF Weighed, P0
    <3>13. Weight(f, s \o t) = Weight(f, s) + Weight(f, t)
      BY <3>9, <3>12, WeightConcat
    <3>14. Weight(f, s \o t) = g[n] - g[i - 1]
      <4>1. g[j] \in Nat
        BY <1>4, <3>4
      <4> QED  BY <2>4, <3>3, <3>5, <3>13, <4>1
    <3>15. h[i] = s \o t
      BY <2>2, <2>7, <3>1, <3>2
    <3> QED  BY <3>11, <3>14, <3>15
  <2> HIDE DEF S, Claim
  <2>9. i # n + 1 /\ (Begin(ext[i]) >= files[f].size => Begin(ext[i]) >= size)
        /\ (Begin(ext[i]) < files[f].size => Begin(ext[i]) < size)
    BY <1>1
  <2>10. \/ Begin(ext[i]) >= size /\ Rest(f, h, i) = <<>>
         \/ ext[i].uninit /\ Rest(f, h, i) = h[i + 1]
         \/ /\ ~ext[i].uninit /\ Begin(ext[i]) < size /\ RunEnd(ext, i) \in i..n
            /\ Rest(f, h, i) = RunChunks(f, i) \o h[RunEnd(ext, i) + 1]
    BY <2>1, <2>9 DEF RestCases
  <2> QED  BY <2>5, <2>6, <2>7, <2>10
<1> DEFINE P == {d \in 0..n : \A i \in (n + 1 - d)..(n + 1) : Claim(i)}
<1>9. 0 \in P
  <2> HIDE DEF Claim
  <2>1. \A i \in (n + 1 - 0)..(n + 1) : i = n + 1
    OBVIOUS
  <2> QED  BY <1>6, <2>1
<1>10. ASSUME NEW d \in 1..n, d - 1 \in P  PROVE d \in P
  <2> HIDE DEF Claim
  <2>1. PICK i \in 1..n : i = n + 1 - d /\ i + 1 = n + 1 - (d - 1)
    OBVIOUS
  <2>2. \A k \in (i + 1)..(n + 1) : Claim(k)
    BY <1>10, <2>1
  <2>3. Claim(i)
    BY <1>8, <2>2
  <2>4. \A k \in i..(n + 1) : k = i \/ k \in (i + 1)..(n + 1)
    OBVIOUS
  <2>5. d \in 0..n /\ \A k \in (n + 1 - d)..(n + 1) : Claim(k)
    BY <2>1, <2>2, <2>3, <2>4
  <2> QED  BY <2>5
<1>11. \A d \in 0..n : d \in P
  <2> HIDE DEF P
  <2> QED  BY <1>9, <1>10, StepByStep
<1>12. Claim(1)
  <2> HIDE DEF Claim
  <2>1. n \in P /\ 1 \in (n + 1 - n)..(n + 1)
    BY <1>11
  <2> QED  BY <2>1
<1>13. h[1] \in Seq(KeptOf(f))
  <2>1. S(1) \subseteq KeptOf(f)
    BY DEF From
  <2> HIDE DEF S
  <2> QED  BY <1>12, <2>1
<1> HIDE DEF S
<1>14. Weight(f, h[1]) = g[n]
  <2>1. g[n] \in Nat /\ g[1 - 1] = 0
    BY <1>4
  <2> QED  BY <1>12, <2>1
<1> QED  BY <1>2, <1>3, <1>12, <1>13, <1>14

-----------------------------------------------------------------------------
(* run_rawsort.  What of file f lies in extent e of it.                    *)
Within(f, e) ==
  {p \in KeptOf(f) : /\ Begin(e) <= p.off /\ p.off + p.n <= End(e)
                     /\ Disk(e) <= p.disk /\ p.disk + p.len <= Disk(e) + e.len * Block
                     /\ \E b \in Nat : p.disk = b * Block}

Piece(f, e, k) ==
  [f |-> f, off |-> Begin(e) + (k - 1) * BufSz, disk |-> Disk(e) + (k - 1) * BufSz,
   n |-> Cut(Inside(e, files[f].size), BufSz, k), len |-> Cut(e.len * Block, BufSz, k)]

LEMMA TimesAssoc ==
  ASSUME NEW a \in Nat, NEW b \in Nat, NEW c \in Nat
  PROVE  a * b \in Nat /\ a * b * c = a * (c * b) /\ a * (c * b) \in Nat
OBVIOUS

LEMMA TimesLess ==
  ASSUME NEW a \in Nat, NEW b \in Nat, NEW c \in Nat, a * c < b * c
  PROVE  a < b
<1>1. b <= a => c * b <= c * a
  BY TimesMono
<1> QED  BY <1>1

LEMMA PieceIs ==
  ASSUME IsVolume(files), NEW f \in File, NEW e \in ToSet(files[f].ext), e \in Extent0,
         NEW L, L = Inside(e, files[f].size), NEW k \in 1..CeilDiv(L, BufSz)
  PROVE  Pieces(f, e)[k] = Piece(f, e, k) /\ Piece(f, e, k) \in Within(f, e)
<1>1. PICK size \in Nat : size = files[f].size
  BY VolumeIs
<1>2. f \in Nat
  BY VolumeIs
<1>3. L \in Nat
  BY <1>1, InsideIs
<1>4. PICK A : A = (k - 1) * BufSz
  OBVIOUS
<1>5. PICK n : n = Cut(L, BufSz, k)
  OBVIOUS
<1>6. /\ k \in Nat /\ A \in Nat /\ A < L
      /\ n \in 1..BufSz /\ A + n <= L
  BY <1>3, <1>4, <1>5, Constants0, CutIs
<1>7. ~e.uninit /\ Begin(e) < size /\ L = Lesser(End(e), size) - Begin(e)
  <2>1. ~(e.uninit \/ Begin(e) >= size) /\ L = Lesser(End(e), size) - Begin(e)
    <3>1. L # 0
      BY <1>3, <1>6
    <3> QED  BY <1>1, <3>1, InsideIs
  <2>2. Begin(e) \in Nat
    BY ExtentIs
  <2> QED  BY <2>1, <2>2
<1>8. PICK B : B = Begin(e)
  OBVIOUS
<1>9. PICK E : E = e.len * Block
  OBVIOUS
<1>10. PICK D : D = Disk(e)
  OBVIOUS
<1>11. B \in Nat /\ E \in Nat /\ D \in Nat /\ End(e) = B + E /\ e.lblk \in Nat /\ e.len \in Nat /\ e.pblk \in Nat
  BY <1>8, <1>9, <1>10, ExtentIs
<1>12. L = Lesser(E, size - B) /\ L <= E /\ B + L <= size /\ A + n <= E
  <2>1. L = Lesser(B + E, size) - B /\ B < size
    BY <1>7, <1>8, <1>11
  <2>2. n \in Nat
    BY <1>6, Constants0
  <2> QED  BY <1>6, <1>11, <2>1, <2>2 DEF Lesser
<1>13. PICK o : o = (k - 1) * MaxBlk
  OBVIOUS
<1>14. /\ o \in Nat /\ o * Block = A /\ o < e.len
       /\ (e.lblk + o) * Block = B + A /\ (e.pblk + o) * Block = D + A
       /\ e.len - o \in Nat /\ (e.len - o) * Block = E - A
  <2>1. PICK i \in Nat : i = k - 1
    BY <1>6
  <2>2. o \in Nat /\ o * Block = A
    BY <1>4, <1>13, <2>1, Constants0, TimesAssoc DEF BufSz
  <2>3. o * Block < e.len * Block
    BY <1>6, <1>9, <1>11, <1>12, <2>2
  <2>4. o < e.len
    BY <1>11, <2>2, <2>3, Constants0, TimesLess
  <2>5. (e.lblk + o) * Block = B + A /\ (e.pblk + o) * Block = D + A
    BY <1>8, <1>10, <1>11, <2>2, BlocksMono DEF Begin, Disk
  <2>6. PICK r \in Nat : r = e.len - o /\ e.len = o + r
    BY <1>11, <2>2, <2>4
  <2>7. (o + r) * Block = o * Block + r * Block /\ r * Block \in Nat
    BY <2>2, BlocksMono
  <2>8. r * Block = E - A
    BY <1>6, <1>9, <2>2, <2>6, <2>7
  <2> QED  BY <2>2, <2>4, <2>5, <2>6, <2>8
<1>15. PICK len : len = Cut(E, BufSz, k)
  OBVIOUS
<1>16. len = Lesser(E - A, BufSz) /\ n = Lesser(L - A, BufSz)
  <2>1. E - A \in Int /\ L - A \in Int /\ BufSz \in Int
    BY <1>3, <1>6, <1>11, Constants0
  <2> QED  BY <1>4, <1>5, <1>15, <2>1, LesserOf DEF Cut, Lesser
<1>17. Min({e.len - o, MaxBlk}) * Block = len
  <2>1. PICK r \in Nat : r = e.len - o
    BY <1>14
  <2>2. Min({r, MaxBlk}) = IF r <= MaxBlk THEN r ELSE MaxBlk
    BY Constants0, LesserOf
  <2>3. MaxBlk * Block = BufSz
    BY Constants0 DEF BufSz
  <2>4. r * Block = E - A /\ r * Block \in Nat
    BY <1>14, <2>1, BlocksMono
  <2>5. CASE r <= MaxBlk
    <3>1. r * Block <= MaxBlk * Block
      BY <2>5, Constants0, BlocksMono
    <3>2. E - A <= BufSz
      BY <2>3, <2>4, <3>1
    <3> QED  BY <1>16, <2>1, <2>2, <2>4, <2>5, <3>2 DEF Lesser
  <2>6. CASE ~(r <= MaxBlk)
    <3>1. MaxBlk <= r /\ MaxBlk * Block <= r * Block
      BY <2>6, Constants0, BlocksMono
    <3>2. BufSz <= E - A /\ BufSz \in Nat /\ E - A \in Nat
      BY <2>3, <2>4, <3>1, Constants0
    <3>3. len = BufSz
      BY <1>16, <3>2 DEF Lesser
    <3> QED  BY <2>1, <2>2, <2>3, <2>6, <3>3
  <2> QED  BY <2>5, <2>6
<1>18. Min({len, size - (B + A)}) = n /\ n <= len /\ len \in 1..BufSz /\ A + len <= E
  <2>1. PICK b \in Nat : b = BufSz
    BY Constants0
  <2>2. len \in Int /\ size - (B + A) \in Int
    BY <1>6, <1>11, <1>16, <2>1 DEF Lesser
  <2>3. Min({len, size - (B + A)}) = Lesser(len, size - (B + A))
    BY <2>2, LesserOf DEF Lesser
  <2>4. Lesser(len, size - (B + A)) = n /\ n <= len /\ n <= b /\ n >= 1 /\ len <= b /\ len <= E - A
    BY <1>3, <1>6, <1>11, <1>12, <1>16, <2>1 DEF Lesser
  <2>5. len \in 1..b
    BY <1>6, <2>1, <2>2, <2>4
  <2> QED  BY <1>6, <1>11, <2>1, <2>2, <2>3, <2>4, <2>5
<1>19. PICK p : p = [f |-> f, off |-> B + A, disk |-> D + A, n |-> n, len |-> len]
  OBVIOUS
<1>20. Piece(f, e, k) = p
  BY <1>1, <1>4, <1>5, <1>8, <1>9, <1>10, <1>15, <1>19 DEF Piece
<1>21. Pieces(f, e)[k] = p
  <2>1. Pieces(f, e)[k] =
          [f |-> f, off |-> (e.lblk + (k - 1) * MaxBlk) * Block, disk |-> (e.pblk + (k - 1) * MaxBlk) * Block,
           n |-> Min({Min({e.len - (k - 1) * MaxBlk, MaxBlk}) * Block,
                      files[f].size - (e.lblk + (k - 1) * MaxBlk) * Block}),
           len |-> Min({e.len - (k - 1) * MaxBlk, MaxBlk}) * Block]
    BY DEF Pieces
  <2>2. Pieces(f, e)[k] = [f |-> f, off |-> (e.lblk + o) * Block, disk |-> (e.pblk + o) * Block,
                           n |-> Min({len, size - (e.lblk + o) * Block}), len |-> len]
    BY <1>1, <1>13, <1>17, <2>1
  <2> QED  BY <1>14, <1>18, <1>19, <2>2
<1>22. p \in Within(f, e)
  <2>1. p.f = f /\ p.off = B + A /\ p.disk = D + A /\ p.n = n /\ p.len = len
    BY <1>19
  <2>2. n \in Nat /\ len \in Nat
    BY <1>6, <1>18, Constants0
  <2>3. p \in P0
    BY <1>2, <1>6, <1>11, <1>19, <2>2 DEF P0
  <2>4. ASSUME NEW x \in 0..(n - 1)
        PROVE  p.off + x < size /\ Mapped(f, p.off + x, p.disk + x)
    <3>1. PICK a, d : a = p.off + x /\ d = p.disk + x
      OBVIOUS
    <3>2. a = B + A + x /\ d = D + A + x /\ x \in Nat /\ x < n
      BY <2>1, <2>2, <3>1
    <3>3. a \in Int /\ d \in Int /\ Begin(e) <= a /\ a < End(e) /\ a < size /\ d - Disk(e) = a - Begin(e)
      BY <1>3, <1>6, <1>8, <1>10, <1>11, <1>12, <2>2, <3>2
    <3>4. Mapped(f, a, d)
      BY <1>7, <3>3, MappedIs
    <3> QED  BY <3>1, <3>3, <3>4
  <2>5. p \in KeptOf(f)
    BY <1>1, <1>18, <2>1, <2>3, <2>4 DEF KeptOf
  <2>6. /\ Begin(e) <= p.off /\ p.off + p.n <= End(e)
        /\ Disk(e) <= p.disk /\ p.disk + p.len <= Disk(e) + e.len * Block
    BY <1>6, <1>8, <1>9, <1>10, <1>11, <1>12, <1>18, <2>1, <2>2
  <2>7. \E b \in Nat : p.disk = b * Block
    <3>1. e.pblk + o \in Nat /\ p.disk = (e.pblk + o) * Block
      BY <1>11, <1>14, <2>1
    <3> QED  BY <3>1
  <2> QED  BY <2>5, <2>6, <2>7 DEF Within
<1> QED  BY <1>20, <1>21, <1>22

(* Two pieces share no byte of a file and no byte of the disk.             *)
Separate ==
  {x \in Clear : x[1].disk + x[1].len <= x[2].disk \/ x[2].disk + x[2].len <= x[1].disk}

LEMMA PieceFields ==
  ASSUME NEW f, NEW e, NEW k
  PROVE  /\ Piece(f, e, k).f = f /\ Piece(f, e, k).off = Begin(e) + (k - 1) * BufSz
         /\ Piece(f, e, k).disk = Disk(e) + (k - 1) * BufSz
         /\ Piece(f, e, k).n = Cut(Inside(e, files[f].size), BufSz, k)
         /\ Piece(f, e, k).len = Cut(e.len * Block, BufSz, k)
BY DEF Piece

(* The pieces of an extent are its bytes inside the file, each once.       *)
LEMMA PiecesAre ==
  ASSUME IsVolume(files), NEW f \in File, NEW e \in ToSet(files[f].ext), e \in Extent0
  PROVE  /\ Pieces(f, e) \in Seq(Within(f, e))
         /\ Pairs(Pieces(f, e), Separate)
         /\ Weight(f, Pieces(f, e)) = Inside(e, files[f].size)
<1>1. PICK L \in Nat : L = Inside(e, files[f].size)
  BY VolumeIs, InsideIs
<1>2. PICK m \in Nat : m = CeilDiv(L, BufSz)
  BY Constants0, CeilDivNat
<1>3. PICK s : s = Pieces(f, e)
  OBVIOUS
<1>4. \A k \in 1..m : s[k] = Piece(f, e, k) /\ s[k] \in Within(f, e)
  BY <1>1, <1>2, <1>3, PieceIs
<1>5. DOMAIN s = 1..m /\ s = [k \in 1..m |-> s[k]]
  BY <1>1, <1>2, <1>3 DEF Pieces
<1>6. s \in Seq(Within(f, e)) /\ Len(s) = m
  BY <1>4, <1>5, IsASeq
<1>7. Pairs(s, Separate)
  <2> SUFFICES ASSUME NEW a \in 1..m, NEW b \in 1..m, a < b  PROVE <<s[a], s[b]>> \in Separate
    BY <1>6 DEF Pairs
  <2>1. PICK p, q : p = s[a] /\ q = s[b]
    OBVIOUS
  <2>2. p \in P0 /\ q \in P0
    BY <1>4, <2>1 DEF Within, KeptOf
  <2>3. PICK B \in Nat, D \in Nat : B = Begin(e) /\ D = Disk(e)
    BY ExtentIs
  <2>4. PICK i \in Nat, j \in Nat : i = (a - 1) * BufSz /\ j = (b - 1) * BufSz /\ i + BufSz <= j
    <3>1. a \in Nat \ {0} /\ b \in Nat
      OBVIOUS
    <3> QED  BY <3>1, Constants0, CutsApart
  <2>5. PICK z \in Nat : z = BufSz
    BY Constants0
  <2>6. p.off = B + i /\ p.disk = D + i /\ p.n = Cut(L, BufSz, a) /\ p.len = Cut(e.len * Block, BufSz, a)
    BY <1>1, <1>4, <2>1, <2>3, <2>4, PieceFields
  <2>7. q.off = B + j /\ q.disk = D + j
    BY <1>4, <2>1, <2>3, <2>4, PieceFields
  <2>8. p.n <= z
    <3>1. Cut(L, BufSz, a) \in 1..BufSz
      BY <1>2, Constants0, CutIs
    <3> QED  BY <2>5, <2>6, <3>1
  <2>9. p.len <= z
    <3>1. p.len \in 1..BufSz
      BY <1>4, <2>1 DEF Within, KeptOf
    <3> QED  BY <2>5, <3>1
  <2>10. p.n \in Nat /\ p.len \in Nat
    BY <2>2 DEF P0
  <2>11. p.off + p.n <= q.off /\ p.disk + p.len <= q.disk
    BY <2>4, <2>5, <2>6, <2>7, <2>8, <2>9, <2>10
  <2> QED  BY <2>1, <2>2, <2>11 DEF Separate, Clear
<1>8. Weight(f, s) = L
  <2>1. \A k \in 1..m : s[k].f = f /\ s[k].n = Cut(L, BufSz, k)
    BY <1>1, <1>4, PieceFields
  <2>2. Amounts(f, s) = [k \in 1..CeilDiv(L, BufSz) |-> Cut(L, BufSz, k)]
    BY <1>2, <1>5, <2>1 DEF Amounts
  <2> QED  BY <2>2, Constants0, CutsSum DEF Weight
<1> QED  BY <1>1, <1>3, <1>6, <1>7, <1>8

LEMMA WithinApart ==
  ASSUME IsVolume(files), NEW f \in File, NEW g \in File,
         NEW i \in 1..Len(files[f].ext), NEW j \in 1..Len(files[g].ext), f # g \/ i < j,
         NEW p \in Within(f, files[f].ext[i]), NEW q \in Within(g, files[g].ext[j])
  PROVE  <<p, q>> \in Separate
<1>1. PICK d \in Extent0, e \in Extent0 : d = files[f].ext[i] /\ e = files[g].ext[j]
  BY VolumeIs
<1>2. Disk(d) + d.len * Block <= Disk(e) \/ Disk(e) + e.len * Block <= Disk(d)
  <2>1. f # g \/ i # j
    OBVIOUS
  <2> QED  BY <1>1, <2>1, ExtentsApart
<1>3. p \in P0 /\ q \in P0 /\ p.f = f /\ q.f = g
  BY DEF Within, KeptOf
<1>4. /\ p.off + p.n <= End(d) /\ Disk(d) <= p.disk /\ p.disk + p.len <= Disk(d) + d.len * Block
      /\ Begin(e) <= q.off /\ Disk(e) <= q.disk /\ q.disk + q.len <= Disk(e) + e.len * Block
  BY <1>1 DEF Within
<1>5. /\ p.off \in Nat /\ p.n \in Nat /\ p.disk \in Nat /\ p.len \in Nat
      /\ q.off \in Nat /\ q.n \in Nat /\ q.disk \in Nat /\ q.len \in Nat
  BY <1>3 DEF P0
<1>6. /\ Disk(d) \in Nat /\ d.len * Block \in Nat /\ Disk(e) \in Nat /\ e.len * Block \in Nat
      /\ End(d) \in Nat /\ Begin(e) \in Nat
  BY ExtentIs
<1>7. p.disk + p.len <= q.disk \/ q.disk + q.len <= p.disk
  <2>1. PICK a \in Nat : a = Disk(d)
    BY <1>6
  <2>2. PICK b \in Nat : b = d.len * Block
    BY <1>6
  <2>3. PICK x \in Nat : x = Disk(e)
    BY <1>6
  <2>4. PICK y \in Nat : y = e.len * Block
    BY <1>6
  <2>5. (a + b <= x \/ x + y <= a) /\ a <= p.disk /\ p.disk + p.len <= a + b
        /\ x <= q.disk /\ q.disk + q.len <= x + y
    BY <1>2, <1>4, <2>1, <2>2, <2>3, <2>4
  <2>6. PICK c \in Nat, l \in Nat : c = p.disk /\ l = p.len
    BY <1>5
  <2>7. PICK z \in Nat, m \in Nat : z = q.disk /\ m = q.len
    BY <1>5
  <2>8. a + b <= x \/ x + y <= a
    BY <2>5
  <2>9. a <= c /\ c + l <= a + b /\ x <= z /\ z + m <= x + y
    BY <2>5, <2>6, <2>7
  <2>10. c + l <= z \/ z + m <= c
    BY <2>8, <2>9
  <2> QED  BY <2>6, <2>7, <2>10
<1>8. <<p, q>> \in Clear
  <2>1. CASE f # g
    BY <1>3, <2>1 DEF Clear
  <2>2. CASE f = g /\ i < j
    <3>1. End(d) <= Begin(e)
      BY <1>1, <2>2, ExtentsInOrder
    <3>2. p.off + p.n <= q.off
      <4>1. PICK a \in Nat : a = End(d)
        BY <1>6
      <4>2. PICK b \in Nat : b = Begin(e)
        BY <1>6
      <4> QED  BY <1>4, <1>5, <3>1, <4>1, <4>2
    <3> QED  BY <1>3, <3>2 DEF Clear
  <2> QED  BY <2>1, <2>2
<1> QED  BY <1>7, <1>8 DEF Separate

(* The pieces of a file.                                                   *)
WithinFile(f) == UNION {Within(f, files[f].ext[i]) : i \in 1..Len(files[f].ext)}
FilePieces(f) == FlattenSeq([k \in DOMAIN files[f].ext |-> Pieces(f, files[f].ext[k])])

LEMMA FilePiecesAre ==
  ASSUME IsVolume(files), NEW f \in File
  PROVE  /\ FilePieces(f) \in Seq(WithinFile(f))
         /\ Pairs(FilePieces(f), Separate)
         /\ Weight(f, FilePieces(f)) = DataBytes(files[f])
<1>1. PICK n \in Nat : n = Len(files[f].ext) /\ DOMAIN files[f].ext = 1..n
  BY VolumeIs
<1>2. PICK X : X = WithinFile(f)
  OBVIOUS
<1>3. PICK ss : ss = [k \in 1..n |-> Pieces(f, files[f].ext[k])]
  OBVIOUS
<1>4. ASSUME NEW k \in 1..n
      PROVE  /\ ss[k] \in Seq(Within(f, files[f].ext[k])) /\ Pairs(ss[k], Separate)
             /\ Weight(f, ss[k]) = Inside(files[f].ext[k], files[f].size)
             /\ Within(f, files[f].ext[k]) \subseteq X
  <2>1. files[f].ext[k] \in Extent0 /\ files[f].ext[k] \in ToSet(files[f].ext)
    BY <1>1, VolumeIs DEF ToSet
  <2>2. ss[k] = Pieces(f, files[f].ext[k])
    BY <1>3
  <2>3. Within(f, files[f].ext[k]) \subseteq X
    BY <1>1, <1>2 DEF WithinFile
  <2> QED  BY <2>1, <2>2, <2>3, PiecesAre
<1>5. ss \in Seq(Seq(X)) /\ Len(ss) = n
  <2>1. \A k \in 1..n : ss[k] \in Seq(X)
    BY <1>4, SeqMonotonic
  <2> QED  BY <1>3, <2>1, IsASeq
<1>6. FilePieces(f) = FlattenSeq(ss)
  BY <1>1, <1>3 DEF FilePieces
<1>7. Pairs(FlattenSeq(ss), Separate)
  <2>1. ASSUME NEW i \in 1..n, NEW j \in 1..n, i < j  PROVE Across(ss[i], ss[j], Separate)
    <3>1. \A p \in Within(f, files[f].ext[i]), q \in Within(f, files[f].ext[j]) : <<p, q>> \in Separate
      BY <1>1, <2>1, WithinApart
    <3>2. ss[i] \in Seq(Within(f, files[f].ext[i])) /\ ss[j] \in Seq(Within(f, files[f].ext[j]))
      BY <1>4
    <3> QED  BY <3>1, <3>2, AcrossSets
  <2> QED  BY <1>4, <1>5, <2>1, FlattenPairs
<1>8. Weight(f, FlattenSeq(ss)) = DataBytes(files[f])
  <2>1. files[f].ext \in Seq(Extent0) /\ files[f].size \in Nat
    BY VolumeIs
  <2>2. PICK w : w = InsideOf(files[f].ext, files[f].size)
    OBVIOUS
  <2>3. w \in Seq(Nat) /\ Len(w) = n /\ \A k \in 1..n : w[k] = Inside(files[f].ext[k], files[f].size)
    BY <1>1, <2>1, <2>2, InsideOfIs
  <2>4. \A k \in 1..n : w[k] = Weight(f, ss[k])
    BY <1>4, <2>3
  <2>5. Weighed(X)
    BY <1>2 DEF WithinFile, Within, KeptOf, Weighed, P0
  <2>6. Weight(f, FlattenSeq(ss)) = SumOf(w)
    BY <1>5, <2>3, <2>4, <2>5, WeightFlatten
  <2> QED  BY <2>2, <2>6, DataBytesIs
<1> QED  BY <1>2, <1>5, <1>6, <1>7, <1>8, FlattenIsSeq

(* A sum of which one number counts.                                       *)
LEMMA SumOfOne ==
  ASSUME NEW n \in Nat, NEW q \in 1..n, NEW v \in Nat, NEW w \in Seq(Nat), Len(w) = n,
         \A k \in 1..n : w[k] = IF k = q THEN v ELSE 0
  PROVE  SumOf(w) = v
<1> DEFINE f == [k \in 0..n |-> IF k < q THEN 0 ELSE v]
<1>1. f \in [0..n -> Nat] /\ f[0] = 0 /\ f[n] = v
  OBVIOUS
<1>2. ASSUME NEW k \in 1..n  PROVE f[k] = f[k - 1] + w[k]
  <2>1. k \in 0..n /\ k - 1 \in 0..n
    OBVIOUS
  <2>2. f[k] = (IF k < q THEN 0 ELSE v) /\ f[k - 1] = (IF k - 1 < q THEN 0 ELSE v)
    BY <2>1
  <2> HIDE DEF f
  <2> QED  BY <2>2
<1> HIDE DEF f
<1>3. Sums(f, w, n)
  BY <1>1, <1>2 DEF Sums
<1> QED  BY <1>1, <1>3, SumOnly

(* run_rawsort plans the bytes of every extent inside its file, each once. *)
Planned == UNION {WithinFile(f) : f \in File}

LEMMA AllPiecesAre ==
  ASSUME IsVolume(files)
  PROVE  /\ AllPieces \in Seq(Planned)
         /\ Pairs(AllPieces, Separate)
         /\ \A f \in File : Weight(f, AllPieces) = DataBytes(files[f])
<1>1. PICK n \in Nat : n = Len(files) /\ File = 1..n
  BY LenProperties DEF IsVolume, File
<1>2. PICK ss : ss = [f \in 1..n |-> FilePieces(f)]
  OBVIOUS
<1>3. ASSUME NEW f \in 1..n
      PROVE  /\ ss[f] \in Seq(WithinFile(f)) /\ Pairs(ss[f], Separate)
             /\ Weight(f, ss[f]) = DataBytes(files[f]) /\ WithinFile(f) \subseteq Planned
             /\ \A p \in WithinFile(f) : p.f = f
  <2>1. ss[f] = FilePieces(f) /\ f \in File
    BY <1>1, <1>2
  <2>2. WithinFile(f) \subseteq Planned
    BY <2>1 DEF Planned
  <2>3. \A p \in WithinFile(f) : p.f = f
    BY DEF WithinFile, Within, KeptOf
  <2> QED  BY <2>1, <2>2, <2>3, FilePiecesAre
<1>4. ss \in Seq(Seq(Planned)) /\ Len(ss) = n
  <2>1. \A k \in 1..n : ss[k] \in Seq(Planned)
    BY <1>3, SeqMonotonic
  <2> QED  BY <1>2, <2>1, IsASeq
<1>5. AllPieces = FlattenSeq(ss)
  BY <1>1, <1>2 DEF AllPieces, FilePieces
<1>6. Pairs(FlattenSeq(ss), Separate)
  <2>1. ASSUME NEW f \in 1..n, NEW g \in 1..n, f < g  PROVE Across(ss[f], ss[g], Separate)
    <3>1. ASSUME NEW p \in WithinFile(f), NEW q \in WithinFile(g)  PROVE <<p, q>> \in Separate
      <4>1. f \in File /\ g \in File /\ f # g
        BY <1>1, <2>1
      <4>2. PICK i \in 1..Len(files[f].ext) : p \in Within(f, files[f].ext[i])
        BY DEF WithinFile
      <4>3. PICK j \in 1..Len(files[g].ext) : q \in Within(g, files[g].ext[j])
        BY DEF WithinFile
      <4> QED  BY <4>1, <4>2, <4>3, WithinApart
    <3>2. ss[f] \in Seq(WithinFile(f)) /\ ss[g] \in Seq(WithinFile(g))
      BY <1>3
    <3> QED  BY <3>1, <3>2, AcrossSets
  <2> QED  BY <1>3, <1>4, <2>1, FlattenPairs
<1>7. ASSUME NEW f \in File  PROVE Weight(f, FlattenSeq(ss)) = DataBytes(files[f])
  <2>1. PICK v \in Nat : v = DataBytes(files[f])
    BY DataBytesIs
  <2>2. PICK w : w = [k \in 1..n |-> IF k = f THEN v ELSE 0]
    OBVIOUS
  <2>3. w \in Seq(Nat) /\ Len(w) = n /\ \A k \in 1..n : w[k] = IF k = f THEN v ELSE 0
    BY <2>2
  <2>4. ASSUME NEW k \in 1..n  PROVE w[k] = Weight(f, ss[k])
    <3>1. CASE k = f
      BY <1>3, <2>1, <2>3, <3>1
    <3>2. CASE k # f
      <4>1. \A p \in WithinFile(k) : p.f # f
        BY <1>3, <3>2
      <4>2. Weight(f, ss[k]) = 0
        BY <1>3, <4>1, WeightNone
      <4> QED  BY <2>3, <3>2, <4>2
    <3> QED  BY <3>1, <3>2
  <2>5. Weighed(Planned)
    BY DEF Planned, WithinFile, Within, KeptOf, Weighed, P0
  <2>6. Weight(f, FlattenSeq(ss)) = SumOf(w)
    BY <1>4, <2>3, <2>4, <2>5, WeightFlatten
  <2>7. SumOf(w) = v
    BY <1>1, <2>3, SumOfOne
  <2> QED  BY <2>1, <2>6, <2>7
<1> QED  BY <1>4, <1>5, <1>6, <1>7, FlattenIsSeq

(* In the order of the disk, without overlap.                              *)
InOrder == {x \in Clear : x[1].disk + x[1].len <= x[2].disk}

LEMMA PlannedIs ==
  ASSUME NEW p \in Planned
  PROVE  /\ p \in P0 /\ p.f \in File /\ p \in KeptOf(p.f) /\ p.len \in 1..BufSz
         /\ p.disk \in Nat /\ p.len \in Nat /\ p.n \in Nat /\ \E b \in Nat : p.disk = b * Block
<1>1. PICK f \in File : p \in WithinFile(f)
  BY DEF Planned
<1>2. PICK i \in 1..Len(files[f].ext) : p \in Within(f, files[f].ext[i])
  BY <1>1 DEF WithinFile
<1>3. p \in KeptOf(f) /\ \E b \in Nat : p.disk = b * Block
  BY <1>2 DEF Within
<1>4. p \in P0 /\ p.f = f /\ p.len \in 1..BufSz
  BY <1>3 DEF KeptOf
<1> QED  BY <1>3, <1>4 DEF P0

LEMMA QuotientOf ==
  ASSUME NEW b \in Nat, NEW c \in Nat \ {0}  PROVE (b * c) \div c = b
<1>a. PICK a \in Nat : a = b * c
  OBVIOUS
<1>b. /\ a \div c \in Nat /\ a % c \in 0..(c - 1)
      /\ a = c * (a \div c) + (a % c)
  BY DivMod
<1>c. PICK q \in Nat : q = a \div c
  BY <1>b
<1>d. PICK r \in 0..(c - 1) : r = a % c
  BY <1>b
<1>1. a = b * c /\ q = a \div c /\ a = c * q + r /\ r \in Nat /\ r < c
  BY <1>a, <1>b, <1>c, <1>d
<1>2. c * b = c * q + r
  BY <1>1
<1>3. c * q \in Nat /\ c * b \in Nat /\ c * (q + 1) = c * q + c /\ c * (b + 1) = c * b + c
  OBVIOUS
<1>4. CASE b < q
  <2>1. c * (b + 1) <= c * q
    BY <1>4, TimesMono
  <2> QED  BY <1>1, <1>2, <1>3, <2>1
<1>5. CASE q < b
  <2>1. c * (q + 1) <= c * b
    BY <1>5, TimesMono
  <2> QED  BY <1>1, <1>2, <1>3, <2>1
<1> QED  BY <1>1, <1>4, <1>5

(* The sort puts the pieces in the order of the disk.                      *)
LEMMA SortedPiecesAre ==
  ASSUME IsVolume(files)
  PROVE  /\ SortedPieces \in Seq(Planned)
         /\ Pairs(SortedPieces, InOrder)
         /\ \A f \in File : Weight(f, SortedPieces) = DataBytes(files[f])
<1>1. PICK a : a = AllPieces
  OBVIOUS
<1>2. /\ a \in Seq(Planned) /\ Pairs(a, Separate) /\ \A f \in File : Weight(f, a) = DataBytes(files[f])
  BY <1>1, AllPiecesAre
<1>3. PICK X : X = ToSet(a)
  OBVIOUS
<1>4. X \subseteq Planned /\ a \in Seq(X)
  <2>1. PICK n \in Nat : n = Len(a) /\ DOMAIN a = 1..n /\ \A k \in 1..n : a[k] \in Planned
    BY <1>2, LenProperties, ElementOfSeq
  <2>2. X = {a[k] : k \in 1..n}
    BY <1>3, <2>1 DEF ToSet
  <2>3. a = [k \in 1..n |-> a[k]]
    BY <1>2, <2>1
  <2>4. \A k \in 1..n : a[k] \in X
    BY <2>2
  <2>5. X \subseteq Planned
    BY <2>1, <2>2
  <2>6. a \in Seq(X)
    BY <2>3, <2>4, IsASeq
  <2> QED  BY <2>5, <2>6
<1>5. PICK key : key = [p \in X |-> p.disk \div Block]
  OBVIOUS
<1>6. ASSUME NEW p \in X  PROVE key[p] \in Nat /\ p.disk = key[p] * Block
  <2>1. PICK b \in Nat : p.disk = b * Block
    BY <1>4, PlannedIs
  <2>2. (b * Block) \div Block = b
    BY Constants0, QuotientOf
  <2>3. key[p] = b
    BY <1>5, <2>1, <2>2
  <2> QED  BY <2>1, <2>3
<1>7. key \in [X -> Nat]
  BY <1>5, <1>6
<1>8. PICK out : out = SortedPieces
  OBVIOUS
<1>9. out \in Seq(X) /\ IsSortOf(out, a, key)
  <2>1. out = RadixSorted(a, key)
    BY <1>1, <1>3, <1>5, <1>8 DEF SortedPieces
  <2> QED  BY <1>4, <1>7, <2>1, RadixSortedIs
<1>10. Weighed(X)
  BY <1>4, PlannedIs DEF Weighed
<1>11. \A f \in File : Weight(f, out) = DataBytes(files[f])
  BY <1>2, <1>4, <1>7, <1>9, <1>10, WeightSorted
<1>12. Pairs(out, Separate)
  <2>1. \A x, y : <<x, y>> \in Separate => <<y, x>> \in Separate
    BY DEF Separate, Clear
  <2> QED  BY <1>2, <1>4, <1>7, <1>9, <2>1, PairsSorted
<1>13. PICK n \in Nat : n = Len(a) /\ n = Len(out)
  BY <1>4, <1>9, LenProperties DEF IsSortOf, SortedTo
<1>14. ASSUME NEW x \in 1..n, NEW y \in 1..n, x < y  PROVE <<out[x], out[y]>> \in InOrder
  <2>1. PICK p \in X, q \in X : p = out[x] /\ q = out[y]
    BY <1>9, <1>13, ElementOfSeq
  <2>2. <<p, q>> \in Separate
    BY <1>12, <1>13, <1>14, <2>1 DEF Pairs
  <2>3. key[p] <= key[q]
    BY <1>4, <1>7, <1>9, <1>13, <1>14, <2>1, SortIsSorted
  <2>4. key[p] * Block <= key[q] * Block
    BY <1>6, <2>3, BlocksMono
  <2>5. p.disk <= q.disk
    BY <1>6, <2>4
  <2>6. q.len >= 1 /\ q.len \in Nat /\ p.disk \in Nat /\ q.disk \in Nat
    BY <1>4, Constants0, PlannedIs
  <2>7. p.disk + p.len <= q.disk
    <3>1. p.disk + p.len <= q.disk \/ q.disk + q.len <= p.disk
      BY <2>2 DEF Separate
    <3> QED  BY <2>5, <2>6, <3>1
  <2> QED  BY <2>1, <2>2, <2>7 DEF Separate, InOrder
<1>15. Pairs(out, InOrder)
  BY <1>13, <1>14 DEF Pairs
<1>16. out \in Seq(Planned)
  BY <1>4, <1>9, SeqMonotonic
<1> QED  BY <1>8, <1>11, <1>15, <1>16

-----------------------------------------------------------------------------
(* The pieces that are read from where their files keep them.              *)
Kept == {p \in P0 : p.f \in File /\ p \in KeptOf(p.f)}

LEMMA KeptIs ==
  ASSUME NEW p \in Kept
  PROVE  /\ p \in P0 /\ p.f \in File /\ p \in KeptOf(p.f) /\ p.len \in 1..BufSz
         /\ p.disk \in Nat /\ p.len \in Nat /\ p.n \in Nat
BY DEF Kept, KeptOf, P0

LEMMA PlannedIsKept == Planned \subseteq Kept
BY PlannedIs DEF Kept

(* What a read of the pieces ps takes.                                     *)
Lengths(ps) == [k \in DOMAIN ps |-> ps[k].len]

LEMMA LensAre ==
  ASSUME NEW ps \in Seq(Kept)
  PROVE  Lengths(ps) \in Seq(Nat) /\ ReadLen(ps) = SumOf(Lengths(ps)) /\ ReadLen(ps) \in Nat
<1>1. PICK n \in Nat : n = Len(ps) /\ DOMAIN ps = 1..n
  BY LenProperties
<1>2. \A k \in 1..n : ps[k].len \in Nat
  BY <1>1, ElementOfSeq, KeptIs
<1>3. Lengths(ps) \in Seq(Nat)
  BY <1>1, <1>2, IsASeq DEF Lengths
<1>4. ReadLen(ps) = SumOf(Lengths(ps))
  BY DEF ReadLen, Lengths
<1> QED  BY <1>3, <1>4, SumIsNat

LEMMA ReadLenAppend ==
  ASSUME NEW ps \in Seq(Kept), NEW p \in Kept
  PROVE  ReadLen(Append(ps, p)) = ReadLen(ps) + p.len
<1>1. PICK n \in Nat : n = Len(ps) /\ DOMAIN ps = 1..n
  BY LenProperties
<1>2. PICK qs : qs = Append(ps, p)
  OBVIOUS
<1>3. /\ qs \in Seq(Kept) /\ Len(qs) = n + 1 /\ qs[n + 1] = p /\ \A k \in 1..n : qs[k] = ps[k]
  BY <1>1, <1>2, AppendProperties
<1>4. Lengths(qs) = Append(Lengths(ps), p.len)
  <2>1. Lengths(ps) \in Seq(Nat) /\ Lengths(qs) \in Seq(Nat) /\ p.len \in Nat
    BY <1>3, LensAre, KeptIs
  <2>2. Len(Lengths(ps)) = n /\ (\A k \in 1..n : Lengths(ps)[k] = ps[k].len)
    BY <1>1, <2>1 DEF Lengths
  <2>3. DOMAIN qs = 1..(n + 1)
    BY <1>3, LenProperties
  <2>4. Len(Lengths(qs)) = n + 1 /\ (\A k \in 1..(n + 1) : Lengths(qs)[k] = qs[k].len)
    BY <2>1, <2>3 DEF Lengths
  <2>5. PICK t : t = Append(Lengths(ps), p.len)
    OBVIOUS
  <2>6. t \in Seq(Nat) /\ Len(t) = n + 1 /\ t[n + 1] = p.len /\ \A k \in 1..n : t[k] = Lengths(ps)[k]
    BY <2>1, <2>2, <2>5, AppendProperties
  <2>7. \A k \in 1..(n + 1) : k = n + 1 \/ k \in 1..n
    OBVIOUS
  <2>8. \A k \in 1..(n + 1) : t[k] = Lengths(qs)[k]
    BY <1>3, <2>2, <2>4, <2>6, <2>7
  <2> QED  BY <2>1, <2>4, <2>5, <2>6, <2>8, SeqEqual
<1>5. SumOf(Append(Lengths(ps), p.len)) = SumOf(Lengths(ps)) + p.len
  BY LensAre, KeptIs, SumAppend
<1> QED  BY <1>2, <1>3, <1>4, <1>5, LensAre

LEMMA ReadLenOne ==
  ASSUME NEW p \in Kept  PROVE <<p>> \in Seq(Kept) /\ ReadLen(<<p>>) = p.len
<1>1. <<>> \in Seq(Kept) /\ Append(<<>>, p) = <<p>>
  OBVIOUS
<1>2. ReadLen(<<>>) = 0
  <2>1. Lengths(<<>>) = <<>>
    BY DEF Lengths
  <2> QED  BY <1>1, <2>1, LensAre, SumEmpty
<1>3. ReadLen(<<p>>) = 0 + p.len
  BY <1>1, <1>2, ReadLenAppend
<1> QED  BY <1>3, KeptIs

(* Reads that go over the disk once, forwards, up to byte e of it, and fit *)
(* the buffer.                                                             *)
Stop(r) == r[1].disk + ReadLen(r)
Sweep(rs, e) ==
  /\ rs \in Seq(Seq(Kept))
  /\ \A i \in 1..Len(rs) : rs[i] # <<>> /\ ReadLen(rs[i]) \in 1..BufSz /\ Stop(rs[i]) <= e
  /\ \A i, j \in 1..Len(rs) : i < j => Stop(rs[i]) <= rs[j][1].disk

(* What the next piece makes of them. *)
Grown(rs, p) ==
  IF rs # <<>> /\ Joins(Last(rs), p)
  THEN Append(Front(rs), Append(Last(rs), p))
  ELSE Append(rs, <<p>>)

LEMMA ReadIs ==
  ASSUME NEW r \in Seq(Kept), r # <<>>
  PROVE  r[1] \in Kept /\ r[1].disk \in Nat /\ ReadLen(r) \in Nat /\ Stop(r) \in Nat
<1>1. Len(r) \in Nat \ {0}
  BY EmptySeq
<1>2. r[1] \in Kept
  BY <1>1, ElementOfSeq
<1>3. r[1].disk \in Nat /\ ReadLen(r) \in Nat
  BY <1>2, KeptIs, LensAre
<1> QED  BY <1>2, <1>3 DEF Stop

LEMMA SweepIs ==
  ASSUME NEW e \in Nat, NEW rs, Sweep(rs, e)
  PROVE  /\ rs \in Seq(Seq(Kept)) /\ Len(rs) \in Nat
         /\ \A i \in 1..Len(rs) :
              /\ rs[i] \in Seq(Kept) /\ rs[i] # <<>> /\ ReadLen(rs[i]) \in 1..BufSz
              /\ rs[i][1].disk \in Nat /\ Stop(rs[i]) \in Nat /\ Stop(rs[i]) <= e
<1>1. rs \in Seq(Seq(Kept)) /\ Len(rs) \in Nat /\ \A i \in 1..Len(rs) : rs[i] \in Seq(Kept)
  BY LenProperties, ElementOfSeq DEF Sweep
<1>2. \A i \in 1..Len(rs) : rs[i] # <<>> /\ ReadLen(rs[i]) \in 1..BufSz /\ Stop(rs[i]) <= e
  BY DEF Sweep
<1>3. \A i \in 1..Len(rs) : rs[i][1].disk \in Nat /\ Stop(rs[i]) \in Nat
  BY <1>1, <1>2, ReadIs
<1> QED  BY <1>1, <1>2, <1>3

LEMMA GrowNew ==
  ASSUME NEW e \in Nat, NEW rs, Sweep(rs, e), NEW p \in Kept, e <= p.disk,
         NEW t, t = Append(rs, <<p>>)
  PROVE  /\ Sweep(t, p.disk + p.len)
         /\ FlattenSeq(t) = Append(FlattenSeq(rs), p)
<1>1. PICK n \in Nat : n = Len(rs)
  BY SweepIs
<1>2. PICK d \in Nat, l \in Nat : d = p.disk /\ l = p.len /\ l \in 1..BufSz
  BY KeptIs
<1>3. <<p>> \in Seq(Kept) /\ ReadLen(<<p>>) = l /\ <<p>>[1] = p /\ <<p>> # <<>>
  BY <1>2, ReadLenOne
<1>4. /\ t \in Seq(Seq(Kept)) /\ Len(t) = n + 1 /\ t[n + 1] = <<p>>
      /\ \A i \in 1..n : t[i] = rs[i]
  BY <1>1, <1>3, SweepIs, AppendProperties
<1>5. Stop(t[n + 1]) = d + l /\ t[n + 1][1].disk = d
  BY <1>2, <1>3, <1>4 DEF Stop
<1>6. \A i \in 1..(n + 1) : i \in 1..n \/ i = n + 1
  OBVIOUS
<1>7. ASSUME NEW i \in 1..(n + 1)
      PROVE  t[i] # <<>> /\ ReadLen(t[i]) \in 1..BufSz /\ Stop(t[i]) <= d + l
  <2>1. CASE i \in 1..n
    <3>1. /\ rs[i] # <<>> /\ ReadLen(rs[i]) \in 1..BufSz
          /\ Stop(rs[i]) \in Nat /\ Stop(rs[i]) <= e
      BY <1>1, <2>1, SweepIs
    <3>2. Stop(rs[i]) <= d + l
      <4>1. PICK x \in Nat : x = Stop(rs[i])
        BY <3>1
      <4> QED  BY <1>2, <3>1, <4>1
    <3> QED  BY <1>4, <2>1, <3>1, <3>2
  <2>2. CASE i = n + 1
    BY <1>2, <1>3, <1>4, <1>5, <2>2
  <2> QED  BY <1>6, <2>1, <2>2
<1>8. ASSUME NEW i \in 1..(n + 1), NEW j \in 1..(n + 1), i < j  PROVE Stop(t[i]) <= t[j][1].disk
  <2>1. i \in 1..n
    BY <1>8
  <2>2. t[i] = rs[i]
    BY <1>4, <2>1
  <2>3. CASE j \in 1..n
    <3>1. t[j] = rs[j]
      BY <1>4, <2>3
    <3>2. Stop(rs[i]) <= rs[j][1].disk
      BY <1>1, <1>8, <2>1, <2>3 DEF Sweep
    <3> QED  BY <2>2, <3>1, <3>2
  <2>4. CASE j = n + 1
    <3>1. PICK x \in Nat : x = Stop(rs[i]) /\ x <= e
      BY <1>1, <2>1, SweepIs
    <3>2. x <= d
      BY <1>2, <3>1
    <3> QED  BY <1>5, <2>2, <2>4, <3>1, <3>2
  <2> QED  BY <1>6, <2>3, <2>4
<1>9. Sweep(t, d + l)
  BY <1>4, <1>7, <1>8 DEF Sweep
<1>10. FlattenSeq(t) = FlattenSeq(rs) \o <<p>>
  BY <1>3, SweepIs, FlattenAppend
<1>11. FlattenSeq(rs) \in Seq(Kept)
  BY SweepIs, FlattenIsSeq
<1> QED  BY <1>2, <1>9, <1>10, <1>11, AppendIsConcat

LEMMA GrowLast ==
  ASSUME NEW e \in Nat, NEW rs, Sweep(rs, e), NEW p \in Kept, e <= p.disk,
         rs # <<>>, Joins(Last(rs), p), NEW t, t = Append(Front(rs), Append(Last(rs), p))
  PROVE  /\ Sweep(t, p.disk + p.len)
         /\ FlattenSeq(t) = Append(FlattenSeq(rs), p)
<1>0. rs \in Seq(Seq(Kept))
  BY SweepIs
<1>1. PICK fs, r : fs = Front(rs) /\ r = Last(rs)
  OBVIOUS
<1>2. PICK m \in Nat : m + 1 = Len(rs)
  <2>1. Len(rs) \in Nat \ {0}
    BY <1>0, FrontAndLast
  <2>2. Len(rs) - 1 \in Nat /\ Len(rs) - 1 + 1 = Len(rs)
    BY <2>1
  <2> QED  BY <2>2
<1>3. /\ fs \in Seq(Seq(Kept)) /\ r \in Seq(Kept) /\ rs = Append(fs, r) /\ Len(fs) = m
      /\ \A i \in 1..m : fs[i] = rs[i]
  <2>1. /\ fs \in Seq(Seq(Kept)) /\ r \in Seq(Kept) /\ rs = Append(fs, r)
        /\ Len(fs) = Len(rs) - 1 /\ \A i \in 1..(Len(rs) - 1) : fs[i] = rs[i]
    BY <1>0, <1>1, FrontAndLast
  <2>2. Len(rs) - 1 = m
    BY <1>2
  <2> QED  BY <2>1, <2>2
<1>4. rs[m + 1] = r /\ m + 1 \in 1..(m + 1)
  BY <1>3, AppendProperties
<1>5. r # <<>> /\ ReadLen(r) \in Nat /\ r[1].disk \in Nat
  <2>1. m + 1 \in 1..Len(rs)
    BY <1>2, <1>4
  <2>2. rs[m + 1] # <<>>
    BY <2>1, SweepIs
  <2>3. r # <<>>
    BY <1>4, <2>2
  <2> QED  BY <1>3, <2>3, ReadIs
<1>6. PICK d \in Nat, l \in Nat : d = p.disk /\ l = p.len /\ l \in 1..BufSz
  BY KeptIs
<1>7. PICK q : q = Append(r, p)
  OBVIOUS
<1>8. q \in Seq(Kept) /\ q # <<>> /\ q[1] = r[1]
  <2>1. Len(r) \in Nat \ {0}
    BY <1>3, <1>5, EmptySeq
  <2>2. 1 \in 1..Len(r)
    BY <2>1
  <2>3. q \in Seq(Kept) /\ Len(q) = Len(r) + 1 /\ \A i \in 1..Len(r) : q[i] = r[i]
    BY <1>3, <1>7, AppendProperties
  <2>4. Len(q) # 0
    BY <2>1, <2>3
  <2> QED  BY <2>2, <2>3, <2>4, EmptySeq
<1>9. ReadLen(q) = ReadLen(r) + l /\ d = r[1].disk + ReadLen(r) /\ ReadLen(r) + l <= BufSz
  BY <1>1, <1>3, <1>6, <1>7, ReadLenAppend DEF Joins
<1>10. ReadLen(q) \in 1..BufSz /\ Stop(q) = d + l
  <2>1. PICK x \in Nat : x = ReadLen(r)
    BY <1>5
  <2>2. PICK y \in Nat : y = r[1].disk
    BY <1>5
  <2>3. PICK b \in Nat : b = BufSz
    BY Constants0
  <2>4. ReadLen(q) = x + l /\ d = y + x /\ x + l <= b /\ l \in 1..b
    BY <1>6, <1>9, <2>1, <2>2, <2>3
  <2>5. x + l \in 1..b
    BY <2>4
  <2>6. y + (x + l) = d + l
    BY <2>4
  <2>7. Stop(q) = y + (x + l)
    BY <1>8, <2>2, <2>4 DEF Stop
  <2> QED  BY <2>3, <2>4, <2>5, <2>6, <2>7
<1>11. /\ t \in Seq(Seq(Kept)) /\ Len(t) = m + 1 /\ t[m + 1] = q
       /\ \A i \in 1..m : t[i] = rs[i]
  <2>1. t = Append(fs, q)
    BY <1>1, <1>7
  <2>2. t \in Seq(Seq(Kept)) /\ Len(t) = m + 1 /\ t[m + 1] = q /\ \A i \in 1..m : t[i] = fs[i]
    <3>1. fs \in Seq(Seq(Kept)) /\ Len(fs) = m /\ q \in Seq(Kept)
      BY <1>3, <1>8
    <3> HIDE <1>0, <1>1, <1>2, <1>3
    <3> QED  BY <2>1, <3>1, AppendProperties
  <2> QED  BY <1>3, <2>2
<1>12. \A i \in 1..(m + 1) : i \in 1..m \/ i = m + 1
  OBVIOUS
<1>13. \A i \in 1..m : i \in 1..Len(rs)
  BY <1>2
<1>14. ASSUME NEW i \in 1..(m + 1)
       PROVE  t[i] # <<>> /\ ReadLen(t[i]) \in 1..BufSz /\ Stop(t[i]) <= d + l
  <2>1. CASE i \in 1..m
    <3>1. rs[i] # <<>> /\ ReadLen(rs[i]) \in 1..BufSz /\ Stop(rs[i]) \in Nat /\ Stop(rs[i]) <= e
      BY <1>13, <2>1, SweepIs
    <3>2. Stop(rs[i]) <= d + l
      <4>1. PICK x \in Nat : x = Stop(rs[i])
        BY <3>1
      <4> QED  BY <1>6, <3>1, <4>1
    <3> QED  BY <1>11, <2>1, <3>1, <3>2
  <2>2. CASE i = m + 1
    <3>1. t[i] = q
      BY <1>11, <2>2
    <3>2. d + l <= d + l
      OBVIOUS
    <3> QED  BY <1>8, <1>10, <3>1, <3>2
  <2> QED  BY <1>12, <2>1, <2>2
<1>15. ASSUME NEW i \in 1..(m + 1), NEW j \in 1..(m + 1), i < j  PROVE Stop(t[i]) <= t[j][1].disk
  <2>1. i \in 1..m
    BY <1>15
  <2>2. t[i] = rs[i]
    BY <1>11, <2>1
  <2>3. Stop(rs[i]) <= rs[j][1].disk
    BY <1>2, <1>15 DEF Sweep
  <2>4. t[j][1] = rs[j][1]
    BY <1>4, <1>8, <1>11, <1>12
  <2> QED  BY <2>2, <2>3, <2>4
<1>16. Sweep(t, d + l)
  BY <1>11, <1>14, <1>15 DEF Sweep
<1>17. FlattenSeq(t) = Append(FlattenSeq(rs), p)
  BY <1>0, FlattenLonger
<1> QED  BY <1>6, <1>16, <1>17

LEMMA GrownIs ==
  ASSUME NEW e \in Nat, NEW rs, Sweep(rs, e), NEW p \in Kept, e <= p.disk
  PROVE  /\ Sweep(Grown(rs, p), p.disk + p.len)
         /\ FlattenSeq(Grown(rs, p)) = Append(FlattenSeq(rs), p)
<1>1. CASE rs # <<>> /\ Joins(Last(rs), p)
  <2>1. Grown(rs, p) = Append(Front(rs), Append(Last(rs), p))
    BY <1>1 DEF Grown
  <2> QED  BY <1>1, <2>1, GrowLast
<1>2. CASE ~(rs # <<>> /\ Joins(Last(rs), p))
  <2>1. Grown(rs, p) = Append(rs, <<p>>)
    BY <1>2 DEF Grown
  <2> QED  BY <2>1, GrowNew
<1> QED  BY <1>1, <1>2

LEMMA GrownType ==
  ASSUME NEW rs \in Seq(Seq(Kept)), NEW p \in Kept
  PROVE  Grown(rs, p) \in Seq(Seq(Kept))
<1>1. <<p>> \in Seq(Kept)
  OBVIOUS
<1>2. Append(rs, <<p>>) \in Seq(Seq(Kept))
  BY <1>1, AppendProperties
<1>3. CASE rs # <<>>
  <2>1. Front(rs) \in Seq(Seq(Kept)) /\ Last(rs) \in Seq(Kept)
    BY <1>3, FrontAndLast
  <2>2. Append(Last(rs), p) \in Seq(Kept)
    BY <2>1, AppendProperties
  <2>3. Append(Front(rs), Append(Last(rs), p)) \in Seq(Seq(Kept))
    BY <2>1, <2>2, AppendProperties
  <2> QED  BY <1>2, <2>3 DEF Grown
<1>4. CASE rs = <<>>
  BY <1>2, <1>4 DEF Grown
<1> QED  BY <1>3, <1>4

(* runs[k] of Joined, for every k.                                         *)
LEMMA JoinedFrom ==
  ASSUME NEW ps \in Seq(Kept), NEW n \in Nat, n = Len(ps)
  PROVE  \E h : /\ Joined(ps) = h[n] /\ h[0] = <<>>
                /\ \A k \in 1..n : h[k] = Grown(h[k - 1], ps[k])
<1> DEFINE V == Seq(Seq(Kept))
           step == [vk \in V \X (1..n) |-> Grown(vk[1], ps[vk[2]])]
<1>1. \A k \in 1..n : ps[k] \in Kept
  BY ElementOfSeq
<1>2. step \in [V \X (1..n) -> V] /\ <<>> \in V
  <2>1. \A v \in V, k \in 1..n : Grown(v, ps[k]) \in V
    BY <1>1, GrownType
  <2> HIDE DEF V
  <2>2. \A vk \in V \X (1..n) : vk[1] \in V /\ vk[2] \in 1..n
    OBVIOUS
  <2>3. \A vk \in V \X (1..n) : Grown(vk[1], ps[vk[2]]) \in V
    BY <2>1, <2>2
  <2>4. <<>> \in V
    BY DEF V
  <2> QED  BY <2>3, <2>4
<1>3. \A v \in V, k \in 1..n : step[<<v, k>>] = Grown(v, ps[k])
  <2> HIDE DEF V
  <2> QED  OBVIOUS
<1>4. PICK g : Iterates(g, n, V, <<>>, step)
  <2> HIDE DEF V, step
  <2> QED  BY <1>2, IterationExists
<1>5. /\ g \in [0..n -> V] /\ g[0] = <<>>
      /\ \A k \in 1..n : g[k] = Grown(g[k - 1], ps[k])
  <2> HIDE DEF V, step
  <2>1. g \in [0..n -> V] /\ g[0] = <<>> /\ \A k \in 1..n : g[k] = step[<<g[k - 1], k>>]
    BY <1>4 DEF Iterates
  <2>2. ASSUME NEW k \in 1..n  PROVE g[k] = Grown(g[k - 1], ps[k])
    <3>1. g[k - 1] \in V
      BY <2>1
    <3> QED  BY <1>3, <2>1, <3>1
  <2> QED  BY <2>1, <2>2
<1> HIDE DEF step
<1> DEFINE Makes(h) == h = [k \in 0..n |-> IF k = 0 THEN <<>>
                                           ELSE LET r == h[k - 1] IN
                                                IF r # <<>> /\ Joins(Last(r), ps[k])
                                                THEN Append(Front(r), Append(Last(r), ps[k]))
                                                ELSE Append(r, <<ps[k]>>)]
<1>6. Makes(g)
  <2>1. ASSUME NEW k \in 0..n
        PROVE  g[k] = IF k = 0 THEN <<>> ELSE Grown(g[k - 1], ps[k])
    <3>1. CASE k = 0
      BY <1>5, <3>1
    <3>2. CASE k # 0
      <4>1. k \in 1..n
        BY <3>2
      <4> QED  BY <1>5, <3>2, <4>1
    <3> QED  BY <3>1, <3>2
  <2>2. g = [k \in 0..n |-> g[k]]
    BY <1>5
  <2>3. g = [k \in 0..n |-> IF k = 0 THEN <<>> ELSE Grown(g[k - 1], ps[k])]
    BY <2>1, <2>2
  <2> QED  BY <2>3 DEF Grown
<1> DEFINE runs == CHOOSE h : Makes(h)
<1>7. Makes(runs)
  <2> HIDE DEF Makes
  <2> QED  BY <1>6, Zenon
<1>8. Joined(ps) = runs[n]
  BY DEF Joined
<1> HIDE DEF runs
<1>9. runs = [k \in 0..n |-> IF k = 0 THEN <<>> ELSE Grown(runs[k - 1], ps[k])]
  BY <1>7 DEF Grown
<1> HIDE <1>7
<1> HIDE DEF Makes
<1>10. runs[0] = <<>> /\ \A k \in 1..n : runs[k] = Grown(runs[k - 1], ps[k])
  <2>1. 0 \in 0..n /\ \A k \in 1..n : k \in 0..n /\ k # 0
    OBVIOUS
  <2> QED  BY <1>9, <2>1
<1> QED  BY <1>8, <1>10

(* Joining the sorted pieces loses none and reorders none.                 *)
LEMMA JoinedIs ==
  ASSUME NEW ps \in Seq(Kept), Pairs(ps, InOrder)
  PROVE  /\ FlattenSeq(Joined(ps)) = ps
         /\ \E e \in Nat : Sweep(Joined(ps), e)
<1>1. PICK n \in Nat : n = Len(ps)
  BY LenProperties
<1>2. PICK h : /\ Joined(ps) = h[n] /\ h[0] = <<>>
               /\ \A k \in 1..n : h[k] = Grown(h[k - 1], ps[k])
  BY <1>1, JoinedFrom
<1> DEFINE Till(k) == IF k = 0 THEN 0 ELSE ps[k].disk + ps[k].len
           Claim(k) == Sweep(h[k], Till(k)) /\ FlattenSeq(h[k]) = SubSeq(ps, 1, k)
           P == {k \in 0..n : Claim(k)}
<1>3. ASSUME NEW k \in 1..n
      PROVE  ps[k] \in Kept /\ ps[k].disk \in Nat /\ ps[k].len \in Nat /\ ps[k] \in P0
  BY <1>1, ElementOfSeq, KeptIs
<1>4. \A k \in 0..n : Till(k) \in Nat
  <2>1. ASSUME NEW k \in 0..n, k # 0  PROVE ps[k].disk + ps[k].len \in Nat
    <3>1. k \in 1..n
      BY <2>1
    <3> QED  BY <1>3, <3>1
  <2> QED  BY <2>1
<1>5. 0 \in P
  <2>1. Sweep(<<>>, 0)
    <3>1. <<>> \in Seq(Seq(Kept)) /\ Len(<<>>) = 0
      OBVIOUS
    <3> QED  BY <3>1 DEF Sweep
  <2>2. SubSeq(ps, 1, 0) = <<>>
    <3>1. 0 \in 0..Len(ps)
      BY <1>1
    <3>2. SubSeq(ps, 1, 0) \in Seq(Kept) /\ Len(SubSeq(ps, 1, 0)) = 0
      BY <3>1, PrefixIs
    <3> QED  BY <3>2, EmptySeq
  <2>3. Till(0) = 0 /\ 0 \in 0..n
    OBVIOUS
  <2> HIDE DEF Till
  <2>4. Sweep(h[0], Till(0)) /\ FlattenSeq(h[0]) = SubSeq(ps, 1, 0)
    BY <1>2, <2>1, <2>2, <2>3, FlattenEmpty
  <2> QED  BY <2>3, <2>4
<1>6. ASSUME NEW k \in 1..n, k - 1 \in P  PROVE k \in P
  <2>1. PICK l \in 0..n : l = k - 1
    OBVIOUS
  <2>2. PICK rs : rs = h[l]
    OBVIOUS
  <2>3. PICK e \in Nat : e = Till(l)
    BY <1>4
  <2>4. Sweep(rs, e) /\ FlattenSeq(rs) = SubSeq(ps, 1, l)
    BY <1>6, <2>1, <2>2, <2>3
  <2>5. PICK p \in Kept : p = ps[k]
    BY <1>3
  <2>6. e <= p.disk
    <3>1. CASE l = 0
      BY <1>3, <2>3, <2>5, <3>1
    <3>2. CASE l # 0
      <4>1. l \in 1..Len(ps) /\ k \in 1..Len(ps) /\ l < k
        BY <1>1, <2>1, <3>2
      <4>2. <<ps[l], ps[k]>> \in InOrder
        BY <4>1 DEF Pairs
      <4>3. ps[l].disk + ps[l].len <= ps[k].disk
        BY <4>2 DEF InOrder
      <4> QED  BY <2>3, <2>5, <3>2, <4>3
    <3> QED  BY <3>1, <3>2
  <2>7. h[k] = Grown(rs, p)
    BY <1>2, <2>1, <2>2, <2>5
  <2>8. Sweep(h[k], p.disk + p.len) /\ FlattenSeq(h[k]) = Append(SubSeq(ps, 1, l), p)
    BY <2>4, <2>6, <2>7, GrownIs
  <2>9. SubSeq(ps, 1, k) = Append(SubSeq(ps, 1, l), p)
    BY <1>1, <2>1, <2>5, PrefixNext
  <2>10. Till(k) = p.disk + p.len
    BY <2>5
  <2>11. Claim(k) /\ k \in 0..n
    BY <2>8, <2>9, <2>10
  <2> HIDE DEF Claim
  <2> QED  BY <2>11
<1> HIDE DEF P
<1>7. \A k \in 0..n : k \in P
  BY <1>5, <1>6, StepByStep
<1>8. Claim(n)
  <2> HIDE DEF Claim
  <2>1. n \in P
    BY <1>7
  <2> QED  BY <2>1 DEF P
<1>9. SubSeq(ps, 1, n) = ps
  <2>1. n \in 0..Len(ps)
    BY <1>1
  <2>2. SubSeq(ps, 1, n) \in Seq(Kept) /\ Len(SubSeq(ps, 1, n)) = n
        /\ \A i \in 1..n : SubSeq(ps, 1, n)[i] = ps[i]
    BY <2>1, PrefixIs
  <2> QED  BY <1>1, <2>2, SeqEqual
<1>10. n \in 0..n /\ Till(n) \in Nat
  <2>1. n \in 0..n
    OBVIOUS
  <2> HIDE DEF Till
  <2> QED  BY <1>4, <2>1
<1> HIDE DEF Till
<1> QED  BY <1>2, <1>8, <1>9, <1>10

-----------------------------------------------------------------------------
(* The inductive invariant.  What is opened and what is next go together;  *)
Opened == {p \in Kept : need[p.f] # -1}
Whole == sent \o FlattenSeq(plan)

StageInv ==
  /\ method \in Method /\ dev \in Images /\ next \in Nat \ {0}
  /\ stage \in {"parse", "plan", "read", "died"}
  /\ stage = "plan" => method = "rawsort"
  /\ IsVolume(files) /\ need \in [File -> Nat \cup {-1}]
  /\ stage # "read" =>
       next = 1 /\ plan = <<>> /\ reads = <<>> /\ sent = <<>> /\ \A f \in File : need[f] = -1
  /\ stage = "read" => \A f \in File : need[f] # -1 <=> (method = "rawsort" \/ f < next)

(* what was delivered and what is planned are, together, the bytes that    *)
(* were promised of the files that are open, each once;                    *)
PieceInv ==
  /\ sent \in Seq(Opened) /\ plan \in Seq(Seq(Opened))
  /\ Pairs(Whole, Clear)
  /\ \A f \in File : Weight(f, Whole) = IF need[f] = -1 THEN 0 ELSE need[f]

(* and the reads that are planned come after those that were done.         *)
ReadInv ==
  /\ reads \in Seq([disk : Nat, len : 1..BufSz])
  /\ \A i \in 1..Len(plan) : plan[i] # <<>> /\ ReadLen(plan[i]) \in 1..BufSz
  /\ method = "rawsort" =>
       /\ \A i, j \in 1..Len(plan) : i < j => Stop(plan[i]) <= plan[j][1].disk
       /\ reads # <<>> /\ plan # <<>> =>
            Last(reads).disk + Last(reads).len <= plan[1][1].disk

PlanInv == StageInv /\ PieceInv /\ ReadInv

LEMMA EmptyVolume == IsVolume(<<>>)
<1>1. <<>> \in Seq([ino : Nat, size : Nat, ext : Seq(Extent0)]) /\ DOMAIN <<>> = {}
  OBVIOUS
<1> QED  BY <1>1 DEF IsVolume

(* Nothing is planned and nothing delivered.                               *)
LEMMA NothingYet ==
  ASSUME NEW O
  PROVE  /\ <<>> \in Seq(O) /\ <<>> \in Seq(Seq(O)) /\ <<>> \o FlattenSeq(<<>>) = <<>>
         /\ Pairs(<<>>, Clear) /\ \A f : Weight(f, <<>>) = 0
         /\ Len(<<>>) = 0
<1>1. <<>> \in Seq(O) /\ <<>> \in Seq(Seq(O)) /\ Len(<<>>) = 0 /\ <<>> \o <<>> = <<>>
  OBVIOUS
<1> QED  BY <1>1, FlattenEmpty, NoPairs, WeightEmpty

LEMMA InitPlanInv == Init => PlanInv
<1> SUFFICES ASSUME Init  PROVE PlanInv
  OBVIOUS
<1>1. /\ method \in Method /\ dev \in Images /\ files = <<>> /\ need = <<>> /\ plan = <<>>
      /\ reads = <<>> /\ sent = <<>> /\ next = 1 /\ stage = "parse"
  BY DEF Init
<1>2. File = {} /\ need \in [File -> Nat \cup {-1}]
  <2>1. File = {}
    BY <1>1 DEF File
  <2> QED  BY <1>1, <2>1
<1>3. StageInv
  BY <1>1, <1>2, EmptyVolume DEF StageInv
<1>4. PieceInv
  BY <1>1, <1>2, NothingYet DEF PieceInv, Whole
<1>5. ReadInv
  <2>1. <<>> \in Seq([disk : Nat, len : 1..BufSz]) /\ Len(<<>>) = 0
    OBVIOUS
  <2> QED  BY <1>1, <2>1 DEF ReadInv
<1> QED  BY <1>3, <1>4, <1>5 DEF PlanInv

LEMMA ParseStays == ASSUME PlanInv, Parse PROVE PlanInv'
<1>1. /\ method \in Method /\ dev \in Images /\ next \in Nat \ {0} /\ IsVolume(files)
      /\ need \in [File -> Nat \cup {-1}]
      /\ next = 1 /\ plan = <<>> /\ reads = <<>> /\ sent = <<>> /\ \A f \in File : need[f] = -1
  BY DEF PlanInv, StageInv, Parse
<1>2. /\ method' = method /\ dev' = dev /\ plan' = <<>> /\ reads' = <<>> /\ sent' = <<>> /\ next' = 1
  BY <1>1 DEF Parse
<1>3. /\ stage' \in {"plan", "read", "died"} /\ (stage' = "plan" => method = "rawsort")
      /\ (stage' = "read" => method # "rawsort")
      /\ IsVolume(files') /\ need' \in [DOMAIN files' -> Nat \cup {-1}]
      /\ \A f \in DOMAIN files' : need'[f] = -1
  <2>1. PICK p : p = Parsed(dev.image, method)
    OBVIOUS
  <2>2. CASE p.files = Died
    <3>1. stage' = "died" /\ files' = files /\ need' = need
      BY <2>1, <2>2 DEF Parse
    <3> QED  BY <1>1, <3>1 DEF File
  <2>3. CASE p.files # Died
    <3>1. /\ files' = p.files /\ need' = [f \in DOMAIN p.files |-> -1]
          /\ stage' = IF method = "rawsort" THEN "plan" ELSE "read"
      BY <2>1, <2>3 DEF Parse
    <3>2. IsVolume(p.files)
      BY <1>1, <2>1, <2>3, DiskPlanAssumption
    <3> QED  BY <3>1, <3>2
  <2> QED  BY <2>2, <2>3
<1>4. File' = DOMAIN files'
  BY DEF File
<1>5. StageInv'
  <2>1. stage' = "read" => \A f \in File' : need'[f] # -1 <=> (method' = "rawsort" \/ f < next')
    <3> SUFFICES ASSUME stage' = "read", NEW f \in File'  PROVE ~(f < 1)
      BY <1>2, <1>3, <1>4
    <3>1. f \in Nat \ {0}
      <4>1. PICK fs : fs = files'
        OBVIOUS
      <4>2. DOMAIN fs = 1..Len(fs)
        BY <1>3, <4>1, LenProperties DEF IsVolume
      <4> QED  BY <1>4, <4>1, <4>2
    <3> QED  BY <3>1
  <2>2. need' \in [File' -> Nat \cup {-1}] /\ \A f \in File' : need'[f] = -1
    BY <1>3, <1>4
  <2> QED  BY <1>1, <1>2, <1>3, <2>1, <2>2 DEF StageInv
<1>6. PieceInv'
  <2>1. PICK O : O = Opened'
    OBVIOUS
  <2>2. Whole' = <<>>
    BY <1>2, NothingYet DEF Whole
  <2>3. sent' \in Seq(O) /\ plan' \in Seq(Seq(O))
    BY <1>2, NothingYet
  <2>4. \A f \in File' : Weight(f, Whole') = IF need'[f] = -1 THEN 0 ELSE need'[f]
    BY <1>3, <1>4, <2>2, NothingYet
  <2> QED  BY <2>1, <2>2, <2>3, <2>4, NothingYet DEF PieceInv
<1>7. ReadInv'
  <2>1. <<>> \in Seq([disk : Nat, len : 1..BufSz]) /\ Len(<<>>) = 0
    OBVIOUS
  <2> QED  BY <1>2, <2>1 DEF ReadInv
<1> QED  BY <1>5, <1>6, <1>7 DEF PlanInv

(* What is kept where is a matter of the files.                            *)
LEMMA KeptStays == ASSUME UNCHANGED files PROVE Kept' = Kept /\ File' = File
<1>1. files' = files
  OBVIOUS
<1> QED  BY <1>1 DEF Kept, KeptOf, Mapped, File

LEMMA InvIs ==
  ASSUME PlanInv
  PROVE  /\ IsVolume(files) /\ need \in [File -> Nat \cup {-1}]
         /\ sent \in Seq(Opened) /\ plan \in Seq(Seq(Opened)) /\ FlattenSeq(plan) \in Seq(Opened)
         /\ Whole \in Seq(Opened) /\ Opened \subseteq Kept /\ Weighed(Kept) /\ Weighed(Opened)
<1>1. /\ IsVolume(files) /\ need \in [File -> Nat \cup {-1}]
      /\ sent \in Seq(Opened) /\ plan \in Seq(Seq(Opened))
  BY DEF PlanInv, StageInv, PieceInv
<1>2. FlattenSeq(plan) \in Seq(Opened)
  BY <1>1, FlattenIsSeq
<1>3. Opened \subseteq Kept
  BY DEF Opened
<1>4. Weighed(Kept)
  BY KeptIs DEF Weighed
<1> QED  BY <1>1, <1>2, <1>3, <1>4, ConcatProperties DEF Whole, Weighed

(* xfer_file: the next file is opened, and all of it planned.              *)
LEMMA XferFileStays == ASSUME PlanInv, XferFile PROVE PlanInv'
<1>1. /\ IsVolume(files) /\ need \in [File -> Nat \cup {-1}] /\ next \in File /\ next \in Nat \ {0}
      /\ stage = "read" /\ method # "rawsort" /\ plan = <<>>
      /\ \A f \in File : need[f] # -1 <=> (method = "rawsort" \/ f < next)
      /\ method \in Method /\ dev \in Images
  BY DEF PlanInv, StageInv, XferFile
<1>2. /\ need' = [need EXCEPT ![next] = DataBytes(files[next])]
      /\ plan' = [k \in DOMAIN XferPlan(next) |-> <<XferPlan(next)[k]>>]
      /\ next' = next + 1 /\ sent' = sent /\ files' = files /\ reads' = reads
      /\ stage' = stage /\ method' = method /\ dev' = dev
  BY DEF XferFile
<1>3. PICK v \in Nat : v = DataBytes(files[next])
  BY <1>1, DataBytesIs
<1>4. PICK s : s = XferPlan(next)
  OBVIOUS
<1>5. s \in Seq(KeptOf(next)) /\ Pairs(s, Clear) /\ Weight(next, s) = v
  BY <1>1, <1>3, <1>4, XferPlanIs
<1>6. need[next] = -1 /\ need' \in [File -> Nat \cup {-1}]
      /\ need'[next] = v /\ \A f \in File : f # next => need'[f] = need[f]
  <2>1. ~(next < next)
    BY <1>1
  <2>2. need[next] = -1
    BY <1>1, <2>1
  <2> QED  BY <1>1, <1>2, <1>3, <2>2
<1>7. Kept' = Kept /\ File' = File
  BY <1>2, KeptStays
<1>8. PICK O : O = Opened'
  OBVIOUS
<1>9. Opened \subseteq O /\ KeptOf(next) \subseteq O
  <2>1. O = {p \in Kept : need'[p.f] # -1}
    BY <1>7, <1>8 DEF Opened
  <2>2. ASSUME NEW p \in Opened  PROVE p \in O
    <3>1. p \in Kept /\ p.f \in File /\ need[p.f] # -1
      BY DEF Opened, Kept
    <3> QED  BY <1>6, <2>1, <3>1
  <2>3. ASSUME NEW p \in KeptOf(next)  PROVE p \in O
    <3>1. p \in Kept /\ p.f = next
      BY <1>1 DEF KeptOf, Kept
    <3>2. need'[next] # -1
      BY <1>3, <1>6
    <3> QED  BY <2>1, <3>1, <3>2
  <2> QED  BY <2>2, <2>3
<1>10. s \in Seq(O) /\ sent \in Seq(O) /\ sent \in Seq(Opened)
  BY <1>5, <1>9, InvIs, SeqMonotonic
<1>11. plan' \in Seq(Seq(O)) /\ FlattenSeq(plan') = s
  BY <1>2, <1>4, <1>10, FlattenSingles
<1>12. Whole = sent /\ Whole' = sent \o s
  <2>1. sent \o <<>> = sent
    BY <1>10, ConcatEmptySeq
  <2> QED  BY <1>1, <1>2, <1>11, <2>1, FlattenEmpty DEF Whole
<1>13. Pairs(sent, Clear) /\ \A f \in File : Weight(f, sent) = IF need[f] = -1 THEN 0 ELSE need[f]
  BY <1>12 DEF PlanInv, PieceInv
<1>14. Pairs(Whole', Clear)
  <2>1. ASSUME NEW x \in Opened, NEW y \in KeptOf(next)  PROVE <<x, y>> \in Clear
    <3>1. x \in P0 /\ need[x.f] # -1 /\ y \in P0 /\ y.f = next
      BY DEF Opened, Kept, KeptOf
    <3>2. x.f # y.f
      BY <1>6, <3>1
    <3> QED  BY <3>1, <3>2 DEF Clear
  <2>2. Across(sent, s, Clear)
    BY <1>5, <1>10, <2>1, AcrossSets
  <2> QED  BY <1>5, <1>10, <1>12, <1>13, <2>2, PairsConcat
<1>15. ASSUME NEW f \in File  PROVE Weight(f, Whole') = IF need'[f] = -1 THEN 0 ELSE need'[f]
  <2>1. Weighed(O)
    BY <1>7, <1>8, KeptIs DEF Opened, Weighed
  <2>2. Weight(f, sent \o s) = Weight(f, sent) + Weight(f, s)
    BY <1>10, <2>1, WeightConcat
  <2>3. CASE f = next
    <3>1. Weight(f, sent) = 0 /\ Weight(f, s) = v
      BY <1>5, <1>6, <1>13, <2>3
    <3>2. v # -1
      BY <1>3
    <3> QED  BY <1>3, <1>6, <1>12, <2>2, <2>3, <3>1, <3>2
  <2>4. CASE f # next
    <3>1. \A p \in KeptOf(next) : p.f # f
      BY <2>4 DEF KeptOf
    <3>2. Weight(f, s) = 0
      BY <1>5, <3>1, WeightNone
    <3>3. Weight(f, sent) = (IF need[f] = -1 THEN 0 ELSE need[f]) /\ need'[f] = need[f]
      BY <1>6, <1>13, <2>4
    <3>4. need[f] \in Nat \cup {-1}
      BY <1>1
    <3> QED  BY <1>12, <2>2, <3>2, <3>3, <3>4
  <2> QED  BY <2>3, <2>4
<1>16. PieceInv'
  <2>1. sent' \in Seq(Opened') /\ plan' \in Seq(Seq(Opened'))
    BY <1>2, <1>8, <1>10, <1>11
  <2> QED  BY <1>7, <1>14, <1>15, <2>1 DEF PieceInv
<1>17. StageInv'
  <2>1. \A f \in File : need'[f] # -1 <=> f < next + 1
    <3> SUFFICES ASSUME NEW f \in File  PROVE need'[f] # -1 <=> f < next + 1
      OBVIOUS
    <3>1. f \in Nat
      BY <1>1, VolumeIs
    <3>2. CASE f = next
      <4>1. v # -1 /\ f < next + 1
        BY <1>1, <1>3, <3>2
      <4> QED  BY <1>6, <3>2, <4>1
    <3>3. CASE f # next
      <4>1. need'[f] = need[f] /\ (need[f] # -1 <=> f < next)
        BY <1>1, <1>6, <3>3
      <4>2. f < next <=> f < next + 1
        BY <1>1, <3>1, <3>3
      <4> QED  BY <4>1, <4>2
    <3> QED  BY <3>2, <3>3
  <2>2. next + 1 \in Nat \ {0}
    BY <1>1
  <2> QED  BY <1>1, <1>2, <1>6, <1>7, <2>1, <2>2 DEF StageInv
<1>18. ReadInv'
  <2>1. PICK n \in Nat : n = Len(s) /\ DOMAIN s = 1..n
    BY <1>5, LenProperties
  <2>2. Len(plan') = n /\ \A i \in 1..n : plan'[i] = <<s[i]>>
    BY <1>2, <1>4, <2>1
  <2>3. ASSUME NEW i \in 1..n  PROVE plan'[i] # <<>> /\ ReadLen(plan'[i]) \in 1..BufSz
    <3>1. s[i] \in Kept
      <4>1. s[i] \in KeptOf(next)
        BY <1>5, <2>1, ElementOfSeq
      <4> QED  BY <1>1, <4>1 DEF Kept, KeptOf
    <3>2. ReadLen(<<s[i]>>) \in 1..BufSz
      BY <3>1, ReadLenOne, KeptIs
    <3> QED  BY <2>2, <3>2
  <2>4. reads \in Seq([disk : Nat, len : 1..BufSz])
    BY DEF PlanInv, ReadInv
  <2> QED  BY <1>1, <1>2, <2>2, <2>3, <2>4 DEF ReadInv
<1> QED  BY <1>16, <1>17, <1>18 DEF PlanInv

(* run_rawsort: every file is opened, and all of them planned.             *)
LEMMA SortPlanStays == ASSUME PlanInv, SortPlan PROVE PlanInv'
<1>1. /\ IsVolume(files) /\ need \in [File -> Nat \cup {-1}]
      /\ stage = "plan" /\ method = "rawsort" /\ plan = <<>> /\ sent = <<>> /\ reads = <<>>
      /\ next \in Nat \ {0} /\ method \in Method /\ dev \in Images
  BY DEF PlanInv, StageInv, SortPlan
<1>2. /\ need' = [f \in File |-> DataBytes(files[f])]
      /\ plan' = Joined(SortedPieces) /\ stage' = "read"
      /\ next' = next /\ sent' = sent /\ files' = files /\ reads' = reads
      /\ method' = method /\ dev' = dev
  BY DEF SortPlan
<1>3. Kept' = Kept /\ File' = File
  BY <1>2, KeptStays
<1>4. need' \in [File -> Nat \cup {-1}] /\ \A f \in File : need'[f] = DataBytes(files[f]) /\ need'[f] # -1
  <2>1. \A f \in File : DataBytes(files[f]) \in Nat /\ DataBytes(files[f]) # -1
    <3> SUFFICES ASSUME NEW f \in File  PROVE DataBytes(files[f]) \in Nat /\ DataBytes(files[f]) # -1
      OBVIOUS
    <3>1. PICK v \in Nat : v = DataBytes(files[f])
      BY <1>1, DataBytesIs
    <3> QED  BY <3>1
  <2> QED  BY <1>2, <2>1
<1>5. PICK s : s = SortedPieces
  OBVIOUS
<1>6. s \in Seq(Kept) /\ Pairs(s, InOrder) /\ \A f \in File : Weight(f, s) = DataBytes(files[f])
  <2>1. s \in Seq(Planned) /\ Pairs(s, InOrder) /\ \A f \in File : Weight(f, s) = DataBytes(files[f])
    BY <1>1, <1>5, SortedPiecesAre
  <2> QED  BY <2>1, PlannedIsKept, SeqMonotonic
<1>7. FlattenSeq(plan') = s
  BY <1>2, <1>5, <1>6, JoinedIs
<1>8. PICK e \in Nat : Sweep(plan', e)
  BY <1>2, <1>5, <1>6, JoinedIs
<1>9. Opened' = Kept
  <2>1. \A p \in Kept : need'[p.f] # -1
    BY <1>4, KeptIs
  <2> QED  BY <1>3, <2>1 DEF Opened
<1>10. sent' \in Seq(Kept) /\ plan' \in Seq(Seq(Kept)) /\ Whole' = s
  <2>1. sent' = <<>> /\ <<>> \in Seq(Kept) /\ <<>> \o s = s
    BY <1>1, <1>2, <1>6, ConcatEmptySeq
  <2> QED  BY <1>7, <1>8, <2>1 DEF Whole, Sweep
<1>11. Pairs(s, Clear)
  <2>1. \A x : x \in InOrder => x \in Clear
    BY DEF InOrder
  <2> QED  BY <1>6, <2>1 DEF Pairs
<1>12. PieceInv'
  <2>1. \A f \in File : Weight(f, s) = IF need'[f] = -1 THEN 0 ELSE need'[f]
    BY <1>4, <1>6
  <2> QED  BY <1>3, <1>9, <1>10, <1>11, <2>1 DEF PieceInv
<1>13. StageInv'
  BY <1>1, <1>2, <1>3, <1>4 DEF StageInv
<1>14. ReadInv'
  <2>1. reads' = <<>> /\ <<>> \in Seq([disk : Nat, len : 1..BufSz])
    BY <1>1, <1>2
  <2>2. \A i \in 1..Len(plan') : plan'[i] # <<>> /\ ReadLen(plan'[i]) \in 1..BufSz
    BY <1>8 DEF Sweep
  <2>3. \A i, j \in 1..Len(plan') : i < j => Stop(plan'[i]) <= plan'[j][1].disk
    BY <1>8 DEF Sweep
  <2> QED  BY <2>1, <2>2, <2>3 DEF ReadInv
<1> QED  BY <1>12, <1>13, <1>14 DEF PlanInv

(* The read at the head of the plan.                                       *)
LEMMA HeadIs ==
  ASSUME PlanInv, plan # <<>>
  PROVE  /\ Head(plan) \in Seq(Opened) /\ Head(plan) # <<>> /\ ReadLen(Head(plan)) \in 1..BufSz
         /\ Head(plan) = plan[1] /\ Head(plan)[1].disk \in Nat
         /\ Tail(plan) \in Seq(Seq(Opened)) /\ Len(plan) \in Nat /\ Len(Tail(plan)) = Len(plan) - 1
         /\ \A i \in 1..Len(Tail(plan)) : i + 1 \in 1..Len(plan) /\ Tail(plan)[i] = plan[i + 1]
<1>1. PICK n \in Nat : n = Len(plan) /\ n # 0
  BY InvIs, EmptySeq
<1>2. /\ Head(plan) \in Seq(Opened) /\ Tail(plan) \in Seq(Seq(Opened)) /\ Len(Tail(plan)) = n - 1
      /\ \A i \in 1..Len(Tail(plan)) : Tail(plan)[i] = plan[i + 1]
  BY <1>1, InvIs, HeadTailProperties
<1>3. Head(plan) = plan[1] /\ 1 \in 1..n
  BY <1>1
<1>4. Head(plan) # <<>> /\ ReadLen(Head(plan)) \in 1..BufSz
  BY <1>1, <1>3 DEF PlanInv, ReadInv
<1>5. Head(plan) \in Seq(Kept)
  BY <1>2, InvIs, SeqMonotonic
<1>6. Head(plan)[1].disk \in Nat
  BY <1>4, <1>5, ReadIs
<1>7. \A i \in 1..(n - 1) : i + 1 \in 1..n
  OBVIOUS
<1> QED  BY <1>1, <1>2, <1>3, <1>4, <1>6, <1>7

LEMMA LastAppended ==
  ASSUME NEW X, NEW s \in Seq(X), NEW x \in X
  PROVE  Append(s, x) \in Seq(X) /\ Append(s, x) # <<>> /\ Last(Append(s, x)) = x
<1>1. /\ Append(s, x) \in Seq(X) /\ Len(Append(s, x)) = Len(s) + 1 /\ Append(s, x)[Len(s) + 1] = x
      /\ Len(s) \in Nat
  BY AppendProperties, LenProperties
<1>2. Len(s) + 1 # 0
  BY <1>1
<1> QED  BY <1>1, <1>2, EmptySeq DEF Last

(* One read, and what is in it delivered.                                  *)
LEMMA ReadRunStays == ASSUME PlanInv, ReadRun PROVE PlanInv'
<1>1. PICK ps, rest : ps = Head(plan) /\ rest = Tail(plan)
  OBVIOUS
<1>2. PICK d, l : d = ps[1].disk /\ l = ReadLen(ps)
  OBVIOUS
<1>3. PICK x : x = [disk |-> d, len |-> l]
  OBVIOUS
<1>4. /\ plan # <<>> /\ plan' = rest /\ reads' = Append(reads, x) /\ sent' = sent \o ps
      /\ need' = need /\ next' = next /\ files' = files /\ stage' = stage
      /\ method' = method /\ dev' = dev
  BY <1>1, <1>2, <1>3 DEF ReadRun
<1>5. /\ ps \in Seq(Opened) /\ ps # <<>> /\ l \in 1..BufSz /\ ps = plan[1] /\ d \in Nat
      /\ rest \in Seq(Seq(Opened)) /\ Len(plan) \in Nat /\ Len(rest) = Len(plan) - 1
      /\ \A i \in 1..Len(rest) : i + 1 \in 1..Len(plan) /\ rest[i] = plan[i + 1]
  BY <1>1, <1>2, <1>4, HeadIs
<1>6. Kept' = Kept /\ File' = File /\ Opened' = Opened
  <2>1. Kept' = Kept /\ File' = File
    BY <1>4, KeptStays
  <2> QED  BY <1>4, <2>1 DEF Opened
<1>7. StageInv'
  <2>1. stage = "read"
    BY <1>4 DEF PlanInv, StageInv
  <2> QED  BY <1>4, <1>6, <2>1 DEF PlanInv, StageInv
<1>8. PieceInv'
  <2>1. FlattenSeq(plan) = ps \o FlattenSeq(rest)
    BY <1>1, <1>4, InvIs, FlattenHead
  <2>2. FlattenSeq(rest) \in Seq(Opened) /\ sent \in Seq(Opened)
    BY <1>5, InvIs, FlattenIsSeq
  <2>3. (sent \o ps) \o FlattenSeq(rest) = sent \o (ps \o FlattenSeq(rest))
    <3>1. PICK O, t : O = Opened /\ t = FlattenSeq(rest)
      OBVIOUS
    <3>2. sent \in Seq(O) /\ ps \in Seq(O) /\ t \in Seq(O)
      BY <1>5, <2>2, <3>1
    <3>3. sent \o (ps \o t) = (sent \o ps) \o t
      BY <3>2, ConcatAssociative
    <3> QED  BY <3>1, <3>3, Zenon
  <2>4. Whole' = Whole
    BY <1>4, <2>1, <2>3 DEF Whole
  <2>5. sent' \in Seq(Opened) /\ plan' \in Seq(Seq(Opened))
    BY <1>4, <1>5, <2>2, ConcatProperties
  <2>6. Pairs(Whole, Clear) /\ \A f \in File : Weight(f, Whole) = IF need[f] = -1 THEN 0 ELSE need[f]
    BY DEF PlanInv, PieceInv
  <2> QED  BY <1>4, <1>6, <2>4, <2>5, <2>6 DEF PieceInv
<1>9. x \in [disk : Nat, len : 1..BufSz] /\ x.disk = d /\ x.len = l
  BY <1>3, <1>5
<1>10. /\ reads' \in Seq([disk : Nat, len : 1..BufSz]) /\ Last(reads') = x
  <2>1. reads \in Seq([disk : Nat, len : 1..BufSz])
    BY DEF PlanInv, ReadInv
  <2> QED  BY <1>4, <1>9, <2>1, LastAppended
<1>11. \A i \in 1..Len(plan') : plan'[i] # <<>> /\ ReadLen(plan'[i]) \in 1..BufSz
  <2>1. \A i \in 1..Len(plan) : plan[i] # <<>> /\ ReadLen(plan[i]) \in 1..BufSz
    BY DEF PlanInv, ReadInv
  <2> QED  BY <1>4, <1>5, <2>1
<1>12. ASSUME method = "rawsort"
       PROVE  /\ \A i, j \in 1..Len(rest) : i < j => Stop(rest[i]) <= rest[j][1].disk
              /\ rest # <<>> => d + l <= rest[1][1].disk
  <2>1. \A i, j \in 1..Len(plan) : i < j => Stop(plan[i]) <= plan[j][1].disk
    BY <1>12 DEF PlanInv, ReadInv
  <2>2. ASSUME NEW i \in 1..Len(rest), NEW j \in 1..Len(rest), i < j  PROVE Stop(rest[i]) <= rest[j][1].disk
    <3>1. i + 1 \in 1..Len(plan) /\ j + 1 \in 1..Len(plan) /\ i + 1 < j + 1
      BY <1>5, <2>2
    <3> QED  BY <1>5, <2>1, <3>1
  <2>3. ASSUME rest # <<>>  PROVE d + l <= rest[1][1].disk
    <3>1. Len(rest) \in Nat \ {0}
      BY <1>5, <2>3, EmptySeq
    <3>2. 1 \in 1..Len(rest) /\ 1 \in 1..Len(plan)
      BY <1>5, <3>1
    <3>3. rest[1] = plan[1 + 1] /\ 1 + 1 \in 1..Len(plan)
      BY <1>5, <3>2
    <3>4. Stop(plan[1]) <= plan[1 + 1][1].disk
      BY <2>1, <3>2, <3>3
    <3>5. Stop(plan[1]) = d + l
      BY <1>2, <1>5 DEF Stop
    <3> QED  BY <3>3, <3>4, <3>5
  <2> QED  BY <2>2, <2>3
<1>13. ReadInv'
  BY <1>4, <1>9, <1>10, <1>11, <1>12 DEF ReadInv
<1> QED  BY <1>7, <1>8, <1>13 DEF PlanInv

LEMMA StutterStays == ASSUME PlanInv, UNCHANGED vars PROVE PlanInv'
<1>1. /\ method' = method /\ dev' = dev /\ files' = files /\ need' = need /\ plan' = plan
      /\ reads' = reads /\ sent' = sent /\ next' = next /\ stage' = stage
  BY DEF vars
<1>2. Kept' = Kept /\ File' = File /\ Opened' = Opened /\ Whole' = Whole
  <2>1. Kept' = Kept /\ File' = File
    BY <1>1, KeptStays
  <2> QED  BY <1>1, <2>1 DEF Opened, Whole
<1> QED  BY <1>1, <1>2 DEF PlanInv, StageInv, PieceInv, ReadInv

LEMMA NextPlanInv == ASSUME PlanInv, [Next]_vars PROVE PlanInv'
<1>1. CASE Parse
  BY <1>1, ParseStays
<1>2. CASE XferFile
  BY <1>2, XferFileStays
<1>3. CASE SortPlan
  BY <1>3, SortPlanStays
<1>4. CASE ReadRun
  BY <1>4, ReadRunStays
<1>5. CASE Exited \/ UNCHANGED vars
  BY <1>5, StutterStays DEF Exited
<1> QED  BY <1>1, <1>2, <1>3, <1>4, <1>5 DEF Next

(* What is known of the plan, the reads and what was sent (PlanInv) holds   *)
(* throughout, whatever the devices (ext4.rs:57-120 and 314-402).          *)
THEOREM PlanInvariant == Spec => []PlanInv
<1>1. Init => PlanInv
  BY InitPlanInv
<1>2. PlanInv /\ [Next]_vars => PlanInv'
  BY NextPlanInv
<1> QED  BY <1>1, <1>2, PTL DEF Spec

-----------------------------------------------------------------------------
(* Every byte is delivered to its file, at its offset, from where the file *)
(* keeps it: on volumes of any size, with extents and reads of any length  *)
(* (ext4.rs:57-120 and 314-402).                                           *)
THEOREM BytesArriveInPlace == Spec => []RightPlace
<1>1. ASSUME PlanInv  PROVE RightPlace
  <2>1. PICK n \in Nat : n = Len(sent) /\ DOMAIN sent = 1..n
    BY <1>1, InvIs, LenProperties
  <2>2. ASSUME NEW k \in 1..n
        PROVE  \A o \in 0..(sent[k].n - 1) :
                 /\ sent[k].off + o < files[sent[k].f].size
                 /\ Mapped(sent[k].f, sent[k].off + o, sent[k].disk + o)
    <3>1. sent[k] \in Kept
      <4>1. sent[k] \in Opened
        BY <1>1, <2>1, InvIs, ElementOfSeq
      <4> QED  BY <4>1 DEF Opened
    <3>2. sent[k] \in KeptOf(sent[k].f)
      BY <3>1 DEF Kept
    <3> QED  BY <3>2 DEF KeptOf
  <2> QED  BY <2>1, <2>2 DEF RightPlace
<1> QED  BY <1>1, PlanInvariant, PTL

LEMMA NotNegative == ASSUME NEW a \in Int  PROVE Max({0, a}) = IF a <= 0 THEN 0 ELSE a
<1>1. \E x \in {0, a} : \A y \in {0, a} : x >= y
  <2>1. a <= 0 \/ 0 <= a
    OBVIOUS
  <2> QED  BY <2>1
<1>2. Max({0, a}) \in {0, a} /\ \A y \in {0, a} : Max({0, a}) >= y
  BY <1>1 DEF Max
<1> QED  BY <1>2

(* Each file is sent the bytes its hash was told to expect, none twice,    *)
(* all of them in the end, by reads that are not empty and fit the buffer  *)
(* (ext4.rs:57-64 against 94-108 and 336-358; common.rs:348-351).          *)
THEOREM FilesGetWhatTheyNeed == Spec => []SentAsPromised
<1>1. ASSUME PlanInv  PROVE SentAsPromised
  <2>1. \A k \in DOMAIN reads : reads[k].len \in 1..BufSz
    <3>1. reads \in Seq([disk : Nat, len : 1..BufSz])
      BY <1>1 DEF PlanInv, ReadInv
    <3>2. PICK m \in Nat : m = Len(reads) /\ DOMAIN reads = 1..m
      BY <3>1, LenProperties
    <3>3. \A k \in 1..m : reads[k] \in [disk : Nat, len : 1..BufSz]
      BY <3>1, <3>2, ElementOfSeq
    <3> QED  BY <3>2, <3>3
  <2>2. PICK n \in Nat : n = Len(sent) /\ DOMAIN sent = 1..n
    BY <1>1, InvIs, LenProperties
  <2>3. ASSUME NEW f \in File
        PROVE  BytesSent(f) <= Max({0, need[f]}) /\ (AllRead => BytesSent(f) = need[f])
    <3>1. PICK a \in Nat : a = BytesSent(f)
      <4>1. BytesSent(f) = Weight(f, sent)
        BY DEF BytesSent, Weight, Amounts
      <4> QED  BY <1>1, <4>1, InvIs, AmountsAre
    <3>2. PICK b \in Nat : b = Weight(f, FlattenSeq(plan))
      BY <1>1, InvIs, AmountsAre
    <3>3. PICK v \in Nat \cup {-1} : v = need[f]
      BY <1>1, InvIs
    <3>4. a + b = IF v = -1 THEN 0 ELSE v
      <4>1. Weight(f, sent \o FlattenSeq(plan)) = Weight(f, sent) + Weight(f, FlattenSeq(plan))
        BY <1>1, InvIs, WeightConcat
      <4>2. Weight(f, sent) = a
        BY <3>1 DEF BytesSent, Weight, Amounts
      <4>3. Weight(f, Whole) = IF need[f] = -1 THEN 0 ELSE need[f]
        BY <1>1 DEF PlanInv, PieceInv
      <4> QED  BY <3>2, <3>3, <4>1, <4>2, <4>3 DEF Whole
    <3>5. a <= Max({0, v})
      BY <3>4, NotNegative
    <3>6. ASSUME AllRead  PROVE a = v
      <4>1. plan = <<>> /\ stage = "read" /\ (method = "rawsort" \/ next = Len(files) + 1)
        BY <3>6 DEF AllRead
      <4>2. b = 0
        BY <3>2, <4>1, FlattenEmpty, WeightEmpty
      <4>3. f \in 1..Len(files) /\ Len(files) \in Nat
        BY <1>1, InvIs, VolumeIs, LenProperties DEF IsVolume
      <4>4. method = "rawsort" \/ f < next
        BY <4>1, <4>3
      <4>5. v # -1
        BY <1>1, <3>3, <4>1, <4>4 DEF PlanInv, StageInv
      <4> QED  BY <3>4, <4>2, <4>5
    <3> QED  BY <3>1, <3>3, <3>5, <3>6
  <2>4. ASSUME NEW i \in 1..n, NEW j \in 1..n, i # j, sent[i].f = sent[j].f
        PROVE  \/ sent[i].off + sent[i].n <= sent[j].off
               \/ sent[j].off + sent[j].n <= sent[i].off
    <3>1. PICK w : w = Whole
      OBVIOUS
    <3>2. PICK t : t = FlattenSeq(plan)
      OBVIOUS
    <3>3. w = sent \o t /\ sent \in Seq(Opened) /\ t \in Seq(Opened)
      BY <1>1, <3>1, <3>2, InvIs DEF Whole
    <3>4. Len(w) = n + Len(t) /\ Len(t) \in Nat /\ \A k \in 1..n : w[k] = sent[k]
      BY <2>2, <3>3, ConcatProperties
    <3>5. \A k \in 1..n : k \in 1..Len(w)
      BY <3>4
    <3>6. Pairs(w, Clear)
      BY <1>1, <3>1 DEF PlanInv, PieceInv
    <3>7. <<sent[i], sent[j]>> \in Clear \/ <<sent[j], sent[i]>> \in Clear
      <4>1. i < j \/ j < i
        BY <2>4
      <4> QED  BY <3>4, <3>5, <3>6, <4>1 DEF Pairs
    <3> QED  BY <2>4, <3>7 DEF Clear
  <2> QED  BY <2>1, <2>2, <2>3, <2>4 DEF SentAsPromised
<1> QED  BY <1>1, PlanInvariant, PTL

(* rawsort goes over the disk once, forwards: a read begins at or past the *)
(* end of the one before (ext4.rs:320).                                    *)
THEOREM RawsortSweepsOnce == Spec => OneSweep
<1>1. ASSUME PlanInv, [Next]_vars
      PROVE  [method = "rawsort" /\ reads # <<>> /\ reads' # reads =>
                Last(reads').disk >= Last(reads).disk + Last(reads).len]_vars
  <2> SUFFICES ASSUME method = "rawsort", reads # <<>>, reads' # reads
               PROVE  Last(reads').disk >= Last(reads).disk + Last(reads).len
    OBVIOUS
  <2>1. ReadRun
    BY <1>1 DEF Next, Parse, XferFile, SortPlan, Exited, vars
  <2>2. plan # <<>> /\ reads' = Append(reads, [disk |-> Head(plan)[1].disk, len |-> ReadLen(Head(plan))])
    BY <2>1 DEF ReadRun
  <2>3. PICK x : x = [disk |-> Head(plan)[1].disk, len |-> ReadLen(Head(plan))]
    OBVIOUS
  <2>4. reads \in Seq([disk : Nat, len : 1..BufSz]) /\ x \in [disk : Nat, len : 1..BufSz]
    BY <1>1, <2>2, <2>3, HeadIs DEF PlanInv, ReadInv
  <2>5. Last(reads') = x
    BY <2>2, <2>3, <2>4, LastAppended
  <2>6. x.disk = plan[1][1].disk
    BY <1>1, <2>2, <2>3, HeadIs
  <2>7. Last(reads).disk + Last(reads).len <= plan[1][1].disk
    BY <1>1, <2>2 DEF PlanInv, ReadInv
  <2>8. Last(reads).disk + Last(reads).len \in Nat /\ x.disk \in Nat
    <3>1. Last(reads) \in [disk : Nat, len : 1..BufSz]
      BY <2>4, FrontAndLast
    <3> QED  BY <2>4, <3>1, Constants0
  <2> QED  BY <2>5, <2>6, <2>7, <2>8
<1> QED  BY <1>1, PlanInvariant, PTL DEF Spec, OneSweep
=============================================================================
