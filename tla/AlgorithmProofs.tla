--------------------------- MODULE AlgorithmProofs ---------------------------
(***************************************************************************)
(* What several components rest on, whatever its inputs: facts about       *)
(* numbers and sets, and the algorithms that are shared, BLAKE3's tree and *)
(* the radix sort.                                                         *)
(*                                                                         *)
(* Induction is put as the least number of a set, which needs no predicate *)
(* for a parameter.                                                        *)
(*                                                                         *)
(* The measure of everything about the tree is NodeOf: the value BLAKE3    *)
(* gives the node over `len' bytes from `lo' on.  left_len, the            *)
(* breadth-first pass, the recursion above it and the merge of pieces are  *)
(* each shown to make nodes.                                               *)
(***************************************************************************)
EXTENDS B3Tree, RadixSort, WellFoundedInduction, SequenceTheorems, FiniteSetTheorems, TLAPS

(* Quotient and remainder.                                                 *)
LEMMA DivMod ==
  ASSUME NEW a \in Nat, NEW b \in Nat \ {0}
  PROVE  /\ a \div b \in Nat
         /\ a % b \in 0..(b - 1)
         /\ a = b * (a \div b) + (a % b)
OBVIOUS

(* A multiple of b.                                                        *)
LEMMA Divides ==
  ASSUME NEW a \in Nat, NEW b \in Nat \ {0}, a % b = 0
  PROVE  \E q \in Nat : a = b * q
<1> a \div b \in Nat /\ a = b * (a \div b)
  BY DivMod
<1> QED  OBVIOUS

(* A set of numbers that is not empty has a least one: the first of the    *)
(* elements that a search looks for, the first place where a claim fails.  *)
LEMMA LeastNumber ==
  ASSUME NEW S, S \subseteq Nat, S # {}
  PROVE  \E m \in S : \A n \in S : m <= n
<1> DEFINE less == {ss \in Nat \X Nat : ss[1] < ss[2]}
<1>1. less = OpToRel(<, Nat)
  BY DEF OpToRel
<1>2. IsWellFoundedOn(less, Nat)
  BY <1>1, NatLessThanWellFounded
<1>3. \A a, b \in Nat : <<a, b>> \in less <=> a < b
  OBVIOUS
<1> HIDE DEF less
<1>4. PICK x \in S : \A y \in S : ~(<<y, x>> \in less)
  BY <1>2, WFMin, Zenon
<1>5. ASSUME NEW y \in S  PROVE x <= y
  <2>1. x \in Nat /\ y \in Nat
    OBVIOUS
  <2>2. ~(y < x)
    BY <1>3, <1>4, <2>1, Zenon
  <2> QED  BY <2>1, <2>2
<1> QED  BY <1>5

(* Min is what Rust's iter().position() and find() stop at.                *)
LEMMA MinIsMember ==
  ASSUME NEW S, S \subseteq Nat, S # {}
  PROVE  Min(S) \in S /\ \A n \in S : Min(S) <= n
BY LeastNumber DEF Min

(* Max is what a loop that overwrites is left with.                        *)
LEMMA MaxIsMember ==
  ASSUME NEW b \in Nat, NEW S, S \subseteq 0..b, S # {}
  PROVE  Max(S) \in S /\ \A n \in S : n <= Max(S)
<1> DEFINE T == {b - n : n \in S}
<1>1. T \subseteq Nat /\ T # {}
  OBVIOUS
<1>2. PICK m \in T : \A n \in T : m <= n
  BY <1>1, LeastNumber
<1>3. PICK k \in S : m = b - k
  OBVIOUS
<1>4. \A n \in S : n <= k
  BY <1>2, <1>3
<1>5. \E x \in S : \A y \in S : x >= y
  BY <1>4
<1> QED  BY <1>5 DEF Max

(* What a recursive definition says of f: f[i] is given by step, from the  *)
(* values of f where rank is lower than at i.                              *)
Ranked(D, rank) == \E bound \in Nat : rank \in [D -> 0..bound]
Steps(D, V, step) == V # {} /\ step \in [[D -> V] \X D -> V]
Local(D, V, rank, step) ==
  \A i \in D : \A f, g \in [D -> V] :
    (\A j \in D : rank[j] < rank[i] => f[j] = g[j]) => step[<<f, i>>] = step[<<g, i>>]
Solves(f, D, V, step) == f \in [D -> V] /\ \A i \in D : f[i] = step[<<f, i>>]

(* Such a definition has a solution.                                       *)
LEMMA RecursionExists ==
  ASSUME NEW D, NEW V, NEW rank, NEW step,
         Ranked(D, rank), Steps(D, V, step), Local(D, V, rank, step)
  PROVE  \E f : Solves(f, D, V, step)
<1>0. PICK bound \in Nat : rank \in [D -> 0..bound]
  BY DEF Ranked
<1> USE DEF Steps, Local
<1> DEFINE UpTo(b, f) == \A i \in D : rank[i] < b => f[i] = step[<<f, i>>]
           Bad == {b \in 0..(bound + 1) : \A f \in [D -> V] : ~UpTo(b, f)}
<1>1. SUFFICES ASSUME Bad # {} PROVE FALSE
  <2>1. bound + 1 \in 0..(bound + 1) /\ \A i \in D : rank[i] < bound + 1
    BY <1>0
  <2>2. ASSUME Bad = {}
        PROVE  \E f \in [D -> V] : UpTo(bound + 1, f)
    <3> HIDE DEF UpTo
    <3> QED  BY <2>1, <2>2
  <2>3. ASSUME NEW f \in [D -> V], UpTo(bound + 1, f)
        PROVE  Solves(f, D, V, step)
    BY <2>1, <2>3 DEF Solves
  <2> HIDE DEF Bad, UpTo
  <2>4. CASE Bad = {}
    BY <2>2, <2>3, <2>4
  <2> QED  BY <1>1, <2>4
<1>2. Bad \subseteq Nat
  OBVIOUS
<1> HIDE DEF Bad
<1>3. PICK b \in Bad : \A c \in Bad : b <= c
  BY <1>1, <1>2, LeastNumber
<1>4. b \in 0..(bound + 1) /\ \A f \in [D -> V] : ~UpTo(b, f)
  BY <1>3 DEF Bad
<1>5. b # 0
  <2>1. PICK v \in V : TRUE
    OBVIOUS
  <2>2. [i \in D |-> v] \in [D -> V]
    OBVIOUS
  <2>3. \A i \in D : ~(rank[i] < 0)
    BY <1>0
  <2>4. UpTo(0, [i \in D |-> v])
    BY <2>3, Zenon
  <2> HIDE DEF UpTo
  <2> QED  BY <1>4, <2>2, <2>4
<1>6. PICK g \in [D -> V] : UpTo(b - 1, g)
  <2>1. b - 1 \in 0..(bound + 1) /\ ~(b <= b - 1)
    BY <1>4, <1>5
  <2>2. b - 1 \notin Bad
    BY <1>3, <2>1
  <2> QED  BY <2>1, <2>2 DEF Bad
<1> DEFINE f == [i \in D |-> step[<<g, i>>]]
<1>7. f \in [D -> V] /\ \A i \in D : f[i] = step[<<g, i>>]
  OBVIOUS
<1> HIDE DEF f
<1>8. ASSUME NEW i \in D, rank[i] < b
      PROVE  f[i] = step[<<f, i>>]
  <2>1. \A j \in D : rank[j] < rank[i] => rank[j] < b - 1
    BY <1>0, <1>4, <1>8
  <2>2. \A j \in D : rank[j] < rank[i] => f[j] = g[j]
    BY <1>6, <1>7, <2>1
  <2>3. step[<<f, i>>] = step[<<g, i>>]
    BY <1>7, <2>2
  <2> QED  BY <1>7, <2>3
<1> QED  BY <1>4, <1>7, <1>8

-----------------------------------------------------------------------------
(* Powers of two and the split.                                            *)

(* One is a power of two,                                                  *)
LEMMA PowOne == PowerOfTwo(1)
BY DEF PowerOfTwo

(* and so is twice a power of two,                                         *)
LEMMA PowDouble ==
  ASSUME NEW p \in Nat \ {0}, PowerOfTwo(p)
  PROVE  PowerOfTwo(2 * p)
<1> SUFFICES ASSUME NEW d \in 2..(2 * p), (2 * p) % d = 0, d % 2 = 1
             PROVE  FALSE
  <2>1. \A d \in Nat : d % 2 = 0 \/ d % 2 = 1
    OBVIOUS
  <2> QED  BY <2>1 DEF PowerOfTwo
<1>1. PICK q \in Nat : 2 * p = d * q
  <2>1. 2 * p \in Nat /\ d \in Nat \ {0}
    OBVIOUS
  <2> QED  BY <2>1, Divides
<1>2. PICK e \in Nat : d = 2 * e + 1
  BY DivMod
<1>3. q = 2 * (p - e * q)
  <2>1. d * q = 2 * (e * q) + q
    BY <1>2
  <2>2. e * q \in Nat
    BY <1>2
  <2> QED  BY <1>1, <2>1, <2>2
<1> DEFINE r == p - e * q
<1>4. r \in Int /\ e * q \in Nat /\ q = 2 * r
  BY <1>3
<1>5. r \in Nat
  BY <1>4
<1> HIDE DEF r
<1>6. p = d * r
  <2>1. d * q = 2 * (d * r)
    BY <1>4, <1>5
  <2>2. d * r \in Nat
    BY <1>5
  <2> QED  BY <1>1, <2>1, <2>2
<1>7. d <= p
  <2>1. r # 0
    BY <1>6
  <2> QED  BY <1>5, <1>6, <2>1
<1>8. p % d = 0
  BY <1>5, <1>6
<1> QED  BY <1>7, <1>8 DEF PowerOfTwo

(* and the half of one that is more than one.                              *)
LEMMA PowHalf ==
  ASSUME NEW p \in Nat, p > 1, PowerOfTwo(p)
  PROVE  \E h \in Nat \ {0} : p = 2 * h /\ PowerOfTwo(h)
<1>1. p % p = 0 /\ p \in 2..p
  OBVIOUS
<1>2. p % 2 = 0
  BY <1>1 DEF PowerOfTwo
<1> DEFINE h == p \div 2
<1>3. h \in Nat \ {0} /\ p = 2 * h
  BY <1>2
<1> HIDE DEF h
<1>4. ASSUME NEW d \in 2..h, h % d = 0
      PROVE  d % 2 = 0
  <2>1. PICK q \in Nat : h = d * q
    BY <1>3, <1>4, Divides
  <2>2. p = d * (2 * q)
    BY <1>3, <2>1
  <2>3. p % d = 0
    BY <2>2
  <2> QED  BY <1>3, <2>3 DEF PowerOfTwo
<1> QED  BY <1>3, <1>4 DEF PowerOfTwo

(* No power of two lies between one and its double. *)
LEMMA PowNext ==
  ASSUME NEW p \in Nat \ {0}, NEW q \in Nat, PowerOfTwo(p), PowerOfTwo(q), p <= q, q < 2 * p
  PROVE  p = q
<1> DEFINE Bad == {x \in Nat \ {0} :
                     PowerOfTwo(x) /\ \E y \in Nat : PowerOfTwo(y) /\ x < y /\ y < 2 * x}
<1>1. Bad \subseteq Nat
  OBVIOUS
<1>2. SUFFICES ASSUME Bad # {} PROVE FALSE
  OBVIOUS
<1> HIDE DEF Bad
<1>3. PICK x \in Bad : \A y \in Bad : x <= y
  BY <1>1, <1>2, LeastNumber
<1> USE DEF Bad
<1>4. PICK y \in Nat : PowerOfTwo(y) /\ x < y /\ y < 2 * x
  BY <1>3
<1>5. x > 1
  BY <1>3, <1>4
<1>6. PICK g \in Nat \ {0} : x = 2 * g /\ PowerOfTwo(g)
  BY <1>3, <1>5, PowHalf
<1>7. PICK h \in Nat \ {0} : y = 2 * h /\ PowerOfTwo(h)
  BY <1>4, <1>5, PowHalf
<1>8. g \in Bad /\ g < x
  BY <1>4, <1>6, <1>7
<1> QED  BY <1>3, <1>8

(* Powers of two multiply.                                                 *)
LEMMA PowTimes ==
  ASSUME NEW p \in Nat \ {0}, NEW q \in Nat \ {0}, PowerOfTwo(p), PowerOfTwo(q)
  PROVE  PowerOfTwo(p * q)
<1> DEFINE Bad == {x \in Nat \ {0} : PowerOfTwo(x) /\ ~PowerOfTwo(p * x)}
<1>1. Bad \subseteq Nat
  OBVIOUS
<1>2. SUFFICES ASSUME Bad # {} PROVE FALSE
  OBVIOUS
<1> HIDE DEF Bad
<1>3. PICK x \in Bad : \A y \in Bad : x <= y
  BY <1>1, <1>2, LeastNumber
<1> USE DEF Bad
<1>4. x # 1
  BY <1>3
<1>5. PICK h \in Nat \ {0} : x = 2 * h /\ PowerOfTwo(h)
  BY <1>3, <1>4, PowHalf
<1>6. PowerOfTwo(p * h)
  BY <1>3, <1>5
<1>7. p * h \in Nat \ {0} /\ p * x = 2 * (p * h)
  BY <1>5
<1> QED  BY <1>3, <1>6, <1>7, PowDouble

(* TopBit(n) is a power of two between n / 2 and n,                        *)
LEMMA TopBitIs ==
  ASSUME NEW sz \in Nat \ {0}
  PROVE  /\ TopBit(sz) \in 1..sz
         /\ PowerOfTwo(TopBit(sz))
         /\ sz < 2 * TopBit(sz)
<1> DEFINE Ps == {p \in 1..sz : PowerOfTwo(p)}
<1>1. Ps \subseteq 0..sz /\ 1 \in Ps
  BY PowOne
<1>2. TopBit(sz) = Max(Ps)
  BY DEF TopBit
<1> HIDE DEF Ps
<1>3. TopBit(sz) \in Ps /\ \A p \in Ps : p <= TopBit(sz)
  BY <1>1, <1>2, MaxIsMember
<1> USE DEF Ps
<1>4. ASSUME 2 * TopBit(sz) <= sz
      PROVE  FALSE
  <2>1. 2 * TopBit(sz) \in Ps
    BY <1>3, <1>4, PowDouble
  <2> QED  BY <1>3, <2>1
<1> QED  BY <1>3, <1>4

(* and the only one.                                                       *)
LEMMA TopBitOnly ==
  ASSUME NEW sz \in Nat \ {0}, NEW p \in Nat \ {0}, PowerOfTwo(p), p <= sz, sz < 2 * p
  PROVE  TopBit(sz) = p
<1>1. TopBit(sz) \in 1..sz /\ PowerOfTwo(TopBit(sz)) /\ sz < 2 * TopBit(sz)
  BY TopBitIs
<1>2. CASE p <= TopBit(sz)
  BY <1>1, <1>2, PowNext
<1>3. CASE TopBit(sz) <= p
  BY <1>1, <1>3, PowNext
<1> QED  BY <1>1, <1>2, <1>3

(* Multiplying keeps the order.                                            *)
LEMMA TimesMono ==
  ASSUME NEW c \in Nat, NEW a \in Nat, NEW b \in Nat, a <= b
  PROVE  c * a \in Nat /\ c * b \in Nat /\ c * a <= c * b
OBVIOUS

(* left_len is a complete tree, at least half of it, and leaves something. *)
LEMMA LeftLenIs ==
  ASSUME NEW len \in Nat, len > Chunk
  PROVE  /\ LeftLen(len) \in 1..(len - 1)
         /\ len <= 2 * LeftLen(len)
         /\ \E p \in 1..len : PowerOfTwo(p) /\ LeftLen(len) = Chunk * p
<1> USE B3Assumption
<1> DEFINE m == (len - 1) \div Chunk
           t == TopBit(m)
<1>1. m \in Nat /\ (len - 1) % Chunk \in 0..(Chunk - 1)
      /\ len - 1 = Chunk * m + ((len - 1) % Chunk)
  <2>1. len - 1 \in Nat
    OBVIOUS
  <2> QED  BY <2>1, DivMod
<1> HIDE DEF m
<1>2. m # 0
  BY <1>1
<1>3. t \in 1..m /\ PowerOfTwo(t) /\ m < 2 * t
  BY <1>1, <1>2, TopBitIs
<1> HIDE DEF t
<1>4. Chunk * t <= Chunk * m /\ Chunk * t \in Nat /\ Chunk * m \in Nat
  BY <1>1, <1>3, TimesMono
<1>5. Chunk * (m + 1) <= Chunk * (2 * t)
  BY <1>1, <1>3, TimesMono
<1>6. Chunk * (m + 1) = Chunk * m + Chunk /\ Chunk * (2 * t) = 2 * (Chunk * t)
  BY <1>1, <1>3
<1>7. t <= Chunk * t
  BY <1>3
<1>8. LeftLen(len) = Chunk * t
  BY DEF LeftLen, m, t
<1> DEFINE a == Chunk * t
           b == Chunk * m
<1> HIDE DEF a, b
<1>9. a \in Nat /\ b \in Nat /\ a <= b /\ b + Chunk <= 2 * a /\ t <= a /\ LeftLen(len) = a
      /\ len - 1 = b + ((len - 1) % Chunk)
  BY <1>1, <1>4, <1>5, <1>6, <1>7, <1>8 DEF a, b
<1>10. a \in 1..(len - 1) /\ len <= 2 * a /\ t \in 1..len
  BY <1>1, <1>3, <1>9
<1> QED  BY <1>3, <1>8, <1>9, <1>10

(* Only one complete tree does.                                            *)
LEMMA SplitOnly ==
  ASSUME NEW len \in Nat, len > Chunk,
         NEW p \in Nat \ {0}, PowerOfTwo(p), Chunk * p < len, len <= 2 * (Chunk * p),
         NEW q \in Nat \ {0}, PowerOfTwo(q), Chunk * q < len, len <= 2 * (Chunk * q)
  PROVE  p = q
<1> USE B3Assumption
<1>1. p < 2 * q
  <2>1. SUFFICES ASSUME 2 * q <= p PROVE FALSE
    OBVIOUS
  <2>2. Chunk * (2 * q) <= Chunk * p
    BY <2>1, TimesMono
  <2>3. Chunk * (2 * q) = 2 * (Chunk * q)
    OBVIOUS
  <2> QED  BY <2>2, <2>3
<1>2. q < 2 * p
  <2>1. SUFFICES ASSUME 2 * p <= q PROVE FALSE
    OBVIOUS
  <2>2. Chunk * (2 * p) <= Chunk * q
    BY <2>1, TimesMono
  <2>3. Chunk * (2 * p) = 2 * (Chunk * p)
    OBVIOUS
  <2> QED  BY <2>2, <2>3
<1> QED  BY <1>1, <1>2, PowNext

(* So BLAKE3's choice is determined.                                       *)
LEMMA SpecLeftOnly ==
  ASSUME NEW len \in Nat, len > Chunk,
         NEW p \in Nat \ {0}, PowerOfTwo(p), Chunk * p < len, len <= 2 * (Chunk * p)
  PROVE  SpecLeft(len) = Chunk * p
<1> USE B3Assumption
<1> DEFINE Fits(q) == PowerOfTwo(q) /\ Chunk * q < len /\ len <= 2 * (Chunk * q)
           c == CHOOSE q \in 1..len : Fits(q)
<1>1. p \in 1..len
  <2>1. p <= Chunk * p
    OBVIOUS
  <2> QED  BY <2>1
<1>2. c \in 1..len /\ Fits(c)
  BY <1>1
<1>3. SpecLeft(len) = Chunk * c
  BY DEF SpecLeft
<1> HIDE DEF c
<1>4. c \in Nat \ {0} /\ PowerOfTwo(c) /\ Chunk * c < len /\ len <= 2 * (Chunk * c)
  BY <1>2
<1>5. c = p
  BY <1>4, SplitOnly
<1> QED  BY <1>3, <1>5

(* left_len, which shifts, is the split that BLAKE3 describes.             *)
THEOREM LeftLenIsSpecLeft ==
  ASSUME NEW len \in Nat, len > Chunk
  PROVE  LeftLen(len) = SpecLeft(len)
<1>1. PICK p \in 1..len : PowerOfTwo(p) /\ LeftLen(len) = Chunk * p
  BY LeftLenIs
<1>2. LeftLen(len) < len /\ len <= 2 * LeftLen(len)
  BY LeftLenIs
<1> QED  BY <1>1, <1>2, SpecLeftOnly

(* The recursive function over (length, start) that Tree denotes exists:   *)
(* it is defined up to each length in turn.                                *)
LEMMA TreeIs ==
  ASSUME NEW max \in Nat, NEW leaf, NEW left,
         \A sz \in 0..max : sz \in DOMAIN left => left[sz] \in 1..(sz - 1)
  PROVE  Tree(max, leaf, left) =
           [sz \in 0..max |-> [lo \in 0..max |->
              IF sz \in DOMAIN left
              THEN Parent(Tree(max, leaf, left)[left[sz]][lo],
                          Tree(max, leaf, left)[sz - left[sz]][lo + left[sz]])
              ELSE leaf[sz][lo]]]
<1> DEFINE Row(f, sz) ==
             [lo \in 0..max |->
                IF sz \in DOMAIN left
                THEN Parent(f[left[sz]][lo], f[sz - left[sz]][lo + left[sz]])
                ELSE leaf[sz][lo]]
           UpTo(m, f) == f = [sz \in 0..m |-> Row(f, sz)]
           Bad == {m \in 0..max : \A f : ~UpTo(m, f)}
<1>1. Bad = {}
  <2>1. SUFFICES ASSUME Bad # {} PROVE FALSE
    OBVIOUS
  <2>2. Bad \subseteq Nat
    OBVIOUS
  <2> HIDE DEF Bad
  <2>3. PICK m \in Bad : \A sz \in Bad : m <= sz
    BY <2>1, <2>2, LeastNumber
  <2> USE DEF Bad
  <2>4. m \in 0..max /\ \A f : ~UpTo(m, f)
    BY <2>3
  <2>5. ASSUME m # 0
        PROVE  \E g : UpTo(m - 1, g)
    <3>1. m - 1 \in 0..max /\ ~(m <= m - 1)
      BY <2>4, <2>5
    <3>2. m - 1 \notin Bad
      BY <2>3, <3>1
    <3> QED  BY <3>1, <3>2
  <2> HIDE DEF Bad, UpTo, Row
  <2>6. \E g : m # 0 => UpTo(m - 1, g)
    BY <2>5
  <2>7. PICK g : m # 0 => UpTo(m - 1, g)
    BY <2>6
  <2> DEFINE f == [sz \in 0..m |-> IF sz < m THEN g[sz] ELSE Row(g, sz)]
  <2>8. DOMAIN f = 0..m /\ \A sz \in 0..m : f[sz] = IF sz < m THEN g[sz] ELSE Row(g, sz)
    OBVIOUS
  <2>9. ASSUME NEW sz \in 0..m
        PROVE  f[sz] = Row(g, sz)
    <3>1. CASE sz < m
      <4>1. m # 0 /\ sz \in 0..(m - 1)
        BY <2>4, <3>1
      <4>2. g = [k \in 0..(m - 1) |-> Row(g, k)]
        BY <2>7, <4>1 DEF UpTo
      <4>3. g[sz] = Row(g, sz)
        BY <4>1, <4>2
      <4> QED  BY <2>8, <3>1, <4>3
    <3>2. CASE ~(sz < m)
      BY <2>8, <3>2
    <3> QED  BY <3>1, <3>2
  <2> HIDE DEF f
  <2>10. ASSUME NEW sz \in 0..m
         PROVE  Row(g, sz) = Row(f, sz)
    <3>1. \A k \in 0..(sz - 1) : k \in 0..m /\ k < m
      BY <2>4
    <3>2. \A k \in 0..(sz - 1) : f[k] = g[k]
      BY <2>8, <3>1
    <3>3. ASSUME sz \in DOMAIN left
          PROVE  f[left[sz]] = g[left[sz]] /\ f[sz - left[sz]] = g[sz - left[sz]]
      <4>1. left[sz] \in 1..(sz - 1)
        BY <2>4, <3>3
      <4>2. left[sz] \in 0..(sz - 1) /\ sz - left[sz] \in 0..(sz - 1)
        BY <2>4, <4>1
      <4> QED  BY <3>2, <4>2
    <3> QED  BY <3>3, Zenon DEF Row
  <2>11. f = [sz \in 0..m |-> Row(f, sz)]
    <3>1. f = [sz \in 0..m |-> f[sz]]
      BY <2>8 DEF f
    <3>2. \A sz \in 0..m : f[sz] = Row(f, sz)
      BY <2>9, <2>10
    <3> QED  BY <3>1, <3>2
  <2> QED  BY <2>4, <2>11 DEF UpTo
<1>2. \E f : UpTo(max, f)
  <2>1. max \in 0..max
    OBVIOUS
  <2> HIDE DEF UpTo
  <2> QED  BY <1>1, <2>1
<1>3. Tree(max, leaf, left) = CHOOSE f : UpTo(max, f)
  BY DEF Tree
<1> QED  BY <1>2, <1>3

(* Adding a multiple of the divisor.                                       *)
LEMMA DivPlus ==
  ASSUME NEW c \in Nat \ {0}, NEW a \in Nat, NEW b \in Nat, a % c = 0
  PROVE  /\ (a + b) \div c = (a \div c) + (b \div c)
         /\ b % c = 0 => (a + b) % c = 0
<1>1. PICK q \in Nat : a = c * q
  BY Divides
<1> DEFINE r == b \div c
           s == b % c
<1>2. r \in Nat /\ s \in 0..(c - 1) /\ b = c * r + s
  BY DivMod
<1>3. a \div c = q
  BY <1>1
<1> HIDE DEF r, s
<1>4. a + b = c * (q + r) + s
  BY <1>1, <1>2
<1>5. (c * (q + r) + s) \div c = q + r /\ (c * (q + r) + s) % c = s
  <2>1. q + r \in Nat
    BY <1>2
  <2> DEFINE x == q + r
  <2> HIDE DEF x
  <2>2. (c * x + s) \div c = x /\ (c * x + s) % c = s
    BY <1>2, <2>1 DEF x
  <2> QED  BY <2>2 DEF x
<1> QED  BY <1>3, <1>4, <1>5 DEF r, s

(* The bytes of a slice.                                                   *)
LEMMA SliceIs ==
  ASSUME NEW B, NEW in \in Seq(B), NEW lo \in Nat, NEW len \in Nat, lo + len <= Len(in)
  PROVE  /\ Slice(in, lo, len) \in Seq(B)
         /\ Len(Slice(in, lo, len)) = len
         /\ \A i \in 1..len : Slice(in, lo, len)[i] = in[lo + i]
<1>1. \A i \in (lo + 1)..(lo + len) : i \in 1..Len(in)
  OBVIOUS
<1>2. Slice(in, lo, len) = SubSeq(in, lo + 1, lo + len)
  BY DEF Slice
<1>3. CASE len = 0
  BY <1>2, <1>3, SubSeqProperties
<1>4. CASE len # 0
  <2>1. SubSeq(in, lo + 1, lo + len) \in Seq(B)
        /\ Len(SubSeq(in, lo + 1, lo + len)) = len
    BY <1>1, <1>4, SubSeqProperties
  <2>2. \A i \in 1..len : SubSeq(in, lo + 1, lo + len)[i] = in[lo + i]
    BY <1>1, <1>4, SubSeqProperties
  <2> QED  BY <1>2, <2>1, <2>2
<1> QED  BY <1>3, <1>4

(* A slice of a slice is a slice.                                          *)
LEMMA SliceOfSlice ==
  ASSUME NEW B, NEW in \in Seq(B), NEW a \in Nat, NEW k \in Nat, a + k <= Len(in),
         NEW lo \in Nat, NEW len \in Nat, lo + len <= k
  PROVE  Slice(Slice(in, a, k), lo, len) = Slice(in, a + lo, len)
<1> DEFINE s == Slice(in, a, k)
           x == Slice(s, lo, len)
           y == Slice(in, a + lo, len)
<1>1. s \in Seq(B) /\ Len(s) = k /\ \A i \in 1..k : s[i] = in[a + i]
  BY SliceIs
<1> HIDE DEF s
<1>2. x \in Seq(B) /\ Len(x) = len /\ \A i \in 1..len : x[i] = s[lo + i]
  <2> SUFFICES ASSUME NEW t \in Seq(B), lo + len <= Len(t)
               PROVE  /\ Slice(t, lo, len) \in Seq(B) /\ Len(Slice(t, lo, len)) = len
                      /\ \A i \in 1..len : Slice(t, lo, len)[i] = t[lo + i]
    BY <1>1
  <2> HIDE DEF x
  <2> QED  BY SliceIs
<1>3. y \in Seq(B) /\ Len(y) = len /\ \A i \in 1..len : y[i] = in[a + lo + i]
  <2>1. a + lo \in Nat /\ a + lo + len <= Len(in)
    OBVIOUS
  <2> QED  BY <2>1, SliceIs
<1> HIDE DEF x, y
<1>4. \A i \in 1..len : x[i] = y[i]
  <2>1. \A i \in 1..len : lo + i \in 1..k /\ a + (lo + i) = a + lo + i
    OBVIOUS
  <2> QED  BY <1>1, <1>2, <1>3, <2>1
<1>5. x = y
  BY <1>2, <1>3, <1>4, SeqEqual
<1> QED  BY <1>5 DEF x, y, s

(* The slice of everything.                                                *)
LEMMA WholeSlice ==
  ASSUME NEW B, NEW in \in Seq(B)
  PROVE  Slice(in, 0, Len(in)) = in
<1> DEFINE x == Slice(in, 0, Len(in))
<1>1. x \in Seq(B) /\ Len(x) = Len(in) /\ \A i \in 1..Len(in) : x[i] = in[0 + i]
  BY SliceIs
<1> HIDE DEF x
<1>2. x = in
  BY <1>1, SeqEqual
<1> QED  BY <1>2 DEF x

-----------------------------------------------------------------------------
(* The nodes of BLAKE3's tree.                                             *)

NodeOf(in, ctr, lo, len) == SpecNodes(in, ctr)[len][lo]

(* A node is that of its two parts, or a chunk.                            *)
LEMMA NodeIs ==
  ASSUME NEW B, NEW in \in Seq(B), NEW ctr, NEW len \in 0..Len(in), NEW lo \in 0..Len(in)
  PROVE  NodeOf(in, ctr, lo, len) =
           IF len > Chunk
           THEN Parent(NodeOf(in, ctr, lo, SpecLeft(len)),
                       NodeOf(in, ctr, lo + SpecLeft(len), len - SpecLeft(len)))
           ELSE ChunkCV(Slice(in, lo, len), ctr + lo \div Chunk, FALSE)
<1> USE B3Assumption
<1> DEFINE max == Len(in)
           leaf == [sz \in 0..Chunk |-> [k \in 0..max |->
                      ChunkCV(Slice(in, k, sz), ctr + k \div Chunk, FALSE)]]
           left == [sz \in (Chunk + 1)..max |-> SpecLeft(sz)]
           nodes == Tree(max, leaf, left)
<1>1. nodes = SpecNodes(in, ctr)
  BY DEF SpecNodes
<1>2. ASSUME NEW sz \in 0..max, sz \in DOMAIN left
      PROVE  left[sz] \in 1..(sz - 1)
  <2>1. sz \in Nat /\ sz > Chunk /\ sz \in (Chunk + 1)..max
    BY <1>2
  <2>2. left[sz] = LeftLen(sz)
    BY <2>1, LeftLenIsSpecLeft
  <2> QED  BY <2>1, <2>2, LeftLenIs
<1>3. len \in DOMAIN left <=> len > Chunk
  OBVIOUS
<1>4. len > Chunk => left[len] = SpecLeft(len)
  OBVIOUS
<1>5. len <= Chunk => leaf[len][lo] = ChunkCV(Slice(in, lo, len), ctr + lo \div Chunk, FALSE)
  OBVIOUS
<1> HIDE DEF leaf, left
<1>6. nodes = [sz \in 0..max |-> [k \in 0..max |->
              IF sz \in DOMAIN left
              THEN Parent(nodes[left[sz]][k], nodes[sz - left[sz]][k + left[sz]])
              ELSE leaf[sz][k]]]
  BY <1>2, TreeIs
<1> HIDE DEF nodes
<1>7. nodes[len][lo] = IF len \in DOMAIN left
                       THEN Parent(nodes[left[len]][lo], nodes[len - left[len]][lo + left[len]])
                       ELSE leaf[len][lo]
  BY <1>6
<1>8. CASE len > Chunk
  BY <1>1, <1>3, <1>4, <1>7, <1>8 DEF NodeOf
<1>9. CASE ~(len > Chunk)
  <2>1. len <= Chunk /\ len \notin DOMAIN left
    BY <1>3, <1>9
  <2> QED  BY <1>1, <1>5, <1>7, <1>9, <2>1, Zenon DEF NodeOf
<1> QED  BY <1>8, <1>9

(* A node of at most a chunk is the chunk.                                 *)
LEMMA NodeIsChunk ==
  ASSUME NEW B, NEW in \in Seq(B), NEW ctr, NEW len \in Nat, len <= Chunk, NEW lo \in Nat,
         lo + len <= Len(in)
  PROVE  NodeOf(in, ctr, lo, len) = ChunkCV(Slice(in, lo, len), ctr + lo \div Chunk, FALSE)
<1> USE B3Assumption
<1>1. len \in 0..Len(in) /\ lo \in 0..Len(in) /\ ~(len > Chunk) /\ Len(in) \in Nat
  OBVIOUS
<1> QED  BY <1>1, NodeIs, Zenon

(* BLAKE3's tree is the node over everything, but for the ROOT flag.       *)
LEMMA SpecTreeIs ==
  ASSUME NEW B, NEW in \in Seq(B), NEW ctr \in Nat
  PROVE  /\ SpecTree(in, ctr, FALSE) = NodeOf(in, ctr, 0, Len(in))
         /\ Len(in) > Chunk => 
              SpecTree(in, ctr, TRUE) =
                RootParent(NodeOf(in, ctr, 0, SpecLeft(Len(in))),
                           NodeOf(in, ctr, SpecLeft(Len(in)), Len(in) - SpecLeft(Len(in))))
<1> USE B3Assumption
<1>0. Len(in) \in Nat /\ 0 \in 0..Len(in) /\ Len(in) \in 0..Len(in)
  OBVIOUS
<1>1. CASE Len(in) > Chunk
  <2> DEFINE ll == SpecLeft(Len(in))
  <2>1. SpecTree(in, ctr, FALSE) = Parent(NodeOf(in, ctr, 0, ll), NodeOf(in, ctr, ll, Len(in) - ll))
        /\ SpecTree(in, ctr, TRUE)
             = RootParent(NodeOf(in, ctr, 0, ll), NodeOf(in, ctr, ll, Len(in) - ll))
    <3>1. ~(Len(in) <= Chunk)
      BY <1>0, <1>1
    <3> QED  BY <3>1, Zenon DEF SpecTree, NodeOf, Parent, RootParent
  <2>2. NodeOf(in, ctr, 0, Len(in))
          = Parent(NodeOf(in, ctr, 0, ll), NodeOf(in, ctr, 0 + ll, Len(in) - ll))
    BY <1>0, <1>1, NodeIs
  <2>3. 0 + ll = ll
    <3>1. ll = LeftLen(Len(in)) /\ LeftLen(Len(in)) \in Nat
      BY <1>0, <1>1, LeftLenIsSpecLeft, LeftLenIs
    <3> QED  BY <3>1
  <2> QED  BY <2>1, <2>2, <2>3
<1>2. CASE Len(in) <= Chunk
  <2>1. SpecTree(in, ctr, FALSE) = ChunkCV(in, ctr, FALSE)
    BY <1>2, Zenon DEF SpecTree
  <2>2. NodeOf(in, ctr, 0, Len(in)) = ChunkCV(Slice(in, 0, Len(in)), ctr + 0 \div Chunk, FALSE)
    <3>1. ~(Len(in) > Chunk)
      BY <1>0, <1>2
    <3> QED  BY <1>0, <3>1, NodeIs
  <2>3. ctr + 0 \div Chunk = ctr
    <3>1. 0 \div Chunk = 0
      OBVIOUS
    <3> QED  BY <3>1
  <2>4. Slice(in, 0, Len(in)) = in
    BY WholeSlice
  <2>5. ~(Len(in) > Chunk)
    BY <1>0, <1>2
  <2> QED  BY <2>1, <2>2, <2>3, <2>4, <2>5, Zenon
<1>3. Len(in) > Chunk \/ Len(in) <= Chunk
  BY <1>0
<1> QED  BY <1>1, <1>2, <1>3, Zenon

(* The left part is in chunks and shorter than the whole.                  *)
LEMMA SplitIs ==
  ASSUME NEW len \in Nat, len > Chunk
  PROVE  /\ SpecLeft(len) \in 1..(len - 1)
         /\ SpecLeft(len) % Chunk = 0
         /\ len - SpecLeft(len) \in 1..(len - 1)
<1> USE B3Assumption
<1>1. SpecLeft(len) \in 1..(len - 1)
  BY LeftLenIsSpecLeft, LeftLenIs
<1>2. PICK p \in 1..len : SpecLeft(len) = Chunk * p
  BY LeftLenIsSpecLeft, LeftLenIs
<1>3. (Chunk * p) % Chunk = 0
  OBVIOUS
<1> QED  BY <1>1, <1>2, <1>3

(* The tree of a part that starts a chunk is a part of the tree.           *)
LEMMA NodeOfSlice ==
  ASSUME NEW B, NEW in \in Seq(B), NEW ctr \in Nat,
         NEW a \in Nat, NEW k \in Nat, a + k <= Len(in), a % Chunk = 0,
         NEW lo \in Nat, NEW len \in Nat, lo + len <= k
  PROVE  NodeOf(Slice(in, a, k), ctr + a \div Chunk, lo, len) = NodeOf(in, ctr, a + lo, len)
<1> USE B3Assumption
<1> DEFINE s == Slice(in, a, k)
           c == ctr + a \div Chunk
           Same(sz, x) == NodeOf(s, c, x, sz) = NodeOf(in, ctr, a + x, sz)
           Bad == {sz \in 0..k : \E x \in 0..(k - sz) : ~Same(sz, x)}
<1>1. s \in Seq(B) /\ Len(s) = k
  BY SMTT(60), SliceIs
<1>2. a \div Chunk \in Nat
  BY DivMod
<1>3. c \in Nat
  BY <1>2
<1>4. Bad = {}
  <2>1. SUFFICES ASSUME Bad # {} PROVE FALSE
    OBVIOUS
  <2>2. Bad \subseteq Nat
    OBVIOUS
  <2> HIDE DEF Bad
  <2>3. PICK sz \in Bad : \A m \in Bad : sz <= m
    BY <2>1, <2>2, LeastNumber
  <2> USE DEF Bad
  <2>4. PICK x \in 0..(k - sz) : ~Same(sz, x)
    BY <2>3
  <2>5. sz \in 0..k /\ x \in 0..k /\ x + sz <= k
    BY <2>3, <2>4
  <2> HIDE DEF Same, s, c
  <2>6. ASSUME NEW m \in Nat, m < sz, NEW y \in Nat, y + m <= k
        PROVE  Same(m, y)
    <3>1. m \in 0..k /\ y \in 0..(k - m) /\ ~(sz <= m)
      BY <2>5, <2>6
    <3>2. m \notin Bad
      BY <2>3, <3>1
    <3> QED  BY <3>1, <3>2
  <2> HIDE DEF Bad
  <2>7. sz \in 0..Len(s) /\ x \in 0..Len(s) /\ sz \in 0..Len(in) /\ a + x \in 0..Len(in)
    BY <1>1, <2>5
  <2>8. CASE sz > Chunk
    <3> DEFINE ll == SpecLeft(sz)
    <3>1. ll \in 1..(sz - 1) /\ sz - ll \in 1..(sz - 1)
      BY <2>5, <2>8, SplitIs
    <3>2. NodeOf(s, c, x, sz) = Parent(NodeOf(s, c, x, ll), NodeOf(s, c, x + ll, sz - ll))
      BY ZenonT(60), <1>1, <1>3, <2>7, <2>8, NodeIs
    <3>3. NodeOf(in, ctr, a + x, sz)
            = Parent(NodeOf(in, ctr, a + x, ll), NodeOf(in, ctr, a + x + ll, sz - ll))
      BY ZenonT(60), <2>7, <2>8, NodeIs
    <3> HIDE DEF ll
    <3>4. Same(ll, x) /\ Same(sz - ll, x + ll)
      BY <2>5, <2>6, <3>1
    <3>5. a + (x + ll) = a + x + ll
      BY <2>5, <3>1
    <3> QED  BY <2>4, <3>2, <3>3, <3>4, <3>5 DEF Same
  <2>9. CASE ~(sz > Chunk)
    <3>0. x \in Nat /\ sz \in Nat /\ sz <= Chunk /\ x + sz <= Len(s)
          /\ a + x \in Nat /\ a + x + sz <= Len(in)
      BY <1>1, <2>5, <2>9
    <3>1. NodeOf(s, c, x, sz) = ChunkCV(Slice(s, x, sz), c + x \div Chunk, FALSE)
      BY <1>1, <3>0, NodeIsChunk
    <3>2. NodeOf(in, ctr, a + x, sz)
            = ChunkCV(Slice(in, a + x, sz), ctr + (a + x) \div Chunk, FALSE)
      BY <3>0, NodeIsChunk
    <3>3. Slice(s, x, sz) = Slice(in, a + x, sz)
      BY <2>5, SliceOfSlice DEF s
    <3>4. c + x \div Chunk = ctr + (a + x) \div Chunk
      <4>1. (a + x) \div Chunk = (a \div Chunk) + (x \div Chunk)
        BY <3>0, DivPlus
      <4>2. x \div Chunk \in Nat
        BY <3>0, DivMod
      <4>3. \A u, v \in Nat : (ctr + u) + v = ctr + (u + v)
        OBVIOUS
      <4>4. (ctr + (a \div Chunk)) + (x \div Chunk) = ctr + ((a \div Chunk) + (x \div Chunk))
        BY <1>2, <4>2, <4>3, Zenon
      <4>5. (ctr + (a \div Chunk)) + (x \div Chunk) = ctr + (a + x) \div Chunk
        BY <4>1, <4>4, Zenon
      <4> QED  BY <4>5, Zenon DEF c
    <3> QED  BY <2>4, <3>1, <3>2, <3>3, <3>4, Zenon DEF Same
  <2> QED  BY <2>8, <2>9
<1>5. len \in 0..k /\ lo \in 0..(k - len)
  OBVIOUS
<1> QED  BY <1>4, <1>5, Zenon
-----------------------------------------------------------------------------
(* The layers of the breadth-first pass.                                   *)

(* How many pieces of s bytes l bytes are cut into.                        *)
PieceCount(l, s) == (l + s - 1) \div s

(* The last piece has a byte, and no byte is left after it.                *)
LEMMA PieceCountIs ==
  ASSUME NEW l \in Nat \ {0}, NEW s \in Nat \ {0}
  PROVE  /\ PieceCount(l, s) \in Nat \ {0}
         /\ s * (PieceCount(l, s) - 1) < l
         /\ l <= s * PieceCount(l, s)
<1> DEFINE c == PieceCount(l, s)
           r == (l + s - 1) % s
<1>1. l + s - 1 \in Nat
  OBVIOUS
<1>2. c \in Nat /\ r \in 0..(s - 1) /\ l + s - 1 = s * c + r
  BY <1>1, DivMod DEF PieceCount
<1> HIDE DEF c, r
<1>3. c # 0
  BY <1>2
<1>4. s * (c - 1) = s * c - s /\ s * c \in Nat
  BY <1>2
<1>5. s * (c - 1) < l /\ l <= s * c
  BY <1>2, <1>4
<1> QED  BY <1>2, <1>3, <1>5 DEF c

(* Only one number of pieces is like that.                                 *)
LEMMA PieceCountOnly ==
  ASSUME NEW l \in Nat \ {0}, NEW s \in Nat \ {0}, NEW c \in Nat \ {0},
         s * (c - 1) < l, l <= s * c
  PROVE  PieceCount(l, s) = c
<1> DEFINE d == PieceCount(l, s)
<1>1. d \in Nat \ {0} /\ s * (d - 1) < l /\ l <= s * d
  BY PieceCountIs
<1> HIDE DEF d
<1>2. d - 1 < c
  <2>1. SUFFICES ASSUME c <= d - 1 PROVE FALSE
    BY <1>1
  <2>2. s * c <= s * (d - 1) /\ s * c \in Nat /\ s * (d - 1) \in Nat
    BY <1>1, <2>1, TimesMono
  <2> QED  BY <1>1, <2>2
<1>3. c - 1 < d
  <2>1. SUFFICES ASSUME d <= c - 1 PROVE FALSE
    BY <1>1
  <2>2. s * d <= s * (c - 1) /\ s * d \in Nat /\ s * (c - 1) \in Nat
    BY <1>1, <2>1, TimesMono
  <2> QED  BY <1>1, <2>2
<1>4. d = c
  BY <1>1, <1>2, <1>3
<1> QED  BY <1>4 DEF d

(* The bytes of the piece after `lo'.                                      *)
Upto(l, lo, s) == IF lo + s <= l THEN s ELSE l - lo

(* a holds the values of a layer of pieces of s bytes.                     *)
IsLayer(a, in, ctr, s) ==
  a = [i \in 1..PieceCount(Len(in), s) |->
         NodeOf(in, ctr, s * (i - 1), Upto(Len(in), s * (i - 1), s))]

(* The first layer of the pass: the chunks, the short last one included.   *)
LEMMA ChunksAreLayer ==
  ASSUME NEW B, NEW in \in Seq(B), Len(in) > 0, NEW ctr \in Nat
  PROVE  IsLayer(WideChunks(in, ctr), in, ctr, Chunk)
<1> USE B3Assumption
<1> DEFINE l == Len(in)
           sz == PieceCount(l, Chunk)
<1>0. l \in Nat \ {0} /\ (l + Chunk - 1) \div Chunk = sz
  BY DEF PieceCount
<1>1. ASSUME NEW i \in 1..sz
      PROVE  ChunkCV(Slice(in, (i - 1) * Chunk, Upto(l, (i - 1) * Chunk, Chunk)),
                     ctr + i - 1, FALSE)
             = NodeOf(in, ctr, Chunk * (i - 1), Upto(l, Chunk * (i - 1), Chunk))
  <2> DEFINE lo == Chunk * (i - 1)
             len == Upto(l, lo, Chunk)
  <2>1. sz \in Nat \ {0} /\ Chunk * (sz - 1) < l
    BY <1>0, PieceCountIs
  <2>2. i \in Nat \ {0} /\ i - 1 \in Nat /\ i - 1 <= sz - 1 /\ sz - 1 \in Nat
    BY <2>1
  <2>3. lo \in Nat /\ Chunk * (sz - 1) \in Nat /\ lo <= Chunk * (sz - 1)
    BY <2>2, TimesMono
  <2>4. (i - 1) * Chunk = lo
    BY <2>2
  <2>5. lo \div Chunk = i - 1
    BY <2>2
  <2> HIDE DEF lo
  <2>6. len \in Nat /\ len <= Chunk /\ lo + len <= l
    BY <1>0, <2>1, <2>3 DEF Upto
  <2> HIDE DEF len
  <2>7. NodeOf(in, ctr, lo, len) = ChunkCV(Slice(in, lo, len), ctr + lo \div Chunk, FALSE)
    BY <2>3, <2>6, NodeIsChunk
  <2>8. ctr + lo \div Chunk = ctr + i - 1
    BY <2>2, <2>5
  <2> QED  BY <2>4, <2>7, <2>8, Zenon DEF lo, len
<1>2. WideChunks(in, ctr) =
        [i \in 1..sz |->
           ChunkCV(Slice(in, (i - 1) * Chunk, Upto(l, (i - 1) * Chunk, Chunk)),
                   ctr + i - 1, FALSE)]
  BY <1>0, Zenon DEF WideChunks, Upto
<1> HIDE DEF sz
<1> QED  BY <1>1, <1>2, Zenon DEF IsLayer, sz

(* Cutting a piece of 2s bytes into two of s.                              *)
LEMMA UptoIs ==
  ASSUME NEW l \in Nat, NEW lo \in Nat, NEW s \in Nat \ {0}
  PROVE  /\ lo + s < l => /\ lo \in 0..l /\ Upto(l, lo, 2 * s) \in 0..l
                          /\ s < Upto(l, lo, 2 * s) /\ Upto(l, lo, 2 * s) <= 2 * s
                          /\ Upto(l, lo, s) = s /\ Upto(l, lo + s, s) = Upto(l, lo, 2 * s) - s
         /\ lo < l /\ l <= lo + s => Upto(l, lo, s) = Upto(l, lo, 2 * s)
BY DEF Upto

(* s bytes are the chunks of a complete tree.                              *)
FullTree(s) == \E p \in Nat \ {0} : PowerOfTwo(p) /\ s = Chunk * p

(* A chunk is a complete tree.                                             *)
LEMMA CompleteChunk == FullTree(Chunk)
<1>1. Chunk = Chunk * 1
  BY B3Assumption
<1> QED  BY <1>1, PowOne DEF FullTree

(* A complete tree is some whole chunks.                                   *)
LEMMA CompleteIs ==
  ASSUME NEW s, FullTree(s)
  PROVE  s \in Nat \ {0} /\ Chunk <= s /\ s % Chunk = 0
<1>1. PICK p \in Nat \ {0} : s = Chunk * p
  BY DEF FullTree
<1> QED  BY <1>1, B3Assumption

(* Two of them make one.                                                   *)
LEMMA CompleteDouble ==
  ASSUME NEW s, FullTree(s)
  PROVE  FullTree(2 * s)
<1>1. PICK p \in Nat \ {0} : PowerOfTwo(p) /\ s = Chunk * p
  BY DEF FullTree
<1>2. 2 * s = Chunk * (2 * p) /\ 2 * p \in Nat \ {0}
  BY <1>1, B3Assumption
<1>3. PowerOfTwo(2 * p)
  BY <1>1, PowDouble
<1> QED  BY <1>2, <1>3, Zenon DEF FullTree

(* A complete tree and at most as much again is split between the two.     *)
LEMMA CompleteSplit ==
  ASSUME NEW len \in Nat, NEW s, FullTree(s), s < len, len <= 2 * s
  PROVE  SpecLeft(len) = s /\ len > Chunk
<1>1. PICK p \in Nat \ {0} : PowerOfTwo(p) /\ s = Chunk * p
  BY DEF FullTree
<1>2. len > Chunk
  BY CompleteIs, B3Assumption
<1> QED  BY <1>1, <1>2, SpecLeftOnly

(* Two pieces of s bytes side by side are the children of one of 2s.       *)
LEMMA NodeOfPair ==
  ASSUME NEW B, NEW in \in Seq(B), NEW ctr \in Nat, NEW s, FullTree(s),
         NEW lo \in Nat, lo + s < Len(in)
  PROVE  NodeOf(in, ctr, lo, Upto(Len(in), lo, 2 * s)) =
           Parent(NodeOf(in, ctr, lo, Upto(Len(in), lo, s)),
                  NodeOf(in, ctr, lo + s, Upto(Len(in), lo + s, s)))
<1> USE B3Assumption
<1> DEFINE l == Len(in)
           len == Upto(l, lo, 2 * s)
<1>1. s \in Nat \ {0} /\ l \in Nat
  BY CompleteIs
<1>2. /\ lo \in 0..l /\ len \in 0..l
      /\ s < len /\ len <= 2 * s
      /\ Upto(l, lo, s) = s /\ Upto(l, lo + s, s) = len - s
  <2>1. lo + s < l
    OBVIOUS
  <2> HIDE DEF l
  <2> QED  BY ZenonT(60), <1>1, <2>1, UptoIs
<1> HIDE DEF len
<1>3. len > Chunk
  BY <1>2, CompleteSplit
<1>4. SpecLeft(len) = s
  BY <1>2, CompleteSplit
<1>5. NodeOf(in, ctr, lo, len) =
        Parent(NodeOf(in, ctr, lo, SpecLeft(len)),
               NodeOf(in, ctr, lo + SpecLeft(len), len - SpecLeft(len)))
  BY <1>1, <1>2, <1>3, NodeIs
<1> QED  BY <1>2, <1>4, <1>5, Zenon DEF len

(* A layer has a value for each piece.                                     *)
LEMMA LayerLen ==
  ASSUME NEW B, NEW in \in Seq(B), Len(in) > 0, NEW ctr, NEW s \in Nat \ {0},
         NEW a, IsLayer(a, in, ctr, s)
  PROVE  Len(a) = PieceCount(Len(in), s) /\ Len(a) \in Nat \ {0}
<1>1. Len(in) \in Nat \ {0}
  OBVIOUS
<1> DEFINE c == PieceCount(Len(in), s)
           F(i) == NodeOf(in, ctr, s * (i - 1), Upto(Len(in), s * (i - 1), s))
<1>2. c \in Nat \ {0}
  BY <1>1, PieceCountIs
<1>3. a = [i \in 1..c |-> F(i)]
  BY Zenon DEF IsLayer
<1> HIDE DEF c, F
<1>4. Len(a) = c
  BY <1>2, <1>3
<1> QED  BY <1>2, <1>4 DEF c

(* One pass over a layer makes the layer of pieces of twice the size.      *)
LEMMA LayerStep ==
  ASSUME NEW B, NEW in \in Seq(B), Len(in) > 0, NEW ctr \in Nat,
         NEW s, FullTree(s), NEW a, IsLayer(a, in, ctr, s)
  PROVE  IsLayer(WideLayer(a), in, ctr, 2 * s)
<1> USE B3Assumption
<1> DEFINE l == Len(in)
           c == PieceCount(l, s)
           np == c \div 2
           d == np + (c % 2)
           N(i, t) == NodeOf(in, ctr, t * (i - 1), Upto(l, t * (i - 1), t))
<1>1. l \in Nat \ {0} /\ s \in Nat \ {0}
  BY CompleteIs
<1>2. c \in Nat \ {0} /\ s * (c - 1) < l /\ l <= s * c
  BY <1>1, PieceCountIs
<1>3. Len(a) = c
  BY <1>1, LayerLen
<1>4. a = [i \in 1..c |-> N(i, s)]
  BY Zenon DEF IsLayer
<1> HIDE DEF c
<1>5. /\ np \in Nat /\ d \in Nat \ {0}
      /\ \/ c = 2 * np /\ d = np
         \/ c = 2 * np + 1 /\ d = np + 1
  BY <1>2
<1>6. WideLayer(a) = [i \in 1..d |-> IF i <= np THEN Parent(a[2 * i - 1], a[2 * i]) ELSE a[c]]
  BY <1>3, Zenon DEF WideLayer
<1> HIDE DEF np, d
<1>7. PieceCount(l, 2 * s) = d
  <2>1. (2 * s) * (d - 1) = s * (2 * (d - 1)) /\ (2 * s) * d = s * (2 * d)
    BY <1>1, <1>5
  <2>2. s * (2 * (d - 1)) <= s * (c - 1) /\ s * (2 * (d - 1)) \in Nat /\ s * (c - 1) \in Nat
    BY <1>1, <1>2, <1>5, TimesMono
  <2>3. s * c <= s * (2 * d) /\ s * c \in Nat /\ s * (2 * d) \in Nat
    BY <1>1, <1>2, <1>5, TimesMono
  <2>4. (2 * s) * (d - 1) < l /\ l <= (2 * s) * d
    BY <1>1, <1>2, <2>1, <2>2, <2>3
  <2> QED  BY <1>1, <1>5, <2>4, PieceCountOnly
<1>8. ASSUME NEW i \in 1..d
      PROVE  (IF i <= np THEN Parent(a[2 * i - 1], a[2 * i]) ELSE a[c]) = N(i, 2 * s)
  <2> DEFINE lo == (2 * s) * (i - 1)
  <2>1. i \in Nat \ {0}
    BY <1>5
  <2>2. lo \in Nat /\ lo = s * ((2 * i - 1) - 1) /\ lo + s = s * (2 * i - 1)
    <3>1. \A x \in Nat : (2 * s) * x = s * (2 * x) /\ s * (2 * x) + s = s * (2 * x + 1)
          /\ (2 * s) * x \in Nat
      BY <1>1
    <3>2. i - 1 \in Nat /\ 2 * (i - 1) = (2 * i - 1) - 1 /\ 2 * (i - 1) + 1 = 2 * i - 1
      BY <2>1
    <3> QED  BY <3>1, <3>2
  <2> HIDE DEF lo
  <2>3. CASE i <= np
    <3>1. /\ 2 * i - 1 \in 1..c /\ 2 * i \in 1..c
          /\ 2 * i - 1 \in Nat /\ c - 1 \in Nat /\ 2 * i - 1 <= c - 1
      BY <1>2, <1>5, <2>1, <2>3
    <3>2. s * (2 * i - 1) <= s * (c - 1) /\ s * (c - 1) \in Nat
      BY <1>1, <3>1, TimesMono
    <3>3. lo + s < l
      <4>1. \A x, y, z \in Nat : x <= y /\ y < z => x < z
        OBVIOUS
      <4>2. lo + s \in Nat /\ l \in Nat
        BY <1>1, <2>2
      <4> QED  BY <1>2, <2>2, <3>2, <4>1, <4>2, Zenon
    <3>4. NodeOf(in, ctr, lo, Upto(l, lo, 2 * s)) =
           Parent(NodeOf(in, ctr, lo, Upto(l, lo, s)),
                  NodeOf(in, ctr, lo + s, Upto(l, lo + s, s)))
      BY <2>2, <3>3, NodeOfPair
    <3>5. a[2 * i - 1] = NodeOf(in, ctr, lo, Upto(l, lo, s))
      BY <1>4, <2>2, <3>1, Zenon
    <3>6. a[2 * i] = NodeOf(in, ctr, lo + s, Upto(l, lo + s, s))
      BY <1>4, <2>2, <3>1, Zenon
    <3> QED  BY <2>3, <3>4, <3>5, <3>6, Zenon DEF lo
  <2>4. CASE ~(i <= np)
    <3>1. c = 2 * i - 1 /\ c \in 1..c
      BY <1>2, <1>5, <2>1, <2>4
    <3>2. s * (c - 1) = lo /\ s * c = lo + s
      BY <2>2, <3>1
    <3>3. a[c] = NodeOf(in, ctr, lo, Upto(l, lo, s))
      BY <1>4, <3>1, <3>2, Zenon
    <3>4. Upto(l, lo, s) = Upto(l, lo, 2 * s)
      <4>1. s * (c - 1) < l /\ l <= s * c
        BY <1>2
      <4>2. lo < l /\ l <= lo + s
        BY <3>2, <4>1, Zenon
      <4>3. lo \in Nat /\ s \in Nat \ {0} /\ l \in Nat
        BY <1>1, <2>2
      <4> HIDE DEF l
      <4> QED  BY <4>2, <4>3, UptoIs
    <3> QED  BY <2>4, <3>3, <3>4, Zenon DEF lo
  <2> QED  BY <2>3, <2>4, Zenon
<1> HIDE DEF N
<1>9. WideLayer(a) = [i \in 1..d |-> N(i, 2 * s)]
  BY <1>6, <1>8, Zenon
<1> QED  BY <1>7, <1>9, Zenon DEF IsLayer, N

(* One turn of wide()'s loop.                                              *)
Turn(a, keep) == IF Len(a) > keep THEN WideLayer(a) ELSE a

Turns(f, m, first, keep) ==
  f = [k \in 0..m |-> IF k = 0 THEN first ELSE Turn(f[k - 1], keep)]

(* The recursive function of the loop's turns exists.                      *)
LEMMA TurnsExist ==
  ASSUME NEW m \in Nat, NEW first, NEW keep
  PROVE  \E f : Turns(f, m, first, keep)
<1> DEFINE Step(f, k) == IF k = 0 THEN first ELSE Turn(f[k - 1], keep)
           UpTo(sz, f) == f = [k \in 0..sz |-> Step(f, k)]
           Bad == {sz \in 0..m : \A f : ~UpTo(sz, f)}
<1>1. Bad = {}
  <2>1. SUFFICES ASSUME Bad # {} PROVE FALSE
    OBVIOUS
  <2>2. Bad \subseteq Nat
    OBVIOUS
  <2> HIDE DEF Bad
  <2>3. PICK sz \in Bad : \A x \in Bad : sz <= x
    BY <2>1, <2>2, LeastNumber
  <2> USE DEF Bad
  <2>4. sz \in 0..m /\ \A f : ~UpTo(sz, f)
    BY <2>3
  <2>5. ASSUME sz # 0
        PROVE  \E g : UpTo(sz - 1, g)
    <3>1. sz - 1 \in 0..m /\ ~(sz <= sz - 1)
      BY <2>4, <2>5
    <3>2. sz - 1 \notin Bad
      BY <2>3, <3>1
    <3> QED  BY <3>1, <3>2
  <2> HIDE DEF Bad, UpTo, Step
  <2>6. \E g : sz # 0 => UpTo(sz - 1, g)
    BY <2>5
  <2>7. PICK g : sz # 0 => UpTo(sz - 1, g)
    BY <2>6
  <2> DEFINE f == [k \in 0..sz |-> IF k < sz THEN g[k] ELSE Step(g, k)]
  <2>8. DOMAIN f = 0..sz /\ \A k \in 0..sz : f[k] = IF k < sz THEN g[k] ELSE Step(g, k)
    OBVIOUS
  <2>9. ASSUME NEW k \in 0..sz
        PROVE  f[k] = Step(g, k)
    <3>1. CASE k < sz
      <4>1. sz # 0 /\ k \in 0..(sz - 1)
        BY <2>4, <3>1
      <4>2. g = [j \in 0..(sz - 1) |-> Step(g, j)]
        BY <2>7, <4>1 DEF UpTo
      <4>3. g[k] = Step(g, k)
        BY <4>1, <4>2
      <4> QED  BY <2>8, <3>1, <4>3
    <3>2. CASE ~(k < sz)
      BY <2>8, <3>2
    <3> QED  BY <3>1, <3>2
  <2> HIDE DEF f
  <2>10. ASSUME NEW k \in 0..sz
         PROVE  Step(g, k) = Step(f, k)
    <3>1. CASE k = 0
      BY <3>1 DEF Step
    <3>2. CASE k # 0
      <4>1. k - 1 \in 0..sz /\ k - 1 < sz
        BY <2>4, <3>2
      <4>2. f[k - 1] = g[k - 1]
        BY <2>8, <4>1
      <4> QED  BY <3>2, <4>2 DEF Step
    <3> QED  BY <3>1, <3>2
  <2>11. f = [k \in 0..sz |-> Step(f, k)]
    <3>1. f = [k \in 0..sz |-> f[k]]
      BY <2>8 DEF f
    <3>2. \A k \in 0..sz : f[k] = Step(f, k)
      BY <2>9, <2>10
    <3> QED  BY <3>1, <3>2
  <2> QED  BY <2>4, <2>11 DEF UpTo
<1>2. m \in 0..m
  OBVIOUS
<1> HIDE DEF Step, UpTo
<1>3. \E f : UpTo(m, f)
  BY <1>1, <1>2
<1> QED  BY <1>3 DEF UpTo, Step, Turns

(* A turn keeps a layer a layer, and comes closer to `keep' values.        *)
LEMMA TurnIs ==
  ASSUME NEW B, NEW in \in Seq(B), Len(in) > 0, NEW ctr \in Nat, NEW keep \in 1..2,
         NEW s, FullTree(s), NEW a, IsLayer(a, in, ctr, s),
         keep = 2 => Len(a) > 1
  PROVE  \E t : /\ FullTree(t) /\ IsLayer(Turn(a, keep), in, ctr, t)
                /\ keep = 2 => Len(Turn(a, keep)) > 1
                /\ Len(a) > keep => Len(Turn(a, keep)) < Len(a)
                /\ Len(a) <= keep => Turn(a, keep) = a
<1>1. Len(a) \in Nat \ {0} /\ s \in Nat \ {0}
  BY CompleteIs, LayerLen
<1>2. CASE Len(a) > keep
  <2>1. Turn(a, keep) = WideLayer(a)
    BY <1>2 DEF Turn
  <2>2. FullTree(2 * s) /\ IsLayer(WideLayer(a), in, ctr, 2 * s)
    BY CompleteDouble, LayerStep
  <2>3. Len(WideLayer(a)) = Len(a) \div 2 + (Len(a) % 2)
    BY <1>1 DEF WideLayer
  <2>4. Len(WideLayer(a)) < Len(a) /\ (keep = 2 => Len(WideLayer(a)) > 1)
    BY <1>1, <1>2, <2>3
  <2> QED  BY <1>1, <1>2, <2>1, <2>2, <2>4
<1>3. CASE ~(Len(a) > keep)
  BY <1>1, <1>3 DEF Turn
<1> QED  BY <1>2, <1>3

(* The layers end with `keep' values.                                      *)
LEMMA WideIs ==
  ASSUME NEW B, NEW in \in Seq(B), Len(in) > 0, NEW ctr \in Nat, NEW keep \in 1..2,
         keep = 2 => Len(in) > Chunk
  PROVE  \E s : /\ FullTree(s) /\ IsLayer(WideCVs(in, ctr, keep), in, ctr, s)
                /\ PieceCount(Len(in), s) = keep
<1> DEFINE chunks == WideChunks(in, ctr)
           m == Len(chunks)
           layer == CHOOSE f : Turns(f, m, chunks, keep)
           Good(k, a) == /\ \E s : FullTree(s) /\ IsLayer(a, in, ctr, s)
                         /\ keep = 2 => Len(a) > 1
                         /\ Len(a) + k <= m \/ Len(a) <= keep
           Bad == {k \in 0..m : ~Good(k, layer[k])}
<1>1. IsLayer(chunks, in, ctr, Chunk) /\ FullTree(Chunk) /\ Chunk \in Nat \ {0}
  BY ChunksAreLayer, CompleteChunk, B3Assumption
<1>2. m \in Nat \ {0} /\ m = PieceCount(Len(in), Chunk)
  BY <1>1, LayerLen
<1>3. keep = 2 => m > 1
  <2>1. Len(in) \in Nat \ {0}
    OBVIOUS
  <2>2. Len(in) <= Chunk * m
    BY <1>1, <1>2, <2>1, PieceCountIs
  <2>3. m = 1 => Chunk * m = Chunk
    BY <1>1
  <2> QED  BY <1>1, <1>2, <2>1, <2>2, <2>3
<1>4. WideCVs(in, ctr, keep) = layer[m]
  BY Zenon DEF WideCVs, Turn, Turns
<1> HIDE DEF chunks, m
<1>5. layer = [k \in 0..m |-> IF k = 0 THEN chunks ELSE Turn(layer[k - 1], keep)]
  <2>1. m \in Nat
    BY <1>2
  <2>2. \E f : Turns(f, m, chunks, keep)
    BY <2>1, TurnsExist
  <2>3. Turns(layer, m, chunks, keep)
    BY <2>2, Zenon
  <2> HIDE DEF layer
  <2> QED  BY <2>3, Zenon DEF Turns
<1> HIDE DEF layer
<1>6. Good(0, layer[0])
  <2>1. layer[0] = chunks
    BY <1>2, <1>5
  <2>2. Len(chunks) + 0 <= m
    BY <1>2 DEF m
  <2>3. keep = 2 => Len(chunks) > 1
    BY <1>3 DEF m
  <2> QED  BY <1>1, <2>1, <2>2, <2>3, Zenon
<1>7. Bad = {}
  <2>1. SUFFICES ASSUME Bad # {} PROVE FALSE
    OBVIOUS
  <2>2. Bad \subseteq Nat
    OBVIOUS
  <2> HIDE DEF Bad, Good
  <2>3. PICK k \in Bad : \A x \in Bad : k <= x
    BY <2>1, <2>2, LeastNumber
  <2> USE DEF Bad
  <2>4. k \in 0..m /\ ~Good(k, layer[k])
    BY <2>3
  <2>5. k # 0
    BY <1>6, <2>4
  <2>6. k - 1 \in 0..m /\ ~(k <= k - 1)
    BY <1>2, <2>4, <2>5
  <2>7. Good(k - 1, layer[k - 1])
    BY <2>3, <2>6
  <2> HIDE DEF Bad
  <2> DEFINE a == layer[k - 1]
  <2>8. layer[k] = Turn(a, keep)
    BY <1>5, <2>4, <2>5
  <2> HIDE DEF a
  <2>9. PICK s : FullTree(s) /\ IsLayer(a, in, ctr, s)
    BY <2>7 DEF a, Good
  <2>10. (keep = 2 => Len(a) > 1) /\ (Len(a) + (k - 1) <= m \/ Len(a) <= keep)
    BY <2>7 DEF a, Good
  <2>11. PICK t : /\ FullTree(t) /\ IsLayer(Turn(a, keep), in, ctr, t)
                  /\ keep = 2 => Len(Turn(a, keep)) > 1
                  /\ Len(a) > keep => Len(Turn(a, keep)) < Len(a)
                  /\ Len(a) <= keep => Turn(a, keep) = a
    BY <2>9, <2>10, TurnIs
  <2>12. Len(a) \in Nat /\ Len(Turn(a, keep)) \in Nat
    BY <2>9, <2>11, CompleteIs, LayerLen
  <2>13. Len(Turn(a, keep)) + k <= m \/ Len(Turn(a, keep)) <= keep
    BY <1>2, <2>4, <2>10, <2>11, <2>12
  <2>14. Good(k, Turn(a, keep))
    BY <2>11, <2>13, Zenon DEF Good
  <2> QED  BY <2>4, <2>8, <2>14, Zenon
<1>8. Good(m, layer[m])
  <2>1. m \in 0..m
    BY <1>2
  <2> HIDE DEF Good
  <2> QED  BY <1>7, <2>1
<1> DEFINE a == layer[m]
<1> HIDE DEF a
<1>9. PICK s : FullTree(s) /\ IsLayer(a, in, ctr, s)
  BY <1>8 DEF a
<1>10. Len(a) = PieceCount(Len(in), s) /\ Len(a) \in Nat \ {0}
  BY <1>9, CompleteIs, LayerLen
<1>11. (keep = 2 => Len(a) > 1) /\ (Len(a) + m <= m \/ Len(a) <= keep)
  BY <1>8 DEF a
<1>12. Len(a) = keep
  BY <1>2, <1>10, <1>11
<1> QED  BY <1>4, <1>9, <1>10, <1>12, Zenon DEF a

(* The values of a layer.                                                  *)
LEMMA LayerItem ==
  ASSUME NEW in, NEW ctr, NEW s, NEW a, IsLayer(a, in, ctr, s),
         NEW i \in 1..PieceCount(Len(in), s)
  PROVE  a[i] = NodeOf(in, ctr, s * (i - 1), Upto(Len(in), s * (i - 1), s))
BY Zenon DEF IsLayer

(* Down to one value, the breadth-first pass makes the tree's.             *)
LEMMA WideToOne ==
  ASSUME NEW B, NEW in \in Seq(B), Len(in) > 0, NEW ctr \in Nat
  PROVE  WideCVs(in, ctr, 1)[1] = NodeOf(in, ctr, 0, Len(in))
<1> DEFINE a == WideCVs(in, ctr, 1)
           l == Len(in)
<1> HIDE DEF a
<1>1. PICK s : FullTree(s) /\ IsLayer(a, in, ctr, s) /\ PieceCount(l, s) = 1
  BY WideIs DEF a
<1>2. s \in Nat \ {0} /\ l \in Nat \ {0}
  BY <1>1, CompleteIs
<1>3. a[1] = NodeOf(in, ctr, s * (1 - 1), Upto(l, s * (1 - 1), s))
  <2>1. 1 \in 1..PieceCount(l, s)
    BY <1>1
  <2> QED  BY <1>1, <2>1, LayerItem
<1>4. s * (1 - 1) = 0 /\ l <= s * 1 /\ s * 1 = s
  BY <1>1, <1>2, PieceCountIs
<1>5. Upto(l, 0, s) = l
  BY <1>2, <1>4 DEF Upto
<1> QED  BY <1>3, <1>4, <1>5, Zenon DEF a

(* Down to two, the children of the root.                                  *)
LEMMA WideToTwo ==
  ASSUME NEW B, NEW in \in Seq(B), Len(in) > Chunk, NEW ctr \in Nat
  PROVE  RootParent(WideCVs(in, ctr, 2)[1], WideCVs(in, ctr, 2)[2]) = SpecTree(in, ctr, TRUE)
<1> DEFINE a == WideCVs(in, ctr, 2)
           l == Len(in)
<1> HIDE DEF a
<1>0. l > 0 /\ 2 \in 1..2
  BY B3Assumption
<1>1. PICK s : FullTree(s) /\ IsLayer(a, in, ctr, s) /\ PieceCount(l, s) = 2
  BY <1>0, WideIs DEF a
<1>2. s \in Nat \ {0} /\ l \in Nat \ {0}
  BY <1>1, <1>0, CompleteIs
<1>3. /\ a[1] = NodeOf(in, ctr, s * (1 - 1), Upto(l, s * (1 - 1), s))
      /\ a[2] = NodeOf(in, ctr, s * (2 - 1), Upto(l, s * (2 - 1), s))
  <2>1. 1 \in 1..PieceCount(l, s) /\ 2 \in 1..PieceCount(l, s)
    BY <1>1
  <2> QED  BY <1>1, <2>1, LayerItem
<1>4. s * (1 - 1) = 0 /\ s * (2 - 1) = s /\ s * 2 = 2 * s
  BY <1>2
<1>5. s < l /\ l <= 2 * s
  BY <1>1, <1>2, <1>4, PieceCountIs
<1>6. Upto(l, 0, s) = s /\ Upto(l, s, s) = l - s
  <2> HIDE DEF l
  <2> QED  BY <1>2, <1>5 DEF Upto
<1>7. SpecLeft(l) = s
  BY <1>1, <1>2, <1>5, CompleteSplit
<1>8. SpecTree(in, ctr, TRUE) = RootParent(NodeOf(in, ctr, 0, s), NodeOf(in, ctr, s, l - s))
  BY <1>7, SpecTreeIs
<1> QED  BY <1>3, <1>4, <1>6, <1>8, Zenon DEF a

(* The tree of a part is the node over the part.                           *)
LEMMA NodeOfWhole ==
  ASSUME NEW B, NEW in \in Seq(B), NEW ctr \in Nat,
         NEW a \in Nat, NEW k \in Nat, a + k <= Len(in), a % Chunk = 0
  PROVE  NodeOf(Slice(in, a, k), ctr + a \div Chunk, 0, k) = NodeOf(in, ctr, a, k)
<1>1. a + 0 = a /\ 0 \in Nat /\ 0 + k <= k
  OBVIOUS
<1>2. NodeOf(Slice(in, a, k), ctr + a \div Chunk, 0, k) = NodeOf(in, ctr, a + 0, k)
  BY <1>1, NodeOfSlice
<1> QED  BY <1>1, <1>2

(* A piece of one wide pass, or of one chunk, that starts a chunk.         *)
LEMMA LeafIsNode ==
  ASSUME NEW B, NEW in \in Seq(B), NEW ctr \in Nat, NEW lo \in Nat, NEW sz \in Nat,
         lo + sz <= Len(in), lo % Chunk = 0
  PROVE  /\ sz <= Chunk =>
              ChunkCV(Slice(in, lo, sz), ctr + lo \div Chunk, FALSE) = NodeOf(in, ctr, lo, sz)
         /\ sz > Chunk =>
              WideCVs(Slice(in, lo, sz), ctr + lo \div Chunk, 1)[1] = NodeOf(in, ctr, lo, sz)
<1> USE B3Assumption
<1>1. CASE sz <= Chunk
  <2>1. ~(sz > Chunk)
    BY <1>1
  <2>2. NodeOf(in, ctr, lo, sz) = ChunkCV(Slice(in, lo, sz), ctr + lo \div Chunk, FALSE)
    BY <1>1, NodeIsChunk
  <2> QED  BY <2>1, <2>2, Zenon
<1>2. CASE sz > Chunk
  <2> DEFINE c == ctr + lo \div Chunk
             part == Slice(in, lo, sz)
  <2>1. lo \div Chunk \in Nat
    BY DivMod
  <2>2. c \in Nat
    BY <2>1
  <2>3. part \in Seq(B) /\ Len(part) = sz /\ sz > 0
    BY <1>2, SliceIs
  <2>4. NodeOf(part, c, 0, sz) = NodeOf(in, ctr, lo, sz)
    <3> SUFFICES NodeOf(Slice(in, lo, sz), ctr + lo \div Chunk, 0, sz) = NodeOf(in, ctr, lo, sz)
      OBVIOUS
    <3> HIDE DEF c, part
    <3>1. \A x \in Nat, y \in Nat : x + y <= Len(in) /\ x % Chunk = 0 =>
            NodeOf(Slice(in, x, y), ctr + x \div Chunk, 0, y) = NodeOf(in, ctr, x, y)
      BY NodeOfWhole
    <3> QED  BY <3>1, Zenon
  <2> HIDE DEF c, part
  <2>5. WideCVs(part, c, 1)[1] = NodeOf(part, c, 0, sz)
    BY <2>2, <2>3, WideToOne
  <2>6. ~(sz <= Chunk)
    BY <1>2
  <2> QED  BY <2>4, <2>5, <2>6, Zenon DEF c, part
<1> QED  BY <1>1, <1>2

(* What b3_subtree makes of a piece that starts a chunk is the piece's     *)
(* tree, whatever the width.                                               *)
THEOREM SubtreeIsNode ==
  ASSUME NEW B, NEW in \in Seq(B), NEW off \in Nat, off % Chunk = 0, NEW wide \in Nat \ {0}
  PROVE  Subtree(in, off, wide) = NodeOf(in, off \div Chunk, 0, Len(in))
<1> USE B3Assumption
<1> DEFINE max == Len(in)
           ctr == off \div Chunk
           Value(sz, lo) == LET c == (off + lo) \div Chunk
                               part == Slice(in, lo, sz)
                           IN IF sz <= Chunk THEN ChunkCV(part, c, FALSE)
                              ELSE WideCVs(part, c, 1)[1]
           w == wide * Chunk
           leaf == [sz \in 0..w |-> [lo \in 0..max |-> Value(sz, lo)]]
           left == [sz \in (w + 1)..max |-> LeftLen(sz)]
           tree == Tree(max, leaf, left)
           Fits(sz, lo) == lo + sz <= max /\ lo % Chunk = 0
           Bad == {sz \in 0..max : \E lo \in 0..max :
                     Fits(sz, lo) /\ tree[sz][lo] # NodeOf(in, ctr, lo, sz)}
<1>1. Subtree(in, off, wide) = tree[max][0]
  BY Zenon DEF Subtree
<1>2. max \in Nat /\ ctr \in Nat /\ w \in Nat /\ Chunk <= w
  <2>1. ctr \in Nat
    BY DivMod
  <2> QED  BY <2>1
<1>3. ASSUME NEW sz \in 0..w, NEW lo \in 0..max, Fits(sz, lo)
      PROVE  Value(sz, lo) = NodeOf(in, ctr, lo, sz)
  <2> DEFINE c == (off + lo) \div Chunk
             part == Slice(in, lo, sz)
  <2>1. sz \in Nat /\ lo \in Nat /\ lo + sz <= Len(in) /\ lo % Chunk = 0
    BY <1>2, <1>3
  <2>2. c = ctr + lo \div Chunk
    BY <2>1, DivPlus
  <2>3. /\ sz <= Chunk => ChunkCV(part, ctr + lo \div Chunk, FALSE) = NodeOf(in, ctr, lo, sz)
        /\ sz > Chunk => WideCVs(part, ctr + lo \div Chunk, 1)[1] = NodeOf(in, ctr, lo, sz)
    <3> HIDE DEF ctr, w, max
    <3>1. ctr \in Nat
      BY <1>2
    <3> QED  BY ZenonT(60), <2>1, <3>1, LeafIsNode
  <2>4. ~(sz <= Chunk) => sz > Chunk
    BY <2>1
  <2> HIDE DEF c, part
  <2>5. Value(sz, lo) = IF sz <= Chunk THEN ChunkCV(part, c, FALSE) ELSE WideCVs(part, c, 1)[1]
    BY Zenon DEF c, part
  <2> QED  BY <2>2, <2>3, <2>4, <2>5, Zenon
<1> HIDE DEF Value, w, ctr, max
<1>4. ASSUME NEW sz \in 0..max, sz \in DOMAIN left
      PROVE  /\ sz \in Nat /\ sz > Chunk /\ sz > w
             /\ left[sz] = SpecLeft(sz) /\ left[sz] \in 1..(sz - 1)
  <2>1. sz \in Nat /\ sz \in (w + 1)..max /\ sz > Chunk /\ sz > w
    BY <1>2, <1>4
  <2>2. left[sz] = SpecLeft(sz)
    BY <2>1, LeftLenIsSpecLeft
  <2> QED  BY <2>1, <2>2, SplitIs
<1>5. \A sz \in 0..max : sz \notin DOMAIN left => sz \in 0..w
  BY <1>2
<1>6. \A sz \in 0..w, lo \in 0..max : leaf[sz][lo] = Value(sz, lo)
  OBVIOUS
<1> HIDE DEF leaf, left
<1>7. tree = [sz \in 0..max |-> [k \in 0..max |->
              IF sz \in DOMAIN left
              THEN Parent(tree[left[sz]][k], tree[sz - left[sz]][k + left[sz]])
              ELSE leaf[sz][k]]]
  BY <1>2, <1>4, TreeIs
<1> HIDE DEF tree
<1>8. ASSUME NEW sz \in 0..max, NEW k \in 0..max
      PROVE
        tree[sz][k] = IF sz \in DOMAIN left
                     THEN Parent(tree[left[sz]][k], tree[sz - left[sz]][k + left[sz]])
                     ELSE leaf[sz][k]
  <2> HIDE DEF Bad, Fits, w
  <2>1. tree[sz] = [x \in 0..max |->
                      IF sz \in DOMAIN left
                      THEN Parent(tree[left[sz]][x], tree[sz - left[sz]][x + left[sz]])
                      ELSE leaf[sz][x]]
    BY <1>7, Zenon
  <2> QED  BY <2>1, Zenon
<1>9. Bad = {}
  <2>1. SUFFICES ASSUME Bad # {} PROVE FALSE
    OBVIOUS
  <2>2. Bad \subseteq Nat
    OBVIOUS
  <2> HIDE DEF Bad
  <2>3. PICK sz \in Bad : \A m \in Bad : sz <= m
    BY <2>1, <2>2, LeastNumber
  <2> USE DEF Bad
  <2>4. sz \in 0..max
    BY <2>3
  <2>5. PICK lo \in 0..max : Fits(sz, lo) /\ tree[sz][lo] # NodeOf(in, ctr, lo, sz)
    BY <2>3
  <2> HIDE DEF Bad
  <2>6. ASSUME NEW m \in 0..max, m < sz, NEW k \in 0..max, Fits(m, k)
        PROVE  tree[m][k] = NodeOf(in, ctr, k, m)
    <3>1. ~(sz <= m)
      BY <1>2, <2>4, <2>6
    <3>2. m \notin Bad
      BY <2>3, <3>1
    <3> QED  BY <2>6, <3>2, Zenon DEF Bad
  <2>7. CASE sz \in DOMAIN left
    <3> DEFINE ll == SpecLeft(sz)
    <3>1. sz > Chunk /\ left[sz] = ll
      BY <1>4, <2>4, <2>7
    <3>2. ll \in 1..(sz - 1) /\ sz - ll \in 1..(sz - 1) /\ ll % Chunk = 0
      BY <2>4, <3>1, SplitIs
    <3>3. NodeOf(in, ctr, lo, sz)
            = Parent(NodeOf(in, ctr, lo, ll), NodeOf(in, ctr, lo + ll, sz - ll))
      BY <2>4, <2>5, <3>1, NodeIs DEF max
    <3> HIDE DEF ll
    <3>4. /\ ll \in 0..max /\ ll < sz /\ Fits(ll, lo)
          /\ sz - ll \in 0..max /\ sz - ll < sz /\ lo + ll \in 0..max /\ Fits(sz - ll, lo + ll)
      <4>1. (lo + ll) % Chunk = 0
        <5>1. lo \in Nat /\ ll \in Nat /\ lo % Chunk = 0 /\ ll % Chunk = 0
          BY <1>2, <2>5, <3>2
        <5> QED  BY <5>1, DivPlus
      <4> QED  BY SMTT(60), <1>2, <2>4, <2>5, <3>2, <4>1
    <3>5. tree[sz][lo] = Parent(tree[ll][lo], tree[sz - ll][lo + ll])
      BY <1>8, <2>4, <2>5, <2>7, <3>1, Zenon
    <3>6. /\ tree[ll][lo] = NodeOf(in, ctr, lo, ll)
          /\ tree[sz - ll][lo + ll] = NodeOf(in, ctr, lo + ll, sz - ll)
      BY <2>5, <2>6, <3>4
    <3> QED  BY <2>5, <3>3, <3>5, <3>6, Zenon
  <2>8. CASE sz \notin DOMAIN left
    <3>1. sz \in 0..w
      BY <1>5, <2>4, <2>8
    <3>2. tree[sz][lo] = Value(sz, lo)
      BY <1>6, <1>8, <2>4, <2>5, <2>8, <3>1, Zenon
    <3>3. Value(sz, lo) = NodeOf(in, ctr, lo, sz)
      BY <1>3, <2>5, <3>1
    <3> QED  BY <2>5, <3>2, <3>3, Zenon
  <2> QED  BY <2>7, <2>8
<1>10. max \in 0..max /\ 0 \in 0..max /\ Fits(max, 0)
  <2>1. 0 % Chunk = 0
    OBVIOUS
  <2> QED  BY <1>2, <2>1
<1>11. tree[max][0] = NodeOf(in, ctr, 0, max)
  <2> HIDE DEF Fits
  <2> QED  BY <1>9, <1>10
<1> QED  BY <1>1, <1>11, Zenon DEF ctr, max

(* b3_subtree gives an aligned piece the value of its subtree, for pieces  *)
(* of any length and any width (b3tree.c:208-223).                         *)
THEOREM SubtreeIsSpecTree ==
  ASSUME NEW B, NEW in \in Seq(B), NEW off \in Nat, off % Chunk = 0, NEW wide \in Nat \ {0}
  PROVE  Subtree(in, off, wide) = SpecTree(in, off \div Chunk, FALSE)
<1>1. off \div Chunk \in Nat
  BY DivMod, B3Assumption
<1>2. SpecTree(in, off \div Chunk, FALSE) = NodeOf(in, off \div Chunk, 0, Len(in))
  BY <1>1, SpecTreeIs
<1> QED  BY <1>2, SubtreeIsNode

(* A part of a file that starts a chunk, at its place in the file's tree.  *)
LEMMA SubtreeOfPart ==
  ASSUME NEW B, NEW in \in Seq(B), NEW a \in Nat, NEW k \in Nat, a + k <= Len(in), a % Chunk = 0,
         NEW wide \in Nat \ {0}
  PROVE  Subtree(Slice(in, a, k), a, wide) = NodeOf(in, 0, a, k)
<1>1. Slice(in, a, k) \in Seq(B) /\ Len(Slice(in, a, k)) = k
  BY SliceIs
<1>2. a \div Chunk \in Nat
  BY DivMod, B3Assumption
<1>3. Subtree(Slice(in, a, k), a, wide) = NodeOf(Slice(in, a, k), a \div Chunk, 0, k)
  BY <1>1, SubtreeIsNode
<1>4. ASSUME NEW c \in Nat
      PROVE  NodeOf(Slice(in, a, k), c + a \div Chunk, 0, k) = NodeOf(in, c, a, k)
  BY NodeOfWhole
<1>5. 0 \in Nat /\ 0 + a \div Chunk = a \div Chunk
  BY <1>2
<1>6. NodeOf(Slice(in, a, k), 0 + a \div Chunk, 0, k) = NodeOf(in, 0, a, k)
  BY <1>4, <1>5, Zenon
<1> QED  BY <1>3, <1>5, <1>6, Zenon

(* The halves of an input longer than a chunk, made by b3_subtree.         *)
LEMMA RootOfTwoIs ==
  ASSUME NEW B, NEW in \in Seq(B), Len(in) > Chunk, NEW wide \in Nat \ {0}
  PROVE  RootOfTwo(in, wide) = SpecTree(in, 0, TRUE)
<1> USE B3Assumption
<1> DEFINE l == Len(in)
           ll == LeftLen(l)
<1>1. l \in Nat /\ l > Chunk /\ ll = SpecLeft(l)
  BY LeftLenIsSpecLeft
<1>2. ll \in 1..(l - 1) /\ ll % Chunk = 0 /\ l - ll \in 1..(l - 1)
  BY <1>1, SplitIs
<1>3. RootOfTwo(in, wide)
        = RootParent(Subtree(Slice(in, 0, ll), 0, wide), Subtree(Slice(in, ll, l - ll), ll, wide))
  BY Zenon DEF RootOfTwo
<1> HIDE DEF ll
<1>4. Subtree(Slice(in, 0, ll), 0, wide) = NodeOf(in, 0, 0, ll)
  <2>1. 0 % Chunk = 0 /\ ll \in Nat /\ 0 + ll <= Len(in)
    BY <1>1, <1>2
  <2> QED  BY <2>1, SubtreeOfPart
<1>5. Subtree(Slice(in, ll, l - ll), ll, wide) = NodeOf(in, 0, ll, l - ll)
  <2>1. ll \in Nat /\ l - ll \in Nat /\ ll + (l - ll) <= Len(in)
    BY <1>1, <1>2
  <2> QED  BY SMTT(60), <1>2, <2>1, SubtreeOfPart
<1>6. SpecTree(in, 0, TRUE)
        = RootParent(NodeOf(in, 0, 0, SpecLeft(l)), NodeOf(in, 0, SpecLeft(l), l - SpecLeft(l)))
  BY <1>1, SpecTreeIs
<1> QED  BY <1>1, <1>3, <1>4, <1>5, <1>6, Zenon

(* b3_hash is BLAKE3 of inputs of any length (b3tree.c:225-239).           *)
THEOREM HashIsSpecTree ==
  ASSUME NEW B, NEW in \in Seq(B), NEW wide \in Nat \ {0}
  PROVE  Hash(in, wide) = SpecTree(in, 0, TRUE)
<1> USE B3Assumption
<1>1. CASE Len(in) <= Chunk
  BY <1>1, Zenon DEF Hash, SpecTree
<1>2. CASE Len(in) > Chunk
  <2>1. ~(Len(in) <= Chunk)
    BY <1>2
  <2>2. RootParent(WideCVs(in, 0, 2)[1], WideCVs(in, 0, 2)[2]) = SpecTree(in, 0, TRUE)
    BY <1>2, WideToTwo
  <2>3. RootOfTwo(in, wide) = SpecTree(in, 0, TRUE)
    BY <1>2, RootOfTwoIs
  <2> QED  BY <2>1, <2>2, <2>3, Zenon DEF Hash
<1>3. Len(in) <= Chunk \/ Len(in) > Chunk
  OBVIOUS
<1> QED  BY <1>1, <1>2, <1>3, Zenon

(* A power of two of complete trees is one.                                *)
LEMMA CompleteTimes ==
  ASSUME NEW s, FullTree(s), NEW p \in Nat \ {0}, PowerOfTwo(p)
  PROVE  FullTree(s * p)
<1>1. PICK q \in Nat \ {0} : PowerOfTwo(q) /\ s = Chunk * q
  BY DEF FullTree
<1>2. s * p = Chunk * (q * p) /\ q * p \in Nat \ {0}
  BY <1>1, B3Assumption
<1>3. PowerOfTwo(q * p)
  BY <1>1, PowTimes
<1> QED  BY <1>2, <1>3, Zenon DEF FullTree

(* Cutting the piece after lo into two.                                    *)
LEMMA UptoSplit ==
  ASSUME NEW l \in Nat, NEW lo \in Nat, NEW u \in Nat, NEW v \in Nat,
         lo + u < l, u < v, v <= 2 * u
  PROVE  /\ Upto(l, lo, v) \in 0..l
         /\ u < Upto(l, lo, v) /\ Upto(l, lo, v) <= 2 * u
         /\ Upto(l, lo, u) = u
         /\ Upto(l, lo + u, v - u) = Upto(l, lo, v) - u
BY DEF Upto

(* The values of consecutive pieces merge into the node over them.         *)
LEMMA MergeIsNode ==
  ASSUME NEW B, NEW in \in Seq(B), Len(in) > 0, NEW ctr \in Nat,
         NEW s, FullTree(s), NEW vals, IsLayer(vals, in, ctr, s),
         NEW from \in Nat, NEW count \in Nat \ {0}, from + count <= Len(vals)
  PROVE  Merge(vals, from, count)
           = NodeOf(in, ctr, s * from, Upto(Len(in), s * from, s * count))
<1> DEFINE l == Len(in)
           k == Len(vals)
           leaf == [sz \in {1} |-> [lo \in 0..(k - 1) |-> vals[lo + 1]]]
           left == [sz \in 2..k |-> TopBit(sz - 1)]
           tree == Tree(k, leaf, left)
           N(lo, sz) == NodeOf(in, ctr, s * lo, Upto(l, s * lo, s * sz))
           Bad == {sz \in 1..k : \E lo \in 0..(k - sz) : tree[sz][lo] # N(lo, sz)}
<1>1. Merge(vals, from, count) = tree[count][from]
  BY Zenon DEF Merge
<1>2. s \in Nat \ {0} /\ l \in Nat \ {0} /\ k \in Nat \ {0} /\ k = PieceCount(l, s)
  BY CompleteIs, LayerLen
<1>3. s * (k - 1) < l
  BY <1>2, PieceCountIs
<1> HIDE DEF k, l
<1>4. ASSUME NEW sz \in 0..k, sz \in DOMAIN left
      PROVE  /\ sz \in 2..k /\ left[sz] = TopBit(sz - 1) /\ PowerOfTwo(left[sz])
             /\ left[sz] \in 1..(sz - 1) /\ sz <= 2 * left[sz]
  <2>1. sz \in 2..k /\ sz - 1 \in Nat \ {0} /\ left[sz] = TopBit(sz - 1)
    BY <1>2, <1>4
  <2>2. TopBit(sz - 1) \in 1..(sz - 1) /\ PowerOfTwo(TopBit(sz - 1)) /\ sz - 1 < 2 * TopBit(sz - 1)
    BY <2>1, TopBitIs
  <2> QED  BY <2>1, <2>2
<1>5. \A lo \in 0..(k - 1) : leaf[1][lo] = vals[lo + 1]
  OBVIOUS
<1>6. \A sz \in 1..k : sz \in DOMAIN left <=> sz # 1
  BY <1>2
<1> HIDE DEF leaf, left
<1>7. tree = [sz \in 0..k |-> [lo \in 0..k |->
              IF sz \in DOMAIN left
              THEN Parent(tree[left[sz]][lo], tree[sz - left[sz]][lo + left[sz]])
              ELSE leaf[sz][lo]]]
  BY SMTT(60), <1>2, <1>4, TreeIs
<1> HIDE DEF tree
<1>8. ASSUME NEW sz \in 0..k, NEW lo \in 0..k
      PROVE  tree[sz][lo] = IF sz \in DOMAIN left
                           THEN Parent(tree[left[sz]][lo], tree[sz - left[sz]][lo + left[sz]])
                           ELSE leaf[sz][lo]
  BY <1>7
<1>9. Bad = {}
  <2>1. SUFFICES ASSUME Bad # {} PROVE FALSE
    OBVIOUS
  <2>2. Bad \subseteq Nat
    BY <1>2
  <2> HIDE DEF Bad, N
  <2>3. PICK sz \in Bad : \A m \in Bad : sz <= m
    BY <2>1, <2>2, LeastNumber
  <2> USE DEF Bad
  <2>4. sz \in 1..k
    BY <2>3
  <2>5. PICK lo \in 0..(k - sz) : tree[sz][lo] # N(lo, sz)
    BY <2>3
  <2>6. /\ lo \in Nat /\ sz \in Nat \ {0} /\ lo + sz <= k
        /\ sz \in 0..k /\ lo \in 0..k /\ lo \in 0..(k - 1)
    BY <1>2, <2>4, <2>5
  <2> HIDE DEF Bad
  <2>7. ASSUME NEW m \in Nat \ {0}, m < sz, NEW x \in Nat, x + m <= k
        PROVE  tree[m][x] = N(x, m)
    <3>0. k \in Nat
      BY <1>2
    <3>1. ~(sz <= m) /\ m \in 1..k /\ x \in 0..(k - m)
      BY <2>6, <2>7, <3>0
    <3>2. m \notin Bad
      BY <2>3, <3>1
    <3> QED  BY <3>1, <3>2, Zenon DEF Bad
  <2>8. CASE sz = 1
    <3>1. tree[sz][lo] = vals[lo + 1]
      BY <1>5, <1>6, <1>8, <2>4, <2>6, <2>8
    <3>2. lo + 1 \in 1..PieceCount(Len(in), s) /\ (lo + 1) - 1 = lo
      BY <1>2, <2>6, <2>8 DEF l
    <3>3. vals[lo + 1] = NodeOf(in, ctr, s * ((lo + 1) - 1), Upto(Len(in), s * ((lo + 1) - 1), s))
      BY <3>2, LayerItem
    <3>4. s * sz = s
      BY <1>2, <2>8
    <3> QED  BY <2>5, <3>1, <3>2, <3>3, <3>4, Zenon DEF N, l
  <2>9. CASE sz # 1
    <3> DEFINE t == left[sz]
               u == s * t
               v == s * sz
               b == s * lo
               q == Upto(l, b, v)
    <3>1. sz \in DOMAIN left
      BY <1>6, <2>4, <2>9
    <3>2. t \in 1..(sz - 1) /\ sz <= 2 * t /\ PowerOfTwo(t)
      BY <1>4, <2>6, <3>1
    <3>3. tree[sz][lo] = Parent(tree[t][lo], tree[sz - t][lo + t])
      BY <1>8, <2>6, <3>1
    <3> HIDE DEF t
    <3>4. t \in Nat \ {0} /\ sz - t \in Nat \ {0} /\ t < sz /\ sz - t < sz /\ lo + t \in Nat
          /\ lo + t <= k /\ (lo + t) + (sz - t) <= k /\ lo + t <= k - 1 /\ k - 1 \in Nat
      <4>1. \A x, y, e, g \in Nat :
              e \in 1..(x - 1) /\ y + x <= g =>
                /\ e \in Nat \ {0} /\ x - e \in Nat \ {0} /\ e < x /\ x - e < x /\ y + e \in Nat
                /\ y + e <= g /\ (y + e) + (x - e) <= g /\ y + e <= g - 1 /\ g - 1 \in Nat
        OBVIOUS
      <4>2. t \in Nat /\ sz \in Nat /\ k \in Nat
        BY <1>2, <2>6, <3>2
      <4> QED  BY <2>6, <3>2, <4>1, <4>2, Zenon
    <3>5. tree[t][lo] = N(lo, t) /\ tree[sz - t][lo + t] = N(lo + t, sz - t)
      BY <2>6, <2>7, <3>4
    <3>6. FullTree(u)
      BY <3>2, <3>4, CompleteTimes
    <3>7. /\ u \in Nat /\ v \in Nat /\ b \in Nat
          /\ s * (lo + t) = b + u /\ s * (sz - t) = v - u
      BY <1>2, <2>6, <3>4
    <3>8. u < v
      <4>1. s * (t + 1) <= s * sz /\ s * (t + 1) = u + s /\ s * (t + 1) \in Nat
        BY <1>2, <2>6, <3>4, TimesMono
      <4> QED  BY SMTT(60), <1>2, <3>7, <4>1
    <3>9. v <= 2 * u
      <4>1. s * sz <= s * (2 * t) /\ s * (2 * t) = 2 * u
        BY <1>2, <2>6, <3>2, <3>4, TimesMono
      <4> QED  BY <4>1
    <3>10. b + u < l
      <4>1. s * (lo + t) <= s * (k - 1) /\ s * (k - 1) \in Nat
        BY <1>2, <3>4, TimesMono
      <4>2. \A x, y, z \in Nat : x <= y /\ y < z => x < z
        OBVIOUS
      <4>3. b + u \in Nat
        BY <3>7
      <4> QED  BY <1>2, <1>3, <3>7, <4>1, <4>2, <4>3, Zenon
    <3> HIDE DEF u, v, b
    <3>11. /\ q \in 0..l /\ u < q /\ q <= 2 * u
           /\ Upto(l, b, u) = u /\ Upto(l, b + u, v - u) = q - u
      <4>1. l \in Nat /\ b \in Nat /\ u \in Nat /\ v \in Nat
        BY <1>2, <3>7
      <4> QED  BY SMTT(60), <3>8, <3>9, <3>10, <4>1, UptoSplit
    <3> HIDE DEF q
    <3>12. q > Chunk /\ SpecLeft(q) = u
      BY <1>2, <3>6, <3>11, CompleteSplit
    <3>13. b \in 0..l
      BY <1>2, <3>7, <3>10
    <3>14. NodeOf(in, ctr, b, q) = Parent(NodeOf(in, ctr, b, u), NodeOf(in, ctr, b + u, q - u))
      BY <1>2, <3>11, <3>12, <3>13, NodeIs DEF l
    <3>15. N(lo, t) = NodeOf(in, ctr, b, u)
      BY <3>11, Zenon DEF N, b, u
    <3>16. N(lo + t, sz - t) = NodeOf(in, ctr, b + u, q - u)
      BY <3>7, <3>11, Zenon DEF N
    <3>17. N(lo, sz) = NodeOf(in, ctr, b, q)
      BY Zenon DEF N, b, v, q
    <3> QED  BY <2>5, <3>3, <3>5, <3>14, <3>15, <3>16, <3>17, Zenon
  <2> QED  BY <2>8, <2>9
<1>10. count \in 1..k /\ from \in 0..(k - count)
  BY <1>2 DEF k
<1>11. tree[count][from] = N(from, count)
  <2> HIDE DEF N
  <2> QED  BY <1>9, <1>10
<1> QED  BY <1>1, <1>11, Zenon DEF l

(* b3_root_of_pieces makes BLAKE3 of a file of two or more pieces, each of *)
(* a power of two of chunks, from the values of the pieces.                *)
THEOREM RootOfPiecesIsSpecTree ==
  ASSUME NEW B, NEW in \in Seq(B), NEW s, FullTree(s), Len(in) > s,
         NEW vals, IsLayer(vals, in, 0, s)
  PROVE  RootOfPieces(vals) = SpecTree(in, 0, TRUE)
<1> DEFINE l == Len(in)
           k == Len(vals)
           t == TopBit(k - 1)
           u == s * t
<1>1. s \in Nat \ {0} /\ l \in Nat \ {0} /\ l > 0
  BY CompleteIs
<1>2. k = PieceCount(l, s) /\ k \in Nat \ {0}
  BY <1>1, LayerLen
<1>3. s * (k - 1) < l /\ l <= s * k
  BY <1>1, <1>2, PieceCountIs
<1>4. RootOfPieces(vals) = RootParent(Merge(vals, 0, t), Merge(vals, t, k - t))
  BY Zenon DEF RootOfPieces
<1> HIDE DEF l, k
<1>5. k - 1 \in Nat \ {0}
  <2>1. k = 1 => s * k = s
    BY <1>1
  <2> QED  BY <1>1, <1>2, <1>3, <2>1 DEF l
<1>6. t \in 1..(k - 1) /\ PowerOfTwo(t) /\ k - 1 < 2 * t
  BY <1>5, TopBitIs
<1> HIDE DEF t
<1>7. /\ t \in Nat \ {0} /\ k - t \in Nat \ {0} /\ t <= k - 1 /\ k <= 2 * t
      /\ 0 + t <= k /\ t + (k - t) <= k
  BY <1>2, <1>5, <1>6
<1>8. FullTree(u)
  BY <1>6, <1>7, CompleteTimes
<1>9. s * 0 = 0 /\ s * (k - t) = s * k - u /\ u \in Nat /\ s * k \in Nat
  BY SMTT(60), <1>1, <1>2, <1>7
<1>10. u < l
  <2>1. s * t <= s * (k - 1) /\ s * (k - 1) \in Nat
    BY <1>1, <1>5, <1>7, TimesMono
  <2>2. \A x, y, z \in Nat : x <= y /\ y < z => x < z
    OBVIOUS
  <2> QED  BY <1>1, <1>3, <1>9, <2>1, <2>2, Zenon
<1>11. l <= 2 * u
  <2>1. s * k <= s * (2 * t) /\ s * (2 * t) = 2 * u
    BY <1>1, <1>2, <1>7, TimesMono
  <2> QED  BY <1>1, <1>3, <1>9, <2>1
<1>12. Merge(vals, 0, t) = NodeOf(in, 0, s * 0, Upto(l, s * 0, s * t))
  BY <1>1, <1>2, <1>7, MergeIsNode DEF k, l
<1>13. Merge(vals, t, k - t) = NodeOf(in, 0, s * t, Upto(l, s * t, s * (k - t)))
  BY SMTT(60), <1>1, <1>2, <1>7, MergeIsNode DEF k, l
<1> DEFINE v == s * k
<1> HIDE DEF u, v
<1>14. Upto(l, 0, u) = u /\ Upto(l, u, v - u) = l - u
  <2>1. u < l /\ l <= v /\ u \in Nat /\ v \in Nat /\ l \in Nat
    BY <1>1, <1>3, <1>9, <1>10 DEF v
  <2> QED  BY <2>1 DEF Upto
<1>15. SpecLeft(l) = u
  BY <1>1, <1>8, <1>10, <1>11, CompleteSplit
<1>16. l > Chunk
  BY <1>1, <1>8, <1>10, <1>11, CompleteSplit
<1>17. SpecTree(in, 0, TRUE)
        = RootParent(NodeOf(in, 0, 0, SpecLeft(l)), NodeOf(in, 0, SpecLeft(l), l - SpecLeft(l)))
  BY <1>16, SpecTreeIs DEF l
<1>18. Merge(vals, 0, t) = NodeOf(in, 0, 0, u)
  BY <1>9, <1>12, <1>14, Zenon DEF u
<1>19. Merge(vals, t, k - t) = NodeOf(in, 0, u, l - u)
  BY <1>9, <1>13, <1>14, Zenon DEF u, v
<1> QED  BY <1>4, <1>15, <1>17, <1>18, <1>19, Zenon

-----------------------------------------------------------------------------
(* radix_sort.  A stable sort of n elements is an arrangement: a function  *)
(* from the places before to the places after that keeps the order of the  *)
(* elements (Before).  There is exactly one, so a sort is stable if it has *)
(* one (IsSortOf); inserting extends it, a pass composes it with another.  *)

Iterates(f, m, V, first, step) ==
  /\ f \in [0..m -> V]
  /\ f[0] = first
  /\ \A k \in 1..m : f[k] = step[<<f[k - 1], k>>]

(* A loop of m turns over the states in V has its run: the state after     *)
(* each turn is what the turn makes of the one before.                     *)
LEMMA IterationExists ==
  ASSUME NEW m \in Nat, NEW V, NEW first \in V, NEW step \in [V \X (1..m) -> V]
  PROVE  \E f : Iterates(f, m, V, first, step)
<1> DEFINE D == 0..m
           rank == [k \in D |-> k]
           s == [fk \in [D -> V] \X D |->
                   IF fk[2] = 0 THEN first ELSE step[<<fk[1][fk[2] - 1], fk[2]>>]]
<1>1. Ranked(D, rank)
  BY DEF Ranked
<1>2. ASSUME NEW f \in [D -> V], NEW k \in D
      PROVE  s[<<f, k>>] = (IF k = 0 THEN first ELSE step[<<f[k - 1], k>>]) /\ s[<<f, k>>] \in V
  <2>1. s[<<f, k>>] = IF k = 0 THEN first ELSE step[<<f[k - 1], k>>]
    OBVIOUS
  <2>2. CASE k # 0
    <3>1. k - 1 \in D /\ k \in 1..m
      BY <2>2
    <3>2. <<f[k - 1], k>> \in V \X (1..m)
      BY <3>1
    <3> HIDE DEF s
    <3> QED  BY <2>1, <2>2, <3>2
  <2> HIDE DEF s
  <2> QED  BY <2>1, <2>2
<1>3. s \in [[D -> V] \X D -> V]
  <2>1. \A x \in [D -> V] \X D : x = <<x[1], x[2]>> /\ x[1] \in [D -> V] /\ x[2] \in D
    OBVIOUS
  <2>2. DOMAIN s = [D -> V] \X D /\ s = [x \in DOMAIN s |-> s[x]]
    OBVIOUS
  <2> HIDE DEF s, D
  <2>3. \A x \in [D -> V] \X D : s[x] \in V
    BY <1>2, <2>1
  <2> QED  BY <2>2, <2>3
<1>4. Steps(D, V, s)
  BY <1>3 DEF Steps
<1>5. Local(D, V, rank, s)
  <2> HIDE DEF s
  <2> SUFFICES ASSUME NEW k \in D, NEW f \in [D -> V], NEW g \in [D -> V],
                      \A j \in D : rank[j] < rank[k] => f[j] = g[j]
               PROVE  s[<<f, k>>] = s[<<g, k>>]
    BY Zenon DEF Local
  <2>1. CASE k = 0
    BY <1>2, <2>1
  <2>2. CASE k # 0
    <3>1. k - 1 \in D /\ rank[k - 1] < rank[k]
      BY <2>2
    <3>2. f[k - 1] = g[k - 1]
      BY <3>1
    <3> QED  BY <1>2, <3>2
  <2> QED  BY <2>1, <2>2
<1> HIDE DEF s, rank
<1>6. PICK f : Solves(f, D, V, s)
  BY <1>1, <1>4, <1>5, RecursionExists
<1>7. f \in [D -> V] /\ \A k \in D : f[k] = IF k = 0 THEN first ELSE step[<<f[k - 1], k>>]
  BY <1>2, <1>6 DEF Solves
<1>8. 0 \in D /\ \A k \in 1..m : k \in D /\ k # 0
  OBVIOUS
<1>9. f[0] = first /\ \A k \in 1..m : f[k] = step[<<f[k - 1], k>>]
  <2> HIDE DEF D
  <2> QED  BY <1>7, <1>8
<1>10. Iterates(f, m, V, first, step)
  BY <1>7, <1>9 DEF Iterates
<1> QED  BY <1>10

(* f[i] is 2^i: TwoTo's recursion.                                         *)
Doubles(f, n) == f = [i \in 0..n |-> IF i = 0 THEN 1 ELSE 2 * f[i - 1]]
(* Where a power of two comes from: one, doubled so many times.            *)
LEMMA TwoToIs ==
  ASSUME NEW n \in Nat
  PROVE  \E f \in [0..n -> Nat \ {0}] :
           f[0] = 1 /\ (\A k \in 1..n : f[k] = 2 * f[k - 1]) /\ TwoTo(n) = f[n]
<1> DEFINE pow == CHOOSE f : Doubles(f, n)
           V == Nat \ {0}
           step == [vk \in V \X (1..n) |-> 2 * vk[1]]
<1>1. step \in [V \X (1..n) -> V] /\ 1 \in V
  OBVIOUS
<1>2. \A v \in V, k \in 1..n : step[<<v, k>>] = 2 * v
  OBVIOUS
<1> HIDE DEF step
<1>3. PICK g : Iterates(g, n, V, 1, step)
  <2> HIDE DEF V
  <2> QED  BY <1>1, IterationExists
<1>31. g \in [0..n -> V] /\ g[0] = 1
  BY <1>3 DEF Iterates
<1>4. \A k \in 1..n : g[k] = 2 * g[k - 1]
  <2> SUFFICES ASSUME NEW k \in 1..n PROVE g[k] = 2 * g[k - 1]
    OBVIOUS
  <2>1. k - 1 \in 0..n
    OBVIOUS
  <2>2. g[k - 1] \in V
    BY <1>31, <2>1
  <2>3. g[k] = step[<<g[k - 1], k>>]
    BY <1>3 DEF Iterates
  <2> HIDE DEF V
  <2> QED  BY <1>2, <2>2, <2>3
<1>5. Doubles(g, n)
  <2>1. g = [i \in 0..n |-> g[i]]
    BY <1>31
  <2>2. \A i \in 0..n : g[i] = IF i = 0 THEN 1 ELSE 2 * g[i - 1]
    BY <1>31, <1>4
  <2> QED  BY <2>1, <2>2 DEF Doubles
<1>6. Doubles(pow, n)
  BY <1>5
<1>7. TwoTo(n) = pow[n]
  BY DEF TwoTo, Doubles
<1> HIDE DEF pow
<1>8. DOMAIN pow = 0..n /\ \A i \in 0..n : pow[i] = IF i = 0 THEN 1 ELSE 2 * pow[i - 1]
  BY <1>6 DEF Doubles
<1>9. pow[0] = 1 /\ \A k \in 1..n : pow[k] = 2 * pow[k - 1]
  BY <1>8
<1>10. {k \in 0..n : pow[k] # g[k]} = {}
  <2> DEFINE Bad == {k \in 0..n : pow[k] # g[k]}
  <2>1. SUFFICES ASSUME Bad # {} PROVE FALSE
    OBVIOUS
  <2>2. Bad \subseteq Nat
    OBVIOUS
  <2> HIDE DEF Bad
  <2>3. PICK k \in Bad : \A j \in Bad : k <= j
    BY <2>1, <2>2, LeastNumber
  <2> USE DEF Bad
  <2>4. k \in 0..n /\ k # 0
    BY <1>31, <1>9, <2>3
  <2>5. k - 1 \in 0..n /\ ~(k <= k - 1) /\ k \in 1..n
    BY <2>4
  <2>6. pow[k - 1] = g[k - 1]
    BY <2>3, <2>5
  <2>7. pow[k] # g[k]
    BY <2>3
  <2> QED  BY <1>4, <1>9, <2>5, <2>6, <2>7
<1>11. pow = g
  <2>1. pow = [i \in 0..n |-> pow[i]] /\ g = [i \in 0..n |-> g[i]]
    BY <1>31, <1>6 DEF Doubles
  <2>2. \A i \in 0..n : pow[i] = g[i]
    BY <1>10
  <2> QED  BY <2>1, <2>2
<1> QED  BY <1>31, <1>4, <1>7, <1>11

(* No bit,                                                                 *)
LEMMA TwoToZero == TwoTo(0) = 1
<1>1. PICK f \in [0..0 -> Nat \ {0}] :
        f[0] = 1 /\ (\A k \in 1..0 : f[k] = 2 * f[k - 1]) /\ TwoTo(0) = f[0]
  BY TwoToIs
<1> QED  BY <1>1

(* One more bit.                                                           *)
LEMMA TwoToNext ==
  ASSUME NEW n \in Nat
  PROVE  TwoTo(n) \in Nat \ {0} /\ TwoTo(n + 1) = 2 * TwoTo(n)
<1>1. PICK f \in [0..n -> Nat \ {0}] :
        f[0] = 1 /\ (\A k \in 1..n : f[k] = 2 * f[k - 1]) /\ TwoTo(n) = f[n]
  BY TwoToIs
<1>2. PICK g \in [0..(n + 1) -> Nat \ {0}] :
        g[0] = 1 /\ (\A k \in 1..(n + 1) : g[k] = 2 * g[k - 1]) /\ TwoTo(n + 1) = g[n + 1]
  <2>1. n + 1 \in Nat
    OBVIOUS
  <2>2. \A k \in Nat : \E g \in [0..k -> Nat \ {0}] :
          g[0] = 1 /\ (\A j \in 1..k : g[j] = 2 * g[j - 1]) /\ TwoTo(k) = g[k]
    BY TwoToIs
  <2> QED  BY <2>1, <2>2, Zenon
<1>3. \A k \in 0..n : f[k] = g[k]
  <2> DEFINE Bad == {k \in 0..n : f[k] # g[k]}
  <2>1. SUFFICES ASSUME Bad # {} PROVE FALSE
    OBVIOUS
  <2>2. Bad \subseteq Nat
    OBVIOUS
  <2> HIDE DEF Bad
  <2>3. PICK k \in Bad : \A j \in Bad : k <= j
    BY <2>1, <2>2, LeastNumber
  <2> USE DEF Bad
  <2>4. k \in 0..n /\ k # 0
    BY <1>1, <1>2, <2>3
  <2>5. k - 1 \in 0..n /\ ~(k <= k - 1) /\ k \in 1..n /\ k \in 1..(n + 1)
    BY <2>4
  <2>6. f[k - 1] = g[k - 1]
    BY <2>3, <2>5
  <2> QED  BY <1>1, <1>2, <2>3, <2>5, <2>6
<1>4. n \in 0..n /\ n + 1 \in 1..(n + 1) /\ n + 1 - 1 = n
  OBVIOUS
<1>5. TwoTo(n + 1) = 2 * g[n]
  BY <1>2, <1>4
<1> QED  BY <1>1, <1>3, <1>4, <1>5

(* Powers of two multiply as their exponents add,                          *)
LEMMA TwoToSum ==
  ASSUME NEW a \in Nat, NEW b \in Nat
  PROVE  TwoTo(a + b) = TwoTo(a) * TwoTo(b)
<1> DEFINE Bad == {n \in Nat : TwoTo(a + n) # TwoTo(a) * TwoTo(n)}
<1>1. SUFFICES ASSUME Bad # {} PROVE FALSE
  OBVIOUS
<1>2. Bad \subseteq Nat
  OBVIOUS
<1> HIDE DEF Bad
<1>3. PICK n \in Bad : \A j \in Bad : n <= j
  BY <1>1, <1>2, LeastNumber
<1> USE DEF Bad
<1>4. n \in Nat /\ TwoTo(a + n) # TwoTo(a) * TwoTo(n)
  BY <1>3
<1>5. n # 0
  <2>1. TwoTo(a) \in Nat \ {0}
    BY TwoToNext
  <2>2. TwoTo(a + 0) = TwoTo(a) * 1
    BY <2>1
  <2> QED  BY <1>4, <2>2, TwoToZero
<1> DEFINE m == n - 1
<1>6. m \in Nat /\ ~(n <= m) /\ n = m + 1 /\ a + n = (a + m) + 1 /\ a + m \in Nat
  BY <1>4, <1>5
<1>7. TwoTo(a + m) = TwoTo(a) * TwoTo(m)
  BY <1>3, <1>6
<1> HIDE DEF m, Bad
<1>8. TwoTo(n) = 2 * TwoTo(m) /\ TwoTo(a + n) = 2 * TwoTo(a + m)
  BY <1>6, TwoToNext
<1>9. PICK x \in Nat, y \in Nat : x = TwoTo(a) /\ y = TwoTo(m)
  BY <1>6, TwoToNext
<1>10. 2 * (x * y) = x * (2 * y)
  OBVIOUS
<1> QED  BY <1>4, <1>7, <1>8, <1>9, <1>10

(* are greater than them,                                                  *)
LEMMA TwoToGrows ==
  ASSUME NEW n \in Nat  PROVE n < TwoTo(n)
<1> DEFINE Bad == {k \in Nat : ~(k < TwoTo(k))}
<1>1. SUFFICES ASSUME Bad # {} PROVE FALSE
  OBVIOUS
<1>2. Bad \subseteq Nat
  OBVIOUS
<1> HIDE DEF Bad
<1>3. PICK k \in Bad : \A j \in Bad : k <= j
  BY <1>1, <1>2, LeastNumber
<1> USE DEF Bad
<1>4. k \in Nat /\ ~(k < TwoTo(k))
  BY <1>3
<1>5. k # 0
  BY <1>4, TwoToZero
<1> DEFINE m == k - 1
<1>6. m \in Nat /\ ~(k <= m) /\ k = m + 1
  BY <1>4, <1>5
<1>7. m < TwoTo(m)
  BY <1>3, <1>6
<1> HIDE DEF m, Bad
<1>8. TwoTo(k) = 2 * TwoTo(m) /\ TwoTo(m) \in Nat
  BY <1>6, TwoToNext
<1> QED  BY <1>4, <1>6, <1>7, <1>8

(* and in their order.                                                     *)
LEMMA TwoToMono ==
  ASSUME NEW a \in Nat, NEW b \in Nat, a <= b
  PROVE  TwoTo(a) <= TwoTo(b)
<1>1. b - a \in Nat /\ a + (b - a) = b
  OBVIOUS
<1>2. PICK x \in Nat, y \in Nat \ {0} : x = TwoTo(a) /\ y = TwoTo(b - a)
  BY <1>1, TwoToNext
<1>3. x <= x * y
  BY TimesMono
<1> QED  BY <1>1, <1>2, <1>3, TwoToSum

(* The remainder by a product has two digits.                              *)
LEMMA ModTimes ==
  ASSUME NEW x \in Nat, NEW m \in Nat \ {0}, NEW n \in Nat \ {0}
  PROVE  x % (m * n) = (x % m) + m * ((x \div m) % n)
<1> DEFINE q == x \div m
           r == x % m
           u == q \div n
           v == q % n
<1>1. q \in Nat /\ r \in 0..(m - 1) /\ x = m * q + r
  BY DivMod
<1>2. u \in Nat /\ v \in 0..(n - 1) /\ q = n * u + v
  BY <1>1, DivMod
<1> HIDE DEF q, r, u, v
<1> DEFINE mn == m * n
           low == r + m * v
<1>3. mn \in Nat \ {0} /\ low \in Nat
  BY <1>1, <1>2
<1>4. x = mn * u + low
  <2>1. m * (n * u + v) = (m * n) * u + m * v
    BY <1>2
  <2> QED  BY <1>1, <1>2, <2>1
<1>5. low < mn
  <2>1. m * v <= m * (n - 1)
    BY <1>2
  <2>2. m * (n - 1) = m * n - m
    OBVIOUS
  <2>3. m * v \in Nat /\ m * n \in Nat
    BY <1>2
  <2> QED  BY <1>1, <2>1, <2>2, <2>3
<1> HIDE DEF mn, low
<1>6. x % mn = low
  BY <1>2, <1>3, <1>4, <1>5
<1> QED  BY <1>6 DEF mn, low, r, v, q

(* What comes before what in a stable sort of n elements, whose keys are k. *)
Before(k, i, j) == k[i] < k[j] \/ (k[i] = k[j] /\ i < j)
AreKeys(k, n) == k \in [1..n -> Nat]

(* p says where each element goes.                                         *)
Arranges(p, n, k) ==
  p \in [1..n -> 1..n] /\ \A i, j \in 1..n : Before(k, i, j) => p[i] < p[j]

(* Of two elements one comes before the other,                             *)
LEMMA BeforeIsTotal ==
  ASSUME NEW n \in Nat, NEW k, AreKeys(k, n), NEW i \in 1..n, NEW j \in 1..n
  PROVE  /\ i = j \/ Before(k, i, j) \/ Before(k, j, i)
         /\ ~(Before(k, i, j) /\ Before(k, j, i))
         /\ ~Before(k, i, i)
BY DEF AreKeys, Before

(* and what comes before that, comes before both.                          *)
LEMMA BeforeIsTransitive ==
  ASSUME NEW n \in Nat, NEW k, AreKeys(k, n), NEW i \in 1..n, NEW j \in 1..n, NEW l \in 1..n,
         Before(k, i, j), Before(k, j, l)
  PROVE  Before(k, i, l)
BY DEF AreKeys, Before

(* No two elements get one place, and the places are in the order of the   *)
(* elements.                                                               *)
LEMMA ArrangedIsOneToOne ==
  ASSUME NEW n \in Nat, NEW k, AreKeys(k, n), NEW p, Arranges(p, n, k),
         NEW i \in 1..n, NEW j \in 1..n
  PROVE  /\ p[i] = p[j] => i = j
         /\ p[i] < p[j] <=> Before(k, i, j)
<1>1. p[i] \in Nat /\ p[j] \in Nat
  BY DEF Arranges
<1>2. (Before(k, i, j) => p[i] < p[j]) /\ (Before(k, j, i) => p[j] < p[i])
  BY DEF Arranges
<1>3. i = j \/ Before(k, i, j) \/ Before(k, j, i)
  BY BeforeIsTotal
<1> QED  BY <1>1, <1>2, <1>3, BeforeIsTotal

(* The numbers up to c.                                                    *)
LEMMA CountUpTo ==
  ASSUME NEW c \in Nat  PROVE IsFiniteSet(1..c) /\ Cardinality(1..c) = c
<1>1. 1 \in Int /\ c \in Int
  OBVIOUS
<1>2. IsFiniteSet(1..c) /\ Cardinality(1..c) = IF 1 > c THEN 0 ELSE c - 1 + 1
  BY <1>1, FS_Interval
<1> QED  BY <1>2

(* Everything has its place, and every place its element.                  *)
LEMMA ArrangedIsOnto ==
  ASSUME NEW n \in Nat, NEW k, AreKeys(k, n), NEW p, Arranges(p, n, k), NEW q \in 1..n
  PROVE  \E i \in 1..n : p[i] = q
<1>1. IsFiniteSet(1..n) /\ Cardinality(1..n) = n
  BY CountUpTo
<1>2. p \in Injection(1..n, 1..n)
  <2>1. p \in [1..n -> 1..n] /\ DOMAIN p = 1..n
    BY DEF Arranges
  <2>2. \A i, j \in DOMAIN p : p[i] = p[j] => i = j
    BY <2>1, ArrangedIsOneToOne
  <2> QED  BY <2>1, <2>2 DEF Injection, IsInjective
<1>3. p \in Surjection(1..n, 1..n)
  BY <1>1, <1>2, FS_Injection
<1> QED  BY <1>3 DEF Surjection

(* p leaves no place empty.                                                *)
Fills(p, n) == \A q \in 1..n : \E i \in 1..n : p[i] = q
(* The same of all places.                                                 *)
LEMMA ArrangedFills ==
  ASSUME NEW n \in Nat, NEW k, AreKeys(k, n), NEW p, Arranges(p, n, k)
  PROVE  Fills(p, n)
BY ArrangedIsOnto DEF Fills

(* The elements before i.                                                  *)
AheadOf(k, n, i) == {j \in 1..n : Before(k, j, i)}
(* There is only one arrangement: the place of an element is one more than *)
(* the number of those before it,                                          *)
LEMMA ArrangedIsRank ==
  ASSUME NEW n \in Nat, NEW k, AreKeys(k, n), NEW p, Arranges(p, n, k), NEW i \in 1..n
  PROVE  p[i] = Cardinality(AheadOf(k, n, i)) + 1
<1> DEFINE S == {j \in 1..n : Before(k, j, i)}
           T == 1..(p[i] - 1)
           f == [j \in S |-> p[j]]
<1>1. p \in [1..n -> 1..n] /\ p[i] \in 1..n
  BY DEF Arranges
<1>2. IsFiniteSet(T) /\ Cardinality(T) = p[i] - 1
  <2>1. p[i] - 1 \in Nat
    BY <1>1
  <2> QED  BY <2>1, CountUpTo
<1>3. ASSUME NEW j \in S  PROVE f[j] = p[j] /\ p[j] \in T
  <2>1. j \in 1..n /\ Before(k, j, i) /\ p[j] \in 1..n
    BY <1>1
  <2>2. p[j] < p[i]
    BY <2>1 DEF Arranges
  <2> QED  BY <1>1, <2>1, <2>2
<1>4. f \in [S -> T]
  BY <1>3
<1>5. \A a, b \in S : f[a] = f[b] => a = b
  BY <1>3, ArrangedIsOneToOne
<1>6. \A q \in T : \E j \in S : f[j] = q
  <2> SUFFICES ASSUME NEW q \in T PROVE \E j \in S : f[j] = q
    OBVIOUS
  <2>1. q \in 1..n /\ q < p[i]
    BY <1>1
  <2>2. PICK j \in 1..n : p[j] = q
    BY <2>1, ArrangedIsOnto
  <2>3. j \in S
    BY <2>1, <2>2, ArrangedIsOneToOne
  <2> QED  BY <1>3, <2>2, <2>3
<1> HIDE DEF S, T, f
<1>7. f \in Injection(S, T)
  BY <1>4, <1>5 DEF Injection, IsInjective
<1>8. f \in Surjection(S, T)
  BY <1>4, <1>6 DEF Surjection
<1>9. IsFiniteSet(S)
  BY <1>2, <1>7, FS_Injection
<1>10. Cardinality(S) = Cardinality(T)
  BY <1>2, <1>7, <1>8, FS_Injection
<1> QED  BY <1>1, <1>2, <1>9, <1>10 DEF S, AheadOf

(* The place behind them.                                                  *)
Rank(k, n) == [i \in 1..n |-> 1 + Cardinality(AheadOf(k, n, i))]
(* and that is an arrangement.                                             *)
LEMMA RankArranges ==
  ASSUME NEW n \in Nat, NEW k, AreKeys(k, n)
  PROVE  Arranges(Rank(k, n), n, k)
<1> DEFINE S(i) == {j \in 1..n : Before(k, j, i)}
<1>1. IsFiniteSet(1..n) /\ Cardinality(1..n) = n
  BY CountUpTo
<1>2. ASSUME NEW i \in 1..n
      PROVE  /\ IsFiniteSet(S(i)) /\ Cardinality(S(i)) \in Nat
             /\ i \notin S(i)
             /\ IsFiniteSet(S(i) \cup {i}) /\ Cardinality(S(i) \cup {i}) = Cardinality(S(i)) + 1
  <2>1. S(i) \in SUBSET (1..n) /\ i \notin S(i)
    BY BeforeIsTotal
  <2> HIDE DEF S
  <2>2. IsFiniteSet(S(i))
    BY <1>1, <2>1, FS_Subset
  <2> QED  BY <2>1, <2>2, FS_CardinalityType, FS_AddElement
<1> DEFINE c == [i \in 1..n |-> Cardinality(S(i))]
<1>3. c \in [1..n -> Nat] /\ \A i \in 1..n : c[i] = Cardinality(S(i))
  BY <1>2
<1>4. Rank(k, n) = [i \in 1..n |-> 1 + c[i]]
  <2>1. Rank(k, n) = [i \in 1..n |-> 1 + Cardinality(S(i))]
    BY DEF Rank, AheadOf
  <2> QED  BY <2>1
<1> HIDE DEF c
<1>5. \A i \in 1..n : c[i] + 1 <= n
  <2> SUFFICES ASSUME NEW i \in 1..n PROVE c[i] + 1 <= n
    OBVIOUS
  <2>1. S(i) \cup {i} \in SUBSET (1..n)
    OBVIOUS
  <2> HIDE DEF S
  <2>2. Cardinality(S(i) \cup {i}) <= n
    BY <1>1, <2>1, FS_Subset
  <2>3. Cardinality(S(i) \cup {i}) = c[i] + 1
    BY <1>2, <1>3
  <2> QED  BY <2>2, <2>3
<1>6. ASSUME NEW i \in 1..n, NEW j \in 1..n, Before(k, i, j)
      PROVE  c[i] < c[j]
  <2>1. S(i) \cup {i} \in SUBSET S(j)
    BY <1>6, BeforeIsTransitive
  <2> HIDE DEF S
  <2>2. Cardinality(S(i) \cup {i}) <= Cardinality(S(j))
    BY <1>2, <2>1, FS_Subset
  <2>3. Cardinality(S(i) \cup {i}) = c[i] + 1 /\ Cardinality(S(j)) = c[j]
    BY <1>2, <1>3
  <2>4. c[i] \in Nat /\ c[j] \in Nat
    BY <1>3
  <2> QED  BY <2>2, <2>3, <2>4
<1> HIDE DEF S
<1>7. \A i \in 1..n : 1 + c[i] \in 1..n
  <2> SUFFICES ASSUME NEW i \in 1..n PROVE 1 + c[i] \in 1..n
    OBVIOUS
  <2>1. c[i] \in Nat /\ c[i] + 1 <= n
    BY <1>3, <1>5
  <2> QED  BY <2>1
<1>8. \A i, j \in 1..n : Before(k, i, j) => 1 + c[i] < 1 + c[j]
  BY <1>3, <1>6
<1> QED  BY <1>4, <1>7, <1>8 DEF Arranges

-----------------------------------------------------------------------------
(* out is a sorted by the keys key, stably.                                *)
KeysAt(a, key) == [i \in 1..Len(a) |-> key[a[i]]]
Puts(out, a, m, p) == \A i \in 1..m : out[p[i]] = a[i]
SortedTo(out, a, key, p) ==
  Len(out) = Len(a) /\ Arranges(p, Len(a), KeysAt(a, key)) /\ Puts(out, a, Len(a), p)
IsSortOf(out, a, key) == \E p : SortedTo(out, a, key, p)

(* The keys of a list are numbers.                                         *)
LEMMA KeysAtIs ==
  ASSUME NEW X, NEW a \in Seq(X), NEW key \in [X -> Nat]
  PROVE  /\ AreKeys(KeysAt(a, key), Len(a)) /\ Len(a) \in Nat /\ DOMAIN a = 1..Len(a)
         /\ \A i \in 1..Len(a) : a[i] \in X /\ KeysAt(a, key)[i] = key[a[i]]
<1>1. Len(a) \in Nat /\ DOMAIN a = 1..Len(a) /\ \A i \in 1..Len(a) : a[i] \in X
  BY LenProperties, ElementOfSeq
<1> QED  BY <1>1 DEF AreKeys, KeysAt

(* This is what IsStableSort asks for.                                     *)
LEMMA SortIsStable ==
  ASSUME NEW X, NEW a \in Seq(X), NEW key \in [X -> Nat], NEW out, IsSortOf(out, a, key)
  PROVE  IsStableSort(out, a, key)
<1>1. PICK p : SortedTo(out, a, key, p)
  BY DEF IsSortOf
<1> DEFINE n == Len(a)
           k == KeysAt(a, key)
<1>2. /\ AreKeys(k, n) /\ n \in Nat /\ DOMAIN a = 1..n
      /\ \A i \in 1..n : a[i] \in X /\ k[i] = key[a[i]]
  BY KeysAtIs
<1>3. Len(out) = n /\ Arranges(p, n, k) /\ \A i \in 1..n : out[p[i]] = a[i]
  BY <1>1 DEF SortedTo, Puts
<1> HIDE DEF k
<1>4. ASSUME NEW i \in DOMAIN a
      PROVE  out[Cardinality({j \in DOMAIN a :
                key[a[j]] < key[a[i]] \/ (key[a[j]] = key[a[i]] /\ j < i)}) + 1] = a[i]
  <2>1. {j \in DOMAIN a : key[a[j]] < key[a[i]] \/ (key[a[j]] = key[a[i]] /\ j < i)}
          = AheadOf(k, n, i)
    BY <1>2 DEF Before, AheadOf
  <2>2. i \in 1..n /\ n \in Nat /\ AreKeys(k, n) /\ Arranges(p, n, k) /\ out[p[i]] = a[i]
    BY <1>2, <1>3
  <2> HIDE DEF n
  <2>3. p[i] = Cardinality(AheadOf(k, n, i)) + 1
    BY <2>2, ArrangedIsRank
  <2> QED  BY <2>1, <2>2, <2>3
<1> QED  BY <1>3, <1>4 DEF IsStableSort

(* What is put elsewhere is still there.                                   *)
LEMMA ArrangedElements ==
  ASSUME NEW m \in Nat, NEW ks, AreKeys(ks, m), NEW p, Arranges(p, m, ks),
         NEW a, NEW out, DOMAIN a = 1..m, DOMAIN out = 1..m, Puts(out, a, m, p)
  PROVE  ToSet(out) = ToSet(a)
<1>1. \A i \in 1..m : p[i] \in 1..m
  BY DEF Arranges
<1>2. ASSUME NEW q \in 1..m  PROVE \E i \in 1..m : out[q] = a[i]
  <2>1. PICK i \in 1..m : p[i] = q
    BY ArrangedIsOnto
  <2> QED  BY <2>1 DEF Puts
<1>3. ToSet(out) \subseteq ToSet(a)
  BY <1>2 DEF ToSet
<1>4. ToSet(a) \subseteq ToSet(out)
  BY <1>1 DEF ToSet, Puts
<1> QED  BY <1>3, <1>4

(* The elements are those of the list.                                     *)
LEMMA SortKeepsElements ==
  ASSUME NEW X, NEW a \in Seq(X), NEW key \in [X -> Nat], NEW out, IsSortOf(out, a, key),
         NEW Y, out \in Seq(Y)
  PROVE  ToSet(out) = ToSet(a)
<1>1. PICK p : SortedTo(out, a, key, p)
  BY DEF IsSortOf
<1>2. /\ AreKeys(KeysAt(a, key), Len(a)) /\ Len(a) \in Nat
      /\ DOMAIN a = 1..Len(a) /\ DOMAIN out = 1..Len(a)
  BY <1>1, KeysAtIs DEF SortedTo
<1>3. Arranges(p, Len(a), KeysAt(a, key)) /\ Puts(out, a, Len(a), p)
  BY <1>1 DEF SortedTo
<1> QED  BY <1>2, <1>3, ArrangedElements

(* Neighbours in what comes out.                                           *)
LEMMA SortIsSorted ==
  ASSUME NEW X, NEW a \in Seq(X), NEW key \in [X -> Nat], NEW out, IsSortOf(out, a, key),
         NEW x \in 1..Len(a), NEW y \in 1..Len(a), x < y
  PROVE  key[out[x]] <= key[out[y]]
<1>1. PICK p : SortedTo(out, a, key, p)
  BY DEF IsSortOf
<1> DEFINE n == Len(a)
           k == KeysAt(a, key)
<1>2. /\ AreKeys(k, n) /\ n \in Nat /\ DOMAIN a = 1..n
      /\ \A i \in 1..n : a[i] \in X /\ k[i] = key[a[i]]
  BY KeysAtIs
<1>3. Len(out) = n /\ Arranges(p, n, k) /\ \A i \in 1..n : out[p[i]] = a[i]
  BY <1>1 DEF SortedTo, Puts
<1> HIDE DEF k, n
<1>4. x \in 1..n /\ y \in 1..n
  BY DEF n
<1> Fills(p, n)
  BY <1>2, <1>3, ArrangedFills
<1>5. PICK i \in 1..n : p[i] = x
  BY <1>4 DEF Fills
<1>6. PICK j \in 1..n : p[j] = y
  BY <1>4 DEF Fills
<1>7. Before(k, i, j)
  BY <1>2, <1>3, <1>5, <1>6, ArrangedIsOneToOne
<1>8. k[i] \in Nat /\ k[j] \in Nat
  BY <1>2 DEF AreKeys
<1>9. key[out[x]] = k[i] /\ key[out[y]] = k[j]
  BY <1>2, <1>3, <1>5, <1>6
<1> QED  BY <1>7, <1>8, <1>9 DEF Before

(* No element has a smaller key than the one before it.                    *)
Ascending(a, key) == \A i \in 2..Len(a) : key[a[i - 1]] <= key[a[i]]

(* Such a list is sorted as it is.                                         *)
LEMMA AscendingIsSorted ==
  ASSUME NEW X, NEW a \in Seq(X), NEW key \in [X -> Nat], Ascending(a, key)
  PROVE  IsSortOf(a, a, key)
<1> DEFINE m == Len(a)
           ks == KeysAt(a, key)
           p == [i \in 1..m |-> i]
<1>1. /\ AreKeys(ks, m) /\ m \in Nat
      /\ \A i \in 1..m : a[i] \in X /\ ks[i] = key[a[i]]
  BY KeysAtIs
<1>2. \A i \in 2..m : ks[i - 1] <= ks[i]
  <2> SUFFICES ASSUME NEW i \in 2..m PROVE ks[i - 1] <= ks[i]
    OBVIOUS
  <2>1. i \in 1..m /\ i - 1 \in 1..m
    BY <1>1
  <2>2. key[a[i - 1]] <= key[a[i]]
    BY DEF Ascending
  <2> HIDE DEF ks, m
  <2> QED  BY <1>1, <2>1, <2>2
<1> HIDE DEF ks, m
<1> DEFINE Bad == {j \in 1..m : \E i \in 1..m : i < j /\ ks[j] < ks[i]}
<1>3. Bad = {}
  <2>1. SUFFICES ASSUME Bad # {} PROVE FALSE
    OBVIOUS
  <2>2. Bad \subseteq Nat
    OBVIOUS
  <2> HIDE DEF Bad
  <2>3. PICK j \in Bad : \A l \in Bad : j <= l
    BY <2>1, <2>2, LeastNumber
  <2> USE DEF Bad
  <2>4. j \in 1..m
    BY <2>3
  <2>5. PICK i \in 1..m : i < j /\ ks[j] < ks[i]
    BY <2>3
  <2>6. j \in 2..m /\ j - 1 \in 1..m /\ ~(j <= j - 1)
    BY <1>1, <2>4, <2>5
  <2>7. ks[j - 1] <= ks[j]
    BY <1>2, <2>6
  <2>8. ks[j] \in Nat /\ ks[i] \in Nat /\ ks[j - 1] \in Nat
    BY <1>1, <2>4, <2>5, <2>6 DEF AreKeys
  <2>9. j - 1 \notin Bad
    BY <2>3, <2>6
  <2>10. ~(i < j - 1 /\ ks[j - 1] < ks[i])
    BY <2>6, <2>9
  <2> HIDE DEF Bad
  <2>11. i = j - 1
    BY <2>4, <2>5, <2>7, <2>8, <2>10
  <2> QED  BY <2>5, <2>7, <2>8, <2>11
<1>4. \A i, j \in 1..m : Before(ks, i, j) => i < j
  <2> SUFFICES ASSUME NEW i \in 1..m, NEW j \in 1..m, Before(ks, i, j) PROVE i < j
    OBVIOUS
  <2>1. ~(j < i /\ ks[i] < ks[j])
    BY <1>3
  <2>2. ks[j] \in Nat /\ ks[i] \in Nat
    BY <1>1 DEF AreKeys
  <2> QED  BY <2>1, <2>2 DEF Before
<1>5. p \in [1..m -> 1..m] /\ \A i \in 1..m : p[i] = i
  OBVIOUS
<1> HIDE DEF p
<1>6. Arranges(p, m, ks)
  BY <1>4, <1>5 DEF Arranges
<1>7. Puts(a, a, m, p)
  BY <1>5 DEF Puts
<1>8. SortedTo(a, a, key, p)
  BY <1>6, <1>7 DEF SortedTo, m, ks
<1> QED  BY <1>8 DEF IsSortOf

(* t holds s, moved up by one from place q on.                             *)
ShiftedBehind(t, s, q) == \A i \in 1..Len(s) : t[IF i < q THEN i ELSE i + 1] = s[i]
(* A sequence with x put in at place q.                                    *)
LEMMA InsertAtIs ==
  ASSUME NEW X, NEW s \in Seq(X), NEW x \in X, NEW q \in 1..(Len(s) + 1)
  PROVE  /\ InsertAt(s, q, x) \in Seq(X)
         /\ Len(InsertAt(s, q, x)) = Len(s) + 1
         /\ InsertAt(s, q, x)[q] = x
         /\ ShiftedBehind(InsertAt(s, q, x), s, q)
<1> DEFINE m == Len(s)
           u == SubSeq(s, 1, q - 1)
           v == SubSeq(s, q, m)
           ux == u \o <<x>>
           t == ux \o v
<1>1. m \in Nat /\ q \in Nat /\ q >= 1 /\ q <= m + 1
  BY LenProperties
<1>2. u \in Seq(X) /\ Len(u) = q - 1 /\ \A i \in 1..(q - 1) : u[i] = s[i]
  <2>1. \A i \in 1..(q - 1) : s[i] \in X
    BY <1>1, ElementOfSeq
  <2>2. 1 \in Int /\ q - 1 \in Int
    BY <1>1
  <2>3. u \in Seq(X) /\ Len(u) = (IF 1 <= q - 1 THEN q - 1 - 1 + 1 ELSE 0)
    BY <2>1, <2>2, SubSeqProperties
  <2>4. \A i \in 1..(q - 1 - 1 + 1) : u[i] = s[1 + i - 1]
    BY <2>1, <2>2, SubSeqProperties
  <2> HIDE DEF u
  <2>5. q - 1 - 1 + 1 = q - 1 /\ \A i \in 1..(q - 1) : 1 + i - 1 = i
    BY <1>1
  <2> QED  BY <1>1, <2>3, <2>4, <2>5
<1>3. v \in Seq(X) /\ Len(v) = m - q + 1 /\ \A i \in 1..(m - q + 1) : v[i] = s[q + i - 1]
  <2>1. \A i \in q..m : s[i] \in X
    BY <1>1, ElementOfSeq
  <2>2. q \in Int /\ m \in Int
    BY <1>1
  <2>3. v \in Seq(X) /\ Len(v) = (IF q <= m THEN m - q + 1 ELSE 0)
    BY <2>1, <2>2, SubSeqProperties
  <2>4. \A i \in 1..(m - q + 1) : v[i] = s[q + i - 1]
    BY <2>1, <2>2, SubSeqProperties
  <2> HIDE DEF v, m
  <2> QED  BY <1>1, <2>3, <2>4
<1> HIDE DEF u, v
<1>4. ux \in Seq(X) /\ Len(ux) = q /\ ux[q] = x /\ \A i \in 1..(q - 1) : ux[i] = s[i]
  <2>1. <<x>> \in Seq(X) /\ Len(<<x>>) = 1 /\ <<x>>[1] = x
    OBVIOUS
  <2>2. ux \in Seq(X) /\ Len(ux) = Len(u) + Len(<<x>>)
    BY <1>2, <2>1, ConcatProperties
  <2>3. \A i \in 1..(Len(u) + Len(<<x>>)) : ux[i] = IF i <= Len(u) THEN u[i] ELSE <<x>>[i - Len(u)]
    BY <1>2, <2>1, ConcatProperties
  <2> HIDE DEF ux
  <2>4. Len(ux) = q
    BY <1>1, <1>2, <2>1, <2>2
  <2>5. \A i \in 1..q : ux[i] = IF i <= q - 1 THEN u[i] ELSE <<x>>[i - (q - 1)]
    BY <1>1, <1>2, <2>1, <2>3
  <2>6. ux[q] = x
    BY <1>1, <2>1, <2>5
  <2>7. ASSUME NEW i \in 1..(q - 1)  PROVE ux[i] = s[i]
    <3>1. i \in 1..q /\ i <= q - 1
      BY <1>1
    <3>2. ux[i] = u[i]
      BY <2>5, <3>1
    <3> QED  BY <1>2, <3>2
  <2> QED  BY <2>2, <2>4, <2>6, <2>7
<1> HIDE DEF ux
<1>5. /\ t \in Seq(X) /\ Len(t) = m + 1
      /\ \A i \in 1..(m + 1) : t[i] = IF i <= q THEN ux[i] ELSE v[i - q]
  <2>1. t \in Seq(X) /\ Len(t) = Len(ux) + Len(v)
    BY <1>3, <1>4, ConcatProperties
  <2>2. \A i \in 1..(Len(ux) + Len(v)) : t[i] = IF i <= Len(ux) THEN ux[i] ELSE v[i - Len(ux)]
    BY <1>3, <1>4, ConcatProperties
  <2> HIDE DEF t, m
  <2>3. Len(ux) + Len(v) = m + 1
    BY <1>1, <1>3, <1>4
  <2> QED  BY <1>4, <2>1, <2>2, <2>3
<1>6. InsertAt(s, q, x) = t
  BY DEF InsertAt, t, ux, u, v, m
<1> HIDE DEF t, m
<1>7. t[q] = x
  BY <1>1, <1>4, <1>5
<1>8. ASSUME NEW i \in 1..m
      PROVE  t[IF i < q THEN i ELSE i + 1] = s[i]
  <2>1. CASE i < q
    <3>1. i \in 1..(m + 1) /\ i \in 1..(q - 1) /\ i <= q
      BY <1>1, <2>1
    <3> QED  BY <1>4, <1>5, <2>1, <3>1
  <2>2. CASE ~(i < q)
    <3>1. i + 1 \in 1..(m + 1) /\ ~(i + 1 <= q) /\ i + 1 - q \in 1..(m - q + 1)
          /\ q + (i + 1 - q) - 1 = i
      BY <1>1, <2>2
    <3>2. t[i + 1] = v[i + 1 - q]
      BY <1>5, <3>1
    <3>3. v[i + 1 - q] = s[q + (i + 1 - q) - 1]
      BY <1>3, <3>1
    <3> QED  BY <2>2, <3>1, <3>2, <3>3
  <2> QED  BY <2>1, <2>2
<1> QED  BY <1>5, <1>6, <1>7, <1>8 DEF m, ShiftedBehind

(* An element put behind the last that is not greater keeps the list       *)
(* sorted, and itself behind those that came before it.                    *)
LEMMA InsertIsSort ==
  ASSUME NEW X, NEW a \in Seq(X), NEW key \in [X -> Nat], NEW s \in Seq(X), NEW x \in X,
         IsSortOf(s, a, key)
  PROVE  Insert(s, x, key) \in Seq(X) /\ IsSortOf(Insert(s, x, key), Append(a, x), key)
<1>1. PICK p : SortedTo(s, a, key, p)
  BY DEF IsSortOf
<1>2. PICK m \in Nat : m = Len(a)
  BY KeysAtIs
<1> DEFINE ks == KeysAt(a, key)
           b == Append(a, x)
           kb == KeysAt(b, key)
           ones == {0} \cup {j \in DOMAIN s : key[s[j]] <= key[x]}
           top == Max(ones)
           place == 1 + top
           t == InsertAt(s, place, x)
           r == [i \in 1..(m + 1) |->
                   IF i = m + 1 THEN place ELSE IF p[i] < place THEN p[i] ELSE p[i] + 1]
<1>3. /\ AreKeys(ks, m) /\ Arranges(p, m, ks) /\ DOMAIN s = 1..m /\ Len(s) = m
      /\ \A i \in 1..m : a[i] \in X /\ ks[i] = key[a[i]] /\ s[p[i]] = a[i] /\ s[i] \in X
  BY <1>1, <1>2, KeysAtIs, ElementOfSeq DEF SortedTo, Puts
<1>4. b \in Seq(X) /\ Len(b) = m + 1 /\ b[m + 1] = x /\ \A i \in 1..m : b[i] = a[i]
  BY <1>2, AppendProperties
<1>5. AreKeys(kb, m + 1) /\ kb[m + 1] = key[x] /\ \A i \in 1..m : kb[i] = ks[i]
  <2>1. kb = [i \in 1..(m + 1) |-> key[b[i]]]
    BY <1>4 DEF KeysAt
  <2>2. \A i \in 1..(m + 1) : b[i] \in X
    BY <1>4, ElementOfSeq
  <2> HIDE DEF kb, ks, b
  <2>3. m + 1 \in 1..(m + 1) /\ \A i \in 1..m : i \in 1..(m + 1)
    OBVIOUS
  <2> QED  BY <1>3, <1>4, <2>1, <2>2, <2>3 DEF AreKeys
<1>6. top \in 0..m /\ top \in ones /\ \A n \in ones : n <= top
  <2>1. ones \subseteq 0..m /\ ones # {}
    BY <1>3
  <2> HIDE DEF ones
  <2> QED  BY <2>1, MaxIsMember
<1> HIDE DEF ks, b, kb, t
<1>7. /\ t \in Seq(X) /\ Len(t) = m + 1 /\ t[place] = x
      /\ \A i \in 1..m : t[IF i < place THEN i ELSE i + 1] = s[i]
  <2>1. place \in 1..(Len(s) + 1)
    BY <1>3, <1>6
  <2> HIDE DEF place
  <2>2. t \in Seq(X) /\ Len(t) = Len(s) + 1 /\ t[place] = x /\ ShiftedBehind(t, s, place)
    BY <2>1, InsertAtIs DEF t
  <2> QED  BY <1>3, <2>2 DEF ShiftedBehind
<1>8. top = 0 \/ (top \in 1..m /\ key[s[top]] <= key[x])
  BY <1>3, <1>6
<1>9. \A j \in 1..m : key[s[j]] <= key[x] => j < place
  BY <1>3, <1>6
<1> HIDE DEF top, ones
<1>10. place \in 1..(m + 1) /\ place = 1 + top
  BY <1>6
<1> HIDE DEF place
<1>11. \A i \in 1..m : p[i] \in 1..m
  BY <1>3 DEF Arranges
<1>12. r \in [1..(m + 1) -> 1..(m + 1)] /\ r[m + 1] = place
       /\ \A i \in 1..m : r[i] = IF p[i] < place THEN p[i] ELSE p[i] + 1
  BY <1>10, <1>11
<1> HIDE DEF r
<1>13. ASSUME NEW i \in 1..m, NEW j \in 1..m, Before(kb, i, j)
       PROVE  r[i] < r[j]
  <2>1. Before(ks, i, j)
    BY <1>5, <1>13 DEF Before
  <2>2. p[i] < p[j]
    BY <1>3, <2>1 DEF Arranges
  <2>3. /\ r[i] = IF p[i] < place THEN p[i] ELSE p[i] + 1
        /\ r[j] = IF p[j] < place THEN p[j] ELSE p[j] + 1
    BY <1>12
  <2>4. p[i] \in Nat /\ p[j] \in Nat /\ place \in Nat
    BY <1>10, <1>11
  <2> QED  BY <2>2, <2>3, <2>4
<1>14. ASSUME NEW i \in 1..m, Before(kb, i, m + 1)
       PROVE  r[i] < r[m + 1]
  <2>1. ks[i] <= key[x]
    <3>1. ks[i] \in Nat /\ key[x] \in Nat
      BY <1>3 DEF AreKeys
    <3> QED  BY <1>5, <1>14, <3>1 DEF Before
  <2>2. key[s[p[i]]] <= key[x]
    BY <1>3, <2>1
  <2>3. p[i] < place
    BY <1>9, <1>11, <2>2
  <2> QED  BY <1>12, <2>3
<1>15. ASSUME NEW j \in 1..m, Before(kb, m + 1, j)
       PROVE  r[m + 1] < r[j]
  <2>1. ks[j] \in Nat /\ key[x] \in Nat
    BY <1>3 DEF AreKeys
  <2>2. key[x] < ks[j]
    <3>1. kb[m + 1] = key[x] /\ kb[j] = ks[j] /\ ~(m + 1 < j)
      BY <1>5
    <3> QED  BY <1>15, <3>1 DEF Before
  <2>3. ~(p[j] < place)
    <3>1. CASE top = 0
      BY <1>10, <1>11, <3>1
    <3>2. CASE top \in 1..m /\ key[s[top]] <= key[x]
      <4>1. PICK i \in 1..m : p[i] = top
        <5>1. Fills(p, m)
          BY <1>3, ArrangedFills
        <5> QED  BY <3>2, <5>1 DEF Fills
      <4>2. ks[i] = key[s[top]] /\ ks[i] \in Nat
        BY <1>3, <4>1 DEF AreKeys
      <4>3. ks[i] < ks[j]
        BY <2>1, <2>2, <3>2, <4>2
      <4>4. p[i] < p[j]
        BY <1>3, <4>3 DEF Arranges, Before
      <4>5. p[j] \in Nat /\ top \in Nat
        BY <1>11, <3>2
      <4> QED  BY <1>10, <4>1, <4>4, <4>5
    <3> QED  BY <1>8, <3>1, <3>2
  <2>4. r[m + 1] = place /\ r[j] = IF p[j] < place THEN p[j] ELSE p[j] + 1
    BY <1>12
  <2>5. p[j] \in Nat /\ place \in Nat
    BY <1>10, <1>11
  <2> QED  BY <2>3, <2>4, <2>5
<1>16. ~Before(kb, m + 1, m + 1)
  <2>1. m + 1 \in Nat /\ m + 1 \in 1..(m + 1)
    OBVIOUS
  <2> QED  BY <1>5, <2>1, BeforeIsTotal
<1>17. Arranges(r, m + 1, kb)
  <2>1. \A i \in 1..(m + 1) : i \in 1..m \/ i = m + 1
    OBVIOUS
  <2>2. \A i, j \in 1..(m + 1) : Before(kb, i, j) => r[i] < r[j]
    BY <1>13, <1>14, <1>15, <1>16, <2>1
  <2> QED  BY <1>12, <2>2 DEF Arranges
<1>18. Puts(t, b, m + 1, r)
  <2> SUFFICES ASSUME NEW i \in 1..(m + 1) PROVE t[r[i]] = b[i]
    BY DEF Puts
  <2>1. CASE i = m + 1
    BY <1>4, <1>7, <1>12, <2>1
  <2>2. CASE i \in 1..m
    <3>1. r[i] = IF p[i] < place THEN p[i] ELSE p[i] + 1
      BY <1>12, <2>2
    <3>2. t[IF p[i] < place THEN p[i] ELSE p[i] + 1] = s[p[i]]
      BY <1>7, <1>11, <2>2
    <3> QED  BY <1>3, <1>4, <2>2, <3>1, <3>2
  <2> QED  BY <2>1, <2>2
<1>19. SortedTo(t, b, key, r)
  BY <1>4, <1>7, <1>17, <1>18 DEF SortedTo, kb
<1>20. Insert(s, x, key) = t
  BY DEF Insert, t, place, top, ones
<1> QED  BY <1>7, <1>19, <1>20 DEF IsSortOf, b

(* The first n elements of a list are a list.                              *)
LEMMA PrefixIs ==
  ASSUME NEW X, NEW a \in Seq(X), NEW n \in 0..Len(a)
  PROVE  /\ SubSeq(a, 1, n) \in Seq(X) /\ Len(SubSeq(a, 1, n)) = n
         /\ \A i \in 1..n : SubSeq(a, 1, n)[i] = a[i]
<1>1. \A i \in 1..n : a[i] \in X
  BY LenProperties, ElementOfSeq
<1>2. 1 \in Int /\ n \in Int /\ n \in Nat
  BY LenProperties
<1> DEFINE u == SubSeq(a, 1, n)
<1>3. u \in Seq(X) /\ Len(u) = IF 1 <= n THEN n - 1 + 1 ELSE 0
  BY <1>1, <1>2, SubSeqProperties
<1>4. \A i \in 1..(n - 1 + 1) : u[i] = a[1 + i - 1]
  BY <1>1, <1>2, SubSeqProperties
<1> HIDE DEF u
<1>5. n - 1 + 1 = n /\ \A i \in 1..n : 1 + i - 1 = i
  BY <1>2
<1>6. Len(u) = n /\ \A i \in 1..n : u[i] = a[i]
  BY <1>2, <1>3, <1>4, <1>5
<1> QED  BY <1>3, <1>6 DEF u

(* The first n are the first n - 1 and another.                            *)
LEMMA PrefixNext ==
  ASSUME NEW X, NEW a \in Seq(X), NEW n \in 1..Len(a)
  PROVE  SubSeq(a, 1, n) = Append(SubSeq(a, 1, n - 1), a[n])
<1>1. Len(a) \in Nat /\ 1 \in 1..Len(a) /\ n \in 1..Len(a) /\ n - 1 \in 0..Len(a)
  BY LenProperties
<1>2. SubSeq(a, 1, n) = SubSeq(a, 1, n - 1) \o <<a[n]>>
  BY <1>1, SubSeqRecursiveSecond
<1>3. SubSeq(a, 1, n - 1) \in Seq(X) /\ a[n] \in X
  BY <1>1, PrefixIs, ElementOfSeq
<1> QED  BY <1>2, <1>3, AppendIsConcat

(* Whatever is inserted into, one more element comes out.                  *)
LEMMA InsertIsSeq ==
  ASSUME NEW X, NEW key \in [X -> Nat], NEW s \in Seq(X), NEW x \in X
  PROVE  Insert(s, x, key) \in Seq(X)
<1> DEFINE ones == {0} \cup {j \in DOMAIN s : key[s[j]] <= key[x]}
<1>1. Len(s) \in Nat /\ DOMAIN s = 1..Len(s)
  BY LenProperties
<1>2. ones \subseteq 0..Len(s) /\ ones # {}
  BY <1>1
<1> HIDE DEF ones
<1>3. Max(ones) \in 0..Len(s)
  BY <1>1, <1>2, MaxIsMember
<1>4. 1 + Max(ones) \in 1..(Len(s) + 1)
  BY <1>1, <1>3
<1>5. InsertAt(s, 1 + Max(ones), x) \in Seq(X)
  BY <1>4, InsertAtIs
<1> QED  BY <1>5 DEF Insert, ones

(* InsertionSort's recursion.                                              *)
Inserts(f, a, first, key) ==
  f = [n \in (first - 1)..Len(a) |->
         IF n = first - 1 THEN SubSeq(a, 1, n) ELSE Insert(f[n - 1], a[n], key)]
(* The insertion sort has its run.                                         *)
LEMMA InsertsExists ==
  ASSUME NEW X, NEW a \in Seq(X), NEW key \in [X -> Nat], NEW first \in 1..Len(a)
  PROVE  \E f : Inserts(f, a, first, key)
<1> DEFINE base == first - 1
           m == Len(a) - base
           V == Seq(X)
           step == [sk \in V \X (1..m) |-> Insert(sk[1], a[base + sk[2]], key)]
<1>1. Len(a) \in Nat /\ base \in 0..Len(a) /\ m \in Nat
  BY LenProperties
<1>2. SubSeq(a, 1, base) \in V
  BY <1>1, PrefixIs
<1> HIDE DEF base
<1>3. /\ step \in [V \X (1..m) -> V]
      /\ \A s \in V, k \in 1..m : step[<<s, k>>] = Insert(s, a[base + k], key)
  <2>1. \A k \in 1..m : base + k \in 1..Len(a)
    BY <1>1
  <2>2. \A k \in 1..m : a[base + k] \in X
    BY <2>1, ElementOfSeq
  <2>3. \A s \in V, k \in 1..m : Insert(s, a[base + k], key) \in V
    BY <2>2, InsertIsSeq
  <2> HIDE DEF V, m
  <2> QED  BY <2>3
<1> HIDE DEF step, m
<1>4. PICK g : Iterates(g, m, V, SubSeq(a, 1, base), step)
  <2> HIDE DEF V
  <2> QED  BY <1>1, <1>2, <1>3, IterationExists
<1>5. /\ g \in [0..m -> V] /\ g[0] = SubSeq(a, 1, base)
      /\ \A k \in 1..m : g[k] = step[<<g[k - 1], k>>]
  BY <1>4 DEF Iterates
<1> HIDE DEF V
<1>6. ASSUME NEW k \in 1..m  PROVE g[k] = Insert(g[k - 1], a[base + k], key)
  <2>1. k - 1 \in 0..m
    BY <1>1
  <2>2. g[k - 1] \in V
    BY <1>5, <2>1
  <2> QED  BY <1>3, <1>5, <2>2
<1> DEFINE f == [n \in base..Len(a) |-> g[n - base]]
<1>7. ASSUME NEW n \in base..Len(a)
      PROVE  f[n] = IF n = base THEN SubSeq(a, 1, n) ELSE Insert(f[n - 1], a[n], key)
  <2>1. CASE n = base
    <3>1. n - base = 0
      BY <1>1, <2>1
    <3> QED  BY <1>5, <2>1, <3>1
  <2>2. CASE n # base
    <3>1. n - base \in 1..m /\ n - 1 \in base..Len(a) /\ (n - 1) - base = (n - base) - 1
          /\ base + (n - base) = n
      BY <1>1, <2>2 DEF m
    <3>2. f[n] = g[n - base] /\ f[n - 1] = g[(n - base) - 1]
      BY <3>1
    <3> HIDE DEF f
    <3>3. g[n - base] = Insert(g[(n - base) - 1], a[n], key)
      BY <1>6, <3>1
    <3> QED  BY <2>2, <3>2, <3>3
  <2> QED  BY <2>1, <2>2
<1>8. f = [n \in base..Len(a) |->
             IF n = base THEN SubSeq(a, 1, n) ELSE Insert(f[n - 1], a[n], key)]
  <2>1. f = [n \in base..Len(a) |-> f[n]]
    OBVIOUS
  <2> HIDE DEF f
  <2> QED  BY <1>7, <2>1
<1> HIDE DEF f
<1>9. Inserts(f, a, first, key)
  BY <1>8 DEF Inserts, base
<1> QED  BY <1>9

(* A list whose first elements are in order comes out sorted.              *)
LEMMA InsertionSortSorts ==
  ASSUME NEW X, NEW a \in Seq(X), NEW key \in [X -> Nat], NEW first \in 1..Len(a),
         Ascending(SubSeq(a, 1, first - 1), key)
  PROVE  InsertionSort(a, first, key) \in Seq(X) /\ IsSortOf(InsertionSort(a, first, key), a, key)
<1> DEFINE done == CHOOSE f : Inserts(f, a, first, key)
           base == first - 1
           At(n) == done[n] \in Seq(X) /\ IsSortOf(done[n], SubSeq(a, 1, n), key)
<1>1. Inserts(done, a, first, key)
  BY InsertsExists
<1>2. InsertionSort(a, first, key) = done[Len(a)]
  BY DEF InsertionSort, Inserts
<1> HIDE DEF done
<1>3. \A n \in base..Len(a) :
        done[n] = IF n = base THEN SubSeq(a, 1, n) ELSE Insert(done[n - 1], a[n], key)
  BY <1>1 DEF Inserts
<1>4. Len(a) \in Nat /\ base \in 0..Len(a) /\ base \in base..Len(a) /\ Len(a) \in base..Len(a)
  BY LenProperties
<1>5. At(base)
  <2>1. done[base] = SubSeq(a, 1, base) /\ SubSeq(a, 1, base) \in Seq(X)
    BY <1>3, <1>4, PrefixIs
  <2>2. IsSortOf(SubSeq(a, 1, base), SubSeq(a, 1, base), key)
    BY <2>1, AscendingIsSorted
  <2> QED  BY <2>1, <2>2
<1> HIDE DEF base
<1>6. ASSUME NEW n \in base..Len(a), n # base, At(n - 1)
      PROVE  At(n)
  <2>1. n \in 1..Len(a) /\ n - 1 \in 0..Len(a)
    BY <1>4, <1>6
  <2>2. done[n] = Insert(done[n - 1], a[n], key)
    BY <1>3, <1>6
  <2>3. a[n] \in X /\ SubSeq(a, 1, n - 1) \in Seq(X)
    BY <2>1, ElementOfSeq, PrefixIs
  <2>4. PICK s : s = done[n - 1]
    OBVIOUS
  <2>5. PICK pre : pre = SubSeq(a, 1, n - 1)
    OBVIOUS
  <2>6. PICK x : x = a[n]
    OBVIOUS
  <2>7. s \in Seq(X) /\ pre \in Seq(X) /\ x \in X /\ IsSortOf(s, pre, key)
    BY <1>6, <2>3, <2>4, <2>5, <2>6
  <2>8. Insert(s, x, key) \in Seq(X) /\ IsSortOf(Insert(s, x, key), Append(pre, x), key)
    BY <2>7, InsertIsSort
  <2>9. SubSeq(a, 1, n) = Append(pre, x)
    BY <2>1, <2>5, <2>6, PrefixNext
  <2> QED  BY <2>2, <2>4, <2>6, <2>8, <2>9
<1>7. At(Len(a))
  <2> DEFINE Bad == {n \in base..Len(a) : ~At(n)}
  <2>1. SUFFICES ASSUME Bad # {} PROVE FALSE
    <3> HIDE DEF At
    <3> QED  BY <1>4
  <2>2. Bad \subseteq Nat
    BY <1>4
  <2> HIDE DEF Bad
  <2>3. PICK n \in Bad : \A j \in Bad : n <= j
    BY <2>1, <2>2, LeastNumber
  <2> USE DEF Bad
  <2> HIDE DEF At
  <2>4. n \in base..Len(a) /\ ~At(n)
    BY <2>3
  <2>5. n # base
    BY <1>5, <2>4
  <2>6. n - 1 \in base..Len(a) /\ ~(n <= n - 1)
    BY <1>4, <2>4, <2>5
  <2>7. At(n - 1)
    BY <2>3, <2>6
  <2> HIDE DEF Bad
  <2> QED  BY <1>6, <2>4, <2>5, <2>7
<1>8. SubSeq(a, 1, Len(a)) = a
  BY SubSeqFull
<1> QED  BY <1>2, <1>7, <1>8

(* A pass sorts stably by its digit.                                       *)
LEMMA ScatterSorts ==
  ASSUME NEW X, NEW src \in Seq(X), NEW digit \in [X -> Nat]
  PROVE  Scatter(src, digit) \in Seq(X) /\ IsSortOf(Scatter(src, digit), src, digit)
<1>1. PICK n \in Nat : n = Len(src)
  BY LenProperties
<1>2. PICK k : k = KeysAt(src, digit)
  OBVIOUS
<1>3. /\ AreKeys(k, n) /\ DOMAIN src = 1..n
      /\ \A i \in 1..n : src[i] \in X /\ k[i] = digit[src[i]]
  BY <1>1, <1>2, KeysAtIs
<1>4. PICK p : p = Rank(k, n)
  OBVIOUS
<1>5. Arranges(p, n, k)
  BY <1>3, <1>4, RankArranges
<1> DEFINE Place(i) == 1 + Cardinality({j \in DOMAIN src :
                         \/ digit[src[j]] < digit[src[i]]
                         \/ digit[src[j]] = digit[src[i]] /\ j < i})
           from == [q \in DOMAIN src |-> CHOOSE i \in DOMAIN src : Place(i) = q]
           out == [q \in DOMAIN src |-> src[from[q]]]
<1>6. Scatter(src, digit) = out
  BY DEF Scatter
<1>7. ASSUME NEW i \in 1..n  PROVE Place(i) = p[i]
  <2>1. {j \in DOMAIN src : \/ digit[src[j]] < digit[src[i]]
                            \/ digit[src[j]] = digit[src[i]] /\ j < i} = AheadOf(k, n, i)
    BY <1>3 DEF AheadOf, Before
  <2>2. p[i] = 1 + Cardinality(AheadOf(k, n, i))
    BY <1>4 DEF Rank
  <2> QED  BY <2>1, <2>2
<1> HIDE DEF Place
<1>8. ASSUME NEW q \in 1..n  PROVE from[q] \in 1..n /\ p[from[q]] = q
  <2>1. Fills(p, n)
    BY <1>3, <1>5, ArrangedFills
  <2>2. \E i \in DOMAIN src : Place(i) = q
    <3>1. PICK i \in 1..n : p[i] = q
      BY <2>1 DEF Fills
    <3>2. Place(i) = q /\ i \in DOMAIN src
      BY <1>3, <1>7, <3>1
    <3> QED  BY <3>2
  <2>3. from[q] \in DOMAIN src /\ Place(from[q]) = q
    BY <1>3, <2>2
  <2> HIDE DEF from
  <2> QED  BY <1>3, <1>7, <2>3
<1>9. \A q \in 1..n : out[q] = src[from[q]]
  BY <1>3
<1> HIDE DEF from
<1>10. out \in [1..n -> X]
  BY <1>3, <1>8
<1>11. out \in Seq(X) /\ Len(out) = n
  BY <1>10, LenProperties, IsASeq
<1> HIDE DEF out
<1>12. Puts(out, src, n, p)
  <2> SUFFICES ASSUME NEW i \in 1..n PROVE out[p[i]] = src[i]
    BY DEF Puts
  <2>1. p[i] \in 1..n
    BY <1>5 DEF Arranges
  <2>2. PICK l \in 1..n : l = from[p[i]]
    BY <1>8, <2>1
  <2>3. p[l] = p[i]
    BY <1>8, <2>1, <2>2
  <2>4. l = i
    BY <1>3, <1>5, <2>3, ArrangedIsOneToOne
  <2> QED  BY <1>9, <2>1, <2>2, <2>4
<1>13. SortedTo(out, src, digit, p)
  BY <1>1, <1>2, <1>5, <1>11, <1>12 DEF SortedTo
<1> QED  BY <1>6, <1>11, <1>13 DEF IsSortOf

(* key has two digits on the elements of X, the lower one below M.         *)
TwoDigits(key, low, digit, M, X) ==
  M \in Nat /\ \A x \in X : low[x] < M /\ key[x] = low[x] + M * digit[x]
(* A stable sort by the high digits of a list that is sorted by the low    *)
(* ones sorts it by both: that a pass is stable is what the next one rests *)
(* on (common.rs:53).                                                      *)
LEMMA PassesCompose ==
  ASSUME NEW X, NEW a \in Seq(X), NEW mid \in Seq(X), NEW out,
         NEW key \in [X -> Nat], NEW low \in [X -> Nat], NEW digit \in [X -> Nat],
         NEW M, TwoDigits(key, low, digit, M, X),
         IsSortOf(mid, a, low), IsSortOf(out, mid, digit)
  PROVE  IsSortOf(out, a, key)
<1>1. PICK n \in Nat : n = Len(a)
  BY LenProperties
<1>2. PICK p : SortedTo(mid, a, low, p)
  BY DEF IsSortOf
<1>3. PICK r : SortedTo(out, mid, digit, r)
  BY DEF IsSortOf
<1>4. PICK kl : kl = KeysAt(a, low)
  OBVIOUS
<1>5. PICK kd : kd = KeysAt(mid, digit)
  OBVIOUS
<1>6. PICK ka : ka = KeysAt(a, key)
  OBVIOUS
<1>7. /\ Len(mid) = n /\ Arranges(p, n, kl) /\ \A i \in 1..n : mid[p[i]] = a[i]
      /\ Len(out) = n /\ Arranges(r, n, kd) /\ \A i \in 1..n : out[r[i]] = mid[i]
  BY <1>1, <1>2, <1>3, <1>4, <1>5 DEF SortedTo, Puts
<1>8. /\ AreKeys(kl, n) /\ AreKeys(ka, n)
      /\ \A i \in 1..n : a[i] \in X /\ kl[i] = low[a[i]] /\ ka[i] = key[a[i]]
  BY <1>1, <1>4, <1>6, KeysAtIs
<1>9. AreKeys(kd, n) /\ \A i \in 1..n : mid[i] \in X /\ kd[i] = digit[mid[i]]
  <2>1. Len(mid) = n
    BY <1>7
  <2>2. /\ AreKeys(KeysAt(mid, digit), Len(mid))
        /\ \A i \in 1..Len(mid) : mid[i] \in X /\ KeysAt(mid, digit)[i] = digit[mid[i]]
    BY KeysAtIs
  <2> QED  BY <1>5, <2>1, <2>2
<1>10. p \in [1..n -> 1..n] /\ r \in [1..n -> 1..n]
  BY <1>7 DEF Arranges
<1> DEFINE both == [i \in 1..n |-> r[p[i]]]
<1>11. both \in [1..n -> 1..n] /\ \A i \in 1..n : both[i] = r[p[i]]
  BY <1>10
<1> HIDE DEF both
<1>12. ASSUME NEW i \in 1..n, NEW j \in 1..n, Before(ka, i, j)
       PROVE  both[i] < both[j]
  <2>1. p[i] \in 1..n /\ p[j] \in 1..n
    BY <1>10
  <2>2. kd[p[i]] = digit[a[i]] /\ kd[p[j]] = digit[a[j]]
    BY <1>7, <1>9, <2>1
  <2>3. PICK di \in Nat, dj \in Nat, li \in Nat, lj \in Nat, m \in Nat :
          di = digit[a[i]] /\ dj = digit[a[j]] /\ li = low[a[i]] /\ lj = low[a[j]] /\ m = M
    BY <1>8 DEF TwoDigits
  <2>4. li < m /\ lj < m /\ ka[i] = li + m * di /\ ka[j] = lj + m * dj
    BY <1>8, <2>3 DEF TwoDigits
  <2>5. di < dj \/ (di = dj /\ (li < lj \/ (li = lj /\ i < j)))
    <3>1. li + m * di < lj + m * dj \/ (li + m * di = lj + m * dj /\ i < j)
      BY <1>12, <2>4 DEF Before
    <3>2. CASE di < dj
      BY <3>2
    <3>3. CASE di = dj
      <4>1. PICK c \in Nat : c = m * di /\ c = m * dj
        BY <3>3
      <4>2. li + c < lj + c \/ (li + c = lj + c /\ i < j)
        BY <3>1, <4>1
      <4> QED  BY <3>3, <4>2
    <3>4. CASE dj < di
      <4>1. PICK e \in Nat : di = dj + 1 + e
        <5>1. di - dj - 1 \in Nat /\ di = dj + 1 + (di - dj - 1)
          BY <3>4
        <5> QED  BY <5>1
      <4>2. m * di = m * dj + m + m * e
        BY <4>1
      <4>3. PICK u \in Nat, v \in Nat : u = m * dj /\ v = m * e
        OBVIOUS
      <4>4. li + (u + m + v) < lj + u \/ li + (u + m + v) = lj + u
        BY <3>1, <4>2, <4>3
      <4> QED  BY <2>4, <4>4
    <3> QED  BY <3>2, <3>3, <3>4
  <2>6. CASE di < dj
    <3>1. Before(kd, p[i], p[j])
      BY <2>2, <2>3, <2>6 DEF Before
    <3> QED  BY <1>7, <1>11, <2>1, <3>1 DEF Arranges
  <2>7. CASE di = dj /\ (li < lj \/ (li = lj /\ i < j))
    <3>1. Before(kl, i, j)
      BY <1>8, <2>3, <2>7 DEF Before
    <3>2. p[i] < p[j]
      BY <1>7, <3>1 DEF Arranges
    <3>3. Before(kd, p[i], p[j])
      BY <2>2, <2>3, <2>7, <3>2 DEF Before
    <3> QED  BY <1>7, <1>11, <2>1, <3>3 DEF Arranges
  <2> QED  BY <2>5, <2>6, <2>7
<1>13. Arranges(both, n, ka)
  BY <1>11, <1>12 DEF Arranges
<1>14. Puts(out, a, n, both)
  <2> SUFFICES ASSUME NEW i \in 1..n PROVE out[both[i]] = a[i]
    BY DEF Puts
  <2> QED  BY <1>7, <1>10, <1>11
<1>15. SortedTo(out, a, key, both)
  BY <1>1, <1>6, <1>7, <1>13, <1>14 DEF SortedTo
<1> QED  BY <1>15 DEF IsSortOf

(* A division that rounds up.                                              *)
LEMMA CeilDivIs ==
  ASSUME NEW a \in Nat \ {0}, NEW b \in Nat \ {0}
  PROVE  /\ CeilDiv(a, b) \in Nat \ {0}
         /\ a <= b * CeilDiv(a, b)
         /\ b * CeilDiv(a, b) < a + b
<1> DEFINE y == a + b - 1
           q == y \div b
           r == y % b
<1>1. y \in Nat /\ b <= y
  OBVIOUS
<1>2. q \in Nat /\ r \in 0..(b - 1) /\ y = b * q + r
  <2> HIDE DEF y
  <2> QED  BY <1>1, DivMod
<1> HIDE DEF q, r
<1>3. b * q \in Nat /\ b * q <= y /\ y < b * q + b
  BY <1>2
<1>4. q # 0
  <2> SUFFICES ASSUME q = 0 PROVE FALSE
    OBVIOUS
  <2>1. b * q = 0
    OBVIOUS
  <2> QED  BY <1>1, <1>3, <2>1
<1>5. a <= b * q /\ b * q < a + b
  BY <1>3
<1> QED  BY <1>2, <1>4, <1>5 DEF CeilDiv, q

(* It gives no more than is needed.                                        *)
LEMMA CeilDivLeast ==
  ASSUME NEW a \in Nat \ {0}, NEW b \in Nat \ {0}, NEW c \in Nat, a <= b * c
  PROVE  CeilDiv(a, b) <= c
<1>1. PICK q \in Nat : q = CeilDiv(a, b)
  BY CeilDivIs
<1>2. b * q < a + b
  BY <1>1, CeilDivIs
<1> SUFFICES ASSUME c + 1 <= q PROVE FALSE
  BY <1>1
<1>3. b * (c + 1) <= b * q
  BY <1>1, TimesMono
<1>4. b * (c + 1) = b * c + b
  OBVIOUS
<1>5. PICK u \in Nat, v \in Nat : u = b * c /\ v = b * q
  BY <1>1
<1> QED  BY <1>2, <1>3, <1>4, <1>5

(* Every bit is in a digit, and no digit is wider than the tables.         *)
LEMMA DigitsCover ==
  ASSUME NEW bits \in Nat \ {0}
  PROVE  /\ Passes(bits) \in Nat \ {0} /\ Width(bits) \in Nat \ {0}
         /\ bits <= Passes(bits) * Width(bits)
         /\ Width(bits) <= MaxDigit
<1>1. MaxDigit \in Nat \ {0}
  BY RadixAssumption
<1>2. PICK p \in Nat \ {0} : p = Passes(bits)
  BY <1>1, CeilDivIs DEF Passes
<1>3. bits <= MaxDigit * p
  BY <1>1, <1>2, CeilDivIs DEF Passes
<1>4. Width(bits) = CeilDiv(bits, p)
  BY <1>2 DEF Width
<1>5. CeilDiv(bits, p) \in Nat \ {0} /\ bits <= p * CeilDiv(bits, p)
  BY CeilDivIs
<1>6. MaxDigit * p = p * MaxDigit
  BY <1>1
<1>7. CeilDiv(bits, p) <= MaxDigit
  BY <1>1, <1>3, <1>6, CeilDivLeast
<1> QED  BY <1>2, <1>4, <1>5, <1>7

(* The keys of a list have a bound.                                        *)
LEMMA KeysAreBounded ==
  ASSUME NEW X, NEW a \in Seq(X), NEW key \in [X -> Nat]
  PROVE  \E b \in Nat : \A i \in 1..Len(a) : key[a[i]] <= b
<1>1. Len(a) \in Nat /\ \A i \in 1..Len(a) : key[a[i]] \in Nat
  BY LenProperties, ElementOfSeq
<1> DEFINE Bounded(n) == \E b \in Nat : \A i \in 1..n : key[a[i]] <= b
           Bad == {n \in 0..Len(a) : ~Bounded(n)}
<1>2. SUFFICES ASSUME Bad # {} PROVE FALSE
  <2>1. Len(a) \in 0..Len(a)
    BY <1>1
  <2> HIDE DEF Bounded
  <2>2. Bounded(Len(a)) => \E b \in Nat : \A i \in 1..Len(a) : key[a[i]] <= b
    BY DEF Bounded
  <2> QED  BY <2>1, <2>2
<1>3. Bad \subseteq Nat
  BY <1>1
<1> HIDE DEF Bad
<1>4. PICK n \in Bad : \A j \in Bad : n <= j
  BY <1>2, <1>3, LeastNumber
<1> USE DEF Bad
<1>5. n \in 0..Len(a) /\ ~Bounded(n)
  BY <1>4
<1>6. n # 0
  <2>1. Bounded(0)
    <3> WITNESS 0 \in Nat
    <3> QED  OBVIOUS
  <2> HIDE DEF Bounded
  <2> QED  BY <1>5, <2>1
<1>7. n - 1 \in 0..Len(a) /\ ~(n <= n - 1) /\ n \in 1..Len(a)
  BY <1>1, <1>5, <1>6
<1>8. Bounded(n - 1)
  <2> HIDE DEF Bounded
  <2> QED  BY <1>4, <1>7
<1>9. PICK b \in Nat : \A i \in 1..(n - 1) : key[a[i]] <= b
  BY <1>8
<1>10. PICK c \in Nat : c = key[a[n]]
  BY <1>1, <1>7
<1> HIDE DEF Bad, Bounded
<1>11. ASSUME NEW i \in 1..n  PROVE key[a[i]] <= b + c
  <2>1. CASE i = n
    <3>1. b + c >= c
      OBVIOUS
    <3> QED  BY <1>10, <2>1, <3>1
  <2>2. CASE i # n
    <3>1. i \in 1..(n - 1) /\ i \in 1..Len(a)
      BY <1>7, <2>2
    <3>2. PICK v \in Nat : v = key[a[i]]
      BY <1>1, <3>1
    <3>3. v <= b
      BY <1>9, <3>1, <3>2
    <3> QED  BY <3>2, <3>3
  <2> QED  BY <2>1, <2>2
<1>12. b + c \in Nat
  OBVIOUS
<1> QED  BY <1>5, <1>11, <1>12 DEF Bounded

(* All keys fit in the bits of the greatest.                               *)
LEMMA BitsHold ==
  ASSUME NEW X, NEW a \in Seq(X), NEW key \in [X -> Nat], 1 <= Len(a)
  PROVE  /\ BitsOf(a, key) \in Nat \ {0}
         /\ \A i \in 1..Len(a) : key[a[i]] < TwoTo(BitsOf(a, key))
<1> DEFINE S == {key[a[i]] : i \in DOMAIN a}
           top == Max(S)
<1>1. Len(a) \in Nat /\ DOMAIN a = 1..Len(a) /\ \A i \in 1..Len(a) : key[a[i]] \in Nat
  BY LenProperties, ElementOfSeq
<1>2. PICK c \in Nat : \A i \in 1..Len(a) : key[a[i]] <= c
  BY KeysAreBounded
<1>3. S \subseteq 0..c /\ S # {}
  <2>1. 1 \in 1..Len(a)
    BY <1>1
  <2> QED  BY <1>1, <1>2, <2>1
<1> HIDE DEF S
<1>4. top \in Nat /\ \A s \in S : s <= top
  <2>1. Max(S) \in S /\ \A s \in S : s <= Max(S)
    BY <1>3, MaxIsMember
  <2>2. top \in S /\ \A s \in S : s <= top
    BY <2>1, Zenon
  <2> HIDE DEF top
  <2> QED  BY <1>3, <2>2
<1> HIDE DEF top
<1> DEFINE B == {b \in 1..(top + 1) : top < TwoTo(b)}
           Fits(b) == top < TwoTo(b) /\ (b = 1 \/ TwoTo(b - 1) <= top)
<1>5. top + 1 \in B
  <2>1. top + 1 \in Nat
    BY <1>4
  <2>2. TwoTo(top + 1) \in Nat
    BY <2>1, TwoToNext
  <2>3. top + 1 < TwoTo(top + 1)
    BY <2>1, TwoToGrows
  <2> QED  BY <1>4, <2>1, <2>2, <2>3
<1>6. B \subseteq Nat /\ B # {}
  BY <1>4, <1>5
<1> HIDE DEF B
<1>7. PICK m \in B : \A b \in B : m <= b
  BY <1>6, LeastNumber
<1> USE DEF B
<1>8. m \in 1..(top + 1) /\ top < TwoTo(m)
  BY <1>7
<1>9. m = 1 \/ TwoTo(m - 1) <= top
  <2> SUFFICES ASSUME m # 1 PROVE TwoTo(m - 1) <= top
    OBVIOUS
  <2>1. m - 1 \in 1..(top + 1) /\ ~(m <= m - 1) /\ m - 1 \in Nat
    BY <1>4, <1>8
  <2>2. ~(top < TwoTo(m - 1))
    BY <1>7, <2>1
  <2>3. TwoTo(m - 1) \in Nat
    BY <2>1, TwoToNext
  <2> QED  BY <1>4, <2>2, <2>3
<1> HIDE DEF B
<1>10. \E b \in 1..(top + 1) : Fits(b)
  BY <1>8, <1>9
<1> DEFINE bits == CHOOSE b \in 1..(top + 1) : Fits(b)
<1>11. bits \in 1..(top + 1) /\ Fits(bits)
  <2> HIDE DEF Fits
  <2> QED  BY <1>10
<1>12. BitsOf(a, key) = bits
  BY DEF BitsOf, top, S
<1> HIDE DEF bits
<1>13. bits \in Nat \ {0} /\ top < TwoTo(bits) /\ TwoTo(bits) \in Nat
  <2>1. bits \in Nat \ {0}
    BY <1>4, <1>11
  <2> QED  BY <1>11, <2>1, TwoToNext
<1>14. ASSUME NEW i \in 1..Len(a)  PROVE key[a[i]] < TwoTo(bits)
  <2>1. key[a[i]] \in S /\ key[a[i]] \in Nat
    BY <1>1 DEF S
  <2>2. key[a[i]] <= top
    BY <1>4, <2>1
  <2> QED  BY <1>4, <1>13, <2>1, <2>2
<1> QED  BY <1>12, <1>13, <1>14

(* The two arrays, and which of them holds the elements.                   *)
Arrays(X) == [mine : Seq(X), tmp : Seq(X), swapped : BOOLEAN]
CurrentOf(s) == IF s.swapped THEN s.tmp ELSE s.mine

(* A pass, skipped or not, leaves in the array that is then current what   *)
(* was in the one that was, sorted by the digit.                           *)
LEMMA PassSorts ==
  ASSUME NEW X, NEW s \in Arrays(X), NEW digit \in [X -> Nat]
  PROVE  /\ CurrentOf(s) \in Seq(X)
         /\ Pass(s, digit) \in Arrays(X)
         /\ IsSortOf(CurrentOf(Pass(s, digit)), CurrentOf(s), digit)
<1>1. PICK src : src = CurrentOf(s)
  OBVIOUS
<1>2. src \in Seq(X)
  BY <1>1 DEF CurrentOf, Arrays
<1> DEFINE same == \A i \in DOMAIN src : digit[src[i]] = digit[src[1]]
           out == Scatter(src, digit)
<1>3. Pass(s, digit) = IF same THEN s
                       ELSE IF s.swapped THEN [s EXCEPT !.mine = out, !.swapped = FALSE]
                       ELSE [s EXCEPT !.tmp = out, !.swapped = TRUE]
  BY <1>1 DEF Pass, CurrentOf
<1>4. CASE same
  <2>1. Ascending(src, digit)
    <3> SUFFICES ASSUME NEW i \in 2..Len(src) PROVE digit[src[i - 1]] <= digit[src[i]]
      BY DEF Ascending
    <3>1. i \in DOMAIN src /\ i - 1 \in DOMAIN src
      BY <1>2, LenProperties
    <3>2. digit[src[i - 1]] = digit[src[i]]
      BY <1>4, <3>1
    <3>3. src[i] \in X
      BY <1>2, <3>1, LenProperties, ElementOfSeq
    <3>4. PICK v \in Nat : v = digit[src[i]]
      BY <3>3
    <3> QED  BY <3>2, <3>4
  <2> HIDE DEF same, out
  <2>2. IsSortOf(src, src, digit)
    BY <1>2, <2>1, AscendingIsSorted
  <2> QED  BY <1>1, <1>2, <1>3, <1>4, <2>2
<1>5. CASE ~same
  <2> HIDE DEF same
  <2>1. out \in Seq(X) /\ IsSortOf(out, src, digit)
    BY <1>2, ScatterSorts
  <2> HIDE DEF out
  <2>2. CASE s.swapped
    <3>1. Pass(s, digit) = [s EXCEPT !.mine = out, !.swapped = FALSE]
      BY <1>3, <1>5, <2>2
    <3>2. Pass(s, digit) \in Arrays(X) /\ CurrentOf(Pass(s, digit)) = out
      BY <2>1, <3>1 DEF Arrays, CurrentOf
    <3> QED  BY <1>1, <1>2, <2>1, <3>2
  <2>3. CASE ~s.swapped
    <3>1. Pass(s, digit) = [s EXCEPT !.tmp = out, !.swapped = TRUE]
      BY <1>3, <1>5, <2>3
    <3>2. Pass(s, digit) \in Arrays(X) /\ CurrentOf(Pass(s, digit)) = out
      BY <2>1, <3>1 DEF Arrays, CurrentOf
    <3> QED  BY <1>1, <1>2, <2>1, <3>2
  <2> QED  BY <2>2, <2>3
<1> QED  BY <1>4, <1>5

(* The digit pass p looks at, and DigitSort's recursion.                   *)
DigitAt(E, key, p, w) == [x \in E |-> (key[x] \div TwoTo((p - 1) * w)) % TwoTo(w)]
DigitPasses(f, a, key, passes, w) ==
  f = [p \in 0..passes |->
         IF p = 0 THEN [mine |-> a, tmp |-> a, swapped |-> FALSE]
         ELSE Pass(f[p - 1], DigitAt(ToSet(a), key, p, w))]

(* The digit of a key is a number.                                         *)
LEMMA DigitAtIs ==
  ASSUME NEW E, NEW key \in [E -> Nat], NEW p \in Nat \ {0}, NEW w \in Nat
  PROVE  DigitAt(E, key, p, w) \in [E -> Nat]
<1>1. (p - 1) * w \in Nat
  BY TimesMono
<1>2. PICK m \in Nat \ {0}, k \in Nat \ {0} : m = TwoTo((p - 1) * w) /\ k = TwoTo(w)
  BY <1>1, TwoToNext
<1>3. DigitAt(E, key, p, w) = [x \in E |-> (key[x] \div m) % k]
  BY <1>2 DEF DigitAt
<1>4. ASSUME NEW x \in E  PROVE (key[x] \div m) % k \in Nat
  <2>1. key[x] \div m \in Nat
    BY DivMod
  <2> QED  BY <2>1
<1> QED  BY <1>3, <1>4

(* The passes have their run.                                              *)
LEMMA DigitPassesExist ==
  ASSUME NEW E, NEW a \in Seq(E), ToSet(a) = E, NEW key \in [E -> Nat],
         NEW passes \in Nat, NEW w \in Nat
  PROVE  \E f : DigitPasses(f, a, key, passes, w)
<1> DEFINE V == Arrays(E)
           first == [mine |-> a, tmp |-> a, swapped |-> FALSE]
           step == [sp \in V \X (1..passes) |-> Pass(sp[1], DigitAt(E, key, sp[2], w))]
<1>1. first \in V
  BY DEF Arrays
<1> HIDE DEF first, V
<1>2. \A s \in V, p \in 1..passes : Pass(s, DigitAt(E, key, p, w)) \in V
  <2> SUFFICES ASSUME NEW s \in V, NEW p \in 1..passes
               PROVE  Pass(s, DigitAt(E, key, p, w)) \in V
    OBVIOUS
  <2>1. DigitAt(E, key, p, w) \in [E -> Nat]
    <3>1. p \in Nat \ {0}
      OBVIOUS
    <3> HIDE DEF step
    <3> QED  BY <3>1, DigitAtIs
  <2>2. PICK digit : digit = DigitAt(E, key, p, w)
    OBVIOUS
  <2> QED  BY <2>1, <2>2, PassSorts DEF V
<1>3. step \in [V \X (1..passes) -> V]
      /\ \A s \in V, p \in 1..passes : step[<<s, p>>] = Pass(s, DigitAt(E, key, p, w))
  BY <1>2
<1> HIDE DEF step
<1>4. PICK g : Iterates(g, passes, V, first, step)
  BY <1>1, <1>3, IterationExists
<1>5. /\ g \in [0..passes -> V] /\ g[0] = first
      /\ \A k \in 1..passes : g[k] = step[<<g[k - 1], k>>]
  BY <1>4 DEF Iterates
<1>6. ASSUME NEW p \in 0..passes
      PROVE  g[p] = IF p = 0 THEN first ELSE Pass(g[p - 1], DigitAt(E, key, p, w))
  <2>1. CASE p = 0
    BY <1>5, <2>1
  <2>2. CASE p # 0
    <3>1. p \in 1..passes /\ p - 1 \in 0..passes
      BY <2>2
    <3>2. g[p - 1] \in V
      BY <1>5, <3>1
    <3> QED  BY <1>3, <1>5, <2>2, <3>1, <3>2
  <2> QED  BY <2>1, <2>2
<1>7. g = [p \in 0..passes |-> IF p = 0 THEN first ELSE Pass(g[p - 1], DigitAt(E, key, p, w))]
  <2>1. g = [p \in 0..passes |-> g[p]]
    BY <1>5
  <2> QED  BY <1>6, <2>1
<1>8. DigitPasses(g, a, key, passes, w)
  BY <1>7 DEF DigitPasses, first
<1> QED  BY <1>8

(* The key without the digits that no pass has seen yet.                   *)
KeySoFar(E, key, p, w) == [x \in E |-> key[x] % TwoTo(p * w)]
(* What has been seen of a key is a number.                                *)
LEMMA KeySoFarIs ==
  ASSUME NEW E, NEW key \in [E -> Nat], NEW p \in Nat, NEW w \in Nat
  PROVE  KeySoFar(E, key, p, w) \in [E -> Nat]
<1>1. p * w \in Nat
  BY TimesMono
<1>2. PICK m \in Nat \ {0} : m = TwoTo(p * w)
  BY <1>1, TwoToNext
<1>3. KeySoFar(E, key, p, w) = [x \in E |-> key[x] % m]
  BY <1>2 DEF KeySoFar
<1> QED  BY <1>3

(* One more digit.                                                         *)
LEMMA KeySoFarNext ==
  ASSUME NEW E, NEW key \in [E -> Nat], NEW p \in Nat \ {0}, NEW w \in Nat
  PROVE  TwoDigits(KeySoFar(E, key, p, w), KeySoFar(E, key, p - 1, w), DigitAt(E, key, p, w),
                   TwoTo((p - 1) * w), E)
<1>1. PICK l \in Nat : l = (p - 1) * w
  BY TimesMono
<1>2. p * w = l + w
  <2>1. p * w = ((p - 1) + 1) * w
    OBVIOUS
  <2>2. ((p - 1) + 1) * w = (p - 1) * w + w
    OBVIOUS
  <2> QED  BY <1>1, <2>1, <2>2
<1>3. PICK m \in Nat \ {0}, k \in Nat \ {0} : m = TwoTo(l) /\ k = TwoTo(w)
  BY TwoToNext
<1>4. TwoTo(p * w) = m * k
  BY <1>2, <1>3, TwoToSum
<1>5. ASSUME NEW x \in E
      PROVE  /\ KeySoFar(E, key, p - 1, w)[x] < m
             /\ KeySoFar(E, key, p, w)[x]
                  = KeySoFar(E, key, p - 1, w)[x] + m * DigitAt(E, key, p, w)[x]
  <2>1. PICK v \in Nat : v = key[x]
    OBVIOUS
  <2>2. v % (m * k) = (v % m) + m * ((v \div m) % k)
    BY ModTimes
  <2>3. v % m \in 0..(m - 1)
    BY DivMod
  <2>4. /\ KeySoFar(E, key, p - 1, w)[x] = v % m
        /\ KeySoFar(E, key, p, w)[x] = v % (m * k)
        /\ DigitAt(E, key, p, w)[x] = (v \div m) % k
    BY <1>1, <1>3, <1>4, <2>1 DEF KeySoFar, DigitAt
  <2>5. v % m < m
    BY <2>3
  <2> QED  BY <2>2, <2>4, <2>5
<1> QED  BY <1>1, <1>3, <1>5 DEF TwoDigits

(* The passes leave the list sorted by the whole key.                      *)
LEMMA DigitSortSorts ==
  ASSUME NEW X, NEW a \in Seq(X), NEW key \in [X -> Nat], 1 <= Len(a)
  PROVE  DigitSort(a, key) \in Seq(X) /\ IsSortOf(DigitSort(a, key), a, key)
<1>1. PICK E : E = ToSet(a)
  OBVIOUS
<1>2. a \in Seq(E) /\ E \subseteq X /\ \A i \in 1..Len(a) : a[i] \in E
  <2>1. DOMAIN a = 1..Len(a) /\ Len(a) \in Nat /\ a = [i \in 1..Len(a) |-> a[i]]
    BY LenProperties
  <2>2. \A i \in 1..Len(a) : a[i] \in E /\ a[i] \in X
    BY <1>1, <2>1, ElementOfSeq DEF ToSet
  <2>3. E \subseteq X
    BY <1>1, <2>1, <2>2 DEF ToSet
  <2>4. a \in Seq(E)
    BY <2>1, <2>2, IsASeq
  <2> QED  BY <2>2, <2>3, <2>4
<1>3. PICK keyE : keyE = [x \in E |-> key[x]]
  OBVIOUS
<1>4. keyE \in [E -> Nat] /\ \A x \in E : keyE[x] = key[x]
  BY <1>2, <1>3
<1>5. PICK bits \in Nat \ {0} : bits = BitsOf(a, key)
  BY BitsHold
<1>6. PICK passes \in Nat \ {0}, w \in Nat \ {0} : passes = Passes(bits) /\ w = Width(bits)
  BY DigitsCover
<1> DEFINE after == CHOOSE f : DigitPasses(f, a, key, passes, w)
<1>7. DigitSort(a, key) = CurrentOf(after[passes])
  BY <1>5, <1>6 DEF DigitSort, CurrentOf, DigitPasses, DigitAt
<1>8. DigitPasses(after, a, keyE, passes, w)
  <2>1. \A p : DigitAt(E, keyE, p, w) = DigitAt(E, key, p, w)
    BY <1>4 DEF DigitAt
  <2>2. ASSUME NEW f
        PROVE  DigitPasses(f, a, keyE, passes, w) <=> DigitPasses(f, a, key, passes, w)
    BY <1>1, <2>1 DEF DigitPasses
  <2>3. PICK f : DigitPasses(f, a, keyE, passes, w)
    BY <1>1, <1>2, <1>4, DigitPassesExist
  <2>4. DigitPasses(f, a, key, passes, w)
    BY <2>2, <2>3
  <2>5. DigitPasses(after, a, key, passes, w)
    BY <2>4
  <2> HIDE DEF after
  <2> QED  BY <2>2, <2>5
<1> HIDE DEF after
<1>9. \A p \in 0..passes :
        after[p] = IF p = 0 THEN [mine |-> a, tmp |-> a, swapped |-> FALSE]
                   ELSE Pass(after[p - 1], DigitAt(E, keyE, p, w))
  BY <1>1, <1>8 DEF DigitPasses
<1> DEFINE At(p) == /\ after[p] \in Arrays(E)
                    /\ IsSortOf(CurrentOf(after[p]), a, KeySoFar(E, keyE, p, w))
<1>10. At(0)
  <2>1. PICK s : s = [mine |-> a, tmp |-> a, swapped |-> FALSE]
    OBVIOUS
  <2>2. after[0] = s /\ s \in Arrays(E) /\ CurrentOf(s) = a
    <3>1. after[0] = s
      <4>1. 0 \in 0..passes /\ 0 = 0
        OBVIOUS
      <4>2. after[0] = [mine |-> a, tmp |-> a, swapped |-> FALSE]
        BY <1>9, <4>1, Zenon
      <4> QED  BY <2>1, <4>2
    <3>2. s \in Arrays(E)
      BY <1>2, <2>1 DEF Arrays
    <3>3. CurrentOf(s) = a
      BY <2>1 DEF CurrentOf
    <3> QED  BY <3>1, <3>2, <3>3
  <2>3. PICK low : low = KeySoFar(E, keyE, 0, w)
    OBVIOUS
  <2>4. low \in [E -> Nat]
    BY <1>4, <2>3, KeySoFarIs
  <2>5. \A x \in E : low[x] = 0
    <3>1. TwoTo(0 * w) = 1
      BY TwoToZero
    <3>2. \A x \in E : keyE[x] % 1 = 0
      BY <1>4
    <3> QED  BY <2>3, <3>1, <3>2 DEF KeySoFar
  <2>6. Ascending(a, low)
    <3> SUFFICES ASSUME NEW i \in 2..Len(a) PROVE low[a[i - 1]] <= low[a[i]]
      BY DEF Ascending
    <3>1. i \in 1..Len(a) /\ i - 1 \in 1..Len(a)
      BY LenProperties
    <3>2. low[a[i - 1]] = 0 /\ low[a[i]] = 0
      BY <1>2, <2>5, <3>1
    <3> QED  BY <3>2
  <2>7. IsSortOf(a, a, low)
    BY <1>2, <2>4, <2>6, AscendingIsSorted
  <2> QED  BY <2>2, <2>3, <2>7
<1>11. ASSUME NEW p \in 1..passes, At(p - 1)
       PROVE  At(p)
  <2>1. p \in Nat \ {0} /\ p - 1 \in Nat /\ p \in 0..passes /\ p # 0
    OBVIOUS
  <2>2. PICK digit : digit = DigitAt(E, keyE, p, w)
    OBVIOUS
  <2>3. PICK s : s = after[p - 1]
    OBVIOUS
  <2>4. PICK low, new : low = KeySoFar(E, keyE, p - 1, w) /\ new = KeySoFar(E, keyE, p, w)
    OBVIOUS
  <2>5. after[p] = Pass(s, digit)
    BY <1>9, <2>1, <2>2, <2>3
  <2>6. s \in Arrays(E) /\ IsSortOf(CurrentOf(s), a, low)
    BY <1>11, <2>3, <2>4
  <2> HIDE DEF At
  <2>7. digit \in [E -> Nat]
    BY <1>4, <2>1, <2>2, DigitAtIs
  <2>8. low \in [E -> Nat] /\ new \in [E -> Nat]
    BY <1>4, <2>1, <2>4, KeySoFarIs
  <2>9. /\ CurrentOf(s) \in Seq(E) /\ Pass(s, digit) \in Arrays(E)
        /\ IsSortOf(CurrentOf(Pass(s, digit)), CurrentOf(s), digit)
    BY <2>6, <2>7, PassSorts
  <2>10. PICK M : M = TwoTo((p - 1) * w)
    OBVIOUS
  <2>11. TwoDigits(new, low, digit, M, E)
    BY <1>4, <2>1, <2>2, <2>4, <2>10, KeySoFarNext
  <2>12. PICK mid, out : mid = CurrentOf(s) /\ out = CurrentOf(Pass(s, digit))
    OBVIOUS
  <2>13. mid \in Seq(E) /\ IsSortOf(mid, a, low) /\ IsSortOf(out, mid, digit)
    BY <2>6, <2>9, <2>12
  <2>14. IsSortOf(out, a, new)
    BY <1>2, <2>7, <2>8, <2>11, <2>13, PassesCompose
  <2> QED  BY <2>4, <2>5, <2>9, <2>12, <2>14 DEF At
<1>12. At(passes)
  <2> DEFINE Bad == {p \in 0..passes : ~At(p)}
  <2> HIDE DEF At
  <2>1. SUFFICES ASSUME Bad # {} PROVE FALSE
    OBVIOUS
  <2>2. Bad \subseteq Nat
    OBVIOUS
  <2> HIDE DEF Bad
  <2>3. PICK p \in Bad : \A j \in Bad : p <= j
    BY <2>1, <2>2, LeastNumber
  <2> USE DEF Bad
  <2>4. p \in 0..passes /\ ~At(p)
    BY <2>3
  <2>5. p # 0
    BY <1>10, <2>4
  <2>6. p \in 1..passes /\ p - 1 \in 0..passes /\ ~(p <= p - 1)
    BY <2>4, <2>5
  <2>7. At(p - 1)
    BY <2>3, <2>6
  <2> HIDE DEF Bad
  <2> QED  BY <1>11, <2>4, <2>6, <2>7
<1>13. PICK out : out = CurrentOf(after[passes])
  OBVIOUS
<1>14. out \in Seq(E) /\ IsSortOf(out, a, KeySoFar(E, keyE, passes, w))
  BY <1>12, <1>13 DEF Arrays, CurrentOf
<1>15. \A i \in 1..Len(a) : KeySoFar(E, keyE, passes, w)[a[i]] = key[a[i]]
  <2> SUFFICES ASSUME NEW i \in 1..Len(a) PROVE KeySoFar(E, keyE, passes, w)[a[i]] = key[a[i]]
    OBVIOUS
  <2>1. a[i] \in E
    BY <1>2
  <2>2. PICK v \in Nat : v = key[a[i]]
    BY <1>4, <2>1
  <2>3. passes * w \in Nat /\ bits <= passes * w
    <3>1. bits <= passes * w
      BY <1>6, DigitsCover
    <3>2. passes * w \in Nat
      BY TimesMono
    <3> QED  BY <3>1, <3>2
  <2>4. PICK m \in Nat \ {0} : m = TwoTo(passes * w)
    BY <2>3, TwoToNext
  <2>5. PICK k \in Nat \ {0} : k = TwoTo(bits)
    BY TwoToNext
  <2>6. v < k
    BY <1>5, <2>2, <2>5, BitsHold
  <2>7. k <= m
    BY <2>3, <2>4, <2>5, TwoToMono
  <2>8. v < m
    BY <2>6, <2>7
  <2>9. v % m = v
    BY <2>8
  <2> QED  BY <1>4, <2>1, <2>2, <2>4, <2>9 DEF KeySoFar
<1>16. KeysAt(a, KeySoFar(E, keyE, passes, w)) = KeysAt(a, key)
  BY <1>15 DEF KeysAt
<1>17. IsSortOf(out, a, key)
  BY <1>14, <1>16 DEF IsSortOf, SortedTo
<1>18. out \in Seq(X)
  BY <1>2, <1>14, SeqMonotonic
<1> QED  BY <1>7, <1>13, <1>17, <1>18

(* radix_sort sorts stably, whichever way it takes, and keeps the elements. *)
LEMMA RadixSortedIs ==
  ASSUME NEW X, NEW a \in Seq(X), NEW key \in [X -> Nat]
  PROVE  RadixSorted(a, key) \in Seq(X) /\ IsSortOf(RadixSorted(a, key), a, key)
<1> DEFINE inv == Inversions(a, key)
<1>1. Len(a) \in Nat /\ \A i \in 1..Len(a) : a[i] \in X /\ key[a[i]] \in Nat
  BY LenProperties, ElementOfSeq
<1>2. \A i \in 2..Len(a) : i \in 1..Len(a) /\ i - 1 \in 1..Len(a)
  BY <1>1
<1>3. \A i \in 2..Len(a) : i \notin inv => key[a[i - 1]] <= key[a[i]]
  <2> SUFFICES ASSUME NEW i \in 2..Len(a), i \notin inv PROVE key[a[i - 1]] <= key[a[i]]
    OBVIOUS
  <2>1. PICK u \in Nat, v \in Nat : u = key[a[i - 1]] /\ v = key[a[i]]
    BY <1>1, <1>2
  <2>2. ~(u > v)
    BY <2>1 DEF Inversions
  <2> QED  BY <2>1, <2>2
<1>4. inv \subseteq 2..Len(a)
  BY DEF Inversions
<1>5. RadixSorted(a, key) = IF inv = {} THEN a
                            ELSE IF Len(a) < Small THEN InsertionSort(a, Min(inv), key)
                            ELSE DigitSort(a, key)
  BY DEF RadixSorted
<1> HIDE DEF inv
<1>6. CASE inv = {}
  <2>1. Ascending(a, key)
    BY <1>3, <1>6 DEF Ascending
  <2> QED  BY <1>5, <1>6, <2>1, AscendingIsSorted
<1>7. CASE inv # {}
  <2>1. inv \subseteq Nat
    BY <1>4
  <2>2. PICK first : first = Min(inv)
    OBVIOUS
  <2>3. first \in inv /\ \A n \in inv : first <= n
    BY <1>7, <2>1, <2>2, MinIsMember
  <2>4. first \in 2..Len(a) /\ first \in 1..Len(a) /\ 1 <= Len(a) /\ first - 1 \in 0..Len(a)
    BY <1>1, <1>4, <2>3
  <2>5. CASE Len(a) < Small
    <3> DEFINE pre == SubSeq(a, 1, first - 1)
    <3>1. Len(pre) = first - 1 /\ \A i \in 1..(first - 1) : pre[i] = a[i]
      BY <2>4, PrefixIs
    <3> HIDE DEF pre
    <3>2. Ascending(pre, key)
      <4> SUFFICES ASSUME NEW i \in 2..(first - 1) PROVE key[pre[i - 1]] <= key[pre[i]]
        BY <3>1 DEF Ascending
      <4>1. i \in 1..(first - 1) /\ i - 1 \in 1..(first - 1) /\ i \in 2..Len(a) /\ ~(first <= i)
        BY <1>1, <2>4
      <4>2. i \notin inv
        BY <2>3, <4>1
      <4>3. pre[i - 1] = a[i - 1] /\ pre[i] = a[i]
        BY <3>1, <4>1
      <4> QED  BY <1>3, <4>1, <4>2, <4>3
    <3>3. /\ InsertionSort(a, first, key) \in Seq(X)
          /\ IsSortOf(InsertionSort(a, first, key), a, key)
      BY <2>4, <3>2, InsertionSortSorts DEF pre
    <3> QED  BY <1>5, <1>7, <2>2, <2>5, <3>3
  <2>6. CASE ~(Len(a) < Small)
    <3>1. DigitSort(a, key) \in Seq(X) /\ IsSortOf(DigitSort(a, key), a, key)
      BY <2>4, DigitSortSorts
    <3> QED  BY <1>5, <1>7, <2>6, <3>1
  <2> QED  BY <2>5, <2>6
<1> QED  BY <1>6, <1>7

(* radix_sort, of any list by any keys, is a stable sort (common.rs:53).   *)
THEOREM RadixSortIsStable ==
  ASSUME NEW X, NEW a \in Seq(X), NEW key \in [X -> Nat]
  PROVE  IsStableSort(RadixSorted(a, key), a, key)
<1>1. PICK out : out = RadixSorted(a, key)
  OBVIOUS
<1>2. IsSortOf(out, a, key)
  BY <1>1, RadixSortedIs
<1>3. IsStableSort(out, a, key)
  BY <1>2, SortIsStable
<1> QED  BY <1>1, <1>3
=============================================================================
