-------------------------- MODULE HashEngineProofs --------------------------
(***************************************************************************)
(* Proofs about the content hash, for any volume, any number of threads    *)
(* and any order of the reads.                                             *)
(*                                                                         *)
(* What has to be shown is that nobody is in the way of anybody: a read    *)
(* goes behind all that waits to be hashed, and no run waits that has no   *)
(* bytes.  For that the invariant says where in memory each byte lies that *)
(* was read and not hashed, which of the pieces of the current read were   *)
(* delivered, and that what a file has got and what is left to read of it  *)
(* are all it needs.                                                       *)
(***************************************************************************)
EXTENDS HashEngine, AlgorithmProofs, FiniteSetTheorems

-----------------------------------------------------------------------------
(* Where the pieces of a read lie.                                         *)

IsPieces(ps) == Len(ps) \in Nat /\ \A k \in 1..Len(ps) : ps[k].len \in Nat

(* Each piece starts where the one before it ends.                         *)
LEMMA StartsIs ==
  ASSUME NEW ps, IsPieces(ps)
  PROVE  /\ Starts(ps)[1] = 0
         /\ \A k \in 1..Len(ps) : Starts(ps)[k + 1] = Starts(ps)[k] + ps[k].len
<1> DEFINE Dom == 1..(Len(ps) + 1)
           rank == [k \in Dom |-> k]
           At(f, k) == IF k = 1 THEN 0 ELSE f[k - 1] + ps[k - 1].len
           step == [x \in [Dom -> Nat] \X Dom |-> At(x[1], x[2])]
<1>1. Ranked(Dom, rank)
  <2>1. Len(ps) + 1 \in Nat /\ rank \in [Dom -> 0..(Len(ps) + 1)]
    BY DEF IsPieces
  <2> QED  BY <2>1 DEF Ranked
<1>2. ASSUME NEW k \in Dom, k # 1  PROVE k - 1 \in Dom /\ k - 1 \in 1..Len(ps) /\ k - 1 < k
  BY <1>2 DEF IsPieces
<1>3. ASSUME NEW f \in [Dom -> Nat], NEW k \in Dom  PROVE At(f, k) \in Nat
  <2>1. CASE k # 1
    <3>1. f[k - 1] \in Nat /\ ps[k - 1].len \in Nat
      BY <1>2, <2>1 DEF IsPieces
    <3> QED  BY <2>1, <3>1
  <2> QED  BY <2>1
<1>4. Steps(Dom, Nat, step) /\ \A f \in [Dom -> Nat], k \in Dom : step[<<f, k>>] = At(f, k)
  <2> HIDE DEF Dom, At
  <2> QED  BY <1>3 DEF Steps
<1>5. Local(Dom, Nat, rank, step)
  <2> SUFFICES ASSUME NEW k \in Dom, NEW f \in [Dom -> Nat], NEW g \in [Dom -> Nat],
                      \A j \in Dom : rank[j] < rank[k] => f[j] = g[j]
               PROVE  step[<<f, k>>] = step[<<g, k>>]
    BY DEF Local
  <2>1. k # 1 => f[k - 1] = g[k - 1]
    BY <1>2
  <2>2. At(f, k) = At(g, k)
    BY <2>1
  <2> HIDE DEF At, step
  <2>3. step[<<f, k>>] = At(f, k) /\ step[<<g, k>>] = At(g, k)
    BY <1>4
  <2> QED  BY <2>2, <2>3
<1> HIDE DEF rank, step
<1>6. PICK f : Solves(f, Dom, Nat, step)
  BY <1>1, <1>4, <1>5, RecursionExists
<1>7. f = [k \in Dom |-> At(f, k)]
  <2> HIDE DEF Dom, At
  <2> QED  BY <1>4, <1>6 DEF Solves
<1>8. Starts(ps) = CHOOSE g : g = [k \in Dom |-> At(g, k)]
  BY DEF Starts
<1>9. Starts(ps) = [k \in Dom |-> At(Starts(ps), k)]
  <2> HIDE DEF Dom, At
  <2> QED  BY <1>7, <1>8
<1> QED  BY <1>9 DEF IsPieces

(* They are in order.                                                      *)
LEMMA StartsOrder ==
  ASSUME NEW ps, IsPieces(ps)
  PROVE  /\ \A k \in 1..(Len(ps) + 1) : Starts(ps)[k] \in Nat
         /\ \A k \in 1..(Len(ps) + 1) : \A j \in 1..k : Starts(ps)[j] <= Starts(ps)[k]
<1> DEFINE s == Starts(ps)
           Good(k) == s[k] \in Nat /\ \A j \in 1..k : s[j] \in Nat /\ s[j] <= s[k]
           Bad == {k \in 1..(Len(ps) + 1) : ~Good(k)}
<1>1. Len(ps) \in Nat /\ s[1] = 0 /\ \A k \in 1..Len(ps) : ps[k].len \in Nat /\ s[k + 1] = s[k] + ps[k].len
  BY StartsIs DEF IsPieces
<1>2. SUFFICES ASSUME Bad # {} PROVE FALSE
  OBVIOUS
<1> HIDE DEF s
<1>3. Bad \subseteq Nat
  OBVIOUS
<1> HIDE DEF Bad
<1>4. PICK k \in Bad : \A j \in Bad : k <= j
  BY <1>2, <1>3, LeastNumber
<1>5. k \in 1..(Len(ps) + 1) /\ ~Good(k)
  BY <1>4 DEF Bad
<1>6. k # 1
  BY <1>1, <1>5
<1>7. k - 1 \in 1..Len(ps) /\ k - 1 \in 1..(Len(ps) + 1) /\ k - 1 \notin Bad /\ (k - 1) + 1 = k
  BY <1>1, <1>4, <1>5, <1>6
<1>8. Good(k - 1)
  BY <1>7 DEF Bad
<1>9. s[k] = s[k - 1] + ps[k - 1].len /\ ps[k - 1].len \in Nat
  BY <1>1, <1>7
<1>10. s[k] \in Nat /\ s[k - 1] <= s[k]
  BY <1>8, <1>9
<1>11. ASSUME NEW j \in 1..k  PROVE s[j] \in Nat /\ s[j] <= s[k]
  <2>1. CASE j = k
    BY <1>10, <2>1
  <2>2. CASE j # k
    <3>1. j \in 1..(k - 1)
      BY <1>5, <2>2
    <3>2. s[j] \in Nat /\ s[j] <= s[k - 1] /\ s[k - 1] \in Nat
      BY <1>8, <3>1
    <3> QED  BY <1>10, <3>2
  <2> QED  BY <2>1, <2>2
<1> QED  BY <1>5, <1>10, <1>11

-----------------------------------------------------------------------------
(* The runs a delivery is cut into.                                        *)

Run == [off : Nat, len : Nat \ {0}]

(* The longest run is a complete tree.                                     *)
LEMMA BufSzIs == FullTree(BufSz) /\ Chunk \in Nat \ {0} /\ BufSz \in Nat /\ Chunk <= BufSz
<1>1. BufSz \in Nat \ {0} /\ \E p \in 1..BufSz : PowerOfTwo(p) /\ BufSz = Chunk * p
  <2>1. PICK p \in 1..BufSz : PowerOfTwo(p) /\ BufSz = Chunk * p
    BY HashEngineAssumption
  <2>2. p \in Nat \ {0}
    OBVIOUS
  <2> QED  BY <2>1, <2>2, B3Assumption
<1>2. FullTree(BufSz)
  BY <1>1 DEF FullTree
<1> QED  BY <1>1, <1>2, CompleteIs, B3Assumption

(* A run is at most BufSz, and a complete tree at its place or one chunk.  *)
LEMMA RunLenIs ==
  ASSUME NEW a, NEW b
  PROVE  /\ RunLen(a, b) \in Chunk..BufSz /\ RunLen(a, b) \in Nat \ {0}
         /\ FullTree(RunLen(a, b))
         /\ RunLen(a, b) # Chunk => a % RunLen(a, b) = 0 /\ a + RunLen(a, b) <= b
<1> DEFINE sizes == {s \in Chunk..BufSz : \E p \in 1..s : PowerOfTwo(p) /\ s = Chunk * p}
           Fit(s) == a % s = 0 /\ a + s <= b
           S == {Chunk} \cup {s \in sizes : Fit(s)}
<1>1. Chunk \in Nat \ {0} /\ BufSz \in Nat /\ Chunk <= BufSz
  BY BufSzIs
<1>s. sizes \subseteq Chunk..BufSz /\ \A s \in sizes : FullTree(s)
  BY <1>1 DEF FullTree
<1> HIDE DEF sizes, Fit
<1>t. \A s \in S : FullTree(s) /\ (s # Chunk => Fit(s))
  BY <1>s, CompleteChunk
<1>2. S \subseteq Chunk..BufSz /\ S # {}
  <2>1. Chunk \in Chunk..BufSz /\ Chunk \in S
    BY <1>1
  <2> QED  BY <1>s, <2>1, Zenon
<1>3. RunLen(a, b) = Max(S)
  BY DEF RunLen, sizes, Fit
<1> HIDE DEF S
<1>4. S \subseteq 0..BufSz
  BY <1>1, <1>2
<1>5. Max(S) \in S
  BY <1>1, <1>2, <1>4, MaxIsMember
<1>6. Max(S) \in Chunk..BufSz
  BY <1>2, <1>5
<1>7. PICK m \in S : m = RunLen(a, b)
  BY <1>3, <1>5
<1> QED  BY <1>1, <1>3, <1>6, <1>7, <1>t DEF Fit

(* s is a row of runs from a to b.                                         *)
Cuts(s, a, b) ==
  /\ s \in Seq(Run)
  /\ a = b => s = <<>>
  /\ a < b => s # <<>> /\ s[1].off = a /\ s[Len(s)].off + s[Len(s)].len = b
  /\ \A k \in 1..Len(s) :
       a <= s[k].off /\ s[k].off < b /\ s[k].len = Min({RunLen(s[k].off, b), b - s[k].off})
  /\ \A k \in 1..Len(s) : s[k].off + s[k].len <= b
  /\ \A k \in 1..(Len(s) - 1) : s[k + 1].off = s[k].off + s[k].len

(* The length of the next run.                                             *)
LEMMA NextRun ==
  ASSUME NEW a, NEW b, NEW n \in Nat \ {0}
  PROVE  Min({RunLen(a, b), n}) \in 1..n
<1> DEFINE S == {RunLen(a, b), n}
<1>1. RunLen(a, b) \in Nat \ {0}
  BY RunLenIs
<1>2. S \subseteq Nat /\ S # {} /\ n \in S
  BY <1>1
<1>3. \A x \in S : x # 0
  BY <1>1
<1> HIDE DEF S
<1> DEFINE m == Min(S)
<1>4. m \in S /\ m <= n
  BY <1>2, MinIsMember
<1> HIDE DEF m
<1>5. m \in 1..n
  <2>1. m \in Nat /\ m # 0
    BY <1>2, <1>3, <1>4
  <2> QED  BY <1>4, <2>1
<1> QED  BY <1>5 DEF S, m

(* A run put before a row of runs.                                         *)
LEMMA CutsCons ==
  ASSUME NEW b \in Nat, NEW n \in 1..b, NEW len, len = Min({RunLen(b - n, b), n}),
         NEW s, Cuts(s, b - n + len, b)
  PROVE  Cuts(<<[off |-> b - n, len |-> len]>> \o s, b - n, b)
<1> DEFINE r == [off |-> b - n, len |-> len]
           t == <<r>> \o s
           a == b - n
<1>1. len \in 1..n /\ n \in Nat /\ a \in Nat /\ a < b /\ b - a = n
  BY NextRun
<1>2. r \in Run /\ r.off = a /\ r.len = len /\ a + len <= b
  BY <1>1 DEF Run
<1>3. /\ s \in Seq(Run) /\ Len(s) \in Nat
      /\ a + len = b => s = <<>>
      /\ a + len < b => s # <<>> /\ s[1].off = a + len /\ s[Len(s)].off + s[Len(s)].len = b
  BY DEF Cuts
<1> HIDE DEF r, a
<1>4. /\ t \in Seq(Run) /\ Len(t) = Len(s) + 1 /\ t[1] = r
      /\ \A k \in 2..Len(t) : t[k] = s[k - 1]
  BY <1>2, <1>3
<1> HIDE DEF t
<1>5. t # <<>> /\ t[1].off = a
  BY <1>2, <1>3, <1>4
<1>6. t[Len(t)].off + t[Len(t)].len = b
  <2>1. CASE a + len = b
    <3>1. s = <<>>
      BY <1>3, <2>1
    <3> QED  BY <1>2, <1>4, <2>1, <3>1
  <2>2. CASE a + len # b
    <3>1. s # <<>> /\ s[Len(s)].off + s[Len(s)].len = b
      BY <1>1, <1>2, <1>3, <2>2
    <3>2. Len(s) # 0 /\ Len(t) \in 2..Len(t) /\ Len(t) - 1 = Len(s)
      BY <1>3, <1>4, <3>1, EmptySeq
    <3> QED  BY <1>4, <3>1, <3>2
  <2> QED  BY <2>1, <2>2
<1>7. ASSUME NEW k \in 1..Len(t)
      PROVE  /\ a <= t[k].off /\ t[k].off < b
             /\ t[k].len = Min({RunLen(t[k].off, b), b - t[k].off})
             /\ t[k].off + t[k].len <= b
  <2>1. CASE k = 1
    <3>1. t[k] = r /\ b - a = n /\ r.len = Min({RunLen(a, b), b - a})
      BY <1>1, <1>2, <1>4, <2>1 DEF a
    <3>2. t[k].off = a /\ t[k].len = len
      BY <1>2, <3>1
    <3>3. t[k].len = Min({RunLen(t[k].off, b), b - t[k].off})
      BY <1>2, <3>1, <3>2, Zenon
    <3> QED  BY <1>1, <1>2, <3>2, <3>3
  <2>2. CASE k # 1
    <3>1. k \in 2..Len(t) /\ k - 1 \in 1..Len(s)
      BY <1>3, <1>4, <2>2
    <3>2. t[k] = s[k - 1] /\ s[k - 1] \in Run
      BY <1>3, <1>4, <3>1
    <3>3. /\ a + len <= s[k - 1].off /\ s[k - 1].off < b
          /\ s[k - 1].len = Min({RunLen(s[k - 1].off, b), b - s[k - 1].off})
          /\ s[k - 1].off + s[k - 1].len <= b
      BY <3>1 DEF Cuts, a
    <3>4. a <= s[k - 1].off
      BY <1>1, <3>2, <3>3 DEF Run
    <3> QED  BY <3>2, <3>3, <3>4
  <2> QED  BY <2>1, <2>2
<1>8. ASSUME NEW k \in 1..(Len(t) - 1)
      PROVE  t[k + 1].off = t[k].off + t[k].len
  <2>1. k + 1 \in 2..Len(t) /\ (k + 1) - 1 = k /\ k \in 1..Len(s)
    BY <1>3, <1>4
  <2>2. t[k + 1] = s[k]
    BY <1>4, <2>1
  <2>3. CASE k = 1
    <3>1. s # <<>>
      BY <1>3, <2>1
    <3>2. a + len # b /\ a + len < b
      <4>1. a + len # b
        <5>1. Len(s) # 0
          BY <1>3, <2>1
        <5> QED  BY <1>3, <5>1
      <4> QED  BY <1>1, <1>2, <4>1
    <3>3. s[1].off = a + len
      BY <1>3, <3>2
    <3> QED  BY <1>2, <1>4, <2>2, <2>3, <3>3
  <2>4. CASE k # 1
    <3>1. k \in 2..Len(t) /\ k - 1 \in 1..(Len(s) - 1) /\ (k - 1) + 1 = k
      BY <1>3, <1>4, <2>1, <2>4
    <3>2. s[(k - 1) + 1].off = s[k - 1].off + s[k - 1].len
      BY <3>1 DEF Cuts
    <3> QED  BY <1>4, <2>2, <3>1, <3>2
  <2> QED  BY <2>3, <2>4
<1>9. Cuts(t, a, b)
  <2>1. a # b
    BY <1>1
  <2> QED  BY <1>4, <1>5, <1>6, <1>7, <1>8, <2>1, Zenon DEF Cuts
<1> QED  BY <1>9 DEF t, r, a

(* Cut makes a row of runs.                                                *)
LEMMA CutIs ==
  ASSUME NEW a \in Nat, NEW b \in Nat, a <= b
  PROVE  Cuts(Cut(a, b), a, b)
<1> DEFINE Dom == 0..(b - a)
           rank == [n \in Dom |-> n]
           V == Seq(Run)
           Next1(n) == Min({RunLen(b - n, b), n})
           Put(f, n) == IF n = 0 THEN <<>>
                        ELSE <<[off |-> b - n, len |-> Next1(n)]>> \o f[n - Next1(n)]
           step == [x \in [Dom -> V] \X Dom |-> Put(x[1], x[2])]
<1>1. Ranked(Dom, rank)
  <2>1. b - a \in Nat /\ rank \in [Dom -> 0..(b - a)]
    OBVIOUS
  <2> QED  BY <2>1 DEF Ranked
<1>2. ASSUME NEW n \in Dom, n # 0
      PROVE  /\ n \in 1..b /\ Next1(n) \in 1..n
             /\ n - Next1(n) \in Dom /\ n - Next1(n) < n
             /\ [off |-> b - n, len |-> Next1(n)] \in Run
  <2>1. n \in Nat \ {0} /\ n \in 1..b
    BY <1>2
  <2>2. Next1(n) \in 1..n
    BY <2>1, NextRun
  <2> HIDE DEF Next1
  <2> QED  BY <2>1, <2>2 DEF Run
<1> HIDE DEF Next1
<1>3. ASSUME NEW f \in [Dom -> V], NEW n \in Dom  PROVE Put(f, n) \in V
  <2>1. CASE n # 0
    <3>1. f[n - Next1(n)] \in Seq(Run)
      BY <1>2, <2>1
    <3>2. <<[off |-> b - n, len |-> Next1(n)]>> \in Seq(Run)
      BY <1>2, <2>1
    <3> QED  BY <2>1, <3>1, <3>2
  <2>2. CASE n = 0
    BY <2>2
  <2> QED  BY <2>1, <2>2
<1>4. Steps(Dom, V, step) /\ \A f \in [Dom -> V], n \in Dom : step[<<f, n>>] = Put(f, n)
  <2>1. V # {}
    <3>1. <<>> \in V
      OBVIOUS
    <3> QED  BY <3>1
  <2> HIDE DEF Dom, Put, V
  <2> QED  BY <1>3, <2>1 DEF Steps
<1>5. Local(Dom, V, rank, step)
  <2> SUFFICES ASSUME NEW n \in Dom, NEW f \in [Dom -> V], NEW g \in [Dom -> V],
                      \A j \in Dom : rank[j] < rank[n] => f[j] = g[j]
               PROVE  step[<<f, n>>] = step[<<g, n>>]
    BY DEF Local
  <2>1. n # 0 => f[n - Next1(n)] = g[n - Next1(n)]
    BY <1>2
  <2>2. Put(f, n) = Put(g, n)
    BY <2>1
  <2> HIDE DEF Put, step
  <2>3. step[<<f, n>>] = Put(f, n) /\ step[<<g, n>>] = Put(g, n)
    BY <1>4
  <2> QED  BY <2>2, <2>3
<1> HIDE DEF rank, step, V
<1>6. PICK f : Solves(f, Dom, V, step)
  BY <1>1, <1>4, <1>5, RecursionExists
<1>7. f = [n \in Dom |-> Put(f, n)]
  <2> HIDE DEF Dom, Put
  <2> QED  BY <1>4, <1>6 DEF Solves
<1> DEFINE last == CHOOSE g : g = [n \in Dom |-> Put(g, n)]
<1>8. Cut(a, b) = last[b - a]
  BY DEF Cut, Next1
<1>9. last = [n \in Dom |-> Put(last, n)]
  <2> HIDE DEF Dom, Put
  <2> QED  BY <1>7
<1> HIDE DEF last
<1> DEFINE Bad == {n \in Dom : ~Cuts(last[n], b - n, b)}
<1>10. Bad = {}
  <2> SUFFICES ASSUME Bad # {} PROVE FALSE
    OBVIOUS
  <2>1. Bad \subseteq Nat
    OBVIOUS
  <2> HIDE DEF Bad
  <2>2. PICK n \in Bad : \A m \in Bad : n <= m
    BY <2>1, LeastNumber
  <2>3. n \in Dom /\ ~Cuts(last[n], b - n, b)
    BY <2>2 DEF Bad
  <2>4. last[n] = Put(last, n)
    BY <1>9, <2>3
  <2>5. n # 0
    <3>1. CASE n = 0
      <4>1. b - n = b /\ Len(<<>>) = 0 /\ <<>> \in Seq(Run)
        BY <3>1
      <4>2. Cuts(<<>>, b, b)
        BY <4>1 DEF Cuts
      <4> QED  BY <2>3, <2>4, <3>1, <4>1, <4>2
    <3> QED  BY <3>1
  <2> DEFINE m == n - Next1(n)
  <2>6. n \in 1..b /\ Next1(n) \in 1..n /\ m \in Dom /\ m < n
    BY <1>2, <2>3, <2>5
  <2>7. m \notin Bad
    BY <2>1, <2>2, <2>6
  <2>8. b - n + Next1(n) = b - m
    BY <2>6
  <2>9. Cuts(last[m], b - n + Next1(n), b)
    BY <2>6, <2>7, <2>8 DEF Bad
  <2>10. Cuts(<<[off |-> b - n, len |-> Next1(n)]>> \o last[m], b - n, b)
    BY <2>6, <2>9, CutsCons DEF Next1
  <2> QED  BY <2>3, <2>4, <2>5, <2>10
<1>11. b - a \in Dom /\ b - (b - a) = a
  OBVIOUS
<1> QED  BY <1>8, <1>10, <1>11

-----------------------------------------------------------------------------
(* How many bytes a set of pieces has.                                     *)

Counted(size, ps) == IsFiniteSet(ps) /\ \A p \in ps : Bytes(size, p) \in Nat
SomePiece(ps) == CHOOSE p \in ps : TRUE
SumStep(size, g, ps) ==
  IF ps = {} THEN 0 ELSE Bytes(size, SomePiece(ps)) + g[ps \ {SomePiece(ps)}]
IsSum(size, g, ps) == g = [s \in SUBSET ps |-> SumStep(size, g, s)]

(* SumBytes is the recursive function over subsets that SumStep describes. *)
LEMMA SumBytesDef ==
  ASSUME NEW size, NEW ps
  PROVE  SumBytes(size, ps) = (CHOOSE g : IsSum(size, g, ps))[ps]
BY DEF SumBytes, MapThenSumSet, MapThenFoldSet, IsSum, SumStep, SomePiece

(* Its subsets are counted too.                                            *)
LEMMA SubsetCounted ==
  ASSUME NEW size, NEW ps, Counted(size, ps), NEW s \in SUBSET ps
  PROVE  Counted(size, s) /\ Cardinality(s) \in Nat
BY FS_Subset, FS_CardinalityType DEF Counted

(* What is left when a piece is taken out.                                 *)
LEMMA LessCounted ==
  ASSUME NEW size, NEW ps, Counted(size, ps), NEW p \in ps
  PROVE  /\ Counted(size, ps \ {p}) /\ Bytes(size, p) \in Nat
         /\ Cardinality(ps \ {p}) < Cardinality(ps)
         /\ Cardinality(ps) \in Nat /\ Cardinality(ps \ {p}) \in Nat
<1>1. Cardinality(ps \ {p}) = Cardinality(ps) - 1 /\ Cardinality(ps) \in Nat
  BY FS_RemoveElement, FS_CardinalityType DEF Counted
<1>2. Counted(size, ps \ {p}) /\ Cardinality(ps \ {p}) \in Nat
  BY SubsetCounted
<1> QED  BY <1>1, <1>2 DEF Counted

(* The recursive function exists,                                          *)
LEMMA SumExists ==
  ASSUME NEW size, NEW ps, Counted(size, ps)
  PROVE  \E g : IsSum(size, g, ps)
<1> DEFINE Dom == SUBSET ps
           rank == [s \in Dom |-> Cardinality(s)]
           step == [x \in [Dom -> Nat] \X Dom |-> SumStep(size, x[1], x[2])]
<1>1. Ranked(Dom, rank)
  <2>1. Cardinality(ps) \in Nat /\ \A s \in Dom : Cardinality(s) \in 0..Cardinality(ps)
    BY SubsetCounted, FS_Subset, FS_CardinalityType DEF Counted
  <2>2. rank \in [Dom -> 0..Cardinality(ps)]
    BY <2>1
  <2> QED  BY <2>1, <2>2 DEF Ranked
<1>2. ASSUME NEW s \in Dom, s # {}
      PROVE  /\ SomePiece(s) \in s /\ s \ {SomePiece(s)} \in Dom
             /\ Bytes(size, SomePiece(s)) \in Nat
             /\ rank[s \ {SomePiece(s)}] < rank[s]
  <2>1. SomePiece(s) \in s
    BY <1>2 DEF SomePiece
  <2>2. Counted(size, s)
    BY SubsetCounted
  <2> QED  BY <2>1, <2>2, LessCounted
<1> HIDE DEF rank
<1>3. ASSUME NEW g \in [Dom -> Nat], NEW s \in Dom  PROVE SumStep(size, g, s) \in Nat
  <2>1. CASE s # {}
    <3>1. g[s \ {SomePiece(s)}] \in Nat
      BY <1>2, <2>1
    <3>2. SumStep(size, g, s) = Bytes(size, SomePiece(s)) + g[s \ {SomePiece(s)}]
      BY <2>1, Zenon DEF SumStep
    <3>3. Bytes(size, SomePiece(s)) \in Nat
      BY <1>2, <2>1
    <3> QED  BY <3>1, <3>2, <3>3
  <2> QED  BY <2>1 DEF SumStep
<1>4. Steps(Dom, Nat, step)
      /\ \A g \in [Dom -> Nat], s \in Dom : step[<<g, s>>] = SumStep(size, g, s)
  <2> HIDE DEF Dom
  <2> QED  BY <1>3 DEF Steps
<1>5. Local(Dom, Nat, rank, step)
  <2> SUFFICES ASSUME NEW s \in Dom, NEW g \in [Dom -> Nat], NEW h \in [Dom -> Nat],
                      \A j \in Dom : rank[j] < rank[s] => g[j] = h[j]
               PROVE  step[<<g, s>>] = step[<<h, s>>]
    BY DEF Local
  <2>1. s # {} => g[s \ {SomePiece(s)}] = h[s \ {SomePiece(s)}]
    BY <1>2
  <2>2. SumStep(size, g, s) = SumStep(size, h, s)
    BY <2>1, Zenon DEF SumStep
  <2> HIDE DEF step
  <2>3. step[<<g, s>>] = SumStep(size, g, s) /\ step[<<h, s>>] = SumStep(size, h, s)
    BY <1>4
  <2> QED  BY <2>2, <2>3
<1> HIDE DEF step
<1>6. PICK g : Solves(g, Dom, Nat, step)
  BY <1>1, <1>4, <1>5, RecursionExists
<1>7. g = [s \in Dom |-> SumStep(size, g, s)]
  <2> HIDE DEF Dom
  <2> QED  BY <1>4, <1>6 DEF Solves
<1> QED  BY <1>7 DEF IsSum

(* and its values do not depend on the set it is a function over.          *)
LEMMA SumUnique ==
  ASSUME NEW size, NEW ps, Counted(size, ps), NEW qs, Counted(size, qs),
         NEW g, IsSum(size, g, ps), NEW h, IsSum(size, h, qs),
         NEW s \in SUBSET ps, s \in SUBSET qs
  PROVE  g[s] = h[s] /\ g[s] \in Nat
<1> DEFINE Bad == {Cardinality(t) : t \in {t \in SUBSET s : ~(g[t] = h[t] /\ g[t] \in Nat)}}
<1>1. Counted(size, s)
  BY SubsetCounted
<1>2. SUFFICES ASSUME Bad # {} PROVE FALSE
  OBVIOUS
<1>3. Bad \subseteq Nat
  BY <1>1, SubsetCounted
<1> HIDE DEF Bad
<1>4. PICK m \in Bad : \A k \in Bad : m <= k
  BY <1>2, <1>3, LeastNumber
<1>5. PICK t \in SUBSET s : m = Cardinality(t) /\ ~(g[t] = h[t] /\ g[t] \in Nat)
  BY <1>4 DEF Bad
<1>6. g[t] = SumStep(size, g, t) /\ h[t] = SumStep(size, h, t)
  <2>1. t \in SUBSET ps /\ t \in SUBSET qs
    OBVIOUS
  <2> QED  BY <2>1, Zenon DEF IsSum
<1>7. t # {}
  BY <1>5, <1>6 DEF SumStep
<1> DEFINE p == SomePiece(t)
           u == t \ {p}
<1>8. p \in t
  BY <1>7 DEF SomePiece
<1>9. Counted(size, t)
  BY <1>1, SubsetCounted
<1>10. u \in SUBSET s /\ Cardinality(u) < m /\ Bytes(size, p) \in Nat /\ Cardinality(u) \in Nat
  BY <1>5, <1>8, <1>9, LessCounted
<1>11. Cardinality(u) \notin Bad
  BY <1>3, <1>4, <1>10
<1> HIDE DEF u, p
<1>12. g[u] = h[u] /\ g[u] \in Nat
  BY <1>10, <1>11 DEF Bad
<1>13. g[t] = Bytes(size, p) + g[u] /\ h[t] = Bytes(size, p) + h[u]
  BY <1>6, <1>7, Zenon DEF SumStep, u, p
<1> QED  BY <1>5, <1>10, <1>12, <1>13

(* No pieces, no bytes; otherwise some piece and the others.               *)
LEMMA SumSome ==
  ASSUME NEW size, NEW ps, Counted(size, ps)
  PROVE  /\ SumBytes(size, ps) \in Nat
         /\ ps = {} => SumBytes(size, ps) = 0
         /\ ps # {} => SumBytes(size, ps)
                         = Bytes(size, SomePiece(ps)) + SumBytes(size, ps \ {SomePiece(ps)})
<1> DEFINE g == CHOOSE g : IsSum(size, g, ps)
<1>1. IsSum(size, g, ps)
  BY SumExists
<1>2. SumBytes(size, ps) = g[ps]
  BY SumBytesDef
<1> HIDE DEF g
<1>3. g[ps] = SumStep(size, g, ps)
  BY <1>1, Zenon DEF IsSum
<1>4. g[ps] \in Nat
  <2>1. ps \in SUBSET ps
    OBVIOUS
  <2> QED  BY <1>1, <2>1, SumUnique
<1>5. ASSUME ps # {}
      PROVE  g[ps \ {SomePiece(ps)}] = SumBytes(size, ps \ {SomePiece(ps)})
  <2> DEFINE qs == ps \ {SomePiece(ps)}
             h == CHOOSE h : IsSum(size, h, qs)
  <2>1. SomePiece(ps) \in ps
    BY <1>5 DEF SomePiece
  <2>2. Counted(size, qs)
    BY <2>1, LessCounted
  <2>3. IsSum(size, h, qs)
    BY <2>2, SumExists
  <2>4. SumBytes(size, qs) = h[qs]
    BY SumBytesDef
  <2>5. qs \in SUBSET ps /\ qs \in SUBSET qs
    OBVIOUS
  <2> HIDE DEF qs, h
  <2>6. g[qs] = h[qs]
    BY <1>1, <2>2, <2>3, <2>5, SumUnique
  <2> QED  BY <2>4, <2>6 DEF qs
<1> QED  BY <1>2, <1>3, <1>4, <1>5 DEF SumStep

(* Any piece and the others.                                               *)
LEMMA SumWithout ==
  ASSUME NEW size, NEW ps, Counted(size, ps), NEW p \in ps
  PROVE  SumBytes(size, ps) = Bytes(size, p) + SumBytes(size, ps \ {p})
<1> DEFINE Good(s) == \A q \in s : SumBytes(size, s) = Bytes(size, q) + SumBytes(size, s \ {q})
           Bad == {Cardinality(s) : s \in {s \in SUBSET ps : ~Good(s)}}
<1>1. SUFFICES ASSUME Bad # {} PROVE FALSE
  <2>1. ps \in SUBSET ps
    OBVIOUS
  <2>2. Bad = {} => Good(ps)
    BY <2>1
  <2> QED  BY <2>2
<1>2. Bad \subseteq Nat
  BY SubsetCounted
<1> HIDE DEF Bad
<1>3. PICK m \in Bad : \A k \in Bad : m <= k
  BY <1>1, <1>2, LeastNumber
<1>4. PICK s \in SUBSET ps : m = Cardinality(s) /\ ~Good(s)
  BY <1>3 DEF Bad
<1>5. PICK q \in s : ~(SumBytes(size, s) = Bytes(size, q) + SumBytes(size, s \ {q}))
  BY <1>4
<1> DEFINE x == SomePiece(s)
<1>6. x \in s
  BY <1>5 DEF SomePiece
<1>7. Counted(size, s)
  BY SubsetCounted
<1>8. SumBytes(size, s) = Bytes(size, x) + SumBytes(size, s \ {x})
  BY <1>5, <1>7, SumSome
<1> HIDE DEF x
<1>9. x # q
  BY <1>5, <1>8
<1>10. ASSUME NEW y \in s
       PROVE  /\ Good(s \ {y})
              /\ Bytes(size, y) \in Nat
              /\ Counted(size, s \ {y})
  <2>1. /\ Cardinality(s \ {y}) < m /\ Cardinality(s \ {y}) \in Nat /\ s \ {y} \in SUBSET ps
        /\ Bytes(size, y) \in Nat /\ Counted(size, s \ {y})
    BY <1>4, <1>7, LessCounted
  <2>2. Cardinality(s \ {y}) \notin Bad
    BY <1>2, <1>3, <2>1
  <2> HIDE DEF Good
  <2> QED  BY <2>1, <2>2 DEF Bad
<1>11. SumBytes(size, s \ {x}) = Bytes(size, q) + SumBytes(size, (s \ {x}) \ {q})
  BY <1>6, <1>9, <1>10
<1>12. SumBytes(size, s \ {q}) = Bytes(size, x) + SumBytes(size, (s \ {q}) \ {x})
  BY <1>6, <1>9, <1>10
<1>13. (s \ {x}) \ {q} = (s \ {q}) \ {x}
  OBVIOUS
<1>14. SumBytes(size, (s \ {x}) \ {q}) \in Nat
  <2>1. Counted(size, (s \ {x}) \ {q})
    BY <1>6, <1>9, <1>10, LessCounted
  <2> QED  BY <2>1, SumSome
<1> DEFINE n == SumBytes(size, (s \ {x}) \ {q})
           a == SumBytes(size, s)
           b == SumBytes(size, s \ {x})
           c == SumBytes(size, s \ {q})
<1>15. a = Bytes(size, x) + b /\ b = Bytes(size, q) + n /\ c = Bytes(size, x) + n
       /\ n \in Nat /\ Bytes(size, x) \in Nat /\ Bytes(size, q) \in Nat /\ a # Bytes(size, q) + c
  BY <1>5, <1>6, <1>8, <1>10, <1>11, <1>12, <1>13, <1>14
<1> HIDE DEF n, a, b, c
<1> QED  BY <1>15

-----------------------------------------------------------------------------
(* What holds in every state: where each byte that was read and not hashed *)
(* yet lies in memory, and that the read in progress has room behind it.   *)

Extent == [off : Nat, len : Nat \ {0}]
Piece == [f : File, off : Nat, len : Nat \ {0}]
Job == [at : Nat, f : File, i : Nat \ {0}]

IsRun(r) ==
  /\ {"off", "len", "cv"} \subseteq DOMAIN r
  /\ r.off \in Nat /\ r.len \in Nat \ {0}
IsFile(h) ==
  /\ {"open", "got", "runs", "whole", "done"} \subseteq DOMAIN h
  /\ h.open \in BOOLEAN /\ h.got \in Nat
  /\ h.runs = [k \in 1..Len(h.runs) |-> h.runs[k]] /\ Len(h.runs) \in Nat
  /\ \A k \in 1..Len(h.runs) : IsRun(h.runs[k])

(* What has which shape.                                                   *)
Shapes ==
  /\ [threads |-> threads, vol |-> vol] \in Inputs
  /\ todo \in [File -> SUBSET Extent]
  /\ \A f \in File : todo[f] \subseteq vol[f].data
  /\ DOMAIN hf = File /\ hf = [f \in File |-> hf[f]]
  /\ \A f \in File : IsFile(hf[f])
  /\ DOMAIN mem = 1..MemLen /\ mem = [i \in 1..MemLen |-> mem[i]]
  /\ jobs \in Seq(Job)
  /\ done \in Seq(File)
  /\ cur \in [pieces : Seq(Piece), at : Nat, want : Nat]
  /\ pc \in {"method", "read", "deliver", "used", "hash", "finish", "check",
             "complete", "dead"}

(* The arena is used in whole units, and only in batch mode.               *)
Units(n) == \E a \in Nat : n = Align * a
FillInv ==
  /\ fill \in 0..MemLen
  /\ Units(fill)
  /\ ~Batch => fill = 0 /\ jobs = <<>>
  /\ pc = "finish" => fill = 0

(* What arrived of a file and what was not read yet is all it needs.       *)
CountInv ==
  pc # "dead" =>
    \A f \in File :
      /\ hf[f].got + SumBytes(Size(f), todo[f]) = Need(f)
      /\ ~hf[f].open => hf[f].got = 0

(* A flush hashes every job there is; after it there is none.              *)
FlushInv ==
  /\ unhashed \subseteq DOMAIN jobs
  /\ pc # "hash" => unhashed = {}
  /\ pc \in {"finish", "check", "complete"} => jobs = <<>>

(* Where the read in progress is placed.                                   *)
Base == IF Batch THEN fill ELSE 0

(* The pieces of the read were not delivered yet.                          *)
Ahead(ps) ==
  /\ ps # <<>>
  /\ \A k \in 1..Len(ps) :
       /\ [off |-> ps[k].off, len |-> ps[k].len] \in todo[ps[k].f]
       /\ hf[ps[k].f].open
  /\ \A j, k \in 1..Len(ps) : ps[j] = ps[k] => j = k

Planned ==
  /\ Ahead(cur.pieces)
  /\ BlockBytes(cur.pieces) <= BufSz
  /\ cur.want \in Wants(cur.pieces)

(* The bytes of piece p lie in memory from at on.                          *)
Lies(p, at) ==
  /\ at + Bytes(Size(p.f), p) <= Base + cur.want
  /\ \A i \in 1..Bytes(Size(p.f), p) : mem[at + i] = Byte(p.f, p.off + i - 1)

(* The pieces to deliver lie in memory one behind the other, from cur.at.  *)
Delivering ==
  /\ Ahead(cur.pieces)
  /\ \E pos \in [1..Len(cur.pieces) -> Nat] :
       /\ pos[1] = cur.at
       /\ \A k \in 1..(Len(cur.pieces) - 1) : pos[k + 1] = pos[k] + cur.pieces[k].len
       /\ \A k \in 1..Len(cur.pieces) : Lies(cur.pieces[k], pos[k])

ReadInv ==
  /\ pc \in {"method", "check", "complete"} => cur = NoCur
  /\ pc \in {"hash", "finish"} => cur = NoCur \/ Planned
  /\ pc = "read" => Planned
  /\ pc = "deliver" => Delivering
  /\ pc \in {"read", "deliver", "used"} => Base + cur.want <= MemLen

(* Where the data that waits to be hashed ends.                            *)
Top == IF pc \in {"deliver", "used", "dead"} THEN fill + cur.want ELSE fill

(* The bytes of the job's run lie where the job says.                      *)
Waits(j) ==
  LET r == hf[j.f].runs[j.i]
  IN /\ j.at + r.len <= Top
     /\ r.off + r.len <= Size(j.f)
     /\ \A i \in 1..r.len : mem[j.at + i] = Byte(j.f, r.off + i - 1)

(* Every job is one of a run there is, of an open file.                    *)
JobInv ==
  \A i \in 1..Len(jobs) :
    /\ hf[jobs[i].f].open
    /\ jobs[i].i \in 1..Len(hf[jobs[i].f].runs)
    /\ (pc # "hash" \/ i \in unhashed) => Waits(jobs[i])

EInv == Shapes /\ FillInv /\ CountInv /\ FlushInv /\ ReadInv /\ JobInv

-----------------------------------------------------------------------------
(* The volume and the room for it.                                         *)

InputOK == [threads |-> threads, vol |-> vol] \in Inputs

(* What the inputs are.                                                    *)
LEMMA VolumeIs ==
  ASSUME InputOK
  PROVE  /\ threads \in Nat \ {0}
         /\ vol \in Seq([size : Nat, data : SUBSET Extent])
         /\ IsVolume(vol)
<1> DEFINE in == [threads |-> threads, vol |-> vol]
<1>1. in \in Inputs /\ in.threads = threads /\ in.vol = vol
  BY DEF InputOK
<1> HIDE DEF in
<1>2. in \in [threads : Nat \ {0}, vol : Seq([size : Nat, data : SUBSET Extent])]
  BY <1>1, HashEngineAssumption DEF Extent
<1>3. IsVolume(in.vol)
  BY <1>1, HashEngineAssumption
<1> QED  BY <1>1, <1>2, <1>3

(* A file, its pieces, and how much of a piece is the file's.              *)
LEMMA FileIs ==
  ASSUME InputOK, NEW f \in File
  PROVE  /\ Size(f) \in Nat /\ vol[f].data \subseteq Extent
         /\ \A p \in vol[f].data :
              /\ p.off \in Nat /\ p.len \in Nat \ {0} /\ p.off % Chunk = 0 /\ p.len % Chunk = 0
              /\ Bytes(Size(f), p) \in 1..p.len /\ p.off + Bytes(Size(f), p) <= Size(f)
         /\ \A ps \in SUBSET vol[f].data : Counted(Size(f), ps)
<1>1. f \in 1..Len(vol) /\ f \in DOMAIN vol /\ vol[f] \in [size : Nat, data : SUBSET Extent]
  <2>1. f \in 1..Len(vol) /\ vol \in Seq([size : Nat, data : SUBSET Extent])
    BY VolumeIs DEF File
  <2> HIDE DEF Extent
  <2> QED  BY <2>1, ElementOfSeq, LenProperties
<1>2. /\ IsFiniteSet(vol[f].data)
      /\ \A p \in vol[f].data : p.off % Chunk = 0 /\ p.len % Chunk = 0 /\ p.off < vol[f].size
  BY <1>1, VolumeIs DEF IsVolume
<1>3. ASSUME NEW p \in vol[f].data
      PROVE  /\ p.off \in Nat /\ p.len \in Nat \ {0} /\ p.off % Chunk = 0 /\ p.len % Chunk = 0
             /\ Bytes(Size(f), p) \in 1..p.len /\ p.off + Bytes(Size(f), p) <= Size(f)
  <2>1. p.off \in Nat /\ p.len \in Nat \ {0} /\ vol[f].size \in Nat /\ p.off < vol[f].size
    BY <1>1, <1>2 DEF Extent
  <2> QED  BY <1>2, <2>1 DEF Bytes, Size
<1>4. ASSUME NEW ps \in SUBSET vol[f].data
      PROVE  Counted(Size(f), ps)
  <2>1. IsFiniteSet(ps)
    BY <1>2, FS_Subset
  <2>2. \A p \in ps : Bytes(Size(f), p) \in Nat
    BY <1>3
  <2> QED  BY <2>1, <2>2 DEF Counted
<1> QED  BY <1>1, <1>3, <1>4 DEF Size

(* The arena has room for a read, in whole units of its alignment.         *)
LEMMA RoomIs ==
  ASSUME InputOK
  PROVE  /\ MemLen \in Nat /\ BufSz <= MemLen /\ BufSz \in Nat
         /\ Units(MemLen)
         /\ Batch \in BOOLEAN /\ Align \in Nat \ {0}
<1>1. threads \in Nat \ {0} /\ BufSz \in Nat \ {0} /\ Align \in Nat \ {0} /\ BufSz % Align = 0
  BY VolumeIs, HashEngineAssumption
<1>2. PICK q \in Nat : BufSz = Align * q
  BY <1>1, Divides
<1>3. CASE Batch
  <2>1. MemLen = 2 * threads * BufSz
    BY <1>3 DEF MemLen
  <2>2. PICK t \in Nat \ {0} : t = 2 * threads
    BY <1>1
  <2>3. MemLen = t * BufSz /\ MemLen \in Nat /\ BufSz <= MemLen
    <3>1. t * BufSz \in Nat /\ BufSz <= t * BufSz
      BY <1>1
    <3> QED  BY <2>1, <2>2, <3>1
  <2>4. MemLen = Align * (t * q) /\ t * q \in Nat
    <3>1. t * (Align * q) = Align * (t * q) /\ t * q \in Nat
      BY <1>1
    <3> QED  BY <1>2, <2>3, <3>1
  <2> QED  BY <1>1, <1>3, <2>3, <2>4 DEF Units
<1>4. CASE ~Batch
  BY <1>1, <1>2, <1>4 DEF MemLen, Batch, Units
<1> QED  BY <1>1, <1>3, <1>4 DEF Batch

(* Rounding the end of a read up stays in the arena, and past the data.    *)
Rounded(w) == ((w + Align - 1) \div Align) * Align

(* Between two multiples of the alignment a rounded length fits.           *)
LEMMA RoundUp ==
  ASSUME NEW s \in Nat, Units(s), NEW t \in Nat, Units(t), NEW w \in Nat, s + w <= t
  PROVE  /\ w <= Rounded(w) /\ Rounded(w) \in Nat
         /\ s + Rounded(w) <= t /\ Units(s + Rounded(w))
<1>0. PICK g \in Nat \ {0}, a \in Nat, m \in Nat :
        g = Align /\ s = g * a /\ t = g * m /\ g * a + w <= g * m
  BY HashEngineAssumption DEF Units
<1> DEFINE x == w + g - 1
<1>1. x \in Nat
  OBVIOUS
<1>2. PICK q \in Nat, r \in 0..(g - 1) : x = g * q + r /\ q = x \div g
  <2> HIDE DEF x
  <2> QED  BY <1>1, DivMod
<1> DEFINE n == g * q
<1>3. n \in Nat /\ g * a \in Nat /\ g * m \in Nat /\ q * g = n /\ g * (a + q) = g * a + n
  OBVIOUS
<1>4. w <= n /\ n <= w + g - 1
  BY <1>2, <1>3
<1>5. a + q <= m
  <2> SUFFICES ASSUME m + 1 <= a + q PROVE FALSE
    OBVIOUS
  <2>1. PICK d \in Nat : a + q = m + 1 + d
    <3>1. a + q - (m + 1) \in Nat /\ a + q = m + 1 + (a + q - (m + 1))
      OBVIOUS
    <3> QED  BY <3>1
  <2>2. g * (m + 1 + d) = g * m + g + g * d /\ g * d \in Nat
    OBVIOUS
  <2>3. g * a + n = g * m + g + g * d
    BY <1>3, <2>1, <2>2
  <2> DEFINE u == g * a
             v == g * m
             y == g * d
  <2>4. /\ u \in Nat /\ v \in Nat /\ y \in Nat /\ u + w <= v
        /\ u + n = v + g + y /\ n \in Nat /\ n <= w + g - 1
    BY <1>0, <1>3, <1>4, <2>2, <2>3
  <2> HIDE DEF u, v, y, n
  <2> QED  BY <2>4
<1>6. g * (a + q) <= g * m
  <2>1. PICK d \in Nat : m = a + q + d
    <3>1. m - (a + q) \in Nat /\ m = a + q + (m - (a + q))
      BY <1>5
    <3> QED  BY <3>1
  <2>2. g * (a + q + d) = g * (a + q) + g * d /\ g * d \in Nat /\ g * (a + q) \in Nat
    OBVIOUS
  <2> QED  BY <2>1, <2>2
<1>7. Rounded(w) = n
  BY <1>0, <1>2, <1>3 DEF Rounded
<1>8. s + Rounded(w) = g * (a + q)
  BY <1>0, <1>3, <1>7
<1>9. Units(g * (a + q))
  <2>1. a + q \in Nat
    OBVIOUS
  <2> QED  BY <1>0, <2>1 DEF Units
<1> QED  BY <1>0, <1>3, <1>4, <1>6, <1>7, <1>8, <1>9

-----------------------------------------------------------------------------
(* What a step leaves alone.                                               *)

(* Nothing ever changes the volume, and so what is computed from it.       *)
LEMMA SameVolume ==
  ASSUME UNCHANGED <<threads, vol>>
  PROVE  /\ File' = File /\ MemLen' = MemLen /\ Batch' = Batch
         /\ Piece' = Piece /\ Job' = Job
         /\ InputOK' = InputOK
         /\ \A f : Size(f)' = Size(f) /\ Need(f)' = Need(f)
         /\ \A f, i : Byte(f, i)' = Byte(f, i)
BY DEF File, MemLen, Batch, Piece, Job, InputOK, Size, Need, Byte

(* A job's data stays where it is if the memory below Top does.            *)
LEMMA WaitsStays ==
  ASSUME UNCHANGED <<threads, vol>>,
         Top \in Nat, Top' \in Nat, Top <= Top',
         \A i \in 1..Top : mem'[i] = mem[i],
         NEW j \in Job, IsRun(hf[j.f].runs[j.i]), Waits(j),
         hf'[j.f].runs[j.i].off = hf[j.f].runs[j.i].off,
         hf'[j.f].runs[j.i].len = hf[j.f].runs[j.i].len
  PROVE  Waits(j)'
<1>1. PICK o \in Nat, n \in Nat \ {0} :
        /\ o = hf[j.f].runs[j.i].off /\ n = hf[j.f].runs[j.i].len
        /\ o = hf'[j.f].runs[j.i].off /\ n = hf'[j.f].runs[j.i].len
  BY DEF IsRun
<1>2. /\ j.at + n <= Top /\ o + n <= Size(j.f) /\ j.at \in Nat
      /\ \A i \in 1..n : mem[j.at + i] = Byte(j.f, o + i - 1)
  BY <1>1 DEF Waits, Job
<1>3. j.at + n <= Top' /\ o + n <= Size(j.f)'
  BY <1>2, SameVolume
<1>4. ASSUME NEW i \in 1..n
      PROVE  mem'[j.at + i] = Byte(j.f, o + i - 1)'
  <2>1. j.at + i \in 1..Top
    BY <1>2
  <2>2. mem'[j.at + i] = Byte(j.f, o + i - 1)
    BY <1>2, <2>1
  <2> QED  BY <2>2, SameVolume
<1> QED  BY <1>1, <1>3, <1>4 DEF Waits

(* What of a file arrived, and what was not read yet.                      *)
LEMMA CountIs ==
  ASSUME EInv, pc # "dead", NEW f \in File
  PROVE  /\ hf[f].got + SumBytes(Size(f), todo[f]) = Need(f)
         /\ ~hf[f].open => hf[f].got = 0
<1>1. CountInv
  BY DEF EInv
<1>2. \A g \in File :
        /\ hf[g].got + SumBytes(Size(g), todo[g]) = Need(g)
        /\ ~hf[g].open => hf[g].got = 0
  BY <1>1, Zenon DEF CountInv
<1> QED  BY <1>2

(* What a job and its run are.                                             *)
LEMMA JobIs ==
  ASSUME EInv, NEW i \in 1..Len(jobs)
  PROVE  /\ jobs[i] \in Job /\ jobs[i].f \in File
         /\ IsFile(hf[jobs[i].f]) /\ hf[jobs[i].f].open
         /\ jobs[i].i \in 1..Len(hf[jobs[i].f].runs)
         /\ IsRun(hf[jobs[i].f].runs[jobs[i].i])
<1>1. jobs \in Seq(Job) /\ \A f \in File : IsFile(hf[f])
  BY DEF EInv, Shapes
<1>2. jobs[i] \in Job
  BY <1>1, ElementOfSeq
<1>3. jobs[i].f \in File
  BY <1>2 DEF Job
<1>4. hf[jobs[i].f].open /\ jobs[i].i \in 1..Len(hf[jobs[i].f].runs)
  BY DEF EInv, JobInv
<1> QED  BY <1>1, <1>2, <1>3, <1>4 DEF IsFile

(* Top is a number.                                                        *)
LEMMA TopIs ==
  ASSUME EInv
  PROVE  Top \in Nat /\ fill \in Nat /\ cur.want \in Nat /\ (pc = "method" => Top = fill)
<1>1. fill \in Nat
  BY RoomIs DEF EInv, Shapes, FillInv, InputOK
<1>2. cur.want \in Nat
  BY DEF EInv, Shapes
<1> QED  BY <1>1, <1>2 DEF Top

(* A step that changes neither the memory below Top, nor the jobs, nor     *)
(* the runs of an open file, leaves what waits as it was.                  *)
LEMMA JobsStay ==
  ASSUME EInv, UNCHANGED <<threads, vol, jobs>>,
         Top' \in Nat, Top <= Top',
         pc # "hash",
         \A i \in 1..Top : mem'[i] = mem[i],
         \A f \in File : hf[f].open => hf'[f].open /\ hf'[f].runs = hf[f].runs
  PROVE  JobInv'
<1> SUFFICES ASSUME NEW i \in 1..Len(jobs)
             PROVE  /\ hf'[jobs[i].f].open
                    /\ jobs[i].i \in 1..Len(hf'[jobs[i].f].runs)
                    /\ Waits(jobs[i])'
  BY DEF JobInv
<1>1. /\ jobs[i] \in Job /\ jobs[i].f \in File
      /\ hf[jobs[i].f].open /\ jobs[i].i \in 1..Len(hf[jobs[i].f].runs)
      /\ IsRun(hf[jobs[i].f].runs[jobs[i].i])
  BY JobIs
<1>2. hf'[jobs[i].f].open /\ hf'[jobs[i].f].runs = hf[jobs[i].f].runs
  BY <1>1
<1>3. Waits(jobs[i])
  BY DEF EInv, JobInv
<1>4. ASSUME NEW j \in Job, j = jobs[i]
      PROVE  Waits(j)'
  BY <1>1, <1>2, <1>3, <1>4, TopIs, WaitsStays
<1> QED  BY <1>1, <1>2, <1>4

(* A file may have no runs.                                                *)
LEMMA NoRuns ==
  ASSUME NEW s, s = <<>>
  PROVE  /\ Len(s) = 0 /\ s = [k \in 1..Len(s) |-> s[k]]
         /\ \A k \in 1..Len(s) : IsRun(s[k])
<1>1. Len(s) = 0 /\ s \in Seq(Nat)
  OBVIOUS
<1>2. s \in [1..Len(s) -> Nat]
  BY <1>1, LenProperties
<1> QED  BY <1>1, <1>2

(* The files a step makes.                                                 *)
LEMMA FilesMade ==
  /\ IsFile(NewFile) /\ NewFile.got = 0
  /\ LET h == [NewFile EXCEPT !.open = TRUE]
     IN IsFile(h) /\ h.open /\ h.got = 0
  /\ \A h : IsFile(h) => IsFile(Finished(h)) /\ Finished(h).open = h.open
                         /\ Finished(h).got = h.got
<1>1. ASSUME NEW h, IsFile(h)
      PROVE  /\ IsFile(Finished(h)) /\ Finished(h).open = h.open
             /\ Finished(h).got = h.got
  <2>1. /\ {"open", "got", "runs", "whole", "done"} \subseteq DOMAIN Finished(h)
        /\ Finished(h).open = h.open /\ Finished(h).got = h.got /\ Finished(h).runs = <<>>
    BY <1>1 DEF IsFile, Finished
  <2> QED  BY <1>1, <2>1, NoRuns DEF IsFile
<1>2. IsFile(NewFile) /\ NewFile.got = 0
  BY NoRuns DEF IsFile, NewFile
<1>3. LET h == [NewFile EXCEPT !.open = TRUE]
      IN IsFile(h) /\ h.open /\ h.got = 0
  BY NoRuns DEF IsFile, NewFile
<1> QED  BY <1>1, <1>2, <1>3

(* hf_finish either dies or marks the file.                                *)
LEMMA FinishIs ==
  ASSUME NEW f, NEW h, NEW next, Finish(f, h, next)
  PROVE  \/ pc' = "dead" /\ hf' = hf
         \/ pc' = next /\ hf' = [hf EXCEPT ![f] = Finished(h)]
BY DEF Finish

-----------------------------------------------------------------------------
(* The first state.                                                        *)
LEMMA InitHolds == Init => EInv
<1> SUFFICES ASSUME Init PROVE EInv
  OBVIOUS
<1>1. InputOK
  <2>1. PICK in \in Inputs : threads = in.threads /\ vol = in.vol
    BY DEF Init
  <2>2. in = [threads |-> in.threads, vol |-> in.vol]
    BY HashEngineAssumption
  <2> QED  BY <2>1, <2>2 DEF InputOK
<1>2. Shapes
  <2>1. todo \in [File -> SUBSET Extent] /\ \A f \in File : todo[f] \subseteq vol[f].data
    BY <1>1, FileIs DEF Init
  <2>2. /\ DOMAIN hf = File /\ hf = [f \in File |-> hf[f]]
        /\ \A f \in File : IsFile(hf[f])
    BY FilesMade DEF Init
  <2>3. DOMAIN mem = 1..MemLen /\ mem = [i \in 1..MemLen |-> mem[i]]
    BY DEF Init
  <2>4. jobs \in Seq(Job) /\ done \in Seq(File)
    BY DEF Init
  <2>5. cur \in [pieces : Seq(Piece), at : Nat, want : Nat]
    BY DEF Init, NoCur
  <2> QED  BY <1>1, <2>1, <2>2, <2>3, <2>4, <2>5 DEF Shapes, InputOK, Init
<1>3. FillInv
  <2>1. MemLen \in Nat /\ Align \in Nat \ {0}
    BY <1>1, RoomIs
  <2>2. 0 \in 0..MemLen /\ Units(0)
    BY <2>1 DEF Units
  <2> QED  BY <2>2 DEF FillInv, Init
<1>4. CountInv
  <2> SUFFICES ASSUME NEW f \in File
               PROVE  hf[f].got + SumBytes(Size(f), todo[f]) = Need(f) /\ hf[f].got = 0
    BY DEF CountInv
  <2>1. hf[f].got = 0 /\ todo[f] = vol[f].data
    BY FilesMade DEF Init
  <2>2. Counted(Size(f), vol[f].data)
    BY <1>1, FileIs
  <2>3. SumBytes(Size(f), vol[f].data) \in Nat
    BY <2>2, SumSome
  <2> QED  BY <2>1, <2>3 DEF Need
<1>5. FlushInv
  BY DEF FlushInv, Init
<1>6. ReadInv
  BY DEF ReadInv, Init
<1>7. JobInv
  BY DEF JobInv, Init
<1> QED  BY <1>2, <1>3, <1>4, <1>5, <1>6, <1>7 DEF EInv

(* A file that is opened has no jobs, and nothing of it was read.          *)
LEMMA OpenHolds ==
  ASSUME EInv, NEW f \in File, Open(f)
  PROVE  EInv'
<1> DEFINE h == [NewFile EXCEPT !.open = TRUE]
<1>1. /\ pc = "method" /\ ~hf[f].open
      /\ UNCHANGED <<threads, vol, todo, mem, fill, jobs, unhashed, done, cur>>
  BY DEF Open
<1>2. IsFile(h) /\ h.open /\ h.got = 0
  BY FilesMade
<1>3. IsFile(Finished(h)) /\ Finished(h).open /\ Finished(h).got = 0
  BY <1>2, FilesMade
<1>4. \/ pc' = "dead" /\ hf' = hf
      \/ pc' = "method" /\ \E x : IsFile(x) /\ x.open /\ x.got = 0 /\ hf' = [hf EXCEPT ![f] = x]
  <2>1. CASE Need(f) = 0
    <3>1. Finish(f, h, "method")
      BY <2>1 DEF Open
    <3> HIDE DEF h
    <3> QED  BY <1>3, <3>1, FinishIs
  <2>2. CASE Need(f) # 0
    <3>1. hf' = [hf EXCEPT ![f] = h] /\ pc' = pc
      BY <2>2 DEF Open
    <3> HIDE DEF h
    <3> QED  BY <1>1, <1>2, <3>1
  <2> QED  BY <2>1, <2>2
<1> HIDE DEF h
<1>5. File' = File
  BY <1>1, SameVolume
<1>6. /\ DOMAIN hf' = File /\ hf' = [g \in File |-> hf'[g]]
      /\ \A g \in File : IsFile(hf'[g])
      /\ \A g \in File : g # f => hf'[g] = hf[g]
      /\ pc' # "dead" => hf'[f].open /\ hf'[f].got = 0
  BY <1>4 DEF EInv, Shapes
<1>7. Shapes'
  <2>1. pc' \in {"method", "dead"}
    BY <1>4
  <2> QED  BY <1>1, <1>5, <1>6, <2>1, SameVolume DEF EInv, Shapes
<1>8. FillInv'
  <2>1. pc' # "finish"
    BY <1>4
  <2> QED  BY <1>1, <2>1, SameVolume DEF EInv, FillInv
<1>9. CountInv'
  <2> SUFFICES ASSUME pc' # "dead", NEW g \in File
               PROVE  /\ hf'[g].got + SumBytes(Size(g), todo[g]) = Need(g)
                      /\ ~hf'[g].open => hf'[g].got = 0
    BY <1>1, <1>5, SameVolume DEF CountInv
  <2>1. /\ hf[g].got + SumBytes(Size(g), todo[g]) = Need(g)
        /\ ~hf[g].open => hf[g].got = 0
    BY <1>1, CountIs
  <2>2. CASE g # f
    BY <1>6, <2>1, <2>2
  <2>3. CASE g = f
    BY <1>1, <1>6, <2>1, <2>3
  <2> QED  BY <2>2, <2>3
<1>10. FlushInv'
  <2>1. pc' \in {"method", "dead"}
    BY <1>4
  <2> QED  BY <1>1, <2>1 DEF EInv, FlushInv
<1>11. cur = NoCur /\ cur.want = 0
  BY <1>1 DEF EInv, ReadInv, NoCur
<1>12. ReadInv'
  <2>1. pc' \in {"method", "dead"}
    BY <1>4
  <2>2. cur' = NoCur'
    BY <1>1, <1>11 DEF NoCur
  <2> QED  BY <2>1, <2>2 DEF ReadInv
<1>13. JobInv'
  <2>1. Top' \in Nat /\ Top <= Top'
    <3>1. Top = fill /\ fill \in Nat
      BY <1>1, TopIs
    <3>2. Top' = fill \/ Top' = fill + 0
      BY <1>1, <1>11 DEF Top
    <3> QED  BY <3>1, <3>2
  <2>2. \A g \in File : hf[g].open => hf'[g].open /\ hf'[g].runs = hf[g].runs
    BY <1>1, <1>6
  <2> QED  BY <1>1, <2>1, <2>2, JobsStay
<1> QED  BY <1>7, <1>8, <1>9, <1>10, <1>12, <1>13 DEF EInv

-----------------------------------------------------------------------------
(* What a method may read, and how much of it.                             *)

(* A read takes pieces that lie ahead.                                     *)
LEMMA ReadsAre ==
  ASSUME EInv, NEW ps \in Reads
  PROVE  ps \in Seq(Piece) /\ Ahead(ps) /\ BlockBytes(ps) <= BufSz
<1> DEFINE readable == UNION {{[f |-> f, off |-> p.off, len |-> p.len] : p \in todo[f]}
                                : f \in {g \in File : hf[g].open}}
<1>1. PICK k \in 1..Adjacent : ps \in [1..k -> readable]
  BY DEF Reads
<1>2. /\ \A i, j \in DOMAIN ps : ps[i] = ps[j] => i = j
      /\ BlockBytes(ps) <= BufSz
  BY DEF Reads
<1>3. ASSUME NEW p \in readable
      PROVE  /\ p \in Piece /\ [off |-> p.off, len |-> p.len] \in todo[p.f] /\ hf[p.f].open
  <2>1. PICK f \in {g \in File : hf[g].open} :
          p \in {[f |-> f, off |-> q.off, len |-> q.len] : q \in todo[f]}
    OBVIOUS
  <2>2. PICK q \in todo[f] : p = [f |-> f, off |-> q.off, len |-> q.len]
    BY <2>1
  <2>3. todo[f] \subseteq Extent /\ f \in File /\ hf[f].open
    BY DEF EInv, Shapes
  <2>4. q = [off |-> q.off, len |-> q.len] /\ q.off \in Nat /\ q.len \in Nat \ {0}
    BY <2>2, <2>3 DEF Extent
  <2> QED  BY <2>2, <2>3, <2>4 DEF Piece
<1> HIDE DEF readable
<1>4. Adjacent \in Nat /\ k \in Nat /\ k # 0
  BY HashEngineAssumption
<1>5. ps \in [1..k -> Piece]
  BY <1>1, <1>3
<1>6. ps \in Seq(Piece) /\ Len(ps) = k
  <2>1. ps \in Seq(Piece)
    BY <1>4, <1>5, SeqDef
  <2>2. DOMAIN ps = 1..k
    BY <1>5
  <2>3. Len(ps) = k
    BY <1>4, <2>2
  <2> QED  BY <2>1, <2>3
<1>7. ps # <<>>
  BY <1>4, <1>6
<1> QED  BY <1>1, <1>2, <1>3, <1>4, <1>5, <1>6, <1>7 DEF Ahead

(* Pieces that lie ahead are pieces of their files.                        *)
LEMMA AheadIs ==
  ASSUME EInv, NEW ps \in Seq(Piece), Ahead(ps)
  PROVE  /\ Len(ps) \in Nat \ {0} /\ IsPieces(ps)
         /\ \A k \in 1..Len(ps) :
              LET p == ps[k]
                  n == Bytes(Size(p.f), p) IN
              /\ p \in Piece /\ p.f \in File /\ p.off \in Nat /\ p.len \in Nat \ {0}
              /\ [off |-> p.off, len |-> p.len] \in todo[p.f]
              /\ n = Bytes(Size(p.f), [off |-> p.off, len |-> p.len])
              /\ n \in 1..p.len /\ p.off + n <= Size(p.f)
              /\ p.off % Chunk = 0 /\ p.len % Chunk = 0
              /\ Size(p.f) \in Nat
<1>1. Len(ps) \in Nat \ {0}
  BY EmptySeq DEF Ahead
<1>2. ASSUME NEW k \in 1..Len(ps), NEW p, p = ps[k], NEW n, n = Bytes(Size(p.f), p)
      PROVE  /\ p \in Piece /\ p.f \in File /\ p.off \in Nat /\ p.len \in Nat \ {0}
             /\ [off |-> p.off, len |-> p.len] \in todo[p.f]
             /\ n = Bytes(Size(p.f), [off |-> p.off, len |-> p.len])
             /\ n \in 1..p.len /\ p.off + n <= Size(p.f)
             /\ p.off % Chunk = 0 /\ p.len % Chunk = 0
             /\ Size(p.f) \in Nat
  <2>1. p \in Piece
    BY <1>2, ElementOfSeq
  <2>2. p.f \in File /\ p.off \in Nat /\ p.len \in Nat \ {0}
    BY <2>1 DEF Piece
  <2>3. [off |-> p.off, len |-> p.len] \in todo[p.f]
    BY <1>2 DEF Ahead
  <2> DEFINE e == [off |-> p.off, len |-> p.len]
  <2>4. e \in vol[p.f].data /\ e.off = p.off /\ e.len = p.len
    BY <2>2, <2>3 DEF EInv, Shapes
  <2>5. n = Bytes(Size(p.f), e)
    BY <1>2, <2>4 DEF Bytes
  <2> HIDE DEF e
  <2>6. InputOK
    BY DEF EInv, Shapes, InputOK
  <2>7. /\ e.off % Chunk = 0 /\ e.len % Chunk = 0 /\ Size(p.f) \in Nat
        /\ Bytes(Size(p.f), e) \in 1..e.len /\ e.off + Bytes(Size(p.f), e) <= Size(p.f)
    BY <2>2, <2>4, <2>6, FileIs
  <2> QED  BY <2>1, <2>2, <2>3, <2>4, <2>5, <2>7 DEF e
<1>3. IsPieces(ps)
  BY <1>1, <1>2 DEF IsPieces
<1> QED  BY <1>1, <1>2, <1>3

(* A read is long enough for every piece of it.                            *)
LEMMA WantsAre ==
  ASSUME EInv, NEW ps \in Seq(Piece), Ahead(ps), NEW want \in Wants(ps)
  PROVE  /\ want \in Nat /\ BlockBytes(ps) \in Nat /\ want <= BlockBytes(ps)
         /\ \A k \in 1..Len(ps) :
              /\ Starts(ps)[k] \in Nat
              /\ Starts(ps)[k] + Bytes(Size(ps[k].f), ps[k]) <= want
<1> DEFINE s == Starts(ps)
           n == Len(ps)
           B(k) == Bytes(Size(ps[k].f), ps[k])
<1>1. /\ n \in Nat \ {0} /\ IsPieces(ps)
      /\ \A k \in 1..n : ps[k].len \in Nat /\ B(k) \in 1..ps[k].len
  BY AheadIs
<1>2. /\ s[1] = 0 /\ \A k \in 1..n : s[k + 1] = s[k] + ps[k].len
      /\ \A k \in 1..(n + 1) : s[k] \in Nat
      /\ \A k \in 1..(n + 1) : \A j \in 1..k : s[j] <= s[k]
  BY <1>1, StartsIs, StartsOrder
<1>3. BlockBytes(ps) = s[n + 1] /\ want \in {s[n + 1], s[n + 1] - ps[n].len + B(n)}
  BY DEF BlockBytes, Wants
<1> HIDE DEF s, n, B
<1>4. PICK m \in Nat \ {0}, t \in Nat, l \in Nat, b \in Nat :
        b \in 1..l /\ m = n /\ t = s[m] /\ l = ps[m].len /\ b = B(m) /\ s[m + 1] = t + l
  <2>1. PICK m \in Nat \ {0} : m = n
    BY <1>1
  <2>2. m \in 1..n /\ m \in 1..(n + 1)
    BY <2>1
  <2>3. ps[m].len \in Nat /\ B(m) \in 1..ps[m].len /\ s[m] \in Nat /\ s[m + 1] = s[m] + ps[m].len
    BY <1>1, <1>2, <2>2
  <2>4. B(m) \in Nat
    BY <2>3
  <2> QED  BY <2>1, <2>3, <2>4
<1>5. want \in {t + l, t + b} /\ want \in Nat /\ want <= t + l /\ t + b <= want
  <2>1. t + l - l + b = t + b
    OBVIOUS
  <2>2. want \in {s[m + 1], s[m + 1] - ps[m].len + B(m)}
    BY <1>3, <1>4
  <2>3. want \in {t + l, t + l - l + b}
    BY <1>4, <2>2
  <2>4. b \in 1..l
    BY <1>4
  <2> QED  BY <2>1, <2>3, <2>4
<1>6. ASSUME NEW k \in 1..n
      PROVE  s[k] \in Nat /\ s[k] + B(k) <= want
  <2>1. CASE k = m
    BY <1>4, <1>5, <2>1
  <2>2. CASE k # m
    <3>1. k + 1 \in 1..m /\ m \in 1..(n + 1) /\ k \in 1..(n + 1)
      BY <1>1, <1>4, <2>2
    <3>2. s[k + 1] <= t /\ s[k + 1] = s[k] + ps[k].len /\ s[k] \in Nat
      BY <1>2, <1>4, <3>1
    <3>3. B(k) \in 1..ps[k].len /\ ps[k].len \in Nat
      BY <1>1
    <3>4. PICK x \in Nat, y \in Nat, z \in Nat : z \in 1..y /\ x = s[k] /\ y = ps[k].len /\ z = B(k)
      BY <3>2, <3>3
    <3> QED  BY SMTT(60), <1>5, <3>2, <3>4
  <2> QED  BY <2>1, <2>2
<1>7. BlockBytes(ps) = t + l
  BY <1>3, <1>4
<1> QED  BY <1>5, <1>6, <1>7 DEF s, n, B

(* Pieces lie ahead as long as they are not read and their files open.     *)
LEMMA AheadStays ==
  ASSUME UNCHANGED <<threads, vol, todo>>, NEW ps \in Seq(Piece), Ahead(ps),
         \A f \in File : hf[f].open => hf'[f].open
  PROVE  Ahead(ps)' /\ Wants(ps)' = Wants(ps)
<1>1. Wants(ps)' = Wants(ps)
  <2>1. \A f : Size(f)' = Size(f)
    BY SameVolume
  <2> QED  BY <2>1 DEF Wants
<1>2. ASSUME NEW k \in 1..Len(ps)
      PROVE  hf'[ps[k].f].open
  <2>1. ps[k] \in Piece
    BY ElementOfSeq
  <2>2. ps[k].f \in File
    BY <2>1 DEF Piece
  <2> QED  BY <2>2 DEF Ahead
<1> QED  BY <1>1, <1>2 DEF Ahead

(* The read in progress, and where it is put.                              *)
LEMMA PlannedIs ==
  ASSUME EInv, Planned
  PROVE  /\ cur.pieces \in Seq(Piece) /\ Ahead(cur.pieces)
         /\ cur.want \in 0..BufSz /\ cur.want <= BlockBytes(cur.pieces)
         /\ BlockBytes(cur.pieces) \in Nat
<1>1. cur.pieces \in Seq(Piece)
  BY DEF EInv, Shapes
<1>2. Ahead(cur.pieces) /\ BlockBytes(cur.pieces) <= BufSz /\ cur.want \in Wants(cur.pieces)
  BY DEF Planned
<1>3. BufSz \in Nat
  BY HashEngineAssumption
<1> QED  BY <1>1, <1>2, <1>3, WantsAre

(* A step that leaves the counts alone keeps them.                         *)
LEMMA CountStays ==
  ASSUME EInv, pc # "dead", UNCHANGED <<threads, vol, todo>>,
         \A f \in File : hf'[f].got = hf[f].got /\ (hf[f].open => hf'[f].open)
  PROVE  CountInv'
<1> SUFFICES ASSUME NEW f \in File
             PROVE  /\ hf'[f].got + SumBytes(Size(f), todo[f]) = Need(f)
                    /\ ~hf'[f].open => hf'[f].got = 0
  BY SameVolume DEF CountInv
<1> QED  BY CountIs

-----------------------------------------------------------------------------
(* hb_buf: with room for the read, or after a flush that makes it.         *)
LEMMA HbBufHolds ==
  ASSUME EInv, NEW ps \in Reads, NEW want \in Wants(ps), HbBuf(ps, want)
  PROVE  EInv'
<1>1. /\ pc = "method" /\ UNCHANGED <<threads, vol, todo, hf, mem, fill, jobs, done, recs>>
      /\ cur' = [pieces |-> ps, at |-> 0, want |-> want]
      /\ \/ pc' = "hash" /\ unhashed' = DOMAIN jobs
         \/ pc' = "read" /\ unhashed' = unhashed /\ ~(Batch /\ fill + want > MemLen)
  BY DEF HbBuf
<1>2. ps \in Seq(Piece) /\ Ahead(ps) /\ BlockBytes(ps) <= BufSz
  BY ReadsAre
<1>3. want \in Nat /\ BlockBytes(ps) \in Nat /\ want <= BlockBytes(ps)
  BY <1>2, WantsAre
<1>4. InputOK /\ File' = File /\ Piece' = Piece /\ Job' = Job /\ MemLen' = MemLen
  BY <1>1, SameVolume DEF EInv, Shapes, InputOK
<1>5. MemLen \in Nat /\ BufSz <= MemLen /\ BufSz \in Nat
  BY <1>4, RoomIs
<1>6. /\ cur'.pieces = ps /\ cur'.want = want
      /\ cur' \in [pieces : Seq(Piece), at : Nat, want : Nat]
  BY <1>1, <1>2, <1>3
<1>7. Shapes'
  <2>1. pc' \in {"hash", "read"}
    BY <1>1
  <2> QED  BY <1>1, <1>4, <1>6, <2>1 DEF EInv, Shapes
<1>8. FillInv'
  <2>1. pc' # "finish"
    BY <1>1
  <2> QED  BY <1>1, <2>1, SameVolume DEF EInv, FillInv
<1>9. CountInv'
  BY <1>1, CountStays
<1>10. FlushInv'
  <2>1. jobs' = jobs /\ unhashed = {} /\ unhashed \subseteq DOMAIN jobs
    BY <1>1 DEF EInv, FlushInv
  <2>2. CASE pc' = "hash"
    BY <1>1, <2>1, <2>2 DEF FlushInv
  <2>3. CASE pc' = "read"
    BY <1>1, <2>1, <2>3 DEF FlushInv
  <2> QED  BY <1>1, <2>2, <2>3
<1>11. ReadInv'
  <2>1. Planned'
    <3>1. Ahead(ps)' /\ want \in Wants(ps)'
      BY <1>1, <1>2, AheadStays
    <3> QED  BY <1>2, <1>6, <3>1 DEF Planned
  <2>2. pc' = "read" => Base' + cur'.want <= MemLen'
    <3>1. Base' = Base /\ (Batch => Base = fill) /\ (~Batch => Base = 0) /\ fill \in Nat
      BY <1>1, SameVolume, TopIs DEF Base
    <3>2. CASE Batch
      BY <1>1, <1>3, <1>4, <1>5, <1>6, <3>1, <3>2
    <3>3. CASE ~Batch
      BY <1>2, <1>3, <1>4, <1>5, <1>6, <3>1, <3>3
    <3> QED  BY <3>2, <3>3
  <2> QED  BY <1>1, <2>1, <2>2 DEF ReadInv
<1>12. JobInv'
  <2>1. Top' = fill /\ Top = fill /\ fill \in Nat
    <3>1. pc' \notin {"deliver", "used", "dead"} /\ fill' = fill
      BY <1>1
    <3> QED  BY <1>1, <3>1, TopIs DEF Top
  <2> QED  BY <1>1, <2>1, JobsStay
<1> QED  BY <1>7, <1>8, <1>9, <1>10, <1>11, <1>12 DEF EInv

-----------------------------------------------------------------------------
(* Reading.                                                                *)

(* Behind the start of a piece lie its bytes.                              *)
LEMMA OnDiskIs ==
  ASSUME EInv, NEW ps \in Seq(Piece), Ahead(ps), BlockBytes(ps) \in Nat,
         NEW k \in 1..Len(ps), NEW i \in 1..Bytes(Size(ps[k].f), ps[k])
  PROVE  /\ Starts(ps)[k] + i \in 1..BlockBytes(ps)
         /\ OnDisk(ps)[Starts(ps)[k] + i] = Byte(ps[k].f, ps[k].off + i - 1)
<1> DEFINE s == Starts(ps)
           n == Len(ps)
<1>1. /\ n \in Nat \ {0} /\ IsPieces(ps)
      /\ \A j \in 1..n : ps[j].len \in Nat
      /\ ps[k].off \in Nat /\ ps[k].len \in Nat /\ Size(ps[k].f) \in Nat
      /\ Bytes(Size(ps[k].f), ps[k]) \in 1..ps[k].len
      /\ ps[k].off + Bytes(Size(ps[k].f), ps[k]) <= Size(ps[k].f)
  BY AheadIs
<1>2. /\ s[1] = 0 /\ \A j \in 1..n : s[j + 1] = s[j] + ps[j].len
      /\ \A j \in 1..(n + 1) : s[j] \in Nat
      /\ \A j \in 1..(n + 1) : \A m \in 1..j : s[m] <= s[j]
  BY <1>1, StartsIs, StartsOrder
<1>3. BlockBytes(ps) = s[n + 1] /\ DOMAIN ps = 1..n
  BY LenProperties DEF BlockBytes
<1>4. PICK l \in Nat, b \in Nat, o \in Nat :
        /\ l = ps[k].len /\ b = Bytes(Size(ps[k].f), ps[k]) /\ b \in 1..l /\ o = ps[k].off
        /\ o + b <= Size(ps[k].f)
  BY <1>1
<1> HIDE DEF s
<1>5. PICK t \in Nat : t = s[k] /\ s[k + 1] = t + l
  <2>1. k \in 1..(n + 1)
    BY <1>1
  <2> QED  BY <1>2, <1>4, <2>1
<1> HIDE DEF n
<1>6. i \in 1..b /\ i \in Nat
  BY <1>4
<1> DEFINE x == t + i
<1>7. x \in Nat /\ t < x /\ x <= t + l /\ x <= s[n + 1] /\ x >= 1
  <2>1. k + 1 \in 1..(n + 1) /\ n + 1 \in 1..(n + 1)
    BY <1>1 DEF n
  <2>2. s[k + 1] <= s[n + 1] /\ s[n + 1] \in Nat
    BY <1>2, <2>1
  <2>3. PICK e \in Nat : e = s[n + 1] /\ t + l <= e
    BY <1>5, <2>2
  <2> QED  BY SMTT(60), <1>4, <1>6, <2>3
<1> HIDE DEF x
<1>8. x \in 1..BlockBytes(ps)
  BY <1>2, <1>3, <1>7
<1> DEFINE Here(j) == j \in DOMAIN ps /\ s[j] < x /\ x <= s[j + 1]
           c == CHOOSE j \in DOMAIN ps : s[j] < x /\ x <= s[j + 1]
<1>9. Here(k)
  BY <1>3, <1>5, <1>7 DEF n
<1>10. ASSUME NEW j, Here(j)
       PROVE  j = k
  <2>1. j \in 1..n /\ s[j] < x /\ x <= s[j + 1] /\ j \in Nat /\ k \in 1..n /\ k \in Nat
    BY <1>1, <1>3, <1>10 DEF n
  <2>2. j < k => s[j + 1] <= s[k]
    <3>1. j < k => k \in 1..(n + 1) /\ j + 1 \in 1..k
      BY <1>1, <2>1
    <3> QED  BY <1>2, <3>1
  <2>3. k < j => s[k + 1] <= s[j]
    <3>1. k < j => j \in 1..(n + 1) /\ k + 1 \in 1..j
      BY <1>1, <2>1
    <3> QED  BY <1>2, <3>1
  <2>4. s[j] \in Nat /\ s[j + 1] \in Nat
    <3>1. j \in 1..(n + 1) /\ j + 1 \in 1..(n + 1)
      BY <1>1, <2>1
    <3> QED  BY <1>2, <3>1
  <2> QED  BY SMTT(60), <1>5, <1>7, <2>1, <2>2, <2>3, <2>4
<1>11. c = k
  <2>1. Here(c)
    BY <1>9
  <2> HIDE DEF c, Here
  <2> QED  BY <1>10, <2>1
<1> DEFINE at == ps[c].off + x - 1 - s[c]
<1>12. OnDisk(ps)[x] = IF at < Size(ps[c].f) THEN Byte(ps[c].f, at) ELSE Junk
  BY <1>8 DEF OnDisk, s
<1> HIDE DEF c
<1>13. at = o + i - 1
  BY <1>4, <1>5, <1>6, <1>11 DEF x
<1>14. o + i - 1 < Size(ps[c].f)
  BY <1>1, <1>4, <1>6, <1>11
<1>15. OnDisk(ps)[x] = Byte(ps[k].f, o + i - 1)
  <2> HIDE DEF at
  <2> QED  BY <1>11, <1>12, <1>13, <1>14
<1> QED  BY <1>4, <1>5, <1>8, <1>15 DEF x, s

(* The method reads into the room there is, past what waits.               *)
LEMMA ReadHolds ==
  ASSUME EInv, Read
  PROVE  EInv'
<1>0. PICK ps, disk : ps = cur.pieces /\ disk = OnDisk(ps)
  OBVIOUS
<1>1. /\ pc = "read" /\ pc' = "deliver"
      /\ UNCHANGED <<threads, vol, todo, hf, fill, jobs, unhashed, done, recs>>
      /\ mem' = [i \in 1..MemLen |->
                   IF Base < i /\ i <= Base + cur.want THEN disk[i - Base] ELSE mem[i]]
      /\ cur' = [cur EXCEPT !.at = Base]
  BY <1>0 DEF Read, Base
<1>2. Planned /\ Base + cur.want <= MemLen
  BY <1>1 DEF EInv, ReadInv
<1>3. /\ ps \in Seq(Piece) /\ Ahead(ps) /\ cur.want \in Nat /\ BlockBytes(ps) \in Nat
      /\ cur.want <= BlockBytes(ps) /\ cur.want \in Wants(ps)
  BY <1>0, <1>2, PlannedIs DEF Planned
<1>4. InputOK /\ File' = File /\ Piece' = Piece /\ Job' = Job /\ MemLen' = MemLen
  BY <1>1, SameVolume DEF EInv, Shapes, InputOK
<1>5. Base \in Nat /\ Base' = Base /\ MemLen \in Nat /\ fill \in Nat
      /\ (Batch => Base = fill) /\ (~Batch => fill = 0 /\ jobs = <<>>)
  <2>1. fill \in Nat /\ MemLen \in Nat /\ Batch' = Batch
    BY <1>1, <1>4, TopIs, RoomIs, SameVolume
  <2>2. ~Batch => fill = 0 /\ jobs = <<>>
    BY DEF EInv, FillInv
  <2> QED  BY <1>1, <2>1, <2>2 DEF Base
<1>6. cur' \in [pieces : Seq(Piece), at : Nat, want : Nat]
      /\ cur'.pieces = ps /\ cur'.want = cur.want /\ cur'.at = Base
  BY <1>0, <1>1, <1>5 DEF EInv, Shapes
<1>7. Shapes'
  <2>1. DOMAIN mem' = 1..MemLen /\ mem' = [i \in 1..MemLen |-> mem'[i]]
    BY <1>1
  <2> QED  BY <1>1, <1>4, <1>6, <2>1 DEF EInv, Shapes
<1>8. FillInv'
  BY <1>1, SameVolume DEF EInv, FillInv
<1>9. CountInv'
  BY <1>1, CountStays
<1>10. FlushInv'
  BY <1>1 DEF EInv, FlushInv
<1>11. Delivering'
  <2>0. PICK pos : pos = [k \in 1..Len(ps) |-> Base + Starts(ps)[k]]
    OBVIOUS
  <2>1. Ahead(ps)'
    BY <1>1, <1>3, AheadStays
  <2>2. /\ Len(ps) \in Nat \ {0} /\ IsPieces(ps)
        /\ \A k \in 1..Len(ps) :
             ps[k].len \in Nat /\ Bytes(Size(ps[k].f), ps[k]) \in 1..ps[k].len
    BY <1>3, AheadIs
  <2>3. /\ Starts(ps)[1] = 0
        /\ \A k \in 1..Len(ps) : Starts(ps)[k + 1] = Starts(ps)[k] + ps[k].len
    BY <2>2, StartsIs
  <2>4. \A k \in 1..Len(ps) :
          /\ Starts(ps)[k] \in Nat
          /\ Starts(ps)[k] + Bytes(Size(ps[k].f), ps[k]) <= cur.want
    BY <1>3, WantsAre
  <2>5. pos \in [1..Len(ps) -> Nat] /\ pos[1] = cur'.at
    BY <1>5, <1>6, <2>0, <2>2, <2>3, <2>4
  <2>6. ASSUME NEW k \in 1..(Len(ps) - 1)
        PROVE  pos[k + 1] = pos[k] + ps[k].len
    <3>1. k \in 1..Len(ps) /\ k + 1 \in 1..Len(ps)
      BY <2>2
    <3>2. PICK a \in Nat, t \in Nat, l \in Nat :
            a = Base /\ t = Starts(ps)[k] /\ l = ps[k].len /\ Starts(ps)[k + 1] = t + l
      BY ZenonT(60), <1>5, <2>2, <2>3, <2>4, <3>1
    <3>3. pos[k] = a + t /\ pos[k + 1] = a + (t + l)
      BY <2>0, <3>1, <3>2
    <3> QED  BY <3>2, <3>3
  <2>7. ASSUME NEW k \in 1..Len(ps), NEW p, p = ps[k]
        PROVE  Lies(p, pos[k])'
    <3>1. PICK t \in Nat, b \in Nat, w \in Nat, at \in Nat :
            /\ t = Starts(ps)[k] /\ b = Bytes(Size(p.f), p) /\ w = cur.want /\ at = Base
            /\ t + b <= w /\ at + w <= MemLen
      <4>1. Bytes(Size(p.f), p) \in Nat
        BY <2>2, <2>7
      <4> QED  BY <1>2, <1>3, <1>5, <2>4, <2>7, <4>1
    <3>2. pos[k] = at + t
      BY <2>0, <3>1
    <3>3. ASSUME NEW i \in 1..b
          PROVE  mem'[at + t + i] = Byte(p.f, p.off + i - 1)
      <4>1. t + i \in 1..BlockBytes(ps) /\ disk[t + i] = Byte(p.f, p.off + i - 1)
        BY <1>0, <1>3, <2>7, <3>1, OnDiskIs
      <4>2. at + t + i \in 1..MemLen /\ at < at + t + i /\ at + t + i <= at + w
            /\ (at + t + i) - at = t + i
        <5>1. PICK m \in Nat : m = MemLen /\ at + w <= m
          BY <1>5, <3>1
        <5>2. i \in Nat /\ 1 <= i /\ t + i <= w
          BY <3>1
        <5> QED  BY <5>1, <5>2
      <4> QED  BY <1>1, <3>1, <4>1, <4>2
    <3>4. b = Bytes(Size(p.f), p)' /\ (Base + cur.want)' = at + w
      <4>1. Size(p.f)' = Size(p.f)
        BY <1>1, SameVolume
      <4> QED  BY <1>5, <1>6, <3>1, <4>1 DEF Bytes
    <3>5. \A i : Byte(p.f, i)' = Byte(p.f, i)
      BY <1>1, SameVolume
    <3>6. at + t + b <= at + w
      BY <3>1
    <3>7. Lies(p, at + t)'
      BY <3>3, <3>4, <3>5, <3>6 DEF Lies
    <3> QED  BY <3>2, <3>7
  <2> QED  BY <1>6, <2>1, <2>5, <2>6, <2>7 DEF Delivering
<1>12. ReadInv'
  BY <1>1, <1>2, <1>4, <1>5, <1>6, <1>11 DEF ReadInv
<1>13. JobInv'
  <2>1. CASE Batch
    <3>1. Top = fill /\ Top' = fill + cur.want /\ Base = fill
      BY <1>1, <1>5, <1>6, <2>1 DEF Top
    <3>2. \A i \in 1..Top : mem'[i] = mem[i]
      <4>1. fill \in Nat /\ fill <= MemLen
        BY <1>2, <1>3, <1>5, <2>1
      <4>2. ASSUME NEW i \in 1..fill PROVE i \in 1..MemLen /\ ~(Base < i)
        BY <1>5, <2>1, <4>1
      <4> QED  BY <1>1, <3>1, <4>2
    <3>3. Top' \in Nat /\ Top <= Top'
      BY <1>3, <1>5, <3>1
    <3>4. /\ pc # "hash" /\ UNCHANGED <<threads, vol, jobs>>
          /\ \A f \in File : hf[f].open => hf'[f].open /\ hf'[f].runs = hf[f].runs
      BY <1>1
    <3> QED  BY <3>2, <3>3, <3>4, JobsStay
  <2>2. CASE ~Batch
    BY <1>1, <1>5, <2>2 DEF JobInv
  <2> QED  BY <2>1, <2>2
<1> QED  BY <1>7, <1>8, <1>9, <1>10, <1>12, <1>13 DEF EInv

-----------------------------------------------------------------------------
(* hb_used: the arena is used up to the next multiple of its alignment.    *)
LEMMA HbUsedHolds ==
  ASSUME EInv, HbUsed
  PROVE  EInv'
<1>1. /\ pc = "used" /\ pc' = "method" /\ cur' = NoCur
      /\ fill' = IF Batch THEN fill + ((cur.want + Align - 1) \div Align) * Align ELSE fill
      /\ UNCHANGED <<threads, vol, todo, hf, mem, jobs, unhashed, done, recs>>
  BY DEF HbUsed
<1>2. InputOK /\ File' = File /\ Piece' = Piece /\ Job' = Job /\ MemLen' = MemLen
  BY <1>1, SameVolume DEF EInv, Shapes, InputOK
<1>3. /\ fill \in Nat /\ cur.want \in Nat /\ MemLen \in Nat /\ Align \in Nat \ {0}
      /\ fill <= MemLen
  BY <1>2, TopIs, RoomIs DEF EInv, FillInv
<1>4. Units(fill) /\ Units(MemLen)
  BY <1>2, RoomIs DEF EInv, FillInv
<1>5. /\ fill' \in Nat /\ fill' <= MemLen /\ Units(fill')
      /\ Batch => fill + cur.want <= fill'
      /\ ~Batch => fill' = fill
  <2>1. CASE Batch
    <3>1. fill + cur.want <= MemLen
      BY <1>1, <2>1 DEF EInv, ReadInv, Base
    <3>2. PICK s \in Nat, w \in Nat, t \in Nat : s = fill /\ w = cur.want /\ t = MemLen
      BY <1>3
    <3>3. fill' = s + Rounded(w)
      BY <1>1, <2>1, <3>2 DEF Rounded
    <3>4. /\ w <= Rounded(w) /\ Rounded(w) \in Nat
          /\ s + Rounded(w) <= t /\ Units(s + Rounded(w))
      BY <1>4, <3>1, <3>2, RoundUp
    <3> QED  BY <2>1, <3>2, <3>3, <3>4
  <2>2. CASE ~Batch
    BY <1>1, <1>3, <1>4, <2>2
  <2> QED  BY <2>1, <2>2
<1>6. Shapes'
  <2>1. cur' \in [pieces : Seq(Piece), at : Nat, want : Nat]
    BY <1>1 DEF NoCur
  <2> QED  BY <1>1, <1>2, <2>1 DEF EInv, Shapes
<1>7. FillInv'
  <2>1. Batch' = Batch
    BY <1>1, SameVolume
  <2>2. ~Batch => fill = 0 /\ jobs = <<>>
    BY DEF EInv, FillInv
  <2>3. fill' \in 0..MemLen
    BY <1>3, <1>5
  <2> QED  BY <1>1, <1>2, <1>5, <2>1, <2>2, <2>3 DEF FillInv
<1>8. CountInv'
  BY <1>1, CountStays
<1>9. FlushInv'
  BY <1>1 DEF EInv, FlushInv
<1>10. ReadInv'
  <2>1. cur' = NoCur'
    BY <1>1 DEF NoCur
  <2> QED  BY <1>1, <2>1 DEF ReadInv
<1>11. JobInv'
  <2>1. CASE Batch
    <3>1. Top = fill + cur.want /\ Top' = fill'
      BY <1>1 DEF Top
    <3>2. Top' \in Nat /\ Top <= Top'
      BY <1>5, <2>1, <3>1
    <3> QED  BY <1>1, <3>2, JobsStay
  <2>2. CASE ~Batch
    BY <1>1, <2>2 DEF EInv, FillInv, JobInv
  <2> QED  BY <2>1, <2>2
<1> QED  BY <1>6, <1>7, <1>8, <1>9, <1>10, <1>11 DEF EInv

-----------------------------------------------------------------------------
(* A flush.                                                                *)

(* Hashing a run changes its value, not where it lies.                     *)
Hashed(h, i, x) == [h EXCEPT !.runs[i].cv = x]

(* A run that got its node is the run it was.                              *)
LEMMA RunHashed ==
  ASSUME NEW h, IsFile(h), NEW i \in 1..Len(h.runs), NEW x, NEW g, g = Hashed(h, i, x)
  PROVE  /\ IsFile(g) /\ g.open = h.open /\ g.got = h.got
         /\ Len(g.runs) = Len(h.runs)
         /\ \A k \in 1..Len(h.runs) :
              g.runs[k].off = h.runs[k].off /\ g.runs[k].len = h.runs[k].len
<1> DEFINE q == [h.runs[i] EXCEPT !.cv = x]
           rs == [h.runs EXCEPT ![i] = q]
<1>1. /\ Len(h.runs) \in Nat /\ h.runs = [k \in 1..Len(h.runs) |-> h.runs[k]]
      /\ \A k \in 1..Len(h.runs) : IsRun(h.runs[k])
      /\ {"open", "got", "runs", "whole", "done"} \subseteq DOMAIN h
      /\ h.open \in BOOLEAN /\ h.got \in Nat
  BY DEF IsFile
<1>2. IsRun(q) /\ q.off = h.runs[i].off /\ q.len = h.runs[i].len
  BY <1>1 DEF IsRun
<1>3. /\ DOMAIN g = DOMAIN h /\ g.runs = rs /\ g.open = h.open /\ g.got = h.got
  BY <1>1 DEF Hashed
<1> HIDE DEF q
<1>4. /\ rs = [k \in 1..Len(h.runs) |-> rs[k]]
      /\ \A k \in 1..Len(h.runs) : rs[k] = IF k = i THEN q ELSE h.runs[k]
  BY <1>1
<1>5. Len(rs) = Len(h.runs)
  <2>1. DOMAIN rs = 1..Len(h.runs)
    BY <1>4
  <2> HIDE DEF rs
  <2> QED  BY <1>1, <1>4, <2>1
<1> HIDE DEF rs
<1>6. \A k \in 1..Len(h.runs) :
        IsRun(rs[k]) /\ rs[k].off = h.runs[k].off /\ rs[k].len = h.runs[k].len
  BY <1>1, <1>2, <1>4
<1>7. IsFile(g)
  BY <1>1, <1>3, <1>4, <1>5, <1>6 DEF IsFile
<1> QED  BY <1>3, <1>5, <1>6, <1>7

(* What a flush is for stays: the read that waits for it.                  *)
LEMMA ReadStays ==
  ASSUME EInv, pc \in {"hash", "finish"}, pc' \in {"hash", "finish"},
         UNCHANGED <<threads, vol, todo, cur>>,
         \A f \in File : hf[f].open => hf'[f].open
  PROVE  ReadInv'
<1>1. cur = NoCur \/ Planned
  BY DEF EInv, ReadInv
<1>2. ASSUME Planned
      PROVE  Planned'
  <2>1. cur.pieces \in Seq(Piece) /\ Ahead(cur.pieces)
    BY <1>2, PlannedIs
  <2>2. ASSUME NEW ps, ps = cur.pieces
        PROVE  Ahead(ps)' /\ Wants(ps)' = Wants(ps)
    BY <2>1, <2>2, AheadStays
  <2> QED  BY <1>2, <2>2 DEF Planned
<1>3. cur' = NoCur' \/ Planned'
  BY <1>1, <1>2 DEF NoCur
<1> QED  BY <1>3 DEF ReadInv

(* A job hashed changes the value of its run, and nothing else waits less. *)
LEMMA HashJobHolds ==
  ASSUME EInv, NEW i \in unhashed, HashJob(i)
  PROVE  EInv'
<1>1. /\ pc = "hash" /\ pc' = "hash" /\ unhashed' = unhashed \ {i}
      /\ UNCHANGED <<threads, vol, todo, mem, fill, jobs, done, recs, cur>>
  BY DEF HashJob
<1>2. i \in 1..Len(jobs)
  <2>1. jobs \in Seq(Job) /\ i \in DOMAIN jobs
    BY DEF EInv, Shapes, FlushInv
  <2> QED  BY <2>1, LenProperties
<1>3. PICK f, n, x :
        /\ f = jobs[i].f /\ n = jobs[i].i
        /\ hf' = [hf EXCEPT ![f].runs[n].cv = x]
  BY DEF HashJob
<1>4. f \in File /\ IsFile(hf[f]) /\ n \in 1..Len(hf[f].runs)
  BY <1>2, <1>3, JobIs
<1>5. DOMAIN hf = File /\ hf = [g \in File |-> hf[g]] /\ \A g \in File : IsFile(hf[g])
  BY DEF EInv, Shapes
<1>6. /\ DOMAIN hf' = File /\ hf' = [g \in File |-> hf'[g]]
      /\ hf'[f] = [hf[f] EXCEPT !.runs[n].cv = x]
      /\ \A g \in File : g # f => hf'[g] = hf[g]
  BY <1>3, <1>4, <1>5
<1>7. ASSUME NEW g \in File
      PROVE  /\ IsFile(hf'[g]) /\ hf'[g].open = hf[g].open /\ hf'[g].got = hf[g].got
             /\ Len(hf'[g].runs) = Len(hf[g].runs)
             /\ \A k \in 1..Len(hf[g].runs) :
                  /\ hf'[g].runs[k].off = hf[g].runs[k].off
                  /\ hf'[g].runs[k].len = hf[g].runs[k].len
  <2>1. CASE g = f
    <3>1. PICK h, k : h = hf[f] /\ k = hf'[f] /\ k = Hashed(h, n, x)
      BY <1>6 DEF Hashed
    <3>2. IsFile(h) /\ n \in 1..Len(h.runs)
      BY <1>4, <3>1
    <3>3. /\ IsFile(k) /\ k.open = h.open /\ k.got = h.got /\ Len(k.runs) = Len(h.runs)
          /\ \A m \in 1..Len(h.runs) :
               k.runs[m].off = h.runs[m].off /\ k.runs[m].len = h.runs[m].len
      BY <3>1, <3>2, RunHashed
    <3> QED  BY <2>1, <3>1, <3>3
  <2>2. CASE g # f
    BY <1>5, <1>6, <2>2
  <2> QED  BY <2>1, <2>2
<1>8. File' = File /\ Piece' = Piece /\ Job' = Job /\ MemLen' = MemLen /\ Batch' = Batch
  BY <1>1, SameVolume
<1>9. Shapes'
  BY <1>1, <1>6, <1>7, <1>8 DEF EInv, Shapes
<1>10. FillInv'
  BY <1>1, <1>8 DEF EInv, FillInv
<1>11. CountInv'
  BY <1>1, <1>7, CountStays
<1>12. FlushInv'
  BY <1>1 DEF EInv, FlushInv
<1>13. ReadInv'
  BY <1>1, <1>7, ReadStays
<1>14. JobInv'
  <2> SUFFICES ASSUME NEW k \in 1..Len(jobs)
               PROVE  /\ hf'[jobs[k].f].open
                      /\ jobs[k].i \in 1..Len(hf'[jobs[k].f].runs)
                      /\ k \in unhashed' => Waits(jobs[k])'
    BY <1>1 DEF JobInv
  <2>1. PICK j \in Job : j = jobs[k]
    BY JobIs
  <2>2. j.f \in File /\ hf[j.f].open /\ j.i \in 1..Len(hf[j.f].runs)
        /\ IsRun(hf[j.f].runs[j.i])
    BY <2>1, JobIs
  <2>3. hf'[j.f].open /\ j.i \in 1..Len(hf'[j.f].runs)
    BY <1>7, <2>2
  <2>4. ASSUME k \in unhashed'
        PROVE  Waits(j)'
    <3>1. Waits(j)
      BY <1>1, <2>1, <2>4 DEF EInv, JobInv
    <3>2. /\ Top' \in Nat /\ Top \in Nat /\ Top <= Top'
          /\ \A m \in 1..Top : mem'[m] = mem[m]
      BY <1>1, TopIs DEF Top
    <3>3. /\ hf'[j.f].runs[j.i].off = hf[j.f].runs[j.i].off
          /\ hf'[j.f].runs[j.i].len = hf[j.f].runs[j.i].len
      BY <1>7, <2>2
    <3> QED  BY <1>1, <2>2, <3>1, <3>2, <3>3, WaitsStays
  <2> QED  BY <1>1, <2>1, <2>3, <2>4
<1> QED  BY <1>9, <1>10, <1>11, <1>12, <1>13, <1>14 DEF EInv

(* All jobs are hashed: there is none left, and the arena is empty.        *)
LEMMA PoolReturnsHolds ==
  ASSUME EInv, PoolReturns
  PROVE  EInv'
<1>1. /\ pc = "hash" /\ pc' = "finish" /\ unhashed = {} /\ jobs' = <<>> /\ fill' = 0
      /\ UNCHANGED <<threads, vol, todo, hf, mem, unhashed, done, recs, cur>>
  BY DEF PoolReturns
<1>2. File' = File /\ Piece' = Piece /\ Job' = Job /\ MemLen' = MemLen /\ Batch' = Batch
      /\ InputOK
  BY <1>1, SameVolume DEF EInv, Shapes, InputOK
<1>3. Shapes'
  BY <1>1, <1>2 DEF EInv, Shapes
<1>4. FillInv'
  <2>1. MemLen \in Nat /\ Align \in Nat \ {0}
    BY <1>2, RoomIs
  <2>2. 0 \in 0..MemLen /\ Units(0)
    BY <2>1 DEF Units
  <2> QED  BY <1>1, <1>2, <2>2 DEF FillInv
<1>5. CountInv'
  BY <1>1, CountStays
<1>6. FlushInv'
  BY <1>1 DEF FlushInv
<1>7. ReadInv'
  BY <1>1, ReadStays
<1>8. JobInv'
  BY <1>1 DEF JobInv
<1> QED  BY <1>3, <1>4, <1>5, <1>6, <1>7, <1>8 DEF EInv

(* A file that waited for the flush is finished.                           *)
LEMMA FinishDoneHolds ==
  ASSUME EInv, FinishDone
  PROVE  EInv'
<1>1. /\ pc = "finish" /\ done # <<>> /\ done' = Tail(done)
      /\ UNCHANGED <<threads, vol, todo, mem, fill, jobs, unhashed, cur>>
      /\ Finish(Head(done), hf[Head(done)], "finish")
  BY DEF FinishDone
<1>2. done \in Seq(File) /\ DOMAIN hf = File /\ hf = [g \in File |-> hf[g]]
      /\ \A g \in File : IsFile(hf[g])
  BY DEF EInv, Shapes
<1>3. Head(done) \in File /\ Tail(done) \in Seq(File)
  BY <1>1, <1>2, HeadTailProperties
<1>4. PICK f \in File : f = Head(done)
  BY <1>3
<1>h. PICK h : h = hf[f]
  OBVIOUS
<1>5. \/ pc' = "dead" /\ hf' = hf
      \/ pc' = "finish" /\ hf' = [hf EXCEPT ![f] = Finished(h)]
  BY <1>1, <1>4, <1>h, FinishIs
<1>6. IsFile(Finished(h)) /\ Finished(h).open = h.open /\ Finished(h).got = h.got
  BY <1>2, <1>4, <1>h, FilesMade
<1>7. /\ DOMAIN hf' = File /\ hf' = [g \in File |-> hf'[g]]
      /\ \A g \in File :
           IsFile(hf'[g]) /\ hf'[g].open = hf[g].open /\ hf'[g].got = hf[g].got
  BY <1>2, <1>4, <1>h, <1>5, <1>6
<1>8. File' = File /\ Piece' = Piece /\ Job' = Job /\ MemLen' = MemLen /\ Batch' = Batch
  BY <1>1, SameVolume
<1>9. jobs = <<>> /\ pc' \in {"dead", "finish"}
  BY <1>1, <1>5 DEF EInv, FlushInv
<1>10. Shapes'
  BY <1>1, <1>3, <1>7, <1>8, <1>9 DEF EInv, Shapes
<1>11. FillInv'
  BY <1>1, <1>8 DEF EInv, FillInv
<1>12. CountInv'
  BY <1>1, <1>7, CountStays
<1>13. FlushInv'
  BY <1>1, <1>9 DEF EInv, FlushInv
<1>14. ReadInv'
  <2>1. CASE pc' = "finish"
    BY <1>1, <1>7, <2>1, ReadStays
  <2>2. CASE pc' = "dead"
    BY <2>2 DEF ReadInv
  <2> QED  BY <1>9, <2>1, <2>2
<1>15. JobInv'
  BY <1>1, <1>9 DEF JobInv
<1> QED  BY <1>10, <1>11, <1>12, <1>13, <1>14, <1>15 DEF EInv

(* The read that needed the room has it: an arena holds any read.          *)
LEMMA FlushReturnsHolds ==
  ASSUME EInv, FlushReturns
  PROVE  EInv'
<1>1. /\ pc = "finish" /\ pc' = IF cur = NoCur THEN "check" ELSE "read"
      /\ UNCHANGED <<threads, vol, todo, hf, mem, fill, jobs, unhashed, done, recs, cur>>
  BY DEF FlushReturns
<1>2. File' = File /\ Piece' = Piece /\ Job' = Job /\ MemLen' = MemLen /\ Batch' = Batch
      /\ InputOK
  BY <1>1, SameVolume DEF EInv, Shapes, InputOK
<1>3. jobs = <<>> /\ fill = 0 /\ pc' \in {"check", "read"}
  BY <1>1 DEF EInv, FlushInv, FillInv
<1>4. Shapes'
  BY <1>1, <1>2, <1>3 DEF EInv, Shapes
<1>5. FillInv'
  BY <1>1, <1>2, <1>3 DEF EInv, FillInv
<1>6. CountInv'
  BY <1>1, CountStays
<1>7. FlushInv'
  BY <1>1, <1>3 DEF EInv, FlushInv
<1>8. ReadInv'
  <2>1. CASE cur = NoCur
    <3>1. cur' = NoCur' /\ pc' = "check"
      BY <1>1, <2>1 DEF NoCur
    <3> QED  BY <3>1 DEF ReadInv
  <2>2. CASE cur # NoCur
    <3>1. Planned /\ pc' = "read"
      BY <1>1, <2>2 DEF EInv, ReadInv
    <3>2. cur.pieces \in Seq(Piece) /\ Ahead(cur.pieces) /\ cur.want \in 0..BufSz
      BY <3>1, PlannedIs
    <3>3. ASSUME NEW ps, ps = cur.pieces
          PROVE  Ahead(ps)' /\ Wants(ps)' = Wants(ps)
      BY <1>1, <3>2, <3>3, AheadStays
    <3>4. Planned'
      BY <1>1, <3>1, <3>3 DEF Planned
    <3>5. Base' = 0
      BY <1>1, <1>3 DEF Base
    <3>6. 0 + cur.want <= MemLen
      BY <1>2, <3>2, RoomIs
    <3> QED  BY <1>1, <1>2, <3>1, <3>4, <3>5, <3>6 DEF ReadInv
  <2> QED  BY <2>1, <2>2
<1>9. JobInv'
  BY <1>1, <1>3 DEF JobInv
<1> QED  BY <1>4, <1>5, <1>6, <1>7, <1>8, <1>9 DEF EInv

(* The last flush has all the jobs there are.                              *)
LEMMA LastFlushHolds ==
  ASSUME EInv, LastFlush
  PROVE  EInv'
<1>1. /\ pc = "method" /\ pc' = "hash" /\ unhashed' = DOMAIN jobs
      /\ UNCHANGED <<threads, vol, todo, hf, mem, fill, jobs, done, recs, cur>>
  BY DEF LastFlush
<1>2. File' = File /\ Piece' = Piece /\ Job' = Job /\ MemLen' = MemLen /\ Batch' = Batch
  BY <1>1, SameVolume
<1>3. cur = NoCur
  BY <1>1 DEF EInv, ReadInv
<1>4. Shapes'
  BY <1>1, <1>2 DEF EInv, Shapes
<1>5. FillInv'
  BY <1>1, <1>2 DEF EInv, FillInv
<1>6. CountInv'
  BY <1>1, CountStays
<1>7. FlushInv'
  BY <1>1 DEF FlushInv
<1>8. ReadInv'
  <2>1. cur' = NoCur'
    BY <1>1, <1>3 DEF NoCur
  <2> QED  BY <1>1, <2>1 DEF ReadInv
<1>9. JobInv'
  <2>1. Top' = Top /\ Top \in Nat
    BY <1>1, TopIs DEF Top
  <2> QED  BY <1>1, <2>1, JobsStay
<1> QED  BY <1>4, <1>5, <1>6, <1>7, <1>8, <1>9 DEF EInv

(* check_complete changes nothing.                                         *)
LEMMA CheckCompleteHolds ==
  ASSUME EInv, CheckComplete
  PROVE  EInv'
<1>1. /\ pc = "check" /\ pc' \in {"complete", "dead"}
      /\ UNCHANGED <<threads, vol, todo, hf, mem, fill, jobs, unhashed, done, recs, cur>>
  BY DEF CheckComplete
<1>2. File' = File /\ Piece' = Piece /\ Job' = Job /\ MemLen' = MemLen /\ Batch' = Batch
  BY <1>1, SameVolume
<1>3. cur = NoCur /\ jobs = <<>> /\ cur' = NoCur'
  BY <1>1 DEF EInv, ReadInv, FlushInv, NoCur
<1>4. Shapes'
  BY <1>1, <1>2 DEF EInv, Shapes
<1>5. FillInv'
  BY <1>1, <1>2 DEF EInv, FillInv
<1>6. CountInv'
  BY <1>1, CountStays
<1>7. FlushInv' /\ ReadInv' /\ JobInv'
  BY <1>1, <1>3 DEF EInv, FlushInv, ReadInv, JobInv
<1> QED  BY <1>4, <1>5, <1>6, <1>7 DEF EInv

-----------------------------------------------------------------------------
(* deliver().                                                              *)

(* A function on 1..n is a sequence of its values.                         *)
LEMMA SeqOfValues ==
  ASSUME NEW s, Len(s) \in Nat, s = [k \in 1..Len(s) |-> s[k]],
         NEW S, \A k \in 1..Len(s) : s[k] \in S
  PROVE  s \in Seq(S)
<1>1. s \in [1..Len(s) -> S]
  OBVIOUS
<1> QED  BY <1>1, SeqDef

(* A file whose state is h gets n bytes more, in the runs of `add'.        *)
Added(h, n, whole, add) ==
  [h EXCEPT !.got = @ + n, !.whole = whole, !.runs = @ \o add]

(* A file that got runs keeps those it had.                                *)
LEMMA RunsAdded ==
  ASSUME NEW h, IsFile(h), NEW n \in Nat, NEW whole,
         NEW add, Len(add) \in Nat, add = [k \in 1..Len(add) |-> add[k]],
         \A k \in 1..Len(add) : IsRun(add[k]),
         NEW g, g = Added(h, n, whole, add)
  PROVE  /\ IsFile(g) /\ g.open = h.open /\ g.got = h.got + n
         /\ Len(g.runs) = Len(h.runs) + Len(add)
         /\ \A k \in 1..Len(h.runs) : g.runs[k] = h.runs[k]
         /\ \A k \in 1..Len(add) : g.runs[Len(h.runs) + k] = add[k]
<1> DEFINE rs == h.runs
           S == {rs[k] : k \in 1..Len(rs)} \cup {add[k] : k \in 1..Len(add)}
           t == rs \o add
<1>1. /\ Len(rs) \in Nat /\ rs = [k \in 1..Len(rs) |-> rs[k]]
      /\ \A k \in 1..Len(rs) : IsRun(rs[k])
      /\ {"open", "got", "runs", "whole", "done"} \subseteq DOMAIN h
      /\ h.open \in BOOLEAN /\ h.got \in Nat
  BY DEF IsFile
<1>2. /\ DOMAIN g = DOMAIN h /\ g.runs = t /\ g.open = h.open /\ g.got = h.got + n
  BY <1>1 DEF Added
<1> HIDE DEF rs
<1>3. rs \in Seq(S) /\ add \in Seq(S)
  <2>1. (\A k \in 1..Len(rs) : rs[k] \in S) /\ (\A k \in 1..Len(add) : add[k] \in S)
    OBVIOUS
  <2> HIDE DEF S
  <2> QED  BY <1>1, <2>1, SeqOfValues
<1> HIDE DEF S
<1>4. /\ t \in Seq(S) /\ Len(t) = Len(rs) + Len(add)
      /\ \A i \in 1..(Len(rs) + Len(add)) :
           t[i] = IF i <= Len(rs) THEN rs[i] ELSE add[i - Len(rs)]
  BY <1>3, ConcatProperties
<1> HIDE DEF t
<1>5. t = [k \in 1..Len(t) |-> t[k]] /\ Len(t) \in Nat
  BY <1>4, LenProperties
<1>6. \A k \in 1..Len(rs) : t[k] = rs[k]
  BY <1>1, <1>4
<1>7. ASSUME NEW k \in 1..Len(add)
      PROVE  t[Len(rs) + k] = add[k]
  <2>1. PICK l \in Nat, m \in Nat : l = Len(rs) /\ m = Len(add)
    BY <1>1
  <2>2. l + k \in 1..(l + m) /\ ~(l + k <= l) /\ (l + k) - l = k
    BY <2>1
  <2> QED  BY <1>4, <2>1, <2>2
<1>8. ASSUME NEW k \in 1..Len(t)
      PROVE  IsRun(t[k])
  <2>1. PICK l \in Nat, m \in Nat : l = Len(rs) /\ m = Len(add)
    BY <1>1
  <2>2. CASE k <= l
    <3>1. k \in 1..l
      BY <2>1, <2>2, <1>4
    <3> QED  BY <1>1, <1>6, <2>1, <3>1
  <2>3. CASE ~(k <= l)
    <3>1. k - l \in 1..m /\ k = l + (k - l) /\ k \in 1..(l + m)
      BY <1>4, <2>1, <2>3
    <3>2. t[k] = add[k - l]
      BY <1>4, <2>1, <2>3, <3>1
    <3> QED  BY <2>1, <3>1, <3>2
  <2> QED  BY <2>2, <2>3
<1>9. IsFile(g)
  BY <1>1, <1>2, <1>5, <1>8 DEF IsFile
<1> QED  BY <1>2, <1>4, <1>6, <1>7, <1>9 DEF rs

(* The runs of a piece are runs within it.                                 *)
Within(cut, a, b) ==
  /\ cut \in Seq(Run)
  /\ \A k \in 1..Len(cut) : a <= cut[k].off /\ cut[k].off + cut[k].len <= b

(* The runs of an interval lie in it.                                      *)
LEMMA CutWithin ==
  ASSUME NEW a \in Nat, NEW b \in Nat, a < b
  PROVE  Within(Cut(a, b), a, b) /\ Within(<<[off |-> a, len |-> b - a]>>, a, b)
<1>1. Within(Cut(a, b), a, b)
  <2>1. Cuts(Cut(a, b), a, b)
    BY CutIs
  <2> QED  BY <2>1 DEF Cuts, Within
<1>2. Within(<<[off |-> a, len |-> b - a]>>, a, b)
  <2> DEFINE r == [off |-> a, len |-> b - a]
  <2>1. r \in Run /\ r.off = a /\ r.off + r.len = b
    BY DEF Run
  <2> HIDE DEF r
  <2>2. <<r>> \in Seq(Run) /\ Len(<<r>>) = 1 /\ <<r>>[1] = r
    BY <2>1
  <2>3. \A k \in 1..Len(<<r>>) : a <= <<r>>[k].off /\ <<r>>[k].off + <<r>>[k].len <= b
    BY <2>1, <2>2
  <2>4. Within(<<r>>, a, b)
    BY <2>2, <2>3 DEF Within
  <2> QED  BY <2>4 DEF r
<1> QED  BY <1>1, <1>2

(* What deliver() does with a piece it takes: `row' are the runs it is cut *)
(* into, `add' those runs with their values.                               *)
Taken(p, f, n, row, add, whole) ==
  /\ row = IF whole THEN <<[off |-> 0, len |-> n]>> ELSE Cut(p.off, p.off + n)
  /\ whole => p.off = 0
  /\ DOMAIN add = DOMAIN row /\ add = [k \in DOMAIN row |-> add[k]]
  /\ \A k \in DOMAIN row : {"off", "len", "cv"} \subseteq DOMAIN add[k]
                          /\ add[k].off = row[k].off /\ add[k].len = row[k].len
  /\ todo' = [todo EXCEPT ![f] = @ \ {[off |-> p.off, len |-> p.len]}]
  /\ jobs' = IF Batch
             THEN jobs \o [k \in DOMAIN row |->
                             [at |-> cur.at + row[k].off - p.off, f |-> f,
                              i |-> Len(hf[f].runs) + k]]
             ELSE jobs
  /\ cur' = [cur EXCEPT !.pieces = Tail(@), !.at = @ + p.len]
  /\ done' \in {done, Append(done, f)}
  /\ LET h == Added(hf[f], n, whole, add)
         next == IF Len(cur.pieces) = 1 THEN "used" ELSE "deliver" IN
       \/ hf' = [hf EXCEPT ![f] = h] /\ pc' = next
       \/ ~Batch /\ hf' = hf /\ pc' = "dead"
       \/ ~Batch /\ hf' = [hf EXCEPT ![f] = Finished(h)] /\ pc' = next

(* deliver() dies, or takes the piece.                                     *)
LEMMA DeliverIs ==
  ASSUME Deliver
  PROVE  LET p == Head(cur.pieces)
             f == p.f
             n == Bytes(Size(f), p)
         IN /\ pc = "deliver" /\ UNCHANGED <<threads, vol, mem, fill, unhashed>>
            /\ \/ pc' = "dead" /\ UNCHANGED <<todo, hf, jobs, done, recs, cur>>
               \/ \E row, add, whole : Taken(p, f, n, row, add, whole)
<1> DEFINE p == Head(cur.pieces)
           f == p.f
           n == Bytes(Size(f), p)
           whole == p.off = 0 /\ n = Size(f)
           row == IF whole THEN <<[off |-> 0, len |-> n]>> ELSE Cut(p.off, p.off + n)
           Place(r) == cur.at + r.off - p.off
           CV(r) == IF Batch THEN Pending
                    ELSE HashRun(whole, Slice(mem, Place(r), r.len), r.off)
           add == [k \in DOMAIN row |->
                     [off |-> row[k].off, len |-> row[k].len, cv |-> CV(row[k])]]
           h == [hf[f] EXCEPT !.got = @ + n, !.whole = whole, !.runs = @ \o add]
           new == [k \in DOMAIN row |->
                     [at |-> Place(row[k]), f |-> f, i |-> Len(hf[f].runs) + k]]
           next == IF Len(cur.pieces) = 1 THEN "used" ELSE "deliver"
<1>1. /\ pc = "deliver" /\ UNCHANGED <<threads, vol, mem, fill, unhashed>>
      /\ IF BadDelivery(f, p.off, n)
         THEN pc' = "dead" /\ UNCHANGED <<todo, hf, jobs, done, recs, cur>>
         ELSE /\ todo' = [todo EXCEPT ![f] = @ \ {[off |-> p.off, len |-> p.len]}]
              /\ jobs' = IF Batch THEN jobs \o new ELSE jobs
              /\ cur' = [cur EXCEPT !.pieces = Tail(@), !.at = @ + p.len]
              /\ IF h.got = Need(f)
                 THEN Complete(f, h, next)
                 ELSE /\ hf' = [hf EXCEPT ![f] = h]
                      /\ pc' = next
                      /\ UNCHANGED <<done, recs>>
  BY Zenon DEF Deliver
<1>2. h = Added(hf[f], n, whole, add)
  BY DEF Added
<1>3. /\ DOMAIN add = DOMAIN row /\ add = [k \in DOMAIN row |-> add[k]]
      /\ \A k \in DOMAIN row : {"off", "len", "cv"} \subseteq DOMAIN add[k]
                              /\ add[k].off = row[k].off /\ add[k].len = row[k].len
  <2> HIDE DEF row, CV
  <2> QED  OBVIOUS
<1>4. new = [k \in DOMAIN row |->
               [at |-> cur.at + row[k].off - p.off, f |-> f, i |-> Len(hf[f].runs) + k]]
  OBVIOUS
<1>5. (whole => p.off = 0)
      /\ row = IF whole THEN <<[off |-> 0, len |-> n]>> ELSE Cut(p.off, p.off + n)
  OBVIOUS
<1> HIDE DEF whole, row, add, h, new
<1>6. ASSUME ~BadDelivery(f, p.off, n)
      PROVE  Taken(p, f, n, row, add, whole)
  <2>1. /\ done' \in {done, Append(done, f)}
        /\ \/ hf' = [hf EXCEPT ![f] = h] /\ pc' = next
           \/ ~Batch /\ hf' = hf /\ pc' = "dead"
           \/ ~Batch /\ hf' = [hf EXCEPT ![f] = Finished(h)] /\ pc' = next
    <3>1. CASE h.got = Need(f)
      <4>1. Complete(f, h, next)
        BY <1>1, <1>6, <3>1
      <4>2. CASE Batch
        BY <4>1, <4>2 DEF Complete
      <4>3. CASE ~Batch
        <5>1. Finish(f, h, next) /\ done' = done
          BY <4>1, <4>3 DEF Complete
        <5> QED  BY <4>3, <5>1, FinishIs
      <4> QED  BY <4>2, <4>3
    <3>2. CASE h.got # Need(f)
      BY <1>1, <1>6, <3>2
    <3> QED  BY <3>1, <3>2
  <2> HIDE DEF next
  <2> QED  BY <1>1, <1>2, <1>3, <1>4, <1>5, <1>6, <2>1 DEF Taken, next
<1> QED  BY <1>1, <1>6

(* A piece taken is hashed at once or waits where it lies; the pieces      *)
(* behind it are the next.                                                 *)
LEMMA DeliverHolds ==
  ASSUME EInv, Deliver
  PROVE  EInv'
<1>1. PICK ps, p, f, n :
        ps = cur.pieces /\ p = Head(ps) /\ f = p.f /\ n = Bytes(Size(f), p)
  OBVIOUS
<1>2. /\ pc = "deliver" /\ UNCHANGED <<threads, vol, mem, fill, unhashed>>
      /\ \/ pc' = "dead" /\ UNCHANGED <<todo, hf, jobs, done, recs, cur>>
         \/ \E row, add, whole : Taken(p, f, n, row, add, whole)
  BY <1>1, DeliverIs
<1>3. /\ File' = File /\ Piece' = Piece /\ Job' = Job /\ MemLen' = MemLen /\ Batch' = Batch
      /\ InputOK /\ \A g : Size(g)' = Size(g) /\ Need(g)' = Need(g)
      /\ \A g, i : Byte(g, i)' = Byte(g, i)
  BY <1>2, SameVolume DEF EInv, Shapes, InputOK
<1>4. CASE pc' = "dead" /\ UNCHANGED <<todo, hf, jobs, done, recs, cur>>
  <2>1. Shapes'
    BY <1>2, <1>3, <1>4 DEF EInv, Shapes
  <2>2. FillInv'
    BY <1>2, <1>3, <1>4 DEF EInv, FillInv
  <2>3. CountInv' /\ ReadInv'
    BY <1>4 DEF CountInv, ReadInv
  <2>4. FlushInv'
    BY <1>2, <1>4 DEF EInv, FlushInv
  <2>5. JobInv'
    <3>1. Top' \in Nat /\ Top <= Top'
      BY <1>2, <1>4, TopIs DEF Top
    <3>2. \A g \in File : hf[g].open => hf'[g].open /\ hf'[g].runs = hf[g].runs
      BY <1>4
    <3> QED  BY <1>2, <1>4, <3>1, <3>2, JobsStay
  <2> QED  BY <2>1, <2>2, <2>3, <2>4, <2>5 DEF EInv
<1>5. ASSUME NEW row, NEW add, NEW whole, Taken(p, f, n, row, add, whole)
      PROVE  EInv'
  <2>1. PICK pos \in [1..Len(ps) -> Nat] :
          /\ pos[1] = cur.at
          /\ \A k \in 1..(Len(ps) - 1) : pos[k + 1] = pos[k] + ps[k].len
          /\ \A k \in 1..Len(ps) : Lies(ps[k], pos[k])
    BY <1>1, <1>2 DEF EInv, ReadInv, Delivering
  <2>2. ps \in Seq(Piece) /\ Ahead(ps) /\ ps # <<>>
    BY <1>1, <1>2 DEF EInv, ReadInv, Delivering, Shapes, Ahead
  <2>3. Len(ps) \in Nat \ {0} /\ p = ps[1]
    BY <1>1, <2>2, EmptySeq
  <2>4. PICK e : e = [off |-> p.off, len |-> p.len]
    OBVIOUS
  <2>5. /\ p \in Piece /\ f \in File /\ p.off \in Nat /\ p.len \in Nat \ {0}
        /\ e \in todo[f] /\ n = Bytes(Size(f), e)
        /\ n \in 1..p.len /\ p.off + n <= Size(f) /\ Size(f) \in Nat
        /\ hf[f].open
    <3>1. 1 \in 1..Len(ps)
      BY <2>3
    <3>2. hf[ps[1].f].open
      BY <2>2, <3>1 DEF Ahead
    <3> QED  BY ZenonT(60), <1>1, <2>2, <2>3, <2>4, <3>1, <3>2, AheadIs
  <2>6. cur.at \in Nat /\ cur.want \in Nat /\ Base \in Nat /\ fill \in Nat
        /\ Base' = Base /\ (Batch => Base = fill)
    <3>1. cur.at \in Nat
      BY DEF EInv, Shapes
    <3> QED  BY <1>2, <1>3, <3>1, TopIs DEF Base
  <2>7. cur.at + n <= Base + cur.want
        /\ \A i \in 1..n : mem[cur.at + i] = Byte(f, p.off + i - 1)
    <3>1. Lies(ps[1], pos[1])
      BY <2>1, <2>3
    <3> QED  BY <1>1, <2>1, <2>3, <3>1 DEF Lies
  <2>8. /\ todo' = [todo EXCEPT ![f] = @ \ {e}]
        /\ cur' = [cur EXCEPT !.pieces = Tail(@), !.at = @ + p.len]
        /\ done' \in {done, Append(done, f)}
    BY <2>4, <1>5 DEF Taken
  <2>9. /\ todo \in [File -> SUBSET Extent] /\ \A g \in File : todo[g] \subseteq vol[g].data
        /\ DOMAIN hf = File /\ hf = [g \in File |-> hf[g]] /\ \A g \in File : IsFile(hf[g])
        /\ jobs \in Seq(Job) /\ done \in Seq(File)
        /\ cur \in [pieces : Seq(Piece), at : Nat, want : Nat]
    BY DEF EInv, Shapes
  <2>10. /\ cur' \in [pieces : Seq(Piece), at : Nat, want : Nat]
         /\ cur'.pieces = Tail(ps) /\ cur'.at = cur.at + p.len /\ cur'.want = cur.want
    <3>1. Tail(ps) \in Seq(Piece) /\ cur.at + p.len \in Nat
      BY <2>2, <2>5, <2>6, HeadTailProperties
    <3> QED  BY <1>1, <2>8, <2>9, <3>1
  (* the runs of the piece *)
  <2>11. Within(row, p.off, p.off + n)
    <3>1. PICK a \in Nat, b \in Nat : a = p.off /\ b = p.off + n /\ a < b /\ b - a = n
      BY <2>5
    <3>2. row = Cut(a, b) \/ row = <<[off |-> a, len |-> b - a]>>
      BY <1>5, <3>1 DEF Taken
    <3> QED  BY <3>1, <3>2, CutWithin
  <2>12. /\ row \in Seq(Run) /\ Len(row) \in Nat /\ DOMAIN row = 1..Len(row)
         /\ \A k \in 1..Len(row) :
              /\ row[k].off \in Nat /\ row[k].len \in Nat \ {0}
              /\ p.off <= row[k].off /\ row[k].off + row[k].len <= p.off + n
    <3>1. row \in Seq(Run) /\ \A k \in 1..Len(row) : row[k] \in Run
      BY <2>11, ElementOfSeq DEF Within
    <3>2. Len(row) \in Nat /\ DOMAIN row = 1..Len(row)
      BY <3>1, LenProperties
    <3> QED  BY <2>11, <3>1, <3>2 DEF Within, Run
  <2>13. /\ Len(add) = Len(row) /\ add = [k \in 1..Len(add) |-> add[k]]
         /\ \A k \in 1..Len(row) :
              IsRun(add[k]) /\ add[k].off = row[k].off /\ add[k].len = row[k].len
    <3>1. /\ DOMAIN add = 1..Len(row) /\ add = [k \in 1..Len(row) |-> add[k]]
          /\ \A k \in 1..Len(row) :
               /\ {"off", "len", "cv"} \subseteq DOMAIN add[k]
               /\ add[k].off = row[k].off /\ add[k].len = row[k].len
      BY <1>5, <2>12 DEF Taken
    <3>2. Len(add) = Len(row)
      BY <2>12, <3>1
    <3> QED  BY <2>12, <3>1, <3>2 DEF IsRun
  (* the file *)
  <2>14. PICK h, h0 : h0 = hf[f] /\ h = Added(h0, n, whole, add)
    OBVIOUS
  <2>15. /\ IsFile(h0) /\ IsFile(h) /\ h.open = h0.open /\ h.got = h0.got + n
         /\ Len(h0.runs) \in Nat
         /\ Len(h.runs) = Len(h0.runs) + Len(add)
         /\ \A k \in 1..Len(h0.runs) : h.runs[k] = h0.runs[k]
         /\ \A k \in 1..Len(add) : h.runs[Len(h0.runs) + k] = add[k]
    <3>1. IsFile(h0) /\ n \in Nat /\ Len(add) \in Nat
      BY <2>5, <2>9, <2>12, <2>13, <2>14
    <3>2. \A k \in 1..Len(add) : IsRun(add[k])
      BY <2>13
    <3>3. Len(h0.runs) \in Nat
      BY <3>1 DEF IsFile
    <3>4. PICK a : a = add
      OBVIOUS
    <3>5. Len(a) \in Nat /\ a = [k \in 1..Len(a) |-> a[k]] /\ h = Added(h0, n, whole, a)
          /\ \A k \in 1..Len(a) : IsRun(a[k])
      BY <2>13, <2>14, <3>1, <3>2, <3>4
    <3>6. /\ IsFile(h) /\ h.open = h0.open /\ h.got = h0.got + n
          /\ Len(h.runs) = Len(h0.runs) + Len(a)
          /\ \A k \in 1..Len(h0.runs) : h.runs[k] = h0.runs[k]
          /\ \A k \in 1..Len(a) : h.runs[Len(h0.runs) + k] = a[k]
      BY <3>1, <3>5, RunsAdded
    <3> QED  BY <3>1, <3>3, <3>4, <3>6
  <2>16. /\ IsFile(Finished(h)) /\ Finished(h).open = h.open /\ Finished(h).got = h.got
    BY <2>15, FilesMade
  <2>17. \/ hf' = [hf EXCEPT ![f] = h] /\ pc' \in {"used", "deliver"}
         \/ ~Batch /\ hf' = hf /\ pc' = "dead"
         \/ ~Batch /\ hf' = [hf EXCEPT ![f] = Finished(h)] /\ pc' \in {"used", "deliver"}
    BY <1>5, <2>14 DEF Taken
  <2>18. /\ DOMAIN hf' = File /\ hf' = [g \in File |-> hf'[g]]
         /\ \A g \in File : IsFile(hf'[g]) /\ (g # f => hf'[g] = hf[g])
         /\ \A g \in File : hf[g].open => hf'[g].open
         /\ pc' # "dead" => hf'[f].got = hf[f].got + n
         /\ Batch => hf'[f] = h
    <3>1. h.open /\ Finished(h).open
      BY <2>5, <2>14, <2>15, <2>16
    <3>2. CASE hf' = [hf EXCEPT ![f] = h] /\ pc' \in {"used", "deliver"}
      BY <2>5, <2>9, <2>14, <2>15, <3>1, <3>2
    <3>3. CASE ~Batch /\ hf' = hf /\ pc' = "dead"
      BY <2>9, <3>3
    <3>4. CASE ~Batch /\ hf' = [hf EXCEPT ![f] = Finished(h)] /\ pc' \in {"used", "deliver"}
      BY <2>5, <2>9, <2>14, <2>15, <2>16, <3>1, <3>4
    <3> QED  BY <2>17, <3>2, <3>3, <3>4
  <2>19. pc' \in {"used", "deliver", "dead"} /\ (pc' = "deliver" => Len(ps) # 1)
    <3>1. pc' = "deliver" => Len(ps) # 1
      BY <1>1, <1>5 DEF Taken
    <3> QED  BY <2>17, <3>1
  (* the jobs *)
  <2>20. PICK new : new = [k \in 1..Len(row) |->
                             [at |-> cur.at + row[k].off - p.off, f |-> f,
                              i |-> Len(h0.runs) + k]]
    OBVIOUS
  <2>21. jobs' = IF Batch THEN jobs \o new ELSE jobs
    BY <1>5, <2>12, <2>14, <2>20 DEF Taken
  <2>22. new \in Seq(Job) /\ Len(new) = Len(row)
    <3>1. ASSUME NEW k \in 1..Len(row)
          PROVE  new[k] \in Job
      <4>1. cur.at + row[k].off - p.off \in Nat
        <5>1. PICK a \in Nat, o \in Nat, q \in Nat :
                a = cur.at /\ o = row[k].off /\ q = p.off /\ q <= o
          BY <2>5, <2>6, <2>12
        <5> QED  BY <5>1
      <4>2. Len(h0.runs) + k \in Nat \ {0}
        BY <2>12, <2>15
      <4> QED  BY <2>5, <2>20, <4>1, <4>2 DEF Job
    <3>2. DOMAIN new = 1..Len(row) /\ new = [k \in 1..Len(row) |-> new[k]]
      BY <2>20
    <3>3. Len(new) = Len(row)
      BY <2>12, <3>2
    <3> QED  BY <2>12, <3>1, <3>2, <3>3, SeqOfValues
  <2>23. /\ jobs' \in Seq(Job) /\ (~Batch => jobs' = jobs)
         /\ Batch => /\ Len(jobs') = Len(jobs) + Len(new)
                     /\ \A i \in 1..(Len(jobs) + Len(new)) :
                          jobs'[i] = IF i <= Len(jobs) THEN jobs[i] ELSE new[i - Len(jobs)]
    <3>1. /\ jobs \o new \in Seq(Job) /\ Len(jobs \o new) = Len(jobs) + Len(new)
          /\ \A i \in 1..(Len(jobs) + Len(new)) :
               (jobs \o new)[i] = IF i <= Len(jobs) THEN jobs[i] ELSE new[i - Len(jobs)]
      <4>1. PICK S : jobs \in Seq(S) /\ new \in Seq(S) /\ S = Job
        BY <2>9, <2>22
      <4> QED  BY <4>1, ConcatProperties
    <3>2. PICK both : both = jobs \o new
      OBVIOUS
    <3> QED  BY <2>9, <2>21, <3>1, <3>2
  <2>24. Shapes'
    <3>1. todo' \in [File -> SUBSET Extent] /\ \A g \in File : todo'[g] \subseteq vol[g].data
      BY <2>5, <2>8, <2>9
    <3>2. done' \in Seq(File)
      <4>1. Append(done, f) \in Seq(File)
        BY <2>5, <2>9, AppendProperties
      <4> QED  BY <2>8, <2>9, <4>1
    <3>3. /\ [threads |-> threads, vol |-> vol]' \in Inputs
          /\ DOMAIN mem' = 1..MemLen /\ mem' = [i \in 1..MemLen |-> mem'[i]]
      BY <1>2 DEF EInv, Shapes
    <3>4. pc' \in {"method", "read", "deliver", "used", "hash", "finish", "check",
                   "complete", "dead"}
      BY <2>19
    <3>5. vol' = vol
      BY <1>2
    <3> QED  BY <1>3, <2>10, <2>18, <2>23, <3>1, <3>2, <3>3, <3>4, <3>5 DEF Shapes
  <2>25. FillInv'
    <3>1. pc' # "finish" /\ fill' = fill
      BY <1>2, <2>19
    <3> QED  BY <1>3, <2>23, <3>1 DEF EInv, FillInv
  <2>26. CountInv'
    <3> SUFFICES ASSUME pc' # "dead", NEW g \in File
                 PROVE  /\ hf'[g].got + SumBytes(Size(g), todo'[g]) = Need(g)
                        /\ ~hf'[g].open => hf'[g].got = 0
      BY <1>3 DEF CountInv
    <3>1. /\ hf[g].got + SumBytes(Size(g), todo[g]) = Need(g)
          /\ ~hf[g].open => hf[g].got = 0
      BY <1>2, CountIs
    <3>2. CASE g # f
      BY <2>8, <2>9, <2>18, <3>1, <3>2
    <3>3. CASE g = f
      <4>1. todo'[f] = todo[f] \ {e}
        BY <2>5, <2>8, <2>9
      <4>2. Counted(Size(f), todo[f])
        BY <1>3, <2>5, <2>9, FileIs
      <4>3. SumBytes(Size(f), todo[f]) = n + SumBytes(Size(f), todo[f] \ {e})
        BY <2>5, <4>2, SumWithout
      <4>4. SumBytes(Size(f), todo[f] \ {e}) \in Nat
        BY <2>5, <4>2, LessCounted, SumSome
      <4>5. hf[f].got \in Nat
        BY <2>5, <2>9 DEF IsFile
      <4>6. PICK a \in Nat, b \in Nat, c \in Nat :
              /\ a = hf[f].got /\ b = SumBytes(Size(f), todo[f] \ {e}) /\ c = n
              /\ SumBytes(Size(f), todo[f]) = c + b /\ hf'[f].got = a + c
        BY <2>5, <2>18, <4>3, <4>4, <4>5
      <4>7. hf'[f].got + SumBytes(Size(f), todo'[f]) = Need(f)
        <5>1. a + (c + b) = (a + c) + b
          OBVIOUS
        <5> QED  BY <3>1, <3>3, <4>1, <4>6, <5>1
      <4> QED  BY <2>5, <2>18, <3>3, <4>7
    <3> QED  BY <3>2, <3>3
  <2>27. FlushInv'
    <3>1. unhashed' = {}
      BY <1>2 DEF EInv, FlushInv
    <3> QED  BY <2>19, <3>1 DEF FlushInv
  <2>28. ASSUME pc' = "deliver"
         PROVE  Delivering'
    <3>0. PICK qs : qs = Tail(ps)
      OBVIOUS
    <3>1. PICK m \in Nat : qs = Tail(ps) /\ m = Len(ps) - 1 /\ m # 0
      <4>1. PICK x \in Nat : x = Len(ps) /\ x # 0 /\ x # 1
        BY <2>3, <2>19, <2>28
      <4>2. x - 1 \in Nat /\ x - 1 # 0
        BY <4>1
      <4> QED  BY <3>0, <4>1, <4>2
    <3>2. qs \in Seq(Piece) /\ Len(qs) = m /\ \A k \in 1..m : qs[k] = ps[k + 1]
      BY <2>2, <3>1, HeadTailProperties
    <3>3. \A k \in 1..m : k + 1 \in 1..Len(ps) /\ k + 1 # 1
      BY <2>3, <3>1
    <3>4. ASSUME NEW k \in 1..m
          PROVE  /\ [off |-> qs[k].off, len |-> qs[k].len] \in todo'[qs[k].f]
                 /\ hf'[qs[k].f].open
      <4>1. PICK q \in Piece : q = qs[k] /\ q = ps[k + 1] /\ q.f \in File
        <5>1. qs[k] \in Piece
          BY <3>2, ElementOfSeq
        <5>2. qs[k].f \in File
          BY <5>1 DEF Piece
        <5> QED  BY <3>2, <5>1, <5>2
      <4>2. [off |-> q.off, len |-> q.len] \in todo[q.f] /\ hf[q.f].open
        BY <2>2, <3>3, <4>1 DEF Ahead
      <4>3. q # p
        BY <2>2, <2>3, <3>3, <4>1 DEF Ahead
      <4>4. q.f = f => [off |-> q.off, len |-> q.len] # e
        <5>1. q = [f |-> q.f, off |-> q.off, len |-> q.len]
          BY DEF Piece
        <5>2. p = [f |-> p.f, off |-> p.off, len |-> p.len]
          BY <2>5 DEF Piece
        <5> QED  BY <1>1, <2>4, <4>3, <5>1, <5>2
      <4> QED  BY <2>8, <2>9, <2>18, <4>1, <4>2, <4>4
    <3>5. \A j, k \in 1..m : qs[j] = qs[k] => j = k
      <4> SUFFICES ASSUME NEW j \in 1..m, NEW k \in 1..m, qs[j] = qs[k]
                   PROVE  j = k
        OBVIOUS
      <4>1. ps[j + 1] = ps[k + 1] /\ j + 1 \in 1..Len(ps) /\ k + 1 \in 1..Len(ps)
        BY <3>2, <3>3
      <4>2. j + 1 = k + 1
        BY <2>2, <4>1 DEF Ahead
      <4> QED  BY <4>2
    <3>6. qs # <<>>
      BY <3>1, <3>2
    <3>7. Ahead(qs)'
      BY <3>2, <3>4, <3>5, <3>6 DEF Ahead
    <3>8. PICK pos1 : pos1 = [k \in 1..m |-> pos[k + 1]]
      OBVIOUS
    <3>9. pos1 \in [1..m -> Nat] /\ pos1[1] = cur'.at
      <4>1. pos[1 + 1] = pos[1] + ps[1].len /\ 1 \in 1..m
        <5>1. 1 \in 1..(Len(ps) - 1) /\ 1 \in 1..m
          BY <3>1
        <5> QED  BY <2>1, <5>1
      <4> QED  BY <2>1, <2>3, <2>10, <3>3, <3>8, <4>1
    <3>10. ASSUME NEW k \in 1..(m - 1)
           PROVE  pos1[k + 1] = pos1[k] + qs[k].len
      <4>1. k \in 1..m /\ k + 1 \in 1..m /\ k + 1 \in 1..(Len(ps) - 1)
        BY <3>1
      <4>2. pos[(k + 1) + 1] = pos[k + 1] + ps[k + 1].len
        BY <2>1, <4>1
      <4> QED  BY <3>2, <3>8, <4>1, <4>2
    <3>11. ASSUME NEW k \in 1..m
           PROVE  Lies(qs[k], pos1[k])'
      <4>1. PICK q, t : q = qs[k] /\ t = pos1[k] /\ Lies(q, t)
        <5>1. qs[k] = ps[k + 1] /\ pos1[k] = pos[k + 1] /\ k + 1 \in 1..Len(ps)
          BY <3>2, <3>3, <3>8
        <5> QED  BY <2>1, <5>1
      <4>2. Bytes(Size(q.f), q)' = Bytes(Size(q.f), q)
        BY <1>3 DEF Bytes
      <4>3. Lies(q, t)'
        BY <1>2, <1>3, <2>6, <2>10, <4>1, <4>2 DEF Lies
      <4> QED  BY <4>1, <4>3
    <3> QED  BY <2>10, <3>1, <3>2, <3>7, <3>9, <3>10, <3>11 DEF Delivering
  <2>29. ReadInv'
    <3>1. Base + cur.want <= MemLen
      BY <1>2 DEF EInv, ReadInv
    <3> QED  BY <1>3, <2>6, <2>10, <2>19, <2>28, <3>1 DEF ReadInv
  <2>30. JobInv'
    <3>1. CASE ~Batch
      BY <2>23, <3>1 DEF EInv, FillInv, JobInv
    <3>2. CASE Batch
      <4>1. PICK top \in Nat : Top = top /\ Top' = top /\ top = fill + cur.want
        BY <1>2, <2>6, <2>10, <2>19 DEF Top
      <4>2. PICK l \in Nat, m \in Nat, r \in Nat :
              l = Len(jobs) /\ m = Len(new) /\ r = Len(h0.runs) /\ m = Len(row)
        BY <2>9, <2>12, <2>15, <2>22, LenProperties
      <4>3. hf'[f] = h /\ \A g \in File : g # f => hf'[g] = hf[g]
        BY <2>18, <3>2
      <4>4. ASSUME NEW i \in 1..l, NEW j \in Job, j = jobs[i]
            PROVE  /\ hf'[j.f].open /\ j.i \in 1..Len(hf'[j.f].runs)
                   /\ Waits(j)'
        <5>1. /\ j.f \in File /\ hf[j.f].open /\ j.i \in 1..Len(hf[j.f].runs)
              /\ IsRun(hf[j.f].runs[j.i])
          BY <4>2, <4>4, JobIs
        <5>2. Waits(j)
          BY <1>2, <4>2, <4>4 DEF EInv, JobInv
        <5>3. hf'[j.f].open /\ j.i \in 1..Len(hf'[j.f].runs)
              /\ hf'[j.f].runs[j.i] = hf[j.f].runs[j.i]
          <6>1. CASE j.f # f
            BY <4>3, <5>1, <6>1
          <6>2. CASE j.f = f
            <7>1. Len(h.runs) = r + m /\ j.i \in 1..r
              BY <2>13, <2>14, <2>15, <4>2, <5>1, <6>2
            <7>2. j.i \in 1..(r + m)
              BY <7>1
            <7>3. hf'[j.f] = h /\ hf[j.f] = h0 /\ h0.open
              BY <2>14, <4>3, <5>1, <6>2
            <7>4. h.open /\ h.runs[j.i] = h0.runs[j.i]
              BY <2>15, <4>2, <7>1, <7>3
            <7> QED  BY <7>1, <7>2, <7>3, <7>4
          <6> QED  BY <6>1, <6>2
        <5>4. Top \in Nat /\ Top' \in Nat /\ Top <= Top' /\ \A x \in 1..Top : mem'[x] = mem[x]
          BY <1>2, <4>1
        <5> QED  BY <1>2, <5>1, <5>2, <5>3, <5>4, WaitsStays
      <4>5. ASSUME NEW k \in 1..m, NEW j \in Job, j = new[k]
            PROVE  /\ hf'[j.f].open /\ j.i \in 1..Len(hf'[j.f].runs)
                   /\ Waits(j)'
        <5>1. k \in 1..Len(row) /\ k \in 1..Len(add)
          BY <2>13, <4>2
        <5>2. PICK o \in Nat, s \in Nat, po \in Nat, at \in Nat, c \in Nat :
                /\ o = row[k].off /\ s = row[k].len /\ po = p.off /\ at = cur.at /\ c = n
                /\ po <= o /\ o + s <= po + c
          <6>1. row[k].off \in Nat /\ row[k].len \in Nat /\ p.off <= row[k].off
                /\ row[k].off + row[k].len <= p.off + n
            BY <2>12, <5>1
          <6>2. p.off \in Nat /\ cur.at \in Nat /\ n \in Nat
            BY <2>5, <2>6
          <6> QED  BY <6>1, <6>2
        <5>3. j.at = at + o - po /\ j.f = f /\ j.i = r + k
          BY <2>20, <4>2, <4>5, <5>1, <5>2
        <5>4. Len(h.runs) = r + m /\ h.runs[r + k] = add[k]
          BY <2>13, <2>15, <4>2, <5>1
        <5>5. r + k \in 1..(r + m)
          BY <4>2
        <5>6. hf'[f].open
          BY <2>5, <2>18
        <5>7. hf'[j.f].runs[j.i].off = o /\ hf'[j.f].runs[j.i].len = s
          <6>1. hf'[j.f].runs[j.i] = add[k]
            BY <4>3, <5>3, <5>4
          <6> QED  BY <2>13, <5>1, <5>2, <6>1
        <5>8. at + o - po + s <= top
          <6>1. at + c <= top
            BY <2>6, <2>7, <3>2, <4>1, <5>2
          <6>2. o + s <= po + c
            BY <5>2
          <6> QED  BY <6>1, <6>2
        <5>9. o + s <= Size(f)
          <6>1. PICK z \in Nat : z = Size(f) /\ po + c <= z
            BY <2>5, <5>2
          <6> QED  BY SMTT(60), <5>2, <6>1
        <5>10. ASSUME NEW i \in 1..s
               PROVE  mem'[at + o - po + i] = Byte(f, o + i - 1)
          <6>1. o - po + i \in 1..c
            <7>1. po <= o /\ o + s <= po + c
              BY <5>2
            <7> QED  BY <7>1
          <6>2. mem[at + (o - po + i)] = Byte(f, po + (o - po + i) - 1)
            BY <2>7, <5>2, <6>1
          <6>3. at + (o - po + i) = at + o - po + i /\ po + (o - po + i) - 1 = o + i - 1
            <7>1. at \in Int /\ o \in Int /\ po \in Int
              BY <2>7, <5>2
            <7> QED  BY <7>1
          <6>4. mem' = mem
            BY <1>2
          <6> QED  BY <6>2, <6>3, <6>4
        <5>11. Waits(j)'
          BY <1>3, <4>1, <5>3, <5>7, <5>8, <5>9, <5>10 DEF Waits
        <5> QED  BY <4>3, <5>3, <5>4, <5>5, <5>6, <5>11
      <4>6. ASSUME NEW i \in 1..Len(jobs')
            PROVE  /\ hf'[jobs'[i].f].open /\ jobs'[i].i \in 1..Len(hf'[jobs'[i].f].runs)
                   /\ Waits(jobs[i])'
        <5>1. i \in 1..(l + m) /\ jobs'[i] = IF i <= l THEN jobs[i] ELSE new[i - l]
          BY <2>23, <3>2, <4>2
        <5>2. CASE i <= l
          <6>1. i \in 1..l /\ jobs'[i] = jobs[i]
            BY <5>1, <5>2
          <6>2. jobs[i] \in Job
            BY <2>9, <4>2, <6>1, ElementOfSeq
          <6> QED  BY <4>4, <6>1, <6>2
        <5>3. CASE ~(i <= l)
          <6>1. i - l \in 1..m /\ jobs'[i] = new[i - l]
            BY <5>1, <5>3
          <6>2. new[i - l] \in Job
            BY <2>22, <4>2, <6>1, ElementOfSeq
          <6> QED  BY <4>5, <6>1, <6>2
        <5> QED  BY <5>2, <5>3
      <4> QED  BY <4>6 DEF JobInv
    <3> QED  BY <3>1, <3>2
  <2> QED  BY <2>24, <2>25, <2>26, <2>27, <2>29, <2>30 DEF EInv
<1> QED  BY <1>2, <1>4, <1>5

-----------------------------------------------------------------------------
(* The theorems.                                                           *)

(* A step that changes nothing.                                            *)
LEMMA StutterHolds ==
  ASSUME EInv, UNCHANGED vars
  PROVE  EInv'
<1>1. /\ UNCHANGED <<threads, vol, todo, hf, mem, fill, jobs, unhashed, done, recs, cur, pc>>
      /\ UNCHANGED <<threads, vol>>
  BY DEF vars
<1>2. File' = File /\ Piece' = Piece /\ Job' = Job /\ MemLen' = MemLen /\ Batch' = Batch
      /\ (\A g : Size(g)' = Size(g) /\ Need(g)' = Need(g))
      /\ \A g, i : Byte(g, i)' = Byte(g, i)
  BY <1>1, SameVolume
<1>3. Shapes' /\ FillInv' /\ CountInv' /\ FlushInv'
  BY <1>1, <1>2 DEF EInv, Shapes, FillInv, CountInv, FlushInv
<1>4. Base' = Base /\ Top' = Top
  BY <1>1, <1>2 DEF Base, Top
<1>5. ReadInv'
  <2>1. cur' = NoCur' <=> cur = NoCur
    BY <1>1 DEF NoCur
  <2>2. \A ps : Ahead(ps)' = Ahead(ps) /\ Wants(ps)' = Wants(ps)
    BY <1>1, <1>2 DEF Ahead, Wants
  <2>3. Planned => Planned'
    BY <1>1, <2>2 DEF Planned
  <2>4. \A p, at : Lies(p, at)' = Lies(p, at)
    BY <1>1, <1>2, <1>4 DEF Lies
  <2>5. Delivering => Delivering'
    BY <1>1, <2>2, <2>4 DEF Delivering
  <2> QED  BY <1>1, <1>2, <1>4, <2>1, <2>3, <2>5 DEF EInv, ReadInv
<1>6. JobInv'
  <2>1. \A j : Waits(j)' = Waits(j)
    BY <1>1, <1>2, <1>4 DEF Waits
  <2> QED  BY <1>1, <2>1 DEF EInv, JobInv
<1> QED  BY <1>3, <1>5, <1>6 DEF EInv

(* Where the bytes lie is an invariant: it holds at the start, every       *)
(* handler of accbench.c:163-393 keeps it.                                 *)
THEOREM EngineInv == Spec => []EInv
<1>1. EInv /\ [Next]_vars => EInv'
  <2> SUFFICES ASSUME EInv, [Next]_vars PROVE EInv'
    OBVIOUS
  <2>1. ASSUME NEW f \in File, Open(f) PROVE EInv'
    BY <2>1, OpenHolds
  <2>2. ASSUME NEW ps \in Reads, NEW want \in Wants(ps), HbBuf(ps, want) PROVE EInv'
    BY <2>2, HbBufHolds
  <2>3. CASE Read
    BY <2>3, ReadHolds
  <2>4. CASE Deliver
    BY <2>4, DeliverHolds
  <2>5. CASE HbUsed
    BY <2>5, HbUsedHolds
  <2>6. ASSUME NEW i \in unhashed, HashJob(i) PROVE EInv'
    BY <2>6, HashJobHolds
  <2>7. CASE PoolReturns
    BY <2>7, PoolReturnsHolds
  <2>8. CASE FinishDone
    BY <2>8, FinishDoneHolds
  <2>9. CASE FlushReturns
    BY <2>9, FlushReturnsHolds
  <2>10. CASE LastFlush
    BY <2>10, LastFlushHolds
  <2>11. CASE CheckComplete
    BY <2>11, CheckCompleteHolds
  <2>12. CASE UNCHANGED vars
    BY <2>12, StutterHolds
  <2> QED
    BY <2>1, <2>2, <2>3, <2>4, <2>5, <2>6, <2>7, <2>8, <2>9, <2>10, <2>11, <2>12
    DEF Next, Step, Exited
<1> QED  BY <1>1, InitHolds, PTL DEF Spec

(* A step into the end by die() leaves the files as they were.             *)
LEMMA DyingStops ==
  ASSUME EInv, [Next]_vars, pc' = "dead"
  PROVE  hf' = hf /\ File' = File /\ \A f : Need(f)' = Need(f)
<1>1. UNCHANGED <<threads, vol>> /\ hf' = hf
  <2>1. ASSUME NEW f \in File, Open(f) PROVE UNCHANGED <<threads, vol>> /\ hf' = hf
    <3>1. UNCHANGED <<threads, vol>> /\ pc = "method"
      BY <2>1 DEF Open
    <3>2. CASE Need(f) = 0
      <4>1. Finish(f, [NewFile EXCEPT !.open = TRUE], "method")
        BY <2>1, <3>2 DEF Open
      <4> QED  BY <3>1, <4>1, FinishIs
    <3>3. CASE Need(f) # 0
      BY <2>1, <3>1, <3>3 DEF Open
    <3> QED  BY <3>1, <3>2, <3>3
  <2>2. ASSUME NEW ps \in Reads, NEW want \in Wants(ps), HbBuf(ps, want)
        PROVE  UNCHANGED <<threads, vol>> /\ hf' = hf
    BY <2>2 DEF HbBuf
  <2>3. CASE Read
    BY <2>3 DEF Read
  <2>4. CASE Deliver
    <3>1. PICK p, f, n : p = Head(cur.pieces) /\ f = p.f /\ n = Bytes(Size(f), p)
      OBVIOUS
    <3>2. /\ UNCHANGED <<threads, vol>>
          /\ \/ hf' = hf
             \/ \E row, add, whole : Taken(p, f, n, row, add, whole)
      BY <2>4, <3>1, DeliverIs
    <3>3. ASSUME NEW row, NEW add, NEW whole, Taken(p, f, n, row, add, whole)
          PROVE  hf' = hf
      <4>1. \/ pc' \in {"used", "deliver"}
            \/ hf' = hf
        BY <3>3 DEF Taken
      <4> QED  BY <4>1
    <3> QED  BY <3>2, <3>3
  <2>5. CASE HbUsed
    BY <2>5 DEF HbUsed
  <2>6. ASSUME NEW i \in unhashed, HashJob(i) PROVE UNCHANGED <<threads, vol>> /\ hf' = hf
    BY <2>6 DEF HashJob
  <2>7. CASE PoolReturns
    BY <2>7 DEF PoolReturns
  <2>8. CASE FinishDone
    <3>1. UNCHANGED <<threads, vol>> /\ Finish(Head(done), hf[Head(done)], "finish")
      BY <2>8 DEF FinishDone
    <3> QED  BY <3>1, FinishIs
  <2>9. CASE FlushReturns
    BY <2>9 DEF FlushReturns
  <2>10. CASE LastFlush
    BY <2>10 DEF LastFlush
  <2>11. CASE CheckComplete
    BY <2>11 DEF CheckComplete
  <2>12. CASE UNCHANGED vars
    BY <2>12 DEF vars
  <2> QED
    BY <2>1, <2>2, <2>3, <2>4, <2>5, <2>6, <2>7, <2>8, <2>9, <2>10, <2>11, <2>12
    DEF Next, Step, Exited
<1> QED  BY <1>1, SameVolume

(* No file gets more bytes than it needs.                                  *)
GotInv == \A f \in File : hf[f].got \in 0..Need(f)

(* While the program lives, that is what is left to read.                  *)
LEMMA GotIs ==
  ASSUME EInv, pc # "dead"
  PROVE  GotInv
<1> SUFFICES ASSUME NEW f \in File
             PROVE  hf[f].got \in 0..Need(f)
  BY DEF GotInv
<1>1. hf[f].got \in Nat /\ InputOK /\ todo[f] \in SUBSET vol[f].data
  BY DEF EInv, Shapes, IsFile, InputOK
<1>2. SumBytes(Size(f), todo[f]) \in Nat
  BY <1>1, FileIs, SumSome
<1>3. hf[f].got + SumBytes(Size(f), todo[f]) = Need(f)
  BY CountIs
<1> QED  BY <1>1, <1>2, <1>3

(* The shapes of the state, the bounds of the counters and of the arena    *)
(* (hf->got and hf->need, g_fill: accbench.c:185-208) hold for any volume, *)
(* any number of threads and any order of the reads.                       *)
THEOREM EngineTypes == Spec => []TypeOK
<1>1. EInv => (pc # "dead" => GotInv)
  BY GotIs
<1>2. Init => GotInv
  <2>1. Init => pc # "dead"
    BY DEF Init
  <2> QED  BY <2>1, GotIs, InitHolds
<1>3. EInv /\ GotInv /\ [Next]_vars /\ ~(pc # "dead")' => GotInv'
  <2> SUFFICES ASSUME EInv, GotInv, [Next]_vars, pc' = "dead" PROVE GotInv'
    OBVIOUS
  <2>1. hf' = hf /\ File' = File /\ \A f : Need(f)' = Need(f)
    BY DyingStops
  <2> QED  BY <2>1 DEF GotInv
<1>4. EInv /\ GotInv => TypeOK
  <2> SUFFICES ASSUME EInv, GotInv PROVE TypeOK
    OBVIOUS
  <2>1. Len(mem) = MemLen
    <3>1. DOMAIN mem = 1..MemLen /\ mem = [i \in 1..MemLen |-> mem[i]] /\ MemLen \in Nat
      BY RoomIs DEF EInv, Shapes, InputOK
    <3>2. PICK n \in Nat : n = MemLen /\ DOMAIN mem = 1..n /\ mem = [i \in 1..n |-> mem[i]]
      BY <3>1
    <3> QED  BY <3>2
  <2>2. ASSUME NEW i \in DOMAIN jobs
        PROVE  jobs[i].i \in DOMAIN hf[jobs[i].f].runs
    <3>1. i \in 1..Len(jobs)
      BY LenProperties DEF EInv, Shapes
    <3>2. IsFile(hf[jobs[i].f]) /\ jobs[i].i \in 1..Len(hf[jobs[i].f].runs)
      BY <3>1, JobIs
    <3> QED  BY <3>2 DEF IsFile
  <2> QED  BY <2>1, <2>2 DEF EInv, Shapes, FillInv, FlushInv, GotInv, TypeOK
<1> QED  BY <1>1, <1>2, <1>3, <1>4, EngineInv, PTL DEF Spec

(* hb_buf gives every read its room (accbench.c:334-351): however many     *)
(* reads went before and however their ends were rounded, none is written  *)
(* past the arena.                                                         *)
THEOREM ReadsFit == Spec => []RoomForRead
<1>1. EInv => RoomForRead
  BY DEF EInv, ReadInv, Base, RoomForRead
<1> QED  BY <1>1, EngineInv, PTL

(* The n elements of s after a are those of t after b.                     *)
Alike(s, a, t, b, n) == \A i \in 1..n : s[a + i] = t[b + i]

(* Two slices are equal if their elements are.                             *)
LEMMA SameSlice ==
  ASSUME NEW s, NEW t, NEW a \in Nat, NEW b \in Nat, NEW n \in Nat,
         Alike(s, a, t, b, n)
  PROVE  Slice(s, a, n) = Slice(t, b, n)
<1> USE DEF Alike
<1> DEFINE S == {s[a + i] : i \in 1..n}
           u == SubSeq(s, a + 1, a + n)
           v == SubSeq(t, b + 1, b + n)
<1>1. \A j \in (a + 1)..(a + n) : s[j] \in S
  <2> SUFFICES ASSUME NEW j \in (a + 1)..(a + n) PROVE s[j] \in S
    OBVIOUS
  <2>1. j - a \in 1..n /\ a + (j - a) = j
    OBVIOUS
  <2> QED  BY <2>1
<1>2. \A j \in (b + 1)..(b + n) : t[j] \in S
  <2> SUFFICES ASSUME NEW j \in (b + 1)..(b + n) PROVE t[j] \in S
    OBVIOUS
  <2>1. j - b \in 1..n /\ b + (j - b) = j
    OBVIOUS
  <2> QED  BY <2>1
<1> HIDE DEF S
<1>3. /\ u \in Seq(S) /\ Len(u) = n
      /\ \A i \in 1..n : u[i] = s[a + i]
  <2>1. /\ u \in Seq(S)
        /\ Len(u) = IF a + 1 <= a + n THEN a + n - (a + 1) + 1 ELSE 0
        /\ \A i \in 1..(a + n - (a + 1) + 1) : u[i] = s[a + 1 + i - 1]
    BY <1>1, SubSeqProperties
  <2>2. a + n - (a + 1) + 1 = n /\ \A i \in 1..n : a + 1 + i - 1 = a + i
    OBVIOUS
  <2> HIDE DEF u
  <2> QED  BY <2>1, <2>2
<1>4. /\ v \in Seq(S) /\ Len(v) = n
      /\ \A i \in 1..n : v[i] = t[b + i]
  <2>1. /\ v \in Seq(S)
        /\ Len(v) = IF b + 1 <= b + n THEN b + n - (b + 1) + 1 ELSE 0
        /\ \A i \in 1..(b + n - (b + 1) + 1) : v[i] = t[b + 1 + i - 1]
    BY <1>2, SubSeqProperties
  <2>2. b + n - (b + 1) + 1 = n /\ \A i \in 1..n : b + 1 + i - 1 = b + i
    OBVIOUS
  <2> HIDE DEF v
  <2> QED  BY <2>1, <2>2
<1> HIDE DEF u, v
<1>5. u = v
  BY <1>3, <1>4, SeqEqual
<1> QED  BY <1>5 DEF Slice, u, v

(* What a waiting job will hash is what its file holds there: no read is   *)
(* placed over data that no thread has hashed, whatever the order of the   *)
(* reads, and no job outlives its run (accbench.c:205-208).                *)
THEOREM DataWaits == Spec => []WaitingDataIntact
<1>1. EInv => WaitingDataIntact
  <2> SUFFICES ASSUME EInv,
                      NEW i \in IF pc = "hash" THEN unhashed ELSE DOMAIN jobs
               PROVE  LET j == jobs[i]
                          r == hf[j.f].runs[j.i]
                      IN Slice(mem, j.at, r.len) = Slice(Content(j.f), r.off, r.len)
    BY DEF WaitingDataIntact
  <2>1. i \in 1..Len(jobs) /\ (pc # "hash" \/ i \in unhashed)
    <3>1. jobs \in Seq(Job) /\ unhashed \subseteq DOMAIN jobs
      BY DEF EInv, Shapes, FlushInv
    <3>2. DOMAIN jobs = 1..Len(jobs)
      BY <3>1, LenProperties
    <3> QED  BY <3>1, <3>2
  <2>2. Waits(jobs[i])
    BY <2>1 DEF EInv, JobInv
  <2>3. PICK j \in Job : j = jobs[i] /\ j.f \in File /\ IsRun(hf[j.f].runs[j.i])
    BY <2>1, JobIs
  <2>4. PICK r : r = hf[j.f].runs[j.i] /\ r.off \in Nat /\ r.len \in Nat
    BY <2>3 DEF IsRun
  <2>5. j.at \in Nat /\ Size(j.f) \in Nat
    <3>1. InputOK
      BY DEF EInv, Shapes, InputOK
    <3> QED  BY <2>3, <3>1, FileIs DEF Job
  <2>6. /\ r.off + r.len <= Size(j.f)
        /\ \A x \in 1..r.len : mem[j.at + x] = Byte(j.f, r.off + x - 1)
    BY <2>2, <2>3, <2>4 DEF Waits
  <2>7. PICK at \in Nat, o \in Nat, n \in Nat, z \in Nat, f \in File :
          at = j.at /\ o = r.off /\ n = r.len /\ z = Size(j.f) /\ f = j.f
    BY <2>3, <2>4, <2>5
  <2>8. ASSUME NEW x \in 1..n
        PROVE  mem[at + x] = Content(f)[o + x]
    <3>1. o + x \in 1..z
      BY <2>6, <2>7
    <3>2. PICK y \in 1..z : y = o + x
      BY <3>1
    <3>3. Content(f)[y] = Byte(f, y - 1)
      BY <2>7 DEF Content
    <3>4. y - 1 = o + x - 1
      BY <3>2
    <3>5. mem[at + x] = Byte(f, o + x - 1)
      BY <2>6, <2>7
    <3> QED  BY <3>2, <3>3, <3>4, <3>5
  <2>9. Slice(mem, at, n) = Slice(Content(f), o, n)
    <3>1. Alike(mem, at, Content(f), o, n)
      BY <2>8 DEF Alike
    <3> QED  BY <2>7, <3>1, SameSlice
  <2> QED  BY <2>3, <2>4, <2>7, <2>9
<1> QED  BY <1>1, EngineInv, PTL

-----------------------------------------------------------------------------
-----------------------------------------------------------------------------
(* How complete trees lie in one another.                                  *)

(* A power of two divides the larger ones.                                 *)
LEMMA PowDivides ==
  ASSUME NEW p \in Nat \ {0}, PowerOfTwo(p), NEW q \in Nat \ {0}, PowerOfTwo(q), p <= q
  PROVE  \E r \in Nat \ {0} : PowerOfTwo(r) /\ q = p * r
<1> DEFINE Good(x) == \E r \in Nat \ {0} : PowerOfTwo(r) /\ x = p * r
           Bad == {x \in Nat \ {0} : PowerOfTwo(x) /\ p <= x /\ ~Good(x)}
<1> SUFFICES ASSUME Bad # {} PROVE FALSE
  OBVIOUS
<1>1. Bad \subseteq Nat
  OBVIOUS
<1> HIDE DEF Bad
<1>2. PICK x \in Bad : \A y \in Bad : x <= y
  BY <1>1, LeastNumber
<1>3. x \in Nat \ {0} /\ PowerOfTwo(x) /\ p <= x /\ ~Good(x)
  BY <1>2 DEF Bad
<1>4. x # p
  <2>1. p = p * 1 /\ 1 \in Nat \ {0}
    OBVIOUS
  <2> QED  BY <1>3, <2>1, PowOne
<1>5. PICK h \in Nat \ {0} : x = 2 * h /\ PowerOfTwo(h)
  <2>1. x > 1
    BY <1>3, <1>4
  <2> QED  BY <1>3, <2>1, PowHalf
<1>6. p <= h
  <2> SUFFICES ASSUME h < p PROVE FALSE
    OBVIOUS
  <2>1. h = p
    BY <1>3, <1>4, <1>5, PowNext
  <2> QED  BY <2>1
<1>7. Good(h)
  <2>1. h < x
    BY <1>5
  <2>2. h \notin Bad
    BY <1>2, <1>3, <2>1
  <2> QED  BY <1>5, <1>6, <2>2 DEF Bad
<1>8. PICK r \in Nat \ {0} : PowerOfTwo(r) /\ h = p * r
  BY <1>7
<1>9. x = p * (2 * r) /\ 2 * r \in Nat \ {0} /\ PowerOfTwo(2 * r)
  BY <1>5, <1>8, PowDouble
<1> QED  BY <1>3, <1>9

(* A multiple of a multiple.                                               *)
LEMMA TimesMod ==
  ASSUME NEW c \in Nat \ {0}, NEW k \in Nat
  PROVE  (c * k) % c = 0
<1>1. (c * k + 0) % c = 0
  OBVIOUS
<1> QED  BY <1>1

(* What lies on the larger tree's boundaries lies on the smaller one's,    *)
(* and the larger one is twice as large.                                   *)
LEMMA CompleteWithin ==
  ASSUME NEW s, FullTree(s), NEW t, FullTree(t), s <= t
  PROVE  /\ \A o \in Nat : o % t = 0 => o % s = 0
         /\ s # t => 2 * s <= t
<1>1. PICK p \in Nat \ {0} : PowerOfTwo(p) /\ s = Chunk * p
  BY DEF FullTree
<1>2. PICK q \in Nat \ {0} : PowerOfTwo(q) /\ t = Chunk * q
  BY DEF FullTree
<1>3. Chunk \in Nat \ {0} /\ s \in Nat \ {0} /\ t \in Nat \ {0}
  BY B3Assumption, CompleteIs
<1>4. p <= q
  <2> SUFFICES ASSUME q + 1 <= p PROVE FALSE
    BY <1>1, <1>2
  <2>1. Chunk * (q + 1) <= Chunk * p
    BY <1>3, TimesMono
  <2> QED  BY <1>1, <1>2, <1>3, <2>1
<1>5. PICK r \in Nat \ {0} : q = p * r
  BY <1>1, <1>2, <1>4, PowDivides
<1>6. t = s * r
  BY <1>1, <1>2, <1>3, <1>5
<1>7. ASSUME NEW o \in Nat, o % t = 0
      PROVE  o % s = 0
  <2>1. PICK k \in Nat : o = t * k
    BY <1>3, <1>7, Divides
  <2>2. o = s * (r * k) /\ r * k \in Nat
    BY <1>3, <1>6, <2>1
  <2> QED  BY <1>3, <2>2, TimesMod
<1>8. ASSUME s # t
      PROVE  2 * s <= t
  <2>1. r # 1
    BY <1>3, <1>6, <1>8
  <2>2. 2 <= r /\ s * 2 <= s * r
    BY <1>3, <2>1, TimesMono
  <2> QED  BY <1>3, <1>6, <2>2
<1> QED  BY <1>7, <1>8

(* Two boundaries are at least one tree apart.                             *)
LEMMA BoundariesApart ==
  ASSUME NEW c \in Nat \ {0}, NEW a \in Nat, NEW b \in Nat, a % c = 0, b % c = 0, a < b
  PROVE  a + c <= b
<1>1. PICK q \in Nat : a = c * q
  BY Divides
<1>2. PICK r \in Nat : b = c * r
  BY Divides
<1>3. q + 1 <= r
  <2> SUFFICES ASSUME r <= q PROVE FALSE
    OBVIOUS
  <2>1. c * r <= c * q
    BY TimesMono
  <2> QED  BY <1>1, <1>2, <2>1
<1>4. c * (q + 1) <= c * r
  BY <1>3, TimesMono
<1> QED  BY <1>1, <1>2, <1>4

(* A node o, n of the tree over l bytes: a complete tree on one of its own *)
(* boundaries, or what is left of one at the end.                          *)
InTree(o, n, l) ==
  /\ o \in Nat /\ n \in Nat \ {0} /\ o + n <= l
  /\ \E t : FullTree(t) /\ n <= t /\ o % t = 0 /\ (n = t \/ o + n = l)

(* So are its two parts.                                                   *)
LEMMA PartsInTree ==
  ASSUME NEW l \in Nat, NEW o, NEW n, InTree(o, n, l), n > Chunk
  PROVE  /\ FullTree(SpecLeft(n)) /\ SpecLeft(n) < n /\ n <= 2 * SpecLeft(n)
         /\ o % SpecLeft(n) = 0
         /\ InTree(o, SpecLeft(n), l) /\ InTree(o + SpecLeft(n), n - SpecLeft(n), l)
<1>1. o \in Nat /\ n \in Nat \ {0} /\ o + n <= l
  BY DEF InTree
<1>2. PICK t : FullTree(t) /\ n <= t /\ o % t = 0 /\ (n = t \/ o + n = l)
  BY DEF InTree
<1>3. PICK s : s = SpecLeft(n)
  OBVIOUS
<1>4. FullTree(s) /\ s \in Nat \ {0} /\ s < n /\ n <= 2 * s
  <2>1. LeftLen(n) = s /\ LeftLen(n) \in 1..(n - 1) /\ n <= 2 * LeftLen(n)
    BY <1>1, <1>3, LeftLenIs, LeftLenIsSpecLeft
  <2>2. PICK p \in 1..n : PowerOfTwo(p) /\ LeftLen(n) = Chunk * p
    BY <1>1, LeftLenIs
  <2>3. p \in Nat \ {0}
    OBVIOUS
  <2>4. FullTree(s)
    BY <2>1, <2>2, <2>3 DEF FullTree
  <2> QED  BY <1>1, <2>1, <2>4
<1>5. t \in Nat \ {0} /\ s < t /\ s <= t
  BY <1>1, <1>2, <1>4, CompleteIs
<1>6. o % s = 0 /\ 2 * s <= t
  BY <1>1, <1>2, <1>4, <1>5, CompleteWithin
<1>7. InTree(o, s, l)
  BY <1>1, <1>4, <1>6 DEF InTree
<1>8. InTree(o + s, n - s, l)
  <2>1. s % s = 0 /\ (o + s) % s = 0
    <3>1. s % s = 0
      BY <1>4
    <3> QED  BY <1>1, <1>4, <1>6, <3>1, DivPlus
  <2>2. n - s = s \/ (o + s) + (n - s) = l
    BY <1>1, <1>2, <1>4, <1>5, <1>6
  <2>3. o + s \in Nat /\ n - s \in Nat \ {0} /\ (o + s) + (n - s) <= l /\ n - s <= s
    BY <1>1, <1>4
  <2> QED  BY <1>4, <2>1, <2>2, <2>3 DEF InTree
<1> QED  BY <1>3, <1>4, <1>6, <1>7, <1>8

(* The root is one.                                                        *)
LEMMA RootInTree ==
  ASSUME NEW l \in Nat, l > Chunk
  PROVE  InTree(0, l, l)
<1>1. LeftLen(l) \in 1..(l - 1) /\ l <= 2 * LeftLen(l)
  BY LeftLenIs
<1>2. PICK p \in 1..l : PowerOfTwo(p) /\ LeftLen(l) = Chunk * p
  BY LeftLenIs
<1>3. FullTree(LeftLen(l))
  <2>1. p \in Nat \ {0}
    OBVIOUS
  <2> QED  BY <1>2, <2>1 DEF FullTree
<1>4. PICK t : t = 2 * LeftLen(l) /\ FullTree(t)
  BY <1>3, CompleteDouble
<1>5. t \in Nat \ {0} /\ l <= t
  BY <1>1, <1>4
<1>6. 0 % t = 0
  BY <1>5
<1>7. l \in Nat \ {0} /\ 0 + l = l
  BY B3Assumption
<1> QED  BY <1>4, <1>5, <1>6, <1>7 DEF InTree

-----------------------------------------------------------------------------
(* The merge of a file's runs.                                             *)

(* Where a run may lie in a file of l bytes: a complete tree at its place, *)
(* or the last chunk.                                                      *)
Shaped(r, l) ==
  /\ r.off % Chunk = 0 /\ r.off + r.len <= l
  /\ \/ FullTree(r.len) /\ r.off % r.len = 0
     \/ r.len < Chunk /\ r.off + r.len = l
Apart(r, s) == r.off + r.len <= s.off \/ s.off + s.len <= r.off
Meets(r, o, n) == r.off < o + n /\ o < r.off + r.len
Inside(r, o, n) == o <= r.off /\ r.off + r.len <= o + n

(* R are the runs of `in', each with its node; all else is zeros.          *)
IsMerge(R, in) ==
  /\ \A r \in R : IsRun(r) /\ Shaped(r, Len(in)) /\ r.cv = NodeOf(in, 0, r.off, r.len)
  /\ \A r, s \in R : r = s \/ Apart(r, s)
  /\ \A i \in 1..Len(in) : in[i] = Zero \/ \E r \in R : Owns(r, i - 1)

(* A node is a hole if no run has a byte of it,                            *)
LEMMA HoleIs ==
  ASSUME NEW B, NEW in \in Seq(B), NEW R, IsMerge(R, in), NEW o \in Nat, NEW n \in Nat \ {0}
  PROVE  InHole(R, o, n) <=> \A r \in R : ~Meets(r, o, n)
<1> DEFINE before == {r \in R : r.off < o + n}
           IsLast(x) == (\A r \in before : r.off <= x.off) /\ x.off + x.len > o
<1>1. \A r \in R : r.off \in Nat /\ r.len \in Nat \ {0} /\ r.off + r.len <= Len(in)
  BY DEF IsMerge, IsRun, Shaped
<1>2. InHole(R, o, n) <=> ~\E x \in before : IsLast(x)
  BY DEF InHole
<1>3. ASSUME NEW x \in before, IsLast(x)
      PROVE  x \in R /\ Meets(x, o, n)
  BY <1>1, <1>3 DEF Meets
<1>4. ASSUME NEW r \in R, Meets(r, o, n)
      PROVE  \E x \in before : IsLast(x)
  <2> DEFINE S == {x.off : x \in before}
  <2>1. S \subseteq 0..Len(in) /\ S # {}
    <3>1. r \in before
      BY <1>4 DEF Meets
    <3>2. \A x \in before : x.off \in 0..Len(in)
      BY <1>1
    <3> QED  BY <3>1, <3>2
  <2>2. PICK m \in S : \A k \in S : k <= m
    <3> HIDE DEF S
    <3>1. Max(S) \in S /\ \A k \in S : k <= Max(S)
      BY <2>1, MaxIsMember, LenProperties
    <3> QED  BY <3>1
  <2>3. PICK x \in before : x.off = m
    OBVIOUS
  <2>4. \A y \in before : y.off <= x.off
    BY <2>2, <2>3
  <2>5. x.off + x.len > o
    <3>1. CASE x = r
      BY <1>1, <1>4, <3>1 DEF Meets
    <3>2. CASE x # r
      <4>1. Apart(x, r)
        BY <3>2 DEF IsMerge
      <4>2. r.off <= x.off
        BY <1>4, <2>4 DEF Meets
      <4> QED  BY <1>1, <1>4, <4>1, <4>2 DEF Apart, Meets
    <3> QED  BY <3>1, <3>2
  <2> QED  BY <2>4, <2>5
<1> QED  BY <1>2, <1>3, <1>4

(* and then reads as zeros.                                                *)
LEMMA HoleIsZero ==
  ASSUME NEW B, NEW in \in Seq(B), NEW R, IsMerge(R, in), NEW o \in Nat, NEW n \in Nat \ {0},
         o + n <= Len(in), InHole(R, o, n)
  PROVE  \A i \in 1..n : in[o + i] = Zero
<1> SUFFICES ASSUME NEW i \in 1..n, in[o + i] # Zero PROVE FALSE
  OBVIOUS
<1>1. o + i \in 1..Len(in)
  OBVIOUS
<1>2. PICK r \in R : Owns(r, (o + i) - 1)
  BY <1>1 DEF IsMerge
<1>3. r.off \in Nat /\ r.len \in Nat
  BY DEF IsMerge, IsRun
<1>4. Meets(r, o, n)
  BY <1>2, <1>3 DEF Owns, Meets
<1> QED  BY <1>4, HoleIs

(* Zeros are a slice of zeros.                                             *)
LEMMA ZerosAre ==
  ASSUME NEW B, NEW in \in Seq(B), NEW o \in Nat, NEW n \in Nat, o + n <= Len(in),
         \A i \in 1..n : in[o + i] = Zero
  PROVE  Zeros(n) = Slice(in, o, n)
<1>1. Slice(in, o, n) \in Seq(B) /\ Len(Slice(in, o, n)) = n
      /\ \A i \in 1..n : Slice(in, o, n)[i] = in[o + i]
  BY SliceIs
<1>2. DOMAIN Slice(in, o, n) = 1..n
  BY <1>1, LenProperties
<1>3. Slice(in, o, n) = [i \in 1..n |-> Slice(in, o, n)[i]]
  BY <1>1, <1>2
<1> QED  BY <1>1, <1>3 DEF Zeros

(* zero_cv is the node of a hole.                                          *)
LEMMA ZeroIs ==
  ASSUME NEW B, NEW in \in Seq(B), NEW off \in Nat, off % Chunk = 0, NEW len \in Nat,
         off + len <= Len(in), \A i \in 1..len : in[off + i] = Zero
  PROVE  ZeroCV(off, len) = NodeOf(in, 0, off, len)
<1> DEFINE leaf == [n \in 0..BufSz |-> [lo \in 0..len |-> Subtree(Zeros(n), off + lo, Wide)]]
           left == [n \in (BufSz + 1)..len |-> LeftLen(n)]
           tree == Tree(len, leaf, left)
           Fits(n, lo) == lo + n <= len /\ lo % Chunk = 0
           Bad == {n \in 0..len : \E lo \in 0..len :
                     Fits(n, lo) /\ tree[n][lo] # NodeOf(in, 0, off + lo, n)}
<1>1. Chunk \in Nat \ {0} /\ BufSz \in Nat /\ Chunk <= BufSz
  BY BufSzIs
<1>2. ZeroCV(off, len) = tree[len][0]
  BY DEF ZeroCV
<1>3. DOMAIN left = (BufSz + 1)..len /\ DOMAIN leaf = 0..BufSz
  OBVIOUS
<1>4. ASSUME NEW n \in 0..len, n \in DOMAIN left
      PROVE  /\ n > Chunk /\ left[n] = SpecLeft(n)
             /\ left[n] \in 1..(n - 1) /\ left[n] % Chunk = 0
  <2>1. n > Chunk
    BY <1>1, <1>3, <1>4
  <2>2. left[n] = SpecLeft(n)
    BY <1>4, <2>1, LeftLenIsSpecLeft
  <2> QED  BY <2>1, <2>2, SplitIs
<1>5. ASSUME NEW n \in 0..BufSz, NEW lo \in 0..len
      PROVE  leaf[n][lo] = Subtree(Zeros(n), off + lo, Wide)
  OBVIOUS
<1> HIDE DEF left, leaf
<1>6. tree = [n \in 0..len |-> [lo \in 0..len |->
                IF n \in DOMAIN left
                THEN Parent(tree[left[n]][lo], tree[n - left[n]][lo + left[n]])
                ELSE leaf[n][lo]]]
  BY <1>4, TreeIs
<1> HIDE DEF tree
<1>7. Bad = {}
  <2> SUFFICES ASSUME Bad # {} PROVE FALSE
    OBVIOUS
  <2>1. Bad \subseteq Nat
    OBVIOUS
  <2> HIDE DEF Bad
  <2>2. PICK n \in Bad : \A m \in Bad : n <= m
    BY <2>1, LeastNumber
  <2>3. n \in 0..len /\ \E lo \in 0..len :
          Fits(n, lo) /\ tree[n][lo] # NodeOf(in, 0, off + lo, n)
    BY <2>2 DEF Bad
  <2>4. PICK lo \in 0..len : Fits(n, lo) /\ tree[n][lo] # NodeOf(in, 0, off + lo, n)
    BY <2>3
  <2>5. ASSUME NEW m \in 0..len, m < n, NEW x \in 0..len, Fits(m, x)
        PROVE  tree[m][x] = NodeOf(in, 0, off + x, m)
    <3>1. m \notin Bad
      BY <2>2, <2>3, <2>5
    <3> QED  BY <2>5, <3>1 DEF Bad
  <2>6. off + lo \in Nat /\ (off + lo) % Chunk = 0 /\ off + lo + n <= Len(in)
    <3>1. lo \in Nat /\ lo % Chunk = 0 /\ n \in Nat /\ lo + n <= len
      BY <2>3, <2>4
    <3>2. (off + lo) % Chunk = 0
      BY <1>1, <3>1, DivPlus
    <3> QED  BY <3>1, <3>2
  <2>7. CASE n \in DOMAIN left
    <3>1. PICK l \in Nat : l = left[n] /\ l \in 1..(n - 1) /\ l = SpecLeft(n) /\ l % Chunk = 0
      BY <1>4, <2>3, <2>7
    <3>2. n > Chunk
      BY <1>4, <2>3, <2>7
    <3>3. tree[n][lo] = Parent(tree[l][lo], tree[n - l][lo + l])
      <4>1. \A x \in 0..len : x \in DOMAIN left =>
              tree[x] = [y \in 0..len |-> Parent(tree[left[x]][y], tree[x - left[x]][y + left[x]])]
        BY ZenonT(60), <1>6
      <4>2. tree[n] = [y \in 0..len |-> Parent(tree[l][y], tree[n - l][y + l])]
        BY <2>3, <2>7, <3>1, <4>1
      <4> QED  BY <4>2
    <3>4. tree[l][lo] = NodeOf(in, 0, off + lo, l)
      <4>1. l \in 0..len /\ l < n /\ Fits(l, lo)
        BY <2>3, <2>4, <3>1
      <4> QED  BY <2>5, <4>1
    <3>5. tree[n - l][lo + l] = NodeOf(in, 0, off + (lo + l), n - l)
      <4>1. (lo + l) % Chunk = 0
        <5>1. lo \in Nat /\ lo % Chunk = 0
          BY <2>4
        <5> QED  BY <1>1, <3>1, <5>1, DivPlus
      <4>2. n \in Nat /\ lo \in Nat /\ lo + n <= len
        BY <2>3, <2>4
      <4>3. n - l \in 0..len /\ n - l < n /\ lo + l \in 0..len /\ Fits(n - l, lo + l)
        BY SMTT(60), <2>3, <3>1, <4>1, <4>2
      <4> QED  BY <2>5, <4>3
    <3>6. NodeOf(in, 0, off + lo, n)
            = Parent(NodeOf(in, 0, off + lo, l), NodeOf(in, 0, off + lo + l, n - l))
      <4>1. n \in 0..Len(in) /\ off + lo \in 0..Len(in)
        BY <2>3, <2>6
      <4> QED  BY <3>1, <3>2, <4>1, NodeIs
    <3>7. off + (lo + l) = off + lo + l
      BY <3>1
    <3> QED  BY <2>4, <3>3, <3>4, <3>5, <3>6, <3>7
  <2>8. CASE n \notin DOMAIN left
    <3>1. n \in 0..BufSz
      BY <1>1, <1>3, <2>3, <2>8
    <3>2. tree[n][lo] = Subtree(Zeros(n), off + lo, Wide)
      BY <1>5, <1>6, <2>3, <2>8, <3>1
    <3>3. Zeros(n) = Slice(in, off + lo, n)
      <4>1. \A i \in 1..n : in[off + lo + i] = Zero
        <5>1. \A i \in 1..n : lo + i \in 1..len /\ off + (lo + i) = off + lo + i
          BY <2>3, <2>4
        <5> QED  BY <5>1
      <4>2. n \in Nat
        BY <2>3
      <4> QED  BY <2>6, <4>1, <4>2, ZerosAre
    <3>4. PICK a \in Nat : a = off + lo /\ a % Chunk = 0 /\ a + n <= Len(in)
      BY <2>6
    <3>5. Subtree(Slice(in, a, n), a, Wide) = NodeOf(in, 0, a, n)
      <4>1. n \in Nat /\ Wide \in Nat \ {0}
        BY <2>3, HashEngineAssumption
      <4> QED  BY <3>4, <4>1, SubtreeOfPart
    <3> QED  BY <2>4, <3>2, <3>3, <3>4, <3>5
  <2> QED  BY <2>7, <2>8
<1>8. Fits(len, 0) /\ len \in 0..len /\ 0 \in 0..len
  BY <1>1
<1>9. tree[len][0] = NodeOf(in, 0, off + 0, len)
  BY <1>7, <1>8
<1> QED  BY <1>2, <1>9

(* No run lies across an end of the node.                                  *)
Kept(R, o, n) == \A r \in R : Meets(r, o, n) => Inside(r, o, n)

(* Then none lies across the split of one that is no run.                  *)
LEMMA PartsKept ==
  ASSUME NEW B, NEW in \in Seq(B), NEW R, IsMerge(R, in), NEW o, NEW n,
         InTree(o, n, Len(in)), Kept(R, o, n), n > Chunk,
         \A r \in R : r.off # o \/ r.len # n
  PROVE  Kept(R, o, SpecLeft(n)) /\ Kept(R, o + SpecLeft(n), n - SpecLeft(n))
<1>1. PICK l \in Nat : l = Len(in)
  BY LenProperties
<1>2. o \in Nat /\ n \in Nat \ {0} /\ o + n <= l /\ Chunk \in Nat \ {0}
  BY <1>1, B3Assumption DEF InTree
<1>3. PICK s \in Nat \ {0} : s = SpecLeft(n) /\ FullTree(s) /\ s < n /\ n <= 2 * s /\ o % s = 0
  BY <1>1, <1>2, PartsInTree, CompleteIs
<1>4. PICK m \in Nat : m = o + s /\ m % s = 0
  <2>1. s % s = 0 /\ o + s \in Nat
    BY <1>2, <1>3
  <2>2. (o + s) % s = 0
    BY <1>2, <1>3, <2>1, DivPlus
  <2> QED  BY <2>1, <2>2
<1>5. ASSUME NEW r \in R, Meets(r, o, n)
      PROVE  m <= r.off \/ r.off + r.len <= m
  <2> SUFFICES ASSUME r.off < m PROVE r.off + r.len <= m
    <3>1. r.off \in Nat
      BY DEF IsMerge, IsRun
    <3> QED  BY <3>1
  <2>1. /\ IsRun(r) /\ Shaped(r, l) /\ Inside(r, o, n)
        /\ r.off # o \/ r.len # n
    BY <1>1, <1>5 DEF IsMerge, Kept
  <2>2. PICK a \in Nat, k \in Nat \ {0} : a = r.off /\ k = r.len
    BY <2>1 DEF IsRun
  <2>3. o <= a /\ a + k <= o + n /\ a + k <= l /\ a % Chunk = 0 /\ a < m
    BY <2>1, <2>2 DEF Inside, Shaped
  <2>4. CASE FullTree(k) /\ a % k = 0
    <3>1. k <= s
      <4> SUFFICES ASSUME s < k PROVE FALSE
        OBVIOUS
      <4>1. 2 * s <= k
        BY <1>3, <2>2, <2>4, CompleteWithin
      <4>2. k = n /\ a = o
        BY SMTT(60), <1>2, <1>3, <2>2, <2>3, <4>1
      <4> QED  BY <2>1, <2>2, <4>2
    <3>2. m % k = 0
      BY <1>3, <1>4, <2>4, <3>1, CompleteWithin
    <3> QED  BY <1>4, <2>2, <2>3, <2>4, <3>2, BoundariesApart
  <2>5. CASE k < Chunk /\ a + k = l
    <3>1. m % Chunk = 0
      <4>1. Chunk <= s
        BY <1>3, CompleteIs
      <4> QED  BY <1>2, <1>3, <1>4, <4>1, CompleteChunk, CompleteWithin
    <3>2. a + Chunk <= m
      BY <1>2, <1>4, <2>2, <2>3, <3>1, BoundariesApart
    <3> QED  BY <1>2, <2>2, <2>5, <3>2
  <2> QED  BY <2>1, <2>2, <2>4, <2>5 DEF Shaped
<1>6. ASSUME NEW r \in R
      PROVE  r.off \in Nat /\ r.len \in Nat /\ (Meets(r, o, n) => Inside(r, o, n))
  BY DEF IsMerge, IsRun, Kept
<1>7. ASSUME NEW r \in R, Meets(r, o, s)
      PROVE  Inside(r, o, s)
  <2>1. Meets(r, o, n)
    BY <1>2, <1>3, <1>6, <1>7 DEF Meets
  <2> QED  BY SMTT(60), <1>2, <1>3, <1>4, <1>5, <1>6, <1>7, <2>1 DEF Meets, Inside
<1>8. ASSUME NEW r \in R, Meets(r, m, n - s)
      PROVE  Inside(r, m, n - s)
  <2>1. m + (n - s) = o + n /\ o <= m
    <3>1. m = o + s /\ o \in Nat /\ n \in Nat
      BY <1>2, <1>4
    <3> QED  BY <3>1
  <2>2. PICK a \in Nat, k \in Nat : a = r.off /\ k = r.len
    BY <1>6
  <2>3. a < o + n /\ m < a + k
    BY <1>8, <2>1, <2>2 DEF Meets
  <2>4. Meets(r, o, n)
    BY <1>2, <1>4, <2>1, <2>2, <2>3 DEF Meets
  <2>5. m <= a /\ a + k <= o + n
    BY <1>4, <1>5, <1>6, <2>2, <2>3, <2>4 DEF Inside
  <2> QED  BY <2>1, <2>2, <2>5 DEF Inside
<1> QED  BY <1>3, <1>4, <1>7, <1>8 DEF Kept

(* A row of the values node() gives the nodes of n bytes, f being the rows *)
(* of the shorter ones.                                                    *)
NodeFrom(R, o, n, l, r) ==
  IF {x \in R : x.off = o /\ x.len = n} # {}
  THEN (CHOOSE x \in {x \in R : x.off = o /\ x.len = n} : TRUE).cv
  ELSE IF InHole(R, o, n) THEN ZeroCV(o, n)
  ELSE IF n <= Chunk THEN NoCV
  ELSE Join(l, r)
NodeAt(R, f, o, n) ==
  NodeFrom(R, o, n, f[LeftLen(n)][o], f[n - LeftLen(n)][o + LeftLen(n)])
NodeRow(R, off, len, f, n) == [o \in off..(off + len) |-> NodeAt(R, f, o, n)]

(* The recursive function that NodeCV denotes exists.                      *)
LEMMA NodeRowsExist ==
  ASSUME NEW R, NEW off, NEW len \in Nat
  PROVE  \E f : /\ f = [n \in 0..len |-> NodeRow(R, off, len, f, n)]
                /\ NodeCV(R, off, len) = f[len][off]
<1> DEFINE Row(f, n) == NodeRow(R, off, len, f, n)
           UpTo(m, f) == f = [n \in 0..m |-> Row(f, n)]
           Bad == {m \in 0..len : \A f : ~UpTo(m, f)}
<1>1. Bad = {}
  <2>1. SUFFICES ASSUME Bad # {} PROVE FALSE
    OBVIOUS
  <2>2. Bad \subseteq Nat
    OBVIOUS
  <2> HIDE DEF Bad
  <2>3. PICK m \in Bad : \A n \in Bad : m <= n
    BY <2>1, <2>2, LeastNumber
  <2> USE DEF Bad
  <2>4. m \in 0..len /\ \A f : ~UpTo(m, f)
    BY <2>3
  <2>5. ASSUME m # 0
        PROVE  \E g : UpTo(m - 1, g)
    <3>1. m - 1 \in 0..len /\ ~(m <= m - 1)
      BY <2>4, <2>5
    <3>2. m - 1 \notin Bad
      BY <2>3, <3>1
    <3> QED  BY <3>1, <3>2
  <2> HIDE DEF Bad, UpTo, Row
  <2>6. \E g : m # 0 => UpTo(m - 1, g)
    BY <2>5
  <2>7. PICK g : m # 0 => UpTo(m - 1, g)
    BY <2>6
  <2> DEFINE f == [n \in 0..m |-> IF n < m THEN g[n] ELSE Row(g, n)]
  <2>8. DOMAIN f = 0..m /\ \A n \in 0..m : f[n] = IF n < m THEN g[n] ELSE Row(g, n)
    OBVIOUS
  <2>9. ASSUME NEW n \in 0..m
        PROVE  f[n] = Row(g, n)
    <3>1. CASE n < m
      <4>1. m # 0 /\ n \in 0..(m - 1)
        BY <2>4, <3>1
      <4>2. g = [k \in 0..(m - 1) |-> Row(g, k)]
        BY <2>7, <4>1 DEF UpTo
      <4>3. g[n] = Row(g, n)
        BY <4>1, <4>2
      <4> QED  BY <2>8, <3>1, <4>3
    <3>2. CASE ~(n < m)
      BY <2>8, <3>2
    <3> QED  BY <3>1, <3>2
  <2> HIDE DEF f
  <2>10. ASSUME NEW n \in 0..m
         PROVE  Row(g, n) = Row(f, n)
    <3>1. \A k \in 0..(n - 1) : k \in 0..m /\ k < m
      BY <2>4
    <3>2. \A k \in 0..(n - 1) : f[k] = g[k]
      BY <2>8, <3>1
    <3>3. ASSUME ~(n <= Chunk)
          PROVE  f[LeftLen(n)] = g[LeftLen(n)] /\ f[n - LeftLen(n)] = g[n - LeftLen(n)]
      <4>1. n \in Nat /\ n > Chunk
        BY <2>4, <3>3, B3Assumption
      <4>2. LeftLen(n) \in 1..(n - 1)
        BY <4>1, LeftLenIs
      <4>3. LeftLen(n) \in 0..(n - 1) /\ n - LeftLen(n) \in 0..(n - 1)
        BY <4>1, <4>2
      <4> QED  BY <3>2, <4>3
    <3>4. \A o : NodeAt(R, g, o, n) = NodeAt(R, f, o, n)
      <4>1. CASE n <= Chunk
        <5>1. \A o, a, b, c, d : NodeFrom(R, o, n, a, b) = NodeFrom(R, o, n, c, d)
          BY <4>1 DEF NodeFrom
        <5> QED  BY <5>1, Zenon DEF NodeAt
      <4>2. CASE ~(n <= Chunk)
        BY <3>3, <4>2, Zenon DEF NodeAt
      <4> QED  BY <4>1, <4>2
    <3> QED  BY <3>4, Zenon DEF Row, NodeRow
  <2>11. f = [n \in 0..m |-> Row(f, n)]
    <3>1. f = [n \in 0..m |-> f[n]]
      BY <2>8 DEF f
    <3>2. \A n \in 0..m : f[n] = Row(f, n)
      BY <2>9, <2>10
    <3> QED  BY <3>1, <3>2
  <2> QED  BY <2>4, <2>11 DEF UpTo
<1>2. \E f : UpTo(len, f)
  <2>1. len \in 0..len
    OBVIOUS
  <2> HIDE DEF UpTo
  <2> QED  BY <1>1, <2>1
<1> DEFINE node == CHOOSE f : UpTo(len, f)
<1>3. NodeCV(R, off, len) = node[len][off]
  BY DEF NodeCV, NodeRow, NodeAt, NodeFrom
<1>4. UpTo(len, node)
  BY <1>2
<1> HIDE DEF node
<1> QED  BY <1>3, <1>4

(* A node is no error.                                                     *)
LEMMA NodeIsNoError ==
  ASSUME NEW B, NEW in \in Seq(B), NEW len \in 0..Len(in), NEW lo \in 0..Len(in)
  PROVE  NodeOf(in, 0, lo, len) # NoCV
<1>1. \A x, y : Parent(x, y) # NoCV
  <2> SUFFICES ASSUME NEW x, NEW y, Parent(x, y) = NoCV PROVE FALSE
    OBVIOUS
  <2>1. DOMAIN Parent(x, y) = DOMAIN NoCV
    OBVIOUS
  <2> QED  BY <2>1 DEF Parent, Node, NoCV
<1>2. \A x, y : ChunkCV(x, y, FALSE) # NoCV
  <2> SUFFICES ASSUME NEW x, NEW y, ChunkCV(x, y, FALSE) = NoCV PROVE FALSE
    OBVIOUS
  <2>1. DOMAIN ChunkCV(x, y, FALSE) = DOMAIN NoCV
    OBVIOUS
  <2> QED  BY <2>1 DEF ChunkCV, NoCV
<1>3. \/ \E x, y : NodeOf(in, 0, lo, len) = Parent(x, y)
      \/ \E x, y : NodeOf(in, 0, lo, len) = ChunkCV(x, y, FALSE)
  <2>1. NodeOf(in, 0, lo, len) =
          IF len > Chunk
          THEN Parent(NodeOf(in, 0, lo, SpecLeft(len)),
                      NodeOf(in, 0, lo + SpecLeft(len), len - SpecLeft(len)))
          ELSE ChunkCV(Slice(in, lo, len), 0 + lo \div Chunk, FALSE)
    BY NodeIs
  <2> QED  BY <2>1, Zenon
<1> QED  BY <1>1, <1>2, <1>3, Zenon

(* A chunk's node that no run is, has no run.                              *)
LEMMA ChunkIsHole ==
  ASSUME NEW B, NEW in \in Seq(B), NEW R, IsMerge(R, in), NEW o, NEW n,
         InTree(o, n, Len(in)), Kept(R, o, n), n <= Chunk,
         \A r \in R : r.off # o \/ r.len # n
  PROVE  InHole(R, o, n)
<1>1. PICK l \in Nat : l = Len(in)
  BY LenProperties
<1>2. o \in Nat /\ n \in Nat \ {0} /\ o + n <= l /\ Chunk \in Nat \ {0}
  BY <1>1, B3Assumption DEF InTree
<1>3. o % Chunk = 0
  <2>1. PICK t : FullTree(t) /\ o % t = 0
    BY DEF InTree
  <2> QED  BY <1>2, <2>1, CompleteIs, CompleteChunk, CompleteWithin
<1>4. SUFFICES ASSUME NEW r \in R, Meets(r, o, n) PROVE FALSE
  BY <1>2, HoleIs
<1>5. IsRun(r) /\ Shaped(r, l) /\ Inside(r, o, n) /\ (r.off # o \/ r.len # n)
  BY <1>1, <1>4 DEF IsMerge, Kept
<1>6. PICK a \in Nat, k \in Nat \ {0} : a = r.off /\ k = r.len
  BY <1>5 DEF IsRun
<1>7. o <= a /\ a + k <= o + n /\ a + k <= l /\ a % Chunk = 0
  BY <1>5, <1>6 DEF Inside, Shaped
<1>8. a = o
  <2> SUFFICES ASSUME o < a PROVE FALSE
    BY <1>2, <1>6, <1>7
  <2>1. o + Chunk <= a
    BY <1>2, <1>3, <1>6, <1>7, BoundariesApart
  <2> QED  BY SMTT(60), <1>2, <1>6, <1>7, <2>1
<1>9. k = n
  <2>1. CASE FullTree(k)
    <3>1. Chunk <= k
      BY <2>1, CompleteIs
    <3> QED  BY <1>2, <1>6, <1>7, <1>8, <3>1
  <2>2. CASE k < Chunk /\ a + k = l
    BY <1>2, <1>6, <1>7, <1>8, <2>2
  <2> QED  BY <1>5, <1>6, <2>1, <2>2 DEF Shaped
<1> QED  BY <1>5, <1>6, <1>8, <1>9

(* node() finds the nodes of BLAKE3's tree.                                *)
LEMMA NodeCVIs ==
  ASSUME NEW B, NEW in \in Seq(B), NEW R, IsMerge(R, in), NEW off, NEW len,
         InTree(off, len, Len(in)), Kept(R, off, len)
  PROVE  NodeCV(R, off, len) = NodeOf(in, 0, off, len)
<1>1. off \in Nat /\ len \in Nat \ {0} /\ off + len <= Len(in) /\ Len(in) \in Nat
  BY LenProperties DEF InTree
<1>2. PICK f : /\ f = [n \in 0..len |-> NodeRow(R, off, len, f, n)]
               /\ NodeCV(R, off, len) = f[len][off]
  <2>1. len \in Nat
    BY <1>1
  <2> QED  BY <2>1, NodeRowsExist, ZenonT(60)
<1> DEFINE Fits(o, n) == /\ off <= o /\ o + n <= off + len
                         /\ InTree(o, n, Len(in)) /\ Kept(R, o, n)
           Bad == {n \in 0..len : \E o \in off..(off + len) :
                     Fits(o, n) /\ f[n][o] # NodeOf(in, 0, o, n)}
<1>3. Bad = {}
  <2> SUFFICES ASSUME Bad # {} PROVE FALSE
    OBVIOUS
  <2>1. Bad \subseteq Nat
    OBVIOUS
  <2> HIDE DEF Bad
  <2>2. PICK n \in Bad : \A m \in Bad : n <= m
    BY <2>1, LeastNumber
  <2>3. n \in 0..len
    BY <2>2 DEF Bad
  <2>4. PICK o \in off..(off + len) : Fits(o, n) /\ f[n][o] # NodeOf(in, 0, o, n)
    BY <2>2 DEF Bad
  <2>5. ASSUME NEW m \in 0..len, m < n, NEW x \in off..(off + len), Fits(x, m)
        PROVE  f[m][x] = NodeOf(in, 0, x, m)
    <3>1. m \notin Bad
      BY <2>2, <2>3, <2>5
    <3> QED  BY <2>5, <3>1 DEF Bad
  <2>6. /\ InTree(o, n, Len(in)) /\ Kept(R, o, n)
        /\ o \in Nat /\ n \in Nat \ {0} /\ o + n <= Len(in) /\ off <= o /\ o + n <= off + len
    BY <2>4 DEF InTree
  <2>7. f[n][o] = NodeAt(R, f, o, n)
    <3>1. f[n] = NodeRow(R, off, len, f, n)
      BY <1>2, <2>3
    <3> QED  BY <2>4, <3>1 DEF NodeRow
  <2> HIDE DEF Fits
  <2>8. PICK H : H = {x \in R : x.off = o /\ x.len = n}
    OBVIOUS
  <2>9. CASE H # {}
    <3>1. PICK r : r = (CHOOSE x \in H : TRUE) /\ r \in H
      BY <2>9
    <3>2. r \in R /\ r.off = o /\ r.len = n
      BY <2>8, <3>1
    <3>3. r.cv = NodeOf(in, 0, o, n)
      BY <3>2 DEF IsMerge
    <3>4. NodeAt(R, f, o, n) = r.cv
      BY <2>8, <2>9, <3>1, Zenon DEF NodeAt, NodeFrom
    <3> QED  BY <2>4, <2>7, <3>3, <3>4
  <2>10. CASE H = {} /\ InHole(R, o, n)
    <3>1. NodeAt(R, f, o, n) = ZeroCV(o, n)
      BY <2>8, <2>10, Zenon DEF NodeAt, NodeFrom
    <3>2. \A i \in 1..n : in[o + i] = Zero
      BY <2>6, <2>10, HoleIsZero
    <3>3. o % Chunk = 0
      <4>1. PICK t : FullTree(t) /\ o % t = 0
        BY <2>6 DEF InTree
      <4> QED  BY <2>6, <4>1, CompleteIs, CompleteChunk, CompleteWithin, B3Assumption
    <3>4. ZeroCV(o, n) = NodeOf(in, 0, o, n)
      BY <2>6, <3>2, <3>3, ZeroIs
    <3> QED  BY <2>4, <2>7, <3>1, <3>4
  <2>11. CASE H = {} /\ ~InHole(R, o, n)
    <3>1. \A r \in R : r.off # o \/ r.len # n
      BY <2>8, <2>11
    <3>2. n > Chunk
      <4> SUFFICES ASSUME n <= Chunk PROVE FALSE
        BY <2>6, B3Assumption
      <4> QED  BY <2>6, <2>11, <3>1, ChunkIsHole
    <3>3. PICK s \in Nat : /\ s = SpecLeft(n) /\ s = LeftLen(n) /\ s \in 1..(n - 1)
      BY <2>6, <3>2, LeftLenIsSpecLeft, LeftLenIs
    <3>4. /\ InTree(o, s, Len(in)) /\ InTree(o + s, n - s, Len(in))
      BY <1>1, <2>6, <3>2, <3>3, PartsInTree
    <3>5. Kept(R, o, s) /\ Kept(R, o + s, n - s)
      BY <2>6, <3>1, <3>2, <3>3, PartsKept
    <3>6. f[s][o] = NodeOf(in, 0, o, s)
      <4>1. s \in 0..len /\ s < n /\ Fits(o, s)
        BY <1>1, <2>3, <2>6, <3>3, <3>4, <3>5 DEF Fits
      <4> QED  BY <2>5, <4>1
    <3>7. f[n - s][o + s] = NodeOf(in, 0, o + s, n - s)
      <4>1. o + s \in off..(off + len) /\ n - s \in 0..len /\ n - s < n
        BY <1>1, <2>3, <2>6, <3>3
      <4>2. Fits(o + s, n - s)
        BY <1>1, <2>6, <3>3, <3>4, <3>5 DEF Fits
      <4> QED  BY <2>5, <4>1, <4>2
    <3>8. NodeAt(R, f, o, n) = Join(f[s][o], f[n - s][o + s])
      <4>1. ~(n <= Chunk)
        BY <2>6, <3>2, B3Assumption
      <4> QED  BY <2>8, <2>11, <3>3, <4>1, Zenon DEF NodeAt, NodeFrom
    <3>9. NodeOf(in, 0, o, s) # NoCV /\ NodeOf(in, 0, o + s, n - s) # NoCV
      <4>1. o \in 0..Len(in) /\ s \in 0..Len(in) /\ o + s \in 0..Len(in) /\ n - s \in 0..Len(in)
        BY <1>1, <2>6, <3>3
      <4> QED  BY <4>1, NodeIsNoError
    <3>10. NodeOf(in, 0, o, n) = Parent(NodeOf(in, 0, o, s), NodeOf(in, 0, o + s, n - s))
      <4>1. n \in 0..Len(in) /\ o \in 0..Len(in)
        BY <1>1, <2>6
      <4> QED  BY <3>2, <3>3, <4>1, NodeIs
    <3>11. Join(NodeOf(in, 0, o, s), NodeOf(in, 0, o + s, n - s)) = NodeOf(in, 0, o, n)
      BY <3>9, <3>10, Zenon DEF Join
    <3> QED  BY <2>4, <2>7, <3>6, <3>7, <3>8, <3>11
  <2> QED  BY <2>9, <2>10, <2>11
<1>4. Fits(off, len) /\ len \in 0..len /\ off \in off..(off + len)
  BY <1>1
<1>5. f[len][off] = NodeOf(in, 0, off, len)
  BY <1>3, <1>4
<1> QED  BY <1>2, <1>5

(* What a run is worth: the digest of a file hashed whole, or its node.    *)
Value(in, whole, r) == IF whole THEN SpecTree(in, 0, TRUE) ELSE NodeOf(in, 0, r.off, r.len)

(* That is what hashing its bytes yields.                                  *)
LEMMA RunValueIs ==
  ASSUME NEW B, NEW in \in Seq(B), NEW r, IsRun(r), r.off % Chunk = 0, r.off + r.len <= Len(in),
         NEW m, NEW at \in Nat, Alike(m, at, in, r.off, r.len),
         NEW whole \in BOOLEAN, whole => r.off = 0 /\ r.len = Len(in)
  PROVE  HashRun(whole, Slice(m, at, r.len), r.off) = Value(in, whole, r)
<1>1. PICK o \in Nat, n \in Nat : o = r.off /\ n = r.len
  BY DEF IsRun
<1>2. Wide \in Nat \ {0}
  BY HashEngineAssumption
<1>3. Slice(m, at, n) = Slice(in, o, n)
  BY <1>1, SameSlice
<1>4. CASE whole
  <2>1. Slice(in, o, n) = in
    BY <1>1, <1>4, WholeSlice
  <2>2. Hash(in, Wide) = SpecTree(in, 0, TRUE)
    BY <1>2, HashIsSpecTree
  <2> QED  BY <1>1, <1>3, <1>4, <2>1, <2>2, Zenon DEF HashRun, Value
<1>5. CASE ~whole
  <2>1. Subtree(Slice(in, o, n), o, Wide) = NodeOf(in, 0, o, n)
    BY <1>1, <1>2, SubtreeOfPart
  <2> QED  BY <1>1, <1>3, <1>5, <2>1, Zenon DEF HashRun, Value
<1> QED  BY <1>4, <1>5

-----------------------------------------------------------------------------
(* Where the runs of a file lie.                                           *)

(* The pieces of a file of `size' bytes.                                   *)
ArePieces(size, ps) ==
  /\ \A p \in ps : /\ p.off \in Nat /\ p.len \in Nat \ {0}
                   /\ p.off % Chunk = 0 /\ p.len % Chunk = 0 /\ p.off < size
  /\ \A p, q \in ps : p = q \/ Apart(p, q)

(* A piece that is the whole file.                                         *)
IsWhole(p, size) == p.off = 0 /\ Bytes(size, p) = size

(* Once the pieces ps of it were delivered, a file's runs cover them, in   *)
(* complete trees or the last chunk; or there is one run, the whole file.  *)
Laid(size, ps, h) ==
  IF h.whole
  THEN /\ \E p \in ps : IsWhole(p, size)
       /\ Len(h.runs) = 1 /\ h.runs[1].off = 0 /\ h.runs[1].len = size
  ELSE /\ \A k \in 1..Len(h.runs) :
            /\ Shaped(h.runs[k], size)
            /\ \E p \in ps : Inside(h.runs[k], p.off, Bytes(size, p))
       /\ \A j, k \in 1..Len(h.runs) : j = k \/ Apart(h.runs[j], h.runs[k])
       /\ \A p \in ps :
            /\ ~IsWhole(p, size)
            /\ \A i \in 0..(size - 1) : Owns(p, i) => \E k \in 1..Len(h.runs) : Owns(h.runs[k], i)

(* All runs but those in `waiting' were hashed.                            *)
Valued(in, h, waiting) ==
  \A k \in 1..Len(h.runs) : k \notin waiting => h.runs[k].cv = Value(in, h.whole, h.runs[k])

(* What no piece holds reads as zeros.                                     *)
ZeroElsewhere(in, ps) ==
  \A i \in 1..Len(in) : in[i] = Zero \/ \E p \in ps : Owns(p, i - 1)

(* A digest is no error.                                                   *)
LEMMA DigestIsNoError ==
  ASSUME NEW B, NEW in \in Seq(B)
  PROVE  SpecTree(in, 0, TRUE) # NoCV
<1>1. \A x, y : RootParent(x, y) # NoCV
  <2> SUFFICES ASSUME NEW x, NEW y, RootParent(x, y) = NoCV PROVE FALSE
    OBVIOUS
  <2>1. DOMAIN RootParent(x, y) = DOMAIN NoCV
    OBVIOUS
  <2> QED  BY <2>1 DEF RootParent, Node, NoCV
<1>2. \A x, y : ChunkCV(x, y, TRUE) # NoCV
  <2> SUFFICES ASSUME NEW x, NEW y, ChunkCV(x, y, TRUE) = NoCV PROVE FALSE
    OBVIOUS
  <2>1. DOMAIN ChunkCV(x, y, TRUE) = DOMAIN NoCV
    OBVIOUS
  <2> QED  BY <2>1 DEF ChunkCV, NoCV
<1>3. CASE Len(in) <= Chunk
  <2>1. SpecTree(in, 0, TRUE) = ChunkCV(in, 0, TRUE)
    BY <1>3, Zenon DEF SpecTree
  <2> QED  BY <1>2, <2>1
<1>4. CASE Len(in) > Chunk
  <2>1. PICK l, s : l = Len(in) /\ s = SpecLeft(l)
    OBVIOUS
  <2>2. SpecTree(in, 0, TRUE) = RootParent(NodeOf(in, 0, 0, s), NodeOf(in, 0, s, l - s))
    BY <1>4, <2>1, SpecTreeIs
  <2> QED  BY <1>1, <2>2
<1>5. Len(in) <= Chunk \/ Len(in) > Chunk
  BY LenProperties, B3Assumption
<1> QED  BY <1>3, <1>4, <1>5, Zenon

(* hf_finish of a file all of whose pieces were delivered and hashed.      *)
LEMMA FileDigestIs ==
  ASSUME NEW B, NEW in \in Seq(B), NEW size, size = Len(in),
         NEW ps, ArePieces(size, ps), ZeroElsewhere(in, ps),
         NEW h, IsFile(h), Laid(size, ps, h), Valued(in, h, {})
  PROVE  FileDigest(h, size) = SpecTree(in, 0, TRUE) /\ FileDigest(h, size) # NoCV
<1>1. size \in Nat /\ Chunk \in Nat \ {0} /\ Wide \in Nat \ {0}
  BY LenProperties, B3Assumption, HashEngineAssumption
<1>2. SpecTree(in, 0, TRUE) # NoCV
  BY DigestIsNoError
<1>3. CASE h.whole
  <2>1. Len(h.runs) = 1
    BY <1>3 DEF Laid
  <2>2. h.runs[1].cv = Value(in, h.whole, h.runs[1])
    BY <2>1 DEF Valued
  <2> QED  BY <1>2, <1>3, <2>2 DEF FileDigest, Value
<1>4. CASE ~h.whole /\ size <= Chunk
  <2>1. ps = {}
    <3> SUFFICES ASSUME NEW p \in ps PROVE FALSE
      OBVIOUS
    <3>1. PICK a \in Nat, n \in Nat \ {0} : a = p.off /\ n = p.len
      BY DEF ArePieces
    <3>2. a % Chunk = 0 /\ n % Chunk = 0 /\ a < size
      BY <3>1 DEF ArePieces
    <3>3. a = 0
      <4> SUFFICES ASSUME 0 < a PROVE FALSE
        OBVIOUS
      <4>1. 0 + Chunk <= a
        BY <1>1, <3>2, BoundariesApart
      <4> QED  BY <1>1, <1>4, <3>2, <4>1
    <3>4. 0 + Chunk <= n
      BY <1>1, <3>2, BoundariesApart
    <3>5. Bytes(size, p) = size
      BY <1>1, <1>4, <3>1, <3>3, <3>4 DEF Bytes
    <3> QED  BY <1>4, <3>1, <3>3, <3>5 DEF Laid, IsWhole
  <2>2. \A i \in 1..size : in[0 + i] = Zero
    BY <2>1 DEF ZeroElsewhere
  <2>3. Zeros(size) = Slice(in, 0, size)
    BY <1>1, <2>2, ZerosAre
  <2>4. Zeros(size) = in
    BY <2>3, WholeSlice
  <2>5. Hash(in, Wide) = SpecTree(in, 0, TRUE)
    BY <1>1, HashIsSpecTree
  <2> QED  BY <1>2, <1>4, <2>4, <2>5, Zenon DEF FileDigest
<1>5. CASE ~h.whole /\ ~(size <= Chunk)
  <2>1. PICK R : R = {h.runs[i] : i \in DOMAIN h.runs}
    OBVIOUS
  <2>2. DOMAIN h.runs = 1..Len(h.runs)
    BY DEF IsFile
  <2>3. \A r \in R : \E k \in 1..Len(h.runs) : r = h.runs[k]
    BY <2>1, <2>2
  <2>4. \A k \in 1..Len(h.runs) : h.runs[k] \in R
    BY <2>1, <2>2
  <2>5. IsMerge(R, in)
    <3>1. ASSUME NEW r \in R
          PROVE  IsRun(r) /\ Shaped(r, Len(in)) /\ r.cv = NodeOf(in, 0, r.off, r.len)
      <4>1. PICK k \in 1..Len(h.runs) : r = h.runs[k]
        BY <2>3
      <4>2. IsRun(r) /\ Shaped(r, size)
        BY <1>5, <4>1 DEF IsFile, Laid
      <4>3. r.cv = NodeOf(in, 0, r.off, r.len)
        BY <1>5, <4>1, Zenon DEF Valued, Value
      <4> QED  BY <4>2, <4>3
    <3>2. ASSUME NEW r \in R, NEW s \in R, r # s
          PROVE  Apart(r, s)
      <4>1. PICK j \in 1..Len(h.runs) : r = h.runs[j]
        BY <2>3
      <4>2. PICK k \in 1..Len(h.runs) : s = h.runs[k]
        BY <2>3
      <4> QED  BY <1>5, <3>2, <4>1, <4>2 DEF Laid
    <3>3. ASSUME NEW i \in 1..Len(in), in[i] # Zero
          PROVE  \E r \in R : Owns(r, i - 1)
      <4>1. PICK p \in ps : Owns(p, i - 1)
        BY <3>3 DEF ZeroElsewhere
      <4>2. i - 1 \in 0..(size - 1)
        BY <1>1
      <4>3. PICK k \in 1..Len(h.runs) : Owns(h.runs[k], i - 1)
        BY <1>5, <4>1, <4>2 DEF Laid
      <4> QED  BY <2>4, <4>3
    <3> QED  BY <3>1, <3>2, <3>3 DEF IsMerge
  <2>6. size > Chunk
    BY <1>1, <1>5
  <2>7. InTree(0, size, size)
    BY <1>1, <2>6, RootInTree
  <2>8. \A r \in R : IsRun(r) /\ r.off \in Nat /\ r.len \in Nat \ {0} /\ r.off + r.len <= size
    BY <2>5 DEF IsMerge, IsRun, Shaped
  <2>9. Kept(R, 0, size)
    BY <1>1, <2>8 DEF Kept, Inside
  <2>10. ASSUME NEW r \in R
         PROVE  r.off # 0 \/ r.len # size
    <3> SUFFICES ASSUME r.off = 0, r.len = size PROVE FALSE
      OBVIOUS
    <3>1. PICK k \in 1..Len(h.runs) : r = h.runs[k]
      BY <2>3
    <3>2. PICK p \in ps : Inside(r, p.off, Bytes(size, p))
      BY <1>5, <3>1 DEF Laid
    <3>3. PICK a \in Nat, n \in Nat \ {0} : a = p.off /\ n = p.len
      BY DEF ArePieces
    <3>4. a <= 0 /\ size <= a + Bytes(size, p)
      BY <1>1, <3>2, <3>3 DEF Inside
    <3>5. IsWhole(p, size)
      BY <1>1, <3>3, <3>4 DEF IsWhole, Bytes
    <3> QED  BY <1>5, <3>5 DEF Laid
  <2>11. PICK s \in Nat : s = SpecLeft(size) /\ s = LeftLen(size) /\ s \in 1..(size - 1)
    BY <1>1, <2>6, LeftLenIsSpecLeft, LeftLenIs
  <2>12. InTree(0, s, size) /\ InTree(0 + s, size - s, size)
    BY <1>1, <2>6, <2>7, <2>11, PartsInTree
  <2>13. Kept(R, 0, s) /\ Kept(R, 0 + s, size - s)
    BY <2>5, <2>6, <2>7, <2>9, <2>10, <2>11, PartsKept
  <2>14. 0 + s = s
    OBVIOUS
  <2>15. NodeCV(R, 0, s) = NodeOf(in, 0, 0, s)
    BY <2>5, <2>12, <2>13, NodeCVIs
  <2>16. NodeCV(R, s, size - s) = NodeOf(in, 0, s, size - s)
    BY <2>5, <2>12, <2>13, <2>14, NodeCVIs
  <2>17. NodeOf(in, 0, 0, s) # NoCV /\ NodeOf(in, 0, s, size - s) # NoCV
    BY <1>1, <2>11, NodeIsNoError
  <2>18. SpecTree(in, 0, TRUE) = RootParent(NodeOf(in, 0, 0, s), NodeOf(in, 0, s, size - s))
    BY <2>6, <2>11, SpecTreeIs
  <2>19. FileDigest(h, size) = RootParent(NodeCV(R, 0, s), NodeCV(R, s, size - s))
    BY <1>5, <2>1, <2>11, <2>15, <2>16, <2>17, Zenon DEF FileDigest
  <2> QED  BY <1>2, <2>15, <2>16, <2>18, <2>19
<1> QED  BY <1>3, <1>4, <1>5

(* The runs a piece is cut into, after each other.                         *)
LEMMA CutOrder ==
  ASSUME NEW a \in Nat, NEW b \in Nat, a < b, NEW s, Cuts(s, a, b)
  PROVE  /\ Len(s) \in Nat \ {0}
         /\ \A k \in 1..Len(s) : s[k].off \in Nat /\ s[k].len \in Nat \ {0}
         /\ \A j, k \in 1..Len(s) : j < k => s[j].off + s[j].len <= s[k].off
<1>1. s \in Seq(Run) /\ s # <<>>
  BY DEF Cuts
<1>2. PICK l \in Nat \ {0} : l = Len(s)
  BY <1>1, EmptySeq, LenProperties
<1>3. \A k \in 1..l : s[k].off \in Nat /\ s[k].len \in Nat \ {0}
  <2> SUFFICES ASSUME NEW k \in 1..l PROVE s[k].off \in Nat /\ s[k].len \in Nat \ {0}
    OBVIOUS
  <2>1. s[k] \in Run
    BY <1>1, <1>2, ElementOfSeq
  <2> QED  BY <2>1 DEF Run
<1>4. \A k \in 1..(l - 1) : s[k + 1].off = s[k].off + s[k].len
  BY <1>2 DEF Cuts
<1> DEFINE Good(j, k) == s[j].off + s[j].len <= s[k].off
<1>5. ASSUME NEW j \in 1..l
      PROVE  \A k \in 1..l : j < k => Good(j, k)
  <2> DEFINE Bad == {k \in 1..l : j < k /\ ~Good(j, k)}
  <2> SUFFICES ASSUME Bad # {} PROVE FALSE
    OBVIOUS
  <2>1. Bad \subseteq Nat
    OBVIOUS
  <2> HIDE DEF Bad
  <2>2. PICK k \in Bad : \A m \in Bad : k <= m
    BY <2>1, LeastNumber
  <2>3. k \in 1..l /\ j < k /\ ~Good(j, k)
    BY <2>2 DEF Bad
  <2>4. PICK m \in 1..(l - 1) : k = m + 1
    <3>1. k - 1 \in 1..(l - 1) /\ k = (k - 1) + 1
      BY <1>2, <1>5, <2>3
    <3> QED  BY <3>1
  <2>5. m \in 1..l /\ s[k].off = s[m].off + s[m].len
    BY <1>2, <1>4, <2>4
  <2>6. CASE j = m
    BY <1>3, <2>3, <2>5, <2>6
  <2>7. CASE j # m
    <3>1. j < m /\ m < k
      BY <1>5, <2>3, <2>4, <2>7
    <3>2. m \notin Bad
      BY <2>2, <2>3, <2>4, <3>1
    <3>3. Good(j, m)
      BY <2>5, <3>1, <3>2 DEF Bad
    <3> QED  BY <1>3, <1>5, <2>3, <2>5, <3>3
  <2> QED  BY <2>6, <2>7
<1> QED  BY <1>2, <1>3, <1>5

(* They cover it.                                                          *)
LEMMA CutCovers ==
  ASSUME NEW a \in Nat, NEW b \in Nat, a < b, NEW s, Cuts(s, a, b), NEW i \in Nat, a <= i, i < b
  PROVE  \E k \in 1..Len(s) : Owns(s[k], i)
<1>1. PICK l \in Nat \ {0} : l = Len(s)
  BY CutOrder
<1>2. /\ \A k \in 1..l : s[k].off \in Nat /\ s[k].len \in Nat \ {0}
      /\ \A k \in 1..(l - 1) : s[k + 1].off = s[k].off + s[k].len
      /\ s[1].off = a /\ s[l].off + s[l].len = b
  BY <1>1, CutOrder DEF Cuts
<1> DEFINE S == {k \in 1..l : s[k].off <= i}
<1>3. S \subseteq 0..l /\ S # {}
  <2>1. 1 \in S
    BY <1>1, <1>2
  <2> QED  BY <2>1
<1> HIDE DEF S
<1>4. PICK k \in S : \A m \in S : m <= k
  <2>1. Max(S) \in S /\ \A m \in S : m <= Max(S)
    BY <1>3, MaxIsMember
  <2> QED  BY <2>1
<1>5. k \in 1..l /\ s[k].off <= i
  BY <1>4 DEF S
<1>6. i < s[k].off + s[k].len
  <2>1. CASE k = l
    BY <1>2, <2>1
  <2>2. CASE k # l
    <3>1. k \in 1..(l - 1) /\ k + 1 \in 1..l /\ ~(k + 1 <= k)
      BY <1>1, <1>5, <2>2
    <3>2. k + 1 \notin S
      BY <1>4, <3>1
    <3>3. ~(s[k + 1].off <= i)
      BY <3>1, <3>2 DEF S
    <3> QED  BY <1>2, <1>5, <3>1, <3>3
  <2> QED  BY <2>1, <2>2
<1> QED  BY <1>1, <1>5, <1>6 DEF Owns

(* Each is a complete tree, or the last chunk.                             *)
LEMMA CutShaped ==
  ASSUME NEW a \in Nat, NEW b \in Nat, a < b, NEW s, Cuts(s, a, b),
         NEW size \in Nat, b <= size, a % Chunk = 0, b % Chunk = 0 \/ b = size
  PROVE  \A k \in 1..Len(s) : Shaped(s[k], size)
<1> USE B3Assumption
<1>1. PICK l \in Nat \ {0} : l = Len(s)
  BY CutOrder
<1>2. /\ \A k \in 1..l : s[k].off \in Nat /\ s[k].len \in Nat \ {0} /\ s[k].off + s[k].len <= b
      /\ \A k \in 1..(l - 1) : s[k + 1].off = s[k].off + s[k].len
      /\ s[1].off = a
      /\ \A k \in 1..l : s[k].off < b /\ s[k].len = Min({RunLen(s[k].off, b), b - s[k].off})
  BY ZenonT(60), <1>1, CutOrder DEF Cuts
<1>3. ASSUME NEW k \in 1..l, s[k].off % Chunk = 0
      PROVE  /\ Shaped(s[k], size)
             /\ FullTree(s[k].len) \/ s[k].off + s[k].len = b
  <2>1. PICK o \in Nat, n \in Nat \ {0} : o = s[k].off /\ n = s[k].len
    BY <1>2
  <2>2. o < b /\ o + n <= b /\ o % Chunk = 0
    BY <1>2, <1>3, <2>1
  <2>3. PICK r \in Nat \ {0} : r = RunLen(o, b)
    BY RunLenIs
  <2>4. FullTree(r) /\ (r # Chunk => o % r = 0 /\ o + r <= b)
    BY <2>3, RunLenIs
  <2>5. n = Min({r, b - o})
    BY <1>2, <2>1, <2>3
  <2>6. n \in {r, b - o} /\ n <= r /\ n <= b - o
    <3>1. {r, b - o} \subseteq Nat /\ {r, b - o} # {}
      BY <2>2
    <3>2. Min({r, b - o}) \in {r, b - o} /\ \A x \in {r, b - o} : Min({r, b - o}) <= x
      BY <3>1, MinIsMember
    <3> QED  BY <2>5, <3>2
  <2>7. CASE n = r
    <3>1. o % r = 0
      BY <2>2, <2>4
    <3>2. o + n <= size
      BY <2>2
    <3> QED  BY <1>3, <2>1, <2>4, <2>7, <3>1, <3>2 DEF Shaped
  <2>8. CASE n # r
    <3>1. n = b - o /\ n < r /\ o + n = b
      BY <2>2, <2>6, <2>8
    <3>2. r = Chunk
      BY <2>2, <2>3, <2>4, <3>1
    <3>3. b = size
      <4> SUFFICES ASSUME b % Chunk = 0 PROVE FALSE
        OBVIOUS
      <4>1. o + Chunk <= b
        BY <2>2, BoundariesApart
      <4> QED  BY <3>1, <3>2, <4>1
    <3> QED  BY <1>3, <2>1, <3>1, <3>2, <3>3 DEF Shaped
  <2> QED  BY <2>7, <2>8
<1> DEFINE Bad == {k \in 1..l : s[k].off % Chunk # 0}
<1>4. Bad = {}
  <2> SUFFICES ASSUME Bad # {} PROVE FALSE
    OBVIOUS
  <2>1. Bad \subseteq Nat
    OBVIOUS
  <2> HIDE DEF Bad
  <2>2. PICK k \in Bad : \A m \in Bad : k <= m
    BY <2>1, LeastNumber
  <2>3. k \in 1..l /\ s[k].off % Chunk # 0
    BY <2>2 DEF Bad
  <2>4. PICK m \in 1..(l - 1) : k = m + 1
    <3>1. k # 1
      BY <1>2, <2>3
    <3>2. k - 1 \in 1..(l - 1) /\ k = (k - 1) + 1
      BY <1>1, <2>3, <3>1
    <3> QED  BY <3>2
  <2>5. m \in 1..l /\ m < k
    BY <2>4
  <2>6. m \notin Bad
    BY <2>2, <2>3, <2>5
  <2>7. s[m].off % Chunk = 0
    BY <2>5, <2>6 DEF Bad
  <2>8. PICK o \in Nat, n \in Nat \ {0} : o = s[m].off /\ n = s[m].len
    BY <1>2, <2>5
  <2>9. s[k].off = o + n /\ o + n < b
    BY <1>2, <2>3, <2>4, <2>8
  <2>10. FullTree(n)
    BY <1>3, <2>5, <2>7, <2>8, <2>9
  <2>11. n % Chunk = 0
    <3>1. n % n = 0
      OBVIOUS
    <3>2. Chunk <= n
      BY <2>10, CompleteIs
    <3> QED  BY <2>10, <3>1, <3>2, CompleteChunk, CompleteWithin
  <2>12. (o + n) % Chunk = 0
    BY ZenonT(60), <2>7, <2>8, <2>11, DivPlus
  <2> QED  BY <2>3, <2>9, <2>12
<1> QED  BY <1>1, <1>3, <1>4

(* The runs that deliver() cuts a piece into.                              *)
RowOf(size, e, row) ==
  /\ Len(row) \in Nat
  /\ \A k \in 1..Len(row) :
       /\ row[k].off \in Nat /\ row[k].len \in Nat \ {0} /\ row[k].off % Chunk = 0
       /\ Inside(row[k], e.off, Bytes(size, e))
  /\ IsWhole(e, size) => Len(row) = 1 /\ row[1].off = 0 /\ row[1].len = size
  /\ ~IsWhole(e, size) =>
       /\ \A k \in 1..Len(row) : Shaped(row[k], size)
       /\ \A j, k \in 1..Len(row) : j = k \/ Apart(row[j], row[k])
       /\ \A i \in 0..(size - 1) : Owns(e, i) => \E k \in 1..Len(row) : Owns(row[k], i)

(* How many bytes of a piece are the file's.                               *)
LEMMA BytesAre ==
  ASSUME NEW size \in Nat, NEW ps, ArePieces(size, ps), NEW e \in ps
  PROVE  /\ e.off \in Nat /\ e.len \in Nat \ {0} /\ e.off < size
         /\ e.off % Chunk = 0 /\ e.len % Chunk = 0
         /\ Bytes(size, e) \in 1..e.len /\ e.off + Bytes(size, e) <= size
         /\ Bytes(size, e) = e.len \/ e.off + Bytes(size, e) = size
<1>1. /\ e.off \in Nat /\ e.len \in Nat \ {0} /\ e.off < size
      /\ e.off % Chunk = 0 /\ e.len % Chunk = 0
  BY DEF ArePieces
<1>2. PICK a \in Nat, l \in Nat \ {0} : a = e.off /\ l = e.len /\ a < size
  BY <1>1
<1>3. Bytes(size, e) = IF a + l <= size THEN l ELSE size - a
  BY <1>2 DEF Bytes
<1> QED  BY <1>1, <1>2, <1>3

(* The pieces deliver() hashes are cut like that.                          *)
LEMMA RowIs ==
  ASSUME NEW size \in Nat, NEW ps, ArePieces(size, ps), NEW e \in ps,
         NEW whole \in BOOLEAN, whole = IsWhole(e, size),
         NEW row, row = IF whole THEN <<[off |-> 0, len |-> Bytes(size, e)]>>
                        ELSE Cut(e.off, e.off + Bytes(size, e))
  PROVE  RowOf(size, e, row)
<1>1. PICK a \in Nat, l \in Nat \ {0}, n \in Nat \ {0} :
        /\ a = e.off /\ l = e.len /\ n = Bytes(size, e)
        /\ n <= l /\ a + n <= size /\ a % Chunk = 0 /\ l % Chunk = 0
        /\ n = l \/ a + n = size
  BY BytesAre
<1>2. CASE whole
  <2>1. a = 0 /\ n = size
    BY <1>1, <1>2 DEF IsWhole
  <2>2. PICK r : r = [off |-> 0, len |-> n]
    OBVIOUS
  <2>3. row = <<r>> /\ Len(row) = 1 /\ row[1] = r /\ r.off = 0 /\ r.len = n
    BY <1>1, <1>2, <2>2
  <2>4. 0 % Chunk = 0
    BY B3Assumption
  <2>5. Inside(r, e.off, Bytes(size, e))
    BY <1>1, <2>1, <2>3 DEF Inside
  <2>6. \A k \in 1..Len(row) : k = 1
    <3>1. \A k \in 1..1 : k = 1
      OBVIOUS
    <3>2. Len(row) = 1
      BY <2>3
    <3> QED  BY <3>1, <3>2
  <2>7. IsWhole(e, size)
    BY <1>2, Zenon
  <2> QED  BY <1>1, <2>1, <2>3, <2>4, <2>5, <2>6, <2>7 DEF RowOf
<1>3. CASE ~whole
  <2>1. PICK b \in Nat : b = a + n /\ a < b /\ b <= size
    BY <1>1
  <2>2. row = Cut(a, b)
    BY <1>1, <1>3, <2>1
  <2>3. Cuts(row, a, b)
    BY <2>1, <2>2, CutIs
  <2>4. b % Chunk = 0 \/ b = size
    <3>1. CASE n = l
      <4>1. n % Chunk = 0 /\ Chunk \in Nat \ {0}
        BY <1>1, <3>1, B3Assumption
      <4>2. (a + n) % Chunk = 0
        BY <1>1, <4>1, DivPlus
      <4> QED  BY <2>1, <4>2
    <3>2. CASE a + n = size
      BY <2>1, <3>2
    <3> QED  BY <1>1, <3>1, <3>2
  <2>5. \A k \in 1..Len(row) : Shaped(row[k], size)
    BY <1>1, <2>1, <2>3, <2>4, CutShaped
  <2>6. PICK m \in Nat \ {0} : m = Len(row)
    BY <2>1, <2>3, CutOrder
  <2>7. /\ \A k \in 1..m : row[k].off \in Nat /\ row[k].len \in Nat \ {0}
        /\ \A j, k \in 1..m : j < k => row[j].off + row[j].len <= row[k].off
    BY SMTT(60), <2>1, <2>3, <2>6, CutOrder
  <2>8. \A k \in 1..m : a <= row[k].off /\ row[k].off + row[k].len <= b
    BY <2>3, <2>6 DEF Cuts
  <2>9. \A k \in 1..m : Inside(row[k], e.off, Bytes(size, e))
    BY <1>1, <2>1, <2>8 DEF Inside
  <2>10. ASSUME NEW j \in 1..m, NEW k \in 1..m
         PROVE  j = k \/ Apart(row[j], row[k])
    <3>1. j = k \/ j < k \/ k < j
      OBVIOUS
    <3> QED  BY <2>7, <3>1 DEF Apart
  <2>11. ASSUME NEW i \in 0..(size - 1), Owns(e, i)
         PROVE  \E k \in 1..m : Owns(row[k], i)
    <3>1. i \in Nat /\ a <= i /\ i < b
      <4>1. a <= i /\ i < a + l /\ i < size
        BY <1>1, <2>11 DEF Owns
      <4> QED  BY <1>1, <2>1, <4>1
    <3> QED  BY <2>1, <2>3, <2>6, <3>1, CutCovers
  <2>12. \A k \in 1..m : row[k].off % Chunk = 0
    BY <2>5, <2>6 DEF Shaped
  <2> QED  BY <1>3, <2>5, <2>6, <2>7, <2>9, <2>10, <2>11, <2>12 DEF RowOf
<1> QED  BY <1>2, <1>3

(* g is h with `add' behind its runs.                                      *)
Grown(h, g, add) ==
  /\ Len(h.runs) \in Nat /\ Len(add) \in Nat
  /\ Len(g.runs) = Len(h.runs) + Len(add)
  /\ \A k \in 1..Len(h.runs) : g.runs[k] = h.runs[k]
  /\ \A k \in 1..Len(add) : g.runs[Len(h.runs) + k] = add[k]

(* Each run was there or is new.                                           *)
LEMMA GrownRuns ==
  ASSUME NEW h, NEW g, NEW add, Grown(h, g, add), NEW x \in 1..Len(g.runs)
  PROVE  \/ x \in 1..Len(h.runs) /\ g.runs[x] = h.runs[x]
         \/ \E k \in 1..Len(add) : x = Len(h.runs) + k /\ g.runs[x] = add[k]
<1>1. PICK l \in Nat, m \in Nat : l = Len(h.runs) /\ m = Len(add) /\ x \in 1..(l + m)
  BY DEF Grown
<1>2. CASE x <= l
  BY <1>1, <1>2 DEF Grown
<1>3. CASE ~(x <= l)
  <2>1. x - l \in 1..m /\ x = l + (x - l)
    BY <1>1, <1>3
  <2> QED  BY <1>1, <2>1 DEF Grown
<1> QED  BY <1>2, <1>3

(* With one piece more, the runs of a file still cover what was delivered. *)
LEMMA LaidMore ==
  ASSUME NEW size \in Nat, NEW ps, NEW e, e \notin ps, ArePieces(size, ps \cup {e}),
         NEW h, IsFile(h), Laid(size, ps, h),
         NEW row, RowOf(size, e, row),
         NEW add, Len(add) = Len(row),
         \A k \in 1..Len(row) : add[k].off = row[k].off /\ add[k].len = row[k].len,
         NEW g, Grown(h, g, add), g.whole = IsWhole(e, size)
  PROVE  /\ Laid(size, ps \cup {e}, g)
         /\ g.whole => Len(h.runs) = 0
         /\ ~h.whole
<1>1. PICK l \in Nat, m \in Nat : l = Len(h.runs) /\ m = Len(add) /\ m = Len(row)
  BY DEF Grown
<1>2. e \in ps \cup {e} /\ \A p \in ps : p \in ps \cup {e}
  OBVIOUS
<1>3. \A p \in ps \cup {e} : /\ p.off \in Nat /\ p.len \in Nat \ {0} /\ p.off < size
                             /\ Bytes(size, p) \in 1..p.len /\ p.off + Bytes(size, p) <= size
  BY BytesAre
<1>4. \A p \in ps : Apart(p, e) /\ Apart(e, p)
  <2>1. \A p, q \in ps \cup {e} : p = q \/ Apart(p, q)
    BY DEF ArePieces
  <2> QED  BY <1>2, <2>1
<1>5. ASSUME NEW p \in ps \cup {e}, NEW q \in ps \cup {e}, Apart(p, q)
      PROVE  ~IsWhole(p, size)
  <2> SUFFICES ASSUME IsWhole(p, size) PROVE FALSE
    OBVIOUS
  <2>1. PICK a \in Nat, k \in Nat \ {0}, b \in Nat, j \in Nat \ {0} :
          a = p.off /\ k = p.len /\ b = q.off /\ j = q.len
    BY <1>3
  <2>2. a = 0 /\ size <= k /\ b < size
    BY <1>3, <2>1 DEF IsWhole
  <2>3. a + k <= b \/ b + j <= a
    BY <1>5, <2>1 DEF Apart
  <2> QED  BY <2>1, <2>2, <2>3
<1>6. ~h.whole
  <2> SUFFICES ASSUME h.whole PROVE FALSE
    OBVIOUS
  <2>1. PICK p \in ps : IsWhole(p, size)
    BY DEF Laid
  <2> QED  BY <1>2, <1>4, <1>5, <2>1
<1>7. /\ \A k \in 1..l :
           /\ Shaped(h.runs[k], size)
           /\ \E p \in ps : Inside(h.runs[k], p.off, Bytes(size, p))
      /\ \A j, k \in 1..l : j = k \/ Apart(h.runs[j], h.runs[k])
      /\ \A p \in ps :
           /\ ~IsWhole(p, size)
           /\ \A i \in 0..(size - 1) : Owns(p, i) => \E k \in 1..l : Owns(h.runs[k], i)
  BY <1>1, <1>6 DEF Laid
<1>8. ASSUME IsWhole(e, size)
      PROVE  l = 0 /\ Laid(size, ps \cup {e}, g)
  <2>1. ps = {}
    <3> SUFFICES ASSUME NEW p \in ps PROVE FALSE
      OBVIOUS
    <3> QED  BY <1>2, <1>4, <1>5, <1>8
  <2>2. l = 0
    <3> SUFFICES ASSUME l # 0 PROVE FALSE
      OBVIOUS
    <3>1. 1 \in 1..l
      BY <1>1
    <3> QED  BY <1>7, <2>1, <3>1
  <2>3. m = 1 /\ row[1].off = 0 /\ row[1].len = size
    BY <1>1, <1>8 DEF RowOf
  <2>4. Len(g.runs) = 1 /\ g.runs[1] = add[1]
    <3>1. 1 \in 1..m /\ l + 1 = 1 /\ l + m = 1
      BY <2>2, <2>3
    <3> QED  BY <1>1, <3>1 DEF Grown
  <2>5. 1 \in 1..Len(row)
    BY <1>1, <2>3
  <2> QED  BY <1>8, <2>2, <2>3, <2>4, <2>5 DEF Laid
<1>9. ASSUME ~IsWhole(e, size)
      PROVE  Laid(size, ps \cup {e}, g)
  <2>1. /\ \A k \in 1..m : /\ Shaped(row[k], size)
                           /\ row[k].off \in Nat /\ row[k].len \in Nat
                           /\ Inside(row[k], e.off, Bytes(size, e))
        /\ \A j, k \in 1..m : j = k \/ Apart(row[j], row[k])
        /\ \A i \in 0..(size - 1) : Owns(e, i) => \E k \in 1..m : Owns(row[k], i)
    BY <1>1, <1>9 DEF RowOf
  <2>2. /\ \A k \in 1..m : /\ Shaped(add[k], size)
                           /\ add[k].off \in Nat /\ add[k].len \in Nat
                           /\ Inside(add[k], e.off, Bytes(size, e))
        /\ \A j, k \in 1..m : j = k \/ Apart(add[j], add[k])
        /\ \A i \in 0..(size - 1) : Owns(e, i) => \E k \in 1..m : Owns(add[k], i)
    <3>1. \A k \in 1..m : add[k].off = row[k].off /\ add[k].len = row[k].len
      BY <1>1
    <3>2. \A k \in 1..m : /\ Shaped(add[k], size)
                           /\ add[k].off \in Nat /\ add[k].len \in Nat
                           /\ Inside(add[k], e.off, Bytes(size, e))
      BY <2>1, <3>1 DEF Shaped, Inside
    <3>3. \A j, k \in 1..m : j = k \/ Apart(add[j], add[k])
      BY <2>1, <3>1 DEF Apart
    <3>4. \A i : \A k \in 1..m : Owns(row[k], i) => Owns(add[k], i)
      BY <3>1 DEF Owns
    <3> QED  BY <2>1, <3>2, <3>3, <3>4
  <2>3. ASSUME NEW x \in 1..Len(g.runs)
        PROVE  /\ Shaped(g.runs[x], size)
               /\ \E p \in ps \cup {e} : Inside(g.runs[x], p.off, Bytes(size, p))
    <3>1. CASE x \in 1..l /\ g.runs[x] = h.runs[x]
      BY <1>2, <1>7, <3>1
    <3>2. ASSUME NEW k \in 1..m, x = l + k, g.runs[x] = add[k]
          PROVE  /\ Shaped(g.runs[x], size)
                 /\ \E p \in ps \cup {e} : Inside(g.runs[x], p.off, Bytes(size, p))
      BY <1>2, <2>2, <3>2
    <3>3. \/ x \in 1..l /\ g.runs[x] = h.runs[x]
          \/ \E k \in 1..m : x = l + k /\ g.runs[x] = add[k]
      BY <1>1, GrownRuns
    <3> QED  BY <3>1, <3>2, <3>3, Zenon
  <2>4. ASSUME NEW j \in 1..l, NEW k \in 1..m
        PROVE  Apart(h.runs[j], add[k]) /\ Apart(add[k], h.runs[j])
    <3>1. PICK p \in ps : Inside(h.runs[j], p.off, Bytes(size, p))
      BY <1>7
    <3>2. Inside(add[k], e.off, Bytes(size, e)) /\ add[k].off \in Nat /\ add[k].len \in Nat
      BY <2>2
    <3>3. Apart(p, e)
      BY <1>4
    <3>4. PICK a \in Nat, i \in Nat, b \in Nat :
            a = p.off /\ i = p.len /\ b = Bytes(size, p) /\ b <= i
      <4>1. p.off \in Nat /\ p.len \in Nat /\ Bytes(size, p) \in 1..p.len
        BY <1>2, <1>3
      <4> QED  BY <4>1
    <3>e. PICK c \in Nat, d \in Nat, f \in Nat :
            c = e.off /\ d = e.len /\ f = Bytes(size, e) /\ f <= d
      <4>1. e.off \in Nat /\ e.len \in Nat /\ Bytes(size, e) \in 1..e.len
        BY <1>2, <1>3
      <4> QED  BY <4>1
    <3>5. a + i <= c \/ c + d <= a
      BY <3>3, <3>4, <3>e DEF Apart
    <3>6. PICK u \in Nat, v \in Nat, w \in Nat, t \in Nat :
            /\ u = h.runs[j].off /\ v = h.runs[j].len
            /\ w = add[k].off /\ t = add[k].len
      <4>1. IsRun(h.runs[j])
        BY <1>1 DEF IsFile
      <4> QED  BY <3>2, <4>1 DEF IsRun
    <3>7. a <= u /\ u + v <= a + b /\ c <= w /\ w + t <= c + f
      BY <3>1, <3>2, <3>4, <3>6, <3>e DEF Inside
    <3>8. u + v <= w \/ w + t <= u
      <4>1. b <= i /\ f <= d
        BY <3>4, <3>e
      <4>2. CASE a + i <= c
        BY <3>7, <4>1, <4>2
      <4>3. CASE c + d <= a
        BY <3>7, <4>1, <4>3
      <4> QED  BY <3>5, <4>2, <4>3
    <3> QED  BY <3>6, <3>8 DEF Apart
  <2>5. ASSUME NEW x \in 1..Len(g.runs), NEW y \in 1..Len(g.runs)
        PROVE  x = y \/ Apart(g.runs[x], g.runs[y])
    <3>0. \A z \in 1..Len(g.runs) :
            \/ z \in 1..l /\ g.runs[z] = h.runs[z]
            \/ \E k \in 1..m : z = l + k /\ g.runs[z] = add[k]
      <4> SUFFICES ASSUME NEW z \in 1..Len(g.runs)
                   PROVE  \/ z \in 1..l /\ g.runs[z] = h.runs[z]
                          \/ \E k \in 1..m : z = l + k /\ g.runs[z] = add[k]
        OBVIOUS
      <4>1. \/ z \in 1..Len(h.runs) /\ g.runs[z] = h.runs[z]
            \/ \E k \in 1..Len(add) : z = Len(h.runs) + k /\ g.runs[z] = add[k]
        BY GrownRuns
      <4> QED  BY <1>1, <4>1, Zenon
    <3>1. \/ x \in 1..l /\ g.runs[x] = h.runs[x]
          \/ \E k \in 1..m : x = l + k /\ g.runs[x] = add[k]
      BY <3>0
    <3>2. \/ y \in 1..l /\ g.runs[y] = h.runs[y]
          \/ \E k \in 1..m : y = l + k /\ g.runs[y] = add[k]
      BY <3>0
    <3> QED  BY <1>7, <2>2, <2>4, <3>1, <3>2
  <2>6. ASSUME NEW p \in ps \cup {e}, NEW i \in 0..(size - 1), Owns(p, i)
        PROVE  \E x \in 1..Len(g.runs) : Owns(g.runs[x], i)
    <3>1. CASE p \in ps
      <4>1. PICK k \in 1..l : Owns(h.runs[k], i)
        BY <1>7, <2>6, <3>1
      <4>2. k \in 1..(l + m) /\ g.runs[k] = h.runs[k] /\ Len(g.runs) = l + m
        BY <1>1 DEF Grown
      <4> QED  BY <4>1, <4>2
    <3>2. CASE p = e
      <4>1. PICK k \in 1..m : Owns(add[k], i)
        BY <2>2, <2>6, <3>2
      <4>2. l + k \in 1..(l + m)
        BY <1>1
      <4>3. g.runs[l + k] = add[k] /\ Len(g.runs) = l + m
        BY <1>1 DEF Grown
      <4> QED  BY <4>1, <4>2, <4>3
    <3> QED  BY <3>1, <3>2
  <2>7. \A p \in ps \cup {e} : ~IsWhole(p, size)
    BY <1>7, <1>9
  <2> QED  BY <1>9, <2>3, <2>5, <2>6, <2>7 DEF Laid
<1> QED  BY <1>1, <1>6, <1>8, <1>9

-----------------------------------------------------------------------------
(* What becomes of a file.                                                 *)

(* The runs whose jobs no thread has hashed yet.                           *)
WaitingJobs == IF pc = "hash" THEN unhashed ELSE DOMAIN jobs
Waiting(f) == {jobs[i].i : i \in {j \in WaitingJobs : jobs[j].f = f}}

(* The runs of a file that is not finished cover what was delivered of it, *)
(* and are worth what their bytes are.                                     *)
FileRuns(f) ==
  /\ Laid(Size(f), vol[f].data \ todo[f], hf[f])
  /\ Valued(Content(f), hf[f], Waiting(f))

(* A file is open before its data, and finished, or about to be, after it. *)
Awaited(f) == \E k \in 1..Len(done) : done[k] = f
FileEnds(f) ==
  /\ hf[f].done \in BOOLEAN /\ hf[f].whole \in BOOLEAN
  /\ ~hf[f].open => hf[f] = NewFile /\ todo[f] = vol[f].data
  /\ hf[f].done => hf[f].open /\ todo[f] = {}
  /\ Awaited(f) => hf[f].open /\ todo[f] = {} /\ ~hf[f].done
  /\ hf[f].open /\ todo[f] = {} => hf[f].done \/ Awaited(f)

(* No file waits to be finished twice.                                     *)
DoneOnce == \A j, k \in 1..Len(done) : done[j] = done[k] => j = k

(* After the last flush there is nothing left to finish.                   *)
LastInv ==
  /\ pc = "check" \/ (pc \in {"hash", "finish"} /\ cur = NoCur) =>
       \A f \in File : hf[f].open /\ todo[f] = {}
  /\ pc = "check" => done = <<>>

(* The records are those of the finished files, and right.                 *)
Recorded(f) == [ino |-> f, digest |-> SpecTree(Content(f), 0, TRUE)]
RecsInv == recs \in Seq({Recorded(f) : f \in {g \in File : hf[g].done}})

FilesInv == \A f \in File : FileEnds(f) /\ (hf[f].done \/ FileRuns(f))
DInv == pc # "dead" /\ FilesInv /\ DoneOnce /\ LastInv /\ RecsInv

(* What a step records: one file that was not recorded yet, or none.       *)
Records == \E f \in File : ~hf[f].done /\ recs' = Append(recs, Recorded(f))

-----------------------------------------------------------------------------
(* A file's bytes.                                                         *)
FileBytes(f) == {Byte(f, i) : i \in Nat}
(* What a file is made of.                                                 *)
LEMMA ContentIs ==
  ASSUME InputOK, NEW f \in File
  PROVE  /\ Content(f) \in Seq(FileBytes(f)) /\ Len(Content(f)) = Size(f)
         /\ Size(f) \in Nat
         /\ ArePieces(Size(f), vol[f].data)
         /\ ZeroElsewhere(Content(f), vol[f].data)
<1>1. PICK n \in Nat : n = Size(f)
  BY FileIs
<1>2. Content(f) = [i \in 1..n |-> Byte(f, i - 1)]
  BY <1>1 DEF Content
<1>3. \A i \in 1..n : Byte(f, i - 1) \in FileBytes(f)
  <2> SUFFICES ASSUME NEW i \in 1..n PROVE Byte(f, i - 1) \in FileBytes(f)
    OBVIOUS
  <2>1. i - 1 \in Nat
    OBVIOUS
  <2> QED  BY <2>1 DEF FileBytes
<1>4. Content(f) \in [1..n -> FileBytes(f)]
  BY <1>2, <1>3
<1>5. Content(f) \in Seq(FileBytes(f)) /\ Len(Content(f)) = n
  <2>1. PICK s : s = Content(f)
    OBVIOUS
  <2>2. s \in Seq(FileBytes(f))
    BY <1>4, <2>1, SeqDef
  <2>3. Len(s) = n
    <3>1. DOMAIN s = 1..n
      BY <1>4, <2>1
    <3> QED  BY <1>1, <2>2, <3>1, LenProperties
  <2> QED  BY <2>1, <2>2, <2>3
<1>6. ZeroElsewhere(Content(f), vol[f].data)
  <2> SUFFICES ASSUME NEW i \in 1..n
               PROVE  Content(f)[i] = Zero \/ \E p \in vol[f].data : Owns(p, i - 1)
    BY <1>5 DEF ZeroElsewhere
  <2>1. Content(f)[i] = Byte(f, i - 1)
    BY <1>2
  <2> QED  BY <2>1 DEF Byte
<1>7. ArePieces(Size(f), vol[f].data)
  <2>1. /\ \A p \in vol[f].data : p.off % Chunk = 0 /\ p.len % Chunk = 0 /\ p.off < vol[f].size
        /\ \A p, q \in vol[f].data : p = q \/ p.off + p.len <= q.off \/ q.off + q.len <= p.off
    <3>1. f \in DOMAIN vol
      BY VolumeIs, LenProperties DEF File
    <3> QED  BY <3>1, VolumeIs DEF IsVolume
  <2>2. \A p \in vol[f].data : p.off \in Nat /\ p.len \in Nat \ {0}
    BY FileIs
  <2> QED  BY <2>1, <2>2 DEF ArePieces, Apart, Size
<1> QED  BY <1>1, <1>5, <1>6, <1>7

(* Pieces have bytes.                                                      *)
LEMMA NothingLeft ==
  ASSUME InputOK, NEW f \in File, NEW ps \in SUBSET vol[f].data
  PROVE  SumBytes(Size(f), ps) = 0 <=> ps = {}
<1>1. Counted(Size(f), ps)
  BY FileIs
<1>2. ps = {} => SumBytes(Size(f), ps) = 0
  BY <1>1, SumSome
<1>3. ASSUME NEW p \in ps
      PROVE  SumBytes(Size(f), ps) # 0
  <2>1. Bytes(Size(f), p) \in Nat \ {0}
    BY FileIs
  <2>2. Counted(Size(f), ps \ {p})
    <3>1. ps \ {p} \in SUBSET vol[f].data
      OBVIOUS
    <3> QED  BY <3>1, FileIs
  <2>3. SumBytes(Size(f), ps \ {p}) \in Nat
    BY <2>2, SumSome
  <2>4. SumBytes(Size(f), ps) = Bytes(Size(f), p) + SumBytes(Size(f), ps \ {p})
    BY <1>1, SumWithout
  <2> QED  BY <2>1, <2>3, <2>4
<1> QED  BY <1>2, <1>3

(* hf_finish of a file whose data is all there does not die.               *)
LEMMA FinishRecords ==
  ASSUME InputOK, NEW f \in File, NEW h, IsFile(h),
         Laid(Size(f), vol[f].data, h), Valued(Content(f), h, {}),
         NEW next, Finish(f, h, next)
  PROVE  /\ pc' = next /\ hf' = [hf EXCEPT ![f] = Finished(h)]
         /\ recs' = Append(recs, Recorded(f))
<1>1. /\ Content(f) \in Seq(FileBytes(f)) /\ Size(f) = Len(Content(f))
      /\ ArePieces(Size(f), vol[f].data) /\ ZeroElsewhere(Content(f), vol[f].data)
  BY ContentIs
<1>2. PICK B, in, size, ps : B = FileBytes(f) /\ in = Content(f) /\ size = Size(f) /\ ps = vol[f].data
  OBVIOUS
<1>3. FileDigest(h, size) = SpecTree(in, 0, TRUE) /\ FileDigest(h, size) # NoCV
  BY <1>1, <1>2, FileDigestIs
<1>4. /\ recs' = Append(recs, [ino |-> f, digest |-> FileDigest(h, Size(f))])
      /\ hf' = [hf EXCEPT ![f] = Finished(h)]
      /\ pc' = next
  BY <1>2, <1>3, Zenon DEF Finish
<1> QED  BY <1>2, <1>3, <1>4 DEF Recorded

-----------------------------------------------------------------------------
(* What a step leaves alone.                                               *)
LEMMA SameContent ==
  ASSUME UNCHANGED <<threads, vol>>
  PROVE  /\ \A f : Content(f)' = Content(f) /\ Recorded(f)' = Recorded(f)
         /\ InputOK' = InputOK /\ File' = File
<1>1. \A f : Size(f)' = Size(f) /\ \A i : Byte(f, i)' = Byte(f, i)
  BY SameVolume
<1>2. \A f : Content(f)' = Content(f)
  BY <1>1 DEF Content
<1> QED  BY <1>2, SameVolume DEF Recorded

(* A file no step touches stays as right as it was.                        *)
LEMMA FileStays ==
  ASSUME UNCHANGED <<threads, vol>>, NEW f \in File,
         FileEnds(f), hf[f].done \/ FileRuns(f),
         hf'[f] = hf[f], todo'[f] = todo[f], Awaited(f)' <=> Awaited(f),
         Waiting(f)' = Waiting(f)
  PROVE  FileEnds(f)' /\ (hf'[f].done \/ FileRuns(f)')
<1>1. Size(f)' = Size(f) /\ Content(f)' = Content(f) /\ vol' = vol
  BY SameVolume, SameContent
<1>2. NewFile' = NewFile
  BY DEF NewFile
<1>3. FileEnds(f)'
  BY <1>1, <1>2 DEF FileEnds
<1>4. FileRuns(f) => FileRuns(f)'
  BY <1>1 DEF FileRuns
<1> QED  BY <1>3, <1>4

(* Records stay right as long as no file is opened again.                  *)
LEMMA RecsStay ==
  ASSUME UNCHANGED <<threads, vol>>, RecsInv,
         \A f \in File : hf[f].done => hf'[f].done,
         \/ recs' = recs
         \/ \E f \in File : hf'[f].done /\ recs' = Append(recs, Recorded(f))
  PROVE  RecsInv'
<1> DEFINE S == {Recorded(f) : f \in {g \in File : hf[g].done}}
           T == {Recorded(f) : f \in {g \in File : hf'[g].done}}
<1>1. S \subseteq T
  OBVIOUS
<1>2. RecsInv' <=> recs' \in Seq(T)
  <2>1. {Recorded(f)' : f \in {g \in File' : hf'[g].done}} = T
    BY SameContent
  <2> QED  BY <2>1 DEF RecsInv
<1>3. recs \in Seq(S)
  BY DEF RecsInv
<1>4. \A f \in File : hf'[f].done => Recorded(f) \in T
  OBVIOUS
<1> HIDE DEF S, T
<1>5. recs \in Seq(T)
  <2>1. recs \in [1..Len(recs) -> S] /\ Len(recs) \in Nat
    BY <1>3, LenProperties
  <2>2. recs \in [1..Len(recs) -> T]
    BY <1>1, <2>1
  <2> QED  BY <2>1, <2>2, SeqDef
<1>6. \A x \in T : Append(recs, x) \in Seq(T)
  BY <1>5, AppendProperties
<1> QED  BY <1>2, <1>4, <1>5, <1>6

(* A step that only moves on.                                              *)
LEMMA MovesOn ==
  ASSUME DInv, UNCHANGED <<threads, vol, todo, hf, done, recs>>,
         \A f \in File : Waiting(f)' = Waiting(f),
         pc' # "dead", LastInv'
  PROVE  DInv'
<1>1. FilesInv'
  <2> SUFFICES ASSUME NEW f \in File
               PROVE  FileEnds(f)' /\ (hf'[f].done \/ FileRuns(f)')
    BY SameContent DEF FilesInv
  <2>1. FileEnds(f) /\ (hf[f].done \/ FileRuns(f))
    BY DEF DInv, FilesInv
  <2>2. Awaited(f)' <=> Awaited(f)
    BY DEF Awaited
  <2> QED  BY <2>1, <2>2, FileStays
<1>2. DoneOnce'
  BY DEF DInv, DoneOnce
<1>3. RecsInv'
  BY RecsStay DEF DInv
<1> QED  BY <1>1, <1>2, <1>3 DEF DInv

(* The jobs that wait decide which runs do.                                *)
LEMMA WaitingStays ==
  ASSUME jobs' = jobs, WaitingJobs' = WaitingJobs
  PROVE  \A f \in File : Waiting(f)' = Waiting(f)
BY DEF Waiting

(* No file is finished, and none has data, at the start.                   *)
LEMMA EmptyLaid ==
  /\ LET h == [NewFile EXCEPT !.open = TRUE]
     IN /\ h.open /\ ~h.whole /\ ~h.done /\ h.whole \in BOOLEAN /\ h.done \in BOOLEAN
        /\ Finished(h).open /\ Finished(h).done /\ Finished(h).done \in BOOLEAN
        /\ Finished(h).whole \in BOOLEAN
        /\ \A size, in, w : Laid(size, {}, h) /\ Valued(in, h, w)
  /\ ~NewFile.open /\ ~NewFile.whole /\ ~NewFile.done
  /\ \A size, in, w : Laid(size, {}, NewFile) /\ Valued(in, NewFile, w)
<1> DEFINE h == [NewFile EXCEPT !.open = TRUE]
<1>1. /\ h.open /\ ~h.whole /\ ~h.done /\ h.whole = FALSE /\ h.done = FALSE /\ h.runs = <<>>
      /\ Finished(h).open /\ Finished(h).done = TRUE /\ Finished(h).whole = FALSE
  BY DEF NewFile, Finished
<1>2. ~NewFile.open /\ ~NewFile.whole /\ ~NewFile.done /\ NewFile.runs = <<>>
  BY DEF NewFile
<1>3. ASSUME NEW g, g.runs = <<>>, ~g.whole, NEW size, NEW in, NEW w
      PROVE  Laid(size, {}, g) /\ Valued(in, g, w)
  <2>1. Len(g.runs) = 0 /\ \A k \in 1..Len(g.runs) : FALSE
    BY <1>3
  <2> QED  BY <1>3, <2>1 DEF Laid, Valued
<1> HIDE DEF h
<1>4. /\ h.open /\ ~h.whole /\ ~h.done /\ h.whole \in BOOLEAN /\ h.done \in BOOLEAN
      /\ Finished(h).open /\ Finished(h).done /\ Finished(h).done \in BOOLEAN
      /\ Finished(h).whole \in BOOLEAN
  BY <1>1
<1>5. \A size, in, w : Laid(size, {}, h) /\ Valued(in, h, w)
  BY <1>1, <1>3
<1>6. \A size, in, w : Laid(size, {}, NewFile) /\ Valued(in, NewFile, w)
  BY <1>2, <1>3
<1> QED  BY <1>2, <1>4, <1>5, <1>6 DEF h

(* At the start no file has data.                                          *)
LEMMA InitGood == Init => DInv
<1> SUFFICES ASSUME Init PROVE DInv
  OBVIOUS
<1>1. pc = "method" /\ done = <<>> /\ recs = <<>>
  BY DEF Init
<1>2. \A f \in File : todo[f] = vol[f].data /\ hf[f] = NewFile
  BY DEF Init
<1>3. FilesInv
  <2> SUFFICES ASSUME NEW f \in File
               PROVE  FileEnds(f) /\ FileRuns(f)
    BY DEF FilesInv
  <2>1. ~Awaited(f)
    BY <1>1 DEF Awaited
  <2>2. NewFile.done \in BOOLEAN /\ NewFile.whole \in BOOLEAN
    BY DEF NewFile
  <2>3. FileEnds(f)
    BY <1>2, <2>1, <2>2, EmptyLaid DEF FileEnds
  <2>4. vol[f].data \ todo[f] = {}
    BY <1>2
  <2>5. FileRuns(f)
    BY <1>2, <2>4, EmptyLaid DEF FileRuns
  <2> QED  BY <2>3, <2>5
<1>4. DoneOnce /\ LastInv
  BY <1>1 DEF DoneOnce, LastInv
<1>5. RecsInv
  BY <1>1 DEF RecsInv
<1> QED  BY <1>1, <1>3, <1>4, <1>5 DEF DInv

(* hf_open: an empty file is recorded at once, another waits for its data. *)
LEMMA OpenGood ==
  ASSUME EInv, DInv, NEW f \in File, Open(f)
  PROVE  DInv' /\ (recs' = recs \/ Records)
<1>1. PICK h : h = [NewFile EXCEPT !.open = TRUE]
  OBVIOUS
<1>2. /\ pc = "method" /\ ~hf[f].open
      /\ IF Need(f) = 0 THEN Finish(f, h, "method")
         ELSE hf' = [hf EXCEPT ![f] = h] /\ UNCHANGED <<recs, pc>>
      /\ UNCHANGED <<threads, vol, todo, mem, fill, jobs, unhashed, done, cur>>
  BY <1>1 DEF Open
<1>3. /\ IsFile(h) /\ h.open /\ ~h.whole /\ ~h.done /\ h.whole \in BOOLEAN /\ h.done \in BOOLEAN
      /\ Finished(h).open /\ Finished(h).done /\ Finished(h).done \in BOOLEAN
      /\ Finished(h).whole \in BOOLEAN
      /\ \A size, in, w : Laid(size, {}, h) /\ Valued(in, h, w)
  BY <1>1, EmptyLaid, FilesMade
<1>4. InputOK /\ DOMAIN hf = File /\ hf = [g \in File |-> hf[g]]
  BY DEF EInv, Shapes, InputOK
<1>5. /\ todo[f] = vol[f].data /\ hf[f] = NewFile /\ ~hf[f].done /\ ~Awaited(f)
  BY <1>2, EmptyLaid DEF DInv, FilesInv, FileEnds
<1>6. Need(f) = 0 <=> vol[f].data = {}
  BY <1>4, NothingLeft DEF Need
<1>7. /\ pc' = "method"
      /\ \/ Need(f) = 0 /\ hf' = [hf EXCEPT ![f] = Finished(h)] /\ recs' = Append(recs, Recorded(f))
         \/ Need(f) # 0 /\ hf' = [hf EXCEPT ![f] = h] /\ recs' = recs
  <2>1. CASE Need(f) = 0
    <3>1. Laid(Size(f), vol[f].data, h) /\ Valued(Content(f), h, {})
      BY <1>3, <1>6, <2>1
    <3>2. Finish(f, h, "method")
      BY <1>2, <2>1
    <3> QED  BY <1>3, <1>4, <2>1, <3>1, <3>2, FinishRecords
  <2>2. CASE Need(f) # 0
    BY <1>2, <2>2
  <2> QED  BY <2>1, <2>2
<1>8. /\ \A g \in File : g # f => hf'[g] = hf[g]
      /\ \/ Need(f) = 0 /\ hf'[f] = Finished(h)
         \/ Need(f) # 0 /\ hf'[f] = h
  BY <1>4, <1>7
<1>9. /\ \A g \in File : Waiting(g)' = Waiting(g)
      /\ \A g \in File : Awaited(g)' <=> Awaited(g)
  <2>1. WaitingJobs' = WaitingJobs
    BY <1>2, <1>7 DEF WaitingJobs
  <2>2. Len(done) = Len(done') /\ done = done'
    BY <1>2
  <2> QED  BY <1>2, <2>1, <2>2, WaitingStays DEF Awaited
<1>10. FilesInv'
  <2> SUFFICES ASSUME NEW g \in File
               PROVE  FileEnds(g)' /\ (hf'[g].done \/ FileRuns(g)')
    BY <1>2, SameContent DEF FilesInv
  <2>1. CASE g # f
    <3>1. FileEnds(g) /\ (hf[g].done \/ FileRuns(g))
      BY DEF DInv, FilesInv
    <3> QED  BY <1>2, <1>8, <1>9, <2>1, <3>1, FileStays
  <2>2. CASE g = f /\ Need(f) = 0
    <3>1. hf'[f] = Finished(h) /\ todo'[f] = {}
      BY <1>2, <1>5, <1>6, <1>8, <2>2
    <3>2. FileEnds(f)'
      BY <1>3, <1>5, <1>9, <3>1 DEF FileEnds
    <3> QED  BY <1>3, <2>2, <3>1, <3>2
  <2>3. CASE g = f /\ Need(f) # 0
    <3>1. hf'[f] = h /\ todo'[f] = vol[f].data /\ todo'[f] # {} /\ vol' = vol
      BY <1>2, <1>5, <1>6, <1>8, <2>3
    <3>2. FileEnds(f)'
      BY <1>3, <1>5, <1>9, <3>1 DEF FileEnds
    <3>3. vol'[f].data \ todo'[f] = {}
      BY <3>1
    <3>4. FileRuns(f)'
      BY <1>3, <3>1, <3>3 DEF FileRuns
    <3> QED  BY <2>3, <3>2, <3>4
  <2> QED  BY <2>1, <2>2, <2>3
<1>11. DoneOnce'
  BY <1>2 DEF DInv, DoneOnce
<1>12. LastInv'
  BY <1>7 DEF LastInv
<1>13. RecsInv'
  <2>1. \A g \in File : hf[g].done => hf'[g].done
    BY <1>5, <1>8
  <2>2. \/ recs' = recs
        \/ hf'[f].done /\ recs' = Append(recs, Recorded(f))
    BY <1>3, <1>7, <1>8
  <2> QED  BY <1>2, <2>1, <2>2, RecsStay DEF DInv
<1>14. DInv'
  BY <1>7, <1>10, <1>11, <1>12, <1>13 DEF DInv
<1> QED  BY <1>5, <1>7, <1>14 DEF Records

(* hb_buf: a flush at most begins.                                         *)
LEMMA HbBufGood ==
  ASSUME EInv, DInv, NEW ps \in Reads, NEW want \in Wants(ps), HbBuf(ps, want)
  PROVE  DInv' /\ recs' = recs
<1>1. /\ pc = "method" /\ cur' = [pieces |-> ps, at |-> 0, want |-> want]
      /\ \/ pc' = "hash" /\ unhashed' = DOMAIN jobs
         \/ pc' = "read" /\ unhashed' = unhashed
      /\ UNCHANGED <<threads, vol, todo, hf, mem, fill, jobs, done, recs>>
  BY DEF HbBuf
<1>2. cur' # NoCur'
  <2>1. ps # <<>>
    BY ReadsAre DEF Ahead
  <2> QED  BY <1>1, <2>1 DEF NoCur
<1>3. WaitingJobs' = WaitingJobs
  BY <1>1 DEF WaitingJobs
<1>4. LastInv'
  BY <1>1, <1>2 DEF LastInv
<1> QED  BY <1>1, <1>3, <1>4, WaitingStays, MovesOn

(* Reading and hb_used touch no file.                                      *)
LEMMA ReadGood ==
  ASSUME EInv, DInv, Read \/ HbUsed
  PROVE  DInv' /\ recs' = recs
<1>1. /\ pc \in {"read", "used"} /\ pc' \in {"deliver", "method"}
      /\ UNCHANGED <<threads, vol, todo, hf, jobs, unhashed, done, recs>>
  BY DEF Read, HbUsed
<1>2. WaitingJobs' = WaitingJobs /\ LastInv'
  BY <1>1 DEF WaitingJobs, LastInv
<1> QED  BY <1>1, <1>2, WaitingStays, MovesOn

(* pool_for returns when every run is hashed.                              *)
LEMMA PoolReturnsGood ==
  ASSUME EInv, DInv, PoolReturns
  PROVE  DInv' /\ recs' = recs
<1>1. /\ pc = "hash" /\ pc' = "finish" /\ unhashed = {} /\ jobs' = <<>>
      /\ UNCHANGED <<threads, vol, todo, hf, done, recs, cur>>
  BY DEF PoolReturns
<1>2. \A f \in File : Waiting(f)' = {} /\ Waiting(f) = {}
  BY <1>1 DEF Waiting, WaitingJobs
<1>3. LastInv'
  <2>1. cur' = NoCur' <=> cur = NoCur
    BY <1>1 DEF NoCur
  <2>2. File' = File
    BY <1>1, SameContent
  <2> QED  BY <1>1, <2>1, <2>2 DEF DInv, LastInv
<1> QED  BY <1>1, <1>2, <1>3, MovesOn

(* The flush ends when no complete file waits.                             *)
LEMMA FlushReturnsGood ==
  ASSUME EInv, DInv, FlushReturns
  PROVE  DInv' /\ recs' = recs
<1>1. /\ pc = "finish" /\ done = <<>> /\ pc' = IF cur = NoCur THEN "check" ELSE "read"
      /\ UNCHANGED <<threads, vol, todo, hf, mem, fill, jobs, unhashed, done, recs, cur>>
  BY DEF FlushReturns
<1>2. WaitingJobs' = WaitingJobs
  BY <1>1 DEF WaitingJobs
<1>3. LastInv'
  <2>1. File' = File
    BY <1>1, SameContent
  <2> QED  BY <1>1, <2>1 DEF DInv, LastInv
<1>4. pc' # "dead"
  BY <1>1
<1> QED  BY <1>1, <1>2, <1>3, <1>4, WaitingStays, MovesOn

(* The last flush begins when every file is complete.                      *)
LEMMA LastFlushGood ==
  ASSUME EInv, DInv, LastFlush
  PROVE  DInv' /\ recs' = recs
<1>1. /\ pc = "method" /\ pc' = "hash" /\ unhashed' = DOMAIN jobs
      /\ \A f \in File : hf[f].open /\ todo[f] = {}
      /\ UNCHANGED <<threads, vol, todo, hf, mem, fill, jobs, done, recs, cur>>
  BY DEF LastFlush
<1>2. WaitingJobs' = WaitingJobs
  BY <1>1 DEF WaitingJobs
<1>3. LastInv'
  <2>1. File' = File
    BY <1>1, SameContent
  <2> QED  BY <1>1, <2>1 DEF DInv, LastInv
<1> QED  BY <1>1, <1>2, <1>3, WaitingStays, MovesOn

(* check_complete finds every file finished.                               *)
LEMMA CheckCompleteGood ==
  ASSUME EInv, DInv, CheckComplete
  PROVE  DInv' /\ recs' = recs
<1>1. /\ pc = "check" /\ pc' = IF \A f \in File : hf[f].done THEN "complete" ELSE "dead"
      /\ UNCHANGED <<threads, vol, todo, hf, mem, fill, jobs, unhashed, done, recs, cur>>
  BY DEF CheckComplete
<1>2. WaitingJobs' = WaitingJobs
  <2>1. pc' # "hash"
    BY <1>1
  <2> QED  BY <1>1, <2>1 DEF WaitingJobs
<1>3. \A f \in File : hf[f].done
  <2> SUFFICES ASSUME NEW f \in File PROVE hf[f].done
    OBVIOUS
  <2>1. hf[f].open /\ todo[f] = {} /\ done = <<>>
    BY <1>1 DEF DInv, LastInv
  <2>2. ~Awaited(f)
    BY <2>1 DEF Awaited
  <2> QED  BY <2>1, <2>2 DEF DInv, FilesInv, FileEnds
<1>4. pc' = "complete"
  BY <1>1, <1>3
<1>5. LastInv'
  BY <1>4 DEF LastInv
<1> QED  BY <1>1, <1>2, <1>4, <1>5, WaitingStays, MovesOn

(* A step that changes nothing.                                            *)
LEMMA StutterGood ==
  ASSUME DInv, UNCHANGED vars
  PROVE  DInv' /\ recs' = recs
<1>1. UNCHANGED <<threads, vol, todo, hf, mem, fill, jobs, unhashed, done, recs, cur, pc>>
  BY DEF vars
<1>2. WaitingJobs' = WaitingJobs
  BY <1>1 DEF WaitingJobs
<1>3. LastInv' /\ pc' # "dead"
  <2>1. File' = File /\ (cur' = NoCur' <=> cur = NoCur)
    BY <1>1, SameContent DEF NoCur
  <2> QED  BY <1>1, <2>1 DEF DInv, LastInv
<1> QED  BY <1>1, <1>2, <1>3, WaitingStays, MovesOn

(* The fields of a file that a step leaves alone.                          *)
LEMMA FieldsKept ==
  ASSUME NEW h, IsFile(h)
  PROVE  /\ \A i, x : Hashed(h, i, x).whole = h.whole /\ Hashed(h, i, x).done = h.done
         /\ \A n, whole, add : /\ Added(h, n, whole, add).whole = whole
                               /\ Added(h, n, whole, add).done = h.done
         /\ Finished(h).whole = h.whole /\ Finished(h).done = TRUE /\ Finished(h).open = h.open
<1>1. {"open", "got", "runs", "whole", "done"} \subseteq DOMAIN h
  BY DEF IsFile
<1>2. \A i, x : Hashed(h, i, x).whole = h.whole /\ Hashed(h, i, x).done = h.done
  BY <1>1 DEF Hashed
<1>3. \A n, whole, add : /\ Added(h, n, whole, add).whole = whole
                         /\ Added(h, n, whole, add).done = h.done
  BY <1>1 DEF Added
<1>4. Finished(h).whole = h.whole /\ Finished(h).done = TRUE /\ Finished(h).open = h.open
  BY <1>1 DEF Finished
<1> QED  BY <1>2, <1>3, <1>4

(* The file at the head of done is finished.                               *)
LEMMA FinishDoneGood ==
  ASSUME EInv, DInv, FinishDone
  PROVE  DInv' /\ (recs' = recs \/ Records)
<1>1. /\ pc = "finish" /\ done # <<>> /\ done' = Tail(done)
      /\ UNCHANGED <<threads, vol, todo, mem, fill, jobs, unhashed, cur>>
      /\ Finish(Head(done), hf[Head(done)], "finish")
  BY DEF FinishDone
<1>2. /\ InputOK /\ done \in Seq(File) /\ DOMAIN hf = File /\ hf = [g \in File |-> hf[g]]
      /\ \A g \in File : IsFile(hf[g])
  BY DEF EInv, Shapes, InputOK
<1>3. PICK n \in Nat : n = Len(done) - 1 /\ Len(done) = n + 1
  BY <1>1, <1>2, EmptySeq, LenProperties
<1>4. /\ Head(done) = done[1] /\ Len(done') = n /\ \A k \in 1..n : done'[k] = done[k + 1]
  BY <1>1, <1>2, <1>3, HeadTailProperties
<1>5. PICK f \in File : f = Head(done) /\ f = done[1]
  <2>1. 1 \in 1..Len(done)
    BY <1>3
  <2> QED  BY <1>2, <1>4, <2>1, ElementOfSeq
<1>6. Awaited(f)
  <2>1. 1 \in 1..Len(done)
    BY <1>3
  <2> QED  BY <1>5, <2>1 DEF Awaited
<1>7. /\ FileEnds(f) /\ FileRuns(f)
      /\ hf[f].open /\ todo[f] = {} /\ ~hf[f].done
  BY <1>6 DEF DInv, FilesInv, FileEnds
<1>8. jobs = <<>>
  BY <1>1 DEF EInv, FlushInv
<1>9. \A g \in File : Waiting(g) = {}
  BY <1>1, <1>8 DEF Waiting, WaitingJobs
<1>h. PICK h : h = hf[f] /\ IsFile(h)
  BY <1>2
<1>10. Laid(Size(f), vol[f].data, h) /\ Valued(Content(f), h, {})
  <2>1. vol[f].data \ todo[f] = vol[f].data
    BY <1>7
  <2> QED  BY <1>7, <1>9, <1>h, <2>1 DEF FileRuns
<1>11. /\ pc' = "finish" /\ hf' = [hf EXCEPT ![f] = Finished(h)]
       /\ recs' = Append(recs, Recorded(f))
  <2>1. Finish(f, h, "finish")
    BY <1>1, <1>5, <1>h
  <2> QED  BY <1>2, <1>10, <1>h, <2>1, FinishRecords
<1>12. hf'[f] = Finished(h) /\ \A g \in File : g # f => hf'[g] = hf[g]
  BY <1>2, <1>11
<1>13. Finished(h).done = TRUE /\ Finished(h).open /\ Finished(h).whole \in BOOLEAN
  BY <1>7, <1>h, FieldsKept DEF FileEnds
<1>14. ~Awaited(f)' /\ \A g \in File : g # f => (Awaited(g)' <=> Awaited(g))
  <2>1. ASSUME NEW k \in 1..n, done'[k] = f
        PROVE  FALSE
    <3>1. k + 1 \in 1..Len(done) /\ 1 \in 1..Len(done) /\ k + 1 # 1
      BY <1>3
    <3>2. done[k + 1] = done[1]
      BY <1>4, <1>5, <2>1
    <3> QED  BY <3>1, <3>2 DEF DInv, DoneOnce
  <2>2. ASSUME NEW g, NEW k \in 1..n, done'[k] = g
        PROVE  Awaited(g)
    <3>1. k + 1 \in 1..Len(done)
      BY <1>3
    <3> QED  BY <1>4, <2>2, <3>1 DEF Awaited
  <2>3. ASSUME NEW g, g # f, NEW k \in 1..Len(done), done[k] = g
        PROVE  Awaited(g)'
    <3>1. k # 1
      BY <1>5, <2>3
    <3>2. k - 1 \in 1..n /\ k = (k - 1) + 1
      BY <1>3, <3>1
    <3>3. done'[k - 1] = g
      BY <1>4, <2>3, <3>2
    <3> QED  BY <1>4, <3>2, <3>3 DEF Awaited
  <2>4. ~Awaited(f)'
    BY <1>4, <2>1 DEF Awaited
  <2>5. \A g : Awaited(g)' => Awaited(g)
    BY <1>4, <2>2 DEF Awaited
  <2>6. \A g : g # f /\ Awaited(g) => Awaited(g)'
    BY <2>3 DEF Awaited
  <2> QED  BY <2>4, <2>5, <2>6
<1>15. \A g \in File : Waiting(g)' = Waiting(g)
  <2>1. WaitingJobs' = WaitingJobs
    BY <1>1, <1>11 DEF WaitingJobs
  <2> QED  BY <1>1, <2>1, WaitingStays
<1>16. FilesInv'
  <2> SUFFICES ASSUME NEW g \in File
               PROVE  FileEnds(g)' /\ (hf'[g].done \/ FileRuns(g)')
    BY <1>1, SameContent DEF FilesInv
  <2>1. CASE g # f
    <3>1. FileEnds(g) /\ (hf[g].done \/ FileRuns(g))
      BY DEF DInv, FilesInv
    <3> QED  BY <1>1, <1>12, <1>14, <1>15, <2>1, <3>1, FileStays
  <2>2. CASE g = f
    <3>1. todo'[f] = {}
      BY <1>1, <1>7
    <3>2. FileEnds(f)'
      BY <1>12, <1>13, <1>14, <3>1 DEF FileEnds
    <3> QED  BY <1>12, <1>13, <2>2, <3>2
  <2> QED  BY <2>1, <2>2
<1>17. DoneOnce'
  <2> SUFFICES ASSUME NEW j \in 1..n, NEW k \in 1..n, done'[j] = done'[k] PROVE j = k
    BY <1>4 DEF DoneOnce
  <2>1. j + 1 \in 1..Len(done) /\ k + 1 \in 1..Len(done)
    BY <1>3
  <2>2. j + 1 = k + 1
    BY <1>4, <2>1 DEF DInv, DoneOnce
  <2> QED  BY <2>2
<1>18. LastInv'
  <2>1. cur' = NoCur' <=> cur = NoCur
    BY <1>1 DEF NoCur
  <2>2. cur = NoCur => \A g \in File : hf'[g].open /\ todo'[g] = {}
    BY <1>1, <1>12, <1>13 DEF DInv, LastInv
  <2>3. File' = File
    BY <1>1, SameContent
  <2> QED  BY <1>11, <2>1, <2>2, <2>3 DEF LastInv
<1>19. RecsInv'
  <2>1. \A g \in File : hf[g].done => hf'[g].done
    BY <1>12, <1>13
  <2>2. hf'[f].done
    BY <1>12, <1>13
  <2> QED  BY <1>1, <1>11, <2>1, <2>2, RecsStay DEF DInv
<1>20. DInv'
  BY <1>11, <1>16, <1>17, <1>18, <1>19 DEF DInv
<1> QED  BY <1>7, <1>11, <1>20 DEF Records

(* A run that was hashed is worth what it should.                          *)
LEMMA ValuedMore ==
  ASSUME NEW in, NEW h, IsFile(h), NEW w, Valued(in, h, w), NEW i \in 1..Len(h.runs),
         NEW g, g = Hashed(h, i, Value(in, h.whole, h.runs[i])),
         NEW v, \A k \in w : k \in v \/ k = i
  PROVE  Valued(in, g, v)
<1>1. PICK x : x = Value(in, h.whole, h.runs[i])
  OBVIOUS
<1>2. /\ Len(h.runs) \in Nat /\ h.runs = [k \in 1..Len(h.runs) |-> h.runs[k]]
      /\ \A k \in 1..Len(h.runs) : IsRun(h.runs[k])
      /\ {"open", "got", "runs", "whole", "done"} \subseteq DOMAIN h
  BY DEF IsFile
<1>3. g.runs = [h.runs EXCEPT ![i].cv = x] /\ g.whole = h.whole
  BY <1>1, <1>2 DEF Hashed
<1>4. /\ Len(g.runs) = Len(h.runs)
      /\ \A k \in 1..Len(h.runs) :
           g.runs[k].off = h.runs[k].off /\ g.runs[k].len = h.runs[k].len
  BY <1>1, RunHashed
<1>5. /\ g.runs[i].cv = x
      /\ \A k \in 1..Len(h.runs) : k # i => g.runs[k] = h.runs[k]
  <2>1. PICK q : q = [h.runs[i] EXCEPT !.cv = x]
    OBVIOUS
  <2>2. q.cv = x
    <3>1. "cv" \in DOMAIN h.runs[i]
      BY <1>2 DEF IsRun
    <3> QED  BY <2>1, <3>1
  <2>3. g.runs = [h.runs EXCEPT ![i] = q]
    BY <1>3, <2>1
  <2>4. \A k \in 1..Len(h.runs) : g.runs[k] = IF k = i THEN q ELSE h.runs[k]
    <3>1. DOMAIN h.runs = 1..Len(h.runs)
      BY <1>2
    <3> QED  BY <2>3, <3>1
  <2> QED  BY <2>2, <2>4
<1> SUFFICES ASSUME NEW k \in 1..Len(h.runs), k \notin v
             PROVE  g.runs[k].cv = Value(in, g.whole, g.runs[k])
  BY <1>4 DEF Valued
<1>6. CASE k = i
  <2>1. Value(in, g.whole, g.runs[i]) = Value(in, h.whole, h.runs[i])
    BY <1>3, <1>4 DEF Value
  <2>2. g.runs[i].cv = Value(in, g.whole, g.runs[i])
    BY <1>1, <1>5, <2>1
  <2> QED  BY <1>6, <2>2
<1>7. CASE k # i
  <2>1. k \notin w
    BY <1>7
  <2>2. h.runs[k].cv = Value(in, h.whole, h.runs[k])
    BY <2>1 DEF Valued
  <2> QED  BY <1>3, <1>5, <1>7, <2>2
<1> QED  BY <1>6, <1>7

(* A run that was hashed is where it was.                                  *)
LEMMA LaidStill ==
  ASSUME NEW size, NEW ps, NEW h, IsFile(h), Laid(size, ps, h), NEW i \in 1..Len(h.runs), NEW x,
         NEW g, g = Hashed(h, i, x)
  PROVE  Laid(size, ps, g)
<1>1. /\ Len(g.runs) = Len(h.runs)
      /\ \A k \in 1..Len(h.runs) :
           g.runs[k].off = h.runs[k].off /\ g.runs[k].len = h.runs[k].len
  BY RunHashed
<1>2. g.whole = h.whole
  BY DEF Hashed, IsFile
<1>3. CASE h.whole
  <2>1. 1 \in 1..Len(h.runs)
    BY <1>3 DEF Laid
  <2> QED  BY <1>1, <1>2, <1>3, <2>1 DEF Laid
<1>4. CASE ~h.whole
  <2>1. \A k \in 1..Len(h.runs) :
          /\ Shaped(g.runs[k], size) <=> Shaped(h.runs[k], size)
          /\ \A o, n : Inside(g.runs[k], o, n) <=> Inside(h.runs[k], o, n)
          /\ \A y : Owns(g.runs[k], y) <=> Owns(h.runs[k], y)
    BY <1>1 DEF Shaped, Inside, Owns
  <2>2. \A j, k \in 1..Len(h.runs) :
          Apart(g.runs[j], g.runs[k]) <=> Apart(h.runs[j], h.runs[k])
    BY <1>1 DEF Apart
  <2>3. /\ \A k \in 1..Len(h.runs) :
             Shaped(h.runs[k], size) /\ \E p \in ps : Inside(h.runs[k], p.off, Bytes(size, p))
        /\ \A j, k \in 1..Len(h.runs) : j = k \/ Apart(h.runs[j], h.runs[k])
        /\ \A p \in ps :
             /\ ~IsWhole(p, size)
             /\ \A y \in 0..(size - 1) : Owns(p, y) => \E k \in 1..Len(h.runs) : Owns(h.runs[k], y)
    BY <1>4 DEF Laid
  <2>4. /\ \A k \in 1..Len(g.runs) :
             Shaped(g.runs[k], size) /\ \E p \in ps : Inside(g.runs[k], p.off, Bytes(size, p))
        /\ \A j, k \in 1..Len(g.runs) : j = k \/ Apart(g.runs[j], g.runs[k])
        /\ \A p \in ps :
             /\ ~IsWhole(p, size)
             /\ \A y \in 0..(size - 1) : Owns(p, y) => \E k \in 1..Len(g.runs) : Owns(g.runs[k], y)
    BY <1>1, <2>1, <2>2, <2>3, Zenon
  <2> QED  BY <1>2, <1>4, <2>4 DEF Laid
<1> QED  BY <1>3, <1>4

(* Bytes in memory that are a file's.                                      *)
LEMMA LiesAlike ==
  ASSUME InputOK, NEW f \in File, NEW at \in Nat, NEW o \in Nat, NEW n \in Nat, o + n <= Size(f),
         \A i \in 1..n : mem[at + i] = Byte(f, o + i - 1)
  PROVE  Alike(mem, at, Content(f), o, n)
<1> SUFFICES ASSUME NEW i \in 1..n PROVE mem[at + i] = Content(f)[o + i]
  BY DEF Alike
<1>1. PICK z \in Nat : z = Size(f)
  BY FileIs
<1>2. PICK y \in 1..z : y = o + i
  BY <1>1
<1>3. Content(f)[y] = Byte(f, y - 1)
  BY <1>1 DEF Content
<1>4. y - 1 = o + i - 1
  BY <1>2
<1>5. mem[at + i] = Byte(f, o + i - 1)
  OBVIOUS
<1> QED  BY <1>2, <1>3, <1>4, <1>5

(* Where a run lies.                                                       *)
LEMMA LaidRun ==
  ASSUME NEW size \in Nat, NEW ps, NEW h, IsFile(h), Laid(size, ps, h), NEW k \in 1..Len(h.runs)
  PROVE  /\ h.runs[k].off % Chunk = 0 /\ h.runs[k].off + h.runs[k].len <= size
         /\ h.whole => h.runs[k].off = 0 /\ h.runs[k].len = size
<1>1. CASE h.whole
  <2>1. Len(h.runs) = 1 /\ h.runs[1].off = 0 /\ h.runs[1].len = size
    BY <1>1 DEF Laid
  <2>2. k = 1
    BY <2>1
  <2>3. 0 % Chunk = 0 /\ 0 + size <= size
    BY B3Assumption
  <2> QED  BY <2>1, <2>2, <2>3
<1>2. CASE ~h.whole
  BY <1>2 DEF Laid, Shaped
<1> QED  BY <1>1, <1>2

(* A job that was hashed waits no longer; the others do.                   *)
LEMMA HashJobGood ==
  ASSUME EInv, DInv, NEW i \in unhashed, HashJob(i)
  PROVE  DInv' /\ recs' = recs
<1>1. /\ pc = "hash" /\ pc' = "hash" /\ unhashed' = unhashed \ {i}
      /\ UNCHANGED <<threads, vol, todo, mem, fill, jobs, done, recs, cur>>
  BY DEF HashJob
<1>2. i \in 1..Len(jobs)
  <2>1. jobs \in Seq(Job) /\ i \in DOMAIN jobs
    BY DEF EInv, Shapes, FlushInv
  <2> QED  BY <2>1, LenProperties
<1>3. PICK j \in Job, f \in File, n \in {jobs[i].i} : j = jobs[i] /\ f = j.f /\ n = j.i
  BY <1>2, JobIs
<1>4. PICK h : h = hf[f]
  OBVIOUS
<1>5. IsFile(h) /\ n \in 1..Len(h.runs) /\ IsRun(h.runs[n])
  BY <1>2, <1>3, <1>4, JobIs
<1>6. PICK r : r = h.runs[n] /\ r.off \in Nat /\ r.len \in Nat
  BY <1>5 DEF IsRun
<1>7. InputOK /\ DOMAIN hf = File /\ hf = [g \in File |-> hf[g]] /\ Size(f) \in Nat
  BY FileIs DEF EInv, Shapes, InputOK
<1>8. PICK x : /\ x = HashRun(h.whole, Slice(mem, j.at, r.len), r.off)
               /\ hf' = [hf EXCEPT ![f].runs[n].cv = x]
  BY <1>3, <1>4, <1>6 DEF HashJob
<1>9. PICK g0 : g0 = Hashed(h, n, x) /\ hf'[f] = g0
  BY <1>4, <1>7, <1>8 DEF Hashed
<1>10. \A g \in File : g # f => hf'[g] = hf[g]
  BY <1>7, <1>8
<1>11. /\ IsFile(g0) /\ g0.open = h.open /\ g0.whole = h.whole /\ g0.done = h.done
  <2>1. g0.whole = h.whole /\ g0.done = h.done
    BY <1>5, <1>9 DEF Hashed, IsFile
  <2> QED  BY <1>5, <1>9, <2>1, RunHashed
<1>12. Waits(j)
  BY <1>1, <1>2, <1>3 DEF EInv, JobInv
<1>13. ASSUME ~h.done
       PROVE  FileRuns(f)'
  <2>1. FileRuns(f) /\ h.whole \in BOOLEAN
    BY <1>4, <1>13 DEF DInv, FilesInv, FileEnds
  <2>2. PICK in, size, ps, w : in = Content(f) /\ size = Size(f) /\ ps = vol[f].data \ todo[f]
                               /\ w = Waiting(f)
    OBVIOUS
  <2>3. Laid(size, ps, h) /\ Valued(in, h, w)
    BY <1>4, <2>1, <2>2 DEF FileRuns
  <2>4. /\ in \in Seq(FileBytes(f)) /\ Len(in) = size /\ size \in Nat
    BY <1>7, <2>2, ContentIs
  <2>5. /\ r.off % Chunk = 0 /\ r.off + r.len <= size
        /\ h.whole => r.off = 0 /\ r.len = size
    BY <1>5, <1>6, <2>3, <2>4, LaidRun
  <2>6. Alike(mem, j.at, in, r.off, r.len)
    <3>1. j.at \in Nat /\ \A k \in 1..r.len : mem[j.at + k] = Byte(f, r.off + k - 1)
      BY <1>3, <1>4, <1>6, <1>12 DEF Waits, Job
    <3> QED  BY <1>6, <1>7, <2>2, <2>5, <3>1, LiesAlike
  <2>7. x = Value(in, h.whole, r)
    <3>1. j.at \in Nat /\ IsRun(r)
      BY <1>5, <1>6 DEF Job
    <3> QED  BY ZenonT(60), <1>8, <2>1, <2>4, <2>5, <2>6, <3>1, RunValueIs
  <2>8. Laid(size, ps, g0)
    BY <1>5, <1>9, <2>3, LaidStill
  <2>9. PICK v : v = Waiting(f)'
    OBVIOUS
  <2>10. \A k \in w : k \in v \/ k = n
    <3> SUFFICES ASSUME NEW k \in w, k # n PROVE k \in v
      OBVIOUS
    <3>1. PICK m \in unhashed : jobs[m].f = f /\ k = jobs[m].i
      BY <1>1, <2>2 DEF Waiting, WaitingJobs
    <3>2. m \in unhashed'
      BY <1>1, <1>3, <3>1
    <3> QED  BY <1>1, <2>9, <3>1, <3>2 DEF Waiting, WaitingJobs
  <2>11. Valued(in, g0, v)
    BY <1>5, <1>6, <1>9, <2>3, <2>7, <2>10, ValuedMore
  <2>12. Size(f)' = size /\ Content(f)' = in /\ vol'[f].data \ todo'[f] = ps
    BY <1>1, <2>2, SameVolume, SameContent
  <2> QED  BY <1>9, <2>8, <2>9, <2>11, <2>12 DEF FileRuns
<1>14. \A g : Awaited(g)' <=> Awaited(g)
  BY <1>1 DEF Awaited
<1>15. FilesInv'
  <2> SUFFICES ASSUME NEW g \in File
               PROVE  FileEnds(g)' /\ (hf'[g].done \/ FileRuns(g)')
    BY <1>1, SameContent DEF FilesInv
  <2>1. FileEnds(g) /\ (hf[g].done \/ FileRuns(g))
    BY DEF DInv, FilesInv
  <2>2. CASE g # f
    <3>1. Waiting(g)' = Waiting(g)
      <4>1. \A m \in unhashed : jobs[m].f = g => m # i
        BY <1>3, <2>2
      <4>2. {m \in unhashed' : jobs[m].f = g} = {m \in unhashed : jobs[m].f = g}
        BY <1>1, <4>1
      <4>3. Waiting(g)' = {jobs[m].i : m \in {m \in unhashed' : jobs[m].f = g}}
        BY <1>1 DEF Waiting, WaitingJobs
      <4>4. Waiting(g) = {jobs[m].i : m \in {m \in unhashed : jobs[m].f = g}}
        BY <1>1 DEF Waiting, WaitingJobs
      <4> QED  BY <4>2, <4>3, <4>4
    <3> QED  BY <1>1, <1>10, <1>14, <2>1, <2>2, <3>1, FileStays
  <2>3. CASE g = f
    <3>1. h.open
      BY <1>2, <1>3, <1>4, JobIs
    <3>2. FileEnds(f)'
      BY <1>1, <1>4, <1>9, <1>11, <1>14, <2>1, <2>3, <3>1 DEF FileEnds
    <3> QED  BY <1>9, <1>11, <1>13, <2>3, <3>2
  <2> QED  BY <2>2, <2>3
<1>16. \A g \in File : hf'[g].done = hf[g].done /\ hf'[g].open = hf[g].open
  BY <1>4, <1>9, <1>10, <1>11
<1>17. DoneOnce'
  BY <1>1 DEF DInv, DoneOnce
<1>18. LastInv'
  <2>1. (cur' = NoCur' <=> cur = NoCur) /\ File' = File
    BY <1>1, SameContent DEF NoCur
  <2> QED  BY <1>1, <1>16, <2>1 DEF DInv, LastInv
<1>19. RecsInv'
  BY <1>1, <1>16, RecsStay DEF DInv
<1> QED  BY <1>1, <1>15, <1>17, <1>18, <1>19 DEF DInv

(* deliver() of piece e of file f: `row' are the runs it is cut into,      *)
(* `add' those with their values, h is the file with them.                 *)
Takes(f, e, row, add, h, next) ==
  /\ e \in todo[f] /\ hf[f].open
  /\ RowOf(Size(f), e, row) /\ Len(add) = Len(row)
  /\ \A k \in 1..Len(row) : add[k].off = row[k].off /\ add[k].len = row[k].len
  /\ ~Batch => \A k \in 1..Len(row) : add[k].cv = Value(Content(f), h.whole, add[k])
  /\ IsFile(h) /\ Grown(hf[f], h, add)
  /\ h.whole = IsWhole(e, Size(f)) /\ h.whole \in BOOLEAN /\ h.done = hf[f].done /\ h.open
  /\ h.got = hf[f].got + Bytes(Size(f), e)
  /\ todo' = [todo EXCEPT ![f] = @ \ {e}]
  /\ IF Batch
     THEN \E new \in Seq(Job) :
            /\ jobs' = jobs \o new /\ Len(new) = Len(row)
            /\ \A k \in 1..Len(row) : new[k].f = f /\ new[k].i = Len(hf[f].runs) + k
     ELSE jobs' = jobs
  /\ next \in {"used", "deliver"}
  /\ IF h.got = Need(f) THEN Complete(f, h, next)
     ELSE hf' = [hf EXCEPT ![f] = h] /\ pc' = next /\ UNCHANGED <<done, recs>>

(* Memory holds n bytes of file f, from o on, at `at'.                     *)
Holds(f, at, o, n) == \A i \in 1..n : mem[at + i] = Byte(f, o + i - 1)

(* The run that deliver() hashes at once is worth what it should.          *)
LEMMA HashedAtOnce ==
  ASSUME InputOK, NEW f \in File, NEW o \in Nat, NEW n \in Nat, o + n <= Size(f),
         NEW at \in Nat, Holds(f, at, o, n),
         NEW r, IsRun(r), r.off % Chunk = 0, Inside(r, o, n),
         NEW whole \in BOOLEAN, whole => r.off = 0 /\ r.len = Size(f)
  PROVE  /\ at + r.off - o \in Nat
         /\ HashRun(whole, Slice(mem, at + r.off - o, r.len), r.off)
              = Value(Content(f), whole, r)
<1>1. PICK a \in Nat, l \in Nat \ {0} : a = r.off /\ l = r.len
  BY DEF IsRun
<1>2. o <= a /\ a + l <= o + n
  BY <1>1 DEF Inside
<1>3. PICK y \in Nat : y = at + a - o
  BY <1>2
<1>4. PICK d \in Nat : a = o + d /\ y = at + d /\ d + l <= n
  <2>1. a - o \in Nat /\ a = o + (a - o) /\ y = at + (a - o) /\ (a - o) + l <= n
    BY <1>2, <1>3
  <2> QED  BY <2>1
<1>5. \A i \in 1..l : mem[y + i] = Byte(f, a + i - 1)
  <2> SUFFICES ASSUME NEW i \in 1..l PROVE mem[y + i] = Byte(f, a + i - 1)
    OBVIOUS
  <2>1. d + i \in 1..n /\ y + i = at + (d + i) /\ a + i - 1 = o + (d + i) - 1
    BY <1>4
  <2> QED  BY <2>1 DEF Holds
<1>6. Size(f) \in Nat /\ a + l <= Size(f)
  <2>1. PICK z \in Nat : z = Size(f)
    BY FileIs
  <2> QED  BY <1>2, <2>1
<1>7. Alike(mem, y, Content(f), a, l)
  BY <1>5, <1>6, LiesAlike
<1>8. PICK in : in = Content(f) /\ in \in Seq(FileBytes(f)) /\ Len(in) = Size(f)
  BY ContentIs
<1>9. HashRun(whole, Slice(mem, y, r.len), r.off) = Value(in, whole, r)
  <2>1. PICK B : in \in Seq(B)
    BY <1>8
  <2>2. Alike(mem, y, in, r.off, r.len) /\ r.off + r.len <= Len(in)
    BY <1>1, <1>6, <1>7, <1>8
  <2>3. whole => r.off = 0 /\ r.len = Len(in)
    BY <1>8
  <2>4. r.off % Chunk = 0
    OBVIOUS
  <2> QED  BY <1>3, <2>1, <2>2, <2>3, <2>4, RunValueIs, ZenonT(60)
<1>10. at + r.off - o = y
  BY <1>1, <1>3
<1> QED  BY <1>8, <1>9, <1>10

(* A file that got runs.                                                   *)
LEMMA GrownIs ==
  ASSUME NEW h, IsFile(h), NEW n \in Nat, NEW whole,
         NEW add, Len(add) \in Nat, add = [k \in 1..Len(add) |-> add[k]],
         \A k \in 1..Len(add) : IsRun(add[k]),
         NEW g, g = Added(h, n, whole, add)
  PROVE  /\ IsFile(g) /\ Grown(h, g, add) /\ g.open = h.open /\ g.got = h.got + n
         /\ g.whole = whole /\ g.done = h.done
<1>1. /\ IsFile(g) /\ g.open = h.open /\ g.got = h.got + n
      /\ Len(g.runs) = Len(h.runs) + Len(add)
      /\ \A k \in 1..Len(h.runs) : g.runs[k] = h.runs[k]
      /\ \A k \in 1..Len(add) : g.runs[Len(h.runs) + k] = add[k]
  BY RunsAdded
<1>2. Len(h.runs) \in Nat
  BY DEF IsFile
<1>3. g.whole = whole /\ g.done = h.done
  BY DEF Added, IsFile
<1> QED  BY <1>1, <1>2, <1>3 DEF Grown

(* deliver() takes the next piece: it never dies.                          *)
LEMMA DeliverTakes ==
  ASSUME EInv, Deliver
  PROVE  /\ pc = "deliver" /\ UNCHANGED <<threads, vol, mem, fill, unhashed>>
         /\ \E f \in File : \E e, row, add, h, next : Takes(f, e, row, add, h, next)
<1> DEFINE p == Head(cur.pieces)
           f == p.f
           n == Bytes(Size(f), p)
           whole == p.off = 0 /\ n = Size(f)
           row == IF whole THEN <<[off |-> 0, len |-> n]>> ELSE Cut(p.off, p.off + n)
           Place(r) == cur.at + r.off - p.off
           CV(r) == IF Batch THEN Pending
                    ELSE HashRun(whole, Slice(mem, Place(r), r.len), r.off)
           add == [k \in DOMAIN row |->
                     [off |-> row[k].off, len |-> row[k].len, cv |-> CV(row[k])]]
           h == [hf[f] EXCEPT !.got = @ + n, !.whole = whole, !.runs = @ \o add]
           new == [k \in DOMAIN row |->
                     [at |-> Place(row[k]), f |-> f, i |-> Len(hf[f].runs) + k]]
           next == IF Len(cur.pieces) = 1 THEN "used" ELSE "deliver"
           e == [off |-> p.off, len |-> p.len]
<1>1. /\ pc = "deliver" /\ UNCHANGED <<threads, vol, mem, fill, unhashed>>
      /\ IF BadDelivery(f, p.off, n)
         THEN pc' = "dead" /\ UNCHANGED <<todo, hf, jobs, done, recs, cur>>
         ELSE /\ todo' = [todo EXCEPT ![f] = @ \ {e}]
              /\ jobs' = IF Batch THEN jobs \o new ELSE jobs
              /\ IF h.got = Need(f)
                 THEN Complete(f, h, next)
                 ELSE /\ hf' = [hf EXCEPT ![f] = h]
                      /\ pc' = next
                      /\ UNCHANGED <<done, recs>>
  BY Zenon DEF Deliver
<1>2. h = Added(hf[f], n, whole, add)
  BY DEF Added
<1>3. /\ DOMAIN add = DOMAIN row /\ add = [k \in DOMAIN row |-> add[k]]
      /\ \A k \in DOMAIN row : /\ {"off", "len", "cv"} \subseteq DOMAIN add[k]
                               /\ add[k].off = row[k].off /\ add[k].len = row[k].len
                               /\ add[k].cv = CV(row[k])
  <2> HIDE DEF row, CV
  <2> QED  OBVIOUS
<1>4. /\ whole \in BOOLEAN
      /\ row = IF whole THEN <<[off |-> 0, len |-> n]>> ELSE Cut(p.off, p.off + n)
  OBVIOUS
<1>5. next \in {"used", "deliver"}
  OBVIOUS
<1>6. e.off = p.off /\ e.len = p.len
  OBVIOUS
<1>7. whole <=> p.off = 0 /\ n = Size(f)
  OBVIOUS
<1>8. \A k \in DOMAIN row :
        CV(row[k]) = IF Batch THEN Pending
                     ELSE HashRun(whole, Slice(mem, cur.at + row[k].off - p.off, row[k].len),
                                  row[k].off)
  BY Zenon
<1>9. /\ DOMAIN new = DOMAIN row
      /\ new = [k \in DOMAIN row |-> new[k]]
      /\ \A k \in DOMAIN row : new[k] = [at |-> cur.at + row[k].off - p.off, f |-> f,
                                         i |-> Len(hf[f].runs) + k]
  <2> HIDE DEF row
  <2> QED  OBVIOUS
<1>10. p = Head(cur.pieces) /\ f = p.f /\ n = Bytes(Size(f), p)
       /\ e = [off |-> p.off, len |-> p.len]
  OBVIOUS
<1> HIDE DEF whole, row, add, h, new, next, e, CV, n, f, p
<1>11. PICK ps : ps = cur.pieces /\ ps \in Seq(Piece) /\ Ahead(ps) /\ ps # <<>>
  BY <1>1 DEF EInv, ReadInv, Delivering, Shapes, Ahead
<1>12. PICK pos \in [1..Len(ps) -> Nat] :
         /\ pos[1] = cur.at /\ \A k \in 1..Len(ps) : Lies(ps[k], pos[k])
  BY <1>1, <1>11 DEF EInv, ReadInv, Delivering
<1>13. Len(ps) \in Nat \ {0} /\ p = ps[1] /\ 1 \in 1..Len(ps)
  <2>1. Len(ps) \in Nat \ {0} /\ p = ps[1]
    BY <1>10, <1>11, EmptySeq
  <2> QED  BY <2>1
<1>14. /\ f \in File /\ p.off \in Nat /\ p.len \in Nat \ {0}
       /\ e \in todo[f] /\ n = Bytes(Size(f), e)
       /\ n \in 1..p.len /\ p.off + n <= Size(f) /\ Size(f) \in Nat
       /\ hf[f].open
  <2>1. hf[ps[1].f].open
    BY <1>11, <1>13 DEF Ahead
  <2> QED  BY ZenonT(60), <1>10, <1>11, <1>13, <2>1, AheadIs
<1>15. cur.at \in Nat
  BY DEF EInv, Shapes
<1>16. \A i \in 1..n : mem[cur.at + i] = Byte(f, p.off + i - 1)
  <2>1. Lies(ps[1], pos[1])
    BY <1>12, <1>13
  <2> QED  BY <1>10, <1>12, <1>13, <2>1 DEF Lies
<1>17. /\ InputOK /\ todo[f] \subseteq vol[f].data /\ IsFile(hf[f])
       /\ ArePieces(Size(f), vol[f].data)
  <2>1. InputOK /\ todo[f] \subseteq vol[f].data /\ IsFile(hf[f])
    BY <1>14 DEF EInv, Shapes, InputOK
  <2> QED  BY <1>14, <2>1, ContentIs
<1>18. /\ e.off % Chunk = 0 /\ e.len % Chunk = 0
       /\ Bytes(Size(f), e) = e.len \/ e.off + Bytes(Size(f), e) = Size(f)
  BY <1>14, <1>17, BytesAre
<1>19. ~BadDelivery(f, p.off, n)
  <2>1. p.off % Chunk = 0 /\ p.len % Chunk = 0 /\ (n = p.len \/ p.off + n = Size(f))
    BY <1>6, <1>14, <1>18
  <2>2. ~(p.off + n > Size(f))
    BY <1>14
  <2>3. n = p.len => n % Chunk = 0
    BY <2>1
  <2> QED  BY <2>1, <2>2, <2>3, Zenon DEF BadDelivery
<1>20. whole = IsWhole(e, Size(f))
  BY <1>4, <1>6, <1>7, <1>14, Zenon DEF IsWhole
<1>21. RowOf(Size(f), e, row)
  <2>1. row = IF whole THEN <<[off |-> 0, len |-> Bytes(Size(f), e)]>>
              ELSE Cut(e.off, e.off + Bytes(Size(f), e))
    BY <1>4, <1>6, <1>14
  <2> QED  BY <1>4, <1>14, <1>17, <1>20, <2>1, RowIs
<1>22. Len(row) \in Nat /\ DOMAIN row = 1..Len(row)
  <2>1. PICK a \in Nat, b \in Nat : a = p.off /\ b = p.off + n /\ a < b
    BY <1>14
  <2>2. Cut(a, b) \in Seq(Run)
    BY <2>1, CutWithin DEF Within
  <2>3. CASE whole
    BY <1>4, <2>3
  <2>4. CASE ~whole
    BY <1>4, <2>1, <2>2, <2>4, LenProperties
  <2> QED  BY <2>3, <2>4
<1>23. \A k \in 1..Len(row) :
         /\ row[k].off \in Nat /\ row[k].len \in Nat \ {0} /\ row[k].off % Chunk = 0
         /\ Inside(row[k], e.off, Bytes(Size(f), e))
  BY <1>21 DEF RowOf
<1>24. /\ Len(add) = Len(row) /\ add = [k \in 1..Len(add) |-> add[k]]
       /\ \A k \in 1..Len(row) :
            IsRun(add[k]) /\ add[k].off = row[k].off /\ add[k].len = row[k].len
  <2>1. DOMAIN add = 1..Len(row) /\ add = [k \in 1..Len(row) |-> add[k]]
    BY <1>3, <1>22
  <2>2. Len(add) = Len(row)
    BY <1>22, <2>1
  <2> QED  BY <1>3, <1>22, <1>23, <2>1, <2>2 DEF IsRun
<1>25. ASSUME ~Batch, NEW k \in 1..Len(row)
       PROVE  add[k].cv = Value(Content(f), whole, add[k])
  <2>1. PICK r : r = add[k] /\ IsRun(r) /\ r.off = row[k].off /\ r.len = row[k].len
    BY <1>24
  <2>2. r.off % Chunk = 0 /\ Inside(r, p.off, n)
    BY <1>6, <1>14, <1>23, <2>1 DEF Inside
  <2>3. whole => r.off = 0 /\ r.len = Size(f)
    <3> SUFFICES ASSUME whole PROVE r.off = 0 /\ r.len = Size(f)
      OBVIOUS
    <3>1. IsWhole(e, Size(f))
      BY <1>20, Zenon
    <3>2. Len(row) = 1 /\ row[1].off = 0 /\ row[1].len = Size(f)
      BY <1>21, <3>1 DEF RowOf
    <3>3. k = 1
      BY <3>2
    <3> QED  BY <2>1, <3>2, <3>3
  <2>4. HashRun(whole, Slice(mem, cur.at + r.off - p.off, r.len), r.off)
          = Value(Content(f), whole, r)
    <3>1. PICK at \in Nat, o \in Nat, z \in Nat : at = cur.at /\ o = p.off /\ z = n
      BY <1>14, <1>15
    <3>2. /\ o + z <= Size(f) /\ \A i \in 1..z : mem[at + i] = Byte(f, o + i - 1)
          /\ Inside(r, o, z)
      BY <1>14, <1>16, <2>2, <3>1
    <3>3. PICK g \in File, w \in BOOLEAN : g = f /\ w = whole
      BY <1>4, <1>14
    <3>4. InputOK /\ IsRun(r) /\ r.off % Chunk = 0 /\ (w => r.off = 0 /\ r.len = Size(g))
      BY <1>17, <2>1, <2>2, <2>3, <3>3
    <3>5. o + z <= Size(g) /\ Holds(g, at, o, z) /\ Inside(r, o, z)
      BY <3>2, <3>3 DEF Holds
    <3>6. HashRun(w, Slice(mem, at + r.off - o, r.len), r.off) = Value(Content(g), w, r)
      BY <3>4, <3>5, HashedAtOnce
    <3> QED  BY <3>1, <3>3, <3>6
  <2>5. r.cv = HashRun(whole, Slice(mem, cur.at + r.off - p.off, r.len), r.off)
    BY <1>3, <1>8, <1>22, <1>25, <2>1
  <2> QED  BY <2>1, <2>4, <2>5
<1>26. /\ IsFile(h) /\ Grown(hf[f], h, add) /\ h.open = hf[f].open /\ h.got = hf[f].got + n
       /\ h.whole = whole /\ h.done = hf[f].done
  <2>1. Len(add) \in Nat /\ n \in Nat /\ \A k \in 1..Len(add) : IsRun(add[k])
    BY <1>14, <1>22, <1>24
  <2> QED  BY <1>2, <1>17, <1>24, <2>1, GrownIs
<1>27. new \in Seq(Job) /\ Len(new) = Len(row)
       /\ \A k \in 1..Len(row) : new[k].f = f /\ new[k].i = Len(hf[f].runs) + k
  <2>1. ASSUME NEW k \in 1..Len(row)
        PROVE  /\ new[k] \in Job /\ new[k].f = f /\ new[k].i = Len(hf[f].runs) + k
    <3>1. cur.at + row[k].off - p.off \in Nat
      <4>1. PICK a \in Nat, o \in Nat, q \in Nat :
              a = cur.at /\ o = row[k].off /\ q = p.off
        BY <1>14, <1>15, <1>23
      <4>2. q <= o
        BY <1>6, <1>23, <4>1 DEF Inside
      <4> QED  BY <4>1, <4>2
    <3>2. Len(hf[f].runs) + k \in Nat \ {0}
      <4>1. PICK l \in Nat, m \in Nat : l = Len(hf[f].runs) /\ m = Len(row)
        BY <1>17, <1>22 DEF IsFile
      <4> QED  BY <4>1
    <3> QED  BY <1>9, <1>14, <1>22, <3>1, <3>2 DEF Job
  <2>2. DOMAIN new = 1..Len(row) /\ new = [k \in 1..Len(row) |-> new[k]]
    BY <1>9, <1>22
  <2>3. Len(new) = Len(row)
    BY <1>22, <2>2
  <2> QED  BY <1>22, <2>1, <2>2, <2>3, SeqOfValues
<1>28. /\ todo' = [todo EXCEPT ![f] = @ \ {e}]
       /\ jobs' = IF Batch THEN jobs \o new ELSE jobs
       /\ IF h.got = Need(f)
          THEN Complete(f, h, next)
          ELSE hf' = [hf EXCEPT ![f] = h] /\ pc' = next /\ UNCHANGED <<done, recs>>
  BY <1>1, <1>19
<1>29. ~Batch => \A k \in 1..Len(row) : add[k].cv = Value(Content(f), h.whole, add[k])
  BY <1>25, <1>26
<1>30. h.whole = IsWhole(e, Size(f)) /\ h.whole \in BOOLEAN
  BY <1>4, <1>20, <1>26, Zenon
<1>31. IF Batch
       THEN \E news \in Seq(Job) :
              /\ jobs' = jobs \o news /\ Len(news) = Len(row)
              /\ \A k \in 1..Len(row) : news[k].f = f /\ news[k].i = Len(hf[f].runs) + k
       ELSE jobs' = jobs
  BY <1>27, <1>28
<1>32. h.got = hf[f].got + Bytes(Size(f), e) /\ h.open
  BY <1>14, <1>26
<1>33. Takes(f, e, row, add, h, next)
  BY <1>5, <1>14, <1>21, <1>24, <1>26, <1>28, <1>29, <1>30, <1>31, <1>32, Zenon DEF Takes
<1> QED  BY <1>1, <1>14, <1>33

(* With the runs of one piece more, those that wait and the others.        *)
LEMMA ValuedAdded ==
  ASSUME NEW in, NEW h, NEW g, NEW add, Grown(h, g, add), NEW w, Valued(in, h, w),
         ~h.whole, g.whole => Len(h.runs) = 0,
         NEW v, w \subseteq v,
         \A k \in 1..Len(add) : Len(h.runs) + k \in v \/ add[k].cv = Value(in, g.whole, add[k])
  PROVE  Valued(in, g, v)
<1> SUFFICES ASSUME NEW x \in 1..Len(g.runs), x \notin v
             PROVE  g.runs[x].cv = Value(in, g.whole, g.runs[x])
  BY DEF Valued
<1>1. CASE x \in 1..Len(h.runs) /\ g.runs[x] = h.runs[x]
  <2>1. x \notin w
    OBVIOUS
  <2>2. h.runs[x].cv = Value(in, h.whole, h.runs[x])
    BY <1>1, <2>1 DEF Valued
  <2>3. ~g.whole
    BY <1>1
  <2> QED  BY <1>1, <2>2, <2>3 DEF Value
<1>2. ASSUME NEW k \in 1..Len(add), x = Len(h.runs) + k, g.runs[x] = add[k]
      PROVE  g.runs[x].cv = Value(in, g.whole, g.runs[x])
  BY <1>2
<1> QED  BY <1>1, <1>2, GrownRuns

(* The jobs of a delivery come behind those there are.                     *)
Behind(js, new, all) ==
  /\ \A i \in DOMAIN js : i \in DOMAIN all /\ all[i] = js[i]
  /\ \A k \in 1..Len(new) : Len(js) + k \in DOMAIN all /\ all[Len(js) + k] = new[k]
  /\ \A i \in DOMAIN all : i \in DOMAIN js \/ \E k \in 1..Len(new) : i = Len(js) + k

(* That is what appending does.                                            *)
LEMMA JobsGrow ==
  ASSUME NEW S, NEW js \in Seq(S), NEW new \in Seq(S), NEW all, all = js \o new
  PROVE  Behind(js, new, all)
<1>1. PICK l \in Nat, m \in Nat : l = Len(js) /\ m = Len(new)
  BY LenProperties
<1>2. DOMAIN js = 1..l /\ DOMAIN all = 1..(l + m)
      /\ \A i \in 1..(l + m) : all[i] = IF i <= l THEN js[i] ELSE new[i - l]
  <2>1. all \in Seq(S) /\ Len(all) = l + m
        /\ \A i \in 1..(l + m) : all[i] = IF i <= l THEN js[i] ELSE new[i - l]
    BY <1>1, ConcatProperties
  <2>2. DOMAIN all = 1..Len(all)
    BY <2>1, LenProperties
  <2> QED  BY <1>1, <2>1, <2>2, LenProperties
<1>3. \A i \in 1..l : i \in 1..(l + m) /\ all[i] = js[i]
  BY <1>2
<1>4. ASSUME NEW k \in 1..m
      PROVE  l + k \in 1..(l + m) /\ all[l + k] = new[k]
  <2>1. l + k \in 1..(l + m) /\ ~(l + k <= l) /\ (l + k) - l = k
    OBVIOUS
  <2> QED  BY <1>2, <2>1
<1>5. ASSUME NEW i \in 1..(l + m)
      PROVE  i \in 1..l \/ \E k \in 1..m : i = l + k
  <2>1. i \in 1..l \/ (i - l \in 1..m /\ i = l + (i - l))
    OBVIOUS
  <2> QED  BY <2>1
<1> QED  BY <1>1, <1>2, <1>3, <1>4, <1>5 DEF Behind

(* The jobs of the m runs of file f behind the l-th.                       *)
JobsOf(f, l, m, new) ==
  Len(new) = m /\ \A k \in 1..m : new[k].f = f /\ new[k].i = l + k

(* deliver() in batch mode adds jobs of its file, one for each run.        *)
LEMMA WaitingMore ==
  ASSUME pc = "deliver", pc' \in {"used", "deliver"}, jobs \in Seq(Job),
         NEW new \in Seq(Job), jobs' = jobs \o new,
         NEW f, NEW l, NEW m, JobsOf(f, l, m, new)
  PROVE  /\ \A g : g # f => Waiting(g)' = Waiting(g)
         /\ Waiting(f) \subseteq Waiting(f)'
         /\ \A k \in 1..m : l + k \in Waiting(f)'
<1>0. Len(new) = m /\ \A k \in 1..m : new[k].f = f /\ new[k].i = l + k
  BY DEF JobsOf
<1>1. WaitingJobs = DOMAIN jobs /\ WaitingJobs' = DOMAIN jobs'
  BY DEF WaitingJobs
<1>2. PICK js, all : js = jobs /\ all = jobs'
  OBVIOUS
<1>3. PICK D1, D2 : D1 = DOMAIN js /\ D2 = DOMAIN all
  OBVIOUS
<1>4. /\ \A g : Waiting(g) = {js[i].i : i \in {j \in D1 : js[j].f = g}}
      /\ \A g : Waiting(g)' = {all[i].i : i \in {j \in D2 : all[j].f = g}}
  BY <1>1, <1>2, <1>3 DEF Waiting
<1>5. /\ \A i \in D1 : i \in D2 /\ all[i] = js[i]
      /\ \A k \in 1..m : Len(js) + k \in D2 /\ all[Len(js) + k] = new[k]
      /\ \A i \in D2 : i \in D1 \/ \E k \in 1..m : i = Len(js) + k
  <2>1. PICK S : S = Job
    OBVIOUS
  <2>2. js \in Seq(S) /\ new \in Seq(S) /\ all = js \o new
    BY <1>2, <2>1
  <2>3. Behind(js, new, all)
    BY <2>2, JobsGrow
  <2> QED  BY <1>0, <1>3, <2>3, Zenon DEF Behind
<1>6. ASSUME NEW g
      PROVE  Waiting(g) \subseteq Waiting(g)'
  <2> SUFFICES ASSUME NEW i \in D1, js[i].f = g PROVE js[i].i \in Waiting(g)'
    BY <1>4
  <2>1. i \in D2 /\ all[i] = js[i]
    BY <1>5
  <2> QED  BY <1>4, <2>1
<1>7. ASSUME NEW g, g # f
      PROVE  Waiting(g)' \subseteq Waiting(g)
  <2> SUFFICES ASSUME NEW i \in D2, all[i].f = g PROVE all[i].i \in Waiting(g)
    BY <1>4
  <2>1. CASE i \in D1
    <3>1. all[i] = js[i] /\ js[i].f = g
      BY <1>5, <2>1
    <3>2. js[i].i \in {js[k].i : k \in {j \in D1 : js[j].f = g}}
      BY <2>1, <3>1
    <3>3. js[i].i \in Waiting(g)
      BY <1>4, <3>2
    <3> QED  BY <3>1, <3>3
  <2>2. ASSUME NEW k \in 1..m, i = Len(js) + k
        PROVE  FALSE
    <3>1. all[i] = new[k] /\ new[k].f = f
      BY <1>0, <1>5, <2>2
    <3> QED  BY <1>7, <3>1
  <2> QED  BY <1>5, <2>1, <2>2
<1>8. ASSUME NEW k \in 1..m
      PROVE  l + k \in Waiting(f)'
  <2>1. PICK i \in D2 : all[i] = new[k]
    BY <1>5
  <2>2. all[i].f = f /\ all[i].i = l + k
    BY <1>0, <2>1
  <2> QED  BY <1>4, <2>2
<1>9. ASSUME NEW g, g # f
      PROVE  Waiting(g)' = Waiting(g)
  <2>1. Waiting(g)' \subseteq Waiting(g)
    BY <1>7, <1>9
  <2>2. Waiting(g) \subseteq Waiting(g)'
    BY <1>6
  <2> QED  BY <2>1, <2>2, Zenon
<1> QED  BY <1>6, <1>8, <1>9, Zenon

(* The last byte of a file is the last byte of its last piece.             *)
LEMMA LastPiece ==
  ASSUME EInv, pc # "dead", NEW f \in File, NEW e \in todo[f]
  PROVE  hf[f].got + Bytes(Size(f), e) = Need(f) <=> todo[f] \ {e} = {}
<1>1. InputOK /\ todo[f] \subseteq vol[f].data /\ IsFile(hf[f])
  BY DEF EInv, Shapes, InputOK
<1>2. hf[f].got + SumBytes(Size(f), todo[f]) = Need(f)
  BY CountIs
<1>3. Counted(Size(f), todo[f])
  BY <1>1, FileIs
<1>4. SumBytes(Size(f), todo[f]) = Bytes(Size(f), e) + SumBytes(Size(f), todo[f] \ {e})
  BY <1>3, SumWithout
<1>5. SumBytes(Size(f), todo[f] \ {e}) \in Nat
  BY <1>3, LessCounted, SumSome
<1>6. SumBytes(Size(f), todo[f] \ {e}) = 0 <=> todo[f] \ {e} = {}
  <2>1. PICK ps \in SUBSET vol[f].data : ps = todo[f] \ {e}
    BY <1>1
  <2> QED  BY <1>1, <2>1, NothingLeft
<1>7. Bytes(Size(f), e) \in Nat
  BY <1>1, FileIs
<1>8. hf[f].got \in Nat
  BY <1>1 DEF IsFile
<1>9. PICK a \in Nat, b \in Nat, c \in Nat :
        /\ a = hf[f].got /\ b = SumBytes(Size(f), todo[f] \ {e}) /\ c = Bytes(Size(f), e)
  BY <1>5, <1>7, <1>8
<1>10. Need(f) = a + (c + b)
  BY <1>2, <1>4, <1>9
<1>11. a + c = a + (c + b) <=> b = 0
  OBVIOUS
<1> QED  BY <1>6, <1>9, <1>10, <1>11

(* What deliver() does to its file, and to no other.                       *)
LEMMA DeliverGood ==
  ASSUME EInv, DInv, Deliver
  PROVE  DInv' /\ (recs' = recs \/ Records)
<1>1. pc = "deliver" /\ UNCHANGED <<threads, vol, mem, fill, unhashed>>
  BY DeliverTakes
<1>f. PICK f \in File : \E e, row, add, h, next : Takes(f, e, row, add, h, next)
  BY DeliverTakes
<1>2. PICK e, row, add, h, next : Takes(f, e, row, add, h, next)
  BY <1>f
<1>3. /\ e \in todo[f] /\ hf[f].open
      /\ RowOf(Size(f), e, row) /\ Len(add) = Len(row)
      /\ \A k \in 1..Len(row) : add[k].off = row[k].off /\ add[k].len = row[k].len
      /\ ~Batch => \A k \in 1..Len(row) : add[k].cv = Value(Content(f), h.whole, add[k])
      /\ IsFile(h) /\ Grown(hf[f], h, add)
      /\ h.whole = IsWhole(e, Size(f)) /\ h.whole \in BOOLEAN /\ h.done = hf[f].done /\ h.open
      /\ h.got = hf[f].got + Bytes(Size(f), e)
      /\ todo' = [todo EXCEPT ![f] = @ \ {e}]
      /\ next \in {"used", "deliver"}
      /\ IF h.got = Need(f) THEN Complete(f, h, next)
         ELSE hf' = [hf EXCEPT ![f] = h] /\ pc' = next /\ UNCHANGED <<done, recs>>
  BY <1>2, Zenon DEF Takes
<1>4. /\ InputOK /\ todo \in [File -> SUBSET Extent] /\ todo[f] \subseteq vol[f].data
      /\ DOMAIN hf = File /\ hf = [g \in File |-> hf[g]] /\ IsFile(hf[f])
      /\ jobs \in Seq(Job) /\ done \in Seq(File)
  BY DEF EInv, Shapes, InputOK
<1>5. FileEnds(f) /\ (hf[f].done \/ FileRuns(f))
  BY DEF DInv, FilesInv
<1>6. ~hf[f].done /\ ~Awaited(f) /\ FileRuns(f) /\ hf[f].done = FALSE
  BY <1>3, <1>5 DEF FileEnds
<1>7. PICK size, in, ps, w, h0 :
        /\ size = Size(f) /\ in = Content(f) /\ ps = vol[f].data \ todo[f] /\ w = Waiting(f)
        /\ h0 = hf[f]
  OBVIOUS
<1>8. Laid(size, ps, h0) /\ Valued(in, h0, w)
  BY <1>6, <1>7 DEF FileRuns
<1>9. /\ e \notin ps /\ ps \cup {e} \subseteq vol[f].data
      /\ ps \cup {e} = vol[f].data \ (todo[f] \ {e})
  BY <1>3, <1>4, <1>7
<1>10. ArePieces(size, ps \cup {e}) /\ size \in Nat
  <2>1. ArePieces(size, vol[f].data) /\ size \in Nat
    BY <1>4, <1>7, ContentIs
  <2> QED  BY <1>9, <2>1 DEF ArePieces
<1>11. Laid(size, ps \cup {e}, h) /\ (h.whole => Len(h0.runs) = 0) /\ ~h0.whole
  <2>1. /\ RowOf(size, e, row) /\ Grown(h0, h, add) /\ h.whole = IsWhole(e, size) /\ IsFile(h0)
    BY <1>3, <1>4, <1>7
  <2>2. /\ Len(add) = Len(row)
        /\ \A k \in 1..Len(row) : add[k].off = row[k].off /\ add[k].len = row[k].len
    BY <1>3
  <2>3. e \notin ps
    BY <1>9
  <2> QED  BY <1>8, <1>10, <2>1, <2>2, <2>3, LaidMore
<1>12. todo'[f] = todo[f] \ {e} /\ \A g \in File : g # f => todo'[g] = todo[g]
  BY <1>3, <1>4
<1>13. h.got = Need(f) <=> todo'[f] = {}
  BY <1>1, <1>3, <1>12, LastPiece
(* what it leads to *)
<1>14. \/ /\ hf' = [hf EXCEPT ![f] = h] /\ pc' = next /\ recs' = recs
          /\ \/ todo'[f] # {} /\ done' = done
             \/ Batch /\ todo'[f] = {} /\ done' = Append(done, f)
       \/ /\ ~Batch /\ todo'[f] = {} /\ done' = done
          /\ Finish(f, h, next)
  BY <1>3, <1>13, Zenon DEF Complete
<1>15. ASSUME ~Batch
       PROVE  Valued(in, h, {}) /\ jobs' = <<>> /\ jobs = <<>>
  <2>1. jobs = <<>> /\ jobs' = <<>>
    <3>1. jobs = <<>>
      BY <1>15 DEF EInv, FillInv
    <3>2. jobs' = jobs
      BY <1>2, <1>15 DEF Takes
    <3> QED  BY <3>1, <3>2
  <2>2. w = {}
    BY <1>1, <1>7, <2>1 DEF Waiting, WaitingJobs
  <2>3. \A k \in 1..Len(add) : add[k].cv = Value(in, h.whole, add[k])
    BY <1>3, <1>7, <1>15
  <2>4. Valued(in, h, {})
    <3>1. Grown(h0, h, add) /\ w \subseteq {}
      BY <1>3, <1>7, <2>2
    <3> QED  BY <1>8, <1>11, <2>3, <3>1, ValuedAdded
  <2> QED  BY <2>1, <2>4
<1>16. \/ /\ hf' = [hf EXCEPT ![f] = h] /\ recs' = recs
          /\ \/ todo'[f] # {} /\ done' = done
             \/ Batch /\ todo'[f] = {} /\ done' = Append(done, f)
       \/ /\ ~Batch /\ todo'[f] = {} /\ done' = done
          /\ hf' = [hf EXCEPT ![f] = Finished(h)] /\ recs' = Append(recs, Recorded(f))
  <2>1. ASSUME ~Batch, todo'[f] = {}, Finish(f, h, next)
        PROVE  hf' = [hf EXCEPT ![f] = Finished(h)] /\ recs' = Append(recs, Recorded(f))
    <3>1. ps \cup {e} = vol[f].data
      BY <1>9, <1>12, <2>1
    <3>2. Laid(Size(f), vol[f].data, h) /\ Valued(Content(f), h, {}) /\ IsFile(h)
      BY <1>3, <1>7, <1>11, <1>15, <2>1, <3>1
    <3> QED  BY <1>4, <2>1, <3>2, FinishRecords
  <2> QED  BY <1>14, <2>1
<1>17. pc' \in {"used", "deliver"}
  <2>1. ASSUME ~Batch, todo'[f] = {}, Finish(f, h, next)
        PROVE  pc' = next
    <3>1. ps \cup {e} = vol[f].data
      BY <1>9, <1>12, <2>1
    <3>2. Laid(Size(f), vol[f].data, h) /\ Valued(Content(f), h, {}) /\ IsFile(h)
      BY <1>3, <1>7, <1>11, <1>15, <2>1, <3>1
    <3> QED  BY <1>4, <2>1, <3>2, FinishRecords
  <2> QED  BY <1>3, <1>14, <2>1
<1>18. /\ \A g \in File : g # f => Waiting(g)' = Waiting(g)
       /\ Valued(in, h, Waiting(f)')
  <2>1. CASE Batch
    <3>0. PICK m, l : m = Len(row) /\ l = Len(hf[f].runs)
      OBVIOUS
    <3>1. PICK new \in Seq(Job) : jobs' = jobs \o new /\ JobsOf(f, l, m, new)
      <4>1. PICK new \in Seq(Job) :
              /\ jobs' = jobs \o new /\ Len(new) = Len(row)
              /\ \A k \in 1..Len(row) : new[k].f = f /\ new[k].i = Len(hf[f].runs) + k
        BY <1>2, <2>1, Zenon DEF Takes
      <4> QED  BY <3>0, <4>1 DEF JobsOf
    <3>2. PICK v : v = Waiting(f)'
      OBVIOUS
    <3>3. /\ \A g : g # f => Waiting(g)' = Waiting(g)
          /\ w \subseteq v
          /\ \A k \in 1..m : l + k \in v
      <4>1. /\ \A g : g # f => Waiting(g)' = Waiting(g)
            /\ Waiting(f) \subseteq Waiting(f)'
            /\ \A k \in 1..m : l + k \in Waiting(f)'
        BY <1>1, <1>4, <1>17, <3>1, WaitingMore
      <4> QED  BY <1>7, <3>2, <4>1
    <3>4. Valued(in, h, v)
      <4>1. Grown(h0, h, add) /\ \A k \in 1..Len(add) : Len(h0.runs) + k \in v
        BY <1>3, <1>7, <3>0, <3>3
      <4> QED  BY <1>8, <1>11, <3>3, <4>1, ValuedAdded
    <3> QED  BY <3>2, <3>3, <3>4
  <2>2. CASE ~Batch
    <3>1. WaitingJobs = {} /\ WaitingJobs' = {}
      BY <1>1, <1>15, <1>17, <2>2 DEF WaitingJobs
    <3>2. \A g : Waiting(g) = {} /\ Waiting(g)' = {}
      BY <3>1 DEF Waiting
    <3> QED  BY <1>15, <2>2, <3>2
  <2> QED  BY <2>1, <2>2
<1>19. \A g \in File : g # f => hf'[g] = hf[g]
  BY <1>4, <1>16
<1>20. /\ \A g \in File : g # f => (Awaited(g)' <=> Awaited(g))
       /\ done' = done => ~Awaited(f)'
  <2>1. CASE done' = done
    BY <1>6, <2>1 DEF Awaited
  <2>2. CASE done' = Append(done, f)
    <3>1. PICK n \in Nat : n = Len(done)
      BY <1>4, LenProperties
    <3>2. PICK ds : ds = done'
      OBVIOUS
    <3>3. Len(ds) = n + 1 /\ ds[n + 1] = f /\ \A k \in 1..n : ds[k] = done[k]
      BY <1>4, <2>2, <3>1, <3>2, AppendProperties
    <3>4. \A g : Awaited(g)' <=> \E k \in 1..(n + 1) : ds[k] = g
      BY <3>2, <3>3 DEF Awaited
    <3>5. \A g : Awaited(g) <=> \E k \in 1..n : done[k] = g
      BY <3>1 DEF Awaited
    <3>6. \A k \in 1..(n + 1) : k \in 1..n \/ k = n + 1
      OBVIOUS
    <3>7. \A k \in 1..n : k \in 1..(n + 1)
      OBVIOUS
    <3>8. done' # done
      <4>1. n + 1 # n
        OBVIOUS
      <4> QED  BY <3>1, <3>2, <3>3, <4>1
    <3> QED  BY <3>3, <3>4, <3>5, <3>6, <3>7, <3>8
  <2> QED  BY <1>16, <2>1, <2>2
<1>21. /\ Finished(h).done = TRUE /\ Finished(h).open /\ Finished(h).whole = h.whole
  BY <1>3, FieldsKept
<1>22. FilesInv'
  <2> SUFFICES ASSUME NEW g \in File
               PROVE  FileEnds(g)' /\ (hf'[g].done \/ FileRuns(g)')
    BY <1>1, SameContent DEF FilesInv
  <2>1. CASE g # f
    <3>1. FileEnds(g) /\ (hf[g].done \/ FileRuns(g))
      BY DEF DInv, FilesInv
    <3>2. hf'[g] = hf[g] /\ todo'[g] = todo[g] /\ (Awaited(g)' <=> Awaited(g))
          /\ Waiting(g)' = Waiting(g) /\ UNCHANGED <<threads, vol>>
      BY <1>1, <1>12, <1>18, <1>19, <1>20, <2>1
    <3> QED  BY <3>1, <3>2, FileStays
  <2>2. CASE g = f /\ hf' = [hf EXCEPT ![f] = h]
    <3>1. hf'[f] = h
      BY <1>4, <2>2
    <3>2. h.done = FALSE /\ h.open
      BY <1>3, <1>6
    <3>3. (todo'[f] # {} /\ ~Awaited(f)') \/ (todo'[f] = {} /\ Awaited(f)')
      <4>1. CASE todo'[f] # {} /\ done' = done
        BY <1>20, <4>1
      <4>2. CASE todo'[f] = {} /\ done' = Append(done, f)
        <5>1. Len(done') = Len(done) + 1 /\ done'[Len(done) + 1] = f /\ Len(done) \in Nat
          BY <1>4, <4>2, AppendProperties, LenProperties
        <5>2. Len(done) + 1 \in 1..Len(done')
          BY <5>1
        <5>3. Awaited(f)'
          BY <5>1, <5>2 DEF Awaited
        <5> QED  BY <4>2, <5>3
      <4>3. CASE hf' = [hf EXCEPT ![f] = Finished(h)]
        BY <1>4, <1>21, <3>1, <3>2, <4>3
      <4> QED  BY <1>16, <4>1, <4>2, <4>3
    <3>4. FileEnds(f)'
      BY <1>3, <3>1, <3>2, <3>3 DEF FileEnds
    <3>5. FileRuns(f)'
      <4>1. /\ Size(f)' = size /\ Content(f)' = in /\ vol'[f].data \ todo'[f] = ps \cup {e}
        BY <1>1, <1>7, <1>9, <1>12, SameVolume, SameContent
      <4> QED  BY <1>11, <1>18, <3>1, <4>1 DEF FileRuns
    <3> QED  BY <2>2, <3>4, <3>5
  <2>3. CASE g = f /\ hf' = [hf EXCEPT ![f] = Finished(h)] /\ todo'[f] = {} /\ done' = done
    <3>1. hf'[f] = Finished(h)
      BY <1>4, <2>3
    <3>2. ~Awaited(f)'
      BY <1>20, <2>3
    <3>3. Finished(h).whole \in BOOLEAN /\ Finished(h).done \in BOOLEAN
      BY <1>3, <1>21
    <3>4. FileEnds(f)'
      BY <1>21, <2>3, <3>1, <3>2, <3>3 DEF FileEnds
    <3> QED  BY <1>21, <2>3, <3>1, <3>4
  <2> QED  BY <1>16, <2>1, <2>2, <2>3
<1>23. DoneOnce'
  <2>1. CASE done' = done
    BY <2>1 DEF DInv, DoneOnce
  <2>2. CASE done' = Append(done, f)
    <3>1. PICK n \in Nat : n = Len(done)
      BY <1>4, LenProperties
    <3>2. PICK ds : ds = done'
      OBVIOUS
    <3>3. Len(ds) = n + 1 /\ ds[n + 1] = f /\ \A k \in 1..n : ds[k] = done[k]
      BY <1>4, <2>2, <3>1, <3>2, AppendProperties
    <3>4. \A k \in 1..n : ds[k] # f
      BY <1>6, <3>1, <3>3 DEF Awaited
    <3>5. \A j, k \in 1..n : ds[j] = ds[k] => j = k
      BY <3>1, <3>3 DEF DInv, DoneOnce
    <3>6. \A k \in 1..(n + 1) : k \in 1..n \/ k = n + 1
      OBVIOUS
    <3>7. \A j, k \in 1..(n + 1) : ds[j] = ds[k] => j = k
      BY <3>3, <3>4, <3>5, <3>6, Zenon
    <3> QED  BY <3>2, <3>3, <3>7 DEF DoneOnce
  <2> QED  BY <1>16, <2>1, <2>2
<1>24. LastInv'
  BY <1>17 DEF LastInv
<1>25. RecsInv'
  <2>1. \A g \in File : hf[g].done => hf'[g].done
    BY <1>6, <1>19
  <2>2. \/ recs' = recs
        \/ \E g \in File : hf'[g].done /\ recs' = Append(recs, Recorded(g))
    BY <1>4, <1>16, <1>21
  <2> QED  BY <1>1, <2>1, <2>2, RecsStay DEF DInv
<1>26. DInv'
  BY <1>17, <1>22, <1>23, <1>24, <1>25 DEF DInv
<1>27. recs' = recs \/ Records
  BY <1>6, <1>16 DEF Records
<1> QED  BY <1>26, <1>27

(* Every step keeps what becomes of a file right, and records one file     *)
(* that was not recorded yet, or none.                                     *)
LEMMA StepGood ==
  ASSUME EInv, DInv, [Next]_vars
  PROVE  DInv' /\ (recs' = recs \/ Records)
<1>1. ASSUME NEW f \in File, Open(f) PROVE DInv' /\ (recs' = recs \/ Records)
  BY <1>1, OpenGood
<1>2. ASSUME NEW ps \in Reads, NEW want \in Wants(ps), HbBuf(ps, want)
      PROVE  DInv' /\ (recs' = recs \/ Records)
  BY <1>2, HbBufGood
<1>3. CASE Read
  BY <1>3, ReadGood
<1>4. CASE Deliver
  BY <1>4, DeliverGood
<1>5. CASE HbUsed
  BY <1>5, ReadGood
<1>6. ASSUME NEW i \in unhashed, HashJob(i) PROVE DInv' /\ (recs' = recs \/ Records)
  BY <1>6, HashJobGood
<1>7. CASE PoolReturns
  BY <1>7, PoolReturnsGood
<1>8. CASE FinishDone
  BY <1>8, FinishDoneGood
<1>9. CASE FlushReturns
  BY <1>9, FlushReturnsGood
<1>10. CASE LastFlush
  BY <1>10, LastFlushGood
<1>11. CASE CheckComplete
  BY <1>11, CheckCompleteGood
<1>12. CASE UNCHANGED vars
  BY <1>12, StutterGood
<1> QED
  BY <1>1, <1>2, <1>3, <1>4, <1>5, <1>6, <1>7, <1>8, <1>9, <1>10, <1>11, <1>12
  DEF Next, Step, Exited

(* What becomes of a file is an invariant: its runs cover what was         *)
(* delivered of it, none of them is misaligned, and each is worth what its *)
(* bytes are, or waits for a job (accbench.c:163-393).                     *)
THEOREM FilesComeRight == Spec => [](EInv /\ DInv)
<1>1. EInv /\ DInv /\ [Next]_vars => DInv'
  BY StepGood
<1> QED  BY <1>1, EngineInv, InitGood, PTL DEF Spec

(* No order of arrival makes a legal method die: the merge finds every run *)
(* (accbench.c:262-264), and every file is complete at the end (common.rs: *)
(* 429-434).                                                               *)
THEOREM NoneDies == Spec => []NeverDies
<1>1. DInv => NeverDies
  BY DEF DInv, NeverDies
<1> QED  BY <1>1, FilesComeRight, PTL

(* The tree of the abstract specification is the one the code's is.        *)
LEMMA SameTree == \A in : D!SpecTree(in, 0, TRUE) = SpecTree(in, 0, TRUE)
BY Zenon DEF D!SpecTree, D!SpecNodes, D!ChunkCV, D!Node, D!SpecLeft, D!PowerOfTwo, D!Slice,
             D!Parent, D!RootParent, D!Tree, SpecTree, SpecNodes, ChunkCV, Node, SpecLeft,
             PowerOfTwo, Slice, Parent, RootParent, Tree

(* No step changes what is read.                                           *)
LEMMA VolumeStays ==
  ASSUME [Next]_vars
  PROVE  UNCHANGED <<threads, vol>>
<1>1. ASSUME NEW f \in File, Open(f) PROVE UNCHANGED <<threads, vol>>
  BY <1>1 DEF Open
<1>2. ASSUME NEW ps \in Reads, NEW want \in Wants(ps), HbBuf(ps, want)
      PROVE  UNCHANGED <<threads, vol>>
  BY <1>2 DEF HbBuf
<1>3. CASE Read \/ HbUsed
  BY <1>3 DEF Read, HbUsed
<1>4. CASE Deliver
  BY <1>4 DEF Deliver
<1>5. ASSUME NEW i \in unhashed, HashJob(i) PROVE UNCHANGED <<threads, vol>>
  BY <1>5 DEF HashJob
<1>6. CASE PoolReturns \/ FinishDone \/ FlushReturns \/ LastFlush \/ CheckComplete
  BY <1>6 DEF PoolReturns, FinishDone, FlushReturns, LastFlush, CheckComplete
<1>7. CASE UNCHANGED vars
  BY <1>7 DEF vars
<1> QED  BY <1>1, <1>2, <1>3, <1>4, <1>5, <1>6, <1>7 DEF Next, Step, Exited

(* A file that is not finished was not recorded.                           *)
LEMMA NotRecorded ==
  ASSUME RecsInv, NEW f, ~hf[f].done
  PROVE  \A i \in DOMAIN recs : recs[i].ino # f
<1> DEFINE S == {Recorded(g) : g \in {g \in File : hf[g].done}}
<1>1. recs \in Seq(S)
  BY DEF RecsInv
<1>2. ASSUME NEW r \in S
      PROVE  r.ino # f
  <2>1. PICK g \in File : hf[g].done /\ r = Recorded(g)
    OBVIOUS
  <2>2. r.ino = g
    BY <2>1 DEF Recorded
  <2> QED  BY <2>1, <2>2
<1> HIDE DEF S
<1>3. DOMAIN recs = 1..Len(recs)
  BY <1>1, LenProperties
<1>4. \A i \in 1..Len(recs) : recs[i] \in S
  BY <1>1, ElementOfSeq
<1> QED  BY <1>2, <1>3, <1>4

(* The content hash implements Digests: whatever the order of the reads,   *)
(* of the deliveries and of the jobs, every record is of a file that was   *)
(* not recorded before, with the BLAKE3 digest of its logical bytes, holes *)
(* as zeros (accbench.c:163-178).                                          *)
THEOREM EngineRefinesDigests == Spec => ImplementsDigests
<1>1. Init => D!Init
  BY DEF Init, D!Init
<1>2. ASSUME EInv, DInv, [Next]_vars
      PROVE  [D!Next]_(D!vars)
  <2>1. UNCHANGED <<threads, vol>>
    BY <1>2, VolumeStays
  <2>2. [f \in File |-> Content(f)]' = [f \in File |-> Content(f)]
    <3>1. File' = File /\ \A f : Content(f)' = Content(f)
      BY <2>1, SameContent
    <3> QED  BY <3>1
  <2>3. CASE recs' = recs
    BY <2>2, <2>3 DEF D!vars
  <2>4. CASE Records
    <3>1. PICK f \in File : ~hf[f].done /\ recs' = Append(recs, Recorded(f))
      BY <2>4 DEF Records
    <3>2. \A i \in DOMAIN recs : recs[i].ino # f
      BY <1>2, <3>1, NotRecorded DEF DInv
    <3>3. [g \in File |-> Content(g)][f] = Content(f)
      OBVIOUS
    <3>4. Recorded(f) = [ino |-> f, digest |-> D!SpecTree(Content(f), 0, TRUE)]
      BY SameTree DEF Recorded
    <3>5. D!Record(f)
      BY <2>2, <3>1, <3>2, <3>3, <3>4 DEF D!Record
    <3>6. D!Next
      BY <3>5 DEF D!Next
    <3> QED  BY <3>6
  <2> QED  BY <1>2, <2>3, <2>4, StepGood
<1> QED  BY <1>1, <1>2, FilesComeRight, PTL DEF Spec, ImplementsDigests, D!Spec
=============================================================================
