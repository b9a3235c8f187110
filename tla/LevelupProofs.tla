---------------------------- MODULE LevelupProofs ----------------------------
(***************************************************************************)
(* The tree functions of b3tree.c and the digest b3min prints are BLAKE3's *)
(* for inputs, widths and pieces of any size: b3min keeps nodes of the     *)
(* tree, whatever read() returns, and what is left is the algorithms'.     *)
(***************************************************************************)
EXTENDS MCLevelup, AlgorithmProofs

-----------------------------------------------------------------------------
(* The values b3min has kept, each at its place in the tree of the bytes   *)
(* that were read, however many more there will be.                        *)
Kept(c, k) == [i \in 1..c |-> NodeOf(First(k), 0, Mib * (i - 1), Mib)]

SumInv ==
  /\ size \in Nat /\ pos \in 0..size
  /\ n \in 0..Mib
  /\ pc \in {"read", "piece", "done", "crash"}
  /\ \E c \in Nat : pos = Mib * c + n /\ cv = Kept(c, pos)
  /\ DigestsWhatItRead

(* The bytes of a file so far,                                             *)
LEMMA FirstIs ==
  ASSUME NEW k \in Nat
  PROVE  First(k) \in Seq(Nat) /\ Len(First(k)) = k /\ \A i \in 1..k : First(k)[i] = i
<1>1. First(k) = [i \in 1..k |-> i]
  BY DEF First
<1>2. First(k) \in [1..k -> Nat]
  BY <1>1
<1> QED  BY <1>1, <1>2

(* of which a part stays what it is when more is read,                     *)
LEMMA PartOfFirst ==
  ASSUME NEW k \in Nat, NEW h \in Nat, k <= h, NEW a \in Nat, NEW len \in Nat, a + len <= k
  PROVE  Slice(First(k), a, len) = Slice(First(h), a, len)
<1> DEFINE x == Slice(First(k), a, len)
           y == Slice(First(h), a, len)
<1>0. /\ First(k) \in Seq(Nat) /\ a + len <= Len(First(k))
      /\ First(h) \in Seq(Nat) /\ a + len <= Len(First(h))
  BY FirstIs
<1>1. x \in Seq(Nat) /\ Len(x) = len /\ \A i \in 1..len : x[i] = First(k)[a + i]
  BY <1>0, SliceIs
<1>2. y \in Seq(Nat) /\ Len(y) = len /\ \A i \in 1..len : y[i] = First(h)[a + i]
  BY <1>0, SliceIs
<1> HIDE DEF x, y
<1>3. \A i \in 1..len : x[i] = y[i]
  <2>1. \A i \in 1..len : a + i \in 1..k /\ a + i \in 1..h
    OBVIOUS
  <2> QED  BY ZenonT(60), <1>1, <1>2, <2>1, FirstIs
<1>4. x = y
  BY <1>1, <1>2, <1>3, SeqEqual
<1> QED  BY <1>4 DEF x, y

(* What was read keeps its place in the tree when more is read.            *)
LEMMA NodeStays ==
  ASSUME NEW k \in Nat, NEW h \in Nat, k <= h,
         NEW a \in Nat, NEW len \in Nat, a + len <= k, a % Chunk = 0
  PROVE  NodeOf(First(k), 0, a, len) = NodeOf(First(h), 0, a, len)
<1>1. /\ First(k) \in Seq(Nat) /\ First(h) \in Seq(Nat)
      /\ a + len <= Len(First(k)) /\ a + len <= Len(First(h))
  BY FirstIs
<1>2. Subtree(Slice(First(k), a, len), a, 1) = NodeOf(First(k), 0, a, len)
  BY <1>1, SubtreeOfPart
<1>3. Subtree(Slice(First(h), a, len), a, 1) = NodeOf(First(h), 0, a, len)
  BY <1>1, SubtreeOfPart
<1>4. Slice(First(k), a, len) = Slice(First(h), a, len)
  BY PartOfFirst
<1> QED  BY <1>2, <1>3, <1>4, Zenon

(* A piece is a complete tree in whole chunks.                             *)
LEMMA MibIs == FullTree(Mib) /\ Mib \in Nat \ {0} /\ Mib % Chunk = 0
<1>1. PICK p \in 1..Mib : PowerOfTwo(p) /\ Mib = Chunk * p
  BY B3SumAssumption
<1>2. p \in Nat \ {0}
  OBVIOUS
<1>3. FullTree(Mib)
  BY <1>1, <1>2, Zenon DEF FullTree
<1> QED  BY <1>3, CompleteIs

(* Pieces start chunks.                                                    *)
LEMMA PlaceIs ==
  ASSUME NEW c \in Nat
  PROVE  Mib * c \in Nat /\ (Mib * c) % Chunk = 0
<1>1. PICK p \in 1..Mib : Mib = Chunk * p
  BY B3SumAssumption
<1>2. Mib * c = Chunk * (p * c) /\ p * c \in Nat
  BY <1>1, B3Assumption
<1> DEFINE q == p * c
<1> HIDE DEF q
<1>3. q \in Nat /\ Mib * c = Chunk * q
  BY <1>2 DEF q
<1> QED  BY <1>3, B3Assumption

(* The piece before another ends before it.                                *)
LEMMA ItemPlace ==
  ASSUME NEW c \in Nat, NEW i \in 1..c
  PROVE  /\ i - 1 \in Nat
         /\ Mib * (i - 1) \in Nat /\ Mib * c \in Nat
         /\ Mib * (i - 1) + Mib <= Mib * c
<1> USE MibIs
<1>1. i \in Nat /\ i - 1 \in Nat /\ i <= c
  OBVIOUS
<1>2. Mib * i <= Mib * c /\ Mib * c \in Nat
  BY <1>1, TimesMono
<1>3. Mib * i = Mib * (i - 1) + Mib /\ Mib * (i - 1) \in Nat
  BY <1>1
<1> QED  BY <1>1, <1>2, <1>3

(* Values of pieces stay right when more is read.                          *)
LEMMA KeptStays ==
  ASSUME NEW c \in Nat, NEW k \in Nat, NEW h \in Nat, k <= h, Mib * c <= k
  PROVE  Kept(c, k) = Kept(c, h)
<1>1. ASSUME NEW i \in 1..c
      PROVE  NodeOf(First(k), 0, Mib * (i - 1), Mib) = NodeOf(First(h), 0, Mib * (i - 1), Mib)
  <2>1. /\ Mib * (i - 1) \in Nat /\ Mib \in Nat /\ (Mib * (i - 1)) % Chunk = 0
        /\ Mib * (i - 1) + Mib <= k
    <3>1. /\ i - 1 \in Nat /\ Mib * (i - 1) \in Nat /\ Mib * c \in Nat
          /\ Mib * (i - 1) + Mib <= Mib * c /\ Mib \in Nat
      BY MibIs, ItemPlace
    <3>2. (Mib * (i - 1)) % Chunk = 0
      BY <3>1, PlaceIs
    <3> QED  BY <3>1, <3>2
  <2> QED  BY <2>1, NodeStays
<1> QED  BY <1>1, Zenon DEF Kept

(* There are as many values as pieces.                                     *)
LEMMA KeptLen ==
  ASSUME NEW c \in Nat, NEW k
  PROVE  Len(Kept(c, k)) = c
<1> DEFINE F(i) == NodeOf(First(k), 0, Mib * (i - 1), Mib)
<1>1. Kept(c, k) = [i \in 1..c |-> F(i)]
  BY DEF Kept
<1> HIDE DEF F
<1> QED  BY <1>1

(* One more value, of a whole piece or of the last, is one more of the     *)
(* layer.                                                                  *)
OnNumbers(f, c) == f = [i \in 1..c |-> f[i]]

(* A value is added behind the others.                                     *)
LEMMA KeptAppend ==
  ASSUME NEW c \in Nat, NEW k, NEW f, OnNumbers(f, c + 1),
         \A i \in 1..c : f[i] = Kept(c, k)[i]
  PROVE  Append(Kept(c, k), f[c + 1]) = f
<1> DEFINE F(i) == NodeOf(First(k), 0, Mib * (i - 1), Mib)
<1>1. Kept(c, k) = [i \in 1..c |-> F(i)]
  BY DEF Kept
<1> HIDE DEF F
<1>2. Append(Kept(c, k), f[c + 1]) = [i \in 1..(Len(Kept(c, k)) + 1) |->
                                 IF i = Len(Kept(c, k)) + 1 THEN f[c + 1] ELSE Kept(c, k)[i]]
  BY <1>1 DEF Append
<1>3. Append(Kept(c, k), f[c + 1])
        = [i \in 1..(c + 1) |-> IF i = c + 1 THEN f[c + 1] ELSE Kept(c, k)[i]]
  BY <1>2, KeptLen
<1>4. ASSUME NEW i \in 1..(c + 1)
      PROVE  (IF i = c + 1 THEN f[c + 1] ELSE Kept(c, k)[i]) = f[i]
  <2>1. i # c + 1 => i \in 1..c
    OBVIOUS
  <2> QED  BY <2>1, Zenon
<1> QED  BY <1>3, <1>4, Zenon DEF OnNumbers

(* With the value of the next piece there is one more.                     *)
LEMMA KeptMore ==
  ASSUME NEW c \in Nat, NEW k
  PROVE  Append(Kept(c, k), NodeOf(First(k), 0, Mib * c, Mib)) = Kept(c + 1, k)
<1> DEFINE F(i) == NodeOf(First(k), 0, Mib * (i - 1), Mib)
           f == Kept(c + 1, k)
<1>1. f = [i \in 1..(c + 1) |-> F(i)] /\ Kept(c, k) = [i \in 1..c |-> F(i)]
  BY DEF Kept
<1>2. c + 1 \in 1..(c + 1) /\ (c + 1) - 1 = c /\ \A i \in 1..c : i \in 1..(c + 1)
  OBVIOUS
<1>3. F(c + 1) = NodeOf(First(k), 0, Mib * c, Mib)
  BY <1>2, Zenon
<1> HIDE DEF F, f
<1>4. f[c + 1] = F(c + 1) /\ OnNumbers(f, c + 1) /\ \A i \in 1..c : f[i] = Kept(c, k)[i]
  BY <1>1, <1>2 DEF OnNumbers
<1>5. Append(Kept(c, k), f[c + 1]) = f
  BY <1>4, KeptAppend
<1> QED  BY <1>3, <1>4, <1>5, Zenon DEF f

(* The values of full pieces are a layer of the file that ends with them,  *)
LEMMA KeptIsLayer ==
  ASSUME NEW c \in Nat \ {0}
  PROVE  IsLayer(Kept(c, Mib * c), First(Mib * c), 0, Mib)
<1> DEFINE l == Mib * c
<1> USE MibIs
<1>1. l \in Nat \ {0} /\ Mib * (c - 1) < l
  OBVIOUS
<1>2. Len(First(l)) = l
  BY <1>1, FirstIs
<1>3. PieceCount(l, Mib) = c
  <2>1. l <= Mib * c
    BY <1>1
  <2> QED  BY <1>1, <2>1, PieceCountOnly
<1>4. ASSUME NEW i \in 1..c
      PROVE  Upto(l, Mib * (i - 1), Mib) = Mib
  BY ItemPlace DEF Upto
<1> HIDE DEF l
<1>5. Kept(c, l) = [i \in 1..PieceCount(Len(First(l)), Mib) |->
         NodeOf(First(l), 0, Mib * (i - 1), Upto(Len(First(l)), Mib * (i - 1), Mib))]
  BY <1>2, <1>3, <1>4, Zenon DEF Kept
<1> QED  BY <1>5, Zenon DEF IsLayer, l

(* and with the value of a short last piece of the file that ends with that. *)
LEMMA LastIsLayer ==
  ASSUME NEW c \in Nat \ {0}, NEW r \in 1..(Mib - 1), NEW l, l = Mib * c + r
  PROVE  IsLayer(Append(Kept(c, l), NodeOf(First(l), 0, Mib * c, r)), First(l), 0, Mib)
<1> USE MibIs
<1>1. Mib * c \in Nat /\ Mib * (c + 1) = Mib * c + Mib /\ r \in Nat
  OBVIOUS
<1>2. l \in Nat \ {0} /\ Mib * c < l /\ l <= Mib * (c + 1)
  BY <1>1
<1>3. Len(First(l)) = l
  BY <1>2, FirstIs
<1>4. PieceCount(l, Mib) = c + 1
  <2>1. c + 1 \in Nat \ {0} /\ (c + 1) - 1 = c
    OBVIOUS
  <2> QED  BY <1>2, <2>1, PieceCountOnly
<1> DEFINE G(i) == NodeOf(First(l), 0, Mib * (i - 1), Upto(l, Mib * (i - 1), Mib))
           f == [i \in 1..(c + 1) |-> G(i)]
           x == NodeOf(First(l), 0, Mib * c, r)
<1>5. G(c + 1) = x
  <2>1. (c + 1) - 1 = c
    OBVIOUS
  <2>2. Upto(l, Mib * c, Mib) = r
    BY <1>1 DEF Upto
  <2> QED  BY <2>1, <2>2, Zenon
<1>6. ASSUME NEW i \in 1..c
      PROVE  G(i) = Kept(c, l)[i]
  <2>1. Upto(l, Mib * (i - 1), Mib) = Mib
    BY <1>1, <1>2, ItemPlace DEF Upto
  <2> QED  BY <2>1, Zenon DEF Kept
<1>7. IsLayer(f, First(l), 0, Mib)
  BY <1>3, <1>4, Zenon DEF IsLayer
<1> HIDE DEF G, x
<1>8. f[c + 1] = x /\ OnNumbers(f, c + 1) /\ \A i \in 1..c : f[i] = Kept(c, l)[i]
  <2>1. c + 1 \in 1..(c + 1) /\ \A i \in 1..c : i \in 1..(c + 1)
    OBVIOUS
  <2> QED  BY <1>5, <1>6, <2>1 DEF OnNumbers
<1> HIDE DEF f
<1>9. Append(Kept(c, l), f[c + 1]) = f
  BY <1>8, KeptAppend
<1> QED  BY <1>7, <1>8, <1>9, Zenon DEF x
-----------------------------------------------------------------------------
(* The invariant of b3min.                                                 *)

(* The invariant of b3min holds at the start,                              *)
LEMMA SumInit == Init => SumInv
<1> SUFFICES ASSUME Init PROVE SumInv
  OBVIOUS
<1> USE B3SumAssumption, MibIs DEF Init
<1>1. size \in Nat /\ pos \in 0..size /\ n \in 0..Mib /\ pc \in {"read", "piece", "done", "crash"}
  OBVIOUS
<1>2. pos = Mib * 0 + n /\ 0 \in Nat
  OBVIOUS
<1>3. cv = Kept(0, pos)
  BY DEF Kept
<1>4. DigestsWhatItRead
  BY DEF DigestsWhatItRead
<1> QED  BY <1>1, <1>2, <1>3, <1>4, Zenon DEF SumInv

(* and every step of b3min keeps it.                                       *)
LEMMA SumStep == SumInv /\ [Next]_vars => SumInv'
<1> SUFFICES ASSUME SumInv, [Next]_vars PROVE SumInv'
  OBVIOUS
<1>1. /\ size \in Nat /\ pos \in 0..size /\ n \in 0..Mib
      /\ pc \in {"read", "piece", "done", "crash"} /\ DigestsWhatItRead
  BY DEF SumInv
<1>2. PICK c \in Nat : pos = Mib * c + n /\ cv = Kept(c, pos)
  BY Zenon DEF SumInv
<1>3. Mib * c \in Nat /\ Mib \in Nat \ {0} /\ pos \in Nat /\ n \in Nat /\ Mib * c <= pos
      /\ pos - n = Mib * c /\ Wide \in Nat \ {0}
  BY <1>1, <1>2, MibIs, PlaceIs, B3SumAssumption
<1>4. First(pos) \in Seq(Nat) /\ Len(First(pos)) = pos
  BY <1>3, FirstIs
<1>5. Buf = Slice(First(pos), Mib * c, n) /\ Len(cv) = c /\ (cv = <<>> <=> c = 0)
  <2>1. Len(cv) = c
    BY <1>2, KeptLen
  <2>2. c = 0 => cv = <<>>
    BY <1>2 DEF Kept
  <2>3. cv = <<>> => Len(cv) = 0
    OBVIOUS
  <2> QED  BY <1>3, <2>1, <2>2, <2>3 DEF Buf
(* The piece in buf, at its place in the tree. *)
<1>6. Subtree(Buf, c * Mib, Wide) = NodeOf(First(pos), 0, Mib * c, n)
  <2>1. c * Mib = Mib * c
    BY <1>3
  <2>2. (Mib * c) % Chunk = 0
    BY PlaceIs
  <2>3. Mib * c + n <= Len(First(pos))
    BY <1>2, <1>3, <1>4
  <2>4. Subtree(Slice(First(pos), Mib * c, n), Mib * c, Wide) = NodeOf(First(pos), 0, Mib * c, n)
    BY <1>3, <1>4, <2>2, <2>3, SubtreeOfPart
  <2> QED  BY <1>5, <2>1, <2>4, Zenon
<1>7. ASSUME NEW k \in 1..Mib, ReadSome(k)
      PROVE  SumInv'
  <2>1. /\ n < Mib /\ k <= Mib - n /\ k <= size - pos /\ pos' = pos + k /\ n' = n + k
        /\ size' = size /\ cv' = cv /\ pc = "read" /\ pc' = "read" /\ root' = root
    BY <1>7 DEF ReadSome
  <2>2. size' \in Nat /\ pos' \in 0..size' /\ n' \in 0..Mib /\ pos' = Mib * c + n'
    BY <1>1, <1>2, <1>3, <2>1
  <2>3. pos' \in Nat /\ pos <= pos'
    BY <1>1, <1>3, <2>1, <2>2
  <2>4. cv' = Kept(c, pos')
    BY <1>2, <1>3, <2>1, <2>3, KeptStays
  <2>5. DigestsWhatItRead'
    BY <2>1 DEF DigestsWhatItRead
  <2>6. pc' \in {"read", "piece", "done", "crash"}
    BY <2>1
  <2> QED  BY <2>2, <2>4, <2>5, <2>6, Zenon DEF SumInv, Kept
<1>8. ASSUME size' = size, pos' = pos, n' = n, cv' = cv, pc' \in {"read", "piece", "crash"}
      PROVE  SumInv'
  <2>1. DigestsWhatItRead'
    BY <1>8 DEF DigestsWhatItRead
  <2>2. pc' \in {"read", "piece", "done", "crash"}
    BY <1>8
  <2> QED  BY <1>1, <1>2, <1>8, <2>1, <2>2, Zenon DEF SumInv, Kept
<1>9. ASSUME NEW d, Printed(d), d = SpecTree(First(pos), 0, TRUE)
      PROVE  SumInv'
  <2>1. root' = d /\ pc' = "done" /\ size' = size /\ pos' = pos /\ n' = n /\ cv' = cv
    BY <1>9 DEF Printed
  <2>2. DigestsWhatItRead'
    BY <1>9, <2>1, Zenon DEF DigestsWhatItRead, First
  <2>3. pc' \in {"read", "piece", "done", "crash"}
    BY <2>1
  <2> QED  BY <1>1, <1>2, <2>1, <2>2, <2>3, Zenon DEF SumInv, Kept
<1>10. CASE ReadEnds
  BY <1>8, <1>10 DEF ReadEnds
<1>11. CASE OnePiece
  <2>1. c = 0 /\ Printed(Hash(Buf, Wide))
    BY <1>5, <1>11 DEF OnePiece
  <2>2. Mib * c = 0 /\ n = pos
    BY <1>2, <1>3, <2>1, MibIs
  <2>3. Buf = First(pos)
    BY <1>4, <1>5, <2>2, WholeSlice
  <2>4. Hash(Buf, Wide) = SpecTree(First(pos), 0, TRUE)
    BY <1>3, <1>4, <2>3, HashIsSpecTree
  <2> QED  BY <1>9, <2>1, <2>4
<1>12. CASE NothingLeft
  <2>1. n = 0
    BY <1>12 DEF NothingLeft
  <2>2. CASE Len(cv) > 1 /\ Printed(RootOfPieces(cv))
    <3>1. c > 1 /\ c \in Nat \ {0} /\ pos = Mib * c
      BY <1>2, <1>3, <1>5, <2>1, <2>2
    <3>2. IsLayer(cv, First(pos), 0, Mib)
      BY <1>2, <3>1, KeptIsLayer
    <3>3. Len(First(pos)) > Mib
      <4>1. Mib * 2 <= Mib * c
        BY <1>3, <3>1, TimesMono
      <4>2. Mib * 2 = Mib + Mib
        BY <1>3
      <4> QED  BY <1>3, <1>4, <3>1, <4>1, <4>2
    <3>4. RootOfPieces(cv) = SpecTree(First(pos), 0, TRUE)
      BY <1>4, <3>2, <3>3, MibIs, RootOfPiecesIsSpecTree
    <3> QED  BY <1>9, <2>2, <3>4
  <2>3. CASE pc' = "crash" /\ UNCHANGED <<size, pos, n, cv, root>>
    BY <1>8, <2>3
  <2> QED  BY <1>12, <2>2, <2>3 DEF NothingLeft
<1>13. CASE LastPiece
  <2>1. /\ c # 0 /\ 0 < n /\ n < Mib
        /\ Printed(RootOfPieces(Append(cv, NodeOf(First(pos), 0, Mib * c, n))))
    BY <1>5, <1>6, <1>13 DEF LastPiece
  <2> DEFINE vals == Append(cv, NodeOf(First(pos), 0, Mib * c, n))
  <2>2. c \in Nat \ {0} /\ n \in 1..(Mib - 1)
    BY <1>3, <2>1
  <2>3. IsLayer(vals, First(pos), 0, Mib)
    BY <1>2, <2>2, LastIsLayer
  <2>4. Len(First(pos)) > Mib
    <3>1. Mib * 1 <= Mib * c /\ Mib * 1 = Mib
      BY <1>3, <2>2, TimesMono
    <3>2. Mib <= Mib * c
      BY <3>1
    <3>3. \A x, y, z \in Nat : x <= y /\ 0 < z => y + z > x
      OBVIOUS
    <3> QED  BY <1>2, <1>3, <1>4, <2>1, <3>2, <3>3
  <2> HIDE DEF vals
  <2>5. RootOfPieces(vals) = SpecTree(First(pos), 0, TRUE)
    BY <1>4, <2>3, <2>4, MibIs, RootOfPiecesIsSpecTree
  <2> QED  BY <1>9, <2>1, <2>5, Zenon DEF vals
<1>14. CASE FullPiece
  <2>1. /\ n = Mib /\ cv' = Append(cv, NodeOf(First(pos), 0, Mib * c, Mib))
        /\ n' = 0 /\ pc' = "read" /\ size' = size /\ pos' = pos /\ root' = root
    BY <1>5, <1>6, <1>14 DEF FullPiece
  <2>2. cv' = Kept(c + 1, pos)
    BY <1>2, <2>1, KeptMore
  <2>3. c + 1 \in Nat /\ pos' = Mib * (c + 1) + n' /\ n' \in 0..Mib
    BY <1>2, <1>3, <2>1
  <2>4. DigestsWhatItRead'
    BY <2>1 DEF DigestsWhatItRead
  <2>5. pc' \in {"read", "piece", "done", "crash"} /\ size' \in Nat /\ pos' \in 0..size'
    BY <1>1, <2>1
  <2>6. Kept(c + 1, pos') = Kept(c + 1, pos)
    BY <2>1, Zenon DEF Kept
  <2> QED  BY <2>1, <2>2, <2>3, <2>4, <2>5, <2>6, Zenon DEF SumInv, Kept
<1>15. CASE UNCHANGED vars
  <2>1. size' = size /\ pos' = pos /\ n' = n /\ cv' = cv /\ pc' = pc /\ root' = root
    BY <1>15 DEF vars
  <2>2. DigestsWhatItRead'
    BY <1>1, <2>1, Zenon DEF DigestsWhatItRead, First
  <2> QED  BY <1>1, <1>2, <2>1, <2>2, Zenon DEF SumInv, Kept
<1> QED  BY <1>7, <1>10, <1>11, <1>12, <1>13, <1>14, <1>15, Zenon DEF Next, Exited

(* However read() cuts the file and whenever it fails, what b3min prints   *)
(* is BLAKE3 of the bytes it read.                                         *)
THEOREM PrintsDigestOfWhatItRead == Spec => []DigestsWhatItRead
<1>1. SumInv => DigestsWhatItRead
  BY DEF SumInv
<1> QED  BY SumInit, SumStep, <1>1, PTL DEF Spec

-----------------------------------------------------------------------------
InputInv ==
  IsPiece => /\ input.off \in Nat /\ input.len \in Nat /\ input.width \in Nat \ {0}
             /\ input.off % Chunk = 0

(* Whole chunks leave no remainder.                                        *)
LEMMA ChunksModulo ==
  ASSUME NEW r \in Nat
  PROVE  (Chunk * r) % Chunk = 0
BY B3Assumption

(* An aligned piece starts a chunk.                                        *)
LEMMA AlignedIs ==
  ASSUME NEW o \in Nat, NEW k \in Nat, Aligned(o, k)
  PROVE  o % Chunk = 0
<1>1. CASE k <= Chunk
  BY <1>1 DEF Aligned
<1>2. CASE k > Chunk
  <2>1. PICK p \in 1..k : LeftLen(k) = Chunk * p
    BY <1>2, LeftLenIs
  <2>2. ~(k <= Chunk)
    BY <1>2, B3Assumption
  <2>3. o % (2 * (Chunk * p)) = 0
    BY <2>1, <2>2, Zenon DEF Aligned
  <2>4. 2 * (Chunk * p) \in Nat \ {0}
    BY B3Assumption
  <2>5. PICK q \in Nat : o = (2 * (Chunk * p)) * q
    BY <2>3, <2>4, Divides
  <2>6. o = Chunk * (2 * (p * q)) /\ 2 * (p * q) \in Nat
    BY <2>5, B3Assumption
  <2> DEFINE r == 2 * (p * q)
  <2> HIDE DEF r
  <2>7. r \in Nat /\ o = Chunk * r
    BY <2>6 DEF r
  <2>8. (Chunk * r) % Chunk = 0
    BY <2>7, ChunksModulo
  <2> QED  BY <2>7, <2>8
<1>3. k <= Chunk \/ k > Chunk
  BY B3Assumption
<1> QED  BY <1>1, <1>2, <1>3

(* What is looked at has its shape,                                        *)
LEMMA InputInit == MCInit => InputInv
<1> SUFFICES ASSUME MCInit, IsPiece PROVE InputInv
  BY DEF InputInv
<1>1. input \in Pieces
  <2>1. CASE input = [file |-> size]
    BY <2>1 DEF IsPiece
  <2>2. CASE input \in Lists
    <3>1. PICK ks : input = [keys |-> ks]
      BY <2>2 DEF Lists
    <3> QED  BY <3>1 DEF IsPiece
  <2> QED  BY <2>1, <2>2 DEF MCInit
<1>2. /\ input.off \in 0..MaxLen /\ input.len \in 0..MaxLen /\ input.width \in Widths
      /\ Aligned(input.off, input.len)
  BY <1>1 DEF Pieces
<1>3. input.off \in Nat /\ input.len \in Nat
  BY <1>2
<1>4. input.width \in Nat \ {0}
  BY <1>2, LevelupAssumption
<1>5. input.off % Chunk = 0
  BY <1>2, <1>3, AlignedIs
<1> QED  BY <1>3, <1>4, <1>5 DEF InputInv

(* and stays as it is.                                                     *)
LEMMA InputStep == InputInv /\ [MCNext]_<<vars, input>> => InputInv'
BY DEF InputInv, MCNext, IsPiece

(* The bytes of a piece.                                                   *)
LEMMA PieceIs ==
  ASSUME input.len \in Nat, input.off \in Nat
  PROVE  /\ Piece \in Seq(Nat) /\ Len(Piece) = input.len
         /\ \A i \in 1..input.len : Piece[i] = input.off + i
<1> DEFINE l == input.len
           o == input.off
<1>1. Piece = [i \in 1..l |-> o + i]
  BY DEF Piece
<1> HIDE DEF l, o
<1>2. l \in Nat /\ o \in Nat
  BY DEF l, o
<1>3. Piece \in [1..l -> Nat]
  BY <1>1, <1>2
<1>4. Piece \in Seq(Nat) /\ Len(Piece) = l
  BY <1>2, <1>3
<1> QED  BY <1>1, <1>4 DEF l, o

(* The value of any aligned piece of a file, whatever the width, is that   *)
(* of its subtree in the file's tree, for pieces and widths of any size    *)
(* (b3tree.h:5-11).                                                        *)
THEOREM SubtreeOfAnyPiece == MCSpec => []SubtreeIsTree
<1>1. InputInv => SubtreeIsTree
  <2> SUFFICES ASSUME InputInv, IsPiece PROVE SubtreeIsTree
    BY DEF SubtreeIsTree
  <2>1. /\ input.off \in Nat /\ input.len \in Nat /\ input.width \in Nat \ {0}
        /\ input.off % Chunk = 0
    BY DEF InputInv
  <2>2. Piece \in Seq(Nat)
    BY <2>1, PieceIs
  <2>3. Subtree(Piece, input.off, input.width) = SpecTree(Piece, input.off \div Chunk, FALSE)
    BY <2>1, <2>2, SubtreeIsSpecTree
  <2> QED  BY <2>3, Zenon DEF SubtreeIsTree
<1> QED  BY InputInit, InputStep, <1>1, PTL DEF MCSpec

(* The values of the pieces of a file of several make a layer of its tree. *)
ValuesOf(in, len, w) ==
  LET k == (len + Mib - 1) \div Mib
      Cut(i) == Slice(in, i * Mib, IF i < k - 1 THEN Mib ELSE len - i * Mib)
  IN [i \in 1..k |-> Subtree(Cut(i - 1), (i - 1) * Mib, w)]

(* The values of a file's pieces, made by b3_subtree, are a layer of it.   *)
LEMMA PiecesAreLayer ==
  ASSUME NEW in \in Seq(Nat), Len(in) > 0, NEW w \in Nat \ {0}
  PROVE  IsLayer(ValuesOf(in, Len(in), w), in, 0, Mib)
<1> DEFINE k == (Len(in) + Mib - 1) \div Mib
           l == Len(in)
           Cut(lo, i) == IF i - 1 < k - 1 THEN Mib ELSE l - lo
<1>1. k = PieceCount(l, Mib) /\ l \in Nat \ {0} /\ Mib \in Nat \ {0}
  BY MibIs DEF PieceCount
<1>2. k \in Nat \ {0} /\ Mib * (k - 1) < l /\ l <= Mib * k
  BY <1>1, PieceCountIs
<1> HIDE DEF l, k
<1>3. ASSUME NEW i \in 1..k
      PROVE  Subtree(Slice(in, (i - 1) * Mib, Cut((i - 1) * Mib, i)), (i - 1) * Mib, w)
               = NodeOf(in, 0, Mib * (i - 1), Upto(l, Mib * (i - 1), Mib))
  <2> DEFINE lo == Mib * (i - 1)
             h == Mib * (k - 1)
             d == Cut(lo, i)
  <2>1. i - 1 \in Nat /\ k - 1 \in Nat /\ i - 1 <= k - 1 /\ i \in Nat
    BY <1>2
  <2>2. lo \in Nat /\ (i - 1) * Mib = lo /\ lo % Chunk = 0
    <3>1. (i - 1) * Mib = Mib * (i - 1)
      BY <1>1, <2>1
    <3> QED  BY <2>1, <3>1, PlaceIs
  <2>3. h \in Nat /\ h < l
    BY <1>2, <2>1, PlaceIs
  <2>4. i - 1 < k - 1 => lo + Mib <= h
    <3>1. SUFFICES ASSUME i - 1 < k - 1 PROVE lo + Mib <= h
      OBVIOUS
    <3>2. i \in Nat /\ i <= k - 1
      BY <2>1, <3>1
    <3>3. Mib * i <= h
      BY <1>1, <2>1, <3>2, TimesMono
    <3>4. Mib * i = lo + Mib
      BY <1>1, <2>1
    <3> QED  BY <3>3, <3>4
  <2>5. ~(i - 1 < k - 1) => lo = h /\ l <= lo + Mib
    <3>1. SUFFICES ASSUME ~(i - 1 < k - 1) PROVE lo = h /\ l <= lo + Mib
      OBVIOUS
    <3>2. i - 1 = k - 1
      BY <2>1, <3>1
    <3>3. Mib * k = h + Mib
      BY <1>1, <1>2
    <3> QED  BY <1>2, <3>2, <3>3
  <2> HIDE DEF lo, h
  <2>6. d = Upto(l, lo, Mib) /\ d \in Nat /\ lo + d <= l
    BY <1>1, <2>2, <2>3, <2>4, <2>5 DEF Upto
  <2> HIDE DEF d, Cut
  <2>7. Subtree(Slice(in, lo, d), lo, w) = NodeOf(in, 0, lo, d)
    BY <2>2, <2>6, SubtreeOfPart DEF l
  <2> QED  BY <2>2, <2>6, <2>7, Zenon DEF d, lo
<1>4. ValuesOf(in, Len(in), w)
        = [i \in 1..k |->
             Subtree(Slice(in, (i - 1) * Mib, Cut((i - 1) * Mib, i)), (i - 1) * Mib, w)]
  BY Zenon DEF ValuesOf, k, l
<1> QED  BY <1>1, <1>3, <1>4, Zenon DEF IsLayer, l

(* The digest of a file of any size is BLAKE3's, made by b3_hash or from   *)
(* the values of its pieces (b3tree.h:41-48).                              *)
THEOREM HashOfAnyFile == MCSpec => []HashIsRoot
<1>1. InputInv => HashIsRoot
  <2> SUFFICES ASSUME InputInv, IsPiece, input.off = 0
               PROVE  /\ Hash(Piece, input.width) = SpecTree(Piece, 0, TRUE)
                      /\ input.len > Mib => FromPieces = SpecTree(Piece, 0, TRUE)
    BY DEF HashIsRoot
  <2>1. input.off \in Nat /\ input.len \in Nat /\ input.width \in Nat \ {0}
    BY DEF InputInv
  <2>2. Piece \in Seq(Nat) /\ Len(Piece) = input.len
    BY <2>1, PieceIs
  <2>3. Hash(Piece, input.width) = SpecTree(Piece, 0, TRUE)
    BY <2>1, <2>2, HashIsSpecTree
  <2>4. ASSUME input.len > Mib
        PROVE  FromPieces = SpecTree(Piece, 0, TRUE)
    <3> DEFINE values == ValuesOf(Piece, input.len, input.width)
    <3>1. FromPieces = RootOfPieces(values)
      BY Zenon DEF FromPieces, ValuesOf
    <3>2. Len(Piece) > 0 /\ Len(Piece) > Mib
      BY <2>1, <2>2, <2>4, MibIs
    <3>3. IsLayer(values, Piece, 0, Mib)
      BY <2>1, <2>2, <3>2, PiecesAreLayer
    <3> HIDE DEF values
    <3>4. RootOfPieces(values) = SpecTree(Piece, 0, TRUE)
      BY <2>2, <3>2, <3>3, MibIs, RootOfPiecesIsSpecTree
    <3> QED  BY <3>1, <3>4
  <2> QED  BY <2>3, <2>4
<1> QED  BY InputInit, InputStep, <1>1, PTL DEF MCSpec
-----------------------------------------------------------------------------
(* The list that is sorted is one of numbers, of any length,               *)
ListInv ==
  "keys" \in DOMAIN input => \E k \in Nat : input.keys \in [1..k -> Keys]

LEMMA ListInit == MCInit => ListInv
<1> SUFFICES ASSUME MCInit, "keys" \in DOMAIN input
             PROVE  \E k \in Nat : input.keys \in [1..k -> Keys]
  BY DEF ListInv
<1>1. input \in Lists
  <2>1. CASE input = [file |-> size]
    BY <2>1
  <2>2. CASE input \in Pieces
    <3>1. DOMAIN input = {"off", "len", "width"}
      BY <2>2 DEF Pieces
    <3> QED  BY <3>1
  <2> QED  BY <2>1, <2>2 DEF MCInit
<1>2. PICK ks \in UNION {[1..k -> Keys] : k \in 0..MaxKeys} : input = [keys |-> ks]
  BY <1>1 DEF Lists
<1>3. PICK k \in 0..MaxKeys : ks \in [1..k -> Keys]
  BY <1>2
<1>4. k \in Nat /\ input.keys = ks
  BY <1>2
<1> QED  BY <1>3, <1>4

(* and stays as it is.                                                     *)
LEMMA ListStep == ListInv /\ [MCNext]_<<vars, input>> => ListInv'
BY DEF ListInv, MCNext

(* radix_sort sorts any list of any length by any keys, stably, and no     *)
(* digit is wider than the tables of counts (common.rs:53, radix.h:10).    *)
THEOREM SortsAnyListStably == MCSpec => []SortsStably
<1>1. ListInv => SortsStably
  <2> SUFFICES ASSUME ListInv, "keys" \in DOMAIN input PROVE SortsStably
    BY DEF SortsStably
  <2>1. PICK k \in Nat : input.keys \in [1..k -> Keys]
    BY DEF ListInv
  <2>2. PICK ks : ks = input.keys
    OBVIOUS
  <2>3. PICK a : a = [i \in DOMAIN input.keys |-> <<input.keys[i], i>>]
    OBVIOUS
  <2>4. PICK X : X = {a[i] : i \in DOMAIN a}
    OBVIOUS
  <2>5. PICK key : key = [x \in X |-> x[1]]
    OBVIOUS
  <2>6. a = [i \in 1..k |-> <<ks[i], i>>] /\ \A i \in 1..k : ks[i] \in Nat
    BY <2>1, <2>2, <2>3, LevelupAssumption
  <2>7. a \in Seq(X) /\ Len(a) = k
    <3>1. DOMAIN a = 1..k /\ \A i \in 1..k : a[i] \in X
      BY <2>4, <2>6
    <3>2. a = [i \in 1..k |-> a[i]]
      BY <2>6
    <3>3. a \in Seq(X)
      BY <3>1, <3>2, IsASeq
    <3> QED  BY <3>1, <3>3, LenProperties
  <2>8. key \in [X -> Nat]
    <3>1. \A x \in X : x[1] \in Nat
      BY <2>4, <2>6
    <3> QED  BY <2>5, <3>1
  <2>9. IsStableSort(RadixSorted(a, key), a, key)
    BY <2>7, <2>8, RadixSortIsStable
  <2>10. ASSUME a # <<>>
         PROVE  Width(BitsOf(a, key)) <= MaxDigit
    <3>1. k # 0
      BY <2>7, <2>10, EmptySeq
    <3>2. 1 <= Len(a)
      BY <2>7, <3>1
    <3>3. BitsOf(a, key) \in Nat \ {0}
      BY <2>7, <2>8, <3>2, BitsHold
    <3> QED  BY <3>3, DigitsCover
  <2>11. SortsStably <=> /\ IsStableSort(RadixSorted(a, key), a, key)
                         /\ a # <<>> => Width(BitsOf(a, key)) <= MaxDigit
    BY <2>3, <2>4, <2>5, Zenon DEF SortsStably
  <2> QED  BY <2>9, <2>10, <2>11
<1> QED  BY ListInit, ListStep, <1>1, PTL DEF MCSpec
=============================================================================
