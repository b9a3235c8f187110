------------------------------- MODULE B3Tree -------------------------------
(***************************************************************************)
(* BLAKE3's tree as b3tree.c builds it, with its compression function      *)
(* taken as free: a digest is the term of everything that went into it, so *)
(* two digests are equal exactly when the same bytes were hashed at the    *)
(* same place of the same tree with the same ROOT flag.                    *)
(*                                                                         *)
(* The module declares no RECURSIVE operator: recursion is by recursive    *)
(* functions over (start, length).                                         *)
(***************************************************************************)
EXTENDS Integers, Sequences, FiniteSetsExt

CONSTANT Chunk   (* B3_CHUNK, the bytes of a leaf: 1024 *)

ASSUME B3Assumption == Chunk \in Nat \ {0}

ChunkCV(in, ctr, root) == [ctr |-> ctr, bytes |-> in, root |-> root]
Node(l, r, root) == [l |-> l, r |-> r, root |-> root]
Parent(l, r) == Node(l, r, FALSE)
RootParent(l, r) == Node(l, r, TRUE)

(* in[lo .. lo + len), from 0 as in C *)
Slice(in, lo, len) == SubSeq(in, lo + 1, lo + len)

PowerOfTwo(p) == \A d \in 2..p : p % d = 0 => d % 2 = 0

(* 1 << (63 - clzll(n)), the largest power of two up to n > 0. *)
TopBit(n) == Max({p \in 1..n : PowerOfTwo(p)})

(* Mutation of LeftLen: a length of whole chunks is not reduced first. *)
LeftLenOfWhole(len) == Chunk * TopBit(len \div Chunk)

LeftLen(len) == Chunk * TopBit((len - 1) \div Chunk)

(* The values of the nodes of a tree over `max' places: tree[n][lo] is     *)
(* that of the n places from lo on, which are split left[n] : n - left[n]  *)
(* or, where left does not say, have the value leaf[n][lo].                *)
Tree(max, leaf, left) ==
  LET tree[n \in 0..max] ==
        [lo \in 0..max |->
           IF n \in DOMAIN left
           THEN Parent(tree[left[n]][lo], tree[n - left[n]][lo + left[n]])
           ELSE leaf[n][lo]]
  IN tree

-----------------------------------------------------------------------------
(* What BLAKE3 specifies: the left subtree of a node is the largest        *)
(* complete tree that leaves the right one at least one byte.              *)
SpecLeft(len) ==
  Chunk * CHOOSE p \in 1..len :
            PowerOfTwo(p) /\ Chunk * p < len /\ len <= 2 * (Chunk * p)

SpecNodes(in, ctr) ==
  Tree(Len(in),
       [n \in 0..Chunk |->
          [lo \in 0..Len(in) |-> ChunkCV(Slice(in, lo, n), ctr + lo \div Chunk, FALSE)]],
       [n \in (Chunk + 1)..Len(in) |-> SpecLeft(n)])

SpecTree(in, ctr, root) ==
  LET nodes == SpecNodes(in, ctr)
      ll == SpecLeft(Len(in))
  IN IF Len(in) <= Chunk THEN ChunkCV(in, ctr, root)
     ELSE Node(nodes[ll][0], nodes[Len(in) - ll][ll], root)

-----------------------------------------------------------------------------
(* wide(): the whole tree layer by layer, down to `keep' values.           *)

WideChunks(in, ctr) ==
  LET n == (Len(in) + Chunk - 1) \div Chunk
  IN [i \in 1..n |->
        LET lo == (i - 1) * Chunk
            len == IF lo + Chunk <= Len(in) THEN Chunk ELSE Len(in) - lo
        IN ChunkCV(Slice(in, lo, len), ctr + i - 1, FALSE)]

(* Mutation of WideLayer: an odd value out is left behind. *)
WideLayerEven(a) ==
  [i \in 1..(Len(a) \div 2) |-> Parent(a[2 * i - 1], a[2 * i])]

(* One pass over a layer; an odd one out goes up as it is. *)
WideLayer(a) ==
  LET np == Len(a) \div 2
  IN [i \in 1..(np + (Len(a) % 2)) |->
        IF i <= np THEN Parent(a[2 * i - 1], a[2 * i]) ELSE a[Len(a)]]

(* Layer upon layer, while there are more than `keep' values. *)
WideCVs(in, ctr, keep) ==
  LET chunks == WideChunks(in, ctr)
      layer[k \in 0..Len(chunks)] ==
        IF k = 0 THEN chunks
        ELSE LET a == layer[k - 1] IN IF Len(a) > keep THEN WideLayer(a) ELSE a
  IN layer[Len(chunks)]

(* b3_subtree: the non-root value of `in', which starts at file offset off. *)
(* wide is WIDE, the chunks hashed breadth-first at once: 16 or 1024.      *)
Subtree(in, off, wide) ==
  LET Value(n, lo) ==
        LET ctr == (off + lo) \div Chunk
            part == Slice(in, lo, n)
        IN IF n <= Chunk THEN ChunkCV(part, ctr, FALSE) ELSE WideCVs(part, ctr, 1)[1]
  IN Tree(Len(in),
          [n \in 0..(wide * Chunk) |-> [lo \in 0..Len(in) |-> Value(n, lo)]],
          [n \in (wide * Chunk + 1)..Len(in) |-> LeftLen(n)])[Len(in)][0]

RootOfTwo(in, wide) ==
  LET ll == LeftLen(Len(in))
  IN RootParent(Subtree(Slice(in, 0, ll), 0, wide),
                Subtree(Slice(in, ll, Len(in) - ll), ll, wide))

(* Mutation of Hash: the breadth-first pass runs down to one value. *)
HashAsSubtree(in, wide) ==
  IF Len(in) <= Chunk THEN ChunkCV(in, 0, TRUE)
  ELSE IF Len(in) <= wide * Chunk
       THEN LET a == WideCVs(in, 0, 1) IN RootParent(a[1], a[1])
  ELSE RootOfTwo(in, wide)

(* b3_hash: the root of a whole input. *)
Hash(in, wide) ==
  IF Len(in) <= Chunk THEN ChunkCV(in, 0, TRUE)
  ELSE IF Len(in) <= wide * Chunk
       THEN LET a == WideCVs(in, 0, 2) IN RootParent(a[1], a[2])
  ELSE RootOfTwo(in, wide)

(* merge: the non-root value over cv[from .. from + count). *)
Merge(cv, from, count) ==
  Tree(Len(cv),
       [n \in {1} |-> [lo \in 0..(Len(cv) - 1) |-> cv[lo + 1]]],
       [n \in 2..Len(cv) |-> TopBit(n - 1)])[count][from]

(* Mutation of RootOfPieces: the pieces are halved. *)
RootOfHalves(cv) ==
  LET n == Len(cv)
      k == (n + 1) \div 2
  IN RootParent(Merge(cv, 0, k), Merge(cv, k, n - k))

(* b3_root_of_pieces, for n >= 2 values of pieces of 1 MiB. *)
RootOfPieces(cv) ==
  LET n == Len(cv)
      k == TopBit(n - 1)
  IN RootParent(Merge(cv, 0, k), Merge(cv, k, n - k))
=============================================================================
