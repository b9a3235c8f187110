---------------------------- MODULE MCHashEngine ----------------------------
(* Model-checking instance of the content hash: chunks of 2 bytes, BufSz = *)
(* 4 chunks.                                                               *)
EXTENDS HashEngine

At(o, n) == [off |-> o, len |-> n]
F(size, data) == [size |-> size, data |-> data]

(* Hashed at once: a file of two MiB and a byte, one whose hole and        *)
(* extents cross every boundary of the tree, some that are mostly hole,    *)
(* some that are small.                                                    *)
Long   == <<F(17, {At(0, 8), At(8, 8), At(16, 2)})>>
Ragged == <<F(21, {At(2, 8), At(12, 4), At(18, 4)})>>
Sparse == <<F(38, {At(34, 4)}), F(26, {At(0, 2)}), F(5, {}), F(0, {}), F(2, {})>>
Little == <<F(1, {At(0, 2)}), F(8, {At(0, 8)}), F(7, {At(0, 2), At(2, 6)}), F(2, {At(0, 2)})>>

(* In batches: more data than the arena of 4 * BufSz holds. *)
Mixed  == <<F(17, {At(0, 8), At(8, 8), At(16, 2)}), F(8, {At(0, 8)}), F(10, {At(0, 8), At(8, 2)})>>
Holes  == <<F(29, {At(4, 4), At(16, 8), At(24, 6)}), F(3, {}), F(16, {At(0, 8), At(8, 8)}), F(0, {})>>

MCInputs ==
  {[threads |-> 1, vol |-> v] : v \in {Long, Ragged, Sparse, Little}}
    \cup {[threads |-> 2, vol |-> v] : v \in {Mixed, Holes}}
=============================================================================
