----------------------------- MODULE MCLevelup ------------------------------
(* The algorithms of levelup, each on every small input: the tree          *)
(* functions on a piece of a file (byte i of a file being the number i),   *)
(* the sort on a list of keys, b3min on a file of any size.                *)
EXTENDS B3Sum, RadixSort

CONSTANTS
  Widths,   (* widths b3tree.c may be built with                           *)
  MaxLen,   (* bound: the longest piece                                    *)
  Keys,     (* keys to sort                                                *)
  MaxKeys   (* bound: how many of them                                     *)

ASSUME LevelupAssumption == Widths \subseteq Nat \ {0} /\ Keys \subseteq Nat

VARIABLE input   (* what is looked at: [off, len, width], [keys], [file]   *)

(* The offsets a piece of length k can be hashed at: multiples of the      *)
(* smallest power of two of chunks that holds it (b3tree.h:5-8).           *)
Aligned(o, k) == o % (IF k <= Chunk THEN Chunk ELSE 2 * LeftLen(k)) = 0

Pieces ==
  {p \in [off : 0..MaxLen, len : 0..MaxLen, width : Widths] : Aligned(p.off, p.len)}
Lists == {[keys |-> ks] : ks \in UNION {[1..k -> Keys] : k \in 0..MaxKeys}}

MCInit ==
  \/ Init /\ input = [file |-> size]
  \/ Init /\ size = 0 /\ input \in Pieces
  \/ Init /\ size = 0 /\ input \in Lists

IsFile == "file" \in DOMAIN input
MCNext == (IF IsFile THEN Next ELSE UNCHANGED vars) /\ UNCHANGED input
MCSpec == MCInit /\ [][MCNext]_<<vars, input>>

Piece == [i \in 1..input.len |-> input.off + i]
IsPiece == "off" \in DOMAIN input

(* The value of an aligned piece, whatever width it is hashed with, is     *)
(* that of its subtree in the file's tree, short last chunk and odd layers *)
(* included (b3tree.h:5-11; "any width builds the same tree",              *)
(* b3tree.c:101-107).                                                      *)
SubtreeIsTree ==
  IsPiece =>
    Subtree(Piece, input.off, input.width)
      = SpecTree(Piece, input.off \div Chunk, FALSE)

(* The digest of a file is BLAKE3's, whichever of the two it is made by:   *)
(* b3_hash, on either side of one chunk and of one wide pass (b3tree.h:48),*)
(* or the merge of the values of its pieces, for a file of two or more     *)
(* pieces of 1 MiB (b3tree.h:41-45).                                       *)
FromPieces ==
  LET k == (input.len + Mib - 1) \div Mib
      Cut(i) == Slice(Piece, i * Mib, IF i < k - 1 THEN Mib ELSE input.len - i * Mib)
      values == [i \in 1..k |-> Subtree(Cut(i - 1), (i - 1) * Mib, input.width)]
  IN RootOfPieces(values)
HashIsRoot ==
  IsPiece /\ input.off = 0 =>
    /\ Hash(Piece, input.width) = SpecTree(Piece, 0, TRUE)
    /\ input.len > Mib => FromPieces = SpecTree(Piece, 0, TRUE)

(* Whatever keys there are, equal ones and digits all share included, in   *)
(* one pass or several, the sort leaves in the caller's array each element *)
(* behind those with smaller keys and those that came before it with the   *)
(* same (common.rs:53, "stable"), and no digit is wider than the tables of *)
(* counts (levelup/sort/radix.h:10, "digits of at most 11 bits").          *)
SortsStably ==
  "keys" \in DOMAIN input =>
    LET a == [i \in DOMAIN input.keys |-> <<input.keys[i], i>>]
        key == [x \in {a[i] : i \in DOMAIN a} |-> x[1]]
    IN /\ IsStableSort(RadixSorted(a, key), a, key)
       /\ a # <<>> => Width(BitsOf(a, key)) <= MaxDigit
=============================================================================
