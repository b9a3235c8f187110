------------------------------- MODULE B3Sum --------------------------------
(***************************************************************************)
(* b3min.c: the digest of one file, read 1 MiB at a time and hashed as a   *)
(* sequence of pieces, the number of which is known only at end of file.   *)
(***************************************************************************)
EXTENDS B3Tree

CONSTANTS
  Wide,     (* WIDE of b3tree.c                                            *)
  Mib,      (* MIB: the size of a piece                                    *)
  MaxSize,  (* bound: the longest file                                     *)
  MayFail   (* may read() fail?                                            *)

(* A piece is a whole number of chunks, a power of two of them. *)
ASSUME B3SumAssumption ==
  /\ Wide \in Nat \ {0}
  /\ MaxSize \in Nat
  /\ \E p \in 1..Mib : PowerOfTwo(p) /\ Mib = Chunk * p

VARIABLES
  size,     (* of the file                                                 *)
  pos,      (* bytes of it that were read                                  *)
  n,        (* bytes in buf, the piece being read                          *)
  cv,       (* the values of the full pieces before                        *)
  pc,       (* "read", "piece", "done", or "crash"                         *)
  root      (* what is printed                                             *)

vars == <<size, pos, n, cv, pc, root>>

First(k) == [i \in 1..k |-> i]             (* the file's first k bytes *)
Buf == Slice(First(pos), pos - n, n)
NoRoot == [none |-> 0]

Init ==
  /\ size \in 0..MaxSize
  /\ pos = 0 /\ n = 0 /\ cv = <<>>
  /\ pc = "read"
  /\ root = NoRoot

(* read() returns k bytes, as few as it likes. *)
ReadSome(k) ==
  /\ pc = "read"
  /\ n < Mib
  /\ k <= Mib - n /\ k <= size - pos
  /\ pos' = pos + k
  /\ n' = n + k
  /\ UNCHANGED <<size, cv, pc, root>>

(* The inner loop ends: the piece is full, or read() returned 0 -- or -1,  *)
(* which the code does not tell apart.                                     *)
ReadEnds ==
  /\ pc = "read"
  /\ n = Mib \/ pos = size \/ MayFail
  /\ pc' = "piece"
  /\ UNCHANGED <<size, pos, n, cv, root>>

Printed(d) ==
  /\ root' = d
  /\ pc' = "done"
  /\ UNCHANGED <<size, pos, n, cv>>

(* The first piece is short: it is the file, and the root. *)
OnePiece ==
  /\ pc = "piece"
  /\ cv = <<>> /\ n < Mib
  /\ Printed(Hash(Buf, Wide))

(* The file ended with a full piece.  Of a single piece, root_of_pieces    *)
(* has no meaning: n - 1 = 0, clzll(0) is undefined, and for whatever power*)
(* of two comes out the code merges 2^63 values or more, past the array.   *)
NothingLeft ==
  /\ pc = "piece"
  /\ cv # <<>> /\ n = 0
  /\ \/ Len(cv) > 1 /\ Printed(RootOfPieces(cv))
     \/ Len(cv) = 1 /\ pc' = "crash" /\ UNCHANGED <<size, pos, n, cv, root>>

(* Mutation of LastPiece: the short last piece is hashed as if it were     *)
(* the file's first.                                                       *)
LastPieceAtZero ==
  /\ pc = "piece"
  /\ cv # <<>> /\ 0 < n /\ n < Mib
  /\ Printed(RootOfPieces(Append(cv, Subtree(Buf, 0, Wide))))

LastPiece ==
  /\ pc = "piece"
  /\ cv # <<>> /\ 0 < n /\ n < Mib
  /\ Printed(RootOfPieces(Append(cv, Subtree(Buf, Len(cv) * Mib, Wide))))

FullPiece ==
  /\ pc = "piece"
  /\ n = Mib
  /\ cv' = Append(cv, Subtree(Buf, Len(cv) * Mib, Wide))
  /\ n' = 0
  /\ pc' = "read"
  /\ UNCHANGED <<size, pos, root>>

Exited == pc \in {"done", "crash"} /\ UNCHANGED vars

Next ==
  \/ \E k \in 1..Mib : ReadSome(k)
  \/ ReadEnds \/ OnePiece \/ NothingLeft \/ LastPiece \/ FullPiece \/ Exited

Spec == Init /\ [][Next]_vars
-----------------------------------------------------------------------------
(* However read() cuts the file, what is printed, if anything is, is       *)
(* BLAKE3 of the bytes that were read (b3min.c:1).  After a read that      *)
(* fails these are a prefix of the file, of which the code says nothing.   *)
DigestsWhatItRead ==
  pc = "done" => root = SpecTree(First(pos), 0, TRUE)

(* It is a b3sum of every file (b3min.c:1, "Minimal b3sum"), a file that   *)
(* is one piece included, which "must be finalised as the root with        *)
(* b3_hash()" (b3tree.h:12-13) and never given to b3_root_of_pieces, which *)
(* takes "n >= 2 pieces" (b3tree.h:42).                                    *)
DigestsEveryFile ==
  pc \in {"done", "crash"} => root = SpecTree(First(size), 0, TRUE)
=============================================================================
