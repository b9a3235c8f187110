------------------------------ MODULE InodeSet ------------------------------
(***************************************************************************)
(* The inode set (common.rs:480-518): open addressing with linear probing, *)
(* doubled before it is more than half full.  A set is [k, n], its slots   *)
(* and how many are taken; h is the hash, any function of the key.         *)
(***************************************************************************)
EXTENDS Integers, SequencesExt, FiniteSetsExt

CONSTANT First   (* slots of the first table: 1024 *)

ASSUME FirstAssumption == First \in Nat \ {0, 1}

Empty == 0       (* "key 0 = empty (inode 0 never exists)" *)
NoInodes == [k |-> <<>>, n |-> 0]

(* The d-th slot of a probe for x. *)
At(h, k, x, d) == 1 + ((h[x] + d) % Len(k))

(* The first slot from x's home on, cyclically, that is free or holds x. *)
Slot(h, k, x) ==
  At(h, k, x, Min({d \in 0..(Len(k) - 1) : k[At(h, k, x, d)] \in {Empty, x}}))

Put(h, k, x) == [k EXCEPT ![Slot(h, k, x)] = x]

(* Mutation of Rehashed: a key goes to its home, taken or not. *)
RehashedHome(h, k) ==
  LET slots == IF k = <<>> THEN First ELSE 2 * Len(k)
  IN FoldLeft(LAMBDA nk, x : IF x = Empty THEN nk ELSE [nk EXCEPT ![At(h, nk, x, 0)] = x],
              [i \in 1..slots |-> Empty], k)

(* Every key moves to a table twice as large; moved[j] is that with the    *)
(* keys of the first j slots. *)
Rehashed(h, k) ==
  LET slots == IF k = <<>> THEN First ELSE 2 * Len(k)
      moved[j \in 0..Len(k)] ==
        IF j = 0 THEN [i \in 1..slots |-> Empty]
        ELSE IF k[j] = Empty THEN moved[j - 1] ELSE Put(h, moved[j - 1], k[j])
  IN moved[Len(k)]

Roomy(h, s) == IF (s.n + 1) * 2 > Len(s.k) THEN Rehashed(h, s.k) ELSE s.k

(* add(): the set with x in it, and whether x is new. *)
Added(h, s, x) ==
  LET k == Roomy(h, s)
      i == Slot(h, k, x)
      new == k[i] = Empty
  IN [set |-> [k |-> Put(h, k, x), n |-> s.n + IF new THEN 1 ELSE 0],
      new |-> new]

(* The set holds these keys: each is where a probe from its home finds it, *)
(* none is there twice, and a probe for any other ends at a free slot.     *)
Holds(h, s, keys) ==
  /\ s.n = Cardinality(keys)
  /\ {i \in DOMAIN s.k : s.k[i] # Empty} = {Slot(h, s.k, x) : x \in keys}
  /\ ToSet(s.k) \subseteq keys \cup {Empty}
  /\ \A x \in keys : s.k[Slot(h, s.k, x)] = x
  /\ keys # {} => 2 * s.n <= Len(s.k)
=============================================================================
