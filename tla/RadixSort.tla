----------------------------- MODULE RadixSort ------------------------------
(***************************************************************************)
(* radix_sort (common.rs:51-109, a copy of levelup/sort/radix.h): stable,  *)
(* least significant digit first, between the caller's array and a second  *)
(* one.  The key of an element is a function.                              *)
(***************************************************************************)
EXTENDS Integers, SequencesExt, FiniteSetsExt

CONSTANTS
  Small,    (* below this many elements, insertion sort: 64                *)
  MaxDigit  (* the widest digit, in bits: 11                               *)

ASSUME RadixAssumption == Small \in Nat /\ MaxDigit \in Nat \ {0}

CeilDiv(a, b) == (a + b - 1) \div b

(* x goes behind the last element that is not greater. *)
Insert(s, x, key) ==
  InsertAt(s, 1 + Max({0} \cup {j \in DOMAIN s : key[s[j]] <= key[x]}), x)

(* Everything before the first inversion is in place; done[n] is a with    *)
(* its first n elements sorted in, and without the rest.                   *)
InsertionSort(a, first, key) ==
  LET done[n \in (first - 1)..Len(a)] ==
        IF n = first - 1 THEN SubSeq(a, 1, n) ELSE Insert(done[n - 1], a[n], key)
  IN done[Len(a)]

(* 1 << n *)
TwoTo(n) ==
  LET pow[i \in 0..n] == IF i = 0 THEN 1 ELSE 2 * pow[i - 1]
  IN pow[n]

Passes(bits) == CeilDiv(bits, MaxDigit)
Width(bits) == CeilDiv(bits, Passes(bits))

(* The bits of the OR of all keys, which are those of the greatest. *)
BitsOf(a, key) ==
  LET top == Max({key[a[i]] : i \in DOMAIN a})
  IN CHOOSE b \in 1..(top + 1) : top < TwoTo(b) /\ (b = 1 \/ TwoTo(b - 1) <= top)

(* The digits decide where in the other array element i goes: behind all   *)
(* with a smaller digit, and those before it with the same.                *)
Scatter(src, digit) ==
  LET Place(i) == 1 + Cardinality({j \in DOMAIN src :
                         \/ digit[src[j]] < digit[src[i]]
                         \/ digit[src[j]] = digit[src[i]] /\ j < i})
      from == [k \in DOMAIN src |-> CHOOSE i \in DOMAIN src : Place(i) = k]
  IN [k \in DOMAIN src |-> src[from[k]]]

(* Mutation of Pass: the arrays change roles even if the pass is skipped. *)
PassSwapsAlways(s, digit) ==
  LET src == IF s.swapped THEN s.tmp ELSE s.mine IN
    IF \A i \in DOMAIN src : digit[src[i]] = digit[src[1]]
    THEN [s EXCEPT !.swapped = ~@]
    ELSE IF s.swapped
    THEN [s EXCEPT !.mine = Scatter(src, digit), !.swapped = FALSE]
    ELSE [s EXCEPT !.tmp = Scatter(src, digit), !.swapped = TRUE]

(* One pass from one array into the other, unless all share the digit. *)
Pass(s, digit) ==
  LET src == IF s.swapped THEN s.tmp ELSE s.mine IN
    IF \A i \in DOMAIN src : digit[src[i]] = digit[src[1]] THEN s
    ELSE IF s.swapped
    THEN [s EXCEPT !.mine = Scatter(src, digit), !.swapped = FALSE]
    ELSE [s EXCEPT !.tmp = Scatter(src, digit), !.swapped = TRUE]

(* What the caller's array holds after the last pass. *)
DigitSort(a, key) ==
  LET bits == BitsOf(a, key)
      passes == Passes(bits)
      w == Width(bits)
      after[p \in 0..passes] ==
        IF p = 0 THEN [mine |-> a, tmp |-> a, swapped |-> FALSE]
        ELSE Pass(after[p - 1], [x \in ToSet(a) |-> (key[x] \div TwoTo((p - 1) * w)) % TwoTo(w)])
  IN IF after[passes].swapped THEN after[passes].tmp ELSE after[passes].mine

Inversions(a, key) == {i \in 2..Len(a) : key[a[i - 1]] > key[a[i]]}

RadixSorted(a, key) ==
  IF Inversions(a, key) = {} THEN a
  ELSE IF Len(a) < Small THEN InsertionSort(a, Min(Inversions(a, key)), key)
  ELSE DigitSort(a, key)
-----------------------------------------------------------------------------
(* What a stable sort is: element i comes behind everything with a smaller *)
(* key, and everything before it with the same.                            *)
IsStableSort(out, a, key) ==
  /\ Len(out) = Len(a)
  /\ \A i \in DOMAIN a :
       LET before == {j \in DOMAIN a :
                        key[a[j]] < key[a[i]] \/ (key[a[j]] = key[a[i]] /\ j < i)}
       IN out[Cardinality(before) + 1] = a[i]
=============================================================================
