--------------------------- MODULE GenerateProofs ---------------------------
(***************************************************************************)
(* Proofs about what cargo xtask codegen makes of a spec, for specs of any *)
(* size and any edits.  The invariant is short: what is generated had the  *)
(* shape serde asks for and no problem validate() knows.  The work is in   *)
(* showing that these problems are enough: that a format without any of    *)
(* them gives artifacts that keep their promises.                          *)
(***************************************************************************)
EXTENDS Generate, WellFoundedInduction, FiniteSetTheorems, SequenceTheorems, TLAPS

(* A set of numbers that is not empty has a least one: the first of the    *)
(* elements that a search looks for, the first place where a claim fails.  *)
LEMMA LeastNumber ==
  ASSUME NEW S, S \subseteq Nat, S # {}
  PROVE  \E m \in S : \A n \in S : m <= n
<1> DEFINE less == {ss \in Nat \X Nat : ss[1] < ss[2]}
<1>1. less = OpToRel(<, Nat)
  BY DEF OpToRel
<1>2. IsWellFoundedOn(less, Nat)
  BY <1>1, NatLessThanWellFounded
<1>3. \A a, b \in Nat : <<a, b>> \in less <=> a < b
  OBVIOUS
<1> HIDE DEF less
<1>4. PICK x \in S : \A y \in S : ~(<<y, x>> \in less)
  BY <1>2, WFMin, Zenon
<1>5. ASSUME NEW y \in S  PROVE x <= y
  <2>1. x \in Nat /\ y \in Nat
    OBVIOUS
  <2>2. ~(y < x)
    BY <1>3, <1>4, <2>1, Zenon
  <2> QED  BY <2>1, <2>2
<1> QED  BY <1>5

(* Min is what Rust's iter().position() and find() stop at.                *)
LEMMA MinIsMember ==
  ASSUME NEW S, S \subseteq Nat, S # {}
  PROVE  Min(S) \in S /\ \A n \in S : Min(S) <= n
BY LeastNumber DEF Min

(* Max is what a loop that overwrites is left with.                        *)
LEMMA MaxIsMember ==
  ASSUME NEW b \in Nat, NEW S, S \subseteq 0..b, S # {}
  PROVE  Max(S) \in S /\ \A n \in S : n <= Max(S)
<1> DEFINE T == {b - n : n \in S}
<1>1. T \subseteq Nat /\ T # {}
  OBVIOUS
<1>2. PICK m \in T : \A n \in T : m <= n
  BY <1>1, LeastNumber
<1>3. PICK k \in S : m = b - k
  OBVIOUS
<1>4. \A n \in S : n <= k
  BY <1>2, <1>3
<1>5. \E x \in S : \A y \in S : x >= y
  BY <1>4
<1> QED  BY <1>5 DEF Max

Shaped == ShapedFormat(doc.f) /\ ShapedRules(doc.r)

GInv ==
  /\ stage \in {"validate", "generated"} => Shaped
  /\ stage = "generated" => Problems(doc.f, doc.r, doc.present) = {}

-----------------------------------------------------------------------------
(* What it means that there is no problem.                                 *)

(* A check that found nothing did not apply.                               *)
LEMMA WhenNone ==
  ASSUME NEW cond, NEW what, NEW where, When(cond, what, where) = {}
  PROVE  ~cond
BY DEF When

(* No element of a list without repetitions equals another one.            *)
LEMMA TwiceNone ==
  ASSUME NEW s, NEW n \in Nat, DOMAIN s = 1..n, NEW what, Twice(s, what) = {},
         NEW i \in 1..n, NEW j \in 1..n, s[i] = s[j]
  PROVE  i = j
<1>1. \A a \in 1..n : \A b \in 1..(a - 1) : s[b] # s[a]
  BY DEF Twice
<1> QED  BY <1>1

(* Nothing was found by looking at all of some things.                     *)
LEMMA UnionNone ==
  ASSUME NEW S, UNION S = {}, NEW x \in S
  PROVE  x = {}
OBVIOUS

(* Every stage of validate() found nothing.                                *)
LEMMA Stages ==
  ASSUME NEW f, NEW r, NEW present, Problems(f, r, present) = {}
  PROVE  /\ Enums(f) = {} /\ Kinds(f) = {} /\ Rules(f, r) = {}
         /\ \A i \in DOMAIN f.flag_sets : FlagSet(r, f.flag_sets[i]) = {}
         /\ BlockTypes(f) = {} /\ Layouts(f) = {} /\ Tables(f) = {}
BY DEF Problems, Each

-----------------------------------------------------------------------------
(* Layouts: the fields follow one another from 0 to the size.              *)

LayoutShape ==
  [name : Name, size : Nat, heap_refs : Seq(Name \X Name), fields : Seq(Fields)]

(* What the validator has checked of a layout without a problem.           *)
LEMMA LayoutFacts ==
  ASSUME NEW f, ShapedFormat(f), Layouts(f) = {}, NEW l \in ToSet(f.layouts)
  PROVE  /\ l \in LayoutShape
         /\ \A k \in DOMAIN l.fields : Field(f, l, k) = {}
         /\ Cursor(l, Len(l.fields) + 1) = l.size
         /\ \A i \in DOMAIN l.heap_refs : HeapRef(l, l.heap_refs[i][1], l.heap_refs[i][2]) = {}
<1>1. PICK i \in DOMAIN f.layouts : l = f.layouts[i]
  BY DEF ToSet
<1>2. l \in LayoutShape
  <2>1. f.layouts \in Seq(LayoutShape)
    BY DEF ShapedFormat, LayoutShape
  <2> QED  BY <1>1, <2>1
<1>3. Layout(f, l) = {}
  <2>1. UNION {Layout(f, f.layouts[k]) : k \in DOMAIN f.layouts} = {}
    BY DEF Layouts, Each
  <2> QED  BY <1>1, <2>1
<1>4. Cursor(l, Len(l.fields) + 1) = l.size
  <2>1. When(Cursor(l, Len(l.fields) + 1) # l.size, "size", l.name) = {}
    BY <1>3 DEF Layout, Each
  <2> QED  BY <2>1, WhenNone
<1>5. \A k \in DOMAIN l.fields : Field(f, l, k) = {}
  BY <1>3 DEF Layout
<1>6. UNION {HeapRef(l, l.heap_refs[k][1], l.heap_refs[k][2]) : k \in DOMAIN l.heap_refs} = {}
  BY <1>3, Zenon DEF Layout, Each
<1> QED  BY <1>2, <1>4, <1>5, <1>6

(* What it has checked of one of its fields.                               *)
LEMMA FieldFacts ==
  ASSUME NEW f, NEW l \in LayoutShape, NEW k \in DOMAIN l.fields, Field(f, l, k) = {}
  PROVE  /\ l.fields[k].type \in DOMAIN TypeSize
         /\ l.fields[k].off = Cursor(l, k)
         /\ Fits(f.enums, l.fields[k].enum, l.fields[k].type)
         /\ Fits(f.flag_sets, l.fields[k].flags, l.fields[k].type)
<1>1. l.fields[k].type \in DOMAIN TypeSize
  BY DEF Field
<1> QED  BY ZenonT(60), <1>1, WhenNone DEF Field, FieldPlace

(* If all types are known, the cursor is the end of the field before.      *)
LEMMA CursorStep ==
  ASSUME NEW l \in LayoutShape, NEW k \in 1..(Len(l.fields) + 1),
         \A i \in DOMAIN l.fields : l.fields[i].type \in DOMAIN TypeSize
  PROVE  Cursor(l, k) = IF k = 1 THEN 0
                        ELSE l.fields[k - 1].off + TypeSize[l.fields[k - 1].type]
<1> DEFINE known == {i \in 1..(k - 1) : l.fields[i].type \in DOMAIN TypeSize}
<1>1. known = 1..(k - 1)
  BY DEF LayoutShape
<1>2. CASE k = 1
  BY <1>1, <1>2 DEF Cursor
<1>3. CASE k # 1
  <2>1. known # {} /\ known \subseteq 0..k /\ k \in Nat
    BY SMTT(60), <1>1, <1>3 DEF LayoutShape
  <2>2. Max(known) \in known /\ \A i \in known : i <= Max(known)
    BY <2>1, MaxIsMember
  <2>3. Max(known) = k - 1
    <3> HIDE DEF known
    <3>1. k - 1 \in known /\ \A i \in known : i <= k - 1 /\ i \in Nat
      BY <1>1, <1>3 DEF LayoutShape
    <3> QED  BY <3>1, <2>2
  <2> QED  BY <2>1, <2>3, <1>3 DEF Cursor
<1> QED  BY <1>2, <1>3

Of(rows, b) == {k \in DOMAIN rows : b >= rows[k].off /\ b < rows[k].off + rows[k].len}

(* The rows of FIELDS are numbers, the first starts at 0, each other one   *)
(* where the one before ends, and the last ends with the record.           *)
Tiles(rows, n, size) ==
  /\ DOMAIN rows = 1..n
  /\ \A k \in 1..n : rows[k].off \in Nat /\ rows[k].len \in Nat
  /\ \A k \in 1..n : rows[k].off = IF k = 1 THEN 0 ELSE rows[k - 1].off + rows[k - 1].len
  /\ size = IF n = 0 THEN 0 ELSE rows[n].off + rows[n].len

(* The rows of the layout table of such a layout tile its bytes.           *)
LEMMA RowsTile ==
  ASSUME NEW f, ShapedFormat(f), Layouts(f) = {}, NEW l \in ToSet(f.layouts)
  PROVE  l \in LayoutShape /\ Tiles(FieldRows(l), Len(l.fields), l.size)
<1> DEFINE n == Len(l.fields)
           rows == FieldRows(l)
<1>1. /\ l \in LayoutShape
      /\ \A k \in DOMAIN l.fields : Field(f, l, k) = {}
      /\ Cursor(l, n + 1) = l.size
  BY LayoutFacts
<1>2. n \in Nat /\ DOMAIN l.fields = 1..n /\ \A k \in 1..n : l.fields[k] \in Fields
  BY <1>1 DEF LayoutShape
<1>3. \A k \in 1..n : l.fields[k].type \in DOMAIN TypeSize /\ l.fields[k].off = Cursor(l, k)
  BY <1>1, <1>2, FieldFacts
<1>4. \A k \in 1..(n + 1) : Cursor(l, k) = IF k = 1 THEN 0
                        ELSE l.fields[k - 1].off + TypeSize[l.fields[k - 1].type]
  BY <1>1, <1>2, <1>3, CursorStep
<1>5. /\ DOMAIN rows = 1..n
      /\ \A k \in 1..n : rows[k].off = l.fields[k].off /\ rows[k].len = TypeSize[l.fields[k].type]
  BY <1>2, <1>3 DEF FieldRows, Size
<1>6. \A k \in 1..n : rows[k].off \in Nat /\ rows[k].len \in Nat
  BY <1>2, <1>3, <1>5, SpecAssumption DEF SpecAssumption, Fields
<1> HIDE DEF rows, n
<1>7. \A k \in 1..n : rows[k].off = IF k = 1 THEN 0 ELSE rows[k - 1].off + rows[k - 1].len
  <2> TAKE k \in 1..n
  <2>1. k \in 1..(n + 1) /\ (k # 1 => k - 1 \in 1..n)
    BY <1>2
  <2> QED  BY <2>1, <1>3, <1>4, <1>5
<1>8. l.size = IF n = 0 THEN 0 ELSE rows[n].off + rows[n].len
  <2>1. n + 1 \in 1..(n + 1) /\ (n + 1 = 1 <=> n = 0) /\ (n + 1) - 1 = n /\ (n # 0 => n \in 1..n)
    BY <1>2
  <2> QED  BY <2>1, <1>1, <1>4, <1>5
<1> QED  BY <1>1, <1>5, <1>6, <1>7, <1>8 DEF Tiles, rows, n

(* A row ends before any later one starts.                                 *)
LEMMA RowsInOrder ==
  ASSUME NEW rows, NEW n \in Nat, NEW size, Tiles(rows, n, size),
         NEW i \in 1..n, NEW j \in 1..n, i < j
  PROVE  rows[i].off + rows[i].len <= rows[j].off
<1> DEFINE end(k) == rows[k].off + rows[k].len
           bad == {m \in 1..n : \E a \in 1..n : a < m /\ ~(end(a) <= rows[m].off)}
<1>1. SUFFICES ASSUME bad # {}  PROVE FALSE
  OBVIOUS
<1>2. PICK m \in bad : \A x \in bad : m <= x
  <2>1. bad \subseteq Nat
    OBVIOUS
  <2> HIDE DEF bad
  <2> QED  BY <1>1, <2>1, LeastNumber
<1>3. PICK a \in 1..n : a < m /\ ~(end(a) <= rows[m].off)
  BY <1>2
<1>4. m \in 1..n /\ m # 1 /\ m - 1 \in 1..n /\ m - 1 \notin bad
  BY <1>2, <1>3
<1>5. \A k \in 1..n : rows[k].off \in Nat /\ end(k) \in Nat /\ rows[k].off <= end(k)
  BY SMTT(60) DEF Tiles
<1>6. rows[m].off = end(m - 1)
  BY <1>4 DEF Tiles
<1>7. a < m - 1
  <2>1. a # m - 1
    BY <1>3, <1>4, <1>5, <1>6
  <2> QED  BY <1>3, <1>4, <2>1
<1>8. end(a) <= rows[m - 1].off
  BY <1>4, <1>7
<1>9. /\ end(a) \in Nat /\ rows[m - 1].off \in Nat /\ end(m - 1) \in Nat
      /\ rows[m - 1].off <= end(m - 1)
  BY <1>4, <1>5
<1> HIDE DEF end
<1> QED  BY <1>3, <1>6, <1>8, <1>9

(* Every byte below the size has a row, and only one.                      *)
LEMMA OneRow ==
  ASSUME NEW rows, NEW n \in Nat, NEW size, Tiles(rows, n, size), NEW b \in 0..(size - 1)
  PROVE  \E k \in 1..n : Of(rows, b) = {k}
<1> DEFINE end(k) == rows[k].off + rows[k].len
           past == {k \in 1..n : b < end(k)}
<1>0. /\ \A k \in 1..n : rows[k].off \in Nat /\ end(k) \in Nat
      /\ \A k \in 1..n : rows[k].off = IF k = 1 THEN 0 ELSE end(k - 1)
      /\ DOMAIN rows = 1..n
  BY SMTT(60) DEF Tiles
<1>1. n # 0 /\ n \in past
  <2>1. size = IF n = 0 THEN 0 ELSE end(n)
    BY DEF Tiles
  <2>2. n # 0
    BY <2>1
  <2>3. size = end(n) /\ end(n) \in Nat
    BY <2>1, <2>2, <1>0
  <2>4. n \in 1..n
    BY <2>2
  <2>5. b < size
    BY <2>3
  <2> QED  BY <2>2, <2>3, <2>4, <2>5
<1>2. PICK k \in past : \A x \in past : k <= x
  <2>1. past \subseteq Nat
    OBVIOUS
  <2> HIDE DEF past
  <2> QED  BY <1>1, <2>1, LeastNumber
<1>3. b >= rows[k].off
  <2>1. CASE k = 1
    BY <2>1, <1>0
  <2>2. CASE k # 1
    <3>1. k \in 1..n /\ k - 1 \in 1..n /\ k - 1 \notin past
      BY <1>2, <2>2
    <3>2. rows[k].off = end(k - 1) /\ end(k - 1) \in Nat /\ ~(b < end(k - 1))
      BY <3>1, <2>2, <1>0
    <3> HIDE DEF end
    <3> QED  BY <3>2
  <2> QED  BY <2>1, <2>2
<1>4. k \in Of(rows, b)
  BY <1>0, <1>3 DEF Of
<1>5. ASSUME NEW x \in Of(rows, b)  PROVE x = k
  <2>1. x \in 1..n /\ b >= rows[x].off /\ b < end(x)
    BY <1>0 DEF Of
  <2>2. k \in 1..n /\ b < end(k)
    OBVIOUS
  <2>3. ~(x < k)
    <3>1. x < k => end(x) <= rows[k].off
      BY <2>1, <2>2, RowsInOrder
    <3>2. end(x) \in Nat /\ rows[k].off \in Nat
      BY <2>1, <2>2, <1>0
    <3> HIDE DEF end
    <3> QED  BY <3>1, <3>2, <2>1, <1>3
  <2>4. ~(k < x)
    <3>1. k < x => end(k) <= rows[x].off
      BY <2>1, <2>2, RowsInOrder
    <3>2. end(k) \in Nat /\ rows[x].off \in Nat
      BY <2>1, <2>2, <1>0
    <3> HIDE DEF end
    <3> QED  BY <3>1, <3>2, <2>1, <2>2
  <2> QED  BY <2>1, <2>2, <2>3, <2>4
<1> QED  BY <1>4, <1>5

(* No row of a tiling reaches behind its end.                              *)
LEMMA RowsEnd ==
  ASSUME NEW rows, NEW n \in Nat, NEW size, Tiles(rows, n, size), NEW k \in 1..n
  PROVE  rows[k].off + rows[k].len <= size
<1> DEFINE end(i) == rows[i].off + rows[i].len
<1>1. /\ size = end(n) /\ end(k) \in Nat /\ end(n) \in Nat
      /\ rows[n].off \in Nat /\ rows[n].off <= end(n)
  BY DEF Tiles
<1>2. k < n => end(k) <= rows[n].off
  BY RowsInOrder
<1> HIDE DEF end
<1>3. end(k) <= size
  BY <1>1, <1>2
<1> QED  BY <1>3 DEF end

(* What TilesExactly says of one layout.                                   *)
LEMMA LayoutTiles ==
  ASSUME NEW f, ShapedFormat(f), Layouts(f) = {}, NEW l \in ToSet(f.layouts)
  PROVE  LET rows == FieldRows(l) IN
         /\ \A b \in 0..(l.size - 1) : Cardinality(Of(rows, b)) = 1
         /\ \A k \in DOMAIN rows : rows[k].off + rows[k].len <= l.size
         /\ \A row \in ReservedRows(l) : \A b \in row.off..(row.off + row.len - 1) :
              \A k \in Of(rows, b) : l.fields[k].reserved
<1> DEFINE rows == FieldRows(l)
           n == Len(l.fields)
<1>1. l \in LayoutShape /\ Tiles(rows, n, l.size)
  BY RowsTile
<1>2. n \in Nat /\ l.size \in Nat /\ DOMAIN l.fields = 1..n
  BY <1>1 DEF LayoutShape
<1>3. DOMAIN rows = 1..n /\ \A k \in 1..n : rows[k].off \in Nat /\ rows[k].len \in Nat
  BY <1>1 DEF Tiles
<1> HIDE DEF rows, n
<1>4. ASSUME NEW b \in 0..(l.size - 1)  PROVE Cardinality(Of(rows, b)) = 1
  <2>1. PICK k \in 1..n : Of(rows, b) = {k}
    BY <1>1, <1>2, OneRow
  <2> QED  BY <2>1, FS_Singleton
<1>5. \A k \in DOMAIN rows : rows[k].off + rows[k].len <= l.size
  BY <1>1, <1>2, <1>3, RowsEnd
<1>6. ASSUME NEW row \in ReservedRows(l), NEW b \in row.off..(row.off + row.len - 1),
             NEW k \in Of(rows, b)
      PROVE  l.fields[k].reserved
  <2>1. PICK x \in 1..n : row = rows[x] /\ l.fields[x].reserved
    BY <1>2 DEF ReservedRows, rows
  <2>2. x \in Of(rows, b)
    BY <2>1, <1>3 DEF Of
  <2>3. rows[x].off + rows[x].len <= l.size
    BY <1>3, <1>5, <2>1
  <2>4. b \in 0..(l.size - 1)
    BY <2>1, <2>3, <1>2, <1>3
  <2>5. PICK y \in 1..n : Of(rows, b) = {y}
    BY <1>1, <1>2, <2>4, OneRow
  <2> QED  BY <2>1, <2>2, <2>5
<1> QED  BY <1>4, <1>5, <1>6 DEF rows

-----------------------------------------------------------------------------
(* Enums, flag sets and block types.                                       *)

EnumShape ==
  [name : Name, width : Name, mask : NumberBits \cup {NoMask}, values : Seq(Values)]
BitShape == [bit : Nat, name : Name]
FlagSetShape ==
  [name : Name, width : Name, unknown_odd_rule : Seq(Seq(STRING)), bits : Seq(BitShape)]

(* What a name finds has the name.                                         *)
LEMMA NamedIs ==
  ASSUME NEW s, NEW n \in Nat, DOMAIN s = 1..n, NEW x, HasName(s, x)
  PROVE  \E i \in 1..n : Named(s, x) = s[i] /\ s[i].name = x
<1> DEFINE at == {i \in DOMAIN s : s[i].name = x}
<1>1. at \subseteq Nat /\ at # {}
  BY DEF HasName
<1>2. Min(at) \in at
  <2> HIDE DEF at
  <2> QED  BY <1>1, MinIsMember
<1> QED  BY <1>2 DEF Named

(* What the validator has checked of an enum without a problem.            *)
LEMMA EnumFacts ==
  ASSUME NEW f, ShapedFormat(f), Enums(f) = {}, NEW en \in ToSet(f.enums)
  PROVE  /\ en \in EnumShape
         /\ en.width \in DOMAIN Bits
         /\ en.values # <<>> /\ en.values[1].name = "invalid" /\ en.values[1].value = {}
         /\ \A i, j \in DOMAIN en.values :
              en.values[i].value = en.values[j].value => i = j
         /\ \A i \in DOMAIN en.values : EnumValue(en, en.values[i]) = {}
<1>1. PICK i \in DOMAIN f.enums : en = f.enums[i]
  BY DEF ToSet
<1>2. en \in EnumShape
  <2>1. f.enums \in Seq(EnumShape)
    BY DEF ShapedFormat, EnumShape
  <2> QED  BY <1>1, <2>1
<1>3. EnumProblems(en) = {}
  <2>1. UNION {EnumProblems(f.enums[k]) : k \in DOMAIN f.enums} = {}
    BY DEF Enums, Each
  <2> QED  BY <1>1, <2>1
<1>4. en.width \in DOMAIN Bits
  BY <1>3 DEF EnumProblems
<1>5. /\ When(en.values = <<>> \/ en.values[1].name # "invalid" \/ en.values[1].value # {},
               "first value", en.name) = {}
      /\ Twice([k \in DOMAIN en.values |-> en.values[k].value], "value twice") = {}
      /\ UNION {EnumValue(en, en.values[k]) : k \in DOMAIN en.values} = {}
  BY <1>3, <1>4 DEF EnumProblems, Each
<1>6. en.values # <<>> /\ en.values[1].name = "invalid" /\ en.values[1].value = {}
  BY <1>5, WhenNone
<1>7. \A k, m \in DOMAIN en.values : en.values[k].value = en.values[m].value => k = m
  <2> DEFINE vals == [k \in DOMAIN en.values |-> en.values[k].value]
             n == Len(en.values)
  <2>1. n \in Nat /\ DOMAIN en.values = 1..n /\ DOMAIN vals = 1..n
    BY <1>2 DEF EnumShape
  <2>2. Twice(vals, "value twice") = {}
    BY <1>5
  <2>3. \A k, m \in 1..n : vals[k] = vals[m] => k = m
    <3> HIDE DEF vals, n
    <3> QED  BY <2>1, <2>2, TwiceNone
  <2> QED  BY <2>1, <2>3
<1> QED  BY ZenonT(60), <1>2, <1>4, <1>5, <1>6, <1>7

(* What it has checked of a flag set.                                      *)
LEMMA FlagFacts ==
  ASSUME NEW f, NEW r, ShapedFormat(f), NEW fs \in ToSet(f.flag_sets),
         \A i \in DOMAIN f.flag_sets : FlagSet(r, f.flag_sets[i]) = {}
  PROVE  /\ fs \in FlagSetShape
         /\ \A i \in DOMAIN fs.bits : fs.bits[i].bit < Bits["u32"]
         /\ \A i, j \in DOMAIN fs.bits : fs.bits[i].bit = fs.bits[j].bit => i = j
         /\ IsFileRule(r, fs.unknown_odd_rule)
<1>1. PICK i \in DOMAIN f.flag_sets : fs = f.flag_sets[i]
  BY DEF ToSet
<1>2. fs \in FlagSetShape
  <2>1. f.flag_sets \in Seq(FlagSetShape)
    BY DEF ShapedFormat, FlagSetShape, BitShape
  <2> QED  BY <1>1, <2>1
<1>3. FlagSet(r, fs) = {}
  BY <1>1
<1>4. fs.width = "u32"
  BY <1>3 DEF FlagSet
<1>5. /\ UNION {When(fs.bits[k].bit >= Bits["u32"], "bit out of range", fs.bits[k].name) :
                 k \in DOMAIN fs.bits} = {}
      /\ Twice([k \in DOMAIN fs.bits |-> fs.bits[k].bit], "bit twice") = {}
      /\ When(~IsFileRule(r, fs.unknown_odd_rule), "unknown_odd_rule", fs.name) = {}
  BY <1>3, <1>4 DEF FlagSet, Each
<1>6. IsFileRule(r, fs.unknown_odd_rule)
  BY <1>5, WhenNone
<1>7. ASSUME NEW k \in DOMAIN fs.bits  PROVE fs.bits[k].bit < Bits["u32"]
  <2>1. When(fs.bits[k].bit >= Bits["u32"], "bit out of range", fs.bits[k].name) = {}
    BY <1>5
  <2>2. ~(fs.bits[k].bit >= Bits["u32"])
    BY <2>1, WhenNone
  <2>3. fs.bits[k].bit \in Nat
    <3>1. fs.bits[k] \in BitShape
      BY <1>2 DEF FlagSetShape
    <3> QED  BY <3>1 DEF BitShape
  <2>4. Bits["u32"] \in Nat
    BY SpecAssumption DEF SpecAssumption
  <2> QED  BY <2>2, <2>3, <2>4
<1>8. \A k, m \in DOMAIN fs.bits : fs.bits[k].bit = fs.bits[m].bit => k = m
  <2> DEFINE bits == [k \in DOMAIN fs.bits |-> fs.bits[k].bit]
             n == Len(fs.bits)
  <2>1. n \in Nat /\ DOMAIN fs.bits = 1..n /\ DOMAIN bits = 1..n
    BY <1>2 DEF FlagSetShape
  <2>2. Twice(bits, "bit twice") = {}
    BY <1>5
  <2>3. \A k, m \in 1..n : bits[k] = bits[m] => k = m
    <3> HIDE DEF bits, n
    <3> QED  BY <2>1, <2>2, TwiceNone
  <2> QED  BY <2>1, <2>3
<1> QED  BY <1>2, <1>6, <1>7, <1>8

(* A value that passed fits the width and the mask; one that is registered *)
(* only is not zero.                                                       *)
LEMMA ValueFacts ==
  ASSUME NEW en, NEW v, EnumValue(en, v) = {}
  PROVE  /\ v.value \subseteq 0..(Bits[en.width] - 1)
         /\ en.mask # NoMask => v.value \subseteq en.mask
         /\ v.registered_undefined => v.value # {}
<1>1. /\ When(~(v.value \subseteq 0..(Bits[en.width] - 1)), "does not fit", v.name) = {}
      /\ When(en.mask # NoMask /\ ~(v.value \subseteq en.mask), "outside mask", v.name) = {}
      /\ When(v.registered_undefined /\ v.value = {}, "invalid registered", v.name) = {}
  BY DEF EnumValue
<1> QED  BY <1>1, WhenNone, Zenon

(* What ReaderTellsApart says of one enum.                                 *)
LEMMA EnumTellsApart ==
  ASSUME NEW f, ShapedFormat(f), Enums(f) = {}, NEW en \in ToSet(f.enums)
  PROVE  LET Accepted(x) == Masked(en, x) \in DefinedValues(en) IN
         /\ DOMAIN en.values # {} /\ ~Accepted({})
         /\ \A i \in DOMAIN en.values :
              LET v == en.values[i] IN
              /\ v.value \subseteq 0..(Bits[en.width] - 1)
              /\ Accepted(v.value) = (i # 1 /\ ~v.registered_undefined)
              /\ \A j \in DOMAIN en.values :
                   Masked(en, en.values[j].value) = Masked(en, v.value) => i = j
         /\ DefinedValues(en) \cap Registered(en) = {}
<1> DEFINE n == Len(en.values)
           val(i) == en.values[i].value
           reg(i) == en.values[i].registered_undefined
<1>1. /\ en \in EnumShape
      /\ en.values # <<>> /\ val(1) = {}
      /\ \A i, j \in DOMAIN en.values : val(i) = val(j) => i = j
      /\ \A i \in DOMAIN en.values : EnumValue(en, en.values[i]) = {}
  BY EnumFacts
<1>2. /\ n \in Nat /\ DOMAIN en.values = 1..n /\ n # 0
      /\ \A i \in 1..n : reg(i) \in BOOLEAN
  <2>1. en.values \in Seq(Values)
    BY <1>1 DEF EnumShape
  <2>2. n # 0
    BY <1>1, <2>1, EmptySeq
  <2>3. \A i \in 1..n : en.values[i] \in Values
    BY <2>1
  <2> QED  BY <2>1, <2>2, <2>3 DEF Values
<1>3. ASSUME NEW i \in 1..n
      PROVE  val(i) \subseteq 0..(Bits[en.width] - 1) /\ Masked(en, val(i)) = val(i)
  <2>0. EnumValue(en, en.values[i]) = {}
    BY <1>1, <1>2
  <2>1. /\ val(i) \subseteq 0..(Bits[en.width] - 1)
        /\ en.mask # NoMask => val(i) \subseteq en.mask
    BY <2>0, ValueFacts
  <2> QED  BY <2>1 DEF Masked
<1>4. /\ DefinedValues(en) = {val(i) : i \in {i \in 1..n : val(i) # {} /\ ~reg(i)}}
      /\ Registered(en) = {val(i) : i \in {i \in 1..n : reg(i)}}
  BY <1>2 DEF DefinedValues, Registered, ValuesThat, ToSet
<1>5. \A i, j \in 1..n : val(i) = val(j) => i = j
  BY <1>1, <1>2
<1>6. 1 \in 1..n
  BY <1>2
<1>7. Masked(en, {}) = {}
  BY DEF Masked
<1> HIDE DEF n, val, reg
<1>8. {} \notin DefinedValues(en)
  BY <1>4
<1>9. \A i \in 1..n : (val(i) \in DefinedValues(en)) = (i # 1 /\ ~reg(i))
  <2> TAKE i \in 1..n
  <2>1. val(i) # {} <=> i # 1
    BY <1>1, <1>5, <1>6
  <2>2. val(i) \in DefinedValues(en) <=> (val(i) # {} /\ ~reg(i))
    BY <1>4, <1>5
  <2> QED  BY <2>1, <2>2, <1>2
<1>10. DefinedValues(en) \cap Registered(en) = {}
  <2>1. ASSUME NEW x \in DefinedValues(en), x \in Registered(en)  PROVE FALSE
    <3>1. PICK i \in 1..n : x = val(i) /\ ~reg(i)
      BY <1>4
    <3>2. PICK j \in 1..n : x = val(j) /\ reg(j)
      BY <1>4, <2>1
    <3> QED  BY <3>1, <3>2, <1>5
  <2> QED  BY <2>1
<1>11. ASSUME NEW i \in DOMAIN en.values
       PROVE  /\ val(i) \subseteq 0..(Bits[en.width] - 1)
              /\ (Masked(en, val(i)) \in DefinedValues(en)) = (i # 1 /\ ~reg(i))
              /\ \A j \in DOMAIN en.values : Masked(en, val(j)) = Masked(en, val(i)) => i = j
  <2>1. i \in 1..n /\ \A j \in DOMAIN en.values : j \in 1..n
    BY <1>2
  <2>2. Masked(en, val(i)) = val(i)
    BY <1>3, <2>1
  <2>3. (Masked(en, val(i)) \in DefinedValues(en)) = (i # 1 /\ ~reg(i))
    BY <1>9, <2>1, <2>2, Zenon
  <2>4. \A j \in DOMAIN en.values : Masked(en, val(j)) = Masked(en, val(i)) => i = j
    BY <1>3, <1>5, <2>1, <2>2, Zenon
  <2> QED  BY <1>3, <2>1, <2>3, <2>4, Zenon
<1>12. DOMAIN en.values # {}
  BY <1>2, <1>6
<1>13. Masked(en, {}) \notin DefinedValues(en)
  BY <1>7, <1>8, Zenon
<1> QED  BY <1>10, <1>11, <1>12, <1>13, Zenon DEF val, reg

(* What it says of one flag set.                                           *)
LEMMA FlagsTellApart ==
  ASSUME NEW f, NEW r, ShapedFormat(f), NEW fs \in ToSet(f.flag_sets),
         \A i \in DOMAIN f.flag_sets : FlagSet(r, f.flag_sets[i]) = {}
  PROVE  /\ Cardinality(Known(fs)) = Len(fs.bits)
         /\ Known(fs) \subseteq 0..(Bits["u32"] - 1) /\ Known(fs) \cap UnknownOdd(fs) = {}
<1> DEFINE n == Len(fs.bits)
           bit == [i \in 1..n |-> fs.bits[i].bit]
<1>1. /\ fs \in FlagSetShape
      /\ \A i \in DOMAIN fs.bits : fs.bits[i].bit < Bits["u32"]
      /\ \A i, j \in DOMAIN fs.bits : fs.bits[i].bit = fs.bits[j].bit => i = j
  BY FlagFacts
<1>2. /\ n \in Nat /\ DOMAIN fs.bits = 1..n
      /\ \A i \in 1..n : fs.bits[i].bit \in Nat
  <2>1. fs.bits \in Seq(BitShape)
    BY <1>1 DEF FlagSetShape
  <2>2. n \in Nat /\ DOMAIN fs.bits = 1..n /\ \A i \in 1..n : fs.bits[i] \in BitShape
    BY <2>1
  <2> QED  BY <2>2 DEF BitShape
<1>3. Bits["u32"] \in Nat
  BY SpecAssumption DEF SpecAssumption
<1>4. Known(fs) = {bit[i] : i \in 1..n}
  BY <1>2 DEF Known
<1>5. bit \in Bijection(1..n, Known(fs))
  <2>1. bit \in [1..n -> Known(fs)]
    BY <1>4
  <2>2. \A i, j \in 1..n : bit[i] = bit[j] => i = j
    BY <1>1, <1>2
  <2>3. \A b \in Known(fs) : \E i \in 1..n : bit[i] = b
    BY <1>4
  <2> HIDE DEF bit
  <2> QED  BY <2>1, <2>2, <2>3 DEF Bijection, Injection, Surjection, IsInjective
<1>6. Cardinality(Known(fs)) = n
  <2>1. IsFiniteSet(1..n) /\ Cardinality(1..n) = n
    BY <1>2, FS_Interval
  <2>2. ExistsBijection(1..n, Known(fs))
    BY <1>5 DEF ExistsBijection
  <2> HIDE DEF bit, n
  <2> QED  BY <2>1, <2>2, FS_Bijection
<1>7. Known(fs) \subseteq 0..(Bits["u32"] - 1)
  BY <1>1, <1>2, <1>3 DEF Known
<1>8. Known(fs) \cap UnknownOdd(fs) = {}
  BY DEF UnknownOdd
<1> QED  BY <1>6, <1>7, <1>8

(* No block type is both defined and reserved.                             *)
LEMMA BlocksApart ==
  ASSUME NEW f, ShapedFormat(f), BlockTypes(f) = {}
  PROVE  BlockIds(f, "defined") \cap BlockIds(f, "registered_undefined") = {}
<1> DEFINE n == Len(f.block_types)
           names == NamesOf(f.block_types)
<1>1. n \in Nat /\ DOMAIN f.block_types = 1..n /\ DOMAIN names = 1..n
  BY DEF ShapedFormat, NamesOf
<1>2. Twice(names, "block type twice") = {}
  BY DEF BlockTypes, Each
<1>3. \A i, j \in 1..n : names[i] = names[j] => i = j
  <2> HIDE DEF names, n
  <2> QED  BY <1>1, <1>2, TwiceNone
<1>4. \A i, j \in 1..n : f.block_types[i].name = f.block_types[j].name => i = j
  BY <1>1, <1>3 DEF NamesOf
<1> QED  BY <1>1, <1>4 DEF BlockIds, ToSet

-----------------------------------------------------------------------------
(* References.                                                             *)

(* A name that is found names an item.                                     *)
LEMMA LayoutItem ==
  ASSUME NEW f, NEW l \in ToSet(f.layouts), NEW x, x = "LEN" \/ HasName(l.fields, x)
  PROVE  <<l.name, x>> \in Items(f)
<1>1. x \in {"LEN"} \cup ToSet(NamesOf(l.fields))
  BY DEF HasName, NamesOf, ToSet
<1>2. <<l.name, x>> \in {<<l.name, n>> : n \in {"LEN"} \cup ToSet(NamesOf(l.fields))}
  BY <1>1
<1> QED  BY <1>2, Zenon DEF Items

(* Each value of an enum is an item of the generated code.                 *)
LEMMA EnumItem ==
  ASSUME NEW f, NEW en \in ToSet(f.enums), NEW k \in DOMAIN en.values
  PROVE  <<en.name, en.values[k].name>> \in Items(f)
<1>1. en.values[k].name \in ToSet(NamesOf(en.values))
  BY DEF NamesOf, ToSet
<1>2. <<en.name, en.values[k].name>> \in {<<en.name, n>> : n \in ToSet(NamesOf(en.values))}
  BY <1>1
<1> QED  BY <1>2, Zenon DEF Items

(* An enum that must be there is one of them.                              *)
LEMMA EnumNamed ==
  ASSUME NEW f, ShapedFormat(f), NEW x, HasName(f.enums, x)
  PROVE  Named(f.enums, x) \in ToSet(f.enums) /\ Named(f.enums, x).name = x
<1> DEFINE n == Len(f.enums)
<1>1. n \in Nat /\ DOMAIN f.enums = 1..n
  BY DEF ShapedFormat
<1>2. PICK i \in 1..n : Named(f.enums, x) = f.enums[i] /\ f.enums[i].name = x
  <2> HIDE DEF n
  <2> QED  BY <1>1, NamedIs
<1> QED  BY <1>1, <1>2 DEF ToSet

(* CONTENT_KIND_BY_TYPE has the types of file_type and kinds there are.    *)
LEMMA KindsResolve ==
  ASSUME NEW f, ShapedFormat(f), Enums(f) = {}, Kinds(f) = {}
  PROVE  KindUses(f) \subseteq Items(f)
<1> DEFINE ft == Named(f.enums, "file_type")
           ck == Named(f.enums, "content_kind")
           types == Tail(NamesOf(ft.values))
<1>1. KindsChecked(f)
  BY DEF Kinds
<1>2. /\ ft \in ToSet(f.enums) /\ ft.name = "file_type"
      /\ ck \in ToSet(f.enums) /\ ck.name = "content_kind"
  BY <1>1, EnumNamed DEF KindsChecked
<1>3. /\ When(ToSet(types) # DOMAIN f.kinds, "types of content_kind_by_type", "") = {}
      /\ UNION {UNION {When(f.kinds[t][k] = "invalid" \/ ~HasName(ck.values, f.kinds[t][k]),
                            "content_kind", f.kinds[t][k]) : k \in DOMAIN f.kinds[t]} :
                t \in DOMAIN f.kinds} = {}
  BY <1>1 DEF Kinds, Each
<1>4. ToSet(types) = DOMAIN f.kinds
  BY <1>3, WhenNone
<1>5. /\ ft \in EnumShape /\ ft.values # <<>>
  BY <1>2, EnumFacts
<1>6. ASSUME NEW t \in DOMAIN f.kinds  PROVE <<"file_type", t>> \in Items(f)
  <2> DEFINE n == Len(ft.values)
  <2>1. /\ ft.values \in Seq(Values) /\ n \in Nat /\ DOMAIN ft.values = 1..n
    BY <1>5 DEF EnumShape
  <2>2. n # 0
    BY <1>5, <2>1, EmptySeq
  <2>3. /\ NamesOf(ft.values) = [i \in 1..n |-> ft.values[i].name]
        /\ Len(NamesOf(ft.values)) = n
    BY <2>1 DEF NamesOf
  <2>4. DOMAIN types = 1..(n - 1) /\ \A i \in 1..(n - 1) : types[i] = ft.values[i + 1].name
    BY <2>1, <2>2, <2>3
  <2>5. PICK i \in DOMAIN types : t = types[i]
    BY <1>4 DEF ToSet
  <2>6. i + 1 \in DOMAIN ft.values /\ t = ft.values[i + 1].name
    <3> HIDE DEF types, n, ft
    <3> QED  BY <2>1, <2>4, <2>5
  <2> QED  BY <1>2, <2>6, EnumItem
<1>7. ASSUME NEW t \in DOMAIN f.kinds, NEW x \in ToSet(f.kinds[t])
      PROVE  <<"content_kind", x>> \in Items(f)
  <2>1. PICK k \in DOMAIN f.kinds[t] : x = f.kinds[t][k]
    BY DEF ToSet
  <2>2. When(x = "invalid" \/ ~HasName(ck.values, x), "content_kind", x) = {}
    <3> DEFINE of(y) == When(y = "invalid" \/ ~HasName(ck.values, y), "content_kind", y)
               all == {of(f.kinds[t][j]) : j \in DOMAIN f.kinds[t]}
               each == {UNION {of(f.kinds[u][j]) : j \in DOMAIN f.kinds[u]} : u \in DOMAIN f.kinds}
    <3>0. UNION each = {}
      BY <1>3, Zenon
    <3>1. UNION all = {}
      <4>1. UNION all \in each
        BY Zenon
      <4> QED  BY <3>0, <4>1, UnionNone, Zenon
    <3>2. of(x) \in all
      BY <2>1
    <3> QED  BY <3>1, <3>2, UnionNone, Zenon
  <2>3. HasName(ck.values, x)
    BY <2>2, WhenNone
  <2>4. PICK i \in DOMAIN ck.values : ck.values[i].name = x
    BY <2>3 DEF HasName
  <2> QED  BY <1>2, <2>4, EnumItem
<1> HIDE DEF ft, ck, types
<1> QED  BY <1>6, <1>7 DEF KindUses

(* The heap references of a layout name fields of it.                      *)
LEMMA HeapResolves ==
  ASSUME NEW f, ShapedFormat(f), Layouts(f) = {}, NEW l \in ToSet(f.layouts)
  PROVE  HeapUses(l) \subseteq Items(f)
<1>1. ASSUME NEW i \in DOMAIN l.heap_refs
      PROVE  /\ <<l.name, l.heap_refs[i][1]>> \in Items(f)
             /\ <<l.name, l.heap_refs[i][2]>> \in Items(f)
  <2>1. HeapRef(l, l.heap_refs[i][1], l.heap_refs[i][2]) = {}
    BY LayoutFacts
  <2>2. HasName(l.fields, l.heap_refs[i][1]) /\ HasName(l.fields, l.heap_refs[i][2])
    BY <2>1, WhenNone, Zenon DEF HeapRef
  <2> QED  BY <2>2, LayoutItem
<1> QED  BY <1>1 DEF HeapUses

(* The index header is there, and what counts records is a field of it.    *)
LEMMA IndexHeader ==
  ASSUME NEW f, ShapedFormat(f), Layouts(f) = {}
  PROVE  /\ HasName(f.layouts, "index_header")
         /\ Named(f.layouts, "index_header") \in ToSet(f.layouts)
<1>1. "index_header" \in ToSet(NamesOf(f.layouts))
  <2>1. {<<"layout required", n>> :
         n \in {"header", "trailer", "block_header", "data_header", "index_header"}
                 \ ToSet(NamesOf(f.layouts))} = {}
    BY DEF Layouts, Each
  <2> QED  BY <2>1
<1>2. HasName(f.layouts, "index_header")
  BY <1>1 DEF HasName, NamesOf, ToSet
<1> DEFINE n == Len(f.layouts)
<1>3. n \in Nat /\ DOMAIN f.layouts = 1..n
  BY DEF ShapedFormat
<1>4. PICK i \in 1..n : Named(f.layouts, "index_header") = f.layouts[i]
  <2> HIDE DEF n
  <2> QED  BY <1>2, <1>3, NamedIs
<1> QED  BY <1>2, <1>3, <1>4 DEF ToSet

(* A field of the index header that was found with some type.              *)
LEMMA TableFacts ==
  ASSUME NEW f, ShapedFormat(f), Layouts(f) = {}, Tables(f) = {}
  PROVE  LET ih == Named(f.layouts, "index_header").fields IN
         /\ \A i \in DOMAIN f.index_tables :
              LET t == f.index_tables[i] IN
              /\ HasName(ih, t.count) /\ Named(ih, t.count).type \in {"u32", "u64"}
              /\ t.record # None => HasName(f.layouts, t.record)
         /\ HasName(ih, f.heap_length)
<1> DEFINE ih == Named(f.layouts, "index_header").fields
           tables == f.index_tables
<1>1. HasName(f.layouts, "index_header")
  BY IndexHeader
<1>2. /\ UNION {When(~(HasName(ih, tables[i].count) /\ Named(ih, tables[i].count).type \in {"u32", "u64"}),
                     "count field", tables[i].name)
                \cup When(tables[i].record # None /\ ~HasName(f.layouts, tables[i].record),
                          "record layout", tables[i].name) : i \in DOMAIN tables} = {}
      /\ When(~HasName(ih, f.heap_length), "heap.length_field", f.heap_length) = {}
  BY <1>1 DEF Tables, Each
<1>3. HasName(ih, f.heap_length)
  BY <1>2, WhenNone
<1>4. ASSUME NEW i \in DOMAIN tables
      PROVE  /\ HasName(ih, tables[i].count) /\ Named(ih, tables[i].count).type \in {"u32", "u64"}
             /\ tables[i].record # None => HasName(f.layouts, tables[i].record)
  <2> HIDE DEF ih, tables
  <2>1. /\ When(~(HasName(ih, tables[i].count) /\ Named(ih, tables[i].count).type \in {"u32", "u64"}),
                "count field", tables[i].name) = {}
        /\ When(tables[i].record # None /\ ~HasName(f.layouts, tables[i].record),
                "record layout", tables[i].name) = {}
    <3> DEFINE count(j) == When(~(HasName(ih, tables[j].count) /\ Named(ih, tables[j].count).type \in {"u32", "u64"}),
                                "count field", tables[j].name)
               record(j) == When(tables[j].record # None /\ ~HasName(f.layouts, tables[j].record),
                                 "record layout", tables[j].name)
               all == {count(j) \cup record(j) : j \in DOMAIN tables}
    <3>1. UNION all = {}
      BY <1>2, Zenon
    <3>2. count(i) \cup record(i) \in all
      OBVIOUS
    <3>3. count(i) \cup record(i) = {}
      BY <3>1, <3>2, UnionNone, Zenon
    <3> QED  BY <3>3
  <2>2. HasName(ih, tables[i].count) /\ Named(ih, tables[i].count).type \in {"u32", "u64"}
    BY <2>1, WhenNone, Zenon
  <2>3. tables[i].record # None => HasName(f.layouts, tables[i].record)
    BY <2>1, WhenNone, Zenon
  <2> QED  BY <2>2, <2>3, Zenon
<1> QED  BY <1>3, <1>4, Zenon DEF ih, tables

(* The generated readers of the index tables use items that are generated, *)
(* and a count field that holds its number.                                *)
LEMMA TablesResolve ==
  ASSUME NEW f, ShapedFormat(f), Layouts(f) = {}, Tables(f) = {}
  PROVE  /\ TableUses(f) \subseteq Items(f)
         /\ \A t \in ToSet(IndexTables(f)) :
              t.count \in ToSet(FieldRows(Named(f.layouts, "index_header"))) /\ t.count.len >= 4
<1> DEFINE l == Named(f.layouts, "index_header")
           ih == l.fields
           tables == f.index_tables
           rows == FieldRows(l)
           n == Len(ih)
<1>1. l \in ToSet(f.layouts)
  BY IndexHeader
<1>2. l \in LayoutShape /\ \A k \in DOMAIN ih : ih[k].type \in DOMAIN TypeSize
  BY <1>1, LayoutFacts, FieldFacts
<1>3. n \in Nat /\ DOMAIN ih = 1..n
  BY <1>2 DEF LayoutShape
<1>4. ASSUME NEW i \in DOMAIN tables
      PROVE  /\ HasName(ih, tables[i].count) /\ Named(ih, tables[i].count).type \in {"u32", "u64"}
             /\ tables[i].record # None => HasName(f.layouts, tables[i].record)
  BY TableFacts
<1>5. ASSUME NEW t \in ToSet(IndexTables(f))
      PROVE  \E i \in DOMAIN tables :
               /\ t.record = tables[i].record
               /\ t.count = [off |-> Named(ih, tables[i].count).off,
                             len |-> Size(Named(ih, tables[i].count).type)]
  <2>1. PICK i \in DOMAIN tables : t = IndexTables(f)[i]
    BY DEF ToSet, IndexTables
  <2>2. HasName(ih, tables[i].count)
    BY <1>4
  <2> QED  BY <2>1, <2>2 DEF IndexTables
<1>6. ASSUME NEW t \in ToSet(IndexTables(f))
      PROVE  t.count \in ToSet(rows) /\ t.count.len >= 4
  <2>1. PICK i \in DOMAIN tables :
          t.count = [off |-> Named(ih, tables[i].count).off,
                     len |-> Size(Named(ih, tables[i].count).type)]
    BY <1>5
  <2>2. HasName(ih, tables[i].count) /\ Named(ih, tables[i].count).type \in {"u32", "u64"}
    BY <1>4
  <2>3. PICK k \in 1..n : Named(ih, tables[i].count) = ih[k]
    <3> HIDE DEF ih, n
    <3> QED  BY <1>3, <2>2, NamedIs
  <2>4. /\ k \in DOMAIN rows /\ rows[k] = t.count
    BY <1>3, <2>1, <2>3 DEF FieldRows
  <2>5. t.count.len = TypeSize[ih[k].type] /\ ih[k].type \in {"u32", "u64"}
    BY <1>2, <1>3, <2>1, <2>2, <2>3 DEF Size
  <2>6. TypeSize[ih[k].type] >= 4
    BY <2>5, SpecAssumption DEF SpecAssumption
  <2> HIDE DEF rows
  <2> QED  BY <2>4, <2>5, <2>6 DEF ToSet
<1>7. ASSUME NEW t \in ToSet(IndexTables(f)), t.record # None
      PROVE  <<t.record, "LEN">> \in Items(f)
  <2>1. PICK i \in DOMAIN tables : t.record = tables[i].record
    BY <1>5
  <2>2. HasName(f.layouts, t.record)
    BY <1>4, <1>7, <2>1
  <2>3. PICK k \in DOMAIN f.layouts : f.layouts[k].name = t.record
    BY <2>2 DEF HasName
  <2> QED  BY <2>3, LayoutItem DEF ToSet
<1> QED  BY <1>6, <1>7 DEF TableUses, rows, l

(* A name that is found is one of the names.                               *)
LEMMA HasNameIn ==
  ASSUME NEW s, NEW x, HasName(s, x)
  PROVE  x \in ToSet(NamesOf(s))
BY DEF HasName, NamesOf, ToSet

(* Every link of the pages has its anchor.                                 *)
LEMMA LinksResolve ==
  ASSUME NEW f, NEW r, ShapedFormat(f), Layouts(f) = {}, Tables(f) = {},
         \A i \in DOMAIN f.flag_sets : FlagSet(r, f.flag_sets[i]) = {}
  PROVE  Links(f) \subseteq Anchors(f, r)
<1> DEFINE fields == UNION {ToSet(l.fields) : l \in ToSet(f.layouts)}
<1>1. ASSUME NEW fl \in fields
      PROVE  Fits(f.enums, fl.enum, fl.type) /\ Fits(f.flag_sets, fl.flags, fl.type)
  <2>1. PICK l \in ToSet(f.layouts) : fl \in ToSet(l.fields)
    OBVIOUS
  <2>2. PICK k \in DOMAIN l.fields : fl = l.fields[k]
    BY <2>1 DEF ToSet
  <2> QED  BY <2>2, LayoutFacts, FieldFacts
<1>2. ASSUME NEW fl \in fields, fl.enum # None
      PROVE  <<"enum", fl.enum>> \in Anchors(f, r)
  <2>1. HasName(f.enums, fl.enum)
    BY <1>1, <1>2 DEF Fits
  <2>2. fl.enum \in ToSet(NamesOf(f.enums))
    BY <2>1, HasNameIn
  <2> QED  BY <2>2 DEF Anchors
<1>3. ASSUME NEW fl \in fields, fl.flags # None
      PROVE  <<"flags", fl.flags>> \in Anchors(f, r)
  <2>1. HasName(f.flag_sets, fl.flags)
    BY <1>1, <1>3 DEF Fits
  <2>2. fl.flags \in ToSet(NamesOf(f.flag_sets))
    BY <2>1, HasNameIn
  <2> QED  BY <2>2 DEF Anchors
<1>4. ASSUME NEW fs \in ToSet(f.flag_sets)
      PROVE  <<"rule", fs.unknown_odd_rule>> \in Anchors(f, r)
  <2>1. IsFileRule(r, fs.unknown_odd_rule)
    BY FlagFacts
  <2>2. PICK i \in DOMAIN r : r[i].id = fs.unknown_odd_rule
    BY <2>1 DEF IsFileRule
  <2> QED  BY <2>2 DEF Anchors
<1>5. <<"length", f.heap_length>> \in Anchors(f, r)
  <2>1. HasName(Named(f.layouts, "index_header").fields, f.heap_length)
    BY TableFacts
  <2>2. f.heap_length \in ToSet(NamesOf(Named(f.layouts, "index_header").fields))
    BY <2>1, HasNameIn
  <2> QED  BY <2>2 DEF Anchors
<1> HIDE DEF fields
<1> QED  BY <1>2, <1>3, <1>4, <1>5 DEF Links, fields

-----------------------------------------------------------------------------
(* Rules.                                                                  *)

(* What the validator has checked of rules without a problem.              *)
LEMMA RulesNone ==
  ASSUME NEW f, NEW r, ShapedFormat(f), ShapedRules(r), Rules(f, r) = {}
  PROVE  /\ \A i, j \in DOMAIN f.phases : f.phases[i].name = f.phases[j].name => i = j
         /\ \A i, j \in DOMAIN r : r[i].id = r[j].id => i = j
         /\ \A i, j \in DOMAIN r : RuleVariant(r[i].id) = RuleVariant(r[j].id) => i = j
         /\ \A i \in DOMAIN r : RuleProblems(f, r[i]) = {}
         /\ CitedTwice(r) = {}
<1> DEFINE n == Len(r)
           p == Len(f.phases)
           names == NamesOf(f.phases)
           ids == [i \in DOMAIN r |-> r[i].id]
           variants == [i \in DOMAIN r |-> RuleVariant(r[i].id)]
<1>1. /\ n \in Nat /\ DOMAIN r = 1..n /\ DOMAIN ids = 1..n /\ DOMAIN variants = 1..n
      /\ p \in Nat /\ DOMAIN f.phases = 1..p /\ DOMAIN names = 1..p
  BY DEF ShapedFormat, ShapedRules, NamesOf
<1>2. /\ Twice(names, "phase defined twice") = {}
      /\ Twice(ids, "rule defined twice") = {}
      /\ Twice(variants, "variant collides") = {}
      /\ UNION {RuleProblems(f, r[i]) : i \in DOMAIN r} = {}
      /\ CitedTwice(r) = {}
  BY DEF Rules, Variants, Each
<1>3. \A i, j \in 1..p : names[i] = names[j] => i = j
  <2> HIDE DEF names, p
  <2> QED  BY <1>1, <1>2, TwiceNone
<1>4. \A i, j \in 1..n : ids[i] = ids[j] => i = j
  <2> HIDE DEF ids, n
  <2> QED  BY <1>1, <1>2, TwiceNone
<1>5. \A i, j \in 1..n : variants[i] = variants[j] => i = j
  <2> HIDE DEF variants, n
  <2> QED  BY <1>1, <1>2, TwiceNone
<1>6. \A i \in DOMAIN r : RuleProblems(f, r[i]) = {}
  BY <1>2, UnionNone
<1> HIDE DEF n, p
<1> QED  BY <1>1, <1>2, <1>3, <1>4, <1>5, <1>6 DEF NamesOf

PhaseShape == [name : Name]

(* A reader's rule has a phase there is and a fixture; any other has none. *)
LEMMA RuleFacts ==
  ASSUME NEW f, NEW rule, RuleProblems(f, rule) = {}
  PROVE  \/ /\ rule.scope \in {"file", "chain"}
            /\ rule.phase # None /\ HasName(f.phases, rule.phase) /\ rule.fixtures # <<>>
         \/ rule.scope \in {"writer", "behaviour"} /\ rule.phase = None
<1>1. CASE rule.scope \in {"file", "chain"}
  <2>1. /\ When(rule.phase = None \/ ~HasName(f.phases, rule.phase), "phase", rule.id) = {}
        /\ When(rule.fixtures = <<>>, "needs a fixture", rule.id) = {}
    BY <1>1 DEF RuleProblems, PhaseOf
  <2>2. rule.phase # None /\ HasName(f.phases, rule.phase)
    BY <2>1, WhenNone, Zenon
  <2>3. rule.fixtures # <<>>
    BY <2>1, WhenNone, Zenon
  <2> QED  BY <1>1, <2>2, <2>3
<1>2. CASE rule.scope \in {"writer", "behaviour"}
  <2>1. When(rule.fixtures # <<>> \/ rule.phase # None, "no fixtures, no phase", rule.id) = {}
    BY <1>2 DEF RuleProblems
  <2>2. rule.phase = None
    BY <2>1, WhenNone, Zenon
  <2> QED  BY <1>2, <2>2
<1>3. CASE rule.scope \notin {"file", "chain", "writer", "behaviour"}
  BY <1>3 DEF RuleProblems
<1> QED  BY <1>1, <1>2, <1>3

(* What RulesListedOnce says of one rule.                                  *)
LEMMA RuleListed ==
  ASSUME NEW f, NEW r, ShapedFormat(f), ShapedRules(r), Rules(f, r) = {}, NEW k \in DOMAIN r
  PROVE  /\ Cardinality(Listed(f, r, k)) = 1
         /\ (0 \in Listed(f, r, k)) = (r[k].scope \in {"writer", "behaviour"})
         /\ 0 \notin Listed(f, r, k) => r[k].fixtures # <<>>
<1> DEFINE n == Len(f.phases)
<1>1. n \in Nat /\ DOMAIN f.phases = 1..n
  BY DEF ShapedFormat
<1>2. \A i \in 1..n : f.phases[i].name # None
  <2>1. f.phases \in Seq(PhaseShape)
    BY DEF ShapedFormat, PhaseShape
  <2>2. \A i \in 1..n : f.phases[i] \in PhaseShape
    BY <2>1
  <2>3. \A i \in 1..n : f.phases[i].name \in Name
    BY <2>2 DEF PhaseShape
  <2> QED  BY <2>3 DEF Name
<1>3. /\ \A i, j \in 1..n : f.phases[i].name = f.phases[j].name => i = j
      /\ RuleProblems(f, r[k]) = {}
  BY <1>1, RulesNone
<1>4. Listed(f, r, k) = {p \in 1..n : f.phases[p].name = r[k].phase}
                          \cup (IF r[k].phase = None THEN {0} ELSE {})
  BY <1>1 DEF Listed, PhaseTable, Obligations
<1> HIDE DEF n
<1>5. CASE r[k].scope \in {"file", "chain"} /\ r[k].phase # None
           /\ HasName(f.phases, r[k].phase) /\ r[k].fixtures # <<>>
  <2>1. PICK p \in 1..n : f.phases[p].name = r[k].phase
    BY <1>1, <1>5 DEF HasName
  <2>2. Listed(f, r, k) = {p}
    BY <1>3, <1>4, <1>5, <2>1
  <2>3. Cardinality(Listed(f, r, k)) = 1
    BY <2>2, FS_Singleton
  <2> QED  BY <1>5, <2>2, <2>3
<1>6. CASE r[k].scope \in {"writer", "behaviour"} /\ r[k].phase = None
  <2>1. Listed(f, r, k) = {0}
    BY <1>2, <1>4, <1>6
  <2>2. Cardinality(Listed(f, r, k)) = 1
    BY <2>1, FS_Singleton
  <2> QED  BY <1>6, <2>1, <2>2
<1> QED  BY <1>3, <1>5, <1>6, RuleFacts

(* What RejectionNamesOneRule says of two rules.                           *)
LEMMA RulesApart ==
  ASSUME NEW f, NEW r, ShapedFormat(f), ShapedRules(r), Rules(f, r) = {},
         NEW i \in DOMAIN r, NEW j \in DOMAIN r
  PROVE  /\ FromId(r, r[i].id) = VariantIds(r)[i].variant
         /\ VariantIds(r)[i].variant = VariantIds(r)[j].variant => i = j
         /\ ToSet(r[i].fixtures) \cap ToSet(r[j].fixtures) # {} => i = j
<1> DEFINE n == Len(r)
<1>1. n \in Nat /\ DOMAIN r = 1..n
  BY DEF ShapedRules
<1>2. /\ \A a, b \in DOMAIN r : r[a].id = r[b].id => a = b
      /\ \A a, b \in DOMAIN r : RuleVariant(r[a].id) = RuleVariant(r[b].id) => a = b
      /\ CitedTwice(r) = {}
  BY RulesNone
<1>3. FromId(r, r[i].id) = VariantIds(r)[i].variant
  <2> DEFINE at == {a \in DOMAIN r : r[a].id = r[i].id}
  <2>1. at = {i}
    BY <1>2
  <2>2. i \in Nat
    BY <1>1
  <2>3. Min(at) \in at
    <3>1. at \subseteq Nat /\ at # {}
      BY <2>1, <2>2
    <3> HIDE DEF at
    <3> QED  BY <3>1, MinIsMember
  <2>4. Min(at) = i
    BY <2>1, <2>3, Zenon
  <2> QED  BY <2>4, Zenon DEF FromId
<1>4. VariantIds(r)[i].variant = VariantIds(r)[j].variant => i = j
  BY <1>2 DEF VariantIds
<1>5. ASSUME ToSet(r[i].fixtures) \cap ToSet(r[j].fixtures) # {}, i # j  PROVE FALSE
  <2>1. PICK a \in DOMAIN r[i].fixtures, b \in DOMAIN r[j].fixtures :
          r[i].fixtures[a] = r[j].fixtures[b]
    BY <1>5 DEF ToSet
  <2> DEFINE cited == UNION {{<<m, x>> : x \in DOMAIN r[m].fixtures} : m \in DOMAIN r}
             Fixture(c) == r[c[1]].fixtures[c[2]]
             Before(d, c) == d[1] < c[1] \/ (d[1] = c[1] /\ d[2] < c[2])
  <2>2. <<i, a>> \in cited /\ <<j, b>> \in cited
    OBVIOUS
  <2>3. Fixture(<<i, a>>) = Fixture(<<j, b>>)
    BY <2>1
  <2>4. Before(<<i, a>>, <<j, b>>) \/ Before(<<j, b>>, <<i, a>>)
    BY <1>1, <1>5
  <2>5. \A c \in cited : \A d \in cited : ~(Before(d, c) /\ Fixture(d) = Fixture(c))
    <3>1. ASSUME NEW c \in cited, NEW d \in cited, Before(d, c), Fixture(d) = Fixture(c)
          PROVE  <<"fixture cited twice", Fixture(c)>> \in CitedTwice(r)
      <4>1. CitedTwice(r) = {<<"fixture cited twice", Fixture(e)>> :
              e \in {e \in cited : \E g \in cited : Before(g, e) /\ Fixture(g) = Fixture(e)}}
        BY Zenon DEF CitedTwice
      <4> HIDE DEF cited, Fixture, Before
      <4> QED  BY <3>1, <4>1
    <3> QED  BY <1>2, <3>1
  <2> HIDE DEF cited, Fixture, Before
  <2> QED  BY <2>2, <2>3, <2>4, <2>5
<1> QED  BY <1>3, <1>4, <1>5

-----------------------------------------------------------------------------
(* The theorems.                                                           *)

(* What is generated was accepted, at all times.                           *)
LEMMA Inv == Spec => []GInv
<1>1. Init => GInv
  BY DEF Init, GInv
<1>2. GInv /\ [Next]_vars => GInv'
  <2> SUFFICES ASSUME GInv, [Next]_vars  PROVE GInv'
    OBVIOUS
  <2>1. CASE Edit
    BY <2>1 DEF Edit, GInv
  <2>2. CASE Run
    BY <2>2 DEF Run, GInv
  <2>3. CASE Probe
    BY <2>3 DEF Probe, GInv
  <2>4. CASE Read
    BY <2>4 DEF Read, GInv, Shaped
  <2>5. CASE Validate
    BY <2>5 DEF Validate, GInv, Shaped
  <2>6. CASE UNCHANGED vars
    BY <2>6 DEF GInv, Shaped, vars
  <2> QED  BY <2>1, <2>2, <2>3, <2>4, <2>5, <2>6 DEF Next, Exited
<1> QED  BY <1>1, <1>2, PTL DEF Spec

(* What is generated has no problem of any kind.                           *)
LEMMA Accepted ==
  ASSUME GInv, Generated
  PROVE  LET f == doc.f
             r == doc.r
         IN /\ ShapedFormat(f) /\ ShapedRules(r)
            /\ Enums(f) = {} /\ Kinds(f) = {} /\ Rules(f, r) = {}
            /\ \A i \in DOMAIN f.flag_sets : FlagSet(r, f.flag_sets[i]) = {}
            /\ BlockTypes(f) = {} /\ Layouts(f) = {} /\ Tables(f) = {}
<1>1. /\ ShapedFormat(doc.f) /\ ShapedRules(doc.r)
      /\ Problems(doc.f, doc.r, doc.present) = {}
  BY DEF GInv, Generated, Shaped
<1> QED  BY <1>1, Stages

(* The fields of every record that is generated tile it, whatever layouts  *)
(* the author writes (spec.rs:583-645, gen_rust.rs FIELDS and RESERVED).   *)
THEOREM FieldsTile == Spec => []TilesExactly
<1>1. GInv => TilesExactly
  BY Accepted, LayoutTiles DEF TilesExactly, Of
<1> QED  BY <1>1, Inv, PTL

(* Whatever the tables and pages name is there (spec.rs:383-400, 541-567,  *)
(* 607-671).                                                               *)
THEOREM NamesResolve == Spec => []ReferencesResolve
<1>1. ASSUME GInv, Generated
      PROVE  /\ KindUses(doc.f) \cup TableUses(doc.f)
                   \cup UNION {HeapUses(l) : l \in ToSet(doc.f.layouts)} \subseteq Items(doc.f)
             /\ Links(doc.f) \subseteq Anchors(doc.f, doc.r)
             /\ \A t \in ToSet(IndexTables(doc.f)) :
                  /\ t.count \in ToSet(FieldRows(Named(doc.f.layouts, "index_header")))
                  /\ t.count.len >= 4
  <2>1. KindUses(doc.f) \subseteq Items(doc.f)
    BY <1>1, Accepted, KindsResolve
  <2>2. \A l \in ToSet(doc.f.layouts) : HeapUses(l) \subseteq Items(doc.f)
    BY <1>1, Accepted, HeapResolves
  <2>3. Links(doc.f) \subseteq Anchors(doc.f, doc.r)
    BY <1>1, Accepted, LinksResolve
  <2>4. /\ TableUses(doc.f) \subseteq Items(doc.f)
        /\ \A t \in ToSet(IndexTables(doc.f)) :
             /\ t.count \in ToSet(FieldRows(Named(doc.f.layouts, "index_header")))
             /\ t.count.len >= 4
    BY <1>1, Accepted, TablesResolve
  <2> QED  BY <2>1, <2>2, <2>3, <2>4
<1>2. GInv => ReferencesResolve
  BY <1>1, Zenon DEF ReferencesResolve
<1> QED  BY <1>2, Inv, PTL

(* A reader that goes by the tables can tell values, flags and block types *)
(* apart (spec.rs:331-381, 541-575).                                       *)
THEOREM ValuesDiffer == Spec => []ReaderTellsApart
<1>1. GInv /\ Generated =>
        BlockIds(doc.f, "defined") \cap BlockIds(doc.f, "registered_undefined") = {}
  BY Accepted, BlocksApart
<1>2. GInv /\ Generated => \A fs \in ToSet(doc.f.flag_sets) :
        /\ Cardinality(Known(fs)) = Len(fs.bits)
        /\ Known(fs) \subseteq 0..(Bits["u32"] - 1) /\ Known(fs) \cap UnknownOdd(fs) = {}
  BY Accepted, FlagsTellApart
<1>3. GInv => ReaderTellsApart
  BY <1>1, <1>2, Accepted, EnumTellsApart, Zenon DEF ReaderTellsApart
<1> QED  BY <1>3, Inv, PTL

(* Every rule is in one table of rules.md (spec.rs:402-539).               *)
THEOREM EachRuleInOneTable == Spec => []RulesListedOnce
<1>1. GInv => RulesListedOnce
  BY Accepted, RuleListed DEF RulesListedOnce
<1> QED  BY <1>1, Inv, PTL

(* A rejection names one rule (gen_rust.rs:316).                           *)
THEOREM OneRulePerRejection == Spec => []RejectionNamesOneRule
<1>1. GInv => RejectionNamesOneRule
  BY Accepted, RulesApart DEF RejectionNamesOneRule
<1> QED  BY <1>1, Inv, PTL
=============================================================================
