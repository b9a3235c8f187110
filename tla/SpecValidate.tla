---------------------------- MODULE SpecValidate ----------------------------
(***************************************************************************)
(* Stage 2 of reading docs/spec (xtask/src/spec.rs:253-671): everything    *)
(* that validate() finds wrong with a format f and its rules r, which      *)
(* stage 1 (serde) has given the shapes of spec.rs:16-199.                 *)
(*                                                                         *)
(* Lists are sequences of records with the fields of the source; a field   *)
(* that is not there holds None.  A rule's id is the sequence of its       *)
(* segments, a segment the sequence of its words; whether a name is well   *)
(* formed, and whether it begins with "reserved", goes with it.  The value *)
(* of an enum, and its mask, is the set of its bits.  A problem is         *)
(* <<what, where>>.                                                        *)
(***************************************************************************)
EXTENDS Integers, SequencesExt, FiniteSetsExt

CONSTANTS
  Schema,     (* SPEC_SCHEMA                                               *)
  TypeSize,   (* the bytes of each field type                              *)
  Bits,       (* how many bits the widths u16 and u32 have, scaled down    *)
  MaxU64,     (* the largest u64, scaled down                              *)
  Malformed,  (* names and words with a letter they may not have           *)
  Numbered    (* words that begin with a digit                             *)

ASSUME SpecAssumption ==
  /\ TypeSize \in [DOMAIN TypeSize -> Nat]
  /\ \A t \in {"u32", "u64"} : t \in DOMAIN TypeSize /\ TypeSize[t] >= 4
  /\ Bits \in [{"u16", "u32"} -> Nat]

None == "-"
NoMask == {-1}

When(cond, what, where) == IF cond THEN {<<what, where>>} ELSE {}
Each(s, Problems(_)) == UNION {Problems(s[i]) : i \in DOMAIN s}
NamesOf(s) == [i \in DOMAIN s |-> s[i].name]
HasName(s, n) == \E i \in DOMAIN s : s[i].name = n
Named(s, n) == s[Min({i \in DOMAIN s : s[i].name = n})]  (* the first *)

(* The problem of every element that is equal to an earlier one. *)
Twice(s, what) ==
  {<<what, s[i]>> : i \in {i \in DOMAIN s : \E j \in 1..(i - 1) : s[j] = s[i]}}

-----------------------------------------------------------------------------
(* Stage 1: what serde makes of the two files.  Numbers are unsigned, a    *)
(* name is some text, and an entry that may be missing is None.            *)
Name == STRING \ {None}
NumberBits == SUBSET Nat

Fields == [off : Nat, name : Name, type : Name, enum : STRING, flags : STRING,
           reserved : BOOLEAN, namedReserved : BOOLEAN]
Values == [name : Name, value : NumberBits, registered_undefined : BOOLEAN]

ShapedFormat(f) ==
  /\ f.enums \in Seq([name : Name, width : Name, mask : NumberBits \cup {NoMask}, values : Seq(Values)])
  /\ f.kinds \in [DOMAIN f.kinds -> Seq(Name)]
  /\ f.flag_sets \in Seq([name : Name, width : Name, unknown_odd_rule : Seq(Seq(STRING)),
                          bits : Seq([bit : Nat, name : Name])])
  /\ f.block_types \in Seq([name : Name, status : Name])
  /\ f.layouts \in Seq([name : Name, size : Nat, heap_refs : Seq(Name \X Name), fields : Seq(Fields)])
  /\ f.index_tables \in Seq([name : Name, record : STRING, count : Name])
  /\ f.heap_length \in Name
  /\ f.phases \in Seq([name : Name])

ShapedRules(r) ==
  r \in Seq([id : Seq(Seq(STRING)), level : Name, phase : STRING, scope : Name,
             fixtures : Seq(Name), because : STRING])

-----------------------------------------------------------------------------
Inputs(f, present) ==
  LET declared == f.inputs \cup {"format.yaml"} IN
  {<<"undeclared input", p>> : p \in present \ declared}
  \cup {<<"missing input", p>> : p \in declared \ present}
  \cup When(f.endianness # "little", "endianness", f.endianness)
  \cup When((f.version[1] = 0) # (f.status = "UNSTABLE"), "status", f.status)

Acceptance(f) ==
  When(f.otherwise # "reject", "otherwise", f.otherwise)
  \cup Twice([i \in DOMAIN f.rows |-> f.rows[i].version], "row duplicated")
  \cup Each(f.rows, LAMBDA row : When(row.verdict # "accept", "verdict", row.version))
  \cup When(\A i \in DOMAIN f.rows : f.rows[i].version # f.version, "not accepted", f.version)

ConstNames(f) ==
  LET names == NamesOf(f.constants) \o NamesOf(f.magics) IN
  Twice(names, "constant defined twice")
  \cup {<<"constant name", n>> : n \in ToSet(names) \cap Malformed}
  \cup Each(f.magics, LAMBDA m : When(Len(m.bytes) # 8, "magic length", m.name))
  \cup Twice([i \in DOMAIN f.magics |-> f.magics[i].bytes], "identical magics")

-----------------------------------------------------------------------------
(* Mutation of EnumValue: what is masked away is not looked at. *)
EnumValueUnmasked(en, v) ==
  When(~(v.value \subseteq 0..(Bits[en.width] - 1)), "does not fit", v.name)
  \cup When(v.registered_undefined /\ v.value = {}, "invalid registered", v.name)

EnumValue(en, v) ==
  When(~(v.value \subseteq 0..(Bits[en.width] - 1)), "does not fit", v.name)
  \cup When(en.mask # NoMask /\ ~(v.value \subseteq en.mask), "outside mask", v.name)
  \cup When(v.registered_undefined /\ v.value = {}, "invalid registered", v.name)

EnumProblems(en) ==
  IF en.width \notin DOMAIN Bits THEN {<<"enum width", en.name>>}
  ELSE When(en.values = <<>> \/ en.values[1].name # "invalid" \/ en.values[1].value # {},
            "first value", en.name)
       \cup Twice(NamesOf(en.values), "value name twice")
       \cup Twice([i \in DOMAIN en.values |-> en.values[i].value], "value twice")
       \cup Each(en.values, LAMBDA v : EnumValue(en, v))

Enums(f) ==
  Twice(NamesOf(f.enums), "enum defined twice") \cup Each(f.enums, EnumProblems)

KindsChecked(f) == HasName(f.enums, "file_type") /\ HasName(f.enums, "content_kind")

(* Mutation of Kinds: the kinds themselves are not looked up. *)
KindsByTypeOnly(f) ==
  IF ~KindsChecked(f) THEN {<<"required", "file_type, content_kind">>}
  ELSE LET types == Tail(NamesOf(Named(f.enums, "file_type").values))
       IN When(ToSet(types) # DOMAIN f.kinds, "types of content_kind_by_type", "")

(* content_kind_by_type: one entry per file type, of kinds that exist. *)
Kinds(f) ==
  IF ~KindsChecked(f) THEN {<<"required", "file_type, content_kind">>}
  ELSE LET types == Tail(NamesOf(Named(f.enums, "file_type").values))
           kinds == Named(f.enums, "content_kind").values
       IN When(ToSet(types) # DOMAIN f.kinds, "types of content_kind_by_type", "")
          \cup UNION {Each(f.kinds[t], LAMBDA k :
                 When(k = "invalid" \/ ~HasName(kinds, k), "content_kind", k)) : t \in DOMAIN f.kinds}

-----------------------------------------------------------------------------
(* rule_variant: the words, capitalised and put together; a digit has no   *)
(* upper case, and where its word began cannot be seen.                    *)
RuleVariant(id) ==
  FoldLeft(LAMBDA s, w : IF w \in Numbered /\ s # <<>> THEN Append(Front(s), Last(s) \o w)
                         ELSE Append(s, w),
           <<>>, SelectSeq(FlattenSeq(id), LAMBDA w : w # ""))

IdOk(id) ==
  /\ Len(id) >= 2
  /\ \A k \in DOMAIN id : id[k] # <<>> /\ ToSet(id[k]) \cap Malformed = {}

(* Mutation of PhaseOf: any phase will do. *)
PhaseOfAny(f, rule) == When(rule.phase = None, "phase", rule.id)

PhaseOf(f, rule) ==
  When(rule.phase = None \/ ~HasName(f.phases, rule.phase), "phase", rule.id)

(* What a rule's scope asks of it: a reader's rule has a phase and         *)
(* fixtures and is a MUST, any other has a reason for having none.         *)
RuleProblems(f, rule) ==
  When(~IdOk(rule.id), "rule id", rule.id)
  \cup When(rule.level \notin {"MUST", "SHOULD"}, "level", rule.id)
  \cup IF rule.scope \in {"file", "chain"}
       THEN PhaseOf(f, rule)
            \cup When(rule.fixtures = <<>>, "needs a fixture", rule.id)
            \cup When(rule.because # None, "no_fixture_because", rule.id)
            \cup When(rule.level # "MUST", "a SHOULD cannot reject", rule.id)
       ELSE IF rule.scope \in {"writer", "behaviour"}
       THEN When(rule.fixtures # <<>> \/ rule.phase # None, "no fixtures, no phase", rule.id)
            \cup When(rule.because \in {None, ""}, "reason required", rule.id)
       ELSE {<<"scope", rule.id>>}

(* Mutation of Variants: it is the ids that have to differ. *)
VariantsById(r) == Twice([i \in DOMAIN r |-> r[i].id], "variant collides")

Variants(r) == Twice([i \in DOMAIN r |-> RuleVariant(r[i].id)], "variant collides")

(* The problem of every fixture that was cited before, by whichever rule.  *)
CitedTwice(r) ==
  LET cited == UNION {{<<i, a>> : a \in DOMAIN r[i].fixtures} : i \in DOMAIN r}
      Fixture(c) == r[c[1]].fixtures[c[2]]
      Before(d, c) == d[1] < c[1] \/ (d[1] = c[1] /\ d[2] < c[2])
  IN {<<"fixture cited twice", Fixture(c)>> :
        c \in {c \in cited : \E d \in cited : Before(d, c) /\ Fixture(d) = Fixture(c)}}

Rules(f, r) ==
  Twice(NamesOf(f.phases), "phase defined twice")
  \cup Twice([i \in DOMAIN r |-> r[i].id], "rule defined twice")
  \cup Variants(r)
  \cup Each(r, LAMBDA rule : RuleProblems(f, rule))
  \cup CitedTwice(r)

(* The last of the rules with this id counts. *)
IsFileRule(r, id) ==
  LET at == {i \in DOMAIN r : r[i].id = id} IN at # {} /\ r[Max(at)].scope = "file"

FlagSet(r, fs) ==
  IF fs.width # "u32" THEN {<<"flag set width", fs.name>>}
  ELSE Each(fs.bits, LAMBDA b : When(b.bit >= Bits["u32"], "bit out of range", b.name))
       \cup Twice([i \in DOMAIN fs.bits |-> fs.bits[i].bit], "bit twice")
       \cup When(~IsFileRule(r, fs.unknown_odd_rule), "unknown_odd_rule", fs.name)

BlockTypes(f) ==
  Each(f.block_types, LAMBDA b :
    When(b.name \in Malformed, "block type id", b.name)
    \cup When(b.status \notin {"defined", "registered_undefined"}, "block status", b.name))
  \cup Twice(NamesOf(f.block_types), "block type twice")
  \cup {<<"must be defined", n>> :
         n \in {n \in {"DATA", "INDX"} : \A i \in DOMAIN f.block_types :
                  f.block_types[i].name # n \/ f.block_types[i].status # "defined"}}

-----------------------------------------------------------------------------
(* Where the fields before field k end; one of unknown type ends nowhere.  *)
Cursor(l, k) ==
  LET known == {i \in 1..(k - 1) : l.fields[i].type \in DOMAIN TypeSize}
  IN IF known = {} THEN 0
     ELSE l.fields[Max(known)].off + TypeSize[l.fields[Max(known)].type]

(* Mutation of FieldPlace: fields may overlap. *)
FieldPlaceGapOnly(l, k) == When(l.fields[k].off > Cursor(l, k), "gap", l.fields[k].name)

FieldPlace(l, k) == When(l.fields[k].off # Cursor(l, k), "gap or overlap", l.fields[k].name)

(* A reference to an enum or flag set of the field's own width. *)
Fits(s, name, type) == name = None \/ (HasName(s, name) /\ Named(s, name).width = type)

Field(f, l, k) ==
  LET fl == l.fields[k] IN
  FieldPlace(l, k)
  \cup IF fl.type \notin DOMAIN TypeSize THEN {<<"unknown type", fl.name>>}
       ELSE When(~Fits(f.enums, fl.enum, fl.type), "enum", fl.name)
            \cup When(~Fits(f.flag_sets, fl.flags, fl.type), "flags", fl.name)
            \cup When(fl.reserved # fl.namedReserved, "reserved", fl.name)

HeapRef(l, off, len) ==
  When(~(/\ HasName(l.fields, off) /\ Named(l.fields, off).type = "u64"
         /\ HasName(l.fields, len) /\ Named(l.fields, len).type \in {"u32", "u64"}),
       "heap ref", off)

Layout(f, l) ==
  Twice(NamesOf(l.fields), "field defined twice")
  \cup (UNION {Field(f, l, k) : k \in DOMAIN l.fields})
  \cup When(Cursor(l, Len(l.fields) + 1) # l.size, "size", l.name)
  \cup When(l.size % 8 # 0, "size not a multiple of 8", l.name)
  \cup Each(l.heap_refs, LAMBDA h : HeapRef(l, h[1], h[2]))

Layouts(f) ==
  Twice(NamesOf(f.layouts), "layout defined twice")
  \cup Each(f.layouts, LAMBDA l : Layout(f, l))
  \cup {<<"layout required", n>> :
         n \in {"header", "trailer", "block_header", "data_header", "index_header"}
                 \ ToSet(NamesOf(f.layouts))}

(* The index header counts the records of each table and the heap. *)
Tables(f) ==
  IF ~HasName(f.layouts, "index_header") THEN {}
  ELSE LET ih == Named(f.layouts, "index_header").fields IN
       Twice(NamesOf(f.index_tables), "table listed twice")
       \cup Each(f.index_tables, LAMBDA t :
              When(~(HasName(ih, t.count) /\ Named(ih, t.count).type \in {"u32", "u64"}),
                   "count field", t.name)
              \cup When(t.record # None /\ ~HasName(f.layouts, t.record), "record layout", t.name))
       \cup When(~HasName(ih, f.heap_length), "heap.length_field", f.heap_length)

-----------------------------------------------------------------------------
(* validate() runs out of bounds or over: the values of an empty file_type *)
(* are sliced from 1, and the end of a field is added up unchecked.        *)
Panics(f) ==
  \/ KindsChecked(f) /\ Named(f.enums, "file_type").values = <<>>
  \/ \E l \in ToSet(f.layouts) : \E fl \in ToSet(l.fields) :
       fl.type \in DOMAIN TypeSize /\ fl.off + TypeSize[fl.type] > MaxU64

Problems(f, r, present) ==
  IF f.spec_schema # Schema THEN {<<"spec_schema", f.spec_schema>>}
  ELSE Inputs(f, present) \cup Acceptance(f) \cup ConstNames(f) \cup Enums(f) \cup Kinds(f)
       \cup Rules(f, r) \cup Each(f.flag_sets, LAMBDA fs : FlagSet(r, fs))
       \cup BlockTypes(f) \cup Layouts(f) \cup Tables(f)
=============================================================================
