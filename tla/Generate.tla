------------------------------ MODULE Generate ------------------------------
(***************************************************************************)
(* cargo xtask codegen up to the point where it writes (xtask/src/main.rs  *)
(* 57-95; Codegen has the writing): probe the schema, read both files,     *)
(* validate them, and make the Rust constants (gen_rust.rs) and the pages  *)
(* (gen_docs.rs).  The author edits the spec before a run.                 *)
(*                                                                         *)
(* Of the text that is made, what a reader of the archive format or of the *)
(* pages goes by is kept: the tables, and which name refers to which.  A   *)
(* Rust item is <<module, name>>.                                          *)
(***************************************************************************)
EXTENDS SpecValidate

CONSTANTS
  Base,       (* the spec as committed: [f, r, present, unread]; unread    *)
              (* holds what serde cannot take: a file, or "spec_schema"    *)
  Edited(_),  (* what one edit of a spec may make of it                    *)
  MaxEdits

VARIABLES
  doc,        (* docs/spec                                                 *)
  edits,      (* edits made                                                *)
  stage       (* "edit", "probe", "read", "validate"; "generated",         *)
              (* "refused", "panicked"                                     *)

vars == <<doc, edits, stage>>

Init ==
  /\ doc = Base
  /\ edits = 0
  /\ stage = "edit"

Edit ==
  /\ stage = "edit" /\ edits < MaxEdits
  /\ doc' \in Edited(doc)
  /\ edits' = edits + 1
  /\ UNCHANGED stage

Run ==
  /\ stage = "edit"
  /\ stage' = "probe"
  /\ UNCHANGED <<doc, edits>>

(* read_yaml of a file; any read may fail. *)
Reads(file) == file \in doc.present /\ file \notin doc.unread

(* The schema alone, whatever else is in the file. *)
Probe ==
  /\ stage = "probe"
  /\ \/ stage' = "refused"
     \/ /\ "format.yaml" \in doc.present /\ "spec_schema" \notin doc.unread
        /\ doc.f.spec_schema = Schema
        /\ stage' = "read"
  /\ UNCHANGED <<doc, edits>>

Read ==
  /\ stage = "read"
  /\ \/ stage' = "refused"
     \/ /\ Reads("format.yaml") /\ Reads("rules.yaml")
        /\ ShapedFormat(doc.f) /\ ShapedRules(doc.r)
        /\ stage' = "validate"
  /\ UNCHANGED <<doc, edits>>

Validate ==
  /\ stage = "validate"
  /\ stage' = IF Panics(doc.f) THEN "panicked"
              ELSE IF Problems(doc.f, doc.r, doc.present) # {} THEN "refused"
              ELSE "generated"
  /\ UNCHANGED <<doc, edits>>

Exited == stage \in {"generated", "refused", "panicked"} /\ UNCHANGED vars

Next == Edit \/ Run \/ Probe \/ Read \/ Validate \/ Exited

Spec == Init /\ [][Next]_vars

-----------------------------------------------------------------------------
(* layout.rs                                                               *)

Size(type) == IF type \in DOMAIN TypeSize THEN TypeSize[type] ELSE 0

ValuesThat(en, Test(_)) == {v.value : v \in {v \in ToSet(en.values) : Test(v)}}

(* DEFINED and REGISTERED_UNDEFINED of an enum, and what MASK is for.      *)
DefinedValues(en) == ValuesThat(en, LAMBDA v : v.value # {} /\ ~v.registered_undefined)
Registered(en) == ValuesThat(en, LAMBDA v : v.registered_undefined)
Masked(en, x) == IF en.mask = NoMask THEN x ELSE x \cap en.mask

(* KNOWN and UNKNOWN_ODD, as sets of bits. *)
Known(fs) == {fs.bits[i].bit : i \in DOMAIN fs.bits}
UnknownOdd(fs) == {b \in 0..(Bits["u32"] - 1) : b % 2 = 1} \ Known(fs)

BlockIds(f, status) == {b.name : b \in {b \in ToSet(f.block_types) : b.status = status}}

(* FIELDS, RESERVED and HEAP_REFS of a layout. *)
FieldRows(l) == [k \in DOMAIN l.fields |-> [off |-> l.fields[k].off, len |-> Size(l.fields[k].type)]]
ReservedRows(l) == {FieldRows(l)[k] : k \in {k \in DOMAIN l.fields : l.fields[k].reserved}}
HeapUses(l) == UNION {{<<l.name, l.heap_refs[i][1]>>, <<l.name, l.heap_refs[i][2]>>} : i \in DOMAIN l.heap_refs}

(* CONTENT_KIND_BY_TYPE *)
KindUses(f) ==
  {<<"file_type", t>> : t \in DOMAIN f.kinds}
  \cup {<<"content_kind", k>> : k \in UNION {ToSet(f.kinds[t]) : t \in DOMAIN f.kinds}}

(* INDEX_TABLES: where the count is, 0 bytes of it if it is not there. *)
IndexTables(f) ==
  [i \in DOMAIN f.index_tables |->
    LET t == f.index_tables[i]
        ih == Named(f.layouts, "index_header").fields IN
    [record |-> t.record,
     count |-> IF HasName(ih, t.count)
               THEN [off |-> Named(ih, t.count).off, len |-> Size(Named(ih, t.count).type)]
               ELSE [off |-> 0, len |-> 0]]]

TableUses(f) ==
  {<<t.record, "LEN">> : t \in {t \in ToSet(IndexTables(f)) : t.record # None}}

(* Every item of layout.rs that another may name. *)
Items(f) ==
  (UNION {{<<en.name, n>> : n \in ToSet(NamesOf(en.values))} : en \in ToSet(f.enums)})
  \cup UNION {{<<l.name, n>> : n \in {"LEN"} \cup ToSet(NamesOf(l.fields))} : l \in ToSet(f.layouts)}

-----------------------------------------------------------------------------
(* rules.rs                                                                *)

VariantIds(r) == [i \in DOMAIN r |-> [variant |-> RuleVariant(r[i].id), id |-> r[i].id]]

(* Rule::from_id: the first of ALL with this id. *)
FromId(r, id) == VariantIds(r)[Min({i \in DOMAIN r : r[i].id = id})].variant

-----------------------------------------------------------------------------
(* format.md and rules.md                                                  *)

(* What a row of a layout refers to: the section of an enum or a flag set, *)
(* and what a flag set refers to: a rule.                                  *)
Links(f) ==
  LET fields == UNION {ToSet(l.fields) : l \in ToSet(f.layouts)} IN
  {<<"enum", fl.enum>> : fl \in {fl \in fields : fl.enum # None}}
  \cup {<<"flags", fl.flags>> : fl \in {fl \in fields : fl.flags # None}}
  \cup {<<"rule", fs.unknown_odd_rule>> : fs \in ToSet(f.flag_sets)}
  \cup {<<"length", f.heap_length>>}

Anchors(f, r) ==
  {<<"enum", n>> : n \in ToSet(NamesOf(f.enums))}
  \cup {<<"flags", n>> : n \in ToSet(NamesOf(f.flag_sets))}
  \cup {<<"rule", r[i].id>> : i \in DOMAIN r}
  \cup {<<"length", n>> : n \in ToSet(NamesOf(Named(f.layouts, "index_header").fields))}

(* The tables of rules.md: one of each phase, and the obligations. *)
PhaseTable(f, r, p) == {k \in DOMAIN r : r[k].phase = f.phases[p].name}
Obligations(r) == {k \in DOMAIN r : r[k].phase = None}
Listed(f, r, k) == {p \in DOMAIN f.phases : k \in PhaseTable(f, r, p)} \cup {0 : x \in Obligations(r) \cap {k}}

-----------------------------------------------------------------------------
(* What the artifacts promise those who go by them.                        *)

Generated == stage = "generated"

(* Every byte of a record belongs to exactly one field of FIELDS, and what *)
(* must be zero is whole fields: a reader that decodes or checks field by  *)
(* field leaves no byte out and takes none twice.                          *)
TilesExactly ==
  Generated => \A l \in ToSet(doc.f.layouts) :
    LET rows == FieldRows(l)
        Of(b) == {k \in DOMAIN rows : b >= rows[k].off /\ b < rows[k].off + rows[k].len}
    IN /\ \A b \in 0..(l.size - 1) : Cardinality(Of(b)) = 1
       /\ \A k \in DOMAIN rows : rows[k].off + rows[k].len <= l.size
       /\ \A row \in ReservedRows(l) : \A b \in row.off..(row.off + row.len - 1) :
            \A k \in Of(b) : l.fields[k].reserved

(* What the Rust tables and the pages name is generated too, so that no    *)
(* table names a kind or type that does not exist, and no link of the      *)
(* pages leads nowhere.                                                    *)
(* A table's count is read from a field of the index header.               *)
ReferencesResolve ==
  Generated =>
    /\ KindUses(doc.f) \cup TableUses(doc.f) \cup UNION {HeapUses(l) : l \in ToSet(doc.f.layouts)}
         \subseteq Items(doc.f)
    /\ Links(doc.f) \subseteq Anchors(doc.f, doc.r)
    /\ \A t \in ToSet(IndexTables(doc.f)) :
         t.count \in ToSet(FieldRows(Named(doc.f.layouts, "index_header"))) /\ t.count.len >= 4

(* A reader that masks a field and looks the result up in DEFINED accepts  *)
(* exactly the values that are defined, can tell every two of an enum      *)
(* apart, and rejects zero and what is only registered; a known flag is    *)
(* one bit of its own, never among those that reject.                      *)
ReaderTellsApart ==
  Generated =>
    /\ \A en \in ToSet(doc.f.enums) :
         LET Accepted(x) == Masked(en, x) \in DefinedValues(en) IN
         /\ DOMAIN en.values # {} /\ ~Accepted({})
         /\ \A i \in DOMAIN en.values :
              LET v == en.values[i] IN
              /\ v.value \subseteq 0..(Bits[en.width] - 1)
              /\ Accepted(v.value) = (i # 1 /\ ~v.registered_undefined)
              /\ \A j \in DOMAIN en.values :
                   Masked(en, en.values[j].value) = Masked(en, v.value) => i = j
         /\ DefinedValues(en) \cap Registered(en) = {}
    /\ \A fs \in ToSet(doc.f.flag_sets) :
         /\ Cardinality(Known(fs)) = Len(fs.bits)
         /\ Known(fs) \subseteq 0..(Bits["u32"] - 1) /\ Known(fs) \cap UnknownOdd(fs) = {}
    /\ BlockIds(doc.f, "defined") \cap BlockIds(doc.f, "registered_undefined") = {}

(* rules.md has every rule in one table: what a reader checks in that of   *)
(* its phase, with a fixture, and everything else among the obligations.   *)
RulesListedOnce ==
  Generated => \A k \in DOMAIN doc.r :
    /\ Cardinality(Listed(doc.f, doc.r, k)) = 1
    /\ (0 \in Listed(doc.f, doc.r, k)) = (doc.r[k].scope \in {"writer", "behaviour"})
    /\ 0 \notin Listed(doc.f, doc.r, k) => doc.r[k].fixtures # <<>>

(* "A decoder rejection names exactly one Rule" (gen_rust.rs:316): no two  *)
(* rules share a variant, an id or a fixture.                              *)
RejectionNamesOneRule ==
  Generated => \A i, j \in DOMAIN doc.r :
    /\ FromId(doc.r, doc.r[i].id) = VariantIds(doc.r)[i].variant
    /\ VariantIds(doc.r)[i].variant = VariantIds(doc.r)[j].variant => i = j
    /\ ToSet(doc.r[i].fixtures) \cap ToSet(doc.r[j].fixtures) # {} => i = j

(* Stage 2 "collects every problem before failing" (spec.rs:5) and returns *)
(* them (spec.rs:252): whatever serde accepts, validate() comes back.      *)
CollectsEveryProblem == stage # "panicked"
=============================================================================
