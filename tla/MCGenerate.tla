----------------------------- MODULE MCGenerate -----------------------------
(* docs/spec cut down to two fields of each kind, and the edits an author  *)
(* may make of it.  Values have 3 and 4 bits in place of 16 and 32.        *)
EXTENDS Generate, TLC

Plain(off, name, type) ==
  [off |-> off, name |-> name, type |-> type, enum |-> None, flags |-> None,
   reserved |-> FALSE, namedReserved |-> FALSE]
Kind(off, name, type, enum) == [Plain(off, name, type) EXCEPT !.enum = enum]
FlagsOf(off, name, flags) == [Plain(off, name, "u32") EXCEPT !.flags = flags]
Zero(off, name, type) == [Plain(off, name, type) EXCEPT !.reserved = TRUE, !.namedReserved = TRUE]

Num(n) == {b \in 0..4 : (n \div 2^b) % 2 = 1}   (* the bits of a number *)
Val(name, value, undef) == [name |-> name, value |-> Num(value), registered_undefined |-> undef]
Enum(name, width, mask, values) == [name |-> name, width |-> width, mask |-> mask, values |-> values]
Lay(name, size, refs, fields) == [name |-> name, size |-> size, heap_refs |-> refs, fields |-> fields]
Magic(name, b) == [name |-> name, bytes |-> <<b, 0, 0, 0, 0, 0, 0, 0>>]

FileRule(id, phase, fixtures) ==
  [id |-> id, level |-> "MUST", phase |-> phase, scope |-> "file", fixtures |-> fixtures, because |-> None]

BaseFormat ==
  [spec_schema |-> 1, version |-> <<0, 1>>, status |-> "UNSTABLE",
   inputs |-> {"rules.yaml", "corpus.yaml"}, endianness |-> "little",
   rows |-> <<[version |-> <<0, 1>>, verdict |-> "accept"]>>, otherwise |-> "reject",
   constants |-> <<[name |-> "NAME_MAX"]>>,
   magics |-> <<Magic("HEADER_MAGIC", 1), Magic("TRAILER_MAGIC", 2)>>,
   enums |-> <<Enum("codec", "u16", NoMask, <<Val("invalid", 0, FALSE), Val("stored", 1, FALSE)>>),
               Enum("content_kind", "u16", NoMask,
                    <<Val("invalid", 0, FALSE), Val("none", 1, FALSE), Val("extents", 2, FALSE),
                      Val("partial", 3, TRUE)>>),
               Enum("file_type", "u32", Num(12),
                    <<Val("invalid", 0, FALSE), Val("dir", 4, FALSE), Val("reg", 8, FALSE)>>)>>,
   kinds |-> [dir |-> <<"none">>, reg |-> <<"extents">>],
   flag_sets |-> <<[name |-> "capabilities", width |-> "u32", unknown_odd_rule |-> <<<<"header">>, <<"flags">>>>,
                    bits |-> <<[bit |-> 0, name |-> "xattrs"], [bit |-> 1, name |-> "crtime"]>>]>>,
   block_types |-> <<[name |-> "DATA", status |-> "defined"], [name |-> "INDX", status |-> "defined"],
                     [name |-> "CRYP", status |-> "registered_undefined"]>>,
   layouts |->
     <<Lay("header", 16, <<>>, <<Plain(0, "magic", "bytes8"), Plain(8, "format_major", "u16"),
                                 Plain(10, "format_minor", "u16"), Plain(12, "header_flags", "u32")>>),
       Lay("trailer", 16, <<>>, <<Plain(0, "magic", "bytes8"), Plain(8, "archive_len", "u64")>>),
       Lay("block_header", 16, <<>>, <<Plain(0, "type_id", "bytes4"), Plain(4, "flags", "u32"),
                                       Plain(8, "payload_len", "u64")>>),
       Lay("data_header", 16, <<>>, <<Plain(0, "ino", "u64"), Plain(8, "raw_len", "u32"),
                                      Kind(12, "codec", "u16", "codec"), Zero(14, "reserved0", "u16")>>),
       Lay("index_header", 32, <<<<"label_off", "label_len">>>>,
           <<FlagsOf(0, "capabilities", "capabilities"), Plain(4, "inode_count", "u32"),
             Plain(8, "heap_len", "u64"), Plain(16, "label_off", "u64"), Plain(24, "label_len", "u32"),
             Plain(28, "tombstone_count", "u32")>>),
       Lay("inode_record", 16, <<>>, <<Plain(0, "ino", "u64"), Plain(8, "mode", "u32"),
                                       Kind(12, "content_kind", "u16", "content_kind"),
                                       Zero(14, "reserved0", "u16")>>)>>,
   index_tables |-> <<[name |-> "inode", record |-> "inode_record", count |-> "inode_count"],
                      [name |-> "tombstone", record |-> None, count |-> "tombstone_count"]>>,
   heap_length |-> "heap_len",
   phases |-> <<[name |-> "envelope"], [name |-> "chain"]>>]

BaseRules ==
  <<FileRule(<<<<"header">>, <<"magic">>>>, "envelope", <<"header-magic">>),
    FileRule(<<<<"header">>, <<"flags">>>>, "envelope", <<"flags-odd", "flags-high">>),
    [FileRule(<<<<"chain">>, <<"v", "1">>>>, "chain", <<"chain-1">>) EXCEPT !.scope = "chain"],
    [id |-> <<<<"writer">>, <<"order">>>>, level |-> "SHOULD", phase |-> None, scope |-> "writer",
     fixtures |-> <<>>, because |-> "unseen"]>>

MCBase == [f |-> BaseFormat, r |-> BaseRules, unread |-> {},
           present |-> {"format.yaml", "rules.yaml", "corpus.yaml"}]

-----------------------------------------------------------------------------
(* Edits: one value changed, or an element put in or taken out.            *)

Without(s, k) == SubSeq(s, 1, k - 1) \o SubSeq(s, k + 1, Len(s))

HeadEdits(f) ==
  {[f EXCEPT !.spec_schema = 2], [f EXCEPT !.version = <<1, 0>>], [f EXCEPT !.version = <<0, 2>>],
   [f EXCEPT !.status = "STABLE"], [f EXCEPT !.endianness = "big"], [f EXCEPT !.otherwise = "accept"],
   [f EXCEPT !.inputs = @ \cup {"notes.yaml"}], [f EXCEPT !.inputs = {}],
   [f EXCEPT !.constants = @ \o <<[name |-> "HEADER_MAGIC"]>>],
   [f EXCEPT !.constants[1].name = "name max"],
   [f EXCEPT !.magics[2].bytes = f.magics[1].bytes], [f EXCEPT !.magics[1].bytes = Tail(@)],
   [f EXCEPT !.heap_length = "heap"], [f EXCEPT !.phases = @ \o <<[name |-> "blocks"]>>],
   [f EXCEPT !.phases = @ \o <<[name |-> "chain"]>>], [f EXCEPT !.phases = Tail(@)]}
  \cup {[f EXCEPT !.rows = @ \o <<[version |-> v, verdict |-> t]>>] :
          v \in {<<0, 1>>, <<0, 2>>}, t \in {"accept", "reject"}}

EnumEdits(f) ==
  UNION {
    {[f EXCEPT !.enums[i].mask = m] : m \in {NoMask, Num(3), Num(12)}}
    \cup {[f EXCEPT !.enums[i].width = w] : w \in {"u16", "u32", "u64"}}
    \cup {[f EXCEPT !.enums[i].values = <<>>]}
    \cup {[f EXCEPT !.enums[i].values = Without(@, k)] : k \in {1, Len(f.enums[i].values)} \ {0}}
    \cup {[f EXCEPT !.enums[i].values = Append(@, Val(n, v, u))] :
            n \in {"lnk", "none"}, v \in {2, 9, 12}, u \in BOOLEAN}
    \cup {[f EXCEPT !.enums[i].values[k].value = Num(v)] : k \in DOMAIN f.enums[i].values, v \in {0, 6, 16}}
    : i \in DOMAIN f.enums}
  \cup {[f EXCEPT !.enums = Without(@, i)] : i \in DOMAIN f.enums}
  \cup {[f EXCEPT !.enums = Append(@, f.enums[1])]}
  \cup {[f EXCEPT !.kinds = [t \in DOMAIN f.kinds \cup {n} |-> <<k>>]] :
          n \in {"dir", "lnk"}, k \in {"none", "extent", "invalid"}}

LayoutEdits(f) ==
  UNION {
    {[f EXCEPT !.layouts[i].size = @ + n] : n \in {-8, 4, 8}}
    \cup {[f EXCEPT !.layouts[i].fields = Without(@, k)] : k \in DOMAIN f.layouts[i].fields}
    \cup {[f EXCEPT !.layouts[i].fields = Append(@, Plain(f.layouts[i].size + n, m, t))] :
            n \in {0, 4}, m \in {"chain_len", "ino"}, t \in {"u32", "u64"}}
    \cup {[f EXCEPT !.layouts[i].fields[k].off = o] :
            k \in DOMAIN f.layouts[i].fields, o \in {0, 12, MaxU64}}
    \cup {[f EXCEPT !.layouts[i].fields[k].type = t] :
            k \in DOMAIN f.layouts[i].fields, t \in {"u16", "u32", "u64", "u128"}}
    \cup {[f EXCEPT !.layouts[i].fields[k].reserved = ~@] : k \in DOMAIN f.layouts[i].fields}
    \cup {[f EXCEPT !.layouts[i].fields[k].enum = n] : k \in DOMAIN f.layouts[i].fields, n \in {None, "codec", "kind"}}
    : i \in {4, 5} \cap DOMAIN f.layouts}
  \cup {[f EXCEPT !.layouts = Without(@, i)] : i \in DOMAIN f.layouts}
  \cup {[f EXCEPT !.index_tables[i].count = c] : i \in 1..2, c \in {"label_off", "codec", "heap_len"}}
  \cup {[f EXCEPT !.index_tables[i].record = l] : i \in 1..2, l \in {"data_header", "chain_record", None}}
  \cup {[f EXCEPT !.index_tables[2].name = "inode"], [f EXCEPT !.flag_sets[1].width = "u16"],
        [f EXCEPT !.flag_sets[1].unknown_odd_rule = <<<<"chain">>, <<"v", "1">>>>],
        [f EXCEPT !.flag_sets = <<>>], [f EXCEPT !.block_types = Tail(@)],
        [f EXCEPT !.block_types[3].status = "defined"], [f EXCEPT !.block_types[3].name = "DATA"],
        [f EXCEPT !.block_types[3].status = "later"]}
  \cup {[f EXCEPT !.flag_sets = [i \in DOMAIN @ |-> [@[i] EXCEPT !.bits[2].bit = b]]] : b \in {0, 3, 4}}
  \cup {[f EXCEPT !.layouts = [i \in DOMAIN @ |->
           IF @[i].heap_refs = <<>> THEN @[i] ELSE [@[i] EXCEPT !.heap_refs[1] = h]]] :
          h \in {<<"label_len", "heap_len">>, <<"heap_len", "inode_count">>, <<"label_off", "x">>}}

RuleEdits(r) ==
  {[r EXCEPT ![k].phase = p] : k \in DOMAIN r, p \in {None, "envelope", "blocks"}}
  \cup {[r EXCEPT ![k].scope = s] : k \in DOMAIN r, s \in {"file", "chain", "writer", "reader"}}
  \cup {[r EXCEPT ![k].level = "SHOULD"] : k \in DOMAIN r}
  \cup {[r EXCEPT ![k].fixtures = x] : k \in DOMAIN r, x \in {<<>>, <<"header-magic">>}}
  \cup {[r EXCEPT ![k].because = x] : k \in DOMAIN r, x \in {None, "", "unseen"}}
  \cup {[r EXCEPT ![k].id = id] : k \in DOMAIN r,
          id \in {<<<<"chain">>, <<"v1">>>>, <<<<"header", "magic">>>>, <<<<"header">>, <<"", "magic">>>>,
                  <<<<"header">>, <<>>>>, <<<<"header">>, <<"magic">>>>}}
  \cup {Without(r, k) : k \in DOMAIN r}
  \cup {Append(r, FileRule(<<<<"block">>, <<"check">>>>, p, <<"block-check">>)) : p \in {"envelope", "blocks"}}

MCEdited(d) ==
  {[d EXCEPT !.f = f] : f \in HeadEdits(d.f) \cup EnumEdits(d.f) \cup LayoutEdits(d.f)}
  \cup {[d EXCEPT !.r = r] : r \in RuleEdits(d.r)}
  \cup {[d EXCEPT !.present = @ \cup {"notes.yaml"}], [d EXCEPT !.present = @ \ {"corpus.yaml"}]}
  \cup {[d EXCEPT !.unread = {x}] : x \in {"spec_schema", "format.yaml", "rules.yaml"}}

MCTypeSize == [u16 |-> 2, u32 |-> 4, u64 |-> 8, i64 |-> 8, bytes4 |-> 4, bytes8 |-> 8]
MCBits == [u16 |-> 3, u32 |-> 4]
=============================================================================
