------------------------------ MODULE ExtParse ------------------------------
(***************************************************************************)
(* How the methods that read a device find its files and names: raw_parse  *)
(* and walk_extents (ext4.rs:124-312) and the scan of libext2fs            *)
(* (e2fs.rs:12-152).                                                       *)
(*                                                                         *)
(* An image is                                                             *)
(*   sb       the superblock: [magic, meta_bg, extents, csum, rev,         *)
(*            first_ino, internal]                                         *)
(*   groups   a sequence of [uninit, unused, table], table a sequence of   *)
(*            inodes [type, links, inline, mapped, size, root]             *)
(*   nodes    the blocks that are extent nodes: [magic, depth, entries],   *)
(*            an entry being [lblk, pblk, len], or [leaf] of the block of  *)
(*            a child; root is a node too                                  *)
(*   names    the blocks that are a directory's: at each offset where an   *)
(*            entry starts, [ino, dot, rl]                                 *)
(***************************************************************************)
EXTENDS Integers, SequencesExt, FiniteSetsExt

CONSTANTS
  UninitBit,  (* extents longer than this are uninitialised: 32768         *)
  RootCap,    (* entries the inode has room for: 4                         *)
  NodeCap,    (* entries a block has room for                              *)
  MaxLevel,   (* 5                                                         *)
  ItBuf,      (* inodes one read of a table gives: 1 MiB of them           *)
  DirBlock    (* bytes of a directory's block                              *)

Died == <<[died |-> TRUE]>>   (* in the place of a sequence of records *)
Ext(e) == [lblk |-> e.lblk, pblk |-> e.pblk, uninit |-> e.len > UninitBit,
           len |-> IF e.len > UninitBit THEN e.len - UninitBit ELSE e.len]

(* walk_extents: the extents of a tree in order, or Died. *)
ExtentTree(img, root) ==
  LET Fits(n, level) == Len(n.entries) <= IF level = 0 THEN RootCap ELSE NodeCap
      blocks == DOMAIN img.nodes
      Node(b) == IF b = -1 THEN root ELSE img.nodes[b]
      walk[level \in 0..(MaxLevel + 1), b \in blocks \cup {-1}] ==
        LET n == Node(b) IN
        IF ~n.magic \/ ~Fits(n, level) \/ level > MaxLevel THEN Died
        ELSE IF n.depth = 0 THEN [k \in DOMAIN n.entries |-> Ext(n.entries[k])]
        ELSE LET below == [k \in DOMAIN n.entries |-> walk[level + 1, n.entries[k].leaf]]
             IN IF \E k \in DOMAIN below : below[k] = Died THEN Died ELSE FlattenSeq(below)
  IN walk[0, -1]

(* Mutation of Used: itable_unused is believed whatever the features. *)
UsedAlways(img, g) ==
  IF img.groups[g].uninit THEN 0 ELSE Len(img.groups[g].table) - img.groups[g].unused

(* The inodes of group g that were ever used; only with checksums does the *)
(* group descriptor tell.                                                  *)
Used(img, g) ==
  LET d == img.groups[g] IN
    IF ~img.sb.csum THEN Len(d.table)
    ELSE IF d.uninit THEN 0
    ELSE Len(d.table) - d.unused

(* Pass 1 over one group, ItBuf inodes at a time. *)
Swept(img, g) ==
  LET ipg == Len(img.groups[1].table)
      used == Used(img, g)
      Chunk(c) == [j \in 1..Min({ItBuf, used - c * ItBuf}) |->
                     [ino |-> (g - 1) * ipg + c * ItBuf + j,
                      node |-> img.groups[g].table[c * ItBuf + j]]]
  IN FlattenSeq([k \in 1..((used + ItBuf - 1) \div ItBuf) |-> Chunk(k - 1)])

FirstIno(img) == IF img.sb.rev = 0 THEN 11 ELSE img.sb.first_ino

(* Mutation of Wanted: the file system's own files are taken as well. *)
WantedInternal(img, x) ==
  x.node.links # 0 /\ (x.node.type = "dir" \/ (x.node.type = "reg" /\ x.ino >= FirstIno(img)))

(* Directories whatever their number; files that are not the file          *)
(* system's own.                                                           *)
Wanted(img, x) ==
  /\ x.node.links # 0
  /\ \/ x.node.type = "dir"
     \/ x.node.type = "reg" /\ x.ino >= FirstIno(img) /\ x.ino \notin img.sb.internal

Live(img) ==
  SelectSeq(FlattenSeq([g \in DOMAIN img.groups |-> Swept(img, g)]), LAMBDA x : Wanted(img, x))
Unsupported(x) == x.node.inline \/ ~x.node.mapped
OfType(live, type) == SelectSeq(live, LAMBDA x : x.node.type = type)
Fent(img, x) == [ino |-> x.ino, size |-> x.node.size, ext |-> ExtentTree(img, x.node.root)]

-----------------------------------------------------------------------------
(* Pass 2: the entries of a directory's block, or Died.                    *)
Entries(blk) ==
  LET from[o \in 0..DirBlock] ==
        IF o + 8 > DirBlock THEN <<>>
        ELSE LET e == blk[o] IN
             IF e.rl < 8 \/ o + e.rl > DirBlock THEN Died
             ELSE LET rest == from[o + e.rl]
                  IN IF rest = Died THEN Died ELSE <<e>> \o rest
  IN from[0]

(* Mutation of DirBlocks: every extent is read, written or not. *)
DirBlocksAll(f) ==
  FlattenSeq([k \in DOMAIN f.ext |-> [j \in 1..f.ext[k].len |-> f.ext[k].pblk + j - 1]])

(* The blocks of directory f, in its initialised extents. *)
DirBlocks(f) ==
  LET ext == SelectSeq(f.ext, LAMBDA e : ~e.uninit)
  IN FlattenSeq([k \in DOMAIN ext |-> [j \in 1..ext[k].len |-> ext[k].pblk + j - 1]])

DirEntries(img, f) ==
  LET blocks == [k \in DOMAIN DirBlocks(f) |-> Entries(img.names[DirBlocks(f)[k]])]
  IN IF \E k \in DOMAIN blocks : blocks[k] = Died THEN Died ELSE FlattenSeq(blocks)

(* raw counts what has an inode and is not "." or "..". *)
RawNames(entries) == Len(SelectSeq(entries, LAMBDA e : e.ino # 0 /\ ~e.dot))

(* libext2fs calls dir_cb for entries that have an inode, and takes the    *)
(* first two of a directory for "." and "..".                              *)
E2fsNames(entries) ==
  Len(SelectSeq(SubSeq(entries, 3, Len(entries)), LAMBDA e : e.ino # 0))

SumOf(s) ==
  LET first[k \in 0..Len(s)] == IF k = 0 THEN 0 ELSE first[k - 1] + s[k]
  IN first[Len(s)]

(* What a method makes of an image: its files, or Died, and names. *)
Parsed(img, method) ==
  LET live == Live(img)
      files == [k \in DOMAIN OfType(live, "reg") |-> Fent(img, OfType(live, "reg")[k])]
      dirs == [k \in DOMAIN OfType(live, "dir") |-> Fent(img, OfType(live, "dir")[k])]
      checked == IF method = "e2fs" THEN OfType(live, "reg") ELSE live
      entries == [k \in DOMAIN dirs |-> DirEntries(img, dirs[k])]
      Names(s) == IF method = "e2fs" THEN E2fsNames(s) ELSE RawNames(s)
  IN IF \/ ~img.sb.magic
        \/ method # "e2fs" /\ (img.sb.meta_bg \/ ~img.sb.extents)
        \/ \E x \in ToSet(checked) : Unsupported(x)
        \/ \E f \in ToSet(files) \cup ToSet(dirs) : f.ext = Died
        \/ \E k \in DOMAIN entries : entries[k] = Died
     THEN [files |-> Died, names |-> 0]
     ELSE [files |-> files, names |-> SumOf([k \in DOMAIN dirs |-> Names(entries[k])])]
=============================================================================
