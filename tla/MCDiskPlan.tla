----------------------------- MODULE MCDiskPlan -----------------------------
(* Devices for the raw methods: every small volume of a file of two        *)
(* extents and one of one, and volumes with everything the parsers have to *)
(* tell apart.                                                             *)
EXTENDS DiskPlan, TLC

CONSTANTS
  Lens,     (* lengths of an extent, in blocks                             *)
  Gaps      (* holes before an extent, in the file and on the disk         *)

Extent(l, p, n, u) == [lblk |-> l, pblk |-> p, len |-> n, uninit |-> u]

-----------------------------------------------------------------------------
(* Making an image.                                                        *)

OnDiskExt(e) == [lblk |-> e.lblk, pblk |-> e.pblk,
                 len |-> IF e.uninit THEN e.len + UninitBit ELSE e.len]
Leaf(ext) == [magic |-> TRUE, depth |-> 0, entries |-> [k \in DOMAIN ext |-> OnDiskExt(ext[k])]]
Index(d, blocks) == [magic |-> TRUE, depth |-> d, entries |-> [k \in DOMAIN blocks |-> [leaf |-> blocks[k]]]]
Inode(type, size, root) == [type |-> type, links |-> 1, inline |-> FALSE, mapped |-> TRUE,
                            size |-> size, root |-> root]
FileInode(f) == Inode("reg", f.size, Leaf(f.ext))
DirInode(blocks) == Inode("dir", 0, Leaf([k \in DOMAIN blocks |-> Extent(k - 1, blocks[k], 1, FALSE)]))
Free == [Inode("reg", 5, Leaf(<<>>)) EXCEPT !.links = 0]
Symlink == [Inode("other", 5, Leaf(<<>>)) EXCEPT !.mapped = FALSE]

Name(ino, rl) == [ino |-> ino, dot |-> FALSE, rl |-> rl]
DotName(ino) == [ino |-> ino, dot |-> TRUE, rl |-> 12]
Begins(ino, up) == 0 :> DotName(ino) @@ 12 :> DotName(up)
Hidden == 0 :> Name(0, 32)                     (* an htree node, or nothing *)
Removed == 0 :> Name(12, 12) @@ 12 :> Name(0, 8) @@ 20 :> Name(14, 12)
Bad == 0 :> Name(12, 12) @@ 12 :> Name(13, 24) (* reaches past its block *)

Super == [magic |-> TRUE, meta_bg |-> FALSE, extents |-> TRUE, csum |-> FALSE, rev |-> 1,
          first_ino |-> 2, internal |-> {}]
Group(unused, table) == [uninit |-> FALSE, unused |-> unused, table |-> table]

-----------------------------------------------------------------------------
(* Every small volume.                                                     *)

(* The ways three extents lie on the disk: who is before whom, and how far *)
(* apart.                                                                  *)
Placements == {o \in [1..3 -> 1..3] : \A i, j \in 1..3 : o[i] = o[j] => i = j}

Volume(n, hole, order, gap, uninit, tail) ==
  LET Pblk(i) == 1 +
        MapThenSumSet(LAMBDA j : gap + n[j], {j \in 1..3 : order[j] < order[i]})
      Piece(i, l) == Extent(l, Pblk(i), n[i], i = uninit)
      second == hole + n[1] + hole
      end1 == (second + n[2]) * Block
      end2 == (hole + n[3]) * Block
  IN <<[ino |-> 2, size |-> Max({0, end1 + tail[1]}), ext |-> <<Piece(1, hole), Piece(2, second)>>],
       [ino |-> 3, size |-> Max({0, end2 + tail[2]}), ext |-> <<Piece(3, hole)>>]>>

(* Files end inside a block, blocks before their last extent does, or in a *)
(* hole behind it.                                                         *)
Tails == {-5, -3, -1, 0, 3}

Plain(vol) ==
  [holds |-> [files |-> vol, names |-> 1], refusing |-> {},
   image |-> [sb |-> Super, nodes |-> <<>>, names |-> 99 :> (Begins(1, 1) @@ 24 :> Name(2, 8)),
              groups |-> <<Group(0, <<DirInode(<<99>>), FileInode(vol[1]), FileInode(vol[2])>>)>>]]

AllVolumes ==
  {Plain(Volume(n, hole, order, gap, uninit, tail)) :
     n \in [1..3 -> Lens], hole \in Gaps, order \in Placements, gap \in Gaps,
     uninit \in 0..3, tail \in Tails \X Tails}

-----------------------------------------------------------------------------
(* Volumes to parse: three groups of six inodes.  The root has files 11    *)
(* (empty), 12, 14 and directory 13; 7 is the orphan file; 8 is free; 5    *)
(* and what is behind 14 were never used.                                  *)

Long == [ino |-> 12, size |-> 13,
         ext |-> <<Extent(0, 30, 2, FALSE), Extent(2, 32, 4, TRUE), Extent(6, 40, 4, FALSE)>>]
Short == [ino |-> 14, size |-> 2, ext |-> <<Extent(0, 50, 1, FALSE)>>]
Empty0 == [ino |-> 11, size |-> 0, ext |-> <<>>]

(* The tree of file 12: in the inode, below one index, below two. *)
Roots == {Leaf(Long.ext), Index(1, <<61, 62>>), Index(2, <<63, 64>>)}
Nodes == 61 :> Leaf(<<Long.ext[1]>>) @@ 62 :> Leaf(<<Long.ext[2], Long.ext[3]>>)
         @@ 63 :> Index(1, <<61>>) @@ 64 :> Index(1, <<62>>)
         @@ 65 :> Index(1, <<65>>) @@ 66 :> [Leaf(<<>>) EXCEPT !.magic = FALSE]
         @@ 67 :> Leaf([k \in 1..(NodeCap + 1) |-> Extent(k, 70 + k, 1, FALSE)])

DirTree == Leaf(<<Extent(0, 81, 1, FALSE), Extent(1, 82, 2, TRUE), Extent(3, 84, 2, FALSE)>>)
NameBlocks == 81 :> (Begins(2, 2) @@ 24 :> Name(11, 8)) @@ 82 :> Bad @@ 83 :> Bad
              @@ 84 :> Hidden @@ 85 :> Removed
              @@ 91 :> (Begins(13, 2) @@ 24 :> Name(0, 8)) @@ 92 :> Bad

Tables(root) ==
  <<<<Free, Inode("dir", 0, DirTree), FileInode(Short), Symlink, FileInode(Short), Free>>,
    <<FileInode(Short), Free, Symlink, Free, FileInode(Empty0), Inode("reg", 13, root)>>,
    <<DirInode(<<91>>), FileInode(Short), Free, Free, Free, Free>>>>

Sb(csum, rev) == [Super EXCEPT !.csum = csum, !.rev = rev, !.first_ino = 7, !.internal = {3, 7}]

(* With checksums the descriptors tell what is unused, and those inodes    *)
(* hold anything; without, free inodes are zero and unused means nothing.  *)
Rich(csum, rev, root) ==
  LET t == Tables(root)
      junk == [t[3] EXCEPT ![4] = FileInode(Short), ![6] = DirInode(<<92>>)]
      last == IF csum THEN Group(4, junk) ELSE Group(5, t[3])
      none == [uninit |-> csum, unused |-> 0, table |-> IF csum THEN junk ELSE [k \in 1..6 |-> Free]]
  IN [holds |-> [files |-> <<Empty0, Long, Short>>, names |-> 3], refusing |-> {},
      image |-> [sb |-> Sb(csum, rev), nodes |-> Nodes, names |-> NameBlocks,
                 groups |-> <<Group(0, t[1]), Group(0, t[2]), last, none>>]]

Refused(d, methods) == [d EXCEPT !.refusing = methods]
AnyRich == Rich(TRUE, 1, Leaf(Long.ext))

RichVolumes == {Rich(csum, rev, root) : csum \in BOOLEAN, rev \in {0, 1}, root \in Roots}

Unsound ==
  {Refused([AnyRich EXCEPT !.image.sb.magic = FALSE], Method),
   Refused([AnyRich EXCEPT !.image.sb.meta_bg = TRUE], {"raw", "rawsort"}),
   Refused([AnyRich EXCEPT !.image.groups[1].table[2].mapped = FALSE], {"raw", "rawsort"}),
   Refused([AnyRich EXCEPT !.image.groups[2].table[6].mapped = FALSE], Method),
   Refused([AnyRich EXCEPT !.image.groups[2].table[6].inline = TRUE], Method),
   Refused([AnyRich EXCEPT !.image.groups[3].table[1] = DirInode(<<91, 92>>)], Method)}
  \cup {Refused(Rich(TRUE, 1, Index(1, <<b>>)), Method) : b \in {65, 66, 67}}

MCImages == AllVolumes \cup RichVolumes \cup Unsound
=============================================================================
