------------------------------ MODULE DiskPlan ------------------------------
(***************************************************************************)
(* What the methods that read a device make of it, what they read of its   *)
(* files, and where the bytes go: raw_parse or libext2fs (ExtParse), then  *)
(* xfer_file (methods raw and e2fs, file by file) or run_rawsort (every    *)
(* extent of every file in disk order), ext4.rs:57-120 and 314-402,        *)
(* accbench.c:751-818 and 1047-1140.                                       *)
(*                                                                         *)
(* A unit of the disk, and of a file, is half a block: enough to tell a    *)
(* block the file fills from one it ends in.                               *)
(***************************************************************************)
EXTENDS ExtParse, RadixSort

CONSTANTS
  Block,    (* bytes of a block: 1024 at least, so whole chunks            *)
  MaxBlk,   (* BUFSZ / block size: the longest read, in blocks             *)
  Images    (* the devices to read: [image, holds, refusing], holds being  *)
            (* what the image was made from, [files, names], and refusing  *)
            (* the methods that do not support it                          *)

(* What a file system promises of its files: their extents lie in order    *)
(* and apart in the file, and no block of the disk is in two of them.      *)
Extent0 == [lblk : Nat, pblk : Nat, len : Nat, uninit : BOOLEAN]
ApartOnDisk(d, e) == d.pblk + d.len <= e.pblk \/ e.pblk + e.len <= d.pblk
IsVolume(fs) ==
  /\ fs \in Seq([ino : Nat, size : Nat, ext : Seq(Extent0)])
  /\ \A f \in DOMAIN fs : \A i, j \in DOMAIN fs[f].ext :
       i < j => fs[f].ext[i].lblk + fs[f].ext[i].len <= fs[f].ext[j].lblk
  /\ \A f, g \in DOMAIN fs : \A i \in DOMAIN fs[f].ext, j \in DOMAIN fs[g].ext :
       f # g \/ i # j => ApartOnDisk(fs[f].ext[i], fs[g].ext[j])

Method == {"raw", "rawsort", "e2fs"}

ASSUME DiskPlanAssumption ==
  /\ Block \in Nat \ {0}
  /\ MaxBlk \in Nat \ {0}
  /\ \A d \in Images, m \in Method :
       Parsed(d.image, m).files # Died => IsVolume(Parsed(d.image, m).files)

BufSz == Block * MaxBlk

VARIABLES
  method,   (* "raw", "rawsort" or "e2fs"                                  *)
  dev,      (* the device                                                  *)
  files,    (* Parsed::files, each [ino, size, ext], an extent being       *)
            (* [lblk, pblk, len, uninit]                                   *)
  names,    (* Ctx::names                                                  *)
  need,     (* what hf_open was told each file will deliver; -1: not open  *)
  plan,     (* the reads still to be done, each a sequence of pieces       *)
  reads,    (* the preads done: [disk, len]                                *)
  sent,     (* the pieces delivered                                        *)
  next,     (* the next file to transfer                                   *)
  stage     (* "parse", "plan", "read" or "died"                           *)

vars == <<method, dev, files, names, need, plan, reads, sent, next, stage>>

File == DOMAIN files

Init ==
  /\ method \in Method
  /\ dev \in Images
  /\ files = <<>> /\ names = 0
  /\ need = <<>>
  /\ plan = <<>>
  /\ reads = <<>>
  /\ sent = <<>>
  /\ next = 1
  /\ stage = "parse"

(* raw_parse, or the scan of libext2fs. *)
Parse ==
  /\ stage = "parse"
  /\ LET p == Parsed(dev.image, method) IN
       IF p.files = Died THEN stage' = "died" /\ UNCHANGED <<files, names, need>>
       ELSE /\ files' = p.files
            /\ names' = p.names
            /\ need' = [f \in DOMAIN p.files |-> -1]
            /\ stage' = IF method = "rawsort" THEN "plan" ELSE "read"
  /\ UNCHANGED <<method, dev, plan, reads, sent, next>>

Clip(end, size) == Min({end, size})

(* The bytes of extent e inside EOF, if it was written. *)
Inside(e, size) ==
  IF e.uninit \/ e.lblk * Block >= size THEN 0
  ELSE Clip((e.lblk + e.len) * Block, size) - e.lblk * Block

(* Mutation of DataBytes: the end of the file is not looked at. *)
DataBytesPastEOF(f) ==
  SumOf([k \in DOMAIN f.ext |-> IF Inside(f.ext[k], f.size) = 0 THEN 0 ELSE f.ext[k].len * Block])

(* data_bytes: the bytes in initialised extents inside EOF. *)
DataBytes(f) == SumOf([k \in DOMAIN f.ext |-> Inside(f.ext[k], f.size)])

-----------------------------------------------------------------------------
(* raw, e2fs: xfer_file.  A piece is [f, off, disk, n, len]: n bytes of file f   *)
(* from off on, at byte disk; len is what the read takes for it.           *)

(* Mutation of RunEnd: contiguous in the file is enough. *)
RunEndLogical(ext, i) ==
  LET joins(j) == ~ext[j].uninit
                  /\ ext[j].lblk = ext[j - 1].lblk + ext[j - 1].len
  IN CHOOSE j \in i..Len(ext) :
       /\ \A k \in (i + 1)..j : joins(k)
       /\ j < Len(ext) => ~joins(j + 1)

(* The last extent of the run that extent i begins: each is contiguous     *)
(* with the one before, in the file and on disk.                           *)
RunEnd(ext, i) ==
  LET joins(j) == /\ ~ext[j].uninit
                  /\ ext[j].lblk = ext[j - 1].lblk + ext[j - 1].len
                  /\ ext[j].pblk = ext[j - 1].pblk + ext[j - 1].len
  IN CHOOSE j \in i..Len(ext) :
       /\ \A k \in (i + 1)..j : joins(k)
       /\ j < Len(ext) => ~joins(j + 1)

(* The preads of a run that covers [start, end) of the file.               *)
Chunks(f, start, end, disk) ==
  [k \in 1..CeilDiv(end - start, BufSz) |->
        LET at == (k - 1) * BufSz
            len == Min({end - start - at, BufSz})
        IN [f |-> f, off |-> start + at, disk |-> disk + at, n |-> len, len |-> len]]

(* The reads of file f, in logical order. *)
XferPlan(f) ==
  LET ext == files[f].ext
      size == files[f].size
      from[i \in 1..(Len(ext) + 1)] ==
        IF i > Len(ext) \/ ext[i].lblk * Block >= size THEN <<>>
        ELSE IF ext[i].uninit THEN from[i + 1]
        ELSE LET j == RunEnd(ext, i)
             IN Chunks(f, ext[i].lblk * Block,
                       Clip((ext[j].lblk + ext[j].len) * Block, size),
                       ext[i].pblk * Block) \o from[j + 1]
  IN from[1]

(* xfer_all: open the next file and go through its extents. *)
XferFile ==
  /\ stage = "read" /\ method # "rawsort"
  /\ plan = <<>>
  /\ next \in File
  /\ need' = [need EXCEPT ![next] = DataBytes(files[next])]
  /\ plan' = [k \in DOMAIN XferPlan(next) |-> <<XferPlan(next)[k]>>]
  /\ next' = next + 1
  /\ UNCHANGED <<method, dev, files, names, reads, sent, stage>>

-----------------------------------------------------------------------------
(* rawsort: run_rawsort.                                                   *)

(* The pieces extent e of file f is cut into: at most MaxBlk blocks each,  *)
(* none that starts past EOF.                                              *)
Pieces(f, e) ==
  [k \in 1..CeilDiv(Inside(e, files[f].size), BufSz) |->
     LET o == (k - 1) * MaxBlk
         len == Min({e.len - o, MaxBlk}) * Block
         off == (e.lblk + o) * Block
     IN [f |-> f, off |-> off, disk |-> (e.pblk + o) * Block,
         n |-> Min({len, files[f].size - off}), len |-> len]]

(* All the pieces, as they are planned. *)
AllPieces ==
  FlattenSeq([f \in File |->
    FlattenSeq([k \in DOMAIN files[f].ext |-> Pieces(f, files[f].ext[k])])])

(* Mutation of SortedPieces: the pieces stay in the order of the files. *)
PiecesByFile == AllPieces

(* By the block where they begin. *)
SortedPieces == RadixSorted(AllPieces, [p \in ToSet(AllPieces) |-> p.disk \div Block])

ReadLen(ps) == SumOf([k \in DOMAIN ps |-> ps[k].len])

(* Mutation of Joins: the read may grow past the buffer. *)
JoinsUnbounded(ps, p) == p.disk = ps[1].disk + ReadLen(ps)

(* Piece p can be read with ps: it follows them on disk, and there is room. *)
Joins(ps, p) ==
  /\ p.disk = ps[1].disk + ReadLen(ps)
  /\ ReadLen(ps) + p.len <= BufSz

(* Sorted pieces that follow each other on disk are one read; runs[k] is   *)
(* what the first k pieces make.                                           *)
Joined(ps) ==
  LET runs[k \in 0..Len(ps)] ==
        IF k = 0 THEN <<>>
        ELSE LET r == runs[k - 1] IN
             IF r # <<>> /\ Joins(Last(r), ps[k])
             THEN Append(Front(r), Append(Last(r), ps[k]))
             ELSE Append(r, <<ps[k]>>)
  IN runs[Len(ps)]

(* Plan and sort everything, and open every file, before the first read. *)
SortPlan ==
  /\ stage = "plan"
  /\ need' = [f \in File |-> DataBytes(files[f])]
  /\ plan' = Joined(SortedPieces)
  /\ stage' = "read"
  /\ UNCHANGED <<method, dev, files, names, reads, sent, next>>

-----------------------------------------------------------------------------
(* One pread, and a deliver() of each piece in it. *)
ReadRun ==
  /\ plan # <<>>
  /\ LET ps == Head(plan) IN
       /\ reads' = Append(reads, [disk |-> ps[1].disk, len |-> ReadLen(ps)])
       /\ sent' = sent \o ps
  /\ plan' = Tail(plan)
  /\ UNCHANGED <<method, dev, files, names, need, next, stage>>

AllRead ==
  stage = "read" /\ plan = <<>> /\ (method = "rawsort" \/ next = Len(files) + 1)

Exited == (AllRead \/ stage = "died") /\ UNCHANGED vars

Next == Parse \/ XferFile \/ SortPlan \/ ReadRun \/ Exited

Spec == Init /\ [][Next]_vars
-----------------------------------------------------------------------------
(* Every method finds the names of the volume and its files, with their    *)
(* sizes and extents, in inode order -- through tables with unused and     *)
(* free inodes, uninitialised groups, internal files, extent trees of any  *)
(* depth and directories with removed and hidden entries -- or refuses the *)
(* device before it reads any data (ext4.rs:161-312, e2fs.rs:40-152).      *)
FindsWhatIsThere ==
  /\ stage = "died" <=> (stage # "parse" /\ method \in dev.refusing)
  /\ stage \in {"plan", "read"} => files = dev.holds.files /\ names = dev.holds.names
  /\ stage \in {"parse", "died"} => reads = <<>>

(* What lies where: byte `at' of the file is byte `disk' of the device.    *)
Mapped(f, at, disk) ==
  \E e \in ToSet(files[f].ext) :
    /\ ~e.uninit
    /\ e.lblk * Block <= at /\ at < (e.lblk + e.len) * Block
    /\ disk - e.pblk * Block = at - e.lblk * Block

(* A byte is delivered from where its file keeps it, to the file it        *)
(* belongs to, at its offset there: a piece that is cut, merged with its   *)
(* neighbours and read among pieces of other files arrives where it should *)
(* (ext4.rs:368-390, "whichever files they belong to").                    *)
RightPlace ==
  \A k \in DOMAIN sent :
    LET s == sent[k]
    IN \A o \in 0..(s.n - 1) :
         s.off + o < files[s.f].size /\ Mapped(s.f, s.off + o, s.disk + o)

(* What the content hash was told is kept.  In the end each file was sent  *)
(* as many bytes as hf_open was told, and no byte twice: the file          *)
(* completes, at its last delivery and not before, which is all that ties  *)
(* the two computations of its extents together (got == need, ext4.rs:57-64*)
(* against 94-108 and 336-358).  And every read is not empty and fits the  *)
(* room hb_buf gives out ("want (<= BUFSZ) bytes", common.rs:348-351).     *)
BytesSent(f) == SumOf([k \in DOMAIN sent |-> IF sent[k].f = f THEN sent[k].n ELSE 0])
SentAsPromised ==
  /\ \A k \in DOMAIN reads : reads[k].len \in 1..BufSz
  /\ \A f \in File :
       /\ BytesSent(f) <= Max({0, need[f]})
       /\ AllRead => BytesSent(f) = need[f]
       /\ \A i, j \in DOMAIN sent :
            i # j /\ sent[i].f = sent[j].f =>
              \/ sent[i].off + sent[i].n <= sent[j].off
              \/ sent[j].off + sent[j].n <= sent[i].off

(* rawsort goes over the disk once, forwards (ext4.rs:320, "every extent   *)
(* of every file in physical order"): a read begins past the end of the    *)
(* one before.                                                             *)
OneSweep ==
  [][method = "rawsort" /\ reads # <<>> /\ reads' # reads =>
       Last(reads').disk >= Last(reads).disk + Last(reads).len]_vars
=============================================================================
