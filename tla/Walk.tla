-------------------------------- MODULE Walk --------------------------------
(***************************************************************************)
(* A run of accbench on a mounted file system: main.rs and the methods     *)
(* vfs, handle and bulkstat, with the inode set and the read loop they     *)
(* share.  The volume is alive: while the program runs, files may grow,    *)
(* shrink or lose a name, and system calls may fail.                       *)
(*                                                                         *)
(* An entry of a directory is the inode it names.  The content hash is     *)
(* reduced to what the walk sees of it: when a file's record appears, and  *)
(* what deliver() refuses; HashEngine has the rest.                        *)
(***************************************************************************)
EXTENDS RadixSort, InodeSet

CONSTANTS
  Cmds,       (* the argument lists                                        *)
  Counts,     (* the values of --threads and what they mean: 1 to 1024     *)
  Volumes,    (* the volumes: [root, typed, node], typed if readdir tells  *)
              (* types, and node[ino] = [type, size, ents]                 *)
  Hashes,     (* the hash functions of the inode set                       *)
  ChunkLen,   (* 1 KiB                                                     *)
  BufSz,      (* 1 MiB: the longest read                                   *)
  BulkN,      (* inodes a BULKSTAT call returns at most: 1024              *)
  MaxChanges  (* bound: changes of the volume, and calls that fail; that   *)
              (* there is one is what Terminates assumes of the World      *)

Dot == 0      (* the entries "." and ".." *)
Gone == -1    (* an entry that was removed *)

IsVolume(v) ==
  LET inodes == DOMAIN v.node IN
  /\ IsFiniteSet(inodes) /\ inodes \subseteq Nat \ {0}
  /\ v = [root |-> v.root, typed |-> v.typed, node |-> v.node]
  /\ v.node \in [inodes -> [type : {"dir", "reg", "other"}, size : Nat,
                            ents : Seq(inodes \cup {Dot, Gone})]]
  /\ v.root \in inodes /\ v.node[v.root].type = "dir"

ASSUME WalkAssumption ==
  /\ \A v \in Volumes : IsVolume(v) /\ \A f \in Hashes : \A i \in DOMAIN v.node : f[i] \in Nat
  /\ ChunkLen \in Nat \ {0} /\ BufSz \in Nat \ {0} /\ BulkN \in Nat \ {0}
  /\ Cmds \subseteq Seq(STRING) /\ \A c \in DOMAIN Counts : Counts[c] \in Nat \ {0}
  /\ MaxChanges \in Nat

VARIABLES
  opt,        (* what main() made of its arguments                         *)
  vol, h,     (* the volume, the hash function                             *)
  stack,      (* the open directories, each with its position              *)
  ctx,        (* Ctx: names, seen, recs, and of the content hash: opened,  *)
              (* done (files that wait for a flush), fill                  *)
  dirs, list, (* bulkstat's directories; the files to open in inode order  *)
  cursor,     (* where the next BULKSTAT call starts                       *)
  cur,        (* the file being read                                       *)
  ends,       (* history: each file read to its end, and its size then     *)
  out,        (* the digest file                                           *)
  changes,
  pc

vars == <<opt, vol, h, stack, ctx, dirs, list, cursor, cur, ends, out, changes, pc>>

Inode(i) == vol.node[i]
Regulars == {i \in DOMAIN vol.node : Inode(i).type = "reg"}
Dirs == {i \in DOMAIN vol.node : Inode(i).type = "dir"}
Names(i) == {n \in UNION {{d} \X DOMAIN Inode(d).ents : d \in Dirs} :
               Inode(n[1]).ents[n[2]] = i}
Nlink(i) == Cardinality(Names(i))

Found(i, size) == [ino |-> i, size |-> size]
InoOf(s) == [x \in ToSet(s) |-> x.ino]
NoFile == [ino |-> 0, size |-> 0, tot |-> 0, got |-> 0, ended |-> FALSE]
NoOut == [head |-> <<>>, recs |-> <<>>]

-----------------------------------------------------------------------------
(* main(): the arguments.                                                  *)

NoArgs == [pos |-> <<>>, hash |-> FALSE, digest |-> "", threads |-> 1,
           bad |-> FALSE, header |-> FALSE, want |-> ""]

Arg(o, a) ==
  IF o.header THEN o
  ELSE IF o.want = "threads"
  THEN IF a \in DOMAIN Counts THEN [o EXCEPT !.threads = Counts[a], !.want = ""]
       ELSE [o EXCEPT !.bad = TRUE, !.want = ""]
  ELSE IF o.want = "digest" THEN [o EXCEPT !.digest = a, !.hash = TRUE, !.want = ""]
  ELSE CASE a = "--header" -> [o EXCEPT !.header = TRUE]
         [] a = "--hash" -> [o EXCEPT !.hash = TRUE]
         [] a = "--threads" -> [o EXCEPT !.want = "threads"]
         [] a = "--digest" -> [o EXCEPT !.want = "digest"]
         [] OTHER -> IF Len(o.pos) < 2 THEN [o EXCEPT !.pos = Append(@, a)]
                     ELSE [o EXCEPT !.bad = TRUE]

(* after[k] is what the first k of them make. *)
Parsed(cmd) ==
  LET after[k \in 0..Len(cmd)] == IF k = 0 THEN NoArgs ELSE Arg(after[k - 1], cmd[k])
  IN after[Len(cmd)]
Usable(o) == ~o.bad /\ o.want = "" /\ Len(o.pos) = 2
Method == opt.pos[1]
Batch == opt.hash /\ opt.threads > 1
MemLen == 2 * opt.threads * BufSz

Init ==
  /\ opt \in {Parsed(cmd) : cmd \in Cmds}
  /\ vol \in Volumes
  /\ h \in Hashes
  /\ stack = <<>>
  /\ ctx = [names |-> 0, seen |-> NoInodes, recs |-> <<>>, opened |-> 0,
            done |-> <<>>, fill |-> 0]
  /\ dirs = <<>> /\ list = <<>> /\ cursor = 0
  /\ cur = NoFile
  /\ ends = <<>>
  /\ out = NoOut
  /\ changes = 0
  /\ pc = "main"

Die == pc' = "died"

(* The method starts at the root of the volume. *)
Main ==
  /\ pc = "main"
  /\ IF opt.header \/ ~Usable(opt)
     THEN pc' = (IF opt.header THEN "header" ELSE "usage") /\ UNCHANGED stack
     ELSE CASE Method \in {"vfs", "handle"} ->
                 pc' = "dir" /\ stack' = <<[ino |-> vol.root, at |-> 1]>>
            [] Method = "bulkstat" -> pc' = "bulk" /\ UNCHANGED stack
            [] OTHER -> Die /\ UNCHANGED stack
  /\ UNCHANGED <<opt, vol, h, ctx, dirs, list, cursor, cur, ends, out, changes>>

-----------------------------------------------------------------------------
(* vfs and handle: the walk.                                               *)

Top == Last(stack)
Advanced == Append(Front(stack), [Top EXCEPT !.at = @ + 1])

(* Mutation of Kind: a type that readdir does not tell is no directory's   *)
(* and no file's.                                                          *)
KindTrusted(i) == IF vol.typed THEN Inode(i).type ELSE "other"

(* The type of an entry: d_type, or from lstat where that is DT_UNKNOWN.   *)
Kind(i) == Inode(i).type

(* The next entry is a directory: descend at once. *)
Descend(i) ==
  /\ ctx' = [ctx EXCEPT !.names = @ + 1]
  /\ stack' = Append(Advanced, [ino |-> i, at |-> 1])
  /\ UNCHANGED <<list, cur, pc>>

(* The next entry is a file: vfs knows its size now and opens it next,     *)
(* handle takes its handle, unless another name of it came before.         *)
Meet(i) ==
  LET add == Added(h, ctx.seen, i) IN
  /\ ctx' = [ctx EXCEPT !.names = @ + 1, !.seen = add.set]
  /\ stack' = Advanced
  /\ IF ~add.new THEN UNCHANGED <<list, cur, pc>>
     ELSE IF Method = "vfs"
     THEN /\ cur' = [NoFile EXCEPT !.ino = i, !.size = Inode(i).size]
          /\ pc' = "open"
          /\ UNCHANGED list
     ELSE list' = Append(list, Found(i, 0)) /\ UNCHANGED <<cur, pc>>

Entry ==
  /\ pc = "dir"
  /\ Top.at \in DOMAIN Inode(Top.ino).ents
  /\ LET i == Inode(Top.ino).ents[Top.at] IN
       IF i \in {Dot, Gone}
       THEN stack' = Advanced /\ UNCHANGED <<ctx, list, cur, pc>>
       ELSE CASE Kind(i) = "dir" -> Descend(i)
              [] Kind(i) = "reg" -> Meet(i)
              [] OTHER -> /\ ctx' = [ctx EXCEPT !.names = @ + 1]
                          /\ stack' = Advanced
                          /\ UNCHANGED <<list, cur, pc>>
  /\ UNCHANGED <<opt, vol, h, dirs, cursor, ends, out, changes>>

(* Mutation of DirEnds: the handles stay in the order of the walk. *)
DirEndsUnsorted ==
  /\ pc = "dir"
  /\ Top.at \notin DOMAIN Inode(Top.ino).ents
  /\ stack' = Front(stack)
  /\ pc' = IF Len(stack) > 1 THEN "dir" ELSE IF Method = "vfs" THEN "flush" ELSE "list"
  /\ UNCHANGED <<opt, vol, h, ctx, dirs, list, cursor, cur, ends, out, changes>>

(* closedir; after the root, handle sorts what it has. *)
DirEnds ==
  /\ pc = "dir"
  /\ Top.at \notin DOMAIN Inode(Top.ino).ents
  /\ stack' = Front(stack)
  /\ IF Len(stack) > 1 THEN pc' = "dir" /\ UNCHANGED list
     ELSE IF Method = "vfs" THEN pc' = "flush" /\ UNCHANGED list
     ELSE pc' = "list" /\ list' = RadixSorted(list, InoOf(list))
  /\ UNCHANGED <<opt, vol, h, ctx, dirs, cursor, cur, ends, out, changes>>

(* openat: open by name what was just looked at. *)
OpenByName ==
  /\ pc = "open"
  /\ IF \E n \in Names(cur.ino) : n[1] = Top.ino /\ n[2] = Top.at - 1
     THEN pc' = "hf_open" ELSE Die
  /\ UNCHANGED <<opt, vol, h, stack, ctx, dirs, list, cursor, cur, ends, out, changes>>

-----------------------------------------------------------------------------
(* bulkstat, and what it shares with handle: files by handle.              *)

(* XFS_IOC_BULKSTAT: the next inodes in use. *)
Bulk ==
  {i \in DOMAIN vol.node :
     i >= cursor /\ Cardinality({j \in DOMAIN vol.node : cursor <= j /\ j < i}) < BulkN}

(* Inodes in an array, in inode order. *)
InOrder(S) == {s \in [1..Cardinality(S) -> S] : \A j, k \in DOMAIN s : j < k => s[j] < s[k]}

(* Mutation of Wanted: files without a name are taken too. *)
WantedAll(i) == Inode(i).type = "reg"

Wanted(i) == Inode(i).type = "reg" /\ Nlink(i) # 0

BulkStat ==
  /\ pc = "bulk"
  /\ IF Bulk = {} THEN pc' = "names" /\ UNCHANGED <<dirs, list, cursor>>
     ELSE \E all \in InOrder(Bulk), ds \in InOrder({i \in Bulk : i \in Dirs}),
             files \in InOrder({i \in Bulk : Wanted(i)}) :
          /\ cursor' = Last(all) + 1
          /\ dirs' = dirs \o ds
          /\ list' = list \o [k \in DOMAIN files |-> Found(files[k], Inode(files[k]).size)]
          /\ UNCHANGED pc
  /\ UNCHANGED <<opt, vol, h, stack, ctx, cur, ends, out, changes>>

(* One directory after the other, for its names alone. *)
BulkDir ==
  /\ pc = "names"
  /\ IF dirs = <<>> THEN pc' = "list" /\ UNCHANGED <<ctx, dirs>>
     ELSE /\ dirs' = Tail(dirs)
          /\ ctx' = [ctx EXCEPT !.names = @ +
               Len(SelectSeq(Inode(Head(dirs)).ents, LAMBDA i : i \notin {Dot, Gone}))]
          /\ UNCHANGED pc
  /\ UNCHANGED <<opt, vol, h, stack, list, cursor, cur, ends, out, changes>>

(* open_by_handle_at; the size is fstat's now, or bulkstat's from before.  *)
OpenByHandle ==
  /\ pc = "list"
  /\ IF list = <<>> THEN pc' = "flush" /\ UNCHANGED <<list, cur>>
     ELSE LET i == Head(list).ino
              size == IF Method = "handle" THEN Inode(i).size ELSE Head(list).size
          IN /\ list' = Tail(list)
             /\ cur' = [NoFile EXCEPT !.ino = i, !.size = size]
             /\ IF Nlink(i) = 0 THEN Die ELSE pc' = "hf_open"
  /\ UNCHANGED <<opt, vol, h, stack, ctx, dirs, cursor, ends, out, changes>>

-----------------------------------------------------------------------------
(* read_stream.                                                            *)

Record(c) == [c EXCEPT !.recs = Append(@, Found(cur.ino, cur.size))]

(* hf_open: with nothing to come the file is finished at once. *)
HfOpen ==
  /\ pc = "hf_open"
  /\ LET c == [ctx EXCEPT !.opened = @ + 1] IN
       ctx' = IF ~opt.hash THEN ctx ELSE IF cur.size = 0 THEN Record(c) ELSE c
  /\ pc' = "buf"
  /\ UNCHANGED <<opt, vol, h, stack, dirs, list, cursor, cur, ends, out, changes>>

(* flush(): the files that are complete are recorded. *)
Flushed(c) == [c EXCEPT !.recs = @ \o c.done, !.done = <<>>, !.fill = 0]

(* Mutation of HbBuf: no flush before the arena is full. *)
HbBufWhenFull ==
  /\ pc = "buf"
  /\ ctx' = IF Batch /\ ctx.fill >= MemLen THEN Flushed(ctx) ELSE ctx
  /\ pc' = "read"
  /\ UNCHANGED <<opt, vol, h, stack, dirs, list, cursor, cur, ends, out, changes>>

HbBuf ==
  /\ pc = "buf"
  /\ ctx' = IF Batch /\ ctx.fill + BufSz > MemLen THEN Flushed(ctx) ELSE ctx
  /\ pc' = "read"
  /\ UNCHANGED <<opt, vol, h, stack, dirs, list, cursor, cur, ends, out, changes>>

(* read() gives some of what is left.  (Interrupted, it is tried again.)   *)
ReadSome ==
  /\ pc = "read"
  /\ \E n \in 1..Min({BufSz - cur.got, Inode(cur.ino).size - cur.tot - cur.got}) :
       /\ cur' = [cur EXCEPT !.got = @ + n]
       /\ pc' = IF cur.got + n = BufSz THEN "deliver" ELSE "read"
  /\ UNCHANGED <<opt, vol, h, stack, ctx, dirs, list, cursor, ends, out, changes>>

Ended == [ino |-> cur.ino, claimed |-> cur.size,
          read |-> cur.tot + cur.got, size |-> Inode(cur.ino).size]

(* Mutation of ReadNothing: the loop ends at the size that is expected. *)
ReadNothingAtSize ==
  /\ pc = "read"
  /\ cur.tot + cur.got >= Inode(cur.ino).size
  /\ pc' = "deliver"
  /\ IF cur.tot + cur.got < cur.size THEN UNCHANGED <<cur, ends>>
     ELSE cur' = [cur EXCEPT !.ended = TRUE] /\ ends' = Append(ends, Ended)
  /\ UNCHANGED <<opt, vol, h, stack, ctx, dirs, list, cursor, out, changes>>

(* read() gives 0: the end of the file as it is now. *)
ReadNothing ==
  /\ pc = "read"
  /\ cur.tot + cur.got >= Inode(cur.ino).size
  /\ pc' = "deliver"
  /\ cur' = [cur EXCEPT !.ended = TRUE]
  /\ ends' = Append(ends, Ended)
  /\ UNCHANGED <<opt, vol, h, stack, ctx, dirs, list, cursor, out, changes>>

(* What read_stream ("grew while being read") and deliver() refuse. *)
Refused ==
  /\ opt.hash /\ cur.got > 0
  /\ \/ cur.tot + cur.got > cur.size
     \/ cur.tot % ChunkLen # 0
     \/ cur.got % ChunkLen # 0 /\ cur.tot + cur.got # cur.size

(* deliver() and hb_used(): the file is complete when all of it was        *)
(* delivered, and recorded now or, in batch mode, by the next flush.  (Of  *)
(* the batch buffer the bytes are counted; that hb_used rounds them up to  *)
(* 64 is in HashEngine.)                                                   *)
Delivered(c) ==
  LET used == IF Batch THEN [c EXCEPT !.fill = @ + cur.got] ELSE c IN
  IF cur.tot + cur.got # cur.size THEN used
  ELSE IF Batch THEN [used EXCEPT !.done = Append(@, Found(cur.ino, cur.size))]
  ELSE Record(used)

Deliver ==
  /\ pc = "deliver"
  /\ IF Refused THEN Die /\ UNCHANGED <<ctx, cur>>
     ELSE /\ ctx' = IF opt.hash /\ cur.got > 0 THEN Delivered(ctx) ELSE ctx
          /\ cur' = [cur EXCEPT !.tot = @ + cur.got, !.got = 0]
          /\ pc' = IF cur.ended THEN "stream" ELSE "buf"
  /\ UNCHANGED <<opt, vol, h, stack, dirs, list, cursor, ends, out, changes>>

(* Mutation of FileRead: what was read is what there is. *)
FileReadUnchecked ==
  /\ pc = "stream"
  /\ ctx' = IF opt.hash THEN ctx ELSE Record(ctx)
  /\ pc' = IF Method = "vfs" THEN "dir" ELSE "list"
  /\ UNCHANGED <<opt, vol, h, stack, dirs, list, cursor, cur, ends, out, changes>>

(* Back in the method: the file must have had the size it was opened with. *)
FileRead ==
  /\ pc = "stream"
  /\ IF cur.tot # cur.size THEN Die /\ UNCHANGED ctx
     ELSE /\ ctx' = IF opt.hash THEN ctx ELSE Record(ctx)
          /\ pc' = IF Method = "vfs" THEN "dir" ELSE "list"
  /\ UNCHANGED <<opt, vol, h, stack, dirs, list, cursor, cur, ends, out, changes>>

-----------------------------------------------------------------------------
(* main(): the end.                                                        *)

Bytes(recs) == FoldFunction(LAMBDA r, sum : r.size + sum, 0, recs)

(* The last batch, and check_complete. *)
Finish ==
  /\ pc = "flush"
  /\ ctx' = IF opt.hash THEN Flushed(ctx) ELSE ctx
  /\ IF opt.hash /\ ctx'.opened # Len(ctx'.recs) THEN Die
     ELSE pc' = IF opt.digest = "" THEN "done" ELSE "digest"
  /\ UNCHANGED <<opt, vol, h, stack, dirs, list, cursor, cur, ends, out, changes>>

WriteDigest ==
  /\ pc = "digest"
  /\ out' = [head |-> <<Len(ctx.recs), ctx.names, Bytes(ctx.recs)>>,
             recs |-> RadixSorted(ctx.recs, InoOf(ctx.recs))]
  /\ pc' = "done"
  /\ UNCHANGED <<opt, vol, h, stack, ctx, dirs, list, cursor, cur, ends, changes>>

Over == {"done", "died", "usage", "header"}
Exited == pc \in Over /\ UNCHANGED vars

-----------------------------------------------------------------------------
(* The world.                                                              *)

Change == changes < MaxChanges /\ pc \notin Over /\ changes' = changes + 1

Resize(i, size) ==
  /\ Change
  /\ vol' = [vol EXCEPT !.node[i].size = size]
  /\ UNCHANGED <<opt, h, stack, ctx, dirs, list, cursor, cur, ends, out, pc>>

Unlink(n) ==
  /\ Change
  /\ vol' = [vol EXCEPT !.node[n[1]].ents[n[2]] = Gone]
  /\ UNCHANGED <<opt, h, stack, ctx, dirs, list, cursor, cur, ends, out, pc>>

(* A call fails: die_os, or the digest file cannot be written. *)
Fails ==
  /\ Change
  /\ pc \in {"dir", "open", "bulk", "names", "list", "read", "digest"}
  /\ Die
  /\ UNCHANGED <<opt, vol, h, stack, ctx, dirs, list, cursor, cur, ends, out>>

Step ==
  \/ Main \/ Entry \/ DirEnds \/ OpenByName
  \/ BulkStat \/ BulkDir \/ OpenByHandle
  \/ HfOpen \/ HbBuf \/ ReadSome \/ ReadNothing \/ Deliver \/ FileRead
  \/ Finish \/ WriteDigest

World ==
  \/ \E i \in Regulars : \E size \in 0..(BufSz + ChunkLen) : Resize(i, size)
  \/ \E i \in Regulars : \E n \in Names(i) : Unlink(n)
  \/ Fails

Next == Step \/ World \/ Exited

Spec == Init /\ [][Next]_vars

(* The program runs on, and a read is not interrupted for ever: this is    *)
(* WF_vars(Step) spelled out, for until the program has exited a Step is   *)
(* enabled (no deadlock), and only the steps of the World count changes.   *)
FairSpec ==
  Spec /\ ([]<>(pc \in Over) \/ []<><<changes' = changes>>_vars)
-----------------------------------------------------------------------------
TypeOK ==
  /\ \A k \in DOMAIN stack : stack[k].ino \in Dirs
  /\ ctx.fill \in 0..MemLen
  /\ ToSet(list) \subseteq [ino : Regulars, size : Nat]
  /\ cur.got \in 0..BufSz
  /\ Len(ctx.recs) + Len(ctx.done) <= Cardinality(Regulars)
  /\ changes \in 0..MaxChanges
  /\ pc \in {"main", "dir", "open", "bulk", "names", "list", "hf_open", "buf", "read",
             "deliver", "stream", "flush", "digest"} \cup Over

(* On a volume that nobody changes, every method finds the same: each name *)
(* once, each file that has one once, whatever its names and wherever they *)
(* are, and writes the same digest file (README.md:88, "All of them must   *)
(* be byte-identical").                                                    *)
Linked == {i \in Regulars : Nlink(i) > 0}
Expected == SetToSortSeq({Found(i, Inode(i).size) : i \in Linked}, LAMBDA a, b : a.ino < b.ino)
AllNames == {n \in UNION {{d} \X DOMAIN Inode(d).ents : d \in Dirs} :
               Inode(n[1]).ents[n[2]] \notin {Dot, Gone}}
Known == opt.pos # <<>> /\ Method \in {"vfs", "handle", "bulkstat"}
ExactWhenQuiet ==
  changes = 0 /\ Known /\ pc \in {"done", "died"} =>
    /\ pc = "done"
    /\ ctx.names = Cardinality(AllNames)
    /\ Len(ctx.recs) = Len(Expected) /\ ToSet(ctx.recs) = ToSet(Expected)
    /\ opt.digest # "" =>
         out = [head |-> <<Len(Expected), ctx.names, Bytes(Expected)>>, recs |-> Expected]

(* A run that succeeds read of every file exactly as many bytes as the     *)
(* size it recorded for it, however the file grew or shrank between the    *)
(* look at its size and its last read, and at its last read the file was   *)
(* no longer than that (vfs.rs:52-59, common.rs:464-466).                  *)
(* It is a count of bytes, as in the code: what is overwritten in place,   *)
(* or cut off behind the reader, neither sees.                             *)
TornFilesDie ==
  pc = "done" =>
    /\ \A r \in ToSet(ctx.recs) : \E e \in ToSet(ends) : e.ino = r.ino /\ e.read = r.size
    /\ \A e \in ToSet(ends) : e.read = e.claimed /\ e.size <= e.read

(* The inode set has exactly the files that were met, through every growth *)
(* and every collision (common.rs:489-517).                                *)
Met == ToSet([k \in DOMAIN list |-> list[k].ino]) \cup {e.ino : e \in ToSet(ends)} \cup ({cur.ino} \ {0})
SeenFindsAll == opt.pos # <<>> /\ Method \in {"vfs", "handle"} => Holds(h, ctx.seen, Met)

(* handle and bulkstat read in inode order (handle.rs:98, bulkstat.rs:1-2, *)
(* "in inode order"), and no file twice.                                   *)
InodeOrder ==
  opt.pos # <<>> /\ Method \in {"handle", "bulkstat"} =>
    \A k \in 2..Len(ends) : ends[k - 1].ino < ends[k].ino

(* The run ends once the volume is let alone, that is, after finitely many *)
(* changes (MaxChanges), whatever they are: a file that shrank is not      *)
(* waited for, and no directory or BULKSTAT call comes round again         *)
(* (vfs.rs:13-67, common.rs:436-477, bulkstat.rs:51-81).  A file that is   *)
(* appended to for ever, faster than it is read, is another matter:        *)
(* without --hash read_stream asks for no more than an empty read, and     *)
(* reads for ever (common.rs:444-475).                                     *)
Terminates == <>(pc \in Over)
=============================================================================
