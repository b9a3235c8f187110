----------------------------- MODULE HashEngine -----------------------------
(***************************************************************************)
(* The content hash every access method shares: accbench.c:163-393 and     *)
(* common.rs:111-434.  A method opens files and delivers their data in     *)
(* whatever order it reads them; a delivery is cut into runs, each run is  *)
(* hashed -- at once, or in batch mode by the pool when the arena is full  *)
(* -- and a file whose last byte has arrived is merged and recorded.       *)
(*                                                                         *)
(* The method is any client: it opens a file at any time before its data,  *)
(* and each of its reads takes any pieces not read yet, in any order, next *)
(* to each other.  A piece is what one deliver() call passes.              *)
(*                                                                         *)
(* Byte p of file f is <<f, p>>; a hole, and what lies on disk past the    *)
(* end of a file, reads as given by Zero and Junk.                         *)
(***************************************************************************)
EXTENDS B3Tree, SequencesExt

CONSTANTS
  Wide,     (* WIDE of b3tree.c                                            *)
  BufSz,    (* BUFSZ and ZLEN, 1 MiB: the longest read and the longest run *)
  Align,    (* the arena is used in multiples of this: 64                  *)
  Adjacent, (* bound: how many pieces one read takes                       *)
  Inputs    (* what to read, and how: [threads, vol], vol being a sequence *)
            (* of files [size, data] and data a set of pieces [off, len]   *)

(* The pieces of a file are blocks, so whole chunks; they lie apart, and   *)
(* start before its end, in which the last of them may reach past it.      *)
IsVolume(v) ==
  \A f \in DOMAIN v :
    /\ IsFiniteSet(v[f].data)
    /\ \A p \in v[f].data : p.off % Chunk = 0 /\ p.len % Chunk = 0 /\ p.off < v[f].size
    /\ \A p, q \in v[f].data : p = q \/ p.off + p.len <= q.off \/ q.off + q.len <= p.off

ASSUME HashEngineAssumption ==
  /\ Wide \in Nat \ {0}
  /\ \E p \in 1..BufSz : PowerOfTwo(p) /\ BufSz = Chunk * p
  /\ BufSz % Align = 0
  /\ Align \in Nat \ {0}
  /\ Adjacent \in Nat \ {0}
  /\ Inputs \subseteq
       [threads : Nat \ {0},
        vol : Seq([size : Nat, data : SUBSET [off : Nat, len : Nat \ {0}]])]
  /\ \A in \in Inputs : IsVolume(in.vol)

VARIABLES
  threads,  (* --threads: 1 hashes inline, more hash in batches            *)
  vol,      (* the volume being read                                       *)
  todo,     (* the pieces of each file that were not read yet              *)
  hf,       (* struct hfile_t / HFile of each file                         *)
  mem,      (* g_arena in batch mode, g_buf otherwise                      *)
  fill,     (* how far the arena is used                                   *)
  jobs,     (* runs waiting to be hashed                                   *)
  unhashed, (* during a flush: the jobs no thread has hashed yet           *)
  done,     (* files that are complete but for waiting jobs                *)
  recs,     (* the records                                                 *)
  cur,      (* the read in progress: pieces left, place, length            *)
  pc

vars == <<threads, vol, todo, hf, mem, fill, jobs, unhashed, done, recs, cur, pc>>

Batch == threads > 1
MemLen == IF Batch THEN 2 * threads * BufSz ELSE BufSz

File == 1..Len(vol)
Size(f) == vol[f].size
Zero == <<0, 0>>
Junk == <<0, 1>>
Zeros(n) == [i \in 1..n |-> Zero]
Owns(p, i) == p.off <= i /\ i < p.off + p.len
Byte(f, i) == IF \E p \in vol[f].data : Owns(p, i) THEN <<f, i>> ELSE Zero
Content(f) == [i \in 1..Size(f) |-> Byte(f, i - 1)]
Bytes(size, p) == IF p.off + p.len <= size THEN p.len ELSE size - p.off
SumBytes(size, ps) == MapThenSumSet(LAMBDA p : Bytes(size, p), ps)
Need(f) == SumBytes(Size(f), vol[f].data)

NoCur == [pieces |-> <<>>, at |-> 0, want |-> 0]
NewFile == [open |-> FALSE, got |-> 0, runs |-> <<>>, whole |-> FALSE, done |-> FALSE]

Init ==
  /\ \E in \in Inputs : threads = in.threads /\ vol = in.vol
  /\ todo = [f \in File |-> vol[f].data]
  /\ hf = [f \in File |-> NewFile]
  /\ mem = [i \in 1..MemLen |-> Junk]
  /\ fill = 0 /\ jobs = <<>> /\ unhashed = {} /\ done = <<>>
  /\ recs = <<>>
  /\ cur = NoCur
  /\ pc = "method"

-----------------------------------------------------------------------------
(* The merge of a file's runs.                                             *)

NoCV == [misaligned |-> TRUE]    (* die("subtree misaligned") *)
Join(l, r) == IF NoCV \in {l, r} THEN NoCV ELSE Parent(l, r)

(* The value of a hole: its own subtrees of at most ZLEN, merged. *)
ZeroCV(off, len) ==
  Tree(len,
       [n \in 0..BufSz |-> [lo \in 0..len |-> Subtree(Zeros(n), off + lo, Wide)]],
       [n \in (BufSz + 1)..len |-> LeftLen(n)])[len][0]

(* Mutation of InHole: only a run that starts in the subtree counts. *)
InHoleStart(runs, off, len) ==
  ~\E r \in runs : off <= r.off /\ r.off + r.len < off + len

(* No run reaches into [off, off + len): of the runs that start before its *)
(* end, the last one ends before off.                                      *)
InHole(runs, off, len) ==
  LET before == {r \in runs : r.off < off + len}
  IN ~\E last \in before :
        /\ \A r \in before : r.off <= last.off
        /\ last.off + last.len > off

(* node(): the runs that are there, zeros where none is. *)
NodeCV(runs, off, len) ==
  LET node[n \in 0..len] ==
        [o \in off..(off + len) |->
           LET here == {r \in runs : r.off = o /\ r.len = n}
               ll == LeftLen(n) IN
           IF here # {} THEN (CHOOSE r \in here : TRUE).cv
           ELSE IF InHole(runs, o, n) THEN ZeroCV(o, n)
           ELSE IF n <= Chunk THEN NoCV
           ELSE Join(node[ll][o], node[n - ll][o + ll])]
  IN node[len][off]

FileDigest(h, size) ==
  IF h.whole THEN h.runs[1].cv
  ELSE IF size <= Chunk THEN Hash(Zeros(size), Wide)
  ELSE LET runs == {h.runs[i] : i \in DOMAIN h.runs}
           ll == LeftLen(size)
           l == NodeCV(runs, 0, ll)
           r == NodeCV(runs, ll, size - ll)
       IN IF NoCV \in {l, r} THEN NoCV ELSE RootParent(l, r)

Finished(h) == [h EXCEPT !.done = TRUE, !.runs = <<>>]

(* hf_finish of file f, whose state is h: record it, then `next'. *)
Finish(f, h, next) ==
  LET d == FileDigest(h, Size(f)) IN
    IF d = NoCV
    THEN pc' = "dead" /\ UNCHANGED <<hf, recs>>
    ELSE /\ recs' = Append(recs, [ino |-> f, digest |-> d])
         /\ hf' = [hf EXCEPT ![f] = Finished(h)]
         /\ pc' = next

-----------------------------------------------------------------------------
(* What the method calls.                                                  *)

(* Mutation of Open: a file with nothing to deliver waits for its data. *)
OpenWaits(f) ==
  /\ pc = "method"
  /\ ~hf[f].open /\ \A g \in 1..(f - 1) : hf[g].open
  /\ hf' = [hf EXCEPT ![f] = [NewFile EXCEPT !.open = TRUE]]
  /\ UNCHANGED <<threads, vol, todo, mem, fill, jobs, unhashed, done, recs, cur, pc>>

(* hf_open: with nothing to be delivered the file is finished at once.     *)
(* Files are numbered in the order they are opened.                        *)
Open(f) ==
  /\ pc = "method"
  /\ ~hf[f].open /\ \A g \in 1..(f - 1) : hf[g].open
  /\ LET h == [NewFile EXCEPT !.open = TRUE] IN
       IF Need(f) = 0
       THEN Finish(f, h, "method")
       ELSE hf' = [hf EXCEPT ![f] = h] /\ UNCHANGED <<recs, pc>>
  /\ UNCHANGED <<threads, vol, todo, mem, fill, jobs, unhashed, done, cur>>

(* The reads a method may do next: unread pieces of open files, side by    *)
(* side on disk, up to 1 MiB of them.                                      *)
Starts(ps) ==
  LET start[k \in 1..(Len(ps) + 1)] == IF k = 1 THEN 0 ELSE start[k - 1] + ps[k - 1].len
  IN start
BlockBytes(ps) == Starts(ps)[Len(ps) + 1]
Reads ==
  LET readable == UNION {{[f |-> f, off |-> p.off, len |-> p.len] : p \in todo[f]}
                           : f \in {g \in File : hf[g].open}}
  IN {ps \in UNION {[1..k -> readable] : k \in 1..Adjacent} :
        /\ \A i, j \in DOMAIN ps : ps[i] = ps[j] => i = j
        /\ BlockBytes(ps) <= BufSz}

(* A read asks for whole blocks (run_rawsort) or stops at the end of its   *)
(* file (xfer_file).                                                       *)
Wants(ps) ==
  LET last == ps[Len(ps)]
  IN {BlockBytes(ps), BlockBytes(ps) - last.len + Bytes(Size(last.f), last)}

(* Mutation of HbBuf: the arena is flushed only once it is full. *)
HbBufWhenFull(ps, want) ==
  /\ pc = "method"
  /\ cur' = [pieces |-> ps, at |-> 0, want |-> want]
  /\ IF Batch /\ fill >= MemLen
     THEN pc' = "hash" /\ unhashed' = DOMAIN jobs
     ELSE pc' = "read" /\ UNCHANGED unhashed
  /\ UNCHANGED <<threads, vol, todo, hf, mem, fill, jobs, done, recs>>

(* hb_buf(want): with no room left in the arena, flush it first. *)
HbBuf(ps, want) ==
  /\ pc = "method"
  /\ cur' = [pieces |-> ps, at |-> 0, want |-> want]
  /\ IF Batch /\ fill + want > MemLen
     THEN pc' = "hash" /\ unhashed' = DOMAIN jobs
     ELSE pc' = "read" /\ UNCHANGED unhashed
  /\ UNCHANGED <<threads, vol, todo, hf, mem, fill, jobs, done, recs>>

(* What the blocks of these pieces hold on disk. *)
OnDisk(ps) ==
  [i \in 1..BlockBytes(ps) |->
     LET k == CHOOSE k \in DOMAIN ps : Starts(ps)[k] < i /\ i <= Starts(ps)[k + 1]
         at == ps[k].off + i - 1 - Starts(ps)[k]
     IN IF at < Size(ps[k].f) THEN Byte(ps[k].f, at) ELSE Junk]

(* The method reads to the place hb_buf gave it. *)
Read ==
  /\ pc = "read"
  /\ LET at == IF Batch THEN fill ELSE 0
         disk == OnDisk(cur.pieces) IN
       /\ mem' = [i \in 1..MemLen |->
                    IF at < i /\ i <= at + cur.want THEN disk[i - at] ELSE mem[i]]
       /\ cur' = [cur EXCEPT !.at = at]
  /\ pc' = "deliver"
  /\ UNCHANGED <<threads, vol, todo, hf, fill, jobs, unhashed, done, recs>>

(* Mutation of RunLen: a run may start anywhere. *)
RunLenUnaligned(a, b) ==
  LET sizes == {s \in Chunk..BufSz : BufSz % s = 0 /\ s % Chunk = 0}
  IN Max({Chunk} \cup {s \in sizes : a + s <= b})

(* The longest aligned power-of-two run, Chunk..BufSz, from a to at most b. *)
RunLen(a, b) ==
  LET sizes == {s \in Chunk..BufSz : \E p \in 1..s : PowerOfTwo(p) /\ s = Chunk * p}
  IN Max({Chunk} \cup {s \in sizes : a % s = 0 /\ a + s <= b})

(* The runs [off, len] that [a, b) is cut into; the file's last chunk may  *)
(* be short.                                                               *)
Cut(a, b) ==
  LET last[n \in 0..(b - a)] ==       (* those of the last n bytes *)
        IF n = 0 THEN <<>>
        ELSE LET len == Min({RunLen(b - n, b), n})
             IN <<[off |-> b - n, len |-> len]>> \o last[n - len]
  IN last[b - a]

HashRun(whole, in, off) == IF whole THEN Hash(in, Wide) ELSE Subtree(in, off, Wide)
Pending == [pending |-> TRUE]    (* the value of a run a job will fill in *)

BadDelivery(f, off, n) ==
  \/ off % Chunk # 0
  \/ n % Chunk # 0 /\ off + n # Size(f)
  \/ off + n > Size(f)

(* Mutation of Complete: a file is finished when its last byte is here,    *)
(* whether its runs are hashed or not.                                     *)
CompleteAtOnce(f, h, next) ==
  Finish(f, h, next) /\ UNCHANGED done

(* got == need: the file is merged, in batch mode after the next flush. *)
Complete(f, h, next) ==
  IF Batch
  THEN /\ done' = Append(done, f)
       /\ hf' = [hf EXCEPT ![f] = h]
       /\ pc' = next
       /\ UNCHANGED recs
  ELSE Finish(f, h, next) /\ UNCHANGED done

(* deliver() of the next piece of the read. *)
Deliver ==
  /\ pc = "deliver"
  /\ LET p == Head(cur.pieces)
         f == p.f
         n == Bytes(Size(f), p)
         whole == p.off = 0 /\ n = Size(f)
         cut == IF whole THEN <<[off |-> 0, len |-> n]>> ELSE Cut(p.off, p.off + n)
         Place(r) == cur.at + r.off - p.off
         CV(r) == IF Batch THEN Pending
                  ELSE HashRun(whole, Slice(mem, Place(r), r.len), r.off)
         h == [hf[f] EXCEPT
                 !.got = @ + n,
                 !.whole = whole,
                 !.runs = @ \o [k \in DOMAIN cut |->
                             [off |-> cut[k].off, len |-> cut[k].len, cv |-> CV(cut[k])]]]
         new == [k \in DOMAIN cut |->
                   [at |-> Place(cut[k]), f |-> f, i |-> Len(hf[f].runs) + k]]
         next == IF Len(cur.pieces) = 1 THEN "used" ELSE "deliver" IN
     IF BadDelivery(f, p.off, n)
     THEN pc' = "dead" /\ UNCHANGED <<todo, hf, jobs, done, recs, cur>>
     ELSE /\ todo' = [todo EXCEPT ![f] = @ \ {[off |-> p.off, len |-> p.len]}]
          /\ jobs' = IF Batch THEN jobs \o new ELSE jobs
          /\ cur' = [cur EXCEPT !.pieces = Tail(@), !.at = @ + p.len]
          /\ IF h.got = Need(f)
             THEN Complete(f, h, next)
             ELSE /\ hf' = [hf EXCEPT ![f] = h]
                  /\ pc' = next
                  /\ UNCHANGED <<done, recs>>
  /\ UNCHANGED <<threads, vol, mem, fill, unhashed>>

(* Mutation of HbUsed: the pieces delivered last are forgotten. *)
HbUsedLate ==
  /\ pc = "used"
  /\ cur' = NoCur
  /\ pc' = "method"
  /\ UNCHANGED <<threads, vol, todo, hf, mem, fill, jobs, unhashed, done, recs>>

(* hb_used(want): rounded up to the alignment of the arena. *)
HbUsed ==
  /\ pc = "used"
  /\ fill' = IF Batch THEN fill + ((cur.want + Align - 1) \div Align) * Align ELSE fill
  /\ cur' = NoCur
  /\ pc' = "method"
  /\ UNCHANGED <<threads, vol, todo, hf, mem, jobs, unhashed, done, recs>>

-----------------------------------------------------------------------------
(* hb_flush / Ctx::flush.                                                  *)

(* Some thread of the pool runs job i: pool_for runs every one, once, in   *)
(* any order, before it returns (module ParFor).                           *)
HashJob(i) ==
  /\ pc = "hash"
  /\ i \in unhashed
  /\ LET j == jobs[i]
         r == hf[j.f].runs[j.i]
     IN hf' = [hf EXCEPT ![j.f].runs[j.i].cv =
                 HashRun(hf[j.f].whole, Slice(mem, j.at, r.len), r.off)]
  /\ unhashed' = unhashed \ {i}
  /\ UNCHANGED <<threads, vol, todo, mem, fill, jobs, done, recs, cur, pc>>

(* Mutation of PoolReturns: the job list is not emptied. *)
PoolReturnsKeepsJobs ==
  /\ pc = "hash"
  /\ unhashed = {}
  /\ fill' = 0
  /\ pc' = "finish"
  /\ UNCHANGED <<threads, vol, todo, hf, mem, jobs, unhashed, done, recs, cur>>

(* pool_for returns. *)
PoolReturns ==
  /\ pc = "hash"
  /\ unhashed = {}
  /\ jobs' = <<>>
  /\ fill' = 0
  /\ pc' = "finish"
  /\ UNCHANGED <<threads, vol, todo, hf, mem, unhashed, done, recs, cur>>

FinishDone ==
  /\ pc = "finish"
  /\ done # <<>>
  /\ Finish(Head(done), hf[Head(done)], "finish")
  /\ done' = Tail(done)
  /\ UNCHANGED <<threads, vol, todo, mem, fill, jobs, unhashed, cur>>

(* Back to the read that needed the room, or to the end of main(). *)
FlushReturns ==
  /\ pc = "finish"
  /\ done = <<>>
  /\ pc' = IF cur = NoCur THEN "check" ELSE "read"
  /\ UNCHANGED <<threads, vol, todo, hf, mem, fill, jobs, unhashed, done, recs, cur>>

(* Mutation of LastFlush: main() goes straight to check_complete. *)
LastFlushForgotten ==
  /\ pc = "method"
  /\ \A f \in File : hf[f].open /\ todo[f] = {}
  /\ pc' = "check"
  /\ UNCHANGED <<threads, vol, todo, hf, mem, fill, jobs, unhashed, done, recs, cur>>

(* The method has read everything: the last batch is flushed. *)
LastFlush ==
  /\ pc = "method"
  /\ \A f \in File : hf[f].open /\ todo[f] = {}
  /\ unhashed' = DOMAIN jobs
  /\ pc' = "hash"
  /\ UNCHANGED <<threads, vol, todo, hf, mem, fill, jobs, done, recs, cur>>

CheckComplete ==
  /\ pc = "check"
  /\ pc' = IF \A f \in File : hf[f].done THEN "complete" ELSE "dead"
  /\ UNCHANGED <<threads, vol, todo, hf, mem, fill, jobs, unhashed, done, recs, cur>>

Exited == pc \in {"complete", "dead"} /\ UNCHANGED vars

-----------------------------------------------------------------------------
Step ==
  \/ \E f \in File : Open(f)
  \/ \E ps \in Reads : \E want \in Wants(ps) : HbBuf(ps, want)
  \/ Read \/ Deliver \/ HbUsed
  \/ \E i \in unhashed : HashJob(i)
  \/ PoolReturns \/ FinishDone \/ FlushReturns \/ LastFlush \/ CheckComplete

Next == Step \/ Exited

Spec == Init /\ [][Next]_vars

(* The method is a program that reads everything it opens, and the pool    *)
(* returns (Pool!CallReturns): a step that can be taken is taken.  This is *)
(* WF_vars(Step) spelled out: until the program has exited there always is *)
(* a step (no deadlock), and every step changes the state.                 *)
FairSpec ==
  Spec /\ ([]<>(pc \in {"complete", "dead"}) \/ []<><<TRUE>>_vars)
-----------------------------------------------------------------------------
TypeOK ==
  /\ [threads |-> threads, vol |-> vol] \in Inputs
  /\ \A f \in File : todo[f] \subseteq vol[f].data
  /\ \A f \in File : hf[f].got \in 0..Need(f)
  /\ Len(mem) = MemLen
  /\ fill \in 0..MemLen
  /\ unhashed \subseteq DOMAIN jobs
  /\ \A i \in DOMAIN jobs : jobs[i].i \in DOMAIN hf[jobs[i].f].runs
  /\ pc \in {"method", "read", "deliver", "used", "hash", "finish", "check",
             "complete", "dead"}

(* Every read fits the place hb_buf gave it: the rounding of hb_used and   *)
(* the size of the arena leave no read without its room (accbench.c:       *)
(* 334-351; an overrun would be a write past the arena).                   *)
RoomForRead ==
  pc = "read" => (IF Batch THEN fill ELSE 0) + cur.want <= MemLen

(* What a waiting job will hash is still what its file holds there: no     *)
(* read is placed over data that no thread has hashed, and no job outlives *)
(* the run it points to (accbench.c:205-208, "the run arrays may move      *)
(* until the flush"; Job::at, common.rs:157-161).                          *)
WaitingDataIntact ==
  \A i \in IF pc = "hash" THEN unhashed ELSE DOMAIN jobs :
    LET j == jobs[i]
        r == hf[j.f].runs[j.i]
    IN Slice(mem, j.at, r.len) = Slice(Content(j.f), r.off, r.len)

(* No order of arrival makes a legal method die: deliveries split into     *)
(* subtrees that the merge finds again ("subtree misaligned",              *)
(* accbench.c:262-264), and every file is complete at the end              *)
(* (check_complete, common.rs:429-434).                                    *)
NeverDies == pc # "dead"

(* Whatever the order of the reads and of the jobs, no file is recorded    *)
(* twice, or with a digest that is not BLAKE3 of its logical bytes         *)
(* (accbench.c:163-178).                                                   *)
D == INSTANCE Digests WITH
       content <- [f \in File |-> Content(f)],
       recorded <- recs
ImplementsDigests == D!Spec

(* Every file is recorded in the end, those that wait for the last batch,  *)
(* the empty ones and the holes included (common.rs:429-434, "every file   *)
(* opened for hashing was completed and recorded").                        *)
AllRecorded == <>(\A f \in File : \E i \in DOMAIN recs : recs[i].ino = f)
=============================================================================
