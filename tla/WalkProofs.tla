----------------------------- MODULE WalkProofs -----------------------------
(***************************************************************************)
(* Proofs about the mounted methods, for any volume, any arguments and any *)
(* number of changes while the program runs.                               *)
(*                                                                         *)
(* A file is recorded before it is known to be whole: hf_open and deliver  *)
(* go by the size it had, and only the end of its last read tells if that  *)
(* was true.  The invariant keeps the file that is being read apart from   *)
(* the ones that are settled.                                              *)
(*                                                                         *)
(* A walk meets a file once for every name of it, and the inode set tells  *)
(* which is the first.  The second invariant says what the set, the list,  *)
(* the file being read and the files read have to do with each other: the  *)
(* set holds the others, and in a method that sorts, each stage is below   *)
(* the one that comes after it.  The third says that no file is recorded   *)
(* twice and that no buffer runs over.                                     *)
(***************************************************************************)
EXTENDS Walk, AlgorithmProofs

IsSeq(s) == s \in Seq(ToSet(s))

Shapes ==
  /\ ctx = [names |-> ctx.names, seen |-> ctx.seen, recs |-> ctx.recs, opened |-> ctx.opened,
            done |-> ctx.done, fill |-> ctx.fill]
  /\ cur = [ino |-> cur.ino, size |-> cur.size, tot |-> cur.tot, got |-> cur.got,
            ended |-> cur.ended]
  /\ cur.ended \in BOOLEAN
  /\ IsSeq(ctx.recs) /\ IsSeq(ctx.done) /\ IsSeq(ends)

Reading == pc \in {"buf", "read", "deliver", "stream"}
Recorded == ToSet(ctx.recs) \cup ToSet(ctx.done)

(* What was read of the file that is being read, once its end was seen.    *)
ReadOf(n) ==
  \/ pc = "deliver" /\ cur.ended /\ n = cur.tot + cur.got
  \/ pc = "stream" /\ n = cur.tot

Settled(r) == \E e \in ToSet(ends) : e.ino = r.ino /\ e.read = r.size
Pending(r) == Reading /\ r.ino = cur.ino /\ r.size = cur.size

RecordInv == \A r \in Recorded : Settled(r) \/ Pending(r)
EndInv ==
  \A e \in ToSet(ends) :
    e.size <= e.read /\ (e.read = e.claimed \/ (e.claimed = cur.size /\ ReadOf(e.read)))
CurInv ==
  /\ pc \in {"open", "hf_open", "buf", "read"} => ~cur.ended
  /\ (pc = "deliver" /\ cur.ended) \/ pc = "stream" =>
       \E e \in ToSet(ends) : e.ino = cur.ino /\ ReadOf(e.read)

WInv == Shapes /\ (pc # "died" => RecordInv /\ EndInv /\ CurInv)

-----------------------------------------------------------------------------
(* The elements of a sequence that got one more.                           *)
LEMMA AppendSet ==
  ASSUME NEW s, IsSeq(s), NEW x
  PROVE  IsSeq(Append(s, x)) /\ ToSet(Append(s, x)) = ToSet(s) \cup {x}
<1> DEFINE S == ToSet(s) \cup {x}
<1>1. s \in Seq(S) /\ x \in S
  BY DEF IsSeq
<1>2. /\ Append(s, x) \in Seq(S) /\ Len(Append(s, x)) = Len(s) + 1 /\ Len(s) \in Nat
      /\ \A i \in 1..Len(s) : Append(s, x)[i] = s[i]
      /\ Append(s, x)[Len(s) + 1] = x
      /\ DOMAIN s = 1..Len(s) /\ DOMAIN Append(s, x) = 1..(Len(s) + 1)
  <2> HIDE DEF S
  <2> QED  BY <1>1
<1>3. ToSet(Append(s, x)) = S
  <2> DEFINE t == Append(s, x)
             n == Len(s)
  <2>1. n \in Nat /\ DOMAIN s = 1..n /\ DOMAIN t = 1..(n + 1) /\ t[n + 1] = x
        /\ \A i \in 1..n : t[i] = s[i]
    BY <1>2
  <2> HIDE DEF t, n
  <2>2. {t[i] : i \in 1..(n + 1)} = {s[i] : i \in 1..n} \cup {x}
    BY <2>1
  <2> QED  BY <2>1, <2>2 DEF ToSet, t
<1> QED  BY <1>2, <1>3 DEF IsSeq

(* The elements of two sequences in a row.                                 *)
LEMMA ConcatSet ==
  ASSUME NEW s, NEW u, IsSeq(s), IsSeq(u)
  PROVE  IsSeq(s \o u) /\ ToSet(s \o u) = ToSet(s) \cup ToSet(u)
<1> DEFINE S == ToSet(s) \cup ToSet(u)
           t == s \o u
           n == Len(s)
           m == Len(u)
<1>1. s \in Seq(S) /\ u \in Seq(S)
  BY DEF IsSeq
<1>2. /\ t \in Seq(S) /\ n \in Nat /\ m \in Nat
      /\ DOMAIN s = 1..n /\ DOMAIN u = 1..m /\ DOMAIN t = 1..(n + m)
      /\ \A i \in 1..(n + m) : t[i] = IF i <= n THEN s[i] ELSE u[i - n]
  <2> HIDE DEF S
  <2>1. t \in Seq(S) /\ Len(t) = n + m /\ \A i \in 1..(n + m) : t[i] = IF i <= n THEN s[i] ELSE u[i - n]
    BY <1>1, ConcatProperties
  <2> QED  BY <1>1, <2>1
<1> HIDE DEF t, n, m, S
<1>3. \A i \in 1..m : n + i \in 1..(n + m) /\ t[n + i] = u[i]
  BY <1>2
<1>4. {t[i] : i \in 1..(n + m)} = {s[i] : i \in 1..n} \cup {u[i] : i \in 1..m}
  <2>1. \A i \in 1..(n + m) : i \in 1..n \/ (i - n \in 1..m /\ ~(i <= n))
    BY <1>2
  <2>2. \A i \in 1..n : i \in 1..(n + m) /\ t[i] = s[i]
    BY <1>2
  <2> QED  BY <1>2, <1>3, <2>1, <2>2
<1>5. ToSet(t) = ToSet(s) \cup ToSet(u)
  BY <1>2, <1>4 DEF ToSet
<1> QED  BY <1>2, <1>5 DEF IsSeq, t, S

(* The empty sequence has no elements.                                     *)
LEMMA EmptyIsSeq == IsSeq(<<>>) /\ ToSet(<<>>) = {}
BY DEF IsSeq, ToSet

-----------------------------------------------------------------------------
(* The invariant holds before the first step.                              *)
LEMMA InitInv == Init => WInv
BY EmptyIsSeq DEF Init, WInv, Shapes, NoFile, RecordInv, Recorded, EndInv, CurInv

(* While no file is being read nothing is pending, and what ended is whole. *)
LEMMA Idle ==
  ASSUME WInv, ~Reading, pc # "died"
  PROVE  /\ \A r \in Recorded : Settled(r)
         /\ \A e \in ToSet(ends) : e.size <= e.read /\ e.read = e.claimed
BY DEF WInv, RecordInv, EndInv, Pending, Reading, ReadOf

(* Between two files everything may change but the records and the ends.   *)
LEMMA Between ==
  ASSUME WInv, Shapes', ~Reading, ~Reading', pc # "died",
         Recorded' = Recorded, ends' = ends,
         pc' \in {"open", "hf_open"} => ~cur'.ended
  PROVE  WInv'
<1>1. /\ \A r \in Recorded : Settled(r)
      /\ \A e \in ToSet(ends) : e.size <= e.read /\ e.read = e.claimed
  BY Idle
<1>2. RecordInv' /\ EndInv'
  BY <1>1 DEF RecordInv, EndInv, Settled
<1>3. CurInv'
  BY DEF CurInv, Reading
<1> QED  BY <1>2, <1>3 DEF WInv

(* A program that died has nothing more to promise.                        *)
LEMMA Dies == ASSUME WInv, Shapes', pc' = "died"  PROVE WInv'
BY DEF WInv

(* The shapes of what only the walk changes.                               *)
LEMMA Walked ==
  ASSUME Shapes, cur' = cur, ends' = ends,
         NEW names, NEW seen,
         ctx' = [ctx EXCEPT !.names = names, !.seen = seen] \/ ctx' = [ctx EXCEPT !.names = names]
                \/ ctx' = ctx
  PROVE  Shapes' /\ Recorded' = Recorded
<1>1. ctx'.recs = ctx.recs /\ ctx'.done = ctx.done
  BY DEF Shapes
<1>2. Recorded' = Recorded
  BY <1>1 DEF Recorded
<1>3. ctx' = [names |-> ctx'.names, seen |-> ctx'.seen, recs |-> ctx'.recs, opened |-> ctx'.opened,
              done |-> ctx'.done, fill |-> ctx'.fill]
  BY DEF Shapes
<1> QED  BY <1>1, <1>2, <1>3 DEF Shapes, IsSeq

(* The program takes its arguments.                                        *)
LEMMA MainStep == ASSUME WInv, Main  PROVE WInv'
<1>1. Shapes' /\ Recorded' = Recorded /\ ends' = ends
  BY Walked DEF Main, WInv
<1>2. pc' \in {"header", "usage", "dir", "bulk", "died"}
  BY DEF Main, Die
<1> QED  BY <1>1, <1>2, Between, Dies DEF Main, Reading

(* One entry of a directory, or one inode of a bulkstat batch.             *)
LEMMA EntryStep == ASSUME WInv, Entry  PROVE WInv'
<1> DEFINE i == Inode(Top.ino).ents[Top.at]
<1>1. ~Reading /\ pc # "died" /\ ends' = ends /\ Shapes
  BY DEF Entry, Reading, WInv
<1>2. CASE i \in {Dot, Gone}
  <2>1. cur' = cur /\ ctx' = ctx /\ pc' = "dir"
    BY <1>2 DEF Entry
  <2>2. Shapes' /\ Recorded' = Recorded
    BY <1>1, <2>1, Walked
  <2> QED  BY <1>1, <2>1, <2>2, Between DEF Reading
<1>3. CASE i \notin {Dot, Gone} /\ Kind(i) = "reg"
  <2>1. Meet(i)
    BY <1>3 DEF Entry
  <2>2. \/ cur' = cur /\ pc' = "dir"
        \/ cur' = [NoFile EXCEPT !.ino = i, !.size = Inode(i).size] /\ pc' = "open"
    BY <2>1 DEF Meet, Entry
  <2>3. ctx'.recs = ctx.recs /\ ctx'.done = ctx.done
        /\ ctx' = [names |-> ctx'.names, seen |-> ctx'.seen, recs |-> ctx'.recs, opened |-> ctx'.opened,
                   done |-> ctx'.done, fill |-> ctx'.fill]
    BY <2>1, <1>1 DEF Meet, Shapes
  <2>4. cur' = [ino |-> cur'.ino, size |-> cur'.size, tot |-> cur'.tot, got |-> cur'.got,
                ended |-> cur'.ended] /\ cur'.ended \in BOOLEAN /\ (pc' = "open" => ~cur'.ended)
    BY <1>1, <2>2 DEF Shapes, NoFile
  <2>5. Shapes' /\ Recorded' = Recorded
    BY <1>1, <2>3, <2>4 DEF Shapes, IsSeq, Recorded
  <2>6. pc' \in {"dir", "open"}
    BY <2>2
  <2> QED  BY <1>1, <2>4, <2>5, <2>6, Between DEF Reading
<1>4. CASE i \notin {Dot, Gone} /\ Kind(i) # "reg"
  <2>1. cur' = cur /\ ctx' = [ctx EXCEPT !.names = @ + 1] /\ pc' = "dir"
    BY <1>4 DEF Entry, Descend
  <2>2. Shapes' /\ Recorded' = Recorded
    BY <1>1, <2>1, Walked
  <2> QED  BY <1>1, <2>1, <2>2, Between DEF Reading
<1> QED  BY <1>2, <1>3, <1>4

(* Steps of the walk and of bulkstat that touch neither record nor file.   *)
LEMMA OtherSteps ==
  ASSUME WInv, DirEnds \/ OpenByName \/ BulkStat \/ BulkDir \/ WriteDigest
  PROVE  WInv'
<1>1. cur' = cur /\ ends' = ends /\ Shapes
  BY DEF DirEnds, OpenByName, BulkStat, BulkDir, WriteDigest, WInv
<1>2. \/ ctx' = ctx
      \/ \E n : ctx' = [ctx EXCEPT !.names = n]
  BY DEF DirEnds, OpenByName, BulkStat, BulkDir, WriteDigest
<1>3. Shapes' /\ Recorded' = Recorded
  BY <1>1, <1>2, Walked
<1>4. pc \in {"dir", "open", "bulk", "names", "digest"}
  BY DEF DirEnds, OpenByName, BulkStat, BulkDir, WriteDigest
<1>5. pc' \in {"dir", "flush", "list", "hf_open", "died", "names", "bulk", "done"}
  BY DEF DirEnds, OpenByName, BulkStat, BulkDir, WriteDigest, Die
<1>6. pc' = "hf_open" => ~cur.ended
  <2>1. pc' = "hf_open" => pc = "open"
    BY DEF DirEnds, OpenByName, BulkStat, BulkDir, WriteDigest, Die
  <2> QED  BY <2>1 DEF WInv, CurInv
<1>7. CASE pc' = "died"
  BY <1>3, <1>7, Dies
<1>8. CASE pc' # "died"
  BY <1>1, <1>3, <1>4, <1>5, <1>6, <1>8, Between DEF Reading
<1> QED  BY <1>7, <1>8

(* A file is opened by its handle.                                         *)
LEMMA OpenStep == ASSUME WInv, OpenByHandle  PROVE WInv'
<1>1. ~Reading /\ pc # "died" /\ ends' = ends /\ ctx' = ctx /\ Shapes
  BY DEF OpenByHandle, Reading, WInv
<1>2. \/ cur' = cur /\ pc' = "flush"
      \/ /\ \E ino, size : cur' = [NoFile EXCEPT !.ino = ino, !.size = size]
         /\ pc' \in {"hf_open", "died"}
  BY DEF OpenByHandle, Die
<1>3. cur' = [ino |-> cur'.ino, size |-> cur'.size, tot |-> cur'.tot, got |-> cur'.got,
              ended |-> cur'.ended] /\ cur'.ended \in BOOLEAN /\ (pc' # "flush" => ~cur'.ended)
  BY <1>1, <1>2 DEF Shapes, NoFile
<1>4. Shapes' /\ Recorded' = Recorded
  BY <1>1, <1>3 DEF Shapes, IsSeq, Recorded
<1> QED  BY <1>1, <1>2, <1>3, <1>4, Between, Dies DEF Reading

-----------------------------------------------------------------------------
(* The records after one more, and after a flush.                          *)
CtxOf(c) == [names |-> c.names, seen |-> c.seen, recs |-> c.recs, opened |-> c.opened,
             done |-> c.done, fill |-> c.fill]

(* What recording the current file adds to the records.                    *)
LEMMA RecordStep ==
  ASSUME NEW c, c = CtxOf(c), IsSeq(c.recs), IsSeq(c.done)
  PROVE  /\ Record(c) = CtxOf(Record(c)) /\ IsSeq(Record(c).recs) /\ IsSeq(Record(c).done)
         /\ ToSet(Record(c).recs) = ToSet(c.recs) \cup {Found(cur.ino, cur.size)}
         /\ Record(c).done = c.done
<1>1. /\ Record(c).recs = Append(c.recs, Found(cur.ino, cur.size)) /\ Record(c).done = c.done
      /\ Record(c) = CtxOf(Record(c))
  BY DEF Record, CtxOf
<1> QED  BY <1>1, AppendSet

(* A flush moves records and loses none.                                   *)
LEMMA FlushStep ==
  ASSUME NEW c, c = CtxOf(c), IsSeq(c.recs), IsSeq(c.done)
  PROVE  /\ Flushed(c) = CtxOf(Flushed(c)) /\ IsSeq(Flushed(c).recs) /\ IsSeq(Flushed(c).done)
         /\ ToSet(Flushed(c).recs) \cup ToSet(Flushed(c).done) = ToSet(c.recs) \cup ToSet(c.done)
<1>1. Flushed(c) = [CtxOf(c) EXCEPT !.recs = c.recs \o c.done, !.done = <<>>, !.fill = 0]
  BY DEF Flushed
<1>2. Flushed(c).recs = c.recs \o c.done
  BY <1>1 DEF CtxOf
<1>3. Flushed(c).done = <<>>
  BY <1>1 DEF CtxOf
<1>4. Flushed(c) = CtxOf(Flushed(c))
  BY <1>1, <1>2, <1>3 DEF CtxOf
<1> QED  BY <1>2, <1>3, <1>4, ConcatSet, EmptyIsSeq

(* A delivery records at most the current file.                            *)
LEMMA DeliveredStep ==
  ASSUME NEW c, c = CtxOf(c), IsSeq(c.recs), IsSeq(c.done)
  PROVE  LET d == Delivered(c) IN
         /\ d = CtxOf(d) /\ IsSeq(d.recs) /\ IsSeq(d.done)
         /\ \A r \in ToSet(d.recs) \cup ToSet(d.done) :
              r \in ToSet(c.recs) \cup ToSet(c.done) \/ r = Found(cur.ino, cur.size)
<1> DEFINE used == IF Batch THEN [c EXCEPT !.fill = @ + cur.got] ELSE c
           queued == [used EXCEPT !.done = Append(@, Found(cur.ino, cur.size))]
<1>1. used = CtxOf(used) /\ used.recs = c.recs /\ used.done = c.done
  BY DEF CtxOf
<1>2. CASE cur.tot + cur.got # cur.size
  BY <1>1, <1>2 DEF Delivered
<1>3. CASE cur.tot + cur.got = cur.size /\ Batch
  <2>1. Delivered(c) = queued
    BY <1>3 DEF Delivered
  <2>2. /\ queued = CtxOf(queued) /\ queued.recs = c.recs
        /\ queued.done = Append(c.done, Found(cur.ino, cur.size))
    <3> HIDE DEF used
    <3> QED  BY SMTT(60), <1>1 DEF CtxOf
  <2>3. IsSeq(queued.done) /\ ToSet(queued.done) = ToSet(c.done) \cup {Found(cur.ino, cur.size)}
    BY <2>2, AppendSet
  <2> HIDE DEF queued
  <2> QED  BY <2>1, <2>2, <2>3
<1>4. CASE cur.tot + cur.got = cur.size /\ ~Batch
  <2>1. Delivered(c) = Record(used)
    BY <1>4 DEF Delivered
  <2> HIDE DEF used
  <2>2. IsSeq(used.recs) /\ IsSeq(used.done)
    BY <1>1
  <2> QED  BY <1>1, <2>1, <2>2, RecordStep
<1> QED  BY <1>2, <1>3, <1>4

(* A file that was found is opened for hashing.                            *)
LEMMA HfOpenStep == ASSUME WInv, HfOpen  PROVE WInv'
<1>1. /\ Shapes /\ ends' = ends /\ cur' = cur /\ pc = "hf_open" /\ pc' = "buf" /\ ~Reading
      /\ ~cur.ended
  BY DEF HfOpen, Reading, WInv, CurInv
<1> DEFINE c == [ctx EXCEPT !.opened = @ + 1]
<1>2. c = CtxOf(c) /\ c.recs = ctx.recs /\ c.done = ctx.done /\ IsSeq(c.recs) /\ IsSeq(c.done)
  BY <1>1 DEF Shapes, CtxOf
<1>3. ctx' \in {ctx, c, Record(c)}
  BY DEF HfOpen
<1> HIDE DEF c
<1>4. /\ ctx' = CtxOf(ctx') /\ IsSeq(ctx'.recs) /\ IsSeq(ctx'.done)
      /\ \A r \in ToSet(ctx'.recs) \cup ToSet(ctx'.done) :
           r \in Recorded \/ r = Found(cur.ino, cur.size)
  BY <1>1, <1>2, <1>3, RecordStep DEF Shapes, CtxOf, Recorded
<1>5. Shapes'
  BY <1>1, <1>4 DEF Shapes, CtxOf, IsSeq
<1>6. RecordInv' /\ EndInv'
  BY <1>1, <1>4, Idle DEF RecordInv, Recorded, Settled, Pending, Reading, Found, EndInv
<1>7. CurInv'
  BY <1>1 DEF CurInv
<1> QED  BY <1>5, <1>6, <1>7 DEF WInv

(* Room for a read is taken.                                               *)
LEMMA HbBufStep == ASSUME WInv, HbBuf  PROVE WInv'
<1>1. /\ Shapes /\ RecordInv /\ EndInv /\ CurInv
      /\ ends' = ends /\ cur' = cur /\ pc = "buf" /\ pc' = "read"
  BY DEF HbBuf, WInv
<1>2. ctx = CtxOf(ctx)
  BY <1>1 DEF Shapes, CtxOf
<1>3. /\ ctx' = CtxOf(ctx') /\ IsSeq(ctx'.recs) /\ IsSeq(ctx'.done)
      /\ Recorded' = Recorded
  <2>1. ctx' = ctx \/ ctx' = Flushed(ctx)
    BY DEF HbBuf
  <2> QED  BY <1>1, <1>2, <2>1, FlushStep DEF Shapes, Recorded
<1>4. Shapes'
  BY <1>1, <1>3 DEF Shapes, CtxOf, IsSeq
<1>5. RecordInv' /\ EndInv' /\ CurInv'
  BY <1>1, <1>3 DEF RecordInv, Settled, Pending, Reading, EndInv, ReadOf, CurInv
<1> QED  BY <1>4, <1>5 DEF WInv

(* A read gets some bytes.                                                 *)
LEMMA ReadSomeStep == ASSUME WInv, ReadSome  PROVE WInv'
<1>1. /\ Shapes /\ RecordInv /\ EndInv /\ CurInv
      /\ ends' = ends /\ ctx' = ctx /\ pc = "read" /\ pc' \in {"deliver", "read"}
  BY DEF ReadSome, WInv
<1>2. PICK n : cur' = [cur EXCEPT !.got = @ + n]
  BY DEF ReadSome
<1>3. /\ cur'.ino = cur.ino /\ cur'.size = cur.size /\ cur'.ended = cur.ended /\ ~cur.ended
      /\ cur' = [ino |-> cur'.ino, size |-> cur'.size, tot |-> cur'.tot, got |-> cur'.got,
                 ended |-> cur'.ended]
  BY <1>1, <1>2 DEF Shapes, CurInv
<1>4. Shapes'
  BY <1>1, <1>3 DEF Shapes, IsSeq
<1>5. RecordInv' /\ EndInv' /\ CurInv'
  BY <1>1, <1>3 DEF RecordInv, Recorded, Settled, Pending, Reading, EndInv, ReadOf, CurInv
<1> QED  BY <1>4, <1>5 DEF WInv

(* A read gets nothing: the end of the file, or what it is at that time.   *)
LEMMA ReadNothingStep == ASSUME WInv, ReadNothing  PROVE WInv'
<1>1. /\ Shapes /\ RecordInv /\ EndInv /\ CurInv
      /\ ends' = Append(ends, Ended) /\ ctx' = ctx /\ pc = "read" /\ pc' = "deliver"
      /\ cur' = [cur EXCEPT !.ended = TRUE]
      /\ cur.tot + cur.got >= Inode(cur.ino).size
  BY DEF ReadNothing, WInv
<1>2. /\ cur'.ino = cur.ino /\ cur'.size = cur.size /\ cur'.ended = TRUE
      /\ cur'.tot = cur.tot /\ cur'.got = cur.got
      /\ cur' = [ino |-> cur'.ino, size |-> cur'.size, tot |-> cur'.tot, got |-> cur'.got,
                 ended |-> cur'.ended]
  BY <1>1 DEF Shapes
<1>3. IsSeq(ends') /\ ToSet(ends') = ToSet(ends) \cup {Ended}
  BY <1>1, AppendSet DEF Shapes
<1>4. Shapes'
  BY <1>1, <1>2, <1>3 DEF Shapes, IsSeq
<1>5. /\ Ended.ino = cur.ino /\ Ended.claimed = cur.size /\ Ended.read = cur.tot + cur.got
      /\ Ended.size <= Ended.read
  BY <1>1 DEF Ended
<1>6. RecordInv'
  BY <1>1, <1>2, <1>3 DEF RecordInv, Recorded, Settled, Pending, Reading
<1>7. EndInv'
  <2>1. ASSUME NEW e \in ToSet(ends)  PROVE e.size <= e.read /\ e.read = e.claimed
    BY <1>1 DEF EndInv, ReadOf
  <2> QED  BY <1>1, <1>2, <1>3, <1>5, <2>1 DEF EndInv, ReadOf
<1>8. CurInv'
  <2>1. Ended \in ToSet(ends')
    BY <1>3
  <2> QED  BY <1>1, <1>2, <1>5, <2>1 DEF CurInv, ReadOf
<1> QED  BY <1>4, <1>6, <1>7, <1>8 DEF WInv

(* What was read is delivered.                                             *)
LEMMA DeliverStep == ASSUME WInv, Deliver  PROVE WInv'
<1>1. /\ Shapes /\ RecordInv /\ EndInv /\ CurInv
      /\ ends' = ends /\ pc = "deliver"
  BY DEF Deliver, WInv
<1>2. CASE Refused
  <2>1. ctx' = ctx /\ cur' = cur /\ pc' = "died"
    BY <1>2 DEF Deliver, Die
  <2> QED  BY <1>1, <2>1, Dies DEF Shapes, IsSeq
<1>3. CASE ~Refused
  <2>1. /\ ctx' = ctx \/ ctx' = Delivered(ctx)
        /\ cur' = [cur EXCEPT !.tot = @ + cur.got, !.got = 0]
        /\ pc' = IF cur.ended THEN "stream" ELSE "buf"
    BY <1>3 DEF Deliver
  <2>2. ctx = CtxOf(ctx)
    BY <1>1 DEF Shapes, CtxOf
  <2>3. /\ ctx' = CtxOf(ctx') /\ IsSeq(ctx'.recs) /\ IsSeq(ctx'.done)
        /\ \A r \in ToSet(ctx'.recs) \cup ToSet(ctx'.done) :
             r \in Recorded \/ r = Found(cur.ino, cur.size)
    BY <1>1, <2>1, <2>2, DeliveredStep DEF Shapes, Recorded
  <2>4. /\ cur'.ino = cur.ino /\ cur'.size = cur.size /\ cur'.ended = cur.ended
        /\ cur'.tot = cur.tot + cur.got
        /\ cur' = [ino |-> cur'.ino, size |-> cur'.size, tot |-> cur'.tot, got |-> cur'.got,
                   ended |-> cur'.ended]
    BY <1>1, <2>1 DEF Shapes
  <2>5. Shapes'
    BY <1>1, <2>3, <2>4 DEF Shapes, CtxOf, IsSeq
  <2>6. RecordInv'
    BY <1>1, <2>1, <2>3, <2>4 DEF RecordInv, Recorded, Settled, Pending, Reading, Found
  <2>7. EndInv' /\ CurInv'
    BY <1>1, <2>1, <2>4 DEF EndInv, ReadOf, CurInv
  <2> QED  BY <2>5, <2>6, <2>7 DEF WInv
<1> QED  BY <1>2, <1>3

(* The loop has ended: the size it read is compared with the one it        *)
(* opened.                                                                 *)
LEMMA FileReadStep == ASSUME WInv, FileRead  PROVE WInv'
<1>1. /\ Shapes /\ RecordInv /\ EndInv /\ CurInv
      /\ ends' = ends /\ cur' = cur /\ pc = "stream"
  BY DEF FileRead, WInv
<1>2. CASE cur.tot # cur.size
  <2>1. ctx' = ctx /\ pc' = "died"
    BY <1>2 DEF FileRead, Die
  <2> QED  BY <1>1, <2>1, Dies DEF Shapes, IsSeq
<1>3. CASE cur.tot = cur.size
  <2>1. (ctx' = ctx \/ ctx' = Record(ctx)) /\ pc' \in {"dir", "list"}
    BY <1>3 DEF FileRead
  <2>2. ctx = CtxOf(ctx)
    BY <1>1 DEF Shapes, CtxOf
  <2>3. /\ ctx' = CtxOf(ctx') /\ IsSeq(ctx'.recs) /\ IsSeq(ctx'.done)
        /\ \A r \in ToSet(ctx'.recs) \cup ToSet(ctx'.done) :
             r \in Recorded \/ r = Found(cur.ino, cur.size)
    BY <1>1, <2>1, <2>2, RecordStep DEF Shapes, Recorded
  <2>4. Shapes'
    BY <1>1, <2>3 DEF Shapes, CtxOf, IsSeq
  <2>5. Settled(Found(cur.ino, cur.size))
    BY <1>1, <1>3 DEF CurInv, ReadOf, Settled, Found
  <2>6. \A r : Pending(r) => Settled(r)
    BY <2>5 DEF Pending, Settled, Found
  <2>7. RecordInv'
    <3>1. \A r \in Recorded' : Settled(r)
      BY <1>1, <2>3, <2>5, <2>6 DEF RecordInv, Recorded
    <3>2. \A r : Settled(r) => Settled(r)'
      BY <1>1 DEF Settled
    <3> QED  BY <3>1, <3>2 DEF RecordInv
  <2>8. EndInv'
    BY <1>1, <1>3 DEF EndInv, ReadOf
  <2>9. CurInv'
    BY <1>1, <2>1 DEF CurInv
  <2> QED  BY <2>4, <2>7, <2>8, <2>9 DEF WInv
<1> QED  BY <1>2, <1>3

(* The last flush, and the digest file.                                    *)
LEMMA FinishStep == ASSUME WInv, Finish  PROVE WInv'
<1>1. /\ Shapes /\ ~Reading /\ pc = "flush" /\ ends' = ends /\ cur' = cur
      /\ pc' \in {"died", "done", "digest"}
  BY DEF Finish, Reading, WInv, Die
<1>2. ctx = CtxOf(ctx)
  BY <1>1 DEF Shapes, CtxOf
<1>3. /\ ctx' = CtxOf(ctx') /\ IsSeq(ctx'.recs) /\ IsSeq(ctx'.done)
      /\ Recorded' = Recorded
  <2>1. ctx' = ctx \/ ctx' = Flushed(ctx)
    BY DEF Finish
  <2> QED  BY <1>1, <1>2, <2>1, FlushStep DEF Shapes, Recorded
<1>4. Shapes'
  BY <1>1, <1>3 DEF Shapes, CtxOf, IsSeq
<1> QED  BY <1>1, <1>3, <1>4, Between, Dies DEF Reading

-----------------------------------------------------------------------------
(* The invariant holds at all times.                                       *)
LEMMA Inv == Spec => []WInv
<1>1. WInv /\ [Next]_vars => WInv'
  <2> SUFFICES ASSUME WInv, [Next]_vars  PROVE WInv'
    OBVIOUS
  <2>1. CASE Step
    BY <2>1, MainStep, EntryStep, OtherSteps, OpenStep, HfOpenStep, HbBufStep, ReadSomeStep,
       ReadNothingStep, DeliverStep, FileReadStep, FinishStep DEF Step
  <2>2. CASE World \/ Exited \/ UNCHANGED vars
    <3>1. ctx' = ctx /\ cur' = cur /\ ends' = ends /\ (pc' = pc \/ pc' = "died")
      BY <2>2 DEF World, Resize, Unlink, Fails, Die, Exited, vars
    <3>2. Shapes' /\ Recorded' = Recorded
      BY <3>1 DEF WInv, Shapes, IsSeq, Recorded
    <3>3. CASE pc' = pc
      BY <3>1, <3>2, <3>3 DEF WInv, RecordInv, Settled, Pending, Reading, EndInv, ReadOf, CurInv
    <3>4. CASE pc' = "died"
      BY <3>2, <3>4, Dies
    <3> QED  BY <3>1, <3>3, <3>4
  <2> QED  BY <2>1, <2>2 DEF Next
<1> QED  BY InitInv, <1>1, PTL DEF Spec

(* A run that succeeds has read all of every file it recorded, whatever    *)
(* happened to the volume meanwhile (vfs.rs:52-59, common.rs:464-466).     *)
THEOREM NoTornFiles == Spec => []TornFilesDie
<1>1. WInv => TornFilesDie
  <2> SUFFICES ASSUME WInv, pc = "done"  PROVE TornFilesDie
    BY DEF TornFilesDie
  <2> QED  BY Idle DEF TornFilesDie, Reading, Recorded, Settled
<1> QED  BY <1>1, Inv, PTL

-----------------------------------------------------------------------------
(* The inode set.  K are the keys there may be, none of them 0.            *)
IsHash(hash, K) == \A x \in K : hash[x] \in Nat
IsTable(k, K) == k \in Seq(K \cup {Empty}) /\ Len(k) \in Nat \ {0}
HasRoom(k) == \E i \in 1..Len(k) : k[i] = Empty

(* A remainder, of a number that is given with it.                         *)
LEMMA Remainder ==
  ASSUME NEW L \in Nat \ {0}, NEW q \in Nat, NEW v \in 0..(L - 1), NEW u \in Nat, u = L * q + v
  PROVE  u % L = v
OBVIOUS

(* A probe comes to every slot.                                            *)
LEMMA ProbeReaches ==
  ASSUME NEW y \in Nat, NEW L \in Nat \ {0}, NEW i \in 1..L
  PROVE  \E d \in 0..(L - 1) : 1 + ((y + d) % L) = i
<1> DEFINE q == y \div L
           r == y % L
<1>1. q \in Nat /\ r \in 0..(L - 1) /\ y = L * q + r
  BY DivMod
<1> HIDE DEF q, r
<1>2. CASE r <= i - 1
  <2> DEFINE d == i - 1 - r
  <2>1. d \in 0..(L - 1) /\ y + d = L * q + (i - 1) /\ i - 1 \in 0..(L - 1)
    BY <1>1, <1>2
  <2> HIDE DEF d
  <2>2. (y + d) % L = i - 1
    BY <1>1, <2>1
  <2> QED  BY <2>1, <2>2
<1>3. CASE ~(r <= i - 1)
  <2> DEFINE d == i - 1 - r + L
  <2>1. PICK p \in Nat : p = q + 1
    BY <1>1
  <2>2. L * p = L * q + L
    BY <1>1, <2>1
  <2>3. d \in 0..(L - 1) /\ i - 1 \in 0..(L - 1) /\ r + d = L + (i - 1)
    BY <1>1, <1>3
  <2> HIDE DEF d
  <2>4. y + d = L * p + (i - 1)
    <3>1. PICK a \in Int, c \in Int : a = L * q /\ c = L * p
      BY <1>1, <2>1
    <3> QED  BY <1>1, <2>2, <2>3, <3>1
  <2>5. PICK u \in Nat, v \in 0..(L - 1) : u = y + d /\ v = i - 1
    BY <2>3
  <2>6. u = L * p + v
    BY <2>4, <2>5
  <2>7. u % L = v
    BY SMTT(60), <2>1, <2>6, Remainder
  <2>8. 1 + v = i /\ d \in 0..(L - 1)
    BY <2>3, <2>5
  <2>9. 1 + ((y + d) % L) = i
    BY <2>5, <2>7, <2>8, Zenon
  <2> QED  BY <2>8, <2>9, Zenon
<1> QED  BY <1>2, <1>3

(* A probe stays in the table.                                             *)
LEMMA AtIs ==
  ASSUME NEW hash, NEW k, NEW x, hash[x] \in Nat, Len(k) \in Nat \ {0}, NEW d \in Nat
  PROVE  At(hash, k, x, d) \in 1..Len(k)
<1>1. PICK y \in Nat, L \in Nat \ {0} : y = hash[x] + d /\ L = Len(k)
  OBVIOUS
<1>2. y % L \in 0..(L - 1)
  BY DivMod
<1> QED  BY <1>1, <1>2 DEF At

(* A probe that ends after d steps: everything before is another's.        *)
Ends(hash, k, x, d) ==
  /\ d \in 0..(Len(k) - 1) /\ k[At(hash, k, x, d)] \in {Empty, x}
  /\ \A e \in 0..(d - 1) : k[At(hash, k, x, e)] \notin {Empty, x}

(* Where it ends is the key's slot.                                        *)
LEMMA SlotOnly ==
  ASSUME NEW hash, NEW k, NEW x, Len(k) \in Nat \ {0}, NEW d, Ends(hash, k, x, d)
  PROVE  Slot(hash, k, x) = At(hash, k, x, d)
<1> DEFINE S == {e \in 0..(Len(k) - 1) : k[At(hash, k, x, e)] \in {Empty, x}}
<1>1. d \in S /\ S \subseteq Nat /\ S # {}
  BY DEF Ends
<1>2. \A e \in S : d <= e
  BY DEF Ends
<1>3. \A e \in S : e \in Nat
  BY <1>1
<1>4. Slot(hash, k, x) = At(hash, k, x, Min(S))
  BY DEF Slot
<1> HIDE DEF S
<1>5. Min(S) \in S /\ \A e \in S : Min(S) <= e
  BY <1>1, MinIsMember
<1>6. PICK m : m = Min(S)
  OBVIOUS
<1>7. m \in Nat /\ d \in Nat /\ m <= d /\ d <= m
  BY <1>1, <1>2, <1>3, <1>5, <1>6
<1> QED  BY <1>4, <1>6, <1>7

(* With a free slot the probe ends,                                        *)
LEMMA ProbeEnds ==
  ASSUME NEW K, NEW hash, IsHash(hash, K), NEW k, IsTable(k, K), HasRoom(k), NEW x \in K
  PROVE  \E d : Ends(hash, k, x, d)
<1> DEFINE S == {e \in 0..(Len(k) - 1) : k[At(hash, k, x, e)] \in {Empty, x}}
<1>1. hash[x] \in Nat /\ Len(k) \in Nat \ {0}
  BY DEF IsHash, IsTable
<1>2. PICK i \in 1..Len(k) : k[i] = Empty
  BY DEF HasRoom
<1>3. PICK d \in 0..(Len(k) - 1) : 1 + ((hash[x] + d) % Len(k)) = i
  BY <1>1, ProbeReaches
<1>4. d \in S
  BY <1>2, <1>3 DEF At
<1>5. S \subseteq Nat /\ S # {}
  BY <1>1, <1>4
<1> HIDE DEF S
<1>6. PICK m \in S : \A e \in S : m <= e
  BY <1>5, LeastNumber
<1> USE DEF S
<1>7. m \in 0..(Len(k) - 1) /\ k[At(hash, k, x, m)] \in {Empty, x}
  BY <1>6
<1>8. ASSUME NEW e \in 0..(m - 1)  PROVE k[At(hash, k, x, e)] \notin {Empty, x}
  <2>1. e \in 0..(Len(k) - 1) /\ ~(m <= e)
    BY <1>1, <1>7
  <2> QED  BY <1>6, <2>1
<1> HIDE DEF S
<1> QED  BY <1>7, <1>8 DEF Ends

(* in a slot of the table that is free or the key's.                       *)
LEMMA SlotIs ==
  ASSUME NEW K, NEW hash, IsHash(hash, K), NEW k, IsTable(k, K), NEW x \in K, NEW d, Ends(hash, k, x, d)
  PROVE  /\ Slot(hash, k, x) \in 1..Len(k) /\ Slot(hash, k, x) = At(hash, k, x, d)
         /\ k[Slot(hash, k, x)] \in {Empty, x}
<1>1. hash[x] \in Nat /\ Len(k) \in Nat \ {0} /\ d \in Nat
  BY DEF IsHash, IsTable, Ends
<1>2. Slot(hash, k, x) = At(hash, k, x, d)
  BY <1>1, SlotOnly
<1>3. At(hash, k, x, d) \in 1..Len(k)
  BY <1>1, AtIs
<1> QED  BY <1>2, <1>3 DEF Ends

(* A probe that ended at its key, or at the slot that x is put in, ends    *)
(* there still when x is put in a free slot.                               *)
LEMMA PutEnds ==
  ASSUME NEW K, NEW hash, IsHash(hash, K), NEW k, IsTable(k, K), NEW i \in 1..Len(k), k[i] = Empty,
         NEW x \in K, NEW y \in K, Empty \notin K, NEW d, Ends(hash, k, y, d),
         \/ k[At(hash, k, y, d)] = y
         \/ y = x /\ At(hash, k, y, d) = i
  PROVE  Ends(hash, [k EXCEPT ![i] = x], y, d)
<1> DEFINE t == [k EXCEPT ![i] = x]
<1>1. /\ k \in Seq(K \cup {Empty}) /\ Len(k) \in Nat \ {0} /\ DOMAIN k = 1..Len(k) /\ hash[y] \in Nat
  BY LenProperties DEF IsTable, IsHash
<1>2. Len(t) = Len(k) /\ t[i] = x /\ \A j \in 1..Len(k) : j # i => t[j] = k[j]
  BY <1>1
<1> HIDE DEF t
<1>3. \A e : At(hash, t, y, e) = At(hash, k, y, e)
  BY <1>2 DEF At
<1>4. d \in 0..(Len(k) - 1) /\ d \in Nat
  BY <1>1 DEF Ends
<1>5. t[At(hash, k, y, d)] \in {Empty, y}
  <2>1. CASE k[At(hash, k, y, d)] = y
    <3>1. At(hash, k, y, d) # i /\ At(hash, k, y, d) \in 1..Len(k)
      BY <1>1, <1>4, <2>1, AtIs
    <3> QED  BY <1>2, <2>1, <3>1
  <2>2. CASE y = x /\ At(hash, k, y, d) = i
    BY <1>2, <2>2
  <2> QED  BY <2>1, <2>2
<1>6. ASSUME NEW e \in 0..(d - 1)  PROVE t[At(hash, k, y, e)] \notin {Empty, y}
  <2>1. k[At(hash, k, y, e)] \notin {Empty, y}
    BY DEF Ends
  <2>2. e \in Nat
    OBVIOUS
  <2>3. At(hash, k, y, e) \in 1..Len(k) /\ At(hash, k, y, e) # i
    BY <1>1, <2>1, <2>2, AtIs
  <2> QED  BY <1>2, <2>1, <2>3
<1> QED  BY <1>2, <1>3, <1>4, <1>5, <1>6 DEF Ends, t

-----------------------------------------------------------------------------
(* Holds without the counts.                                               *)
Keeps(hash, k, keys) ==
  /\ {i \in DOMAIN k : k[i] # Empty} = {Slot(hash, k, x) : x \in keys}
  /\ ToSet(k) \subseteq keys \cup {Empty}
  /\ \A x \in keys : k[Slot(hash, k, x)] = x

(* Fewer keys than slots leave one free.                                   *)
LEMMA FewKeysLeaveRoom ==
  ASSUME NEW K, NEW hash, NEW k, IsTable(k, K), NEW keys, IsFiniteSet(keys), Keeps(hash, k, keys),
         Cardinality(keys) < Len(k)
  PROVE  HasRoom(k)
<1> SUFFICES ASSUME ~HasRoom(k) PROVE FALSE
  OBVIOUS
<1> DEFINE T == {Slot(hash, k, x) : x \in keys}
<1>1. k \in Seq(K \cup {Empty}) /\ Len(k) \in Nat /\ DOMAIN k = 1..Len(k)
  BY LenProperties DEF IsTable
<1>2. 1..Len(k) = T
  BY <1>1 DEF HasRoom, Keeps
<1>3. Cardinality(T) <= Cardinality(keys)
  <2> DEFINE f == [x \in keys |-> Slot(hash, k, x)]
  <2>1. f \in Surjection(keys, T)
    BY Zenon DEF Surjection
  <2> HIDE DEF f, T
  <2> QED  BY <2>1, FS_Surjection
<1> HIDE DEF T
<1>4. Cardinality(1..Len(k)) = Len(k)
  BY <1>1, CountUpTo
<1>5. Cardinality(keys) \in Nat
  BY FS_CardinalityType
<1> QED  BY <1>1, <1>2, <1>3, <1>4, <1>5

(* Putting a key in: a key that is there stays where it is, a new one takes *)
(* the free slot where its probe ends.                                     *)
LEMMA PutKeeps ==
  ASSUME NEW K, Empty \notin K, NEW hash, IsHash(hash, K), NEW k, IsTable(k, K), HasRoom(k),
         NEW keys, keys \subseteq K, Keeps(hash, k, keys), NEW x \in K
  PROVE  /\ IsTable(Put(hash, k, x), K) /\ Len(Put(hash, k, x)) = Len(k)
         /\ Keeps(hash, Put(hash, k, x), keys \cup {x})
         /\ k[Slot(hash, k, x)] = Empty <=> x \notin keys
<1> DEFINE t == Put(hash, k, x)
<1>1. /\ k \in Seq(K \cup {Empty}) /\ Len(k) \in Nat \ {0} /\ DOMAIN k = 1..Len(k)
  BY LenProperties DEF IsTable
<1>2. PICK d : Ends(hash, k, x, d)
  BY ProbeEnds
<1>3. PICK i \in 1..Len(k) : i = Slot(hash, k, x) /\ i = At(hash, k, x, d) /\ k[i] \in {Empty, x}
  BY <1>2, SlotIs
<1>4. t = [k EXCEPT ![i] = x]
  BY <1>3 DEF Put
<1>5. /\ t \in Seq(K \cup {Empty}) /\ Len(t) = Len(k) /\ DOMAIN t = 1..Len(k)
      /\ t[i] = x /\ \A j \in 1..Len(k) : j # i => t[j] = k[j]
  BY <1>1, <1>4
<1>6. IsTable(t, K)
  BY <1>1, <1>5 DEF IsTable
<1>7. CASE k[i] = x
  <2>1. x # Empty /\ x \in ToSet(k)
    BY <1>1, <1>7 DEF ToSet
  <2>2. x \in keys
    BY <2>1 DEF Keeps
  <2>3. t = k
    BY <1>1, <1>4, <1>7
  <2>4. keys \cup {x} = keys
    BY <2>2
  <2> HIDE DEF t
  <2> QED  BY <1>3, <1>5, <1>6, <1>7, <2>1, <2>2, <2>3, <2>4 DEF t
<1>8. CASE k[i] = Empty
  <2>1. x \notin keys
    <3>1. x # Empty
      OBVIOUS
    <3> QED  BY <1>3, <1>8, <3>1 DEF Keeps
  <2> HIDE DEF t
  <2>2. ASSUME NEW y \in keys  PROVE Slot(hash, t, y) = Slot(hash, k, y) /\ t[Slot(hash, t, y)] = y
    <3>1. y \in K /\ k[Slot(hash, k, y)] = y
      BY DEF Keeps
    <3>2. PICK e : Ends(hash, k, y, e)
      BY <3>1, ProbeEnds
    <3>3. Slot(hash, k, y) = At(hash, k, y, e) /\ Slot(hash, k, y) \in 1..Len(k)
      BY <3>1, <3>2, SlotIs
    <3>4. Ends(hash, t, y, e)
      BY <1>4, <1>8, <3>1, <3>2, <3>3, PutEnds
    <3>5. Slot(hash, t, y) = At(hash, t, y, e)
      BY <1>6, <3>1, <3>4, SlotIs
    <3>6. At(hash, t, y, e) = At(hash, k, y, e)
      BY <1>5 DEF At
    <3>7. y # Empty
      BY <3>1
    <3>8. Slot(hash, k, y) # i
      BY <1>8, <3>1, <3>7
    <3> QED  BY <1>5, <3>1, <3>3, <3>5, <3>6, <3>8
  <2>3. Slot(hash, t, x) = i
    <3>1. Ends(hash, t, x, d)
      BY <1>2, <1>3, <1>4, <1>8, PutEnds
    <3>2. Slot(hash, t, x) = At(hash, t, x, d)
      BY <1>6, <3>1, SlotIs
    <3>3. At(hash, t, x, d) = At(hash, k, x, d)
      BY <1>5 DEF At
    <3> QED  BY <1>3, <3>2, <3>3
  <2>4. {j \in DOMAIN t : t[j] # Empty} = {j \in DOMAIN k : k[j] # Empty} \cup {i}
    <3>1. x # Empty
      OBVIOUS
    <3> QED  BY <1>1, <1>5, <3>1
  <2>5. {Slot(hash, t, y) : y \in keys \cup {x}} = {Slot(hash, k, y) : y \in keys} \cup {i}
    BY <2>2, <2>3
  <2>6. ToSet(t) \subseteq keys \cup {x} \cup {Empty}
    <3>1. ToSet(k) \subseteq keys \cup {Empty}
      BY DEF Keeps
    <3>2. ASSUME NEW j \in DOMAIN t  PROVE t[j] \in keys \cup {x} \cup {Empty}
      BY <1>1, <1>5, <3>1 DEF ToSet
    <3> QED  BY <3>2 DEF ToSet
  <2>7. Keeps(hash, t, keys \cup {x})
    <3>1. \A y \in keys \cup {x} : t[Slot(hash, t, y)] = y
      BY <1>5, <2>2, <2>3
    <3>2. {j \in DOMAIN k : k[j] # Empty} = {Slot(hash, k, y) : y \in keys}
      BY DEF Keeps
    <3> QED  BY <2>4, <2>5, <2>6, <3>1, <3>2 DEF Keeps
  <2> QED  BY <1>3, <1>5, <1>6, <1>8, <2>1, <2>7 DEF t
<1> QED  BY <1>3, <1>7, <1>8

(* The keys that the first j slots hold.                                   *)
KeysTo(k, j) == {k[i] : i \in 1..j} \ {Empty}

MovesTo(m, hash, k, slots) ==
  m = [j \in 0..Len(k) |->
         IF j = 0 THEN [i \in 1..slots |-> Empty]
         ELSE IF k[j] = Empty THEN m[j - 1] ELSE Put(hash, m[j - 1], k[j])]

(* Moving to a new table is a loop that has its run.                       *)
LEMMA MovesExist ==
  ASSUME NEW K, NEW hash, NEW k \in Seq(K \cup {Empty}), NEW slots \in Nat
  PROVE  \E m : MovesTo(m, hash, k, slots)
<1> DEFINE V == [1..slots -> K \cup {Empty}]
           first == [i \in 1..slots |-> Empty]
           n == Len(k)
           step == [vj \in V \X (1..n) |->
                      IF k[vj[2]] = Empty THEN vj[1] ELSE Put(hash, vj[1], k[vj[2]])]
<1>1. n \in Nat /\ \A j \in 1..n : k[j] \in K \cup {Empty}
  BY LenProperties
<1>2. first \in V
  OBVIOUS
<1>3. \A v \in V, x \in K : Put(hash, v, x) \in V
  BY DEF Put
<1> HIDE DEF V, first, n
<1>4. step \in [V \X (1..n) -> V]
  BY <1>1, <1>3
<1>5. \A v \in V, j \in 1..n : step[<<v, j>>] = IF k[j] = Empty THEN v ELSE Put(hash, v, k[j])
  OBVIOUS
<1> HIDE DEF step
<1>6. PICK g : Iterates(g, n, V, first, step)
  BY <1>1, <1>2, <1>4, IterationExists
<1>7. /\ g \in [0..n -> V] /\ g[0] = first
      /\ \A j \in 1..n : g[j] = step[<<g[j - 1], j>>]
  BY <1>6 DEF Iterates
<1>8. ASSUME NEW j \in 0..n
      PROVE  g[j] = IF j = 0 THEN first
                    ELSE IF k[j] = Empty THEN g[j - 1] ELSE Put(hash, g[j - 1], k[j])
  <2>1. CASE j = 0
    BY <1>7, <2>1
  <2>2. CASE j # 0
    <3>1. j \in 1..n /\ j - 1 \in 0..n
      BY <1>1, <2>2
    <3>2. g[j - 1] \in V
      BY <1>7, <3>1
    <3> QED  BY <1>5, <1>7, <2>2, <3>1, <3>2
  <2> QED  BY <2>1, <2>2
<1>9. g = [j \in 0..n |-> IF j = 0 THEN first
                          ELSE IF k[j] = Empty THEN g[j - 1] ELSE Put(hash, g[j - 1], k[j])]
  <2>1. g = [j \in 0..n |-> g[j]]
    BY <1>7
  <2> QED  BY <1>8, <2>1
<1> QED  BY <1>9 DEF MovesTo, first, n

(* The new table keeps the keys of the old one.                            *)
LEMMA RehashedIs ==
  ASSUME NEW K, Empty \notin K, NEW hash, IsHash(hash, K), NEW k \in Seq(K \cup {Empty}),
         NEW keys, keys \subseteq K, IsFiniteSet(keys), ToSet(k) \ {Empty} = keys,
         NEW slots \in Nat, slots = (IF k = <<>> THEN First ELSE 2 * Len(k)),
         Cardinality(keys) < slots
  PROVE  /\ IsTable(Rehashed(hash, k), K) /\ Len(Rehashed(hash, k)) = slots
         /\ Keeps(hash, Rehashed(hash, k), keys)
<1> DEFINE n == Len(k)
<1>1. n \in Nat /\ DOMAIN k = 1..n /\ \A j \in 1..n : k[j] \in K \cup {Empty}
  BY LenProperties
<1>2. Rehashed(hash, k) = (CHOOSE m : MovesTo(m, hash, k, slots))[n]
  BY DEF Rehashed, MovesTo
<1>3. PICK m : m = CHOOSE f : MovesTo(f, hash, k, slots)
  OBVIOUS
<1>4. MovesTo(m, hash, k, slots)
  BY <1>3, MovesExist
<1>5. /\ m[0] = [i \in 1..slots |-> Empty]
      /\ \A j \in 1..n : m[j] = IF k[j] = Empty THEN m[j - 1] ELSE Put(hash, m[j - 1], k[j])
  <2>1. m = [j \in 0..n |->
              IF j = 0 THEN [i \in 1..slots |-> Empty]
              ELSE IF k[j] = Empty THEN m[j - 1] ELSE Put(hash, m[j - 1], k[j])]
    BY <1>4 DEF MovesTo
  <2>2. 0 \in 0..n /\ \A j \in 1..n : j \in 0..n /\ j # 0
    BY <1>1
  <2> HIDE DEF n
  <2>3. m[0] = [i \in 1..slots |-> Empty]
    BY <2>1, <2>2, Zenon
  <2>4. ASSUME NEW j \in 1..n
        PROVE  m[j] = IF k[j] = Empty THEN m[j - 1] ELSE Put(hash, m[j - 1], k[j])
    BY <2>1, <2>2, Zenon
  <2> QED  BY <2>3, <2>4
<1>6. Cardinality(keys) \in Nat /\ slots \in Nat \ {0}
  BY FS_CardinalityType
<1> DEFINE Good(j) == IsTable(m[j], K) /\ Len(m[j]) = slots /\ Keeps(hash, m[j], KeysTo(k, j))
<1>7. Good(0)
  <2>1. PICK t : t = m[0]
    OBVIOUS
  <2>2. t \in Seq(K \cup {Empty}) /\ Len(t) = slots /\ DOMAIN t = 1..slots
        /\ \A i \in 1..slots : t[i] = Empty
    BY <1>5, <1>6, <2>1
  <2>3. KeysTo(k, 0) = {}
    BY DEF KeysTo
  <2>4. Keeps(hash, t, {})
    BY <2>2 DEF Keeps, ToSet
  <2> QED  BY <1>6, <2>1, <2>2, <2>3, <2>4 DEF IsTable
<1>8. ASSUME NEW j \in 1..n, Good(j - 1)  PROVE Good(j)
  <2>1. PICK t : t = m[j - 1]
    OBVIOUS
  <2>2. PICK old : old = KeysTo(k, j - 1)
    OBVIOUS
  <2>3. IsTable(t, K) /\ Len(t) = slots /\ Keeps(hash, t, old)
    BY <1>8, <2>1, <2>2
  <2>4. old \subseteq keys
    BY <1>1, <2>2 DEF KeysTo, ToSet
  <2>5. IsFiniteSet(old) /\ Cardinality(old) <= Cardinality(keys) /\ Cardinality(old) \in Nat
    BY <2>4, FS_Subset, FS_CardinalityType
  <2>6. HasRoom(t)
    <3>1. Cardinality(old) < Len(t)
      BY <1>6, <2>3, <2>5
    <3> QED  BY <2>3, <2>5, <3>1, FewKeysLeaveRoom
  <2>7. KeysTo(k, j) = IF k[j] = Empty THEN old ELSE old \cup {k[j]}
    <3>1. 1..j = 1..(j - 1) \cup {j}
      BY <1>1
    <3> QED  BY <2>2, <3>1 DEF KeysTo
  <2>8. CASE k[j] = Empty
    BY <1>5, <2>1, <2>3, <2>7, <2>8
  <2>9. CASE k[j] # Empty
    <3>1. PICK x \in K : x = k[j]
      BY <1>1, <2>9
    <3>2. m[j] = Put(hash, t, x) /\ KeysTo(k, j) = old \cup {x}
      BY <1>5, <2>1, <2>7, <2>9, <3>1
    <3>3. old \subseteq K
      BY <2>4
    <3>4. IsTable(Put(hash, t, x), K) /\ Len(Put(hash, t, x)) = Len(t) /\ Keeps(hash, Put(hash, t, x), old \cup {x})
      <4>1. /\ Empty \notin K /\ IsHash(hash, K) /\ IsTable(t, K) /\ HasRoom(t)
            /\ old \subseteq K /\ Keeps(hash, t, old) /\ x \in K
        BY <2>3, <2>6, <3>3
      <4> HIDE DEF Good, n
      <4> QED  BY <4>1, PutKeeps
    <3> QED  BY <2>3, <3>2, <3>4
  <2> QED  BY <2>8, <2>9
<1> HIDE DEF Good, n
<1>9. Good(n)
  <2> DEFINE Bad == {j \in 0..n : ~Good(j)}
  <2>1. SUFFICES ASSUME Bad # {} PROVE FALSE
    BY <1>1
  <2>2. Bad \subseteq Nat
    BY <1>1
  <2> HIDE DEF Bad
  <2>3. PICK j \in Bad : \A i \in Bad : j <= i
    BY <2>1, <2>2, LeastNumber
  <2> USE DEF Bad
  <2>4. j \in 0..n /\ ~Good(j)
    BY <2>3
  <2>5. j # 0
    BY <1>7, <2>4
  <2>6. j - 1 \in 0..n /\ j \in 1..n /\ ~(j <= j - 1)
    BY <1>1, <2>4, <2>5
  <2>7. Good(j - 1)
    BY <2>3, <2>6
  <2> QED  BY <1>8, <2>4, <2>6, <2>7
<1>10. KeysTo(k, n) = keys
  BY <1>1 DEF KeysTo, ToSet
<1>11. Rehashed(hash, k) = m[n]
  BY <1>2, <1>3
<1> QED  BY <1>9, <1>10, <1>11 DEF Good

(* An inode set as the program makes it: before the first file it has no   *)
(* table.                                                                  *)
SetOf(hash, s, K, keys) ==
  /\ s = [k |-> s.k, n |-> s.n] /\ s.k \in Seq(K \cup {Empty}) /\ Len(s.k) # 1
  /\ keys \subseteq K /\ IsFiniteSet(keys)
  /\ Holds(hash, s, keys)

(* Before a key is added there is room for it in a table that holds all    *)
(* that the set does.                                                      *)
LEMMA RoomyHolds ==
  ASSUME NEW K, Empty \notin K, NEW hash, IsHash(hash, K), NEW s, NEW keys, SetOf(hash, s, K, keys)
  PROVE  /\ IsTable(Roomy(hash, s), K) /\ Len(Roomy(hash, s)) # 1
         /\ Keeps(hash, Roomy(hash, s), keys) /\ HasRoom(Roomy(hash, s))
         /\ 2 * (s.n + 1) <= Len(Roomy(hash, s))
<1> DEFINE t == Roomy(hash, s)
<1>1. PICK k, n : k = s.k /\ n = s.n
  OBVIOUS
<1>2. /\ k \in Seq(K \cup {Empty}) /\ Len(k) \in Nat \ {1} /\ DOMAIN k = 1..Len(k)
      /\ keys \subseteq K /\ IsFiniteSet(keys) /\ n = Cardinality(keys) /\ n \in Nat
      /\ Keeps(hash, k, keys) /\ (keys # {} => 2 * n <= Len(k))
  BY <1>1, LenProperties, FS_CardinalityType DEF SetOf, Holds, Keeps
<1>3. t = IF (n + 1) * 2 > Len(k) THEN Rehashed(hash, k) ELSE k
  BY <1>1 DEF Roomy
<1>4. ToSet(k) \ {Empty} = keys
  <2>1. ASSUME NEW x \in keys  PROVE x \in ToSet(k)
    <3>1. k[Slot(hash, k, x)] = x /\ Slot(hash, k, x) \in DOMAIN k
      BY <1>2 DEF Keeps
    <3> QED  BY <3>1 DEF ToSet
  <2>2. ToSet(k) \subseteq keys \cup {Empty}
    BY <1>2 DEF Keeps
  <2> QED  BY <1>2, <2>1, <2>2
<1>5. keys = {} => n = 0
  BY <1>2, FS_EmptySet
<1>6. CASE (n + 1) * 2 > Len(k)
  <2>1. PICK slots \in Nat : slots = IF k = <<>> THEN First ELSE 2 * Len(k)
    BY <1>2, FirstAssumption
  <2>2. Len(k) = 0 <=> k = <<>>
    BY <1>2
  <2>3. k = <<>> => keys = {}
    BY <1>4 DEF ToSet
  <2>4. 2 * (n + 1) <= slots
    <3>1. CASE k = <<>>
      BY <1>5, <2>1, <2>3, <3>1, FirstAssumption
    <3>2. CASE k # <<>>
      <4>1. slots = 2 * Len(k) /\ Len(k) >= 2
        BY <1>2, <2>1, <2>2, <3>2
      <4>2. 2 * n <= Len(k)
        BY <1>2, <1>5
      <4> QED  BY <1>2, <4>1, <4>2
    <3> QED  BY <3>1, <3>2
  <2>5. Cardinality(keys) < slots
    BY <1>2, <2>1, <2>4
  <2>6. /\ IsTable(Rehashed(hash, k), K) /\ Len(Rehashed(hash, k)) = slots
        /\ Keeps(hash, Rehashed(hash, k), keys)
    BY <1>2, <1>4, <2>1, <2>5, RehashedIs
  <2>7. HasRoom(Rehashed(hash, k))
    BY <1>2, <2>5, <2>6, FewKeysLeaveRoom
  <2>8. t = Rehashed(hash, k)
    BY <1>3, <1>6
  <2>9. slots # 1
    BY <1>2, <2>1, <2>4
  <2> HIDE DEF t
  <2> QED  BY <1>1, <2>4, <2>6, <2>7, <2>8, <2>9 DEF t
<1>7. CASE ~((n + 1) * 2 > Len(k))
  <2>1. t = k /\ 2 * (n + 1) <= Len(k) /\ Len(k) \in Nat \ {0} /\ Cardinality(keys) < Len(k)
    BY <1>2, <1>3, <1>7
  <2>2. IsTable(k, K)
    BY <1>2, <2>1 DEF IsTable
  <2>3. HasRoom(k)
    BY <1>2, <2>1, <2>2, FewKeysLeaveRoom
  <2> HIDE DEF t
  <2> QED  BY <1>1, <1>2, <2>1, <2>2, <2>3 DEF t
<1> QED  BY <1>6, <1>7

(* add(): the key is in the set afterwards, with all that were there, and   *)
(* it says whether it was there before.                                    *)
LEMMA AddedHolds ==
  ASSUME NEW K, Empty \notin K, NEW hash, IsHash(hash, K), NEW s, NEW keys, SetOf(hash, s, K, keys),
         NEW x \in K
  PROVE  /\ SetOf(hash, Added(hash, s, x).set, K, keys \cup {x})
         /\ Added(hash, s, x).new <=> x \notin keys
<1> DEFINE t == Put(hash, Roomy(hash, s), x)
<1>1. PICK k, n : k = Roomy(hash, s) /\ n = s.n
  OBVIOUS
<1>2. /\ IsTable(k, K) /\ Len(k) # 1 /\ Keeps(hash, k, keys) /\ HasRoom(k) /\ 2 * (n + 1) <= Len(k)
  BY <1>1, RoomyHolds
<1>3. keys \subseteq K /\ IsFiniteSet(keys) /\ n = Cardinality(keys) /\ n \in Nat
  BY <1>1, FS_CardinalityType DEF SetOf, Holds
<1>4. /\ IsTable(Put(hash, k, x), K) /\ Len(Put(hash, k, x)) = Len(k)
      /\ Keeps(hash, Put(hash, k, x), keys \cup {x})
      /\ k[Slot(hash, k, x)] = Empty <=> x \notin keys
  BY <1>2, <1>3, PutKeeps
<1>5. /\ Added(hash, s, x).set = [k |-> t, n |-> n + IF k[Slot(hash, k, x)] = Empty THEN 1 ELSE 0]
      /\ Added(hash, s, x).new = (k[Slot(hash, k, x)] = Empty)
  BY <1>1, Zenon DEF Added
<1>6. IsTable(t, K) /\ Len(t) = Len(k) /\ Keeps(hash, t, keys \cup {x})
  BY <1>1, <1>4
<1> HIDE DEF t
<1>7. PICK m : m = n + IF x \notin keys THEN 1 ELSE 0
  OBVIOUS
<1>8. IsFiniteSet(keys \cup {x}) /\ m = Cardinality(keys \cup {x}) /\ m \in Nat /\ m <= n + 1
  <2>1. CASE x \in keys
    <3>1. keys \cup {x} = keys
      BY <2>1
    <3>2. m = n + 0
      BY <1>7, <2>1
    <3>3. m = n
      BY <1>3, <3>2
    <3> QED  BY <1>3, <3>1, <3>3
  <2>2. CASE x \notin keys
    BY <1>3, <1>7, <2>2, FS_AddElement
  <2> QED  BY <2>1, <2>2
<1>9. 2 * m <= Len(t)
  <2>1. Len(t) \in Nat
    BY <1>6 DEF IsTable
  <2> QED  BY <1>2, <1>3, <1>6, <1>8, <2>1
<1>10. Added(hash, s, x).set = [k |-> t, n |-> m] /\ (Added(hash, s, x).new <=> x \notin keys)
  <2>1. Added(hash, s, x).new <=> x \notin keys
    BY <1>4, <1>5, Zenon
  <2>2. (IF k[Slot(hash, k, x)] = Empty THEN 1 ELSE 0) = (IF x \notin keys THEN 1 ELSE 0)
    BY <1>4, Zenon
  <2>3. Added(hash, s, x).set = [k |-> t, n |-> m]
    BY <1>5, <1>7, <2>2, Zenon
  <2> QED  BY <2>1, <2>3
<1>11. PICK u : u = [k |-> t, n |-> m]
  OBVIOUS
<1>12. u.k = t /\ u.n = m /\ u = [k |-> u.k, n |-> u.n]
  BY <1>11
<1>13. Holds(hash, u, keys \cup {x})
  BY <1>6, <1>8, <1>9, <1>12 DEF Holds, Keeps
<1>14. SetOf(hash, u, K, keys \cup {x})
  <2>1. t \in Seq(K \cup {Empty}) /\ Len(t) # 1
    BY <1>2, <1>6 DEF IsTable
  <2>2. keys \cup {x} \subseteq K
    BY <1>3
  <2> QED  BY <1>8, <1>12, <1>13, <2>1, <2>2 DEF SetOf
<1> QED  BY <1>10, <1>11, <1>14

(* The set that a run starts with.                                         *)
LEMMA NoInodesHold ==
  ASSUME NEW K, NEW hash
  PROVE  SetOf(hash, NoInodes, K, {})
<1>1. /\ NoInodes.k = <<>> /\ NoInodes.n = 0 /\ DOMAIN <<>> = {} /\ Len(<<>>) = 0
      /\ NoInodes = [k |-> NoInodes.k, n |-> NoInodes.n]
  BY DEF NoInodes
<1>2. IsFiniteSet({}) /\ Cardinality({}) = 0
  BY FS_EmptySet
<1>3. Holds(hash, NoInodes, {})
  BY <1>1, <1>2 DEF Holds, ToSet
<1> QED  BY <1>1, <1>2, <1>3 DEF SetOf

-----------------------------------------------------------------------------
(* The inode set and the order of the files, for any volume.               *)
Inodes == DOMAIN vol.node
VolInv ==
  /\ IsFiniteSet(Inodes) /\ Inodes \subseteq Nat \ {0}
  /\ vol = [root |-> vol.root, typed |-> vol.typed, node |-> vol.node]
  /\ vol.node \in [Inodes -> [type : {"dir", "reg", "other"}, size : Nat,
                              ents : Seq(Inodes \cup {Dot, Gone})]]
  /\ vol.root \in Dirs
  /\ \A i \in Inodes : h[i] \in Nat

(* What the stack, the list and the files read are made of.                *)
Positions == [ino : Dirs, at : Nat]
Entries == [ino : Regulars, size : Nat]
InFile == pc \in {"open", "hf_open", "buf", "read", "deliver", "stream"}

StackInv ==
  /\ stack \in Seq(Positions)
  /\ pc = "dir" \/ (InFile /\ Method = "vfs") => stack # <<>>
  /\ pc = "dir" => Method \in {"vfs", "handle"}
  /\ pc \in {"bulk", "names"} => Method = "bulkstat"
  /\ pc = "list" => Method # "vfs"

InEnds(i) == \E e \in ToSet(ends) : e.ino = i
FileInv ==
  /\ list \in Seq(Entries)
  /\ cursor \in Nat
  /\ cur.ino \in Regulars \cup {0} /\ (InFile => cur.ino \in Regulars)
  /\ \A e \in ToSet(ends) : e.ino \in Regulars
  /\ ~InFile /\ pc # "died" => cur.ino = 0 \/ InEnds(cur.ino)
  /\ pc \in {"main", "bulk", "names"} => list = <<>> \/ Method = "bulkstat"
  /\ pc \in {"main", "bulk", "names"} \/ (pc = "dir" /\ Method = "handle") => ends = <<>> /\ cur.ino = 0

(* The files that were met are in the set,                                 *)
Walks == opt.pos # <<>> /\ Method \in {"vfs", "handle"}
SeenInv == Walks => SetOf(h, ctx.seen, Inodes, Met)

(* and what was read, what is read and what will be are in inode order.    *)
Ascend(s) == \A j, k \in 1..Len(s) : j < k => s[j].ino < s[k].ino
AllBelow(s, n) == \A e \in ToSet(s) : e.ino < n
BelowAll(n, s) == \A e \in ToSet(s) : n < e.ino
Distinct(s) == \A j, k \in 1..Len(s) : j < k => s[j].ino # s[k].ino
Fresh == pc \in {"open", "hf_open", "buf", "read"} \/ (pc = "deliver" /\ ~cur.ended)
OrderInv ==
  opt.pos # <<>> /\ Method \in {"handle", "bulkstat"} =>
    /\ Ascend(ends)
    /\ pc = "main" => list = <<>>
    /\ pc = "dir" => Distinct(list)
    /\ pc \in {"bulk", "names"} => Ascend(list) /\ AllBelow(list, cursor)
    /\ pc = "list" \/ InFile => 
         /\ Ascend(list) /\ BelowAll(cur.ino, list)
         /\ \A e \in ToSet(ends) : BelowAll(e.ino, list)
    /\ Fresh => AllBelow(ends, cur.ino)

IInv == WInv /\ VolInv /\ StackInv /\ FileInv /\ SeenInv /\ OrderInv

(* What a change of the volume leaves as it is.                            *)
SameInodes == Inodes' = Inodes /\ Regulars' = Regulars /\ Dirs' = Dirs

(* The steps of the program do not change the volume.                      *)
LEMMA StepKeepsVolume ==
  ASSUME VolInv, vol' = vol, h' = h
  PROVE  VolInv' /\ SameInodes
BY DEF VolInv, SameInodes, Inodes, Regulars, Dirs, Inode

(* A node of the volume, and the volume with another in its place.         *)
LEMMA NodeStep ==
  ASSUME VolInv, h' = h, NEW i \in Inodes, NEW node, node.type = Inode(i).type,
         node \in [type : {"dir", "reg", "other"}, size : Nat, ents : Seq(Inodes \cup {Dot, Gone})],
         vol' = [vol EXCEPT !.node = [vol.node EXCEPT ![i] = node]]
  PROVE  VolInv' /\ SameInodes
<1>1. /\ vol'.node = [vol.node EXCEPT ![i] = node] /\ vol'.root = vol.root
      /\ vol' = [root |-> vol'.root, typed |-> vol'.typed, node |-> vol'.node]
  BY DEF VolInv
<1>2. DOMAIN vol'.node = Inodes /\ Inodes' = Inodes
  BY <1>1 DEF Inodes
<1>3. \A j \in Inodes : vol'.node[j] = IF j = i THEN node ELSE vol.node[j]
  BY <1>1 DEF Inodes
<1>4. \A j \in Inodes : vol'.node[j].type = vol.node[j].type
  BY <1>3 DEF Inode
<1>5. SameInodes
  BY <1>2, <1>4 DEF SameInodes, Regulars, Dirs, Inode, Inodes
<1>6. vol'.node \in [Inodes -> [type : {"dir", "reg", "other"}, size : Nat,
                                ents : Seq(Inodes \cup {Dot, Gone})]]
  BY <1>1, <1>2, <1>3 DEF VolInv
<1> QED  BY <1>1, <1>2, <1>5, <1>6 DEF VolInv, SameInodes

(* A file changes its size.                                                *)
LEMMA ResizeKeeps ==
  ASSUME VolInv, NEW i \in Regulars, NEW size \in 0..(BufSz + ChunkLen), Resize(i, size)
  PROVE  VolInv' /\ SameInodes
<1>1. i \in Inodes /\ size \in Nat /\ h' = h /\ vol' = [vol EXCEPT !.node[i].size = size]
  BY WalkAssumption DEF Resize, Regulars, Inodes
<1>2. vol.node[i] \in [type : {"dir", "reg", "other"}, size : Nat, ents : Seq(Inodes \cup {Dot, Gone})]
  BY <1>1 DEF VolInv
<1> DEFINE node == [vol.node[i] EXCEPT !.size = size]
<1>3. vol' = [vol EXCEPT !.node = [vol.node EXCEPT ![i] = node]]
  BY <1>1
<1>4. /\ node.type = Inode(i).type
      /\ node \in [type : {"dir", "reg", "other"}, size : Nat, ents : Seq(Inodes \cup {Dot, Gone})]
  BY <1>1, <1>2 DEF Inode
<1> HIDE DEF node
<1> QED  BY <1>1, <1>3, <1>4, NodeStep

(* A name is removed.                                                      *)
LEMMA UnlinkKeeps ==
  ASSUME VolInv, NEW i \in Regulars, NEW n \in Names(i), Unlink(n)
  PROVE  VolInv' /\ SameInodes
<1>1. PICK d \in Dirs : n[1] = d /\ n[2] \in DOMAIN Inode(d).ents
  BY DEF Names
<1>2. d \in Inodes /\ h' = h /\ vol' = [vol EXCEPT !.node[d].ents[n[2]] = Gone]
  BY <1>1 DEF Unlink, Dirs, Inodes
<1>3. vol.node[d] \in [type : {"dir", "reg", "other"}, size : Nat, ents : Seq(Inodes \cup {Dot, Gone})]
  BY <1>2 DEF VolInv
<1> DEFINE ents == [vol.node[d].ents EXCEPT ![n[2]] = Gone]
           node == [vol.node[d] EXCEPT !.ents = ents]
<1>4. ents \in Seq(Inodes \cup {Dot, Gone})
  BY <1>1, <1>3 DEF Inode
<1>5. vol' = [vol EXCEPT !.node = [vol.node EXCEPT ![d] = node]]
  BY <1>2
<1> HIDE DEF ents
<1>6. /\ node.type = Inode(d).type
      /\ node \in [type : {"dir", "reg", "other"}, size : Nat, ents : Seq(Inodes \cup {Dot, Gone})]
  BY <1>2, <1>3, <1>4 DEF Inode
<1> HIDE DEF node
<1> QED  BY <1>2, <1>5, <1>6, NodeStep

(* The volume is one at all times, with the same files and directories.    *)
LEMMA VolumeStep ==
  ASSUME VolInv, [Next]_vars
  PROVE  VolInv' /\ SameInodes /\ h' = h /\ opt' = opt
<1>1. CASE Step
  <2>1. vol' = vol /\ h' = h /\ opt' = opt
    BY <1>1 DEF Step, Main, Entry, DirEnds, OpenByName, BulkStat, BulkDir, OpenByHandle, HfOpen,
       HbBuf, ReadSome, ReadNothing, Deliver, FileRead, Finish, WriteDigest
  <2> QED  BY <2>1, StepKeepsVolume
<1>2. CASE World
  BY <1>2, ResizeKeeps, UnlinkKeeps, StepKeepsVolume DEF World, Resize, Unlink, Fails
<1>3. CASE Exited \/ UNCHANGED vars
  BY <1>3, StepKeepsVolume DEF Exited, vars
<1> QED  BY <1>1, <1>2, <1>3 DEF Next

-----------------------------------------------------------------------------
RInv == StackInv /\ FileInv /\ SeenInv /\ OrderInv

(* The top of a stack and what is below it.                                *)
LEMMA TopIs ==
  ASSUME NEW T, NEW s \in Seq(T), s # <<>>
  PROVE  Last(s) \in T /\ Front(s) \in Seq(T) /\ (Len(s) > 1 => Front(s) # <<>>)
<1>1. Len(s) \in Nat \ {0}
  BY EmptySeq, LenProperties
<1>2. Last(s) \in T
  BY <1>1, ElementOfSeq DEF Last
<1>3. Front(s) = SubSeq(s, 1, Len(s) - 1)
  BY DEF Front
<1>4. /\ Front(s) \in Seq(T) /\ Len(Front(s)) = Len(s) - 1
  <2>1. PICK n \in Nat : n = Len(s) - 1
    BY <1>1
  <2>2. n <= Len(s) /\ 1 \in 1..(Len(s) + 1)
    BY <1>1, <2>1
  <2>3. \A i \in 1..n : s[i] \in T
    BY <1>1, <2>1, ElementOfSeq
  <2> QED  BY <1>1, <1>3, <2>1, <2>2, <2>3, SubSeqProperties
<1>5. Len(s) > 1 => Len(Front(s)) # 0
  BY <1>1, <1>4
<1> QED  BY <1>2, <1>4, <1>5

InosOf(s) == {s[k].ino : k \in 1..Len(s)}
(* The inodes of a list.                                                   *)
LEMMA InosAre ==
  ASSUME NEW T, NEW s \in Seq(T)
  PROVE  ToSet([k \in DOMAIN s |-> s[k].ino]) = InosOf(s)
BY LenProperties DEF ToSet, InosOf

(* The files that were met, in the terms of the list.                      *)
LEMMA MetIs ==
  ASSUME FileInv
  PROVE  Met = InosOf(list) \cup {e.ino : e \in ToSet(ends)} \cup ({cur.ino} \ {0})
BY InosAre DEF FileInv, Met

(* Steps that leave the list and the files alone,                          *)
LEMMA QuietFiles ==
  ASSUME IInv, SameInodes, h' = h, opt' = opt, list' = list, cursor' = cursor,
         cur'.ino = cur.ino, ends' = ends, ctx'.seen = ctx.seen,
         \/ pc' = pc /\ cur'.ended = cur.ended
         \/ pc' \in {"flush", "done", "digest", "usage", "header"} /\ ~InFile /\ pc # "died"
         \/ pc' = "died"
         \/ InFile /\ InFile' /\ (Fresh' => Fresh)
  PROVE  FileInv' /\ SeenInv' /\ OrderInv'
<1>1. FileInv'
  BY DEF IInv, FileInv, SameInodes, Entries, InFile, Method, InEnds
<1>2. Met' = Met
  BY DEF Met
<1>3. SeenInv'
  BY <1>2 DEF IInv, SeenInv, Walks, Method, SameInodes
<1>4. OrderInv'
  BY DEF IInv, OrderInv, Ascend, AllBelow, BelowAll, Distinct, InFile, Method, Fresh
<1> QED  BY <1>1, <1>3, <1>4

(* and the walk too.                                                       *)
LEMMA Quiet ==
  ASSUME IInv, SameInodes, h' = h, opt' = opt, stack' = stack, list' = list, cursor' = cursor,
         cur'.ino = cur.ino, ends' = ends, ctx'.seen = ctx.seen,
         \/ pc' = pc /\ cur'.ended = cur.ended
         \/ pc' \in {"flush", "done", "digest", "usage", "header"} /\ ~InFile /\ pc # "died"
         \/ pc' = "died"
         \/ InFile /\ InFile' /\ (Fresh' => Fresh)
  PROVE  RInv'
<1>1. StackInv'
  BY DEF IInv, StackInv, SameInodes, Positions, InFile, Method
<1> QED  BY <1>1, QuietFiles DEF RInv

(* Neither a record nor a flush changes the inode set.                     *)
LEMMA SeenStays ==
  ASSUME NEW c, c = CtxOf(c)
  PROVE  Record(c).seen = c.seen /\ Flushed(c).seen = c.seen /\ Delivered(c).seen = c.seen
<1>1. Record(c).seen = c.seen /\ Flushed(c).seen = c.seen
  BY DEF Record, Flushed, CtxOf
<1> DEFINE used == IF Batch THEN [c EXCEPT !.fill = @ + cur.got] ELSE c
<1>2. used.seen = c.seen /\ used = CtxOf(used)
  BY DEF CtxOf
<1>3. Delivered(c) \in {used, [used EXCEPT !.done = Append(@, Found(cur.ino, cur.size))], Record(used)}
  BY DEF Delivered
<1> HIDE DEF used
<1>4. Delivered(c).seen = used.seen
  BY <1>2, <1>3 DEF Record, CtxOf
<1> QED  BY <1>1, <1>2, <1>4

(* The read loop up to the end of a file, and the end of the run.          *)
LEMMA QuietSteps ==
  ASSUME IInv, SameInodes, h' = h, opt' = opt,
         OpenByName \/ HfOpen \/ HbBuf \/ ReadSome \/ Deliver \/ Finish \/ WriteDigest
  PROVE  RInv'
<1>1. ctx = CtxOf(ctx) /\ Shapes /\ (pc # "died" => CurInv)
  BY DEF IInv, WInv, Shapes, CtxOf
<1>2. [ctx EXCEPT !.opened = @ + 1] = CtxOf([ctx EXCEPT !.opened = @ + 1])
      /\ [ctx EXCEPT !.opened = @ + 1].seen = ctx.seen
  BY <1>1 DEF CtxOf
<1>3. CASE OpenByName
  BY <1>3, Quiet DEF OpenByName, Die, InFile, Fresh
<1>4. CASE HfOpen
  <2>1. ctx'.seen = ctx.seen
    BY <1>1, <1>2, <1>4, SeenStays DEF HfOpen
  <2> QED  BY <1>4, <2>1, Quiet DEF HfOpen, InFile, Fresh
<1>5. CASE HbBuf
  <2>1. ctx'.seen = ctx.seen
    BY <1>1, <1>5, SeenStays DEF HbBuf
  <2> QED  BY <1>5, <2>1, Quiet DEF HbBuf, InFile, Fresh
<1>6. CASE ReadSome
  <2>1. PICK n : cur' = [cur EXCEPT !.got = @ + n]
    BY <1>6 DEF ReadSome
  <2>2. cur'.ino = cur.ino /\ pc = "read" /\ pc' \in {"read", "deliver"} /\ ctx' = ctx
        /\ stack' = stack /\ list' = list /\ cursor' = cursor /\ ends' = ends
    BY <1>1, <1>6, <2>1 DEF ReadSome, Shapes
  <2>3. InFile /\ InFile' /\ Fresh
    BY <2>2 DEF InFile, Fresh
  <2> QED  BY <2>2, <2>3, Quiet
<1>7. CASE Deliver
  <2>1. /\ ctx'.seen = ctx.seen /\ pc = "deliver" /\ pc' \in {"died", "stream", "buf"}
        /\ stack' = stack /\ list' = list /\ cursor' = cursor /\ ends' = ends
    BY <1>1, <1>7, SeenStays DEF Deliver, Die
  <2>2. cur'.ino = cur.ino /\ (pc' = "buf" => ~cur.ended)
    BY <1>1, <1>7 DEF Deliver, Shapes, Die
  <2>3. InFile /\ (pc' # "died" => InFile') /\ (Fresh' => Fresh)
    BY <2>1, <2>2 DEF InFile, Fresh
  <2> QED  BY <2>1, <2>2, <2>3, Quiet
<1>8. CASE Finish
  <2>1. /\ ctx'.seen = ctx.seen /\ pc = "flush" /\ pc' \in {"died", "done", "digest"}
        /\ stack' = stack /\ list' = list /\ cursor' = cursor /\ ends' = ends /\ cur' = cur
    BY <1>1, <1>8, SeenStays DEF Finish, Die
  <2> QED  BY <2>1, Quiet DEF InFile
<1>9. CASE WriteDigest
  BY <1>9, Quiet DEF WriteDigest, InFile
<1> QED  BY <1>3, <1>4, <1>5, <1>6, <1>7, <1>8, <1>9

(* A change of the volume, a call that fails, the end.                     *)
LEMMA QuietWorld ==
  ASSUME IInv, SameInodes, h' = h, opt' = opt, World \/ Exited \/ UNCHANGED vars
  PROVE  RInv'
<1>1. /\ stack' = stack /\ list' = list /\ cursor' = cursor /\ ends' = ends /\ cur' = cur
      /\ ctx' = ctx /\ pc' \in {pc, "died"}
  BY DEF World, Resize, Unlink, Fails, Die, Exited, vars
<1> QED  BY <1>1, Quiet

(* Nothing is known when the program starts.                               *)
LEMMA StartInv == Init => VolInv /\ RInv
<1> SUFFICES ASSUME Init PROVE VolInv /\ RInv
  OBVIOUS
<1>1. IsVolume(vol) /\ \A i \in DOMAIN vol.node : h[i] \in Nat
  BY WalkAssumption DEF Init
<1>2. VolInv
  BY <1>1 DEF IsVolume, VolInv, Inodes, Dirs, Inode
<1>3. StackInv
  BY DEF Init, StackInv, InFile
<1>4. FileInv
  BY DEF Init, FileInv, InFile, NoFile, ToSet
<1>5. Met = {}
  BY <1>4, MetIs DEF Init, NoFile, InosOf, ToSet
<1>6. SeenInv
  BY <1>5, NoInodesHold DEF Init, SeenInv
<1>7. OrderInv
  BY DEF Init, OrderInv, Ascend, InFile, Fresh
<1> QED  BY <1>2, <1>3, <1>4, <1>6, <1>7 DEF RInv

(* The method starts.                                                      *)
LEMMA StartStep == ASSUME IInv, SameInodes, h' = h, opt' = opt, Main  PROVE RInv'
<1>1. /\ list' = list /\ cursor' = cursor /\ ends' = ends /\ cur' = cur /\ ctx' = ctx
      /\ pc = "main" /\ pc' \in {"header", "usage", "dir", "bulk", "died"}
  BY DEF Main, Die
<1>2. CASE pc' = "dir"
  <2>1. stack' = <<[ino |-> vol.root, at |-> 1]>> /\ Method \in {"vfs", "handle"}
    BY <1>2 DEF Main, Die
  <2>2. StackInv'
    BY <1>2, <2>1 DEF IInv, VolInv, StackInv, SameInodes, Positions, InFile, Method
  <2>3. FileInv'
    BY <1>1, <1>2 DEF IInv, FileInv, SameInodes, Entries, InFile, Method, InEnds
  <2>4. SeenInv'
    BY <1>1 DEF IInv, SeenInv, Walks, Method, SameInodes, Met
  <2>5. OrderInv'
    BY <1>1, <1>2 DEF IInv, FileInv, OrderInv, Ascend, Distinct, InFile, Method, Fresh
  <2> QED  BY <2>2, <2>3, <2>4, <2>5 DEF RInv
<1>3. CASE pc' = "bulk"
  <2>1. stack' = stack /\ Method = "bulkstat"
    BY <1>3 DEF Main, Die
  <2>2. StackInv'
    BY <1>3, <2>1 DEF IInv, StackInv, SameInodes, Positions, InFile, Method
  <2>3. FileInv'
    BY <1>1, <1>3, <2>1 DEF IInv, FileInv, SameInodes, Entries, InFile, Method, InEnds
  <2>4. SeenInv'
    BY <1>1 DEF IInv, SeenInv, Walks, Method, SameInodes, Met
  <2>5. OrderInv'
    BY <1>1, <1>3 DEF IInv, FileInv, OrderInv, Ascend, AllBelow, InFile, Method, Fresh, ToSet
  <2> QED  BY <2>2, <2>3, <2>4, <2>5 DEF RInv
<1>4. CASE pc' \in {"header", "usage", "died"}
  <2>1. stack' = stack
    BY <1>4 DEF Main, Die
  <2> QED  BY <1>1, <1>4, <2>1, Quiet DEF InFile
<1> QED  BY <1>1, <1>2, <1>3, <1>4

(* The next entry of the directory on top, and the stack behind it.        *)
LEMMA EntryIs ==
  ASSUME IInv, pc = "dir", Top.at \in DOMAIN Inode(Top.ino).ents
  PROVE  /\ Inode(Top.ino).ents[Top.at] \in Inodes \cup {Dot, Gone}
         /\ Advanced \in Seq(Positions) /\ Advanced # <<>>
<1>1. stack \in Seq(Positions) /\ stack # <<>>
  BY DEF IInv, StackInv
<1>2. Top \in Positions /\ Front(stack) \in Seq(Positions)
  BY <1>1, TopIs DEF Top
<1>3. Top.ino \in Inodes
  BY <1>2 DEF Positions, Dirs, Inodes
<1>4. Inode(Top.ino).ents \in Seq(Inodes \cup {Dot, Gone})
  BY <1>3 DEF IInv, VolInv, Inode
<1>5. Inode(Top.ino).ents[Top.at] \in Inodes \cup {Dot, Gone}
  BY <1>4
<1>6. [Top EXCEPT !.at = @ + 1] \in Positions
  BY <1>2 DEF Positions
<1>7. Advanced \in Seq(Positions) /\ Len(Advanced) = Len(Front(stack)) + 1
  BY <1>2, <1>6, AppendProperties DEF Advanced
<1>8. Advanced # <<>>
  BY <1>2, <1>7
<1> QED  BY <1>5, <1>7, <1>8

(* A directory is entered, or an entry is passed by.                       *)
LEMMA WalkOn ==
  ASSUME IInv, SameInodes, h' = h, opt' = opt, pc = "dir",
         pc' = pc, list' = list, cursor' = cursor, cur' = cur, ends' = ends, ctx'.seen = ctx.seen,
         stack' \in Seq(Positions), stack' # <<>>
  PROVE  RInv'
<1>1. StackInv'
  BY DEF IInv, StackInv, SameInodes, Positions, InFile, Method
<1> QED  BY <1>1, QuietFiles DEF RInv

(* The files of a list that got one more.                                  *)
LEMMA InosOfAppend ==
  ASSUME NEW T, NEW s \in Seq(T), NEW x
  PROVE  InosOf(Append(s, x)) = InosOf(s) \cup {x.ino}
<1> DEFINE t == Append(s, x)
           n == Len(s)
<1>1. n \in Nat /\ Len(t) = n + 1 /\ t[n + 1] = x /\ \A k \in 1..n : t[k] = s[k]
  <2>1. s \in Seq(T \cup {x})
    BY SeqMonotonic
  <2> QED  BY <2>1, AppendProperties
<1> HIDE DEF t, n
<1>2. {t[k].ino : k \in 1..(n + 1)} = {s[k].ino : k \in 1..n} \cup {x.ino}
  BY <1>1
<1> QED  BY <1>1, <1>2 DEF InosOf, n, t

(* A file is met: a new one for the inode set exactly if no name of it     *)
(* came before.                                                            *)
LEMMA MeetStep ==
  ASSUME IInv, SameInodes, h' = h, opt' = opt, pc = "dir", NEW i \in Regulars, Meet(i),
         Advanced \in Seq(Positions), Advanced # <<>>, cursor' = cursor, ends' = ends
  PROVE  RInv'
<1> DEFINE add == Added(h, ctx.seen, i)
<1>1. /\ stack' = Advanced /\ ctx'.seen = add.set
      /\ IF ~add.new THEN UNCHANGED <<list, cur, pc>>
         ELSE IF Method = "vfs"
         THEN /\ cur' = [NoFile EXCEPT !.ino = i, !.size = Inode(i).size]
              /\ pc' = "open" /\ list' = list
         ELSE list' = Append(list, Found(i, 0)) /\ UNCHANGED <<cur, pc>>
  <2>1. ctx = CtxOf(ctx)
    BY DEF IInv, WInv, Shapes, CtxOf
  <2>2. ctx' = [ctx EXCEPT !.names = @ + 1, !.seen = add.set]
    BY DEF Meet
  <2>3. ctx'.seen = add.set
    <3> HIDE DEF add
    <3> QED  BY <2>1, <2>2 DEF CtxOf
  <2> QED  BY <2>3 DEF Meet
<1>2. /\ FileInv /\ StackInv /\ SeenInv /\ OrderInv /\ VolInv /\ Method \in {"vfs", "handle"}
      /\ cur.ino = 0 \/ InEnds(cur.ino)
      /\ i \in Inodes /\ i # 0 /\ i \in Nat
  BY DEF IInv, FileInv, StackInv, VolInv, Regulars, Inodes, InFile
<1> DEFINE E == {e.ino : e \in ToSet(ends)}
<1>3. Met = InosOf(list) \cup E
  BY <1>2, MetIs DEF InEnds
<1>4. Walks => /\ SetOf(h, add.set, Inodes, Met \cup {i})
               /\ add.new <=> i \notin Met
  <2> SUFFICES ASSUME Walks PROVE SetOf(h, add.set, Inodes, Met \cup {i}) /\ (add.new <=> i \notin Met)
    OBVIOUS
  <2>1. SetOf(h, ctx.seen, Inodes, Met)
    BY <1>2 DEF SeenInv
  <2>2. IsHash(h, Inodes) /\ Empty \notin Inodes
    BY <1>2 DEF VolInv, IsHash, Empty
  <2> QED  BY <1>2, <2>1, <2>2, AddedHolds
<1> HIDE DEF add, E
<1>5. StackInv'
  BY <1>1, <1>2 DEF StackInv, SameInodes, Positions, InFile, Method
<1>6. FileInv'
  <2>1. Found(i, 0) \in Entries
    BY DEF Found, Entries
  <2>2. list' \in Seq(Entries)
    BY <1>1, <1>2, <2>1 DEF FileInv
  <2> QED  BY <1>1, <1>2, <2>2 DEF FileInv, SameInodes, Entries, InFile, Method, InEnds, NoFile
<1>7. Walks => Met' = Met \cup {i}
  <2> SUFFICES ASSUME Walks PROVE Met' = Met \cup {i}
    OBVIOUS
  <2>1. Met' = InosOf(list') \cup E \cup ({cur'.ino} \ {0})
    <3>1. list' \in Seq(Entries')
      BY <1>6 DEF FileInv
    <3> QED  BY <1>6, <3>1, InosAre DEF E, Met
  <2>2. CASE ~add.new
    <3>1. Met' = Met /\ i \in Met
      BY <1>1, <1>4, <2>2 DEF Met
    <3> QED  BY <3>1
  <2>3. CASE add.new /\ Method = "vfs"
    <3>1. cur'.ino = i /\ list' = list
      BY <1>1, <2>3 DEF NoFile
    <3> QED  BY <1>2, <1>3, <2>1, <3>1
  <2>4. CASE add.new /\ Method # "vfs"
    <3>1. list' = Append(list, Found(i, 0)) /\ cur' = cur
      BY <1>1, <2>4
    <3>2. InosOf(list') = InosOf(list) \cup {i}
      BY <1>2, <3>1, InosOfAppend DEF FileInv, Found
    <3>3. {cur.ino} \ {0} \subseteq E
      BY <1>2 DEF InEnds, E
    <3> QED  BY <1>3, <2>1, <3>1, <3>2, <3>3
  <2> QED  BY <2>2, <2>3, <2>4
<1>8. SeenInv'
  BY <1>1, <1>4, <1>7 DEF SeenInv, Walks, Method, SameInodes
<1>9. OrderInv'
  <2> SUFFICES ASSUME opt.pos # <<>>, Method = "handle" PROVE OrderInv'
    BY <1>2 DEF OrderInv, Method
  <2>1. CASE ~add.new
    BY <1>1, <1>2, <2>1 DEF OrderInv, Ascend, Distinct, InFile, Fresh, Method
  <2>2. CASE add.new
    <3>1. list' = Append(list, Found(i, 0)) /\ cur' = cur /\ pc' = pc
      BY <1>1, <2>2
    <3>2. i \notin Met /\ Distinct(list) /\ Ascend(ends)
      BY <1>2, <1>4, <2>2 DEF OrderInv, Walks
    <3>3. PICK n \in Nat : n = Len(list)
      BY <1>2 DEF FileInv
    <3>4. Len(list') = n + 1 /\ list'[n + 1].ino = i /\ \A j \in 1..n : list'[j] = list[j]
      BY <1>2, <3>1, <3>3 DEF FileInv, Found
    <3>5. \A j \in 1..n : list[j].ino # i
      BY <1>3, <3>2, <3>3 DEF InosOf
    <3>6. Distinct(list')
      BY <3>2, <3>3, <3>4, <3>5 DEF Distinct
    <3> QED  BY <3>1, <3>2, <3>6 DEF OrderInv, Ascend, InFile, Fresh, Method
  <2> QED  BY <2>1, <2>2
<1> QED  BY <1>5, <1>6, <1>8, <1>9 DEF RInv

(* One entry of a directory.                                               *)
LEMMA EntryKeeps == ASSUME IInv, SameInodes, h' = h, opt' = opt, Entry  PROVE RInv'
<1> DEFINE i == Inode(Top.ino).ents[Top.at]
<1>1. /\ pc = "dir" /\ Top.at \in DOMAIN Inode(Top.ino).ents /\ cursor' = cursor /\ ends' = ends
      /\ ctx = CtxOf(ctx)
  BY DEF Entry, IInv, WInv, Shapes, CtxOf
<1>2. i \in Inodes \cup {Dot, Gone} /\ Advanced \in Seq(Positions) /\ Advanced # <<>>
  BY <1>1, EntryIs
<1>3. CASE i \in {Dot, Gone}
  <2>1. /\ stack' = Advanced /\ ctx' = ctx /\ list' = list /\ cur' = cur /\ pc' = pc
    BY <1>3 DEF Entry
  <2> QED  BY <1>1, <1>2, <2>1, WalkOn
<1>4. CASE i \notin {Dot, Gone} /\ Kind(i) = "dir"
  <2>1. Descend(i)
    BY <1>4 DEF Entry
  <2>2. i \in Dirs
    BY <1>2, <1>4 DEF Kind, Dirs, Inodes
  <2>3. stack' = Append(Advanced, [ino |-> i, at |-> 1]) /\ [ino |-> i, at |-> 1] \in Positions
    BY <2>1, <2>2 DEF Descend, Positions
  <2>4. stack' \in Seq(Positions) /\ stack' # <<>>
    <3> HIDE DEF i
    <3> QED  BY <1>2, <2>3
  <2>5. list' = list /\ cur' = cur /\ pc' = pc /\ ctx'.seen = ctx.seen
    BY <1>1, <2>1 DEF Descend, CtxOf
  <2> QED  BY <1>1, <2>4, <2>5, WalkOn
<1>5. CASE i \notin {Dot, Gone} /\ Kind(i) = "reg"
  <2>1. Meet(i) /\ i \in Regulars
    BY <1>2, <1>5 DEF Entry, Kind, Regulars, Inodes
  <2> HIDE DEF i
  <2> QED  BY <1>1, <1>2, <2>1, MeetStep
<1>6. CASE i \notin {Dot, Gone} /\ Kind(i) \notin {"dir", "reg"}
  <2>1. stack' = Advanced /\ list' = list /\ cur' = cur /\ pc' = pc /\ ctx' = [ctx EXCEPT !.names = @ + 1]
    BY <1>6 DEF Entry
  <2>2. ctx'.seen = ctx.seen
    BY <1>1, <2>1 DEF CtxOf
  <2> QED  BY <1>1, <1>2, <2>1, <2>2, WalkOn
<1> QED  BY <1>3, <1>4, <1>5, <1>6

(* Sorted by keys that differ, each is greater than all before it.         *)
LEMMA SortIsStrict ==
  ASSUME NEW X, NEW a \in Seq(X), NEW key \in [X -> Nat], NEW s, IsSortOf(s, a, key),
         \A i, j \in 1..Len(a) : i < j => key[a[i]] # key[a[j]],
         NEW x \in 1..Len(a), NEW y \in 1..Len(a), x < y
  PROVE  key[s[x]] < key[s[y]]
<1>1. PICK p : SortedTo(s, a, key, p)
  BY DEF IsSortOf
<1> DEFINE n == Len(a)
           k == KeysAt(a, key)
<1>2. /\ AreKeys(k, n) /\ n \in Nat /\ DOMAIN a = 1..n
      /\ \A i \in 1..n : a[i] \in X /\ k[i] = key[a[i]]
  BY KeysAtIs
<1>3. Len(s) = n /\ Arranges(p, n, k) /\ \A i \in 1..n : s[p[i]] = a[i]
  BY <1>1 DEF SortedTo, Puts
<1>4. \A i, j \in 1..n : i < j => k[i] # k[j]
  BY <1>2
<1> HIDE DEF k, n
<1>5. x \in 1..n /\ y \in 1..n
  BY DEF n
<1> Fills(p, n)
  BY <1>2, <1>3, ArrangedFills
<1>6. PICK i \in 1..n : p[i] = x
  BY <1>5 DEF Fills
<1>7. PICK j \in 1..n : p[j] = y
  BY <1>5 DEF Fills
<1>8. Before(k, i, j)
  BY <1>2, <1>3, <1>6, <1>7, ArrangedIsOneToOne
<1>9. k[i] \in Nat /\ k[j] \in Nat
  BY <1>2 DEF AreKeys
<1>10. key[s[x]] = k[i] /\ key[s[y]] = k[j]
  BY <1>2, <1>3, <1>6, <1>7
<1> QED  BY <1>4, <1>8, <1>9, <1>10 DEF Before

(* What the sort by inode makes of a list.                                 *)
LEMMA SortedList ==
  ASSUME VolInv, NEW s \in Seq(Entries), NEW t, t = RadixSorted(s, InoOf(s))
  PROVE  /\ t \in Seq(Entries) /\ InosOf(t) = InosOf(s)
         /\ Distinct(s) => Ascend(t)
<1> DEFINE X == ToSet(s)
           key == InoOf(s)
<1>1. /\ s \in Seq(X) /\ X \subseteq Entries /\ DOMAIN s = 1..Len(s) /\ Len(s) \in Nat
      /\ \A k \in 1..Len(s) : s[k] \in X
  BY LenProperties DEF ToSet
<1>2. key \in [X -> Nat] /\ \A x \in X : key[x] = x.ino
  BY <1>1 DEF InoOf, Entries, VolInv, Regulars, Inodes
<1> HIDE DEF X, key
<1>3. t \in Seq(X) /\ IsSortOf(t, s, key)
  BY <1>1, <1>2, RadixSortedIs DEF key
<1>4. t \in Seq(Entries)
  BY <1>1, <1>3, SeqMonotonic
<1>5. ToSet(t) = ToSet(s)
  BY <1>1, <1>2, <1>3, SortKeepsElements
<1>6. InosOf(t) = InosOf(s)
  <2>1. InosOf(t) = {x.ino : x \in ToSet(t)}
    BY <1>4, LenProperties DEF InosOf, ToSet
  <2>2. InosOf(s) = {x.ino : x \in ToSet(s)}
    BY <1>1 DEF InosOf, ToSet
  <2> QED  BY <1>5, <2>1, <2>2
<1>7. ASSUME Distinct(s)  PROVE Ascend(t)
  <2>1. Len(t) = Len(s) /\ \A k \in 1..Len(t) : t[k] \in X
    BY <1>3, ElementOfSeq DEF IsSortOf, SortedTo
  <2>2. \A i, j \in 1..Len(s) : i < j => key[s[i]] # key[s[j]]
    BY <1>1, <1>2, <1>7 DEF Distinct
  <2>3. ASSUME NEW j \in 1..Len(t), NEW k \in 1..Len(t), j < k
        PROVE  t[j].ino < t[k].ino
    <3>1. key[t[j]] < key[t[k]]
      BY <1>1, <1>2, <1>3, <2>1, <2>2, <2>3, SortIsStrict
    <3> QED  BY <1>2, <2>1, <3>1
  <2> QED  BY <2>3 DEF Ascend
<1> QED  BY <1>4, <1>6, <1>7

(* A directory ends; with the last one handle has its list, and sorts it.  *)
LEMMA DirEndsKeeps == ASSUME IInv, SameInodes, h' = h, opt' = opt, DirEnds  PROVE RInv'
<1>1. /\ pc = "dir" /\ stack' = Front(stack) /\ ctx' = ctx /\ cursor' = cursor /\ cur' = cur
      /\ ends' = ends /\ ~InFile
  BY DEF DirEnds, InFile
<1>2. Method \in {"vfs", "handle"} /\ Front(stack) \in Seq(Positions)
      /\ (Len(stack) > 1 => Front(stack) # <<>>)
  BY <1>1, TopIs DEF IInv, StackInv
<1>3. CASE Len(stack) > 1
  <2>1. pc' = pc /\ list' = list
    BY <1>1, <1>3 DEF DirEnds
  <2> QED  BY <1>1, <1>2, <1>3, <2>1, WalkOn
<1>4. CASE ~(Len(stack) > 1) /\ Method = "vfs"
  <2>1. pc' = "flush" /\ list' = list
    BY <1>4 DEF DirEnds
  <2>2. StackInv'
    BY <1>1, <1>2, <2>1 DEF StackInv, SameInodes, Positions, InFile, Method
  <2> QED  BY <1>1, <2>1, <2>2, QuietFiles DEF RInv
<1>5. CASE ~(Len(stack) > 1) /\ Method = "handle"
  <2>1. pc' = "list" /\ list' = RadixSorted(list, InoOf(list))
    BY <1>5 DEF DirEnds
  <2>2. VolInv /\ FileInv /\ list \in Seq(Entries) /\ ends = <<>> /\ cur.ino = 0
    BY <1>1, <1>5 DEF IInv, FileInv
  <2>3. /\ list' \in Seq(Entries) /\ InosOf(list') = InosOf(list)
        /\ Distinct(list) => Ascend(list')
    BY <2>1, <2>2, SortedList
  <2>4. StackInv'
    BY <1>1, <1>2, <1>5, <2>1 DEF StackInv, SameInodes, Positions, InFile, Method
  <2>5. FileInv'
    BY <1>1, <2>1, <2>2, <2>3 DEF FileInv, SameInodes, Entries, InFile, Method, InEnds
  <2>6. Met' = Met
    BY <1>1, <2>2, <2>3, InosAre DEF Met
  <2>7. SeenInv'
    BY <1>1, <2>6 DEF IInv, SeenInv, Walks, Method, SameInodes
  <2>8. BelowAll(0, list')
    <3>1. \A x \in Entries : 0 < x.ino
      BY <2>2 DEF Entries, Regulars, VolInv, Inodes
    <3>2. \A x \in ToSet(list') : x \in Entries
      BY <2>3, LenProperties, ElementOfSeq DEF ToSet
    <3> QED  BY <3>1, <3>2 DEF BelowAll
  <2>9. OrderInv'
    <3> SUFFICES ASSUME opt.pos # <<>> PROVE OrderInv'
      BY DEF OrderInv
    <3>1. Ascend(ends) /\ Distinct(list) /\ ToSet(ends) = {}
      BY <1>1, <1>5, <2>2 DEF IInv, OrderInv, ToSet
    <3> QED  BY <1>1, <2>1, <2>2, <2>3, <2>8, <3>1 DEF OrderInv, Ascend, BelowAll, InFile, Fresh
  <2> QED  BY <2>4, <2>5, <2>7, <2>9 DEF RInv
<1> QED  BY <1>2, <1>3, <1>4, <1>5

(* The first of a list, and the rest.                                      *)
LEMMA ListSplit ==
  ASSUME NEW s \in Seq(Entries), s # <<>>
  PROVE  /\ Head(s) \in Entries /\ Tail(s) \in Seq(Entries)
         /\ ToSet(Tail(s)) \subseteq ToSet(s) /\ Head(s) \in ToSet(s)
         /\ InosOf(s) = {Head(s).ino} \cup InosOf(Tail(s))
         /\ Ascend(s) => Ascend(Tail(s)) /\ BelowAll(Head(s).ino, Tail(s))
<1>1. PICK n \in Nat : Len(s) = n + 1
  <2>1. Len(s) \in Nat /\ Len(s) # 0
    OBVIOUS
  <2> QED  BY <2>1
<1>2. PICK t : t = Tail(s)
  OBVIOUS
<1>3. /\ t \in Seq(Entries) /\ Len(t) = n /\ \A k \in 1..n : t[k] = s[k + 1]
      /\ Head(s) = s[1] /\ s[1] \in Entries
  BY <1>1, <1>2, HeadTailProperties, ElementOfSeq
<1>4. DOMAIN t = 1..n /\ DOMAIN s = 1..(n + 1)
  BY <1>1, <1>3, LenProperties
<1>5. ToSet(t) \subseteq ToSet(s) /\ s[1] \in ToSet(s)
  BY SMTT(60), <1>3, <1>4 DEF ToSet
<1>6. {s[k].ino : k \in 1..(n + 1)} = {s[1].ino} \cup {t[k].ino : k \in 1..n}
  <2>1. \A k \in 1..(n + 1) : k = 1 \/ (k - 1 \in 1..n /\ t[k - 1] = s[k])
    BY <1>3
  <2>2. \A k \in 1..n : k + 1 \in 1..(n + 1) /\ t[k] = s[k + 1]
    BY <1>3
  <2> QED  BY <2>1, <2>2
<1>7. ASSUME Ascend(s)  PROVE Ascend(t) /\ BelowAll(s[1].ino, t)
  <2>1. \A j, k \in 1..(n + 1) : j < k => s[j].ino < s[k].ino
    BY <1>1, <1>7 DEF Ascend
  <2>2. \A k \in 1..n : k + 1 \in 1..(n + 1) /\ 1 < k + 1 /\ 1 \in 1..(n + 1)
    OBVIOUS
  <2>3. BelowAll(s[1].ino, t)
    BY <1>3, <1>4, <2>1, <2>2 DEF BelowAll, ToSet
  <2>4. ASSUME NEW j \in 1..n, NEW k \in 1..n, j < k  PROVE t[j].ino < t[k].ino
    <3>1. j + 1 < k + 1 /\ j + 1 \in 1..(n + 1) /\ k + 1 \in 1..(n + 1)
      BY <2>4
    <3> QED  BY <1>3, <2>1, <3>1
  <2> QED  BY <1>3, <2>3, <2>4 DEF Ascend
<1>8. InosOf(s) = {s[1].ino} \cup InosOf(t)
  BY <1>1, <1>3, <1>6 DEF InosOf
<1>9. Ascend(s) => Ascend(t) /\ BelowAll(s[1].ino, t)
  BY <1>7
<1> QED  BY <1>2, <1>3, <1>5, <1>8, <1>9, Zenon

(* The next file of the list is opened.                                    *)
LEMMA OpenKeeps == ASSUME IInv, SameInodes, h' = h, opt' = opt, OpenByHandle  PROVE RInv'
<1>1. /\ pc = "list" /\ stack' = stack /\ ctx' = ctx /\ cursor' = cursor /\ ends' = ends /\ ~InFile
  BY DEF OpenByHandle, InFile
<1>2. CASE list = <<>>
  <2>1. pc' = "flush" /\ list' = list /\ cur' = cur
    BY <1>2 DEF OpenByHandle
  <2> QED  BY <1>1, <2>1, Quiet
<1>3. CASE list # <<>>
  <2>1. PICK i : i = Head(list).ino
    OBVIOUS
  <2>2. /\ list' = Tail(list) /\ cur'.ino = i /\ pc' \in {"died", "hf_open"}
    BY <1>3, <2>1 DEF OpenByHandle, Die, NoFile
  <2>3. /\ VolInv /\ FileInv /\ StackInv /\ list \in Seq(Entries)
        /\ cur.ino = 0 \/ InEnds(cur.ino)
    BY <1>1 DEF IInv, FileInv
  <2>4. /\ i \in Regulars /\ i # 0 /\ list' \in Seq(Entries) /\ ToSet(list') \subseteq ToSet(list)
        /\ Head(list) \in ToSet(list) /\ InosOf(list) = {i} \cup InosOf(list')
        /\ Ascend(list) => Ascend(list') /\ BelowAll(i, list')
    BY <1>3, <2>1, <2>2, <2>3, ListSplit DEF Entries, Regulars, VolInv, Inodes
  <2>5. StackInv'
    BY <1>1, <2>2, <2>3 DEF StackInv, SameInodes, Positions, InFile, Method
  <2>6. FileInv'
    BY <1>1, <2>2, <2>3, <2>4 DEF FileInv, SameInodes, Entries, InFile, Method, InEnds
  <2>7. Met' = Met
    <3> DEFINE E == {e.ino : e \in ToSet(ends)}
    <3>1. Met = InosOf(list) \cup E
      BY <2>3, MetIs DEF InEnds
    <3>2. Met' = InosOf(list') \cup E \cup ({i} \ {0})
      <4>1. ToSet([k \in DOMAIN list' |-> list'[k].ino]) = InosOf(list')
        BY <2>4, InosAre
      <4> QED  BY <1>1, <2>2, <4>1 DEF Met
    <3> QED  BY <2>4, <3>1, <3>2
  <2>8. SeenInv'
    BY <1>1, <2>7 DEF IInv, SeenInv, Walks, Method, SameInodes
  <2>9. OrderInv'
    <3> SUFFICES ASSUME opt.pos # <<>>, Method \in {"handle", "bulkstat"} PROVE OrderInv'
      BY DEF OrderInv, Method
    <3>1. Ascend(ends) /\ Ascend(list) /\ \A e \in ToSet(ends) : BelowAll(e.ino, list)
      BY <1>1 DEF IInv, OrderInv
    <3>2. AllBelow(ends, i) /\ \A e \in ToSet(ends) : BelowAll(e.ino, list')
      BY <2>1, <2>4, <3>1 DEF AllBelow, BelowAll
    <3> QED  BY <1>1, <2>2, <2>4, <3>1, <3>2 DEF OrderInv, Ascend, AllBelow, BelowAll, InFile, Fresh
  <2> QED  BY <2>5, <2>6, <2>8, <2>9 DEF RInv
<1> QED  BY <1>2, <1>3

(* A list in inode order, and one more above all of it.                    *)
LEMMA AscendAppend ==
  ASSUME NEW s, IsSeq(s), Ascend(s), NEW x, AllBelow(s, x.ino)
  PROVE  Ascend(Append(s, x))
<1>1. PICK n \in Nat : n = Len(s)
  BY DEF IsSeq
<1>2. /\ s \in Seq(ToSet(s) \cup {x}) /\ DOMAIN s = 1..n
  BY <1>1, LenProperties, SeqMonotonic DEF IsSeq
<1>3. PICK t : t = Append(s, x)
  OBVIOUS
<1>4. Len(t) = n + 1 /\ t[n + 1] = x /\ \A k \in 1..n : t[k] = s[k] /\ s[k].ino < x.ino
  <2>1. \A k \in 1..n : s[k] \in ToSet(s)
    BY <1>2 DEF ToSet
  <2>2. Len(t) = n + 1 /\ t[n + 1] = x /\ \A k \in 1..n : t[k] = s[k]
    BY <1>1, <1>2, <1>3, AppendProperties
  <2> QED  BY <2>1, <2>2 DEF AllBelow
<1>5. \A j, k \in 1..n : j < k => s[j].ino < s[k].ino
  BY <1>1 DEF Ascend
<1>6. ASSUME NEW j \in 1..(n + 1), NEW k \in 1..(n + 1), j < k  PROVE t[j].ino < t[k].ino
  <2>1. CASE k = n + 1
    BY <1>4, <1>6, <2>1
  <2>2. CASE k # n + 1
    BY <1>4, <1>5, <1>6, <2>2
  <2> QED  BY <2>1, <2>2
<1> QED  BY <1>3, <1>4, <1>6 DEF Ascend

(* The end of a file is read.                                              *)
LEMMA EndKeeps == ASSUME IInv, SameInodes, h' = h, opt' = opt, ReadNothing  PROVE RInv'
<1>1. /\ pc = "read" /\ pc' = "deliver" /\ stack' = stack /\ ctx' = ctx /\ cursor' = cursor
      /\ list' = list /\ ends' = Append(ends, Ended) /\ InFile /\ InFile' /\ Fresh
  BY DEF ReadNothing, InFile, Fresh
<1>2. /\ VolInv /\ FileInv /\ StackInv /\ Shapes /\ IsSeq(ends) /\ cur.ino \in Regulars
  BY <1>1 DEF IInv, WInv, Shapes, FileInv
<1>3. cur'.ino = cur.ino /\ cur'.ended = TRUE
  BY <1>2 DEF ReadNothing, Shapes
<1>4. ToSet(ends') = ToSet(ends) \cup {Ended} /\ Ended.ino = cur.ino
  BY <1>1, <1>2, AppendSet DEF Ended
<1>5. StackInv'
  BY <1>1, <1>2 DEF StackInv, SameInodes, Positions, InFile, Method
<1>6. FileInv'
  BY <1>1, <1>2, <1>3, <1>4 DEF FileInv, SameInodes, Entries, InFile, Method
<1>7. Met' = Met
  <2>1. cur.ino # 0
    BY <1>2 DEF VolInv, Regulars, Inodes
  <2>2. {e.ino : e \in ToSet(ends')} = {e.ino : e \in ToSet(ends)} \cup {cur.ino}
    BY <1>4
  <2> QED  BY <1>1, <1>3, <2>1, <2>2 DEF Met
<1>8. SeenInv'
  BY <1>1, <1>7 DEF IInv, SeenInv, Walks, Method, SameInodes
<1>9. OrderInv'
  <2> SUFFICES ASSUME opt.pos # <<>>, Method \in {"handle", "bulkstat"} PROVE OrderInv'
    BY DEF OrderInv, Method
  <2>1. /\ Ascend(ends) /\ Ascend(list) /\ BelowAll(cur.ino, list) /\ AllBelow(ends, cur.ino)
        /\ \A e \in ToSet(ends) : BelowAll(e.ino, list)
    BY <1>1 DEF IInv, OrderInv
  <2>2. Ascend(ends')
    BY <1>1, <1>2, <1>4, <2>1, AscendAppend
  <2>3. \A e \in ToSet(ends') : BelowAll(e.ino, list)
    BY <1>4, <2>1
  <2>4. ~Fresh'
    BY <1>1, <1>3 DEF Fresh
  <2> QED  BY <1>1, <1>3, <2>1, <2>2, <2>3, <2>4 DEF OrderInv, Ascend, BelowAll
<1> QED  BY <1>5, <1>6, <1>8, <1>9 DEF RInv

(* Back in the method.                                                     *)
LEMMA ReadKeeps == ASSUME IInv, SameInodes, h' = h, opt' = opt, FileRead  PROVE RInv'
<1>1. /\ pc = "stream" /\ stack' = stack /\ cursor' = cursor /\ list' = list /\ ends' = ends
      /\ cur' = cur /\ InFile /\ ctx = CtxOf(ctx) /\ WInv /\ CurInv
  BY DEF FileRead, InFile, IInv, WInv, Shapes, CtxOf
<1>2. ctx'.seen = ctx.seen
  BY <1>1, SeenStays DEF FileRead
<1>3. CASE pc' = "died"
  BY <1>1, <1>2, <1>3, Quiet
<1>4. CASE pc' # "died"
  <2>1. pc' = IF Method = "vfs" THEN "dir" ELSE "list"
    BY <1>4 DEF FileRead, Die
  <2>2. InEnds(cur.ino)
    BY <1>1 DEF CurInv, InEnds
  <2>3. StackInv'
    BY <1>1, <2>1 DEF IInv, StackInv, SameInodes, Positions, InFile, Method
  <2>4. FileInv'
    BY <1>1, <2>1, <2>2 DEF IInv, FileInv, SameInodes, Entries, InFile, Method, InEnds
  <2>5. Met' = Met
    BY <1>1 DEF Met
  <2>6. SeenInv'
    BY <1>2, <2>5 DEF IInv, SeenInv, Walks, Method, SameInodes
  <2>7. OrderInv'
    BY <1>1, <2>1 DEF IInv, OrderInv, Ascend, AllBelow, BelowAll, Distinct, InFile, Method, Fresh
  <2> QED  BY <2>3, <2>4, <2>6, <2>7 DEF RInv
<1> QED  BY <1>3, <1>4

(* The directories of bulkstat are only looked at for their names.         *)
LEMMA NamesKeeps == ASSUME IInv, SameInodes, h' = h, opt' = opt, BulkDir  PROVE RInv'
<1>1. /\ pc = "names" /\ stack' = stack /\ cursor' = cursor /\ list' = list /\ ends' = ends
      /\ cur' = cur /\ ~InFile /\ ctx = CtxOf(ctx)
  BY DEF BulkDir, InFile, IInv, WInv, Shapes, CtxOf
<1>2. ctx'.seen = ctx.seen /\ pc' \in {"names", "list"}
  BY <1>1 DEF BulkDir, CtxOf
<1>3. CASE pc' = "names"
  BY <1>1, <1>2, <1>3, Quiet
<1>4. CASE pc' = "list"
  <2>1. Method = "bulkstat" /\ ends = <<>> /\ cur.ino = 0 /\ VolInv /\ list \in Seq(Entries)
    BY <1>1 DEF IInv, StackInv, FileInv
  <2>2. StackInv'
    BY <1>1, <1>4, <2>1 DEF IInv, StackInv, SameInodes, Positions, InFile, Method
  <2>3. FileInv'
    BY <1>1, <1>4, <2>1 DEF IInv, FileInv, SameInodes, Entries, InFile, Method, InEnds
  <2>4. Met' = Met
    BY <1>1 DEF Met
  <2>5. SeenInv'
    BY <1>2, <2>4 DEF IInv, SeenInv, Walks, Method, SameInodes
  <2>6. BelowAll(0, list)
    <3>1. \A x \in Entries : 0 < x.ino
      BY <2>1 DEF Entries, Regulars, VolInv, Inodes
    <3>2. \A x \in ToSet(list) : x \in Entries
      BY <2>1, LenProperties, ElementOfSeq DEF ToSet
    <3> QED  BY <3>1, <3>2 DEF BelowAll
  <2>7. ToSet(ends) = {}
    BY <2>1 DEF ToSet
  <2>8. OrderInv'
    BY <1>1, <1>4, <2>1, <2>6, <2>7 DEF IInv, OrderInv, Ascend, BelowAll, InFile, Method, Fresh
  <2> QED  BY <2>2, <2>3, <2>5, <2>8 DEF RInv
<1> QED  BY <1>2, <1>3, <1>4

(* Inodes in an array: all of them, and the last is the greatest.          *)
LEMMA ArrayIs ==
  ASSUME NEW S, S \subseteq Nat, IsFiniteSet(S), NEW s \in InOrder(S)
  PROVE  /\ s \in Seq(S) /\ DOMAIN s = 1..Len(s)
         /\ \A j, k \in 1..Len(s) : j < k => s[j] < s[k]
         /\ S # {} => Last(s) \in S /\ \A i \in S : i <= Last(s)
<1>1. PICK n \in Nat : n = Cardinality(S)
  BY FS_CardinalityType
<1>2. s \in [1..n -> S] /\ s \in Seq(S) /\ Len(s) = n /\ DOMAIN s = 1..n
      /\ \A j, k \in 1..n : j < k => s[j] < s[k]
  BY <1>1 DEF InOrder
<1>3. ASSUME S # {}  PROVE Last(s) \in S /\ \A i \in S : i <= Last(s)
  <2>1. n # 0
    BY <1>1, <1>3, FS_EmptySet
  <2>2. n \in 1..n /\ Last(s) = s[n]
    BY <1>2, <2>1 DEF Last
  <2>3. \A j, k \in 1..n : s[j] = s[k] => j = k
    <3> SUFFICES ASSUME NEW j \in 1..n, NEW k \in 1..n, s[j] = s[k], j < k PROVE FALSE
      OBVIOUS
    <3>1. s[j] < s[k] /\ s[j] \in Nat /\ s[k] \in Nat
      BY <1>2
    <3> QED  BY <3>1
  <2>4. s \in Injection(1..n, S)
    BY <1>2, <2>3 DEF Injection, IsInjective
  <2>5. Cardinality(1..n) = n /\ IsFiniteSet(1..n)
    BY CountUpTo
  <2>6. s \in Surjection(1..n, S)
    BY <1>1, <2>4, <2>5, FS_Injection
  <2>7. ASSUME NEW i \in S  PROVE i <= s[n]
    <3>1. PICK k \in 1..n : s[k] = i
      BY <2>6 DEF Surjection
    <3>2. k = n \/ k < n
      OBVIOUS
    <3>3. s[k] \in Nat /\ s[n] \in Nat
      BY <1>2, <2>2
    <3> QED  BY <1>2, <2>2, <3>1, <3>2, <3>3
  <2> QED  BY <1>2, <2>2, <2>7
<1> QED  BY <1>2, <1>3

(* The files of the next inodes, behind those of the inodes before.        *)
LEMMA BulkList ==
  ASSUME NEW s \in Seq(Entries), Ascend(s), NEW c \in Nat, AllBelow(s, c), NEW top \in Nat, c <= top,
         NEW u \in Seq(Entries), Ascend(u), \A k \in 1..Len(u) : c <= u[k].ino /\ u[k].ino <= top,
         \A x \in Entries : x.ino \in Nat
  PROVE  s \o u \in Seq(Entries) /\ Ascend(s \o u) /\ AllBelow(s \o u, top + 1)
<1>0. PICK t : t = s \o u
  OBVIOUS
<1> PICK n \in Nat, m \in Nat : n = Len(s) /\ m = Len(u)
  OBVIOUS
<1>1. t = s \o u /\ n = Len(s) /\ m = Len(u)
  BY <1>0
<1>2. /\ t \in Seq(Entries) /\ Len(t) = n + m /\ DOMAIN t = 1..(n + m)
      /\ \A i \in 1..(n + m) : t[i] = IF i <= n THEN s[i] ELSE u[i - n]
  BY <1>1, ConcatProperties, LenProperties
<1>3. \A i \in 1..n : s[i] \in Entries /\ s[i].ino \in Nat /\ s[i].ino < c
  <2>1. \A i \in 1..n : s[i] \in Entries /\ s[i] \in ToSet(s)
    BY <1>1, ElementOfSeq, LenProperties DEF ToSet
  <2> QED  BY <2>1 DEF AllBelow
<1>4. \A i \in 1..m : u[i].ino \in Nat /\ c <= u[i].ino /\ u[i].ino <= top
  BY <1>1, ElementOfSeq
<1>5. ASSUME NEW i \in 1..(n + m)
      PROVE  \/ i \in 1..n /\ t[i] = s[i]
             \/ i - n \in 1..m /\ ~(i <= n) /\ t[i] = u[i - n]
  BY <1>2
<1>6. AllBelow(t, top + 1)
  <2>1. ASSUME NEW i \in 1..(n + m)  PROVE t[i].ino < top + 1
    <3>1. CASE i \in 1..n /\ t[i] = s[i]
      BY <1>3, <3>1
    <3>2. CASE i - n \in 1..m /\ t[i] = u[i - n]
      <4>1. u[i - n].ino \in Nat /\ u[i - n].ino <= top
        BY <1>4, <3>2
      <4> QED  BY <3>2, <4>1
    <3> QED  BY <1>5, <3>1, <3>2
  <2> QED  BY <1>2, <2>1 DEF AllBelow, ToSet
<1>7. ASSUME NEW j \in 1..(n + m), NEW k \in 1..(n + m), j < k  PROVE t[j].ino < t[k].ino
  <2>1. CASE j <= n /\ k <= n
    BY <1>1, <1>5, <1>7, <2>1 DEF Ascend
  <2>2. CASE j <= n /\ ~(k <= n)
    <3>1. t[j] = s[j] /\ j \in 1..n /\ t[k] = u[k - n] /\ k - n \in 1..m
      BY <1>5, <2>2
    <3>2. s[j].ino < c /\ c <= u[k - n].ino /\ s[j].ino \in Nat /\ u[k - n].ino \in Nat
      BY <1>3, <1>4, <3>1
    <3>3. s[j].ino < u[k - n].ino
      BY SMTT(60), <3>2
    <3> QED  BY <3>1, <3>3
  <2>3. CASE ~(j <= n)
    <3>1. t[j] = u[j - n] /\ j - n \in 1..m
      BY <1>5, <2>3
    <3>2. ~(k <= n) /\ j - n < k - n
      BY <1>7, <2>3
    <3>3. t[k] = u[k - n] /\ k - n \in 1..m
      BY <1>5, <3>2
    <3> QED  BY <1>1, <3>1, <3>2, <3>3 DEF Ascend
  <2> QED  BY <2>1, <2>2, <2>3
<1> QED  BY <1>1, <1>2, <1>6, <1>7 DEF Ascend

(* The inodes of a BULKSTAT call are taken into the list.                  *)
LEMMA BulkKeeps == ASSUME IInv, SameInodes, h' = h, opt' = opt, BulkStat  PROVE RInv'
<1>1. /\ pc = "bulk" /\ stack' = stack /\ ends' = ends /\ cur' = cur /\ ctx' = ctx /\ ~InFile
  BY DEF BulkStat, InFile
<1>2. /\ VolInv /\ FileInv /\ Method = "bulkstat" /\ ends = <<>> /\ cur.ino = 0
      /\ list \in Seq(Entries) /\ cursor \in Nat
  BY <1>1 DEF IInv, StackInv, FileInv
<1>3. pc' \in {"bulk", "names"}
  BY <1>1 DEF BulkStat
<1>4. \A x \in Entries : x.ino \in Nat
  BY <1>2 DEF Entries, Regulars, VolInv, Inodes
<1>5. /\ list' \in Seq(Entries) /\ cursor' \in Nat
      /\ Ascend(list) /\ AllBelow(list, cursor) => Ascend(list') /\ AllBelow(list', cursor')
  <2>1. CASE Bulk = {}
    BY <1>2, <2>1 DEF BulkStat
  <2>2. CASE Bulk # {}
    <3> DEFINE F == {i \in Bulk : Wanted(i)}
               added(files) == [k \in DOMAIN files |-> Found(files[k], Inode(files[k]).size)]
    <3>1. PICK all \in InOrder(Bulk), files \in InOrder(F) :
            cursor' = Last(all) + 1 /\ list' = list \o added(files)
      BY <2>2 DEF BulkStat
    <3>2. /\ Bulk \subseteq Inodes /\ Bulk \subseteq Nat /\ IsFiniteSet(Bulk)
          /\ F \subseteq Nat /\ IsFiniteSet(F) /\ F \subseteq Regulars
          /\ \A i \in Bulk : cursor <= i
      <4>1. Bulk \subseteq Inodes /\ Inodes \subseteq Nat /\ IsFiniteSet(Inodes)
        BY <1>2 DEF Bulk, Inodes, VolInv
      <4>2. \A i \in Bulk : i >= cursor
        BY DEF Bulk
      <4>3. IsFiniteSet(Bulk) /\ IsFiniteSet(F)
        BY <4>1, FS_Subset
      <4>4. F \subseteq Regulars
        BY <4>1 DEF Wanted, Regulars, Inodes
      <4> QED  BY <1>2, <4>1, <4>2, <4>3, <4>4
    <3>3. Last(all) \in Bulk /\ \A i \in Bulk : i <= Last(all)
      BY <2>2, <3>2, ArrayIs
    <3>4. PICK top \in Nat : top = Last(all) /\ cursor <= top /\ \A i \in Bulk : i <= top
      BY <3>2, <3>3
    <3>5. /\ files \in Seq(F) /\ DOMAIN files = 1..Len(files)
          /\ \A j, k \in 1..Len(files) : j < k => files[j] < files[k]
      <4> HIDE DEF F
      <4> QED  BY <3>2, ArrayIs
    <3>6. PICK u : u = added(files)
      OBVIOUS
    <3>7. \A k \in 1..Len(files) : files[k] \in F /\ u[k] \in Entries /\ u[k].ino = files[k]
      <4>1. \A k \in 1..Len(files) : files[k] \in F
        <5> HIDE DEF F
        <5> QED  BY <3>5, ElementOfSeq
      <4>2. \A i \in F : i \in Regulars /\ i \in Inodes
        BY <3>2 DEF Regulars, Inodes
      <4>3. \A i \in F : Inode(i).size \in Nat
        BY <1>2, <4>2 DEF VolInv, Inode
      <4> HIDE DEF F
      <4> QED  BY <3>5, <3>6, <4>1, <4>2, <4>3 DEF Entries, Found
    <3>8. u \in Seq(Entries) /\ Len(u) = Len(files)
      <4>1. PICK n \in Nat : n = Len(files)
        <5>1. Len(files) \in Nat
          <6> HIDE DEF F, added
          <6> QED  BY <3>5, LenProperties
        <5> QED  BY <5>1
      <4>2. u \in [1..n -> Entries]
        BY <3>5, <3>6, <3>7, <4>1
      <4> QED  BY <4>1, <4>2
    <3>9. Ascend(u) /\ \A k \in 1..Len(u) : cursor <= u[k].ino /\ u[k].ino <= top
      BY <3>2, <3>4, <3>5, <3>7, <3>8 DEF Ascend
    <3>10. list' = list \o u /\ cursor' = top + 1
      BY <3>1, <3>4, <3>6
    <3> HIDE DEF F, added
    <3>11. list' \in Seq(Entries) /\ cursor' \in Nat
      BY <1>2, <3>8, <3>10, ConcatProperties
    <3>12. ASSUME Ascend(list), AllBelow(list, cursor)
           PROVE  Ascend(list') /\ AllBelow(list', cursor')
      <4>1. Ascend(list \o u) /\ AllBelow(list \o u, top + 1)
        BY <1>2, <1>4, <3>4, <3>8, <3>9, <3>12, BulkList
      <4> QED  BY <3>10, <4>1
    <3> QED  BY <3>11, <3>12
  <2> QED  BY <2>1, <2>2
<1>6. StackInv'
  BY <1>1, <1>2, <1>3 DEF IInv, StackInv, SameInodes, Positions, InFile, Method
<1>7. FileInv'
  BY <1>1, <1>2, <1>3, <1>5 DEF FileInv, SameInodes, Entries, InFile, Method, InEnds
<1>8. SeenInv'
  BY <1>2 DEF SeenInv, Walks, Method
<1>9. OrderInv'
  BY <1>1, <1>2, <1>3, <1>5 DEF IInv, OrderInv, Ascend, AllBelow, InFile, Method, Fresh
<1> QED  BY <1>6, <1>7, <1>8, <1>9 DEF RInv

(* The invariant holds at all times.                                       *)
LEMMA InodeInv == Spec => []IInv
<1>1. Init => IInv
  BY InitInv, StartInv DEF IInv, RInv
<1>2. IInv /\ WInv' /\ [Next]_vars => IInv'
  <2> SUFFICES ASSUME IInv, WInv', [Next]_vars  PROVE IInv'
    OBVIOUS
  <2>1. VolInv' /\ SameInodes /\ h' = h /\ opt' = opt
    BY VolumeStep DEF IInv
  <2>2. RInv'
    <3>1. CASE Step
      BY <2>1, <3>1, StartStep, EntryKeeps, DirEndsKeeps, BulkKeeps, NamesKeeps, OpenKeeps, EndKeeps,
         ReadKeeps, QuietSteps DEF Step
    <3>2. CASE World \/ Exited \/ UNCHANGED vars
      BY <2>1, <3>2, QuietWorld
    <3> QED  BY <3>1, <3>2 DEF Next
  <2> QED  BY <2>1, <2>2 DEF IInv, RInv
<1> QED  BY <1>1, <1>2, Inv, PTL DEF Spec

(* The inode set holds the files that were met and no others, whatever the *)
(* hash function, through every collision and every growth of the table    *)
(* (common.rs:489-517): no file is read twice, and none is left out.       *)
THEOREM SeenIsWhatWasMet == Spec => []SeenFindsAll
<1>1. IInv => SeenFindsAll
  BY DEF IInv, SeenInv, Walks, SetOf, SeenFindsAll
<1> QED  BY <1>1, InodeInv, PTL

(* handle and bulkstat read in inode order and no file twice, however many *)
(* files there are and however the bulkstat calls divide them (handle.rs:98, *)
(* bulkstat.rs:1-2).                                                       *)
THEOREM ReadsInInodeOrder == Spec => []InodeOrder
<1>1. IInv => InodeOrder
  <2> SUFFICES ASSUME IInv, opt.pos # <<>>, Method \in {"handle", "bulkstat"},
                      NEW k \in 2..Len(ends)
               PROVE  ends[k - 1].ino < ends[k].ino
    BY DEF InodeOrder
  <2>1. Len(ends) \in Nat /\ Ascend(ends)
    BY DEF IInv, OrderInv, WInv, Shapes, IsSeq
  <2>2. k - 1 \in 1..Len(ends) /\ k \in 1..Len(ends) /\ k - 1 < k
    BY <2>1
  <2> QED  BY <2>1, <2>2 DEF Ascend
<1> QED  BY <1>1, InodeInv, PTL
-----------------------------------------------------------------------------
(* The state is well-formed, and no file is recorded twice.                *)
Words == {"", "threads", "digest"} \cup (UNION {ToSet(cmd) : cmd \in Cmds})
Options == [pos : Seq(Words), hash : BOOLEAN, digest : Words, threads : Nat \ {0},
            bad : BOOLEAN, header : BOOLEAN, want : Words]

MethodInv ==
  pc \in {"dir", "bulk", "names", "list"} \/ InFile =>
    opt.pos # <<>> /\ Method \in {"vfs", "handle", "bulkstat"}

(* The room for a read is made before it; a read never gives more.         *)
RoomInv ==
  /\ opt \in Options /\ changes \in 0..MaxChanges
  /\ ctx.fill \in 0..MemLen
  /\ Batch /\ pc \in {"read", "deliver"} => ctx.fill + BufSz <= MemLen
  /\ cur.got \in 0..BufSz /\ cur.tot \in Nat /\ cur.size \in Nat
  /\ pc = "read" => cur.got < BufSz
  /\ pc \in {"open", "hf_open", "buf"} => cur.got = 0
  /\ pc \in {"open", "hf_open"} => cur.tot = 0
  /\ pc \in {"main", "dir", "bulk", "names", "list", "flush", "digest"} \cup Over \/ InFile

(* A file that is being read has a record only when all it claimed was     *)
(* delivered, and then nothing more of it is.                              *)
OnceInv ==
  /\ Distinct(ctx.recs) /\ Distinct(ctx.done)
  /\ \A r \in ToSet(ctx.recs), d \in ToSet(ctx.done) : r.ino # d.ino
  /\ \A r \in Recorded : r.ino \in Regulars
  /\ Fresh => ~InEnds(cur.ino)
  /\ pc \in {"open", "hf_open"} => \A r \in Recorded : r.ino # cur.ino
  /\ Reading => \A r \in Recorded : r.ino = cur.ino => opt.hash /\ cur.tot = cur.size

TInv == MethodInv /\ RoomInv /\ OnceInv

-----------------------------------------------------------------------------
(* A product of two that are not 0 is at least each of them.               *)
LEMMA ProductAtLeast ==
  ASSUME NEW a \in Nat \ {0}, NEW b \in Nat \ {0}
  PROVE  2 * a * b \in Nat /\ b <= 2 * a * b
<1>1. a - 1 \in Nat /\ (a - 1) * b \in Nat /\ a * b = (a - 1) * b + b
  OBVIOUS
<1>2. PICK c \in Nat : c = (a - 1) * b
  BY <1>1
<1>3. 2 * a * b = 2 * (a * b) /\ a * b = c + b
  BY <1>1, <1>2
<1> QED  BY <1>2, <1>3

(* The arena has room for a read when it is empty.                         *)
LEMMA ArenaHoldsRead == opt \in Options => MemLen \in Nat /\ BufSz <= MemLen
<1> SUFFICES ASSUME opt \in Options PROVE MemLen \in Nat /\ BufSz <= MemLen
  OBVIOUS
<1>1. opt.threads \in Nat \ {0}
  BY DEF Options
<1>2. BufSz \in Nat \ {0}
  BY WalkAssumption
<1> QED  BY <1>1, <1>2, ProductAtLeast DEF MemLen

(* The words that the program itself puts in its options.                 *)
LEMMA Literals == "" \in Words /\ "threads" \in Words /\ "digest" \in Words
<1> DEFINE given == UNION {ToSet(cmd) : cmd \in Cmds}
<1>1. Words = {"", "threads", "digest"} \cup given
  BY DEF Words
<1> HIDE DEF given
<1> QED  BY <1>1

(* One argument.                                                           *)
LEMMA ArgIs ==
  ASSUME NEW o \in Options, NEW a \in Words
  PROVE  Arg(o, a) \in Options
<1>1. /\ o.pos \in Seq(Words) /\ o.threads \in Nat \ {0} /\ Append(o.pos, a) \in Seq(Words)
      /\ o.hash \in BOOLEAN /\ o.bad \in BOOLEAN /\ o.header \in BOOLEAN
      /\ o.digest \in Words /\ o.want \in Words
      /\ o = [pos |-> o.pos, hash |-> o.hash, digest |-> o.digest, threads |-> o.threads,
              bad |-> o.bad, header |-> o.header, want |-> o.want]
  BY DEF Options
<1>2. \A t \in Nat \ {0}, w \in Words : [o EXCEPT !.threads = t, !.want = w] \in Options
  BY <1>1, Literals DEF Options
<1>3. \A w \in Words : [o EXCEPT !.bad = TRUE, !.want = w] \in Options
  BY <1>1, Literals DEF Options
<1>4. /\ [o EXCEPT !.digest = a, !.hash = TRUE, !.want = ""] \in Options
      /\ [o EXCEPT !.header = TRUE] \in Options /\ [o EXCEPT !.hash = TRUE] \in Options
      /\ [o EXCEPT !.bad = TRUE] \in Options
      /\ [o EXCEPT !.want = "threads"] \in Options /\ [o EXCEPT !.want = "digest"] \in Options
  BY <1>1, Literals DEF Options
<1>5. [o EXCEPT !.pos = Append(@, a)] \in Options
  BY <1>1, Literals DEF Options
<1>6. a \in DOMAIN Counts => Counts[a] \in Nat \ {0}
  BY WalkAssumption
<1>7. CASE o.header
  BY <1>7 DEF Arg
<1>8. CASE ~o.header /\ o.want = "threads"
  BY <1>2, <1>3, <1>6, <1>8, Literals DEF Arg
<1>9. CASE ~o.header /\ o.want = "digest"
  BY <1>4, <1>9 DEF Arg
<1>10. CASE ~o.header /\ o.want \notin {"threads", "digest"}
  <2>1. Arg(o, a) = CASE a = "--header" -> [o EXCEPT !.header = TRUE]
                      [] a = "--hash" -> [o EXCEPT !.hash = TRUE]
                      [] a = "--threads" -> [o EXCEPT !.want = "threads"]
                      [] a = "--digest" -> [o EXCEPT !.want = "digest"]
                      [] OTHER -> IF Len(o.pos) < 2 THEN [o EXCEPT !.pos = Append(@, a)]
                                  ELSE [o EXCEPT !.bad = TRUE]
    BY <1>10 DEF Arg
  <2> QED  BY <1>4, <1>5, <2>1
<1> QED  BY <1>7, <1>8, <1>9, <1>10

(* All arguments.                                                          *)
LEMMA ParsedIs == ASSUME NEW cmd \in Cmds  PROVE Parsed(cmd) \in Options
<1> DEFINE step == [vj \in Options \X (1..Len(cmd)) |-> Arg(vj[1], cmd[vj[2]])]
<1>0. cmd \in Seq(STRING) /\ Len(cmd) \in Nat /\ DOMAIN cmd = 1..Len(cmd)
  BY WalkAssumption, LenProperties
<1>1. PICK n \in Nat : n = Len(cmd)
  BY <1>0
<1>2. NoArgs \in Options
  <2>1. <<>> \in Seq(Words)
    OBVIOUS
  <2>2. 1 \in Nat \ {0}
    OBVIOUS
  <2> HIDE DEF step
  <2> QED  BY <2>1, <2>2, Literals DEF NoArgs, Options
<1>3. \A k \in 1..n : cmd[k] \in Words
  <2>1. \A k \in 1..n : cmd[k] \in ToSet(cmd)
    BY <1>0, <1>1 DEF ToSet
  <2> QED  BY <2>1 DEF Words
<1>4. step \in [Options \X (1..n) -> Options]
  <2>1. \A v \in Options \X (1..n) : v[1] \in Options /\ v[2] \in 1..n
    OBVIOUS
  <2>2. \A v \in Options \X (1..n) : Arg(v[1], cmd[v[2]]) \in Options
    BY <1>3, <2>1, ArgIs
  <2> QED  BY <1>1, <2>2
<1>5. \A v \in Options, k \in 1..n : step[<<v, k>>] = Arg(v, cmd[k])
  BY <1>1
<1> HIDE DEF step
<1>6. PICK g : Iterates(g, n, Options, NoArgs, step)
  BY <1>1, <1>2, <1>4, IterationExists
<1>7. /\ g \in [0..n -> Options] /\ g[0] = NoArgs
      /\ \A k \in 1..n : g[k] = step[<<g[k - 1], k>>]
  BY <1>6 DEF Iterates
<1> DEFINE Makes(f) == f = [k \in 0..n |-> IF k = 0 THEN NoArgs ELSE Arg(f[k - 1], cmd[k])]
<1>8. Makes(g)
  <2>1. ASSUME NEW k \in 0..n  PROVE g[k] = IF k = 0 THEN NoArgs ELSE Arg(g[k - 1], cmd[k])
    <3>1. CASE k = 0
      BY <1>7, <3>1
    <3>2. CASE k # 0
      <4>1. k \in 1..n /\ k - 1 \in 0..n
        BY <1>1, <3>2
      <4>2. g[k - 1] \in Options
        BY <1>7, <4>1
      <4> QED  BY <1>5, <1>7, <3>2, <4>1, <4>2
    <3> QED  BY <3>1, <3>2
  <2>2. g = [k \in 0..n |-> g[k]]
    BY <1>7
  <2> QED  BY <2>1, <2>2
<1>9. ASSUME NEW f, Makes(f)  PROVE \A k \in 0..n : f[k] \in Options
  <2>1. f[0] = NoArgs /\ \A k \in 1..n : f[k] = Arg(f[k - 1], cmd[k])
    <3>1. \A k \in 0..n : f[k] = IF k = 0 THEN NoArgs ELSE Arg(f[k - 1], cmd[k])
      BY <1>9
    <3>2. 0 \in 0..n /\ \A k \in 1..n : k \in 0..n /\ k # 0
      BY <1>1
    <3> QED  BY <3>1, <3>2
  <2> SUFFICES ASSUME \E k \in 0..n : f[k] \notin Options PROVE FALSE
    OBVIOUS
  <2> DEFINE bad == {k \in 0..n : f[k] \notin Options}
  <2>2. bad # {} /\ bad \subseteq Nat
    BY <1>1
  <2>3. PICK k \in bad : \A j \in bad : k <= j
    <3> HIDE DEF bad
    <3> QED  BY <2>2, LeastNumber
  <2>4. k \in 0..n /\ f[k] \notin Options
    OBVIOUS
  <2>5. k # 0
    BY <1>2, <2>1, <2>4
  <2>6. k \in 1..n /\ k - 1 \in 0..n /\ k - 1 \notin bad
    BY <1>1, <2>3, <2>4, <2>5
  <2>7. f[k - 1] \in Options
    BY <2>6
  <2> QED  BY <1>3, <2>1, <2>4, <2>6, <2>7, ArgIs
<1> DEFINE after == CHOOSE f : Makes(f)
<1>10. Makes(after)
  <2> HIDE DEF Makes
  <2> QED  BY <1>8, Zenon
<1>11. Parsed(cmd) = after[n]
  BY <1>1 DEF Parsed
<1>12. n \in 0..n
  BY <1>1
<1> HIDE DEF after, Makes
<1> QED  BY <1>9, <1>10, <1>11, <1>12

(* How much a read may give.                                               *)
LEMMA LeastOfTwo ==
  ASSUME NEW a \in Int, NEW b \in Int
  PROVE  Min({a, b}) \in Int /\ Min({a, b}) <= a /\ Min({a, b}) <= b
<1>1. \E x \in {a, b} : \A y \in {a, b} : x <= y
  <2>1. a <= b \/ b <= a
    OBVIOUS
  <2> QED  BY <2>1
<1>2. Min({a, b}) \in {a, b} /\ \A y \in {a, b} : Min({a, b}) <= y
  BY <1>1 DEF Min
<1> QED  BY <1>2
-----------------------------------------------------------------------------
(* The method is one of those that walk.                                   *)
LEMMA MethodStep ==
  ASSUME IInv, MethodInv, opt \in Options, opt' = opt, Next \/ UNCHANGED vars
  PROVE  MethodInv'
<1>1. CASE Main
  <2>1. pc' \in {"dir", "bulk"} => Usable(opt) /\ Method \in {"vfs", "handle", "bulkstat"}
    BY <1>1 DEF Main, Die
  <2>2. pc' \in {"header", "usage", "dir", "bulk", "died"}
    BY <1>1 DEF Main, Die
  <2>3. Usable(opt) => opt.pos # <<>>
    <3>1. Len(<<>>) = 0
      OBVIOUS
    <3>2. Usable(opt) => Len(opt.pos) = 2
      BY DEF Usable
    <3> QED  BY <3>1, <3>2
  <2> QED  BY <2>1, <2>2, <2>3 DEF MethodInv, Method, InFile
<1>2. CASE Entry \/ DirEnds \/ OpenByName \/ BulkStat \/ BulkDir \/ OpenByHandle
  <2>1. pc \in {"dir", "bulk", "names", "list"} \/ InFile
    BY <1>2 DEF Entry, DirEnds, OpenByName, BulkStat, BulkDir, OpenByHandle, InFile
  <2> QED  BY <2>1 DEF MethodInv, Method
<1>3. CASE HfOpen \/ HbBuf \/ ReadSome \/ ReadNothing \/ Deliver \/ FileRead
  <2>1. InFile
    BY <1>3 DEF HfOpen, HbBuf, ReadSome, ReadNothing, Deliver, FileRead, InFile
  <2> QED  BY <2>1 DEF MethodInv, Method
<1>4. CASE Finish \/ WriteDigest
  <2>1. pc' \in {"died", "done", "digest"}
    BY <1>4 DEF Finish, WriteDigest, Die
  <2> QED  BY <2>1 DEF MethodInv, InFile
<1>5. CASE World \/ Exited \/ UNCHANGED vars
  <2>1. pc' \in {pc, "died"}
    BY <1>5 DEF World, Resize, Unlink, Fails, Die, Exited, vars
  <2> QED  BY <2>1 DEF MethodInv, Method, InFile
<1> QED  BY <1>1, <1>2, <1>3, <1>4, <1>5 DEF Next, Step
-----------------------------------------------------------------------------
(* What happens to the arena.                                              *)
LEMMA FillIs ==
  ASSUME NEW c, c = CtxOf(c)
  PROVE  /\ Flushed(c).fill = 0 /\ Record(c).fill = c.fill
         /\ Delivered(c).fill = IF Batch THEN c.fill + cur.got ELSE c.fill
<1>1. Flushed(c).fill = 0 /\ Record(c).fill = c.fill
  BY DEF Flushed, Record, CtxOf
<1> DEFINE used == IF Batch THEN [c EXCEPT !.fill = @ + cur.got] ELSE c
<1>2. used = CtxOf(used) /\ used.fill = IF Batch THEN c.fill + cur.got ELSE c.fill
  BY DEF CtxOf
<1>3. Delivered(c) = IF cur.tot + cur.got # cur.size THEN used
                     ELSE IF Batch THEN [used EXCEPT !.done = Append(@, Found(cur.ino, cur.size))]
                     ELSE Record(used)
  BY DEF Delivered
<1> HIDE DEF used
<1>4. Delivered(c).fill = used.fill
  BY <1>2, <1>3 DEF Record, CtxOf
<1> QED  BY <1>1, <1>2, <1>4

(* Steps that touch neither the arena nor the file.                        *)
LEMMA RoomQuiet ==
  ASSUME RoomInv, opt' = opt, ctx'.fill = ctx.fill, cur' = cur, changes' \in 0..MaxChanges,
         pc' \in {"main", "dir", "bulk", "names", "list", "flush", "digest"} \cup Over
           \/ (InFile' /\ pc' \notin {"open", "read", "deliver"}
               /\ (pc' = "buf" => cur.got = 0) /\ (pc' = "hf_open" => cur.got = 0 /\ cur.tot = 0))
           \/ pc' = pc
  PROVE  RoomInv'
<1>1. MemLen' = MemLen /\ Batch' = Batch
  BY DEF MemLen, Batch
<1> QED  BY <1>1 DEF RoomInv, InFile, Over

(* There is room for every read, and no read is longer than it.            *)
LEMMA RoomStep ==
  ASSUME IInv, RoomInv, opt' = opt, Next \/ UNCHANGED vars
  PROVE  RoomInv'
<1>0. /\ ctx = CtxOf(ctx) /\ VolInv /\ FileInv /\ BufSz \in Nat \ {0} /\ MaxChanges \in Nat
      /\ cur = [ino |-> cur.ino, size |-> cur.size, tot |-> cur.tot, got |-> cur.got, ended |-> cur.ended]
      /\ changes \in 0..MaxChanges
  BY WalkAssumption DEF IInv, WInv, Shapes, CtxOf, RoomInv
<1> DEFINE Rests == {"main", "dir", "bulk", "names", "list", "flush", "digest"} \cup Over
<1>m. MemLen' = MemLen /\ Batch' = Batch /\ MemLen \in Nat /\ BufSz <= MemLen
  BY ArenaHoldsRead DEF MemLen, Batch, RoomInv
<1>1. CASE Main \/ DirEnds \/ BulkStat \/ BulkDir \/ WriteDigest
  <2>1. pc' \in Rests /\ cur' = cur /\ changes' = changes
    BY <1>1 DEF Main, DirEnds, BulkStat, BulkDir, WriteDigest, Die, Over
  <2>2. ctx'.fill = ctx.fill
    BY <1>0, <1>1 DEF Main, DirEnds, BulkStat, BulkDir, WriteDigest, CtxOf
  <2> QED  BY <1>0, <2>1, <2>2, RoomQuiet
<1>2. CASE Entry
  <2> DEFINE i == Inode(Top.ino).ents[Top.at]
  <2>1. /\ ctx'.fill = ctx.fill /\ changes' = changes
        /\ \/ cur' = cur /\ pc' = pc
           \/ Kind(i) = "reg" /\ pc' = "open" /\ cur' = [NoFile EXCEPT !.ino = i, !.size = Inode(i).size]
    BY <1>0, <1>2 DEF Entry, Descend, Meet, CtxOf
  <2>2. CASE cur' = cur /\ pc' = pc
    BY <1>0, <2>1, <2>2, RoomQuiet
  <2>3. CASE Kind(i) = "reg" /\ pc' = "open" /\ cur' = [NoFile EXCEPT !.ino = i, !.size = Inode(i).size]
    <3>1. Top \in Positions /\ pc = "dir"
      <4>1. stack \in Seq(Positions) /\ stack # <<>> /\ pc = "dir"
        BY <1>2 DEF IInv, StackInv, Entry
      <4> QED  BY <4>1, TopIs DEF Top
    <3>2. i \in Inodes \/ i \in {Dot, Gone}
      <4>1. Inode(Top.ino).ents \in Seq(Inodes \cup {Dot, Gone})
        BY <1>0, <3>1 DEF VolInv, Inode, Positions, Dirs, Inodes
      <4> QED  BY <1>2, <4>1, LenProperties, ElementOfSeq DEF Entry
    <3>3. i \notin {Dot, Gone}
      <4>1. i \in {Dot, Gone} => pc' = pc
        BY <1>2 DEF Entry
      <4> QED  BY <2>3, <3>1, <4>1
    <3>4. Inode(i).size \in Nat
      BY <1>0, <3>2, <3>3 DEF VolInv, Inode
    <3>5. cur'.got = 0 /\ cur'.tot = 0 /\ cur'.size = Inode(i).size
      <4> HIDE DEF i
      <4> QED  BY <2>3 DEF NoFile
    <3> QED  BY <1>0, <1>m, <2>1, <2>3, <3>4, <3>5 DEF RoomInv, InFile
  <2> QED  BY <2>1, <2>2, <2>3
<1>3. CASE OpenByName \/ HfOpen \/ Finish \/ FileRead
  <2>1. cur' = cur /\ changes' = changes
    BY <1>3 DEF OpenByName, HfOpen, Finish, FileRead
  <2>2. CASE OpenByName
    <3>1. ctx' = ctx /\ pc' \in {"hf_open", "died"} /\ cur.got = 0 /\ cur.tot = 0
      BY <2>2 DEF OpenByName, Die, RoomInv
    <3> QED  BY <1>0, <2>1, <3>1, RoomQuiet DEF InFile, Over
  <2>3. CASE HfOpen
    <3> DEFINE c == [ctx EXCEPT !.opened = @ + 1]
    <3>1. c = CtxOf(c) /\ c.fill = ctx.fill
      BY <1>0 DEF CtxOf
    <3>2. ctx' = ctx \/ ctx' = Record(c) \/ ctx' = c
      BY <2>3 DEF HfOpen
    <3> HIDE DEF c
    <3>3. ctx'.fill = ctx.fill
      BY <3>1, <3>2, FillIs
    <3>4. pc' = "buf" /\ cur.got = 0
      BY <2>3 DEF HfOpen, RoomInv
    <3> QED  BY <1>0, <2>1, <3>3, <3>4, RoomQuiet DEF InFile
  <2>4. CASE FileRead
    <3>1. ctx'.fill = ctx.fill
      BY <1>0, <2>4, FillIs DEF FileRead
    <3>2. pc' \in Rests
      BY <2>4 DEF FileRead, Die, Over
    <3> QED  BY <1>0, <2>1, <3>1, <3>2, RoomQuiet
  <2>5. CASE Finish
    <3>1. ctx'.fill = 0 \/ ctx'.fill = ctx.fill
      BY <1>0, <2>5, FillIs DEF Finish
    <3>2. pc' \in {"done", "digest", "died"}
      BY <2>5 DEF Finish, Die
    <3> QED  BY <1>0, <1>m, <2>1, <3>1, <3>2 DEF RoomInv, Over
  <2> QED  BY <1>3, <2>2, <2>3, <2>4, <2>5
<1>4. CASE OpenByHandle
  <2>1. ctx' = ctx /\ changes' = changes
    BY <1>4 DEF OpenByHandle
  <2>2. CASE list = <<>>
    <3>1. cur' = cur /\ pc' = "flush"
      BY <1>4, <2>2 DEF OpenByHandle
    <3> QED  BY <1>0, <2>1, <3>1, RoomQuiet
  <2>3. CASE list # <<>>
    <3>1. Head(list) \in Entries
      BY <1>0, <2>3 DEF FileInv
    <3>2. Head(list).size \in Nat /\ Inode(Head(list).ino).size \in Nat
      BY <1>0, <3>1 DEF Entries, Regulars, VolInv, Inode, Inodes
    <3>3. cur'.got = 0 /\ cur'.tot = 0 /\ cur'.size \in Nat
      <4>1. PICK i, size : /\ cur' = [NoFile EXCEPT !.ino = i, !.size = size]
                           /\ size \in {Inode(Head(list).ino).size, Head(list).size}
        BY <1>4, <2>3 DEF OpenByHandle
      <4> QED  BY <3>2, <4>1 DEF NoFile
    <3>4. pc' \in {"died", "hf_open"}
      BY <1>4, <2>3 DEF OpenByHandle, Die
    <3> QED  BY <1>0, <1>m, <2>1, <3>3, <3>4 DEF RoomInv, InFile, Over
  <2> QED  BY <2>2, <2>3
<1>5. CASE HbBuf
  <2>1. pc = "buf" /\ pc' = "read" /\ cur' = cur /\ changes' = changes /\ cur.got = 0
    BY <1>5 DEF HbBuf, RoomInv
  <2>2. ctx'.fill \in 0..MemLen /\ (Batch => ctx'.fill + BufSz <= MemLen)
    <3>1. ctx.fill \in 0..MemLen
      BY DEF RoomInv
    <3>2. CASE Batch /\ ctx.fill + BufSz > MemLen
      <4>1. ctx'.fill = 0
        BY <1>0, <1>5, <3>2, FillIs DEF HbBuf
      <4> QED  BY <1>0, <1>m, <4>1
    <3>3. CASE ~(Batch /\ ctx.fill + BufSz > MemLen)
      <4>1. ctx'.fill = ctx.fill
        BY <1>5, <3>3 DEF HbBuf
      <4> QED  BY <1>0, <1>m, <3>1, <3>3, <4>1
    <3> QED  BY <3>2, <3>3
  <2> QED  BY <1>0, <1>m, <2>1, <2>2 DEF RoomInv, InFile
<1>6. CASE ReadSome
  <2>1. pc = "read" /\ ctx' = ctx /\ changes' = changes
    BY <1>6 DEF ReadSome
  <2> DEFINE left == BufSz - cur.got
             rest == Inode(cur.ino).size - cur.tot - cur.got
  <2>2. /\ cur.got \in 0..BufSz /\ cur.tot \in Nat /\ cur.size \in Nat
        /\ cur.ino \in Regulars
    BY <2>1 DEF RoomInv, IInv, FileInv, InFile
  <2>3. Inode(cur.ino).size \in Nat
    BY <1>0, <2>2 DEF VolInv, Regulars, Inodes, Inode
  <2>4. left \in Int /\ rest \in Int
    BY <1>0, <2>2, <2>3
  <2>5. PICK n \in 1..Min({left, rest}) :
           cur' = [cur EXCEPT !.got = @ + n] /\ pc' = IF cur.got + n = BufSz THEN "deliver" ELSE "read"
    BY <1>6 DEF ReadSome
  <2>6. n \in Nat /\ n <= left
    <3> HIDE DEF left, rest
    <3>1. Min({left, rest}) \in Int /\ Min({left, rest}) <= left
      BY <2>4, LeastOfTwo
    <3> QED  BY <2>4, <3>1
  <2>7. cur'.got = cur.got + n /\ cur'.tot = cur.tot /\ cur'.size = cur.size
    BY <1>0, <2>5
  <2>8. cur'.got \in 0..BufSz /\ (pc' = "read" => cur'.got < BufSz)
    BY <1>0, <2>2, <2>5, <2>6, <2>7
  <2>9. pc' \in {"read", "deliver"}
    BY <2>5
  <2> QED  BY <1>0, <1>m, <2>1, <2>2, <2>7, <2>8, <2>9 DEF RoomInv, InFile
<1>7. CASE ReadNothing
  <2>1. /\ pc = "read" /\ pc' = "deliver" /\ ctx' = ctx /\ changes' = changes
        /\ cur'.got = cur.got /\ cur'.tot = cur.tot /\ cur'.size = cur.size
    BY <1>0, <1>7 DEF ReadNothing
  <2> QED  BY <1>0, <1>m, <2>1 DEF RoomInv, InFile
<1>8. CASE Deliver
  <2>1. pc = "deliver" /\ changes' = changes
    BY <1>8 DEF Deliver
  <2>2. CASE Refused
    <3>1. ctx' = ctx /\ cur' = cur /\ pc' = "died"
      BY <1>8, <2>2 DEF Deliver, Die
    <3> QED  BY <1>0, <2>1, <3>1, RoomQuiet DEF Over
  <2>3. CASE ~Refused
    <3>1. /\ pc' \in {"stream", "buf"} /\ cur'.got = 0 /\ cur'.tot = cur.tot + cur.got
          /\ cur'.size = cur.size
      BY <1>0, <1>8, <2>3 DEF Deliver
    <3>2. ctx'.fill = ctx.fill \/ (Batch /\ ctx'.fill = ctx.fill + cur.got)
      <4>1. ctx' = ctx \/ ctx' = Delivered(ctx)
        BY <1>8, <2>3 DEF Deliver
      <4> QED  BY <1>0, <4>1, FillIs
    <3>3. /\ cur.got \in 0..BufSz /\ cur.tot \in Nat /\ ctx.fill \in 0..MemLen
          /\ Batch => ctx.fill + BufSz <= MemLen
      BY <2>1 DEF RoomInv
    <3>4. ctx'.fill \in 0..MemLen
      BY <1>0, <1>m, <3>2, <3>3
    <3> QED  BY <1>0, <1>m, <2>1, <3>1, <3>3, <3>4 DEF RoomInv, InFile
  <2> QED  BY <2>2, <2>3
<1>9. CASE World
  <2>0. Change
    BY <1>9 DEF World, Resize, Unlink, Fails
  <2>1. changes' \in 0..MaxChanges
    BY <1>0, <2>0 DEF Change
  <2>2. ctx' = ctx /\ cur' = cur /\ pc' \in {pc, "died"}
    BY <1>9 DEF World, Resize, Unlink, Fails, Die
  <2> QED  BY <2>1, <2>2, RoomQuiet DEF Over
<1>10. CASE Exited \/ UNCHANGED vars
  BY <1>0, <1>10, RoomQuiet DEF Exited, vars
<1> QED  BY <1>1, <1>2, <1>3, <1>4, <1>5, <1>6, <1>7, <1>8, <1>9, <1>10 DEF Next, Step
-----------------------------------------------------------------------------
(* A list of different inodes, with one more.                              *)
LEMMA DistinctAppend ==
  ASSUME NEW s, IsSeq(s), Distinct(s), NEW x, \A r \in ToSet(s) : r.ino # x.ino
  PROVE  Distinct(Append(s, x))
<1>1. PICK n \in Nat : n = Len(s)
  BY DEF IsSeq
<1>2. s \in Seq(ToSet(s) \cup {x}) /\ DOMAIN s = 1..n
  BY <1>1, LenProperties, SeqMonotonic DEF IsSeq
<1>3. PICK t : t = Append(s, x)
  OBVIOUS
<1>4. Len(t) = n + 1 /\ t[n + 1] = x /\ \A k \in 1..n : t[k] = s[k] /\ s[k].ino # x.ino
  <2>1. \A k \in 1..n : s[k] \in ToSet(s)
    BY <1>2 DEF ToSet
  <2>2. Len(t) = n + 1 /\ t[n + 1] = x /\ \A k \in 1..n : t[k] = s[k]
    BY <1>1, <1>2, <1>3, AppendProperties
  <2> QED  BY <2>1, <2>2
<1>5. \A j, k \in 1..n : j < k => s[j].ino # s[k].ino
  BY <1>1 DEF Distinct
<1>6. ASSUME NEW j \in 1..(n + 1), NEW k \in 1..(n + 1), j < k  PROVE t[j].ino # t[k].ino
  <2>1. CASE k = n + 1
    BY <1>4, <1>6, <2>1
  <2>2. CASE k # n + 1
    BY <1>4, <1>5, <1>6, <2>2
  <2> QED  BY <2>1, <2>2
<1> QED  BY <1>3, <1>4, <1>6 DEF Distinct

(* So it is for two lists that share none.                                 *)
LEMMA DistinctConcat ==
  ASSUME NEW s, NEW u, IsSeq(s), IsSeq(u), Distinct(s), Distinct(u),
         \A r \in ToSet(s), d \in ToSet(u) : r.ino # d.ino
  PROVE  Distinct(s \o u)
<1>1. PICK n \in Nat, m \in Nat : n = Len(s) /\ m = Len(u)
  BY DEF IsSeq
<1>2. PICK t : t = s \o u
  OBVIOUS
<1>3. s \in Seq(ToSet(s) \cup ToSet(u)) /\ u \in Seq(ToSet(s) \cup ToSet(u))
      /\ DOMAIN s = 1..n /\ DOMAIN u = 1..m
  BY <1>1, LenProperties, SeqMonotonic DEF IsSeq
<1>4. Len(t) = n + m /\ \A i \in 1..(n + m) : t[i] = IF i <= n THEN s[i] ELSE u[i - n]
  BY <1>1, <1>2, <1>3, ConcatProperties
<1>5. \A i \in 1..n, j \in 1..m : s[i].ino # u[j].ino
  BY <1>3 DEF ToSet
<1>6. ASSUME NEW j \in 1..(n + m), NEW k \in 1..(n + m), j < k  PROVE t[j].ino # t[k].ino
  <2>1. CASE j <= n /\ k <= n
    BY <1>1, <1>4, <1>6, <2>1 DEF Distinct
  <2>2. CASE j <= n /\ ~(k <= n)
    <3>1. t[j] = s[j] /\ j \in 1..n /\ t[k] = u[k - n] /\ k - n \in 1..m
      BY <1>4, <2>2
    <3> QED  BY <1>5, <3>1
  <2>3. CASE ~(j <= n)
    <3>1. t[j] = u[j - n] /\ j - n \in 1..m /\ t[k] = u[k - n] /\ k - n \in 1..m /\ j - n < k - n
      BY <1>4, <1>6, <2>3
    <3> QED  BY <1>1, <3>1 DEF Distinct
  <2> QED  BY <2>1, <2>2, <2>3
<1> QED  BY <1>2, <1>4, <1>6 DEF Distinct

(* A list of different inodes is no longer than there are inodes.          *)
LEMMA DistinctFits ==
  ASSUME NEW s, IsSeq(s), Distinct(s), NEW S, IsFiniteSet(S), \A r \in ToSet(s) : r.ino \in S
  PROVE  Len(s) <= Cardinality(S)
<1>1. PICK n \in Nat : n = Len(s) /\ DOMAIN s = 1..n
  BY LenProperties DEF IsSeq
<1> DEFINE f == [k \in 1..n |-> s[k].ino]
<1>2. f \in [1..n -> S]
  BY <1>1 DEF ToSet
<1>3. \A j, k \in 1..n : f[j] = f[k] => j = k
  <2> SUFFICES ASSUME NEW j \in 1..n, NEW k \in 1..n, s[j].ino = s[k].ino, j < k PROVE FALSE
    OBVIOUS
  <2> QED  BY <1>1 DEF Distinct
<1> HIDE DEF f
<1>4. f \in Injection(1..n, S)
  BY <1>2, <1>3 DEF Injection, IsInjective
<1>5. Cardinality(1..n) = n /\ IsFiniteSet(1..n)
  BY CountUpTo
<1> QED  BY <1>1, <1>4, <1>5, FS_Injection

(* What is recorded, and what waits to be.                                 *)
Once(recs, done, files) ==
  /\ IsSeq(recs) /\ IsSeq(done) /\ Distinct(recs) /\ Distinct(done)
  /\ \A r \in ToSet(recs), d \in ToSet(done) : r.ino # d.ino
  /\ \A r \in ToSet(recs) \cup ToSet(done) : r.ino \in files

(* A record of a file that has none.                                       *)
LEMMA OnceMore ==
  ASSUME NEW recs, NEW done, NEW files, Once(recs, done, files),
         NEW x, x.ino \in files, \A r \in ToSet(recs) \cup ToSet(done) : r.ino # x.ino
  PROVE  Once(Append(recs, x), done, files) /\ Once(recs, Append(done, x), files)
<1>1. /\ IsSeq(Append(recs, x)) /\ ToSet(Append(recs, x)) = ToSet(recs) \cup {x}
      /\ IsSeq(Append(done, x)) /\ ToSet(Append(done, x)) = ToSet(done) \cup {x}
  BY AppendSet DEF Once
<1>2. Distinct(Append(recs, x)) /\ Distinct(Append(done, x))
  BY DistinctAppend DEF Once
<1> QED  BY <1>1, <1>2 DEF Once

(* The records that waited are put behind those that are there.            *)
LEMMA OnceFlushed ==
  ASSUME NEW recs, NEW done, NEW files, Once(recs, done, files)
  PROVE  Once(recs \o done, <<>>, files) /\ ToSet(recs \o done) \cup ToSet(<<>>) = ToSet(recs) \cup ToSet(done)
<1>1. IsSeq(recs \o done) /\ ToSet(recs \o done) = ToSet(recs) \cup ToSet(done)
  BY ConcatSet DEF Once
<1>2. Distinct(recs \o done)
  BY DistinctConcat DEF Once
<1>3. IsSeq(<<>>) /\ ToSet(<<>>) = {} /\ Distinct(<<>>)
  BY EmptyIsSeq DEF Distinct
<1> QED  BY <1>1, <1>2, <1>3 DEF Once

(* They are no more than there are files.                                  *)
LEMMA OnceFits ==
  ASSUME NEW recs, NEW done, NEW files, Once(recs, done, files), IsFiniteSet(files)
  PROVE  Len(recs) + Len(done) <= Cardinality(files)
<1>1. Once(recs \o done, <<>>, files) /\ ToSet(recs \o done) \cup ToSet(<<>>) = ToSet(recs) \cup ToSet(done)
  BY OnceFlushed
<1>2. Len(recs \o done) <= Cardinality(files)
  BY <1>1, DistinctFits DEF Once
<1>3. recs \in Seq(ToSet(recs) \cup ToSet(done)) /\ done \in Seq(ToSet(recs) \cup ToSet(done))
  BY SeqMonotonic DEF Once, IsSeq
<1>4. Len(recs \o done) = Len(recs) + Len(done)
  BY <1>3, ConcatProperties
<1> QED  BY <1>2, <1>4
-----------------------------------------------------------------------------
(* Of the records of the state.                                            *)
OnceNow == Once(ctx.recs, ctx.done, Regulars)

(* The invariant says so.                                                  *)
LEMMA OnceIs == IInv /\ OnceInv => OnceNow
BY DEF IInv, WInv, Shapes, OnceInv, OnceNow, Once, Recorded

(* Steps that record nothing.                                              *)
LEMMA OnceQuiet ==
  ASSUME IInv, OnceInv, SameInodes, opt' = opt,
         ctx'.recs = ctx.recs, ctx'.done = ctx.done, ends' = ends,
         Fresh' => Fresh, pc' \in {"open", "hf_open"} => pc \in {"open", "hf_open"},
         Reading' => Reading,
         Fresh' \/ Reading' => cur'.ino = cur.ino /\ cur'.tot = cur.tot /\ cur'.size = cur.size
  PROVE  OnceInv'
<1>1. Recorded' = Recorded /\ Regulars' = Regulars
  BY DEF Recorded, SameInodes
<1>2. pc' \in {"open", "hf_open"} => Fresh'
  BY DEF Fresh
<1> QED  BY <1>1, <1>2 DEF OnceInv, InEnds, Distinct

(* Outside of a file, what is recorded was read to its end.                *)
LEMMA RecordsEnded ==
  ASSUME IInv, ~Reading, pc # "died"
  PROVE  \A r \in Recorded : InEnds(r.ino)
<1>1. \A r \in Recorded : Settled(r)
  BY Idle DEF IInv
<1> QED  BY <1>1 DEF Settled, InEnds

(* A file that the inode set did not have was not read before.             *)
LEMMA MeetIsNew ==
  ASSUME IInv, MethodInv, pc = "dir", NEW i \in Regulars, Added(h, ctx.seen, i).new
  PROVE  ~InEnds(i)
<1>1. Walks /\ VolInv /\ SeenInv
  BY DEF IInv, StackInv, MethodInv, Walks
<1>2. SetOf(h, ctx.seen, Inodes, Met)
  BY <1>1 DEF SeenInv
<1>3. IsHash(h, Inodes) /\ Empty \notin Inodes
  BY <1>1 DEF VolInv, IsHash, Empty
<1>4. i \in Inodes
  BY DEF Regulars, Inodes
<1>5. i \notin Met
  BY <1>2, <1>3, <1>4, AddedHolds
<1> QED  BY <1>5 DEF Met, InEnds

(* The file that is opened next has no record.                             *)
LEMMA OnceOpen ==
  ASSUME IInv, OnceInv, SameInodes, ctx'.recs = ctx.recs, ctx'.done = ctx.done, ends' = ends,
         ~Reading, pc # "died", pc' \in {"open", "hf_open"}, ~InEnds(cur'.ino)
  PROVE  OnceInv'
<1>1. Recorded' = Recorded /\ Regulars' = Regulars
  BY DEF Recorded, SameInodes
<1>2. \A r \in Recorded : r.ino # cur'.ino
  BY RecordsEnded DEF InEnds
<1>3. ~Reading'
  BY DEF Reading
<1> QED  BY <1>1, <1>2, <1>3 DEF OnceInv, InEnds, Distinct

(* No step of the program records a file again.                            *)
LEMMA OnceStep ==
  ASSUME IInv, IInv', MethodInv, MethodInv', RoomInv, OnceInv, SameInodes, opt' = opt, h' = h,
         Next \/ UNCHANGED vars
  PROVE  OnceInv'
<1>0. /\ ctx = CtxOf(ctx) /\ OnceNow /\ IsSeq(ctx.recs) /\ IsSeq(ctx.done) /\ Regulars' = Regulars
      /\ cur = [ino |-> cur.ino, size |-> cur.size, tot |-> cur.tot, got |-> cur.got, ended |-> cur.ended]
      /\ VolInv
  BY OnceIs DEF IInv, WInv, Shapes, CtxOf, SameInodes
<1>1. CASE Main \/ DirEnds \/ BulkStat \/ BulkDir \/ WriteDigest
  <2>1. pc' \notin {"open", "hf_open"} /\ ~Fresh' /\ ~Reading' /\ ends' = ends
    BY <1>1 DEF Main, DirEnds, BulkStat, BulkDir, WriteDigest, Die, Fresh, Reading
  <2>2. ctx'.recs = ctx.recs /\ ctx'.done = ctx.done
    BY <1>0, <1>1 DEF Main, DirEnds, BulkStat, BulkDir, WriteDigest, CtxOf
  <2> QED  BY <2>1, <2>2, OnceQuiet
<1>2. CASE Entry
  <2> DEFINE i == Inode(Top.ino).ents[Top.at]
  <2>1. /\ ctx'.recs = ctx.recs /\ ctx'.done = ctx.done /\ ends' = ends /\ pc = "dir"
        /\ \/ cur' = cur /\ pc' = pc
           \/ /\ Kind(i) = "reg" /\ pc' = "open" /\ Added(h, ctx.seen, i).new
              /\ cur' = [NoFile EXCEPT !.ino = i, !.size = Inode(i).size]
    BY <1>0, <1>2 DEF Entry, Descend, Meet, CtxOf
  <2>2. CASE cur' = cur /\ pc' = pc
    <3>1. ~Fresh' /\ ~Reading'
      BY <2>1, <2>2 DEF Fresh, Reading
    <3> QED  BY <2>1, <2>2, <3>1, OnceQuiet
  <2>3. CASE /\ Kind(i) = "reg" /\ pc' = "open" /\ Added(h, ctx.seen, i).new
             /\ cur' = [NoFile EXCEPT !.ino = i, !.size = Inode(i).size]
    <3>1. cur'.ino = i
      <4> HIDE DEF i
      <4> QED  BY <2>3 DEF NoFile
    <3>2. i \in Regulars
      <4>1. cur'.ino \in Regulars'
        BY <2>3 DEF IInv, FileInv, InFile
      <4> QED  BY <1>0, <3>1, <4>1
    <3>3. ~InEnds(i)
      <4> HIDE DEF i
      <4> QED  BY <2>1, <2>3, <3>2, MeetIsNew
    <3>4. ~Reading
      BY <2>1 DEF Reading
    <3> QED  BY <2>1, <2>3, <3>1, <3>3, <3>4, OnceOpen
  <2> QED  BY <2>1, <2>2, <2>3
<1>3. CASE OpenByName
  <2>1. ctx' = ctx /\ cur' = cur /\ ends' = ends /\ pc = "open" /\ pc' \in {"hf_open", "died"}
    BY <1>3 DEF OpenByName, Die
  <2>2. ~Reading' /\ Fresh
    BY <2>1 DEF Reading, Fresh
  <2> QED  BY <2>1, <2>2, OnceQuiet
<1>4. CASE OpenByHandle
  <2>1. ctx' = ctx /\ ends' = ends /\ pc = "list" /\ pc' \in {"hf_open", "died", "flush"}
    BY <1>4 DEF OpenByHandle, Die
  <2>2. CASE pc' = "hf_open"
    <3>1. Method \in {"handle", "bulkstat"} /\ opt.pos # <<>>
      <4>1. Method # "vfs" /\ Method \in {"vfs", "handle", "bulkstat"} /\ opt.pos # <<>>
        BY <2>1 DEF IInv, StackInv, MethodInv
      <4> QED  BY <4>1
    <3>2. Method' = Method /\ opt'.pos # <<>> /\ Fresh'
      BY <2>2, <3>1 DEF Method, Fresh
    <3>3. AllBelow(ends, cur'.ino)
      BY <2>1, <3>1, <3>2 DEF IInv, OrderInv, AllBelow
    <3>4. cur'.ino \in Nat
      <4>1. cur'.ino \in Regulars
        BY <1>0, <2>2 DEF IInv, FileInv, InFile
      <4> QED  BY <1>0, <4>1 DEF VolInv, Regulars, Inodes
    <3>5. ~InEnds(cur'.ino)
      BY <3>3, <3>4 DEF AllBelow, InEnds
    <3>6. ~Reading
      BY <2>1 DEF Reading
    <3> QED  BY <2>1, <2>2, <3>5, <3>6, OnceOpen
  <2>3. CASE pc' # "hf_open"
    <3>1. ~Fresh' /\ ~Reading'
      BY <2>1, <2>3 DEF Fresh, Reading
    <3> QED  BY <2>1, <2>3, <3>1, OnceQuiet
  <2> QED  BY <2>2, <2>3
<1>5. CASE HfOpen
  <2> DEFINE c == [ctx EXCEPT !.opened = @ + 1]
             x == Found(cur.ino, cur.size)
  <2>1. /\ pc = "hf_open" /\ pc' = "buf" /\ cur' = cur /\ ends' = ends /\ Fresh /\ Fresh' /\ Reading'
        /\ cur.ino \in Regulars /\ cur.tot = 0 /\ \A r \in Recorded : r.ino # cur.ino
    BY <1>5 DEF HfOpen, Fresh, Reading, IInv, FileInv, InFile, RoomInv, OnceInv
  <2>2. c = CtxOf(c) /\ c.recs = ctx.recs /\ c.done = ctx.done
    BY <1>0 DEF CtxOf
  <2>3. ctx' = ctx \/ ctx' = c \/ (opt.hash /\ cur.size = 0 /\ ctx' = Record(c))
    BY <1>5 DEF HfOpen
  <2>4. x.ino = cur.ino
    BY DEF Found
  <2> HIDE DEF c
  <2>5. CASE ctx'.recs = ctx.recs /\ ctx'.done = ctx.done
    <3>1. Recorded' = Recorded
      BY <2>5 DEF Recorded
    <3> QED  BY <1>0, <2>1, <2>5, <3>1 DEF OnceInv, InEnds, Distinct
  <2>6. CASE opt.hash /\ cur.size = 0 /\ ctx' = Record(c)
    <3>1. ctx'.recs = Append(ctx.recs, x) /\ ctx'.done = ctx.done
      BY <2>2, <2>6 DEF Record, CtxOf
    <3> HIDE DEF x
    <3>2. Once(ctx'.recs, ctx'.done, Regulars)
      BY <1>0, <2>1, <2>4, <3>1, OnceMore DEF OnceNow, Recorded
    <3> QED  BY <1>0, <2>1, <2>6, <3>2 DEF OnceInv, Once, InEnds, Recorded, Distinct
  <2> QED  BY <2>2, <2>3, <2>5, <2>6
<1>6. CASE HbBuf
  <2>1. pc = "buf" /\ pc' = "read" /\ cur' = cur /\ ends' = ends /\ Fresh /\ Fresh' /\ Reading /\ Reading'
    BY <1>6 DEF HbBuf, Fresh, Reading
  <2>2. CASE ctx' = ctx
    BY <2>1, <2>2, OnceQuiet
  <2>3. CASE ctx' = Flushed(ctx)
    <3>1. ctx'.recs = ctx.recs \o ctx.done /\ ctx'.done = <<>>
      BY <1>0, <2>3 DEF Flushed, CtxOf
    <3>2. Once(ctx'.recs, ctx'.done, Regulars) /\ Recorded' = Recorded
      BY <1>0, <3>1, OnceFlushed DEF OnceNow, Recorded
    <3> QED  BY <1>0, <2>1, <3>2 DEF OnceInv, Once, InEnds, Recorded, Distinct
  <2> QED  BY <1>6, <2>2, <2>3 DEF HbBuf
<1>7. CASE ReadSome
  <2>1. pc = "read" /\ pc' \in {"read", "deliver"} /\ ctx' = ctx /\ ends' = ends
    BY <1>7 DEF ReadSome
  <2>2. cur'.ino = cur.ino /\ cur'.tot = cur.tot /\ cur'.size = cur.size
    BY <1>0, <1>7 DEF ReadSome
  <2>3. Fresh /\ Reading /\ pc' \notin {"open", "hf_open"}
    BY <2>1 DEF Fresh, Reading
  <2> QED  BY <2>1, <2>2, <2>3, OnceQuiet
<1>8. CASE ReadNothing
  <2>1. /\ pc = "read" /\ pc' = "deliver" /\ ctx' = ctx /\ cur'.ended = TRUE
        /\ cur'.ino = cur.ino /\ cur'.tot = cur.tot /\ cur'.size = cur.size
    BY <1>0, <1>8 DEF ReadNothing
  <2>2. ~Fresh' /\ Reading /\ pc' \notin {"open", "hf_open"} /\ Recorded' = Recorded
    BY <2>1 DEF Fresh, Reading, Recorded
  <2> QED  BY <1>0, <2>1, <2>2 DEF OnceInv, Distinct
<1>9. CASE Deliver
  <2>1. pc = "deliver" /\ ends' = ends /\ Reading /\ cur.ino \in Regulars
    BY <1>9 DEF Deliver, Reading, IInv, FileInv, InFile
  <2>2. CASE Refused
    <3>1. ctx' = ctx /\ pc' = "died"
      BY <1>9, <2>2 DEF Deliver, Die
    <3>2. ~Fresh' /\ ~Reading' /\ pc' \notin {"open", "hf_open"}
      BY <3>1 DEF Fresh, Reading
    <3> QED  BY <2>1, <3>1, <3>2, OnceQuiet
  <2>3. CASE ~Refused
    <3>1. /\ cur'.ino = cur.ino /\ cur'.tot = cur.tot + cur.got /\ cur'.size = cur.size
          /\ pc' = IF cur.ended THEN "stream" ELSE "buf"
      BY <1>0, <1>9, <2>3 DEF Deliver
    <3>2. pc' \notin {"open", "hf_open"} /\ (Fresh' => Fresh) /\ cur.ended \in BOOLEAN
      BY <2>1, <3>1 DEF Fresh, IInv, WInv, Shapes
    <3>3. cur.got \in Nat /\ cur.tot \in Nat /\ cur.size \in Nat
      BY DEF RoomInv
    <3>4. ASSUME \A r \in Recorded' : r.ino = cur.ino => opt.hash /\ cur.tot + cur.got = cur.size,
                 Once(ctx'.recs, ctx'.done, Regulars)
          PROVE  OnceInv'
      BY <1>0, <2>1, <3>1, <3>2, <3>4 DEF OnceInv, Once, InEnds, Recorded, Distinct
    <3>5. CASE ~(opt.hash /\ cur.got > 0)
      <4>1. ctx' = ctx
        BY <1>9, <2>3, <3>5 DEF Deliver
      <4>2. \A r \in Recorded : r.ino = cur.ino => opt.hash /\ cur.tot = cur.size
        BY <2>1 DEF OnceInv
      <4>3. Recorded' = Recorded /\ Once(ctx'.recs, ctx'.done, Regulars)
        BY <1>0, <4>1 DEF Recorded, OnceNow
      <4>4. opt.hash => cur.tot + cur.got = cur.tot
        BY <3>3, <3>5
      <4> QED  BY <3>4, <4>2, <4>3, <4>4
    <3>6. CASE opt.hash /\ cur.got > 0
      <4>1. ctx' = Delivered(ctx) /\ cur.tot + cur.got <= cur.size
        BY <1>9, <2>3, <3>3, <3>6 DEF Deliver, Refused
      <4>2. \A r \in Recorded : r.ino # cur.ino
        <5>1. \A r \in Recorded : r.ino = cur.ino => cur.tot = cur.size
          BY <2>1 DEF OnceInv
        <5>2. cur.tot # cur.size
          BY <3>3, <3>6, <4>1
        <5> QED  BY <5>1, <5>2
      <4> DEFINE used == IF Batch THEN [ctx EXCEPT !.fill = @ + cur.got] ELSE ctx
                 x == Found(cur.ino, cur.size)
      <4>3. used = CtxOf(used) /\ used.recs = ctx.recs /\ used.done = ctx.done
        BY <1>0 DEF CtxOf
      <4>4. ctx' = IF cur.tot + cur.got # cur.size THEN used
                   ELSE IF Batch THEN [used EXCEPT !.done = Append(@, x)]
                   ELSE Record(used)
        BY <4>1 DEF Delivered
      <4>5. x.ino = cur.ino
        BY DEF Found
      <4> HIDE DEF used
      <4>6. \/ ctx'.recs = ctx.recs /\ ctx'.done = ctx.done
            \/ /\ cur.tot + cur.got = cur.size
               /\ \/ ctx'.recs = ctx.recs /\ ctx'.done = Append(ctx.done, x)
                  \/ ctx'.recs = Append(ctx.recs, x) /\ ctx'.done = ctx.done
        BY <4>3, <4>4 DEF Record, CtxOf
      <4> HIDE DEF x
      <4>7. Once(ctx'.recs, ctx'.done, Regulars)
        BY <1>0, <2>1, <4>2, <4>5, <4>6, OnceMore DEF OnceNow, Recorded
      <4>8. \A r \in Recorded' : r.ino = cur.ino => cur.tot + cur.got = cur.size
        <5>1. CASE ctx'.recs = ctx.recs /\ ctx'.done = ctx.done
          BY <4>2, <5>1 DEF Recorded
        <5>2. CASE cur.tot + cur.got = cur.size
          BY <5>2
        <5> QED  BY <4>6, <5>1, <5>2
      <4> QED  BY <3>4, <3>6, <4>7, <4>8
    <3> QED  BY <3>5, <3>6
  <2> QED  BY <2>2, <2>3
<1>10. CASE FileRead
  <2>1. /\ pc = "stream" /\ ends' = ends /\ cur' = cur /\ cur.ino \in Regulars
        /\ pc' \notin {"open", "hf_open"} /\ ~Fresh' /\ ~Reading'
    BY <1>10 DEF FileRead, Die, Fresh, Reading, IInv, FileInv, InFile
  <2>2. CASE ctx' = ctx
    BY <2>1, <2>2, OnceQuiet
  <2>3. CASE ~opt.hash /\ ctx' = Record(ctx)
    <3> DEFINE x == Found(cur.ino, cur.size)
    <3>1. ctx'.recs = Append(ctx.recs, x) /\ ctx'.done = ctx.done
      BY <1>0, <2>3 DEF Record, CtxOf
    <3>2. \A r \in Recorded : r.ino # cur.ino
      BY <2>1, <2>3 DEF OnceInv, Reading
    <3>3. x.ino = cur.ino
      BY DEF Found
    <3> HIDE DEF x
    <3>4. Once(ctx'.recs, ctx'.done, Regulars)
      BY <1>0, <2>1, <3>1, <3>2, <3>3, OnceMore DEF OnceNow, Recorded
    <3> QED  BY <1>0, <2>1, <3>4 DEF OnceInv, Once, Recorded, Distinct
  <2> QED  BY <1>10, <2>2, <2>3 DEF FileRead
<1>11. CASE Finish
  <2>1. ends' = ends /\ cur' = cur /\ pc' \in {"died", "done", "digest"}
    BY <1>11 DEF Finish, Die
  <2>2. pc' \notin {"open", "hf_open"} /\ ~Fresh' /\ ~Reading'
    BY <2>1 DEF Fresh, Reading
  <2>3. CASE ctx' = ctx
    BY <2>1, <2>2, <2>3, OnceQuiet
  <2>4. CASE ctx' = Flushed(ctx)
    <3>1. ctx'.recs = ctx.recs \o ctx.done /\ ctx'.done = <<>>
      BY <1>0, <2>4 DEF Flushed, CtxOf
    <3>2. Once(ctx'.recs, ctx'.done, Regulars) /\ Recorded' = Recorded
      BY <1>0, <3>1, OnceFlushed DEF OnceNow, Recorded
    <3> QED  BY <1>0, <2>2, <3>2 DEF OnceInv, Once, Recorded, Distinct
  <2> QED  BY <1>11, <2>3, <2>4 DEF Finish
<1>12. CASE World \/ Exited \/ UNCHANGED vars
  <2>1. ctx' = ctx /\ cur' = cur /\ ends' = ends /\ pc' \in {pc, "died"}
    BY <1>12 DEF World, Resize, Unlink, Fails, Die, Exited, vars
  <2>2. (Fresh' => Fresh) /\ (Reading' => Reading)
        /\ (pc' \in {"open", "hf_open"} => pc \in {"open", "hf_open"})
    BY <2>1 DEF Fresh, Reading
  <2> QED  BY <2>1, <2>2, OnceQuiet
<1> QED  BY <1>1, <1>2, <1>3, <1>4, <1>5, <1>6, <1>7, <1>8, <1>9, <1>10, <1>11, <1>12 DEF Next, Step
-----------------------------------------------------------------------------
(* Nothing is read or recorded when the program starts.                    *)
LEMMA StartTyped == Init => TInv
<1> SUFFICES ASSUME Init PROVE TInv
  OBVIOUS
<1>1. opt \in Options
  BY ParsedIs DEF Init
<1>2. MemLen \in Nat /\ BufSz \in Nat /\ MaxChanges \in Nat
  BY <1>1, ArenaHoldsRead, WalkAssumption
<1>3. pc = "main" /\ ctx.recs = <<>> /\ ctx.done = <<>> /\ ctx.fill = 0 /\ changes = 0 /\ cur = NoFile
  BY DEF Init
<1>4. MethodInv
  BY <1>3 DEF MethodInv, InFile
<1>5. RoomInv
  BY <1>1, <1>2, <1>3 DEF RoomInv, NoFile, InFile
<1>6. OnceInv
  BY <1>3, EmptyIsSeq DEF OnceInv, Distinct, Recorded, Fresh, Reading
<1> QED  BY <1>4, <1>5, <1>6 DEF TInv

(* The state stays well-formed: no buffer and no arena runs over, whatever *)
(* the reads give and whenever the batches end (common.rs:348-373, 446-    *)
(* 475), and no file is recorded twice, by any method, at once or by a     *)
(* flush (common.rs:267-293, 438-475).                                     *)
THEOREM WalkTypes == Spec => []TypeOK
<1>1. IInv /\ IInv' /\ TInv /\ [Next]_vars => TInv'
  <2> SUFFICES ASSUME IInv, IInv', TInv, Next \/ UNCHANGED vars  PROVE TInv'
    OBVIOUS
  <2>1. SameInodes /\ h' = h /\ opt' = opt
    BY VolumeStep DEF IInv
  <2>2. MethodInv' /\ RoomInv'
    BY <2>1, MethodStep, RoomStep DEF TInv, RoomInv
  <2> QED  BY <2>1, <2>2, OnceStep DEF TInv
<1>2. IInv /\ TInv => TypeOK
  <2> SUFFICES ASSUME IInv, TInv PROVE TypeOK
    OBVIOUS
  <2>1. \A k \in DOMAIN stack : stack[k].ino \in Dirs
    <3>1. stack \in Seq(Positions)
      BY DEF IInv, StackInv
    <3>2. \A k \in DOMAIN stack : stack[k] \in Positions
      BY <3>1, LenProperties, ElementOfSeq
    <3> QED  BY <3>2 DEF Positions
  <2>2. ToSet(list) \subseteq [ino : Regulars, size : Nat]
    <3>1. list \in Seq(Entries)
      BY DEF IInv, FileInv
    <3>2. \A k \in DOMAIN list : list[k] \in Entries
      BY <3>1, LenProperties, ElementOfSeq
    <3> QED  BY <3>2 DEF ToSet, Entries
  <2>3. Len(ctx.recs) + Len(ctx.done) <= Cardinality(Regulars)
    <3>1. IsFiniteSet(Regulars)
      <4>1. IsFiniteSet(Inodes) /\ Regulars \subseteq Inodes
        BY DEF IInv, VolInv, Regulars, Inodes
      <4> QED  BY <4>1, FS_Subset
    <3>2. OnceNow
      BY OnceIs DEF TInv
    <3> QED  BY <3>1, <3>2, OnceFits DEF OnceNow
  <2> QED  BY <2>1, <2>2, <2>3 DEF TypeOK, TInv, RoomInv, InFile
<1> QED  BY <1>1, <1>2, StartTyped, InodeInv, PTL DEF Spec
=============================================================================
