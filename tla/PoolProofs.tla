----------------------------- MODULE PoolProofs -----------------------------
(***************************************************************************)
(* Proofs about the worker pool, for every set of workers, every modulus   *)
(* of the generation counter and every number and size of jobs.  One lemma *)
(* per kind of step shows that it preserves IInv; the theorems follow.     *)
(***************************************************************************)
EXTENDS PoolInv, FiniteSetTheorems, TLAPS

(* Main is in the same part of its life before and after the step. *)
SamePhase ==
  \/ pc'[Main] = pc[Main]
  \/ pc[Main] \in {"relock", "await", "asleep"}
       /\ pc'[Main] \in {"relock", "await", "asleep"}
  \/ pc[Main] = "lock" /\ pc'[Main] = "publish"
  \/ pc[Main] \in {"new", "idle", "quitlock", "quit", "join", "freed"}
       /\ pc'[Main] \in {"new", "idle", "quitlock", "quit", "join", "freed"}

(* A step that claims, runs and publishes nothing and leaves Main in the   *)
(* phase it was in keeps everything said about tasks and indices.          *)
LEMMA Frame ==
  ASSUME IInv, TypeOK', SamePhase,
         UNCHANGED <<task, next, held, idx, history>>,
         \A t \in Thread : pc'[t] = "run" <=> pc[t] = "run",
         \A t \in Thread : pc'[t] = "claim" => pc[t] = "claim"
  PROVE  TaskInv' /\ OverInv' /\ AloneInv' /\ ClaimInv'
<1>1. TaskInv'
  BY DEF IInv, TaskInv, SamePhase, InCall, CallPc, Published, Thread, history
<1>2. OverInv'
  <2>1. InCall' <=> InCall
    BY DEF SamePhase, InCall, CallPc
  <2> QED  BY <2>1 DEF IInv, OverInv, history
<1>3. AloneInv'
  BY DEF IInv, AloneInv, SamePhase, history
<1>4. ClaimInv'
  <2>1. Published' => Published
    BY DEF SamePhase, Published
  <2>2. Published' /\ pc'[Main] \in {"relock", "await", "asleep"}
          => pc[Main] \in {"relock", "await", "asleep"}
    BY DEF SamePhase
  <2> QED
    BY <2>1, <2>2, PoolAssumption
    DEF IInv, TypeOK, ClaimInv, history, Published, Thread, Job, Index
<1> QED  BY <1>1, <1>2, <1>3, <1>4

(* The set `busy' counts is finite, and empty exactly when the count is 0. *)
LEMMA PendingCount ==
  ASSUME TypeOK
  PROVE  /\ IsFiniteSet(workers)
         /\ IsFiniteSet(Pending)
         /\ Cardinality(Pending) \in Nat
         /\ Cardinality(workers) \in Nat
         /\ Cardinality(Pending) = 0 <=> Pending = {}
<1>1. IsFiniteSet(workers)
  BY PoolAssumption, FS_Subset DEF TypeOK
<1>2. IsFiniteSet(Pending)
  BY <1>1, FS_Subset DEF Pending
<1> QED
  BY <1>1, <1>2, FS_CardinalityType, FS_EmptySet

(* Counting one run more keeps the type of `ran'. *)
LEMMA RanUpdate ==
  ASSUME NEW r \in [Job -> [Index -> Nat]], NEW j \in Job, NEW i \in Index
  PROVE  [r EXCEPT ![j][i] = @ + 1] \in [Job -> [Index -> Nat]]
<1>1. r[j] \in [Index -> Nat]
  OBVIOUS
<1>2. [r[j] EXCEPT ![i] = @ + 1] \in [Index -> Nat]
  BY <1>1
<1> QED  BY <1>2

(* The invariant holds when the program starts.                            *)
LEMMA InitIInv == Init => IInv
<1> SUFFICES ASSUME Init PROVE IInv
  OBVIOUS
<1>1. TypeOK
  <2>1. 0 \in Job /\ 0 \in Index /\ NoTask \in Task /\ 0 \in 0..(GenMod - 1)
    BY PoolAssumption DEF Job, Index, NoTask, Task
  <2>2. pc \in [Thread -> WorkerPc \cup MainPc]
    BY DEF Init, WorkerPc, MainPc
  <2>3. pc[Main] \in MainPc /\ \A w \in Worker : pc[w] \in WorkerPc
    BY PoolAssumption DEF Init, WorkerPc, MainPc, Thread
  <2>4. size \in [Job -> Index] /\ ran \in [Job -> [Index -> Nat]]
    BY <2>1 DEF Init
  <2> QED  BY <2>1, <2>2, <2>3, <2>4 DEF Init, TypeOK
<1>2. MutexInv
  BY DEF Init, MutexInv, HoldPc
<1>3. CountInv
  <2>1. Pending = {}
    BY DEF Init, Pending
  <2> QED
    BY <2>1, <1>1, PendingCount, PoolAssumption
    DEF Init, CountInv, Published, WorkingPc, Thread
<1>4. TaskInv
  BY PoolAssumption DEF Init, TaskInv, InCall, CallPc, Published, Thread
<1>5. OverInv
  BY PoolAssumption DEF Init, OverInv, InCall, CallPc, Thread, Job, Index
<1>6. AloneInv /\ ClaimInv /\ SleepInv
  BY PoolAssumption DEF Init, AloneInv, ClaimInv, SleepInv, Published, Thread
<1> QED  BY <1>1, <1>2, <1>3, <1>4, <1>5, <1>6 DEF IInv

-----------------------------------------------------------------------------
(* Steps that move control only. *)

(* A thread acquires the mutex, in any of the places where one does. *)
LEMMA AcquireStep ==
  ASSUME IInv, NEW t \in Thread, NEW from, NEW to, Acquire(t, from, to),
         \/ /\ t \in Worker
            /\ \/ from = "lock" /\ to = "test"
               \/ from = "relock" /\ to = "checkin"
         \/ /\ t = Main
            /\ \/ from = "lock" /\ to = "publish"
               \/ from = "relock" /\ to = "await"
               \/ from = "quitlock" /\ to = "quit"
  PROVE  IInv'
<1>1. TypeOK'
  BY PoolAssumption
  DEF IInv, TypeOK, Acquire, Goto, shared, history, Thread, WorkerPc, MainPc
<1>2. MutexInv'
  BY <1>1, PoolAssumption
  DEF IInv, TypeOK, MutexInv, HoldPc, Acquire, Goto, Thread
<1>3. CountInv'
  <2>1. Pending' = Pending
    BY PoolAssumption
    DEF IInv, TypeOK, CountInv, Pending, WorkingPc, Acquire, Goto, shared, Thread
  <2> QED
    BY <2>1, PoolAssumption
    DEF IInv, TypeOK, CountInv, Published, WorkingPc, Acquire, Goto, shared,
        Thread
<1>4. TaskInv' /\ OverInv' /\ AloneInv' /\ ClaimInv'
  <2>1. SamePhase
    BY PoolAssumption DEF IInv, TypeOK, SamePhase, Acquire, Goto, Thread
  <2>2. UNCHANGED <<task, next, held, idx, history>>
    BY DEF Acquire, shared
  <2>3. \A u \in Thread : /\ pc'[u] = "run" <=> pc[u] = "run"
                          /\ pc'[u] = "claim" => pc[u] = "claim"
    BY PoolAssumption DEF IInv, TypeOK, Acquire, Goto, Thread
  <2> QED  BY <1>1, <2>1, <2>2, <2>3, Frame
<1>5. SleepInv'
  BY PoolAssumption
  DEF IInv, TypeOK, SleepInv, CountInv, Acquire, Goto, shared, Thread
<1> QED  BY <1>1, <1>2, <1>3, <1>4, <1>5 DEF IInv

(* A worker inside the mutex goes to sleep, or leaves for good. *)
LEMMA WorkerWaitStep ==
  ASSUME IInv, NEW w \in Worker, WorkerWait(w) \/ WorkerQuit(w)
  PROVE  IInv'
<1>1. TypeOK'
  BY PoolAssumption
  DEF IInv, TypeOK, WorkerWait, WorkerQuit, Goto, shared, history, Thread,
      WorkerPc, MainPc
<1>2. MutexInv'
  <2>1. \A t \in Thread \ {w} : pc[t] \notin HoldPc
    BY DEF IInv, TypeOK, MutexInv, HoldPc, WorkerWait, WorkerQuit, Goto, Thread
  <2>2. \A t \in Thread : pc'[t] \notin HoldPc
    BY <2>1 DEF IInv, TypeOK, HoldPc, WorkerWait, WorkerQuit, Goto
  <2> QED  BY <2>2 DEF MutexInv, WorkerWait, WorkerQuit
<1>3. CountInv'
  <2>1. Pending' = Pending
    BY PoolAssumption
    DEF IInv, TypeOK, CountInv, Pending, WorkingPc, WorkerWait, WorkerQuit,
        Goto, shared, Thread
  <2> QED
    BY <2>1, PoolAssumption
    DEF IInv, TypeOK, CountInv, Published, WorkingPc, WorkerWait, WorkerQuit,
        Goto, shared, Thread
<1>4. TaskInv' /\ OverInv' /\ AloneInv' /\ ClaimInv'
  <2>1. SamePhase
    BY PoolAssumption
    DEF IInv, TypeOK, SamePhase, WorkerWait, WorkerQuit, Goto, Thread
  <2>2. UNCHANGED <<task, next, held, idx, history>>
    BY DEF WorkerWait, WorkerQuit, shared
  <2>3. \A u \in Thread : /\ pc'[u] = "run" <=> pc[u] = "run"
                          /\ pc'[u] = "claim" => pc[u] = "claim"
    BY PoolAssumption DEF IInv, TypeOK, WorkerWait, WorkerQuit, Goto, Thread
  <2> QED  BY <1>1, <2>1, <2>2, <2>3, Frame
<1>5. SleepInv'
  BY PoolAssumption
  DEF IInv, TypeOK, SleepInv, WorkerWait, WorkerQuit, Goto, shared, Thread
<1> QED  BY <1>1, <1>2, <1>3, <1>4, <1>5 DEF IInv

(* A worker takes the published task: it stays pending, and what it copies *)
(* is the running call's, since a pending worker means a published call.   *)
LEMMA WorkerTakeStep ==
  ASSUME IInv, NEW w \in Worker, WorkerTake(w)
  PROVE  IInv'
<1>1. TypeOK'
  BY PoolAssumption
  DEF IInv, TypeOK, WorkerTake, Goto, shared, history, Thread, WorkerPc, MainPc
<1>2. MutexInv'
  BY <1>1, PoolAssumption
  DEF IInv, TypeOK, MutexInv, HoldPc, WorkerTake, Goto, Thread
<1>3. w \in Pending /\ Published
  BY PoolAssumption
  DEF IInv, TypeOK, CountInv, Pending, WorkerTake, Goto, Thread
<1>4. CountInv'
  <2>1. Pending' = Pending
    BY <1>3, PoolAssumption
    DEF IInv, TypeOK, Pending, WorkingPc, WorkerTake, Goto, shared, Thread
  <2> QED
    BY <1>3, <2>1, PoolAssumption
    DEF IInv, TypeOK, CountInv, Published, WorkingPc, WorkerTake, Goto, shared,
        Thread
<1>5. TaskInv'
  BY <1>3, PoolAssumption
  DEF IInv, TypeOK, TaskInv, Published, InCall, CallPc, WorkerTake, Goto, shared,
      history, Thread
<1>6. OverInv' /\ AloneInv'
  BY PoolAssumption
  DEF IInv, TypeOK, OverInv, AloneInv, InCall, CallPc, WorkerTake, Goto,
      history, Thread
<1>7. ClaimInv'
  BY PoolAssumption
  DEF IInv, TypeOK, ClaimInv, Published, WorkerTake, Goto, shared, history,
      Thread
<1>8. SleepInv'
  BY PoolAssumption
  DEF IInv, TypeOK, SleepInv, CountInv, WorkerTake, Goto, shared, Thread
<1> QED  BY <1>1, <1>2, <1>4, <1>5, <1>6, <1>7, <1>8 DEF IInv

(* A worker checks out: it leaves Pending, and `busy' with it. *)
LEMMA WorkerCheckinStep ==
  ASSUME IInv, NEW w \in Worker, WorkerCheckin(w)
  PROVE  IInv'
<1>1. w \in Pending
  BY PoolAssumption
  DEF IInv, CountInv, Pending, WorkingPc, WorkerCheckin
<1>2. Cardinality(Pending \ {w}) = busy - 1 /\ busy - 1 \in Nat
  BY <1>1, PendingCount, FS_RemoveElement, FS_CardinalityType,
     FS_Subset
  DEF IInv, CountInv
<1>3. TypeOK'
  BY <1>2, PoolAssumption
  DEF IInv, TypeOK, WorkerCheckin, history, Thread, WorkerPc, MainPc
<1>4. MutexInv'
  BY <1>3, PoolAssumption
  DEF IInv, TypeOK, MutexInv, HoldPc, WorkerCheckin, Thread
<1>5. CountInv'
  <2>1. Pending' = Pending \ {w}
    BY PoolAssumption
    DEF IInv, TypeOK, CountInv, Pending, WorkingPc, WorkerCheckin, Thread
  <2>2. Published' <=> Published
    BY PoolAssumption DEF IInv, TypeOK, Published, WorkerCheckin, Thread
  <2> QED
    BY <1>2, <2>1, <2>2, PoolAssumption
    DEF IInv, TypeOK, CountInv, WorkingPc, WorkerCheckin, Thread
<1>6. TaskInv' /\ OverInv' /\ AloneInv' /\ ClaimInv'
  <2>1. SamePhase
    BY PoolAssumption DEF IInv, TypeOK, SamePhase, WorkerCheckin, Thread
  <2>2. UNCHANGED <<task, next, held, idx, history>>
    BY DEF WorkerCheckin
  <2>3. \A u \in Thread : /\ pc'[u] = "run" <=> pc[u] = "run"
                          /\ pc'[u] = "claim" => pc[u] = "claim"
    BY PoolAssumption DEF IInv, TypeOK, WorkerCheckin, Thread
  <2> QED  BY <1>3, <2>1, <2>2, <2>3, Frame
<1>7. SleepInv'
  BY PoolAssumption
  DEF IInv, TypeOK, SleepInv, CountInv, WorkerCheckin, Thread
<1> QED  BY <1>3, <1>4, <1>5, <1>6, <1>7 DEF IInv

(* Main goes to sleep until the count is 0. *)
LEMMA MainWaitStep ==
  ASSUME IInv, MainWait
  PROVE  IInv'
<1>1. TypeOK'
  BY PoolAssumption
  DEF IInv, TypeOK, MainWait, Goto, shared, history, Thread, WorkerPc, MainPc
<1>2. MutexInv'
  BY <1>1, PoolAssumption
  DEF IInv, TypeOK, MutexInv, HoldPc, MainWait, Goto, Thread
<1>3. CountInv'
  <2>1. Pending' = Pending
    BY PoolAssumption
    DEF IInv, TypeOK, CountInv, Pending, MainWait, Goto, shared, Thread
  <2> QED
    BY <2>1, PoolAssumption
    DEF IInv, TypeOK, CountInv, Published, WorkingPc, MainWait, Goto, shared,
        Thread
<1>4. TaskInv' /\ OverInv' /\ AloneInv' /\ ClaimInv'
  <2>1. SamePhase
    BY PoolAssumption DEF IInv, TypeOK, SamePhase, MainWait, Goto, Thread
  <2>2. UNCHANGED <<task, next, held, idx, history>>
    BY DEF MainWait, shared
  <2>3. \A u \in Thread : /\ pc'[u] = "run" <=> pc[u] = "run"
                          /\ pc'[u] = "claim" => pc[u] = "claim"
    BY PoolAssumption DEF IInv, TypeOK, MainWait, Goto, Thread
  <2> QED  BY <1>1, <2>1, <2>2, <2>3, Frame
<1>5. SleepInv'
  BY PoolAssumption
  DEF IInv, TypeOK, SleepInv, MainWait, Goto, shared, Thread
<1> QED  BY <1>1, <1>2, <1>3, <1>4, <1>5 DEF IInv

(* Main's steps outside of a call, but for the call itself. *)
LEMMA OutsideStep ==
  ASSUME IInv, NewDone \/ Free \/ Join
  PROVE  IInv'
<1> USE DEF NewDone, Free, Join, Goto
<1>1. TypeOK'
  BY PoolAssumption
  DEF IInv, TypeOK, shared, history, Thread, WorkerPc, MainPc
<1>2. MutexInv'
  BY <1>1, PoolAssumption DEF IInv, TypeOK, MutexInv, HoldPc, Thread
<1>3. CountInv'
  <2>1. Pending' = Pending
    BY PoolAssumption DEF IInv, TypeOK, CountInv, Pending, shared, Thread
  <2> QED
    BY <2>1, PoolAssumption
    DEF IInv, TypeOK, CountInv, Published, WorkingPc, shared, Thread
<1>4. TaskInv' /\ OverInv' /\ AloneInv' /\ ClaimInv'
  <2>1. SamePhase
    BY PoolAssumption DEF IInv, TypeOK, SamePhase, Thread
  <2>2. UNCHANGED <<task, next, held, idx, history>>
    BY DEF shared
  <2>3. \A u \in Thread : /\ pc'[u] = "run" <=> pc[u] = "run"
                          /\ pc'[u] = "claim" => pc[u] = "claim"
    BY PoolAssumption DEF IInv, TypeOK, Thread
  <2> QED  BY <1>1, <2>1, <2>2, <2>3, Frame
<1>5. SleepInv'
  BY PoolAssumption DEF IInv, TypeOK, SleepInv, shared, Thread
<1> QED  BY <1>1, <1>2, <1>3, <1>4, <1>5 DEF IInv

(* A new thread has seen generation 0, which is the one there is. *)
LEMMA SpawnStep ==
  ASSUME IInv, NEW w \in Worker, Spawn(w)
  PROVE  IInv'
<1> USE DEF Spawn, Goto
<1>1. TypeOK'
  BY PoolAssumption
  DEF IInv, TypeOK, history, Thread, WorkerPc, MainPc
<1>2. MutexInv'
  <2>1. \A t \in Thread : pc'[t] \in HoldPc <=> pc[t] \in HoldPc
    BY DEF IInv, TypeOK, HoldPc, Thread
  <2> QED  BY <2>1 DEF IInv, MutexInv
<1>3. CountInv'
  <2>1. gen = seen[w]
    BY DEF IInv, CountInv
  <2>2. Pending' = Pending
    BY <2>1, PoolAssumption
    DEF IInv, TypeOK, CountInv, Pending, WorkingPc, Thread
  <2>3. Published' <=> Published
    BY PoolAssumption DEF IInv, TypeOK, Published, Thread
  <2>4. \A u \in Worker : u \in workers' <=> pc'[u] # "none"
    BY DEF IInv, TypeOK, CountInv, Thread
  <2> QED
    BY <2>2, <2>3, <2>4, PoolAssumption
    DEF IInv, TypeOK, CountInv, WorkingPc, Thread
<1>4. TaskInv' /\ OverInv' /\ AloneInv' /\ ClaimInv'
  <2>1. SamePhase
    BY PoolAssumption DEF IInv, TypeOK, SamePhase, Thread
  <2>2. UNCHANGED <<task, next, held, idx, history>>
    OBVIOUS
  <2>3. \A u \in Thread : /\ pc'[u] = "run" <=> pc[u] = "run"
                          /\ pc'[u] = "claim" => pc[u] = "claim"
    BY DEF IInv, TypeOK, Thread
  <2> QED  BY <1>1, <2>1, <2>2, <2>3, Frame
<1>5. SleepInv'
  BY PoolAssumption DEF IInv, TypeOK, SleepInv, CountInv, Thread
<1> QED  BY <1>1, <1>2, <1>3, <1>4, <1>5 DEF IInv

(* A wait ends with no signal: the thread has to ask for the mutex again.  *)
LEMMA SpuriousWakeStep ==
  ASSUME IInv, NEW t \in Thread, SpuriousWake(t)
  PROVE  IInv'
<1> USE DEF SpuriousWake, Goto
<1>1. TypeOK'
  BY PoolAssumption
  DEF IInv, TypeOK, shared, history, Thread, WorkerPc, MainPc
<1>2. MutexInv'
  <2>1. \A u \in Thread : pc'[u] \in HoldPc <=> pc[u] \in HoldPc
    BY DEF IInv, TypeOK, HoldPc, Thread
  <2> QED  BY <2>1 DEF IInv, MutexInv
<1>3. CountInv'
  <2>1. \A w \in Worker : pc'[w] \in WorkingPc <=> pc[w] \in WorkingPc
    BY PoolAssumption DEF IInv, TypeOK, WorkingPc, Thread
  <2>2. Pending' = Pending
    BY <2>1 DEF IInv, TypeOK, Pending, shared
  <2>3. Published' <=> Published
    BY PoolAssumption DEF IInv, TypeOK, Published, Thread
  <2>4. \A w \in Worker : pc'[w] = "none" <=> pc[w] = "none"
    BY PoolAssumption DEF IInv, TypeOK, Thread
  <2>5. pc'[Main] = "new" => pc[Main] = "new"
    BY PoolAssumption DEF IInv, TypeOK, Thread
  <2> QED
    BY <2>1, <2>2, <2>3, <2>4, <2>5 DEF IInv, CountInv, shared
<1>4. TaskInv' /\ OverInv' /\ AloneInv' /\ ClaimInv'
  <2>1. SamePhase
    BY PoolAssumption DEF IInv, TypeOK, SamePhase, Thread
  <2>2. UNCHANGED <<task, next, held, idx, history>>
    BY DEF shared
  <2>3. \A u \in Thread : /\ pc'[u] = "run" <=> pc[u] = "run"
                          /\ pc'[u] = "claim" => pc[u] = "claim"
    BY PoolAssumption DEF IInv, TypeOK, Thread
  <2> QED  BY <1>1, <2>1, <2>2, <2>3, Frame
<1>5. SleepInv'
  BY PoolAssumption DEF IInv, TypeOK, SleepInv, CountInv, shared, Thread
<1> QED  BY <1>1, <1>2, <1>3, <1>4, <1>5 DEF IInv

(* pool_free says quit and wakes every worker. *)
LEMMA SetQuitStep ==
  ASSUME IInv, SetQuit
  PROVE  IInv'
<1> USE DEF SetQuit, AfterBroadcast
<1>1. /\ pc'[Main] = "join"
      /\ \A w \in Worker :
           pc'[w] = IF pc[w] = "asleep" THEN "lock" ELSE pc[w]
  BY PoolAssumption DEF Thread
<1>2. TypeOK'
  BY PoolAssumption
  DEF IInv, TypeOK, history, Thread, WorkerPc, MainPc
<1>3. MutexInv'
  <2>1. \A w \in Worker : pc[w] \notin HoldPc
    BY PoolAssumption DEF IInv, MutexInv, HoldPc, Thread
  <2>2. \A t \in Thread : pc'[t] \notin HoldPc
    BY <1>1, <2>1 DEF HoldPc, Thread
  <2> QED  BY <2>2 DEF MutexInv
<1>4. CountInv'
  <2>0. \A w \in Worker : pc'[w] \in WorkingPc <=> pc[w] \in WorkingPc
    BY <1>1 DEF WorkingPc
  <2>1. Pending' = Pending
    BY <2>0 DEF IInv, TypeOK, Pending
  <2>2. ~Published /\ ~Published'
    BY <1>1 DEF Published
  <2> QED
    BY <1>1, <2>1, <2>2 DEF IInv, CountInv, WorkingPc
<1>5. TaskInv' /\ OverInv' /\ AloneInv' /\ ClaimInv'
  <2>1. SamePhase
    BY <1>1 DEF SamePhase
  <2>2. UNCHANGED <<task, next, held, idx, history>>
    BY DEF SetQuit
  <2>3. \A u \in Thread : /\ pc'[u] = "run" <=> pc[u] = "run"
                          /\ pc'[u] = "claim" => pc[u] = "claim"
    BY <1>1 DEF Thread
  <2> QED  BY <1>2, <2>1, <2>2, <2>3, Frame
<1>6. SleepInv'
  BY <1>1 DEF SleepInv
<1> QED  BY <1>2, <1>3, <1>4, <1>5, <1>6 DEF IInv

-----------------------------------------------------------------------------
(* Steps that move a job along. *)

(* pool_for is called: the job exists, and nothing of it has run. *)
LEMMA CallStep ==
  ASSUME IInv, NEW n \in Index, Call(n)
  PROVE  IInv'
<1> USE DEF Call, Goto
<1>1. /\ job + 1 \in Job /\ job \in Nat
      /\ [job |-> job + 1, n |-> n] \in Task
  BY PoolAssumption DEF IInv, TypeOK, Job, Task, Index
<1>2. TypeOK'
  BY <1>1, PoolAssumption
  DEF IInv, TypeOK, shared, Thread, WorkerPc, MainPc
<1>3. MutexInv'
  <2>1. \A t \in Thread : pc'[t] \in HoldPc <=> pc[t] \in HoldPc
    BY DEF IInv, TypeOK, HoldPc, Thread
  <2> QED  BY <2>1 DEF IInv, MutexInv
<1>4. /\ ~Published /\ ~Published'
      /\ pc[Main] = "idle" /\ pc'[Main] \in {"inline", "lock"}
  BY DEF IInv, TypeOK, Published, Thread
<1>5. CountInv'
  <2>1. \A w \in Worker : pc'[w] = pc[w]
    BY PoolAssumption DEF IInv, TypeOK, Thread
  <2>2. Pending' = Pending
    BY <2>1 DEF IInv, TypeOK, Pending, shared
  <2> QED
    BY <1>4, <2>1, <2>2 DEF IInv, CountInv, shared
<1>6. \A w \in Worker : pc'[w] \notin {"claim", "run"}
  BY <1>4, PoolAssumption
  DEF IInv, TypeOK, CountInv, Pending, WorkingPc, Thread
<1>7. TaskInv'
  BY <1>1, <1>4, <1>6 DEF IInv, TypeOK, TaskInv, Thread
<1>8. \A j \in Job :
         /\ j > job => size[j] = 0
         /\ \A i \in Index : ran[j][i] = IF i < size[j] THEN 1 ELSE 0
  BY <1>4 DEF IInv, OverInv, InCall, CallPc
<1>9. OverInv'
  <2>1. InCall'
    BY <1>4 DEF InCall, CallPc
  <2> QED  BY <1>1, <1>8, <2>1 DEF IInv, TypeOK, OverInv
<1>10. AloneInv'
  <2>1. \A i \in Index : ran[job + 1][i] = 0
    BY <1>1, <1>8 DEF Index
  <2> QED
    BY <1>1, <1>4, <2>1 DEF IInv, TypeOK, AloneInv, Thread, Index
<1>11. ClaimInv'
  BY <1>4 DEF ClaimInv
<1>12. SleepInv'
  BY <1>4, PoolAssumption DEF IInv, TypeOK, SleepInv, shared, Thread
<1> QED
  BY <1>2, <1>3, <1>5, <1>7, <1>9, <1>10, <1>11, <1>12 DEF IInv

(* Without workers the caller runs every index itself, in order. *)
LEMMA InlineRunStep ==
  ASSUME IInv, InlineRun
  PROVE  IInv'
<1> USE DEF InlineRun, Fill
<1>1. /\ InCall /\ InCall' /\ ~Published /\ job > 0 /\ job \in Job
      /\ held[Main] = [job |-> job, n |-> size[job]]
      /\ size[job] \in Index /\ idx[Main] \in Index
      /\ idx[Main] < size[job]
  BY PoolAssumption
  DEF IInv, TypeOK, TaskInv, InCall, CallPc, Published, Thread, Index
<1>2. ran' = [ran EXCEPT ![job][idx[Main]] = @ + 1]
  BY <1>1
<1>3. \A j \in Job, i \in Index :
        ran'[j][i] = IF j = job /\ i = idx[Main] THEN ran[j][i] + 1
                                                ELSE ran[j][i]
  BY <1>1, <1>2 DEF IInv, TypeOK
<1>4. TypeOK'
  <2>1. ran' \in [Job -> [Index -> Nat]]
    BY <1>1, <1>2, RanUpdate DEF IInv, TypeOK
  <2>2. idx' \in [Thread -> Nat]
    <3>1. idx[Main] + 1 \in Nat
      BY <1>1, PoolAssumption DEF Index
    <3>2. idx \in [Thread -> Nat]
      BY DEF IInv, TypeOK
    <3> QED  BY <3>1, <3>2
  <2> QED  BY <2>1, <2>2 DEF IInv, TypeOK, shared
<1>5. MutexInv' /\ CountInv' /\ SleepInv'
  BY <1>1 DEF IInv, MutexInv, HoldPc, CountInv, Pending, Published, SleepInv,
              shared
<1>6. TaskInv'
  BY DEF IInv, TaskInv, InCall, Published, shared
<1>7. OverInv'
  BY <1>1, <1>3 DEF IInv, OverInv
<1>8. AloneInv'
  BY <1>1, <1>3, PoolAssumption DEF IInv, TypeOK, AloneInv, Thread, Index
<1>9. ClaimInv'
  BY <1>1 DEF ClaimInv, Published
<1> QED  BY <1>4, <1>5, <1>6, <1>7, <1>8, <1>9 DEF IInv

(* The inline loop ends at n, having run them all. *)
LEMMA InlineReturnStep ==
  ASSUME IInv, InlineReturn
  PROVE  IInv'
<1> USE DEF InlineReturn, Goto
<1>1. /\ InCall /\ ~InCall' /\ ~Published /\ ~Published'
      /\ pc[Main] = "inline" /\ pc'[Main] = "idle"
      /\ \A w \in Worker : pc'[w] = pc[w]
      /\ job \in Job /\ held[Main] = [job |-> job, n |-> size[job]]
      /\ idx[Main] = size[job]
  BY PoolAssumption
  DEF IInv, TypeOK, TaskInv, InCall, CallPc, Published, Thread
<1>2. TypeOK'
  BY PoolAssumption
  DEF IInv, TypeOK, shared, history, Thread, WorkerPc, MainPc
<1>3. MutexInv'
  BY <1>1 DEF IInv, MutexInv, HoldPc, Thread
<1>4. CountInv' /\ SleepInv'
  <2>1. Pending' = Pending
    BY <1>1 DEF IInv, TypeOK, Pending, shared
  <2> QED  BY <1>1, <2>1 DEF IInv, CountInv, SleepInv, shared
<1>5. TaskInv'
  BY <1>1 DEF IInv, TaskInv
<1>6. OverInv'
  <2>1. \A i \in Index : ran[job][i] = IF i < size[job] THEN 1 ELSE 0
    BY <1>1 DEF IInv, AloneInv
  <2> QED  BY <1>1, <2>1 DEF IInv, OverInv, history
<1>7. AloneInv' /\ ClaimInv'
  BY <1>1 DEF AloneInv, ClaimInv
<1> QED  BY <1>2, <1>3, <1>4, <1>5, <1>6, <1>7 DEF IInv

(* The task is published.  Nobody was pending, every worker has seen the   *)
(* generation before; since it moves to another value, all are pending.    *)
LEMMA PublishStep ==
  ASSUME IInv, Publish
  PROVE  IInv'
<1> USE DEF Publish, AfterBroadcast
<1>1. /\ pc[Main] = "publish" /\ pc'[Main] = "claim"
      /\ \A w \in Worker :
           pc'[w] = IF pc[w] = "asleep" THEN "lock" ELSE pc[w]
  BY PoolAssumption DEF Thread
<1>2. /\ ~Published /\ Published' /\ Pending = {}
      /\ InCall /\ InCall'
  BY <1>1 DEF IInv, CountInv, Published, InCall, CallPc
<1>3. gen' # gen /\ gen' \in 0..(GenMod - 1)
  <2>1. gen \in 0..(GenMod - 1) /\ gen' = (gen + 1) % GenMod
    BY DEF IInv, TypeOK
  <2>2. CASE gen + 1 < GenMod
    <3>1. (gen + 1) % GenMod = gen + 1
      BY <2>1, <2>2, PoolAssumption
    <3> QED  BY <2>1, <2>2, <3>1, PoolAssumption
  <2>3. CASE gen + 1 = GenMod
    <3>1. GenMod % GenMod = 0
      BY PoolAssumption
    <3> QED  BY <2>1, <2>3, <3>1, PoolAssumption
  <2> QED  BY <2>1, <2>2, <2>3, PoolAssumption
<1>4. TypeOK'
  <2>1. busy' \in Nat
    BY PendingCount DEF IInv
  <2>2. pc' \in [Thread -> WorkerPc \cup MainPc]
    BY DEF IInv, TypeOK, WorkerPc, MainPc
  <2>3. pc'[Main] \in MainPc /\ \A w \in Worker : pc'[w] \in WorkerPc
    BY SMTT(60), <1>1 DEF IInv, TypeOK, WorkerPc, MainPc
  <2> QED
    BY <1>3, <2>1, <2>2, <2>3 DEF IInv, TypeOK, history, Thread
<1>5. MutexInv'
  <2>1. \A w \in Worker : pc[w] \notin HoldPc
    BY <1>1, PoolAssumption DEF IInv, MutexInv, HoldPc, Thread
  <2>2. \A t \in Thread : pc'[t] \notin HoldPc
    BY <1>1, <2>1 DEF HoldPc, Thread
  <2> QED  BY <2>2 DEF MutexInv
<1>6. \A w \in Worker : pc'[w] \notin WorkingPc
  <2>1. \A w \in workers : pc[w] \notin WorkingPc
    BY <1>2 DEF Pending
  <2>2. \A w \in Worker \ workers : pc[w] = "none"
    BY DEF IInv, CountInv
  <2> QED  BY <1>1, <2>1, <2>2 DEF WorkingPc
<1>7. CountInv'
  <2>1. \A w \in workers : seen[w] = gen
    BY <1>2 DEF Pending
  <2>2. Pending' = workers
    BY <1>3, <2>1 DEF Pending
  <2>3. \A w \in Worker : pc'[w] = "none" <=> pc[w] = "none"
    BY <1>1
  <2> QED
    BY <1>1, <1>2, <1>6, <2>2, <2>3 DEF IInv, CountInv
<1>8. TaskInv'
  BY <1>2, <1>6 DEF IInv, TaskInv, WorkingPc, history
<1>9. OverInv' /\ AloneInv'
  BY <1>1, <1>2 DEF IInv, OverInv, AloneInv, history
<1>10. ClaimInv'
  <2>1. \A i \in Index : ran'[job'][i] = 0
    BY <1>1 DEF IInv, AloneInv, history
  <2>2. \A t \in Thread : pc'[t] # "run"
    BY <1>1, <1>6 DEF Thread, WorkingPc
  <2> QED  BY <1>1, <2>1, <2>2 DEF ClaimInv, Index
<1>11. SleepInv'
  BY <1>1 DEF SleepInv
<1> QED
  BY <1>4, <1>5, <1>7, <1>8, <1>9, <1>10, <1>11 DEF IInv

(* A thread in its loop works for the running, published call; the index   *)
(* it runs is one of the job's, claimed and not run so far.                *)
LEMMA LoopFacts ==
  ASSUME IInv, NEW t \in Thread, pc[t] \in {"claim", "run"}
  PROVE  /\ Published /\ InCall
         /\ held[t] = [job |-> job, n |-> size[job]]
         /\ job \in Job /\ size[job] \in Index /\ next \in Nat
         /\ pc[t] = "run" => /\ idx[t] \in Index
                             /\ idx[t] < next /\ idx[t] < size[job]
                             /\ ran[job][idx[t]] = 0
<1>1. Published
  <2>1. CASE t = Main
    BY <2>1 DEF Published
  <2>2. CASE t # Main
    <3>1. t \in Worker /\ t \in Pending
      BY <2>2 DEF IInv, CountInv, Pending, WorkingPc, Thread
    <3> QED  BY <3>1 DEF IInv, CountInv
  <2> QED  BY <2>1, <2>2
<1>2. InCall
  BY <1>1 DEF Published, InCall, CallPc
<1>3. held[t] = [job |-> job, n |-> size[job]]
  BY <1>2 DEF IInv, TaskInv, Thread
<1>4. job \in Job /\ size[job] \in Index /\ next \in Nat
  BY DEF IInv, TypeOK
<1>5. ASSUME pc[t] = "run"
      PROVE  /\ idx[t] \in Index /\ idx[t] < next /\ idx[t] < size[job]
             /\ ran[job][idx[t]] = 0
  BY <1>1, <1>4, <1>5, PoolAssumption DEF IInv, TypeOK, ClaimInv, Index
<1> QED  BY <1>1, <1>2, <1>3, <1>4, <1>5

(* fetch_add hands out the next index, to nobody else; out of range, the   *)
(* thread leaves its loop, and then every index of the job was handed out. *)
LEMMA ClaimStep ==
  ASSUME IInv, NEW t \in Thread, Claim(t)
  PROVE  IInv'
<1> USE DEF Claim
<1>1. /\ Published /\ Published' /\ InCall /\ InCall'
      /\ held[t] = [job |-> job, n |-> size[job]]
      /\ job \in Job /\ size[job] \in Index /\ next \in Nat
  BY LoopFacts, PoolAssumption
  DEF IInv, TypeOK, Published, InCall, CallPc, Thread
<1>2. /\ \A u \in Thread \ {t} : pc'[u] = pc[u]
      /\ pc'[t] \in {"run", "relock"}
  BY DEF IInv, TypeOK
<1>3. TypeOK'
  <2>1. idx' \in [Thread -> Nat]
    BY <1>1 DEF IInv, TypeOK
  <2>2. pc' \in [Thread -> WorkerPc \cup MainPc]
    BY DEF IInv, TypeOK, WorkerPc, MainPc
  <2>3. pc'[Main] \in MainPc /\ \A w \in Worker : pc'[w] \in WorkerPc
    BY <1>2 DEF IInv, TypeOK, WorkerPc, MainPc, Thread
  <2> QED
    BY <1>1, <2>1, <2>2, <2>3 DEF IInv, TypeOK, history
<1>4. MutexInv'
  <2>1. \A u \in Thread : pc'[u] \in HoldPc <=> pc[u] \in HoldPc
    BY <1>2 DEF HoldPc
  <2> QED  BY <2>1 DEF IInv, MutexInv
<1>5. CountInv'
  <2>1. \A w \in Worker : /\ pc'[w] \in WorkingPc <=> pc[w] \in WorkingPc
                          /\ pc'[w] = "none" <=> pc[w] = "none"
    BY <1>2 DEF WorkingPc, Thread
  <2>2. Pending' = Pending
    BY <2>1 DEF IInv, TypeOK, Pending
  <2>3. pc'[Main] # "new"
    BY <1>1 DEF Published
  <2> QED  BY <1>1, <2>1, <2>2, <2>3 DEF IInv, CountInv
<1>6. TaskInv'
  BY <1>1, <1>2 DEF IInv, TaskInv, Thread, history
<1>7. OverInv'
  BY <1>1 DEF IInv, OverInv, history
<1>8. AloneInv'
  BY <1>1 DEF AloneInv, Published
<1>9. ClaimInv'
  <2>1. CASE next < size[job] /\ pc'[t] = "run" /\ idx'[t] = next
               /\ \A u \in Thread \ {t} : idx'[u] = idx[u]
    <3>1. \A u \in Thread : pc'[u] = "run" =>
            /\ idx'[u] < next' /\ idx'[u] < size'[job']
            /\ ran'[job'][idx'[u]] = 0
      <4>1. next \in Index /\ ran[job][next] = 0
        BY <1>1, <2>1, PoolAssumption DEF IInv, ClaimInv, Index
      <4>2. next < next'
        BY <1>1
      <4> QED
        BY <1>1, <1>2, <2>1, <4>1, <4>2
        DEF IInv, TypeOK, ClaimInv, history
    <3>2. \A u, v \in Thread :
            pc'[u] = "run" /\ pc'[v] = "run" /\ idx'[u] = idx'[v] => u = v
      <4>1. \A u \in Thread : pc[u] = "run" => idx[u] # next
        BY <1>1 DEF IInv, TypeOK, ClaimInv
      <4> QED  BY <1>1, <1>2, <2>1, <4>1 DEF IInv, ClaimInv
    <3>3. \A i \in Index :
            /\ ran'[job'][i] \in {0, 1}
            /\ ran'[job'][i] = 1 => i < next' /\ i < size'[job']
      BY <1>1 DEF IInv, ClaimInv, history, Index
    <3>4. \A i \in Index : i < next' /\ i < size'[job'] =>
            \/ ran'[job'][i] = 1
            \/ \E u \in Thread : pc'[u] = "run" /\ idx'[u] = i
      <4> SUFFICES ASSUME NEW i \in Index, i < next', i < size'[job'],
                          ran'[job'][i] # 1
                   PROVE  \E u \in Thread : pc'[u] = "run" /\ idx'[u] = i
        OBVIOUS
      <4>1. CASE i = next
        BY <2>1, <4>1
      <4>2. CASE i < next
        <5>1. PICK u \in Thread : pc[u] = "run" /\ idx[u] = i
          BY <1>1, <4>2 DEF IInv, ClaimInv, history
        <5> QED  BY <1>2, <2>1, <5>1
      <4> QED  BY <1>1, <4>1, <4>2 DEF Index
    <3>5. pc'[Main] \in {"relock", "await", "asleep"} => next' >= size'[job']
      BY <1>1, <1>2, <2>1 DEF IInv, ClaimInv, Thread, history, Index
    <3> QED  BY <3>1, <3>2, <3>3, <3>4, <3>5 DEF ClaimInv
  <2>2. CASE next >= size[job] /\ pc'[t] = "relock" /\ UNCHANGED idx
    <3>1. \A u \in Thread : pc'[u] = "run" <=> pc[u] = "run"
      BY <1>2, <2>2
    <3>2. next' >= size'[job']
      BY <1>1, <2>2 DEF history, Index
    <3> QED
      BY <1>1, <2>2, <3>1, <3>2
      DEF IInv, TypeOK, ClaimInv, history, Index
  <2> QED  BY <1>1, <2>1, <2>2 DEF IInv, TypeOK
<1>10. SleepInv'
  BY <1>1, <1>2 DEF IInv, SleepInv, Published, Thread
<1> QED
  BY <1>3, <1>4, <1>5, <1>6, <1>7, <1>8, <1>9, <1>10 DEF IInv

(* fn runs on the index the thread has claimed, and on no other. *)
LEMMA RunStep ==
  ASSUME IInv, NEW t \in Thread, Run(t)
  PROVE  IInv'
<1> USE DEF Run, Goto, Fill
<1>1. /\ Published /\ Published' /\ InCall /\ InCall'
      /\ held[t] = [job |-> job, n |-> size[job]]
      /\ job \in Job /\ size[job] \in Index /\ next \in Nat
  BY LoopFacts, PoolAssumption
  DEF IInv, TypeOK, Published, InCall, CallPc, Thread
<1>2. /\ \A u \in Thread \ {t} : pc'[u] = pc[u]
      /\ pc[t] = "run" /\ pc'[t] = "claim"
  BY DEF IInv, TypeOK
<1>3. /\ idx[t] \in Index /\ idx[t] < next /\ idx[t] < size[job]
      /\ ran[job][idx[t]] = 0
  BY <1>2, LoopFacts
<1>4. /\ ran' = [ran EXCEPT ![job][idx[t]] = @ + 1]
      /\ ran' \in [Job -> [Index -> Nat]]
  <2>1. ran' = [ran EXCEPT ![job][idx[t]] = @ + 1]
    BY <1>1
  <2>2. ran \in [Job -> [Index -> Nat]]
    BY DEF IInv, TypeOK
  <2>3. [ran EXCEPT ![job][idx[t]] = @ + 1] \in [Job -> [Index -> Nat]]
    BY <1>1, <1>3, <2>2, RanUpdate
  <2> QED  BY <2>1, <2>3
<1>5. \A j \in Job, i \in Index :
        ran'[j][i] = IF j = job /\ i = idx[t] THEN 1 ELSE ran[j][i]
  BY <1>1, <1>3, <1>4 DEF IInv, TypeOK
<1>6. TypeOK'
  <2>1. pc' \in [Thread -> WorkerPc \cup MainPc]
    BY DEF IInv, TypeOK, WorkerPc, MainPc
  <2>2. pc'[Main] \in MainPc /\ \A w \in Worker : pc'[w] \in WorkerPc
    BY <1>2 DEF IInv, TypeOK, WorkerPc, MainPc, Thread
  <2> QED
    BY <1>4, <2>1, <2>2 DEF IInv, TypeOK, shared
<1>7. MutexInv'
  <2>1. \A u \in Thread : pc'[u] \in HoldPc <=> pc[u] \in HoldPc
    BY <1>2 DEF HoldPc
  <2> QED  BY <2>1 DEF IInv, MutexInv
<1>8. CountInv'
  <2>1. \A w \in Worker : /\ pc'[w] \in WorkingPc <=> pc[w] \in WorkingPc
                          /\ pc'[w] = "none" <=> pc[w] = "none"
    BY <1>2 DEF WorkingPc, Thread
  <2>2. Pending' = Pending
    BY <2>1 DEF IInv, TypeOK, Pending, shared
  <2>3. pc'[Main] # "new"
    BY <1>1 DEF Published
  <2> QED  BY <1>1, <2>1, <2>2, <2>3 DEF IInv, CountInv, shared
<1>9. TaskInv'
  BY <1>1, <1>2 DEF IInv, TaskInv, Thread, shared
<1>10. OverInv'
  BY <1>1, <1>5 DEF IInv, OverInv
<1>11. AloneInv'
  BY <1>1 DEF AloneInv, Published
<1>12. ClaimInv'
  <2>1. \A u \in Thread : pc'[u] = "run" =>
          /\ pc[u] = "run" /\ idx[u] # idx[t]
          /\ idx[u] < next /\ idx[u] < size[job] /\ ran'[job][idx[u]] = 0
    <3> SUFFICES ASSUME NEW u \in Thread, pc'[u] = "run"
                 PROVE  /\ pc[u] = "run" /\ idx[u] # idx[t]
                        /\ idx[u] < next /\ idx[u] < size[job]
                        /\ ran'[job][idx[u]] = 0
      OBVIOUS
    <3>1. u # t /\ pc[u] = "run"
      BY <1>2
    <3>2. /\ idx[u] # idx[t] /\ idx[u] < next /\ idx[u] < size[job]
          /\ ran[job][idx[u]] = 0
      BY <1>1, <1>2, <3>1 DEF IInv, ClaimInv
    <3>3. idx[u] \in Index
      BY <1>1, <3>2, PoolAssumption DEF IInv, TypeOK, Index
    <3> QED  BY <1>1, <1>5, <3>1, <3>2, <3>3
  <2>2. \A i \in Index :
          /\ ran'[job][i] \in {0, 1}
          /\ ran'[job][i] = 1 => i < next /\ i < size[job]
    BY <1>1, <1>3, <1>5 DEF IInv, ClaimInv
  <2>3. \A i \in Index : i < next /\ i < size[job] =>
          ran'[job][i] = 1 \/ \E u \in Thread : pc'[u] = "run" /\ idx[u] = i
    <3> SUFFICES ASSUME NEW i \in Index, i < next, i < size[job],
                        ran'[job][i] # 1
                 PROVE  \E u \in Thread : pc'[u] = "run" /\ idx[u] = i
      OBVIOUS
    <3>1. i # idx[t] /\ ran[job][i] # 1
      BY <1>1, <1>5
    <3>2. PICK u \in Thread : pc[u] = "run" /\ idx[u] = i
      BY <1>1, <3>1 DEF IInv, ClaimInv
    <3> QED  BY <1>2, <3>1, <3>2
  <2>4. pc'[Main] \in {"relock", "await", "asleep"} => next >= size[job]
    BY <1>1, <1>2 DEF IInv, ClaimInv, Thread
  <2>5. \A u, v \in Thread :
          pc'[u] = "run" /\ pc'[v] = "run" /\ idx[u] = idx[v] => u = v
    BY <1>1, <2>1 DEF IInv, ClaimInv
  <2> QED
    BY <2>1, <2>2, <2>3, <2>4, <2>5 DEF ClaimInv, shared
<1>13. SleepInv'
  BY <1>1, <1>2 DEF IInv, SleepInv, Published, Thread, shared
<1> QED
  BY <1>6, <1>7, <1>8, <1>9, <1>10, <1>11, <1>12, <1>13 DEF IInv

(* Main sees the count at 0: nobody is pending, so nobody is running, and  *)
(* since Main left its loop every index was handed out: all have been run. *)
LEMMA ReturnStep ==
  ASSUME IInv, Return
  PROVE  IInv'
<1> USE DEF Return, Goto
<1>1. /\ Published /\ ~Published' /\ InCall /\ ~InCall'
      /\ pc[Main] = "await" /\ pc'[Main] = "idle"
      /\ \A w \in Worker : pc'[w] = pc[w]
      /\ job \in Job /\ size[job] \in Index /\ next \in Nat
  BY PoolAssumption
  DEF IInv, TypeOK, Published, InCall, CallPc, Thread
<1>2. Pending = {}
  BY PendingCount DEF IInv, CountInv
<1>3. \A w \in Worker : pc[w] \notin WorkingPc
  BY <1>2 DEF IInv, CountInv, Pending, WorkingPc
<1>4. TypeOK'
  <2>1. NoTask \in Task
    BY PoolAssumption DEF NoTask, Task, Job, Index
  <2>2. pc' \in [Thread -> WorkerPc \cup MainPc]
    BY DEF IInv, TypeOK, MainPc
  <2>3. pc'[Main] \in MainPc /\ \A w \in Worker : pc'[w] \in WorkerPc
    BY <1>1 DEF IInv, TypeOK, MainPc
  <2> QED  BY <2>1, <2>2, <2>3 DEF IInv, TypeOK, history, Thread
<1>5. MutexInv'
  <2>1. \A w \in Worker : pc[w] \notin HoldPc
    BY <1>1, PoolAssumption DEF IInv, MutexInv, HoldPc, Thread
  <2>2. \A t \in Thread : pc'[t] \notin HoldPc
    BY <1>1, <2>1 DEF HoldPc, Thread
  <2> QED  BY <2>2 DEF MutexInv
<1>6. CountInv'
  <2>1. Pending' = Pending
    BY <1>1 DEF IInv, TypeOK, Pending
  <2> QED  BY <1>1, <1>2, <2>1 DEF IInv, CountInv
<1>7. TaskInv'
  BY <1>1, <1>3 DEF TaskInv, WorkingPc
<1>8. OverInv'
  <2>1. \A i \in Index : ran[job][i] = IF i < size[job] THEN 1 ELSE 0
    <3> SUFFICES ASSUME NEW i \in Index
                 PROVE  ran[job][i] = IF i < size[job] THEN 1 ELSE 0
      OBVIOUS
    <3>1. \A t \in Thread : pc[t] # "run"
      BY <1>1, <1>3 DEF Thread, WorkingPc
    <3>2. next >= size[job]
      BY <1>1 DEF IInv, ClaimInv
    <3>3. CASE i < size[job]
      BY <1>1, <3>1, <3>2, <3>3 DEF IInv, ClaimInv, Index
    <3>4. CASE ~(i < size[job])
      BY <1>1, <3>4 DEF IInv, ClaimInv
    <3> QED  BY <3>3, <3>4
  <2> QED  BY <1>1, <2>1 DEF IInv, OverInv, history
<1>9. AloneInv' /\ ClaimInv'
  BY <1>1 DEF AloneInv, ClaimInv
<1>10. SleepInv'
  BY <1>1 DEF IInv, SleepInv
<1> QED
  BY <1>4, <1>5, <1>6, <1>7, <1>8, <1>9, <1>10 DEF IInv

-----------------------------------------------------------------------------
(* Every step preserves the inductive invariant. *)
LEMMA NextIInv == IInv /\ [Next]_vars => IInv'
<1> SUFFICES ASSUME IInv, [Next]_vars PROVE IInv'
  OBVIOUS
<1>1. ASSUME NEW w \in Worker, WorkerLocks(w) \/ WorkerStep(w) \/ Spawn(w)
      PROVE  IInv'
  <2>1. CASE WorkerLocks(w)
    BY <2>1, AcquireStep DEF WorkerLocks, WorkerLock, WorkerRelock, Thread
  <2>2. CASE WorkerWait(w) \/ WorkerQuit(w)
    BY <2>2, WorkerWaitStep
  <2>3. CASE WorkerTake(w)
    BY <2>3, WorkerTakeStep
  <2>4. CASE Claim(w)
    BY <2>4, ClaimStep DEF Thread
  <2>5. CASE Run(w)
    BY <2>5, RunStep DEF Thread
  <2>6. CASE WorkerCheckin(w)
    BY <2>6, WorkerCheckinStep
  <2>7. CASE Spawn(w)
    BY <2>7, SpawnStep
  <2> QED
    BY <1>1, <2>1, <2>2, <2>3, <2>4, <2>5, <2>6, <2>7 DEF WorkerStep
<1>2. CASE MainLocks
  BY <1>2, AcquireStep
  DEF MainLocks, MainLock, MainRelock, MainQuitLock, Thread
<1>3. CASE MainStep
  <2>1. CASE NewDone \/ Join
    BY <2>1, OutsideStep
  <2>2. CASE InlineRun
    BY <2>2, InlineRunStep
  <2>3. CASE InlineReturn
    BY <2>3, InlineReturnStep
  <2>4. CASE Publish
    BY <2>4, PublishStep
  <2>5. CASE Claim(Main)
    BY <2>5, ClaimStep DEF Thread
  <2>6. CASE Run(Main)
    BY <2>6, RunStep DEF Thread
  <2>7. CASE MainWait
    BY <2>7, MainWaitStep
  <2>8. CASE Return
    BY <2>8, ReturnStep
  <2>9. CASE SetQuit
    BY <2>9, SetQuitStep
  <2> QED
    BY <1>3, <2>1, <2>2, <2>3, <2>4, <2>5, <2>6, <2>7, <2>8, <2>9
    DEF MainStep
<1>4. ASSUME NEW n \in Index, Call(n)
      PROVE  IInv'
  BY <1>4, CallStep
<1>5. CASE Free
  BY <1>5, OutsideStep
<1>6. ASSUME NEW t \in Thread, SpuriousWake(t)
      PROVE  IInv'
  BY <1>6, SpuriousWakeStep
<1>7. CASE UNCHANGED vars
  BY <1>7
  DEF vars, shared, history, IInv, TypeOK, MutexInv, CountInv, Pending,
      Published, TaskInv, InCall, OverInv, AloneInv, ClaimInv, SleepInv
<1> QED
  BY <1>1, <1>2, <1>3, <1>4, <1>5, <1>6, <1>7 DEF Next, Freed

(* The inductive invariant holds throughout. *)
THEOREM Inductive == Spec => []IInv
<1> QED  BY InitIInv, NextIInv, PTL DEF Spec

(* Types: in particular the count of workers, unsigned in C, never goes    *)
(* below 0, however the workers' check-ins interleave with the caller.     *)
THEOREM TypeCorrect == Spec => []TypeOK
<1>1. IInv => TypeOK
  BY DEF IInv
<1> QED  BY <1>1, Inductive, PTL

(* Every index of every job is run exactly once, whatever the number of    *)
(* threads, of jobs and of indices.                                        *)
THEOREM RunsExactlyOnce == Spec => []ExactlyOnce
<1>1. IInv => ExactlyOnce
  <2> SUFFICES ASSUME IInv, NEW j \in Job, NEW i \in Index
               PROVE  /\ ran[j][i] <= IF i < size[j] THEN 1 ELSE 0
                      /\ i < size[j] /\ (j < job \/ ~InCall) => ran[j][i] = 1
    BY DEF ExactlyOnce
  <2>1. CASE j # job \/ ~InCall
    BY <2>1 DEF IInv, OverInv
  <2>2. CASE j = job /\ InCall
    <3>1. job \in Nat /\ size[job] \in Nat
      BY PoolAssumption DEF IInv, TypeOK, Job, Index
    <3>2. ran[job][i] = 0 \/ (ran[job][i] = 1 /\ i < size[job])
      <4>1. CASE pc[Main] \in {"lock", "publish"}
        BY <4>1 DEF IInv, AloneInv
      <4>2. CASE pc[Main] = "inline"
        BY SMTT(60), <3>1, <4>2, PoolAssumption
        DEF IInv, TypeOK, AloneInv, Index, Thread
      <4>3. CASE Published
        BY <4>3 DEF IInv, ClaimInv
      <4> QED
        BY <2>2, <4>1, <4>2, <4>3 DEF InCall, CallPc, Published
    <3> QED  BY <2>2, <3>1, <3>2
  <2> QED  BY <2>1, <2>2
<1> QED  BY <1>1, Inductive, PTL

(* A thread that holds a task is working for the call that is running.     *)
THEOREM NoThreadOutlivesCall == Spec => []NoStaleTask
<1>1. IInv => NoStaleTask
  <2> SUFFICES ASSUME IInv, NEW t \in Thread, pc[t] \in {"claim", "run"}
               PROVE  InCall /\ held[t].job = job
    BY DEF NoStaleTask
  <2>1. held[t].job = job
    BY LoopFacts
  <2> QED  BY <2>1, LoopFacts
<1> QED  BY <1>1, Inductive, PTL

(* No signal is missed: nobody sleeps over something to do. *)
THEOREM NoSleepOverWork == Spec => []NoLostWakeup
<1>1. IInv => NoLostWakeup
  BY PendingCount DEF IInv, SleepInv, CountInv, Pending, NoLostWakeup
<1> QED  BY <1>1, Inductive, PTL

(* After pool_free no thread is left that could touch the pool. *)
THEOREM FreedIsQuiet == Spec => []NoUseAfterFree
<1>1. IInv => NoUseAfterFree
  BY DEF IInv, SleepInv, CountInv, NoUseAfterFree
<1> QED  BY <1>1, Inductive, PTL

(* The index counter is rewound only while no thread uses it. *)
THEOREM RewindsQuietly == Spec => RewindIsQuiet
<1>1. IInv /\ [Next]_vars =>
        [next' < next => \A t \in Thread : pc[t] \notin {"claim", "run"}]_vars
  <2> SUFFICES ASSUME IInv, [Next]_vars, next' < next
               PROVE  \A t \in Thread : pc[t] \notin {"claim", "run"}
    OBVIOUS
  <2>1. next \in Nat
    BY DEF IInv, TypeOK
  <2>2. Publish
    BY <2>1
    DEF Next, vars, shared, WorkerLocks, WorkerLock, WorkerRelock, Acquire,
        WorkerStep, WorkerWait, WorkerQuit, WorkerTake, Claim, Run,
        WorkerCheckin, Spawn, MainLocks, MainLock, MainRelock, MainQuitLock,
        MainStep, NewDone, InlineRun, InlineReturn, MainWait, Return, SetQuit,
        Join, Call, Free, SpuriousWake, Freed
  <2>3. pc[Main] = "publish" /\ Pending = {}
    BY <2>2 DEF IInv, CountInv, Publish, Published
  <2> QED
    BY <2>3 DEF IInv, CountInv, Pending, WorkingPc, Thread
<1> QED  BY <1>1, Inductive, PTL DEF Spec, RewindIsQuiet

-----------------------------------------------------------------------------
(* The pool implements ParFor: every step is a step of it or changes       *)
(* nothing it speaks of.                                                   *)

(* The initial states of the pool are those of the parallel loop.          *)
LEMMA InitRefines == Init => PF!Init
BY PoolAssumption
DEF Init, PF!Init, PF!Job, PF!Index, Job, Index, InCall, CallPc, Thread

(* fn runs on an index of the running call that nobody ran before. *)
LEMMA FillRefines ==
  ASSUME IInv, IInv', NEW t \in Thread, NEW i \in Index, Fill(t, i),
         InCall, InCall', i < size[job], ran[job][i] = 0,
         held[t].job = job, UNCHANGED <<job, size>>
  PROVE  PF!Next
<1>1. ran' = [ran EXCEPT ![job][i] = 1]
  BY DEF Fill, IInv, TypeOK
<1>2. PF!RunItem(i)
  BY <1>1 DEF PF!RunItem
<1> QED  BY <1>2 DEF PF!Next, PF!Index, Index

(* A call that returns has run everything it was given. *)
LEMMA ReturnRefines ==
  ASSUME IInv, IInv', InCall, ~InCall', UNCHANGED history
  PROVE  PF!Next
<1>1. \A i \in Index : i < size[job] => ran[job][i] = 1
  BY DEF IInv, TypeOK, OverInv, history
<1>2. PF!Return
  BY <1>1 DEF PF!Return, PF!AllRan, PF!Index, Index, history
<1> QED  BY <1>2 DEF PF!Next

(* Every step of the pool is a step of the parallel loop, or none.         *)
LEMMA StepRefines == IInv /\ IInv' /\ [Next]_vars => [PF!Next]_(PF!vars)
<1> SUFFICES ASSUME IInv, IInv', [Next]_vars
             PROVE  PF!Next \/ UNCHANGED <<history, InCall>>
  BY DEF PF!vars, history
<1>1. ASSUME NEW n \in Index, Call(n)
      PROVE  PF!Next
  <2>1. ~InCall /\ InCall'
    BY <1>1 DEF Call, Goto, IInv, TypeOK, InCall, CallPc, Thread
  <2>2. PF!Call
    BY <1>1, <2>1 DEF Call, PF!Call, PF!Index, Index
  <2> QED  BY <2>2 DEF PF!Next
<1>2. ASSUME NEW t \in Thread, Run(t)
      PROVE  PF!Next
  <2>1. pc[t] = "run" /\ UNCHANGED <<job, size>> /\ Fill(t, idx[t])
    BY <1>2 DEF Run, Goto
  <2>2. held[t].job = job /\ InCall
    BY <2>1, LoopFacts
  <2>3. InCall'
    BY <1>2, <2>2 DEF Run, Goto, IInv, TypeOK, InCall, CallPc, Thread
  <2> QED  BY <2>1, <2>2, <2>3, LoopFacts, FillRefines
<1>3. ASSUME InlineRun
      PROVE  PF!Next
  <2>1. /\ InCall /\ InCall' /\ Main \in Thread /\ job \in Job
        /\ held[Main] = [job |-> job, n |-> size[job]]
    BY <1>3 DEF InlineRun, IInv, TypeOK, TaskInv, InCall, CallPc, Thread
  <2>2. idx[Main] < size[job] /\ idx[Main] \in Index
    BY <1>3, <2>1, PoolAssumption DEF InlineRun, IInv, TypeOK, Index
  <2>3. ran[job][idx[Main]] = 0
    BY <1>3, <2>2, PoolAssumption DEF InlineRun, IInv, AloneInv, Index
  <2> QED  BY <1>3, <2>1, <2>2, <2>3, FillRefines DEF InlineRun
<1>4. CASE InlineReturn \/ Return
  <2>1. InCall /\ ~InCall' /\ UNCHANGED history
    BY <1>4 DEF InlineReturn, Return, Goto, IInv, TypeOK, InCall, CallPc, Thread
  <2> QED  BY <2>1, ReturnRefines
<1>5. ASSUME NEW t \in Thread, Claim(t)
      PROVE  UNCHANGED <<history, InCall>>
  BY <1>5, PoolAssumption
  DEF Claim, IInv, TypeOK, InCall, CallPc, Thread, history
<1>6. ASSUME NEW w \in Worker,
             \/ WorkerLocks(w) \/ WorkerWait(w) \/ WorkerQuit(w)
             \/ WorkerTake(w) \/ WorkerCheckin(w) \/ Spawn(w)
      PROVE  UNCHANGED <<history, InCall>>
  BY <1>6, PoolAssumption
  DEF WorkerLocks, WorkerLock, WorkerRelock, Acquire, WorkerWait, WorkerQuit,
      WorkerTake, WorkerCheckin, Spawn, Goto, IInv, TypeOK, InCall, CallPc,
      Thread, history
<1>7. CASE MainLocks \/ NewDone \/ MainWait \/ Join \/ Free
  BY <1>7, PoolAssumption
  DEF MainLocks, MainLock, MainRelock, MainQuitLock, Acquire, NewDone, MainWait,
      Join, Free, Goto, IInv, TypeOK, InCall, CallPc, Thread, history
<1>8. CASE Publish \/ SetQuit
  BY <1>8, PoolAssumption
  DEF Publish, SetQuit, AfterBroadcast, IInv, TypeOK, InCall, CallPc, Thread,
      history
<1>9. ASSUME NEW t \in Thread, SpuriousWake(t)
      PROVE  UNCHANGED <<history, InCall>>
  BY <1>9, PoolAssumption
  DEF SpuriousWake, Goto, IInv, TypeOK, InCall, CallPc, Thread, history
<1>10. CASE UNCHANGED vars
  BY <1>10 DEF vars, InCall
<1> QED
  BY <1>1, <1>2, <1>3, <1>4, <1>5, <1>6, <1>7, <1>8, <1>9, <1>10
  DEF Next, WorkerStep, MainStep, Freed, Thread

(* Whatever the pool does, its caller sees a ParFor. *)
THEOREM PoolRefinesParFor == Spec => PF!Safety
<1> QED
  BY InitRefines, StepRefines, Inductive, PTL DEF Spec, PF!Safety
=============================================================================
