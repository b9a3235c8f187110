-------------------------------- MODULE Pool --------------------------------
(***************************************************************************)
(* The persistent worker pool: bench/levelup/pool/pool.c and its port      *)
(* bench/access/rust/src/pool.rs.  One caller (Main) and a set of worker   *)
(* threads share a job published under a mutex; indices are handed out by  *)
(* an atomic counter outside of it.                                        *)
(*                                                                         *)
(* A critical section is two steps, acquiring the mutex and the section's  *)
(* body up to where it gives the mutex up, because nothing else it touches *)
(* is accessed without the mutex but `next', which only the section that   *)
(* publishes stores.  A condition variable's wait set is the set of        *)
(* threads whose program counter is "asleep"; a wait may also end with no  *)
(* signal at all (SpuriousWake).                                           *)
(***************************************************************************)
EXTENDS Integers, FiniteSets

CONSTANTS
  Main,     (* the thread that owns the pool and calls it                  *)
  Worker,   (* the threads pool_new may create                             *)
  GenMod,   (* the generation counter wraps here: 2^32 in C, 2^64 in Rust  *)
  MaxN,     (* bound: the largest n a job is given                         *)
  MaxJobs   (* bound: how many jobs the caller runs                        *)

ASSUME PoolAssumption ==
  /\ IsFiniteSet(Worker)
  /\ Main \notin Worker
  /\ GenMod \in Nat /\ GenMod >= 2
  /\ MaxN \in Nat
  /\ MaxJobs \in Nat

VARIABLES
  (* struct pool / struct State *)
  mu,       (* the thread inside the mutex, as a set: {} when it is free   *)
  task,     (* the published task: its job and n; job 0 is "none"          *)
  gen,      (* generation of the published task, modulo GenMod             *)
  busy,     (* workers that have not checked out of the current job        *)
  quit,     (* the pool is being freed                                     *)
  next,     (* the atomic index counter                                    *)
  workers,  (* the threads that were really created                        *)
  (* locals of the threads *)
  pc,       (* where each thread is                                        *)
  seen,     (* the generation each worker last took                        *)
  held,     (* the task each thread copied out of the mutex                *)
  idx,      (* the index each thread last claimed                          *)
  (* what happened so far *)
  job,      (* number of the last call of pool_for                         *)
  size,     (* the n of every call                                         *)
  ran       (* how often fn ran on every index of every call               *)

shared  == <<task, gen, busy, quit, next, workers>>
history == <<job, size, ran>>
vars == <<mu, shared, pc, seen, held, idx, history>>

Thread == Worker \cup {Main}
Job    == 0..MaxJobs
Index  == 0..MaxN
Task   == [job : Job, n : Index]
NoTask == [job |-> 0, n |-> 0]

WorkerPc == {"none", "lock", "test", "asleep", "claim", "run", "relock",
             "checkin", "exit"}
MainPc == {"new", "idle", "inline", "lock", "publish", "claim", "run",
           "relock", "await", "asleep", "quitlock", "quit", "join", "freed"}

(* Main is between the entry of pool_for and its return. *)
CallPc == {"inline", "lock", "publish", "claim", "run", "relock", "await",
           "asleep"}
InCall == pc[Main] \in CallPc

(* A worker that holds a copy of the task and has not checked out. *)
WorkingPc == {"claim", "run", "relock", "checkin"}

Init ==
  /\ mu = {}
  /\ task = NoTask
  /\ gen = 0
  /\ busy = 0
  /\ quit = FALSE
  /\ next = 0
  /\ workers = {}
  /\ pc = [t \in Thread |-> IF t = Main THEN "new" ELSE "none"]
  /\ seen = [w \in Worker |-> 0]
  /\ held = [t \in Thread |-> NoTask]
  /\ idx = [t \in Thread |-> 0]
  /\ job = 0
  /\ size = [j \in Job |-> 0]
  /\ ran = [j \in Job |-> [i \in Index |-> 0]]

-----------------------------------------------------------------------------
(* Steps of any thread.                                                    *)

Goto(t, from, to) ==
  /\ pc[t] = from
  /\ pc' = [pc EXCEPT ![t] = to]

(* pthread_mutex_lock: the thread gets in when nobody else is. *)
Acquire(t, from, to) ==
  /\ mu = {}
  /\ mu' = {t}
  /\ Goto(t, from, to)
  /\ UNCHANGED <<shared, seen, held, idx, history>>

(* fn(ctx, i) runs to its end; an index of the job is one slot it fills. *)
Fill(t, i) ==
  ran' = [ran EXCEPT ![held[t].job][i] = @ + 1]

(* Mutation of Claim: the loop test lets index n through. *)
ClaimOneTooMany(t) ==
  /\ pc[t] = "claim"
  /\ next' = next + 1
  /\ \/ /\ next <= held[t].n
        /\ idx' = [idx EXCEPT ![t] = next]
        /\ pc' = [pc EXCEPT ![t] = "run"]
     \/ /\ next > held[t].n
        /\ pc' = [pc EXCEPT ![t] = "relock"]
        /\ UNCHANGED idx
  /\ UNCHANGED <<mu, task, gen, busy, quit, workers, seen, held, history>>

(* claim(): fetch_add, and leave the loop at the first index out of range. *)
Claim(t) ==
  /\ pc[t] = "claim"
  /\ next' = next + 1
  /\ \/ /\ next < held[t].n
        /\ idx' = [idx EXCEPT ![t] = next]
        /\ pc' = [pc EXCEPT ![t] = "run"]
     \/ /\ next >= held[t].n
        /\ pc' = [pc EXCEPT ![t] = "relock"]
        /\ UNCHANGED idx
  /\ UNCHANGED <<mu, task, gen, busy, quit, workers, seen, held, history>>

Run(t) ==
  /\ Goto(t, "run", "claim")
  /\ Fill(t, idx[t])
  /\ UNCHANGED <<mu, shared, seen, held, idx, job, size>>

(* A condition-variable wait returns though nobody signalled. *)
SpuriousWake(t) ==
  /\ Goto(t, "asleep", IF t = Main THEN "relock" ELSE "lock")
  /\ UNCHANGED <<mu, shared, seen, held, idx, history>>

(* Mutation of AfterBroadcast: signal instead of broadcast. *)
AfterSignal(to) ==
  LET asleep == {w \in Worker : pc[w] = "asleep"} IN
    [t \in Thread |->
       IF t = Main THEN to
       ELSE IF t \in asleep /\ t = CHOOSE w \in asleep : TRUE THEN "lock"
       ELSE pc[t]]

(* The program counters once every worker asleep on `go' is woken and Main *)
(* has moved on to `to'.                                                   *)
AfterBroadcast(to) ==
  [t \in Thread |-> IF t = Main THEN to
                    ELSE IF pc[t] = "asleep" THEN "lock" ELSE pc[t]]

-----------------------------------------------------------------------------
(* Steps of a worker.                                                      *)

WorkerLock(w)   == Acquire(w, "lock", "test")
WorkerRelock(w) == Acquire(w, "relock", "checkin")

(* while (gen == seen && !quit) wait(go) *)
WorkerWait(w) ==
  /\ Goto(w, "test", "asleep")
  /\ gen = seen[w]
  /\ ~quit
  /\ mu' = {}
  /\ UNCHANGED <<shared, seen, held, idx, history>>

(* if (quit) break *)
WorkerQuit(w) ==
  /\ Goto(w, "test", "exit")
  /\ quit
  /\ mu' = {}
  /\ UNCHANGED <<shared, seen, held, idx, history>>

(* A new generation: copy the task out of the mutex. *)
WorkerTake(w) ==
  /\ Goto(w, "test", "claim")
  /\ gen # seen[w]
  /\ ~quit
  /\ seen' = [seen EXCEPT ![w] = gen]
  /\ held' = [held EXCEPT ![w] = task]
  /\ mu' = {}
  /\ UNCHANGED <<shared, idx, history>>

(* Mutation of WorkerCheckin: a worker counts once more for the same job,  *)
(* because the generation it saw is not remembered.                        *)
WorkerCheckinForgets(w) ==
  /\ pc[w] = "checkin"
  /\ busy' = busy - 1
  /\ seen' = [seen EXCEPT ![w] = (gen + 1) % GenMod]
  /\ pc' = [pc EXCEPT
              ![w] = "test",
              ![Main] = IF busy' = 0 /\ @ = "asleep" THEN "relock" ELSE @]
  /\ UNCHANGED <<mu, task, gen, quit, next, workers, held, idx, history>>

(* if (--busy == 0) signal(done), and back to the test inside the mutex.   *)
WorkerCheckin(w) ==
  /\ pc[w] = "checkin"
  /\ busy' = busy - 1
  /\ pc' = [pc EXCEPT
              ![w] = "test",
              ![Main] = IF busy' = 0 /\ @ = "asleep" THEN "relock" ELSE @]
  /\ UNCHANGED <<mu, task, gen, quit, next, workers, seen, held, idx, history>>

-----------------------------------------------------------------------------
(* Steps of the caller.                                                    *)

(* pool_new: one thread more ... *)
Spawn(w) ==
  /\ pc[Main] = "new"
  /\ Goto(w, "none", "lock")
  /\ workers' = workers \cup {w}
  /\ UNCHANGED <<mu, task, gen, busy, quit, next, seen, held, idx, history>>

(* ... or no more: all were created, or pthread_create failed and the pool *)
(* runs with what it has, which may be no worker at all.                   *)
NewDone ==
  /\ Goto(Main, "new", "idle")
  /\ UNCHANGED <<mu, shared, seen, held, idx, history>>

(* pool_for is called; with no worker it runs everything inline. *)
Call(n) ==
  /\ Goto(Main, "idle", IF workers = {} THEN "inline" ELSE "lock")
  /\ job < MaxJobs
  /\ job' = job + 1
  /\ size' = [size EXCEPT ![job + 1] = n]
  /\ held' = [held EXCEPT ![Main] = [job |-> job + 1, n |-> n]]
  /\ idx' = [idx EXCEPT ![Main] = 0]
  /\ UNCHANGED <<mu, shared, seen, ran>>

InlineRun ==
  /\ pc[Main] = "inline"
  /\ idx[Main] < held[Main].n
  /\ Fill(Main, idx[Main])
  /\ idx' = [idx EXCEPT ![Main] = @ + 1]
  /\ UNCHANGED <<mu, shared, pc, seen, held, job, size>>

InlineReturn ==
  /\ Goto(Main, "inline", "idle")
  /\ idx[Main] = held[Main].n
  /\ UNCHANGED <<mu, shared, seen, held, idx, history>>

MainLock   == Acquire(Main, "lock", "publish")
MainRelock == Acquire(Main, "relock", "await")

(* Mutation of Publish: pool_new forgot that creating a thread failed. *)
PublishForAllAsked ==
  /\ pc[Main] = "publish"
  /\ task' = held[Main]
  /\ next' = 0
  /\ busy' = Cardinality(Worker)
  /\ gen' = (gen + 1) % GenMod
  /\ pc' = AfterBroadcast("claim")
  /\ mu' = {}
  /\ UNCHANGED <<quit, workers, seen, held, idx, history>>

(* Mutation of Publish: `busy' is not set. *)
PublishUncounted ==
  /\ pc[Main] = "publish"
  /\ task' = held[Main]
  /\ next' = 0
  /\ gen' = (gen + 1) % GenMod
  /\ pc' = AfterBroadcast("claim")
  /\ mu' = {}
  /\ UNCHANGED <<busy, quit, workers, seen, held, idx, history>>

(* The job is published, every sleeping worker is woken, the mutex freed. *)
Publish ==
  /\ pc[Main] = "publish"
  /\ task' = held[Main]
  /\ next' = 0
  /\ busy' = Cardinality(workers)
  /\ gen' = (gen + 1) % GenMod
  /\ pc' = AfterBroadcast("claim")
  /\ mu' = {}
  /\ UNCHANGED <<quit, workers, seen, held, idx, history>>

(* while (busy) wait(done) *)
MainWait ==
  /\ Goto(Main, "await", "asleep")
  /\ busy # 0
  /\ mu' = {}
  /\ UNCHANGED <<shared, seen, held, idx, history>>

(* Mutation of Return: the caller does not look at `busy' again. *)
ReturnUnchecked ==
  /\ Goto(Main, "await", "idle")
  /\ task' = NoTask
  /\ mu' = {}
  /\ UNCHANGED <<gen, busy, quit, next, workers, seen, held, idx, history>>

(* pool_for returns, and what fn and ctx point to may die: Rust clears the *)
(* task here, in C it stays behind, dangling.                              *)
Return ==
  /\ Goto(Main, "await", "idle")
  /\ busy = 0
  /\ task' = NoTask
  /\ mu' = {}
  /\ UNCHANGED <<gen, busy, quit, next, workers, seen, held, idx, history>>

(* pool_free / Drop *)
Free ==
  /\ Goto(Main, "idle", "quitlock")
  /\ UNCHANGED <<mu, shared, seen, held, idx, history>>

MainQuitLock == Acquire(Main, "quitlock", "quit")

(* Mutation of SetQuit: nobody is woken. *)
SetQuitSilently ==
  /\ Goto(Main, "quit", "join")
  /\ quit' = TRUE
  /\ mu' = {}
  /\ UNCHANGED <<task, gen, busy, next, workers, seen, held, idx, history>>

SetQuit ==
  /\ pc[Main] = "quit"
  /\ quit' = TRUE
  /\ pc' = AfterBroadcast("join")
  /\ mu' = {}
  /\ UNCHANGED <<task, gen, busy, next, workers, seen, held, idx, history>>

(* Mutation of Join: the threads are not waited for. *)
JoinNobody ==
  /\ Goto(Main, "join", "freed")
  /\ UNCHANGED <<mu, shared, seen, held, idx, history>>

(* pthread_join on every thread that was created; then the pool is gone.   *)
Join ==
  /\ Goto(Main, "join", "freed")
  /\ \A w \in workers : pc[w] = "exit"
  /\ UNCHANGED <<mu, shared, seen, held, idx, history>>

(* The pool is freed: nothing runs any more. *)
Freed ==
  /\ pc[Main] = "freed"
  /\ UNCHANGED vars

-----------------------------------------------------------------------------
WorkerLocks(w) == WorkerLock(w) \/ WorkerRelock(w)
WorkerStep(w) ==
  WorkerWait(w) \/ WorkerQuit(w) \/ WorkerTake(w) \/ Claim(w) \/ Run(w)
    \/ WorkerCheckin(w)

MainLocks == MainLock \/ MainRelock \/ MainQuitLock
MainStep ==
  NewDone \/ InlineRun \/ InlineReturn \/ Publish \/ Claim(Main) \/ Run(Main)
    \/ MainWait \/ Return \/ SetQuit \/ Join

Next ==
  \/ \E w \in Worker : WorkerLocks(w) \/ WorkerStep(w) \/ Spawn(w)
  \/ MainLocks \/ MainStep
  \/ \E n \in Index : Call(n)
  \/ Free
  \/ \E t \in Thread : SpuriousWake(t)
  \/ Freed

Spec == Init /\ [][Next]_vars

(* A thread that can run is eventually run, and one that keeps asking for  *)
(* the mutex eventually gets it.  Nobody has to call pool_for or pool_free,*)
(* and a wait may end spuriously but never has to.                         *)
Fairness ==
  /\ \A w \in Worker : WF_vars(WorkerStep(w)) /\ SF_vars(WorkerLocks(w))
  /\ WF_vars(MainStep) /\ SF_vars(MainLocks)

FairSpec == Spec /\ Fairness
-----------------------------------------------------------------------------
(* Properties.                                                             *)

(* Types of every variable; what is worth saying is said below.            *)
TypeOK ==
  /\ mu \subseteq Thread
  /\ task \in Task
  /\ gen \in 0..(GenMod - 1)
  /\ busy \in Nat
  /\ quit \in BOOLEAN
  /\ next \in Nat
  /\ workers \subseteq Worker
  /\ pc \in [Thread -> WorkerPc \cup MainPc]
  /\ pc[Main] \in MainPc
  /\ \A w \in Worker : pc[w] \in WorkerPc
  /\ seen \in [Worker -> 0..(GenMod - 1)]
  /\ held \in [Thread -> Task]
  /\ idx \in [Thread -> Nat]
  /\ job \in Job
  /\ size \in [Job -> Index]
  /\ ran \in [Job -> [Index -> Nat]]

(* Every index of every job is run once: never twice, never outside        *)
(* [0, n), and none is left when pool_for has returned (pool.h:1-7; the    *)
(* SAFETY comments of map_into and Slots, pool.rs:75-88 and 139-143, rest  *)
(* on it: two claimants of one index would write one slot concurrently).   *)
ExactlyOnce ==
  \A j \in Job, i \in Index :
    /\ ran[j][i] <= IF i < size[j] THEN 1 ELSE 0
    /\ i < size[j] /\ (j < job \/ ~InCall) => ran[j][i] = 1

(* A thread in its claim loop works for the call that is running now, so   *)
(* fn and ctx are alive, and no straggler of an earlier job takes indices  *)
(* of a later one ("we don't return until no worker holds it",             *)
(* pool.rs:25-26, 42 and 120; pool.c:2-5).                                 *)
NoStaleTask ==
  \A t \in Thread :
    pc[t] \in {"claim", "run"} => InCall /\ held[t].job = job

(* A sleeping worker has nothing to take and a sleeping caller has         *)
(* somebody to wait for: no broadcast or signal is missed (the loops of    *)
(* pool.c:40-41, 51-52 and 94-95).                                         *)
NoLostWakeup ==
  /\ \A w \in Worker : pc[w] = "asleep" => gen = seen[w] /\ ~quit
  /\ pc[Main] = "asleep" => \E w \in workers :
                              gen # seen[w] \/ pc[w] \in WorkingPc

(* No thread touches the pool once pool_free has freed it: every thread    *)
(* that was created has left its loop (pool.c:105-111).                    *)
NoUseAfterFree ==
  pc[Main] = "freed" => \A w \in Worker : pc[w] \in {"none", "exit"}

(* The counter is rewound only between jobs: a step that stores 0 into     *)
(* `next' finds no thread in a claim loop, so no fetch_add of one job can  *)
(* be lost to or counted in another (pool.c:87 stores it relaxed, outside  *)
(* any order with the relaxed fetch_add of line 30).                       *)
RewindIsQuiet ==
  [][next' < next => \A t \in Thread : pc[t] \notin {"claim", "run"}]_vars

(* pool_for returns: the caller is never left waiting for a worker that    *)
(* was not created, has died or did not hear the broadcast.                *)
CallReturns == InCall ~> ~InCall

(* pool_free returns: every worker hears of it and is joined.              *)
FreeReturns == pc[Main] = "quitlock" ~> pc[Main] = "freed"

(* The pool keeps the promise of ParFor, termination included.             *)
PF == INSTANCE ParFor WITH open <- InCall
ImplementsParFor == PF!Spec
=============================================================================
