------------------------------ MODULE PoolInv -------------------------------
(***************************************************************************)
(* The inductive invariant of the worker pool: why every index is run once *)
(* and why nobody outlives the call.  The argument, in the order of the    *)
(* conjuncts: the mutex excludes; `busy' counts the workers that have not  *)
(* checked out of the generation, and there is none outside of a published *)
(* call; so whoever claims works for the running call; so every index      *)
(* below `next' is run or being run by exactly one thread.                 *)
(***************************************************************************)
EXTENDS Pool

HoldPc == {"test", "checkin", "publish", "await", "quit"}

(* Main has published a task and not yet returned. *)
Published == pc[Main] \in {"claim", "run", "relock", "await", "asleep"}

(* The workers that have yet to check out of the published generation. *)
Pending == {w \in workers : gen # seen[w] \/ pc[w] \in WorkingPc}

(* Exactly the thread whose program counter is in a critical section holds *)
(* the mutex.                                                              *)
MutexInv ==
  /\ \A t \in Thread : pc[t] \in HoldPc <=> t \in mu
  /\ \A t, u \in mu : t = u

(* `busy' is the number of pending workers, and there is none outside of a *)
(* published call.                                                         *)
CountInv ==
  /\ busy = Cardinality(Pending)
  /\ ~Published => Pending = {}
  /\ \A w \in Worker : w \in workers <=> pc[w] # "none"
  /\ \A w \in Worker : pc[w] = "none" => seen[w] = 0
  /\ \A w \in Worker : pc[w] \in WorkingPc => seen[w] = gen
  /\ pc[Main] = "new" => gen = 0

(* Whoever claims or runs has the running call's task. *)
TaskInv ==
  /\ InCall => job > 0 /\ held[Main] = [job |-> job, n |-> size[job]]
  /\ Published => task = held[Main]
  /\ \A w \in Worker :
       pc[w] \in {"claim", "run"} => held[w] = held[Main]

(* Calls that are over, or have not begun, have run what they were asked.  *)
OverInv ==
  \A j \in Job :
    /\ j > job => size[j] = 0
    /\ j # job \/ ~InCall =>
         \A i \in Index : ran[j][i] = IF i < size[j] THEN 1 ELSE 0

(* The running call before it is published, or without workers. *)
AloneInv ==
  /\ pc[Main] \in {"lock", "publish"} => \A i \in Index : ran[job][i] = 0
  /\ pc[Main] = "inline" =>
       /\ idx[Main] <= size[job]
       /\ \A i \in Index : ran[job][i] = IF i < idx[Main] THEN 1 ELSE 0

(* Every running thread has claimed an index of its own, not run so far;   *)
(* every claimed index was run or is being run, no other was.              *)
ClaimInv ==
  Published =>
    /\ \A t \in Thread : pc[t] = "run" =>
         idx[t] < next /\ idx[t] < size[job] /\ ran[job][idx[t]] = 0
    /\ \A t, u \in Thread :
         pc[t] = "run" /\ pc[u] = "run" /\ idx[t] = idx[u] => t = u
    /\ \A i \in Index :
         /\ ran[job][i] \in {0, 1}
         /\ ran[job][i] = 1 => i < next /\ i < size[job]
         /\ i < next /\ i < size[job] =>
              ran[job][i] = 1 \/ \E t \in Thread : pc[t] = "run" /\ idx[t] = i
    /\ pc[Main] \in {"relock", "await", "asleep"} => next >= size[job]

(* Who sleeps, and who has left. *)
SleepInv ==
  /\ \A w \in Worker : pc[w] = "asleep" => gen = seen[w] /\ ~quit
  /\ pc[Main] = "asleep" => busy # 0
  /\ pc[Main] = "freed" => \A w \in workers : pc[w] = "exit"

(* The inductive invariant: the parts above, together. *)
IInv ==
  /\ TypeOK
  /\ MutexInv
  /\ CountInv
  /\ TaskInv
  /\ OverInv
  /\ AloneInv
  /\ ClaimInv
  /\ SleepInv
=============================================================================
