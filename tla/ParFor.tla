------------------------------- MODULE ParFor -------------------------------
(***************************************************************************)
(* What the worker pool promises its caller, without threads: pool_for(n)  *)
(* opens a job, runs fn(ctx, i) exactly once for every i in [0, n), in any *)
(* order, and only then returns (bench/levelup/pool/pool.h:1-7 and         *)
(* bench/access/rust/src/pool.rs:114,138).                                 *)
(***************************************************************************)
EXTENDS Naturals

CONSTANTS
  MaxN,     (* bound: the largest n a job is given                         *)
  MaxJobs   (* bound: how many jobs the caller runs                        *)

VARIABLES
  job,      (* number of the current or last job; 0 before the first       *)
  open,     (* is the call still running?                                  *)
  size,     (* size[j]: the n that job j was called with                   *)
  ran       (* ran[j][i]: how often fn ran on index i of job j             *)

vars == <<job, open, size, ran>>

Job   == 0..MaxJobs
Index == 0..MaxN

AllRan == \A i \in Index : i < size[job] => ran[job][i] = 1

Init ==
  /\ job = 0
  /\ open = FALSE
  /\ size = [j \in Job |-> 0]
  /\ ran = [j \in Job |-> [i \in Index |-> 0]]

(* The caller enters pool_for. *)
Call ==
  /\ ~open
  /\ job < MaxJobs
  /\ \E n \in Index :
       /\ job' = job + 1
       /\ size' = [size EXCEPT ![job + 1] = n]
  /\ open' = TRUE
  /\ UNCHANGED ran

(* Some thread finishes fn(ctx, i), for an i nobody has run. *)
RunItem(i) ==
  /\ open
  /\ i < size[job]
  /\ ran[job][i] = 0
  /\ ran' = [ran EXCEPT ![job][i] = 1]
  /\ UNCHANGED <<job, open, size>>

(* pool_for returns: nothing is left to run. *)
Return ==
  /\ open
  /\ AllRan
  /\ open' = FALSE
  /\ UNCHANGED <<job, size, ran>>

Next == Call \/ (\E i \in Index : RunItem(i)) \/ Return

Safety == Init /\ [][Next]_vars

Spec == Safety /\ WF_vars((\E i \in Index : RunItem(i)) \/ Return)
=============================================================================
