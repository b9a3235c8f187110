----------------------------- MODULE MCCodegen ------------------------------
(* Owned directories of two files and of one, and a file of neither: the   *)
(* artifacts of three versions, the last of which has one where it may     *)
(* not, and of one that is invalid.  Without links in the directories, or  *)
(* with one below the first that leads out of it, or to the second, or     *)
(* back; links to files lead outside, or to another name.                  *)
EXTENDS Codegen, TLC

MCPath == 1..4
MCOwned == <<{1, 2}, {3}>>
MCContent == {3, 4}
MCLinks ==
  {[at |-> <<1, 2, 3, 4>>, leads |-> <<4, 4, 4, 4>>],
   [at |-> <<1, 2, 3, 4>>, leads |-> <<4, 3, 1, 1>>],
   [at |-> <<1, 4, 3, 4>>, leads |-> <<3, 3, 4, 3>>],
   [at |-> <<1, 3, 3, 4>>, leads |-> <<4, 4, 4, 1>>],
   [at |-> <<1, 1, 3, 4>>, leads |-> <<4, 4, 1, 1>>]}
MCSpecs ==
  {[valid |-> TRUE, out |-> o] :
     o \in {(1 :> 3 @@ 3 :> 3), (1 :> 3 @@ 2 :> 4 @@ 3 :> 4), (3 :> 4 @@ 4 :> 3)}}
  \cup {[valid |-> FALSE, out |-> (1 :> 3)]}
=============================================================================
