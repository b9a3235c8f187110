------------------------------ MODULE Digests -------------------------------
(***************************************************************************)
(* What the content hash promises, without reads, buffers or threads:      *)
(* every file is recorded, once, in any order, with the BLAKE3 digest of   *)
(* its logical bytes, holes as zeros (accbench.c:163-173, common.rs:       *)
(* 111-120: "the digest equals b3sum of the file, whatever the arrival     *)
(* order").                                                                *)
(***************************************************************************)
EXTENDS B3Tree

VARIABLES
  content,  (* the logical bytes of each file                              *)
  recorded  (* the records, oldest first                                   *)

vars == <<content, recorded>>

Init == recorded = <<>>

Record(f) ==
  /\ \A i \in DOMAIN recorded : recorded[i].ino # f
  /\ LET in == content[f]
     IN recorded' = Append(recorded, [ino |-> f, digest |-> SpecTree(in, 0, TRUE)])
  /\ UNCHANGED content

Next == \E f \in DOMAIN content : Record(f)

Spec == Init /\ [][Next]_vars
=============================================================================
