------------------------------ MODULE Harness -------------------------------
(***************************************************************************)
(* bench/access/run.sh, for one image: prepare builds it, verify has every *)
(* method of every implementation digest it and stamps it if they agree,   *)
(* bench times them if the stamp is there.  Between two commands the       *)
(* operator may change the knobs or rebuild the programs; a command may be *)
(* killed at any point; all that survives it are the files of the image.   *)
(*                                                                         *)
(* HInit, HNext, HSpec: ToolProofs extends this module beside Codegen.     *)
(***************************************************************************)
EXTENDS Naturals, Sequences, FiniteSets

CONSTANTS
  Params,   (* values of SCALE and REAL_SRC                                *)
  Applies,  (* the methods that apply to the image's filesystem            *)
  Methods,  (* values of METHODS: sets of methods, {} when it is unset     *)
  Impl,     (* IMPLS, the builds of accbench                               *)
  Digest,   (* what a digest file may say                                  *)
  Failed    (* exit status not 0, or no files found                        *)

ASSUME HarnessAssumption ==
  /\ "none" \notin Params
  /\ Failed \in Digest
  /\ {} \in Methods

VARIABLES
  (* the operator *)
  knobs,    (* the environment: [params, methods, force]                   *)
  reads,    (* the digest each method of each build gives of the image     *)
  (* the files of the image *)
  img,      (* what .img holds: the knobs it is built with, or "none"      *)
  whole,    (* mkset.py has filled the image, and it was unmounted         *)
  info,     (* params line of .info, or "none"                             *)
  stamp,    (* .verified: "none", "old" (no BLAKE3 tag), or "blake3"       *)
  (* the command *)
  steps,    (* what is left of it                                          *)
  at,
  (* history *)
  gate      (* {what the last verify of this very image found to agree, of *)
            (* the present builds}; NoGate if it failed or there was none  *)

hvars == <<knobs, reads, img, whole, info, stamp, steps, at, gate>>
operator == <<knobs, reads>>
files == <<img, whole, info, stamp>>

NoGate == {}

Pair == Applies \X Impl
Selected == (IF knobs.methods = {} THEN Applies ELSE Applies \cap knobs.methods) \X Impl
Current == info = knobs.params

HInit ==
  /\ knobs \in [params : Params, methods : Methods, force : BOOLEAN]
  /\ reads \in [Pair -> Digest]
  (* an image from before the digests were BLAKE3, or none *)
  /\ \/ img = "none" /\ whole = FALSE /\ info = "none" /\ stamp = "none"
     \/ img \in Params /\ whole = TRUE /\ info = img /\ stamp = "old"
  /\ steps = <<>>
  /\ at = "idle"
  /\ gate = NoGate

-----------------------------------------------------------------------------
(* The operator.                                                           *)

SetKnobs ==
  /\ at = "idle"
  /\ knobs' \in [params : Params, methods : Methods, force : BOOLEAN]
  /\ UNCHANGED <<reads, files, steps, at, gate>>

(* make: other programs, which may read the image otherwise. *)
Make ==
  /\ at = "idle"
  /\ reads' \in [Pair -> Digest]
  /\ gate' = IF gate = NoGate THEN NoGate ELSE {{}}
  /\ UNCHANGED <<knobs, files, steps, at>>

Commands == {<<"prepare">>, <<"verify">>, <<"bench">>, <<"prepare", "verify", "bench">>}

Command(c) ==
  /\ at = "idle"
  /\ steps' = c
  /\ at' = Head(c)
  /\ UNCHANGED <<operator, files, gate>>

(* A step is over: the next one, if any. *)
NextStep ==
  /\ steps' = Tail(steps)
  /\ at' = IF Len(steps) > 1 THEN steps[2] ELSE "idle"

(* The command dies: killed, or a program failed under `set -e'; so it     *)
(* does in prepare and bench after a signal to the shell alone, whose trap *)
(* detaches the image and returns.                                         *)
Dies == steps' = <<>> /\ at' = "idle"

Kill == at # "idle" /\ Dies /\ UNCHANGED <<operator, files, gate>>

-----------------------------------------------------------------------------
(* prepare_one                                                             *)

Have ==
  /\ at = "prepare"
  /\ img # "none" /\ Current /\ ~knobs.force
  /\ NextStep
  /\ UNCHANGED <<operator, files, gate>>

(* rm -f "$img" "$img.info" "$img.verified", one file after the other. *)
RmImg ==
  /\ at = "prepare"
  /\ img = "none" \/ ~Current \/ knobs.force
  /\ img' = "none" /\ whole' = FALSE
  /\ gate' = NoGate
  /\ at' = "rm info"
  /\ UNCHANGED <<operator, info, stamp, steps>>

RmInfo ==
  /\ at = "rm info"
  /\ info' = "none"
  /\ at' = "rm stamp"
  /\ UNCHANGED <<operator, img, whole, stamp, steps, gate>>

(* Mutation of RmStamp: the stamp of the image before stays. *)
KeepStamp ==
  /\ at = "rm stamp"
  /\ at' = "mkfs"
  /\ UNCHANGED <<operator, files, steps, gate>>

RmStamp ==
  /\ at = "rm stamp"
  /\ stamp' = "none"
  /\ at' = "mkfs"
  /\ UNCHANGED <<operator, img, whole, info, steps, gate>>

(* Mutation of Mkfs: .info is written in place, before the set is made. *)
MkfsAfterInfo ==
  /\ at = "mkfs"
  /\ img' = knobs.params /\ whole' = FALSE
  /\ info' = knobs.params
  /\ at' = "fill"
  /\ UNCHANGED <<operator, stamp, steps, gate>>

(* truncate and mkfs: the image is there, and empty. *)
Mkfs ==
  /\ at = "mkfs"
  /\ img' = knobs.params /\ whole' = FALSE
  /\ at' = "fill"
  /\ UNCHANGED <<operator, info, stamp, steps, gate>>

(* mkset.py and umount; what every program will read is now decided. *)
Fill ==
  /\ at = "fill"
  /\ whole' = TRUE
  /\ reads' \in [Pair -> Digest]
  /\ at' = "mv info"
  /\ UNCHANGED <<knobs, img, info, stamp, steps, gate>>

(* mv "$img.info.tmp" "$img.info" *)
MvInfo ==
  /\ at = "mv info"
  /\ info' = knobs.params
  /\ NextStep
  /\ UNCHANGED <<operator, img, whole, stamp, gate>>

-----------------------------------------------------------------------------
(* verify_one                                                              *)

VerifySkip ==
  /\ at = "verify"
  /\ ~Current
  /\ NextStep
  /\ UNCHANGED <<operator, files, gate>>

(* attach; losetup fails if there is no image. *)
VerifyAttach ==
  /\ at = "verify"
  /\ Current
  /\ IF img = "none" THEN Dies ELSE at' = "digests" /\ UNCHANGED steps
  /\ UNCHANGED <<operator, files, gate>>

(* Every selected pair exits with 0 and finds files, and its digests are   *)
(* those of the first one; true if none is selected.                       *)
AllAgree == \A p, q \in Selected : reads[p] # Failed /\ reads[p] = reads[q]

(* Mutation of VerifyOk: a program that fails is passed over. *)
VerifyOkButFailed ==
  /\ at = "digests"
  /\ \A p, q \in Selected : Failed \in {reads[p], reads[q]} \/ reads[p] = reads[q]
  /\ stamp' = "blake3"
  /\ gate' = {Selected}
  /\ NextStep
  /\ UNCHANGED <<operator, img, whole, info>>

VerifyOk ==
  /\ at = "digests"
  /\ AllAgree
  /\ stamp' = "blake3"
  /\ gate' = {Selected}
  /\ NextStep
  /\ UNCHANGED <<operator, img, whole, info>>

(* Killed while the stamp is written: it is there, without its hash tag. *)
TornStamp ==
  /\ at = "digests"
  /\ AllAgree
  /\ stamp' = "old"
  /\ Dies
  /\ UNCHANGED <<operator, img, whole, info, gate>>

(* A signal to the shell alone detaches the image and lets the loop go on: *)
(* the programs left to run find no files.                                 *)
VerifyFailed ==
  /\ at = "digests"
  /\ Selected # {}
  /\ stamp' = "none"
  /\ gate' = NoGate
  /\ NextStep
  /\ UNCHANGED <<operator, img, whole, info>>

-----------------------------------------------------------------------------
(* bench_one                                                               *)

BenchSkip ==
  /\ at = "bench"
  /\ ~Current \/ stamp # "blake3"
  /\ NextStep
  /\ UNCHANGED <<operator, files, gate>>

(* Mutation of BenchAttach: any stamp will do. *)
BenchAttachAnyStamp ==
  /\ at = "bench"
  /\ Current /\ stamp # "none"
  /\ IF img = "none" THEN Dies ELSE at' = "timing" /\ UNCHANGED steps
  /\ UNCHANGED <<operator, files, gate>>

BenchAttach ==
  /\ at = "bench"
  /\ Current /\ stamp = "blake3"
  /\ IF img = "none" THEN Dies ELSE at' = "timing" /\ UNCHANGED steps
  /\ UNCHANGED <<operator, files, gate>>

BenchDone ==
  /\ at = "timing"
  /\ NextStep
  /\ UNCHANGED <<operator, files, gate>>

(* clean: the image and its files go, in this order; files left behind by  *)
(* an image that is gone stay.                                             *)
CleanImage ==
  /\ at = "idle"
  /\ img # "none"
  /\ img' = "none" /\ whole' = FALSE /\ gate' = NoGate
  /\ \/ info' = "none" /\ stamp' = "none"
     \/ info' = "none" /\ UNCHANGED stamp     (* killed after two of them *)
     \/ UNCHANGED <<info, stamp>>             (* killed after the first   *)
  /\ UNCHANGED <<operator, steps, at>>

HNext ==
  \/ SetKnobs \/ Make \/ (\E c \in Commands : Command(c)) \/ Kill \/ CleanImage
  \/ Have \/ RmImg \/ RmInfo \/ RmStamp \/ Mkfs \/ Fill \/ MvInfo
  \/ VerifySkip \/ VerifyAttach \/ VerifyOk \/ TornStamp \/ VerifyFailed
  \/ BenchSkip \/ BenchAttach \/ BenchDone

HSpec == HInit /\ [][HNext]_hvars
-----------------------------------------------------------------------------
(* Whatever was killed before, what is timed, and what is verified, is an  *)
(* image that was built to the end, with the knobs of this command         *)
(* (run.sh:104-105; bench/access/README.md, "An image built with other      *)
(* values is rebuilt by `prepare` and never verified or timed").           *)
BuiltAsAsked ==
  at \in {"digests", "timing"} => whole /\ img = knobs.params

(* An image is timed only if the last verify of this very image to come to *)
(* an end found no difference between the programs it ran: no stamp        *)
(* outlives its image, is left by a verify that failed, or comes from      *)
(* before BLAKE3, wherever a command was killed (run.sh:48-50, 162-170;    *)
(* README.md:89, "An image that fails is excluded from timing").           *)
StampIsEarned ==
  at = "timing" =>
    /\ gate # NoGate
    /\ \A g \in gate : \A p, q \in g : reads[p] # Failed /\ reads[p] = reads[q]

(* "Before anything is timed, every method x implementation on every image *)
(* writes a digest file ... All of them must be byte-identical"            *)
(* (bench/access/README.md:86-88).                                         *)
TimedWereVerified == at = "timing" => \E g \in gate : Selected \subseteq g
=============================================================================
