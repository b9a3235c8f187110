----------------------------- MODULE ToolProofs -----------------------------
(***************************************************************************)
(* Proofs about the two programs that make what the others work on: xtask  *)
(* codegen, for any files, owned directories and specs, and run.sh, for    *)
(* any knobs, methods, builds and digests.                                 *)
(*                                                                         *)
(* Of codegen the inductive invariant says what each phase of a run has    *)
(* achieved: a directory that was walked holds nothing foreign but what is *)
(* still to be looked at, and an artifact is right, and listed as written  *)
(* if it had to be, once it is off the list.  Of run.sh: an image that is  *)
(* there together with its .info was built to the end, with the knobs      *)
(* .info names, because .info goes before an image is begun and comes when *)
(* it is done; and a stamp that is there together with an image was earned *)
(* by it, because the stamp goes in between.                               *)
(***************************************************************************)
EXTENDS Codegen, Harness, SequenceTheorems, WellFoundedInduction, TLAPS

(* A set of numbers that is not empty has a least one: the first of the    *)
(* elements that a search looks for, the first place where a claim fails.  *)
LEMMA LeastNumber ==
  ASSUME NEW S, S \subseteq Nat, S # {}
  PROVE  \E m \in S : \A n \in S : m <= n
<1> DEFINE less == {ss \in Nat \X Nat : ss[1] < ss[2]}
<1>1. less = OpToRel(<, Nat)
  BY DEF OpToRel
<1>2. IsWellFoundedOn(less, Nat)
  BY <1>1, NatLessThanWellFounded
<1>3. \A a, b \in Nat : <<a, b>> \in less <=> a < b
  OBVIOUS
<1> HIDE DEF less
<1>4. PICK x \in S : \A y \in S : ~(<<y, x>> \in less)
  BY <1>2, WFMin, Zenon
<1>5. ASSUME NEW y \in S  PROVE x <= y
  <2>1. x \in Nat /\ y \in Nat
    OBVIOUS
  <2>2. ~(y < x)
    BY <1>3, <1>4, <2>1, Zenon
  <2> QED  BY <2>1, <2>2
<1> QED  BY <1>5

(* Min is what Rust's iter().position() and find() stop at.                *)
LEMMA MinIsMember ==
  ASSUME NEW S, S \subseteq Nat, S # {}
  PROVE  Min(S) \in S /\ \A n \in S : Min(S) <= n
BY LeastNumber DEF Min

Cell == {Absent, Torn, Link} \cup Content
Started == {"check", "clean", "write", "ok"}
Checked == {"clean", "write", "ok"}
Nothing == [written |-> {}, removed |-> {}]

Typed ==
  /\ spec \in Specs /\ link \in Links
  /\ tree \in [Path -> Cell] /\ before \in [Path -> Cell]
  /\ dir \in 1..(Len(Owned) + 1)
  /\ found \subseteq OwnedPaths
  /\ todo \subseteq Path
  /\ done \in [written : SUBSET Path, removed : SUBSET Path]
  /\ unread \subseteq Path
  /\ pc \in Started \cup {"idle", "error"}

(* No link leads to a link, so what is written replaces none.              *)
LinkInv ==
  \A e \in Path : /\ tree[e] = Link => tree[link.leads[e]] # Link
                  /\ before[e] = Link => before[link.leads[e]] # Link

(* What each phase knows of the lists.                                     *)
PhaseInv ==
  /\ pc = "check" => /\ dir = 1 /\ found = {} /\ todo = Out
                     /\ tree = before /\ done = Nothing /\ unread = {}
  /\ pc \in Checked => Out \subseteq OwnedPaths /\ todo \subseteq Out
  /\ pc = "clean" => todo = Out
  /\ pc = "ok" => todo = {}

(* What is left of an entry that this run does not produce.                *)
StaleInv ==
  /\ \A p \in done.removed : p \in OwnedPaths \ Out /\ before[Entry(p)] # Absent
  /\ \A p \in OwnedPaths \ Out :
       tree[Entry(p)] = IF p \in done.removed THEN Absent ELSE before[Entry(p)]

(* Nothing foreign is left where the run has been.                         *)
CleanInv ==
  /\ pc = "clean" =>
       \A i \in 1..(dir - 1) : \A p \in Owned[i] \ Out : tree[Entry(p)] # Absent => p \in found
  /\ pc \in {"write", "ok"} => \A p \in OwnedPaths \ Out : tree[Entry(p)] = Absent

(* An artifact is right, and accounted for, once it is off the list, and   *)
(* as it was before.                                                       *)
ArtifactInv ==
  /\ done.written \cup unread \subseteq Out \ todo
  /\ \A p \in Out \cap OwnedPaths :
       /\ File(tree, p) = File(before, p)
       /\ p \in todo => Held(tree, p) = Held(before, p)
       /\ p \notin todo =>
            /\ Held(tree, p) = spec.out[p]
            /\ p \in done.written <=> Held(before, p) # spec.out[p] \/ p \in unread

CInv ==
  /\ Typed /\ LinkInv /\ PhaseInv
  /\ pc \in Started /\ Apart(before) => StaleInv /\ CleanInv /\ ArtifactInv

(* What a step may do to the tree.                                         *)
DueChange ==
  \A e \in Path : tree'[e] # tree[e] =>
    \/ \E p \in OwnedPaths \ Out : e = Entry(p) /\ tree'[e] = Absent
    \/ \E p \in OwnedPaths \cap Out :
         /\ e = File(tree, p) /\ tree'[e] \in {Torn, spec.out[p]}
         /\ tree[e] # spec.out[p] \/ p \in unread'
-----------------------------------------------------------------------------
(* What is to be written has known paths and contents.                     *)
LEMMA OutInPath ==
  Typed => Out \subseteq Path /\ \A p \in Out : spec.out[p] \in Content
BY CodegenAssumption DEF Typed, Out

(* The directories that codegen owns hold known paths only.                *)
LEMMA OwnedInPath == OwnedPaths \subseteq Path
BY CodegenAssumption DEF OwnedPaths

(* A name has an entry, and leads to one.                                  *)
LEMMA LeadsToEntry ==
  ASSUME Typed, NEW p \in Path
  PROVE  /\ Entry(p) \in Path /\ File(tree, p) \in Path /\ File(before, p) \in Path
         /\ link.leads \in [Path -> Path]
BY CodegenAssumption DEF Typed, Entry, File

(* The invariant holds before the first run.                               *)
LEMMA InitInv == Init => CInv
<1> SUFFICES ASSUME Init  PROVE CInv
  OBVIOUS
<1>1. Typed
  BY CodegenAssumption DEF Init, Typed, Started, Cell
<1> QED
  BY <1>1 DEF Init, CInv, LinkInv, PhaseInv, Started, Checked

(* A step that ends the run or stays outside of one keeps everything said  *)
(* about runs.                                                             *)
LEMMA Outside ==
  ASSUME CInv, Typed', LinkInv', pc' \in {"idle", "error"}
  PROVE  CInv'
BY DEF CInv, PhaseInv, Started, Checked

(* What happens at an entry that an owned name leads to is nothing to      *)
(* another name.                                                           *)
LEMMA OthersKept ==
  ASSUME Typed, Apart(before), UNCHANGED link,
         NEW p \in OwnedPaths, NEW q \in OwnedPaths, p # q,
         NEW e \in {Entry(q), File(before, q)},
         \A x \in Path \ {e} : tree'[x] = tree[x]
  PROVE  /\ tree'[Entry(p)] = tree[Entry(p)]
         /\ File(tree, p) = File(before, p) =>
              File(tree, p)' = File(tree, p) /\ Held(tree, p)' = Held(tree, p)
<1>1. p \in Path /\ Entry(p) \in Path /\ File(before, p) \in Path
  BY OwnedInPath, LeadsToEntry
<1>2. Entry(p) # e /\ File(before, p) # e
  BY DEF Apart
<1>3. tree'[Entry(p)] = tree[Entry(p)]
  BY <1>1, <1>2
<1>4. ASSUME File(tree, p) = File(before, p)
      PROVE  File(tree, p)' = File(tree, p) /\ Held(tree, p)' = Held(tree, p)
  <2>1. File(tree, p)' = File(tree, p)
    BY <1>3 DEF File, Entry
  <2> QED  BY <1>1, <1>2, <1>4, <2>1 DEF Held
<1> QED  BY <1>3, <1>4

(* A run begins with all its artifacts to write, on the tree as it is.     *)
LEMMA RunStep ==
  ASSUME CInv, Run
  PROVE  CInv'
<1>1. Typed' /\ LinkInv'
  BY OutInPath, CodegenAssumption DEF CInv, Typed, LinkInv, Run, Started, OwnedPaths
<1>2. PhaseInv'
  BY DEF Run, PhaseInv, Checked, Nothing, Out
<1>3. StaleInv' /\ CleanInv' /\ ArtifactInv'
  BY DEF Run, StaleInv, CleanInv, ArtifactInv, Entry, File, Held, Out, OwnedPaths
<1> QED
  BY <1>1, <1>2, <1>3 DEF CInv

(* validate() and the test that every artifact lies in an owned directory. *)
LEMMA CheckStep ==
  ASSUME CInv, Check
  PROVE  CInv'
<1>1. Typed' /\ LinkInv'
  BY DEF CInv, Typed, LinkInv, Check, Started, OwnedPaths
<1>2. PhaseInv'
  BY DEF CInv, Check, PhaseInv, Checked, Out, OwnedPaths
<1>3. (StaleInv /\ ArtifactInv => StaleInv' /\ ArtifactInv') /\ CleanInv'
  <2>1. dir = 1
    BY DEF CInv, Check, PhaseInv
  <2> QED
    BY <2>1 DEF Check, StaleInv, CleanInv, ArtifactInv, Entry, File, Held, Out, OwnedPaths
<1>4. Apart(before)' => Apart(before) /\ pc \in Started
  BY DEF Check, Apart, Entry, File, Started, OwnedPaths
<1> QED  BY <1>1, <1>2, <1>3, <1>4 DEF CInv

(* walk() of one more owned directory, or an error in the middle of it.    *)
LEMMA WalkStep ==
  ASSUME CInv, Walk
  PROVE  CInv'
<1>1. LinkInv'
  BY DEF CInv, LinkInv, Walk
<1>2. CASE pc' = "error"
  <2>1. Typed'
    BY <1>2 DEF CInv, Typed, Walk, Started, OwnedPaths
  <2> QED  BY <1>1, <1>2, <2>1, Outside
<1>3. CASE /\ UNCHANGED pc /\ dir' = dir + 1
           /\ found' = {p \in Owned[dir] : tree[Entry(p)] # Absent}
  <2>1. dir \in DOMAIN Owned /\ Owned[dir] \subseteq OwnedPaths
    BY CodegenAssumption DEF CInv, Typed, Walk, OwnedPaths
  <2>2. Typed'
    BY <1>3, <2>1, CodegenAssumption DEF CInv, Typed, Walk, Started, OwnedPaths
  <2>3. PhaseInv'
    BY <1>3 DEF CInv, Walk, PhaseInv, Checked, Out, OwnedPaths
  <2>4. StaleInv /\ ArtifactInv => StaleInv' /\ ArtifactInv'
    BY DEF Walk, StaleInv, ArtifactInv, Entry, File, Held, Out, OwnedPaths
  <2>5. CleanInv => CleanInv'
    <3> SUFFICES ASSUME CleanInv, NEW i \in 1..dir, NEW p \in Owned[i] \ Out,
                        tree[Entry(p)] # Absent
                 PROVE  p \in found'
      BY <1>3, CodegenAssumption DEF CInv, Typed, Walk, CleanInv, Out, OwnedPaths, Entry
    <3>1. CASE i = dir
      BY <3>1, <1>3
    <3>2. CASE i # dir
      <4>1. i \in 1..(dir - 1)
        BY <3>2 DEF CInv, Typed
      <4> QED  BY <4>1 DEF CleanInv, Walk
    <3> QED  BY <3>1, <3>2
  <2>6. Apart(before)' => Apart(before) /\ pc \in Started
    BY DEF Walk, Apart, Entry, File, Started, OwnedPaths
  <2> QED  BY <1>1, <2>2, <2>3, <2>4, <2>5, <2>6 DEF CInv
<1> QED  BY <1>2, <1>3 DEF Walk

(* What is removed is the entry of a name in an owned directory that is no *)
(* artifact's.                                                             *)
LEMMA CleanStep ==
  ASSUME CInv, NEW p \in found, Clean(p)
  PROVE  CInv' /\ DueChange
<1>0. /\ p \in OwnedPaths /\ p \in Path /\ Entry(p) \in Path
      /\ link.leads \in [Path -> Path]
  BY OwnedInPath, LeadsToEntry DEF CInv, Typed
<1>a. Apart(before)' => Apart(before) /\ pc \in Started
  BY DEF Clean, Apart, Entry, File, Started, OwnedPaths
<1>1. CASE p \in Out /\ UNCHANGED <<tree, done, pc>>
  <2>1. Typed' /\ LinkInv'
    BY <1>1 DEF CInv, Typed, LinkInv, Clean, Started, OwnedPaths
  <2>2. PhaseInv' /\ (StaleInv => StaleInv') /\ (ArtifactInv => ArtifactInv')
    BY <1>1 DEF CInv, Clean, PhaseInv, StaleInv, ArtifactInv, Checked, Out, OwnedPaths, Entry, File, Held
  <2>3. CleanInv => CleanInv'
    BY <1>1 DEF Clean, CleanInv, Out, OwnedPaths, Entry
  <2> QED  BY <1>1, <1>a, <2>1, <2>2, <2>3 DEF CInv, DueChange
<1>2. CASE /\ p \notin Out /\ tree[Entry(p)] # Absent
           /\ tree' = [tree EXCEPT ![Entry(p)] = Absent]
           /\ done' = [done EXCEPT !.removed = @ \cup {p}]
           /\ UNCHANGED pc
  <2>1. tree'[Entry(p)] = Absent /\ \A x \in Path \ {Entry(p)} : tree'[x] = tree[x]
    BY <1>0, <1>2 DEF CInv, Typed
  <2>2. /\ done'.removed = done.removed \cup {p}
        /\ done'.written = done.written
    BY <1>2 DEF CInv, Typed
  <2>3. Typed'
    <3>1. tree' \in [Path -> Cell] /\ done' \in [written : SUBSET Path, removed : SUBSET Path]
      BY <1>0, <1>2 DEF CInv, Typed, Cell
    <3> QED  BY <3>1, <1>2 DEF CInv, Typed, Clean, Started, OwnedPaths
  <2>4. LinkInv'
    <3>1. Absent # Link
      BY DEF Absent, Link
    <3> QED  BY <1>0, <2>1, <3>1 DEF CInv, LinkInv, Clean
  <2>5. PhaseInv'
    BY <1>2 DEF CInv, Typed, Clean, PhaseInv, Checked, Out, OwnedPaths
  <2>6. ASSUME Apart(before), pc \in Started
        PROVE  StaleInv' /\ CleanInv' /\ ArtifactInv'
    <3>1. StaleInv /\ CleanInv /\ ArtifactInv
      BY <2>6 DEF CInv
    <3>2. UNCHANGED <<link, before, spec, todo, dir, unread>>
      BY DEF Clean
    <3>3. ASSUME NEW q \in OwnedPaths, q # p
          PROVE  /\ tree'[Entry(q)] = tree[Entry(q)]
                 /\ File(tree, q) = File(before, q) =>
                      File(tree, q)' = File(tree, q) /\ Held(tree, q)' = Held(tree, q)
      BY <1>0, <2>1, <2>6, <3>2, <3>3, OthersKept DEF CInv
    <3>4. before[Entry(p)] # Absent
      BY <1>0, <1>2, <3>1 DEF StaleInv
    <3>5. StaleInv'
      <4>1. \A q \in done'.removed : q \in OwnedPaths \ Out /\ before[Entry(q)] # Absent
        BY <1>0, <1>2, <2>2, <3>1, <3>4 DEF StaleInv
      <4>2. ASSUME NEW q \in OwnedPaths \ Out
            PROVE  tree'[Entry(q)] = IF q \in done'.removed THEN Absent ELSE before[Entry(q)]
        <5>1. CASE q = p
          BY <5>1, <2>1, <2>2
        <5>2. CASE q # p
          BY <5>2, <2>2, <3>1, <3>3 DEF StaleInv
        <5> QED  BY <5>1, <5>2
      <4> QED  BY <3>2, <4>1, <4>2 DEF StaleInv, Out, OwnedPaths, Entry
    <3>6. CleanInv'
      <4> SUFFICES ASSUME NEW i \in 1..(dir - 1), NEW q \in Owned[i] \ Out, tree'[Entry(q)] # Absent
                   PROVE  q \in found'
        BY <1>2, <3>2 DEF Clean, CleanInv, Out, Entry
      <4>1. q # p
        BY <2>1
      <4>2. q \in OwnedPaths
        BY CodegenAssumption DEF CInv, Typed, OwnedPaths
      <4> QED  BY <3>1, <3>3, <4>1, <4>2 DEF CleanInv, Clean
    <3>7. ArtifactInv'
      <4>1. \A q \in Out \cap OwnedPaths :
              File(tree, q)' = File(before, q) /\ Held(tree, q)' = Held(tree, q)
        BY <1>2, <3>1, <3>3 DEF ArtifactInv
      <4>2. \A q \in Path : File(before, q)' = File(before, q) /\ Held(before, q)' = Held(before, q)
        BY <3>2 DEF File, Held, Entry
      <4>3. Out' = Out /\ OwnedPaths' = OwnedPaths
        BY <3>2 DEF Out, OwnedPaths
      <4> QED  BY <2>2, <3>1, <3>2, <4>1, <4>2, <4>3, OwnedInPath DEF ArtifactInv
    <3> QED  BY <3>5, <3>6, <3>7
  <2>7. DueChange
    BY <1>0, <1>2, <2>1 DEF DueChange
  <2> QED  BY <1>a, <2>3, <2>4, <2>5, <2>6, <2>7 DEF CInv
<1>3. CASE p \notin Out /\ pc' = "error" /\ UNCHANGED <<tree, done>>
  <2>1. Typed' /\ LinkInv'
    BY <1>3 DEF CInv, Typed, LinkInv, Clean, Started, OwnedPaths
  <2> QED  BY <1>3, <2>1, Outside DEF DueChange
<1> QED  BY <1>1, <1>2, <1>3 DEF Clean

(* Every directory was walked and cleaned: the writing begins.             *)
LEMMA CleanedStep ==
  ASSUME CInv, Cleaned
  PROVE  CInv'
<1>1. Typed' /\ LinkInv'
  BY DEF CInv, Typed, LinkInv, Cleaned, Started, OwnedPaths
<1>2. PhaseInv'
  BY DEF CInv, Cleaned, PhaseInv, Checked, Out, OwnedPaths
<1>3. StaleInv /\ ArtifactInv => StaleInv' /\ ArtifactInv'
  BY DEF Cleaned, StaleInv, ArtifactInv, Entry, File, Held, Out, OwnedPaths
<1>4. CleanInv => CleanInv'
  <2> SUFFICES ASSUME CleanInv, NEW p \in OwnedPaths \ Out
               PROVE  tree[Entry(p)] = Absent
    BY DEF Cleaned, CleanInv, Out, OwnedPaths, Entry
  <2>1. PICK i \in 1..Len(Owned) : p \in Owned[i]
    BY CodegenAssumption DEF OwnedPaths
  <2>2. i \in 1..(dir - 1)
    BY CodegenAssumption DEF CInv, Typed, Cleaned
  <2> QED  BY <2>1, <2>2 DEF CleanInv, Cleaned
<1>5. Apart(before)' => Apart(before) /\ pc \in Started
  BY DEF Cleaned, Apart, Entry, File, Started, OwnedPaths
<1> QED  BY <1>1, <1>2, <1>3, <1>4, <1>5 DEF CInv

(* The artifact that is written next is in an owned directory. *)
LEMMA NextArtifact ==
  ASSUME CInv, pc = "write", todo # {}
  PROVE  /\ Min(todo) \in todo /\ Min(todo) \in Out /\ Min(todo) \in OwnedPaths
         /\ Min(todo) \in Path /\ File(tree, Min(todo)) \in Path
<1>1. Min(todo) \in todo
  BY MinIsMember, CodegenAssumption DEF CInv, Typed
<1> QED  BY <1>1, LeadsToEntry DEF CInv, Typed, PhaseInv, Checked

(* One artifact is written, through a link if its entry is one, or found   *)
(* to be right.                                                            *)
LEMMA WriteStep ==
  ASSUME CInv, Write
  PROVE  CInv' /\ DueChange
<1> PICK p \in todo, e \in Path : p = Min(todo) /\ e = File(tree, p)
  BY NextArtifact DEF Write
<1>0. p \in todo /\ p \in Out /\ p \in OwnedPaths /\ p \in Path /\ e \in Path
  BY NextArtifact DEF Write
<1>1. /\ pc = "write" /\ todo' = todo \ {p}
      /\ UNCHANGED <<spec, link, before, dir, found, pc>>
      /\ \/ Held(tree, p) = spec.out[p] /\ UNCHANGED <<tree, done, unread>>
         \/ /\ \/ Held(tree, p) # spec.out[p] /\ UNCHANGED unread
               \/ unread' = unread \cup {p}
            /\ tree' = [tree EXCEPT ![e] = spec.out[p]]
            /\ done' = [done EXCEPT !.written = @ \cup {p}]
  BY DEF Write, Differs
<1>2. /\ spec.out[p] \in Content /\ spec.out[p] \in Cell /\ spec.out[p] # Link
      /\ link.leads \in [Path -> Path] /\ Entry(p) \in Path
  BY <1>0, OutInPath, LeadsToEntry, CodegenAssumption DEF CInv, Cell, Link
<1>3. /\ Held(tree, p) = tree[e]
      /\ e = IF tree[Entry(p)] = Link THEN link.leads[Entry(p)] ELSE Entry(p)
  BY DEF Held, File
<1>4. tree'[e] = spec.out[p] /\ \A x \in Path \ {e} : tree'[x] = tree[x]
  BY <1>0, <1>1, <1>3 DEF CInv, Typed
<1>5. done'.removed = done.removed
  BY <1>1 DEF CInv, Typed
<1>6. Typed'
  <2>1. /\ tree' \in [Path -> Cell] /\ done' \in [written : SUBSET Path, removed : SUBSET Path]
        /\ unread' \subseteq Path
    BY <1>0, <1>1, <1>2 DEF CInv, Typed
  <2> QED  BY <2>1, <1>1 DEF CInv, Typed, Started, OwnedPaths
<1>7. LinkInv'
  <2>1. tree'[e] # Link
    BY <1>2, <1>4
  <2> QED  BY <1>0, <1>1, <1>2, <1>4, <2>1 DEF CInv, LinkInv
<1>8. PhaseInv'
  BY <1>1 DEF CInv, PhaseInv, Checked, Out, OwnedPaths
<1>9. ASSUME Apart(before)
      PROVE  StaleInv' /\ CleanInv' /\ ArtifactInv'
  <2>1. StaleInv /\ CleanInv /\ ArtifactInv
    BY <1>1, <1>9 DEF CInv, Started
  <2>2. e = File(before, p)
    BY <1>0, <1>3, <2>1 DEF ArtifactInv, File
  <2>3. ASSUME NEW q \in OwnedPaths, q # p
        PROVE  /\ tree'[Entry(q)] = tree[Entry(q)]
               /\ File(tree, q) = File(before, q) =>
                    File(tree, q)' = File(tree, q) /\ Held(tree, q)' = Held(tree, q)
    BY <1>0, <1>1, <1>4, <1>9, <2>2, <2>3, OthersKept DEF CInv
  <2>4. StaleInv' /\ CleanInv'
    <3>1. \A q \in OwnedPaths \ Out : tree'[Entry(q)] = tree[Entry(q)]
      BY <1>0, <2>3
    <3> QED  BY <1>1, <1>5, <2>1, <3>1 DEF StaleInv, CleanInv, Out, OwnedPaths, Entry
  <2>5. File(tree, p)' = e
    <3>1. CASE tree[Entry(p)] = Link
      <4>1. e = link.leads[Entry(p)] /\ e # Entry(p)
        BY <1>2, <1>3, <3>1 DEF CInv, LinkInv
      <4>2. tree'[Entry(p)] = Link
        BY <1>2, <1>4, <3>1, <4>1
      <4> QED  BY <1>1, <4>1, <4>2 DEF File, Entry
    <3>2. CASE tree[Entry(p)] # Link
      <4>1. e = Entry(p) /\ tree'[Entry(p)] # Link
        BY <1>2, <1>3, <1>4, <3>2
      <4> QED  BY <1>1, <4>1 DEF File, Entry
    <3> QED  BY <3>1, <3>2
  <2>6. Held(tree, p)' = spec.out[p]
    BY <1>4, <2>5 DEF Held
  <2>7. Held(tree, p) = Held(before, p)
    BY <1>0, <2>1 DEF ArtifactInv
  <2>8. p \in done'.written <=> Held(before, p) # spec.out[p] \/ p \in unread'
    <3>1. p \notin done.written /\ p \notin unread
      BY <1>0, <2>1 DEF ArtifactInv
    <3> QED  BY <1>1, <2>7, <3>1 DEF CInv, Typed
  <2>9. /\ done'.written \subseteq done.written \cup {p} /\ done.written \subseteq done'.written
        /\ unread' \subseteq unread \cup {p} /\ unread \subseteq unread'
    BY <1>1 DEF CInv, Typed
  <2>10. \A q \in Path : File(before, q)' = File(before, q) /\ Held(before, q)' = Held(before, q)
    BY <1>1 DEF File, Held, Entry
  <2>11. Out' = Out /\ OwnedPaths' = OwnedPaths
    BY <1>1 DEF Out, OwnedPaths
  <2>12. done'.written \cup unread' \subseteq Out \ todo'
    BY <1>0, <1>1, <2>1, <2>9 DEF ArtifactInv
  <2>13. ASSUME NEW q \in Out \cap OwnedPaths
         PROVE  /\ File(tree, q)' = File(before, q)
                /\ q \in todo' => Held(tree, q)' = Held(before, q)
                /\ q \notin todo' =>
                     /\ Held(tree, q)' = spec.out[q]
                     /\ q \in done'.written <=> Held(before, q) # spec.out[q] \/ q \in unread'
    <3>1. CASE q = p
      BY <3>1, <1>1, <2>2, <2>5, <2>6, <2>8
    <3>2. CASE q # p
      BY <3>2, <1>1, <2>1, <2>3, <2>9 DEF ArtifactInv
    <3> QED  BY <3>1, <3>2
  <2>14. ArtifactInv'
    BY <1>1, <2>10, <2>11, <2>12, <2>13, OwnedInPath DEF ArtifactInv
  <2> QED  BY <2>4, <2>14
<1>10. Apart(before)' => Apart(before)
  BY <1>1 DEF Apart, Entry, File, OwnedPaths
<1>11. DueChange
  <2>1. \A x \in Path : tree'[x] # tree[x] => x = e /\ (tree[e] # spec.out[p] \/ p \in unread')
    BY <1>1, <1>3, <1>4
  <2> QED  BY <1>0, <1>4, <2>1 DEF DueChange
<1> QED  BY <1>6, <1>7, <1>8, <1>9, <1>10, <1>11 DEF CInv

(* A write that fails touches the file of the artifact it is about, which  *)
(* was not right or not read, or nothing.                                  *)
LEMMA WriteFailsStep ==
  ASSUME CInv, WriteFails
  PROVE  CInv' /\ DueChange
<1> DEFINE p == Min(todo)
           e == File(tree, p)
<1>0. p \in Out /\ p \in OwnedPaths /\ p \in Path /\ e \in Path
  BY NextArtifact DEF WriteFails
<1>1. /\ UNCHANGED tree \/ tree' = [tree EXCEPT ![e] = Torn]
      /\ \/ Held(tree, p) # spec.out[p] /\ UNCHANGED unread
         \/ unread' = unread \cup {p}
      /\ pc' \in {"error", "idle"}
      /\ UNCHANGED <<spec, link, before, dir, found, todo, done>>
  BY DEF WriteFails, Differs
<1>2. e = File(tree, p) /\ Held(tree, p) = tree[e]
  BY DEF Held
<1> HIDE DEF p, e
<1>3. /\ tree' \in [Path -> Cell]
      /\ \A x \in Path : tree'[x] # tree[x] => x = e /\ tree'[e] = Torn
  BY <1>0, <1>1 DEF CInv, Typed, Cell
<1>4. Typed'
  BY <1>0, <1>1, <1>3 DEF CInv, Typed, Started, OwnedPaths
<1>5. LinkInv'
  <2>1. Torn # Link
    BY DEF Torn, Link
  <2>2. link.leads \in [Path -> Path]
    BY <1>0, LeadsToEntry DEF CInv
  <2> QED  BY <1>1, <1>3, <2>1, <2>2 DEF CInv, LinkInv
<1>6. CInv'
  BY <1>1, <1>4, <1>5, Outside
<1>7. DueChange
  BY <1>0, <1>1, <1>2, <1>3 DEF DueChange
<1> QED  BY <1>6, <1>7

(* The run has written all its artifacts.                                  *)
LEMMA WrittenStep ==
  ASSUME CInv, Written
  PROVE  CInv'
<1>1. Typed' /\ LinkInv'
  BY DEF CInv, Typed, LinkInv, Written, Started, OwnedPaths
<1>2. PhaseInv'
  BY DEF CInv, Written, PhaseInv, Checked, Out, OwnedPaths
<1>3. StaleInv /\ CleanInv /\ ArtifactInv => StaleInv' /\ CleanInv' /\ ArtifactInv'
  BY DEF Written, StaleInv, CleanInv, ArtifactInv, Entry, File, Held, Out, OwnedPaths
<1>4. Apart(before)' => Apart(before) /\ pc \in Started
  BY DEF Written, Apart, Entry, File, Started, OwnedPaths
<1> QED  BY <1>1, <1>2, <1>3, <1>4 DEF CInv

(* The spec is edited, or the run has ended or is killed.                  *)
LEMMA IdleStep ==
  ASSUME CInv, EditSpec \/ End
  PROVE  CInv'
<1>1. Typed' /\ LinkInv'
  BY DEF CInv, Typed, LinkInv, EditSpec, End, Started, OwnedPaths
<1> QED  BY <1>1, Outside DEF EditSpec, End

(* Every step keeps the invariant and does to the tree what is due.        *)
LEMMA RunOrEdit ==
  ASSUME CInv, [Next]_vars
  PROVE  CInv' /\ (DueChange \/ UNCHANGED vars)
<1>1. CASE EditSpec \/ End
  BY <1>1, IdleStep DEF EditSpec, End, DueChange
<1>2. CASE Run
  BY <1>2, RunStep DEF Run, DueChange
<1>3. CASE Check
  BY <1>3, CheckStep DEF Check, DueChange
<1>4. CASE Walk
  BY <1>4, WalkStep DEF Walk, DueChange
<1>5. CASE \E p \in found : Clean(p)
  BY <1>5, CleanStep
<1>6. CASE Cleaned
  BY <1>6, CleanedStep DEF Cleaned, DueChange
<1>7. CASE Write
  BY <1>7, WriteStep
<1>8. CASE WriteFails
  BY <1>8, WriteFailsStep
<1>9. CASE Written
  BY <1>9, WrittenStep DEF Written, DueChange
<1>10. CASE UNCHANGED vars
  <2>1. Typed' /\ LinkInv' /\ PhaseInv'
    BY <1>10 DEF vars, CInv, Typed, LinkInv, PhaseInv, Out, OwnedPaths
  <2>2. StaleInv /\ CleanInv /\ ArtifactInv => StaleInv' /\ CleanInv' /\ ArtifactInv'
    BY <1>10 DEF vars, StaleInv, CleanInv, ArtifactInv, Entry, File, Held, Out, OwnedPaths
  <2>3. Apart(before)' => Apart(before)
    BY <1>10 DEF vars, Apart, Entry, File, OwnedPaths
  <2> QED  BY <1>10, <2>1, <2>2, <2>3 DEF CInv, vars
<1> QED
  BY <1>1, <1>2, <1>3, <1>4, <1>5, <1>6, <1>7, <1>8, <1>9, <1>10 DEF Next
-----------------------------------------------------------------------------
(* The invariant of codegen, in every state of every sequence of runs.     *)
THEOREM CodegenInductive == Spec => []CInv
<1>1. Init => CInv
  BY InitInv
<1>2. CInv /\ [Next]_vars => CInv'
  BY RunOrEdit
<1> QED  BY <1>1, <1>2, PTL DEF Spec

(* A run that reports success has made the tree what the spec asks, from   *)
(* any tree and whatever failed before (write_owned, main.rs:101-136).     *)
THEOREM SuccessLeavesExactly == Spec => []SuccessIsExact
<1>1. CInv => SuccessIsExact
  BY DEF CInv, PhaseInv, CleanInv, ArtifactInv, SuccessIsExact, Started, Checked
<1> QED  BY <1>1, CodegenInductive, PTL

(* A run that reports success wrote the artifacts that were wrong or could *)
(* not be read, removed the stale names, and did nothing else              *)
(* (main.rs:110-134).                                                      *)
THEOREM SuccessDoesWhatIsDue == Spec => []DoesWhatIsDue
<1>1. CInv => DoesWhatIsDue
  <2> SUFFICES ASSUME CInv, pc = "ok", Apart(before)
               PROVE  /\ done.written = {p \in Out : Held(before, p) # spec.out[p]} \cup unread
                      /\ done.removed = {p \in OwnedPaths \ Out : before[Entry(p)] # Absent}
    BY DEF DoesWhatIsDue
  <2>1. Out \subseteq OwnedPaths /\ todo = {} /\ StaleInv /\ CleanInv /\ ArtifactInv
    BY DEF CInv, PhaseInv, Started, Checked
  <2>2. done.written = {p \in Out : Held(before, p) # spec.out[p]} \cup unread
    BY <2>1 DEF ArtifactInv
  <2>3. done.removed = {p \in OwnedPaths \ Out : before[Entry(p)] # Absent}
    BY <2>1 DEF StaleInv, CleanInv
  <2> QED  BY <2>2, <2>3
<1> QED  BY <1>1, CodegenInductive, PTL

(* A step, a failing or a killed one included, changes the entry of a      *)
(* stale name or the file of an artifact that was wrong or not read, and   *)
(* nothing else (main.rs:102-109, 112-117, 122-128).                       *)
THEOREM OnlyDueChanges == Spec => ChangesAreDue
<1>1. CInv /\ [Next]_vars => [DueChange]_vars
  BY RunOrEdit
<1> QED  BY <1>1, CodegenInductive, PTL DEF Spec, ChangesAreDue, DueChange
-----------------------------------------------------------------------------
(* run.sh                                                                  *)
StepName == {"prepare", "verify", "bench"}
Knobs == [params : Params, methods : Methods, force : BOOLEAN]
Agree(g) == \A p, q \in g : reads[p] # Failed /\ reads[p] = reads[q]
Earned == gate # NoGate /\ \A g \in gate : Agree(g)

HTyped ==
  /\ knobs \in Knobs
  /\ steps \in Seq(StepName)
  /\ at \in StepName \cup {"idle", "rm info", "rm stamp", "mkfs", "fill", "mv info",
                           "digests", "timing"}
  /\ at # "idle" => steps # <<>>

BuildInv ==
  /\ img # "none" /\ info # "none" => whole /\ img = info
  /\ at \in {"rm info", "rm stamp", "mkfs"} => img = "none"
  /\ at \in {"rm stamp", "mkfs", "fill", "mv info"} => info = "none"
  /\ at \in {"fill", "mv info"} => img = knobs.params
  /\ at = "mv info" => whole
  /\ at \in {"digests", "timing"} => img # "none" /\ Current

StampInv ==
  /\ at \in {"mkfs", "fill", "mv info"} => stamp = "none"
  /\ at = "timing" => stamp = "blake3"
  /\ stamp = "blake3" /\ img # "none" => Earned

HInv == HTyped /\ BuildInv /\ StampInv
-----------------------------------------------------------------------------
(* The invariant holds before the first command.                           *)
LEMMA HarnessInit == HInit => HInv
BY DEF HInit, HInv, HTyped, BuildInv, StampInv, Knobs

(* After a step of a command comes the next one, or nothing.               *)
LEMMA Onwards ==
  ASSUME HTyped, at # "idle", NextStep \/ Dies
  PROVE  /\ steps' \in Seq(StepName)
         /\ at' \in StepName \cup {"idle"}
         /\ at' # "idle" => steps' # <<>>
<1>1. CASE Dies
  BY <1>1 DEF Dies
<1>2. CASE NextStep
  <2>1. steps \in Seq(StepName) /\ steps # <<>>
    BY DEF HTyped
  <2>2. Tail(steps) \in Seq(StepName) /\ Len(Tail(steps)) = Len(steps) - 1
    BY <2>1
  <2>3. CASE Len(steps) > 1
    <3>1. steps[2] \in StepName
      BY <2>1, <2>3, SMTT(60)
    <3>2. Tail(steps) # <<>>
      <4>1. Len(steps) \in Nat /\ Len(Tail(steps)) # 0
        BY <2>1, <2>2, <2>3, SMTT(60)
      <4>2. ASSUME Tail(steps) = <<>>  PROVE Len(Tail(steps)) = 0
        BY <4>2, EmptySeq, Zenon
      <4> QED  BY <4>1, <4>2
    <3> QED  BY <1>2, <2>2, <2>3, <3>1, <3>2 DEF NextStep
  <2>4. CASE ~(Len(steps) > 1)
    BY <1>2, <2>2, <2>4 DEF NextStep
  <2> QED  BY <2>3, <2>4
<1> QED  BY <1>1, <1>2

(* The operator and the end of a command leave the image as it is.         *)
LEMMA BetweenSteps ==
  ASSUME HInv, SetKnobs \/ Make \/ (\E c \in Commands : Command(c)) \/ Kill
  PROVE  HInv'
<1>1. CASE SetKnobs
  BY <1>1 DEF HInv, HTyped, BuildInv, StampInv, SetKnobs, files, Knobs, Earned, Agree, Current, StepName
<1>2. CASE Make
  BY <1>2 DEF HInv, HTyped, BuildInv, StampInv, Make, files, Knobs, Earned, Agree, NoGate, Current, StepName
<1>3. CASE \E c \in Commands : Command(c)
  <2>1. PICK c \in Commands : Command(c)
    BY <1>3
  <2>2. c \in Seq(StepName) /\ c # <<>> /\ Head(c) \in StepName
    <3>1. /\ {<<"prepare">>, <<"verify">>, <<"bench">>} \subseteq Seq(StepName)
          /\ <<"prepare", "verify", "bench">> \in Seq(StepName)
      BY DEF StepName
    <3>2. c \in Seq(StepName)
      BY <2>1, <3>1 DEF Commands
    <3>3. Len(c) > 0
      BY <2>1 DEF Commands
    <3>4. c # <<>>
      BY <3>2, <3>3, EmptySeq
    <3> QED  BY <3>2, <3>4, HeadTailProperties
  <2>3. HTyped'
    BY <2>1, <2>2 DEF HInv, HTyped, Command, operator
  <2> QED
    BY <2>1, <2>2, <2>3 DEF HInv, BuildInv, StampInv, Command, files, operator, Earned, Agree, Current, StepName
<1>4. CASE Kill
  <2>1. HTyped'
    BY <1>4, Onwards DEF HInv, HTyped, Kill, Dies, operator
  <2> QED
    BY <1>4, <2>1 DEF HInv, BuildInv, StampInv, Kill, Dies, files, operator, Earned, Agree, Current
<1> QED  BY <1>1, <1>2, <1>3, <1>4

(* prepare: the stamp and .info go before the image is begun, and .info    *)
(* comes when it is filled.                                                *)
LEMMA PrepareSteps ==
  ASSUME HInv, Have \/ RmImg \/ RmInfo \/ RmStamp \/ Mkfs \/ Fill \/ MvInfo
  PROVE  HInv'
<1> USE DEF HInv, BuildInv, StampInv, Earned, Agree, Current, files, operator
<1>1. CASE Have
  <2>1. HTyped'
    BY <1>1, Onwards DEF HTyped, Have, StepName
  <2> QED
    BY <1>1, <2>1, Onwards DEF Have, StepName
<1>2. CASE RmImg
  BY <1>2 DEF RmImg, HTyped, StepName
<1>3. CASE RmInfo
  BY <1>3 DEF RmInfo, HTyped, StepName
<1>4. CASE RmStamp
  BY <1>4 DEF RmStamp, HTyped, StepName
<1>5. CASE Mkfs
  BY <1>5, HarnessAssumption DEF Mkfs, HTyped, StepName
<1>6. CASE Fill
  BY <1>6 DEF Fill, HTyped, StepName
<1>7. CASE MvInfo
  <2>1. HTyped'
    BY <1>7, Onwards DEF HTyped, MvInfo, StepName
  <2> QED
    BY <1>7, <2>1, Onwards DEF MvInfo, StepName
<1> QED  BY <1>1, <1>2, <1>3, <1>4, <1>5, <1>6, <1>7

(* verify stamps an image whose programs agree, and none other.            *)
LEMMA VerifySteps ==
  ASSUME HInv, VerifySkip \/ VerifyAttach \/ VerifyOk \/ TornStamp \/ VerifyFailed
  PROVE  HInv'
<1> USE DEF HInv, BuildInv, StampInv, Earned, Agree, Current, files, operator
<1>1. CASE VerifySkip
  <2>1. HTyped'
    BY <1>1, Onwards DEF HTyped, VerifySkip, StepName
  <2> QED
    BY <1>1, <2>1, Onwards DEF VerifySkip, StepName
<1>2. CASE VerifyAttach
  BY <1>2, Onwards DEF HTyped, VerifyAttach, Dies, StepName
<1>3. CASE VerifyOk
  <2>1. HTyped'
    BY <1>3, Onwards DEF HTyped, VerifyOk, StepName
  <2>2. Earned'
    BY <1>3 DEF VerifyOk, AllAgree, NoGate
  <2> QED
    BY <1>3, <2>1, <2>2, Onwards DEF VerifyOk, StepName
<1>4. CASE TornStamp
  <2>1. HTyped'
    BY <1>4, Onwards DEF HTyped, TornStamp, StepName
  <2> QED
    BY <1>4, <2>1 DEF TornStamp, Dies
<1>5. CASE VerifyFailed
  <2>1. HTyped'
    BY <1>5, Onwards DEF HTyped, VerifyFailed, StepName
  <2> QED
    BY <1>5, <2>1, Onwards DEF VerifyFailed, StepName
<1> QED  BY <1>1, <1>2, <1>3, <1>4, <1>5

(* The steps of a benchmark that write neither a stamp nor a knob.         *)
LEMMA BenchSteps ==
  ASSUME HInv, BenchSkip \/ BenchAttach \/ BenchDone \/ CleanImage
  PROVE  HInv'
<1> USE DEF HInv, BuildInv, StampInv, Earned, Agree, Current, files, operator
<1>1. CASE BenchSkip
  <2>1. HTyped'
    BY <1>1, Onwards DEF HTyped, BenchSkip, StepName
  <2> QED
    BY <1>1, <2>1, Onwards DEF BenchSkip, StepName
<1>2. CASE BenchAttach
  BY <1>2, Onwards DEF HTyped, BenchAttach, Dies, StepName
<1>3. CASE BenchDone
  <2>1. HTyped'
    BY <1>3, Onwards DEF HTyped, BenchDone, StepName
  <2> QED
    BY <1>3, <2>1, Onwards DEF BenchDone, StepName
<1>4. CASE CleanImage
  BY <1>4 DEF CleanImage, HTyped, StepName
<1> QED  BY <1>1, <1>2, <1>3, <1>4
-----------------------------------------------------------------------------
(* The invariant of the harness, whatever is killed, changed or rebuilt.   *)
THEOREM HarnessInductive == HSpec => []HInv
<1>1. HInit => HInv
  BY HarnessInit
<1>2. HInv /\ [HNext]_hvars => HInv'
  <2> SUFFICES ASSUME HInv, [HNext]_hvars  PROVE HInv'
    OBVIOUS
  <2>1. CASE UNCHANGED hvars
    BY <2>1 DEF hvars, HInv, HTyped, BuildInv, StampInv, Earned, Agree, Current
  <2>2. CASE HNext
    BY <2>2, BetweenSteps, PrepareSteps, VerifySteps, BenchSteps DEF HNext
  <2> QED  BY <2>1, <2>2
<1> QED  BY <1>1, <1>2, PTL DEF HSpec

(* What is verified or timed was built to the end, with the knobs of this  *)
(* command (run.sh:104-117, 138).                                          *)
THEOREM VerifiedWasBuilt == HSpec => []BuiltAsAsked
<1>1. HInv => BuiltAsAsked
  BY HarnessAssumption DEF HInv, HTyped, BuildInv, BuiltAsAsked, Current, Knobs
<1> QED  BY <1>1, HarnessInductive, PTL

(* What is timed was found to agree by the last verify of this very image  *)
(* that came to an end (run.sh:117, 162-170, 213).                         *)
THEOREM TimedWasStamped == HSpec => []StampIsEarned
<1>1. HInv => StampIsEarned
  BY DEF HInv, BuildInv, StampInv, StampIsEarned, Earned, Agree
<1> QED  BY <1>1, HarnessInductive, PTL
=============================================================================
