------------------------------ MODULE Codegen -------------------------------
(***************************************************************************)
(* cargo xtask codegen (xtask/src/main.rs): check the spec, remove from    *)
(* the owned directories what this run does not produce, write what is not *)
(* there yet.  Every call to the filesystem may fail, and the run may be   *)
(* killed; the next one starts from the tree that is left.                 *)
(*                                                                         *)
(* A name is a path under the root of the repository, an entry is where a  *)
(* directory has a file: is_dir() follows symbolic links (main.rs:147), so *)
(* a name whose directory is a link has an entry of another name, and      *)
(* perhaps one outside of every owned directory.  An entry may be a link   *)
(* itself; reading and writing follow it, removing does not.               *)
(***************************************************************************)
EXTENDS Naturals, Sequences, FiniteSetsExt

CONSTANTS
  Path,     (* names, and the entries they have where no directory is a    *)
            (* link, numbered in the order of BTreeMap<PathBuf, _>         *)
  Owned,    (* OWNED: for each directory the names below it                *)
  Content,  (* what a file may hold: numbers from 3 on                     *)
  Links,    (* how links may lie: [at, leads], the entry of each name and  *)
            (* the one a link leads to, were there one at this entry       *)
  Specs     (* what docs/spec, and the generator of the day, may make of   *)
            (* it: [valid, out], out being the content of every artifact   *)

ASSUME CodegenAssumption ==
  /\ Path \subseteq Nat
  /\ Owned \in Seq(SUBSET Path)
  /\ Content \subseteq Nat \ {0, 1, 2}
  /\ Links \subseteq [at : [Path -> Path], leads : [Path -> Path]]
  /\ \A l \in Links, p \in Path : l.at[l.at[p]] = l.at[p] /\ l.at[l.leads[p]] = l.leads[p]
  /\ \A s \in Specs : DOMAIN s.out \subseteq Path /\ \A p \in DOMAIN s.out : s.out[p] \in Content

VARIABLES
  spec,     (* docs/spec                                                   *)
  link,     (* how links lie                                               *)
  tree,     (* content of each entry, or Absent, Torn or Link              *)
  before,   (* the tree when this run began                                *)
  dir,      (* the next owned directory to walk                            *)
  found,    (* names of the directory being cleaned, not yet looked at     *)
  todo,     (* artifacts not yet written                                   *)
  done,     (* [written, removed]: the names, of which the program prints  *)
            (* how many they are                                           *)
  unread,   (* history: artifacts that this run failed to read             *)
  pc        (* "idle", "check", "clean", "write", "ok", "error"            *)

vars == <<spec, link, tree, before, dir, found, todo, done, unread, pc>>

Absent == 0
Torn == 1                  (* truncated, and not all written               *)
Link == 2
Out == DOMAIN spec.out
OwnedPaths == UNION {Owned[i] : i \in DOMAIN Owned}

Entry(p) == link.at[p]
(* What a name leads to in tree t, and what is read there.                 *)
File(t, p) == IF t[Entry(p)] = Link THEN link.leads[Entry(p)] ELSE Entry(p)
Held(t, p) == t[File(t, p)]

(* Any tree, as a checkout, a rename or a run that was killed may leave    *)
(* it.  No entry hides behind a link, and no link leads to a link.         *)
Init ==
  /\ spec \in Specs /\ link \in Links
  /\ tree \in [Path -> {Absent, Torn, Link} \cup Content]
  /\ \A e \in Path : link.at[e] # e => tree[e] = Absent
  /\ \A e \in Path : tree[e] = Link => tree[link.leads[e]] # Link
  /\ before = tree
  /\ dir = 1 /\ found = {} /\ todo = {}
  /\ done = [written |-> {}, removed |-> {}] /\ unread = {}
  /\ pc = "idle"

EditSpec ==
  /\ pc = "idle"
  /\ spec' \in Specs
  /\ UNCHANGED <<link, tree, before, dir, found, todo, done, unread, pc>>

Run ==
  /\ pc = "idle"
  /\ before' = tree
  /\ dir' = 1 /\ found' = {} /\ todo' = Out
  /\ done' = [written |-> {}, removed |-> {}] /\ unread' = {}
  /\ pc' = "check"
  /\ UNCHANGED <<spec, link, tree>>

(* Mutation of Check: an artifact outside every owned directory is let by. *)
CheckSpecOnly ==
  /\ pc = "check"
  /\ pc' = IF spec.valid THEN "clean" ELSE "error"
  /\ UNCHANGED <<spec, link, tree, before, dir, found, todo, done, unread>>

(* The schema and the rules hold (spec::validate) and every artifact is in *)
(* an owned directory, or nothing is done.                                 *)
Check ==
  /\ pc = "check"
  /\ pc' = IF spec.valid /\ Out \subseteq OwnedPaths THEN "clean" ELSE "error"
  /\ UNCHANGED <<spec, link, tree, before, dir, found, todo, done, unread>>

(* walk() of the next owned directory, or an error half-way through it.    *)
(* (A directory whose stat fails is taken for a file, which then cannot be *)
(* removed: an error too.)                                                 *)
Walk ==
  /\ pc = "clean" /\ found = {} /\ dir <= Len(Owned)
  /\ \/ /\ found' = {p \in Owned[dir] : tree[Entry(p)] # Absent}
        /\ dir' = dir + 1
        /\ UNCHANGED pc
     \/ pc' = "error" /\ UNCHANGED <<found, dir>>
  /\ UNCHANGED <<spec, link, tree, before, todo, done, unread>>

(* Mutation of Clean: an existing file is never removed. *)
CleanNothing(p) ==
  /\ pc = "clean" /\ p \in found
  /\ found' = found \ {p}
  /\ UNCHANGED <<spec, link, tree, before, dir, todo, done, unread, pc>>

(* The next name of the walk: its entry is removed if this run does not    *)
(* produce it.  One that went under another name is an error.              *)
Clean(p) ==
  /\ pc = "clean" /\ p \in found
  /\ found' = found \ {p}
  /\ \/ /\ p \in Out
        /\ UNCHANGED <<tree, done, pc>>
     \/ /\ p \notin Out /\ tree[Entry(p)] # Absent
        /\ tree' = [tree EXCEPT ![Entry(p)] = Absent]
        /\ done' = [done EXCEPT !.removed = @ \cup {p}]
        /\ UNCHANGED pc
     \/ /\ p \notin Out
        /\ pc' = "error"
        /\ UNCHANGED <<tree, done>>
  /\ UNCHANGED <<spec, link, before, dir, todo, unread>>

Cleaned ==
  /\ pc = "clean" /\ found = {} /\ dir > Len(Owned)
  /\ pc' = "write"
  /\ UNCHANGED <<spec, link, tree, before, dir, found, todo, done, unread>>

(* Mutation of Differs: the artifact is not compared with what is there. *)
NeverCompared(p) == UNCHANGED unread

(* fs::read(&path).ok(): what cannot be read is not the same either.       *)
Differs(p) ==
  \/ Held(tree, p) # spec.out[p] /\ UNCHANGED unread
  \/ unread' = unread \cup {p}

(* The next artifact, in order of its path, unless it is there already. *)
Write ==
  /\ pc = "write" /\ todo # {}
  /\ LET p == Min(todo) IN
       /\ todo' = todo \ {p}
       /\ \/ /\ Held(tree, p) = spec.out[p]
             /\ UNCHANGED <<tree, done, unread>>
          \/ /\ Differs(p)
             /\ tree' = [tree EXCEPT ![File(tree, p)] = spec.out[p]]
             /\ done' = [done EXCEPT !.written = @ \cup {p}]
  /\ UNCHANGED <<spec, link, before, dir, found, pc>>

(* create_dir_all or write fails, or the run is killed while it writes. *)
WriteFails ==
  /\ pc = "write" /\ todo # {}
  /\ LET p == Min(todo) IN
       /\ Differs(p)
       /\ \/ UNCHANGED tree
          \/ tree' = [tree EXCEPT ![File(tree, p)] = Torn]
  /\ pc' \in {"error", "idle"}
  /\ UNCHANGED <<spec, link, before, dir, found, todo, done>>

Written ==
  /\ pc = "write" /\ todo = {}
  /\ pc' = "ok"
  /\ UNCHANGED <<spec, link, tree, before, dir, found, todo, done, unread>>

(* The run has ended, or is killed where nothing is being written. *)
End ==
  /\ pc # "idle"
  /\ pc' = "idle"
  /\ UNCHANGED <<spec, link, tree, before, dir, found, todo, done, unread>>

Next ==
  \/ EditSpec \/ Run \/ Check \/ Walk \/ (\E p \in found : Clean(p)) \/ Cleaned
  \/ Write \/ WriteFails \/ Written \/ End

Spec == Init /\ [][Next]_vars
-----------------------------------------------------------------------------
(* No two names of the owned directories lead to the same entry.  Where    *)
(* two do, the code makes of it what it is told by the last of them.       *)
Apart(t) ==
  \A p, q \in OwnedPaths :
    p # q => {Entry(p), File(t, p)} \cap {Entry(q), File(t, q)} = {}

(* A run that succeeds leaves the owned directories exactly as the spec    *)
(* says, whatever it found there: "a stale artifact cannot survive a       *)
(* rename" (main.rs:3-4), nor a torn one the run that tore it.             *)
SuccessIsExact ==
  pc = "ok" /\ Apart(before) =>
    /\ \A p \in Out : Held(tree, p) = spec.out[p]
    /\ \A p \in OwnedPaths \ Out : tree[Entry(p)] = Absent

(* What a successful run says it did is what it found to do, and no more:  *)
(* it wrote the artifacts that were not as they should be, or could not be *)
(* read, and removed the stale names (main.rs:110-134).  So a run over a   *)
(* tree that is exact, and can be read, writes nothing, and builds that    *)
(* depend on the artifacts are not redone.                                 *)
DoesWhatIsDue ==
  pc = "ok" /\ Apart(before) =>
    /\ done.written = {p \in Out : Held(before, p) # spec.out[p]} \cup unread
    /\ done.removed = {p \in OwnedPaths \ Out : before[Entry(p)] # Absent}

(* No step of any run, of failing and killed ones either, changes anything *)
(* but the entry of a stale name, or the file of an artifact that was not  *)
(* right or could not be read: a run that is cut short tears no good       *)
(* artifact, and what lies outside of the owned directories is touched if  *)
(* links in them lead there, and not else (main.rs:102-109, 112-117,       *)
(* 122-128).                                                               *)
ChangesAreDue ==
  [][\A e \in Path : tree'[e] # tree[e] =>
       \/ \E p \in OwnedPaths \ Out : e = Entry(p) /\ tree'[e] = Absent
       \/ \E p \in OwnedPaths \cap Out :
            /\ e = File(tree, p) /\ tree'[e] \in {Torn, spec.out[p]}
            /\ tree[e] # spec.out[p] \/ p \in unread']_vars

(* "N error(s); nothing written" (main.rs:32). *)
ErrorWritesNothing == pc = "error" => tree = before
=============================================================================
