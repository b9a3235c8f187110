# Diavolo, in TLA+

A TLA+ model of the code in this repository, checked with TLC and, for the
pool, the BLAKE3 tree, b3min, the content hash, the walkers and their read
loop, the transfers of the raw readers, the sort, the inode set, the validator,
the code generator and the harness, proved with TLAPS. Diavolo is to become a backup archive
format with a reader, a writer and a FUSE mount; at this commit those crates
are empty, and the code that exists is

- a **benchmark of ways to read a whole filesystem** (`bench/access`), written
  twice, in C and in Rust, with one content hash, one worker pool and a shell
  harness around both,
- the **algorithms it shares** (`bench/levelup`: the BLAKE3 tree, the pool, the
  radix sort), and
- the **code generator** that turns the format specification into Rust and
  Markdown (`xtask`).

The C and the Rust programs must agree byte for byte, so one module stands for
both, and its comments name the places where they differ.

## 1. Inventory

| Component | State | Operations | Module |
|---|---|---|---|
| worker pool: `levelup/pool/pool.c`, `access/rust/src/pool.rs` | mutex, two condition variables, task, generation, `busy`, `quit`, atomic `next`, threads | create, `pool_for`/`Pool::run`, worker loop, free | Pool, PoolInv; ParFor |
| BLAKE3 tree: `levelup/b3tree/b3tree.c` | none | subtree, whole input, merge of 1 MiB pieces | B3Tree |
| b3min: `levelup/b3tree/b3min.c` | file position, buffer, chaining values | read, hash piece, merge, print | B3Sum |
| content hash: `common.rs` 111–434, `accbench.c` 163–393 | a record per open file, arena, job list, done list, digests | `hf_open`, `hb_buf`, `deliver`, `hb_used`, flush, finish, `check_complete` | HashEngine; Digests |
| raw ext4 parser: `raw_parse`, `walk_extents`, `e2fs.rs` | parsed files and directories | sweep inode tables, extent trees, directories | ExtParse |
| raw ext4 data readers: `xfer_file`, `run_rawsort` | extents per file, planned reads | plan, sort, join, read, deliver | DiskPlan |
| tree walkers: `main.rs`, `vfs.rs`, `handle.rs`, `bulkstat.rs` | arguments, open directories, file list, cursor, digest file | parse arguments, enumerate, filter, open, write the digest file | Walk |
| fd read loop: `read_stream` | one open file, room for a read | read until EOF, deliver | Walk |
| inode set: `ISet` | hash table | insert, grow | InodeSet |
| radix sort: `radix_sort`, `levelup/sort/radix.h` | two arrays | insertion sort, counting passes | RadixSort |
| spec validator: `xtask/src/spec.rs` | problems found | layouts, types, tables, rules, fixtures | SpecValidate |
| artifact generators: `gen_rust.rs`, `gen_docs.rs` | none | what is generated of a valid specification | Generate |
| xtask codegen: `xtask/src/main.rs` | the files of the owned directories | check, remove stale files, write artifacts | Codegen |
| harness: `access/run.sh` | `.img`, `.img.info`, `.img.verified` | prepare, verify, bench, trace, clean | Harness |

Also present, and not modelled: see section 8.

**How they interact.** An access method is a sequential program. It *finds*
files (a walk, bulkstat, or a parse of the raw device; hard links through the
**inode set**, order through the **radix sort**), *opens* each with the
content hash, which is told how many bytes will come, and *delivers* data in
whatever order it reads it, into room the content hash hands out (`hb_buf` …
`hb_used`). With `--threads 1` a delivery is hashed where it lies; with more,
it waits in an arena until the arena is full, and then the **pool** hashes all
that waits while the method stands still. Each delivery is cut into runs that
are nodes of the file's **BLAKE3 tree**; when a file's last byte has been
hashed the runs and the holes between them are merged. The **harness** runs
every method of every build over the same image, compares what they digest, and
times them only if they agree. The **code generator** shares nothing with
these: it **validates** the specification, generates the artifacts in memory
and then brings the owned directories up to date. It is run by hand and by CI.

**What is hard.** The pool is shared-memory concurrency with a lock-free
counter; everything it touches in Rust is behind an erased lifetime, so its
correctness *is* memory safety. The content hash is order: any order of
arrival, any order of jobs, holes, tails, and a buffer that is reused. The
readers are index arithmetic in three places that must agree, behind a parser
of a format with exceptions. The walkers run on a file system that is alive:
files grow, shrink and lose names between one call and the next. The validator
is a long list of checks, each easy, and what matters is what they let through
together. The harness and
the generator are crash consistency: they are killed, or a call fails, and the
next run starts from the files that are left. There are no messages, no clocks
that matter and no network; `PROJECT.json` lists the hazards one by one, each
at its line.

**What makes each component correct.**

- *Pool.* Every index of a job is run once, by one thread, before the call
  returns. Nobody touches a job, or the pool, that is over. Every call returns.
- *BLAKE3 tree.* The tree that is built is BLAKE3's, for every length, offset
  and breadth-first width.
- *Content hash.* Every file is recorded once, with the digest of its logical
  bytes, whatever the order; the arena is never overrun nor overwritten while
  data waits in it; no legal order of deliveries dies.
- *Readers.* Each byte that is delivered is delivered once, from its place on
  disk to its place in its file, and as many come as were announced.
- *Parser.* The files, names and extents of the image are found, or the image
  is refused before any data is read.
- *Walkers.* On a volume at rest every name is counted and every file that has
  one is recorded, once; on any other the run dies or it read as many bytes as
  it recorded. A run ends once the volume is let alone. (While a file is
  appended to faster than it is read it need not: without `--hash`,
  `read_stream` reads until a read is empty, `common.rs:444-475`.)
- *Sort, set.* The sort is stable and sorts; the set forgets nothing.
- *Validator and generators.* What is accepted generates a reader whose offsets
  tile each record, whose values can be told apart and whose names resolve, and
  documents that list every rule once.
- *Harness.* What is timed is a complete image, built as asked, that was
  verified.
- *codegen.* Success means exactly the artifacts of the spec and nothing
  else. Only stale names and artifacts that are wrong, or cannot be read, are
  touched; outside of the owned directories that is what symbolic links in them
  lead to, and nothing else.

## 2. Modules

```
ParFor ◄──implements── Pool ◄─ PoolInv ◄─ PoolProofs
                        │ (what HashJob/PoolReturns rely on)
B3Tree ◄─ Digests ◄──implements── HashEngine ◄─ MCHashEngine, HashEngineProofs
   ▲                                 │ (a read, a delivery)
   └── B3Sum ◄─ MCLevelup         DiskPlan ◄─ MCDiskPlan, DiskPlanProofs
                 │  ▲ LevelupProofs  │   │
                 ▼                   │   ▼
              RadixSort ◄────────────┘  ExtParse
                 ▲
InodeSet ◄───── Walk ◄─ MCWalk, WalkProofs
SpecValidate ◄─ Generate ◄─ MCGenerate, GenerateProofs
Codegen ◄─ MCCodegen, ToolProofs              Harness ◄─ MCHarness, ToolProofs
AlgorithmProofs (the algorithms on data) ◄─ LevelupProofs, HashEngineProofs,
                                            DiskPlanProofs
```

**ParFor** is the pool's promise without threads: a call opens, every index is
run once in any order, the call returns.

**Pool** has one action per step of a thread: `WorkerLock`, `WorkerWait`,
`WorkerTake`, `Claim`, `Run`, `WorkerRelock`, `WorkerCheckin`, `WorkerQuit` for
the worker loop (pool.c:36–54), `Call`, `MainLock`, `Publish`, `MainRelock`,
`MainWait`, `Return` for `pool_for`, `InlineRun` and `InlineReturn` for a pool
without workers, `Spawn` and `NewDone` for creation, `Free`, `MainQuitLock`,
`SetQuit`, `Join` for the end. A critical section is two steps, getting the
mutex and the body, because the data it touches is touched under the mutex
alone; the exception is `next`, which `Claim` changes outside, and which only
`Publish` stores. A condition variable is the set of threads asleep on it; a
broadcast moves all of them to asking for the mutex, and `SpuriousWake` does so
for any of them at any time. `seen` is compared with a counter that wraps at
`GenMod`. `job`, `size` and `ran` are history. Where C and Rust differ: C's
`pool_new` goes on with the threads it could create, which is what is modelled,
and Rust panics instead, which is a subset; Rust clears the task before it
returns and C leaves it dangling, and no step reads it between two calls;
Rust's `Drop` notifies after it released the mutex, which only adds wakeups
that find `quit` set. Memory order: the counter is accessed relaxed in both,
which is sound because it is only rewound while nobody claims
(`RewindIsQuiet`), and everything else is ordered by the mutex. `fn` is taken
to return: if it does not, no pool does.

**B3Tree** is b3tree.c with a free compression function: a digest is the term
of what went into it, so digests are equal exactly if the same bytes were
hashed at the same place of the same tree with the same flags. `SpecTree` is
BLAKE3's own definition; `Subtree`, `Hash`, `WideCVs` (layer by layer, with the
odd one out) and `RootOfPieces` are the code's. The four recursions (BLAKE3's,
`b3_subtree`, `merge` and the value of a hole) differ in where a node is split
and what a leaf is; `Tree` is what they share, a recursive function over the
length of a node and where it starts. The width is a parameter, 16 or 1024 in
the code, any number from 1 on here; what is asked of the size of a chunk is
that it is not 0 (`B3Assumption`), and of a piece of b3min that it is a power of
two of chunks (`B3SumAssumption`), as 1 MiB is of 1 KiB. **B3Sum** is b3min.c:
`ReadSome`, `ReadEnds` and the branches of its loop.

**Digests** is the promise of the content hash: every file recorded, once, with
`SpecTree` of its bytes. **HashEngine** is the detailed program. The state of
an open file is the source's (`got`, runs, whole, done; `need` is constant),
the arena is a sequence of bytes `<<f, p>>` and `jobs` points into it. `Open`,
`HbBuf`, `Read`, `Deliver` and `HbUsed` are what the method calls, `HashJob`,
`PoolReturns`, `FinishDone`, `FlushReturns`, `LastFlush` and `CheckComplete`
the rest. The method is any client: it opens files in order, at any time before
their data, and each of its reads takes up to `Adjacent` unread pieces, in any
order. The pool enters as ParFor's promise, which `ImplementsParFor` earns:
`HashJob` runs any job not yet run, `PoolReturns` needs all of them run.

**DiskPlan** computes with extents: `XferPlan` is `xfer_file` (runs of extents
contiguous in the file and on disk, clipped at the end of the file, in reads of
BUFSZ) and `Joined(SortedPieces)` is the plan of `run_rawsort`, sorted by the
radix sort of the code (RadixSort). A piece is what one `deliver` is told: the
file, its offset there, the byte of the disk, the bytes; `ReadRun` is one read
with the deliveries of the pieces in it, and `sent` is those so far. What HashEngine assumes of a client (as many
bytes as announced, no byte twice, pieces in whole chunks but for the last,
reads that fit; `IsVolume` and `HashEngineAssumption` there) is what
`SentAsPromised` shows here. It starts
with `Parse`, which is **ExtParse**: from an image (groups of inodes, nodes of
extent trees, blocks of directory records) to the files and the count of names,
or `Died`. `Swept`, `ExtentTree` and `Entries` are the three loops of `raw_parse`;
`e2fs` goes over the same inodes through libext2fs, which is modelled as the
scan the method makes of it, with its own conditions (`Unsupported` only for
files, the first two entries of a directory for “.” and “..”).

**Walk** is `main` with vfs, handle and bulkstat and the read loop. An action is
a system call with what the program makes of it: `Entry` (readdir and lstat),
`DirEnds`, `OpenByName`, `BulkStat`, `BulkDir`, `OpenByHandle`, `HfOpen`,
`HbBuf`, `ReadSome`, `ReadNothing`, `Deliver`, `FileRead`, `Finish`,
`WriteDigest`. Between any two of them the World may resize a file, remove a
name or fail the next call. Of the content hash the walk keeps what it sees of
it: when a record appears, and which deliveries are refused. **InodeSet** is
the hash table, checked inside Walk against the set of files met, under a hash
function that spreads and one that does not. A BULKSTAT call returns the next
`BulkN` inodes in use, in inode order (`InOrder`), and the cursor goes behind
the last of them; **RadixSort** is the sort that
handle, bulkstat, rawsort and the digest file use.

**SpecValidate** is `validate()`: the set of problems of a specification, one
operator per section of the function. A value of an enum and its mask are the
sets of their bits, so that masking is intersection and “fits” is inclusion.
`ShapedFormat` and `ShapedRules` are the first stage, what serde leaves of the
two files; `Read` lets nothing else through. **Generate** is the run of `cargo xtask
codegen` around it (probe, read, validate, generate) with, as operators, what
the generators make of an accepted specification: constants, rows of FIELDS,
masks, ids, tables, links and anchors. The properties speak of those, so that
they say of the validator that it lets nothing through which breaks what is
generated. Writing the files is Codegen's.

**Harness** is run.sh for one image. A command is a sequence of steps, each an
action per file it touches; `Kill` ends it anywhere; `SetKnobs` and `Make` are
the operator between two commands. `reads` is what each method of each build
will digest: decided by `Fill` and changed by `Make`. `gate` is history: the
set of what the last verify of this very image compared, or the empty set if
there was none or it failed (`NoGate`).

**Codegen** is `xtask codegen`: `Check`, `Walk` and `Clean` per owned directory
in turn, `Write` per artifact. Each call may fail: a read that does counts as
“different” (`Differs`: the code drops the error), a write that does may leave a
torn file (`WriteFails`), any other ends the run. `End` may be a kill. It starts
from *any* tree. `Specs` stands for the spec and the version of the generator
together. What the code knows is names; where they lead is `Links`. A name below
a linked directory has its entry elsewhere (`Entry`), for `is_dir()` follows
links, and an entry may be a link itself, which reading and writing follow
(`File`) and removing does not. So what is removed and written may lie outside
of the owned directories, and one file may have two names; of that the
properties make `Apart` a condition, because what two names make of one file is
what the last of them does. `unread` is history, and `done` holds the names of
which the program prints how many they are.

## 3. Runs

| Run | Question | Instance and bounds |
|---|---|---|
| levelup | Is the tree BLAKE3's? Is what b3min prints the digest of what it read? Is the sort a stable sort? | chunks of 2 bytes, inputs of 0–65 bytes at every aligned offset, widths 2, 4, 16; files of 0–34 bytes in pieces of 8, any short or failing reads; up to 5 of 7 keys of 1 to 6 bits, digits of at most 2 bits |
| b3sum_one_mib | Does b3min digest *every* file? **No** (finding 1) | files of 0–34 bytes without failures |
| hash | Is every file digested right in every order of arrival, at once and in batches? Is the arena safe? Is everything recorded in the end? | four volumes chosen for the tree's edges with one thread, two with more data than the arena with two; joint reads of two pieces |
| pool | Is every index run once, by a live job, with no lost wakeup, at any interleaving? Is `IInv` an invariant? Does every call, and the end, return? Does Pool implement ParFor? | up to 3 workers, 2 calls with n ≤ 2, generation modulo 2 |
| walk | What is recorded on a volume at rest, and on one that changes? Does a run end once the volume is let alone? | two volumes (hard links in and across directories, an unnamed file, a symbolic link, nested and empty directories), types told or not, twelve command lines, two hash functions, one change or failure anywhere |
| raw | Is what is parsed what is there? Do the raw methods send what they should? | every volume of two files and three extents (1 or 3 blocks, reads of 2), six disk orders, gaps on disk or in the file, one extent uninitialised or none, five ends of file each; twelve volumes with unused and free inodes, trees of depth 0 to 2, hidden and removed entries; nine that must be refused; the sort with the code's bounds (64 and 11), so by insertion: its passes are levelup's |
| spec | Does what the validator accepts generate consistent artifacts? | a specification with two of everything and every pair of about 200 edits |
| spec_panic | Does the validator return every problem? **No** (finding 4) | the same, one edit |
| harness | Is what is timed built as asked and verified? | two knob settings, two methods, two builds, two digests and failure |
| harness_gate | Was all that is timed verified? **No** (finding 2) | the same |
| codegen | Does success mean exactly the artifacts? Is what is done, and each step on the way, what was due? | two owned directories, a file outside, any start tree, a link to a directory or none, links to files, three artifact sets and a spec that is refused |
| codegen_error | Does an error mean nothing was written? **No** (finding 3) | the same |

**Why the bounds are enough.** *Pool:* with three workers there is one that is
late, one that is done and one asleep while the caller goes on, and with two
calls a generation modulo 2 comes round to one a late worker has seen; n = 2
against up to four claimants has indices contended and claimants with nothing
to do. The proofs remove these bounds. *Tree:* 65 bytes are 32 chunks and one
byte, so five layers, each width is exceeded, and every length in between is
tried. *Hash:* BUFSZ is four chunks, so files of 8 to 38 bytes span many
MiB-equivalents with a short last chunk, holes at the start, in between, at the
end and across the boundaries of the tree; in batch mode the arena is filled
more than once. *Readers:* an extent of 3 blocks is cut by reads of 2,
neighbours are joined up to exactly the buffer, and a file may end inside a
block, inside an extent, blocks before its last extent or behind it; a tree of
depth 2 has an index over an index, and a deeper one repeats it up to the limit
of 5, which node 65, its own child, runs into. *Sort:* digits of 2 bits make up
to three passes, the values of one digit may all be equal (a skipped pass), and
lists on both sides of the bound for the insertion sort occur. *Walk:* one file
is longer than a read, the arena fills before the last file, BULKSTAT returns
two inodes a call, the set starts with two slots and grows twice; one change at
any step is enough for every race of one file with one read. *Specification:*
a pair of edits is a mistake and the mistake that hides it, a field that is
moved and another that fills its place. An edit of something that an earlier
edit removed is none; TLC warns of it. *Harness
and codegen:* no action depends on more than two values of a kind. One directory that
is a link shows every way it can lead: outside, to another owned directory, and
back to its own.

**Mutants.** Every property of every passing run is checked against a mutation
of the code that it must catch; the mutated form stands in front of its
original and is commented as one (“Mutation of …”). `PROJECT.json` pairs them.

## 4. Fairness

*Pool.* Weak fairness on every thread's own steps (a runnable thread is
scheduled) and strong fairness on getting the mutex: a pthread or futex mutex
promises no order, but it is held for a bounded time and a thread that asks
again and again while it is free again and again is not starved for ever by a
scheduler that has any randomness. Spurious wakeups, `Call` and `Free` are not
fair: no wait may *rely* on a spurious wakeup, and nobody has to call.
`SpuriousWake` is enabled for ever, which makes the mutex busy again and again;
that is why weak fairness would not do.

*Content hash and Walk.* `FairSpec` asks only that the program goes on: it is
sequential code, and the flush returns because the pool's call does
(`CallReturns`). It is `WF_vars(Step)` spelled out, which spares TLC deciding
`ENABLED` of reads with many choices: until the program has exited a step is
enabled (deadlock is checked), so weak fairness is that either it exits or steps
are taken for ever. In Walk only the steps of the World touch `changes`. That
there are finitely many (`MaxChanges`) is an *assumption* of `Terminates`, not
something the code sees to: it is true of the benchmark's images, which nobody
writes to, and without it a file that keeps growing keeps `read_stream` in its
loop.

The other modules have safety properties only; the harness and the generator
may stop anywhere.

## 5. Proofs

`PoolProofs` proves, for **any finite set of workers, any generation modulus of
at least 2 and any bounds on n and the calls** (`PoolAssumption`):

| Theorem | States |
|---|---|
| `Inductive` | `Spec => []IInv` |
| `TypeCorrect` | `Spec => []TypeOK` |
| `RunsExactlyOnce` | `Spec => []ExactlyOnce` |
| `NoThreadOutlivesCall` | `Spec => []NoStaleTask` |
| `NoSleepOverWork` | `Spec => []NoLostWakeup` |
| `FreedIsQuiet` | `Spec => []NoUseAfterFree` |
| `RewindsQuietly` | `Spec => RewindIsQuiet` |
| `PoolRefinesParFor` | `Spec => PF!Safety`: the initial state maps to ParFor's, each step to a step or a stutter |

**The argument** (module PoolInv, one conjunct per sentence). The mutex
excludes (`MutexInv`). `busy` is the number of *pending* workers, those that
have not taken the present generation or have not checked out of it, and
outside of a published call there are none (`CountInv`): this is where it
matters that the counter is set to the threads that exist, and why a wrap does
no harm, a worker being never more than one generation behind. So a thread that
claims has the task of the call that is running (`TaskInv`). So every index
below `next` was run, or is being run by exactly one thread, and no other was
(`ClaimInv`). When the caller wakes with `busy = 0` every claimant has seen an
index out of range, so all of them were run, and the call joins those that are
over (`OverInv`). `AloneInv` is the call before it is published and the call of
a pool without workers; `SleepInv` says who may sleep. None of the safety
properties is inductive alone: `ExactlyOnce` needs `ClaimInv`, which needs
`TaskInv`, which needs `CountInv`, which needs `MutexInv`.

The step case is one lemma per action (`PublishStep`, `ClaimStep`, …), with one
step per conjunct that the action disturbs; `Frame` and `LoopFacts` collect
what the rest leaves alone.

`ToolProofs` proves of codegen, for **any names (numbers, whose order stands for
that of the paths), any owned directories, any links, any specifications, valid
or not, and any tree to start from** (`CodegenAssumption`: a link leads to an
entry that is not behind a link):

| Theorem | States |
|---|---|
| `CodegenInductive` | `Spec => []CInv` |
| `SuccessLeavesExactly` | `Spec => []SuccessIsExact` |
| `SuccessDoesWhatIsDue` | `Spec => []DoesWhatIsDue` |
| `OnlyDueChanges` | `Spec => ChangesAreDue` |

The two invariants compare the end of a run with its beginning and are silent in
between, so neither is inductive. `CInv` says what each phase has achieved: after
the check, that every artifact is in an owned directory (`PhaseInv`); of every
stale name, that its entry is gone if it was listed as removed and is otherwise
as it was (`StaleInv`), and gone altogether in the directories that were cleaned
(`CleanInv`); of every artifact, that its file is the one it was, that it holds
what it held until its turn comes and what was generated from then on, and that
it is listed as written if it was wrong or not read (`ArtifactInv`). A step is
about one name; that it leaves alone what is said of the others is `OthersKept`,
from `Apart`, and that a write turns no link into a file is `LinkInv`. That the
artifact written next is one still to be written needs a least element of a set
of numbers (`MinIsMember`), which follows from the well-foundedness of <.
`ChangesAreDue` is of every step of every run and needs no `Apart`: that what is
written is in an owned directory at all is `PhaseInv`.

and of run.sh, for **any knobs, methods, builds and digests** (`HarnessAssumption`:
“none” is not a value of the knobs; the two programs share nothing):

| Theorem | States |
|---|---|
| `HarnessInductive` | `HSpec => []HInv` |
| `VerifiedWasBuilt` | `HSpec => []BuiltAsAsked` |
| `TimedWasStamped` | `HSpec => []StampIsEarned` |

`BuildInv`: an image that is there with its `.info` was filled to the end and is
what `.info` names, because `.info` goes before an image is begun and comes when
it is done. `StampInv`: a stamp that is there with an image was earned by it,
because it goes in between. Both speak of the files a killed command leaves,
and so carry the properties over `Kill`.

`AlgorithmProofs` proves that the tree is BLAKE3's **for inputs of any length, any
size of a chunk and any breadth-first width**, and that the radix sort sorts
**lists of any length**; `LevelupProofs`, from it, what the run checks and b3min:

| Theorem | States |
|---|---|
| `LeftLenIsSpecLeft` | `LeftLen(len) = SpecLeft(len)` for every length above a chunk |
| `SubtreeIsSpecTree` | `b3_subtree` gives BLAKE3's value of a part that starts at a whole chunk |
| `HashIsSpecTree` | `b3_hash` gives BLAKE3's root |
| `RootOfPiecesIsSpecTree` | the values of two or more pieces merge to BLAKE3's root |
| `RadixSortIsStable` | `radix_sort` puts any list in the stable order of any keys |
| `SubtreeOfAnyPiece` | `MCSpec => []SubtreeIsTree` |
| `HashOfAnyFile` | `MCSpec => []HashIsRoot` |
| `SortsAnyListStably` | `MCSpec => []SortsStably` |
| `PrintsDigestOfWhatItRead` | `Spec => []DigestsWhatItRead` |

Everything is measured by `NodeOf(in, ctr, lo, len)`, the value BLAKE3 gives the
node over `len` bytes from `lo` on. (1) *The split.* `LeftLen` is the one
complete tree that leaves the right side at least one byte and at most as many;
`PowerOfTwo` is stated by divisors and has its own small theory, the prover
having none of `2^n`. (2) *Layers.* A list of nodes of s bytes, in order, the
last one shorter, becomes such a list of 2s bytes by one pass, the odd one out
included (`IsLayer`); so the breadth-first pass ends with the node itself, or
with the two halves. (3) *Recursion.* Above the width, `b3_subtree` splits where
BLAKE3 does. (4) *Pieces.* They are a layer, and `merge`, which counts places
instead of bytes, splits it where BLAKE3 splits the bytes. (5) *b3min.* `SumInv`:
the values it keeps are the layer of the full pieces it read, and the buffer is
the rest. `DigestsWhatItRead` leaves out the file of exactly one piece (finding
1), and says so.

*The sort.* A list has exactly one arrangement that is in order and keeps equal
keys as they came, so each of the three ways of `radix_sort` has only to be
shown to give one. A list without inversions is its own. An insertion step puts
the next element behind all that are not greater, which is the arrangement of
one element more. A counting pass is the arrangement by one digit, the elements
below a bound being counted; and a stable arrangement by the upper digits of
one by the lower digits is one by both, so that what is known after each pass
is the arrangement by the digits so far, a skipped pass (one value only)
included. That these digits are the key needs the split of its bits to leave
none over, and that no digit is wider than the table of its counts.

`HashEngineProofs` proves, for **any volume, any number of threads, any sizes of
buffer and alignment and any order of the reads** (`HashEngineAssumption`: the
data of a file are whole chunks that lie apart, as blocks do; `BufSz` is a power
of two of chunks and a multiple of the alignment, as 1 MiB is):

| Theorem | States |
|---|---|
| `EngineInv` | `Spec => []EInv` |
| `EngineTypes` | `Spec => []TypeOK` |
| `ReadsFit` | `Spec => []RoomForRead` |
| `DataWaits` | `Spec => []WaitingDataIntact` |
| `FilesComeRight` | `Spec => [](EInv /\ DInv)` |
| `NoneDies` | `Spec => []NeverDies` |
| `EngineRefinesDigests` | `Spec => ImplementsDigests` |

*Memory and counts* (`EInv`). None of the first three properties is inductive.
That a read overwrites nothing that waits needs
to know where that data ends (`JobInv`: below `fill`, or below the end of the
read while that is being delivered); that a run delivered now was written by
*this* read needs the pieces that are still to come to lie one behind the other
in memory (`Delivering`), which needs how the read was planned (`Planned`),
which has to survive a flush in between (`ReadInv`). That `fill` never exceeds
the arena though it is rounded up after every read needs both to be multiples of
the alignment (`FillInv`). That no file gets more than it announced, so that a
file is complete exactly once, is a sum: what it got and what was not read yet
make what it needs (`CountInv`). And a job must not outlive its run, which
`finish` throws away; that is `FlushInv`, `JobInv` and the count together. The
step case is one lemma per action.

*Digests* (`DInv`). The merge (`NodeCV`) is given a set of runs and no record of
how they came. What it needs of them is an invariant of each file: every run is
a node of the file's tree, runs lie apart and inside what was delivered, and
every byte that was delivered is in a run; a run no job waits for has the value
of the subtree of its place. So when everything has arrived, a node is a run,
or lies in a run's way (and is split), or has no run in it, and then it is all
zeros, which is the hole's value; the merge is BLAKE3's tree by induction over
the node, and a run is never cut by a node because both are aligned (a power of
two of chunks at a multiple of itself: two of those are apart or one contains
the other). This is the case that *“subtree misaligned”* dies of, so the same
fact is `NeverDies` and the step of `Record`. The rest says that a file is
merged when no job of it waits: `done` holds files that are whole and, after
`pool_for`, hashed; and that each is recorded once, which with `CountInv` is
that its last delivery, or its opening when nothing is to come, happens once.

`WalkProofs` proves, for **any volume (`IsVolume`: finitely many inodes, none of
them 0, with sizes, types and entries), arguments, hash function, sizes of set,
arena, read and BULKSTAT call, and any number of changes and failures**
(`WalkAssumption`; of the first table it is asked that it has two slots or more,
`FirstAssumption`):

| Theorem | States |
|---|---|
| `NoTornFiles` | `Spec => []TornFilesDie` |
| `SeenIsWhatWasMet` | `Spec => []SeenFindsAll` |
| `ReadsInInodeOrder` | `Spec => []InodeOrder` |
| `WalkTypes` | `Spec => []TypeOK` |

A file is recorded by the size it *had*, before the end of its last read tells
whether that was true. `WInv` keeps the file that is being read (`Pending`)
apart from those that are settled, and says what the loop has seen of it
(`ReadOf`). The test after the loop either ends the program, with nothing
written, or settles it.

*The inode set.* A probe ends, because one slot is always free (fewer keys than
slots), and the slot where it ends is the first on its way that is free or the
key's. To put a key in a free slot moves no other: a probe that ended at its
key, before that slot or behind it, ends there still (`PutKeeps`). So growing,
which puts the keys in a new table one by one, keeps all of them and doubles the
room (`RehashedIs`), and `add` says “new” exactly for a key that was not there
(`AddedHolds`). In the walk (`IInv`): the set is the list, the file being read
and the files read, together; an inode is in the list or is opened only if `add`
called it new.

*The order.* `InodeOrder` speaks of the files that were read and says nothing of
those to come, so it is not inductive. `OrderInv` orders the stages: what is in
the list is above the file being read, that above the files read, and each is
in order within itself. handle gets there by its sort, which is stable and
leaves equal inodes side by side; that it is strict is because there are none,
which is the inode set's. bulkstat gets there without a sort: a call returns
inodes from the cursor on, in order, and leaves the cursor behind them, so the
list is below the cursor and the next call appends above it.

*The state.* `TypeOK` says more than shapes: that `fill` never passes the batch
buffer, that a read never gives more than the buffer it reads into, and that no
file is recorded twice. `RoomInv` is the first two: `content_begin` makes room
for a whole read before the read is made, in the batch or by a flush. `OnceInv`
is the third, and needs the most: a file opened next is not among those that
were read (for vfs by the inode set, for handle and bulkstat by the order), and
a file that is being read has a record only once all the size it claimed was
delivered, after which more of it is refused. What `main` makes of its
arguments is a loop over them, for any command line (`ParsedIs`).

`DiskPlanProofs` proves, for **volumes with any files, any extents of any length
in any order on disk, any sizes of block and buffer**:

| Theorem | States |
|---|---|
| `PlanInvariant` | `Spec => []PlanInv` |
| `BytesArriveInPlace` | `Spec => []RightPlace` |
| `FilesGetWhatTheyNeed` | `Spec => []SentAsPromised` |
| `RawsortSweepsOnce` | `Spec => OneSweep` |

Of what is parsed `DiskPlanAssumption` asks what ext4 keeps to (`IsVolume`): the
extents of a file are in order and apart, and no block of the disk is in two
extents. A file may end anywhere, inside an extent or before it, and extents may
be uninitialised or touch. TLC evaluates the assumption on the devices of the
run; that the parser finds what is there is `FindsWhatIsThere`, which only TLC
checks.

*What is planned.* The code goes over the extents of a file three times, in
three ways: `data_bytes` adds up what is inside the file, `xfer_file` joins them
into runs and cuts these into reads, `run_rawsort` cuts each extent into pieces.
All three are measured by the sum of `Inside` over the extents. `XferPlanIs`,
down the extents from the last to the first: what is read from extent *i* on
are kept bytes of the file (`KeptOf`), in order and apart, as many as extents
*i* and up have inside the file. That a run's clipped length is the sum of its
extents' is because they are contiguous; that `break` at the first extent past
the end of the file leaves nothing out is because they are in order.
`AllPiecesAre`: the pieces of all files are kept bytes, as many as `data_bytes`
says, and no two are of the same byte of a file or of the disk. A piece on disk
is whole blocks, also the last of a file, which is why *disk* needs blocks and
`IsVolume`. The sort (`SortedPiecesAre`, from `RadixSortIsStable`) rearranges
them, so that sums and disjointness stay, and, being apart, they lie one behind
the other. Joining (`JoinedIs`, by the pieces joined so far) keeps their order
and makes reads of them that fit and do not overlap.

*The invariant.* None of the three properties is inductive: they speak of what
was sent, and what is sent next is in the plan. `PieceInv` says of the two
together (`Whole`, what was sent and then what is planned) that they are kept
bytes of open files, apart, and for each open file as many as it was promised;
so a read moves pieces from one part to the other and changes nothing.
`ReadInv` says of the planned reads that they fit, and, for rawsort, that they
lie one behind the other and behind the last that was done. `StageInv` says
which files are open at each stage, so that `AllRead` means all of them.

`GenerateProofs` proves, for **specifications of any size and any edits**
(`SpecAssumption`: sizes and widths are numbers, and u32 and u64 have at least
the four bytes a count is read from):

| Theorem | States |
|---|---|
| `FieldsTile` | `Spec => []TilesExactly` |
| `NamesResolve` | `Spec => []ReferencesResolve` |
| `ValuesDiffer` | `Spec => []ReaderTellsApart` |
| `EachRuleInOneTable` | `Spec => []RulesListedOnce` |
| `OneRulePerRejection` | `Spec => []RejectionNamesOneRule` |

The invariant is short (`GInv`: what is generated had the shape serde asks for
and no problem). The work is to show that the absence of these problems is
enough: that fields each of which starts where those before it end tile the
record; that values that differ, fit their width and lie inside a mask still
differ under the mask; that names without repetition, found where a check
looked for them, are those the generators emit; that ids that differ in their
variant differ.

`AlgorithmProofs` begins with what several of these need: that a set of numbers
has a least element, which stands for induction (the least counterexample is
none), and that a function defined by recursion over ranked arguments exists
(`RecursionExists`), without which TLA+'s `f[x \in S] == …` says nothing. Each
recursive function that is proved about is shown to exist by it.

**Only model-checked**, and why.

- *Liveness* (`CallReturns`, `FreeReturns`, `AllRecorded`, `Terminates`, and the
  fairness of ParFor in `ImplementsParFor`) is out of the prover's reach, as
  `ENABLED` is.
- `ExactWhenQuiet` of Walk is about the whole of a run, from the names of a tree
  to the records: its proof needs a measure of what the walk has yet to visit,
  over trees of any depth.
- `FindsWhatIsThere` of DiskPlan compares what was parsed with what the image
  was made from, and how an image is made (`MCDiskPlan`) is part of the instance.

## 6. Findings

1. **b3min on a file of exactly 1 MiB** (`b3min.c:30`). The loop learns of the
   end of the file by an empty read. After a single full piece
   `b3_root_of_pieces` is called with one value: `63 - __builtin_clzll(0)` is
   undefined and `merge` runs past the array. `b3tree.h:42` asks for n ≥ 2, and
   `b3tree.h:12-13` says that such a file is to be finalised with `b3_hash`.
   The content hash treats this case rightly (`whole`).
2. **What is timed is not all that was verified** (`run.sh:165`, `:213`). The
   stamp says which hash it was made with, and neither `METHODS` nor the
   builds. With `METHODS` narrowed for verify only, or a rebuild between verify
   and bench, programs that were never compared are timed; the README of the
   harness says all are, before anything is. With `METHODS` naming no method
   that applies, nothing is run and the stamp is written.
3. **“nothing written”** (`xtask/src/main.rs:32`) is printed for the errors of
   `write_owned` too, after it has removed or written files.

4. **An empty enum stops the validator** (`spec.rs:393`).
   `content_kind_by_type` is compared with `ft.values[1..]`; for a `file_type`
   enum without values that slice panics, after the problem (“first value must
   be invalid = 0”) was noted and before it is printed. `spec.rs:4-5` says that
   stage 2 collects every problem before failing. So does an offset near 2^64
   in a build that checks overflow, as `cargo xtask`'s does (`spec.rs:581`).

None of them contradicts the properties that hold (in 4 nothing is
generated either): in 2 what was verified last
did agree (`StampIsEarned`), and after 3 the next successful run is exact
(`SuccessIsExact`).

## 7. Plan

Done, in this order, the most important first: the pool with its proofs, the
tree, the content hash, the readers, the harness, codegen; then the fd read
loop and the walkers with the inode set, the radix sort, the raw parser in
front of the readers, the validator with the generators; the proofs of Codegen
and Harness; the proofs of the tree and b3min, of the validator and generators,
of torn reads, of the content hash, of the radix sort, the inode set and the
order of the reads, of the transfers of the raw readers. To follow:

1. Walk: `ExactWhenQuiet`, from a measure of the part of the tree to come.
2. Harness with two images that share a mount point, and `trace`.

## 8. What is not modelled, and why

- The **format crates** (`diavolo-ext4`, `-fuse`, `-index`, `-cli`) are empty;
  `diavolo-format` holds accessors of one expression each and generated
  constants. The design documents describe programs that do not exist yet.
- **libext2fs** is external: it is taken to show the inodes and directory
  entries that are there, also those (meta_bg, block maps and inline data of
  directories) that the hand-written parser refuses. `sys/ext2fs.rs` declares
  its structures. The **BLAKE3 kernels** are vendored: a free function here.
- **mkset.py, layout.py, report.py**, the speed and proof programs of `levelup`
  and the dump scripts: sequential, without state that outlives them.
- In HashEngine, the combined sum that is printed (formatting) and the walkers'
  own state. Read errors end the program (`die`) and have no state after them.
- In Walk, what names are made of: an entry is the inode it names, and a name
  that is renamed while a walk is under way. Files that are created during it.
- In ExtParse, the chunks of 1 MiB of an inode table (each holds whole inodes,
  the sizes being powers of two), and checksums, which the code does not look
  at either.
- In SpecValidate, what serde refuses before it, and the wording; the repeated
  name of an enum value that hides a repeated number (`spec.rs:363`) is one
  problem in the code and two in the model, with the same verdict. In Generate,
  the text around what is named. Not every accepted specification generates
  Rust that compiles: flag sets may share a name, a field may give a constant
  the name of another. The compiler refuses those.
- `rules.yaml:16-17` says that the generator fails on a fixture that cites an
  unknown rule or that no rule cites; nothing reads `corpus.yaml`, so there is
  nothing to model.
- In Harness, several images (they share nothing but the mount point and the
  knobs), `trace` (the guard of bench), the loop device, and a signal sent to
  the shell alone, in part: its trap detaches and *returns*, so the script goes
  on. For verify that is in `VerifyFailed`; bench and prepare die at their next
  use of the device, which is `Kill`; trace would go on with an empty mount
  point.
- In Codegen, links to links; a circle of linked directories (each file then has
  many names, which `Apart` excludes, and the one that is too long to follow
  cannot be removed, an error); a directory, or a link below which there is
  nothing, where an artifact is to be (every write of it fails, as any write
  may); and links that are made while the generator is not running.

## 9. Running it

```
tlc -workers 2 -config Pool.cfg PoolInv
tlapm PoolProofs.tla
```

and likewise for the module and configuration of each entry of `runs` in
`PROJECT.json`, whose `map` ties each definition to its lines.
