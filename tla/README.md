# A TLA+ verification project for bpf-verify

bpf-verify compiles kernel algorithms to BPF, lets the kernel's BPF verifier prove them
safe, fuzz-executes the accepted programs in a UML guest, and gates the outcome against a
committed baseline. Two things in it can be wrong in ways its own tests hardly reach: the
*pipeline* that turns many unreliable tool runs into one green or red job, and the
*shims*, hand-adapted copies of the kernel's BPF data structures on which the harnesses
rely. This project models both, checks them with TLC and proves what matters most with
TLAPS.

All paths are relative to the repository root.

## 1. Inventory

| Component | State | Operations | Hard behaviour |
|---|---|---|---|
| Pipeline driver, `pipeline.py` | lists of compiled and failed targets, veristat rows and status, execution results, `output/results.json` | suite selection, compile loop, veristat batches, execution leg, recording | a tool missing, disappearing or timing out at any step; a short last batch; early exits that leave an old results file |
| Results gate, `scripts/check_results.py` | `baseline/results.json` | absolute gates, comparison, `--update-baseline` | half-finished runs; a refresh after a regression |
| CI job, `.github/workflows/bpf-verify.yml` | one run per ref, the build cache | checkout, restore, build, fuzz, verify, diff, upload, report, save | a push that cancels a run in any step; cache entries shared by refs; steps that hide a failure |
| Tracking workflow, `bpf-verify-tracking.yml`, `scripts/summarize_drift.py` | toolchain cache, summary | build against the tip, run without gating, summarise | partial builds and partial results |
| Guest runner, `tools/bpf_runner.c`, `tools/uml-run.sh` | per-object counters, generator state, status file | load, fill maps, test_run, print a line, collect the status | failure in the middle of an object's inputs; a guest that dies before or while it writes its status |
| Differential leg, `tools/diff*` | two output files | build twice, run natively and in the guest, compare | outputs cut short without an error |
| Setup, `setup.sh` | what is installed, extracted and generated | seven steps, each skipped when its result is there | a run stopped inside a step; failures inside pipes |
| Drift checker, `scripts/check_shim_drift.py` | error and drift counts | find a function in two files, normalise, compare | calls and prototypes that look like the definition; functions that are gone |
| Userspace leg, `userspace/run.sh` | a failure flag | build and run each fuzz harness | its exit code under partial failure |
| LRU list shim, `shims/kernel/bpf/bpf_lru_list.c` | five circular lists, types, reference bits, two counters, a rotation cursor | rotate, shrink, flush, alloc, pop, push, populate | lockless reference bits; scans over lists that change under them; hand-kept counters |
| LPM trie shim, `lpm_trie.c` | binary trie with intermediate nodes, entry count, 16-slot pool | lookup, update, delete, word-wise prefix match | allocation failure in mid-update; entries that become intermediate nodes and back |
| Local storage shim, `bpf_local_storage.c` | element list, lookup cache, charge, index counts | lookup, link, unlink, index get/free | a lookup publishing what an unlink removed; shared cache slots |
| Bloom filter shim, `bloom_filter.c` | bitset of four words | push, peek | bit numbers split into word and position in two places |
| Multi-program attachment, `targets/mprog/pre_include.h` (repeated in `targets/tcx`) | two entries, a shared link array, count, revision, deferred release | insert, replace, delete, clear, publish, sync, commit, walk, query | lock-free walks while an update is under way; three ways to release a program |
| Hash table shim, `hashtab.c` | two element counts | creation check, count, limit, memory accounting | check and count are separate steps on several CPUs |
| Array map shim, `arraymap.c` | one array | creation check, addresses, direct access, key iteration, inner-map comparison | 32-bit boundaries; maps exchanged under compiled programs |
| Syscall shim, `syscall.c` | program and map attributes | load fixup and check, attach check, capabilities; map creation, operation flags, buffer sizes | six tables that must agree; 32-bit products |
| Verifier and helpers shims, `verifier.c`, `helpers.c` | one prototype | `check_func_proto()`, `bpf_base_func_proto()` | one word read in two ways; flag bits inside enumerators |
| struct_ops shim, `bpf_struct_ops.c` | state word, value, two counters, links | create, publish, get, put, link, move, detach, lookup | a lookup that takes no lock; references taken while the last one is put |
| Library shims, `shims/lib` | bitmaps, text buffers, a rate limiter; the rest is stateless | all functions of `bitmap.c`, `seq_buf.c`, `ratelimit.c` | partial last words; overflow in mid-call; several CPUs and wrapping jiffies |
| Target harnesses, other shim directories, compatibility headers, curation tools, docs | none | one test program each; declarations; one-shot scripts | |

Interactions. The CI job runs the userspace leg, the pipeline, the gate and the
differential leg. The pipeline calls clang per target, veristat per batch and the runner
once; they answer through exit codes, CSV rows and JSON lines; pipeline and gate
communicate only through `results.json`, and gate and developer through the baseline. CI
runs of different refs meet in the build cache. The shims are compiled into harnesses, one
or a few per harness; the LRU lists are called by hash-table code, with lookups setting
reference bits without the lock; the local-storage lookup runs without the storage's lock
until it publishes; the size checks of array and hash maps protect computations in
`syscall.c`; the prototypes of `helpers.c` are checked by `verifier.c`.

What makes each correct: a green job really has verified what the baseline lists, with the
pinned kernel and a usable build; no target is lost or submitted twice; a regression is
never adopted as the new baseline; every job is decided and reported; a zero status means
what it says, whatever died on the way; the shim structures keep their lists, counters,
cursors, pools, references and caches consistent at every interleaving and after every
error, and answer like the abstract structure they implement. `PROJECT.json` lists the
hazards with their lines.

## 2. Modules

| Module | Models | Composes / extends |
|---|---|---|
| `CheckResults` | the gate's decisions over the two files | |
| `Pipeline` | `main()`, its tools, the runner's lines, the CI job, the developer | extends `CheckResults` |
| `CiJob` | the workflow: pushes, cancellation, cache, steps, report | |
| `DiffLeg` | `diff_all.sh`, `diff.sh`, the two builds, `diff_compare.py` | |
| `GuestRun` | `bpf_runner`'s main loop, the guest, `uml-run.sh` | |
| `Setup`, `Tracking`, `DriftCheck` | `setup.sh`; the tracking workflow; the drift checker | |
| `LruList` | every list operation of `bpf_lru_list.c` | instantiates `NodePool` (abstract: nodes free or used) |
| `LpmTrie` | the trie and its pool | instantiates `PrefixMap` (abstract: a bounded map of prefixes) |
| `PrefixMatch` | the word-wise loop of `longest_prefix_match()` | |
| `Mprog` | the bundle behind an attachment point and its readers | instantiates `ProgList` (abstract: a list of programs) |
| `LocalStorage`, `BloomFilter` | the shims of these names | |
| `MapSizes` | sizes and creation checks of arrays and hash maps | |
| `HashTab`, `ArrayMap`, `MapAttr` | element counts; addresses and keys; map side of `syscall.c` | extend `MapSizes` |
| `ProgAttach` | program side of `syscall.c` | |
| `FuncProto`, `HelperProtos` | prototype check; the helpers' tiers and prototypes | the second extends the first |
| `StructOps` | struct_ops maps and links | |
| `Bitmap`, `SeqBuf`, `Ratelimit` | the library shims of these names | `Bitmap` instantiates `BitSet` (abstract: sets of positions) |
| `PipelineProofs`, `LruListProofs`, `LpmTrieProofs`, `LocalStorageProofs`, `MprogProofs` | proofs | extend the modules of these names |
| `LibProofs`, `BpfProofs`, `ToolsProofs` | proofs about the parts of a suite | extend `MCLib`, `MCBpf`, `MCTools` |
| `MCPipeline`, `MCPipelineLive`, `MCLpmTrie` | constants for TLC | |
| `MCLib`, `MCBpf`, `MCTools` | suites: several modules in one run | instantiate their parts |

A suite chooses a `part` in the initial state; in a behaviour that part moves and the
others stay in one initial state. The parts of a suite share no state in the repository
either (a harness is compiled with one shim; the scripts are started one at a time), so
nothing is lost, and the suite's constants are the parts' bounds. A property of a part is
guarded by `part = ...` in the suite.

### Pipeline and CheckResults

`pc` is the phase of `main()`; `compiledOk`, `compiledFail`, `rows`, `ran`, `rc`,
`execResults`, `results` and `baseline` are the program's variables of these names.
One action is one subprocess call with one of the outcomes the Python code tells apart:
`CompileOk/Fail/Timeout/Skip`, `BatchAnswered`, `BatchTimeout`, `VeristatVanishes`
(FileNotFoundError), `RunObject`, `RunTimeout`, `Record`, `CiGate`, `UpdateBaseline`.
`CiStart` begins from a fresh workspace; `DevStart` keeps whatever `results.json` the
last run left. `tries`, `seen` and `fuzz` are ghosts: what really happened in this run,
for the properties to compare with what the files say (`fuzz` is what the guest found of an
object). `CheckResults` is pure: the gate
is a function of the two files (`AbsoluteErrors`, `ComparisonErrors`, `GateExit`,
`UpdatedBaseline`).

### LruList and NodePool

A cell is a node or a list head, and a head is named by its list type, so that
`ListOf(c)` says where a cell belongs. `next` and `prev` are the pointers, `rot` is
`next_inactive_rotation`. Every loop iteration under the lock is one action (`op`, `cur`,
`stop`, `nxt`, `i`, `nshrinked` are the loop's local variables), because
`bpf_lru_node_set_ref()` takes no lock: `SetRef` is enabled between any two of them.
Calls without a loop are one action. The second check of the type in
`bpf_common_lru_push_free()` (line 484) cannot differ from the first one in a single-CPU
shim and is not a branch of the model. `__bpf_lru_delete_node()` always succeeds in the
shim. The callers' protocol is assumed: `PushFree` is called for nodes in use, and
`PopPending`'s node goes back to the caller.

### LpmTrie and PrefixMap

A key is a prefix length and `DataSize` bytes of `ByteBits` bits, numbered from the most
significant one as `extract_bit()` does; the bits beyond the prefix are kept, as the code
keeps them. `Walk(key)` is the loop update and delete share,
`Lookup(key)` the loop of `trie_lookup_elem()`. Each way an update or delete can end is
an action: `UpdateNoMem`, `UpdateRefused`, `UpdateLeaf`, `UpdateReplace`, `UpdateAbove`,
`UpdateFork`, `UpdateForkNoMem`, `DeleteMissing`, `DeleteToIM`, `DeleteWithParent`,
`DeleteNode`. Calls are atomic (the trie lock). `longest_prefix_match()` is modelled by
its result. Which free slot an allocation takes is left open, which makes the slots
interchangeable for the symmetry reduction.

### LocalStorage

One storage with its element list, cache and `mem_charge`, and the global
`idx_usage_counts`. Link and unlink are atomic (they run under the lock). A lookup has
three steps (cache read, walk, publication under the lock) with any other action in
between. `__bpf_local_storage_insert_cache()` handles a lock that cannot be taken, so
`Publish` may also leave the cache alone. What the shim leaves to its callers is assumed
as the kernel provides it and marked external: an element is reused only when no lookup
holds it (RCU). The walk is one step: the shim's `hlist_del_init_rcu()` resets `next`,
unlike the kernel's, so nothing is claimed about walks interleaved with unlinks.

### BloomFilter

The bitset is a function from words to the positions set in them, and a masked hash goes
through the same division into word and position as in `bloom_test_bit()` and
`bloom_set_bit()`. The hash is any function of the value and the index of the hash
function, chosen in the initial state and larger than the bitset, so that the mask
matters. Calls are atomic: the shim's `|=` is not an atomic `set_bit`, and it runs on one
CPU only.

### PrefixMatch

`LpmTrie` uses the length of the common prefix. `PrefixMatch` has the loop that computes
it: words, then a half word, then a byte, each loaded little-endian, swapped and searched
with `fls`, with the early return at the limit. A word is the values of its bits, and a
byte has `bits` of them, so that data of every length up to two words, a half word and a
byte fits in a run.

### Mprog and ProgList

Updates run under the caller's lock and have one action per helper call that a lock-free
reader could see: edit (in the peer), publish, sync, commit or release. `Grow` and
`Shrink` move slots in the order of the code. A reader walks the entry it found active,
one `READ_ONCE()` per step. The kernel's `mprog.c`, which calls the helpers, is not in
the repository: `Insert`, `Replace` and `Delete` follow the header's helpers and the
harnesses' use of them. That `synchronize_rcu()` waits for the walks under way and that
`rtnl_lock()` keeps updaters apart is the kernel's contract (`Sync`, `MayUpdate`, external):
the stubs of `targets/tcx` count calls and exclude nobody.

### MapSizes, HashTab, ArrayMap, MapAttr

Sizes are numbers modulo `Word`, and the limits (`KMALLOC_MAX_SIZE`, `PCPU_MIN_UNIT_SIZE`,
the element header) are parameters with the order the assumption states, so that all sizes
of a small word can be tried. `HashTab` has the calling order of the kernel's update and
delete under bucket locks, with a step between any two helper calls and between the two
counters a helper changes (`Count`, `Tally`). The change of one counter is one step, as with
the kernel's atomics; the shim's plain `++` serves one CPU. The accounting of preallocated
maps is left out. `ArrayMap` exchanges
the inner map under a program that was compiled against another one. `MapAttr` creates a
map from attributes and asks for the buffer of each operation.

### ProgAttach, FuncProto, HelperProtos

`ProgAttach` keeps each switch of `syscall.c` as a table; a program passes request, fixup,
load check and attach, and the properties relate what one table let in to what another
lets through later. `FuncProto` is `check_func_proto()` on five arguments, each a base
type, flags and the word of the union of size and BTF id. `HelperProtos` gives it every
prototype of `helpers.c` and models the capability tiers of `bpf_base_func_proto()`.

### StructOps

References of descriptors, kernel users and links on one count; the state word and the
value published by one update; the lookup as five steps (state, copy, two counters,
report) between which anything may happen. `inc_not_zero` is the kernel's atomic; the shim
tests and then counts, so what is shown of references holds between its calls, not inside
one. Descriptors, the publishing update and the swap
of a link's map are the kernel's and marked external.

### Bitmap, BitSet, SeqBuf, Ratelimit

A word of a bitmap is a set of bits and every function works word by word with the code's
masks; `BitSet` says what the call computes on the first `bits` positions and where it may
write. A caller may name one bitmap for several arguments. `SeqBuf` has memory past the
buffer's end, so that a write there would show; what a hex dump is to append is stated
cell by cell (`WordsInHex`), what its loop appends by the loop. `Ratelimit` has a step for each access
that another CPU can see; jiffies wrap. It is the logic of `ratelimit.c` on the kernel's
primitives, which are operators of their own and external: `atomic_dec_return`,
`atomic_xchg_relaxed`, the trylock and the timer. The target replaces them by plain accesses,
a lock that is always free and a constant, which is the same for the one caller it has and
would not be for two.

### CiJob, DiffLeg, GuestRun, Setup, Tracking, DriftCheck

`CiJob` has one run per ref with the workflow's steps in order; a failing step skips all
but the `always()` steps, a push cancels, and so does the server when a job takes too long
(`JobLimit`). The summary step does not start without its working directory, which is only
sure to be there after the checkout. The cache action saves only at the end of a
successful job and never replaces an entry. `DiffLeg` counts free blocks: builds and
output words take them, neither writer looks at the result of `fwrite()`, and the native
run and the guest's may end at any iteration. `GuestRun`
runs objects whose behaviour is chosen in the initial state; the process can be killed,
the guest can die with or without an (empty) status file.

`Setup` runs several times on one disk. Whatever is written bit by bit has a partial state:
the packages, the tree, each of the nine headers, the build, and the runner, which
`build_runner.sh` links in place in every run. The ghost `before` is what a run found.
`Tracking` enumerates the pipeline's results; it is cancelled in any step, and results.json
is torn while it is written. `DriftCheck` searches token sequences with the two searches of
the script; a blank is a token, so that `normalize()` keeps and drops the ones the script
does. What it may
assume of a file is stated apart (`WellFormed`): brackets behind a copied function's name
match, a definition has its body right behind them and ends with it, and nothing else has
an opening brace there; two bodies are the same if `normalize()` makes them the same.

## 3. Runs

| Run | Bounds | Checks |
|---|---|---|
| `pipeline_safety` | 2 targets (one fuzz-executed, one documented verifier boundary), batches of 1, 2 runs, any mode and tools | `GreenMeansVerified`: a green job that ran veristat saw every baseline target get its documented verdict in this run; `AskedIsAccounted`: the results have an execution entry for exactly the verified targets meant to be executed, and call one executed only if the guest reported on it, also when the guest dies between two objects; `FuzzFailureMeansRed`; `RegressionNeverAdopted` |
| `pipeline_batches` | 3 targets, batches of 2 (a short last one), 1 run | `EachObjectSubmittedOnce`; `JobDecided` |
| `lru_lists` | 4 nodes, 2 scans per call, shrink targets 1 and 2 | `ListsSound`: links, counters, cursor, no node lost, no warning; `ShrinkMakesRoom`; `ImplementsPool`; `LockReleased`: every call returns |
| `lpm_trie` | keys of one byte of 2 bits, 4 slots, limit 3 (the pool runs out before the limit), 2 values | `TrieSound`: pool and count exact after every error path, the shape of the trie, every entry found by the walk, the pool large enough; `LookupIsLongest` for every key; `ImplementsMap` |
| `mprog_updates` | 4 programs, 1 link, 4 slots (one is the terminator), 1 reader, revisions to 5 | `WalkIsFaithful`: a walk runs only programs that were in the list while it went on, and each that stays exactly once; `BundleSound`: count, references, deferred release and revision agree with the list; `ImplementsProgList` |
| `library` | the constants of `MCLib.cfg` | bloom: `NoFalseNegative`, `OnlyCollisions`; prefix match: `MatchIsLongest`; bitmaps: `ImplementsBitSet`; text: `TextKept` (text exact up to the end of the buffer, nothing written past it, an overflow sticks); rate limiter: `RateHeld` (never more than a burst per window, misses counted exactly, windows an interval apart) |
| `bpf_shims` | the constants of `MCBpf.cfg` | local storage: `CacheLinked`, `UsageExact`, `SharesOnlyWhenFull`; `AccountingExact`: the charge of a storage, the counts of a hash table, the references of a struct_ops map; `RefusedOnlyWhenFull`; `MemoryInBounds`: addresses, direct access and buffers of maps; `HooksRespected`: what the attachment tables let through; `PrototypesSound`; struct_ops: `PublishedIsWhole` and `LifetimesKept` |
| `tools` | the constants of `MCTools.cfg`; 2 refs, 2 pins, 2 pushes | `JobsSound`: pinned kernel, usable cache, green means every leg; `LegSound`: every target tried, and one that passed agrees on all that was compared, which is less than all iterations only on a full disk; `SetupSound`: a completed run leaves whole what it did not find torn, and nothing finished is undone but the runner; `TrackingReports`: "no drift" is backed by results of every target, a green run names every failing one; `DriftFound`: the definition is found, and the status is 0 exactly without a tree or without an error; `GuestTruthful`: zero means clean, the failure of an object that ran to the end wins, seeds reproducible, corners swept; `ReportAlwaysWritten`: every started CI run ends and, once checked out, has reported |
| `doc_executed`, `doc_compared`, `doc_baseline` | as `pipeline_safety` | violated: see section 6 |
| `doc_null_only_where_declared` | the helpers of `helpers.c` | violated: see section 6 |

Why the bounds are enough. Two pipeline runs are needed for a baseline written by one and
used by the next; a third adds no new combination of files. Four nodes let every list be
empty, singular and longer than a scan (2). Two-bit keys give every shape of parent,
intermediate node and sibling, prefix lengths 0 and maximal included; the tight pool makes
both allocations fail. Four programs fill the list to its limit and leave one outside to
replace with. Three maps on two slots force sharing, two readers can hold stale elements
at once. Two CPUs and four keys on a map of two entries let both pass the limit check
together, or one be refused while the other replaces. Words of 4 and 7 bits with the limits in
the order of the real ones have every wrap-around the 32-bit sizes have. Bitmaps of two and
three words of two bits give partial, full and absent last words, a word in the middle, and
arguments of different sizes. Two pushes
on two refs let one run be cancelled and another one use what it saved; two objects let
one fail and the other not load. The disk of `DiffLeg` runs from empty to more than the
leg needs. Files of up to two items in the drift checker let both copies be defined, one of
them twice, or be missing; three setup runs let one tear a step, the next take it for done
and a third find both. `CHECK_DEADLOCK FALSE` is given for the pipeline and the suites, which have
parts that really stop: a pipeline after its last run, a leg or script at its end.

Symmetry is used only in `lpm_trie`, for pool slots and values, which no definition tells
apart; the run has no liveness property.

Fairness. `Pipeline` assumes weak fairness of `Step`, a step of a running pipeline or CI
job: each is a subprocess under a timeout or plain computation. Nothing makes a developer
start a run. `LruList` assumes weak fairness of `LoopStep`, the function that holds the
lock keeps running; nothing is assumed of the callers or of `SetRef`.
`CiJob` assumes it of the server only (`ServerStep`): it starts queued runs, cancels a job
that exceeds the limit GitHub puts on every job, and lets the short `always()` steps of a
cancelled job run. No command of a job is assumed to end: nothing in the workflow bounds the
guest that the differential leg boots. Nobody is assumed to push.

A property that joins several facts about one component names them in its definition, and a
violation says in which part it happened. Every property has a mutant in `PROJECT.json`: a plausible slip in the code (a dropped
guard, a kept cursor, a missing rollback) under which TLC finds it violated.

## 4. Proofs

For every value of the constants, from the named assumptions of the modules:

* `PipelineProofs`: `TypeCorrect`, which the others rest on; `BatchesCoverOnce`, by `SubmissionInv` (compiled
  objects are distinct and stem from earlier lines of ORDER, and during verification
  exactly the ones before the slice's start have been submitted), since the property
  itself says nothing of the middle of a loop; `GreenIsSound`, by `RowsInv` (the rows kept
  are rows seen in this run) and `FileInv` (the file the gate reads is this run's);
  `AskedAreAccounted`, by `ExecInv`: while the guest runs, a line of a loaded object comes from one
  that ran, and once the leg is over exactly the objects asked for have a result.
* `LruListProofs`: `TypeCorrect`, `ListsCoherent`, `NothingLost`, `CountersExact`,
  `CursorStays`, `NeverWarns`, their conjunction `ListsAreSound`, `ShrinkNeverFails`, and the
  refinement `ListIsPool`. The
  inductive invariant joins type correctness, the shape of the lists (`next` and `prev`
  inverse, neighbours on the same list, no group of nodes closed under `prev`, unpopulated
  nodes unlinked), exact counters, the cursor on the inactive list, and the loop cursors
  on the list their loop scans. Circular lists are the reason for the third part of the
  shape: without it a detached ring would satisfy everything else. It is stated with sets,
  so no induction over lists is needed.
* `LpmTrieProofs`: `TrieIsSound`, `LookupFindsLongest` and the refinement `TrieIsMap`. What
  `TrieSound` says of the paths from the root is not inductive: a pointer moved in the
  middle of the trie leaves nothing to say of the nodes behind it. `TrieInv` is local
  instead. The root pointer and the pointers of used nodes lead to used nodes (`Closed`),
  every used node has such a pointer to it (`Owned`), and only one (`Single`); a child is
  longer than its parent, agrees with it and has the bit of its side (`Nested`);
  intermediate nodes have two children (`Two`), entries have values, and `n_entries` counts
  the entries. One
  lemma per way to change a pointer (`LeafTree`, `ReplaceTree`, `AboveTree`, `ForkTree`,
  `SpliceTree`) keeps this shape, and every ending of an update or delete is one of them.
  Lengths grow along a path, so the walk ends within `MaxPrefixLen + 1` turns, and a node
  that agrees with the key and is no longer than it lies on the walk (`AllVisited`); the same is
  shown of the loop of the lookup. Intermediate nodes are fewer than entries (`InnerFew`,
  by an injection), which makes the pool large enough.
* `LocalStorageProofs`: `CacheSound`, by the fact that what a lookup holds is still an
  element of the map it looks up, linked or not; `CountsExact`, with the cardinality of
  the set of users of a slot; `FreeSlotsFirst`, which also needs that the scan of
  `bpf_local_storage_cache_idx_get()` has a result: a least element, from the
  well-foundedness of the naturals; `ChargesExact`, by counting the charged bytes as one
  finite set, of which linking and unlinking add and take an element's share.
* `MprogProofs`: `BundleIsSound`, `WalksAreFaithful` and the refinement
  `BundleImplementsList`. The invariant has both entries packed at all times (programs in
  the first slots, each once, then NULL), the count belonging to the entry an update works
  on, and each reference belonging to a program of one entry, which one depending on the
  phase (`Owner`): only so do the three ways to release a program fit together. For
  the walks, a reader's position splits its entry, and each program that stays attached has
  one slot, seen once if passed (`WalkOK`): the property speaks of finished walks, the
  invariant of walks that an update overtakes. For the refinement, what is about to be
  published is one edit away from what is visible (`Edited`).
* `ToolsProofs`: `JobsAreSound`, by what a run knows of its kernel tree (`TreeOK`), what a
  run that is still good has behind it (`ProgressOK`), and that every cache entry is whole
  and built for its key, the fact that joins the runs of different refs; `LegIsSound`, where
  a file is short only if the disk is full, and stays so; `SetupIsSound`, where a run that
  came to a step has the earlier ones behind it, whole or as it found them;
  `TrackingIsSound`, by what each step knows of results, file and summary;
  `GuestIsTruthful`, by the
  objects already counted (`FlagsInv`), the position of the generator as a function of the
  case (`ObjectInv`) and the way of the status out of the guest (`StatusInv`);
  `DriftIsFound`, by `DriftInv` (the error count is zero exactly if the copies looked at so
  far are good) and `ExtractFinds`. For the latter, an item lies in the joined text behind
  the items before it (`ItemLies`), the bracket counts in it are those of the item alone
  (`CountShifts`), so the searches end where its brackets close, and every place of the text
  is one in an item (`PlaceInItem`), so nothing else is taken for a definition.
* `BpfProofs`: all properties of `bpf_shims` that `LocalStorageProofs` does not have.
  `PublicationIsWhole`, `LifetimesAreKept` and a part of `AccountsAreExact` come from
  `OpsInv`: the references of a map are its descriptors, users and links, counted, and what a
  lookup has read fits the state it read first. `RefusalsAreJust` and the rest of
  `AccountsAreExact` come from `HashInv`: a CPU in a call holds its key's bucket, and
  elements and CPUs past the limit check together exceed the limit by less than the number
  of CPUs; the limit alone is not inductive. `AddressesInBounds` uses that an accepted
  size does not wrap when rounded (`ArrayOK`, `Sized`) and that the map behind a compiled
  access was compared with the one in front; `HooksAreRespected` that attributes are settled
  before the first link; `PrototypesAreSound` unfolds the checks of `verifier.c` argument by
  argument, and every table of `helpers.c`.
* `LibProofs`: `PushedIsFound` and `FalsePositiveIsCollision`, with the converse
  invariant that every set bit comes from a pushed value, and the lemma that a bit number
  is determined by its word and position. `RateIsHeld`, by `RateInv`: the lock is held from
  the try to the return; the age of a window is the distance of jiffies from its beginning
  modulo the wrap as long as it has not wrapped; what was granted and what is left come
  from one fill; and the counter is above its bound by at least the number of CPUs that saw
  it positive and have not decremented it yet. The refinement `BitmapsAreSets`: an array
  of words and the set of its positions determine each other by division, the masks are
  intervals of positions, and counting bits word by word is a bijection with positions.
  `TextIsKept`, by `BufInv`: in the middle of a hex dump the buffer holds the first part of
  the text the call is to append, and the text of the bytes left is its second part. For
  this the loop of a chunk is unrolled (`ChunkIs`) and the text of a block is shown to be
  that of its first chunk followed by that of the rest (`HexSplits`). `WordMatchIsLongest`,
  by `MatchInv`: while the loop runs, all bits of the first `i` bytes agree and do not reach
  the limit; after the swap the highest bit that is set is the first one that differs
  (`SwappedIs`), for words, half words and bytes alike.

The assumptions are those of the modules and of the suites (`PartsAssumption`, the
conjunction of the parts'): positive sizes, finite sets, the order of the limits that the
code's constants have, jiffies of even wrap with intervals below half of it, `"free"` not
naming a CPU, files of well-formed items and a list of copies that is not empty. TLC
evaluates all of them in the runs. Where a loop or a sum needs induction,
the proofs argue from the least counterexample, which the well-foundedness of the naturals
gives (`LeastNatural`). A loop of the code that is a recursive function in the model is the
function chosen to satisfy its equation; `LoopHas` shows that there is one.

## 5. What is only model-checked

Liveness (`JobDecided`, `LockReleased`, `ReportAlwaysWritten`): it rests on fairness
and on actions being enabled, which is out of the prover's reach. Every other property of a
passing run is stated by a theorem.

No module has a RECURSIVE operator.

## 6. Disagreements with the documentation

Shown by a run:

* `doc_executed`: `run_execution()` documents `executed=True` for a success; a run stopped
  in the middle by a failing map update or test_run is recorded as executed with 0
  failures, because the runner's line has `loaded` and no `failures`.
* `doc_compared`: the README says CI gates every run against the baseline; when veristat
  is missing, or goes missing during the batches, the pipeline ends with 0, the gate skips
  the comparison and the job is green.
* `doc_baseline`: the baseline README says it records a verdict for every target;
  `--update-baseline` after a run without veristat writes null verdicts.
* `doc_null_only_where_declared`: in the enumeration of `helpers.c` the argument types
  after one with `PTR_MAYBE_NULL` continue from its value and inherit the flag, down to the
  last one (lines 61 to 68), so that the plain and the `_OR_NULL` form are the same number.

Met while modelling, without a run of their own; the properties named say what holds instead:

* `tools/diff_all.sh:5` says it exits non-zero "if any target fails to build, run, or
  agree"; on a full disk both outputs are short, the comparison covers what is there (two
  empty files agree), and the target passes. `LegSound` allows that only with no block left.
* `setup.sh:15`, "Verifies the setup is complete": after a run stopped while it wrote the
  packages, the tree or a header, the next one takes the torn piece for done and reports
  "Setup complete!". `SetupSound` allows what the run found torn, and nothing else.
* The steps of `setup.sh` that say they are skipped call `warn`, which the script does not
  define; under `set -e` the run ends there, as `Uml`, `Runner` and `Link` of `Setup` have it.
* `scripts/summarize_drift.py:33`, "No drift: all targets compile and verify": a target
  without a verdict is in neither list (line 22), so a run without veristat is summarised so.
  `TrackingReports` has results of every target and no rejection behind it, not verdicts.
* `tools/bpf_runner.c:19-21`, "1 if any object had a property failure": an object that
  failed on some inputs and whose test_run then breaks off returns 2 (line 136), and so does
  the runner if no other object failed. `GuestTruthful` claims 1 for objects that ran to the
  end; `doc_executed` shows the same lost failures in the driver.

A developer's run that compiles nothing, times out in clang or is `--compile-only` leaves
the previous `results.json` (`pipeline.py:679`), which a later `--update-baseline` adopts;
the model has this behaviour, and no document promises otherwise.

## 7. Not modelled

Well over half of the repository's lines (some 24 000 of 42 000 under `targets/` alone)
are test programs (`harness.c`) and headers (`pre_include.h`, `preamble.h`, and the header
sets under `shims/`) that give an unmodified kernel file just enough declarations, mocks and
constants to compile, many of them copies of one another. The algorithm under test is in the kernel tree, which is not part of the
repository; a harness is straight-line code that calls it on inputs and returns a code, and
a mock returns a constant or copies a field. There is no state or protocol in them to model
beyond what `Pipeline` has of a target, except where a header holds the algorithm itself
(`targets/mprog`, modelled as `Mprog`). The definitions listed in `PROJECT.json` therefore stand for a minor part of all lines.

Further left out: text rendering, compiler flags and toolchain probing; the numbers the
generators draw; stateless conversions of the library shims (hexdump, string and number
parsing, compression, hashes) that the repository compares natively and in the guest;
disassembly; tnum and range arithmetic, which its own harnesses check exhaustively; the
predicates on single register types; bodies of helpers that are one guard around a stub;
the map bucket list, owner pinning and list walks interleaved with unlinks of local storage
(the shim's `hlist_del_init_rcu()` resets `next`, the kernel's does not); per-CPU LRU
(returns early in the shim); the memory accounting of preallocated hash maps. The remaining components and the reasons are in
`PROJECT.json`.

## 8. Plan

1. Done: pipeline and gate, LRU lists, LPM trie with its word-wise match, local storage,
   bloom filter, multi-program attachment, hash counts, array addresses, attributes,
   attachment, prototypes, struct_ops, bitmaps, text buffers, rate limiter, CI job,
   differential leg, guest runner, setup, tracking, drift checker.
2. Proved: every invariant, action property and refinement of the runs; the liveness
   properties stay with TLC.
3. Possible next: stateless conversions of the library shims against reference definitions.
