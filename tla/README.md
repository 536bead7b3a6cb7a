# COVE: a TLA+ verification of publication, delta chains and scans

COVE is a columnar file format with a reference implementation in Rust
(`src/crates/`). Its files are immutable. What changes over time is *which*
files a dataset consists of: a base snapshot, an ordered chain of delta
artifacts (`.covedelta`) with changes to its objects, and a manifest (`.covm`)
that selects them. This project models how these files come into being, how
they become visible, survive failures, are extended, checkpointed and
compacted, what readers reconstruct from them, which rows a scan may skip, how
scans behave while files are replaced under them, and how a server hands out
the results in pages.

| Module | Models | Source |
|---|---|---|
| `FileStore` | abstract: what a path promises to those who open it | |
| `DurableReplace` | publication of one file; implements `FileStore` | `cove-core/src/durable.rs` |
| `DeltaPublish` | a delta and then its manifest, and readers | `durable.rs`, `delta_snapshot.rs`, `covm.rs` |
| `DeltaChain` | building, appending, pruning, reading, compacting a chain | `cove-cli/src/delta.rs`, `cove-map`, `covm.rs`, `readback.rs` |
| `ZonePruning` | outcomes of predicates on a zone of rows | `cove-core/src/predicate.rs`, `pruning.rs` |
| `FilterLowering` | WHERE clauses to filters, literals to codes | `cove-datafusion/src/expr_lowering.rs`, `execution_code.rs`, `coverage_plan.rs` |
| `MorselPruning` | which morsels a scan skips | `cove-datafusion/src/prune.rs`, `dataset_state/pruning.rs`, `overlay.rs`; writers in `cove-arrow` |
| `LruCache` | abstract: a bounded cache of recently used keys | |
| `ProofCache` | the cache of UTF-8 proofs; implements `LruCache` | `cove-datafusion/src/decode/cache.rs`, `materialize.rs` |
| `ScanFiles` | registration and scans of a file that is replaced | `cove-datafusion/src/bootstrap/`, `decode/`, `range_reader.rs` |
| `Paging` | abstract: what a client of paged results is promised | |
| `ResultStore` | the store of paged results; implements `Paging` | `cove-mcp/src/results.rs`, `server.rs` |
| `DurableReplaceProofs`, `FileStoreProofs`, `DeltaPublishProofs`, `DeltaChainProofs`, `MorselPruningProofs`, `ScanFilesProofs`, `ResultStoreProofs` | theorems | |
| `SetInduction` | induction over finite sets and numbers, for the proofs | |
| `MC...` | instances for TLC | |

EXTENDS: `DeltaPublish` < `DurableReplace`; `ScanFiles` < `ProofCache`;
`MorselPruning` < `FilterLowering` < `ZonePruning`.

`tlc -config X.cfg M` model-checks, `tlapm M.tla` checks proofs. PROJECT.json
lists components, runs, hazards, findings and theorems, and maps every
definition to the lines it models.

## Inventory

Paths are under `src/crates/`.

**Durable replace** (`cove-core/src/durable.rs`). *State*: the file system, seen
as names, directory entries, contents, and what of each would survive a system
crash. *Operations*: `durable_replace` writes a temporary file with a name of
its own, syncs it, renames it over the final path, and syncs the directory; any
error removes the temporary file. On Windows the rename is write-through and no
directory is synced. *Hard*: crashes between any two steps, errors at any step,
concurrent calls for one path. *Correct when*: a file at a final path is always
complete; an acknowledged call is not undone by a crash; the error path takes
nothing away that is published.

**Delta and manifest publication** (`durable_publish_delta_then_manifest`; readers
in `cove-datafusion/src/delta_snapshot.rs` and `cove-cli/src/delta.rs`). *State*:
two durable replaces in one process; what each reader has loaded. Readers take no
lock. *Hard*: the process dies between the two calls; a reader loads the manifest
of one publication and the delta of another. *Correct when*: no manifest that can
be found names a delta that cannot, and a reader fails only where it has to.

**Delta-chain tools** (`cove delta publish`, `chain-extend`, `checkpoint`,
`compact`; `cove map` semantic-delta builds). *State*: the base, the chain, the
manifest's `csn_max` and `created_at_us`, and deltas built but not appended yet.
*Hard*: positions come from two sources, commit sequence numbers (CSNs) and wall
clocks that may go back; builds and appends are separate commands, so what a
build saw may be stale at the append. *Correct when*: an appended change takes
effect and changes nothing else; checkpoints and compaction do not change what
queries see.

**Manifest extension and summary** (`cove-core/src/artifact/covm.rs`). *State*: per
delta, ranges of CSNs and commit times. *Operations*: validation, and the pruning
of a chain for an as-of request. *Correct when*: pruning drops only what the
request cannot see.

**Object readback** (`cove-core/src/profile/cove_o/readback.rs`). Pure: it sorts the
records of an object by (time, CSN, place), applies them in turn, and leaves out
tombstoned objects. Temporal cuts filter records by CSN or time. A record may
refer to the previous record of its object; a reference that does not name an
earlier record of the object, or not the one applied last, fails the read of all
objects (`RefInvalid`). *Hard*: a record of another delta sorts between the two.

**Predicate pruning** (`cove-core/src/pruning.rs`, `predicate.rs`;
`cove-datafusion/src/expr_lowering.rs`, `coverage_plan.rs`, `prune.rs`). Pure, over
a file's metadata: a WHERE clause is lowered to filters, literals become codes of
the file, and each morsel is skipped when statistics, domains, exact sets, Bloom
filters, lookup, inverted or composite indexes, coverage proofs, page null counts
or the overlay of hidden rows rule it out. *Hard*: many kinds of metadata, each
of which may be missing, marked unusable or of a layout the reader does not know,
are combined; nulls, NaN, truncated bounds, parts of a clause that cannot be
lowered. *Correct when*: a skipped morsel
has no visible row that satisfies the clause.

**Table registration and scans** (`cove-datafusion`). *State*: the registered
metadata and sidecars, per query a lazily opened descriptor and cached segment
metadata, per table the cache of UTF-8 proofs. *Operations*: registration reads
the file and its sidecars by path, several times; partitions open, read and
export pages. *Hard*: the file or a sidecar is replaced between any two accesses;
partitions race to fill the query's caches; the proof cache is full or its clock
ends. *Correct when*: no query mixes two files, no sidecar is used with a file it
was not built for, every partition ends.

**MCP result store** (`cove-mcp/src/results.rs`). *State*: results by handle with
their time, and the order of insertion. *Operations*: insertion, fetching a page,
and before each the expiry and eviction of others. *Hard*: insertion and first
page are two critical sections, with other requests between them; pages end at a
byte limit. *Correct when*: a client gets every row once, or an error it deserves.

**Parts that are not modelled.** Reading and writing one file (pages, encodings,
dictionaries, checksums), mounts, sidecar layouts (COVX, COVE-AI, COVE-I),
profiles, layout descriptors, identity resolution of COVE-MAP, CoveQL, conversion
of values, facades, inspection tools, bindings and test harnesses. PROJECT.json
gives the reason for each; see *Not modelled* below.

**How the parts interact.** The tools build bytes in memory and hand them to
durable replace; the manifest is the only visibility point; readers load the
manifest, verify each delta by length and digest, let the summary prune the chain,
and pass what is left to readback. `cove map` and `cove delta checkpoint` are
readers as well: they reconstruct the latest states before they build. A
registered table sees publications only as files that change at a path, which is
what `FileStore` says of them; its scans ask the pruning code which morsels to
read. The MCP server runs a query to its end and keeps the rows for paging.

## Modules

### DurableReplace

One call per element of `Calls`, each with its final path `Target[c]`. `pc[c]`
follows `durable_replace_with_backend`: `Create`, `Write`, `SyncFile`, `Rename`,
`SyncParentDir`, with `StepFails` for the `?` of each step and `Cleanup` for the
error path. The file system is external and modelled as pessimistically as the code
assumes: `entry[n]` is what a name leads to now, `onDisk[n]` the *set* of things it
may lead to after a crash, `data[f]` and `disk[f]` the same for contents. A rename
adds to `onDisk`, a directory sync shrinks it to the present entry, and on Windows
the rename itself does. `SystemCrash` picks any member of each set and ends every
call; `Kill` ends one. `serial` and `renames` are history variables that number
the renames, so that "later" can be said. `Parent[p] = EmptyPath` stands for a bare
file name, whose parent directory cannot be opened (`CanOpenParent`).

A file is told from another by the call that wrote it: contents are "empty",
"partial" or "full", and two calls never write equal bytes. `MaxFaults` bounds
injected errors; nothing bounds crashes and kills but the calls they end.

`FileStore` is the specification a user of paths relies on: a path leads to one
complete file or none, changes in one step, and a crash takes back at most a
publication that was not acknowledged. `ImplementsFileStore` maps `visible` to
the file behind each final path with its contents, `durable` to everything that a
crash could leave there, `published` to the calls past their rename.

### DeltaPublish

EXTENDS `DurableReplace`: the calls are now deltas and manifests, paired by
`DeltaOf`. `MayStart` is the control of `durable_publish_delta_then_manifest`: no
publication when the two paths are the same, the manifest only after the delta's
Ok. `KillBetween` ends a process between its calls. A reader reads whatever
manifest is at a path (`ReadManifest`), and at any later time the delta at the
path the manifest gives (`ReadDelta`), which must have the expected digest.

`PubNext` takes only steps of `DurableReplace!Next` (theorem
`PublishImplementsReplace`), so the lower module is the abstract specification
of the upper one, with its variables mapped to themselves.

### DeltaChain

`base` is the rows of the base, `chain` the deltas with header ranges and rows,
`created` the manifest's `created_at_us`, and `slot[w]` the delta a writer has
built together with the base and chain it was built on.

* Readback: `Placed` (records with their place), `Before` (`record_sort_key`),
  `Apply`, `Visible` for cuts, `PrevRefsValid` and `StepsChained` for the two checks
  of references, and `Reconstruct`, which is `RefInvalid` when one of them fails. A
  property that is absent and one that is null are the same.
* Planning: `Skipped` and `Selected` (`prune_delta_chain`), `DensePrefix`
  (`selected_prefix_len`), `ReadAt`; `Everything` is the read without pruning.
* Appending: `Extend` loads the chain, checks lineage and summary
  (`SummaryValid`), and publishes or refuses. The commands that read the chain
  before they build fail when it does not read.
* Building: `BuildDelta` (`cove map` on a manifest), `BuildFirst` (the library call
  for the first delta, whose caller gives the start), `BuildCheckpoint`, and
  `BuildForeign`, any one-row delta that `validate_object_delta` accepts, since
  the format is open to other producers.
* `Compact` replaces base and chain by the latest live states.

Clocks are arbitrary: `BuildDelta` and `Extend` take any time, because
`SystemTime` may go back and builder and publisher may run on different hosts.
What the code does with the clock, as in `max(now, created_at_us + 1)`, is kept.

Abstractions: one object type and one branch; values are told apart by the CSN of
the row that wrote them; lineage ids, lengths, checksums and digests are the
identity of the parent; a row of a delta refers, by its number (`prev`), to a row of
the same delta, as `temporal_prev_refs` writes it (`PrevRef`), and rows of a base,
of checkpoints and of other tools have no reference; evidence, projections and
sidecars are left out; the load and the publication of `Extend` are one step, as
a concurrent-writer protocol is a stated non-goal
(`docs/proposals/cove-o-delta-artifacts.md`, line 116) and `DeltaPublish` covers
readers beside racing publications. Saturating arithmetic is out of the bounds' reach.

### ZonePruning, FilterLowering, MorselPruning

`ZonePruning` has the outcomes and the `explain_*` operators. A zone has no nulls,
some, or nothing else; counts do not matter beyond that. `FilterLowering` takes a
query as a set of clauses of groups of atoms; `lower_filters` follows
`lower_filters_into` (an OR is lowered only when all its children are, with the two
merges of equalities on one column), `resolved` turns literals into a file's codes,
`FormOf` gives the coverage form a predicate can match.

`MorselPruning` holds a file as rows per morsel, and derives its metadata from the
rows the way the writers do; `have` says for each kind whether it is there, true,
false and marked so that a reader must not use it, or valid and misread: an exact
set that is a bitset (parsed with no keys), exact sets or Bloom filters of single
morsels (the planning cache keeps the first for the column), several Bloom filters
under one header (read as one array of bits; what is found in it is any set of
codes, `chance`), and the converter's composite index. `Plan` lowers and resolves,
`Skip` and `Read` decide one morsel each by `prune_morsel`: overlay,
`morsel_pruned` (composite index, coverage expressions, single filters), page null
counts. The reference is `Satisfies`: whether a row *may* satisfy the query; NaN may
compare as the engine likes except that it equals no number, and an unsupported
operator may hold of anything.

### ProofCache, ScanFiles

`ProofCache` has the two operations of `Utf8ProofCache`, each atomic under its
locks, and the export between them. `ImplementsLru` maps epochs to the order of
use, so that the clock disappears.

`ScanFiles` adds the paths: registration (`StatFile`, `Bootstrap`, `ReadSidecar`,
`CheckCache`, `CheckCovi`) and per partition `ReadSegment` and `ReadPages` before
the export. One step is one access by path; what is read through an open
descriptor is one step with the opening, as files are immutable. `Replace` is a
publication as `FileStore` allows it. `since` is a history variable: the files
that were at the path since the registration began. A file is its own identity
(file id, length and footer checksum), `Length` and `Layout` say which files the
weaker checks cannot tell apart.

### ResultStore

`Insert` is `cove_query` up to the insertion, `Fetch` and `FetchFails` a page at
the client's offset, `FetchElsewhere` any other call that prunes. `prune_locked`
is part of each. `PageRows` is the page by count and by bytes with its brackets and
commas; the first row always fits. `ImplementsPaging` keeps of all this only
status, result and the rows a client has received.

## Runs

| Run | Instance | Shows |
|---|---|---|
| `publish` | 2 publications that race for one delta path and one manifest path, a bare name; 1 reader, 1 I/O error, kills, crashes | completeness, durability, error path; manifests never dangle, readers fail only because of an overwrite; calls return, manifests follow; `DurableReplace` implements `FileStore` |
| `bare_name_fails` | no errors | **violation**: a call for a bare name fails without any fault |
| `chain_tools` | 1 writer, 2 deltas of up to 2 rows, 2 objects, 2 columns, 5 CSNs, 3 times, 1 compaction | exact pruning; updates take effect and keep the rest while the chain reads, and what makes a chain unreadable; checkpoint and compaction keep values |
| `foreign_deltas` | `cove map` beside another tool | stale deltas are refused, as-of-CSN reads exact and immutable |
| `chain_order` | clocks that jump | **violation**: readback does not follow chain order |
| `compact_history` | 1 compaction | **violation**: compaction drops history |
| `foreign_commit` | deltas of other tools | **violation**: commit-time pruning is not conservative |
| `pruning` | 7 files of 2 morsels, 12 choices of metadata, coverage proofs good and unusable, hidden rows, 24 queries | rows are lost only to queries that ask a misread index, outcomes agree with rows, bounds are used to their ends |
| `index_layouts` | 6 morsels, the converter's composite index or a bitset as exact set | **violation**: rows are skipped |
| `scan` | 2 queries of 2 partitions, 2 replacements of the file and 1 of a sidecar, 2 proofs at most | one file per query, sidecars belong to the table, only replacement disturbs, partitions end; `ProofCache` implements `LruCache` |
| `partial_proof` | 2 tasks on 1 page | **violation**: a proof for rows nobody validated |
| `results` | 2 clients, 4 insertions, 3 results, 2 retained | limits hold, results are lost only to time or displacement; the store implements `Paging` |

*Why the bounds are enough.* Two calls on one path are all that the replace
protocol can confuse: every step touches one call's own temporary file and one
final path, and the theorems remove the bound. Two publications and one reader
give every pairing of an old manifest with a new delta; readers do not interact.
Both publications use the same paths, which is the harder case. In a chain, each
hazard needs a record in the base, one in a delta and one in a delta after it,
two rows in one delta so that stamped times run ahead of `created_at_us` and one
row refers to another, two rows in the next so that its times overlap those of
the first, hence five CSNs, and two objects so that one can be untouched; three
times are enough for "before, at and after" a stamp. Chains that do not read are
reached within these bounds. Pruning decides each morsel alone, but for the composite index and
the coverage lists, which two morsels exercise; rows hold values on, below and
above every literal, nulls and NaN, and each kind of metadata occurs good, missing
and unusable, exact sets and Bloom filters also in each form that is misread. The
overlay hides rows of the first morsel only, and a coverage proof whose contents are wrong carries exactly one mark that says so, which is
what makes each check necessary. In `scan` the file is replaced by one that the
length and layout checks cannot tell apart and by one they can, three pages
compete for two places, and the clock ends within the run. In `results` four
insertions displace a result from a store of two, and rows are smaller than, equal
to and larger than what a page has left. Deadlock checking is off where every
behaviour ends: all calls, partitions or morsels are done, or a bound is reached.

*Fairness.* `DurableReplace` and `DeltaPublish` assume weak fairness of the steps
of a call whose process is alive: synchronous code that waits for nothing. Errors,
kills and crashes are never required, and a call that is killed has no enabled
step. `ScanFiles` assumes that registration runs on and that the engine polls
every partition (each step ends by itself, no step waits for another);
publications are never required. `ResultStore` assumes that a client which was
given a next offset asks again, and that the server answers. `DeltaChain` and
`MorselPruning` state no liveness: the one is made of commands that a user runs,
the other of a loop over morsels.

### Findings

1. *A bare file name* (`bare_name_fails`). `sync_parent_dir` opens
   `final_path.parent()`, which is the empty path for a name without directory,
   and fails. The documented command `cove delta reconstruct ... --out
   snapshot.cove` (`README.md`, 452-453) therefore reports an error although its
   output is published.
2. *Chain order* (`chain_order`). The specification applies records "in selected
   delta-chain order and COVE-O commit order"; readback sorts by commit time, and
   the summary accepts overlapping commit times. An object deleted by a delta
   whose rows are stamped ahead of the manifest, and created again by the next
   delta, stays deleted; in the run the tombstone is the object's first row in its
   delta. Where it follows another row of the object it refers to that row, the
   re-creation sorts between the two, and no object of the chain can be read any
   more (`RefInvalid`), nor can `cove map`, `checkpoint` or `compact` go on. Nothing
   else makes a chain of these tools unreadable (`OnlyRecreationBreaksReads`).
   Updates of *live* objects in a chain that reads are safe: the anchor check
   refuses a row before its parent state (`UpdatesTakeEffect`).
3. *Compaction* (`compact_history`). "Compaction MUST preserve object state,
   history, branches, tombstones"; `run_compact` writes the latest live states.
   What latest queries see is preserved (`CompactionKeepsValues`).
4. *Commit-time pruning* (`foreign_commit`). "Pruning MUST be conservative";
   row times are not validated against the header range that commit-time pruning
   relies on. The project's own builders stamp truthful ranges
   (`CommitPruningSound` holds in `chain_tools`); a delta of another tool need not.
5. *Partial proofs* (`partial_proof`). A page proof promises "that every non-null
   row slice is valid UTF-8"; `record_batch_for_selection` records it after
   validating the rows that the task selected, and later tasks trust it for the others.
6. *Composite indexes* (`index_layouts`). The Parquet converter writes zone
   entries under the transform that the reader takes for tuple entries. The length
   check tells them apart except when the number of morsels is a multiple of six
   (for two key columns); then matching morsels are skipped. An index "MUST NOT
   change logical results". In `pruning` the same index on two morsels is ignored.
7. *Exact sets* (`index_layouts`). The format has three representations, and
   `ExactSetIndex::parse` reads the keys of a sorted list only; a bitset or a
   roaring-like set is accepted and answers that it contains no code, so that an
   equality on the column skips every morsel. "Exact sets MUST NOT produce false
   negatives." The counterexample TLC prints is one of findings 6 and 7; with
   either member of `ConvertedMetadata` alone the run fails as well.

Exact sets and Bloom filters of single morsels or segments, and several Bloom
filters under one header, are misread in the same way and lose rows
(`LossMeansMisread` lists them; with each of them alone `PrunedHasNoMatch` fails).
The project's own converter writes sorted lists and single filters over the whole
column, marked with morsel granularity (`cove-arrow/src/parquet.rs`, 2526-2551 and
2629-2659), so these concern files of other writers. An observation without a
run: `negate` of an outcome turns
NoMatch into AllMatch even for zones with nulls, where the predicate is UNKNOWN;
nothing outside tests calls it, and it is not modelled.

## Proofs

The theorems hold for all values of the constants, under the named assumptions of
the modules:

* paths, calls and temporary names are distinct, delta and manifest calls are
  paired one to one, bounds are natural numbers;
* `DeltaChain`: there are finitely many objects (a file is finite), the first CSN
  and time are at least 1, the mark for "no state" is not a state, and the mark for
  a failed read is not a set of states;
* `ResultStore`: a page holds at least one row (`main.rs` refuses a page size of 0)
  and every row has a size;
* pruning: null, NaN and the marks for missing things are told apart, a
  dictionary gives different values different codes, rows are typed by their
  columns, tables and queries are finite, morsels hold rows, and a coverage proof
  whose contents are wrong says so in one of the marks the reader looks at. The
  last is the contract between provider and reader; without it no reader could be
  right, and which marks it looks at is what the proof is about.

TLC evaluates each of them on the instances of the runs.

**SetInduction** makes induction over data possible. The property to be proved is
given as the *set* of the things that have it, so no theorem takes an operator;
from the well-foundedness of the strict-subset order come induction over a finite
set, the existence of least and greatest members, and of functions defined by
recursion.

**DurableReplaceProofs** proves type correctness, `FinalPathComplete`,
`AckedNeverReverts`, `DurablePathStays` and `PublishedBytesNeverChange`, for any
number of calls and paths and for both builds (so the Windows build is covered
here and needs no run). `FinalPathComplete` is not inductive: it holds after a
rename only because the file was complete *and synced* before. The invariant
`IInv` adds that a call owns its temporary name until the rename (`TempsOwned`),
that the file is written and synced by then (`SyncedBeforeRename`), that no final
path leads to a file still being prepared (`FinalFilesPublished`), that a renamed
file is at its path or was replaced by a later one (`RenamedIsVisible`), and, on
Windows, that the disk agrees with the directory (`WriteThrough`).

**FileStoreProofs** proves the refinement `ImplementsFileStore`, and what the error
path promises: `OnlyBareNamesFail` and `TempsCleaned`. `FinalPathComplete` makes
what readers see a function of the directory alone (`SeenWhole`); then a rename is
`Publish`, a directory sync `Acknowledge`, the end of an error path or a kill
`GiveUp`, a crash `Crash`, and every other step a stutter. Added to the invariant:
a call has a serial number from its rename on and none before
(`SerialFromRename`), its temporary name is free before it starts and once it has
renamed (`TempsFree`), and a failing call has met a fault or an unopenable parent
(`ErrorsExplained`).

**DeltaPublishProofs** proves that every step is a step of `DurableReplace`
(`PublishImplementsReplace`), so `IInv` is inherited, and then
`ManifestNeverDangles` and `ReaderErrMeansOverwritten`. Added to the invariant:
a manifest that has started has an acknowledged delta (`DeltaFirst`), a path holds
only files meant for it (`FilesAtTarget`), no two calls share a serial number
(`SerialsDiffer`), and what a reader holds was published (`HeldIsPublished`).
`AckedNeverReverts` of the delta then says that nothing older can be at its path.

**DeltaChainProofs** proves, for any objects, columns, writers and chain lengths,
every property the two chain runs check.

*As of a CSN* (`CsnPruningSound`, `CsnSnapshotsStable`), deltas of other tools
included. The invariant: headers bound the CSNs of their rows from below, in the
chain and in every slot, and the CSN ranges of *any two* deltas are disjoint and
in order. The summary compares neighbours only; `AppendKeepsOrder` carries the
order to all pairs. Then a delta that starts above a cut has no visible row, and
the sets of records with and without pruning are equal. What readback computes
from a set of records plays no part.

*What readback computes.* `Reconstruct` applies the records of an object in the
order of `Before`, as a fold. The proofs show, by induction over the finite set
of records, that the fold exists and that its result is a state or none
(`TypeCorrect`), and that records which come after all others can be applied last:
readback of the chain with a new delta is the application of the delta's rows to
readback of the chain. Reads that fail are part of it: the references of a stamped
delta name earlier rows of the same delta and object (`StampedRefs`), a checkpoint
comes after everything and so breaks no read (`CheckpointReads`), a compacted base
has no references (`CompactionReads`), and a reference of the chain breaks only by
a row of the new delta that sorts before the row with the reference
(`BrokenByEarlierRow`), which the anchors exclude unless the row is a baseline:
`OnlyRecreationBreaksReads`. From that follow `UpdatesTakeEffect`, `UpdatesKeepTheRest`,
`CheckpointKeepsValues` and `CompactionKeepsValues`. They need to know what is in a
slot *relative to the parent it was built on*: the invariant `TInv` says that a
delta of `cove map` stamps its rows one after the other, begins with a baseline
where the parent has no state, and is otherwise after the state it changes
(`MapDelta`), and that a checkpoint holds exactly the live states, later than all
of them (`CheckpointDelta`). The parent check of `Extend` makes parent and chain the
same (`BuiltOnWhatItExtends`); without it `MapDelta` says nothing of the states an
append meets.

*As of a commit time* (`CommitPruningSound`) the hypothesis is that no writer is
another tool, the complement of finding 4: `CommitInv` adds that rows of the
chain are not before the start times of their headers and that start times ascend.

**ScanFilesProofs** proves `ScanTypeOK`, `OneFilePerQuery`, `SidecarIsForTable`,
`OnlyReplacementDisturbs` and the refinement `ImplementsLru`, for any files,
queries, partitions, capacity and number of replacements. `OneFilePerQuery` needs
that segment metadata is only ever cached of the file behind the query's
descriptor (`ReaderHoldsSegment`) and that pages come after it (`SegmentFirst`).
`OnlyReplacementDisturbs` needs that everything registration and queries hold was
at the path since the registration began (`SinceInv`): if that is one file, all
comparisons succeed. The refinement needs that no two proofs share an epoch and
none is ahead of the clock (`CacheInv`); then a hit is `Find`, an insertion
`Record` with the least epoch displaced (`Used`, `InsertIsRecord`), and every
other step a stutter.

**MorselPruningProofs** proves, for any files, metadata, overlays, coverage proofs
and queries of the modelled forms, all that the run `pruning` checks. The
invariant itself is small (`PlanInv`: the file does not change and the plan is its
lowered query); the work is in the operators:

* outcomes. AND and OR keep outcomes true of the rows (`AndAgrees`, `OrAgrees`);
  the outcome of an integer range or a range of domain ranks is true of every zone
  whose statistics describe its rows (`RangeSound`, `RankRangeSound`), and as sharp
  as the bounds allow for the ranges a scan asks for (`DisjointTight`). A bound
  which admits one end of a zone admits every value beyond it (`LowerMonotone`,
  `UpperMonotone`), inclusive or not;
* lowering. A predicate asks no more of a value than the atom it comes from
  (`Weaker`), so a row that satisfies a clause passes the filter that stands for it
  (`LoweredFrom`, `Passes`), merged equalities and clauses that are only partly
  lowered included; resolution to codes keeps this;
* metadata. Zone statistics, domains, exact sets and Bloom filters that are not
  misread, lookup, inverted and tuple indexes, page null counts and usable coverage
  proofs exclude a morsel only if none of its visible rows passes (`CoverageSound`, `TuplesFound`).

Together: `OutcomesSound`, `ReadsWithinBounds`, `PruneTypeOK` and, as theorem
`SkippingInvisible`, `LossMeansMisread`, without further hypotheses: the files whose
indexes are misread are among those the theorem is about, and what it says of them
is that no other query loses a row than one that asks such an index. That it
cannot say less is shown by `index_layouts`. `OutcomesSound` leaves out equalities with a
code in files whose exact set is misread, and nothing else.

**ResultStoreProofs** proves `TypeOK`, `StoreBounded`, `LostMeansDisplaced`,
`PageWithinLimits` and that the store implements the safety part of `Paging`
(`PagingSafety`: initial states and steps), for any clients, results and limits.
The invariant `IInv` says of the store that map and queue have the same handles, in
ascending order, none above the sequence number, and of each client that its
result is in the store with the rows it asked for, or gone for a reason (`Gone`:
too old, or followed by `MaxHandles` insertions), that its offset is what it has
received, and that its page is within the limits. The order of the queue is what
turns "the front is evicted" into "at least `MaxHandles` were inserted later".
`PageRows` is the longest prefix that fits: it exists and is not empty while rows
are left, which makes every successful fetch a step of `Paging`.

**Only model-checked**: liveness, since fairness is out of the prover's reach:
`CallsReturn`, `ManifestFollows`, `ScansFinish`, and the fairness part of
`ImplementsPaging` (that a client which keeps asking gets all rows or an error).
Every safety property of a passing run is a theorem. `ErrMeansFault`,
`ProofCoversPage` and the other properties of violation runs are false of the code.

## Not modelled

Most of the repository is byte-level code without state: encoders and decoders of
sections, pages, dictionaries and sidecars, conversion of values type by type,
validation of profile payloads, corpora and conformance tests. Their correctness
is a round trip over bytes, where a model would repeat the program and a property
test says more; the models take checksums and digests as faithful identities.
COVE-MAP's identity resolution, COVE-I lookups and CoveQL are deterministic
functions of files that do not change, checked by their own tests against
materialized readback. What is left out of the modelled parts:

* `DeltaChain`: branches, references between deltas, source-publish pruning, and the
  latest-state index and point-lookup filters of `.covedelta`; the read-modify-write
  of two concurrent `chain-extend` (a stated non-goal of the code).
* Pruning: aggregate synopses, COVE-I candidates, NOT, LIKE and byte strings.
* `ScanFiles`: remote object stores, whose reads are not by path.
* `ResultStore`: the tools that only read files.

## Plan

1. `DeltaChain`: the parts listed above.
2. COVE-I candidates in `MorselPruning`.
