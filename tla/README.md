# scry-index: TLA+ models, checks and proofs

scry-index is a concurrent ordered map whose nodes place keys with linear
models (`LearnedMap`, in `src/`), and a small LSM-tree key-value engine that
uses it as a memtable (`scry-lsm/`). This directory models both, checks the
models with TLC and proves part of what they promise with TLAPS.

## Inventory

### The map (`src/`)

| part | state | operations | what makes it correct |
|---|---|---|---|
| slot protocol, `node.rs` | per slot an atomic state (EMPTY, DATA, TOMBSTONE, WRITING, CHILD, CHILD_STALE), inline key and value, a tagged child pointer; per node a count of tombstones | CAS to WRITING, publish inline data or a child, CAS to TOMBSTONE, freeze and swap the child pointer | one owner of a WRITING slot; inline data never changes once published; a child state implies a child pointer |
| insert, get_or_insert, `insert.rs` | thread locals: where the descent is, the last pointer crossed (`descent_snapshot`), whether the key was new | retry loops over the slot protocol, then validation that the subtree is still in the tree | no finished write is lost to a concurrent rebuild; a key is counted as new once |
| remove, `remove.rs` | the same | tombstone the slot, validate, compact a subtree with many tombstones | the key does not come back |
| lookup, `lookup.rs` | none | get without retries | returns what was there |
| subtree rebuild, `rebuild.rs` | the frozen tag of the pointer to the subtree | freeze, snapshot, build, swap, retire; `FreezeGuard` unfreezes | one owner of a frozen pointer, no node leaked or retired twice, everybody who waits goes on |
| iteration, `iter.rs` | a stack of (node, slot) | `Iter`, `sorted_pairs`, `Range`, `first_entry`, `last_entry` | no key that stays is missed, none comes twice |
| map, `map.rs` | root pointer, `len`, `next_root_rebuild` | insert, remove, get, get_or_insert, iter, range, len, rebuild, clear, drain, automatic root rebuild | the map of its calls; `len` is right when nobody is running |
| linear models, `model.rs` | none | `predict`, `fit_fmcd`, `count_conflicts_fast` | monotone, in bounds |
| bulk load, `build.rs` | none | recursive construction of nodes | terminates, keeps every key, keeps the slots in key order |
| keys, `key.rs` | none | `to_model_input`, `to_exact_ordinal` | monotone; keys that coincide in both are still told apart |
| set, `set.rs` | a map to the unit value | forwards to the map | those of the map |
| `config.rs`, `error.rs` | none of their own | definitions | |

All of it is shared by threads without a lock; memory is reclaimed by
crossbeam-epoch. The hard part is the meeting of writers with rebuilds: a
writer publishes in a slot and then checks that the pointer it descended
through is neither frozen nor replaced; a rebuild tags that pointer and then
reads the slots. Each must see the other, although none of these accesses is
sequentially consistent.

What one thread sees must be a sorted map, which is a matter of the algorithms:
predictions that ascend with the keys, keys that coincide as `f64`, trees that
nest. Every scan reads slots in index order and trusts that this is key order.

### The engine (`scry-lsm/`)

| part | state | operations | what makes it correct |
|---|---|---|---|
| engine, `engine.rs` | memtable, WAL and manifest, the latter two each under a mutex | put, get, delete, flush, ingest, open | a key has the value of its latest write, whatever was flushed, compacted or recovered |
| WAL, `wal.rs` | a file and a `BufWriter` | append, truncate, recover | what the memtable holds can be replayed |
| memtables, `memtable/` | a concurrent map and `byte_count` | insert, get, delete, drain_sorted | an entry is either drained or still there |
| manifest, `manifest.rs` | tables per level, oldest first | add, remove, levels | the order of tables is the order of writes |
| compaction, `compaction.rs` | none | merge a full level into the next | keeps the newest entry of a key and the tombstones that are still needed |
| SSTables, `sstable/` | blocks, index, footer | write, open, get, scan | every entry written is found |

Clients call the engine from several threads. The log, the memtable and the
manifest are updated one after the other with no common lock, and the process
may die between any two of these steps.

The fuzz targets compare the map with a `BTreeMap`; that oracle is modelled.
Tests, benchmarks and examples use these parts; they were read for what they
expect and are not modelled. `PROJECT.json` lists every part with its
status, and every hazard with its line.

## Modules

| module | models |
|---|---|
| `LearnedTree` | the map: every thread's path through insert, remove, get, get_or_insert, iter, len, rebuild, clear, drain, subtree rebuild and tombstone compaction |
| `LinearModel` | `predict`, `fit_fmcd` and the models of new nodes, in exact rational arithmetic |
| `MCLearnedTree` | instances of the two for TLC: keys, model tables, programs |
| `LearnedTreeProofs`, `LearnedTreeRouting`, `LearnedTreeWalks`, `LearnedTreeUpdates` | theorems about `LearnedTree`, each module on top of the one before: types and exclusive access; pointers and where keys are; what walks find and steps change; no update is lost |
| `Freeze`, `MCFreeze` | the handshake of writers and rebuilds over one child pointer, with store buffers and panics |
| `FreezeProofs` | theorems about `Freeze` |
| `Keys` | key types: order, model input, ordinal |
| `IndexTree` | the tree as a value and every algorithm on it, as one thread runs it: bulk load, writes, rebuilds, all reads |
| `LearnedMap`, `MCLearnedMap` | `LearnedMap` and `LearnedSet`: constructors and calls of one thread over `IndexTree` |
| `SortedMap` | abstract specification: the sorted map `LearnedMap` implements |
| `SsTable` | the layout of an SSTable, lookup and scan |
| `Wal` | the log's format, byte by byte: append and recover |
| `Lsm` | the engine with WAL, memtables, manifest and compaction; crashes and reopenings |
| `MCLsm` | instances of `Lsm` for TLC |
| `WalProofs`, `LsmProofs`, `LsmReplay` | theorems about `Wal` and about the log of `Lsm` |

### LearnedTree

A state has the tree (`model`, `st`, `inline`, `ptr`, `tombs` of each node;
`used` and `retired` nodes), the counters of the map (`len`,
`next_root_rebuild`) and, per thread, a program counter, the call it makes
(`call`), its descent (`walk`), its rebuild or iteration (`rb`) and what it will
return. `acc`, `before`, `rival` and the like are history: which outcomes are
acceptable for a key once the calls so far have returned.

One action is one atomic access, named after the place in the code:
`LoadRoot`, `Descend`, `Claim` (the CAS to WRITING), `PublishInline`,
`PublishChild`, `RemoveHit` and `RemoveMiss`, `Validate` (the check of
`descent_snapshot`), `CheckRatio`, `LoadOwn`, `Recheck` (the map's check of the
root), `Count`, `CheckGrowth`, `AdvanceThreshold`, `ReadRoot` and `ReadStep`
(lookup), `ScanStep` and `ScanEnd` (iteration and the snapshot of a rebuild),
`LoadVictim`, `Freeze`, `Unfreeze`, `Swap`, `ResetCounters`. The header of the
module says which accesses are taken together and why.

Abstractions. Memory is sequentially consistent; the code uses Release/Acquire,
and whether that is enough for "publish, then check" against "tag, then read" is
`Freeze`'s question. Nodes are not reused, which is what epoch
reclamation provides. Values are unique. A node's model is a table from keys to
slots; slots no key predicts to are left out. What `build_recursive` and
`build_degenerate` build is a tree of any depth (`Trees`): its root has the
model fitted to the snapshot's keys (`Fit`), and wherever that model leaves
several keys in one slot there is a child for them, built in the same way. The
fits are parameters, so nothing is said of how well they spread the keys; only
if a fit left all its keys in one slot, where the recursion in the code would
not end, is there no tree and no swap. The nodes of the new tree are published
by one CAS, so `Swap` is one action for any size of it. Panics are
`Freeze`'s. `num_keys`, `allocated_bytes` and `max_depth` are left out, as
nothing depends on them.

### LinearModel

The formulas of `model.rs`, `insert.rs` and `map.rs` for slopes and intercepts,
with rationals for `f64` (the keys of the runs are small integers, where the
difference is only in rounding at exact halves). The run's models are therefore
the ones the code would build, and 63..65 share the last slot of a new map's
root, as neighbouring keys of a large map do. `tree_live` has the models of
63..65 spelled out, for TLC's sake; `SpelledOut` says that they are the same.

### Keys, IndexTree, LearnedMap and SortedMap

`IndexTree` has the tree as a value: a node is its model (a line, a binary split
in the middle of two ordinals, or a split key), its capacity and its slots. Its
operators are the functions of `build.rs`, `lookup.rs`, `insert.rs`, `remove.rs`,
`rebuild.rs` and `iter.rs`, recursive as they are there, for trees of any depth.
`LearnedMap` has the fields of the map (`root`, `len`, `next_root_rebuild`,
`config`) and an action for each constructor and call, also those of
`LearnedSet`, `Extend` and serde. `found` is what `get` answers for every key
after the call, and `last` the call with its argument and answer.

`SortedMap` is the `BTreeMap` of the fuzz targets with the same calls. `Refines`
says that `LearnedMap`, with `map <- found`, implements it: every answer and
every effect is the sorted map's.

`Keys` takes the widths of the conversions as parameters, so that the cases that
need 2^53 or 16 equal bytes happen with small keys: 53 mantissa bits, 8 bytes of
model input and 16 of ordinal are 3, 1 and 2 in the run, with 4 values of a byte
and a half range of 16. Abstractions: slopes are exact rationals, so rounding of
`slope * x + intercept` is left out; a slot that is EMPTY is outside the domain of
`slots`; a sort leaves sorted input alone.

### Freeze

One child pointer (`cell`), the slots of the subtrees it has led to (one slot per
key, its deepest), and threads that write or rebuild. A writer's Release store
goes to its buffer (`Publish`) and reaches memory later (`Flush`); a
compare_exchange or fetch_add waits for an empty buffer (`Claim`, `Remove`,
`Count`), as on x86. `Validate` loads the pointer again, possibly while the store
is still in the buffer; `RbFreeze` tags it, `RbScan` reads the slots and waits on
WRITING, `Swap`, `TooSmall` and `Panic` end the rebuild. `Panic` is a clone of a
key or value that panics in the snapshot: `FreezeGuard` gives the pointer back
without its tag. Machines weaker than x86-TSO are not covered.

### Lsm and SsTable

A state has the memtable, `byte_count`, the bytes of the log file and those
appended since it was opened, the levels with their tables, the manifest's mutex
and each client's progress. A put is logging, inserting, counting and perhaps a
flush; a flush is draining, taking the manifest's mutex, adding the table,
truncating the log and compacting. What a step does under a mutex that nobody
can look into is one action. The three memtables differ in how an overwrite goes
(the learned one inserts, removes and inserts again) and in how they are drained
(the skip list copies entry by entry and then removes key by key). `Crash` may
happen at any point: of what was appended since the log was opened or truncated,
any number of bytes has reached the file, and calls under way may have taken
effect or not. `Close` drops the engine, which flushes the `BufWriter`. Both
open it again: `Wal`'s `recover` reads the bytes back, record by record, stops
at an incomplete one and refuses one of unknown type, and the file is appended
to as it is (`torn` remembers that it ended in an incomplete record).

Abstractions: sizes are counted in entries; a key is one byte and a value two;
the empty value stands for a deletion only (in the code a put of an empty value
is one too); tables reach the disk whole; I/O errors and poisoned locks are left
out; the memtables' single operations are atomic, and a drain of the learned map always
succeeds.

## Runs

Deadlock is checked in the runs of `LearnedTree` and `Lsm`: a state in which
calls are unfinished and nobody can move would be reported. Such a run ends in
`Finished`, where the model may stutter. `index_seq` and `freeze` stop for good
when the bound on the calls is reached, so deadlock is not checked there;
`AllReturn` says of `freeze` what it would.

| run | checks | instance |
|---|---|---|
| `tree_write` | `NoLostUpdate`, `SlotExclusive`, `WriteOnce` | three threads; two writers against an insert that rebuilds the subtree they write to, or a rebuild, clear or drain of the root |
| `tree_growth` | `NoLostUpdate`, `FreezeExclusive`, `OneOwner`, `SearchTree` | tombstone compaction, subtree rebuild and automatic root rebuild meet; what the two rebuilds build nests a child |
| `tree_read` | `TypeOK`, `IterRegular`, `ReadsWritten`, `LenExact` | a get or an iteration and two writers under both kinds of rebuild |
| `tree_live` | `Terminates` | two threads, all writing operations, rebuild and clear |
| `lsm_seq` | `GetRegular`, `ReadsLatest` | one client: fresh keys, a compaction into a new level, rewrites and deletions above it; all memtables |
| `lsm_race` | `ReadsLatest` | a client that puts and flushes against one that deletes |
| `lsm_log` | `LogMatchesMemtable`, `CrashKeepsPrefix` | one client with a crash at any byte, or a reopening |
| `index_seq` | `Refines`, `OrderedScan`, `RangeExact`, `EndsExact` | one thread, maps and sets, four key types with five keys each, two configurations |
| `freeze` | `FinishedKept`, `AllReturn` | two writers and two rebuilds of one subtree |

What the properties say:

- `NoLostUpdate`: whenever no call on a key is running, the tree holds for it
  the outcome of a finished call that no later finished call superseded. A write
  a rebuild's snapshot misses and whose validation passes would violate it.
- `SlotExclusive`, `FreezeExclusive`: every WRITING slot, every frozen pointer
  has exactly one owner, who finds it as it left it.
- `WriteOnce`: no step changes published inline data.
- `OneOwner`: every node that was ever published is either reachable through
  exactly one pointer or has been retired, once.
- `SearchTree`: at every moment, what an iteration would yield is what `get`
  finds, key by key. It fails when an entry is where `get` of its key does not
  look, or when a key has two values in the tree, of which `get` finds one.
- `IterRegular`: an iteration yields every key that is present throughout, and
  none twice. `ReadsWritten`: reads return values the key may have had meanwhile.
- `LenExact`: when nobody is running, `len` is the number of entries.
- `Terminates`: every call returns.
- `ReadsLatest`, `GetRegular`: the same two promises for the engine, over
  memtable and tables.
- `LogMatchesMemtable`: when nobody is running, replaying the log gives the
  memtable, unless the log was opened with an incomplete record at its end and
  not truncated since (`v_torn` shows what happens then). `CrashKeepsPrefix`: cut
  such a log anywhere, and recovery succeeds and gives a prefix of the writes.
- `Refines`: each call answers and acts as that of a sorted map.
- `OrderedScan`: an iteration, and so every snapshot of a rebuild, yields what
  `get` finds, in order; `len` and `total_keys` count it. `RangeExact`: a range
  between any two bounds yields the pairs between them, `EndsExact`: the first and
  last entry are the ends. They fail where a slot order is not the key order, or a
  walk does not leave an emptied child.
- `FinishedKept`: what a finished insert or remove did is in the subtree the
  pointer leads to. `AllReturn`: every call and every rebuild ends, also when
  another one panics.

Bounds. Two or three threads with up to four calls, three keys that share a slot
of the root (63, 64 and 65, whose rebuilt nodes are free of conflicts, and in
`tree_growth` 63, 64 and 100, for which FMCD finds no model that keeps 63 and 64
apart in the 5 slots of a rebuilt subtree or the 6 of a rebuilt root), `MaxNodes` large enough that no run is cut off (`LearnedTree`
guards allocation with it; a thread stopped by it would be a deadlock, which TLC
reports). Three threads are needed
because the interesting case is two writers and a rebuild, or two rebuilds and a
writer. `Main` makes its first `Prelude` calls alone, to set the stage without
interleaving. `DepthThreshold`, `InitialRootRebuild` and the tombstone ratio are
small so that rebuilds happen after two or three calls. For the engine: one or
two clients, up to eight calls, blocks of two entries, a flush threshold of one
or two entries, three to six tables per level, at most one restart. `lsm_seq`
starts with one level, so that the first compaction already has to make the next
one, as the compaction of the last level does. Its compaction merges keys that
were written once: what compaction does to a key with several versions is shown
by `v_merge`. `LenExact` is checked in `tree_read`, where no two calls of
different threads make or remove the same key; below is what happens then.

For the index: three calls after any constructor, where a call may extend the
map by four pairs. The five keys of each type include runs of two and three that
coincide as `f64`, and strings that coincide in the ordinal or are prefixes of
each other, so that each kind of node is built by bulk load, by conflict and by
rebuild. The second configuration rebuilds after one descent and at a tombstone
ratio of a tenth. TLC identifies states by `View`, which leaves out `last` and
`found`: no action reads the former, the latter is a function of the rest. For
`Freeze`: two calls of each writer and one rebuild of each rebuilder, that is a
write in either old subtree and one that is retried twice.

Fairness. `tree_live` assumes weak fairness of every thread's next step and
nothing else: the operating system runs every thread, and a thread that waits in
the code (`Backoff::snooze`, which yields) keeps reading the word it waits for.
A wait is a disabled step in the model. No fairness between the alternatives of a
step is assumed. `freeze` adds that a store buffer drains, and leaves open
whether a rebuild starts or panics.

### Where the code and its documentation disagree

Each `v_*` run states what a comment, a document or a test says and ends in a
counterexample; `PROJECT.json` quotes the line.

| run | what happens |
|---|---|
| `v_get` | a get misses a present key while an insert of another key has its slot in WRITING |
| `v_merge` | compaction keeps the oldest of several values of a key, not the newest |
| `v_torn` | after a crash in the middle of a record, later writes are appended behind the incomplete record and not replayed |

With other programs and the same modules TLC shows more, for which no run is
kept; the programs of the passing runs leave these cases out:

- two get_or_insert of one key return different values, around a subtree rebuild
  (`map.rs:480`: "This is atomic with respect to concurrent operations");
- two inserts of one key both return true, around a root rebuild; `len` stays too
  large (`LenExact`);
- get_or_insert may not find the entry it has just made ("Should not happen by
  construction", `insert.rs:358`), if a remove takes it or an insert has its slot
  in WRITING; it then reports the key as already there, and `len` stays too
  small (`LenExact`);
- a remove answers that its key is not there when another remove, not validated
  yet, has just taken the entry out of a frozen subtree; the swap brings the entry
  back until the other remove has tried again, and a get finds it
  (`ReadsWritten`);
- clear returns without clearing while a rebuild has the root frozen
  (`map.rs:807`: "Remove all entries from the map");
- compaction drops a tombstone that still hides a value in an older table of the
  target level (`ReadsLatest`);
- opening the engine forgets the SSTables, and a put that has returned is lost in
  a crash while its record is in the `BufWriter` (`ReadsLatest`, with
  `MaxRestarts` 1);
- a flush truncates the record of a put that has been logged but reaches the
  memtable after the drain (`LogMatchesMemtable`);
- two flushes may register their tables in the wrong order, and the skip list's
  drain removes an overwritten entry it has not copied (`ReadsLatest`, two
  clients that flush);
- a get during a flush finds the key nowhere (`GetRegular`);
- two puts of one key may reach the log and the memtable in different orders
  (`LogMatchesMemtable`).

And from reading the code alongside the models:

- a root rebuild or drain whose clone panics leaves the root frozen, as there is
  no guard like the subtree's (`map.rs:663`); writers then wait for ever;
- an update of a present key adds a level and never rebuilds, so the depth of a
  key that is only updated is not bounded by `rebuild_depth_threshold`;
- `config.rs:20-22` gives `(len / 4).clamp(16, 10_000)` for the rebuild threshold,
  which in the code starts at 64 and doubles;
- `rebuild.rs:10` and `:67` speak of a recovery scan after the swap; the writers'
  validation has taken its place.

## Proofs

Every theorem holds for every value of the constants that satisfies the
assumptions of its module, which TLC evaluates in the runs.

| module | theorem | says |
|---|---|---|
| `LearnedTreeProofs` | `Invariance` | `Spec => []IInv` |
| | `TypeCorrect` | `Spec => []TypeOK`; in particular no thread ever holds a null child pointer |
| | `SlotOwnership`, `FreezeOwnership` | `Spec => []SlotExclusive`, `Spec => []FreezeExclusive` |
| | `InlineImmutable` | `Spec => WriteOnce` |
| `LearnedTreeRouting` | `PointerInvariance` | `Spec => []OwnInv` |
| | `NodesOwned` | `Spec => []OneOwner` |
| | `Acyclic` | `Spec => []Descending`: a child is younger than the node its slot is in |
| | `RouteInvariance` | `Spec => []RouteInv` |
| | `LookupsAgree` | `Spec => []SearchTree` |
| `LearnedTreeWalks` | `WalkInvariance` | `Spec => []WalkInv` |
| | `SnapshotSound` | the pointer `descent_snapshot` remembers leads to the child the writer entered, or that child is retired; the key's walk through it ends where the writer's does |
| `LearnedTreeUpdates` | `UpdateInvariance` | `Spec => []UpdInv` |
| | `NoUpdateLost` | `Spec => []NoLostUpdate` |
| `FreezeProofs` | `Invariance`, `TypeCorrect` | `Spec => []IInv`, `Spec => []TypeOK` |
| | `FreezeOwned` | `Spec => []OwnerInv`: the frozen pointer has one owner, also when rebuilds panic |
| | `FinishedWritesKept` | `Spec => []FinishedKept` |
| `WalProofs` | `PutRecovered`, `DeleteRecovered` | a record is read back as it was written, and as nothing when it is cut off |
| `LsmProofs` | `LogInvariance` | `Spec => []LogInv`: a log that was opened whole is one of whole records |
| | `CrashPrefix` | `Spec => []CrashKeepsPrefix` |
| `LsmReplay` | `ReplayInvariance` | `Clients = {c}` and `Spec` give `[]ReplayInv` |
| | `LogReplaysToMemtable` | `Clients = {c}` and `Spec` give `[]LogMatchesMemtable` |

### The map

Assumptions, all stated in `LearnedTree`: `ConstantsAssumption` (what the
constants are), `ModelsAssumption` (every model gives each key a slot, and lists
the slots some key has) and `SeparationAssumption` (the model of a conflict child
keeps apart the two keys the child is made for, which `build_conflict_node` sees
to for every pair). Of the models that rebuilds fit nothing more is assumed:
they may leave any keys together, and the theorems hold for the nested trees
that result.

The invariant is `IInv == TypeOK /\ TreeInv /\ (\A p : ThreadInv(p)) /\
SlotExclusive /\ FreezeExclusive`. None of the parts is inductive alone.
`TypeOK` needs `TreeInv` (a child slot has a child pointer, an allocated slot
past EMPTY has inline data or a child), because a descent loads that pointer.
`SlotExclusive` needs `ThreadInv` (a thread about to publish stands at a WRITING
slot of an allocated node, and remembers what the slot was before), because
publishing must end the ownership of the right slot. `FreezeExclusive` needs the
rebuilder's part of `ThreadInv`: between freeze and swap the pointer it froze is
the one it remembers, and no other action changes a frozen pointer. `WriteOnce`
follows from `SlotExclusive` and `ThreadInv`: only a slot claimed from EMPTY is
written, by its one owner. The proof has a lemma for each action's types, one
for what a step of a thread leaves alone (`Footprint`), from which every other
thread's `ThreadInv` follows, and one per group of actions for the thread's own.

`OneOwner` counts pointers, which is not what a step knows. `OwnInv` says instead
that two cells never lead to one node (`Injective`), that a slot without a child
state has no pointer (`NoStrayChild`), that a node is retired exactly if no cell
leads to it (`Owned`) and that pointers lead to younger nodes (`Descending`). It
uses `IInv`: `PublishChild` overwrites no pointer because its slot is its own, and
`Swap` retires the one it overwrites because that is the one it froze.

`SearchTree` needs to know which keys belong to a node, and the code keeps no
such thing. `RouteInv` says that there is a function `R` from nodes to sets of keys
with all keys for the root and, for a child, the keys of its parent that predict
to its slot, such that every entry is in a slot its key predicts to. A step that
allocates a node extends `R`. For a conflict child this needs that the writer is at
a node of its key, also when it retries from a root that has been replaced
(`WalkRoutes`); for a rebuild, that everything its scan has collected belongs to
the root of the subtree (`ScanRoutes`). A rebuild's tree has its own account of the
keys, the runs it was built for, and `R` must give each of its nodes at least
those: `PassedDown` shows that the keys of the pointer's slot, handed down through
the tree's models, do. `LookupsAgree` then compares `get` with the
iteration from the youngest node to the oldest: both are recursive functions on
the tree, which have a solution because pointers are `Descending`.

#### No update is lost

`NoLostUpdate` is the promise the validation protocol exists for, and none of its
parts is an invariant alone: a writer may publish into a node that a rebuild has
already copied, and then the update *is* missing from the map for a while, until
the writer's validation fails and it tries again. After the remove that misses an
entry another remove is about to lose, the map even holds what no finished call
allows, and only the other remove, still running, makes up for it. The invariant
has to say who makes up for what.

*Walks* (`LearnedTreeWalks`). `Leaf(k)[n]` is the node at which a walk of key `k`
from node `n` ends and `Value(k, n)` what it finds there; an entry counts as found
also while an insert that moves it into a conflict child has its slot in WRITING.
`QuietValues` says that every step but three kinds leaves all values as they are,
`InlineWrite`, `ChildWrite` and their kin that these change the value of one key,
for the nodes whose walks end at the writer's slot. Because a writer validates
against one pointer only, in the root's slot of its key, `WalkInv` adds a function
`H` that gives each node which is not a root its home: the child of a present or
former root that all walks to it go through. A writer stays in the home it
entered, so that a swap of that pointer is all it needs to look for
(`SnapshotSound`), and so does the scan of a subtree rebuild. `AddedValues` says what
is found in a tree that a swap puts in place, at any of its nodes: for each key
built into the node the entry of the snapshot, however deep it ended up, and
nothing else. The nodes of a rebuilt subtree have its root as their home, those
of a rebuilt root the child of the root they are below (`HomesSwap`).

*Versions*. A key has a version at up to three kinds of place (`IsVersion`): `live`,
what readers find; `sub`, what the snapshot of a rebuild of its subtree may end
with; `top`, the same of a rebuild of the root. A swap turns a version of the
second and third kind into the live one. `Snap` says what a snapshot may end with:
the entry it has collected, or the present value below a slot it has yet to scan,
or nothing if it is past all of the key's slots.

*Dues*. `Due(k, j, x)`: some running call will replace outcome `x`, should place `j`
hold it, since it starts over at the root, or will find at its validation that
its write was in vain, or has yet to write and sees `x`. A rebuild that scans a slot
before a writer publishes into it takes an old version along; the writer is due
for it at its place, and stays so when the swap makes it the live one.

*The invariant*, `UpdInv`: every version at every place that no call is due to
overwrite is (`AccInv`) acceptable or the outcome of a call under way; for a call
that has written (`WroteInv`), that call's outcome or that of a call overlapping
it; for one that looks at the key (`LooksInv`), what it sees, or a rival's; for a
get_or_insert that has found the key (`AnswerInv`), its answer, or a rival's. The
last three are needed when a call returns: acceptable is then its own outcome,
or a rival's, and whatever it superseded must be gone from every place, the
snapshots included. `LooksInv` is needed for `AnswerInv` and for a remove that finds
nothing. It fails for a snapshot of the subtree that misses a write the call
does not redo, and `SubInv` excludes that: a subtree's snapshot differs from the
subtree only for a key that a running call, whose validation will fail, has
written since.

When no call on `k` is running nobody is due for it, so the live version is in
`acc[k]`. The proof has one lemma for each of the parts and each kind of step
(quiet, write of an entry, swap, return). `UpdInv` quantifies over `R` and `H`; TLC
checked its parts with both written out from the tree, on instances of three
threads with subtree and root rebuilds, before any of it was proved.

The proof needed one fact about models that `Models` had not said: the slots an
iteration or a rebuild visits (`scan`) include every slot a key predicts to. In the
code a scan goes over the whole array of slots.

### Freeze

Assumption: `FreezeAssumption` (writers, rebuilders and other keys are different
and finite). That a finished write is in the reachable subtree is not inductive,
as a rebuild may be about to replace that subtree by its snapshot. The invariant
says of every writer that is not between its claim and its validation that the
reachable subtree and the snapshot under way, its scanned and its unscanned part,
agree on the writer's key, and of one that is, that the node it saw holds what it
wrote (`WriterInv`). `CountInv` says that there is a node left for each rebuild. The store
buffer is in it: a slot reads as its writer left it or as the store still in the
buffer will leave it (`Final`), and the scan waits for WRITING. For every number
of writers, rebuilds and calls.

### The log

Assumptions: `LsmAssumption` and `ProgramAssumption` (keys are bytes, the
program consists of calls of the engine), both about the instance.

`Wal::recover` is a recursion over positions. Its value at a position is
determined by those at later ones, so statements about it are proved backwards
from the end of the file (`Backwards`): what is recovered is not changed by a log
in front of it (`RecoverShifted`), and behind a log of whole records a further
record is recovered after its records (`RecoverExtended`). `PutRecovered` and
`DeleteRecovered` take the length fields apart and put them together again; they
assume that key and value are shorter than 2^32 bytes, the width of `len() as
u32` in `append_put`.

`LogInv` adds to `CrashKeepsPrefix` that a log which was opened whole consists of
whole records, and that a client that is about to log has a put or a delete as
its call. It holds for any number of clients.

`LogMatchesMemtable` needs one client: two puts of one key may reach the log and
the memtable in different orders, and a flush may truncate a record another
client has just written, as listed above. With one client, `ReplayInv` says what
the log replays to at each point of a call: the memtable with the entry about to
be stored, the entries a flush has drained while it has not registered its table,
and otherwise the memtable. Restarts, crashes and every memtable are included.

### Only model-checked

`IterRegular`, `ReadsWritten`, `LenExact`, `GetRegular` and `ReadsLatest` do not hold
for every program (the cases are listed above), so they are checked for programs
without those cases. `Refines`, `OrderedScan`, `RangeExact` and `EndsExact`:
`IndexTree` is recursive over data, which is out of the prover's reach.
`Terminates` and `AllReturn`: liveness under fairness is, too.

## Not modelled, and the plan

In this order:

1. the concurrent map as an implementation of `SortedMap`: `LearnedTree` without
   `get_or_insert`'s stale read and `get`'s answer at a WRITING slot;
2. `Range` under concurrent writers; a drain of the learned memtable that gives up;
3. the freeze handshake on machines weaker than x86-TSO.

Left out for good: `num_keys`, `allocated_bytes` and `max_depth` (statistics
nothing depends on), the byte encoding of SSTables, I/O errors and poisoned
locks, the decoding of fuzz input, `error.rs` and the crate roots (definitions),
tests, benchmarks, examples and `contrib` (users of the library).
