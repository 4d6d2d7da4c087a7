# Verification of routing_table

`routing_table` is an in-memory BGP routing information base (RIB) in Go: binary
tries for IPv4 and IPv6 whose nodes hold paths, and a table of interned,
reference-counted path attributes that several RIBs may share. This directory
holds TLA+ modules that model it, TLC configurations that check them, and proofs
that TLAPS checks.

## 1. The system

| Part | Source | State | Operations |
|---|---|---|---|
| Attribute table | `hash.go`, `types.go` | `entries` (hash bucket -> pointers), `refCount` in each copy, `attrCount`, `sliceBytes`, `at.mu` | `getOrInsert`, `release`, `releaseN`, `releaseTree`, `attrTally`, `Len`, `GetStats` |
| Node | `node.go` | inline path (`pathID`, `attrs`, two flag bits), overflow slice `extra`, children, parent | `setPath`, `deletePath`, `firstStalePathID`, `allPaths`, `bestPathWithID`, `isPathStale`, `deleteNode` |
| `IPv4Rib` | `ipv4.go`, `utils.go` | `root [256]*node`, `count`, `pathCount`, `nodeCount`, `masks`, `r.mu` | `Insert(Batch)`, `Delete(Batch)`, `MarkAllStale`, `DeleteStaleRoutes`, `Reset`, `Search`, `AllPathsSearch`, `Lookup`, `AllPaths`, `AllPrefixes`, `PrefixesBy...` |
| `IPv6Rib` | `ipv6.go` | the same, with `root [32]*node` | the same |
| Graceful restart | `ipv4.go`, `ipv6.go`, `node.go` | the stale flags | `MarkAllStale`, re-announcements, `DeleteStaleRoutes` |
| Statistics readers | `ipv4.go`, `ipv6.go` | none | `MemoryUsage`, `StartLogging`, `PrintRib`, counters |
| Pure helpers | `types.go` | a per-query memo | `SelectBest`, `asPathMatcher`, community predicates |
| Deprecated router | `router.go` | a slice of RIBs | unused |

**Interaction.** A writer takes its RIB's `r.mu` and, inside it, the table's
`at.mu` for each `getOrInsert` and `release`. Two methods end differently:
`Reset` swaps the root array under `r.mu`, gives the lock up, and walks the old
trie and releases its references with no RIB lock; `DeleteStaleRoutes` collects
the swept references in a tally and flushes it after `r.mu` has gone. Both
flushes are `releaseN`, which gives `at.mu` up between chunks of a large tally.
A RIB never touches another RIB's trie; they meet only in the attribute table.
A query takes `r.mu` shared for the whole of its walk and returns pointers to
interned attributes, which its caller keeps after the lock has gone.

**What is hard.** The reference counts in the presence of those two unlocked
phases and of chunking; four counters kept by hand at about a dozen places;
pruning from below while a recursion stands on the nodes being pruned; a stale
path's slot that changes its path ID; walks of many steps beside writers, and
writers that queue for readers; a report put together from four critical
sections; flags that must travel when the inline
path is replaced by the first of the slice; and a filter, a root array and
walkers that agree on octet ranges only because three places say the same. There
is no persistence and no network: crashes, lost messages and timeouts do not
arise. `PROJECT.json` lists the hazards line by line.

**Correctness, per part.**
- *Attribute table*: the count of a copy is the number of references to it;
  what is referred to is never purged, what is not is not kept; no value is
  stored twice; the statistics are exact.
- *Node*: path IDs are unique; flags stay with their paths; the best path does
  not depend on where paths are stored.
- *Trie*: the counters describe it; every node leads from the root array to a
  route; lookups agree with an exhaustive search; walkers miss nothing; what a
  write returns is what it did.
- *Graceful restart*: stale means not announced since the mark; a sweep removes
  the stale paths and nothing else; renumbered paths are not doubled.
- *RIBs together*: each is an atomic map, whatever the others do; nothing
  deadlocks, every flush ends.
- *Readers*: a walk sees one state of its RIB, in which a pointer stands for its
  value; neither a writer nor a query waits for ever; a logger stops when its context is
  done, and what it reports of the table belongs to one state of it.
- *Pure helpers*: `SelectBest` chooses what the node chooses, whatever the order
  of the routes; the memo of the matcher changes no answer.

## 2. Modules

| Module | Models | Role |
|---|---|---|
| `RibSpec` | -- | abstract specification: RIBs as maps from (prefix, path ID) to attribute value, with stale marks, written atomically |
| `AttrTable` | `hash.go` | the attribute table: each operator is one `at.mu` critical section or a part of one |
| `SharedRibs` | `ipv4.go`, `ipv6.go`, `hash.go` | EXTENDS `AttrTable`; several RIBs and goroutines, one action per critical section; refines `RibSpec` |
| `SharedRibs_proofs` | -- | theorems: the inductive invariant of `SharedRibs`, the statistics, the table at rest |
| `SharedRibs_refinement` | -- | theorems: `SharedRibs` implements `RibSpec` |
| `RibReaders` | `ipv4.go`, `ipv6.go` | EXTENDS `SharedRibs`; `r.mu` as a readers-writer lock, queries that walk in many steps and keep what they found |
| `RibReaders_proofs` | -- | theorems: readers beside writers, and what loggers report (EXTENDS `StatsLogger`) |
| `StatsLogger` | `ipv4.go`, `hash.go` | EXTENDS `RibReaders`; the goroutine of `StartLogging` |
| `PathNode` | `node.go`, `types.go` | a node as a container of paths, and `SelectBest`: operators, no state |
| `PathNode_proofs` | -- | theorems: what the methods of a node do to its paths, and which path is the best |
| `RibTrie` | `ipv4.go`, `ipv6.go`, `node.go`, `utils.go`, `types.go` | EXTENDS `PathNode`; one RIB as trie and counters, one action per write; what the readers return; refines `RibSpec` |
| `FoldFacts` | -- | lemmas: induction, recursive functions, folds and sums over finite sets, the best of a sequence in one pass |
| `RibTrie_lemmas` | -- | lemmas: names of nodes, what growing, pruning and cleaning up do to a trie, the orders of the sweep and of the walk |
| `RibTrie_proofs` | -- | theorems: the inductive invariant of `RibTrie`; `RibTrie` implements `RibSpec`; what the readers return |
| `GracefulRestart` | as `RibTrie` | EXTENDS `RibTrie`; adds a history of announcements since the mark |
| `GracefulRestart_proofs` | -- | theorems: marks, announcements and the sweep |
| `MCSharedRibs`, `MCRibReaders`, `MCStatsLogger`, `MCRibTrie`, `MCGracefulRestart` | -- | values of the constants for TLC |

The two halves meet in `RibSpec`. `SharedRibs` takes a trie as a set of slots,
one for each (prefix, path ID), and looks at locks and references between the
critical sections; `RibTrie` takes a write as atomic, which `SharedRibs`
justifies, and looks at what it does to nodes and counters. `getOrInsert`
returns the one copy of a value, which `Deduplicated` justifies, so `RibTrie`
stores values instead of pointers.

### State and actions

`AttrTable`: a pointer is an element of `Ptr`, its contents are
`content[pointer]`; two copies with equal contents would be two pointers. `Hash`
and `hashAttributes` are any set and function, so that collisions are forced by
the constants. A bucket is a set: nothing depends on the order in it.
`TableLen` is the number of non-empty ones, which is what `Len`, and with it
`AttributeCount`, returns: the number of unique values only as long as no two of
them have the same hash, although tests (`fuzz_test.go`, `common_test.go`) take
it for that. `attrCount` is the number of copies, for `GetStats`.
`refCount` is a word of `RefLimit` values and wraps like `uint32`. An address is
reused only when nothing holds it, as under a garbage collector.

`SharedRibs`: `pc[t]` is the place in the method goroutine `t` is in.

| pc | where |
|---|---|
| `idle` | outside |
| `insert`, `delete` | head of the loop of `InsertBatch`, `DeleteBatch`, `r.mu` held (`Insert`, `Delete`: one turn) |
| `set` | after `getOrInsert`, before `setPath`; `hand[t]` is `dedupAttr` |
| `insertFree`, `deleteFree` | before `release(oldAttrs)`; `hand[t]` is `oldAttrs` |
| `sweep` | inside the walk of `DeleteStaleRoutes`, `r.mu` held |
| `collect` | in `collectNodeAttrs` on `oldRoot[t]`, no lock |
| `flush`, `release`, `yield` | before `releaseN`, in its loop with `at.mu`, between two chunks |

`MarkAllStale` and the swap of `Reset` touch one trie within one `r.mu` section
and are single steps. A sweep and a collection take one path at a time, in any
order. `tally` keeps each collected reference under the location it came from,
so that the count of a key of the Go map is the number of places that hold it.
`atmu` is a variable only because `releaseN` holds the lock across steps.

`RibReaders`: a writer that calls `r.mu.Lock` announces itself (`pending[r]`),
waits for the readers that are inside (`shared[r]`) and then takes a step of
`SharedRibs`; a reader that finds a writer inside or announced queues
(`waiting[r]`), and is let in when that writer unlocks, before the next one
(`sync.RWMutex`). `query[u]` is the RIB whose walk `u` is in. `Visit` takes one
path of the trie as it is at that step, so that a walk sees whatever the lock
lets it see. `result[u]` are the pointers of its routes, which `u` keeps until
its next query; `value[u]`, a history variable, is what each pointed to when it
was read (`RoutesKeepValue`). An address in `Kept` is not reused: the caller's
pointer keeps the copy alive after the table has purged it.

`StatsLogger`: `at[g]` is the place a logger is in: `select`, the three sections
under `r.mu` (`Count`, `GetSubnets` and the node count of `MemoryUsage`),
`GetStats`, or `stopped`. Its ticker's channel has length one and drops ticks.
Both branches of `select` may be taken when both are ready.

`RibTrie`: a node is named by its octet and the bits below it, so that
reachability and pruning are facts about the set of names. The node's parent is
its longest proper prefix. `Family` picks what differs: `Accepts` (filter of
`insertUnlocked`), `Indexed` (what the root array has an entry for), `Walked`
(what the walkers visit). `DeleteStaleRoutes` folds the body of
`deleteStaleFromNode` over the post-order of the recursion, entry by entry of
the root array in ascending order (`Octets`), because the order matters to
pruning. Insert and Delete let masks range one beyond both limits and addresses
carry host bits. `match` is `asPathMatcher` with the memo that it fills during
one walk of `prefixesMatching`, keyed by pointer, that is, by value; a regular
expression is the set of the values it matches. `SelectBest` is applied to every
arrangement of a node's routes, with routes without attributes among them.
`reported` is the slice of prefixes a write returns: a batch returns those that
changed as the caller wrote them, host bits included (`ipv4.go:168`,
`ipv4.go:271`), the sweep the masked ones it makes up on its way down
(`PrefixOf`); `NodeOf` is the node that a prefix names. The prefix of a route
that a reader returns is masked in every method, and is the name of the node.

`GracefulRestart`: `fresh` collects what was announced since the mark, `atMark`
the number of paths each prefix had then.

Operators whose comment begins with "A mutant" are wrong on purpose. They are not
used by the specifications: each shows that a property notices the error it
describes, when it takes the place of the definition below it.

## 3. Runs

| Run | Instance | Checks | States |
|---|---|---|---|
| `shared_table` | 2 RIBs, 3 goroutines, 2 values in one bucket, 1 location, 4 root arrays, yield after every key | `RefCountExact`, `InternedIffHeld`, `Deduplicated`, `DetachedUnreachable`, `QuiescentTable` | 40,601 |
| `atomic_ribs` | 2 RIBs, 2 goroutines, 1 value, 3 path IDs of one prefix, 3 root arrays | refinement `AtomicRibs` | 136,987 |
| `readers` | 1 RIB, 2 writers, 1 query, 2 values in two buckets, 2 path IDs of one prefix, 3 root arrays, yield if a tally has 2 keys | `IInv` and `ReaderInv` (the inductive invariants, with the type invariants), `StatsExact`, `ReadsSnapshot`, `WalkByPointer` | 433,734 |
| `locks` | 2 RIBs, 2 goroutines, 1 value, no symmetry, fairness | `LocksReleased`, `FlushCompletes` | 16,764 |
| `logger` | 1 RIB, 1 writer, 1 query, 1 logger, 1 value, 2 addresses, no symmetry, fairness | `StatsOfOneTable`, `LoggerStops`, `WritersServed`, `QueriesReturn` | 31,992 |
| `trie_shape` | octet 11, masks 8-10, 1 path ID | `TypeOK`, `CountersExact`, `TrieTight` | 39,714 |
| `trie_v4` | octets 10, 11, 223, 224, masks 8-9 | `ReadsAgree`, `WalkersComplete` | 7,420 |
| `trie_v6` | octets 31, 32, 63, 64, masks 8-9 | `ReadsAgree`, `WalkersComplete` | 7,420 |
| `trie_paths` | octet 11, masks 8-9, 2 path IDs | `CountersExact`, `ReportedExact`, refinement `ImplementsRibSpec` | 5,065 |
| `graceful_restart` | one prefix, 3 path IDs, 3 values | `FreshIffAnnounced`, `NoDoubling`, `UniquePathIDs`, `ReadsAgree`, `SelectBestAgrees`, `RegexExact`, `SweepExact` | 2,426 |
| `v6_index` | as `trie_v6` | `NilOutsideRange`, violated | |
| `reset_table` | 1 RIB, 1 goroutine | `ResetSeversAttributes`, violated | |

`ReadsAgree` compares whole routes, all paths of a prefix among them, with
`AllRoutes`, which does not use the operators of the readers. It asks for every
octet of the instance: in `trie_v6` those are 31 and 64, too, next to the root
array's 32 entries, where `Search`, `Lookup` and `AllPaths` have to return
nothing; and for masks one beyond both limits. `AllPathsSearch` is held to it
where its octet has an entry, and beyond that is the finding `v6_index`. In
`trie_v4` and `trie_v6` a prefix has one path and the search is at stake, in
`graceful_restart` there is one prefix of up to three.

**Bounds.** Three goroutines over two RIBs put a writer, a flush and a second
flush or writer side by side; four root arrays allow two flushes at once. Two
values and two locations give tallies with one key counted twice and with two
keys, which is what chunking tells apart; `ChunkSize` 1 yields at every
opportunity (10,000 in the code). `RefLimit` (32 or 64) is above the number of
holders, as 2^32 is; `SharedAssumption` says so. Three levels of nodes give every
shape that pruning distinguishes: a chain freed at once, one that stops at a
path, at a sibling, and at the root array. The octets are those next to the
limits of each family. Three paths of a prefix are the least in which the slice
has an order, and in which a reset in the middle of a sweep shows
as more than one withdrawal. Three values make best paths that differ in each
criterion: one has `LocalPref` 0, which stands for 100. Two writers and a query
put an announced writer, a queued reader and a flush of a third party side by
side, and three addresses let a copy be made anew while a purged one is still
kept by the query. One writer and two addresses are enough for a report of the
logger in which the table changes between any two of its sections. The counters
are bounded by the instances: nothing is cut off.

What these instances do not reach, the theorems do. `atomic_ribs` has one
attribute value, as two would make it too large: that a path keeps its value in
the abstract map while others purge and intern is left to `RibsAreAtomic`; what
the run looks at is which path is where, whether it is stale, and when a write
takes effect. `readers` has one RIB: that the writers of *another* RIB intern
and purge during a walk is left to `WalksGoByPointer`; in the run the walk meets
only the purges of sweeps and resets that have given `r.mu` up. `locks` has one
value, so that a tally has one key and yields once per flush.

Symmetry is used in `shared_table`, `atomic_ribs` and `readers` only, whose
properties are safety properties, over sets of model values that no definition
orders.

**Fairness** (`SharedRibs!Fairness`). Strong fairness of the steps inside a
method and of `Unlock` for every goroutine. A goroutine inside a method is
scheduled again and again; a batch is a finite slice, so the head of its loop is
left; and Go's `sync.Mutex` hands itself to a waiter that has starved for a
millisecond, so that one that waits for `at.mu` gets it although others keep
taking it. Nobody has to call a method: `Lock`, `ResetSwap` and `InternStep` are
not fair.

`StatsLogger!LFairness` has the same for the writers, and splits the rest by what
it relies on. Weak fairness of `WriterLock` and `WriterOnce` is enough: a writer
that has announced itself stops later readers from entering, so that it is
enabled for good once those inside have left. Weak fairness of the walk of a
query, and of the loggers' steps under `r.mu`: they are enabled until they are
taken. Strong fairness of `GetStats`, because `at.mu` may be found taken any
number of times and serves its waiters; and of `Stop`, because `select` chooses
at random among the branches that are ready, so that a context that is done is
noticed in the end although ticks keep coming. Ticks, cancellations, calls of
writers and of queries are not fair.

### Findings

- `v6_index`: `AllPathsSearch` of IPv6 subtracts 0x20 from the first byte and
  indexes an array of 32 without checking (`ipv6.go:501`); `Search`, `Lookup` and
  `AllPaths` check. For an address outside 2000::/3 it panics instead of
  returning nil. The check of `ipv6.go:439` is what is missing.
- `reset_table`: `doc/api.html` describes a `Reset` that installs a fresh
  attribute table and frees everything at once; the code keeps the shared table
  and releases the flushed references afterwards. The code's own comments
  (`ipv4.go:75-92`) describe what it does, and `InternedIffHeld` shows that it is
  right.

## 4. Proofs

For all values of the constants that satisfy `AttrAssumption` and
`SharedAssumption` (finite sets of locations, root arrays and goroutines;
reference words large enough for their number), for `RibReaders` also
`ReaderAssumption` (any set of readers), for `PathNode` `PathAttrAssumption`, and
for `RibTrie` and `GracefulRestart` `TrieAssumption` (either family, any masks with
the smaller one first, any octets, any finite set of path IDs):

| Module | Theorem | Says |
|---|---|---|
| `SharedRibs_proofs` | `Invariance` | `Spec => []IInv` |
| | `TypeCorrect` | `Spec => []TypeOK` |
| | `RefCountsAreExact` | `Spec => []RefCountExact` |
| | `NoDanglingNoLeak` | `Spec => []InternedIffHeld` |
| | `NoDuplicates` | `Spec => []Deduplicated` |
| | `DetachedIsPrivate` | `Spec => []DetachedUnreachable` |
| | `TableStaysCounted` | `Spec => []TableCounted`: `attrCount` and `sliceBytes` are the number and the sum over the interned copies |
| | `StatsStayExact` | `Spec => []StatsExact` |
| | `TableIsExactAtRest` | `Spec => []QuiescentTable`, of the copies and of the buckets |
| `SharedRibs_refinement` | `RibsAreAtomic` | `Spec => AtomicRibs`: `SharedRibs` implements `RibSpec` |
| `RibReaders_proofs` | `ReadersImplementRibs` | `RSpec => Spec`: readers add no step to the writers' specification |
| | `ReaderInvariance` | `RSpec => [](IInv /\ ReaderInv)` |
| | `QueriesReadSnapshots` | `RSpec => []ReadsSnapshot` |
| | `WalksGoByPointer` | `RSpec => []WalkByPointer` |
| | `RibsStayAtomic` | `RSpec => AtomicRibs` |
| | `LoggersImplementRibs` | `LSpec => Spec`: loggers add no step either |
| | `ReportsAreOfOneTable` | `LSpec => []StatsOfOneTable` |
| `PathNode_proofs` | `SetExact` | `setPath` writes one path, in the order of preference of the code, and no other changes |
| | `DeleteExact` | `deletePath` removes one path, from wherever it is kept |
| | `SweepTurnExact` | a turn of the sweep removes one stale path, and there is one as long as a path is stale |
| | `StripExact` | the sweep's loop over a node leaves the paths that were not stale, each as it was |
| | `MarkExact` | marking flags every path and changes nothing else |
| | `BestExact` | `bestPathWithID` returns the path that is preferred to every other |
| | `SelectExact` | `SelectBest` returns a route to which none is preferred, in any order and with any number of nil ones |
| `RibTrie_proofs` | `TrieStays` | `Spec => []IInv` |
| | `TypeCorrect` | `Spec => []TypeOK` |
| | `CountersStayExact` | `Spec => []CountersExact` |
| | `TrieStaysTight` | `Spec => []TrieTight` |
| | `PathIDsStayUnique` | `Spec => []UniquePathIDs` |
| | `WalkersMissNothing` | `Spec => []WalkersComplete` |
| | `WritesReportExactly` | `Spec => ReportedExact`, an action property |
| | `TrieImplementsMap` | `Spec => ImplementsRibSpec`: `RibTrie` implements `RibSpec` |
| | `ReadersAgree` | `Spec => []ReadsAgree` |
| | `BestAgreed` | `Spec => []SelectBestAgrees` |
| | `QueriesAreExact` | `Spec => []RegexExact` |
| `GracefulRestart_proofs` | `RestartStays` | `GRSpec => []GRInv` |
| | `FreshStaysExact` | `GRSpec => []FreshIffAnnounced` |
| | `NeverDoubles` | `GRSpec => []NoDoubling` |
| | `SweepsAreExact` | `GRSpec => SweepExact`, an action property |

**The argument for the invariants.** `RefCountExact` is not inductive alone.
That `release` removes a copy exactly when nobody holds it needs
`InternedIffCounted` (in the table iff the count is positive, and in its own
bucket, so that `removeLocked` finds it); that interning gives a count of one
needs a fresh address; that a step moves one reference from one place to another
needs `LockDiscipline` (a pointer is in hand exactly between the steps that pass
it on, and the slot is protected by the `r.mu` that goroutine holds),
`DetachedUnreachable` (the trie walked without a lock is nobody else's) and
`TalliedOnce` (a path enters a tally from a trie it has left, into a place that
was free). `StaleIsPath` makes a swept slot a path. `IInv` is their conjunction
and is inductive. The counting itself is in lemmas about the cardinality of the
set of places that hold a pointer (`CountUpdate`, `CountClear`, `CountSwap`,
`TallyRefs`): the steps that move a reference leave the sum as it was, and
`NoWrap` shows that the sum stays below `RefLimit`, so that the modular count is
the true one. `Held` and `Interned` then agree because both say that the sum is
positive.

**The argument for the refinement.** The abstract state counts a path that a
sweep has moved to its tally as still there, and as stale, until the sweep gives
`r.mu` up: a reader cannot see it earlier, and `DeleteStaleRoutes` takes effect at
one instant. From `IInv`, `ContentKept` says that no step writes a copy that
something holds, so that routes keep their values when others intern and
release; `SameRib` and `OtherRib` say that a RIB whose trie a step leaves alone is
the same RIB, which is where `DetachedUnreachable` is needed (a flush writes into
a trie that is no RIB's) and `LockDiscipline` (the tally of another goroutine does
not move). `QuietStep`, `CollectStep` and `SweepStep` map the steps that change
no RIB to stutters; each step that writes (`SetPath`, `DeletePath`, `SweepDone`,
`ResetSwap`, `MarkAllStale`) has a lemma that maps it to its action of `RibSpec`.
The location that a `SetPath` clears is the one the abstract insertion chooses.

**The argument for the statistics.** `TableCounted` is inductive relative to
`IInv`: interning adds an address that was not in the table, with contents that
stay as they are while it is there; `removeLocked` takes one away that was, so
that neither counter goes below zero. The bytes are a sum over a set, which
`Total` of `FoldFacts` is the proof's name for. At rest no goroutine holds
anything in hand or in a tally, and no trie is detached, so that
`InternedIffHeld` leaves the tries of the RIBs; and by `Deduplicated` copies and
values are in bijection, over which a sum does not change (`TotalMapped`). A copy
is in the bucket of its hash, so that the buckets in use are the hashes of the
values in use.

**The argument for the readers.** `RSpec` implements `Spec`, so that `IInv` holds.
`ReaderInv` is inductive relative to it: who holds `r.mu` shared is in a query of
that RIB and no writer is inside (`ReadersQueued`), so that no step of a writer
changes the trie under a walk (`WalkHolds`); and no step writes a copy that is
interned, nor is an address reused while a route keeps it (`RoutesKeepValue`).
`ReadsSnapshot` follows, since a RIB with a reader inside is not being swept.
`WalkByPointer` puts the two specifications together: what a walk has found is
still where it found it (`WalkHolds`), so something holds it, so it is interned
(`HeldInterned`), and has its value still (`RoutesKeepValue`); of what is interned,
no two copies have one value (`Deduplicated`). `RoutesKeepValue` alone says
little: it rests on the garbage collector, which the guard of `WriterWork` stands
for, and is there for this argument.
`LSpec` implements `Spec` in the same way, and only `GetStats` writes what a
logger knows of the table: the numbers that `TableCounted` describes, of the
values that the interned copies have at that step.

**The argument for the node.** `PathsOf` reads a node as one sequence, whose
first element is the inline path. On that sequence `setPath` writes one position
or appends (`SetShape`), and `deletePath` cuts one out (`DeleteShape`), although
removing the inline path moves another one, its flag included, from the slice to
the inline slot. Path IDs are unique in every node that the program builds
(`PathIDsStayUnique`), which these theorems assume and re-establish. The loop of
the sweep is a recursive function on the number of turns; `StripExact` is the
induction over it, with `SweepTurnExact` for a turn.

**Induction.** The library's induction theorems take an operator, which the
provers cannot instantiate. `FoldFacts` states induction for sets in the place of
predicates (`NatInduct`, `IntervalInduct`, `SubsetInduct`), which is first-order:
a proof names the set of the numbers, or of the subsets, for which its claim
holds. From these come the existence of functions that are defined by recursion
(`NatRecursion`, `SetRecursion`), on which `CHOOSE` in the definition of a
recursive function and of the folds rests; `FoldRecursion`, which unfolds one step
of `FoldLeft`; and `Total`, the sum of a function over a finite set, with its laws:
one element more or less, one summand changed, the order of no importance, the
same under a bijection. A fact about a fold is then an induction over the
positions of its sequence.

**The argument for the trie.** `CountersExact`, `TrieTight` and `UniquePathIDs`
need one another. `TrieInv` is what is inductive: each node is well formed, with
path IDs that are unique, in the range of the family (`Sound`); each node has its
parent (`Hanging`), so that a chain that `Grow` or `Pruned` follows has no gap; no
node is `Loose`, that is, without a path and without a child, so that pruning
after one deletion stops where it has to; and the four counters are the numbers
that they stand for (`Counted`), `pathCount` being a sum over the nodes. A write
is a composition of three changes, each with a lemma: nodes are added on the way
down (`GrowShape`), one node gets other paths (`PutShape`, `PutCounted`), bare
nodes go (`PruneShape`, `BareEntryShape`, `WithoutCounted`).

The sweep is the exception to all of this. While it runs, entries of the root
array may be loose, as only `DeleteStaleRoutes` cleans them up, and nodes that
the recursion has yet to return to may have been pruned. `SweptTo(S, k, T)` says
what the state `S` of the fold is after `k` positions of the order, from trie
`T`: the nodes before have their fresh paths and those after have what they had,
what was removed is what has lost its last path, and what is loose is an entry of
the root array that is still to come. That it is still to come is a fact about
the order, which ends each subtree with its top (`SweepOrderIs`); at the end of
the order nothing is, and `TrieInv` holds again. The same fact carries
`ReportedExact` and, in `GracefulRestart`, `SweepExact`. What a write returns are
prefixes, not nodes: `ReportsOne` and `ReportsMasked` show for the batches and for
the sweep that `NodeOf` leads back to the node, once for each.

`TrieImplementsMap` maps the trie to the map of its paths (`MapOf`) and the set of
the stale ones (`StaleOf`). `AnnounceIs` and `WithdrawIs` say what the abstract
writes do in terms of the paths of one prefix, which is the language of
`SetExact` and `DeleteExact`; the path ID that a new path takes over is the one
the abstract announcement chooses. A sweep and a mark map to theirs as a whole.

**The argument for the readers of a trie.** Because every node has its parent
(`Hanging`), the nodes that a walk towards an address comes by before the first
missing child are all the nodes on the way (`WalkIs`); so the prefixes that
cover the address are among them, and the last one with a path is the longest
(`DeepestIs`). `ExactReads` and `LongestReads` say the same of the routes of
those nodes, all of them, and that for an octet or a mask that no route can have
there is nothing to find: `Sound` has every node's octet accepted, and what is
accepted has an entry in the root array (`RoutedIndexed`). The best path of a
node and `SelectBest` are one pass each, over the slice from the inline path on
and over a caller's list. `Preferred` is a strict order that leaves no two paths
of a node unordered, since their IDs differ (`PreferenceOrder`); a pass that
keeps the better of two ends with an element than which none is better, in any
order (`OnePassChooses`), and of those there is one (`BestExact`). For
`SelectBest` the routes without attributes come last in the order (`Replaces`);
`BestAgreed` puts both together. For the queries by regular expression,
`WalkOrderIs` shows that the walk comes by every node once, the subtrees of a
node having nothing in common (`UnderIs`), so that `WalkedRoutesAre`: each route
once. `Matcher(re)` is the set of the memos that agree with the expression;
`MatchIs` shows that it is kept, with the right answer each time, and `QueryIs`
is the induction over the routes of the walk.

**The argument for graceful restarts.** `GRInv` adds to `TrieInv` that `fresh` is
the set of the paths that are not stale (`FreshPairs`), and that a prefix has no
stale path or no more paths than at the mark (`NotDoubled`). `NoDoubling` alone is
not inductive: it does not say that a prefix with a stale path has not grown, which
is what `setPath` preserves, as it adds a path only where none is stale.

**Only model-checked.**
- `LocksReleased`, `FlushCompletes`, `WritersServed`, `QueriesReturn` and
  `LoggerStops` are liveness under fairness, which is out of the prover's reach,
  as is `ENABLED`.

Every other property of the passing runs, that is each invariant, action
property and refinement, is the subject of a theorem in the table above.

## 5. Not modelled

- The contents of attributes, the hash function and the deep copy in
  `getOrInsert`: a value is a model value and equality is equality of contents.
  Bytes per value are a constant function.
- What a regular expression or a community predicate says of a value: it is the
  set of the values it matches. `originIs`, `hasCommunity` and `hasLargeCommunity`
  search one list and keep nothing, so that they are such a set and no more.
- The text of the log line and of `PrintRib`, which copies two counters in one
  section under `r.mu`. The arithmetic of `MemoryUsage` on the numbers it reads.
- `router.go`, deprecated, unexported and unused; `bench/`, which reads files and
  prints timings.
- IP versions: each method rejects the other family's addresses at entry, and
  the model's inputs are of the right family. The zero `netip.Addr` is not among
  them.
- Crashes, timeouts and lost messages: nothing is persisted and nothing is sent.

## 6. Plan

Done, in this order: `RibSpec`, `AttrTable`, `SharedRibs` with its runs, the
proofs of its invariants, `PathNode`, `RibTrie`, `GracefulRestart`; then
`RibReaders`, `StatsLogger`, `SelectBest` and the matcher, and the proofs of the
refinement `AtomicRibs`, of the table at rest, of the readers and of the node;
then the lemmas about induction and sums, the statistics of the table, the
reports of the loggers, all invariants of `RibTrie` and its refinement of
`RibSpec`, and all of `GracefulRestart`'s own properties; last, what the readers
of a trie return, with both versions of the best-path rules and the queries by
regular expression.

Left: nothing that the provers reach is without a theorem. What could follow is
a statement of what `Lookup` answers in terms of `RibSpec`'s map, which
`ReadsAgree` and `ImplementsRibSpec` imply together.
