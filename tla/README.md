# walkkit in TLA+

walkkit is a Rust library that walks directory trees (`Walker`, and the older
`CodeWalker` on top of the `ignore` crate), honours `.gitignore`, tells text from
binary, and opens archives. These modules model its core, TLC checks them on small
instances, and TLAPS proves the properties that matter most for every instance.
All source paths below are relative to `src/`, the crate's repository root (its code
is in `src/src/`).

Contents: [1 the system](#1-the-system), [2 the modules](#2-the-modules),
[3 the runs](#3-the-runs), [4 fairness](#4-fairness), [5 what is proved](#5-what-is-proved),
[6 where code and documentation disagree](#6-where-code-and-documentation-disagree),
[7 what is not modelled](#7-what-is-not-modelled), [8 the plan](#8-the-plan).

## 1 The system

| part | state it keeps | operations | what makes it correct |
|---|---|---|---|
| **Parallel walk** (`worker.rs`, `walk_multi_thread`) | a stack of directories, a counter of active workers, the claimed directory identities and file paths, all under one mutex with one condition variable; per worker the item held, the children still to scan, the directories found | pop, wait, quit, examine, claim, list, scan, push, send, signal the end | every path is yielded once, every directory listed by one worker; the pool ends, and only when the work is done; nothing is left out silently |
| **Sequential walk** (`worker.rs`, `walk_single_thread`) | a queue and private visited sets | the same without locks | breadth first, so that the depth limit and the claims agree |
| **Result stream** (`walker.rs`, `iter.rs`, `sort.rs`) | a bounded channel, the iterator; in the sorted modes a buffer | send, collect, sort, `next()`, drop | a full channel blocks and does not deadlock; dropping the iterator ends the walk; sorting is stable, loses nothing and repeats nothing |
| **Binary probe of the walk** (`walk_common.rs`) | an open file, the bytes scanned | stat, open, compare the inode, read | the file that is probed is the one that was measured, and the verdict fits its bytes |
| **Gitignore cache** (`worker.rs`, `gitignore_ctx.rs`) | chains of matchers by (walk root, directory), under a mutex that is released between look-up and insert | look up, build, publish, match | a cached answer decides as a fresh one |
| **CodeWalker** (`codewalker/`) | a slot for the one error that `filter_entry` cannot return, a buffered entry, a channel | filter, visit, next, count | a count that is short is never silent; errors come in order and displace no entry |
| **Tar reader** (`archive/tar.rs`) | offset, fuse, entry count | `next()` | headers are found where they are; after an error nothing more is read |
| **Archive extraction** (`archive/extract.rs`, `decompress.rs`) | the decompression budget, totals, the call stack of nested archives | open by format, collect, charge, recurse | the limits hold for all layers together, and the result is what the archives hold |
| **Zip reader** (`archive/zip.rs`) | position in the directory, entries found | search the end record, read a header, slice a payload | no field leads outside the data; central and local headers agree |
| **Symlink policy** (`filter.rs`) | none | count links, find loops, compare with the root | what gets in lies in the root, over few links and none twice |
| **File entries and content** (`filter.rs`, `detect.rs`, `codewalker/mod.rs`) | an open file, the bytes read | open, size, sniff; `content`, chunks | an entry describes one file; content is whole and within its cap even if the file grows |
| Sandbox (`sandbox.rs`) | a child process | run with a timeout, substitute variables | the child does not outlive its timeout |
| Executable probes (`probe/`) | none | PE parsing, magic numbers, entropy | reads stay inside the buffer |

How they interact: a `Walker` starts one thread that runs the sequential walk, or spawns
and joins the workers of the parallel one. The workers share the work state and the
gitignore cache and call the file system; they send items into a bounded channel, which
the iterator reads. Dropping the iterator is the only way to cancel: the next `send`
fails. `CodeWalker` hands a filter closure to the `ignore` crate, which calls it on its
own threads; since the closure can only answer yes or no, errors go through a slot that
the next visit empties. Archives are opened in memory, without threads, by recursion.

What is hard here is the pool (when may a worker leave, who wakes whom, who claims a
directory reached by two names, what if the consumer goes away in the middle of a send),
the state that is read in one critical section and used in another (the cache, the
metadata carried from a scan to a visit), the file system changing under the walk, between
two calls about one path most of all, errors that pass through a one-place slot, offsets that
five fields of an archive have to agree on, and budgets shared by nested calls. `PROJECT.json`
lists the hazards line by line.

## 2 The modules

**Walking**

- `WalkTree` is what the file system, the filters and the gitignore rules answer about
  each path. An answer that may change while the walk runs is a set of answers, and every
  call takes any member of it. The module also defines, level by level from the roots and
  without queues or visited sets, which items a walk may yield (`Yieldable`) and when a set
  of items leaves nothing out (`CoversTree`).
- `WalkStream` is the bounded channel and the iterator.
- `WalkContract` is the abstract specification of `Walker::walk`: it gives out justified
  items and ends only when nothing is missing. The order is open.
- `ParallelWalk` is `walk_multi_thread`. One step of a worker reaches from one acquisition
  of the mutex, or one send, to the next: in between it touches its own locals and the file
  system only. `out[w]` holds what the worker has still to send, and no worker holds the
  mutex while it sends. `Pop`, `Quit` and `Wait` are the pop loop; `ExamineItem`,
  `ClaimDir`, `ListDir`, `ScanChild`, `ClaimChild`, `PushDirs`, `ClaimRoot` and `Finish`
  follow the body of the loop; `SignalDone` is `signal_done_locked`. Condition variables
  may wake without reason (`SpuriousWakeup`). `Contract` is the refinement mapping.
- `SequentialWalk` is `walk_single_thread`; the work on one queue entry is one step, since
  nobody can see its parts.
- `LiveFile` is one path of the file system and the files it has named, which other processes
  append to, cut off, replace and remove at any time. Who has a file open keeps it; the
  inode number of a file that is neither named nor open may be given out again.
- `BinaryProbe` is `metadata_for_path`, `is_binary_same_fd` and `scan_file_for_nul` on that
  file, one step for each system call; a read may be short, and any call may fail.
- `Walker` is `Walker::walk` with one thread: `SequentialWalk`, one of whose files (`Watched`)
  is measured and probed by `BinaryProbe` while others change it, and the caller, whose
  iterator is the channel or, in the sorted modes, the `buffer` that `walk()` makes of all that it
  has collected (`items`), sorted, and returns. Two refinements are stated of it: `Spec` of `SequentialWalk`, by taking the probe's
  steps for stuttering, and `Promise!Spec`, the contract seen from the caller.
- `MCTrees`, `MCParallelWalk`, `MCSequentialWalk` give them trees.

**Gitignore**

- `GitignoreCache` is `get_cached_gitignore`, with one step for every time its mutex is
  taken or a rule file is read, inside a walk that is kept to what decides which look-ups
  happen. A chain of matchers is the sequence of the sources of its rules; two chains are
  alike if they decide every path alike whatever the rules say, which `Alike` tests by
  quantifying over all opinions the sources may have. `MCGitignoreCache` has nested
  repositories, a root outside of any, a file as a root, and unreadable rule files.

**CodeWalker**

- `CodeTree` is the tree that the `ignore` crate walks, numbered in its order, with what
  the filter and the visit of each entry may come to, and the error slot.
- `SymlinkPolicy` is `code_entry_allowed` with `symlink_depth` and `has_symlink_loop`, over a
  file system with links, whose `Canonicalize` resolves them as the kernel does, with a limit
  on the links it follows. `LeadsIntoRoot` says independently of it what may get in.
- `CodeWalkParallel` is `walk_parallel`: threads filter and visit in any order that the
  `ignore` crate may choose. `CodeWalkIter` is `walk_iter`, and `walk`, `try_count` and
  `walk_and_count`, which stop at the first error, as two kinds of asker.
- `CodeFile` is `CodeWalkIter` with one file (`Watched`) that lives in `LiveFile`:
  `code_process_path` opens it, takes its size and sniffs its head (`is_binary_file`); whoever
  gets the entry reads it with `content()` or `content_chunks()`. `FilterAssumption` ties the
  filter of `CodeTree` to `code_entry_allowed`. `FileSpec` implements `Spec` of `CodeWalkIter`.
- `MCCodeTree`, `MCCodeWalkParallel` and `MCCodeWalkIter` instantiate them. The filter's
  answers in both walks are those of `code_entry_allowed` on a tree with links, and for three
  entries a failure too, as when the entry is gone by then.

**Archives**

- `ArchiveBlob` is what the readers share: byte strings as opaque blobs with sizes, and limits.
- `TarReader` is `TarEntriesIter`. `Blocks` says what each block of a blob would read as if
  taken for a header (zeros, refused by `parse_header` or `validate_path_traversal`, or a
  header with a size), so that a wrong offset reads the wrong block.
- `ZipReader` is `ZipReader::entries`. A blob is a sequence of bytes, each a letter or the
  signature of a record with its fields, so that an offset may lead anywhere, a record may
  be cut off by the end of the data, and a name or a payload is the slice that its bounds give.
- `ArchiveExtract` is `auto_extract` and `auto_extract_recursive`, with the call stack as a
  sequence of frames; the codecs are an input (what a stream inflates to, if anything). A
  third caller uses the tar iterator itself and goes on after errors. `Contents` defines, by
  recursion over the archives alone and without the readers' state, what a successful
  extraction has to return: `FilesAmong` over the last blocks of a tar, `FilesListed` over the
  headers of a zip, `Contents` over the layers. `MCArchiveExtract` holds the archives.

**Proofs**: `WalkTreeProofs` (lemmas on what the contract is made of), `ParallelWalkProofs`,
`LiveFileProofs`, `WalkerProofs`, `GitignoreCacheProofs`, `CodeWalkIterProofs`,
`CodeWalkParallelProofs`, `ArchiveExtractProofs`; see section 5.

Definitions marked "Mutant" are plausible bugs in the code, at least one for each property: put in
the place of the definition they follow, they make TLC report that property.

## 3 The runs

Run one with `tlc -config X.cfg M`. The distinct states of a passing run are in brackets.

| run | configuration of module | shows |
|---|---|---|
| `parallel_safety` | `ParallelWalkSafety.cfg` of `MCParallelWalk` [186161] | `TypeOK`, `ActiveCountsHolders`, `NoLostWakeup`, `QuitOnlyWhenDone`, `EachFileOnce`, `OneWorkerPerDirectory`: Three workers over overlapping roots with a link cycle: the worker pool counts, wakes, quits and claims correctly in every interleaving, with spurious wakeups and a consumer that may drop the iterator at any time. |
| `parallel_contract` | `ParallelWalkContract.cfg` of `MCParallelWalk` [110290] | `ImplementsContract`, `Terminates`: Two workers over a tree with a bit of everything implement WalkContract (only justified items, no end before all is yielded), and every thread ends whatever the consumer does. |
| `parallel_depth` (violation) | `ParallelWalkDepth.cfg` of `MCParallelWalk` | `NothingLostWithinDepth`: With a depth limit and overlapping roots the pool can claim a directory where it is too deep to be listed, and so lose files that are within the limit of another root. |
| `sequential` | `SequentialWalk.cfg` of `MCSequentialWalk` [84385] | `TypeOK`, `BreadthFirst`, `ProbedWhatWasMeasured`, `VerdictFitsContent`, `FilesGivenOnce`, `SortedAsAsked`, `WalkKeepsPromise`, `Terminates`: Walker::walk with one thread, in every sort mode, while others grow, cut off, replace and remove one of the files: paths are visited at their least depth, the binary verdict is about the measured file and fits its bytes, and what the caller is given keeps WalkContract, under a depth limit too, with no file twice and, in the sorted modes, in the order asked for; it ends, whether read to the end or dropped. |
| `gitignore_cache` | `GitignoreCache.cfg` of `MCGitignoreCache` [69075] | `TypeOK`, `CacheTransparent`, `FileLookupsHit`: Three workers share the cache over distinct but overlapping roots, with unreadable rule files: every answer decides as a fresh lookup would, and the lookups of files always hit. |
| `gitignore_repeated_root` (violation) | `GitignoreCacheRace.cfg` of `MCGitignoreCache` | `CacheTransparent`: With one directory given twice as a root, a second worker takes the directory's node from the cache before the rules of info/exclude have been put before it. |
| `gitignore_precedence` (violation) | `GitignorePrecedence.cfg` of `MCGitignoreCache` | `GitPrecedence`: info/exclude is asked before every .gitignore, so that a whitelist in a .gitignore cannot override it as it does in git. |
| `codewalk_parallel` | `CodeWalkParallel.cfg` of `MCCodeWalkParallel` [162716] | `TypeOK`, `NoSilentUndercount`, `NoEntryLost`, `Terminates`: Two threads over a tree whose entries the filter may allow, deny or fail for, with a channel of one: errors pass through the shared slot so that no undercount is silent and no entry is lost, and everything ends. |
| `codewalk_slot` (violation) | `CodeWalkParallelSlot.cfg` of `MCCodeWalkParallel` | `EveryErrorReported`: Two failures of the filter with no visit between them leave one error in the slot: the other is never reported. |
| `codewalk_iter` | `CodeWalkIter.cfg` of `MCCodeWalkIter` [194091] | `TypeOK`, `NoSilentUndercount`, `NoEntryLost`, `EntryDescribesOneFile`, `ContentIsWhole`, `ContentWithinCap`, `StaysInRoot`, `InWalkOrder`, `ChunksEndOnce`, `Terminates`: The iterator over the same tree, with real links behind the filter's answers and one file that others write, cut and replace at any time, for an asker that stops at the first error and one that goes on: counts are complete or errors, nothing is lost, out of order or outside the root, an entry describes one file, and its content is read whole and under the cap. |
| `archive` | `ArchiveExtract.cfg` of `MCArchiveExtract` [49714] | `TypeOK`, `WithinLimits`, `ExtractsContents`, `EverythingIsCharged`, `TarIsFused`: All tar streams of four blocks, whole or with a part of a fifth, and archives of every format nested in each other: limits hold across layers and all bytes that are returned or held are charged, a successful extraction returns exactly what the archives hold, and the tar iterator stays at its end after an error. |
| `tar_end` (violation) | `ArchiveEnd.cfg` of `MCArchiveExtract` | `EndsAtMarker`: A tar stream that stops at the end of an entry, with no end marker, is accepted as complete. |

Bounds, and why they suffice:

- *Pool*: three workers are the fewest in which one sleeps, one holds an item and one
  decides to leave. The tree of `parallel_safety` has overlapping roots, a file that is a
  root and a child, a link up to the first root, an unreadable directory, entries that
  cannot be enumerated and a file that changes while the walk runs; it has
  three levels, which is what a directory claimed under a second name needs. Workers are
  symmetric, and the run has no temporal property. `parallel_contract` has two workers,
  since refinement and liveness rule symmetry out, and a tree with every outcome a path can
  have.
- *Channel*: capacity 1 (1024 in the code), the case in which a send blocks most often.
  Every item is sent while another may be in the channel, received or abandoned.
- *Depth*: the sequential run has a limit of 1, reached by one root and passed by another.
- *Files that change* (`sequential`): at most two changes by others after the stat, of files of
  up to five bytes over two letters, NUL and one that is none, with two inode numbers, the fewest
  with which a number can be given out again. Samples are of two bytes and the prefix of three,
  so that the last read reaches beyond the prefix, and NULs stand inside it, just behind it and
  farther on. Two changes are the fewest for a name to be taken away from the measured file and
  come back to a new file with the same number.
- *Sorting*: three files are sorted, one of which may be as large as either of the others, so that
  equal sizes come up; with errors before, between and after them. One of the three is a root as
  well, so that it stands in the queue twice.
- *Cache*: three workers; distinct roots that overlap, which is where their look-ups meet.
- *CodeWalker*: eight entries, two directories, three that the filter may fail for: two
  failures in one directory, and one after the last visit. The tree of links has one above the
  root, one out of the root, one to a directory of the root by way of the first, and one below
  that, over which there are more links than the limit of 2.
- *Content* (`codewalk_iter`): two changes by others; files of up to four bytes against a size
  limit of 3, a content cap of 2, chunks of 2 and a head of 3 bytes, so that each limit can be
  reached and passed by a file that grows after it was checked.
- *Tar*: every stream of four blocks over an alphabet of six (2592 with the odd
  byte), block size 2, so that sizes 0, 1 and 3 are an empty payload, one with padding, and
  one of more than a block.
- *Zip*: a sound archive of eleven bytes with one file, and all that arise from it by changing
  one or two of its fields in 34 ways: every offset, length, count and method, to values that are
  too small, too large, at the end of the data, at another record, refused by a limit, or the
  Zip64 marks. Records are of two bytes.
- *Nesting*: 20 archives of all formats nested up to three deep with a depth limit of 2; limits
  small enough for each of them to be hit: entries of an archive (7), bytes of an entry (50), the
  ratio (4), the budget (160), output bytes (110), output entries (6).

## 4 Fairness

The liveness properties are `Terminates` of `ParallelWalk`, `Walker` (by way of `SequentialWalk`),
`CodeWalkParallel` and `CodeWalkIter` (under `CodeFile`), and the progress of `WalkContract`, which is
weakly fair. Weak fairness is assumed

- of every thread: the operating system runs it. A mutex is held for a few instructions, so
  an action of one critical section is enabled when the worker gets to run;
- of the thread that joins the workers;
- of the consumer, as long as it keeps the iterator: it calls `next()` again. It may drop
  the iterator at any time and never has to. In the sorted modes the consumer is `walk()` itself
  until it returns, and cannot be dropped.

`FairWalkerSpec` has it for the thread's steps, probe included, and for the caller's; `FairFileSpec`
for the iterator, which is one thread with its caller. Nothing is assumed of spurious wakeups, of the
drop, of other processes that change a file, or of whoever reads the content of an entry: a sleeper
that nobody notifies sleeps for ever, which is what `NoLostWakeup` and `Terminates` are about.

## 5 What is proved

TLAPS proves the following for all values of the constants that satisfy the named
assumptions in the modules (`TreeAssumption`, `CapacityAssumption`, `WorkerAssumption`,
`CacheAssumption`, `CodeTreeAssumption`, `LiveFileAssumption`, `ProbeAssumption`, `WalkerAssumption`,
`SymlinkAssumption`, `CodeFileAssumption`, `FilterAssumption`, `BlobAssumption`, `TarAssumption`,
`ZipAssumption`, `ArchiveAssumption`; TLC evaluates them on every run). Most give types, a finite set of
workers that is not empty, a channel with room for one, sizes that are lengths. Three say more: the
walk hands the filter only paths that it has made by adding names to the root's, and takes its verdict or a failure
(`FilterAssumption`); a blob is its bytes (`ZipAssumption`); a codec makes one thing of a stream, and
`detect_format` knows a zip by the signature at its start (`ArchiveAssumption`).

Some theorems have hypotheses of their own, each of which the code needs:

| hypothesis | says | without it |
|---|---|---|
| `SameUnderEveryName` | whoever may walk a directory under one name can read it and enters what must be entered under any other | a `.gitignore` with rules for one of two names hides what was promised under the other |
| `NoScanIsCutShort` | no file in a directory that is walked has rules that cannot be read | the parallel scan stops at such a file as if the channel were closed (`worker.rs:595`); by `FilesAreJudgedFromTheCache` there is none, see section 6 |
| `MaxDepth = NoLimit` | the pool has no depth limit | the run `parallel_depth` |
| `EachRootOnce` | no root is given twice; they may lie in one another | the run `gitignore_repeated_root` |

`MCSequentialWalk`, `MCParallelWalk` and `MCGitignoreCache` assume those of a tree and of the roots in their
turn, so that TLC evaluates them: every instance that the passing runs check satisfies them.

- **Walk contract** (`WalkTreeProofs`): `Yieldable` and `CoversTree` are made of functions that recurse over levels.
  The library's induction theorems take an operator, which no prover here can instantiate; the modules
  state induction of a set of numbers (`Induction`, from the well-foundedness of `<`) and recursion of a function
  that gives the steps (`Recursion`), and get from these the equation of every recursive function (`LevelsEquation`).
  On it rest what entries, claims and items lead to: an item or a directory that one justified leads to is justified
  (`LedItemIsYieldable`, `ChildIsLedTo`), and a set of items that has all that every claimed directory
  promised covers the tree (`AccountsCover`).
- **Parallel walk** (`ParallelWalkProofs`): `TypeCorrect`, `ActiveCounterExact`,
  `WakeupsAreNotLost`, `QuitsAreFinal`. `TypeOK` is not inductive: that
  `active - 1` stays a natural number needs `active` to be the number of the workers that
  hold an item, so the invariant is `CountInv == TypeOK /\ HeldItems /\ ActiveCountsHolders`,
  where `HeldItems` says that such a worker's item is an entry, with children left to scan
  where the step needs one. The counter is
  related to the set of holders by the cardinality theorems, one lemma for each of the three
  things a step can do (`OneMore`, `OneLess`, `AsMany`). On top of it, `SyncInv` adds
  `NoLostWakeup` and `QuitOnlyWhenDone`, which are inductive together with it: whoever empties
  the stack holds an item, and the last holder wakes everyone. `DirectoriesExclusive`: who lists a directory has
  its identity in `visited_dirs` and nobody claims it again. `FilesSentOnce`: a file on its
  way, in `out`, in the channel or received, is in `visited_files`
  (`FilesClaimed`), and stands at the head of what its sender sends (`FileFirst`).
  `PoolYieldsOnlyWhatIsThere` and `PoolLeavesNothingOut` are the two halves of the contract, and
  `PoolIsSafe` puts them together: every step of the pool is a step of `WalkContract` or a stutter, which is
  `ImplementsContract` but for its progress. That nothing is left out follows a directory from the claim on: one that
  has been claimed is on the stack, is held by a worker, or has all it promised delivered, on its way, or
  claimed in its turn; with an empty stack and nobody at work only the last is left.
- **Sequential walk** (`WalkerProofs`): `SequentialTypeCorrect`; `VisitsBreadthFirst`: the queue is sorted by depth
  and spans two levels; `YieldsOnlyWhatIsThere`; `NothingIsLeftOut`, at every depth limit, since the first name under which a
  directory is met is at its least depth; `WalkIsSafe`: in every sort mode and with a file that changes, what the caller
  is given keeps `WalkContract`, which is `WalkKeepsPromise` but for its progress. The buffer is made once,
  when the walk has ended, and only handed on after that (`Kept`). The contract speaks of the set of what is given;
  that nothing is given twice and in which order is `NoFileGivenTwice`, from every file being in one place only on its way
  (`Apart`), and `GivenAsAsked`: the place that `Sorted` gives each file is a bijection that respects the keys and,
  among equal keys, the order of discovery (`SortedElements`).
- **Gitignore cache** (`GitignoreCacheProofs`): `CacheTypeCorrect` and `FilesAreJudgedFromTheCache`. The latter is why the
  surprising handling of a gitignore error at `worker.rs:596` does no harm: a file's look-up
  cannot fail, as its directory's look-up has left the answer in the cache (`AnswerCached`)
  and nothing is ever removed from it. `CacheIsTransparent`: with `EachRootOnce`, what two workers are at lies
  apart in every root's tree (`Beside`), so the chain that stands in the cache before `info/exclude` has been put in
  front is under a key that only its builder looks up (`Ahead`); every other chain decides like a fresh one (`Sound`,
  `Full`), whatever the rules say.
- **CodeWalker**: for `walk_iter`, `IterTypeCorrect`, `CountsAreCompleteOrErrors`,
  `IterLosesNoEntry`, `IterKeepsTheOrder`; for `walk_parallel`, `ParallelTypeCorrect`,
  `UndercountsAreNeverSilent`, `ParallelLosesNoEntry`. The invariants follow an error
  from the slot through the threads and the channel to the consumer (`Reported`), and every
  allowed entry from the directory to the answer (`Owed`); `Control` relates the phases, and
  `Ordered` the entries ahead, buffered and yielded.
- **Symlink policy** (`CodeWalkIterProofs`): `WalkStaysInRoot`, for any file system with any links in it. The kernel's
  resolution is a function with a budget of links: a larger budget loses no answer, and
  a name is looked up in what the path before it resolves to. From this, `symlink_depth` counts every link that
  `has_symlink_loop` sees, and a path over no link is its own place.
- **A file that others change** (`LiveFileProofs`): the prover has no bound on the changes to lean on. The
  argument is `MovedOn`: a file that has been seen keeps its inode, grows at its end, and counts
  every time it is cut off, so a file that once differs from what was seen never equals it again
  (`MovesOnFurther`, `ChangeMovesOn`). "Unchanged" at the end therefore means unchanged all along.
- **Walker** (`WalkerProofs`): `ProbeHitsMeasured` and `VerdictCorrect`, from the invariant `PInv`: the inode
  of the descriptor that is scanned is that of the metadata, and no NUL is among the
  bytes of an unchanged file that were scanned so far. `WalkerImplementsSequentialWalk` shows that the probe's
  steps, the sorting and the buffer are invisible to the walk.
- **CodeFile** (`CodeWalkIterProofs`): `FileImplementsIter`, so that what is proved of `CodeWalkIter` holds while a
  file changes under it (`ChangingFileKeepsTheWalk`); `EntriesDescribeOneFile`, `ContentReadWhole`,
  `ContentStaysWithinCap` and `ChunksStayEnded`, from `FInv`: what was read is a prefix of the file as long
  as it was not cut off, and never longer than the room that `take` leaves.
- **Archives** (`ArchiveExtractProofs`): `TypeCorrect`, `LimitsHold`, `AllIsCharged`, `TarFused`, for any set
  of blobs and any bytes in them. `WithinLimits` needs to know that whatever is charged is no
  larger than an entry may be: `TarEntriesSmall` of what the tar reader has handed out, `ZipEntriesSmall` of what a
  zip stores, `Inflates` of what a codec returns. That the budget is not passed by more than one
  entry rests on `Control`: after a failure nothing is charged again. The type of `At(offset)` needs
  that a block that fits in the data is one of its blocks (`BlockIndex`, integer division).
  `AllIsCharged` says that no format and no layer gets by without being charged; its invariant `Charged` says for each
  stage how far the charging is behind: by the entries that are left, or ahead, by the stream that was inflated.
  `AllIsExtracted` is `ExtractsContents`, for any archives nested in any way and any depth. Its invariant `Order` says at each
  stage where the files of an archive are: those of a tar are the layer and the files of the blocks from the offset on
  (`TarInOrder`, `EntryStep`); those of a zip are what its members hold and the files of the headers that are left
  (`ZipInOrder`, `HeaderStep`), and later the layer and the members not yet inflated; when it is charged, the layer is
  complete (`LayerComplete`); and `out`, what is being opened, and what the waiting calls have still to do, the last call
  first, are `Contents` (`NothingLost`, `Pending`).

Only model-checked: liveness under fairness (`Terminates`, and the progress part of
`ImplementsContract` and `WalkKeepsPromise`), which is out of the prover's reach, as is `ENABLED`.
Every invariant and every action property of the runs that pass is a theorem. No module uses `RECURSIVE`.

## 6 Where code and documentation disagree

Five runs end in a violation on purpose: the property is what a document or comment of the
repository says, and the counterexample is what the code does. `PROJECT.json` quotes the lines.

- `parallel_depth`: a directory is claimed before the depth limit is tested
  (`worker.rs:523`), and the stack is last in, first out; a directory met first where it is too
  deep is lost for a root that has it within the limit. The sequential walk is right
  (`sequential` checks the same promise as part of `WalkKeepsPromise`).
- `gitignore_repeated_root`: a directory's chain is in the cache before `info/exclude` has been put
  in front (`worker.rs:81`); with the same root given twice another worker can take it. With distinct
  roots it cannot happen (`gitignore_cache`).
- `gitignore_precedence`: `info/exclude` is asked before every `.gitignore`; in git it is asked
  after them (`worker.rs:102`).
- `codewalk_slot`: the slot for filter errors holds one (`codewalker/parallel.rs:131`); the second of two
  failures replaces the first. At least one is reported always (`NoSilentUndercount`, proved).
- `tar_end`: the end of the data is taken for the end of the archive without the two blocks of zeros
  (`archive/tar.rs:111`).

One has no run of its own, although behaviour hangs on it. SPEC.md:68 says of binary detection: "First 8 KB read for files
≤ 10 MB; strided 64 KB samples for larger files". The code scans the first 64 KiB of a file of any size
(`walk_common.rs:62-79`), which its comment (`walk_common.rs:56`) and BACKLOG.md:15 call for and the tests lock in
(`tests/adversarial/adversarial_audit.rs:254-293`): a small file whose first NUL is at 9 KB is skipped as binary, where SPEC.md has it read
as text, and a NUL at 5 MB of a large file is never seen, as there are no strided samples. `VerdictFitsContent` is about the prefix that
the code scans, and says nothing for SPEC.md: a NUL in the third byte of the model, behind the first sample of two, makes a file
binary in the run `sequential`.

In another the backlog reports a bug that the code cannot show. BACKLOG.md:20, an open item
at the end of that line, says of `worker.rs:595-599` that a "`.gitignore` BUILD error while classifying a child FILE" ends the worker, that
"ALL sibling subdirectories of the erroring file are NEVER walked", and that "a single malformed `.gitignore` produces
DIFFERENT, lossy output under parallelism than single-threaded". The branch does that, and `ParallelWalk` has it, but it is never
taken. The look-up of a child file is about the chain of its directory; the directory has been looked up before it was
listed (`worker.rs:480`), and that look-up either failed, so that the error was sent and the directory not listed, as
with one thread, or left its chain in the cache, where nothing removes it. So the child's look-up reads no rule file and
cannot fail: `FileLookupsHit`, checked by `gitignore_cache` and proved as `FilesAreJudgedFromTheCache` for any number of workers.
It is why the theorems on the pool may assume `NoScanIsCutShort`.

Smaller ones without a run, as no behaviour hangs on them: SPEC.md:28 and 78 give
`MAX_WALK_PATH_BYTES` as 8192, `walker.rs:21` as 4096; SPEC.md:25 promises an error for what the walk
cannot stat, while unresolvable links are passed over (`walk_common.rs:21-39`, `"pass"` in `WalkTree`);
`max_symlink_depth` is documented in hops (`codewalker/mod.rs:210`), while `symlink_depth` counts a component that
resolves through a chain of links once, and counts the links above the root.

## 7 What is not modelled

- What a glob matches, what the `ignore` crate's matchers say, what codecs inflate to, what a tar header's octal
  fields say: inputs of the models, as sets of possible answers.
- A worker that panics: the loop itself does not, and a panic of a library is outside the model.
- Directories and links that change while they are walked are sets of answers (`WalkTree`); only one file
  at a time changes step by step (`LiveFile`). Files are regular: a FIFO put in place of one blocks the open.
- Builder setters, wording of errors, logging, platform differences other than that `dir_id` may fail;
  `walk_sorted` of `CodeWalker` and the UTF-8 decoding of content, which are pure.
- The overflow checks of offsets and totals in `archive/`, which cannot fail with 64 bits below the limits; names of
  zip entries, which `ArchiveExtract` identifies by their payloads, as it does for a tar. `TooManyEntries` of a zip cannot
  be returned by the code, whose count is of 16 bits and whose limit a million; the instance's smaller
  limit only shows what it would do.
- The memory that an extraction holds. The limits are about what is charged: the payloads of a plain tar or a zip are
  copied out of the data before any of them is (`archive/extract.rs:41-46`, `archive/zip.rs:264`), and `Enter` and
  `ZipEntry` hold them as members of the archive; `EverythingIsCharged` says that they are charged before they are
  returned or opened, not that they are before they are copied.
- The sandbox (`sandbox.rs`): one allow-list, one process, one await with a timeout. What is left of a child
  after its timeout is decided by tokio and the kernel: `kill_on_drop` is not set, so it goes on.
- The executable probes (`probe/`): pure functions of a buffer without state; every read is behind a test of
  the length, and a model of their field-by-field parsing would be a transcript.
- Tables of magic numbers, benches, examples and fuzz targets: not worth a model.

## 8 The plan

Done: 1. `WalkTree`, `WalkStream`, `ParallelWalk`, `WalkContract`, `SequentialWalk`, with the proofs of the
pool; 2. `GitignoreCache`; 3. `CodeTree`, `CodeWalkParallel`, `CodeWalkIter`; 4. `TarReader`, `ArchiveExtract`;
5. `SymlinkPolicy`, as the source of the filter's answers; 6. `LiveFile`, `BinaryProbe`, `CodeFile`; 7. `Walker` with
its sorted modes; 8. `ZipReader`; the proofs of all of these; 9. the safety part of the
contract for both walks, `BreadthFirst`, `CacheTransparent`, `StaysInRoot` and `ExtractsContents` as theorems.

Left, in this order:

10. Rule chains in `WalkTree`, so that the verdict on a path that overlapping roots lead to depends on the root that
    claimed its directory, as it does in the code.
11. A directory that changes while it is listed, step by step as `LiveFile` does it for a file.
