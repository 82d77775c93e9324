# TLA+ models of the LevelDB Windows environment and arena

This directory holds TLA+ models of the concurrent parts of this port.

- `src/unnamed/part_000` is `util/env_*.cc`. It contains `PosixMmapFile`, the `PosixEnv` scheduler, file locking and `Env::Default`.
- `src/Test/Test.cpp`, after its separator, holds `util/arena.cc`: the lock-free `Arena`.
- `src/leveldbNative/util/testharness.cc` is the test driver: `RegisterTest`, `RunAllTests`, `TmpDir` and `RandomSeed`.

Each module is translated from those lines. `PROJECT.json` maps every definition to the lines it models.

## The system and its parts

| Part | Source | Concurrency | Module |
|---|---|---|---|
| `PosixMmapFile` | part_000:136-471 | any number of writer threads share one file | `MmapFile` (+ `MCMmapFile`) |
| Background scheduler | part_000:1110-1158 | producers calling `Schedule` and one background thread | `BGScheduler`, refining `SchedulerFifo` (+ `MCBGScheduler`) |
| `Arena` | Test.cpp:61-268 | any number of allocating threads, lock-free | `Arena` (+ `MCArena`) |
| `LockFile`/`UnlockFile` | part_000:998-1035 | processes via a boost `file_lock` | `FileLock`, refining `FileLockSpec` (+ `MCFileLock`) |
| Test harness | testharness.cc:19-134 | static initialisers, then the main thread | `TestHarness` (+ `MCTestHarness`) |
| `Env::Default` | part_000:1184-1195 | `call_once` | only through `TmpDir` in `TestHarness` |
| `StartThread` | part_000:1160-1182 | thread spawn | not modelled: no state of its own |
| Sequential, random-access and `BoostFile` files, filesystem calls | part_000:94-135, 476-690, 700-996 | none | not modelled: single-threaded I/O wrappers |

**How the parts interact.**
- A writer of the database appends to a `PosixMmapFile` and syncs it, while compactions run as tasks queued through `Schedule`.
- Memtables allocate from an `Arena` from several threads.
- The three components share no state with each other. Each is therefore modelled and checked on its own.
- The test harness drives the database through fixtures whose bodies are test code; it touches the environment only through `Env::Default()` in `TmpDir`.

### PosixMmapFile (`MmapFile.tla`)

**State**, as VARIABLES:
- the members `segments_`, `segments_sz_`, `end_offset_`, `trunc_in_progress_`, `trunc_waiters_`, `_base_handle` (`base_handle_`) and `fd_` (`fdOpen`);
- the OS objects those members name: the file length, the size of each mapping handle, the open handles and the views;
- per-thread locals in `th`.

**Data abstraction.** The bytes written are reduced to *which view each write went into* (`chunks`). A write is lost exactly when the segment table no longer points at the view holding it.

**Actions.** Every `mtx_` critical section is one atomic action:
- `WriteAt` and `AppendOp` (the `end_offset_` update);
- `WriteLoop` (the `GetSegment` lookup);
- `GrowDecide`, `Grow`, `GrowWoken` (the wait loop), `Truncate` (`_chsize`, which may fail) and `Swap` (copy, swap and SignalAll);
- `CreateMapping`, `MapView` and `Install` (the duplicate check), plus `UnmapDup`;
- `Copy` (the `memmove`);
- `BeginSync`, `SyncLookup` and `SyncFlush`;
- `Close`.

**Where failures come from.**
- A mapping call that Windows would reject (an empty file, a view past the end of the mapping, a closed handle) sets `aborted`, because the code calls `abort()`.
- The two flush calls in Sync succeed or fail nondeterministically.

**Histories.** Each Append also records, as `floor`, the highest end among the writes that had returned OK when it read `end_offset_`. The variables `chunks`, `okWrites`, `onDisk`, `lastSync`, `closeCalls` and `closeOk` record what the properties need to know.

### Background scheduler (`BGScheduler.tla`, `SchedulerFifo.tla`)

**`Schedule` is two actions:**
- `SchedulePush`, under `mu_`, creates the thread if needed and pushes the item;
- `ScheduleNotify` is the `notify_one` after `unlock`. It wakes one waiter, or is lost if nobody waits.

**`BGThread`:**
- `BGLock` and `BGWoken` re-check the queue under `mu_` (`CheckQueue`): they either wait or pop the front item;
- `BGRun` runs the item outside the lock;
- `SpuriousWakeup` models `condition_variable::wait` returning with no notification.

**Abstract specification.** `SchedulerFifo` says what the scheduler promises: tasks start one at a time, in the order they were scheduled, and each scheduled task eventually runs. `BGScheduler` instantiates it, mapping `q` to `queue_`, `running` to the task the background thread is running, and `sched` to the history of pushes. It checks `Fifo!Spec` as the property `FifoRefinement`.

### Arena (`Arena.tla`)

**State.** Addresses are (block, offset) pairs; a block is page-aligned, so alignment of an offset is alignment of the address. `blk` holds the fields of every `Block` ever built (`rem`, `next_lower`, `next_upper`, `size`, `next`), plus two flags:
- `owned`: the memory is a Block the arena built;
- `live`: the block has not been deleted after a lost CAS.

**Actions.** Every atomic load, store and CAS is its own step, with two exceptions:
- `blocks_` and `b->rem` are loaded in one step. Blocks are never freed while the arena lives, so the later load is as good as the earlier one.
- A store to a new block's `next` before it is published is merged with the publishing CAS.

The steps are: `Start` (AllocateAligned padding and the large-size test), `Load`, `CasRem`, `NewNormal`, `Link`, `LargeNew`, `LargeLoad`, `LargeCas`, `FinLoad` and `FinCas`.

**The missing return in `NewBlock`.** `NewBlock` has `//return nb;` commented out, so its caller gets an indeterminate value. The constant `NewBlockResults` chooses the outcomes:
- `"nb"`: the block just built;
- `"stray"`: memory that is not a Block, read as zero. This stands for a plausible register value, such as the `MapViewOfFile` result.

**Accounting.** `memory_usage_` starts at one `sizeof(Block)` for the arena object. It is raised by separate relaxed `fetch_add`s after the CAS each one accounts for: one block header in `Link` and `LargeCas`, the range size in `Claim`. `BlockHdr` is the header size.

### File lock (`FileLock.tla`, `FileLockSpec.tla`)

**Abstract specification.** `FileLockSpec` is spec 4.4: an exclusive lock where `LockFile` succeeds when the lock is free and fails when it is held, and every call returns.

**State and actions.** `FileLock` follows the code:
- `LockFileOpen`: `*lock = NULL`; create the file if absent (`lockExists`); construct the `file_lock` and the `BoostFileLock`.
- `LockFileAcquire`: `fl_.lock()`, enabled only while `owner` is `NoOwner`, because `LockFileEx` blocks; then `*lock = my_lock` and return OK.
- `LockFileThrow`: `fl_.lock()` throws because `LockFileEx` failed. The catch returns an IOError with `*lock` still NULL, and `my_lock` leaks (`leaked`). The abstract spec surfaces this as `LockIoError`, following spec 7: lock call failures are reported as I/O errors.
- `UnlockFile`: `fl_.unlock()`, then `delete`.

**Callers.** Each caller is one `FileLock` holder: a DB in this process or in another. `LockFileEx` locks per handle, so two holders in the same process exclude each other just as two processes do.

**Refinement.** The mapping sends `owner` to `holder`, and a caller blocked in `lock()` to `"calling"`. No run checks the safety part of this refinement. Each code action maps onto an abstract action with the same guard, so it would hold by construction: the lock's exclusivity is `LockFileEx`'s, and the guard of `LockFileAcquire` assumes it. The module checks the liveness part (`FileLockContract`). The abstract spec must eventually return from a call that finds the lock held, and the code never does.

### Test harness (`TestHarness.tla`)

**State.**
- `tests` says whether the pointer is non-NULL, and `vec` is the vector it points to.
- `registered` is the history of returned `RegisterTest` calls.
- `pc`/`idx` is the position in the hard-coded list of `RunAllTests`, and `live` holds the fixtures that exist.
- `ran` is the methods that returned, and `exitCode` is the process's exit code (`Running` while it runs).
- `defaultEnv`/`envInits` track the `call_once` in `Env::Default()`.
- `env` is the value of `TEST_RANDOM_SEED`: the int that the C runtime's `atoi` returns for it, or `NoEnv`.
- `seeds` holds the results of `RandomSeed`.

**Actions.**
- `RegisterTest(r)` is one static initialiser. They run in any order.
- `Main` starts `RunAllTests` once all have run.
- For each entry of `RunList` (lines 61-107), the steps are `NewFixture`, then `TmpDir` and `CallRandomSeed` as the fixture calls them, then `RunMethod`, then `DeleteFixture`.
- `RunMethod` either returns, or hits a failing `ASSERT`, which exits with code 1 and leaves the fixture alive.
- `Return` is `return 0`.

**`atoi`.** `atoi` belongs to the C runtime, not to this repository, so the model does not translate it. A `TEST_RANDOM_SEED` value is represented by its result.

## Runs

| Run | Expect | What it shows |
|---|---|---|
| `mmap_write` (`MCMmapFile_write.cfg`) | pass, ~631k states, about 3 min | Three writers race through growth, racing mappings, duplicate unmaps and Sync: w1 writes block 0 and then syncs, w2 writes block 1, and w3 appends one unit at whatever `end_offset_` it reads. The owner then closes the file. While the file is open no write is lost (`NoLostWrite`). Every view is installed in a segment or held by its mapper (`ViewsAccounted`). Close truncates to a length that covers every write that returned OK (`CloseKeepsData`). The Append lands at or above the end of every write that had returned OK when it read `end_offset_` (`AppendAfterReturned`). All writers finish (`WritersFinish`). |
| `mmap_grow_shrink` | violation | `NoLostWrite`: a waiter whose block is covered clears `trunc_in_progress_` (line 170) while another thread grows, so two truncations run at once (states 11-12 of the trace). The cleared flag lets a 9-entry table replace a 17-entry one. An OK write is lost, and the copy loop at lines 186-189 copies all 17 old entries into the new 9-entry array, writing past its end. |
| `mmap_handle_race` | violation | `SegmentHandlesOwned`: the shared `_base_handle` member makes a segment record another thread's mapping handle. |
| `mmap_abort` | violation | `WriteErrorsReported`: after a failed `_chsize` the table is still swapped. The next write maps past the end of the file and aborts, rather than returning an I/O error (spec §4.2). |
| `mmap_sync_hole` | violation | `SyncOkImpliesFlushed`: Sync stops at the first unmapped block and returns OK. |
| `scheduler_fifo` | pass, 755 states | `Schedule`/`BGThread` refine `SchedulerFifo` (`FifoRefinement`), spurious wakeups and the notify-after-unlock included. |
| `arena_alloc` | pass, ~124k states | Three threads race on `rem`, on `blocks_` (two threads building a block at once), on `large_` (two large requests) and on both cursors. Results: ranges are disjoint; every range lies in a live, listed block; AllocateAligned results are aligned; every call returns. |
| `arena_alloc` (cont.) | | With no call in flight, `memory_usage_` equals the headers of the listed blocks plus every byte handed out (`MemoryUsageAccounted`). |
| `harness` (`MCTestHarness.cfg`) | pass, 1386 states | One thread runs the static initialiser and then the fixed list. Every fixture may pass or fail its ASSERT. `InitDefaultEnv` runs at most once however many fixtures call `TmpDir` (`TypeOK`: `envInits \in 0..1`). The harness has no concurrency and runs its list in a straight line, so nothing deeper holds here that the code's order does not already show. |
| `harness_registry` | violation | `RegisteredTestsRun`: the registry loop is commented out. `VersionEditTest.EncodeDecode` is registered but never run, and the process still exits with 0. |
| `filelock_contract` | violation | `FileLockContract`: spec 4.4 says `LockFile` fails when the lock is held. The code's `fl_.lock()` blocks instead, and a holder that keeps its lock leaves the other caller inside `LockFile` forever. |
| `arena_newblock_ub` | violation | `AllocationsOwned`: with the missing return, `AllocateLarge` returns memory in no block of the arena. |

Every property of a passing run is paired with a mutant in `PROJECT.json`: a plausible bug in the mapped code, which TLC finds under that run's configuration. The mutants are:
- a dropped copy or a dropped SignalAll in `Swap`;
- a failed CAS that keeps its stale value;
- a blind store in place of the cursor CAS;
- a `WriteAt` that sets `end_offset_` instead of raising it;
- a `Link` that does not count the new block in `memory_usage_`;
- `InitDefaultEnv` without `call_once`.
- an `AllocateLarge` push that ignores the witness;
- AllocateAligned without its padding;
- `notify_one` left out.

## Bounds and why they suffice

**MmapFile.**
- The block size is 2 bytes, and a write covers 1 or 2 bytes.
- Blocks 0-2 lie inside the first table of `NewSize(b) = ((b+7)&~7)+1 = 9` entries. Block 18 forces a second growth, to 17 entries, in `grow_shrink`.
- Three writers are enough for each race the code can have. Two race for one block, and a third holds the growth while the others wait.
- The passing runs keep each writer to one write, so the line-170 flag bug cannot produce a second concurrent grower. The violation runs show that it can with more writes.

**Scheduler.** Two producers with two tasks each give every interleaving of push, notify, wait and pop that has a waiting thread and a non-empty queue.

**Arena.** The real sizes are scaled, keeping their ratios:

| Setting | Real value | Model value |
|---|---|---|
| `BLOCK_SIZE` | 65536 | 8 |
| Page size | 4096 | 4 |
| `align_` | 8 | 2 |
| `BLOCK_SIZE >> 2` (large threshold) | 16384 | 2 |

- Sizes 1 and 2 take the lower and upper cursors; size 3 is large.
- The 11 normal bytes requested overflow the first block, so threads race to build a second one.
- `MaxBlocks = 6` is never reached in the passing run; if it were, TLC would report a deadlock or a liveness violation.

**File lock.** Three callers with at most two calls each (`MaxCalls = 2`) give a holder, a waiter and a third caller. The LOCK file may or may not exist at start. The contract violation needs only one holder that keeps the lock and one waiter.

Whether a waiter can be overtaken forever is left unchecked. `LockFileEx` promises no order among waiters, so the answer depends on the OS. A bound on re-locking would hide the case rather than check it.

**Test harness.**
- The one `TEST()` of the repository, `VersionEditTest.EncodeDecode`, is registered.
- The `atoi` results for `TEST_RANDOM_SEED` are: unset, `INT_MIN`, -5, 0, 7 and `INT_MAX`.
- Each fixture method passes or fails.

## Fairness

- **MmapFile.** Each writer thread gets weak fairness on its steps: OS threads that can run eventually do. Condition-variable waits are modelled as disabled until signalled, so weak fairness is enough.
- **Scheduler.** Producers and the background thread are weakly fair. A spurious wakeup is never promised.
- **File lock.** Only `fl_.lock()` returning once the lock is free is weakly fair: the OS owes a blocked `LockFileEx` that much. Calling `LockFile` and `UnlockFile` is the client's choice, so neither is fair. A DB may stay open for the whole life of the process.
- **Test harness.** One thread runs static initialisation and then `main`, and it is weakly fair.
- **Arena.** The CAS loops are lock-free, not wait-free. Weak fairness per thread is what the OS gives, and with finitely many requests it suffices for every call to return.

## Not modelled

- Data bytes, file names and error strings.
- `SyncDirIfManifest`, which is commented out of Sync.
- The `Flush` no-op.
- The status test at part_000:464, `!FlushFileBuffers(h) == 0`, parses as `(!FlushFileBuffers(h)) == 0`. It reports an error for every successful flush. This is a one-expression bug that any test of a successful Sync would show, so no run is spent on it. The model's `SyncFlush` keeps the code's behaviour.
- Two concurrent `Append`s on one file read the same `end_offset_` and overwrite each other. The spec leaves Append's atomicity open (section 5 puts the timing of concurrent writes on the caller), and the database appends to a file from one writer, so no run checks their overlap. What the code does guarantee, that an Append never lands below a write that already returned, is `AppendAfterReturned`.
- A throwing `fl_.unlock()` in `UnlockFile`. The object is then not deleted, and the handle keeps the lock until the process exits. The spec gives no rule for a failed release, so there is nothing to refine it against. `LockFile`'s own throw is modelled; the leak it causes is recorded in `leaked` but no property bounds it, because the spec says nothing about handles.
- Read paths and filesystem calls: they are single calls with no shared state.
- The bodies of the fixture methods (autocompact, corruption and DB tests). They are test code; each is reduced to pass or fail.
- The `LEVELDB_TESTS` matcher, which is commented out along with the registry loop.
- `~Arena` appears only as the list walk (`Chain`) that says which blocks are freed.

## Possible extensions

- An abstract allocator spec refined by `Arena`.
- An abstract append-only file refined by `MmapFile` under a single writer.
- `Close` racing in-flight writes with more writers.
