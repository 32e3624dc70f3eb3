# TLA+ models of RocksDB's concurrent core

The system is the storage engine in `src/rocksdb-cxx` (paths below are relative
to it) with a Rust layer in `src/src`. The models cover the part that is hardest
to test: many threads that commit through one lock-free queue; threads that
sync, close, track and delete log files while the process may crash; flush jobs
that fail and are recovered from; reads that pin what flushes and compactions
replace; and transactions whose locks expire and whose commits are looked up
without a lock. `PROJECT.json` lists every component, run, mutant, hazard and
theorem, and the source lines of every definition.

## Inventory

| Component | State | Operations | What makes it hard |
|---|---|---|---|
| Waiting for a Writer's state (`db/write_thread.{h,cc}`) | `Writer::state`, a mutex built in place on demand | `AwaitState`, `BlockingAwaitState`, `SetState`, `CreateMutex` | compare-and-swap against a sleeper; the Writer is on a stack and dies when its owner returns |
| Group-commit queue (`db/write_thread.cc`) | `newest_writer_`, `newest_memtable_writer_`, links and states of the Writers, write groups, stall counters | join, enter and exit as leader, launch and complete parallel writers, unbatched entry, begin and end a stall | pushes race leader hand-off; links are completed lazily; dummies in the queue |
| Write path (`db/db_impl/db_impl_write.cc`, `db/write_batch.cc`) | sequence numbers, log, memtables, background error, `pending_memtable_writes_`, `lock_wal_count_` | `WriteImpl` (with `unordered_write`), `PipelinedWriteImpl`, `DelayWrite`, `WriteToWAL`, `InsertInto`, `SwitchMemtable`, `LockWAL`, `UnlockWAL` | one of several batches fails; sequence numbers are allocated, logged, inserted and published at different times |
| WAL sync (`db/db_impl/db_impl.cc`, `db_impl_write.cc`, `db_impl_compaction_flush.cc`) | `logs_` with `getting_synced` and `pre_sync_size`, `log_dir_synced_` | `SyncWAL`, `FlushWAL`, sync write, `SyncClosedLogs`, `MarkLogsSynced`, `MarkLogsNotSynced` | state read before an fsync and used after it; crash at any time |
| WAL life cycle and the MANIFEST's WAL records (`db_impl_files.cc`, `db/wal_edit.cc`, `db/version_set.cc`) | `alive_log_files_`, log numbers, `WalSet`, the MANIFEST | `SwitchMemtable`, flush, `FindObsoleteFiles`, `AddWals`, `DeleteWalsBefore`, `CheckWals` | a log is needed by several column families; additions and deletions in any order |
| Flushes (`db/memtable_list.cc`, `db/flush_job.cc`, `db_impl_compaction_flush.cc`) | immutable memtables and their flags, flush queue, scheduled threads | schedule, pick, write a table, commit, roll back, `DB::Flush` | jobs finish out of order and fail |
| Error handler, `DB::Resume`, `DB::Close` (`db/error_handler.cc`, `db_impl.cc`) | background error, recovery thread, shutdown flags | set error, resume, retry, cancel, close | retries race new errors and the shutdown; waits on waits |
| Column family, SuperVersion (`db/column_family.cc`, `util/thread_local.cc`) | reference counts, thread-local cache | get, return, install, scrape | sentinels swapped by compare-and-swap |
| Snapshots, reads, version dropping (`db_impl.cc`, `db/compaction/compaction_iterator.cc`) | snapshot list, entries of one key | `Get`, iterator, snapshot, flush, compaction | snapshot lists read before the mutex is released |
| Pessimistic transactions (`utilities/transactions/lock/point`, `pessimistic_transaction.cc`) | lock table, wait-for graph, transaction states | lock, wait, steal, prepare, commit, roll back | deadlock detection, expiry against commit |
| WritePrepared transactions (`utilities/transactions/write_prepared_*`) | commit cache, prepared heap, delayed and old commits | prepare, commit, evict, `IsInSnapshot` | lock-free look-ups against eviction |
| Write stalls (`db/write_controller.cc`, `memtable/write_buffer_manager.cc`) | stop and delay tokens | get and release tokens | everyone waits for a flush |
| Recovery, log format, memtable skip list, caches, thread pool | | | see "Not modelled" |
| Tables, blobs, tools, Rust layer | files and codecs | sequential transformations and I/O | mostly testable; see "Not modelled" |

A write joins the queue, its leader appends the group to the log (and syncs),
batches go into the memtables, the sequence number is published, writers are
completed. A full memtable is switched together with its log; the flush that
follows makes logs obsolete; a purge deletes them. A read pins the SuperVersion
(memtable, immutable memtables, version) and a sequence number. Transactions
lock keys first and write through the same queue.

## Modules

| Module | Models | Notes |
|---|---|---|
| `AwaitState`, `Handshake`, `AwaitStateProofs` | wait and wake-up of one Writer, one memory access per step; the atomic steps the other modules use for it; the proofs | `AwaitState` refines `Handshake` |
| `WriteThread` | the queue's data structure: operators from one heap of Writers to the next | extended by `DBWrite` |
| `DBWrite` | the threads: `WriteImpl`, `PipelinedWriteImpl`, unordered writes, unbatched sections, stalls, `LockWAL` | refines `AtomicWrites` |
| `AtomicWrites` | what `DB::Write` promises | abstract specification |
| `WalFiles` | log files, their syncs, flushes, purges, the MANIFEST's WAL records | proofs: `WalInvariants` (the layers of the inductive invariant), `WalSyncProofs`, `WalFilesProofs`, `WalDurableProofs`, `WalTrackingProofs` (lemmas), `WalTheorems` |
| `MemTableList`, `ErrorHandler` | operators on the list of immutable memtables, and on the error handler's fields | composed by `Flush` |
| `Flush` | flush scheduling and jobs, MANIFEST commits, file deletion, resume, recovery, close | |
| `SuperVersion` | reads, snapshots, SuperVersions, flush and compaction of one key | proofs: `SuperVersionProofs` |
| `WritePrepared` | commit cache and `IsInSnapshot` | |
| `PointLockManager` | key locks and the transactions that use them | proofs: `PointLockProofs` |
| `MC...` | instances for TLC | |

In `DBWrite`, `WalFiles`, `Flush`, `WritePrepared` and `PointLockManager` a
variable (`load` or `setup`) holds options, workload and faults of a behaviour;
it is chosen in `Init` from a constant set, so that one run covers several
configurations whose interleavings are not multiplied with each other.

**AwaitState.** An owner constructs a Writer, waits for a series of states and
destroys it; any waker may call `SetState` for the next state. Loads,
compare-and-swaps, lock, predicate, notify and unlock are separate actions, and
the condition variable may wake spuriously.

**WriteThread and DBWrite.** A Writer is identified with its thread. `writer` is
the heap, `pc` the position of each thread; a step is what the code does between
two accesses that another thread can see. `request` abstracts the write options
and the batch: number of records, size, sync, `no_slowdown`, WAL or memtable
disabled, merge, a callback that fails or forbids batching, and the record whose
insertion fails. `wal` and `mem` are the records with their sequence numbers,
`LastSequence` is what readers see. An unordered write appends and publishes in
`WriteImplWALOnly` and inserts on its own, counted by
`pending_memtable_writes_`; a switch waits for the count on `switch_cv_`.
`LockWAL` and `UnlockWAL` are callers of their own. Assumptions:
`seq_per_batch` is off; `track_and_verify_wals_in_manifest` is off here (it is
in `WalFiles`); `stopped` stands for every reason to delay a write; locking a
mutex that was never constructed (see "Findings") is taken to have no other
effect.

**WalFiles.** One write leader, one flush thread, any number of `SyncWAL`
callers and purges. `logs` is a set because `logs_` is sorted. A crash may
happen in any state: what it leaves is `linked` (directory entries), `synced`
(records per log) and `manifest` (the WalSet a replay gives), and the invariants
are about those. Assumptions: `paranoid_checks` on, no log recycling, no
two-phase commit, no dropped column families, no atomic flush or mempurge;
MANIFEST and SST writes do not fail; an fsync makes durable what is in the file
and a directory fsync every entry; the database stays stopped after an error;
only a nonempty memtable is switched.

**Flush.** One column family. The DB mutex is held except while a table file or
the MANIFEST is written, files are deleted, a thread sleeps or is joined, so an
action is what happens between two of those; a wait on `bg_cv_` is the guard of
the next action. `on_disk` is the set of contents a restart may find in the
MANIFEST: two after a failed write, one after a successful one. File number and
epoch are allocated together and are one number; a memtable has its log's
number. The writes of the log, of a table, of a flush's edit and of the edit
that `ResumeImpl` writes may fail, retryably or for good, as often as `setup`
says. Assumptions: `paranoid_checks`, automatic recovery enabled by `Open`, no
out-of-space errors, no atomic flush, mempurge, compaction or dropped family;
every write goes to the log, so `Close` flushes nothing of its own.

**SuperVersion.** One key; write `v` has sequence number `v`. Each swap,
compare-and-swap, exchange of a `Scrape` and change of a reference count is a
step. Flush and compaction each list the snapshots first and install their
output later, dropping hidden versions and zeroing sequence numbers by the rules
of `CompactionIterator`; a flush picks only memtables up to `max_memtable_id`.
Freed SuperVersions keep only their count, so a use after the free is visible.

**WritePrepared.** Sequence numbers are allocated, prepared, committed, evicted
and published one step at a time; `IsInSnapshot` is one step per look-up. With
one write queue a group calls the callbacks of its writes and publishes them
together; with two, commits run beside prepares. A reader takes a snapshot
(`SmallestUnCommittedSeq`, the list of snapshots, `future_max_evicted_seq`), asks
about every prepared number, or reads without one and validates afterwards.
`commit_of` is a history variable the code does not read. No write fails: what
`CommitInternal` and `RollbackInternal` do after a `WriteImpl` that returned an
error is left out.

**PointLockManager.** A transaction is used by one thread. A critical section of
a stripe mutex is a step, unless another lock is taken in it; then the holder
is kept in `stripe_mutex`. The order of a lock's holders is kept, because
`UnLockKey` and the deadlock search depend on it. A time-out may strike at any
moment of a wait; expirations compare with a bounded clock. The downgrade after
an upgrade whose snapshot check failed gets the lock in one step or fails on the
stripe mutex (`DowngradeFails`), which is right only as long as nobody can steal
the lock in between; so a setup with such upgrades (`unvalidated`) has no
expirations (`LockAssumption`). `Commit` refuses a commit-time batch in a
transaction that has not prepared; one with an expiration is then
`AWAITING_COMMIT` and keeps its locks until it is destroyed.

## Runs

Distinct states in parentheses.

| Run | Shows |
|---|---|
| `group_commit` (650k) | three writers with different options, failing callbacks and inserts, stalls, nested `LockWAL`, a WAL error: a `no_slowdown` write never sits behind the stall marker; OK means written; no half batch is visible; `LockWAL` freezes log and memtable until the last `UnlockWAL`, which returns after the stall it caused; `AtomicWrites` is implemented |
| `pipelined` (420k) | pipelined writes with parallel and serial inserts, each of which may fail, WAL-only batches, a switch, errors: one leader per queue, links correct, no pointer to a dead Writer, OK means written, memtables agree with logs, `AtomicWrites` is implemented |
| `returns` (180k) | every pipelined and every unordered write returns, with a stall, a switch (which may fail), `LockWAL`, a WAL error, unbatched sections; with unordered writes too, no record gets into a memtable of another log |
| `await_state` (4k) | wait and wake-up, with liveness and refinement of `Handshake` |
| `wal_files` (1.4M) | a returned sync survives a crash, the protocol on `logs_`; no log with unflushed data is deleted; `CheckWals` succeeds after a crash |
| `wal_manual` (42k) | `manual_wal_flush`, two column families and an I/O error: no torn batch; nobody waits for ever on `log_sync_cv_` |
| `flush` (250k) | one or two flush threads, `Flush`, `Resume`, recovery and `Close`, with no, one or two failures: a crash at any time finds every table file and every log it needs (`CrashRecovers`); `Flush` that returned OK after waiting has flushed; with at most one failure and no job rolled back beside another, errors are recovered from, and `Flush` and `Close` return |
| `superversion` (1.4M) | two threads with Gets and iterators: no use after free, no leak, exact snapshot reads across flush and compaction, and reads without a snapshot see every write acknowledged before the call |
| `write_prepared` (1.4M) | `IsInSnapshot` is exact for live snapshots and validated reads, for one and two queues, rollbacks, groups, cache sizes 1 and 2; the code's assertions hold |
| `point_lock` (250k) | seven configurations (cycles, shared locks, upgrades with and without patience, expiry with two-phase commit, a lock limit, zero time-out): writers exclude everyone, nothing stays locked by transactions that ended, every lock call returns |

Bounds. Three writer threads are the fewest with a leader, a follower and a
newcomer that pushes during the hand-off; a dummy or the stall marker makes a
fourth queue entry. One write per thread is enough for those shapes; `returns`
has two writers and a third thread, because TLC checks liveness without
symmetry. One error and one switch reach every error path; two stalls let one
begin as soon as another has ended. Batches have size 1 or 8 and the group limit
is such that a group holds two large batches but not three. For the logs, three
are needed for a purge, a closed log under sync and a current one at the same
time, and a fourth for `SwitchMemtable` to delete WALs from the MANIFEST (with
three the MANIFEST is also replaced; `wal_rollover` needs a fifth); two
column families are the fewest that can keep each other's logs alive; one record
per log separates empty, buffered, appended and synced. Three memtables and two
flush threads are the fewest with a job rolled back, a newer one completed and a
memtable left over. Three writes, two switches and two snapshots let a
compaction see two files with versions on both sides of a snapshot. Four
transactions and a cache of one entry let a commit be evicted before it is
removed from the delayed ones. Three transactions and three keys in two stripes
give a cycle of length three that crosses stripes.

Symmetry of threads, column families or transactions is used for safety only.
`Flush`, `SuperVersion`, `WritePrepared` and `PointLockManager` stop when
their bounded calls are used up, so their runs do not look for deadlock; the
liveness properties of `Flush` and `PointLockManager` cover the waits.

Fairness. A thread that can run does (weak fairness of each thread's own steps;
the code holds no lock across a wait). `AwaitState` has strong fairness for
taking the state mutex, and `WalFiles` for returning from `log_sync_cv_`: a
thread that finds the mutex or the condition free again and again gets through,
which holds for the mutexes of the platforms in practice and is assumed, not
proved. A stall ends (`ResumeWrites`), because the flush that it waits for does.
In `Flush`, I/O returns and flush threads, recovery, and callers that are inside
a call go on. In `PointLockManager` a transaction inside a call goes on, a finite
lock time-out arrives, and the user ends a transaction sooner or later. Calls
themselves (`SyncWAL`, writes, switches, `Flush`, `Close`) have no fairness.

## Findings

Two runs are refuted by TLC, each about a sentence in the code.

* `wal_rollover`: a new MANIFEST gets a smaller WAL deletion record than the
  old one had, so a late addition tracks a log that is then deleted and the
  database does not open. The run uses a state constraint (`OneAtATime`) that
  lets only a `SyncWAL` about to write the MANIFEST be overtaken; it only
  removes behaviours, so the counterexample is one of `Spec`.
* `flush_order`: the retry of a rolled-back flush gets a larger epoch number
  than the flush of a newer memtable that had completed, so level 0 is searched
  in the wrong order.

Seen in the models and not kept as runs; the configurations above leave these
cases out or the properties name them as exceptions.

Write path:

* `CompleteParallelMemTableWriter` locks the leader's `StateMutex()` for a
  failed insert although a leader that never blocked has not constructed it
  (`assert(made_waitable)`, `write_thread.h:255`).
* With serial inserts and without pipelining, followers of a group whose
  insertion failed return OK
  (`write_batch.cc:2977` stops, `ExitAsBatchGroupLeader` copies OK).
* After a failed insert `assert(write_group->status.ok())` in
  `ExitAsBatchGroupFollower` and `assert(!error_handler_.IsBGWorkStopped())` in
  `MemTableInsertStatusCheck` can fail, and the first records of the failed
  batch become visible with the next write; with `paranoid_checks` off, a WAL
  error of a pipelined group leaves log and memtable with different numbers for
  the next one.
* Under `unordered_write`, `LockWAL` stops the log but not the memtable: it does
  not wait for pending memtable writes (`db.h:1587`: "Freezes the logical state
  of the DB (by stopping writes)").

Flush, recovery and close:

* D1. A manual `Resume` leaves `is_db_stopped_` set (`ClearBGError` does not
  reset it); from then on `WaitForFlushMemTables` stops at once and returns the
  background error, which is OK: `Flush` returns OK without having waited.
  `FlushOkMeansFlushed` is about calls that waited.
* D2. A recovery thread that leaves on `end_recovery_` keeps
  `recovery_in_prog_`, and `Close` waits for ever (`Abandons`).
* D3. After a recovery gave up, a refused flush leaves its request in
  `flush_queue_` with `unscheduled_flushes_` zero; later `Flush` and `Resume`
  calls wait for ever. It takes two errors.
* D4, D7. With two flush threads and a failed table, or two failed MANIFEST
  writes, file deletion is enabled while the MANIFEST's contents are unknown and
  `CrashRecovers` fails.
* D8. With two flush threads, three memtables and a failed commit,
  `PickMemtablesToFlush` stops at the memtable in progress between two free ones
  and clears `flush_requested_`; nobody asks for the newer one again.

Locks:

* An upgrade whose snapshot check fails after the shared lock was taken without
  validation returns the status of the downgrade, OK, and tracks an exclusive
  lock it does not have (`pessimistic_transaction.cc:1070`). With a finite
  time-out the downgrade may fail on the stripe mutex, against the
  `assert(s.ok())` that follows; the lock then stays exclusive.
* A shared lock of a transaction that never expires, joined by one that does,
  takes the larger expiration and can be stolen (`transaction_db.h:293`).
* At `max_num_locks`, a wait without a time-out is not woken by a release in
  another stripe, and a wait whose deadline has passed spins with the stripe
  mutex held (`Spins`); the limit itself is checked under one stripe mutex and
  counted under another, and shared locks are not counted evenly.
* Of a forgotten expired transaction only one lock can be stolen by each
  compare-and-swap of its state; requests for its other keys wait.

## Proofs

The theorems hold for every value of the constants that satisfies the named
assumptions, where TLC sees one instance. None of the properties is inductive
by itself. In every case one lemma says that the inductive invariant holds
initially, one (with a step per action) that every step keeps it, and one that
it implies the property.

**`AwaitStateProofs`**: any set of wakers, any number of waits. Assumption
`ThreadsAssumption`: the owner is no waker, the lock's "nobody" is no thread,
`STATE_LOCKED_WAITING` is none of the awaited states.

* `WakersTouchLiveWriters`, `MutexUsedWhenConstructed`, `LosesNoWakeup`,
  `KeepsAssertions`: the four safety properties of the run.
* `Implementation`: `AwaitState` implements `Handshake`. This justifies the
  atomic `SetState` and waits of `WriteThread` and `DBWrite`.

The invariant adds `OneSetter` (at most one `SetState` is under way, for the
wait after the last that returned, and the Writer is alive), `MutexHolder` (the
positions at which a thread holds the mutex), `StateValue` (the state is the last
goal or `LOCKED_WAITING` until the waker stores, and the next goal after) and
`OwnerKnows` (what the owner's position says about the state and the mutex, and
that a waker on the locked path finds the owner still in its wait).

**`WalTheorems`**: any number of column families, logs, records, `SyncWAL`
callers and purges, with I/O errors and a crash at any time. Assumption
`WalAssumption`. The invariant has layers (`WalInvariants`), each proved on top
of those before it:

| Layer | Says | Gives |
|---|---|---|
| `Places`, `FlushJob` | positions of the threads; the flush thread owns the first memtables of one family | `KeepsTypes` |
| `Kept` | memtables are in the order of their logs; a minimum computed by a flush or a purge before it lets go of the mutex is still no more than anybody needs when it is used | `KeepsUnflushedData` |
| `Protocol` | a log is `getting_synced` exactly because one thread holds it, and only one thread holds logs | `KeepsSyncProtocol` |
| `Durable` | a log that left `logs_` is synced and linked; `log_dir_synced_` is true only when every entry is; what a thread has synced so far of its promise | `KeepsAckedDurable` |
| `Backed` | on the way from `SyncClosedLogs` to the installation the closed logs stay synced | `KeepsFlushedBacked` |
| `Tracked` | a log in the `WalSet`, or in an edit about to be applied, is synced up to its size if it is still needed | `KeepsWalsChecked` |

`KeepsWalsChecked` is for behaviours in which the MANIFEST is not replaced
(`setup.rollovers = 0`): with a replacement the property is false, which the run
`wal_rollover` shows. The layers use that a nonempty set of numbers has a least
element (`LeastExists`), a hypothesis of the lemmas that `WalTheorems`
discharges from the well-foundedness of the numbers.

**`SuperVersionProofs`**: any finite set of threads, any number of
installations, reads and iterators (`ReadersAssumption`, `BoundAssumption`).
`FreesNoneInUse` (no use after free, and giving up a cached SuperVersion never
drops the last reference) and `LeaksNone`. The invariant adds `RefsCounted`
(each count is the number of caches, iterators and of the family's own
references), `Fresh` (which SuperVersion a thread may find or leave in its cache;
`Scrape` counts every pointer it finds as one to the old SuperVersion, which is
only right because of this) and `Swept` (who frees what has no references).

**`PointLockProofs`**: any finite sets of transactions and keys, any stripes,
time-outs, limits, batches, failures and expirations (`LockAssumption`,
`FiniteAssumption`).

* `LocksAreGivenBack`: `NoLockLeak`.
* `LocksKeepOthersOut`: `LocksExclude` in configurations that are `Uniform` (of
  the transactions that share locks all expire or none does) and `Sound` (where
  upgrades may fail their check, at most one transaction shares locks). Both are
  needed: without them the property is false, by the first two items under
  "Locks" above.

The invariant `LockInv` adds to the types: `CallsOK` (what each position of a
call says about its arguments and the transaction's state; a transaction that
expires is in `expirable_transactions_map_` until it is destroyed), `TableOK` (a
`LockInfo` names nobody twice; exclusive means one holder, shared means readers
only), `NoLeak` (a holder has the key or is about to unlock it), `Claims`
(conversely, who has a key and was not robbed is a holder, and exclusively so if
it believes that; a lock that expires has only holders that do, hence
`TryStealingLocks` has marked every one of them before the lock is taken over)
and `Counted` (`lock_cnt` against the table; a key is inserted before it is
counted).

Only model-checked:

* all liveness properties (fairness and ENABLED are out of the prover's reach);
* `DBWrite` and its refinement of `AtomicWrites`: the operators of `WriteThread`
  walk linked lists of Writers, and what they compute for a list of any length
  is an induction over data;
* `Flush`: `MemTableList` filters sequences (`SelectSeq`), about which nothing
  can be proved with the installed provers;
* `SnapshotReadsExact` and `ReadSeesLatest` of `SuperVersion`: a flush picks and
  removes memtables by filtering a list in the same way;
* `WritePrepared`: not attempted.

## Not modelled

`seq_per_batch` with several sub-batches, two-phase commit in the log's life
cycle, log recycling, user-defined timestamps, mempurge, atomic flush, dropped
column families, the manifest writer queue, out-of-space recovery, compaction
errors, single deletions, merges and range deletions in reads, write-unprepared
transactions, failed writes of write-prepared ones, recovery of prepared
transactions. The repository has some 340,000
lines; most of them are file formats, options, statistics, tools, benchmarks and
I/O without a protocol of their own, so the modelled share of the lines stays
small although it is the concurrent core. Components without a module are listed
with their reason in `PROJECT.json`: file formats and pure I/O (tables, blobs,
tools, environment, the Rust codecs) stay out; the others are in the plan.

## Plan

1. Proofs: `ReadsAreExact` of `WritePrepared`, starting from what the commit
   cache and the delayed and old commits say together of one sequence number.
2. `Recovery`: replay of what `WalFiles` and `Flush` leave after a crash, with
   torn tails and the recovery modes; refinement to a prefix of the acknowledged
   writes.
3. `ManifestWriters` (queue of `LogAndApply`).
4. The clock cache's slot, the write buffer manager's stall queue, the skip
   list, log record format as operators.
