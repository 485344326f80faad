# TLA+ models of the tskv write path (TseriesFamily, MemCache, LevelInfo, DataBlock)

This directory holds TLA+ models of the write path and in-memory tier of the
tskv storage engine in `src/tskv/src`. The models are checked with TLC. Every
definition is translated from the Rust source. `PROJECT.json` maps each
definition to the lines it models.

## 1. Inventory of the system

| Component | Source | State | Operations |
|---|---|---|---|
| Cell / DataType | `memcache.rs` 12-43 | `(ts, val)` tagged by one of five variants | `timestamp` |
| MemEntry | `memcache.rs` 45-76 | `ts_min`, `ts_max`, `field_type`, `cells` | `delete_range`, `read_cell` (prints only) |
| MemCache | `memcache.rs` 78-194 | `immutable`, `seq_no`, `data_cache` (field -> MemEntry), `cache_size`, `max_buf_size` | `new`, `insert_raw`, `insert`, `delete_range`, `switch_to_immutable`, `is_full` |
| TimeRange | `tseries_family.rs` 40-54 | `min_ts`, `max_ts` | `overlaps` |
| ColumnFile | `tseries_family.rs` 56-132 | id, range, size, `deleted` and `being_compact` atomics | `mark_removed`, `mark_compaction`, file opening (I/O) |
| LevelInfo | `tseries_family.rs` 134-199 | files, `cur_size`, `ts_range` | `init`, `apply(CompactMeta)`, `read_columnfile` (opens files, prints) |
| Version | `tseries_family.rs` 201-232 | `last_seq`, `max_level_ts`, levels | accessors; `get_ts_overlap` is a stub |
| SuperVersion | `tseries_family.rs` 234-255 | snapshot of (delta, mutable, immutables, version, id) | `new` |
| TseriesFamily | `tseries_family.rs` 257-467 | `mut_cache`, `delta_mut_cache`, `immut_cache`, `super_version`, `super_version_id`, `seq_no`, `immut_ts_min`, `mut_ts_max` | `new`, `put_mutcache`, `switch_to_immutable`, `switch_memcache`, `wrap_flush_req`, `wrap_delta_flush_req`, `delete_cache` |
| FLUSH_REQ queue | `tseries_family.rs` 36-38, 357-359, 377-379 | a process-wide `Vec<FlushReq>` | push, then send the whole `Arc` to the flush task |
| DataBlock | `tsm/block.rs` | tag plus parallel `ts[]` and `val[]` | `new`, `insert`, `batch_insert`, `get`, `set`, `len`, `is_empty`, `time_range`, `append`, `merge_blocks`, `rebuild_vec`, `encode` |
| tsm constants | `tsm/mod.rs` | constants and the `BlockReader` trait | none |

### How the parts interact

- `put_mutcache` routes a sample by the watermark `immut_ts_min`.
  - An in-order sample (`ts >= immut_ts_min`) goes to `super_version.mut_cache`.
  - A late sample goes to `super_version.delta_mut_cache`.
- It writes through the SuperVersion's cache handles. Its checks read the
  family's own fields (`self.delta_mut_cache` at line 405) or the
  SuperVersion's (lines 409 and 419).
- A full mutable cache is frozen, which sorts its entries. It is pushed onto
  `immut_cache` and replaced by a fresh cache.
- Once `max_immemcache_num` immutables are queued:
  - the watermark and `version.max_level_ts` advance to `mut_ts_max`;
  - all immutables go to `FLUSH_REQ` in one request.
- A non-empty delta cache is shipped whole when an in-order sample arrives or
  when the delta cache is full.
- Every change of the cache set publishes a new SuperVersion.
- The flush task drains `FLUSH_REQ` concurrently. It lives in the compaction
  code, which is not part of this repository. It writes the caches as files and
  turns a memory cache's cells into DataBlocks merged by `merge_blocks`.
- Readers clone the current SuperVersion.

### Hard behaviours

- **Interleaving:** the flush task runs concurrently with the family's calls.
  The family's own calls are serialised, because each takes `&mut self` or
  `&self` of the family.
- **Stale or duplicated state:** the family's fields and the SuperVersion
  hold two copies of the cache handles.
- **Moving watermark:** the watermark starts from a sentinel (`i64::MIN`) and
  advances only at immutable dispatch.
- **Hand-off:** caches leave the family's lists before the flush has written
  them.
- **Deletes:** a delete covers only the caches the family still lists.
- **Closed and open ranges:** deletes and `overlaps` use closed ranges; the
  level's range update and the read tests of `read_columnfile` and
  `read_cell` compare differently.
- **Merge tie-breaking:** equal timestamps must resolve to the last write.

### What makes each component correct

- **MemCache:**
  - entry bounds cover the entry's cells (spec 8.1), checked over every
    cache of the family;
  - the tag of every cell matches the entry's type;
  - a frozen cache is sorted and takes no more inserts (spec 8.2, 3).
- **TseriesFamily:**
  - no write is lost (spec 8.6), and each cache has a single owner;
  - late samples stay in delta caches below the watermark (spec 8.4), and
    an in-order put ships the late samples waiting there (spec 4.7.2, S6);
  - the watermark is monotone (spec 8.5). This holds without
    `switch_memcache`, and `switch_memcache` breaks it;
  - dispatched in-order data is at or below `max_level_ts`;
  - a reader's SuperVersion plus the files holds every write (spec 5);
  - the write path behaves as the abstract `FlushPipeline`, and every
    queued sample is eventually written (spec 4.7.3, 7).
- **DataBlock:**
  - `merge_blocks` and `append` give the last-writer-wins merge (spec 4.4,
    8.7);
  - for any chunk a writer encodes, `time_range` names the least and the
    greatest timestamp encoded (spec 4.5, 6).
- **LevelInfo:**
  - `ts_range` covers the files of the level (spec 3, 4.5). Only
    `level_signed` checks this: with non-negative timestamps the initial
    range [0, 0] makes the lower bound hold whatever `apply` does;
  - a read streams every block that overlaps the query (spec 4.5);
  - `cur_size` is the sum of the sizes of the files not deleted (spec 3).

## 2. Modules

| Module | Models | State and actions |
|---|---|---|
| `TimeRange` | `TimeRange::new` (argument order `max_ts, min_ts`) and `overlaps` | operators only |
| `MemCacheOps` | `memcache.rs` operations as operators over a MemCache record | no variables. `Insert`, `InsertRaw`, `DeleteRange`, `EntryDeleteRange`, `ReadCell`, `SwitchToImmutable` (stable sort `SortByTs`, then freeze), `IsFull`, `NewMemCache`, `DefaultMemEntry`; the struct types `MemEntryType` and `IsMemCache` |
| `MemCache` | one MemCache driven by its public API | `cache`, `nseq`. Actions `InsertRawStep`, `DeleteRangeStep`, `SwitchToImmutableStep` |
| `TseriesFamily` | the family with its caches, SuperVersion, `FLUSH_REQ` and the flush task | `mem` (every cache ever allocated, by index, standing for the `Arc<RwLock<MemCache>>`), `tsf` (the struct), `version`, `flush_req`, `persisted`, `rx_alive` (the flush task still holds the receiver), and history variables. The structs are `TseriesFamilyType`, `SuperVersionType` and `VersionType`. Actions `Put`, `Delete`, `Switch`, `Flush`, `DropReceiver`, `Idle` |
| `FlushPipeline` | what the write path promises, without caches: samples `live` in memory, a `queue` of batches handed to flush, and `disk` | actions `Ingest`, `Erase`, `Persist`; no code is mapped to it |
| `LevelInfo` | one level and its ColumnFiles | `files`, `cur_size`, `ts_range`. Actions `Apply`, `MarkCompaction`, `MarkRemoved`; `ScanLevel` is the read of `read_columnfile` |
| `DataBlock` | `tsm/block.rs` merge and append, checked against a reference merge | `input`, `merged`, `appended`. Actions `Merge`, `AppendBlocks` |
| `MC_*` | model values and bounds for TLC | |

### How the models correspond to the code

- **`TseriesFamily.Put`** is one whole `put_mutcache` call. It composes
  operators on a state record in the code's order:
  - `AdmitSample`: lines 391-404, with `BootstrapWatermark` (391-393) and
    `InOrder` (395, used again at 405);
  - the delta flush on an in-order sample: lines 405-407;
  - `RotateMutable`: lines 409-417, which calls `SwitchToImmutableF` and
    `WrapFlushReq`;
  - the full-delta flush: lines 419-421.
- **Atomic steps:** `put_mutcache` and `switch_memcache` take `&mut self`,
  and `delete_cache` takes `&self`, so none of them overlaps another. Each is
  one step. The flush task is the only concurrent actor.
- **`NewSuperVersion`** is `SuperVersion::new` with its parameters in the
  code's order. Every call site passes its arguments as the code does, so the
  swap in `switch_memcache` is visible in the model's text.
- **`Switch`** is an external call of `switch_memcache` with a fresh cache.
- **`Flush`** is the flush task, which the repository does not contain
  (spec_modelled). It takes the oldest request and writes every cell of its
  caches to a file of the cache's kind.
- **History variables:** `written` (every cell put) and `erased` (every
  written cell inside a delete range). Only properties read them.
- **Data abstraction:**
  - A cell is `[fid, ts, seq]`; the value is the identity of the write.
  - Byte decoding (`byte_utils`) is not in the repository and is not
    modelled.
  - `cache_size` counts cells, because `size_of_val(&DataType)` is the same
    for every variant.
  - The family writes one value type. Type handling is checked in `MemCache`.
- **`LevelInfo`:**
  - A ColumnFile is a record of `ColumnFileType`: `[file_id, being_compact,
    deleted, range, size, is_delta]`. Its bloom filter and path are left out.
  - The file's index is taken to hold one block of the field read, spanning
    the file's range. The block test of line 181 is then applied to that
    range.
  - A file id is applied once, as the file-id allocator guarantees.
- **`DataBlock`:**
  - Indexes are 0-based as in the code.
  - A panic (index out of bounds, unwrap of `None`) is the value `Panic`.
  - `merge_blocks` and its `rebuild_vec` loop are `RECURSIVE` operators.
    `append`'s while loop is one as well.
  - `TakenHead` is the head `merge_blocks` keeps among those at the
    minimum: the last one its loop takes.
  - `Encode` is `encode` up to the codec calls: the slices `[start, end)` it
    hands to the encoders, or `Panic` out of bounds.
  - `MergeRef` is the reference. It holds every timestamp once, ascending,
    with the value of the last write.

### Refinement

`TseriesFamily` ends with `FP == INSTANCE FlushPipeline WITH ...`:

- `live` is the cells of the caches the family lists (mutable, delta and
  immutables);
- `queue` is one batch per queued FlushReq, the cells of its caches;
- `disk` is the cells flushed.

`ImplementsFlushPipeline == FP!Spec` is checked as a property.

- A put is an `Ingest`: new batches may only be appended, and together they
  must partition the old live set plus the new sample.
- A delete is an `Erase` of the closed range from `live` only.
- A flush is a `Persist` of the oldest batch, as it was handed over.

The check thus shows several things together:

- FlushReqs are flushed in order;
- a queued cache is never written to or deleted from;
- a sample never goes back to memory;
- a delete reaches only what is still resident. This is the open question
  of spec §9, stated as what the code promises.

## 3. Runs

| Run | Cfg | Expect | What it shows |
|---|---|---|---|
| memcache_type | `MC_MemCache_type.cfg` | violation | `insert` overwrites `field_type`. A second insert of another type leaves cells whose tag is not the entry's type |
| family | `MC_TseriesFamily.cfg` | pass | Routing, rotation, dispatch, deletes and concurrent flushes keep every write, give each cache one owner, keep late data below a watermark that never moves back, ship late data at the next in-order put, keep frozen caches sorted and keep every cell of every cache inside its entry's `[ts_min, ts_max]` (`EntryBoundsCoverCells`). The family refines `FlushPipeline`, and under weak fairness of the flush task every queued sample is written |
| family_switch | `MC_TseriesFamily_switch.cfg` | pass | With `switch_memcache` added and the flush receiver allowed to drop (so a put can panic in its send and stop part-way), still no write is lost, no cache has two owners, and the refinement holds |
| family_switch_routing | `MC_TseriesFamily_switch_routing.cfg` | violation | After `switch_memcache`, an in-order sample lands in the delta cache and is shipped as delta data |
| family_switch_watermark | `MC_TseriesFamily_switch_watermark.cfg` | violation | After `switch_memcache` on a reopened family (watermark 2), three late puts fill and rotate a cache while `mut_ts_max` is still `i64::MIN`, and line 413 moves the watermark back to `i64::MIN` |
| family_reader_gap | `MC_TseriesFamily_reader.cfg` | violation | Between dispatch and flush completion, the current SuperVersion plus the files miss the dispatched samples |
| datablock | `MC_DataBlock.cfg` | pass | `merge_blocks` of up to three strictly sorted blocks is the last-writer-wins merge. For every chunk `[start, end)` of the result, `time_range` bounds what `encode` hands to the codec |
| datablock_dups | `MC_DataBlock_dups.cfg` | violation | A block with a repeated timestamp, as a frozen MemCache entry can hold, keeps the duplicates after `merge_blocks` |
| datablock_append | `MC_DataBlock_append.cfg` | violation | `append` either leaves `self` unchanged or panics. It never merges |
| level | `MC_LevelInfo.cfg` | pass | Every sequence of `apply`, `mark_compaction` and `mark_removed` keeps the level well formed; every ColumnFile's range is the right way round (`TimeRange::new(max, min)`) |
| level_signed | `MC_LevelInfo_signed.cfg` | violation | With a timestamp below 0, `apply`'s lower-bound test on `ts_max` leaves a file outside `ts_range` |
| level_read | `MC_LevelInfo_read.cfg` | violation | The strict block test of `read_columnfile` skips a file touching the query at an end point, e.g. a point query `[1, 1]` on a file `[1, 1]` |

Every property of a passing run has a mutant in `PROJECT.json`. A mutant is
a plausible bug in the mapped code, and TLC finds it under the run's own cfg.

### Bounds and why they are enough

- **Family:**
  - one field and timestamps 1..3;
  - a cache is full at 2 cells (`MaxMemcacheCells`);
  - 2 immutables trigger the flush (`MaxImmemcacheNum`);
  - 6 puts and one delete; `family_switch` has 5 puts and one
    `switch_memcache`; `family_switch_watermark` has 4 puts and one switch,
    one more put than its trace needs;
  - `ReceiverMayDrop` is TRUE only in `family_switch`: the liveness run
    needs a flush task that keeps running.
- **Initial Version:** `max_level_ts` is either `I64Min`, a fresh family that
  bootstraps its watermark from the first sample, or 2, a reopened family.
- **Which cases the bounds reach:**
  - six puts reach a late sample, a delta flush triggered by an in-order
    sample, a full-delta flush, two rotations, the watermark advance, and a
    flush running between any two calls;
  - an in-order sample at exactly the watermark while late data waits;
  - a frozen cache can hold an out-of-order pair (3 then 2 above
    watermark 1).
- **Run sizes:** `family` explores 81,540 states in under a minute,
  `family_switch` 295,641 in under a minute and a half.
- **`level`:**
  - two file ids (model values), sizes {1, 2}, timestamps 1..3;
  - `level_signed` uses {-2, 1, 3}, given in `MC_LevelInfo`;
  - two applies and any marks reach two files with disjoint, nested and
    touching ranges.
- **`datablock`:**
  - enumerates every list of 1 to 3 blocks of up to 3 cells over timestamps
    1..3, values {10, 20} and two variants;
  - these inputs cover disjoint, overlapping and equal heads in 2-way and
    3-way merges.
- **Terminal states:**
  - **Family:** the family runs use the `Idle` step for the state where the
    bounded client is done and the queue is drained. The real family would
    wait for its next call there.
  - **`datablock` and `level`:** these cfgs say `CHECK_DEADLOCK FALSE`. The
    merge is a computation that ends, and a level stops changing when nothing
    more is flushed or compacted into it.

### Fault model: the flush receiver goes away

- The flush task lives in compaction code outside the repository. It may end
  and drop the channel receiver (`DropReceiver`, enabled by
  `ReceiverMayDrop`). After that, `Flush` is disabled.
- Every later `sender.send(...).expect` (`SendFlushReq`, lines 359 and 379)
  panics. The panic comes after the FlushReq is pushed. The state record
  then carries `panicked`, and `PutMutcache` skips what is left of the call:
  the rotation and the trailing delta check.
- Later calls still run. The assumption is that the family sits behind a
  tokio `RwLock`, which does not poison.
- `family_switch` checks that `NoWriteLost`, `CacheHeldOnce` and the
  refinement survive this. The mutant that sends before it pushes
  (`WrapDeltaFlushReqSendFirst`) loses the shipped delta cache.

### Fairness and liveness

- `FairSpec == Spec /\ WF_vars(Flush)`.
  - Every `wrap_flush_req` and `wrap_delta_flush_req` pushes the request
    and then sends the queue to the flush task over an unbounded channel.
  - A task the runtime keeps scheduling therefore takes every request that
    stays queued.
- Nothing obliges a client to put, delete or switch, so those actions get no
  fairness.
- `ShippedEventuallyPersisted` is checked under this fairness: a sample in a
  queued cache is eventually in a file.
- A late sample may wait forever if no further put arrives. No unconditional
  leads-to holds for it. `InOrderPutShipsLateData` checks the response the
  code gives instead: the next in-order put empties the delta cache.

## 4. Findings

- **`switch_memcache` swaps the SuperVersion slots** (`tseries_family.rs`
  310-312). It calls `SuperVersion::new(tf_id, cache, self.delta_mut_cache, ...)`,
  and the parameters are `(id, delta_mut_cache, mut_cache, ...)`.
  - In-order writes then go into the delta cache and are flushed as delta
    data (`family_switch_routing`).
  - Late writes go into the new mutable cache. Once it is full, line 409
    rotates it while `mut_ts_max` is still `i64::MIN`. Lines 413-414 then
    set the watermark and `version.max_level_ts` to `i64::MIN`, so the
    watermark moves back (`family_switch_watermark`, spec 8.5).
- **Readers miss samples that are mid-flush.** `wrap_flush_req` and
  `wrap_delta_flush_req` remove caches from the family and publish a
  SuperVersion without them before the flush has written them. Spec §5 says
  mid-flush samples stay visible in the immutables list (`family_reader_gap`).
- **Deletes reach only resident caches.** `delete_cache` covers only the
  caches the family still lists, so samples already queued are written even
  if a delete covering them returns first. Spec §9 leaves this open. The
  refinement states this as the promise: `Erase` touches `live` only.
- **`MemCache::insert` does not validate the field type**
  (`memcache.rs` 155). Spec 4.1 and 8.1 require it (`memcache_type`).
- **`merge_blocks` does not deduplicate** a timestamp repeated inside one
  block. Two puts of one field at one timestamp leave such a block, because
  `switch_to_immutable`'s stable sort keeps both (`datablock_dups`).
- **`append` never merges** (`block.rs` 262-293):
  - `is_empty` is inverted;
  - `new_blk` has length 0, so `set` panics;
  - the result is dropped (`datablock_append`).
- **`LevelInfo::apply` lowers `min_ts` on the wrong test** (line 166). It
  compares with `delta.ts_max`, as spec §9 suspects. The initial range
  `[0, 0]` hides this for non-negative timestamps (`level`). A file
  `[-2, 1]` is outside the range after one apply (`level_signed`).
- **`read_columnfile`'s block test is strict** (line 181). A block that
  touches the query at an end point is never streamed (`level_read`).
  `MemEntry::read_cell` (`memcache.rs` 64) uses the same strict test. It
  only prints and has no caller, so no run is spent on it.
- **`mark_removed` leaves `cur_size` counting the file** (lines 117-119).
  Spec 3 states `cur_size == Σ size` over files not deleted, so the first
  `mark_removed` breaks it. This is a single-step divergence. It is recorded
  here and in the hazard list, not in a run.
- **The sources do not compile as they stand:**
  - `tseries_family.rs` calls `MemCache::new` with four arguments (lines
    286, 327, 346), but `memcache.rs` 97 takes three and `MemCache` has no
    `is_delta` field;
  - `delete_cache` calls `MemEntry::overlap` and `delete_data_cell`, which
    `memcache.rs` does not define.
  - The models take `is_delta` as the fourth argument, as the family uses
    it, and take `overlap` and the delete as spec 4.1 describes them
    (`EntryOverlap` is spec_modelled).

## 5. Not modelled, and why

- **Encoding and I/O:**
  - the codecs `DataBlock::encode` calls are not in the repository, and
    `decode` is empty. `Encode` stops at the slices it hands over;
  - `ColumnFile::file`, `tombstone_file` and `file_reader` open files;
  - the index decoding and printing of `read_columnfile` are modelled only
    by which files and blocks it selects;
  - `MemEntry::read_cell` prints. `ReadCell` gives the cells it selects.
- **Readers between the per-cache steps of `delete_cache`.** Puts and
  switches cannot overlap a delete, and the flush task reads only queued
  caches, which the delete does not touch. Only a reader scanning the caches
  sees a partly applied delete, and the repository has no such reader. The
  delete is one step.
- **Levels inside the family.** The consumer that turns a flushed cache into
  a CompactMeta for `LevelInfo::apply` is outside the repository (spec 7).
  `LevelInfo` is checked on its own, over every CompactMeta sequence.
- **The family's `seq_no` and WAL recovery.**
  - `seq_no` is never advanced, and the WAL replay that would read it is
    not in the repository. Fresh caches start from it, and `insert_raw`
    resets a cache's `seq_no` on every insert, so no run can observe the
    stale value.
  - The hazard list records why a recovery point is delicate here. A delta
    flush hands over late samples while in-order samples with lower WAL
    sequence numbers stay in memory. The flushed samples are therefore not a
    WAL prefix.
- **Readers racing compaction.** `read_columnfile` tests `is_deleted()`
  and then opens the file with `unwrap()` (line 174). Compaction could
  remove the file in between, but compaction and queries are outside the
  repository. The read is one step. The race is listed as a hazard.
- **`insert_raw` with `ValueType::Unknown`** reaches `todo!()` and panics.
  The models only insert known types.
- **`tsm/mod.rs`** holds constants and a trait with no implementation.

## 6. Plan

1. Done:
   - `MemCache`, with the `MemCacheOps` operators;
   - `TseriesFamily` with the flush queue, its refinement of `FlushPipeline`
     and liveness under weak fairness of the flush task;
   - `LevelInfo`;
   - `DataBlock` merge, append and encode;
   - the fault model where the flush receiver is dropped and a send panics;
   - the structs as type sets (`IsMemCache`, `TseriesFamilyType`,
     `ColumnFileType`, ...) and the WAL seq bound of each cache.
2. A flush task that builds the level-0 file from a queued cache, through
   `merge_blocks` and `LevelInfo::apply`, composing `DataBlock` and
   `LevelInfo` into `Flush`. This would show the duplicate-timestamp finding
   end to end. The flush task is spec_modelled, so the composition adds no
   code of the repository.
3. A run with `max_memcache_size` 0, where `is_full` holds for an empty
   cache and the watermark can move back (hazard at line 415).
