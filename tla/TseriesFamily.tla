---------------------------- MODULE TseriesFamily ----------------------------
(***************************************************************************)
(* The ingest and rotation controller of one time-series family            *)
(* (src/tskv/src/tseries_family.rs, TseriesFamily) together with the       *)
(* MemCaches it owns, the SuperVersion it publishes, the process-wide      *)
(* FLUSH_REQ queue it appends to, and the flush pipeline that drains that  *)
(* queue.                                                                  *)
(*                                                                         *)
(* Every method of TseriesFamily takes &self or &mut self of the one       *)
(* family, so put_mutcache, delete_cache and switch_memcache run one at a  *)
(* time and each is one atomic step.  The flush pipeline (compaction code, *)
(* not part of the repository) runs concurrently: it interleaves with      *)
(* those steps.  A reader clones the current SuperVersion between steps.   *)
(*                                                                         *)
(* A MemCache is an Arc<RwLock<MemCache>>: the model keeps every cache     *)
(* ever allocated in the sequence mem and refers to a cache by its index.  *)
(***************************************************************************)
EXTENDS MemCacheOps, FiniteSets

CONSTANTS
  Fields,              \* field ids
  Ts,                  \* timestamps a sample may carry
  FieldValueType,      \* the one value type written (types: see MemCache)
  MaxImmemcacheNum,    \* GLOBAL_CONFIG.max_immemcache_num
  InitMaxLevelTs,      \* the values version.max_level_ts may have when the
                       \* family is created (I64Min: nothing persisted yet)
  InitLastSeq,         \* version.last_seq when the family is created
  MaxPuts,             \* bound on put_mutcache calls
  MaxDeletes,          \* bound on delete_cache calls
  MaxSwitches,         \* bound on switch_memcache calls (0 disables it)
  ReceiverMayDrop      \* TRUE: the flush task's receiver may go away

ASSUME Ts \subseteq Int /\ \A t \in Ts : I64Min < t /\ t < I64Max
ASSUME InitMaxLevelTs \subseteq Ts \cup {I64Min}
ASSUME ReceiverMayDrop \in BOOLEAN
ASSUME MaxImmemcacheNum \in Nat \ {0} /\ MaxMemcacheCells \in Nat \ {0}

VARIABLES
  mem,        \* the MemCaches, indexed by allocation order
  tsf,        \* the TseriesFamily struct
  version,    \* the Version (max_level_ts, last_seq)
  flush_req,  \* FLUSH_REQ: the sequence of FlushReq, each a sequence of caches
  persisted,  \* cells the flush pipeline has written to files
  written,    \* history: every cell put_mutcache was given
  erased,     \* history: every written cell inside a range delete_cache was given
  ndelete,    \* number of delete_cache calls
  nswitch,    \* number of switch_memcache calls
  rx_alive    \* the flush task still holds the channel's receiver

vars == <<mem, tsf, version, flush_req, persisted, written, erased,
          ndelete, nswitch, rx_alive>>

Ranges == {[min_ts |-> a, max_ts |-> b] : a, b \in Ts}

Cell == [fid : Fields, ts : Ts, seq : 1..MaxPuts]
CacheId == 1..Len(mem)

(***************************************************************************)
(* The family's steps, as functions of the state record                    *)
(* [mem, tsf, version, flush_req, rx_alive, panicked], composed in the     *)
(* order the code runs them.  panicked marks a call that panicked: the     *)
(* steps after it in the same call do not run.                             *)
(***************************************************************************)

(* SuperVersion::new(id, delta_mut_cache, mut_cache, immut_cache,         *)
(* cur_version, opt, version_id); the family id, the Version handle and    *)
(* the options are the same in every SuperVersion and are left out.        *)
NewSuperVersion(delta_mut_cache, mut_cache, immut_cache, version_id) ==
  [delta_mut_cache |-> delta_mut_cache, mut_cache |-> mut_cache,
   immut_cache |-> immut_cache, version_id |-> version_id]

(* Version::new(id, last_seq, name, levels_info, max_level_ts), with the  *)
(* fields the family reads.                                                *)
NewVersion(last_seq, max_level_ts) == [last_seq |-> last_seq, max_level_ts |-> max_level_ts]

(* Mutation variant of PublishSuperVersion: the id read before fetch_add.  *)
PublishSuperVersionStaleId(t) ==
  [t EXCEPT !.super_version_id = @ + 1,
            !.super_version = NewSuperVersion(t.delta_mut_cache, t.mut_cache,
                                              t.immut_cache, t.super_version_id)]

(* SuperVersion::new over the family's current fields, after              *)
(* super_version_id.fetch_add(1).                                          *)
PublishSuperVersion(t) ==
  [t EXCEPT !.super_version_id = @ + 1,
            !.super_version = NewSuperVersion(t.delta_mut_cache, t.mut_cache,
                                              t.immut_cache, t.super_version_id + 1)]

(* TseriesFamily::switch_to_immutable: freeze the SuperVersion's mutable   *)
(* cache, push the family's mutable cache, allocate a fresh one, publish.  *)
SwitchToImmutableF(S) ==
  LET t  == S.tsf
      m1 == [S.mem EXCEPT ![t.super_version.mut_cache] = SwitchToImmutable(@)]
      m2 == Append(m1, NewMemCache(t.seq_no, FALSE))
  IN  [S EXCEPT !.mem = m2,
                !.tsf = PublishSuperVersion([t EXCEPT !.immut_cache = Append(@, t.mut_cache),
                                                      !.mut_cache = Len(m2)])]

(* sender.send(FLUSH_REQ.clone()).expect(...): panics when the receiver is *)
(* gone.                                                                   *)
SendFlushReq(S) == [S EXCEPT !.panicked = ~S.rx_alive]

(* Mutation variant of WrapDeltaFlushReq: the wake sent before the        *)
(* FlushReq is pushed.                                                     *)
WrapDeltaFlushReqSendFirst(S) ==
  LET t  == S.tsf
      m2 == Append(S.mem, NewMemCache(t.seq_no, TRUE))
      S1 == SendFlushReq([S EXCEPT !.mem = m2,
                           !.tsf = PublishSuperVersion([t EXCEPT !.delta_mut_cache = Len(m2)])])
  IN  IF S1.panicked THEN S1 ELSE [S1 EXCEPT !.flush_req = Append(@, <<t.delta_mut_cache>>)]

(* TseriesFamily::wrap_delta_flush_req: ship the delta cache as it is,     *)
(* allocate a fresh delta cache, publish, push the FlushReq, wake the      *)
(* flush task.                                                             *)
WrapDeltaFlushReq(S) ==
  LET t  == S.tsf
      m2 == Append(S.mem, NewMemCache(t.seq_no, TRUE))
  IN  SendFlushReq([S EXCEPT !.mem = m2,
                            !.tsf = PublishSuperVersion([t EXCEPT !.delta_mut_cache = Len(m2)]),
                            !.flush_req = Append(@, <<t.delta_mut_cache>>)])

WrapFlushReqNoClear(S) ==
  LET t == S.tsf
  IN  SendFlushReq([S EXCEPT !.tsf = PublishSuperVersion(t),
                             !.flush_req = Append(@, t.immut_cache)])

(* Mutation variant of WrapFlushReq: the queue replaced by the new        *)
(* request instead of appended to.                                         *)
WrapFlushReqOverwrite(S) ==
  LET t == S.tsf
  IN  SendFlushReq([S EXCEPT !.tsf = PublishSuperVersion([t EXCEPT !.immut_cache = <<>>]),
                             !.flush_req = <<t.immut_cache>>])

(* TseriesFamily::wrap_flush_req: ship every immutable cache, publish,     *)
(* push the FlushReq, wake the flush task.                                 *)
WrapFlushReq(S) ==
  LET t == S.tsf
  IN  SendFlushReq([S EXCEPT !.tsf = PublishSuperVersion([t EXCEPT !.immut_cache = <<>>]),
                             !.flush_req = Append(@, t.immut_cache)])

(* Mutation variant of RotateMutable: max_level_ts read from the          *)
(* watermark before it is advanced.                                        *)
RotateMutableStaleLevelTs(S) ==
  LET S1 == SwitchToImmutableF(S)
  IN  IF Len(S1.tsf.immut_cache) >= MaxImmemcacheNum
      THEN WrapFlushReq([S1 EXCEPT !.tsf.immut_ts_min = S1.tsf.mut_ts_max,
                                   !.version.max_level_ts = S1.tsf.immut_ts_min])
      ELSE S1

(* Lines 410-416: rotate, and once enough immutables are queued advance    *)
(* the watermark to mut_ts_max and hand them to flush.                     *)
RotateMutable(S) ==
  LET S1 == SwitchToImmutableF(S)
  IN  IF Len(S1.tsf.immut_cache) >= MaxImmemcacheNum
      THEN WrapFlushReq([S1 EXCEPT !.tsf.immut_ts_min = S1.tsf.mut_ts_max,
                                   !.version.max_level_ts = S1.tsf.mut_ts_max])
      ELSE S1

(* Mutation variant of BootstrapWatermark: keyed on mut_ts_max.           *)
BootstrapWatermarkOnMax(t, ts) == IF t.mut_ts_max = I64Min THEN ts ELSE t.immut_ts_min

(* Lines 391-393: the first sample sets the watermark from the i64::MIN    *)
(* sentinel.                                                               *)
BootstrapWatermark(t, ts) == IF t.immut_ts_min = I64Min THEN ts ELSE t.immut_ts_min

(* Mutation variant of InOrder: strictly above the watermark.             *)
InOrderStrict(ts, wm) == ts > wm

(* Line 395, and again line 405: a sample at or above the watermark is     *)
(* in order.                                                               *)
InOrder(ts, wm) == ts >= wm

(* Lines 391-404: bootstrap the watermark on the first sample, then route  *)
(* the sample by it: in-order into the SuperVersion's mutable cache        *)
(* (raising mut_ts_max), late into its delta cache.                        *)
AdmitSample(S, fid, ts, seq, cell) ==
  LET t0      == S.tsf
      wm      == BootstrapWatermark(t0, ts)
      target  == IF InOrder(ts, wm) THEN t0.super_version.mut_cache
                 ELSE t0.super_version.delta_mut_cache
  IN  [S EXCEPT !.tsf = [t0 EXCEPT !.immut_ts_min = wm,
                                   !.mut_ts_max = IF InOrder(ts, wm) /\ ts > @ THEN ts ELSE @],
                !.mem[target] = InsertRaw(@, seq, fid, cell, FieldValueType)]

(* TseriesFamily::put_mutcache(fid, val, dtype, seq, ts, sender): admit,   *)
(* ship the delta cache when an in-order sample finds it non-empty, rotate *)
(* a full mutable cache, ship a full delta cache.                          *)
PutMutcache(S, fid, ts, seq, cell) ==
  LET S1 == AdmitSample(S, fid, ts, seq, cell)
      S2 == IF InOrder(ts, S1.tsf.immut_ts_min)
               /\ DOMAIN S1.mem[S1.tsf.delta_mut_cache].data_cache # {}
            THEN WrapDeltaFlushReq(S1) ELSE S1
      S3 == IF ~S2.panicked /\ IsFull(S2.mem[S2.tsf.super_version.mut_cache])
            THEN RotateMutable(S2) ELSE S2
  IN  IF ~S3.panicked /\ IsFull(S3.mem[S3.tsf.super_version.delta_mut_cache])
      THEN WrapDeltaFlushReq(S3) ELSE S3

(* TseriesFamily::switch_memcache(cache): freeze the SuperVersion's        *)
(* mutable cache, push the family's, publish a SuperVersion built as       *)
(* SuperVersion::new(tf_id, cache, delta_mut_cache, ...), i.e. with the    *)
(* new cache in the delta slot and the delta cache in the mutable slot,    *)
(* then install cache as the family's mutable cache.                       *)
SwitchMemcache(S, cache) ==
  LET t  == S.tsf
      m1 == Append([S.mem EXCEPT ![t.super_version.mut_cache] = SwitchToImmutable(@)], cache)
      new == Len(m1)
      t1 == [t EXCEPT !.immut_cache = Append(@, t.mut_cache),
                      !.super_version_id = @ + 1]
  IN  [S EXCEPT !.mem = m1,
                !.tsf = [t1 EXCEPT !.super_version =
                           NewSuperVersion(new, t.delta_mut_cache, t1.immut_cache,
                                           t1.super_version_id),
                                   !.mut_cache = new]]

(* Mutation variant of DeleteCache: the loop over the immutable caches     *)
(* left out.                                                               *)
DeleteCacheSkipImmutables(m, t, r) ==
  LET ids == {t.mut_cache, t.delta_mut_cache}
      Del(mc) == [mc EXCEPT !.data_cache =
                    [f \in DOMAIN @ |-> IF EntryOverlap(@[f], r) THEN EntryDeleteRange(@[f], r)
                                        ELSE @[f]]]
  IN  [i \in DOMAIN m |-> IF i \in ids THEN Del(m[i]) ELSE m[i]]

(* TseriesFamily::delete_cache(range): in the family's mutable, delta and  *)
(* immutable caches, delete the range from every entry that overlaps it.   *)
DeleteCache(m, t, r) ==
  LET ids == {t.mut_cache, t.delta_mut_cache} \cup {t.immut_cache[i] : i \in DOMAIN t.immut_cache}
      Del(mc) == [mc EXCEPT !.data_cache =
                    [f \in DOMAIN @ |-> IF EntryOverlap(@[f], r) THEN EntryDeleteRange(@[f], r)
                                        ELSE @[f]]]
  IN  [i \in DOMAIN m |-> IF i \in ids THEN Del(m[i]) ELSE m[i]]

(***************************************************************************)
(* Specification                                                           *)
(***************************************************************************)

State == [mem |-> mem, tsf |-> tsf, version |-> version, flush_req |-> flush_req,
          rx_alive |-> rx_alive, panicked |-> FALSE]

Install(S) ==
  /\ mem' = S.mem
  /\ tsf' = S.tsf
  /\ version' = S.version
  /\ flush_req' = S.flush_req

(* TseriesFamily::new over a Version whose max_level_ts is lts, with a     *)
(* fresh mutable cache.                                                    *)
Init ==
  \E lts \in InitMaxLevelTs :
  /\ mem = <<NewMemCache(InitLastSeq, FALSE), NewMemCache(InitLastSeq, TRUE)>>
  /\ tsf = [mut_cache |-> 1, delta_mut_cache |-> 2, immut_cache |-> <<>>,
            super_version |-> NewSuperVersion(2, 1, <<>>, 0),
            super_version_id |-> 0, seq_no |-> InitLastSeq,
            immut_ts_min |-> lts, mut_ts_max |-> I64Min]
  /\ version = NewVersion(InitLastSeq, lts)
  /\ flush_req = <<>>
  /\ persisted = {}
  /\ written = {}
  /\ erased = {}
  /\ ndelete = 0
  /\ nswitch = 0
  /\ rx_alive = TRUE

(* A put of field fid at ts; the WAL sequence number is the put's rank.    *)
(* A put that panics in a send leaves the family as it was at the panic;   *)
(* its tokio RwLock is not poisoned, so later calls proceed.               *)
Put(fid, ts) ==
  LET seq  == InitLastSeq + Cardinality(written) + 1
      cell == [fid |-> fid, ts |-> ts, seq |-> Cardinality(written) + 1]
  IN  /\ Cardinality(written) < MaxPuts
      /\ Install(PutMutcache(State, fid, ts, seq, cell))
      /\ written' = written \cup {cell}
      /\ UNCHANGED <<persisted, erased, ndelete, nswitch, rx_alive>>

(* The cells of the family's caches and of queued requests.               *)
FamilyCaches == {tsf.mut_cache, tsf.delta_mut_cache}
                  \cup {tsf.immut_cache[i] : i \in DOMAIN tsf.immut_cache}
QueuedCaches == UNION {{flush_req[k][i] : i \in DOMAIN flush_req[k]} : k \in DOMAIN flush_req}
CellsIn(ids) == UNION {CellsOf(mem[i]) : i \in ids}

Delete(r) ==
  LET inR == {c \in written : r.min_ts <= c.ts /\ c.ts <= r.max_ts}
  IN  /\ ndelete < MaxDeletes
      /\ r.min_ts <= r.max_ts
      /\ mem' = DeleteCache(mem, tsf, r)
      /\ erased' = erased \cup inR
      /\ ndelete' = ndelete + 1
      /\ UNCHANGED <<tsf, version, flush_req, persisted, written, nswitch, rx_alive>>

(* An external caller installs a fresh mutable cache.                      *)
Switch ==
  /\ nswitch < MaxSwitches
  /\ Install(SwitchMemcache(State, NewMemCache(tsf.seq_no, FALSE)))
  /\ nswitch' = nswitch + 1
  /\ UNCHANGED <<persisted, written, erased, ndelete, rx_alive>>

(* The flush pipeline takes the oldest FlushReq and writes every cell of   *)
(* its caches to a file of the kind (delta or not) of the cache.           *)
Flush ==
  /\ rx_alive
  /\ flush_req # <<>>
  /\ persisted' = persisted \cup
       UNION {{[cell |-> c, is_delta |-> mem[i].is_delta] : c \in CellsOf(mem[i])}
                : i \in {Head(flush_req)[k] : k \in DOMAIN Head(flush_req)}}
  /\ flush_req' = Tail(flush_req)
  /\ UNCHANGED <<mem, tsf, version, written, erased, ndelete, nswitch, rx_alive>>

(* The flush task ends and drops the receiver (compaction code, outside    *)
(* the repository); nothing drains FLUSH_REQ any more.                     *)
DropReceiver ==
  /\ ReceiverMayDrop /\ rx_alive
  /\ rx_alive' = FALSE
  /\ UNCHANGED <<mem, tsf, version, flush_req, persisted, written, erased, ndelete, nswitch>>

(* The bounded client has made its last call and the queue is drained, or  *)
(* nothing can drain it: the family waits for the next call.               *)
Idle ==
  /\ Cardinality(written) = MaxPuts
  /\ flush_req = <<>> \/ ~rx_alive
  /\ UNCHANGED vars

Next ==
  \/ \E f \in Fields, t \in Ts : Put(f, t)
  \/ \E r \in Ranges : Delete(r)
  \/ Switch
  \/ Flush
  \/ DropReceiver
  \/ Idle

Spec == Init /\ [][Next]_vars

(* Each send of wrap_flush_req and wrap_delta_flush_req wakes the flush    *)
(* task over an unbounded channel; a task the runtime keeps scheduling     *)
(* takes every FlushReq that stays queued.  Nothing obliges the client to  *)
(* put, delete or switch.                                                  *)
FairSpec == Spec /\ WF_vars(Flush)

(***************************************************************************)
(* Properties                                                              *)
(***************************************************************************)

(* struct Version: the fields the family reads (id, name and the levels   *)
(* are left out).                                                          *)
VersionType == [last_seq : Nat, max_level_ts : Ts \cup {I64Min}]

(* struct SuperVersion: caches by index; cur_version and opt are shared   *)
(* with the family and left out.                                           *)
SuperVersionType ==
  [delta_mut_cache : CacheId, mut_cache : CacheId, immut_cache : Seq(CacheId), version_id : Nat]

(* struct TseriesFamily: caches by index; tf_id, version and opts are     *)
(* fixed and left out.                                                     *)
TseriesFamilyType ==
  [mut_cache : CacheId, delta_mut_cache : CacheId, immut_cache : Seq(CacheId),
   super_version : SuperVersionType, super_version_id : Nat, seq_no : Nat,
   immut_ts_min : Ts \cup {I64Min}, mut_ts_max : Ts \cup {I64Min}]

SVCaches(sv) == {sv.mut_cache, sv.delta_mut_cache} \cup {sv.immut_cache[i] : i \in DOMAIN sv.immut_cache}
PersistedCells == {p.cell : p \in persisted}

(* Every cache the family or the queue holds, in one sequence.             *)
Holders == <<tsf.mut_cache, tsf.delta_mut_cache>> \o tsf.immut_cache \o FlattenSeq(flush_req)

TypeOK ==
  /\ \A i \in CacheId : IsMemCache(mem[i], Fields, Cell, {FieldValueType})
  /\ tsf \in TseriesFamilyType
  /\ tsf.super_version.version_id = tsf.super_version_id
  /\ version \in VersionType
  /\ flush_req \in Seq(Seq(CacheId))
  /\ persisted \subseteq [cell : Cell, is_delta : BOOLEAN]
  /\ written \subseteq Cell

(* Spec 8.6: no put is lost.  Every written cell that no delete_cache      *)
(* range covered is in a cache the family holds, in a queued FlushReq, or  *)
(* in a flushed file, across rotations, delta and immutable dispatch and   *)
(* concurrent flushes.                                                     *)
NoWriteLost ==
  \A c \in written \ erased :
    c \in CellsIn(FamilyCaches) \cup CellsIn(QueuedCaches) \cup PersistedCells

(* A cache has one owner: it is at most once among the family's mutable,   *)
(* delta and immutable slots and the queued FlushReqs, so no cache is both *)
(* written to and handed to flush, and no cache is flushed twice.          *)
CacheHeldOnce ==
  \A i, j \in DOMAIN Holders : i # j => Holders[i] # Holders[j]

(* Spec 8.4 and 8.5: a late sample lands in the delta buffer and stays     *)
(* late.  Every cell of a delta cache, resident, queued or flushed to a    *)
(* delta file, is below the current watermark immut_ts_min; this needs the *)
(* routing test of put_mutcache and a watermark that never goes back.      *)
DeltaBelowWatermark ==
  /\ \A i \in FamilyCaches \cup QueuedCaches :
       mem[i].is_delta => \A c \in CellsOf(mem[i]) : c.ts < tsf.immut_ts_min
  /\ \A p \in persisted : p.is_delta => p.cell.ts < tsf.immut_ts_min

(* Spec 3 (Version) and 4.7.1 step 5: max_level_ts bounds what has been    *)
(* handed to the in-order flush, and the resident in-order caches hold     *)
(* nothing below the watermark: in-order cells queued or flushed are at    *)
(* most version.max_level_ts, those still resident at least immut_ts_min.  *)
ConsistentCut ==
  /\ \A i \in QueuedCaches :
       ~mem[i].is_delta => \A c \in CellsOf(mem[i]) : c.ts <= version.max_level_ts
  /\ \A p \in persisted : ~p.is_delta => p.cell.ts <= version.max_level_ts
  /\ \A i \in FamilyCaches :
       ~mem[i].is_delta => \A c \in CellsOf(mem[i]) : c.ts >= tsf.immut_ts_min

(* Spec 8.1 over every cache the family or the queue holds: each cell of  *)
(* an entry lies within the entry's [ts_min, ts_max], through inserts into *)
(* mutable and delta caches, delete_cache and the sort of a rotation.      *)
EntryBoundsCoverCells ==
  \A i \in FamilyCaches \cup QueuedCaches : \A f \in DOMAIN mem[i].data_cache :
    LET e == mem[i].data_cache[f]
    IN  \A k \in DOMAIN e.cells : e.ts_min <= e.cells[k].ts /\ e.cells[k].ts <= e.ts_max

(* Spec 8.5: immut_ts_min never moves backward.  Line 413 sets it to      *)
(* mut_ts_max when the immutables are dispatched; after switch_memcache    *)
(* has swapped the SuperVersion's slots, late puts can fill and rotate a   *)
(* cache while mut_ts_max is still i64::MIN (run family_switch_watermark). *)
WatermarkMonotone ==
  [][tsf.immut_ts_min' >= tsf.immut_ts_min]_vars

(* Spec 4.7.2 and scenario S6: late samples do not wait for the delta    *)
(* cache to fill.  When put_mutcache admits a sample in order (at or above *)
(* the watermark, bootstrapped on the first sample), the family's delta    *)
(* cache holds no cell once the call returns: whatever arrived late before *)
(* it has been handed to flush in the same call.                           *)
InOrderPutShipsLateData ==
  [][\A c \in written' \ written :
       c.ts >= (IF tsf.immut_ts_min = I64Min THEN c.ts ELSE tsf.immut_ts_min)
         => CellsOf(mem'[tsf'.delta_mut_cache]) = {}]_vars

(* Spec 8.2 and 3 (MemCache): a cache frozen by switch_to_immutable keeps  *)
(* every entry sorted by timestamp, i.e. nothing is inserted into it after *)
(* it was frozen.                                                          *)
FrozenCachesSorted ==
  \A i \in CacheId : mem[i].immutable => EntriesSorted(mem[i])

(* Spec 5 (ordering guarantees): a reader that clones the current          *)
(* SuperVersion sees every sample not deleted, in the caches it bundles or *)
(* in the files of the Version.                                            *)
ReadersSeeAllWrites ==
  \A c \in written \ erased :
    c \in CellsIn(SVCaches(tsf.super_version)) \cup PersistedCells

(* Spec 4.7.3 and 7 (a FlushReq is released when its flush completes):    *)
(* a sample in a cache of a queued FlushReq is eventually written to a     *)
(* file, however puts, rotations and delta dispatches append to FLUSH_REQ  *)
(* meanwhile.                                                              *)
ShippedEventuallyPersisted ==
  \A c \in Cell : c \in CellsIn(QueuedCaches) ~> c \in PersistedCells

(***************************************************************************)
(* Refinement: the family, its FLUSH_REQ queue and the flush task          *)
(* implement FlushPipeline.  A sample is live when it is in a cache the    *)
(* family holds, queued when it is in a cache of a queued FlushReq (one    *)
(* batch per FlushReq), and on disk when a flush has written it.           *)
(***************************************************************************)
FP == INSTANCE FlushPipeline
        WITH live    <- CellsIn(FamilyCaches),
             queue   <- [k \in DOMAIN flush_req |-> CellsIn(ToSet(flush_req[k]))],
             disk    <- PersistedCells,
             Samples <- Cell,
             Ranges  <- Ranges

(* Every put_mutcache, delete_cache, switch_memcache and flush step is a   *)
(* step of FlushPipeline: a put adds its sample to memory and hands whole  *)
(* caches to flush only at the end of FLUSH_REQ; a delete removes every    *)
(* resident sample in its range (through the entries' ts_min/ts_max test)  *)
(* and nothing queued; a queued FlushReq is never written to again and is  *)
(* flushed in queue order.                                                 *)
ImplementsFlushPipeline == FP!Spec
=============================================================================
