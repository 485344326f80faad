---------------------------- MODULE MemCacheOps ----------------------------
(***************************************************************************)
(* The value-level operations of one MemCache (src/tskv/src/memcache.rs).  *)
(* A MemCache is a record; its data_cache maps a field id to a MemEntry    *)
(* record.  A cell is any record with a field ts: its payload is left to   *)
(* the caller (the decoding of the big-endian bytes by byte_utils is not   *)
(* part of the repository and is not modelled).  The cache_size counter   *)
(* counts inserted cells: size_of_val(&DataType) is the same for every     *)
(* variant, so the byte budget is a budget in cells.                       *)
(***************************************************************************)
EXTENDS Integers, Sequences, SequencesExt, TLC, TimeRange

CONSTANTS
  I64Min,            \* i64::MIN, below every timestamp of the model
  I64Max,            \* i64::MAX, above every timestamp of the model
  Unknown,           \* ValueType::Unknown, a model value
  MaxMemcacheCells   \* GLOBAL_CONFIG.max_memcache_size / size_of::<DataType>()

ASSUME MaxMemcacheCells \in Nat

(* MemEntry::default: empty bounds and no type yet.                        *)
DefaultMemEntry ==
  [ts_min |-> I64Max, ts_max |-> I64Min, field_type |-> Unknown, cells |-> <<>>]

(* struct MemEntry, over the cells and value types a model writes.        *)
MemEntryType(CellSet, VTs) ==
  [ts_min : Int, ts_max : Int, field_type : VTs, cells : Seq(CellSet)]

(* struct MemCache: data_cache maps some of the field ids to entries.     *)
(* tf_id and max_buf_size are the same for every cache of a model.        *)
IsMemCache(mc, Fs, CellSet, VTs) ==
  /\ mc.immutable \in BOOLEAN /\ mc.is_delta \in BOOLEAN
  /\ mc.seq_no \in Nat /\ mc.cache_size \in Nat
  /\ DOMAIN mc.data_cache \subseteq Fs
  /\ \A f \in DOMAIN mc.data_cache : mc.data_cache[f] \in MemEntryType(CellSet, VTs)

(* MemEntry overlap with a range: the entry's [ts_min, ts_max] overlaps r. *)
(* delete_cache calls it, but memcache.rs has no such method; the spec     *)
(* (4.1) defines it.                                                       *)
EntryOverlap(e, r) == Overlaps([min_ts |-> e.ts_min, max_ts |-> e.ts_max], r)

(* MemCache::new; is_delta is the fourth argument that tseries_family.rs   *)
(* passes.                                                                 *)
NewMemCache(seq, is_delta) ==
  [immutable |-> FALSE, seq_no |-> seq, is_delta |-> is_delta,
   data_cache |-> <<>>, cache_size |-> 0]

(* Mutation variant of Insert: the ts_min update guarded by the ts_max     *)
(* comparison.                                                             *)
InsertMinGuardFromMax(mc, fid, cell, vt) ==
  LET old  == IF fid \in DOMAIN mc.data_cache THEN mc.data_cache[fid]
              ELSE DefaultMemEntry
      item == [old EXCEPT !.ts_max = IF @ < cell.ts THEN cell.ts ELSE @,
                          !.ts_min = IF old.ts_max < cell.ts THEN cell.ts ELSE @,
                          !.field_type = vt,
                          !.cells = Append(@, cell)]
  IN  [mc EXCEPT !.data_cache = (fid :> item) @@ @,
                 !.cache_size = @ + 1]

(* MemCache::insert: locate or create the entry, widen its bounds,         *)
(* overwrite its type, count the cell and append it.  Nothing checks       *)
(* `immutable`.                                                            *)
Insert(mc, fid, cell, vt) ==
  LET old  == IF fid \in DOMAIN mc.data_cache THEN mc.data_cache[fid]
              ELSE DefaultMemEntry
      item == [old EXCEPT !.ts_max = IF @ < cell.ts THEN cell.ts ELSE @,
                          !.ts_min = IF @ > cell.ts THEN cell.ts ELSE @,
                          !.field_type = vt,
                          !.cells = Append(@, cell)]
  IN  [mc EXCEPT !.data_cache = (fid :> item) @@ @,
                 !.cache_size = @ + 1]

(* MemCache::insert_raw for a known value type: record the WAL sequence    *)
(* number, then insert.                                                    *)
InsertRaw(mc, seq, fid, cell, vt) ==
  Insert([mc EXCEPT !.seq_no = seq], fid, cell, vt)

(* MemEntry::delete_range: keep the cells outside the closed range r; the  *)
(* bounds are left as they are.                                            *)
EntryDeleteRange(e, r) ==
  [e EXCEPT !.cells = SelectSeq(@, LAMBDA c : c.ts < r.min_ts \/ c.ts > r.max_ts)]

(* MemEntry::read_cell(time_range): the cells it prints, in order; both    *)
(* bounds of the range are excluded, as written.                           *)
ReadCell(e, r) == SelectSeq(e.cells, LAMBDA c : c.ts > r.min_ts /\ c.ts < r.max_ts)

(* MemCache::delete_range: delegate to every listed field that is present. *)
DeleteRange(mc, fids, r) ==
  LET dc == mc.data_cache
  IN  [mc EXCEPT !.data_cache =
         [f \in DOMAIN dc |-> IF f \in fids THEN EntryDeleteRange(dc[f], r) ELSE dc[f]]]

(* The stable sort by timestamp of sort_by: the cells of each timestamp,   *)
(* in their order, for the timestamps in ascending order.                  *)
SortByTs(s) ==
  LET keys == SetToSortSeq({s[i].ts : i \in DOMAIN s}, <)
  IN  FlattenSeq([k \in DOMAIN keys |-> SelectSeq(s, LAMBDA c : c.ts = keys[k])])

(* Mutation variant of SwitchToImmutable: freeze without sorting.         *)
SwitchToImmutableUnsorted(mc) == [mc EXCEPT !.immutable = TRUE]

(* MemCache::switch_to_immutable: sort every entry, then freeze.           *)
SwitchToImmutable(mc) ==
  LET dc == mc.data_cache
  IN  [mc EXCEPT !.data_cache = [f \in DOMAIN dc |-> [dc[f] EXCEPT !.cells = SortByTs(@)]],
                 !.immutable = TRUE]

(* MemCache::is_full                                                       *)
IsFull(mc) == mc.cache_size >= MaxMemcacheCells

(* The cells of a cache, over all of its entries.                          *)
CellsOf(mc) ==
  UNION {{mc.data_cache[f].cells[i] : i \in DOMAIN mc.data_cache[f].cells}
           : f \in DOMAIN mc.data_cache}

(* Every entry's cells are in non-decreasing timestamp order.              *)
EntriesSorted(mc) ==
  \A f \in DOMAIN mc.data_cache :
    IsSorted([i \in DOMAIN mc.data_cache[f].cells |-> mc.data_cache[f].cells[i].ts], <=)
=============================================================================
