------------------------------ MODULE MemCache ------------------------------
(***************************************************************************)
(* One MemCache (src/tskv/src/memcache.rs) driven through its public       *)
(* operations in any order: insert_raw, delete_range and                   *)
(* switch_to_immutable.  The caller's WAL sequence numbers increase.       *)
(***************************************************************************)
EXTENDS MemCacheOps, FiniteSets

CONSTANTS
  Fields,       \* field ids
  Ts,           \* timestamps a sample may carry
  ValueTypes,   \* the known value types (Unsigned, Integer, Float, ...)
  MaxInserts    \* bound on the number of insert_raw calls

ASSUME Ts \subseteq Int /\ \A t \in Ts : I64Min < t /\ t < I64Max
ASSUME Unknown \notin ValueTypes

VARIABLES
  cache,   \* the MemCache value
  nseq     \* the WAL sequence number of the last insert_raw

vars == <<cache, nseq>>

(* The closed ranges a caller may delete.                                  *)
Ranges == {[min_ts |-> a, max_ts |-> b] : a, b \in Ts}

(* A DataType value: its variant (vt), its DataCell ts, and a payload that *)
(* only tells the WAL entry it came from (seq).                            *)
Cell == [ts : Ts, seq : 1..MaxInserts, vt : ValueTypes]

TypeOK ==
  /\ nseq \in 0..MaxInserts
  /\ IsMemCache(cache, Fields, Cell, ValueTypes)
  /\ cache.cache_size <= MaxInserts

Init ==
  /\ cache = NewMemCache(0, FALSE)
  /\ nseq = 0

(* insert_raw(seq, fid, ts, vt, buf) with a known value type: the decoded  *)
(* cell carries its variant vt and, as its value, the call's sequence      *)
(* number.                                                                 *)
InsertRawStep(fid, ts, vt) ==
  /\ nseq < MaxInserts
  /\ nseq' = nseq + 1
  /\ cache' = InsertRaw(cache, nseq', fid, [ts |-> ts, seq |-> nseq', vt |-> vt], vt)

DeleteRangeStep(fids, r) ==
  /\ cache' = DeleteRange(cache, fids, r)
  /\ UNCHANGED nseq

SwitchToImmutableStep ==
  /\ cache' = SwitchToImmutable(cache)
  /\ UNCHANGED nseq

Next ==
  \/ \E f \in Fields, t \in Ts, vt \in ValueTypes : InsertRawStep(f, t, vt)
  \/ \E fids \in SUBSET Fields, r \in Ranges : DeleteRangeStep(fids, r)
  \/ SwitchToImmutableStep

Spec == Init /\ [][Next]_vars

(***************************************************************************)
(* Properties                                                              *)
(***************************************************************************)

(* Spec 8.1, second half, and 4.1 ("set/validate field_type"): the tag of  *)
(* every cell of an entry is the entry's field_type.  MemCache::insert     *)
(* overwrites field_type without comparing it.                             *)
EntryTypeMatchesCells ==
  \A f \in DOMAIN cache.data_cache :
    LET e == cache.data_cache[f]
    IN  \A i \in DOMAIN e.cells : e.cells[i].vt = e.field_type
=============================================================================
