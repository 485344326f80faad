------------------------------ MODULE LevelInfo ------------------------------
(***************************************************************************)
(* One on-disk tier of a time-series family (src/tskv/src/tseries_family.rs,*)
(* LevelInfo) and the ColumnFile handles it holds.  Files arrive by        *)
(* LevelInfo::apply with the CompactMeta the flush or compaction code      *)
(* produces; compaction marks a file with mark_compaction and, when it is  *)
(* replaced, with mark_removed.  Readers scan the level with               *)
(* read_columnfile.                                                        *)
(*                                                                         *)
(* A ColumnFile is a record.  Its bloom filter, its path and the codec     *)
(* that streams its blocks are left out; the index it was written with is  *)
(* taken to hold one block of the field read, spanning the file's range.   *)
(***************************************************************************)
EXTENDS Integers, Sequences, SequencesExt, FiniteSets, TimeRange

CONSTANTS
  FileIds,    \* ColumnFileId values a CompactMeta may carry
  Ts,         \* timestamps of the files (i64: negative values allowed)
  Sizes,      \* file sizes
  MaxFiles    \* bound on the number of apply calls

ASSUME MaxFiles \in Nat /\ Sizes \subseteq Nat

(* The CompactMeta values apply may be given.                              *)
CompactMeta ==
  {m \in [file_id : FileIds, ts_min : Ts, ts_max : Ts, file_size : Sizes, is_delta : BOOLEAN] :
     m.ts_min <= m.ts_max}

(* The closed ranges a reader may ask for.                                 *)
Queries == {r \in [min_ts : Ts, max_ts : Ts] : r.min_ts <= r.max_ts}

(* struct ColumnFile: its bloom filter is left out; its range is a        *)
(* TimeRange with min_ts <= max_ts.                                        *)
ColumnFileType ==
  [file_id : FileIds, being_compact : BOOLEAN, deleted : BOOLEAN,
   range : Queries, size : Sizes, is_delta : BOOLEAN]

VARIABLES
  files,      \* LevelInfo.files, a sequence of ColumnFile records
  cur_size,   \* LevelInfo.cur_size
  ts_range    \* LevelInfo.ts_range

vars == <<files, cur_size, ts_range>>

(* LevelInfo::init: no files, cur_size 0, ts_range [0, 0].                 *)
Init ==
  /\ files = <<>>
  /\ cur_size = 0
  /\ ts_range = NewTimeRange(0, 0)

(* Mutation variant of ApplyRange: the upper bound taken from ts_min.     *)
ApplyRangeMaxFromMin(tr, delta) ==
  [max_ts |-> IF tr.max_ts < delta.ts_max THEN delta.ts_min ELSE tr.max_ts,
   min_ts |-> IF tr.min_ts > delta.ts_max THEN delta.ts_min ELSE tr.min_ts]

(* Lines 162-167: widen the level's range; the lower bound is tested       *)
(* against delta.ts_max, as written.                                       *)
ApplyRange(tr, delta) ==
  [max_ts |-> IF tr.max_ts < delta.ts_max THEN delta.ts_max ELSE tr.max_ts,
   min_ts |-> IF tr.min_ts > delta.ts_max THEN delta.ts_min ELSE tr.min_ts]

(* Mutation variant of NewColumnFile: TimeRange::new given (ts_min,       *)
(* ts_max).                                                                *)
NewColumnFileSwappedRange(delta) ==
  [file_id |-> delta.file_id, being_compact |-> FALSE, deleted |-> FALSE,
   range |-> NewTimeRange(delta.ts_min, delta.ts_max),
   size |-> delta.file_size, is_delta |-> delta.is_delta]

(* Lines 154-160: the ColumnFile apply pushes, flags false, its range     *)
(* TimeRange::new(delta.ts_max, delta.ts_min).                             *)
NewColumnFile(delta) ==
  [file_id |-> delta.file_id, being_compact |-> FALSE, deleted |-> FALSE,
   range |-> NewTimeRange(delta.ts_max, delta.ts_min),
   size |-> delta.file_size, is_delta |-> delta.is_delta]

(* LevelInfo::apply(delta): push a fresh ColumnFile, add its size, widen   *)
(* the range.  A file id is applied once.                                  *)
Apply(delta) ==
  /\ Len(files) < MaxFiles
  /\ \A i \in DOMAIN files : files[i].file_id # delta.file_id
  /\ files' = Append(files, NewColumnFile(delta))
  /\ cur_size' = cur_size + delta.file_size
  /\ ts_range' = ApplyRange(ts_range, delta)

(* ColumnFile::mark_compaction, a release store of true.                   *)
MarkCompaction(i) ==
  /\ files' = [files EXCEPT ![i].being_compact = TRUE]
  /\ UNCHANGED <<cur_size, ts_range>>

(* ColumnFile::mark_removed, a release store of true; the level keeps the  *)
(* file and its size.                                                      *)
MarkRemoved(i) ==
  /\ files' = [files EXCEPT ![i].deleted = TRUE]
  /\ UNCHANGED <<cur_size, ts_range>>

Next ==
  \/ \E m \in CompactMeta : Apply(m)
  \/ \E i \in DOMAIN files : MarkCompaction(i)
  \/ \E i \in DOMAIN files : MarkRemoved(i)

Spec == Init /\ [][Next]_vars

(***************************************************************************)
(* Reads                                                                   *)
(***************************************************************************)

(* The index-block test of read_columnfile (line 183), with strict         *)
(* comparisons as written.                                                 *)
BlockSelected(blk, q) == blk.min_ts < q.max_ts /\ blk.max_ts > q.min_ts

(* LevelInfo::read_columnfile(tf_id, field_id, q): the files whose blocks  *)
(* are streamed.  A deleted file, or one whose range (ColumnFile::overlap) *)
(* misses q, is skipped; of the rest, the blocks that pass the block test  *)
(* are streamed.                                                           *)
ScanLevel(fs, q) ==
  {fs[i].file_id : i \in {k \in DOMAIN fs : /\ ~fs[k].deleted
                                           /\ Overlaps(fs[k].range, q)
                                           /\ BlockSelected(fs[k].range, q)}}

(***************************************************************************)
(* Properties                                                              *)
(***************************************************************************)

TypeOK ==
  /\ files \in Seq(ColumnFileType)
  /\ Len(files) <= MaxFiles
  /\ cur_size \in Nat
  /\ ts_range \in [min_ts : Ts \cup {0}, max_ts : Ts \cup {0}]

(* Spec 3 (LevelInfo, "aggregate ts_range") and 4.5: the level's ts_range *)
(* covers the range of every file apply added, so a reader may skip a      *)
(* level whose ts_range misses its query.  Needs both bounds of apply      *)
(* right over every sequence of apply calls.                               *)
LevelRangeCoversFiles ==
  \A i \in DOMAIN files :
    ts_range.min_ts <= files[i].range.min_ts /\ files[i].range.max_ts <= ts_range.max_ts

(* Spec 4.5: a read of range q streams every block of every file not       *)
(* deleted whose [min_ts, max_ts] shares a timestamp with q.               *)
ReadScansOverlappingBlocks ==
  \A q \in Queries :
    {files[i].file_id : i \in {k \in DOMAIN files : ~files[k].deleted /\ Overlaps(files[k].range, q)}}
      \subseteq ScanLevel(files, q)
=============================================================================
