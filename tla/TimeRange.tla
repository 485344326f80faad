------------------------------ MODULE TimeRange ------------------------------
(***************************************************************************)
(* TimeRange of src/tskv/src/tseries_family.rs: a closed range of          *)
(* timestamps, a record [min_ts, max_ts].                                  *)
(***************************************************************************)

EXTENDS Integers

(* TimeRange::new(max_ts, min_ts): note the order of the arguments.        *)
NewTimeRange(max_ts, min_ts) == [min_ts |-> min_ts, max_ts |-> max_ts]

(* TimeRange::overlaps: the closed ranges a and b share a timestamp.       *)
Overlaps(a, b) == ~(a.min_ts > b.max_ts \/ a.max_ts < b.min_ts)
=============================================================================
