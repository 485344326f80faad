------------------------- MODULE MC_TseriesFamily -------------------------
(* One family, one field, timestamps 1..3.  A cache is full after two      *)
(* cells and two immutables trigger the in-order flush, so six puts reach  *)
(* a delta flush, two rotations and the watermark advance.                 *)
EXTENDS TseriesFamily

CONSTANTS f1, Float, MemUnknown

MC_I64Min == -100
MC_I64Max == 100
MC_InitMaxLevelTs == {MC_I64Min, 2}
=============================================================================
