---------------------------- MODULE MC_MemCache ----------------------------
(* One MemCache, two fields, three timestamps, two value types.            *)
EXTENDS MemCache

CONSTANTS f1, f2, Unsigned, Float

MC_Fields == {f1, f2}
MC_ValueTypes == {Unsigned, Float}
MC_I64Min == -100
MC_I64Max == 100
=============================================================================
