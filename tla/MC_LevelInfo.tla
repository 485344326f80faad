---------------------------- MODULE MC_LevelInfo ----------------------------
(* LevelInfo for TLC: two file ids, small sizes, and a timestamp set with  *)
(* negative values (i64 timestamps before the epoch).                      *)
EXTENDS LevelInfo

CONSTANTS fa, fb

MC_FileIds == {fa, fb}
MC_TsSigned == {-2, 1, 3}
=============================================================================
