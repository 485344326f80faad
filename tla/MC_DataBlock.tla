--------------------------- MODULE MC_DataBlock ---------------------------
(* Up to three blocks of up to three cells over timestamps 1..3, two      *)
(* values and two variants.                                                *)
EXTENDS DataBlock

CONSTANTS U64, F64, NoneV, PanicV
=============================================================================
