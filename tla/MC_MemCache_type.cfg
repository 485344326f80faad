CONSTANTS
  f1 = f1
  f2 = f2
  Unsigned = Unsigned
  Float = Float
  Unknown = Unknown
  Fields <- MC_Fields
  ValueTypes <- MC_ValueTypes
  Ts = {1, 2, 3}
  I64Min <- MC_I64Min
  I64Max <- MC_I64Max
  MaxMemcacheCells = 3
  MaxInserts = 3
SPECIFICATION Spec
INVARIANTS
  EntryTypeMatchesCells
