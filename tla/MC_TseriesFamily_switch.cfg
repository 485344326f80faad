CONSTANTS
  f1 = f1
  Float = Float
  Unknown = MemUnknown
  MemUnknown = MemUnknown
  FieldValueType = Float
  Fields = {f1}
  Ts = {1, 2, 3}
  I64Min <- MC_I64Min
  I64Max <- MC_I64Max
  InitMaxLevelTs <- MC_InitMaxLevelTs
  InitLastSeq = 0
  MaxMemcacheCells = 2
  MaxImmemcacheNum = 2
  MaxPuts = 5
  MaxDeletes = 1
  MaxSwitches = 1
  ReceiverMayDrop = TRUE
SPECIFICATION Spec
INVARIANTS
  NoWriteLost
  CacheHeldOnce
PROPERTIES
  ImplementsFlushPipeline
