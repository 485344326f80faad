CONSTANTS
  U64 = U64
  F64 = F64
  NoneV = NoneV
  PanicV = PanicV
  None = NoneV
  Panic = PanicV
  Tags = {U64, F64}
  Ts = {1, 2, 3}
  Vals = {10, 20}
  MaxBlockLen = 3
  MaxBlocks = 3
  StrictInputs = TRUE
SPECIFICATION Spec
CHECK_DEADLOCK FALSE
INVARIANTS
  TypeOK
  MergeIsLastWriterWins
  ChunkRangeMatchesEncoding
