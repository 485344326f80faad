\* Non-negative timestamps.  A level stops changing when no more files are
\* flushed or compacted into it, so a final state is not a deadlock.
CONSTANTS
  fa = fa
  fb = fb
  FileIds <- MC_FileIds
  Ts = {1, 2, 3}
  Sizes = {1, 2}
  MaxFiles = 2
SPECIFICATION Spec
CHECK_DEADLOCK FALSE
INVARIANTS
  TypeOK
