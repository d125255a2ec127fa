CONSTANTS
  Batch = {f1, f2, f3, f4, f5}
  Workers = {w1, w2}
  NoFile = NoFile
SPECIFICATION FairPoolSpec
INVARIANTS CommitIsComplete
PROPERTIES PoolEnds
CHECK_DEADLOCK FALSE
