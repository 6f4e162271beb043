SPECIFICATION Spec
CONSTANTS
  m1 = m1
  m2 = m2
  Miners <- TwoMiners
  Auxiliary <- OneAdded
  PIPE_CAPACITY = 1
  BLOCKCHAIN_BLOCKS = 2
  MaxBlocks = 2
CHECK_DEADLOCK FALSE
INVARIANTS ShutdownTypeOK ReaderOutlivesWriters ReleasedLast
SYMMETRY MinerSymmetry
