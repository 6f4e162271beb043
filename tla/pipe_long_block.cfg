SPECIFICATION Spec
CONSTANTS
  m1 = m1
  m2 = m2
  v1 = v1
  v2 = v2
  Writers <- OneMiner
  Readers <- OneValidator
  TRANSACTIONS_PER_BLOCK = 50
  PIPE_BUF = 4096
  PIPE_SIZE = 65536
  MaxFrames = 16
CHECK_DEADLOCK FALSE
INVARIANT ReadWhole
