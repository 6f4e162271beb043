SPECIFICATION FairSpec
CONSTANTS
  m1 = m1
  m2 = m2
  v1 = v1
  v2 = v2
  Writers <- TwoMiners
  Readers <- TwoValidators
  TRANSACTIONS_PER_BLOCK = 49
  PIPE_BUF = 4096
  PIPE_SIZE = 8192
  MaxFrames = 2
CHECK_DEADLOCK FALSE
INVARIANTS PipeTypeOK ReadWhole NoReaderBreaks
PROPERTY EventuallyRead
