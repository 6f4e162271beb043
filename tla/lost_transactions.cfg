SPECIFICATION Spec
CONSTANTS
  g1 = g1
  g2 = g2
  m1 = m1
  m2 = m2
  TxGens <- OneGen
  Miners <- TwoMiners
  MAX_VALIDATORS = 2
  TRANSACTION_POOL_SIZE = 2
  TRANSACTIONS_PER_BLOCK = 1
  BLOCKCHAIN_BLOCKS = 3
  AGING_PERIOD = 2
  PIPE_CAPACITY = 2
  STATISTICS_MQ_SIZE = 1
  Reward <- RewardOne
  MaxTx = 2
  MaxBlockNumber = 1
  Free = Free
  NoBlock = NoBlock
  NoHash = NoHash
  Genesis = Genesis
SYMMETRY MinerSymmetry
VIEW CoreView
CHECK_DEADLOCK FALSE
INVARIANT NoTransactionLost
