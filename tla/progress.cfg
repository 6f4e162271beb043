SPECIFICATION FairSpec
CONSTANTS
  g1 = g1
  g2 = g2
  m1 = m1
  m2 = m2
  TxGens <- OneGen
  Miners <- OneMiner
  MAX_VALIDATORS = 2
  TRANSACTION_POOL_SIZE = 1
  TRANSACTIONS_PER_BLOCK = 1
  BLOCKCHAIN_BLOCKS = 4
  AGING_PERIOD = 2
  PIPE_CAPACITY = 1
  STATISTICS_MQ_SIZE = 1
  Reward <- RewardOne
  MaxTx = 2
  MaxBlockNumber = 2
  Free = Free
  NoBlock = NoBlock
  NoHash = NoHash
  Genesis = Genesis
CHECK_DEADLOCK FALSE
PROPERTY MiningGoesOn LowLoadReleases
