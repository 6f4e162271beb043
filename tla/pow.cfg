SPECIFICATION FairPoWSpec
CONSTANTS
  POW_MAX_OPS = 2
  TRANSACTIONS_PER_BLOCK = 2
  Hashes <- SampleHashes
  Rewards <- SampleRewards
INVARIANTS
  PoWTypeOK
  SmallestNonce
  GivesUpOnlyWhenNone
  DifficultyIsThreshold
PROPERTY SearchEnds
CHECK_DEADLOCK FALSE
