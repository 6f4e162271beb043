SPECIFICATION Spec
CONSTANTS
  miner1 = miner1
  validator1 = validator1
  statistics1 = statistics1
  main1 = main1
  Threads <- FourThreads
  Role <- RolesOfFour
  SentTo <- OnlyValidator
CHECK_DEADLOCK FALSE
INVARIANTS NothingAbandoned
