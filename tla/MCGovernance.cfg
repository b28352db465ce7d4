SPECIFICATION Spec
CONSTANTS
  a1 = a1
  a2 = a2
  a3 = a3
  nobody = nobody
  Accounts = {a1, a2, a3}
  Calls <- MCCalls
  NoPrime = nobody
  MotionDuration = 1
  MaxProposals = 2
  Thresholds = {1, 2}
  MaxIndex = 2
  MaxBlock = 1
  EpochLength = 100
  DesignatedEpochSlots = 3
  EpochsPerYear = 52560
  MaxSwapQueueLength = 1000
  InitialTxRateLimit = 0
  MaximumHooksWeight = 2000
  MaxBlockWeight = 4000
  U32Max = 500000
  U64Max = 600000
  U128Max = 700000
SYMMETRY Symmetry
INVARIANT MotionsSound
PROPERTY CouncilGoverns
