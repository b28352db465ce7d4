SPECIFICATION Spec
CONSTANTS
  a1 = a1
  a2 = a2
  n1 = n1
  n2 = n2
  Accounts = {a1, a2}
  Names = {n1, n2}
  EpochLength = 5
  DesignatedEpochSlots = 3
  MaxSubnets = 1
  MinSubnetRegistrationEpochs = 0
  SubnetRegistrationEpochs = 0
  SubnetEnactmentEpochs = 1
  MaxSubnetPauseEpochs = 0
  SubnetPauseCooldownEpochs = 1
  DelegateStakeSubnetRemovalInterval = 2
  MaxSubnetRemovalInterval = 2
  MinSubnetRemovalInterval = 1
  Stakes = {0, 1}
  MinSubnetDelegateStake = 1
  MinSubnetReputation = 30
  MaxPauseEpochsFactor = 60
  LessThanMinNodesFactor = 60
  ValidatorAbsentFactor = 60
  NotInConsensusFactor = 60
  Ratios = {0}
  Raised = {100}
  Traded = {1}
  MaxUid = 2
  MaxEpoch = 4
SYMMETRY Symmetry
CHECK_DEADLOCK FALSE
INVARIANTS
  TypeOK
  DirectoriesAgree
  SubnetTotals
  LivesOnce
  OffersStand
  RegistrationEnds
  PauseEnds
