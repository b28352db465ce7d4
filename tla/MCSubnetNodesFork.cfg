SPECIFICATION Spec
CONSTANTS
  v1 = v1
  u1 = u1
  u2 = u2
  None = None
  Validators = {v1}
  Uniques = {u1}
  MinSubnetNodes = 1
  MaxSubnetNodes = 3
  MaxRegisteredNodes = 0
  ChurnLimit = 1
  ChurnLimitMultiplier = 1
  SubnetNodeQueueEpochs = 0
  QueueImmunityEpochs = 1
  IdleClassificationEpochs = 1
  IncludedClassificationEpochs = 1
  MinAttestation = 66
  SuperMajority = 88
  MinSubnetRegistrationEpochs = 0
  SubnetRegistrationEpochs = 0
  SubnetEnactmentEpochs = 1
  SubnetPauseCooldownEpochs = 1
  MaxEmergencySubnetNodes = 2
  TargetEmergencyEpochs = 1
  MaxEmergencyEpochs = 1
  QueuedUpdates = FALSE
  MaxUid = 2
  MaxEpoch = 4
  MaxPauses = 1
  MaxUpdates = 1
  MaxExpelled = 1
CHECK_DEADLOCK FALSE
INVARIANTS
  ElectedStays
  UniquesTruthful
