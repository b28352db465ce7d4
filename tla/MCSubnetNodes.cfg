SPECIFICATION Spec
CONSTANTS
  v1 = v1
  u1 = u1
  u2 = u2
  None = None
  Validators = {v1}
  Uniques = {}
  MinSubnetNodes = 1
  MaxSubnetNodes = 3
  MaxRegisteredNodes = 1
  ChurnLimit = 1
  ChurnLimitMultiplier = 1
  SubnetNodeQueueEpochs = 0
  QueueImmunityEpochs = 1
  IdleClassificationEpochs = 1
  IncludedClassificationEpochs = 2
  MinAttestation = 66
  SuperMajority = 88
  MinSubnetRegistrationEpochs = 0
  SubnetRegistrationEpochs = 0
  SubnetEnactmentEpochs = 1
  SubnetPauseCooldownEpochs = 1
  MaxEmergencySubnetNodes = 2
  TargetEmergencyEpochs = 1
  MaxEmergencyEpochs = 2
  QueuedUpdates = TRUE
  MaxUid = 3
  MaxEpoch = 7
  MaxPauses = 0
  MaxUpdates = 0
  MaxExpelled = 0
CHECK_DEADLOCK FALSE
INVARIANTS
  SlotsCoherent
  MapsAgree
  ElectedStays
  SnapshotFresh
PROPERTIES
  ClassLadder
  QueueWait
