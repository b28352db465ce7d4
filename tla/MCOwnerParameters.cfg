SPECIFICATION Spec
CONSTANTS
  s1 = s1
  owner = owner
  other = other
  EpochLength = 100
  DesignatedEpochSlots = 3
  EpochsPerYear = 52560
  MaxSwapQueueLength = 1000
  InitialTxRateLimit = 0
  MaximumHooksWeight = 2000
  MaxBlockWeight = 4000
  U32Max = 500000
  U64Max = 600000
  U128Max = 700000
  Subnets = {s1}
  Accounts = {owner, other}
  OwnerOf <- MCOwnerOf
  SubnetSlot <- MCSlot
  StartBlock = 15005
  SubnetOwnerFactorCooldownEpochs = 1
  Values = {0, 1, 60, 1000, 700000}
  EvmValues = {60, 1000, 500001, 700001}
  FactorValues = {60, 501}
  TouchedFactors = {"absent_decrease", "included_increase"}
  Votes <- MCVotes
  Deep = {"set_min_subnet_registration_epochs", "set_subnet_registration_epochs",
          "set_min_max_registered_nodes", "owner_update_max_registered_nodes",
          "owner_update_target_node_registrations_per_epoch",
          "owner_update_reputation_factors",
          "set_network_max_stake_balance", "owner_update_min_max_stake"}
  Budget = 3
  MaxEpochs = 2
CHECK_DEADLOCK FALSE
INVARIANT ParametersSound
PROPERTIES
  RegistrationRatchet
  FactorsStandForEpoch
  PenaltiesFrozen
