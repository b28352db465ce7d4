SPECIFICATION OverwatchSpec
CONSTANTS
  a1 = a1
  a2 = a2
  a3 = a3
  s1 = s1
  NoKey = NoKey
  MaxBalance = 30000
  Accounts = {a1, a2, a3}
  Subnets = {s1}
  Validators = {1}
  LiveAtStart <- MCLive
  InitialBalance = 901
  ExistentialDeposit = 1
  MinDelegateStakeDeposit = 100
  TxRateLimit = 0
  EpochLength = 4
  DelegateStakeCooldownEpochs = 1
  MaxUnbondings = 1
  MaxSwapQueueLength = 2
  MaxSwapQueueCallsPerBlock = 1
  HookBudgets = {1}
  EmissionPlans <- NoPlans
  Amounts = {400}
  ShareAmounts = {400}
  OwnedTransfersOnly = TRUE
  FirstBlock = 5
  MaxBlock = 10
  MaxCalls = 4
  MaxPauses = 1
  FirstColdkey <- MCColdkey
  FirstHotkey <- MCHotkey
  FirstRate = 25
  FirstDelegate <- MCDelegate
  Full = 100
  MaxDelegateStakePercentage = 95
  MaxRewardRateDecrease = 5
  NodeRewardRateUpdatePeriod = 1
  RegisterRates = {25}
  NewRates = {20, 95}
  DelegateRates = {50}
  StakeCooldownEpochs = 0
  SubnetMinStakeBalance = 100
  SubnetMaxStakeBalance = 900
  BurnAmount = 10
  BaseSlashPercentage = 50
  MaxSlashAmount = 60
  FirstOwner <- MCOwner
  FirstStake = 200
  MaxNodes = 1
  StakeAmounts = {100}
  NodeRewards = {100}
  AttestationDeltas = {100}
  EvmWords = {100, 200000}
  StakePower <- Powers
  Multipliers = {1}
  Cutoffs = {50}
  OverwatchMinStakeBalance = 50
  MaxOverwatchNodes = 2
  OverwatchEpochEmissions = 10
  ValidatorReputation <- MCReputation
  OverwatchMinAge = 0
  OverwatchMinRepScore = 50
  OverwatchMinDiversificationRatio = 50
  OverwatchMinAvgAttestationRatio = 50
  FirstWatchers <- MCWatchers
  MaxWatchers = 3
  Weights = {40, 100, 101}
CHECK_DEADLOCK FALSE
INVARIANTS
  OverwatchAccounted
  RevealsHonest
  OverwatchPaidOnce
