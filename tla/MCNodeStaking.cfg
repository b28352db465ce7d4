SPECIFICATION NodeSpec
CONSTANTS
  a1 = a1
  a2 = a2
  a3 = a3
  s1 = s1
  NoKey = NoKey
  MaxBalance = 30000
  Accounts = {a1, a2, a3}
  Subnets = {s1}
  Validators = {1, 2}
  LiveAtStart <- MCLive
  InitialBalance = 901
  ExistentialDeposit = 1
  MinDelegateStakeDeposit = 100
  TxRateLimit = 0
  EpochLength = 4
  DelegateStakeCooldownEpochs = 1
  MaxUnbondings = 1
  MaxSwapQueueLength = 2
  MaxSwapQueueCallsPerBlock = 1
  HookBudgets = {1}
  EmissionPlans <- NoPlans
  Amounts = {400}
  ShareAmounts = {400}
  OwnedTransfersOnly = TRUE
  FirstBlock = 6
  MaxBlock = 8
  MaxCalls = 3
  MaxPauses = 0
  FirstColdkey <- MCColdkey
  FirstHotkey <- MCHotkey
  FirstRate = 25
  FirstDelegate <- MCDelegate
  Full = 100
  MaxDelegateStakePercentage = 95
  MaxRewardRateDecrease = 5
  NodeRewardRateUpdatePeriod = 1
  RegisterRates = {200}
  NewRates = {20}
  DelegateRates = {50}
  StakeCooldownEpochs = 0
  SubnetMinStakeBalance = 100
  SubnetMaxStakeBalance = 900
  BurnAmount = 10
  BaseSlashPercentage = 50
  MaxSlashAmount = 60
  FirstOwner <- MCOwner
  FirstStake = 200
  MaxNodes = 2
  StakeAmounts = {200}
  NodeRewards = {600}
  AttestationDeltas = {100}
  EvmWords = {400, 200000}
CHECK_DEADLOCK FALSE
INVARIANTS
  KeysAgree
  StakesAccounted
  StakeReachable
