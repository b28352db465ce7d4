SPECIFICATION Spec
CONSTANTS
  a1 = a1
  a2 = a2
  s1 = s1
  v1 = v1
  v2 = v2
  MaxBalance = 1000000000
  Accounts = {a1, a2}
  Subnets = {s1}
  Validators = {v1}
  LiveAtStart <- MCLive
  InitialBalance = 901
  ExistentialDeposit = 1
  MinDelegateStakeDeposit = 100
  TxRateLimit = 0
  EpochLength = 4
  DelegateStakeCooldownEpochs = 1
  MaxUnbondings = 1
  MaxSwapQueueLength = 2
  MaxSwapQueueCallsPerBlock = 1
  HookBudgets = {0, 1}
  EmissionPlans <- MCPlans
  Amounts = {400}
  ShareAmounts = {1, 400}
  OwnedTransfersOnly = FALSE
  FirstBlock = 5
  MaxBlock = 10
  MaxCalls = 4
  MaxPauses = 0
CHECK_DEADLOCK FALSE
SYMMETRY Symmetry
INVARIANT SharesBacked
