SPECIFICATION FairSpec
CONSTANTS
  Ids = {1, 2, 3, 4}
  Delay = 3
  Capacity = 3
  PerBlock = 2
  Budgets = {0, 1, 2}
PROPERTY SwapsLeave
