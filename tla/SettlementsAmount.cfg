CONSTANTS
  Reservations = {1, 2, 3}
  Day <- MCDay
  Gross <- MCGross
  Fee <- MCFee
  Today = 2
  PeriodOf <- MCPeriodOf
  MembershipPrice = 2
  MaxBatches = 2
  Cycles = {n1}
  Executors = {x1}
  MaxUpsets = 1
  MaxDemand = 4
SPECIFICATION Spec
CHECK_DEADLOCK FALSE
INVARIANT AmountIsFrozen
