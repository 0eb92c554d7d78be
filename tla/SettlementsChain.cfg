CONSTANTS
  Reservations = {1, 2, 3, 4}
  Day <- ChainDay
  Gross <- ChainGross
  Fee <- ChainFee
  Today = 3
  PeriodOf <- ChainPeriodOf
  MembershipPrice = 0
  MaxBatches = 3
  Cycles = {n1}
  Executors = {}
  MaxUpsets = 0
  MaxDemand = 4
SPECIFICATION Spec
CHECK_DEADLOCK FALSE
INVARIANT CollectedOnce
