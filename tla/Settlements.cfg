CONSTANTS
  Reservations = {1, 2, 3}
  Day <- MCDay
  Gross <- MCGross
  Fee <- MCFee
  Today = 2
  PeriodOf <- MCPeriodOf
  MembershipPrice = 2
  MaxBatches = 2
  Cycles = {n1}
  Executors = {x1, x2}
  MaxUpsets = 1
  MaxDemand = 4
SPECIFICATION Spec
SYMMETRY MCSymmetry
CHECK_DEADLOCK FALSE
INVARIANTS
  TypeOK
  LedgerIdentity
  PaidBatchCountsItsLines
  CollectedIsCovered
  MembershipConserved
  PaidAsBooked
