CONSTANTS
  Tickets = {t1, t2}
  SlaSweeps = {h1}
  BatchLimit = 1
SPECIFICATION ComplaintsSpecAlive
CHECK_DEADLOCK FALSE
INVARIANTS
  ClaimedMeansRefunded
