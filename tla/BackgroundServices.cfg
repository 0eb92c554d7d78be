CONSTANTS
  Events = {1, 2}
  Unhandled = {2}
  Workers = {w1, w2}
  MaxAttempts = 2
  BatchSize = 2
  Tickets = {t1, t2}
  SlaSweeps = {h1}
  BatchLimit = 1
  Pickups = {p1, p2}
  Screens = {q1}
  Syncs = {q2}
SPECIFICATION BackgroundSpec
CHECK_DEADLOCK FALSE
INVARIANTS
  BackgroundTypeOK
  NoOverlapWithinLease
  OneRefund
PROPERTIES
  LiveClaimIsOwned
  KeepsPromise
  EveryEventSettles
  OverdueIsEscalated
  RedeemedIsCleared
