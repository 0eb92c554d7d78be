CONSTANTS
  o1 = o1
  r1 = r1
  r2 = r2
  Transactions = {t1, t2, t3}
  Reservations = {r1, r2}
  Offers = {o1}
  OfferOf <- OneOffer
  Operations = {"create", "cancel", "settleSuccess", "expireAndRelease", "redeem", "noShow", "refund"}
  s1 = s1
  s2 = s2
  b1 = b1
  b2 = b2
  b3 = b3
  MaxTokens = 3
  MaxMishaps = 1
  Calls = {c1, c2}
  Engines = {e1}
  MaxCodes = 4
  OtpCalls = {k1, k2}
  OtpAttempts = 1
  LockoutThreshold = 2
  RatingIds = {1, 2, 3}
  Sale <- TwoSales
  RatingTxs = {x1, x2, x3}
  InvoiceIds = {1, 2, 3}
  Issuers = {d1, d2}
  MembershipToo = TRUE
  Admins = {a1, a2}
  FeeCents = 8
  FeeVatCents = 3
  VatBatches = {b1, b2, b3}
  YearOf <- TwoYears
  MaxYears = 2
SPECIFICATION RequestSpec
CHECK_DEADLOCK FALSE
INVARIANTS
  RequestTypeOK
  NoWaitCycle
  OneLiveToken
  KeepsItsSession
  RevokedFamilyStaysDead
  BurnBudget
  LockIsEarned
  AggregateIsFresh
  NoDeadlockAcrossSales
  OneDocument
  ActionedMeansDone
  VatConserved
  VatWithinAmount
