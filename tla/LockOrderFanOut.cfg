CONSTANTS
  o1 = o1
  r1 = r1
  r2 = r2
  t1 = t1
  t2 = t2
  t3 = t3
  Transactions = {t1, t2}
  Reservations = {r1, r2}
  Offers = {o1}
  OfferOf <- OneOffer
  Operations = {"expireAndRelease", "cancelOne"}
SPECIFICATION Spec
SYMMETRY Symmetry
INVARIANTS
  NoWaitCycle
