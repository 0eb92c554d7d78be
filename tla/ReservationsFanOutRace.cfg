CONSTANTS
  o1 = o1
  r1 = r1
  r2 = r2
  m1 = m1
  Offers = {o1}
  Reservations = {r1}
  Merchants = {m1}
  OfferOf <- OneOffer
  MerchantOf <- OneMerchant
  Qty <- OneBagEach
  QtyTotal <- TwoBags
  Answers = {"paid", "mispaid", "failed"}
  Complaints = {}
  MaxCrashes = 0
SPECIFICATION Spec
CHECK_DEADLOCK FALSE
PROPERTIES
  CancelLeavesNothingHeld
