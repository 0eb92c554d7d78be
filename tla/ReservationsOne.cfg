CONSTANTS
  o1 = o1
  r1 = r1
  r2 = r2
  m1 = m1
  Offers = {o1}
  Reservations = {r1}
  Merchants = {m1}
  OfferOf <- OneOffer
  MerchantOf <- OneMerchant
  Qty <- OneBagEach
  QtyTotal <- TwoBags
  Answers = {"paid", "mispaid", "failed"}
  Complaints = {r1}
  MaxCrashes = 2
SPECIFICATION FairSpec
CHECK_DEADLOCK FALSE
PROPERTIES
  KnownIntentResolves
  ConfirmedFinishes
  OwedRefundIsRecorded
  SettledStaysSettled
INVARIANTS
  PaymentAgrees
  NoDoubleRefund
  SettleableMoneyIsReal
  BooksFollowMoney
