CONSTANTS
  o1 = o1
  r1 = r1
  r2 = r2
  big = big
  m1 = m1
  Offers = {o1}
  Reservations = {r1, r2, big}
  Merchants = {m1}
  OfferOf <- OneOffer
  MerchantOf <- OneMerchant
  Qty <- ShelfQty
  QtyTotal <- TwoBags
  Answers = {"paid", "failed"}
  Complaints = {}
  MaxCrashes = 0
SPECIFICATION ShelfSpec
SYMMETRY ShelfSymmetry
CHECK_DEADLOCK FALSE
INVARIANTS
  TypeOK
  StockConservation
  SoldOutIffFull
  RedeemedCount
PROPERTIES
  ImplementsInventory
