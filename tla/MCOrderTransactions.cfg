\* Two fair workers, two orders that name the same products in opposite order.
SPECIFICATION FairSpec
CONSTANTS
  s1 = s1
  s2 = s2
  o1 = o1
  o2 = o2
  NoSku = NoSku
  NoRequest = NoRequest
  Sku <- MCSku
  Order = {o1, o2}
  LinesOf <- Crossing
  Receipts <- MCReceipts
  MaxBatch = 3
  Request = {t1, t2}
PROPERTIES
  RequestsAreAtomic
  EveryRequestEnds
CHECK_DEADLOCK FALSE
