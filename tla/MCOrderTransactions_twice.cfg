\* An order booked with two lines of one product.
SPECIFICATION Spec
CONSTANTS
  s1 = s1
  s2 = s2
  o1 = o1
  o2 = o2
  NoSku = NoSku
  NoRequest = NoRequest
  Sku <- MCSku
  Order = {o1}
  LinesOf <- Twice
  Receipts <- TwoOfOne
  MaxBatch = 1
  Request = {t1}
INVARIANT
  TotalIsSumOfBatches
CHECK_DEADLOCK FALSE
