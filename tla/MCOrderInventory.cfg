\* Two orders compete for batches that expire.
SPECIFICATION Spec
CONSTANTS
  s1 = s1
  s2 = s2
  NoSku = NoSku
  brand1 = brand1
  brand2 = brand2
  codeA = codeA
  shop1 = shop1
  driver1 = driver1
  NoDriver = NoDriver
  Sku <- MCSku
  Brand = {brand1, brand2}
  BrandOf <- MCBrandOf
  Code = {codeA}
  CodeOf <- MCCodeOf
  Order = {o1, o2}
  Retailer = {shop1}
  Driver = {driver1}
  Actor <- MCActor
  Carts <- MCCarts
  Receipts <- MCReceipts
  MaxBatch = 3
  MaxDay = 2
INVARIANTS
  TypeOK
  ReservedWithinStock
  TotalIsSumOfBatches
  ReservedIsSumOfBatches
  ReservedIsHeldByOpenOrders
  LedgerReproducesStock
  GoodsFollowStatus
  ReadyMeansFullyAllocated
  InvoicedIffDispatched
PROPERTIES
  FirstExpiryFirstOut
  NoExpiredDispatch
CHECK_DEADLOCK FALSE
