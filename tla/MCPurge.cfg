\* Two orders, receipts before and after the migration, two days, every purge mode.
SPECIFICATION PurgeSpec
CONSTANTS
  s1 = s1
  NoSku = NoSku
  brand1 = brand1
  codeA = codeA
  shop1 = shop1
  driver1 = driver1
  NoDriver = NoDriver
  Sku = {s1}
  Brand = {brand1}
  BrandOf <- MCBrandOf
  Code = {codeA}
  CodeOf <- MCCodeOf
  Order = {o1, o2}
  Retailer = {shop1}
  Driver = {driver1}
  Actor <- MCActor
  Carts <- MCCarts
  Receipts <- MCReceipts
  MaxBatch = 2
  MaxDay = 1
SYMMETRY Symmetry
INVARIANTS
  RetailerCancelsBeforeDispatch
  LedgerReproducesTotals
PROPERTIES
  RestoreUndoesOrders
CHECK_DEADLOCK FALSE
