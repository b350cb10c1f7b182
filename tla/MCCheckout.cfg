\* Three sessions: carts of two shops and a guest, edits of SKUs and settings,
\* a reservation, and the deletion of an address.
SPECIFICATION Spec
CONSTANTS
  raj = raj
  sid = sid
  uma = uma
  sam = sam
  chips = chips
  nuts = nuts
  north = north
  south = south
  Mobile = {raj, sid, uma}
  NoMobile = NoMobile
  Salesman = {sam}
  NoSalesman = NoSalesman
  MaxShop = 2
  MaxAddress = 3
  Session = {a, b, c}
  NoSession = NoSession
  Request <- MCRequests
  FirstShops <- MCShops
  FirstUsers <- MCUsers
  FirstAddresses <- MCAddresses
  Sku = {chips, nuts}
  MaxLine = 999
  Warehouse = {north, south}
  Closed = Closed
  OtherState <- MCOther
  FirstSkus <- MCSkus
  FirstBatches <- MCBatches
  FirstSettings <- MCSettings
  MaxOrder = 3
SYMMETRY Symmetry
INVARIANTS
  QuoteIsOrdered
  InvoiceAddsUp
  OrderFitsStock
  OrderDeliversToItsShop
CHECK_DEADLOCK FALSE
