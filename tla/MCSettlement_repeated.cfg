\* A credit note that names a SKU twice.
SPECIFICATION Spec
CONSTANTS
  o1 = o1
  o2 = o2
  k1 = k1
  k2 = k2
  r1 = r1
  r2 = r2
  NoSession = NoSession
  Order = {o1}
  Sku = {k1, k2}
  Session = {a, b}
  Reference = {r1, r2}
  Request <- Repeated
  Deposit <- NoDeposit
  Salesman <- MCSalesman
  NoSalesman = NoSalesman
  Creator <- MCCreator
  Bill <- MCBill
  Ordered <- MCOrdered
  Booking <- MCBooking
  Route <- MCRoute
  NoBeat = NoBeat
  EnteredOn <- MCEnteredOn
  Today = 10
  Closing = 1
INVARIANTS
  CreditWithinOrder
