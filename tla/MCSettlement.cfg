\* Three sessions, two orders: bookings, payments, collections and their retries,
\* deliveries with every report of a driver, credit notes, a cancellation.
SPECIFICATION Spec
CONSTANTS
  o1 = o1
  o2 = o2
  k1 = k1
  k2 = k2
  r1 = r1
  r2 = r2
  NoSession = NoSession
  Order = {o1, o2}
  Sku = {k1, k2}
  Session = {a, b, c}
  Reference = {r1, r2}
  Request <- Whole
  Deposit <- Deposits
  Salesman <- MCSalesman
  NoSalesman = NoSalesman
  Creator <- MCCreator
  Bill <- MCBill
  Ordered <- MCOrdered
  Booking <- MCBooking
  Route <- MCRoute
  NoBeat = NoBeat
  EnteredOn <- MCEnteredOn
  Today = 10
  Closing = 1
SYMMETRY Symmetry
INVARIANTS
  PaidIsSettled
  NeverOverCredited
  ReportsAgree
PROPERTIES
  KeepsTheLedger
  RetryIsAnswered
