\* Four sessions: sign-ins and shop forms of two numbers, addresses of a third,
\* the office, and the decisions on one pending request.
SPECIFICATION Spec
CONSTANTS
  raj = raj
  sid = sid
  uma = uma
  sam = sam
  joe = joe
  Mobile = {raj, sid, uma}
  NoMobile = NoMobile
  Salesman = {sam, joe}
  NoSalesman = NoSalesman
  MaxShop = 6
  MaxAddress = 5
  MaxAsked = 4
  Session = {a, b, c, d}
  NoSession = NoSession
  Request <- MCRequests
  FirstShops <- MCShops
  FirstUsers <- MCUsers
  FirstAddresses <- MCAddresses
  FirstAsked <- MCAsked
SYMMETRY Symmetry
INVARIANTS
  OneShopPerForm
  ReadyShopWasConfirmed
  ShopKeepsAnAddress
  DecidedOnce
CHECK_DEADLOCK FALSE
