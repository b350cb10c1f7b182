\* Three sessions, each with one of three workbooks, ten forms, two runs of the script,
\* thirteen requests of drivers and three forms of a shopkeeper.
SPECIFICATION Spec
CONSTANTS
  brandA = brandA
  brandB = brandB
  k1 = k1
  k2 = k2
  wh = wh
  beat = beat
  aisle = aisle
  shop = shop
  mina = mina
  sam = sam
  cover = cover
  shown = shown
  s1 = s1
  s2 = s2
  s3 = s3
  ravi = ravi
  asha = asha
  boss = boss
  r1 = r1
  a1 = a1
  NoSpot = NoSpot
  gupta = gupta
  Shopkeeper = {gupta}
  ShopOf <- MCShopOf
  Threshold = 2
  OuterLimit = 5
  User = {ravi, asha, boss}
  Driver = {r1, a1}
  NoDriver = NoDriver
  DriverOf <- MCDriverOf
  FirstJobs <- MCFirstJobs
  Name = {brandA, brandB, k1, k2, wh, beat, aisle, shop}
  NoName = NoName
  Image = {cover, shown}
  NoImage = NoImage
  Manager = {mina}
  Salesman = {sam}
  MaxId = 4
  Session = {s1, s2, s3}
  Request <- MCRequest
  FirstRows <- MCFirstRows
  Feed <- MCFeed
SYMMETRY Symmetry
INVARIANTS
  IdsAreFresh
  PinIsEvidenced
PROPERTIES
  ImportIsWhole
  HandSetIsKept
  ProgressIsKept
CHECK_DEADLOCK FALSE
