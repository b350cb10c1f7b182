---------------------------- MODULE MCCatalogue ----------------------------
(* A small instance of Catalogue for TLC. *)
EXTENDS Catalogue, TLC

CONSTANTS brandA, brandB, k1, k2, wh, beat, aisle, shop, mina, sam, cover, shown, s1, s2, s3,
  ravi, asha, boss, r1, a1, gupta

Plain(n, p) ==
  [name |-> n, parent |-> p, image |-> NoImage, aisle |-> NoId, spot |-> NoSpot]

\* A brand with one SKU, which nobody has described yet, and a shop without a pin.
MCFirstRows ==
  [t \in Table |-> [i \in Id |->
    IF i # 1 THEN Absent
    ELSE CASE t = "brands" -> Plain(brandA, NoId)
           [] t = "skus" -> Plain(k1, 1)
           [] t = "retailers" -> Plain(shop, NoId)
           [] OTHER -> Absent]]

Book(rows) == [do |-> "import", book |-> rows]

\* A workbook that brings the brand again with a SKU of it, one whose last row
\* repeats a code, one with an unknown brand.
Books ==
  { Book(<<Item("brands", brandA, NoName, NoId), Item("retailers", shop, sam, NoId),
           Item("skus", k2, brandA, NoId)>>),
    Book(<<Item("warehouses", wh, mina, NoId), Item("skus", k1, brandA, NoId),
           Item("beats", beat, wh, NoId)>>),
    Book(<<Item("brands", brandA, NoName, NoId), Item("skus", k2, brandB, NoId),
           Item("beats", beat, wh, NoId)>>) }

New1(t, n, of, p) == [do |-> "create", table |-> t, name |-> n, of |-> of, parent |-> p]
Change(t, i, set) == [do |-> "edit", table |-> t, id |-> i, set |-> set]

Forms ==
  { New1("brands", brandB, NoName, NoId), New1("skus", k2, NoName, 1),
    New1("warehouses", wh, mina, NoId), New1("beats", beat, NoName, NoId),
    New1("categories", aisle, NoName, NoId),
    Change("brands", 1, [name |-> brandB]), Change("skus", 1, [image |-> cover]),
    Change("skus", 1, [aisle |-> 1]),
    [do |-> "edit retailer", id |-> 1, set |-> [name |-> shop], parent |-> 1],
    [do |-> "edit retailer", id |-> 1, set |-> [spot |-> 0]] }

Seeds == {[do |-> "seed", apply |-> b] : b \in BOOLEAN}

Mark(u, spot, fuzzy, confirm) ==
  [do |-> "mark", shop |-> 1, user |-> u, spot |-> spot, fuzzy |-> fuzzy, confirm |-> confirm]
CloseAt(spot, fuzzy, elsewhere) ==
  [do |-> "close", shop |-> 1, user |-> boss, spot |-> spot, fuzzy |-> fuzzy, elsewhere |-> elsewhere]
AcceptBy(u, j) == [do |-> "accept", user |-> u, job |-> j]

\* Drivers at the door, some steps away and in another town; the job there is
\* at first belongs to ravi.
Drives ==
  { Mark(ravi, 1, FALSE, FALSE), Mark(asha, 3, FALSE, FALSE), Mark(ravi, 9, FALSE, TRUE),
    Mark(asha, 9, FALSE, FALSE), Mark(ravi, 1, TRUE, FALSE),
    CloseAt(3, FALSE, TRUE), CloseAt(9, FALSE, FALSE), CloseAt(3, TRUE, FALSE),
    AcceptBy(ravi, 1), AcceptBy(asha, 1), AcceptBy(boss, 1),
    [do |-> "assign", driver |-> r1, shops |-> {1, 4}],
    [do |-> "assign", driver |-> a1, shops |-> {4}] }

\* The shopkeeper's form, sent with a place, with another, and without one.
OwnShop(set) == [do |-> "own shop", by |-> gupta, set |-> set]
OwnShops ==
  { OwnShop([name |-> shop, spot |-> 6]), OwnShop([name |-> wh, spot |-> 12]),
    OwnShop([name |-> wh]) }

MCShopOf == gupta :> 1

MCDriverOf == ravi :> r1 @@ asha :> a1 @@ boss :> NoDriver

MCFirstJobs == <<[driver |-> r1, shops |-> {1}, accepted |-> FALSE, earlier |-> {}]>>

MCRequest == Books \cup Forms \cup Seeds \cup Drives \cup OwnShops

MCFeed == <<[code |-> k1, image |-> shown, aisle |-> aisle],
            [code |-> k2, image |-> NoImage, aisle |-> aisle]>>

Symmetry == Permutations(Session)
=============================================================================
