----------------------------- MODULE MCCheckout -----------------------------
(* A small instance of Checkout for TLC.                                   *)
EXTENDS Checkout, TLC

CONSTANTS raj, sid, uma, sam, chips, nuts, north, south

\* raj's shop is registered in another state, uma's is not, sid is a guest.
MCShops ==
  [i \in ShopId |->
     CASE i = 1 -> [mobile |-> raj, salesman |-> sam, source |-> "OFFICE", asked |-> NoId]
       [] i = 2 -> [mobile |-> uma, salesman |-> NoSalesman, source |-> "STORE", asked |-> NoId]]
MCOther == {1}
MCUsers ==
  raj :> [shop |-> 1, active |-> TRUE, confirmed |-> 1]
  @@ sid :> NoUser
  @@ uma :> [shop |-> 2, active |-> TRUE, confirmed |-> 2]
MCAddresses == [a \in AddressId |-> IF a = 1 THEN 1 ELSE 2]

\* Chips, by the dozen, at half a paisa above a hundred rupees; loose nuts,
\* with a rate for other states only.
MCSkus ==
  chips :> [mrp |-> 10005, amount |-> 9003, sgst |-> 2500, cgst |-> 2500, igst |-> 5000,
            pack |-> 12, listed |-> TRUE]
  @@ nuts :> [mrp |-> 3333, amount |-> 3333, sgst |-> 0, cgst |-> 0, igst |-> 12250,
              pack |-> 0, listed |-> TRUE]
MCSettings == [warehouse |-> north, minimum |-> 20000, percent |-> 850]

\* Of the chips in the north 18 are free, and others have expired.
Lot(k, w, remaining, reserved, expired) ==
  [sku |-> k, warehouse |-> w, remaining |-> remaining, reserved |-> reserved, expired |-> expired]
MCBatches ==
  <<Lot(chips, north, 30, 12, FALSE), Lot(chips, north, 50, 0, TRUE),
    Lot(nuts, north, 10, 0, FALSE), Lot(chips, south, 24, 0, FALSE)>>

Line(k, n) == [sku |-> k, quantity |-> n]
Mixed == <<Line(chips, 12), Line(nuts, 3)>>
Split == <<Line(chips, 12), Line(chips, 12)>>
Loose == <<Line(chips, 5)>>

Quoting(m, cart) == [op |-> "quote", mobile |-> m, cart |-> cart]
Placing(m, a, cart) == [op |-> "place", mobile |-> m, id |-> a, cart |-> cart]

MCRequests ==
  {Quoting(m, Mixed) : m \in {sid, uma}}
  \cup {Placing(raj, 1, Mixed), Placing(uma, 2, Mixed), Placing(uma, 3, Split),
        Placing(uma, 1, Mixed), Placing(raj, 1, Loose)}
  \cup {[op |-> "remove", mobile |-> uma, id |-> 2]}
  \cup {[op |-> "sku", sku |-> chips, set |-> set] : set \in {[amount |-> 9500], [listed |-> FALSE]}}
  \cup {[op |-> "settings", set |-> set] :
          set \in {[minimum |-> 0], [warehouse |-> south], [warehouse |-> Closed]}}
  \cup {[op |-> "reserve", batch |-> 1]}

Symmetry == Permutations(Session)
=============================================================================
