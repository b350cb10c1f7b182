---------------------------- MODULE MCSettlement ----------------------------
(* Small instances of Settlement for TLC. *)
EXTENDS Reports, TLC

CONSTANTS o1, o2, k1, k2, r1, r2

L(s, q, p) == [sku |-> s, quantity |-> q, price |-> p]

Pay(o, a, r) == [kind |-> "payment", order |-> o, amount |-> a, reference |-> r]
PayMany(o, as) == [kind |-> "payments", order |-> o, amounts |-> as]
Cash(o, who, a, r) == [kind |-> "cash", order |-> o, by |-> who, amount |-> a, reference |-> r]
Deliver(o, asked, mode, a) ==
  [kind |-> "delivery", order |-> o, asked |-> asked, mode |-> mode, amount |-> a]
CancelOf(o) == [kind |-> "cancel", order |-> o]
NoteFor(o, ls, back) == [kind |-> "note", order |-> o, lines |-> ls, restock |-> back]

MCBill == [o \in Order |-> 2]
MCOrdered == [o \in Order |-> [s \in Sku |-> IF s = k1 THEN 2 ELSE 1]]
MCSalesman == {"sam", "joe"}
MCCreator == [o \in Order |-> "sam"]

\* Collections and retries of them, on two orders, beside what else the money
\* of an order can meet before its delivery.
Collections ==
  {Pay(o1, 1, r1), Pay(o1, 2, r2), PayMany(o1, <<1, 1>>),
   Cash(o1, "sam", 1, r1), Cash(o1, "sam", 2, r1), Cash(o1, "joe", 1, r2), Cash(o2, "sam", 2, r1),
   CancelOf(o1)}

\* Deliveries with what the driver may report.
Deliveries ==
  {Pay(o1, 1, r1), Cash(o1, "sam", 1, r2), CancelOf(o1)}
  \cup {Deliver(o1, asked, "CASH", a) : asked \in {"", "CREDIT", "PAID"}, a \in {NoAmount, 1}}
  \cup {Deliver(o1, "PAID", "CREDIT", NoAmount), Deliver(o1, "", "CASH", 0),
        Deliver(o1, "UNPAID", "CASH", 1)}

\* Credit notes whose lines name distinct SKUs.
Notes ==
  {NoteFor(o1, <<L(k1, 1, 1), L(k2, 1, 0)>>, FALSE), NoteFor(o1, <<L(k1, 2, 1)>>, TRUE)}

\* Everything that can meet on an order.
Whole == Collections \cup Deliveries \cup Notes

\* One request of each way to wait for another.
Waits ==
  {Pay(o1, 1, r1), Cash(o1, "sam", 1, r1), Deliver(o1, "PAID", "CASH", 1),
   NoteFor(o1, <<L(k1, 1, 1)>>, TRUE), CancelOf(o1)}

\* A delivery, and a credit note that names one SKU on two lines.
Repeated ==
  {Deliver(o1, "CREDIT", "CASH", NoAmount), NoteFor(o1, <<L(k1, 2, 0), L(k1, 1, 0)>>, FALSE)}

\* One shop on a beat and one on none, orders of different days and salesmen.
MCBooking ==
  [o \in Order |->
    IF o = o1 THEN [warehouse |-> "north", retailer |-> "corner", salesman |-> "sam", day |-> 1]
              ELSE [warehouse |-> "south", retailer |-> "bazaar", salesman |-> "joe", day |-> 9]]
MCRoute ==
  [r \in {"corner", "bazaar"} |->
    [beat |-> IF r = "corner" THEN "monday" ELSE NoBeat, salesman |-> "sam"]]

\* Deposits are entered the day an order is booked, the rest the day after.
MCEnteredOn(x) ==
  IF "entry" \in DOMAIN x /\ x.entry = "booking" THEN Booking[x.order].day
                                               ELSE Booking[x.order].day + 1

Deposits == {NoAmount, 1}
NoDeposit == {}

Symmetry == Permutations(Session)
=============================================================================
