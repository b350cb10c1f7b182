----------------------------- MODULE OrderMoney -----------------------------
(***************************************************************************)
(* What an order is billed, paid, credited and owes: services/finance.py,  *)
(* with money as a number of paise.  A bill is what finance.py rounds it   *)
(* to; a payment is a record with an amount, a credit note one with lines. *)
(***************************************************************************)
EXTENDS QuantitySums

CONSTANTS
  Order,    \* the ids orders are booked under
  Sku,      \* the products sold
  Bill,     \* the grand total of each order
  Ordered   \* the units of each SKU on each order

ASSUME MoneyAssumption ==
  /\ Bill \in [Order -> Nat]
  /\ Ordered \in [Order -> [Sku -> Nat]]

\* The amount of the payments ps, and the credit of one note and of the notes ns.
Amount(ps) == Sum([p \in ps |-> p.amount], ps)
NoteTotal(n) ==
  Sum([i \in DOMAIN n.lines |-> n.lines[i].quantity * n.lines[i].price], DOMAIN n.lines)
Credit(ns) == Sum([n \in ns |-> NoteTotal(n)], ns)

\* What the order o, paid with ps and credited with ns, still owes.
Outstanding(o, ps, ns) ==
  LET paid == Amount(ps) + Credit(ns)
  IN  IF paid < Bill[o] THEN Bill[o] - paid ELSE 0

\* The units of a SKU on one note, and on the notes ns.
UnitsOn(n, s) ==
  LET of == {i \in DOMAIN n.lines : n.lines[i].sku = s}
  IN  Sum([i \in of |-> n.lines[i].quantity], of)
UnitsCredited(ns, s) == Sum([n \in ns |-> UnitsOn(n, s)], ns)
=============================================================================
