------------------------------- MODULE Pricing -------------------------------
(***************************************************************************)
(* What an order of the storefront costs, from the price of a SKU to the   *)
(* lines of its invoice (app/services/finance.py, store_order.py and       *)
(* invoice.py).                                                            *)
(*                                                                         *)
(* Money that is charged is a number of paise, the prices of a SKU are in  *)
(* tenths of a paisa (NUMERIC(12,3) rupees), a rate of an order is in      *)
(* hundredths of a percent and a rate of a SKU in thousandths.  A SKU has  *)
(* its prices and rates, the pieces in a pack, and whether it is listed in *)
(* a category.  CESS has no source in the code and is left out.            *)
(***************************************************************************)
EXTENDS Integers, Sequences, FiniteSets, Functions, FiniteSetsExt

CONSTANTS
  Sku,     \* the products
  MaxLine  \* MAX_LINE_QUANTITY

ASSUME PricingAssumption == MaxLine \in Nat /\ "delivery" \notin Sku

SkuRow ==
  [mrp : Nat, amount : Nat, sgst : Nat, cgst : Nat, igst : Nat, pack : Nat, listed : BOOLEAN]

Least(a, b) == IF a < b THEN a ELSE b
Greatest(a, b) == IF a < b THEN b ELSE a

\* n / d to the nearest whole, halves up.
RoundMoney(n, d) == (2 * n + d) \div (2 * d)

Paise(price) == RoundMoney(price, 10)

-----------------------------------------------------------------------------
(* Carts.                                                                  *)

StoreVisible(k) == k.listed /\ 0 < k.amount /\ k.amount <= k.mrp
PackUnits(k) == IF k.pack > 0 THEN k.pack ELSE 1
OrderableCap(available, units) ==
  LET cap == Least(available, MaxLine) IN cap - (cap % units)

\* The units of each SKU of a cart, a sequence of lines.
MergeLines(cart) ==
  [k \in {cart[i].sku : i \in DOMAIN cart} |->
     SumFunction([i \in {j \in DOMAIN cart : cart[j].sku = k} |-> cart[i].quantity])]

\* Price, discount and units of a line, in the shape an order stores them.
PriceLine(k, quantity) ==
  [quantity |-> quantity,
   price |-> Paise(k.mrp),
   discount |-> RoundMoney((k.mrp - k.amount) * quantity, 10)]

\* The rates of the taxes on a SKU: IGST between states, CGST and SGST within one.
TaxRows(k, interState) ==
  IF interState
  THEN LET rate == IF k.igst > 0 THEN k.igst ELSE k.sgst + k.cgst
       IN  [t \in IF rate > 0 THEN {"IGST"} ELSE {} |-> Paise(rate)]
  ELSE IF k.sgst > 0 \/ k.cgst > 0
  THEN LET rate == [CGST |-> k.cgst, SGST |-> k.sgst]
       IN  [t \in {u \in DOMAIN rate : rate[u] > 0} |-> Paise(rate[t])]
  ELSE LET half == RoundMoney(k.igst, 20)
       IN  [t \in IF k.igst > 0 THEN {"CGST", "SGST"} ELSE {} |->
              IF t = "CGST" THEN half ELSE Paise(k.igst - 10 * half)]

-----------------------------------------------------------------------------
(* Totals.                                                                 *)

InclusiveTax(value, rate) == RoundMoney(value * rate, 10000)

\* calculate_order_item_totals.
LineTotals(line) ==
  LET inclusive == Greatest(line.quantity * line.price - line.discount, 0)
      gst == InclusiveTax(inclusive, SumFunction(line.taxes))
  IN  [taxable |-> Greatest(inclusive - gst, 0), gst |-> gst, total |-> inclusive]

\* compute_delivery_charge, of a cart's value.
ComputeCharge(value, minimum, percent) ==
  IF minimum = 0 \/ value >= minimum THEN 0 ELSE RoundMoney(value * percent, 10000)

CartValue(lines) ==
  SumFunction([k \in DOMAIN lines |->
           Greatest(lines[k].quantity * lines[k].price - lines[k].discount, 0)])

HighestRate(lines) == Max({0} \cup {SumFunction(lines[k].taxes) : k \in DOMAIN lines})

DeliveryTotals(charge, rate) ==
  LET gst == InclusiveTax(charge, rate) IN
  IF charge = 0 THEN [taxable |-> 0, gst |-> 0, total |-> 0]
  ELSE [taxable |-> charge - gst, gst |-> gst, total |-> charge]

\* calculate_order_totals: its grand_total.
GrandTotal(o) ==
  LET delivery == DeliveryTotals(o.charge, o.chargeRate) IN
  SumFunction([k \in DOMAIN o.lines |-> LineTotals(o.lines[k]).taxable + LineTotals(o.lines[k]).gst])
  + delivery.taxable + delivery.gst

-----------------------------------------------------------------------------
(* The invoice of an order.                                                *)

\* Wrong variant: every part is rounded by itself.
RoundedComponents(taxes, gst) ==
  [t \in DOMAIN taxes |-> RoundMoney(gst * taxes[t], SumFunction(taxes))]

\* The tax of a line by its rows, CGST before SGST: the last has the remainder.
Components(taxes, gst) ==
  LET rate == SumFunction(taxes)
      first == IF "CGST" \in DOMAIN taxes THEN RoundMoney(gst * taxes["CGST"], rate) ELSE 0
  IN  [t \in DOMAIN taxes |->
         IF rate = 0 THEN 0
         ELSE IF t = "CGST" /\ "SGST" \in DOMAIN taxes THEN first
         ELSE IF t = "SGST" THEN gst - first
         ELSE gst]

DeliveryTaxes(rate, interState) ==
  IF interState THEN [IGST |-> rate]
  ELSE [CGST |-> RoundMoney(rate, 2), SGST |-> rate - RoundMoney(rate, 2)]

\* A line of an invoice, of a SKU or of the delivery charge.
InvoiceLine(of, totals, taxes) ==
  [of |-> of, taxable |-> totals.taxable, gst |-> totals.gst, total |-> totals.total,
   parts |-> Components(taxes, totals.gst)]

\* The lines issue_invoice_for_order snapshots.
InvoiceLines(o, interState) ==
  {InvoiceLine(k, LineTotals(o.lines[k]), o.lines[k].taxes) : k \in DOMAIN o.lines}
  \cup IF o.charge = 0 THEN {}
       ELSE {InvoiceLine("delivery", DeliveryTotals(o.charge, o.chargeRate),
                         DeliveryTaxes(o.chargeRate, interState))}

ColumnTotal(invoice, c) == SumFunction([l \in invoice |-> l[c]])
PartTotal(invoice, t) == SumFunction([l \in {m \in invoice : t \in DOMAIN m.parts} |-> l.parts[t]])
=============================================================================
