------------------------------ MODULE Checkout ------------------------------
(***************************************************************************)
(* Carts of shopkeepers: their quotes and their orders (store_order.py,    *)
(* store_catalogue.py, store_settings.py), while the office edits SKUs and *)
(* settings, stock is reserved, and addresses come and go (Onboarding).    *)
(*                                                                         *)
(* A request reads the settings when it looks for the warehouse, again for *)
(* the stock it compares with and again for the delivery charge: no read   *)
(* of a row keeps the row for a later query.  A SKU it has priced it keeps.*)
(***************************************************************************)
EXTENDS Onboarding, Pricing

CONSTANTS
  Warehouse,  \* the warehouses
  Closed,     \* no storefront warehouse: the store is closed
  OtherState, \* the shops registered in another state than the warehouses
  FirstSkus, FirstBatches, FirstSettings, \* the rows there are at first
  MaxOrder    \* the bound of the ids of orders

OrderId == 1 .. MaxOrder

\* StoreSettings, with the minimum order value and the percentage of the charge.
Settings == [warehouse : Warehouse \cup {Closed}, minimum : Nat, percent : Nat]

\* SKUBatch, of one day: whether it has expired does not change.
BatchRow == [sku : Sku, warehouse : Warehouse, remaining : Nat, reserved : Nat, expired : BOOLEAN]

Cart == Seq([sku : Sku, quantity : 1 .. MaxLine])

ASSUME CheckoutAssumption ==
  /\ MaxOrder \in Nat
  /\ OtherState \subseteq ShopId
  /\ FirstSkus \in [Sku -> SkuRow]
  /\ FirstSettings \in Settings
  /\ IsFiniteSet(DOMAIN FirstBatches)
  /\ \A b \in DOMAIN FirstBatches : FirstBatches[b] \in BatchRow

\* A partial edit: the columns it names, of a table's.
SkuColumns ==
  [mrp |-> Nat, amount |-> Nat, sgst |-> Nat, cgst |-> Nat, igst |-> Nat, pack |-> Nat,
   listed |-> BOOLEAN]
SettingColumns == [warehouse |-> Warehouse \cup {Closed}, minimum |-> Nat, percent |-> Nat]
Edits(set, columns) ==
  DOMAIN set \subseteq DOMAIN columns /\ \A c \in DOMAIN set : set[c] \in columns[c]
Edited(row, set) == [c \in DOMAIN row |-> IF c \in DOMAIN set THEN set[c] ELSE row[c]]

ASSUME StoreRequestAssumption ==
  \A r \in Request :
    \/ r \in [op : {"quote"}, mobile : Mobile, cart : Cart]
    \/ r \in [op : {"place"}, mobile : Mobile, id : AddressId, cart : Cart]
    \/ r \in [op : {"remove"}, mobile : Mobile, id : AddressId]
    \/ r.op = "sku" /\ r.sku \in Sku /\ Edits(r.set, SkuColumns)
    \/ r.op = "settings" /\ Edits(r.set, SettingColumns)
    \/ r.op = "reserve" /\ r.batch \in DOMAIN FirstBatches

VARIABLES
  sku,      \* SKU rows
  settings, \* the StoreSettings row
  batch,    \* SKUBatch rows
  order,    \* the orders booked in the store, and what each was booked on
  basket,   \* what each session has read of the store
  quote     \* the last quote each shopkeeper was given, and what it was made on

store == <<sku, settings, batch, order, basket, quote>>
vars == <<shop, request, session, onboarding, store>>

NoOrder == [shop |-> NoId]
NoQuote == [total |-> -1]
NoBasket == [warehouse |-> Closed, rows |-> <<>>, checked |-> Closed, seen |-> <<>>]

Shopping == {"quote", "place"}

\* available_quantities of a warehouse; a closed store has nothing.
Available(w) ==
  [k \in Sku |->
     LET free == {b \in DOMAIN batch :
                    /\ batch[b].sku = k /\ batch[b].warehouse = w
                    /\ batch[b].remaining > batch[b].reserved /\ ~batch[b].expired}
     IN  SumFunction([b \in free |-> batch[b].remaining - batch[b].reserved])]

\* storefront_availability: what is free in the warehouse that is set by now.
StorefrontAvailability == Available(settings.warehouse)

Merged(s) == MergeLines(request[s].cart)

\* The lines of a cart, with the tax rows an order of it has.
PricedLines(rows, merged, interState) ==
  [k \in DOMAIN merged |->
     LET line == PriceLine(rows[k], merged[k]) IN
     [quantity |-> line.quantity, price |-> line.price, discount |-> line.discount,
      taxes |-> TaxRows(rows[k], interState)]]

\* A cart with its charge, as it is priced and as it is booked.
Priced(rows, merged, interState, set) ==
  LET lines == PricedLines(rows, merged, interState)
      charge == ComputeCharge(CartValue(lines), set.minimum, set.percent)
  IN  [lines |-> lines, charge |-> charge, chargeRate |-> HighestRate(lines)]

-----------------------------------------------------------------------------
(* The steps of a quote and of an order.                                   *)

Step(s, stage, b) ==
  /\ session' = [session EXCEPT ![s].stage = stage]
  /\ basket' = [basket EXCEPT ![s] = b]
  /\ UNCHANGED <<shop, request, onboarding, sku, settings, batch, order, quote>>

Stop(s, answer) ==
  /\ End(s, answer)
  /\ basket' = [basket EXCEPT ![s] = NoBasket]
  /\ UNCHANGED <<shop, request, onboarding, sku, settings, batch, order, quote>>

\* get_store_retailer: only a confirmed shop orders; anyone is quoted.
EnterStore(s) ==
  LET u == user[request[s].mobile] IN
  /\ Serving(s, Shopping, "arrived")
  /\ request[s].op = "place" => u # NoUser
  /\ IF request[s].op = "place" /\ ~(u.active /\ State(u) = "ready")
     THEN End(s, "refused")
     ELSE session' = [session EXCEPT ![s].stage = "entered", ![s].me = u]
  /\ UNCHANGED <<shop, request, onboarding, store>>

OpenWarehouse(s) ==
  /\ Serving(s, Shopping, "entered")
  /\ IF settings.warehouse = Closed
     THEN Stop(s, "refused")
     ELSE Step(s, "open", [NoBasket EXCEPT !.warehouse = settings.warehouse])

\* Wrong variant: the address of any shop will do.
FindAnyAddress(s) ==
  /\ Serving(s, {"place"}, "open")
  /\ IF address[request[s].id] \in {NoId, Gone}
     THEN Stop(s, "refused")
     ELSE Step(s, "addressed", basket[s])

FindAddress(s) ==
  /\ Serving(s, {"place"}, "open")
  /\ IF address[request[s].id] # session[s].me.shop
     THEN Stop(s, "refused")
     ELSE Step(s, "addressed", basket[s])

\* _merge_lines and _price_lines: visible SKUs, whole packs, and not too many.
PriceCart(s) ==
  LET merged == Merged(s) IN
  /\ Serving(s, {"quote"}, "open") \/ Serving(s, {"place"}, "addressed")
  /\ IF \E k \in DOMAIN merged :
          \/ merged[k] > MaxLine
          \/ ~StoreVisible(sku[k])
          \/ merged[k] % PackUnits(sku[k]) # 0
     THEN Stop(s, "refused")
     ELSE Step(s, "priced", [basket[s] EXCEPT !.rows = [k \in DOMAIN merged |-> sku[k]]])

\* Wrong variant: the charge is left for the order.
AnswerQuoteUncharged(s) ==
  LET priced == Priced(basket[s].rows, Merged(s), FALSE, settings) IN
  /\ Serving(s, {"quote"}, "priced")
  /\ quote' = [quote EXCEPT ![request[s].mobile] =
       [total |-> GrandTotal([priced EXCEPT !.charge = 0]), cart |-> Merged(s),
        rows |-> basket[s].rows, minimum |-> settings.minimum, percent |-> settings.percent]]
  /\ End(s, "answered")
  /\ basket' = [basket EXCEPT ![s] = NoBasket]
  /\ UNCHANGED <<shop, request, onboarding, sku, settings, batch, order>>

\* quote_cart: the settings are read once more.
AnswerQuote(s) ==
  LET interState == session[s].me # NoUser /\ State(session[s].me) = "ready"
                    /\ session[s].me.shop \in OtherState
      priced == Priced(basket[s].rows, Merged(s), interState, settings)
  IN
  /\ Serving(s, {"quote"}, "priced")
  /\ quote' = [quote EXCEPT ![request[s].mobile] =
       [total |-> GrandTotal(priced), cart |-> Merged(s), rows |-> basket[s].rows,
        minimum |-> settings.minimum, percent |-> settings.percent]]
  /\ End(s, "answered")
  /\ basket' = [basket EXCEPT ![s] = NoBasket]
  /\ UNCHANGED <<shop, request, onboarding, sku, settings, batch, order>>

\* Wrong variant: each line of the cart by itself.
CheckStockOfLines(s) ==
  LET seen == StorefrontAvailability
      cart == request[s].cart
  IN
  /\ Serving(s, {"place"}, "priced")
  /\ IF \E i \in DOMAIN cart :
          cart[i].quantity > OrderableCap(seen[cart[i].sku], PackUnits(basket[s].rows[cart[i].sku]))
     THEN Stop(s, "refused")
     ELSE Step(s, "checked", [basket[s] EXCEPT !.checked = settings.warehouse,
                                               !.seen = [k \in DOMAIN Merged(s) |-> seen[k]]])

\* _stock_conflict: the SKUs of which less can be ordered than the cart has.
Short(s, seen) ==
  {k \in DOMAIN Merged(s) : Merged(s)[k] > OrderableCap(seen[k], PackUnits(basket[s].rows[k]))}

\* The only check of the stock.
CheckStock(s) ==
  LET seen == StorefrontAvailability IN
  /\ Serving(s, {"place"}, "priced")
  /\ IF Short(s, seen) # {}
     THEN Stop(s, "refused")
     ELSE Step(s, "checked", [basket[s] EXCEPT !.checked = settings.warehouse,
                                               !.seen = [k \in DOMAIN Merged(s) |-> seen[k]]])

\* The order of a session's shop, and what it is booked on: from here on prices
\* and charge are the order's own.
NewOrder(s, priced) ==
  LET i == session[s].me.shop
      b == basket[s]
  IN  [shop |-> i, salesman |-> shop[i].salesman,
       address |-> request[s].id, warehouse |-> b.warehouse,
       lines |-> priced.lines, charge |-> priced.charge, chargeRate |-> priced.chargeRate,
       rows |-> b.rows, minimum |-> settings.minimum, percent |-> settings.percent,
       checked |-> b.checked, seen |-> b.seen]

\* create_outgoing_order, for the shop's salesman; an address that has been
\* deleted since fails on its foreign key.
Book(s) ==
  LET priced == Priced(basket[s].rows, Merged(s), session[s].me.shop \in OtherState, settings) IN
  /\ Serving(s, {"place"}, "checked")
  /\ address[request[s].id] # Gone
  /\ \E o \in OrderId :
       /\ order[o] = NoOrder /\ \A p \in 1 .. o - 1 : order[p] # NoOrder
       /\ order' = [order EXCEPT ![o] = NewOrder(s, priced)]
  /\ End(s, "answered")
  /\ basket' = [basket EXCEPT ![s] = NoBasket]
  /\ UNCHANGED <<shop, request, onboarding, sku, settings, batch, quote>>

\* A worker dies, or the order fails: nothing is written.
GiveUp(s) ==
  /\ request[s].op \in Shopping /\ session[s].stage \notin Answers
  /\ Stop(s, "failed")

-----------------------------------------------------------------------------
(* The office.                                                             *)

Office(s, op) ==
  /\ Serving(s, {op}, "arrived")
  /\ End(s, "answered")
  /\ UNCHANGED <<shop, request, onboarding, order, basket, quote>>

\* update_sku: a partial edit, of the columns that are named.
EditSku(s) ==
  /\ Office(s, "sku")
  /\ sku' = [sku EXCEPT ![request[s].sku] = Edited(@, request[s].set)]
  /\ UNCHANGED <<settings, batch>>

\* update_store_settings, likewise.
EditSettings(s) ==
  /\ Office(s, "settings")
  /\ settings' = Edited(settings, request[s].set)
  /\ UNCHANGED <<sku, batch>>

\* Units are reserved for another order (OrderInventory has the rules).
ReserveStock(s) ==
  LET b == request[s].batch IN
  /\ Office(s, "reserve")
  /\ batch[b].remaining > batch[b].reserved
  /\ batch' = [batch EXCEPT ![b].reserved = batch[b].remaining]
  /\ UNCHANGED <<sku, settings>>

\* The orders of a deleted address lose it, in the deletion's transaction.
DetachOrders(s) ==
  /\ DeleteAddress(s)
  /\ order' = [o \in OrderId |->
       IF order[o] # NoOrder /\ order[o].address = request[s].id
       THEN [order[o] EXCEPT !.address = NoId] ELSE order[o]]
  /\ UNCHANGED <<sku, settings, batch, basket, quote>>

StoreStep(s) ==
  \/ EnterStore(s) \/ OpenWarehouse(s) \/ FindAddress(s) \/ PriceCart(s)
  \/ AnswerQuote(s) \/ CheckStock(s) \/ Book(s) \/ GiveUp(s)
  \/ EditSku(s) \/ EditSettings(s) \/ ReserveStock(s) \/ DetachOrders(s)

Next ==
  \E s \in Session :
    \/ StoreStep(s)
    \/ (Enter(s) \/ CountAddresses(s) \/ Fail(s)) /\ UNCHANGED store

Init ==
  /\ shop = FirstShops
  /\ request \in [Session -> Request]
  /\ session = [s \in Session |-> Fresh]
  /\ OnboardingInit
  /\ sku = FirstSkus
  /\ settings = FirstSettings
  /\ batch = FirstBatches
  /\ order = [o \in OrderId |-> NoOrder]
  /\ basket = [s \in Session |-> NoBasket]
  /\ quote = [m \in Mobile |-> NoQuote]

Spec == Init /\ [][Next]_vars

-----------------------------------------------------------------------------
(* What a shopkeeper and the office see of an order.                       *)

Booked == {o \in OrderId : order[o] # NoOrder}

\* _detail: the totals a shop is shown of its order.
Detail(o) ==
  [subtotal |-> GrandTotal(order[o]) - order[o].charge, charge |-> order[o].charge,
   total |-> GrandTotal(order[o]),
   lines |-> [k \in DOMAIN order[o].lines |-> LineTotals(order[o].lines[k]).total]]

\* get_order_export_rows: a row of each line, of which the office adds up the
\* amounts; _line_amount does not ask finance for them.
ExportRows(o) ==
  [k \in DOMAIN order[o].lines |->
     LET line == order[o].lines[k]
         base == line.quantity * line.price
     IN  [quantity |-> line.quantity, rate |-> line.price,
          amount |-> IF base > line.discount THEN base - line.discount ELSE 0]]

-----------------------------------------------------------------------------
(* What they rely on.                                                      *)

\* A quote's total is the order's grand_total (store_order.py:184-185), also if
\* it was asked for before there was a shop to tell the state by: when the
\* prices, the minimum and the percentage are still those it was made on.
QuoteIsOrdered ==
  \A o \in Booked, m \in Mobile :
    LET q == quote[m] IN
    (/\ q # NoQuote /\ q.cart = [k \in DOMAIN order[o].lines |-> order[o].lines[k].quantity]
     /\ q.rows = order[o].rows
     /\ q.minimum = order[o].minimum /\ q.percent = order[o].percent)
    => q.total = GrandTotal(order[o])

\* The invoice of an order adds up, down its columns and along its lines, to
\* the order's total, whatever state the shop has moved to when it is issued;
\* the shop is shown the totals it is billed, and the office exports them.
InvoiceAddsUp ==
  \A o \in Booked, interState \in BOOLEAN :
    LET lines == InvoiceLines(order[o], interState) IN
    /\ ColumnTotal(lines, "total") = GrandTotal(order[o])
    /\ \A l \in lines : l.taxable + l.gst = l.total /\ l.gst >= 0
    /\ PartTotal(lines, "CGST") + PartTotal(lines, "SGST") + PartTotal(lines, "IGST")
         = ColumnTotal(lines, "gst")
    /\ \A l \in lines : \A t \in DOMAIN l.parts : l.parts[t] >= 0
    /\ \A k \in DOMAIN order[o].lines :
         \E l \in lines : l.of = k /\ l.total = Detail(o).lines[k]
                                  /\ l.total = ExportRows(o)[k].amount
    /\ SumFunction([k \in DOMAIN ExportRows(o) |-> ExportRows(o)[k].amount]) = Detail(o).subtotal

\* All that was ordered of a SKU was free at once in the warehouse it is
\* ordered from, in whole packs, however a cart is split into lines: unless the
\* storefront moved to another warehouse while the order was taken.
OrderFitsStock ==
  \A o \in Booked : order[o].checked = order[o].warehouse =>
    \A k \in DOMAIN order[o].lines :
      /\ order[o].lines[k].quantity <= Least(order[o].seen[k], MaxLine)
      /\ order[o].lines[k].quantity % PackUnits(order[o].rows[k]) = 0

\* An order goes to an address of its own shop, and names none that is deleted.
OrderDeliversToItsShop ==
  \A o \in Booked : order[o].address # NoId => address[order[o].address] = order[o].shop
=============================================================================
