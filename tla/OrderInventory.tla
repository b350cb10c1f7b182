--------------------------- MODULE OrderInventory ---------------------------
(***************************************************************************)
(* The stock of one warehouse and the orders booked against it: every      *)
(* handler of app/services/order.py that moves stock, the inventory        *)
(* receipt of app/services/admin.py and the invoice a dispatch issues,     *)
(* each as one atomic step.  A handler is one database transaction; that   *)
(* concurrent transactions amount to such steps is the subject of module   *)
(* OrderTransactions.  A handler that refuses a request rolls back and     *)
(* changes nothing, so a refusal is the absence of a step.                 *)
(*                                                                         *)
(* Every query of these handlers is restricted to the warehouse of the     *)
(* order, so the rows of other warehouses are left out.  The lines of an   *)
(* order name different SKUs (the storefront merges duplicates; orders     *)
(* with duplicate lines are in OrderTransactions), so a cart maps a SKU to *)
(* a quantity and the batch of an OrderItemBatch row determines its line.  *)
(* Payments, the delivery position and free-text columns are left out.     *)
(***************************************************************************)
EXTENDS Integers, Sequences, FiniteSets, QuantitySums

CONSTANTS
  Sku,        \* the products stocked
  NoSku,      \* the SKU of a batch that has not arrived
  Brand,      \* the brands of the products
  BrandOf,    \* the brand of a SKU
  Code,       \* the series codes brand names are shortened to
  CodeOf,     \* the series code of a brand
  Order,      \* the ids orders are booked under
  Retailer,   \* the shops
  Driver,     \* the employees who deliver
  NoDriver,   \* an order, or a user, without a driver's employee record
  Actor,      \* the users: role, the shops in their care, their employee record
  Carts,      \* the carts orders are booked with (bounds the quantities)
  Receipts,   \* the receipts that arrive (bounds the quantities)
  MaxBatch,   \* bound: batches received
  MaxDay      \* bound: last business day

Batch == 1 .. MaxBatch
Day == 0 .. MaxDay

\* The expiry date of a batch without one: it sorts last and never expires.
Never == MaxDay + 1

Channel == {"ONLINE", "OFFLINE"}
Series == Code \X Channel

Roles == {"ADMIN", "ACCOUNTANT", "SALESMAN", "WAREHOUSE_MANAGER", "DRIVER", "RETAILER"}

\* "UNBOOKED" stands for an order id that is not in use; RETURNED is unreachable.
OrderStatus ==
  {"UNBOOKED", "PENDING", "READY_TO_SHIP", "OUT_FOR_DELIVERY", "DELIVERED", "CANCELLED"}

ASSUME SkuAssumption ==
  /\ IsFiniteSet(Sku) /\ NoSku \notin Sku
  /\ BrandOf \in [Sku -> Brand] /\ CodeOf \in [Brand -> Code]

ASSUME OrderAssumption ==
  /\ IsFiniteSet(Order) /\ NoDriver \notin Driver
  /\ Retailer # {} /\ Brand # {}
  /\ Carts \subseteq [Sku -> Nat]
  /\ Actor \subseteq [role : Roles, shops : SUBSET Retailer, employee : Driver \cup {NoDriver}]

ASSUME BoundAssumption ==
  /\ MaxBatch \in Nat /\ MaxDay \in Nat
  /\ Receipts \subseteq Seq([sku : Sku, expiry : Day \cup {Never}, quantity : Nat])

VARIABLES
  today,      \* current_business_date()
  inventory,  \* Inventory rows: total and reserved units of a SKU
  batch,      \* SKUBatch rows
  lastBatch,  \* the last SKUBatch id drawn
  order,      \* Order rows with their trail
  held,       \* OrderItemBatch rows: units of a batch allocated to an order
  out,        \* InventoryTransaction OUT rows, summed by order and batch
  back,       \* InventoryTransaction RETURN rows, likewise
  invoice,    \* the Invoice of an order; serial 0 when it has none
  counter     \* InvoiceNumberCounter rows: last serial of a series

stock == <<inventory, batch, lastBatch, held, out, back>>
invoices == <<invoice, counter>>
vars == <<today, stock, order, invoices>>

-----------------------------------------------------------------------------
(* Who may do what to an order.                                            *)

\* Wrong variant: a delivered order may be sent out again.
TransitionsWithRedelivery ==
  { <<"PENDING", "READY_TO_SHIP", {"WAREHOUSE_MANAGER"}>>,
    <<"READY_TO_SHIP", "OUT_FOR_DELIVERY", {"DRIVER"}>>,
    <<"OUT_FOR_DELIVERY", "DELIVERED", {"DRIVER"}>>,
    <<"DELIVERED", "OUT_FOR_DELIVERY", {"DRIVER"}>> }

\* Wrong variant: a shop may cancel while the goods are on the road.
TransitionsWithLateCancel ==
  { <<"PENDING", "READY_TO_SHIP", {"WAREHOUSE_MANAGER"}>>,
    <<"READY_TO_SHIP", "OUT_FOR_DELIVERY", {"DRIVER"}>>,
    <<"OUT_FOR_DELIVERY", "CANCELLED", {"DRIVER", "RETAILER"}>> }

\* From status, to status, the roles besides ADMIN that may make the move.
AllowedTransitions ==
  { <<"PENDING", "READY_TO_SHIP", {"WAREHOUSE_MANAGER"}>>,
    <<"READY_TO_SHIP", "OUT_FOR_DELIVERY", {"DRIVER"}>>,
    <<"OUT_FOR_DELIVERY", "DELIVERED", {"DRIVER"}>>,
    <<"PENDING", "CANCELLED", {"RETAILER"}>>,
    <<"READY_TO_SHIP", "CANCELLED", {"WAREHOUSE_MANAGER", "RETAILER"}>>,
    <<"OUT_FOR_DELIVERY", "CANCELLED", {"DRIVER"}>>,
    <<"DELIVERED", "CANCELLED", {}>> }

\* A salesman's scope is left out: no transition admits the role.
InScope(a, o) ==
  \/ a.role \in {"ADMIN", "ACCOUNTANT", "WAREHOUSE_MANAGER"}
  \/ a.role = "DRIVER" /\ a.employee # NoDriver /\ a.employee = order[o].driver
  \/ a.role = "RETAILER" /\ order[o].retailer \in a.shops

MayMove(a, o, next) ==
  \E t \in AllowedTransitions :
     /\ t[1] = order[o].status /\ t[2] = next
     /\ a.role = "ADMIN" \/ a.role \in t[3]

MayBook(a, r) ==
  \/ a.role \in {"ADMIN", "ACCOUNTANT"}
  \/ a.role \in {"SALESMAN", "RETAILER"} /\ r \in a.shops

\* The part of update_order_status every transition shares; d is the driver
\* named in the request, or NoDriver.
Move(a, o, d, next) ==
  /\ InScope(a, o)
  /\ MayMove(a, o, next)
  /\ order' = [order EXCEPT ![o] =
       [order[o] EXCEPT !.status = next,
                        !.driver = IF d = NoDriver THEN @ ELSE d,
                        !.trail = Append(@, [status |-> next, role |-> a.role])]]

-----------------------------------------------------------------------------
(* Reservation, first expiry first.                                        *)

BatchesOf(s) == {b \in Batch : batch[b].sku = s}

\* Wrong variant: units reserved for other orders count as free.
FreeOrReserved(b) == batch[b].remaining

Free(b) == batch[b].remaining - batch[b].reserved

Allocatable(b) == batch[b].sku # NoSku /\ batch[b].expiry >= today /\ Free(b) > 0

\* Wrong variant: a line that its links cover exactly asks again.
NeedsAgain(o, s) ==
  IF Sum(held[o], BatchesOf(s)) > order[o].cart[s] THEN 0 ELSE order[o].cart[s]

\* What a line still asks for: nothing when its links cover it, else all of it.
Needs(o, s) ==
  IF Sum(held[o], BatchesOf(s)) >= order[o].cart[s] THEN 0 ELSE order[o].cart[s]

\* Wrong variant: the batch query returns the rows in any order.
RankingsUnsorted ==
  {rank \in [Batch -> Batch] : \A b, c \in Batch : rank[b] = rank[c] => b = c}

\* The orders in which the batch query may return the rows: by expiry date,
\* batches that expire on the same day in any order.
Rankings ==
  { rank \in [Batch -> Batch] :
      \A b, c \in Batch :
        /\ rank[b] = rank[c] => b = c
        /\ batch[b].expiry < batch[c].expiry => rank[b] < rank[c] }

\* The units the batch loop takes: a batch supplies what the batches ranked
\* before it could not, as far as its free units go.
Take(o, rank) ==
  [b \in Batch |->
     LET ahead == {c \in BatchesOf(batch[b].sku) : Allocatable(c) /\ rank[c] < rank[b]}
         wanted == Needs(o, batch[b].sku) - Sum([c \in Batch |-> Free(c)], ahead)
     IN  IF ~Allocatable(b) \/ wanted <= 0 THEN 0
         ELSE IF wanted < Free(b) THEN wanted ELSE Free(b)]

\* Wrong variant: what the batches cannot supply is not looked at.
ReservationsShort(o) ==
  { take \in {Take(o, rank) : rank \in Rankings} :
      \A s \in Sku :
        Needs(o, s) > 0 => inventory[s].total - inventory[s].reserved >= Needs(o, s) }

\* The outcomes of _reserve_inventory_for_order that do not raise: the
\* aggregate pre-check passes and the batches supply every line in full.
Reservations(o) ==
  { take \in {Take(o, rank) : rank \in Rankings} :
      \A s \in Sku :
        /\ Needs(o, s) > 0 => inventory[s].total - inventory[s].reserved >= Needs(o, s)
        /\ Sum(take, BatchesOf(s)) = Needs(o, s) }

MaxZero(n) == IF n < 0 THEN 0 ELSE n

-----------------------------------------------------------------------------
(* The handlers.                                                           *)

\* create_outgoing_order: no stock is reserved at booking.
CreateOrder(a, o, r, cart) ==
  /\ order[o].status = "UNBOOKED"
  /\ MayBook(a, r)
  /\ order' = [order EXCEPT ![o] =
       [status |-> "PENDING", cart |-> cart, retailer |-> r, driver |-> NoDriver,
        channel |-> IF a.role = "RETAILER" THEN "ONLINE" ELSE "OFFLINE",
        trail |-> <<[status |-> "PENDING", role |-> a.role]>>]]
  /\ UNCHANGED <<today, stock, invoices>>

\* PENDING -> READY_TO_SHIP: a driver is required and the stock is reserved.
MarkReadyToShip(a, o, d) ==
  /\ Move(a, o, d, "READY_TO_SHIP")
  /\ order'[o].driver # NoDriver
  /\ \E take \in Reservations(o) :
       /\ batch' = [b \in Batch |-> [batch[b] EXCEPT !.reserved = @ + take[b]]]
       /\ inventory' = [s \in Sku |->
            [inventory[s] EXCEPT !.reserved = @ + Sum(take, BatchesOf(s))]]
       /\ held' = [held EXCEPT ![o] = Plus(held[o], take, Batch)]
  /\ UNCHANGED <<today, lastBatch, out, back, invoices>>

\* Wrong variant: the counter is read and not raised.
IssueInvoiceUncounted(o) ==
  \/ invoice[o].serial > 0 /\ UNCHANGED invoices
  \/ /\ invoice[o].serial = 0
     /\ \E s \in {t \in Sku : order[o].cart[t] > 0} :
          LET series == <<CodeOf[BrandOf[s]], order[o].channel>>
          IN  invoice' = [invoice EXCEPT ![o] =
                            [series |-> series, serial |-> counter[series] + 1]]
     /\ UNCHANGED counter

\* issue_invoice_for_order: once per order, numbered within the series of the
\* order's only brand and its channel; an order of several brands is refused.
IssueInvoice(o) ==
  \/ invoice[o].serial > 0 /\ UNCHANGED invoices
  \/ /\ invoice[o].serial = 0
     /\ LET brands == {BrandOf[s] : s \in {t \in Sku : order[o].cart[t] > 0}}
        IN  \E brand \in brands :
              LET series == <<CodeOf[brand], order[o].channel>>
              IN  /\ brands = {brand}
                  /\ counter' = [counter EXCEPT ![series] = @ + 1]
                  /\ invoice' = [invoice EXCEPT ![o] =
                       [series |-> series, serial |-> counter[series] + 1]]

\* Wrong variant: the expiry date is checked at reservation only.
DispatchableExpired(o, b, take) ==
  batch[b].reserved + take[b] >= held[o][b] /\ batch[b].remaining >= held[o][b]

\* The units an order holds of a batch are there, reserved and not expired.
Dispatchable(o, b, take) ==
  /\ batch[b].reserved + take[b] >= held[o][b]
  /\ batch[b].remaining >= held[o][b]
  /\ batch[b].expiry >= today

\* READY_TO_SHIP -> OUT_FOR_DELIVERY: reserve what is not covered yet, then
\* dispatch the links the order had before, then issue the invoice.
Dispatch(a, o, d) ==
  /\ Move(a, o, d, "OUT_FOR_DELIVERY")
  /\ \E take \in Reservations(o) :
       /\ \A b \in Batch : held[o][b] > 0 => Dispatchable(o, b, take)
       /\ batch' = [b \in Batch |->
            [batch[b] EXCEPT !.reserved = @ + take[b] - held[o][b],
                             !.remaining = @ - held[o][b]]]
       /\ inventory' = [s \in Sku |->
            [total |-> inventory[s].total - Sum(held[o], BatchesOf(s)),
             reserved |-> MaxZero(inventory[s].reserved + Sum(take, BatchesOf(s))
                                    - Sum(held[o], BatchesOf(s)))]]
       /\ held' = [held EXCEPT ![o] = Plus(held[o], take, Batch)]
  /\ out' = [out EXCEPT ![o] = Plus(out[o], held[o], Batch)]
  /\ IssueInvoice(o)
  /\ UNCHANGED <<today, lastBatch, back>>

\* OUT_FOR_DELIVERY -> DELIVERED moves no stock.
Deliver(a, o, d) ==
  /\ Move(a, o, d, "DELIVERED")
  /\ UNCHANGED <<today, stock, invoices>>

\* Wrong variant: the aggregate gives up the cart, allocated or not.
CancelReservedByCart(a, o, d) ==
  /\ order[o].status \in {"PENDING", "READY_TO_SHIP"}
  /\ Move(a, o, d, "CANCELLED")
  /\ batch' = [b \in Batch |-> [batch[b] EXCEPT !.reserved = @ - held[o][b]]]
  /\ inventory' = [s \in Sku |-> [inventory[s] EXCEPT !.reserved = @ - order[o].cart[s]]]
  /\ held' = [held EXCEPT ![o] = [b \in Batch |-> 0]]
  /\ UNCHANGED <<today, lastBatch, out, back, invoices>>

\* Wrong variant: the aggregate keeps the reservation.
CancelReservedOnBatches(a, o, d) ==
  /\ order[o].status \in {"PENDING", "READY_TO_SHIP"}
  /\ Move(a, o, d, "CANCELLED")
  /\ batch' = [b \in Batch |-> [batch[b] EXCEPT !.reserved = @ - held[o][b]]]
  /\ held' = [held EXCEPT ![o] = [b \in Batch |-> 0]]
  /\ UNCHANGED <<today, inventory, lastBatch, out, back, invoices>>

\* Cancelled before dispatch: the reservation is released, its links deleted.
CancelReserved(a, o, d) ==
  /\ order[o].status \in {"PENDING", "READY_TO_SHIP"}
  /\ Move(a, o, d, "CANCELLED")
  /\ batch' = [b \in Batch |->
       [batch[b] EXCEPT !.reserved = IF held[o][b] > 0 THEN MaxZero(@ - held[o][b]) ELSE @]]
  /\ inventory' = [s \in Sku |->
       [inventory[s] EXCEPT !.reserved = MaxZero(@ - Sum(held[o], BatchesOf(s)))]]
  /\ held' = [held EXCEPT ![o] = [b \in Batch |-> 0]]
  /\ UNCHANGED <<today, lastBatch, out, back, invoices>>

\* Wrong variant: the goods come back to the aggregate and to no batch.
CancelDispatchedToAggregate(a, o, d) ==
  /\ order[o].status \notin {"PENDING", "READY_TO_SHIP"}
  /\ Move(a, o, d, "CANCELLED")
  /\ inventory' = [s \in Sku |->
       [inventory[s] EXCEPT !.total = @ + Sum(held[o], BatchesOf(s))]]
  /\ back' = [back EXCEPT ![o] = Plus(back[o], held[o], Batch)]
  /\ UNCHANGED <<today, batch, lastBatch, held, out, invoices>>

\* Wrong variant: the goods come back without a RETURN movement.
CancelDispatchedUnrecorded(a, o, d) ==
  /\ order[o].status \notin {"PENDING", "READY_TO_SHIP"}
  /\ Move(a, o, d, "CANCELLED")
  /\ batch' = [b \in Batch |-> [batch[b] EXCEPT !.remaining = @ + held[o][b]]]
  /\ inventory' = [s \in Sku |->
       [inventory[s] EXCEPT !.total = @ + Sum(held[o], BatchesOf(s))]]
  /\ UNCHANGED <<today, lastBatch, held, out, back, invoices>>

\* Cancelled after dispatch: the goods come back, the links stay.
CancelDispatched(a, o, d) ==
  /\ order[o].status \notin {"PENDING", "READY_TO_SHIP"}
  /\ Move(a, o, d, "CANCELLED")
  /\ batch' = [b \in Batch |-> [batch[b] EXCEPT !.remaining = @ + held[o][b]]]
  /\ inventory' = [s \in Sku |->
       [inventory[s] EXCEPT !.total = @ + Sum(held[o], BatchesOf(s))]]
  /\ back' = [back EXCEPT ![o] = Plus(back[o], held[o], Batch)]
  /\ UNCHANGED <<today, lastBatch, held, out, invoices>>

\* add_inventory_receipt: one new batch per item.
Receive(r) ==
  LET new == lastBatch + 1 .. lastBatch + Len(r)
      item(b) == r[b - lastBatch]
      arriving == [b \in new |-> item(b).quantity]
  IN  /\ lastBatch + Len(r) <= MaxBatch
      /\ lastBatch' = lastBatch + Len(r)
      /\ batch' = [b \in Batch |->
           IF b \notin new THEN batch[b]
           ELSE [sku |-> item(b).sku, expiry |-> item(b).expiry, received |-> arriving[b],
                 remaining |-> arriving[b], reserved |-> 0]]
      /\ inventory' = [s \in Sku |->
           [inventory[s] EXCEPT !.total = @ + Sum(arriving, {b \in new : item(b).sku = s})]]
      /\ UNCHANGED <<today, held, out, back, order, invoices>>

NextDay ==
  /\ today < MaxDay
  /\ today' = today + 1
  /\ UNCHANGED <<stock, order, invoices>>

Unbooked ==
  [status |-> "UNBOOKED", cart |-> [s \in Sku |-> 0], retailer |-> CHOOSE r \in Retailer : TRUE,
   driver |-> NoDriver, channel |-> "OFFLINE", trail |-> <<>>]

NoBatch == [sku |-> NoSku, expiry |-> Never, received |-> 0, remaining |-> 0, reserved |-> 0]

NoInvoice == [series |-> CHOOSE s \in Series : TRUE, serial |-> 0]

Init ==
  /\ today = 0
  /\ inventory = [s \in Sku |-> [total |-> 0, reserved |-> 0]]
  /\ batch = [b \in Batch |-> NoBatch]
  /\ lastBatch = 0
  /\ order = [o \in Order |-> Unbooked]
  /\ held = [o \in Order |-> [b \in Batch |-> 0]]
  /\ out = [o \in Order |-> [b \in Batch |-> 0]]
  /\ back = [o \in Order |-> [b \in Batch |-> 0]]
  /\ invoice = [o \in Order |-> NoInvoice]
  /\ counter = [s \in Series |-> 0]

UpdateStatus(a, o, d) ==
  \/ MarkReadyToShip(a, o, d)
  \/ Dispatch(a, o, d)
  \/ Deliver(a, o, d)
  \/ CancelReserved(a, o, d)
  \/ CancelDispatched(a, o, d)

Next ==
  \/ \E a \in Actor, o \in Order, r \in Retailer, cart \in Carts : CreateOrder(a, o, r, cart)
  \/ \E a \in Actor, o \in Order, d \in Driver \cup {NoDriver} : UpdateStatus(a, o, d)
  \/ \E r \in Receipts : Receive(r)
  \/ NextDay

Spec == Init /\ [][Next]_vars

-----------------------------------------------------------------------------
(* What the stock records promise.                                         *)

Quantities == [Batch -> Nat]

BatchRow ==
  [sku : Sku \cup {NoSku}, expiry : Day \cup {Never},
   received : Nat, remaining : Nat, reserved : Nat]

OrderRow ==
  [status : OrderStatus, cart : [Sku -> Nat], retailer : Retailer,
   driver : Driver \cup {NoDriver}, channel : Channel,
   trail : Seq([status : OrderStatus, role : Roles])]

TypeOK ==
  /\ today \in Day
  /\ inventory \in [Sku -> [total : Nat, reserved : Nat]]
  /\ batch \in [Batch -> BatchRow]
  /\ lastBatch \in 0 .. MaxBatch
  /\ order \in [Order -> OrderRow]
  /\ held \in [Order -> Quantities]
  /\ out \in [Order -> Quantities]
  /\ back \in [Order -> Quantities]
  /\ invoice \in [Order -> [series : Series, serial : Nat]]
  /\ counter \in [Series -> Nat]

Remaining == [b \in Batch |-> batch[b].remaining]
Reserved == [b \in Batch |-> batch[b].reserved]

\* The orders whose links are reservations that have not been dispatched.
Open == {o \in Order : order[o].status \in {"PENDING", "READY_TO_SHIP"}}

\* The orders whose goods have left the warehouse and not come back.
Away == {o \in Order : order[o].status \in {"OUT_FOR_DELIVERY", "DELIVERED"}}

\* I1 and I2 of docs/inventory-invariants.md: no batch and no SKU has more
\* units reserved than it has, so the CHECK constraints of the database never
\* turn a reservation, a dispatch or a release into a failed request.
ReservedWithinStock ==
  /\ \A b \in Batch : batch[b].reserved <= batch[b].remaining
  /\ \A s \in Sku : inventory[s].reserved <= inventory[s].total

\* I3: the aggregate row of a SKU counts exactly the units of its batches.
TotalIsSumOfBatches ==
  \A s \in Sku : inventory[s].total = Sum(Remaining, BatchesOf(s))

\* I4: the aggregate reservation of a SKU is that of its batches together.
ReservedIsSumOfBatches ==
  \A s \in Sku : inventory[s].reserved = Sum(Reserved, BatchesOf(s))

\* I5: a unit of a batch is reserved exactly when a link of an order that is
\* still open accounts for it: no reservation outlives its order.
ReservedIsHeldByOpenOrders ==
  \A b \in Batch : batch[b].reserved = Sum([o \in Order |-> held[o][b]], Open)

\* Summing the signed movements of a batch reproduces what is on hand of it
\* (the opening statement of stock_ledger.py).
LedgerReproducesStock ==
  \A b \in Batch :
    batch[b].remaining + Sum([o \in Order |-> out[o][b]], Order) =
      batch[b].received + Sum([o \in Order |-> back[o][b]], Order)

\* The movements recorded for an order agree with its status: its allocation
\* is away while it is out or delivered, came back once, and once only, if it
\* was cancelled after that, and never left otherwise.
GoodsFollowStatus ==
  \A o \in Order, b \in Batch :
    /\ out[o][b] = back[o][b] + (IF o \in Away THEN held[o][b] ELSE 0)
    /\ out[o][b] \in {0, held[o][b]}

\* An order that was marked ready holds, and one that left has shipped, every
\* line in full and nothing else: there are no partial picks.
ReadyMeansFullyAllocated ==
  \A o \in Order :
    order[o].status \in {"READY_TO_SHIP", "OUT_FOR_DELIVERY", "DELIVERED"} =>
      \A s \in Sku : Sum(held[o], BatchesOf(s)) = order[o].cart[s]

\* An order has an invoice exactly when goods left the warehouse for it, also
\* after they came back, and the numbers of a series are used without a gap
\* and without a repetition.
InvoicedIffDispatched ==
  /\ \A o \in Order : invoice[o].serial > 0 <=> \E b \in Batch : out[o][b] > 0
  /\ \A s \in Series :
       /\ 1 .. counter[s] = {invoice[o].serial : o \in {p \in Order : invoice[p].series = s}} \ {0}
       /\ \A o, p \in Order :
            invoice[o] = invoice[p] /\ invoice[o].serial > 0 => o = p

\* A shop may cancel its own order until the goods leave, and not after.
RetailerCancelsBeforeDispatch ==
  \A o \in Order :
    (\E i \in DOMAIN order[o].trail :
        order[o].trail[i] = [status |-> "CANCELLED", role |-> "RETAILER"]) =>
      \A b \in Batch : out[o][b] = 0 /\ held[o][b] = 0

\* What no order has reached yet is untouched: batches that have not arrived
\* hold nothing, orders not marked ready hold nothing, orders not dispatched
\* have shipped nothing.
NothingAhead ==
  /\ \A b \in Batch : b > lastBatch =>
       /\ batch[b].sku = NoSku
       /\ batch[b].received = 0 /\ batch[b].remaining = 0 /\ batch[b].reserved = 0
       /\ \A o \in Order : held[o][b] = 0
  /\ \A o \in Order, b \in Batch :
       /\ order[o].status \in {"UNBOOKED", "PENDING"} => held[o][b] = 0
       /\ order[o].status \in {"UNBOOKED", "PENDING", "READY_TO_SHIP"} => out[o][b] = 0

\* The inductive invariant the proofs rest on: the promises above hold because
\* they hold together.
IInv ==
  /\ TypeOK
  /\ ReservedWithinStock
  /\ TotalIsSumOfBatches
  /\ ReservedIsSumOfBatches
  /\ ReservedIsHeldByOpenOrders
  /\ LedgerReproducesStock
  /\ GoodsFollowStatus
  /\ ReadyMeansFullyAllocated
  /\ NothingAhead

\* A unit is taken from a batch only when every unexpired batch of the SKU
\* that expires earlier is reserved to its last unit.
FirstExpiryFirstOut ==
  [][\A b, c \in Batch :
       /\ Reserved[c]' > Reserved[c]
       /\ batch[b].sku = batch[c].sku
       /\ today <= batch[b].expiry /\ batch[b].expiry < batch[c].expiry
       => batch'[b].reserved = batch'[b].remaining]_vars

\* Stock that expired between reservation and dispatch does not leave.
NoExpiredDispatch ==
  [][\A o \in Order, b \in Batch : out'[o][b] > out[o][b] => today <= batch[b].expiry]_vars
=============================================================================
