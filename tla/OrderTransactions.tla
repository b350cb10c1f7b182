-------------------------- MODULE OrderTransactions --------------------------
(***************************************************************************)
(* The handlers of OrderInventory as they run: requests side by side, each *)
(* one PostgreSQL transaction under READ COMMITTED and one SQLAlchemy      *)
(* session (autoflush off).  A SELECT ... FOR UPDATE waits for the lock of *)
(* its row and reads what is committed; the handler then works on the copy *)
(* of the row its session holds, and everything it changed is written when *)
(* it commits.  A request that raises rolls back.  A circle of requests    *)
(* waiting for each other ends when the database aborts one of them.       *)
(*                                                                         *)
(* The lines of an order are a sequence, so that orders booked without the *)
(* storefront's merging of duplicate SKUs can be studied too.  Every user  *)
(* is an administrator, no stock expires, and there is one brand and one   *)
(* channel: what those decide is in OrderInventory.                        *)
(***************************************************************************)
EXTENDS Integers, Sequences, FiniteSets, QuantitySums, SequencesExt

CONSTANTS
  Sku,        \* the products stocked
  NoSku,      \* the SKU of a batch that has not arrived
  Order,      \* the ids orders are booked under
  LinesOf,    \* the lines an order is booked with
  Receipts,   \* the receipts that arrive
  MaxBatch,   \* bound: batches received
  Request,    \* the server's workers: one request each at a time
  NoRequest   \* the holder of a row nobody has locked

Batch == 1 .. MaxBatch
Line == [sku : Sku, quantity : Nat \ {0}]

ASSUME LinesAssumption == LinesOf \in [Order -> Seq(Line)]

VARIABLES
  stocked,    \* the SKUs that have an Inventory row
  inventory,  \* Inventory rows; an absent row counts as zero
  batch,      \* SKUBatch rows
  lastBatch,  \* the last SKUBatch id in use
  order,      \* Order rows: status and trail
  links,      \* OrderItemBatch rows of each line, in the order inserted
  out,        \* InventoryTransaction OUT rows, summed by order and batch
  back,       \* InventoryTransaction RETURN rows, likewise
  invoice,    \* the Invoice of an order
  counter,    \* InvoiceNumberCounter rows
  lock,       \* the request that holds a row, or NoRequest
  session     \* what each request is doing, and its copies of rows

tables == <<stocked, inventory, batch, lastBatch, order, links, out, back, invoice, counter>>
vars == <<tables, lock, session>>

-----------------------------------------------------------------------------
(* The atomic handlers these requests are to amount to.                    *)

Never == 1
series == <<"code", "OFFLINE">>
admin == [role |-> "ADMIN", shops |-> {}, employee |-> "nobody"]

CartOf ==
  [o \in Order |-> [s \in Sku |->
     LET ls == {l \in DOMAIN LinesOf[o] : LinesOf[o][l].sku = s}
     IN  Sum([l \in DOMAIN LinesOf[o] |-> LinesOf[o][l].quantity], ls)]]

\* The rows of OrderInventory, from those here.
OrderRows ==
  [o \in Order |->
     LET booked == order[o].status # "UNBOOKED"
         assigned == \E i \in DOMAIN order[o].trail : order[o].trail[i].status = "READY_TO_SHIP"
     IN  [status |-> order[o].status,
          cart |-> IF booked THEN CartOf[o] ELSE [s \in Sku |-> 0],
          retailer |-> "shop", driver |-> IF assigned THEN "driver" ELSE "nobody",
          channel |-> "OFFLINE", trail |-> order[o].trail]]

LinkIds(o) == {<<l, i>> \in (DOMAIN links[o]) \X Batch : i <= Len(links[o][l])}

HeldRows ==
  [o \in Order |-> [b \in Batch |->
     Sum([k \in LinkIds(o) |-> links[o][k[1]][k[2]].quantity],
         {k \in LinkIds(o) : links[o][k[1]][k[2]].batch = b})]]

Atomic ==
  INSTANCE OrderInventory WITH
    Brand <- {"brand"}, BrandOf <- [s \in Sku |-> "brand"],
    Code <- {"code"}, CodeOf <- [b \in {"brand"} |-> "code"],
    Retailer <- {"shop"}, Driver <- {"driver"}, NoDriver <- "nobody",
    Actor <- {admin}, Carts <- {CartOf[o] : o \in Order}, MaxDay <- 0,
    today <- 0, order <- OrderRows, held <- HeldRows

-----------------------------------------------------------------------------
(* Locks and sessions.                                                     *)

Rows ==
  ({"order"} \X Order) \cup ({"inventory"} \X Sku) \cup ({"batch"} \X Batch) \cup {<<"counter", series>>}

\* goal is the status asked for, "RECEIVE" for a receipt, "" for an idle worker.
Idle ==
  [goal |-> "", order |-> CHOOSE o \in Order : TRUE, receipt |-> <<>>, todo |-> <<>>,
   inventory |-> <<>>, batch |-> <<>>, asked |-> 0, reserved |-> <<>>, serial |-> 0]

\* The statement a request is at, and the copies its session has of rows.
Statement(t) == Head(session[t].todo)

At(t, what) == session[t].todo # <<>> /\ Statement(t).do = what

\* A row stays as the session has it once loaded, and is read when it is not.
Row(t, s) == IF s \in DOMAIN session[t].inventory THEN session[t].inventory[s] ELSE inventory[s]
BatchRow(t, b) == IF b \in DOMAIN session[t].batch THEN session[t].batch[b] ELSE batch[b]

With(f, x, y) == [z \in DOMAIN f \cup {x} |-> IF z = x THEN y ELSE f[z]]

\* SELECT ... FOR UPDATE waits until nobody else holds the row ...
Granted(t) == lock[Statement(t).row] \in {NoRequest, t}

\* ... locks it, and the handler goes on with its session as in s ...
Proceed(t, s) ==
  /\ lock' = [lock EXCEPT ![Statement(t).row] = t]
  /\ session' = [session EXCEPT ![t] = [s EXCEPT !.todo = Tail(session[t].todo)]]
  /\ UNCHANGED tables

\* ... until the transaction ends.
Release(t) ==
  /\ session' = [session EXCEPT ![t] = Idle]
  /\ lock' = [r \in Rows |-> IF lock[r] = t THEN NoRequest ELSE lock[r]]

\* Wrong variant: an exception that leaves the session and its locks open.
RaiseLeaking(t) ==
  /\ session' = [session EXCEPT ![t] = Idle]
  /\ UNCHANGED <<tables, lock>>

\* An exception: the session is closed, which rolls the transaction back.
Raise(t) == Release(t) /\ UNCHANGED tables

-----------------------------------------------------------------------------
(* The statements of a handler.                                            *)

OnInventory(what, l, s, q) ==
  [do |-> what, row |-> <<"inventory", s>>, line |-> l, sku |-> s, batch |-> 0, quantity |-> q]

OnBatch(what, l, s, b, q) ==
  [do |-> what, row |-> <<"batch", b>>, line |-> l, sku |-> s, batch |-> b, quantity |-> q]

\* For every line of an order, in order, the statements F(line).
PerLine(o, F(_)) == FlattenSeq([l \in DOMAIN LinesOf[o] |-> F(l)])

PerLink(o, l, F(_)) == FlattenSeq([i \in DOMAIN links[o][l] |-> F(links[o][l][i])])

Allocated(o, l) ==
  Sum([i \in DOMAIN links[o][l] |-> links[o][l][i].quantity], DOMAIN links[o][l])

\* _reserve_inventory_for_order visits the lines that are not covered.
Reserving(o) ==
  LET F(l) == LET line == LinesOf[o][l]
              IN  IF Allocated(o, l) >= line.quantity THEN <<>>
                  ELSE <<OnInventory("reserve", l, line.sku, line.quantity)>>
  IN  PerLine(o, F)

\* _dispatch_reserved_inventory and _release_reserved_inventory lock the
\* inventory row of a line, then each batch it is linked to.
PickingUp(o, what) ==
  LET F(l) == LET s == LinesOf[o][l].sku
                  G(k) == <<OnBatch(what, l, s, k.batch, k.quantity)>>
              IN  <<OnInventory("inventory", l, s, 0)>> \o PerLink(o, l, G)
  IN  PerLine(o, F)

\* _restore_dispatched_inventory locks a batch, then the inventory row, for
\* every link of every line.
Restoring(o) ==
  LET F(l) == LET s == LinesOf[o][l].sku
                  G(k) == << OnBatch("restock", l, s, k.batch, k.quantity),
                             OnInventory("recount", l, s, k.quantity) >>
              IN  PerLink(o, l, G)
  IN  PerLine(o, F)

\* issue_invoice_for_order numbers an order that has no invoice yet.
Numbering(o) ==
  IF invoice[o].serial > 0 THEN <<>> ELSE << [do |-> "number", row |-> <<"counter", series>>] >>

\* What update_order_status does once it holds the order.
Program(o, next) ==
  CASE next = "READY_TO_SHIP" -> Reserving(o)
    [] next = "OUT_FOR_DELIVERY" -> Reserving(o) \o PickingUp(o, "dispatch") \o Numbering(o)
    [] next = "DELIVERED" -> <<>>
    [] next = "CANCELLED" /\ order[o].status \in {"PENDING", "READY_TO_SHIP"} ->
         PickingUp(o, "release")
    [] OTHER -> Restoring(o)

Legal(o, next) ==
  \E m \in Atomic!AllowedTransitions : m[1] = order[o].status /\ m[2] = next

\* create_outgoing_order locks nothing and touches no stock.
Book(o) ==
  /\ order[o].status = "UNBOOKED"
  /\ order' = [order EXCEPT ![o] =
       [status |-> "PENDING", trail |-> <<[status |-> "PENDING", role |-> "ADMIN"]>>]]
  /\ UNCHANGED <<stocked, inventory, batch, lastBatch, links, out, back, invoice, counter,
                 lock, session>>

\* A request to move an order starts by asking for the lock of its row.
Begin(t, o, next) ==
  /\ session[t] = Idle
  /\ session' = [session EXCEPT ![t] =
       [Idle EXCEPT !.goal = next, !.order = o,
                    !.todo = <<[do |-> "order", row |-> <<"order", o>>]>>]]
  /\ UNCHANGED <<tables, lock>>

\* Wrong variant: the status is read and checked without locking the order.
ReadOrderUnlocked(t) ==
  LET o == session[t].order
      next == session[t].goal
  IN  /\ At(t, "order")
      /\ IF Legal(o, next)
         THEN session' = [session EXCEPT ![t].todo = Program(o, next)] /\ UNCHANGED <<tables, lock>>
         ELSE Raise(t)

\* The status is read under the lock and checked against the transitions.
ReadOrder(t) ==
  LET o == session[t].order
      next == session[t].goal
  IN  /\ At(t, "order")
      /\ Granted(t)
      /\ IF Legal(o, next)
         THEN /\ lock' = [lock EXCEPT ![<<"order", o>>] = t]
              /\ session' = [session EXCEPT ![t].todo = Program(o, next)]
              /\ UNCHANGED tables
         ELSE Raise(t)

\* The batches the query returns: read from the tables, sorted by expiry.
Candidates(s) == {b \in Batch : batch[b].sku = s /\ batch[b].remaining > batch[b].reserved}

ByExpiry(S) ==
  {q \in SetToSeqs(S) : \A i, j \in DOMAIN q : i < j => batch[q[i]].expiry <= batch[q[j]].expiry}

\* The head of the loop over the lines: the aggregate pre-check, then the
\* batch query, which locks its rows one after the other.
ReserveLine(t) ==
  LET i == Statement(t)
      row == Row(t, i.sku)
  IN  /\ At(t, "reserve")
      /\ Granted(t)
      /\ IF /\ i.sku \in stocked
            /\ row.total - row.reserved >= i.quantity
            /\ Candidates(i.sku) # {}
         THEN \E q \in ByExpiry(Candidates(i.sku)) :
                /\ lock' = [lock EXCEPT ![i.row] = t]
                /\ session' = [session EXCEPT
                     ![t].inventory = With(@, i.sku, row),
                     ![t].asked = i.quantity,
                     ![t].todo =
                       [n \in DOMAIN q |-> OnBatch("offer", i.line, i.sku, q[n], 0)] \o Tail(@)]
                /\ UNCHANGED tables
         ELSE Raise(t)

Smaller(m, n) == IF m < n THEN m ELSE n
MaxZero(n) == IF n < 0 THEN 0 ELSE n

\* The body of the batch loop; after the last batch the line must be covered.
OfferBatch(t) ==
  LET i == Statement(t)
      row == BatchRow(t, i.batch)
      taken == MaxZero(Smaller(session[t].asked, row.remaining - row.reserved))
      todo == Tail(session[t].todo)
      last == todo = <<>> \/ Head(todo).do # "offer"
  IN  /\ At(t, "offer")
      /\ Granted(t)
      /\ IF last /\ session[t].asked > taken THEN Raise(t)
         ELSE Proceed(t, [session[t] EXCEPT
                !.batch = With(@, i.batch, [row EXCEPT !.reserved = @ + taken]),
                !.inventory = With(@, i.sku, [Row(t, i.sku) EXCEPT !.reserved = @ + taken]),
                !.asked = @ - taken,
                !.reserved = IF taken = 0 THEN @
                  ELSE Append(@, [line |-> i.line, batch |-> i.batch, quantity |-> taken])])

\* Dispatch and release load the inventory row of a line under its lock.
OpenInventory(t) ==
  /\ At(t, "inventory")
  /\ IF Statement(t).sku \in stocked
     THEN Granted(t) /\ Proceed(t, [session[t] EXCEPT
            !.inventory = With(@, Statement(t).sku, Row(t, Statement(t).sku))])
     ELSE IF session[t].goal = "CANCELLED"
          THEN /\ session' = [session EXCEPT ![t].todo = Tail(@)]
               /\ UNCHANGED <<tables, lock>>
          ELSE Raise(t)

\* A link is dispatched if the batch still has its units, reserved and there.
DispatchLink(t) ==
  LET i == Statement(t)
      row == BatchRow(t, i.batch)
      agg == Row(t, i.sku)
  IN  /\ At(t, "dispatch")
      /\ Granted(t)
      /\ IF row.reserved < i.quantity \/ row.remaining < i.quantity THEN Raise(t)
         ELSE Proceed(t, [session[t] EXCEPT
                !.batch = With(@, i.batch, [row EXCEPT !.reserved = @ - i.quantity,
                                                       !.remaining = @ - i.quantity]),
                !.inventory = With(@, i.sku, [total |-> agg.total - i.quantity,
                                              reserved |-> MaxZero(agg.reserved - i.quantity)])])

ReleaseLink(t) ==
  LET i == Statement(t)
      row == BatchRow(t, i.batch)
      agg == Row(t, i.sku)
  IN  /\ At(t, "release")
      /\ Granted(t)
      /\ Proceed(t, [session[t] EXCEPT
           !.batch = With(@, i.batch, [row EXCEPT !.reserved = MaxZero(@ - i.quantity)]),
           !.inventory = With(@, i.sku, [agg EXCEPT !.reserved = MaxZero(@ - i.quantity)])])

\* Wrong variant: the batch is reached through the link, without a lock.
RestockLinkUnlocked(t) ==
  LET i == Statement(t)
  IN  /\ At(t, "restock")
      /\ session' = [session EXCEPT
           ![t].batch = With(@, i.batch,
             [BatchRow(t, i.batch) EXCEPT !.remaining = @ + i.quantity]),
           ![t].todo = Tail(@)]
      /\ UNCHANGED <<tables, lock>>

\* populate_existing() overwrites the session's copy with the locked row.
RestockLink(t) ==
  LET i == Statement(t)
  IN  /\ At(t, "restock")
      /\ Granted(t)
      /\ Proceed(t, [session[t] EXCEPT
           !.batch = With(@, i.batch, [batch[i.batch] EXCEPT !.remaining = @ + i.quantity])])

RecountLink(t) ==
  LET i == Statement(t)
  IN  /\ At(t, "recount")
      /\ Granted(t)
      /\ Proceed(t, [session[t] EXCEPT
           !.inventory = With(@, i.sku, [Row(t, i.sku) EXCEPT !.total = @ + i.quantity])])

\* The upsert of the counter locks its row and returns the next serial.
DrawNumber(t) ==
  /\ At(t, "number")
  /\ Granted(t)
  /\ Proceed(t, [session[t] EXCEPT !.serial = counter[series] + 1])

\* A receipt, item by item: the aggregate row is locked if there is one, else
\* it is to be inserted.  InFlight keeps the bound on the batches.
InFlight == Sum([t \in Request |-> Len(session[t].receipt)], Request)

BeginReceipt(t, r) ==
  /\ session[t] = Idle
  /\ lastBatch + InFlight + Len(r) <= MaxBatch
  /\ session' = [session EXCEPT ![t] =
       [Idle EXCEPT !.goal = "RECEIVE", !.receipt = r,
                    !.todo = [n \in DOMAIN r |-> OnInventory("stock", n, r[n].sku, r[n].quantity)]]]
  /\ UNCHANGED <<tables, lock>>

StockItem(t) ==
  LET i == Statement(t)
      locks == i.sku \in stocked /\ i.sku \notin DOMAIN session[t].inventory
  IN  /\ At(t, "stock")
      /\ locks => Granted(t)
      /\ lock' = IF locks THEN [lock EXCEPT ![i.row] = t] ELSE lock
      /\ session' = [session EXCEPT
           ![t].inventory = With(@, i.sku, [Row(t, i.sku) EXCEPT !.total = @ + i.quantity]),
           ![t].todo = Tail(@)]
      /\ UNCHANGED tables

-----------------------------------------------------------------------------
(* The end of a transaction.                                               *)

Finished(t) == session[t].goal # "" /\ session[t].todo = <<>>

\* The rows the session holds are written; quantities that the session never
\* loaded stay as they are.
WriteRows(t) ==
  /\ inventory' = [s \in Sku |-> Row(t, s)]
  /\ stocked' = stocked \cup DOMAIN session[t].inventory

\* The links a dispatch ships and a restore brings back are those the order
\* had when the request began: the session has that collection loaded.
Moved(o) == HeldRows[o]

CommitOrder(t) ==
  LET o == session[t].order
      next == session[t].goal
      was == order[o].status
      mine(l) == SelectSeq(session[t].reserved, LAMBDA k : k.line = l)
      added(l) == [i \in DOMAIN mine(l) |->
                     [batch |-> mine(l)[i].batch, quantity |-> mine(l)[i].quantity]]
  IN  /\ Finished(t) /\ next # "RECEIVE"
      /\ WriteRows(t)
      /\ batch' = [b \in Batch |-> BatchRow(t, b)]
      /\ order' = [order EXCEPT ![o] =
           [status |-> next, trail |-> Append(@.trail, [status |-> next, role |-> "ADMIN"])]]
      /\ links' = [links EXCEPT ![o] =
           IF next = "CANCELLED" /\ was \in {"PENDING", "READY_TO_SHIP"}
           THEN [l \in DOMAIN LinesOf[o] |-> <<>>]
           ELSE [l \in DOMAIN LinesOf[o] |-> links[o][l] \o added(l)]]
      /\ out' = IF next # "OUT_FOR_DELIVERY" THEN out
                ELSE [out EXCEPT ![o] = Plus(@, Moved(o), Batch)]
      /\ back' = IF next # "CANCELLED" \/ was \in {"PENDING", "READY_TO_SHIP"} THEN back
                 ELSE [back EXCEPT ![o] = Plus(@, Moved(o), Batch)]
      /\ IF session[t].serial = 0 THEN UNCHANGED <<invoice, counter>>
         ELSE /\ counter' = [counter EXCEPT ![series] = session[t].serial]
              /\ invoice' = [invoice EXCEPT ![o] = [series |-> series, serial |-> session[t].serial]]
      /\ Release(t)
      /\ UNCHANGED lastBatch

\* A row that was to be inserted may have been inserted by another receipt:
\* the primary key of inventory then refuses this one.
CommitReceipt(t) ==
  LET r == session[t].receipt
      new == lastBatch + 1 .. lastBatch + Len(r)
      item(b) == r[b - lastBatch]
  IN  /\ Finished(t) /\ session[t].goal = "RECEIVE"
      /\ IF \E s \in DOMAIN session[t].inventory : s \in stocked /\ lock[<<"inventory", s>>] # t
         THEN Raise(t)
         ELSE /\ WriteRows(t)
              /\ lastBatch' = lastBatch + Len(r)
              /\ batch' = [b \in Batch |->
                   IF b \notin new THEN batch[b]
                   ELSE [sku |-> item(b).sku, expiry |-> item(b).expiry,
                         received |-> item(b).quantity, remaining |-> item(b).quantity,
                         reserved |-> 0]]
              /\ Release(t)
              /\ UNCHANGED <<order, links, out, back, invoice, counter>>

Waits(t, u) == session[t].todo # <<>> /\ lock[Statement(t).row] = u /\ t # u

\* Requests that wait for each other in a circle.
Stuck(t) ==
  \E C \in SUBSET Request : t \in C /\ \A u \in C : \E v \in C : Waits(u, v)

\* The database aborts a request of the circle; the handler does not retry.
AbortVictim(t) == Stuck(t) /\ Raise(t)

\* A worker or its connection dies: the database rolls its transaction back.
Die(t) == session[t] # Idle /\ Raise(t)

Step(t) ==
  \/ ReadOrder(t) \/ ReserveLine(t) \/ OfferBatch(t) \/ OpenInventory(t) \/ DispatchLink(t)
  \/ ReleaseLink(t) \/ RestockLink(t) \/ RecountLink(t) \/ DrawNumber(t) \/ StockItem(t)
  \/ CommitOrder(t) \/ CommitReceipt(t)

Init ==
  /\ stocked = {}
  /\ inventory = [s \in Sku |-> [total |-> 0, reserved |-> 0]]
  /\ batch = [b \in Batch |-> Atomic!NoBatch]
  /\ lastBatch = 0
  /\ order = [o \in Order |-> [status |-> "UNBOOKED", trail |-> <<>>]]
  /\ links = [o \in Order |-> [l \in DOMAIN LinesOf[o] |-> <<>>]]
  /\ out = [o \in Order |-> [b \in Batch |-> 0]]
  /\ back = [o \in Order |-> [b \in Batch |-> 0]]
  /\ invoice = [o \in Order |-> Atomic!NoInvoice]
  /\ counter = [s \in Atomic!Series |-> 0]
  /\ lock = [r \in Rows |-> NoRequest]
  /\ session = [t \in Request |-> Idle]

Next ==
  \/ \E o \in Order : Book(o)
  \/ \E t \in Request :
       \/ \E o \in Order, next \in {"READY_TO_SHIP", "OUT_FOR_DELIVERY", "DELIVERED", "CANCELLED"} :
            Begin(t, o, next)
       \/ \E r \in Receipts : BeginReceipt(t, r)
       \/ Step(t)
       \/ AbortVictim(t)
       \/ Die(t)

Spec == Init /\ [][Next]_vars

\* A worker goes on with its request whenever it can; the lock queues of the
\* database are first come, first served, so that a request that waits for a
\* row gets it; the deadlock detector runs.  Nothing says a worker must die,
\* nor that anyone sends a request.
Fairness == \A t \in Request : SF_vars(Step(t)) /\ WF_vars(AbortVictim(t))

FairSpec == Spec /\ Fairness

-----------------------------------------------------------------------------
(* What the transactions promise.                                          *)

\* Requests that run side by side amount to handlers that run one at a time:
\* every commit is a step of OrderInventory, and nothing else is seen.
RequestsAreAtomic == Atomic!Spec

\* I3 of docs/inventory-invariants.md over the rows the requests write.
TotalIsSumOfBatches ==
  \A s \in Sku :
    inventory[s].total =
      Sum([b \in Batch |-> batch[b].remaining], {b \in Batch : batch[b].sku = s})

\* Every request ends: waiting for locks in opposite orders, as cancellations
\* of dispatched orders and other handlers do, is broken up by the database,
\* and no request is put off for ever by the others.
EveryRequestEnds ==
  \A t \in Request : session[t].goal # "" ~> session[t].goal = ""
=============================================================================
