---------------------------- MODULE StockLedger ----------------------------
(***************************************************************************)
(* The stock ledger of app/services/stock_ledger.py over the stock and the *)
(* orders of OrderInventory, with the two ways stock records move that     *)
(* OrderInventory leaves out: a credit note that puts units back into the  *)
(* aggregate and into no batch (docs/inventory-invariants.md section 3),   *)
(* and the cancellation of the order a receipt is booked as.               *)
(*                                                                         *)
(* The ledger reads inventory_transactions rows by day, so a row is        *)
(* represented by its contribution to the day's total of its SKU and kind. *)
(* Rows written since migration 0070 refer to the order, and the credit    *)
(* note, that caused them; older rows do not.                              *)
(***************************************************************************)
EXTENDS OrderInventory

VARIABLES
  movement,   \* units moved on a day, by SKU and transaction_type
  credited,   \* units of a SKU the credit notes of an order take back
  restocked,  \* units of a SKU credit notes put back into the aggregate
  receipt,    \* the orders receipts are booked as: their status
  migrated,   \* migration 0070 has run: rows refer to orders
  tied        \* the orders, and receipts' orders, that some row refers to

records == <<movement, credited, restocked, receipt, migrated, tied>>

Kind == {"IN", "OUT", "RETURN"}

-----------------------------------------------------------------------------
(* Writing the rows.                                                       *)

\* Rows of one kind are added today.
Record(kind, units) ==
  movement' = [movement EXCEPT ![today] = [s \in Sku |->
    [movement[today][s] EXCEPT ![kind] = @ + units[s]]]]

Tie(causes) == tied' = IF migrated THEN tied \cup causes ELSE tied

\* Units of a SKU that an order holds of all batches.
Allocated(o) == [s \in Sku |-> Sum(held[o], BatchesOf(s))]

Book(a, o, r, cart) ==
  /\ CreateOrder(a, o, r, cart)
  /\ UNCHANGED records

Ship(a, o, d) ==
  /\ Dispatch(a, o, d)
  /\ Record("OUT", Allocated(o))
  /\ Tie({<<"order", o>>})
  /\ UNCHANGED <<credited, restocked, receipt, migrated>>

TakeBack(a, o, d) ==
  /\ CancelDispatched(a, o, d)
  /\ Record("RETURN", Allocated(o))
  /\ Tie({<<"order", o>>})
  /\ UNCHANGED <<credited, restocked, receipt, migrated>>

MoveWithoutRows(a, o, d) ==
  /\ MarkReadyToShip(a, o, d) \/ Deliver(a, o, d) \/ CancelReserved(a, o, d)
  /\ UNCHANGED records

\* A receipt is booked as a delivered order from the brand to the warehouse.
BookReceipt(r) ==
  /\ Receive(r)
  /\ Record("IN", [s \in Sku |->
       Sum([i \in DOMAIN r |-> r[i].quantity], {i \in DOMAIN r : r[i].sku = s})])
  /\ receipt' = Append(receipt, "DELIVERED")
  /\ Tie({<<"receipt", Len(receipt) + 1>>})
  /\ UNCHANGED <<credited, restocked, migrated>>

\* An admin cancels the order of a receipt: it is no outgoing order, so
\* _restore_dispatched_inventory returns at once and its stock stays.
CancelReceipt(a, i) ==
  /\ a.role = "ADMIN"
  /\ receipt[i] = "DELIVERED"
  /\ receipt' = [receipt EXCEPT ![i] = "CANCELLED"]
  /\ UNCHANGED <<vars, movement, credited, restocked, migrated, tied>>

\* Wrong variant: the units come back without a RETURN row.
CreditUnrecorded(a, o, s, q, restock) ==
  /\ a.role \in {"ADMIN", "ACCOUNTANT"}
  /\ order[o].status = "DELIVERED"
  /\ credited[o][s] + q <= order[o].cart[s]
  /\ credited' = [credited EXCEPT ![o][s] = @ + q]
  /\ inventory' = [inventory EXCEPT ![s].total = IF restock THEN @ + q ELSE @]
  /\ UNCHANGED <<today, batch, lastBatch, held, out, back, order, invoices,
                 movement, restocked, receipt, migrated, tied>>

\* create_credit_note with one line; Settlement has the money of it.
Credit(a, o, s, q, restock) ==
  /\ a.role \in {"ADMIN", "ACCOUNTANT"}
  /\ order[o].status = "DELIVERED"
  /\ credited[o][s] + q <= order[o].cart[s]
  /\ credited' = [credited EXCEPT ![o][s] = @ + q]
  /\ LET returned == [t \in Sku |-> IF restock /\ t = s THEN q ELSE 0]
     IN  /\ inventory' = [inventory EXCEPT ![s].total = @ + returned[s]]
         /\ restocked' = [restocked EXCEPT ![s] = @ + returned[s]]
         /\ Record("RETURN", returned)
         /\ Tie(IF restock THEN {<<"order", o>>} ELSE {})
  /\ UNCHANGED <<today, batch, lastBatch, held, out, back, order, invoices, receipt, migrated>>

\* Migration 0070: existing rows stay without a reference.
Migrate ==
  /\ ~migrated
  /\ migrated' = TRUE
  /\ UNCHANGED <<vars, movement, credited, restocked, receipt, tied>>

DayPasses ==
  /\ NextDay
  /\ UNCHANGED records

NoMovement == [k \in Kind |-> 0]

LedgerInit ==
  /\ Init
  /\ movement = [d \in Day |-> [s \in Sku |-> NoMovement]]
  /\ credited = [o \in Order |-> [s \in Sku |-> 0]]
  /\ restocked = [s \in Sku |-> 0]
  /\ receipt = <<>>
  /\ migrated = FALSE
  /\ tied = {}

LedgerNext ==
  \/ \E a \in Actor, o \in Order, r \in Retailer, cart \in Carts : Book(a, o, r, cart)
  \/ \E a \in Actor, o \in Order, d \in Driver \cup {NoDriver} :
       Ship(a, o, d) \/ TakeBack(a, o, d) \/ MoveWithoutRows(a, o, d)
  \/ \E r \in Receipts : BookReceipt(r)
  \/ \E a \in Actor, i \in DOMAIN receipt : CancelReceipt(a, i)
  \/ \E a \in Actor, o \in Order, s \in Sku, q \in {1}, restock \in BOOLEAN :
       Credit(a, o, s, q, restock)
  \/ Migrate
  \/ DayPasses

-----------------------------------------------------------------------------
(* Reading the ledger.                                                     *)

\* Units of one kind moved on the days of a set.
Moved(s, kind, days) == Sum([d \in Day |-> movement[d][s][kind]], days)

\* _summary: what the ledger page shows for a SKU from one day to another.
Summary(s, from, to) ==
  LET range == {d \in Day : from <= d /\ d <= to}
      before == {d \in Day : d < from}
      opening == Moved(s, "IN", before) - Moved(s, "OUT", before) + Moved(s, "RETURN", before)
  IN  [opening |-> opening, received |-> Moved(s, "IN", range),
       dispatched |-> Moved(s, "OUT", range), returned |-> Moved(s, "RETURN", range),
       closing |-> opening + Moved(s, "IN", range) - Moved(s, "OUT", range)
                     + Moved(s, "RETURN", range)]

\* get_inventory: what the stock page shows for a SKU.
StockPage(s) ==
  [total |-> inventory[s].total, reserved |-> inventory[s].reserved,
   available |-> Sum([b \in Batch |-> Free(b)], {b \in BatchesOf(s) : Allocatable(b)}),
   expired |-> Sum(Remaining, {b \in BatchesOf(s) : batch[b].expiry < today})]
=============================================================================
