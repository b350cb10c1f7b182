------------------------------- MODULE Purge -------------------------------
(***************************************************************************)
(* scripts/purge_transactional_data.py over the stock records: one         *)
(* transaction that deletes every order with all that hangs off it and     *)
(* then treats the stock as --inventory says.  The deletion of an order    *)
(* that a surviving inventory_transactions row refers to violates the      *)
(* foreign key of migration 0070, and the transaction rolls back.          *)
(*                                                                         *)
(* The script runs once, with the application idle (its docstring asks for *)
(* a dump first), and a behaviour ends with it: what the application does  *)
(* afterwards it does from the records the script left.                    *)
(***************************************************************************)
EXTENDS StockLedger

VARIABLES
  purge,    \* what became of the script: the mode it completed, or "refused"
  stray     \* units restocked by credit notes whose rows were deleted

purgeVars == <<vars, records, purge, stray>>

Mode == {"release", "restore", "reset", "leave"}

\* Wrong variant: cancelled orders count as having consumed stock.
DispatchedIncludingCancelled ==
  {o \in Order : order[o].status \in {"OUT_FOR_DELIVERY", "DELIVERED", "CANCELLED"}}

\* The orders of _DISPATCHED_BATCH_LINKS.
Dispatched == {o \in Order : order[o].status \in {"OUT_FOR_DELIVERY", "DELIVERED"}}

\* What the links of the dispatched orders took from a batch.
Consumed == [b \in Batch |-> Sum([o \in Order |-> held[o][b]], Dispatched)]

\* The rows left when the orders are deleted: restore has dropped OUT and
\* RETURN rows by then, reset empties the table only afterwards.
Surviving(mode) ==
  IF mode = "restore" THEN {t \in tied : t[1] = "receipt"} ELSE tied

Something == receipt # <<>> \/ \E o \in Order : order[o].status # "UNBOOKED"

Refuse(mode) ==
  /\ Surviving(mode) # {}
  /\ purge' = "refused"
  /\ UNCHANGED <<vars, records, stray>>

\* The stock tables in each mode.
StockAfter(mode) ==
  \/ /\ mode = "leave"
     /\ UNCHANGED <<inventory, batch, movement, stray>>
  \/ /\ mode = "reset"
     /\ inventory' = [s \in Sku |-> [total |-> 0, reserved |-> 0]]
     /\ batch' = [b \in Batch |-> NoBatch]
     /\ movement' = [d \in Day |-> [s \in Sku |-> NoMovement]]
     /\ UNCHANGED stray
  \/ /\ mode = "release"
     /\ inventory' = [s \in Sku |-> [inventory[s] EXCEPT !.reserved = 0]]
     /\ batch' = [b \in Batch |-> [batch[b] EXCEPT !.reserved = 0]]
     /\ UNCHANGED <<movement, stray>>
  \/ /\ mode = "restore"
     /\ inventory' = [s \in Sku |->
          [total |-> inventory[s].total + Sum(Consumed, BatchesOf(s)), reserved |-> 0]]
     /\ batch' = [b \in Batch |->
          [batch[b] EXCEPT !.remaining = @ + Consumed[b], !.reserved = 0]]
     /\ movement' = [d \in Day |-> [s \in Sku |->
          [NoMovement EXCEPT !["IN"] = movement[d][s]["IN"]]]]
     /\ stray' = restocked

\* Every order, invoice, credit note and link goes; the counters of the series
\* stay (only the retired invoice_number_seq restarts).
Delete(mode) ==
  /\ Surviving(mode) = {}
  /\ purge' = mode
  /\ order' = [o \in Order |-> Unbooked]
  /\ held' = [o \in Order |-> [b \in Batch |-> 0]]
  /\ out' = [o \in Order |-> [b \in Batch |-> 0]]
  /\ back' = [o \in Order |-> [b \in Batch |-> 0]]
  /\ invoice' = [o \in Order |-> NoInvoice]
  /\ credited' = [o \in Order |-> [s \in Sku |-> 0]]
  /\ restocked' = [s \in Sku |-> 0]
  /\ receipt' = <<>>
  /\ tied' = {}
  /\ StockAfter(mode)
  /\ UNCHANGED <<today, lastBatch, counter, migrated>>

RunPurge(mode) ==
  /\ mode = "leave" => Something
  /\ Refuse(mode) \/ Delete(mode)

PurgeInit ==
  /\ LedgerInit
  /\ purge = "none"
  /\ stray = [s \in Sku |-> 0]

PurgeNext ==
  /\ purge = "none"
  /\ \/ LedgerNext /\ UNCHANGED <<purge, stray>>
     \/ \E mode \in Mode : RunPurge(mode)

PurgeSpec == PurgeInit /\ [][PurgeNext]_purgeVars

-----------------------------------------------------------------------------
(* What the records promise.                                               *)

\* "Summing the signed rows reproduces stock at any point in time"
\* (stock_ledger.py:4-7): whatever the range starts with, the summary closes
\* today at the aggregate stock the stock page shows, also after every mode of
\* the purge - but for units whose credit notes a restore deleted with their
\* rows - and one range closes where the next one opens.
LedgerReproducesTotals ==
  \A s \in Sku, d \in Day :
    /\ Summary(s, d, MaxDay).closing = StockPage(s).total - stray[s]
    /\ \A e \in d + 1 .. MaxDay : Summary(s, d, e - 1).closing = Summary(s, e, MaxDay).opening

\* The restore mode returns "levels to what they were before the test orders
\* ran" (its help text): every batch has the units it arrived with, none of
\* them reserved, and the aggregate has those of its batches, except for what
\* credit notes had put into the aggregate before, which comes back twice.
RestoreUndoesOrders ==
  [][purge' = "restore" /\ purge # "restore" =>
       /\ \A b \in Batch : batch'[b].remaining = batch[b].received /\ batch'[b].reserved = 0
       /\ \A s \in Sku :
            /\ inventory'[s].reserved = 0
            /\ inventory'[s].total =
                 restocked[s] + Sum([b \in Batch |-> batch[b].received], BatchesOf(s))]_purgeVars

\* Violated: "they are the ledger of physical stock movement and have no FK to
\* orders" (purge_transactional_data.py:179-180), so a purge that deletes what
\* its docstring lists (line 14) never fails on a reference.
PurgeIsNotRefused == purge # "refused"
=============================================================================
