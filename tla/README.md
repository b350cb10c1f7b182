# Verification of the Ascend Foods backend

`ascend-backend` is the server of a food distributor: a FastAPI application over
SQLAlchemy 2 and PostgreSQL (READ COMMITTED) that books orders of shops, reserves and
ships stock by expiry date, issues tax invoices, takes payments, and serves a storefront
app to the shops themselves. This directory holds TLA+ modules translated from its source,
the TLC configurations that check them, and theorems about them that TLAPS checks.

    tlc -workers 2 -config MCOrderInventory.cfg MCOrderInventory
    tlc -workers 2 -config MCStorefront.cfg MCStorefront
    tlapm OrderInventoryProofs.tla
    tlapm StorefrontProofs.tla

Paths below are relative to the repository root, `app/...` standing for `src/app/...`.

## 1. Inventory of the system

Every request runs in one worker thread, with one SQLAlchemy session (`autoflush=False`,
`app/db/session.py`) and one database transaction (`app/services/transactions.py`).
Components share nothing but the database: all interaction between them is through rows,
and all concurrency is between transactions. There are no background jobs, queues or
callbacks; the only scheduling is that of the workers and of the locks of PostgreSQL.
Scripts (`scripts/`) open sessions of their own.

| Component | State | Operations | What makes it correct |
|---|---|---|---|
| Orders and stock (`services/order.py`, `services/inventory.py`, receipts in `services/admin.py`) | `Order`, `OrderItem`, `OrderItemBatch`, `OrderStatusHistory`, `Inventory`, `SKUBatch`, `InventoryTransaction` | book, mark ready (reserve), dispatch, deliver, cancel (release or restore), receive | the five stock invariants of `docs/inventory-invariants.md`; the ledger; first expiry first out; no expired goods leave; who may move an order |
| Concurrent order requests (the same code, as transactions) | row locks, identity maps of the sessions | the statements of those handlers, commit, rollback, deadlock | requests amount to handlers run one at a time; no lost update; every request ends |
| Invoicing (`services/invoice.py`) | `Invoice`, `InvoiceLine`, `InvoiceNumberCounter`, `CompanyProfile` | issue at dispatch | one invoice for every order that left, gapless numbers per series, columns and parts that add up |
| Payments and credit notes (`services/accounting.py`, cash and delivery payments in `services/order.py`) | `Account`, `CreditNote`, `CreditNoteItem`, `Order.payment_status` | pay one order, pay several, credit, salesman's cash, payment at delivery | the payment status agrees with the rows; never credited beyond the order; a retried collection counts once |
| Money arithmetic (`services/finance.py`) | none | rounding, inclusive tax, delivery charge, outstanding | the parts add up to the total; a quote's total is the order's |
| Accounts and sessions (`services/auth.py`, `core/security.py`, `core/deps.py`, `routers/auth.py`, `services/rate_limit.py`, users in `services/admin.py`) | `User`, `Group`, `Employee`, `AuthAttempt`, issued tokens | sign in, refresh, change and reset a password, (de)activate, set role and group, delete, create | a token minted before a password change is dead; one active admin remains; a group gives its role; the failure limit and when it ends |
| Storefront onboarding (`services/retailer_onboarding.py`, `core/store_deps.py`) | `User`, `Retailer`, `RetailerAddress` | sign in by phone, link to an existing shop, complete the shop form, addresses | one shop per form; an account acts for the shop it confirmed; a shop keeps an address |
| Retailer requests (`services/retailer_request.py`) | `RetailerRequest`, `Retailer` | propose, approve, reject, withdraw, amend | acted on exactly once |
| Storefront checkout (`services/store_order.py`, `store_catalogue.py`, `store_settings.py`) | `StoreSettings`, the order it books | quote, place an order | what is booked is what was quoted, was free, and goes to an address of the shop |
| Master data (`services/admin.py`, `routers/admin.py`) | brands, SKUs, retailers, beats, warehouses, categories | create, edit | uniqueness; fresh ids |
| Imports (`services/excel_import.py`, `services/transactions.py`) | the same tables and their sequences | all-or-nothing workbook import, `reclaim_sequences` | a workbook is added whole or not at all; no id is handed out twice |
| Catalogue script (`scripts/seed_storefront_catalogue.py`) | SKUs, categories | fill in what SKUs lack | what an admin set is kept |
| Outlet finder (`services/outlet_geo.py`, `routers/outlet_finder.py`) | pins, `OutletDelivery`, `OutletAssignment` | mark delivered, record a position, assign, accept | a pin is the office's, the confirming form's or one reported at the door; progress of a job is kept |
| Stock ledger and reports (`stock_ledger.py`, `outstanding.py`, `coverage.py`, `daily_sales.py`, summaries in `admin.py`, `accounting.py`) | none | read-only queries | the ledger closes at the stock there is; reports agree with each other |
| Purge (`scripts/purge_transactional_data.py`) | all transactional tables | delete, with four treatments of the stock | the stock is what it was before the orders; the script does not fail half-way |
| Documents, HTTP layer, migrations and seeding | – | – | – |

**How the components meet.** `update_order_status` is the centre. It moves the status, and on the
way calls `_reserve_inventory_for_order`, `_dispatch_reserved_inventory`,
`_release_reserved_inventory` or `_restore_dispatched_inventory`, issues the invoice at
dispatch, takes the payment and records the driver's position at delivery. Booking comes from
the office (`POST /orders`) and from checkout, which merges the lines of a cart. Receipts
raise the same `Inventory` rows the reservations lock, and book an order of their own. Credit
notes, if asked to restock, raise `Inventory.total_quantity` too, without a batch. The table of
shops has four writers: shopkeepers who sign up, requests of salesmen, the office, and imports.
The pin of a shop that exists has four: the office, drivers at the door, orders that are closed, and the form by which
a shopkeeper confirms the shop.

**What is hard.** Two requests for one order; several orders reserving the same SKU; rows locked
in different orders by different handlers; rows read before a lock was granted
and cached by the session; a line that fails after an earlier one was reserved; a worker that
dies half-way; batches that expire between reservation and dispatch; a cancellation at every
stage, each of which has to undo something else. Elsewhere most checks are of rows nobody locked:
payments, credit notes, retailer requests, the last admin, the last address, an account about to be
linked, a job about to be accepted, the id sequences. `PROJECT.json` lists each of these at its line
under `hazards`, with the properties that cover it.

**Checks of rows nobody locked.** Where the code checks a row, or a count, and writes on commit
without a lock, the promise cannot hold of every interleaving, and saying so of each would only repeat one
fact. The modules record instead which rows were written on a copy that was out of date (`outdated`,
`miscounted`, `uncounted`, `lapsed`, `rewound`, `raced`) and state the promise of all others. Such a property
says that the check itself is right, through every sequence of requests and also beside requests that run on other
rows, and names the one circumstance that breaks it. A mutant of the check breaks it at once.

## 2. Modules

| Module | Contents |
|---|---|
| `QuantitySums` | sums of quantities, defined without recursion as the number of units |
| `QuantitySumsProofs` | the laws of such sums |
| `OrderInventory` | orders, stock, receipts and invoices, each handler one atomic step; the promises |
| `OrderInventoryProofs` | the stock promises proved for all values of the constants; on top of them invoice numbering and cancellations by shops |
| `OrderTransactions` | the same handlers statement by statement, concurrently; shown to implement `OrderInventory` |
| `StockLedger` | movement rows by day, restocking credit notes, orders of receipts; the ledger and the stock page |
| `Purge` | the purge script on top of `StockLedger` |
| `PurgeProofs` | the promises of the ledger page and of the restore mode, proved for all values of the constants |
| `OrderMoney` | what an order is billed, paid, credited and owes |
| `Receivables` | what the payment and credit-note tables promise, whoever writes them |
| `Settlement` | the requests that write payments, credit notes and the payment status, concurrently; shown to implement `Receivables` |
| `SettlementProofs` | the safety of `Settlement`, that implementation, and the agreement of the reports, proved for all values of the constants |
| `Reports` | what the office reads of the tables of `Settlement` |
| `FailureLimiter` | the limiter of failed sign-ins, as operators |
| `Accounts` | users, groups, tokens and their administration, concurrently |
| `AccountsProofs` | its promises and the limiter's, proved for all values of the constants |
| `Shops` | the table of shops and the sessions that write it |
| `Onboarding` | sign-in of shopkeepers, the shop form, addresses |
| `RetailerRequests` | salesmen's requests |
| `Storefront` | the composition of those three, one table of shops under all its writers |
| `StorefrontProofs` | its four safety promises, proved for all values of the constants |
| `Pricing` | from the price of a SKU to the lines of an invoice, as operators |
| `Checkout` | quotes and orders, query by query, composed with `Onboarding` |
| `CheckoutProofs` | its four promises, proved for all values of the constants |
| `MasterTables` | master data, the insert of a row, the forms of the office |
| `Imports`, `CatalogueSeed`, `Outlets` | the import, the script, and the drivers and shopkeepers on the same tables |
| `Catalogue` | the composition of those four |
| `CatalogueProofs` | its five promises, proved for all values of the constants |
| `MC...` | the values of the constants for TLC |

`OrderInventory` is the abstract specification: what one handler does if it runs alone.
`OrderTransactions` is the detailed one: what a set of workers and a database do. It instantiates
`OrderInventory` (`Atomic`) with a refinement mapping (`OrderRows`, `HeldRows`) and is checked to
implement it. `Receivables` and `Settlement` are such a pair for money. The two halves meet at the
order's status, of which `Settlement` keeps only what money depends on.

### OrderInventory

| Model | Code |
|---|---|
| `inventory[s]` | `Inventory.total_quantity`, `.reserved_quantity`; an absent row counts as zero |
| `batch[b]`, `lastBatch` | `SKUBatch` rows and their id sequence; `expiry = Never` for a batch without a date |
| `order[o]` | `Order`: status, delivery driver, retailer, channel, its lines as a cart, the `OrderStatusHistory` |
| `held[o][b]` | the `OrderItemBatch` rows |
| `out`, `back`, `batch[b].received` | `InventoryTransaction` rows OUT, RETURN and IN, added up |
| `invoice[o]`, `counter` | `Invoice` and `InvoiceNumberCounter`; a series is a brand's code and a channel |
| `today` | `current_business_date()` |
| `CreateOrder` | `create_outgoing_order` with the scope check of its callers |
| `Move` | the scope check, `ALLOWED_TRANSITIONS`, the driver, the status and the trail of `update_order_status` |
| `MarkReadyToShip` | PENDING → READY_TO_SHIP: a driver is required, then `_reserve_inventory_for_order` |
| `Dispatch` | READY_TO_SHIP → OUT_FOR_DELIVERY: reserve again, `_dispatch_reserved_inventory`, `issue_invoice_for_order` |
| `Deliver` | OUT_FOR_DELIVERY → DELIVERED |
| `CancelReserved` | cancelled before dispatch: `_release_reserved_inventory` |
| `CancelDispatched` | cancelled after dispatch: `_restore_dispatched_inventory` |
| `Receive` | `add_inventory_receipt` |

A handler that raises rolls its transaction back, so a refused request is no step: the conditions
of a handler are the guards of its action, including those found out late (a line that the
batches cannot supply, an expired batch at dispatch, an order of two brands at the invoice).
The batch loop is the function `Take`: a batch gives what those ranked before it could not.
`Rankings` are the orders the query may return rows in, because `ORDER BY expiration_date NULLS LAST`
leaves ties open. `max(..., 0)` is kept (`MaxZero`), so that a drift it could hide would be seen.

Left out, because the properties do not tell them apart: rows of other warehouses (every query is
restricted to the order's), amounts, free text, and the checks that names in a request exist.
Payments at delivery are in `Settlement`, the position reported with one in `Outlets`, and the credit-note restock
of `app/services/accounting.py:167-188`, which `docs/inventory-invariants.md` section 3 records as a
known deviation from I3 that no client asks for, in `StockLedger`. Lines of one order name different SKUs here;
`OrderTransactions` takes orders with two lines of one SKU.

### OrderTransactions

| Model | Code |
|---|---|
| `lock` | row locks of PostgreSQL on `orders`, `inventory`, `sku_batches`, `invoice_number_counters` |
| `session[t]` | the worker's session: what it was asked, the statements it has still to run (`todo`), the copies of rows in its identity map |
| `stocked` | the SKUs that have an `Inventory` row |
| `links[o][l]` | `OrderItemBatch` rows of a line, in order of insertion |
| `Begin`, `ReadOrder` | `get_order_by_id(..., for_update=True)` and the legality check under its lock |
| `ReserveLine`, `OfferBatch` | the aggregate check, the batch query and the batch loop of `_reserve_inventory_for_order` |
| `OpenInventory`, `DispatchLink`, `ReleaseLink` | `_dispatch_reserved_inventory`, `_release_reserved_inventory` |
| `RestockLink`, `RecountLink` | `_restore_dispatched_inventory`, which alone uses `populate_existing()` |
| `DrawNumber` | the counter upsert of `_next_series_serial` |
| `BeginReceipt`, `StockItem`, `CommitReceipt` | `add_inventory_receipt`, with the primary-key conflict of two first receipts of a SKU |
| `CommitOrder` | the commit: all the session holds is written |
| `Raise`, `Die`, `AbortVictim` | an exception, a lost worker, a deadlock victim: the transaction is rolled back |

A handler is a sequence of statements, made when the order's lock is granted (`Program`), and each
statement that waits for a lock is one step. A `SELECT ... FOR UPDATE` of one row reads what is
committed once the lock is granted; a query of many rows picks its rows before it waits for them,
and re-reads each as its lock is granted. Writes are in the session until commit (there is no
autoflush, and the flush before an invoice is invisible to others), so that the tables change at
commit only.

Abstractions: every user is an admin, nothing expires, one brand, one channel, one driver (those are
decided in `OrderInventory`); batch ids are numbered as receipts commit, an id being a name;
a row inserted and not committed is not there for others, and of two inserts of one aggregate row
the one that commits second fails, where PostgreSQL makes it wait for the first and then fail.

### Receivables, OrderMoney and Settlement

`Receivables` says which entries may be committed: payments of the office, of any amount (`Enter`); one
payment collected against the balance, at most what is due at that moment (`Collect`); a credit note
for units not credited before (`Reverse`); no reference twice. `Settlement` is the requests.

| Model | Code |
|---|---|
| `accounts`, `notes` | `Account` rows; `CreditNote` rows with their items |
| `status`, `paymentStatus` | `Order.status` (the stages before delivery are one, `OPEN`), `Order.payment_status` |
| `lock` | `SELECT ... FOR UPDATE` of order rows; an uncommitted note (`Pending`) holds its order row `FOR KEY SHARE` and the unique index entry of its number |
| `session[s]` | the stage of a request; the payment status, payments and notes it has read |
| `Book` | `create_outgoing_order`, with the deposit of `_record_payment` |
| `ReadOrder`, `CheckReference`, `LoadPayments`, `LoadNotes`, `CommitPayments` | `create_payment` and `create_multi_payment`: no row is locked, collections are read when first used |
| `ReadOrder`, `CheckCredits`, `WriteNote`, `LoadPayments`, `CommitNote` | `create_credit_note` |
| `LockOrder`, `ViewForCash`, `CommitCash` | `record_salesman_cash` |
| `LockOrder`, `ViewForDelivery`, `CommitDelivery`, `RefuseDelivery` | the branch of `update_order_status` for DELIVERED, with what the driver reports of the payment |
| `LockOrder`, `Cancel` | the branch for CANCELLED |
| `Die` | a lost worker: the transaction is rolled back |

The payment status is an attribute the session has read: assigning the value it was read with is no
change and writes nothing (`SetPaymentStatus`). The note of `create_credit_note` is not in the collection it
has loaded, so that the status written with it does not count it (`CommitNote`). Money is counted in paise and
`OrderMoney!Bill` is what `finance.py` rounds a bill to.

Abstractions: amounts are not negative; `PARTIAL`, which a driver's report treats as `PAID`, is reported as
`PAID`; reports of `UNPAID` are accepted and do nothing, as in the code; generated references are numbers, where
the code uses the mode, the order, a count and the second; who may deliver or cancel is decided in
`OrderInventory`; a restocking note is one with a mark, the stock being that of `OrderInventory`.

### StockLedger and Purge

| Model | Code |
|---|---|
| `movement[d][s]` | the `InventoryTransaction` rows of a day, added up by kind; `Record` is what a handler adds |
| `credited`, `restocked` | what credit notes took back, and what of it went into the aggregate |
| `receipt`, `CancelReceipt` | the order a receipt is booked as, and its cancellation through the route of orders |
| `migrated`, `tied` | migration 0070, and the orders some row refers to since |
| `Book`, `Ship`, `TakeBack`, `MoveWithoutRows`, `BookReceipt`, `DayPasses` | the handlers of `OrderInventory`, with their rows |
| `Summary`, `StockPage` | `_summary` of `stock_ledger.py`, `get_inventory` of `admin.py` |
| `RunPurge`: `Refuse`, `Delete`, `StockAfter` | the script in its four modes; `Surviving` are the references that make it fail |

The script runs once and ends the behaviour: what the application does afterwards it does from the
records the script left, and the properties speak of those.

### Reports

Each operator is one query of the office, in the tables of `Settlement`: `OutstandingSummary`, `AdminSummary`, `OrdersPage`,
`OrderDetail`, `DailySales`, `SalesmanPerformance`, `Payments`, `CollectionSummary`, `CreditNotes`, `Coverage`,
`StatusSummary`. `Booking` and `Route` are the columns of orders and shops they group by. Where the code computes a
total in SQL and elsewhere in `finance.py`, both are the bill here: the two differ by rounding of paise, which amounts
in whole units do not show.

### Accounts and FailureLimiter

| Model | Code |
|---|---|
| `user`, `group`, `employee` | the rows, by email and by name |
| `token` | the tokens that were issued; `pw` is ghost state, the password the chain of refreshes started with |
| `CheckLimits`, `Authenticate`, `RecordAccountFailure`, `RecordAddressFailure` | the sign-in route, whose failures are committed one by one |
| `Refresh`, `Refreshable`, `Accepted` | the refresh route; `get_current_active_user` |
| `Act`, `Read`, `Count`, `Commit` | an administrative request: the acting user, the user acted on, `_count_active_admins`, the commit of the attributes that differ |
| `Edited`, `RoleGiven`, `Regrouped`, `Removes`, `Forbidden` | `set_user_active`, `set_user_role`, `set_user_group`, `set_user_password`, `soft_delete_user`, `change_password` |
| `Create`, `CreateGroup`, `RunCreateUser` | `create_user`, `create_group`, `scripts/create_admin_user.py` |
| `LimitReached`, `RetryAfter`, `Recorded` | `check`, `record_failure` of `rate_limit.py` |

The failures of a key are kept in the order of `created_at`, in which `check` reads them, so that those after a cutoff are the `Latest` of them.

### Shops, Onboarding, RetailerRequests and Storefront

| Model | Code |
|---|---|
| `shop[i]` | `Retailer`; `asked` is ghost state, the request it was made for |
| `user[m]`, `address[a]` | `User` by phone number, `RetailerAddress` |
| `lock` | `SELECT ... FOR UPDATE` of an account |
| `FindUser`, `CreateUser`, `MatchShop`, `LinkShop` | `get_or_create_otp_user` and `link_existing_retailer`, read and commit |
| `LockUser`, `RefuseForm`, `SignUp`, `ConfirmShop`, `EditForm` | `complete_shop`; the name and the pin that it writes to a linked shop are in `Outlets` |
| `AddAddress`, `CountAddresses`, `DeleteAddress` | `create_address`, `delete_address` |
| `Propose`, `ReadAsked`, `Approve`, `Reject`, `Withdraw`, `Amend` | `retailer_request.py` |
| `OpenShop`, `EditShop` | `create_retailer`, `update_retailer` |

### Pricing and Checkout

`Pricing` computes in whole numbers: paise, tenths of a paisa for prices, hundredths and thousandths of a percent for rates;
`RoundMoney` is the rounding of `finance.py`, halves up. `LineTotals`, `GrandTotal`, `ComputeCharge`, `TaxRows`, `Components` and
`InvoiceLines` are its functions and those of `invoice.py`.

| Model | Code |
|---|---|
| `EnterStore`, `OpenWarehouse`, `FindAddress`, `PriceCart`, `CheckStock`, `Book` | `place_store_order`, one step per query; `AnswerQuote` ends `quote_cart` |
| `basket[s]` | what the request has read; `checked` and `seen` are the warehouse and the stock it compared with |
| `order[o]` | the order, with the rows it was priced on (ghost state) |
| `EditSku`, `EditSettings`, `ReserveStock` | the office and other orders; `Edited` is `_apply_update`: the columns a body names, and no other |
| `DetachOrders` | `delete_address`, with the orders that pointed to the address |
| `Detail`, `ExportRows` | `_detail`, `get_order_export_rows` |

### MasterTables, Imports, CatalogueSeed, Outlets and Catalogue

| Model | Code |
|---|---|
| `row[t][i]`, `next[t]` | the tables, their id sequences |
| `session[s].new`, `.drawn`, `.fill` | what a transaction has inserted, drawn, and updated, and not committed |
| `Draw`, `Insert`, `Commit`, `Deadlock` | an `INSERT`: the id, the wait for an uncommitted key, the end |
| `Create`, `Edit`, `EditRetailer`, `SetRetailerBeat` | the forms; `update_retailer` commits twice |
| `Validate`, `Reclaim`, `Reclaimed` | the import, and `reclaim_sequences` after its rollback |
| `ReadSku`, `FillImage`, `MakeAisle`, `FillAisle`, `EndSeed` | the script, whose session flushes before queries |
| `ReadShop`, `CloseOrder`, `RecordVisit` | `mark_delivered`, `_record_delivery_position`, `record_delivery_location` |
| `confirmation`, `FormSets`, `ReadOwnShop`, `SaveOwnShop` | `shop_confirmed_at`, `onboarding_state`, and `complete_shop` for a linked shop: read under the lock of the account, and commit |
| `Assign`, `ReadJob`, `Accept`, `Delivered` | the routes of jobs; what `_assignment_to_response` shows |

Left out, since no property turns on it: the unique `retailers.external_id`, the pin a new row begins with (the promise is about
shops that exist), the categories the script remembers during a run, and the link of an account, which is `Onboarding`'s (`ShopOf` is a
constant here). A shop that a salesman's request or the sign-up form adds is inserted as `Create` inserts one of the office.

## 3. Runs

| Run | Instance | Question |
|---|---|---|
| `stock` | 2 orders, carts of one and two lines, up to 3 batches expiring on day 0, day 1 or never, days 0 to 2, 2 brands sharing a code | Do the stock records agree with each other and with the orders and invoices, through every sequence of handlers? |
| `requests` | 2 fair workers, 2 orders naming the same SKUs in opposite order, receipts, 3 batches | Is every commit a step of `OrderInventory`? Does every request end? |
| `twice` | 1 order with two lines of one SKU, 1 worker | (finding) Does a cancellation after dispatch keep I3? |
| `ledger` | 2 orders, an admin and a shop, receipts before and after the migration, 2 days, every purge mode | Does the ledger close at the stock there is? Does the purge restore what arrived? |
| `purge_refused` | the same | (finding) Does the purge ever fail? |
| `money` | 3 sessions, 2 orders, all kinds of requests | Does a PAID order owe nothing? Does a reference count once? Is a unit credited once? Do the reports agree? |
| `money_answered` | 3 sessions on 1 order, one request of each way to wait, fair | Is every request answered? |
| `money_repeated` | 2 sessions, 1 order, a note with a SKU on two lines | (finding) Is a unit credited once? |
| `accounts` | 3 sessions out of 14 requests, 2 admins, a salesman in a group, 3 clock ticks | Does an admin remain? Do sessions end? Is the limiter exact? |
| `storefront` | 4 sessions out of 18 requests, 3 phone numbers, a shop of the office, a pending request | One shop per form, one decision per request, an address per shop? |
| `checkout` | 3 sessions out of 14 requests, 2 shops of different states and a guest, a packed SKU and a loose one, 2 warehouses | Is what is booked what was quoted, free and deliverable? Does the invoice add up? |
| `catalogue` | 3 sessions out of 31 requests on tables of up to 4 rows | Is an import whole, are ids fresh, is what was set by hand kept, where may a pin come from? |

**`stock`** checks I1 to I5 (`ReservedWithinStock`, `TotalIsSumOfBatches`, `ReservedIsSumOfBatches`,
`ReservedIsHeldByOpenOrders`), the ledger (`LedgerReproducesStock`), that goods are where the status
says (`GoodsFollowStatus`, `ReadyMeansFullyAllocated`), `InvoicedIffDispatched` (an order of two brands can be reserved
and is never dispatched; the numbers of a series, which two brands with one code share, have no gap, because a refused dispatch
rolls the counter row back with it; the comment at the call of `issue_invoice_for_order` says otherwise, see the smaller disagreements), and two action properties:
`FirstExpiryFirstOut` and `NoExpiredDispatch`. The bounds let every case of the allocation happen:
carts that need two batches, batches shared by two orders, demand above supply, a batch
expiring while reserved, ties in expiry. Days end at 2 because expiry dates are 0 and 1.

**`requests`** has everything two workers can do to each other: waiting for the same order, for the
same SKU, deadlock (reached: two orders that lock s1 and s2 crosswise, and a cancellation against a
dispatch), two first receipts of one SKU (reached), reservations that lose their batch while they
wait, death at every statement. Three workers add no kind of conflict that pairs do not have,
apart from circles of three, which end as circles of two do. It checks the refinement `RequestsAreAtomic`, and
`EveryRequestEnds` under `Fairness`: a worker goes on when it can
(`SF_vars(Step(t))`) and the deadlock detector runs (`WF_vars(AbortVictim(t))`). Strong fairness of a
step is what the lock queues of PostgreSQL give: a row that is free again and again is granted to a
waiter in its turn. Nothing says that a worker dies or that a request is ever sent. The mutant, an
exception that leaves its transaction open, makes others wait for ever. No symmetry is used, because liveness is checked.

**`ledger`** has an admin and a shop book, ship, cancel and credit two orders over two days. `LedgerReproducesTotals` compares, for every range,
the ledger's closing balance with the stock page, also after the purge; `RestoreUndoesOrders` says what the restore mode leaves; and
`RetailerCancelsBeforeDispatch` that what a shop cancelled never left, with both roles among the actors. One SKU and one cart of two units are enough for a
balance that is off by any row; two orders, for a purge that finds one cancelled and one delivered.

**`money`** lets every session serve any request, so that all multisets of three requests and all their interleavings happen:
a collection, its retry, and someone who comes between; a delivery, two notes that race, and a payment derived from rows that are
out of date. A bill of 2 and amounts of 1 and 2 reach underpaid, settled and overpaid; orders may be booked with a deposit.
`ReportsAgree` is asked where no request is half done, because one that is has committed nothing. Two orders of different days, salesmen and warehouses, one shop
on a beat and one on none, make every way of dividing a total a division. Deadlock is checked: where all is
answered and booked the model stutters (`Idle`), and nowhere else may it stop.

**`money_answered`** assumes `SF_vars(Step(s))` for each session, on the same grounds as `requests`: the
server runs, and a row that is freed again and again is granted in the order asked for. Sessions may die at any
statement. The mutant, a session that ends and keeps its row locks, leaves others waiting.

**`accounts`** has two admins who remove each other, a salesman whose password changes twice while tokens are refreshed and sign-ins are in
progress, groups made and joined, and sign-ins of one account from two places, with two failures to begin with and limits of 2 and 3, so that
three sessions overshoot. A window of 2 ticks and a clock to 2 let failures age out. Tokens that were issued before `typ` existed are among the first.

**`storefront`** has, of three phone numbers, one with an account and no shop, one with a shop and no account, one with a confirmed shop of two addresses: with four sessions
two forms race a sign-in, two deletions race each other beside a third request, and a request is approved, withdrawn, amended and rejected at once.

**`checkout`** has prices that end in half a paisa and rates with an odd split, so that every rounding matters; a cart that splits a SKU over two lines;
a pack that does not divide what is free; a store that closes or moves between two queries; expired and reserved batches; an address of another shop and one that is deleted meanwhile.

**`catalogue`** has workbooks that bring a brand again with a SKU of it, fail in the last row, or name an unknown brand; forms on the same tables; two
modes of the script; drivers near, some steps away and in another town; a shopkeeper whose form is sent with one place, with another far away, and with
none, so that it confirms the shop, is sent again, and races a driver who holds the pin of before. Ids end at 4 (`MaxId`): three sessions add at most three rows to a table of one. A session's request ends with it, so that
a property may name the request that changed a row.

Runs whose sessions have each answered one request, or whose batches, orders and days are used up, have nothing left to do, which is not a fault: they turn
deadlock checking off. Sessions, requests and orders that are interchangeable are a symmetry set wherever no liveness is checked.

Every property of a passing run has a mutant in `PROJECT.json`: an operator of the module marked
*Wrong variant*, a plausible bug of the code, with which TLC finds the property violated.

### Findings

`twice`: an order with two lines of the same SKU that were supplied from one batch is dispatched
and then cancelled. `_restore_dispatched_inventory` reads the batch with `populate_existing()` for each
link (`app/services/order.py:481`), and nothing has been flushed between the two reads, so the second
read discards what the first line put back. The batch gets one line's units back,
`Inventory.total_quantity` both, and (I3) of `docs/inventory-invariants.md` is broken until
someone repairs the rows. The storefront merges duplicate lines (`app/services/store_order.py:76-85`); the
office form and its schema (`app/schemas/order.py:18-20`) do not.

`money_repeated`: `create_credit_note` compares each line with the notes stored before and not with the other lines of
its own note (`app/services/accounting.py:131-139`), so that a note naming a SKU on two lines credits more than was
ordered. `NeverOverCredited` holds, and is proved, for notes of distinct SKUs (`DistinctLines`).

`purge_refused`: the purge script deletes orders that rows of `inventory_transactions` refer to since migration 0070, and fails
on the foreign key in every mode once a receipt or a dispatch was booked after the migration
(`scripts/purge_transactional_data.py:260`), although it says that these rows have no foreign key to orders (lines 179-180).
The transaction rolls back: nothing is lost, and nothing is purged.

Smaller disagreements met on the way, none of which a run turns on:

- A delivered order with a credit note can still be cancelled by an admin (`app/services/order.py:77`), which brings the goods back a second time
  if the note restocked; `app/tests/test_credit_note_invoice_link.py:155-159` says that a delivered order has no such transition.
- A note for all of an order leaves it CREDIT, the status having been derived from the notes before it (`app/services/accounting.py:191`).
  The dashboard counts such an order as outstanding, the outstanding list does not show it; `ReportsAgree` says by how much the two differ.
- The purge keeps the counters of the invoice series, so that numbers go on where they were; its documentation speaks of a restart at 1, which is
  true of the retired sequence only.
- `update_retailer` commits the columns before it checks the beat: a form refused for its beat has changed the shop all the same (`app/services/admin.py:170-173`).
- The catalogue script never overwrites what was set by hand, except what is set between its read of a SKU and its next flush (`raced`).
- `accept_assignment` locks nothing: a second acceptance that had read the job pending moves `accepted_at`, and visits shown as delivered disappear from the job.
- Two drivers whose first fixes of a shop race both find no pin, and the later one stays, however far apart they are; each row says the pin was absent.
- The form that confirms a shop overwrites its pin with whatever place it names (`app/services/retailer_onboarding.py:183`), however far, without the
  threshold that drivers are held to and without a row of `outlet_deliveries`; `app/tests/test_store_onboarding.py:181-205` asserts that it does, while
  `app/services/outlet_geo.py:6-7` would have no pin move quietly. `PinIsEvidenced` therefore names this form as a source of pins: one form per
  account, later ones leave the pin alone. A driver who read the pin before that form may still overwrite it; the row then names the pin of before.
- The comment at the issue of an invoice (`app/services/order.py:805-808`) says that "nextval() is not transactional, so a failure later in this same
  request still leaves a gap in the sequence; D-04 accepts gaps". The numbers come from a counter row since (`app/services/invoice.py:95-106`), updated in the
  transaction of the dispatch and rolled back with it: there are no gaps, which `InvoicedIffDispatched` checks over refused dispatches. The comment
  describes the retired sequence.

## 4. Proofs

### Orders and stock

`OrderInventoryProofs` proves, for every finite catalogue and set of orders, every set of users, carts and receipts, and every number of batches and days:

| Theorem | Statement |
|---|---|
| `Inductive` | `Spec => []IInv` |
| `TypeCorrect` | `Spec => []TypeOK`; no quantity is ever negative although the handlers subtract |
| `NothingOverReserved` | I1 and I2 |
| `AggregatesAgree`, `AggregateReservationsAgree` | I3 and I4 |
| `ReservationsAreHeld` | I5 |
| `LedgerIsComplete` | the movement rows reproduce the stock |
| `GoodsAreWhereTheStatusSays` | movements follow the status |
| `ReadyOrdersAreWhole` | ready means allocated in full |
| `ReservesFirstExpiryFirst`, `ExpiredStockStays` | the two action properties |
| `InvoicesFollowDispatch` | an invoice exactly for what left, series without gap or repetition |
| `ShopsCancelBeforeDispatch` | what a shop cancelled never left |

*Assumptions* (`SkuAssumption`, `OrderAssumption`, `BoundAssumption`): SKUs and orders are finite, the
constants have their types, and the quantities of carts and receipts are natural numbers. TLC
evaluates them on every run of a module that extends `OrderInventory`. The last one is a real
assumption on the environment: the schema of a booked line does not exclude a negative quantity (see
`hazards`).

*Argument.* None of the promises is inductive alone. That a dispatch keeps `remaining >= 0` and
`reserved >= 0` needs the units the order holds to be reserved (I5); that I5 survives needs the
dispatch to reserve nothing new, because links made during the dispatch are not shipped by it, which
needs `ReadyMeansFullyAllocated`; that the aggregate stays non-negative needs I3 and I4; that a
cancellation brings back what left, once, needs `GoodsFollowStatus`. `IInv` conjoins them with
`NothingAhead` (what has not been reached is untouched), which a new batch id and a first allocation
need. There is one lemma per action (`MarkReadyToShipKeeps`, `DispatchKeeps`, …), with one step per
conjunct, over shared lemmas: what a reservation returns (`ReservationFacts`), what one order's change does to a sum over all
orders (`ReservedFollowsOrder`, `LedgerFollowsOrder`). The lemmas are stated for an aggregate with loose units besides those of the batches (`LooseInv`), of
which the steps of `OrderInventory` have none, so that the ledger can use them. The sums themselves have laws
proved in `QuantitySumsProofs` from the library's facts on cardinality; this is why
`Sum` is defined as a number of units and not by recursion. `MCOrderInventory` assumes, and TLC evaluates, that it equals the
fold of the community modules on small functions.

First expiry first out is proved from `TakeExhaustsEarlier`: a batch gives something only if those
ranked before it gave all their free units.

`InvoicedIffDispatched` is inductive relative to `IInv`: a dispatch finds an order that has shipped
nothing (`NothingAhead`), hence has no invoice, and ships at least one unit because the invoice needs a
brand, hence a line, which is allocated in full. `RetailerCancelsBeforeDispatch` is
strengthened to `ShopCancelled`: an order a shop cancelled is still cancelled, since no transition
leads out of that status.

### The stock ledger and the purge

`PurgeProofs` proves, from the assumptions of `OrderInventory` and for every number of days, rows, receipts and credit notes:

| Theorem | Statement |
|---|---|
| `TheLedgerPageIsRight` | `PurgeSpec => []LedgerReproducesTotals` |
| `RestoreReturnsWhatArrived` | `PurgeSpec => RestoreUndoesOrders` |

*Argument.* Until the script runs, `LedgerInv` holds: the invariant of the stock with the units credit notes put back loose
(`LooseInv(restocked)`); the rows of all days add up to the aggregate; and the IN rows alone add up to what the batches arrived
with. Its steps are those of `OrderInventory`, whose lemmas give the first part, with the rows they write (`RecordAdds`); a receipt writes its
rows line by line and its batches one by one, which is the same sum under another name (`ReceiptRows`, from `SumRename`). A credit note moves the
aggregate, the loose units and the rows together. A range of the page opens with the net of the days before and closes with the
net of the days to its end (`SummaryIsNet`).

The third part is what the script needs: a restore deletes the OUT and RETURN rows and adds to each batch what dispatched orders took from it, which is what is missing of
what arrived (`ConsumedCompletes`, from the movements of the batch and the status of its orders), so that what the IN rows say is what is on hand - except for
the loose units, whose RETURN rows are gone (`stray`). The behaviours after the script, which ends the model, are not covered.

### Payments and credit notes

`SettlementProofs` proves, for every set of orders, SKUs, sessions and requests, and all bills:

| Theorem | Statement |
|---|---|
| `Invariant` | `Spec => []IInv` |
| `Typed` | `Spec => []TypeOK`; what a session has read is still there |
| `PaidOrdersAreSettled` | `Spec => []PaidIsSettled` |
| `RetriesAreAnswered` | `Spec => RetryIsAnswered` |
| `NoUnitIsCreditedTwice` | `DistinctLines` implies `Spec => []NeverOverCredited` |
| `TheLedgerIsKept` | `DistinctLines` implies `Spec => KeepsTheLedger`: `Settlement` implements `Receivables` |
| `TheReportsAgree` | `EntriesAreDated` implies `Spec => []ReportsAgree`, for any shops, beats, days and closed period |

*Assumptions*: the constants have their types (`MoneyAssumption`, `SettlementAssumption`), amounts are natural
numbers, and for the two theorems on notes `DistinctLines`, which the code does not enforce (`money_repeated`). The reports assume
`ReportsAssumption` and `EntriesAreDated`: payments and notes are entered on a day from 0 to today, as `created_at` is the time of the insert.

*Argument.* `IInv` says what each session may rely on (`SessionInv`) and what the tables keep (`TablesInv`). Rows are never
deleted, so what a session has read is a part of what there is (`Loaded`), and what is owed only shrinks as rows are added
(`OutstandingShrinks`): a status of PAID derived from old rows is right (`StatusSeen`), while one of
CREDIT may lag. A session that holds its order has seen all its rows (`Holds`, `Viewed`), because whoever commits
rows of an order either holds it or finds nobody holding it. Two notes of one order are kept apart without a lock by their
number: the notes of an order are numbered without gaps (`Numbered`), so a note whose number is free has read all
the notes there are (`NumberFree`), and at most one is pending (`OnePending`). `Careful` says what a step of
one session must leave to the others, and `OthersKeep` that it then keeps their part of the invariant; each action is shown
careful once.

That a delivered order which owes is on the outstanding list, although the list is chosen by a status that lags, is `PaidIsSettled` again: such an
order is not PAID. The rest is about sums. A sum is the sum of its parts by any key (`SumParts`: `<<k, i>>` names the i-th unit of the part k,
which numbers the units of the whole), a count is a sum of ones, and so figures by age, salesman, shop, beat, day or status add up (`GroupsAddUp`,
`CountsAddUp`). The orders are the parts by which payments are collected, since payments are of booked orders (`Booked`), of which there
are finitely many in every state, whatever `Order` is (`FinitelyManyBooked`). None of it needs the requests to be at rest.

### Accounts

`AccountsProofs` proves, for every finite set of users and any groups, tokens, sessions and requests:

| Theorem | Statement |
|---|---|
| `AccountsInvariant` | `Spec => []IInv` |
| `AnAdminRemainsTheorem` | `Spec => []AnAdminRemains` |
| `PasswordChangeEndsSessionsTheorem` | `Spec => []PasswordChangeEndsSessions` |
| `GroupGivesRoleTheorem` | `Spec => []GroupGivesRole` |
| `LimiterInvariant` | `Spec => []LimiterInv` |
| `OvershootIsBoundedTheorem` | `Spec => []OvershootIsBounded` |
| `ReleaseIsExactTheorem` | `Spec => []ReleaseIsExact` |

*Assumptions*: the types of the constants (`AccountsAssumption`, `LimiterAssumption`), and that the first rows agree with each other
(`FirstRowsAssumption`: a good token belongs to the present password, groups and roles agree, somebody is an admin). For the limiter, the sessions
are finitely many, the failures there are at first are in order and not in the future, and they overshoot no further than the sessions can
(`FirstFailuresAssumption`), as they do if requests like these wrote them.

*Argument.* An admin is removed by a commit that counted at least two (`SessionInv`); if the count is still right (`~miscounted`) and so is the row
(`outdated`), one of the others remains. For passwords the invariant is stronger than the property: no token is of a later version than its user
(`TokenInv`), so that raising the version leaves every token behind it. For groups it needs that a session about to set one has found it
and that groups are never deleted.

For the limiter a session that has passed `check` has a failure to write under each of its keys until it has written it, signed in or died (`ToWrite`). The failures that
count and those still to be written are fewer than the limit and the sessions together (`WithinRoom`): whoever passes found fewer than the limit, and not more than all sessions
write; a failure that is written takes its writer's place (`WrittenKeeps`), also over the purge, which keeps what counts because
the retention is no shorter than the window (`PurgedOf`). Failures in order that count are the last ones (`LaterAreLast`, from their number alone: an index that counts has all later ones
beside it), so that the failure which `check` picks as the releasing one has exactly a limit's worth from it on: one moment before it ages out the limit is reached, and then not (`ReleasedInTime`).

### Storefront

`StorefrontProofs` proves, for any number of shops, accounts, addresses, requests and sessions:

| Theorem | Statement |
|---|---|
| `StorefrontInvariant` | `Spec => []IInv` |
| `RequestsAreDecidedOnce` | `Spec => []DecidedOnce` |
| `AccountsActForConfirmedShops` | `Spec => []ReadyShopWasConfirmed` |
| `ConfirmedShopsKeepAnAddress` | `Spec => []ShopKeepsAnAddress` |
| `FormsSignUpOneShop` | `Spec => []OneShopPerForm` |

*Assumptions*: the types of the constants and of the requests (`ShopsAssumption`, `OnboardingAssumption`, `RequestsAssumption`,
`RequestAssumption`), and that the first rows agree (`FirstRowsAssumption`).

*Argument.* A decision is committed by a session that has read its request pending; where the row is still as it was read, it has no shop yet, and
`AskedInv` (no shop is made for a request that does not exist) gives a proposal its first. The form holds the account while it
acts and has read it under that lock (`SessionInv`, "locked"). A deletion has counted more than one address, of which its own is one, or is gone already;
what is left of a count that still holds is not empty. `OneShopPerForm` says that a shop of the store is one an account has confirmed, and not that
a number is carried by one shop, which the office may undo by editing numbers. With `IInv` it is inductive together with `ConfirmedHasShop` (an account that is linked to no shop has confirmed none):
a form signs up a shop for an account without one, whose confirmation it therefore does not overwrite (`ConfirmedKept`).

### Checkout

`CheckoutProofs` proves, for every catalogue, stock, settings, cart, and number of shops, addresses and sessions:

| Theorem | Statement |
|---|---|
| `OrdersFitTheStock` | `Spec => []OrderFitsStock` |
| `OrdersGoToTheirShops` | `Spec => []OrderDeliversToItsShop` |
| `QuotesAreOrdered` | `ModestRates` implies `Spec => []QuoteIsOrdered` |
| `InvoicesOfOrdersAddUp` | `ModestRates` implies `Spec => []InvoiceAddsUp` |

*Assumptions*: the types of the constants and of what the requests carry (`PricingAssumption`, `CheckoutAssumption`,
`StoreRequestAssumption`: prices, rates and packs are natural numbers, "delivery" is no SKU), and for the last two theorems `ModestRates`: SGST and CGST are
at most 50 % each and IGST at most 100 %, of the first SKUs and of every edit. `SKUCreate` does not check it. Without it the statements are false, not just unproved: a tax that is
more than the price that includes it makes `taxable + gst` more than the total, by an amount that depends on the state. Every real rate of GST
satisfies it, and so do the constants of `MCCheckout`.

*Argument.* `IInv(R)` says what a session may rely on (`SessionInv`), for SKU rows of a set `R` that edits stay in (`RowsStay`): all rows for the first two theorems,
`ModestRow` for the last two. A cart that is priced holds whole packs of visible SKUs, and these rows are the session's own; one that is checked
is within what it saw, which is at most what was free. An address that was found is the shop's, or gone, since addresses only ever go
(`AddressesOfStep`), and a gone one is not booked; a deletion takes it off the orders in its own transaction.

The money is an argument about rounding and sums. `Rounding`: a quotient is not rounded above a whole bound, so a tax is at most its value (`TaxWithin`) and
taxable and tax of a line make up its worth (`LineHasFacts`), whatever the state. So a total is what is due on the cart's rows, units, minimum
and percentage (`TotalIsDue`), which are all a quote and an order need to share. The parts of a tax make it up because the last takes the remainder (`ComponentsAddUp`), and the lines of an invoice are
as many as the SKUs, and the charge's (`ColumnOfLines`, by `SumRename`). That the sums, which are folds of the community modules, have the laws of `QuantitySums` is `SumFunctionIsSum`: a fold
is a solution of a recursive equation, of which the sums are one, and a smallest set on which there was another would have a smaller one.

### Catalogue

`CatalogueProofs` proves, for any tables, feed, requests, jobs and number of sessions:

| Theorem | Statement |
|---|---|
| `CatalogueInvariant` | `Spec => []IInv` |
| `FreshIds` | `Spec => []IdsAreFresh` |
| `PinsHaveEvidence` | `Spec => []PinIsEvidenced` |
| `HandSetStays` | `Spec => HandSetIsKept` |
| `ProgressStays` | `Spec => ProgressIsKept` |
| `ImportStaysWhole` | `Spec => ImportIsWhole`, by `ImportsGoOn` |

*Assumptions*: the types of the constants (`TablesAssumption`, `FeedAssumption`, `OutletsAssumption`), among them that the shop of a linked account exists, and what a request may carry
(`RequestAssumption`): a workbook names no ids and its brands and warehouses come before what belongs to them, which is the order in
which the import inserts its sheets; a form sets columns that the row has; a closed order is an order of a shop.

*Argument.* As long as no sequence was set back under a holder, an id that was drawn is behind its sequence, absent from the table and
nobody else's (`IdsInv`, `OwnId`); inserted keys are absent and inserted once (`KeysInv`), and here the wait of an insert for uncommitted keys is used.
A SKU that the script has updated is locked, so no other run updates it, no edit reaches it, and what was filled in was empty
(`FillInv`) unless `raced` says that an edit was committed between read and flush. A pin moves in three ways: `EditRetailer` is
the office; `RecordVisit` goes by the pin that was read, and the visit that is recorded is the evidence (`MovesWithReason`); `SaveOwnShop` sets it only for
an account that has confirmed nothing before (`FormSets`), and is then named in `confirmation`, which no step takes away (`ConfirmationsStay`).
Evidence is never lost (`EvidenceKept`).
For the import, `Progress` says that the first rows of the workbook are inserted, each with its parent, and the others are
still to be: a row that is drawn for finds its parent among the rows of its own transaction because the parent comes earlier in the workbook.
A step changes its own session only (`StepsAlone`); `OthersKept` says that what the others rely on then stays, since rows never disappear and jobs only become more.

### Only model-checked

- That transactions implement the handlers (`RequestsAreAtomic`): their programs are built with recursive
  operators of the community modules and the mapping sums over links.
- Liveness (`EveryRequestEnds`, `EveryRequestIsAnswered`), which the prover does not do under fairness.

## 5. Not modelled

- The import of daily sales (`app/services/excel_import.py:559-859`): the function raises on its first line (RPT-10), and what follows is never reached.
- Documents (`invoice_pdf.py`, `bill_label.py`, `excel_template.py`, `invoice_export.py`): layout of PDFs, labels and spreadsheets, computed from rows that are
  modelled. What the code promises of them is how they look.
- The listeners that refuse changes of an issued invoice (`app/models/invoice.py:179-189`): no modelled handler changes one; and the changeable prefix of the numbers.
- The company profile, the payment QR image, bill labels and landing leads: single rows that are only printed.
- The HTTP layer: routing, validation of payloads, translation of exceptions. The roles and dependencies of a route are guards of its action.
- `update_address`, names, GSTINs and other text: no property tells their values apart.
- Firebase's verification of a phone number, which is taken as given; the expiry of tokens, which is that nobody sends one any more.
- Search, paging and sorting of lists.
- Migrations other than 0070, and the seeding of demonstration data.

Further work that would pay: `OrderTransactions` without recursive helpers, so that its safety can be proved; the refinement of
`Checkout`'s booking into `OrderInventory`'s `CreateOrder`, which today share only the shape of an order.
