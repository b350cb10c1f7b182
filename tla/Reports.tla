------------------------------- MODULE Reports -------------------------------
(***************************************************************************)
(* What the office reads of orders and their money, in the tables of       *)
(* module Settlement: the outstanding report, daily sales and performance  *)
(* (services/outstanding.py, daily_sales.py), payments, collections and    *)
(* credit notes (services/accounting.py), the dashboard and the page of    *)
(* orders (services/admin.py), the detail of an order (services/order.py)  *)
(* and coverage (services/coverage.py).  Each is a query of its own and    *)
(* counts in its own way; each is read in one transaction.                 *)
(*                                                                         *)
(* A report is of the orders, or payments, of a range of days.  Of its     *)
(* other filters none is used: they choose among the rows like the days.   *)
(***************************************************************************)
EXTENDS Settlement

CONSTANTS
  Booking,      \* the warehouse, shop, salesman and day of each order
  Route,        \* the beat and the salesman of each shop
  NoBeat,       \* of a shop on no beat
  EnteredOn(_), \* the day of a payment or a credit note
  Today,
  Closing       \* the last day of the period that is closed

\* What a report reads of an Order beside its money.
BookingRow ==
  [warehouse : {Booking[o].warehouse : o \in Order}, retailer : DOMAIN Route,
   salesman : Salesman, day : 0 .. Today]

ASSUME ReportsAssumption ==
  /\ Today \in Nat /\ Closing \in 0 .. Today
  /\ Booking \in [Order -> BookingRow]

\* Wrong variant: the last day of a range is left out.
InRangeShort(day, f) == f.from <= day /\ day < f.to

\* _parse_date: a range of days includes its last.
InRange(day, f) == f.from <= day /\ day < f.to + 1

Chosen(f) == {o \in Order : status[o] # "ABSENT" /\ InRange(Booking[o].day, f)}

Owes(o) == Outstanding(o, PaymentsOf(o), NotesOf(o))
SumOf(amount(_), S) == Sum([x \in S |-> amount(x)], S)

\* The rows S in groups of one key each.
Groups(key(_), S) == [k \in {key(x) : x \in S} |-> {x \in S : key(x) = k}]
Figures(figure(_), groups) == [k \in DOMAIN groups |-> figure(groups[k])]

-----------------------------------------------------------------------------
(* What shops owe: get_outstanding_orders and get_outstanding_summary.     *)

\* Wrong variant: only orders nobody has paid for.
UnsettledOnCredit(f) ==
  {o \in Chosen(f) : status[o] = "DELIVERED" /\ paymentStatus[o] = "CREDIT"}

Unsettled(f) ==
  {o \in Chosen(f) : status[o] = "DELIVERED" /\ paymentStatus[o] \in {"CREDIT", "PARTIAL"}}

OutstandingOrders(f) == {o \in Unsettled(f) : Owes(o) > 0}

Age(o) ==
  LET days == Today - Booking[o].day
  IN  CASE days <= 7 -> "0_7" [] days > 7 /\ days <= 15 -> "7_15"
        [] days > 15 /\ days <= 30 -> "15_30" [] OTHER -> "30_plus"

OutstandingSummary(f) ==
  LET due(os) == SumOf(Owes, os)
      retailer(o) == Booking[o].retailer
      salesman(o) == Booking[o].salesman
      listed == OutstandingOrders(f)
  IN  [total |-> due(listed),
       recovered |-> SumOf(LAMBDA o : Amount(PaymentsOf(o)), listed),
       aging |-> Figures(due, Groups(Age, listed)),
       bySalesman |-> Figures(due, Groups(salesman, listed)),
       byRetailer |-> Figures(due, Groups(retailer, listed))]

-----------------------------------------------------------------------------
(* The dashboard, the page of orders and the detail of an order.           *)

TotalAmount(o) == Bill[o]
Revenue(os) == SumOf(TotalAmount, os)

StatusSummary(f) == Figures(Cardinality, Groups(LAMBDA o : status[o], Chosen(f)))

AdminSummary(f) ==
  LET os == Chosen(f) IN
  [total |-> Cardinality(os),
   revenue |-> Revenue(os),
   outstanding |-> Revenue({o \in os : paymentStatus[o] # "PAID"}),
   paymentStatus |-> Figures(Cardinality, Groups(LAMBDA o : paymentStatus[o], os)),
   overTime |-> Figures(Cardinality, Groups(LAMBDA o : Booking[o].day, os)),
   byWarehouse |-> Figures(Cardinality, Groups(LAMBDA o : Booking[o].warehouse, os))]

OrdersPage(f) ==
  {[order |-> o, total |-> TotalAmount(o), pending |-> Owes(o)] : o \in Chosen(f)}

\* What _serialize_order shows of the money of an order, and whether
\* get_order_detail offers s to collect.
OrderDetail(o, s) ==
  [total |-> Bill[o],
   pending |-> Owes(o),
   payments |-> PaymentsOf(o),
   canCollect |-> Creator[o] = s /\ status[o] # "CANCELLED" /\ Owes(o) > 0]

-----------------------------------------------------------------------------
(* Sales by day and by salesman.                                           *)

Sales(os) ==
  [orders |-> Cardinality(os),
   delivered |-> Cardinality({o \in os : status[o] = "DELIVERED"}),
   cancelled |-> Cardinality({o \in os : status[o] = "CANCELLED"}),
   amount |-> Revenue(os),
   collected |-> SumOf(LAMBDA o : Amount(PaymentsOf(o)), os)]

DailySales(f) ==
  [total |-> Sales(Chosen(f)),
   days |-> Figures(Sales, Groups(LAMBDA o : Booking[o].day, Chosen(f)))]

SalesmanPerformance(f) ==
  LET result(os) ==
        [orders |-> Cardinality(os),
         delivered |-> Revenue({o \in os : status[o] = "DELIVERED"}),
         cancelled |-> Revenue({o \in os : status[o] = "CANCELLED"})]
  IN  Figures(result, Groups(LAMBDA o : Booking[o].salesman, Chosen(f)))

-----------------------------------------------------------------------------
(* Payments, collections and credit notes, by the day they were entered.   *)

PaymentsIn(f) == {p \in accounts : InRange(EnteredOn(p), f)}

Payments(f) ==
  [total |-> Amount(PaymentsIn(f)), daily |-> Figures(Amount, Groups(EnteredOn, PaymentsIn(f)))]

CollectedBy(f, by) == {p \in PaymentsIn(f) : p.by = by}

CollectionSummary(day) ==
  LET ps == PaymentsIn([from |-> day, to |-> day]) IN
  [total |-> Amount(ps), collectors |-> Figures(Amount, Groups(LAMBDA p : p.by, ps))]

CreditNotes(f) ==
  LET ns == {n \in notes : InRange(EnteredOn(n), f)} IN
  [total |-> Credit(ns), amounts |-> [n \in ns |-> NoteTotal(n)]]

-----------------------------------------------------------------------------
(* Coverage: the shops on beats, and those of them that were billed.       *)

Coverage(f) ==
  LET planned == {r \in DOMAIN Route : Route[r].beat # NoBeat}
      billed == {r \in planned : \E o \in Chosen(f) :
                                   Booking[o].retailer = r /\ status[o] # "CANCELLED"}
      billedOf(rs) == Cardinality(rs \cap billed)
  IN  [billed |-> Cardinality(billed),
       withoutBeat |-> Cardinality(DOMAIN Route \ planned),
       byBeat |-> Figures(billedOf, Groups(LAMBDA r : Route[r].beat, planned)),
       bySalesman |-> Figures(billedOf, Groups(LAMBDA r : Route[r].salesman, planned))]

-----------------------------------------------------------------------------
(* Properties.                                                             *)

AllDays == [from |-> 0, to |-> Today]
Closed == [from |-> 0, to |-> Closing]
Current == [from |-> Closing + 1, to |-> Today]
AddUp(figures) == SumOf(LAMBDA k : figures[k], DOMAIN figures)

\* The reports agree, whatever requests run.  A delivered order is on the
\* outstanding list, which is chosen by the payment status some request derived
\* from what it had read, exactly when the page of orders shows that it owes
\* and the salesman who booked it is offered to collect.  What the list adds up
\* to is within what the dashboard calls outstanding, the bills of the orders
\* not marked PAID.  Each way of dividing a total adds up to it, and the period
\* that is closed and the current one add up to all.  (Asked where no request is
\* half done: one that is has committed nothing, and may die there.)
ReportsAgree ==
  (\A s \in Session : session[s].stage \in {"arrived"} \cup Final) =>
  LET due == OutstandingSummary(AllDays)
      listed == OutstandingOrders(AllDays)
      board == AdminSummary(AllDays)
      sales == DailySales(AllDays)
      people == SalesmanPerformance(AllDays)
      cover == Coverage(AllDays)
      paid == Payments(AllDays)
  IN
  /\ \A row \in OrdersPage(AllDays) :
       status[row.order] = "DELIVERED" =>
         /\ row.order \in listed <=> row.pending > 0
         /\ row.order \in listed <=> OrderDetail(row.order, Creator[row.order]).canCollect
  /\ due.total <= board.outstanding
  /\ AddUp(due.aging) = due.total /\ AddUp(due.bySalesman) = due.total
  /\ AddUp(due.byRetailer) = due.total
  /\ sales.total.amount = board.revenue /\ sales.total.collected = paid.total
  /\ SumOf(LAMBDA d : sales.days[d].amount, DOMAIN sales.days) = board.revenue
  /\ SumOf(LAMBDA d : CollectionSummary(d).total, DOMAIN paid.daily) = paid.total
  /\ \A s \in Salesman :
       LET of(figures) == IF s \in DOMAIN figures THEN figures[s] ELSE 0 IN
       Amount(CollectedBy(AllDays, s))
         = SumOf(LAMBDA d : of(CollectionSummary(d).collectors), DOMAIN paid.daily)
  /\ SumOf(LAMBDA s : people[s].orders, DOMAIN people) = board.total
  /\ AddUp(board.paymentStatus) = board.total /\ AddUp(StatusSummary(AllDays)) = board.total
  /\ AddUp(board.byWarehouse) = board.total /\ AddUp(board.overTime) = board.total
  /\ AddUp(cover.byBeat) = cover.billed /\ AddUp(cover.bySalesman) = cover.billed
  /\ AdminSummary(Closed).revenue + AdminSummary(Current).revenue = board.revenue
  /\ Payments(Closed).total + Payments(Current).total = paid.total
  /\ CreditNotes(Closed).total + CreditNotes(Current).total = Credit(notes)
=============================================================================
