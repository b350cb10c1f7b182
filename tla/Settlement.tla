----------------------------- MODULE Settlement -----------------------------
(***************************************************************************)
(* Payments, credit notes and the payment status of orders, as requests    *)
(* running side by side: each is one PostgreSQL transaction under READ     *)
(* COMMITTED and one SQLAlchemy session (autoflush off).                   *)
(*                                                                         *)
(* The office (services/accounting.py) reads the order without a lock and  *)
(* the rows of its collections when they are first used; salesmen, drivers *)
(* and cancellations (services/order.py) lock the order row first.  An     *)
(* INSERT of a payment or a credit note shares the key of its order row,   *)
(* and so waits for who has it locked.  Payment and note both re-derive    *)
(* the order's payment_status from what their session has read, and write  *)
(* it only when it differs from what the session read.                     *)
(*                                                                         *)
(* The stages of the stock before delivery are one status, "OPEN"; an      *)
(* order is billed what it was booked for (module OrderMoney).             *)
(***************************************************************************)
EXTENDS Integers, Sequences, FiniteSets, OrderMoney

CONSTANTS
  Session,    \* the server's sessions, one request each
  NoSession,  \* the holder of an order row nobody has locked
  Reference,  \* the references clients put on payments
  Request,    \* the requests that may arrive
  Deposit,    \* the amounts offered when an order is booked
  Salesman,   \* those who collect on the road
  NoSalesman, \* of payments that nobody collected on the road
  Creator     \* the salesman who booked each order

\* A payment_amount of None.
NoAmount == -1

Line == [sku : Sku, quantity : Nat \ {0}, price : Nat]

\* Amounts of payments are not negative: the office's requests carry a plain
\* float, and nothing in the code gives a meaning to a negative one.
PossibleRequest ==
  [kind : {"payment"}, order : Order, amount : Nat, reference : Reference]
  \cup [kind : {"payments"}, order : Order, amounts : Seq(Nat)]
  \cup [kind : {"cash"}, order : Order, by : Salesman, amount : Nat \ {0}, reference : Reference]
  \cup [kind : {"delivery"}, order : Order, asked : {"", "CREDIT", "PAID", "UNPAID"},
        mode : {"CASH", "CREDIT"}, amount : Nat \cup {NoAmount}]
  \cup [kind : {"cancel"}, order : Order]
  \cup [kind : {"note"}, order : Order, lines : Seq(Line), restock : BOOLEAN]

ASSUME SettlementAssumption ==
  /\ NoSession \notin Session
  /\ Request \subseteq PossibleRequest
  /\ Deposit \subseteq Nat \cup {NoAmount}
  /\ NoSalesman \notin Salesman
  /\ Creator \in [Order -> Salesman]

VARIABLES
  status,        \* Order.status
  paymentStatus, \* Order.payment_status
  accounts,      \* Account rows, all orders
  notes,         \* CreditNote rows and their items, all orders
  lock,          \* the session that holds an order FOR UPDATE, or NoSession
  request,       \* the request each session serves
  session        \* how far each session is, and what it has read

tables == <<status, paymentStatus, accounts, notes>>
vars == <<tables, lock, request, session>>

Final == {"answered", "refused", "failed"}
Stage == {"arrived", "read", "checked", "half", "written", "locked", "viewed"} \cup Final

PaymentStatus == {"CREDIT", "PARTIAL", "PAID"}

\* What a session that has read nothing knows.
Fresh == [stage |-> "arrived", loaded |-> "CREDIT", payments |-> {}, notes |-> {}]

-----------------------------------------------------------------------------
(* Operators of the handlers.                                              *)

PaymentsOf(o) == {p \in accounts : p.order = o}
NotesOf(o) == {n \in notes : n.order = o}

\* The payment_status of an order paid with ps and credited with ns.
StatusFor(o, ps, ns) ==
  LET left == Outstanding(o, ps, ns)
  IN  CASE left = 0 -> "PAID"
        [] left > 0 /\ left < Bill[o] -> "PARTIAL"
        [] OTHER -> "CREDIT"

\* References the server makes up: the mode, the order, the number of the
\* payment and the second; here, the number of the payment among all.
Generated(i) == Cardinality(accounts) + i

ReferenceUsed(r) == \E p \in accounts : p.reference = r

\* A request on o, serving s, is of one of the kinds ks and at the stage g.
Serving(s, ks, g) == request[s].kind \in ks /\ session[s].stage = g

Advance(s, g) == session' = [session EXCEPT ![s].stage = g]

\* Wrong variant: a session that ends keeps its locks.
EndKeepingLocks(s, answer) ==
  /\ session' = [session EXCEPT ![s] = [Fresh EXCEPT !.stage = answer]]
  /\ UNCHANGED lock

\* A session that ends lets go of the rows it had locked.
End(s, answer) ==
  /\ session' = [session EXCEPT ![s] = [Fresh EXCEPT !.stage = answer]]
  /\ lock' = [o \in Order |-> IF lock[o] = s THEN NoSession ELSE lock[o]]

\* A session that has inserted its credit note and not committed.
Pending(s) == request[s].kind = "note" /\ session[s].stage \in {"written", "viewed"}

NoteOf(s) ==
  [order |-> request[s].order, number |-> Cardinality(session[s].notes) + 1,
   lines |-> request[s].lines, restock |-> request[s].restock]

\* Wrong variant: the notes written before are forgotten.
LineFitsAlone(o, ns, line) == line.quantity <= Ordered[o][line.sku]

\* The check create_credit_note makes of each line on its own.
LineFits(o, ns, line) ==
  UnitsCredited(ns, line.sku) + line.quantity <= Ordered[o][line.sku]

\* The amount _record_payment takes, and whether it takes it.
AmountTaken(o, ps, ns, amount) ==
  IF amount = NoAmount THEN Outstanding(o, ps, ns) ELSE amount
Takes(o, ps, ns, amount) ==
  AmountTaken(o, ps, ns, amount) \in 1 .. Outstanding(o, ps, ns)

-----------------------------------------------------------------------------
(* Booking: the order and its deposit are committed together.              *)

Book(o) ==
  /\ status[o] = "ABSENT"
  /\ status' = [status EXCEPT ![o] = "OPEN"]
  /\ \/ /\ paymentStatus' = [paymentStatus EXCEPT ![o] = "CREDIT"]
        /\ UNCHANGED accounts
     \/ \E d \in Deposit :
          LET p == [order |-> o, amount |-> AmountTaken(o, {}, {}, d),
                    reference |-> Generated(1), entry |-> "booking", by |-> NoSalesman]
          IN  /\ Takes(o, {}, {}, d) /\ ~ReferenceUsed(p.reference)
              /\ accounts' = accounts \cup {p}
              /\ paymentStatus' = [paymentStatus EXCEPT ![o] = StatusFor(o, {p}, {})]
  /\ UNCHANGED <<notes, lock, request, session>>

-----------------------------------------------------------------------------
(* The office: create_payment, create_multi_payment, create_credit_note.   *)

\* The order row is read, and not locked.
ReadOrder(s) ==
  LET o == request[s].order
      known == IF request[s].kind = "note" THEN status[o] = "DELIVERED"
                                           ELSE status[o] # "ABSENT"
  IN  /\ Serving(s, {"payment", "payments", "note"}, "arrived")
      /\ \/ /\ known
            /\ session' = [session EXCEPT ![s].stage = "read", ![s].loaded = paymentStatus[o]]
            /\ UNCHANGED lock
         \/ ~known /\ End(s, "refused")
      /\ UNCHANGED <<tables, request>>

\* create_payment looks for its reference: a retry is answered with the row.
CheckReference(s) ==
  LET r == request[s]
  IN  /\ Serving(s, {"payment"}, "read")
      /\ \/ ~ReferenceUsed(r.reference) /\ Advance(s, "checked") /\ UNCHANGED lock
         \/ \E p \in accounts :
              /\ p.reference = r.reference
              /\ End(s, IF p.order = r.order THEN "answered" ELSE "refused")
      /\ UNCHANGED <<tables, request>>

\* create_credit_note checks its lines against the notes it reads now.
CheckCredits(s) ==
  LET r == request[s]
      ns == NotesOf(r.order)
      fits == \A i \in DOMAIN r.lines : LineFits(r.order, ns, r.lines[i])
  IN  /\ Serving(s, {"note"}, "read")
      /\ \/ /\ fits
            /\ session' = [session EXCEPT ![s].stage = "checked", ![s].notes = ns]
            /\ UNCHANGED lock
         \/ ~fits /\ End(s, "refused")
      /\ UNCHANGED <<tables, request>>

\* The note is inserted: its number is the next one of those read, and unique.
\* A session that inserts a number another has pending waits for its end.
NumberPending(s) ==
  \E t \in Session \ {s} :
    Pending(t) /\ NoteOf(t).order = NoteOf(s).order /\ NoteOf(t).number = NoteOf(s).number

\* Wrong variant: the number is not unique.
NumberNotUnique(s) == FALSE

NumberUsed(s) ==
  \E n \in notes : n.order = NoteOf(s).order /\ n.number = NoteOf(s).number

WriteNote(s) ==
  /\ Serving(s, {"note"}, "checked")
  /\ lock[request[s].order] = NoSession
  /\ ~NumberPending(s)
  /\ \/ ~NumberUsed(s) /\ Advance(s, "written") /\ UNCHANGED lock
     \/ NumberUsed(s) /\ End(s, "failed")
  /\ UNCHANGED <<tables, request>>

\* The payments of the order are read, when they are first used.
LoadPayments(s) ==
  /\ \/ Serving(s, {"payment"}, "checked")
     \/ Serving(s, {"payments"}, "read")
     \/ Serving(s, {"note"}, "written")
  /\ session' = [session EXCEPT
       ![s].stage = IF request[s].kind = "note" THEN "viewed" ELSE "half",
       ![s].payments = PaymentsOf(request[s].order)]
  /\ UNCHANGED <<tables, lock, request>>

LoadNotes(s) ==
  /\ Serving(s, {"payment", "payments"}, "half")
  /\ session' = [session EXCEPT ![s].stage = "viewed",
                                ![s].notes = NotesOf(request[s].order)]
  /\ UNCHANGED <<tables, lock, request>>

\* The rows a payment request of the office adds.
NewPayments(s) ==
  LET r == request[s]
      row(a, ref) == [order |-> r.order, amount |-> a, reference |-> ref,
                      entry |-> "office", by |-> NoSalesman]
  IN  IF r.kind = "payment"
      THEN {row(r.amount, r.reference)}
      ELSE {row(r.amounts[i], Generated(i)) : i \in DOMAIN r.amounts}

\* payment_status becomes st, unless the session read st when it began.
SetPaymentStatus(s, st) ==
  paymentStatus' = [paymentStatus EXCEPT
    ![request[s].order] = IF st = session[s].loaded THEN @ ELSE st]

CommitPayments(s) ==
  LET o == request[s].order
      ps == NewPayments(s)
      duplicate == \E p \in ps : ReferenceUsed(p.reference)
  IN  /\ Serving(s, {"payment", "payments"}, "viewed")
      /\ lock[o] = NoSession
      /\ \/ /\ ~duplicate
            /\ accounts' = accounts \cup ps
            /\ SetPaymentStatus(s, StatusFor(o, session[s].payments \cup ps, session[s].notes))
            /\ End(s, "answered")
         \/ duplicate /\ End(s, "failed") /\ UNCHANGED <<accounts, paymentStatus>>
      /\ UNCHANGED <<status, notes, request>>

\* The note commits.  The collection its session read does not hold the note,
\* which was added to the session and not to the collection.
CommitNote(s) ==
  /\ Serving(s, {"note"}, "viewed")
  /\ notes' = notes \cup {NoteOf(s)}
  /\ SetPaymentStatus(s, StatusFor(request[s].order, session[s].payments, session[s].notes))
  /\ End(s, "answered")
  /\ UNCHANGED <<status, accounts, request>>

-----------------------------------------------------------------------------
(* Salesmen, drivers and cancellations: the order row is locked first.     *)

\* Wrong variant: the order is read without FOR UPDATE.
FreeOfInserts(o) == \A t \in Session : Pending(t) => request[t].order # o

\* Nobody holds the order, and no row that refers to it is being inserted.
Free(o) ==
  /\ lock[o] = NoSession
  /\ \A t \in Session : Pending(t) => request[t].order # o

LockOrder(s) ==
  LET o == request[s].order
  IN  /\ Serving(s, {"cash", "delivery", "cancel"}, "arrived")
      /\ Free(o)
      /\ \/ /\ status[o] # "ABSENT"
            /\ lock' = [lock EXCEPT ![o] = s]
            /\ session' = [session EXCEPT ![s].stage = "locked",
                                          ![s].loaded = paymentStatus[o]]
         \/ status[o] = "ABSENT" /\ End(s, "refused")
      /\ UNCHANGED <<tables, request>>

View(s) ==
  session' = [session EXCEPT ![s].stage = "viewed",
                             ![s].payments = PaymentsOf(request[s].order),
                             ![s].notes = NotesOf(request[s].order)]

\* Wrong variant: a cancelled order is refused before retries are looked for.
ViewForCashCancelledFirst(s) ==
  LET r == request[s]
      used == {p \in accounts : p.reference = r.reference}
      takes == Creator[r.order] = r.by /\ status[r.order] # "CANCELLED"
  IN  /\ Serving(s, {"cash"}, "locked")
      /\ \/ ~takes /\ End(s, "refused")
         \/ takes /\ used # {} /\ End(s, "answered")
         \/ takes /\ used = {} /\ View(s) /\ UNCHANGED lock
      /\ UNCHANGED <<tables, request>>

\* record_salesman_cash: whose order it is, then whether this is a retry, and
\* only then whether the order still takes money.
ViewForCash(s) ==
  LET r == request[s]
      used == {p \in accounts : p.reference = r.reference}
      same == \A p \in used : p.order = r.order /\ p.by = r.by /\ p.amount = r.amount
  IN  /\ Serving(s, {"cash"}, "locked")
      /\ \/ Creator[r.order] # r.by /\ End(s, "refused")
         \/ /\ Creator[r.order] = r.by /\ used # {}
            /\ End(s, IF same THEN "answered" ELSE "refused")
         \/ /\ Creator[r.order] = r.by /\ used = {}
            /\ \/ status[r.order] = "CANCELLED" /\ End(s, "refused")
               \/ status[r.order] # "CANCELLED" /\ View(s) /\ UNCHANGED lock
      /\ UNCHANGED <<tables, request>>

\* Commit the request of s together with a payment it has collected.
Collected(s, amount, reference, entry, by) ==
  LET o == request[s].order
      p == [order |-> o, reference |-> reference, entry |-> entry, by |-> by,
            amount |-> AmountTaken(o, session[s].payments, session[s].notes, amount)]
  IN  /\ Takes(o, session[s].payments, session[s].notes, amount)
      /\ ~ReferenceUsed(reference)
      /\ accounts' = accounts \cup {p}
      /\ SetPaymentStatus(s, StatusFor(o, session[s].payments \cup {p}, session[s].notes))
      /\ End(s, "answered")

\* The collection is committed, or refused when more than is due; another
\* order may have taken the reference since it was looked for.
CommitCash(s) ==
  LET r == request[s]
      takes == Takes(r.order, session[s].payments, session[s].notes, r.amount)
  IN  /\ Serving(s, {"cash"}, "viewed")
      /\ \/ Collected(s, r.amount, r.reference, "cash", r.by)
         \/ /\ ~takes \/ ReferenceUsed(r.reference)
            /\ End(s, IF takes THEN "failed" ELSE "refused")
            /\ UNCHANGED <<accounts, paymentStatus>>
      /\ UNCHANGED <<status, notes, request>>

\* update_order_status to DELIVERED.
ViewForDelivery(s) ==
  LET open == status[request[s].order] = "OPEN"
  IN  /\ Serving(s, {"delivery"}, "locked")
      /\ \/ open /\ View(s) /\ UNCHANGED lock
         \/ ~open /\ End(s, "refused")
      /\ UNCHANGED <<tables, request>>

\* Wrong variant: an order reported PAID is taken to be settled.
SettledAsReported(s) == TRUE

\* What the driver reports of the payment: nothing; credit; settled already;
\* or money taken now (a mode of CREDIT is a payment on credit).  "PAID" is
\* PARTIAL too, which is handled like it; UNPAID is accepted and ignored.
Settled(s) == Outstanding(request[s].order, session[s].payments, session[s].notes) = 0
Nothing(s) ==
  \/ request[s].asked = "" /\ request[s].amount = NoAmount
  \/ request[s].asked = "UNPAID"
Collects(s) ==
  \/ request[s].asked = "" /\ request[s].amount # NoAmount
  \/ request[s].asked = "PAID" /\ ~Settled(s)
OnCredit(s) ==
  \/ request[s].asked = "CREDIT"
  \/ Collects(s) /\ request[s].mode = "CREDIT"

CommitDelivery(s) ==
  LET r == request[s]
  IN  /\ Serving(s, {"delivery"}, "viewed")
      /\ status' = [status EXCEPT ![r.order] = "DELIVERED"]
      /\ \/ Nothing(s) /\ UNCHANGED <<accounts, paymentStatus>> /\ End(s, "answered")
         \/ /\ OnCredit(s)
            /\ IF session[s].payments = {} THEN SetPaymentStatus(s, "CREDIT")
                                           ELSE UNCHANGED paymentStatus
            /\ UNCHANGED accounts /\ End(s, "answered")
         \/ /\ r.asked = "PAID" /\ Settled(s) /\ r.amount \in {NoAmount, 0}
            /\ SetPaymentStatus(s, "PAID")
            /\ UNCHANGED accounts /\ End(s, "answered")
         \/ /\ Collects(s) /\ r.mode = "CASH"
            /\ Collected(s, r.amount, Generated(1), "delivery", NoSalesman)
      /\ UNCHANGED <<notes, request>>

RefuseDelivery(s) ==
  LET r == request[s]
  IN  /\ Serving(s, {"delivery"}, "viewed")
      /\ \/ r.asked = "PAID" /\ Settled(s) /\ r.amount \notin {NoAmount, 0}
         \/ /\ Collects(s) /\ r.mode = "CASH"
            /\ ~Takes(r.order, session[s].payments, session[s].notes, r.amount)
      /\ End(s, "refused")
      /\ UNCHANGED <<tables, request>>

\* update_order_status to CANCELLED, which a delivered order may still be.
Cancel(s) ==
  LET o == request[s].order
      legal == status[o] \in {"OPEN", "DELIVERED"}
  IN  /\ Serving(s, {"cancel"}, "locked")
      /\ \/ legal /\ status' = [status EXCEPT ![o] = "CANCELLED"] /\ End(s, "answered")
         \/ ~legal /\ End(s, "refused") /\ UNCHANGED status
      /\ UNCHANGED <<paymentStatus, accounts, notes, request>>

-----------------------------------------------------------------------------

\* A worker or its connection dies: the database rolls its transaction back.
Die(s) ==
  /\ session[s].stage \notin {"arrived"} \cup Final
  /\ End(s, "failed")
  /\ UNCHANGED <<tables, request>>

Step(s) ==
  \/ ReadOrder(s) \/ CheckReference(s) \/ CheckCredits(s) \/ WriteNote(s)
  \/ LoadPayments(s) \/ LoadNotes(s) \/ CommitPayments(s) \/ CommitNote(s)
  \/ LockOrder(s) \/ ViewForCash(s) \/ CommitCash(s)
  \/ ViewForDelivery(s) \/ CommitDelivery(s) \/ RefuseDelivery(s) \/ Cancel(s)

\* Every request has been answered and every order booked: nothing is left.
Idle ==
  /\ \A s \in Session : session[s].stage \in Final
  /\ \A o \in Order : status[o] # "ABSENT"
  /\ UNCHANGED vars

Init ==
  /\ status = [o \in Order |-> "ABSENT"]
  /\ paymentStatus = [o \in Order |-> "CREDIT"]
  /\ accounts = {}
  /\ notes = {}
  /\ lock = [o \in Order |-> NoSession]
  /\ request \in [Session -> Request]
  /\ session = [s \in Session |-> Fresh]

Next ==
  \/ \E o \in Order : Book(o)
  \/ \E s \in Session : Step(s) \/ Die(s)
  \/ Idle

Spec == Init /\ [][Next]_vars

\* A worker goes on with its request whenever it can: the server runs, and the
\* row locks it may have to wait for are granted in the order asked for.
Fairness == \A s \in Session : SF_vars(Step(s))

FairSpec == Spec /\ Fairness

-----------------------------------------------------------------------------
(* Properties.                                                             *)

\* The promise of the tables of payments and credit notes, of these tables.
Ledger == INSTANCE Receivables

\* Requests for credit notes name each SKU on one line.  (Nothing checks it:
\* CreditWithinOrder below is violated by a request that does not.)
DistinctLines ==
  \A r \in Request : r.kind = "note" =>
    \A i, j \in DOMAIN r.lines : r.lines[i].sku = r.lines[j].sku => i = j

Payment ==
  [order : Order, amount : Nat, reference : Reference \cup Nat,
   entry : {"booking", "office", "cash", "delivery"},
   by : Salesman \cup {NoSalesman}]
Note == [order : Order, number : Nat, lines : Seq(Line), restock : BOOLEAN]

TypeOK ==
  /\ status \in [Order -> {"ABSENT", "OPEN", "DELIVERED", "CANCELLED"}]
  /\ paymentStatus \in [Order -> PaymentStatus]
  /\ accounts \subseteq Payment /\ IsFiniteSet(accounts)
  /\ notes \subseteq Note /\ IsFiniteSet(notes)
  /\ lock \in [Order -> Session \cup {NoSession}]
  /\ request \in [Session -> Request]
  /\ session \in [Session -> [stage : Stage, loaded : PaymentStatus,
                              payments : SUBSET accounts, notes : SUBSET notes]]

\* The reports of what shops owe list the orders that are not PAID and no
\* others (outstanding.py: a PAID order is invisible whatever it owes): an
\* order is PAID only when it owes nothing, whoever wrote the status and
\* however old the payments were it was derived from.
PaidIsSettled ==
  \A o \in Order :
    paymentStatus[o] = "PAID" => Outstanding(o, PaymentsOf(o), NotesOf(o)) = 0

\* No unit of an order is credited twice, although create_credit_note checks
\* the notes it has read without a lock: a note written meanwhile has taken
\* the number of the next one.  (Of notes whose lines name distinct SKUs.)
NeverOverCredited ==
  \A o \in Order, s \in Sku :
    UnitsCredited(NotesOf(o), s) <= Ordered[o][s]

\* The requests implement the accounts' promise: nobody who collects against
\* the balance takes more than is due when the payment is entered, references
\* are unique, and no unit is credited twice.
KeepsTheLedger == Ledger!Spec

\* A salesman's retry of a collection that was entered is answered with it,
\* also when the order has since been paid in full or cancelled.
RetryIsAnswered ==
  [][\A s \in Session :
       /\ request[s].kind = "cash" /\ request[s].by = Creator[request[s].order]
       /\ session[s].stage # "refused" /\ session'[s].stage = "refused"
       => ~ \E p \in accounts :
              /\ p.reference = request[s].reference /\ p.order = request[s].order
              /\ p.by = request[s].by /\ p.amount = request[s].amount]_vars

\* Every request is answered: those that wait for a row, or for the number of
\* a credit note, are not left waiting, whoever refuses or dies before.
EveryRequestIsAnswered ==
  \A s \in Session : <>(session[s].stage \in Final)

(* A statement about the code that it does not keep.                       *)

\* A credit note credits no more of a SKU than was ordered, however its lines
\* are split ("Credit quantity exceeds original", accounting.py:139).
CreditWithinOrder == NeverOverCredited
=============================================================================
