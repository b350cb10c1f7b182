----------------------------- MODULE Receivables -----------------------------
(***************************************************************************)
(* What the accounts of an order promise, whoever writes them: an abstract *)
(* specification of the payment and credit-note tables.  Its steps are the *)
(* entries that may be committed; who reads what, and when, is a matter of *)
(* the requests (module Settlement), which are to implement it.            *)
(*                                                                         *)
(*   - no reference is ever on two payments;                               *)
(*   - what is collected against the balance (a salesman on the road, a    *)
(*     driver at the door, a deposit at booking) is due when it is entered;*)
(*     the office may enter any amount, an overpayment too;                *)
(*   - no unit of an order is credited twice.                              *)
(***************************************************************************)
EXTENDS Integers

CONSTANTS
  Ordered,              \* the units of each SKU on each order
  Outstanding(_, _, _), \* what an order owes after payments and notes
  UnitsOn(_, _),        \* the units of a SKU on a note
  UnitsCredited(_, _)   \* the units of a SKU on a set of notes

VARIABLES
  accounts, \* the payments entered
  notes     \* the credit notes entered

PaymentsOf(o) == {p \in accounts : p.order = o}
NotesOf(o) == {n \in notes : n.order = o}

NewReferences(ps) ==
  \A p \in ps, q \in accounts \cup ps : p # q => p.reference # q.reference

Init == accounts = {} /\ notes = {}

\* The office enters payments.
Enter(ps) ==
  /\ NewReferences(ps)
  /\ \A p \in ps : p.entry = "office"
  /\ accounts' = accounts \cup ps
  /\ UNCHANGED notes

\* One payment is collected against the balance of its order.
Collect(p) ==
  /\ NewReferences({p})
  /\ p.amount <= Outstanding(p.order, PaymentsOf(p.order), NotesOf(p.order))
  /\ accounts' = accounts \cup {p}
  /\ UNCHANGED notes

\* A credit note is entered for units of its order not credited before.
Reverse(n) ==
  /\ \A m \in NotesOf(n.order) : m.number # n.number
  /\ \A s \in DOMAIN Ordered[n.order] :
       UnitsCredited(NotesOf(n.order), s) + UnitsOn(n, s) <= Ordered[n.order][s]
  /\ notes' = notes \cup {n}
  /\ UNCHANGED accounts

\* The entries are named by what they add to the tables.
Next ==
  \/ Enter(accounts' \ accounts)
  \/ \E p \in accounts' \ accounts : Collect(p)
  \/ \E n \in notes' \ notes : Reverse(n)

Spec == Init /\ [][Next]_<<accounts, notes>>
=============================================================================
