-------------------------- MODULE SettlementProofs --------------------------
(***************************************************************************)
(* The safety properties of Settlement, proved for every value of its      *)
(* constants: the inductive invariant, its preservation by each action,    *)
(* the implementation of Receivables, and that the reports agree.          *)
(***************************************************************************)
EXTENDS Reports, QuantitySumsProofs

-----------------------------------------------------------------------------
(* Sums of payments, credits and units.                                    *)

\* A sum over more elements is no smaller.
LEMMA SumGrows ==
  ASSUME NEW S, NEW T, IsFiniteSet(T), S \subseteq T, NEW f, NEW g,
         \A x \in T : g[x] \in Nat, \A x \in S : f[x] = g[x]
  PROVE  /\ Sum(f, S) \in Nat /\ Sum(g, T) \in Nat
         /\ Sum(f, S) <= Sum(g, T)
<1>1. IsFiniteSet(S)
  BY FS_Subset
<1>2. Sum(f, S) \in Nat /\ Sum(g, T) \in Nat /\ IsFiniteSet(Units(g, T))
  BY <1>1, SumType
<1>3. Units(f, S) \subseteq Units(g, T)
  BY DEF Units
<1>4. Cardinality(Units(f, S)) <= Cardinality(Units(g, T))
  BY <1>2, <1>3, FS_Subset
<1> QED  BY <1>2, <1>4 DEF Sum

\* The fields of a credit note's lines.
LEMMA LineTypes ==
  ASSUME NEW n \in Note, NEW i \in DOMAIN n.lines
  PROVE  /\ n.lines[i] \in Line
         /\ n.lines[i].sku \in Sku /\ n.lines[i].quantity \in Nat /\ n.lines[i].quantity > 0
         /\ n.lines[i].price \in Nat
<1>1. n.lines \in Seq(Line)
  BY DEF Note
<1>2. n.lines[i] \in Line
  BY <1>1
<1> QED  BY <1>2 DEF Line

LEMMA LinesFinite ==
  ASSUME NEW n \in Note
  PROVE  IsFiniteSet(DOMAIN n.lines)
<1>1. n.lines \in Seq(Line)
  BY DEF Note
<1>2. DOMAIN n.lines = 1 .. Len(n.lines) /\ Len(n.lines) \in Nat
  BY <1>1
<1> QED  BY <1>2, FS_Interval

LEMMA ProductType ==
  ASSUME NEW a \in Nat, NEW b \in Nat
  PROVE  a * b \in Nat
OBVIOUS

LEMMA NoteTotalType ==
  ASSUME NEW n \in Note
  PROVE  NoteTotal(n) \in Nat
<1> DEFINE f == [i \in DOMAIN n.lines |-> n.lines[i].quantity * n.lines[i].price]
<1>1. \A i \in DOMAIN n.lines : f[i] \in Nat
  <2> SUFFICES ASSUME NEW i \in DOMAIN n.lines PROVE f[i] \in Nat
    OBVIOUS
  <2>1. n.lines[i].quantity \in Nat /\ n.lines[i].price \in Nat
    BY LineTypes
  <2>2. n.lines[i].quantity * n.lines[i].price \in Nat
    BY <2>1, ProductType
  <2> QED  BY <2>2
<1>2. Sum(f, DOMAIN n.lines) \in Nat
  BY <1>1, LinesFinite, SumType
<1> QED  BY <1>2 DEF NoteTotal

LEMMA UnitsOnType ==
  ASSUME NEW n \in Note, NEW s \in Sku
  PROVE  UnitsOn(n, s) \in Nat
<1> DEFINE of == {i \in DOMAIN n.lines : n.lines[i].sku = s}
           f == [i \in of |-> n.lines[i].quantity]
<1>1. \A i \in of : f[i] \in Nat
  BY LineTypes
<1>2. IsFiniteSet(of)
  BY LinesFinite, FS_Subset
<1>3. Sum(f, of) \in Nat
  BY <1>1, <1>2, SumType
<1> QED  BY <1>3 DEF UnitsOn

\* More payments and more notes are more money.
LEMMA AmountGrows ==
  ASSUME NEW qs, IsFiniteSet(qs), qs \subseteq Payment, NEW ps, ps \subseteq qs
  PROVE  /\ Amount(ps) \in Nat /\ Amount(qs) \in Nat
         /\ Amount(ps) <= Amount(qs)
<1> DEFINE f == [p \in ps |-> p.amount]
           g == [p \in qs |-> p.amount]
<1>1. \A p \in qs : g[p] \in Nat
  BY DEF Payment
<1>2. \A p \in ps : f[p] = g[p]
  OBVIOUS
<1> HIDE DEF f, g
<1>3. /\ Sum(f, ps) \in Nat /\ Sum(g, qs) \in Nat
      /\ Sum(f, ps) <= Sum(g, qs)
  BY <1>1, <1>2, SumGrows
<1> QED  BY <1>3 DEF f, g, Amount

LEMMA CreditGrows ==
  ASSUME NEW qs, IsFiniteSet(qs), qs \subseteq Note, NEW ps, ps \subseteq qs
  PROVE  /\ Credit(ps) \in Nat /\ Credit(qs) \in Nat
         /\ Credit(ps) <= Credit(qs)
<1> DEFINE f == [n \in ps |-> NoteTotal(n)]
           g == [n \in qs |-> NoteTotal(n)]
<1>1. \A n \in qs : g[n] \in Nat
  BY NoteTotalType
<1>2. \A n \in ps : f[n] = g[n]
  OBVIOUS
<1> HIDE DEF f, g
<1>3. /\ Sum(f, ps) \in Nat /\ Sum(g, qs) \in Nat
      /\ Sum(f, ps) <= Sum(g, qs)
  BY <1>1, <1>2, SumGrows
<1> QED  BY <1>3 DEF f, g, Credit

\* What is owed is a natural number, and less when more is paid or credited.
LEMMA OutstandingShrinks ==
  ASSUME NEW o \in Order,
         NEW qs, IsFiniteSet(qs), qs \subseteq Payment, NEW ps, ps \subseteq qs,
         NEW ms, IsFiniteSet(ms), ms \subseteq Note, NEW ns, ns \subseteq ms
  PROVE  /\ Outstanding(o, ps, ns) \in Nat /\ Outstanding(o, qs, ms) \in Nat
         /\ Outstanding(o, qs, ms) <= Outstanding(o, ps, ns)
<1>1. /\ Amount(ps) \in Nat /\ Amount(qs) \in Nat
      /\ Amount(ps) <= Amount(qs)
  BY AmountGrows
<1>2. /\ Credit(ns) \in Nat /\ Credit(ms) \in Nat
      /\ Credit(ns) <= Credit(ms)
  BY CreditGrows
<1>3. Bill[o] \in Nat
  BY MoneyAssumption
<1> QED  BY <1>1, <1>2, <1>3 DEF Outstanding

\* The status derived from payments and notes is PAID when nothing is owed.
LEMMA StatusForType ==
  ASSUME NEW o \in Order, NEW ps, NEW ns, Outstanding(o, ps, ns) \in Nat
  PROVE  /\ StatusFor(o, ps, ns) \in PaymentStatus
         /\ StatusFor(o, ps, ns) = "PAID" => Outstanding(o, ps, ns) = 0
BY DEF StatusFor, PaymentStatus

\* The units of a note more are added to those credited.
LEMMA UnitsCreditedAdd ==
  ASSUME NEW ns, IsFiniteSet(ns), ns \subseteq Note, NEW n \in Note, n \notin ns, NEW s \in Sku
  PROVE  /\ UnitsCredited(ns, s) \in Nat
         /\ UnitsCredited(ns \cup {n}, s)
              = UnitsCredited(ns, s) + UnitsOn(n, s)
<1> DEFINE f == [m \in ns |-> UnitsOn(m, s)]
           g == [m \in ns \cup {n} |-> UnitsOn(m, s)]
<1>1. \A m \in ns \cup {n} : g[m] \in Nat
  BY UnitsOnType
<1>2. \A m \in ns : f[m] = g[m]
  OBVIOUS
<1>3. g[n] = UnitsOn(n, s)
  OBVIOUS
<1> HIDE DEF f, g
<1>4. IsFiniteSet({n}) /\ ns \cap {n} = {}
  BY FS_Singleton
<1>5. Sum(g, ns \cup {n}) = Sum(g, ns) + Sum(g, {n})
  BY <1>1, <1>4, SumUnion
<1>6. Sum(g, {n}) = g[n]
  BY <1>1, SumOne
<1>7. Sum(f, ns) = Sum(g, ns)
  BY <1>2, SumCong
<1>8. Sum(f, ns) \in Nat
  BY <1>1, <1>2, SumType
<1>9. /\ UnitsCredited(ns, s) = Sum(f, ns)
      /\ UnitsCredited(ns \cup {n}, s) = Sum(g, ns \cup {n})
  BY DEF UnitsCredited, f, g
<1> QED  BY <1>3, <1>5, <1>6, <1>7, <1>8, <1>9

-----------------------------------------------------------------------------
(* The inductive invariant.  The first part is what each session may rely  *)
(* on, the second what the tables keep.                                    *)

OrderOf(s) == request[s].order

\* The order of a request that has begun is booked.
Known(s) == session[s].stage \notin {"arrived"} \cup Final => status[OrderOf(s)] # "ABSENT"

\* What a session has read of its order is still there.
Loaded(s) ==
  /\ session[s].payments \subseteq PaymentsOf(OrderOf(s))
  /\ session[s].notes \subseteq NotesOf(OrderOf(s))

\* Salesmen, drivers and cancellations hold their order until they end.
Holds(s) ==
  /\ request[s].kind \in {"cash", "delivery", "cancel"}
  /\ session[s].stage \in {"locked", "viewed"}
  => lock[OrderOf(s)] = s

\* What they have read is all there is.
Viewed(s) ==
  /\ request[s].kind \in {"cash", "delivery"} /\ session[s].stage = "viewed"
  => /\ session[s].payments = PaymentsOf(OrderOf(s))
     /\ session[s].notes = NotesOf(OrderOf(s))

\* A collection that has looked for its reference is no retry on its order.
NoRetry(s) ==
  /\ request[s].kind = "cash" /\ session[s].stage = "viewed"
  => \A p \in session[s].payments : p.reference # request[s].reference

\* The lines of a checked note fit the notes it was checked against.
Fits(s) ==
  /\ request[s].kind = "note" /\ session[s].stage \in {"checked", "written", "viewed"}
  => \A i \in DOMAIN request[s].lines :
       LineFits(OrderOf(s), session[s].notes, request[s].lines[i])

\* An inserted note has read all the notes of its order, which nobody holds.
Abreast(s) ==
  Pending(s) => /\ lock[OrderOf(s)] = NoSession
                /\ session[s].notes = NotesOf(OrderOf(s))

SessionInv(s) ==
  /\ Known(s) /\ Loaded(s) /\ Holds(s) /\ Viewed(s) /\ NoRetry(s) /\ Fits(s) /\ Abreast(s)

\* At most one note of an order is inserted and not committed.
OnePending ==
  \A s, t \in Session : Pending(s) /\ Pending(t) /\ OrderOf(s) = OrderOf(t) => s = t

\* The notes of an order are numbered without gaps.
Numbered ==
  \A o \in Order : {n.number : n \in NotesOf(o)} = 1 .. Cardinality(NotesOf(o))

\* Payments and notes are of booked orders.
Booked ==
  /\ \A p \in accounts : status[p.order] # "ABSENT"
  /\ \A n \in notes : status[n.order] # "ABSENT"

UniqueReferences ==
  \A p, q \in accounts : p.reference = q.reference => p = q

TablesInv == OnePending /\ Numbered /\ Booked /\ UniqueReferences /\ PaidIsSettled

IInv == TypeOK /\ TablesInv /\ \A s \in Session : SessionInv(s)

\* With DistinctLines, also:
IInvDistinct == IInv /\ NeverOverCredited

-----------------------------------------------------------------------------
(* Steps of a session, and what they leave to the others.                  *)

SessionRecord ==
  [stage : Stage, loaded : PaymentStatus, payments : SUBSET accounts, notes : SUBSET notes]

\* A request's fields.
LEMMA RequestFields ==
  ASSUME NEW r \in Request
  PROVE  /\ r.order \in Order
         /\ r.kind \in {"payment", "payments", "cash", "delivery", "cancel", "note"}
         /\ r.kind = "payment" => r.amount \in Nat /\ r.reference \in Reference
         /\ r.kind = "payments" => r.amounts \in Seq(Nat)
         /\ r.kind = "cash" => /\ r.amount \in Nat \ {0} /\ r.reference \in Reference
                               /\ r.by \in Salesman
         /\ r.kind = "delivery" => r.amount \in Nat \cup {NoAmount}
         /\ r.kind = "note" => r.lines \in Seq(Line) /\ r.restock \in BOOLEAN
<1>1. r \in PossibleRequest
  BY SettlementAssumption
<1>2. CASE r \in [kind : {"payment"}, order : Order, amount : Nat, reference : Reference]
  BY <1>2
<1>3. CASE r \in [kind : {"payments"}, order : Order, amounts : Seq(Nat)]
  BY <1>3
<1>4. CASE r \in [kind : {"cash"}, order : Order, by : Salesman, amount : Nat \ {0},
                  reference : Reference]
  BY <1>4
<1>5. CASE r \in [kind : {"delivery"}, order : Order, asked : {"", "CREDIT", "PAID", "UNPAID"},
                  mode : {"CASH", "CREDIT"}, amount : Nat \cup {NoAmount}]
  BY <1>5
<1>6. CASE r \in [kind : {"cancel"}, order : Order]
  BY <1>6
<1>7. CASE r \in [kind : {"note"}, order : Order, lines : Seq(Line), restock : BOOLEAN]
  BY <1>7
<1> QED  BY <1>1, <1>2, <1>3, <1>4, <1>5, <1>6, <1>7 DEF PossibleRequest

LEMMA OrderOfType ==
  ASSUME TypeOK, NEW s \in Session
  PROVE  request[s] \in Request /\ OrderOf(s) \in Order
<1>1. request[s] \in Request
  BY DEF TypeOK
<1> QED  BY <1>1, RequestFields DEF OrderOf

\* What a step of the session t may do to what the others rely on.
Careful(t) ==
  /\ request' = request
  /\ \A s \in Session \ {t} : session'[s] = session[s]
  /\ \A o \in Order : status[o] # "ABSENT" => status'[o] # "ABSENT"
  /\ accounts \subseteq accounts' /\ notes \subseteq notes'
  /\ \A s \in Session \ {t}, o \in Order :
       lock[o] = s => /\ lock'[o] = s
                      /\ PaymentsOf(o)' = PaymentsOf(o) /\ NotesOf(o)' = NotesOf(o)
  /\ \A s \in Session \ {t} :
       Pending(s) => /\ lock'[OrderOf(s)] = NoSession
                     /\ NotesOf(OrderOf(s))' = NotesOf(OrderOf(s))

\* A careful step of t keeps what every other session relies on.
LEMMA OthersKeep ==
  ASSUME IInv, NEW t \in Session, Careful(t), NEW s \in Session, s # t
  PROVE  SessionInv(s)'
<1>1. request' = request /\ session'[s] = session[s]
  BY DEF Careful
<1>2. OrderOf(s)' = OrderOf(s) /\ OrderOf(s) \in Order
  BY <1>1, OrderOfType DEF OrderOf, IInv
<1>3. TypeOK /\ SessionInv(s)
  BY DEF IInv
<1>4. Known(s)'
  BY <1>1, <1>2, <1>3 DEF SessionInv, Known, Careful
<1>5. Loaded(s)'
  BY <1>1, <1>2, <1>3 DEF SessionInv, Loaded, Careful, PaymentsOf, NotesOf
<1>6. Holds(s)' /\ Viewed(s)'
  BY <1>1, <1>2, <1>3 DEF SessionInv, Holds, Viewed, Careful
<1>7. NoRetry(s)'
  BY <1>1, <1>3 DEF SessionInv, NoRetry
<1>8. Fits(s)'
  BY <1>1, <1>2, <1>3 DEF SessionInv, Fits
<1>9. Abreast(s)'
  BY <1>1, <1>2, <1>3 DEF SessionInv, Abreast, Pending, Careful
<1> QED  BY <1>4, <1>5, <1>6, <1>7, <1>8, <1>9 DEF SessionInv

\* A step of t that changes no table and no lock but those t takes or frees.
LEMMA SessionStep ==
  ASSUME IInv, NEW t \in Session, UNCHANGED <<tables, request>>,
         session' \in [Session -> SessionRecord],
         \A s \in Session \ {t} : session'[s] = session[s],
         lock' \in [Order -> Session \cup {NoSession}],
         \A o \in Order : lock'[o] = lock[o] \/ lock[o] = t
                           \/ (lock'[o] = t /\ Free(o)),
         SessionInv(t)',
         Pending(t)' => \A s \in Session \ {t} : Pending(s) => OrderOf(s) # OrderOf(t)
  PROVE  IInv'
<1>0. /\ status' = status /\ paymentStatus' = paymentStatus /\ accounts' = accounts
      /\ notes' = notes /\ request' = request
  BY DEF tables
<1>1. TypeOK'
  BY <1>0 DEF IInv, TypeOK, SessionRecord
<1>2. \A o : PaymentsOf(o)' = PaymentsOf(o) /\ NotesOf(o)' = NotesOf(o)
  BY <1>0 DEF PaymentsOf, NotesOf
<1>3. ASSUME NEW s \in Session \ {t}, Pending(s) PROVE lock'[OrderOf(s)] = NoSession
  <2>1. lock[OrderOf(s)] = NoSession /\ OrderOf(s) \in Order
    BY <1>3, OrderOfType DEF IInv, SessionInv, Abreast
  <2>2. ~Free(OrderOf(s))
    BY <1>3 DEF Free, OrderOf
  <2> QED  BY <2>1, <2>2, SettlementAssumption
<1>4. ASSUME NEW s \in Session \ {t}, NEW o \in Order, lock[o] = s PROVE lock'[o] = s
  BY <1>4, SettlementAssumption DEF Free
<1>a. \A s \in Session : NotesOf(OrderOf(s))' = NotesOf(OrderOf(s))
  BY <1>0 DEF NotesOf, OrderOf
<1>5. Careful(t)
  BY <1>0, <1>2, <1>a, <1>3, <1>4 DEF Careful
<1>6. \A s \in Session : SessionInv(s)'
  BY <1>5, OthersKeep
<1>7. OnePending'
  <2>1. SUFFICES ASSUME NEW s \in Session, NEW u \in Session, Pending(s)', Pending(u)',
                        OrderOf(s)' = OrderOf(u)'
                 PROVE  s = u
    BY DEF OnePending
  <2>2. \A v \in Session : OrderOf(v)' = OrderOf(v)
    BY <1>0 DEF OrderOf
  <2>3. \A v \in Session \ {t} : Pending(v)' = Pending(v)
    BY <1>0 DEF Pending
  <2> QED  BY <2>1, <2>2, <2>3 DEF IInv, TablesInv, OnePending
<1>8. Numbered' /\ Booked' /\ UniqueReferences' /\ PaidIsSettled'
  BY <1>0, <1>2 DEF IInv, TablesInv, Numbered, Booked, UniqueReferences, PaidIsSettled
<1> QED  BY <1>1, <1>6, <1>7, <1>8 DEF IInv, TablesInv

\* A session that ends relies on nothing.
LEMMA Ended ==
  ASSUME TypeOK, NEW t \in Session, NEW answer \in Final, End(t, answer), request' = request
  PROVE  /\ session' \in [Session -> SessionRecord]
         /\ \A s \in Session \ {t} : session'[s] = session[s]
         /\ session'[t].stage = answer /\ session'[t].payments = {} /\ session'[t].notes = {}
         /\ lock' \in [Order -> Session \cup {NoSession}]
         /\ \A o \in Order : lock'[o] = lock[o] \/ (lock[o] = t /\ lock'[o] = NoSession)
         /\ SessionInv(t)' /\ ~Pending(t)'
<1> DEFINE last == [Fresh EXCEPT !.stage = answer]
<1>1. session' = [session EXCEPT ![t] = last]
  BY DEF End
<1>a. /\ Fresh \in SessionRecord /\ Fresh.payments = {} /\ Fresh.notes = {}
      /\ answer \in Stage
  BY DEF Fresh, SessionRecord, Stage, PaymentStatus
<1>2. /\ last \in SessionRecord
      /\ last.stage = answer /\ last.payments = {} /\ last.notes = {}
  BY <1>a DEF SessionRecord
<1>3. session \in [Session -> SessionRecord]
  BY DEF TypeOK, SessionRecord
<1> HIDE DEF last
<1>4. /\ session' \in [Session -> SessionRecord] /\ session'[t] = last
      /\ \A s \in Session \ {t} : session'[s] = session[s]
  BY <1>1, <1>2, <1>3
<1>5. lock \in [Order -> Session \cup {NoSession}]
  BY DEF TypeOK
<1>6. /\ lock' \in [Order -> Session \cup {NoSession}]
      /\ \A o \in Order : lock'[o] = lock[o] \/ (lock[o] = t /\ lock'[o] = NoSession)
  BY <1>5 DEF End
<1>7. /\ session'[t].stage = answer /\ session'[t].payments = {} /\ session'[t].notes = {}
      /\ answer \notin {"arrived", "read", "checked", "half", "written", "locked", "viewed"}
  BY <1>2, <1>4 DEF Final
<1>8. /\ ~Pending(t)'
      /\ Known(t)' /\ Holds(t)' /\ Viewed(t)' /\ NoRetry(t)' /\ Fits(t)' /\ Abreast(t)'
  BY <1>7 DEF Pending, Known, Holds, Viewed, NoRetry, Fits, Abreast
<1>9. Loaded(t)'
  BY <1>7 DEF Loaded
<1> QED  BY <1>4, <1>6, <1>7, <1>8, <1>9 DEF SessionInv

\* A session that ends without a change of the tables.
LEMMA Dismissed ==
  ASSUME IInv, NEW t \in Session, NEW answer \in Final, End(t, answer),
         UNCHANGED <<tables, request>>
  PROVE  IInv'
<1>1. /\ session' \in [Session -> SessionRecord]
      /\ \A s \in Session \ {t} : session'[s] = session[s]
      /\ lock' \in [Order -> Session \cup {NoSession}]
      /\ \A o \in Order : lock'[o] = lock[o] \/ (lock[o] = t /\ lock'[o] = NoSession)
      /\ SessionInv(t)' /\ ~Pending(t)'
  BY Ended DEF IInv
<1>2. \A o \in Order : lock'[o] = lock[o] \/ lock[o] = t \/ (lock'[o] = t /\ Free(o))
  BY <1>1
<1>3. Pending(t)' => \A s \in Session \ {t} : Pending(s) => OrderOf(s) # OrderOf(t)
  BY <1>1
<1> QED  BY <1>1, <1>2, <1>3, SessionStep

-----------------------------------------------------------------------------
(* The steps that only read.                                               *)

\* A session that goes on keeps what it has read.
LEMMA Advanced ==
  ASSUME TypeOK, NEW t \in Session, NEW g \in Stage, Advance(t, g)
  PROVE  /\ session' \in [Session -> SessionRecord]
         /\ \A s \in Session \ {t} : session'[s] = session[s]
         /\ session'[t].stage = g /\ session'[t].loaded = session[t].loaded
         /\ session'[t].payments = session[t].payments /\ session'[t].notes = session[t].notes
<1>1. session \in [Session -> SessionRecord]
  BY DEF TypeOK, SessionRecord
<1>2. session' = [session EXCEPT ![t].stage = g]
  BY DEF Advance
<1> QED  BY <1>1, <1>2 DEF SessionRecord

\* The rows of an order are rows.
LEMMA RowsOf ==
  ASSUME TypeOK, NEW o
  PROVE  /\ PaymentsOf(o) \subseteq accounts /\ PaymentsOf(o) \subseteq Payment
         /\ IsFiniteSet(PaymentsOf(o))
         /\ NotesOf(o) \subseteq notes /\ NotesOf(o) \subseteq Note
         /\ IsFiniteSet(NotesOf(o))
<1>1. PaymentsOf(o) \subseteq accounts /\ NotesOf(o) \subseteq notes
  BY DEF PaymentsOf, NotesOf
<1>2. /\ accounts \subseteq Payment /\ IsFiniteSet(accounts)
      /\ notes \subseteq Note /\ IsFiniteSet(notes)
  BY DEF TypeOK
<1> QED  BY <1>1, <1>2, FS_Subset

LEMMA ReadOrderKeeps ==
  ASSUME IInv, NEW t \in Session, ReadOrder(t)
  PROVE  IInv'
<1>0. /\ TypeOK /\ SessionInv(t) /\ UNCHANGED <<tables, request>>
      /\ OrderOf(t) \in Order /\ request[t].order = OrderOf(t)
      /\ request[t].kind \in {"payment", "payments", "note"} /\ session[t].stage = "arrived"
  BY OrderOfType DEF ReadOrder, IInv, OrderOf, Serving
<1>1. CASE End(t, "refused")
  BY <1>0, <1>1, Dismissed DEF Final
<1>2. CASE ~End(t, "refused")
  <2>1. /\ status[OrderOf(t)] # "ABSENT" /\ lock' = lock
        /\ session' = [session EXCEPT ![t].stage = "read",
                                      ![t].loaded = paymentStatus[OrderOf(t)]]
    BY <1>0, <1>2 DEF ReadOrder
  <2>2. /\ session' \in [Session -> SessionRecord]
        /\ \A s \in Session \ {t} : session'[s] = session[s]
        /\ session'[t].stage = "read"
        /\ session'[t].payments = session[t].payments /\ session'[t].notes = session[t].notes
    BY <1>0, <2>1 DEF TypeOK, SessionRecord, Stage
  <2>3. ~Pending(t)'
    BY <2>2 DEF Pending
  <2>4. SessionInv(t)'
    BY <1>0, <2>1, <2>2, <2>3
    DEF SessionInv, Known, Loaded, Holds, Viewed, NoRetry, Fits, Abreast, tables, OrderOf,
        PaymentsOf, NotesOf
  <2>5. lock \in [Order -> Session \cup {NoSession}]
    BY <1>0 DEF TypeOK
  <2> QED  BY <1>0, <2>1, <2>2, <2>3, <2>4, <2>5, SessionStep
<1> QED  BY <1>1, <1>2

LEMMA CheckReferenceKeeps ==
  ASSUME IInv, NEW t \in Session, CheckReference(t)
  PROVE  IInv'
<1>0. /\ TypeOK /\ SessionInv(t) /\ UNCHANGED <<tables, request>>
      /\ request[t].kind = "payment" /\ session[t].stage = "read"
  BY DEF CheckReference, IInv, Serving
<1>1. CASE \E a \in Final : End(t, a)
  BY <1>0, <1>1, Dismissed
<1>2. CASE ~ \E a \in Final : End(t, a)
  <2>1. Advance(t, "checked") /\ lock' = lock
    BY <1>2 DEF CheckReference, Final
  <2>2. /\ session' \in [Session -> SessionRecord]
        /\ \A s \in Session \ {t} : session'[s] = session[s]
        /\ session'[t].stage = "checked"
        /\ session'[t].payments = session[t].payments /\ session'[t].notes = session[t].notes
    BY <1>0, <2>1, Advanced DEF Stage
  <2>3. ~Pending(t)'
    BY <2>2 DEF Pending
  <2>4. SessionInv(t)'
    BY <1>0, <2>1, <2>2, <2>3
    DEF SessionInv, Known, Loaded, Holds, Viewed, NoRetry, Fits, Abreast, tables, OrderOf,
        PaymentsOf, NotesOf, Final
  <2>5. lock \in [Order -> Session \cup {NoSession}]
    BY <1>0 DEF TypeOK
  <2> QED  BY <1>0, <2>1, <2>2, <2>3, <2>4, <2>5, SessionStep
<1> QED  BY <1>1, <1>2

LEMMA CheckCreditsKeeps ==
  ASSUME IInv, NEW t \in Session, CheckCredits(t)
  PROVE  IInv'
<1> DEFINE ns == NotesOf(OrderOf(t))
<1>0. /\ TypeOK /\ SessionInv(t) /\ UNCHANGED <<tables, request>>
      /\ request[t].kind = "note" /\ session[t].stage = "read"
      /\ request[t].order = OrderOf(t)
  BY DEF CheckCredits, IInv, Serving, OrderOf
<1>1. CASE End(t, "refused")
  BY <1>0, <1>1, Dismissed DEF Final
<1>2. CASE ~End(t, "refused")
  <2>1. /\ \A i \in DOMAIN request[t].lines : LineFits(OrderOf(t), ns, request[t].lines[i])
        /\ lock' = lock
        /\ session' = [session EXCEPT ![t].stage = "checked", ![t].notes = ns]
    BY <1>0, <1>2 DEF CheckCredits
  <2>a. ns \subseteq notes
    BY DEF NotesOf
  <2> HIDE DEF ns
  <2>2. /\ session' \in [Session -> SessionRecord]
        /\ \A s \in Session \ {t} : session'[s] = session[s]
        /\ session'[t].stage = "checked"
        /\ session'[t].payments = session[t].payments /\ session'[t].notes = ns
    BY <1>0, <2>1, <2>a DEF TypeOK, SessionRecord, Stage
  <2>3. ~Pending(t)'
    BY <2>2 DEF Pending
  <2>4. Fits(t)'
    BY <1>0, <2>1, <2>2 DEF Fits, OrderOf
  <2>5. Loaded(t)'
    BY <1>0, <2>1, <2>2 DEF SessionInv, Loaded, OrderOf, PaymentsOf, NotesOf, tables, ns
  <2>6. SessionInv(t)'
    BY <1>0, <2>1, <2>2, <2>3, <2>4, <2>5
    DEF SessionInv, Known, Holds, Viewed, NoRetry, Abreast, tables, OrderOf, Final
  <2>7. lock \in [Order -> Session \cup {NoSession}]
    BY <1>0 DEF TypeOK
  <2> QED  BY <1>0, <2>1, <2>2, <2>3, <2>6, <2>7, SessionStep
<1> QED  BY <1>1, <1>2

\* A note whose number is free has read all the notes of its order: they are
\* numbered without gaps, so one it has not read would have its number.
LEMMA NumberFree ==
  ASSUME IInv, NEW t \in Session, ~NumberUsed(t)
  PROVE  session[t].notes = NotesOf(OrderOf(t))
<1> DEFINE seen == session[t].notes
           all == NotesOf(OrderOf(t))
<1>1. TypeOK /\ SessionInv(t) /\ OrderOf(t) \in Order
  BY OrderOfType DEF IInv
<1>2. seen \subseteq all /\ IsFiniteSet(all)
  BY <1>1, RowsOf DEF SessionInv, Loaded
<1>3. {n.number : n \in all} = 1 .. Cardinality(all)
  BY <1>1 DEF IInv, TablesInv, Numbered
<1>4. SUFFICES ASSUME seen # all PROVE FALSE
  OBVIOUS
<1> HIDE DEF seen, all
<1>5. /\ Cardinality(seen) \in Nat /\ Cardinality(all) \in Nat
      /\ Cardinality(seen) < Cardinality(all)
  <2>1. IsFiniteSet(seen) /\ Cardinality(seen) <= Cardinality(all)
    BY <1>2, FS_Subset
  <2>2. Cardinality(seen) # Cardinality(all)
    BY <1>2, <1>4, FS_Subset
  <2>3. Cardinality(seen) \in Nat /\ Cardinality(all) \in Nat
    BY <1>2, <2>1, FS_CardinalityType
  <2> QED  BY <2>1, <2>2, <2>3
<1>6. Cardinality(seen) + 1 \in {n.number : n \in all}
  BY <1>3, <1>5
<1>7. PICK n \in all : n.number = Cardinality(seen) + 1
  BY <1>6
<1>8. n \in notes /\ n.order = request[t].order
  BY DEF all, NotesOf, OrderOf
<1>9. NoteOf(t).order = request[t].order /\ NoteOf(t).number = Cardinality(seen) + 1
  BY DEF NoteOf, seen
<1> QED  BY <1>7, <1>8, <1>9 DEF NumberUsed

LEMMA WriteNoteKeeps ==
  ASSUME IInv, NEW t \in Session, WriteNote(t)
  PROVE  IInv'
<1>0. /\ TypeOK /\ SessionInv(t) /\ UNCHANGED <<tables, request>>
      /\ request[t].kind = "note" /\ session[t].stage = "checked"
      /\ request[t].order = OrderOf(t) /\ lock[OrderOf(t)] = NoSession
      /\ ~NumberPending(t)
  BY DEF WriteNote, IInv, Serving, OrderOf
<1>1. CASE End(t, "failed")
  BY <1>0, <1>1, Dismissed DEF Final
<1>2. CASE ~End(t, "failed")
  <2>1. ~NumberUsed(t) /\ Advance(t, "written") /\ lock' = lock
    BY <1>2 DEF WriteNote
  <2>2. /\ session' \in [Session -> SessionRecord]
        /\ \A s \in Session \ {t} : session'[s] = session[s]
        /\ session'[t].stage = "written"
        /\ session'[t].payments = session[t].payments /\ session'[t].notes = session[t].notes
    BY <1>0, <2>1, Advanced DEF Stage
  <2>3. session[t].notes = NotesOf(OrderOf(t))
    BY <2>1, NumberFree
  <2>4. Abreast(t)'
    BY <1>0, <2>1, <2>2, <2>3 DEF Abreast, NotesOf, OrderOf, tables
  <2>5. Loaded(t)' /\ Fits(t)'
    BY <1>0, <2>2 DEF SessionInv, Loaded, Fits, PaymentsOf, NotesOf, OrderOf, tables
  <2>6. SessionInv(t)'
    BY <1>0, <2>2, <2>4, <2>5
    DEF SessionInv, Known, Holds, Viewed, NoRetry, tables, OrderOf, Final
  <2>7. ASSUME NEW s \in Session \ {t}, Pending(s) PROVE OrderOf(s) # OrderOf(t)
    <3>1. session[s].notes = NotesOf(OrderOf(s))
      BY <2>7 DEF IInv, SessionInv, Abreast
    <3>2. SUFFICES ASSUME OrderOf(s) = OrderOf(t) PROVE FALSE
      OBVIOUS
    <3>3. NoteOf(s).order = NoteOf(t).order /\ NoteOf(s).number = NoteOf(t).number
      BY <2>3, <3>1, <3>2 DEF NoteOf, OrderOf
    <3> QED  BY <1>0, <2>7, <3>3 DEF NumberPending
  <2>8. lock \in [Order -> Session \cup {NoSession}]
    BY <1>0 DEF TypeOK
  <2> QED  BY <1>0, <2>1, <2>2, <2>6, <2>7, <2>8, SessionStep
<1> QED  BY <1>1, <1>2

LEMMA LoadPaymentsKeeps ==
  ASSUME IInv, NEW t \in Session, LoadPayments(t)
  PROVE  IInv'
<1> DEFINE ps == PaymentsOf(OrderOf(t))
           g == IF request[t].kind = "note" THEN "viewed" ELSE "half"
<1>0. /\ TypeOK /\ SessionInv(t) /\ UNCHANGED <<tables, request>> /\ lock' = lock
      /\ \/ request[t].kind \in {"payment", "payments"} /\ session[t].stage \in {"checked", "read"}
         \/ request[t].kind = "note" /\ session[t].stage = "written"
      /\ session' = [session EXCEPT ![t].stage = g, ![t].payments = ps]
  BY DEF LoadPayments, IInv, Serving, OrderOf
<1>1. ps \subseteq accounts /\ g \in Stage
  BY DEF PaymentsOf, Stage
<1> HIDE DEF ps
<1>2. /\ session' \in [Session -> SessionRecord]
      /\ \A s \in Session \ {t} : session'[s] = session[s]
      /\ session'[t].stage = g
      /\ session'[t].payments = ps /\ session'[t].notes = session[t].notes
  BY <1>0, <1>1 DEF TypeOK, SessionRecord
<1>3. request[t].kind = "note" => Pending(t) /\ g = "viewed"
  BY <1>0 DEF Pending
<1>4. request' = request /\ OrderOf(t)' = OrderOf(t) /\ status' = status
  BY <1>0 DEF OrderOf, tables
<1>5. Loaded(t)'
  BY <1>0, <1>2, <1>4 DEF SessionInv, Loaded, PaymentsOf, NotesOf, tables, ps
<1>6. NotesOf(OrderOf(t))' = NotesOf(OrderOf(t))
  BY <1>0, <1>4 DEF NotesOf, tables
<1>7. Abreast(t)'
  BY <1>0, <1>2, <1>3, <1>4, <1>6 DEF SessionInv, Abreast, Pending
<1>8. Fits(t)'
  BY <1>0, <1>2, <1>4 DEF SessionInv, Fits
<1>9. SessionInv(t)'
  BY <1>0, <1>2, <1>4, <1>5, <1>7, <1>8
  DEF SessionInv, Known, Holds, Viewed, NoRetry, Final
<1>10. ASSUME Pending(t)', NEW s \in Session \ {t}, Pending(s) PROVE OrderOf(s) # OrderOf(t)
  <2>1. Pending(t)
    BY <1>0, <1>3, <1>4, <1>10 DEF Pending
  <2> QED  BY <1>10, <2>1 DEF IInv, TablesInv, OnePending
<1>11. lock \in [Order -> Session \cup {NoSession}]
  BY <1>0 DEF TypeOK
<1> QED  BY <1>0, <1>2, <1>9, <1>10, <1>11, SessionStep

LEMMA LoadNotesKeeps ==
  ASSUME IInv, NEW t \in Session, LoadNotes(t)
  PROVE  IInv'
<1> DEFINE ns == NotesOf(OrderOf(t))
<1>0. /\ TypeOK /\ SessionInv(t) /\ UNCHANGED <<tables, request>> /\ lock' = lock
      /\ request[t].kind \in {"payment", "payments"} /\ session[t].stage = "half"
      /\ session' = [session EXCEPT ![t].stage = "viewed", ![t].notes = ns]
  BY DEF LoadNotes, IInv, Serving, OrderOf
<1>1. ns \subseteq notes
  BY DEF NotesOf
<1> HIDE DEF ns
<1>2. /\ session' \in [Session -> SessionRecord]
      /\ \A s \in Session \ {t} : session'[s] = session[s]
      /\ session'[t].stage = "viewed"
      /\ session'[t].payments = session[t].payments /\ session'[t].notes = ns
  BY <1>0, <1>1 DEF TypeOK, SessionRecord, Stage
<1>3. request' = request /\ OrderOf(t)' = OrderOf(t) /\ status' = status
  BY <1>0 DEF OrderOf, tables
<1>4. Loaded(t)'
  BY <1>0, <1>2, <1>3 DEF SessionInv, Loaded, PaymentsOf, NotesOf, tables, ns
<1>5. ~Pending(t)'
  BY <1>0, <1>3 DEF Pending
<1>6. SessionInv(t)'
  BY <1>0, <1>2, <1>3, <1>4, <1>5
  DEF SessionInv, Known, Holds, Viewed, NoRetry, Fits, Abreast, Final
<1>7. lock \in [Order -> Session \cup {NoSession}]
  BY <1>0 DEF TypeOK
<1> QED  BY <1>0, <1>2, <1>5, <1>6, <1>7, SessionStep

LEMMA LockOrderKeeps ==
  ASSUME IInv, NEW t \in Session, LockOrder(t)
  PROVE  IInv'
<1>0. /\ TypeOK /\ SessionInv(t) /\ UNCHANGED <<tables, request>>
      /\ OrderOf(t) \in Order /\ request[t].order = OrderOf(t) /\ Free(OrderOf(t))
      /\ request[t].kind \in {"cash", "delivery", "cancel"} /\ session[t].stage = "arrived"
  BY OrderOfType DEF LockOrder, IInv, OrderOf, Serving
<1>1. CASE End(t, "refused")
  BY <1>0, <1>1, Dismissed DEF Final
<1>2. CASE ~End(t, "refused")
  <2>1. /\ status[OrderOf(t)] # "ABSENT" /\ lock' = [lock EXCEPT ![OrderOf(t)] = t]
        /\ session' = [session EXCEPT ![t].stage = "locked",
                                      ![t].loaded = paymentStatus[OrderOf(t)]]
    BY <1>0, <1>2 DEF LockOrder
  <2>2. /\ session' \in [Session -> SessionRecord]
        /\ \A s \in Session \ {t} : session'[s] = session[s]
        /\ session'[t].stage = "locked"
        /\ session'[t].payments = session[t].payments /\ session'[t].notes = session[t].notes
    BY <1>0, <2>1 DEF TypeOK, SessionRecord, Stage
  <2>3. request' = request /\ OrderOf(t)' = OrderOf(t) /\ status' = status
    BY <1>0 DEF OrderOf, tables
  <2>4. /\ lock' \in [Order -> Session \cup {NoSession}] /\ lock'[OrderOf(t)] = t
        /\ \A o \in Order : lock'[o] = lock[o] \/ (lock'[o] = t /\ Free(o))
    BY <1>0, <2>1 DEF TypeOK
  <2>5. ~Pending(t)'
    BY <1>0, <2>3 DEF Pending
  <2>6. Loaded(t)'
    BY <1>0, <2>2, <2>3 DEF SessionInv, Loaded, PaymentsOf, NotesOf, tables
  <2>7. SessionInv(t)'
    BY <1>0, <2>1, <2>2, <2>3, <2>4, <2>5, <2>6
    DEF SessionInv, Known, Holds, Viewed, NoRetry, Fits, Abreast
  <2> QED  BY <1>0, <2>2, <2>4, <2>5, <2>7, SessionStep
<1> QED  BY <1>1, <1>2

\* A session that holds its order reads all the rows there are.
LEMMA ViewKeeps ==
  ASSUME IInv, NEW t \in Session, View(t), lock' = lock, UNCHANGED <<tables, request>>,
         request[t].kind \in {"cash", "delivery"}, session[t].stage = "locked",
         request[t].kind = "cash" =>
           \A p \in PaymentsOf(OrderOf(t)) : p.reference # request[t].reference
  PROVE  IInv'
<1> DEFINE ps == PaymentsOf(OrderOf(t))
           ns == NotesOf(OrderOf(t))
<1>0. /\ TypeOK /\ SessionInv(t)
      /\ session' = [session EXCEPT ![t].stage = "viewed", ![t].payments = ps, ![t].notes = ns]
  BY DEF View, IInv, OrderOf
<1>1. ps \subseteq accounts /\ ns \subseteq notes
  BY DEF NotesOf, PaymentsOf
<1>2. ps' = ps /\ ns' = ns /\ request' = request /\ OrderOf(t)' = OrderOf(t) /\ status' = status
  BY DEF NotesOf, PaymentsOf, OrderOf, tables
<1>a. request[t].kind = "cash" => \A p \in ps : p.reference # request[t].reference
  OBVIOUS
<1>b. Loaded(t)' <=> session'[t].payments \subseteq ps' /\ session'[t].notes \subseteq ns'
  BY DEF Loaded
<1>c. /\ request'[t].kind \in {"cash", "delivery"} /\ session'[t].stage = "viewed"
      => (Viewed(t)' <=> session'[t].payments = ps' /\ session'[t].notes = ns')
  BY DEF Viewed
<1> HIDE DEF ps, ns
<1>3. /\ session' \in [Session -> SessionRecord]
      /\ \A s \in Session \ {t} : session'[s] = session[s]
      /\ session'[t].stage = "viewed"
      /\ session'[t].payments = ps /\ session'[t].notes = ns
  BY <1>0, <1>1 DEF TypeOK, SessionRecord, Stage
<1>4. Loaded(t)' /\ Viewed(t)'
  BY <1>2, <1>3, <1>b, <1>c
<1>5. ~Pending(t)'
  BY <1>2 DEF Pending
<1>6. NoRetry(t)'
  BY <1>a, <1>2, <1>3 DEF NoRetry
<1>7. SessionInv(t)'
  BY <1>0, <1>2, <1>3, <1>4, <1>5, <1>6 DEF SessionInv, Known, Holds, Fits, Abreast, Final
<1>8. lock \in [Order -> Session \cup {NoSession}]
  BY <1>0 DEF TypeOK
<1> QED  BY <1>3, <1>5, <1>7, <1>8, SessionStep

LEMMA ViewForCashKeeps ==
  ASSUME IInv, NEW t \in Session, ViewForCash(t)
  PROVE  IInv'
<1>0. /\ UNCHANGED <<tables, request>>
      /\ request[t].kind = "cash" /\ session[t].stage = "locked"
  BY DEF ViewForCash, Serving
<1>1. CASE \E a \in Final : End(t, a)
  BY <1>0, <1>1, Dismissed
<1>2. CASE ~ \E a \in Final : End(t, a)
  <2>1. ~End(t, "refused") /\ ~End(t, "answered")
    BY <1>2 DEF Final
  <2>2. /\ {p \in accounts : p.reference = request[t].reference} = {}
        /\ View(t) /\ lock' = lock
    BY <2>1 DEF ViewForCash
  <2>3. \A p \in PaymentsOf(OrderOf(t)) : p.reference # request[t].reference
    BY <2>2 DEF PaymentsOf
  <2> QED  BY <1>0, <2>2, <2>3, ViewKeeps
<1> QED  BY <1>1, <1>2

LEMMA ViewForDeliveryKeeps ==
  ASSUME IInv, NEW t \in Session, ViewForDelivery(t)
  PROVE  IInv'
<1>0. /\ UNCHANGED <<tables, request>>
      /\ request[t].kind = "delivery" /\ session[t].stage = "locked"
  BY DEF ViewForDelivery, Serving
<1>1. CASE End(t, "refused")
  BY <1>0, <1>1, Dismissed DEF Final
<1>2. CASE View(t) /\ lock' = lock
  BY <1>0, <1>2, ViewKeeps
<1> QED  BY <1>1, <1>2 DEF ViewForDelivery

LEMMA RefuseDeliveryKeeps ==
  ASSUME IInv, NEW t \in Session, RefuseDelivery(t)
  PROVE  IInv'
<1>1. End(t, "refused") /\ UNCHANGED <<tables, request>>
  BY DEF RefuseDelivery
<1> QED  BY <1>1, Dismissed DEF Final

LEMMA DieKeeps ==
  ASSUME IInv, NEW t \in Session, Die(t)
  PROVE  IInv'
<1>1. End(t, "failed") /\ UNCHANGED <<tables, request>>
  BY DEF Die
<1> QED  BY <1>1, Dismissed DEF Final

-----------------------------------------------------------------------------
(* The steps that commit payments and statuses.                            *)

\* The status derived from what a session has read, and the payments it adds,
\* is PAID only when nothing is owed: the rows it has not read only add to it.
LEMMA StatusSeen ==
  ASSUME IInv, NEW t \in Session, NEW ps, IsFiniteSet(ps), ps \subseteq Payment
  PROVE  /\ Outstanding(OrderOf(t), session[t].payments \cup ps, session[t].notes) \in Nat
         /\ StatusFor(OrderOf(t), session[t].payments \cup ps, session[t].notes) \in PaymentStatus
         /\ \/ StatusFor(OrderOf(t), session[t].payments \cup ps, session[t].notes) = "PAID"
            \/ Outstanding(OrderOf(t), session[t].payments \cup ps, session[t].notes) = 0
            => Outstanding(OrderOf(t), PaymentsOf(OrderOf(t)) \cup ps, NotesOf(OrderOf(t))) = 0
<1> DEFINE o == OrderOf(t)
           seen == session[t].payments \cup ps
           all == PaymentsOf(o) \cup ps
           seenNotes == session[t].notes
           allNotes == NotesOf(o)
<1>1. TypeOK /\ o \in Order
  BY OrderOfType DEF IInv
<1>2. /\ IsFiniteSet(PaymentsOf(o)) /\ PaymentsOf(o) \subseteq Payment
      /\ IsFiniteSet(allNotes) /\ allNotes \subseteq Note
  BY <1>1, RowsOf
<1>3. IsFiniteSet(all) /\ all \subseteq Payment
  BY <1>2, FS_Union
<1>4. seen \subseteq all /\ seenNotes \subseteq allNotes
  BY DEF IInv, SessionInv, Loaded
<1> HIDE DEF o, seen, all, seenNotes, allNotes
<1>5. /\ Outstanding(o, seen, seenNotes) \in Nat /\ Outstanding(o, all, allNotes) \in Nat
      /\ Outstanding(o, all, allNotes) <= Outstanding(o, seen, seenNotes)
  BY <1>1, <1>2, <1>3, <1>4, OutstandingShrinks
<1>6. /\ StatusFor(o, seen, seenNotes) \in PaymentStatus
      /\ StatusFor(o, seen, seenNotes) = "PAID" => Outstanding(o, seen, seenNotes) = 0
  BY <1>1, <1>5, StatusForType
<1>7. Outstanding(o, seen, seenNotes) = 0 => Outstanding(o, all, allNotes) = 0
  BY <1>5
<1> QED  BY <1>5, <1>6, <1>7 DEF o, seen, all, seenNotes, allNotes

\* A session that ends with new payments of its order and a new status of it.
LEMMA Committed ==
  ASSUME IInv, NEW t \in Session, NEW answer \in Final, End(t, answer), request' = request,
         notes' = notes, status' \in [Order -> {"ABSENT", "OPEN", "DELIVERED", "CANCELLED"}],
         \A o \in Order : status[o] # "ABSENT" => status'[o] # "ABSENT",
         status[OrderOf(t)] # "ABSENT", lock[OrderOf(t)] \in {NoSession, t},
         NEW ps, IsFiniteSet(ps), ps \subseteq Payment, accounts' = accounts \cup ps,
         \A p \in ps : p.order = OrderOf(t) /\ ~ReferenceUsed(p.reference),
         \A p, q \in ps : p.reference = q.reference => p = q,
         NEW st \in PaymentStatus,
         paymentStatus' = [paymentStatus EXCEPT ![OrderOf(t)] = st],
         st = "PAID" => \/ paymentStatus[OrderOf(t)] = "PAID"
                        \/ Outstanding(OrderOf(t), PaymentsOf(OrderOf(t)) \cup ps,
                                       NotesOf(OrderOf(t))) = 0
  PROVE  IInv'
<1>0. TypeOK /\ TablesInv /\ OrderOf(t) \in Order
  BY OrderOfType DEF IInv
<1>1. /\ session' \in [Session -> SessionRecord]
      /\ \A s \in Session \ {t} : session'[s] = session[s]
      /\ lock' \in [Order -> Session \cup {NoSession}]
      /\ \A o \in Order : lock'[o] = lock[o] \/ (lock[o] = t /\ lock'[o] = NoSession)
      /\ SessionInv(t)' /\ ~Pending(t)'
  BY <1>0, Ended
<1>2. IsFiniteSet(accounts') /\ accounts' \subseteq Payment
  BY <1>0, FS_Union DEF TypeOK
<1>3. TypeOK'
  <2>1. accounts \subseteq accounts'
    OBVIOUS
  <2>2. session' \in [Session -> SessionRecord']
    BY <1>1, <2>1 DEF SessionRecord
  <2>3. paymentStatus' \in [Order -> PaymentStatus]
    BY <1>0 DEF TypeOK
  <2> QED  BY <1>0, <1>1, <1>2, <2>2, <2>3 DEF TypeOK, SessionRecord
<1>4. ASSUME NEW o \in Order
      PROVE  /\ NotesOf(o)' = NotesOf(o)
             /\ PaymentsOf(o)' = IF o = OrderOf(t) THEN PaymentsOf(o) \cup ps ELSE PaymentsOf(o)
  BY DEF NotesOf, PaymentsOf
<1>5. Careful(t)
  <2>1. ASSUME NEW s \in Session \ {t}, NEW o \in Order, lock[o] = s
        PROVE  lock'[o] = s /\ PaymentsOf(o)' = PaymentsOf(o) /\ NotesOf(o)' = NotesOf(o)
    BY <1>1, <1>4, <2>1, SettlementAssumption
  <2>2. ASSUME NEW s \in Session \ {t}, Pending(s)
        PROVE  lock'[OrderOf(s)] = NoSession /\ NotesOf(OrderOf(s))' = NotesOf(OrderOf(s))
    <3>1. OrderOf(s) \in Order /\ lock[OrderOf(s)] = NoSession /\ OrderOf(s)' = OrderOf(s)
      BY <1>0, <2>2, OrderOfType DEF IInv, SessionInv, Abreast, OrderOf
    <3>2. NotesOf(OrderOf(s))' = NotesOf(OrderOf(s))
      BY <3>1 DEF NotesOf
    <3>3. lock'[OrderOf(s)] = NoSession
      BY <1>1, <3>1
    <3> QED  BY <3>2, <3>3
  <2> QED  BY <1>1, <2>1, <2>2 DEF Careful
<1>6. \A s \in Session : SessionInv(s)'
  BY <1>1, <1>5, OthersKeep
<1>7. OnePending'
  <2>1. \A v \in Session : OrderOf(v)' = OrderOf(v)
    BY DEF OrderOf
  <2>2. \A v \in Session \ {t} : Pending(v)' = Pending(v)
    BY <1>1 DEF Pending
  <2> QED  BY <1>0, <1>1, <2>1, <2>2 DEF TablesInv, OnePending
<1>8. Numbered'
  BY <1>0, <1>4 DEF TablesInv, Numbered
<1>9. Booked'
  <2>1. \A p \in accounts' : p.order \in Order
    BY <1>2 DEF Payment
  <2>2. \A n \in notes : n.order \in Order
    BY <1>0 DEF TypeOK, Note
  <2> QED  BY <1>0, <2>1, <2>2 DEF TablesInv, Booked
<1>10. UniqueReferences'
  BY <1>0 DEF TablesInv, UniqueReferences, ReferenceUsed
<1>11. PaidIsSettled'
  <2> SUFFICES ASSUME NEW o \in Order, paymentStatus'[o] = "PAID"
               PROVE  Outstanding(o, PaymentsOf(o)', NotesOf(o)') = 0
    BY DEF PaidIsSettled
  <2>1. CASE o # OrderOf(t)
    BY <1>0, <1>4, <2>1 DEF TablesInv, PaidIsSettled, TypeOK
  <2>2. CASE o = OrderOf(t)
    <3>1. st = "PAID" /\ PaymentsOf(o)' = PaymentsOf(o) \cup ps /\ NotesOf(o)' = NotesOf(o)
      BY <1>0, <1>4, <2>2 DEF TypeOK
    <3>2. CASE paymentStatus[o] = "PAID"
      <4>1. Outstanding(o, PaymentsOf(o), NotesOf(o)) = 0
        BY <1>0, <3>2 DEF TablesInv, PaidIsSettled
      <4>2. /\ IsFiniteSet(PaymentsOf(o) \cup ps) /\ PaymentsOf(o) \cup ps \subseteq Payment
            /\ IsFiniteSet(NotesOf(o)) /\ NotesOf(o) \subseteq Note
        BY <1>0, RowsOf, FS_Union
      <4>3. /\ Outstanding(o, PaymentsOf(o) \cup ps, NotesOf(o)) \in Nat
            /\ Outstanding(o, PaymentsOf(o) \cup ps, NotesOf(o))
                 <= Outstanding(o, PaymentsOf(o), NotesOf(o))
        BY <4>2, OutstandingShrinks
      <4> QED  BY <3>1, <4>1, <4>3
    <3>3. CASE Outstanding(o, PaymentsOf(o) \cup ps, NotesOf(o)) = 0
      BY <3>1, <3>3
    <3> QED  BY <2>2, <3>1, <3>2, <3>3
  <2> QED  BY <2>1, <2>2
<1> QED  BY <1>3, <1>6, <1>7, <1>8, <1>9, <1>10, <1>11 DEF IInv, TablesInv

\* What SetPaymentStatus leaves.
LEMMA StatusSet ==
  ASSUME TypeOK, NEW t \in Session, NEW st \in PaymentStatus, SetPaymentStatus(t, st)
  PROVE  \E new \in PaymentStatus :
           /\ paymentStatus' = [paymentStatus EXCEPT ![OrderOf(t)] = new]
           /\ new \in {st, paymentStatus[OrderOf(t)]}
<1> DEFINE new == IF st = session[t].loaded THEN paymentStatus[OrderOf(t)] ELSE st
<1>1. paymentStatus' = [paymentStatus EXCEPT ![OrderOf(t)] = new]
  BY DEF SetPaymentStatus, OrderOf
<1>2. new \in PaymentStatus /\ new \in {st, paymentStatus[OrderOf(t)]}
  BY OrderOfType DEF TypeOK
<1> QED  BY <1>1, <1>2

\* The rows a payment request of the office adds are payments of its order,
\* each with a reference of its own.
LEMMA NewPaymentsType ==
  ASSUME TypeOK, NEW t \in Session, request[t].kind \in {"payment", "payments"}
  PROVE  /\ IsFiniteSet(NewPayments(t)) /\ NewPayments(t) \subseteq Payment
         /\ \A p \in NewPayments(t) : p.order = OrderOf(t) /\ p.entry = "office"
         /\ \A p, q \in NewPayments(t) : p.reference = q.reference => p = q
<1> DEFINE r == request[t]
           row(a, ref) == [order |-> r.order, amount |-> a, reference |-> ref,
                           entry |-> "office", by |-> NoSalesman]
<1>1. r \in Request /\ r.order \in Order /\ r.order = OrderOf(t)
  BY OrderOfType DEF OrderOf
<1>2. /\ \A a \in Nat, ref \in Reference \cup Nat : row(a, ref) \in Payment
      /\ \A a, ref : /\ row(a, ref).order = OrderOf(t) /\ row(a, ref).entry = "office"
                    /\ row(a, ref).reference = ref
  BY <1>1 DEF Payment
<1> HIDE DEF row
<1>3. CASE r.kind = "payment"
  <2>1. NewPayments(t) = {row(r.amount, r.reference)}
    BY <1>3 DEF NewPayments, row
  <2>2. r.amount \in Nat /\ r.reference \in Reference
    BY <1>1, <1>3, RequestFields
  <2>3. row(r.amount, r.reference) \in Payment
    BY <1>2, <2>2
  <2>4. IsFiniteSet(NewPayments(t))
    BY <2>1, FS_Singleton
  <2>5. /\ row(r.amount, r.reference).order = OrderOf(t)
        /\ row(r.amount, r.reference).entry = "office"
    BY <1>2
  <2> QED  BY <2>1, <2>3, <2>4, <2>5
<1>4. CASE r.kind = "payments"
  <2> DEFINE D == DOMAIN r.amounts
             rows == [i \in D |-> row(r.amounts[i], Generated(i))]
  <2>1. NewPayments(t) = {row(r.amounts[i], Generated(i)) : i \in D}
    BY <1>4 DEF NewPayments, row
  <2>2. r.amounts \in Seq(Nat)
    BY <1>1, <1>4, RequestFields
  <2>3. D = 1 .. Len(r.amounts) /\ Len(r.amounts) \in Nat /\ \A i \in D : r.amounts[i] \in Nat
    BY <2>2
  <2>4. Cardinality(accounts) \in Nat
    BY FS_CardinalityType DEF TypeOK
  <2>5. \A i \in D : Generated(i) \in Nat
    BY <2>3, <2>4 DEF Generated
  <2>6. \A i \in D : row(r.amounts[i], Generated(i)) \in Payment
    BY <1>2, <2>3, <2>5
  <2>7. \A i, j \in D : Generated(i) = Generated(j) => i = j
    BY <2>3, <2>4 DEF Generated
  <2>8. IsFiniteSet(NewPayments(t))
    <3>1. rows \in Surjection(D, NewPayments(t))
      BY <2>1 DEF Surjection
    <3>2. IsFiniteSet(D)
      BY <2>3, FS_Interval
    <3> QED  BY <3>1, <3>2, FS_Surjection
  <2>9. \A p \in NewPayments(t) : p.order = OrderOf(t) /\ p.entry = "office"
    BY <1>2, <2>1
  <2>10. ASSUME NEW p \in NewPayments(t), NEW q \in NewPayments(t), p.reference = q.reference
         PROVE  p = q
    <3>1. PICK i \in D : p = row(r.amounts[i], Generated(i))
      BY <2>1
    <3>2. PICK j \in D : q = row(r.amounts[j], Generated(j))
      BY <2>1
    <3>3. Generated(i) = Generated(j)
      BY <1>2, <2>10, <3>1, <3>2
    <3> QED  BY <2>7, <3>1, <3>2, <3>3
  <2> QED  BY <2>1, <2>6, <2>8, <2>9, <2>10
<1> QED  BY <1>3, <1>4

LEMMA CommitPaymentsKeeps ==
  ASSUME IInv, NEW t \in Session, CommitPayments(t)
  PROVE  IInv'
<1> DEFINE o == OrderOf(t)
           ps == NewPayments(t)
           st == StatusFor(o, session[t].payments \cup ps, session[t].notes)
<1>0. /\ TypeOK /\ SessionInv(t) /\ request' = request /\ status' = status /\ notes' = notes
      /\ request[t].kind \in {"payment", "payments"} /\ session[t].stage = "viewed"
      /\ request[t].order = o /\ lock[o] = NoSession
  BY DEF CommitPayments, IInv, Serving, OrderOf
<1>1. CASE End(t, "failed") /\ UNCHANGED <<accounts, paymentStatus>>
  BY <1>0, <1>1, Dismissed DEF Final, tables
<1>2. CASE ~(End(t, "failed") /\ UNCHANGED <<accounts, paymentStatus>>)
  <2>1. /\ \A p \in ps : ~ReferenceUsed(p.reference)
        /\ accounts' = accounts \cup ps
        /\ SetPaymentStatus(t, st) /\ End(t, "answered")
    BY <1>0, <1>2 DEF CommitPayments
  <2>2. /\ IsFiniteSet(ps) /\ ps \subseteq Payment
        /\ \A p \in ps : p.order = o
        /\ \A p, q \in ps : p.reference = q.reference => p = q
    BY <1>0, NewPaymentsType
  <2>3. /\ st \in PaymentStatus
        /\ st = "PAID" => Outstanding(o, PaymentsOf(o) \cup ps, NotesOf(o)) = 0
    BY <2>2, StatusSeen
  <2>4. PICK new \in PaymentStatus :
          /\ paymentStatus' = [paymentStatus EXCEPT ![o] = new]
          /\ new \in {st, paymentStatus[o]}
    BY <1>0, <2>1, <2>3, StatusSet
  <2>5. status[o] # "ABSENT"
    BY <1>0 DEF SessionInv, Known, Final
  <2>6. status' \in [Order -> {"ABSENT", "OPEN", "DELIVERED", "CANCELLED"}]
    BY <1>0 DEF TypeOK
  <2> HIDE DEF o, ps, st
  <2>7. new = "PAID" => \/ paymentStatus[o] = "PAID"
                        \/ Outstanding(o, PaymentsOf(o) \cup ps, NotesOf(o)) = 0
    BY <2>3, <2>4
  <2> QED  BY <1>0, <2>1, <2>2, <2>4, <2>5, <2>6, <2>7, Committed DEF Final, o
<1> QED  BY <1>1, <1>2

\* A session that ends with a new status of its order, and no payment.
LEMMA Concluded ==
  ASSUME IInv, NEW t \in Session, NEW answer \in Final, End(t, answer),
         UNCHANGED <<request, notes, accounts>>,
         status' \in [Order -> {"ABSENT", "OPEN", "DELIVERED", "CANCELLED"}],
         \A o \in Order : status[o] # "ABSENT" => status'[o] # "ABSENT",
         status[OrderOf(t)] # "ABSENT", lock[OrderOf(t)] \in {NoSession, t},
         NEW st \in PaymentStatus,
         paymentStatus' = [paymentStatus EXCEPT ![OrderOf(t)] = st],
         st = "PAID" => \/ paymentStatus[OrderOf(t)] = "PAID"
                        \/ Outstanding(OrderOf(t), PaymentsOf(OrderOf(t)), NotesOf(OrderOf(t))) = 0
  PROVE  IInv'
<1> DEFINE none == {}
<1>1. /\ IsFiniteSet(none) /\ none \subseteq Payment /\ accounts' = accounts \cup none
      /\ \A p \in none : p.order = OrderOf(t) /\ ~ReferenceUsed(p.reference)
      /\ \A p, q \in none : p.reference = q.reference => p = q
      /\ PaymentsOf(OrderOf(t)) \cup none = PaymentsOf(OrderOf(t))
  BY FS_EmptySet
<1> HIDE DEF none
<1>2. st = "PAID" => \/ paymentStatus[OrderOf(t)] = "PAID"
                     \/ Outstanding(OrderOf(t), PaymentsOf(OrderOf(t)) \cup none,
                                    NotesOf(OrderOf(t))) = 0
  BY <1>1
<1> QED  BY <1>1, <1>2, Committed

\* A collection, on the order its session holds or nobody does.
LEMMA CollectedKeeps ==
  ASSUME IInv, NEW t \in Session, UNCHANGED <<request, notes>>,
         NEW amount \in Nat \cup {NoAmount}, NEW reference \in Reference \cup Nat,
         NEW entry \in {"cash", "delivery"}, NEW by \in Salesman \cup {NoSalesman},
         Collected(t, amount, reference, entry, by),
         status' \in [Order -> {"ABSENT", "OPEN", "DELIVERED", "CANCELLED"}],
         \A o \in Order : status[o] # "ABSENT" => status'[o] # "ABSENT",
         status[OrderOf(t)] # "ABSENT", lock[OrderOf(t)] \in {NoSession, t}
  PROVE  IInv'
<1> DEFINE o == OrderOf(t)
           p == [order |-> o, reference |-> reference, entry |-> entry, by |-> by,
                 amount |-> AmountTaken(o, session[t].payments, session[t].notes, amount)]
           ps == {p}
           st == StatusFor(o, session[t].payments \cup ps, session[t].notes)
<1>0. TypeOK /\ o \in Order /\ request[t].order = o
  BY OrderOfType DEF IInv, OrderOf
<1>1. /\ Takes(o, session[t].payments, session[t].notes, amount)
      /\ ~ReferenceUsed(reference)
      /\ accounts' = accounts \cup ps /\ SetPaymentStatus(t, st) /\ End(t, "answered")
  BY <1>0 DEF Collected
<1>2. Outstanding(o, session[t].payments, session[t].notes) \in Nat
  <2>1. session[t].payments \cup {} = session[t].payments
    OBVIOUS
  <2>2. Outstanding(o, session[t].payments \cup {}, session[t].notes) \in Nat
    BY StatusSeen, FS_EmptySet
  <2> QED  BY <2>1, <2>2
<1>3. p.amount \in Nat
  BY <1>1, <1>2 DEF Takes
<1>4. p \in Payment
  BY <1>0, <1>3 DEF Payment
<1>a. p.order = o /\ p.reference = reference
  OBVIOUS
<1> HIDE DEF p
<1>b. IsFiniteSet(ps)
  BY FS_Singleton
<1>5. /\ IsFiniteSet(ps) /\ ps \subseteq Payment
      /\ \A q \in ps : q.order = o /\ ~ReferenceUsed(q.reference)
      /\ \A q, u \in ps : q.reference = u.reference => q = u
  BY <1>1, <1>4, <1>a, <1>b
<1>6. /\ st \in PaymentStatus
      /\ st = "PAID" => Outstanding(o, PaymentsOf(o) \cup ps, NotesOf(o)) = 0
  BY <1>5, StatusSeen
<1>7. PICK new \in PaymentStatus :
        /\ paymentStatus' = [paymentStatus EXCEPT ![o] = new]
        /\ new \in {st, paymentStatus[o]}
  BY <1>0, <1>1, <1>6, StatusSet
<1> HIDE DEF ps, st
<1>8. new = "PAID" => \/ paymentStatus[o] = "PAID"
                      \/ Outstanding(o, PaymentsOf(o) \cup ps, NotesOf(o)) = 0
  BY <1>6, <1>7
<1> QED  BY <1>1, <1>5, <1>7, <1>8, Committed DEF Final

LEMMA CommitCashKeeps ==
  ASSUME IInv, NEW t \in Session, CommitCash(t)
  PROVE  IInv'
<1> DEFINE r == request[t]
<1>0. /\ TypeOK /\ SessionInv(t) /\ UNCHANGED <<status, notes, request>>
      /\ r.kind = "cash" /\ session[t].stage = "viewed"
  BY DEF CommitCash, IInv, Serving
<1>1. lock[OrderOf(t)] = t /\ status[OrderOf(t)] # "ABSENT"
  BY <1>0 DEF SessionInv, Holds, Known, Final
<1>2. CASE /\ \E a \in Final : End(t, a)
           /\ UNCHANGED <<accounts, paymentStatus>>
  BY <1>0, <1>2, Dismissed DEF tables
<1>3. CASE Collected(t, r.amount, r.reference, "cash", r.by)
  <2>1. r.amount \in Nat /\ r.reference \in Reference /\ r.by \in Salesman
    BY <1>0, OrderOfType, RequestFields
  <2>2. status' \in [Order -> {"ABSENT", "OPEN", "DELIVERED", "CANCELLED"}]
    BY <1>0 DEF TypeOK
  <2> QED  BY <1>0, <1>1, <1>3, <2>1, <2>2, CollectedKeeps
<1>4. \/ /\ \E a \in Final : End(t, a)
         /\ UNCHANGED <<accounts, paymentStatus>>
      \/ Collected(t, r.amount, r.reference, "cash", r.by)
  BY DEF CommitCash, Final
<1> QED  BY <1>2, <1>3, <1>4

LEMMA CommitDeliveryKeeps ==
  ASSUME IInv, NEW t \in Session, CommitDelivery(t)
  PROVE  IInv'
<1> DEFINE r == request[t]
           o == OrderOf(t)
<1>0. /\ TypeOK /\ SessionInv(t) /\ UNCHANGED <<notes, request>>
      /\ r.kind = "delivery" /\ session[t].stage = "viewed" /\ r.order = o /\ o \in Order
      /\ status' = [status EXCEPT ![o] = "DELIVERED"]
  BY OrderOfType DEF CommitDelivery, IInv, Serving, OrderOf
<1>1. lock[o] = t /\ status[o] # "ABSENT"
  BY <1>0 DEF SessionInv, Holds, Known, Final
<1>2. /\ status' \in [Order -> {"ABSENT", "OPEN", "DELIVERED", "CANCELLED"}]
      /\ \A q \in Order : status[q] # "ABSENT" => status'[q] # "ABSENT"
  BY <1>0 DEF TypeOK
<1>3. CASE UNCHANGED <<accounts, paymentStatus>> /\ End(t, "answered")
  <2>1. /\ paymentStatus' = [paymentStatus EXCEPT ![o] = paymentStatus[o]]
        /\ paymentStatus[o] \in PaymentStatus
    BY <1>0, <1>3 DEF TypeOK
  <2> QED  BY <1>0, <1>1, <1>2, <1>3, <2>1, Concluded DEF Final
<1>4. CASE SetPaymentStatus(t, "CREDIT") /\ accounts' = accounts /\ End(t, "answered")
  <2>1. PICK new \in PaymentStatus :
          /\ paymentStatus' = [paymentStatus EXCEPT ![o] = new]
          /\ new \in {"CREDIT", paymentStatus[o]}
    BY <1>0, <1>4, StatusSet DEF PaymentStatus
  <2> QED  BY <1>0, <1>1, <1>2, <1>4, <2>1, Concluded DEF Final
<1>5. CASE Settled(t) /\ SetPaymentStatus(t, "PAID") /\ accounts' = accounts /\ End(t, "answered")
  <2>1. PICK new \in PaymentStatus :
          /\ paymentStatus' = [paymentStatus EXCEPT ![o] = new]
          /\ new \in {"PAID", paymentStatus[o]}
    BY <1>0, <1>5, StatusSet DEF PaymentStatus
  <2>2. Outstanding(o, PaymentsOf(o), NotesOf(o)) = 0
    BY <1>0, <1>5 DEF SessionInv, Viewed, Settled
  <2> QED  BY <1>0, <1>1, <1>2, <1>5, <2>1, <2>2, Concluded DEF Final
<1>6. CASE Collected(t, r.amount, Generated(1), "delivery", NoSalesman)
  <2>1. r.amount \in Nat \cup {NoAmount}
    BY <1>0, OrderOfType, RequestFields
  <2>2. Generated(1) \in Nat
    BY <1>0, FS_CardinalityType DEF Generated, TypeOK
  <2> QED  BY <1>0, <1>1, <1>2, <1>6, <2>1, <2>2, CollectedKeeps
<1>7. \/ UNCHANGED <<accounts, paymentStatus>> /\ End(t, "answered")
      \/ SetPaymentStatus(t, "CREDIT") /\ accounts' = accounts /\ End(t, "answered")
      \/ Settled(t) /\ SetPaymentStatus(t, "PAID") /\ accounts' = accounts /\ End(t, "answered")
      \/ Collected(t, r.amount, Generated(1), "delivery", NoSalesman)
  BY DEF CommitDelivery
<1> QED  BY <1>3, <1>4, <1>5, <1>6, <1>7

LEMMA CancelKeeps ==
  ASSUME IInv, NEW t \in Session, Cancel(t)
  PROVE  IInv'
<1>0. /\ TypeOK /\ SessionInv(t) /\ UNCHANGED <<paymentStatus, accounts, notes, request>>
      /\ request[t].kind = "cancel" /\ session[t].stage = "locked"
      /\ request[t].order = OrderOf(t) /\ OrderOf(t) \in Order
  BY OrderOfType DEF Cancel, IInv, Serving, OrderOf
<1>1. CASE End(t, "refused") /\ status' = status
  BY <1>0, <1>1, Dismissed DEF Final, tables
<1>2. CASE status' = [status EXCEPT ![OrderOf(t)] = "CANCELLED"] /\ End(t, "answered")
  <2>1. lock[OrderOf(t)] = t /\ status[OrderOf(t)] # "ABSENT"
    BY <1>0 DEF SessionInv, Holds, Known, Final
  <2>2. /\ status' \in [Order -> {"ABSENT", "OPEN", "DELIVERED", "CANCELLED"}]
        /\ \A q \in Order : status[q] # "ABSENT" => status'[q] # "ABSENT"
    BY <1>0, <1>2 DEF TypeOK
  <2>3. /\ paymentStatus' = [paymentStatus EXCEPT ![OrderOf(t)] = paymentStatus[OrderOf(t)]]
        /\ paymentStatus[OrderOf(t)] \in PaymentStatus
    BY <1>0 DEF TypeOK
  <2> QED  BY <1>0, <1>2, <2>1, <2>2, <2>3, Concluded DEF Final
<1> QED  BY <1>0, <1>1, <1>2 DEF Cancel

-----------------------------------------------------------------------------
(* The credit note and the booking.                                        *)

\* A committed note is new, and numbered next after those of its order.
LEMMA NewNote ==
  ASSUME IInv, NEW t \in Session, Pending(t)
  PROVE  /\ NoteOf(t) \in Note /\ NoteOf(t) \notin notes
         /\ NoteOf(t).order = OrderOf(t)
         /\ NoteOf(t).lines = request[t].lines
         /\ Cardinality(NotesOf(OrderOf(t))) \in Nat
         /\ NoteOf(t).number = Cardinality(NotesOf(OrderOf(t))) + 1
         /\ \A m \in NotesOf(OrderOf(t)) : m.number # NoteOf(t).number
<1> DEFINE all == NotesOf(OrderOf(t))
<1>1. /\ TypeOK /\ OrderOf(t) \in Order /\ request[t] \in Request
      /\ session[t].notes = all /\ request[t].order = OrderOf(t) /\ request[t].kind = "note"
  BY OrderOfType DEF IInv, SessionInv, Abreast, OrderOf, Pending
<1>2. Cardinality(all) \in Nat
  BY <1>1, RowsOf, FS_CardinalityType
<1>3. /\ NoteOf(t).order = OrderOf(t) /\ NoteOf(t).number = Cardinality(all) + 1
      /\ NoteOf(t).lines = request[t].lines
  BY <1>1 DEF NoteOf
<1>4. NoteOf(t) \in Note
  <2>1. request[t].lines \in Seq(Line) /\ request[t].restock \in BOOLEAN
    BY <1>1, RequestFields
  <2>2. NoteOf(t) = [order |-> OrderOf(t), number |-> Cardinality(all) + 1,
                     lines |-> request[t].lines, restock |-> request[t].restock]
    BY <1>1 DEF NoteOf
  <2> HIDE DEF all
  <2> QED  BY <1>1, <1>2, <2>1, <2>2 DEF Note
<1>5. ASSUME NEW m \in all PROVE m.number # Cardinality(all) + 1
  <2>1. {n.number : n \in all} = 1 .. Cardinality(all)
    BY <1>1 DEF IInv, TablesInv, Numbered
  <2> HIDE DEF all
  <2>2. m.number \in 1 .. Cardinality(all)
    BY <2>1
  <2> QED  BY <1>2, <2>2
<1>6. NoteOf(t) \notin notes
  <2>1. ASSUME NoteOf(t) \in notes PROVE NoteOf(t) \in all
    BY <1>3, <2>1 DEF NotesOf
  <2> QED  BY <1>3, <1>5, <2>1
<1> QED  BY <1>2, <1>3, <1>4, <1>5, <1>6

LEMMA CommitNoteKeeps ==
  ASSUME IInv, NEW t \in Session, CommitNote(t)
  PROVE  IInv'
<1> DEFINE o == OrderOf(t)
           n == NoteOf(t)
           st == StatusFor(o, session[t].payments, session[t].notes)
<1>0. /\ TypeOK /\ TablesInv /\ SessionInv(t) /\ UNCHANGED <<status, accounts, request>>
      /\ Pending(t) /\ o \in Order /\ notes' = notes \cup {n}
      /\ SetPaymentStatus(t, st) /\ End(t, "answered")
      /\ lock[o] = NoSession /\ session[t].notes = NotesOf(o) /\ status[o] # "ABSENT"
  BY OrderOfType
  DEF CommitNote, IInv, Serving, OrderOf, Pending, SessionInv, Abreast, Known, Final
<1>1. /\ n \in Note /\ n \notin notes /\ n.order = o
      /\ Cardinality(NotesOf(o)) \in Nat /\ n.number = Cardinality(NotesOf(o)) + 1
  BY <1>0, NewNote
<1>2. /\ session' \in [Session -> SessionRecord]
      /\ \A s \in Session \ {t} : session'[s] = session[s]
      /\ lock' \in [Order -> Session \cup {NoSession}]
      /\ \A q \in Order : lock'[q] = lock[q] \/ (lock[q] = t /\ lock'[q] = NoSession)
      /\ SessionInv(t)' /\ ~Pending(t)'
  BY <1>0, Ended DEF Final
<1>3. /\ st \in PaymentStatus
      /\ st = "PAID" => Outstanding(o, PaymentsOf(o), NotesOf(o)) = 0
  <2> DEFINE none == {}
  <2>1. /\ IsFiniteSet(none) /\ none \subseteq Payment
        /\ session[t].payments \cup none = session[t].payments
        /\ PaymentsOf(o) \cup none = PaymentsOf(o)
    BY FS_EmptySet
  <2> HIDE DEF none
  <2>2. /\ StatusFor(o, session[t].payments \cup none, session[t].notes) \in PaymentStatus
        /\ StatusFor(o, session[t].payments \cup none, session[t].notes) = "PAID"
            => Outstanding(o, PaymentsOf(o) \cup none, NotesOf(o)) = 0
    BY <2>1, StatusSeen
  <2> QED  BY <2>1, <2>2
<1>4. PICK new \in PaymentStatus :
        /\ paymentStatus' = [paymentStatus EXCEPT ![o] = new]
        /\ new \in {st, paymentStatus[o]}
  BY <1>0, <1>3, StatusSet
<1> HIDE DEF n, st
<1>5. IsFiniteSet(notes') /\ notes' \subseteq Note
  BY <1>0, <1>1, FS_AddElement DEF TypeOK
<1>6. TypeOK'
  <2>1. session' \in [Session -> SessionRecord']
    BY <1>0, <1>2 DEF SessionRecord
  <2>2. paymentStatus' \in [Order -> PaymentStatus]
    BY <1>0, <1>4 DEF TypeOK
  <2> QED  BY <1>0, <1>2, <1>5, <2>1, <2>2 DEF TypeOK, SessionRecord
<1>7. ASSUME NEW q \in Order
      PROVE  /\ PaymentsOf(q)' = PaymentsOf(q)
             /\ NotesOf(q)' = IF q = o THEN NotesOf(q) \cup {n} ELSE NotesOf(q)
  BY <1>0, <1>1 DEF NotesOf, PaymentsOf
<1>8. Careful(t)
  <2>1. ASSUME NEW s \in Session \ {t}, NEW q \in Order, lock[q] = s
        PROVE  lock'[q] = s /\ PaymentsOf(q)' = PaymentsOf(q) /\ NotesOf(q)' = NotesOf(q)
    BY <1>0, <1>2, <1>7, <2>1, SettlementAssumption
  <2>2. ASSUME NEW s \in Session \ {t}, Pending(s)
        PROVE  lock'[OrderOf(s)] = NoSession /\ NotesOf(OrderOf(s))' = NotesOf(OrderOf(s))
    <3>1. OrderOf(s) \in Order /\ lock[OrderOf(s)] = NoSession /\ OrderOf(s)' = OrderOf(s)
      BY <1>0, <2>2, OrderOfType DEF IInv, SessionInv, Abreast, OrderOf
    <3>2. OrderOf(s) # o
      BY <1>0, <2>2 DEF TablesInv, OnePending
    <3>3. NotesOf(OrderOf(s))' = NotesOf(OrderOf(s))
      BY <1>0, <1>1, <3>1, <3>2 DEF NotesOf
    <3>4. lock'[OrderOf(s)] = NoSession
      BY <1>2, <3>1
    <3> QED  BY <3>3, <3>4
  <2> QED  BY <1>0, <1>2, <2>1, <2>2 DEF Careful
<1>9. \A s \in Session : SessionInv(s)'
  BY <1>2, <1>8, OthersKeep
<1>10. OnePending'
  <2>1. \A v \in Session : OrderOf(v)' = OrderOf(v)
    BY <1>0 DEF OrderOf
  <2>2. \A v \in Session \ {t} : Pending(v)' = Pending(v)
    BY <1>0, <1>2 DEF Pending
  <2> QED  BY <1>0, <1>2, <2>1, <2>2 DEF TablesInv, OnePending
<1>11. Numbered'
  <2> SUFFICES ASSUME NEW q \in Order
               PROVE  {m.number : m \in NotesOf(q)'} = 1 .. Cardinality(NotesOf(q)')
    BY DEF Numbered
  <2>1. {m.number : m \in NotesOf(q)} = 1 .. Cardinality(NotesOf(q))
    BY <1>0 DEF TablesInv, Numbered
  <2>2. CASE q # o
    BY <1>7, <2>1, <2>2
  <2>3. CASE q = o
    <3>1. n \notin NotesOf(o) /\ IsFiniteSet(NotesOf(o))
      BY <1>0, <1>1, RowsOf
    <3>2. Cardinality(NotesOf(o) \cup {n}) = Cardinality(NotesOf(o)) + 1
      BY <3>1, FS_AddElement
    <3>3. {m.number : m \in NotesOf(o) \cup {n}}
            = {m.number : m \in NotesOf(o)} \cup {n.number}
      OBVIOUS
    <3>4. 1 .. Cardinality(NotesOf(o)) + 1
            = (1 .. Cardinality(NotesOf(o))) \cup {Cardinality(NotesOf(o)) + 1}
      BY <1>1
    <3> QED  BY <1>1, <1>7, <2>1, <2>3, <3>2, <3>3, <3>4
  <2> QED  BY <2>2, <2>3
<1>12. Booked' /\ UniqueReferences'
  BY <1>0, <1>1 DEF TablesInv, Booked, UniqueReferences
<1>13. PaidIsSettled'
  <2> SUFFICES ASSUME NEW q \in Order, paymentStatus'[q] = "PAID"
               PROVE  Outstanding(q, PaymentsOf(q)', NotesOf(q)') = 0
    BY DEF PaidIsSettled
  <2>1. CASE q # o
    BY <1>0, <1>4, <1>7, <2>1 DEF TablesInv, PaidIsSettled, TypeOK
  <2>2. CASE q = o
    <3>1. Outstanding(o, PaymentsOf(o), NotesOf(o)) = 0
      BY <1>0, <1>3, <1>4, <2>2 DEF TablesInv, PaidIsSettled, TypeOK
    <3>2. /\ IsFiniteSet(PaymentsOf(o)) /\ PaymentsOf(o) \subseteq Payment
          /\ IsFiniteSet(NotesOf(o)) /\ NotesOf(o) \subseteq Note
      BY <1>0, RowsOf
    <3>3. IsFiniteSet(NotesOf(o) \cup {n}) /\ NotesOf(o) \cup {n} \subseteq Note
      BY <1>1, <3>2, FS_AddElement
    <3>4. /\ Outstanding(o, PaymentsOf(o), NotesOf(o) \cup {n}) \in Nat
          /\ Outstanding(o, PaymentsOf(o), NotesOf(o) \cup {n})
               <= Outstanding(o, PaymentsOf(o), NotesOf(o))
      BY <1>0, <3>2, <3>3, OutstandingShrinks
    <3> QED  BY <1>7, <2>2, <3>1, <3>4
  <2> QED  BY <2>1, <2>2
<1> QED  BY <1>6, <1>9, <1>10, <1>11, <1>12, <1>13 DEF IInv, TablesInv

\* What a booking enters: at most a deposit, which the order owes.
LEMMA Deposited ==
  ASSUME IInv, NEW o \in Order, Book(o)
  PROVE  /\ PaymentsOf(o) = {} /\ NotesOf(o) = {}
         /\ \E ps \in SUBSET Payment, st \in PaymentStatus :
              /\ IsFiniteSet(ps) /\ accounts' = accounts \cup ps
              /\ \A p \in ps : /\ p.order = o /\ ~ReferenceUsed(p.reference)
                              /\ p.amount <= Outstanding(o, {}, {})
              /\ \A p, q \in ps : p = q
              /\ paymentStatus' = [paymentStatus EXCEPT ![o] = st]
              /\ st = "PAID" => Outstanding(o, ps, {}) = 0
<1>0. TypeOK /\ status[o] = "ABSENT"
  BY DEF Book, IInv
<1>1. PaymentsOf(o) = {} /\ NotesOf(o) = {}
  BY <1>0 DEF IInv, TablesInv, Booked, PaymentsOf, NotesOf
<1>2. CASE paymentStatus' = [paymentStatus EXCEPT ![o] = "CREDIT"] /\ accounts' = accounts
  <2> DEFINE none == {}
  <2>1. /\ IsFiniteSet(none) /\ none \in SUBSET Payment /\ accounts' = accounts \cup none
        /\ \A p : p \notin none
    BY <1>2, FS_EmptySet
  <2>2. "CREDIT" \in PaymentStatus
    BY DEF PaymentStatus
  <2> HIDE DEF none
  <2> QED  BY <1>1, <1>2, <2>1, <2>2
<1>3. ASSUME NEW d \in Deposit,
             Takes(o, {}, {}, d), ~ReferenceUsed(Generated(1)),
             LET p == [order |-> o, amount |-> AmountTaken(o, {}, {}, d),
                       reference |-> Generated(1), entry |-> "booking", by |-> NoSalesman]
             IN  /\ accounts' = accounts \cup {p}
                 /\ paymentStatus' = [paymentStatus EXCEPT ![o] = StatusFor(o, {p}, {})]
      PROVE  \E ps \in SUBSET Payment, st \in PaymentStatus :
              /\ IsFiniteSet(ps) /\ accounts' = accounts \cup ps
              /\ \A p \in ps : /\ p.order = o /\ ~ReferenceUsed(p.reference)
                              /\ p.amount <= Outstanding(o, {}, {})
              /\ \A p, q \in ps : p = q
              /\ paymentStatus' = [paymentStatus EXCEPT ![o] = st]
              /\ st = "PAID" => Outstanding(o, ps, {}) = 0
  <2> DEFINE a == AmountTaken(o, {}, {}, d)
             g == Generated(1)
             p == [order |-> o, amount |-> a, reference |-> g, entry |-> "booking",
                   by |-> NoSalesman]
  <2>1. IsFiniteSet({}) /\ IsFiniteSet({p})
    BY FS_EmptySet, FS_Singleton
  <2>2. Outstanding(o, {}, {}) \in Nat
    BY <2>1, OutstandingShrinks
  <2>3. a \in Nat /\ a <= Outstanding(o, {}, {})
    BY <1>3, <2>2 DEF Takes
  <2>4. g \in Nat
    BY <1>0, FS_CardinalityType DEF Generated, TypeOK
  <2> HIDE DEF a, g
  <2>5. /\ p \in Payment /\ p.order = o /\ p.amount <= Outstanding(o, {}, {})
        /\ p.reference = g
    BY <2>3, <2>4 DEF Payment
  <2>6. /\ accounts' = accounts \cup {p} /\ ~ReferenceUsed(g)
        /\ paymentStatus' = [paymentStatus EXCEPT ![o] = StatusFor(o, {p}, {})]
    BY <1>3 DEF a, g
  <2> HIDE DEF p
  <2>7. Outstanding(o, {p}, {}) \in Nat
    BY <2>1, <2>5, OutstandingShrinks
  <2>8. /\ StatusFor(o, {p}, {}) \in PaymentStatus
        /\ StatusFor(o, {p}, {}) = "PAID" => Outstanding(o, {p}, {}) = 0
    BY <2>7, StatusForType
  <2>9. {p} \in SUBSET Payment
    BY <2>5
  <2> QED  BY <2>1, <2>5, <2>6, <2>8, <2>9
<1> QED  BY <1>1, <1>2, <1>3 DEF Book

LEMMA BookKeeps ==
  ASSUME IInv, NEW o \in Order, Book(o)
  PROVE  IInv'
<1>0. /\ TypeOK /\ TablesInv /\ status[o] = "ABSENT" /\ status' = [status EXCEPT ![o] = "OPEN"]
      /\ UNCHANGED <<notes, lock, request, session>>
  BY DEF Book, IInv
<1>1. PaymentsOf(o) = {} /\ NotesOf(o) = {}
  BY Deposited
<1>2. PICK ps \in SUBSET Payment, st \in PaymentStatus :
        /\ IsFiniteSet(ps) /\ accounts' = accounts \cup ps
        /\ \A p \in ps : p.order = o /\ ~ReferenceUsed(p.reference)
        /\ \A p, q \in ps : p = q
        /\ paymentStatus' = [paymentStatus EXCEPT ![o] = st]
        /\ st = "PAID" => Outstanding(o, ps, {}) = 0
  BY Deposited
<1>3. IsFiniteSet(accounts') /\ accounts' \subseteq Payment
  BY <1>0, <1>2, FS_Union DEF TypeOK
<1>4. TypeOK'
  <2>1. session' \in [Session -> SessionRecord']
    BY <1>0, <1>2 DEF TypeOK, SessionRecord
  <2>2. paymentStatus' \in [Order -> PaymentStatus]
    BY <1>0, <1>2 DEF TypeOK
  <2> QED  BY <1>0, <1>3, <2>1, <2>2 DEF TypeOK, SessionRecord
<1>5. ASSUME NEW q \in Order
      PROVE  /\ NotesOf(q)' = NotesOf(q)
             /\ PaymentsOf(q)' = IF q = o THEN PaymentsOf(q) \cup ps ELSE PaymentsOf(q)
  BY <1>0, <1>2 DEF NotesOf, PaymentsOf
<1>6. ASSUME NEW s \in Session PROVE SessionInv(s)'
  <2>1. /\ OrderOf(s) \in Order /\ OrderOf(s)' = OrderOf(s) /\ SessionInv(s)
        /\ session'[s] = session[s] /\ request' = request /\ lock' = lock
    BY <1>0, OrderOfType DEF IInv, OrderOf
  <2>2. Loaded(s)'
    BY <1>0, <1>2, <2>1 DEF SessionInv, Loaded, PaymentsOf, NotesOf
  <2>3. Known(s)' /\ Holds(s)' /\ NoRetry(s)' /\ Fits(s)'
    BY <1>0, <2>1 DEF SessionInv, Known, Holds, NoRetry, Fits, TypeOK
  <2>4. session[s].stage \notin {"arrived"} \cup Final => OrderOf(s) # o
    BY <1>0, <2>1 DEF SessionInv, Known
  <2>5. OrderOf(s) # o => /\ PaymentsOf(OrderOf(s))' = PaymentsOf(OrderOf(s))
                         /\ NotesOf(OrderOf(s))' = NotesOf(OrderOf(s))
    BY <1>0, <1>2, <2>1 DEF PaymentsOf, NotesOf
  <2>6. Viewed(s)'
    BY <2>1, <2>4, <2>5 DEF SessionInv, Viewed, Final
  <2>7. NotesOf(OrderOf(s))' = NotesOf(OrderOf(s))
    BY <1>0, <2>1 DEF NotesOf
  <2>8. Abreast(s)'
    BY <2>1, <2>7 DEF SessionInv, Abreast, Pending
  <2> QED  BY <2>2, <2>3, <2>6, <2>8 DEF SessionInv
<1>7. OnePending' /\ Numbered'
  <2>1. \A s \in Session : OrderOf(s)' = OrderOf(s) /\ Pending(s)' = Pending(s)
    BY <1>0 DEF OrderOf, Pending
  <2> QED  BY <1>0, <1>5, <2>1 DEF TablesInv, OnePending, Numbered
<1>8. Booked'
  <2>1. \A n \in notes : n.order \in Order
    BY <1>0 DEF TypeOK, Note
  <2>2. \A p \in accounts' : p.order \in Order
    BY <1>3 DEF Payment
  <2> QED  BY <1>0, <1>2, <2>1, <2>2 DEF TablesInv, Booked, TypeOK
<1>9. UniqueReferences'
  BY <1>0, <1>2 DEF TablesInv, UniqueReferences, ReferenceUsed
<1>10. PaidIsSettled'
  <2> SUFFICES ASSUME NEW q \in Order, paymentStatus'[q] = "PAID"
               PROVE  Outstanding(q, PaymentsOf(q)', NotesOf(q)') = 0
    BY DEF PaidIsSettled
  <2>1. CASE q # o
    BY <1>0, <1>2, <1>5, <2>1 DEF TablesInv, PaidIsSettled, TypeOK
  <2>2. CASE q = o
    <3>1. st = "PAID"
      BY <1>0, <1>2, <2>2 DEF TypeOK
    <3>2. PaymentsOf(q)' = ps /\ NotesOf(q)' = {}
      BY <1>1, <1>5, <2>2
    <3> QED  BY <1>2, <2>2, <3>1, <3>2
  <2> QED  BY <2>1, <2>2
<1> QED  BY <1>4, <1>6, <1>7, <1>8, <1>9, <1>10 DEF IInv, TablesInv

-----------------------------------------------------------------------------
(* The invariant, and what follows from it.                                *)

LEMMA InvariantHoldsAtFirst == Init => IInv
<1> SUFFICES ASSUME Init PROVE IInv
  OBVIOUS
<1> USE DEF Init
<1>1. TypeOK
  <2>1. Fresh \in [stage : Stage, loaded : PaymentStatus,
                   payments : SUBSET accounts, notes : SUBSET notes]
    BY DEF Fresh, Stage, PaymentStatus
  <2>2. IsFiniteSet(accounts) /\ IsFiniteSet(notes)
    BY FS_EmptySet
  <2> QED  BY <2>1, <2>2, SettlementAssumption DEF TypeOK, PaymentStatus
<1>2. \A o \in Order : PaymentsOf(o) = {} /\ NotesOf(o) = {}
  BY DEF PaymentsOf, NotesOf
<1>3. \A s \in Session : /\ session[s].stage = "arrived"
                        /\ session[s].payments = {} /\ session[s].notes = {}
  BY DEF Fresh
<1>4. \A s \in Session : ~Pending(s)
  BY <1>3 DEF Pending
<1>5. ASSUME NEW s \in Session PROVE SessionInv(s)
  BY <1>3, <1>4
  DEF SessionInv, Known, Loaded, Holds, Viewed, NoRetry, Fits, Abreast
<1>6. Numbered
  <2>1. Cardinality({}) = 0 /\ 1 .. 0 = {}
    BY FS_EmptySet
  <2> QED  BY <1>2, <2>1 DEF Numbered
<1>7. OnePending /\ Booked /\ UniqueReferences /\ PaidIsSettled
  BY <1>4 DEF OnePending, Booked, UniqueReferences, PaidIsSettled
<1> QED  BY <1>1, <1>5, <1>6, <1>7 DEF IInv, TablesInv

LEMMA InvariantIsKept == IInv /\ [Next]_vars => IInv'
<1> SUFFICES ASSUME IInv, [Next]_vars PROVE IInv'
  OBVIOUS
<1>1. ASSUME NEW o \in Order, Book(o) PROVE IInv'
  BY <1>1, BookKeeps
<1>2. ASSUME NEW s \in Session, Step(s) PROVE IInv'
  <2>1. CASE ReadOrder(s) \/ CheckReference(s) \/ CheckCredits(s) \/ WriteNote(s)
    BY <2>1, ReadOrderKeeps, CheckReferenceKeeps, CheckCreditsKeeps, WriteNoteKeeps
  <2>2. CASE LoadPayments(s) \/ LoadNotes(s) \/ CommitPayments(s) \/ CommitNote(s)
    BY <2>2, LoadPaymentsKeeps, LoadNotesKeeps, CommitPaymentsKeeps, CommitNoteKeeps
  <2>3. CASE LockOrder(s) \/ ViewForCash(s) \/ CommitCash(s)
    BY <2>3, LockOrderKeeps, ViewForCashKeeps, CommitCashKeeps
  <2>4. CASE ViewForDelivery(s) \/ CommitDelivery(s) \/ RefuseDelivery(s) \/ Cancel(s)
    BY <2>4, ViewForDeliveryKeeps, CommitDeliveryKeeps, RefuseDeliveryKeeps, CancelKeeps
  <2> QED  BY <1>2, <2>1, <2>2, <2>3, <2>4 DEF Step
<1>3. ASSUME NEW s \in Session, Die(s) PROVE IInv'
  BY <1>3, DieKeeps
<1>4. CASE UNCHANGED vars
  BY <1>4
  DEF vars, tables, IInv, TypeOK, TablesInv, OnePending, Numbered, Booked, UniqueReferences,
      PaidIsSettled, SessionInv, Known, Loaded, Holds, Viewed, NoRetry, Fits, Abreast, Pending,
      OrderOf, PaymentsOf, NotesOf
<1> QED  BY <1>1, <1>2, <1>3, <1>4 DEF Next, Idle

\* The invariant of every behaviour of the requests.
THEOREM Invariant == Spec => []IInv
BY InvariantHoldsAtFirst, InvariantIsKept, PTL DEF Spec

\* Sessions, locks and rows are always of their types.
THEOREM Typed == Spec => []TypeOK
<1>1. IInv => TypeOK
  BY DEF IInv
<1> QED  BY <1>1, Invariant, PTL

\* An order marked PAID owes nothing, whatever the interleaving.
THEOREM PaidOrdersAreSettled == Spec => []PaidIsSettled
<1>1. IInv => PaidIsSettled
  BY DEF IInv, TablesInv
<1> QED  BY <1>1, Invariant, PTL

\* The step that refuses a salesman's collection does not refuse a retry.
LEMMA NoRetryIsRefused ==
  ASSUME IInv, [Next]_vars, NEW s \in Session,
         request[s].kind = "cash", request[s].by = Creator[request[s].order],
         session[s].stage # "refused", session'[s].stage = "refused",
         NEW p \in accounts, p.reference = request[s].reference, p.order = request[s].order,
         p.by = request[s].by, p.amount = request[s].amount
  PROVE  FALSE
<1> DEFINE r == request[s]
<1>0. TypeOK /\ TablesInv /\ SessionInv(s) /\ r \in Request /\ OrderOf(s) \in Order
      /\ r.order = OrderOf(s)
  BY OrderOfType DEF IInv, OrderOf
<1>1. status[r.order] # "ABSENT"
  BY <1>0 DEF TablesInv, Booked
<1>2. \A q \in accounts : q.reference = r.reference => q = p
  BY <1>0 DEF TablesInv, UniqueReferences
<1>3. session' # session
  OBVIOUS
<1>4. PICK t \in Session : Step(t) \/ Die(t)
  BY <1>3 DEF Next, Book, Idle, vars
<1>5. t = s
  <2> SUFFICES ASSUME t # s PROVE session'[s] = session[s]
    OBVIOUS
  <2> USE DEF TypeOK
  <2>1. ASSUME NEW a, End(t, a) PROVE session'[s] = session[s]
    BY <1>0, <2>1 DEF End
  <2>2. ASSUME NEW g, Advance(t, g) PROVE session'[s] = session[s]
    BY <1>0, <2>2 DEF Advance
  <2>3. CASE ReadOrder(t) \/ CheckReference(t) \/ CheckCredits(t) \/ WriteNote(t)
    BY <1>0, <2>1, <2>2, <2>3 DEF ReadOrder, CheckReference, CheckCredits, WriteNote
  <2>4. CASE LoadPayments(t) \/ LoadNotes(t) \/ CommitPayments(t) \/ CommitNote(t)
    BY <1>0, <2>1, <2>4 DEF LoadPayments, LoadNotes, CommitPayments, CommitNote
  <2>5. CASE LockOrder(t) \/ ViewForCash(t) \/ CommitCash(t) \/ Die(t)
    BY <1>0, <2>1, <2>5 DEF LockOrder, ViewForCash, View, CommitCash, Collected, Die
  <2>6. CASE ViewForDelivery(t) \/ CommitDelivery(t) \/ RefuseDelivery(t) \/ Cancel(t)
    BY <1>0, <2>1, <2>6
    DEF ViewForDelivery, View, CommitDelivery, Collected, RefuseDelivery, Cancel
  <2> QED  BY <1>4, <2>3, <2>4, <2>5, <2>6 DEF Step
<1>6. ASSUME NEW a, End(s, a) PROVE a = "refused"
  <2>1. session \in [Session -> [stage : Stage, loaded : PaymentStatus,
                                 payments : SUBSET accounts, notes : SUBSET notes]]
    BY <1>0 DEF TypeOK
  <2>2. session'[s].stage = a
    BY <1>6, <2>1 DEF End, Fresh
  <2> QED  BY <2>2
<1>7. LockOrder(s) \/ ViewForCash(s) \/ CommitCash(s)
  <2>1. ~Die(s)
    BY <1>6 DEF Die
  <2> QED  BY <1>4, <1>5, <2>1
     DEF Step, Serving, ReadOrder, CheckReference, CheckCredits, WriteNote, LoadPayments,
         LoadNotes, CommitPayments, CommitNote, ViewForDelivery, CommitDelivery, RefuseDelivery,
         Cancel
<1>8. CASE LockOrder(s)
  <2>1. session' = [session EXCEPT ![s].stage = "locked", ![s].loaded = paymentStatus[r.order]]
    BY <1>1, <1>8 DEF LockOrder
  <2>2. session'[s].stage = "locked"
    BY <1>0, <2>1 DEF TypeOK
  <2> QED  BY <2>2
<1>9. CASE ViewForCash(s)
  <2>1. \A q \in {q \in accounts : q.reference = r.reference} :
          q.order = r.order /\ q.by = r.by /\ q.amount = r.amount
    BY <1>2
  <2>2. {q \in accounts : q.reference = r.reference} # {}
    OBVIOUS
  <2>3. End(s, "answered")
    BY <1>9, <2>1, <2>2 DEF ViewForCash
  <2> QED  BY <1>6, <2>3
<1>10. CASE CommitCash(s)
  <2>1. session[s].payments = PaymentsOf(OrderOf(s)) /\ NoRetry(s) /\ session[s].stage = "viewed"
    BY <1>0, <1>10 DEF CommitCash, Serving, SessionInv, Viewed
  <2>2. p \in session[s].payments
    BY <1>0, <2>1 DEF PaymentsOf
  <2> QED  BY <2>1, <2>2 DEF NoRetry
<1> QED  BY <1>7, <1>8, <1>9, <1>10

\* A salesman's retry of an entered collection is never refused.
THEOREM RetriesAreAnswered == Spec => RetryIsAnswered
<1>1. IInv /\ [Next]_vars =>
        [\A s \in Session :
           /\ request[s].kind = "cash" /\ request[s].by = Creator[request[s].order]
           /\ session[s].stage # "refused" /\ session'[s].stage = "refused"
           => ~ \E p \in accounts :
                  /\ p.reference = request[s].reference /\ p.order = request[s].order
                  /\ p.by = request[s].by /\ p.amount = request[s].amount]_vars
  BY NoRetryIsRefused
<1> QED  BY <1>1, Invariant, PTL DEF Spec, RetryIsAnswered

-----------------------------------------------------------------------------
(* Credit notes whose lines name distinct SKUs.                            *)

\* The units of a note of which each SKU is on one line are those of the line.
LEMMA UnitsOfDistinctLines ==
  ASSUME NEW n \in Note, NEW s \in Sku,
         \A i, j \in DOMAIN n.lines : n.lines[i].sku = n.lines[j].sku => i = j
  PROVE  \/ UnitsOn(n, s) = 0
         \/ \E i \in DOMAIN n.lines : n.lines[i].sku = s /\ UnitsOn(n, s) = n.lines[i].quantity
<1> DEFINE of == {i \in DOMAIN n.lines : n.lines[i].sku = s}
           f == [i \in of |-> n.lines[i].quantity]
<1>1. UnitsOn(n, s) = Sum(f, of)
  BY DEF UnitsOn
<1>2. CASE of = {}
  <2>1. \A i \in of : f[i] = 0
    BY <1>2
  <2> HIDE DEF of, f
  <2>2. Sum(f, of) = 0
    BY <2>1, SumZero
  <2> QED  BY <1>1, <2>2
<1>3. CASE of # {}
  <2>1. PICK i \in DOMAIN n.lines : n.lines[i].sku = s
    BY <1>3
  <2>2. of = {i}
    BY <2>1
  <2>3. f[i] = n.lines[i].quantity
    BY <2>1
  <2>4. n.lines[i].quantity \in Nat
    BY LineTypes
  <2> HIDE DEF of, f
  <2>5. Sum(f, {i}) = n.lines[i].quantity
    BY <2>3, <2>4, SumOne
  <2> QED  BY <1>1, <2>1, <2>2, <2>5
<1> QED  BY <1>2, <1>3

\* A committed note credits no unit that was credited before.
LEMMA NoteFits ==
  ASSUME DistinctLines, IInvDistinct, NEW t \in Session, Pending(t), NEW s \in Sku
  PROVE  UnitsCredited(NotesOf(OrderOf(t)), s) + UnitsOn(NoteOf(t), s) <= Ordered[OrderOf(t)][s]
<1> DEFINE o == OrderOf(t)
           n == NoteOf(t)
           all == NotesOf(o)
<1>0. /\ IInv /\ TypeOK /\ SessionInv(t) /\ o \in Order /\ request[t] \in Request
      /\ request[t].kind = "note" /\ session[t].stage \in {"written", "viewed"}
      /\ session[t].notes = all
  BY OrderOfType DEF IInvDistinct, IInv, SessionInv, Abreast, Pending
<1>1. n \in Note /\ n \notin all /\ n.lines = request[t].lines
  BY <1>0, NewNote, RowsOf
<1>2. \A i, j \in DOMAIN n.lines : n.lines[i].sku = n.lines[j].sku => i = j
  BY <1>0, <1>1 DEF DistinctLines
<1>3. \A i \in DOMAIN n.lines : LineFits(o, all, n.lines[i])
  BY <1>0, <1>1 DEF SessionInv, Fits
<1>4. UnitsCredited(all, s) \in Nat /\ UnitsCredited(all, s) <= Ordered[o][s]
  <2>1. IsFiniteSet(all) /\ all \subseteq Note
    BY <1>0, RowsOf
  <2> HIDE DEF all, n
  <2>2. UnitsCredited(all, s) \in Nat
    BY <1>1, <2>1, UnitsCreditedAdd
  <2>3. UnitsCredited(all, s) <= Ordered[o][s]
    BY <1>0 DEF IInvDistinct, NeverOverCredited, all
  <2> QED  BY <2>2, <2>3
<1> HIDE DEF all, n, o
<1>5. CASE UnitsOn(n, s) = 0
  <2>1. UnitsCredited(all, s) + 0 = UnitsCredited(all, s)
    BY <1>4
  <2> QED  BY <1>4, <1>5, <2>1 DEF all, n, o
<1>6. ASSUME NEW i \in DOMAIN n.lines, n.lines[i].sku = s, UnitsOn(n, s) = n.lines[i].quantity
      PROVE  UnitsCredited(all, s) + UnitsOn(n, s) <= Ordered[o][s]
  BY <1>3, <1>6 DEF LineFits
<1>7. \/ UnitsOn(n, s) = 0
      \/ \E i \in DOMAIN n.lines : n.lines[i].sku = s /\ UnitsOn(n, s) = n.lines[i].quantity
  BY <1>1, <1>2, UnitsOfDistinctLines
<1> QED  BY <1>5, <1>6, <1>7 DEF all, n, o

\* The notes change when one is committed, and then by that one.
LEMMA NotesChange ==
  ASSUME [Next]_vars
  PROVE  notes' = notes \/ \E t \in Session : CommitNote(t)
<1>1. ASSUME NEW t \in Session, Step(t), ~CommitNote(t) PROVE notes' = notes
  BY <1>1
  DEF Step, tables, ReadOrder, CheckReference, CheckCredits, WriteNote, LoadPayments, LoadNotes,
      CommitPayments, LockOrder, ViewForCash, CommitCash, ViewForDelivery, CommitDelivery,
      RefuseDelivery, Cancel
<1> QED  BY <1>1 DEF Next, Book, Die, Idle, vars, tables

LEMMA DistinctInvariantIsKept ==
  ASSUME DistinctLines, IInvDistinct, [Next]_vars
  PROVE  IInvDistinct'
<1>0. IInv /\ TypeOK /\ NeverOverCredited /\ IInv'
  BY InvariantIsKept DEF IInvDistinct, IInv
<1>1. CASE notes' = notes
  BY <1>0, <1>1 DEF IInvDistinct, NeverOverCredited, NotesOf
<1>2. ASSUME NEW t \in Session, CommitNote(t) PROVE NeverOverCredited'
  <2> DEFINE n == NoteOf(t)
  <2>1. Pending(t) /\ notes' = notes \cup {n}
    BY <1>2 DEF CommitNote, Serving, Pending
  <2>2. n \in Note /\ n \notin notes /\ n.order = OrderOf(t)
    BY <1>0, <2>1, NewNote
  <2> HIDE DEF n
  <2> SUFFICES ASSUME NEW o \in Order, NEW s \in Sku
               PROVE  UnitsCredited(NotesOf(o)', s) <= Ordered[o][s]
    BY DEF NeverOverCredited
  <2>3. CASE o # OrderOf(t)
    <3>1. NotesOf(o)' = NotesOf(o)
      BY <2>1, <2>2, <2>3 DEF NotesOf
    <3> QED  BY <1>0, <3>1 DEF NeverOverCredited
  <2>4. CASE o = OrderOf(t)
    <3>1. NotesOf(o)' = NotesOf(o) \cup {n}
      BY <2>1, <2>2, <2>4 DEF NotesOf
    <3>2. IsFiniteSet(NotesOf(o)) /\ NotesOf(o) \subseteq Note /\ n \notin NotesOf(o)
      BY <1>0, <2>2, RowsOf
    <3>3. UnitsCredited(NotesOf(o) \cup {n}, s) = UnitsCredited(NotesOf(o), s) + UnitsOn(n, s)
      BY <2>2, <3>2, UnitsCreditedAdd
    <3>4. UnitsCredited(NotesOf(o), s) + UnitsOn(n, s) <= Ordered[o][s]
      BY <2>1, <2>4, NoteFits DEF n
    <3> QED  BY <3>1, <3>3, <3>4
  <2> QED  BY <2>3, <2>4
<1> QED  BY <1>0, <1>1, <1>2, NotesChange DEF IInvDistinct

\* At first nothing is credited.
LEMMA NothingCreditedAtFirst == Init => NeverOverCredited
<1> SUFFICES ASSUME Init, NEW o \in Order, NEW s \in Sku
             PROVE  UnitsCredited(NotesOf(o), s) <= Ordered[o][s]
  BY DEF NeverOverCredited
<1>1. NotesOf(o) = {}
  BY DEF Init, NotesOf
<1>2. Ordered[o][s] \in Nat
  BY MoneyAssumption
<1> DEFINE f == [n \in {} |-> UnitsOn(n, s)]
<1>3. \A n \in {} : f[n] = 0
  OBVIOUS
<1> HIDE DEF f
<1>4. Sum(f, {}) = 0
  BY <1>3, SumZero
<1>5. UnitsCredited({}, s) = 0
  BY <1>4 DEF UnitsCredited, f
<1> QED  BY <1>1, <1>2, <1>5

LEMMA DistinctInvariant ==
  ASSUME DistinctLines
  PROVE  Spec => []IInvDistinct
<1>1. Init => IInvDistinct
  BY InvariantHoldsAtFirst, NothingCreditedAtFirst DEF IInvDistinct
<1>2. IInvDistinct /\ [Next]_vars => IInvDistinct'
  BY DistinctInvariantIsKept
<1> QED  BY <1>1, <1>2, PTL DEF Spec

\* No unit is credited twice by notes that name each SKU on one line.
THEOREM NoUnitIsCreditedTwice ==
  ASSUME DistinctLines
  PROVE  Spec => []NeverOverCredited
<1>1. IInvDistinct => NeverOverCredited
  BY DEF IInvDistinct
<1> QED  BY <1>1, DistinctInvariant, PTL

-----------------------------------------------------------------------------
(* The requests implement the promise of the accounts.                     *)

LEMMA LedgerRows ==
  ASSUME NEW o
  PROVE  Ledger!PaymentsOf(o) = PaymentsOf(o) /\ Ledger!NotesOf(o) = NotesOf(o)
BY DEF Ledger!PaymentsOf, Ledger!NotesOf, PaymentsOf, NotesOf

\* Payments of the office, with references that nothing has.
LEMMA Entered ==
  ASSUME IInv, NEW t \in Session, CommitPayments(t), notes' = notes
  PROVE  [Ledger!Next]_<<accounts, notes>>
<1> DEFINE ps == NewPayments(t)
<1>0. TypeOK /\ request[t].kind \in {"payment", "payments"}
  BY DEF IInv, CommitPayments, Serving
<1>1. CASE accounts' = accounts
  BY <1>1
<1>2. CASE accounts' # accounts
  <2>1. accounts' = accounts \cup ps /\ \A p \in ps : ~ReferenceUsed(p.reference)
    BY <1>2 DEF CommitPayments
  <2>2. /\ \A p \in ps : p.entry = "office"
        /\ \A p, q \in ps : p.reference = q.reference => p = q
    BY <1>0, NewPaymentsType
  <2> HIDE DEF ps
  <2>3. accounts' \ accounts = ps
    BY <2>1 DEF ReferenceUsed
  <2>4. Ledger!NewReferences(ps)
    BY <2>1, <2>2 DEF Ledger!NewReferences, ReferenceUsed
  <2>5. Ledger!Enter(accounts' \ accounts)
    BY <2>1, <2>2, <2>3, <2>4 DEF Ledger!Enter
  <2> QED  BY <2>5 DEF Ledger!Next
<1> QED  BY <1>1, <1>2

\* A payment collected by a session that has seen all there is.
LEMMA CollectedIsDue ==
  ASSUME IInv, NEW t \in Session, NEW amount, NEW reference, NEW entry, NEW by,
         Collected(t, amount, reference, entry, by), notes' = notes,
         session[t].payments = PaymentsOf(OrderOf(t)), session[t].notes = NotesOf(OrderOf(t))
  PROVE  Ledger!Next
<1> DEFINE o == OrderOf(t)
           p == [order |-> o, reference |-> reference, entry |-> entry, by |-> by,
                 amount |-> AmountTaken(o, session[t].payments, session[t].notes, amount)]
<1>1. /\ Takes(o, session[t].payments, session[t].notes, amount)
      /\ ~ReferenceUsed(reference) /\ accounts' = accounts \cup {p}
  BY DEF Collected, OrderOf
<1>2. /\ p.order = o /\ p.reference = reference
      /\ p.amount <= Outstanding(o, PaymentsOf(o), NotesOf(o))
  BY <1>1 DEF Takes
<1> HIDE DEF p, o
<1>3. p \notin accounts
  BY <1>1, <1>2 DEF ReferenceUsed
<1>4. Ledger!NewReferences({p})
  BY <1>1, <1>2 DEF Ledger!NewReferences, ReferenceUsed
<1>5. Ledger!Collect(p)
  BY <1>1, <1>2, <1>4, LedgerRows DEF Ledger!Collect
<1> QED  BY <1>1, <1>3, <1>5 DEF Ledger!Next

LEMMA BookedIsDue ==
  ASSUME IInv, NEW o \in Order, Book(o)
  PROVE  [Ledger!Next]_<<accounts, notes>>
<1>1. PaymentsOf(o) = {} /\ NotesOf(o) = {} /\ notes' = notes
  BY Deposited DEF Book
<1>2. PICK ps \in SUBSET Payment :
        /\ accounts' = accounts \cup ps
        /\ \A p \in ps : /\ p.order = o /\ ~ReferenceUsed(p.reference)
                        /\ p.amount <= Outstanding(o, {}, {})
        /\ \A p, q \in ps : p = q
  BY Deposited
<1>3. CASE ps = {}
  BY <1>1, <1>2, <1>3
<1>4. ASSUME NEW p \in ps PROVE Ledger!Next
  <2>1. accounts' = accounts \cup {p} /\ p \notin accounts
    BY <1>2 DEF ReferenceUsed
  <2>2. Ledger!NewReferences({p})
    BY <1>2 DEF Ledger!NewReferences, ReferenceUsed
  <2>3. p.amount <= Outstanding(p.order, PaymentsOf(p.order), NotesOf(p.order))
    BY <1>1, <1>2
  <2>4. Ledger!Collect(p)
    BY <1>1, <2>1, <2>2, <2>3, LedgerRows DEF Ledger!Collect
  <2> QED  BY <2>1, <2>4 DEF Ledger!Next
<1> QED  BY <1>3, <1>4

LEMMA CommittedNoteReverses ==
  ASSUME DistinctLines, IInvDistinct, NEW t \in Session, CommitNote(t)
  PROVE  Ledger!Next
<1> DEFINE n == NoteOf(t)
<1>0. /\ IInv /\ Pending(t) /\ notes' = notes \cup {n} /\ accounts' = accounts
      /\ OrderOf(t) \in Order
  BY OrderOfType DEF CommitNote, Serving, Pending, IInvDistinct, IInv
<1>1. /\ n \notin notes /\ n.order = OrderOf(t)
      /\ \A m \in NotesOf(OrderOf(t)) : m.number # n.number
  BY <1>0, NewNote
<1>2. \A s \in Sku :
        UnitsCredited(NotesOf(OrderOf(t)), s) + UnitsOn(n, s) <= Ordered[OrderOf(t)][s]
  BY <1>0, NoteFits
<1> HIDE DEF n
<1>3. DOMAIN Ordered[n.order] = Sku
  BY <1>0, <1>1, MoneyAssumption
<1>4. Ledger!Reverse(n)
  BY <1>0, <1>1, <1>2, <1>3, LedgerRows DEF Ledger!Reverse
<1>5. n \in notes' \ notes
  BY <1>0, <1>1
<1> QED  BY <1>4, <1>5 DEF Ledger!Next

\* Every step of the requests is an entry the accounts allow, or none.
LEMMA StepsAreEntries ==
  ASSUME DistinctLines, IInvDistinct, [Next]_vars
  PROVE  [Ledger!Next]_<<accounts, notes>>
<1>0. IInv
  BY DEF IInvDistinct
<1>1. ASSUME NEW o \in Order, Book(o) PROVE [Ledger!Next]_<<accounts, notes>>
  BY <1>0, <1>1, BookedIsDue
<1>2. ASSUME NEW t \in Session, CommitPayments(t) PROVE [Ledger!Next]_<<accounts, notes>>
  <2>1. notes' = notes
    BY <1>2 DEF CommitPayments
  <2> QED  BY <1>0, <1>2, <2>1, Entered
<1>3. ASSUME NEW t \in Session, CommitNote(t) PROVE [Ledger!Next]_<<accounts, notes>>
  BY <1>3, CommittedNoteReverses
<1>4. ASSUME NEW t \in Session, Serving(t, {"cash", "delivery"}, "viewed")
      PROVE  /\ session[t].payments = PaymentsOf(OrderOf(t))
             /\ session[t].notes = NotesOf(OrderOf(t))
  BY <1>0, <1>4 DEF IInv, SessionInv, Viewed, Serving
<1>5. ASSUME NEW t \in Session, CommitCash(t) PROVE [Ledger!Next]_<<accounts, notes>>
  <2>1. Serving(t, {"cash", "delivery"}, "viewed") /\ notes' = notes
    BY <1>5 DEF CommitCash, Serving
  <2>2. \/ accounts' = accounts
        \/ Collected(t, request[t].amount, request[t].reference, "cash", request[t].by)
    BY <1>5 DEF CommitCash
  <2> QED  BY <1>0, <1>4, <2>1, <2>2, CollectedIsDue
<1>6. ASSUME NEW t \in Session, CommitDelivery(t) PROVE [Ledger!Next]_<<accounts, notes>>
  <2>1. Serving(t, {"cash", "delivery"}, "viewed") /\ notes' = notes
    BY <1>6 DEF CommitDelivery, Serving
  <2>2. \/ accounts' = accounts
        \/ Collected(t, request[t].amount, Generated(1), "delivery", NoSalesman)
    BY <1>6 DEF CommitDelivery
  <2> QED  BY <1>0, <1>4, <2>1, <2>2, CollectedIsDue
<1>7. ASSUME NEW t \in Session, Step(t), ~CommitPayments(t), ~CommitNote(t), ~CommitCash(t),
             ~CommitDelivery(t)
      PROVE  accounts' = accounts /\ notes' = notes
  BY <1>7
  DEF Step, tables, ReadOrder, CheckReference, CheckCredits, WriteNote, LoadPayments, LoadNotes,
      LockOrder, ViewForCash, ViewForDelivery, RefuseDelivery, Cancel
<1>8. ASSUME NEW t \in Session, Die(t) PROVE accounts' = accounts /\ notes' = notes
  BY <1>8 DEF Die, tables
<1>9. CASE UNCHANGED vars
  BY <1>9 DEF vars, tables
<1> QED  BY <1>1, <1>2, <1>3, <1>5, <1>6, <1>7, <1>8, <1>9 DEF Next, Idle

\* The requests implement the promise of the accounts, when credit notes name
\* each SKU on one line.
THEOREM TheLedgerIsKept ==
  ASSUME DistinctLines
  PROVE  Spec => KeepsTheLedger
<1>1. Init => Ledger!Init
  BY DEF Init, Ledger!Init
<1>2. IInvDistinct /\ [Next]_vars => [Ledger!Next]_<<accounts, notes>>
  BY StepsAreEntries
<1> QED  BY <1>1, <1>2, DistinctInvariant, PTL DEF Spec, KeepsTheLedger, Ledger!Spec

-----------------------------------------------------------------------------
(* The reports, of every state the requests reach.                         *)

BookedOrders == {o \in Order : status[o] # "ABSENT"}

\* What is booked stays finite: no step books more than one order.
LEMMA FinitelyManyBooked == Spec => []IsFiniteSet(BookedOrders)
<1>1. Init => IsFiniteSet(BookedOrders)
  <2> SUFFICES ASSUME Init PROVE IsFiniteSet(BookedOrders)
    OBVIOUS
  <2>1. BookedOrders = {}
    BY DEF Init, BookedOrders
  <2> QED  BY <2>1, FS_EmptySet
<1>2. IInv /\ IsFiniteSet(BookedOrders) /\ [Next]_vars => IsFiniteSet(BookedOrders)'
  <2> SUFFICES ASSUME IInv, IsFiniteSet(BookedOrders), [Next]_vars
               PROVE  IsFiniteSet(BookedOrders')
    OBVIOUS
  <2>1. PICK o : \A q \in Order \ {o} : status'[q] = status[q]
    <3>1. CASE UNCHANGED status
      BY <3>1
    <3>2. CASE \E q \in Order : Book(q)
      BY <3>2 DEF Book, IInv, TypeOK
    <3>3. CASE \E s \in Session : CommitDelivery(s) \/ Cancel(s)
      BY <3>3 DEF CommitDelivery, Cancel, IInv, TypeOK
    <3> QED  BY <3>1, <3>2, <3>3
             DEF Next, Step, Idle, Die, vars, tables, ReadOrder, CheckReference, CheckCredits,
                 WriteNote, LoadPayments, LoadNotes, CommitPayments, CommitNote, LockOrder,
                 ViewForCash, CommitCash, ViewForDelivery, RefuseDelivery
  <2>2. BookedOrders' \subseteq BookedOrders \cup {o}
    BY <2>1 DEF BookedOrders
  <2>3. IsFiniteSet(BookedOrders \cup {o})
    BY FS_AddElement
  <2> QED  BY <2>2, <2>3, FS_Subset
<1> QED  BY <1>1, <1>2, Invariant, PTL DEF Spec

\* What the reports may take for granted: the tables as the requests keep them.
Reportable ==
  /\ TypeOK /\ Booked /\ PaidIsSettled
  /\ IsFiniteSet(BookedOrders)

\* Nothing is entered after today, nor before the first day.
EntriesAreDated == \A x \in Payment \cup Note : EnteredOn(x) \in 0 .. Today

\* The orders of all days are those booked.
LEMMA AllChosen == Chosen(AllDays) = BookedOrders
<1>1. \A o \in Order : Booking[o].day \in 0 .. Today
  BY ReportsAssumption DEF BookingRow
<1> QED  BY <1>1, ReportsAssumption DEF Chosen, AllDays, InRange, BookedOrders

\* What an order owes is a natural number and at most its bill, and what was
\* collected for it is a natural number.
LEMMA OwesType ==
  ASSUME TypeOK, NEW o \in Order
  PROVE  /\ Owes(o) \in Nat /\ Bill[o] \in Nat /\ Owes(o) <= Bill[o]
         /\ Amount(PaymentsOf(o)) \in Nat
<1>1. /\ accounts \subseteq Payment /\ IsFiniteSet(accounts)
      /\ notes \subseteq Note /\ IsFiniteSet(notes)
  BY DEF TypeOK
<1>2. PaymentsOf(o) \subseteq accounts /\ NotesOf(o) \subseteq notes
  BY DEF PaymentsOf, NotesOf
<1>3. Amount(PaymentsOf(o)) \in Nat
  BY <1>1, <1>2, AmountGrows
<1>4. Credit(NotesOf(o)) \in Nat
  BY <1>1, <1>2, CreditGrows
<1>5. Bill[o] \in Nat
  BY MoneyAssumption
<1> QED  BY <1>3, <1>4, <1>5 DEF Owes, Outstanding

\* The figures are those of groups of S, one for each key.
SumsOfGroups(figures, amount, S, key) ==
  /\ DOMAIN figures = {key[x] : x \in S}
  /\ \A k \in DOMAIN figures : figures[k] = Sum(amount, {x \in S : key[x] = k})
SizesOfGroups(figures, S, key) ==
  /\ DOMAIN figures = {key[x] : x \in S}
  /\ \A k \in DOMAIN figures : figures[k] = Cardinality({x \in S : key[x] = k})

\* The figures of the groups of S add up to the figure of S.
LEMMA GroupsAddUp ==
  ASSUME NEW S, IsFiniteSet(S), NEW amount, \A x \in S : amount[x] \in Nat, NEW key,
         NEW figures, SumsOfGroups(figures, amount, S, key)
  PROVE  AddUp(figures) = Sum(amount, S)
<1> DEFINE K == DOMAIN figures
           g == [k \in K |-> figures[k]]
<1>1. Sorted(S, key, K)
  BY DEF Sorted, SumsOfGroups
<1>2. SumsOfParts(g, amount, S, key, K)
  BY DEF SumsOfParts, SumsOfGroups
<1>3. AddUp(figures) = Sum(g, K)
  BY DEF AddUp, SumOf
<1> HIDE DEF g, K
<1> QED  BY <1>1, <1>2, <1>3, SumParts

\* Groups that are counted add up to the number of all.
LEMMA CountsAddUp ==
  ASSUME NEW S, IsFiniteSet(S), NEW key, NEW figures, SizesOfGroups(figures, S, key)
  PROVE  AddUp(figures) = Cardinality(S)
<1> DEFINE one == [x \in S |-> 1]
<1>1. \A x \in S : one[x] = 1 /\ one[x] \in Nat
  OBVIOUS
<1> HIDE DEF one
<1>2. ASSUME NEW k \in DOMAIN figures
      PROVE  figures[k] = Sum(one, {x \in S : key[x] = k})
  <2>1. IsFiniteSet({x \in S : key[x] = k})
    BY FS_Subset
  <2>2. Sum(one, {x \in S : key[x] = k}) = Cardinality({x \in S : key[x] = k})
    BY <1>1, <2>1, SumOnes
  <2> QED  BY <2>2 DEF SizesOfGroups
<1>3. SumsOfGroups(figures, one, S, key)
  BY <1>2 DEF SumsOfGroups, SizesOfGroups
<1>4. AddUp(figures) = Sum(one, S)
  BY <1>1, <1>3, GroupsAddUp
<1> QED  BY <1>1, <1>4, SumOnes

-----------------------------------------------------------------------------
(* What each report says.                                                  *)

\* The outstanding list holds the delivered orders that owe, and no others.
LEMMA ListedOrdersOwe ==
  ASSUME Reportable
  PROVE  \A row \in OrdersPage(AllDays) :
           status[row.order] = "DELIVERED" =>
             /\ row.order \in OutstandingOrders(AllDays) <=> row.pending > 0
             /\ row.order \in OutstandingOrders(AllDays)
                  <=> OrderDetail(row.order, Creator[row.order]).canCollect
<1> SUFFICES ASSUME NEW o \in Chosen(AllDays), status[o] = "DELIVERED"
             PROVE  /\ o \in OutstandingOrders(AllDays) <=> Owes(o) > 0
                    /\ OrderDetail(o, Creator[o]).canCollect <=> Owes(o) > 0
  BY DEF OrdersPage
<1>1. o \in Order /\ TypeOK /\ PaidIsSettled
  BY DEF Chosen, Reportable
<1>2. Owes(o) \in Nat /\ paymentStatus[o] \in {"CREDIT", "PARTIAL", "PAID"}
  BY <1>1, OwesType DEF TypeOK, PaymentStatus
<1>3. paymentStatus[o] = "PAID" => Owes(o) = 0
  BY <1>1 DEF PaidIsSettled, Owes
<1>4. o \in OutstandingOrders(AllDays) <=> Owes(o) > 0
  BY <1>1, <1>2, <1>3 DEF OutstandingOrders, Unsettled
<1>5. OrderDetail(o, Creator[o]).canCollect <=> Owes(o) > 0
  BY DEF OrderDetail
<1> QED  BY <1>4, <1>5

\* Listed orders are booked, and finitely many.
LEMMA ListedFinite ==
  ASSUME Reportable
  PROVE  /\ IsFiniteSet(OutstandingOrders(AllDays))
         /\ OutstandingOrders(AllDays) \subseteq Chosen(AllDays)
         /\ IsFiniteSet(Chosen(AllDays)) /\ Chosen(AllDays) \subseteq Order
<1>1. IsFiniteSet(Chosen(AllDays)) /\ Chosen(AllDays) \subseteq Order
  BY AllChosen DEF Reportable, BookedOrders
<1>2. OutstandingOrders(AllDays) \subseteq Chosen(AllDays)
  BY DEF OutstandingOrders, Unsettled
<1> QED  BY <1>1, <1>2, FS_Subset

\* The outstanding report adds up by age, by salesman and by shop, to no more
\* than the dashboard calls outstanding.
LEMMA OutstandingAddsUp ==
  ASSUME Reportable
  PROVE  LET due == OutstandingSummary(AllDays) IN
         /\ due.total <= AdminSummary(AllDays).outstanding
         /\ AddUp(due.aging) = due.total /\ AddUp(due.bySalesman) = due.total
         /\ AddUp(due.byRetailer) = due.total
<1> DEFINE S == OutstandingOrders(AllDays)
           due == OutstandingSummary(AllDays)
           open == {o \in Chosen(AllDays) : paymentStatus[o] # "PAID"}
           owed == [o \in S |-> Owes(o)]
           bill == [o \in open |-> Bill[o]]
           age == [o \in S |-> Age(o)]
           salesman == [o \in S |-> Booking[o].salesman]
           retailer == [o \in S |-> Booking[o].retailer]
<1>1. IsFiniteSet(S) /\ S \subseteq open /\ IsFiniteSet(open) /\ open \subseteq Order
  <2>1. S \subseteq open
    BY DEF OutstandingOrders, Unsettled
  <2>2. open \subseteq Chosen(AllDays)
    OBVIOUS
  <2>3. IsFiniteSet(Chosen(AllDays)) /\ IsFiniteSet(S) /\ Chosen(AllDays) \subseteq Order
    BY ListedFinite
  <2> QED  BY <2>1, <2>2, <2>3, FS_Subset
<1>2. \A o \in S : owed[o] \in Nat /\ bill[o] \in Nat /\ owed[o] <= bill[o]
  BY <1>1, OwesType DEF Reportable
<1>3. \A o \in open : bill[o] \in Nat
  BY <1>1, OwesType DEF Reportable
<1>4. due.total = Sum(owed, S)
  BY DEF OutstandingSummary, SumOf
<1>5. AdminSummary(AllDays).outstanding = Sum(bill, open)
  BY DEF AdminSummary, Revenue, TotalAmount, SumOf
<1>6. AddUp(due.aging) = due.total
  <2>1. SumsOfGroups(due.aging, owed, S, age)
    <3>1. DOMAIN due.aging = {age[o] : o \in S}
      BY DEF OutstandingSummary, Figures, Groups
    <3>2. ASSUME NEW k \in DOMAIN due.aging
          PROVE  due.aging[k] = Sum(owed, {o \in S : age[o] = k})
      <4> DEFINE part == {o \in S : Age(o) = k}
      <4>1. due.aging[k] = Sum([o \in part |-> Owes(o)], part)
        BY <3>1 DEF OutstandingSummary, Figures, Groups, SumOf
      <4>2. part = {o \in S : age[o] = k}
        OBVIOUS
      <4>3. \A o \in part : [p \in part |-> Owes(p)][o] = owed[o]
        OBVIOUS
      <4> HIDE DEF part, owed
      <4> QED  BY <4>1, <4>2, <4>3, SumCong
    <3> QED  BY <3>1, <3>2 DEF SumsOfGroups
  <2> HIDE DEF S, due, owed, age
  <2> QED  BY <1>1, <1>2, <1>4, <2>1, GroupsAddUp
<1>7. AddUp(due.bySalesman) = due.total
  <2>1. SumsOfGroups(due.bySalesman, owed, S, salesman)
    <3>1. DOMAIN due.bySalesman = {salesman[o] : o \in S}
      BY DEF OutstandingSummary, Figures, Groups
    <3>2. ASSUME NEW k \in DOMAIN due.bySalesman
          PROVE  due.bySalesman[k] = Sum(owed, {o \in S : salesman[o] = k})
      <4> DEFINE part == {o \in S : Booking[o].salesman = k}
      <4>1. due.bySalesman[k] = Sum([o \in part |-> Owes(o)], part)
        BY <3>1 DEF OutstandingSummary, Figures, Groups, SumOf
      <4>2. part = {o \in S : salesman[o] = k}
        OBVIOUS
      <4>3. \A o \in part : [p \in part |-> Owes(p)][o] = owed[o]
        OBVIOUS
      <4> HIDE DEF part, owed
      <4> QED  BY <4>1, <4>2, <4>3, SumCong
    <3> QED  BY <3>1, <3>2 DEF SumsOfGroups
  <2> HIDE DEF S, due, owed, salesman
  <2> QED  BY <1>1, <1>2, <1>4, <2>1, GroupsAddUp
<1>8. AddUp(due.byRetailer) = due.total
  <2>1. SumsOfGroups(due.byRetailer, owed, S, retailer)
    <3>1. DOMAIN due.byRetailer = {retailer[o] : o \in S}
      BY DEF OutstandingSummary, Figures, Groups
    <3>2. ASSUME NEW k \in DOMAIN due.byRetailer
          PROVE  due.byRetailer[k] = Sum(owed, {o \in S : retailer[o] = k})
      <4> DEFINE part == {o \in S : Booking[o].retailer = k}
      <4>1. due.byRetailer[k] = Sum([o \in part |-> Owes(o)], part)
        BY <3>1 DEF OutstandingSummary, Figures, Groups, SumOf
      <4>2. part = {o \in S : retailer[o] = k}
        OBVIOUS
      <4>3. \A o \in part : [p \in part |-> Owes(p)][o] = owed[o]
        OBVIOUS
      <4> HIDE DEF part, owed
      <4> QED  BY <4>1, <4>2, <4>3, SumCong
    <3> QED  BY <3>1, <3>2 DEF SumsOfGroups
  <2> HIDE DEF S, due, owed, retailer
  <2> QED  BY <1>1, <1>2, <1>4, <2>1, GroupsAddUp
<1>9. due.total <= AdminSummary(AllDays).outstanding
  <2> HIDE DEF S, open, owed, bill
  <2>1. Sum(owed, S) <= Sum(bill, S)
    BY <1>1, <1>2, SumMonotone
  <2>2. Sum(bill, S) <= Sum(bill, open)
    BY <1>1, <1>3, SumSubset
  <2>3. Sum(owed, S) \in Nat /\ Sum(bill, S) \in Nat /\ Sum(bill, open) \in Nat
    BY <1>1, <1>2, <1>3, SumType
  <2> QED  BY <1>4, <1>5, <2>1, <2>2, <2>3
<1> QED  BY <1>6, <1>7, <1>8, <1>9

\* The numbers of the dashboard, of each status and of each salesman add up to
\* the number of all orders.
LEMMA NumbersAddUp ==
  ASSUME Reportable
  PROVE  LET board == AdminSummary(AllDays)
             people == SalesmanPerformance(AllDays)
         IN
         /\ SumOf(LAMBDA s : people[s].orders, DOMAIN people) = board.total
         /\ AddUp(board.paymentStatus) = board.total /\ AddUp(StatusSummary(AllDays)) = board.total
         /\ AddUp(board.byWarehouse) = board.total /\ AddUp(board.overTime) = board.total
<1> DEFINE S == Chosen(AllDays)
           board == AdminSummary(AllDays)
           people == SalesmanPerformance(AllDays)
           orders == [s \in DOMAIN people |-> people[s].orders]
           payment == [o \in S |-> paymentStatus[o]]
           stage == [o \in S |-> status[o]]
           warehouse == [o \in S |-> Booking[o].warehouse]
           day == [o \in S |-> Booking[o].day]
           salesman == [o \in S |-> Booking[o].salesman]
<1>1. IsFiniteSet(S)
  BY ListedFinite
<1>2. board.total = Cardinality(S)
  BY DEF AdminSummary
<1>3. AddUp(board.paymentStatus) = board.total
  <2>1. SizesOfGroups(board.paymentStatus, S, payment)
    <3>1. DOMAIN board.paymentStatus = {payment[o] : o \in S}
      BY DEF AdminSummary, Figures, Groups
    <3>2. ASSUME NEW k \in DOMAIN board.paymentStatus
          PROVE  board.paymentStatus[k] = Cardinality({o \in S : payment[o] = k})
      <4>1. {o \in S : paymentStatus[o] = k} = {o \in S : payment[o] = k}
        OBVIOUS
      <4>2. board.paymentStatus[k] = Cardinality({o \in S : paymentStatus[o] = k})
        BY <3>1 DEF AdminSummary, Figures, Groups
      <4> QED  BY <4>1, <4>2
    <3> QED  BY <3>1, <3>2 DEF SizesOfGroups
  <2> HIDE DEF S, board, payment
  <2> QED  BY <1>1, <1>2, <2>1, CountsAddUp
<1>4. AddUp(StatusSummary(AllDays)) = board.total
  <2>1. SizesOfGroups(StatusSummary(AllDays), S, stage)
    <3>1. DOMAIN StatusSummary(AllDays) = {stage[o] : o \in S}
      BY DEF StatusSummary, Figures, Groups
    <3>2. ASSUME NEW k \in DOMAIN StatusSummary(AllDays)
          PROVE  StatusSummary(AllDays)[k] = Cardinality({o \in S : stage[o] = k})
      <4>1. {o \in S : status[o] = k} = {o \in S : stage[o] = k}
        OBVIOUS
      <4>2. StatusSummary(AllDays)[k] = Cardinality({o \in S : status[o] = k})
        BY <3>1 DEF StatusSummary, Figures, Groups
      <4> QED  BY <4>1, <4>2
    <3> QED  BY <3>1, <3>2 DEF SizesOfGroups
  <2> HIDE DEF S, board, stage
  <2> QED  BY <1>1, <1>2, <2>1, CountsAddUp
<1>5. AddUp(board.byWarehouse) = board.total
  <2>1. SizesOfGroups(board.byWarehouse, S, warehouse)
    <3>1. DOMAIN board.byWarehouse = {warehouse[o] : o \in S}
      BY DEF AdminSummary, Figures, Groups
    <3>2. ASSUME NEW k \in DOMAIN board.byWarehouse
          PROVE  board.byWarehouse[k] = Cardinality({o \in S : warehouse[o] = k})
      <4>1. {o \in S : Booking[o].warehouse = k} = {o \in S : warehouse[o] = k}
        OBVIOUS
      <4>2. board.byWarehouse[k] = Cardinality({o \in S : Booking[o].warehouse = k})
        BY <3>1 DEF AdminSummary, Figures, Groups
      <4> QED  BY <4>1, <4>2
    <3> QED  BY <3>1, <3>2 DEF SizesOfGroups
  <2> HIDE DEF S, board, warehouse
  <2> QED  BY <1>1, <1>2, <2>1, CountsAddUp
<1>6. AddUp(board.overTime) = board.total
  <2>1. SizesOfGroups(board.overTime, S, day)
    <3>1. DOMAIN board.overTime = {day[o] : o \in S}
      BY DEF AdminSummary, Figures, Groups
    <3>2. ASSUME NEW k \in DOMAIN board.overTime
          PROVE  board.overTime[k] = Cardinality({o \in S : day[o] = k})
      <4>1. {o \in S : Booking[o].day = k} = {o \in S : day[o] = k}
        OBVIOUS
      <4>2. board.overTime[k] = Cardinality({o \in S : Booking[o].day = k})
        BY <3>1 DEF AdminSummary, Figures, Groups
      <4> QED  BY <4>1, <4>2
    <3> QED  BY <3>1, <3>2 DEF SizesOfGroups
  <2> HIDE DEF S, board, day
  <2> QED  BY <1>1, <1>2, <2>1, CountsAddUp
<1>7. AddUp(orders) = board.total
  <2>1. SizesOfGroups(orders, S, salesman)
    <3>1. DOMAIN orders = {salesman[o] : o \in S}
      BY DEF SalesmanPerformance, Figures, Groups
    <3>2. ASSUME NEW k \in DOMAIN orders
          PROVE  orders[k] = Cardinality({o \in S : salesman[o] = k})
      <4>1. {o \in S : Booking[o].salesman = k} = {o \in S : salesman[o] = k}
        OBVIOUS
      <4>2. orders[k] = Cardinality({o \in S : Booking[o].salesman = k})
        BY <3>1 DEF SalesmanPerformance, Figures, Groups
      <4> QED  BY <4>1, <4>2
    <3> QED  BY <3>1, <3>2 DEF SizesOfGroups
  <2> HIDE DEF S, board, salesman, orders
  <2> QED  BY <1>1, <1>2, <2>1, CountsAddUp
<1>8. AddUp(orders) = SumOf(LAMBDA s : people[s].orders, DOMAIN people)
  <2>1. \A s \in DOMAIN people : orders[s] = people[s].orders
    OBVIOUS
  <2>2. DOMAIN orders = DOMAIN people
    OBVIOUS
  <2> HIDE DEF orders, people
  <2>3. Sum([s \in DOMAIN people |-> orders[s]], DOMAIN people)
          = Sum([s \in DOMAIN people |-> people[s].orders], DOMAIN people)
    BY <2>1, SumCong
  <2> QED  BY <2>2, <2>3 DEF AddUp, SumOf
<1> QED  BY <1>3, <1>4, <1>5, <1>6, <1>7, <1>8

\* What a payment reports, and that all payments are of all days.
LEMMA AllPayments ==
  ASSUME Reportable, EntriesAreDated
  PROVE  /\ PaymentsIn(AllDays) = accounts /\ IsFiniteSet(accounts)
         /\ \A p \in accounts :
              /\ p.amount \in Nat /\ EnteredOn(p) \in 0 .. Today
              /\ p.order \in BookedOrders
<1>1. accounts \subseteq Payment /\ IsFiniteSet(accounts)
  BY DEF Reportable, TypeOK
<1>2. \A p \in accounts : p.amount \in Nat /\ p.order \in Order /\ EnteredOn(p) \in 0 .. Today
  BY <1>1 DEF Payment, EntriesAreDated
<1>3. \A p \in accounts : p.order \in BookedOrders
  BY <1>2 DEF Reportable, Booked, BookedOrders
<1>4. PaymentsIn(AllDays) = accounts
  BY <1>2, ReportsAssumption DEF PaymentsIn, InRange, AllDays
<1> QED  BY <1>1, <1>2, <1>3, <1>4

\* Sales by day add up to the revenue of the dashboard, and what the orders
\* have collected is what the payments add up to.
LEMMA SalesAddUp ==
  ASSUME Reportable, EntriesAreDated
  PROVE  LET sales == DailySales(AllDays)
             board == AdminSummary(AllDays)
         IN
         /\ sales.total.amount = board.revenue
         /\ sales.total.collected = Payments(AllDays).total
         /\ SumOf(LAMBDA d : sales.days[d].amount, DOMAIN sales.days) = board.revenue
<1> DEFINE S == Chosen(AllDays)
           sales == DailySales(AllDays)
           bill == [o \in S |-> Bill[o]]
           day == [o \in S |-> Booking[o].day]
           amounts == [d \in DOMAIN sales.days |-> sales.days[d].amount]
           paid == [p \in accounts |-> p.amount]
           order == [p \in accounts |-> p.order]
           collected == [o \in S |-> Amount(PaymentsOf(o))]
<1>1. IsFiniteSet(S) /\ S = BookedOrders /\ \A o \in S : bill[o] \in Nat
  BY ListedFinite, AllChosen, OwesType DEF Reportable
<1>2. /\ AdminSummary(AllDays).revenue = Sum(bill, S)
      /\ sales.total.amount = Sum(bill, S)
  BY DEF AdminSummary, DailySales, Sales, Revenue, TotalAmount, SumOf
<1>3. sales.total.collected = Payments(AllDays).total
  <2>1. sales.total.collected = Sum(collected, S)
    BY DEF DailySales, Sales, SumOf
  <2>2. Payments(AllDays).total = Sum(paid, accounts)
    BY AllPayments DEF Payments, Amount
  <2>3. Sorted(accounts, order, S)
    BY <1>1, AllPayments DEF Sorted
  <2>4. SumsOfParts(collected, paid, accounts, order, S)
    <3> SUFFICES ASSUME NEW o \in S
                 PROVE  Amount(PaymentsOf(o)) = Sum(paid, {p \in accounts : order[p] = o})
      BY DEF SumsOfParts
    <3>1. {p \in accounts : order[p] = o} = PaymentsOf(o)
      BY DEF PaymentsOf
    <3>2. \A p \in PaymentsOf(o) : [q \in PaymentsOf(o) |-> q.amount][p] = paid[p]
      BY DEF PaymentsOf
    <3> HIDE DEF paid, order
    <3> QED  BY <3>1, <3>2, SumCong DEF Amount
  <2>5. \A p \in accounts : paid[p] \in Nat
    BY AllPayments
  <2>6. IsFiniteSet(accounts)
    BY AllPayments
  <2> HIDE DEF S, paid, order, collected
  <2>7. Sum(collected, S) = Sum(paid, accounts)
    BY <2>3, <2>4, <2>5, <2>6, SumParts
  <2> QED  BY <2>1, <2>2, <2>7
<1>4. AddUp(amounts) = Sum(bill, S)
  <2>1. SumsOfGroups(amounts, bill, S, day)
    <3>1. DOMAIN amounts = {day[o] : o \in S}
      BY DEF DailySales, Figures, Groups
    <3>2. ASSUME NEW k \in DOMAIN amounts
          PROVE  amounts[k] = Sum(bill, {o \in S : day[o] = k})
      <4> DEFINE part == {o \in S : Booking[o].day = k}
      <4>1. amounts[k] = Sum([o \in part |-> Bill[o]], part)
        BY <3>1 DEF DailySales, Figures, Groups, Sales, Revenue, TotalAmount, SumOf
      <4>2. part = {o \in S : day[o] = k}
        OBVIOUS
      <4>3. \A o \in part : [p \in part |-> Bill[p]][o] = bill[o]
        OBVIOUS
      <4> HIDE DEF part, bill
      <4> QED  BY <4>1, <4>2, <4>3, SumCong
    <3> QED  BY <3>1, <3>2 DEF SumsOfGroups
  <2> HIDE DEF S, amounts, bill, day
  <2> QED  BY <1>1, <2>1, GroupsAddUp
<1>5. AddUp(amounts) = SumOf(LAMBDA d : sales.days[d].amount, DOMAIN sales.days)
  <2>1. \A d \in DOMAIN sales.days : amounts[d] = sales.days[d].amount
    OBVIOUS
  <2>2. DOMAIN amounts = DOMAIN sales.days
    OBVIOUS
  <2> HIDE DEF amounts, sales
  <2>3. Sum([d \in DOMAIN sales.days |-> amounts[d]], DOMAIN sales.days)
          = Sum([d \in DOMAIN sales.days |-> sales.days[d].amount], DOMAIN sales.days)
    BY <2>1, SumCong
  <2> QED  BY <2>2, <2>3 DEF AddUp, SumOf
<1> QED  BY <1>2, <1>3, <1>4, <1>5

\* The days' collections add up, to all payments and, for each salesman, to
\* what that salesman has collected.
LEMMA CollectionsAddUp ==
  ASSUME Reportable, EntriesAreDated
  PROVE  LET paid == Payments(AllDays) IN
         /\ SumOf(LAMBDA d : CollectionSummary(d).total, DOMAIN paid.daily) = paid.total
         /\ \A s \in Salesman :
              LET of(figures) == IF s \in DOMAIN figures THEN figures[s] ELSE 0 IN
              Amount(CollectedBy(AllDays, s))
                = SumOf(LAMBDA d : of(CollectionSummary(d).collectors), DOMAIN paid.daily)
<1> DEFINE K == DOMAIN Payments(AllDays).daily
           amount == [p \in accounts |-> p.amount]
           day == [p \in accounts |-> EnteredOn(p)]
           on(d) == PaymentsIn([from |-> d, to |-> d])
<1>1. /\ PaymentsIn(AllDays) = accounts /\ IsFiniteSet(accounts)
      /\ \A p \in accounts : amount[p] \in Nat /\ day[p] \in Int
  BY AllPayments, ReportsAssumption
<1>2. K = {day[p] : p \in accounts}
  BY <1>1 DEF Payments, Figures, Groups
<1>3. ASSUME NEW d \in K PROVE on(d) = {p \in accounts : day[p] = d}
  BY <1>1, <1>2 DEF PaymentsIn, InRange
<1>4. ASSUME NEW P \in SUBSET accounts
      PROVE  Amount(P) = Sum(amount, P)
  <2>1. \A p \in P : [q \in P |-> q.amount][p] = amount[p]
    OBVIOUS
  <2> HIDE DEF amount
  <2> QED  BY <2>1, SumCong DEF Amount
<1>5. ASSUME NEW P \in SUBSET accounts, NEW g,
             \A d \in K : g[d] = Sum(amount, {p \in P : day[p] = d})
      PROVE  Sum(g, K) = Amount(P)
  <2>1. Sorted(P, day, K)
    BY <1>2 DEF Sorted
  <2>2. SumsOfParts(g, amount, P, day, K)
    BY <1>5 DEF SumsOfParts
  <2>3. IsFiniteSet(P) /\ \A p \in P : amount[p] \in Nat
    BY <1>1, FS_Subset
  <2> HIDE DEF K, amount, day
  <2>4. Sum(g, K) = Sum(amount, P)
    BY <2>1, <2>2, <2>3, SumParts
  <2> QED  BY <1>4, <2>4
<1>6. SumOf(LAMBDA d : CollectionSummary(d).total, K) = Payments(AllDays).total
  <2> DEFINE g == [d \in K |-> CollectionSummary(d).total]
  <2>1. ASSUME NEW d \in K PROVE g[d] = Sum(amount, {p \in accounts : day[p] = d})
    <3>1. g[d] = Amount(on(d))
      BY DEF CollectionSummary
    <3>2. on(d) = {p \in accounts : day[p] = d}
      BY <1>3
    <3> HIDE DEF on, day, g, amount
    <3> QED  BY <1>4, <3>1, <3>2
  <2>2. SumOf(LAMBDA d : CollectionSummary(d).total, K) = Sum(g, K)
    BY DEF SumOf
  <2>3. Payments(AllDays).total = Amount(accounts)
    BY <1>1 DEF Payments
  <2> HIDE DEF K, g, amount, day
  <2>4. Sum(g, K) = Amount(accounts)
    BY <1>5, <2>1
  <2> QED  BY <2>2, <2>3, <2>4
<1>7. ASSUME NEW s \in Salesman
      PROVE  LET of(figures) == IF s \in DOMAIN figures THEN figures[s] ELSE 0 IN
             Amount(CollectedBy(AllDays, s))
               = SumOf(LAMBDA d : of(CollectionSummary(d).collectors), K)
  <2> DEFINE P == CollectedBy(AllDays, s)
             of(figures) == IF s \in DOMAIN figures THEN figures[s] ELSE 0
             g == [d \in K |-> of(CollectionSummary(d).collectors)]
  <2>1. P = {p \in accounts : p.by = s}
    BY <1>1 DEF CollectedBy
  <2>2. ASSUME NEW d \in K PROVE g[d] = Sum(amount, {p \in P : day[p] = d})
    <3> DEFINE F == CollectionSummary(d).collectors
               ps == {p \in on(d) : p.by = s}
    <3>1. /\ DOMAIN F = {p.by : p \in on(d)}
          /\ s \in DOMAIN F => F[s] = Amount(ps)
      BY DEF CollectionSummary, Figures, Groups
    <3>2. ps = {p \in P : day[p] = d} /\ ps \in SUBSET accounts
      BY <1>3, <2>1
    <3>3. s \notin DOMAIN F => ps = {}
      BY <3>1
    <3>4. Amount(ps) = Sum(amount, ps)
      BY <1>4, <3>2
    <3>5. ps = {} => Sum(amount, ps) = 0
      BY SumZero
    <3>6. g[d] = IF s \in DOMAIN F THEN F[s] ELSE 0
      OBVIOUS
    <3> HIDE DEF F, ps, g
    <3> QED  BY <3>1, <3>2, <3>3, <3>4, <3>5, <3>6
  <2>3. SumOf(LAMBDA d : of(CollectionSummary(d).collectors), K) = Sum(g, K)
    BY DEF SumOf
  <2>4. P \in SUBSET accounts
    BY <2>1
  <2> HIDE DEF K, g, amount, day, P
  <2>5. Sum(g, K) = Amount(P)
    BY <1>5, <2>2, <2>4
  <2> QED  BY <2>3, <2>5 DEF P
<1> QED  BY <1>6, <1>7

\* The shops that were billed are counted once by beat, and once by salesman.
LEMMA CoverageAddsUp ==
  ASSUME Reportable
  PROVE  LET cover == Coverage(AllDays) IN
         AddUp(cover.byBeat) = cover.billed /\ AddUp(cover.bySalesman) = cover.billed
<1> DEFINE planned == {r \in DOMAIN Route : Route[r].beat # NoBeat}
           billed == {r \in planned : \E o \in Chosen(AllDays) :
                                        Booking[o].retailer = r /\ status[o] # "CANCELLED"}
           cover == Coverage(AllDays)
           one == [r \in billed |-> 1]
<1>1. IsFiniteSet(billed)
  <2> DEFINE shop == [o \in Chosen(AllDays) |-> Booking[o].retailer]
             shops == {shop[o] : o \in Chosen(AllDays)}
  <2>1. shop \in Surjection(Chosen(AllDays), shops)
    BY DEF Surjection
  <2>2. IsFiniteSet(Chosen(AllDays))
    BY ListedFinite
  <2>3. billed \subseteq shops
    OBVIOUS
  <2> HIDE DEF shop, shops, billed
  <2>4. IsFiniteSet(shops)
    BY <2>1, <2>2, FS_Surjection
  <2> QED  BY <2>3, <2>4, FS_Subset
<1>2. cover.billed = Cardinality(billed)
  BY DEF Coverage
<1>3. \A r \in billed : one[r] = 1 /\ one[r] \in Nat
  OBVIOUS
<1>4. ASSUME NEW figures, NEW key,
             DOMAIN figures = {key[r] : r \in planned},
             \A k \in DOMAIN figures :
               figures[k] = Cardinality({r \in planned : key[r] = k} \cap billed)
      PROVE  AddUp(figures) = Cardinality(billed)
  <2> DEFINE K == DOMAIN figures
             g == [k \in K |-> figures[k]]
  <2>1. Sorted(billed, key, K)
    BY <1>4 DEF Sorted
  <2>2. SumsOfParts(g, one, billed, key, K)
    <3> SUFFICES ASSUME NEW k \in K
                 PROVE  figures[k] = Sum(one, {r \in billed : key[r] = k})
      BY DEF SumsOfParts
    <3>1. {r \in planned : key[r] = k} \cap billed = {r \in billed : key[r] = k}
      OBVIOUS
    <3>2. IsFiniteSet({r \in billed : key[r] = k})
      BY <1>1, FS_Subset
    <3> HIDE DEF one, billed, planned
    <3>3. Sum(one, {r \in billed : key[r] = k}) = Cardinality({r \in billed : key[r] = k})
      BY <1>3, <3>2, SumOnes
    <3> QED  BY <1>4, <3>1, <3>3
  <2>3. AddUp(figures) = Sum(g, K)
    BY DEF AddUp, SumOf
  <2> HIDE DEF g, K, one, billed
  <2>4. Sum(g, K) = Sum(one, billed)
    BY <1>1, <1>3, <2>1, <2>2, SumParts
  <2> QED  BY <1>1, <1>3, <2>3, <2>4, SumOnes
<1>5. AddUp(cover.byBeat) = Cardinality(billed)
  <2> DEFINE key == [r \in planned |-> Route[r].beat]
  <2>1. DOMAIN cover.byBeat = {key[r] : r \in planned}
    BY DEF Coverage, Figures, Groups
  <2>2. ASSUME NEW k \in DOMAIN cover.byBeat
        PROVE  cover.byBeat[k] = Cardinality({r \in planned : key[r] = k} \cap billed)
    <3>1. {r \in planned : key[r] = k} = {r \in planned : Route[r].beat = k}
      OBVIOUS
    <3>2. cover.byBeat[k] = Cardinality({r \in planned : Route[r].beat = k} \cap billed)
      BY <2>1 DEF Coverage, Figures, Groups
    <3> QED  BY <3>1, <3>2
  <2> HIDE DEF planned, billed, cover, key
  <2> QED  BY <1>4, <2>1, <2>2
<1>6. AddUp(cover.bySalesman) = Cardinality(billed)
  <2> DEFINE key == [r \in planned |-> Route[r].salesman]
  <2>1. DOMAIN cover.bySalesman = {key[r] : r \in planned}
    BY DEF Coverage, Figures, Groups
  <2>2. ASSUME NEW k \in DOMAIN cover.bySalesman
        PROVE  cover.bySalesman[k] = Cardinality({r \in planned : key[r] = k} \cap billed)
    <3>1. {r \in planned : key[r] = k} = {r \in planned : Route[r].salesman = k}
      OBVIOUS
    <3>2. cover.bySalesman[k] = Cardinality({r \in planned : Route[r].salesman = k} \cap billed)
      BY <2>1 DEF Coverage, Figures, Groups
    <3> QED  BY <3>1, <3>2
  <2> HIDE DEF planned, billed, cover, key
  <2> QED  BY <1>4, <2>1, <2>2
<1> QED  BY <1>2, <1>5, <1>6

\* The period that is closed and the current one add up to all days.
LEMMA PeriodsAddUp ==
  ASSUME Reportable, EntriesAreDated
  PROVE  /\ AdminSummary(Closed).revenue + AdminSummary(Current).revenue
              = AdminSummary(AllDays).revenue
         /\ Payments(Closed).total + Payments(Current).total = Payments(AllDays).total
         /\ CreditNotes(Closed).total + CreditNotes(Current).total = Credit(notes)
<1>1. Closing \in Int /\ Today \in Int /\ 0 <= Closing /\ Closing <= Today
  BY ReportsAssumption
<1>2. ASSUME NEW d \in 0 .. Today
      PROVE  /\ InRange(d, Closed) <=> d <= Closing
             /\ InRange(d, Current) <=> Closing < d
             /\ InRange(d, AllDays)
  BY <1>1 DEF InRange, Closed, Current, AllDays
<1>3. ASSUME NEW T, IsFiniteSet(T), NEW A, NEW B, A \cup B = T, A \cap B = {},
             NEW f, \A x \in T : f[x] \in Nat
      PROVE  Sum([x \in A |-> f[x]], A) + Sum([x \in B |-> f[x]], B)
               = Sum([x \in T |-> f[x]], T)
  <2>1. IsFiniteSet(A) /\ IsFiniteSet(B)
    BY <1>3, FS_Subset
  <2>2. Sum(f, A \cup B) = Sum(f, A) + Sum(f, B)
    BY <1>3, <2>1, SumUnion
  <2>3. ASSUME NEW R PROVE Sum([x \in R |-> f[x]], R) = Sum(f, R)
    BY SumCong
  <2> QED  BY <1>3, <2>2, <2>3
<1>4. AdminSummary(Closed).revenue + AdminSummary(Current).revenue
        = AdminSummary(AllDays).revenue
  <2> DEFINE A == Chosen(Closed)
             B == Chosen(Current)
             T == Chosen(AllDays)
             f == [o \in T |-> Bill[o]]
  <2>1. \A o \in Order : Booking[o].day \in 0 .. Today
    BY ReportsAssumption DEF BookingRow
  <2>2. A \cup B = T /\ A \cap B = {}
    BY <1>1, <1>2, <2>1 DEF Chosen
  <2>3. IsFiniteSet(T) /\ \A o \in T : f[o] \in Nat
    BY ListedFinite, OwesType DEF Reportable
  <2>4. /\ AdminSummary(Closed).revenue = Sum([o \in A |-> Bill[o]], A)
        /\ AdminSummary(Current).revenue = Sum([o \in B |-> Bill[o]], B)
        /\ AdminSummary(AllDays).revenue = Sum([o \in T |-> Bill[o]], T)
    BY DEF AdminSummary, Revenue, TotalAmount, SumOf
  <2>5. /\ [o \in A |-> f[o]] = [o \in A |-> Bill[o]]
        /\ [o \in B |-> f[o]] = [o \in B |-> Bill[o]]
        /\ [o \in T |-> f[o]] = [o \in T |-> Bill[o]]
    BY <2>2
  <2> HIDE DEF A, B, T, f
  <2>6. Sum([o \in A |-> f[o]], A) + Sum([o \in B |-> f[o]], B) = Sum([o \in T |-> f[o]], T)
    BY <1>3, <2>2, <2>3
  <2> QED  BY <2>4, <2>5, <2>6
<1>5. Payments(Closed).total + Payments(Current).total = Payments(AllDays).total
  <2> DEFINE A == PaymentsIn(Closed)
             B == PaymentsIn(Current)
             T == PaymentsIn(AllDays)
             f == [p \in T |-> p.amount]
  <2>1. T = accounts /\ IsFiniteSet(T) /\ \A p \in T : f[p] \in Nat
    BY AllPayments
  <2>2. A \cup B = T /\ A \cap B = {}
    BY <1>1, <1>2, AllPayments DEF PaymentsIn
  <2>3. /\ Payments(Closed).total = Sum([p \in A |-> p.amount], A)
        /\ Payments(Current).total = Sum([p \in B |-> p.amount], B)
        /\ Payments(AllDays).total = Sum([p \in T |-> p.amount], T)
    BY DEF Payments, Amount
  <2>4. /\ [p \in A |-> f[p]] = [p \in A |-> p.amount]
        /\ [p \in B |-> f[p]] = [p \in B |-> p.amount]
        /\ [p \in T |-> f[p]] = [p \in T |-> p.amount]
    BY <2>2
  <2> HIDE DEF A, B, T, f
  <2>5. Sum([p \in A |-> f[p]], A) + Sum([p \in B |-> f[p]], B) = Sum([p \in T |-> f[p]], T)
    BY <1>3, <2>1, <2>2
  <2> QED  BY <2>3, <2>4, <2>5
<1>6. CreditNotes(Closed).total + CreditNotes(Current).total = Credit(notes)
  <2> DEFINE A == {n \in notes : InRange(EnteredOn(n), Closed)}
             B == {n \in notes : InRange(EnteredOn(n), Current)}
             f == [n \in notes |-> NoteTotal(n)]
  <2>1. notes \subseteq Note /\ IsFiniteSet(notes)
    BY DEF Reportable, TypeOK
  <2>2. \A n \in notes : f[n] \in Nat /\ EnteredOn(n) \in 0 .. Today
    BY <2>1, NoteTotalType DEF EntriesAreDated
  <2>3. A \cup B = notes /\ A \cap B = {}
    BY <1>1, <1>2, <2>2
  <2>4. /\ CreditNotes(Closed).total = Sum([n \in A |-> NoteTotal(n)], A)
        /\ CreditNotes(Current).total = Sum([n \in B |-> NoteTotal(n)], B)
        /\ Credit(notes) = Sum([n \in notes |-> NoteTotal(n)], notes)
    BY DEF CreditNotes, Credit
  <2>5. /\ [n \in A |-> f[n]] = [n \in A |-> NoteTotal(n)]
        /\ [n \in B |-> f[n]] = [n \in B |-> NoteTotal(n)]
        /\ [n \in notes |-> f[n]] = [n \in notes |-> NoteTotal(n)]
    BY <2>3
  <2> HIDE DEF A, B, f
  <2>6. Sum([n \in A |-> f[n]], A) + Sum([n \in B |-> f[n]], B)
          = Sum([n \in notes |-> f[n]], notes)
    BY <1>3, <2>1, <2>2, <2>3
  <2> QED  BY <2>4, <2>5, <2>6
<1> QED  BY <1>4, <1>5, <1>6

\* The reports agree with each other, whatever requests run and whatever the
\* orders, the shops and the days are, as long as entries are dated.
THEOREM TheReportsAgree == EntriesAreDated /\ Spec => []ReportsAgree
<1> SUFFICES ASSUME EntriesAreDated PROVE Spec => []ReportsAgree
  OBVIOUS
<1>1. IInv /\ IsFiniteSet(BookedOrders) => Reportable
  BY DEF IInv, TablesInv, Reportable
<1>2. Reportable => ReportsAgree
  <2> SUFFICES ASSUME Reportable PROVE ReportsAgree
    OBVIOUS
  <2> QED  BY ListedOrdersOwe, OutstandingAddsUp, NumbersAddUp, SalesAddUp, CollectionsAddUp,
              CoverageAddsUp, PeriodsAddUp DEF ReportsAgree
<1> QED  BY <1>1, <1>2, Invariant, FinitelyManyBooked, PTL
=============================================================================
