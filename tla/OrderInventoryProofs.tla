------------------------ MODULE OrderInventoryProofs ------------------------
(***************************************************************************)
(* The promises of OrderInventory, proved for every catalogue, every set   *)
(* of users, orders, carts and receipts, and every number of batches and   *)
(* days.  IInv is inductive; there is one lemma per action, which rest on  *)
(* a few lemmas on what the actions have in common.                        *)
(***************************************************************************)
EXTENDS OrderInventory, QuantitySumsProofs

-----------------------------------------------------------------------------
(* Finite sets and well-typed helpers.                                     *)

\* There are finitely many batches, of any product.
LEMMA BatchFinite == IsFiniteSet(Batch) /\ \A S \in SUBSET Batch : IsFiniteSet(S)
<1>1. 1 \in Int /\ MaxBatch \in Int
  BY BoundAssumption
<1>2. IsFiniteSet(Batch)
  BY <1>1, FS_Interval DEF Batch
<1> QED  BY <1>2, FS_Subset

\* The quantities an order holds of a product add up to a quantity.
LEMMA QuantityType ==
  ASSUME NEW f \in Quantities, NEW S \in SUBSET Batch
  PROVE  Sum(f, S) \in Nat
<1>1. IsFiniteSet(S) /\ \A b \in S : f[b] \in Nat
  BY BatchFinite DEF Quantities
<1> QED  BY <1>1, SumType

\* The fields of well-typed rows.
LEMMA RowTypes ==
  ASSUME TypeOK
  PROVE  /\ \A b \in Batch : /\ batch[b].sku \in Sku \cup {NoSku}
                             /\ batch[b].received \in Nat /\ batch[b].remaining \in Nat
                             /\ batch[b].reserved \in Nat
         /\ \A o \in Order : /\ order[o].status \in OrderStatus
                             /\ order[o].cart \in [Sku -> Nat]
                             /\ order[o].trail \in Seq([status : OrderStatus, role : Roles])
         /\ \A s \in Sku : inventory[s].total \in Nat /\ inventory[s].reserved \in Nat
         /\ \A o \in Order, b \in Batch :
              held[o][b] \in Nat /\ out[o][b] \in Nat /\ back[o][b] \in Nat
BY DEF TypeOK, BatchRow, OrderRow, Quantities

\* RowTypes after a step.
LEMMA RowTypesNext ==
  ASSUME TypeOK'
  PROVE  /\ \A b \in Batch : /\ batch'[b].received \in Nat /\ batch'[b].remaining \in Nat
                             /\ batch'[b].reserved \in Nat
         /\ \A o \in Order, b \in Batch :
              held'[o][b] \in Nat /\ out'[o][b] \in Nat /\ back'[o][b] \in Nat
BY DEF TypeOK, BatchRow, Quantities

\* What a line still needs is a quantity.
LEMMA NeedsType ==
  ASSUME TypeOK, NEW o \in Order, NEW s \in Sku
  PROVE  Needs(o, s) \in Nat /\ Sum(held[o], BatchesOf(s)) \in Nat
<1>1. held[o] \in Quantities /\ BatchesOf(s) \in SUBSET Batch
  BY DEF TypeOK, BatchesOf
<1>2. Sum(held[o], BatchesOf(s)) \in Nat
  BY <1>1, QuantityType
<1>3. order[o].cart[s] \in Nat
  BY RowTypes
<1> QED  BY <1>2, <1>3 DEF Needs

\* A reservation takes free units only, of batches that have arrived, and as
\* many as each line needs.
LEMMA ReservationFacts ==
  ASSUME TypeOK, ReservedWithinStock, NEW o \in Order, NEW take \in Reservations(o)
  PROVE  /\ take \in Quantities
         /\ \A b \in Batch : /\ take[b] <= Free(b)
                             /\ batch[b].sku = NoSku => take[b] = 0
         /\ \A s \in Sku : Sum(take, BatchesOf(s)) = Needs(o, s)
<1>1. PICK rank \in Rankings : take = Take(o, rank)
  BY DEF Reservations
<1>2. ASSUME NEW b \in Batch
      PROVE  /\ Free(b) \in Nat
             /\ take[b] \in Nat /\ take[b] <= Free(b)
             /\ ~Allocatable(b) => take[b] = 0
  <2> DEFINE ahead == {c \in BatchesOf(batch[b].sku) : Allocatable(c) /\ rank[c] < rank[b]}
             free == [c \in Batch |-> Free(c)]
             wanted == Needs(o, batch[b].sku) - Sum(free, ahead)
  <2>1. Free(b) \in Nat
    BY RowTypes DEF ReservedWithinStock, Free
  <2>2. take[b] = IF ~Allocatable(b) \/ wanted <= 0 THEN 0
                  ELSE IF wanted < Free(b) THEN wanted ELSE Free(b)
    BY <1>1 DEF Take
  <2>3. CASE ~Allocatable(b)
    BY <2>1, <2>2, <2>3
  <2>4. CASE Allocatable(b)
    <3>1. batch[b].sku \in Sku
      BY <2>4, RowTypes DEF Allocatable
    <3>2. Needs(o, batch[b].sku) \in Nat
      BY <3>1, NeedsType
    <3>3. free \in Quantities
      BY RowTypes DEF Quantities, ReservedWithinStock, Free
    <3>4. Sum(free, ahead) \in Nat
      BY <3>3, QuantityType DEF BatchesOf
    <3>5. wanted \in Int
      BY <3>2, <3>4
    <3> HIDE DEF wanted
    <3> QED  BY <2>1, <2>2, <2>4, <3>5
  <2> QED  BY <2>3, <2>4
<1>3. take = [b \in Batch |-> take[b]]
  BY <1>1 DEF Take
<1>4. \A s \in Sku : Sum(take, BatchesOf(s)) = Needs(o, s)
  BY DEF Reservations
<1> QED  BY <1>2, <1>3, <1>4 DEF Quantities, Allocatable

\* An order that has nothing to ask for takes nothing.
LEMMA NoNeedNoTake ==
  ASSUME TypeOK, ReservedWithinStock, NEW o \in Order, NEW take \in Reservations(o),
         \A s \in Sku : Needs(o, s) = 0
  PROVE  \A b \in Batch : take[b] = 0
<1>1. TAKE b \in Batch
<1>2. CASE batch[b].sku = NoSku
  BY <1>2, ReservationFacts
<1>3. CASE batch[b].sku # NoSku
  <2>1. batch[b].sku \in Sku
    BY <1>3, RowTypes
  <2> DEFINE S == BatchesOf(batch[b].sku)
  <2>2. b \in S /\ S \in SUBSET Batch
    BY DEF BatchesOf
  <2>3. Sum(take, S) = 0
    BY <2>1, ReservationFacts
  <2>4. take \in Quantities
    BY ReservationFacts
  <2>5. IsFiniteSet(S) /\ \A c \in S : take[c] \in Nat
    BY <2>2, <2>4, BatchFinite DEF Quantities
  <2> HIDE DEF S
  <2>6. take[b] <= Sum(take, S)
    BY <2>2, <2>5, SumCovers
  <2> QED  BY <2>2, <2>3, <2>5, <2>6
<1> QED  BY <1>2, <1>3

\* The part every transition shares changes one order, and its status only
\* along the table of transitions.
LEMMA MoveFacts ==
  ASSUME TypeOK, NEW a \in Actor, NEW o \in Order, NEW d \in Driver \cup {NoDriver},
         NEW next \in OrderStatus, Move(a, o, d, next)
  PROVE  /\ order' \in [Order -> OrderRow]
         /\ \A p \in Order : p # o => order'[p] = order[p]
         /\ order'[o].status = next /\ order'[o].cart = order[o].cart
         /\ \E t \in AllowedTransitions : t[1] = order[o].status /\ t[2] = next
<1>1. a.role \in Roles
  BY OrderAssumption
<1>2. order[o].trail \in Seq([status : OrderStatus, role : Roles])
  BY DEF TypeOK, OrderRow
<1>3. Append(order[o].trail, [status |-> next, role |-> a.role])
        \in Seq([status : OrderStatus, role : Roles])
  BY <1>1, <1>2
<1> DEFINE moved == [order[o] EXCEPT !.status = next,
                       !.driver = IF d = NoDriver THEN @ ELSE d,
                       !.trail = Append(@, [status |-> next, role |-> a.role])]
<1>4. order' = [order EXCEPT ![o] = moved]
  BY DEF Move
<1>5. moved \in OrderRow /\ moved.status = next /\ moved.cart = order[o].cart
  BY <1>3 DEF TypeOK, OrderRow
<1>6. \E t \in AllowedTransitions : t[1] = order[o].status /\ t[2] = next
  BY DEF Move, MayMove
<1> HIDE DEF moved
<1> QED  BY <1>4, <1>5, <1>6 DEF TypeOK

\* Where the transitions lead from.
LEMMA TransitionTable ==
  ASSUME NEW t \in AllowedTransitions
  PROVE  /\ t[2] = "READY_TO_SHIP" => t[1] = "PENDING"
         /\ t[2] = "OUT_FOR_DELIVERY" => t[1] = "READY_TO_SHIP"
         /\ t[2] = "DELIVERED" => t[1] = "OUT_FOR_DELIVERY"
         /\ t[2] = "CANCELLED" =>
              t[1] \in {"PENDING", "READY_TO_SHIP", "OUT_FOR_DELIVERY", "DELIVERED"}
BY DEF AllowedTransitions

-----------------------------------------------------------------------------
(* What the invariants need of any step.                                   *)

\* Quantities per batch add up product by product.
LEMMA QuantityAdd ==
  ASSUME NEW f \in Quantities, NEW g \in Quantities, NEW h, NEW S \in SUBSET Batch,
         \A b \in S : h[b] = f[b] + g[b]
  PROVE  Sum(h, S) = Sum(f, S) + Sum(g, S)
<1>1. IsFiniteSet(S) /\ \A b \in S : f[b] \in Nat /\ g[b] \in Nat /\ h[b] = f[b] + g[b]
  BY BatchFinite DEF Quantities
<1> QED  BY <1>1, SumAdd

\* The quantities the invariants sum are well-typed, before and after a step.
LEMMA StockQuantities ==
  ASSUME TypeOK
  PROVE  /\ Remaining \in Quantities /\ Reserved \in Quantities
         /\ \A s \in Sku : BatchesOf(s) \in SUBSET Batch
         /\ \A o \in Order : held[o] \in Quantities
BY RowTypes DEF TypeOK, Remaining, Reserved, BatchesOf, Quantities

\* StockQuantities after a step.
LEMMA StockQuantitiesNext ==
  ASSUME TypeOK'
  PROVE  /\ Remaining' \in Quantities /\ Reserved' \in Quantities
         /\ \A s \in Sku : BatchesOf(s)' \in SUBSET Batch
         /\ \A o \in Order : held'[o] \in Quantities
BY RowTypesNext DEF TypeOK, Remaining, Reserved, BatchesOf, Quantities

\* The aggregate of a product counts the units of its batches, and `loose` units
\* besides: none by the steps of OrderInventory; in StockLedger those that credit
\* notes have put back into no batch.
TotalHolds(loose) ==
  \A s \in Sku : inventory[s].total = Sum(Remaining, BatchesOf(s)) + loose[s]

\* The invariant, for an aggregate with loose units.
LooseInv(loose) ==
  /\ TypeOK
  /\ ReservedWithinStock
  /\ TotalHolds(loose)
  /\ ReservedIsSumOfBatches
  /\ ReservedIsHeldByOpenOrders
  /\ LedgerReproducesStock
  /\ GoodsFollowStatus
  /\ ReadyMeansFullyAllocated
  /\ NothingAhead

\* I2 follows from I1, I3 and I4.
LEMMA AggregateWithinTotal ==
  ASSUME NEW loose \in [Sku -> Nat], TypeOK', TotalHolds(loose)', ReservedIsSumOfBatches',
         \A b \in Batch : batch'[b].reserved <= batch'[b].remaining
  PROVE  ReservedWithinStock'
<1>1. ASSUME NEW s \in Sku PROVE inventory'[s].reserved <= inventory'[s].total
  <2> DEFINE S == BatchesOf(s)'
  <2>1. S \in SUBSET Batch /\ IsFiniteSet(S)
    BY BatchFinite DEF BatchesOf
  <2>2. \A b \in S : /\ Reserved'[b] \in Nat /\ Remaining'[b] \in Nat
                     /\ Reserved'[b] <= Remaining'[b]
    BY <2>1, RowTypesNext DEF Reserved, Remaining
  <2>3. Sum(Reserved', S) <= Sum(Remaining', S)
    BY <2>1, <2>2, SumMonotone
  <2>4. Sum(Reserved', S) \in Nat /\ Sum(Remaining', S) \in Nat
    BY <2>1, <2>2, SumType
  <2>5. inventory'[s].total = Sum(Remaining', S) + loose[s] /\ inventory'[s].reserved = Sum(Reserved', S)
    BY DEF TotalHolds, ReservedIsSumOfBatches
  <2> QED  BY <2>3, <2>4, <2>5
<1> QED  BY <1>1 DEF ReservedWithinStock

\* What an open order holds of a batch is reserved.
LEMMA HeldIsReserved ==
  ASSUME TypeOK, ReservedIsHeldByOpenOrders, NEW o \in Open, NEW b \in Batch
  PROVE  held[o][b] <= batch[b].reserved
<1> DEFINE holds == [p \in Order |-> held[p][b]]
<1>1. Open \in SUBSET Order /\ IsFiniteSet(Open)
  BY OrderAssumption, FS_Subset DEF Open
<1>2. \A p \in Open : holds[p] \in Nat
  BY <1>1 DEF TypeOK, Quantities
<1>3. holds[o] <= Sum(holds, Open)
  BY <1>1, <1>2, SumCovers
<1>4. holds[o] = held[o][b]
  BY <1>1
<1> QED  BY <1>3, <1>4 DEF ReservedIsHeldByOpenOrders

\* I5 survives a step that moves one order when the reservation of each batch
\* moves with what that order holds while it is open.
LEMMA ReservedFollowsOrder ==
  ASSUME TypeOK, TypeOK', ReservedIsHeldByOpenOrders, NEW o \in Order,
         \A p \in Order : p # o => order'[p].status = order[p].status /\ held'[p] = held[p],
         \A b \in Batch :
            batch'[b].reserved + (IF o \in Open THEN held[o][b] ELSE 0) =
              batch[b].reserved + (IF o \in Open' THEN held'[o][b] ELSE 0)
  PROVE  ReservedIsHeldByOpenOrders'
<1>1. ASSUME NEW b \in Batch
      PROVE  batch'[b].reserved = Sum([p \in Order |-> held'[p][b]], Open')
  <2> DEFINE h == [p \in Order |-> held[p][b]]
             hn == [p \in Order |-> held'[p][b]]
             f == [p \in Order |-> IF p \in Open THEN h[p] ELSE 0]
             g == [p \in Order |-> IF p \in Open' THEN hn[p] ELSE 0]
  <2>1. Open \in SUBSET Order /\ Open' \in SUBSET Order /\ IsFiniteSet(Order)
    BY OrderAssumption DEF Open
  <2>2. \A p \in Order : held[p][b] \in Nat /\ held'[p][b] \in Nat
    BY DEF TypeOK, Quantities
  <2>3. \A p \in Order : f[p] \in Nat /\ g[p] \in Nat
    BY <2>2
  <2>4. \A p \in Order : p # o => f[p] = g[p]
    BY DEF Open
  <2>5. Sum(h, Open) = Sum(f, Order)
    BY <2>1, SumWithin
  <2>6. Sum(hn, Open') = Sum(g, Order)
    BY <2>1, SumWithin
  <2>7. f[o] = (IF o \in Open THEN held[o][b] ELSE 0) /\ g[o] = (IF o \in Open' THEN held'[o][b] ELSE 0)
    OBVIOUS
  <2>8. batch[b].reserved = Sum(h, Open)
    BY DEF ReservedIsHeldByOpenOrders
  <2>9. batch'[b].reserved + f[o] = batch[b].reserved + g[o]
    BY <2>7
  <2>10. batch'[b].reserved \in Nat /\ batch[b].reserved \in Nat
    BY RowTypes, RowTypesNext
  <2>11. Sum(f, Order) \in Nat /\ Sum(g, Order) \in Nat /\ f[o] \in Nat /\ g[o] \in Nat
    BY <2>1, <2>3, SumType
  <2> HIDE DEF f, g, h, hn
  <2>12. Sum(g, Order) + f[o] = Sum(f, Order) + g[o]
    BY <2>1, <2>3, <2>4, SumUpdate
  <2>13. batch'[b].reserved = Sum(g, Order)
    BY <2>5, <2>8, <2>9, <2>10, <2>11, <2>12
  <2> QED  BY <2>6, <2>13 DEF hn
<1> QED  BY <1>1 DEF ReservedIsHeldByOpenOrders

\* The ledger still reproduces the stock after a step that moves the goods of
\* one order and writes what it moved.
LEMMA LedgerFollowsOrder ==
  ASSUME TypeOK, TypeOK', LedgerReproducesStock, NEW o \in Order,
         \A p \in Order : p # o => out'[p] = out[p] /\ back'[p] = back[p],
         \A b \in Batch :
            /\ batch'[b].received = batch[b].received
            /\ batch'[b].remaining + out'[o][b] + back[o][b] =
                 batch[b].remaining + out[o][b] + back'[o][b]
  PROVE  LedgerReproducesStock'
<1>1. ASSUME NEW b \in Batch
      PROVE  batch'[b].remaining + Sum([p \in Order |-> out'[p][b]], Order) =
               batch'[b].received + Sum([p \in Order |-> back'[p][b]], Order)
  <2> DEFINE f == [p \in Order |-> out[p][b]]
             g == [p \in Order |-> out'[p][b]]
             h == [p \in Order |-> back[p][b]]
             k == [p \in Order |-> back'[p][b]]
  <2>1. IsFiniteSet(Order)
    BY OrderAssumption
  <2>2. \A p \in Order : f[p] \in Nat /\ g[p] \in Nat /\ h[p] \in Nat /\ k[p] \in Nat
    BY DEF TypeOK, Quantities
  <2>3. \A p \in Order : p # o => f[p] = g[p] /\ h[p] = k[p]
    OBVIOUS
  <2>4. batch[b].remaining + Sum(f, Order) = batch[b].received + Sum(h, Order)
    BY DEF LedgerReproducesStock
  <2>5. batch'[b].remaining + g[o] + h[o] = batch[b].remaining + f[o] + k[o]
    OBVIOUS
  <2>6. /\ batch'[b].remaining \in Nat /\ batch[b].remaining \in Nat
        /\ batch[b].received \in Nat /\ batch'[b].received = batch[b].received
    BY RowTypes, RowTypesNext
  <2> HIDE DEF f, g, h, k
  <2>7. /\ Sum(f, Order) \in Nat /\ Sum(g, Order) \in Nat
        /\ Sum(h, Order) \in Nat /\ Sum(k, Order) \in Nat
    BY <2>1, <2>2, SumType
  <2>8. Sum(g, Order) + f[o] = Sum(f, Order) + g[o]
    <3>1. \A p \in Order : f[p] \in Nat /\ g[p] \in Nat
      BY <2>2
    <3>2. \A p \in Order : p # o => f[p] = g[p]
      BY <2>3
    <3> QED  BY <2>1, <3>1, <3>2, SumUpdate
  <2>9. Sum(k, Order) + h[o] = Sum(h, Order) + k[o]
    <3>1. \A p \in Order : h[p] \in Nat /\ k[p] \in Nat
      BY <2>2
    <3>2. \A p \in Order : p # o => h[p] = k[p]
      BY <2>3
    <3> QED  BY <2>1, <3>1, <3>2, SumUpdate
  <2>10. f[o] \in Nat /\ g[o] \in Nat /\ h[o] \in Nat /\ k[o] \in Nat
    BY <2>2
  <2>11. batch'[b].remaining + Sum(g, Order) = batch'[b].received + Sum(k, Order)
    BY <2>4, <2>5, <2>6, <2>7, <2>8, <2>9, <2>10
  <2> QED  BY <2>11 DEF g, k
<1> QED  BY <1>1 DEF LedgerReproducesStock

-----------------------------------------------------------------------------
(* One lemma per action.                                                   *)

\* Marking an order ready reserves what it asks for and keeps every promise.
LEMMA MarkReadyToShipKeeps ==
  ASSUME NEW loose \in [Sku -> Nat], LooseInv(loose), NEW a \in Actor, NEW o \in Order, NEW d \in Driver \cup {NoDriver},
         MarkReadyToShip(a, o, d)
  PROVE  LooseInv(loose)'
<1>0. /\ TypeOK /\ ReservedWithinStock /\ TotalHolds(loose) /\ ReservedIsSumOfBatches
      /\ ReservedIsHeldByOpenOrders /\ LedgerReproducesStock /\ GoodsFollowStatus
      /\ ReadyMeansFullyAllocated /\ NothingAhead
  BY DEF LooseInv
<1>1. PICK take \in Reservations(o) :
        /\ batch' = [b \in Batch |-> [batch[b] EXCEPT !.reserved = @ + take[b]]]
        /\ inventory' = [s \in Sku |->
             [inventory[s] EXCEPT !.reserved = @ + Sum(take, BatchesOf(s))]]
        /\ held' = [held EXCEPT ![o] = Plus(held[o], take, Batch)]
  BY DEF MarkReadyToShip
<1>2. UNCHANGED <<today, lastBatch, out, back, invoice, counter>>
  BY DEF MarkReadyToShip, invoices
<1>3. Move(a, o, d, "READY_TO_SHIP")
  BY DEF MarkReadyToShip
<1>4. /\ order' \in [Order -> OrderRow]
      /\ \A p \in Order : p # o => order'[p] = order[p]
      /\ order'[o].status = "READY_TO_SHIP" /\ order'[o].cart = order[o].cart
      /\ order[o].status = "PENDING"
  <2>1. "READY_TO_SHIP" \in OrderStatus
    BY DEF OrderStatus
  <2> QED  BY <1>0, <1>3, <2>1, MoveFacts, TransitionTable
<1>5. /\ take \in Quantities
      /\ \A b \in Batch : /\ take[b] \in Nat /\ take[b] <= Free(b)
                          /\ batch[b].sku = NoSku => take[b] = 0
      /\ \A s \in Sku : Sum(take, BatchesOf(s)) = Needs(o, s)
  BY <1>0, ReservationFacts DEF Quantities
<1>6. \A b \in Batch : held[o][b] = 0 /\ out[o][b] = 0
  BY <1>0, <1>4 DEF NothingAhead
<1>7. /\ \A b \in Batch : held'[o][b] = take[b]
      /\ \A p \in Order : p # o => held'[p] = held[p]
      /\ held' \in [Order -> Quantities]
  BY <1>0, <1>1, <1>5, <1>6 DEF TypeOK, Quantities, Plus
<1>8. \A b \in Batch :
        /\ batch'[b].reserved = batch[b].reserved + take[b]
        /\ batch'[b].remaining = batch[b].remaining /\ batch'[b].sku = batch[b].sku
        /\ batch'[b].received = batch[b].received /\ batch'[b].expiry = batch[b].expiry
  BY <1>0, <1>1 DEF TypeOK, BatchRow
<1>9. \A s \in Sku :
        /\ inventory'[s].total = inventory[s].total
        /\ inventory'[s].reserved = inventory[s].reserved + Sum(take, BatchesOf(s))
        /\ BatchesOf(s)' = BatchesOf(s)
  BY <1>0, <1>1, <1>8 DEF TypeOK, BatchesOf
<1>10. TypeOK'
  <2>1. batch' \in [Batch -> BatchRow]
    <3>1. ASSUME NEW b \in Batch PROVE batch'[b] \in BatchRow
      <4>1. batch[b] \in BatchRow /\ batch[b].reserved \in Nat
        BY <1>0, RowTypes DEF TypeOK
      <4>2. batch[b].reserved + take[b] \in Nat
        BY <1>5, <4>1
      <4>3. batch'[b] = [batch[b] EXCEPT !.reserved = batch[b].reserved + take[b]]
        BY <1>1
      <4> QED  BY <4>1, <4>2, <4>3 DEF BatchRow
    <3> QED  BY <1>1, <3>1
  <2>2. \A s \in Sku : Sum(take, BatchesOf(s)) \in Nat
    BY <1>0, <1>5, NeedsType
  <2>3. inventory' \in [Sku -> [total : Nat, reserved : Nat]]
    <3>1. ASSUME NEW s \in Sku PROVE inventory'[s] \in [total : Nat, reserved : Nat]
      <4>1. inventory[s] \in [total : Nat, reserved : Nat]
        BY <1>0 DEF TypeOK
      <4>2. inventory'[s] =
              [inventory[s] EXCEPT !.reserved = inventory[s].reserved + Sum(take, BatchesOf(s))]
        BY <1>1
      <4>3. inventory[s].reserved + Sum(take, BatchesOf(s)) \in Nat
        BY <2>2, <4>1
      <4> QED  BY <4>1, <4>2, <4>3
    <3> QED  BY <1>1, <3>1
  <2> QED  BY <1>0, <1>2, <1>4, <1>7, <2>1, <2>3 DEF TypeOK
<1>11. TotalHolds(loose)'
  <2>1. ASSUME NEW s \in Sku PROVE Sum(Remaining', BatchesOf(s)) = Sum(Remaining, BatchesOf(s))
    <3>1. \A b \in BatchesOf(s) : Remaining'[b] = Remaining[b]
      BY <1>8 DEF Remaining, BatchesOf
    <3> QED  BY <3>1, SumCong
  <2> QED  BY <1>0, <1>9, <2>1 DEF TotalHolds
<1>12. ReservedIsSumOfBatches'
  <2>1. ASSUME NEW s \in Sku
        PROVE  Sum(Reserved', BatchesOf(s)) = Sum(Reserved, BatchesOf(s)) + Sum(take, BatchesOf(s))
    <3>1. Reserved \in Quantities /\ BatchesOf(s) \in SUBSET Batch
      BY <1>0, StockQuantities
    <3>2. \A b \in BatchesOf(s) : Reserved'[b] = Reserved[b] + take[b]
      BY <1>8 DEF Reserved, BatchesOf
    <3> QED  BY <1>5, <3>1, <3>2, QuantityAdd
  <2> QED  BY <1>0, <1>9, <2>1 DEF ReservedIsSumOfBatches
<1>13. ReservedIsHeldByOpenOrders'
  <2>1. o \in Open /\ o \in Open'
    BY <1>4 DEF Open
  <2>2. \A b \in Batch :
          batch'[b].reserved + (IF o \in Open THEN held[o][b] ELSE 0) =
            batch[b].reserved + (IF o \in Open' THEN held'[o][b] ELSE 0)
    BY <1>0, <1>5, <1>6, <1>7, <1>8, <2>1, RowTypes
  <2> QED  BY <1>0, <1>4, <1>7, <1>10, <2>2, ReservedFollowsOrder
<1>14. LedgerReproducesStock'
  BY <1>0, <1>2, <1>8, <1>10, LedgerFollowsOrder
<1>15. GoodsFollowStatus'
  <2>1. \A p \in Order : (p \in Away') <=> (p \in Away)
    BY <1>4 DEF Away
  <2>2. o \notin Away
    BY <1>4 DEF Away
  <2> QED  BY <1>0, <1>2, <1>5, <1>6, <1>7, <2>1, <2>2 DEF GoodsFollowStatus
<1>16. ReadyMeansFullyAllocated'
  <2>1. ASSUME NEW s \in Sku PROVE Sum(held'[o], BatchesOf(s)) = order[o].cart[s]
    <3>1. Sum(held[o], BatchesOf(s)) = 0
      BY <1>6, SumZero DEF BatchesOf
    <3>2. order[o].cart[s] \in Nat
      BY <1>0, RowTypes
    <3>3. Needs(o, s) = order[o].cart[s]
      BY <3>1, <3>2 DEF Needs
    <3>4. Sum(held'[o], BatchesOf(s)) = Sum(take, BatchesOf(s))
      BY <1>7, SumCong DEF BatchesOf
    <3> QED  BY <1>5, <3>3, <3>4
  <2> QED  BY <1>0, <1>4, <1>7, <1>9, <2>1 DEF ReadyMeansFullyAllocated
<1>17. NothingAhead'
  <2>1. ASSUME NEW b \in Batch, b > lastBatch
        PROVE  /\ batch'[b].sku = NoSku /\ batch'[b].received = 0
               /\ batch'[b].remaining = 0 /\ batch'[b].reserved = 0 /\ take[b] = 0
    <3>1. /\ batch[b].sku = NoSku /\ batch[b].received = 0
          /\ batch[b].remaining = 0 /\ batch[b].reserved = 0
      BY <1>0, <2>1 DEF NothingAhead
    <3>2. take[b] = 0
      BY <1>5, <3>1
    <3> QED  BY <1>8, <3>1, <3>2
  <2>2. ASSUME NEW b \in Batch, b > lastBatch, NEW p \in Order PROVE held'[p][b] = 0
    BY <1>0, <1>7, <2>1, <2>2 DEF NothingAhead
  <2>3. ASSUME NEW p \in Order, NEW b \in Batch
        PROVE  /\ order'[p].status \in {"UNBOOKED", "PENDING"} => held'[p][b] = 0
               /\ order'[p].status \in {"UNBOOKED", "PENDING", "READY_TO_SHIP"} => out'[p][b] = 0
    BY <1>0, <1>2, <1>4, <1>6, <1>7 DEF NothingAhead
  <2> QED  BY <1>2, <2>1, <2>2, <2>3 DEF NothingAhead
<1>18. ReservedWithinStock'
  <2>1. \A b \in Batch : batch'[b].reserved <= batch'[b].remaining
    BY <1>0, <1>5, <1>8, RowTypes DEF Free
  <2> QED  BY <1>10, <1>11, <1>12, <2>1, AggregateWithinTotal
<1> QED  BY <1>10, <1>11, <1>12, <1>13, <1>14, <1>15, <1>16, <1>17, <1>18 DEF LooseInv

\* Issuing an invoice, or finding it issued, keeps the invoices well-typed.
LEMMA IssueInvoiceType ==
  ASSUME TypeOK, NEW o \in Order, IssueInvoice(o)
  PROVE  invoice' \in [Order -> [series : Series, serial : Nat]] /\ counter' \in [Series -> Nat]
<1>1. CASE UNCHANGED invoices
  BY <1>1 DEF invoices, TypeOK
<1>2. CASE ~UNCHANGED invoices
  <2> DEFINE brands == {BrandOf[s] : s \in {t \in Sku : order[o].cart[t] > 0}}
  <2>1. PICK brand \in brands :
          LET series == <<CodeOf[brand], order[o].channel>>
          IN  /\ counter' = [counter EXCEPT ![series] = @ + 1]
              /\ invoice' = [invoice EXCEPT ![o] = [series |-> series, serial |-> counter[series] + 1]]
    BY <1>2 DEF IssueInvoice
  <2> DEFINE series == <<CodeOf[brand], order[o].channel>>
  <2>2. brand \in Brand
    BY SkuAssumption
  <2>3. order[o].channel \in Channel
    BY DEF TypeOK, OrderRow
  <2>4. series \in Series
    BY <2>2, <2>3, SkuAssumption DEF Series
  <2>5. counter[series] + 1 \in Nat
    BY <2>4 DEF TypeOK
  <2> HIDE DEF series
  <2>6. /\ counter' = [counter EXCEPT ![series] = counter[series] + 1]
        /\ invoice' = [invoice EXCEPT ![o] = [series |-> series, serial |-> counter[series] + 1]]
    BY <2>1 DEF series
  <2> QED  BY <2>4, <2>5, <2>6 DEF TypeOK
<1> QED  BY <1>1, <1>2

\* A row whose quantities are replaced by quantities is still a row.
LEMMA RowUpdate ==
  ASSUME NEW row \in BatchRow, NEW m \in Nat, NEW n \in Nat
  PROVE  /\ [row EXCEPT !.reserved = m] \in BatchRow
         /\ [row EXCEPT !.remaining = n] \in BatchRow
         /\ [row EXCEPT !.reserved = m, !.remaining = n] \in BatchRow
BY DEF BatchRow

\* An order that is ready has nothing left to reserve.
LEMMA ReadyTakesNothing ==
  ASSUME NEW loose \in [Sku -> Nat], LooseInv(loose), NEW o \in Order, order[o].status = "READY_TO_SHIP", NEW take \in Reservations(o)
  PROVE  /\ \A s \in Sku : Sum(take, BatchesOf(s)) = 0
         /\ \A b \in Batch : take[b] = 0
<1>1. TypeOK /\ ReservedWithinStock
  BY DEF LooseInv
<1>2. ASSUME NEW s \in Sku PROVE Needs(o, s) = 0
  <2>1. Sum(held[o], BatchesOf(s)) = order[o].cart[s]
    BY DEF LooseInv, ReadyMeansFullyAllocated
  <2>2. order[o].cart[s] \in Nat
    BY <1>1, RowTypes
  <2> QED  BY <2>1, <2>2 DEF Needs
<1> QED  BY <1>1, <1>2, ReservationFacts, NoNeedNoTake

\* A dispatch takes the reserved units, and those only, out of the stock.
LEMMA DispatchKeeps ==
  ASSUME NEW loose \in [Sku -> Nat], LooseInv(loose), NEW a \in Actor, NEW o \in Order, NEW d \in Driver \cup {NoDriver},
         Dispatch(a, o, d)
  PROVE  LooseInv(loose)'
<1>0. /\ TypeOK /\ ReservedWithinStock /\ TotalHolds(loose) /\ ReservedIsSumOfBatches
      /\ ReservedIsHeldByOpenOrders /\ LedgerReproducesStock /\ GoodsFollowStatus
      /\ ReadyMeansFullyAllocated /\ NothingAhead
  BY DEF LooseInv
<1>1. PICK take \in Reservations(o) :
        /\ batch' = [b \in Batch |->
             [batch[b] EXCEPT !.reserved = @ + take[b] - held[o][b],
                              !.remaining = @ - held[o][b]]]
        /\ inventory' = [s \in Sku |->
             [total |-> inventory[s].total - Sum(held[o], BatchesOf(s)),
              reserved |-> MaxZero(inventory[s].reserved + Sum(take, BatchesOf(s))
                                     - Sum(held[o], BatchesOf(s)))]]
        /\ held' = [held EXCEPT ![o] = Plus(held[o], take, Batch)]
  BY DEF Dispatch
<1>2. /\ UNCHANGED <<today, lastBatch, back>>
      /\ out' = [out EXCEPT ![o] = Plus(out[o], held[o], Batch)]
      /\ IssueInvoice(o)
      /\ Move(a, o, d, "OUT_FOR_DELIVERY")
  BY DEF Dispatch
<1>4. /\ order' \in [Order -> OrderRow]
      /\ \A p \in Order : p # o => order'[p] = order[p]
      /\ order'[o].status = "OUT_FOR_DELIVERY" /\ order'[o].cart = order[o].cart
      /\ order[o].status = "READY_TO_SHIP"
  <2>1. "OUT_FOR_DELIVERY" \in OrderStatus
    BY DEF OrderStatus
  <2> QED  BY <1>0, <1>2, <2>1, MoveFacts, TransitionTable
<1>5. /\ \A s \in Sku : Sum(take, BatchesOf(s)) = 0
      /\ \A b \in Batch : take[b] = 0
  BY <1>4, ReadyTakesNothing
<1>6. \A b \in Batch : /\ held[o][b] \in Nat /\ out[o][b] = 0
                      /\ held[o][b] <= batch[b].reserved
                      /\ batch[b].reserved <= batch[b].remaining
  <2>1. o \in Open
    BY <1>4 DEF Open
  <2> QED  BY <1>0, <1>4, <2>1, RowTypes, HeldIsReserved DEF NothingAhead, ReservedWithinStock
<1>7. held' = held
  <2>1. held[o] \in Quantities
    BY <1>0 DEF TypeOK
  <2>2. \A b \in Batch : held[o][b] + take[b] = held[o][b]
    BY <1>5, <1>6
  <2>3. Plus(held[o], take, Batch) = held[o]
    BY <2>1, <2>2 DEF Plus, Quantities
  <2> QED  BY <1>0, <1>1, <2>3 DEF TypeOK
<1>3. \A b \in Batch :
        /\ batch[b].reserved - held[o][b] \in Nat /\ batch[b].remaining - held[o][b] \in Nat
        /\ batch'[b] = [batch[b] EXCEPT !.reserved = batch[b].reserved - held[o][b],
                                        !.remaining = batch[b].remaining - held[o][b]]
  <2>1. TAKE b \in Batch
  <2>2. /\ batch[b].reserved \in Nat /\ batch[b].remaining \in Nat
        /\ batch[b].reserved + take[b] - held[o][b] = batch[b].reserved - held[o][b]
        /\ batch[b].reserved - held[o][b] \in Nat /\ batch[b].remaining - held[o][b] \in Nat
    BY <1>0, <1>5, <1>6, RowTypes
  <2> QED  BY <1>1, <2>2
<1>8. \A b \in Batch :
        /\ batch[b].reserved \in Nat /\ batch[b].remaining \in Nat
        /\ batch'[b].reserved = batch[b].reserved - held[o][b]
        /\ batch'[b].remaining = batch[b].remaining - held[o][b]
        /\ batch'[b].reserved \in Nat /\ batch'[b].remaining \in Nat
        /\ batch'[b].received = batch[b].received /\ batch'[b].sku = batch[b].sku
  <2>1. TAKE b \in Batch
  <2>2. batch[b] \in BatchRow
    BY <1>0 DEF TypeOK
  <2> QED  BY <1>3, <2>2 DEF BatchRow
<1>9. batch' \in [Batch -> BatchRow]
  <2>1. ASSUME NEW b \in Batch PROVE batch'[b] \in BatchRow
    <3>1. batch[b] \in BatchRow
      BY <1>0 DEF TypeOK
    <3> DEFINE m == batch[b].reserved - held[o][b]
               n == batch[b].remaining - held[o][b]
    <3>2. m \in Nat /\ n \in Nat /\ batch'[b] = [batch[b] EXCEPT !.reserved = m, !.remaining = n]
      BY <1>3
    <3> HIDE DEF m, n
    <3>3. [batch[b] EXCEPT !.reserved = m, !.remaining = n] \in BatchRow
      BY <3>1, <3>2, RowUpdate
    <3> QED  BY <3>2, <3>3
  <2> QED  BY <1>1, <2>1
<1>10. \A b \in Batch : /\ out'[o][b] = held[o][b]
                       /\ \A p \in Order : p # o => out'[p] = out[p]
  BY <1>0, <1>2, <1>6 DEF Plus, TypeOK
<1>11. ASSUME NEW s \in Sku
       PROVE  /\ BatchesOf(s)' = BatchesOf(s)
              /\ inventory'[s].total = Sum(Remaining', BatchesOf(s)) + loose[s]
              /\ inventory'[s].reserved = Sum(Reserved', BatchesOf(s))
              /\ inventory'[s] \in [total : Nat, reserved : Nat]
  <2> DEFINE S == BatchesOf(s)
  <2>1. BatchesOf(s)' = S /\ S \in SUBSET Batch
    BY <1>8 DEF BatchesOf
  <2>2. held[o] \in Quantities /\ Remaining' \in Quantities /\ Reserved' \in Quantities
    BY <1>0, <1>8 DEF TypeOK, Remaining, Reserved, Quantities
  <2>3. \A b \in Batch : /\ Remaining[b] = Remaining'[b] + held[o][b]
                        /\ Reserved[b] = Reserved'[b] + held[o][b]
    BY <1>6, <1>8 DEF Remaining, Reserved
  <2>4. Sum(Remaining, S) = Sum(Remaining', S) + Sum(held[o], S)
    BY <2>1, <2>2, <2>3, QuantityAdd
  <2>5. Sum(Reserved, S) = Sum(Reserved', S) + Sum(held[o], S)
    BY <2>1, <2>2, <2>3, QuantityAdd
  <2>6. Sum(Remaining', S) \in Nat /\ Sum(Reserved', S) \in Nat /\ Sum(held[o], S) \in Nat
    BY <2>1, <2>2, QuantityType
  <2>7. inventory[s].total = Sum(Remaining, S) + loose[s] /\ inventory[s].reserved = Sum(Reserved, S)
    BY <1>0 DEF TotalHolds, ReservedIsSumOfBatches
  <2>8. inventory'[s] =
          [total |-> inventory[s].total - Sum(held[o], S),
           reserved |-> MaxZero(inventory[s].reserved + 0 - Sum(held[o], S))]
    BY <1>1, <1>5
  <2> HIDE DEF S
  <2>9. /\ inventory[s].total - Sum(held[o], S) = Sum(Remaining', S) + loose[s]
        /\ MaxZero(inventory[s].reserved + 0 - Sum(held[o], S)) = Sum(Reserved', S)
    BY <2>4, <2>5, <2>6, <2>7 DEF MaxZero
  <2> QED  BY <2>1, <2>6, <2>8, <2>9 DEF S
<1>12. TypeOK'
  <2>1. inventory' \in [Sku -> [total : Nat, reserved : Nat]]
    BY <1>1, <1>11
  <2>2. out' \in [Order -> Quantities]
    BY <1>0, <1>2, <1>6 DEF TypeOK, Plus, Quantities
  <2>3. held' \in [Order -> Quantities]
    BY <1>0, <1>7 DEF TypeOK
  <2>4. invoice' \in [Order -> [series : Series, serial : Nat]] /\ counter' \in [Series -> Nat]
    BY <1>0, <1>2, IssueInvoiceType
  <2> QED  BY <1>0, <1>2, <1>4, <1>9, <2>1, <2>2, <2>3, <2>4 DEF TypeOK
<1>13. TotalHolds(loose)' /\ ReservedIsSumOfBatches'
  BY <1>11 DEF TotalHolds, ReservedIsSumOfBatches
<1>14. ReservedIsHeldByOpenOrders'
  <2>1. o \in Open /\ o \notin Open'
    BY <1>4 DEF Open
  <2>2. \A b \in Batch :
          batch'[b].reserved + (IF o \in Open THEN held[o][b] ELSE 0) =
            batch[b].reserved + (IF o \in Open' THEN held'[o][b] ELSE 0)
    BY <1>6, <1>7, <1>8, <2>1
  <2> QED  BY <1>0, <1>4, <1>7, <1>12, <2>2, ReservedFollowsOrder
<1>15. LedgerReproducesStock'
  <2>1. \A b \in Batch :
          /\ batch'[b].received = batch[b].received
          /\ batch'[b].remaining + out'[o][b] + back[o][b] =
               batch[b].remaining + out[o][b] + back'[o][b]
    <3>1. \A b \in Batch : back'[o][b] = back[o][b] /\ back[o][b] \in Nat
      BY <1>0, <1>2, RowTypes
    <3> QED  BY <1>6, <1>8, <1>10, <3>1
  <2>2. \A p \in Order : p # o => out'[p] = out[p] /\ back'[p] = back[p]
    BY <1>0, <1>2 DEF TypeOK
  <2> QED  BY <1>0, <1>12, <2>1, <2>2, LedgerFollowsOrder
<1>16. GoodsFollowStatus'
  <2>1. o \notin Away /\ o \in Away' /\ \A p \in Order : p # o => (p \in Away' <=> p \in Away)
    BY <1>4 DEF Away
  <2>2. ASSUME NEW b \in Batch
        PROVE  out'[o][b] = back'[o][b] + held'[o][b] /\ out'[o][b] \in {0, held'[o][b]}
    <3>1. out[o][b] = back[o][b] /\ back[o][b] \in Nat
      BY <1>0, <2>1, RowTypes DEF GoodsFollowStatus
    <3> QED  BY <1>2, <1>6, <1>7, <1>10, <3>1
  <2>3. ASSUME NEW p \in Order, NEW b \in Batch, p # o
        PROVE  /\ out'[p][b] = back'[p][b] + (IF p \in Away' THEN held'[p][b] ELSE 0)
               /\ out'[p][b] \in {0, held'[p][b]}
    BY <1>0, <1>2, <1>7, <1>10, <2>1, <2>3 DEF GoodsFollowStatus
  <2> QED  BY <2>1, <2>2, <2>3 DEF GoodsFollowStatus
<1>17. ReadyMeansFullyAllocated'
  BY <1>0, <1>4, <1>7, <1>11 DEF ReadyMeansFullyAllocated
<1>18. NothingAhead'
  <2>1. ASSUME NEW b \in Batch, b > lastBatch
        PROVE  /\ batch'[b].sku = NoSku /\ batch'[b].received = 0
               /\ batch'[b].remaining = 0 /\ batch'[b].reserved = 0
    <3>1. /\ held[o][b] = 0 /\ batch[b].sku = NoSku /\ batch[b].received = 0
          /\ batch[b].remaining = 0 /\ batch[b].reserved = 0
      BY <1>0, <2>1 DEF NothingAhead
    <3> QED  BY <1>8, <3>1
  <2>3. ASSUME NEW p \in Order, NEW b \in Batch
        PROVE  /\ order'[p].status \in {"UNBOOKED", "PENDING"} => held'[p][b] = 0
               /\ order'[p].status \in {"UNBOOKED", "PENDING", "READY_TO_SHIP"} => out'[p][b] = 0
    BY <1>0, <1>4, <1>7, <1>10 DEF NothingAhead
  <2> QED  BY <1>0, <1>2, <1>7, <2>1, <2>3 DEF NothingAhead
<1>19. ReservedWithinStock'
  <2>1. \A b \in Batch : batch'[b].reserved <= batch'[b].remaining
    BY <1>6, <1>8
  <2> QED  BY <1>12, <1>13, <2>1, AggregateWithinTotal
<1> QED  BY <1>12, <1>13, <1>14, <1>15, <1>16, <1>17, <1>18, <1>19 DEF LooseInv

\* A step that moves no stock keeps the promises when it books an order or
\* records a delivery.
LEMMA QuietStepKeeps ==
  ASSUME NEW loose \in [Sku -> Nat], LooseInv(loose), TypeOK', UNCHANGED stock, NEW o \in Order,
         \A p \in Order : p # o => order'[p] = order[p],
         \/ order[o].status = "UNBOOKED" /\ order'[o].status = "PENDING"
         \/ /\ order[o].status = "OUT_FOR_DELIVERY" /\ order'[o].status = "DELIVERED"
            /\ order'[o].cart = order[o].cart
  PROVE  LooseInv(loose)'
<1>0. /\ TypeOK /\ ReservedWithinStock /\ TotalHolds(loose) /\ ReservedIsSumOfBatches
      /\ ReservedIsHeldByOpenOrders /\ LedgerReproducesStock /\ GoodsFollowStatus
      /\ ReadyMeansFullyAllocated /\ NothingAhead
  BY DEF LooseInv
<1>1. UNCHANGED <<inventory, batch, lastBatch, held, out, back>>
  BY DEF stock
<1>2. \A s \in Sku : BatchesOf(s)' = BatchesOf(s)
  BY <1>1 DEF BatchesOf
<1>3. Remaining' = Remaining /\ Reserved' = Reserved
  BY <1>1 DEF Remaining, Reserved
<1>4. ReservedWithinStock' /\ TotalHolds(loose)' /\ ReservedIsSumOfBatches' /\ LedgerReproducesStock'
  BY <1>0, <1>1, <1>2, <1>3
     DEF ReservedWithinStock, TotalHolds, ReservedIsSumOfBatches, LedgerReproducesStock
<1>5. ReservedIsHeldByOpenOrders'
  <2>1. CASE order[o].status = "UNBOOKED" /\ order'[o].status = "PENDING"
    <3>1. o \notin Open /\ o \in Open'
      BY <2>1 DEF Open
    <3>2. \A b \in Batch : held'[o][b] = 0
      BY <1>0, <1>1, <2>1 DEF NothingAhead
    <3>3. \A b \in Batch :
            batch'[b].reserved + (IF o \in Open THEN held[o][b] ELSE 0) =
              batch[b].reserved + (IF o \in Open' THEN held'[o][b] ELSE 0)
      BY <1>1, <3>1, <3>2
    <3> QED  BY <1>0, <1>1, <3>3, ReservedFollowsOrder
  <2>2. CASE order[o].status = "OUT_FOR_DELIVERY" /\ order'[o].status = "DELIVERED"
    <3>1. Open' = Open
      BY <2>2 DEF Open
    <3> QED  BY <1>0, <1>1, <3>1 DEF ReservedIsHeldByOpenOrders
  <2> QED  BY <2>1, <2>2
<1>6. GoodsFollowStatus'
  <2>1. Away' = Away
    BY DEF Away
  <2> QED  BY <1>0, <1>1, <2>1 DEF GoodsFollowStatus
<1>7. ReadyMeansFullyAllocated'
  BY <1>0, <1>1, <1>2 DEF ReadyMeansFullyAllocated
<1>8. NothingAhead'
  BY <1>0, <1>1 DEF NothingAhead
<1> QED  BY <1>4, <1>5, <1>6, <1>7, <1>8 DEF LooseInv

\* Booking an order reserves nothing.
LEMMA CreateOrderKeeps ==
  ASSUME NEW loose \in [Sku -> Nat], LooseInv(loose), NEW a \in Actor, NEW o \in Order, NEW r \in Retailer, NEW cart \in Carts,
         CreateOrder(a, o, r, cart)
  PROVE  LooseInv(loose)'
<1> DEFINE booked ==
      [status |-> "PENDING", cart |-> cart, retailer |-> r, driver |-> NoDriver,
       channel |-> IF a.role = "RETAILER" THEN "ONLINE" ELSE "OFFLINE",
       trail |-> <<[status |-> "PENDING", role |-> a.role]>>]
<1>1. /\ order[o].status = "UNBOOKED"
      /\ order' = [order EXCEPT ![o] = booked]
      /\ UNCHANGED <<today, stock, invoices>>
  BY DEF CreateOrder
<1>2. TypeOK
  BY DEF LooseInv
<1>3. booked \in OrderRow /\ booked.status = "PENDING"
  <2>1. a.role \in Roles /\ cart \in [Sku -> Nat]
    BY OrderAssumption
  <2>2. <<[status |-> "PENDING", role |-> a.role]>> \in Seq([status : OrderStatus, role : Roles])
    BY <2>1 DEF OrderStatus
  <2> QED  BY <2>1, <2>2 DEF OrderRow, OrderStatus, Channel
<1> HIDE DEF booked
<1>4. order'[o] = booked /\ \A p \in Order : p # o => order'[p] = order[p]
  BY <1>1, <1>2 DEF TypeOK
<1>5. order' \in [Order -> OrderRow]
  BY <1>1, <1>2, <1>3 DEF TypeOK
<1>6. TypeOK'
  BY <1>1, <1>2, <1>5 DEF TypeOK, stock, invoices
<1> QED  BY <1>1, <1>3, <1>4, <1>6, QuietStepKeeps

\* Recording a delivery moves nothing.
LEMMA DeliverKeeps ==
  ASSUME NEW loose \in [Sku -> Nat], LooseInv(loose), NEW a \in Actor, NEW o \in Order, NEW d \in Driver \cup {NoDriver},
         Deliver(a, o, d)
  PROVE  LooseInv(loose)'
<1>1. Move(a, o, d, "DELIVERED") /\ UNCHANGED <<today, stock, invoices>>
  BY DEF Deliver
<1>2. TypeOK
  BY DEF LooseInv
<1>3. /\ order' \in [Order -> OrderRow]
      /\ \A p \in Order : p # o => order'[p] = order[p]
      /\ order'[o].status = "DELIVERED" /\ order'[o].cart = order[o].cart
      /\ order[o].status = "OUT_FOR_DELIVERY"
  <2>1. "DELIVERED" \in OrderStatus
    BY DEF OrderStatus
  <2> QED  BY <1>1, <1>2, <2>1, MoveFacts, TransitionTable
<1>4. TypeOK'
  BY <1>1, <1>2, <1>3 DEF TypeOK, stock, invoices
<1> QED  BY <1>1, <1>3, <1>4, QuietStepKeeps

\* The promises do not depend on the date.
LEMMA NextDayKeeps ==
  ASSUME NEW loose \in [Sku -> Nat], LooseInv(loose), NextDay
  PROVE  LooseInv(loose)'
<1>1. /\ today < MaxDay /\ today' = today + 1
      /\ UNCHANGED <<inventory, batch, lastBatch, held, out, back, order, invoice, counter>>
  BY DEF NextDay, stock, invoices
<1>2. today' \in Day
  BY <1>1, BoundAssumption DEF LooseInv, TypeOK, Day
<1>3. Open' = Open /\ Away' = Away /\ Remaining' = Remaining /\ Reserved' = Reserved
  BY <1>1 DEF Open, Away, Remaining, Reserved
<1>4. \A s \in Sku : BatchesOf(s)' = BatchesOf(s)
  BY <1>1 DEF BatchesOf
<1>5. TypeOK'
  BY <1>1, <1>2 DEF LooseInv, TypeOK
<1>6. /\ ReservedWithinStock' /\ TotalHolds(loose)' /\ ReservedIsSumOfBatches'
      /\ ReservedIsHeldByOpenOrders' /\ LedgerReproducesStock'
  BY <1>1, <1>3, <1>4
     DEF LooseInv, ReservedWithinStock, TotalHolds, ReservedIsSumOfBatches,
         ReservedIsHeldByOpenOrders, LedgerReproducesStock
<1>7. GoodsFollowStatus' /\ ReadyMeansFullyAllocated' /\ NothingAhead'
  BY <1>1, <1>3, <1>4 DEF LooseInv, GoodsFollowStatus, ReadyMeansFullyAllocated, NothingAhead
<1> QED  BY <1>5, <1>6, <1>7 DEF LooseInv

\* A cancellation before dispatch releases what the order had reserved.
LEMMA CancelReservedKeeps ==
  ASSUME NEW loose \in [Sku -> Nat], LooseInv(loose), NEW a \in Actor, NEW o \in Order, NEW d \in Driver \cup {NoDriver},
         CancelReserved(a, o, d)
  PROVE  LooseInv(loose)'
<1>0. /\ TypeOK /\ ReservedWithinStock /\ TotalHolds(loose) /\ ReservedIsSumOfBatches
      /\ ReservedIsHeldByOpenOrders /\ LedgerReproducesStock /\ GoodsFollowStatus
      /\ ReadyMeansFullyAllocated /\ NothingAhead
  BY DEF LooseInv
<1>1. /\ order[o].status \in {"PENDING", "READY_TO_SHIP"}
      /\ Move(a, o, d, "CANCELLED")
      /\ batch' = [b \in Batch |->
           [batch[b] EXCEPT !.reserved = IF held[o][b] > 0 THEN MaxZero(@ - held[o][b]) ELSE @]]
      /\ inventory' = [s \in Sku |->
           [inventory[s] EXCEPT !.reserved = MaxZero(@ - Sum(held[o], BatchesOf(s)))]]
      /\ held' = [held EXCEPT ![o] = [b \in Batch |-> 0]]
      /\ UNCHANGED <<today, lastBatch, out, back, invoice, counter>>
  BY DEF CancelReserved, invoices
<1>2. /\ order' \in [Order -> OrderRow]
      /\ \A p \in Order : p # o => order'[p] = order[p]
      /\ order'[o].status = "CANCELLED"
  <2>1. "CANCELLED" \in OrderStatus
    BY DEF OrderStatus
  <2> QED  BY <1>0, <1>1, <2>1, MoveFacts
<1>3. \A b \in Batch : /\ held[o][b] \in Nat /\ out[o][b] = 0
                      /\ batch[b].reserved \in Nat /\ batch[b].remaining \in Nat
                      /\ held[o][b] <= batch[b].reserved
                      /\ batch[b].reserved <= batch[b].remaining
  <2>1. o \in Open
    BY <1>1 DEF Open
  <2> QED  BY <1>0, <1>1, <2>1, RowTypes, HeldIsReserved DEF NothingAhead, ReservedWithinStock
<1>4. /\ \A b \in Batch : held'[o][b] = 0
      /\ \A p \in Order : p # o => held'[p] = held[p]
      /\ held' \in [Order -> Quantities]
  BY <1>0, <1>1 DEF TypeOK, Quantities
<1>5. \A b \in Batch :
        /\ batch'[b] = [batch[b] EXCEPT !.reserved = batch[b].reserved - held[o][b]]
        /\ batch[b].reserved - held[o][b] \in Nat
  <2>1. TAKE b \in Batch
  <2>2. /\ batch[b].reserved - held[o][b] \in Nat
        /\ (IF held[o][b] > 0 THEN MaxZero(batch[b].reserved - held[o][b]) ELSE batch[b].reserved)
             = batch[b].reserved - held[o][b]
    BY <1>3 DEF MaxZero
  <2> QED  BY <1>1, <2>2
<1>6. /\ batch' \in [Batch -> BatchRow]
      /\ \A b \in Batch :
           /\ batch'[b].reserved = batch[b].reserved - held[o][b]
           /\ batch'[b].remaining = batch[b].remaining /\ batch'[b].sku = batch[b].sku
           /\ batch'[b].received = batch[b].received
  <2>1. ASSUME NEW b \in Batch
        PROVE  /\ batch'[b] \in BatchRow
               /\ batch'[b].reserved = batch[b].reserved - held[o][b]
               /\ batch'[b].remaining = batch[b].remaining /\ batch'[b].sku = batch[b].sku
               /\ batch'[b].received = batch[b].received
    <3> DEFINE m == batch[b].reserved - held[o][b]
    <3>1. m \in Nat /\ batch'[b] = [batch[b] EXCEPT !.reserved = m] /\ batch[b] \in BatchRow
      BY <1>0, <1>5 DEF TypeOK
    <3> HIDE DEF m
    <3>2. /\ batch'[b] \in BatchRow /\ batch'[b].reserved = m
          /\ batch'[b].remaining = batch[b].remaining /\ batch'[b].sku = batch[b].sku
          /\ batch'[b].received = batch[b].received
      BY <3>1 DEF BatchRow
    <3> QED  BY <3>2 DEF m
  <2> QED  BY <1>1, <2>1
<1>7. ASSUME NEW s \in Sku
      PROVE  /\ BatchesOf(s)' = BatchesOf(s)
             /\ inventory'[s].total = Sum(Remaining', BatchesOf(s)) + loose[s]
             /\ inventory'[s].reserved = Sum(Reserved', BatchesOf(s))
             /\ inventory'[s] \in [total : Nat, reserved : Nat]
  <2> DEFINE S == BatchesOf(s)
  <2>1. BatchesOf(s)' = S /\ S \in SUBSET Batch
    BY <1>6 DEF BatchesOf
  <2>2. held[o] \in Quantities /\ Reserved' \in Quantities
    BY <1>0, <1>5, <1>6 DEF TypeOK, Reserved, Quantities
  <2>3. \A b \in Batch : Remaining'[b] = Remaining[b] /\ Reserved[b] = Reserved'[b] + held[o][b]
    BY <1>3, <1>6 DEF Remaining, Reserved
  <2>4. Sum(Remaining', S) = Sum(Remaining, S)
    BY <2>1, <2>3, SumCong
  <2>5. Sum(Reserved, S) = Sum(Reserved', S) + Sum(held[o], S)
    BY <2>1, <2>2, <2>3, QuantityAdd
  <2>6. Sum(Reserved', S) \in Nat /\ Sum(held[o], S) \in Nat
    BY <2>1, <2>2, QuantityType
  <2>7. /\ inventory[s].total = Sum(Remaining, S) + loose[s] /\ inventory[s].reserved = Sum(Reserved, S)
        /\ inventory[s] \in [total : Nat, reserved : Nat]
    BY <1>0 DEF TypeOK, TotalHolds, ReservedIsSumOfBatches
  <2>8. inventory'[s] =
          [inventory[s] EXCEPT !.reserved = MaxZero(inventory[s].reserved - Sum(held[o], S))]
    BY <1>1
  <2> HIDE DEF S
  <2>9. MaxZero(inventory[s].reserved - Sum(held[o], S)) = Sum(Reserved', S)
    BY <2>5, <2>6, <2>7 DEF MaxZero
  <2> QED  BY <2>1, <2>4, <2>6, <2>7, <2>8, <2>9 DEF S
<1>8. TypeOK'
  <2>1. inventory' \in [Sku -> [total : Nat, reserved : Nat]]
    BY <1>1, <1>7
  <2> QED  BY <1>0, <1>1, <1>2, <1>4, <1>6, <2>1 DEF TypeOK
<1>9. TotalHolds(loose)' /\ ReservedIsSumOfBatches'
  BY <1>7 DEF TotalHolds, ReservedIsSumOfBatches
<1>10. ReservedIsHeldByOpenOrders'
  <2>1. o \in Open /\ o \notin Open'
    BY <1>1, <1>2 DEF Open
  <2>2. \A b \in Batch :
          batch'[b].reserved + (IF o \in Open THEN held[o][b] ELSE 0) =
            batch[b].reserved + (IF o \in Open' THEN held'[o][b] ELSE 0)
    BY <1>3, <1>6, <2>1
  <2> QED  BY <1>0, <1>2, <1>4, <1>8, <2>2, ReservedFollowsOrder
<1>11. LedgerReproducesStock'
  BY <1>0, <1>1, <1>6, <1>8, LedgerFollowsOrder
<1>12. GoodsFollowStatus'
  <2>1. o \notin Away /\ Away' = Away
    BY <1>1, <1>2 DEF Away
  <2>2. ASSUME NEW b \in Batch
        PROVE  out'[o][b] = back'[o][b] + 0 /\ out'[o][b] \in {0, held'[o][b]}
    <3>1. out[o][b] = back[o][b] + 0
      BY <1>0, <2>1 DEF GoodsFollowStatus
    <3> QED  BY <1>1, <1>3, <3>1
  <2>3. ASSUME NEW p \in Order, NEW b \in Batch, p # o
        PROVE  /\ out'[p][b] = back'[p][b] + (IF p \in Away' THEN held'[p][b] ELSE 0)
               /\ out'[p][b] \in {0, held'[p][b]}
    BY <1>0, <1>1, <1>4, <2>1, <2>3 DEF GoodsFollowStatus
  <2> QED  BY <2>1, <2>2, <2>3 DEF GoodsFollowStatus
<1>13. ReadyMeansFullyAllocated'
  BY <1>0, <1>2, <1>4, <1>7 DEF ReadyMeansFullyAllocated
<1>14. NothingAhead'
  <2>1. ASSUME NEW b \in Batch, b > lastBatch
        PROVE  /\ batch'[b].sku = NoSku /\ batch'[b].received = 0
               /\ batch'[b].remaining = 0 /\ batch'[b].reserved = 0
               /\ \A p \in Order : held'[p][b] = 0
    <3>1. /\ batch[b].sku = NoSku /\ batch[b].received = 0
          /\ batch[b].remaining = 0 /\ batch[b].reserved = 0
          /\ \A p \in Order : held[p][b] = 0
      BY <1>0, <2>1 DEF NothingAhead
    <3> QED  BY <1>4, <1>6, <3>1
  <2>2. ASSUME NEW p \in Order, NEW b \in Batch
        PROVE  /\ order'[p].status \in {"UNBOOKED", "PENDING"} => held'[p][b] = 0
               /\ order'[p].status \in {"UNBOOKED", "PENDING", "READY_TO_SHIP"} => out'[p][b] = 0
    BY <1>0, <1>1, <1>2, <1>4 DEF NothingAhead
  <2> QED  BY <1>1, <2>1, <2>2 DEF NothingAhead
<1>15. ReservedWithinStock'
  <2>1. \A b \in Batch : batch'[b].reserved <= batch'[b].remaining
    BY <1>3, <1>6
  <2> QED  BY <1>8, <1>9, <2>1, AggregateWithinTotal
<1> QED  BY <1>8, <1>9, <1>10, <1>11, <1>12, <1>13, <1>14, <1>15 DEF LooseInv

\* A cancellation after dispatch brings back exactly what had left.
LEMMA CancelDispatchedKeeps ==
  ASSUME NEW loose \in [Sku -> Nat], LooseInv(loose), NEW a \in Actor, NEW o \in Order, NEW d \in Driver \cup {NoDriver},
         CancelDispatched(a, o, d)
  PROVE  LooseInv(loose)'
<1>0. /\ TypeOK /\ ReservedWithinStock /\ TotalHolds(loose) /\ ReservedIsSumOfBatches
      /\ ReservedIsHeldByOpenOrders /\ LedgerReproducesStock /\ GoodsFollowStatus
      /\ ReadyMeansFullyAllocated /\ NothingAhead
  BY DEF LooseInv
<1>1. /\ order[o].status \notin {"PENDING", "READY_TO_SHIP"}
      /\ Move(a, o, d, "CANCELLED")
      /\ batch' = [b \in Batch |-> [batch[b] EXCEPT !.remaining = @ + held[o][b]]]
      /\ inventory' = [s \in Sku |->
           [inventory[s] EXCEPT !.total = @ + Sum(held[o], BatchesOf(s))]]
      /\ back' = [back EXCEPT ![o] = Plus(back[o], held[o], Batch)]
      /\ UNCHANGED <<today, lastBatch, held, out, invoice, counter>>
  BY DEF CancelDispatched, invoices
<1>2. /\ order' \in [Order -> OrderRow]
      /\ \A p \in Order : p # o => order'[p] = order[p]
      /\ order'[o].status = "CANCELLED"
      /\ order[o].status \in {"OUT_FOR_DELIVERY", "DELIVERED"}
  <2>1. "CANCELLED" \in OrderStatus
    BY DEF OrderStatus
  <2>2. /\ order' \in [Order -> OrderRow]
        /\ \A p \in Order : p # o => order'[p] = order[p]
        /\ order'[o].status = "CANCELLED"
        /\ \E t \in AllowedTransitions : t[1] = order[o].status /\ t[2] = "CANCELLED"
    <3>1. TypeOK /\ Move(a, o, d, "CANCELLED")
      BY <1>0, <1>1
    <3> QED  BY <2>1, <3>1, MoveFacts
  <2>3. order[o].status \in {"PENDING", "READY_TO_SHIP", "OUT_FOR_DELIVERY", "DELIVERED"}
    BY <2>2, TransitionTable
  <2> QED  BY <1>1, <2>2, <2>3
<1>3. \A b \in Batch : /\ held[o][b] \in Nat /\ out[o][b] \in Nat /\ back[o][b] \in Nat
                      /\ batch[b].reserved \in Nat /\ batch[b].remaining \in Nat
                      /\ batch[b].reserved <= batch[b].remaining
  BY <1>0, RowTypes DEF ReservedWithinStock
<1>4. /\ back' \in [Order -> Quantities]
      /\ \A b \in Batch : back'[o][b] = back[o][b] + held[o][b]
      /\ \A p \in Order : p # o => back'[p] = back[p]
  BY <1>0, <1>1, <1>3 DEF TypeOK, Plus, Quantities
<1>5. /\ batch' \in [Batch -> BatchRow]
      /\ \A b \in Batch :
           /\ batch'[b].remaining = batch[b].remaining + held[o][b]
           /\ batch'[b].reserved = batch[b].reserved /\ batch'[b].sku = batch[b].sku
           /\ batch'[b].received = batch[b].received
  <2>1. ASSUME NEW b \in Batch
        PROVE  /\ batch'[b] \in BatchRow
               /\ batch'[b].remaining = batch[b].remaining + held[o][b]
               /\ batch'[b].reserved = batch[b].reserved /\ batch'[b].sku = batch[b].sku
               /\ batch'[b].received = batch[b].received
    <3> DEFINE m == batch[b].remaining + held[o][b]
    <3>1. m \in Nat /\ batch'[b] = [batch[b] EXCEPT !.remaining = m] /\ batch[b] \in BatchRow
      BY <1>0, <1>1, <1>3 DEF TypeOK
    <3> HIDE DEF m
    <3>2. /\ batch'[b] \in BatchRow /\ batch'[b].remaining = m
          /\ batch'[b].reserved = batch[b].reserved /\ batch'[b].sku = batch[b].sku
          /\ batch'[b].received = batch[b].received
      BY <3>1 DEF BatchRow
    <3> QED  BY <3>2 DEF m
  <2> QED  BY <1>1, <2>1
<1>6. ASSUME NEW s \in Sku
      PROVE  /\ BatchesOf(s)' = BatchesOf(s)
             /\ inventory'[s].total = Sum(Remaining', BatchesOf(s)) + loose[s]
             /\ inventory'[s].reserved = Sum(Reserved', BatchesOf(s))
             /\ inventory'[s] \in [total : Nat, reserved : Nat]
  <2> DEFINE S == BatchesOf(s)
  <2>1. BatchesOf(s)' = S /\ S \in SUBSET Batch
    BY <1>5 DEF BatchesOf
  <2>2. held[o] \in Quantities /\ Remaining \in Quantities
    BY <1>0, <1>3 DEF TypeOK, Remaining, Quantities
  <2>3. \A b \in Batch : Reserved'[b] = Reserved[b] /\ Remaining'[b] = Remaining[b] + held[o][b]
    BY <1>5 DEF Remaining, Reserved
  <2>4. Sum(Reserved', S) = Sum(Reserved, S)
    BY <2>1, <2>3, SumCong
  <2>5. Sum(Remaining', S) = Sum(Remaining, S) + Sum(held[o], S)
    BY <2>1, <2>2, <2>3, QuantityAdd
  <2>6. Sum(held[o], S) \in Nat
    BY <2>1, <2>2, QuantityType
  <2>7. /\ inventory[s].total = Sum(Remaining, S) + loose[s] /\ inventory[s].reserved = Sum(Reserved, S)
        /\ inventory[s] \in [total : Nat, reserved : Nat]
    BY <1>0 DEF TypeOK, TotalHolds, ReservedIsSumOfBatches
  <2>8. inventory'[s] = [inventory[s] EXCEPT !.total = inventory[s].total + Sum(held[o], S)]
    BY <1>1
  <2> HIDE DEF S
  <2>9. Sum(Remaining, S) \in Nat /\ loose[s] \in Nat
    BY <2>1, <2>2, QuantityType
  <2>10. \A m, n, l \in Nat : m + l + n \in Nat /\ m + l + n = m + n + l
    OBVIOUS
  <2>11. inventory'[s].total = Sum(Remaining', S) + loose[s] /\ inventory'[s].total \in Nat
    BY <2>5, <2>6, <2>7, <2>8, <2>9, <2>10
  <2>12. inventory'[s].reserved = Sum(Reserved', S) /\ inventory'[s] \in [total : Nat, reserved : Nat]
    BY <2>4, <2>7, <2>8, <2>11
  <2> QED  BY <2>1, <2>11, <2>12 DEF S
<1>7. TypeOK'
  <2>1. inventory' \in [Sku -> [total : Nat, reserved : Nat]]
    BY <1>1, <1>6
  <2> QED  BY <1>0, <1>1, <1>2, <1>4, <1>5, <2>1 DEF TypeOK
<1>8. TotalHolds(loose)' /\ ReservedIsSumOfBatches'
  BY <1>6 DEF TotalHolds, ReservedIsSumOfBatches
<1>9. ReservedIsHeldByOpenOrders'
  <2>1. o \notin Open /\ o \notin Open'
    BY <1>1, <1>2 DEF Open
  <2>2. \A b \in Batch :
          batch'[b].reserved + (IF o \in Open THEN held[o][b] ELSE 0) =
            batch[b].reserved + (IF o \in Open' THEN held'[o][b] ELSE 0)
    BY <1>3, <1>5, <2>1
  <2> QED  BY <1>0, <1>1, <1>2, <1>7, <2>2, ReservedFollowsOrder
<1>10. LedgerReproducesStock'
  <2>1. \A b \in Batch :
          /\ batch'[b].received = batch[b].received
          /\ batch'[b].remaining + out'[o][b] + back[o][b] =
               batch[b].remaining + out[o][b] + back'[o][b]
    BY <1>1, <1>3, <1>4, <1>5
  <2>2. \A p \in Order : p # o => out'[p] = out[p] /\ back'[p] = back[p]
    BY <1>1, <1>4
  <2> QED  BY <1>0, <1>7, <2>1, <2>2, LedgerFollowsOrder
<1>11. GoodsFollowStatus'
  <2>1. o \in Away /\ o \notin Away' /\ \A p \in Order : p # o => (p \in Away' <=> p \in Away)
    BY <1>2 DEF Away
  <2>2. ASSUME NEW b \in Batch
        PROVE  out'[o][b] = back'[o][b] + 0 /\ out'[o][b] \in {0, held'[o][b]}
    <3>1. out[o][b] = back[o][b] + held[o][b] /\ out[o][b] \in {0, held[o][b]}
      BY <1>0, <2>1 DEF GoodsFollowStatus
    <3> QED  BY <1>1, <1>3, <1>4, <3>1
  <2>3. ASSUME NEW p \in Order, NEW b \in Batch, p # o
        PROVE  /\ out'[p][b] = back'[p][b] + (IF p \in Away' THEN held'[p][b] ELSE 0)
               /\ out'[p][b] \in {0, held'[p][b]}
    BY <1>0, <1>1, <1>4, <2>1, <2>3 DEF GoodsFollowStatus
  <2> QED  BY <2>1, <2>2, <2>3 DEF GoodsFollowStatus
<1>12. ReadyMeansFullyAllocated'
  BY <1>0, <1>1, <1>2, <1>6 DEF ReadyMeansFullyAllocated
<1>13. NothingAhead'
  <2>1. ASSUME NEW b \in Batch, b > lastBatch
        PROVE  /\ batch'[b].sku = NoSku /\ batch'[b].received = 0
               /\ batch'[b].remaining = 0 /\ batch'[b].reserved = 0
               /\ \A p \in Order : held[p][b] = 0
    <3>1. /\ batch[b].sku = NoSku /\ batch[b].received = 0
          /\ batch[b].remaining = 0 /\ batch[b].reserved = 0
          /\ \A p \in Order : held[p][b] = 0
      BY <1>0, <2>1 DEF NothingAhead
    <3> QED  BY <1>5, <3>1
  <2>2. ASSUME NEW p \in Order, NEW b \in Batch
        PROVE  /\ order'[p].status \in {"UNBOOKED", "PENDING"} => held'[p][b] = 0
               /\ order'[p].status \in {"UNBOOKED", "PENDING", "READY_TO_SHIP"} => out'[p][b] = 0
    BY <1>0, <1>1, <1>2 DEF NothingAhead
  <2> QED  BY <1>1, <2>1, <2>2 DEF NothingAhead
<1>14. ReservedWithinStock'
  <2>1. \A b \in Batch : batch'[b].reserved <= batch'[b].remaining
    BY <1>3, <1>5
  <2> QED  BY <1>7, <1>8, <2>1, AggregateWithinTotal
<1> QED  BY <1>7, <1>8, <1>9, <1>10, <1>11, <1>12, <1>13, <1>14 DEF LooseInv

\* A receipt adds fresh batches, nothing of which is reserved or away.
LEMMA ReceiveKeeps ==
  ASSUME NEW loose \in [Sku -> Nat], LooseInv(loose), NEW r \in Receipts, Receive(r)
  PROVE  LooseInv(loose)'
<1>0. /\ TypeOK /\ ReservedWithinStock /\ TotalHolds(loose) /\ ReservedIsSumOfBatches
      /\ ReservedIsHeldByOpenOrders /\ LedgerReproducesStock /\ GoodsFollowStatus
      /\ ReadyMeansFullyAllocated /\ NothingAhead
  BY DEF LooseInv
<1> DEFINE new == lastBatch + 1 .. lastBatch + Len(r)
           item(b) == r[b - lastBatch]
           arriving == [b \in new |-> item(b).quantity]
           arrived(s) == {b \in new : item(b).sku = s}
<1>1. /\ lastBatch + Len(r) <= MaxBatch /\ lastBatch' = lastBatch + Len(r)
      /\ batch' = [b \in Batch |->
           IF b \notin new THEN batch[b]
           ELSE [sku |-> item(b).sku, expiry |-> item(b).expiry, received |-> arriving[b],
                 remaining |-> arriving[b], reserved |-> 0]]
      /\ inventory' = [s \in Sku |->
           [inventory[s] EXCEPT !.total = @ + Sum(arriving, arrived(s))]]
      /\ UNCHANGED <<today, held, out, back, order, invoice, counter>>
  BY DEF Receive, invoices
<1>2. /\ Len(r) \in Nat /\ lastBatch \in Nat /\ lastBatch' \in 0 .. MaxBatch
      /\ \A i \in 1 .. Len(r) : r[i] \in [sku : Sku, expiry : Day \cup {Never}, quantity : Nat]
  <2>1. r \in Seq([sku : Sku, expiry : Day \cup {Never}, quantity : Nat])
    BY BoundAssumption
  <2>2. Len(r) \in Nat
    BY <2>1
  <2>3. lastBatch \in 0 .. MaxBatch /\ MaxBatch \in Nat
    BY <1>0, BoundAssumption DEF TypeOK
  <2>4. \A i \in 1 .. Len(r) : r[i] \in [sku : Sku, expiry : Day \cup {Never}, quantity : Nat]
    <3> DEFINE Item == [sku : Sku, expiry : Day \cup {Never}, quantity : Nat]
    <3>1. r \in Seq(Item)
      BY <2>1
    <3> HIDE DEF Item
    <3>2. \A i \in 1 .. Len(r) : r[i] \in Item
      BY <3>1
    <3> QED  BY <3>2 DEF Item
  <2>5. lastBatch \in Nat /\ lastBatch' \in 0 .. MaxBatch
    BY <1>1, <2>2, <2>3
  <2> QED  BY <2>2, <2>4, <2>5
<1>3. /\ new \in SUBSET Batch
      /\ \A b \in new : /\ b > lastBatch
                        /\ item(b).sku \in Sku /\ item(b).expiry \in Day \cup {Never}
                        /\ arriving[b] \in Nat
  <2>1. ASSUME NEW b \in new
        PROVE  /\ b \in Batch /\ b > lastBatch
               /\ item(b).sku \in Sku /\ item(b).expiry \in Day \cup {Never}
               /\ arriving[b] \in Nat
    <3>1. b - lastBatch \in 1 .. Len(r) /\ b \in 1 .. MaxBatch /\ b > lastBatch
      BY <1>1, <1>2, BoundAssumption
    <3> QED  BY <1>2, <3>1 DEF Batch
  <2> QED  BY <2>1
<1>4. \A b \in new :
        /\ batch[b].sku = NoSku /\ batch[b].received = 0
        /\ batch[b].remaining = 0 /\ batch[b].reserved = 0
        /\ \A o \in Order : held[o][b] = 0
  BY <1>0, <1>3 DEF NothingAhead
<1> HIDE DEF new, item, arriving
<1>5. /\ \A b \in Batch : b \notin new => batch'[b] = batch[b]
      /\ \A b \in new : /\ batch'[b].sku = item(b).sku /\ batch'[b].received = arriving[b]
                        /\ batch'[b].remaining = arriving[b] /\ batch'[b].reserved = 0
                        /\ batch'[b] \in BatchRow
  BY <1>1, <1>3 DEF BatchRow
<1>6. batch' \in [Batch -> BatchRow]
  BY <1>0, <1>1, <1>5 DEF TypeOK
<1>7. ASSUME NEW s \in Sku
      PROVE  /\ BatchesOf(s)' = BatchesOf(s) \cup arrived(s)
             /\ BatchesOf(s) \cap arrived(s) = {}
             /\ IsFiniteSet(BatchesOf(s)) /\ IsFiniteSet(arrived(s))
             /\ arrived(s) \in SUBSET new
  <2>1. s # NoSku
    BY SkuAssumption
  <2>2. BatchesOf(s)' = BatchesOf(s) \cup arrived(s)
    BY <1>3, <1>4, <1>5, <2>1 DEF BatchesOf
  <2>3. BatchesOf(s) \cap arrived(s) = {}
    BY <1>4, <2>1 DEF BatchesOf
  <2> QED  BY <1>3, <2>2, <2>3, BatchFinite DEF BatchesOf
<1>8. /\ \A b \in Batch : Remaining'[b] \in Nat /\ Reserved'[b] \in Nat
      /\ \A b \in Batch : b \notin new => Remaining'[b] = Remaining[b] /\ Reserved'[b] = Reserved[b]
      /\ \A b \in new : Remaining'[b] = arriving[b] /\ Reserved'[b] = 0
  BY <1>3, <1>5, <1>6 DEF Remaining, Reserved, BatchRow
<1>9. ASSUME NEW s \in Sku
      PROVE  /\ inventory'[s].total = Sum(Remaining', BatchesOf(s)') + loose[s]
             /\ inventory'[s].reserved = Sum(Reserved', BatchesOf(s)')
             /\ inventory'[s] \in [total : Nat, reserved : Nat]
  <2> DEFINE S == BatchesOf(s)
             T == arrived(s)
  <2>1. /\ S \in SUBSET Batch /\ T \in SUBSET new /\ S \cap new = {} /\ S \cap T = {}
        /\ IsFiniteSet(S) /\ IsFiniteSet(T) /\ BatchesOf(s)' = S \cup T
    BY <1>4, <1>7, SkuAssumption DEF BatchesOf
  <2>2. /\ inventory[s].total = Sum(Remaining, S) + loose[s] /\ inventory[s].reserved = Sum(Reserved, S)
        /\ inventory[s] \in [total : Nat, reserved : Nat]
    BY <1>0 DEF TypeOK, TotalHolds, ReservedIsSumOfBatches
  <2>3. inventory'[s] = [inventory[s] EXCEPT !.total = inventory[s].total + Sum(arriving, T)]
    BY <1>1
  <2> HIDE DEF S, T
  <2>4. \A b \in S \cup T : Remaining'[b] \in Nat /\ Reserved'[b] \in Nat
    BY <1>3, <1>8, <2>1
  <2>5. Sum(Remaining', S \cup T) = Sum(Remaining', S) + Sum(Remaining', T)
    BY <2>1, <2>4, SumUnion
  <2>6. Sum(Reserved', S \cup T) = Sum(Reserved', S) + Sum(Reserved', T)
    BY <2>1, <2>4, SumUnion
  <2>7. Sum(Remaining', S) = Sum(Remaining, S) /\ Sum(Reserved', S) = Sum(Reserved, S)
    BY <1>8, <2>1, SumCong
  <2>8. Sum(Remaining', T) = Sum(arriving, T)
    BY <1>8, <2>1, SumCong
  <2>9. Sum(Reserved', T) = 0
    BY <1>8, <2>1, SumZero
  <2>10. \A b \in T : arriving[b] \in Nat
    BY <1>3, <2>1
  <2>11. Sum(arriving, T) \in Nat
    BY <2>1, <2>10, SumType
  <2>12. Sum(Remaining, S) \in Nat /\ Sum(Reserved, S) \in Nat /\ loose[s] \in Nat
    <3>1. Remaining \in Quantities /\ Reserved \in Quantities
      BY <1>0, RowTypes DEF TypeOK, Remaining, Reserved, Quantities
    <3> QED  BY <2>1, <3>1, QuantityType
  <2>13. \A m, n, l \in Nat : m + l + n \in Nat /\ m + l + n = m + n + l
    OBVIOUS
  <2>14. /\ inventory'[s].total = Sum(Remaining', S \cup T) + loose[s]
         /\ inventory'[s].total \in Nat
    BY <2>2, <2>3, <2>5, <2>7, <2>8, <2>11, <2>12, <2>13
  <2>15. /\ inventory'[s].reserved = Sum(Reserved', S \cup T)
         /\ inventory'[s] \in [total : Nat, reserved : Nat]
    BY <2>2, <2>3, <2>6, <2>7, <2>9, <2>12, <2>14
  <2> QED  BY <2>1, <2>14, <2>15
<1>10. TypeOK'
  <2>1. inventory' \in [Sku -> [total : Nat, reserved : Nat]]
    BY <1>1, <1>9
  <2> QED  BY <1>0, <1>1, <1>2, <1>6, <2>1 DEF TypeOK
<1>11. TotalHolds(loose)' /\ ReservedIsSumOfBatches'
  BY <1>9 DEF TotalHolds, ReservedIsSumOfBatches
<1>12. Open' = Open /\ Away' = Away
  BY <1>1 DEF Open, Away
<1>13. ReservedIsHeldByOpenOrders'
  BY <1>0, <1>1, <1>4, <1>5, <1>12 DEF ReservedIsHeldByOpenOrders
<1>14. LedgerReproducesStock'
  <2>1. ASSUME NEW b \in Batch
        PROVE  batch'[b].remaining + Sum([o \in Order |-> out[o][b]], Order) =
                 batch'[b].received + Sum([o \in Order |-> back[o][b]], Order)
    <3> DEFINE f == [o \in Order |-> out[o][b]]
               g == [o \in Order |-> back[o][b]]
    <3>1. batch[b].remaining + Sum(f, Order) = batch[b].received + Sum(g, Order)
      BY <1>0 DEF LedgerReproducesStock
    <3>2. (\A o \in Order : f[o] \in Nat) /\ (\A o \in Order : g[o] \in Nat) /\ IsFiniteSet(Order)
      BY <1>0, RowTypes, OrderAssumption
    <3> HIDE DEF f, g
    <3>3. Sum(f, Order) \in Nat /\ Sum(g, Order) \in Nat
      BY <3>2, SumType
    <3>4. batch'[b].remaining + Sum(f, Order) = batch'[b].received + Sum(g, Order)
      <4>1. CASE b \in new
        <5>1. Sum(f, Order) = Sum(g, Order)
          BY <1>4, <3>1, <3>3, <4>1
        <5> QED  BY <1>5, <4>1, <5>1
      <4>2. CASE b \notin new
        BY <1>5, <3>1, <4>2
      <4> QED  BY <4>1, <4>2
    <3> QED  BY <3>4 DEF f, g
  <2> QED  BY <1>1, <2>1 DEF LedgerReproducesStock
<1>15. GoodsFollowStatus'
  BY <1>0, <1>1, <1>12 DEF GoodsFollowStatus
<1>16. ReadyMeansFullyAllocated'
  <2>1. ASSUME NEW o \in Order, NEW s \in Sku
        PROVE  Sum(held[o], BatchesOf(s)') = Sum(held[o], BatchesOf(s))
    <3> DEFINE S == BatchesOf(s)
               T == arrived(s)
               f == held[o]
    <3>1. /\ S \cap T = {} /\ IsFiniteSet(S) /\ IsFiniteSet(T) /\ BatchesOf(s)' = S \cup T
          /\ T \in SUBSET new /\ S \in SUBSET Batch
      BY <1>7 DEF BatchesOf
    <3>2. (\A b \in S \cup T : f[b] \in Nat) /\ (\A b \in T : f[b] = 0)
      BY <1>0, <1>3, <1>4, <3>1, RowTypes
    <3>3. f \in Quantities
      BY <1>0 DEF TypeOK
    <3> HIDE DEF S, T, f
    <3>4. Sum(f, S \cup T) = Sum(f, S) + Sum(f, T)
      BY <3>1, <3>2, SumUnion
    <3>5. Sum(f, T) = 0
      BY <3>2, SumZero
    <3>6. Sum(f, S) \in Nat
      BY <3>1, <3>3, QuantityType
    <3>7. Sum(f, BatchesOf(s)') = Sum(f, S)
      BY <3>1, <3>4, <3>5, <3>6
    <3> QED  BY <3>7 DEF S, f
  <2> QED  BY <1>0, <1>1, <2>1 DEF ReadyMeansFullyAllocated
<1>17. NothingAhead'
  <2>1. ASSUME NEW b \in Batch, b > lastBatch'
        PROVE  b > lastBatch /\ b \notin new
    BY <1>1, <1>2, <2>1 DEF Batch, new
  <2> QED  BY <1>0, <1>1, <1>5, <2>1 DEF NothingAhead
<1>18. ReservedWithinStock'
  <2>1. \A b \in Batch : batch'[b].reserved <= batch'[b].remaining
    BY <1>0, <1>3, <1>5 DEF ReservedWithinStock
  <2> QED  BY <1>10, <1>11, <2>1, AggregateWithinTotal
<1> QED  BY <1>10, <1>11, <1>13, <1>14, <1>15, <1>16, <1>17, <1>18 DEF LooseInv

-----------------------------------------------------------------------------
(* The theorems.                                                           *)

\* Before the first receipt and the first order nothing is promised amiss.
LEMMA InitKeeps == Init => IInv
<1> SUFFICES ASSUME Init PROVE IInv
  OBVIOUS
<1>1. \A b \in Batch : batch[b] = NoBatch
  BY DEF Init
<1>2. \A o \in Order : order[o] = Unbooked
  BY DEF Init
<1>3. \A o \in Order, b \in Batch : held[o][b] = 0 /\ out[o][b] = 0 /\ back[o][b] = 0
  BY DEF Init
<1>4. TypeOK
  <2>1. NoBatch \in BatchRow
    BY DEF NoBatch, BatchRow
  <2>2. Unbooked \in OrderRow
    <3>1. (CHOOSE r \in Retailer : TRUE) \in Retailer
      BY OrderAssumption
    <3>2. <<>> \in Seq([status : OrderStatus, role : Roles])
      OBVIOUS
    <3> QED  BY <3>1, <3>2 DEF Unbooked, OrderRow, OrderStatus, Channel
  <2>3. NoInvoice \in [series : Series, serial : Nat]
    <3>1. PICK brand \in Brand : TRUE
      BY OrderAssumption
    <3>2. <<CodeOf[brand], "ONLINE">> \in Series
      BY SkuAssumption DEF Series, Channel
    <3>3. (CHOOSE s \in Series : TRUE) \in Series
      BY <3>2
    <3> QED  BY <3>3 DEF NoInvoice
  <2>4. today \in Day /\ lastBatch \in 0 .. MaxBatch
    BY BoundAssumption DEF Init, Day
  <2>5. /\ batch \in [Batch -> BatchRow] /\ order \in [Order -> OrderRow]
        /\ invoice \in [Order -> [series : Series, serial : Nat]]
    BY <2>1, <2>2, <2>3 DEF Init
  <2>6. /\ inventory \in [Sku -> [total : Nat, reserved : Nat]] /\ counter \in [Series -> Nat]
        /\ held \in [Order -> Quantities] /\ out \in [Order -> Quantities]
        /\ back \in [Order -> Quantities]
    BY DEF Init, Quantities
  <2> QED  BY <2>4, <2>5, <2>6 DEF TypeOK
<1>5. TotalIsSumOfBatches /\ ReservedIsSumOfBatches
  <2>1. ASSUME NEW s \in Sku
        PROVE  Sum(Remaining, BatchesOf(s)) = 0 /\ Sum(Reserved, BatchesOf(s)) = 0
    <3>1. \A b \in BatchesOf(s) : Remaining[b] = 0 /\ Reserved[b] = 0
      BY <1>1 DEF BatchesOf, Remaining, Reserved, NoBatch
    <3> QED  BY <3>1, SumZero
  <2> QED  BY <2>1 DEF Init, TotalIsSumOfBatches, ReservedIsSumOfBatches
<1>6. ReservedIsHeldByOpenOrders
  <2>1. ASSUME NEW b \in Batch PROVE Sum([o \in Order |-> held[o][b]], Open) = 0
    BY <1>3, SumZero DEF Open
  <2> QED  BY <1>1, <2>1 DEF ReservedIsHeldByOpenOrders, NoBatch
<1>7. LedgerReproducesStock
  <2>1. ASSUME NEW b \in Batch
        PROVE  /\ Sum([o \in Order |-> out[o][b]], Order) = 0
               /\ Sum([o \in Order |-> back[o][b]], Order) = 0
    BY <1>3, SumZero
  <2> QED  BY <1>1, <2>1 DEF LedgerReproducesStock, NoBatch
<1>8. GoodsFollowStatus /\ ReadyMeansFullyAllocated /\ NothingAhead /\ ReservedWithinStock
  BY <1>1, <1>2, <1>3
     DEF Init, GoodsFollowStatus, ReadyMeansFullyAllocated, NothingAhead, ReservedWithinStock,
         NoBatch, Unbooked
<1> QED  BY <1>4, <1>5, <1>6, <1>7, <1>8 DEF IInv

\* Every step keeps the promises, whatever units are loose.
LEMMA LooseNext ==
  ASSUME NEW loose \in [Sku -> Nat], LooseInv(loose), [Next]_vars
  PROVE  LooseInv(loose)'
<1>1. CASE UNCHANGED vars
  <2>1. /\ UNCHANGED <<today, inventory, batch, lastBatch, order, held, out, back>>
        /\ UNCHANGED <<invoice, counter>>
    BY <1>1 DEF vars, stock, invoices
  <2>2. Open' = Open /\ Away' = Away /\ Remaining' = Remaining /\ Reserved' = Reserved
    BY <2>1 DEF Open, Away, Remaining, Reserved
  <2>3. \A s \in Sku : BatchesOf(s)' = BatchesOf(s)
    BY <2>1 DEF BatchesOf
  <2>4. TypeOK'
    BY <2>1 DEF LooseInv, TypeOK
  <2>5. /\ ReservedWithinStock' /\ TotalHolds(loose)' /\ ReservedIsSumOfBatches'
        /\ ReservedIsHeldByOpenOrders' /\ LedgerReproducesStock'
    BY <2>1, <2>2, <2>3
       DEF LooseInv, ReservedWithinStock, TotalHolds, ReservedIsSumOfBatches,
           ReservedIsHeldByOpenOrders, LedgerReproducesStock
  <2>6. GoodsFollowStatus' /\ ReadyMeansFullyAllocated' /\ NothingAhead'
    BY <2>1, <2>2, <2>3 DEF LooseInv, GoodsFollowStatus, ReadyMeansFullyAllocated, NothingAhead
  <2> QED  BY <2>4, <2>5, <2>6 DEF LooseInv
<1>2. CASE \E a \in Actor, o \in Order, r \in Retailer, cart \in Carts : CreateOrder(a, o, r, cart)
  BY <1>2, CreateOrderKeeps
<1>3. CASE \E a \in Actor, o \in Order, d \in Driver \cup {NoDriver} : UpdateStatus(a, o, d)
  <2>1. PICK a \in Actor, o \in Order, d \in Driver \cup {NoDriver} : UpdateStatus(a, o, d)
    BY <1>3
  <2>2. CASE MarkReadyToShip(a, o, d)
    BY <2>2, MarkReadyToShipKeeps
  <2>3. CASE Dispatch(a, o, d)
    BY <2>3, DispatchKeeps
  <2>4. CASE Deliver(a, o, d)
    BY <2>4, DeliverKeeps
  <2>5. CASE CancelReserved(a, o, d)
    BY <2>5, CancelReservedKeeps
  <2>6. CASE CancelDispatched(a, o, d)
    BY <2>6, CancelDispatchedKeeps
  <2> QED  BY <2>1, <2>2, <2>3, <2>4, <2>5, <2>6 DEF UpdateStatus
<1>4. CASE \E r \in Receipts : Receive(r)
  BY <1>4, ReceiveKeeps
<1>5. CASE NextDay
  BY <1>5, NextDayKeeps
<1> QED  BY <1>1, <1>2, <1>3, <1>4, <1>5 DEF Next

NoneLoose == [s \in Sku |-> 0]

\* With no loose units the aggregate counts exactly those of its batches.
LEMMA NothingIsLoose == (IInv <=> LooseInv(NoneLoose)) /\ NoneLoose \in [Sku -> Nat]
<1>1. ASSUME TypeOK, NEW s \in Sku PROVE Sum(Remaining, BatchesOf(s)) + NoneLoose[s] = Sum(Remaining, BatchesOf(s))
  BY <1>1, StockQuantities, QuantityType DEF NoneLoose
<1>2. TypeOK => (TotalHolds(NoneLoose) <=> TotalIsSumOfBatches)
  BY <1>1 DEF TotalHolds, TotalIsSumOfBatches
<1> QED  BY <1>2 DEF IInv, LooseInv, NoneLoose

\* NothingIsLoose after a step.
LEMMA NothingIsLooseNext == LooseInv(NoneLoose)' => IInv'
<1>1. ASSUME TypeOK', NEW s \in Sku
      PROVE  Sum(Remaining', BatchesOf(s)') + NoneLoose[s] = Sum(Remaining', BatchesOf(s)')
  BY <1>1, StockQuantitiesNext, QuantityType DEF NoneLoose
<1>2. TypeOK' /\ TotalHolds(NoneLoose)' => TotalIsSumOfBatches'
  BY <1>1 DEF TotalHolds, TotalIsSumOfBatches, NoneLoose
<1> QED  BY <1>2 DEF IInv, LooseInv

\* Every step keeps the promises.
LEMMA NextKeeps == IInv /\ [Next]_vars => IInv'
BY NothingIsLoose, NothingIsLooseNext, LooseNext

\* The inductive invariant holds in every state a warehouse reaches.
THEOREM Inductive == Spec => []IInv
  BY InitKeeps, NextKeeps, PTL DEF Spec

\* No row ever leaves its type; in particular no quantity goes below zero.
THEOREM TypeCorrect == Spec => []TypeOK
<1>1. IInv => TypeOK
  BY DEF IInv
<1> QED  BY <1>1, Inductive, PTL

\* I1 and I2: nothing is reserved that is not on hand, of a batch or a SKU.
THEOREM NothingOverReserved == Spec => []ReservedWithinStock
<1>1. IInv => ReservedWithinStock
  BY DEF IInv
<1> QED  BY <1>1, Inductive, PTL

\* I3: the aggregate row of a SKU counts what its batches have together.
THEOREM AggregatesAgree == Spec => []TotalIsSumOfBatches
<1>1. IInv => TotalIsSumOfBatches
  BY DEF IInv
<1> QED  BY <1>1, Inductive, PTL

\* I4: and what is reserved of them together.
THEOREM AggregateReservationsAgree == Spec => []ReservedIsSumOfBatches
<1>1. IInv => ReservedIsSumOfBatches
  BY DEF IInv
<1> QED  BY <1>1, Inductive, PTL

\* I5: every reserved unit is held by an order that is still open.
THEOREM ReservationsAreHeld == Spec => []ReservedIsHeldByOpenOrders
<1>1. IInv => ReservedIsHeldByOpenOrders
  BY DEF IInv
<1> QED  BY <1>1, Inductive, PTL

\* The stock ledger reproduces the stock of every batch.
THEOREM LedgerIsComplete == Spec => []LedgerReproducesStock
<1>1. IInv => LedgerReproducesStock
  BY DEF IInv
<1> QED  BY <1>1, Inductive, PTL

\* Goods leave and come back as the status of their order says.
THEOREM GoodsAreWhereTheStatusSays == Spec => []GoodsFollowStatus
<1>1. IInv => GoodsFollowStatus
  BY DEF IInv
<1> QED  BY <1>1, Inductive, PTL

\* An order that is ready, under way or delivered has every line in full.
THEOREM ReadyOrdersAreWhole == Spec => []ReadyMeansFullyAllocated
<1>1. IInv => ReadyMeansFullyAllocated
  BY DEF IInv
<1> QED  BY <1>1, Inductive, PTL

\* A batch is drawn on only after the unexpired ones that expire before it.
LEMMA TakeExhaustsEarlier ==
  ASSUME TypeOK, ReservedWithinStock, NEW o \in Order, NEW take \in Reservations(o),
         NEW b \in Batch, NEW c \in Batch, take[c] > 0, batch[b].sku = batch[c].sku,
         today <= batch[b].expiry, batch[b].expiry < batch[c].expiry
  PROVE  take[b] = Free(b)
<1> DEFINE s == batch[c].sku
           free == [e \in Batch |-> Free(e)]
<1>1. PICK rank \in Rankings : take = Take(o, rank)
  BY DEF Reservations
<1> DEFINE ahead(e) == {i \in BatchesOf(s) : Allocatable(i) /\ rank[i] < rank[e]}
           wanted(e) == Needs(o, s) - Sum(free, ahead(e))
<1>2. \A e \in {b, c} : take[e] = IF ~Allocatable(e) \/ wanted(e) <= 0 THEN 0
                                 ELSE IF wanted(e) < Free(e) THEN wanted(e) ELSE Free(e)
  BY <1>1 DEF Take
<1>3. \A e \in Batch : Free(e) \in Nat /\ free[e] = Free(e)
  BY RowTypes DEF ReservedWithinStock, Free
<1>4. Allocatable(c) /\ wanted(c) > 0
  <2>1. take[c] # 0
    OBVIOUS
  <2>2. Allocatable(c) /\ ~(wanted(c) <= 0)
    BY <1>2, <2>1
  <2>3. s \in Sku
    BY <2>2, RowTypes DEF Allocatable
  <2>4. free \in Quantities /\ ahead(c) \in SUBSET Batch
    BY <1>3 DEF Quantities, BatchesOf
  <2>5. Needs(o, s) \in Nat /\ Sum(free, ahead(c)) \in Nat
    BY <2>3, <2>4, NeedsType, QuantityType
  <2> QED  BY <2>2, <2>5
<1>5. CASE Free(b) = 0
  <2>1. ~Allocatable(b)
    BY <1>5 DEF Allocatable
  <2> QED  BY <1>2, <1>5, <2>1
<1>6. CASE Free(b) # 0
  <2>1. Allocatable(b) /\ b \in BatchesOf(s)
    BY <1>3, <1>4, <1>6 DEF Allocatable, BatchesOf
  <2>2. rank[b] < rank[c] /\ rank[b] \in Int /\ \A i \in Batch : rank[i] \in Int
    BY DEF Rankings, Batch
  <2>3. ahead(b) \cup {b} \subseteq ahead(c) /\ b \notin ahead(b)
    BY <2>1, <2>2 DEF BatchesOf
  <2>4. /\ ahead(b) \in SUBSET Batch /\ ahead(c) \in SUBSET Batch
        /\ IsFiniteSet(ahead(b)) /\ IsFiniteSet(ahead(c)) /\ IsFiniteSet({b})
    BY BatchFinite DEF BatchesOf
  <2>5. Needs(o, s) \in Nat
    <3>1. s \in Sku
      BY <1>4, RowTypes DEF Allocatable
    <3> QED  BY <3>1, NeedsType
  <2> HIDE DEF free, ahead
  <2>6. \A i \in ahead(c) : free[i] \in Nat
    BY <1>3, <2>4
  <2>7. Sum(free, ahead(b) \cup {b}) <= Sum(free, ahead(c))
    BY <2>3, <2>4, <2>6, SumSubset
  <2>8. Sum(free, ahead(b) \cup {b}) = Sum(free, ahead(b)) + Sum(free, {b})
    <3>1. \A i \in ahead(b) \cup {b} : free[i] \in Nat
      BY <1>3, <2>4
    <3>2. ahead(b) \cap {b} = {}
      BY <2>3
    <3> QED  BY <2>4, <3>1, <3>2, SumUnion
  <2>9. Sum(free, {b}) = Free(b)
    BY <1>3, SumOne
  <2>10. Sum(free, ahead(b)) \in Nat /\ Sum(free, ahead(c)) \in Nat /\ Free(b) \in Nat
    <3>1. (\A i \in ahead(b) : free[i] \in Nat) /\ (\A i \in ahead(c) : free[i] \in Nat)
      BY <1>3, <2>4
    <3> QED  BY <1>3, <2>4, <3>1, SumType
  <2>11. wanted(b) > Free(b) /\ ~(wanted(b) <= 0) /\ ~(wanted(b) < Free(b))
    BY <1>4, <2>5, <2>7, <2>8, <2>9, <2>10
  <2> HIDE DEF wanted
  <2> QED  BY <1>2, <2>1, <2>11
<1> QED  BY <1>5, <1>6

\* Only marking an order ready reserves units.
LEMMA ReservedGrowsOnlyWhenReady ==
  ASSUME IInv, [Next]_vars,
         ~\E a \in Actor, o \in Order, d \in Driver \cup {NoDriver} : MarkReadyToShip(a, o, d)
  PROVE  \A b \in Batch : ~(batch'[b].reserved > batch[b].reserved)
<1> USE DEF IInv
<1>0. \A b \in Batch : batch[b].reserved \in Nat /\ \A o \in Order : held[o][b] \in Nat
  BY RowTypes
<1>1. CASE batch' = batch
  BY <1>0, <1>1
<1>2. ASSUME NEW a \in Actor, NEW o \in Order, NEW d \in Driver \cup {NoDriver}, Dispatch(a, o, d)
      PROVE  \A b \in Batch : ~(batch'[b].reserved > batch[b].reserved)
  <2>1. PICK take \in Reservations(o) :
          batch' = [b \in Batch |->
             [batch[b] EXCEPT !.reserved = @ + take[b] - held[o][b],
                              !.remaining = @ - held[o][b]]]
    BY <1>2 DEF Dispatch
  <2>2. order[o].status = "READY_TO_SHIP"
    <3>1. Move(a, o, d, "OUT_FOR_DELIVERY") /\ "OUT_FOR_DELIVERY" \in OrderStatus
      BY <1>2 DEF Dispatch, OrderStatus
    <3> QED  BY <3>1, MoveFacts, TransitionTable
  <2>3. \A b \in Batch : take[b] = 0
    BY <2>2, ReadyTakesNothing, NothingIsLoose
  <2>4. ASSUME NEW b \in Batch PROVE batch'[b].reserved = batch[b].reserved - held[o][b]
    <3>1. batch[b] \in BatchRow
      BY DEF TypeOK
    <3>2. batch'[b].reserved = batch[b].reserved + take[b] - held[o][b]
      BY <2>1, <3>1 DEF BatchRow
    <3> QED  BY <1>0, <2>3, <3>2
  <2> QED  BY <1>0, <2>4
<1>3. ASSUME NEW a \in Actor, NEW o \in Order, NEW d \in Driver \cup {NoDriver}, CancelReserved(a, o, d)
      PROVE  \A b \in Batch : ~(batch'[b].reserved > batch[b].reserved)
  <2>1. ASSUME NEW b \in Batch
        PROVE  batch'[b].reserved \in {MaxZero(batch[b].reserved - held[o][b]), batch[b].reserved}
    <3>1. batch[b] \in BatchRow
      BY DEF TypeOK
    <3> QED  BY <1>3, <3>1 DEF CancelReserved, BatchRow
  <2>2. \A b \in Batch : ~(MaxZero(batch[b].reserved - held[o][b]) > batch[b].reserved)
    BY <1>0 DEF MaxZero
  <2> QED  BY <1>0, <2>1, <2>2
<1>4. ASSUME NEW a \in Actor, NEW o \in Order, NEW d \in Driver \cup {NoDriver}, CancelDispatched(a, o, d)
      PROVE  \A b \in Batch : ~(batch'[b].reserved > batch[b].reserved)
  <2>1. ASSUME NEW b \in Batch PROVE batch'[b].reserved = batch[b].reserved
    <3>1. batch[b] \in BatchRow
      BY DEF TypeOK
    <3> QED  BY <1>4, <3>1 DEF CancelDispatched, BatchRow
  <2> QED  BY <1>0, <2>1
<1>5. ASSUME NEW r \in Receipts, Receive(r)
      PROVE  \A b \in Batch : ~(batch'[b].reserved > batch[b].reserved)
  <2>1. \A b \in Batch : batch'[b].reserved = 0 \/ batch'[b] = batch[b]
    BY <1>5 DEF Receive
  <2> QED  BY <1>0, <2>1
<1>6. CASE UNCHANGED vars
  BY <1>1, <1>6 DEF vars, stock
<1>7. CASE Next
  <2>1. CASE \E a \in Actor, o \in Order, r \in Retailer, cart \in Carts : CreateOrder(a, o, r, cart)
    BY <1>1, <2>1 DEF CreateOrder, stock
  <2>2. CASE \E a \in Actor, o \in Order, d \in Driver \cup {NoDriver} : UpdateStatus(a, o, d)
    <3>1. PICK a \in Actor, o \in Order, d \in Driver \cup {NoDriver} : UpdateStatus(a, o, d)
      BY <2>2
    <3>2. CASE Deliver(a, o, d)
      BY <1>1, <3>2 DEF Deliver, stock
    <3> QED  BY <1>2, <1>3, <1>4, <3>1, <3>2 DEF UpdateStatus
  <2>3. CASE \E r \in Receipts : Receive(r)
    BY <1>5, <2>3
  <2>4. CASE NextDay
    BY <1>1, <2>4 DEF NextDay, stock
  <2> QED  BY <1>7, <2>1, <2>2, <2>3, <2>4 DEF Next
<1> QED  BY <1>6, <1>7

\* First expiry, first out: a unit of a batch is reserved only when the
\* unexpired batches that expire before it are reserved to the last unit.
THEOREM ReservesFirstExpiryFirst == Spec => FirstExpiryFirstOut
<1> DEFINE A == \A b, c \in Batch :
                  /\ Reserved[c]' > Reserved[c]
                  /\ batch[b].sku = batch[c].sku
                  /\ today <= batch[b].expiry /\ batch[b].expiry < batch[c].expiry
                  => batch'[b].reserved = batch'[b].remaining
<1>1. ASSUME IInv, [Next]_vars PROVE A
  <2>1. SUFFICES ASSUME NEW b \in Batch, NEW c \in Batch, Reserved[c]' > Reserved[c],
                        batch[b].sku = batch[c].sku,
                        today <= batch[b].expiry, batch[b].expiry < batch[c].expiry
                 PROVE  batch'[b].reserved = batch'[b].remaining
    OBVIOUS
  <2>2. batch'[c].reserved > batch[c].reserved
    BY <2>1 DEF Reserved
  <2>3. PICK a \in Actor, o \in Order, d \in Driver \cup {NoDriver} : MarkReadyToShip(a, o, d)
    BY <1>1, <2>2, ReservedGrowsOnlyWhenReady
  <2>4. PICK take \in Reservations(o) :
          batch' = [e \in Batch |-> [batch[e] EXCEPT !.reserved = @ + take[e]]]
    BY <2>3 DEF MarkReadyToShip
  <2>5. TypeOK /\ ReservedWithinStock
    BY <1>1 DEF IInv
  <2>6. ASSUME NEW e \in Batch
        PROVE  /\ batch'[e].reserved = batch[e].reserved + take[e]
               /\ batch'[e].remaining = batch[e].remaining
               /\ batch[e].reserved \in Nat /\ batch[e].remaining \in Nat /\ take[e] \in Nat
    <3>1. batch[e] \in BatchRow /\ take \in Quantities
      BY <2>5, ReservationFacts DEF TypeOK
    <3> QED  BY <2>4, <3>1 DEF BatchRow, Quantities
  <2>7. take[c] > 0
    BY <2>2, <2>6
  <2>8. take[b] = Free(b)
    BY <2>1, <2>5, <2>7, TakeExhaustsEarlier
  <2> QED  BY <2>6, <2>8 DEF Free
<1>2. IInv /\ [Next]_vars => [A]_vars
  BY <1>1
<1> QED  BY <1>2, Inductive, PTL DEF Spec, FirstExpiryFirstOut

\* Stock that expired after it was reserved does not leave the warehouse.
THEOREM ExpiredStockStays == Spec => NoExpiredDispatch
<1> DEFINE A == \A o \in Order, b \in Batch : out'[o][b] > out[o][b] => today <= batch[b].expiry
<1>1. ASSUME IInv, [Next]_vars PROVE A
  <2>0. TypeOK /\ \A o \in Order, b \in Batch : out[o][b] \in Nat /\ held[o][b] \in Nat
    BY <1>1, RowTypes DEF IInv
  <2>1. CASE out' = out
    BY <2>0, <2>1
  <2>2. ASSUME NEW a \in Actor, NEW p \in Order, NEW d \in Driver \cup {NoDriver}, Dispatch(a, p, d)
        PROVE  A
    <3>1. ASSUME NEW o \in Order, NEW b \in Batch, out'[o][b] > out[o][b]
          PROVE  today <= batch[b].expiry
      <4>1. out' = [out EXCEPT ![p] = Plus(out[p], held[p], Batch)]
        BY <2>2 DEF Dispatch
      <4>2. o = p
        BY <2>0, <3>1, <4>1 DEF TypeOK
      <4>3. out'[p][b] = out[p][b] + held[p][b]
        BY <2>0, <4>1 DEF TypeOK, Plus
      <4>4. held[p][b] > 0
        BY <2>0, <3>1, <4>2, <4>3
      <4>5. PICK take \in Reservations(p) : Dispatchable(p, b, take)
        BY <2>2, <4>4 DEF Dispatch
      <4>6. today \in Int /\ batch[b].expiry \in Int
        BY <2>0, BoundAssumption DEF TypeOK, BatchRow, Day, Never
      <4> QED  BY <4>5, <4>6 DEF Dispatchable
    <3> QED  BY <3>1
  <2>3. CASE UNCHANGED vars
    BY <2>1, <2>3 DEF vars, stock
  <2>4. CASE Next
    <3>1. CASE \E a \in Actor, o \in Order, r \in Retailer, cart \in Carts : CreateOrder(a, o, r, cart)
      BY <2>1, <3>1 DEF CreateOrder, stock
    <3>2. CASE \E a \in Actor, o \in Order, d \in Driver \cup {NoDriver} : UpdateStatus(a, o, d)
      <4>1. PICK a \in Actor, o \in Order, d \in Driver \cup {NoDriver} : UpdateStatus(a, o, d)
        BY <3>2
      <4>2. CASE MarkReadyToShip(a, o, d)
        BY <2>1, <4>2 DEF MarkReadyToShip
      <4>3. CASE Deliver(a, o, d)
        BY <2>1, <4>3 DEF Deliver, stock
      <4>4. CASE CancelReserved(a, o, d)
        BY <2>1, <4>4 DEF CancelReserved
      <4>5. CASE CancelDispatched(a, o, d)
        BY <2>1, <4>5 DEF CancelDispatched
      <4> QED  BY <2>2, <4>1, <4>2, <4>3, <4>4, <4>5 DEF UpdateStatus
    <3>3. CASE \E r \in Receipts : Receive(r)
      BY <2>1, <3>3 DEF Receive
    <3>4. CASE NextDay
      BY <2>1, <3>4 DEF NextDay, stock
    <3> QED  BY <2>4, <3>1, <3>2, <3>3, <3>4 DEF Next
  <2> QED  BY <1>1, <2>3, <2>4
<1>2. IInv /\ [Next]_vars => [A]_vars
  BY <1>1
<1> QED  BY <1>2, Inductive, PTL DEF Spec, NoExpiredDispatch

-----------------------------------------------------------------------------
(* Invoices.                                                               *)

\* An order that is ready and has a line holds a unit of some batch.
LEMMA ReadyHolds ==
  ASSUME IInv, NEW o \in Order, order[o].status = "READY_TO_SHIP",
         NEW s \in Sku, order[o].cart[s] > 0
  PROVE  \E b \in Batch : held[o][b] > 0
<1>1. Sum(held[o], BatchesOf(s)) = order[o].cart[s]
  BY DEF IInv, ReadyMeansFullyAllocated
<1>2. SUFFICES ASSUME \A b \in Batch : ~(held[o][b] > 0) PROVE FALSE
  OBVIOUS
<1>3. \A b \in BatchesOf(s) : held[o][b] = 0
  BY <1>2, RowTypes DEF IInv, BatchesOf
<1>4. Sum(held[o], BatchesOf(s)) = 0
  BY <1>3, SumZero
<1>5. order[o].cart[s] \in Nat
  BY RowTypes DEF IInv
<1> QED  BY <1>1, <1>4, <1>5

\* The serials of a series, point by point.
LEMMA SerialsUsed ==
  ASSUME TypeOK, InvoicedIffDispatched, NEW s \in Series, NEW n \in Nat, n > 0
  PROVE  n <= counter[s] <=> \E o \in Order : invoice[o].series = s /\ invoice[o].serial = n
<1> DEFINE Used == {invoice[o].serial : o \in {p \in Order : invoice[p].series = s}} \ {0}
<1>1. 1 .. counter[s] = Used
  BY DEF InvoicedIffDispatched
<1>2. counter[s] \in Nat
  BY DEF TypeOK
<1>3. n <= counter[s] <=> n \in 1 .. counter[s]
  BY <1>2
<1>4. n \in Used <=> \E o \in Order : invoice[o].series = s /\ invoice[o].serial = n
  OBVIOUS
<1> QED  BY <1>1, <1>3, <1>4

\* A dispatch numbers an order that has no number yet, with the next one.
LEMMA DispatchNumbers ==
  ASSUME IInv, InvoicedIffDispatched, NEW a \in Actor, NEW o \in Order,
         NEW d \in Driver \cup {NoDriver}, Dispatch(a, o, d)
  PROVE  \E s \in Series :
           /\ counter' = [counter EXCEPT ![s] = counter[s] + 1]
           /\ invoice' = [invoice EXCEPT ![o] = [series |-> s, serial |-> counter[s] + 1]]
           /\ invoice[o].serial = 0
           /\ \E b \in Batch : held[o][b] > 0
           /\ out' = [out EXCEPT ![o] = Plus(out[o], held[o], Batch)]
           /\ \A b \in Batch : out[o][b] = 0
<1>1. TypeOK /\ NothingAhead
  BY DEF IInv
<1>2. IssueInvoice(o) /\ Move(a, o, d, "OUT_FOR_DELIVERY")
      /\ out' = [out EXCEPT ![o] = Plus(out[o], held[o], Batch)]
  BY DEF Dispatch
<1>3. order[o].status = "READY_TO_SHIP"
  <2>1. "OUT_FOR_DELIVERY" \in OrderStatus
    BY DEF OrderStatus
  <2> QED  BY <1>1, <1>2, <2>1, MoveFacts, TransitionTable
<1>4. \A b \in Batch : out[o][b] = 0
  BY <1>1, <1>3 DEF NothingAhead
<1>5. invoice[o].serial = 0
  <2>1. invoice[o].serial \in Nat
    BY <1>1 DEF TypeOK
  <2>2. ~(invoice[o].serial > 0)
    BY <1>4 DEF InvoicedIffDispatched
  <2> QED  BY <2>1, <2>2
<1> DEFINE brands == {BrandOf[s] : s \in {t \in Sku : order[o].cart[t] > 0}}
<1>6. PICK brand \in brands :
        /\ counter' = [counter EXCEPT ![<<CodeOf[brand], order[o].channel>>] = @ + 1]
        /\ invoice' = [invoice EXCEPT ![o] =
             [series |-> <<CodeOf[brand], order[o].channel>>,
              serial |-> counter[<<CodeOf[brand], order[o].channel>>] + 1]]
  BY <1>2, <1>5 DEF IssueInvoice
<1> DEFINE s == <<CodeOf[brand], order[o].channel>>
<1>7. s \in Series
  BY <1>1, SkuAssumption DEF Series, TypeOK, OrderRow
<1>8. \E b \in Batch : held[o][b] > 0
  <2>1. PICK t \in Sku : order[o].cart[t] > 0
    BY <1>6
  <2> QED  BY <1>3, <2>1, ReadyHolds
<1> QED  BY <1>2, <1>4, <1>5, <1>6, <1>7, <1>8

\* A step that issues no invoice and ships nothing keeps the numbering.
LEMMA QuietInvoices ==
  ASSUME InvoicedIffDispatched, UNCHANGED <<invoice, counter, out>>
  PROVE  InvoicedIffDispatched'
BY DEF InvoicedIffDispatched

\* A dispatch keeps the numbering.
LEMMA DispatchInvoices ==
  ASSUME IInv, InvoicedIffDispatched, NEW a \in Actor, NEW o \in Order,
         NEW d \in Driver \cup {NoDriver}, Dispatch(a, o, d)
  PROVE  InvoicedIffDispatched'
<1>1. PICK q \in Series :
        /\ counter' = [counter EXCEPT ![q] = counter[q] + 1]
        /\ invoice' = [invoice EXCEPT ![o] = [series |-> q, serial |-> counter[q] + 1]]
        /\ invoice[o].serial = 0
        /\ \E b \in Batch : held[o][b] > 0
        /\ out' = [out EXCEPT ![o] = Plus(out[o], held[o], Batch)]
        /\ \A b \in Batch : out[o][b] = 0
  BY DispatchNumbers
<1>2. TypeOK
  BY DEF IInv
<1>3. /\ \A s \in Series : counter[s] \in Nat
      /\ \A s \in Series : counter'[s] = IF s = q THEN counter[q] + 1 ELSE counter[s]
      /\ \A p \in Order : invoice[p].serial \in Nat /\ invoice[p].series \in Series
      /\ invoice'[o].series = q /\ invoice'[o].serial = counter[q] + 1
      /\ \A p \in Order : p # o => invoice'[p] = invoice[p] /\ out'[p] = out[p]
      /\ \A b \in Batch : out'[o][b] = out[o][b] + held[o][b]
  BY <1>1, <1>2 DEF TypeOK, Plus
<1>4. ASSUME NEW p \in Order
      PROVE  invoice'[p].serial > 0 <=> \E b \in Batch : out'[p][b] > 0
  <2>1. CASE p = o
    <3>1. invoice'[o].serial > 0
      BY <1>3
    <3>2. PICK b \in Batch : held[o][b] > 0
      BY <1>1
    <3>3. out'[o][b] > 0
      BY <1>1, <1>2, <1>3, <3>2, RowTypes
    <3> QED  BY <2>1, <3>1, <3>3
  <2>2. CASE p # o
    BY <1>3, <2>2 DEF InvoicedIffDispatched
  <2> QED  BY <2>1, <2>2
<1>5. ASSUME NEW s \in Series, NEW n \in Nat, n > 0
      PROVE  n <= counter'[s] <=> \E p \in Order : invoice'[p].series = s /\ invoice'[p].serial = n
  <2>1. n <= counter[s] <=> \E p \in Order : invoice[p].series = s /\ invoice[p].serial = n
    BY <1>2, <1>5, SerialsUsed
  <2>2. (\E p \in Order : invoice[p].series = s /\ invoice[p].serial = n) <=>
          \E p \in Order \ {o} : invoice'[p].series = s /\ invoice'[p].serial = n
    BY <1>1, <1>3, <1>5
  <2>3. CASE s # q
    BY <1>3, <2>1, <2>2, <2>3
  <2>4. CASE s = q
    <3>1. n <= counter'[s] <=> n <= counter[s] \/ n = counter[q] + 1
      BY <1>3, <2>4
    <3> QED  BY <1>3, <2>1, <2>2, <2>4, <3>1
  <2> QED  BY <2>3, <2>4
<1>6. ASSUME NEW s \in Series
      PROVE  1 .. counter'[s] =
               {invoice'[p].serial : p \in {r \in Order : invoice'[r].series = s}} \ {0}
  <2> DEFINE Used == {invoice'[p].serial : p \in {r \in Order : invoice'[r].series = s}} \ {0}
  <2>1. counter'[s] \in Nat /\ \A p \in Order : invoice'[p].serial \in Nat
    BY <1>3
  <2>2. ASSUME NEW n \in 1 .. counter'[s] PROVE n \in Used
    BY <1>5, <2>1
  <2>3. ASSUME NEW n \in Used PROVE n \in 1 .. counter'[s]
    <3>1. PICK p \in Order : invoice'[p].series = s /\ invoice'[p].serial = n
      OBVIOUS
    <3>2. n \in Nat /\ n > 0
      BY <2>1, <3>1
    <3>3. n <= counter'[s]
      BY <1>5, <3>1, <3>2
    <3> QED  BY <2>1, <3>2, <3>3
  <2> QED  BY <2>2, <2>3
<1>7. ASSUME NEW p \in Order, NEW r \in Order, invoice'[p] = invoice'[r], invoice'[p].serial > 0
      PROVE  p = r
  <2>1. ASSUME NEW u \in Order, u # o, invoice'[u] = invoice'[o] PROVE FALSE
    <3>1. invoice[u].series = q /\ invoice[u].serial = counter[q] + 1
      BY <1>3, <2>1
    <3>2. counter[q] + 1 \in Nat /\ counter[q] + 1 > 0
      BY <1>3
    <3>3. counter[q] + 1 <= counter[q]
      BY <1>2, <3>1, <3>2, SerialsUsed
    <3> QED  BY <1>3, <3>3
  <2>2. CASE p # o /\ r # o
    BY <1>3, <1>7, <2>2 DEF InvoicedIffDispatched
  <2> QED  BY <1>7, <2>1, <2>2
<1> QED  BY <1>4, <1>6, <1>7 DEF InvoicedIffDispatched

\* Every step keeps the numbering: only a dispatch issues, and only it ships.
LEMMA InvoicesStep ==
  IInv /\ InvoicedIffDispatched /\ [Next]_vars => InvoicedIffDispatched'
<1> SUFFICES ASSUME IInv, InvoicedIffDispatched, [Next]_vars PROVE InvoicedIffDispatched'
  OBVIOUS
<1>1. CASE UNCHANGED vars
  BY <1>1, QuietInvoices DEF vars, stock, invoices
<1>2. CASE \E a \in Actor, o \in Order, r \in Retailer, cart \in Carts : CreateOrder(a, o, r, cart)
  BY <1>2, QuietInvoices DEF CreateOrder, stock, invoices
<1>3. CASE \E a \in Actor, o \in Order, d \in Driver \cup {NoDriver} : UpdateStatus(a, o, d)
  <2>1. PICK a \in Actor, o \in Order, d \in Driver \cup {NoDriver} : UpdateStatus(a, o, d)
    BY <1>3
  <2>2. CASE MarkReadyToShip(a, o, d)
    BY <2>2, QuietInvoices DEF MarkReadyToShip, invoices
  <2>3. CASE Dispatch(a, o, d)
    BY <2>3, DispatchInvoices
  <2>4. CASE Deliver(a, o, d)
    BY <2>4, QuietInvoices DEF Deliver, stock, invoices
  <2>5. CASE CancelReserved(a, o, d)
    BY <2>5, QuietInvoices DEF CancelReserved, invoices
  <2>6. CASE CancelDispatched(a, o, d)
    BY <2>6, QuietInvoices DEF CancelDispatched, invoices
  <2> QED  BY <2>1, <2>2, <2>3, <2>4, <2>5, <2>6 DEF UpdateStatus
<1>4. CASE \E r \in Receipts : Receive(r)
  BY <1>4, QuietInvoices DEF Receive, invoices
<1>5. CASE NextDay
  BY <1>5, QuietInvoices DEF NextDay, stock, invoices
<1> QED  BY <1>1, <1>2, <1>3, <1>4, <1>5 DEF Next

\* Nothing has been numbered and nothing shipped at first.
LEMMA InvoicesInit == Init => InvoicedIffDispatched
<1> SUFFICES ASSUME Init PROVE InvoicedIffDispatched
  OBVIOUS
<1>1. /\ \A o \in Order : invoice[o].serial = 0 /\ \A b \in Batch : out[o][b] = 0
      /\ \A s \in Series : counter[s] = 0
  BY DEF Init, NoInvoice
<1>2. ASSUME NEW s \in Series
      PROVE  1 .. counter[s] =
               {invoice[o].serial : o \in {p \in Order : invoice[p].series = s}} \ {0}
  BY <1>1
<1> QED  BY <1>1, <1>2 DEF InvoicedIffDispatched

\* An order has an invoice exactly when goods left for it, and each series is
\* numbered without gap or repetition: issue_invoice_for_order runs once, in
\* the transaction of the dispatch, and a refused dispatch takes no number.
THEOREM InvoicesFollowDispatch == Spec => []InvoicedIffDispatched
  BY InvoicesInit, InvoicesStep, Inductive, PTL DEF Spec

-----------------------------------------------------------------------------
(* Cancellations by shops.                                                 *)

CancelledByShop(o) ==
  \E i \in DOMAIN order[o].trail :
    order[o].trail[i] = [status |-> "CANCELLED", role |-> "RETAILER"]

\* Strengthening: a cancelled order stays so, and nothing moves for it.
ShopCancelled ==
  \A o \in Order : CancelledByShop(o) =>
    order[o].status = "CANCELLED" /\ \A b \in Batch : out[o][b] = 0 /\ held[o][b] = 0

\* An order no step of this kind touches stays as it is.
LEMMA OthersCancelled ==
  ASSUME ShopCancelled, NEW p \in Order,
         order'[p] = order[p], out'[p] = out[p], held'[p] = held[p], CancelledByShop(p)'
  PROVE  order'[p].status = "CANCELLED" /\ \A b \in Batch : out'[p][b] = 0 /\ held'[p][b] = 0
<1>1. CancelledByShop(p)
  BY DEF CancelledByShop
<1> QED  BY <1>1 DEF ShopCancelled

\* A transition appends its status and role; a shop can only be the one that
\* cancels, and only before dispatch; nothing leads out of CANCELLED.
LEMMA MoveByShop ==
  ASSUME TypeOK, ShopCancelled, NEW a \in Actor, NEW o \in Order,
         NEW d \in Driver \cup {NoDriver}, NEW next \in OrderStatus,
         Move(a, o, d, next), CancelledByShop(o)'
  PROVE  next = "CANCELLED" /\ order[o].status \in {"PENDING", "READY_TO_SHIP"}
<1> DEFINE entry == [status |-> next, role |-> a.role]
<1>1. order[o].trail \in Seq([status : OrderStatus, role : Roles])
  BY RowTypes
<1>2. entry \in [status : OrderStatus, role : Roles]
  BY OrderAssumption
<1>3. order'[o].trail = Append(order[o].trail, entry)
  BY DEF Move, TypeOK, OrderRow
<1>4. PICK t \in AllowedTransitions :
        /\ t[1] = order[o].status /\ t[2] = next
        /\ a.role = "ADMIN" \/ a.role \in t[3]
  BY DEF Move, MayMove
<1>5. t[1] # "CANCELLED"
  BY DEF AllowedTransitions
<1>6. ~CancelledByShop(o)
  BY <1>4, <1>5 DEF ShopCancelled
<1>7. PICK i \in DOMAIN order'[o].trail :
        order'[o].trail[i] = [status |-> "CANCELLED", role |-> "RETAILER"]
  BY DEF CancelledByShop
<1>8. \/ i \in DOMAIN order[o].trail /\ order'[o].trail[i] = order[o].trail[i]
      \/ order'[o].trail[i] = entry
  <2> HIDE DEF entry
  <2>1. /\ DOMAIN order'[o].trail = 1 .. Len(order[o].trail) + 1
        /\ DOMAIN order[o].trail = 1 .. Len(order[o].trail)
        /\ Len(order[o].trail) \in Nat
    BY <1>1, <1>2, <1>3
  <2>2. CASE i = Len(order[o].trail) + 1
    BY <1>1, <1>2, <1>3, <2>2
  <2>3. CASE i \in 1 .. Len(order[o].trail)
    BY <1>1, <1>2, <1>3, <2>1, <2>3
  <2> QED  BY <1>7, <2>1, <2>2, <2>3
<1>9. entry = [status |-> "CANCELLED", role |-> "RETAILER"]
  BY <1>6, <1>7, <1>8 DEF CancelledByShop
<1>10. next = "CANCELLED" /\ a.role = "RETAILER"
  BY <1>9
<1>11. t[1] \in {"PENDING", "READY_TO_SHIP"}
  BY <1>4, <1>10 DEF AllowedTransitions
<1> QED  BY <1>4, <1>10, <1>11

\* A transition other than a cancellation before dispatch leaves no order
\* cancelled by a shop that was not.
LEMMA OtherMoves ==
  ASSUME TypeOK, ShopCancelled, NEW a \in Actor, NEW o \in Order,
         NEW d \in Driver \cup {NoDriver}, NEW next \in OrderStatus, Move(a, o, d, next),
         next # "CANCELLED" \/ order[o].status \notin {"PENDING", "READY_TO_SHIP"},
         \A p \in Order : p # o => out'[p] = out[p] /\ held'[p] = held[p]
  PROVE  ShopCancelled'
<1>1. SUFFICES ASSUME NEW p \in Order, CancelledByShop(p)'
               PROVE  /\ order'[p].status = "CANCELLED"
                      /\ \A b \in Batch : out'[p][b] = 0 /\ held'[p][b] = 0
  BY DEF ShopCancelled
<1>2. p # o
  BY <1>1, MoveByShop
<1>3. order'[p] = order[p]
  BY <1>2, MoveFacts
<1> QED  BY <1>1, <1>2, <1>3, OthersCancelled

\* Releasing a reservation leaves nothing held, and nothing had left.
LEMMA ReleaseCancels ==
  ASSUME IInv, ShopCancelled, NEW a \in Actor, NEW o \in Order,
         NEW d \in Driver \cup {NoDriver}, CancelReserved(a, o, d)
  PROVE  ShopCancelled'
<1>1. /\ Move(a, o, d, "CANCELLED") /\ order[o].status \in {"PENDING", "READY_TO_SHIP"}
      /\ held' = [held EXCEPT ![o] = [b \in Batch |-> 0]] /\ out' = out
  BY DEF CancelReserved
<1>2. TypeOK /\ "CANCELLED" \in OrderStatus
  BY DEF IInv, OrderStatus
<1>3. /\ order'[o].status = "CANCELLED"
      /\ \A p \in Order : p # o => order'[p] = order[p]
  BY <1>1, <1>2, MoveFacts
<1>4. \A b \in Batch : out'[o][b] = 0 /\ held'[o][b] = 0
  BY <1>1, <1>2 DEF IInv, NothingAhead, TypeOK
<1>5. \A p \in Order : p # o => held'[p] = held[p] /\ out'[p] = out[p]
  BY <1>1, <1>2 DEF TypeOK
<1>6. SUFFICES ASSUME NEW p \in Order, CancelledByShop(p)', p # o
               PROVE  /\ order'[p].status = "CANCELLED"
                      /\ \A b \in Batch : out'[p][b] = 0 /\ held'[p][b] = 0
  BY <1>3, <1>4 DEF ShopCancelled
<1> QED  BY <1>3, <1>5, <1>6, OthersCancelled

\* Every step keeps the strengthening.
LEMMA ShopCancelledStep == IInv /\ ShopCancelled /\ [Next]_vars => ShopCancelled'
<1> SUFFICES ASSUME IInv, ShopCancelled, [Next]_vars PROVE ShopCancelled'
  OBVIOUS
<1>0. TypeOK /\ {"READY_TO_SHIP", "OUT_FOR_DELIVERY", "DELIVERED", "CANCELLED"} \subseteq OrderStatus
  BY DEF IInv, OrderStatus
<1>1. CASE UNCHANGED <<order, out, held>>
  BY <1>1 DEF ShopCancelled, CancelledByShop
<1>2. CASE UNCHANGED vars \/ NextDay \/ \E r \in Receipts : Receive(r)
  BY <1>1, <1>2 DEF vars, stock, NextDay, Receive
<1>3. CASE \E a \in Actor, o \in Order, r \in Retailer, cart \in Carts : CreateOrder(a, o, r, cart)
  <2>1. PICK a \in Actor, o \in Order, r \in Retailer, cart \in Carts : CreateOrder(a, o, r, cart)
    BY <1>3
  <2>2. SUFFICES ASSUME NEW p \in Order, CancelledByShop(p)'
                 PROVE  /\ order'[p].status = "CANCELLED"
                        /\ \A b \in Batch : out'[p][b] = 0 /\ held'[p][b] = 0
    BY DEF ShopCancelled
  <2>3. out' = out /\ held' = held
    BY <2>1 DEF CreateOrder, stock
  <2>4. order'[o].trail = <<[status |-> "PENDING", role |-> a.role]>>
    BY <1>0, <2>1 DEF CreateOrder, TypeOK
  <2>5. p # o
    BY <2>2, <2>4 DEF CancelledByShop
  <2>6. order'[p] = order[p]
    BY <2>1, <2>5, <1>0 DEF CreateOrder, TypeOK
  <2> QED  BY <2>2, <2>3, <2>6, OthersCancelled
<1>4. CASE \E a \in Actor, o \in Order, d \in Driver \cup {NoDriver} : UpdateStatus(a, o, d)
  <2>1. PICK a \in Actor, o \in Order, d \in Driver \cup {NoDriver} : UpdateStatus(a, o, d)
    BY <1>4
  <2>2. CASE MarkReadyToShip(a, o, d)
    <3>1. \A p \in Order : p # o => out'[p] = out[p] /\ held'[p] = held[p]
      BY <1>0, <2>2 DEF MarkReadyToShip, TypeOK
    <3> QED  BY <1>0, <2>2, <3>1, OtherMoves DEF MarkReadyToShip
  <2>3. CASE Dispatch(a, o, d)
    <3>1. \A p \in Order : p # o => out'[p] = out[p] /\ held'[p] = held[p]
      BY <1>0, <2>3 DEF Dispatch, TypeOK
    <3> QED  BY <1>0, <2>3, <3>1, OtherMoves DEF Dispatch
  <2>4. CASE Deliver(a, o, d)
    BY <1>0, <2>4, OtherMoves DEF Deliver, stock
  <2>5. CASE CancelReserved(a, o, d)
    BY <2>5, ReleaseCancels
  <2>6. CASE CancelDispatched(a, o, d)
    BY <1>0, <2>6, OtherMoves DEF CancelDispatched
  <2> QED  BY <2>1, <2>2, <2>3, <2>4, <2>5, <2>6 DEF UpdateStatus
<1> QED  BY <1>2, <1>3, <1>4 DEF Next

\* A shop may cancel its own order until the goods leave, and not after: what
\* it cancelled holds nothing and has shipped nothing.
THEOREM ShopsCancelBeforeDispatch == Spec => []RetailerCancelsBeforeDispatch
<1>1. Init => ShopCancelled
  BY DEF Init, ShopCancelled, CancelledByShop, Unbooked
<1>2. ShopCancelled => RetailerCancelsBeforeDispatch
  BY DEF ShopCancelled, CancelledByShop, RetailerCancelsBeforeDispatch
<1> QED  BY <1>1, <1>2, ShopCancelledStep, Inductive, PTL DEF Spec
=============================================================================
