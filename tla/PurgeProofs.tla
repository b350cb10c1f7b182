---------------------------- MODULE PurgeProofs ----------------------------
(***************************************************************************)
(* The promises of StockLedger and Purge, proved for all values of the     *)
(* constants: the movement rows reproduce the aggregate stock of a SKU on  *)
(* any range of days, through every action of the ledger and every mode of *)
(* the script, and the restore mode returns the stock that arrived.  They  *)
(* rest on the invariant of OrderInventoryProofs with the units that       *)
(* credit notes put back loose.                                            *)
(***************************************************************************)
EXTENDS Purge, OrderInventoryProofs

-----------------------------------------------------------------------------
(* Rows and days.                                                          *)

MovementType == movement \in [Day -> [Sku -> [Kind -> Nat]]]

\* What the rows of a set of days add up to.
Net(s, days) == Moved(s, "IN", days) - Moved(s, "OUT", days) + Moved(s, "RETURN", days)

Upto(d) == {e \in Day : e < d}

\* There are finitely many days.
LEMMA DayFinite == IsFiniteSet(Day) /\ \A days \in SUBSET Day : IsFiniteSet(days)
<1>1. 0 \in Int /\ MaxDay \in Int
  BY BoundAssumption
<1>2. IsFiniteSet(Day)
  BY <1>1, FS_Interval DEF Day
<1> QED  BY <1>2, FS_Subset

\* What moved is a number of units.
LEMMA MovedType ==
  ASSUME MovementType, NEW s \in Sku, NEW k \in Kind, NEW days \in SUBSET Day
  PROVE  /\ \A d \in Day : movement[d][s][k] \in Nat
         /\ Moved(s, k, days) \in Nat
<1>1. \A d \in Day : movement[d][s][k] \in Nat
  BY DEF MovementType
<1>2. IsFiniteSet(days)
  BY DayFinite
<1>3. \A d \in days : [e \in Day |-> movement[e][s][k]][d] \in Nat
  BY <1>1
<1>4. Moved(s, k, days) \in Nat
  BY <1>2, <1>3, SumType DEF Moved
<1> QED  BY <1>1, <1>4

\* The three kinds of movement.
LEMMA Kinds == "IN" \in Kind /\ "OUT" \in Kind /\ "RETURN" \in Kind
BY DEF Kind

\* What moved on two disjoint sets of days together.
LEMMA MovedUnion ==
  ASSUME MovementType, NEW s \in Sku, NEW k \in Kind,
         NEW S \in SUBSET Day, NEW T \in SUBSET Day, S \cap T = {}
  PROVE  Moved(s, k, S \cup T) = Moved(s, k, S) + Moved(s, k, T)
<1>1. IsFiniteSet(S) /\ IsFiniteSet(T)
  BY DayFinite
<1>2. \A d \in S \cup T : [e \in Day |-> movement[e][s][k]][d] \in Nat
  BY MovedType
<1> QED  BY <1>1, <1>2, SumUnion DEF Moved

\* A range of the ledger page opens with the net of the days before it, and
\* closes with the net of the days to its end.
LEMMA SummaryIsNet ==
  ASSUME MovementType, NEW s \in Sku, NEW d \in Int, NEW e \in Int, d <= e
  PROVE  /\ Summary(s, d, e - 1).closing = Net(s, Upto(e))
         /\ Summary(s, d, e - 1).opening = Net(s, Upto(d))
<1> DEFINE range == {x \in Day : d <= x /\ x <= e - 1}
           before == {x \in Day : x < d}
<1>1. Upto(e) = before \cup range /\ before \cap range = {}
  BY DEF Upto, Day
<1>2. before = Upto(d) /\ before \in SUBSET Day /\ range \in SUBSET Day
  BY DEF Upto
<1>3. Summary(s, d, e - 1).opening = Net(s, before)
  BY DEF Summary, Net
<1>4. Summary(s, d, e - 1).closing =
        Net(s, before) + Moved(s, "IN", range) - Moved(s, "OUT", range) + Moved(s, "RETURN", range)
  BY DEF Summary, Net
<1> HIDE DEF range, before
<1>5. ASSUME NEW k \in Kind
      PROVE  /\ Moved(s, k, Upto(e)) = Moved(s, k, before) + Moved(s, k, range)
             /\ Moved(s, k, before) \in Nat /\ Moved(s, k, range) \in Nat
  BY <1>1, <1>2, MovedUnion, MovedType
<1>6. \A i, o, r, j, p, q \in Nat : (i + j) - (o + p) + (r + q) = (i - o + r) + j - p + q
  OBVIOUS
<1>7. Net(s, Upto(e)) =
        Net(s, before) + Moved(s, "IN", range) - Moved(s, "OUT", range) + Moved(s, "RETURN", range)
  BY <1>5, <1>6, Kinds DEF Net
<1> QED  BY <1>2, <1>3, <1>4, <1>7

\* Rows added today are added to what moved, of their kind.
LEMMA RecordAdds ==
  ASSUME MovementType, today \in Day, NEW kind \in Kind, NEW units \in [Sku -> Nat],
         Record(kind, units)
  PROVE  /\ MovementType'
         /\ \A s \in Sku, k \in Kind :
              Moved(s, k, Day)' = Moved(s, k, Day) + (IF k = kind THEN units[s] ELSE 0)
<1>1. movement' = [movement EXCEPT ![today] = [s \in Sku |->
        [movement[today][s] EXCEPT ![kind] = movement[today][s][kind] + units[s]]]]
  BY DEF Record
<1>2. ASSUME NEW s \in Sku
      PROVE  [movement[today][s] EXCEPT ![kind] = movement[today][s][kind] + units[s]]
               \in [Kind -> Nat]
  BY DEF MovementType
<1>3. MovementType'
  BY <1>1, <1>2 DEF MovementType
<1>4. ASSUME NEW s \in Sku, NEW k \in Kind, NEW d \in Day
      PROVE  /\ movement'[d][s][k] \in Nat
             /\ d # today => movement'[d][s][k] = movement[d][s][k]
             /\ movement'[today][s][k] =
                  movement[today][s][k] + (IF k = kind THEN units[s] ELSE 0)
  BY <1>1, <1>3 DEF MovementType
<1>5. ASSUME NEW s \in Sku, NEW k \in Kind
      PROVE  Moved(s, k, Day)' = Moved(s, k, Day) + (IF k = kind THEN units[s] ELSE 0)
  <2> DEFINE f == [d \in Day |-> movement[d][s][k]]
             g == [d \in Day |-> movement'[d][s][k]]
  <2>1. \A d \in Day : f[d] \in Nat /\ g[d] \in Nat
    BY <1>4, MovedType
  <2>2. \A d \in Day : d # today => f[d] = g[d]
    BY <1>4
  <2>3. g[today] = f[today] + (IF k = kind THEN units[s] ELSE 0)
    BY <1>4
  <2>4. Moved(s, k, Day) = Sum(f, Day) /\ Moved(s, k, Day)' = Sum(g, Day)
    BY DEF Moved
  <2> HIDE DEF f, g
  <2>5. Sum(g, Day) + f[today] = Sum(f, Day) + g[today]
    BY <2>1, <2>2, DayFinite, SumUpdate
  <2>6. Sum(f, Day) \in Nat /\ Sum(g, Day) \in Nat /\ units[s] \in Nat
    BY <2>1, DayFinite, SumType
  <2> QED  BY <2>1, <2>3, <2>4, <2>5, <2>6
<1> QED  BY <1>3, <1>5

-----------------------------------------------------------------------------
(* The invariant of the ledger.                                            *)

Received == [b \in Batch |-> batch[b].received]

\* The rows that count what arrived count the units of the batches, and all
\* rows together the aggregate.
Booked ==
  \A s \in Sku :
    /\ Moved(s, "IN", Day) = Sum(Received, BatchesOf(s))
    /\ Net(s, Day) = inventory[s].total

LedgerInv ==
  /\ LooseInv(restocked)
  /\ restocked \in [Sku -> Nat]
  /\ MovementType
  /\ Booked

\* A step of OrderInventory keeps its invariant beside the loose units.
LEMMA StockKept ==
  ASSUME LedgerInv, [Next]_vars, UNCHANGED restocked
  PROVE  LooseInv(restocked)' /\ restocked' \in [Sku -> Nat]
<1>1. PICK loose \in [Sku -> Nat] : loose = restocked
  BY DEF LedgerInv
<1>2. LooseInv(loose)
  BY <1>1 DEF LedgerInv, LooseInv, TotalHolds
<1>3. LooseInv(loose)'
  BY <1>2, LooseNext
<1>4. restocked' = loose
  BY <1>1
<1> QED  BY <1>3, <1>4 DEF LooseInv, TotalHolds

\* The batches of a SKU and what they arrived with.
SameArrivals ==
  \A s \in Sku : BatchesOf(s)' = BatchesOf(s)
                 /\ \A b \in Batch : batch'[b].received = batch[b].received

\* Then what arrived of it is the same.
LEMMA ArrivalsKept ==
  ASSUME SameArrivals, NEW s \in Sku
  PROVE  Sum(Received, BatchesOf(s))' = Sum(Received, BatchesOf(s))
<1>1. BatchesOf(s)' = BatchesOf(s) /\ \A b \in BatchesOf(s) : Received'[b] = Received[b]
  BY DEF SameArrivals, Received, BatchesOf
<1>2. Sum(Received', BatchesOf(s)) = Sum(Received, BatchesOf(s))
  BY <1>1, SumCong
<1> QED  BY <1>1, <1>2

\* A step without rows that leaves the aggregate alone.
LEMMA WithoutRows ==
  ASSUME LedgerInv, [Next]_vars, UNCHANGED <<restocked, movement>>, SameArrivals,
         \A s \in Sku : inventory'[s].total = inventory[s].total
  PROVE  LedgerInv'
<1>1. LooseInv(restocked)' /\ restocked' \in [Sku -> Nat]
  BY StockKept
<1>2. \A s \in Sku : Net(s, Day)' = Net(s, Day) /\ Moved(s, "IN", Day)' = Moved(s, "IN", Day)
  BY DEF Net, Moved
<1>3. Booked'
  BY <1>2, ArrivalsKept DEF Booked, LedgerInv
<1>4. MovementType'
  BY DEF LedgerInv, MovementType
<1> QED  BY <1>1, <1>3, <1>4 DEF LedgerInv

\* Batches that keep their SKU and what they arrived with.
LEMMA BatchesKept ==
  ASSUME \A b \in Batch : batch'[b].sku = batch[b].sku /\ batch'[b].received = batch[b].received
  PROVE  SameArrivals
BY DEF SameArrivals, BatchesOf

\* A reservation, booking, delivery or the next day.
LEMMA BookKeeps ==
  ASSUME LedgerInv, NEW a \in Actor, NEW o \in Order, NEW r \in Retailer, NEW cart \in Carts,
         Book(a, o, r, cart)
  PROVE  LedgerInv'
<1>1. CreateOrder(a, o, r, cart) /\ UNCHANGED <<restocked, movement>> /\ Next
  BY DEF Book, records, Next
<1>2. UNCHANGED <<batch, inventory>>
  BY <1>1 DEF CreateOrder, stock
<1> QED  BY <1>1, <1>2, BatchesKept, WithoutRows

\* Moves of an order that write no row: none of them changes an aggregate.
LEMMA MoveWithoutRowsKeeps ==
  ASSUME LedgerInv, NEW a \in Actor, NEW o \in Order, NEW d \in Driver \cup {NoDriver},
         MoveWithoutRows(a, o, d)
  PROVE  LedgerInv'
<1>1. UNCHANGED <<restocked, movement>> /\ Next
  BY DEF MoveWithoutRows, records, Next, UpdateStatus
<1>2. batch \in [Batch -> BatchRow] /\ inventory \in [Sku -> [total : Nat, reserved : Nat]]
  BY DEF LedgerInv, LooseInv, TypeOK
<1>3. /\ \A b \in Batch : batch'[b].sku = batch[b].sku /\ batch'[b].received = batch[b].received
      /\ \A s \in Sku : inventory'[s].total = inventory[s].total
  <2>1. CASE MarkReadyToShip(a, o, d)
    BY <1>2, <2>1 DEF MarkReadyToShip, BatchRow
  <2>2. CASE Deliver(a, o, d)
    BY <2>2 DEF Deliver, stock
  <2>3. CASE CancelReserved(a, o, d)
    BY <1>2, <2>3 DEF CancelReserved, BatchRow
  <2> QED  BY <2>1, <2>2, <2>3 DEF MoveWithoutRows
<1> QED  BY <1>1, <1>3, BatchesKept, WithoutRows

\* The next day begins with the stock of the day before.
LEMMA DayPassesKeeps == ASSUME LedgerInv, DayPasses PROVE LedgerInv'
<1>1. UNCHANGED <<restocked, movement, batch, inventory>> /\ Next
  BY DEF DayPasses, records, NextDay, stock, Next
<1> QED  BY <1>1, BatchesKept, WithoutRows

\* The units an order holds of a SKU are a number.
LEMMA AllocatedType ==
  ASSUME TypeOK, NEW o \in Order
  PROVE  Allocated(o) \in [Sku -> Nat]
<1>1. \A s \in Sku : BatchesOf(s) \in SUBSET Batch
  BY DEF BatchesOf
<1> QED  BY <1>1, QuantityType DEF TypeOK, Allocated

\* Rows of goods that leave or come back, in step with the aggregate.
LEMMA RowsKeep ==
  ASSUME LedgerInv, [Next]_vars, UNCHANGED restocked, SameArrivals,
         NEW units \in [Sku -> Nat], NEW kind \in {"OUT", "RETURN"}, Record(kind, units),
         \A s \in Sku : inventory'[s].total =
           IF kind = "OUT" THEN inventory[s].total - units[s] ELSE inventory[s].total + units[s]
  PROVE  LedgerInv'
<1>1. LooseInv(restocked)' /\ restocked' \in [Sku -> Nat]
  BY StockKept
<1>2. today \in Day /\ MovementType /\ kind \in Kind
  BY DEF LedgerInv, LooseInv, TypeOK, Kind
<1>3. /\ MovementType'
      /\ \A s \in Sku, k \in Kind :
           Moved(s, k, Day)' = Moved(s, k, Day) + (IF k = kind THEN units[s] ELSE 0)
  BY <1>2, RecordAdds
<1>4. ASSUME NEW s \in Sku
      PROVE  /\ Moved(s, "IN", Day)' = Sum(Received, BatchesOf(s))'
             /\ Net(s, Day)' = inventory'[s].total
  <2>1. /\ Moved(s, "IN", Day) \in Nat /\ Moved(s, "OUT", Day) \in Nat
        /\ Moved(s, "RETURN", Day) \in Nat /\ units[s] \in Nat
    BY <1>2, Kinds, MovedType
  <2>2. /\ Moved(s, "IN", Day)' = Moved(s, "IN", Day)
        /\ Moved(s, "OUT", Day)' = Moved(s, "OUT", Day) + (IF kind = "OUT" THEN units[s] ELSE 0)
        /\ Moved(s, "RETURN", Day)' =
             Moved(s, "RETURN", Day) + (IF kind = "OUT" THEN 0 ELSE units[s])
    BY <1>3, <2>1, Kinds
  <2>3. Moved(s, "IN", Day) - Moved(s, "OUT", Day) + Moved(s, "RETURN", Day) = inventory[s].total
    BY DEF LedgerInv, Booked, Net
  <2>4. Moved(s, "IN", Day)' - Moved(s, "OUT", Day)' + Moved(s, "RETURN", Day)' = inventory'[s].total
    BY <2>1, <2>2, <2>3
  <2>5. Moved(s, "IN", Day)' = Sum(Received, BatchesOf(s))'
    BY <2>2, ArrivalsKept DEF LedgerInv, Booked
  <2> QED  BY <2>4, <2>5 DEF Net
<1> QED  BY <1>1, <1>3, <1>4 DEF LedgerInv, Booked

\* A dispatch writes OUT what it takes from the aggregate.
LEMMA ShipKeeps ==
  ASSUME LedgerInv, NEW a \in Actor, NEW o \in Order, NEW d \in Driver \cup {NoDriver},
         Ship(a, o, d)
  PROVE  LedgerInv'
<1>1. Dispatch(a, o, d) /\ Record("OUT", Allocated(o)) /\ UNCHANGED restocked /\ Next
  BY DEF Ship, Next, UpdateStatus
<1>2. batch \in [Batch -> BatchRow] /\ TypeOK
  BY DEF LedgerInv, LooseInv, TypeOK
<1>3. SameArrivals
  <2>1. \A b \in Batch : batch'[b].sku = batch[b].sku /\ batch'[b].received = batch[b].received
    <3>1. PICK take \in Reservations(o) :
            batch' = [b \in Batch |->
              [batch[b] EXCEPT !.reserved = batch[b].reserved + take[b] - held[o][b],
                               !.remaining = batch[b].remaining - held[o][b]]]
      BY <1>1 DEF Dispatch
    <3> QED  BY <1>2, <3>1 DEF BatchRow
  <2> QED  BY <2>1, BatchesKept
<1>4. \A s \in Sku : inventory'[s].total = inventory[s].total - Allocated(o)[s]
  <2>1. PICK take \in Reservations(o) :
          inventory' = [s \in Sku |->
            [total |-> inventory[s].total - Sum(held[o], BatchesOf(s)),
             reserved |-> MaxZero(inventory[s].reserved + Sum(take, BatchesOf(s))
                                    - Sum(held[o], BatchesOf(s)))]]
    BY <1>1 DEF Dispatch
  <2> QED  BY <2>1 DEF Allocated
<1> QED  BY <1>1, <1>2, <1>3, <1>4, AllocatedType, RowsKeep

\* A cancellation after dispatch writes RETURN what it brings back.
LEMMA TakeBackKeeps ==
  ASSUME LedgerInv, NEW a \in Actor, NEW o \in Order, NEW d \in Driver \cup {NoDriver},
         TakeBack(a, o, d)
  PROVE  LedgerInv'
<1>1. CancelDispatched(a, o, d) /\ Record("RETURN", Allocated(o)) /\ UNCHANGED restocked /\ Next
  BY DEF TakeBack, Next, UpdateStatus
<1>2. /\ batch \in [Batch -> BatchRow] /\ TypeOK
      /\ inventory \in [Sku -> [total : Nat, reserved : Nat]]
  BY DEF LedgerInv, LooseInv, TypeOK
<1>3. SameArrivals
  <2>1. \A b \in Batch : batch'[b].sku = batch[b].sku /\ batch'[b].received = batch[b].received
    BY <1>1, <1>2 DEF CancelDispatched, BatchRow
  <2> QED  BY <2>1, BatchesKept
<1>4. \A s \in Sku : inventory'[s].total = inventory[s].total + Allocated(o)[s]
  BY <1>1, <1>2 DEF CancelDispatched, Allocated
<1> QED  BY <1>1, <1>2, <1>3, <1>4, AllocatedType, RowsKeep

\* The items of a receipt.
LEMMA ReceiptItems ==
  ASSUME NEW r \in Receipts
  PROVE  /\ DOMAIN r = 1 .. Len(r) /\ Len(r) \in Nat
         /\ \A i \in 1 .. Len(r) : r[i].sku \in Sku /\ r[i].quantity \in Nat
<1> DEFINE Item == [sku : Sku, expiry : Day \cup {Never}, quantity : Nat]
<1>1. r \in Seq(Item)
  BY BoundAssumption
<1>2. \A item \in Item : item.sku \in Sku /\ item.quantity \in Nat
  OBVIOUS
<1> HIDE DEF Item
<1>3. DOMAIN r = 1 .. Len(r) /\ Len(r) \in Nat /\ \A i \in 1 .. Len(r) : r[i] \in Item
  BY <1>1
<1> QED  BY <1>2, <1>3

\* The rows of a receipt are the units of its batches, whichever way they are
\* counted: line by line, or batch by batch.
LEMMA ReceiptRows ==
  ASSUME NEW r \in Receipts, NEW last \in Nat, NEW s \in Sku, NEW item, NEW arriving,
         \A b \in last + 1 .. last + Len(r) : item[b] = r[b - last] /\ arriving[b] = item[b].quantity
  PROVE  Sum([i \in DOMAIN r |-> r[i].quantity], {i \in DOMAIN r : r[i].sku = s}) =
           Sum(arriving, {b \in last + 1 .. last + Len(r) : item[b].sku = s})
<1> DEFINE lines == {i \in DOMAIN r : r[i].sku = s}
           arrived == {b \in last + 1 .. last + Len(r) : item[b].sku = s}
           f == [i \in DOMAIN r |-> r[i].quantity]
           m == [i \in lines |-> last + i]
<1>1. /\ DOMAIN r = 1 .. Len(r) /\ Len(r) \in Nat
      /\ \A i \in 1 .. Len(r) : r[i].quantity \in Nat
  BY ReceiptItems
<1>2. \A i \in 1 .. Len(r) : /\ last + i \in last + 1 .. last + Len(r)
                             /\ item[last + i] = r[i] /\ arriving[last + i] = r[i].quantity
  <2>1. ASSUME NEW i \in 1 .. Len(r)
        PROVE  last + i \in last + 1 .. last + Len(r) /\ (last + i) - last = i
    BY <1>1
  <2> QED  BY <2>1
<1>3. \A b \in last + 1 .. last + Len(r) :
        /\ b - last \in 1 .. Len(r) /\ last + (b - last) = b /\ item[b] = r[b - last]
  BY <1>1
<1>4. m \in Bijection(lines, arrived)
  <2>1. m \in [lines -> arrived]
    BY <1>1, <1>2
  <2>2. \A i, j \in lines : m[i] = m[j] => i = j
    BY <1>1
  <2>3. \A b \in arrived : \E i \in lines : m[i] = b
    <3>1. ASSUME NEW b \in arrived PROVE b - last \in lines /\ m[b - last] = b
      BY <1>1, <1>3
    <3> QED  BY <3>1
  <2> HIDE DEF m, lines, arrived
  <2> QED  BY <2>1, <2>2, <2>3 DEF Bijection, Injection, IsInjective, Surjection
<1>5. IsFiniteSet(lines)
  <2>1. IsFiniteSet(1 .. Len(r))
    BY <1>1, FS_Interval
  <2>2. lines \in SUBSET (1 .. Len(r))
    BY <1>1
  <2> HIDE DEF lines
  <2> QED  BY <2>1, <2>2, FS_Subset
<1>6. \A i \in lines : f[i] \in Nat /\ arriving[m[i]] = f[i]
  BY <1>1, <1>2
<1> HIDE DEF m, f, lines, arrived
<1>7. Sum(arriving, arrived) = Sum(f, lines)
  BY <1>4, <1>5, <1>6, SumRename
<1> QED  BY <1>7 DEF f, lines, arrived

\* A receipt writes IN what its batches arrive with.
LEMMA BookReceiptKeeps ==
  ASSUME LedgerInv, NEW r \in Receipts, BookReceipt(r)
  PROVE  LedgerInv'
<1> DEFINE new == lastBatch + 1 .. lastBatch + Len(r)
           item == [b \in new |-> r[b - lastBatch]]
           arriving == [b \in new |-> r[b - lastBatch].quantity]
           arrived(s) == {b \in new : item[b].sku = s}
           units == [s \in Sku |->
             Sum([i \in DOMAIN r |-> r[i].quantity], {i \in DOMAIN r : r[i].sku = s})]
<1>1. /\ Receive(r) /\ Record("IN", units) /\ UNCHANGED restocked /\ Next
  BY DEF BookReceipt, Next
<1>2. /\ lastBatch + Len(r) <= MaxBatch
      /\ batch' = [b \in Batch |->
           IF b \notin new THEN batch[b]
           ELSE [sku |-> item[b].sku, expiry |-> item[b].expiry, received |-> arriving[b],
                 remaining |-> arriving[b], reserved |-> 0]]
      /\ inventory' = [s \in Sku |->
           [inventory[s] EXCEPT !.total = inventory[s].total + Sum(arriving, arrived(s))]]
  BY <1>1 DEF Receive
<1>3. LooseInv(restocked)' /\ restocked' \in [Sku -> Nat]
  BY <1>1, StockKept
<1>4. /\ TypeOK /\ NothingAhead /\ MovementType
      /\ lastBatch \in Nat /\ lastBatch <= MaxBatch /\ today \in Day
  BY BoundAssumption DEF LedgerInv, LooseInv, TypeOK
<1>5. Len(r) \in Nat /\ \A i \in 1 .. Len(r) : r[i].sku \in Sku /\ r[i].quantity \in Nat
  BY ReceiptItems
<1>6. ASSUME NEW s \in Sku PROVE units[s] = Sum(arriving, arrived(s))
  <2>1. \A b \in lastBatch + 1 .. lastBatch + Len(r) :
          item[b] = r[b - lastBatch] /\ arriving[b] = item[b].quantity
    OBVIOUS
  <2> HIDE DEF item, arriving
  <2>2. Sum([i \in DOMAIN r |-> r[i].quantity], {i \in DOMAIN r : r[i].sku = s}) =
          Sum(arriving, {b \in lastBatch + 1 .. lastBatch + Len(r) : item[b].sku = s})
    BY <1>4, <2>1, ReceiptRows
  <2> QED  BY <2>2
<1>7. /\ new \in SUBSET Batch
      /\ \A b \in new : b > lastBatch /\ arriving[b] \in Nat /\ item[b].sku \in Sku
  <2>1. ASSUME NEW b \in new
        PROVE  b \in Batch /\ b > lastBatch /\ arriving[b] \in Nat /\ item[b].sku \in Sku
    <3>1. b - lastBatch \in 1 .. Len(r) /\ b \in 1 .. MaxBatch /\ b > lastBatch
      BY <1>2, <1>4, <1>5, BoundAssumption
    <3> QED  BY <1>5, <3>1 DEF Batch
  <2> QED  BY <2>1
<1>8. \A b \in new : batch[b].sku = NoSku
  BY <1>4, <1>7 DEF NothingAhead
<1> HIDE DEF new, item, arriving, units
<1>9. /\ \A b \in Batch : b \notin new => batch'[b] = batch[b]
      /\ \A b \in new : batch'[b].sku = item[b].sku /\ batch'[b].received = arriving[b]
  BY <1>2, <1>7
<1>10. ASSUME NEW s \in Sku
       PROVE  /\ Sum(Received, BatchesOf(s))' = Sum(Received, BatchesOf(s)) + units[s]
              /\ units[s] \in Nat
  <2> DEFINE S == BatchesOf(s)
             T == arrived(s)
  <2>1. s # NoSku
    BY SkuAssumption
  <2>2. /\ S \in SUBSET Batch /\ T \in SUBSET Batch /\ T \in SUBSET new /\ S \cap T = {}
        /\ BatchesOf(s)' = S \cup T /\ \A b \in S : b \notin new
    BY <1>7, <1>8, <1>9, <2>1 DEF BatchesOf
  <2>3. IsFiniteSet(S) /\ IsFiniteSet(T)
    BY <2>2, BatchFinite
  <2>4. \A b \in Batch : Received[b] \in Nat
    BY <1>4, RowTypes DEF Received
  <2> HIDE DEF S, T
  <2>5. /\ \A b \in S : Received'[b] = Received[b] /\ Received'[b] \in Nat
        /\ \A b \in T : Received'[b] = arriving[b] /\ arriving[b] \in Nat
    BY <1>7, <1>9, <2>2, <2>4 DEF Received
  <2>6. Sum(Received', S \cup T) = Sum(Received', S) + Sum(Received', T)
    <3>1. \A b \in S \cup T : Received'[b] \in Nat
      BY <2>5
    <3> QED  BY <2>2, <2>3, <3>1, SumUnion
  <2>7. Sum(Received', S) = Sum(Received, S)
    BY <2>5, SumCong
  <2>8. Sum(Received', T) = Sum(arriving, T)
    BY <2>5, SumCong
  <2>9. Sum(arriving, T) \in Nat
    BY <2>3, <2>5, SumType
  <2>10. units[s] = Sum(arriving, T)
    BY <1>6 DEF T
  <2>11. Sum(Received', BatchesOf(s)') = Sum(Received, S) + units[s]
    BY <2>2, <2>6, <2>7, <2>8, <2>10
  <2> QED  BY <2>9, <2>10, <2>11 DEF S
<1>11. /\ MovementType'
       /\ \A s \in Sku, k \in Kind :
            Moved(s, k, Day)' = Moved(s, k, Day) + (IF k = "IN" THEN units[s] ELSE 0)
  <2>1. \A s \in Sku : units[s] \in Nat
    BY <1>10
  <2>2. units \in [Sku -> Nat]
    BY <2>1 DEF units
  <2> QED  BY <1>1, <1>4, <2>2, Kinds, RecordAdds
<1>12. ASSUME NEW s \in Sku
       PROVE  /\ Moved(s, "IN", Day)' = Sum(Received, BatchesOf(s))'
              /\ Net(s, Day)' = inventory'[s].total
  <2>1. /\ Moved(s, "IN", Day) \in Nat /\ Moved(s, "OUT", Day) \in Nat
        /\ Moved(s, "RETURN", Day) \in Nat /\ units[s] \in Nat
    BY <1>4, <1>10, Kinds, MovedType
  <2>2. /\ Moved(s, "IN", Day)' = Moved(s, "IN", Day) + units[s]
        /\ Moved(s, "OUT", Day)' = Moved(s, "OUT", Day)
        /\ Moved(s, "RETURN", Day)' = Moved(s, "RETURN", Day)
    BY <1>11, <2>1, Kinds
  <2>3. /\ Moved(s, "IN", Day) - Moved(s, "OUT", Day) + Moved(s, "RETURN", Day) = inventory[s].total
        /\ Moved(s, "IN", Day) = Sum(Received, BatchesOf(s))
    BY DEF LedgerInv, Booked, Net
  <2>4. inventory'[s].total = inventory[s].total + units[s]
    <3>1. inventory[s] \in [total : Nat, reserved : Nat]
      BY <1>4 DEF TypeOK
    <3> QED  BY <1>2, <1>6, <3>1
  <2>5. Moved(s, "IN", Day)' - Moved(s, "OUT", Day)' + Moved(s, "RETURN", Day)' = inventory'[s].total
    BY <2>1, <2>2, <2>3, <2>4
  <2>6. Moved(s, "IN", Day)' = Sum(Received, BatchesOf(s))'
    BY <1>10, <2>2, <2>3
  <2> QED  BY <2>5, <2>6 DEF Net
<1> QED  BY <1>3, <1>11, <1>12 DEF LedgerInv, Booked

\* A credit note that restocks adds as much to the aggregate, to the loose
\* units and to the rows.
LEMMA CreditKeeps ==
  ASSUME LedgerInv, NEW a \in Actor, NEW o \in Order, NEW s \in Sku, NEW q \in Nat,
         NEW restock \in BOOLEAN, Credit(a, o, s, q, restock)
  PROVE  LedgerInv'
<1> DEFINE returned == [t \in Sku |-> IF restock /\ t = s THEN q ELSE 0]
<1>1. /\ inventory' = [inventory EXCEPT ![s].total = inventory[s].total + returned[s]]
      /\ restocked' = [restocked EXCEPT ![s] = restocked[s] + returned[s]]
      /\ Record("RETURN", returned)
      /\ UNCHANGED <<today, batch, lastBatch, held, out, back, order, invoice, counter>>
  BY DEF Credit, invoices
<1>2. returned \in [Sku -> Nat] /\ \A t \in Sku : t # s => returned[t] = 0
  OBVIOUS
<1> HIDE DEF returned
<1>3. /\ TypeOK /\ ReservedWithinStock /\ TotalHolds(restocked) /\ ReservedIsSumOfBatches
      /\ ReservedIsHeldByOpenOrders /\ LedgerReproducesStock /\ GoodsFollowStatus
      /\ ReadyMeansFullyAllocated /\ NothingAhead
      /\ restocked \in [Sku -> Nat] /\ MovementType
  BY DEF LedgerInv, LooseInv
<1>4. inventory \in [Sku -> [total : Nat, reserved : Nat]] /\ today \in Day
  BY <1>3 DEF TypeOK
<1>5. ASSUME NEW t \in Sku
      PROVE  /\ inventory'[t].total = inventory[t].total + returned[t]
             /\ inventory'[t].reserved = inventory[t].reserved
             /\ inventory'[t] \in [total : Nat, reserved : Nat]
             /\ restocked'[t] = restocked[t] + returned[t]
             /\ inventory[t].total \in Nat /\ inventory[t].reserved \in Nat
             /\ restocked[t] \in Nat /\ returned[t] \in Nat
  <2>1. /\ inventory[t].total \in Nat /\ inventory[t].reserved \in Nat
        /\ restocked[t] \in Nat /\ returned[t] \in Nat
    BY <1>2, <1>3, <1>4
  <2>2. CASE t = s
    BY <1>1, <1>3, <1>4, <2>1, <2>2
  <2>3. CASE t # s
    BY <1>1, <1>2, <1>3, <1>4, <2>1, <2>3
  <2> QED  BY <2>2, <2>3
<1>6. restocked' \in [Sku -> Nat] /\ TypeOK'
  <2>1. restocked' \in [Sku -> Nat] /\ inventory' \in [Sku -> [total : Nat, reserved : Nat]]
    BY <1>1, <1>3, <1>4, <1>5
  <2> QED  BY <1>1, <1>3, <2>1 DEF TypeOK
<1>7. Remaining' = Remaining /\ Reserved' = Reserved /\ Received' = Received
      /\ Open' = Open /\ Away' = Away
  BY <1>1 DEF Remaining, Reserved, Received, Open, Away
<1>8. ASSUME NEW t \in Sku PROVE BatchesOf(t)' = BatchesOf(t) /\ BatchesOf(t) \in SUBSET Batch
  BY <1>1 DEF BatchesOf
<1>9. TotalHolds(restocked)'
  <2>1. ASSUME NEW t \in Sku
        PROVE  inventory'[t].total = Sum(Remaining, BatchesOf(t)) + restocked'[t]
    <3>1. Remaining \in Quantities
      BY <1>3, RowTypes DEF Remaining, Quantities
    <3>2. Sum(Remaining, BatchesOf(t)) \in Nat
      BY <1>8, <3>1, QuantityType
    <3>3. inventory[t].total = Sum(Remaining, BatchesOf(t)) + restocked[t]
      BY <1>3 DEF TotalHolds
    <3> QED  BY <1>5, <3>2, <3>3
  <2> QED  BY <1>7, <1>8, <2>1 DEF TotalHolds
<1>10. ReservedIsSumOfBatches' /\ ReservedWithinStock'
  <2>1. ReservedIsSumOfBatches'
    BY <1>3, <1>5, <1>7, <1>8 DEF ReservedIsSumOfBatches
  <2>2. \A b \in Batch : batch'[b].reserved <= batch'[b].remaining
    BY <1>1, <1>3 DEF ReservedWithinStock
  <2>3. \A t \in Sku : inventory'[t].reserved <= inventory'[t].total
    <3>1. ASSUME NEW t \in Sku PROVE inventory'[t].reserved <= inventory'[t].total
      <4>1. inventory[t].reserved <= inventory[t].total
        BY <1>3 DEF ReservedWithinStock
      <4> QED  BY <1>5, <4>1
    <3> QED  BY <3>1
  <2> QED  BY <2>1, <2>2, <2>3 DEF ReservedWithinStock
<1>11. ReservedIsHeldByOpenOrders' /\ LedgerReproducesStock' /\ GoodsFollowStatus'
  BY <1>1, <1>3, <1>7 DEF ReservedIsHeldByOpenOrders, LedgerReproducesStock, GoodsFollowStatus
<1>12. ReadyMeansFullyAllocated' /\ NothingAhead'
  BY <1>1, <1>3, <1>8 DEF ReadyMeansFullyAllocated, NothingAhead
<1>13. LooseInv(restocked)'
  BY <1>6, <1>9, <1>10, <1>11, <1>12 DEF LooseInv
<1>14. /\ MovementType'
       /\ \A t \in Sku, k \in Kind :
            Moved(t, k, Day)' = Moved(t, k, Day) + (IF k = "RETURN" THEN returned[t] ELSE 0)
  BY <1>1, <1>2, <1>3, <1>4, Kinds, RecordAdds
<1>15. ASSUME NEW t \in Sku
       PROVE  /\ Moved(t, "IN", Day)' = Sum(Received, BatchesOf(t))'
              /\ Net(t, Day)' = inventory'[t].total
  <2>1. /\ Moved(t, "IN", Day) \in Nat /\ Moved(t, "OUT", Day) \in Nat
        /\ Moved(t, "RETURN", Day) \in Nat
    BY <1>3, Kinds, MovedType
  <2>2. /\ Moved(t, "IN", Day)' = Moved(t, "IN", Day)
        /\ Moved(t, "OUT", Day)' = Moved(t, "OUT", Day)
        /\ Moved(t, "RETURN", Day)' = Moved(t, "RETURN", Day) + returned[t]
    BY <1>14, <2>1, Kinds
  <2>3. /\ Moved(t, "IN", Day) - Moved(t, "OUT", Day) + Moved(t, "RETURN", Day) = inventory[t].total
        /\ Moved(t, "IN", Day) = Sum(Received, BatchesOf(t))
    BY DEF LedgerInv, Booked, Net
  <2>4. Moved(t, "IN", Day)' - Moved(t, "OUT", Day)' + Moved(t, "RETURN", Day)' = inventory'[t].total
    BY <1>5, <2>1, <2>2, <2>3
  <2>5. Moved(t, "IN", Day)' = Sum(Received, BatchesOf(t))'
    BY <1>7, <1>8, <2>2, <2>3
  <2> QED  BY <2>4, <2>5 DEF Net
<1> QED  BY <1>6, <1>13, <1>14, <1>15 DEF LedgerInv, Booked

\* The steps that leave the stock and its rows alone.
LEMMA IdleKeeps ==
  ASSUME LedgerInv, UNCHANGED <<vars, movement, restocked>>
  PROVE  LedgerInv'
<1>1. \A s \in Sku : inventory'[s].total = inventory[s].total
  BY DEF vars, stock
<1>2. SameArrivals
  BY BatchesKept DEF vars, stock
<1> QED  BY <1>1, <1>2, WithoutRows

\* Every step of the ledger keeps its invariant.
LEMMA LedgerKeeps == ASSUME LedgerInv, LedgerNext PROVE LedgerInv'
<1>1. CASE \E a \in Actor, o \in Order, r \in Retailer, cart \in Carts : Book(a, o, r, cart)
  BY <1>1, BookKeeps
<1>2. CASE \E a \in Actor, o \in Order, d \in Driver \cup {NoDriver} :
             Ship(a, o, d) \/ TakeBack(a, o, d) \/ MoveWithoutRows(a, o, d)
  BY <1>2, ShipKeeps, TakeBackKeeps, MoveWithoutRowsKeeps
<1>3. CASE \E r \in Receipts : BookReceipt(r)
  BY <1>3, BookReceiptKeeps
<1>4. CASE \E a \in Actor, i \in DOMAIN receipt : CancelReceipt(a, i)
  BY <1>4, IdleKeeps DEF CancelReceipt
<1>5. CASE \E a \in Actor, o \in Order, s \in Sku, q \in {1}, restock \in BOOLEAN :
             Credit(a, o, s, q, restock)
  BY <1>5, CreditKeeps
<1>6. CASE Migrate
  BY <1>6, IdleKeeps DEF Migrate
<1>7. CASE DayPasses
  BY <1>7, DayPassesKeeps
<1> QED  BY <1>1, <1>2, <1>3, <1>4, <1>5, <1>6, <1>7 DEF LedgerNext

\* Nothing has moved before the first receipt.
LEMMA LedgerStarts == ASSUME LedgerInit PROVE LedgerInv
<1>1. restocked \in [Sku -> Nat] /\ restocked = NoneLoose /\ Init
  BY DEF LedgerInit, NoneLoose
<1>2. LooseInv(restocked)
  BY <1>1, InitKeeps, NothingIsLoose
<1>3. MovementType
  BY DEF LedgerInit, NoMovement, MovementType
<1>4. ASSUME NEW s \in Sku
      PROVE  Moved(s, "IN", Day) = Sum(Received, BatchesOf(s)) /\ Net(s, Day) = inventory[s].total
  <2>1. ASSUME NEW k \in Kind PROVE Moved(s, k, Day) = 0
    <3>1. \A d \in Day : [e \in Day |-> movement[e][s][k]][d] = 0
      BY DEF LedgerInit, NoMovement
    <3> QED  BY <3>1, SumZero DEF Moved
  <2>2. Sum(Received, BatchesOf(s)) = 0
    <3>1. \A b \in BatchesOf(s) : Received[b] = 0
      BY <1>1 DEF Init, NoBatch, BatchesOf, Received
    <3> QED  BY <3>1, SumZero
  <2>3. inventory[s].total = 0
    BY <1>1 DEF Init
  <2> QED  BY <2>1, <2>2, <2>3, Kinds DEF Net
<1> QED  BY <1>1, <1>2, <1>3, <1>4 DEF LedgerInv, Booked

-----------------------------------------------------------------------------
(* The script.                                                             *)

\* What the page of a SKU and its rows have in common at any time.
Agrees ==
  /\ MovementType
  /\ \A s \in Sku :
       /\ inventory[s].total \in Int /\ stray[s] \in Int
       /\ Net(s, Day) = inventory[s].total - stray[s]

\* Until the script has run, the ledger has its invariant, and no row was deleted.
PurgeInv ==
  /\ purge = "none" => LedgerInv /\ stray = [s \in Sku |-> 0]
  /\ Agrees

\* While the ledger has its invariant, page and rows agree.
LEMMA LedgerAgrees == ASSUME LedgerInv, stray = [s \in Sku |-> 0] PROVE Agrees
<1>1. \A s \in Sku : inventory[s].total \in Nat
  BY RowTypes DEF LedgerInv, LooseInv
<1> QED  BY <1>1 DEF Agrees, LedgerInv, Booked

\* The same after a step.
LEMMA LedgerAgreesNext == ASSUME LedgerInv', stray' = [s \in Sku |-> 0] PROVE Agrees'
<1>1. \A s \in Sku : inventory'[s].total \in Nat
  BY DEF LedgerInv, LooseInv, TypeOK
<1> QED  BY <1>1 DEF Agrees, LedgerInv, Booked

\* What is on hand of a batch and what dispatched orders took from it is what
\* arrived.
LEMMA ConsumedCompletes ==
  ASSUME LedgerInv, NEW b \in Batch
  PROVE  /\ Consumed[b] \in Nat
         /\ batch[b].remaining + Consumed[b] = batch[b].received
<1> DEFINE f == [o \in Order |-> out[o][b]]
           g == [o \in Order |-> back[o][b]]
           h == [o \in Order |-> held[o][b]]
           k == [o \in Order |-> IF o \in Dispatched THEN held[o][b] ELSE 0]
<1>1. TypeOK /\ GoodsFollowStatus /\ Dispatched = Away /\ Dispatched \in SUBSET Order
  BY DEF LedgerInv, LooseInv, Dispatched, Away
<1>2. batch[b].remaining + Sum(f, Order) = batch[b].received + Sum(g, Order)
  BY DEF LedgerInv, LooseInv, LedgerReproducesStock
<1>3. \A o \in Order : f[o] \in Nat /\ g[o] \in Nat /\ h[o] \in Nat /\ k[o] \in Nat
  BY <1>1, RowTypes
<1>4. \A o \in Order : f[o] = g[o] + k[o]
  BY <1>1 DEF GoodsFollowStatus
<1>5. \A o \in Order : k[o] = IF o \in Dispatched THEN h[o] ELSE 0
  OBVIOUS
<1>6. Consumed[b] = Sum(h, Dispatched)
  BY DEF Consumed
<1>7. batch[b].remaining \in Nat /\ batch[b].received \in Nat /\ IsFiniteSet(Order)
  BY <1>1, RowTypes, OrderAssumption
<1> HIDE DEF f, g, h, k
<1>8. Sum(f, Order) = Sum(g, Order) + Sum(k, Order)
  BY <1>3, <1>4, <1>7, SumAdd
<1>9. Sum(h, Dispatched) = Sum(k, Order)
  BY <1>1, <1>5, SumWithin
<1>10. Sum(k, Order) \in Nat /\ Sum(g, Order) \in Nat
  BY <1>3, <1>7, SumType
<1> QED  BY <1>2, <1>6, <1>7, <1>8, <1>9, <1>10

\* What the restore mode makes of the stock of a SKU.
LEMMA RestoredTotal ==
  ASSUME LedgerInv, NEW s \in Sku
  PROVE  /\ inventory[s].total + Sum(Consumed, BatchesOf(s)) =
              restocked[s] + Sum(Received, BatchesOf(s))
         /\ Sum(Consumed, BatchesOf(s)) \in Nat /\ Sum(Received, BatchesOf(s)) \in Nat
         /\ restocked[s] \in Nat /\ inventory[s].total \in Nat
<1> DEFINE S == BatchesOf(s)
<1>1. /\ TypeOK /\ restocked[s] \in Nat /\ S \in SUBSET Batch
      /\ inventory[s].total = Sum(Remaining, S) + restocked[s]
  BY DEF LedgerInv, LooseInv, TotalHolds, BatchesOf
<1>2. \A b \in Batch : /\ Remaining[b] \in Nat /\ Received[b] \in Nat /\ Consumed[b] \in Nat
                      /\ Received[b] = Remaining[b] + Consumed[b]
  BY <1>1, RowTypes, ConsumedCompletes DEF Remaining, Received
<1> HIDE DEF S
<1>3. IsFiniteSet(S)
  BY <1>1, BatchFinite
<1>4. \A b \in S : /\ Remaining[b] \in Nat /\ Received[b] \in Nat /\ Consumed[b] \in Nat
                  /\ Received[b] = Remaining[b] + Consumed[b]
  BY <1>1, <1>2
<1>5. Sum(Received, S) = Sum(Remaining, S) + Sum(Consumed, S)
  BY <1>3, <1>4, SumAdd
<1>6. Sum(Received, S) \in Nat /\ Sum(Remaining, S) \in Nat /\ Sum(Consumed, S) \in Nat
  BY <1>3, <1>4, SumType
<1>7. inventory[s].total \in Nat
  BY <1>1, RowTypes
<1> QED  BY <1>1, <1>5, <1>6, <1>7 DEF S

\* What the restore mode does to the stock tables.
LEMMA RestoreMeans ==
  ASSUME StockAfter("restore")
  PROVE  /\ movement' = [d \in Day |-> [s \in Sku |->
              [NoMovement EXCEPT !["IN"] = movement[d][s]["IN"]]]]
         /\ stray' = restocked
         /\ batch' = [b \in Batch |->
              [batch[b] EXCEPT !.remaining = batch[b].remaining + Consumed[b], !.reserved = 0]]
         /\ \A s \in Sku :
              /\ inventory'[s].reserved = 0
              /\ inventory'[s].total = inventory[s].total + Sum(Consumed, BatchesOf(s))
<1>1. /\ movement' = [d \in Day |-> [s \in Sku |->
             [NoMovement EXCEPT !["IN"] = movement[d][s]["IN"]]]]
      /\ stray' = restocked
      /\ batch' = [b \in Batch |->
             [batch[b] EXCEPT !.remaining = batch[b].remaining + Consumed[b], !.reserved = 0]]
      /\ inventory' = [s \in Sku |->
             [total |-> inventory[s].total + Sum(Consumed, BatchesOf(s)), reserved |-> 0]]
  BY Zenon DEF StockAfter
<1> QED  BY <1>1

\* The rows that are left add up to the stock that is left, in every mode.
LEMMA DeleteAgrees ==
  ASSUME LedgerInv, stray = [s \in Sku |-> 0], NEW mode \in Mode, StockAfter(mode)
  PROVE  Agrees'
<1>1. Agrees
  BY LedgerAgrees
<1>2. CASE mode = "leave"
  BY <1>1, <1>2 DEF StockAfter, Agrees, MovementType, Net, Moved
<1>3. CASE mode = "release"
  <2>1. /\ movement' = movement /\ stray' = stray
        /\ inventory' = [s \in Sku |-> [inventory[s] EXCEPT !.reserved = 0]]
    BY <1>3 DEF StockAfter
  <2>2. \A s \in Sku : inventory[s] \in [total : Nat, reserved : Nat]
    BY DEF LedgerInv, LooseInv, TypeOK
  <2>3. \A s \in Sku : inventory'[s].total = inventory[s].total
    BY <2>1, <2>2
  <2> QED  BY <1>1, <2>1, <2>3 DEF Agrees, MovementType, Net, Moved
<1>4. CASE mode = "reset"
  <2>1. /\ movement' = [d \in Day |-> [s \in Sku |-> NoMovement]] /\ stray' = stray
        /\ \A s \in Sku : inventory'[s].total = 0
    BY <1>4 DEF StockAfter
  <2>2. MovementType'
    BY <2>1 DEF MovementType, NoMovement
  <2>3. ASSUME NEW s \in Sku PROVE Net(s, Day)' = 0
    <3>1. ASSUME NEW k \in Kind PROVE Moved(s, k, Day)' = 0
      <4>1. \A d \in Day : [e \in Day |-> movement'[e][s][k]][d] = 0
        BY <2>1 DEF NoMovement
      <4>2. Sum([e \in Day |-> movement'[e][s][k]], Day) = 0
        BY <4>1, SumZero
      <4> QED  BY <4>2 DEF Moved
    <3> QED  BY <3>1, Kinds DEF Net
  <2> QED  BY <2>1, <2>2, <2>3 DEF Agrees
<1>5. CASE mode = "restore"
  <2>1. /\ movement' = [d \in Day |-> [s \in Sku |->
             [NoMovement EXCEPT !["IN"] = movement[d][s]["IN"]]]]
        /\ stray' = restocked
        /\ \A s \in Sku : inventory'[s].total = inventory[s].total + Sum(Consumed, BatchesOf(s))
    BY <1>5, RestoreMeans
  <2>2. \A d \in Day, s \in Sku : movement[d][s]["IN"] \in Nat
    BY <1>1, Kinds, MovedType DEF Agrees
  <2>3. /\ MovementType'
        /\ \A d \in Day, s \in Sku : /\ movement'[d][s]["IN"] = movement[d][s]["IN"]
                                     /\ movement'[d][s]["OUT"] = 0 /\ movement'[d][s]["RETURN"] = 0
    BY <2>1, <2>2 DEF MovementType, NoMovement, Kind
  <2>4. ASSUME NEW s \in Sku
        PROVE  Net(s, Day)' = Moved(s, "IN", Day) /\ Moved(s, "IN", Day) \in Nat
    <3>1. Moved(s, "IN", Day)' = Moved(s, "IN", Day)
      <4>1. \A d \in Day : [e \in Day |-> movement'[e][s]["IN"]][d] =
                            [e \in Day |-> movement[e][s]["IN"]][d]
        BY <2>3
      <4>2. Sum([e \in Day |-> movement'[e][s]["IN"]], Day) =
              Sum([e \in Day |-> movement[e][s]["IN"]], Day)
        BY <4>1, SumCong
      <4> QED  BY <4>2 DEF Moved
    <3>2. Moved(s, "OUT", Day)' = 0 /\ Moved(s, "RETURN", Day)' = 0
      <4>1. \A d \in Day : /\ [e \in Day |-> movement'[e][s]["OUT"]][d] = 0
                           /\ [e \in Day |-> movement'[e][s]["RETURN"]][d] = 0
        BY <2>3
      <4>2. /\ Sum([e \in Day |-> movement'[e][s]["OUT"]], Day) = 0
            /\ Sum([e \in Day |-> movement'[e][s]["RETURN"]], Day) = 0
        BY <4>1, SumZero
      <4> QED  BY <4>2 DEF Moved
    <3>3. Moved(s, "IN", Day) \in Nat
      BY <1>1, Kinds, MovedType DEF Agrees
    <3> QED  BY <3>1, <3>2, <3>3 DEF Net
  <2>5. ASSUME NEW s \in Sku
        PROVE  /\ inventory'[s].total \in Int /\ stray'[s] \in Int
               /\ Net(s, Day)' = inventory'[s].total - stray'[s]
    <3>1. Moved(s, "IN", Day) = Sum(Received, BatchesOf(s))
      BY DEF LedgerInv, Booked
    <3>2. stray'[s] = restocked[s]
      BY <2>1
    <3> QED  BY <2>1, <2>4, <3>1, <3>2, RestoredTotal
  <2> QED  BY <2>3, <2>5 DEF Agrees
<1> QED  BY <1>2, <1>3, <1>4, <1>5 DEF Mode

\* Every step keeps the agreement.
LEMMA PurgeKeeps == ASSUME PurgeInv, [PurgeNext]_purgeVars PROVE PurgeInv'
<1>1. CASE UNCHANGED purgeVars
  <2>1. UNCHANGED <<vars, movement, restocked, inventory, stray, purge>>
    BY <1>1 DEF purgeVars, records, vars, stock
  <2>2. Agrees'
    BY <2>1 DEF PurgeInv, Agrees, MovementType, Net, Moved
  <2>3. purge' = "none" => LedgerInv' /\ stray' = [s \in Sku |-> 0]
    BY <2>1, IdleKeeps DEF PurgeInv
  <2> QED  BY <2>2, <2>3 DEF PurgeInv
<1>2. CASE LedgerNext /\ UNCHANGED <<purge, stray>> /\ purge = "none"
  <2>1. LedgerInv' /\ stray' = [s \in Sku |-> 0]
    BY <1>2, LedgerKeeps DEF PurgeInv
  <2>2. Agrees'
    BY <2>1, LedgerAgreesNext
  <2> QED  BY <2>1, <2>2 DEF PurgeInv
<1>3. ASSUME purge = "none", NEW mode \in Mode, RunPurge(mode) PROVE PurgeInv'
  <2>1. LedgerInv /\ stray = [s \in Sku |-> 0] /\ Agrees
    BY <1>3 DEF PurgeInv
  <2>2. CASE Refuse(mode)
    <3>1. purge' # "none" /\ UNCHANGED <<movement, inventory, stray>>
      BY <2>2 DEF Refuse, vars, stock, records
    <3> QED  BY <2>1, <3>1 DEF PurgeInv, Agrees, MovementType, Net, Moved
  <2>3. CASE Delete(mode)
    <3>1. purge' # "none" /\ StockAfter(mode)
      BY <2>3 DEF Delete, Mode
    <3> QED  BY <2>1, <3>1, DeleteAgrees DEF PurgeInv
  <2> QED  BY <1>3, <2>2, <2>3 DEF RunPurge
<1> QED  BY <1>1, <1>2, <1>3 DEF PurgeNext

\* The invariant holds throughout.
LEMMA PurgeInductive == PurgeSpec => []PurgeInv
<1>1. PurgeInit => PurgeInv
  BY LedgerStarts, LedgerAgrees DEF PurgeInit, PurgeInv
<1>2. PurgeInv /\ [PurgeNext]_purgeVars => PurgeInv'
  BY PurgeKeeps
<1> QED  BY <1>1, <1>2, PTL DEF PurgeSpec

\* The ledger page reproduces the aggregate stock: whatever range it shows, it
\* closes today with what the stock page has, but for units whose credit notes a
\* restore deleted, and a range closes where the next one opens.
THEOREM TheLedgerPageIsRight == PurgeSpec => []LedgerReproducesTotals
<1>1. Agrees => LedgerReproducesTotals
  <2> SUFFICES ASSUME Agrees, NEW s \in Sku, NEW d \in Day
               PROVE  /\ Summary(s, d, MaxDay).closing = StockPage(s).total - stray[s]
                      /\ \A e \in d + 1 .. MaxDay :
                           Summary(s, d, e - 1).closing = Summary(s, e, MaxDay).opening
    BY DEF LedgerReproducesTotals
  <2>1. /\ MaxDay \in Nat /\ d \in Int /\ d <= MaxDay /\ MaxDay + 1 \in Int
        /\ (MaxDay + 1) - 1 = MaxDay /\ MovementType
    BY BoundAssumption DEF Day, Agrees
  <2>2. Summary(s, d, MaxDay).closing = Net(s, Upto(MaxDay + 1))
    BY <2>1, SummaryIsNet
  <2>3. Upto(MaxDay + 1) = Day
    BY BoundAssumption DEF Upto, Day
  <2>4. StockPage(s).total = inventory[s].total
    BY DEF StockPage
  <2>5. ASSUME NEW e \in d + 1 .. MaxDay
        PROVE  Summary(s, d, e - 1).closing = Summary(s, e, MaxDay).opening
    <3>1. e \in Int /\ d <= e /\ e <= MaxDay + 1
      BY <2>1
    <3>2. Summary(s, d, e - 1).closing = Net(s, Upto(e))
      BY <2>1, <3>1, SummaryIsNet
    <3>3. Summary(s, e, (MaxDay + 1) - 1).opening = Net(s, Upto(e))
      BY <2>1, <3>1, SummaryIsNet
    <3> QED  BY <2>1, <3>2, <3>3
  <2> QED  BY <2>2, <2>3, <2>4, <2>5 DEF Agrees
<1>2. PurgeInv => LedgerReproducesTotals
  BY <1>1 DEF PurgeInv
<1> QED  BY <1>2, PurgeInductive, PTL

\* The restore mode of the script returns the units every batch arrived with,
\* reserves nothing, and keeps in the aggregate what credit notes had put there.
THEOREM RestoreReturnsWhatArrived == PurgeSpec => RestoreUndoesOrders
<1> DEFINE A == purge' = "restore" /\ purge # "restore" =>
       /\ \A b \in Batch : batch'[b].remaining = batch[b].received /\ batch'[b].reserved = 0
       /\ \A s \in Sku :
            /\ inventory'[s].reserved = 0
            /\ inventory'[s].total =
                 restocked[s] + Sum([b \in Batch |-> batch[b].received], BatchesOf(s))
<1>1. PurgeInv /\ [PurgeNext]_purgeVars => [A]_purgeVars
  <2> SUFFICES ASSUME PurgeInv, PurgeNext, purge' = "restore", purge # "restore" PROVE A
    BY DEF A
  <2>1. LedgerInv /\ \E mode \in Mode : RunPurge(mode)
    BY DEF PurgeNext, PurgeInv
  <2>2. StockAfter("restore")
    BY <2>1 DEF RunPurge, Refuse, Delete
  <2>3. /\ \A s \in Sku : /\ inventory'[s].reserved = 0
                          /\ inventory'[s].total =
                               inventory[s].total + Sum(Consumed, BatchesOf(s))
        /\ batch' = [b \in Batch |->
             [batch[b] EXCEPT !.remaining = batch[b].remaining + Consumed[b], !.reserved = 0]]
    BY <2>2, RestoreMeans
  <2>4. \A b \in Batch : batch'[b].remaining = batch[b].received /\ batch'[b].reserved = 0
    <3>1. \A b \in Batch : batch[b] \in BatchRow
      BY <2>1 DEF LedgerInv, LooseInv, TypeOK
    <3> QED  BY <2>1, <2>3, <3>1, ConsumedCompletes DEF BatchRow
  <2>5. \A s \in Sku : inventory'[s].total = restocked[s] + Sum(Received, BatchesOf(s))
    BY <2>1, <2>3, RestoredTotal
  <2> QED  BY <2>3, <2>4, <2>5 DEF A, Received
<1> QED  BY <1>1, PurgeInductive, PTL DEF PurgeSpec, RestoreUndoesOrders
=============================================================================
