--------------------------- MODULE CheckoutProofs ---------------------------
(***************************************************************************)
(* What a shopkeeper is quoted, ordered and billed, for every catalogue,   *)
(* stock, cart and number of sessions.                                     *)
(***************************************************************************)
EXTENDS Checkout, QuantitySumsProofs, WellFoundedInduction

-----------------------------------------------------------------------------
(* The sums of Pricing and Checkout are folds of the community modules:    *)
(* they are the sums of QuantitySums, and have their laws.                 *)

Pick(S) == CHOOSE x \in S : TRUE

\* The equation a fold is defined by.
Folds(g, f) ==
  g = [S \in SUBSET DOMAIN f |-> IF S = {} THEN 0 ELSE f[Pick(S)] + g[S \ {Pick(S)}]]

\* The fold chooses a solution of its equation.
LEMMA SumIsChosen ==
  ASSUME NEW f
  PROVE  SumFunction(f) = (CHOOSE g : Folds(g, f))[DOMAIN f]
  BY DEF SumFunction, SumFunctionOnSet, FoldFunctionOnSet, MapThenFoldSet, Folds, Pick

\* The sum of a set is one of its quantities and the sum of the others.
LEMMA SumPick ==
  ASSUME NEW S, IsFiniteSet(S), S # {}, NEW f, \A x \in S : f[x] \in Nat
  PROVE  /\ Pick(S) \in S /\ f[Pick(S)] \in Nat
         /\ Sum(f, S \ {Pick(S)}) \in Nat
         /\ Sum(f, S) = f[Pick(S)] + Sum(f, S \ {Pick(S)})
<1> DEFINE x == Pick(S)
           R == S \ {x}
<1>1. x \in S
  BY DEF Pick
<1> HIDE DEF x
<1>2. IsFiniteSet({x}) /\ IsFiniteSet(R)
  BY FS_Singleton, FS_Subset
<1>3. S = {x} \cup R /\ {x} \cap R = {}
  BY <1>1
<1>4. Sum(f, {x} \cup R) = Sum(f, {x}) + Sum(f, R)
  BY <1>1, <1>2, <1>3, SumUnion
<1>5. Sum(f, {x}) = f[x]
  BY <1>1, SumOne
<1>6. Sum(f, R) \in Nat
  BY <1>2, SumType
<1> QED  BY <1>1, <1>3, <1>4, <1>5, <1>6 DEF x

\* The sums of the subsets solve the equation.
LEMMA SumFolds ==
  ASSUME NEW f, IsFiniteSet(DOMAIN f), \A x \in DOMAIN f : f[x] \in Nat
  PROVE  Folds([S \in SUBSET DOMAIN f |-> Sum(f, S)], f)
<1> DEFINE g == [S \in SUBSET DOMAIN f |-> Sum(f, S)]
<1>1. ASSUME NEW S \in SUBSET DOMAIN f
      PROVE  Sum(f, S) = IF S = {} THEN 0 ELSE f[Pick(S)] + g[S \ {Pick(S)}]
  <2>1. CASE S = {}
    <3>1. Sum(f, {}) = 0
      BY SumZero
    <3> QED  BY <2>1, <3>1
  <2>2. CASE S # {}
    <3>1. IsFiniteSet(S)
      BY FS_Subset
    <3>2. Sum(f, S) = f[Pick(S)] + Sum(f, S \ {Pick(S)})
      BY <2>2, <3>1, SumPick
    <3> QED  BY <2>2, <3>2
  <2> QED  BY <2>1, <2>2
<1> HIDE DEF g
<1>2. g = [S \in SUBSET DOMAIN f |-> IF S = {} THEN 0 ELSE f[Pick(S)] + g[S \ {Pick(S)}]]
  BY <1>1 DEF g
<1> QED  BY <1>2 DEF Folds, g

\* No other function solves it: a smallest set on which one did would have a
\* smaller one.
LEMMA FoldsIsSum ==
  ASSUME NEW f, IsFiniteSet(DOMAIN f), \A x \in DOMAIN f : f[x] \in Nat,
         NEW g, Folds(g, f), NEW T \in SUBSET DOMAIN f
  PROVE  g[T] = Sum(f, T)
<1> DEFINE Bad == {n \in Nat : \E S \in SUBSET DOMAIN f : Cardinality(S) = n /\ g[S] # Sum(f, S)}
<1>1. \A S \in SUBSET DOMAIN f : IsFiniteSet(S) /\ Cardinality(S) \in Nat
  BY FS_Subset, FS_CardinalityType
<1>2. \A S \in SUBSET DOMAIN f :
        g[S] = IF S = {} THEN 0 ELSE f[Pick(S)] + g[S \ {Pick(S)}]
  BY DEF Folds
<1>3. ASSUME Bad # {} PROVE FALSE
  <2>1. Bad \subseteq Nat
    OBVIOUS
  <2> HIDE DEF Bad
  <2>2. PICK n \in Bad : \A k \in Bad : ~ (<<k, n>> \in OpToRel(<, Nat))
    BY <1>3, <2>1, WFMin, NatLessThanWellFounded
  <2>3. \A k \in Bad : ~(k < n)
    BY <2>1, <2>2 DEF OpToRel
  <2>4. PICK S \in SUBSET DOMAIN f : Cardinality(S) = n /\ g[S] # Sum(f, S)
    BY <2>2 DEF Bad
  <2>5. S # {}
    <3>1. Sum(f, {}) = 0
      BY SumZero
    <3> QED  BY <1>2, <2>4, <3>1
  <2> DEFINE R == S \ {Pick(S)}
  <2>6. IsFiniteSet(S)
    BY <1>1
  <2>7. \A x \in S : f[x] \in Nat
    OBVIOUS
  <2>8. /\ Pick(S) \in S /\ Sum(f, S) = f[Pick(S)] + Sum(f, R)
    BY <2>5, <2>6, <2>7, SumPick
  <2>9. Cardinality(R) = Cardinality(S) - 1
    BY <2>6, <2>8, FS_RemoveElement
  <2>10. R \in SUBSET DOMAIN f /\ Cardinality(R) \in Nat /\ Cardinality(S) \in Nat
    BY <1>1
  <2>11. Cardinality(R) < n
    BY <2>4, <2>9, <2>10
  <2>12. Cardinality(R) \notin Bad
    BY <2>3, <2>11
  <2>13. g[R] = Sum(f, R)
    BY <2>10, <2>12 DEF Bad
  <2> QED  BY <1>2, <2>4, <2>5, <2>8, <2>13
<1>4. ~ \E S \in SUBSET DOMAIN f : Cardinality(S) = Cardinality(T) /\ g[S] # Sum(f, S)
  BY <1>1, <1>3
<1> QED  BY <1>4

\* A sum of finitely many quantities, folded or counted.
LEMMA SumFunctionIsSum ==
  ASSUME NEW f, IsFiniteSet(DOMAIN f), \A x \in DOMAIN f : f[x] \in Nat
  PROVE  SumFunction(f) = Sum(f, DOMAIN f) /\ SumFunction(f) \in Nat
<1>1. Folds(CHOOSE g : Folds(g, f), f)
  <2>1. \E g : Folds(g, f)
    BY SumFolds
  <2> QED  BY <2>1
<1>2. (CHOOSE g : Folds(g, f))[DOMAIN f] = Sum(f, DOMAIN f)
  <2>1. \A h : Folds(h, f) => h[DOMAIN f] = Sum(f, DOMAIN f)
    BY FoldsIsSum
  <2> QED  BY <1>1, <2>1
<1>3. Sum(f, DOMAIN f) \in Nat
  BY SumType
<1> QED  BY <1>2, <1>3, SumIsChosen

-----------------------------------------------------------------------------
(* The inductive invariant, for the SKU rows of a set R that edits stay in.*)

RowsStay(R) ==
  /\ R \subseteq SkuRow
  /\ FirstSkus \in [Sku -> R]
  /\ \A q \in Request : q.op = "sku" => \A row \in R : Edited(row, q.set) \in R

TypeInv(R) ==
  /\ request \in [Session -> Request]
  /\ DOMAIN session = Session
  /\ \A s \in Session : DOMAIN session[s] = {"stage", "me", "shop", "count"}
  /\ DOMAIN basket = Session
  /\ \A s \in Session : DOMAIN basket[s] = {"warehouse", "rows", "checked", "seen"}
  /\ DOMAIN order = OrderId
  /\ DOMAIN quote = Mobile
  /\ DOMAIN address = AddressId
  /\ user \in [Mobile -> User \cup {NoUser}]
  /\ sku \in [Sku -> R]
  /\ settings \in Settings
  /\ DOMAIN batch = DOMAIN FirstBatches
  /\ \A b \in DOMAIN batch : batch[b] \in BatchRow

\* The cart of a session holds whole packs of SKUs it has found visible.
PricedBasket(s, R) ==
  LET rows == basket[s].rows IN
  /\ DOMAIN rows = DOMAIN Merged(s) /\ rows = [k \in DOMAIN rows |-> rows[k]]
  /\ \A k \in DOMAIN Merged(s) :
       /\ rows[k] \in R /\ StoreVisible(rows[k])
       /\ Merged(s)[k] <= MaxLine /\ Merged(s)[k] % PackUnits(rows[k]) = 0

CheckedBasket(s) ==
  \A k \in DOMAIN Merged(s) :
    /\ basket[s].seen[k] \in Nat
    /\ Merged(s)[k] <= OrderableCap(basket[s].seen[k], PackUnits(basket[s].rows[k]))

SessionInv(s, R) ==
  LET stage == session[s].stage
      i == session[s].me.shop
  IN
  /\ request[s].op = "place" =>
       /\ stage \in {"entered", "open", "addressed", "priced", "checked"} => i \in ShopId
       /\ stage \in {"addressed", "priced", "checked"} => address[request[s].id] \in {i, Gone}
  /\ request[s].op \in Shopping =>
       /\ stage \in {"priced", "checked"} => PricedBasket(s, R)
       /\ stage = "checked" => CheckedBasket(s)

OrderFields ==
  {"shop", "salesman", "address", "warehouse", "lines", "charge", "chargeRate", "rows",
   "minimum", "percent", "checked", "seen"}

\* An order is sent to its shop, and is of whole packs that were seen free.
OrderInv(o) ==
  /\ DOMAIN order[o] = OrderFields
  /\ order[o].address \in AddressId \cup {NoId}
  /\ order[o].address # NoId => address[order[o].address] = order[o].shop
  /\ \A k \in DOMAIN order[o].lines :
       /\ order[o].lines[k].quantity <= Least(order[o].seen[k], MaxLine)
       /\ order[o].lines[k].quantity % PackUnits(order[o].rows[k]) = 0

IInv(R) ==
  /\ TypeInv(R)
  /\ \A s \in Session : SessionInv(s, R)
  /\ \A o \in Booked : OrderInv(o)

-----------------------------------------------------------------------------
(* Requests, carts, edits and stock.                                       *)

\* What a request carries, by its operation.
LEMMA RequestShapes ==
  ASSUME NEW r \in Request
  PROVE  /\ r.op \in Shopping => r.mobile \in Mobile /\ r.cart \in Cart
         /\ r.op = "place" => r.id \in AddressId
         /\ r.op = "sku" => r.sku \in Sku /\ Edits(r.set, SkuColumns)
         /\ r.op = "settings" => Edits(r.set, SettingColumns)
         /\ r.op = "reserve" => r.batch \in DOMAIN FirstBatches
         /\ r.op = "remove" => r.id \in AddressId
         /\ r.op \in {"quote", "place", "remove", "sku", "settings", "reserve"}
<1> HIDE DEF Cart
<1>1. \/ r \in [op : {"quote"}, mobile : Mobile, cart : Cart]
      \/ r \in [op : {"place"}, mobile : Mobile, id : AddressId, cart : Cart]
      \/ r \in [op : {"remove"}, mobile : Mobile, id : AddressId]
      \/ r.op = "sku" /\ r.sku \in Sku /\ Edits(r.set, SkuColumns)
      \/ r.op = "settings" /\ Edits(r.set, SettingColumns)
      \/ r.op = "reserve" /\ r.batch \in DOMAIN FirstBatches
  BY StoreRequestAssumption
<1> QED  BY <1>1 DEF Shopping

\* The SKUs of a cart are finitely many, and have units.
LEMMA MergedType ==
  ASSUME NEW cart \in Cart
  PROVE  /\ IsFiniteSet(DOMAIN MergeLines(cart)) /\ DOMAIN MergeLines(cart) \subseteq Sku
         /\ \A k \in DOMAIN MergeLines(cart) : MergeLines(cart)[k] \in Nat
         /\ MergeLines(cart) = [k \in DOMAIN MergeLines(cart) |-> MergeLines(cart)[k]]
<1> DEFINE skus == {cart[i].sku : i \in DOMAIN cart}
           skuOf == [i \in DOMAIN cart |-> cart[i].sku]
           of(k) == {j \in DOMAIN cart : cart[j].sku = k}
           units(k) == [i \in of(k) |-> cart[i].quantity]
<1>1. /\ DOMAIN cart = 1 .. Len(cart) /\ Len(cart) \in Nat
      /\ \A i \in DOMAIN cart : cart[i].sku \in Sku /\ cart[i].quantity \in Nat
  <2> DEFINE Item == [sku : Sku, quantity : 1 .. MaxLine]
  <2>1. \A l \in Item : l.sku \in Sku /\ l.quantity \in Nat
    BY PricingAssumption
  <2>2. cart \in Seq(Item)
    BY DEF Cart
  <2> HIDE DEF Item
  <2>3. /\ DOMAIN cart = 1 .. Len(cart) /\ Len(cart) \in Nat
        /\ \A i \in DOMAIN cart : cart[i] \in Item
    BY <2>2
  <2> QED  BY <2>1, <2>3
<1>2. IsFiniteSet(DOMAIN cart)
  BY <1>1, FS_Interval
<1>3. IsFiniteSet(skus)
  <2>1. skuOf \in Surjection(DOMAIN cart, skus)
    BY DEF Surjection
  <2> QED  BY <1>2, <2>1, FS_Surjection
<1>4. ASSUME NEW k \in skus PROVE SumFunction(units(k)) \in Nat
  <2>1. IsFiniteSet(DOMAIN units(k))
    BY <1>2, FS_Subset
  <2>2. \A i \in DOMAIN units(k) : units(k)[i] \in Nat
    BY <1>1
  <2> QED  BY <2>1, <2>2, SumFunctionIsSum
<1>5. MergeLines(cart) = [k \in skus |-> SumFunction(units(k))]
  BY DEF MergeLines
<1> HIDE DEF units, skus
<1> QED  BY <1>1, <1>3, <1>4, <1>5 DEF skus

\* A SKU stays a SKU when some of its columns are edited.
LEMMA EditedSku ==
  ASSUME NEW row \in SkuRow, NEW set, Edits(set, SkuColumns)
  PROVE  Edited(row, set) \in SkuRow
<1> DEFINE r == Edited(row, set)
<1>1. DOMAIN row = {"mrp", "amount", "sgst", "cgst", "igst", "pack", "listed"}
  BY DEF SkuRow
<1>2. r = [c \in {"mrp", "amount", "sgst", "cgst", "igst", "pack", "listed"} |->
             IF c \in DOMAIN set THEN set[c] ELSE row[c]]
  BY <1>1 DEF Edited
<1> HIDE DEF r
<1>3. /\ r.mrp \in Nat /\ r.amount \in Nat /\ r.sgst \in Nat /\ r.cgst \in Nat
      /\ r.igst \in Nat /\ r.pack \in Nat /\ r.listed \in BOOLEAN
  BY <1>2 DEF SkuRow, Edits, SkuColumns
<1>4. r = [mrp |-> r.mrp, amount |-> r.amount, sgst |-> r.sgst, cgst |-> r.cgst,
           igst |-> r.igst, pack |-> r.pack, listed |-> r.listed]
  BY <1>2
<1> QED  BY <1>3, <1>4 DEF SkuRow, r

\* And so do the settings.
LEMMA EditedSettings ==
  ASSUME NEW row \in Settings, NEW set, Edits(set, SettingColumns)
  PROVE  Edited(row, set) \in Settings
<1> DEFINE r == Edited(row, set)
<1>1. DOMAIN row = {"warehouse", "minimum", "percent"}
  BY DEF Settings
<1>2. r = [c \in {"warehouse", "minimum", "percent"} |->
             IF c \in DOMAIN set THEN set[c] ELSE row[c]]
  BY <1>1 DEF Edited
<1> HIDE DEF r
<1>3. r.warehouse \in Warehouse \cup {Closed} /\ r.minimum \in Nat /\ r.percent \in Nat
  BY <1>2 DEF Settings, Edits, SettingColumns
<1>4. r = [warehouse |-> r.warehouse, minimum |-> r.minimum, percent |-> r.percent]
  BY <1>2
<1> QED  BY <1>3, <1>4 DEF Settings, r

\* The rows of all SKUs are such a set.
LEMMA AllRowsStay == RowsStay(SkuRow)
<1>1. \A q \in Request : q.op = "sku" => Edits(q.set, SkuColumns)
  BY RequestShapes
<1> QED  BY <1>1, EditedSku, CheckoutAssumption DEF RowsStay

\* What is free in a warehouse is a quantity.
LEMMA AvailableType ==
  ASSUME NEW CONSTANT R, TypeInv(R), NEW w, NEW k \in Sku
  PROVE  Available(w)[k] \in Nat
<1> DEFINE free == {b \in DOMAIN batch : /\ batch[b].sku = k /\ batch[b].warehouse = w
                                        /\ batch[b].remaining > batch[b].reserved
                                        /\ ~batch[b].expired}
           left == [b \in free |-> batch[b].remaining - batch[b].reserved]
<1>1. IsFiniteSet(DOMAIN left)
  BY CheckoutAssumption, FS_Subset DEF TypeInv
<1>2. \A b \in DOMAIN left : left[b] \in Nat
  BY DEF TypeInv, BatchRow
<1>3. Available(w)[k] = SumFunction(left)
  BY DEF Available
<1> QED  BY <1>1, <1>2, <1>3, SumFunctionIsSum

-----------------------------------------------------------------------------
(* The types.                                                              *)

\* What every step leaves alone.
LEMMA Constancy ==
  ASSUME [Next]_vars
  PROVE  request' = request /\ user' = user /\ shop' = shop
<1>1. CASE UNCHANGED vars
  BY <1>1 DEF vars, onboarding
<1>2. ASSUME NEW s \in Session, StoreStep(s)
      PROVE  request' = request /\ user' = user /\ shop' = shop
  BY <1>2 DEF StoreStep, EnterStore, OpenWarehouse, FindAddress, PriceCart, AnswerQuote,
       CheckStock, Book, GiveUp, EditSku, EditSettings, ReserveStock, DetachOrders,
       Step, Stop, Office, DeleteAddress, onboarding
<1>3. ASSUME NEW s \in Session, Enter(s) \/ CountAddresses(s) \/ Fail(s)
      PROVE  request' = request /\ user' = user /\ shop' = shop
  BY <1>3 DEF Enter, CountAddresses, Fail, onboarding
<1> QED  BY <1>1, <1>2, <1>3 DEF Next

\* How far the acting session is, and what it holds; the others stay.
SessionStep(s) ==
  /\ DOMAIN session' = Session /\ \A t \in Session \ {s} : session'[t] = session[t]
  /\ DOMAIN basket' = Session /\ \A t \in Session \ {s} : basket'[t] = basket[t]
  /\ DOMAIN session'[s] = {"stage", "me", "shop", "count"}
  /\ DOMAIN basket'[s] = {"warehouse", "rows", "checked", "seen"}

\* A session that ends forgets what it knew.
LEMMA EndFacts ==
  ASSUME NEW s \in Session, NEW answer, DOMAIN session = Session, End(s, answer)
  PROVE  /\ DOMAIN session' = Session /\ \A t \in Session \ {s} : session'[t] = session[t]
         /\ DOMAIN session'[s] = {"stage", "me", "shop", "count"}
         /\ session'[s].stage = answer
<1>1. session'[s] = [Fresh EXCEPT !.stage = answer]
  BY DEF End
<1> QED  BY <1>1 DEF End, Fresh

\* A session that steps on keeps whom it serves.
LEMMA StepFacts ==
  ASSUME NEW CONSTANT R, TypeInv(R), NEW s \in Session, NEW stage, NEW b, Step(s, stage, b)
  PROVE  /\ DOMAIN session' = Session /\ \A t \in Session \ {s} : session'[t] = session[t]
         /\ DOMAIN session'[s] = {"stage", "me", "shop", "count"}
         /\ session'[s].stage = stage /\ session'[s].me = session[s].me
         /\ basket' = [basket EXCEPT ![s] = b] /\ basket'[s] = b
         /\ UNCHANGED <<shop, request, onboarding, sku, settings, batch, order, quote>>
<1>1. session'[s] = [session[s] EXCEPT !.stage = stage]
  BY DEF Step, TypeInv
<1> QED  BY <1>1 DEF Step, TypeInv

\* A session that stops has an answer, and an empty basket.
LEMMA StopFacts ==
  ASSUME NEW CONSTANT R, TypeInv(R), NEW s \in Session, NEW answer, Stop(s, answer)
  PROVE  /\ SessionStep(s) /\ session'[s].stage = answer
         /\ UNCHANGED <<shop, request, onboarding, sku, settings, batch, order, quote>>
<1>1. End(s, answer)
  BY DEF Stop
<1>2. /\ DOMAIN session' = Session /\ \A t \in Session \ {s} : session'[t] = session[t]
      /\ DOMAIN session'[s] = {"stage", "me", "shop", "count"}
      /\ session'[s].stage = answer
  BY <1>1, EndFacts DEF TypeInv
<1> QED  BY <1>2 DEF SessionStep, Stop, TypeInv, NoBasket

\* Every step is a step of one session, which the others do not notice.
LEMMA OneSession ==
  ASSUME NEW CONSTANT R, TypeInv(R), NEW s \in Session,
         StoreStep(s) \/ ((Enter(s) \/ CountAddresses(s) \/ Fail(s)) /\ UNCHANGED store)
  PROVE  SessionStep(s)
<1>0. /\ DOMAIN session = Session /\ DOMAIN basket = Session
      /\ DOMAIN session[s] = {"stage", "me", "shop", "count"}
      /\ DOMAIN basket[s] = {"warehouse", "rows", "checked", "seen"}
  BY DEF TypeInv
<1>1. ASSUME NEW answer, End(s, answer), basket' = basket \/ basket' = [basket EXCEPT ![s] = NoBasket]
      PROVE  SessionStep(s)
  <2>1. /\ DOMAIN session' = Session /\ \A t \in Session \ {s} : session'[t] = session[t]
        /\ DOMAIN session'[s] = {"stage", "me", "shop", "count"}
    BY <1>0, <1>1, EndFacts
  <2> QED  BY <1>0, <1>1, <2>1 DEF SessionStep, NoBasket
<1>2. ASSUME NEW stage, NEW b, Step(s, stage, b),
             DOMAIN b = {"warehouse", "rows", "checked", "seen"}
      PROVE  SessionStep(s)
  BY <1>0, <1>2, StepFacts DEF SessionStep
<1>3. ASSUME NEW answer, Stop(s, answer) PROVE SessionStep(s)
  BY <1>3, StopFacts
<1>4. ASSUME NEW stage, NEW me, session' = [session EXCEPT ![s].stage = stage, ![s].me = me],
             basket' = basket
      PROVE  SessionStep(s)
  BY <1>0, <1>4 DEF SessionStep
<1>5. CASE EnterStore(s)
  BY <1>1, <1>4, <1>5 DEF EnterStore, store
<1>6. CASE OpenWarehouse(s)
  BY <1>0, <1>2, <1>3, <1>6 DEF OpenWarehouse, NoBasket
<1>7. CASE FindAddress(s)
  BY <1>0, <1>2, <1>3, <1>7 DEF FindAddress
<1>8. CASE PriceCart(s)
  BY <1>0, <1>2, <1>3, <1>8 DEF PriceCart
<1>9. CASE AnswerQuote(s)
  BY <1>1, <1>9 DEF AnswerQuote
<1>10. CASE CheckStock(s)
  BY <1>0, <1>2, <1>3, <1>10 DEF CheckStock
<1>11. CASE Book(s)
  BY <1>1, <1>11 DEF Book
<1>12. CASE GiveUp(s)
  BY <1>3, <1>12 DEF GiveUp
<1>13. CASE EditSku(s) \/ EditSettings(s) \/ ReserveStock(s)
  BY <1>1, <1>13 DEF EditSku, EditSettings, ReserveStock, Office
<1>14. CASE DetachOrders(s)
  BY <1>1, <1>14 DEF DetachOrders, DeleteAddress
<1>15. CASE (Enter(s) \/ CountAddresses(s) \/ Fail(s)) /\ UNCHANGED store
  <2>1. basket' = basket
    BY <1>15 DEF store
  <2>2. CASE Enter(s)
    BY <1>1, <1>4, <2>1, <2>2 DEF Enter
  <2>3. CASE CountAddresses(s)
    <3>1. CASE \E answer : End(s, answer)
      BY <1>1, <2>1, <3>1
    <3>2. CASE \E n : session' = [session EXCEPT ![s].stage = "counted", ![s].count = n]
      BY <1>0, <2>1, <3>2 DEF SessionStep
    <3> QED  BY <2>3, <3>1, <3>2 DEF CountAddresses
  <2>4. CASE Fail(s)
    BY <1>1, <2>1, <2>4 DEF Fail
  <2> QED  BY <1>15, <2>2, <2>3, <2>4
<1> QED  BY <1>5, <1>6, <1>7, <1>8, <1>9, <1>10, <1>11, <1>12, <1>13, <1>14, <1>15 DEF StoreStep

\* What a step does to the rows: nothing, unless it is the office's.
LEMMA RowsOfStep ==
  ASSUME NEW CONSTANT R, RowsStay(R), TypeInv(R), NEW s \in Session,
         StoreStep(s) \/ ((Enter(s) \/ CountAddresses(s) \/ Fail(s)) /\ UNCHANGED store)
  PROVE  /\ sku' \in [Sku -> R] /\ settings' \in Settings
         /\ DOMAIN batch' = DOMAIN batch /\ \A b \in DOMAIN batch : batch'[b] \in BatchRow
<1>0. /\ sku \in [Sku -> R] /\ settings \in Settings
      /\ \A b \in DOMAIN batch : batch[b] \in BatchRow
      /\ request[s] \in Request
  BY DEF TypeInv
<1>1. CASE UNCHANGED <<sku, settings, batch>>
  BY <1>0, <1>1
<1>2. CASE EditSku(s)
  <2>1. request[s].op = "sku" /\ UNCHANGED <<settings, batch>>
    BY <1>2 DEF EditSku, Office, Serving
  <2>2. request[s].sku \in Sku
    BY <1>0, <2>1, RequestShapes
  <2>3. Edited(sku[request[s].sku], request[s].set) \in R
    BY <1>0, <2>1, <2>2 DEF RowsStay
  <2>4. sku' = [sku EXCEPT ![request[s].sku] = Edited(sku[request[s].sku], request[s].set)]
    BY <1>2 DEF EditSku
  <2> QED  BY <1>0, <2>1, <2>3, <2>4
<1>3. CASE EditSettings(s)
  <2>1. request[s].op = "settings" /\ UNCHANGED <<sku, batch>>
    BY <1>3 DEF EditSettings, Office, Serving
  <2>2. Edits(request[s].set, SettingColumns)
    BY <1>0, <2>1, RequestShapes
  <2>3. settings' = Edited(settings, request[s].set)
    BY <1>3 DEF EditSettings
  <2> QED  BY <1>0, <2>1, <2>2, <2>3, EditedSettings
<1>4. CASE ReserveStock(s)
  <2> DEFINE b == request[s].batch
  <2>1. UNCHANGED <<sku, settings>> /\ batch' = [batch EXCEPT ![b].reserved = batch[b].remaining]
    BY <1>4 DEF ReserveStock
  <2> HIDE DEF b
  <2>2. ASSUME NEW c \in DOMAIN batch PROVE batch'[c] \in BatchRow
    <3>1. batch[c] \in BatchRow
      BY <1>0
    <3>2. batch'[c] = batch[c] \/ batch'[c] = [batch[c] EXCEPT !.reserved = batch[c].remaining]
      BY <2>1
    <3> QED  BY <3>1, <3>2 DEF BatchRow
  <2> QED  BY <1>0, <2>1, <2>2
<1>5. CASE EnterStore(s) \/ OpenWarehouse(s) \/ FindAddress(s) \/ PriceCart(s)
           \/ AnswerQuote(s) \/ CheckStock(s) \/ Book(s) \/ GiveUp(s) \/ DetachOrders(s)
  BY <1>1, <1>5 DEF EnterStore, OpenWarehouse, FindAddress, PriceCart, AnswerQuote, CheckStock,
       Book, GiveUp, DetachOrders, Step, Stop, store
<1>6. CASE UNCHANGED store
  BY <1>1, <1>6 DEF store
<1> QED  BY <1>2, <1>3, <1>4, <1>5, <1>6 DEF StoreStep

\* A row is deleted, or none: an address never goes to another shop.
LEMMA AddressesOfStep ==
  ASSUME NEW CONSTANT R, TypeInv(R), NEW s \in Session,
         StoreStep(s) \/ ((Enter(s) \/ CountAddresses(s) \/ Fail(s)) /\ UNCHANGED store)
  PROVE  /\ DOMAIN address' = AddressId
         /\ \A a \in AddressId : address'[a] \in {address[a], Gone}
         /\ DOMAIN order' = OrderId /\ DOMAIN quote' = Mobile
<1>0. DOMAIN address = AddressId /\ DOMAIN order = OrderId /\ DOMAIN quote = Mobile
  BY DEF TypeInv
<1>1. CASE EnterStore(s) \/ OpenWarehouse(s) \/ FindAddress(s) \/ PriceCart(s)
           \/ CheckStock(s) \/ GiveUp(s) \/ EditSku(s) \/ EditSettings(s) \/ ReserveStock(s)
  BY <1>0, <1>1 DEF EnterStore, OpenWarehouse, FindAddress, PriceCart, CheckStock, GiveUp,
       EditSku, EditSettings, ReserveStock, Step, Stop, Office, store, onboarding
<1>2. CASE AnswerQuote(s)
  BY <1>0, <1>2 DEF AnswerQuote, onboarding
<1>3. CASE Book(s)
  BY <1>0, <1>3 DEF Book, onboarding
<1>4. CASE DetachOrders(s)
  BY <1>0, <1>4 DEF DetachOrders, DeleteAddress
<1>5. CASE (Enter(s) \/ CountAddresses(s) \/ Fail(s)) /\ UNCHANGED store
  BY <1>0, <1>5 DEF Enter, CountAddresses, Fail, store, onboarding
<1> QED  BY <1>1, <1>2, <1>3, <1>4, <1>5 DEF StoreStep

\* Every step keeps the types.
LEMMA TypeNext ==
  ASSUME NEW CONSTANT R, RowsStay(R), TypeInv(R), [Next]_vars
  PROVE  TypeInv(R)'
<1>1. CASE UNCHANGED vars
  BY <1>1 DEF TypeInv, vars, store, onboarding
<1>2. CASE Next
  <2>1. PICK s \in Session :
          StoreStep(s) \/ ((Enter(s) \/ CountAddresses(s) \/ Fail(s)) /\ UNCHANGED store)
    BY <1>2 DEF Next
  <2>2. SessionStep(s)
    BY <2>1, OneSession
  <2>3. /\ sku' \in [Sku -> R] /\ settings' \in Settings
        /\ DOMAIN batch' = DOMAIN batch /\ \A b \in DOMAIN batch : batch'[b] \in BatchRow
    BY <2>1, RowsOfStep
  <2>4. DOMAIN address' = AddressId /\ DOMAIN order' = OrderId /\ DOMAIN quote' = Mobile
    BY <2>1, AddressesOfStep
  <2>5. request' = request /\ user' = user
    BY Constancy
  <2> QED  BY <2>2, <2>3, <2>4, <2>5 DEF TypeInv, SessionStep
<1> QED  BY <1>1, <1>2

-----------------------------------------------------------------------------
(* The sessions.                                                           *)

\* A session that is where it was keeps what it knows: an address it found is
\* its shop's, or gone.
LEMMA SessionStays ==
  ASSUME NEW CONSTANT R, TypeInv(R), NEW s \in Session, SessionInv(s, R),
         request' = request, session'[s] = session[s], basket'[s] = basket[s],
         \A a \in AddressId : address'[a] \in {address[a], Gone}
  PROVE  SessionInv(s, R)'
<1>1. request[s] \in Request
  BY DEF TypeInv
<1>2. request[s].op = "place" => request[s].id \in AddressId
  BY <1>1, RequestShapes
<1>3. Merged(s)' = Merged(s)
  BY DEF Merged
<1>4. PricedBasket(s, R)' <=> PricedBasket(s, R)
  BY <1>3 DEF PricedBasket
<1>5. CheckedBasket(s)' <=> CheckedBasket(s)
  BY <1>3 DEF CheckedBasket
<1> QED  BY <1>2, <1>4, <1>5 DEF SessionInv

\* A session that has ended knows nothing.
LEMMA SessionEnds ==
  ASSUME NEW CONSTANT R, NEW s \in Session,
         session'[s].stage \notin {"entered", "open", "addressed", "priced", "checked"}
  PROVE  SessionInv(s, R)'
  BY DEF SessionInv

\* Nor does one that is of another kind.
LEMMA OtherRequest ==
  ASSUME NEW CONSTANT R, NEW s \in Session, request' = request, request[s].op \notin Shopping
  PROVE  SessionInv(s, R)'
  BY DEF SessionInv, Shopping

\* A session that comes in acts for a confirmed shop, if it orders.
LEMMA EnterStoreKeeps ==
  ASSUME NEW CONSTANT R, TypeInv(R), NEW s \in Session, EnterStore(s)
  PROVE  SessionInv(s, R)'
<1> DEFINE u == user[request[s].mobile]
<1>1. request[s] \in Request /\ request[s].op \in Shopping /\ request' = request
  BY DEF EnterStore, Serving, TypeInv
<1>2. u \in User \cup {NoUser}
  <2>1. request[s].mobile \in Mobile
    BY <1>1, RequestShapes
  <2> QED  BY <2>1 DEF TypeInv
<1> HIDE DEF u
<1>3. CASE End(s, "refused")
  BY <1>3, EndFacts, SessionEnds DEF TypeInv
<1>4. CASE /\ session' = [session EXCEPT ![s].stage = "entered", ![s].me = u]
           /\ request[s].op = "place" => u # NoUser /\ State(u) = "ready"
  <2>1. session'[s].stage = "entered" /\ session'[s].me = u
    BY <1>4 DEF TypeInv
  <2>2. request[s].op = "place" => u.shop \in ShopId
    BY <1>2, <1>4 DEF State, User
  <2> QED  BY <1>1, <2>1, <2>2 DEF SessionInv
<1> QED  BY <1>3, <1>4 DEF EnterStore, u

\* The store is open, if the session is to go on.
LEMMA OpenWarehouseKeeps ==
  ASSUME NEW CONSTANT R, TypeInv(R), NEW s \in Session, SessionInv(s, R), OpenWarehouse(s)
  PROVE  SessionInv(s, R)'
<1>1. CASE Stop(s, "refused")
  BY <1>1, StopFacts, SessionEnds
<1>2. ASSUME NEW b, Step(s, "open", b) PROVE SessionInv(s, R)'
  BY <1>2, StepFacts DEF OpenWarehouse, Serving, SessionInv
<1> QED  BY <1>1, <1>2 DEF OpenWarehouse

\* The address it names is its shop's.
LEMMA FindAddressKeeps ==
  ASSUME NEW CONSTANT R, TypeInv(R), NEW s \in Session, SessionInv(s, R), FindAddress(s)
  PROVE  SessionInv(s, R)'
<1>1. CASE Stop(s, "refused")
  BY <1>1, StopFacts, SessionEnds
<1>2. CASE Step(s, "addressed", basket[s]) /\ address[request[s].id] = session[s].me.shop
  <2>1. /\ session'[s].stage = "addressed" /\ session'[s].me = session[s].me
        /\ request' = request /\ address' = address
    BY <1>2, StepFacts DEF onboarding
  <2> QED  BY <1>2, <2>1 DEF FindAddress, Serving, SessionInv
<1> QED  BY <1>1, <1>2 DEF FindAddress

\* What is priced are visible SKUs of the catalogue, in whole packs.
LEMMA PriceCartKeeps ==
  ASSUME NEW CONSTANT R, TypeInv(R), NEW s \in Session, SessionInv(s, R), PriceCart(s)
  PROVE  SessionInv(s, R)'
<1>1. CASE Stop(s, "refused")
  BY <1>1, StopFacts, SessionEnds
<1> DEFINE merged == Merged(s)
           rows == [k \in DOMAIN merged |-> sku[k]]
<1>2. CASE /\ Step(s, "priced", [basket[s] EXCEPT !.rows = rows])
           /\ \A k \in DOMAIN merged :
                merged[k] <= MaxLine /\ StoreVisible(sku[k]) /\ merged[k] % PackUnits(sku[k]) = 0
  <2>1. /\ session'[s].stage = "priced" /\ session'[s].me = session[s].me
        /\ request' = request /\ address' = address
        /\ basket'[s] = [basket[s] EXCEPT !.rows = rows]
    BY <1>2, StepFacts DEF onboarding
  <2>2. Merged(s)' = merged
    BY <2>1 DEF Merged
  <2>3. basket'[s].rows = rows
    BY <2>1 DEF TypeInv
  <2>4. request[s] \in Request /\ request[s].op \in Shopping
    BY DEF PriceCart, Serving, Shopping, TypeInv
  <2>5. DOMAIN merged \subseteq Sku
    BY <2>4, RequestShapes, MergedType DEF Merged
  <2> HIDE DEF merged
  <2>6. \A k \in DOMAIN merged : rows[k] = sku[k] /\ sku[k] \in R
    BY <2>5 DEF TypeInv
  <2>7. rows = [k \in DOMAIN rows |-> rows[k]] /\ DOMAIN rows = DOMAIN merged
    OBVIOUS
  <2> HIDE DEF rows
  <2>8. PricedBasket(s, R)'
    BY <1>2, <2>2, <2>3, <2>6, <2>7 DEF PricedBasket
  <2>9. request[s].op = "place" => session[s].stage = "addressed"
    BY DEF PriceCart, Serving
  <2> QED  BY <2>1, <2>8, <2>9 DEF SessionInv
<1> DEFINE refused == \E k \in DOMAIN merged : \/ merged[k] > MaxLine
                                             \/ ~StoreVisible(sku[k])
                                             \/ merged[k] % PackUnits(sku[k]) # 0
<1>3. IF refused THEN Stop(s, "refused") ELSE Step(s, "priced", [basket[s] EXCEPT !.rows = rows])
  BY DEF PriceCart
<1>4. ASSUME ~refused, NEW k \in DOMAIN merged
      PROVE  merged[k] <= MaxLine /\ StoreVisible(sku[k]) /\ merged[k] % PackUnits(sku[k]) = 0
  <2>1. ~(merged[k] > MaxLine) /\ StoreVisible(sku[k]) /\ merged[k] % PackUnits(sku[k]) = 0
    BY <1>4
  <2>2. merged[k] \in Nat
    <3>1. request[s] \in Request /\ request[s].op \in Shopping
      BY DEF PriceCart, Serving, Shopping, TypeInv
    <3> QED  BY <3>1, RequestShapes, MergedType DEF Merged
  <2> QED  BY <2>1, <2>2, PricingAssumption
<1> QED  BY <1>1, <1>2, <1>3, <1>4

\* What is checked was free at once.
LEMMA CheckStockKeeps ==
  ASSUME NEW CONSTANT R, R \subseteq SkuRow, TypeInv(R), NEW s \in Session,
         SessionInv(s, R), CheckStock(s)
  PROVE  SessionInv(s, R)'
<1>1. CASE Stop(s, "refused")
  BY <1>1, StopFacts, SessionEnds
<1> DEFINE merged == Merged(s)
           now == StorefrontAvailability
           seen == [k \in DOMAIN merged |-> now[k]]
           b == [basket[s] EXCEPT !.checked = settings.warehouse, !.seen = seen]
<1>2. CASE Step(s, "checked", b) /\ Short(s, now) = {}
  <2>1. /\ session'[s].stage = "checked" /\ session'[s].me = session[s].me
        /\ request' = request /\ address' = address /\ basket'[s] = b
    BY <1>2, StepFacts DEF onboarding
  <2>2. Merged(s)' = merged
    BY <2>1 DEF Merged
  <2>3. b.rows = basket[s].rows /\ b.seen = seen
    BY DEF TypeInv
  <2>4. /\ request[s] \in Request /\ request[s].op = "place" /\ session[s].stage = "priced"
    BY DEF CheckStock, Serving, TypeInv
  <2>5. PricedBasket(s, R)
    BY <2>4 DEF SessionInv, Shopping
  <2>6. /\ DOMAIN merged \subseteq Sku /\ \A k \in DOMAIN merged : merged[k] \in Nat
    BY <2>4, RequestShapes, MergedType DEF Merged, Shopping
  <2>7. \A k \in DOMAIN merged : now[k] \in Nat
    BY <2>6, AvailableType DEF StorefrontAvailability
  <2>8. \A k \in DOMAIN merged : ~(merged[k] > OrderableCap(now[k], PackUnits(basket[s].rows[k])))
    BY <1>2 DEF Short
  <2>9. ASSUME NEW k \in DOMAIN merged
        PROVE  merged[k] <= OrderableCap(now[k], PackUnits(basket[s].rows[k]))
    <3> DEFINE units == PackUnits(basket[s].rows[k])
               cap == Least(now[k], MaxLine)
    <3>1. units \in Nat \ {0}
      <4>1. basket[s].rows[k] \in SkuRow
        BY <2>5 DEF PricedBasket
      <4> QED  BY <4>1 DEF SkuRow, PackUnits
    <3>2. cap \in Nat
      BY <2>7, PricingAssumption DEF Least
    <3>3. merged[k] \in Nat
      BY <2>6
    <3> HIDE DEF units, cap, merged
    <3>4. cap % units \in Int
      BY <3>1, <3>2
    <3>5. ~(merged[k] > cap - (cap % units))
      BY <2>8 DEF OrderableCap, units, cap
    <3> QED  BY <3>2, <3>3, <3>4, <3>5 DEF OrderableCap, units, cap
  <2> HIDE DEF b, seen, now, merged
  <2>10. PricedBasket(s, R)'
    BY <2>1, <2>2, <2>3, <2>5 DEF PricedBasket, merged
  <2>11. CheckedBasket(s)'
    BY <2>1, <2>2, <2>3, <2>7, <2>9 DEF CheckedBasket, seen
  <2> QED  BY <2>1, <2>4, <2>10, <2>11 DEF SessionInv
<1> QED  BY <1>1, <1>2 DEF CheckStock

\* Every step keeps what the sessions know.
LEMMA SessionsNext ==
  ASSUME NEW CONSTANT R, RowsStay(R), TypeInv(R), \A s \in Session : SessionInv(s, R), [Next]_vars,
         NEW t \in Session
  PROVE  SessionInv(t, R)'
<1>0. request' = request /\ SessionInv(t, R)
  BY Constancy
<1>1. CASE UNCHANGED vars
  <2>1. \A a \in AddressId : address'[a] \in {address[a], Gone}
    BY <1>1 DEF vars, onboarding
  <2> QED  BY <1>0, <1>1, <2>1, SessionStays DEF vars, store
<1>2. CASE Next
  <2>1. PICK s \in Session :
          StoreStep(s) \/ ((Enter(s) \/ CountAddresses(s) \/ Fail(s)) /\ UNCHANGED store)
    BY <1>2 DEF Next
  <2>2. CASE t # s
    <3>1. session'[t] = session[t] /\ basket'[t] = basket[t]
      BY <2>1, <2>2, OneSession DEF SessionStep
    <3>2. \A a \in AddressId : address'[a] \in {address[a], Gone}
      BY <2>1, AddressesOfStep
    <3> QED  BY <1>0, <3>1, <3>2, SessionStays
  <2>3. CASE t = s
    <3>1. CASE EnterStore(s)
      BY <2>3, <3>1, EnterStoreKeeps
    <3>2. CASE OpenWarehouse(s)
      BY <1>0, <2>3, <3>2, OpenWarehouseKeeps
    <3>3. CASE FindAddress(s)
      BY <1>0, <2>3, <3>3, FindAddressKeeps
    <3>4. CASE PriceCart(s)
      BY <1>0, <2>3, <3>4, PriceCartKeeps
    <3>5. CASE CheckStock(s)
      BY <1>0, <2>3, <3>5, CheckStockKeeps DEF RowsStay
    <3>6. CASE AnswerQuote(s) \/ Book(s)
      <4>1. End(s, "answered")
        BY <3>6 DEF AnswerQuote, Book
      <4>2. session'[s].stage = "answered"
        BY <4>1, EndFacts DEF TypeInv
      <4> QED  BY <2>3, <4>2, SessionEnds
    <3>7. CASE GiveUp(s)
      <4>1. session'[s].stage = "failed"
        BY <3>7, StopFacts DEF GiveUp
      <4> QED  BY <2>3, <4>1, SessionEnds
    <3>8. CASE \/ EditSku(s) \/ EditSettings(s) \/ ReserveStock(s) \/ DetachOrders(s)
               \/ Enter(s) \/ CountAddresses(s) \/ Fail(s)
      <4>1. request[s].op \notin Shopping
        BY <3>8 DEF EditSku, EditSettings, ReserveStock, Office, DetachOrders, DeleteAddress,
             Enter, CountAddresses, Fail, Serving, SignsUp, Shopping
      <4> QED  BY <1>0, <2>3, <4>1, OtherRequest
    <3> QED  BY <2>1, <3>1, <3>2, <3>3, <3>4, <3>5, <3>6, <3>7, <3>8 DEF StoreStep
  <2> QED  BY <2>2, <2>3
<1> QED  BY <1>1, <1>2

-----------------------------------------------------------------------------
(* The orders.                                                             *)

\* An order that is left alone, with the addresses, is as it was.
LEMMA OrderStays ==
  ASSUME NEW o \in OrderId, OrderInv(o), order'[o] = order[o], address' = address
  PROVE  OrderInv(o)'
  BY DEF OrderInv

\* The lines of a cart are its SKUs, with their units.
LEMMA LinesOfCart ==
  ASSUME NEW rows, NEW merged, NEW interState, NEW set
  PROVE  LET lines == Priced(rows, merged, interState, set).lines IN
         /\ DOMAIN lines = DOMAIN merged
         /\ \A k \in DOMAIN merged : lines[k].quantity = merged[k]
<1>1. Priced(rows, merged, interState, set).lines = PricedLines(rows, merged, interState)
  BY DEF Priced
<1>2. \A k \in DOMAIN merged : PriceLine(rows[k], merged[k]).quantity = merged[k]
  BY DEF PriceLine
<1>3. \A k \in DOMAIN merged : PricedLines(rows, merged, interState)[k].quantity = merged[k]
  BY <1>2 DEF PricedLines
<1> QED  BY <1>1, <1>3 DEF PricedLines

\* The new order is of what its session has checked, and for its shop.
LEMMA BookKeeps ==
  ASSUME NEW CONSTANT R, R \subseteq SkuRow, TypeInv(R), NEW s \in Session, SessionInv(s, R),
         Book(s), NEW o \in OrderId, order'[o] # order[o]
  PROVE  OrderInv(o)'
<1> DEFINE merged == Merged(s)
           b == basket[s]
           i == session[s].me.shop
           priced == Priced(b.rows, merged, i \in OtherState, settings)
           new == NewOrder(s, priced)
<1>1. /\ request[s] \in Request /\ request[s].op = "place" /\ session[s].stage = "checked"
      /\ address[request[s].id] # Gone /\ address' = address
  BY DEF Book, Serving, TypeInv, onboarding
<1>2. order'[o] = new
  <2>1. \E p \in OrderId : order' = [order EXCEPT ![p] = new]
    BY DEF Book
  <2> HIDE DEF new
  <2> QED  BY <2>1 DEF TypeInv
<1>3. request[s].id \in AddressId /\ address[request[s].id] = i
  BY <1>1, RequestShapes DEF SessionInv
<1>4. PricedBasket(s, R) /\ CheckedBasket(s)
  BY <1>1 DEF SessionInv, Shopping
<1>5. \A k \in DOMAIN merged : merged[k] \in Nat
  BY <1>1, RequestShapes, MergedType DEF Merged, Shopping
<1> HIDE DEF merged, priced
<1>6. /\ DOMAIN new = OrderFields /\ new.address = request[s].id /\ new.shop = i
      /\ new.lines = priced.lines /\ new.seen = b.seen /\ new.rows = b.rows
  BY DEF NewOrder, OrderFields
<1>7. DOMAIN priced.lines = DOMAIN merged /\ \A k \in DOMAIN merged : priced.lines[k].quantity = merged[k]
  BY LinesOfCart DEF priced
<1>8. ASSUME NEW k \in DOMAIN merged
      PROVE  merged[k] <= Least(b.seen[k], MaxLine) /\ merged[k] % PackUnits(b.rows[k]) = 0
  <2>1. /\ merged[k] % PackUnits(b.rows[k]) = 0 /\ b.rows[k] \in SkuRow /\ merged[k] <= MaxLine
        /\ b.seen[k] \in Nat /\ merged[k] <= OrderableCap(b.seen[k], PackUnits(b.rows[k]))
    BY <1>4 DEF PricedBasket, CheckedBasket, merged
  <2> DEFINE units == PackUnits(b.rows[k])
             cap == Least(b.seen[k], MaxLine)
  <2>2. units \in Nat \ {0}
    BY <2>1 DEF PackUnits, SkuRow
  <2>3. cap \in Nat
    BY <2>1, PricingAssumption DEF Least
  <2>4. merged[k] <= cap - (cap % units)
    BY <2>1 DEF OrderableCap
  <2>5. merged[k] \in Nat
    BY <1>5
  <2> HIDE DEF units, cap
  <2>6. \A n, c, u \in Nat : u # 0 /\ n <= c - (c % u) => n <= c
    OBVIOUS
  <2>7. merged[k] <= cap
    BY <2>2, <2>3, <2>4, <2>5, <2>6
  <2> QED  BY <2>1, <2>7 DEF cap
<1> HIDE DEF new
<1> QED  BY <1>1, <1>2, <1>3, <1>6, <1>7, <1>8 DEF OrderInv

\* An order of a deleted address names it no longer.
LEMMA DetachKeeps ==
  ASSUME NEW CONSTANT R, TypeInv(R), NEW s \in Session, DetachOrders(s),
         NEW o \in OrderId, order[o] # NoOrder, OrderInv(o)
  PROVE  OrderInv(o)'
<1> DEFINE a == request[s].id
<1>1. address' = [address EXCEPT ![a] = Gone] /\ DOMAIN address = AddressId
  BY DEF DetachOrders, DeleteAddress, TypeInv
<1>2. order'[o] = IF order[o].address = a THEN [order[o] EXCEPT !.address = NoId] ELSE order[o]
  BY DEF DetachOrders
<1> HIDE DEF a
<1>3. CASE order[o].address = a
  <2>1. /\ order'[o].address = NoId /\ DOMAIN order'[o] = OrderFields
        /\ order'[o].lines = order[o].lines /\ order'[o].seen = order[o].seen
        /\ order'[o].rows = order[o].rows
    BY <1>2, <1>3 DEF OrderInv, OrderFields
  <2> QED  BY <2>1 DEF OrderInv
<1>4. CASE order[o].address # a
  <2>1. order'[o] = order[o]
    BY <1>2, <1>4
  <2>2. order[o].address # NoId => address'[order[o].address] = address[order[o].address]
    BY <1>1, <1>4 DEF OrderInv
  <2> QED  BY <2>1, <2>2 DEF OrderInv
<1> QED  BY <1>3, <1>4

\* Only booking and the deletion of an address write orders or addresses.
LEMMA OrdersAlone ==
  ASSUME NEW s \in Session,
         StoreStep(s) \/ ((Enter(s) \/ CountAddresses(s) \/ Fail(s)) /\ UNCHANGED store),
         ~Book(s), ~DetachOrders(s)
  PROVE  order' = order /\ address' = address
<1>1. CASE EnterStore(s) \/ OpenWarehouse(s) \/ FindAddress(s) \/ PriceCart(s)
           \/ CheckStock(s) \/ GiveUp(s) \/ EditSku(s) \/ EditSettings(s) \/ ReserveStock(s)
  BY <1>1 DEF EnterStore, OpenWarehouse, FindAddress, PriceCart, CheckStock, GiveUp,
       EditSku, EditSettings, ReserveStock, Step, Stop, Office, store, onboarding
<1>2. CASE AnswerQuote(s)
  BY <1>2 DEF AnswerQuote, onboarding
<1>3. CASE (Enter(s) \/ CountAddresses(s) \/ Fail(s)) /\ UNCHANGED store
  BY <1>3 DEF Enter, CountAddresses, Fail, store, onboarding
<1> QED  BY <1>1, <1>2, <1>3 DEF StoreStep

\* Every step keeps what the orders are.
LEMMA OrdersNext ==
  ASSUME NEW CONSTANT R, RowsStay(R), IInv(R), [Next]_vars, NEW o \in OrderId,
         order'[o] # NoOrder
  PROVE  OrderInv(o)'
<1>0. /\ TypeInv(R) /\ R \subseteq SkuRow
      /\ \A s \in Session : SessionInv(s, R)
      /\ order[o] # NoOrder => OrderInv(o)
  BY DEF IInv, RowsStay, Booked
<1>1. CASE order' = order /\ address' = address
  BY <1>0, <1>1, OrderStays
<1>2. CASE UNCHANGED vars
  BY <1>1, <1>2 DEF vars, store, onboarding
<1>3. ASSUME NEW s \in Session, Book(s) PROVE OrderInv(o)'
  <2>1. CASE order'[o] # order[o]
    BY <1>0, <1>3, <2>1, BookKeeps
  <2>2. CASE order'[o] = order[o]
    <3>1. address' = address
      BY <1>3 DEF Book, onboarding
    <3> QED  BY <1>0, <2>2, <3>1, OrderStays
  <2> QED  BY <2>1, <2>2
<1>4. ASSUME NEW s \in Session, DetachOrders(s) PROVE OrderInv(o)'
  <2>1. CASE order[o] = NoOrder
    BY <1>4, <2>1 DEF DetachOrders
  <2>2. CASE order[o] # NoOrder
    BY <1>0, <1>4, <2>2, DetachKeeps
  <2> QED  BY <2>1, <2>2
<1> QED  BY <1>1, <1>2, <1>3, <1>4, OrdersAlone DEF Next

-----------------------------------------------------------------------------
(* What the shop and the stock rely on.                                    *)

\* Every state there is at first has the inductive invariant.
LEMMA InitIInv ==
  ASSUME NEW CONSTANT R, RowsStay(R), Init
  PROVE  IInv(R)
<1>1. TypeInv(R)
  BY CheckoutAssumption, OnboardingAssumption
     DEF Init, OnboardingInit, TypeInv, RowsStay, Fresh, NoBasket
<1>2. ASSUME NEW s \in Session PROVE SessionInv(s, R)
  BY DEF Init, SessionInv, Fresh
<1>3. Booked = {}
  BY DEF Init, Booked
<1> QED  BY <1>1, <1>2, <1>3 DEF IInv

\* And every step keeps it.
LEMMA NextIInv ==
  ASSUME NEW CONSTANT R, RowsStay(R), IInv(R), [Next]_vars
  PROVE  IInv(R)'
<1>1. TypeInv(R) /\ \A s \in Session : SessionInv(s, R)
  BY DEF IInv
<1>2. TypeInv(R)'
  BY <1>1, TypeNext
<1>3. ASSUME NEW s \in Session PROVE SessionInv(s, R)'
  BY <1>1, SessionsNext
<1>4. ASSUME NEW o \in OrderId, order'[o] # NoOrder PROVE OrderInv(o)'
  BY <1>4, OrdersNext
<1> QED  BY <1>2, <1>3, <1>4 DEF IInv, Booked

\* However a cart is split into lines, and whatever is edited, reserved or
\* deleted meanwhile, an order of the storefront is of whole packs of what
\* _stock_conflict saw free at once, and of no more than MAX_LINE_QUANTITY.
THEOREM OrdersFitTheStock == Spec => []OrderFitsStock
<1>1. IInv(SkuRow) => OrderFitsStock
  BY DEF IInv, OrderInv, OrderFitsStock
<1>2. Init => IInv(SkuRow)
  BY InitIInv, AllRowsStay
<1>3. IInv(SkuRow) /\ [Next]_vars => IInv(SkuRow)'
  BY NextIInv, AllRowsStay
<1> QED  BY <1>1, <1>2, <1>3, PTL DEF Spec

\* An order is delivered to an address of the shop it is for, which the session
\* that placed it had looked up (_get_address): once the address is deleted,
\* the order names none.
THEOREM OrdersGoToTheirShops == Spec => []OrderDeliversToItsShop
<1>1. IInv(SkuRow) => OrderDeliversToItsShop
  BY DEF IInv, OrderInv, OrderDeliversToItsShop
<1>2. Init => IInv(SkuRow)
  BY InitIInv, AllRowsStay
<1>3. IInv(SkuRow) /\ [Next]_vars => IInv(SkuRow)'
  BY NextIInv, AllRowsStay
<1> QED  BY <1>1, <1>2, <1>3, PTL DEF Spec

-----------------------------------------------------------------------------
(* Rounding.                                                               *)

\* Products grow with their factors.
LEMMA Products ==
  /\ \A a, b \in Nat : a * b \in Nat
  /\ \A a, b, c \in Nat : b <= c => a * b <= a * c /\ b * a <= c * a
<1>1. ASSUME NEW a \in Nat, NEW b \in Nat PROVE a * b \in Nat
  OBVIOUS
<1>2. ASSUME NEW a \in Nat, NEW b \in Nat, NEW c \in Nat, b <= c
      PROVE  a * b <= a * c /\ b * a <= c * a
  <2>1. PICK e \in Nat : c = b + e
    <3>1. c - b \in Nat /\ c = b + (c - b)
      BY <1>2
    <3> QED  BY <3>1
  <2>2. a * c = a * b + a * e /\ c * a = b * a + e * a
    BY <2>1
  <2>3. a * e \in Nat /\ e * a \in Nat /\ a * b \in Nat /\ b * a \in Nat
    BY <1>1
  <2> QED  BY <2>2, <2>3
<1> QED  BY <1>1, <1>2

\* A quotient is rounded to a whole number, and not above a whole bound.
LEMMA Rounding ==
  ASSUME NEW n \in Nat, NEW d \in Nat, d # 0
  PROVE  /\ RoundMoney(n, d) \in Nat
         /\ \A m \in Nat : n <= m * d => RoundMoney(n, d) <= m
<1> DEFINE q == RoundMoney(n, d)
<1>1. q \in Nat /\ (2 * d) * q <= 2 * n + d
  <2>1. \A a, b \in Nat : b # 0 => (a \div b) \in Nat /\ b * (a \div b) <= a
    OBVIOUS
  <2>2. (2 * n + d) \in Nat /\ (2 * d) \in Nat /\ (2 * d) # 0
    OBVIOUS
  <2> QED  BY <2>1, <2>2 DEF RoundMoney
<1> HIDE DEF q
<1>2. ASSUME NEW m \in Nat, n <= m * d PROVE q <= m
  <2>1. ASSUME m + 1 <= q PROVE FALSE
    <3>1. (2 * d) * (m + 1) <= (2 * d) * q
      <4>1. (2 * d) \in Nat /\ (m + 1) \in Nat
        OBVIOUS
      <4> QED  BY <4>1, <1>1, <2>1, Products
    <3>2. (2 * d) * (m + 1) = 2 * (m * d) + 2 * d
      OBVIOUS
    <3>3. (m * d) \in Nat /\ ((2 * d) * q) \in Nat
      BY <1>1, Products
    <3>4. 2 * (m * d) + 2 * d <= 2 * n + d
      BY <1>1, <3>1, <3>2, <3>3
    <3> QED  BY <1>2, <3>3, <3>4
  <2> QED  BY <1>1, <2>1
<1> QED  BY <1>1, <1>2 DEF q

\* The tax inside a value is at most the value, at a rate of at most a hundred percent.
LEMMA TaxWithin ==
  ASSUME NEW value \in Nat, NEW rate \in Nat
  PROVE  /\ InclusiveTax(value, rate) \in Nat
         /\ rate <= 10000 => InclusiveTax(value, rate) <= value
<1>1. value * rate \in Nat /\ (rate <= 10000 => value * rate <= value * 10000)
  BY Products
<1> QED  BY <1>1, Rounding DEF InclusiveTax

-----------------------------------------------------------------------------
(* Taxes.                                                                  *)

TaxDomains == {{}, {"IGST"}, {"CGST"}, {"SGST"}, {"CGST", "SGST"}}

TaxShape(taxes) ==
  /\ DOMAIN taxes \in TaxDomains
  /\ \A t \in DOMAIN taxes : taxes[t] \in Nat

RateOf(taxes, t) == IF t \in DOMAIN taxes THEN taxes[t] ELSE 0

\* The sums of none, of one and of two quantities.
LEMMA SmallSums ==
  ASSUME NEW f, \A x \in DOMAIN f : f[x] \in Nat
  PROVE  /\ DOMAIN f = {} => SumFunction(f) = 0
         /\ \A x : DOMAIN f = {x} => SumFunction(f) = f[x]
         /\ \A x, y : x # y /\ DOMAIN f = {x, y} => SumFunction(f) = f[x] + f[y]
<1>1. ASSUME DOMAIN f = {} PROVE SumFunction(f) = 0
  <2>1. IsFiniteSet(DOMAIN f) /\ Sum(f, DOMAIN f) = 0
    BY <1>1, FS_EmptySet, SumZero
  <2> QED  BY <2>1, SumFunctionIsSum
<1>2. ASSUME NEW x, DOMAIN f = {x} PROVE SumFunction(f) = f[x]
  <2>1. IsFiniteSet(DOMAIN f) /\ Sum(f, {x}) = f[x]
    BY <1>2, FS_Singleton, SumOne
  <2> QED  BY <1>2, <2>1, SumFunctionIsSum
<1>3. ASSUME NEW x, NEW y, x # y, DOMAIN f = {x, y} PROVE SumFunction(f) = f[x] + f[y]
  <2>1. IsFiniteSet({x}) /\ IsFiniteSet({y}) /\ {x} \cap {y} = {} /\ {x, y} = {x} \cup {y}
    BY <1>3, FS_Singleton
  <2>2. IsFiniteSet({x} \cup {y})
    BY <2>1, FS_Union
  <2>3. f[x] \in Nat /\ f[y] \in Nat
    BY <1>3
  <2>4. Sum(f, {x} \cup {y}) = Sum(f, {x}) + Sum(f, {y})
    BY <2>1, <2>3, SumUnion
  <2>5. Sum(f, {x}) = f[x] /\ Sum(f, {y}) = f[y]
    BY <2>3, SumOne
  <2>6. SumFunction(f) = Sum(f, DOMAIN f)
    BY <1>3, <2>1, <2>2, SumFunctionIsSum
  <2> QED  BY <1>3, <2>1, <2>4, <2>5, <2>6
<1> QED  BY <1>1, <1>2, <1>3

\* The rate of a line is that of its taxes.
LEMMA RateSum ==
  ASSUME NEW taxes, TaxShape(taxes)
  PROVE  /\ SumFunction(taxes) = RateOf(taxes, "CGST") + RateOf(taxes, "SGST") + RateOf(taxes, "IGST")
         /\ \A t : RateOf(taxes, t) \in Nat
<1>1. \A x \in DOMAIN taxes : taxes[x] \in Nat
  BY DEF TaxShape
<1>2. \A t : RateOf(taxes, t) \in Nat
  BY <1>1 DEF RateOf
<1>3. CASE DOMAIN taxes = {}
  <2>1. SumFunction(taxes) = 0
    BY <1>1, <1>3, SmallSums
  <2> QED  BY <1>2, <1>3, <2>1 DEF RateOf
<1>4. ASSUME NEW x \in {"CGST", "SGST", "IGST"}, DOMAIN taxes = {x}
      PROVE  SumFunction(taxes) = RateOf(taxes, "CGST") + RateOf(taxes, "SGST") + RateOf(taxes, "IGST")
  <2>1. SumFunction(taxes) = taxes[x] /\ taxes[x] \in Nat
    BY <1>1, <1>4, SmallSums
  <2> QED  BY <1>4, <2>1 DEF RateOf
<1>5. CASE DOMAIN taxes = {"CGST", "SGST"}
  <2>1. /\ SumFunction(taxes) = taxes["CGST"] + taxes["SGST"]
        /\ taxes["CGST"] \in Nat /\ taxes["SGST"] \in Nat
    BY <1>1, <1>5, SmallSums
  <2> QED  BY <1>5, <2>1 DEF RateOf
<1> QED  BY <1>2, <1>3, <1>4, <1>5 DEF TaxShape, TaxDomains

\* Rates of half a hundred percent each at most, and together of a hundred.
ModestRow ==
  {row \in SkuRow : row.sgst <= 50000 /\ row.cgst <= 50000 /\ row.igst <= 100000}

\* The taxes of a line with such rates are at most a hundred percent.
LEMMA TaxRowsShape ==
  ASSUME NEW row \in ModestRow, NEW interState \in BOOLEAN
  PROVE  /\ TaxShape(TaxRows(row, interState))
         /\ SumFunction(TaxRows(row, interState)) \in Nat
         /\ SumFunction(TaxRows(row, interState)) <= 10000
<1> DEFINE taxes == TaxRows(row, interState)
<1>1. /\ row.sgst \in Nat /\ row.cgst \in Nat /\ row.igst \in Nat
      /\ row.sgst <= 50000 /\ row.cgst <= 50000 /\ row.igst <= 100000
  BY DEF ModestRow, SkuRow
<1>2. ASSUME NEW n \in Nat
      PROVE  /\ Paise(n) \in Nat
             /\ n <= 100000 => Paise(n) <= 10000
             /\ n <= 50000 => Paise(n) <= 5000
  BY DEF Paise, RoundMoney
<1>3. \A c, g, i \in Nat : c + g + i <= 10000 /\ TaxShape(taxes)
        /\ RateOf(taxes, "CGST") = c /\ RateOf(taxes, "SGST") = g /\ RateOf(taxes, "IGST") = i
        => /\ TaxShape(taxes) /\ SumFunction(taxes) \in Nat /\ SumFunction(taxes) <= 10000
  BY RateSum
<1>4. CASE interState
  <2> DEFINE rate == IF row.igst > 0 THEN row.igst ELSE row.sgst + row.cgst
  <2>1. rate \in Nat /\ rate <= 100000
    BY <1>1
  <2>2. taxes = [t \in IF rate > 0 THEN {"IGST"} ELSE {} |-> Paise(rate)]
    BY <1>4 DEF TaxRows
  <2> HIDE DEF rate, taxes
  <2>3. Paise(rate) \in Nat /\ Paise(rate) <= 10000
    BY <1>2, <2>1
  <2>4. DOMAIN taxes = IF rate > 0 THEN {"IGST"} ELSE {}
    BY <2>2
  <2>5. TaxShape(taxes)
    BY <2>2, <2>3, <2>4 DEF TaxShape, TaxDomains
  <2>6. \A t : RateOf(taxes, t) \in {0, Paise(rate)}
    BY <2>2, <2>4 DEF RateOf
  <2>7. RateOf(taxes, "CGST") = 0 /\ RateOf(taxes, "SGST") = 0
    BY <2>4 DEF RateOf
  <2>8. RateOf(taxes, "IGST") \in Nat /\ 0 + 0 + RateOf(taxes, "IGST") <= 10000
    BY <2>3, <2>6
  <2> QED  BY <1>3, <2>5, <2>7, <2>8 DEF taxes
<1>5. CASE ~interState /\ (row.sgst > 0 \/ row.cgst > 0)
  <2> DEFINE rate == [CGST |-> row.cgst, SGST |-> row.sgst]
             D == {u \in DOMAIN rate : rate[u] > 0}
  <2>1. taxes = [t \in D |-> Paise(rate[t])]
    BY <1>5 DEF TaxRows
  <2>2. D \subseteq {"CGST", "SGST"} /\ \A t \in D : rate[t] \in Nat /\ rate[t] <= 50000
    BY <1>1
  <2>3. DOMAIN taxes = D
    BY <2>1
  <2> HIDE DEF rate, taxes, D
  <2>4. \A t \in D : taxes[t] \in Nat /\ taxes[t] <= 5000
    BY <1>2, <2>1, <2>2
  <2>5. D \in TaxDomains
    <3>0. \A x : x \in D => x = "CGST" \/ x = "SGST"
      BY <2>2
    <3>1. CASE "CGST" \in D /\ "SGST" \in D
      <4>1. \A x : x \in D <=> x \in {"CGST", "SGST"}
        BY <3>0, <3>1
      <4>2. D = {"CGST", "SGST"}
        BY <4>1
      <4> QED  BY <4>2 DEF TaxDomains
    <3>2. CASE "CGST" \in D /\ "SGST" \notin D
      <4>1. D = {"CGST"}
        BY <3>0, <3>2
      <4> QED  BY <4>1 DEF TaxDomains
    <3>3. CASE "CGST" \notin D /\ "SGST" \in D
      <4>1. D = {"SGST"}
        BY <3>0, <3>3
      <4> QED  BY <4>1 DEF TaxDomains
    <3>4. CASE "CGST" \notin D /\ "SGST" \notin D
      <4>1. D = {}
        BY <3>0, <3>4
      <4> QED  BY <4>1 DEF TaxDomains
    <3> QED  BY <3>1, <3>2, <3>3, <3>4
  <2>6. TaxShape(taxes)
    BY <2>3, <2>4, <2>5 DEF TaxShape
  <2>7. \A t : RateOf(taxes, t) \in Nat /\ RateOf(taxes, t) <= 5000
    BY <2>3, <2>4 DEF RateOf
  <2>8. RateOf(taxes, "IGST") = 0
    BY <2>2, <2>3 DEF RateOf
  <2>9. RateOf(taxes, "CGST") + RateOf(taxes, "SGST") + 0 <= 10000
    BY <2>7
  <2> QED  BY <1>3, <2>6, <2>7, <2>8, <2>9 DEF taxes
<1>6. CASE ~interState /\ ~(row.sgst > 0 \/ row.cgst > 0)
  <2> DEFINE n == row.igst
             half == RoundMoney(n, 20)
  <2>1. taxes = [t \in IF n > 0 THEN {"CGST", "SGST"} ELSE {} |->
                   IF t = "CGST" THEN half ELSE Paise(n - 10 * half)]
    BY <1>6 DEF TaxRows
  <2>2. n \in Nat /\ n <= 100000
    BY <1>1
  <2> HIDE DEF n
  <2>3. half \in Nat /\ 10 * half <= n /\ half <= 5000
        /\ half + Paise(n - 10 * half) <= 10000
    BY <2>2 DEF RoundMoney, Paise
  <2>4. n - 10 * half \in Nat
    BY <2>2, <2>3
  <2> HIDE DEF half, taxes
  <2>5. Paise(n - 10 * half) \in Nat
    BY <1>2, <2>4
  <2>6. DOMAIN taxes = IF n > 0 THEN {"CGST", "SGST"} ELSE {}
    BY <2>1
  <2>7. TaxShape(taxes)
    BY <2>1, <2>3, <2>5, <2>6 DEF TaxShape, TaxDomains
  <2>8. RateOf(taxes, "IGST") = 0 /\ RateOf(taxes, "CGST") \in {0, half}
        /\ RateOf(taxes, "SGST") \in {0, Paise(n - 10 * half)}
    BY <2>1, <2>6 DEF RateOf
  <2>9. RateOf(taxes, "CGST") \in Nat /\ RateOf(taxes, "SGST") \in Nat
        /\ RateOf(taxes, "CGST") + RateOf(taxes, "SGST") + 0 <= 10000
    BY <2>3, <2>5, <2>8
  <2> QED  BY <1>3, <2>7, <2>8, <2>9 DEF taxes
<1> QED  BY <1>4, <1>5, <1>6

-----------------------------------------------------------------------------
(* Totals.                                                                 *)

\* A bounded set of numbers has a largest one.
LEMMA MaxExists ==
  ASSUME NEW B \in Nat, NEW S, S # {}, \A x \in S : x \in Nat /\ x <= B
  PROVE  Max(S) \in S
<1> DEFINE T == {B - x : x \in S}
<1>0. \A x \in S : x \in Nat /\ x <= B /\ B - x \in Nat
  OBVIOUS
<1>1. T \subseteq Nat /\ T # {}
  BY <1>0
<1>2. PICK y \in T : \A z \in T : ~ (<<z, y>> \in OpToRel(<, Nat))
  BY <1>1, WFMin, NatLessThanWellFounded
<1>3. \A z \in T : ~(z < y)
  BY <1>1, <1>2 DEF OpToRel
<1>4. PICK x \in S : y = B - x
  BY <1>2
<1>5. ASSUME NEW z \in S PROVE x >= z
  <2>1. ~(B - z < B - x)
    BY <1>3, <1>4
  <2> QED  BY <1>0, <2>1
<1> QED  BY <1>5 DEF Max

\* What a line of a SKU comes to.
LineWorth(row, n) ==
  Greatest(n * Paise(row.mrp) - RoundMoney((row.mrp - row.amount) * n, 10), 0)

\* What a line is shown and billed, and its tax, which is a part of it.
LineFacts(line, worth) ==
  /\ worth \in Nat
  /\ Greatest(line.quantity * line.price - line.discount, 0) = worth
  /\ LineTotals(line).total = worth
  /\ LineTotals(line).gst \in Nat /\ LineTotals(line).taxable \in Nat
  /\ LineTotals(line).taxable + LineTotals(line).gst = worth
  /\ LineTotals(line).gst = InclusiveTax(worth, SumFunction(line.taxes))
  /\ TaxShape(line.taxes)
  /\ SumFunction(line.taxes) \in Nat /\ SumFunction(line.taxes) <= 10000

\* The line of a visible SKU with such rates has them.
LEMMA LineHasFacts ==
  ASSUME NEW row \in ModestRow, StoreVisible(row), NEW n \in Nat, NEW interState \in BOOLEAN,
         NEW line, line.quantity = PriceLine(row, n).quantity, line.price = PriceLine(row, n).price,
         line.discount = PriceLine(row, n).discount, line.taxes = TaxRows(row, interState)
  PROVE  LineFacts(line, LineWorth(row, n))
<1> DEFINE price == Paise(row.mrp)
           off == (row.mrp - row.amount) * n
           discount == RoundMoney(off, 10)
           worth == LineWorth(row, n)
           rate == SumFunction(line.taxes)
<1>1. line.quantity = n /\ line.price = price /\ line.discount = discount
  BY DEF PriceLine
<1>2. row.mrp \in Nat /\ row.amount \in Nat /\ row.mrp - row.amount \in Nat
  BY DEF ModestRow, SkuRow, StoreVisible
<1>3. price \in Nat
  BY <1>2, Rounding DEF Paise
<1>4. off \in Nat
  BY <1>2, Products
<1>5. discount \in Nat
  BY <1>4, Rounding
<1>6. n * price \in Nat
  BY <1>3, Products
<1>7. worth = Greatest(n * price - discount, 0)
  BY DEF LineWorth
<1>8. worth \in Nat
  BY <1>5, <1>6, <1>7 DEF Greatest
<1>9. TaxShape(line.taxes) /\ rate \in Nat /\ rate <= 10000
  BY TaxRowsShape
<1>10. Greatest(line.quantity * line.price - line.discount, 0) = worth
  BY <1>1, <1>7
<1> HIDE DEF worth, rate
<1>11. InclusiveTax(worth, rate) \in Nat /\ InclusiveTax(worth, rate) <= worth
  BY <1>8, <1>9, TaxWithin
<1>12. LineTotals(line) = [taxable |-> Greatest(worth - InclusiveTax(worth, rate), 0),
                           gst |-> InclusiveTax(worth, rate), total |-> worth]
  BY <1>10 DEF LineTotals, rate
<1>13. /\ Greatest(worth - InclusiveTax(worth, rate), 0) \in Nat
       /\ Greatest(worth - InclusiveTax(worth, rate), 0) + InclusiveTax(worth, rate) = worth
  BY <1>8, <1>11 DEF Greatest
<1> QED  BY <1>8, <1>9, <1>10, <1>11, <1>12, <1>13 DEF LineFacts, worth, rate

\* A cart of visible SKUs with such rates, and what it comes to.
Carted(rows, merged) ==
  /\ IsFiniteSet(DOMAIN merged) /\ DOMAIN merged \subseteq Sku
  /\ merged = [k \in DOMAIN merged |-> merged[k]]
  /\ \A k \in DOMAIN merged :
       merged[k] \in Nat /\ rows[k] \in ModestRow /\ StoreVisible(rows[k])

Worths(rows, merged) == [k \in DOMAIN merged |-> LineWorth(rows[k], merged[k])]

Due(rows, merged, minimum, percent) ==
  LET value == SumFunction(Worths(rows, merged))
  IN  value + ComputeCharge(value, minimum, percent)

\* The lines of a cart are worth what its SKUs are, whatever the state.
LEMMA LinesHaveFacts ==
  ASSUME NEW rows, NEW merged, Carted(rows, merged), NEW interState \in BOOLEAN,
         NEW k \in DOMAIN merged
  PROVE  LineFacts(PricedLines(rows, merged, interState)[k], LineWorth(rows[k], merged[k]))
<1> DEFINE row == rows[k]
           n == merged[k]
           line == PricedLines(rows, merged, interState)[k]
<1>1. row \in ModestRow /\ StoreVisible(row) /\ n \in Nat
  BY DEF Carted
<1>2. line = [quantity |-> PriceLine(row, n).quantity, price |-> PriceLine(row, n).price,
              discount |-> PriceLine(row, n).discount, taxes |-> TaxRows(row, interState)]
  BY DEF PricedLines
<1> HIDE DEF row, n, line
<1>3. /\ line.quantity = PriceLine(row, n).quantity /\ line.price = PriceLine(row, n).price
      /\ line.discount = PriceLine(row, n).discount /\ line.taxes = TaxRows(row, interState)
  BY <1>2
<1>4. LineFacts(line, LineWorth(row, n))
  BY <1>1, <1>3, LineHasFacts
<1> QED  BY <1>4 DEF row, n, line

\* An order, or a quote, that is priced on a cart of a session.
PricedOn(o, rows, merged, interState, minimum, percent) ==
  /\ o.lines = PricedLines(rows, merged, interState)
  /\ o.charge = ComputeCharge(CartValue(o.lines), minimum, percent)
  /\ o.chargeRate = HighestRate(o.lines)

\* Priced gives such a cart.
LEMMA PricedIsPricedOn ==
  ASSUME NEW rows, NEW merged, NEW interState, NEW set
  PROVE  PricedOn(Priced(rows, merged, interState, set), rows, merged, interState,
                  set.minimum, set.percent)
  BY DEF Priced, PricedOn

\* A charge is a quantity.
LEMMA ChargeType ==
  ASSUME NEW value \in Nat, NEW minimum \in Nat, NEW percent \in Nat
  PROVE  ComputeCharge(value, minimum, percent) \in Nat
<1>1. value * percent \in Nat
  BY Products
<1>2. RoundMoney(value * percent, 10000) \in Nat
  BY <1>1, Rounding
<1> QED  BY <1>2 DEF ComputeCharge

\* The value of a cart does not depend on the state, nor does its charge; its
\* highest rate is one of its lines'.
LEMMA ChargeOfCart ==
  ASSUME NEW rows, NEW merged, Carted(rows, merged), NEW interState \in BOOLEAN,
         NEW minimum \in Nat, NEW percent \in Nat,
         NEW o, PricedOn(o, rows, merged, interState, minimum, percent)
  PROVE  /\ SumFunction(Worths(rows, merged)) \in Nat
         /\ o.charge = ComputeCharge(SumFunction(Worths(rows, merged)), minimum, percent)
         /\ o.charge \in Nat /\ o.chargeRate \in Nat
<1> DEFINE lines == PricedLines(rows, merged, interState)
           worths == Worths(rows, merged)
           value == [k \in DOMAIN lines |->
                       Greatest(lines[k].quantity * lines[k].price - lines[k].discount, 0)]
           rates == {SumFunction(lines[k].taxes) : k \in DOMAIN lines}
<1>1. DOMAIN lines = DOMAIN merged
  BY DEF PricedLines
<1>2. \A k \in DOMAIN merged : LineFacts(lines[k], LineWorth(rows[k], merged[k]))
  BY LinesHaveFacts
<1> HIDE DEF lines
<1>3. value = worths
  BY <1>1, <1>2 DEF LineFacts, Worths
<1>4. \A k \in DOMAIN worths : worths[k] \in Nat
  BY <1>2 DEF LineFacts, Worths
<1>5. IsFiniteSet(DOMAIN worths)
  BY DEF Worths, Carted
<1>6. SumFunction(worths) \in Nat
  BY <1>4, <1>5, SumFunctionIsSum
<1>7. o.charge = ComputeCharge(SumFunction(value), minimum, percent)
  BY DEF PricedOn, CartValue, lines
<1>8. o.charge \in Nat
  BY <1>3, <1>6, <1>7, ChargeType
<1>9. \A r \in rates : r \in Nat /\ r <= 10000
  BY <1>1, <1>2 DEF LineFacts
<1>10. o.chargeRate = Max({0} \cup rates)
  BY DEF PricedOn, HighestRate, lines
<1> HIDE DEF rates
<1> DEFINE S == {0} \cup rates
<1>11. S # {} /\ \A r \in S : r \in Nat /\ r <= 10000
  BY <1>9
<1>12. Max(S) \in S
  <2> HIDE DEF S
  <2> QED  BY <1>11, MaxExists
<1>13. o.chargeRate \in Nat
  BY <1>9, <1>10, <1>12
<1> QED  BY <1>3, <1>6, <1>7, <1>8, <1>13

\* What a charge adds to a total is the charge.
LEMMA DeliveryAddsUp ==
  ASSUME NEW charge \in Nat, NEW rate \in Nat
  PROVE  LET d == DeliveryTotals(charge, rate) IN
         d.gst \in Nat /\ d.taxable + d.gst = charge /\ d.total = charge
<1>1. InclusiveTax(charge, rate) \in Nat
  BY TaxWithin
<1> QED  BY <1>1 DEF DeliveryTotals

\* The total of a cart is what is due on it: the quote's and the order's.
LEMMA TotalIsDue ==
  ASSUME NEW rows, NEW merged, Carted(rows, merged), NEW interState \in BOOLEAN,
         NEW minimum \in Nat, NEW percent \in Nat,
         NEW o, PricedOn(o, rows, merged, interState, minimum, percent)
  PROVE  /\ GrandTotal(o) = Due(rows, merged, minimum, percent)
         /\ GrandTotal(o) = SumFunction(Worths(rows, merged)) + o.charge
<1> DEFINE lines == PricedLines(rows, merged, interState)
           worths == Worths(rows, merged)
           totals == [k \in DOMAIN lines |-> LineTotals(lines[k]).taxable + LineTotals(lines[k]).gst]
           d == DeliveryTotals(o.charge, o.chargeRate)
<1>1. /\ SumFunction(worths) \in Nat /\ o.charge \in Nat /\ o.chargeRate \in Nat
      /\ o.charge = ComputeCharge(SumFunction(worths), minimum, percent)
  BY ChargeOfCart
<1>2. DOMAIN lines = DOMAIN merged
  BY DEF PricedLines
<1>3. \A k \in DOMAIN merged : LineFacts(lines[k], LineWorth(rows[k], merged[k]))
  BY LinesHaveFacts
<1> HIDE DEF lines
<1>4. totals = worths
  BY <1>2, <1>3 DEF LineFacts, Worths
<1>5. d.gst \in Nat /\ d.taxable + d.gst = o.charge /\ d.taxable \in Int
  <2>1. d.gst \in Nat /\ d.taxable + d.gst = o.charge
    BY <1>1, DeliveryAddsUp
  <2>2. d.taxable \in Int
    <3>1. InclusiveTax(o.charge, o.chargeRate) \in Nat
      BY <1>1, TaxWithin
    <3> QED  BY <1>1, <3>1 DEF DeliveryTotals
  <2> QED  BY <2>1, <2>2
<1>6. GrandTotal(o) = SumFunction(totals) + d.taxable + d.gst
  BY DEF GrandTotal, PricedOn, lines
<1> HIDE DEF totals, d, worths
<1>7. GrandTotal(o) = SumFunction(worths) + o.charge
  BY <1>1, <1>4, <1>5, <1>6
<1> QED  BY <1>1, <1>7 DEF Due, worths

-----------------------------------------------------------------------------
(* Quotes and orders, while the rates of the catalogue are modest.         *)

\* What SKUCreate does not check of the SKUs that are created and edited: no
\* tax is above a hundred percent, nor a half of one above fifty.
ModestRates ==
  /\ \A k \in Sku : FirstSkus[k] \in ModestRow
  /\ \A q \in Request : q.op = "sku" =>
       /\ "sgst" \in DOMAIN q.set => q.set["sgst"] <= 50000
       /\ "cgst" \in DOMAIN q.set => q.set["cgst"] <= 50000
       /\ "igst" \in DOMAIN q.set => q.set["igst"] <= 100000

UnitsOf(o) == [k \in DOMAIN order[o].lines |-> order[o].lines[k].quantity]

QuoteMoney(m) ==
  LET q == quote[m] IN
  /\ Carted(q.rows, q.cart) /\ q.minimum \in Nat /\ q.percent \in Nat
  /\ q.total = Due(q.rows, q.cart, q.minimum, q.percent)

OrderMoney(o) ==
  /\ Carted(order[o].rows, UnitsOf(o)) /\ order[o].minimum \in Nat /\ order[o].percent \in Nat
  /\ \E interState \in BOOLEAN :
       PricedOn(order[o], order[o].rows, UnitsOf(o), interState, order[o].minimum, order[o].percent)

MoneyInv ==
  /\ \A m \in Mobile : quote[m] # NoQuote => QuoteMoney(m)
  /\ \A o \in Booked : OrderMoney(o)

\* Rows with such rates stay so.
LEMMA ModestRowsStay ==
  ASSUME ModestRates
  PROVE  RowsStay(ModestRow)
<1>1. ModestRow \subseteq SkuRow
  BY DEF ModestRow
<1>2. FirstSkus \in [Sku -> ModestRow]
  BY CheckoutAssumption DEF ModestRates
<1>3. ASSUME NEW q \in Request, q.op = "sku", NEW row \in ModestRow
      PROVE  Edited(row, q.set) \in ModestRow
  <2> DEFINE r == Edited(row, q.set)
  <2>1. Edits(q.set, SkuColumns) /\ row \in SkuRow
    BY <1>1, <1>3, RequestShapes
  <2>2. r \in SkuRow
    BY <2>1, EditedSku
  <2>3. DOMAIN row = {"mrp", "amount", "sgst", "cgst", "igst", "pack", "listed"}
    BY <2>1 DEF SkuRow
  <2>4. \A c \in DOMAIN row : r[c] = IF c \in DOMAIN q.set THEN q.set[c] ELSE row[c]
    BY DEF Edited
  <2>5. row.sgst <= 50000 /\ row.cgst <= 50000 /\ row.igst <= 100000
    BY DEF ModestRow
  <2> HIDE DEF r
  <2>6. r.sgst <= 50000 /\ r.cgst <= 50000 /\ r.igst <= 100000
    BY <1>3, <2>3, <2>4, <2>5 DEF ModestRates
  <2> QED  BY <2>2, <2>6 DEF ModestRow, r
<1> QED  BY <1>1, <1>2, <1>3 DEF RowsStay

\* What a session has priced is such a cart.
LEMMA BasketIsCarted ==
  ASSUME TypeInv(ModestRow), NEW s \in Session, SessionInv(s, ModestRow),
         request[s].op \in Shopping, session[s].stage \in {"priced", "checked"}
  PROVE  Carted(basket[s].rows, Merged(s))
<1>1. request[s] \in Request
  BY DEF TypeInv
<1>2. /\ IsFiniteSet(DOMAIN Merged(s)) /\ DOMAIN Merged(s) \subseteq Sku
      /\ \A k \in DOMAIN Merged(s) : Merged(s)[k] \in Nat
      /\ Merged(s) = [k \in DOMAIN Merged(s) |-> Merged(s)[k]]
  BY <1>1, RequestShapes, MergedType DEF Merged
<1>3. PricedBasket(s, ModestRow)
  BY DEF SessionInv
<1> QED  BY <1>2, <1>3 DEF Carted, PricedBasket

\* A quote is what is due on its cart.
LEMMA QuoteIsDue ==
  ASSUME TypeInv(ModestRow), NEW s \in Session, SessionInv(s, ModestRow), AnswerQuote(s),
         NEW m \in Mobile, quote'[m] # quote[m]
  PROVE  QuoteMoney(m)'
<1> DEFINE interState == session[s].me # NoUser /\ State(session[s].me) = "ready"
                         /\ session[s].me.shop \in OtherState
           rows == basket[s].rows
           merged == Merged(s)
           priced == Priced(rows, merged, interState, settings)
           new == [total |-> GrandTotal(priced), cart |-> merged, rows |-> rows,
                   minimum |-> settings.minimum, percent |-> settings.percent]
<1>1. quote' = [quote EXCEPT ![request[s].mobile] = new]
  BY DEF AnswerQuote
<1>2. request[s].op = "quote" /\ session[s].stage = "priced"
  BY DEF AnswerQuote, Serving
<1>3. Carted(rows, merged)
  BY <1>2, BasketIsCarted DEF Shopping
<1>4. settings.minimum \in Nat /\ settings.percent \in Nat
  BY DEF TypeInv, Settings
<1>5. interState \in BOOLEAN
  OBVIOUS
<1> HIDE DEF interState, rows, merged
<1>6. PricedOn(priced, rows, merged, interState, settings.minimum, settings.percent)
  BY PricedIsPricedOn
<1> HIDE DEF priced
<1>7. GrandTotal(priced) = Due(rows, merged, settings.minimum, settings.percent)
  BY <1>3, <1>4, <1>5, <1>6, TotalIsDue
<1>8. /\ new.total = Due(new.rows, new.cart, new.minimum, new.percent)
      /\ Carted(new.rows, new.cart) /\ new.minimum \in Nat /\ new.percent \in Nat
  BY <1>3, <1>4, <1>7
<1> HIDE DEF new
<1>9. quote'[m] = new
  BY <1>1 DEF TypeInv
<1> QED  BY <1>8, <1>9 DEF QuoteMoney

\* An order is priced on the cart of its session.
LEMMA OrderIsPriced ==
  ASSUME TypeInv(ModestRow), NEW s \in Session, SessionInv(s, ModestRow), Book(s),
         NEW o \in OrderId, order'[o] # order[o]
  PROVE  OrderMoney(o)'
<1> DEFINE interState == session[s].me.shop \in OtherState
           rows == basket[s].rows
           merged == Merged(s)
           priced == Priced(rows, merged, interState, settings)
           new == NewOrder(s, priced)
<1>1. order'[o] = new
  <2>1. \E p \in OrderId : order' = [order EXCEPT ![p] = new]
    BY DEF Book
  <2> HIDE DEF new
  <2> QED  BY <2>1 DEF TypeInv
<1>2. request[s].op = "place" /\ session[s].stage = "checked"
  BY DEF Book, Serving
<1>3. Carted(rows, merged)
  BY <1>2, BasketIsCarted DEF Shopping
<1>4. settings.minimum \in Nat /\ settings.percent \in Nat
  BY DEF TypeInv, Settings
<1>5. interState \in BOOLEAN
  OBVIOUS
<1> HIDE DEF interState, merged
<1>6. PricedOn(priced, rows, merged, interState, settings.minimum, settings.percent)
  BY PricedIsPricedOn
<1>7. DOMAIN priced.lines = DOMAIN merged /\ \A k \in DOMAIN merged : priced.lines[k].quantity = merged[k]
  BY LinesOfCart
<1> HIDE DEF priced
<1>8. /\ new.lines = priced.lines /\ new.charge = priced.charge
      /\ new.chargeRate = priced.chargeRate /\ new.rows = rows
      /\ new.minimum = settings.minimum /\ new.percent = settings.percent
  BY DEF NewOrder
<1> HIDE DEF new, rows
<1>9. UnitsOf(o)' = merged
  <2>1. UnitsOf(o)' = [k \in DOMAIN merged |-> merged[k]]
    BY <1>1, <1>7, <1>8 DEF UnitsOf
  <2> QED  BY <1>3, <2>1 DEF Carted
<1>10. PricedOn(new, rows, merged, interState, new.minimum, new.percent)
  BY <1>6, <1>8 DEF PricedOn
<1>11. Carted(new.rows, merged) /\ new.minimum \in Nat /\ new.percent \in Nat
  BY <1>3, <1>4, <1>8
<1>12. PricedOn(new, new.rows, merged, interState, new.minimum, new.percent)
  BY <1>8, <1>10
<1> QED  BY <1>1, <1>5, <1>9, <1>11, <1>12 DEF OrderMoney

\* The deletion of an address does not touch what an order comes to.
LEMMA DetachKeepsMoney ==
  ASSUME NEW s \in Session, DetachOrders(s), NEW o \in OrderId, order[o] # NoOrder,
         OrderInv(o), OrderMoney(o)
  PROVE  OrderMoney(o)'
<1>1. order'[o] = order[o] \/ order'[o] = [order[o] EXCEPT !.address = NoId]
  BY DEF DetachOrders
<1>2. /\ order'[o].lines = order[o].lines /\ order'[o].charge = order[o].charge
      /\ order'[o].chargeRate = order[o].chargeRate /\ order'[o].rows = order[o].rows
      /\ order'[o].minimum = order[o].minimum /\ order'[o].percent = order[o].percent
  BY <1>1 DEF OrderInv, OrderFields
<1>3. UnitsOf(o)' = UnitsOf(o)
  BY <1>2 DEF UnitsOf
<1> QED  BY <1>2, <1>3 DEF OrderMoney, PricedOn

\* Only an answer writes quotes.
LEMMA QuotesAlone ==
  ASSUME NEW s \in Session,
         StoreStep(s) \/ ((Enter(s) \/ CountAddresses(s) \/ Fail(s)) /\ UNCHANGED store),
         ~AnswerQuote(s)
  PROVE  quote' = quote
<1>1. CASE EnterStore(s) \/ OpenWarehouse(s) \/ FindAddress(s) \/ PriceCart(s)
           \/ CheckStock(s) \/ Book(s) \/ GiveUp(s) \/ EditSku(s) \/ EditSettings(s)
           \/ ReserveStock(s) \/ DetachOrders(s)
  BY <1>1 DEF EnterStore, OpenWarehouse, FindAddress, PriceCart, CheckStock, Book, GiveUp,
       EditSku, EditSettings, ReserveStock, DetachOrders, Step, Stop, Office, store
<1>2. CASE UNCHANGED store
  BY <1>2 DEF store
<1> QED  BY <1>1, <1>2 DEF StoreStep

\* Every step keeps what quotes and orders come to.
LEMMA MoneyNext ==
  ASSUME IInv(ModestRow), MoneyInv, [Next]_vars
  PROVE  MoneyInv'
<1>0. /\ TypeInv(ModestRow) /\ \A s \in Session : SessionInv(s, ModestRow)
      /\ \A o \in OrderId : order[o] # NoOrder => OrderInv(o) /\ OrderMoney(o)
      /\ \A m \in Mobile : quote[m] # NoQuote => QuoteMoney(m)
  BY DEF IInv, MoneyInv, Booked
<1>1. ASSUME NEW o \in OrderId, order'[o] = order[o] PROVE OrderMoney(o)' <=> OrderMoney(o)
  BY <1>1 DEF OrderMoney, UnitsOf
<1>2. ASSUME NEW m \in Mobile, quote'[m] = quote[m] PROVE QuoteMoney(m)' <=> QuoteMoney(m)
  BY <1>2 DEF QuoteMoney
<1>3. CASE UNCHANGED vars
  <2>1. order' = order /\ quote' = quote
    BY <1>3 DEF vars, store
  <2> QED  BY <1>0, <1>1, <1>2, <2>1 DEF MoneyInv, Booked
<1>4. CASE Next
  <2>1. PICK s \in Session :
          StoreStep(s) \/ ((Enter(s) \/ CountAddresses(s) \/ Fail(s)) /\ UNCHANGED store)
    BY <1>4 DEF Next
  <2>2. ASSUME NEW o \in OrderId, order'[o] # NoOrder PROVE OrderMoney(o)'
    <3>1. CASE Book(s) /\ order'[o] # order[o]
      BY <1>0, <3>1, OrderIsPriced
    <3>2. CASE DetachOrders(s)
      <4>1. order[o] # NoOrder
        BY <2>2, <3>2 DEF DetachOrders
      <4> QED  BY <1>0, <3>2, <4>1, DetachKeepsMoney
    <3>3. CASE order'[o] = order[o]
      BY <1>0, <1>1, <2>2, <3>3
    <3> QED  BY <2>1, <3>1, <3>2, <3>3, OrdersAlone
  <2>3. ASSUME NEW m \in Mobile, quote'[m] # NoQuote PROVE QuoteMoney(m)'
    <3>1. CASE AnswerQuote(s) /\ quote'[m] # quote[m]
      BY <1>0, <3>1, QuoteIsDue
    <3>2. CASE quote'[m] = quote[m]
      BY <1>0, <1>2, <2>3, <3>2
    <3> QED  BY <2>1, <3>1, <3>2, QuotesAlone
  <2> QED  BY <2>2, <2>3 DEF MoneyInv, Booked
<1> QED  BY <1>3, <1>4

\* With both invariants a quote and an order of one cart come to the same.
LEMMA MoneyAgrees ==
  ASSUME MoneyInv
  PROVE  QuoteIsOrdered
<1>1. ASSUME NEW o \in Booked, NEW m \in Mobile, quote[m] # NoQuote,
             quote[m].cart = UnitsOf(o), quote[m].rows = order[o].rows,
             quote[m].minimum = order[o].minimum, quote[m].percent = order[o].percent
      PROVE  quote[m].total = GrandTotal(order[o])
  <2>1. QuoteMoney(m) /\ OrderMoney(o)
    BY <1>1 DEF MoneyInv
  <2>2. PICK interState \in BOOLEAN :
          PricedOn(order[o], order[o].rows, UnitsOf(o), interState, order[o].minimum, order[o].percent)
    BY <2>1 DEF OrderMoney
  <2>3. GrandTotal(order[o]) = Due(order[o].rows, UnitsOf(o), order[o].minimum, order[o].percent)
    <3>1. /\ Carted(order[o].rows, UnitsOf(o))
          /\ order[o].minimum \in Nat /\ order[o].percent \in Nat
      BY <2>1 DEF OrderMoney
    <3> QED  BY <2>2, <3>1, TotalIsDue
  <2> QED  BY <1>1, <2>1, <2>3 DEF QuoteMoney
<1> QED  BY <1>1 DEF QuoteIsOrdered, UnitsOf

\* Every state there is at first has them too.
LEMMA InitMoney ==
  ASSUME Init
  PROVE  MoneyInv
  BY DEF Init, MoneyInv, Booked

\* A quote's total is the order's grand_total, in whatever state the shop turns
\* out to be: the cart is priced afresh by the order, of the same rows, and no
\* tax is above the price that includes it.
THEOREM QuotesAreOrdered == ModestRates /\ Spec => []QuoteIsOrdered
<1> SUFFICES ASSUME ModestRates PROVE Spec => []QuoteIsOrdered
  OBVIOUS
<1>1. IInv(ModestRow) /\ MoneyInv => QuoteIsOrdered
  BY MoneyAgrees
<1>2. Init => IInv(ModestRow) /\ MoneyInv
  BY InitIInv, InitMoney, ModestRowsStay
<1>3. IInv(ModestRow) /\ MoneyInv /\ [Next]_vars => (IInv(ModestRow) /\ MoneyInv)'
  BY NextIInv, MoneyNext, ModestRowsStay
<1> QED  BY <1>1, <1>2, <1>3, PTL DEF Spec

-----------------------------------------------------------------------------
(* Invoices.                                                               *)

\* The parts of a tax are quantities, and make up the tax: unless there is none.
LEMMA ComponentsAddUp ==
  ASSUME NEW taxes, TaxShape(taxes), NEW gst \in Nat, SumFunction(taxes) = 0 => gst = 0
  PROVE  LET parts == Components(taxes, gst) IN
         /\ \A t \in DOMAIN parts : parts[t] \in Nat
         /\ RateOf(parts, "CGST") + RateOf(parts, "SGST") + RateOf(parts, "IGST") = gst
<1> DEFINE rate == SumFunction(taxes)
           first == IF "CGST" \in DOMAIN taxes THEN RoundMoney(gst * taxes["CGST"], rate) ELSE 0
           parts == Components(taxes, gst)
<1>1. parts = [t \in DOMAIN taxes |->
                 IF rate = 0 THEN 0
                 ELSE IF t = "CGST" /\ "SGST" \in DOMAIN taxes THEN first
                 ELSE IF t = "SGST" THEN gst - first
                 ELSE gst]
  BY DEF Components
<1>2. /\ rate = RateOf(taxes, "CGST") + RateOf(taxes, "SGST") + RateOf(taxes, "IGST")
      /\ \A t : RateOf(taxes, t) \in Nat
  BY RateSum
<1>3. rate \in Nat /\ RateOf(taxes, "CGST") <= rate
  BY <1>2
<1> HIDE DEF rate
<1>4. rate # 0 => first \in Nat /\ first <= gst
  <2>1. CASE "CGST" \in DOMAIN taxes /\ rate # 0
    <3>1. taxes["CGST"] \in Nat /\ taxes["CGST"] <= rate
      BY <1>2, <1>3, <2>1 DEF RateOf
    <3>2. gst * taxes["CGST"] \in Nat /\ gst * taxes["CGST"] <= gst * rate
      BY <1>3, <3>1, Products
    <3>3. RoundMoney(gst * taxes["CGST"], rate) \in Nat /\ RoundMoney(gst * taxes["CGST"], rate) <= gst
      BY <1>3, <2>1, <3>2, Rounding
    <3> QED  BY <2>1, <3>3
  <2>2. CASE "CGST" \notin DOMAIN taxes
    BY <2>2
  <2> QED  BY <2>1, <2>2
<1> HIDE DEF first, parts
<1>5. DOMAIN parts = DOMAIN taxes /\ \A t \in DOMAIN parts : parts[t] \in Nat
  BY <1>1, <1>4
<1>6. RateOf(parts, "CGST") + RateOf(parts, "SGST") + RateOf(parts, "IGST") = gst
  <2>1. CASE rate = 0
    <3>1. \A t : RateOf(parts, t) = 0
      BY <1>1, <2>1 DEF RateOf
    <3>2. gst = 0
      BY <2>1 DEF rate
    <3> QED  BY <3>1, <3>2
  <2>2. CASE rate # 0 /\ DOMAIN taxes = {}
    <3>1. \A t : RateOf(taxes, t) = 0
      BY <2>2 DEF RateOf
    <3> QED  BY <1>2, <2>2, <3>1
  <2>3. CASE rate # 0 /\ DOMAIN taxes = {"IGST"}
    BY <1>1, <2>3 DEF RateOf
  <2>4. CASE rate # 0 /\ DOMAIN taxes = {"CGST"}
    BY <1>1, <2>4 DEF RateOf
  <2>5. CASE rate # 0 /\ DOMAIN taxes = {"SGST"}
    <3>1. first = 0
      BY <2>5 DEF first
    <3> QED  BY <1>1, <2>5, <3>1 DEF RateOf
  <2>6. CASE rate # 0 /\ DOMAIN taxes = {"CGST", "SGST"}
    BY <1>1, <1>4, <2>6 DEF RateOf
  <2> QED  BY <2>1, <2>2, <2>3, <2>4, <2>5, <2>6 DEF TaxShape, TaxDomains
<1> QED  BY <1>5, <1>6 DEF parts

\* The taxes of the charge have its rate.
LEMMA DeliveryTaxesShape ==
  ASSUME NEW rate \in Nat, NEW interState \in BOOLEAN
  PROVE  /\ TaxShape(DeliveryTaxes(rate, interState))
         /\ SumFunction(DeliveryTaxes(rate, interState)) = rate
<1> DEFINE taxes == DeliveryTaxes(rate, interState)
           half == RoundMoney(rate, 2)
<1>1. half \in Nat /\ half <= rate
  BY DEF RoundMoney
<1>2. CASE interState
  <2>1. taxes = [IGST |-> rate]
    BY <1>2 DEF DeliveryTaxes
  <2>2. DOMAIN taxes = {"IGST"} /\ taxes["IGST"] = rate
    BY <2>1
  <2> HIDE DEF taxes
  <2>3. TaxShape(taxes)
    BY <2>2 DEF TaxShape, TaxDomains
  <2>4. SumFunction(taxes) = taxes["IGST"]
    BY <2>2, SmallSums
  <2> QED  BY <2>2, <2>3, <2>4 DEF taxes
<1>3. CASE ~interState
  <2>1. taxes = [CGST |-> half, SGST |-> rate - half]
    BY <1>3 DEF DeliveryTaxes
  <2> HIDE DEF half
  <2>2. DOMAIN taxes = {"CGST", "SGST"} /\ taxes["CGST"] = half /\ taxes["SGST"] = rate - half
    BY <2>1
  <2> HIDE DEF taxes
  <2>3. TaxShape(taxes)
    BY <1>1, <2>2 DEF TaxShape, TaxDomains
  <2>4. SumFunction(taxes) = taxes["CGST"] + taxes["SGST"]
    BY <1>1, <2>2, SmallSums
  <2> QED  BY <1>1, <2>2, <2>3, <2>4 DEF taxes
<1> QED  BY <1>2, <1>3

\* A line of an invoice that adds up.
LineAddsUp(l) ==
  /\ l.taxable + l.gst = l.total /\ l.gst \in Nat /\ l.total \in Nat
  /\ \A t \in DOMAIN l.parts : l.parts[t] \in Nat
  /\ RateOf(l.parts, "CGST") + RateOf(l.parts, "SGST") + RateOf(l.parts, "IGST") = l.gst

\* A value has no tax when the rate is none.
LEMMA NoTax ==
  ASSUME NEW value \in Nat
  PROVE  InclusiveTax(value, 0) = 0
  BY DEF InclusiveTax, RoundMoney

\* The line of a SKU adds up.
LEMMA SkuLineAddsUp ==
  ASSUME NEW line, NEW worth, LineFacts(line, worth), NEW k
  PROVE  /\ LineAddsUp(InvoiceLine(k, LineTotals(line), line.taxes))
         /\ InvoiceLine(k, LineTotals(line), line.taxes).of = k
         /\ InvoiceLine(k, LineTotals(line), line.taxes).total = worth
<1> DEFINE totals == LineTotals(line)
           l == InvoiceLine(k, totals, line.taxes)
<1>1. /\ worth \in Nat /\ totals.total = worth /\ totals.gst \in Nat
      /\ totals.taxable + totals.gst = worth /\ TaxShape(line.taxes)
      /\ totals.gst = InclusiveTax(worth, SumFunction(line.taxes))
  BY DEF LineFacts
<1> HIDE DEF totals
<1>2. /\ l.of = k /\ l.taxable = totals.taxable /\ l.gst = totals.gst
      /\ l.total = totals.total /\ l.parts = Components(line.taxes, totals.gst)
  BY DEF InvoiceLine
<1>3. SumFunction(line.taxes) = 0 => totals.gst = 0
  BY <1>1, NoTax
<1>4. /\ \A t \in DOMAIN l.parts : l.parts[t] \in Nat
      /\ RateOf(l.parts, "CGST") + RateOf(l.parts, "SGST") + RateOf(l.parts, "IGST") = totals.gst
  BY <1>1, <1>2, <1>3, ComponentsAddUp
<1> HIDE DEF l
<1> QED  BY <1>1, <1>2, <1>4 DEF LineAddsUp, l, totals

\* And that of the charge.
LEMMA DeliveryLineAddsUp ==
  ASSUME NEW charge \in Nat, NEW rate \in Nat, NEW interState \in BOOLEAN
  PROVE  LET l == InvoiceLine("delivery", DeliveryTotals(charge, rate), DeliveryTaxes(rate, interState))
         IN  LineAddsUp(l) /\ l.of = "delivery" /\ l.total = charge
<1> DEFINE totals == DeliveryTotals(charge, rate)
           taxes == DeliveryTaxes(rate, interState)
           l == InvoiceLine("delivery", totals, taxes)
<1>1. totals.gst \in Nat /\ totals.taxable + totals.gst = charge /\ totals.total = charge
  BY DeliveryAddsUp
<1>2. TaxShape(taxes) /\ SumFunction(taxes) = rate
  BY DeliveryTaxesShape
<1>3. rate = 0 => totals.gst = 0
  <2>1. totals.gst = 0 \/ totals.gst = InclusiveTax(charge, rate)
    BY DEF DeliveryTotals
  <2> QED  BY <2>1, NoTax
<1> HIDE DEF totals, taxes
<1>4. /\ l.of = "delivery" /\ l.taxable = totals.taxable /\ l.gst = totals.gst
      /\ l.total = totals.total /\ l.parts = Components(taxes, totals.gst)
  BY DEF InvoiceLine
<1>5. /\ \A t \in DOMAIN l.parts : l.parts[t] \in Nat
      /\ RateOf(l.parts, "CGST") + RateOf(l.parts, "SGST") + RateOf(l.parts, "IGST") = totals.gst
  BY <1>1, <1>2, <1>3, <1>4, ComponentsAddUp
<1> HIDE DEF l
<1> QED  BY <1>1, <1>4, <1>5 DEF LineAddsUp, l, totals, taxes

\* A folded sum over a set.
LEMMA SumOver ==
  ASSUME NEW S, IsFiniteSet(S), NEW f, DOMAIN f = S, \A x \in S : f[x] \in Nat
  PROVE  SumFunction(f) = Sum(f, S) /\ SumFunction(f) \in Nat
  BY SumFunctionIsSum

\* The parts of one tax are those of all the lines, some of which have none.
LEMMA PartTotalIsSum ==
  ASSUME NEW I, IsFiniteSet(I), \A l \in I : LineAddsUp(l), NEW t
  PROVE  PartTotal(I, t) = Sum([l \in I |-> RateOf(l.parts, t)], I)
<1> DEFINE A == {m \in I : t \in DOMAIN m.parts}
           f == [l \in A |-> l.parts[t]]
           g == [l \in I |-> RateOf(l.parts, t)]
<1>1. IsFiniteSet(A) /\ IsFiniteSet(I \ A) /\ A \cap (I \ A) = {} /\ A \cup (I \ A) = I
  BY FS_Subset
<1>2. \A l \in A : f[l] \in Nat /\ g[l] = f[l]
  BY DEF LineAddsUp, RateOf
<1>3. \A l \in I \ A : g[l] = 0
  BY DEF RateOf
<1>4. PartTotal(I, t) = SumFunction(f) /\ DOMAIN f = A
  BY DEF PartTotal
<1> HIDE DEF A, f, g
<1>5. SumFunction(f) = Sum(f, A)
  BY <1>1, <1>2, <1>4, SumOver
<1>6. Sum(g, A) = Sum(f, A)
  BY <1>2, SumCong
<1>7. Sum(g, I \ A) = 0
  BY <1>3, SumZero
<1>8. Sum(g, A \cup (I \ A)) = Sum(g, A) + Sum(g, I \ A)
  <2>1. \A l \in A \cup (I \ A) : g[l] \in Nat
    BY <1>2, <1>3
  <2> QED  BY <1>1, <2>1, SumUnion
<1>9. Sum(f, A) \in Nat
  BY <1>1, <1>2, SumType
<1>10. Sum(g, I) = Sum(f, A)
  BY <1>1, <1>6, <1>7, <1>8, <1>9
<1> QED  BY <1>4, <1>5, <1>10 DEF g

\* The parts of the taxes add up to the tax of an invoice.
LEMMA PartsAddUp ==
  ASSUME NEW I, IsFiniteSet(I), \A l \in I : LineAddsUp(l)
  PROVE  PartTotal(I, "CGST") + PartTotal(I, "SGST") + PartTotal(I, "IGST") = ColumnTotal(I, "gst")
<1> DEFINE part(t) == [l \in I |-> RateOf(l.parts, t)]
           two == [l \in I |-> RateOf(l.parts, "CGST") + RateOf(l.parts, "SGST")]
           gst == [l \in I |-> l["gst"]]
           c == part("CGST")
           g == part("SGST")
           i == part("IGST")
<1>1. PartTotal(I, "CGST") = Sum(c, I) /\ PartTotal(I, "SGST") = Sum(g, I) /\ PartTotal(I, "IGST") = Sum(i, I)
  BY PartTotalIsSum
<1>2. \A l \in I : /\ c[l] \in Nat /\ g[l] \in Nat /\ i[l] \in Nat /\ two[l] = c[l] + g[l]
                  /\ two[l] \in Nat /\ gst[l] = two[l] + i[l] /\ gst[l] \in Nat
  BY DEF LineAddsUp, RateOf
<1>3. ColumnTotal(I, "gst") = SumFunction(gst) /\ DOMAIN gst = I
  BY DEF ColumnTotal
<1> HIDE DEF c, g, i, two, gst
<1>4. Sum(two, I) = Sum(c, I) + Sum(g, I)
  BY <1>2, SumAdd
<1>5. Sum(gst, I) = Sum(two, I) + Sum(i, I)
  BY <1>2, SumAdd
<1>6. SumFunction(gst) = Sum(gst, I)
  BY <1>2, <1>3, SumOver
<1> QED  BY <1>1, <1>3, <1>4, <1>5, <1>6

\* A charge has a line, and no charge has none.
LineOfCharge(B, charge) ==
  \/ B = {} /\ charge = 0
  \/ \E l : B = {l} /\ LineAddsUp(l) /\ l.of = "delivery" /\ l.total = charge

\* A column of an invoice is that of the SKUs, and the charge's.
LEMMA ColumnOfLines ==
  ASSUME NEW D, IsFiniteSet(D), "delivery" \notin D, NEW line,
         \A k \in D : LineAddsUp(line[k]) /\ line[k].of = k,
         NEW B, NEW charge \in Nat, LineOfCharge(B, charge),
         NEW worths, \A k \in D : worths[k] = line[k].total
  PROVE  LET I == {line[k] : k \in D} \cup B IN
         /\ IsFiniteSet(I) /\ \A l \in I : LineAddsUp(l)
         /\ ColumnTotal(I, "total") = Sum(worths, D) + charge
<1> DEFINE A == {line[k] : k \in D}
           I == A \cup B
           m == [k \in D |-> line[k]]
           total == [l \in I |-> l["total"]]
<1>1. m \in Bijection(D, A)
  <2>1. m \in [D -> A] /\ \A k \in D : m[k].of = k
    OBVIOUS
  <2>2. \A l \in A : \E k \in D : m[k] = l
    OBVIOUS
  <2> HIDE DEF m, A
  <2>3. \A j, k \in D : m[j] = m[k] => j = k
    BY <2>1
  <2> QED  BY <2>1, <2>2, <2>3 DEF Bijection, Injection, IsInjective, Surjection
<1>2. IsFiniteSet(A)
  <2>1. m \in Surjection(D, A)
    BY <1>1 DEF Bijection
  <2> QED  BY <2>1, FS_Surjection
<1>3. IsFiniteSet(B) /\ \A l \in B : LineAddsUp(l) /\ l.of = "delivery"
  BY FS_EmptySet, FS_Singleton DEF LineOfCharge
<1>4. A \cap B = {}
  BY <1>3
<1>5. \A l \in I : LineAddsUp(l) /\ total[l] = l.total /\ total[l] \in Nat
  BY <1>3 DEF LineAddsUp
<1>6. \A k \in D : worths[k] \in Nat /\ total[m[k]] = worths[k]
  BY <1>5
<1>7. ColumnTotal(I, "total") = SumFunction(total) /\ DOMAIN total = I
  BY DEF ColumnTotal
<1>8. IsFiniteSet(I)
  BY <1>2, <1>3, FS_Union
<1> HIDE DEF m, total
<1>9. SumFunction(total) = Sum(total, I)
  <2>1. \A l \in I : total[l] \in Nat
    BY <1>5
  <2> HIDE DEF I
  <2> QED  BY <1>7, <1>8, <2>1, SumOver
<1>10. \A l \in A \cup B : total[l] \in Nat
  BY <1>5
<1> HIDE DEF A
<1>11. Sum(total, I) = Sum(total, A) + Sum(total, B)
  BY <1>2, <1>3, <1>4, <1>10, SumUnion
<1>12. Sum(total, A) = Sum(worths, D)
  BY <1>1, <1>6, SumRename
<1>13. Sum(total, B) = charge
  <2>1. CASE B = {} /\ charge = 0
    BY <2>1, SumZero
  <2>2. ASSUME NEW l, B = {l}, l.total = charge PROVE Sum(total, B) = charge
    <3>1. total[l] = charge
      BY <1>5, <2>2
    <3> QED  BY <2>2, <3>1, SumOne
  <2> QED  BY <2>1, <2>2 DEF LineOfCharge
<1> QED  BY <1>5, <1>7, <1>8, <1>9, <1>11, <1>12, <1>13 DEF A

\* The invoice of an order that is priced on a cart adds up to the order.
LEMMA InvoiceOfOrder ==
  ASSUME NEW rows, NEW merged, Carted(rows, merged), NEW interState \in BOOLEAN,
         NEW minimum \in Nat, NEW percent \in Nat,
         NEW o, PricedOn(o, rows, merged, interState, minimum, percent),
         NEW moved \in BOOLEAN
  PROVE  LET I == InvoiceLines(o, moved) IN
         /\ IsFiniteSet(I) /\ \A l \in I : LineAddsUp(l)
         /\ ColumnTotal(I, "total") = GrandTotal(o)
         /\ \A k \in DOMAIN o.lines : \E l \in I : l.of = k /\ l.total = LineWorth(rows[k], merged[k])
<1> DEFINE D == DOMAIN merged
           lines == PricedLines(rows, merged, interState)
           worths == Worths(rows, merged)
           line == [k \in D |-> InvoiceLine(k, LineTotals(lines[k]), lines[k].taxes)]
           dl == InvoiceLine("delivery", DeliveryTotals(o.charge, o.chargeRate),
                             DeliveryTaxes(o.chargeRate, moved))
           B == IF o.charge = 0 THEN {} ELSE {dl}
           A == {line[k] : k \in D}
           I == InvoiceLines(o, moved)
<1>1. IsFiniteSet(D) /\ "delivery" \notin D
  BY PricingAssumption DEF Carted
<1>2. o.lines = lines /\ DOMAIN lines = D
  BY DEF PricedOn, PricedLines
<1>3. \A k \in D : LineFacts(lines[k], LineWorth(rows[k], merged[k]))
  BY LinesHaveFacts
<1>4. /\ o.charge \in Nat /\ o.chargeRate \in Nat /\ SumFunction(worths) \in Nat
  BY ChargeOfCart
<1>5. GrandTotal(o) = SumFunction(worths) + o.charge
  BY TotalIsDue
<1>6. LineAddsUp(dl) /\ dl.of = "delivery" /\ dl.total = o.charge
  BY <1>4, DeliveryLineAddsUp
<1>7. I = A \cup B
  <2>1. A = {InvoiceLine(k, LineTotals(lines[k]), lines[k].taxes) : k \in D}
    OBVIOUS
  <2> QED  BY <1>2, <2>1 DEF InvoiceLines
<1>8. \A k \in D : worths[k] = LineWorth(rows[k], merged[k]) /\ DOMAIN worths = D
  BY DEF Worths
<1>9. LineOfCharge(B, o.charge)
  BY <1>6 DEF LineOfCharge
<1> HIDE DEF lines, dl, B, worths, I, D
<1>10. ASSUME NEW k \in D
       PROVE  LineAddsUp(line[k]) /\ line[k].of = k /\ line[k].total = worths[k]
  <2>1. LineFacts(lines[k], worths[k])
    BY <1>3, <1>8
  <2> QED  BY <2>1, SkuLineAddsUp
<1>11. \A k \in D : worths[k] \in Nat
  BY <1>3, <1>8 DEF LineFacts
<1> HIDE DEF line
<1>12. /\ IsFiniteSet(A \cup B) /\ \A l \in A \cup B : LineAddsUp(l)
       /\ ColumnTotal(A \cup B, "total") = Sum(worths, D) + o.charge
  <2>1. \A k \in D : LineAddsUp(line[k]) /\ line[k].of = k
    BY <1>10
  <2>2. \A k \in D : worths[k] = line[k].total
    BY <1>10
  <2>3. PICK c \in Nat : c = o.charge
    BY <1>4
  <2>4. LineOfCharge(B, c)
    BY <1>9, <2>3
  <2>5. /\ IsFiniteSet(A \cup B) /\ \A l \in A \cup B : LineAddsUp(l)
        /\ ColumnTotal(A \cup B, "total") = Sum(worths, D) + c
    BY <1>1, <2>1, <2>2, <2>4, ColumnOfLines
  <2> QED  BY <2>3, <2>5
<1>13. SumFunction(worths) = Sum(worths, D)
  <2>1. DOMAIN worths = D
    BY DEF worths, Worths, D
  <2> QED  BY <1>1, <1>11, <2>1, SumOver
<1>14. \A k \in D : \E l \in I : l.of = k /\ l.total = LineWorth(rows[k], merged[k])
  BY <1>7, <1>8, <1>10
<1> QED  BY <1>2, <1>5, <1>7, <1>12, <1>13, <1>14 DEF I

\* And the shop is shown, and the office exports, what it bills.
LEMMA ShownAsBilled ==
  ASSUME NEW rows, NEW merged, Carted(rows, merged), NEW interState \in BOOLEAN,
         NEW minimum \in Nat, NEW percent \in Nat, NEW o,
         PricedOn(order[o], rows, merged, interState, minimum, percent)
  PROVE  /\ \A k \in DOMAIN order[o].lines :
              /\ Detail(o).lines[k] = LineWorth(rows[k], merged[k])
              /\ ExportRows(o)[k].amount = LineWorth(rows[k], merged[k])
         /\ SumFunction([k \in DOMAIN ExportRows(o) |-> ExportRows(o)[k].amount]) = Detail(o).subtotal
<1> DEFINE D == DOMAIN merged
           lines == PricedLines(rows, merged, interState)
           worths == Worths(rows, merged)
           amounts == [k \in DOMAIN ExportRows(o) |-> ExportRows(o)[k].amount]
<1>1. order[o].lines = lines /\ DOMAIN lines = D
  BY DEF PricedOn, PricedLines
<1>2. \A k \in D : LineFacts(lines[k], LineWorth(rows[k], merged[k]))
  BY LinesHaveFacts
<1>3. GrandTotal(order[o]) = SumFunction(worths) + order[o].charge
  <2>1. PICK e : e = order[o]
    OBVIOUS
  <2>2. PricedOn(e, rows, merged, interState, minimum, percent)
    BY <2>1
  <2>3. GrandTotal(e) = SumFunction(worths) + e.charge
    BY <2>2, TotalIsDue
  <2> QED  BY <2>1, <2>3
<1>4. order[o].charge \in Nat /\ SumFunction(worths) \in Nat
  BY ChargeOfCart
<1> HIDE DEF lines
<1>5. ASSUME NEW k \in D PROVE Detail(o).lines[k] = LineWorth(rows[k], merged[k])
  BY <1>1, <1>2 DEF Detail, LineFacts
<1>6. ASSUME NEW k \in D PROVE ExportRows(o)[k].amount = LineWorth(rows[k], merged[k])
  <2> DEFINE base == lines[k].quantity * lines[k].price
             discount == lines[k].discount
  <2>1. ExportRows(o)[k].amount = IF base > discount THEN base - discount ELSE 0
    BY <1>1 DEF ExportRows
  <2>2. Greatest(base - discount, 0) = LineWorth(rows[k], merged[k])
    BY <1>2 DEF LineFacts
  <2>3. base \in Int /\ discount \in Int
    <3>1. rows[k] \in ModestRow /\ merged[k] \in Nat /\ StoreVisible(rows[k])
      BY DEF Carted
    <3>2. /\ lines[k].quantity = merged[k] /\ lines[k].price = Paise(rows[k].mrp)
          /\ lines[k].discount = RoundMoney((rows[k].mrp - rows[k].amount) * merged[k], 10)
      BY DEF lines, PricedLines, PriceLine
    <3>3. rows[k].mrp \in Nat /\ rows[k].mrp - rows[k].amount \in Nat
      BY <3>1 DEF ModestRow, SkuRow, StoreVisible
    <3>4. (rows[k].mrp - rows[k].amount) * merged[k] \in Nat
      BY <3>1, <3>3, Products
    <3>5. Paise(rows[k].mrp) \in Nat /\ lines[k].discount \in Nat
      BY <3>2, <3>3, <3>4, Rounding DEF Paise
    <3>6. merged[k] * Paise(rows[k].mrp) \in Nat
      BY <3>1, <3>5, Products
    <3> QED  BY <3>2, <3>5, <3>6
  <2> HIDE DEF base, discount
  <2> QED  BY <2>1, <2>2, <2>3 DEF Greatest
<1>7. DOMAIN ExportRows(o) = D
  BY <1>1 DEF ExportRows
<1>8. amounts = worths
  BY <1>6, <1>7 DEF Worths
<1>9. Detail(o).subtotal = GrandTotal(order[o]) - order[o].charge
  BY DEF Detail
<1> HIDE DEF amounts, worths
<1>10. SumFunction(amounts) = Detail(o).subtotal
  BY <1>3, <1>4, <1>8, <1>9
<1> QED  BY <1>1, <1>5, <1>6, <1>10 DEF amounts

\* What the orders are priced on makes their invoices add up.
LEMMA InvoicesAddUp ==
  ASSUME MoneyInv
  PROVE  InvoiceAddsUp
<1> SUFFICES ASSUME NEW o \in Booked, NEW moved \in BOOLEAN
             PROVE  LET lines == InvoiceLines(order[o], moved) IN
                    /\ ColumnTotal(lines, "total") = GrandTotal(order[o])
                    /\ \A l \in lines : l.taxable + l.gst = l.total /\ l.gst >= 0
                    /\ PartTotal(lines, "CGST") + PartTotal(lines, "SGST") + PartTotal(lines, "IGST")
                         = ColumnTotal(lines, "gst")
                    /\ \A l \in lines : \A t \in DOMAIN l.parts : l.parts[t] >= 0
                    /\ \A k \in DOMAIN order[o].lines :
                         \E l \in lines : l.of = k /\ l.total = Detail(o).lines[k]
                                          /\ l.total = ExportRows(o)[k].amount
                    /\ SumFunction([k \in DOMAIN ExportRows(o) |-> ExportRows(o)[k].amount])
                         = Detail(o).subtotal
  BY DEF InvoiceAddsUp
<1> DEFINE I == InvoiceLines(order[o], moved)
<1>1. OrderMoney(o)
  BY DEF MoneyInv
<1>2. PICK interState \in BOOLEAN :
        PricedOn(order[o], order[o].rows, UnitsOf(o), interState, order[o].minimum, order[o].percent)
  BY <1>1 DEF OrderMoney
<1>3. /\ Carted(order[o].rows, UnitsOf(o))
      /\ order[o].minimum \in Nat /\ order[o].percent \in Nat
  BY <1>1 DEF OrderMoney
<1>4. /\ IsFiniteSet(I) /\ \A l \in I : LineAddsUp(l)
      /\ ColumnTotal(I, "total") = GrandTotal(order[o])
      /\ \A k \in DOMAIN order[o].lines :
           \E l \in I : l.of = k /\ l.total = LineWorth(order[o].rows[k], UnitsOf(o)[k])
  BY <1>2, <1>3, InvoiceOfOrder
<1>5. /\ \A k \in DOMAIN order[o].lines :
           /\ Detail(o).lines[k] = LineWorth(order[o].rows[k], UnitsOf(o)[k])
           /\ ExportRows(o)[k].amount = LineWorth(order[o].rows[k], UnitsOf(o)[k])
      /\ SumFunction([k \in DOMAIN ExportRows(o) |-> ExportRows(o)[k].amount]) = Detail(o).subtotal
  BY <1>2, <1>3, ShownAsBilled
<1> HIDE DEF I
<1>6. PartTotal(I, "CGST") + PartTotal(I, "SGST") + PartTotal(I, "IGST") = ColumnTotal(I, "gst")
  BY <1>4, PartsAddUp
<1>7. ASSUME NEW l \in I
      PROVE  /\ l.taxable + l.gst = l.total /\ l.gst >= 0
             /\ \A t \in DOMAIN l.parts : l.parts[t] >= 0
  BY <1>4 DEF LineAddsUp
<1>8. ASSUME NEW k \in DOMAIN order[o].lines
      PROVE  \E l \in I : l.of = k /\ l.total = Detail(o).lines[k]
                                   /\ l.total = ExportRows(o)[k].amount
  BY <1>4, <1>5
<1> QED  BY <1>4, <1>5, <1>6, <1>7, <1>8 DEF I

\* The invoice of an order adds up, down its columns and along its lines, to
\* what the order comes to, the shop is shown and the office exports: parts and
\* charge are rounded so that the last has the remainder, and the delivery line
\* is billed at the state of the day of the invoice.
THEOREM InvoicesOfOrdersAddUp == ModestRates /\ Spec => []InvoiceAddsUp
<1> SUFFICES ASSUME ModestRates PROVE Spec => []InvoiceAddsUp
  OBVIOUS
<1>1. IInv(ModestRow) /\ MoneyInv => InvoiceAddsUp
  BY InvoicesAddUp
<1>2. Init => IInv(ModestRow) /\ MoneyInv
  BY InitIInv, InitMoney, ModestRowsStay
<1>3. IInv(ModestRow) /\ MoneyInv /\ [Next]_vars => (IInv(ModestRow) /\ MoneyInv)'
  BY NextIInv, MoneyNext, ModestRowsStay
<1> QED  BY <1>1, <1>2, <1>3, PTL DEF Spec
=============================================================================
