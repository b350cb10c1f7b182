-------------------------- MODULE MCOrderInventory --------------------------
(* A small instance of OrderInventory for TLC. *)
EXTENDS OrderInventory, TLC, Functions

CONSTANTS s1, s2, brand1, brand2, codeA, shop1, driver1

\* Two products of different brands whose names shorten to the same code.
MCSku == {s1, s2}
MCBrandOf == s1 :> brand1 @@ s2 :> brand2
MCCodeOf == brand1 :> codeA @@ brand2 :> codeA

admin == [role |-> "ADMIN", shops |-> {}, employee |-> NoDriver]
MCActor == {admin}

Cart(a, b) == s1 :> a @@ s2 :> b
Item(s, e, q) == [sku |-> s, expiry |-> e, quantity |-> q]

\* Carts of each brand and of both; a shipment that expires on the first
\* day, one on the second, and one of both products without an expiry date.
MCCarts == {Cart(1, 0), Cart(2, 0), Cart(0, 1), Cart(2, 1)}
MCReceipts == {<<Item(s1, 0, 1)>>, <<Item(s1, 1, 2)>>, <<Item(s1, Never, 1), Item(s2, Never, 1)>>}

\* The definition of Sum agrees with the fold of the community modules.
ASSUME SumIsFold ==
  \A f \in [1 .. 3 -> 0 .. 3] : \A S \in SUBSET (1 .. 3) : Sum(f, S) = SumFunctionOnSet(f, S)
=============================================================================
