------------------------ MODULE MCOrderTransactions ------------------------
(* Small instances of OrderTransactions for TLC. *)
EXTENDS OrderTransactions, TLC

CONSTANTS s1, s2, o1, o2

L(s, q) == [sku |-> s, quantity |-> q]
Item(s, q) == [sku |-> s, expiry |-> Never, quantity |-> q]

MCSku == {s1, s2}

\* Two orders that name the same products in opposite order.
Crossing == o1 :> <<L(s1, 2), L(s2, 1)>> @@ o2 :> <<L(s2, 1), L(s1, 1)>>

\* One order that names the same product twice.
Twice == o1 :> <<L(s1, 1), L(s1, 1)>>

MCReceipts == {<<Item(s2, 2), Item(s1, 1)>>, <<Item(s1, 2)>>}
TwoOfEach == {<<Item(s1, 2), Item(s2, 2)>>}
TwoOfOne == {<<Item(s1, 2)>>}

Symmetry == Permutations(Request)
=============================================================================
