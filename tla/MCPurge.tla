------------------------------ MODULE MCPurge ------------------------------
(* A small instance of Purge for TLC. *)
EXTENDS Purge, TLC

CONSTANTS s1, brand1, codeA, shop1, driver1

MCBrandOf == s1 :> brand1
MCCodeOf == brand1 :> codeA

admin == [role |-> "ADMIN", shops |-> {}, employee |-> NoDriver]
owner == [role |-> "RETAILER", shops |-> {shop1}, employee |-> NoDriver]
MCActor == {admin, owner}

MCCarts == {s1 :> 2}
MCReceipts == {<<[sku |-> s1, expiry |-> Never, quantity |-> 2]>>}

Symmetry == Permutations(Order)
=============================================================================
