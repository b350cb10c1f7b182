---------------------------- MODULE QuantitySums ----------------------------
(***************************************************************************)
(* Sums of stock quantities.  A quantity is the number of its units, and a *)
(* sum of quantities is the number of units altogether: Sum(f, S) is the   *)
(* size of the set holding the units <<x, 1>>, ..., <<x, f[x]>> of every x *)
(* in S.  The definition has no recursion, so that the laws of sums are    *)
(* consequences of the laws of Cardinality (module QuantitySumsProofs);    *)
(* the runs check that it agrees with SumFunctionOnSet of the community    *)
(* modules, which is defined by a fold.                                    *)
(***************************************************************************)
EXTENDS Integers, FiniteSets

Units(f, S) == UNION { {x} \X (1 .. f[x]) : x \in S }

Sum(f, S) == Cardinality(Units(f, S))

\* The quantities f and g of the elements of S together.
Plus(f, g, S) == [x \in S |-> f[x] + g[x]]
=============================================================================
