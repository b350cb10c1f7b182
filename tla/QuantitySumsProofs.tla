------------------------- MODULE QuantitySumsProofs -------------------------
(* The laws of sums of quantities, from the laws of Cardinality. *)
EXTENDS QuantitySums, FiniteSetTheorems, TLAPS

\* The units of one element are as many as its quantity.
LEMMA UnitsOfOne ==
  ASSUME NEW x, NEW n \in Nat
  PROVE  IsFiniteSet({x} \X (1 .. n)) /\ Cardinality({x} \X (1 .. n)) = n
<1>1. IsFiniteSet({x}) /\ Cardinality({x}) = 1
  BY FS_Singleton
<1>2. IsFiniteSet(1 .. n) /\ Cardinality(1 .. n) = n
  <2>1. /\ IsFiniteSet(1 .. n)
        /\ Cardinality(1 .. n) = IF 1 > n THEN 0 ELSE n - 1 + 1
    BY FS_Interval
  <2> QED  BY <2>1
<1>3. /\ IsFiniteSet({x} \X (1 .. n))
      /\ Cardinality({x} \X (1 .. n)) = Cardinality({x}) * Cardinality(1 .. n)
  BY <1>1, <1>2, FS_Product
<1> QED  BY <1>1, <1>2, <1>3

\* The units of a finite set are finitely many, so their sum is a quantity.
LEMMA SumType ==
  ASSUME NEW S, IsFiniteSet(S), NEW f, \A x \in S : f[x] \in Nat
  PROVE  IsFiniteSet(Units(f, S)) /\ Sum(f, S) \in Nat
<1> DEFINE unitsOf == [x \in S |-> {x} \X (1 .. f[x])]
           T == { {x} \X (1 .. f[x]) : x \in S }
<1>1. unitsOf \in Surjection(S, T)
  BY DEF Surjection
<1>2. IsFiniteSet(T)
  BY <1>1, FS_Surjection
<1>3. ASSUME NEW U \in T PROVE IsFiniteSet(U)
  <2>1. PICK x \in S : U = {x} \X (1 .. f[x])
    OBVIOUS
  <2>2. f[x] \in Nat
    OBVIOUS
  <2>3. IsFiniteSet({x} \X (1 .. f[x]))
    BY <2>2, UnitsOfOne
  <2> QED  BY <2>1, <2>3
<1>4. IsFiniteSet(UNION T)
  BY <1>2, <1>3, FS_UNION
<1> QED  BY <1>4, FS_CardinalityType DEF Units, Sum

\* Sums of equal quantities are equal.
LEMMA SumCong ==
  ASSUME NEW S, NEW f, NEW g, \A x \in S : f[x] = g[x]
  PROVE  Sum(f, S) = Sum(g, S)
<1>1. Units(f, S) = Units(g, S)
  BY DEF Units
<1> QED  BY <1>1 DEF Sum

\* A larger quantity everywhere has a larger sum.
LEMMA SumMonotone ==
  ASSUME NEW S, IsFiniteSet(S), NEW f, NEW g,
         \A x \in S : f[x] \in Nat /\ g[x] \in Nat /\ f[x] <= g[x]
  PROVE  Sum(f, S) <= Sum(g, S)
<1>1. Units(f, S) \subseteq Units(g, S)
  BY DEF Units
<1>2. IsFiniteSet(Units(g, S))
  BY SumType
<1> QED  BY <1>1, <1>2, FS_Subset DEF Sum

\* Nothing sums to nothing.
LEMMA SumZero ==
  ASSUME NEW S, NEW f, \A x \in S : f[x] = 0
  PROVE  Sum(f, S) = 0
<1>1. Units(f, S) = {}
  <2>1. ASSUME NEW u \in Units(f, S) PROVE FALSE
    <3>1. PICK x \in S : u \in {x} \X (1 .. f[x])
      BY DEF Units
    <3> QED  BY <3>1
  <2> QED  BY <2>1
<1> QED  BY <1>1, FS_EmptySet DEF Sum

\* Disjoint sets sum separately.
LEMMA SumUnion ==
  ASSUME NEW S, IsFiniteSet(S), NEW T, IsFiniteSet(T), S \cap T = {},
         NEW f, \A x \in S \cup T : f[x] \in Nat
  PROVE  Sum(f, S \cup T) = Sum(f, S) + Sum(f, T)
<1>1. IsFiniteSet(Units(f, S)) /\ IsFiniteSet(Units(f, T))
  BY SumType
<1>2. Units(f, S \cup T) = Units(f, S) \cup Units(f, T)
  BY DEF Units
<1>3. Units(f, S) \cap Units(f, T) = {}
  <2>1. ASSUME NEW u \in Units(f, S), u \in Units(f, T) PROVE FALSE
    <3>1. PICK x \in S : u \in {x} \X (1 .. f[x])
      BY DEF Units
    <3>2. PICK y \in T : u \in {y} \X (1 .. f[y])
      BY <2>1 DEF Units
    <3>3. u[1] = x /\ u[1] = y
      BY <3>1, <3>2
    <3> QED  BY <3>3
  <2> QED  BY <2>1
<1>4. Cardinality(Units(f, S) \cap Units(f, T)) = 0
  BY <1>3, FS_EmptySet
<1>5. Sum(f, S) \in Nat /\ Sum(f, T) \in Nat
  BY SumType
<1>6. Cardinality(Units(f, S) \cup Units(f, T)) =
        Cardinality(Units(f, S)) + Cardinality(Units(f, T))
          - Cardinality(Units(f, S) \cap Units(f, T))
  BY <1>1, FS_Union
<1>7. Sum(f, S \cup T) = Sum(f, S) + Sum(f, T) - 0
  BY <1>2, <1>4, <1>6 DEF Sum
<1> QED  BY <1>5, <1>7

\* The sum over one element is its quantity.
LEMMA SumOne ==
  ASSUME NEW x, NEW f, f[x] \in Nat
  PROVE  Sum(f, {x}) = f[x]
<1>1. Units(f, {x}) = {x} \X (1 .. f[x])
  BY DEF Units
<1>2. Cardinality({x} \X (1 .. f[x])) = f[x]
  BY UnitsOfOne
<1> QED  BY <1>1, <1>2 DEF Sum

\* Every summand is covered by its sum.
LEMMA SumCovers ==
  ASSUME NEW S, IsFiniteSet(S), NEW f, \A y \in S : f[y] \in Nat, NEW x \in S
  PROVE  f[x] <= Sum(f, S)
<1>1. Units(f, {x}) \subseteq Units(f, S)
  BY DEF Units
<1>2. Sum(f, {x}) = f[x]
  BY SumOne
<1> QED  BY <1>1, <1>2, SumType, FS_Subset DEF Sum

\* The sum of two quantities per element is the sum of their sums: the units
\* of g are moved past those of f.
LEMMA SumPlus ==
  ASSUME NEW S, IsFiniteSet(S), NEW f, NEW g,
         \A x \in S : f[x] \in Nat /\ g[x] \in Nat
  PROVE  Sum([x \in S |-> f[x] + g[x]], S) = Sum(f, S) + Sum(g, S)
<1> DEFINE h == [x \in S |-> f[x] + g[x]]
           M == { u \in Units(h, S) : u[2] > f[u[1]] }
           move == [u \in Units(g, S) |-> <<u[1], u[2] + f[u[1]]>>]
<1>0. IsFiniteSet(Units(f, S)) /\ IsFiniteSet(Units(g, S)) /\ IsFiniteSet(Units(h, S))
  <2>1. \A x \in S : h[x] \in Nat
    OBVIOUS
  <2> QED  BY <2>1, SumType
<1>a. \A k, u : u \in Units(k, S) <=> \E x \in S, i \in Nat : i \in 1 .. k[x] /\ u = <<x, i>>
  BY DEF Units
<1> HIDE DEF h
<1>h. \A x \in S : h[x] = f[x] + g[x]
  BY DEF h
<1>1. Units(h, S) = Units(f, S) \cup M
  <2>1. ASSUME NEW u \in Units(h, S), u \notin M PROVE u \in Units(f, S)
    <3>1. PICK x \in S, i \in Nat : i \in 1 .. h[x] /\ u = <<x, i>>
      BY <1>a
    <3>2. i <= f[x]
      BY <2>1, <3>1, <1>h
    <3> QED  BY <3>1, <3>2, <1>a
  <2>2. ASSUME NEW u \in Units(f, S) PROVE u \in Units(h, S)
    <3>1. PICK x \in S, i \in Nat : i \in 1 .. f[x] /\ u = <<x, i>>
      BY <1>a
    <3>2. i \in 1 .. h[x]
      BY <3>1, <1>h
    <3> QED  BY <3>1, <3>2, <1>a
  <2> QED  BY <2>1, <2>2
<1>2. Units(f, S) \cap M = {}
  <2>1. ASSUME NEW u \in Units(f, S) PROVE u \notin M
    <3>1. PICK x \in S, i \in Nat : i \in 1 .. f[x] /\ u = <<x, i>>
      BY <1>a
    <3> QED  BY <3>1
  <2> QED  BY <2>1
<1>3. move \in Bijection(Units(g, S), M)
  <2>1. ASSUME NEW u \in Units(g, S) PROVE move[u] \in M
    <3>1. PICK x \in S, i \in Nat : i \in 1 .. g[x] /\ u = <<x, i>>
      BY <1>a
    <3>2. i + f[x] \in 1 .. h[x] /\ i + f[x] > f[x]
      BY <3>1, <1>h
    <3>3. move[u] = <<x, i + f[x]>>
      BY <3>1
    <3>4. move[u] \in Units(h, S)
      BY <3>2, <3>3, <1>a
    <3> QED  BY <3>2, <3>3, <3>4
  <2>2. ASSUME NEW u \in Units(g, S), NEW v \in Units(g, S), move[u] = move[v]
        PROVE  u = v
    <3>1. PICK x \in S, i \in Nat : i \in 1 .. g[x] /\ u = <<x, i>>
      BY <1>a
    <3>2. PICK y \in S, j \in Nat : j \in 1 .. g[y] /\ v = <<y, j>>
      BY <1>a
    <3>3. <<x, i + f[x]>> = <<y, j + f[y]>>
      BY <2>2, <3>1, <3>2
    <3>4. x = y /\ i + f[x] = j + f[y]
      BY <3>3
    <3> QED  BY <3>1, <3>2, <3>4
  <2>3. ASSUME NEW v \in M PROVE \E u \in Units(g, S) : move[u] = v
    <3>1. PICK x \in S, i \in Nat : i \in 1 .. h[x] /\ v = <<x, i>>
      BY <1>a
    <3>2. i > f[x]
      BY <3>1
    <3>3. i - f[x] \in 1 .. g[x]
      BY <3>1, <3>2, <1>h
    <3>4. <<x, i - f[x]>> \in Units(g, S)
      BY <3>3, <1>a
    <3>5. move[<<x, i - f[x]>>] = <<x, i>>
      BY <3>4, <3>1
    <3> QED  BY <3>1, <3>4, <3>5
  <2>4. move \in [Units(g, S) -> M]
    BY <2>1
  <2>5. move \in Injection(Units(g, S), M)
    BY <2>2, <2>4 DEF Injection, IsInjective
  <2>6. move \in Surjection(Units(g, S), M)
    BY <2>3, <2>4 DEF Surjection
  <2> QED  BY <2>5, <2>6 DEF Bijection
<1>4. IsFiniteSet(M) /\ Cardinality(M) = Cardinality(Units(g, S))
  <2>1. ExistsBijection(Units(g, S), M)
    BY <1>3 DEF ExistsBijection
  <2> QED  BY <2>1, <1>0, FS_Bijection
<1>5. Cardinality(Units(f, S) \cap M) = 0
  BY <1>2, FS_EmptySet
<1>6. Cardinality(Units(h, S)) = Cardinality(Units(f, S)) + Cardinality(M)
                                  - Cardinality(Units(f, S) \cap M)
  BY <1>0, <1>1, <1>4, FS_Union
<1>7. Cardinality(Units(f, S)) \in Nat /\ Cardinality(Units(g, S)) \in Nat
  BY <1>0, FS_CardinalityType
<1> QED  BY <1>4, <1>5, <1>6, <1>7 DEF Sum, h

\* SumPlus for any function that agrees with the sum of the two on S.
LEMMA SumAdd ==
  ASSUME NEW S, IsFiniteSet(S), NEW f, NEW g, NEW h,
         \A x \in S : f[x] \in Nat /\ g[x] \in Nat /\ h[x] = f[x] + g[x]
  PROVE  Sum(h, S) = Sum(f, S) + Sum(g, S)
<1> DEFINE k == [x \in S |-> f[x] + g[x]]
<1>1. Sum(k, S) = Sum(f, S) + Sum(g, S)
  BY SumPlus
<1>2. \A x \in S : h[x] = k[x]
  OBVIOUS
<1>3. Sum(h, S) = Sum(k, S)
  BY <1>2, SumCong
<1> QED  BY <1>1, <1>3

\* A smaller set has a smaller sum.
LEMMA SumSubset ==
  ASSUME NEW T, IsFiniteSet(T), NEW S \in SUBSET T, NEW f, \A x \in T : f[x] \in Nat
  PROVE  Sum(f, S) <= Sum(f, T)
<1>1. Units(f, S) \subseteq Units(f, T)
  BY DEF Units
<1>2. IsFiniteSet(Units(f, T))
  BY SumType
<1> QED  BY <1>1, <1>2, FS_Subset DEF Sum

\* The sum over a subset is the sum of the quantities that count only there.
LEMMA SumWithin ==
  ASSUME NEW T, NEW S \in SUBSET T, NEW f, NEW g,
         \A x \in T : g[x] = IF x \in S THEN f[x] ELSE 0
  PROVE  Sum(f, S) = Sum(g, T)
<1>1. ASSUME NEW u \in Units(f, S) PROVE u \in Units(g, T)
  BY DEF Units
<1>2. ASSUME NEW u \in Units(g, T) PROVE u \in Units(f, S)
  <2>1. PICK x \in T : u \in {x} \X (1 .. g[x])
    BY DEF Units
  <2>2. x \in S
    <3>1. ASSUME x \notin S PROVE FALSE
      <4>1. g[x] = 0
        BY <3>1
      <4> QED  BY <2>1, <4>1
    <3> QED  BY <3>1
  <2> QED  BY <2>1, <2>2 DEF Units
<1>3. Units(f, S) = Units(g, T)
  BY <1>1, <1>2
<1> QED  BY <1>3 DEF Sum

\* Two quantities that differ at one element only differ by as much in sum.
LEMMA SumUpdate ==
  ASSUME NEW S, IsFiniteSet(S), NEW f, NEW g, NEW x \in S,
         \A y \in S : f[y] \in Nat /\ g[y] \in Nat,
         \A y \in S : y # x => f[y] = g[y]
  PROVE  Sum(g, S) + f[x] = Sum(f, S) + g[x]
<1> DEFINE R == S \ {x}
<1>1. IsFiniteSet(R) /\ IsFiniteSet({x})
  BY FS_Subset, FS_Singleton
<1>2. S = R \cup {x} /\ R \cap {x} = {}
  OBVIOUS
<1> HIDE DEF R
<1>3. Sum(f, S) = Sum(f, R) + Sum(f, {x})
  BY <1>1, <1>2, SumUnion
<1>4. Sum(g, S) = Sum(g, R) + Sum(g, {x})
  BY <1>1, <1>2, SumUnion
<1>5. Sum(f, R) = Sum(g, R)
  BY <1>2, SumCong DEF R
<1>6. Sum(f, {x}) = f[x] /\ Sum(g, {x}) = g[x]
  BY SumOne
<1>7. Sum(f, R) \in Nat
  BY <1>1, <1>2, SumType
<1> QED  BY <1>3, <1>4, <1>5, <1>6, <1>7

\* A sum does not depend on what its elements are called.
LEMMA SumRename ==
  ASSUME NEW S, IsFiniteSet(S), NEW T, NEW m \in Bijection(S, T),
         NEW f, NEW g, \A x \in S : f[x] \in Nat /\ g[m[x]] = f[x]
  PROVE  Sum(g, T) = Sum(f, S)
<1> DEFINE move == [u \in Units(f, S) |-> <<m[u[1]], u[2]>>]
<1>1. \A k, R, u : u \in Units(k, R) <=> \E x \in R, i \in Int : i \in 1 .. k[x] /\ u = <<x, i>>
  BY DEF Units
<1>2. /\ \A x \in S : m[x] \in T
      /\ \A x, y \in S : m[x] = m[y] => x = y
      /\ \A y \in T : \E x \in S : m[x] = y
  BY DEF Bijection, Injection, IsInjective, Surjection
<1>3. \A x \in S, i \in Int : <<x, i>> \in Units(f, S) => move[<<x, i>>] = <<m[x], i>>
  OBVIOUS
<1>4. ASSUME NEW u \in Units(f, S) PROVE move[u] \in Units(g, T)
  <2>1. PICK x \in S, i \in Int : i \in 1 .. f[x] /\ u = <<x, i>>
    BY <1>1
  <2>2. move[u] = <<m[x], i>> /\ m[x] \in T /\ g[m[x]] = f[x]
    BY <1>2, <1>3, <2>1
  <2> QED  BY <1>1, <2>1, <2>2
<1>5. ASSUME NEW u \in Units(f, S), NEW v \in Units(f, S), move[u] = move[v]
      PROVE  u = v
  <2>1. PICK x \in S, i \in Int : i \in 1 .. f[x] /\ u = <<x, i>>
    BY <1>1
  <2>2. PICK y \in S, j \in Int : j \in 1 .. f[y] /\ v = <<y, j>>
    BY <1>1
  <2>3. <<m[x], i>> = <<m[y], j>>
    BY <1>3, <1>5, <2>1, <2>2
  <2> QED  BY <1>2, <2>1, <2>2, <2>3
<1>6. ASSUME NEW v \in Units(g, T) PROVE \E u \in Units(f, S) : move[u] = v
  <2>1. PICK y \in T, i \in Int : i \in 1 .. g[y] /\ v = <<y, i>>
    BY <1>1
  <2>2. PICK x \in S : m[x] = y
    BY <1>2
  <2>3. <<x, i>> \in Units(f, S)
    <3>1. g[y] = f[x]
      BY <2>2
    <3> QED  BY <1>1, <2>1, <3>1
  <2> QED  BY <1>3, <2>1, <2>2, <2>3
<1>7. move \in Bijection(Units(f, S), Units(g, T))
  <2>1. move \in [Units(f, S) -> Units(g, T)]
    BY <1>4
  <2> HIDE DEF move
  <2>2. move \in Injection(Units(f, S), Units(g, T))
    BY <1>5, <2>1 DEF Injection, IsInjective
  <2>3. move \in Surjection(Units(f, S), Units(g, T))
    BY <1>6, <2>1 DEF Surjection
  <2> QED  BY <2>2, <2>3 DEF Bijection
<1>8. IsFiniteSet(Units(f, S))
  BY SumType
<1>9. ExistsBijection(Units(f, S), Units(g, T))
  BY <1>7 DEF ExistsBijection
<1> QED  BY <1>8, <1>9, FS_Bijection DEF Sum

\* The elements of S are sorted by a key in K; g holds the sum of f over the
\* elements of each key.
Sorted(S, key, K) == \A x \in S : key[x] \in K
SumsOfParts(g, f, S, key, K) == \A k \in K : g[k] = Sum(f, {x \in S : key[x] = k})

\* A sum is the sum of its parts, whatever its elements are sorted by: the
\* units of each part are numbered, so that <<k, i>> names one unit of S.
LEMMA SumParts ==
  ASSUME NEW S, IsFiniteSet(S), NEW f, \A x \in S : f[x] \in Nat,
         NEW key, NEW K, Sorted(S, key, K),
         NEW g, SumsOfParts(g, f, S, key, K)
  PROVE  Sum(g, K) = Sum(f, S)
<1>0. /\ \A x \in S : key[x] \in K
      /\ \A k \in K : g[k] = Sum(f, {x \in S : key[x] = k})
  BY DEF Sorted, SumsOfParts
<1> DEFINE part(k) == {x \in S : key[x] = k}
           nth == [k \in K |-> CHOOSE n : n \in Bijection(1 .. g[k], Units(f, part(k)))]
           unit == [u \in Units(g, K) |-> nth[u[1]][u[2]]]
<1>1. \A h, R, u : u \in Units(h, R) <=> \E x \in R, i \in Int : i \in 1 .. h[x] /\ u = <<x, i>>
  BY DEF Units
<1>2. ASSUME NEW k \in K
      PROVE  nth[k] \in Bijection(1 .. g[k], Units(f, part(k)))
  <2>1. IsFiniteSet(part(k)) /\ \A x \in part(k) : f[x] \in Nat
    BY FS_Subset
  <2>2. IsFiniteSet(Units(f, part(k))) /\ g[k] = Cardinality(Units(f, part(k)))
    BY <1>0, <2>1, SumType DEF Sum
  <2>3. \E n : n \in Bijection(1 .. g[k], Units(f, part(k)))
    BY <2>2, FS_CardinalityType DEF ExistsBijection
  <2> QED  BY <2>3
<1>3. ASSUME NEW k \in K
      PROVE  /\ \A i \in 1 .. g[k] : nth[k][i] \in Units(f, part(k))
             /\ \A i, j \in 1 .. g[k] : nth[k][i] = nth[k][j] => i = j
             /\ \A v \in Units(f, part(k)) : \E i \in 1 .. g[k] : nth[k][i] = v
  <2> DEFINE A == 1 .. g[k]
             B == Units(f, part(k))
  <2>1. nth[k] \in Bijection(A, B)
    BY <1>2
  <2> HIDE DEF A, B, nth
  <2>2. /\ \A i \in A : nth[k][i] \in B
        /\ \A i, j \in A : nth[k][i] = nth[k][j] => i = j
        /\ \A v \in B : \E i \in A : nth[k][i] = v
    BY <2>1 DEF Bijection, Injection, IsInjective, Surjection
  <2> QED  BY <2>2 DEF A, B
<1>4. \A v : \A k \in K : v \in Units(f, part(k)) <=> v \in Units(f, S) /\ key[v[1]] = k
  BY <1>1
<1>5. \A k \in K, i \in Int : <<k, i>> \in Units(g, K) => unit[<<k, i>>] = nth[k][i]
  OBVIOUS
<1> HIDE DEF nth, unit, part
<1>6. ASSUME NEW u \in Units(g, K) PROVE unit[u] \in Units(f, S)
  <2>1. PICK k \in K, i \in Int : i \in 1 .. g[k] /\ u = <<k, i>>
    BY <1>1
  <2> QED  BY <1>3, <1>4, <1>5, <2>1
<1>7. ASSUME NEW u \in Units(g, K), NEW v \in Units(g, K), unit[u] = unit[v]
      PROVE  u = v
  <2>1. PICK k \in K, i \in Int : i \in 1 .. g[k] /\ u = <<k, i>>
    BY <1>1
  <2>2. PICK l \in K, j \in Int : j \in 1 .. g[l] /\ v = <<l, j>>
    BY <1>1
  <2>3. unit[u] = nth[k][i] /\ unit[v] = nth[l][j]
    BY <1>5, <2>1, <2>2
  <2>4. k = key[unit[u][1]] /\ l = key[unit[v][1]]
    BY <1>3, <1>4, <2>1, <2>2, <2>3
  <2>5. k = l
    BY <1>7, <2>4
  <2> QED  BY <1>3, <1>7, <2>1, <2>2, <2>3, <2>5
<1>8. ASSUME NEW v \in Units(f, S) PROVE \E u \in Units(g, K) : unit[u] = v
  <2>1. key[v[1]] \in K
    BY <1>0, <1>1
  <2>2. PICK i \in 1 .. g[key[v[1]]] : nth[key[v[1]]][i] = v
    BY <1>3, <1>4, <2>1
  <2>3. <<key[v[1]], i>> \in Units(g, K)
    BY <1>1, <2>1
  <2> QED  BY <1>5, <2>1, <2>2, <2>3
<1>9. unit \in [Units(g, K) -> Units(f, S)]
  BY <1>6 DEF unit
<1>10. /\ unit \in Injection(Units(g, K), Units(f, S))
       /\ unit \in Surjection(Units(g, K), Units(f, S))
  BY <1>7, <1>8, <1>9 DEF Injection, IsInjective, Surjection
<1>11. IsFiniteSet(Units(f, S))
  BY SumType
<1> QED  BY <1>10, <1>11, FS_Injection DEF Sum

\* The size of a set is the sum of ones.
LEMMA SumOnes ==
  ASSUME NEW S, IsFiniteSet(S), NEW f, \A x \in S : f[x] = 1
  PROVE  Sum(f, S) = Cardinality(S)
<1> DEFINE unit == [x \in S |-> <<x, 1>>]
<1>1. \A u : u \in Units(f, S) <=> \E x \in S : u = <<x, 1>>
  BY DEF Units
<1>2. unit \in Bijection(S, Units(f, S))
  BY <1>1 DEF Bijection, Injection, IsInjective, Surjection
<1>3. ExistsBijection(S, Units(f, S))
  BY <1>2 DEF ExistsBijection
<1> QED  BY <1>3, FS_Bijection DEF Sum
=============================================================================
