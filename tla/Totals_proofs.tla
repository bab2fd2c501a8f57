---------------------------- MODULE Totals_proofs ----------------------------
(***************************************************************************)
(* What the books of the pools and of the token need of sums.              *)
(***************************************************************************)
EXTENDS Totals, FiniteSetTheorems, TLAPS

\* Finitely many natural numbers have a natural sum.
LEMMA TotalType ==
    ASSUME NEW K, IsFiniteSet(K), NEW f \in [K -> Nat]
    PROVE  IsFiniteSet(Units(f)) /\ Total(f) \in Nat
  <1>. DEFINE block == [k \in K |-> {k} \X (1..f[k])]
              Blocks == {block[k] : k \in K}
  <1>1. block \in Surjection(K, Blocks)
    BY Zenon DEF Surjection
  <1>2. IsFiniteSet(Blocks)
    BY <1>1, FS_Surjection
  <1>3. ASSUME NEW k \in K
        PROVE  IsFiniteSet(block[k])
    <2>1. f[k] \in Nat
      OBVIOUS
    <2>2. IsFiniteSet(1..f[k])
      BY <2>1, FS_Interval
    <2>3. IsFiniteSet({k})
      BY FS_Singleton
    <2>4. IsFiniteSet({k} \X (1..f[k]))
      BY <2>2, <2>3, FS_Product
    <2>. QED  BY <2>4
  <1>4. \A B \in Blocks : IsFiniteSet(B)
    BY <1>3
  <1>5. IsFiniteSet(UNION Blocks)
    BY <1>2, <1>4, FS_UNION
  <1>6. Units(f) = UNION Blocks
    BY DEF Units
  <1>. QED  BY <1>5, <1>6, FS_CardinalityType DEF Total

\* A sum over two disjoint parts is the sum of the sums.
LEMMA TotalSplit ==
    ASSUME NEW K, IsFiniteSet(K), NEW f \in [K -> Nat], NEW A \in SUBSET K
    PROVE  Total(f) = Total([k \in A |-> f[k]]) + Total([k \in K \ A |-> f[k]])
  <1>. DEFINE g == [k \in A |-> f[k]]
              h == [k \in K \ A |-> f[k]]
  <1>1. IsFiniteSet(A) /\ IsFiniteSet(K \ A)
    BY FS_Subset
  <1>2. IsFiniteSet(Units(g)) /\ IsFiniteSet(Units(h)) /\ Total(g) \in Nat /\ Total(h) \in Nat
    BY <1>1, TotalType
  <1>3. Units(f) = Units(g) \cup Units(h)
    BY DEF Units
  <1>4. Units(g) \cap Units(h) = {}
    BY DEF Units
  <1>. HIDE DEF g, h
  <1>5. Cardinality(Units(g) \cap Units(h)) = 0
    BY <1>4, FS_EmptySet
  <1>6. Cardinality(Units(g) \cup Units(h))
          = Cardinality(Units(g)) + Cardinality(Units(h)) - Cardinality(Units(g) \cap Units(h))
    BY <1>2, FS_Union, Zenon
  <1>7. Total(f) = Total(g) + Total(h)
    BY <1>2, <1>3, <1>5, <1>6 DEF Total
  <1>. QED  BY <1>7 DEF g, h

\* The sum of one number is that number.
LEMMA TotalSingle ==
    ASSUME NEW x, NEW f \in [{x} -> Nat]
    PROVE  Total(f) = f[x]
  <1>1. IsFiniteSet({x}) /\ Cardinality({x}) = 1
    BY FS_Singleton
  <1>2. f[x] \in Nat
    OBVIOUS
  <1>3. IsFiniteSet(1..f[x]) /\ Cardinality(1..f[x]) = f[x]
    BY <1>2, FS_Interval
  <1>4. Cardinality({x} \X (1..f[x])) = Cardinality({x}) * Cardinality(1..f[x])
    BY <1>1, <1>3, FS_Product, Zenon
  <1>5. Units(f) = {x} \X (1..f[x])
    BY DEF Units
  <1>. QED  BY <1>1, <1>2, <1>3, <1>4, <1>5 DEF Total

\* Taking one number out of a sum.
LEMMA TotalAdd ==
    ASSUME NEW K, IsFiniteSet(K), NEW f \in [K -> Nat], NEW x \in K
    PROVE  Total(f) = Total([k \in K \ {x} |-> f[k]]) + f[x]
  <1>. DEFINE g == [k \in {x} |-> f[k]]
              h == [k \in K \ {x} |-> f[k]]
  <1>1. Total(f) = Total(g) + Total(h)
    BY TotalSplit
  <1>2. g \in [{x} -> Nat] /\ g[x] = f[x]
    OBVIOUS
  <1>3. IsFiniteSet(K \ {x}) /\ h \in [K \ {x} -> Nat]
    BY FS_Subset
  <1>. HIDE DEF g, h
  <1>4. Total(g) = f[x]
    BY <1>2, TotalSingle
  <1>5. Total(h) \in Nat
    BY <1>3, TotalType
  <1>6. Total(f) = Total(h) + f[x]
    BY <1>1, <1>2, <1>4, <1>5
  <1>. QED  BY <1>6 DEF h

\* The sum of no numbers is zero.
LEMMA TotalEmpty ==
    ASSUME NEW f, DOMAIN f = {}
    PROVE  Total(f) = 0
  BY FS_EmptySet DEF Total, Units

\* A sum of positive numbers is zero only if there are none of them.
LEMMA TotalPositive ==
    ASSUME NEW K, IsFiniteSet(K), NEW f \in [K -> Nat], \A k \in K : f[k] > 0, Total(f) = 0
    PROVE  K = {}
  <1>1. Units(f) = {}
    BY TotalType, FS_EmptySet DEF Total
  <1>2. ASSUME NEW k \in K
        PROVE  <<k, 1>> \in Units(f)
    BY DEF Units
  <1>. QED  BY <1>1, <1>2

\* A sum does not depend on how the numbers are indexed.
LEMMA TotalRenamed ==
    ASSUME NEW S, IsFiniteSet(S), NEW f \in [S -> Nat], NEW m
    PROVE  Total([k \in {m} \X S |-> f[k[2]]]) = Total(f)
  <1>. DEFINE g == [k \in {m} \X S |-> f[k[2]]]
  <1>. DEFINE b == [x \in Units(f) |-> <<<<m, x[1]>>, x[2]>>]
  <1>1. DOMAIN g = {m} \X S /\ \A i \in S : g[<<m, i>>] = f[i]
    OBVIOUS
  <1>2. IsFiniteSet(Units(f))
    BY TotalType
  <1>. HIDE DEF g
  <1>3. b \in Bijection(Units(f), Units(g))
    <2>1. b \in [Units(f) -> Units(g)]
      BY <1>1 DEF Units
    <2>2. \A x, y \in Units(f) : b[x] = b[y] => x = y
      <3>1. ASSUME NEW x \in Units(f)
            PROVE  x = <<x[1], x[2]>>
        BY DEF Units
      <3>2. \A x \in Units(f) : b[x] = <<<<m, x[1]>>, x[2]>>
        OBVIOUS
      <3>. HIDE DEF b
      <3>. QED  BY <3>1, <3>2
    <2>3. \A z \in Units(g) : \E x \in Units(f) : b[x] = z
      <3>1. SUFFICES ASSUME NEW z \in Units(g)
                     PROVE  \E x \in Units(f) : b[x] = z
        OBVIOUS
      <3>2. PICK i \in S : \E u \in 1..g[<<m, i>>] : z = <<<<m, i>>, u>>
        BY <1>1 DEF Units
      <3>5. PICK u \in 1..f[i] : z = <<<<m, i>>, u>>
        BY <1>1, <3>2
      <3>6. <<i, u>> \in Units(f)
        BY DEF Units
      <3>4. b[<<i, u>>] = z
        BY <3>5, <3>6
      <3>. QED  BY <3>4, <3>6
    <2>. HIDE DEF b
    <2>4. b \in Injection(Units(f), Units(g))
      BY <2>1, <2>2 DEF Injection, IsInjective
    <2>5. b \in Surjection(Units(f), Units(g))
      BY <2>1, <2>3 DEF Surjection
    <2>. QED  BY <2>4, <2>5 DEF Bijection
  <1>4. ExistsBijection(Units(f), Units(g))
    BY <1>3 DEF ExistsBijection
  <1>. QED  BY <1>2, <1>4, FS_Bijection DEF Total, g

\* The same for a sum that is given as two others.
LEMMA TotalUnion ==
    ASSUME NEW K, IsFiniteSet(K), NEW f \in [K -> Nat], NEW A \in SUBSET K, NEW g, NEW h,
           g = [k \in A |-> f[k]], h = [k \in K \ A |-> f[k]]
    PROVE  /\ Total(f) \in Nat /\ Total(g) \in Nat /\ Total(h) \in Nat
           /\ Total(f) = Total(g) + Total(h)
  <1>1. IsFiniteSet(A) /\ IsFiniteSet(K \ A)
    BY FS_Subset
  <1>2. g \in [A -> Nat] /\ h \in [K \ A -> Nat]
    OBVIOUS
  <1>3. Total(f) \in Nat /\ Total(g) \in Nat /\ Total(h) \in Nat
    BY <1>1, <1>2, TotalType
  <1>. QED  BY <1>3, TotalSplit

\* The same for any other indices: g has the number of f's index k at e[k].
LEMMA TotalReindexed ==
    ASSUME NEW S, IsFiniteSet(S), NEW f \in [S -> Nat], NEW T, NEW g, DOMAIN g = T,
           NEW e \in Bijection(S, T), \A k \in S : g[e[k]] = f[k]
    PROVE  Total(g) = Total(f)
  <1>. DEFINE b == [x \in Units(f) |-> <<e[x[1]], x[2]>>]
  <1>1. /\ e \in [S -> T] /\ \A j, k \in S : e[j] = e[k] => j = k
        /\ \A t \in T : \E k \in S : e[k] = t
    BY DEF Bijection, Injection, Surjection, IsInjective
  <1>2. IsFiniteSet(Units(f))
    BY TotalType
  <1>3. \A x \in Units(f) : x = <<x[1], x[2]>> /\ x[1] \in S /\ x[2] \in 1..f[x[1]]
    BY DEF Units
  <1>4. b \in Bijection(Units(f), Units(g))
    <2>1. b \in [Units(f) -> Units(g)]
      <3>1. ASSUME NEW x \in Units(f)
            PROVE  <<e[x[1]], x[2]>> \in Units(g)
        <4>1. e[x[1]] \in DOMAIN g /\ x[2] \in 1..g[e[x[1]]]
          BY <1>1, <1>3
        <4>. QED  BY <4>1 DEF Units
      <3>. QED  BY <3>1
    <2>2. \A x, y \in Units(f) : b[x] = b[y] => x = y
      <3>1. \A x \in Units(f) : b[x] = <<e[x[1]], x[2]>>
        OBVIOUS
      <3>. HIDE DEF b
      <3>. QED  BY <1>1, <1>3, <3>1
    <2>3. \A z \in Units(g) : \E x \in Units(f) : b[x] = z
      <3>1. SUFFICES ASSUME NEW z \in Units(g)
                     PROVE  \E x \in Units(f) : b[x] = z
        OBVIOUS
      <3>2. PICK t \in T : \E u \in 1..g[t] : z = <<t, u>>
        BY DEF Units
      <3>3. PICK k \in S : e[k] = t
        BY <1>1
      <3>4. PICK u \in 1..f[k] : z = <<e[k], u>>
        BY <3>2, <3>3
      <3>5. <<k, u>> \in Units(f)
        BY DEF Units
      <3>6. b[<<k, u>>] = z
        BY <3>4, <3>5
      <3>. QED  BY <3>5, <3>6
    <2>. HIDE DEF b
    <2>4. b \in Injection(Units(f), Units(g))
      BY <2>1, <2>2 DEF Injection, IsInjective
    <2>5. b \in Surjection(Units(f), Units(g))
      BY <2>1, <2>3 DEF Surjection
    <2>. QED  BY <2>4, <2>5 DEF Bijection
  <1>5. ExistsBijection(Units(f), Units(g))
    BY <1>4 DEF ExistsBijection
  <1>. QED  BY <1>2, <1>5, FS_Bijection DEF Total
=============================================================================
