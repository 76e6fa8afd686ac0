----------------------------- MODULE Sums_proofs -----------------------------
(* Lemmas about sums: of finitely many amounts the sum is a number, grows by *)
(* what is added, and is bounded by its parts.                              *)
EXTENDS Sums, Integers, FiniteSetTheorems, TLAPS

\* What the sum counts.
Units(amount) == UNION {{r} \X (1 .. amount[r]) : r \in DOMAIN amount}

\* The units of one amount are as many as it says.
LEMMA UnitsOfOne ==
  ASSUME NEW r, NEW n \in Nat
  PROVE  IsFiniteSet({r} \X (1 .. n)) /\ Cardinality({r} \X (1 .. n)) = n
<1>1. IsFiniteSet({r}) /\ Cardinality({r}) = 1
  BY FS_Singleton
<1>2. IsFiniteSet(1 .. n) /\ Cardinality(1 .. n) = IF 1 > n THEN 0 ELSE n - 1 + 1
  BY FS_Interval
<1>3. Cardinality(1 .. n) = n
  BY <1>2
<1>4. /\ IsFiniteSet({r} \X (1 .. n))
      /\ Cardinality({r} \X (1 .. n)) = Cardinality({r}) * Cardinality(1 .. n)
  BY <1>1, <1>2, FS_Product, Zenon
<1> QED BY <1>1, <1>3, <1>4

\* The sum of finitely many amounts is a number.
LEMMA TotalIsNat ==
  ASSUME NEW R, IsFiniteSet(R), NEW a \in [R -> Nat]
  PROVE  IsFiniteSet(Units(a)) /\ Total(a) \in Nat
<1> DEFINE U(r) == {r} \X (1 .. a[r])
<1> DEFINE Us == {U(r) : r \in R}
<1>1. \A r \in R : IsFiniteSet(U(r))
  BY UnitsOfOne
<1>2. IsFiniteSet(Us)
  <2> DEFINE f == [r \in R |-> U(r)]
  <2>1. f \in Surjection(R, Us)
    BY DEF Surjection
  <2> QED BY <2>1, FS_Surjection
<1>3. IsFiniteSet(UNION Us)
  <2> HIDE DEF U
  <2>1. \A T \in Us : IsFiniteSet(T)
    BY <1>1
  <2> QED BY <1>2, <2>1, FS_UNION
<1> QED BY <1>3, FS_CardinalityType DEF Units, Total

\* No amount, no sum.
LEMMA TotalOfNone ==
  ASSUME NEW a, DOMAIN a = {}
  PROVE  Total(a) = 0
<1>1. UNION {{r} \X (1 .. a[r]) : r \in DOMAIN a} = {}
  OBVIOUS
<1> QED BY <1>1, FS_EmptySet DEF Total

\* Of fewer amounts the sum is not greater.
LEMMA TotalOfFewer ==
  ASSUME NEW R, IsFiniteSet(R), NEW a \in [R -> Nat], NEW Q \in SUBSET R
  PROVE  Total([r \in Q |-> a[r]]) <= Total(a)
<1> DEFINE b == [r \in Q |-> a[r]]
<1>1. Units(b) \subseteq Units(a)
  BY DEF Units
<1>2. IsFiniteSet(Units(a))
  BY TotalIsNat
<1> QED BY <1>1, <1>2, FS_Subset DEF Units, Total

\* One amount more adds itself to the sum.
LEMMA TotalOfOneMore ==
  ASSUME NEW R, IsFiniteSet(R), NEW r, r \notin R, NEW a \in [R \cup {r} -> Nat]
  PROVE  Total(a) = Total([q \in R |-> a[q]]) + a[r]
<1> DEFINE b == [q \in R |-> a[q]]
<1> DEFINE V == {r} \X (1 .. a[r])
<1>1. Units(a) = Units(b) \cup V /\ Units(b) \cap V = {}
  BY DEF Units
<1>2. IsFiniteSet(Units(b))
  BY TotalIsNat, b \in [R -> Nat]
<1>3. IsFiniteSet(V) /\ Cardinality(V) = a[r]
  BY UnitsOfOne, a[r] \in Nat
<1>4. Cardinality(Units(b) \cup V) = Cardinality(Units(b)) + Cardinality(V)
  BY <1>1, <1>2, <1>3, FS_Union, FS_EmptySet
<1>5. Total(b) \in Nat
  BY TotalIsNat, b \in [R -> Nat]
<1>6. Total(a) = Cardinality(Units(b) \cup V) /\ Total(b) = Cardinality(Units(b))
  BY <1>1 DEF Units, Total
<1> HIDE DEF b, V
<1> QED BY <1>3, <1>4, <1>5, <1>6 DEF b

\* Of smaller amounts, and fewer, the sum is not greater.
LEMMA TotalOfSmaller ==
  ASSUME NEW R, IsFiniteSet(R), NEW a \in [R -> Nat],
         NEW Q \in SUBSET R, NEW b \in [Q -> Nat], \A r \in Q : b[r] <= a[r]
  PROVE  Total(b) <= Total(a)
<1>1. Units(b) \subseteq Units(a)
  <2>1. ASSUME NEW r \in Q PROVE {r} \X (1 .. b[r]) \subseteq {r} \X (1 .. a[r])
    <3>1. a[r] \in Nat /\ b[r] \in Nat /\ b[r] <= a[r]
      OBVIOUS
    <3>2. 1 .. b[r] \subseteq 1 .. a[r]
      BY <3>1
    <3> QED BY <3>2
  <2> QED BY <2>1 DEF Units
<1>2. IsFiniteSet(Units(a))
  BY TotalIsNat
<1> QED BY <1>1, <1>2, FS_Subset DEF Units, Total

\* The sum is not greater than as many times the greatest of the amounts.
LEMMA TotalIsBounded ==
  ASSUME NEW R, IsFiniteSet(R), NEW a \in [R -> Nat], NEW m \in Nat, \A r \in R : a[r] <= m
  PROVE  Total(a) <= Cardinality(R) * m
<1>1. Units(a) \subseteq R \X (1 .. m)
  <2>1. ASSUME NEW r \in R PROVE {r} \X (1 .. a[r]) \subseteq R \X (1 .. m)
    <3>1. a[r] \in Nat /\ a[r] <= m
      OBVIOUS
    <3>2. 1 .. a[r] \subseteq 1 .. m
      BY <3>1
    <3> QED BY <3>2
  <2> QED BY <2>1 DEF Units
<1>2. IsFiniteSet(1 .. m) /\ Cardinality(1 .. m) = IF 1 > m THEN 0 ELSE m - 1 + 1
  <2>1. 1 \in Int /\ m \in Int
    OBVIOUS
  <2> QED BY <2>1, FS_Interval
<1>3. Cardinality(1 .. m) = m
  BY <1>2
<1>4. /\ IsFiniteSet(R \X (1 .. m))
      /\ Cardinality(R \X (1 .. m)) = Cardinality(R) * Cardinality(1 .. m)
  BY <1>2, FS_Product
<1>5. Cardinality(Units(a)) <= Cardinality(R \X (1 .. m))
  BY <1>1, <1>4, FS_Subset
<1> QED BY <1>3, <1>4, <1>5 DEF Units, Total
=============================================================================
