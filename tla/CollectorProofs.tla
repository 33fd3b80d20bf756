-------------------------- MODULE CollectorProofs --------------------------
(***************************************************************************)
(* Proofs about Collector and LogHistogram, for any durations, status      *)
(* codes, resolution and range of the histogram and number of results.     *)
(* Each induction is a choice of a least number or of a minimal set.       *)
(***************************************************************************)
EXTENDS Collector, FiniteSetTheorems, WellFoundedInduction, TLAPS

(* Numbers and finite sets.                                                *)

LEMMA LeastNumber ==
    ASSUME NEW T \in SUBSET Nat, T # {}
    PROVE  \E n \in T : \A m \in T : n <= m
<1>1. \E n \in T : \A m \in T : ~ (<<m, n>> \in OpToRel(<, Nat))
  BY NatLessThanWellFounded, WFMin
<1>2. PICK n \in T : \A m \in T : ~ (<<m, n>> \in OpToRel(<, Nat))
  BY <1>1
<1>3. ASSUME NEW m \in T PROVE n <= m
  <2>1. n \in Nat /\ m \in Nat /\ ~ (m < n)
    BY <1>2 DEF OpToRel
  <2> QED
    BY <2>1
<1> QED
  BY <1>3

LEMMA MinimalSubset ==
    ASSUME NEW S, IsFiniteSet(S), NEW Q \in SUBSET (SUBSET S), Q # {}
    PROVE  \E T \in Q : \A U \in Q : U \subseteq T => U = T
<1>1. IsWellFoundedOn(StrictSubsetOrdering(S), SUBSET S)
  BY FS_StrictSubsetOrderingWellFounded, FS_FiniteSubsetsOfFinite
<1>2. \E T \in Q : \A U \in Q : ~ (<<U, T>> \in StrictSubsetOrdering(S))
  BY <1>1, WFMin
<1> QED
  BY <1>2 DEF StrictSubsetOrdering

(* The number with the fewest greater ones has none.                       *)
LEMMA GreatestNumber ==
    ASSUME NEW S \in SUBSET Nat, IsFiniteSet(S), S # {}
    PROVE  \E n \in S : \A m \in S : m <= n
<1> DEFINE Above(n) == {m \in S : n < m}
           T == {Cardinality(Above(n)) : n \in S}
<1>1. \A n \in S : IsFiniteSet(Above(n)) /\ Cardinality(Above(n)) \in Nat
  <2>1. \A n \in S : Above(n) \in SUBSET S
    OBVIOUS
  <2> QED
    BY <2>1, FS_Subset, FS_CardinalityType
<1>2. T \in SUBSET Nat /\ T # {}
  BY <1>1
<1>3. PICK c \in T : \A k \in T : c <= k
  <2> HIDE DEF T
  <2> QED
    BY <1>2, LeastNumber
<1>4. PICK n \in S : c = Cardinality(Above(n))
  BY <1>3
<1>5. ASSUME NEW m \in S PROVE m <= n
  <2> SUFFICES ASSUME n < m PROVE FALSE
    BY <1>4
  <2>1. Above(m) \in SUBSET Above(n) /\ m \in Above(n) /\ m \notin Above(m)
    BY <1>4
  <2>2. Cardinality(Above(n)) <= Cardinality(Above(m))
    BY <1>3, <1>4
  <2>3. Cardinality(Above(m)) \in Nat /\ Cardinality(Above(n)) \in Nat /\ IsFiniteSet(Above(n))
    BY <1>1, <1>4
  <2> HIDE DEF Above
  <2>4. Cardinality(Above(m)) <= Cardinality(Above(n))
    BY <2>1, <2>3, FS_Subset
  <2>5. Cardinality(Above(m)) = Cardinality(Above(n))
    BY <2>2, <2>3, <2>4
  <2>6. Above(n) = Above(m)
    BY <2>1, <2>3, <2>5, FS_Subset
  <2> QED
    BY <2>1, <2>6
<1> QED
  BY <1>5

LEMMA LeastMeets ==
    ASSUME NEW S \in SUBSET Nat, S # {}
    PROVE  Min(S) \in S /\ \A x \in S : Min(S) <= x
  BY LeastNumber DEF Min

LEMMA GreatestMeets ==
    ASSUME NEW S \in SUBSET Nat, IsFiniteSet(S), S # {}
    PROVE  Max(S) \in S /\ \A x \in S : x <= Max(S)
<1>1. \E n \in S : \A m \in S : n >= m
  BY GreatestNumber
<1> QED
  BY <1>1 DEF Max

-----------------------------------------------------------------------------
(* Sums of natural numbers: as many units as the numbers have together.    *)

Units(f, S) == UNION {{k} \X (1 .. f[k]) : k \in S}

LEMMA UnitsAreFinite ==
    ASSUME NEW S, IsFiniteSet(S), NEW f, \A k \in S : f[k] \in Nat
    PROVE  IsFiniteSet(Units(f, S)) /\ Cardinality(Units(f, S)) \in Nat
<1> DEFINE g == [k \in S |-> {k} \X (1 .. f[k])]
           T == {{k} \X (1 .. f[k]) : k \in S}
<1>1. ASSUME NEW k \in S PROVE IsFiniteSet({k} \X (1 .. f[k]))
  <2>1. f[k] \in Int /\ 1 \in Int
    OBVIOUS
  <2>2. IsFiniteSet(1 .. f[k])
    BY <2>1, FS_Interval
  <2> QED
    BY <2>2, FS_Singleton, FS_Product
<1>2. g \in Surjection(S, T)
  BY DEF Surjection
<1>3. IsFiniteSet(Units(f, S))
  <2>1. IsFiniteSet(T)
    BY <1>2, FS_Surjection
  <2>2. \A U \in T : IsFiniteSet(U)
    BY <1>1
  <2> QED
    BY <2>1, <2>2, FS_UNION DEF Units
<1> QED
  BY <1>3, FS_CardinalityType

LEMMA UnitsInsert ==
    ASSUME NEW S, IsFiniteSet(S), NEW f, NEW x, x \notin S, \A k \in S \cup {x} : f[k] \in Nat
    PROVE  Cardinality(Units(f, S \cup {x})) = Cardinality(Units(f, S)) + f[x]
<1> DEFINE X == {x} \X (1 .. f[x])
<1>1. IsFiniteSet(Units(f, S)) /\ Cardinality(Units(f, S)) \in Nat
  BY UnitsAreFinite
<1>2. IsFiniteSet(X) /\ Cardinality(X) = f[x]
  <2>1. IsFiniteSet({x}) /\ Cardinality({x}) = 1
    BY FS_Singleton
  <2>2. f[x] \in Nat /\ IsFiniteSet(1 .. f[x]) /\ Cardinality(1 .. f[x]) = f[x]
    <3> DEFINE m == f[x]
    <3>1. m \in Nat /\ m \in Int /\ 1 \in Int
      OBVIOUS
    <3> HIDE DEF m
    <3>2. IsFiniteSet(1 .. m) /\ Cardinality(1 .. m) = IF 1 > m THEN 0 ELSE m - 1 + 1
      BY ONLY <3>1, FS_Interval
    <3>3. Cardinality(1 .. m) = m
      BY ONLY <3>1, <3>2
    <3> QED
      BY <3>1, <3>2, <3>3 DEF m
  <2> DEFINE I == 1 .. f[x]
  <2> HIDE DEF I
  <2>3. IsFiniteSet(I) /\ Cardinality(I) = f[x]
    BY <2>2 DEF I
  <2>4. IsFiniteSet({x} \X I) /\ Cardinality({x} \X I) = Cardinality({x}) * Cardinality(I)
    BY ONLY <2>1, <2>3, FS_Product
  <2>5. Cardinality({x} \X I) = 1 * f[x]
    BY <2>1, <2>3, <2>4
  <2> QED
    BY <2>2, <2>4, <2>5 DEF I
<1>3. Units(f, S \cup {x}) = Units(f, S) \cup X
  BY DEF Units
<1>4. Units(f, S) \cap X = {}
  BY DEF Units
<1> HIDE DEF X
<1>5. Cardinality(Units(f, S) \cup X) = Cardinality(Units(f, S)) + Cardinality(X) - Cardinality({})
  BY <1>1, <1>2, <1>4, FS_Union
<1>6. Cardinality({}) = 0 /\ f[x] \in Nat
  BY FS_EmptySet
<1>7. \A a, b \in Nat : a + b - 0 = a + b
  OBVIOUS
<1>8. Cardinality(Units(f, S) \cup X) = Cardinality(Units(f, S)) + f[x]
  BY <1>1, <1>2, <1>5, <1>6, <1>7
<1> QED
  BY <1>3, <1>8

(* The fold of the community modules, which defines a function on subsets  *)
(* by taking their elements away one by one: Units meets its equation, and *)
(* no other function does.                                                 *)
Pick(s) == CHOOSE x \in s : TRUE
Unfolds(f, S, g) ==
    g = [s \in SUBSET S |-> IF s = {} THEN 0 ELSE f[Pick(s)] + g[s \ {Pick(s)}]]

LEMMA SumIsUnits ==
    ASSUME NEW S, IsFiniteSet(S), NEW f, \A k \in S : f[k] \in Nat
    PROVE  SumFunctionOnSet(f, S) = Cardinality(Units(f, S))
<1> DEFINE u == [s \in SUBSET S |-> Cardinality(Units(f, s))]
           h == CHOOSE g : Unfolds(f, S, g)
<1>1. SumFunctionOnSet(f, S) = h[S]
  BY DEF SumFunctionOnSet, FoldFunctionOnSet, MapThenFoldSet, Pick, Unfolds
<1>2. Unfolds(f, S, u)
  <2>1. ASSUME NEW s \in SUBSET S
        PROVE  u[s] = IF s = {} THEN 0 ELSE f[Pick(s)] + u[s \ {Pick(s)}]
    <3>1. CASE s = {}
      <4>1. Units(f, {}) = {}
        BY DEF Units
      <4> QED
        BY <3>1, <4>1, FS_EmptySet
    <3>2. CASE s # {}
      <4> DEFINE x == Pick(s)
                 t == s \ {x}
      <4>1. x \in s
        BY <3>2 DEF Pick
      <4>2. IsFiniteSet(t) /\ t \in SUBSET S /\ s = t \cup {x} /\ x \notin t
        BY <4>1, FS_Subset
      <4> HIDE DEF x, t
      <4>3. Cardinality(Units(f, t \cup {x})) = Cardinality(Units(f, t)) + f[x]
        BY <4>1, <4>2, UnitsInsert
      <4>4. Cardinality(Units(f, t)) \in Nat /\ f[x] \in Nat
        BY <4>1, <4>2, UnitsAreFinite
      <4>5. u[s] = f[x] + u[t]
        BY <4>2, <4>3, <4>4
      <4> QED
        BY <3>2, <4>5 DEF x, t
    <3> QED
      BY <3>1, <3>2
  <2> QED
    BY <2>1 DEF Unfolds
<1>3. Unfolds(f, S, h)
  BY <1>2
<1> HIDE DEF u, h
<1>4. h[S] = u[S]
  <2> SUFFICES ASSUME h[S] # u[S] PROVE FALSE
    OBVIOUS
  <2> DEFINE Q == {s \in SUBSET S : h[s] # u[s]}
  <2>0. Q \in SUBSET (SUBSET S) /\ Q # {}
    OBVIOUS
  <2> HIDE DEF Q
  <2>1. PICK s \in Q : \A t \in Q : t \subseteq s => t = s
    BY <2>0, MinimalSubset
  <2> USE DEF Q
  <2>2. h[s] = (IF s = {} THEN 0 ELSE f[Pick(s)] + h[s \ {Pick(s)}])
    BY <1>3, <2>1 DEF Unfolds
  <2>3. u[s] = (IF s = {} THEN 0 ELSE f[Pick(s)] + u[s \ {Pick(s)}])
    BY <1>2, <2>1 DEF Unfolds
  <2>4. s # {} => Pick(s) \in s
    BY DEF Pick
  <2>5. s # {} => h[s \ {Pick(s)}] = u[s \ {Pick(s)}]
    BY <2>1, <2>4
  <2> QED
    BY <2>1, <2>2, <2>3, <2>5
<1> QED
  BY <1>1, <1>4 DEF u

LEMMA SumInsert ==
    ASSUME NEW S, IsFiniteSet(S), NEW f, NEW x, x \notin S, \A k \in S \cup {x} : f[k] \in Nat
    PROVE  /\ SumFunctionOnSet(f, S \cup {x}) = SumFunctionOnSet(f, S) + f[x]
           /\ SumFunctionOnSet(f, S) \in Nat
<1>1. IsFiniteSet(S \cup {x})
  BY FS_AddElement
<1>2. SumFunctionOnSet(f, S \cup {x}) = Cardinality(Units(f, S \cup {x}))
  BY <1>1, SumIsUnits
<1>3. SumFunctionOnSet(f, S) = Cardinality(Units(f, S)) /\ Cardinality(Units(f, S)) \in Nat
  BY SumIsUnits, UnitsAreFinite
<1>4. Cardinality(Units(f, S \cup {x})) = Cardinality(Units(f, S)) + f[x]
  BY UnitsInsert
<1> QED
  BY <1>2, <1>3, <1>4

LEMMA SumAgrees ==
    ASSUME NEW S, IsFiniteSet(S), NEW f, NEW g, \A k \in S : f[k] \in Nat /\ g[k] = f[k]
    PROVE  SumFunctionOnSet(f, S) = SumFunctionOnSet(g, S)
<1>1. Units(f, S) = Units(g, S)
  BY DEF Units
<1> QED
  BY <1>1, SumIsUnits

LEMMA SumOfNone == ASSUME NEW f PROVE SumFunctionOnSet(f, {}) = 0
<1>1. Units(f, {}) = {}
  BY DEF Units
<1> QED
  BY <1>1, SumIsUnits, FS_EmptySet

-----------------------------------------------------------------------------
(* The buckets of the histogram.                                           *)

LEMMA ConstantsType ==
    /\ Sub \in Nat /\ Sub > 0 /\ Binades \in Nat /\ Binades > 0
    /\ Overflow \in Nat /\ Overflow > 0
  BY HistogramAssumption DEF Overflow

(* A power of two is the number of subsets of as many elements, and half   *)
(* of the subsets have the last of them.                                   *)
LEMMA PowerCounts ==
    ASSUME NEW b \in Nat
    PROVE  IsFiniteSet(SUBSET (1 .. b)) /\ Cardinality(SUBSET (1 .. b)) = 2 ^ b
<1>1. IsFiniteSet(1 .. b) /\ Cardinality(1 .. b) = b
  BY FS_Interval
<1> QED
  BY <1>1, FS_SUBSET

LEMMA PowerGrows ==
    ASSUME NEW b \in Nat
    PROVE  2 ^ b \in Nat /\ 2 ^ b > 0 /\ 2 ^ (b + 1) = 2 * 2 ^ b
<1> DEFINE Old == SUBSET (1 .. b)
           New == {T \cup {b + 1} : T \in Old}
           f == [T \in Old |-> T \cup {b + 1}]
<1>1. IsFiniteSet(Old) /\ Cardinality(Old) = 2 ^ b
  BY PowerCounts
<1>2. Cardinality(SUBSET (1 .. b + 1)) = 2 ^ (b + 1)
  BY PowerCounts
<1>3. SUBSET (1 .. b + 1) = Old \cup New
  <2>1. 1 .. b + 1 = (1 .. b) \cup {b + 1}
    OBVIOUS
  <2>2. ASSUME NEW T \in SUBSET (1 .. b + 1) PROVE T \in Old \cup New
    <3>1. CASE b + 1 \in T
      <4>1. T \ {b + 1} \in Old /\ T = (T \ {b + 1}) \cup {b + 1}
        BY <2>1, <3>1
      <4> QED
        BY <4>1
    <3> QED
      BY <2>1, <3>1
  <2>3. ASSUME NEW T \in Old \cup New PROVE T \in SUBSET (1 .. b + 1)
    <3> HIDE DEF f
    <3>1. T \subseteq (1 .. b) \cup {b + 1}
      <4> QED BY <2>3, Zenon
    <3> QED
      BY <2>1, <3>1
  <2> QED
    BY <2>2, <2>3
<1>4. Old \cap New = {}
  <2>1. b + 1 \notin 1 .. b
    OBVIOUS
  <2> QED
    BY <2>1
<1>5. f \in Bijection(Old, New)
  <2>1. b + 1 \notin 1 .. b
    OBVIOUS
  <2>2. f \in Surjection(Old, New)
    BY DEF Surjection
  <2>3. ASSUME NEW T \in Old, NEW U \in Old, f[T] = f[U] PROVE T = U
    <3>1. T \cup {b + 1} = U \cup {b + 1} /\ b + 1 \notin T /\ b + 1 \notin U
      BY <2>1, <2>3
    <3>2. T = (T \cup {b + 1}) \ {b + 1} /\ U = (U \cup {b + 1}) \ {b + 1}
      BY <3>1
    <3> QED
      BY <3>1, <3>2
  <2>4. f \in Injection(Old, New)
    <3>1. f \in [Old -> New]
      OBVIOUS
    <3> HIDE DEF f, Old, New
    <3> QED
      BY <2>3, <3>1 DEF Injection, IsInjective
  <2> QED
    BY <2>2, <2>4 DEF Bijection
<1> HIDE DEF Old, New, f
<1>6. IsFiniteSet(New) /\ Cardinality(New) = Cardinality(Old)
  BY <1>1, <1>5, FS_Bijection DEF ExistsBijection
<1>7. Cardinality(Old \cup New) = Cardinality(Old) + Cardinality(New) - Cardinality(Old \cap New)
  BY <1>1, <1>6, FS_Union
<1>8. Cardinality(Old \cap New) = 0 /\ Cardinality(Old) \in Nat /\ Cardinality(Old) # 0
  <2>1. {} \in Old
    BY DEF Old
  <2> QED
    BY <1>1, <1>4, <2>1, FS_EmptySet, FS_CardinalityType
<1>9. \A x \in Nat : x + x - 0 = 2 * x
  OBVIOUS
<1>10. 2 ^ b \in Nat /\ 2 ^ b # 0
  BY <1>1, <1>8
<1>11. 2 ^ (b + 1) = 2 * 2 ^ b
  BY <1>1, <1>2, <1>3, <1>6, <1>7, <1>8, <1>9, <1>10
<1> QED
  BY <1>10, <1>11

LEMMA ProductsAreNatural == \A x, y \in Nat : x * y \in Nat
  OBVIOUS

LEMMA DivMod ==
    ASSUME NEW a \in Nat, NEW b \in Nat, b > 0
    PROVE  (a \div b) \in Nat /\ (a % b) \in 0 .. b - 1 /\ a = (a \div b) * b + (a % b)
  OBVIOUS

(* A bucket is as wide as its binade says.                                 *)
Width(g) == 2 ^ (g \div Sub)

LEMMA BucketType ==
    ASSUME NEW g \in Nat
    PROVE  /\ Width(g) \in Nat /\ Width(g) > 0
           /\ Lower(g) \in Nat /\ Upper(g) = Lower(g) + Width(g)
           /\ Sub * Width(g) <= Lower(g)
<1>1. (g \div Sub) \in Nat /\ (g % Sub) \in Nat
  BY ConstantsType, DivMod
<1>2. Width(g) \in Nat /\ Width(g) > 0
  BY <1>1, PowerGrows DEF Width
<1> DEFINE m == g % Sub
           w == Width(g)
<1>3. Lower(g) = (Sub + m) * w /\ Upper(g) = (Sub + m + 1) * w
  BY DEF Lower, Upper, Width
<1> HIDE DEF m, w
<1>4. \A x, y, z \in Nat : (x + y) * z = x * z + y * z /\ (x + y + 1) * z = x * z + y * z + z
  OBVIOUS
<1>5. m \in Nat /\ w \in Nat /\ Sub * w \in Nat /\ m * w \in Nat
  BY <1>1, <1>2, ConstantsType, ProductsAreNatural DEF m, w
<1>6. Lower(g) = Sub * w + m * w /\ Upper(g) = Sub * w + m * w + w
  BY <1>3, <1>4, <1>5, ConstantsType
<1> QED
  BY <1>2, <1>5, <1>6 DEF w

(* The buckets leave no gap.                                               *)
LEMMA BucketsMeet ==
    ASSUME NEW g \in Nat
    PROVE  Upper(g) = Lower(g + 1)
<1> DEFINE q == g \div Sub
           m == g % Sub
<1>1. q \in Nat /\ m \in 0 .. Sub - 1 /\ g = q * Sub + m
  BY ConstantsType, DivMod
<1> HIDE DEF q, m
<1>2. \A x, y, z, s \in Nat : s > 0 /\ x = z * s + y /\ y < s => x \div s = z /\ x % s = y
  OBVIOUS
<1>3. CASE m + 1 < Sub
  <2>1. g + 1 = q * Sub + (m + 1) /\ m + 1 \in Nat
    BY <1>1, <1>3, ConstantsType, ProductsAreNatural
  <2>2. (g + 1) \div Sub = q /\ (g + 1) % Sub = m + 1
    BY <1>1, <1>2, <1>3, <2>1, ConstantsType
  <2> QED
    BY <1>1, <2>2, ConstantsType DEF Lower, Upper, q, m
<1>4. CASE m + 1 = Sub
  <2>1. g + 1 = (q + 1) * Sub + 0
    <3>1. \A x, s \in Nat : (x + 1) * s = x * s + s
      OBVIOUS
    <3> QED
      BY <1>1, <1>4, <3>1, ConstantsType
  <2>2. (g + 1) \div Sub = q + 1 /\ (g + 1) % Sub = 0
    BY <1>1, <1>2, <2>1, ConstantsType
  <2>3. Lower(g + 1) = Sub * 2 ^ (q + 1)
    BY <2>2, ConstantsType DEF Lower
  <2>4. Upper(g) = (Sub + Sub) * 2 ^ q
    <3>1. Sub + m + 1 = Sub + Sub
      BY <1>1, <1>4, ConstantsType
    <3> QED
      BY <3>1 DEF Upper, q, m
  <2>5. \A x, w \in Nat : (x + x) * w = x * (2 * w)
    OBVIOUS
  <2> QED
    BY <1>1, <2>3, <2>4, <2>5, PowerGrows, ConstantsType
<1> QED
  BY <1>1, <1>3, <1>4, ConstantsType

LEMMA BucketsAscend ==
    ASSUME NEW g \in Nat, NEW i \in Nat, g < i
    PROVE  Upper(g) <= Lower(i)
<1> SUFFICES ASSUME ~ (Upper(g) <= Lower(i)) PROVE FALSE
  OBVIOUS
<1> DEFINE T == {k \in Nat : g < k /\ ~ (Upper(g) <= Lower(k))}
<1>1. T \in SUBSET Nat /\ T # {}
  OBVIOUS
<1> HIDE DEF T
<1>2. PICK k \in T : \A n \in T : k <= n
  BY <1>1, LeastNumber
<1>3. k \in Nat /\ g < k /\ ~ (Upper(g) <= Lower(k)) /\ k - 1 \in Nat /\ k - 1 \notin T
  BY <1>2 DEF T
<1>4. Upper(k - 1) = Lower(k) /\ Lower(k - 1) <= Upper(k - 1)
  BY <1>3, BucketsMeet, BucketType
<1>5. Upper(g) \in Nat /\ Lower(k) \in Nat /\ Lower(k - 1) \in Nat
  BY <1>3, BucketType
<1>6. CASE k - 1 = g
  BY <1>3, <1>4, <1>5, <1>6
<1>7. CASE k - 1 # g
  <2>1. g < k - 1
    BY <1>3, <1>7
  <2>2. Upper(g) <= Lower(k - 1)
    BY <1>3, <2>1 DEF T
  <2> QED
    BY <1>3, <1>4, <1>5, <2>2
<1> QED
  BY <1>6, <1>7

LEMMA CeilingIs == Ceiling = Lower(Overflow) /\ Ceiling \in Nat
<1>1. \A z, s \in Nat : s > 0 => (s * z) \div s = z /\ (s * z) % s = 0
  OBVIOUS
<1>2. Overflow \div Sub = Binades /\ Overflow % Sub = 0
  BY <1>1, ConstantsType DEF Overflow
<1>3. Lower(Overflow) = (Sub + 0) * 2 ^ Binades
  BY <1>2 DEF Lower
<1> QED
  BY <1>3, BucketType, ConstantsType DEF Ceiling

LEMMA LowestBucket == Lower(0) = Sub /\ Upper(0) = Sub + 1
<1>1. \A s \in Nat : s > 0 => 0 \div s = 0 /\ 0 % s = 0
  OBVIOUS
<1>2. 0 \div Sub = 0 /\ 0 % Sub = 0
  BY <1>1, ConstantsType
<1>3. 2 ^ 0 = 1
  OBVIOUS
<1>4. Lower(0) = (Sub + 0) * 1 /\ Upper(0) = (Sub + 0 + 1) * 1
  BY <1>2, <1>3 DEF Lower, Upper
<1> QED
  BY <1>4, ConstantsType

(* The bucket of a duration inside the range holds it.                     *)
LEMMA IndexHolds ==
    ASSUME NEW d \in Nat
    PROVE  /\ Index(d) \in 0 .. Overflow
           /\ d < Sub => Index(d) = 0
           /\ d >= Ceiling => d >= Sub /\ Index(d) = Overflow
           /\ Sub <= d /\ d < Ceiling =>
                 Index(d) < Overflow /\ Lower(Index(d)) <= d /\ d < Upper(Index(d))
<1>1. Ceiling >= Sub /\ Ceiling \in Nat
  BY CeilingIs, LowestBucket, BucketsAscend, BucketType, ConstantsType
<1>2. CASE d < Sub
  BY <1>1, <1>2, ConstantsType DEF Index
<1>3. CASE d >= Ceiling
  BY <1>1, <1>3, ConstantsType DEF Index
<1>4. CASE Sub <= d /\ d < Ceiling
  <2> DEFINE In(e) == Sub * 2 ^ e <= d /\ d < Sub * 2 ^ (e + 1)
             b == CHOOSE e \in 0 .. Binades - 1 : In(e)
             q == d \div 2 ^ b
  <2>1. \E e \in 0 .. Binades - 1 : In(e)
    <3> DEFINE T == {e \in Nat : d < Sub * 2 ^ e}
    <3>1. Binades \in T
      BY <1>4, ConstantsType DEF Ceiling
    <3> HIDE DEF T
    <3>2. PICK e \in T : \A n \in T : e <= n
      BY <3>1, LeastNumber DEF T
    <3>3. e \in Nat /\ d < Sub * 2 ^ e /\ e <= Binades
      BY <3>1, <3>2 DEF T
    <3>4. 2 ^ 0 = 1
      OBVIOUS
    <3>5. e # 0
      <4>1. e = 0 => Sub * 2 ^ e = Sub * 1
        BY <3>4
      <4> QED
        BY <1>4, <3>3, <4>1, ConstantsType
    <3>6. e - 1 \in 0 .. Binades - 1 /\ e - 1 + 1 = e /\ e - 1 \notin T
      BY <3>2, <3>3, <3>5, ConstantsType
    <3>7. 2 ^ (e - 1) \in Nat
      BY <3>6, PowerGrows
    <3>8. Sub * 2 ^ (e - 1) \in Nat
      BY <3>7, ConstantsType, ProductsAreNatural
    <3>9. Sub * 2 ^ (e - 1) <= d
      BY <3>6, <3>8 DEF T
    <3> QED
      BY <3>3, <3>6, <3>9
  <2>2. b \in 0 .. Binades - 1 /\ Sub * 2 ^ b <= d /\ d < Sub * 2 ^ (b + 1)
    BY <2>1
  <2>3. Index(d) = b * Sub + (q - Sub)
    <3>1. ~ (d < Sub) /\ ~ (d >= Ceiling)
      BY <1>1, <1>4, ConstantsType
    <3> QED
      BY <3>1, Zenon DEF Index
  <2> HIDE DEF b
  <2>4. b \in Nat /\ b <= Binades - 1
    BY <2>2, ConstantsType
  <2> DEFINE w == 2 ^ b
  <2>5. w \in Nat /\ w > 0 /\ Sub * w <= d /\ d < Sub * (2 * w)
    BY <2>2, <2>4, PowerGrows
  <2>6. q \in Nat /\ d < (q + 1) * w /\ q * w <= d
    <3>1. \A x, y \in Nat : y > 0 => (x \div y) \in Nat /\ (x \div y) * y <= x /\ x < (x \div y + 1) * y
      OBVIOUS
    <3> QED
      BY <2>5, <3>1
  <2> HIDE DEF q, w
  <2>7. Sub <= q /\ q < 2 * Sub
    <3>1. \A x, y, z \in Nat : x * z < y * z => x < y
      OBVIOUS
    <3>2. Sub * w \in Nat /\ (q + 1) * w \in Nat /\ q * w \in Nat /\ (2 * Sub) * w \in Nat
      BY <2>5, <2>6, ConstantsType, ProductsAreNatural
    <3>3. \A x, y \in Nat : x * (2 * y) = (2 * x) * y
      OBVIOUS
    <3>4. Sub * w < (q + 1) * w /\ q * w < (2 * Sub) * w
      BY <2>5, <2>6, <3>2, <3>3, ConstantsType
    <3>5. Sub < q + 1 /\ q < 2 * Sub
      BY <2>5, <2>6, <3>1, <3>4, ConstantsType
    <3> QED
      BY <2>6, <3>5, ConstantsType
  <2> DEFINE g == Index(d)
  <2>8. g = b * Sub + (q - Sub) /\ q - Sub \in Nat /\ q - Sub < Sub
    BY <2>3, <2>6, <2>7, ConstantsType
  <2> HIDE DEF g
  <2>9. g \in Nat /\ g \div Sub = b /\ g % Sub = q - Sub
    <3>1. \A z, s, y \in Nat : s > 0 /\ y < s => z * s + y \in Nat /\ (z * s + y) \div s = z /\ (z * s + y) % s = y
      OBVIOUS
    <3> QED
      BY <2>4, <2>8, <3>1, ConstantsType
  <2>10. g < Overflow
    <3>1. \A x, y, s \in Nat : x <= y => x * s <= y * s
      OBVIOUS
    <3>2. (b + 1) * Sub <= Binades * Sub /\ (b + 1) * Sub = b * Sub + Sub
      BY <2>4, <3>1, ConstantsType
    <3>3. b * Sub \in Nat /\ Overflow = Binades * Sub
      BY <2>4, ConstantsType, ProductsAreNatural DEF Overflow
    <3> QED
      BY <2>8, <3>2, <3>3, ConstantsType
  <2>11. Lower(g) = q * w /\ Upper(g) = (q + 1) * w
    BY <2>6, <2>9, ConstantsType DEF Lower, Upper, w
  <2> QED
    BY <1>1, <1>4, <2>6, <2>9, <2>10, <2>11, ConstantsType DEF g
<1> QED
  BY <1>1, <1>2, <1>3, <1>4, ConstantsType

(* A longer duration is in no earlier bucket.                              *)
LEMMA IndexAscends ==
    ASSUME NEW d \in Nat, NEW e \in Nat, d <= e
    PROVE  Index(d) <= Index(e)
<1>1. Index(d) \in 0 .. Overflow /\ Index(e) \in 0 .. Overflow /\ Sub \in Nat /\ Ceiling \in Nat
  BY IndexHolds, ConstantsType, CeilingIs
<1>2. CASE d < Sub
  BY <1>1, <1>2, IndexHolds, ConstantsType
<1>3. CASE e >= Ceiling
  BY <1>1, <1>3, IndexHolds, ConstantsType
<1>4. CASE Sub <= d /\ e < Ceiling
  <2> SUFFICES ASSUME Index(e) < Index(d) PROVE FALSE
    BY <1>1
  <2>1. Lower(Index(d)) <= d /\ e < Upper(Index(e))
    BY <1>1, <1>4, IndexHolds
  <2>2. Upper(Index(e)) <= Lower(Index(d))
    BY <1>1, BucketsAscend, ConstantsType
  <2>3. Lower(Index(d)) \in Nat /\ Upper(Index(e)) \in Nat
    BY <1>1, BucketType, ConstantsType
  <2> QED
    BY <2>1, <2>2, <2>3
<1> QED
  BY <1>1, <1>2, <1>3, <1>4

-----------------------------------------------------------------------------
(* The histogram of some values, and the nearest rank among them.          *)

Before(values, g) == {k \in DOMAIN values : Index(values[k]) < g}
UpTo(values, v) == {k \in DOMAIN values : values[k] <= v}
HistogramOf(h, values) ==
    /\ h.total = Cardinality(DOMAIN values)
    /\ h.counts \in [0 .. Overflow -> Nat]
    /\ \A g \in 0 .. Overflow :
          h.counts[g] = Cardinality({k \in DOMAIN values : Index(values[k]) = g})

LEMMA BelowGrows ==
    ASSUME NEW h, h.counts \in [0 .. Overflow -> Nat], NEW i \in 0 .. Overflow
    PROVE  Below(h, i + 1) = Below(h, i) + h.counts[i]
<1> DEFINE I == 0 .. i - 1
           f == h.counts
<1>1. i \in Nat /\ 0 .. i + 1 - 1 = I \cup {i} /\ i \notin I /\ I \cup {i} \subseteq 0 .. Overflow
  BY ConstantsType
<1>2. IsFiniteSet(I)
  <2>1. i - 1 \in Int
    BY <1>1
  <2> QED
    BY <2>1, FS_Interval
<1>3. Below(h, i) = SumFunctionOnSet(f, I)
  BY DEF Below
<1>4. Below(h, i + 1) = SumFunctionOnSet(f, 0 .. i + 1 - 1)
  BY DEF Below
<1>5. \A x \in I \cup {i} : f[x] \in Nat
  BY <1>1
<1> HIDE DEF I, f
<1>6. SumFunctionOnSet(f, I \cup {i}) = SumFunctionOnSet(f, I) + f[i]
  BY ONLY <1>1, <1>2, <1>5, SumInsert
<1> QED
  BY <1>1, <1>3, <1>4, <1>6 DEF f

LEMMA BelowCounts ==
    ASSUME NEW K, IsFiniteSet(K), NEW values \in [K -> Nat],
           NEW h, HistogramOf(h, values), NEW g \in 0 .. Overflow + 1
    PROVE  /\ Below(h, g) = Cardinality(Before(values, g))
           /\ IsFiniteSet(Before(values, g)) /\ Cardinality(Before(values, g)) \in Nat
<1> DEFINE OK(i) == Below(h, i) = Cardinality(Before(values, i))
           At(i) == {k \in K : Index(values[k]) = i}
<1>0. \A i : /\ IsFiniteSet(Before(values, i)) /\ Cardinality(Before(values, i)) \in Nat
             /\ IsFiniteSet(At(i)) /\ Cardinality(At(i)) \in Nat
  <2>1. \A i : Before(values, i) \in SUBSET K /\ At(i) \in SUBSET K
    BY DEF Before
  <2> QED
    BY <2>1, FS_Subset, FS_CardinalityType
<1>1. OK(0)
  <2>1. 0 .. 0 - 1 = {}
    OBVIOUS
  <2>2. Before(values, 0) = {}
    BY IndexHolds, ConstantsType DEF Before
  <2> QED
    BY <2>1, <2>2, SumOfNone, FS_EmptySet DEF Below
<1>2. ASSUME NEW i \in 0 .. Overflow, OK(i) PROVE OK(i + 1)
  <2>1. i \in Nat
    BY ConstantsType
  <2>5. Below(h, i + 1) = Below(h, i) + Cardinality(At(i))
    BY BelowGrows DEF HistogramOf
  <2>6. Before(values, i + 1) = Before(values, i) \cup At(i)
    <3>1. \A k \in K : Index(values[k]) \in Int
      BY IndexHolds, ConstantsType
    <3> QED
      BY <2>1, <3>1 DEF Before
  <2>7. Before(values, i) \cap At(i) = {}
    BY <2>1 DEF Before
  <2> DEFINE A == Before(values, i)
             B == At(i)
  <2>8. IsFiniteSet(A) /\ IsFiniteSet(B) /\ A \cap B = {} /\ Cardinality(A) \in Nat /\ Cardinality(B) \in Nat
    BY <1>0, <2>7
  <2> HIDE DEF A, B, At
  <2>9. Cardinality(A \cup B) = Cardinality(A) + Cardinality(B) - Cardinality({})
    BY <2>8, FS_Union
  <2>10. Cardinality(A \cup B) = Cardinality(A) + Cardinality(B)
    BY <2>8, <2>9, FS_EmptySet
  <2> QED
    BY <1>2, <2>5, <2>6, <2>10 DEF A, B
<1> HIDE DEF OK
<1>3. OK(g)
  <2> SUFFICES ASSUME ~ OK(g) PROVE FALSE
    OBVIOUS
  <2> DEFINE T == {i \in 0 .. Overflow + 1 : ~ OK(i)}
  <2>1. T \in SUBSET Nat /\ T # {}
    OBVIOUS
  <2> HIDE DEF T
  <2>2. PICK i \in T : \A j \in T : i <= j
    BY <2>1, LeastNumber
  <2>3. i \in 0 .. Overflow + 1 /\ i # 0 /\ ~ OK(i)
    BY <1>1, <2>2 DEF T
  <2>4. i - 1 \in 0 .. Overflow /\ i - 1 + 1 = i /\ i - 1 \notin T
    BY <2>2, <2>3, ConstantsType
  <2>5. OK(i - 1)
    BY <2>4, ConstantsType DEF T
  <2> QED
    BY <1>2, <2>3, <2>4, <2>5
<1> QED
  BY <1>0, <1>3 DEF OK

(* The nearest rank is a place in the sorted values, and it ascends.       *)
Thousandths == 1 .. 999

LEMMA RankType ==
    ASSUME NEW n \in Nat, n > 0, NEW p \in Thousandths
    PROVE  Rank(n, p) \in 1 .. n
<1> DEFINE a == n * p + 999
           k == a \div 1000
<1>1. \A x, y \in Nat : x <= 999 => x * y <= 999 * y /\ x * y \in Nat
  OBVIOUS
<1>2. n * p <= n * 999 /\ n * p \in Nat
  BY <1>1 DEF Thousandths
<1>3. a \in Nat /\ a < 1000 * n + 1000
  BY <1>2
<1> HIDE DEF a
<1>4. \A x, y \in Nat : x < 1000 * y + 1000 => (x \div 1000) \in 0 .. y
  OBVIOUS
<1>5. k \in 0 .. n
  BY <1>3, <1>4
<1> QED
  BY <1>5 DEF Rank, a

RanksAscend(n) == \A p, q \in Thousandths : p <= q => Rank(n, p) <= Rank(n, q)
LEMMA RankAscends ==
    ASSUME NEW n \in Nat, n > 0
    PROVE  RanksAscend(n)
<1> SUFFICES ASSUME NEW p \in Thousandths, NEW q \in Thousandths, p <= q
             PROVE  Rank(n, p) <= Rank(n, q)
  BY DEF RanksAscend
<1>0. p <= q
  OBVIOUS
<1>1. \A x, y, z \in Nat : x <= y => z * x <= z * y /\ z * x \in Nat /\ z * y \in Nat
  OBVIOUS
<1> DEFINE c == n * p
           d == n * q
<1>2. c <= d /\ c \in Nat /\ d \in Nat
  BY <1>0, <1>1 DEF Thousandths
<1> HIDE DEF c, d
<1>3. \A x, y \in Nat : x <= y => (x + 999) \div 1000 <= (y + 999) \div 1000
  OBVIOUS
<1>4. \A x \in Nat : (x + 999) \div 1000 \in Nat
  OBVIOUS
<1> DEFINE a == (c + 999) \div 1000
           b == (d + 999) \div 1000
<1>5. a \in Nat /\ b \in Nat /\ a <= b
  BY <1>2, <1>3, <1>4
<1> HIDE DEF a, b
<1> QED
  BY <1>5 DEF Rank, a, b, c, d

LEMMA GreatestValue ==
    ASSUME NEW K, IsFiniteSet(K), NEW values \in [K -> Nat], NEW S \in SUBSET K, S # {}
    PROVE  \E k \in S : \A i \in S : values[i] <= values[k]
<1> DEFINE W == {values[k] : k \in S}
           f == [k \in S |-> values[k]]
<1>1. IsFiniteSet(S)
  BY FS_Subset
<1>2. f \in Surjection(S, W)
  BY DEF Surjection
<1>3. IsFiniteSet(W)
  BY <1>1, <1>2, FS_Surjection
<1>4. W \in SUBSET Nat /\ W # {}
  OBVIOUS
<1>5. \E m \in W : \A n \in W : n <= m
  <2> HIDE DEF W
  <2> QED
    BY <1>3, <1>4, GreatestNumber
<1> QED
  BY <1>5

(* The value e at rank t of the values, and that it lies before a bucket   *)
(* exactly if t values do.                                                 *)
AtRank(values, e, t) ==
    /\ t \in 1 .. Cardinality(DOMAIN values)
    /\ e \in Nat /\ \E k \in DOMAIN values : values[k] = e
    /\ Cardinality(UpTo(values, e)) >= t
    /\ \A k \in DOMAIN values : Cardinality(UpTo(values, values[k])) >= t => e <= values[k]
    /\ \A g \in Nat : Cardinality(Before(values, g)) >= t <=> Index(e) < g

LEMMA ExactMeets ==
    ASSUME NEW K, IsFiniteSet(K), K # {}, NEW values \in [K -> Nat], NEW p \in Thousandths
    PROVE  AtRank(values, Exact(values, p), Rank(Cardinality(K), p))
<1> DEFINE e == Exact(values, p)
           t == Rank(Cardinality(K), p)
           E == {v \in Range(values) : Cardinality(UpTo(values, v)) >= t}
<1>1. Cardinality(K) \in Nat /\ Cardinality(K) > 0
  BY FS_EmptySet, FS_CardinalityType
<1>2. t \in 1 .. Cardinality(K)
  BY <1>1, RankType
<1>3. e = Min(E)
  <2>1. DOMAIN values = K /\ values # <<>>
    OBVIOUS
  <2> QED
    BY <2>1 DEF Exact, UpTo
<1> HIDE DEF e, t
<1>4. \A v : UpTo(values, v) \in SUBSET K /\ IsFiniteSet(UpTo(values, v)) /\ Cardinality(UpTo(values, v)) \in Nat
  <2>1. \A v : UpTo(values, v) \in SUBSET K
    BY DEF UpTo
  <2> QED
    BY <2>1, FS_Subset, FS_CardinalityType
<1>5. \A g : Before(values, g) \in SUBSET K /\ IsFiniteSet(Before(values, g)) /\ Cardinality(Before(values, g)) \in Nat
  <2>1. \A g : Before(values, g) \in SUBSET K
    BY DEF Before
  <2> QED
    BY <2>1, FS_Subset, FS_CardinalityType
<1>6. E \in SUBSET Nat /\ E # {}
  <2>1. PICK k \in K : \A i \in K : values[i] <= values[k]
    BY GreatestValue
  <2>2. UpTo(values, values[k]) = K
    BY <2>1 DEF UpTo
  <2>3. values[k] \in E
    BY <1>1, <1>2, <2>2 DEF Range
  <2> QED
    BY <2>3 DEF Range
<1>7. e \in E /\ \A v \in E : e <= v
  <2> HIDE DEF E
  <2> QED
    BY <1>3, <1>6, LeastMeets
<1>8. /\ e \in Nat /\ \E k \in K : values[k] = e
      /\ Cardinality(UpTo(values, e)) >= t
      /\ \A k \in K : Cardinality(UpTo(values, values[k])) >= t => e <= values[k]
  BY <1>6, <1>7 DEF Range
<1>9. ASSUME NEW g \in Nat, Index(e) < g PROVE Cardinality(Before(values, g)) >= t
  <2>1. UpTo(values, e) \subseteq Before(values, g)
    <3> SUFFICES ASSUME NEW k \in K, values[k] <= e PROVE Index(values[k]) < g
      BY DEF UpTo, Before
    <3>1. Index(values[k]) <= Index(e)
      BY <1>8, IndexAscends
    <3>2. Index(values[k]) \in Nat /\ Index(e) \in Nat
      BY <1>8, IndexHolds, ConstantsType
    <3> QED
      BY <1>9, <3>1, <3>2
  <2>2. Cardinality(UpTo(values, e)) <= Cardinality(Before(values, g))
    BY <1>5, <2>1, FS_Subset
  <2> QED
    BY <1>2, <1>4, <1>5, <1>8, <2>2
<1>10. ASSUME NEW g \in Nat, Cardinality(Before(values, g)) >= t PROVE Index(e) < g
  <2>1. Before(values, g) # {}
    BY <1>2, <1>10, FS_EmptySet
  <2>2. PICK k \in Before(values, g) : \A i \in Before(values, g) : values[i] <= values[k]
    BY <1>5, <2>1, GreatestValue
  <2>3. k \in K /\ Index(values[k]) < g /\ Before(values, g) \subseteq UpTo(values, values[k])
    BY <2>2 DEF Before, UpTo
  <2>4. Cardinality(Before(values, g)) <= Cardinality(UpTo(values, values[k]))
    BY <1>4, <2>3, FS_Subset
  <2>5. e <= values[k]
    BY <1>2, <1>4, <1>5, <1>8, <1>10, <2>3, <2>4
  <2>6. Index(e) <= Index(values[k])
    BY <1>8, <2>3, <2>5, IndexAscends
  <2>7. Index(values[k]) \in Nat /\ Index(e) \in Nat
    BY <1>8, <2>3, IndexHolds, ConstantsType
  <2> QED
    BY <2>3, <2>6, <2>7
<1> QED
  BY <1>2, <1>8, <1>9, <1>10 DEF AtRank, e, t

(* The first bucket that reaches the rank is the one of the value there.   *)
Bucket(values, p) == Index(Exact(values, p))
Place(values, p) ==
    Rank(Cardinality(DOMAIN values), p) - Cardinality(Before(values, Bucket(values, p)))
IsEstimate(h, values, p) ==
    LET g == Bucket(values, p)
        x == Place(values, p)
    IN  /\ g \in 0 .. Overflow
        /\ g = Overflow => Percentile(h, p) = Ceiling
        /\ g < Overflow => /\ x \in 1 .. h.counts[g] /\ h.counts[g] \in Nat
                          /\ Percentile(h, p) = Lower(g) + (x * Width(g)) \div h.counts[g]

LEMMA PercentileIs ==
    ASSUME NEW K, IsFiniteSet(K), K # {}, NEW values \in [K -> Nat], NEW p \in Thousandths,
           NEW h, HistogramOf(h, values)
    PROVE  IsEstimate(h, values, p)
<1> DEFINE e == Exact(values, p)
           g == Bucket(values, p)
           t == Rank(Cardinality(K), p)
           below == Cardinality(Before(values, g))
           Reaching == {x \in 0 .. Overflow - 1 : h.counts[x] > 0 /\ Below(h, x) + h.counts[x] >= t}
<1>0. e = Exact(values, p) /\ g = Index(e) /\ t = Rank(Cardinality(K), p)
  BY DEF Bucket
<1> HIDE DEF e, t, g
<1>1. /\ t \in 1 .. Cardinality(K) /\ e \in Nat /\ \E k \in K : values[k] = e
      /\ \A x \in Nat : Cardinality(Before(values, x)) >= t <=> g < x
  <2>1. AtRank(values, e, t)
    BY <1>0, ExactMeets
  <2> QED
    BY <1>0, <2>1 DEF AtRank
<1>2. Cardinality(K) \in Nat /\ h.total = Cardinality(K) /\ h.total # 0
  BY FS_EmptySet, FS_CardinalityType DEF HistogramOf
<1>3. Percentile(h, p) =
        IF Reaching = {} THEN Ceiling
        ELSE Lower(Min(Reaching))
             + ((t - Below(h, Min(Reaching))) * (Upper(Min(Reaching)) - Lower(Min(Reaching))))
                  \div h.counts[Min(Reaching)]
  BY <1>2 DEF Percentile, t
<1>4. g \in 0 .. Overflow
  BY <1>0, <1>1, IndexHolds
<1>5. ASSUME NEW x \in 0 .. Overflow - 1
      PROVE  /\ h.counts[x] \in Nat
             /\ Below(h, x) = Cardinality(Before(values, x)) /\ Below(h, x) \in Nat
             /\ Below(h, x) + h.counts[x] = Cardinality(Before(values, x + 1))
  <2>1. x \in 0 .. Overflow + 1 /\ x + 1 \in 0 .. Overflow + 1 /\ x \in 0 .. Overflow
    BY ConstantsType
  <2>2. h.counts[x] \in Nat
    <3> DEFINE q == h.counts
    <3>1. q \in [0 .. Overflow -> Nat]
      BY DEF HistogramOf
    <3> HIDE DEF q
    <3>2. q[x] \in Nat
      BY ONLY <2>1, <3>1
    <3> QED
      BY <3>2 DEF q
  <2>3. Below(h, x) = Cardinality(Before(values, x)) /\ Below(h, x) \in Nat
    BY <2>1, BelowCounts
  <2>4. Below(h, x + 1) = Cardinality(Before(values, x + 1))
    BY <2>1, BelowCounts
  <2>5. Below(h, x + 1) = Below(h, x) + h.counts[x]
    BY <2>1, BelowGrows DEF HistogramOf
  <2> QED
    BY <2>2, <2>3, <2>4, <2>5
<1>6. ASSUME NEW x \in 0 .. Overflow - 1 PROVE x \in Reaching <=> h.counts[x] > 0 /\ g <= x
  <2>1. x \in Nat /\ x + 1 \in Nat /\ g \in Nat
    BY <1>4, ConstantsType
  <2>2. Below(h, x) + h.counts[x] >= t <=> g < x + 1
    BY <1>1, <1>5, <2>1
  <2> QED
    BY <2>1, <2>2
<1>7. ASSUME g = Overflow PROVE Percentile(h, p) = Ceiling
  <2>1. Reaching = {}
    BY <1>6, <1>7, ConstantsType
  <2> QED
    BY <1>3, <1>7, <2>1, ConstantsType
<1>8. ASSUME g < Overflow
      PROVE  /\ t - below \in 1 .. h.counts[g] /\ h.counts[g] \in Nat
             /\ Percentile(h, p) = Lower(g) + ((t - below) * Width(g)) \div h.counts[g]
  <2>1. g \in 0 .. Overflow - 1 /\ g \in Nat
    BY <1>4, <1>8, ConstantsType
  <2>2. h.counts[g] > 0
    <3> DEFINE At == {k \in K : Index(values[k]) = g}
    <3>1. h.counts[g] = Cardinality(At)
      BY <1>4 DEF HistogramOf
    <3>2. At # {} /\ At \in SUBSET K
      BY <1>0, <1>1
    <3>3. IsFiniteSet(At)
      BY <3>2, FS_Subset
    <3> HIDE DEF At
    <3>4. Cardinality(At) \in Nat /\ Cardinality(At) # 0
      BY <3>2, <3>3, FS_EmptySet, FS_CardinalityType
    <3> QED
      BY <3>1, <3>4
  <2>3. g \in Reaching
    BY <1>6, <2>1, <2>2
  <2>4. Reaching \in SUBSET Nat /\ \A x \in Reaching : g <= x
    BY <1>6, ConstantsType
  <2> HIDE DEF Reaching
  <2>5. Min(Reaching) \in Reaching /\ \A x \in Reaching : Min(Reaching) <= x
    BY <2>3, <2>4, LeastMeets
  <2>6. Min(Reaching) = g
    <3>1. \A x, y \in Nat : x <= y /\ y <= x => x = y
      OBVIOUS
    <3> QED
      BY <2>1, <2>3, <2>4, <2>5, <3>1
  <2>7. Upper(g) - Lower(g) = Width(g)
    BY <2>1, BucketType
  <2>8. Percentile(h, p) = Lower(g) + ((t - below) * Width(g)) \div h.counts[g]
    BY <1>3, <1>5, <2>1, <2>3, <2>6, <2>7
  <2>9. below < t /\ t <= below + h.counts[g] /\ below \in Nat /\ h.counts[g] \in Nat /\ t \in Nat
    <3>1. ~ (below >= t)
      BY <1>1, <2>1
    <3>2. below + h.counts[g] >= t
      <4>1. g < g + 1 /\ g + 1 \in Nat
        BY <2>1
      <4> QED
        BY <1>1, <1>5, <2>1, <4>1
    <3>3. below \in Nat /\ h.counts[g] \in Nat /\ t \in Nat
      BY <1>1, <1>2, <1>5, <2>1
    <3> QED
      BY <3>1, <3>2, <3>3
  <2>10. t - below \in 1 .. h.counts[g]
    BY <2>9
  <2> QED
    BY <2>8, <2>9, <2>10
<1>9. Place(values, p) = t - below
  BY DEF Place, g, t
<1> QED
  BY <1>4, <1>7, <1>8, <1>9 DEF IsEstimate, g

(* The place inside the bucket stays inside, and ascends with the rank.    *)
LEMMA Interpolates ==
    ASSUME NEW w \in Nat, NEW c \in Nat, NEW x \in 1 .. c
    PROVE  /\ ((x * w) \div c) \in 0 .. w
           /\ \A y \in x .. c : (x * w) \div c <= (y * w) \div c
<1>1. \A a, b, d \in Nat : a <= b => a * d <= b * d /\ a * d \in Nat /\ b * d \in Nat
  OBVIOUS
<1>2. \A a, b \in Nat : b > 0 => (a \div b) \in Nat /\ (b * a) \div b = a
  OBVIOUS
<1>3. \A a, b, d \in Nat : d > 0 /\ a <= b => a \div d <= b \div d
  OBVIOUS
<1>4. c > 0 /\ x \in Nat /\ x <= c
  OBVIOUS
<1>5. (x * w) \div c <= (c * w) \div c /\ (c * w) \div c = w /\ ((x * w) \div c) \in Nat
  BY <1>1, <1>2, <1>3, <1>4
<1>6. ASSUME NEW y \in x .. c PROVE (x * w) \div c <= (y * w) \div c
  <2>1. y \in Nat /\ x <= y
    BY <1>4
  <2> QED
    BY <1>1, <1>3, <1>4, <2>1
<1> QED
  BY <1>5, <1>6

LEMMA NoneIsZero ==
    ASSUME NEW values \in [{} -> Nat], NEW h, HistogramOf(h, values), NEW p
    PROVE  Exact(values, p) = 0 /\ Percentile(h, p) = 0
<1>1. values = <<>>
  OBVIOUS
<1>2. h.total = 0
  BY FS_EmptySet DEF HistogramOf
<1> QED
  BY <1>1, <1>2 DEF Exact, Percentile

LEMMA PercentileInBucket ==
    ASSUME NEW values, NEW h, NEW p, IsEstimate(h, values, p), Bucket(values, p) < Overflow
    PROVE  Percentile(h, p) \in Lower(Bucket(values, p)) .. Upper(Bucket(values, p))
<1> DEFINE g == Bucket(values, p)
           x == Place(values, p)
           c == h.counts[g]
<1>1. g \in 0 .. Overflow /\ x \in 1 .. c /\ c \in Nat /\ Percentile(h, p) = Lower(g) + (x * Width(g)) \div c
  BY DEF IsEstimate
<1>2. g \in Nat
  BY <1>1, ConstantsType
<1> HIDE DEF x, c, g
<1>3. Width(g) \in Nat /\ Lower(g) \in Nat /\ Upper(g) = Lower(g) + Width(g)
  BY <1>2, BucketType
<1>4. ((x * Width(g)) \div c) \in 0 .. Width(g)
  BY <1>1, <1>3, Interpolates
<1>5. Percentile(h, p) \in Lower(g) .. Upper(g)
  BY <1>1, <1>3, <1>4
<1> QED
  BY <1>5 DEF g

(* The estimate of the histogram next to the true value at the rank.       *)
Observed(h, values, K) == IsFiniteSet(K) /\ values \in [K -> Nat] /\ HistogramOf(h, values)

LEMMA PercentileIsClose ==
    ASSUME NEW K, NEW values, NEW h, Observed(h, values, K), NEW p \in Thousandths
    PROVE  Close(Percentile(h, p), Exact(values, p))
<1>0. IsFiniteSet(K) /\ values \in [K -> Nat] /\ HistogramOf(h, values)
  BY DEF Observed
<1> USE <1>0
<1>1. CASE K = {}
  <2>1. Exact(values, p) = 0 /\ Percentile(h, p) = 0
    BY <1>1, NoneIsZero
  <2> QED
    BY <2>1 DEF Close
<1>2. CASE K # {}
  <2> DEFINE e == Exact(values, p)
             g == Index(e)
             o == Percentile(h, p)
  <2>0. IsEstimate(h, values, p)
    BY <1>2, PercentileIs
  <2>1. e \in Nat
    BY <1>2, ExactMeets DEF AtRank
  <2>2. Ceiling \in Nat /\ Sub \in Nat /\ Overflow > 0 /\ Overflow \in Nat
    BY CeilingIs, ConstantsType
  <2>3. g < Overflow => o \in Lower(g) .. Upper(g)
    BY <2>0, PercentileInBucket DEF Bucket
  <2>4. g = Overflow => o = Ceiling
    BY <2>0 DEF IsEstimate, Bucket
  <2> HIDE DEF e, o
  <2>5. CASE e < Sub
    <3>1. g = 0
      BY <2>1, <2>5, IndexHolds
    <3> QED
      BY <2>2, <2>3, <2>5, <3>1 DEF Close, e, o
  <2>6. CASE e >= Ceiling
    <3>1. g = Overflow
      BY <2>1, <2>6, IndexHolds
    <3> QED
      BY <2>4, <2>6, <3>1 DEF Close, e, o
  <2>7. CASE e \in Sub .. Ceiling - 1
    <3>1. g \in Nat /\ g < Overflow /\ Lower(g) <= e /\ e < Upper(g)
      BY <2>1, <2>2, <2>7, IndexHolds
    <3> HIDE DEF g
    <3> DEFINE w == Width(g)
               l == Lower(g)
               z == o - e
    <3>2. w \in Nat /\ l \in Nat /\ Upper(g) = l + w /\ Sub * w <= l /\ Sub * w \in Nat
      BY <2>2, <3>1, BucketType, ProductsAreNatural
    <3>3. o \in l .. l + w
      BY <2>3, <3>1, <3>2
    <3> HIDE DEF l, w
    <3>4. z \in Int /\ z <= w /\ -w <= z
      BY <2>1, <3>1, <3>2, <3>3 DEF l
    <3>5. \A s, x \in Nat, y \in Int : y <= x /\ -x <= y => s * y <= s * x /\ -(s * x) <= s * y /\ s * y \in Int
      <4>1. \A s, x \in Nat, y \in Int : y <= x => s * y <= s * x
        OBVIOUS
      <4>2. \A s, x \in Nat, y \in Int : -x <= y => -(s * x) <= s * y
        OBVIOUS
      <4> QED
        BY <4>1, <4>2
    <3> HIDE DEF z
    <3>6. Sub * z <= Sub * w /\ -(Sub * w) <= Sub * z /\ Sub * z \in Int
      BY <2>2, <3>2, <3>4, <3>5
    <3>7. Sub * w <= e
      BY <2>1, <3>1, <3>2 DEF l
    <3> DEFINE a == Sub * w
               b == Sub * z
    <3>8. a \in Nat /\ b \in Int /\ a <= e /\ b <= a /\ -a <= b
      BY <3>2, <3>6, <3>7
    <3> HIDE DEF a, b
    <3>9. b \in -e .. e
      BY <2>1, <3>8
    <3> QED
      BY <2>7, <3>9 DEF Close, b, z, e, o
  <2> QED
    BY <2>1, <2>2, <2>5, <2>6, <2>7
<1> QED
  BY <1>1, <1>2

(* A higher percentile is not reported as less than a lower one.           *)
Ascending(h) == \A p, q \in Thousandths : p <= q => Percentile(h, p) <= Percentile(h, q)

LEMMA PercentileAscends ==
    ASSUME NEW K, NEW values, NEW h, Observed(h, values, K)
    PROVE  Ascending(h)
<1> SUFFICES ASSUME NEW p \in Thousandths, NEW q \in Thousandths, p <= q
             PROVE  Percentile(h, p) <= Percentile(h, q)
  BY DEF Ascending
<1>0. IsFiniteSet(K) /\ values \in [K -> Nat] /\ HistogramOf(h, values) /\ p <= q
  BY DEF Observed
<1> USE <1>0
<1>1. CASE K = {}
  <2>1. Percentile(h, p) = 0 /\ Percentile(h, q) = 0
    BY <1>1, NoneIsZero
  <2> QED
    BY <2>1
<1>2. CASE K # {}
  <2> DEFINE n == Cardinality(K)
             d == Exact(values, p)
             e == Exact(values, q)
             f == Index(d)
             g == Index(e)
  <2>1. n \in Nat /\ n > 0
    BY <1>2, FS_EmptySet, FS_CardinalityType
  <2>2. AtRank(values, d, Rank(n, p)) /\ AtRank(values, e, Rank(n, q))
    <3>1. AtRank(values, d, Rank(n, p))
      BY <1>2, ExactMeets
    <3>2. AtRank(values, e, Rank(n, q))
      BY <1>2, ExactMeets
    <3> QED
      BY <3>1, <3>2
  <2>3. Rank(n, p) <= Rank(n, q)
    <3>1. RanksAscend(n)
      BY <2>1, RankAscends
    <3> HIDE DEF n
    <3> QED
      BY <3>1 DEF RanksAscend
  <2>4. d \in Nat /\ e \in Nat /\ d <= e
    <3>1. PICK k \in K : values[k] = e
      BY <2>2 DEF AtRank
    <3>2. IsFiniteSet(UpTo(values, e))
      <4>1. UpTo(values, e) \in SUBSET K
        BY DEF UpTo
      <4> QED
        BY <4>1, FS_Subset
    <3>3. Cardinality(UpTo(values, e)) \in Nat
      BY <3>2, FS_CardinalityType
    <3>4. Rank(n, p) \in Nat /\ Rank(n, q) \in Nat /\ Cardinality(UpTo(values, e)) >= Rank(n, q)
      BY <2>1, <2>2 DEF AtRank
    <3>5. Cardinality(UpTo(values, values[k])) >= Rank(n, p)
      BY <2>3, <3>1, <3>3, <3>4
    <3> QED
      BY <2>2, <3>1, <3>5 DEF AtRank
  <2> HIDE DEF d, e
  <2>5. f <= g /\ f \in 0 .. Overflow /\ g \in 0 .. Overflow
    BY <2>4, IndexHolds, IndexAscends
  <2>6. f \in Nat /\ g \in Nat /\ Overflow \in Nat
    BY <2>5, ConstantsType
  <2>a. f = Bucket(values, p) /\ g = Bucket(values, q)
    BY DEF Bucket, d, e
  <2>b. IsEstimate(h, values, p)
    BY <1>2, PercentileIs
  <2>c. IsEstimate(h, values, q)
    BY <1>2, PercentileIs
  <2> HIDE DEF f, g
  <2>d. f < Overflow => Percentile(h, p) \in Lower(f) .. Upper(f)
    <3>1. ASSUME Bucket(values, p) < Overflow
          PROVE  Percentile(h, p) \in Lower(Bucket(values, p)) .. Upper(Bucket(values, p))
      BY <2>b, <3>1, PercentileInBucket
    <3> QED
      BY <2>a, <3>1
  <2>e. g < Overflow => Percentile(h, q) \in Lower(g) .. Upper(g)
    <3>1. ASSUME Bucket(values, q) < Overflow
          PROVE  Percentile(h, q) \in Lower(Bucket(values, q)) .. Upper(Bucket(values, q))
      BY <2>c, <3>1, PercentileInBucket
    <3> QED
      BY <2>a, <3>1
  <2>7. /\ f < Overflow => Percentile(h, p) \in Lower(f) .. Upper(f)
        /\ g < Overflow => Percentile(h, q) \in Lower(g) .. Upper(g)
    BY <2>d, <2>e
  <2>8. /\ f = Overflow => Percentile(h, p) = Ceiling
        /\ g = Overflow => Percentile(h, q) = Ceiling
    BY <2>a, <2>b, <2>c DEF IsEstimate
  <2>9. CASE f = Overflow
    <3>1. g = Overflow
      BY <2>5, <2>6, <2>9
    <3> QED
      BY <2>8, <2>9, <3>1, CeilingIs
  <2>10. CASE f < g
    <3>1. Upper(f) <= Lower(g) /\ Upper(f) \in Nat /\ Lower(g) \in Nat /\ Lower(f) \in Nat
      BY <2>6, <2>10, BucketsAscend, BucketType
    <3>2. Percentile(h, p) \in Lower(f) .. Upper(f)
      BY <2>5, <2>6, <2>7, <2>10
    <3>3. Percentile(h, q) \in Nat /\ Lower(g) <= Percentile(h, q)
      <4>1. CASE g = Overflow
        BY <2>8, <3>1, <4>1, CeilingIs
      <4>2. CASE g < Overflow
        <5>1. Upper(g) \in Nat
          BY <2>6, BucketType
        <5> QED
          BY <2>7, <3>1, <4>2, <5>1
      <4> QED
        BY <2>5, <2>6, <4>1, <4>2
    <3> QED
      BY <3>1, <3>2, <3>3
  <2>11. CASE f = g /\ g < Overflow
    <3> DEFINE below == Cardinality(Before(values, g))
               c == h.counts[g]
               x == Rank(n, p) - below
               y == Rank(n, q) - below
    <3>1. x = Place(values, p) /\ y = Place(values, q)
      BY <2>11, <2>a DEF Place
    <3>2. c \in Nat /\ x \in 1 .. c /\ Percentile(h, p) = Lower(g) + (x * Width(g)) \div c
      BY <2>11, <2>a, <2>b, <3>1 DEF IsEstimate
    <3>3. y \in 1 .. c /\ Percentile(h, q) = Lower(g) + (y * Width(g)) \div c
      BY <2>11, <2>a, <2>c, <3>1 DEF IsEstimate
    <3>4. x <= y
      <4>1. below \in Nat
        BY <2>5, ConstantsType, BelowCounts
      <4>2. Rank(n, p) \in Nat /\ Rank(n, q) \in Nat
        BY <2>1, <2>2 DEF AtRank
      <4> HIDE DEF below
      <4> QED
        BY <2>3, <4>1, <4>2
    <3> HIDE DEF x, y, c
    <3>5. y \in x .. c
      BY <3>2, <3>3, <3>4
    <3>6. Width(g) \in Nat /\ Lower(g) \in Nat
      BY <2>6, BucketType
    <3>7. (x * Width(g)) \div c <= (y * Width(g)) \div c
      BY <3>2, <3>5, <3>6, Interpolates
    <3>8. ((x * Width(g)) \div c) \in 0 .. Width(g)
      BY <3>2, <3>6, Interpolates
    <3>9. ((y * Width(g)) \div c) \in 0 .. Width(g)
      BY <3>2, <3>3, <3>6, Interpolates
    <3> QED
      BY <3>2, <3>3, <3>6, <3>7, <3>8, <3>9
  <2> QED
    BY <2>5, <2>6, <2>9, <2>10, <2>11
<1> QED
  BY <1>1, <1>2

-----------------------------------------------------------------------------
(* The collector.                                                          *)

Histogram == [counts : [0 .. Overflow -> Nat], total : Nat]
CollectorType ==
    [count : Nat, successCount : Nat, failCount : Nat,
     totalDuration : Nat, minDuration : Nat, maxDuration : Nat, firstResult : BOOLEAN,
     statusCodes : [StatusCode -> Nat], errors : Seq(Nat),
     hist : Histogram, ttfbTotal : Nat, ttfbCount : Nat, ttfbHist : Histogram]
TypeInv == collector \in CollectorType /\ results \in Seq(Result)

LEMMA ResultFields ==
    ASSUME NEW r \in Result
    PROVE  /\ r.error \in BOOLEAN /\ r.duration \in Nat /\ r.ttfb \in Nat
           /\ ~ r.error => r.status \in StatusCode /\ r.status \in Nat
<1>1. CASE r \in Response
  <2>1. r.error = FALSE /\ r.duration \in Duration /\ r.ttfb \in TTFB /\ r.status \in StatusCode
    BY <1>1 DEF Response
  <2> QED BY <2>1, CollectorAssumption
<1>2. CASE r = Failure
  BY <1>2 DEF Failure
<1> QED BY <1>1, <1>2 DEF Result

LEMMA ObserveType ==
    ASSUME NEW h \in Histogram, NEW d \in Nat
    PROVE  Observe(h, d) \in Histogram
<1> DEFINE q == h.counts
           i == Index(d)
           f == [q EXCEPT ![i] = @ + 1]
<1>1. h.counts \in [0 .. Overflow -> Nat] /\ h.total + 1 \in Nat
  BY DEF Histogram
<1>2. f \in [0 .. Overflow -> Nat]
  <2>1. q \in [0 .. Overflow -> Nat] /\ i \in 0 .. Overflow
    BY <1>1, IndexHolds
  <2> HIDE DEF q, i
  <2> QED
    BY <2>1
<1>3. Observe(h, d) = [counts |-> f, total |-> h.total + 1]
  BY DEF Observe
<1> HIDE DEF f
<1> QED
  BY <1>1, <1>2, <1>3 DEF Histogram

(* What Add leaves in each counter: n is c with one result more.           *)
ErrorAdded(c, id, n) ==
    /\ n \in CollectorType
    /\ n.count = c.count + 1 /\ n.failCount = c.failCount + 1
    /\ n.errors = IF Len(c.errors) < MaxStoredErrors THEN Append(c.errors, id) ELSE c.errors
    /\ n.successCount = c.successCount /\ n.totalDuration = c.totalDuration
    /\ n.minDuration = c.minDuration /\ n.maxDuration = c.maxDuration
    /\ n.firstResult = c.firstResult /\ n.statusCodes = c.statusCodes
    /\ n.hist = c.hist /\ n.ttfbHist = c.ttfbHist
    /\ n.ttfbTotal = c.ttfbTotal /\ n.ttfbCount = c.ttfbCount
ResponseAdded(c, r, n) ==
    /\ n \in CollectorType
    /\ n.count = c.count + 1 /\ n.errors = c.errors
    /\ n.successCount = (IF Good(r.status) THEN c.successCount + 1 ELSE c.successCount)
    /\ n.failCount = (IF Good(r.status) THEN c.failCount ELSE c.failCount + 1)
    /\ n.statusCodes = [c.statusCodes EXCEPT ![r.status] = @ + 1]
    /\ n.totalDuration = c.totalDuration + r.duration
    /\ n.hist = Observe(c.hist, r.duration)
    /\ n.firstResult = FALSE
    /\ n.minDuration = (IF c.firstResult THEN r.duration ELSE Lesser(c.minDuration, r.duration))
    /\ n.maxDuration = (IF c.firstResult THEN r.duration ELSE Greater(c.maxDuration, r.duration))
    /\ IF r.ttfb = 0
       THEN n.ttfbHist = c.ttfbHist /\ n.ttfbTotal = c.ttfbTotal /\ n.ttfbCount = c.ttfbCount
       ELSE /\ n.ttfbHist = Observe(c.ttfbHist, r.ttfb)
            /\ n.ttfbTotal = c.ttfbTotal + r.ttfb /\ n.ttfbCount = c.ttfbCount + 1

LEMMA ErrorAdds ==
    ASSUME NEW c \in CollectorType, NEW id \in Nat
    PROVE  ErrorAdded(c, id, AddError(c, id))
<1> DEFINE n == AddError(c, id)
<1>1. c.errors \in Seq(Nat)
  BY DEF CollectorType
<1> DEFINE e == IF Len(c.errors) < MaxStoredErrors THEN Append(c.errors, id) ELSE c.errors
           x == c.count + 1
           y == c.failCount + 1
<1>2. e \in Seq(Nat) /\ x \in Nat /\ y \in Nat
  BY <1>1 DEF CollectorType
<1>3. n = [c EXCEPT !.count = x, !.failCount = y, !.errors = e]
  BY Zenon DEF AddError
<1> HIDE DEF e, x, y, n
<1>4. n \in CollectorType
  BY <1>2, <1>3 DEF CollectorType
<1>5. n.errors = e /\ n.count = x /\ n.failCount = y
  BY <1>2, <1>3 DEF CollectorType
<1>6. /\ n.successCount = c.successCount /\ n.totalDuration = c.totalDuration
      /\ n.minDuration = c.minDuration /\ n.maxDuration = c.maxDuration
      /\ n.firstResult = c.firstResult /\ n.statusCodes = c.statusCodes
      /\ n.hist = c.hist /\ n.ttfbHist = c.ttfbHist
      /\ n.ttfbTotal = c.ttfbTotal /\ n.ttfbCount = c.ttfbCount
  BY <1>2, <1>3 DEF CollectorType
<1>7. ErrorAdded(c, id, n)
  BY <1>4, <1>5, <1>6 DEF ErrorAdded, e, x, y
<1> QED
  BY <1>7 DEF n

LEMMA ResponseAdds ==
    ASSUME NEW c \in CollectorType, NEW r \in Result, ~ r.error
    PROVE  ResponseAdded(c, r, AddResponse(c, r))
<1> DEFINE n == AddResponse(c, r)
<1> DEFINE count == c.count + 1
           codes == [c.statusCodes EXCEPT ![r.status] = @ + 1]
           good == IF Good(r.status) THEN c.successCount + 1 ELSE c.successCount
           bad == IF Good(r.status) THEN c.failCount ELSE c.failCount + 1
           total == c.totalDuration + r.duration
           hist == Observe(c.hist, r.duration)
           counted == [c EXCEPT !.count = count, !.statusCodes = codes, !.successCount = good,
                                !.failCount = bad, !.totalDuration = total, !.hist = hist]
           timed == AddTTFB(counted, r.ttfb)
<1>1. r.duration \in Nat /\ r.ttfb \in Nat /\ r.status \in StatusCode
  BY ResultFields
<1>2. hist \in Histogram /\ count \in Nat /\ good \in Nat /\ bad \in Nat /\ total \in Nat
  <2>1. /\ c.count \in Nat /\ c.successCount \in Nat /\ c.failCount \in Nat
        /\ c.totalDuration \in Nat /\ c.hist \in Histogram
    BY DEF CollectorType
  <2>2. hist \in Histogram
    BY <1>1, <2>1, ObserveType
  <2>3. count \in Nat /\ good \in Nat /\ bad \in Nat /\ total \in Nat
    BY <1>1, <2>1
  <2> QED
    BY <2>2, <2>3
<1>3. codes \in [StatusCode -> Nat]
  <2> DEFINE q == c.statusCodes
  <2>1. q \in [StatusCode -> Nat]
    BY DEF CollectorType
  <2> HIDE DEF q
  <2>2. [q EXCEPT ![r.status] = @ + 1] \in [StatusCode -> Nat]
    BY <1>1, <2>1
  <2> QED
    BY <2>2 DEF q
<1>4. n = Extremes(timed, r.duration)
  BY Zenon DEF AddResponse
<1> HIDE DEF count, codes, good, bad, total, hist, n
<1>5. /\ counted \in CollectorType
      /\ counted.count = count /\ counted.errors = c.errors
      /\ counted.successCount = good /\ counted.failCount = bad
      /\ counted.statusCodes = codes
      /\ counted.totalDuration = total
      /\ counted.hist = hist
      /\ counted.firstResult = c.firstResult
      /\ counted.minDuration = c.minDuration /\ counted.maxDuration = c.maxDuration
      /\ counted.ttfbHist = c.ttfbHist /\ counted.ttfbTotal = c.ttfbTotal
      /\ counted.ttfbCount = c.ttfbCount
  BY <1>1, <1>2, <1>3 DEF CollectorType
<1> HIDE DEF counted
<1>6. /\ timed \in CollectorType
      /\ timed.count = counted.count /\ timed.errors = counted.errors
      /\ timed.successCount = counted.successCount /\ timed.failCount = counted.failCount
      /\ timed.statusCodes = counted.statusCodes /\ timed.totalDuration = counted.totalDuration
      /\ timed.hist = counted.hist /\ timed.firstResult = counted.firstResult
      /\ timed.minDuration = counted.minDuration /\ timed.maxDuration = counted.maxDuration
      /\ IF r.ttfb = 0
         THEN timed.ttfbHist = counted.ttfbHist /\ timed.ttfbTotal = counted.ttfbTotal
              /\ timed.ttfbCount = counted.ttfbCount
         ELSE /\ timed.ttfbHist = Observe(counted.ttfbHist, r.ttfb)
              /\ timed.ttfbTotal = counted.ttfbTotal + r.ttfb
              /\ timed.ttfbCount = counted.ttfbCount + 1
  <2>1. CASE r.ttfb = 0
    <3>1. timed = counted
      BY <2>1 DEF AddTTFB
    <3> QED
      BY <1>5, <2>1, <3>1
  <2>2. CASE r.ttfb # 0
    <3> DEFINE a == counted.ttfbTotal + r.ttfb
               b == counted.ttfbCount + 1
               h == Observe(counted.ttfbHist, r.ttfb)
    <3>1. a \in Nat /\ b \in Nat /\ h \in Histogram
      <4>1. counted.ttfbTotal \in Nat /\ counted.ttfbCount \in Nat /\ counted.ttfbHist \in Histogram
        BY <1>5 DEF CollectorType
      <4> QED
        BY <1>1, <4>1, ObserveType
    <3>2. timed = [counted EXCEPT !.ttfbTotal = a, !.ttfbCount = b, !.ttfbHist = h]
      BY <2>2, Zenon DEF AddTTFB
    <3> HIDE DEF a, b, h, timed
    <3>3. timed \in CollectorType
      BY <1>5, <3>1, <3>2 DEF CollectorType
    <3>4. timed.ttfbTotal = a /\ timed.ttfbCount = b /\ timed.ttfbHist = h
      BY <1>5, <3>1, <3>2 DEF CollectorType
    <3>5. /\ timed.count = counted.count /\ timed.errors = counted.errors
          /\ timed.successCount = counted.successCount /\ timed.failCount = counted.failCount
          /\ timed.statusCodes = counted.statusCodes /\ timed.totalDuration = counted.totalDuration
          /\ timed.hist = counted.hist /\ timed.firstResult = counted.firstResult
          /\ timed.minDuration = counted.minDuration /\ timed.maxDuration = counted.maxDuration
      BY <1>5, <3>1, <3>2 DEF CollectorType
    <3> QED
      BY <2>2, <3>3, <3>4, <3>5 DEF a, b, h
  <2> QED
    BY <2>1, <2>2
<1> HIDE DEF timed
<1> DEFINE min == IF timed.firstResult THEN r.duration ELSE Lesser(timed.minDuration, r.duration)
           max == IF timed.firstResult THEN r.duration ELSE Greater(timed.maxDuration, r.duration)
<1>7. min \in Nat /\ max \in Nat
  BY <1>1, <1>6 DEF Lesser, Greater, CollectorType
<1>8. n = [timed EXCEPT !.minDuration = min, !.maxDuration = max, !.firstResult = FALSE]
  BY <1>4, Zenon DEF Extremes
<1> HIDE DEF min, max
<1>9. n \in CollectorType
  BY <1>6, <1>7, <1>8 DEF CollectorType
<1>10. /\ n.count = timed.count /\ n.errors = timed.errors
       /\ n.successCount = timed.successCount /\ n.failCount = timed.failCount
       /\ n.statusCodes = timed.statusCodes /\ n.totalDuration = timed.totalDuration
       /\ n.hist = timed.hist /\ n.firstResult = FALSE
       /\ n.minDuration = min /\ n.maxDuration = max
       /\ n.ttfbHist = timed.ttfbHist /\ n.ttfbTotal = timed.ttfbTotal /\ n.ttfbCount = timed.ttfbCount
  BY <1>6, <1>7, <1>8 DEF CollectorType
<1>11. min = (IF c.firstResult THEN r.duration ELSE Lesser(c.minDuration, r.duration))
  BY <1>5, <1>6 DEF min
<1>12. max = (IF c.firstResult THEN r.duration ELSE Greater(c.maxDuration, r.duration))
  BY <1>5, <1>6 DEF max
<1>13. ResponseAdded(c, r, n)
  BY <1>5, <1>6, <1>9, <1>10, <1>11, <1>12 DEF ResponseAdded, count, codes, good, bad, total, hist
<1> QED
  BY <1>13 DEF n

-----------------------------------------------------------------------------
(* What the counters are of the results rs.                                *)

Failures(rs) == {k \in DOMAIN rs : rs[k].error}
Responses(rs) == DOMAIN rs \ Failures(rs)
GoodOnes(rs) == {k \in Responses(rs) : Good(rs[k].status)}
Coded(rs, s) == {k \in Responses(rs) : rs[k].status = s}
Durations(rs) == [k \in Responses(rs) |-> rs[k].duration]
Timed(rs) == {k \in Responses(rs) : rs[k].ttfb > 0}
Ttfs(rs) == [k \in Timed(rs) |-> rs[k].ttfb]

Counts(c, rs) ==
    /\ c.count = Len(rs)
    /\ c.successCount = Cardinality(GoodOnes(rs))
    /\ c.failCount = Len(rs) - Cardinality(GoodOnes(rs))
    /\ \A s \in StatusCode : c.statusCodes[s] = Cardinality(Coded(rs, s))
Tracks(c, rs) ==
    /\ HistogramOf(c.hist, Durations(rs)) /\ c.totalDuration = SumFunction(Durations(rs))
    /\ HistogramOf(c.ttfbHist, Ttfs(rs)) /\ c.ttfbTotal = SumFunction(Ttfs(rs))
    /\ c.ttfbCount = Cardinality(Timed(rs))
Extremal(c, rs) ==
    /\ c.firstResult <=> Responses(rs) = {}
    /\ c.firstResult => c.minDuration = 0 /\ c.maxDuration = 0
    /\ ~ c.firstResult =>
          /\ \E k \in Responses(rs) : c.minDuration = rs[k].duration
          /\ \E k \in Responses(rs) : c.maxDuration = rs[k].duration
          /\ \A k \in Responses(rs) : c.minDuration <= rs[k].duration /\ rs[k].duration <= c.maxDuration
(* The i-th error kept is the one with i failures up to it.                *)
Keeps(c, rs) ==
    /\ Len(c.errors) = Lesser(Cardinality(Failures(rs)), MaxStoredErrors)
    /\ \A i \in 1 .. Len(c.errors) :
          /\ c.errors[i] \in Failures(rs)
          /\ Cardinality(Failures(rs) \cap (1 .. c.errors[i])) = i

BatchInv ==
    /\ TypeInv
    /\ Counts(collector, results) /\ Tracks(collector, results)
    /\ Extremal(collector, results) /\ Keeps(collector, results)

LEMMA SubsetsOfResults ==
    ASSUME NEW rs \in Seq(Result), NEW S \in SUBSET (DOMAIN rs)
    PROVE  IsFiniteSet(S) /\ Cardinality(S) \in Nat
<1>1. DOMAIN rs = 1 .. Len(rs) /\ Len(rs) \in Nat
  OBVIOUS
<1>2. IsFiniteSet(DOMAIN rs)
  BY <1>1, FS_Interval
<1> QED
  BY <1>2, FS_Subset, FS_CardinalityType

LEMMA ValuesType ==
    ASSUME NEW rs \in Seq(Result)
    PROVE  /\ Durations(rs) \in [Responses(rs) -> Nat] /\ Ttfs(rs) \in [Timed(rs) -> Nat]
           /\ IsFiniteSet(Responses(rs)) /\ IsFiniteSet(Timed(rs))
           /\ Responses(rs) \in SUBSET (DOMAIN rs) /\ Timed(rs) \in SUBSET (DOMAIN rs)
<1>1. \A k \in DOMAIN rs : rs[k] \in Result
  OBVIOUS
<1>2. \A k \in DOMAIN rs : rs[k].duration \in Nat /\ rs[k].ttfb \in Nat
  BY <1>1, ResultFields
<1>3. Responses(rs) \in SUBSET (DOMAIN rs) /\ Timed(rs) \in SUBSET (DOMAIN rs)
  BY DEF Responses, Timed
<1>4. Durations(rs) \in [Responses(rs) -> Nat]
  BY <1>2, <1>3 DEF Durations
<1>5. Ttfs(rs) \in [Timed(rs) -> Nat]
  BY <1>2, <1>3 DEF Ttfs
<1> QED
  BY <1>3, <1>4, <1>5, SubsetsOfResults

LEMMA Appends ==
    ASSUME NEW rs \in Seq(Result), NEW r \in Result, NEW new, new = Append(rs, r),
           NEW n, n = Len(rs) + 1
    PROVE  /\ new \in Seq(Result) /\ Len(new) = n /\ n \in Nat
           /\ DOMAIN new = DOMAIN rs \cup {n} /\ n \notin DOMAIN rs
           /\ new[n] = r /\ \A k \in DOMAIN rs : new[k] = rs[k] /\ k < n /\ k \in Nat \ {0}
  OBVIOUS

(* new is rs with the n-th result r.                                       *)
FailureAppended(rs, new, n) ==
    /\ Failures(new) = Failures(rs) \cup {n}
    /\ Responses(new) = Responses(rs) /\ GoodOnes(new) = GoodOnes(rs)
    /\ \A s : Coded(new, s) = Coded(rs, s)
    /\ Timed(new) = Timed(rs)
    /\ Durations(new) = Durations(rs) /\ Ttfs(new) = Ttfs(rs)
    /\ \A k \in Responses(rs) : new[k] = rs[k]
ResponseAppended(rs, r, new, n) ==
    /\ Failures(new) = Failures(rs)
    /\ Responses(new) = Responses(rs) \cup {n}
    /\ GoodOnes(new) = GoodOnes(rs) \cup (IF Good(r.status) THEN {n} ELSE {})
    /\ \A s : Coded(new, s) = Coded(rs, s) \cup (IF r.status = s THEN {n} ELSE {})
    /\ Timed(new) = Timed(rs) \cup (IF r.ttfb > 0 THEN {n} ELSE {})
    /\ \A k \in Responses(rs) : Durations(new)[k] = Durations(rs)[k]
    /\ Durations(new)[n] = r.duration
    /\ \A k \in Timed(rs) : Ttfs(new)[k] = Ttfs(rs)[k]
    /\ r.ttfb > 0 => Ttfs(new)[n] = r.ttfb
    /\ n \notin Responses(rs) /\ n \notin Timed(rs) /\ n \notin GoodOnes(rs)
    /\ \A s : n \notin Coded(rs, s)
    /\ new[n] = r /\ \A k \in Responses(rs) : new[k] = rs[k]

LEMMA FailureAppends ==
    ASSUME NEW rs \in Seq(Result), NEW r \in Result, r.error
    PROVE  FailureAppended(rs, Append(rs, r), Len(rs) + 1)
<1> DEFINE new == Append(rs, r)
           n == Len(rs) + 1
<1>1. /\ DOMAIN new = DOMAIN rs \cup {n} /\ n \notin DOMAIN rs
      /\ new[n] = r /\ \A k \in DOMAIN rs : new[k] = rs[k]
  BY Appends
<1> HIDE DEF new, n
<1>2. Failures(new) = Failures(rs) \cup {n}
  BY <1>1 DEF Failures
<1>3. Responses(new) = Responses(rs)
  BY <1>1, <1>2 DEF Responses
<1>4. \A k \in Responses(rs) : new[k] = rs[k]
  BY <1>1 DEF Responses
<1>5. Timed(new) = Timed(rs)
  BY <1>3, <1>4 DEF Timed
<1>6. Durations(new) = Durations(rs)
  BY <1>3, <1>4 DEF Durations
<1>7. Ttfs(new) = Ttfs(rs)
  <2>1. \A k \in Timed(rs) : new[k] = rs[k]
    BY <1>4 DEF Timed
  <2> QED
    BY <1>5, <2>1 DEF Ttfs
<1>8. GoodOnes(new) = GoodOnes(rs) /\ \A s : Coded(new, s) = Coded(rs, s)
  BY <1>3, <1>4 DEF GoodOnes, Coded
<1>9. FailureAppended(rs, new, n)
  BY <1>2, <1>3, <1>4, <1>5, <1>6, <1>7, <1>8 DEF FailureAppended
<1> QED
  BY <1>9 DEF new, n

LEMMA ResponseAppends ==
    ASSUME NEW rs \in Seq(Result), NEW r \in Result, ~ r.error
    PROVE  ResponseAppended(rs, r, Append(rs, r), Len(rs) + 1)
<1> DEFINE new == Append(rs, r)
           n == Len(rs) + 1
<1>1. /\ DOMAIN new = DOMAIN rs \cup {n} /\ n \notin DOMAIN rs
      /\ new[n] = r /\ \A k \in DOMAIN rs : new[k] = rs[k]
  BY Appends
<1> HIDE DEF new, n
<1>2. Failures(new) = Failures(rs)
  BY <1>1 DEF Failures
<1>3. Responses(new) = Responses(rs) \cup {n} /\ n \notin Responses(rs)
  BY <1>1, <1>2 DEF Responses, Failures
<1>4. new[n] = r /\ \A k \in Responses(rs) : new[k] = rs[k]
  BY <1>1 DEF Responses
<1>5. Timed(new) = Timed(rs) \cup (IF r.ttfb > 0 THEN {n} ELSE {}) /\ n \notin Timed(rs)
  BY <1>3, <1>4 DEF Timed
<1>6. /\ \A k \in Responses(rs) : Durations(new)[k] = Durations(rs)[k]
      /\ Durations(new)[n] = r.duration
  BY <1>3, <1>4 DEF Durations
<1>7. /\ \A k \in Timed(rs) : Ttfs(new)[k] = Ttfs(rs)[k]
      /\ r.ttfb > 0 => Ttfs(new)[n] = r.ttfb
  <2>1. \A k \in Timed(rs) : new[k] = rs[k]
    BY <1>4 DEF Timed
  <2> QED
    BY <1>4, <1>5, <2>1 DEF Ttfs
<1>8. GoodOnes(new) = GoodOnes(rs) \cup (IF Good(r.status) THEN {n} ELSE {}) /\ n \notin GoodOnes(rs)
  BY <1>3, <1>4 DEF GoodOnes
<1>9. \A s : Coded(new, s) = Coded(rs, s) \cup (IF r.status = s THEN {n} ELSE {}) /\ n \notin Coded(rs, s)
  BY <1>3, <1>4 DEF Coded
<1>10. ResponseAppended(rs, r, new, n)
  BY <1>2, <1>3, <1>4, <1>5, <1>6, <1>7, <1>8, <1>9 DEF ResponseAppended
<1> QED
  BY <1>10 DEF new, n

(* One value more, in the sum and in its bucket.                           *)
OneMore(u, v, K, x) ==
    /\ IsFiniteSet(K) /\ x \notin K
    /\ v \in [K -> Nat] /\ u \in [K \cup {x} -> Nat] /\ \A k \in K : u[k] = v[k]

LEMMA ValuesGrow ==
    ASSUME NEW K, NEW x, NEW v, NEW u, OneMore(u, v, K, x)
    PROVE  SumFunction(u) = SumFunction(v) + u[x]
<1> USE DEF OneMore
<1>1. SumFunction(u) = SumFunctionOnSet(u, K \cup {x}) /\ SumFunction(v) = SumFunctionOnSet(v, K)
  BY DEF SumFunction
<1>2. SumFunctionOnSet(u, K \cup {x}) = SumFunctionOnSet(u, K) + u[x]
  BY SumInsert
<1>3. SumFunctionOnSet(v, K) = SumFunctionOnSet(u, K)
  BY SumAgrees
<1> QED
  BY <1>1, <1>2, <1>3

LEMMA HistogramGrows ==
    ASSUME NEW K, NEW x, NEW v, NEW u, OneMore(u, v, K, x),
           NEW h, HistogramOf(h, v)
    PROVE  HistogramOf(Observe(h, u[x]), u)
<1>0. /\ IsFiniteSet(K) /\ x \notin K
      /\ v \in [K -> Nat] /\ u \in [K \cup {x} -> Nat] /\ \A k \in K : u[k] = v[k]
  BY DEF OneMore
<1> DEFINE d == u[x]
<1> DEFINE At(w, g) == {k \in DOMAIN w : Index(w[k]) = g}
           q == h.counts
           i == Index(d)
           f == [q EXCEPT ![i] = @ + 1]
           o == Observe(h, d)
<1>1. d \in Nat /\ i \in 0 .. Overflow
  BY <1>0, IndexHolds
<1>2. q \in [0 .. Overflow -> Nat] /\ h.total = Cardinality(K) /\ Cardinality(K) \in Nat
  BY <1>0, FS_CardinalityType DEF HistogramOf
<1>3. \A g \in 0 .. Overflow : q[g] = Cardinality(At(v, g))
  BY <1>0 DEF HistogramOf
<1>4. o.counts = f /\ o.total = h.total + 1
  BY DEF Observe
<1>5. o.total = Cardinality(DOMAIN u)
  <2>1. Cardinality(K \cup {x}) = Cardinality(K) + 1
    BY <1>0, FS_AddElement
  <2> QED
    BY <1>0, <1>2, <1>4, <2>1
<1> HIDE DEF q, o
<1>6. f \in [0 .. Overflow -> Nat]
  <2> HIDE DEF i
  <2> QED
    BY <1>1, <1>2
<1>7. ASSUME NEW g \in 0 .. Overflow PROVE f[g] = Cardinality(At(u, g))
  <2>1. IsFiniteSet(At(v, g)) /\ x \notin At(v, g)
    <3>1. At(v, g) \in SUBSET K
      BY <1>0
    <3> QED
      BY <1>0, <3>1, FS_Subset
  <2>2. CASE g = i
    <3>1. At(u, g) = At(v, g) \cup {x}
      BY <1>0, <2>2
    <3> HIDE DEF At
    <3>2. Cardinality(At(u, g)) = Cardinality(At(v, g)) + 1
      BY <2>1, <3>1, FS_AddElement
    <3> HIDE DEF i
    <3>3. f[g] = q[g] + 1
      BY <1>1, <1>2, <2>2
    <3> QED
      BY <1>3, <3>2, <3>3
  <2>3. CASE g # i
    <3>1. At(u, g) = At(v, g)
      BY <1>0, <2>3
    <3> HIDE DEF At, i
    <3>2. f[g] = q[g]
      BY <1>1, <1>2, <2>3
    <3> QED
      BY <1>3, <3>1, <3>2
  <2> QED
    BY <2>2, <2>3
<1> HIDE DEF f
<1>8. HistogramOf(o, u)
  BY <1>4, <1>5, <1>6, <1>7 DEF HistogramOf
<1> QED
  BY <1>8 DEF o

(* One more result, for each part of the invariant in turn.                *)
Added(c, rs, r) == IF r.error THEN AddError(c, Len(rs) + 1) ELSE AddResponse(c, r)

LEMMA AddedMeets ==
    ASSUME NEW c \in CollectorType, NEW rs \in Seq(Result), NEW r \in Result
    PROVE  /\ r.error \in BOOLEAN /\ Len(rs) \in Nat
           /\ Added(c, rs, r) \in CollectorType /\ Append(rs, r) \in Seq(Result)
           /\ Len(Append(rs, r)) = Len(rs) + 1
           /\ r.error => /\ ErrorAdded(c, Len(rs) + 1, Added(c, rs, r))
                         /\ FailureAppended(rs, Append(rs, r), Len(rs) + 1)
           /\ ~ r.error => /\ ResponseAdded(c, r, Added(c, rs, r))
                           /\ ResponseAppended(rs, r, Append(rs, r), Len(rs) + 1)
<1>1. r.error \in BOOLEAN
  BY ResultFields
<1>2. Len(rs) \in Nat /\ Append(rs, r) \in Seq(Result) /\ Len(Append(rs, r)) = Len(rs) + 1
  OBVIOUS
<1>3. ASSUME r.error
      PROVE  /\ ErrorAdded(c, Len(rs) + 1, Added(c, rs, r))
             /\ FailureAppended(rs, Append(rs, r), Len(rs) + 1)
  <2>1. Added(c, rs, r) = AddError(c, Len(rs) + 1) /\ Len(rs) + 1 \in Nat
    BY <1>2, <1>3 DEF Added
  <2> QED
    BY <1>3, <2>1, ErrorAdds, FailureAppends
<1>4. ASSUME ~ r.error
      PROVE  /\ ResponseAdded(c, r, Added(c, rs, r))
             /\ ResponseAppended(rs, r, Append(rs, r), Len(rs) + 1)
  <2>1. Added(c, rs, r) = AddResponse(c, r)
    BY <1>4 DEF Added
  <2> QED
    BY <1>4, <2>1, ResponseAdds, ResponseAppends
<1>5. Added(c, rs, r) \in CollectorType
  BY <1>1, <1>3, <1>4 DEF ErrorAdded, ResponseAdded
<1> QED
  BY <1>1, <1>2, <1>3, <1>4, <1>5

LEMMA CountsStep ==
    ASSUME NEW c \in CollectorType, NEW rs \in Seq(Result), NEW r \in Result, Counts(c, rs)
    PROVE  Counts(Added(c, rs, r), Append(rs, r))
<1> DEFINE n == Len(rs) + 1
           d == Added(c, rs, r)
           new == Append(rs, r)
<1>1. r.error \in BOOLEAN /\ n \in Nat /\ Len(new) = n /\ Len(rs) \in Nat
  BY AddedMeets
<1>2. /\ r.error => ErrorAdded(c, n, d) /\ FailureAppended(rs, new, n)
      /\ ~ r.error => ResponseAdded(c, r, d) /\ ResponseAppended(rs, r, new, n)
  BY AddedMeets
<1> HIDE DEF d, new
<1>3. GoodOnes(rs) \in SUBSET (DOMAIN rs) /\ \A s : Coded(rs, s) \in SUBSET (DOMAIN rs)
  BY DEF GoodOnes, Coded, Responses
<1>4. /\ IsFiniteSet(GoodOnes(rs)) /\ Cardinality(GoodOnes(rs)) \in Nat
      /\ \A s : IsFiniteSet(Coded(rs, s)) /\ Cardinality(Coded(rs, s)) \in Nat
  BY <1>3, SubsetsOfResults
<1>5. /\ c.count = Len(rs) /\ c.successCount = Cardinality(GoodOnes(rs))
      /\ c.failCount = Len(rs) - Cardinality(GoodOnes(rs))
      /\ \A s \in StatusCode : c.statusCodes[s] = Cardinality(Coded(rs, s))
      /\ c.statusCodes \in [StatusCode -> Nat]
  BY DEF Counts, CollectorType
<1>6. ASSUME r.error PROVE Counts(d, new)
  <2>1. GoodOnes(new) = GoodOnes(rs) /\ \A s : Coded(new, s) = Coded(rs, s)
    BY <1>2, <1>6 DEF FailureAppended
  <2>2. /\ d.count = c.count + 1 /\ d.failCount = c.failCount + 1
        /\ d.successCount = c.successCount /\ d.statusCodes = c.statusCodes
    BY <1>2, <1>6 DEF ErrorAdded
  <2> QED
    BY <1>1, <1>4, <1>5, <2>1, <2>2 DEF Counts
<1>7. ASSUME ~ r.error PROVE Counts(d, new)
  <2>1. /\ GoodOnes(new) = GoodOnes(rs) \cup (IF Good(r.status) THEN {n} ELSE {})
        /\ n \notin GoodOnes(rs)
        /\ \A s : Coded(new, s) = Coded(rs, s) \cup (IF r.status = s THEN {n} ELSE {})
        /\ \A s : n \notin Coded(rs, s)
    BY <1>2, <1>7 DEF ResponseAppended
  <2>2. /\ d.count = c.count + 1
        /\ d.successCount = (IF Good(r.status) THEN c.successCount + 1 ELSE c.successCount)
        /\ d.failCount = (IF Good(r.status) THEN c.failCount ELSE c.failCount + 1)
        /\ d.statusCodes = [c.statusCodes EXCEPT ![r.status] = @ + 1]
    BY <1>2, <1>7 DEF ResponseAdded
  <2>3. d.successCount = Cardinality(GoodOnes(new)) /\ d.failCount = n - Cardinality(GoodOnes(new))
    <3>1. CASE Good(r.status)
      <4>1. GoodOnes(new) = GoodOnes(rs) \cup {n}
        BY <2>1, <3>1
      <4>2. Cardinality(GoodOnes(new)) = Cardinality(GoodOnes(rs)) + 1
        BY <1>4, <2>1, <4>1, FS_AddElement
      <4>3. d.successCount = c.successCount + 1 /\ d.failCount = c.failCount
        BY <2>2, <3>1
      <4> QED
        BY <1>1, <1>4, <1>5, <4>2, <4>3
    <3>2. CASE ~ Good(r.status)
      <4>1. GoodOnes(new) = GoodOnes(rs)
        BY <2>1, <3>2
      <4>2. d.successCount = c.successCount /\ d.failCount = c.failCount + 1
        BY <2>2, <3>2
      <4> QED
        BY <1>1, <1>4, <1>5, <4>1, <4>2
    <3> QED
      BY <3>1, <3>2
  <2>4. ASSUME NEW s \in StatusCode PROVE d.statusCodes[s] = Cardinality(Coded(new, s))
    <3>1. CASE r.status = s
      <4>1. Coded(new, s) = Coded(rs, s) \cup {n}
        BY <2>1, <3>1
      <4>2. Cardinality(Coded(new, s)) = Cardinality(Coded(rs, s)) + 1
        BY <1>4, <2>1, <4>1, FS_AddElement
      <4>3. d.statusCodes[s] = c.statusCodes[s] + 1
        BY <1>5, <2>2, <3>1
      <4> QED
        BY <1>5, <4>2, <4>3
    <3>2. CASE r.status # s
      <4>1. Coded(new, s) = Coded(rs, s)
        BY <2>1, <3>2
      <4>2. d.statusCodes[s] = c.statusCodes[s]
        BY <1>5, <2>2, <3>2
      <4> QED
        BY <1>5, <4>1, <4>2
    <3> QED
      BY <3>1, <3>2
  <2> QED
    BY <1>1, <1>5, <2>2, <2>3, <2>4 DEF Counts
<1> QED
  BY <1>1, <1>6, <1>7 DEF d, new

LEMMA TracksStep ==
    ASSUME NEW c \in CollectorType, NEW rs \in Seq(Result), NEW r \in Result, Tracks(c, rs)
    PROVE  Tracks(Added(c, rs, r), Append(rs, r))
<1> DEFINE n == Len(rs) + 1
           d == Added(c, rs, r)
           new == Append(rs, r)
<1>1. r.error \in BOOLEAN /\ new \in Seq(Result) /\ r.duration \in Nat /\ r.ttfb \in Nat
  BY AddedMeets, ResultFields
<1>2. /\ r.error => ErrorAdded(c, n, d) /\ FailureAppended(rs, new, n)
      /\ ~ r.error => ResponseAdded(c, r, d) /\ ResponseAppended(rs, r, new, n)
  BY AddedMeets
<1> HIDE DEF d, new, n
<1>3. /\ Durations(rs) \in [Responses(rs) -> Nat] /\ Ttfs(rs) \in [Timed(rs) -> Nat]
      /\ IsFiniteSet(Responses(rs)) /\ IsFiniteSet(Timed(rs))
  BY ValuesType
<1>4. Durations(new) \in [Responses(new) -> Nat] /\ Ttfs(new) \in [Timed(new) -> Nat]
  BY <1>1, ValuesType
<1>5. ASSUME r.error PROVE Tracks(d, new)
  <2>1. Durations(new) = Durations(rs) /\ Ttfs(new) = Ttfs(rs) /\ Timed(new) = Timed(rs)
    BY <1>2, <1>5 DEF FailureAppended
  <2>2. /\ d.hist = c.hist /\ d.ttfbHist = c.ttfbHist /\ d.totalDuration = c.totalDuration
        /\ d.ttfbTotal = c.ttfbTotal /\ d.ttfbCount = c.ttfbCount
    BY <1>2, <1>5 DEF ErrorAdded
  <2> QED
    BY <2>1, <2>2 DEF Tracks
<1>6. ASSUME ~ r.error PROVE Tracks(d, new)
  <2>1. /\ HistogramOf(d.hist, Durations(new)) /\ d.totalDuration = SumFunction(Durations(new))
    <3> DEFINE K == Responses(rs)
               v == Durations(rs)
               u == Durations(new)
    <3>1. Responses(new) = K \cup {n} /\ n \notin K /\ (\A k \in K : u[k] = v[k]) /\ u[n] = r.duration
      BY <1>2, <1>6 DEF ResponseAppended
    <3>2. v \in [K -> Nat] /\ u \in [K \cup {n} -> Nat] /\ IsFiniteSet(K)
      BY <1>3, <1>4, <3>1
    <3>3. HistogramOf(c.hist, v) /\ c.totalDuration = SumFunction(v)
      BY DEF Tracks
    <3>4. d.hist = Observe(c.hist, r.duration) /\ d.totalDuration = c.totalDuration + r.duration
      BY <1>2, <1>6 DEF ResponseAdded
    <3> HIDE DEF K, v, u
    <3>5. OneMore(u, v, K, n)
      BY <3>1, <3>2 DEF OneMore
    <3>6. SumFunction(u) = SumFunction(v) + u[n] /\ HistogramOf(Observe(c.hist, u[n]), u)
      BY <3>3, <3>5, ValuesGrow, HistogramGrows
    <3> QED
      BY <3>1, <3>3, <3>4, <3>6 DEF u
  <2>2. /\ HistogramOf(d.ttfbHist, Ttfs(new)) /\ d.ttfbTotal = SumFunction(Ttfs(new))
        /\ d.ttfbCount = Cardinality(Timed(new))
    <3> DEFINE K == Timed(rs)
               v == Ttfs(rs)
               u == Ttfs(new)
    <3>1. (\A k \in K : u[k] = v[k]) /\ n \notin K
      BY <1>2, <1>6 DEF ResponseAppended
    <3>2. HistogramOf(c.ttfbHist, v) /\ c.ttfbTotal = SumFunction(v) /\ c.ttfbCount = Cardinality(K)
      BY DEF Tracks
    <3>3. v \in [K -> Nat] /\ IsFiniteSet(K)
      BY <1>3
    <3>4. CASE r.ttfb = 0
      <4>1. Timed(new) = K
        BY <1>2, <1>6, <3>4 DEF ResponseAppended
      <4>2. u = v
        BY <1>4, <3>1, <3>3, <4>1
      <4>3. d.ttfbHist = c.ttfbHist /\ d.ttfbTotal = c.ttfbTotal /\ d.ttfbCount = c.ttfbCount
        BY <1>2, <1>6, <3>4 DEF ResponseAdded
      <4> QED
        BY <3>2, <4>1, <4>2, <4>3
    <3>5. CASE r.ttfb > 0
      <4>1. Timed(new) = K \cup {n} /\ u[n] = r.ttfb
        BY <1>2, <1>6, <3>5 DEF ResponseAppended
      <4>2. u \in [K \cup {n} -> Nat]
        BY <1>4, <4>1
      <4>3. /\ d.ttfbHist = Observe(c.ttfbHist, r.ttfb)
            /\ d.ttfbTotal = c.ttfbTotal + r.ttfb /\ d.ttfbCount = c.ttfbCount + 1
        BY <1>1, <1>2, <1>6, <3>5 DEF ResponseAdded
      <4> HIDE DEF K, v, u
      <4>4. OneMore(u, v, K, n)
        BY <3>1, <3>3, <4>2 DEF OneMore
      <4>5. SumFunction(u) = SumFunction(v) + u[n] /\ HistogramOf(Observe(c.ttfbHist, u[n]), u)
        BY <3>2, <4>4, ValuesGrow, HistogramGrows
      <4>6. Cardinality(K \cup {n}) = Cardinality(K) + 1
        BY <3>1, <3>3, FS_AddElement
      <4> QED
        BY <3>2, <4>1, <4>3, <4>5, <4>6 DEF u
    <3> QED
      BY <1>1, <3>4, <3>5
  <2> QED
    BY <2>1, <2>2 DEF Tracks
<1> QED
  BY <1>1, <1>5, <1>6 DEF d, new

LEMMA ExtremalStep ==
    ASSUME NEW c \in CollectorType, NEW rs \in Seq(Result), NEW r \in Result, Extremal(c, rs)
    PROVE  Extremal(Added(c, rs, r), Append(rs, r))
<1> DEFINE n == Len(rs) + 1
           d == Added(c, rs, r)
           new == Append(rs, r)
<1>1. r.error \in BOOLEAN /\ r.duration \in Nat
  BY AddedMeets, ResultFields
<1>2. /\ r.error => ErrorAdded(c, n, d) /\ FailureAppended(rs, new, n)
      /\ ~ r.error => ResponseAdded(c, r, d) /\ ResponseAppended(rs, r, new, n)
  BY AddedMeets
<1>3. \A k \in Responses(rs) : rs[k].duration \in Nat
  <2>1. \A k \in DOMAIN rs : rs[k] \in Result
    OBVIOUS
  <2> QED
    BY <2>1, ResultFields DEF Responses
<1> HIDE DEF d, new, n
<1>4. c.minDuration \in Nat /\ c.maxDuration \in Nat /\ c.firstResult \in BOOLEAN
  BY DEF CollectorType
<1>5. ASSUME r.error PROVE Extremal(d, new)
  <2>1. Responses(new) = Responses(rs) /\ \A k \in Responses(rs) : new[k] = rs[k]
    BY <1>2, <1>5 DEF FailureAppended
  <2>2. /\ d.firstResult = c.firstResult
        /\ d.minDuration = c.minDuration /\ d.maxDuration = c.maxDuration
    BY <1>2, <1>5 DEF ErrorAdded
  <2> QED
    BY <2>1, <2>2 DEF Extremal
<1>6. ASSUME ~ r.error PROVE Extremal(d, new)
  <2>1. /\ Responses(new) = Responses(rs) \cup {n}
        /\ new[n] = r /\ \A k \in Responses(rs) : new[k] = rs[k]
    BY <1>2, <1>6 DEF ResponseAppended
  <2>2. /\ d.firstResult = FALSE
        /\ d.minDuration = (IF c.firstResult THEN r.duration ELSE Lesser(c.minDuration, r.duration))
        /\ d.maxDuration = (IF c.firstResult THEN r.duration ELSE Greater(c.maxDuration, r.duration))
    BY <1>2, <1>6 DEF ResponseAdded
  <2>3. CASE c.firstResult
    <3>1. Responses(new) = {n} /\ d.minDuration = r.duration /\ d.maxDuration = r.duration
      BY <2>1, <2>2, <2>3 DEF Extremal
    <3> QED
      BY <1>1, <2>1, <2>2, <3>1 DEF Extremal
  <2>4. CASE ~ c.firstResult
    <3>1. /\ \E k \in Responses(rs) : c.minDuration = rs[k].duration
          /\ \E k \in Responses(rs) : c.maxDuration = rs[k].duration
          /\ \A k \in Responses(rs) : c.minDuration <= rs[k].duration /\ rs[k].duration <= c.maxDuration
      BY <2>4 DEF Extremal
    <3>2. /\ d.minDuration = Lesser(c.minDuration, r.duration)
          /\ d.maxDuration = Greater(c.maxDuration, r.duration)
      BY <2>2, <2>4
    <3>3. /\ d.minDuration \in {c.minDuration, r.duration} /\ d.maxDuration \in {c.maxDuration, r.duration}
          /\ d.minDuration <= c.minDuration /\ d.minDuration <= r.duration
          /\ c.maxDuration <= d.maxDuration /\ r.duration <= d.maxDuration
      BY <1>1, <1>4, <3>2 DEF Lesser, Greater
    <3>4. \E k \in Responses(new) : d.minDuration = new[k].duration
      BY <2>1, <3>1, <3>3
    <3>5. \E k \in Responses(new) : d.maxDuration = new[k].duration
      BY <2>1, <3>1, <3>3
    <3>6. ASSUME NEW k \in Responses(new)
          PROVE  d.minDuration <= new[k].duration /\ new[k].duration <= d.maxDuration
      <4>1. CASE k = n
        BY <2>1, <3>3, <4>1
      <4>2. CASE k \in Responses(rs)
        <5>1. c.minDuration <= rs[k].duration /\ rs[k].duration <= c.maxDuration /\ rs[k].duration \in Nat
          BY <1>3, <3>1, <4>2
        <5>2. d.minDuration \in Nat /\ d.maxDuration \in Nat
          BY <1>1, <1>4, <3>3
        <5>3. new[k] = rs[k]
          BY <2>1, <4>2
        <5> QED
          BY <1>4, <3>3, <5>1, <5>2, <5>3
      <4> QED
        BY <2>1, <4>1, <4>2
    <3> QED
      BY <2>1, <2>2, <3>4, <3>5, <3>6 DEF Extremal
  <2> QED
    BY <1>4, <2>3, <2>4
<1> QED
  BY <1>1, <1>5, <1>6 DEF d, new

LEMMA KeepsStep ==
    ASSUME NEW c \in CollectorType, NEW rs \in Seq(Result), NEW r \in Result, Keeps(c, rs)
    PROVE  Keeps(Added(c, rs, r), Append(rs, r))
<1> DEFINE n == Len(rs) + 1
           d == Added(c, rs, r)
           new == Append(rs, r)
           F == Failures(rs)
           m == Cardinality(F)
<1>1. r.error \in BOOLEAN /\ n \in Nat /\ n > 0 /\ DOMAIN rs = 1 .. n - 1
  BY AddedMeets
<1>2. /\ r.error => ErrorAdded(c, n, d) /\ FailureAppended(rs, new, n)
      /\ ~ r.error => ResponseAdded(c, r, d) /\ ResponseAppended(rs, r, new, n)
  BY AddedMeets
<1>3. F \in SUBSET (1 .. n - 1)
  BY <1>1 DEF Failures
<1>4. IsFiniteSet(F) /\ m \in Nat
  <2>1. F \in SUBSET (DOMAIN rs)
    BY DEF Failures
  <2> QED
    BY <2>1, SubsetsOfResults
<1> HIDE DEF d, new, n
<1>5. c.errors \in Seq(Nat) /\ MaxStoredErrors \in Nat
  BY CollectorAssumption DEF CollectorType
<1>6. /\ Len(c.errors) = Lesser(m, MaxStoredErrors)
      /\ \A i \in 1 .. Len(c.errors) :
            c.errors[i] \in F /\ Cardinality(F \cap (1 .. c.errors[i])) = i
  BY DEF Keeps
<1>7. ASSUME ~ r.error PROVE Keeps(d, new)
  <2>1. Failures(new) = F /\ d.errors = c.errors
    BY <1>2, <1>7 DEF ResponseAdded, ResponseAppended
  <2> QED
    BY <2>1 DEF Keeps
<1>8. ASSUME r.error PROVE Keeps(d, new)
  <2> DEFINE G == Failures(new)
  <2>1. G = F \cup {n}
    BY <1>2, <1>8 DEF FailureAppended
  <2>2. d.errors = IF Len(c.errors) < MaxStoredErrors THEN Append(c.errors, n) ELSE c.errors
    BY <1>2, <1>8 DEF ErrorAdded
  <2>3. n \notin F /\ G \cap (1 .. n) = G /\ \A k \in F : G \cap (1 .. k) = F \cap (1 .. k)
    <3>1. \A k \in F : k \in Int /\ 1 <= k /\ k < n
      BY <1>1, <1>3
    <3> HIDE DEF F, G
    <3>2. n \notin F /\ G \subseteq 1 .. n
      BY <1>1, <2>1, <3>1
    <3>3. ASSUME NEW k \in F PROVE G \cap (1 .. k) = F \cap (1 .. k)
      <4>1. n \notin 1 .. k
        BY <1>1, <3>1
      <4> QED
        BY <2>1, <4>1
    <3> QED
      BY <3>2, <3>3
  <2> HIDE DEF F, G
  <2>4. Cardinality(G) = m + 1
    BY <1>4, <2>1, <2>3, FS_AddElement
  <2> HIDE DEF m
  <2>5. \A i \in 1 .. Len(c.errors) : c.errors[i] \in G /\ Cardinality(G \cap (1 .. c.errors[i])) = i
    BY <1>6, <2>1, <2>3
  <2>6. CASE Len(c.errors) < MaxStoredErrors
    <3>1. Len(c.errors) = m /\ m < MaxStoredErrors
      BY <1>4, <1>5, <1>6, <2>6 DEF Lesser
    <3>2. d.errors = Append(c.errors, n)
      BY <2>2, <2>6
    <3>3. /\ Len(d.errors) = m + 1 /\ d.errors[m + 1] = n
          /\ \A i \in 1 .. m : d.errors[i] = c.errors[i]
      BY <1>4, <1>5, <3>1, <3>2
    <3>4. Len(d.errors) = Lesser(m + 1, MaxStoredErrors)
      BY <1>4, <1>5, <3>1, <3>3 DEF Lesser
    <3>5. ASSUME NEW i \in 1 .. Len(d.errors)
          PROVE  d.errors[i] \in G /\ Cardinality(G \cap (1 .. d.errors[i])) = i
      <4>1. i \in 1 .. m \/ i = m + 1
        BY <1>4, <3>3
      <4> QED
        BY <2>1, <2>3, <2>4, <2>5, <3>1, <3>3, <4>1
    <3> QED
      BY <2>4, <3>4, <3>5 DEF Keeps, G
  <2>7. CASE ~ (Len(c.errors) < MaxStoredErrors)
    <3>1. d.errors = c.errors
      BY <2>2, <2>7
    <3>2. Len(c.errors) = Lesser(m + 1, MaxStoredErrors)
      BY <1>4, <1>5, <1>6, <2>7 DEF Lesser
    <3> QED
      BY <2>4, <2>5, <3>1, <3>2 DEF Keeps, G
  <2> QED
    BY <2>6, <2>7
<1> QED
  BY <1>1, <1>7, <1>8 DEF d, new

LEMMA NoneObserved ==
    ASSUME NEW v \in [{} -> Nat]
    PROVE  HistogramOf(NewLogHistogram, v) /\ SumFunction(v) = 0
<1>1. DOMAIN v = {} /\ Cardinality({}) = 0
  BY FS_EmptySet
<1>2. SumFunction(v) = 0
  BY <1>1, SumOfNone DEF SumFunction
<1>3. \A g : {k \in DOMAIN v : Index(v[k]) = g} = {}
  BY <1>1
<1>4. NewLogHistogram.counts = [g \in 0 .. Overflow |-> 0] /\ NewLogHistogram.total = 0
  BY DEF NewLogHistogram
<1>5. HistogramOf(NewLogHistogram, v)
  BY <1>1, <1>3, <1>4 DEF HistogramOf
<1> QED
  BY <1>2, <1>5

LEMMA BatchInit == Init => BatchInv
<1> SUFFICES ASSUME Init PROVE BatchInv
  OBVIOUS
<1>1. results = <<>> /\ collector = NewCollector /\ results \in Seq(Result) /\ DOMAIN results = {}
  BY DEF Init
<1>2. /\ Failures(results) = {} /\ Responses(results) = {} /\ GoodOnes(results) = {}
      /\ Timed(results) = {} /\ \A s : Coded(results, s) = {}
  BY <1>1 DEF Failures, Responses, GoodOnes, Timed, Coded
<1>3. Cardinality({}) = 0 /\ Len(results) = 0
  BY <1>1, FS_EmptySet
<1>4. /\ collector.count = 0 /\ collector.successCount = 0 /\ collector.failCount = 0
      /\ collector.totalDuration = 0 /\ collector.minDuration = 0 /\ collector.maxDuration = 0
      /\ collector.firstResult = TRUE /\ collector.statusCodes = [s \in StatusCode |-> 0]
      /\ collector.errors = <<>> /\ collector.hist = NewLogHistogram
      /\ collector.ttfbTotal = 0 /\ collector.ttfbCount = 0 /\ collector.ttfbHist = NewLogHistogram
  BY <1>1 DEF NewCollector
<1>5. TypeInv
  <2>1. NewLogHistogram \in Histogram
    BY DEF NewLogHistogram, Histogram
  <2>2. [s \in StatusCode |-> 0] \in [StatusCode -> Nat] /\ <<>> \in Seq(Nat)
    OBVIOUS
  <2>3. collector \in CollectorType
    BY <1>1, <2>1, <2>2 DEF NewCollector, CollectorType
  <2> QED
    BY <1>1, <2>3 DEF TypeInv
<1>6. Counts(collector, results)
  <2>1. \A s \in StatusCode : collector.statusCodes[s] = 0
    BY <1>4
  <2>2. 0 = 0 - 0
    OBVIOUS
  <2> QED
    BY <1>2, <1>3, <1>4, <2>1, <2>2, Zenon DEF Counts
<1>7. Tracks(collector, results)
  <2>1. Durations(results) \in [{} -> Nat] /\ Ttfs(results) \in [{} -> Nat]
    BY <1>1, <1>2, ValuesType
  <2>2. /\ HistogramOf(NewLogHistogram, Durations(results)) /\ SumFunction(Durations(results)) = 0
        /\ HistogramOf(NewLogHistogram, Ttfs(results)) /\ SumFunction(Ttfs(results)) = 0
    BY <2>1, NoneObserved
  <2> QED
    BY <1>2, <1>3, <1>4, <2>2 DEF Tracks
<1>8. Extremal(collector, results)
  BY <1>2, <1>4 DEF Extremal
<1>9. Keeps(collector, results)
  <2>1. Len(collector.errors) = 0
    BY <1>4
  <2>2. Lesser(0, MaxStoredErrors) = 0
    BY CollectorAssumption DEF Lesser
  <2> QED
    BY <1>2, <1>3, <2>1, <2>2 DEF Keeps
<1> QED
  BY <1>5, <1>6, <1>7, <1>8, <1>9 DEF BatchInv

LEMMA BatchStep == BatchInv /\ [Next]_vars => BatchInv'
<1> SUFFICES ASSUME BatchInv, [Next]_vars PROVE BatchInv'
  OBVIOUS
<1>1. /\ collector \in CollectorType /\ results \in Seq(Result)
      /\ Counts(collector, results) /\ Tracks(collector, results)
      /\ Extremal(collector, results) /\ Keeps(collector, results)
  BY DEF BatchInv, TypeInv
<1>2. ASSUME NEW r \in Result, Add(r) PROVE BatchInv'
  <2>1. collector' = Added(collector, results, r) /\ results' = Append(results, r)
    BY <1>2 DEF Add, Added
  <2>2. collector' \in CollectorType /\ results' \in Seq(Result)
    BY <1>1, <2>1, AddedMeets
  <2>3. Counts(collector', results')
    BY <1>1, <2>1, CountsStep
  <2>4. Tracks(collector', results')
    BY <1>1, <2>1, TracksStep
  <2>5. Extremal(collector', results')
    BY <1>1, <2>1, ExtremalStep
  <2>6. Keeps(collector', results')
    BY <1>1, <2>1, KeepsStep
  <2> QED
    BY <2>2, <2>3, <2>4, <2>5, <2>6 DEF BatchInv, TypeInv
<1>3. CASE UNCHANGED vars
  <2>1. collector' = collector /\ results' = results
    BY <1>3 DEF vars
  <2> QED
    BY <1>1, <2>1 DEF BatchInv, TypeInv
<1> QED
  BY <1>2, <1>3 DEF Next

LEMMA BatchHolds == Spec => []BatchInv
  BY BatchInit, BatchStep, PTL DEF Spec

-----------------------------------------------------------------------------
(* What Aggregate makes of the results.                                    *)

Ranked(S) == [i \in 1 .. Cardinality(S) |-> CHOOSE k \in S : Cardinality(S \cap (1 .. k)) = i]
Compared ==
    {"TotalRequests", "Successful", "Failed", "MinResponseTime", "MaxResponseTime",
     "AvgResponseTime", "StatusCodes", "TtfbAvg"}

LEMMA AggregateIs ==
    /\ DOMAIN Aggregate = Compared \cup {"Errors", "P", "TtfbP"}
    /\ Aggregate.TotalRequests = Len(results)
    /\ Aggregate.Successful = Cardinality(GoodOnes(results))
    /\ Aggregate.Failed = Len(results) - Cardinality(GoodOnes(results))
    /\ Aggregate.MinResponseTime =
          IF Responses(results) = {} THEN 0 ELSE Min(Range(Durations(results)))
    /\ Aggregate.MaxResponseTime =
          IF Responses(results) = {} THEN 0 ELSE Max(Range(Durations(results)))
    /\ Aggregate.AvgResponseTime = Average(SumFunction(Durations(results)), Len(results))
    /\ Aggregate.StatusCodes = [s \in StatusCode |-> Cardinality(Coded(results, s))]
    /\ Aggregate.Errors = Ranked(Failures(results))
    /\ Aggregate.P = [p \in Reported |-> Exact(Durations(results), p)]
    /\ Aggregate.TtfbAvg = Average(SumFunction(Ttfs(results)), Cardinality(DOMAIN Ttfs(results)))
    /\ Aggregate.TtfbP = [p \in ReportedTTFB |-> Exact(Ttfs(results), p)]
<1> DEFINE F == Failures(results)
           R == Responses(results)
           G == GoodOnes(results)
           D == Durations(results)
           T == Ttfs(results)
<1>1. Aggregate =
        [TotalRequests |-> Len(results),
         Successful |-> Cardinality(G),
         Failed |-> Len(results) - Cardinality(G),
         MinResponseTime |-> IF R = {} THEN 0 ELSE Min(Range(D)),
         MaxResponseTime |-> IF R = {} THEN 0 ELSE Max(Range(D)),
         AvgResponseTime |-> Average(SumFunction(D), Len(results)),
         StatusCodes |-> [s \in StatusCode |-> Cardinality(Coded(results, s))],
         Errors |-> Ranked(F),
         P |-> [p \in Reported |-> Exact(D, p)],
         TtfbAvg |-> Average(SumFunction(T), Cardinality(DOMAIN T)),
         TtfbP |-> [p \in ReportedTTFB |-> Exact(T, p)]]
  BY Zenon DEF Aggregate, Failures, Responses, GoodOnes, Coded, Durations, Timed, Ttfs, Ranked
<1> HIDE DEF F, R, G, D, T
<1> QED
  BY <1>1 DEF F, R, G, D, T, Compared

LEMMA StatsIs ==
    ASSUME NEW c
    PROVE  /\ Stats(c).TotalRequests = c.count
           /\ Stats(c).Successful = c.successCount /\ Stats(c).Failed = c.failCount
           /\ Stats(c).MinResponseTime = c.minDuration /\ Stats(c).MaxResponseTime = c.maxDuration
           /\ Stats(c).AvgResponseTime = Average(c.totalDuration, c.count)
           /\ Stats(c).StatusCodes = c.statusCodes /\ Stats(c).Errors = c.errors
           /\ Stats(c).P = [p \in Reported |-> Percentile(c.hist, p)]
           /\ Stats(c).TtfbAvg = Average(c.ttfbTotal, c.ttfbCount)
           /\ Stats(c).TtfbP = [p \in ReportedTTFB |-> Percentile(c.ttfbHist, p)]
  BY DEF Stats

(* The i-th error kept is the i-th of the failures in their order.         *)
LEMMA ErrorsMeet ==
    ASSUME NEW c \in CollectorType, NEW rs \in Seq(Result), Keeps(c, rs)
    PROVE  c.errors = SubSeq(Ranked(Failures(rs)), 1,
                             Lesser(Len(Ranked(Failures(rs))), MaxStoredErrors))
<1> DEFINE F == Failures(rs)
           m == Cardinality(F)
           a == Ranked(F)
           X == {a[i] : i \in 1 .. m}
           l == Lesser(m, MaxStoredErrors)
           At(k, i) == k \in F /\ Cardinality(F \cap (1 .. k)) = i
<1>1. IsFiniteSet(F) /\ m \in Nat /\ F \in SUBSET Nat
  <2>1. F \in SUBSET (DOMAIN rs) /\ DOMAIN rs \in SUBSET Nat
    BY DEF Failures
  <2> QED
    BY <2>1, SubsetsOfResults
<1>2. /\ Len(c.errors) = l
      /\ \A i \in 1 .. Len(c.errors) : At(c.errors[i], i)
  BY DEF Keeps
<1>3. c.errors \in Seq(Nat) /\ MaxStoredErrors \in Nat
  BY CollectorAssumption DEF CollectorType
<1> HIDE DEF F
<1>4. ASSUME NEW j, NEW k, NEW i, At(j, i), At(k, i) PROVE j = k
  <2>1. ASSUME NEW x \in F, NEW y \in F, Cardinality(F \cap (1 .. x)) = Cardinality(F \cap (1 .. y))
        PROVE  ~ (x < y)
    <3> SUFFICES ASSUME x < y PROVE FALSE
      OBVIOUS
    <3> DEFINE U == F \cap (1 .. x)
               V == F \cap (1 .. y)
    <3>1. x \in Nat /\ y \in Nat
      BY <1>1
    <3>2. U \in SUBSET V /\ V \in SUBSET F
      BY <3>1
    <3>3. y \in V /\ y \notin U
      <4>1. y >= 1
        BY <3>1
      <4> QED
        BY <3>1, <4>1
    <3>4. Cardinality(U) = Cardinality(V)
      BY <2>1
    <3> HIDE DEF U, V
    <3>5. IsFiniteSet(V)
      BY <1>1, <3>2, FS_Subset
    <3>6. U = V
      BY <3>2, <3>4, <3>5, FS_Subset
    <3> QED
      BY <3>3, <3>6
  <2>2. j \in F /\ k \in F /\ Cardinality(F \cap (1 .. j)) = Cardinality(F \cap (1 .. k))
    BY <1>4
  <2>3. ~ (j < k) /\ ~ (k < j)
    BY <2>1, <2>2
  <2>4. j \in Nat /\ k \in Nat
    BY <1>1, <2>2
  <2> QED
    BY <2>3, <2>4
<1>5. \A i \in 1 .. m : a[i] = CHOOSE k \in F : Cardinality(F \cap (1 .. k)) = i
  BY DEF Ranked
<1>6. DOMAIN a = 1 .. m /\ a = [i \in 1 .. m |-> a[i]]
  <2> DEFINE Nth(i) == CHOOSE k \in F : Cardinality(F \cap (1 .. k)) = i
  <2>1. a = [i \in 1 .. m |-> Nth(i)]
    BY DEF Ranked
  <2> HIDE DEF Nth, a
  <2> QED
    BY <2>1
<1> HIDE DEF a, m, At
<1>7. a \in Seq(X) /\ Len(a) = m
  <2>1. a \in [1 .. m -> X]
    BY <1>6
  <2> HIDE DEF X
  <2> QED
    BY <1>1, <1>6, <2>1
<1>8. l \in 0 .. m /\ l = Lesser(Len(a), MaxStoredErrors)
  BY <1>1, <1>3, <1>7 DEF Lesser
<1>9. ASSUME NEW i \in 1 .. l PROVE c.errors[i] = a[i]
  <2>1. i \in 1 .. m
    BY <1>1, <1>8
  <2>2. At(c.errors[i], i)
    BY <1>2
  <2>3. At(a[i], i)
    BY <1>5, <2>1, <2>2 DEF At
  <2> QED
    BY <1>4, <2>2, <2>3
<1> HIDE DEF X, l
<1>10. SubSeq(a, 1, l) = [i \in 1 .. l |-> a[i]]
  <2>1. Len(SubSeq(a, 1, l)) = l /\ \A i \in 1 .. l : SubSeq(a, 1, l)[i] = a[i]
    BY <1>1, <1>7, <1>8
  <2>2. SubSeq(a, 1, l) \in Seq(X)
    BY <1>1, <1>7, <1>8
  <2> QED
    BY <1>1, <1>8, <2>1, <2>2
<1>11. c.errors = [i \in 1 .. l |-> c.errors[i]]
  BY <1>2, <1>3
<1> QED
  BY <1>8, <1>9, <1>10, <1>11 DEF a, F

LEMMA ExtremesMeet ==
    ASSUME NEW c \in CollectorType, NEW rs \in Seq(Result), Extremal(c, rs)
    PROVE  /\ c.minDuration = IF Responses(rs) = {} THEN 0 ELSE Min(Range(Durations(rs)))
           /\ c.maxDuration = IF Responses(rs) = {} THEN 0 ELSE Max(Range(Durations(rs)))
<1> DEFINE K == Responses(rs)
           d == Durations(rs)
           W == Range(d)
<1>1. IsFiniteSet(K) /\ d \in [K -> Nat]
  BY ValuesType
<1>2. \A k \in K : d[k] = rs[k].duration
  BY DEF Durations
<1>3. CASE K = {}
  BY <1>3 DEF Extremal
<1>4. CASE K # {}
  <2>1. ~ c.firstResult
    BY <1>4 DEF Extremal
  <2>2. /\ \E k \in K : c.minDuration = d[k]
        /\ \E k \in K : c.maxDuration = d[k]
        /\ \A k \in K : c.minDuration <= d[k] /\ d[k] <= c.maxDuration
    BY <1>2, <2>1 DEF Extremal
  <2> HIDE DEF d, K
  <2>3. W \in SUBSET Nat /\ W = {d[k] : k \in K}
    BY <1>1 DEF Range
  <2>4. IsFiniteSet(W)
    <3>1. d \in Surjection(K, W)
      BY <1>1, <2>3 DEF Surjection
    <3> QED
      BY <1>1, <3>1, FS_Surjection
  <2>5. /\ c.minDuration \in W /\ c.maxDuration \in W
        /\ \A x \in W : c.minDuration <= x /\ x <= c.maxDuration
    BY <2>2, <2>3
  <2> HIDE DEF W
  <2>6. W # {}
    BY <2>5
  <2>7. Min(W) \in W /\ \A x \in W : Min(W) <= x
    BY <2>3, <2>6, LeastMeets
  <2>8. Max(W) \in W /\ \A x \in W : x <= Max(W)
    BY <2>3, <2>4, <2>6, GreatestMeets
  <2>9. Min(W) = c.minDuration
    <3>1. Min(W) <= c.minDuration /\ c.minDuration <= Min(W) /\ Min(W) \in Nat /\ c.minDuration \in Nat
      BY <2>3, <2>5, <2>7
    <3> QED
      BY <3>1
  <2>10. Max(W) = c.maxDuration
    <3>1. Max(W) <= c.maxDuration /\ c.maxDuration <= Max(W) /\ Max(W) \in Nat /\ c.maxDuration \in Nat
      BY <2>3, <2>5, <2>8
    <3> QED
      BY <3>1
  <2> QED
    BY <1>4, <2>9, <2>10 DEF W, d, K
<1> QED
  BY <1>3, <1>4

(* The statistics of a streamed run are those of the batch: what a         *)
(* Collector reports after any number of results is what Aggregate makes   *)
(* of the same results, but for the percentiles and the errors beyond the  *)
(* first MaxStoredErrors.                                                  *)
THEOREM StreamingMatchesBatch == Spec => []StreamingIsBatch
<1>1. BatchInv => StreamingIsBatch
  <2> SUFFICES ASSUME BatchInv PROVE StreamingIsBatch
    OBVIOUS
  <2> DEFINE c == collector
             rs == results
  <2>1. /\ c \in CollectorType /\ rs \in Seq(Result)
        /\ Counts(c, rs) /\ Tracks(c, rs) /\ Extremal(c, rs) /\ Keeps(c, rs)
    BY DEF BatchInv, TypeInv
  <2>2. /\ c.count = Len(rs) /\ c.successCount = Cardinality(GoodOnes(rs))
        /\ c.failCount = Len(rs) - Cardinality(GoodOnes(rs))
        /\ \A s \in StatusCode : c.statusCodes[s] = Cardinality(Coded(rs, s))
        /\ c.statusCodes \in [StatusCode -> Nat]
    BY <2>1 DEF Counts, CollectorType
  <2>3. c.statusCodes = [s \in StatusCode |-> Cardinality(Coded(rs, s))]
    BY <2>2
  <2>4. /\ c.totalDuration = SumFunction(Durations(rs))
        /\ c.ttfbTotal = SumFunction(Ttfs(rs))
        /\ c.ttfbCount = Cardinality(Timed(rs)) /\ DOMAIN Ttfs(rs) = Timed(rs)
    BY <2>1 DEF Tracks, Ttfs
  <2>5. ASSUME NEW field \in Compared PROVE Stats(c)[field] = Aggregate[field]
    <3>1. Stats(c).TotalRequests = Aggregate.TotalRequests
      BY <2>2, StatsIs, AggregateIs, Zenon
    <3>2. Stats(c).Successful = Aggregate.Successful /\ Stats(c).Failed = Aggregate.Failed
      BY <2>2, StatsIs, AggregateIs, Zenon
    <3>3. /\ Stats(c).MinResponseTime = Aggregate.MinResponseTime
          /\ Stats(c).MaxResponseTime = Aggregate.MaxResponseTime
      <4>1. /\ c.minDuration = IF Responses(rs) = {} THEN 0 ELSE Min(Range(Durations(rs)))
            /\ c.maxDuration = IF Responses(rs) = {} THEN 0 ELSE Max(Range(Durations(rs)))
        BY <2>1, ExtremesMeet
      <4> QED
        BY <4>1, StatsIs, AggregateIs, Zenon
    <3>4. Stats(c).AvgResponseTime = Aggregate.AvgResponseTime
      <4>1. Stats(c).AvgResponseTime = Average(c.totalDuration, c.count)
        BY StatsIs, Zenon
      <4>2. Aggregate.AvgResponseTime = Average(SumFunction(Durations(rs)), Len(rs))
        BY AggregateIs, Zenon
      <4>3. c.totalDuration = SumFunction(Durations(rs)) /\ c.count = Len(rs)
        BY <2>2, <2>4
      <4> QED
        BY ONLY <4>1, <4>2, <4>3
    <3>5. Stats(c).StatusCodes = Aggregate.StatusCodes
      BY <2>3, StatsIs, AggregateIs, Zenon
    <3>6. Stats(c).TtfbAvg = Aggregate.TtfbAvg
      <4>1. Stats(c).TtfbAvg = Average(c.ttfbTotal, c.ttfbCount)
        BY StatsIs, Zenon
      <4>2. Aggregate.TtfbAvg = Average(SumFunction(Ttfs(rs)), Cardinality(DOMAIN Ttfs(rs)))
        BY AggregateIs, Zenon
      <4>3. c.ttfbTotal = SumFunction(Ttfs(rs)) /\ c.ttfbCount = Cardinality(DOMAIN Ttfs(rs))
        BY <2>4
      <4> QED
        BY ONLY <4>1, <4>2, <4>3
    <3> QED
      BY <3>1, <3>2, <3>3, <3>4, <3>5, <3>6 DEF Compared
  <2>6. Stats(c).Errors = SubSeq(Aggregate.Errors, 1, Lesser(Len(Aggregate.Errors), MaxStoredErrors))
    <3>1. Stats(c).Errors = c.errors
      BY StatsIs, Zenon
    <3>2. Aggregate.Errors = Ranked(Failures(rs))
      BY AggregateIs, Zenon
    <3>3. c.errors = SubSeq(Ranked(Failures(rs)), 1,
                            Lesser(Len(Ranked(Failures(rs))), MaxStoredErrors))
      BY <2>1, ErrorsMeet
    <3> QED
      BY ONLY <3>1, <3>2, <3>3, Zenon
  <2>7. DOMAIN Aggregate \ {"Errors", "P", "TtfbP"} \subseteq Compared
    BY AggregateIs
  <2> QED
    BY <2>5, <2>6, <2>7 DEF StreamingIsBatch
<1> QED
  BY <1>1, BatchHolds, PTL

(* A percentile of the histogram is close to the one Aggregate picks out   *)
(* of the sorted durations, however many the results, and the percentiles  *)
(* of a report never decrease.                                             *)
THEOREM PercentilesMeet == Spec => []PercentilesAreClose
<1>1. BatchInv => PercentilesAreClose
  <2> SUFFICES ASSUME BatchInv PROVE PercentilesAreClose
    OBVIOUS
  <2> DEFINE c == collector
             rs == results
             D == Durations(rs)
             T == Ttfs(rs)
  <2>1. /\ rs \in Seq(Result)
        /\ HistogramOf(c.hist, D) /\ HistogramOf(c.ttfbHist, T)
    BY DEF BatchInv, TypeInv, Tracks
  <2>2. /\ D \in [Responses(rs) -> Nat] /\ T \in [Timed(rs) -> Nat]
        /\ IsFiniteSet(Responses(rs)) /\ IsFiniteSet(Timed(rs))
    BY <2>1, ValuesType
  <2>3. Reported \subseteq Thousandths /\ ReportedTTFB \subseteq Reported
    BY DEF Reported, ReportedTTFB, Thousandths
  <2>4. /\ \A p \in Reported : Stats(c).P[p] = Percentile(c.hist, p) /\ Aggregate.P[p] = Exact(D, p)
        /\ \A p \in ReportedTTFB : /\ Stats(c).TtfbP[p] = Percentile(c.ttfbHist, p)
                                    /\ Aggregate.TtfbP[p] = Exact(T, p)
    <3>1. /\ Stats(c).P = [p \in Reported |-> Percentile(c.hist, p)]
          /\ Stats(c).TtfbP = [p \in ReportedTTFB |-> Percentile(c.ttfbHist, p)]
      BY StatsIs, Zenon
    <3>2. /\ Aggregate.P = [p \in Reported |-> Exact(D, p)]
          /\ Aggregate.TtfbP = [p \in ReportedTTFB |-> Exact(T, p)]
      BY AggregateIs, Zenon
    <3> HIDE DEF c, rs, D, T
    <3> QED
      BY <3>1, <3>2
  <2> HIDE DEF c, rs, D, T
  <2>5. Observed(c.hist, D, Responses(rs)) /\ Observed(c.ttfbHist, T, Timed(rs))
    BY <2>1, <2>2 DEF Observed
  <2>6. \A p \in Reported : Close(Percentile(c.hist, p), Exact(D, p))
    BY <2>3, <2>5, PercentileIsClose
  <2>7. \A p \in ReportedTTFB : Close(Percentile(c.ttfbHist, p), Exact(T, p))
    BY <2>3, <2>5, PercentileIsClose
  <2>8. Ascending(c.hist)
    BY <2>5, PercentileAscends
  <2>9. ASSUME NEW p \in Reported, NEW q \in Reported, p <= q
        PROVE  Percentile(c.hist, p) <= Percentile(c.hist, q)
    <3> DEFINE h == c.hist
    <3>1. p \in Thousandths /\ q \in Thousandths /\ p <= q
      BY <2>3, <2>9
    <3>2. Ascending(h)
      BY <2>8
    <3> HIDE DEF h
    <3>3. Percentile(h, p) <= Percentile(h, q)
      BY ONLY <3>1, <3>2 DEF Ascending
    <3> QED
      BY <3>3 DEF h
  <2> QED
    BY <2>4, <2>6, <2>7, <2>9 DEF PercentilesAreClose, c
<1> QED
  BY <1>1, BatchHolds, PTL
=============================================================================
