------------------------------ MODULE SetLemmas ------------------------------
(***************************************************************************)
(* Facts about sets of numbers that the proofs of several components need.  *)
(* The induction theorems of the library take an operator; here a smallest  *)
(* counterexample takes their place: a set of finite sets has an element no *)
(* other is a strict subset of.                                             *)
(***************************************************************************)
EXTENDS Integers, FiniteSets, FiniteSetsExt, FiniteSetTheorems, WellFoundedInduction, TLAPS

(* A non-empty set of natural numbers has a least element. *)
LEMMA LeastNatural ==
  ASSUME NEW S \in SUBSET Nat, S # {}
  PROVE  \E x \in S : \A y \in S : x <= y
<1> DEFINE T == {0..m : m \in S}
<1>1. T # {}
  OBVIOUS
<1>2. \A X \in T : IsFiniteSet(X) /\ X \subseteq Nat
  <2> SUFFICES ASSUME NEW m \in S PROVE IsFiniteSet(0..m) /\ 0..m \subseteq Nat
    OBVIOUS
  <2> QED
    BY FS_Interval
<1>3. PICK X \in T : \A Y \in T : <<Y, X>> \notin StrictSubsetOrdering(Nat)
  <2> HIDE DEF T
  <2>1. T \subseteq FiniteSubsetsOf(Nat)
    BY <1>2 DEF FiniteSubsetsOf
  <2> QED
    BY <1>1, <2>1, WFMin, FS_StrictSubsetOrderingWellFounded
<1>4. PICK x \in S : X = 0..x
  OBVIOUS
<1>5. ASSUME NEW y \in S, y < x PROVE FALSE
  <2>1. 0..y \in T /\ 0..y \subseteq X /\ 0..y # X /\ X \subseteq Nat
    BY <1>4, <1>5
  <2> QED
    BY <1>3, <2>1 DEF StrictSubsetOrdering
<1> QED
  BY <1>5

(* Min and Max of FiniteSetsExt are what their names say, when there is such a number. *)
LEMMA MinNat ==
  ASSUME NEW S \in SUBSET Nat, S # {}
  PROVE  Min(S) \in S /\ \A y \in S : Min(S) <= y
BY LeastNatural DEF Min

LEMMA MaxBounded ==
  ASSUME NEW S \in SUBSET Int, S # {}, NEW b \in Int, \A x \in S : x <= b
  PROVE  Max(S) \in S /\ \A y \in S : y <= Max(S)
<1> DEFINE T == {b - x : x \in S}
<1>1. PICK t \in T : \A u \in T : t <= u
  <2>1. T # {}
    OBVIOUS
  <2>2. ASSUME NEW x \in S PROVE b - x \in Nat
    <3>1. x \in Int /\ x <= b
      OBVIOUS
    <3> QED
      BY <3>1
  <2>3. T \in SUBSET Nat
    BY <2>2
  <2> HIDE DEF T
  <2> QED
    BY <2>1, <2>3, LeastNatural
<1>2. PICK x \in S : t = b - x
  OBVIOUS
<1>3. \A y \in S : x >= y
  <2> SUFFICES ASSUME NEW y \in S PROVE x >= y
    OBVIOUS
  <2>1. b - y \in T
    OBVIOUS
  <2>2. b - x <= b - y /\ x \in Int /\ y \in Int
    BY <1>1, <1>2, <2>1
  <2> QED
    BY <2>2
<1> QED
  BY <1>3 DEF Max
-----------------------------------------------------------------------------
(* Sums.  MapThenSumSet adds the values of a function along some enumeration of a set; what   *)
(* the proofs need of it is shown of a sum defined without one: as many units as there are    *)
(* pairs of an element and one of its units, less those of its negative values.               *)
Units(f, S) == UNION {{x} \X (1..f[x]) : x \in S}
Debts(f, S) == UNION {{x} \X (1..-f[x]) : x \in S}
Total(f, S) == Cardinality(Units(f, S)) - Cardinality(Debts(f, S))

(* Pairs of one element are as many as its units. *)
LEMMA PairsOf ==
  ASSUME NEW x, NEW n \in Int
  PROVE  IsFiniteSet({x} \X (1..n)) /\ Cardinality({x} \X (1..n)) = IF n > 0 THEN n ELSE 0
<1>1. IsFiniteSet({x}) /\ Cardinality({x}) = 1
  BY FS_Singleton
<1>2. IsFiniteSet(1..n) /\ Cardinality(1..n) = IF n > 0 THEN n ELSE 0
  BY FS_Interval
<1>3. IsFiniteSet({x} \X (1..n)) /\ Cardinality({x} \X (1..n)) = 1 * Cardinality(1..n)
  BY <1>1, <1>2, FS_Product
<1> QED
  BY <1>2, <1>3

(* The sum over no elements is zero. *)
LEMMA TotalNone == \A f : Total(f, {}) = 0
BY FS_EmptySet DEF Total, Units, Debts

(* The units of finitely many elements are finitely many. *)
LEMMA PairsFinite ==
  ASSUME NEW g, NEW S, IsFiniteSet(S), \A x \in S : g[x] \in Int
  PROVE  IsFiniteSet(UNION {{x} \X (1..g[x]) : x \in S})
<1> DEFINE T == {{x} \X (1..g[x]) : x \in S}
<1>1. IsFiniteSet(T)
  <2> DEFINE h == [x \in S |-> {x} \X (1..g[x])]
  <2>1. h \in Surjection(S, T)
    BY DEF Surjection
  <2> HIDE DEF h, T
  <2> QED
    BY <2>1, FS_Surjection
<1>2. \A X \in T : IsFiniteSet(X)
  BY PairsOf
<1> HIDE DEF T
<1>3. IsFiniteSet(UNION T)
  BY <1>1, <1>2, FS_UNION
<1> QED
  BY <1>3 DEF T

LEMMA TotalFinite ==
  ASSUME NEW f, NEW S, IsFiniteSet(S), \A x \in S : f[x] \in Int
  PROVE  IsFiniteSet(Units(f, S)) /\ IsFiniteSet(Debts(f, S)) /\ Total(f, S) \in Int
<1>1. IsFiniteSet(Units(f, S))
  BY PairsFinite DEF Units
<1>2. IsFiniteSet(Debts(f, S))
  <2> DEFINE g == [x \in S |-> -f[x]]
  <2>1. \A x \in S : g[x] \in Int
    OBVIOUS
  <2>2. Debts(f, S) = UNION {{x} \X (1..g[x]) : x \in S}
    BY DEF Debts
  <2> HIDE DEF g
  <2> QED
    BY <2>1, <2>2, PairsFinite
<1> QED
  BY <1>1, <1>2, FS_CardinalityType DEF Total

(* Disjoint sets have as many elements together as each of them. *)
LEMMA DisjointUnion ==
  ASSUME NEW A, NEW B, IsFiniteSet(A), IsFiniteSet(B), A \cap B = {}
  PROVE  Cardinality(A \cup B) = Cardinality(A) + Cardinality(B)
<1>1. Cardinality(A \cap B) = 0 /\ Cardinality(A) \in Nat /\ Cardinality(B) \in Nat
  BY FS_EmptySet, FS_CardinalityType
<1>2. Cardinality(A \cup B) = Cardinality(A) + Cardinality(B) - Cardinality(A \cap B)
  BY FS_Union
<1> QED
  BY <1>1, <1>2

(* The sum over two disjoint sets. *)
LEMMA TotalUnion ==
  ASSUME NEW f, NEW S, NEW T, IsFiniteSet(S), IsFiniteSet(T), S \cap T = {}, \A x \in S \cup T : f[x] \in Int
  PROVE  Total(f, S \cup T) = Total(f, S) + Total(f, T)
<1>1. /\ IsFiniteSet(Units(f, S)) /\ IsFiniteSet(Debts(f, S))
      /\ IsFiniteSet(Units(f, T)) /\ IsFiniteSet(Debts(f, T))
  BY TotalFinite
<1>2. Units(f, S \cup T) = Units(f, S) \cup Units(f, T) /\ Units(f, S) \cap Units(f, T) = {}
  BY DEF Units
<1>3. Debts(f, S \cup T) = Debts(f, S) \cup Debts(f, T) /\ Debts(f, S) \cap Debts(f, T) = {}
  BY DEF Debts
<1>4. Cardinality(Units(f, S \cup T)) = Cardinality(Units(f, S)) + Cardinality(Units(f, T))
  BY <1>1, <1>2, DisjointUnion
<1>5. Cardinality(Debts(f, S \cup T)) = Cardinality(Debts(f, S)) + Cardinality(Debts(f, T))
  BY <1>1, <1>3, DisjointUnion
<1>6. /\ Cardinality(Units(f, S)) \in Nat /\ Cardinality(Units(f, T)) \in Nat
      /\ Cardinality(Debts(f, S)) \in Nat /\ Cardinality(Debts(f, T)) \in Nat
  BY <1>1, FS_CardinalityType
<1> QED
  BY <1>4, <1>5, <1>6 DEF Total

(* The sum over one element is its value. *)
LEMMA TotalOne ==
  ASSUME NEW f, NEW x, f[x] \in Int
  PROVE  Total(f, {x}) = f[x]
<1>1. Units(f, {x}) = {x} \X (1..f[x]) /\ Debts(f, {x}) = {x} \X (1..-f[x])
  BY DEF Units, Debts
<1>2. PICK n \in Int : n = f[x]
  OBVIOUS
<1>3. PICK m \in Int : m = -n
  BY <1>2
<1>4. Cardinality({x} \X (1..n)) = IF n > 0 THEN n ELSE 0
  BY PairsOf
<1>5. Cardinality({x} \X (1..m)) = IF m > 0 THEN m ELSE 0
  BY PairsOf
<1>6. Units(f, {x}) = {x} \X (1..n) /\ Debts(f, {x}) = {x} \X (1..m)
  BY <1>1, <1>2, <1>3
<1> QED
  <2>1. Total(f, {x}) = (IF n > 0 THEN n ELSE 0) - (IF m > 0 THEN m ELSE 0)
    BY <1>4, <1>5, <1>6 DEF Total
  <2> QED
    BY <1>2, <1>3, <2>1

(* With one more element its value is added. *)
LEMMA TotalAdd ==
  ASSUME NEW f, NEW S, NEW x, IsFiniteSet(S), x \notin S, \A y \in S \cup {x} : f[y] \in Int
  PROVE  Total(f, S \cup {x}) = Total(f, S) + f[x]
<1>1. IsFiniteSet({x}) /\ S \cap {x} = {}
  BY FS_Singleton
<1>2. Total(f, S \cup {x}) = Total(f, S) + Total(f, {x})
  BY <1>1, TotalUnion
<1> QED
  BY <1>2, TotalOne

(* Only the values on the set matter. *)
LEMMA TotalSame ==
  ASSUME NEW f, NEW g, NEW S, \A x \in S : f[x] = g[x]
  PROVE  Total(f, S) = Total(g, S)
<1>1. Units(f, S) = Units(g, S) /\ Debts(f, S) = Debts(g, S)
  BY DEF Units, Debts
<1> QED
  BY <1>1 DEF Total

(* If one value changes, the sum changes by as much. *)
LEMMA TotalChange ==
  ASSUME NEW f, NEW h, NEW S, IsFiniteSet(S), NEW x \in S, \A y \in S : f[y] \in Int /\ h[y] \in Int,
         \A y \in S \ {x} : f[y] = h[y]
  PROVE  Total(h, S) = Total(f, S) - f[x] + h[x]
<1>1. IsFiniteSet(S \ {x}) /\ S = (S \ {x}) \cup {x}
  BY FS_RemoveElement
<1>2. Total(f, S) = Total(f, S \ {x}) + f[x] /\ Total(h, S) = Total(h, S \ {x}) + h[x]
  BY <1>1, TotalAdd
<1>3. Total(f, S \ {x}) = Total(h, S \ {x})
  BY TotalSame
<1>4. Total(f, S \ {x}) \in Int
  BY <1>1, TotalFinite
<1> QED
  BY <1>2, <1>3, <1>4

(* A sum of no negative values is not negative. *)
LEMMA TotalNat ==
  ASSUME NEW f, NEW S, IsFiniteSet(S), \A x \in S : f[x] \in Nat
  PROVE  Total(f, S) \in Nat
<1>1. \A x \in S : f[x] \in Int /\ 1..-f[x] = {}
  OBVIOUS
<1>2. Debts(f, S) = {}
  BY <1>1 DEF Debts
<1>3. Cardinality(Units(f, S)) \in Nat
  BY <1>1, TotalFinite, FS_CardinalityType
<1> QED
  BY <1>2, <1>3, FS_EmptySet DEF Total

(* What an enumeration of the set adds up: MapThenSumSet takes any element first. *)
FirstOf(s) == CHOOSE x \in s : TRUE
Summing(f, S, it) == it = [s \in SUBSET S |-> IF s = {} THEN 0 ELSE f[FirstOf(s)] + it[s \ {FirstOf(s)}]]

LEMMA TotalFirst ==
  ASSUME NEW f, NEW S, IsFiniteSet(S), \A x \in S : f[x] \in Int, S # {}
  PROVE  Total(f, S) = f[FirstOf(S)] + Total(f, S \ {FirstOf(S)})
<1>1. PICK x \in S : x = FirstOf(S)
  BY DEF FirstOf
<1>2. IsFiniteSet(S \ {x}) /\ S = (S \ {x}) \cup {x}
  BY FS_RemoveElement
<1>3. Total(f, S) = Total(f, S \ {x}) + f[x]
  BY <1>2, TotalAdd
<1>4. Total(f, S \ {x}) \in Int
  BY <1>2, TotalFinite
<1> QED
  BY <1>1, <1>3, <1>4

LEMMA SumExists ==
  ASSUME NEW f, NEW S, IsFiniteSet(S), \A x \in S : f[x] \in Int
  PROVE  \E it : Summing(f, S, it)
<1> DEFINE it == [s \in SUBSET S |-> Total(f, s)]
<1>1. ASSUME NEW s \in SUBSET S
      PROVE  it[s] = IF s = {} THEN 0 ELSE f[FirstOf(s)] + it[s \ {FirstOf(s)}]
  <2>1. IsFiniteSet(s) /\ s \ {FirstOf(s)} \in SUBSET S
    BY FS_Subset
  <2> QED
    BY <2>1, TotalNone, TotalFirst
<1>2. Summing(f, S, it)
  BY <1>1 DEF Summing
<1> QED
  BY <1>2

LEMMA SumUnique ==
  ASSUME NEW f, NEW S, IsFiniteSet(S), \A x \in S : f[x] \in Int, NEW it, Summing(f, S, it)
  PROVE  it[S] = Total(f, S)
<1> DEFINE Bad == {s \in SUBSET S : it[s] # Total(f, s)}
<1>1. SUFFICES ASSUME Bad # {} PROVE FALSE
  OBVIOUS
<1>2. PICK s \in Bad : \A r \in Bad : <<r, s>> \notin StrictSubsetOrdering(S)
  <2>1. Bad \subseteq FiniteSubsetsOf(S)
    <3> SUFFICES ASSUME NEW r \in SUBSET S PROVE IsFiniteSet(r)
      BY DEF FiniteSubsetsOf
    <3> QED
      BY FS_Subset
  <2> HIDE DEF Bad
  <2> QED
    BY <1>1, <2>1, WFMin, FS_StrictSubsetOrderingWellFounded
<1>3. s # {}
  BY TotalNone DEF Summing
<1>4. IsFiniteSet(s) /\ FirstOf(s) \in s
  BY <1>3, FS_Subset DEF FirstOf
<1>5. PICK r : r = s \ {FirstOf(s)}
  OBVIOUS
<1>6. r \in SUBSET S /\ r \notin Bad
  <2>1. r \subseteq s /\ r # s /\ s \in SUBSET S
    BY <1>4, <1>5
  <2>2. <<r, s>> \in StrictSubsetOrdering(S)
    BY <2>1 DEF StrictSubsetOrdering
  <2> QED
    BY <1>2, <2>1, <2>2
<1>7. it[s] = f[FirstOf(s)] + it[r]
  BY <1>3, <1>5 DEF Summing
<1>8. Total(f, s) = f[FirstOf(s)] + Total(f, r)
  BY <1>3, <1>4, <1>5, TotalFirst
<1> QED
  BY <1>6, <1>7, <1>8

(* Finitely many natural numbers have a bound. *)
LEMMA FiniteBound ==
  ASSUME NEW S \in SUBSET Nat, IsFiniteSet(S)
  PROVE  \E b \in Nat : \A y \in S : y <= b
<1> DEFINE Bad == {s \in SUBSET S : ~\E b \in Nat : \A y \in s : y <= b}
<1>1. SUFFICES ASSUME Bad # {} PROVE FALSE
  OBVIOUS
<1>2. PICK s \in Bad : \A r \in Bad : <<r, s>> \notin StrictSubsetOrdering(S)
  <2>1. Bad \subseteq FiniteSubsetsOf(S)
    <3> SUFFICES ASSUME NEW r \in SUBSET S PROVE IsFiniteSet(r)
      BY DEF FiniteSubsetsOf
    <3> QED
      BY FS_Subset
  <2> HIDE DEF Bad
  <2> QED
    BY <1>1, <2>1, WFMin, FS_StrictSubsetOrderingWellFounded
<1>3. PICK x \in s : TRUE
  OBVIOUS
<1>4. PICK r : r = s \ {x}
  OBVIOUS
<1>5. <<r, s>> \in StrictSubsetOrdering(S)
  <2>1. r \subseteq s /\ r # s /\ s \in SUBSET S
    BY <1>3, <1>4
  <2> QED
    BY <2>1 DEF StrictSubsetOrdering
<1>6. PICK b \in Nat : \A y \in r : y <= b
  BY <1>2, <1>4, <1>5
<1>7. \A y \in s : y <= b + x
  BY <1>3, <1>4, <1>6
<1>8. b + x \in Nat
  BY <1>3
<1> QED
  BY <1>2, <1>7, <1>8

(* The numbers of a set below a number: one by one they make up the set. *)
Below(S, n) == {y \in S : y < n}
LEMMA BelowIs ==
  ASSUME NEW S \in SUBSET Nat
  PROVE  /\ Below(S, 0) = {}
         /\ \A m \in Nat : /\ m \notin Below(S, m)
                           /\ m \in S => Below(S, m + 1) = Below(S, m) \cup {m}
                           /\ m \notin S => Below(S, m + 1) = Below(S, m)
         /\ \A x \in S : {y \in S : y <= x} = Below(S, x + 1)
<1>1. \A y \in S : y \in Nat
  OBVIOUS
<1>2. Below(S, 0) = {}
  <2>1. \A y \in S : ~(y < 0)
    BY <1>1
  <2> QED
    BY <2>1 DEF Below
<1>3. ASSUME NEW m \in Nat
      PROVE  /\ m \notin Below(S, m)
             /\ m \in S => Below(S, m + 1) = Below(S, m) \cup {m}
             /\ m \notin S => Below(S, m + 1) = Below(S, m)
  <2>1. \A y \in S : y < m + 1 <=> y < m \/ y = m
    BY <1>1
  <2>2. m \notin Below(S, m)
    BY DEF Below
  <2>3. Below(S, m + 1) = {y \in S : y < m \/ y = m}
    BY <2>1 DEF Below
  <2> QED
    BY <2>2, <2>3 DEF Below
<1>4. ASSUME NEW x \in S PROVE {y \in S : y <= x} = Below(S, x + 1)
  <2>1. \A y \in S : y < x + 1 <=> y <= x
    BY <1>1
  <2> QED
    BY <2>1 DEF Below
<1> QED
  BY <1>2, <1>3, <1>4

(* A sum of differences is a difference: what every element of a set of numbers adds, in their *)
(* order, to what those before it came to.                                                     *)
LEMMA Telescope ==
  ASSUME NEW S \in SUBSET Nat, IsFiniteSet(S), NEW c \in [Nat -> Int], NEW f,
         \A x \in S : f[x] = c[Cardinality({y \in S : y <= x})] - c[Cardinality({y \in S : y <= x}) - 1]
  PROVE  Total(f, S) = c[Cardinality(S)] - c[0]
<1> DEFINE Bad == {n \in Nat : Total(f, Below(S, n)) # c[Cardinality(Below(S, n))] - c[0]}
<1>1. ASSUME NEW n \in Nat
      PROVE  Below(S, n) \in SUBSET S /\ IsFiniteSet(Below(S, n)) /\ Cardinality(Below(S, n)) \in Nat
  <2>1. Below(S, n) \in SUBSET S
    BY DEF Below
  <2> QED
    BY <2>1, FS_Subset, FS_CardinalityType
<1>3. ASSUME NEW x \in S
      PROVE  /\ Cardinality(Below(S, x + 1)) = Cardinality(Below(S, x)) + 1
             /\ f[x] = c[Cardinality(Below(S, x)) + 1] - c[Cardinality(Below(S, x))] /\ f[x] \in Int
  <2>0. x \in Nat
    OBVIOUS
  <2>1. Cardinality(Below(S, x + 1)) = Cardinality(Below(S, x)) + 1
    <3>1. Below(S, x + 1) = Below(S, x) \cup {x} /\ x \notin Below(S, x)
      BY <2>0, BelowIs
    <3> QED
      BY <1>1, <2>0, <3>1, FS_AddElement
  <2>2. PICK k \in Nat : k = Cardinality(Below(S, x))
    BY <1>1, <2>0
  <2>3. Cardinality({y \in S : y <= x}) = k + 1
    BY <2>1, <2>2, BelowIs
  <2>4. f[x] = c[k + 1] - c[(k + 1) - 1]
    BY <2>3
  <2>5. (k + 1) - 1 = k /\ k + 1 \in Nat
    OBVIOUS
  <2>6. c[k + 1] \in Int /\ c[k] \in Int
    BY <2>5
  <2> QED
    BY <2>1, <2>2, <2>4, <2>5, <2>6
<1>4. ASSUME Bad # {} PROVE FALSE
  <2>1. PICK n \in Bad : \A m \in Bad : n <= m
    <3>1. Bad \in SUBSET Nat
      OBVIOUS
    <3> HIDE DEF Bad
    <3> QED
      BY <1>4, <3>1, LeastNatural
  <2>2. n # 0
    <3>1. Below(S, 0) = {}
      BY BelowIs
    <3>2. Total(f, {}) = 0 /\ Cardinality({}) = 0 /\ c[0] - c[0] = 0
      BY TotalNone, FS_EmptySet
    <3> QED
      BY <2>1, <3>1, <3>2
  <2>3. n - 1 \in Nat /\ n - 1 \notin Bad
    BY <2>1, <2>2
  <2>4. PICK m \in Nat : m = n - 1
    BY <2>3
  <2>5. Total(f, Below(S, m)) = c[Cardinality(Below(S, m))] - c[0] /\ n = m + 1
    BY <2>1, <2>3, <2>4
  <2>6. CASE m \in S
    <3>1. Below(S, n) = Below(S, m) \cup {m} /\ m \notin Below(S, m)
      BY <2>5, <2>6, BelowIs
    <3>2. \A y \in Below(S, m) \cup {m} : f[y] \in Int
      BY <1>1, <1>3, <2>6
    <3>3. Total(f, Below(S, n)) = Total(f, Below(S, m)) + f[m]
      BY <1>1, <3>1, <3>2, TotalAdd
    <3>4. PICK k \in Nat : k = Cardinality(Below(S, m))
      BY <1>1
    <3>5. Cardinality(Below(S, n)) = k + 1 /\ f[m] = c[k + 1] - c[k]
      BY <1>3, <2>5, <2>6, <3>4
    <3>6. c[k] \in Int /\ c[k + 1] \in Int /\ c[0] \in Int
      OBVIOUS
    <3>7. Total(f, Below(S, n)) = c[k + 1] - c[0]
      BY <2>5, <3>3, <3>4, <3>5, <3>6
    <3> QED
      BY <2>1, <3>5, <3>7
  <2>7. CASE m \notin S
    <3>1. Below(S, n) = Below(S, m)
      BY <2>5, <2>7, BelowIs
    <3> QED
      BY <2>1, <2>5, <3>1
  <2> QED
    BY <2>6, <2>7
<1>5. PICK n \in Nat : Below(S, n) = S
  <2>1. PICK b \in Nat : \A y \in S : y <= b
    BY FiniteBound
  <2>2. \A y \in S : y < b + 1
    BY <2>1
  <2>3. Below(S, b + 1) = S
    <3>1. PICK k : k = b + 1
      OBVIOUS
    <3>2. \A y \in S : y < k
      BY <2>2, <3>1
    <3>3. {y \in S : y < k} = S
      BY <3>2
    <3> QED
      BY <3>1, <3>3 DEF Below
  <2> QED
    BY <2>3
<1>6. Total(f, Below(S, n)) = c[Cardinality(Below(S, n))] - c[0]
  BY <1>4
<1> QED
  BY <1>5, <1>6

(* Every element of the one set counts as its image in the other. *)
LEMMA TotalThrough ==
    ASSUME NEW f, NEW g, NEW S, NEW T, IsFiniteSet(S), NEW h \in Bijection(S, T),
           \A x \in S : f[x] \in Int /\ f[x] = g[h[x]]
    PROVE  IsFiniteSet(T) /\ Total(f, S) = Total(g, T)
<1>1. IsFiniteSet(T)
  BY FS_Bijection DEF ExistsBijection
<1>2. /\ \A x \in S : h[x] \in T
      /\ \A x, y \in S : h[x] = h[y] => x = y
      /\ \A y \in T : \E x \in S : h[x] = y
  BY DEF Bijection, Injection, IsInjective, Surjection
<1>3. IsFiniteSet(Units(f, S)) /\ IsFiniteSet(Debts(f, S))
  BY TotalFinite
<1>4. Cardinality(Units(f, S)) = Cardinality(Units(g, T))
  <2> DEFINE u == [w \in Units(f, S) |-> <<h[w[1]], w[2]>>]
  <2>1. \A w \in Units(f, S) : \E x \in S : \E i \in 1..f[x] : w = <<x, i>>
    BY DEF Units
  <2>2. \A w \in Units(f, S) : u[w] \in Units(g, T)
    <3> TAKE w \in Units(f, S)
    <3>1. PICK x \in S : \E i \in 1..f[x] : w = <<x, i>>
      BY <2>1
    <3>2. PICK i \in 1..f[x] : w = <<x, i>>
      BY <3>1
    <3>3. h[x] \in T /\ u[w] = <<h[x], i>> /\ i \in 1..g[h[x]]
      BY <1>2, <3>2
    <3> QED BY <3>3 DEF Units
  <2>3. \A w \in Units(g, T) : \E v \in Units(f, S) : u[v] = w
    <3> TAKE w \in Units(g, T)
    <3>1. PICK y \in T : \E i \in 1..g[y] : w = <<y, i>>
      BY DEF Units
    <3>2. PICK i \in 1..g[y] : w = <<y, i>>
      BY <3>1
    <3>3. PICK x \in S : h[x] = y
      BY <1>2
    <3>4. <<x, i>> \in Units(f, S)
      BY <3>2, <3>3 DEF Units
    <3> QED BY <3>2, <3>3, <3>4
  <2>4. \A v, w \in Units(f, S) : u[v] = u[w] => v = w
    BY <1>2, <2>1
  <2>5. u \in Bijection(Units(f, S), Units(g, T))
    BY <2>2, <2>3, <2>4 DEF Bijection, Injection, IsInjective, Surjection
  <2> HIDE DEF u
  <2> QED BY <1>3, <2>5, FS_Bijection DEF ExistsBijection
<1>5. Cardinality(Debts(f, S)) = Cardinality(Debts(g, T))
  <2> DEFINE u == [w \in Debts(f, S) |-> <<h[w[1]], w[2]>>]
  <2>1. \A w \in Debts(f, S) : \E x \in S : \E i \in 1..-f[x] : w = <<x, i>>
    BY DEF Debts
  <2>2. \A w \in Debts(f, S) : u[w] \in Debts(g, T)
    <3> TAKE w \in Debts(f, S)
    <3>1. PICK x \in S : \E i \in 1..-f[x] : w = <<x, i>>
      BY <2>1
    <3>2. PICK i \in 1..-f[x] : w = <<x, i>>
      BY <3>1
    <3>3. h[x] \in T /\ u[w] = <<h[x], i>> /\ i \in 1..-g[h[x]]
      BY <1>2, <3>2
    <3> QED BY <3>3 DEF Debts
  <2>3. \A w \in Debts(g, T) : \E v \in Debts(f, S) : u[v] = w
    <3> TAKE w \in Debts(g, T)
    <3>1. PICK y \in T : \E i \in 1..-g[y] : w = <<y, i>>
      BY DEF Debts
    <3>2. PICK i \in 1..-g[y] : w = <<y, i>>
      BY <3>1
    <3>3. PICK x \in S : h[x] = y
      BY <1>2
    <3>4. <<x, i>> \in Debts(f, S)
      BY <3>2, <3>3 DEF Debts
    <3> QED BY <3>2, <3>3, <3>4
  <2>4. \A v, w \in Debts(f, S) : u[v] = u[w] => v = w
    BY <1>2, <2>1
  <2>5. u \in Bijection(Debts(f, S), Debts(g, T))
    BY <2>2, <2>3, <2>4 DEF Bijection, Injection, IsInjective, Surjection
  <2> HIDE DEF u
  <2> QED BY <1>3, <2>5, FS_Bijection DEF ExistsBijection
<1> QED BY <1>1, <1>4, <1>5 DEF Total
=============================================================================
