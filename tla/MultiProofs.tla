---------------------------- MODULE MultiProofs -----------------------------
(***************************************************************************)
(* What holds of module Multi for any number of executors, configs and     *)
(* workers, any weights, cap and length of a rental.                       *)
(***************************************************************************)
EXTENDS Multi, Integers, FiniteSetTheorems, WellFoundedInduction, TLAPS

-----------------------------------------------------------------------------
(* Arithmetic                                                              *)

LEMMA TimesMonotone ==
  ASSUME NEW m \in Nat, NEW a \in Nat, NEW b \in Nat, a <= b
  PROVE  m * a <= m * b /\ m * a \in Nat /\ m * b \in Nat
<1>1. PICK d \in Nat : b = a + d
  BY b - a \in Nat, b = a + (b - a)
<1>2. m * b = m * a + m * d
  BY <1>1
<1>3. m * d \in Nat /\ m * a \in Nat
  OBVIOUS
<1>4. QED
  BY <1>2, <1>3

LEMMA Cancel ==
  ASSUME NEW m \in Nat \ {0}, NEW a \in Int, NEW b \in Int
  PROVE  (m * a <= m * b => a <= b) /\ (m * a < m * b => a < b)
<1>1. ASSUME a > b PROVE m * a > m * b
  <2>1. PICK d \in Nat \ {0} : a = b + d
    <3>1. a - b \in Nat \ {0} /\ a = b + (a - b)
      BY <1>1
    <3>2. QED
      BY <3>1
  <2>2. m * a = m * b + m * d
    BY <2>1
  <2>3. m * d > 0 /\ m * d \in Int /\ m * b \in Int
    BY <2>1
  <2>4. QED
    BY <2>2, <2>3
<1>2. QED
  BY <1>1

LEMMA Divided ==
  ASSUME NEW a \in Nat, NEW m \in Nat \ {0}
  PROVE  /\ a = m * (a \div m) + (a % m)
         /\ a \div m \in Nat /\ a % m \in 0 .. m - 1
OBVIOUS

\* A nonempty set of numbers has a least one.
LEMMA LeastNumber ==
  ASSUME NEW T, T \subseteq Nat, T # {}
  PROVE  \E n \in T : \A m \in T : n <= m
<1>1. PICK n \in T : \A m \in T : ~ (<<m, n>> \in OpToRel(<, Nat))
  BY NatLessThanWellFounded, WFMin
<1>2. \A m \in T : ~ (m < n)
  BY <1>1 DEF OpToRel
<1>3. QED
  BY <1>2

-----------------------------------------------------------------------------
(* Sums over finite sets                                                   *)

\* The sum Budget and Multi write out, over a function.
Added(f, S) == MapThenSumSet(LAMBDA e : f[e], S)

Some(s) == CHOOSE x \in s : TRUE
Adds(g, f, S) == g = [s \in SUBSET S |-> IF s = {} THEN 0 ELSE f[Some(s)] + g[s \ {Some(s)}]]

LEMMA SomeIsIn == ASSUME NEW S, S # {} PROVE Some(S) \in S
BY DEF Some

\* Induction over the subsets of a finite set, smaller sets first.
LEMMA SubsetInduction ==
  ASSUME NEW S, IsFiniteSet(S), NEW A,
         \A T \in SUBSET S : (\A U \in SUBSET T : U # T => U \in A) => T \in A
  PROVE  \A T \in SUBSET S : T \in A
<1> DEFINE Bad == {T \in SUBSET S : T \notin A}
<1>1. SUFFICES ASSUME Bad # {} PROVE FALSE
  OBVIOUS
<1>2. FiniteSubsetsOf(S) = SUBSET S
  BY FS_FiniteSubsetsOfFinite
<1>3. IsWellFoundedOn(StrictSubsetOrdering(S), SUBSET S)
  BY <1>2, FS_StrictSubsetOrderingWellFounded
<1>4. PICK T \in Bad : \A U \in Bad : ~ (<<U, T>> \in StrictSubsetOrdering(S))
  <2>1. Bad \subseteq SUBSET S
    OBVIOUS
  <2> HIDE DEF Bad
  <2>2. QED
    BY <1>1, <1>3, <2>1, WFMin
<1>5. \A U \in Bad : ~ (U \subseteq T /\ U # T)
  BY <1>4 DEF StrictSubsetOrdering
<1>6. \A U \in SUBSET T : U # T => U \in A
  BY <1>5
<1>7. QED
  BY <1>6

LEMMA AddedIter == ASSUME NEW f, NEW S PROVE Added(f, S) = (CHOOSE g : Adds(g, f, S))[S]
BY DEF Added, MapThenSumSet, MapThenFoldSet, Adds, Some

LEMMA AddsEquation ==
  ASSUME NEW f, NEW g, NEW S, Adds(g, f, S), NEW T \in SUBSET S
  PROVE  g[T] = IF T = {} THEN 0 ELSE f[Some(T)] + g[T \ {Some(T)}]
BY DEF Adds

LEMMA AddsUnique ==
  ASSUME NEW f, NEW S, IsFiniteSet(S), NEW g, NEW h, Adds(g, f, S), Adds(h, f, S)
  PROVE  g = h
<1> DEFINE A == {T \in SUBSET S : g[T] = h[T]}
<1>1. ASSUME NEW T \in SUBSET S, \A U \in SUBSET T : U # T => U \in A
      PROVE  T \in A
  <2>1. CASE T = {}
    BY <2>1, AddsEquation
  <2>2. CASE T # {}
    <3> DEFINE U == T \ {Some(T)}
    <3>1. U \in A
      BY <1>1, <2>2, SomeIsIn
    <3>2. g[T] = f[Some(T)] + g[U] /\ h[T] = f[Some(T)] + h[U]
      BY <2>2, AddsEquation
    <3>3. QED
      BY <3>1, <3>2
  <2>3. QED
    BY <2>1, <2>2
<1>2. \A T \in SUBSET S : T \in A
  <2> HIDE DEF A
  <2> QED
    BY <1>1, SubsetInduction
<1>3. QED
  BY <1>2 DEF Adds

LEMMA AddsRestrict ==
  ASSUME NEW f, NEW S, NEW g, Adds(g, f, S), NEW T \in SUBSET S
  PROVE  Adds([s \in SUBSET T |-> g[s]], f, T)
<1> DEFINE h == [s \in SUBSET T |-> g[s]]
<1>1. ASSUME NEW s \in SUBSET T
      PROVE  h[s] = IF s = {} THEN 0 ELSE f[Some(s)] + h[s \ {Some(s)}]
  <2>1. s \ {Some(s)} \in SUBSET T
    OBVIOUS
  <2>2. QED
    BY <2>1, AddsEquation
<1>2. QED
  BY <1>1 DEF Adds

LEMMA AddsValue ==
  ASSUME NEW f, NEW S, IsFiniteSet(S), NEW g, Adds(g, f, S), NEW T \in SUBSET S
  PROVE  g[T] = Added(f, T)
<1> DEFINE h == [s \in SUBSET T |-> g[s]]
           k == CHOOSE q : Adds(q, f, T)
<1>1. Adds(h, f, T)
  BY AddsRestrict
<1>2. Adds(k, f, T)
  BY <1>1
<1>3. h = k
  <2>1. IsFiniteSet(T)
    BY FS_Subset
  <2> HIDE DEF h, k
  <2> QED
    BY <1>1, <1>2, <2>1, AddsUnique
<1>4. k[T] = Added(f, T)
  BY AddedIter
<1>5. QED
  BY <1>3, <1>4

LEMMA AddsExists ==
  ASSUME NEW f, NEW S, IsFiniteSet(S)
  PROVE  \E g : Adds(g, f, S)
<1> DEFINE A == {T \in SUBSET S : \E g : Adds(g, f, T)}
<1>1. ASSUME NEW T \in SUBSET S, \A U \in SUBSET T : U # T => U \in A
      PROVE  T \in A
  <2> DEFINE g == [s \in SUBSET T |->
                    IF s = {} THEN 0 ELSE f[Some(s)] + Added(f, s \ {Some(s)})]
  <2>1. ASSUME NEW U \in SUBSET T, U # T PROVE g[U] = Added(f, U)
    <3>1. PICK h : Adds(h, f, U)
      BY <1>1, <2>1
    <3>2. IsFiniteSet(U)
      BY <2>1, FS_Subset
    <3>3. U \in SUBSET U /\ U \ {Some(U)} \in SUBSET U
      OBVIOUS
    <3>4. \A V \in SUBSET U : h[V] = Added(f, V)
      BY <3>1, <3>2, AddsValue
    <3>5. h[U] = IF U = {} THEN 0 ELSE f[Some(U)] + h[U \ {Some(U)}]
      BY <3>1, <3>3, AddsEquation
    <3>6. QED
      BY <3>3, <3>4, <3>5
  <2>2. ASSUME NEW s \in SUBSET T
        PROVE  g[s] = IF s = {} THEN 0 ELSE f[Some(s)] + g[s \ {Some(s)}]
    <3>1. CASE s = {}
      BY <3>1
    <3>2. CASE s # {}
      <4>1. s \ {Some(s)} \in SUBSET T /\ s \ {Some(s)} # T
        BY <3>2, SomeIsIn
      <4>2. g[s \ {Some(s)}] = Added(f, s \ {Some(s)})
        BY <4>1, <2>1
      <4>3. QED
        BY <3>2, <4>2
    <3>3. QED
      BY <3>1, <3>2
  <2>3. Adds(g, f, T)
    BY <2>2 DEF Adds
  <2>4. QED
    BY <2>3
<1>2. \A T \in SUBSET S : T \in A
  <2> HIDE DEF A
  <2> QED
    BY <1>1, SubsetInduction
<1>3. QED
  BY <1>2

\* The equation of the fold.
LEMMA AddedEquation ==
  ASSUME NEW f, NEW S, IsFiniteSet(S)
  PROVE  Added(f, S) = IF S = {} THEN 0 ELSE f[Some(S)] + Added(f, S \ {Some(S)})
<1>1. PICK g : Adds(g, f, S)
  BY AddsExists
<1>2. S \in SUBSET S /\ S \ {Some(S)} \in SUBSET S
  OBVIOUS
<1>3. g[S] = Added(f, S) /\ g[S \ {Some(S)}] = Added(f, S \ {Some(S)})
  BY <1>1, <1>2, AddsValue
<1>4. QED
  BY <1>1, <1>2, <1>3, AddsEquation

LEMMA AddedEmpty ==
  ASSUME NEW f
  PROVE  Added(f, {}) = 0
BY AddedEquation, FS_EmptySet

\* Any element may be taken first.
LEMMA AddedStep ==
  ASSUME NEW f, NEW S, IsFiniteSet(S), \A x \in S : f[x] \in Int
  PROVE  /\ Added(f, S) \in Int
         /\ \A x \in S : Added(f, S) = f[x] + Added(f, S \ {x})
<1> DEFINE A == {T \in SUBSET S : /\ Added(f, T) \in Int
                                  /\ \A x \in T : Added(f, T) = f[x] + Added(f, T \ {x})}
<1>1. ASSUME NEW T \in SUBSET S, \A U \in SUBSET T : U # T => U \in A
      PROVE  T \in A
  <2>1. IsFiniteSet(T)
    BY FS_Subset
  <2>2. CASE T = {}
    BY <2>2, AddedEmpty
  <2>3. CASE T # {}
    <3> DEFINE y == Some(T)
               V == T \ {y}
    <3>1. y \in T
      BY <2>3, SomeIsIn
    <3> HIDE DEF y
    <3>2. Added(f, T) = f[y] + Added(f, V)
      BY <2>1, <2>3, AddedEquation DEF y
    <3>3. V \in A
      BY <1>1, <3>1
    <3>4. Added(f, T) \in Int
      BY <3>1, <3>2, <3>3
    <3>5. ASSUME NEW x \in T, x # y
          PROVE  Added(f, T) = f[x] + Added(f, T \ {x})
      <4> DEFINE W == T \ {x}
                 Z == V \ {x}
      <4>1. W \in A /\ Z \in A
        BY <1>1, <3>1, <3>5
      <4>2. x \in V /\ y \in W /\ W \ {y} = Z
        BY <3>1, <3>5
      <4>3. Added(f, V) = f[x] + Added(f, Z)
        BY <3>3, <4>2
      <4>4. Added(f, W) = f[y] + Added(f, Z)
        BY <4>1, <4>2
      <4>5. f[x] \in Int /\ f[y] \in Int /\ Added(f, Z) \in Int
        BY <3>1, <4>1
      <4> HIDE DEF V, W, Z, A
      <4>6. QED
        BY <3>2, <4>3, <4>4, <4>5 DEF W
    <3>6. QED
      BY <3>2, <3>4, <3>5
  <2>4. QED
    BY <2>2, <2>3
<1>2. \A T \in SUBSET S : T \in A
  <2> HIDE DEF A
  <2> QED
    BY <1>1, SubsetInduction
<1>3. QED
  BY <1>2

\* What is true of the empty sum and survives one more element is true of all.
LEMMA GrowingInduction ==
  ASSUME NEW S, IsFiniteSet(S), NEW A, {} \in A,
         \A T \in SUBSET S : \A x \in S : T \in A /\ x \notin T => T \cup {x} \in A
  PROVE  S \in A
<1>1. ASSUME NEW T \in SUBSET S, \A U \in SUBSET T : U # T => U \in A
      PROVE  T \in A
  <2>1. CASE T = {}
    BY <2>1
  <2>2. ASSUME NEW x \in T PROVE T \in A
    <3>1. T \ {x} \in A /\ T \ {x} \in SUBSET S
      BY <1>1, <2>2
    <3>2. (T \ {x}) \cup {x} \in A
      BY <3>1, <2>2
    <3>3. (T \ {x}) \cup {x} = T
      BY <2>2
    <3>4. QED
      BY <3>2, <3>3
  <2>3. QED
    BY <2>1, <2>2
<1>2. QED
  BY <1>1, SubsetInduction

\* One more summand.
LEMMA AddedMore ==
  ASSUME NEW f, NEW T, IsFiniteSet(T), NEW x, x \notin T, \A y \in T \cup {x} : f[y] \in Int
  PROVE  Added(f, T) \in Int /\ Added(f, T \cup {x}) = Added(f, T) + f[x]
<1> DEFINE S == T \cup {x}
<1>1. IsFiniteSet(S)
  BY FS_AddElement
<1>2. Added(f, S) = f[x] + Added(f, S \ {x})
  BY <1>1, AddedStep
<1>3. S \ {x} = T
  OBVIOUS
<1>4. Added(f, T) \in Int /\ f[x] \in Int
  BY AddedStep
<1>5. Added(f, S) = f[x] + Added(f, T)
  BY <1>2, <1>3
<1>6. QED
  BY <1>4, <1>5

\* Sums add up, scale and compare term by term.
LEMMA AddedSplit ==
  ASSUME NEW S, IsFiniteSet(S), NEW f, NEW g, NEW h, NEW k \in Int,
         \A x \in S : f[x] \in Int /\ g[x] \in Int /\ h[x] = k * f[x] + g[x]
  PROVE  Added(h, S) = k * Added(f, S) + Added(g, S)
<1> DEFINE A == {T \in SUBSET S : Added(h, T) = k * Added(f, T) + Added(g, T)}
<1>1. {} \in A
  BY AddedEmpty
<1>2. ASSUME NEW T \in SUBSET S, NEW x \in S, T \in A, x \notin T
      PROVE  T \cup {x} \in A
  <2>1. IsFiniteSet(T)
    BY FS_Subset
  <2>2. \A y \in T \cup {x} : f[y] \in Int /\ g[y] \in Int /\ h[y] \in Int
    BY <1>2
  <2>3. /\ Added(f, T) \in Int /\ Added(f, T \cup {x}) = Added(f, T) + f[x]
        /\ Added(g, T) \in Int /\ Added(g, T \cup {x}) = Added(g, T) + g[x]
        /\ Added(h, T) \in Int /\ Added(h, T \cup {x}) = Added(h, T) + h[x]
    BY <1>2, <2>1, <2>2, AddedMore
  <2>4. f[x] \in Int /\ g[x] \in Int /\ h[x] = k * f[x] + g[x]
    OBVIOUS
  <2>5. \A a, b \in Int : k * (a + b) = k * a + k * b
    OBVIOUS
  <2>6. Added(h, T) = k * Added(f, T) + Added(g, T)
    BY <1>2
  <2>7. Added(h, T \cup {x}) = k * Added(f, T \cup {x}) + Added(g, T \cup {x})
    <3> HIDE DEF A
    <3> QED
      BY <2>3, <2>4, <2>5, <2>6
  <2>8. QED
    BY <2>7
<1>3. QED
  <2> HIDE DEF A
  <2>1. S \in A
    BY <1>1, <1>2, GrowingInduction
  <2>2. QED
    BY <2>1 DEF A

LEMMA AddedCompare ==
  ASSUME NEW S, IsFiniteSet(S), NEW f, NEW g, \A x \in S : f[x] \in Int /\ g[x] \in Int /\ f[x] <= g[x]
  PROVE  /\ Added(f, S) <= Added(g, S)
         /\ (\A x \in S : f[x] < g[x]) /\ S # {} => Added(f, S) < Added(g, S)
<1> DEFINE A == {T \in SUBSET S : /\ Added(f, T) <= Added(g, T)
                                  /\ (\A x \in S : f[x] < g[x]) /\ T # {} => Added(f, T) < Added(g, T)}
<1>1. {} \in A
  BY AddedEmpty
<1>2. ASSUME NEW T \in SUBSET S, NEW x \in S, T \in A, x \notin T
      PROVE  T \cup {x} \in A
  <2>1. IsFiniteSet(T)
    BY FS_Subset
  <2>2. /\ Added(f, T) \in Int /\ Added(f, T \cup {x}) = Added(f, T) + f[x]
        /\ Added(g, T) \in Int /\ Added(g, T \cup {x}) = Added(g, T) + g[x]
    BY <1>2, <2>1, AddedMore
  <2>3. QED
    BY <1>2, <2>2
<1>3. QED
  <2> HIDE DEF A
  <2>1. S \in A
    BY <1>1, <1>2, GrowingInduction
  <2>2. QED
    BY <2>1 DEF A

\* The sum of a set's indicator is its size, and a bounded sum is below so many bounds.
LEMMA AddedCounts ==
  ASSUME NEW S, IsFiniteSet(S), NEW T, NEW f, \A x \in S : f[x] = IF x \in T THEN 1 ELSE 0
  PROVE  Added(f, S) = Cardinality(S \cap T)
<1> DEFINE A == {R \in SUBSET S : Added(f, R) = Cardinality(R \cap T)}
<1>1. {} \in A
  BY AddedEmpty, FS_EmptySet
<1>2. ASSUME NEW R \in SUBSET S, NEW x \in S, R \in A, x \notin R
      PROVE  R \cup {x} \in A
  <2>1. IsFiniteSet(R) /\ IsFiniteSet(R \cap T)
    BY FS_Subset, FS_Intersection
  <2>2. Added(f, R \cup {x}) = Added(f, R) + f[x]
    BY <1>2, <2>1, AddedMore
  <2>3. Cardinality(R \cap T) \in Nat
    BY <2>1, FS_CardinalityType
  <2>4. CASE x \in T
    <3>1. (R \cup {x}) \cap T = (R \cap T) \cup {x} /\ x \notin R \cap T
      BY <1>2, <2>4
    <3>2. Cardinality((R \cup {x}) \cap T) = Cardinality(R \cap T) + 1
      BY <2>1, <3>1, FS_AddElement
    <3>3. QED
      BY <1>2, <2>2, <2>3, <2>4, <3>2
  <2>5. CASE x \notin T
    <3>1. (R \cup {x}) \cap T = R \cap T
      BY <2>5
    <3>2. Added(f, R) = Cardinality(R \cap T) /\ f[x] = 0
      BY <1>2, <2>5
    <3>3. Added(f, R \cup {x}) = Added(f, R)
      BY <2>2, <2>3, <3>2
    <3>4. Added(f, R) = Cardinality(R \cap T)
      BY <3>2
    <3>5. QED
      BY <3>1, <3>3, <3>4
  <2>6. QED
    BY <2>4, <2>5
<1>3. QED
  <2> HIDE DEF A
  <2>1. S \in A
    BY <1>1, <1>2, GrowingInduction
  <2>2. QED
    BY <2>1 DEF A

LEMMA AddedBound ==
  ASSUME NEW S, IsFiniteSet(S), NEW m \in Nat, NEW f, \A x \in S : f[x] \in 0 .. m
  PROVE  Added(f, S) \in Nat /\ Added(f, S) <= m * Cardinality(S)
<1> DEFINE A == {T \in SUBSET S : Added(f, T) \in Nat /\ Added(f, T) <= m * Cardinality(T)}
<1>1. {} \in A
  BY AddedEmpty, FS_EmptySet
<1>2. ASSUME NEW T \in SUBSET S, NEW x \in S, T \in A, x \notin T
      PROVE  T \cup {x} \in A
  <2>1. IsFiniteSet(T)
    BY FS_Subset
  <2>2. Added(f, T \cup {x}) = Added(f, T) + f[x]
    BY <1>2, <2>1, AddedMore
  <2>3. Cardinality(T) \in Nat /\ Cardinality(T \cup {x}) = Cardinality(T) + 1
    BY <1>2, <2>1, FS_CardinalityType, FS_AddElement
  <2>4. \A a \in Nat : m * (a + 1) = m * a + m
    OBVIOUS
  <2>5. \A a \in Nat : m * a \in Nat
    OBVIOUS
  <2>6. QED
    BY <1>2, <2>2, <2>3, <2>4, <2>5
<1>3. QED
  <2> HIDE DEF A
  <2>1. S \in A
    BY <1>1, <1>2, GrowingInduction
  <2>2. QED
    BY <2>1 DEF A

\* A part of the summands makes a part of the sum.
LEMMA AddedWithin ==
  ASSUME NEW S, IsFiniteSet(S), NEW T \in SUBSET S, NEW f, \A x \in S : f[x] \in Nat
  PROVE  Added(f, T) \in Nat /\ Added(f, S) \in Nat /\ Added(f, T) <= Added(f, S)
<1> DEFINE A == {R \in SUBSET S : /\ Added(f, R \cap T) \in Nat /\ Added(f, R) \in Nat
                                  /\ Added(f, R \cap T) <= Added(f, R)}
<1>1. {} \in A
  BY AddedEmpty
<1>2. ASSUME NEW R \in SUBSET S, NEW x \in S, R \in A, x \notin R
      PROVE  R \cup {x} \in A
  <2>1. IsFiniteSet(R) /\ IsFiniteSet(R \cap T)
    BY FS_Subset, FS_Intersection
  <2>2. Added(f, R \cup {x}) = Added(f, R) + f[x]
    BY <1>2, <2>1, AddedMore
  <2>3. Added(f, (R \cap T) \cup {x}) = Added(f, R \cap T) + f[x]
    <3>1. x \notin R \cap T /\ \A y \in (R \cap T) \cup {x} : f[y] \in Int
      BY <1>2
    <3>2. QED
      BY <2>1, <3>1, AddedMore
  <2>4. (R \cup {x}) \cap T = (R \cap T) \cup {x} \/ (R \cup {x}) \cap T = R \cap T
    OBVIOUS
  <2>5. f[x] \in Nat
    OBVIOUS
  <2>6. QED
    BY <1>2, <2>2, <2>3, <2>4, <2>5
<1>3. S \in A
  <2> HIDE DEF A
  <2> QED
    BY <1>1, <1>2, GrowingInduction
<1>4. S \cap T = T
  OBVIOUS
<1>5. QED
  BY <1>3, <1>4

-----------------------------------------------------------------------------
(* split_configs: every config goes to one executor, and a share is fair   *)

\* The parts of Counts, by name.
Share(w)    == [e \in Executors |-> (w[e] * NConfigs) \div Total(w)]
Rest(w)     == [e \in Executors |-> (w[e] * NConfigs) % Total(w)]
Over(w)     == NConfigs - Added(Share(w), Executors)
Ahead(w, e) == {f \in Executors : \/ Rest(w)[f] > Rest(w)[e]
                                  \/ Rest(w)[f] = Rest(w)[e] /\ f < e}
Bonus(w)    == [e \in Executors |-> IF Cardinality(Ahead(w, e)) < Over(w) THEN 1 ELSE 0]

LEMMA CountsByPart ==
  ASSUME NEW w
  PROVE  Counts(w) = [e \in Executors |-> Share(w)[e] + Bonus(w)[e]]
<1>1. Counts(w) = [e \in Executors |->
        Share(w)[e] + IF Cardinality(Ahead(w, e)) < Over(w) THEN 1 ELSE 0]
  BY DEF Counts, Share, Rest, Over, Ahead, Added
<1>2. QED
  BY <1>1 DEF Bonus

LEMMA ExecutorsAreFinite ==
  /\ IsFiniteSet(Executors) /\ Cardinality(Executors) = NExecutors /\ NExecutors \in Nat \ {0}
BY MultiAssumption, FS_Interval DEF Executors

LEMMA TotalIsPositive ==
  ASSUME NEW w \in Weightings
  PROVE  Total(w) \in Nat \ {0} /\ Total(w) = Added(w, Executors)
<1>1. PICK e \in Executors : w[e] > 0
  BY MultiAssumption
<1>2. \A f \in Executors : w[f] \in Nat
  BY MultiAssumption
<1>3. Added(w, Executors) = w[e] + Added(w, Executors \ {e})
  BY <1>2, ExecutorsAreFinite, AddedStep
<1>4. Added(w, Executors \ {e}) \in Nat
  BY <1>2, ExecutorsAreFinite, AddedWithin
<1>5. Total(w) = Added(w, Executors)
  BY DEF Total, Added
<1>6. QED
  BY <1>1, <1>2, <1>3, <1>4, <1>5

LEMMA SharesAndRests ==
  ASSUME NEW w \in Weightings
  PROVE  /\ Share(w) \in [Executors -> Nat]
         /\ Rest(w) \in [Executors -> 0 .. Total(w) - 1]
         /\ \A e \in Executors : w[e] * NConfigs = Total(w) * Share(w)[e] + Rest(w)[e]
<1>1. ASSUME NEW e \in Executors
      PROVE  /\ w[e] * NConfigs = Total(w) * Share(w)[e] + Rest(w)[e]
             /\ Share(w)[e] \in Nat /\ Rest(w)[e] \in 0 .. Total(w) - 1
  <2>1. w[e] * NConfigs \in Nat
    BY MultiAssumption, TimesMonotone
  <2>2. QED
    BY <2>1, TotalIsPositive, Divided DEF Share, Rest
<1>2. QED
  BY <1>1 DEF Share, Rest

\* What the whole shares leave over is paid for by the remainders.
LEMMA OverTimesTotal ==
  ASSUME NEW w \in Weightings
  PROVE  /\ Over(w) \in Int
         /\ Total(w) * Over(w) = Added(Rest(w), Executors)
         /\ Added(Share(w), Executors) \in Nat
<1> DEFINE m == Total(w)
           a == Added(Share(w), Executors)
           r == Added(Rest(w), Executors)
           h == [e \in Executors |-> w[e] * NConfigs]
           z == [e \in Executors |-> 0]
<1>1. \A e \in Executors : w[e] \in Int /\ Share(w)[e] \in Nat /\ Rest(w)[e] \in Int
  BY MultiAssumption, SharesAndRests, TotalIsPositive
<1>2. Added(h, Executors) = m * a + r
  <2>1. m \in Int
    BY TotalIsPositive
  <2>2. \A e \in Executors : h[e] = m * Share(w)[e] + Rest(w)[e]
    BY SharesAndRests
  <2>3. \A e \in Executors : Share(w)[e] \in Int
    BY <1>1
  <2> HIDE DEF h, m
  <2>4. QED
    BY <1>1, <2>1, <2>2, <2>3, ExecutorsAreFinite, AddedSplit
<1>3. Added(h, Executors) = NConfigs * m
  <2>1. NConfigs \in Int
    BY MultiAssumption
  <2>2. \A e \in Executors : h[e] = NConfigs * w[e] + z[e] /\ z[e] \in Int
    BY <1>1, <2>1
  <2>3. Added(h, Executors) = NConfigs * Added(w, Executors) + Added(z, Executors)
    <3> HIDE DEF h, z
    <3> QED
      BY <1>1, <2>1, <2>2, ExecutorsAreFinite, AddedSplit
  <2>4. \A e \in Executors : z[e] = IF e \in {} THEN 1 ELSE 0
    OBVIOUS
  <2>5. Added(z, Executors) = 0
    <3>1. Added(z, Executors) = Cardinality(Executors \cap {})
      BY <2>4, ExecutorsAreFinite, AddedCounts
    <3>2. QED
      BY <3>1, FS_EmptySet
  <2>6. NConfigs * Added(w, Executors) \in Int
    BY <2>1, TotalIsPositive
  <2>7. QED
    BY <2>3, <2>5, <2>6, TotalIsPositive
<1>4. a \in Nat /\ r \in Int
  <2>1. a \in Nat
    BY <1>1, ExecutorsAreFinite, AddedWithin
  <2>2. QED
    BY <1>1, <2>1, ExecutorsAreFinite, AddedStep
<1>5. m \in Nat /\ NConfigs \in Nat
  BY MultiAssumption, TotalIsPositive
<1>6. Over(w) = NConfigs - a
  BY DEF Over
<1> HIDE DEF m, a, r, h
<1>7. m * (NConfigs - a) = NConfigs * m - m * a
  BY <1>4, <1>5
<1>8. m * Over(w) = r
  BY <1>2, <1>3, <1>4, <1>5, <1>6, <1>7
<1>9. QED
  BY <1>4, <1>5, <1>6, <1>8 DEF m, a, r

\* There are places left over for those who lost something, and not for all.
LEMMA OverIsSmall ==
  ASSUME NEW w \in Weightings
  PROVE  /\ Over(w) \in 0 .. NExecutors - 1
         /\ Over(w) <= Cardinality({e \in Executors : Rest(w)[e] > 0})
<1> DEFINE m == Total(w)
           r == Added(Rest(w), Executors)
           P == {e \in Executors : Rest(w)[e] > 0}
           one == [e \in Executors |-> 1]
           pos == [e \in Executors |-> IF e \in P THEN 1 ELSE 0]
           all == [e \in Executors |-> m]
           lost == [e \in Executors |-> m * pos[e]]
           z == [e \in Executors |-> 0]
<1>1. m \in Nat \ {0} /\ m * Over(w) = r /\ Over(w) \in Int
  BY TotalIsPositive, OverTimesTotal
<1>2. \A e \in Executors : Rest(w)[e] \in 0 .. m - 1
  BY SharesAndRests
<1>3. r \in Nat
  <2>1. \A e \in Executors : Rest(w)[e] \in Nat
    BY <1>1, <1>2
  <2>2. QED
    BY <2>1, ExecutorsAreFinite, AddedWithin
<1>4. Over(w) >= 0
  <2>1. m * 0 <= m * Over(w)
    BY <1>1, <1>3
  <2>2. QED
    BY <1>1, <2>1, Cancel
<1>5. Added(z, Executors) = 0
  <2>1. \A e \in Executors : z[e] = IF e \in {} THEN 1 ELSE 0
    OBVIOUS
  <2>2. Added(z, Executors) = Cardinality(Executors \cap {})
    BY <2>1, ExecutorsAreFinite, AddedCounts
  <2>3. QED
    BY <2>2, FS_EmptySet
<1>6. r < m * NExecutors
  <2>1. Added(one, Executors) = NExecutors
    <3>1. \A e \in Executors : one[e] = IF e \in Executors THEN 1 ELSE 0
      OBVIOUS
    <3>2. Added(one, Executors) = Cardinality(Executors \cap Executors)
      <4> HIDE DEF one
      <4> QED
        BY <3>1, ExecutorsAreFinite, AddedCounts
    <3>3. Executors \cap Executors = Executors
      OBVIOUS
    <3>4. QED
      BY <3>2, <3>3, ExecutorsAreFinite
  <2>2. \A e \in Executors : one[e] \in Int /\ z[e] \in Int /\ all[e] = m * one[e] + z[e]
    BY <1>1
  <2>3. Added(all, Executors) = m * Added(one, Executors) + Added(z, Executors)
    <3>1. m \in Int
      BY <1>1
    <3> HIDE DEF all, one, z, m
    <3>2. QED
      BY <2>2, <3>1, ExecutorsAreFinite, AddedSplit
  <2>4. \A e \in Executors : Rest(w)[e] \in Int /\ all[e] \in Int /\ Rest(w)[e] <= all[e] /\ Rest(w)[e] < all[e]
    BY <1>1, <1>2
  <2>5. Executors # {}
    BY ExecutorsAreFinite, FS_EmptySet
  <2>6. r < Added(all, Executors)
    <3> HIDE DEF all
    <3> QED
      BY <2>4, <2>5, ExecutorsAreFinite, AddedCompare
  <2>7. m * NExecutors \in Int
    BY <1>1, ExecutorsAreFinite
  <2>8. Added(all, Executors) = m * NExecutors
    BY <1>5, <2>1, <2>3, <2>7
  <2>9. QED
    BY <2>6, <2>8
<1>7. Over(w) < NExecutors
  <2>1. m * Over(w) < m * NExecutors
    BY <1>1, <1>6
  <2>2. NExecutors \in Int
    BY ExecutorsAreFinite
  <2>3. QED
    BY <1>1, <2>1, <2>2, Cancel
<1>8. r <= m * Cardinality(P)
  <2>1. Added(pos, Executors) = Cardinality(P)
    <3>1. \A e \in Executors : pos[e] = IF e \in P THEN 1 ELSE 0
      OBVIOUS
    <3>2. Added(pos, Executors) = Cardinality(Executors \cap P)
      <4> HIDE DEF pos, P
      <4> QED
        BY <3>1, ExecutorsAreFinite, AddedCounts
    <3>3. Executors \cap P = P
      OBVIOUS
    <3>4. QED
      BY <3>2, <3>3
  <2>2. \A e \in Executors : pos[e] \in Int /\ z[e] \in Int /\ lost[e] = m * pos[e] + z[e]
    BY <1>1
  <2>3. Added(lost, Executors) = m * Added(pos, Executors) + Added(z, Executors)
    <3>1. m \in Int
      BY <1>1
    <3> HIDE DEF lost, pos, z, m
    <3>2. QED
      BY <2>2, <3>1, ExecutorsAreFinite, AddedSplit
  <2>4. \A e \in Executors : Rest(w)[e] \in Int /\ lost[e] \in Int /\ Rest(w)[e] <= lost[e]
    BY <1>1, <1>2
  <2>5. r <= Added(lost, Executors)
    <3> HIDE DEF lost
    <3> QED
      BY <2>4, ExecutorsAreFinite, AddedCompare
  <2>6. Cardinality(P) \in Nat
    BY ExecutorsAreFinite, FS_Subset, FS_CardinalityType
  <2>7. m * Cardinality(P) \in Int
    BY <1>1, <2>6
  <2>8. Added(lost, Executors) = m * Cardinality(P)
    <3> HIDE DEF lost, pos, z, m, P
    <3> QED
      BY <1>5, <2>1, <2>3, <2>7
  <2>9. QED
    BY <2>5, <2>8
<1>9. Over(w) <= Cardinality(P)
  <2>1. m * Over(w) <= m * Cardinality(P)
    BY <1>1, <1>8
  <2>2. Cardinality(P) \in Int
    BY ExecutorsAreFinite, FS_Subset, FS_CardinalityType
  <2> HIDE DEF m, P
  <2>3. QED
    BY <1>1, <2>1, <2>2, Cancel
<1>10. QED
  BY <1>1, <1>4, <1>7, <1>9, ExecutorsAreFinite
LEMMA RestsAreNumbers ==
  ASSUME NEW w \in Weightings, NEW e \in Executors
  PROVE  Rest(w)[e] \in Nat /\ e \in Nat
<1>1. Rest(w)[e] \in 0 .. Total(w) - 1 /\ Total(w) \in Nat
  BY SharesAndRests, TotalIsPositive
<1>2. QED
  BY <1>1 DEF Executors

\* The executors in the order of their remainders: everyone has a rank of his own.
LEMMA RanksAreDistinct ==
  ASSUME NEW w \in Weightings
  PROVE  LET rank == [e \in Executors |-> Cardinality(Ahead(w, e))]
         IN  rank \in Bijection(Executors, 0 .. NExecutors - 1)
<1> DEFINE rank == [e \in Executors |-> Cardinality(Ahead(w, e))]
<1>1. ASSUME NEW e \in Executors
      PROVE  /\ Ahead(w, e) \in SUBSET (Executors \ {e})
             /\ IsFiniteSet(Ahead(w, e)) /\ Cardinality(Ahead(w, e)) \in 0 .. NExecutors - 1
  <2>1. Ahead(w, e) \in SUBSET (Executors \ {e})
    <3>1. ASSUME NEW f \in Ahead(w, e) PROVE f \in Executors \ {e}
      <4>1. f \in Executors /\ (Rest(w)[f] > Rest(w)[e] \/ f < e)
        BY DEF Ahead
      <4>2. Rest(w)[e] \in Int /\ e \in Int
        BY RestsAreNumbers
      <4>3. QED
        BY <4>1, <4>2
    <3>2. QED
      BY <3>1
  <2>2. IsFiniteSet(Executors \ {e}) /\ Cardinality(Executors \ {e}) = NExecutors - 1
    BY ExecutorsAreFinite, FS_RemoveElement
  <2>3. /\ IsFiniteSet(Ahead(w, e)) /\ Cardinality(Ahead(w, e)) \in Nat
        /\ Cardinality(Ahead(w, e)) <= NExecutors - 1
    BY <2>1, <2>2, FS_Subset, FS_CardinalityType
  <2>4. QED
    BY <2>1, <2>3, ExecutorsAreFinite
<1>2. ASSUME NEW e \in Executors, NEW f \in Executors, e \in Ahead(w, f)
      PROVE  Cardinality(Ahead(w, e)) < Cardinality(Ahead(w, f))
  <2>1. Ahead(w, e) \cup {e} \in SUBSET Ahead(w, f)
    <3>1. \A d \in Executors : Rest(w)[d] \in Nat /\ d \in Nat
      BY RestsAreNumbers
    <3>2. e \in Ahead(w, f)
      BY <1>2
    <3>3. ASSUME NEW d \in Ahead(w, e) PROVE d \in Ahead(w, f)
      <4>1. /\ d \in Executors
            /\ Rest(w)[d] > Rest(w)[e] \/ (Rest(w)[d] = Rest(w)[e] /\ d < e)
        BY DEF Ahead
      <4>2. Rest(w)[e] > Rest(w)[f] \/ (Rest(w)[e] = Rest(w)[f] /\ e < f)
        BY <3>2 DEF Ahead
      <4>3. Rest(w)[d] > Rest(w)[f] \/ (Rest(w)[d] = Rest(w)[f] /\ d < f)
        BY <3>1, <4>1, <4>2
      <4>4. QED
        BY <4>1, <4>3 DEF Ahead
    <3>4. QED
      BY <3>2, <3>3
  <2>2. e \notin Ahead(w, e)
    BY <1>1
  <2>3. Cardinality(Ahead(w, e) \cup {e}) = Cardinality(Ahead(w, e)) + 1
    BY <1>1, <2>2, FS_AddElement
  <2>4. Cardinality(Ahead(w, e) \cup {e}) <= Cardinality(Ahead(w, f))
    BY <1>1, <2>1, FS_Subset
  <2>5. Cardinality(Ahead(w, e)) \in Nat /\ Cardinality(Ahead(w, f)) \in Nat
    BY <1>1
  <2>6. QED
    BY <2>3, <2>4, <2>5
<1>3. ASSUME NEW e \in Executors, NEW f \in Executors, e # f
      PROVE  e \in Ahead(w, f) \/ f \in Ahead(w, e)
  <2>1. Rest(w)[e] \in Nat /\ e \in Nat /\ Rest(w)[f] \in Nat /\ f \in Nat
    BY RestsAreNumbers
  <2>2. QED
    BY <1>3, <2>1 DEF Ahead
<1>4. rank \in Injection(Executors, 0 .. NExecutors - 1)
  <2>1. rank \in [Executors -> 0 .. NExecutors - 1]
    BY <1>1
  <2>2. ASSUME NEW e \in Executors, NEW f \in Executors, rank[e] = rank[f]
        PROVE  e = f
    <3>1. Cardinality(Ahead(w, e)) = Cardinality(Ahead(w, f))
      BY <2>2
    <3>2. Cardinality(Ahead(w, e)) \in Nat /\ Cardinality(Ahead(w, f)) \in Nat
      BY <1>1
    <3>3. QED
      BY <1>2, <1>3, <3>1, <3>2
  <2> HIDE DEF rank
  <2>3. QED
    BY <2>1, <2>2 DEF Injection, IsInjective
<1>5. IsFiniteSet(0 .. NExecutors - 1) /\ Cardinality(0 .. NExecutors - 1) = NExecutors
  BY ExecutorsAreFinite, FS_Interval
<1>6. rank \in Surjection(Executors, 0 .. NExecutors - 1)
  <2> HIDE DEF rank
  <2> QED
    BY <1>4, <1>5, ExecutorsAreFinite, FS_Injection
<1>7. QED
  BY <1>4, <1>6 DEF Bijection

\* The first Over of them get one place more.
LEMMA BonusesAddUp ==
  ASSUME NEW w \in Weightings
  PROVE  Added(Bonus(w), Executors) = Over(w)
<1> DEFINE rank == [e \in Executors |-> Cardinality(Ahead(w, e))]
           First == {e \in Executors : Cardinality(Ahead(w, e)) < Over(w)}
           low == [e \in First |-> Cardinality(Ahead(w, e))]
<1>1. rank \in Bijection(Executors, 0 .. NExecutors - 1)
  BY RanksAreDistinct
<1>2. /\ \A e \in Executors : Cardinality(Ahead(w, e)) \in 0 .. NExecutors - 1
      /\ \A e, f \in Executors : Cardinality(Ahead(w, e)) = Cardinality(Ahead(w, f)) => e = f
      /\ \A n \in 0 .. NExecutors - 1 : \E e \in Executors : Cardinality(Ahead(w, e)) = n
  BY <1>1 DEF Bijection, Injection, IsInjective, Surjection
<1>3. Over(w) \in 0 .. NExecutors - 1 /\ NExecutors \in Nat
  BY OverIsSmall, ExecutorsAreFinite
<1>4. low \in Bijection(First, 0 .. Over(w) - 1)
  <2>1. low \in [First -> 0 .. Over(w) - 1]
    BY <1>2, <1>3
  <2>2. \A e, f \in First : low[e] = low[f] => e = f
    BY <1>2
  <2>3. \A n \in 0 .. Over(w) - 1 : \E e \in First : low[e] = n
    BY <1>2, <1>3
  <2> HIDE DEF low, First
  <2>4. QED
    BY <2>1, <2>2, <2>3 DEF Bijection, Injection, IsInjective, Surjection
<1>5. IsFiniteSet(First)
  <2>1. First \in SUBSET Executors
    OBVIOUS
  <2>2. QED
    BY <2>1, ExecutorsAreFinite, FS_Subset
<1>6. Cardinality(First) = Over(w)
  <2>1. ExistsBijection(First, 0 .. Over(w) - 1)
    BY <1>4 DEF ExistsBijection
  <2>2. Cardinality(0 .. Over(w) - 1) = Over(w)
    BY <1>3, FS_Interval
  <2> HIDE DEF First
  <2>3. QED
    BY <1>5, <2>1, <2>2, FS_Bijection
<1>7. \A e \in Executors : Bonus(w)[e] = IF e \in First THEN 1 ELSE 0
  BY DEF Bonus
<1>8. Added(Bonus(w), Executors) = Cardinality(Executors \cap First)
  <2> HIDE DEF First
  <2> QED
    BY <1>7, ExecutorsAreFinite, AddedCounts
<1>9. Executors \cap First = First
  OBVIOUS
<1>10. QED
  BY <1>6, <1>8, <1>9

\* No place is lost and none is given twice: the counts add up to the configs.
LEMMA CountsAddUp ==
  ASSUME NEW w \in Weightings
  PROVE  /\ Counts(w) \in [Executors -> Nat]
         /\ Added(Counts(w), Executors) = NConfigs
<1>1. \A e \in Executors : /\ Share(w)[e] \in Nat /\ Bonus(w)[e] \in Nat
                           /\ Counts(w)[e] = Share(w)[e] + Bonus(w)[e]
  BY SharesAndRests, CountsByPart DEF Bonus
<1>2. Counts(w) \in [Executors -> Nat]
  BY <1>1, CountsByPart
<1>3. \A e \in Executors : Counts(w)[e] = 1 * Share(w)[e] + Bonus(w)[e]
  BY <1>1
<1>4. Added(Counts(w), Executors) = 1 * Added(Share(w), Executors) + Added(Bonus(w), Executors)
  BY <1>1, <1>3, ExecutorsAreFinite, AddedSplit
<1>5. Added(Share(w), Executors) \in Nat /\ NConfigs \in Nat
  BY OverTimesTotal, MultiAssumption
<1>6. QED
  BY <1>2, <1>4, <1>5, BonusesAddUp DEF Over

\* The places follow each other, from none to all of them.
LEMMA PlacesFollow ==
  ASSUME NEW w \in Weightings
  PROVE  /\ \A e \in 0 .. NExecutors : Upto(w, e) \in 0 .. NConfigs
         /\ Upto(w, 0) = 0 /\ Upto(w, NExecutors) = NConfigs
         /\ \A e \in Executors : Upto(w, e) = Upto(w, e - 1) + Counts(w)[e]
         /\ \A d, e \in 0 .. NExecutors : d <= e => Upto(w, d) <= Upto(w, e)
<1> DEFINE U(e) == Added(Counts(w), 1 .. e)
<1>1. \A e : Upto(w, e) = U(e)
  BY DEF Upto, Added
<1>2. NExecutors \in Nat \ {0} /\ Executors = 1 .. NExecutors /\ NConfigs \in Nat
  BY MultiAssumption DEF Executors
<1>3. \A e \in 0 .. NExecutors : IsFiniteSet(1 .. e) /\ (1 .. e) \in SUBSET Executors
  BY <1>2, FS_Interval
<1>4. \A e \in Executors : Counts(w)[e] \in Nat
  BY CountsAddUp
<1>5. U(0) = 0
  <2>1. 1 .. 0 = {}
    OBVIOUS
  <2>2. QED
    BY <2>1, AddedEmpty
<1>6. U(NExecutors) = NConfigs
  BY <1>2, CountsAddUp
<1>7. ASSUME NEW d \in 0 .. NExecutors, NEW e \in 0 .. NExecutors, d <= e
      PROVE  U(d) \in Nat /\ U(e) \in Nat /\ U(d) <= U(e)
  <2>1. (1 .. d) \in SUBSET (1 .. e)
    BY <1>7
  <2>2. \A x \in 1 .. e : Counts(w)[x] \in Nat
    BY <1>3, <1>4
  <2>3. IsFiniteSet(1 .. e)
    BY <1>3
  <2>4. QED
    BY <2>1, <2>2, <2>3, AddedWithin
<1>8. ASSUME NEW e \in Executors PROVE U(e) = U(e - 1) + Counts(w)[e]
  <2>1. e - 1 \in 0 .. NExecutors /\ e \notin 1 .. e - 1 /\ (1 .. e - 1) \cup {e} = 1 .. e
    BY <1>2
  <2>2. \A y \in (1 .. e - 1) \cup {e} : Counts(w)[y] \in Int
    BY <1>2, <1>4
  <2>3. IsFiniteSet(1 .. e - 1)
    BY <1>3, <2>1
  <2>4. Added(Counts(w), (1 .. e - 1) \cup {e}) = Added(Counts(w), 1 .. e - 1) + Counts(w)[e]
    BY <2>1, <2>2, <2>3, AddedMore
  <2>5. QED
    BY <2>1, <2>4
<1>9. ASSUME NEW e \in 0 .. NExecutors PROVE U(e) \in 0 .. NConfigs
  <2>1. NExecutors \in 0 .. NExecutors /\ e <= NExecutors
    BY <1>2
  <2>2. U(e) \in Nat /\ U(e) <= U(NExecutors)
    BY <1>7, <2>1
  <2>3. QED
    BY <1>2, <1>6, <2>2
<1> HIDE DEF U
<1>10. QED
  BY <1>1, <1>5, <1>6, <1>7, <1>8, <1>9

\* Each of the configs is in the slice of one executor and of no other.
Partitions(sl) ==
  \A c \in Configs : \E e \in Executors : c \in sl[e] /\ \A f \in Executors : c \in sl[f] => f = e

\* Largest remainder: whatever the weights, every config has one place and no
\* config two (split_configs).
THEOREM SplitLosesNothing == ASSUME NEW w \in Weightings PROVE Partitions(Apportioned(w))
<1>1. NExecutors \in Nat \ {0} /\ Executors = 1 .. NExecutors /\ NConfigs \in Nat
  BY MultiAssumption DEF Executors
<1>2. ASSUME NEW c \in Configs
      PROVE  \E e \in Executors : /\ c \in Apportioned(w)[e]
                                  /\ \A f \in Executors : c \in Apportioned(w)[f] => f = e
  <2> DEFINE Reached == {e \in Executors : c <= Upto(w, e)}
  <2>1. c \in 1 .. NConfigs
    BY DEF Configs
  <2>2. NExecutors \in Reached
    BY <1>1, <2>1, PlacesFollow
  <2>3. Reached \subseteq Nat
    BY <1>1
  <2>4. PICK e \in Reached : \A f \in Reached : e <= f
    <3> HIDE DEF Reached
    <3> QED
      BY <2>2, <2>3, LeastNumber
  <2>5. Upto(w, e - 1) < c
    <3>1. CASE e = 1
      BY <2>1, <3>1, PlacesFollow
    <3>2. CASE e # 1
      <4>1. e - 1 \in Executors /\ e - 1 \in 0 .. NExecutors /\ e - 1 \notin Reached
        BY <1>1, <2>4, <3>2
      <4>2. Upto(w, e - 1) \in 0 .. NConfigs
        BY <4>1, PlacesFollow
      <4>3. QED
        BY <1>1, <2>1, <4>1, <4>2
    <3>3. QED
      BY <3>1, <3>2
  <2>6. c \in Apportioned(w)[e]
    BY <2>4, <2>5 DEF Apportioned
  <2>7. ASSUME NEW f \in Executors, c \in Apportioned(w)[f] PROVE f = e
    <3>1. Upto(w, f - 1) < c /\ c <= Upto(w, f)
      BY <2>7 DEF Apportioned
    <3>2. e <= f
      BY <2>4, <3>1
    <3>3. CASE f > e
      <4>1. e \in 0 .. NExecutors /\ f - 1 \in 0 .. NExecutors /\ e <= f - 1
        BY <1>1, <2>4, <3>3
      <4>2. Upto(w, e) <= Upto(w, f - 1) /\ Upto(w, e) \in 0 .. NConfigs /\ Upto(w, f - 1) \in 0 .. NConfigs
        BY <4>1, PlacesFollow
      <4>3. c <= Upto(w, e)
        BY <2>4
      <4>4. QED
        BY <1>1, <2>1, <3>1, <4>2, <4>3
    <3>4. QED
      BY <1>1, <2>4, <3>2, <3>3
  <2>8. QED
    BY <2>4, <2>6, <2>7
<1>3. QED
  BY <1>2 DEF Partitions

\* Round robin deals every config to one executor as well.
THEOREM DealingLosesNothing == Partitions(RoundRobin)
<1>1. NExecutors \in Nat \ {0} /\ Executors = 1 .. NExecutors /\ NConfigs \in Nat
  BY MultiAssumption DEF Executors
<1>2. ASSUME NEW c \in Configs
      PROVE  \E e \in Executors : /\ c \in RoundRobin[e]
                                  /\ \A f \in Executors : c \in RoundRobin[f] => f = e
  <2> DEFINE e == ((c - 1) % NExecutors) + 1
  <2>1. c - 1 \in Nat
    BY <1>1 DEF Configs
  <2>2. (c - 1) % NExecutors \in 0 .. NExecutors - 1
    BY <1>1, <2>1, Divided
  <2>3. e \in Executors
    BY <1>1, <2>2
  <2>4. \A f \in Executors : c \in RoundRobin[f] <=> (c - 1) % NExecutors = f - 1
    BY DEF RoundRobin
  <2>5. QED
    BY <1>1, <2>2, <2>3, <2>4
<1>3. QED
  BY <1>2 DEF Partitions

\* The number of an executor's configs is less than one away from its exact share of
\* them; an executor of weight zero gets none (split_configs).
THEOREM SplitIsFair ==
  ASSUME NEW w \in Weightings, NEW e \in Executors
  PROVE  LET n == Cardinality(Apportioned(w)[e])
         IN  /\ n \in Nat
             /\ n * Total(w) < w[e] * NConfigs + Total(w)
             /\ w[e] * NConfigs < n * Total(w) + Total(w)
<1> DEFINE m == Total(w)
           s == Share(w)[e]
           r == Rest(w)[e]
           b == Bonus(w)[e]
<1>1. NExecutors \in Nat \ {0} /\ Executors = 1 .. NExecutors /\ NConfigs \in Nat
  BY MultiAssumption DEF Executors
<1>2. Cardinality(Apportioned(w)[e]) = Counts(w)[e]
  <2> DEFINE lo == Upto(w, e - 1)
             hi == Upto(w, e)
  <2>1. e - 1 \in 0 .. NExecutors /\ e \in 0 .. NExecutors
    BY <1>1
  <2>2. lo \in 0 .. NConfigs /\ hi \in 0 .. NConfigs /\ hi = lo + Counts(w)[e]
    BY <2>1, PlacesFollow
  <2>3. Apportioned(w)[e] = {c \in 1 .. NConfigs : lo < c /\ c <= hi}
    BY DEF Apportioned, Configs
  <2>4. Counts(w)[e] \in Nat
    BY CountsAddUp
  <2> HIDE DEF lo, hi
  <2>5. Apportioned(w)[e] = lo + 1 .. hi
    BY <1>1, <2>2, <2>3
  <2>6. Cardinality(lo + 1 .. hi) = IF lo + 1 > hi THEN 0 ELSE hi - (lo + 1) + 1
    <3>1. lo + 1 \in Int /\ hi \in Int
      BY <1>1, <2>2
    <3>2. QED
      BY <3>1, FS_Interval
  <2>7. QED
    BY <2>2, <2>4, <2>5, <2>6
<1>3. m \in Nat \ {0} /\ s \in Nat /\ r \in 0 .. m - 1 /\ w[e] * NConfigs = m * s + r
  BY SharesAndRests, TotalIsPositive
<1>4. b \in {0, 1} /\ Counts(w)[e] = s + b
  BY CountsByPart DEF Bonus
<1>5. r = 0 => b = 0
  <2>1. SUFFICES ASSUME r = 0 PROVE ~ (Cardinality(Ahead(w, e)) < Over(w))
    BY DEF Bonus
  <2> DEFINE P == {f \in Executors : Rest(w)[f] > 0}
  <2>2. P \in SUBSET Ahead(w, e) /\ Ahead(w, e) \in SUBSET Executors
    BY <2>1 DEF Ahead
  <2>3. IsFiniteSet(Ahead(w, e)) /\ IsFiniteSet(P)
    BY <2>2, ExecutorsAreFinite, FS_Subset
  <2>4. Cardinality(P) <= Cardinality(Ahead(w, e))
    BY <2>2, <2>3, FS_Subset
  <2>5. Cardinality(P) \in Nat /\ Cardinality(Ahead(w, e)) \in Nat
    BY <2>3, FS_CardinalityType
  <2>6. Over(w) <= Cardinality(P) /\ Over(w) \in Nat
    BY OverIsSmall, <1>1
  <2> HIDE DEF P
  <2>7. QED
    BY <2>4, <2>5, <2>6
<1> HIDE DEF m, s, r, b
<1>6. (s + b) * m = m * s + b * m /\ m * s \in Nat
  BY <1>3, <1>4
<1>7. b * m = IF b = 0 THEN 0 ELSE m
  BY <1>3, <1>4
<1>8. /\ s + b \in Nat
      /\ (s + b) * m < w[e] * NConfigs + m
      /\ w[e] * NConfigs < (s + b) * m + m
  BY <1>3, <1>4, <1>5, <1>6, <1>7
<1>9. QED
  BY <1>2, <1>4, <1>8 DEF m

-----------------------------------------------------------------------------
(* Types, and who runs when it is over                                     *)

\* Only a thread between its two rows has an open row, and run_multi is over
\* only when every thread is.
QuietInv ==
  /\ \A e \in open : thread[e] \in {"using", "closing"}
  /\ main \in {"returned", "raised"} => AllDone

MultiInv == MultiTypeOK /\ QuietInv

-----------------------------------------------------------------------------
LEMMA InitHolds == MultiInit => MultiInv
<1> USE MultiAssumption, BudgetAssumption DEF MultiInit, BudgetInit, Executors
<1>1. MultiInit => BudgetTypeOK
  BY DEF BudgetTypeOK
<1>2. MultiInit => slice \in [Executors -> SUBSET Configs]
  BY DEF RoundRobin, Overlapping, Apportioned
<1>3. MultiInit => MultiTypeOK
  <2>1. <<>> \in Seq(Executors)
    OBVIOUS
  <2>2. QED
    BY <1>1, <1>2, <2>1 DEF MultiTypeOK, Renting
<1>4. MultiInit => QuietInv
  BY DEF QuietInv
<1>5. QED
  BY <1>3, <1>4 DEF MultiInv

\* The budget's own types, step by step of the ledger and the gate.
LEMMA BudgetSteps ==
  ASSUME BudgetTypeOK,
         \/ \E e \in Renters : ReadBooked(e) \/ ForgetReading(e) \/ RentedRow(e) \/ MakeBill(e) \/ DestroyedRow(e)
         \/ Tick \/ CloseLeftover \/ UNCHANGED budgetVars
  PROVE  BudgetTypeOK'
<1> USE BudgetAssumption DEF BudgetTypeOK, ledgerVars, gateVars
<1>1. ASSUME NEW e \in Renters, ReadBooked(e) PROVE BudgetTypeOK'
  <2>1. Booked \in Nat
    BY DEF Booked
  <2>2. QED
    BY <1>1, <2>1 DEF ReadBooked
<1>2. ASSUME NEW e \in Renters, ForgetReading(e) PROVE BudgetTypeOK'
  BY <1>2 DEF ForgetReading
<1>3. ASSUME NEW e \in Renters, RentedRow(e) PROVE BudgetTypeOK'
  BY <1>3 DEF RentedRow
<1>4. ASSUME NEW e \in Renters, MakeBill(e) PROVE BudgetTypeOK'
  BY <1>4 DEF MakeBill
<1>5. ASSUME NEW e \in Renters, DestroyedRow(e) PROVE BudgetTypeOK'
  BY <1>5 DEF DestroyedRow
<1>6. CASE Tick
  BY <1>6 DEF Tick
<1>7. CASE CloseLeftover
  BY <1>7 DEF CloseLeftover
<1>8. CASE UNCHANGED budgetVars
  BY <1>8 DEF budgetVars
<1>9. QED
  BY <1>1, <1>2, <1>3, <1>4, <1>5, <1>6, <1>7, <1>8

\* How a renter leaves an offer: for the next one, or for good.
LEMMA OfferLeft ==
  ASSUME MultiTypeOK, NEW e \in Executors, e \in Renters,
         Failover(e) \/ \E raised \in BOOLEAN : Ends(e, raised) /\ UNCHANGED tries
  PROVE  /\ \E st \in {"gating", "done"} : Go(e, st)
         /\ tries' \in [Renters -> 0 .. MaxAttempts]
         /\ error' \subseteq Executors
<1> USE MultiAssumption DEF MultiTypeOK, Go
<1>1. CASE Failover(e)
  <2>1. CASE tries[e] > 1
    <3>1. tries' = [tries EXCEPT ![e] = @ - 1] /\ error' = error /\ Go(e, "gating")
      BY <1>1, <2>1 DEF Failover
    <3>2. tries[e] - 1 \in 0 .. MaxAttempts
      BY <2>1
    <3>3. QED
      BY <3>1, <3>2
  <2>2. CASE ~ (tries[e] > 1)
    <3>1. tries' = [tries EXCEPT ![e] = 0] /\ error' = error \cup {e} /\ Go(e, "done")
      BY <1>1, <2>2 DEF Failover, Ends
    <3>2. QED
      BY <3>1
  <2>3. QED
    BY <2>1, <2>2
<1>2. ASSUME NEW raised \in BOOLEAN, Ends(e, raised), UNCHANGED tries
      PROVE  /\ Go(e, "done") /\ tries' \in [Renters -> 0 .. MaxAttempts] /\ error' \subseteq Executors
  BY <1>2 DEF Ends
<1>3. QED
  BY <1>1, <1>2

\* A thread at work keeps the rows and its place in step.
LEMMA QuietStep ==
  ASSUME MultiInv, NEW e \in Executors, NEW st, thread[e] \notin {"none", "done"}, Go(e, st), main' = main,
         \/ open' = open /\ (thread[e] \in {"using", "closing"} => st \in {"using", "closing"})
         \/ open' = open \cup {e} /\ st \in {"using", "closing"}
         \/ open' = open \ {e}
  PROVE  QuietInv'
  BY DEF MultiInv, MultiTypeOK, QuietInv, AllDone, Go

LEMMA ThreadStepKeeps ==
  ASSUME MultiInv, NEW e \in Executors, ThreadStep(e)
  PROVE  MultiInv'
<1> USE MultiAssumption DEF MultiInv, mainVars, Renting, budgetVars, ledgerVars, gateVars
<1>1. CASE Start(e)
  <2>1. PICK st \in {"gating", "working"} : thread[e] = "queued" /\ Go(e, st) /\ UNCHANGED <<tries, error, mainVars, budgetVars>>
    BY <1>1 DEF Start
  <2>2. BudgetTypeOK'
    BY <2>1, BudgetSteps DEF MultiTypeOK
  <2>3. MultiTypeOK'
    BY <2>1, <2>2 DEF MultiTypeOK, Go
  <2>4. QuietInv'
    BY <2>1, QuietStep
  <2>5. QED
    BY <2>3, <2>4
<1>2. CASE PlainEnds(e)
  <2>1. thread[e] = "working" /\ Go(e, "done") /\ error' \subseteq Executors /\ UNCHANGED <<tries, mainVars, budgetVars>>
    BY <1>2 DEF PlainEnds, Ends, MultiTypeOK
  <2>2. BudgetTypeOK'
    BY <2>1, BudgetSteps DEF MultiTypeOK
  <2>3. MultiTypeOK'
    BY <2>1, <2>2 DEF MultiTypeOK, Go
  <2>4. QuietInv'
    BY <2>1, QuietStep
  <2>5. QED
    BY <2>3, <2>4
<1>3. CASE e \in Renters /\ Sum(e)
  <2>1. thread[e] = "gating" /\ ReadBooked(e) /\ Go(e, "summed") /\ UNCHANGED <<tries, error, mainVars>>
    BY <1>3 DEF Sum
  <2>2. BudgetTypeOK'
    BY <1>3, <2>1, BudgetSteps DEF MultiTypeOK
  <2>3. MultiTypeOK'
    BY <2>1, <2>2 DEF MultiTypeOK, Go
  <2>4. QuietInv'
    BY <2>1, QuietStep DEF ReadBooked
  <2>5. QED
    BY <2>3, <2>4
<1>4. CASE e \in Renters /\ SumRaises(e)
  <2>1. thread[e] = "gating" /\ Go(e, "done") /\ error' \subseteq Executors /\ UNCHANGED <<tries, mainVars, budgetVars>>
    BY <1>4 DEF SumRaises, Ends, MultiTypeOK
  <2>2. BudgetTypeOK'
    BY <2>1, BudgetSteps DEF MultiTypeOK
  <2>3. MultiTypeOK'
    BY <2>1, <2>2 DEF MultiTypeOK, Go
  <2>4. QuietInv'
    BY <2>1, QuietStep
  <2>5. QED
    BY <2>3, <2>4
<1>5. CASE e \in Renters /\ Gate(e)
  <2>1. thread[e] = "summed" /\ ForgetReading(e) /\ UNCHANGED <<tries, mainVars>>
    BY <1>5 DEF Gate
  <2>2. PICK st \in {"creating", "done"} : Go(e, st)
    BY <1>5 DEF Gate, Ends
  <2>3. error' \subseteq Executors
    BY <1>5 DEF Gate, Ends, MultiTypeOK
  <2>4. BudgetTypeOK'
    BY <1>5, <2>1, BudgetSteps DEF MultiTypeOK
  <2>5. MultiTypeOK'
    BY <2>1, <2>2, <2>3, <2>4 DEF MultiTypeOK, Go
  <2>6. QuietInv'
    BY <2>1, <2>2, QuietStep DEF ForgetReading
  <2>7. QED
    BY <2>5, <2>6
<1>6. CASE e \in Renters /\ CreateBox(e)
  <2>1. thread[e] = "creating" /\ RentedRow(e) /\ Go(e, "using") /\ UNCHANGED <<tries, error, mainVars>>
    BY <1>6 DEF CreateBox
  <2>2. BudgetTypeOK'
    BY <1>6, <2>1, BudgetSteps DEF MultiTypeOK
  <2>3. MultiTypeOK'
    BY <2>1, <2>2 DEF MultiTypeOK, Go
  <2>4. QuietInv'
    BY <2>1, QuietStep DEF RentedRow
  <2>5. QED
    BY <2>3, <2>4
<1>7. CASE e \in Renters /\ CreateFails(e)
  <2>1. thread[e] = "creating" /\ UNCHANGED <<mainVars, budgetVars>>
    BY <1>7 DEF CreateFails
  <2>2. /\ \E st \in {"gating", "done"} : Go(e, st)
        /\ tries' \in [Renters -> 0 .. MaxAttempts] /\ error' \subseteq Executors
    BY <1>7, OfferLeft DEF CreateFails
  <2>3. BudgetTypeOK'
    BY <2>1, BudgetSteps DEF MultiTypeOK
  <2>4. MultiTypeOK'
    BY <2>1, <2>2, <2>3 DEF MultiTypeOK, Go
  <2>5. QuietInv'
    BY <2>1, <2>2, QuietStep
  <2>6. QED
    BY <2>4, <2>5
<1>8. CASE e \in Renters /\ UseEnds(e)
  <2>1. thread[e] = "using" /\ MakeBill(e) /\ Go(e, "closing") /\ UNCHANGED <<tries, error, mainVars>>
    BY <1>8 DEF UseEnds
  <2>2. BudgetTypeOK'
    BY <1>8, <2>1, BudgetSteps DEF MultiTypeOK
  <2>3. MultiTypeOK'
    BY <2>1, <2>2 DEF MultiTypeOK, Go
  <2>4. QuietInv'
    BY <2>1, QuietStep DEF MakeBill
  <2>5. QED
    BY <2>3, <2>4
<1>9. CASE e \in Renters /\ CloseBox(e)
  <2>1. thread[e] = "closing" /\ DestroyedRow(e) /\ UNCHANGED mainVars
    BY <1>9 DEF CloseBox
  <2>2. /\ \E st \in {"gating", "done"} : Go(e, st)
        /\ tries' \in [Renters -> 0 .. MaxAttempts] /\ error' \subseteq Executors
    BY <1>9, OfferLeft DEF CloseBox
  <2>3. BudgetTypeOK'
    BY <1>9, <2>1, BudgetSteps DEF MultiTypeOK
  <2>4. MultiTypeOK'
    BY <2>1, <2>2, <2>3 DEF MultiTypeOK, Go
  <2>5. QuietInv'
    BY <2>1, <2>2, QuietStep DEF DestroyedRow
  <2>6. QED
    BY <2>4, <2>5
<1>10. QED
  BY <1>1, <1>2, <1>3, <1>4, <1>5, <1>6, <1>7, <1>8, <1>9 DEF ThreadStep

LEMMA MainStepKeeps ==
  ASSUME MultiInv, MainStep
  PROVE  MultiInv'
<1> USE MultiAssumption DEF MultiInv, threadVars, budgetVars, ledgerVars, gateVars
<1>1. ASSUME NEW e \in Executors, Land(e) PROVE MultiInv'
  <2>1. QuietInv'
    BY <1>1 DEF Land, QuietInv, AllDone
  <2>2. results' \in [Configs -> 0 .. NExecutors]
    BY <1>1 DEF Land, MultiTypeOK, Executors
  <2>3. duplicates' \in [Configs -> Seq(Executors)]
    <3>1. ASSUME NEW c \in Configs, c \in Records(e), results[c] # 0 PROVE results[c] \in Executors
      BY <3>1 DEF MultiTypeOK, Executors
    <3>2. QED
      BY <1>1, <3>1 DEF Land, MultiTypeOK
  <2>4. QED
    BY <1>1, <2>1, <2>2, <2>3 DEF Land, MultiTypeOK, BudgetTypeOK
<1>2. ASSUME NEW e \in Executors, OnResultRaises(e) PROVE MultiInv'
  BY <1>2 DEF OnResultRaises, QuietInv, AllDone, MultiTypeOK, BudgetTypeOK
<1>3. CASE Return \/ Unwind
  BY <1>3 DEF Return, Unwind, QuietInv, AllDone, MultiTypeOK, BudgetTypeOK
<1>4. QED
  BY <1>1, <1>2, <1>3 DEF MainStep

LEMMA ElsewhereKeeps ==
  ASSUME MultiInv, Elsewhere \/ UNCHANGED multiVars
  PROVE  MultiInv'
<1> USE DEF MultiInv, Elsewhere, multiVars, threadVars, mainVars
<1>1. BudgetTypeOK'
  BY BudgetSteps DEF MultiTypeOK
<1>2. UNCHANGED <<threadVars, mainVars, open>>
  BY DEF Tick, CloseLeftover, budgetVars, ledgerVars
<1>3. MultiTypeOK'
  BY <1>1, <1>2 DEF MultiTypeOK
<1>4. QuietInv'
  BY <1>2 DEF QuietInv, AllDone
<1>5. QED
  BY <1>3, <1>4

-----------------------------------------------------------------------------
(* The theorems                                                            *)

\* The inductive invariant: types, whose rows may be open, and when it is over.
THEOREM MultiInvariant == MultiSpec => []MultiInv
<1>1. MultiInv /\ [MultiNext]_multiVars => MultiInv'
  BY ThreadStepKeeps, MainStepKeeps, ElsewhereKeeps DEF MultiNext
<1>2. QED
  BY <1>1, InitHolds, PTL DEF MultiSpec

\* Every reachable state of a campaign over several executors is well-typed: no
\* rental outlives MaxRun, no bill is larger, and no record is of a stranger.
THEOREM MultiTypeCorrect == MultiSpec => []MultiTypeOK
<1>1. MultiInv => MultiTypeOK
  BY DEF MultiInv
<1>2. QED
  BY <1>1, MultiInvariant, PTL

\* When run_multi is over, by report or by exception, no thread runs and no box
\* has an open row, for any number of executors and workers.
THEOREM NothingIsLeftRunning == MultiSpec => []NothingRunsOn
<1>1. MultiInv => NothingRunsOn
  BY MultiAssumption DEF MultiInv, QuietInv, AllDone, MultiTypeOK, BudgetTypeOK, NothingRunsOn
<1>2. QED
  BY <1>1, MultiInvariant, PTL

-----------------------------------------------------------------------------
(* The overshoot of the cap                                                *)

\* The renters the cap may still have to pay a whole rental for: a box is on its
\* way, is there or is being torn down, or the gate has read less than the cap.
Staked ==
  {e \in Renters : \/ thread[e] \in {"creating", "using", "closing"}
                   \/ thread[e] = "summed" /\ reading[e] < Cap}

\* A reading below the cap restores the bound on its own, whoever else is about to
\* pass; from then on a renter only turns its stake into a bill.
SpendInv == booked + MaxRun * Cardinality(Staked) < Cap + MaxRun * Cardinality(Renters)

LEMMA StakedIsFinite ==
  /\ IsFiniteSet(Staked) /\ Cardinality(Staked) \in Nat
  /\ Cardinality(Renters) \in Nat /\ Cardinality(Staked) <= Cardinality(Renters)
<1>1. Staked \in SUBSET Renters
  BY DEF Staked
<1>2. QED
  BY <1>1, BudgetAssumption, FS_Subset, FS_CardinalityType

LEMMA StakedIsFiniteNext ==
  /\ Cardinality(Staked') \in Nat /\ Cardinality(Staked') <= Cardinality(Renters)
<1>1. Staked' \in SUBSET Renters
  BY DEF Staked
<1>2. IsFiniteSet(Staked')
  BY <1>1, BudgetAssumption, FS_Subset
<1>3. QED
  BY <1>1, <1>2, BudgetAssumption, FS_Subset, FS_CardinalityType

\* What burns in the open rows is a number, and no more than MaxRun for each.
LEMMA BurningIsBounded ==
  ASSUME BudgetTypeOK
  PROVE  /\ Burning \in Nat
         /\ IsFiniteSet(open) /\ Cardinality(open) \in Nat
         /\ Burning <= MaxRun * Cardinality(open)
<1>1. IsFiniteSet(open)
  BY BudgetAssumption, FS_Subset DEF BudgetTypeOK
<1>2. \A e \in open : flight[e] \in 0 .. MaxRun
  BY DEF BudgetTypeOK
<1>3. MaxRun \in Nat
  BY BudgetAssumption
<1>4. Added(flight, open) \in Nat /\ Added(flight, open) <= MaxRun * Cardinality(open)
  BY <1>1, <1>2, <1>3, AddedBound
<1>5. Burning = Added(flight, open)
  BY DEF Burning, Added
<1>6. QED
  BY <1>1, <1>4, <1>5, FS_CardinalityType

\* A stake given up, or kept, costs nothing.
LEMMA StakeKept ==
  ASSUME BudgetTypeOK, SpendInv, Staked' \subseteq Staked, booked' = booked
  PROVE  SpendInv'
<1>1. Cardinality(Staked') <= Cardinality(Staked)
  BY StakedIsFinite, FS_Subset
<1>2. MaxRun \in Nat /\ Cap \in Nat /\ booked \in Nat
  BY BudgetAssumption DEF BudgetTypeOK
<1>3. /\ MaxRun * Cardinality(Staked') <= MaxRun * Cardinality(Staked)
      /\ MaxRun * Cardinality(Staked') \in Nat /\ MaxRun * Cardinality(Staked) \in Nat
  BY <1>1, <1>2, StakedIsFinite, StakedIsFiniteNext, TimesMonotone
<1>4. MaxRun * Cardinality(Renters) \in Nat
  BY <1>2, StakedIsFinite, TimesMonotone
<1>5. QED
  BY <1>2, <1>3, <1>4 DEF SpendInv

\* The bill takes the place of the stake.
LEMMA StakeBilled ==
  ASSUME BudgetTypeOK, SpendInv, NEW e \in Staked, Staked' \subseteq Staked \ {e}, booked' = booked + bill[e]
  PROVE  SpendInv'
<1> DEFINE n == Cardinality(Staked \ {e})
<1>1. IsFiniteSet(Staked \ {e}) /\ n = Cardinality(Staked) - 1 /\ n \in Nat
  BY StakedIsFinite, FS_RemoveElement, FS_CardinalityType
<1>2. Cardinality(Staked') <= n
  BY <1>1, FS_Subset
<1>3. MaxRun \in Nat /\ Cap \in Nat /\ booked \in Nat /\ bill[e] \in 0 .. MaxRun
  BY BudgetAssumption DEF BudgetTypeOK, Staked
<1>4. /\ MaxRun * Cardinality(Staked') <= MaxRun * n
      /\ MaxRun * Cardinality(Staked') \in Nat /\ MaxRun * n \in Nat
  BY <1>1, <1>2, <1>3, StakedIsFiniteNext, TimesMonotone
<1>5. MaxRun * Cardinality(Staked) = MaxRun * n + MaxRun
  <2>1. \A a \in Nat : MaxRun * (a + 1) = MaxRun * a + MaxRun
    BY <1>3
  <2>2. Cardinality(Staked) = n + 1
    BY <1>1, StakedIsFinite
  <2>3. QED
    BY <1>1, <2>1, <2>2
<1>6. MaxRun * Cardinality(Renters) \in Nat
  BY <1>3, StakedIsFinite, TimesMonotone
<1> HIDE DEF n
<1>7. QED
  BY <1>3, <1>4, <1>5, <1>6 DEF SpendInv

\* A reading below the cap makes the bound good, whatever came before.
LEMMA StakeRead ==
  ASSUME BudgetTypeOK, SpendInv, NEW e \in Renters, ReadBooked(e), Staked' \subseteq Staked \cup {e}, 
         reading'[e] >= Cap => Staked' \subseteq Staked
  PROVE  SpendInv'
<1>1. MaxRun \in Nat /\ Cap \in Nat /\ booked \in Nat /\ phantom \in Nat /\ booked' = booked
  BY BudgetAssumption DEF BudgetTypeOK, ReadBooked, ledgerVars
<1>2. reading'[e] = Booked /\ Booked \in Nat /\ booked <= Booked
  BY <1>1 DEF ReadBooked, Booked, BudgetTypeOK
<1>3. CASE Booked >= Cap
  BY <1>1, <1>2, <1>3, StakeKept
<1>4. CASE ~ (Booked >= Cap)
  <2>1. booked < Cap
    BY <1>1, <1>2, <1>4
  <2>2. /\ MaxRun * Cardinality(Staked') <= MaxRun * Cardinality(Renters)
        /\ MaxRun * Cardinality(Staked') \in Nat /\ MaxRun * Cardinality(Renters) \in Nat
    BY <1>1, StakedIsFinite, StakedIsFiniteNext, TimesMonotone
  <2>3. QED
    BY <1>1, <2>1, <2>2 DEF SpendInv
<1>5. QED
  BY <1>3, <1>4

\* A thread that moves on without a reading or a bill gains no stake.
LEMMA StakeMoves ==
  ASSUME MultiTypeOK, NEW e \in Executors, NEW st, Go(e, st),
         st \in {"creating", "using", "closing"} => thread[e] \in {"creating", "using", "closing"},
         st # "summed", reading' = reading \/ reading' = [reading EXCEPT ![e] = 0]
  PROVE  Staked' \subseteq Staked
BY DEF MultiTypeOK, BudgetTypeOK, Go, Staked

LEMMA SpendThreadStep ==
  ASSUME MultiInv, SpendInv, NEW e \in Executors, ThreadStep(e)
  PROVE  SpendInv'
<1> USE DEF MultiInv, MultiTypeOK, budgetVars, ledgerVars, gateVars
<1>1. CASE Start(e)
  <2>1. PICK st \in {"gating", "working"} : Go(e, st) /\ UNCHANGED budgetVars
    BY <1>1 DEF Start
  <2>2. QED
    BY <2>1, StakeMoves, StakeKept
<1>2. CASE PlainEnds(e) \/ (e \in Renters /\ SumRaises(e))
  <2>1. Go(e, "done") /\ UNCHANGED budgetVars
    BY <1>2 DEF PlainEnds, SumRaises, Ends
  <2>2. QED
    BY <2>1, StakeMoves, StakeKept
<1>3. CASE e \in Renters /\ Sum(e)
  <2>1. ReadBooked(e) /\ Go(e, "summed")
    BY <1>3 DEF Sum
  <2>2. Staked' \subseteq Staked \cup {e} /\ (reading'[e] >= Cap => Staked' \subseteq Staked)
    <3>1. \A f \in Renters \ {e} : thread'[f] = thread[f] /\ reading'[f] = reading[f]
      BY <2>1 DEF Go, ReadBooked, BudgetTypeOK
    <3>2. thread'[e] = "summed"
      BY <2>1 DEF Go
    <3>3. reading'[e] \in Nat /\ Cap \in Nat
      BY <1>3, <2>1, BudgetAssumption DEF ReadBooked, Booked, BudgetTypeOK
    <3>4. ASSUME NEW f \in Staked', f # e PROVE f \in Staked
      BY <3>1, <3>4 DEF Staked
    <3>5. ASSUME reading'[e] >= Cap PROVE e \notin Staked'
      BY <3>2, <3>3, <3>5 DEF Staked
    <3>6. QED
      BY <3>4, <3>5
  <2>3. QED
    BY <1>3, <2>1, <2>2, StakeRead
<1>4. CASE e \in Renters /\ Gate(e)
  <2>1. thread[e] = "summed" /\ ForgetReading(e)
    BY <1>4 DEF Gate
  <2>2. CASE Passes(e)
    <3>1. Go(e, "creating")
      BY <1>4, <2>2 DEF Gate
    <3>2. InFlight \in Nat
      BY BurningIsBounded DEF InFlight, BudgetTypeOK
    <3>3. reading[e] < Cap
      BY <1>4, <2>2, <3>2, BudgetAssumption DEF Passes, BudgetTypeOK
    <3>4. Staked' \subseteq Staked
      BY <1>4, <2>1, <3>1, <3>3 DEF Staked, Go, ForgetReading, BudgetTypeOK
    <3>5. QED
      BY <2>1, <3>4, StakeKept DEF ForgetReading
  <2>3. CASE ~ Passes(e)
    <3>1. Go(e, "done")
      BY <1>4, <2>3 DEF Gate, Ends
    <3>2. QED
      BY <2>1, <3>1, StakeMoves, StakeKept DEF ForgetReading
  <2>4. QED
    BY <2>2, <2>3
<1>5. CASE e \in Renters /\ CreateBox(e)
  <2>1. thread[e] = "creating" /\ RentedRow(e) /\ Go(e, "using")
    BY <1>5 DEF CreateBox
  <2>2. QED
    BY <2>1, StakeMoves, StakeKept DEF RentedRow
<1>6. CASE e \in Renters /\ CreateFails(e)
  <2>1. UNCHANGED budgetVars
    BY <1>6 DEF CreateFails
  <2>2. PICK st \in {"gating", "done"} : Go(e, st)
    BY <1>6, OfferLeft DEF CreateFails
  <2>3. QED
    BY <2>1, <2>2, StakeMoves, StakeKept
<1>7. CASE e \in Renters /\ UseEnds(e)
  <2>1. thread[e] = "using" /\ MakeBill(e) /\ Go(e, "closing")
    BY <1>7 DEF UseEnds
  <2>2. QED
    BY <2>1, StakeMoves, StakeKept DEF MakeBill
<1>8. CASE e \in Renters /\ CloseBox(e)
  <2>1. thread[e] = "closing" /\ DestroyedRow(e)
    BY <1>8 DEF CloseBox
  <2>2. PICK st \in {"gating", "done"} : Go(e, st)
    BY <1>8, OfferLeft DEF CloseBox
  <2>3. e \in Staked
    BY <1>8, <2>1 DEF Staked
  <2>4. Staked' \subseteq Staked \ {e}
    BY <2>1, <2>2 DEF Staked, Go, DestroyedRow
  <2>5. QED
    BY <2>1, <2>3, <2>4, StakeBilled DEF DestroyedRow
<1>9. QED
  BY <1>1, <1>2, <1>3, <1>4, <1>5, <1>6, <1>7, <1>8 DEF ThreadStep

LEMMA SpendElsewhere ==
  ASSUME MultiInv, SpendInv, MainStep \/ Elsewhere \/ UNCHANGED multiVars
  PROVE  SpendInv'
<1>1. thread' = thread /\ reading' = reading /\ booked' = booked
  BY DEF MainStep, Land, OnResultRaises, Return, Unwind, Elsewhere, Tick, CloseLeftover, multiVars,
         threadVars, mainVars, budgetVars, ledgerVars, gateVars
<1>2. Staked' \subseteq Staked
  BY <1>1 DEF Staked
<1>3. QED
  BY <1>1, <1>2, StakeKept DEF MultiInv, MultiTypeOK

LEMMA SpendInit == MultiInit => SpendInv
<1> SUFFICES ASSUME MultiInit PROVE SpendInv
  OBVIOUS
<1>1. booked = 0 /\ Staked = {}
  BY MultiAssumption DEF MultiInit, BudgetInit, Staked
<1>2. MaxRun \in Nat /\ Cap \in Nat \ {0}
  BY BudgetAssumption
<1>3. MaxRun * Cardinality(Renters) \in Nat /\ MaxRun * 0 = 0
  BY <1>2, StakedIsFinite, TimesMonotone
<1>4. QED
  BY <1>1, <1>2, <1>3, FS_EmptySet DEF SpendInv

\* The overshoot of the cap is less than one rental for each renter, for every cap,
\* rental length, number of renters, and whatever order the gates read and pass in.
THEOREM OvershootIsOneRentalEach == MultiSpec => []OvershootIsBounded
<1>1. MultiInv /\ SpendInv /\ [MultiNext]_multiVars => SpendInv'
  BY SpendThreadStep, SpendElsewhere DEF MultiNext
<1>2. MultiInv /\ SpendInv => OvershootIsBounded
  <2>1. ASSUME MultiInv, SpendInv PROVE OvershootIsBounded
    <3>1. open \in SUBSET Staked
      BY <2>1 DEF MultiInv, MultiTypeOK, BudgetTypeOK, QuietInv, Staked
    <3>2. Cardinality(open) <= Cardinality(Staked)
      BY <3>1, StakedIsFinite, FS_Subset
    <3>3. BudgetTypeOK
      BY <2>1 DEF MultiInv, MultiTypeOK
    <3>4. MaxRun \in Nat /\ Cap \in Nat /\ booked \in Nat
      BY <3>3, BudgetAssumption DEF BudgetTypeOK
    <3>5. /\ MaxRun * Cardinality(open) <= MaxRun * Cardinality(Staked)
          /\ MaxRun * Cardinality(open) \in Nat /\ MaxRun * Cardinality(Staked) \in Nat
      BY <3>2, <3>3, <3>4, BurningIsBounded, StakedIsFinite, TimesMonotone
    <3>6. Burning \in Nat /\ Burning <= MaxRun * Cardinality(open)
      BY <3>3, BurningIsBounded
    <3>7. MaxRun * Cardinality(Renters) = Cardinality(Renters) * MaxRun
          /\ MaxRun * Cardinality(Renters) \in Nat
      BY <3>4, StakedIsFinite, TimesMonotone
    <3>8. booked + MaxRun * Cardinality(Staked) < Cap + MaxRun * Cardinality(Renters)
      BY <2>1 DEF SpendInv
    <3>9. QED
      BY <3>4, <3>5, <3>6, <3>7, <3>8 DEF OvershootIsBounded
  <2>2. QED
    BY <2>1
<1>3. QED
  BY <1>1, <1>2, SpendInit, MultiInvariant, PTL DEF MultiSpec

-----------------------------------------------------------------------------
(* The harvest                                                             *)

\* A thread whose slice has landed is over and its outcome settled; every landing is
\* another executor's; nobody with a slice is left out of the pool.
LandingInv ==
  /\ \A i \in DOMAIN reports : thread[reports[i]] = "done"
  /\ \A i, j \in DOMAIN reports : reports[i] = reports[j] => i = j
  /\ \A e \in Executors : thread[e] = "none" => slice[e] = {}
  /\ slice # Overlapping \/ NExecutors = 1 => Partitions(slice)
  /\ main = "returned" => AllDone /\ Landed = {}

MergeInv == \A c \in Configs : LastIsKept(c) /\ AllAreNamed(c)

HarvestInv == LandingInv /\ MergeInv

\* What a step of a thread leaves alone.
LEMMA ThreadStepFrame ==
  ASSUME MultiTypeOK, NEW e \in Executors, ThreadStep(e)
  PROVE  /\ thread[e] \notin {"none", "done"} /\ thread'[e] # "none"
         /\ \A f \in Executors : f # e => thread'[f] = thread[f]
         /\ \A f \in Executors : f # e => (f \in error' <=> f \in error)
         /\ UNCHANGED mainVars
<1> USE DEF MultiTypeOK, Go, Ends
<1>1. CASE Start(e)
  BY <1>1 DEF Start
<1>2. CASE PlainEnds(e)
  BY <1>2 DEF PlainEnds
<1>3. CASE e \in Renters /\ (Sum(e) \/ SumRaises(e))
  BY <1>3 DEF Sum, SumRaises
<1>4. CASE e \in Renters /\ Gate(e)
  BY <1>4 DEF Gate
<1>5. CASE e \in Renters /\ (CreateBox(e) \/ UseEnds(e))
  BY <1>5 DEF CreateBox, UseEnds
<1>6. CASE e \in Renters /\ CreateFails(e)
  BY <1>6 DEF CreateFails, Failover
<1>7. CASE e \in Renters /\ CloseBox(e)
  BY <1>7 DEF CloseBox, Failover
<1>8. QED
  BY <1>1, <1>2, <1>3, <1>4, <1>5, <1>6, <1>7 DEF ThreadStep

\* Nothing of the harvest moves while the landed slices and their outcomes stay.
LEMMA MergeKept ==
  ASSUME MultiTypeOK, MergeInv, UNCHANGED <<slice, reports, results, duplicates>>,
         \A i \in DOMAIN reports : reports[i] \in error' <=> reports[i] \in error
  PROVE  MergeInv'
<1>1. ASSUME NEW c \in Configs PROVE Came(c)' = Came(c)
  BY DEF Came, Records
<1>2. QED
  BY <1>1 DEF MergeInv, LastIsKept, AllAreNamed

LEMMA ThreadStepHarvest ==
  ASSUME MultiTypeOK, HarvestInv, NEW e \in Executors, ThreadStep(e)
  PROVE  HarvestInv'
<1>1. /\ thread[e] \notin {"none", "done"} /\ thread'[e] # "none"
      /\ \A f \in Executors : f # e => thread'[f] = thread[f]
      /\ \A f \in Executors : f # e => (f \in error' <=> f \in error)
      /\ UNCHANGED <<main, slice, reports, results, duplicates>>
  BY ThreadStepFrame DEF mainVars
<1>2. \A i \in DOMAIN reports : reports[i] \in Executors /\ reports[i] # e
  <2>1. \A i \in DOMAIN reports : reports[i] \in Executors
    BY DEF MultiTypeOK
  <2>2. QED
    BY <1>1, <2>1 DEF HarvestInv, LandingInv
<1>3. MergeInv'
  BY <1>1, <1>2, MergeKept DEF HarvestInv
<1>4. main # "returned"
  BY <1>1 DEF HarvestInv, LandingInv, AllDone
<1>5. LandingInv'
  BY <1>1, <1>2, <1>4 DEF HarvestInv, LandingInv
<1>6. QED
  BY <1>3, <1>5 DEF HarvestInv

\* The landings before this one, and it.
LEMMA CameGrows ==
  ASSUME MultiTypeOK, NEW e \in Executors, Land(e), NEW c \in Configs
  PROVE  /\ Len(reports) \in Nat /\ DOMAIN reports = 1 .. Len(reports)
         /\ DOMAIN reports' = 1 .. Len(reports) + 1
         /\ \A i \in 1 .. Len(reports) : reports'[i] = reports[i]
         /\ reports'[Len(reports) + 1] = e
         /\ Came(c) \in SUBSET (1 .. Len(reports))
         /\ Came(c)' = IF c \in Records(e) THEN Came(c) \cup {Len(reports) + 1} ELSE Came(c)
<1>1. reports \in Seq(Executors)
  BY DEF MultiTypeOK
<1>2. reports' = Append(reports, e) /\ slice' = slice /\ error' = error
  BY DEF Land, threadVars
<1>3. Len(reports) \in Nat /\ DOMAIN reports = 1 .. Len(reports)
  BY <1>1
<1>4. /\ DOMAIN reports' = 1 .. Len(reports) + 1
      /\ \A i \in 1 .. Len(reports) : reports'[i] = reports[i]
      /\ reports'[Len(reports) + 1] = e
  BY <1>1, <1>2
<1>5. \A f : Records(f)' = Records(f)
  BY <1>2 DEF Records
<1>6. Came(c)' = IF c \in Records(e) THEN Came(c) \cup {Len(reports) + 1} ELSE Came(c)
  BY <1>3, <1>4, <1>5 DEF Came
<1>7. QED
  BY <1>3, <1>4, <1>6 DEF Came

LEMMA CameIsFinite ==
  ASSUME MultiTypeOK, NEW c \in Configs
  PROVE  IsFiniteSet(Came(c)) /\ Cardinality(Came(c)) \in Nat /\ (Cardinality(Came(c)) = 0 <=> Came(c) = {})
<1>1. reports \in Seq(Executors)
  BY DEF MultiTypeOK
<1>2. Came(c) \in SUBSET (1 .. Len(reports)) /\ Len(reports) \in Nat
  BY <1>1 DEF Came
<1>3. IsFiniteSet(1 .. Len(reports))
  BY <1>2, FS_Interval
<1>4. QED
  BY <1>2, <1>3, FS_Subset, FS_CardinalityType, FS_EmptySet

\* One more landing keeps the last record and lengthens the list of providers.
LEMMA LandMerges ==
  ASSUME MultiTypeOK, MergeInv, NEW e \in Executors, Land(e), NEW c \in Configs
  PROVE  LastIsKept(c)' /\ AllAreNamed(c)'
<1> DEFINE n == Len(reports)
           S == Came(c)
           T == Came(c)'
<1>1. /\ n \in Nat /\ DOMAIN reports = 1 .. n /\ DOMAIN reports' = 1 .. n + 1
      /\ \A i \in 1 .. n : reports'[i] = reports[i]
      /\ reports'[n + 1] = e
      /\ S \in SUBSET (1 .. n)
      /\ T = IF c \in Records(e) THEN S \cup {n + 1} ELSE S
  BY CameGrows
<1>2. IsFiniteSet(S) /\ Cardinality(S) \in Nat /\ (Cardinality(S) = 0 <=> S = {})
  BY CameIsFinite
<1>3. LastIsKept(c) /\ AllAreNamed(c)
  BY DEF MergeInv
<1>4. results'[c] = (IF c \in Records(e) THEN e ELSE results[c])
  BY DEF Land
<1>5. duplicates'[c] = (IF c \notin Records(e) \/ results[c] = 0 THEN duplicates[c]
                        ELSE IF duplicates[c] = <<>> THEN <<results[c], e>>
                        ELSE Append(duplicates[c], e))
  BY DEF Land
<1>6. CASE c \notin Records(e)
  <2>1. T = S /\ results'[c] = results[c] /\ duplicates'[c] = duplicates[c]
    BY <1>1, <1>4, <1>5, <1>6
  <2>2. \A i \in S : reports'[i] = reports[i]
    BY <1>1
  <2>3. LastIsKept(c)'
    BY <1>3, <2>1, <2>2 DEF LastIsKept
  <2>4. AllAreNamed(c)'
    BY <1>3, <2>1, <2>2 DEF AllAreNamed
  <2>5. QED
    BY <2>3, <2>4
<1>7. CASE c \in Records(e)
  <2>1. T = S \cup {n + 1} /\ n + 1 \notin S /\ results'[c] = e
    BY <1>1, <1>4, <1>7
  <2>2. LastIsKept(c)'
    <3>1. n + 1 \in T /\ \A j \in T : j <= n + 1
      BY <1>1, <2>1
    <3>2. results'[c] = reports'[n + 1]
      BY <1>1, <2>1
    <3>3. QED
      BY <3>1, <3>2 DEF LastIsKept
  <2>3. Cardinality(T) = Cardinality(S) + 1
    BY <1>2, <2>1, FS_AddElement
  <2>4. \A i \in S : {j \in T : j <= i} = {j \in S : j <= i}
    BY <1>1, <2>1
  <2>5. {j \in T : j <= n + 1} = T
    BY <1>1, <2>1
  <2>6. S # {} => results[c] \in Executors
    <3>1. \A i \in S : reports[i] \in Executors
      BY <1>1 DEF MultiTypeOK
    <3>2. QED
      BY <1>3, <3>1 DEF LastIsKept
  <2>7. S # {} <=> results[c] # 0
    BY <1>3, <2>6 DEF LastIsKept, Executors
  <2>8. CASE S = {}
    <3>1. Cardinality(T) < 2
      BY <1>2, <2>3, <2>8
    <3>2. duplicates'[c] = duplicates[c] /\ duplicates[c] = <<>>
      BY <1>2, <1>3, <1>5, <2>7, <2>8 DEF AllAreNamed
    <3>3. AllAreNamed(c)'
      BY <3>1, <3>2 DEF AllAreNamed
    <3>4. QED
      BY <2>2, <3>3
  <2>9. CASE S # {} /\ Cardinality(S) < 2
    <3>1. PICK i \in S : S = {i}
      <4>1. Cardinality(S) = 1
        BY <1>2, <2>9
      <4>2. QED
        BY <1>2, <4>1, FS_Singleton
    <3>2. results[c] = reports[i] /\ duplicates[c] = <<>>
      BY <1>3, <2>9, <3>1 DEF LastIsKept, AllAreNamed
    <3>3. duplicates'[c] = <<reports[i], e>>
      BY <1>5, <1>7, <2>7, <2>9, <3>2
    <3>4. Cardinality(T) = 2
      BY <1>2, <2>3, <2>9
    <3>5. i \in Nat /\ {j \in T : j <= i} = {i}
      BY <1>1, <2>4, <3>1
    <3>6. Cardinality({j \in T : j <= i}) = 1
      BY <3>5, FS_Singleton
    <3>7. Len(duplicates'[c]) = 2 /\ duplicates'[c][1] = reports[i] /\ duplicates'[c][2] = e
      BY <3>3
    <3>8. \A k \in T : duplicates'[c][Cardinality({j \in T : j <= k})] = reports'[k]
      <4>1. duplicates'[c][Cardinality({j \in T : j <= i})] = reports'[i]
        BY <1>1, <3>1, <3>6, <3>7
      <4>2. duplicates'[c][Cardinality({j \in T : j <= n + 1})] = reports'[n + 1]
        BY <1>1, <2>5, <3>4, <3>7
      <4>3. \A k \in T : k = i \/ k = n + 1
        BY <2>1, <3>1
      <4>4. QED
        BY <4>1, <4>2, <4>3
    <3>9. AllAreNamed(c)'
      BY <3>4, <3>7, <3>8 DEF AllAreNamed
    <3>10. QED
      BY <2>2, <3>9
  <2>10. CASE ~ (Cardinality(S) < 2)
    <3>1. /\ Len(duplicates[c]) = Cardinality(S)
          /\ \A i \in S : duplicates[c][Cardinality({j \in S : j <= i})] = reports[i]
      BY <1>3, <2>10 DEF AllAreNamed
    <3>2. S # {} /\ duplicates[c] # <<>> /\ duplicates[c] \in Seq(Executors)
      <4>1. duplicates[c] \in Seq(Executors)
        BY DEF MultiTypeOK
      <4>2. QED
        BY <1>2, <2>10, <3>1, <4>1
    <3>3. duplicates'[c] = Append(duplicates[c], e)
      BY <1>5, <1>7, <2>7, <3>2
    <3>4. /\ Len(duplicates'[c]) = Cardinality(T)
          /\ \A k \in 1 .. Cardinality(S) : duplicates'[c][k] = duplicates[c][k]
          /\ duplicates'[c][Cardinality(T)] = e
      BY <1>2, <2>3, <3>1, <3>2, <3>3
    <3>5. \A k \in T : duplicates'[c][Cardinality({j \in T : j <= k})] = reports'[k]
      <4>1. ASSUME NEW k \in S
            PROVE  duplicates'[c][Cardinality({j \in T : j <= k})] = reports'[k]
        <5> DEFINE R == {j \in S : j <= k}
        <5>1. R \in SUBSET S /\ R # {}
          BY <1>1
        <5>2. IsFiniteSet(R) /\ Cardinality(R) <= Cardinality(S) /\ Cardinality(R) \in Nat
          BY <1>2, <5>1, FS_Subset, FS_CardinalityType
        <5>3. Cardinality(R) # 0
          BY <5>1, <5>2, FS_EmptySet
        <5>4. {j \in T : j <= k} = R
          BY <2>4
        <5>5. duplicates[c][Cardinality(R)] = reports[k] /\ reports'[k] = reports[k]
          BY <1>1, <3>1
        <5> HIDE DEF R
        <5>6. Cardinality(R) \in 1 .. Cardinality(S)
          BY <1>2, <5>2, <5>3
        <5>7. duplicates'[c][Cardinality(R)] = duplicates[c][Cardinality(R)]
          BY <3>4, <5>6
        <5>8. QED
          BY <5>4, <5>5, <5>7
      <4>2. duplicates'[c][Cardinality({j \in T : j <= n + 1})] = reports'[n + 1]
        BY <1>1, <2>5, <3>4
      <4>3. QED
        BY <2>1, <4>1, <4>2
    <3>6. AllAreNamed(c)'
      <4>1. ~ (Cardinality(T) < 2)
        BY <1>2, <2>3, <2>10
      <4>2. QED
        BY <3>4, <3>5, <4>1 DEF AllAreNamed
    <3>7. QED
      BY <2>2, <3>6
  <2>11. QED
    BY <2>8, <2>9, <2>10
<1>8. QED
  BY <1>6, <1>7

LEMMA LandHarvest ==
  ASSUME MultiTypeOK, HarvestInv, NEW e \in Executors, Land(e)
  PROVE  HarvestInv'
<1>1. MergeInv'
  BY LandMerges DEF HarvestInv, MergeInv
<1>2. /\ main = "draining" /\ main' = main /\ slice' = slice /\ thread' = thread
      /\ e \in Landed
  BY DEF Land, threadVars
<1>3. LandingInv'
  <2> DEFINE n == Len(reports)
  <2>1. reports \in Seq(Executors) /\ reports' = Append(reports, e)
    BY DEF MultiTypeOK, Land
  <2>2. /\ n \in Nat /\ DOMAIN reports = 1 .. n /\ DOMAIN reports' = 1 .. n + 1
        /\ \A i \in 1 .. n : reports'[i] = reports[i]
        /\ reports'[n + 1] = e
    BY <2>1
  <2>3. thread[e] = "done" /\ \A i \in 1 .. n : reports[i] # e
    BY <1>2, <2>2 DEF Landed
  <2> HIDE DEF n
  <2>4. \A i \in DOMAIN reports' : thread'[reports'[i]] = "done"
    <3>1. \A i \in 1 .. n : thread[reports[i]] = "done"
      BY <2>2 DEF HarvestInv, LandingInv
    <3>2. \A i \in DOMAIN reports' : i \in 1 .. n \/ i = n + 1
      BY <2>2
    <3>3. QED
      BY <1>2, <2>2, <2>3, <3>1, <3>2
  <2>5. \A i, j \in DOMAIN reports' : reports'[i] = reports'[j] => i = j
    <3>1. \A i, j \in 1 .. n : reports[i] = reports[j] => i = j
      BY <2>2 DEF HarvestInv, LandingInv
    <3>2. \A i \in DOMAIN reports' : i \in 1 .. n \/ i = n + 1
      BY <2>2
    <3>3. QED
      BY <2>2, <2>3, <3>1, <3>2
  <2>6. QED
    BY <1>2, <2>4, <2>5 DEF HarvestInv, LandingInv
<1>4. QED
  BY <1>1, <1>3 DEF HarvestInv

LEMMA HarvestElsewhere ==
  ASSUME MultiTypeOK, HarvestInv,
         \/ \E e \in Executors : OnResultRaises(e)
         \/ Return \/ Unwind \/ Elsewhere \/ UNCHANGED multiVars
  PROVE  HarvestInv'
<1>1. UNCHANGED <<slice, reports, results, duplicates, thread, error>>
  BY DEF OnResultRaises, Return, Unwind, Elsewhere, multiVars, threadVars, mainVars
<1>2. MergeInv'
  BY <1>1, MergeKept DEF HarvestInv
<1>3. main' = "returned" => (AllDone /\ Landed = {})
  BY DEF OnResultRaises, Return, Unwind, Elsewhere, multiVars, mainVars, HarvestInv, LandingInv
<1>4. LandingInv'
  BY <1>1, <1>3 DEF HarvestInv, LandingInv, AllDone, Landed
<1>5. QED
  BY <1>2, <1>4 DEF HarvestInv

LEMMA HarvestInit == MultiInit => HarvestInv
<1> SUFFICES ASSUME MultiInit PROVE HarvestInv
  OBVIOUS
<1>1. /\ reports = <<>> /\ DOMAIN reports = {} /\ main = "draining"
      /\ \A e \in Executors : thread[e] = "none" => slice[e] = {}
      /\ \A c \in Configs : results[c] = 0 /\ duplicates[c] = <<>>
  BY DEF MultiInit
<1>2. slice # Overlapping \/ NExecutors = 1 => Partitions(slice)
  <2>1. Executors = 1 .. NExecutors /\ Configs = 1 .. NConfigs
    BY DEF Executors, Configs
  <2>2. NExecutors = 1 => Partitions(Overlapping)
    BY <2>1 DEF Partitions, Overlapping
  <2>3. slice \in {RoundRobin, Overlapping} \cup {Apportioned(w) : w \in Weightings}
    BY DEF MultiInit
  <2>4. QED
    BY <2>2, <2>3, SplitLosesNothing, DealingLosesNothing
<1>3. \A c \in Configs : Came(c) = {}
  BY <1>1 DEF Came
<1>4. MergeInv
  BY <1>1, <1>3, FS_EmptySet DEF MergeInv, LastIsKept, AllAreNamed
<1>5. QED
  BY <1>1, <1>2, <1>4 DEF HarvestInv, LandingInv

LEMMA HarvestFollows ==
  ASSUME MultiTypeOK, HarvestInv
  PROVE  HarvestIsWhole
<1> SUFFICES ASSUME main = "returned" PROVE HarvestIsWhole
  BY DEF HarvestIsWhole
<1>1. AllDone /\ Landed = {}
  BY DEF HarvestInv, LandingInv
<1>2. ASSUME NEW e \in Executors, slice[e] # {}
      PROVE  \E i \in DOMAIN reports : reports[i] = e
  <2>1. thread[e] = "done"
    BY <1>1, <1>2 DEF AllDone, HarvestInv, LandingInv
  <2>2. QED
    BY <1>1, <2>1 DEF Landed
<1>3. ASSUME NEW e \in Executors, slice[e] # {}
      PROVE  Cardinality({i \in DOMAIN reports : reports[i] = e}) = 1
  <2>1. PICK i \in DOMAIN reports : reports[i] = e
    BY <1>2, <1>3
  <2>2. {k \in DOMAIN reports : reports[k] = e} = {i}
    BY <2>1 DEF HarvestInv, LandingInv
  <2>3. QED
    BY <2>2, FS_Singleton
<1>4. ASSUME slice # Overlapping \/ NExecutors = 1, NEW c \in Configs
      PROVE  duplicates[c] = <<>> /\ (error = {} => results[c] # 0)
  <2>1. PICK e \in Executors : c \in slice[e] /\ \A f \in Executors : c \in slice[f] => f = e
    BY <1>4 DEF HarvestInv, LandingInv, Partitions
  <2>2. \A i \in Came(c) : i \in DOMAIN reports /\ reports[i] = e
    <3>1. \A i \in DOMAIN reports : reports[i] \in Executors
      BY DEF MultiTypeOK
    <3>2. QED
      BY <2>1, <3>1 DEF Came, Records
  <2>3. \A i, j \in Came(c) : i = j
    BY <2>2 DEF HarvestInv, LandingInv
  <2>4. Cardinality(Came(c)) < 2
    <3>1. CASE Came(c) = {}
      BY <3>1, FS_EmptySet
    <3>2. ASSUME NEW i \in Came(c) PROVE Cardinality(Came(c)) < 2
      <4>1. Came(c) = {i}
        BY <2>3, <3>2
      <4>2. Cardinality(Came(c)) = 1
        BY <4>1, FS_Singleton
      <4>3. QED
        BY <4>2
    <3>3. QED
      BY <3>1, <3>2
  <2>5. LastIsKept(c) /\ AllAreNamed(c)
    BY DEF HarvestInv, MergeInv
  <2>6. duplicates[c] = <<>>
    BY <2>4, <2>5 DEF AllAreNamed
  <2>7. ASSUME error = {} PROVE results[c] # 0
    <3>1. PICK i \in DOMAIN reports : reports[i] = e
      BY <1>2, <2>1
    <3>2. i \in Came(c)
      BY <2>1, <2>7, <3>1 DEF Came, Records
    <3>3. results[c] = e
      BY <2>2, <2>5, <3>2 DEF LastIsKept
    <3>4. QED
      BY <3>3 DEF Executors
  <2>8. QED
    BY <2>6, <2>7
<1>5. QED
  BY <1>3, <1>4 DEF HarvestInv, MergeInv, HarvestIsWhole

\* The harvest is whole for any number of executors and configs, any weights, and
\* whatever order the slices land in.
THEOREM HarvestIsWholeAlways == MultiSpec => []HarvestIsWhole
<1>1. MultiTypeOK /\ HarvestInv /\ [MultiNext]_multiVars => HarvestInv'
  BY ThreadStepHarvest, LandHarvest, HarvestElsewhere DEF MultiNext, MainStep
<1>2. MultiTypeOK /\ HarvestInv => HarvestIsWhole
  BY HarvestFollows
<1>3. QED
  BY <1>1, <1>2, HarvestInit, MultiTypeCorrect, PTL DEF MultiSpec

-----------------------------------------------------------------------------
(* How long a campaign can take                                            *)
(*                                                                         *)
(* EveryCampaignEnds is checked by a run.  What it rests on beside fairness *)
(* is proved: the threads and the main thread together have a bounded      *)
(* number of steps to take, added up over the executors.                   *)

\* What is left to a thread, at most: six steps for every offer.
ThreadRank(e) ==
  LET phase == [gating |-> 5, summed |-> 4, creating |-> 3, using |-> 2, closing |-> 1]
  IN  IF thread[e] = "queued" THEN 6 * MaxAttempts
      ELSE IF thread[e] = "working" THEN 1
      ELSE IF thread[e] \in Renting THEN 6 * (tries[e] - 1) + phase[thread[e]]
      ELSE 0

Reported == {reports[i] : i \in DOMAIN reports}

\* Its slice has still to be taken from the pool.
LandRank(e) == IF e \in Reported THEN 0 ELSE 1

Work == [e \in Executors |-> ThreadRank(e) + LandRank(e)]

MainRank == IF main = "draining" THEN 2 ELSE IF main = "unwinding" THEN 1 ELSE 0

CampaignRank == Added(Work, Executors) + MainRank

CampaignBound == (6 * MaxAttempts + 1) * NExecutors + 2

\* A thread between two offers has another one.
OffersInv ==
  \A e \in Executors :
    /\ thread[e] \in Renting => e \in Renters
    /\ thread[e] \in Renting \cup {"queued"} /\ e \in Renters => tries[e] # 0

\* A step of a thread or of the main thread uses up a step of the campaign; time and
\* the reaper give none back.
CampaignGetsOn ==
  /\ (\E e \in Executors : ThreadStep(e)) \/ MainStep => CampaignRank' < CampaignRank
  /\ CampaignRank' <= CampaignRank

\* The rank is a number within its bound.
CampaignRankInv == CampaignRank \in 0 .. CampaignBound

\* A sum of which one summand falls and the others stay falls.
LEMMA AddedFalls ==
  ASSUME NEW S, IsFiniteSet(S), NEW f, NEW g, \A x \in S : f[x] \in Int /\ g[x] \in Int,
         NEW e \in S, g[e] < f[e], \A x \in S \ {e} : g[x] = f[x]
  PROVE  Added(g, S) < Added(f, S)
<1>1. Added(f, S) = f[e] + Added(f, S \ {e}) /\ Added(g, S) = g[e] + Added(g, S \ {e})
  BY AddedStep
<1>2. IsFiniteSet(S \ {e})
  BY FS_RemoveElement
<1>3. Added(f, S \ {e}) \in Int /\ Added(g, S \ {e}) \in Int
  BY <1>2, AddedStep
<1>4. Added(g, S \ {e}) <= Added(f, S \ {e})
  BY <1>2, AddedCompare
<1>5. f[e] \in Int /\ g[e] \in Int
  OBVIOUS
<1>6. QED
  BY <1>1, <1>3, <1>4, <1>5

LEMMA WorkBounded ==
  ASSUME MultiTypeOK, OffersInv, NEW e \in Executors
  PROVE  ThreadRank(e) \in 0 .. 6 * MaxAttempts /\ Work[e] \in 0 .. 6 * MaxAttempts + 1
<1>1. MaxAttempts \in Nat \ {0}
  BY MultiAssumption
<1>2. thread[e] \in Renting => tries[e] \in 1 .. MaxAttempts
  BY <1>1 DEF MultiTypeOK, OffersInv
<1>3. ThreadRank(e) \in 0 .. 6 * MaxAttempts
  <2>1. CASE thread[e] \in Renting
    <3>1. PICK n \in 1 .. MaxAttempts : tries[e] = n
      BY <1>2, <2>1
    <3>2. PICK k \in 1 .. 5 : ThreadRank(e) = 6 * (n - 1) + k
      BY <2>1, <3>1 DEF ThreadRank, Renting
    <3>3. QED
      BY <1>1, <3>1, <3>2
  <2>2. CASE thread[e] \notin Renting
    BY <1>1, <2>2 DEF ThreadRank
  <2>3. QED
    BY <2>1, <2>2
<1>4. QED
  BY <1>1, <1>3 DEF Work, LandRank

LEMMA CampaignRankBounded == MultiTypeOK /\ OffersInv => CampaignRankInv
<1> SUFFICES ASSUME MultiTypeOK, OffersInv PROVE CampaignRankInv
  OBVIOUS
<1>1. MaxAttempts \in Nat \ {0} /\ NExecutors \in Nat \ {0}
  BY MultiAssumption
<1>2. PICK m \in Nat : m = 6 * MaxAttempts + 1
  BY <1>1
<1>3. IsFiniteSet(Executors) /\ Cardinality(Executors) = NExecutors
  BY <1>1, ExecutorsAreFinite, FS_Interval DEF Executors
<1>4. \A e \in Executors : Work[e] \in 0 .. m
  BY <1>2, WorkBounded
<1>5. Added(Work, Executors) \in Nat /\ Added(Work, Executors) <= m * NExecutors
  BY <1>2, <1>3, <1>4, AddedBound
<1>6. MainRank \in 0 .. 2
  BY DEF MainRank
<1>7. CampaignBound = m * NExecutors + 2 /\ m * NExecutors \in Nat
  BY <1>1, <1>2 DEF CampaignBound
<1>8. QED
  BY <1>5, <1>6, <1>7 DEF CampaignRank, CampaignRankInv

\* How a renter leaves an offer: with one offer fewer, or for good.
LEMMA OfferUsedUp ==
  ASSUME MultiTypeOK, OffersInv, NEW e \in Executors, e \in Renters, thread[e] \in Renting,
         Failover(e) \/ \E raised \in BOOLEAN : Ends(e, raised) /\ UNCHANGED tries
  PROVE  /\ OffersInv'
         /\ ThreadRank(e)' < ThreadRank(e)
<1> USE DEF Go, Ends
<1>1. PICK n \in 1 .. MaxAttempts : tries[e] = n
  BY MultiAssumption DEF MultiTypeOK, OffersInv
<1>2. PICK k \in 1 .. 5 : ThreadRank(e) = 6 * (n - 1) + k
  BY <1>1 DEF ThreadRank, Renting
<1>3. thread \in [Executors -> Renting \cup {"none", "queued", "working", "done"}]
      /\ tries \in [Renters -> 0 .. MaxAttempts] /\ MaxAttempts \in Nat
  BY MultiAssumption DEF MultiTypeOK
<1>4. CASE Failover(e) /\ tries[e] > 1
  <2>1. thread' = [thread EXCEPT ![e] = "gating"] /\ tries' = [tries EXCEPT ![e] = @ - 1]
    BY <1>4 DEF Failover
  <2>2. thread'[e] = "gating" /\ tries'[e] = n - 1
    BY <1>1, <1>3, <2>1
  <2>3. ThreadRank(e)' = 6 * (n - 1 - 1) + 5
    BY <2>2 DEF ThreadRank, Renting
  <2>4. OffersInv'
    BY <1>1, <1>3, <1>4, <2>1, <2>2 DEF OffersInv, Renting
  <2>5. QED
    BY <1>1, <1>2, <2>3, <2>4
<1>5. CASE thread' = [thread EXCEPT ![e] = "done"] /\ \A f \in Renters \ {e} : tries'[f] = tries[f]
  <2>1. ThreadRank(e)' = 0
    BY <1>3, <1>5 DEF ThreadRank, Renting
  <2>2. OffersInv'
    BY <1>3, <1>5 DEF OffersInv, Renting
  <2>3. QED
    BY <1>1, <1>2, <2>1, <2>2
<1>6. QED
  BY <1>3, <1>4, <1>5 DEF Failover

\* Every step of a thread uses up one of its own.
LEMMA ThreadGetsOn ==
  ASSUME MultiTypeOK, OffersInv, NEW e \in Executors, ThreadStep(e)
  PROVE  OffersInv' /\ ThreadRank(e)' < ThreadRank(e)
<1> USE DEF Go, Ends
<1>1. thread \in [Executors -> Renting \cup {"none", "queued", "working", "done"}]
      /\ tries \in [Renters -> 0 .. MaxAttempts] /\ MaxAttempts \in Nat \ {0}
  BY MultiAssumption DEF MultiTypeOK
<1>2. CASE Start(e)
  <2>1. CASE e \in Renters
    <3>1. thread[e] = "queued" /\ thread' = [thread EXCEPT ![e] = "gating"] /\ tries' = tries
      BY <1>2, <2>1 DEF Start
    <3>2. PICK n \in 1 .. MaxAttempts : tries[e] = n
      BY <1>1, <2>1, <3>1 DEF OffersInv
    <3>3. ThreadRank(e) = 6 * MaxAttempts
      BY <3>1 DEF ThreadRank
    <3>4. ThreadRank(e)' = 6 * (n - 1) + 5
      BY <1>1, <3>1, <3>2 DEF ThreadRank, Renting
    <3>5. OffersInv'
      BY <1>1, <2>1, <3>1 DEF OffersInv, Renting
    <3>6. QED
      BY <1>1, <3>2, <3>3, <3>4, <3>5
  <2>2. CASE e \notin Renters
    <3>1. thread[e] = "queued" /\ thread' = [thread EXCEPT ![e] = "working"] /\ tries' = tries
      BY <1>2, <2>2 DEF Start
    <3>2. ThreadRank(e) = 6 * MaxAttempts /\ ThreadRank(e)' = 1
      BY <1>1, <3>1 DEF ThreadRank
    <3>3. OffersInv'
      BY <1>1, <3>1 DEF OffersInv, Renting
    <3>4. QED
      BY <1>1, <3>2, <3>3
  <2>3. QED
    BY <2>1, <2>2
<1>3. CASE PlainEnds(e)
  <2>1. thread[e] = "working" /\ thread' = [thread EXCEPT ![e] = "done"] /\ tries' = tries
    BY <1>3 DEF PlainEnds
  <2>2. ThreadRank(e) = 1 /\ ThreadRank(e)' = 0
    BY <1>1, <2>1 DEF ThreadRank, Renting
  <2>3. OffersInv'
    BY <1>1, <2>1 DEF OffersInv, Renting
  <2>4. QED
    BY <2>2, <2>3
<1>4. ASSUME e \in Renters, tries' = tries,
             NEW st, thread' = [thread EXCEPT ![e] = st],
             \/ thread[e] \in Renting /\ st = "done"
             \/ thread[e] = "gating" /\ st = "summed"
             \/ thread[e] = "summed" /\ st = "creating"
             \/ thread[e] = "creating" /\ st = "using"
             \/ thread[e] = "using" /\ st = "closing"
      PROVE  OffersInv' /\ ThreadRank(e)' < ThreadRank(e)
  <2>1. thread[e] \in Renting
    BY <1>4 DEF Renting
  <2>2. PICK n \in 1 .. MaxAttempts : tries[e] = n
    BY <1>1, <1>4, <2>1 DEF OffersInv
  <2>3. ThreadRank(e)' < ThreadRank(e)
    <3>1. thread'[e] = st /\ tries'[e] = n
      BY <1>1, <1>4, <2>2
    <3>2. QED
      BY <1>4, <2>1, <2>2, <3>1 DEF ThreadRank, Renting
  <2>4. OffersInv'
    BY <1>1, <1>4, <2>1 DEF OffersInv, Renting
  <2>5. QED
    BY <2>3, <2>4
<1>5. CASE e \in Renters /\ (Sum(e) \/ SumRaises(e) \/ Gate(e) \/ CreateBox(e) \/ UseEnds(e))
  BY <1>4, <1>5 DEF Sum, SumRaises, Gate, CreateBox, UseEnds, Renting
<1>6. CASE e \in Renters /\ (CreateFails(e) \/ CloseBox(e))
  <2>1. thread[e] \in Renting
        /\ (Failover(e) \/ \E raised \in BOOLEAN : Ends(e, raised) /\ UNCHANGED tries)
    BY <1>6 DEF CreateFails, CloseBox, Renting
  <2>2. QED
    BY <1>6, <2>1, OfferUsedUp
<1>7. QED
  BY <1>2, <1>3, <1>5, <1>6 DEF ThreadStep

\* Every step of the campaign.
LEMMA CampaignStep ==
  ASSUME MultiTypeOK, OffersInv, OffersInv', CampaignRankInv, CampaignRankInv',
         \A e \in Executors : Work[e] \in Nat /\ Work'[e] \in Nat /\ ThreadRank(e)' \in Nat,
         [MultiNext]_multiVars
  PROVE  CampaignGetsOn
<1>1. IsFiniteSet(Executors) /\ CampaignBound \in Nat
  BY ExecutorsAreFinite, MultiAssumption DEF CampaignBound
<1>2. CampaignRank \in Nat /\ CampaignRank' \in Nat
  BY <1>1 DEF CampaignRankInv
<1>3. Added(Work, Executors) \in Int /\ Added(Work', Executors) \in Int
      /\ MainRank \in 0 .. 2 /\ MainRank' \in 0 .. 2
  BY <1>1, AddedStep DEF MainRank
<1>4. CampaignRank = Added(Work, Executors) + MainRank
      /\ CampaignRank' = Added(Work', Executors) + MainRank'
  BY DEF CampaignRank
<1>5. ASSUME NEW e \in Executors, Work'[e] < Work[e], main' = main,
             \A f \in Executors \ {e} : Work'[f] = Work[f]
      PROVE  CampaignRank' < CampaignRank
  <2>1. Added(Work', Executors) < Added(Work, Executors)
    BY <1>1, <1>5, AddedFalls
  <2>2. MainRank' = MainRank
    BY <1>5 DEF MainRank
  <2>3. QED
    BY <1>3, <1>4, <2>1, <2>2
<1>6. ASSUME NEW e \in Executors, ThreadStep(e) PROVE CampaignRank' < CampaignRank
  <2>1. /\ \A f \in Executors : f # e => thread'[f] = thread[f]
        /\ UNCHANGED mainVars
    BY <1>6, ThreadStepFrame
  <2>2. ThreadRank(e)' < ThreadRank(e) /\ ThreadRank(e) \in Int
    BY <1>6, ThreadGetsOn, WorkBounded
  <2>3. \A f \in Executors : LandRank(f)' = LandRank(f)
    BY <2>1 DEF mainVars, LandRank, Reported
  <2>4. \A f \in Executors \ {e} : f \in Renters => tries'[f] = tries[f]
    BY <1>6 DEF ThreadStep, Start, PlainEnds, Sum, SumRaises, Gate, CreateBox, CreateFails, UseEnds,
                CloseBox, Failover, Ends, MultiTypeOK
  <2>5. \A f \in Executors \ {e} : ThreadRank(f)' = ThreadRank(f)
    BY <2>1, <2>4 DEF ThreadRank, OffersInv
  <2>6. \A f \in Executors \ {e} : Work'[f] = Work[f]
    BY <2>3, <2>5 DEF Work
  <2>7. Work'[e] < Work[e]
    <3>1. Work[e] = ThreadRank(e) + LandRank(e) /\ Work'[e] = ThreadRank(e)' + LandRank(e)
      BY <2>3 DEF Work
    <3>2. LandRank(e) \in 0 .. 1
      BY DEF LandRank
    <3>3. ThreadRank(e)' \in Int
      OBVIOUS
    <3>4. QED
      BY <2>2, <3>1, <3>2, <3>3
  <2>8. QED
    BY <1>5, <2>1, <2>6, <2>7 DEF mainVars
<1>7. ASSUME NEW e \in Executors, Land(e) PROVE CampaignRank' < CampaignRank
  <2>1. e \notin Reported /\ reports' = Append(reports, e) /\ reports \in Seq(Executors)
        /\ UNCHANGED <<main, threadVars>>
    BY <1>7 DEF Land, Landed, Reported, MultiTypeOK
  <2>2. Reported' = Reported \cup {e}
    BY <2>1 DEF Reported
  <2>3. \A f \in Executors : ThreadRank(f)' = ThreadRank(f)
    BY <2>1 DEF threadVars, ThreadRank
  <2>4. \A f \in Executors \ {e} : Work'[f] = Work[f]
    BY <2>2, <2>3 DEF Work, LandRank
  <2>5. Work'[e] < Work[e]
    <3>1. Work[e] = ThreadRank(e) + 1 /\ Work'[e] = ThreadRank(e) + 0
      BY <2>1, <2>2, <2>3 DEF Work, LandRank
    <3>2. ThreadRank(e) \in Int
      BY WorkBounded
    <3>3. QED
      BY <3>1, <3>2
  <2>6. QED
    BY <1>5, <2>1, <2>4, <2>5
<1>8. ASSUME UNCHANGED <<threadVars, reports>>
      PROVE  Work' = Work
  BY <1>8 DEF threadVars, Work, ThreadRank, LandRank, Reported
<1>9. ASSUME (\E e \in Executors : OnResultRaises(e)) \/ Return \/ Unwind
      PROVE  CampaignRank' < CampaignRank
  <2>1. Work' = Work
    BY <1>8, <1>9 DEF OnResultRaises, Return, Unwind
  <2>2. MainRank' < MainRank
    BY <1>9 DEF OnResultRaises, Return, Unwind, MainRank
  <2>3. QED
    BY <1>3, <1>4, <2>1, <2>2
<1>10. ASSUME Elsewhere \/ UNCHANGED multiVars
       PROVE  CampaignRank' <= CampaignRank
  <2>1. UNCHANGED <<threadVars, mainVars>>
    BY <1>10 DEF Elsewhere, multiVars
  <2>2. CampaignRank' = CampaignRank
    BY <1>4, <1>8, <2>1 DEF mainVars, MainRank
  <2>3. QED
    BY <1>2, <2>2
<1>11. ASSUME (\E e \in Executors : ThreadStep(e)) \/ MainStep
       PROVE  CampaignRank' < CampaignRank
  BY <1>6, <1>7, <1>9, <1>11 DEF MainStep
<1>12. QED
  BY <1>2, <1>10, <1>11 DEF MultiNext, CampaignGetsOn

\* However the offers turn out, whoever raises and in whatever order the slices
\* land, the threads and the main thread of run_multi take at most CampaignBound
\* steps between them: each one uses one up, and neither time nor the reaper gives
\* any back.  EveryCampaignEnds adds that they are scheduled.
THEOREM CampaignIsBounded == MultiSpec => []CampaignRankInv /\ [][CampaignGetsOn]_multiVars
<1> DEFINE WorkOK == \A e \in Executors : Work[e] \in Nat /\ ThreadRank(e) \in Nat
<1>1. MultiInit => OffersInv
  BY MultiAssumption DEF MultiInit, OffersInv, Renting
<1>2. MultiTypeOK /\ OffersInv /\ [MultiNext]_multiVars => OffersInv'
  <2> SUFFICES ASSUME MultiTypeOK, OffersInv, [MultiNext]_multiVars PROVE OffersInv'
    OBVIOUS
  <2>1. ASSUME MainStep \/ Elsewhere \/ UNCHANGED multiVars PROVE OffersInv'
    <3>1. UNCHANGED threadVars
      BY <2>1 DEF MainStep, Land, OnResultRaises, Return, Unwind, Elsewhere, multiVars
    <3>2. QED
      BY <3>1 DEF threadVars, OffersInv
  <2>2. QED
    BY <2>1, ThreadGetsOn DEF MultiNext
<1>3. MultiTypeOK /\ OffersInv => CampaignRankInv
  BY CampaignRankBounded
<1>4. MultiTypeOK /\ OffersInv => WorkOK
  <2>1. 6 * MaxAttempts + 1 \in Nat
    BY MultiAssumption
  <2>2. QED
    BY <2>1, WorkBounded
<1>5. /\ MultiTypeOK /\ OffersInv /\ OffersInv' /\ CampaignRankInv /\ CampaignRankInv'
      /\ WorkOK /\ WorkOK' /\ [MultiNext]_multiVars
      => [CampaignGetsOn]_multiVars
  BY CampaignStep
<1> HIDE DEF WorkOK
<1>6. QED
  BY <1>1, <1>2, <1>3, <1>4, <1>5, MultiTypeCorrect, PTL DEF MultiSpec

=============================================================================
