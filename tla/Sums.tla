-------------------------------- MODULE Sums --------------------------------
(***************************************************************************)
(* Sums over finite sets: the counts of the threads, the sizes of the      *)
(* files.  What is said of every finite set is proved by looking at a      *)
(* smallest set for which it would fail.                                   *)
(***************************************************************************)
EXTENDS Integers, FiniteSetsExt, FiniteSetTheorems, WellFoundedInduction, TLAPS

Total(f, S) == MapThenSumSet(LAMBDA x : f[x], S)

\* The element that the fold takes first, and the sums over all subsets.
First(s) == CHOOSE x \in s : TRUE
Sums(f, S) ==
    CHOOSE g : g = [s \in SUBSET S |-> IF s = {} THEN 0 ELSE f[First(s)] + g[s \ {First(s)}]]

(* A set of numbers has a least one.                                       *)
LEMMA LeastNumber ==
    ASSUME NEW N \in SUBSET Nat, N # {}
    PROVE  \E n \in N : \A m \in N : n <= m
  <1> DEFINE Less == {p \in Nat \X Nat : p[1] < p[2]}
  <1>1. IsWellFoundedOn(Less, Nat)
    BY NatLessThanWellFounded DEF OpToRel
  <1>2. \A m, n \in Nat : <<m, n>> \in Less <=> m < n
    OBVIOUS
  <1> HIDE DEF Less
  <1>3. \E n \in N : \A m \in N : ~ (<<m, n>> \in Less)
    BY <1>1, WFMin
  <1>4. PICK n \in N : \A m \in N : ~ (<<m, n>> \in Less)
    BY <1>3
  <1>5. \A m \in N : ~ (m < n) /\ m \in Nat /\ n \in Nat
    BY <1>2, <1>4
  <1>6. \A m \in N : n <= m
    BY <1>5
  <1> QED
    BY <1>6

(* Of finite sets, one has no member smaller by an element in the family.  *)
LEMMA SmallestSet ==
    ASSUME NEW S, IsFiniteSet(S), NEW B \in SUBSET (SUBSET S), B # {}
    PROVE  \E T \in B : \A x \in T : T \ {x} \notin B
  <1>1. \A T \in B : IsFiniteSet(T) /\ Cardinality(T) \in Nat
    BY FS_Subset, FS_CardinalityType
  <1> DEFINE N == {Cardinality(T) : T \in B}
  <1>2. N \in SUBSET Nat /\ N # {} /\ \A T \in B : Cardinality(T) \in N
    BY <1>1
  <1>3. \A n \in N : \E T \in B : Cardinality(T) = n
    OBVIOUS
  <1> HIDE DEF N
  <1>4. PICK n \in N : \A m \in N : n <= m
    BY <1>2, LeastNumber
  <1>5. PICK T \in B : Cardinality(T) = n
    BY <1>3
  <1>6. ASSUME NEW x \in T, T \ {x} \in B PROVE FALSE
    <2>1. Cardinality(T \ {x}) = Cardinality(T) - 1
      BY <1>1, FS_RemoveElement
    <2>2. n <= Cardinality(T \ {x}) /\ n \in Nat
      BY <1>2, <1>4, <1>6
    <2> QED
      BY <1>5, <2>1, <2>2
  <1> QED
    BY <1>6

(* The fold over a finite set is defined by its recursion.                 *)
LEMMA SumsExist ==
    ASSUME NEW f, NEW S, IsFiniteSet(S)
    PROVE  \A s \in SUBSET S :
               Sums(f, S)[s] = IF s = {} THEN 0 ELSE f[First(s)] + Sums(f, S)[s \ {First(s)}]
  <1> DEFINE D(n) == {s \in SUBSET S : Cardinality(s) <= n}
             Step(g, n) == [s \in D(n) |-> IF s = {} THEN 0 ELSE f[First(s)] + g[s \ {First(s)}]]
             Has(n) == \E g : g = Step(g, n)
  <1>1. \A s \in SUBSET S : IsFiniteSet(s) /\ Cardinality(s) \in Nat
    BY FS_Subset, FS_CardinalityType
  <1>2. \A s \in SUBSET S : s # {} =>
           /\ First(s) \in s /\ s \ {First(s)} \in SUBSET S
           /\ Cardinality(s \ {First(s)}) = Cardinality(s) - 1
    BY <1>1, FS_RemoveElement DEF First
  <1>3. Has(0)
    <2>1. \A s \in D(0) : s = {}
      BY <1>1, FS_EmptySet
    <2> DEFINE zero == [s \in D(0) |-> 0]
    <2>2. zero = Step(zero, 0)
      BY <2>1
    <2> QED
      BY <2>2
  <1>4. ASSUME NEW n \in Nat, Has(n) PROVE Has(n + 1)
    <2>1. PICK g : g = Step(g, n)
      BY <1>4
    <2> DEFINE h == Step(g, n + 1)
    <2>2. \A t \in D(n) : h[t] = g[t]
      <3>1. \A t \in D(n) : t \in D(n + 1)
        BY <1>1
      <3> QED
        BY <2>1, <3>1
    <2>3. \A s \in D(n + 1) : s # {} => s \ {First(s)} \in D(n)
      BY <1>1, <1>2
    <2>4. \A s \in D(n + 1) : s # {} => h[s \ {First(s)}] = g[s \ {First(s)}]
      BY <2>2, <2>3
    <2>5. h = Step(h, n + 1)
      BY <2>4
    <2> QED
      BY <2>5
  <1>5. Has(Cardinality(S))
    <2> SUFFICES ASSUME ~Has(Cardinality(S)) PROVE FALSE
      OBVIOUS
    <2> DEFINE N == {n \in Nat : ~Has(n)}
    <2>1. Cardinality(S) \in N /\ N \in SUBSET Nat
      BY <1>1
    <2> HIDE DEF Has, N
    <2>2. PICK n \in N : \A m \in N : n <= m
      BY <2>1, LeastNumber
    <2>3. n \in Nat /\ ~Has(n) /\ \A m \in Nat : ~Has(m) => n <= m
      BY <2>2 DEF N
    <2>4. n # 0 /\ n - 1 \in Nat /\ Has(n - 1)
      BY <1>3, <2>3
    <2>5. Has((n - 1) + 1)
      BY <1>4, <2>4
    <2> QED
      BY <2>3, <2>5
  <1>6. D(Cardinality(S)) = SUBSET S
    BY FS_Subset, <1>1
  <1>7. \E g : g = [s \in SUBSET S |-> IF s = {} THEN 0 ELSE f[First(s)] + g[s \ {First(s)}]]
    BY <1>5, <1>6
  <1>8. PICK g : g = Sums(f, S)
    OBVIOUS
  <1>9. g = [s \in SUBSET S |-> IF s = {} THEN 0 ELSE f[First(s)] + g[s \ {First(s)}]]
    BY <1>7, <1>8 DEF Sums
  <1>10. \A s \in SUBSET S : g[s] = IF s = {} THEN 0 ELSE f[First(s)] + g[s \ {First(s)}]
    BY <1>9
  <1> QED
    BY <1>8, <1>10

(* What the fold returns for the whole set.                                *)
LEMMA Unfold ==
    ASSUME NEW f, NEW S
    PROVE  Total(f, S) = Sums(f, S)[S]
  BY DEF Total, MapThenSumSet, MapThenFoldSet, Sums, First

(* The sums over the subsets, one element at a time.                       *)
LEMMA SumsStep ==
    ASSUME NEW f, NEW S, IsFiniteSet(S), NEW s \in SUBSET S
    PROVE  /\ s = {} => Sums(f, S)[s] = 0
           /\ s # {} => /\ First(s) \in s /\ s \ {First(s)} \in SUBSET S
                        /\ Sums(f, S)[s] = f[First(s)] + Sums(f, S)[s \ {First(s)}]
  <1>1. s # {} => First(s) \in s
    BY DEF First
  <1>2. Sums(f, S)[s] = IF s = {} THEN 0 ELSE f[First(s)] + Sums(f, S)[s \ {First(s)}]
    BY SumsExist
  <1> QED
    BY <1>1, <1>2

(* The sum over no elements.                                               *)
LEMMA SumsOfNone ==
    ASSUME NEW f, NEW S, IsFiniteSet(S)
    PROVE  Sums(f, S)[{}] = 0
  <1>1. {} \in SUBSET S
    OBVIOUS
  <1> QED
    BY <1>1, SumsStep

(* Sums of integers are integers, those of naturals are naturals.          *)
LEMMA SumsType ==
    ASSUME NEW f, NEW S, IsFiniteSet(S), NEW I \in {Int, Nat}, \A x \in S : f[x] \in I
    PROVE  \A s \in SUBSET S : Sums(f, S)[s] \in I
  <1> DEFINE B == {s \in SUBSET S : Sums(f, S)[s] \notin I}
  <1> SUFFICES ASSUME B # {} PROVE FALSE
    OBVIOUS
  <1>1. PICK s \in B : \A x \in s : s \ {x} \notin B
    BY SmallestSet
  <1>2. s # {}
    <2>1. Sums(f, S)[{}] = 0 /\ 0 \in I
      BY SumsOfNone
    <2> QED
      BY <1>1, <2>1
  <1>3. First(s) \in s /\ Sums(f, S)[s] = f[First(s)] + Sums(f, S)[s \ {First(s)}]
    BY <1>1, <1>2, SumsStep
  <1>4. f[First(s)] \in I /\ Sums(f, S)[s \ {First(s)}] \in I
    BY <1>1, <1>3
  <1> QED
    BY <1>1, <1>3, <1>4

(* What is not less anywhere has a sum that is not less.                   *)
LEMMA SumsAreMonotone ==
    ASSUME NEW f, NEW g, NEW S, IsFiniteSet(S), \A x \in S : f[x] \in Int /\ g[x] \in Int /\ f[x] <= g[x]
    PROVE  \A s \in SUBSET S : Sums(f, S)[s] <= Sums(g, S)[s]
  <1> DEFINE B == {s \in SUBSET S : ~ (Sums(f, S)[s] <= Sums(g, S)[s])}
  <1> SUFFICES ASSUME B # {} PROVE FALSE
    OBVIOUS
  <1>1. PICK s \in B : \A x \in s : s \ {x} \notin B
    BY SmallestSet
  <1>2. s # {}
    <2>1. Sums(f, S)[{}] = 0 /\ Sums(g, S)[{}] = 0
      BY SumsOfNone
    <2>2. ~ (Sums(f, S)[s] <= Sums(g, S)[s])
      BY <1>1
    <2> QED
      BY <2>1, <2>2
  <1>3. /\ First(s) \in s /\ s \ {First(s)} \in SUBSET S
        /\ Sums(f, S)[s] = f[First(s)] + Sums(f, S)[s \ {First(s)}]
        /\ Sums(g, S)[s] = g[First(s)] + Sums(g, S)[s \ {First(s)}]
    BY <1>1, <1>2, SumsStep
  <1>4. Sums(f, S)[s \ {First(s)}] <= Sums(g, S)[s \ {First(s)}]
    BY <1>1, <1>3
  <1>5. /\ f[First(s)] \in Int /\ g[First(s)] \in Int /\ f[First(s)] <= g[First(s)]
        /\ Sums(f, S)[s \ {First(s)}] \in Int /\ Sums(g, S)[s \ {First(s)}] \in Int
    BY <1>1, <1>3, SumsType
  <1>6. Sums(f, S)[s] <= Sums(g, S)[s]
    BY <1>3, <1>4, <1>5
  <1> QED
    BY <1>1, <1>6

(* The order in which the elements are taken does not matter.              *)
LEMMA AnyFirst ==
    ASSUME NEW f, NEW S, IsFiniteSet(S), \A x \in S : f[x] \in Int
    PROVE  \A s \in SUBSET S : \A y \in s : Sums(f, S)[s] = f[y] + Sums(f, S)[s \ {y}]
  <1> DEFINE B == {s \in SUBSET S : \E y \in s : Sums(f, S)[s] # f[y] + Sums(f, S)[s \ {y}]}
  <1> SUFFICES ASSUME B # {} PROVE FALSE
    OBVIOUS
  <1>1. PICK s \in B : \A x \in s : s \ {x} \notin B
    BY SmallestSet
  <1>2. PICK y \in s : Sums(f, S)[s] # f[y] + Sums(f, S)[s \ {y}]
    BY <1>1
  <1> DEFINE x == First(s)
  <1>3. /\ x \in s /\ s \in SUBSET S /\ s \ {x} \in SUBSET S /\ s \ {y} \in SUBSET S
        /\ Sums(f, S)[s] = f[x] + Sums(f, S)[s \ {x}]
    BY <1>1, <1>2, SumsStep
  <1> HIDE DEF x
  <1>4. x # y
    BY <1>2, <1>3
  <1>5. s \ {x} \notin B /\ s \ {y} \notin B
    BY <1>1, <1>2, <1>3
  <1>6. Sums(f, S)[s \ {x}] = f[y] + Sums(f, S)[(s \ {x}) \ {y}]
    BY <1>2, <1>3, <1>4, <1>5
  <1>7. Sums(f, S)[s \ {y}] = f[x] + Sums(f, S)[(s \ {y}) \ {x}]
    BY <1>3, <1>4, <1>5
  <1>8. (s \ {x}) \ {y} = (s \ {y}) \ {x} /\ (s \ {x}) \ {y} \in SUBSET S
    BY <1>3
  <1>9. f[x] \in Int /\ f[y] \in Int /\ Sums(f, S)[(s \ {x}) \ {y}] \in Int
    BY <1>2, <1>3, <1>8, SumsType
  <1>10. PICK c \in Int : c = Sums(f, S)[(s \ {x}) \ {y}]
    BY <1>9
  <1>11. Sums(f, S)[s] = f[x] + (f[y] + c) /\ Sums(f, S)[s \ {y}] = f[x] + c
    BY <1>3, <1>6, <1>7, <1>8, <1>10
  <1>12. Sums(f, S)[s] = f[y] + Sums(f, S)[s \ {y}]
    BY <1>9, <1>11
  <1> QED
    BY <1>2, <1>12

(* The sum over a subset does not depend on the set around it.             *)
LEMMA SumOfSubset ==
    ASSUME NEW f, NEW S, IsFiniteSet(S), NEW T \in SUBSET S
    PROVE  Sums(f, S)[T] = Total(f, T)
  <1>1. IsFiniteSet(T) /\ SUBSET T \subseteq SUBSET S
    BY FS_Subset
  <1> DEFINE B == {s \in SUBSET T : Sums(f, S)[s] # Sums(f, T)[s]}
  <1>2. B = {}
    <2> SUFFICES ASSUME B # {} PROVE FALSE
      OBVIOUS
    <2>1. PICK s \in B : \A x \in s : s \ {x} \notin B
      BY <1>1, SmallestSet
    <2>2. s # {}
      <3>1. Sums(f, S)[{}] = 0 /\ Sums(f, T)[{}] = 0
        BY <1>1, SumsOfNone
      <3> QED
        BY <2>1, <3>1
    <2>3. /\ First(s) \in s /\ s \ {First(s)} \in SUBSET T
          /\ Sums(f, S)[s] = f[First(s)] + Sums(f, S)[s \ {First(s)}]
          /\ Sums(f, T)[s] = f[First(s)] + Sums(f, T)[s \ {First(s)}]
      BY <1>1, <2>1, <2>2, SumsStep
    <2> QED
      BY <2>1, <2>3
  <1>3. Sums(f, S)[T] = Sums(f, T)[T]
    BY <1>2
  <1> QED
    BY <1>3, Unfold

-----------------------------------------------------------------------------
(* What the proofs use: types, order, and how a sum follows a change.      *)

(* The sum over no elements, and over one more.                            *)
LEMMA TotalAdd ==
    ASSUME NEW f, NEW S, IsFiniteSet(S), NEW y, y \notin S, \A x \in S \cup {y} : f[x] \in Int
    PROVE  /\ Total(f, {}) = 0
           /\ Total(f, S \cup {y}) = f[y] + Total(f, S)
           /\ Total(f, {y}) = f[y]
  <1>1. IsFiniteSet(S \cup {y}) /\ (S \cup {y}) \ {y} = S /\ {y} \ {y} = {}
    BY FS_AddElement
  <1> DEFINE U == S \cup {y}
  <1>2. U \in SUBSET U /\ S \in SUBSET U /\ {y} \in SUBSET U /\ {} \in SUBSET U /\ y \in U
    OBVIOUS
  <1>3. Sums(f, U)[{}] = 0 /\ Sums(f, U)[{}] = Total(f, {}) /\ Sums(f, U)[{y}] = Total(f, {y})
    <2>1. Sums(f, U)[{}] = 0
      BY <1>1, SumsOfNone
    <2>2. \A T \in SUBSET U : Sums(f, U)[T] = Total(f, T)
      BY <1>1, SumOfSubset
    <2> QED
      BY <1>2, <2>1, <2>2
  <1>4. Sums(f, U)[U] = Total(f, U) /\ Sums(f, U)[S] = Total(f, S)
    BY <1>1, <1>2, SumOfSubset
  <1> HIDE DEF U
  <1>5. IsFiniteSet(U) /\ (\A x \in U : f[x] \in Int) /\ U \ {y} = S
    BY <1>1 DEF U
  <1>6. Sums(f, U)[U] = f[y] + Sums(f, U)[U \ {y}] /\ Sums(f, U)[{y}] = f[y] + Sums(f, U)[{y} \ {y}]
    BY <1>2, <1>5, AnyFirst
  <1>7. f[y] \in Int
    BY <1>2, <1>5
  <1>8. Total(f, U) = f[y] + Total(f, S)
    BY <1>4, <1>5, <1>6
  <1>9. Total(f, {y}) = f[y] /\ Total(f, {}) = 0
    <2>1. Sums(f, U)[{y} \ {y}] = 0
      BY <1>1, <1>3
    <2>2. Total(f, {y}) = f[y] + 0
      BY <1>3, <1>6, <2>1
    <2> QED
      BY <1>3, <1>7, <2>2
  <1> QED
    BY <1>8, <1>9 DEF U

(* The type of a sum.                                                      *)
LEMMA TotalType ==
    ASSUME NEW f, NEW S, IsFiniteSet(S), NEW I \in {Int, Nat}, \A x \in S : f[x] \in I
    PROVE  Total(f, S) \in I
  BY SumsType, Unfold

(* Sums keep the order.                                                    *)
LEMMA TotalIsMonotone ==
    ASSUME NEW f, NEW g, NEW S, IsFiniteSet(S), \A x \in S : f[x] \in Int /\ g[x] \in Int /\ f[x] <= g[x]
    PROVE  Total(f, S) <= Total(g, S)
  <1>1. Sums(f, S)[S] <= Sums(g, S)[S]
    BY SumsAreMonotone
  <1> QED
    BY <1>1, Unfold

(* A sum depends on nothing but the values at the elements.                *)
LEMMA TotalOfSame ==
    ASSUME NEW f, NEW g, NEW S, IsFiniteSet(S), \A x \in S : f[x] \in Int /\ f[x] = g[x]
    PROVE  Total(f, S) = Total(g, S)
  <1>1. Total(f, S) <= Total(g, S) /\ Total(g, S) <= Total(f, S)
    BY TotalIsMonotone
  <1>2. Total(f, S) \in Int /\ Total(g, S) \in Int
    BY TotalType
  <1> QED
    BY <1>1, <1>2

(* The sum of naturals over a subset is not more.                          *)
LEMMA TotalOfSubset ==
    ASSUME NEW f, NEW S, IsFiniteSet(S), \A x \in S : f[x] \in Nat, NEW T \in SUBSET S
    PROVE  Total(f, T) <= Total(f, S)
  <1> DEFINE U == S \ T
             B == {s \in SUBSET U : ~ (Total(f, T) <= Total(f, T \cup s))}
  <1>1. IsFiniteSet(U) /\ \A s \in SUBSET U : IsFiniteSet(T \cup s) /\ T \cup s \in SUBSET S
    BY FS_Subset
  <1>2. \A s \in SUBSET U : Total(f, T \cup s) \in Nat
    <2> SUFFICES ASSUME NEW s \in SUBSET U PROVE Total(f, T \cup s) \in Nat
      OBVIOUS
    <2>1. IsFiniteSet(T \cup s) /\ \A x \in T \cup s : f[x] \in Nat
      BY <1>1
    <2> QED
      BY <2>1, TotalType
  <1>3. B = {}
    <2> SUFFICES ASSUME B # {} PROVE FALSE
      OBVIOUS
    <2>1. PICK s \in B : \A x \in s : s \ {x} \notin B
      BY <1>1, SmallestSet
    <2>2. Total(f, T) <= Total(f, T \cup {})
      <3>1. T \cup {} = T /\ {} \in SUBSET U
        OBVIOUS
      <3>2. Total(f, T) \in Nat
        BY <1>2, <3>1
      <3> QED
        BY <3>1, <3>2
    <2>3. PICK x \in s : TRUE
      BY <2>1, <2>2
    <2>4. s \ {x} \in SUBSET U /\ Total(f, T) <= Total(f, T \cup (s \ {x}))
      BY <2>1, <2>3
    <2> DEFINE V == T \cup (s \ {x})
    <2>5. /\ V \cup {x} = T \cup s /\ x \notin V /\ IsFiniteSet(V)
          /\ \A z \in V \cup {x} : f[z] \in Int
          /\ f[x] \in Nat /\ Total(f, V) \in Nat /\ Total(f, T \cup s) \in Nat
      <3>1. x \in U /\ x \in s /\ s \in SUBSET U
        BY <2>1, <2>3
      <3>2. V \cup {x} = T \cup s /\ x \notin V
        BY <3>1
      <3>3. IsFiniteSet(V) /\ V \in SUBSET S /\ x \in S
        BY <1>1, <2>4, <3>1
      <3>4. \A z \in V \cup {x} : f[z] \in Int
        BY <3>3
      <3>5. Total(f, V) \in Nat /\ Total(f, T \cup s) \in Nat
        BY <1>2, <2>4, <3>1
      <3> QED
        BY <3>2, <3>3, <3>4, <3>5
    <2> HIDE DEF V
    <2>6. Total(f, V \cup {x}) = f[x] + Total(f, V)
      BY <2>5, TotalAdd
    <2>7. Total(f, V) <= Total(f, T \cup s)
      BY <2>5, <2>6
    <2>8. Total(f, T) <= Total(f, V) /\ Total(f, T) \in Nat
      <3>1. Total(f, T \cup {}) \in Nat /\ T \cup {} = T
        BY <1>2
      <3> QED
        BY <2>4, <3>1 DEF V
    <2>9. Total(f, T) <= Total(f, T \cup s)
      BY <2>5, <2>7, <2>8
    <2> QED
      BY <2>1, <2>9
  <1>4. Total(f, T) <= Total(f, T \cup U)
    BY <1>3
  <1>5. T \cup U = S
    OBVIOUS
  <1> QED
    BY <1>4, <1>5

(* A sum follows the change at one element.                                *)
LEMMA TotalChange ==
    ASSUME NEW f, NEW g, NEW S, IsFiniteSet(S), NEW y \in S,
           \A x \in S : f[x] \in Int /\ g[x] \in Int /\ (x # y => f[x] = g[x])
    PROVE  Total(g, S) = Total(f, S) + (g[y] - f[y])
  <1> DEFINE R == S \ {y}
  <1>1. /\ R \cup {y} = S /\ y \notin R /\ IsFiniteSet(R)
        /\ \A x \in R : f[x] \in Int /\ f[x] = g[x]
        /\ \A x \in R \cup {y} : f[x] \in Int /\ g[x] \in Int
    BY FS_Subset
  <1> HIDE DEF R
  <1>2. Total(f, R) = Total(g, R) /\ Total(f, R) \in Int
    BY <1>1, TotalOfSame, TotalType
  <1>3. Total(f, R \cup {y}) = f[y] + Total(f, R) /\ Total(g, R \cup {y}) = g[y] + Total(g, R)
    <2>1. IsFiniteSet(R) /\ y \notin R
      BY <1>1
    <2>2. \A x \in R \cup {y} : f[x] \in Int
      BY <1>1
    <2>3. \A x \in R \cup {y} : g[x] \in Int
      BY <1>1
    <2>4. Total(f, R \cup {y}) = f[y] + Total(f, R)
      BY <2>1, <2>2, TotalAdd
    <2>5. Total(g, R \cup {y}) = g[y] + Total(g, R)
      BY <2>1, <2>3, TotalAdd
    <2> QED
      BY <2>4, <2>5
  <1>4. f[y] \in Int /\ g[y] \in Int
    BY <1>1
  <1>5. Total(f, S) = f[y] + Total(f, R) /\ Total(g, S) = g[y] + Total(f, R)
    BY <1>1, <1>2, <1>3
  <1> QED
    BY <1>2, <1>4, <1>5

(* A finite set of numbers has a greatest one.                             *)
LEMMA Greatest ==
    ASSUME NEW S \in SUBSET Nat, IsFiniteSet(S), S # {}
    PROVE  Max(S) \in S /\ \A n \in S : n <= Max(S)
  <1> DEFINE Has(T) == \E m \in T : \A n \in T : n <= m
             B == {T \in SUBSET S : T # {} /\ ~Has(T)}
  <1>1. B = {}
    <2> SUFFICES ASSUME B # {} PROVE FALSE
      OBVIOUS
    <2>1. PICK T \in B : \A x \in T : T \ {x} \notin B
      BY SmallestSet
    <2>2. PICK x \in T : TRUE
      BY <2>1
    <2>3. x \in Nat /\ T \in SUBSET Nat
      BY <2>1, <2>2
    <2>4. CASE T \ {x} = {}
      <3>1. \A n \in T : n <= x
        BY <2>3, <2>4
      <3> QED
        BY <2>1, <2>2, <3>1
    <2>5. CASE T \ {x} # {}
      <3>1. PICK m \in T \ {x} : \A n \in T \ {x} : n <= m
        BY <2>1, <2>2, <2>5
      <3>2. CASE x <= m
        <4>1. \A n \in T : n <= m
          BY <3>1, <3>2
        <4> QED
          BY <2>1, <3>1, <4>1
      <3>3. CASE ~ (x <= m)
        <4>1. \A n \in T : n <= x
          BY <2>3, <3>1, <3>3
        <4> QED
          BY <2>1, <2>2, <4>1
      <3> QED
        BY <3>2, <3>3
    <2> QED
      BY <2>4, <2>5
  <1>2. \E m \in S : \A n \in S : m >= n
    <2>1. PICK m \in S : \A n \in S : n <= m
      BY <1>1
    <2> QED
      BY <2>1
  <1>3. Max(S) \in S /\ \A n \in S : Max(S) >= n
    BY <1>2 DEF Max
  <1> QED
    BY <1>3

\* A finite set of numbers that are at most c adds at most c times its size.
LEMMA TotalAtMost ==
    ASSUME NEW f, NEW S, IsFiniteSet(S), NEW c \in Nat, \A x \in S : f[x] \in Nat /\ f[x] <= c
    PROVE  Total(f, S) \in Nat /\ Total(f, S) <= c * Cardinality(S)
  <1> DEFINE B == {s \in SUBSET S : ~ (Sums(f, S)[s] <= c * Cardinality(s))}
  <1>1. \A s \in SUBSET S : IsFiniteSet(s) /\ Cardinality(s) \in Nat
    BY FS_Subset, FS_CardinalityType
  <1>2. ASSUME B # {} PROVE FALSE
    <2>1. PICK s \in B : \A x \in s : s \ {x} \notin B
      BY <1>2, SmallestSet
    <2>2. s # {}
      <3>1. Sums(f, S)[{}] = 0 /\ Cardinality({}) = 0 /\ c * 0 = 0
        BY SumsOfNone, FS_EmptySet
      <3>2. ~ (Sums(f, S)[s] <= c * Cardinality(s))
        BY <2>1
      <3> QED
        BY <3>1, <3>2
    <2>3. /\ First(s) \in s /\ s \ {First(s)} \in SUBSET S
          /\ Sums(f, S)[s] = f[First(s)] + Sums(f, S)[s \ {First(s)}]
      BY <2>1, <2>2, SumsStep
    <2>4. Sums(f, S)[s \ {First(s)}] <= c * Cardinality(s \ {First(s)})
      BY <2>1, <2>3
    <2>5. Cardinality(s \ {First(s)}) = Cardinality(s) - 1 /\ Cardinality(s) \in Nat
      BY <1>1, <2>1, <2>3, FS_RemoveElement
    <2>6. Sums(f, S)[s \ {First(s)}] \in Nat /\ f[First(s)] \in Nat /\ f[First(s)] <= c
      BY <2>1, <2>3, SumsType
    <2>7. \A n \in Nat : c * (n - 1) = c * n - c /\ c * n \in Nat
      BY Z3
    <2>8. Sums(f, S)[s] <= c * Cardinality(s)
      BY <2>3, <2>4, <2>5, <2>6, <2>7
    <2> QED
      BY <2>1, <2>8
  <1>3. S \in SUBSET S
    OBVIOUS
  <1>4. Sums(f, S)[S] <= c * Cardinality(S)
    BY <1>2, <1>3
  <1>5. Total(f, S) \in Nat
    BY TotalType
  <1> QED
    BY <1>4, <1>5, Unfold
=============================================================================
