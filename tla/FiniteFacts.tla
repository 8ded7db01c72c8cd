----------------------------- MODULE FiniteFacts ----------------------------
(***************************************************************************)
(* Facts about finite sets that the proofs about the models share: the     *)
(* maximum of a set of integers, and SumFunctionOnSet(f, S), the sum of    *)
(* f[x] over the x in S, which is how the models write the totals of money *)
(* and quantities.                                                         *)
(*                                                                         *)
(* They rest on induction.  The library's induction theorems take a        *)
(* predicate as a parameter, which the provers cannot instantiate; here    *)
(* the predicate is a set, obtained from the well-foundedness of < on Nat. *)
(***************************************************************************)
EXTENDS Integers, FiniteSets, FiniteSetsExt, FiniteSetTheorems, TLAPS

(* A set with 0 and the successor of each of its members has every natural.*)
LEMMA NaturalsIn ==
  ASSUME NEW B, 0 \in B, \A n \in Nat : n \in B => n + 1 \in B
  PROVE  Nat \subseteq B
<1> DEFINE R == OpToRel(<, Nat)
           T == Nat \ B
<1>1. SUFFICES ASSUME T # {} PROVE FALSE
  OBVIOUS
<1>2. IsWellFoundedOn(R, Nat)
  BY NatLessThanWellFounded
<1>3. T \subseteq Nat
  OBVIOUS
<1> HIDE DEF R, T
<1>4. PICK m \in T : \A k \in T : ~(<<k, m>> \in R)
  BY <1>1, <1>2, <1>3, WFMin
<1>5. m \in Nat /\ m \notin B /\ \A k \in Nat : k < m => k \in B
  BY <1>4 DEF R, T, OpToRel
<1>6. m # 0
  BY <1>5
<1>7. m - 1 \in Nat /\ m - 1 < m /\ (m - 1) + 1 = m
  BY <1>5, <1>6
<1>8. m - 1 \in B
  BY <1>5, <1>7
<1>9. QED
  BY <1>5, <1>7, <1>8

LEMMA RemoveOne ==
  ASSUME NEW T, IsFiniteSet(T), NEW n \in Nat, Cardinality(T) = n + 1, NEW x \in T
  PROVE  Cardinality(T \ {x}) = n
<1>1. Cardinality(T \ {x}) = (n + 1) - 1
  BY FS_RemoveElement
<1>2. QED
  BY <1>1

LEMMA NonEmpty ==
  ASSUME NEW T, NEW n \in Nat, Cardinality(T) = n + 1
  PROVE  T # {}
<1>1. n + 1 # 0
  OBVIOUS
<1>2. QED
  BY <1>1, FS_EmptySet

(* The image of a finite set is finite.                                    *)
LEMMA ImageFinite ==
  ASSUME NEW S, IsFiniteSet(S), NEW f
  PROVE  IsFiniteSet({f[x] : x \in S})
<1> DEFINE T == {f[x] : x \in S}
           g == [x \in S |-> f[x]]
<1>1. g \in Surjection(S, T)
  BY DEF Surjection
<1>2. QED
  BY <1>1, FS_Surjection

(* A collection with {} and, with each of its members, that member and one *)
(* more element, has every finite set.                                     *)
LEMMA FiniteSetIn ==
  ASSUME NEW S, IsFiniteSet(S), NEW B,
         {} \in B,
         \A T \in SUBSET S : \A x \in S \ T : T \in B => T \cup {x} \in B
  PROVE  S \in B
<1> DEFINE N == {n \in Nat : \A T \in SUBSET S : Cardinality(T) = n => T \in B}
<1>1. \A T \in SUBSET S : IsFiniteSet(T) /\ Cardinality(T) \in Nat
  BY FS_Subset, FS_CardinalityType
<1>2. 0 \in N
  BY <1>1, FS_EmptySet
<1>3. ASSUME NEW n \in Nat, n \in N
      PROVE  n + 1 \in N
  <2> SUFFICES ASSUME NEW T \in SUBSET S, Cardinality(T) = n + 1
               PROVE  T \in B
    OBVIOUS
  <2>1. IsFiniteSet(T)
    BY <1>1
  <2>2. T # {}
    BY NonEmpty
  <2>3. PICK x : x \in T
    BY <2>2
  <2>4. T \ {x} \in SUBSET S /\ x \in S \ (T \ {x}) /\ (T \ {x}) \cup {x} = T
    BY <2>3
  <2>5. Cardinality(T \ {x}) = n
    BY <2>1, <2>3, RemoveOne
  <2>6. T \ {x} \in B
    BY <1>3, <2>4, <2>5
  <2>7. QED
    BY <2>4, <2>6
<1>4. Nat \subseteq N
  <2> HIDE DEF N
  <2>1. QED
    BY <1>2, <1>3, NaturalsIn
<1>5. QED
  BY <1>1, <1>4

(* A finite set of integers has a greatest element.                        *)
LEMMA MaxIsGreatest ==
  ASSUME NEW S, IsFiniteSet(S), S # {}, S \subseteq Int
  PROVE  Max(S) \in S /\ \A x \in S : x <= Max(S)
<1> DEFINE B == {T \in SUBSET S : T # {} => \E m \in T : \A x \in T : x <= m}
<1>1. {} \in B
  OBVIOUS
<1>2. ASSUME NEW T \in SUBSET S, NEW y \in S \ T, T \in B
      PROVE  T \cup {y} \in B
  <2>1. CASE T = {}
    BY <2>1
  <2>2. CASE T # {}
    <3>1. PICK m \in T : \A x \in T : x <= m
      BY <1>2, <2>2
    <3>2. CASE y <= m
      BY <3>1, <3>2
    <3>3. CASE m < y
      <4>1. \A x \in T \cup {y} : x <= y
        BY <3>1, <3>3
      <4>2. QED
        BY <4>1
    <3>4. QED
      BY <3>2, <3>3
  <2>3. QED
    BY <2>1, <2>2
<1>3. S \in B
  <2> HIDE DEF B
  <2>1. QED
    BY <1>1, <1>2, FiniteSetIn
<1>4. PICK m \in S : \A x \in S : m >= x
  BY <1>3
<1>5. Max(S) \in S /\ \A x \in S : Max(S) >= x
  BY <1>4 DEF Max
<1>6. QED
  BY <1>5

-----------------------------------------------------------------------------
(* The definition of the sum, unfolded.                                    *)
Pick(s) == CHOOSE x \in s : TRUE

Solves(f, D, g) == g = [s \in D |-> IF s = {} THEN 0 ELSE f[Pick(s)] + g[s \ {Pick(s)}]]

LEMMA PickIn == \A s : s # {} => Pick(s) \in s
BY DEF Pick

LEMMA SumChooses ==
  ASSUME NEW f, NEW S
  PROVE  SumFunctionOnSet(f, S) = (CHOOSE g : Solves(f, SUBSET S, g))[S]
BY DEF SumFunctionOnSet, FoldFunctionOnSet, MapThenFoldSet, Solves, Pick

(* The recursion has a solution.                                           *)
LEMMA SumsExist ==
  ASSUME NEW f, NEW S, IsFiniteSet(S)
  PROVE  \E g : Solves(f, SUBSET S, g)
<1> DEFINE D(n) == {s \in SUBSET S : Cardinality(s) <= n}
           N == {n \in Nat : \E g : Solves(f, D(n), g)}
<1>1. \A T \in SUBSET S : IsFiniteSet(T) /\ Cardinality(T) \in Nat
  BY FS_Subset, FS_CardinalityType
<1>2. 0 \in N
  <2> DEFINE g == [s \in D(0) |-> 0]
  <2>1. \A s \in D(0) : s = {}
    BY <1>1, FS_EmptySet
  <2>2. g = [s \in D(0) |-> IF s = {} THEN 0 ELSE f[Pick(s)] + g[s \ {Pick(s)}]]
    BY <2>1
  <2>3. Solves(f, D(0), g)
    BY <2>2 DEF Solves
  <2>4. QED
    BY <2>3
<1>3. ASSUME NEW n \in Nat, n \in N
      PROVE  n + 1 \in N
  <2>1. PICK g : Solves(f, D(n), g)
    BY <1>3
  <2> DEFINE h == [s \in D(n + 1) |-> IF s = {} THEN 0 ELSE f[Pick(s)] + g[s \ {Pick(s)}]]
  <2>2. \A s \in D(n + 1) : s # {} => s \ {Pick(s)} \in D(n)
    <3> SUFFICES ASSUME NEW s \in D(n + 1), s # {} PROVE s \ {Pick(s)} \in D(n)
      OBVIOUS
    <3>1. Pick(s) \in s
      BY PickIn
    <3>2. Cardinality(s \ {Pick(s)}) = Cardinality(s) - 1
      BY <1>1, <3>1, FS_RemoveElement
    <3>3. QED
      BY <1>1, <3>2
  <2>3. \A s \in D(n) : s \in D(n + 1)
    BY <1>1
  <2>4. \A s \in D(n) : h[s] = g[s]
    <3> SUFFICES ASSUME NEW s \in D(n) PROVE h[s] = g[s]
      OBVIOUS
    <3>1. g[s] = IF s = {} THEN 0 ELSE f[Pick(s)] + g[s \ {Pick(s)}]
      <4> HIDE DEF D
      <4>1. QED BY <2>1 DEF Solves
    <3>2. QED
      BY <3>1, <2>3
  <2>5. h = [s \in D(n + 1) |-> IF s = {} THEN 0 ELSE f[Pick(s)] + h[s \ {Pick(s)}]]
    <3>1. \A s \in D(n + 1) : s # {} => h[s \ {Pick(s)}] = g[s \ {Pick(s)}]
      BY <2>2, <2>4
    <3> HIDE DEF D
    <3>2. QED
      BY <3>1
  <2>6. Solves(f, D(n + 1), h)
    BY <2>5 DEF Solves
  <2>7. \E k : Solves(f, D(n + 1), k)
    <3> HIDE DEF D, h
    <3>1. QED BY <2>6
  <2>8. n + 1 \in Nat
    OBVIOUS
  <2>9. QED
    BY <2>7, <2>8
<1>4. Cardinality(S) \in N
  <2> HIDE DEF N
  <2>1. Nat \subseteq N
    BY <1>2, <1>3, NaturalsIn
  <2>2. QED
    BY <1>1, <2>1
<1>5. D(Cardinality(S)) = SUBSET S
  BY FS_Subset
<1>6. QED
  BY <1>4, <1>5

(* Solutions over different sets agree on the sets they share.             *)
LEMMA SumsAgree ==
  ASSUME NEW f, NEW S, IsFiniteSet(S), NEW T \in SUBSET S,
         NEW g, NEW h, Solves(f, SUBSET S, g), Solves(f, SUBSET T, h)
  PROVE  g[T] = h[T]
<1> DEFINE N == {n \in Nat : \A U \in SUBSET T : Cardinality(U) = n => g[U] = h[U]}
<1>1. \A U \in SUBSET T : IsFiniteSet(U) /\ Cardinality(U) \in Nat
  BY FS_Subset, FS_CardinalityType
<1>2. \A U \in SUBSET T : /\ U # {} => g[U] = f[Pick(U)] + g[U \ {Pick(U)}]
                          /\ U # {} => h[U] = f[Pick(U)] + h[U \ {Pick(U)}]
                          /\ U = {} => g[U] = 0 /\ h[U] = 0
  BY DEF Solves
<1>3. 0 \in N
  BY <1>1, <1>2, FS_EmptySet
<1>4. ASSUME NEW n \in Nat, n \in N
      PROVE  n + 1 \in N
  <2> SUFFICES ASSUME NEW U \in SUBSET T, Cardinality(U) = n + 1
               PROVE  g[U] = h[U]
    OBVIOUS
  <2>1. IsFiniteSet(U)
    BY <1>1
  <2>2. U # {}
    BY NonEmpty
  <2>3. Pick(U) \in U
    BY <2>2, PickIn
  <2>4. Cardinality(U \ {Pick(U)}) = n
    BY <2>1, <2>3, RemoveOne
  <2>5. g[U \ {Pick(U)}] = h[U \ {Pick(U)}]
    BY <1>4, <2>4
  <2>6. QED
    BY <1>2, <2>2, <2>5
<1>5. Nat \subseteq N
  <2> HIDE DEF N
  <2>1. QED
    BY <1>3, <1>4, NaturalsIn
<1>6. QED
  BY <1>1, <1>5

(* The sum, by its recursion.                                              *)
LEMMA SumUnfold ==
  ASSUME NEW f, NEW S, IsFiniteSet(S)
  PROVE  /\ S = {} => SumFunctionOnSet(f, S) = 0
         /\ S # {} => SumFunctionOnSet(f, S)
                        = f[Pick(S)] + SumFunctionOnSet(f, S \ {Pick(S)})
<1> DEFINE g == CHOOSE k : Solves(f, SUBSET S, k)
           R == S \ {Pick(S)}
           h == CHOOSE k : Solves(f, SUBSET R, k)
<1>1. SumFunctionOnSet(f, S) = g[S] /\ SumFunctionOnSet(f, R) = h[R]
  BY SumChooses
<1>2. IsFiniteSet(R) /\ R \in SUBSET S
  BY FS_RemoveElement
<1>3. Solves(f, SUBSET S, g)
  BY SumsExist
<1>4. Solves(f, SUBSET R, h)
  BY <1>2, SumsExist
<1> HIDE DEF g, h
<1>5. g[R] = h[R]
  BY <1>2, <1>3, <1>4, SumsAgree
<1>6. /\ S = {} => g[S] = 0
      /\ S # {} => g[S] = f[Pick(S)] + g[R]
  BY <1>3 DEF Solves
<1>7. QED
  BY <1>1, <1>5, <1>6
-----------------------------------------------------------------------------
(* The laws of sums.                                                       *)

LEMMA SumEmpty == \A f : SumFunctionOnSet(f, {}) = 0
BY SumUnfold, FS_EmptySet

LEMMA SumInt ==
  ASSUME NEW S, IsFiniteSet(S), NEW f, \A x \in S : f[x] \in Int
  PROVE  SumFunctionOnSet(f, S) \in Int
<1> DEFINE N == {n \in Nat : \A T \in SUBSET S :
                   Cardinality(T) = n => SumFunctionOnSet(f, T) \in Int}
<1>1. \A T \in SUBSET S : IsFiniteSet(T) /\ Cardinality(T) \in Nat
  BY FS_Subset, FS_CardinalityType
<1>2. 0 \in N
  BY <1>1, SumEmpty, FS_EmptySet
<1>3. ASSUME NEW n \in Nat, n \in N
      PROVE  n + 1 \in N
  <2> SUFFICES ASSUME NEW T \in SUBSET S, Cardinality(T) = n + 1
               PROVE  SumFunctionOnSet(f, T) \in Int
    OBVIOUS
  <2>1. IsFiniteSet(T) /\ T # {}
    BY <1>1, NonEmpty
  <2>2. Pick(T) \in T
    BY <2>1, PickIn
  <2>3. SumFunctionOnSet(f, T \ {Pick(T)}) \in Int
    BY <1>3, <2>1, <2>2, RemoveOne
  <2>4. QED
    BY <2>1, <2>2, <2>3, SumUnfold
<1>4. Nat \subseteq N
  <2> HIDE DEF N
  <2>1. QED
    BY <1>2, <1>3, NaturalsIn
<1>5. QED
  BY <1>1, <1>4

(* Any element may be taken out first.                                     *)
LEMMA SumRemove ==
  ASSUME NEW S, IsFiniteSet(S), NEW f, \A x \in S : f[x] \in Int, NEW y \in S
  PROVE  SumFunctionOnSet(f, S) = f[y] + SumFunctionOnSet(f, S \ {y})
<1> DEFINE Sum(T) == SumFunctionOnSet(f, T)
           N == {n \in Nat : \A T \in SUBSET S : Cardinality(T) = n =>
                   \A x \in T : Sum(T) = f[x] + Sum(T \ {x})}
<1>1. \A T \in SUBSET S : IsFiniteSet(T) /\ Cardinality(T) \in Nat /\ Sum(T) \in Int
  BY FS_Subset, FS_CardinalityType, SumInt
<1>2. 0 \in N
  BY <1>1, FS_EmptySet
<1>3. ASSUME NEW n \in Nat, n \in N
      PROVE  n + 1 \in N
  <2> SUFFICES ASSUME NEW T \in SUBSET S, Cardinality(T) = n + 1, NEW x \in T
               PROVE  Sum(T) = f[x] + Sum(T \ {x})
    OBVIOUS
  <2>1. IsFiniteSet(T) /\ T # {}
    BY <1>1, NonEmpty
  <2>2. PICK c \in T : c = Pick(T)
    BY <2>1, PickIn
  <2>3. Sum(T) = f[c] + Sum(T \ {c})
    BY <2>1, <2>2, SumUnfold
  <2>4. CASE c = x
    BY <2>3, <2>4
  <2>5. CASE c # x
    <3>1. Cardinality(T \ {c}) = n /\ Cardinality(T \ {x}) = n
      BY <2>1, RemoveOne
    <3>2. Sum(T \ {c}) = f[x] + Sum((T \ {c}) \ {x})
      BY <1>3, <2>5, <3>1
    <3>3. Sum(T \ {x}) = f[c] + Sum((T \ {x}) \ {c})
      BY <1>3, <2>5, <3>1
    <3>4. (T \ {c}) \ {x} = (T \ {x}) \ {c}
      OBVIOUS
    <3>5. PICK a \in Int, b \in Int, r \in Int :
            a = f[x] /\ b = f[c] /\ r = Sum((T \ {c}) \ {x})
      BY <1>1
    <3>6. Sum(T) = b + (a + r)
      BY <2>3, <3>2, <3>5
    <3>7. Sum(T \ {x}) = b + r
      BY <3>3, <3>4, <3>5
    <3>8. b + (a + r) = a + (b + r)
      OBVIOUS
    <3> HIDE DEF Sum, N
    <3>9. QED
      BY <3>5, <3>6, <3>7, <3>8
  <2>6. QED
    BY <2>4, <2>5
<1>4. Nat \subseteq N
  <2> HIDE DEF N
  <2>1. QED
    BY <1>2, <1>3, NaturalsIn
<1>5. QED
  BY <1>1, <1>4

LEMMA SumAdd ==
  ASSUME NEW S, IsFiniteSet(S), NEW f, NEW y, y \notin S, \A x \in S \cup {y} : f[x] \in Int
  PROVE  SumFunctionOnSet(f, S \cup {y}) = f[y] + SumFunctionOnSet(f, S)
<1>1. IsFiniteSet(S \cup {y}) /\ (S \cup {y}) \ {y} = S
  BY FS_AddElement
<1>2. QED
  BY <1>1, SumRemove

(* Functions that agree on a set have the same sum over it.                *)
LEMMA SumSame ==
  ASSUME NEW S, IsFiniteSet(S), NEW f, NEW g,
         \A x \in S : f[x] \in Int /\ f[x] = g[x]
  PROVE  SumFunctionOnSet(f, S) = SumFunctionOnSet(g, S)
<1> DEFINE B == {T \in SUBSET S : SumFunctionOnSet(f, T) = SumFunctionOnSet(g, T)}
<1>1. {} \in B
  BY SumEmpty
<1>2. ASSUME NEW T \in SUBSET S, NEW x \in S \ T, T \in B
      PROVE  T \cup {x} \in B
  <2>1. IsFiniteSet(T)
    BY FS_Subset
  <2>2. SumFunctionOnSet(f, T \cup {x}) = f[x] + SumFunctionOnSet(f, T)
    BY <2>1, SumAdd
  <2>3. SumFunctionOnSet(g, T \cup {x}) = g[x] + SumFunctionOnSet(g, T)
    BY <2>1, SumAdd
  <2>4. QED
    BY <1>2, <2>2, <2>3
<1>3. S \in B
  <2> HIDE DEF B
  <2>1. QED
    BY <1>1, <1>2, FiniteSetIn
<1>4. QED
  BY <1>3

(* The sum of the differences is the difference of the sums.               *)
LEMMA SumDifference ==
  ASSUME NEW S, IsFiniteSet(S), NEW f, NEW g, NEW h,
         \A x \in S : f[x] \in Int /\ g[x] \in Int /\ h[x] = f[x] - g[x]
  PROVE  SumFunctionOnSet(h, S) = SumFunctionOnSet(f, S) - SumFunctionOnSet(g, S)
<1> DEFINE B == {T \in SUBSET S :
                   SumFunctionOnSet(h, T) = SumFunctionOnSet(f, T) - SumFunctionOnSet(g, T)}
<1>1. {} \in B
  BY SumEmpty
<1>2. ASSUME NEW T \in SUBSET S, NEW x \in S \ T, T \in B
      PROVE  T \cup {x} \in B
  <2>1. IsFiniteSet(T) /\ \A y \in S : h[y] \in Int
    BY FS_Subset
  <2>2. SumFunctionOnSet(f, T \cup {x}) = f[x] + SumFunctionOnSet(f, T)
    BY <2>1, SumAdd
  <2>3. SumFunctionOnSet(g, T \cup {x}) = g[x] + SumFunctionOnSet(g, T)
    BY <2>1, SumAdd
  <2>4. SumFunctionOnSet(h, T \cup {x}) = h[x] + SumFunctionOnSet(h, T)
    BY <2>1, SumAdd
  <2>5. SumFunctionOnSet(f, T) \in Int /\ SumFunctionOnSet(g, T) \in Int
    BY <2>1, SumInt
  <2>6. QED
    BY <1>2, <2>2, <2>3, <2>4, <2>5
<1>3. S \in B
  <2> HIDE DEF B
  <2>1. QED
    BY <1>1, <1>2, FiniteSetIn
<1>4. QED
  BY <1>3

(* A sum is monotone in its terms.                                         *)
LEMMA SumMonotone ==
  ASSUME NEW S, IsFiniteSet(S), NEW f, NEW g,
         \A x \in S : f[x] \in Int /\ g[x] \in Int /\ f[x] <= g[x]
  PROVE  SumFunctionOnSet(f, S) <= SumFunctionOnSet(g, S)
<1> DEFINE B == {T \in SUBSET S : SumFunctionOnSet(f, T) <= SumFunctionOnSet(g, T)}
<1>1. {} \in B
  BY SumEmpty
<1>2. ASSUME NEW T \in SUBSET S, NEW x \in S \ T, T \in B
      PROVE  T \cup {x} \in B
  <2>1. IsFiniteSet(T)
    BY FS_Subset
  <2>2. SumFunctionOnSet(f, T \cup {x}) = f[x] + SumFunctionOnSet(f, T)
    BY <2>1, SumAdd
  <2>3. SumFunctionOnSet(g, T \cup {x}) = g[x] + SumFunctionOnSet(g, T)
    BY <2>1, SumAdd
  <2>4. SumFunctionOnSet(f, T) \in Int /\ SumFunctionOnSet(g, T) \in Int
    BY <2>1, SumInt
  <2>5. QED
    BY <1>2, <2>2, <2>3, <2>4
<1>3. S \in B
  <2> HIDE DEF B
  <2>1. QED
    BY <1>1, <1>2, FiniteSetIn
<1>4. QED
  BY <1>3

LEMMA SumNat ==
  ASSUME NEW S, IsFiniteSet(S), NEW f, \A x \in S : f[x] \in Nat
  PROVE  SumFunctionOnSet(f, S) \in Nat
<1> DEFINE B == {T \in SUBSET S : SumFunctionOnSet(f, T) \in Nat}
<1>1. {} \in B
  BY SumEmpty
<1>2. ASSUME NEW T \in SUBSET S, NEW x \in S \ T, T \in B
      PROVE  T \cup {x} \in B
  <2>1. IsFiniteSet(T)
    BY FS_Subset
  <2>2. SumFunctionOnSet(f, T \cup {x}) = f[x] + SumFunctionOnSet(f, T)
    BY <2>1, SumAdd
  <2>3. QED
    BY <1>2, <2>2
<1>3. S \in B
  <2> HIDE DEF B
  <2>1. QED
    BY <1>1, <1>2, FiniteSetIn
<1>4. QED
  BY <1>3

LEMMA SumZero ==
  ASSUME NEW S, IsFiniteSet(S), NEW f, \A x \in S : f[x] = 0
  PROVE  SumFunctionOnSet(f, S) = 0
<1> DEFINE B == {T \in SUBSET S : SumFunctionOnSet(f, T) = 0}
<1>1. {} \in B
  BY SumEmpty
<1>2. ASSUME NEW T \in SUBSET S, NEW x \in S \ T, T \in B
      PROVE  T \cup {x} \in B
  <2>1. IsFiniteSet(T) /\ \A y \in T \cup {x} : f[y] \in Int
    BY FS_Subset
  <2>2. SumFunctionOnSet(f, T \cup {x}) = f[x] + SumFunctionOnSet(f, T)
    BY <2>1, SumAdd
  <2>3. QED
    BY <1>2, <2>2
<1>3. S \in B
  <2> HIDE DEF B
  <2>1. QED
    BY <1>1, <1>2, FiniteSetIn
<1>4. QED
  BY <1>3

(* The sum over two disjoint sets.                                         *)
LEMMA SumUnion ==
  ASSUME NEW S, IsFiniteSet(S), NEW R, IsFiniteSet(R), S \cap R = {},
         NEW f, \A x \in S \cup R : f[x] \in Int
  PROVE  SumFunctionOnSet(f, S \cup R)
           = SumFunctionOnSet(f, S) + SumFunctionOnSet(f, R)
<1> DEFINE B == {T \in SUBSET R : SumFunctionOnSet(f, S \cup T)
                   = SumFunctionOnSet(f, S) + SumFunctionOnSet(f, T)}
<1>1. {} \in B
  <2>1. S \cup {} = S /\ SumFunctionOnSet(f, S) \in Int
    BY SumInt
  <2>2. QED
    BY <2>1, SumEmpty
<1>2. ASSUME NEW T \in SUBSET R, NEW x \in R \ T, T \in B
      PROVE  T \cup {x} \in B
  <2>1. IsFiniteSet(T) /\ IsFiniteSet(S \cup T)
    BY FS_Subset, FS_Union
  <2>2. SumFunctionOnSet(f, T \cup {x}) = f[x] + SumFunctionOnSet(f, T)
    BY <2>1, SumAdd
  <2>3. (S \cup T) \cup {x} = S \cup (T \cup {x}) /\ x \notin S \cup T
    OBVIOUS
  <2>4. SumFunctionOnSet(f, S \cup (T \cup {x})) = f[x] + SumFunctionOnSet(f, S \cup T)
    BY <2>1, <2>3, SumAdd
  <2>5. SumFunctionOnSet(f, S) \in Int /\ SumFunctionOnSet(f, T) \in Int /\ f[x] \in Int
    BY <2>1, SumInt
  <2>6. QED
    BY <1>2, <2>2, <2>4, <2>5
<1>3. R \in B
  <2> HIDE DEF B
  <2>1. QED
    BY <1>1, <1>2, FiniteSetIn
<1>4. QED
  BY <1>3

(* Leaving out terms that are not negative does not make a sum larger.     *)
LEMMA SumSubset ==
  ASSUME NEW S, IsFiniteSet(S), NEW R \in SUBSET S, NEW f, \A x \in S : f[x] \in Nat
  PROVE  SumFunctionOnSet(f, R) <= SumFunctionOnSet(f, S)
<1>1. IsFiniteSet(R) /\ IsFiniteSet(S \ R) /\ R \cap (S \ R) = {} /\ R \cup (S \ R) = S
  BY FS_Subset
<1>2. SumFunctionOnSet(f, R) \in Nat /\ SumFunctionOnSet(f, S \ R) \in Nat
  BY <1>1, SumNat
<1>3. \A x \in R \cup (S \ R) : f[x] \in Int
  OBVIOUS
<1>4. SumFunctionOnSet(f, R \cup (S \ R))
        = SumFunctionOnSet(f, R) + SumFunctionOnSet(f, S \ R)
  BY <1>1, <1>3, SumUnion
<1>5. R \cup (S \ R) = S
  OBVIOUS
<1>6. SumFunctionOnSet(f, S) = SumFunctionOnSet(f, R) + SumFunctionOnSet(f, S \ R)
  BY <1>4, <1>5, Zenon
<1>7. QED
  BY <1>2, <1>6

(* Changing one term of a sum.                                             *)
LEMMA SumUpdate ==
  ASSUME NEW S, IsFiniteSet(S), NEW y \in S, NEW f, NEW g,
         \A x \in S : f[x] \in Int /\ g[x] \in Int,
         \A x \in S \ {y} : f[x] = g[x]
  PROVE  SumFunctionOnSet(g, S) = (SumFunctionOnSet(f, S) - f[y]) + g[y]
<1>1. IsFiniteSet(S \ {y})
  BY FS_Subset
<1>2. SumFunctionOnSet(f, S) = f[y] + SumFunctionOnSet(f, S \ {y})
  BY SumRemove
<1>3. SumFunctionOnSet(g, S) = g[y] + SumFunctionOnSet(g, S \ {y})
  BY SumRemove
<1>4. SumFunctionOnSet(f, S \ {y}) = SumFunctionOnSet(g, S \ {y})
  BY <1>1, SumSame
<1>5. SumFunctionOnSet(f, S \ {y}) \in Int /\ f[y] \in Int /\ g[y] \in Int
  BY <1>1, SumInt
<1>6. QED
  BY <1>2, <1>3, <1>4, <1>5
=============================================================================
