----------------------------- MODULE SumTheorems -----------------------------
(***************************************************************************)
(* Facts about finite sets, sums over them and sorted lists of them, which *)
(* the other proofs cite.                                                  *)
(*                                                                         *)
(* Induction is stated with a set of good sets in place of a predicate:    *)
(* the provers can instantiate a set.                                      *)
(***************************************************************************)
EXTENDS Integers, Functions, FiniteSets, FiniteSetTheorems, WellFoundedInduction, TLAPS

----------------------------------------------------------------------------
(***************************************************************************)
(* Induction over finite sets.                                             *)
(***************************************************************************)

LEMMA StrongSetInduction ==
  ASSUME NEW S, IsFiniteSet(S), NEW Good,
         \A T \in SUBSET S : (\A U \in SUBSET T : U # T => U \in Good) => T \in Good
  PROVE  SUBSET S \subseteq Good
<1> DEFINE Bad == {T \in FiniteSubsetsOf(S) : T \notin Good}
<1>1. FiniteSubsetsOf(S) = SUBSET S
  BY FS_FiniteSubsetsOfFinite
<1> SUFFICES ASSUME Bad # {} PROVE FALSE
  BY <1>1
<1>2. Bad \subseteq FiniteSubsetsOf(S)
  OBVIOUS
<1>3. PICK T \in Bad : \A U \in Bad : <<U, T>> \notin StrictSubsetOrdering(S)
  <2>1. IsWellFoundedOn(StrictSubsetOrdering(S), FiniteSubsetsOf(S))
    BY FS_StrictSubsetOrderingWellFounded
  <2> HIDE DEF Bad
  <2>2. QED
    BY <1>2, <2>1, WFMin
<1>4. ASSUME NEW U \in SUBSET T, U # T
      PROVE  U \in Good
  <2>1. U \in SUBSET S /\ T \in SUBSET S
    BY <1>1, <1>3, <1>4
  <2>2. <<U, T>> \in StrictSubsetOrdering(S)
    BY <1>4, <2>1 DEF StrictSubsetOrdering
  <2>3. QED
    BY <1>1, <1>3, <2>1, <2>2
<1>5. QED
  BY <1>1, <1>3, <1>4

LEMMA SetInduction ==
  ASSUME NEW S, IsFiniteSet(S), NEW Good, {} \in Good,
         \A T \in SUBSET S : \A x \in S \ T : T \in Good => T \union {x} \in Good
  PROVE  S \in Good
<1>1. ASSUME NEW T \in SUBSET S, \A U \in SUBSET T : U # T => U \in Good
      PROVE  T \in Good
  <2>1. CASE T = {}
    BY <2>1
  <2>2. CASE T # {}
    <3>1. PICK x \in T : TRUE
      BY <2>2
    <3>2. T \ {x} \in Good /\ T \ {x} \in SUBSET S /\ x \in S \ (T \ {x}) /\ (T \ {x}) \union {x} = T
      BY <1>1, <3>1
    <3>3. QED
      BY <3>2
  <2>3. QED
    BY <2>1, <2>2
<1>2. SUBSET S \subseteq Good
  BY <1>1, StrongSetInduction
<1>3. QED
  BY <1>2

\* Induction over the numbers up to n.
LEMMA IntervalInduction ==
  ASSUME NEW n \in Nat, NEW Good, 0 \in Good,
         \A m \in 0 .. n - 1 : m \in Good => m + 1 \in Good
  PROVE  \A m \in 0 .. n : m \in Good
<1> DEFINE S == 1 .. n
           G == {T \in SUBSET S : \A m \in 0 .. n : T = 1 .. m => m \in Good}
<1>1. ASSUME NEW T \in SUBSET S, \A U \in SUBSET T : U # T => U \in G
      PROVE  T \in G
  <2> SUFFICES ASSUME NEW m \in 0 .. n, T = 1 .. m, m # 0
               PROVE  m \in Good
    OBVIOUS
  <2> DEFINE U == 1 .. (m - 1)
  <2>1. U \in SUBSET T /\ U # T
    <3>1. m \in T /\ m \notin U
      OBVIOUS
    <3>2. QED
      BY <3>1
  <2>2. m - 1 \in 0 .. n
    OBVIOUS
  <2>3. U \in G
    BY <1>1, <2>1
  <2>4. m - 1 \in Good
    BY <2>2, <2>3
  <2>5. m - 1 \in 0 .. n - 1 /\ (m - 1) + 1 = m
    OBVIOUS
  <2>6. QED
    BY <2>4, <2>5
<1>2. IsFiniteSet(S)
  BY FS_Interval
<1>3. SUBSET S \subseteq G
  <2> HIDE DEF G, S
  <2>1. QED
    BY <1>1, <1>2, StrongSetInduction
<1>4. ASSUME NEW m \in 0 .. n
      PROVE  m \in Good
  <2> DEFINE T == 1 .. m
  <2>1. T \in SUBSET S
    OBVIOUS
  <2> HIDE DEF G
  <2>2. T \in G
    BY <1>3, <2>1
  <2> USE DEF G
  <2>3. \A k \in 0 .. n : T = 1 .. k => k \in Good
    <3> HIDE DEF T
    <3>1. QED
      BY <2>2
  <2>4. QED
    BY <2>3
<1>5. QED
  BY <1>4

----------------------------------------------------------------------------
(***************************************************************************)
(* Numbers of elements.                                                    *)
(***************************************************************************)

LEMMA CountUpTo ==
  ASSUME NEW n \in Nat
  PROVE  IsFiniteSet(1 .. n) /\ Cardinality(1 .. n) = n
<1>1. IsFiniteSet(1 .. n) /\ Cardinality(1 .. n) = IF 1 > n THEN 0 ELSE n - 1 + 1
  BY FS_Interval
<1>2. QED
  BY <1>1

LEMMA CountApart ==
  ASSUME NEW S, NEW T, IsFiniteSet(S), IsFiniteSet(T), S \intersect T = {}
  PROVE  /\ IsFiniteSet(S \union T)
         /\ Cardinality(S \union T) = Cardinality(S) + Cardinality(T)
<1>1. Cardinality(S) \in Nat /\ Cardinality(T) \in Nat /\ Cardinality(S \intersect T) = 0
  BY FS_CardinalityType, FS_EmptySet
<1>2. /\ IsFiniteSet(S \union T)
      /\ Cardinality(S \union T) = Cardinality(S) + Cardinality(T) - Cardinality(S \intersect T)
  BY FS_Union
<1>3. QED
  BY <1>1, <1>2

----------------------------------------------------------------------------
(***************************************************************************)
(* The sum that SumFunctionOnSet computes by choosing one index after the  *)
(* other is the sum whatever the order.                                    *)
(***************************************************************************)

Chosen(S) == CHOOSE x \in S : TRUE

\* g has the sum of f over each subset of S, as the fold makes it.
IsSum(f, S, g) ==
  g = [T \in SUBSET S |-> IF T = {} THEN 0 ELSE f[Chosen(T)] + g[T \ {Chosen(T)}]]

LEMMA ChosenIn ==
  ASSUME NEW S, S # {}
  PROVE  Chosen(S) \in S
BY DEF Chosen

LEMMA SumEquation ==
  ASSUME NEW f, NEW S, NEW g, IsSum(f, S, g), NEW T \in SUBSET S
  PROVE  g[T] = IF T = {} THEN 0 ELSE f[Chosen(T)] + g[T \ {Chosen(T)}]
BY DEF IsSum

LEMMA SumUnique ==
  ASSUME NEW f, NEW R, NEW S, IsFiniteSet(S), S \subseteq R,
         NEW g, NEW h, IsSum(f, R, g), IsSum(f, S, h)
  PROVE  \A T \in SUBSET S : g[T] = h[T]
<1> DEFINE Good == {T \in SUBSET S : g[T] = h[T]}
<1>1. ASSUME NEW T \in SUBSET S, \A U \in SUBSET T : U # T => U \in Good
      PROVE  T \in Good
  <2>1. T \in SUBSET R
    OBVIOUS
  <2>2. g[T] = IF T = {} THEN 0 ELSE f[Chosen(T)] + g[T \ {Chosen(T)}]
    BY <2>1, SumEquation
  <2>3. h[T] = IF T = {} THEN 0 ELSE f[Chosen(T)] + h[T \ {Chosen(T)}]
    BY SumEquation
  <2>4. T # {} => g[T \ {Chosen(T)}] = h[T \ {Chosen(T)}]
    BY <1>1, ChosenIn
  <2>5. QED
    BY <2>2, <2>3, <2>4
<1>2. SUBSET S \subseteq Good
  <2> HIDE DEF Good
  <2>1. QED
    BY <1>1, StrongSetInduction
<1>3. QED
  BY <1>2

LEMMA SumExists ==
  ASSUME NEW f, NEW S, IsFiniteSet(S)
  PROVE  \E g : IsSum(f, S, g)
<1> DEFINE Good == {T \in SUBSET S : \E g : IsSum(f, T, g)}
           G(T) == CHOOSE g : IsSum(f, T, g)
<1>1. ASSUME NEW T \in SUBSET S, \A U \in SUBSET T : U # T => U \in Good
      PROVE  T \in Good
  <2>1. \A U \in SUBSET T : U # T => IsSum(f, U, G(U)) /\ IsFiniteSet(U)
    BY <1>1, FS_Subset
  <2> HIDE DEF G
  <2> DEFINE Rest(U) == U \ {Chosen(U)}
             g == [U \in SUBSET T |-> IF U = {} THEN 0 ELSE f[Chosen(U)] + G(Rest(U))[Rest(U)]]
  <2>2. ASSUME NEW U \in SUBSET T, U # T
        PROVE  g[U] = G(U)[U]
    <3>1. IsSum(f, U, G(U))
      BY <2>1, <2>2
    <3>2. CASE U = {}
      BY <3>1, <3>2, SumEquation
    <3>3. CASE U # {}
      <4>1. Rest(U) \subseteq U /\ Rest(U) # T /\ Rest(U) \in SUBSET T
        BY <3>3, ChosenIn
      <4>2. IsSum(f, Rest(U), G(Rest(U))) /\ IsFiniteSet(Rest(U))
        BY <2>1, <4>1
      <4>3. G(U)[Rest(U)] = G(Rest(U))[Rest(U)]
        BY <3>1, <4>1, <4>2, SumUnique
      <4>4. G(U)[U] = f[Chosen(U)] + G(U)[Rest(U)]
        BY <3>1, <3>3, SumEquation
      <4>5. QED
        BY <3>3, <4>3, <4>4
    <3>4. QED
      BY <3>2, <3>3
  <2>3. ASSUME NEW U \in SUBSET T
        PROVE  g[U] = IF U = {} THEN 0 ELSE f[Chosen(U)] + g[Rest(U)]
    <3>1. CASE U # {}
      <4>1. Rest(U) \in SUBSET T /\ Rest(U) # T
        BY <3>1, ChosenIn
      <4>2. g[Rest(U)] = G(Rest(U))[Rest(U)]
        BY <2>2, <4>1
      <4>3. g[U] = f[Chosen(U)] + G(Rest(U))[Rest(U)]
        BY <3>1
      <4>4. QED
        BY <3>1, <4>2, <4>3
    <3>2. QED
      BY <3>1
  <2>4. g = [U \in SUBSET T |-> g[U]]
    OBVIOUS
  <2> HIDE DEF g
  <2>5. g = [U \in SUBSET T |-> IF U = {} THEN 0 ELSE f[Chosen(U)] + g[Rest(U)]]
    BY <2>3, <2>4
  <2>6. QED
    BY <2>5 DEF IsSum
<1>2. SUBSET S \subseteq Good
  <2> HIDE DEF Good
  <2>1. QED
    BY <1>1, StrongSetInduction
<1>3. QED
  BY <1>2

LEMMA SumIsSum ==
  ASSUME NEW f, NEW S, IsFiniteSet(S)
  PROVE  \E g : IsSum(f, S, g) /\ SumFunctionOnSet(f, S) = g[S]
<1> DEFINE g == CHOOSE h : IsSum(f, S, h)
<1>1. IsSum(f, S, g)
  BY SumExists
<1>2. SumFunctionOnSet(f, S) = g[S]
  BY DEF SumFunctionOnSet, FoldFunctionOnSet, MapThenFoldSet, IsSum, Chosen
<1>3. QED
  BY <1>1, <1>2

\* The sum of no values is 0.
LEMMA SumEmpty ==
  ASSUME NEW f
  PROVE  SumFunctionOnSet(f, {}) = 0
<1>1. IsFiniteSet({})
  BY FS_EmptySet
<1>2. PICK g : IsSum(f, {}, g) /\ SumFunctionOnSet(f, {}) = g[{}]
  BY <1>1, SumIsSum
<1>3. QED
  BY <1>2, SumEquation

LEMMA SumChosen ==
  ASSUME NEW f, NEW S, IsFiniteSet(S), S # {}
  PROVE  SumFunctionOnSet(f, S) = f[Chosen(S)] + SumFunctionOnSet(f, S \ {Chosen(S)})
<1> DEFINE R == S \ {Chosen(S)}
<1>1. IsFiniteSet(R) /\ R \subseteq S
  BY FS_Subset
<1> HIDE DEF R
<1>2. PICK g : IsSum(f, S, g) /\ SumFunctionOnSet(f, S) = g[S]
  BY SumIsSum
<1>3. PICK h : IsSum(f, R, h) /\ SumFunctionOnSet(f, R) = h[R]
  BY <1>1, SumIsSum
<1>4. g[S] = f[Chosen(S)] + g[R]
  BY <1>2, SumEquation DEF R
<1>5. g[R] = h[R]
  BY <1>1, <1>2, <1>3, SumUnique
<1>6. QED
  BY <1>2, <1>3, <1>4, <1>5 DEF R

LEMMA SumInt ==
  ASSUME NEW f, NEW S, IsFiniteSet(S), \A x \in S : f[x] \in Int
  PROVE  SumFunctionOnSet(f, S) \in Int
<1> DEFINE Good == {T \in SUBSET S : SumFunctionOnSet(f, T) \in Int}
<1>1. ASSUME NEW T \in SUBSET S, \A U \in SUBSET T : U # T => U \in Good
      PROVE  T \in Good
  <2>1. CASE T = {}
    BY <2>1, SumEmpty
  <2>2. CASE T # {}
    <3>1. Chosen(T) \in T /\ IsFiniteSet(T)
      BY <2>2, ChosenIn, FS_Subset
    <3>2. SumFunctionOnSet(f, T) = f[Chosen(T)] + SumFunctionOnSet(f, T \ {Chosen(T)})
      BY <2>2, <3>1, SumChosen
    <3>3. SumFunctionOnSet(f, T \ {Chosen(T)}) \in Int
      BY <1>1, <3>1
    <3>4. QED
      BY <3>1, <3>2, <3>3
  <2>3. QED
    BY <2>1, <2>2
<1>2. SUBSET S \subseteq Good
  <2> HIDE DEF Good
  <2>1. QED
    BY <1>1, StrongSetInduction
<1>3. QED
  BY <1>2

\* Any index can be taken out first.
LEMMA SumRemove ==
  ASSUME NEW f, NEW S, IsFiniteSet(S), \A x \in S : f[x] \in Int, NEW a \in S
  PROVE  SumFunctionOnSet(f, S) = f[a] + SumFunctionOnSet(f, S \ {a})
<1> DEFINE Sum(T) == SumFunctionOnSet(f, T)
           Good == {T \in SUBSET S : \A x \in T : Sum(T) = f[x] + Sum(T \ {x})}
<1>0. \A T \in SUBSET S : IsFiniteSet(T) /\ Sum(T) \in Int
  BY FS_Subset, SumInt
<1>1. ASSUME NEW T \in SUBSET S, \A U \in SUBSET T : U # T => U \in Good
      PROVE  T \in Good
  <2> SUFFICES ASSUME NEW x \in T
               PROVE  Sum(T) = f[x] + Sum(T \ {x})
    OBVIOUS
  <2> DEFINE c == Chosen(T)
  <2>1. c \in T
    BY ChosenIn
  <2>2. Sum(T) = f[c] + Sum(T \ {c})
    BY <1>0, SumChosen
  <2> HIDE DEF c, Sum
  <2>3. CASE x # c
    <3>1. Sum(T \ {c}) = f[x] + Sum((T \ {c}) \ {x})
      BY <1>1, <2>1, <2>3
    <3>2. Sum(T \ {x}) = f[c] + Sum((T \ {x}) \ {c})
      BY <1>1, <2>1, <2>3
    <3>3. (T \ {x}) \ {c} = (T \ {c}) \ {x}
      OBVIOUS
    <3> DEFINE n == Sum((T \ {c}) \ {x})
    <3>4. n \in Int /\ f[x] \in Int /\ f[c] \in Int
      BY <1>0, <2>1
    <3>5. Sum(T \ {c}) = f[x] + n
      BY <3>1
    <3>6. Sum(T \ {x}) = f[c] + n
      BY <3>2, <3>3
    <3> HIDE DEF n
    <3>7. QED
      BY <2>2, <3>4, <3>5, <3>6
  <2>4. QED
    BY <2>2, <2>3
<1>2. SUBSET S \subseteq Good
  <2> HIDE DEF Good
  <2>1. QED
    BY <1>1, StrongSetInduction
<1>3. QED
  BY <1>2

LEMMA SumAdd ==
  ASSUME NEW f, NEW S, IsFiniteSet(S), NEW a, a \notin S,
         \A x \in S \union {a} : f[x] \in Int
  PROVE  SumFunctionOnSet(f, S \union {a}) = f[a] + SumFunctionOnSet(f, S)
<1>1. IsFiniteSet(S \union {a})
  BY FS_AddElement
<1>2. (S \union {a}) \ {a} = S
  OBVIOUS
<1>3. QED
  BY <1>1, <1>2, SumRemove

----------------------------------------------------------------------------
(***************************************************************************)
(* Sums of several functions.                                              *)
(***************************************************************************)

\* If r is made of f and g everywhere, its sum is made of their sums.
LEMMA SumLinear ==
  ASSUME NEW f, NEW g, NEW r, NEW S, IsFiniteSet(S),
         \A x \in S : f[x] \in Int /\ g[x] \in Int /\ r[x] = f[x] + g[x]
  PROVE  SumFunctionOnSet(r, S) = SumFunctionOnSet(f, S) + SumFunctionOnSet(g, S)
<1> DEFINE Good == {T \in SUBSET S :
             SumFunctionOnSet(r, T) = SumFunctionOnSet(f, T) + SumFunctionOnSet(g, T)}
<1>1. {} \in Good
  BY SumEmpty
<1>2. ASSUME NEW T \in SUBSET S, NEW x \in S \ T, T \in Good
      PROVE  T \union {x} \in Good
  <2>1. IsFiniteSet(T)
    BY FS_Subset
  <2>2. /\ SumFunctionOnSet(f, T) \in Int /\ SumFunctionOnSet(g, T) \in Int
        /\ SumFunctionOnSet(f, T \union {x}) = f[x] + SumFunctionOnSet(f, T)
        /\ SumFunctionOnSet(g, T \union {x}) = g[x] + SumFunctionOnSet(g, T)
        /\ SumFunctionOnSet(r, T \union {x}) = r[x] + SumFunctionOnSet(r, T)
    BY <2>1, SumInt, SumAdd
  <2>3. QED
    BY <1>2, <2>2
<1>3. S \in Good
  <2> HIDE DEF Good
  <2>1. QED
    BY <1>1, <1>2, SetInduction
<1>4. QED
  BY <1>3

LEMMA SumMonotone ==
  ASSUME NEW f, NEW g, NEW S, IsFiniteSet(S),
         \A x \in S : f[x] \in Int /\ g[x] \in Int /\ f[x] <= g[x]
  PROVE  SumFunctionOnSet(f, S) <= SumFunctionOnSet(g, S)
<1> DEFINE Good == {T \in SUBSET S : SumFunctionOnSet(f, T) <= SumFunctionOnSet(g, T)}
<1>1. {} \in Good
  BY SumEmpty
<1>2. ASSUME NEW T \in SUBSET S, NEW x \in S \ T, T \in Good
      PROVE  T \union {x} \in Good
  <2>1. IsFiniteSet(T)
    BY FS_Subset
  <2>2. /\ SumFunctionOnSet(f, T) \in Int /\ SumFunctionOnSet(g, T) \in Int
        /\ SumFunctionOnSet(f, T \union {x}) = f[x] + SumFunctionOnSet(f, T)
        /\ SumFunctionOnSet(g, T \union {x}) = g[x] + SumFunctionOnSet(g, T)
    BY <2>1, SumInt, SumAdd
  <2>3. QED
    BY <1>2, <2>2
<1>3. S \in Good
  <2> HIDE DEF Good
  <2>1. QED
    BY <1>1, <1>2, SetInduction
<1>4. QED
  BY <1>3

LEMMA SumNat ==
  ASSUME NEW f, NEW S, IsFiniteSet(S), \A x \in S : f[x] \in Nat
  PROVE  SumFunctionOnSet(f, S) \in Nat
<1> DEFINE Good == {T \in SUBSET S : SumFunctionOnSet(f, T) \in Nat}
<1>1. {} \in Good
  BY SumEmpty
<1>2. ASSUME NEW T \in SUBSET S, NEW x \in S \ T, T \in Good
      PROVE  T \union {x} \in Good
  <2>1. IsFiniteSet(T)
    BY FS_Subset
  <2>2. SumFunctionOnSet(f, T \union {x}) = f[x] + SumFunctionOnSet(f, T)
    BY <2>1, SumAdd
  <2>3. QED
    BY <1>2, <2>2
<1>3. S \in Good
  <2> HIDE DEF Good
  <2>1. QED
    BY <1>1, <1>2, SetInduction
<1>4. QED
  BY <1>3

LEMMA SumSame ==
  ASSUME NEW f, NEW g, NEW S, IsFiniteSet(S), \A x \in S : f[x] \in Int /\ f[x] = g[x]
  PROVE  SumFunctionOnSet(f, S) = SumFunctionOnSet(g, S)
<1>1. SumFunctionOnSet(f, S) \in Int /\ SumFunctionOnSet(g, S) \in Int
  BY SumInt
<1>2. SumFunctionOnSet(f, S) <= SumFunctionOnSet(g, S)
  BY SumMonotone
<1>3. SumFunctionOnSet(g, S) <= SumFunctionOnSet(f, S)
  BY SumMonotone
<1>4. QED
  BY <1>1, <1>2, <1>3

\* A set has as many elements as 1 is counted.
LEMMA SumOfOnes ==
  ASSUME NEW f, NEW S, IsFiniteSet(S), \A x \in S : f[x] = 1
  PROVE  SumFunctionOnSet(f, S) = Cardinality(S)
<1> DEFINE Good == {T \in SUBSET S : SumFunctionOnSet(f, T) = Cardinality(T)}
<1>1. {} \in Good
  BY SumEmpty, FS_EmptySet
<1>2. ASSUME NEW T \in SUBSET S, NEW x \in S \ T, T \in Good
      PROVE  T \union {x} \in Good
  <2>1. IsFiniteSet(T)
    BY FS_Subset
  <2>2. SumFunctionOnSet(f, T \union {x}) = f[x] + SumFunctionOnSet(f, T)
    BY <2>1, SumAdd
  <2>3. Cardinality(T \union {x}) = Cardinality(T) + 1 /\ Cardinality(T) \in Nat
    BY <2>1, FS_AddElement, FS_CardinalityType
  <2>4. QED
    BY <1>2, <2>2, <2>3
<1>3. S \in Good
  <2> HIDE DEF Good
  <2>1. QED
    BY <1>1, <1>2, SetInduction
<1>4. QED
  BY <1>3

----------------------------------------------------------------------------
(***************************************************************************)
(* Sums over parts of a set and over other indices.                        *)
(***************************************************************************)

LEMMA SumUnion ==
  ASSUME NEW f, NEW S, NEW R, IsFiniteSet(S), IsFiniteSet(R), R \intersect S = {},
         \A x \in S \union R : f[x] \in Int
  PROVE  SumFunctionOnSet(f, R \union S) = SumFunctionOnSet(f, R) + SumFunctionOnSet(f, S)
<1> DEFINE Good == {T \in SUBSET S :
             SumFunctionOnSet(f, R \union T) = SumFunctionOnSet(f, R) + SumFunctionOnSet(f, T)}
<1>0. SumFunctionOnSet(f, R) \in Int
  BY SumInt
<1>1. {} \in Good
  BY <1>0, SumEmpty
<1>2. ASSUME NEW T \in SUBSET S, NEW x \in S \ T, T \in Good
      PROVE  T \union {x} \in Good
  <2>1. IsFiniteSet(T) /\ IsFiniteSet(R \union T)
    BY FS_Subset, FS_Union
  <2>2. SumFunctionOnSet(f, T \union {x}) = f[x] + SumFunctionOnSet(f, T)
    BY <2>1, SumAdd
  <2>3. SumFunctionOnSet(f, (R \union T) \union {x}) = f[x] + SumFunctionOnSet(f, R \union T)
    BY <2>1, SumAdd
  <2>4. (R \union T) \union {x} = R \union (T \union {x})
    OBVIOUS
  <2>5. SumFunctionOnSet(f, T) \in Int /\ f[x] \in Int
    BY <2>1, SumInt
  <2>6. SumFunctionOnSet(f, R \union (T \union {x})) = f[x] + SumFunctionOnSet(f, R \union T)
    BY <2>3, <2>4
  <2>7. SumFunctionOnSet(f, R \union T) = SumFunctionOnSet(f, R) + SumFunctionOnSet(f, T)
    BY <1>2
  <2>8. SumFunctionOnSet(f, R \union (T \union {x}))
          = SumFunctionOnSet(f, R) + SumFunctionOnSet(f, T \union {x})
    BY <1>0, <2>2, <2>5, <2>6, <2>7
  <2>9. QED
    BY <2>8
<1>3. S \in Good
  <2> HIDE DEF Good
  <2>1. QED
    BY <1>1, <1>2, SetInduction
<1>4. QED
  BY <1>3

LEMMA SumSubset ==
  ASSUME NEW f, NEW S, IsFiniteSet(S), \A x \in S : f[x] \in Nat, NEW R \in SUBSET S
  PROVE  SumFunctionOnSet(f, R) <= SumFunctionOnSet(f, S)
<1>1. IsFiniteSet(R) /\ IsFiniteSet(S \ R) /\ R \intersect (S \ R) = {} /\ R \union (S \ R) = S
  BY FS_Subset
<1>2. SumFunctionOnSet(f, R \union (S \ R)) = SumFunctionOnSet(f, R) + SumFunctionOnSet(f, S \ R)
  BY <1>1, SumUnion
<1>3. SumFunctionOnSet(f, R) \in Nat /\ SumFunctionOnSet(f, S \ R) \in Nat
  BY <1>1, SumNat
<1>4. SumFunctionOnSet(f, S) = SumFunctionOnSet(f, R) + SumFunctionOnSet(f, S \ R)
  BY <1>1, <1>2
<1>5. QED
  BY <1>3, <1>4

\* b numbers the elements of T by those of S.
LEMMA SumReindexed ==
  ASSUME NEW f, NEW g, NEW S, NEW T, IsFiniteSet(S), NEW b \in Bijection(S, T),
         \A x \in S : f[x] \in Int /\ f[x] = g[b[x]]
  PROVE  SumFunctionOnSet(f, S) = SumFunctionOnSet(g, T)
<1> DEFINE Image(R) == {b[x] : x \in R}
           Good == {R \in SUBSET S : SumFunctionOnSet(f, R) = SumFunctionOnSet(g, Image(R))}
<1>0. /\ b \in [S -> T] /\ Image(S) = T
      /\ \A x, y \in S : b[x] = b[y] => x = y
  BY DEF Bijection, Injection, Surjection, IsInjective
<1>1. {} \in Good
  BY SumEmpty
<1>2. ASSUME NEW R \in SUBSET S, NEW x \in S \ R, R \in Good
      PROVE  R \union {x} \in Good
  <2>1. IsFiniteSet(R) /\ IsFiniteSet(T)
    BY FS_Subset, FS_Bijection DEF ExistsBijection
  <2>2. Image(R) \subseteq T /\ b[x] \notin Image(R) /\ Image(R \union {x}) = Image(R) \union {b[x]}
    BY <1>0
  <2>3. IsFiniteSet(Image(R))
    BY <2>1, <2>2, FS_Subset
  <2>4. \A y \in Image(R \union {x}) : g[y] \in Int
    BY <1>0
  <2> HIDE DEF Image
  <2>5. SumFunctionOnSet(f, R \union {x}) = f[x] + SumFunctionOnSet(f, R)
    BY <2>1, SumAdd
  <2>6. SumFunctionOnSet(g, Image(R) \union {b[x]}) = g[b[x]] + SumFunctionOnSet(g, Image(R))
    BY <2>2, <2>3, <2>4, SumAdd
  <2>7. QED
    BY <1>2, <2>2, <2>5, <2>6
<1>3. S \in Good
  <2> HIDE DEF Good
  <2>1. QED
    BY <1>1, <1>2, SetInduction
<1>4. QED
  BY <1>0, <1>3

\* A list without repetitions of some elements of T sums up to no more than T.
LEMMA SumInjected ==
  ASSUME NEW f, NEW g, NEW S, NEW T, IsFiniteSet(T), NEW b \in Injection(S, T),
         \A y \in T : g[y] \in Nat, \A x \in S : f[x] = g[b[x]]
  PROVE  IsFiniteSet(S) /\ SumFunctionOnSet(f, S) <= SumFunctionOnSet(g, T)
<1> DEFINE R == {b[x] : x \in S}
<1>1. IsFiniteSet(S)
  BY FS_Injection
<1>2. R \subseteq T /\ b \in Bijection(S, R) /\ \A x \in S : f[x] \in Int
  BY DEF Bijection, Injection, Surjection, IsInjective
<1> HIDE DEF R
<1>3. SumFunctionOnSet(f, S) = SumFunctionOnSet(g, R)
  BY <1>1, <1>2, SumReindexed
<1>4. SumFunctionOnSet(g, R) <= SumFunctionOnSet(g, T)
  BY <1>2, SumSubset
<1>5. QED
  BY <1>1, <1>3, <1>4

\* The sum over S is the sum, over the keys, of the sums over their parts.
LEMMA SumByKey ==
  ASSUME NEW f, NEW S, IsFiniteSet(S), \A x \in S : f[x] \in Int,
         NEW K, IsFiniteSet(K), NEW key, \A x \in S : key[x] \in K,
         NEW part, \A k \in K : part[k] \in SUBSET S /\ \A x \in S : x \in part[k] <=> key[x] = k,
         NEW g, \A k \in K : g[k] = SumFunctionOnSet(f, part[k])
  PROVE  SumFunctionOnSet(f, S) = SumFunctionOnSet(g, K)
<1> DEFINE Part(L) == {x \in S : key[x] \in L}
           Good == {L \in SUBSET K : SumFunctionOnSet(f, Part(L)) = SumFunctionOnSet(g, L)}
<1>1. {} \in Good
  <2>1. Part({}) = {}
    OBVIOUS
  <2>2. QED
    BY <2>1, SumEmpty
<1>2. ASSUME NEW L \in SUBSET K, NEW k \in K \ L, L \in Good
      PROVE  L \union {k} \in Good
  <2> DEFINE P == part[k]
  <2>1. /\ IsFiniteSet(L) /\ IsFiniteSet(P) /\ IsFiniteSet(Part(L))
        /\ P \subseteq S /\ Part(L) \subseteq S
    BY FS_Subset
  <2>2. Part(L \union {k}) = P \union Part(L) /\ P \intersect Part(L) = {}
    OBVIOUS
  <2>3. \A j \in L \union {k} : g[j] \in Int
    <3>1. ASSUME NEW j \in K
          PROVE  g[j] \in Int
      <4> DEFINE Q == part[j]
      <4>1. g[j] = SumFunctionOnSet(f, Q)
        OBVIOUS
      <4>2. IsFiniteSet(Q) /\ \A x \in Q : f[x] \in Int
        BY FS_Subset
      <4> HIDE DEF Q
      <4>3. QED
        BY <4>1, <4>2, SumInt
    <3>2. QED
      BY <3>1
  <2>4. g[k] = SumFunctionOnSet(f, P)
    OBVIOUS
  <2> HIDE DEF P, Part
  <2>5. SumFunctionOnSet(f, P \union Part(L)) = SumFunctionOnSet(f, P) + SumFunctionOnSet(f, Part(L))
    BY <2>1, <2>2, SumUnion
  <2>6. SumFunctionOnSet(g, L \union {k}) = g[k] + SumFunctionOnSet(g, L)
    BY <2>1, <2>3, SumAdd
  <2>7. QED
    BY <1>2, <2>2, <2>4, <2>5, <2>6
<1>3. K \in Good
  <2> HIDE DEF Good
  <2>1. QED
    BY <1>1, <1>2, SetInduction
<1>4. Part(K) = S
  OBVIOUS
<1>5. QED
  BY <1>3, <1>4
=============================================================================
