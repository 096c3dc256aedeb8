------------------------- MODULE ReportsListsProofs -------------------------
(***************************************************************************)
(* What a client misses and what it sees twice when it walks through a     *)
(* list page by page while rows come and go, for lists and pages of any    *)
(* length and any writes.                                                  *)
(*                                                                         *)
(* The argument follows the rank of a row, the number of newer rows in the *)
(* list: a page is the rows of a range of ranks, and a write moves a row   *)
(* across the end of the last page only if a row comes or goes.            *)
(***************************************************************************)
EXTENDS ReportsProofs

----------------------------------------------------------------------------
(***************************************************************************)
(* Ranks.  M is a set of rows and c their stamps.                          *)
(***************************************************************************)

Newer(o, M, c) == {x \in M : c[x] > c[o]}

Rank(o, M, c) == Cardinality(Newer(o, M, c))

\* No two rows have the same stamp.
Distinct(M, c) ==
  /\ IsFiniteSet(M)
  /\ \A x \in M : c[x] \in Int
  /\ \A x, y \in M : c[x] = c[y] => x = y

LEMMA RankType ==
  ASSUME NEW M, NEW c, IsFiniteSet(M), NEW o
  PROVE  IsFiniteSet(Newer(o, M, c)) /\ Rank(o, M, c) \in Nat
BY FS_Subset, FS_CardinalityType DEF Newer, Rank

LEMMA RankWithin ==
  ASSUME NEW M, NEW c, Distinct(M, c), NEW o \in M
  PROVE  Rank(o, M, c) < Cardinality(M)
<1>1. IsFiniteSet(M) /\ Newer(o, M, c) \subseteq M
  BY DEF Distinct, Newer
<1>2. o \notin Newer(o, M, c)
  BY DEF Distinct, Newer
<1>3. QED
  BY <1>1, <1>2, FS_Subset, FS_CardinalityType DEF Rank

\* Of two rows the older one has the higher rank.
LEMMA RankOrder ==
  ASSUME NEW M, NEW c, Distinct(M, c), NEW x \in M, NEW y \in M, c[x] > c[y]
  PROVE  Rank(x, M, c) + 1 <= Rank(y, M, c)
<1> DEFINE N == Newer(x, M, c)
<1>1. IsFiniteSet(N) /\ IsFiniteSet(Newer(y, M, c))
  BY RankType DEF Distinct
<1>2. x \notin N /\ N \union {x} \subseteq Newer(y, M, c)
  BY DEF Distinct, Newer
<1>3. Cardinality(N \union {x}) = Cardinality(N) + 1
  BY <1>1, <1>2, FS_AddElement
<1>4. Cardinality(N \union {x}) <= Cardinality(Newer(y, M, c))
  BY <1>1, <1>2, FS_Subset
<1>5. QED
  BY <1>3, <1>4 DEF Rank

LEMMA RanksApart ==
  ASSUME NEW M, NEW c, Distinct(M, c), NEW x \in M, NEW y \in M,
         Rank(x, M, c) = Rank(y, M, c)
  PROVE  x = y
<1>1. Rank(x, M, c) \in Nat /\ Rank(y, M, c) \in Nat
  BY RankType DEF Distinct
<1>2. c[x] \in Int /\ c[y] \in Int /\ (c[x] = c[y] => x = y)
  BY DEF Distinct
<1>3. ~(c[x] > c[y]) /\ ~(c[y] > c[x])
  BY <1>1, RankOrder
<1>4. QED
  BY <1>2, <1>3

Descending(s, c) == \A j \in 1 .. Len(s) - 1 : ~(c[s[j + 1]] > c[s[j]])

\* A sorted list has a row of rank n in its place n + 1.
LEMMA RankAt ==
  ASSUME NEW M, NEW c, Distinct(M, c), NEW s \in SetToSeqs(M), Descending(s, c)
  PROVE  /\ s \in Seq(M) /\ \A o \in M : \E j \in 1 .. Len(s) : s[j] = o
         /\ \A j \in 1 .. Len(s) : Rank(s[j], M, c) = j - 1
<1>1. /\ s \in Seq(M) /\ Len(s) \in Nat
      /\ \A o \in M : \E j \in 1 .. Len(s) : s[j] = o
      /\ \A i, j \in 1 .. Len(s) : s[i] = s[j] => i = j
  <2>1. Cardinality(M) \in Nat
    BY FS_CardinalityType DEF Distinct
  <2> DEFINE D == 1 .. Cardinality(M)
  <2>2. s \in [D -> M] /\ \A i, j \in D : s[i] = s[j] => i = j
    BY DEF SetToSeqs
  <2>3. s \in Injection(D, M)
    BY <2>2 DEF Injection, IsInjective
  <2>4. IsFiniteSet(D) /\ Cardinality(D) = Cardinality(M)
    BY <2>1, CountUpTo
  <2>5. s \in Surjection(D, M)
    BY <2>3, <2>4, FS_Injection DEF Distinct
  <2>6. \A o \in M : \E j \in D : s[j] = o
    BY <2>5 DEF Surjection
  <2>7. s \in Seq(M) /\ Len(s) = Cardinality(M)
    BY <2>1, <2>2
  <2>8. QED
    BY <2>1, <2>2, <2>6, <2>7
<1> DEFINE n == Len(s)
           Good == {j \in 0 .. n : \A i \in 1 .. j : \A h \in 1 .. i : h # i => c[s[h]] > c[s[i]]}
<1>2. \A j \in 1 .. n : s[j] \in M /\ c[s[j]] \in Int
  BY <1>1 DEF Distinct
<1>3. \A j \in 1 .. n - 1 : c[s[j]] > c[s[j + 1]]
  <2> SUFFICES ASSUME NEW j \in 1 .. n - 1 PROVE c[s[j]] > c[s[j + 1]]
    OBVIOUS
  <2>1. j \in 1 .. n /\ j + 1 \in 1 .. n /\ j # j + 1
    BY <1>1
  <2>2. c[s[j]] # c[s[j + 1]]
    BY ZenonT(30), <1>1, <1>2, <2>1 DEF Distinct
  <2>3. QED
    BY <1>2, <2>1, <2>2 DEF Descending
<1>4. \A j \in 0 .. n : j \in Good
  <2>1. 0 \in Good
    BY <1>1
  <2>2. ASSUME NEW j \in 0 .. n - 1, j \in Good
        PROVE  j + 1 \in Good
    <3> SUFFICES ASSUME NEW i \in 1 .. j + 1, NEW h \in 1 .. i, h # i
                 PROVE  c[s[h]] > c[s[i]]
      BY <1>1, <2>2
    <3>1. CASE i \in 1 .. j
      BY <2>2, <3>1
    <3>2. CASE i = j + 1 /\ h = j
      <4>1. j \in 1 .. n - 1
        BY <1>1, <3>2
      <4>2. QED
        BY <1>3, <3>2, <4>1
    <3>3. CASE i = j + 1 /\ h < j
      <4>1. c[s[h]] > c[s[j]]
        BY <2>2, <3>3
      <4>2. c[s[j]] > c[s[j + 1]]
        BY <1>3, <3>3
      <4>3. c[s[h]] \in Int /\ c[s[j]] \in Int /\ c[s[j + 1]] \in Int
        BY SMTT(30), <1>1, <1>2, <3>3
      <4>4. QED
        BY <3>3, <4>1, <4>2, <4>3
    <3>4. QED
      BY <3>1, <3>2, <3>3
  <2> HIDE DEF Good
  <2>3. n \in Nat
    BY <1>1
  <2>4. QED
    BY <2>1, <2>2, <2>3, IntervalInduction
<1>5. \A i \in 1 .. n : \A h \in 1 .. i : h # i => c[s[h]] > c[s[i]]
  <2>1. n \in 0 .. n
    BY <1>1
  <2>2. n \in Good
    BY <1>4, <2>1
  <2>3. QED
    BY <2>2
<1>6. ASSUME NEW j \in 1 .. n
      PROVE  Rank(s[j], M, c) = j - 1
  <2> DEFINE I == 1 .. j - 1
             N == Newer(s[j], M, c)
             f == [i \in I |-> s[i]]
  <2>1. IsFiniteSet(I) /\ Cardinality(I) = j - 1
    BY CountUpTo
  <2>2. f \in Bijection(I, N)
    <3>1. \A i \in I : s[i] \in N
      BY <1>2, <1>5, <1>6 DEF Newer
    <3>2. ASSUME NEW x \in N
          PROVE  \E i \in I : s[i] = x
      <4>1. PICK i \in 1 .. n : s[i] = x
        BY <1>1 DEF Newer
      <4>2. c[s[i]] > c[s[j]]
        BY <4>1 DEF Newer
      <4>3. ~(i > j) /\ i # j
        BY <1>2, <1>5, <4>1, <4>2
      <4>4. QED
        BY <4>1, <4>3
    <3>3. \A h, i \in I : s[h] = s[i] => h = i
      <4>1. \A i \in I : i \in 1 .. n
        BY <1>1, <1>6
      <4> HIDE DEF I
      <4>2. QED
        BY <1>1, <4>1
    <3>4. QED
      BY <3>1, <3>2, <3>3 DEF Bijection, Injection, Surjection, IsInjective
  <2>3. Cardinality(N) = Cardinality(I)
    BY <2>1, <2>2, FS_Bijection DEF ExistsBijection
  <2>4. QED
    BY <2>1, <2>3 DEF Rank
<1>7. QED
  BY <1>1, <1>6

\* A page is the rows of a range of ranks.
LEMMA PageRanks ==
  ASSUME NEW M, NEW c, Distinct(M, c), NEW s \in SetToSeqs(M), Descending(s, c),
         NEW page \in Nat \ {0}, NEW o \in M
  PROVE  /\ ToSet(Page(s, page)) \subseteq M
         /\ o \in ToSet(Page(s, page)) <=>
              Rank(o, M, c) >= Skipped(page) /\ Rank(o, M, c) < Skipped(page + 1)
<1> DEFINE k == Skipped(page)
           m == Min({k + PageSize, Len(s)})
           p == SubSeq(s, k + 1, m)
<1>1. k \in Nat /\ PageSize \in Nat \ {0} /\ Skipped(page + 1) = k + PageSize
  <2>1. PageSize \in Nat \ {0}
    BY ReportsAssumption
  <2>2. (page - 1) * PageSize \in Nat /\ page * PageSize = (page - 1) * PageSize + PageSize
    BY <2>1
  <2>3. QED
    BY <2>1, <2>2 DEF Skipped
<1>2. /\ s \in Seq(M) /\ Len(s) \in Nat
      /\ \A x \in M : \E j \in 1 .. Len(s) : s[j] = x
      /\ \A j \in 1 .. Len(s) : Rank(s[j], M, c) = j - 1
  <2>1. /\ s \in Seq(M) /\ \A x \in M : \E j \in 1 .. Len(s) : s[j] = x
        /\ \A j \in 1 .. Len(s) : Rank(s[j], M, c) = j - 1
    BY SMTT(30), RankAt
  <2>2. QED
    BY <2>1
<1> HIDE DEF k
<1>3. m = IF k + PageSize <= Len(s) THEN k + PageSize ELSE Len(s)
  <2>1. k + PageSize \in Nat
    BY <1>1
  <2>2. QED
    BY <1>2, <2>1, MinOfTwo
<1> HIDE DEF m
<1>4. m \in 0 .. Len(s) /\ m <= k + PageSize /\ (m < k + PageSize => m = Len(s))
  <2>1. k + PageSize \in Nat /\ Len(s) \in Nat
    BY <1>1, <1>2
  <2>2. QED
    BY <1>3, <2>1
<1>5. \A i \in k + 1 .. m : i \in 1 .. Len(s) /\ s[i] \in M
  <2>1. \A i \in k + 1 .. m : i \in 1 .. Len(s)
    BY <1>1, <1>2, <1>4
  <2>2. \A i \in 1 .. Len(s) : s[i] \in M
    BY <1>2
  <2>3. QED
    BY <2>1, <2>2
<1>6. /\ p \in Seq(M) /\ Len(p) = IF k + 1 <= m THEN m - (k + 1) + 1 ELSE 0
      /\ \A i \in 1 .. m - (k + 1) + 1 : p[i] = s[k + 1 + i - 1]
  <2>1. k + 1 \in Int /\ m \in Int
    BY <1>1, <1>2, <1>4
  <2>2. \A i \in k + 1 .. m : s[i] \in M
    BY <1>5
  <2>3. QED
    BY <2>1, <2>2, SubSeqProperties
<1>7. Page(s, page) = p
  BY DEF Page, p, m, k
<1> HIDE DEF p
<1>8. \A x : x \in ToSet(p) <=> \E i \in k + 1 .. m : s[i] = x
  <2>1. DOMAIN p = 1 .. Len(p)
    BY <1>6
  <2>2. ASSUME NEW i \in DOMAIN p
        PROVE  \E h \in k + 1 .. m : s[h] = p[i]
    <3>1. i \in 1 .. m - (k + 1) + 1
      BY <1>1, <1>2, <1>4, <1>6, <2>1, <2>2
    <3>2. k + 1 + i - 1 \in k + 1 .. m
      <4>1. k \in Int /\ m \in Int /\ i \in Int /\ 1 <= i /\ i <= m - (k + 1) + 1
        BY <1>1, <1>2, <1>4, <3>1
      <4>2. QED
        BY <4>1
    <3>3. QED
      BY <1>6, <3>1, <3>2
  <2>3. ASSUME NEW h \in k + 1 .. m
        PROVE  \E i \in DOMAIN p : p[i] = s[h]
    <3>1. h - k \in 1 .. m - (k + 1) + 1 /\ k + 1 + (h - k) - 1 = h
      BY <1>1, <1>2, <1>4, <2>3
    <3>2. h - k \in DOMAIN p
      BY <1>1, <1>2, <1>4, <1>6, <2>1, <3>1
    <3>3. QED
      BY <1>6, <3>1, <3>2
  <2>4. QED
    BY <2>2, <2>3 DEF ToSet
<1>9. ToSet(p) \subseteq M
  BY <1>5, <1>8
<1>10. PICK j \in 1 .. Len(s) : s[j] = o
  BY <1>2
<1>11. Rank(o, M, c) = j - 1
  BY <1>2, <1>10
<1>12. o \in ToSet(p) => j - 1 >= k /\ j - 1 < k + PageSize
  <2> SUFFICES ASSUME o \in ToSet(p) PROVE j - 1 >= k /\ j - 1 < k + PageSize
    OBVIOUS
  <2>1. PICK i \in k + 1 .. m : s[i] = o
    BY <1>8
  <2>2. i \in 1 .. Len(s) /\ Rank(s[i], M, c) = i - 1
    BY <1>2, <1>5
  <2>3. i - 1 = j - 1
    BY <1>11, <2>1, <2>2
  <2>4. i = j
    BY <1>1, <1>2, <2>2, <2>3
  <2>5. QED
    BY <1>1, <1>2, <1>4, <2>1, <2>4
<1>13. ASSUME j - 1 >= k, j - 1 < k + PageSize
       PROVE  o \in ToSet(p)
  <2>1. j \in k + 1 .. m
    <3>1. k \in Int /\ m \in Int /\ j \in 1 .. Len(s) /\ Len(s) \in Nat /\ PageSize \in Nat
      BY <1>1, <1>2, <1>4, <1>10
    <3>2. j <= m
      BY <1>4, <1>13, <3>1
    <3>3. QED
      BY <1>13, <3>1, <3>2
  <2>2. QED
    BY <1>8, <1>10, <2>1
<1>14. QED
  BY <1>1, <1>7, <1>9, <1>11, <1>12, <1>13 DEF k

\* A page with rows behind it is full.
LEMMA FullPage ==
  ASSUME NEW M, NEW c, Distinct(M, c), NEW s \in SetToSeqs(M), Descending(s, c),
         NEW page \in Nat \ {0}, NEW o \in M, Rank(o, M, c) >= Skipped(page + 1)
  PROVE  Cardinality(ToSet(Page(s, page))) = PageSize
<1> DEFINE P == ToSet(Page(s, page))
           h == Skipped(page)
           k == Skipped(page + 1)
           I == h + 1 .. k
           f == [i \in I |-> s[i]]
<1>1. PageSize \in Nat /\ h \in Nat /\ k = h + PageSize
  <2>1. PageSize \in Nat
    BY ReportsAssumption
  <2>2. (page - 1) * PageSize \in Nat /\ page * PageSize = (page - 1) * PageSize + PageSize
    BY <2>1
  <2>3. QED
    BY <2>1, <2>2 DEF Skipped
<1>2. \A x \in M : /\ P \subseteq M
                   /\ x \in P <=> Rank(x, M, c) >= h /\ Rank(x, M, c) < k
  BY PageRanks
<1>3. /\ s \in Seq(M) /\ \A x \in M : \E j \in 1 .. Len(s) : s[j] = x
      /\ \A j \in 1 .. Len(s) : Rank(s[j], M, c) = j - 1
  BY SMTT(30), RankAt
<1> HIDE DEF P, h, k
<1>4. PICK j \in 1 .. Len(s) : s[j] = o
  BY <1>3
<1>5. j - 1 >= k /\ Len(s) \in Nat
  <2>1. Rank(o, M, c) = j - 1
    BY <1>3, <1>4
  <2>2. Rank(o, M, c) >= k
    BY DEF k
  <2>3. Len(s) \in Nat
    BY <1>3
  <2>4. QED
    BY <2>1, <2>2, <2>3
<1>6. \A i \in I : i \in 1 .. Len(s) /\ i - 1 >= h /\ i - 1 < k
  BY <1>1, <1>5
<1>7. \A i \in I : s[i] \in P /\ Rank(s[i], M, c) = i - 1
  <2> SUFFICES ASSUME NEW i \in I PROVE s[i] \in P /\ Rank(s[i], M, c) = i - 1
    OBVIOUS
  <2>1. i \in 1 .. Len(s) /\ i - 1 >= h /\ i - 1 < k
    BY <1>6
  <2>2. s[i] \in M /\ Rank(s[i], M, c) = i - 1
    BY <1>3, <2>1
  <2>3. QED
    BY <1>2, <2>1, <2>2
<1>8. ASSUME NEW x \in P
      PROVE  \E i \in I : s[i] = x
  <2>1. x \in M
    BY <1>2
  <2>2. Rank(x, M, c) >= h /\ Rank(x, M, c) < k
    BY <1>2, <2>1
  <2>3. PICK i \in 1 .. Len(s) : s[i] = x
    BY <1>3, <2>1
  <2>4. Rank(x, M, c) = i - 1
    BY <1>3, <2>3
  <2>5. i \in I
    BY <1>1, <2>2, <2>4
  <2>6. QED
    BY <2>3, <2>5
<1>9. \A i, n \in I : s[i] = s[n] => i = n
  <2> SUFFICES ASSUME NEW i \in I, NEW n \in I, s[i] = s[n] PROVE i = n
    OBVIOUS
  <2>1. i - 1 = n - 1
    BY <1>7
  <2>2. QED
    BY <1>1, <2>1
<1>10. IsFiniteSet(I) /\ Cardinality(I) = PageSize
  <2> DEFINE J == 1 .. PageSize
             g == [n \in J |-> h + n]
  <2>1. IsFiniteSet(J) /\ Cardinality(J) = PageSize
    BY <1>1, CountUpTo
  <2>2. g \in Bijection(J, I)
    <3>1. \A n \in J : h + n \in I
      BY <1>1
    <3>2. \A i \in I : i - h \in J /\ h + (i - h) = i
      BY <1>1
    <3>3. \A m, n \in J : h + m = h + n => m = n
      BY <1>1
    <3> HIDE DEF J, I
    <3>4. QED
      BY <3>1, <3>2, <3>3 DEF Bijection, Injection, Surjection, IsInjective
  <2>3. QED
    BY <2>1, <2>2, FS_Bijection DEF ExistsBijection
<1> HIDE DEF I
<1>11. f \in Bijection(I, P)
  BY <1>7, <1>8, <1>9 DEF Bijection, Injection, Surjection, IsInjective
<1>12. Cardinality(P) = Cardinality(I)
  BY <1>10, <1>11, FS_Bijection DEF ExistsBijection
<1>13. QED
  BY <1>10, <1>12 DEF P

----------------------------------------------------------------------------
(***************************************************************************)
(* A row comes or goes.  T are the rows that a client has been shown, and  *)
(* k is the number of ranks that its pages have covered.                   *)
(***************************************************************************)

Late(T, M, c, k) == {o \in T \intersect M : Rank(o, M, c) >= k}

Early(T, M, c, k) == {o \in T \intersect M : Rank(o, M, c) < k}

\* One element more or less.
LEMMA OneMore ==
  ASSUME NEW A, NEW B, IsFiniteSet(A), IsFiniteSet(B), \A x, y \in A \ B : x = y
  PROVE  Cardinality(A) <= Cardinality(B) + 1
<1>1. Cardinality(A) \in Nat /\ Cardinality(B) \in Nat
  BY FS_CardinalityType
<1>2. CASE A \subseteq B
  BY <1>1, <1>2, FS_Subset
<1>3. CASE ~(A \subseteq B)
  <2>1. PICK x \in A : x \notin B
    BY <1>3
  <2>2. A \subseteq B \union {x}
    BY <2>1
  <2>3. IsFiniteSet(B \union {x}) /\ Cardinality(B \union {x}) = Cardinality(B) + 1
    BY <2>1, FS_AddElement
  <2>4. QED
    BY <2>2, <2>3, FS_Subset
<1>4. QED
  BY <1>2, <1>3

LEMMA RanksFinite ==
  ASSUME NEW T, NEW M, NEW c, NEW k, IsFiniteSet(M)
  PROVE  /\ IsFiniteSet(Late(T, M, c, k)) /\ Cardinality(Late(T, M, c, k)) \in Nat
         /\ IsFiniteSet(Early(T, M, c, k)) /\ Cardinality(Early(T, M, c, k)) \in Nat
<1>1. Late(T, M, c, k) \subseteq M /\ Early(T, M, c, k) \subseteq M
  BY DEF Late, Early
<1>2. QED
  BY <1>1, FS_Subset, FS_CardinalityType

\* Row a comes: the older rows move up by one rank.
LEMMA RankComes ==
  ASSUME NEW M, NEW c, NEW a, a \notin M, Distinct(M \union {a}, c), NEW o \in M
  PROVE  /\ Distinct(M, c)
         /\ Rank(o, M \union {a}, c) = IF c[a] > c[o] THEN Rank(o, M, c) + 1 ELSE Rank(o, M, c)
<1> DEFINE N == Newer(o, M, c)
           R == Newer(o, M \union {a}, c)
<1>1. IsFiniteSet(M)
  BY FS_Subset DEF Distinct
<1>2. Distinct(M, c)
  BY <1>1 DEF Distinct
<1>3. IsFiniteSet(N) /\ a \notin N
  BY <1>1, RankType DEF Newer
<1>4. CASE c[a] > c[o]
  <2>1. R = N \union {a}
    BY <1>4 DEF Newer
  <2>2. Cardinality(N \union {a}) = Cardinality(N) + 1
    BY <1>3, FS_AddElement
  <2>3. QED
    BY <1>2, <1>4, <2>1, <2>2 DEF Rank
<1>5. CASE ~(c[a] > c[o])
  <2>1. R = N
    BY <1>5 DEF Newer
  <2>2. QED
    BY <1>2, <1>5, <2>1 DEF Rank
<1>6. QED
  BY <1>4, <1>5

\* So one of the rows that were shown moves past the last page, or the new
\* one does: not both.
LEMMA LateComes ==
  ASSUME NEW M, NEW c, NEW a, a \notin M, Distinct(M \union {a}, c), NEW T, NEW k \in Nat
  PROVE  Cardinality(Late(T, M \union {a}, c, k)) <= Cardinality(Late(T, M, c, k)) + 1
<1> DEFINE N == M \union {a}
           A == Late(T, N, c, k)
           B == Late(T, M, c, k)
<1>1. /\ IsFiniteSet(M) /\ IsFiniteSet(N)
      /\ \A x \in N : c[x] \in Int
      /\ \A x \in N : Rank(x, N, c) \in Nat
      /\ \A x \in M : Rank(x, M, c) \in Nat
  BY FS_Subset, RankType DEF Distinct
<1>2. \A x \in M : Rank(x, N, c) = IF c[a] > c[x] THEN Rank(x, M, c) + 1 ELSE Rank(x, M, c)
  BY RankComes
<1>3. Distinct(M, c)
  BY <1>1 DEF Distinct
<1>4. \A x \in A \ B : x = a \/ (x \in M /\ c[a] > c[x] /\ Rank(x, M, c) = k - 1
                                 /\ Rank(x, N, c) = k)
  <2> SUFFICES ASSUME NEW x \in A \ B, x # a
               PROVE  x \in M /\ c[a] > c[x] /\ Rank(x, M, c) = k - 1 /\ Rank(x, N, c) = k
    OBVIOUS
  <2>1. x \in M /\ Rank(x, N, c) >= k /\ ~(Rank(x, M, c) >= k)
    BY DEF Late
  <2>2. QED
    BY <1>1, <1>2, <2>1
<1>5. ASSUME NEW x \in A \ B, x \in M, a \in A
      PROVE  FALSE
  <2>1. a # x /\ c[a] > c[x] /\ Rank(x, N, c) = k
    BY <1>4, <1>5
  <2>2. Rank(a, N, c) + 1 <= Rank(x, N, c)
    BY <1>5, <2>1, RankOrder
  <2>3. Rank(a, N, c) >= k
    BY <1>5 DEF Late
  <2>4. QED
    BY <1>1, <2>1, <2>2, <2>3
<1>6. ASSUME NEW x \in A \ B, NEW y \in A \ B
      PROVE  x = y
  <2>1. CASE x \in M /\ y \in M
    <3>1. Rank(x, M, c) = Rank(y, M, c)
      BY <1>4, <2>1
    <3>2. QED
      BY <1>3, <2>1, <3>1, RanksApart
  <2>2. CASE x \notin M \/ y \notin M
    <3>1. x \in N /\ y \in N
      BY DEF Late
    <3>2. QED
      BY <1>5, <2>2, <3>1
  <2>3. QED
    BY <2>1, <2>2
<1>7. IsFiniteSet(A) /\ IsFiniteSet(B)
  BY <1>1, RanksFinite
<1> HIDE DEF A, B
<1>8. Cardinality(A) <= Cardinality(B) + 1
  BY <1>6, <1>7, OneMore
<1>9. QED
  BY <1>8 DEF A, B, N

LEMMA EarlyComes ==
  ASSUME NEW M, NEW c, NEW a, a \notin M, Distinct(M \union {a}, c), NEW T \in SUBSET M, NEW k \in Nat
  PROVE  Cardinality(Early(T, M \union {a}, c, k)) <= Cardinality(Early(T, M, c, k))
<1>1. IsFiniteSet(M)
  BY FS_Subset DEF Distinct
<1>2. Early(T, M \union {a}, c, k) \subseteq Early(T, M, c, k)
  <2> SUFFICES ASSUME NEW x \in T, Rank(x, M \union {a}, c) < k
               PROVE  Rank(x, M, c) < k
    BY DEF Early
  <2>1. Rank(x, M, c) \in Nat
    BY <1>1, RankType
  <2>2. QED
    BY <2>1, RankComes
<1>3. QED
  BY <1>1, <1>2, RanksFinite, FS_Subset

\* Row d goes: the older rows move down by one rank.
LEMMA RankGoes ==
  ASSUME NEW M, NEW c, NEW d \in M, Distinct(M, c), NEW o \in M \ {d}
  PROVE  /\ Distinct(M \ {d}, c)
         /\ Rank(o, M, c) = IF c[d] > c[o] THEN Rank(o, M \ {d}, c) + 1 ELSE Rank(o, M \ {d}, c)
<1> DEFINE R == M \ {d}
<1>1. R \union {d} = M /\ d \notin R /\ o \in R
  OBVIOUS
<1> HIDE DEF R
<1>2. Distinct(R \union {d}, c)
  BY <1>1
<1>3. /\ Distinct(R, c)
      /\ Rank(o, R \union {d}, c) = IF c[d] > c[o] THEN Rank(o, R, c) + 1 ELSE Rank(o, R, c)
  BY <1>1, <1>2, RankComes
<1>4. QED
  BY <1>1, <1>3 DEF R

LEMMA LateGoes ==
  ASSUME NEW M, NEW c, NEW d \in M, Distinct(M, c), NEW T, NEW k \in Nat
  PROVE  Cardinality(Late(T, M \ {d}, c, k)) <= Cardinality(Late(T, M, c, k))
<1>1. IsFiniteSet(M) /\ IsFiniteSet(M \ {d})
  BY FS_Subset DEF Distinct
<1>2. Late(T, M \ {d}, c, k) \subseteq Late(T, M, c, k)
  <2> SUFFICES ASSUME NEW x \in M \ {d}, Rank(x, M \ {d}, c) >= k
               PROVE  Rank(x, M, c) >= k
    BY DEF Late
  <2>1. Rank(x, M \ {d}, c) \in Nat
    BY <1>1, RankType
  <2>2. QED
    BY <2>1, RankGoes
<1>3. QED
  BY <1>1, <1>2, RanksFinite, FS_Subset

\* One row that was not shown moves before the end of the last page.
LEMMA EarlyGoes ==
  ASSUME NEW M, NEW c, NEW d \in M, Distinct(M, c), NEW T, NEW k \in Nat
  PROVE  Cardinality(Early(T \ {d}, M \ {d}, c, k)) <= Cardinality(Early(T, M, c, k)) + 1
<1> DEFINE N == M \ {d}
           A == Early(T \ {d}, N, c, k)
           B == Early(T, M, c, k)
<1>1. IsFiniteSet(M) /\ IsFiniteSet(N)
  BY FS_Subset DEF Distinct
<1>2. ASSUME NEW x \in A \ B
      PROVE  x \in M /\ Rank(x, M, c) = k
  <2>1. x \in N /\ x \in M /\ Rank(x, N, c) < k /\ ~(Rank(x, M, c) < k)
    BY DEF Early
  <2>2. Rank(x, N, c) \in Nat
    BY <1>1, RankType
  <2>3. Rank(x, M, c) = IF c[d] > c[x] THEN Rank(x, N, c) + 1 ELSE Rank(x, N, c)
    BY <2>1, RankGoes
  <2>4. QED
    BY <2>1, <2>2, <2>3
<1>3. \A x, y \in A \ B : x = y
  BY <1>2, RanksApart
<1>4. IsFiniteSet(A) /\ IsFiniteSet(B)
  BY <1>1, RanksFinite
<1> HIDE DEF A, B
<1>5. Cardinality(A) <= Cardinality(B) + 1
  BY <1>3, <1>4, OneMore
<1>6. QED
  BY <1>5 DEF A, B, N

----------------------------------------------------------------------------
(***************************************************************************)
(* A walk w through the rows M that have the stamps c.                     *)
(***************************************************************************)

\* The ranks that the pages read so far have covered.
Reached(w) == IF w.pc = "ids" THEN Skipped(w.page) ELSE Skipped(w.page + 1)

Told(w) == w.seen \union w.ids

Staying(w) == w.start \ w.departed

\* Rows that the client has been shown and that lie past the pages it has
\* read will be shown again; each was pushed there by another one.  Rows that
\* it has not been shown and that lie before have been drawn there.
WalkOK(w, M, c) ==
  /\ DOMAIN w = DOMAIN NoWalk
  /\ w.page \in Nat \ {0}
  /\ w.repeats \in Nat /\ w.arrivals \in Nat /\ w.departures \in Nat
  /\ IsFiniteSet(w.ids)
  /\ w.pc # "rows" => w.ids = {}
  /\ w.repeats + Cardinality(w.ids \intersect w.seen)
       + Cardinality(Late(Told(w), M, c, Reached(w))) <= w.arrivals
  /\ Staying(w) \subseteq M
  /\ Cardinality(Early(Staying(w) \ Told(w), M, c, Reached(w))) <= w.departures

\* A row that was on the page and is in the list no more has departed, and
\* behind a page that was not full only rows drawn to earlier ones are missing.
PageOK(w, M) ==
  /\ w.cut = FALSE
  /\ w.pc = "rows" =>
       /\ w.ids \ M \subseteq w.departed
       /\ Cardinality(w.ids) # PageSize => Cardinality(Staying(w) \ Told(w)) <= w.departures

LEMMA SkippedType ==
  ASSUME NEW page \in Nat \ {0}
  PROVE  /\ Skipped(page) \in Nat /\ Skipped(page + 1) \in Nat
         /\ Skipped(page) <= Skipped(page + 1) /\ Skipped(page + 1) = page * PageSize
<1>1. PageSize \in Nat
  BY ReportsAssumption
<1>2. (page - 1) * PageSize \in Nat /\ page * PageSize = (page - 1) * PageSize + PageSize
  BY <1>1
<1>3. QED
  BY <1>1, <1>2 DEF Skipped

\* A page of any list, an empty one too.
LEMMA PageOfList ==
  ASSUME NEW M, NEW c, Distinct(M, c), NEW s \in SetToSeqs(M), Descending(s, c),
         NEW page \in Nat \ {0}
  PROVE  /\ ToSet(Page(s, page)) \in SUBSET M
         /\ \A o \in M : o \in ToSet(Page(s, page)) <=>
              Rank(o, M, c) >= Skipped(page) /\ Rank(o, M, c) < Skipped(page + 1)
<1> DEFINE P == ToSet(Page(s, page))
           h == Skipped(page)
           k == Skipped(page + 1)
<1>1. \A o \in M : /\ P \subseteq M
                   /\ o \in P <=> Rank(o, M, c) >= h /\ Rank(o, M, c) < k
  BY PageRanks
<1>2. CASE M = {}
  <2>1. s \in Seq(M)
    BY SortedEntries DEF Distinct
  <2>2. s = <<>>
    BY <1>2, <2>1
  <2>3. Page(s, page) = <<>>
    <3>1. Min({h + PageSize, Len(s)}) = 0
      <4>1. PageSize \in Nat
        BY ReportsAssumption
      <4>2. h \in Nat
        BY SkippedType
      <4>3. h + PageSize \in Nat /\ Len(s) = 0
        BY <2>2, <4>1, <4>2
      <4> DEFINE n == h + PageSize
      <4> HIDE DEF n
      <4>4. n \in Nat /\ Min({n, 0}) = IF n <= 0 THEN n ELSE 0
        BY <4>3, MinOfTwo DEF n
      <4>5. Min({n, 0}) = 0
        BY <4>4
      <4>6. QED
        BY <4>3, <4>5 DEF n
    <3>2. h + 1 \in Int /\ 0 < h + 1
      BY SkippedType
    <3>3. QED
      BY <3>1, <3>2, SubSeqEmpty DEF Page
  <2>4. P = {}
    BY <2>3 DEF ToSet
  <2>5. QED
    BY <1>2, <2>4
<1>3. QED
  BY <1>1, <1>2

LEMMA ReachedType ==
  ASSUME NEW w, w.page \in Nat \ {0}
  PROVE  Reached(w) \in Nat
BY SkippedType DEF Reached

LEMMA OverlapType ==
  ASSUME NEW A, NEW B, IsFiniteSet(A)
  PROVE  Cardinality(A \intersect B) \in Nat
BY FS_Intersection, FS_CardinalityType

LEMMA WalkBegins ==
  ASSUME NEW M, NEW c, IsFiniteSet(M), NEW l,
         NEW w, w = [NoWalk EXCEPT !.pc = "ids", !.list = l, !.page = 1, !.start = M]
  PROVE  WalkOK(w, M, c)
<1>1. /\ DOMAIN w = DOMAIN NoWalk /\ w.pc = "ids" /\ w.page = 1 /\ w.ids = {} /\ w.seen = {}
      /\ w.start = M /\ w.departed = {}
      /\ w.repeats = 0 /\ w.arrivals = 0 /\ w.departures = 0
  BY DEF NoWalk
<1>2. Reached(w) = 0
  <2>1. PageSize \in Nat
    BY ReportsAssumption
  <2>2. (1 - 1) * PageSize = 0
    BY <2>1
  <2>3. QED
    BY <1>1, <2>2 DEF Reached, Skipped
<1>3. Late(Told(w), M, c, 0) = {} /\ w.ids \intersect w.seen = {}
  BY <1>1 DEF Late, Told
<1>4. Early(Staying(w) \ Told(w), M, c, 0) = {}
  <2>1. \A o \in M : Rank(o, M, c) \in Nat
    BY RankType
  <2>2. QED
    BY <2>1 DEF Early
<1>5. Cardinality({}) = 0 /\ IsFiniteSet({})
  BY FS_EmptySet
<1>6. /\ Cardinality(w.ids \intersect w.seen) = 0
      /\ Cardinality(Late(Told(w), M, c, Reached(w))) = 0
      /\ Cardinality(Early(Staying(w) \ Told(w), M, c, Reached(w))) = 0
  BY <1>2, <1>3, <1>4, <1>5
<1>7. Staying(w) \subseteq M
  BY <1>1 DEF Staying
<1>8. /\ w.repeats + Cardinality(w.ids \intersect w.seen)
           + Cardinality(Late(Told(w), M, c, Reached(w))) <= w.arrivals
      /\ Cardinality(Early(Staying(w) \ Told(w), M, c, Reached(w))) <= w.departures
  BY <1>1, <1>6
<1>9. IsFiniteSet(w.ids) /\ w.page \in Nat \ {0}
  BY <1>1, <1>5
<1>10. QED
  BY <1>1, <1>7, <1>8, <1>9 DEF WalkOK

\* The rows of the next page are not behind it, and those of them that were
\* shown before were late.
LEMMA PageTurns ==
  ASSUME NEW M, NEW c, IsFiniteSet(M), NEW h \in Nat, NEW k \in Nat, h <= k,
         NEW P \in SUBSET M, \A o \in M : o \in P <=> Rank(o, M, c) >= h /\ Rank(o, M, c) < k,
         NEW T, NEW U
  PROVE  /\ Cardinality(P \intersect T) + Cardinality(Late(T \union P, M, c, k))
              <= Cardinality(Late(T, M, c, h))
         /\ Cardinality(Early(U \ (T \union P), M, c, k)) <= Cardinality(Early(U \ T, M, c, h))
<1>0. \A o \in M : Rank(o, M, c) \in Nat
  BY RankType
<1> DEFINE A == P \intersect T
           B == Late(T \union P, M, c, k)
           L == Late(T, M, c, h)
<1>1. A \union B \subseteq L /\ A \intersect B = {}
  BY <1>0 DEF Late
<1>2. IsFiniteSet(A) /\ IsFiniteSet(B) /\ IsFiniteSet(L)
  <2>1. IsFiniteSet(B) /\ IsFiniteSet(L)
    BY RanksFinite
  <2>2. A \subseteq M
    OBVIOUS
  <2>3. QED
    BY <2>1, <2>2, FS_Subset
<1> HIDE DEF A, B, L
<1>3. Cardinality(A \union B) = Cardinality(A) + Cardinality(B)
  BY <1>1, <1>2, CountApart
<1>4. Cardinality(A) + Cardinality(B) <= Cardinality(L)
  BY <1>1, <1>2, <1>3, FS_Subset
<1>5. Early(U \ (T \union P), M, c, k) \subseteq Early(U \ T, M, c, h)
  BY <1>0 DEF Early
<1>6. Cardinality(Early(U \ (T \union P), M, c, k)) <= Cardinality(Early(U \ T, M, c, h))
  BY <1>5, RanksFinite, FS_Subset
<1>7. QED
  BY <1>4, <1>6 DEF A, B, L

LEMMA WalkReadsIds ==
  ASSUME NEW M, NEW c, Distinct(M, c), NEW w, WalkOK(w, M, c), w.pc = "ids",
         NEW s \in SetToSeqs(M), Descending(s, c),
         NEW v, v = [w EXCEPT !.pc = "rows", !.ids = ToSet(Page(s, w.page))]
  PROVE  WalkOK(v, M, c)
<1> DEFINE P == ToSet(Page(s, w.page))
           h == Skipped(w.page)
           k == Skipped(w.page + 1)
<1>1. /\ DOMAIN w = DOMAIN NoWalk /\ w.page \in Nat \ {0} /\ w.ids = {}
  BY DEF WalkOK
<1>2. /\ DOMAIN v = DOMAIN NoWalk /\ v.pc = "rows" /\ v.page = w.page /\ v.ids = P /\ v.seen = w.seen
      /\ v.start = w.start /\ v.departed = w.departed
      /\ v.repeats = w.repeats /\ v.arrivals = w.arrivals /\ v.departures = w.departures
  BY <1>1 DEF NoWalk
<1>3. P \in SUBSET M /\ \A o \in M : o \in P <=> Rank(o, M, c) >= h /\ Rank(o, M, c) < k
  BY <1>1, PageOfList
<1>4. IsFiniteSet(M) /\ h \in Nat /\ k \in Nat /\ h <= k
  BY <1>1, SkippedType DEF Distinct
<1>5. IsFiniteSet(P)
  BY <1>3, <1>4, FS_Subset
<1>6. Reached(w) = h /\ Reached(v) = k /\ Told(w) = w.seen /\ Told(v) = w.seen \union P
      /\ Staying(v) = Staying(w)
  BY <1>1, <1>2 DEF Reached, Told, Staying
<1> HIDE DEF P, h, k
<1>7. /\ Cardinality(P \intersect w.seen) + Cardinality(Late(w.seen \union P, M, c, k))
           <= Cardinality(Late(w.seen, M, c, h))
      /\ Cardinality(Early(Staying(w) \ (w.seen \union P), M, c, k))
           <= Cardinality(Early(Staying(w) \ w.seen, M, c, h))
  BY <1>3, <1>4, PageTurns
<1>8. /\ w.repeats \in Nat /\ w.arrivals \in Nat /\ w.departures \in Nat
      /\ w.repeats + Cardinality(Late(w.seen, M, c, h)) <= w.arrivals
      /\ Cardinality(Early(Staying(w) \ w.seen, M, c, h)) <= w.departures
      /\ Staying(w) \subseteq M
  <2>1. Cardinality(w.ids \intersect w.seen) = 0
    <3>1. w.ids \intersect w.seen = {}
      BY <1>1
    <3>2. QED
      BY <3>1, FS_EmptySet
  <2>2. Cardinality(Late(w.seen, M, c, h)) \in Nat
    BY <1>4, RanksFinite
  <2>3. /\ w.repeats \in Nat /\ w.arrivals \in Nat /\ w.departures \in Nat
        /\ w.repeats + Cardinality(w.ids \intersect w.seen)
             + Cardinality(Late(w.seen, M, c, h)) <= w.arrivals
        /\ Cardinality(Early(Staying(w) \ w.seen, M, c, h)) <= w.departures
        /\ Staying(w) \subseteq M
    BY <1>6 DEF WalkOK
  <2>4. QED
    BY <2>1, <2>2, <2>3
<1>9. /\ Cardinality(P \intersect w.seen) \in Nat
      /\ Cardinality(Late(w.seen \union P, M, c, k)) \in Nat
      /\ Cardinality(Late(w.seen, M, c, h)) \in Nat
      /\ Cardinality(Early(Staying(w) \ (w.seen \union P), M, c, k)) \in Nat
      /\ Cardinality(Early(Staying(w) \ w.seen, M, c, h)) \in Nat
  BY <1>4, <1>5, RanksFinite, OverlapType
<1>10. w.repeats + Cardinality(P \intersect w.seen) + Cardinality(Late(w.seen \union P, M, c, k))
         <= w.arrivals
  BY <1>7, <1>8, <1>9
<1>11. Cardinality(Early(Staying(w) \ (w.seen \union P), M, c, k)) <= w.departures
  BY <1>7, <1>8, <1>9
<1>12. QED
  BY <1>1, <1>2, <1>5, <1>6, <1>8, <1>10, <1>11 DEF WalkOK

LEMMA PageReadsIds ==
  ASSUME NEW M, NEW c, Distinct(M, c), NEW w, WalkOK(w, M, c), PageOK(w, M), w.pc = "ids",
         NEW s \in SetToSeqs(M), Descending(s, c),
         NEW v, v = [w EXCEPT !.pc = "rows", !.ids = ToSet(Page(s, w.page))]
  PROVE  PageOK(v, M)
<1> DEFINE k == Skipped(w.page + 1)
           U == Staying(v) \ Told(v)
<1>1. WalkOK(v, M, c)
  BY WalkReadsIds
<1>2. DOMAIN w = DOMAIN NoWalk /\ w.page \in Nat \ {0} /\ w.cut = FALSE
  BY DEF WalkOK, PageOK
<1>3. v.pc = "rows" /\ v.ids = ToSet(Page(s, w.page)) /\ v.page = w.page /\ v.cut = FALSE
  BY <1>2 DEF NoWalk
<1>4. U \subseteq M /\ Reached(v) = k /\ k \in Nat
  BY <1>1, <1>2, <1>3, SkippedType DEF WalkOK, Reached
<1>5. ASSUME Cardinality(v.ids) # PageSize
      PROVE  Cardinality(U) <= v.departures
  <2>1. \A o \in M : ~(Rank(o, M, c) >= k)
    BY <1>2, <1>3, <1>5, FullPage
  <2>2. \A o \in M : Rank(o, M, c) \in Nat
    BY RankType DEF Distinct
  <2>3. \A o \in U : o \in M /\ Rank(o, M, c) < k
    BY <1>4, <2>1, <2>2
  <2>4. U = Early(U, M, c, Reached(v))
    <3> HIDE DEF U, k
    <3>1. QED
      BY <1>4, <2>3 DEF Early
  <2>5. Cardinality(Early(U, M, c, Reached(v))) <= v.departures
    BY <1>1 DEF WalkOK
  <2>6. QED
    BY <2>4, <2>5
<1>6. v.ids \subseteq M
  BY <1>2, <1>3, PageOfList
<1>7. QED
  BY <1>3, <1>5, <1>6 DEF PageOK

\* Rows that are in the list no more by the time they are read are not shown.
LEMMA WalkReadsRows ==
  ASSUME NEW M, NEW c, Distinct(M, c), NEW w, WalkOK(w, M, c), w.pc = "rows",
         NEW v, v = Show([w EXCEPT !.pc = "total", !.cut = FALSE], w.ids \intersect M)
  PROVE  WalkOK(v, M, c)
<1> DEFINE S == w.ids \intersect M
           k == Skipped(w.page + 1)
<1>1. /\ DOMAIN w = DOMAIN NoWalk /\ w.page \in Nat \ {0} /\ IsFiniteSet(w.ids)
      /\ w.repeats \in Nat /\ w.arrivals \in Nat /\ w.departures \in Nat
  BY DEF WalkOK
<1>2. /\ DOMAIN v = DOMAIN NoWalk /\ v.pc = "total" /\ v.page = w.page /\ v.ids = {}
      /\ v.seen = w.seen \union S /\ v.repeats = w.repeats + Cardinality(S \intersect w.seen)
      /\ v.start = w.start /\ v.departed = w.departed
      /\ v.arrivals = w.arrivals /\ v.departures = w.departures
  BY <1>1 DEF NoWalk, Show
<1>3. Reached(w) = k /\ Reached(v) = k /\ Staying(v) = Staying(w) /\ Staying(w) \subseteq M
  BY <1>2 DEF Reached, Staying, WalkOK
<1>4. Late(Told(v), M, c, k) = Late(Told(w), M, c, k)
  BY <1>2 DEF Late, Told
<1>5. Early(Staying(v) \ Told(v), M, c, k) = Early(Staying(w) \ Told(w), M, c, k)
  BY <1>2, <1>3 DEF Early, Told
<1>6. /\ Cardinality(S \intersect w.seen) <= Cardinality(w.ids \intersect w.seen)
      /\ Cardinality(S \intersect w.seen) \in Nat
      /\ Cardinality(w.ids \intersect w.seen) \in Nat
  <2>1. IsFiniteSet(w.ids \intersect w.seen) /\ IsFiniteSet(S)
    BY <1>1, FS_Intersection
  <2>2. S \intersect w.seen \subseteq w.ids \intersect w.seen
    OBVIOUS
  <2>3. QED
    BY <1>1, <2>1, <2>2, FS_Subset, OverlapType
<1> HIDE DEF S, k
<1>7. /\ Cardinality(Late(Told(w), M, c, k)) \in Nat
      /\ w.repeats + Cardinality(w.ids \intersect w.seen) + Cardinality(Late(Told(w), M, c, k))
           <= w.arrivals
      /\ Cardinality(Early(Staying(w) \ Told(w), M, c, k)) <= w.departures
  BY <1>3, RanksFinite DEF WalkOK, Distinct
<1>8. Cardinality(v.ids \intersect v.seen) = 0
  <2>1. v.ids \intersect v.seen = {}
    BY <1>2
  <2>2. QED
    BY <2>1, FS_EmptySet
<1>9. v.repeats \in Nat /\ v.repeats + 0 + Cardinality(Late(Told(w), M, c, k)) <= v.arrivals
  BY <1>1, <1>2, <1>6, <1>7
<1>10. IsFiniteSet(v.ids)
  BY <1>2, FS_EmptySet
<1>11. /\ v.repeats + Cardinality(v.ids \intersect v.seen)
            + Cardinality(Late(Told(v), M, c, Reached(v))) <= v.arrivals
       /\ Cardinality(Early(Staying(v) \ Told(v), M, c, Reached(v))) <= v.departures
  BY <1>2, <1>3, <1>4, <1>5, <1>7, <1>8, <1>9
<1>12. QED
  BY <1>1, <1>2, <1>3, <1>9, <1>10, <1>11 DEF WalkOK

LEMMA WalkGoesOn ==
  ASSUME NEW M, NEW c, NEW w, WalkOK(w, M, c), w.pc = "total",
         NEW v, v = [w EXCEPT !.pc = "ids", !.page = w.page + 1]
  PROVE  WalkOK(v, M, c)
<1>1. DOMAIN w = DOMAIN NoWalk /\ w.page \in Nat \ {0}
  BY DEF WalkOK
<1>2. /\ DOMAIN v = DOMAIN NoWalk /\ v.pc = "ids" /\ v.page = w.page + 1 /\ v.ids = w.ids
      /\ v.seen = w.seen /\ v.start = w.start /\ v.departed = w.departed
      /\ v.repeats = w.repeats /\ v.arrivals = w.arrivals /\ v.departures = w.departures
  BY <1>1 DEF NoWalk
<1>3. Reached(v) = Reached(w) /\ Told(v) = Told(w) /\ Staying(v) = Staying(w)
  BY <1>2 DEF Reached, Told, Staying
<1>4. v.page \in Nat \ {0}
  BY <1>1, <1>2
<1>5. QED
  BY <1>2, <1>3, <1>4 DEF WalkOK

\* Behind the last page there is no row.
LEMMA WalkEnds ==
  ASSUME NEW M, NEW c, Distinct(M, c), NEW w, WalkOK(w, M, c), w.pc = "total",
         w.page >= TotalPages(Cardinality(M))
  PROVE  Cardinality(w.start \ (w.departed \union w.seen)) <= w.departures
<1> DEFINE n == Cardinality(M)
           k == Skipped(w.page + 1)
           U == w.start \ (w.departed \union w.seen)
<1>1. w.page \in Nat \ {0} /\ n \in Nat /\ PageSize \in Nat \ {0}
  BY ReportsAssumption, FS_CardinalityType DEF WalkOK, Distinct
<1>2. k = w.page * PageSize
  BY <1>1, SkippedType
<1> HIDE DEF n, k
<1>3. n <= k
  <2> DEFINE q == TotalPages(n)
  <2>1. q \in Int /\ n + PageSize - 1 < PageSize * (q + 1)
    <3>1. n + PageSize - 1 \in Int
      BY <1>1
    <3>2. QED
      BY <1>1, <3>1 DEF TotalPages
  <2>2. w.page >= q
    BY DEF n
  <2> HIDE DEF q
  <2>3. PageSize * (q + 1) = q * PageSize + PageSize
    BY <1>1, <2>1
  <2>4. n <= q * PageSize
    <3>1. q * PageSize \in Int
      BY <1>1, <2>1
    <3> DEFINE r == q * PageSize
    <3> HIDE DEF r
    <3>2. r \in Int /\ n + PageSize - 1 < r + PageSize
      BY <2>1, <2>3, <3>1 DEF r
    <3>3. n <= r
      BY <1>1, <3>2
    <3>4. QED
      BY <3>3 DEF r
  <2>5. q * PageSize <= w.page * PageSize
    <3>1. w.page * PageSize = q * PageSize + (w.page - q) * PageSize
      BY <1>1, <2>1
    <3>2. w.page - q \in Nat
      BY <1>1, <2>1, <2>2
    <3> DEFINE d == w.page - q
    <3>3. (w.page - q) * PageSize \in Nat
      <4>1. d \in Nat
        BY <3>2
      <4> HIDE DEF d
      <4>2. d * PageSize \in Nat
        BY <1>1, <4>1
      <4>3. QED
        BY <4>2 DEF d
    <3>4. q * PageSize \in Int
      BY <1>1, <2>1
    <3>5. QED
      BY <3>1, <3>3, <3>4
  <2>6. q * PageSize \in Int /\ w.page * PageSize \in Int
    BY <1>1, <2>1
  <2>7. QED
    BY <1>1, <1>2, <2>4, <2>5, <2>6
<1>4. Early(Staying(w) \ Told(w), M, c, Reached(w)) = U
  <2>1. U = Staying(w) \ Told(w) /\ Reached(w) = k /\ U \subseteq M
    BY DEF WalkOK, Told, Staying, Reached, k
  <2>2. ASSUME NEW o \in U
        PROVE  o \in M /\ Rank(o, M, c) < k
    <3>1. o \in M /\ Rank(o, M, c) \in Nat
      BY <2>1, RankType DEF Distinct
    <3>2. Rank(o, M, c) < n
      BY <3>1, RankWithin DEF n
    <3>3. k \in Nat
      BY <1>1, SkippedType DEF k
    <3>4. QED
      BY <1>1, <1>3, <3>1, <3>2, <3>3
  <2>3. QED
    BY <2>1, <2>2 DEF Early
<1>5. QED
  BY <1>4 DEF WalkOK

\* The stamps matter only for the rows of the list.
LEMMA StampsOfList ==
  ASSUME NEW M, NEW c, NEW d, \A x \in M : c[x] = d[x], NEW w, WalkOK(w, M, c)
  PROVE  WalkOK(w, M, d)
<1>1. \A o \in M : Rank(o, M, c) = Rank(o, M, d)
  BY DEF Rank, Newer
<1>2. \A T, k : Late(T, M, c, k) = Late(T, M, d, k) /\ Early(T, M, c, k) = Early(T, M, d, k)
  BY <1>1 DEF Late, Early
<1>3. QED
  BY <1>2 DEF WalkOK

\* A row comes, goes or neither while the walk is under way.
LEMMA WalkMeetsWrite ==
  ASSUME NEW M, NEW N, NEW c, Distinct(M \union N, c), NEW w, WalkOK(w, M, c),
         NEW a, \A x : x # a => (x \in N <=> x \in M),
         NEW v, v = [w EXCEPT !.departed = w.departed \union (M \ N),
                              !.departures = w.departures + Cardinality(M \ N),
                              !.arrivals = w.arrivals + Cardinality(N \ M)]
  PROVE  WalkOK(v, N, c)
<1> DEFINE k == Reached(w)
           T == Told(w)
<1>1. /\ DOMAIN w = DOMAIN NoWalk /\ w.page \in Nat \ {0} /\ IsFiniteSet(w.ids)
      /\ w.repeats \in Nat /\ w.arrivals \in Nat /\ w.departures \in Nat
      /\ w.pc # "rows" => w.ids = {}
      /\ Staying(w) \subseteq M /\ k \in Nat
  BY ReachedType DEF WalkOK
<1>2. /\ DOMAIN v = DOMAIN NoWalk /\ v.pc = w.pc /\ v.page = w.page /\ v.ids = w.ids
      /\ v.seen = w.seen /\ v.start = w.start /\ v.departed = w.departed \union (M \ N)
      /\ v.repeats = w.repeats /\ v.departures = w.departures + Cardinality(M \ N)
      /\ v.arrivals = w.arrivals + Cardinality(N \ M)
  BY <1>1 DEF NoWalk
<1>3. Reached(v) = k /\ Told(v) = T /\ Staying(v) = Staying(w) \ (M \ N)
  BY <1>2 DEF Reached, Told, Staying
<1>4. Distinct(M, c) /\ Distinct(N, c)
  BY FS_Subset DEF Distinct
<1> DEFINE R == Cardinality(w.ids \intersect w.seen)
           L == Cardinality(Late(T, M, c, k))
           E == Cardinality(Early(Staying(w) \ T, M, c, k))
           LN == Cardinality(Late(T, N, c, k))
           EN == Cardinality(Early(Staying(v) \ T, N, c, k))
<1>5. /\ R \in Nat /\ L \in Nat /\ E \in Nat /\ LN \in Nat /\ EN \in Nat
      /\ w.repeats + R + L <= w.arrivals
      /\ E <= w.departures
  BY <1>1, <1>4, OverlapType, RanksFinite DEF WalkOK, Distinct
<1>6. Staying(v) \subseteq N
  BY <1>1, <1>3
<1>7. SUFFICES /\ Cardinality(M \ N) \in Nat /\ Cardinality(N \ M) \in Nat
               /\ LN <= L + Cardinality(N \ M)
               /\ EN <= E + Cardinality(M \ N)
  <2> HIDE DEF R, L, E, LN, EN
  <2>1. /\ v.arrivals \in Nat /\ v.departures \in Nat /\ v.repeats \in Nat
        /\ v.repeats + R + LN <= v.arrivals
        /\ EN <= v.departures
    BY <1>1, <1>2, <1>5, <1>7
  <2>2. /\ v.repeats + Cardinality(v.ids \intersect v.seen)
             + Cardinality(Late(Told(v), N, c, Reached(v))) <= v.arrivals
        /\ Cardinality(Early(Staying(v) \ Told(v), N, c, Reached(v))) <= v.departures
    BY <1>2, <1>3, <2>1 DEF R, LN, EN
  <2>3. QED
    BY <1>1, <1>2, <1>6, <2>1, <2>2 DEF WalkOK
<1>8. CASE a \in N \ M
  <2>1. N = M \union {a} /\ M \ N = {} /\ N \ M = {a}
    BY <1>8
  <2>2. Cardinality(M \ N) = 0 /\ Cardinality(N \ M) = 1
    BY <2>1, FS_EmptySet, FS_Singleton
  <2>3. Distinct(M \union {a}, c) /\ a \notin M
    BY <1>4, <1>8, <2>1
  <2>4. LN <= L + 1
    <3>1. Cardinality(Late(T, M \union {a}, c, k)) <= Cardinality(Late(T, M, c, k)) + 1
      BY <1>1, <2>3, LateComes
    <3>2. QED
      BY <2>1, <3>1
  <2>5. EN <= E
    <3>1. Staying(v) = Staying(w) /\ Staying(w) \ T \in SUBSET M
      BY <1>1, <1>3, <2>1
    <3>2. Cardinality(Early(Staying(w) \ T, M \union {a}, c, k))
            <= Cardinality(Early(Staying(w) \ T, M, c, k))
      BY <1>1, <2>3, <3>1, EarlyComes
    <3>3. QED
      BY <2>1, <3>1, <3>2
  <2> HIDE DEF L, E, LN, EN
  <2>6. QED
    BY <1>5, <2>2, <2>4, <2>5
<1>9. CASE a \in M \ N
  <2>1. N = M \ {a} /\ M \ N = {a} /\ N \ M = {}
    BY <1>9
  <2>2. Cardinality(M \ N) = 1 /\ Cardinality(N \ M) = 0
    BY <2>1, FS_EmptySet, FS_Singleton
  <2>3. LN <= L
    <3>1. Cardinality(Late(T, M \ {a}, c, k)) <= Cardinality(Late(T, M, c, k))
      BY <1>1, <1>4, <1>9, LateGoes
    <3>2. QED
      BY <2>1, <3>1
  <2>4. EN <= E + 1
    <3>1. Staying(v) \ T = (Staying(w) \ T) \ {a}
      BY <1>3, <2>1
    <3>2. Cardinality(Early((Staying(w) \ T) \ {a}, M \ {a}, c, k))
            <= Cardinality(Early(Staying(w) \ T, M, c, k)) + 1
      BY <1>1, <1>4, <1>9, EarlyGoes
    <3>3. QED
      BY <2>1, <3>1, <3>2
  <2> HIDE DEF L, E, LN, EN
  <2>5. QED
    BY <1>5, <2>2, <2>3, <2>4
<1>10. CASE a \notin N \ M /\ a \notin M \ N
  <2>1. N = M /\ M \ N = {} /\ N \ M = {}
    BY <1>10
  <2>2. Cardinality(M \ N) = 0 /\ Cardinality(N \ M) = 0
    BY <2>1, FS_EmptySet
  <2>3. Staying(v) = Staying(w)
    BY <1>3, <2>1
  <2>4. LN = L /\ EN = E
    BY <2>1, <2>3
  <2> HIDE DEF L, E, LN, EN
  <2>5. QED
    BY <1>5, <2>2, <2>4
<1>11. QED
  BY <1>8, <1>9, <1>10

LEMMA PageMeetsWrite ==
  ASSUME NEW M, NEW N, IsFiniteSet(M), NEW w, PageOK(w, M), DOMAIN w = DOMAIN NoWalk,
         Staying(w) \subseteq M, w.departures \in Nat, Cardinality(M \ N) \in Nat,
         NEW v, v = [w EXCEPT !.departed = w.departed \union (M \ N),
                              !.departures = w.departures + Cardinality(M \ N),
                              !.arrivals = w.arrivals + Cardinality(N \ M)]
  PROVE  PageOK(v, N)
<1>1. /\ v.pc = w.pc /\ v.ids = w.ids /\ v.cut = w.cut /\ v.seen = w.seen /\ v.start = w.start
      /\ v.departed = w.departed \union (M \ N)
      /\ v.departures = w.departures + Cardinality(M \ N)
  BY DEF NoWalk
<1> DEFINE U == Staying(w) \ Told(w)
           V == Staying(v) \ Told(v)
<1>2. V \subseteq U /\ U \subseteq M
  BY <1>1 DEF Staying, Told
<1>3. Cardinality(V) <= Cardinality(U) /\ Cardinality(V) \in Nat /\ Cardinality(U) \in Nat
  <2> HIDE DEF U, V
  <2>1. IsFiniteSet(U) /\ IsFiniteSet(V)
    BY <1>2, FS_Subset
  <2>2. QED
    BY <1>2, <2>1, FS_Subset, FS_CardinalityType
<1>4. ASSUME w.pc = "rows"
      PROVE  v.ids \ N \subseteq v.departed
  BY <1>1, <1>4 DEF PageOK
<1>5. ASSUME w.pc = "rows", Cardinality(w.ids) # PageSize
      PROVE  Cardinality(V) <= v.departures
  <2>1. Cardinality(U) <= w.departures
    BY <1>5 DEF PageOK
  <2> HIDE DEF U, V
  <2>2. QED
    BY <1>1, <1>3, <2>1
<1>6. v.cut = FALSE
  BY <1>1 DEF PageOK
<1>7. QED
  BY <1>1, <1>4, <1>5, <1>6 DEF PageOK

\* Its rows once read, a page that was short leaves behind what was drawn to
\* earlier ones, and a full one that became short has lost a row.
LEMMA PageEnds ==
  ASSUME NEW M, NEW w, PageOK(w, M), w.pc = "rows", Staying(w) \subseteq M,
         NEW n, n = Cardinality(w.ids \intersect M)
  PROVE  /\ Cardinality(w.ids) # PageSize =>
              Cardinality(w.start \ (w.departed \union (w.seen \union (w.ids \intersect M))))
                <= w.departures
         /\ Cardinality(w.ids) = PageSize /\ n # PageSize => w.departed # {}
<1>1. w.start \ (w.departed \union (w.seen \union (w.ids \intersect M))) = Staying(w) \ Told(w)
  BY DEF Staying, Told
<1>2. ASSUME Cardinality(w.ids) = PageSize, n # PageSize
      PROVE  w.departed # {}
  <2>1. w.ids \intersect M # w.ids
    BY <1>2
  <2>2. QED
    BY <2>1 DEF PageOK
<1>3. QED
  BY <1>1, <1>2 DEF PageOK

----------------------------------------------------------------------------
(***************************************************************************)
(* Lists of the tables.                                                    *)
(***************************************************************************)

Dated(l) == l.of \in OrderList \union InvoiceList

CreatedAt(l) ==
  IF l.of \in OrderList THEN [o \in DOMAIN orders |-> orders[o].createdAt]
  ELSE [i \in DOMAIN invoices |-> invoices[i].createdAt]

LEMMA StampsApart ==
  ASSUME NEW T, NEW rows \in Seq(T), Stamped(rows), \A i \in DOMAIN rows : rows[i].createdAt \in Int
  PROVE  Distinct(DOMAIN rows, [i \in DOMAIN rows |-> rows[i].createdAt])
<1>1. IsFiniteSet(DOMAIN rows)
  <2>1. DOMAIN rows = 1 .. Len(rows) /\ Len(rows) \in Nat
    OBVIOUS
  <2>2. QED
    BY <2>1, CountUpTo
<1>2. QED
  BY <1>1 DEF Distinct, Stamped

\* The rows of a list are rows of its table, and their stamps differ.
ListsOfTables ==
  \A l : Dated(l) => /\ Matching(l) \subseteq DOMAIN CreatedAt(l)
                     /\ Distinct(DOMAIN CreatedAt(l), CreatedAt(l))

LEMMA ListRows == TablesInv => ListsOfTables
<1> SUFFICES ASSUME TablesInv, NEW l, Dated(l)
             PROVE  /\ Matching(l) \subseteq DOMAIN CreatedAt(l)
                    /\ Distinct(DOMAIN CreatedAt(l), CreatedAt(l))
  BY DEF ListsOfTables
<1>1. /\ Distinct(DOMAIN orders, [o \in DOMAIN orders |-> orders[o].createdAt])
      /\ Distinct(DOMAIN invoices, [i \in DOMAIN invoices |-> invoices[i].createdAt])
  <2>1. /\ orders \in Seq(OrderRow) /\ \A o \in DOMAIN orders : orders[o].createdAt \in Int
        /\ invoices \in Seq(InvoiceRow) /\ \A i \in DOMAIN invoices : invoices[i].createdAt \in Int
    <3>1. orders \in Seq(OrderRow) /\ invoices \in Seq(InvoiceRow)
      BY DEF TablesInv, TablesOK
    <3>2. ASSUME NEW o \in DOMAIN orders
          PROVE  orders[o].createdAt \in Int
      <4>1. orders[o] \in OrderRow
        BY <3>1
      <4>2. QED
        BY <4>1 DEF OrderRow
    <3>3. ASSUME NEW i \in DOMAIN invoices
          PROVE  invoices[i].createdAt \in Int
      <4>1. invoices[i] \in InvoiceRow
        BY <3>1
      <4>2. QED
        BY <4>1 DEF InvoiceRow
    <3>4. QED
      BY <3>1, <3>2, <3>3
  <2>2. QED
    BY <2>1, StampsApart DEF TablesInv
<1>2. CASE l.of \in OrderList
  <2>1. CreatedAt(l) = [o \in DOMAIN orders |-> orders[o].createdAt]
    BY <1>2 DEF CreatedAt
  <2>2. Matching(l) \subseteq DOMAIN orders
    BY <1>2 DEF OrderList, Matching, getOrders, getCustomerOrders, searchOrders
  <2>3. QED
    BY <1>1, <2>1, <2>2
<1>3. CASE l.of \in InvoiceList
  <2>1. CreatedAt(l) = [i \in DOMAIN invoices |-> invoices[i].createdAt]
    BY <1>3 DEF CreatedAt, OrderList, InvoiceList
  <2>2. Matching(l) \subseteq DOMAIN invoices
    BY <1>3 DEF InvoiceList, Matching, getInvoices, getCustomerInvoices
  <2>3. QED
    BY <1>1, <2>1, <2>2
<1>4. QED
  BY <1>2, <1>3 DEF Dated

LEMMA ListDistinct ==
  ASSUME TablesInv, NEW l, Dated(l)
  PROVE  Distinct(Matching(l), CreatedAt(l))
BY ListRows, FS_Subset DEF Distinct, ListsOfTables

LEMMA ListSorted ==
  ASSUME TablesInv, NEW l, Dated(l), NEW s \in Listed(l)
  PROVE  s \in SetToSeqs(Matching(l)) /\ Descending(s, CreatedAt(l))
<1> DEFINE M == Matching(l)
           c == CreatedAt(l)
<1>1. /\ IsFiniteSet(M) /\ M \subseteq DOMAIN c
  BY ListDistinct, ListRows DEF Distinct, ListsOfTables
<1>2. /\ s \in SetToSeqs(M)
      /\ \/ /\ l.of \in OrderList
            /\ \A j \in 1 .. Len(s) - 1 : ~(orders[s[j + 1]].createdAt > orders[s[j]].createdAt)
         \/ /\ l.of \in InvoiceList /\ l.of \notin OrderList
            /\ \A j \in 1 .. Len(s) - 1 : ~(invoices[s[j + 1]].createdAt > invoices[s[j]].createdAt)
  <2>1. CASE l.of \in OrderList
    <3>1. l.of \notin InvoiceList
      BY <2>1 DEF OrderList, InvoiceList
    <3>2. s \in Sorted(M, LAMBDA o : orders[o].createdAt, Newest)
      BY <2>1, <3>1 DEF Listed
    <3>3. QED
      BY <2>1, <3>2 DEF Sorted, Newest
  <2>2. CASE l.of \in InvoiceList
    <3>1. l.of \notin OrderList
      BY <2>2 DEF OrderList, InvoiceList
    <3>2. s \in Sorted(M, LAMBDA i : invoices[i].createdAt, Newest)
      BY <2>2, <3>1 DEF Listed
    <3>3. QED
      BY <2>2, <3>1, <3>2 DEF Sorted, Newest
  <2>3. QED
    BY <2>1, <2>2 DEF Dated
<1>3. s \in Seq(M)
  BY <1>1, <1>2, SortedEntries
<1>4. \A j \in 1 .. Len(s) - 1 : s[j] \in DOMAIN c /\ s[j + 1] \in DOMAIN c
  <2> SUFFICES ASSUME NEW j \in 1 .. Len(s) - 1
               PROVE  s[j] \in DOMAIN c /\ s[j + 1] \in DOMAIN c
    OBVIOUS
  <2>1. j \in 1 .. Len(s) /\ j + 1 \in 1 .. Len(s)
    BY <1>3
  <2>2. QED
    BY <1>1, <1>3, <2>1
<1> HIDE DEF M
<1>5. QED
  BY <1>2, <1>4 DEF Descending, CreatedAt, M

\* A write changes one row, and never its stamp.
OneRow(a, rows, new) ==
  /\ DOMAIN rows \subseteq DOMAIN new
  /\ DOMAIN new \subseteq DOMAIN rows \union {a}
  /\ \A i \in DOMAIN rows : /\ new[i].createdAt = rows[i].createdAt
                            /\ i # a => new[i] = rows[i]

LEMMA OneOrder ==
  ASSUME TablesInv, Written
  PROVE  \E a : OneRow(a, orders, orders')
<1>0. orders \in Seq(OrderRow) /\ DOMAIN orders = 1 .. Len(orders) /\ Len(orders) \in Nat
  BY DEF TablesInv, TablesOK
<1>1. CASE SaveOrder
  <2>1. PICK row : orders' = Append(orders, row)
    BY <1>1 DEF SaveOrder
  <2>2. DOMAIN orders' = 1 .. Len(orders) + 1 /\ \A i \in 1 .. Len(orders) : orders'[i] = orders[i]
    BY <1>0, <2>1
  <2>3. OneRow(Len(orders) + 1, orders, orders')
    BY <1>0, <2>2 DEF OneRow
  <2>4. QED
    BY <2>3
<1>2. CASE UpdateOrderStatus
  <2>1. PICK o \in DOMAIN orders, s \in OrderStatus :
          orders' = [orders EXCEPT ![o].status = s, ![o].updatedAt = Now]
    BY <1>2 DEF UpdateOrderStatus
  <2>2. orders[o] \in OrderRow
    BY <1>0, <2>1
  <2>3. orders'[o].createdAt = orders[o].createdAt
    BY <2>1, <2>2 DEF OrderRow
  <2>4. OneRow(o, orders, orders')
    BY <2>1, <2>3 DEF OneRow
  <2>5. QED
    BY <2>4
<1>3. CASE UNCHANGED orders
  BY <1>3 DEF OneRow
<1>4. QED
  BY <1>1, <1>2, <1>3 DEF Written, SaveInvoice, UpdateInvoicePayment, UpdateInvoiceStatus,
     UpdateProduct, CreateCustomer, DeleteCustomer

LEMMA OneInvoice ==
  ASSUME TablesInv, Written
  PROVE  \E a : OneRow(a, invoices, invoices')
<1>0. /\ invoices \in Seq(InvoiceRow) /\ DOMAIN invoices = 1 .. Len(invoices)
      /\ Len(invoices) \in Nat
  BY DEF TablesInv, TablesOK
<1>1. CASE SaveInvoice
  <2>1. PICK row : invoices' = Append(invoices, row)
    BY <1>1 DEF SaveInvoice
  <2>2. /\ DOMAIN invoices' = 1 .. Len(invoices) + 1
        /\ \A i \in 1 .. Len(invoices) : invoices'[i] = invoices[i]
    BY <1>0, <2>1
  <2>3. OneRow(Len(invoices) + 1, invoices, invoices')
    BY <1>0, <2>2 DEF OneRow
  <2>4. QED
    BY <2>3
<1>2. ASSUME NEW i \in DOMAIN invoices, NEW paid, NEW s,
             \/ invoices' = [invoices EXCEPT ![i].amountPaid = paid, ![i].status = s]
             \/ invoices' = [invoices EXCEPT ![i].status = s]
      PROVE  \E a : OneRow(a, invoices, invoices')
  <2>1. invoices[i] \in InvoiceRow
    BY <1>0
  <2>2. invoices'[i].createdAt = invoices[i].createdAt
    BY <1>2, <2>1 DEF InvoiceRow
  <2>3. OneRow(i, invoices, invoices')
    BY <1>2, <2>2 DEF OneRow
  <2>4. QED
    BY <2>3
<1>3. CASE UpdateInvoicePayment
  <2>1. \E i \in DOMAIN invoices : \E paid, s :
          invoices' = [invoices EXCEPT ![i].amountPaid = paid, ![i].status = s]
    BY <1>3 DEF UpdateInvoicePayment
  <2>2. QED
    BY <1>2, <2>1
<1>4. CASE UpdateInvoiceStatus
  <2>1. \E i \in DOMAIN invoices : \E s : invoices' = [invoices EXCEPT ![i].status = s]
    BY <1>4 DEF UpdateInvoiceStatus
  <2>2. QED
    BY <1>2, <2>1
<1>5. CASE UNCHANGED invoices
  BY <1>5 DEF OneRow
<1>6. QED
  BY <1>1, <1>3, <1>4, <1>5 DEF Written, SaveOrder, UpdateOrderStatus,
     UpdateProduct, CreateCustomer, DeleteCustomer

\* So at most one row comes into a list or leaves it.
LEMMA ListWritten ==
  ASSUME TablesInv, Written, NEW l, Dated(l)
  PROVE  /\ \E a : \A x : x # a => (x \in Matching(l)' <=> x \in Matching(l))
         /\ \A x \in DOMAIN CreatedAt(l) : x \in DOMAIN CreatedAt(l)' /\ CreatedAt(l)'[x] = CreatedAt(l)[x]
<1>1. CASE l.of \in OrderList
  <2>1. PICK a : OneRow(a, orders, orders')
    BY OneOrder
  <2>2. ASSUME NEW x, x # a
        PROVE  x \in Matching(l)' <=> x \in Matching(l)
    <3>1. x \in DOMAIN orders' <=> x \in DOMAIN orders
      BY <2>1, <2>2 DEF OneRow
    <3>2. x \in DOMAIN orders => orders'[x] = orders[x]
      BY <2>1, <2>2 DEF OneRow
    <3>3. CASE l.of = "getOrders"
      BY <3>1, <3>2, <3>3 DEF Matching, getOrders
    <3>4. CASE l.of = "getCustomerOrders"
      BY <3>1, <3>2, <3>4 DEF Matching, getCustomerOrders
    <3>5. CASE l.of = "searchOrders"
      BY <3>1, <3>2, <3>5 DEF Matching, searchOrders, Within, Given
    <3>6. QED
      BY <1>1, <3>3, <3>4, <3>5 DEF OrderList
  <2>3. \A x \in DOMAIN CreatedAt(l) : x \in DOMAIN CreatedAt(l)' /\ CreatedAt(l)'[x] = CreatedAt(l)[x]
    BY <1>1, <2>1 DEF CreatedAt, OneRow
  <2>4. QED
    BY <2>2, <2>3
<1>2. CASE l.of \in InvoiceList
  <2>0. l.of \notin OrderList
    BY <1>2 DEF OrderList, InvoiceList
  <2>1. PICK a : OneRow(a, invoices, invoices')
    BY OneInvoice
  <2>2. ASSUME NEW x, x # a
        PROVE  x \in Matching(l)' <=> x \in Matching(l)
    <3>1. x \in DOMAIN invoices' <=> x \in DOMAIN invoices
      BY <2>1, <2>2 DEF OneRow
    <3>2. x \in DOMAIN invoices => invoices'[x] = invoices[x]
      BY <2>1, <2>2 DEF OneRow
    <3>3. CASE l.of = "getInvoices"
      BY <3>1, <3>2, <3>3 DEF Matching, getInvoices
    <3>4. CASE l.of = "getCustomerInvoices"
      BY <3>1, <3>2, <3>4 DEF Matching, getCustomerInvoices
    <3>5. QED
      BY <1>2, <3>3, <3>4 DEF InvoiceList
  <2>3. \A x \in DOMAIN CreatedAt(l) : x \in DOMAIN CreatedAt(l)' /\ CreatedAt(l)'[x] = CreatedAt(l)[x]
    BY <2>0, <2>1 DEF CreatedAt, OneRow
  <2>4. QED
    BY <2>2, <2>3
<1>3. QED
  BY <1>1, <1>2 DEF Dated

----------------------------------------------------------------------------
(***************************************************************************)
(* Walks.                                                                  *)
(***************************************************************************)

Walking == walk.pc \in {"ids", "rows", "total"} /\ walk.list.of \notin UnorderedList

PagesInv ==
  /\ TablesInv
  /\ workload \in Workloads
  /\ WalkShape
  /\ walk.pc # "idle" => walk.list \in workload.lists
  /\ walk.pc = "idle" => walk.list = None
  /\ Walking => /\ WalkOK(walk, Matching(walk.list), CreatedAt(walk.list))
                /\ PageOK(walk, Matching(walk.list))
  /\ PagesMissOnlyWhatLeft
  /\ PagesRepeatOnlyForArrivals

LEMMA ListDated ==
  ASSUME workload \in Workloads, NEW l \in workload.lists, l.of \notin UnorderedList
  PROVE  Dated(l)
BY ReportsAssumption DEF Dated

LEMMA PagesStay ==
  ASSUME PagesInv, TablesInv', UNCHANGED <<workload, walk>>, Walking => UNCHANGED tables
  PROVE  PagesInv'
<1>1. /\ WalkShape' /\ workload' \in Workloads
      /\ walk'.pc # "idle" => walk'.list \in workload'.lists
      /\ walk'.pc = "idle" => walk'.list = None
  BY DEF PagesInv, WalkShape
<1>2. PagesMissOnlyWhatLeft' /\ PagesRepeatOnlyForArrivals'
  BY DEF PagesInv, PagesMissOnlyWhatLeft, PagesRepeatOnlyForArrivals
<1>3. ASSUME Walking
      PROVE  WalkOK(walk, Matching(walk.list), CreatedAt(walk.list))'
             /\ PageOK(walk, Matching(walk.list))'
  <2>1. WalkOK(walk, Matching(walk.list), CreatedAt(walk.list)) /\ PageOK(walk, Matching(walk.list))
    BY <1>3 DEF PagesInv
  <2>2. UNCHANGED <<orders, invoices, members>>
    BY <1>3 DEF tables
  <2>3. Matching(walk.list)' = Matching(walk.list) /\ CreatedAt(walk.list)' = CreatedAt(walk.list)
    BY <2>2 DEF Matching, getOrders, getCustomerOrders, searchOrders, getInvoices,
       getCustomerInvoices, searchProductsAndServices, Within, Given, CreatedAt
  <2>4. QED
    BY <2>1, <2>3
<1>4. QED
  BY <1>1, <1>2, <1>3 DEF PagesInv, Walking

LEMMA RepeatsBounded ==
  ASSUME NEW M, NEW c, IsFiniteSet(M), NEW w, WalkOK(w, M, c)
  PROVE  w.repeats <= w.arrivals
<1>1. /\ Cardinality(w.ids \intersect w.seen) \in Nat
      /\ Cardinality(Late(Told(w), M, c, Reached(w))) \in Nat
  <2>1. Reached(w) \in Nat /\ IsFiniteSet(w.ids)
    BY ReachedType DEF WalkOK
  <2>2. QED
    BY <2>1, OverlapType, RanksFinite
<1>2. /\ w.repeats \in Nat /\ w.arrivals \in Nat
      /\ w.repeats + Cardinality(w.ids \intersect w.seen)
           + Cardinality(Late(Told(w), M, c, Reached(w))) <= w.arrivals
  BY DEF WalkOK
<1>3. QED
  BY <1>1, <1>2

LEMMA ListsFinite == TablesInv => \A k : Dated(k) => IsFiniteSet(Matching(k))
BY ListDistinct DEF Distinct

\* A list depends on the tables alone.
LEMMA ListsStay ==
  ASSUME UNCHANGED tables, NEW l
  PROVE  Matching(l)' = Matching(l) /\ CreatedAt(l)' = CreatedAt(l)
<1>1. UNCHANGED <<orders, invoices, members>>
  BY DEF tables
<1>2. QED
  BY <1>1 DEF Matching, getOrders, getCustomerOrders, searchOrders, getInvoices,
     getCustomerInvoices, searchProductsAndServices, Within, Given, CreatedAt

\* It is enough that the new walk is in order with the list as it is then.
LEMMA WalkSteps ==
  ASSUME PagesInv, TablesInv', WalkShape', UNCHANGED workload, Walking, walk'.list = walk.list,
         walk'.pc \in {"ids", "rows", "total"},
         WalkOK(walk', Matching(walk.list)', CreatedAt(walk.list)'),
         PageOK(walk', Matching(walk.list)')
  PROVE  PagesInv'
<1>0. PICK l : l = walk.list
  OBVIOUS
<1>1. /\ l \in workload.lists /\ l.of \notin UnorderedList /\ workload \in Workloads
      /\ walk'.list = l
  BY <1>0 DEF PagesInv, Walking
<1>2. Dated(l)
  BY <1>1, ListDated
<1>3. WalkOK(walk', Matching(l)', CreatedAt(l)') /\ PageOK(walk', Matching(l)')
  BY <1>0
<1>4. IsFiniteSet(Matching(l))'
  <2>1. TablesInv' => (\A k : Dated(k) => IsFiniteSet(Matching(k)))'
    BY ListsFinite, PTL
  <2>2. QED
    BY <1>2, <2>1 DEF Dated
<1>5. walk'.repeats <= walk'.arrivals
  BY <1>3, <1>4, RepeatsBounded
<1>6. PagesMissOnlyWhatLeft' /\ PagesRepeatOnlyForArrivals'
  BY <1>5 DEF PagesMissOnlyWhatLeft, PagesRepeatOnlyForArrivals
<1>7. /\ WalkOK(walk, Matching(walk.list), CreatedAt(walk.list))'
      /\ PageOK(walk, Matching(walk.list))'
  BY <1>1, <1>3
<1>8. QED
  BY <1>1, <1>6, <1>7 DEF PagesInv

LEMMA PagesInit == Init => PagesInv
<1> SUFFICES ASSUME Init PROVE PagesInv
  OBVIOUS
<1>1. workload \in Workloads /\ Opened(workload.opening) /\ walk = NoWalk
  BY DEF Init
<1>2. TablesInv
  BY <1>1, OpenedTables, ReportsAssumption
<1>3. WalkShape /\ walk.pc = "idle" /\ walk.list = None
  BY <1>1 DEF NoWalk, WalkShape
<1>4. QED
  BY <1>1, <1>2, <1>3 DEF PagesInv, Walking, PagesMissOnlyWhatLeft, PagesRepeatOnlyForArrivals

LEMMA PagesStart ==
  ASSUME PagesInv, TablesInv', WalkShape', StartWalk
  PROVE  PagesInv'
<1>1. UNCHANGED tables /\ UNCHANGED workload /\ workload \in Workloads
  BY DEF StartWalk, PagesInv
<1>2. PICK l \in workload.lists :
        walk' = [NoWalk EXCEPT !.pc = "ids", !.list = l, !.page = 1, !.start = Matching(l)]
  BY DEF StartWalk
<1>3. /\ walk'.pc = "ids" /\ walk'.list = l
      /\ walk'.repeats = 0 /\ walk'.arrivals = 0 /\ walk'.cut = FALSE
  BY <1>2 DEF NoWalk
<1>4. ASSUME l.of \notin UnorderedList
      PROVE  WalkOK(walk', Matching(l)', CreatedAt(l)') /\ PageOK(walk', Matching(l)')
  <2>1. Dated(l)
    BY <1>1, <1>2, <1>4, ListDated
  <2>2. IsFiniteSet(Matching(l))
    BY <2>1, ListsFinite DEF PagesInv
  <2>3. WalkOK(walk', Matching(l), CreatedAt(l))
    BY <1>2, <2>2, WalkBegins
  <2>4. PageOK(walk', Matching(l)')
    BY <1>3 DEF PageOK
  <2>5. QED
    BY <1>1, <2>3, <2>4, ListsStay
<1>5. Walking' => /\ WalkOK(walk, Matching(walk.list), CreatedAt(walk.list))'
                  /\ PageOK(walk, Matching(walk.list))'
  BY <1>3, <1>4 DEF Walking
<1>6. PagesMissOnlyWhatLeft' /\ PagesRepeatOnlyForArrivals'
  BY <1>3 DEF PagesMissOnlyWhatLeft, PagesRepeatOnlyForArrivals
<1>7. workload' \in Workloads /\ walk'.list \in workload'.lists
  BY <1>1, <1>2, <1>3
<1>8. QED
  BY <1>3, <1>5, <1>6, <1>7 DEF PagesInv

LEMMA PagesReadIds ==
  ASSUME PagesInv, TablesInv', WalkShape', ReadIds
  PROVE  PagesInv'
<1>1. /\ UNCHANGED tables /\ UNCHANGED workload /\ workload \in Workloads /\ WalkShape
      /\ walk.pc = "ids" /\ walk.list.of \notin UnorderedList /\ walk.list \in workload.lists
      /\ Walking
  BY DEF ReadIds, PagesInv, Walking
<1>2. PICK l : l = walk.list
  OBVIOUS
<1>3. PICK s \in Listed(l) : walk' = [walk EXCEPT !.pc = "rows", !.ids = ToSet(Page(s, walk.page))]
  BY <1>2 DEF ReadIds
<1>4. walk'.pc = "rows" /\ walk'.list = l
  BY <1>1, <1>2, <1>3 DEF WalkShape
<1>5. Dated(l) /\ TablesInv
  BY <1>1, <1>2, ListDated DEF PagesInv
<1>6. s \in SetToSeqs(Matching(l)) /\ Descending(s, CreatedAt(l))
  BY <1>3, <1>5, ListSorted
<1>7. /\ Distinct(Matching(l), CreatedAt(l)) /\ WalkOK(walk, Matching(l), CreatedAt(l))
      /\ PageOK(walk, Matching(l))
  BY <1>1, <1>2, <1>5, ListDistinct DEF PagesInv
<1>8. WalkOK(walk', Matching(l), CreatedAt(l)) /\ PageOK(walk', Matching(l))
  BY <1>1, <1>3, <1>6, <1>7, WalkReadsIds, PageReadsIds
<1>9. WalkOK(walk', Matching(l)', CreatedAt(l)') /\ PageOK(walk', Matching(l)')
  BY <1>1, <1>8, ListsStay
<1>10. /\ WalkOK(walk', Matching(walk.list)', CreatedAt(walk.list)')
       /\ PageOK(walk', Matching(walk.list)')
  BY <1>2, <1>4, <1>9
<1>11. QED
  BY <1>1, <1>2, <1>4, <1>10, WalkSteps

LEMMA PagesReadRows ==
  ASSUME PagesInv, TablesInv', WalkShape', ReadRows, walk.list.of \notin UnorderedList
  PROVE  PagesInv'
<1>1. /\ UNCHANGED tables /\ UNCHANGED workload /\ workload \in Workloads /\ WalkShape
      /\ walk.pc = "rows" /\ walk.list \in workload.lists /\ Walking
  BY DEF ReadRows, PagesInv, Walking
<1>2. PICK l, M, S, n : l = walk.list /\ M = Matching(l) /\ S = walk.ids \intersect M
                        /\ n = Cardinality(S)
  OBVIOUS
<1>3. PICK w : /\ w = Totalled(walk, n)
               /\ walk' = Show([w EXCEPT !.cut = w.pc = "done" /\ Cardinality(walk.ids) = PageSize], S)
  BY <1>2 DEF ReadRows
<1>4. Dated(l) /\ TablesInv
  BY <1>1, <1>2, ListDated DEF PagesInv
<1>5. Distinct(M, CreatedAt(l)) /\ WalkOK(walk, M, CreatedAt(l)) /\ PageOK(walk, M)
  BY <1>1, <1>2, <1>4, ListDistinct DEF PagesInv
<1>6. M = Matching(l)' /\ CreatedAt(l) = CreatedAt(l)'
  BY <1>1, <1>2, ListsStay
<1>7. PICK u : u = Show([walk EXCEPT !.pc = "total", !.cut = FALSE], S)
  OBVIOUS
<1>8. u.pc = "total" /\ u.list = l /\ u.cut = FALSE /\ WalkOK(u, M, CreatedAt(l))
  <2>1. WalkOK(u, M, CreatedAt(l))
    BY <1>1, <1>2, <1>5, <1>7, WalkReadsRows
  <2>2. QED
    BY <1>1, <1>2, <1>7, <2>1 DEF WalkShape, Show
<1>9. CASE w = [walk EXCEPT !.pc = "total"]
  <2>1. w.pc = "total" /\ DOMAIN w = DOMAIN walk
    BY <1>1, <1>9 DEF WalkShape
  <2>2. walk' = Show([w EXCEPT !.cut = FALSE], S)
    BY <1>3, <2>1
  <2>3. [w EXCEPT !.cut = FALSE] = [walk EXCEPT !.pc = "total", !.cut = FALSE]
    BY <1>9
  <2>4. walk' = u
    BY <1>7, <2>2, <2>3
  <2>5. /\ WalkOK(walk', Matching(walk.list)', CreatedAt(walk.list)')
        /\ PageOK(walk', Matching(walk.list)')
    BY <1>2, <1>6, <1>8, <2>4 DEF PageOK
  <2>6. QED
    BY <1>1, <1>2, <1>8, <2>4, <2>5, WalkSteps
<1>10. CASE w = [walk EXCEPT !.pc = "ids", !.page = walk.page + 1]
  <2>1. w.pc = "ids" /\ DOMAIN w = DOMAIN walk
    BY <1>1, <1>10 DEF WalkShape
  <2>2. walk' = Show([w EXCEPT !.cut = FALSE], S)
    BY <1>3, <2>1
  <2>3. walk' = [u EXCEPT !.pc = "ids", !.page = u.page + 1]
    BY <1>1, <1>7, <1>10, <2>2 DEF WalkShape, Show
  <2>4. WalkOK(walk', M, CreatedAt(l))
    BY <1>8, <2>3, WalkGoesOn
  <2>5. walk'.pc = "ids" /\ walk'.list = l /\ walk'.cut = FALSE
    BY <1>1, <1>2, <1>10, <2>2 DEF WalkShape, Show
  <2>6. /\ WalkOK(walk', Matching(walk.list)', CreatedAt(walk.list)')
        /\ PageOK(walk', Matching(walk.list)')
    BY <1>2, <1>6, <2>4, <2>5 DEF PageOK
  <2>7. QED
    BY <1>1, <1>2, <2>5, <2>6, WalkSteps
<1>11. CASE w = [walk EXCEPT !.pc = "done"] /\ w # [walk EXCEPT !.pc = "total"]
  <2>1. w.pc = "done" /\ DOMAIN w = DOMAIN walk
    BY <1>1, <1>11 DEF WalkShape
  <2>2. walk' = Show([w EXCEPT !.cut = Cardinality(walk.ids) = PageSize], S)
    BY <1>3, <2>1
  <2>3. /\ walk'.pc = "done" /\ walk'.list = l
        /\ walk'.cut = (Cardinality(walk.ids) = PageSize)
        /\ walk'.start = walk.start /\ walk'.departed = walk.departed
        /\ walk'.seen = walk.seen \union S /\ walk'.departures = walk.departures
        /\ walk'.repeats = u.repeats /\ walk'.arrivals = u.arrivals
    BY <1>1, <1>2, <1>7, <1>11, <2>2 DEF WalkShape, Show
  <2>4. n # PageSize
    BY <1>3, <1>11 DEF Totalled, NeedsCount
  <2>5. Staying(walk) \subseteq M
    BY <1>5 DEF WalkOK
  <2>6. /\ Cardinality(walk.ids) # PageSize =>
             Cardinality(walk.start \ (walk.departed \union (walk.seen \union S)))
               <= walk.departures
        /\ Cardinality(walk.ids) = PageSize => walk.departed # {}
    BY <1>1, <1>2, <1>5, <2>4, <2>5, PageEnds
  <2>7. u.repeats <= u.arrivals
    BY <1>5, <1>8, RepeatsBounded DEF Distinct
  <2>8. PagesMissOnlyWhatLeft' /\ PagesRepeatOnlyForArrivals'
    BY <2>3, <2>6, <2>7 DEF PagesMissOnlyWhatLeft, PagesRepeatOnlyForArrivals
  <2>9. ~Walking' /\ walk'.list \in workload'.lists /\ workload' \in Workloads
    BY <1>1, <1>2, <2>3 DEF Walking
  <2>10. QED
    BY <2>3, <2>8, <2>9 DEF PagesInv
<1>12. QED
  BY <1>3, <1>9, <1>10, <1>11, AfterPage

\* After the last page nothing is missing but what was drawn to earlier ones.
LEMMA PagesReadTotal ==
  ASSUME PagesInv, TablesInv', WalkShape', ReadTotal, walk.list.of \notin UnorderedList
  PROVE  PagesInv'
<1>1. /\ UNCHANGED tables /\ UNCHANGED workload /\ workload \in Workloads /\ WalkShape
      /\ walk.pc = "total" /\ walk.list \in workload.lists /\ Walking
  BY DEF ReadTotal, PagesInv, Walking
<1>2. PICK l : l = walk.list
  OBVIOUS
<1>3. Dated(l) /\ TablesInv
  BY <1>1, <1>2, ListDated DEF PagesInv
<1>4. /\ Distinct(Matching(l), CreatedAt(l)) /\ WalkOK(walk, Matching(l), CreatedAt(l))
      /\ walk.cut = FALSE
  BY <1>1, <1>2, <1>3, ListDistinct DEF PagesInv, PageOK
<1>5. CASE walk.page < TotalPages(Cardinality(Matching(l)))
  <2>1. walk' = [walk EXCEPT !.pc = "ids", !.page = walk.page + 1]
    BY <1>2, <1>5 DEF ReadTotal, Onward
  <2>2. walk'.pc = "ids" /\ walk'.list = l /\ walk'.cut = FALSE
    BY <1>1, <1>2, <1>4, <2>1 DEF WalkShape
  <2>3. WalkOK(walk', Matching(l), CreatedAt(l))
    BY <1>1, <1>4, <2>1, WalkGoesOn
  <2>4. WalkOK(walk', Matching(l)', CreatedAt(l)')
    BY <1>1, <2>3, ListsStay
  <2>5. /\ WalkOK(walk', Matching(walk.list)', CreatedAt(walk.list)')
        /\ PageOK(walk', Matching(walk.list)')
    BY <1>2, <2>2, <2>4 DEF PageOK
  <2>6. QED
    BY <1>1, <1>2, <2>2, <2>5, WalkSteps
<1>6. CASE ~(walk.page < TotalPages(Cardinality(Matching(l))))
  <2>1. walk' = [walk EXCEPT !.pc = "done"]
    BY <1>2, <1>6 DEF ReadTotal, Onward
  <2>2. /\ walk'.pc = "done" /\ walk'.list = l /\ walk'.cut = FALSE
        /\ walk'.start = walk.start /\ walk'.departed = walk.departed /\ walk'.seen = walk.seen
        /\ walk'.departures = walk.departures
        /\ walk'.repeats = walk.repeats /\ walk'.arrivals = walk.arrivals
    BY <1>1, <1>2, <1>4, <2>1 DEF WalkShape
  <2>3. walk.page >= TotalPages(Cardinality(Matching(l)))
    <3>1. PageSize \in Nat \ {0} /\ walk.page \in Int /\ Cardinality(Matching(l)) \in Nat
      BY <1>4, ReportsAssumption, FS_CardinalityType DEF WalkOK, Distinct
    <3>2. TotalPages(Cardinality(Matching(l))) \in Int
      BY <3>1 DEF TotalPages
    <3>3. QED
      BY <1>6, <3>1, <3>2
  <2>4. Cardinality(walk.start \ (walk.departed \union walk.seen)) <= walk.departures
    BY <1>1, <1>4, <2>3, WalkEnds
  <2>5. walk.repeats <= walk.arrivals
    BY <1>4, RepeatsBounded DEF Distinct
  <2>6. PagesMissOnlyWhatLeft' /\ PagesRepeatOnlyForArrivals'
    BY <2>2, <2>4, <2>5 DEF PagesMissOnlyWhatLeft, PagesRepeatOnlyForArrivals
  <2>7. ~Walking' /\ walk'.list \in workload'.lists /\ workload' \in Workloads
    BY <1>1, <1>2, <2>2 DEF Walking
  <2>8. QED
    BY <2>2, <2>6, <2>7 DEF PagesInv
<1>7. QED
  BY <1>5, <1>6

LEMMA PagesWrite ==
  ASSUME PagesInv, TablesInv', WalkShape', CommitWrite, Walking
  PROVE  PagesInv'
<1>1. /\ UNCHANGED workload /\ workload \in Workloads /\ WalkShape /\ Written
      /\ walk.pc \in {"ids", "rows", "total"} /\ walk.list.of \notin UnorderedList
      /\ walk.list \in workload.lists
  BY DEF CommitWrite, PagesInv, Walking
<1>2. PICK l, M : /\ l = walk.list /\ M = Matching(l)
                  /\ walk' = [walk EXCEPT !.departed = walk.departed \union (M \ Matching(l)'),
                       !.departures = walk.departures + Cardinality(M \ Matching(l)'),
                       !.arrivals = walk.arrivals + Cardinality(Matching(l)' \ M)]
  BY <1>1 DEF CommitWrite
<1>3. PICK N : N = Matching(l)'
  OBVIOUS
<1>4. PICK c, d : c = CreatedAt(l) /\ d = CreatedAt(l)'
  OBVIOUS
<1>5. walk'.pc = walk.pc /\ walk'.list = l
  BY <1>1, <1>2 DEF WalkShape
<1>6. Dated(l) /\ TablesInv
  BY <1>1, <1>2, ListDated DEF PagesInv
<1>7. M \subseteq DOMAIN c /\ WalkOK(walk, M, c) /\ PageOK(walk, M)
  BY <1>2, <1>4, <1>6, ListRows DEF PagesInv, ListsOfTables
<1>8. N \subseteq DOMAIN d /\ Distinct(DOMAIN d, d)
  <2>1. ListsOfTables'
    BY ListRows, PTL
  <2>2. QED
    BY <1>3, <1>4, <1>6, <2>1 DEF Dated, ListsOfTables
<1>9. /\ \E a : \A x : x # a => (x \in N <=> x \in M)
      /\ \A x \in DOMAIN c : x \in DOMAIN d /\ d[x] = c[x]
  BY <1>1, <1>2, <1>3, <1>4, <1>6, ListWritten
<1>10. WalkOK(walk, M, d)
  BY <1>7, <1>9, StampsOfList
<1>11. Distinct(M \union N, d)
  <2>1. M \union N \subseteq DOMAIN d
    BY <1>7, <1>8, <1>9
  <2>2. QED
    BY <1>8, <2>1, FS_Subset DEF Distinct
<1>12. walk' = [walk EXCEPT !.departed = walk.departed \union (M \ N),
                  !.departures = walk.departures + Cardinality(M \ N),
                  !.arrivals = walk.arrivals + Cardinality(N \ M)]
  BY <1>2, <1>3
<1>13. WalkOK(walk', N, d)
  BY <1>9, <1>10, <1>11, <1>12, WalkMeetsWrite
<1>14. PageOK(walk', N)
  <2>1. IsFiniteSet(M)
    BY <1>11, FS_Subset DEF Distinct
  <2>2. /\ DOMAIN walk = DOMAIN NoWalk /\ Staying(walk) \subseteq M /\ walk.departures \in Nat
    BY <1>7 DEF WalkOK
  <2>3. Cardinality(M \ N) \in Nat
    BY <2>1, FS_Difference, FS_CardinalityType
  <2>4. QED
    BY <1>7, <1>12, <2>1, <2>2, <2>3, PageMeetsWrite
<1>15. /\ WalkOK(walk', Matching(walk.list)', CreatedAt(walk.list)')
       /\ PageOK(walk', Matching(walk.list)')
  BY <1>2, <1>3, <1>4, <1>5, <1>13, <1>14
<1>16. QED
  BY <1>1, <1>2, <1>5, <1>15, WalkSteps

\* A walk through a list without an order is told of nothing here.
LEMMA PagesUnordered ==
  ASSUME PagesInv, TablesInv', WalkShape', UNCHANGED workload,
         walk.pc # "idle", walk'.pc # "idle", walk'.list = walk.list,
         walk.list.of \in UnorderedList
  PROVE  PagesInv'
BY DEF PagesInv, Walking, PagesMissOnlyWhatLeft, PagesRepeatOnlyForArrivals

LEMMA ListKept ==
  ASSUME WalkShape, ReadRows \/ ReadPage \/ ReadTotal \/ CommitWrite
  PROVE  /\ walk'.list = walk.list
         /\ walk'.pc = "idle" <=> walk.pc = "idle"
<1> USE DEF WalkShape
<1>1. CASE ReadRows
  <2>1. PICK rows, b :
          walk' = Show([Totalled(walk, Cardinality(rows)) EXCEPT !.cut = b], rows)
    BY <1>1 DEF ReadRows
  <2>2. PICK w : w = Totalled(walk, Cardinality(rows))
    OBVIOUS
  <2>3. \/ w = [walk EXCEPT !.pc = "total"]
        \/ w = [walk EXCEPT !.pc = "ids", !.page = walk.page + 1]
        \/ w = [walk EXCEPT !.pc = "done"]
    BY <2>2, AfterPage
  <2>4. DOMAIN w = DOMAIN walk /\ w.list = walk.list /\ w.pc # "idle"
    BY <2>3
  <2>5. walk' = Show([w EXCEPT !.cut = b], rows)
    BY <2>1, <2>2
  <2>6. walk.pc = "rows"
    BY <1>1 DEF ReadRows
  <2>7. QED
    BY <2>4, <2>5, <2>6 DEF Show
<1>2. CASE ReadPage
  <2>1. PICK ids :
          walk' = Show(
            CASE walk.list.of = "find" -> Totalled(walk, Cardinality(ids))
              [] walk.list.of = "searchProducts" /\ ids = {} -> [walk EXCEPT !.pc = "done"]
              [] OTHER -> [walk EXCEPT !.page = walk.page + 1], ids)
    BY <1>2 DEF ReadPage
  <2> DEFINE w == CASE walk.list.of = "find" -> Totalled(walk, Cardinality(ids))
                    [] walk.list.of = "searchProducts" /\ ids = {} -> [walk EXCEPT !.pc = "done"]
                    [] OTHER -> [walk EXCEPT !.page = walk.page + 1]
  <2>2. walk' = Show(w, ids)
    BY <2>1
  <2>3. \/ w = [walk EXCEPT !.pc = "total"]
        \/ w = [walk EXCEPT !.pc = "ids", !.page = walk.page + 1]
        \/ w = [walk EXCEPT !.pc = "done"]
        \/ w = [walk EXCEPT !.page = walk.page + 1]
    BY AfterPage
  <2>4. walk.pc = "ids"
    BY <1>2 DEF ReadPage
  <2> HIDE DEF w
  <2>5. DOMAIN w = DOMAIN walk /\ w.list = walk.list /\ w.pc # "idle"
    BY <2>3, <2>4
  <2>6. QED
    BY <2>2, <2>4, <2>5 DEF Show
<1>3. CASE ReadTotal
  BY <1>3 DEF ReadTotal, Onward
<1>4. CASE CommitWrite
  <2>1. CASE walk.pc \in {"ids", "rows", "total"}
    <3>1. PICK l, before :
            walk' = [walk EXCEPT !.departed = walk.departed \union (before \ Matching(l)'),
                                 !.departures = walk.departures + Cardinality(before \ Matching(l)'),
                                 !.arrivals = walk.arrivals + Cardinality(Matching(l)' \ before)]
      BY <1>4, <2>1 DEF CommitWrite
    <3>2. QED
      BY <3>1
  <2>2. CASE walk' = walk
    BY <2>2
  <2>3. QED
    BY <1>4, <2>1, <2>2 DEF CommitWrite
<1>5. QED
  BY <1>1, <1>2, <1>3, <1>4

LEMMA PagesNext == PagesInv /\ [Next]_vars => PagesInv'
<1> SUFFICES ASSUME PagesInv, [Next]_vars PROVE PagesInv'
  OBVIOUS
<1>1. TablesInv' /\ WalkShape' /\ WalkShape
  BY NextTables, WalkShapeNext DEF PagesInv
<1>2. CASE CommitWrite
  <2>1. CASE Walking
    BY <1>1, <1>2, <2>1, PagesWrite
  <2>2. CASE walk.pc \in {"ids", "rows", "total"} /\ ~Walking
    <3>1. walk.list.of \in UnorderedList
      BY <2>2 DEF Walking
    <3>2. QED
      BY <1>1, <1>2, <2>2, <3>1, ListKept, PagesUnordered DEF CommitWrite
  <2>3. CASE walk.pc \notin {"ids", "rows", "total"}
    <3>1. UNCHANGED <<workload, walk>> /\ ~Walking
      BY <1>2, <2>3 DEF CommitWrite, Walking
    <3>2. QED
      BY <1>1, <3>1, PagesStay
  <2>4. QED
    BY <2>1, <2>2, <2>3
<1>3. CASE StartWalk
  BY <1>1, <1>3, PagesStart
<1>4. CASE ReadIds
  BY <1>1, <1>4, PagesReadIds
<1>5. CASE ReadRows
  <2>1. UNCHANGED workload /\ walk.pc = "rows"
    BY <1>5 DEF ReadRows
  <2>2. QED
    BY <1>1, <1>5, <2>1, PagesReadRows, PagesUnordered, ListKept
<1>6. CASE ReadPage
  <2>1. UNCHANGED workload /\ walk.pc = "ids" /\ walk.list.of \in UnorderedList
    BY <1>6 DEF ReadPage
  <2>2. QED
    BY <1>1, <1>6, <2>1, PagesUnordered, ListKept
<1>7. CASE ReadTotal
  <2>1. UNCHANGED workload /\ walk.pc = "total"
    BY <1>7 DEF ReadTotal
  <2>2. QED
    BY <1>1, <1>7, <2>1, PagesReadTotal, PagesUnordered, ListKept
<1>8. CASE AskReport
  BY <1>1, <1>8, PagesStay DEF AskReport
<1>9. ASSUME NEW q, AnswerQuery(q)
      PROVE  PagesInv'
  BY <1>1, <1>9, PagesStay DEF AnswerQuery
<1>10. CASE FinishReport
  BY <1>1, <1>10, PagesStay DEF FinishReport
<1>11. CASE Leave
  <2>1. CASE UNCHANGED <<tables, workload, walk>>
    BY <1>1, <2>1, PagesStay
  <2>2. CASE walk' = NoWalk /\ UNCHANGED workload
    <3>1. walk'.pc = "idle" /\ walk'.list = None
      BY <2>2 DEF NoWalk
    <3>2. QED
      BY <1>1, <2>2, <3>1 DEF PagesInv, Walking, PagesMissOnlyWhatLeft, PagesRepeatOnlyForArrivals
  <2>3. QED
    BY <1>11, <2>1, <2>2 DEF Leave
<1>12. CASE UNCHANGED vars
  BY <1>1, <1>12, PagesStay DEF vars
<1>13. QED
  BY <1>2, <1>3, <1>4, <1>5, <1>6, <1>7, <1>8, <1>9, <1>10, <1>11, <1>12 DEF Next

\* However orders and invoices are written while a client walks through a
\* list of them, for every list, every page size and any number of rows: it
\* misses a row that stayed in the list only if another one left, and at most
\* one for each unless one left a full page before its rows were read, which
\* ends the walk there (createdAt DESC with skip and take in OrderService and
\* InvoiceService).
THEOREM PagesMissFew == Spec => []PagesMissOnlyWhatLeft
<1>1. PagesInv => PagesMissOnlyWhatLeft
  BY DEF PagesInv
<1>2. QED
  BY <1>1, PagesInit, PagesNext, PTL DEF Spec

\* And it sees a row again at most once for each row that came in.
THEOREM PagesRepeatFew == Spec => []PagesRepeatOnlyForArrivals
<1>1. PagesInv => PagesRepeatOnlyForArrivals
  BY DEF PagesInv
<1>2. QED
  BY <1>1, PagesInit, PagesNext, PTL DEF Spec
=============================================================================
