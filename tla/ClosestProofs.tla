----------------------------- MODULE ClosestProofs -----------------------------
(***************************************************************************)
(* Proofs about Closest: scratch slices stay private and hold the          *)
(* candidate, the search misses no tuple and keeps the order its strategy  *)
(* promises, and ClosestIn searches the dimension its caller means; for    *)
(* any number of goroutines, engines and dimensions.                       *)
(***************************************************************************)
EXTENDS Closest, FiniteSetTheorems, SequenceTheorems, WellFoundedInduction, TLAPS

-----------------------------------------------------------------------------
(***************************************************************************)
(* Least and greatest elements.                                            *)
(***************************************************************************)
LEMMA LeastExists ==
  ASSUME NEW S \in SUBSET Nat, S /= {}
  PROVE  \E x \in S : \A y \in S : x <= y
<1>1. PICK x \in S : \A y \in S : ~ (<<y, x>> \in OpToRel(<, Nat))
  BY WFMin, NatLessThanWellFounded
<1>2. \A y \in S : ~ (y < x)
  BY <1>1 DEF OpToRel
<1> QED
  BY <1>2

\* A nonempty set of naturals with a bound has a greatest element.
LEMMA GreatestExists ==
  ASSUME NEW n \in Nat, NEW S \in SUBSET (0 .. n), S /= {}
  PROVE  \E x \in S : \A y \in S : x >= y
<1> DEFINE T == {n - x : x \in S}
<1>1. T \in SUBSET Nat
  OBVIOUS
<1>2. T /= {}
  OBVIOUS
<1>a. PICK t \in T : \A y \in T : t <= y
  BY <1>1, <1>2, LeastExists
<1>3. PICK x \in S : t = n - x
  BY <1>a
<1>4. \A y \in S : n - x <= n - y
  BY <1>a, <1>3
<1> QED
  BY <1>4

\* What Min returns.
LEMMA MinFacts ==
  ASSUME NEW S \in SUBSET Nat, S /= {}
  PROVE  Min(S) \in S /\ \A y \in S : Min(S) <= y
BY LeastExists DEF Min

\* What Max returns.
LEMMA MaxFacts ==
  ASSUME NEW n \in Nat, NEW S \in SUBSET (0 .. n), S /= {}
  PROVE  Max(S) \in S /\ \A y \in S : Max(S) >= y
BY GreatestExists DEF Max

-----------------------------------------------------------------------------
(***************************************************************************)
(* A set of dimensions as its ascending sequence, as searchSubset has it.  *)
(***************************************************************************)
Ascending(s) == \A i, j \in 1 .. Len(s) : i < j => s[i] < s[j]

Subset(s, n) == s \in Seq(1 .. n) /\ Ascending(s)

\* The sequence has as many positions as its set has dimensions.
LEMMA SubsetFacts ==
  ASSUME NEW n \in Nat, NEW s, Subset(s, n)
  PROVE  /\ Len(s) \in Nat
         /\ DOMAIN s = 1 .. Len(s)
         /\ \A i \in 1 .. Len(s) : s[i] \in 1 .. n
         /\ Range(s) \in SUBSET (1 .. n)
         /\ \A e : e \in Range(s) <=> \E i \in 1 .. Len(s) : s[i] = e
         /\ IsFiniteSet(Range(s))
         /\ Cardinality(Range(s)) = Len(s)
         /\ Len(s) <= n
<1> DEFINE k == Len(s)
<1>1. k \in Nat /\ DOMAIN s = 1 .. k /\ \A i \in 1 .. k : s[i] \in 1 .. n
  BY DEF Subset
<1>2. Range(s) \in SUBSET (1 .. n) /\ \A e : e \in Range(s) <=> \E i \in 1 .. k : s[i] = e
  BY <1>1 DEF Range
<1>3. IsFiniteSet(1 .. n) /\ Cardinality(1 .. n) = n
  BY FS_Interval
<1>4. IsFiniteSet(Range(s)) /\ Cardinality(Range(s)) <= n
  BY <1>2, <1>3, FS_Subset
<1>5. IsFiniteSet(1 .. k) /\ Cardinality(1 .. k) = k
  <2> HIDE DEF k
  <2>1. 1 \in Int /\ k \in Int /\ (1 > k => k = 0)
    BY <1>1
  <2> QED
    BY <2>1, FS_Interval
<1>6. s \in [1 .. k -> Range(s)]
  <2>1. s \in [1 .. k -> 1 .. n]
    BY <1>1 DEF Subset
  <2>2. \A i \in 1 .. k : s[i] \in Range(s)
    BY <1>2
  <2> QED
    BY <2>1, <2>2
<1>7. \A i, j \in 1 .. k : i < j => s[i] < s[j]
  BY DEF Subset, Ascending
<1>8. \A i, j \in 1 .. k : i /= j => s[i] /= s[j]
  BY <1>1, <1>7
<1>9. s \in Injection(1 .. k, Range(s)) /\ s \in Surjection(1 .. k, Range(s))
  BY <1>6, <1>8, <1>2 DEF Injection, Surjection, IsInjective
<1>10. Cardinality(Range(s)) = k
  BY <1>9, <1>4, <1>5, FS_Injection, FS_Surjection
<1> QED
  BY <1>1, <1>2, <1>4, <1>10

\* The n-th dimension has n - 1 before it and Len(s) - n behind.
LEMMA SubsetBounds ==
  ASSUME NEW n \in Nat, NEW s, Subset(s, n)
  PROVE  \A i \in 1 .. Len(s) : i <= s[i] /\ s[i] <= n - Len(s) + i
<1> DEFINE k == Len(s)
           low == {i \in 1 .. k : s[i] < i}
           high == {i \in 1 .. k : s[i] > n - k + i}
<1>1. k \in Nat /\ \A i \in 1 .. k : s[i] \in 1 .. n
  BY SubsetFacts
<1>2. \A i, j \in 1 .. k : i < j => s[i] < s[j]
  BY DEF Subset, Ascending
<1>3. low = {}
  <2>1. SUFFICES ASSUME low /= {} PROVE FALSE
    OBVIOUS
  <2>2. low \in SUBSET Nat
    BY <1>1
  <2>3. PICK i \in low : \A j \in low : i <= j
    BY <2>1, <2>2, LeastExists
  <2>4. i /= 1
    BY <2>3, <1>1
  <2>5. i - 1 \in 1 .. k /\ i - 1 \notin low
    BY <2>3, <2>4, <1>1
  <2> QED
    BY <2>3, <2>5, <1>1, <1>2
<1>4. high = {}
  <2>1. SUFFICES ASSUME high /= {} PROVE FALSE
    OBVIOUS
  <2>2. high \in SUBSET (0 .. k)
    BY <1>1
  <2>3. PICK i \in high : \A j \in high : i >= j
    BY <2>1, <2>2, <1>1, GreatestExists
  <2>4. i /= k
    BY <2>3, <1>1
  <2>5. i + 1 \in 1 .. k /\ i + 1 \notin high
    BY <2>3, <2>4, <1>1
  <2> QED
    BY <2>3, <2>5, <1>1, <1>2
<1> QED
  BY <1>1, <1>3, <1>4

-----------------------------------------------------------------------------
(***************************************************************************)
(* The order in which the sets of one size are searched: X is before S     *)
(* when it has the first dimension, from the left (from the right for      *)
(* RightmostDim), that only one of them has.                               *)
(***************************************************************************)
LeftAhead(X, S) == \E e \in X \ S : \A i \in X \cup S : i < e => i \in X /\ i \in S

RightAhead(X, S) == \E e \in X \ S : \A i \in X \cup S : i > e => i \in X /\ i \in S

Ahead(tb, X, S) == IF tb = "RightmostDim" THEN RightAhead(X, S) ELSE LeftAhead(X, S)

\* Smaller sets come first.
Earlier(tb, X, s) ==
  \/ Cardinality(X) < Len(s)
  \/ Cardinality(X) = Len(s) /\ Ahead(tb, X, Range(s))

\* Sets of dimensions can be counted.
LEMMA DimensionSets ==
  ASSUME NEW n \in Nat, NEW X \in SUBSET (1 .. n)
  PROVE  IsFiniteSet(X) /\ Cardinality(X) \in Nat
<1>1. IsFiniteSet(1 .. n)
  BY FS_Interval
<1>2. IsFiniteSet(X)
  BY <1>1, FS_Subset
<1> QED
  BY <1>2, FS_CardinalityType

\* Of two sets of one size, neither is a part of the other.
LEMMA SameSize ==
  ASSUME NEW n \in Nat, NEW X \in SUBSET (1 .. n), NEW S \in SUBSET (1 .. n),
         Cardinality(X) = Cardinality(S), X \subseteq S \/ S \subseteq X
  PROVE  X = S
<1>1. IsFiniteSet(1 .. n)
  BY FS_Interval
<1>2. IsFiniteSet(X) /\ IsFiniteSet(S)
  BY <1>1, FS_Subset
<1> QED
  BY <1>2, FS_Subset

\* A set that behind v has the last dimensions only is the last with its beginning.
LEMMA LeftLast ==
  ASSUME NEW n \in Nat, NEW X \in SUBSET (1 .. n), NEW S \in SUBSET (1 .. n),
         Cardinality(X) = Cardinality(S), NEW v \in Nat, NEW b \in Int,
         \A i \in 1 .. n : i > v => (i \in S <=> i >= b),
         \A i \in 1 .. n : i <= v => (i \in S <=> i \in X)
  PROVE  X = S \/ LeftAhead(X, S)
<1>1. SUFFICES ASSUME X /= S PROVE LeftAhead(X, S)
  OBVIOUS
<1>2. X \ S /= {} /\ X \ S \in SUBSET Nat
  BY <1>1, SameSize
<1>3. PICK e \in X \ S : \A i \in X \ S : e <= i
  BY <1>2, LeastExists
<1>4. ASSUME NEW i \in X \cup S, i < e PROVE i \in X /\ i \in S
  BY <1>3, <1>4
<1> QED
  BY <1>3, <1>4 DEF LeftAhead

\* Sets of one size that agree from v on: below it S is all to the left.
LEMMA RightLast ==
  ASSUME NEW n \in Nat, NEW X \in SUBSET (1 .. n), NEW S \in SUBSET (1 .. n),
         Cardinality(X) = Cardinality(S), NEW v \in Nat, NEW b \in Int,
         \A i \in 1 .. n : i < v => (i \in S <=> i <= b),
         \A i \in 1 .. n : i >= v => (i \in S <=> i \in X)
  PROVE  X = S \/ RightAhead(X, S)
<1>1. SUFFICES ASSUME X /= S PROVE RightAhead(X, S)
  OBVIOUS
<1>a. X \ S /= {}
  BY <1>1, SameSize
<1>2. X \ S /= {} /\ X \ S \in SUBSET (0 .. n)
  BY <1>a
<1>3. PICK e \in X \ S : \A i \in X \ S : e >= i
  BY <1>2, GreatestExists
<1>4. ASSUME NEW i \in X \cup S, i > e PROVE i \in X /\ i \in S
  BY <1>3, <1>4
<1> QED
  BY <1>3, <1>4 DEF RightAhead

-----------------------------------------------------------------------------
(***************************************************************************)
(* nextCombo and nextRightmost step to the subset that is next in order.   *)
(***************************************************************************)
LEMMA ComboFacts ==
  ASSUME NEW n \in Nat, NEW s, Subset(s, n), Growable(s, n) /= {}
  PROVE  LET i == Max(Growable(s, n))
             r == nextCombo(s, n)
         IN  /\ i \in 1 .. Len(s)
             /\ \A j \in 1 .. Len(s) : j > i => s[j] = n - Len(s) + j
             /\ Subset(r, n)
             /\ Len(r) = Len(s)
             /\ \A j \in 1 .. Len(s) : r[j] = IF j < i THEN s[j] ELSE s[i] + 1 + (j - i)
<1> DEFINE k == Len(s)
           i == Max(Growable(s, n))
           r == nextCombo(s, n)
<1>1. k \in Nat /\ \A j \in 1 .. k : s[j] \in 1 .. n
  BY SubsetFacts
<1>2. Growable(s, n) \in SUBSET (0 .. k)
  BY <1>1 DEF Growable
<1>3. i \in Growable(s, n) /\ \A j \in Growable(s, n) : i >= j
  BY <1>1, <1>2, MaxFacts
<1>4. r = [j \in 1 .. k |-> IF j < i THEN s[j] ELSE s[i] + 1 + (j - i)]
  BY DEF nextCombo
<1> HIDE DEF i, r
<1>5. i \in 1 .. k /\ s[i] /= n - k + i
  BY <1>3 DEF Growable
<1>6. \A j \in 1 .. k : j > i => s[j] = n - k + j
  BY <1>1, <1>3, <1>5 DEF Growable
<1>7. s[i] < n - k + i
  BY <1>5, <1>1, SubsetBounds
<1>8. \A j \in 1 .. k : r[j] = IF j < i THEN s[j] ELSE s[i] + 1 + (j - i)
  BY <1>4
<1>9. \A j \in 1 .. k : r[j] \in 1 .. n
  BY <1>1, <1>5, <1>7, <1>8
<1>10. r \in Seq(1 .. n) /\ Len(r) = k
  BY <1>1, <1>4, <1>9
<1>11. Ascending(r)
  <2> SUFFICES ASSUME NEW x \in 1 .. k, NEW y \in 1 .. k, x < y PROVE r[x] < r[y]
    BY <1>10 DEF Ascending
  <2>1. \A p, q \in 1 .. k : p < q => s[p] < s[q]
    BY DEF Subset, Ascending
  <2>2. x < i => s[x] < s[i]
    BY <2>1, <1>5
  <2>3. CASE y < i
    BY <2>1, <2>3, <1>1, <1>5, <1>8
  <2>4. CASE x < i /\ y >= i
    BY <2>2, <2>4, <1>1, <1>5, <1>8
  <2>5. CASE x >= i
    BY <2>5, <1>1, <1>5, <1>8
  <2> QED
    BY <2>3, <2>4, <2>5, <1>1, <1>5
<1> QED
  BY <1>5, <1>6, <1>8, <1>10, <1>11 DEF Subset, i, r

\* What nextRightmost returns.
LEMMA RightmostFacts ==
  ASSUME NEW n \in Nat, NEW s, Subset(s, n), Shrinkable(s) /= {}
  PROVE  LET i == Min(Shrinkable(s))
             r == nextRightmost(s)
         IN  /\ i \in 1 .. Len(s)
             /\ \A j \in 1 .. Len(s) : j < i => s[j] = j
             /\ Subset(r, n)
             /\ Len(r) = Len(s)
             /\ \A j \in 1 .. Len(s) : r[j] = IF j > i THEN s[j] ELSE s[i] - 1 - (i - j)
<1> DEFINE k == Len(s)
           i == Min(Shrinkable(s))
           r == nextRightmost(s)
<1>1. k \in Nat /\ \A j \in 1 .. k : s[j] \in 1 .. n
  BY SubsetFacts
<1>2. Shrinkable(s) \in SUBSET Nat
  BY <1>1 DEF Shrinkable
<1>3. i \in Shrinkable(s) /\ \A j \in Shrinkable(s) : i <= j
  BY <1>1, <1>2, MinFacts
<1>4. r = [j \in 1 .. k |-> IF j > i THEN s[j] ELSE s[i] - 1 - (i - j)]
  BY DEF nextRightmost
<1> HIDE DEF i, r
<1>5. i \in 1 .. k /\ s[i] > i
  BY <1>3 DEF Shrinkable
<1>6. \A j \in 1 .. k : j < i => s[j] = j
  <2> TAKE j \in 1 .. k
  <2>1. j < i => ~(s[j] > j)
    BY <1>1, <1>3, <1>5 DEF Shrinkable
  <2>2. j <= s[j]
    BY SubsetBounds
  <2> QED
    BY <2>1, <2>2, <1>1
<1>8. \A j \in 1 .. k : r[j] = IF j > i THEN s[j] ELSE s[i] - 1 - (i - j)
  BY <1>4
<1>9. \A j \in 1 .. k : r[j] \in 1 .. n
  BY <1>1, <1>5, <1>8
<1>10. r \in Seq(1 .. n) /\ Len(r) = k
  BY <1>1, <1>4, <1>9
<1>11. Ascending(r)
  <2> SUFFICES ASSUME NEW x \in 1 .. k, NEW y \in 1 .. k, x < y PROVE r[x] < r[y]
    BY <1>10 DEF Ascending
  <2>1. \A p, q \in 1 .. k : p < q => s[p] < s[q]
    BY DEF Subset, Ascending
  <2>2. i < y => s[i] < s[y]
    BY <2>1, <1>5
  <2>3. x < y => s[x] < s[y]
    BY <2>1
  <2> QED
    BY <2>2, <2>3, <1>1, <1>5, <1>8
<1> QED
  BY <1>5, <1>6, <1>8, <1>10, <1>11 DEF Subset, i, r

\* From the left: what is ahead of the next subset was ahead of this one, or is this one.
LEMMA ComboIsNext ==
  ASSUME NEW n \in Nat, NEW s, Subset(s, n), Growable(s, n) /= {},
         NEW X \in SUBSET (1 .. n), Cardinality(X) = Len(s),
         LeftAhead(X, Range(nextCombo(s, n)))
  PROVE  X = Range(s) \/ LeftAhead(X, Range(s))
<1> DEFINE k == Len(s)
           i == Max(Growable(s, n))
           r == nextCombo(s, n)
           S == Range(s)
           R == Range(r)
           v == s[i]
<1> HIDE DEF i, r
<1>1. /\ i \in 1 .. k /\ \A j \in 1 .. k : j > i => s[j] = n - k + j
      /\ Subset(r, n) /\ Len(r) = k
      /\ \A j \in 1 .. k : r[j] = IF j < i THEN s[j] ELSE v + 1 + (j - i)
  BY ComboFacts DEF i, r
<1>2. /\ k \in Nat /\ \A j \in 1 .. k : s[j] \in 1 .. n
      /\ S \in SUBSET (1 .. n) /\ Cardinality(S) = k
      /\ \A e : e \in S <=> \E j \in 1 .. k : s[j] = e
  BY SubsetFacts
<1>3. /\ R \in SUBSET (1 .. n) /\ Cardinality(R) = k
      /\ \A e : e \in R <=> \E j \in 1 .. k : r[j] = e
  BY <1>1, SubsetFacts
<1>4. \A p, q \in 1 .. k : p < q => s[p] < s[q]
  BY DEF Subset, Ascending
<1> HIDE DEF S, R, k
<1>5. v \in 1 .. n /\ v \in S
  BY <1>1, <1>2
<1>a. \A j \in 1 .. k : (s[j] < v <=> j < i) /\ (s[j] > v <=> j > i)
  <2> TAKE j \in 1 .. k
  <2>1. (j < i => s[j] < v) /\ (i < j => v < s[j]) /\ (j = i => s[j] = v)
    BY <1>1, <1>4 DEF v
  <2> QED
    BY <2>1, <1>1, <1>2, <1>5
<1> HIDE DEF v
<1>6. \A e \in 1 .. n : e < v => (e \in S <=> e \in R)
  <2> TAKE e \in 1 .. n
  <2> HAVE e < v
  <2>1. \A j \in 1 .. k : s[j] = e => j < i
    BY <1>a, <1>5
  <2>2. \A j \in 1 .. k : r[j] = e => j < i
    BY <1>1, <1>2, <1>5
  <2> QED
    BY <2>1, <2>2, <1>1, <1>2, <1>3
<1>7. v \notin R
  <2>1. \A j \in 1 .. k : j < i => s[j] < v
    BY <1>a
  <2>2. \A j \in 1 .. k : r[j] /= v
    BY <2>1, <1>1, <1>2, <1>5
  <2> QED
    BY <2>2, <1>3
<1>8. \A e \in 1 .. n : e > v => (e \in S <=> e >= n - k + i + 1)
  <2> TAKE e \in 1 .. n
  <2> HAVE e > v
  <2>1. \A j \in 1 .. k : s[j] = e => j > i
    BY <1>a, <1>5
  <2>2. e \in S => e >= n - k + i + 1
    BY <2>1, <1>1, <1>2
  <2>3. ASSUME e >= n - k + i + 1 PROVE e \in S
    <3>1. e - n + k \in 1 .. k /\ e - n + k > i
      BY <2>3, <1>1, <1>2
    <3>2. s[e - n + k] = n - k + (e - n + k)
      BY <3>1, <1>1
    <3> QED
      BY <3>1, <3>2, <1>2
  <2> QED
    BY <2>2, <2>3
<1>9. \A e \in 1 .. n : e > v => (e \in R <=> e <= v + 1 + (k - i))
  <2> TAKE e \in 1 .. n
  <2> HAVE e > v
  <2>0. \A j \in 1 .. k : j < i => s[j] < v
    BY <1>a
  <2>1. \A j \in 1 .. k : r[j] = e => j >= i
    BY <2>0, <1>1, <1>2, <1>5
  <2>2. e \in R => e <= v + 1 + (k - i)
    BY <2>1, <1>1, <1>2, <1>3, <1>5
  <2>3. ASSUME e <= v + 1 + (k - i) PROVE e \in R
    <3>1. e - v - 1 + i \in 1 .. k /\ e - v - 1 + i >= i
      BY <2>3, <1>1, <1>2, <1>5
    <3>2. r[e - v - 1 + i] = v + 1 + ((e - v - 1 + i) - i)
      BY <3>1, <1>1
    <3>3. r[e - v - 1 + i] = e
      BY <3>2, <1>1, <1>2, <1>5
    <3> QED
      BY <3>1, <3>3, <1>3
  <2> QED
    BY <2>2, <2>3
<1>10. LeftAhead(X, R) /\ Cardinality(X) = k
  BY DEF R, r, k
<1>11. PICK e \in X \ R : \A d \in X \cup R : d < e => d \in X /\ d \in R
  BY <1>10 DEF LeftAhead
<1>12. v + 1 + (k - i) \in Int /\ n - k + i + 1 \in Int /\ v \in Nat
  BY <1>1, <1>2, <1>5
<1>13. e <= v
  <2> SUFFICES ASSUME e > v PROVE FALSE
    BY <1>11, <1>12
  <2>1. \A d \in R : d < e
    BY <1>3, <1>9, <1>11, <1>12
  <2>2. R \subseteq X
    BY <2>1, <1>11
  <2> QED
    BY <2>2, <1>3, <1>10, <1>11, SameSize
<1>14. CASE e < v
  <2>1. e \in X \ S
    BY <1>14, <1>6, <1>11
  <2>2. ASSUME NEW d \in X \cup S, d < e PROVE d \in X /\ d \in S
    <3>1. d \in 1 .. n /\ d < v
      BY <2>2, <1>2, <1>14, <1>5, <1>11
    <3> QED
      BY <3>1, <2>2, <1>6, <1>11
  <2> QED
    BY <2>1, <2>2 DEF LeftAhead, S
<1>15. CASE e = v
  <2>1. \A d \in 1 .. n : d <= v => (d \in S <=> d \in X)
    <3> TAKE d \in 1 .. n
    <3>1. CASE d = v
      BY <3>1, <1>5, <1>11, <1>15
    <3>2. CASE d < v
      BY <3>2, <1>6, <1>11, <1>15
    <3>3. CASE d > v
      BY <3>3, <1>12
    <3> QED
      BY <3>1, <3>2, <3>3, <1>12
  <2> QED
    BY <2>1, <1>2, <1>8, <1>10, <1>12, LeftLast DEF S
<1> QED
  BY <1>12, <1>13, <1>14, <1>15, <1>11

\* From the right, likewise.
LEMMA RightmostIsNext ==
  ASSUME NEW n \in Nat, NEW s, Subset(s, n), Shrinkable(s) /= {},
         NEW X \in SUBSET (1 .. n), Cardinality(X) = Len(s),
         RightAhead(X, Range(nextRightmost(s)))
  PROVE  X = Range(s) \/ RightAhead(X, Range(s))
<1> DEFINE k == Len(s)
           i == Min(Shrinkable(s))
           r == nextRightmost(s)
           S == Range(s)
           R == Range(r)
           v == s[i]
<1> HIDE DEF i, r
<1>1. /\ i \in 1 .. k /\ \A j \in 1 .. k : j < i => s[j] = j
      /\ Subset(r, n) /\ Len(r) = k
      /\ \A j \in 1 .. k : r[j] = IF j > i THEN s[j] ELSE v - 1 - (i - j)
  BY RightmostFacts DEF i, r
<1>2. /\ k \in Nat /\ \A j \in 1 .. k : s[j] \in 1 .. n
      /\ S \in SUBSET (1 .. n) /\ Cardinality(S) = k
      /\ \A e : e \in S <=> \E j \in 1 .. k : s[j] = e
  BY SubsetFacts
<1>3. /\ R \in SUBSET (1 .. n) /\ Cardinality(R) = k
      /\ \A e : e \in R <=> \E j \in 1 .. k : r[j] = e
  BY <1>1, SubsetFacts
<1>4. \A p, q \in 1 .. k : p < q => s[p] < s[q]
  BY DEF Subset, Ascending
<1> HIDE DEF S, R, k
<1>5. v \in 1 .. n /\ v \in S
  BY <1>1, <1>2
<1>a. \A j \in 1 .. k : (s[j] < v <=> j < i) /\ (s[j] > v <=> j > i)
  <2> TAKE j \in 1 .. k
  <2>1. (j < i => s[j] < v) /\ (i < j => v < s[j]) /\ (j = i => s[j] = v)
    BY <1>1, <1>4 DEF v
  <2> QED
    BY <2>1, <1>1, <1>2, <1>5
<1> HIDE DEF v
<1>6. \A e \in 1 .. n : e > v => (e \in S <=> e \in R)
  <2> TAKE e \in 1 .. n
  <2> HAVE e > v
  <2>1. \A j \in 1 .. k : s[j] = e => j > i
    BY <1>a, <1>5
  <2>2. \A j \in 1 .. k : r[j] = e => j > i
    BY <1>1, <1>2, <1>5
  <2> QED
    BY <2>1, <2>2, <1>1, <1>2, <1>3
<1>7. v \notin R
  <2>1. \A j \in 1 .. k : j > i => s[j] > v
    BY <1>a
  <2>2. \A j \in 1 .. k : r[j] /= v
    BY <2>1, <1>1, <1>2, <1>5
  <2> QED
    BY <2>2, <1>3
<1>8. \A e \in 1 .. n : e < v => (e \in S <=> e <= i - 1)
  <2> TAKE e \in 1 .. n
  <2> HAVE e < v
  <2>1. \A j \in 1 .. k : s[j] = e => j < i
    BY <1>a, <1>5
  <2>2. e \in S => e <= i - 1
    BY <2>1, <1>1, <1>2
  <2>3. ASSUME e <= i - 1 PROVE e \in S
    BY <2>3, <1>1, <1>2
  <2> QED
    BY <2>2, <2>3
<1>9. \A e \in 1 .. n : e < v => (e \in R <=> e >= v - i)
  <2> TAKE e \in 1 .. n
  <2> HAVE e < v
  <2>0. \A j \in 1 .. k : j > i => s[j] > v
    BY <1>a
  <2>1. \A j \in 1 .. k : r[j] = e => j <= i
    BY <2>0, <1>1, <1>2, <1>5
  <2>2. e \in R => e >= v - i
    BY <2>1, <1>1, <1>2, <1>3, <1>5
  <2>3. ASSUME e >= v - i PROVE e \in R
    <3>1. e - v + 1 + i \in 1 .. k /\ e - v + 1 + i <= i
      BY <2>3, <1>1, <1>2, <1>5
    <3>2. r[e - v + 1 + i] = v - 1 - (i - (e - v + 1 + i))
      BY <3>1, <1>1
    <3>3. r[e - v + 1 + i] = e
      BY <3>2, <1>1, <1>2, <1>5
    <3> QED
      BY <3>1, <3>3, <1>3
  <2> QED
    BY <2>2, <2>3
<1>10. RightAhead(X, R) /\ Cardinality(X) = k
  BY DEF R, r, k
<1>11. PICK e \in X \ R : \A d \in X \cup R : d > e => d \in X /\ d \in R
  BY <1>10 DEF RightAhead
<1>12. v - i \in Int /\ i - 1 \in Int /\ v \in Nat
  BY <1>1, <1>2, <1>5
<1>13. e >= v
  <2> SUFFICES ASSUME e < v PROVE FALSE
    BY <1>11, <1>12
  <2>1. \A d \in R : d > e
    BY <1>3, <1>9, <1>11, <1>12
  <2>2. R \subseteq X
    BY <2>1, <1>11
  <2> QED
    BY <2>2, <1>3, <1>10, <1>11, SameSize
<1>14. CASE e > v
  <2>1. e \in X \ S
    BY <1>14, <1>6, <1>11
  <2>2. ASSUME NEW d \in X \cup S, d > e PROVE d \in X /\ d \in S
    <3>1. d \in 1 .. n /\ d > v
      BY <2>2, <1>2, <1>14, <1>5, <1>11
    <3> QED
      BY <3>1, <2>2, <1>6, <1>11
  <2> QED
    BY <2>1, <2>2 DEF RightAhead, S
<1>15. CASE e = v
  <2>1. \A d \in 1 .. n : d >= v => (d \in S <=> d \in X)
    <3> TAKE d \in 1 .. n
    <3>1. CASE d = v
      BY <3>1, <1>5, <1>11, <1>15
    <3>2. CASE d > v
      BY <3>2, <1>6, <1>11, <1>15
    <3>3. CASE d < v
      BY <3>3, <1>12
    <3> QED
      BY <3>1, <3>2, <3>3, <1>12
  <2> QED
    BY <2>1, <1>2, <1>8, <1>10, <1>12, RightLast DEF S
<1> QED
  BY <1>12, <1>13, <1>14, <1>15, <1>11

\* No set of its size is ahead of the first subset.
LEMMA FirstSubsetFacts ==
  ASSUME NEW n \in Nat, NEW k \in 1 .. n
  PROVE  /\ Subset(FirstSubset(k, n), n)
         /\ Len(FirstSubset(k, n)) = k
         /\ \A X \in SUBSET (1 .. n) : Earlier(tiebreak, X, FirstSubset(k, n)) => Cardinality(X) < k
<1> DEFINE f == FirstSubset(k, n)
           R == Range(f)
<1>1. CASE tiebreak = "RightmostDim"
  <2>1. f = [i \in 1 .. k |-> n - k + i]
    BY <1>1 DEF FirstSubset
  <2>2. \A i \in 1 .. k : n - k + i \in 1 .. n
    OBVIOUS
  <2> HIDE DEF f
  <2>3. f \in Seq(1 .. n) /\ Len(f) = k /\ \A i \in 1 .. k : f[i] = n - k + i
    BY <2>1, <2>2
  <2>4. Subset(f, n)
    BY <2>3 DEF Subset, Ascending
  <2>5. R \in SUBSET (1 .. n) /\ Cardinality(R) = k /\ \A e : e \in R <=> \E i \in 1 .. k : f[i] = e
    BY <2>3, <2>4, SubsetFacts
  <2>6. \A e \in 1 .. n : e \in R <=> e >= n - k + 1
    <3> TAKE e \in 1 .. n
    <3>1. e >= n - k + 1 => e - n + k \in 1 .. k /\ f[e - n + k] = n - k + (e - n + k)
      BY <2>3
    <3>2. e >= n - k + 1 => e \in R
      BY <3>1, <2>5
    <3>3. e \in R => e >= n - k + 1
      BY <2>3, <2>5
    <3> QED
      BY <3>2, <3>3
  <2> HIDE DEF R
  <2>7. ASSUME NEW X \in SUBSET (1 .. n), Cardinality(X) = k, RightAhead(X, R) PROVE FALSE
    <3>1. PICK e \in X \ R : \A d \in X \cup R : d > e => d \in X /\ d \in R
      BY <2>7 DEF RightAhead
    <3>2. \A d \in R : d > e
      BY <3>1, <2>5, <2>6
    <3>3. R \subseteq X
      BY <3>1, <3>2
    <3>4. Cardinality(X) = Cardinality(R)
      BY <2>5, <2>7
    <3>5. X = R
      BY <3>3, <3>4, <2>5, SameSize
    <3> QED
      BY <3>1, <3>5
  <2> QED
    BY <2>3, <2>4, <2>7, <1>1 DEF Earlier, Ahead, R, f
<1>2. CASE tiebreak /= "RightmostDim"
  <2>1. f = [i \in 1 .. k |-> i]
    BY <1>2 DEF FirstSubset
  <2>2. \A i \in 1 .. k : i \in 1 .. n
    OBVIOUS
  <2> HIDE DEF f
  <2>3. f \in Seq(1 .. n) /\ Len(f) = k /\ \A i \in 1 .. k : f[i] = i
    BY <2>1, <2>2
  <2>4. Subset(f, n)
    BY <2>3 DEF Subset, Ascending
  <2>5. R \in SUBSET (1 .. n) /\ Cardinality(R) = k /\ \A e : e \in R <=> \E i \in 1 .. k : f[i] = e
    BY <2>3, <2>4, SubsetFacts
  <2>6. \A e \in 1 .. n : e \in R <=> e <= k
    BY <2>3, <2>5
  <2> HIDE DEF R
  <2>7. ASSUME NEW X \in SUBSET (1 .. n), Cardinality(X) = k, LeftAhead(X, R) PROVE FALSE
    <3>1. PICK e \in X \ R : \A d \in X \cup R : d < e => d \in X /\ d \in R
      BY <2>7 DEF LeftAhead
    <3>2. \A d \in R : d < e
      BY <3>1, <2>5, <2>6
    <3>3. R \subseteq X
      BY <3>1, <3>2
    <3>4. Cardinality(X) = Cardinality(R)
      BY <2>5, <2>7
    <3>5. X = R
      BY <3>3, <3>4, <2>5, SameSize
    <3> QED
      BY <3>1, <3>5
  <2> QED
    BY <2>3, <2>4, <2>7, <1>2 DEF Earlier, Ahead, R, f
<1> QED
  BY <1>1, <1>2

\* Every other set of its size is ahead of the last subset of a size.
LEMMA LastOfSizeFacts ==
  ASSUME NEW n \in Nat, NEW s, Subset(s, n), LastOfSize(s, n),
         NEW X \in SUBSET (1 .. n), Cardinality(X) <= Len(s)
  PROVE  X = Range(s) \/ Earlier(tiebreak, X, s)
<1> DEFINE k == Len(s)
           S == Range(s)
<1>1. /\ k \in Nat /\ \A i \in 1 .. k : s[i] \in 1 .. n
      /\ S \in SUBSET (1 .. n) /\ Cardinality(S) = k
      /\ \A e : e \in S <=> \E i \in 1 .. k : s[i] = e
  BY SubsetFacts
<1>2. Cardinality(X) \in Nat
  BY DimensionSets
<1>3. SUFFICES ASSUME Cardinality(X) = k, X /= S PROVE Ahead(tiebreak, X, S)
  BY <1>1, <1>2 DEF Earlier
<1>a. k <= n
  BY SubsetFacts
<1> HIDE DEF k, S
<1>4. CASE tiebreak = "RightmostDim"
  <2>1. \A i \in 1 .. k : s[i] = i
    <3>1. \A i \in 1 .. k : ~ (s[i] > i)
      BY <1>4 DEF LastOfSize, Shrinkable, k
    <3>2. \A i \in 1 .. k : i <= s[i]
      BY SubsetBounds DEF k
    <3> QED
      BY <3>1, <3>2, <1>1
  <2>2. \A e \in 1 .. n : e \in S <=> e <= k
    BY <2>1, <1>1
  <2>3. RightAhead(X, S)
    <3>1. \A e \in 1 .. n : e < n + 1 => (e \in S <=> e <= k)
      BY <2>2
    <3>2. \A e \in 1 .. n : e >= n + 1 => (e \in S <=> e \in X)
      OBVIOUS
    <3>3. n + 1 \in Nat /\ k \in Int /\ Cardinality(X) = Cardinality(S)
      BY <1>1, <1>3
    <3> QED
      BY <3>1, <3>2, <3>3, <1>1, <1>3, RightLast
  <2> QED
    BY <2>3, <1>4 DEF Ahead
<1>5. CASE tiebreak /= "RightmostDim"
  <2>1. \A i \in 1 .. k : s[i] = n - k + i
    BY <1>5, <1>1 DEF LastOfSize, Growable, k
  <2>2. \A e \in 1 .. n : e \in S <=> e >= n - k + 1
    <3> TAKE e \in 1 .. n
    <3>1. e >= n - k + 1 => e - n + k \in 1 .. k /\ s[e - n + k] = n - k + (e - n + k)
      BY <2>1, <1>1, <1>a
    <3>2. e >= n - k + 1 => e \in S
      BY <3>1, <1>1
    <3>3. e \in S => e >= n - k + 1
      BY <2>1, <1>1
    <3> QED
      BY <3>2, <3>3
  <2>3. LeftAhead(X, S)
    <3>1. \A e \in 1 .. n : e > 0 => (e \in S <=> e >= n - k + 1)
      BY <2>2
    <3>2. \A e \in 1 .. n : e <= 0 => (e \in S <=> e \in X)
      OBVIOUS
    <3>3. n - k + 1 \in Int
      BY <1>1
    <3> QED
      BY <3>1, <3>2, <3>3, <1>1, <1>3, LeftLast
  <2> QED
    BY <2>3, <1>5 DEF Ahead
<1> QED
  BY <1>4, <1>5

\* The next subset leaves out none: what is earlier than it is no later than this one.
LEMMA NextSubsetFacts ==
  ASSUME NEW n \in Nat, NEW s, Subset(s, n), ~(Len(s) = n /\ LastOfSize(s, n)),
         Len(s) \in Nat \ {0}
  PROVE  /\ Subset(NextSubset(s, n), n)
         /\ Len(NextSubset(s, n)) \in Nat \ {0}
         /\ \A X \in SUBSET (1 .. n) :
              Earlier(tiebreak, X, NextSubset(s, n)) => X = Range(s) \/ Earlier(tiebreak, X, s)
<1> DEFINE k == Len(s)
           r == NextSubset(s, n)
<1>1. k \in Nat \ {0} /\ k <= n
  BY SubsetFacts
<1>2. CASE LastOfSize(s, n)
  <2>1. k + 1 \in 1 .. n /\ r = FirstSubset(k + 1, n)
    BY <1>1, <1>2 DEF NextSubset
  <2>2. Subset(r, n) /\ Len(r) = k + 1 /\ \A X \in SUBSET (1 .. n) : Earlier(tiebreak, X, r) => Cardinality(X) < k + 1
    BY <2>1, FirstSubsetFacts
  <2>3. ASSUME NEW X \in SUBSET (1 .. n), Earlier(tiebreak, X, r) PROVE X = Range(s) \/ Earlier(tiebreak, X, s)
    <3>1. Cardinality(X) \in Nat
      BY DimensionSets
    <3>2. Cardinality(X) <= k
      BY <2>2, <2>3, <3>1, <1>1
    <3> QED
      BY <3>2, <1>2, LastOfSizeFacts
  <2> QED
    BY <2>2, <2>3, <1>1
<1>3. CASE ~LastOfSize(s, n) /\ tiebreak = "RightmostDim"
  <2>1. Shrinkable(s) /= {} /\ r = nextRightmost(s)
    BY <1>3 DEF LastOfSize, NextSubset
  <2>2. Subset(r, n) /\ Len(r) = k
    BY <2>1, RightmostFacts
  <2>3. ASSUME NEW X \in SUBSET (1 .. n), Earlier(tiebreak, X, r) PROVE X = Range(s) \/ Earlier(tiebreak, X, s)
    BY <2>1, <2>2, <2>3, <1>3, RightmostIsNext DEF Earlier, Ahead
  <2> QED
    BY <2>2, <2>3, <1>1
<1>4. CASE ~LastOfSize(s, n) /\ tiebreak /= "RightmostDim"
  <2>1. Growable(s, n) /= {} /\ r = nextCombo(s, n)
    BY <1>4 DEF LastOfSize, NextSubset
  <2>2. Subset(r, n) /\ Len(r) = k
    BY <2>1, ComboFacts
  <2>3. ASSUME NEW X \in SUBSET (1 .. n), Earlier(tiebreak, X, r) PROVE X = Range(s) \/ Earlier(tiebreak, X, s)
    BY <2>1, <2>2, <2>3, <1>4, ComboIsNext DEF Earlier, Ahead
  <2> QED
    BY <2>2, <2>3, <1>1
<1> QED
  BY <1>2, <1>3, <1>4

-----------------------------------------------------------------------------
(***************************************************************************)
(* The inductive invariant.  A call is looked at by itself: with the       *)
(* strategy tb, the engine e it asks, its state c and its scratch slice m. *)
(***************************************************************************)
CallType ==
  [pc : {"idle", "get", "dfs", "check", "put", "answered"},
   op : {"none", "Closest", "ClosestIn"}, values : Seq(Value),
   sel : Selectors \cup {NoSelector}, subset : Seq(Nat), at : Seq(Nat),
   slice : Slices \cup {NoSlice},
   err : {"nil", "ErrArityMismatch", "ErrInvalidDimension"},
   result : [conditions : Seq(Value), distance : Nat, dim : Nat]]

Width(e) == Len(e.dims)

Searching(c) == c.pc \in {"get", "dfs", "check", "put"}
Holding(c) == c.pc \in {"dfs", "check", "put"}
Looping(c) == c.pc \in {"dfs", "check"}
Found(c) == c.pc \in {"put", "answered"} /\ c.result /= Nil

CallOK(e, c) ==
  /\ c.pc = "idle" => c = Idle
  /\ Subset(c.subset, Width(e))
  /\ Searching(c) \/ Found(c) =>
       /\ Len(c.values) = Width(e) /\ c.err = "nil" /\ c.op /= "none"
       /\ Len(c.subset) \in Nat \ {0}
       /\ c.op = "ClosestIn" => Len(c.subset) = 1
  /\ c.slice \in IF Holding(c) THEN Slices ELSE {NoSlice}
  /\ c.pc \in {"get", "dfs", "check"} => c.result = Nil

\* The open loops that stand on a value.
Chosen(c) == IF c.pc = "check" THEN Len(c.at) ELSE Len(c.at) - 1

LoopsOK(e, c) ==
  Looping(c) =>
    /\ Len(c.at) \in 1 .. Len(c.subset)
    /\ c.pc = "check" => Len(c.at) = Len(c.subset)
    /\ \A n \in 1 .. Len(c.at) : c.at[n] \in Nat \ {0}
    /\ \A n \in 1 .. Chosen(c) :
         /\ c.at[n] <= Len(e.dims[c.subset[n]])
         /\ e.dims[c.subset[n]][c.at[n]] /= c.values[c.subset[n]]

ScratchOK(e, c, m) ==
  /\ Holding(c) => Len(m) >= Width(e)
  /\ Looping(c) =>
       /\ \A n \in 1 .. Chosen(c) : m[c.subset[n]] = e.dims[c.subset[n]][c.at[n]]
       /\ \A i \in 1 .. Width(e) : (\A n \in 1 .. Chosen(c) : c.subset[n] /= i) => m[i] = c.values[i]

\* No tuple that changes exactly the dimensions X, to declared values, is allowed.
Proposes(e, q, X, t) ==
  Changed(q, t) = X /\ \A i \in X : contains(e.dims[i], t[i])

Barren(e, q, X) == \A t \in Tuples(Width(e)) : Proposes(e, q, X, t) => ~Allowed(e, t)

\* Closest has been through every set of dimensions before the one it is at.
EarlierBarren(tb, e, c) ==
  (Searching(c) \/ Found(c)) /\ c.op = "Closest" =>
    \A X \in SUBSET (1 .. Width(e)) :
      X /= {} /\ Earlier(tb, X, c.subset) => Barren(e, c.values, X)

\* The tuple of a subset that stands at these positions of its dimensions.
Places(e) == UNION {DOMAIN e.dims[i] : i \in 1 .. Width(e)}

Stands(e, c, t, ps) ==
  /\ Changed(c.values, t) = Range(c.subset)
  /\ \A n \in 1 .. Len(c.subset) :
       ps[n] \in DOMAIN e.dims[c.subset[n]] /\ e.dims[c.subset[n]][ps[n]] = t[c.subset[n]]

\* The positions ps come before the open loops at.
Passed(ps, at) ==
  \E n \in 1 .. Len(at) : ps[n] < at[n] /\ \A l \in 1 .. n - 1 : ps[l] = at[l]

LoopsBarren(e, c) ==
  Looping(c) =>
    \A t \in Tuples(Width(e)) : \A ps \in [1 .. Len(c.subset) -> Places(e)] :
      Stands(e, c, t, ps) /\ Passed(ps, c.at) => ~Allowed(e, t)

SubsetBarren(e, c) ==
  c.pc = "put" /\ c.result = Nil => Barren(e, c.values, Range(c.subset))

ResultOK(tb, e, c) ==
  Found(c) =>
    LET r == c.result
        S == Range(c.subset)
    IN  /\ r.conditions \in Tuples(Width(e))
        /\ Proposes(e, c.values, S, r.conditions)
        /\ Allowed(e, r.conditions)
        /\ r.distance = Cardinality(S)
        /\ r.dim = IF tb = "RightmostDim" THEN Max(S) ELSE Min(S)
        /\ \A t \in Tuples(Width(e)) :
             Proposes(e, c.values, S, t) /\ Allowed(e, t) =>
               ~Before(e.dims, c.values, t, r.conditions)

NoCandidate(e, c) ==
  Candidates(e, c.values, IF c.op = "ClosestIn" THEN Range(c.subset) ELSE 1 .. Width(e)) = {}

NothingMissed(e, c) == Searched(c) /\ c.result = Nil => NoCandidate(e, c)

CallInv(tb, e, c, m) ==
  /\ CallOK(e, c)
  /\ LoopsOK(e, c)
  /\ ScratchOK(e, c, m)
  /\ EarlierBarren(tb, e, c)
  /\ LoopsBarren(e, c)
  /\ SubsetBarren(e, c)
  /\ ResultOK(tb, e, c)
  /\ NothingMissed(e, c)

StateType ==
  /\ engine \in [Proc -> Configs]
  /\ pool \subseteq Slices
  /\ mem \in [Slices -> Seq(Value)]
  /\ g \in [Proc -> CallType]

IInv ==
  /\ StateType
  /\ ScratchIsPrivate
  /\ \A p \in Proc : CallInv(tiebreak, engine[p], g[p], IF g[p].slice = NoSlice THEN <<>> ELSE mem[g[p].slice])

-----------------------------------------------------------------------------
(***************************************************************************)
(* The loops: what turning, opening and ending one does to what is passed. *)
(***************************************************************************)
LEMMA EngineFacts ==
  ASSUME NEW e \in Config
  PROVE  /\ Width(e) \in Nat
         /\ \A i \in 1 .. Width(e) :
              /\ e.dims[i] \in Seq(Value)
              /\ Len(e.dims[i]) \in Nat
              /\ DOMAIN e.dims[i] = 1 .. Len(e.dims[i])
              /\ \A n \in 1 .. Len(e.dims[i]) : e.dims[i][n] \in Value
BY DEF Config, Width

\* What a prefix of a sequence is.
LEMMA FrontFacts ==
  ASSUME NEW S, NEW s \in Seq(S), NEW n \in 0 .. Len(s)
  PROVE  /\ SubSeq(s, 1, n) \in Seq(S)
         /\ Len(SubSeq(s, 1, n)) = n
         /\ \A i \in 1 .. n : SubSeq(s, 1, n)[i] = s[i]
<1>1. Len(s) \in Nat /\ n \in Nat
  OBVIOUS
<1>2. SubSeq(s, 1, n) = [i \in 1 .. n |-> s[i]]
  BY <1>1, SubSeqRestrict DEF Restrict
<1>3. \A i \in 1 .. n : s[i] \in S
  BY <1>1
<1> QED
  BY <1>1, <1>2, <1>3

\* What NextValue returns.
LEMMA NextValueFacts ==
  ASSUME NEW at \in Seq(Nat), Len(at) \in Nat \ {0}
  PROVE  /\ NextValue(at) \in Seq(Nat)
         /\ Len(NextValue(at)) = Len(at)
         /\ \A n \in 1 .. Len(at) :
              NextValue(at)[n] = IF n = Len(at) THEN at[n] + 1 ELSE at[n]
BY DEF NextValue

\* Turning the innermost loop passes one more combination.
LEMMA PassedNext ==
  ASSUME NEW at \in Seq(Nat), Len(at) \in Nat \ {0}, NEW ps,
         \A n \in 1 .. Len(at) : ps[n] \in Nat,
         Passed(ps, NextValue(at))
  PROVE  Passed(ps, at) \/ \A n \in 1 .. Len(at) : ps[n] = at[n]
<1> DEFINE k == Len(at)
           nx == NextValue(at)
<1>1. Len(nx) = k /\ \A n \in 1 .. k : nx[n] = IF n = k THEN at[n] + 1 ELSE at[n]
  BY NextValueFacts
<1> HIDE DEF nx
<1>2. PICK n \in 1 .. k : ps[n] < nx[n] /\ \A l \in 1 .. n - 1 : ps[l] = nx[l]
  BY <1>1 DEF Passed, nx
<1>3. \A l \in 1 .. n - 1 : ps[l] = at[l]
  BY <1>1, <1>2
<1>4. CASE ps[n] < at[n]
  BY <1>3, <1>4 DEF Passed
<1>5. CASE ~(ps[n] < at[n])
  <2>1. n = k /\ ps[n] = at[n]
    BY <1>1, <1>2, <1>5
  <2> QED
    BY <2>1, <1>3
<1> QED
  BY <1>4, <1>5

\* Opening a loop at its first value passes nothing.
LEMMA PassedAppend ==
  ASSUME NEW at \in Seq(Nat), NEW ps, ps[Len(at) + 1] \in Nat \ {0},
         Passed(ps, Append(at, 1))
  PROVE  Passed(ps, at)
<1> DEFINE k == Len(at)
           nx == Append(at, 1)
<1>1. k \in Nat /\ Len(nx) = k + 1 /\ nx[k + 1] = 1 /\ \A n \in 1 .. k : nx[n] = at[n]
  BY AppendProperties
<1> HIDE DEF nx
<1>2. PICK n \in 1 .. k + 1 : ps[n] < nx[n] /\ \A l \in 1 .. n - 1 : ps[l] = nx[l]
  BY <1>1 DEF Passed, nx
<1>3. n /= k + 1
  BY <1>1, <1>2
<1>4. n \in 1 .. k /\ ps[n] < at[n] /\ \A l \in 1 .. n - 1 : ps[l] = at[l]
  BY <1>1, <1>2, <1>3
<1> QED
  BY <1>4 DEF Passed

\* Closing a loop that is done passes nothing new.
LEMMA PassedPop ==
  ASSUME NEW at \in Seq(Nat), Len(at) \in Nat \ {0, 1}, NEW ps,
         \A n \in 1 .. Len(at) : ps[n] \in Nat,
         ps[Len(at)] < at[Len(at)],
         Passed(ps, NextValue(SubSeq(at, 1, Len(at) - 1)))
  PROVE  Passed(ps, at)
<1> DEFINE k == Len(at)
           fr == SubSeq(at, 1, k - 1)
<1>1. fr \in Seq(Nat) /\ Len(fr) = k - 1 /\ \A n \in 1 .. k - 1 : fr[n] = at[n]
  <2>1. k - 1 \in 0 .. Len(at)
    OBVIOUS
  <2> QED
    BY <2>1, FrontFacts
<1> HIDE DEF fr
<1>2. Passed(ps, NextValue(fr))
  BY DEF fr
<1>a. k \in Nat \ {0, 1} /\ \A n \in 1 .. k : ps[n] \in Nat
  OBVIOUS
<1>b. Len(fr) \in Nat \ {0} /\ \A n \in 1 .. Len(fr) : ps[n] \in Nat
  BY <1>1, <1>a
<1>3. Passed(ps, fr) \/ \A n \in 1 .. Len(fr) : ps[n] = fr[n]
  BY <1>1, <1>2, <1>b, PassedNext
<1>4. CASE Passed(ps, fr)
  <2>1. PICK n \in 1 .. k - 1 : ps[n] < fr[n] /\ \A l \in 1 .. n - 1 : ps[l] = fr[l]
    BY <1>1, <1>4 DEF Passed
  <2> HIDE DEF k
  <2>2. n \in 1 .. k /\ ps[n] < at[n]
    BY <1>1, <1>a, <2>1
  <2>3. \A l \in 1 .. n - 1 : l \in 1 .. k - 1
    BY <1>a
  <2>4. \A l \in 1 .. n - 1 : ps[l] = at[l]
    BY <1>1, <2>1, <2>3
  <2> QED
    BY <2>2, <2>4 DEF Passed, k
<1>5. CASE \A n \in 1 .. Len(fr) : ps[n] = fr[n]
  <2>1. \A n \in 1 .. k - 1 : ps[n] = at[n]
    BY <1>1, <1>5
  <2> QED
    BY <2>1 DEF Passed
<1> QED
  BY <1>3, <1>4, <1>5

(***************************************************************************)
(* A tuple a subset can propose stands at some positions of it.            *)
(***************************************************************************)
LEMMA StandsSomewhere ==
  ASSUME NEW e \in Config, NEW c \in CallType, Subset(c.subset, Width(e)),
         NEW t, Proposes(e, c.values, Range(c.subset), t)
  PROVE  \E ps \in [1 .. Len(c.subset) -> Places(e)] : Stands(e, c, t, ps)
<1> DEFINE s == c.subset
           at(n) == {k \in DOMAIN e.dims[s[n]] : e.dims[s[n]][k] = t[s[n]]}
           ps == [n \in 1 .. Len(s) |-> CHOOSE k \in at(n) : TRUE]
<1>1. Width(e) \in Nat
  BY EngineFacts
<1>2. \A n \in 1 .. Len(s) : s[n] \in 1 .. Width(e) /\ s[n] \in Range(s)
  BY <1>1, SubsetFacts
<1>3. \A n \in 1 .. Len(s) : at(n) /= {}
  BY <1>2 DEF Proposes, contains, Range
<1>4. \A n \in 1 .. Len(s) : ps[n] \in at(n)
  BY <1>3
<1>5. \A n \in 1 .. Len(s) : ps[n] \in Places(e)
  BY <1>2, <1>4 DEF Places
<1>6. ps \in [1 .. Len(s) -> Places(e)]
  BY <1>5
<1>7. Stands(e, c, t, ps)
  BY <1>4 DEF Stands, Proposes
<1> QED
  BY <1>6, <1>7

\* Positions are counted from 1 and end with their dimension.
LEMMA StandsFacts ==
  ASSUME NEW e \in Config, NEW c \in CallType, Subset(c.subset, Width(e)),
         NEW t, NEW ps, Stands(e, c, t, ps)
  PROVE  \A n \in 1 .. Len(c.subset) :
           /\ ps[n] \in Nat \ {0}
           /\ ps[n] <= Len(e.dims[c.subset[n]])
           /\ e.dims[c.subset[n]][ps[n]] = t[c.subset[n]]
           /\ t[c.subset[n]] /= c.values[c.subset[n]]
<1>1. Width(e) \in Nat
  BY EngineFacts
<1>2. \A n \in 1 .. Len(c.subset) : c.subset[n] \in 1 .. Width(e) /\ c.subset[n] \in Range(c.subset)
  BY <1>1, SubsetFacts
<1>3. \A n \in 1 .. Len(c.subset) : t[c.subset[n]] /= c.values[c.subset[n]]
  BY <1>2 DEF Stands, Changed
<1> SUFFICES ASSUME NEW n \in 1 .. Len(c.subset)
             PROVE  /\ ps[n] \in Nat \ {0}
                    /\ ps[n] <= Len(e.dims[c.subset[n]])
                    /\ e.dims[c.subset[n]][ps[n]] = t[c.subset[n]]
  BY <1>3
<1> DEFINE d == e.dims[c.subset[n]]
<1>4. Len(d) \in Nat /\ DOMAIN d = 1 .. Len(d)
  BY <1>2, EngineFacts
<1>5. ps[n] \in DOMAIN d /\ d[ps[n]] = t[c.subset[n]]
  BY DEF Stands
<1> QED
  BY <1>4, <1>5

-----------------------------------------------------------------------------
(***************************************************************************)
(* One lemma per step of a call: from the call c with scratch m to the     *)
(* call d with scratch w.                                                  *)
(***************************************************************************)
SameCall(c, d) ==
  d.op = c.op /\ d.values = c.values /\ d.subset = c.subset /\ d.err = c.err

\* What a search knows of itself while it goes on.
LEMMA SearchFacts ==
  ASSUME NEW tb, NEW e \in Config, NEW c \in CallType, NEW m, CallInv(tb, e, c, m), Searching(c)
  PROVE  /\ Width(e) \in Nat
         /\ Len(c.subset) \in Nat \ {0}
         /\ Len(c.values) = Width(e)
         /\ \A i \in 1 .. Width(e) : c.values[i] \in Value
         /\ \A n \in 1 .. Len(c.subset) : c.subset[n] \in 1 .. Width(e) /\ c.subset[n] \in Range(c.subset)
         /\ \A i, j \in 1 .. Len(c.subset) : i /= j => c.subset[i] /= c.subset[j]
         /\ c.at \in Seq(Nat)
<1>1. Width(e) \in Nat
  BY EngineFacts
<1>2. Len(c.subset) \in Nat \ {0} /\ Len(c.values) = Width(e) /\ Subset(c.subset, Width(e))
  BY DEF CallInv, CallOK
<1>3. \A n \in 1 .. Len(c.subset) : c.subset[n] \in 1 .. Width(e) /\ c.subset[n] \in Range(c.subset)
  BY <1>1, <1>2, SubsetFacts
<1>4. \A i, j \in 1 .. Len(c.subset) : i < j => c.subset[i] < c.subset[j]
  BY <1>2 DEF Subset, Ascending
<1>5. \A i, j \in 1 .. Len(c.subset) : i /= j => c.subset[i] /= c.subset[j]
  BY <1>2, <1>3, <1>4
<1>6. c.at \in Seq(Nat) /\ c.values \in Seq(Value)
  BY DEF CallType
<1>7. \A i \in 1 .. Width(e) : c.values[i] \in Value
  BY <1>2, <1>6
<1> QED
  BY <1>1, <1>2, <1>3, <1>5, <1>6, <1>7

\* The scratch slice w, when the first k loops stand on a value.
Standing(e, c, k, w) ==
  /\ w \in Seq(Value)
  /\ Len(w) >= Width(e)
  /\ \A n \in 1 .. k :
       /\ c.at[n] <= Len(e.dims[c.subset[n]])
       /\ e.dims[c.subset[n]][c.at[n]] /= c.values[c.subset[n]]
       /\ w[c.subset[n]] = e.dims[c.subset[n]][c.at[n]]
  /\ \A i \in 1 .. Width(e) : (\A n \in 1 .. k : c.subset[n] /= i) => w[i] = c.values[i]

\* What the slice of a call in its loops holds.
LEMMA CallStands ==
  ASSUME NEW tb, NEW e \in Config, NEW c \in CallType, NEW m \in Seq(Value), CallInv(tb, e, c, m),
         Looping(c)
  PROVE  Standing(e, c, Chosen(c), m)
<1>1. LoopsOK(e, c) /\ ScratchOK(e, c, m) /\ Holding(c)
  BY DEF CallInv, Looping, Holding
<1> QED
  BY <1>1 DEF LoopsOK, ScratchOK, Standing

\* It depends on the values chosen, not on the rest of the call.
LEMMA SameStanding ==
  ASSUME NEW e, NEW c, NEW k, NEW w, Standing(e, c, k, w),
         NEW d, SameCall(c, d), \A n \in 1 .. k : d.at[n] = c.at[n]
  PROVE  Standing(e, d, k, w)
BY DEF Standing, SameCall

\* A step of the loops keeps the invariant when it keeps what they have searched.
LEMMA LoopStep ==
  ASSUME NEW tb, NEW e \in Config, NEW c \in CallType, NEW m, CallInv(tb, e, c, m),
         Searching(c), c.result = Nil,
         NEW d \in CallType, SameCall(c, d), Looping(d), d.slice \in Slices, d.result = Nil,
         Len(d.at) \in 1 .. Len(c.subset), d.pc = "check" => Len(d.at) = Len(c.subset),
         \A n \in 1 .. Len(d.at) : d.at[n] \in Nat \ {0},
         NEW w, Standing(e, d, Chosen(d), w), LoopsBarren(e, d)
  PROVE  w \in Seq(Value) /\ CallInv(tb, e, d, w)
<1>1. CallOK(e, d)
  BY DEF CallInv, CallOK, SameCall, Searching, Looping, Holding, Found
<1>2. EarlierBarren(tb, e, d)
  <2>1. c.op = "Closest" => \A X \in SUBSET (1 .. Width(e)) :
          X /= {} /\ Earlier(tb, X, c.subset) => Barren(e, c.values, X)
    BY DEF CallInv, EarlierBarren
  <2> QED
    BY <2>1 DEF EarlierBarren, SameCall
<1>3. SubsetBarren(e, d) /\ ResultOK(tb, e, d) /\ NothingMissed(e, d)
  BY DEF SubsetBarren, ResultOK, NothingMissed, Looping, Found, Searched
<1>4. LoopsOK(e, d)
  BY DEF LoopsOK, SameCall, Standing
<1>5. w \in Seq(Value) /\ ScratchOK(e, d, w)
  BY DEF ScratchOK, Standing
<1> QED
  BY <1>1, <1>2, <1>3, <1>4, <1>5 DEF CallInv

\* GetScratch: no loop stands on a value, nothing is passed.
LEMMA GetStep ==
  ASSUME NEW tb, NEW e \in Config, NEW c \in CallType, NEW m, CallInv(tb, e, c, m), c.pc = "get",
         NEW d \in CallType, SameCall(c, d), d.pc = "dfs", d.slice \in Slices, d.result = c.result,
         d.at = << 1 >>,
         NEW w \in Seq(Value), Len(w) >= Width(e), \A i \in 1 .. Width(e) : w[i] = c.values[i]
  PROVE  CallInv(tb, e, d, w)
<1>1. Searching(c) /\ c.result = Nil /\ Looping(d) /\ d.result = Nil
  BY DEF Searching, Looping, CallInv, CallOK
<1>2. Len(c.subset) \in Nat \ {0} /\ Width(e) \in Nat /\ Subset(c.subset, Width(e))
  BY <1>1, SearchFacts DEF CallInv, CallOK
<1>3. Len(d.at) = 1 /\ d.at[1] = 1 /\ Chosen(d) = 0
  BY DEF Chosen
<1>4. Len(d.at) \in 1 .. Len(c.subset) /\ \A n \in 1 .. Len(d.at) : d.at[n] \in Nat \ {0}
  BY <1>2, <1>3
<1>5. Standing(e, d, Chosen(d), w)
  BY <1>3 DEF Standing, SameCall
<1>6. LoopsBarren(e, d)
  <2> SUFFICES ASSUME NEW t \in Tuples(Width(e)), NEW ps, Stands(e, d, t, ps), Passed(ps, d.at)
               PROVE FALSE
    BY DEF LoopsBarren
  <2>1. Stands(e, c, t, ps)
    BY DEF Stands, SameCall
  <2>2. ps[1] \in Nat \ {0}
    BY <1>2, <2>1, StandsFacts
  <2> QED
    BY <2>2, <1>3 DEF Passed
<1> QED
  BY <1>1, <1>4, <1>5, <1>6, LoopStep

\* The facts of a loop that TryValue and EndLoop look at.
LEMMA LoopFacts ==
  ASSUME NEW tb, NEW e \in Config, NEW c \in CallType, NEW m \in Seq(Value), CallInv(tb, e, c, m),
         Looping(c)
  PROVE  /\ Searching(c) /\ c.result = Nil /\ c.slice \in Slices
         /\ Len(c.at) \in 1 .. Len(c.subset) /\ Len(c.at) \in Nat \ {0}
         /\ \A n \in 1 .. Len(c.at) :
              /\ n \in 1 .. Len(c.subset)
              /\ c.at[n] \in Nat \ {0}
              /\ c.subset[n] \in 1 .. Width(e)
              /\ e.dims[c.subset[n]] \in Seq(Value)
              /\ Len(e.dims[c.subset[n]]) \in Nat
              /\ \A k \in 1 .. Len(e.dims[c.subset[n]]) : e.dims[c.subset[n]][k] \in Value
         /\ Len(m) \in Nat /\ Len(m) >= Width(e)
         /\ Subset(c.subset, Width(e))
<1>1. Searching(c) /\ c.result = Nil /\ c.slice \in Slices /\ Subset(c.subset, Width(e))
  BY DEF Searching, Looping, Holding, CallInv, CallOK
<1>2. Len(c.at) \in 1 .. Len(c.subset) /\ \A n \in 1 .. Len(c.at) : c.at[n] \in Nat \ {0}
  BY DEF CallInv, LoopsOK
<1>3. Len(c.subset) \in Nat \ {0}
  BY <1>1, SearchFacts
<1>4. \A n \in 1 .. Len(c.at) : n \in 1 .. Len(c.subset)
  BY <1>2, <1>3
<1>5. \A n \in 1 .. Len(c.subset) : c.subset[n] \in 1 .. Width(e)
  BY <1>1, SearchFacts
<1>6. Len(m) \in Nat /\ Len(m) >= Width(e)
  BY DEF CallInv, ScratchOK, Looping, Holding
<1>7. ASSUME NEW n \in 1 .. Len(c.at)
      PROVE  /\ e.dims[c.subset[n]] \in Seq(Value)
             /\ Len(e.dims[c.subset[n]]) \in Nat
             /\ \A k \in 1 .. Len(e.dims[c.subset[n]]) : e.dims[c.subset[n]][k] \in Value
  <2>1. c.subset[n] \in 1 .. Width(e)
    BY <1>4, <1>5
  <2> QED
    BY <2>1, EngineFacts
<1>8. Len(c.at) \in Nat \ {0}
  BY <1>2, <1>3
<1> QED
  BY <1>1, <1>2, <1>4, <1>5, <1>6, <1>7, <1>8

\* TryValue at the input's own value.
LEMMA SkipStep ==
  ASSUME NEW tb, NEW e \in Config, NEW c \in CallType, NEW m \in Seq(Value), CallInv(tb, e, c, m),
         c.pc = "dfs",
         e.dims[c.subset[Len(c.at)]][c.at[Len(c.at)]] = c.values[c.subset[Len(c.at)]],
         NEW d \in CallType, SameCall(c, d), d.pc = "dfs", d.slice \in Slices, d.result = c.result,
         d.at = NextValue(c.at)
  PROVE  CallInv(tb, e, d, m)
<1> DEFINE k == Len(c.at)
<1>1. Looping(c) /\ Looping(d)
  BY DEF Looping
<1>2. c.at \in Seq(Nat) /\ k \in Nat \ {0} /\ Subset(c.subset, Width(e)) /\ Searching(c) /\ c.result = Nil
  BY <1>1, LoopFacts, SearchFacts
<1>3. Len(d.at) = k /\ \A n \in 1 .. k : d.at[n] = IF n = k THEN c.at[n] + 1 ELSE c.at[n]
  BY <1>2, NextValueFacts
<1>4. Chosen(c) = k - 1 /\ Chosen(d) = k - 1
  BY <1>3 DEF Chosen
<1>5. k \in 1 .. Len(c.subset) /\ \A n \in 1 .. k : n \in 1 .. Len(c.subset) /\ c.at[n] \in Nat \ {0}
  BY <1>1, LoopFacts
<1> HIDE DEF k
<1>6. Len(d.at) \in 1 .. Len(c.subset) /\ \A n \in 1 .. Len(d.at) : d.at[n] \in Nat \ {0}
  BY <1>3, <1>5
<1>7. Standing(e, d, Chosen(d), m)
  <2>1. \A n \in 1 .. k - 1 : d.at[n] = c.at[n]
    BY <1>2, <1>3
  <2>2. Standing(e, c, k - 1, m)
    BY <1>1, <1>4, CallStands
  <2> QED
    BY <2>1, <2>2, <1>4, SameStanding
<1>8. LoopsBarren(e, d)
  <2> SUFFICES ASSUME NEW t \in Tuples(Width(e)), NEW ps \in [1 .. Len(c.subset) -> Places(e)],
                      Stands(e, d, t, ps), Passed(ps, d.at)
               PROVE ~Allowed(e, t)
    BY DEF LoopsBarren, SameCall
  <2>1. Stands(e, c, t, ps)
    BY DEF Stands, SameCall
  <2>2. \A n \in 1 .. k : /\ ps[n] \in Nat
                          /\ e.dims[c.subset[n]][ps[n]] /= c.values[c.subset[n]]
    BY <1>2, <1>5, <2>1, StandsFacts
  <2>3. Passed(ps, c.at) \/ \A n \in 1 .. k : ps[n] = c.at[n]
    BY <1>2, <2>2, PassedNext DEF k
  <2>4. e.dims[c.subset[k]][ps[k]] /= c.values[c.subset[k]]
    BY <1>2, <2>2
  <2>5. e.dims[c.subset[k]][c.at[k]] = c.values[c.subset[k]]
    BY DEF k
  <2>6. ps[k] /= c.at[k] /\ k \in 1 .. k
    BY <2>4, <2>5, <1>2
  <2> QED
    BY <1>1, <1>2, <2>1, <2>3, <2>6 DEF CallInv, LoopsBarren
<1> QED
  BY <1>1, <1>2, <1>6, <1>7, <1>8, LoopStep

\* The slot x of the scratch slice is given the value v.
Written(m, x, v, w) ==
  /\ w \in Seq(Value) /\ Len(w) = Len(m)
  /\ \A i \in 1 .. Len(m) : w[i] = IF i = x THEN v ELSE m[i]

\* The loop k goes on a value other than the input's.
LEMMA WriteStands ==
  ASSUME NEW e \in Config, NEW c \in CallType, NEW k \in Nat \ {0},
         \A n \in 1 .. k : c.subset[n] \in 1 .. Width(e),
         \A i, j \in 1 .. k : i /= j => c.subset[i] /= c.subset[j],
         NEW m \in Seq(Value), Standing(e, c, k - 1, m),
         NEW x, x = c.subset[k], c.at[k] <= Len(e.dims[x]), e.dims[x][c.at[k]] /= c.values[x],
         NEW w, Written(m, x, e.dims[x][c.at[k]], w)
  PROVE  Standing(e, c, k, w)
<1>0. Width(e) \in Nat /\ Len(m) \in Nat
  BY EngineFacts
<1>1. /\ Width(e) \in Nat
      /\ Len(m) \in Nat /\ Len(m) >= Width(e)
      /\ \A n \in 1 .. k - 1 : /\ c.at[n] <= Len(e.dims[c.subset[n]])
                               /\ e.dims[c.subset[n]][c.at[n]] /= c.values[c.subset[n]]
                               /\ m[c.subset[n]] = e.dims[c.subset[n]][c.at[n]]
      /\ \A i \in 1 .. Width(e) : (\A n \in 1 .. k - 1 : c.subset[n] /= i) => m[i] = c.values[i]
  BY <1>0 DEF Standing
<1>2. /\ w \in Seq(Value) /\ Len(w) = Len(m)
      /\ \A i \in 1 .. Len(m) : w[i] = IF i = x THEN e.dims[x][c.at[k]] ELSE m[i]
  BY DEF Written
<1>a. Width(e) \in Nat /\ Len(m) \in Nat /\ Len(m) >= Width(e)
  BY <1>0 DEF Standing
<1>3. \A i \in 1 .. Width(e) : i \in 1 .. Len(m)
  BY <1>a
<1>4. \A n \in 1 .. k : n = k \/ n \in 1 .. k - 1
  OBVIOUS
<1>5. \A n \in 1 .. k - 1 : n \in 1 .. k /\ n /= k
  OBVIOUS
<1>6. k \in 1 .. k
  OBVIOUS
<1>7. ASSUME NEW n \in 1 .. k
      PROVE  /\ c.at[n] <= Len(e.dims[c.subset[n]])
             /\ e.dims[c.subset[n]][c.at[n]] /= c.values[c.subset[n]]
             /\ w[c.subset[n]] = e.dims[c.subset[n]][c.at[n]]
  <2>1. c.subset[n] \in 1 .. Len(m)
    BY <1>3
  <2>2. CASE n = k
    BY <2>1, <2>2, <1>2
  <2>3. CASE n \in 1 .. k - 1
    <3>1. c.subset[n] /= x
      BY <2>3, <1>5, <1>6
    <3>2. w[c.subset[n]] = m[c.subset[n]]
      BY <2>1, <3>1, <1>2
    <3> QED
      BY <2>3, <3>2, <1>1
  <2> QED
    BY <2>2, <2>3, <1>4
<1>8. ASSUME NEW i \in 1 .. Width(e), \A n \in 1 .. k : c.subset[n] /= i PROVE w[i] = c.values[i]
  <2>1. \A n \in 1 .. k - 1 : c.subset[n] /= i
    BY <1>5, <1>8
  <2>2. m[i] = c.values[i]
    BY <2>1, <1>1
  <2>3. x /= i /\ i \in 1 .. Len(m)
    BY <1>3, <1>6, <1>8
  <2> QED
    BY <2>2, <2>3, <1>2
<1> QED
  BY <1>1, <1>2, <1>7, <1>8 DEF Standing

\* The loop k gives its slot back.
LEMMA RestoreStands ==
  ASSUME NEW e \in Config, NEW c \in CallType, NEW k \in Nat \ {0},
         \A n \in 1 .. k : c.subset[n] \in 1 .. Width(e),
         \A i, j \in 1 .. k : i /= j => c.subset[i] /= c.subset[j],
         NEW m \in Seq(Value), Standing(e, c, k, m),
         NEW x, x = c.subset[k],
         NEW w, Written(m, x, c.values[x], w)
  PROVE  Standing(e, c, k - 1, w)
<1>0. Width(e) \in Nat /\ Len(m) \in Nat
  BY EngineFacts
<1>1. /\ Width(e) \in Nat
      /\ Len(m) \in Nat /\ Len(m) >= Width(e)
      /\ \A n \in 1 .. k : /\ c.at[n] <= Len(e.dims[c.subset[n]])
                           /\ e.dims[c.subset[n]][c.at[n]] /= c.values[c.subset[n]]
                           /\ m[c.subset[n]] = e.dims[c.subset[n]][c.at[n]]
      /\ \A i \in 1 .. Width(e) : (\A n \in 1 .. k : c.subset[n] /= i) => m[i] = c.values[i]
  BY <1>0 DEF Standing
<1>2. /\ w \in Seq(Value) /\ Len(w) = Len(m)
      /\ \A i \in 1 .. Len(m) : w[i] = IF i = x THEN c.values[x] ELSE m[i]
  BY DEF Written
<1>a. Width(e) \in Nat /\ Len(m) \in Nat /\ Len(m) >= Width(e)
  BY <1>0 DEF Standing
<1>3. \A i \in 1 .. Width(e) : i \in 1 .. Len(m)
  BY <1>a
<1>4. \A n \in 1 .. k : n = k \/ n \in 1 .. k - 1
  OBVIOUS
<1>5. \A n \in 1 .. k - 1 : n \in 1 .. k /\ n /= k
  OBVIOUS
<1>6. k \in 1 .. k
  OBVIOUS
<1>7. ASSUME NEW n \in 1 .. k - 1
      PROVE  /\ c.at[n] <= Len(e.dims[c.subset[n]])
             /\ e.dims[c.subset[n]][c.at[n]] /= c.values[c.subset[n]]
             /\ w[c.subset[n]] = e.dims[c.subset[n]][c.at[n]]
  <2>1. n \in 1 .. k /\ c.subset[n] /= x
    BY <1>5, <1>6
  <2>2. c.subset[n] \in 1 .. Len(m)
    BY <2>1, <1>3
  <2>3. w[c.subset[n]] = m[c.subset[n]]
    BY <2>1, <2>2, <1>2
  <2> QED
    BY <2>1, <2>3, <1>1
<1>8. ASSUME NEW i \in 1 .. Width(e), \A n \in 1 .. k - 1 : c.subset[n] /= i PROVE w[i] = c.values[i]
  <2>1. i \in 1 .. Len(m)
    BY <1>3
  <2>2. CASE i = x
    BY <2>1, <2>2, <1>2
  <2>3. CASE i /= x
    <3>1. \A n \in 1 .. k : c.subset[n] /= i
      BY <2>3, <1>4, <1>8
    <3>2. m[i] = c.values[i]
      BY <3>1, <1>1
    <3> QED
      BY <3>2, <2>1, <2>3, <1>2
  <2> QED
    BY <2>2, <2>3
<1> QED
  BY <1>1, <1>2, <1>7, <1>8 DEF Standing

\* TryValue at another value, with loops left to open.
LEMMA OpenStep ==
  ASSUME NEW tb, NEW e \in Config, NEW c \in CallType, NEW m \in Seq(Value), CallInv(tb, e, c, m),
         c.pc = "dfs", NEW k, k = Len(c.at), k < Len(c.subset), NEW x, x = c.subset[k],
         c.at[k] <= Len(e.dims[x]), e.dims[x][c.at[k]] /= c.values[x],
         NEW d \in CallType, SameCall(c, d), d.pc = "dfs", d.slice \in Slices, d.result = c.result,
         d.at = Append(c.at, 1),
         NEW w, Written(m, x, e.dims[x][c.at[k]], w)
  PROVE  w \in Seq(Value) /\ CallInv(tb, e, d, w)
<1> DEFINE s == c.subset
<1>1. Looping(c) /\ Looping(d)
  BY DEF Looping
<1>2. /\ c.at \in Seq(Nat) /\ k \in Nat \ {0} /\ Subset(s, Width(e)) /\ Len(s) \in Nat
      /\ \A n \in 1 .. k : c.at[n] \in Nat \ {0} /\ s[n] \in 1 .. Width(e) /\ n \in 1 .. Len(s)
      /\ \A i, j \in 1 .. Len(s) : i /= j => s[i] /= s[j]
      /\ Searching(c) /\ c.result = Nil
  BY <1>1, LoopFacts, SearchFacts
<1>3. Len(d.at) = k + 1 /\ d.at[k + 1] = 1 /\ \A n \in 1 .. k : d.at[n] = c.at[n]
  BY <1>2, AppendProperties
<1>4. Chosen(d) = k /\ Chosen(c) = k - 1 /\ k < Len(s)
  BY <1>2, <1>3 DEF Chosen
<1>5. Standing(e, d, k, w)
  <2>1. Standing(e, c, k - 1, m)
    BY <1>1, <1>4, CallStands
  <2>2. Standing(e, c, k, w)
    BY <2>1, <1>2, WriteStands
  <2> QED
    BY <2>2, <1>3, SameStanding
<1>7. \A n \in 1 .. k + 1 : d.at[n] \in Nat \ {0}
  <2> TAKE n \in 1 .. k + 1
  <2>1. CASE n = k + 1
    BY <2>1, <1>3
  <2>2. CASE n /= k + 1
    <3>1. n \in 1 .. k
      BY <2>2, <1>2
    <3> QED
      BY <3>1, <1>2, <1>3
  <2> QED
    BY <2>1, <2>2
<1>8. k + 1 \in 1 .. Len(s)
  BY <1>2, <1>4
<1>9. LoopsBarren(e, d)
  <2> SUFFICES ASSUME NEW t \in Tuples(Width(e)), NEW ps \in [1 .. Len(c.subset) -> Places(e)],
                      Stands(e, d, t, ps), Passed(ps, d.at)
               PROVE ~Allowed(e, t)
    BY DEF LoopsBarren, SameCall
  <2>1. Stands(e, c, t, ps)
    BY DEF Stands, SameCall
  <2>2. ps[k + 1] \in Nat \ {0}
    BY <1>2, <1>8, <2>1, StandsFacts
  <2>3. Passed(ps, c.at)
    BY <1>2, <2>2, PassedAppend
  <2> QED
    BY <1>1, <1>2, <2>1, <2>3 DEF CallInv, LoopsBarren
<1> QED
  BY <1>1, <1>2, <1>3, <1>4, <1>5, <1>7, <1>8, <1>9, LoopStep

\* TryValue at another value of the innermost loop.
LEMMA CompleteStep ==
  ASSUME NEW tb, NEW e \in Config, NEW c \in CallType, NEW m \in Seq(Value), CallInv(tb, e, c, m),
         c.pc = "dfs", NEW k, k = Len(c.at), ~(k < Len(c.subset)), NEW x, x = c.subset[k],
         c.at[k] <= Len(e.dims[x]), e.dims[x][c.at[k]] /= c.values[x],
         NEW d \in CallType, SameCall(c, d), d.pc = "check", d.slice \in Slices, d.result = c.result,
         d.at = c.at,
         NEW w, Written(m, x, e.dims[x][c.at[k]], w)
  PROVE  w \in Seq(Value) /\ CallInv(tb, e, d, w)
<1> DEFINE s == c.subset
<1>1. Looping(c) /\ Looping(d)
  BY DEF Looping
<1>2. /\ k \in Nat \ {0} /\ k \in 1 .. Len(s) /\ Len(s) \in Nat
      /\ \A n \in 1 .. k : c.at[n] \in Nat \ {0} /\ s[n] \in 1 .. Width(e) /\ n \in 1 .. Len(s)
      /\ \A i, j \in 1 .. Len(s) : i /= j => s[i] /= s[j]
      /\ Searching(c) /\ c.result = Nil
  BY <1>1, LoopFacts, SearchFacts
<1>3. Len(d.at) = k /\ Chosen(d) = k /\ Chosen(c) = k - 1 /\ k = Len(s)
  BY <1>2 DEF Chosen
<1>5. Standing(e, d, k, w)
  <2>1. Standing(e, c, k - 1, m)
    BY <1>1, <1>3, CallStands
  <2>2. Standing(e, c, k, w)
    BY <2>1, <1>2, WriteStands
  <2> QED
    BY <2>2, SameStanding
<1>9. LoopsBarren(e, d)
  BY <1>1 DEF CallInv, LoopsBarren, Stands, SameCall
<1> QED
  BY <1>1, <1>2, <1>3, <1>5, <1>9, LoopStep

\* The loop around a loop.
LEMMA OneLess ==
  ASSUME NEW k \in Nat \ {0, 1}, NEW n \in Nat, k \in 1 .. n
  PROVE  k - 1 \in 1 .. n
OBVIOUS

\* EndLoop with a loop around it.
LEMMA PopStep ==
  ASSUME NEW tb, NEW e \in Config, NEW c \in CallType, NEW m \in Seq(Value), CallInv(tb, e, c, m),
         c.pc = "dfs", NEW k, k = Len(c.at), k /= 1, c.at[k] > Len(e.dims[c.subset[k]]),
         NEW x, x = c.subset[k - 1],
         NEW d \in CallType, SameCall(c, d), d.pc = "dfs", d.slice \in Slices, d.result = c.result,
         d.at = NextValue(SubSeq(c.at, 1, k - 1)),
         NEW w, Written(m, x, c.values[x], w)
  PROVE  w \in Seq(Value) /\ CallInv(tb, e, d, w)
<1> DEFINE s == c.subset
           fr == SubSeq(c.at, 1, k - 1)
<1>1. Looping(c) /\ Looping(d)
  BY DEF Looping
<1>2. /\ c.at \in Seq(Nat) /\ k \in Nat \ {0, 1} /\ Subset(s, Width(e)) /\ Len(s) \in Nat
      /\ k \in 1 .. Len(s)
      /\ \A n \in 1 .. k : c.at[n] \in Nat \ {0} /\ s[n] \in 1 .. Width(e) /\ n \in 1 .. Len(s)
      /\ \A i, j \in 1 .. Len(s) : i /= j => s[i] /= s[j]
      /\ Searching(c) /\ c.result = Nil
  BY <1>1, LoopFacts, SearchFacts
<1>k. k \in Nat \ {0, 1}
  BY <1>2
<1>a. k - 1 \in 0 .. Len(c.at)
  BY <1>k
<1>s. c.at \in Seq(Nat)
  BY <1>2
<1>3. fr \in Seq(Nat) /\ Len(fr) = k - 1 /\ \A n \in 1 .. k - 1 : fr[n] = c.at[n]
  BY <1>a, <1>s, FrontFacts
<1> HIDE DEF fr
<1>4. /\ Len(d.at) = k - 1
      /\ \A n \in 1 .. k - 1 : d.at[n] = IF n = k - 1 THEN c.at[n] + 1 ELSE c.at[n]
  <2>1. Len(fr) \in Nat \ {0}
    BY <1>2, <1>3
  <2>2. d.at = NextValue(fr)
    BY DEF fr
  <2>3. fr \in Seq(Nat)
    BY <1>3
  <2>4. /\ Len(NextValue(fr)) = Len(fr)
        /\ \A n \in 1 .. Len(fr) :
             NextValue(fr)[n] = IF n = Len(fr) THEN fr[n] + 1 ELSE fr[n]
    BY <2>1, <2>3, NextValueFacts
  <2> QED
    BY <1>3, <2>2, <2>4
<1>b. k - 1 \in Nat \ {0}
  BY <1>k
<1>c. \A n \in 1 .. k - 1 : n \in 1 .. k
  BY <1>k
<1>5. Chosen(d) = k - 2 /\ Chosen(c) = k - 1
  BY <1>2, <1>4 DEF Chosen
<1>6. Standing(e, d, Chosen(d), w)
  <2>1. Standing(e, c, k - 1, m)
    BY <1>1, <1>5, CallStands
  <2>2. /\ \A n \in 1 .. k - 1 : s[n] \in 1 .. Width(e)
        /\ \A i, j \in 1 .. k - 1 : i /= j => s[i] /= s[j]
    BY <1>2, <1>c
  <2>3. Standing(e, c, k - 1 - 1, w)
    BY <2>1, <2>2, <1>b, RestoreStands
  <2>4. k - 1 - 1 = k - 2
    BY <1>k
  <2>5. \A n \in 1 .. k - 2 : n \in 1 .. k - 1 /\ n /= k - 1
    BY <1>k
  <2>6. \A n \in 1 .. k - 2 : d.at[n] = c.at[n]
    BY <2>5, <1>4
  <2> QED
    BY <2>3, <2>4, <2>6, <1>5, SameStanding
<1>7. \A n \in 1 .. k - 1 : d.at[n] \in Nat \ {0}
  <2>1. \A n \in 1 .. k - 1 : c.at[n] \in Nat \ {0}
    BY <1>2, <1>c
  <2> QED
    BY <2>1, <1>4
<1>8. k - 1 \in 1 .. Len(s)
  <2>1. k \in 1 .. Len(s) /\ Len(s) \in Nat
    BY <1>2
  <2> QED
    BY <2>1, <1>k, OneLess
<1>9. LoopsBarren(e, d)
  <2> SUFFICES ASSUME NEW t \in Tuples(Width(e)), NEW ps \in [1 .. Len(c.subset) -> Places(e)],
                      Stands(e, d, t, ps), Passed(ps, d.at)
               PROVE ~Allowed(e, t)
    BY DEF LoopsBarren, SameCall
  <2>1. Stands(e, c, t, ps)
    BY DEF Stands, SameCall
  <2>2. \A n \in 1 .. Len(s) : ps[n] \in Nat /\ ps[n] <= Len(e.dims[s[n]])
    BY <1>2, <2>1, StandsFacts
  <2>3. \A n \in 1 .. k : ps[n] \in Nat
    BY <1>2, <2>2
  <2>4. ps[k] < c.at[k]
    <3> DEFINE L == Len(e.dims[s[k]])
               a == c.at[k]
               b == ps[k]
    <3>1. b <= L /\ a > L /\ b \in Nat
      BY <1>2, <2>2
    <3>2. s[k] \in 1 .. Width(e) /\ a \in Nat
      BY <1>2, <1>k
    <3>3. L \in Nat
      BY <3>2, EngineFacts
    <3> HIDE DEF L, a, b
    <3>4. b < a
      BY <3>1, <3>2, <3>3
    <3> QED
      BY <3>4 DEF a, b
  <2>5. Passed(ps, c.at)
    BY <1>2, <2>3, <2>4, PassedPop
  <2> QED
    BY <1>1, <1>2, <2>1, <2>5 DEF CallInv, LoopsBarren
<1>10. Len(d.at) \in 1 .. Len(c.subset) /\ \A n \in 1 .. Len(d.at) : d.at[n] \in Nat \ {0}
  BY <1>4, <1>7, <1>8
<1> QED
  BY <1>1, <1>2, <1>6, <1>9, <1>10, LoopStep

\* EndLoop of the outermost loop: the subset has no allowed candidate.
LEMMA ExhaustStep ==
  ASSUME NEW tb, NEW e \in Config, NEW c \in CallType, NEW m \in Seq(Value), CallInv(tb, e, c, m),
         c.pc = "dfs", Len(c.at) = 1, c.at[1] > Len(e.dims[c.subset[1]]),
         NEW d \in CallType, SameCall(c, d), d.pc = "put", d.slice = c.slice, d.result = c.result
  PROVE  CallInv(tb, e, d, m)
<1>1. /\ Looping(c) /\ Holding(c) /\ Searching(c) /\ Searching(d) /\ Holding(d) /\ ~Looping(d)
      /\ ~Searched(d)
  BY DEF Looping, Holding, Searching, Searched
<1>2. /\ c.result = Nil /\ Subset(c.subset, Width(e)) /\ c.slice \in Slices
      /\ 1 \in 1 .. Len(c.subset) /\ c.at[1] \in Nat /\ Len(e.dims[c.subset[1]]) \in Nat
  <2>1. c.result = Nil /\ Subset(c.subset, Width(e)) /\ c.slice \in Slices
    BY <1>1, LoopFacts
  <2>2. 1 \in 1 .. Len(c.at)
    OBVIOUS
  <2>3. 1 \in 1 .. Len(c.subset) /\ c.at[1] \in Nat /\ Len(e.dims[c.subset[1]]) \in Nat
    BY <1>1, <2>2, LoopFacts
  <2> QED
    BY <2>1, <2>3
<1>3. CallOK(e, d) /\ LoopsOK(e, d) /\ ScratchOK(e, d, m)
  BY <1>1, <1>2 DEF CallInv, CallOK, LoopsOK, ScratchOK, SameCall, Found
<1>4. EarlierBarren(tb, e, d)
  <2>1. c.op = "Closest" => \A X \in SUBSET (1 .. Width(e)) :
          X /= {} /\ Earlier(tb, X, c.subset) => Barren(e, c.values, X)
    BY <1>1 DEF CallInv, EarlierBarren
  <2> QED
    BY <2>1 DEF EarlierBarren, SameCall
<1>5. LoopsBarren(e, d) /\ ResultOK(tb, e, d) /\ NothingMissed(e, d)
  BY <1>1, <1>2 DEF LoopsBarren, ResultOK, NothingMissed, Found
<1>6. Barren(e, c.values, Range(c.subset))
  <2> SUFFICES ASSUME NEW t \in Tuples(Width(e)), Proposes(e, c.values, Range(c.subset), t)
               PROVE ~Allowed(e, t)
    BY DEF Barren
  <2>1. PICK ps \in [1 .. Len(c.subset) -> Places(e)] : Stands(e, c, t, ps)
    BY <1>2, StandsSomewhere
  <2>2. ps[1] \in Nat /\ ps[1] <= Len(e.dims[c.subset[1]])
    BY <1>2, <2>1, StandsFacts
  <2>3. Passed(ps, c.at)
    BY <1>2, <2>2 DEF Passed
  <2> QED
    BY <1>1, <2>1, <2>3 DEF CallInv, LoopsBarren
<1>7. SubsetBarren(e, d)
  BY <1>6 DEF SubsetBarren, SameCall
<1> QED
  BY <1>3, <1>4, <1>5, <1>7 DEF CallInv

\* The tuple t that is checked: it changes the dimensions of the subset, and no other
\* tuple stands where the loops do.
IsCandidate(e, m, t) == t = SubSeq(m, 1, Width(e))

CandidateOK(e, c, t) ==
  /\ t \in Tuples(Width(e)) /\ t \in Seq(Value)
  /\ Proposes(e, c.values, Range(c.subset), t)
  /\ Len(c.at) = Len(c.subset)
  /\ \A n \in 1 .. Len(c.subset) :
       /\ c.at[n] \in DOMAIN e.dims[c.subset[n]] /\ c.at[n] \in Nat \ {0}
       /\ e.dims[c.subset[n]][c.at[n]] = t[c.subset[n]]
  /\ \A u \in Tuples(Width(e)) : \A ps :
       Stands(e, c, u, ps) /\ (\A n \in 1 .. Len(c.subset) : ps[n] = c.at[n]) => u = t

\* A candidate found in the slice is one for the dimensions being replaced.
LEMMA CandidateFacts ==
  ASSUME NEW tb, NEW e \in Config, NEW c \in CallType, NEW m \in Seq(Value), CallInv(tb, e, c, m),
         c.pc = "check", NEW t, IsCandidate(e, m, t)
  PROVE  CandidateOK(e, c, t)
<1> DEFINE s == c.subset
           W == Width(e)
           S == Range(s)
<1>1. Looping(c) /\ Chosen(c) = Len(c.at) /\ Len(c.at) = Len(s)
  BY DEF Looping, Chosen, CallInv, LoopsOK
<1>2. /\ W \in Nat /\ Len(s) \in Nat \ {0} /\ Len(c.values) = W
      /\ \A n \in 1 .. Len(s) : /\ s[n] \in 1 .. W /\ s[n] \in S
                                /\ c.at[n] \in Nat \ {0} /\ Len(e.dims[s[n]]) \in Nat
      /\ Len(m) \in Nat /\ Len(m) >= W /\ Subset(s, W)
  BY <1>1, LoopFacts, SearchFacts
<1>3. /\ \A n \in 1 .. Len(s) : /\ c.at[n] <= Len(e.dims[s[n]])
                                /\ e.dims[s[n]][c.at[n]] /= c.values[s[n]]
                                /\ m[s[n]] = e.dims[s[n]][c.at[n]]
      /\ \A i \in 1 .. W : (\A n \in 1 .. Len(s) : s[n] /= i) => m[i] = c.values[i]
  <2>1. Standing(e, c, Len(s), m)
    BY <1>1, CallStands
  <2> QED
    BY <2>1 DEF Standing
<1>4. t \in Seq(Value) /\ Len(t) = W /\ \A i \in 1 .. W : t[i] = m[i]
  <2>1. W \in 0 .. Len(m) /\ t = SubSeq(m, 1, W)
    BY <1>2 DEF IsCandidate
  <2> QED
    BY <2>1, FrontFacts
<1> HIDE DEF W
<1>5. t \in Tuples(W)
  <2>1. DOMAIN t = 1 .. W /\ t = [i \in DOMAIN t |-> t[i]] /\ \A i \in 1 .. W : t[i] \in Value
    BY <1>4
  <2>2. t \in [1 .. W -> Value]
    BY <2>1
  <2> QED
    BY <2>2 DEF Tuples
<1>6. \A n \in 1 .. Len(s) : /\ c.at[n] \in DOMAIN e.dims[s[n]]
                             /\ e.dims[s[n]][c.at[n]] = t[s[n]]
  <2> TAKE n \in 1 .. Len(s)
  <2>1. DOMAIN e.dims[s[n]] = 1 .. Len(e.dims[s[n]])
    BY <1>2, EngineFacts DEF W
  <2>2. c.at[n] \in 1 .. Len(e.dims[s[n]])
    BY <1>2, <1>3
  <2> QED
    BY <2>1, <2>2, <1>2, <1>3, <1>4
<1>7. \A i \in 1 .. W : i \in S <=> \E n \in 1 .. Len(s) : s[n] = i
  BY <1>2, SubsetFacts
<1>8. DOMAIN c.values = 1 .. W /\ S \in SUBSET (1 .. W)
  <2>1. c.values \in Seq(Value)
    BY DEF CallType
  <2> QED
    BY <2>1, <1>2, SubsetFacts
<1>9. Changed(c.values, t) = S
  <2>1. ASSUME NEW i \in 1 .. W PROVE t[i] /= c.values[i] <=> i \in S
    <3>1. CASE i \in S
      <4>1. PICK n \in 1 .. Len(s) : s[n] = i
        BY <3>1, <1>7
      <4> QED
        BY <4>1, <3>1, <1>3, <1>4
    <3>2. CASE i \notin S
      BY <3>2, <1>3, <1>4, <1>7
    <3> QED
      BY <3>1, <3>2
  <2> QED
    BY <2>1, <1>8 DEF Changed
<1>10. \A i \in S : contains(e.dims[i], t[i])
  <2> TAKE i \in S
  <2>1. PICK n \in 1 .. Len(s) : s[n] = i
    BY <1>7, <1>8
  <2> QED
    BY <2>1, <1>6 DEF contains, Range
<1>11. ASSUME NEW u \in Tuples(W), NEW ps, Stands(e, c, u, ps), \A n \in 1 .. Len(s) : ps[n] = c.at[n]
       PROVE u = t
  <2>1. ASSUME NEW i \in 1 .. W PROVE u[i] = t[i]
    <3>1. CASE i \in S
      <4>1. PICK n \in 1 .. Len(s) : s[n] = i
        BY <3>1, <1>7
      <4>2. e.dims[s[n]][ps[n]] = u[s[n]]
        BY <4>1, <1>11 DEF Stands
      <4> QED
        BY <4>1, <4>2, <1>6, <1>11
    <3>2. CASE i \notin S
      <4>1. u[i] = c.values[i]
        BY <3>2, <1>8, <1>11 DEF Stands, Changed
      <4>2. t[i] = c.values[i]
        BY <3>2, <1>8, <1>9 DEF Changed
      <4> QED
        BY <4>1, <4>2
    <3> QED
      BY <3>1, <3>2
  <2>2. u \in [1 .. W -> Value] /\ t \in [1 .. W -> Value]
    BY <1>5 DEF Tuples
  <2>3. u = [i \in 1 .. W |-> u[i]] /\ t = [i \in 1 .. W |-> t[i]]
    BY <2>2
  <2> QED
    BY <2>1, <2>3
<1> QED
  BY <1>1, <1>2, <1>4, <1>5, <1>6, <1>9, <1>10, <1>11 DEF CandidateOK, Proposes, W

\* CheckCandidate, refused.
LEMMA TakeBackStep ==
  ASSUME NEW tb, NEW e \in Config, NEW c \in CallType, NEW m \in Seq(Value), CallInv(tb, e, c, m),
         c.pc = "check", ~Allowed(e, SubSeq(m, 1, Width(e))),
         NEW k, k = Len(c.at), NEW x, x = c.subset[k],
         NEW d \in CallType, SameCall(c, d), d.pc = "dfs", d.slice \in Slices, d.result = c.result,
         d.at = NextValue(c.at),
         NEW w, Written(m, x, c.values[x], w)
  PROVE  w \in Seq(Value) /\ CallInv(tb, e, d, w)
<1> DEFINE s == c.subset
           u == SubSeq(m, 1, Width(e))
<1>1. Looping(c) /\ Looping(d)
  BY DEF Looping
<1>2. /\ c.at \in Seq(Nat) /\ k \in Nat \ {0} /\ Subset(s, Width(e))
      /\ \A n \in 1 .. k : c.at[n] \in Nat \ {0} /\ s[n] \in 1 .. Width(e)
      /\ \A i, j \in 1 .. Len(s) : i /= j => s[i] /= s[j]
      /\ Searching(c) /\ c.result = Nil
  BY <1>1, LoopFacts, SearchFacts
<1>3. k = Len(s) /\ \A t \in Tuples(Width(e)) : \A ps :
        Stands(e, c, t, ps) /\ (\A n \in 1 .. Len(s) : ps[n] = c.at[n]) => t = u
  <2>1. CandidateOK(e, c, u)
    BY CandidateFacts DEF IsCandidate
  <2> QED
    BY <2>1 DEF CandidateOK
<1> HIDE DEF u
<1>4. Len(d.at) = k /\ \A n \in 1 .. k : d.at[n] = IF n = k THEN c.at[n] + 1 ELSE c.at[n]
  <2>1. Len(c.at) \in Nat \ {0}
    BY <1>2
  <2>2. /\ Len(NextValue(c.at)) = Len(c.at)
        /\ \A n \in 1 .. Len(c.at) :
             NextValue(c.at)[n] = IF n = Len(c.at) THEN c.at[n] + 1 ELSE c.at[n]
    BY <1>2, <2>1, NextValueFacts
  <2> QED
    BY <2>2
<1>5. Chosen(c) = k /\ Chosen(d) = k - 1
  BY <1>4 DEF Chosen
<1>6. Standing(e, d, Chosen(d), w)
  <2>1. Standing(e, c, k, m)
    BY <1>1, <1>5, CallStands
  <2>2. Standing(e, c, k - 1, w)
    BY <2>1, <1>2, <1>3, RestoreStands
  <2>3. \A n \in 1 .. k - 1 : n \in 1 .. k /\ n /= k
    BY <1>2
  <2>4. \A n \in 1 .. k - 1 : d.at[n] = c.at[n]
    BY <2>3, <1>4
  <2> QED
    BY <2>2, <2>4, <1>5, SameStanding
<1>7. \A n \in 1 .. k : d.at[n] \in Nat \ {0}
  BY <1>2, <1>4
<1>8. LoopsBarren(e, d)
  <2> SUFFICES ASSUME NEW t \in Tuples(Width(e)), NEW ps \in [1 .. Len(c.subset) -> Places(e)],
                      Stands(e, d, t, ps), Passed(ps, d.at)
               PROVE ~Allowed(e, t)
    BY DEF LoopsBarren, SameCall
  <2>1. Stands(e, c, t, ps)
    BY DEF Stands, SameCall
  <2>2. \A n \in 1 .. Len(c.at) : ps[n] \in Nat
    BY <1>2, <1>3, <2>1, StandsFacts
  <2>3. Passed(ps, c.at) \/ \A n \in 1 .. Len(c.at) : ps[n] = c.at[n]
    BY <1>2, <2>2, PassedNext
  <2>4. CASE Passed(ps, c.at)
    BY <1>1, <2>1, <2>4 DEF CallInv, LoopsBarren
  <2>5. CASE \A n \in 1 .. Len(c.at) : ps[n] = c.at[n]
    <3>1. t = u
      BY <2>1, <2>5, <1>3
    <3> QED
      BY <3>1 DEF u
  <2> QED
    BY <2>3, <2>4, <2>5
<1>9. Len(d.at) \in 1 .. Len(c.subset) /\ \A n \in 1 .. Len(d.at) : d.at[n] \in Nat \ {0}
  <2>1. k \in 1 .. k
    BY <1>2
  <2> QED
    BY <2>1, <1>3, <1>4, <1>7
<1> QED
  BY <1>1, <1>2, <1>6, <1>8, <1>9, LoopStep

\* The least position of a value.
LEMMA PositionFacts ==
  ASSUME NEW e \in Config, NEW i \in 1 .. Width(e), NEW v, contains(e.dims[i], v)
  PROVE  /\ Position(e.dims[i], v) \in DOMAIN e.dims[i]
         /\ e.dims[i][Position(e.dims[i], v)] = v
         /\ \A n \in DOMAIN e.dims[i] : e.dims[i][n] = v => Position(e.dims[i], v) <= n
<1> DEFINE S == {n \in DOMAIN e.dims[i] : e.dims[i][n] = v}
<1>1. Len(e.dims[i]) \in Nat /\ DOMAIN e.dims[i] = 1 .. Len(e.dims[i])
  BY EngineFacts
<1>2. S \in SUBSET Nat
  BY <1>1
<1>3. S /= {}
  BY DEF contains, Range
<1> HIDE DEF S
<1>4. Min(S) \in S /\ \A y \in S : Min(S) <= y
  BY <1>2, <1>3, MinFacts
<1> QED
  BY <1>4 DEF S, Position

\* The first candidate found is the first in the order of declaration.
LEMMA FirstInOrder ==
  ASSUME NEW tb, NEW e \in Config, NEW c \in CallType, NEW m \in Seq(Value), CallInv(tb, e, c, m),
         c.pc = "check", NEW u, u = SubSeq(m, 1, Width(e)),
         NEW t \in Tuples(Width(e)), Proposes(e, c.values, Range(c.subset), t), Allowed(e, t)
  PROVE  ~Before(e.dims, c.values, t, u)
<1> SUFFICES ASSUME Before(e.dims, c.values, t, u) PROVE FALSE
  OBVIOUS
<1> DEFINE s == c.subset
           S == Range(s)
<1>1. Looping(c) /\ Searching(c)
  BY DEF Looping, Searching
<1>2. /\ Len(s) \in Nat \ {0} /\ Subset(s, Width(e))
      /\ \A n \in 1 .. Len(s) : s[n] \in 1 .. Width(e) /\ s[n] \in S
  BY <1>1, LoopFacts, SearchFacts
<1>3. /\ Proposes(e, c.values, S, u) /\ Len(c.at) = Len(s)
      /\ \A n \in 1 .. Len(s) : /\ c.at[n] \in DOMAIN e.dims[s[n]] /\ c.at[n] \in Nat \ {0}
                                /\ e.dims[s[n]][c.at[n]] = u[s[n]]
  <2>1. CandidateOK(e, c, u)
    BY CandidateFacts DEF IsCandidate
  <2> QED
    BY <2>1 DEF CandidateOK
<1>4. PICK i \in S : /\ Position(e.dims[i], t[i]) < Position(e.dims[i], u[i])
                     /\ \A j \in S : j < i => t[j] = u[j]
  <2>1. Changed(c.values, t) = S
    BY DEF Proposes
  <2> QED
    BY <2>1 DEF Before
<1>5. PICK n \in 1 .. Len(s) : s[n] = i
  <2>1. Width(e) \in Nat
    BY EngineFacts
  <2> QED
    BY <2>1, <1>2, SubsetFacts
<1>6. PICK qs \in [1 .. Len(s) -> Places(e)] : Stands(e, c, t, qs)
  BY <1>2, StandsSomewhere
<1> DEFINE a == Position(e.dims[i], t[i])
           b == Position(e.dims[i], u[i])
<1>7. i \in 1 .. Width(e) /\ contains(e.dims[i], t[i]) /\ contains(e.dims[i], u[i])
  BY <1>2, <1>3, <1>5 DEF Proposes
<1>8. a \in DOMAIN e.dims[i] /\ e.dims[i][a] = t[i] /\ b \in DOMAIN e.dims[i] /\ b <= c.at[n]
  <2>1. c.at[n] \in DOMAIN e.dims[i] /\ e.dims[i][c.at[n]] = u[i]
    BY <1>3, <1>5
  <2> QED
    BY <2>1, <1>7, PositionFacts
<1>9. a < c.at[n] /\ a \in Nat
  <2> DEFINE y == c.at[n]
  <2>1. DOMAIN e.dims[i] = 1 .. Len(e.dims[i]) /\ Len(e.dims[i]) \in Nat
    BY <1>7, EngineFacts
  <2>a. a \in 1 .. Len(e.dims[i]) /\ b \in 1 .. Len(e.dims[i])
    <3> HIDE DEF a, b
    <3> QED
      BY <2>1, <1>8
  <2>2. a \in Nat /\ b \in Nat
    <3> HIDE DEF a, b
    <3> QED
      BY <2>1, <2>a
  <2>3. y \in Nat
    BY <1>3
  <2>4. b <= y /\ a < b
    BY <1>4, <1>8
  <2> HIDE DEF a, b, y
  <2>5. a < y /\ a \in Nat
    BY <2>2, <2>3, <2>4
  <2> QED
    BY <2>5 DEF y
<1> HIDE DEF a, b
<1> DEFINE ps == [l \in 1 .. Len(s) |-> IF l < n THEN c.at[l] ELSE IF l = n THEN a ELSE qs[l]]
<1>10. \A l \in 1 .. n - 1 : l \in 1 .. Len(s) /\ l < n
  BY <1>2
<1>11. \A l \in 1 .. n - 1 : t[s[l]] = u[s[l]]
  <2>1. \A l \in 1 .. n - 1 : s[l] < s[n]
    BY <1>2, <1>10 DEF Subset, Ascending
  <2> QED
    BY <2>1, <1>2, <1>4, <1>5, <1>10
<1>12. \A l \in 1 .. Len(s) : ps[l] \in DOMAIN e.dims[s[l]] /\ e.dims[s[l]][ps[l]] = t[s[l]]
  <2> TAKE l \in 1 .. Len(s)
  <2>1. CASE l < n
    <3>1. l \in 1 .. n - 1
      BY <2>1
    <3>2. ps[l] = c.at[l]
      BY <2>1
    <3> QED
      BY <3>1, <3>2, <1>3, <1>11
  <2>2. CASE l = n
    BY <2>2, <1>5, <1>8
  <2>3. CASE ~(l < n) /\ l /= n
    <3>1. ps[l] = qs[l]
      BY <2>3
    <3> QED
      BY <3>1, <1>6 DEF Stands
  <2> QED
    BY <2>1, <2>2, <2>3
<1>13. ps \in [1 .. Len(s) -> Places(e)]
  <2>1. \A l \in 1 .. Len(s) : ps[l] \in Places(e)
    <3> HIDE DEF ps
    <3> QED
      BY <1>2, <1>12 DEF Places
  <2> QED
    BY <2>1
<1>14. Stands(e, c, t, ps)
  <2>1. Changed(c.values, t) = S
    BY DEF Proposes
  <2> QED
    BY <2>1, <1>12 DEF Stands
<1>15. Passed(ps, c.at)
  <2>1. n \in 1 .. Len(c.at) /\ ps[n] = a
    BY <1>3
  <2>2. \A l \in 1 .. n - 1 : ps[l] = c.at[l]
    BY <1>10
  <2> QED
    BY <2>1, <2>2, <1>9 DEF Passed
<1> QED
  BY <1>1, <1>13, <1>14, <1>15 DEF CallInv, LoopsBarren

\* CheckCandidate, allowed.
LEMMA FoundStep ==
  ASSUME NEW tb, NEW e \in Config, NEW c \in CallType, NEW m \in Seq(Value), CallInv(tb, e, c, m),
         c.pc = "check", NEW u, u = SubSeq(m, 1, Width(e)), Allowed(e, u),
         NEW d \in CallType, SameCall(c, d), d.pc = "put", d.slice = c.slice, d.result /= Nil,
         d.result.conditions = u, d.result.distance = Cardinality(Range(c.subset)),
         d.result.dim = IF tb = "RightmostDim" THEN Max(Range(c.subset)) ELSE Min(Range(c.subset))
  PROVE  CallInv(tb, e, d, m)
<1>1. /\ Looping(c) /\ Holding(c) /\ Searching(c) /\ Searching(d) /\ Holding(d) /\ ~Looping(d)
      /\ ~Searched(d) /\ Found(d)
  BY DEF Looping, Holding, Searching, Searched, Found
<1>2. c.slice \in Slices /\ Subset(c.subset, Width(e))
  BY <1>1, LoopFacts
<1>3. CallOK(e, d) /\ LoopsOK(e, d) /\ ScratchOK(e, d, m)
  BY <1>1, <1>2 DEF CallInv, CallOK, LoopsOK, ScratchOK, SameCall
<1>4. EarlierBarren(tb, e, d)
  <2>1. c.op = "Closest" => \A X \in SUBSET (1 .. Width(e)) :
          X /= {} /\ Earlier(tb, X, c.subset) => Barren(e, c.values, X)
    BY <1>1 DEF CallInv, EarlierBarren
  <2> QED
    BY <2>1 DEF EarlierBarren, SameCall
<1>5. LoopsBarren(e, d) /\ SubsetBarren(e, d) /\ NothingMissed(e, d)
  BY <1>1 DEF LoopsBarren, SubsetBarren, NothingMissed
<1>6. u \in Tuples(Width(e)) /\ Proposes(e, c.values, Range(c.subset), u)
  <2>1. CandidateOK(e, c, u)
    BY CandidateFacts DEF IsCandidate
  <2> QED
    BY <2>1 DEF CandidateOK
<1>7. \A t \in Tuples(Width(e)) :
        Proposes(e, c.values, Range(c.subset), t) /\ Allowed(e, t) => ~Before(e.dims, c.values, t, u)
  BY FirstInOrder
<1>8. ResultOK(tb, e, d)
  <2> HIDE DEF Before
  <2> QED
    BY <1>6, <1>7 DEF ResultOK, SameCall
<1> QED
  BY <1>3, <1>4, <1>5, <1>8 DEF CallInv

\* PutScratch, with a subset left.
LEMMA AgainStep ==
  ASSUME NEW e \in Config, NEW c \in CallType, NEW m, CallInv(tiebreak, e, c, m),
         c.pc = "put", c.result = Nil, c.op /= "ClosestIn",
         ~(Len(c.subset) = Width(e) /\ LastOfSize(c.subset, Width(e))),
         NEW d \in CallType, d.op = c.op, d.values = c.values, d.err = c.err, d.result = c.result,
         d.pc = "get", d.slice = NoSlice, d.subset = NextSubset(c.subset, Width(e)),
         NEW w
  PROVE  CallInv(tiebreak, e, d, w)
<1> DEFINE s == c.subset
           W == Width(e)
           r == d.subset
<1>1. /\ Searching(c) /\ Searching(d) /\ ~Holding(d) /\ ~Looping(d) /\ ~Searched(d) /\ ~Found(d)
  BY DEF Searching, Holding, Looping, Searched, Found
<1>2. W \in Nat /\ Len(s) \in Nat \ {0} /\ Subset(s, W)
  BY <1>1, SearchFacts DEF CallInv, CallOK
<1>3. /\ Subset(r, W) /\ Len(r) \in Nat \ {0}
      /\ \A X \in SUBSET (1 .. W) :
           Earlier(tiebreak, X, r) => X = Range(s) \/ Earlier(tiebreak, X, s)
  <2>1. r = NextSubset(s, W) /\ ~(Len(s) = W /\ LastOfSize(s, W))
    OBVIOUS
  <2> HIDE DEF W, r, s
  <2> QED
    BY <1>2, <2>1, NextSubsetFacts
<1>4. CallOK(e, d) /\ LoopsOK(e, d) /\ ScratchOK(e, d, w)
  <2>1. Len(c.values) = Width(e) /\ c.err = "nil" /\ c.op /= "none"
    BY <1>1 DEF CallInv, CallOK
  <2> QED
    BY <1>1, <1>3, <2>1 DEF CallOK, LoopsOK, ScratchOK
<1>5. EarlierBarren(tiebreak, e, d)
  <2> SUFFICES ASSUME d.op = "Closest", NEW X \in SUBSET (1 .. W), X /= {}, Earlier(tiebreak, X, r)
               PROVE  Barren(e, c.values, X)
    BY DEF EarlierBarren
  <2>1. CASE X = Range(s)
    BY <2>1 DEF CallInv, SubsetBarren
  <2>2. CASE Earlier(tiebreak, X, s)
    BY <1>1, <2>2 DEF CallInv, EarlierBarren
  <2> QED
    BY <1>3, <2>1, <2>2
<1>6. LoopsBarren(e, d) /\ SubsetBarren(e, d) /\ ResultOK(tiebreak, e, d) /\ NothingMissed(e, d)
  BY <1>1 DEF LoopsBarren, SubsetBarren, ResultOK, NothingMissed
<1> QED
  BY <1>4, <1>5, <1>6 DEF CallInv

\* A search that went through all its subsets has missed nothing.
LEMMA AllBarren ==
  ASSUME NEW e \in Config, NEW c \in CallType, NEW m, CallInv(tiebreak, e, c, m),
         c.pc = "put", c.result = Nil,
         c.op = "ClosestIn" \/ (Len(c.subset) = Width(e) /\ LastOfSize(c.subset, Width(e)))
  PROVE  NoCandidate(e, c)
<1> DEFINE s == c.subset
           W == Width(e)
           S == Range(s)
           reach == IF c.op = "ClosestIn" THEN S ELSE 1 .. W
<1>1. Searching(c)
  BY DEF Searching
<1>2. /\ W \in Nat /\ Len(s) \in Nat \ {0} /\ Subset(s, W) /\ Len(c.values) = W
      /\ c.op = "ClosestIn" => Len(s) = 1
  BY <1>1, SearchFacts DEF CallInv, CallOK
<1>3. Barren(e, c.values, S)
  BY DEF CallInv, SubsetBarren
<1>4. c.op \in {"Closest", "ClosestIn"}
  BY <1>1 DEF CallInv, CallOK, CallType
<1>5. DOMAIN c.values = 1 .. W
  <2>1. c.values \in Seq(Value)
    BY DEF CallType
  <2> QED
    BY <1>2, <2>1
<1> SUFFICES ASSUME NEW t \in Candidates(e, c.values, reach) PROVE FALSE
  BY DEF NoCandidate
<1> DEFINE X == Changed(c.values, t)
<1>6. /\ t \in Tuples(W) /\ X /= {} /\ X \subseteq reach /\ Allowed(e, t)
      /\ \A i \in X : contains(e.dims[i], t[i])
  BY DEF Candidates, Width
<1>7. X \in SUBSET (1 .. W) /\ Proposes(e, c.values, X, t)
  BY <1>5, <1>6 DEF Changed, Proposes
<1>8. ~Barren(e, c.values, X)
  BY <1>6, <1>7 DEF Barren
<1> HIDE DEF X
<1>9. CASE c.op = "ClosestIn"
  <2>1. \A i : i \in S <=> \E n \in 1 .. Len(s) : s[n] = i
    BY <1>2, SubsetFacts
  <2>2. \A i \in S : i = s[1]
    BY <1>2, <1>9, <2>1
  <2>3. X = S
    BY <2>2, <1>6, <1>9
  <2> QED
    BY <2>3, <1>3, <1>8
<1>10. CASE c.op = "Closest"
  <2>1. Len(s) = W /\ LastOfSize(s, W)
    BY <1>10
  <2>2. Cardinality(X) <= W
    <3>1. IsFiniteSet(1 .. W) /\ Cardinality(1 .. W) = W
      <4>1. 1 \in Int /\ W \in Int
        BY <1>2
      <4>2. IsFiniteSet(1 .. W) /\ Cardinality(1 .. W) = IF 1 > W THEN 0 ELSE W - 1 + 1
        <5> HIDE DEF W
        <5> QED
          BY <4>1, FS_Interval
      <4> HIDE DEF W
      <4> QED
        BY <4>2, <1>2
    <3>2. Cardinality(X) <= Cardinality(1 .. W)
      <4> HIDE DEF W
      <4> QED
        BY <3>1, <1>7, FS_Subset
    <3> QED
      BY <3>1, <3>2
  <2>3. X = Range(s) \/ Earlier(tiebreak, X, s)
    <3>1. Cardinality(X) <= Len(s)
      BY <2>1, <2>2
    <3> HIDE DEF W, s
    <3> QED
      BY <3>1, <2>1, <1>2, <1>7, LastOfSizeFacts
  <2>4. Earlier(tiebreak, X, s) => Barren(e, c.values, X)
    BY <1>1, <1>6, <1>7, <1>10 DEF CallInv, EarlierBarren
  <2> QED
    BY <2>3, <2>4, <1>3, <1>8
<1> QED
  BY <1>4, <1>9, <1>10

\* PutScratch, at the end.
LEMMA OverStep ==
  ASSUME NEW e \in Config, NEW c \in CallType, NEW m, CallInv(tiebreak, e, c, m), c.pc = "put",
         \/ c.result /= Nil
         \/ c.op = "ClosestIn"
         \/ Len(c.subset) = Width(e) /\ LastOfSize(c.subset, Width(e)),
         NEW d \in CallType, SameCall(c, d), d.result = c.result, d.pc = "answered",
         d.slice = NoSlice, NEW w
  PROVE  CallInv(tiebreak, e, d, w)
<1>1. /\ Searching(c) /\ ~Searching(d) /\ ~Holding(d) /\ ~Looping(d)
      /\ Found(d) => Found(c)
  BY DEF Searching, Holding, Looping, Found
<1>2. CallOK(e, d) /\ LoopsOK(e, d) /\ ScratchOK(e, d, w)
  BY <1>1 DEF CallInv, CallOK, LoopsOK, ScratchOK, SameCall
<1>3. EarlierBarren(tiebreak, e, d)
  <2>1. c.op = "Closest" => \A X \in SUBSET (1 .. Width(e)) :
          X /= {} /\ Earlier(tiebreak, X, c.subset) => Barren(e, c.values, X)
    BY <1>1 DEF CallInv, EarlierBarren
  <2> QED
    BY <2>1 DEF EarlierBarren, SameCall
<1>4. LoopsBarren(e, d) /\ SubsetBarren(e, d)
  BY <1>1 DEF LoopsBarren, SubsetBarren
<1>5. ResultOK(tiebreak, e, d)
  <2> HIDE DEF Before
  <2>1. ResultOK(tiebreak, e, c)
    BY DEF CallInv
  <2> QED
    BY <1>1, <2>1 DEF ResultOK, SameCall
<1>6. NothingMissed(e, d)
  <2>1. ASSUME d.result = Nil PROVE NoCandidate(e, d)
    <3>2. /\ c.result = Nil
          /\ c.op = "ClosestIn" \/ (Len(c.subset) = Width(e) /\ LastOfSize(c.subset, Width(e)))
      BY <2>1
    <3>1. NoCandidate(e, c)
      BY <3>2, AllBarren
    <3> QED
      BY <3>1 DEF NoCandidate, SameCall
  <2> QED
    BY <2>1 DEF NothingMissed
<1> QED
  BY <1>2, <1>3, <1>4, <1>5, <1>6 DEF CallInv

-----------------------------------------------------------------------------
(***************************************************************************)
(* The beginning and the end of a call.                                    *)
(***************************************************************************)
LEMMA EmptySubset ==
  ASSUME NEW n
  PROVE  Subset(<<>>, n)
BY DEF Subset, Ascending

\* Nothing is searched and nothing is held.
LEMMA QuietCall ==
  ASSUME NEW tb, NEW e \in Config, NEW d \in CallType, d.subset = <<>>, d.slice = NoSlice,
         d.result = Nil, d = Idle \/ (d.pc = "answered" /\ (d.err = "nil" => NoCandidate(e, d))),
         NEW w
  PROVE  CallInv(tb, e, d, w)
<1>1. d.pc \in {"idle", "answered"} /\ (d.pc = "idle" => d = Idle)
  BY DEF Idle
<1>2. ~Searching(d) /\ ~Holding(d) /\ ~Looping(d) /\ ~Found(d)
  BY <1>1 DEF Searching, Holding, Looping, Found
<1>3. CallOK(e, d)
  BY <1>1, <1>2, EmptySubset DEF CallOK
<1>4. NothingMissed(e, d)
  BY DEF NothingMissed, Searched, Idle
<1>5. /\ LoopsOK(e, d) /\ ScratchOK(e, d, w) /\ EarlierBarren(tb, e, d) /\ LoopsBarren(e, d)
      /\ SubsetBarren(e, d) /\ ResultOK(tb, e, d)
  BY <1>1, <1>2 DEF LoopsOK, ScratchOK, EarlierBarren, LoopsBarren, SubsetBarren, ResultOK
<1> QED
  BY <1>3, <1>4, <1>5 DEF CallInv

\* A search begins; nothing comes before the first subset.
LEMMA StartStep ==
  ASSUME NEW tb, NEW e \in Config, NEW d \in CallType, d.pc = "get", d.op /= "none",
         Len(d.values) = Width(e), d.err = "nil", d.slice = NoSlice, d.result = Nil,
         Subset(d.subset, Width(e)), Len(d.subset) = 1,
         d.op = "Closest" => \A X \in SUBSET (1 .. Width(e)) :
                               Earlier(tb, X, d.subset) => Cardinality(X) < 1,
         NEW w
  PROVE  CallInv(tb, e, d, w)
<1>1. Searching(d) /\ ~Holding(d) /\ ~Looping(d) /\ ~Found(d) /\ ~Searched(d)
  BY DEF Searching, Holding, Looping, Found, Searched
<1>2. CallOK(e, d)
  BY <1>1 DEF CallOK
<1>3. EarlierBarren(tb, e, d)
  <2> SUFFICES ASSUME d.op = "Closest", NEW X \in SUBSET (1 .. Width(e)), X /= {},
                      Earlier(tb, X, d.subset)
               PROVE  FALSE
    BY DEF EarlierBarren
  <2>1. Width(e) \in Nat
    BY EngineFacts
  <2>2. IsFiniteSet(X) /\ Cardinality(X) \in Nat
    BY <2>1, DimensionSets
  <2>3. Cardinality(X) /= 0
    BY <2>2, FS_EmptySet
  <2> QED
    BY <2>2, <2>3
<1>4. /\ LoopsOK(e, d) /\ ScratchOK(e, d, w) /\ LoopsBarren(e, d)
      /\ SubsetBarren(e, d) /\ ResultOK(tb, e, d) /\ NothingMissed(e, d)
  BY <1>1 DEF LoopsOK, ScratchOK, LoopsBarren, SubsetBarren, ResultOK, NothingMissed
<1> QED
  BY <1>2, <1>3, <1>4 DEF CallInv

\* Closest on an engine without dimensions has nothing to propose.
LEMMA NoDimensions ==
  ASSUME NEW e \in Config, NEW c \in CallType, Len(c.values) = 0
  PROVE  NoCandidate(e, c)
<1>1. DOMAIN c.values = {}
  <2>1. c.values \in Seq(Value)
    BY DEF CallType
  <2> QED
    BY <2>1
<1> QED
  BY <1>1 DEF NoCandidate, Candidates, Changed

\* The dimension of a selector is one of the engine.
LEMMA resolveDimInRange ==
  ASSUME NEW sel, NEW names \in Seq(STRING), resolveDim(sel, names) /= noMatch
  PROVE  resolveDim(sel, names) \in 0 .. Len(names) - 1
<1> DEFINE index == IF sel.type \in SignedType THEN toInt(sel.val) ELSE sel.val
           named == {i \in DOMAIN names : names[i] = sel.val}
<1>1. resolveDim(sel, names) =
        IF sel.type \in SignedType \cup UnsignedType
        THEN IF index \in 0 .. Len(names) - 1 THEN index ELSE noMatch
        ELSE IF sel.type = "string" /\ sel.val /= "" /\ named /= {} THEN Min(named) - 1 ELSE noMatch
  BY DEF resolveDim
<1> HIDE DEF index
<1>2. CASE sel.type \in SignedType \cup UnsignedType
  BY <1>1, <1>2
<1>3. CASE sel.type \notin SignedType \cup UnsignedType
  <2>1. named /= {} /\ resolveDim(sel, names) = Min(named) - 1
    BY <1>1, <1>3
  <2>2. DOMAIN names = 1 .. Len(names) /\ Len(names) \in Nat
    OBVIOUS
  <2>3. named \in SUBSET Nat /\ named \subseteq 1 .. Len(names)
    BY <2>2
  <2> HIDE DEF named
  <2>4. Min(named) \in named
    BY <2>1, <2>3, MinFacts
  <2> DEFINE x == Min(named)
             L == Len(names)
  <2>5. x \in 1 .. L /\ L \in Nat
    BY <2>2, <2>3, <2>4
  <2> HIDE DEF x, L
  <2>6. x - 1 \in 0 .. L - 1
    BY <2>5
  <2> QED
    BY <2>1, <2>6 DEF x, L
<1> QED
  BY <1>2, <1>3

\* ClosestIn replaces a single dimension.
LEMMA SingleSubset ==
  ASSUME NEW n \in Nat, NEW i \in 1 .. n
  PROVE  Subset(<<i>>, n) /\ Len(<<i>>) = 1 /\ Range(<<i>>) = {i}
<1>1. <<i>> \in Seq(1 .. n) /\ Len(<<i>>) = 1 /\ <<i>>[1] = i /\ DOMAIN <<i>> = {1}
  OBVIOUS
<1>2. Ascending(<<i>>)
  BY <1>1 DEF Ascending
<1> QED
  BY <1>1, <1>2 DEF Subset, Range

-----------------------------------------------------------------------------
(***************************************************************************)
(* The steps of the specification.                                         *)
(***************************************************************************)
ScratchOf(p) == IF g[p].slice = NoSlice THEN <<>> ELSE mem[g[p].slice]

\* A write to the slice.
LEMMA WriteFacts ==
  ASSUME NEW m \in Seq(Value), NEW x \in 1 .. Len(m), NEW v \in Value
  PROVE  Written(m, x, v, [m EXCEPT ![x] = v])
<1> DEFINE w == [m EXCEPT ![x] = v]
<1>1. w \in Seq(Value) /\ Len(w) = Len(m)
  BY ExceptSeq
<1>2. \A i \in 1 .. Len(m) : w[i] = IF i = x THEN v ELSE m[i]
  OBVIOUS
<1> QED
  BY <1>1, <1>2 DEF Written

\* The copy of the query into the slice.
LEMMA LoadFacts ==
  ASSUME NEW q \in Seq(Value), NEW m \in Seq(Value)
  PROVE  LET w == q \o SubSeq(m, Len(q) + 1, Len(m))
         IN  w \in Seq(Value) /\ Len(w) >= Len(q) /\ \A i \in 1 .. Len(q) : w[i] = q[i]
<1> DEFINE r == SubSeq(m, Len(q) + 1, Len(m))
<1>1. Len(q) \in Nat /\ Len(m) \in Nat
  OBVIOUS
<1>2. r \in Seq(Value)
  BY <1>1, SubSeqProperties
<1> HIDE DEF r
<1>3. /\ q \o r \in Seq(Value) /\ Len(q \o r) = Len(q) + Len(r)
      /\ \A i \in 1 .. Len(q) + Len(r) : (q \o r)[i] = IF i <= Len(q) THEN q[i] ELSE r[i - Len(q)]
  BY <1>2, ConcatProperties
<1>4. Len(r) \in Nat
  BY <1>2
<1>5. \A i \in 1 .. Len(q) : i \in 1 .. Len(q) + Len(r) /\ i <= Len(q)
  BY <1>1, <1>4
<1> QED
  BY <1>1, <1>3, <1>4, <1>5 DEF r

\* What the invariant says of one call.
LEMMA CallFacts ==
  ASSUME IInv, NEW p \in Proc
  PROVE  /\ engine[p] \in Config /\ engine[p] \in Configs
         /\ g[p] \in CallType
         /\ CallInv(tiebreak, engine[p], g[p], ScratchOf(p))
         /\ D(p) = Width(engine[p]) /\ D(p) \in Nat
         /\ Holding(g[p]) => /\ g[p].slice \in Slices /\ g[p].slice /= NoSlice
                             /\ ScratchOf(p) = mem[g[p].slice] /\ ScratchOf(p) \in Seq(Value)
         /\ ~Holding(g[p]) => g[p].slice = NoSlice
<1>1. /\ engine[p] \in Config /\ engine[p] \in Configs /\ g[p] \in CallType
      /\ CallInv(tiebreak, engine[p], g[p], ScratchOf(p))
  BY ClosestAssumption DEF IInv, StateType, ScratchOf
<1>2. D(p) = Width(engine[p]) /\ D(p) \in Nat
  BY <1>1, EngineFacts DEF D, Width
<1>3. g[p].slice \in IF Holding(g[p]) THEN Slices ELSE {NoSlice}
  BY <1>1 DEF CallInv, CallOK
<1>4. Holding(g[p]) => /\ g[p].slice \in Slices /\ g[p].slice /= NoSlice
                       /\ ScratchOf(p) = mem[g[p].slice] /\ ScratchOf(p) \in Seq(Value)
  BY <1>3, ClosestAssumption DEF IInv, StateType, ScratchOf
<1> QED
  BY <1>1, <1>2, <1>3, <1>4

\* A step of one goroutine that leaves the others and their slices alone.
LEMMA CallChanges ==
  ASSUME IInv, NEW p \in Proc, UNCHANGED <<engine, tiebreak>>,
         pool' \subseteq Slices, mem' \in [Slices -> Seq(Value)],
         NEW d \in CallType, g' = [g EXCEPT ![p] = d],
         \A s \in Slices : s /= d.slice => mem'[s] = mem[s],
         d.slice /= NoSlice =>
           /\ d.slice \notin pool'
           /\ \A q \in Proc \ {p} : g[q].slice /= d.slice,
         \A q \in Proc \ {p} : g[q].slice /= NoSlice => g[q].slice \notin pool',
         CallInv(tiebreak, engine[p], d, IF d.slice = NoSlice THEN <<>> ELSE mem'[d.slice])
  PROVE  IInv'
<1>1. g'[p] = d /\ \A q \in Proc \ {p} : g'[q] = g[q]
  BY DEF IInv, StateType
<1>2. StateType'
  BY DEF IInv, StateType
<1>3. ScratchIsPrivate'
  <2> SUFFICES ASSUME NEW q \in Proc, g'[q].slice /= NoSlice
               PROVE  /\ g'[q].slice \notin pool'
                      /\ \A r \in Proc \ {q} : g'[r].slice /= g'[q].slice
    BY DEF ScratchIsPrivate
  <2>1. CASE q = p
    BY <1>1, <2>1
  <2>2. CASE q /= p
    <3>1. g'[q] = g[q] /\ g[q].slice \notin pool' /\ \A r \in Proc \ {q} : g[r].slice /= g[q].slice
      BY <1>1, <2>2 DEF IInv, ScratchIsPrivate
    <3>2. d.slice /= g[q].slice
      BY <1>1, <2>2
    <3> QED
      BY <1>1, <3>1, <3>2
  <2> QED
    BY <2>1, <2>2
<1>4. ASSUME NEW q \in Proc
      PROVE  CallInv(tiebreak', engine'[q], g'[q],
                     IF g'[q].slice = NoSlice THEN <<>> ELSE mem'[g'[q].slice])
  <2>1. CASE q = p
    BY <1>1, <2>1
  <2>2. CASE q /= p
    <3>1. g'[q] = g[q] /\ engine'[q] = engine[q] /\ tiebreak' = tiebreak
      BY <1>1, <2>2
    <3>2. CallInv(tiebreak, engine[q], g[q], IF g[q].slice = NoSlice THEN <<>> ELSE mem[g[q].slice])
      BY DEF IInv
    <3>3. g[q].slice \in Slices \cup {NoSlice} /\ (g[q].slice /= NoSlice => g[q].slice /= d.slice)
      BY <2>2 DEF IInv, StateType, CallType
    <3>4. g[q].slice /= NoSlice => mem'[g[q].slice] = mem[g[q].slice]
      BY <3>3
    <3> QED
      BY <3>1, <3>2, <3>4
  <2> QED
    BY <2>1, <2>2
<1> QED
  BY <1>2, <1>3, <1>4 DEF IInv

\* GetScratch keeps the invariant.
LEMMA GetScratchKeeps ==
  ASSUME IInv, NEW p \in Proc, GetScratch(p)
  PROVE  IInv'
<1> DEFINE c == g[p]
           e == engine[p]
<1>1. PICK s \in Obtainable(p) :
        /\ pool' = pool \ {s}
        /\ mem' = Loaded(s, c.values)
        /\ g' = [g EXCEPT ![p].slice = s, ![p].at = <<1>>, ![p].pc = "dfs"]
  BY DEF GetScratch
<1>2. c.pc = "get" /\ UNCHANGED <<engine, tiebreak>>
  BY DEF GetScratch
<1>3. e \in Config /\ c \in CallType /\ CallInv(tiebreak, e, c, ScratchOf(p)) /\ Searching(c)
  BY <1>2, CallFacts DEF Searching
<1>4. s \in Slices /\ \A q \in Proc : q /= p => g[q].slice /= s
  <2>1. s \in Slices
    BY DEF Obtainable, Unused, IInv, StateType
  <2>2. s \in Unused \/ s \in pool
    BY DEF Obtainable
  <2>3. s \in Unused => \A q \in Proc : g[q].slice /= s
    BY DEF Unused
  <2>4. s \in pool => \A q \in Proc : g[q].slice /= s
    BY <2>1, ClosestAssumption DEF IInv, ScratchIsPrivate
  <2> QED
    BY <2>1, <2>2, <2>3, <2>4
<1>5. s /= NoSlice
  BY <1>4, ClosestAssumption
<1> DEFINE w == c.values \o SubSeq(mem[s], Len(c.values) + 1, Len(mem[s]))
           d == [c EXCEPT !.slice = s, !.at = <<1>>, !.pc = "dfs"]
<1>6. mem[s] \in Seq(Value) /\ c.values \in Seq(Value)
  BY <1>3, <1>4 DEF IInv, StateType, CallType
<1>7. w \in Seq(Value) /\ Len(w) >= Len(c.values) /\ \A i \in 1 .. Len(c.values) : w[i] = c.values[i]
  BY <1>6, LoadFacts
<1>8. mem' = [mem EXCEPT ![s] = w]
  BY <1>1 DEF Loaded
<1> HIDE DEF w
<1>9. mem' \in [Slices -> Seq(Value)] /\ mem'[s] = w /\ \A x \in Slices : x /= s => mem'[x] = mem[x]
  BY <1>4, <1>7, <1>8 DEF IInv, StateType
<1>10. /\ d \in CallType /\ d.slice = s /\ d.at = <<1>> /\ d.pc = "dfs" /\ SameCall(c, d)
       /\ d.result = c.result
  <2>1. <<1>> \in Seq(Nat)
    OBVIOUS
  <2> QED
    BY <1>3, <1>4, <2>1 DEF CallType, SameCall
<1>11. g' = [g EXCEPT ![p] = d]
  BY <1>1
<1>12. Len(c.values) = Width(e)
  BY <1>3, SearchFacts
<1> HIDE DEF d, e, c
<1>13. CallInv(tiebreak, e, d, w)
  BY <1>2, <1>3, <1>4, <1>7, <1>10, <1>12, GetStep
<1>14. CallInv(tiebreak, engine[p], d, IF d.slice = NoSlice THEN <<>> ELSE mem'[d.slice])
  BY <1>5, <1>9, <1>10, <1>13 DEF e
<1>15. pool' \subseteq Slices /\ s \notin pool'
  BY <1>1 DEF IInv, StateType
<1>16. \A q \in Proc \ {p} : g[q].slice /= NoSlice => g[q].slice \notin pool'
  BY <1>1 DEF IInv, ScratchIsPrivate
<1> QED
  BY <1>2, <1>4, <1>9, <1>10, <1>11, <1>14, <1>15, <1>16, CallChanges

\* The steps of the loops change the call and one slot of its own scratch slice.
LEMMA LoopChanges ==
  ASSUME IInv, NEW p \in Proc, Holding(g[p]), UNCHANGED <<engine, tiebreak, pool>>,
         NEW w \in Seq(Value), mem' = [mem EXCEPT ![g[p].slice] = w],
         NEW d \in CallType, g' = [g EXCEPT ![p] = d], d.slice = g[p].slice,
         CallInv(tiebreak, engine[p], d, w)
  PROVE  IInv'
<1> DEFINE s == g[p].slice
<1>1. s \in Slices /\ s /= NoSlice
  BY CallFacts
<1>2. mem' \in [Slices -> Seq(Value)] /\ mem'[s] = w /\ \A x \in Slices : x /= s => mem'[x] = mem[x]
  BY <1>1 DEF IInv, StateType
<1>3. CallInv(tiebreak, engine[p], d, IF d.slice = NoSlice THEN <<>> ELSE mem'[d.slice])
  BY <1>1, <1>2
<1>4. s \notin pool /\ \A q \in Proc \ {p} : g[q].slice /= s
  BY <1>1 DEF IInv, ScratchIsPrivate
<1>5. \A q \in Proc \ {p} : g[q].slice /= NoSlice => g[q].slice \notin pool
  BY DEF IInv, ScratchIsPrivate
<1>6. pool \subseteq Slices /\ pool' = pool
  BY DEF IInv, StateType
<1> HIDE DEF s
<1>7. d.slice = s
  BY DEF s
<1> QED
  BY <1>1, <1>2, <1>3, <1>4, <1>5, <1>6, <1>7, CallChanges

\* A call in its loops leaves the slices of the others alone.
LEMMA LoopKeepsMem ==
  ASSUME IInv, NEW p \in Proc, Holding(g[p]), UNCHANGED <<engine, tiebreak, pool, mem>>,
         NEW d \in CallType, g' = [g EXCEPT ![p] = d], d.slice = g[p].slice,
         CallInv(tiebreak, engine[p], d, mem[g[p].slice])
  PROVE  IInv'
<1>1. mem[g[p].slice] \in Seq(Value) /\ mem' = [mem EXCEPT ![g[p].slice] = mem[g[p].slice]]
  <2>1. mem[g[p].slice] \in Seq(Value)
    BY CallFacts
  <2> QED
    BY <2>1 DEF IInv, StateType
<1> QED
  BY <1>1, LoopChanges

\* What a step of the loops starts from.
LEMMA LoopingFacts ==
  ASSUME IInv, NEW p \in Proc, Looping(g[p])
  PROVE  /\ engine[p] \in Config /\ g[p] \in CallType /\ mem[g[p].slice] \in Seq(Value)
         /\ CallInv(tiebreak, engine[p], g[p], mem[g[p].slice])
         /\ Holding(g[p]) /\ g[p].slice \in Slices
<1>1. Holding(g[p])
  BY DEF Looping, Holding
<1> QED
  BY <1>1, CallFacts

\* The actions keep the invariant: a value is written, and the loop below opened.
LEMMA TryValueKeeps ==
  ASSUME IInv, NEW p \in Proc, TryValue(p)
  PROVE  IInv'
<1> DEFINE c == g[p]
           e == engine[p]
           m == mem[g[p].slice]
           k == Len(c.at)
           x == c.subset[k]
           v == e.dims[x][c.at[k]]
<1>1. /\ c.pc = "dfs" /\ c.at[k] <= Len(e.dims[x]) /\ UNCHANGED <<engine, tiebreak, pool>>
      /\ IF v = c.values[x]
         THEN g' = [g EXCEPT ![p].at = NextValue(@)] /\ UNCHANGED mem
         ELSE /\ mem' = [mem EXCEPT ![g[p].slice][x] = v]
              /\ g' = IF k < Len(c.subset) THEN [g EXCEPT ![p].at = Append(@, 1)]
                      ELSE [g EXCEPT ![p].pc = "check"]
  BY DEF TryValue, LoopAt, LoopDim
<1>2. Looping(c)
  BY <1>1 DEF Looping
<1>3. /\ e \in Config /\ c \in CallType /\ m \in Seq(Value) /\ CallInv(tiebreak, e, c, m)
      /\ Holding(c) /\ c.slice \in Slices
  BY <1>2, LoopingFacts
<1>4. /\ k \in Nat \ {0} /\ x \in 1 .. Width(e) /\ Len(e.dims[x]) \in Nat /\ c.at[k] \in Nat \ {0}
      /\ \A i \in 1 .. Len(e.dims[x]) : e.dims[x][i] \in Value
      /\ Len(m) \in Nat /\ Len(m) >= Width(e) /\ Searching(c)
  <2>1. k \in Nat \ {0}
    BY <1>2, <1>3, LoopFacts
  <2>2. k \in 1 .. Len(c.at)
    BY <2>1
  <2> QED
    BY <1>2, <1>3, <2>1, <2>2, LoopFacts
<1>5. Width(e) \in Nat /\ c.at \in Seq(Nat)
  BY <1>3, <1>4, SearchFacts
<1>6. v \in Value
  <2> DEFINE a == c.at[k]
             L == Len(e.dims[x])
  <2>1. a \in Nat \ {0} /\ L \in Nat /\ a <= L
    BY <1>1, <1>4
  <2>2. \A i \in 1 .. L : e.dims[x][i] \in Value
    BY <1>4
  <2> HIDE DEF a, L
  <2>3. a \in 1 .. L
    BY <2>1
  <2>4. e.dims[x][a] \in Value
    BY <2>2, <2>3
  <2> QED
    BY <2>4 DEF a
<1>7. x \in 1 .. Len(m)
  <2> HIDE DEF x, m, e
  <2> QED
    BY <1>4, <1>5
<1>8. CASE v = c.values[x]
  <2> DEFINE d == [c EXCEPT !.at = NextValue(c.at)]
  <2>1. NextValue(c.at) \in Seq(Nat)
    BY <1>4, <1>5, NextValueFacts
  <2>2. /\ d \in CallType /\ d.slice = c.slice /\ d.at = NextValue(c.at) /\ d.pc = "dfs"
        /\ SameCall(c, d) /\ d.result = c.result
    BY <1>1, <1>3, <2>1 DEF CallType, SameCall
  <2>3. g' = [g EXCEPT ![p] = d] /\ UNCHANGED mem
    BY <1>1, <1>8
  <2>4. e.dims[c.subset[Len(c.at)]][c.at[Len(c.at)]] = c.values[c.subset[Len(c.at)]]
    BY <1>8
  <2> HIDE DEF d, c, e, m, k, x, v
  <2>5. CallInv(tiebreak, e, d, m)
    BY <1>1, <1>3, <2>2, <2>4, SkipStep
  <2>6. CallInv(tiebreak, engine[p], d, mem[g[p].slice])
    BY <2>5 DEF e, m
  <2>7. d.slice = g[p].slice /\ Holding(g[p])
    BY <1>3, <2>2 DEF c
  <2> QED
    BY <1>1, <2>2, <2>3, <2>6, <2>7, LoopKeepsMem
<1>9. CASE v /= c.values[x]
  <2> DEFINE w == [m EXCEPT ![x] = v]
  <2>1. Written(m, x, v, w)
    <3> HIDE DEF m, x, v
    <3> QED
      BY <1>3, <1>6, <1>7, WriteFacts
  <2>2. mem' = [mem EXCEPT ![g[p].slice] = w]
    BY <1>1, <1>9
  <2>3. CASE k < Len(c.subset)
    <3> DEFINE d == [c EXCEPT !.at = Append(c.at, 1)]
    <3>1. Append(c.at, 1) \in Seq(Nat)
      BY <1>5
    <3>2. /\ d \in CallType /\ d.slice = c.slice /\ d.at = Append(c.at, 1) /\ d.pc = "dfs"
          /\ SameCall(c, d) /\ d.result = c.result
      BY <1>1, <1>3, <3>1 DEF CallType, SameCall
    <3>3. g' = [g EXCEPT ![p] = d]
      BY <1>1, <1>9, <2>3
    <3>a. v = e.dims[x][c.at[k]] /\ k = Len(c.at) /\ x = c.subset[k]
      OBVIOUS
    <3> HIDE DEF d, w, c, e, m, k, x, v
    <3>4. w \in Seq(Value) /\ CallInv(tiebreak, e, d, w)
      BY <1>1, <1>3, <1>9, <2>1, <2>3, <3>2, <3>a, OpenStep
    <3>5. CallInv(tiebreak, engine[p], d, w) /\ d.slice = g[p].slice /\ Holding(g[p])
      BY <1>3, <3>2, <3>4 DEF e, c
    <3> QED
      BY <1>1, <2>2, <3>2, <3>3, <3>4, <3>5, LoopChanges
  <2>4. CASE ~(k < Len(c.subset))
    <3> DEFINE d == [c EXCEPT !.pc = "check"]
    <3>2. /\ d \in CallType /\ d.slice = c.slice /\ d.at = c.at /\ d.pc = "check"
          /\ SameCall(c, d) /\ d.result = c.result
      BY <1>1, <1>3 DEF CallType, SameCall
    <3>3. g' = [g EXCEPT ![p] = d]
      BY <1>1, <1>9, <2>4
    <3>a. v = e.dims[x][c.at[k]] /\ k = Len(c.at) /\ x = c.subset[k]
      OBVIOUS
    <3> HIDE DEF d, w, c, e, m, k, x, v
    <3>4. w \in Seq(Value) /\ CallInv(tiebreak, e, d, w)
      BY <1>1, <1>3, <1>9, <2>1, <2>4, <3>2, <3>a, CompleteStep
    <3>5. CallInv(tiebreak, engine[p], d, w) /\ d.slice = g[p].slice /\ Holding(g[p])
      BY <1>3, <3>2, <3>4 DEF e, c
    <3> QED
      BY <1>1, <2>2, <3>2, <3>3, <3>4, <3>5, LoopChanges
  <2> QED
    BY <2>3, <2>4
<1> QED
  BY <1>8, <1>9

\* The values of a loop are used up: the slice is restored.
LEMMA EndLoopKeeps ==
  ASSUME IInv, NEW p \in Proc, EndLoop(p)
  PROVE  IInv'
<1> DEFINE c == g[p]
           e == engine[p]
           m == mem[g[p].slice]
           k == Len(c.at)
           x == c.subset[k - 1]
<1>1. /\ c.pc = "dfs" /\ c.at[k] > Len(e.dims[c.subset[k]]) /\ UNCHANGED <<engine, tiebreak, pool>>
      /\ IF k = 1
         THEN g' = [g EXCEPT ![p].pc = "put"] /\ UNCHANGED mem
         ELSE /\ mem' = [mem EXCEPT ![g[p].slice][x] = c.values[x]]
              /\ g' = [g EXCEPT ![p].at = NextValue(SubSeq(@, 1, k - 1))]
  BY DEF EndLoop, LoopAt, LoopDim, Restored
<1>2. Looping(c)
  BY <1>1 DEF Looping
<1>3. /\ e \in Config /\ c \in CallType /\ m \in Seq(Value) /\ CallInv(tiebreak, e, c, m)
      /\ Holding(c) /\ c.slice \in Slices
  BY <1>2, LoopingFacts
<1>4. CASE k = 1
  <2> DEFINE d == [c EXCEPT !.pc = "put"]
  <2>1. /\ d \in CallType /\ d.slice = c.slice /\ d.pc = "put" /\ SameCall(c, d)
        /\ d.result = c.result
    BY <1>3 DEF CallType, SameCall
  <2>2. g' = [g EXCEPT ![p] = d] /\ UNCHANGED mem
    BY <1>1, <1>4
  <2>3. Len(c.at) = 1 /\ c.at[1] > Len(e.dims[c.subset[1]])
    BY <1>1, <1>4
  <2> HIDE DEF d, c, e, m, k, x
  <2>4. CallInv(tiebreak, e, d, m)
    BY <1>1, <1>3, <2>1, <2>3, ExhaustStep
  <2>5. CallInv(tiebreak, engine[p], d, mem[g[p].slice]) /\ d.slice = g[p].slice /\ Holding(g[p])
    BY <1>3, <2>1, <2>4 DEF c, e, m
  <2> QED
    BY <1>1, <2>1, <2>2, <2>5, LoopKeepsMem
<1>5. CASE k /= 1
  <2> DEFINE w == [m EXCEPT ![x] = c.values[x]]
             fr == SubSeq(c.at, 1, k - 1)
             d == [c EXCEPT !.at = NextValue(fr)]
  <2>1. /\ k \in Nat \ {0, 1} /\ Len(m) \in Nat /\ Len(m) >= Width(e) /\ Searching(c)
        /\ \A n \in 1 .. k : c.subset[n] \in 1 .. Width(e)
    BY <1>2, <1>3, <1>5, LoopFacts
  <2>2. Width(e) \in Nat /\ c.at \in Seq(Nat) /\ \A i \in 1 .. Width(e) : c.values[i] \in Value
    BY <1>3, <2>1, SearchFacts
  <2>3. x \in 1 .. Width(e)
    <3>1. k - 1 \in 1 .. k
      <4> HIDE DEF k
      <4> QED
        BY <2>1
    <3> QED
      BY <2>1, <3>1
  <2>4. x \in 1 .. Len(m) /\ c.values[x] \in Value
    <3> HIDE DEF x, m, e, c
    <3> QED
      BY <2>1, <2>2, <2>3
  <2>5. Written(m, x, c.values[x], w)
    <3> HIDE DEF m, x, c
    <3> QED
      BY <1>3, <2>4, WriteFacts
  <2>6. mem' = [mem EXCEPT ![g[p].slice] = w]
    BY <1>1, <1>5
  <2>7. g' = [g EXCEPT ![p] = d]
    BY <1>1, <1>5
  <2>8. NextValue(fr) \in Seq(Nat)
    <3>1. k - 1 \in 0 .. Len(c.at) /\ k - 1 \in Nat \ {0}
      <4>1. k \in Nat \ {0, 1}
        BY <2>1
      <4>2. k - 1 \in 0 .. k /\ k - 1 \in Nat \ {0}
        <5> HIDE DEF k
        <5> QED
          BY <4>1
      <4> QED
        BY <4>2
    <3>2. fr \in Seq(Nat) /\ Len(fr) \in Nat \ {0}
      BY <2>2, <3>1, FrontFacts
    <3> QED
      BY <3>2, NextValueFacts
  <2>9. /\ d \in CallType /\ d.slice = c.slice /\ d.at = NextValue(fr) /\ d.pc = "dfs"
        /\ SameCall(c, d) /\ d.result = c.result
    BY <1>1, <1>3, <2>8 DEF CallType, SameCall
  <2>10. k = Len(c.at) /\ x = c.subset[k - 1] /\ d.at = NextValue(SubSeq(c.at, 1, k - 1))
    BY <2>9
  <2> HIDE DEF d, w, c, e, m, k, x
  <2>11. w \in Seq(Value) /\ CallInv(tiebreak, e, d, w)
    BY <1>1, <1>3, <1>5, <2>5, <2>9, <2>10, PopStep
  <2>12. CallInv(tiebreak, engine[p], d, w) /\ d.slice = g[p].slice /\ Holding(g[p])
    BY <1>3, <2>9, <2>11 DEF e, c
  <2> QED
    BY <1>1, <2>6, <2>7, <2>9, <2>11, <2>12, LoopChanges
<1> QED
  BY <1>4, <1>5

\* A candidate is handed to the trie.
LEMMA CheckCandidateKeeps ==
  ASSUME IInv, NEW p \in Proc, CheckCandidate(p)
  PROVE  IInv'
<1> DEFINE c == g[p]
           e == engine[p]
           m == mem[g[p].slice]
           k == Len(c.at)
           x == c.subset[k]
           u == SubSeq(m, 1, Width(e))
           S == Range(c.subset)
<1>1. /\ c.pc = "check" /\ UNCHANGED <<engine, tiebreak, pool>>
      /\ IF Allowed(e, u)
         THEN /\ g' = [g EXCEPT ![p].result = buildClosestResult(c.values, u, c.subset),
                                ![p].pc = "put"]
              /\ UNCHANGED mem
         ELSE /\ mem' = [mem EXCEPT ![g[p].slice][x] = c.values[x]]
              /\ g' = [g EXCEPT ![p].at = NextValue(@), ![p].pc = "dfs"]
  BY DEF CheckCandidate, LoopDim, Restored, D, Width
<1>2. Looping(c)
  BY <1>1 DEF Looping
<1>3. /\ e \in Config /\ c \in CallType /\ m \in Seq(Value) /\ CallInv(tiebreak, e, c, m)
      /\ Holding(c) /\ c.slice \in Slices
  BY <1>2, LoopingFacts
<1>4. /\ k \in Nat \ {0} /\ Len(m) \in Nat /\ Len(m) >= Width(e) /\ Searching(c)
      /\ \A n \in 1 .. k : c.subset[n] \in 1 .. Width(e)
      /\ Subset(c.subset, Width(e))
  BY <1>2, <1>3, LoopFacts
<1>5. /\ Width(e) \in Nat /\ c.at \in Seq(Nat) /\ Len(c.subset) \in Nat \ {0}
      /\ Len(c.values) = Width(e) /\ \A i \in 1 .. Width(e) : c.values[i] \in Value
  BY <1>3, <1>4, SearchFacts
<1>6. CASE Allowed(e, u)
  <2> DEFINE r == buildClosestResult(c.values, u, c.subset)
             d == [c EXCEPT !.result = r, !.pc = "put"]
  <2>1. CandidateOK(e, c, u)
    BY <1>1, <1>3, CandidateFacts DEF IsCandidate
  <2>2. u \in Seq(Value) /\ Changed(c.values, u) = S
    BY <2>1 DEF CandidateOK, Proposes
  <2> HIDE DEF u
  <2>3. /\ S \in SUBSET (1 .. Width(e)) /\ IsFiniteSet(S) /\ Cardinality(S) = Len(c.subset)
    BY <1>4, <1>5, SubsetFacts
  <2>4. S /= {}
    BY <1>5, <2>3, FS_EmptySet
  <2>5. {i \in S : u[i] /= c.values[i]} = S
    BY <2>2 DEF Changed
  <2>6. r = [conditions |-> u, distance |-> Cardinality(S),
             dim |-> IF tiebreak = "RightmostDim" THEN Max(S) ELSE Min(S)]
    BY <2>4, <2>5 DEF buildClosestResult, pickPrimaryDim
  <2>7. Min(S) \in S /\ Max(S) \in S
    <3>1. S \in SUBSET Nat /\ S \in SUBSET (0 .. Width(e))
      BY <1>5, <2>3
    <3> HIDE DEF S
    <3> QED
      BY <1>5, <2>4, <3>1, MinFacts, MaxFacts
  <2>8. r.dim \in S /\ r.dim \in Nat /\ r.dim /= 0
    BY <1>5, <2>3, <2>6, <2>7
  <2>9. r /= Nil
    BY <2>8 DEF Nil
  <2> HIDE DEF S
  <2>10. r \in [conditions : Seq(Value), distance : Nat, dim : Nat]
    BY <1>5, <2>2, <2>3, <2>6, <2>8
  <2>11. /\ r.conditions = u /\ r.distance = Cardinality(S)
         /\ r.dim = IF tiebreak = "RightmostDim" THEN Max(S) ELSE Min(S)
    BY <2>6
  <2>12. g' = [g EXCEPT ![p] = d] /\ UNCHANGED mem
    BY <1>1, <1>6
  <2> HIDE DEF r
  <2>13. /\ d \in CallType /\ d.slice = c.slice /\ d.pc = "put" /\ SameCall(c, d) /\ d.result = r
    BY <1>3, <2>10 DEF CallType, SameCall
  <2>14. u = SubSeq(m, 1, Width(e))
    BY DEF u
  <2> HIDE DEF d, c, e, m, k, x
  <2>15. CallInv(tiebreak, e, d, m)
    BY <1>1, <1>3, <1>6, <2>9, <2>11, <2>13, <2>14, FoundStep DEF S
  <2>16. CallInv(tiebreak, engine[p], d, mem[g[p].slice]) /\ d.slice = g[p].slice /\ Holding(g[p])
    BY <1>3, <2>13, <2>15 DEF c, e, m
  <2> QED
    BY <1>1, <2>12, <2>13, <2>16, LoopKeepsMem
<1>7. CASE ~Allowed(e, u)
  <2> DEFINE w == [m EXCEPT ![x] = c.values[x]]
             d == [c EXCEPT !.at = NextValue(c.at), !.pc = "dfs"]
  <2>1. x \in 1 .. Width(e)
    <3>1. k \in 1 .. k
      <4> HIDE DEF k
      <4> QED
        BY <1>4
    <3> QED
      BY <1>4, <3>1
  <2>2. x \in 1 .. Len(m) /\ c.values[x] \in Value
    <3> HIDE DEF x, m, e, c
    <3> QED
      BY <1>4, <1>5, <2>1
  <2>3. Written(m, x, c.values[x], w)
    <3> HIDE DEF m, x, c
    <3> QED
      BY <1>3, <2>2, WriteFacts
  <2>4. mem' = [mem EXCEPT ![g[p].slice] = w]
    BY <1>1, <1>7
  <2>5. g' = [g EXCEPT ![p] = d]
    BY <1>1, <1>7
  <2>6. NextValue(c.at) \in Seq(Nat)
    BY <1>4, <1>5, NextValueFacts
  <2>7. /\ d \in CallType /\ d.slice = c.slice /\ d.at = NextValue(c.at) /\ d.pc = "dfs"
        /\ SameCall(c, d) /\ d.result = c.result
    BY <1>3, <2>6 DEF CallType, SameCall
  <2>8. k = Len(c.at) /\ x = c.subset[k] /\ ~Allowed(e, SubSeq(m, 1, Width(e)))
    BY <1>7
  <2> HIDE DEF d, w, c, e, m, k, x
  <2>9. w \in Seq(Value) /\ CallInv(tiebreak, e, d, w)
    BY <1>1, <1>3, <2>3, <2>7, <2>8, TakeBackStep
  <2>10. CallInv(tiebreak, engine[p], d, w) /\ d.slice = g[p].slice /\ Holding(g[p])
    BY <1>3, <2>7, <2>9 DEF e, c
  <2> QED
    BY <1>1, <2>4, <2>5, <2>7, <2>9, <2>10, LoopChanges
<1> QED
  BY <1>6, <1>7

\* A step after which the goroutine holds no slice.
LEMMA CallLetsGo ==
  ASSUME IInv, NEW p \in Proc, UNCHANGED <<engine, tiebreak, mem>>,
         pool' \subseteq pool \cup (IF g[p].slice = NoSlice THEN {} ELSE {g[p].slice}),
         NEW d \in CallType, g' = [g EXCEPT ![p] = d], d.slice = NoSlice,
         CallInv(tiebreak, engine[p], d, <<>>)
  PROVE  IInv'
<1>1. g[p].slice \in Slices \cup {NoSlice} /\ pool \subseteq Slices
  BY DEF IInv, StateType, CallType
<1>2. pool' \subseteq Slices
  BY <1>1
<1>3. mem' \in [Slices -> Seq(Value)] /\ \A s \in Slices : s /= d.slice => mem'[s] = mem[s]
  BY DEF IInv, StateType
<1>4. \A q \in Proc \ {p} : g[q].slice /= NoSlice => g[q].slice \notin pool'
  <2> TAKE q \in Proc \ {p}
  <2> HAVE g[q].slice /= NoSlice
  <2>1. g[q].slice \notin pool /\ g[p].slice /= g[q].slice
    BY DEF IInv, ScratchIsPrivate
  <2> QED
    BY <2>1
<1> QED
  BY <1>2, <1>3, <1>4, CallChanges

\* The slice goes back to the pool.
LEMMA PutScratchKeeps ==
  ASSUME IInv, NEW p \in Proc, PutScratch(p)
  PROVE  IInv'
<1> DEFINE c == g[p]
           e == engine[p]
           m == mem[g[p].slice]
           s == c.subset
           W == Width(e)
           over == \/ c.result /= Nil
                   \/ c.op = "ClosestIn"
                   \/ Len(s) = W /\ LastOfSize(s, W)
           rest == [c EXCEPT !.slice = NoSlice, !.at = <<>>]
           d == IF over THEN [rest EXCEPT !.pc = "answered"]
                ELSE [rest EXCEPT !.pc = "get", !.subset = NextSubset(s, W)]
<1>1. /\ c.pc = "put" /\ UNCHANGED <<engine, tiebreak, mem>>
      /\ pool' \subseteq pool \cup {c.slice}
      /\ g' = [g EXCEPT ![p] = d]
  <2>1. D(p) = W
    BY CallFacts
  <2> QED
    BY <2>1 DEF PutScratch
<1>2. Holding(c) /\ Searching(c)
  BY <1>1 DEF Holding, Searching
<1>3. /\ e \in Config /\ c \in CallType /\ CallInv(tiebreak, e, c, m)
      /\ c.slice \in Slices /\ c.slice /= NoSlice
  BY <1>2, CallFacts
<1>4. /\ W \in Nat /\ Subset(s, W) /\ Len(s) \in Nat \ {0}
  BY <1>2, <1>3, SearchFacts DEF CallInv, CallOK
<1>5. d \in CallType /\ d.slice = NoSlice /\ CallInv(tiebreak, e, d, <<>>)
  <2>a. <<>> \in Seq(Nat)
    OBVIOUS
  <2>1. CASE over
    <3>1. d = [rest EXCEPT !.pc = "answered"]
      BY <2>1
    <3> HIDE DEF over
    <3>2. /\ d \in CallType /\ d.slice = NoSlice /\ d.pc = "answered" /\ SameCall(c, d)
          /\ d.result = c.result
      BY <1>3, <2>a, <3>1 DEF CallType, SameCall
    <3> HIDE DEF d, c, e, m
    <3>3. CallInv(tiebreak, e, d, <<>>)
      BY <1>1, <1>3, <2>1, <3>2, OverStep DEF over
    <3> QED
      BY <3>2, <3>3
  <2>2. CASE ~over
    <3>1. d = [rest EXCEPT !.pc = "get", !.subset = NextSubset(s, W)]
      BY <2>2
    <3>2. c.result = Nil /\ c.op /= "ClosestIn" /\ ~(Len(s) = W /\ LastOfSize(s, W))
      BY <2>2
    <3> HIDE DEF over
    <3>3. NextSubset(s, W) \in Seq(Nat)
      <4>1. Subset(NextSubset(s, W), W)
        <5> HIDE DEF s, W
        <5> QED
          BY <1>4, <3>2, NextSubsetFacts
      <4>2. NextSubset(s, W) \in Seq(1 .. W) /\ Len(NextSubset(s, W)) \in Nat
        BY <4>1 DEF Subset
      <4> HIDE DEF s, W
      <4> QED
        BY <4>2, <1>4
    <3>4. /\ d \in CallType /\ d.slice = NoSlice /\ d.pc = "get" /\ d.op = c.op
          /\ d.values = c.values /\ d.err = c.err /\ d.result = c.result
          /\ d.subset = NextSubset(c.subset, Width(e))
      BY <1>3, <2>a, <3>1, <3>3 DEF CallType
    <3>5. ~(Len(c.subset) = Width(e) /\ LastOfSize(c.subset, Width(e)))
      BY <3>2
    <3> HIDE DEF d, c, e, m, s, W
    <3>6. CallInv(tiebreak, e, d, <<>>)
      BY <1>1, <1>3, <3>2, <3>4, <3>5, AgainStep
    <3> QED
      BY <3>4, <3>6
  <2> QED
    BY <2>1, <2>2
<1>6. pool' \subseteq pool \cup (IF g[p].slice = NoSlice THEN {} ELSE {g[p].slice})
  BY <1>1, <1>3
<1> HIDE DEF d
<1> QED
  BY <1>1, <1>5, <1>6, CallLetsGo

\* What a goroutine outside the API has.
LEMMA IdleFacts == Idle \in CallType /\ Idle.subset = <<>> /\ Idle.slice = NoSlice /\ Idle.result = Nil
<1>1. <<>> \in Seq(Nat) /\ <<>> \in Seq(Value)
  OBVIOUS
<1> QED
  BY <1>1 DEF Idle, CallType, Nil

\* A call returns.
LEMMA ReturnKeeps ==
  ASSUME IInv, NEW p \in Proc, Return(p)
  PROVE  IInv'
<1>1. g' = [g EXCEPT ![p] = Idle] /\ UNCHANGED <<engine, tiebreak, pool, mem>>
  BY DEF Return
<1>2. CallInv(tiebreak, engine[p], Idle, <<>>)
  BY CallFacts, IdleFacts, QuietCall
<1>3. pool' \subseteq pool \cup (IF g[p].slice = NoSlice THEN {} ELSE {g[p].slice})
  BY <1>1
<1> QED
  BY <1>1, <1>2, <1>3, IdleFacts, CallLetsGo

\* The garbage collector empties the pool.
LEMMA DropPooledKeeps ==
  ASSUME IInv, DropPooled
  PROVE  IInv'
<1>1. pool' \subseteq pool /\ UNCHANGED <<engine, tiebreak, mem, g>>
  BY DEF DropPooled
<1>2. StateType' /\ ScratchIsPrivate'
  BY <1>1 DEF IInv, StateType, ScratchIsPrivate
<1>3. (\A p \in Proc : CallInv(tiebreak, engine[p], g[p],
                               IF g[p].slice = NoSlice THEN <<>> ELSE mem[g[p].slice]))'
  BY <1>1 DEF IInv
<1> QED
  BY <1>2, <1>3 DEF IInv

\* Closest is called.
LEMMA ClosestKeeps ==
  ASSUME IInv, NEW p \in Proc, NEW q \in Inputs, Closest(p, q)
  PROVE  IInv'
<1> DEFINE e == engine[p]
           W == Width(e)
           d == IF Len(q) /= W THEN Answered("Closest", q, "ErrArityMismatch")
                ELSE IF W = 0 THEN Answered("Closest", q, "nil")
                ELSE [Idle EXCEPT !.pc = "get", !.op = "Closest", !.values = q,
                                  !.subset = FirstSubset(1, W)]
<1>1. /\ UNCHANGED <<engine, tiebreak, pool, mem>>
      /\ g' = [g EXCEPT ![p] = d]
  <2>1. D(p) = W
    BY CallFacts
  <2> QED
    BY <2>1 DEF Closest
<1>2. e \in Config /\ W \in Nat
  BY CallFacts, EngineFacts
<1>3. q \in Seq(Value) /\ Len(q) \in Nat
  BY ClosestAssumption
<1>4. d \in CallType /\ d.slice = NoSlice /\ CallInv(tiebreak, e, d, <<>>)
  <2>1. CASE Len(q) /= W
    <3>1. d = Answered("Closest", q, "ErrArityMismatch")
      BY <2>1
    <3>2. /\ d \in CallType /\ d.subset = <<>> /\ d.slice = NoSlice /\ d.result = Nil
          /\ d.pc = "answered" /\ d.err = "ErrArityMismatch"
      <4> HIDE DEF d
      <4> QED
        BY <1>3, <3>1, IdleFacts DEF Answered, Idle, CallType
    <3> HIDE DEF d, e
    <3> QED
      BY <1>2, <3>2, QuietCall
  <2>2. CASE Len(q) = W /\ W = 0
    <3>1. d = Answered("Closest", q, "nil")
      BY <2>2
    <3>2. /\ d \in CallType /\ d.subset = <<>> /\ d.slice = NoSlice /\ d.result = Nil
          /\ d.pc = "answered" /\ d.values = q
      <4> HIDE DEF d
      <4> QED
        BY <1>3, <3>1, IdleFacts DEF Answered, Idle, CallType
    <3> HIDE DEF d, e
    <3>3. NoCandidate(e, d)
      BY <1>2, <2>2, <3>2, NoDimensions
    <3> QED
      BY <1>2, <3>2, <3>3, QuietCall
  <2>3. CASE Len(q) = W /\ W /= 0
    <3> DEFINE f == FirstSubset(1, W)
    <3>1. d = [Idle EXCEPT !.pc = "get", !.op = "Closest", !.values = q, !.subset = f]
      BY <2>3
    <3>2. 1 \in 1 .. W
      <4> HIDE DEF W
      <4> QED
        BY <1>2, <2>3
    <3>3. /\ Subset(f, W) /\ Len(f) = 1
          /\ \A X \in SUBSET (1 .. W) : Earlier(tiebreak, X, f) => Cardinality(X) < 1
      <4> HIDE DEF W
      <4> QED
        BY <1>2, <3>2, FirstSubsetFacts
    <3>4. f \in Seq(Nat)
      <4>1. f \in Seq(1 .. W)
        BY <3>3 DEF Subset
      <4> HIDE DEF f, W
      <4> QED
        BY <4>1, <1>2
    <3> HIDE DEF f
    <3>5. /\ d \in CallType /\ d.slice = NoSlice /\ d.pc = "get" /\ d.op = "Closest" /\ d.values = q
          /\ d.err = "nil" /\ d.result = Nil /\ d.subset = f
      <4> HIDE DEF d
      <4> QED
        BY <1>3, <3>1, <3>4, IdleFacts DEF Idle, CallType
    <3> HIDE DEF d, e
    <3>6. CallInv(tiebreak, e, d, <<>>)
      BY <1>2, <2>3, <3>3, <3>5, StartStep
    <3> QED
      BY <3>5, <3>6
  <2> QED
    BY <2>1, <2>2, <2>3
<1>5. pool' \subseteq pool \cup (IF g[p].slice = NoSlice THEN {} ELSE {g[p].slice})
  BY <1>1
<1> HIDE DEF d
<1> QED
  BY <1>1, <1>4, <1>5, CallLetsGo

\* The names of an engine's dimensions.
LEMMA NamesFacts ==
  ASSUME IInv, NEW p \in Proc
  PROVE  SubSeq(DimNames, 1, D(p)) \in Seq(STRING) /\ Len(SubSeq(DimNames, 1, D(p))) = D(p)
<1>1. D(p) \in Nat /\ DimNames \in Seq(STRING) /\ D(p) <= Len(DimNames)
  BY CallFacts, ClosestAssumption DEF D
<1>2. D(p) \in 0 .. Len(DimNames)
  BY <1>1
<1> QED
  BY <1>1, <1>2, FrontFacts

\* ClosestIn is called.
LEMMA ClosestInKeeps ==
  ASSUME IInv, NEW p \in Proc, NEW q \in Inputs, NEW sel \in Selectors, ClosestIn(p, sel, q)
  PROVE  IInv'
<1> DEFINE e == engine[p]
           W == Width(e)
           names == SubSeq(DimNames, 1, W)
           i == resolveDim(sel, names)
           call == [Idle EXCEPT !.op = "ClosestIn", !.values = q, !.sel = sel]
           refused(err) == [call EXCEPT !.pc = "answered", !.err = err]
           d == IF Len(q) /= W THEN refused("ErrArityMismatch")
                ELSE IF i = noMatch THEN refused("ErrInvalidDimension")
                ELSE [call EXCEPT !.pc = "get", !.subset = <<i + 1>>]
<1>1. /\ UNCHANGED <<engine, tiebreak, pool, mem>>
      /\ g' = [g EXCEPT ![p] = d]
  <2>1. D(p) = W
    BY CallFacts
  <2> QED
    BY <2>1 DEF ClosestIn
<1>2. /\ e \in Config /\ W \in Nat /\ names \in Seq(STRING) /\ Len(names) = W
  <2>1. D(p) = W /\ e \in Config /\ W \in Nat
    BY CallFacts, EngineFacts
  <2> QED
    BY <2>1, NamesFacts
<1>3. q \in Seq(Value)
  BY ClosestAssumption
<1>4. d \in CallType /\ d.slice = NoSlice /\ CallInv(tiebreak, e, d, <<>>)
  <2>1. CASE Len(q) /= W \/ i = noMatch
    <3> DEFINE err == IF Len(q) /= W THEN "ErrArityMismatch" ELSE "ErrInvalidDimension"
    <3>1. d = [call EXCEPT !.pc = "answered", !.err = err]
      BY <2>1
    <3>2. err \in {"ErrArityMismatch", "ErrInvalidDimension"}
      OBVIOUS
    <3> HIDE DEF err
    <3>a. call \in CallType /\ call.subset = <<>> /\ call.slice = NoSlice /\ call.result = Nil
      <4>1. /\ Idle \in CallType /\ Idle.subset = <<>> /\ Idle.slice = NoSlice
            /\ Idle.result = Nil
        BY IdleFacts
      <4> QED
        BY <1>3, <4>1 DEF CallType
    <3> HIDE DEF call
    <3>b. d.subset = call.subset /\ d.slice = call.slice /\ d.result = call.result
      BY <3>1, <3>a DEF CallType
    <3>3. /\ d \in CallType /\ d.subset = <<>> /\ d.slice = NoSlice /\ d.result = Nil
          /\ d.pc = "answered" /\ d.err /= "nil"
      <4> HIDE DEF d
      <4>1. d \in CallType
        BY <3>1, <3>2, <3>a DEF CallType
      <4>2. d.pc = "answered" /\ d.err = err
        BY <3>1, <3>a DEF CallType
      <4> QED
        BY <3>2, <3>a, <3>b, <4>1, <4>2
    <3> HIDE DEF d, e
    <3> QED
      BY <1>2, <3>3, QuietCall
  <2>2. CASE Len(q) = W /\ i /= noMatch
    <3>1. d = [call EXCEPT !.pc = "get", !.subset = <<i + 1>>]
      BY <2>2
    <3>2. i \in 0 .. W - 1
      <4> HIDE DEF names, W
      <4> QED
        BY <1>2, <2>2, resolveDimInRange
    <3>3. i + 1 \in 1 .. W
      <4> HIDE DEF i, W
      <4> QED
        BY <1>2, <3>2
    <3> HIDE DEF i, W
    <3> DEFINE f == <<i + 1>>
    <3>4. Subset(f, W) /\ Len(f) = 1
      BY <1>2, <3>3, SingleSubset
    <3>5. f \in Seq(Nat)
      BY <1>2, <3>3
    <3> HIDE DEF f
    <3>6. d = [call EXCEPT !.pc = "get", !.subset = f]
      BY <3>1 DEF f
    <3>7. /\ d \in CallType /\ d.slice = NoSlice /\ d.pc = "get" /\ d.op = "ClosestIn"
          /\ d.values = q /\ d.err = "nil" /\ d.result = Nil /\ d.subset = f
      <4> HIDE DEF d
      <4> QED
        BY <1>3, <3>5, <3>6, IdleFacts DEF Idle, CallType
    <3>8. Subset(f, Width(e)) /\ Len(q) = Width(e)
      BY <2>2, <3>4 DEF W
    <3>9. d.op /= "Closest" /\ d.op /= "none"
      BY <3>7
    <3> HIDE DEF d, e
    <3>10. CallInv(tiebreak, e, d, <<>>)
      BY <1>2, <3>4, <3>7, <3>8, <3>9, StartStep
    <3> QED
      BY <3>7, <3>10
  <2> QED
    BY <2>1, <2>2
<1>5. pool' \subseteq pool \cup (IF g[p].slice = NoSlice THEN {} ELSE {g[p].slice})
  BY <1>1
<1> HIDE DEF d
<1> QED
  BY <1>1, <1>4, <1>5, CallLetsGo

-----------------------------------------------------------------------------
\* The invariant holds at first.
LEMMA InitInv == Init => IInv
<1> SUFFICES ASSUME Init PROVE IInv
  OBVIOUS
<1>1. StateType
  <2>1. <<>> \in Seq(Value)
    OBVIOUS
  <2> QED
    BY <2>1, IdleFacts DEF Init, StateType
<1>2. ScratchIsPrivate
  BY IdleFacts DEF Init, ScratchIsPrivate
<1>3. ASSUME NEW p \in Proc
      PROVE  CallInv(tiebreak, engine[p], g[p], IF g[p].slice = NoSlice THEN <<>> ELSE mem[g[p].slice])
  <2>1. engine[p] \in Config /\ g[p] = Idle
    BY ClosestAssumption DEF Init
  <2> QED
    BY <2>1, IdleFacts, QuietCall
<1> QED
  BY <1>1, <1>2, <1>3 DEF IInv

\* Every step keeps it.
LEMMA NextInv == IInv /\ [Next]_vars => IInv'
<1> SUFFICES ASSUME IInv, [Next]_vars PROVE IInv'
  OBVIOUS
<1>1. CASE UNCHANGED vars
  BY <1>1 DEF vars, IInv, StateType, ScratchIsPrivate
<1>2. ASSUME NEW p \in Proc, NEW q \in Inputs, Closest(p, q) PROVE IInv'
  BY <1>2, ClosestKeeps
<1>3. ASSUME NEW p \in Proc, NEW q \in Inputs, NEW sel \in Selectors, ClosestIn(p, sel, q) PROVE IInv'
  BY <1>3, ClosestInKeeps
<1>4. ASSUME NEW p \in Proc, SearchStep(p) PROVE IInv'
  BY <1>4, GetScratchKeeps, TryValueKeeps, EndLoopKeeps, CheckCandidateKeeps, PutScratchKeeps
  DEF SearchStep
<1>5. ASSUME NEW p \in Proc, Return(p) PROVE IInv'
  BY <1>5, ReturnKeeps
<1>6. CASE DropPooled
  BY <1>6, DropPooledKeeps
<1> QED
  BY <1>1, <1>2, <1>3, <1>4, <1>5, <1>6 DEF Next

(***************************************************************************)
(* The inductive invariant holds.                                          *)
(***************************************************************************)
THEOREM InvariantHolds == Spec => []IInv
<1> QED
  BY InitInv, NextInv, PTL DEF Spec

-----------------------------------------------------------------------------
(***************************************************************************)
(* The types of the state; the scratch slice and the loops exist between   *)
(* GetScratch and PutScratch only.                                         *)
(***************************************************************************)
THEOREM TypeCorrect == Spec => []TypeOK
<1>1. IInv => TypeOK
  <2> SUFFICES ASSUME IInv PROVE TypeOK
    OBVIOUS
  <2>1. engine \in [Proc -> Config] /\ pool \subseteq Slices /\ \A s \in Slices : mem[s] \in Seq(Value)
    BY ClosestAssumption DEF IInv, StateType
  <2>2. ASSUME NEW p \in Proc
        PROVE  LET c == g[p]
               IN  /\ c.pc \in {"idle", "get", "dfs", "check", "put", "answered"}
                   /\ c.slice \in IF c.pc \in {"dfs", "check", "put"} THEN Slices ELSE {NoSlice}
                   /\ c.subset \in Seq(1 .. D(p))
                   /\ \A i, j \in 1 .. Len(c.subset) : i < j => c.subset[i] < c.subset[j]
                   /\ c.pc \in {"dfs", "check"} => Len(c.at) \in 1 .. Len(c.subset)
                   /\ c.pc = "check" => Len(c.at) = Len(c.subset)
    <3> DEFINE c == g[p]
               e == engine[p]
    <3>1. CallOK(e, c) /\ LoopsOK(e, c) /\ c \in CallType /\ D(p) = Width(e)
      BY CallFacts DEF CallInv
    <3>2. c.pc \in {"idle", "get", "dfs", "check", "put", "answered"}
      BY <3>1 DEF CallType
    <3>3. c.slice \in IF c.pc \in {"dfs", "check", "put"} THEN Slices ELSE {NoSlice}
      BY <3>1 DEF CallOK, Holding
    <3>4. c.subset \in Seq(1 .. D(p)) /\ Ascending(c.subset)
      BY <3>1 DEF CallOK, Subset
    <3>5. /\ c.pc \in {"dfs", "check"} => Len(c.at) \in 1 .. Len(c.subset)
          /\ c.pc = "check" => Len(c.at) = Len(c.subset)
      BY <3>1 DEF LoopsOK, Looping
    <3> QED
      BY <3>2, <3>3, <3>4, <3>5 DEF Ascending
  <2> QED
    BY <2>1, <2>2 DEF TypeOK
<1> QED
  BY <1>1, InvariantHolds, PTL

(***************************************************************************)
(* A scratch slice in use belongs to one search.                           *)
(***************************************************************************)
THEOREM SlicesArePrivate == Spec => []ScratchIsPrivate
<1>1. IInv => ScratchIsPrivate
  BY DEF IInv
<1> QED
  BY <1>1, InvariantHolds, PTL

(***************************************************************************)
(* While a search enumerates, its slice holds the input with the values of *)
(* its loops and nothing left over.                                        *)
(***************************************************************************)
THEOREM SlicesHoldCandidates == Spec => []ScratchHoldsCandidate
<1>1. IInv => ScratchHoldsCandidate
  <2> SUFFICES ASSUME IInv, NEW p \in Proc, g[p].pc \in {"dfs", "check"}, NEW i \in 1 .. D(p)
               PROVE  LET c == g[p]
                          chosen == IF c.pc = "check" THEN Len(c.at) ELSE Len(c.at) - 1
                          slot == {n \in 1 .. chosen : c.subset[n] = i}
                      IN  mem[c.slice][i] =
                            IF slot = {} THEN c.values[i]
                            ELSE engine[p].dims[i][c.at[CHOOSE n \in slot : TRUE]]
    BY DEF ScratchHoldsCandidate
  <2> DEFINE c == g[p]
             e == engine[p]
             m == mem[c.slice]
             slot == {n \in 1 .. Chosen(c) : c.subset[n] = i}
  <2>1. Looping(c)
    BY DEF Looping
  <2>2. Standing(e, c, Chosen(c), m)
    <3>1. e \in Config /\ c \in CallType /\ m \in Seq(Value) /\ CallInv(tiebreak, e, c, m)
      BY <2>1, LoopingFacts
    <3> HIDE DEF e, c, m
    <3> QED
      BY <2>1, <3>1, CallStands
  <2>3. i \in 1 .. Width(e)
    BY CallFacts
  <2>4. CASE slot = {}
    <3>1. m[i] = c.values[i]
      BY <2>2, <2>3, <2>4 DEF Standing
    <3> QED
      BY <2>4, <3>1 DEF Chosen
  <2>5. CASE slot /= {}
    <3> DEFINE n == CHOOSE n \in slot : TRUE
    <3>1. n \in slot
      BY <2>5
    <3>2. m[i] = e.dims[i][c.at[n]]
      <4> HIDE DEF n
      <4> QED
        BY <2>2, <3>1 DEF Standing
    <3> QED
      BY <2>5, <3>2 DEF Chosen
  <2> QED
    BY <2>4, <2>5
<1> QED
  BY <1>1, InvariantHolds, PTL

\* What a candidate changes.
LEMMA CandidateDims ==
  ASSUME NEW e \in Config, NEW c \in CallType, Len(c.values) = Width(e), NEW reach,
         NEW t \in Candidates(e, c.values, reach)
  PROVE  /\ Changed(c.values, t) \in SUBSET (1 .. Width(e))
         /\ Changed(c.values, t) \subseteq reach
         /\ Changed(c.values, t) /= {}
         /\ Proposes(e, c.values, Changed(c.values, t), t)
         /\ t \in Tuples(Width(e)) /\ Allowed(e, t)
<1>1. DOMAIN c.values = 1 .. Width(e)
  <2>1. c.values \in Seq(Value)
    BY DEF CallType
  <2> QED
    BY <2>1
<1>2. /\ t \in Tuples(Width(e)) /\ Changed(c.values, t) /= {} /\ Allowed(e, t)
      /\ Changed(c.values, t) \subseteq reach
      /\ \A i \in Changed(c.values, t) : contains(e.dims[i], t[i])
  BY DEF Candidates, Width
<1> QED
  BY <1>1, <1>2 DEF Changed, Proposes

CallReach(e, c) == IF c.op = "ClosestIn" THEN Range(c.subset) ELSE 1 .. Width(e)

\* A result is a candidate, and no candidate's dimensions were searched before its own.
LEMMA ResultFacts ==
  ASSUME NEW tb, NEW e \in Config, NEW c \in CallType, NEW m, CallInv(tb, e, c, m),
         Searched(c), c.result /= Nil
  PROVE  LET r == c.result
             S == Range(c.subset)
         IN  /\ S \in SUBSET (1 .. Width(e)) /\ S /= {} /\ IsFiniteSet(S)
             /\ Cardinality(S) = Len(c.subset) /\ Width(e) \in Nat
             /\ Changed(c.values, r.conditions) = S
             /\ r.conditions \in Candidates(e, c.values, CallReach(e, c))
             /\ r.distance = Cardinality(S)
             /\ r.dim = IF tb = "RightmostDim" THEN Max(S) ELSE Min(S)
             /\ \A t \in Candidates(e, c.values, CallReach(e, c)) :
                  /\ Changed(c.values, t) = S \/ ~Earlier(tb, Changed(c.values, t), c.subset)
                  /\ ~Before(e.dims, c.values, t, r.conditions)
<1> DEFINE r == c.result
           s == c.subset
           S == Range(s)
           W == Width(e)
           reach == CallReach(e, c)
<1>1. Found(c)
  BY DEF Found, Searched
<1>2. /\ W \in Nat /\ Subset(s, W) /\ Len(c.values) = W /\ Len(s) \in Nat \ {0}
      /\ c.op \in {"Closest", "ClosestIn"} /\ (c.op = "ClosestIn" => Len(s) = 1)
  <2>1. W \in Nat
    BY EngineFacts
  <2> QED
    BY <1>1, <2>1 DEF CallInv, CallOK, CallType
<1>3. /\ S \in SUBSET (1 .. W) /\ IsFiniteSet(S) /\ Cardinality(S) = Len(s)
      /\ \A i : i \in S <=> \E n \in 1 .. Len(s) : s[n] = i
  BY <1>2, SubsetFacts
<1>4. S /= {}
  BY <1>2, <1>3, FS_EmptySet
<1>5. /\ r.conditions \in Tuples(W) /\ Proposes(e, c.values, S, r.conditions)
      /\ Allowed(e, r.conditions) /\ r.distance = Cardinality(S)
      /\ r.dim = IF tb = "RightmostDim" THEN Max(S) ELSE Min(S)
      /\ \A t \in Tuples(W) :
           Proposes(e, c.values, S, t) /\ Allowed(e, t) =>
             ~Before(e.dims, c.values, t, r.conditions)
  <2> HIDE DEF Before
  <2> QED
    BY <1>1 DEF CallInv, ResultOK
<1>6. r.conditions \in Candidates(e, c.values, reach)
  <2>1. S \subseteq reach
    BY <1>2, <1>3 DEF CallReach
  <2> HIDE DEF reach
  <2> QED
    BY <1>4, <1>5, <2>1 DEF Candidates, Proposes, Width
<1>7. ASSUME NEW t \in Candidates(e, c.values, reach)
      PROVE  /\ Changed(c.values, t) = S \/ ~Earlier(tb, Changed(c.values, t), s)
             /\ ~Before(e.dims, c.values, t, r.conditions)
  <2> DEFINE X == Changed(c.values, t)
  <2>1. /\ X \in SUBSET (1 .. W) /\ X \subseteq reach /\ X /= {} /\ Proposes(e, c.values, X, t)
        /\ t \in Tuples(W) /\ Allowed(e, t)
    <3> HIDE DEF reach
    <3> QED
      BY <1>2, CandidateDims
  <2>2. X = S \/ ~Earlier(tb, X, s)
    <3>1. CASE c.op = "ClosestIn"
      <4>1. \A i \in S : i = s[1]
        BY <1>2, <1>3, <3>1
      <4>2. X \subseteq S
        BY <2>1, <3>1 DEF CallReach
      <4> HIDE DEF X
      <4> QED
        BY <2>1, <4>1, <4>2
    <3>2. CASE c.op = "Closest"
      <4>1. ~Barren(e, c.values, X)
        BY <2>1 DEF Barren
      <4> HIDE DEF X
      <4> QED
        BY <1>1, <2>1, <3>2, <4>1 DEF CallInv, EarlierBarren
    <3> QED
      BY <1>2, <3>1, <3>2
  <2>3. ~Before(e.dims, c.values, t, r.conditions)
    <3> SUFFICES ASSUME Before(e.dims, c.values, t, r.conditions) PROVE FALSE
      OBVIOUS
    <3>1. X = Changed(c.values, r.conditions)
      BY DEF Before
    <3>2. X = S
      BY <1>5, <3>1 DEF Proposes
    <3> HIDE DEF X, Before
    <3> QED
      BY <1>5, <2>1, <3>2
  <2> QED
    BY <2>2, <2>3
<1>8. Changed(c.values, r.conditions) = S
  BY <1>5 DEF Proposes
<1> HIDE DEF Before
<1> QED
  BY <1>2, <1>3, <1>4, <1>5, <1>6, <1>7, <1>8

\* ResultFacts as they apply to a goroutine.
ResultSays(p) ==
  LET c == g[p]
      r == c.result
      S == Range(c.subset)
  IN  /\ S \in SUBSET (1 .. D(p)) /\ S /= {} /\ IsFiniteSet(S)
      /\ Cardinality(S) = Len(c.subset)
      /\ Changed(c.values, r.conditions) = S
      /\ r.conditions \in Candidates(engine[p], c.values, Reach(p))
      /\ r.distance = Cardinality(S)
      /\ r.dim = IF tiebreak = "RightmostDim" THEN Max(S) ELSE Min(S)
      /\ \A t \in Candidates(engine[p], c.values, Reach(p)) :
           LET X == Changed(c.values, t)
           IN  /\ X \in SUBSET (1 .. D(p)) /\ X /= {}
               /\ X = S \/ ~Earlier(tiebreak, X, c.subset)
               /\ ~Before(engine[p].dims, c.values, t, r.conditions)

\* What a call that has searched its subsets has found.
LEMMA SearchedFacts ==
  ASSUME IInv, NEW p \in Proc, Searched(g[p])
  PROVE  /\ g[p].result = Nil => Candidates(engine[p], g[p].values, Reach(p)) = {}
         /\ g[p].result /= Nil => ResultSays(p)
<1> DEFINE c == g[p]
           e == engine[p]
           S == Range(c.subset)
           r == c.result
<1>1. /\ e \in Config /\ c \in CallType /\ D(p) = Width(e)
      /\ CallInv(tiebreak, e, c, ScratchOf(p))
  BY CallFacts
<1>2. Reach(p) = CallReach(e, c)
  BY <1>1 DEF Reach, CallReach
<1>3. c.result = Nil => Candidates(e, c.values, Reach(p)) = {}
  BY <1>1, <1>2 DEF CallInv, NothingMissed, NoCandidate, CallReach
<1>4. ASSUME c.result /= Nil PROVE ResultSays(p)
  <2>1. /\ S \in SUBSET (1 .. Width(e)) /\ S /= {} /\ IsFiniteSet(S)
        /\ Cardinality(S) = Len(c.subset)
        /\ Changed(c.values, r.conditions) = S
        /\ r.conditions \in Candidates(e, c.values, CallReach(e, c))
        /\ r.distance = Cardinality(S)
        /\ r.dim = IF tiebreak = "RightmostDim" THEN Max(S) ELSE Min(S)
        /\ \A t \in Candidates(e, c.values, CallReach(e, c)) :
             /\ Changed(c.values, t) = S \/ ~Earlier(tiebreak, Changed(c.values, t), c.subset)
             /\ ~Before(e.dims, c.values, t, r.conditions)
    <3> HIDE DEF e, c, Before
    <3> QED
      BY <1>1, <1>4, ResultFacts DEF c
  <2>2. Len(c.values) = Width(e)
    BY <1>1, <1>4 DEF CallInv, CallOK, Found, Searched
  <2>3. ASSUME NEW t \in Candidates(e, c.values, CallReach(e, c))
        PROVE  Changed(c.values, t) \in SUBSET (1 .. Width(e)) /\ Changed(c.values, t) /= {}
    <3> HIDE DEF e, c
    <3> QED
      BY <1>1, <2>2, CandidateDims
  <2> HIDE DEF Before
  <2> QED
    BY <1>1, <1>2, <2>1, <2>3 DEF ResultSays
<1> QED
  BY <1>3, <1>4

(***************************************************************************)
(* A search answers an allowed tuple at the least distance from the input, *)
(* and nil only when there is no candidate at all.                         *)
(***************************************************************************)
THEOREM ResultsAreNearest == Spec => []ResultIsNearest
<1>1. IInv => ResultIsNearest
  <2> SUFFICES ASSUME IInv, NEW p \in Proc, Searched(g[p])
               PROVE  LET c == g[p]
                          r == c.result
                      IN  IF r = Nil THEN Candidates(engine[p], c.values, Reach(p)) = {}
                          ELSE /\ r.conditions \in Nearest(engine[p], c.values, Reach(p))
                               /\ r.distance = Cardinality(Changed(c.values, r.conditions))
    BY DEF ResultIsNearest
  <2> DEFINE c == g[p]
             r == c.result
             S == Range(c.subset)
  <2>1. CASE r = Nil
    BY <2>1, SearchedFacts
  <2>2. CASE r /= Nil
    <3>1. ResultSays(p)
      BY <2>2, SearchedFacts
    <3>2. /\ S \in SUBSET (1 .. D(p)) /\ Cardinality(S) = Len(c.subset)
          /\ Changed(c.values, r.conditions) = S
          /\ r.conditions \in Candidates(engine[p], c.values, Reach(p))
          /\ r.distance = Cardinality(S)
      BY <3>1 DEF ResultSays
    <3>3. ASSUME NEW t \in Candidates(engine[p], c.values, Reach(p))
          PROVE  Cardinality(S) <= Cardinality(Changed(c.values, t))
      <4> DEFINE X == Changed(c.values, t)
      <4>1. X \in SUBSET (1 .. D(p)) /\ (X = S \/ ~Earlier(tiebreak, X, c.subset))
        BY <3>1 DEF ResultSays
      <4>2. D(p) \in Nat
        BY CallFacts
      <4> HIDE DEF X
      <4>3. Cardinality(X) \in Nat /\ Cardinality(S) \in Nat
        BY <3>2, <4>1, <4>2, DimensionSets
      <4>4. X = S \/ ~(Cardinality(X) < Len(c.subset))
        BY <4>1 DEF Earlier
      <4>5. Cardinality(S) <= Cardinality(X)
        BY <3>2, <4>3, <4>4
      <4> QED
        BY <4>5 DEF X
    <3>4. r.conditions \in Nearest(engine[p], c.values, Reach(p))
      BY <3>2, <3>3 DEF Nearest
    <3> QED
      BY <2>2, <3>2, <3>4
  <2> QED
    BY <2>1, <2>2
<1> QED
  BY <1>1, InvariantHolds, PTL

\* A preferred set of dimensions is searched before.
LEMMA PreferredIsAhead ==
  ASSUME NEW n \in Nat, NEW X \in SUBSET (1 .. n), NEW S \in SUBSET (1 .. n), Preferred(X, S)
  PROVE  Ahead(tiebreak, X, S)
<1> DEFINE apart == SymDiff(X, S)
           least == Min(apart)
           greatest == Max(apart)
<1>1. apart /= {} /\ apart \in SUBSET Nat /\ apart \in SUBSET (0 .. n)
  BY DEF Preferred, SymDiff
<1>2. /\ (IF tiebreak = "RightmostDim" THEN greatest ELSE least) \in X
      /\ \A i : i \in apart <=> i \in (X \ S) \cup (S \ X)
  BY DEF Preferred, SymDiff
<1> HIDE DEF apart
<1>3. /\ least \in apart /\ \A y \in apart : least <= y
      /\ greatest \in apart /\ \A y \in apart : greatest >= y
  BY <1>1, MinFacts, MaxFacts
<1> HIDE DEF least, greatest
<1>4. \A i \in X \cup S : i \notin apart => i \in X /\ i \in S
  BY <1>2
<1>5. least \in Nat /\ greatest \in Nat /\ X \cup S \subseteq Nat
  BY <1>1, <1>3
<1>6. CASE tiebreak = "RightmostDim"
  <2>1. greatest \in X \ S
    BY <1>2, <1>3, <1>6
  <2>2. \A i \in X \cup S : i > greatest => i \notin apart
    BY <1>3, <1>5
  <2> QED
    BY <1>4, <1>6, <2>1, <2>2 DEF Ahead, RightAhead
<1>7. CASE tiebreak /= "RightmostDim"
  <2>1. least \in X \ S
    BY <1>2, <1>3, <1>7
  <2>2. \A i \in X \cup S : i < least => i \notin apart
    BY <1>3, <1>5
  <2> QED
    BY <1>4, <1>7, <2>1, <2>2 DEF Ahead, LeftAhead
<1> QED
  BY <1>6, <1>7

(***************************************************************************)
(* Among equally near tuples the strategy decides: the set of changed      *)
(* dimensions is the first in its order, the values are the first in the   *)
(* order of declaration, and the dimension reported is the outermost of    *)
(* the set.                                                                *)
(***************************************************************************)
THEOREM TiebreaksAreHonoured == Spec => []TiebreakIsHonoured
<1>1. IInv => TiebreakIsHonoured
  <2> SUFFICES ASSUME IInv, NEW p \in Proc, Searched(g[p]), g[p].result /= Nil
               PROVE  LET c == g[p]
                          r == c.result
                          S == Changed(c.values, r.conditions)
                      IN  /\ r.dim = IF tiebreak = "RightmostDim" THEN Max(S) ELSE Min(S)
                          /\ \A t \in Nearest(engine[p], c.values, Reach(p)) :
                               /\ ~Preferred(Changed(c.values, t), S)
                               /\ ~Before(engine[p].dims, c.values, t, r.conditions)
    BY DEF TiebreakIsHonoured
  <2> DEFINE c == g[p]
             r == c.result
             S == Range(c.subset)
  <2>1. ResultSays(p)
    BY SearchedFacts
  <2> HIDE DEF Before
  <2>2. /\ S \in SUBSET (1 .. D(p)) /\ S /= {} /\ Cardinality(S) = Len(c.subset)
        /\ Changed(c.values, r.conditions) = S
        /\ r.conditions \in Candidates(engine[p], c.values, Reach(p))
        /\ r.dim = IF tiebreak = "RightmostDim" THEN Max(S) ELSE Min(S)
    BY <2>1 DEF ResultSays
  <2>3. ASSUME NEW t \in Nearest(engine[p], c.values, Reach(p))
        PROVE  /\ ~Preferred(Changed(c.values, t), S)
               /\ ~Before(engine[p].dims, c.values, t, r.conditions)
    <3> DEFINE X == Changed(c.values, t)
    <3>1. /\ t \in Candidates(engine[p], c.values, Reach(p))
          /\ Cardinality(X) <= Cardinality(S)
      BY <2>2 DEF Nearest
    <3>2. /\ X \in SUBSET (1 .. D(p)) /\ X /= {} /\ (X = S \/ ~Earlier(tiebreak, X, c.subset))
          /\ ~Before(engine[p].dims, c.values, t, r.conditions)
      BY <2>1, <3>1 DEF ResultSays
    <3>3. D(p) \in Nat
      BY CallFacts
    <3>4. ~Preferred(X, S)
      <4> HIDE DEF X, S
      <4>1. SUFFICES ASSUME Preferred(X, S) PROVE FALSE
        OBVIOUS
      <4>2. Ahead(tiebreak, X, S)
        BY <2>2, <3>2, <3>3, <4>1, PreferredIsAhead
      <4>3. X /= S
        BY <4>1 DEF Preferred, SymDiff
      <4>4. Cardinality(X) \in Nat /\ Cardinality(S) \in Nat
        BY <2>2, <3>2, <3>3, DimensionSets
      <4>5. Earlier(tiebreak, X, c.subset)
        BY <2>2, <3>1, <4>2, <4>4 DEF Earlier, S
      <4> QED
        BY <3>2, <4>3, <4>5
    <3> QED
      BY <3>2, <3>4
  <2> QED
    BY <2>2, <2>3
<1> QED
  BY <1>1, InvariantHolds, PTL

-----------------------------------------------------------------------------
(***************************************************************************)
(* The selector of ClosestIn is resolved once, when the call starts.       *)
(***************************************************************************)
Resolved(c, n) ==
  c.op = "ClosestIn" =>
    /\ c.sel \in Selectors
    /\ Len(c.values) = n =>
         LET i == resolveDim(c.sel, SubSeq(DimNames, 1, n))
         IN  IF i = noMatch THEN c.err = "ErrInvalidDimension"
             ELSE c.err = "nil" /\ c.subset = <<i + 1>>

SelectorInv == \A p \in Proc : Resolved(g[p], D(p))

\* A call that keeps its dimension keeps the invariant.
LEMMA CallResolves ==
  ASSUME IInv, SelectorInv, NEW p \in Proc, UNCHANGED engine,
         g' \in [Proc -> CallType], \A q \in Proc \ {p} : g'[q] = g[q], Resolved(g'[p], D(p))
  PROVE  SelectorInv'
<1>1. \A q \in Proc : D(q)' = D(q)
  BY DEF D
<1>2. ASSUME NEW q \in Proc PROVE Resolved(g'[q], D(q))
  BY <1>2 DEF SelectorInv
<1> QED
  BY <1>1, <1>2 DEF SelectorInv

\* A step within a call leaves what was resolved alone.
LEMMA SearchResolves ==
  ASSUME IInv, SelectorInv, NEW p \in Proc, UNCHANGED engine,
         g' \in [Proc -> CallType], \A q \in Proc \ {p} : g'[q] = g[q],
         g'[p].op = g[p].op, g'[p].values = g[p].values, g'[p].sel = g[p].sel,
         g'[p].err = g[p].err, g[p].op = "ClosestIn" => g'[p].subset = g[p].subset
  PROVE  SelectorInv'
<1>1. Resolved(g[p], D(p))
  BY DEF SelectorInv
<1>2. Resolved(g'[p], D(p))
  BY <1>1 DEF Resolved
<1> QED
  BY <1>2, CallResolves

\* Every step keeps the invariant of the selectors.
LEMMA SelectorNext == IInv /\ IInv' /\ SelectorInv /\ [Next]_vars => SelectorInv'
<1> SUFFICES ASSUME IInv, IInv', SelectorInv, [Next]_vars PROVE SelectorInv'
  OBVIOUS
<1>0. g \in [Proc -> CallType] /\ g' \in [Proc -> CallType]
  BY DEF IInv, StateType
<1>1. CASE UNCHANGED vars
  BY <1>1 DEF vars, SelectorInv, D
<1>2. ASSUME NEW p \in Proc, NEW q \in Inputs, Closest(p, q) PROVE SelectorInv'
  <2>1. UNCHANGED engine /\ \A r \in Proc \ {p} : g'[r] = g[r]
    BY <1>0, <1>2 DEF Closest
  <2>2. g'[p].op = "Closest"
    BY <1>0, <1>2 DEF Closest, Answered, Idle
  <2> QED
    BY <1>0, <2>1, <2>2, CallResolves DEF Resolved
<1>3. ASSUME NEW p \in Proc, NEW q \in Inputs, NEW sel \in Selectors, ClosestIn(p, sel, q)
      PROVE  SelectorInv'
  <2> DEFINE i == resolveDim(sel, SubSeq(DimNames, 1, D(p)))
             d == g'[p]
  <2>1. UNCHANGED engine /\ \A r \in Proc \ {p} : g'[r] = g[r]
    BY <1>0, <1>3 DEF ClosestIn
  <2>2. d.values = q /\ d.sel = sel
    BY <1>0, <1>3 DEF ClosestIn, Idle
  <2>3. Len(q) = D(p) => IF i = noMatch THEN d.err = "ErrInvalidDimension"
                         ELSE d.err = "nil" /\ d.subset = <<i + 1>>
    BY <1>0, <1>3 DEF ClosestIn, Idle
  <2>4. Resolved(g'[p], D(p))
    <3> HIDE DEF d
    <3>1. Resolved(d, D(p))
      BY <2>2, <2>3 DEF Resolved
    <3> QED
      BY <3>1 DEF d
  <2> QED
    BY <1>0, <2>1, <2>4, CallResolves
<1>4. ASSUME NEW p \in Proc, SearchStep(p) PROVE SelectorInv'
  <2>1. UNCHANGED engine /\ \A r \in Proc \ {p} : g'[r] = g[r]
    BY <1>0, <1>4 DEF SearchStep, GetScratch, TryValue, EndLoop, CheckCandidate, PutScratch
  <2>2. /\ g'[p].op = g[p].op /\ g'[p].values = g[p].values /\ g'[p].sel = g[p].sel
        /\ g'[p].err = g[p].err /\ (g[p].op = "ClosestIn" => g'[p].subset = g[p].subset)
    <3>1. CASE GetScratch(p)
      BY <1>0, <3>1 DEF GetScratch
    <3>2. CASE TryValue(p)
      <4>1. \/ g' = [g EXCEPT ![p].at = NextValue(g[p].at)]
            \/ g' = [g EXCEPT ![p].at = Append(g[p].at, 1)]
            \/ g' = [g EXCEPT ![p].pc = "check"]
        BY <3>2 DEF TryValue
      <4>2. CASE g' = [g EXCEPT ![p].at = NextValue(g[p].at)]
        BY <1>0, <4>2
      <4>3. CASE g' = [g EXCEPT ![p].at = Append(g[p].at, 1)]
        BY <1>0, <4>3
      <4>4. CASE g' = [g EXCEPT ![p].pc = "check"]
        BY <1>0, <4>4
      <4> QED
        BY <4>1, <4>2, <4>3, <4>4
    <3>3. CASE EndLoop(p)
      <4>1. PICK at : \/ g' = [g EXCEPT ![p].pc = "put"]
                      \/ g' = [g EXCEPT ![p].at = at]
        BY <3>3 DEF EndLoop
      <4>2. CASE g' = [g EXCEPT ![p].pc = "put"]
        BY <1>0, <4>2
      <4>3. CASE g' = [g EXCEPT ![p].at = at]
        BY <1>0, <4>3
      <4> QED
        BY <4>1, <4>2, <4>3
    <3>4. CASE CheckCandidate(p)
      <4>1. PICK r : \/ g' = [g EXCEPT ![p].result = r, ![p].pc = "put"]
                     \/ g' = [g EXCEPT ![p].at = r, ![p].pc = "dfs"]
        BY <3>4 DEF CheckCandidate
      <4>2. CASE g' = [g EXCEPT ![p].result = r, ![p].pc = "put"]
        BY <1>0, <4>2
      <4>3. CASE g' = [g EXCEPT ![p].at = r, ![p].pc = "dfs"]
        BY <1>0, <4>3
      <4> QED
        BY <4>1, <4>2, <4>3
    <3>5. CASE PutScratch(p)
      BY <1>0, <3>5 DEF PutScratch
    <3> QED
      BY <1>4, <3>1, <3>2, <3>3, <3>4, <3>5 DEF SearchStep
  <2> QED
    BY <1>0, <2>1, <2>2, SearchResolves
<1>5. ASSUME NEW p \in Proc, Return(p) PROVE SelectorInv'
  <2>1. UNCHANGED engine /\ (\A r \in Proc \ {p} : g'[r] = g[r]) /\ g'[p].op = "none"
    BY <1>0, <1>5 DEF Return, Idle
  <2> QED
    BY <1>0, <2>1, CallResolves DEF Resolved
<1>6. CASE DropPooled
  BY <1>6 DEF DropPooled, SelectorInv, D
<1> QED
  BY <1>1, <1>2, <1>3, <1>4, <1>5, <1>6 DEF Next

\* Every value of a signed selector is one of the build's int.
SelectorsFit == \A sel \in Selectors : sel.type \in SignedType => toInt(sel.val) = sel.val

\* resolveDim finds what a selector means.
LEMMA resolveDimMeans ==
  ASSUME SelectorsFit, NEW sel \in Selectors, NEW n \in 0 .. Len(DimNames)
  PROVE  LET i == resolveDim(sel, SubSeq(DimNames, 1, n))
         IN  IF i = noMatch THEN Meant(sel, n) = {} ELSE Meant(sel, n) = {i + 1}
<1> DEFINE names == SubSeq(DimNames, 1, n)
           i == resolveDim(sel, names)
           named == {k \in DOMAIN names : names[k] = sel.val}
<1>1. DimNames \in Seq(STRING) /\ Len(DimNames) \in Nat /\ n \in Nat
  BY ClosestAssumption
<1>2. names \in Seq(STRING) /\ Len(names) = n /\ \A k \in 1 .. n : names[k] = DimNames[k]
  BY <1>1, FrontFacts
<1>3. DOMAIN names = 1 .. n
  BY <1>2
<1>4. CASE sel.type \in SignedType \cup UnsignedType
  <2>1. i = IF sel.val \in 0 .. n - 1 THEN sel.val ELSE noMatch
    BY <1>2, <1>4 DEF resolveDim, SelectorsFit
  <2>2. Meant(sel, n) = {k \in 1 .. n : sel.val = k - 1}
    BY <1>4 DEF Meant, SignedType, UnsignedType
  <2> HIDE DEF i, names, named
  <2>3. CASE sel.val \in 0 .. n - 1
    <3>1. i = sel.val /\ i /= noMatch
      BY <2>1, <2>3 DEF noMatch
    <3>2. {k \in 1 .. n : sel.val = k - 1} = {sel.val + 1}
      BY <1>1, <2>3
    <3> QED
      BY <2>2, <3>1, <3>2 DEF i, names
  <2>4. CASE sel.val \notin 0 .. n - 1
    <3>1. {k \in 1 .. n : sel.val = k - 1} = {}
      BY <1>1, <2>4
    <3> QED
      BY <2>1, <2>2, <2>4, <3>1 DEF i, names
  <2> QED
    BY <2>3, <2>4
<1>5. CASE sel.type = "string"
  <2>1. i = IF sel.val /= "" /\ named /= {} THEN Min(named) - 1 ELSE noMatch
    BY <1>5 DEF resolveDim, SignedType, UnsignedType
  <2>2. Meant(sel, n) = {k \in 1 .. n : /\ DimNames[k] = sel.val /\ sel.val /= ""
                                        /\ \A l \in 1 .. k - 1 : DimNames[l] /= sel.val}
    BY <1>5 DEF Meant
  <2>3. \A k \in 1 .. n : k \in named <=> DimNames[k] = sel.val
    BY <1>2, <1>3
  <2>4. named \subseteq 1 .. n
    BY <1>3
  <2> HIDE DEF i, names, named
  <2>5. CASE sel.val = "" \/ named = {}
    <3>1. Meant(sel, n) = {}
      BY <2>2, <2>3, <2>5
    <3> QED
      BY <2>1, <2>5, <3>1 DEF i, names
  <2>6. CASE sel.val /= "" /\ named /= {}
    <3> DEFINE a == Min(named)
    <3>1. a \in named /\ \A y \in named : a <= y
      <4>1. named \in SUBSET Nat
        BY <1>1, <2>4
      <4> QED
        BY <4>1, <2>6, MinFacts
    <3>2. a \in 1 .. n
      BY <2>4, <3>1
    <3> HIDE DEF a
    <3>3. \A l \in 1 .. a - 1 : l \in 1 .. n /\ ~(a <= l)
      BY <1>1, <3>2
    <3>4. a \in Meant(sel, n)
      BY <2>2, <2>3, <2>6, <3>1, <3>2, <3>3
    <3>5. ASSUME NEW k \in Meant(sel, n) PROVE k = a
      <4>1. k \in 1 .. n /\ k \in named /\ \A l \in 1 .. k - 1 : DimNames[l] /= sel.val
        BY <2>2, <2>3
      <4>2. a <= k
        BY <3>1, <4>1
      <4>3. ~(a \in 1 .. k - 1)
        BY <2>3, <3>1, <3>2, <4>1
      <4> QED
        BY <1>1, <3>2, <4>1, <4>2, <4>3
    <3>6. Meant(sel, n) = {a}
      BY <3>4, <3>5
    <3>7. i = a - 1
      BY <2>1, <2>6 DEF a
    <3>8. a - 1 /= noMatch /\ a - 1 + 1 = a
      BY <1>1, <3>2 DEF noMatch
    <3> QED
      BY <3>6, <3>7, <3>8 DEF i, names
  <2> QED
    BY <2>5, <2>6
<1>6. CASE sel.type = "other"
  <2>1. i = noMatch
    BY <1>6 DEF resolveDim, SignedType, UnsignedType
  <2>2. Meant(sel, n) = {}
    BY <1>6 DEF Meant
  <2> QED
    BY <2>1, <2>2
<1> QED
  BY <1>4, <1>5, <1>6, ClosestAssumption

(***************************************************************************)
(* ClosestIn searches the dimension its caller means and no other, and     *)
(* refuses a selector that means none, on a build whose int holds the      *)
(* values of its signed selectors.                                         *)
(***************************************************************************)
THEOREM SelectorsAreHonoured == SelectorsFit => (Spec => []SelectorIsHonoured)
<1> SUFFICES ASSUME SelectorsFit PROVE Spec => []SelectorIsHonoured
  OBVIOUS
<1>1. Init => SelectorInv
  BY DEF Init, SelectorInv, Resolved, Idle
<1>2. IInv /\ SelectorInv => SelectorIsHonoured
  <2> SUFFICES ASSUME IInv, SelectorInv, NEW p \in Proc, g[p].op = "ClosestIn",
                      Len(g[p].values) = D(p)
               PROVE  IF Meant(g[p].sel, D(p)) = {} THEN g[p].err = "ErrInvalidDimension"
                      ELSE g[p].err = "nil" /\ Range(g[p].subset) = Meant(g[p].sel, D(p))
    BY DEF SelectorIsHonoured
  <2> DEFINE n == D(p)
             sel == g[p].sel
             i == resolveDim(sel, SubSeq(DimNames, 1, n))
  <2>1. sel \in Selectors /\ IF i = noMatch THEN g[p].err = "ErrInvalidDimension"
                            ELSE g[p].err = "nil" /\ g[p].subset = <<i + 1>>
    BY DEF SelectorInv, Resolved
  <2>2. n \in 0 .. Len(DimNames)
    <3>1. n \in Nat /\ n <= Len(DimNames)
      BY CallFacts, ClosestAssumption DEF D
    <3> HIDE DEF n
    <3>2. Len(DimNames) \in Nat
      BY ClosestAssumption
    <3> QED
      BY <3>1, <3>2
  <2> HIDE DEF n, sel
  <2>3. IF i = noMatch THEN Meant(sel, n) = {} ELSE Meant(sel, n) = {i + 1}
    BY <2>1, <2>2, resolveDimMeans
  <2> HIDE DEF i
  <2>4. CASE i = noMatch
    BY <2>1, <2>3, <2>4 DEF sel, n
  <2>5. CASE i /= noMatch
    <3>1. Meant(sel, n) = {i + 1} /\ g[p].err = "nil" /\ g[p].subset = <<i + 1>>
      BY <2>1, <2>3, <2>5
    <3>2. Range(g[p].subset) = {i + 1}
      BY <3>1 DEF Range
    <3> QED
      BY <3>1, <3>2 DEF sel, n
  <2> QED
    BY <2>4, <2>5
<1> QED
  BY <1>1, <1>2, SelectorNext, InvariantHolds, InitInv, NextInv, PTL DEF Spec
=============================================================================
