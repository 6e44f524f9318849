------------------------- MODULE WarningAnalysisProofs -------------------------
(***************************************************************************)
(* Proofs about WarningAnalysis: the warnings are right and the budget is  *)
(* kept, for any engine, any limit and any width of an integer.            *)
(***************************************************************************)
EXTENDS WarningAnalysis, FiniteSetTheorems, WellFoundedInduction, TLAPS

-----------------------------------------------------------------------------
(***************************************************************************)
(* Least and greatest elements.                                            *)
(***************************************************************************)
LEMMA LeastExists ==
  ASSUME NEW S \in SUBSET Nat, S /= {}
  PROVE  \E x \in S : \A y \in S : x <= y
<1>1. PICK x \in S : \A y \in S : ~ (<<y, x>> \in OpToRel(<, Nat))
  BY WFMin, NatLessThanWellFounded
<1>2. \A y \in S : ~ (y < x)
  BY <1>1 DEF OpToRel
<1> QED
  BY <1>2

\* A nonempty set of naturals with a bound has a greatest element.
LEMMA GreatestExists ==
  ASSUME NEW n \in Nat, NEW S \in SUBSET (0 .. n), S /= {}
  PROVE  \E x \in S : \A y \in S : x >= y
<1> DEFINE T == {n - x : x \in S}
<1>1. T \in SUBSET Nat
  OBVIOUS
<1>2. T /= {}
  OBVIOUS
<1>a. PICK t \in T : \A y \in T : t <= y
  BY <1>1, <1>2, LeastExists
<1>3. PICK x \in S : t = n - x
  BY <1>a
<1>4. \A y \in S : n - x <= n - y
  BY <1>a, <1>3
<1> QED
  BY <1>4

\* What Max returns.
LEMMA MaxFacts ==
  ASSUME NEW n \in Nat, NEW S \in SUBSET (0 .. n), S /= {}
  PROVE  Max(S) \in S /\ \A y \in S : Max(S) >= y
BY GreatestExists DEF Max

\* What Max returns for a set with any bound.
LEMMA MaxOfFinite ==
  ASSUME NEW S \in SUBSET Nat, IsFiniteSet(S), S /= {}
  PROVE  Max(S) \in S /\ \A y \in S : Max(S) >= y
<1> DEFINE Greatest(T) == \E x \in T : \A y \in T : x >= y
           bad == {c \in Nat : \E T \in SUBSET S : T /= {} /\ Cardinality(T) = c /\ ~Greatest(T)}
<1>1. bad = {}
  <2>1. SUFFICES ASSUME bad /= {} PROVE FALSE
    OBVIOUS
  <2>2. bad \in SUBSET Nat
    OBVIOUS
  <2>3. PICK c \in bad : \A d \in bad : c <= d
    BY <2>1, <2>2, LeastExists
  <2>4. PICK T \in SUBSET S : T /= {} /\ Cardinality(T) = c /\ ~Greatest(T)
    BY <2>3
  <2>5. PICK x \in T : TRUE
    BY <2>4
  <2> DEFINE U == T \ {x}
  <2>6. IsFiniteSet(T)
    BY FS_Subset
  <2>7. Cardinality(U) = c - 1 /\ c - 1 \in Nat
    <3>1. IsFiniteSet(U) /\ Cardinality(U) = Cardinality(T) - 1
      BY <2>5, <2>6, FS_RemoveElement
    <3>2. Cardinality(U) \in Nat
      BY <3>1, FS_CardinalityType
    <3> QED
      BY <3>1, <3>2, <2>4
  <2>8. c - 1 \notin bad
    BY <2>3, <2>7
  <2>9. U = {} \/ Greatest(U)
    BY <2>7, <2>8
  <2>10. CASE U = {}
    <3>1. \A y \in T : x >= y
      BY <2>10
    <3> QED
      BY <3>1, <2>4
  <2>11. CASE Greatest(U)
    <3>1. PICK z \in U : \A y \in U : z >= y
      BY <2>11
    <3>2. CASE z >= x
      BY <3>1, <3>2, <2>4
    <3>3. CASE x >= z
      BY <3>1, <3>3, <2>4
    <3> QED
      BY <3>2, <3>3
  <2> QED
    BY <2>9, <2>10, <2>11
<1>2. Cardinality(S) \in Nat
  BY FS_CardinalityType
<1>3. \E x \in S : \A y \in S : x >= y
  BY <1>1, <1>2
<1> QED
  BY <1>3 DEF Max

-----------------------------------------------------------------------------
(***************************************************************************)
(* A loop over the positions 1 .. n that carries a value of S: the values  *)
(* it carries exist, so a recursive function that describes it has them.   *)
(***************************************************************************)
Runs(f, n, S, first, step) ==
  /\ f \in [0 .. n -> S]
  /\ f[0] = first
  /\ \A i \in 1 .. n : f[i] = step[<<f[i - 1], i>>]

\* A loop over 1 .. n has a trace.
LEMMA LoopExists ==
  ASSUME NEW n \in Nat, NEW S, NEW first \in S, NEW step \in [S \X (1 .. n) -> S]
  PROVE  \E f : Runs(f, n, S, first, step)
<1> DEFINE bad == {m \in 0 .. n : ~ \E f : Runs(f, m, S, first, step)}
<1>1. bad = {}
  <2>1. SUFFICES ASSUME bad /= {} PROVE FALSE
    OBVIOUS
  <2>2. bad \in SUBSET Nat
    OBVIOUS
  <2>3. PICK m \in bad : \A l \in bad : m <= l
    BY <2>1, <2>2, LeastExists
  <2>4. m /= 0
    <3> DEFINE f == [i \in 0 .. 0 |-> first]
    <3>1. Runs(f, 0, S, first, step)
      BY DEF Runs
    <3> QED
      BY <3>1
  <2>5. m - 1 \in 0 .. n /\ m - 1 \notin bad /\ m \in 1 .. n
    BY <2>3, <2>4
  <2>6. PICK g : /\ g \in [0 .. m - 1 -> S]
                 /\ g[0] = first
                 /\ \A i \in 1 .. m - 1 : g[i] = step[<<g[i - 1], i>>]
    BY <2>5 DEF Runs
  <2> DEFINE f == [i \in 0 .. m |-> IF i = m THEN step[<<g[m - 1], m>>] ELSE g[i]]
  <2>7. f \in [0 .. m -> S]
    <3>1. m - 1 \in 0 .. m - 1
      BY <2>5
    <3>2. step[<<g[m - 1], m>>] \in S
      BY <3>1, <2>5, <2>6
    <3>3. \A i \in 0 .. m : i /= m => i \in 0 .. m - 1
      BY <2>5
    <3> QED
      BY <3>2, <3>3, <2>6
  <2>8. f[0] = first
    BY <2>5, <2>6
  <2>9. \A i \in 1 .. m : f[i] = step[<<f[i - 1], i>>]
    <3>1. TAKE i \in 1 .. m
    <3>2. i \in 0 .. m /\ i - 1 \in 0 .. m /\ i - 1 /= m
      BY <2>5
    <3>3. f[i - 1] = g[i - 1]
      BY <3>2
    <3>4. CASE i = m
      BY <3>2, <3>3, <3>4
    <3>5. CASE i /= m
      <4>1. i \in 1 .. m - 1
        BY <3>5, <2>5
      <4> QED
        BY <4>1, <3>2, <3>3, <3>5, <2>6
    <3> QED
      BY <3>4, <3>5
  <2> HIDE DEF f
  <2>10. Runs(f, m, S, first, step)
    BY <2>7, <2>8, <2>9 DEF Runs
  <2> QED
    BY <2>3, <2>10
<1> QED
  BY <1>1

-----------------------------------------------------------------------------
(***************************************************************************)
(* The positions of the odometer over lists, and over the first k of them. *)
(***************************************************************************)
Lists == Seq(Seq(Value))

BoxUpTo(lists, k) ==
  {ix \in [1 .. k -> Nat] : \A i \in 1 .. k : ix[i] < Len(lists[i])}

Box(lists) == BoxUpTo(lists, Len(lists))

(***************************************************************************)
(* One more list multiplies the positions by its length: a position over   *)
(* k + 1 lists is one over k of them and a place in the last.              *)
(***************************************************************************)
LEMMA BoxGrows ==
  ASSUME NEW lists \in Lists, NEW k \in Nat, k < Len(lists),
         IsFiniteSet(BoxUpTo(lists, k))
  PROVE  /\ IsFiniteSet(BoxUpTo(lists, k + 1))
         /\ Cardinality(BoxUpTo(lists, k + 1)) = Cardinality(BoxUpTo(lists, k)) * Len(lists[k + 1])
<1> DEFINE n == Len(lists[k + 1])
           S == BoxUpTo(lists, k)
           T == BoxUpTo(lists, k + 1)
           Last == 0 .. n - 1
           at(p) == [i \in 1 .. k + 1 |-> IF i <= k THEN p[1][i] ELSE p[2]]
           F == [p \in S \X Last |-> at(p)]
<1>1. n \in Nat
  BY DEF Lists
<1>2. IsFiniteSet(Last) /\ Cardinality(Last) = n
  <2> HIDE DEF n
  <2>1. 0 \in Int /\ n - 1 \in Int /\ (IF 0 > n - 1 THEN 0 ELSE (n - 1) - 0 + 1) = n
    BY <1>1
  <2> QED
    BY <2>1, <1>1, FS_Interval
<1>3. \A p \in S \X Last : at(p) \in T
  <2>1. SUFFICES ASSUME NEW ix \in S, NEW l \in Last PROVE at(<<ix, l>>) \in T
    OBVIOUS
  <2>2. ix \in [1 .. k -> Nat] /\ \A i \in 1 .. k : ix[i] < Len(lists[i])
    BY DEF BoxUpTo
  <2>3. \A i \in 1 .. k + 1 : i <= k => i \in 1 .. k
    OBVIOUS
  <2>4. at(<<ix, l>>) \in [1 .. k + 1 -> Nat]
    BY <2>2, <2>3, <1>1
  <2>5. \A i \in 1 .. k + 1 : at(<<ix, l>>)[i] < Len(lists[i])
    <3>1. TAKE i \in 1 .. k + 1
    <3>2. CASE i <= k
      BY <3>2, <2>2, <2>3
    <3>3. CASE i = k + 1
      BY <3>3, <1>1
    <3> QED
      BY <3>2, <3>3
  <2> QED
    BY <2>4, <2>5 DEF BoxUpTo
<1>4. \A p, q \in S \X Last : at(p) = at(q) => p = q
  <2>1. SUFFICES ASSUME NEW ix \in S, NEW l \in Last, NEW jx \in S, NEW m \in Last,
                        at(<<ix, l>>) = at(<<jx, m>>)
                 PROVE  ix = jx /\ l = m
    OBVIOUS
  <2>2. ix \in [1 .. k -> Nat] /\ jx \in [1 .. k -> Nat]
    BY DEF BoxUpTo
  <2>3. \A i \in 1 .. k + 1 : at(<<ix, l>>)[i] = at(<<jx, m>>)[i]
    BY <2>1
  <2>4. \A i \in 1 .. k : ix[i] = jx[i]
    BY <2>3
  <2>5. l = m
    <3>1. k + 1 \in 1 .. k + 1 /\ ~ (k + 1 <= k)
      OBVIOUS
    <3> QED
      BY <2>3, <3>1
  <2> QED
    BY <2>2, <2>4, <2>5
<1>5. \A ix \in T : \E p \in S \X Last : at(p) = ix
  <2>1. TAKE ix \in T
  <2>2. ix \in [1 .. k + 1 -> Nat] /\ \A i \in 1 .. k + 1 : ix[i] < Len(lists[i])
    BY DEF BoxUpTo
  <2> DEFINE jx == [i \in 1 .. k |-> ix[i]]
             p == <<jx, ix[k + 1]>>
  <2>3. \A i \in 1 .. k : i \in 1 .. k + 1
    OBVIOUS
  <2>4. jx \in S
    BY <2>2, <2>3 DEF BoxUpTo
  <2>5. ix[k + 1] \in Last
    BY <2>2, <1>1
  <2>6. at(p) = ix
    BY <2>2
  <2>7. p \in S \X Last
    BY <2>4, <2>5
  <2> QED
    BY <2>6, <2>7
<1>6. F \in Bijection(S \X Last, T)
  BY <1>3, <1>4, <1>5 DEF Bijection, Injection, Surjection, IsInjective
<1> HIDE DEF F, at, S, T, Last, n
<1>7. IsFiniteSet(S \X Last) /\ Cardinality(S \X Last) = Cardinality(S) * n
  BY <1>2, FS_Product DEF S
<1>8. IsFiniteSet(T) /\ Cardinality(T) = Cardinality(S \X Last)
  BY <1>6, <1>7, FS_Bijection DEF ExistsBijection
<1> QED
  BY <1>7, <1>8 DEF S, T, n

(***************************************************************************)
(* There is one position over no lists, and there are finitely many over   *)
(* any number of them.                                                     *)
(***************************************************************************)
LEMMA BoxOfNone ==
  ASSUME NEW lists
  PROVE  IsFiniteSet(BoxUpTo(lists, 0)) /\ Cardinality(BoxUpTo(lists, 0)) = 1
<1> DEFINE none == [i \in 1 .. 0 |-> 0]
<1>1. BoxUpTo(lists, 0) = {none}
  <2>1. none \in [1 .. 0 -> Nat] /\ \A i \in 1 .. 0 : none[i] < Len(lists[i])
    OBVIOUS
  <2>2. \A ix \in [1 .. 0 -> Nat] : ix = none
    OBVIOUS
  <2> QED
    BY <2>1, <2>2 DEF BoxUpTo
<1> QED
  BY <1>1, FS_Singleton

\* The positions can be counted.
LEMMA BoxFinite ==
  ASSUME NEW lists \in Lists
  PROVE  \A k \in 0 .. Len(lists) :
           IsFiniteSet(BoxUpTo(lists, k)) /\ Cardinality(BoxUpTo(lists, k)) \in Nat
<1> DEFINE bad == {k \in 0 .. Len(lists) : ~IsFiniteSet(BoxUpTo(lists, k))}
<1>1. bad = {}
  <2>1. SUFFICES ASSUME bad /= {} PROVE FALSE
    OBVIOUS
  <2>2. bad \in SUBSET Nat
    OBVIOUS
  <2>3. PICK k \in bad : \A j \in bad : k <= j
    BY <2>1, <2>2, LeastExists
  <2>4. k /= 0
    BY <2>3, BoxOfNone
  <2>5. Len(lists) \in Nat
    BY DEF Lists
  <2>6. k - 1 \in Nat /\ k - 1 < Len(lists) /\ k - 1 \notin bad /\ (k - 1) + 1 = k
    BY <2>3, <2>4, <2>5
  <2>7. IsFiniteSet(BoxUpTo(lists, k - 1))
    BY <2>6, <2>5
  <2>8. IsFiniteSet(BoxUpTo(lists, (k - 1) + 1))
    BY <2>6, <2>7, BoxGrows
  <2> QED
    BY <2>3, <2>6, <2>8
<1> QED
  BY <1>1, FS_CardinalityType

(***************************************************************************)
(* Lists that are not empty: the positions over the first of them never    *)
(* become fewer, and there is always one.                                  *)
(***************************************************************************)
LEMMA BoxMonotone ==
  ASSUME NEW lists \in Lists, \A i \in 1 .. Len(lists) : lists[i] /= <<>>
  PROVE  \A k \in 0 .. Len(lists) :
           /\ Cardinality(BoxUpTo(lists, k)) >= 1
           /\ k > 0 => /\ Len(lists[k]) \in Nat \ {0}
                       /\ Cardinality(BoxUpTo(lists, k)) =
                            Cardinality(BoxUpTo(lists, k - 1)) * Len(lists[k])
                       /\ Cardinality(BoxUpTo(lists, k)) >= Cardinality(BoxUpTo(lists, k - 1))
<1> DEFINE size(k) == Cardinality(BoxUpTo(lists, k))
           bad == {k \in 0 .. Len(lists) : ~ (size(k) >= 1)}
<1>1. Len(lists) \in Nat /\ \A i \in 1 .. Len(lists) : Len(lists[i]) \in Nat \ {0}
  <2>1. \A i \in 1 .. Len(lists) : lists[i] \in Seq(Value) /\ lists[i] /= <<>>
    BY DEF Lists
  <2> QED
    BY <2>1 DEF Lists
<1>2. \A k \in 0 .. Len(lists) : size(k) \in Nat
  BY BoxFinite
<1>3. \A k \in 1 .. Len(lists) : size(k) = size(k - 1) * Len(lists[k])
  <2>1. TAKE k \in 1 .. Len(lists)
  <2>2. k - 1 \in Nat /\ k - 1 < Len(lists) /\ (k - 1) + 1 = k /\ k - 1 \in 0 .. Len(lists)
    BY <1>1
  <2>3. IsFiniteSet(BoxUpTo(lists, k - 1))
    BY <2>2, BoxFinite
  <2>4. size((k - 1) + 1) = size(k - 1) * Len(lists[(k - 1) + 1])
    BY <2>2, <2>3, BoxGrows
  <2> QED
    BY <2>2, <2>4
<1>4. size(0) = 1
  BY BoxOfNone
<1> HIDE DEF size
<1>5. \A k \in 1 .. Len(lists) : size(k) >= size(k - 1)
  <2>1. TAKE k \in 1 .. Len(lists)
  <2>2. size(k) = size(k - 1) * Len(lists[k]) /\ size(k - 1) \in Nat /\ Len(lists[k]) \in Nat \ {0}
    BY <1>1, <1>2, <1>3
  <2>3. \A x \in Nat, y \in Nat \ {0} : x * y >= x
    OBVIOUS
  <2> QED
    BY <2>2, <2>3
<1>6. bad = {}
  <2>1. SUFFICES ASSUME bad /= {} PROVE FALSE
    OBVIOUS
  <2>2. bad \in SUBSET Nat
    OBVIOUS
  <2>3. PICK k \in bad : \A j \in bad : k <= j
    BY <2>1, <2>2, LeastExists
  <2>4. k \in 1 .. Len(lists) /\ k - 1 \in 0 .. Len(lists)
    BY <2>3, <1>1, <1>4
  <2>5. size(k - 1) >= 1
    BY <2>3, <2>4, <1>1
  <2> QED
    BY <2>3, <2>4, <2>5, <1>2, <1>5
<1>7. \A k \in 0 .. Len(lists) : k > 0 => k \in 1 .. Len(lists)
  BY <1>1
<1> QED
  BY <1>1, <1>3, <1>5, <1>6, <1>7 DEF size

(***************************************************************************)
(* Sized counts the positions.                                             *)
(***************************************************************************)
LEMMA SizedMeans ==
  ASSUME NEW lists \in Lists
  PROVE  Sized(lists) = Cardinality(Box(lists))
<1> DEFINE n == Len(lists)
           lens == {Len(lists[i]) : i \in DOMAIN lists}
           upTo == {ix \in [DOMAIN lists -> 0 .. Max(lens)] :
                      \A i \in DOMAIN lists : ix[i] < Len(lists[i])}
<1>1. n \in Nat /\ DOMAIN lists = 1 .. n /\ \A i \in 1 .. n : Len(lists[i]) \in Nat
  BY DEF Lists
<1>2. \A i \in 1 .. n : Max(lens) \in Nat /\ Len(lists[i]) <= Max(lens)
  <2>1. TAKE i \in 1 .. n
  <2>2. lens \in SUBSET Nat /\ Len(lists[i]) \in lens
    BY <1>1
  <2>3. IsFiniteSet(lens)
    <3>1. IsFiniteSet(1 .. n)
      <4>1. 1 \in Int /\ n \in Int
        BY <1>1
      <4> QED
        BY <4>1, FS_Interval
    <3> DEFINE f == [k \in 1 .. n |-> Len(lists[k])]
    <3>2. f \in [1 .. n -> lens] /\ \A l \in lens : \E k \in 1 .. n : f[k] = l
      BY <1>1
    <3> HIDE DEF f, lens
    <3>3. f \in Surjection(1 .. n, lens)
      BY <3>2 DEF Surjection
    <3> QED
      BY <3>1, <3>3, FS_Surjection
  <2> HIDE DEF lens
  <2>4. lens /= {}
    BY <2>2
  <2>5. Max(lens) \in lens /\ \A y \in lens : Max(lens) >= y
    BY <2>2, <2>3, <2>4, MaxOfFinite
  <2> QED
    BY <2>2, <2>5
<1>3. upTo = Box(lists)
  <2> DEFINE m == Max(lens)
  <2>1. \A i \in 1 .. n : m \in Nat /\ Len(lists[i]) <= m
    BY <1>2
  <2> HIDE DEF m
  <2>2. \A ix : ix \in upTo <=> /\ ix \in [1 .. n -> 0 .. m]
                                /\ \A i \in 1 .. n : ix[i] < Len(lists[i])
    BY <1>1 DEF m
  <2> HIDE DEF upTo
  <2>3. \A ix : ix \in Box(lists) <=> /\ ix \in [1 .. n -> Nat]
                                      /\ \A i \in 1 .. n : ix[i] < Len(lists[i])
    BY DEF Box, BoxUpTo
  <2> HIDE DEF n
  <2>4. ASSUME NEW ix \in upTo PROVE ix \in Box(lists)
    <3>1. \A i \in 1 .. n : ix[i] \in Nat
      <4>1. TAKE i \in 1 .. n
      <4>2. ix[i] \in 0 .. m /\ m \in Nat
        BY <2>1, <2>2, <2>4
      <4> QED
        BY <4>2
    <3> QED
      BY <3>1, <2>2, <2>3, <2>4
  <2>5. ASSUME NEW ix \in Box(lists) PROVE ix \in upTo
    <3>1. \A i \in 1 .. n : ix[i] \in 0 .. m
      BY <2>1, <2>3, <2>5, <1>1
    <3> QED
      BY <3>1, <2>2, <2>3, <2>5
  <2> QED
    BY <2>4, <2>5
<1>4. Sized(lists) = Cardinality(upTo)
  BY DEF Sized
<1> QED
  BY <1>3, <1>4

\* Dividing the bound is multiplying the product.
LEMMA DivisionCompares ==
  ASSUME NEW s \in Nat, NEW m \in Nat \ {0}, NEW b \in Nat
  PROVE  s > b \div m <=> s * m > b
<1> DEFINE q == b \div m
<1>1. q \in Nat /\ q * m <= b /\ b < q * m + m
  <2>1. q \in Nat /\ b % m \in 0 .. m - 1
    OBVIOUS
  <2>2. b = q * m + (b % m)
    OBVIOUS
  <2>3. q * m \in Nat
    BY <2>1
  <2> QED
    BY <2>1, <2>2, <2>3
<1> HIDE DEF q
<1>2. \A x, y \in Nat : x <= y => x * m <= y * m
  OBVIOUS
<1>3. CASE s > q
  <2>1. (q + 1) * m <= s * m
    BY <1>1, <1>2, <1>3
  <2>2. (q + 1) * m = q * m + m
    BY <1>1
  <2>3. q * m \in Nat /\ s * m \in Nat
    BY <1>1
  <2>4. s * m > b
    BY <1>1, <2>1, <2>2, <2>3
  <2> QED
    BY <1>3, <2>4 DEF q
<1>4. CASE ~ (s > q)
  <2>1. s * m <= q * m
    BY <1>1, <1>2, <1>4
  <2>2. q * m \in Nat /\ s * m \in Nat
    BY <1>1
  <2>3. ~ (s * m > b)
    BY <1>1, <2>1, <2>2
  <2> QED
    BY <1>4, <2>3 DEF q
<1> QED
  BY <1>3, <1>4

(***************************************************************************)
(* multiplyWithinBudget over the lists, its division included, decides     *)
(* whether there are more positions than the budget.                       *)
(***************************************************************************)
Fits(upTo, lists, budget, n) ==
  upTo = [i \in 0 .. n |->
            IF i = 0 THEN [total |-> 1, ok |-> TRUE]
            ELSE IF ~upTo[i - 1].ok THEN upTo[i - 1]
            ELSE IF upTo[i - 1].total > budget \div Len(lists[i])
                 THEN [upTo[i - 1] EXCEPT !.ok = FALSE]
            ELSE [total |-> upTo[i - 1].total * Len(lists[i]), ok |-> TRUE]]

\* The loop of Feasible has a trace.
LEMMA FitsExists ==
  ASSUME NEW lists \in Lists, NEW budget \in Nat, \A i \in 1 .. Len(lists) : lists[i] /= <<>>
  PROVE  \E f : Fits(f, lists, budget, Len(lists))
<1> DEFINE n == Len(lists)
           S == [total : Nat, ok : BOOLEAN]
           next(acc, i) == IF ~acc.ok THEN acc
                           ELSE IF acc.total > budget \div Len(lists[i])
                                THEN [acc EXCEPT !.ok = FALSE]
                           ELSE [total |-> acc.total * Len(lists[i]), ok |-> TRUE]
           first == [total |-> 1, ok |-> TRUE]
           step == [p \in S \X (1 .. n) |-> next(p[1], p[2])]
<1>1. n \in Nat /\ \A i \in 1 .. n : Len(lists[i]) \in Nat
  BY DEF Lists
<1>2. \A acc \in S, i \in 1 .. n : next(acc, i) \in S
  <2>1. TAKE acc \in S, i \in 1 .. n
  <2>a. acc.total \in Nat /\ Len(lists[i]) \in Nat
    BY <1>1
  <2>2. acc.total * Len(lists[i]) \in Nat /\ [acc EXCEPT !.ok = FALSE] \in S
    <3>1. \A x, y \in Nat : x * y \in Nat
      OBVIOUS
    <3> QED
      BY <3>1, <2>a
  <2>3. [total |-> acc.total * Len(lists[i]), ok |-> TRUE] \in S
    BY <2>2
  <2> QED
    BY <2>2, <2>3
<1>3. first \in S
  OBVIOUS
<1>4. \A f : Fits(f, lists, budget, n) <=>
        f = [i \in 0 .. n |-> IF i = 0 THEN first ELSE next(f[i - 1], i)]
  BY DEF Fits
<1> HIDE DEF next, first, S, n
<1>5. step \in [S \X (1 .. n) -> S] /\ \A acc \in S, i \in 1 .. n : step[<<acc, i>>] = next(acc, i)
  BY <1>2
<1> HIDE DEF step
<1>a. PICK f : Runs(f, n, S, first, step)
  BY <1>1, <1>3, <1>5, LoopExists
<1>6. f \in [0 .. n -> S] /\ f[0] = first /\ \A i \in 1 .. n : f[i] = step[<<f[i - 1], i>>]
  BY <1>a DEF Runs
<1>7. \A i \in 0 .. n : f[i] = IF i = 0 THEN first ELSE next(f[i - 1], i)
  <2>1. TAKE i \in 0 .. n
  <2>2. i /= 0 => i \in 1 .. n /\ i - 1 \in 0 .. n
    BY <1>1
  <2> QED
    BY <2>2, <1>5, <1>6
<1>8. f = [i \in 0 .. n |-> IF i = 0 THEN first ELSE next(f[i - 1], i)]
  BY <1>6, <1>7
<1> QED
  BY <1>4, <1>8 DEF n

\* multiplyWithinBudget compares the product with the budget.
LEMMA FeasibleMeans ==
  ASSUME NEW lists \in Lists, \A i \in 1 .. Len(lists) : lists[i] /= <<>>,
         NEW budget \in Nat, lists /= <<>> \/ budget > 0
  PROVE  Feasible(lists, budget) <=> Cardinality(Box(lists)) <= budget
<1> DEFINE n == Len(lists)
           size(k) == Cardinality(BoxUpTo(lists, k))
<1>1. n \in Nat
  BY DEF Lists
<1>2. PICK f : Fits(f, lists, budget, n) /\ Feasible(lists, budget) = f[n].ok
  <2>1. \E f : Fits(f, lists, budget, n)
    BY FitsExists
  <2> QED
    BY <2>1 DEF Fits, Feasible
<1> DEFINE good(k) == /\ f[k] \in [total : Nat, ok : BOOLEAN]
                      /\ f[k].ok => f[k].total = size(k) /\ (k > 0 => size(k) <= budget)
                      /\ ~f[k].ok => size(k) > budget
           bad == {k \in 0 .. n : ~good(k)}
<1>3. \A k \in 0 .. n : f[k] = IF k = 0 THEN [total |-> 1, ok |-> TRUE]
            ELSE IF ~f[k - 1].ok THEN f[k - 1]
            ELSE IF f[k - 1].total > budget \div Len(lists[k])
                 THEN [f[k - 1] EXCEPT !.ok = FALSE]
            ELSE [total |-> f[k - 1].total * Len(lists[k]), ok |-> TRUE]
  BY <1>2 DEF Fits
<1>4. size(0) = 1
  BY BoxOfNone
<1>5. \A k \in 0 .. n : size(k) \in Nat
  BY BoxFinite
<1>6. \A k \in 1 .. n : /\ Len(lists[k]) \in Nat \ {0}
                        /\ size(k) = size(k - 1) * Len(lists[k])
                        /\ size(k) >= size(k - 1)
  BY BoxMonotone
<1> HIDE DEF size
<1>7. \A k \in 1 .. n : good(k - 1) => good(k)
  <2>1. SUFFICES ASSUME NEW k \in 1 .. n, good(k - 1) PROVE good(k)
    OBVIOUS
  <2>2. k - 1 \in 0 .. n /\ k \in 0 .. n /\ k /= 0
    BY <1>1
  <2>3. CASE ~f[k - 1].ok
    <3>1. f[k] = f[k - 1]
      BY <2>2, <2>3, <1>3
    <3> QED
      BY <3>1, <2>1, <2>2, <2>3, <1>5, <1>6
  <2>4. CASE f[k - 1].ok
    <3> DEFINE s == size(k - 1)
               m == Len(lists[k])
    <3>1. s \in Nat /\ m \in Nat \ {0} /\ f[k - 1].total = s /\ size(k) = s * m
      BY <2>1, <2>2, <2>4, <1>5, <1>6
    <3>2. s > budget \div m <=> s * m > budget
      <4> HIDE DEF s, m
      <4> QED
        BY <3>1, DivisionCompares
    <3>3. f[k] = IF s > budget \div m THEN [f[k - 1] EXCEPT !.ok = FALSE]
                 ELSE [total |-> s * m, ok |-> TRUE]
      BY <2>2, <2>4, <1>3, <3>1
    <3>4. f[k - 1] \in [total : Nat, ok : BOOLEAN]
      BY <2>1
    <3>5. s * m \in Nat
      BY <3>1
    <3> HIDE DEF s, m
    <3>6. CASE s > budget \div m
      <4>1. f[k] = [f[k - 1] EXCEPT !.ok = FALSE]
        BY <3>3, <3>6
      <4>2. f[k] \in [total : Nat, ok : BOOLEAN] /\ ~f[k].ok
        BY <4>1, <3>4
      <4> QED
        BY <4>2, <3>1, <3>2, <3>6
    <3>7. CASE ~ (s > budget \div m)
      <4>1. f[k] = [total |-> s * m, ok |-> TRUE] /\ ~ (s * m > budget)
        BY <3>2, <3>3, <3>7
      <4> QED
        BY <4>1, <3>1, <3>5
    <3> QED
      BY <3>6, <3>7
  <2> QED
    BY <2>1, <2>3, <2>4
<1>8. good(0)
  <2>a. 0 \in 0 .. n
    BY <1>1
  <2>1. f[0] = [total |-> 1, ok |-> TRUE]
    BY <2>a, <1>3
  <2> QED
    BY <2>1, <1>4
<1> HIDE DEF good
<1>9. bad = {}
  <2>1. SUFFICES ASSUME bad /= {} PROVE FALSE
    OBVIOUS
  <2>a. bad \in SUBSET Nat
    OBVIOUS
  <2>2. PICK k \in bad : \A j \in bad : k <= j
    BY <2>1, <2>a, LeastExists
  <2>3. k /= 0
    BY <2>2, <1>8
  <2>4. k \in 1 .. n /\ k - 1 \in 0 .. n /\ k - 1 \notin bad
    BY <2>2, <2>3, <1>1
  <2> QED
    BY <2>2, <2>4, <1>7
<1>10. good(n)
  BY <1>9, <1>1
<1>11. n = 0 => budget > 0
  BY DEF Lists
<1> QED
  BY <1>1, <1>2, <1>4, <1>5, <1>10, <1>11 DEF good, size, Box

(***************************************************************************)
(* A product within the budget is so after each of its factors.            *)
(***************************************************************************)
LEMMA FeasibleSoFar ==
  ASSUME NEW lists \in Lists, lists /= <<>>, \A i \in 1 .. Len(lists) : lists[i] /= <<>>,
         NEW budget \in Nat, Feasible(lists, budget), NEW i \in 1 .. Len(lists)
  PROVE  Feasible(SubSeq(lists, 1, i - 1), budget)
<1> DEFINE n == Len(lists)
           k == i - 1
           front == SubSeq(lists, 1, k)
           size(j) == Cardinality(BoxUpTo(lists, j))
           less == {j \in 0 .. n : size(j) <= budget}
<1>1. n \in Nat /\ k \in 0 .. n
  BY DEF Lists
<1>2. \A j \in 0 .. n : size(j) \in Nat /\ size(j) >= 1
  BY BoxFinite, BoxMonotone
<1>3. \A j \in 1 .. n : size(j) >= size(j - 1)
  BY BoxMonotone
<1>4. size(n) <= budget
  BY FeasibleMeans DEF Box
<1> HIDE DEF size
<1>5. size(k) <= budget
  <2> DEFINE more == {j \in 0 .. n : ~ (size(j) <= budget)}
  <2>1. SUFFICES ASSUME more /= {} PROVE FALSE
    BY <1>1
  <2>2. more \in SUBSET (0 .. n)
    OBVIOUS
  <2>3. PICK j \in more : \A l \in more : j >= l
    BY <1>1, <2>1, <2>2, GreatestExists
  <2>4. j /= n
    BY <1>4, <2>3
  <2>5. j + 1 \in 1 .. n /\ j + 1 \in 0 .. n /\ (j + 1) - 1 = j /\ j + 1 \notin more
    BY <1>1, <2>3, <2>4
  <2>6. size(j + 1) >= size(j)
    BY <1>3, <2>5
  <2> QED
    BY <1>2, <2>3, <2>5, <2>6
<1>6. /\ front \in Lists /\ Len(front) = k
      /\ \A j \in 1 .. k : front[j] = lists[j]
  BY <1>1 DEF Lists
<1>7. \A j \in 1 .. Len(front) : front[j] /= <<>>
  BY <1>1, <1>6
<1>8. Cardinality(Box(front)) = size(k)
  <2> HIDE DEF front, k
  <2>1. BoxUpTo(front, k) = BoxUpTo(lists, k)
    BY <1>6 DEF BoxUpTo
  <2> QED
    BY <1>6, <2>1 DEF Box, size
<1>9. budget > 0
  BY <1>1, <1>2, <1>4
<1> HIDE DEF front, k
<1> QED
  BY <1>5, <1>6, <1>7, <1>8, <1>9, FeasibleMeans DEF front, k

(***************************************************************************)
(* tupleCount, which stops early and reports an overflow as -1, tells a    *)
(* product within the bound from any other.                                *)
(***************************************************************************)
Counts(upTo, dims, bound, n) ==
  upTo = [i \in 0 .. n |->
            IF i = 0 THEN [total |-> 1, stop |-> FALSE]
            ELSE IF upTo[i - 1].stop THEN upTo[i - 1]
            ELSE IF dims[i] = <<>> THEN [total |-> 0, stop |-> TRUE]
            ELSE multiplyCount(upTo[i - 1].total, Len(dims[i]), bound)]

\* The loop of tupleCount has a trace.
LEMMA CountsExists ==
  ASSUME NEW dims \in Lists, NEW bound
  PROVE  \E f : Counts(f, dims, bound, Len(dims))
<1> DEFINE n == Len(dims)
           S == [total : Int, stop : BOOLEAN]
           next(acc, i) == IF acc.stop THEN acc
                           ELSE IF dims[i] = <<>> THEN [total |-> 0, stop |-> TRUE]
                           ELSE multiplyCount(acc.total, Len(dims[i]), bound)
           first == [total |-> 1, stop |-> FALSE]
           step == [p \in S \X (1 .. n) |-> next(p[1], p[2])]
<1>1. n \in Nat /\ \A i \in 1 .. n : Len(dims[i]) \in Nat
  BY DEF Lists
<1>2. \A acc \in S, i \in 1 .. n : next(acc, i) \in S
  <2>1. TAKE acc \in S, i \in 1 .. n
  <2>2. multiplyCount(acc.total, Len(dims[i]), bound) \in S
    <3>1. acc.total * Len(dims[i]) \in Int
      BY <1>1
    <3>2. /\ [total |-> -1, stop |-> TRUE] \in S
          /\ [total |-> acc.total * Len(dims[i]), stop |-> acc.total * Len(dims[i]) > bound] \in S
      BY <3>1
    <3> QED
      BY <3>2 DEF multiplyCount
  <2>3. [total |-> 0, stop |-> TRUE] \in S
    OBVIOUS
  <2> HIDE DEF S
  <2> QED
    BY <2>2, <2>3
<1>3. first \in S
  OBVIOUS
<1>4. \A f : Counts(f, dims, bound, n) <=>
        f = [i \in 0 .. n |-> IF i = 0 THEN first ELSE next(f[i - 1], i)]
  BY DEF Counts
<1> HIDE DEF next, first, S, n
<1>5. step \in [S \X (1 .. n) -> S] /\ \A acc \in S, i \in 1 .. n : step[<<acc, i>>] = next(acc, i)
  BY <1>2
<1> HIDE DEF step
<1>a. PICK f : Runs(f, n, S, first, step)
  BY <1>1, <1>3, <1>5, LoopExists
<1>6. f \in [0 .. n -> S] /\ f[0] = first /\ \A i \in 1 .. n : f[i] = step[<<f[i - 1], i>>]
  BY <1>a DEF Runs
<1>7. \A i \in 0 .. n : f[i] = IF i = 0 THEN first ELSE next(f[i - 1], i)
  <2>1. TAKE i \in 0 .. n
  <2>2. i /= 0 => i \in 1 .. n /\ i - 1 \in 0 .. n
    BY <1>1
  <2> QED
    BY <2>2, <1>5, <1>6
<1>8. f = [i \in 0 .. n |-> IF i = 0 THEN first ELSE next(f[i - 1], i)]
  BY <1>6, <1>7
<1> QED
  BY <1>4, <1>8 DEF n

\* productTupleCount is within the bound when the product is.
LEMMA TupleCountMeans ==
  ASSUME NEW dims \in Lists, \A i \in 1 .. Len(dims) : dims[i] /= <<>>,
         NEW bound \in 1 .. MaxInt
  PROVE  tupleCount(dims, bound) \in 0 .. bound <=> Cardinality(Box(dims)) <= bound
<1> DEFINE n == Len(dims)
           size(k) == Cardinality(BoxUpTo(dims, k))
<1>1. n \in Nat /\ MaxInt \in Nat
  BY LimitsAssumption DEF Lists
<1>2. PICK f : Counts(f, dims, bound, n) /\ tupleCount(dims, bound) = f[n].total
  <2>1. \E f : Counts(f, dims, bound, n)
    BY CountsExists
  <2> QED
    BY <2>1 DEF Counts, tupleCount
<1> DEFINE good(k) == /\ f[k] \in [total : Int, stop : BOOLEAN]
                      /\ ~f[k].stop => f[k].total = size(k) /\ size(k) <= bound
                      /\ f[k].stop => size(k) > bound /\ f[k].total \notin 0 .. bound
           bad == {k \in 0 .. n : ~good(k)}
<1>3. \A k \in 0 .. n : f[k] = IF k = 0 THEN [total |-> 1, stop |-> FALSE]
            ELSE IF f[k - 1].stop THEN f[k - 1]
            ELSE IF dims[k] = <<>> THEN [total |-> 0, stop |-> TRUE]
            ELSE multiplyCount(f[k - 1].total, Len(dims[k]), bound)
  BY <1>2 DEF Counts
<1>4. size(0) = 1
  BY BoxOfNone
<1>5. \A k \in 0 .. n : size(k) \in Nat
  BY BoxFinite
<1>6. \A k \in 1 .. n : /\ Len(dims[k]) \in Nat \ {0}
                        /\ size(k) = size(k - 1) * Len(dims[k])
                        /\ size(k) >= size(k - 1)
  BY BoxMonotone
<1> HIDE DEF size
<1>7. \A k \in 1 .. n : good(k - 1) => good(k)
  <2>1. SUFFICES ASSUME NEW k \in 1 .. n, good(k - 1) PROVE good(k)
    OBVIOUS
  <2>2. k - 1 \in 0 .. n /\ k \in 0 .. n /\ k /= 0
    BY <1>1
  <2>3. CASE f[k - 1].stop
    <3>1. f[k] = f[k - 1]
      BY <2>2, <2>3, <1>3
    <3> QED
      BY <3>1, <2>1, <2>2, <2>3, <1>5, <1>6
  <2>4. CASE ~f[k - 1].stop
    <3> DEFINE s == size(k - 1)
               m == Len(dims[k])
    <3>1. s \in Nat /\ m \in Nat \ {0} /\ f[k - 1].total = s /\ size(k) = s * m
      BY <2>1, <2>2, <2>4, <1>5, <1>6
    <3>2. f[k] = multiplyCount(s, m, bound)
      BY <2>2, <2>4, <1>3, <3>1
    <3> HIDE DEF s, m
    <3>3. s > MaxInt \div m <=> s * m > MaxInt
      BY <3>1, <1>1, DivisionCompares
    <3>4. s * m \in Nat
      BY <3>1
    <3>5. CASE s > MaxInt \div m
      <4>1. f[k] = [total |-> -1, stop |-> TRUE]
        BY <3>2, <3>5 DEF multiplyCount
      <4>2. s * m > bound
        BY <3>3, <3>4, <3>5, <1>1
      <4> QED
        BY <4>1, <4>2, <3>1
    <3>6. CASE ~ (s > MaxInt \div m)
      <4>1. f[k] = [total |-> s * m, stop |-> s * m > bound]
        BY <3>2, <3>6 DEF multiplyCount
      <4>2. CASE s * m > bound
        <5>1. f[k] = [total |-> s * m, stop |-> TRUE]
          BY <4>1, <4>2
        <5> QED
          BY <5>1, <4>2, <3>1, <3>4
      <4>3. CASE ~ (s * m > bound)
        <5>1. f[k] = [total |-> s * m, stop |-> FALSE]
          <6>1. (s * m > bound) = FALSE
            BY <4>3
          <6> QED
            BY <4>1, <6>1
        <5> QED
          BY <5>1, <4>3, <3>1, <3>4
      <4> QED
        BY <4>2, <4>3
    <3> QED
      BY <3>5, <3>6
  <2> QED
    BY <2>1, <2>3, <2>4
<1>8. good(0)
  <2>1. 0 \in 0 .. n
    BY <1>1
  <2>2. f[0] = [total |-> 1, stop |-> FALSE]
    BY <2>1, <1>3
  <2> QED
    BY <2>2, <1>4
<1> HIDE DEF good
<1>9. bad = {}
  <2>1. SUFFICES ASSUME bad /= {} PROVE FALSE
    OBVIOUS
  <2>2. bad \in SUBSET Nat
    OBVIOUS
  <2>3. PICK k \in bad : \A j \in bad : k <= j
    BY <2>1, <2>2, LeastExists
  <2>4. k /= 0
    BY <2>3, <1>8
  <2>5. k \in 1 .. n /\ k - 1 \in 0 .. n /\ k - 1 \notin bad
    BY <2>3, <2>4, <1>1
  <2> QED
    BY <2>3, <2>5, <1>7
<1>10. good(n) /\ size(n) \in Nat
  BY <1>9, <1>1, <1>5
<1>11. f[n].total \in 0 .. bound <=> size(n) <= bound
  <2>1. f[n].stop \in BOOLEAN
    BY <1>10 DEF good
  <2>2. CASE f[n].stop
    BY <2>2, <1>10 DEF good
  <2>3. CASE ~f[n].stop
    BY <2>3, <1>10 DEF good
  <2> QED
    BY <2>2, <2>3
<1> QED
  BY <1>2, <1>11 DEF size, Box

\* No dimensions have one tuple.
LEMMA TupleCountOfNone ==
  ASSUME NEW bound \in 1 .. MaxInt
  PROVE  tupleCount(<<>>, bound) \in 0 .. bound
<1> DEFINE none == <<>>
<1>1. none \in Lists /\ Len(none) = 0
  BY DEF Lists
<1>2. \A i \in 1 .. Len(none) : none[i] /= <<>>
  BY <1>1
<1>3. Cardinality(Box(none)) = 1
  BY <1>1, BoxOfNone DEF Box
<1>4. bound >= 1
  BY LimitsAssumption
<1> HIDE DEF none
<1>5. tupleCount(none, bound) \in 0 .. bound
  BY <1>1, <1>2, <1>3, <1>4, TupleCountMeans
<1> QED
  BY <1>5 DEF none
-----------------------------------------------------------------------------
(***************************************************************************)
(* The odometer passes its positions in their lexicographic order: Ahead   *)
(* are those it has not left.                                              *)
(***************************************************************************)
Before(ix, jx, n) ==
  \E k \in 1 .. n : ix[k] < jx[k] /\ \A l \in 1 .. n : l < k => ix[l] = jx[l]

Ahead(lists, jx) == {ix \in Box(lists) : ~Before(ix, jx, Len(lists))}

\* What a position is.
LEMMA BoxMeans ==
  ASSUME NEW lists \in Lists
  PROVE  /\ Len(lists) \in Nat
         /\ DOMAIN lists = 1 .. Len(lists)
         /\ \A i \in 1 .. Len(lists) : lists[i] \in Seq(Value) /\ Len(lists[i]) \in Nat
         /\ \A ix : ix \in Box(lists) <=>
                      /\ ix \in [1 .. Len(lists) -> Nat]
                      /\ \A i \in 1 .. Len(lists) : ix[i] < Len(lists[i])
BY DEF Lists, Box, BoxUpTo

\* Two positions differ at a first place.
LEMMA FirstDifference ==
  ASSUME NEW lists \in Lists, NEW ix \in Box(lists), NEW jx \in Box(lists), ix /= jx
  PROVE  \E k \in 1 .. Len(lists) : /\ ix[k] /= jx[k]
                                    /\ \A l \in 1 .. Len(lists) : l < k => ix[l] = jx[l]
<1> DEFINE n == Len(lists)
           diff == {k \in 1 .. n : ix[k] /= jx[k]}
<1>1. n \in Nat /\ ix \in [1 .. n -> Nat] /\ jx \in [1 .. n -> Nat]
  BY BoxMeans
<1>2. diff /= {}
  BY <1>1
<1>3. diff \in SUBSET Nat
  BY <1>1
<1>4. PICK k \in diff : \A l \in diff : k <= l
  BY <1>2, <1>3, LeastExists
<1>5. \A l \in 1 .. n : l < k => ix[l] = jx[l]
  BY <1>1, <1>4
<1> QED
  BY <1>4, <1>5

\* The odometer orders the positions.
LEMMA BeforeIsOrder ==
  ASSUME NEW lists \in Lists, NEW ix \in Box(lists), NEW jx \in Box(lists)
  PROVE  /\ ~Before(jx, jx, Len(lists))
         /\ ix = jx \/ Before(ix, jx, Len(lists)) \/ Before(jx, ix, Len(lists))
<1> DEFINE n == Len(lists)
<1>1. n \in Nat /\ ix \in [1 .. n -> Nat] /\ jx \in [1 .. n -> Nat]
  BY BoxMeans
<1>2. ~Before(jx, jx, n)
  BY <1>1 DEF Before
<1>3. ASSUME ix /= jx PROVE Before(ix, jx, n) \/ Before(jx, ix, n)
  <2>1. PICK k \in 1 .. n : ix[k] /= jx[k] /\ \A l \in 1 .. n : l < k => ix[l] = jx[l]
    BY <1>3, FirstDifference
  <2>2. \A l \in 1 .. n : l < k => jx[l] = ix[l]
    BY <2>1
  <2>3. CASE ix[k] < jx[k]
    BY <2>1, <2>3 DEF Before
  <2>4. CASE jx[k] < ix[k]
    BY <2>2, <2>4 DEF Before
  <2> QED
    BY <1>1, <2>1, <2>3, <2>4
<1> QED
  BY <1>2, <1>3

\* What is first: nothing is before it, so everything is ahead.
LEMMA OdometerStarts ==
  ASSUME NEW lists \in Lists, \A i \in 1 .. Len(lists) : lists[i] /= <<>>
  PROVE  /\ FirstIndices(lists) \in Box(lists)
         /\ Ahead(lists, FirstIndices(lists)) = Box(lists)
<1> DEFINE n == Len(lists)
           first == FirstIndices(lists)
<1>1. /\ n \in Nat /\ DOMAIN lists = 1 .. n
      /\ \A ix : ix \in Box(lists) <=> /\ ix \in [1 .. n -> Nat]
                                      /\ \A i \in 1 .. n : ix[i] < Len(lists[i])
  BY BoxMeans
<1>2. \A i \in 1 .. n : Len(lists[i]) > 0
  <2>1. \A i \in 1 .. n : lists[i] \in Seq(Value) /\ lists[i] /= <<>>
    BY BoxMeans
  <2> QED
    BY <2>1
<1>3. first = [i \in 1 .. n |-> 0]
  BY <1>1 DEF FirstIndices
<1> HIDE DEF first
<1>4. first \in [1 .. n -> Nat] /\ \A i \in 1 .. n : first[i] < Len(lists[i])
  BY <1>2, <1>3
<1>5. \A ix \in Box(lists) : ~Before(ix, first, n)
  <2>1. TAKE ix \in Box(lists)
  <2>2. \A k \in 1 .. n : ix[k] \in Nat /\ first[k] = 0
    BY <1>1, <1>3
  <2>3. \A k \in 1 .. n : ~ (ix[k] < first[k])
    BY <2>2
  <2> QED
    BY <2>3 DEF Before
<1> QED
  BY <1>1, <1>4, <1>5 DEF Ahead, first

\* What is last: everything else is before it.
LEMMA OdometerEnds ==
  ASSUME NEW lists \in Lists, NEW jx \in Box(lists), Exhausted(lists, jx)
  PROVE  \A ix \in Box(lists) : Before(ix, jx, Len(lists)) \/ ix = jx
<1> DEFINE n == Len(lists)
<1>1. /\ n \in Nat /\ DOMAIN lists = 1 .. n /\ jx \in [1 .. n -> Nat]
      /\ \A i \in 1 .. n : Len(lists[i]) \in Nat /\ jx[i] < Len(lists[i])
  BY BoxMeans
<1>2. \A i \in 1 .. n : ~ (jx[i] + 1 < Len(lists[i]))
  BY <1>1 DEF Exhausted, Turnable
<1>3. TAKE ix \in Box(lists)
<1>4. ix \in [1 .. n -> Nat] /\ \A i \in 1 .. n : ix[i] < Len(lists[i])
  BY BoxMeans
<1>5. CASE ix /= jx
  <2>1. PICK k \in 1 .. n : ix[k] /= jx[k] /\ \A l \in 1 .. n : l < k => ix[l] = jx[l]
    BY <1>5, FirstDifference
  <2>2. ix[k] < jx[k]
    <3>1. /\ ix[k] \in Nat /\ jx[k] \in Nat /\ Len(lists[k]) \in Nat
          /\ ix[k] < Len(lists[k]) /\ ~ (jx[k] + 1 < Len(lists[k])) /\ ix[k] /= jx[k]
      BY <1>1, <1>2, <1>4, <2>1
    <3> QED
      BY <3>1
  <2> QED
    BY <2>1, <2>2 DEF Before
<1> QED
  BY <1>5

\* One turn leaves the position it was on, and passes no other.
LEMMA OdometerTurns ==
  ASSUME NEW lists \in Lists, NEW jx \in Box(lists), ~Exhausted(lists, jx)
  PROVE  /\ Advance(lists, jx) \in Box(lists)
         /\ \A ix \in Box(lists) :
              Before(ix, Advance(lists, jx), Len(lists)) <=> Before(ix, jx, Len(lists)) \/ ix = jx
<1> DEFINE n == Len(lists)
           i == Max(Turnable(lists, jx))
           next == Advance(lists, jx)
<1>1. /\ n \in Nat /\ DOMAIN lists = 1 .. n /\ jx \in [1 .. n -> Nat]
      /\ \A k \in 1 .. n : Len(lists[k]) \in Nat /\ jx[k] < Len(lists[k])
  BY BoxMeans
<1>2. i \in 1 .. n /\ jx[i] + 1 < Len(lists[i]) /\ \A k \in 1 .. n : k > i => ~ (jx[k] + 1 < Len(lists[k]))
  <2> DEFINE T == Turnable(lists, jx)
  <2>1. T = {k \in 1 .. n : jx[k] + 1 < Len(lists[k])}
    BY <1>1 DEF Turnable
  <2>2. T \in SUBSET (0 .. n) /\ T /= {}
    BY <2>1, <1>1 DEF Exhausted
  <2> HIDE DEF T
  <2>3. Max(T) \in T /\ \A y \in T : Max(T) >= y
    BY <2>2, <1>1, MaxFacts
  <2>4. Max(T) \in 1 .. n
    BY <2>1, <2>3
  <2>5. \A k \in 1 .. n : k > Max(T) => k \notin T
    BY <2>3, <2>4, <1>1
  <2> QED
    BY <2>1, <2>3, <2>4, <2>5 DEF T
<1>3. next = [k \in 1 .. n |-> IF k < i THEN jx[k] ELSE IF k = i THEN jx[k] + 1 ELSE 0]
  BY <1>1 DEF Advance
<1> HIDE DEF i, next
<1>4. /\ \A k \in 1 .. n : k < i => next[k] = jx[k]
      /\ next[i] = jx[i] + 1
      /\ \A k \in 1 .. n : k > i => next[k] = 0
  BY <1>2, <1>3
<1>5. next \in Box(lists)
  <2>1. next \in [1 .. n -> Nat]
    BY <1>1, <1>3
  <2>2. \A k \in 1 .. n : next[k] < Len(lists[k])
    <3>1. TAKE k \in 1 .. n
    <3>2. /\ k \in Int /\ i \in Int /\ jx[k] \in Nat /\ Len(lists[k]) \in Nat
          /\ jx[k] < Len(lists[k])
      BY <1>1, <1>2
    <3>3. k < i \/ k = i \/ k > i
      BY <3>2
    <3> QED
      BY <3>2, <3>3, <1>2, <1>4
  <2> QED
    BY <2>1, <2>2, BoxMeans
<1>6. ASSUME NEW ix \in Box(lists), Before(ix, next, n)
      PROVE  Before(ix, jx, n) \/ ix = jx
  <2>1. ix \in [1 .. n -> Nat] /\ \A k \in 1 .. n : ix[k] < Len(lists[k])
    BY BoxMeans
  <2>2. PICK k \in 1 .. n : ix[k] < next[k] /\ \A l \in 1 .. n : l < k => ix[l] = next[l]
    BY <1>6 DEF Before
  <2>3. k \in Int /\ i \in Int /\ ix[k] \in Nat /\ jx[k] \in Nat
    BY <1>1, <1>2, <2>1
  <2>4. CASE k < i
    <3>1. \A l \in 1 .. n : l < k => ix[l] = jx[l]
      <4>1. TAKE l \in 1 .. n
      <4>2. l < k => l < i
        BY <2>3, <2>4
      <4> QED
        BY <4>2, <2>2, <1>4
    <3>2. ix[k] < jx[k]
      BY <2>2, <2>4, <1>4
    <3> QED
      BY <3>1, <3>2 DEF Before
  <2>5. CASE k = i
    <3>1. \A l \in 1 .. n : l < i => ix[l] = jx[l]
      BY <2>2, <2>5, <1>4
    <3>2. ix[i] <= jx[i]
      <4>1. ix[i] < jx[i] + 1 /\ ix[i] \in Nat /\ jx[i] \in Nat
        BY <2>2, <2>3, <2>5, <1>4
      <4> QED
        BY <4>1
    <3>3. CASE ix /= jx
      <4>1. PICK d \in 1 .. n : ix[d] /= jx[d] /\ \A l \in 1 .. n : l < d => ix[l] = jx[l]
        BY <3>3, FirstDifference
      <4>2. d \in Int /\ ix[d] \in Nat /\ jx[d] \in Nat /\ Len(lists[d]) \in Nat /\ ix[d] < Len(lists[d])
        BY <1>1, <2>1
      <4>3. ~ (d < i)
        BY <3>1, <4>1
      <4>4. ix[d] < jx[d]
        <5>1. CASE d = i
          BY <5>1, <3>2, <4>1, <4>2
        <5>2. CASE d > i
          BY <5>2, <1>2, <4>1, <4>2
        <5> QED
          BY <5>1, <5>2, <4>2, <4>3, <2>3
      <4> QED
        BY <4>1, <4>4 DEF Before
    <3> QED
      BY <3>3
  <2>6. CASE k > i
    BY <2>2, <2>3, <2>6, <1>4
  <2> QED
    BY <2>3, <2>4, <2>5, <2>6
<1>7. ASSUME NEW ix \in Box(lists), Before(ix, jx, n)
      PROVE  Before(ix, next, n)
  <2>1. ix \in [1 .. n -> Nat]
    BY BoxMeans
  <2>2. PICK k \in 1 .. n : ix[k] < jx[k] /\ \A l \in 1 .. n : l < k => ix[l] = jx[l]
    BY <1>7 DEF Before
  <2>3. k \in Int /\ i \in Int /\ ix[k] \in Nat /\ jx[k] \in Nat /\ ix[i] \in Nat /\ jx[i] \in Nat
    BY <1>1, <1>2, <2>1
  <2>4. CASE k <= i
    <3>1. \A l \in 1 .. n : l < k => ix[l] = next[l]
      <4>1. TAKE l \in 1 .. n
      <4>2. l < k => l < i
        BY <2>3, <2>4
      <4> QED
        BY <4>2, <2>2, <1>4
    <3>2. ix[k] < next[k]
      <4>1. CASE k = i
        BY <4>1, <2>2, <2>3, <1>4
      <4>2. CASE k < i
        BY <4>2, <2>2, <1>4
      <4> QED
        BY <4>1, <4>2, <2>3, <2>4
    <3> QED
      BY <3>1, <3>2 DEF Before
  <2>5. CASE k > i
    <3>1. \A l \in 1 .. n : l < i => ix[l] = next[l]
      <4>1. TAKE l \in 1 .. n
      <4>2. l < i => l < k
        BY <2>3, <2>5
      <4> QED
        BY <4>2, <2>2, <1>4
    <3>2. ix[i] < next[i]
      BY <2>2, <2>3, <2>5, <1>2, <1>4
    <3> QED
      BY <3>1, <3>2, <1>2 DEF Before
  <2> QED
    BY <2>3, <2>4, <2>5
<1>8. Before(jx, next, n)
  <2>1. jx[i] < next[i]
    BY <1>1, <1>2, <1>4
  <2>2. \A l \in 1 .. n : l < i => jx[l] = next[l]
    BY <1>4
  <2> QED
    BY <2>1, <2>2, <1>2 DEF Before
<1> QED
  BY <1>5, <1>6, <1>7, <1>8 DEF next

\* So each turn leaves one position fewer ahead.
LEMMA AheadCounts ==
  ASSUME NEW lists \in Lists, NEW jx \in Box(lists)
  PROVE  /\ IsFiniteSet(Ahead(lists, jx))
         /\ Cardinality(Ahead(lists, jx)) \in Nat \ {0}
         /\ ~Exhausted(lists, jx) =>
              Cardinality(Ahead(lists, Advance(lists, jx))) = Cardinality(Ahead(lists, jx)) - 1
<1>1. Len(lists) \in 0 .. Len(lists)
  BY BoxMeans
<1>2. IsFiniteSet(Box(lists))
  BY <1>1, BoxFinite DEF Box
<1>3. IsFiniteSet(Ahead(lists, jx))
  <2>1. Ahead(lists, jx) \in SUBSET Box(lists)
    BY DEF Ahead
  <2> QED
    BY <2>1, <1>2, FS_Subset
<1>4. jx \in Ahead(lists, jx)
  BY BeforeIsOrder DEF Ahead
<1>5. Cardinality(Ahead(lists, jx)) \in Nat /\ Cardinality(Ahead(lists, jx)) /= 0
  <2>1. Ahead(lists, jx) /= {}
    BY <1>4
  <2> QED
    BY <2>1, <1>3, FS_EmptySet, FS_CardinalityType
<1>6. ASSUME ~Exhausted(lists, jx)
      PROVE  Cardinality(Ahead(lists, Advance(lists, jx))) = Cardinality(Ahead(lists, jx)) - 1
  <2>1. \A ix \in Box(lists) :
          Before(ix, Advance(lists, jx), Len(lists)) <=> Before(ix, jx, Len(lists)) \/ ix = jx
    BY <1>6, OdometerTurns
  <2>2. Ahead(lists, Advance(lists, jx)) = Ahead(lists, jx) \ {jx}
    BY <2>1 DEF Ahead
  <2> QED
    BY <2>2, <1>3, <1>4, FS_RemoveElement
<1> QED
  BY <1>3, <1>5, <1>6
-----------------------------------------------------------------------------
(***************************************************************************)
(* The declared values of an anyOf are all there is in its filtered list.  *)
(***************************************************************************)
Filters(upTo, vals, dim, n) ==
  upTo = [k \in 0 .. n |->
            IF k = 0 THEN <<>>
            ELSE IF contains(dim, vals[k]) /\ vals[k] \notin Range(upTo[k - 1])
                 THEN Append(upTo[k - 1], vals[k]) ELSE upTo[k - 1]]

\* The loop of DeclaredOnce has a trace.
LEMMA FiltersExists ==
  ASSUME NEW vals \in Seq(Value), NEW dim
  PROVE  \E f : Filters(f, vals, dim, Len(vals))
<1> DEFINE n == Len(vals)
           S == Seq(Value)
           next(acc, k) == IF contains(dim, vals[k]) /\ vals[k] \notin Range(acc)
                           THEN Append(acc, vals[k]) ELSE acc
           first == <<>>
           step == [p \in S \X (1 .. n) |-> next(p[1], p[2])]
<1>1. n \in Nat /\ \A k \in 1 .. n : vals[k] \in Value
  OBVIOUS
<1>2. \A acc \in S, k \in 1 .. n : next(acc, k) \in S
  <2>1. TAKE acc \in S, k \in 1 .. n
  <2>2. Append(acc, vals[k]) \in S
    BY <1>1
  <2> QED
    BY <2>2
<1>3. first \in S
  OBVIOUS
<1>4. \A f : Filters(f, vals, dim, n) <=>
        f = [k \in 0 .. n |-> IF k = 0 THEN first ELSE next(f[k - 1], k)]
  BY DEF Filters
<1> HIDE DEF next, first, S, n
<1>5. step \in [S \X (1 .. n) -> S] /\ \A acc \in S, k \in 1 .. n : step[<<acc, k>>] = next(acc, k)
  BY <1>2
<1> HIDE DEF step
<1>a. PICK f : Runs(f, n, S, first, step)
  BY <1>1, <1>3, <1>5, LoopExists
<1>6. f \in [0 .. n -> S] /\ f[0] = first /\ \A k \in 1 .. n : f[k] = step[<<f[k - 1], k>>]
  BY <1>a DEF Runs
<1>7. \A k \in 0 .. n : f[k] = IF k = 0 THEN first ELSE next(f[k - 1], k)
  <2>1. TAKE k \in 0 .. n
  <2>2. k /= 0 => k \in 1 .. n /\ k - 1 \in 0 .. n
    BY <1>1
  <2> QED
    BY <2>2, <1>5, <1>6
<1>8. f = [k \in 0 .. n |-> IF k = 0 THEN first ELSE next(f[k - 1], k)]
  BY <1>6, <1>7
<1> QED
  BY <1>4, <1>8 DEF n

\* What Append returns.
LEMMA AppendRange ==
  ASSUME NEW S, NEW s \in Seq(S), NEW e \in S
  PROVE  Append(s, e) \in Seq(S) /\ Range(Append(s, e)) = Range(s) \cup {e}
<1>1. Append(s, e) \in Seq(S) /\ Len(s) \in Nat /\ DOMAIN s = 1 .. Len(s)
  OBVIOUS
<1>2. DOMAIN Append(s, e) = 1 .. Len(s) + 1
  OBVIOUS
<1>3. \A i \in 1 .. Len(s) : Append(s, e)[i] = s[i]
  OBVIOUS
<1>4. Append(s, e)[Len(s) + 1] = e
  OBVIOUS
<1>5. \A i : i \in 1 .. Len(s) + 1 <=> i \in 1 .. Len(s) \/ i = Len(s) + 1
  BY <1>1
<1>6. \A x : x \in Range(Append(s, e)) <=> \E i \in 1 .. Len(s) + 1 : Append(s, e)[i] = x
  BY <1>2 DEF Range
<1>7. \A x : x \in Range(s) <=> \E i \in 1 .. Len(s) : s[i] = x
  BY <1>1 DEF Range
<1> QED
  BY <1>1, <1>3, <1>4, <1>5, <1>6, <1>7

\* The filtered values are the declared ones.
LEMMA DeclaredOnceMeans ==
  ASSUME NEW vals \in Seq(Value), NEW dim
  PROVE  /\ DeclaredOnce(vals, dim) \in Seq(Value)
         /\ Range(DeclaredOnce(vals, dim)) = Range(vals) \cap Range(dim)
<1> DEFINE n == Len(vals)
<1>1. n \in Nat /\ DOMAIN vals = 1 .. n /\ \A k \in 1 .. n : vals[k] \in Value
  OBVIOUS
<1>2. PICK f : Filters(f, vals, dim, n) /\ DeclaredOnce(vals, dim) = f[n]
  <2>1. \E f : Filters(f, vals, dim, n)
    BY FiltersExists
  <2> QED
    BY <2>1 DEF Filters, DeclaredOnce
<1> DEFINE good(k) == /\ f[k] \in Seq(Value)
                      /\ \A v : v \in Range(f[k]) <=>
                           v \in Range(dim) /\ \E l \in 1 .. n : l <= k /\ vals[l] = v
           bad == {k \in 0 .. n : ~good(k)}
<1>3. \A k \in 0 .. n : f[k] = IF k = 0 THEN <<>>
            ELSE IF contains(dim, vals[k]) /\ vals[k] \notin Range(f[k - 1])
                 THEN Append(f[k - 1], vals[k]) ELSE f[k - 1]
  BY <1>2 DEF Filters
<1> HIDE DEF n
<1>4. \A k \in 1 .. n : good(k - 1) => good(k)
  <2>1. SUFFICES ASSUME NEW k \in 1 .. n, good(k - 1) PROVE good(k)
    OBVIOUS
  <2>2. k \in 0 .. n /\ k /= 0
    BY <1>1
  <2>3. \A l \in 1 .. n : l <= k <=> l <= k - 1 \/ l = k
    BY <1>1
  <2>4. CASE contains(dim, vals[k]) /\ vals[k] \notin Range(f[k - 1])
    <3>1. f[k] = Append(f[k - 1], vals[k])
      BY <2>2, <2>4, <1>3
    <3>2. f[k] \in Seq(Value) /\ Range(f[k]) = Range(f[k - 1]) \cup {vals[k]}
      BY <3>1, <2>1, <1>1, AppendRange
    <3> QED
      BY <3>2, <2>1, <2>3, <2>4 DEF contains
  <2>5. CASE ~ (contains(dim, vals[k]) /\ vals[k] \notin Range(f[k - 1]))
    <3>1. f[k] = f[k - 1]
      BY <2>2, <2>5, <1>3
    <3>2. vals[k] \notin Range(dim) \/ vals[k] \in Range(f[k - 1])
      BY <2>5 DEF contains
    <3> QED
      BY <3>1, <3>2, <2>1, <2>3
  <2> QED
    BY <2>4, <2>5
<1>5. good(0)
  <2>1. 0 \in 0 .. n
    BY <1>1
  <2>2. f[0] = <<>>
    BY <2>1, <1>3
  <2>3. \A l \in 1 .. n : ~ (l <= 0)
    BY <1>1
  <2> QED
    BY <2>2, <2>3 DEF Range
<1> HIDE DEF good
<1>6. bad = {}
  <2>1. SUFFICES ASSUME bad /= {} PROVE FALSE
    OBVIOUS
  <2>2. bad \in SUBSET Nat
    OBVIOUS
  <2>3. PICK k \in bad : \A j \in bad : k <= j
    BY <2>1, <2>2, LeastExists
  <2>4. k /= 0
    BY <2>3, <1>5
  <2>5. k \in 1 .. n /\ k - 1 \in 0 .. n /\ k - 1 \notin bad
    BY <2>3, <2>4, <1>1
  <2> QED
    BY <2>3, <2>5, <1>4
<1>7. good(n)
  BY <1>6, <1>1
<1>8. \A v : v \in Range(vals) <=> \E l \in 1 .. n : l <= n /\ vals[l] = v
  BY <1>1 DEF Range
<1> QED
  BY <1>2, <1>7, <1>8 DEF good

(***************************************************************************)
(* The warnings are about rules of the engine.                             *)
(***************************************************************************)
Reports(upTo, kind, js, n) ==
  upTo = [j \in 0 .. n |->
            IF j = 0 THEN <<>>
            ELSE IF j - 1 \in js THEN Append(upTo[j - 1], [kind |-> kind, rule |-> j - 1])
            ELSE upTo[j - 1]]

WarningType == [kind : {"dead", "shadowed", "unchecked"}, rule : All]

\* What the warnings of one kind are.
LEMMA WarningsType ==
  ASSUME N \in Nat, NEW kind \in {"dead", "shadowed", "unchecked"}, NEW js
  PROVE  Warnings(kind, js) \in Seq(WarningType)
<1> DEFINE S == Seq(WarningType)
           next(acc, j) == IF j - 1 \in js THEN Append(acc, [kind |-> kind, rule |-> j - 1])
                           ELSE acc
           first == <<>>
           step == [p \in S \X (1 .. N) |-> next(p[1], p[2])]
           loop(f) == f = [j \in 0 .. N |-> IF j = 0 THEN first ELSE next(f[j - 1], j)]
<1>1. \A acc \in S, j \in 1 .. N : next(acc, j) \in S
  <2>1. TAKE acc \in S, j \in 1 .. N
  <2>2. [kind |-> kind, rule |-> j - 1] \in WarningType
    BY DEF WarningType, All, RuleIndexes, N
  <2>3. Append(acc, [kind |-> kind, rule |-> j - 1]) \in S
    BY <2>2
  <2> QED
    BY <2>3
<1>2. first \in S
  OBVIOUS
<1>3. \A f : Reports(f, kind, js, N) <=> loop(f)
  BY DEF Reports
<1>4. ASSUME NEW f, loop(f) PROVE \A j \in 0 .. N : f[j] \in S
  <2> DEFINE bad == {j \in 0 .. N : f[j] \notin S}
  <2>1. SUFFICES ASSUME bad /= {} PROVE FALSE
    OBVIOUS
  <2>2. bad \in SUBSET Nat
    OBVIOUS
  <2>3. PICK j \in bad : \A k \in bad : j <= k
    BY <2>1, <2>2, LeastExists
  <2> HIDE DEF S, next, first
  <2>4. \A k \in 0 .. N : f[k] = IF k = 0 THEN first ELSE next(f[k - 1], k)
    BY <1>4
  <2>5. j /= 0
    BY <2>3, <2>4, <1>2
  <2>6. j \in 1 .. N /\ j - 1 \in 0 .. N /\ j - 1 \notin bad
    BY <2>3, <2>5
  <2> QED
    BY <2>3, <2>4, <2>5, <2>6, <1>1
<1> HIDE DEF next, first, S
<1>5. step \in [S \X (1 .. N) -> S] /\ \A acc \in S, j \in 1 .. N : step[<<acc, j>>] = next(acc, j)
  BY <1>1
<1> HIDE DEF step
<1>a. PICK f : Runs(f, N, S, first, step)
  BY <1>2, <1>5, LoopExists
<1>6. f \in [0 .. N -> S] /\ f[0] = first /\ \A j \in 1 .. N : f[j] = step[<<f[j - 1], j>>]
  BY <1>a DEF Runs
<1>7. \A j \in 0 .. N : f[j] = IF j = 0 THEN first ELSE next(f[j - 1], j)
  <2>1. TAKE j \in 0 .. N
  <2>2. j /= 0 => j \in 1 .. N /\ j - 1 \in 0 .. N
    OBVIOUS
  <2> QED
    BY <2>2, <1>5, <1>6
<1>8. loop(f)
  BY <1>6, <1>7
<1>9. \E g : Reports(g, kind, js, N) /\ Warnings(kind, js) = g[N]
  <2>1. \E g : Reports(g, kind, js, N)
    BY <1>3, <1>8
  <2> QED
    BY <2>1 DEF Reports, Warnings
<1> HIDE DEF loop
<1> QED
  BY <1>3, <1>4, <1>9 DEF S

\* No rules, no warnings.
LEMMA WarningsOfNone ==
  ASSUME N \in Nat, NEW kind \in {"dead", "shadowed", "unchecked"}
  PROVE  Warnings(kind, {}) = <<>>
<1> DEFINE f == [j \in 0 .. N |-> <<>>]
<1>1. f = [j \in 0 .. N |->
             IF j = 0 THEN <<>>
             ELSE IF j - 1 \in {} THEN Append(f[j - 1], [kind |-> kind, rule |-> j - 1])
             ELSE f[j - 1]]
  OBVIOUS
<1> HIDE DEF f
<1>2. Reports(f, kind, {}, N)
  BY <1>1 DEF Reports
<1>3. PICK g : Reports(g, kind, {}, N) /\ Warnings(kind, {}) = g[N]
  BY <1>2 DEF Reports, Warnings
<1> DEFINE bad == {j \in 0 .. N : g[j] /= <<>>}
<1>4. \A j \in 0 .. N : g[j] = IF j = 0 THEN <<>> ELSE g[j - 1]
  BY <1>3 DEF Reports
<1>5. bad = {}
  <2>1. SUFFICES ASSUME bad /= {} PROVE FALSE
    OBVIOUS
  <2>2. bad \in SUBSET Nat
    OBVIOUS
  <2>3. PICK j \in bad : \A k \in bad : j <= k
    BY <2>1, <2>2, LeastExists
  <2>4. j /= 0
    BY <2>3, <1>4
  <2>5. j - 1 \in 0 .. N /\ j - 1 \notin bad
    BY <2>3, <2>4
  <2> QED
    BY <2>3, <2>4, <2>5, <1>4
<1> QED
  BY <1>3, <1>5

\* A sequence is empty when it has no values.
LEMMA RangeEmpty ==
  ASSUME NEW S, NEW s \in Seq(S)
  PROVE  s /= <<>> <=> \E v : v \in Range(s)
<1>1. Len(s) \in Nat /\ DOMAIN s = 1 .. Len(s)
  OBVIOUS
<1>2. s /= <<>> => 1 \in 1 .. Len(s)
  OBVIOUS
<1>3. s = <<>> => Len(s) = 0
  OBVIOUS
<1> QED
  BY <1>1, <1>2, <1>3 DEF Range

-----------------------------------------------------------------------------
(***************************************************************************)
(* What a validated engine's rules are enumerated over.                    *)
(***************************************************************************)
ValidEngine == cfg \in Config /\ validateEngine(cfg) = "nil"

D == Len(cfg.dims)

EffectiveOf(j) == EffectiveLists(Rule(cfg, j))

\* What New has validated before the analysis.
LEMMA EngineFacts ==
  ASSUME ValidEngine
  PROVE  /\ N \in Nat /\ All = 0 .. N - 1
         /\ cfg.dims \in Lists /\ D \in Nat /\ DOMAIN cfg.dims = 1 .. D
         /\ \A i \in 1 .. D : cfg.dims[i] \in Seq(Value)
         /\ \A j \in All : /\ Rule(cfg, j) \in RuleType
                           /\ ValidRule(Rule(cfg, j), cfg.dims)
                           /\ \A i \in 1 .. D : MatcherAt(Rule(cfg, j), i) \in Matcher
<1>1. cfg.rules \in Seq(RuleType) /\ cfg.dims \in Seq(Seq(Value))
  BY DEF ValidEngine, Config
<1>2. N \in Nat /\ All = 0 .. N - 1
  BY <1>1 DEF N, All, RuleIndexes
<1>3. \A j \in All : j + 1 \in 1 .. N /\ Rule(cfg, j) \in RuleType
  <2>1. \A k \in 1 .. N : cfg.rules[k] \in RuleType
    BY <1>1 DEF N
  <2>2. \A j \in All : j + 1 \in 1 .. N
    BY <1>2
  <2> QED
    BY <2>1, <2>2 DEF Rule
<1>4. \A j \in All : ValidRule(Rule(cfg, j), cfg.dims)
  <2> DEFINE bad == {j \in RuleIndexes(cfg) : ~ValidRule(Rule(cfg, j), cfg.dims)}
             wide == \E j \in bad : IsFirst(bad, j) /\ TooWide(Rule(cfg, j), cfg.dims)
  <2>1. validateEngine(cfg) = IF bad = {} THEN "nil"
                              ELSE IF wide THEN "ErrRuleTooWide" ELSE "ErrUnknownDimensionValue"
    BY DEF validateEngine
  <2>2. validateEngine(cfg) = "nil"
    BY DEF ValidEngine
  <2>3. bad = {}
    <3> HIDE DEF bad, wide
    <3> QED
      BY <2>1, <2>2
  <2> QED
    BY <2>3 DEF All
<1>5. \A j \in All, i \in 1 .. D : MatcherAt(Rule(cfg, j), i) \in Matcher
  <2>1. TAKE j \in All, i \in 1 .. D
  <2>2. Rule(cfg, j).m \in Seq(Matcher)
    BY <1>3 DEF RuleType
  <2>3. D \in Nat
    BY <1>1 DEF D
  <2>4. CASE i <= Len(Rule(cfg, j).m)
    <3>1. i \in 1 .. Len(Rule(cfg, j).m)
      BY <2>2, <2>3, <2>4
    <3>2. Rule(cfg, j).m[i] \in Matcher
      BY <2>2, <3>1
    <3> QED
      BY <2>4, <3>2 DEF MatcherAt
  <2>5. CASE ~ (i <= Len(Rule(cfg, j).m))
    <3>1. Wildcard \in Matcher
      BY DEF Wildcard, Matcher
    <3> QED
      BY <2>5, <3>1 DEF MatcherAt
  <2> QED
    BY <2>4, <2>5
<1> QED
  BY <1>1, <1>2, <1>3, <1>4, <1>5 DEF D, Lists

\* The values a live matcher is enumerated over are those it can match.
LEMMA EffectiveMeans ==
  ASSUME ValidEngine, NEW j \in All, NEW i \in 1 .. D
  PROVE  LET m == MatcherAt(Rule(cfg, j), i)
             values == Effective(Rule(cfg, j), i)
         IN  /\ values \in Seq(Value)
             /\ cfg.dims[i] /= <<>> =>
                  /\ \A v : v \in Range(values) <=>
                        /\ v \in Range(cfg.dims[i])
                        /\ m.kind /= "wildcard" => v \in Range(m.vals)
                  /\ matcherHasEffectiveValue(m, cfg.dims[i]) => values /= <<>>
                  /\ values /= <<>> => matcherHasEffectiveValue(m, cfg.dims[i])
<1> DEFINE r == Rule(cfg, j)
           m == MatcherAt(r, i)
           dim == cfg.dims[i]
           values == Effective(r, i)
<1>1. /\ m \in Matcher /\ dim \in Seq(Value) /\ r \in RuleType /\ ValidRule(r, cfg.dims)
      /\ D \in Nat
  BY EngineFacts
<1>2. m.kind \in {"exact", "anyOf", "wildcard"} /\ m.vals \in Seq(Value)
  BY <1>1 DEF Matcher
<1>3. values = CASE m.kind = "wildcard" -> dim
                 [] m.kind = "exact"    -> m.vals
                 [] m.kind = "anyOf"    -> DeclaredOnce(m.vals, dim)
  BY DEF Effective
<1>4. m.kind = "exact" /\ dim /= <<>> => Range(m.vals) \subseteq Range(dim)
  <2>1. SUFFICES ASSUME m.kind = "exact", dim /= <<>> PROVE Range(m.vals) \subseteq Range(dim)
    OBVIOUS
  <2>2. CASE i <= Len(r.m)
    <3>1. r.m \in Seq(Matcher)
      BY <1>1 DEF RuleType
    <3>2. i \in 1 .. Len(r.m) /\ m = r.m[i]
      BY <2>2, <3>1, <1>1 DEF MatcherAt
    <3>3. validMatcher(m, dim)
      BY <3>2, <1>1 DEF ValidRule
    <3> QED
      BY <3>3, <2>1 DEF validMatcher, Declared
  <2>3. CASE ~ (i <= Len(r.m))
    BY <2>1, <2>3 DEF MatcherAt, Wildcard
  <2> QED
    BY <2>2, <2>3
<1>5. values \in Seq(Value) /\ \A v : v \in Range(values) <=>
        IF m.kind = "wildcard" THEN v \in Range(dim)
        ELSE IF m.kind = "exact" THEN v \in Range(m.vals)
        ELSE v \in Range(m.vals) /\ v \in Range(dim)
  <2> HIDE DEF m, dim, values, r
  <2>1. DeclaredOnce(m.vals, dim) \in Seq(Value)
        /\ Range(DeclaredOnce(m.vals, dim)) = Range(m.vals) \cap Range(dim)
    BY <1>2, DeclaredOnceMeans
  <2>2. CASE m.kind = "wildcard"
    BY <2>2, <1>1, <1>3
  <2>3. CASE m.kind = "exact"
    BY <2>3, <1>2, <1>3
  <2>4. CASE m.kind = "anyOf"
    <3>1. values = DeclaredOnce(m.vals, dim)
      BY <2>4, <1>3
    <3> QED
      BY <2>1, <2>4, <3>1
  <2> QED
    BY <1>2, <2>2, <2>3, <2>4
<1>6. dim /= <<>> => \A v : v \in Range(values) <=>
        v \in Range(dim) /\ (m.kind /= "wildcard" => v \in Range(m.vals))
  <2> HIDE DEF m, dim, values, r
  <2> QED
    BY <1>2, <1>4, <1>5
<1>7. values /= <<>> <=> \E v : v \in Range(values)
  <2> HIDE DEF values
  <2> QED
    BY <1>5, RangeEmpty
<1>8. dim /= <<>> <=> \E v : v \in Range(dim)
  <2> HIDE DEF dim
  <2> QED
    BY <1>1, RangeEmpty
<1>9. dim /= <<>> => (matcherHasEffectiveValue(m, dim) <=> values /= <<>>)
  <2> HIDE DEF m, dim, values, r
  <2> QED
    BY <1>2, <1>6, <1>7, <1>8 DEF matcherHasEffectiveValue, contains
<1> QED
  BY <1>5, <1>6, <1>9

\* The lists a rule is enumerated over.
LEMMA EffectiveListsType ==
  ASSUME ValidEngine, NEW j \in All
  PROVE  /\ EffectiveOf(j) \in Lists /\ Len(EffectiveOf(j)) = D
         /\ \A i \in 1 .. D : EffectiveOf(j)[i] = Effective(Rule(cfg, j), i)
<1>1. D \in Nat
  BY EngineFacts
<1>2. EffectiveOf(j) = [i \in 1 .. D |-> Effective(Rule(cfg, j), i)]
  BY DEF EffectiveOf, EffectiveLists, D
<1>3. \A i \in 1 .. D : Effective(Rule(cfg, j), i) \in Seq(Value)
  BY EffectiveMeans
<1> QED
  BY <1>1, <1>2, <1>3 DEF Lists

\* A rule is live when each of its dimensions has a value for it.
LEMMA DeadMeans ==
  ASSUME ValidEngine, NEW j \in All
  PROVE  isDeadRule(Rule(cfg, j), cfg.dims) <=>
           \E i \in 1 .. D : cfg.dims[i] = <<>> \/ Effective(Rule(cfg, j), i) = <<>>
<1>1. \A i \in 1 .. D : cfg.dims[i] /= <<>> =>
        (matcherHasEffectiveValue(MatcherAt(Rule(cfg, j), i), cfg.dims[i])
           <=> Effective(Rule(cfg, j), i) /= <<>>)
  BY EffectiveMeans
<1> QED
  BY <1>1 DEF isDeadRule, D

\* A rule matches the declared tuples of its product.
LEMMA MatchMeans ==
  ASSUME ValidEngine, NEW j \in All, NEW t \in DeclaredTuples
  PROVE  j \in Matching(cfg, t, FALSE) <=>
           \A i \in 1 .. D : t[i] \in Range(Effective(Rule(cfg, j), i))
<1> DEFINE r == Rule(cfg, j)
<1>1. /\ D \in Nat /\ DOMAIN cfg.dims = 1 .. D /\ r \in RuleType
      /\ \A i \in 1 .. D : cfg.dims[i] \in Seq(Value)
  BY EngineFacts
<1>2. \A i \in 1 .. D : t[i] \in Range(cfg.dims[i])
  BY <1>1 DEF DeclaredTuples, contains
<1>3. \A i \in 1 .. D : cfg.dims[i] /= <<>>
  BY <1>1, <1>2, RangeEmpty
<1>4. \A i \in 1 .. D : t[i] \in Range(Effective(r, i)) <=>
        (MatcherAt(r, i).kind /= "wildcard" => t[i] \in Range(MatcherAt(r, i).vals))
  BY <1>2, <1>3, EffectiveMeans
<1>5. j \in Matching(cfg, t, FALSE) <=> \A i \in 1 .. D :
        IF i > Len(r.m) THEN Open(cfg.dims[i], t[i]) ELSE matches(r.m[i], t[i], cfg.dims[i])
  BY DEF Matching, All, ruleMatches, D
<1>6. \A i \in 1 .. D : Open(cfg.dims[i], t[i])
  BY <1>2 DEF Open, contains
<1>7. ASSUME NEW i \in 1 .. D
      PROVE  (IF i > Len(r.m) THEN Open(cfg.dims[i], t[i]) ELSE matches(r.m[i], t[i], cfg.dims[i]))
               <=> t[i] \in Range(Effective(r, i))
  <2>1. Len(r.m) \in Nat /\ i \in Nat
    BY <1>1 DEF RuleType
  <2>2. CASE i > Len(r.m)
    <3>1. MatcherAt(r, i).kind = "wildcard"
      BY <2>1, <2>2 DEF MatcherAt, Wildcard
    <3> QED
      BY <3>1, <2>2, <1>4, <1>6
  <2>3. CASE ~ (i > Len(r.m))
    <3>1. MatcherAt(r, i) = r.m[i]
      BY <2>1, <2>3 DEF MatcherAt
    <3> HIDE DEF r
    <3> QED
      BY <3>1, <2>3, <1>4, <1>6 DEF matches
  <2> QED
    BY <2>2, <2>3
<1> HIDE DEF r
<1> QED
  BY <1>5, <1>7 DEF r

\* The dead rules are those that match no declared tuple.
LEMMA DeadIsTrulyDead ==
  ASSUME ValidEngine, NEW j \in All
  PROVE  isDeadRule(Rule(cfg, j), cfg.dims) <=> j \in TrulyDead
<1>1. D \in Nat /\ DOMAIN cfg.dims = 1 .. D /\ \A i \in 1 .. D : cfg.dims[i] \in Seq(Value)
  BY EngineFacts
<1>2. \A i \in 1 .. D : Effective(Rule(cfg, j), i) \in Seq(Value)
  BY EffectiveMeans
<1>3. ASSUME NEW i \in 1 .. D, cfg.dims[i] = <<>> \/ Effective(Rule(cfg, j), i) = <<>>,
             NEW t \in DeclaredTuples, j \in Matching(cfg, t, FALSE)
      PROVE  FALSE
  <2>1. t[i] \in Range(cfg.dims[i])
    BY <1>1 DEF DeclaredTuples, contains
  <2>2. t[i] \in Range(Effective(Rule(cfg, j), i))
    BY <1>3, MatchMeans
  <2>3. cfg.dims[i] /= <<>> /\ Effective(Rule(cfg, j), i) /= <<>>
    BY <2>1, <2>2, <1>1, <1>2, RangeEmpty
  <2> QED
    BY <2>3, <1>3
<1>4. ASSUME \A i \in 1 .. D : cfg.dims[i] /= <<>> /\ Effective(Rule(cfg, j), i) /= <<>>
      PROVE  \E t \in DeclaredTuples : j \in Matching(cfg, t, FALSE)
  <2>1. \A i \in 1 .. D : \E v : v \in Range(Effective(Rule(cfg, j), i))
    BY <1>2, <1>4, RangeEmpty
  <2> DEFINE t == [i \in 1 .. D |-> CHOOSE v : v \in Range(Effective(Rule(cfg, j), i))]
  <2>2. \A i \in 1 .. D : t[i] \in Range(Effective(Rule(cfg, j), i))
    BY <2>1
  <2>3. \A i \in 1 .. D : t[i] \in Range(cfg.dims[i])
    BY <2>2, <1>4, EffectiveMeans
  <2>4. \A i \in 1 .. D : t[i] \in Value
    <3>1. \A i \in 1 .. D : \A v \in Range(cfg.dims[i]) : v \in Value
      BY <1>1 DEF Range
    <3> HIDE DEF t
    <3> QED
      BY <2>3, <3>1
  <2>5. t \in [1 .. D -> Value]
    BY <2>4
  <2> HIDE DEF t
  <2>6. t \in DeclaredTuples
    BY <2>3, <2>5, <1>1 DEF DeclaredTuples, Tuples, contains, D
  <2> QED
    BY <2>2, <2>6, MatchMeans
<1> QED
  BY <1>3, <1>4, DeadMeans DEF TrulyDead

(***************************************************************************)
(* search answers with the first rule that matches.                        *)
(***************************************************************************)
LEMMA SearchMeans ==
  ASSUME ValidEngine, NEW t
  PROVE  search(t) \in All \cup {noMatch} /\ IsFirst(Matching(cfg, t, FALSE), search(t))
<1> DEFINE S == Matching(cfg, t, FALSE)
<1>1. S \subseteq All /\ All \subseteq Nat
  <2>1. S \subseteq All
    BY DEF Matching, All
  <2>2. N \in Nat /\ All = 0 .. N - 1
    BY EngineFacts
  <2>3. All \subseteq Nat
    BY <2>2
  <2> QED
    BY <2>1, <2>3
<1>2. search(t) = CHOOSE x \in All \cup {noMatch} : IsFirst(S, x)
  BY DEF search
<1> HIDE DEF S
<1>3. \E x \in All \cup {noMatch} : IsFirst(S, x)
  <2>1. CASE S = {}
    BY <2>1 DEF IsFirst
  <2>2. CASE S /= {}
    <3>1. S \in SUBSET Nat
      BY <1>1
    <3>2. PICK x \in S : \A y \in S : x <= y
      BY <2>2, <3>1, LeastExists
    <3> QED
      BY <3>2, <1>1 DEF IsFirst
  <2> QED
    BY <2>1, <2>2
<1> QED
  BY <1>2, <1>3 DEF S

\* A set has one first index.
LEMMA FirstIsUnique ==
  ASSUME ValidEngine, NEW t, NEW x, IsFirst(Matching(cfg, t, FALSE), x)
  PROVE  search(t) = x
<1> DEFINE S == Matching(cfg, t, FALSE)
<1>1. S \subseteq Nat
  <2>1. S \subseteq All
    BY DEF Matching, All
  <2>2. N \in Nat /\ All = 0 .. N - 1
    BY EngineFacts
  <2>3. All \subseteq Nat
    BY <2>2
  <2> QED
    BY <2>1, <2>3
<1>2. IsFirst(S, search(t))
  BY SearchMeans
<1> HIDE DEF S
<1>3. CASE S = {}
  BY <1>2, <1>3 DEF IsFirst, S
<1>4. CASE S /= {}
  <2>1. x \in S /\ search(t) \in S /\ x <= search(t) /\ search(t) <= x
    BY <1>2, <1>4 DEF IsFirst, S
  <2>a. \A y \in S : y \in Int
    BY <1>1
  <2>2. x \in Int /\ search(t) \in Int
    BY <2>1, <2>a
  <2> QED
    BY <2>1, <2>2
<1> QED
  BY <1>3, <1>4
-----------------------------------------------------------------------------
\* Rule j is first for a declared tuple.
Wins(j) == \E t \in DeclaredTuples : IsFirst(Matching(cfg, t, FALSE), j)

(***************************************************************************)
(* The engine and the limit never change, and nothing made of them does.   *)
(***************************************************************************)
LEMMA Frame ==
  ASSUME cfg' = cfg, configured' = configured
  PROVE  /\ N' = N /\ All' = All /\ D' = D /\ limit' = limit
         /\ WarningType' = WarningType
         /\ ValidEngine => ValidEngine'
         /\ DeclaredTuples' = DeclaredTuples
         /\ TrulyDead' = TrulyDead /\ TrulyShadowed' = TrulyShadowed
         /\ \A j : Wins(j)' <=> Wins(j)
         /\ \A t : search(t)' = search(t)
         /\ \A j : EffectiveOf(j)' = EffectiveOf(j)
         /\ \A kind, js : Warnings(kind, js)' = Warnings(kind, js)
<1>1. N' = N /\ All' = All /\ D' = D
  BY DEF N, All, D
<1>2. limit' = limit
  BY DEF limit
<1>3. WarningType' = WarningType
  BY <1>1 DEF WarningType
<1>4. ValidEngine => ValidEngine'
  BY DEF ValidEngine
<1>5. DeclaredTuples' = DeclaredTuples
  BY DEF DeclaredTuples
<1>6. TrulyDead' = TrulyDead
  BY <1>1, <1>5 DEF TrulyDead
<1>7. TrulyShadowed' = TrulyShadowed
  BY <1>1, <1>5, <1>6 DEF TrulyShadowed
<1>8. \A j : Wins(j)' <=> Wins(j)
  BY <1>5 DEF Wins
<1>9. \A t : search(t)' = search(t)
  BY <1>1 DEF search
<1>10. \A j : EffectiveOf(j)' = EffectiveOf(j)
  <2>1. \A r, i : Effective(r, i)' = Effective(r, i)
    BY DEF Effective
  <2> QED
    BY <2>1 DEF EffectiveOf, EffectiveLists
<1>11. \A kind, js : Warnings(kind, js)' = Warnings(kind, js)
  BY <1>1 DEF Warnings
<1> QED
  BY <1>1, <1>2, <1>3, <1>4, <1>5, <1>6, <1>7, <1>8, <1>9, <1>10, <1>11

(***************************************************************************)
(* The positions of the odometer are the tuples of the product.            *)
(***************************************************************************)
LEMMA TupleAtMeans ==
  ASSUME NEW lists \in Lists
  PROVE  /\ \A ix \in Box(lists) :
              /\ TupleAt(lists, ix) \in [1 .. Len(lists) -> Value]
              /\ \A i \in 1 .. Len(lists) : TupleAt(lists, ix)[i] \in Range(lists[i])
         /\ \A t \in [1 .. Len(lists) -> Value] :
              (\A i \in 1 .. Len(lists) : t[i] \in Range(lists[i]))
                => \E ix \in Box(lists) : TupleAt(lists, ix) = t
<1> DEFINE n == Len(lists)
<1>1. /\ n \in Nat /\ DOMAIN lists = 1 .. n
      /\ \A i \in 1 .. n : lists[i] \in Seq(Value) /\ Len(lists[i]) \in Nat
      /\ \A ix : ix \in Box(lists) <=> /\ ix \in [1 .. n -> Nat]
                                       /\ \A i \in 1 .. n : ix[i] < Len(lists[i])
  BY BoxMeans
<1>2. \A i \in 1 .. n : /\ DOMAIN lists[i] = 1 .. Len(lists[i])
                        /\ \A k \in 1 .. Len(lists[i]) : lists[i][k] \in Value
  BY <1>1
<1>3. \A i \in 1 .. n : \A v : v \in Range(lists[i]) <=> \E k \in 1 .. Len(lists[i]) : lists[i][k] = v
  BY <1>2 DEF Range
<1> HIDE DEF n
<1>4. ASSUME NEW ix \in Box(lists)
      PROVE  /\ TupleAt(lists, ix) \in [1 .. n -> Value]
             /\ \A i \in 1 .. n : TupleAt(lists, ix)[i] \in Range(lists[i])
  <2>1. \A i \in 1 .. n : ix[i] \in Nat /\ ix[i] < Len(lists[i]) /\ Len(lists[i]) \in Nat
    BY <1>1
  <2>2. \A i \in 1 .. n : ix[i] + 1 \in 1 .. Len(lists[i])
    BY <2>1
  <2>3. TupleAt(lists, ix) = [i \in 1 .. n |-> lists[i][ix[i] + 1]]
    BY <1>1 DEF TupleAt
  <2> QED
    BY <2>2, <2>3, <1>2, <1>3
<1>5. ASSUME NEW t \in [1 .. n -> Value], \A i \in 1 .. n : t[i] \in Range(lists[i])
      PROVE  \E ix \in Box(lists) : TupleAt(lists, ix) = t
  <2> DEFINE place(i) == CHOOSE k \in 1 .. Len(lists[i]) : lists[i][k] = t[i]
             ix == [i \in 1 .. n |-> place(i) - 1]
  <2>1. \A i \in 1 .. n : place(i) \in 1 .. Len(lists[i]) /\ lists[i][place(i)] = t[i]
    BY <1>3, <1>5
  <2> HIDE DEF place
  <2>2. \A i \in 1 .. n : place(i) - 1 \in Nat /\ place(i) - 1 < Len(lists[i]) /\ (place(i) - 1) + 1 = place(i)
    BY <1>1, <2>1
  <2>3. ix \in Box(lists)
    BY <1>1, <2>2
  <2>4. TupleAt(lists, ix) = [i \in 1 .. n |-> lists[i][ix[i] + 1]]
    BY <1>1 DEF TupleAt
  <2>5. \A i \in 1 .. n : ix[i] + 1 = place(i)
    BY <2>2
  <2> HIDE DEF ix
  <2>6. \A i \in 1 .. n : lists[i][ix[i] + 1] = t[i]
    BY <2>1, <2>5
  <2>7. TupleAt(lists, ix) = t
    BY <2>4, <2>6
  <2> QED
    BY <2>3, <2>7
<1> QED
  BY <1>4, <1>5 DEF n

\* The positions over the dimensions are the declared tuples.
LEMMA ProductOfDims ==
  ASSUME ValidEngine
  PROVE  /\ \A ix \in Box(cfg.dims) : TupleAt(cfg.dims, ix) \in DeclaredTuples
         /\ \A t \in DeclaredTuples : \E ix \in Box(cfg.dims) : TupleAt(cfg.dims, ix) = t
<1>1. cfg.dims \in Lists /\ DOMAIN cfg.dims = 1 .. D
  BY EngineFacts
<1>2. \A t : t \in DeclaredTuples <=> /\ t \in [1 .. D -> Value]
                                      /\ \A i \in 1 .. D : t[i] \in Range(cfg.dims[i])
  BY <1>1 DEF DeclaredTuples, Tuples, contains, D
<1> QED
  BY <1>1, <1>2, TupleAtMeans DEF D

\* The positions over the lists of a live rule are the declared tuples it matches.
LEMMA ProductOfRule ==
  ASSUME ValidEngine, NEW j \in All, ~isDeadRule(Rule(cfg, j), cfg.dims)
  PROVE  /\ \A ix \in Box(EffectiveOf(j)) :
              /\ TupleAt(EffectiveOf(j), ix) \in DeclaredTuples
              /\ j \in Matching(cfg, TupleAt(EffectiveOf(j), ix), FALSE)
         /\ \A t \in DeclaredTuples : j \in Matching(cfg, t, FALSE) =>
              \E ix \in Box(EffectiveOf(j)) : TupleAt(EffectiveOf(j), ix) = t
         /\ \A i \in 1 .. D : cfg.dims[i] /= <<>> /\ EffectiveOf(j)[i] /= <<>>
<1> DEFINE lists == EffectiveOf(j)
<1>1. /\ lists \in Lists /\ Len(lists) = D
      /\ \A i \in 1 .. D : lists[i] = Effective(Rule(cfg, j), i)
  BY EffectiveListsType
<1>2. \A i \in 1 .. D : cfg.dims[i] /= <<>> /\ lists[i] /= <<>>
  BY <1>1, DeadMeans
<1>3. \A i \in 1 .. D : Range(lists[i]) \subseteq Range(cfg.dims[i])
  BY <1>1, <1>2, EffectiveMeans
<1>4. DOMAIN cfg.dims = 1 .. D
  BY EngineFacts
<1>5. \A t : t \in DeclaredTuples <=> /\ t \in [1 .. D -> Value]
                                      /\ \A i \in 1 .. D : t[i] \in Range(cfg.dims[i])
  BY <1>4 DEF DeclaredTuples, Tuples, contains, D
<1>6. \A t \in DeclaredTuples :
        j \in Matching(cfg, t, FALSE) <=> \A i \in 1 .. D : t[i] \in Range(lists[i])
  BY <1>1, MatchMeans
<1> HIDE DEF lists
<1>7. /\ \A ix \in Box(lists) : /\ TupleAt(lists, ix) \in [1 .. D -> Value]
                                /\ \A i \in 1 .. D : TupleAt(lists, ix)[i] \in Range(lists[i])
      /\ \A t \in [1 .. D -> Value] : (\A i \in 1 .. D : t[i] \in Range(lists[i])) =>
           \E ix \in Box(lists) : TupleAt(lists, ix) = t
  BY <1>1, TupleAtMeans
<1>8. \A ix \in Box(lists) : TupleAt(lists, ix) \in DeclaredTuples
  BY <1>3, <1>5, <1>7
<1> QED
  BY <1>2, <1>5, <1>6, <1>7, <1>8 DEF lists
-----------------------------------------------------------------------------
(***************************************************************************)
(* The inductive invariant.  On its way the analysis knows the dead rules  *)
(* and has reported them; a rule that won did so on a declared tuple.      *)
(***************************************************************************)
StateType ==
  /\ configured \in Limits
  /\ pc \in {"start", "count", "cartesian", "budget", "walk", "done"}
  /\ out \in Seq(WarningType)
  /\ deadMask \in SUBSET All /\ wins \in SUBSET All
  /\ checked \in SUBSET All /\ unchecked \in SUBSET All
  /\ rule \in 0 .. N
  /\ searches \in Nat

NothingYet ==
  pc \in {"start", "count"} =>
    wins = {} /\ checked = {} /\ unchecked = {} /\ searches = 0 /\ rule = 0

StartOK == pc = "start" => out = <<>>

DeadKnown ==
  pc \in {"count", "cartesian", "budget", "walk"} =>
    /\ configured >= 0
    /\ deadMask = TrulyDead
    /\ out = Warnings("dead", TrulyDead)

WinsAreReal == \A j \in wins : Wins(j)

\* The scan of the whole product: what the odometer has left has been searched,
\* and what it has not is within the limit.
CartesianOK ==
  pc = "cartesian" =>
    /\ indices \in Box(cfg.dims)
    /\ \A ix \in Box(cfg.dims) :
         Before(ix, indices, D) => search(TupleAt(cfg.dims, ix)) \in wins \cup {noMatch}
    /\ wins \subseteq Live /\ liveRemaining = Cardinality(Live \ wins)
    /\ searches + Cardinality(Ahead(cfg.dims, indices)) <= limit
    /\ unchecked = {}

\* Rule by rule: those behind have a verdict or were over the budget.
BudgetOK ==
  pc \in {"budget", "walk"} =>
    /\ cfg.dims /= <<>>
    /\ (\A i \in 1 .. D : cfg.dims[i] /= <<>>) => Cardinality(Box(cfg.dims)) > limit
    /\ remaining \in Nat /\ remaining = limit - searches
    /\ \A j \in checked \cup unchecked : j < rule
    /\ \A j \in Live : j < rule => j \in checked \cup unchecked
    /\ checked \cap unchecked = {} /\ unchecked \subseteq Live
    /\ \A j \in checked \ wins : ~Wins(j)

\* The walk of one rule, over its own lists and none of an earlier rule's: it has won none of the tuples the odometer has left, and
\* those it has not are within the budget.
WalkOK ==
  pc = "walk" =>
    /\ rule \in Live
    /\ effective = EffectiveOf(rule)
    /\ indices \in Box(EffectiveOf(rule))
    /\ \A ix \in Box(EffectiveOf(rule)) :
         Before(ix, indices, D) => search(TupleAt(EffectiveOf(rule), ix)) /= rule
    /\ Cardinality(Ahead(EffectiveOf(rule), indices)) <= remaining

DoneOK ==
  pc = "done" /\ configured >= 0 =>
    /\ searches <= limit
    /\ out = Warnings("dead", TrulyDead)
             \o Warnings("shadowed", TrulyShadowed \ unchecked)
             \o Warnings("unchecked", unchecked)
    /\ unchecked \cap TrulyDead = {}
    /\ unchecked /= {} => Cardinality(Box(cfg.dims)) > limit

IInv ==
  /\ ValidEngine
  /\ StateType
  /\ NothingYet
  /\ StartOK
  /\ DeadKnown
  /\ WinsAreReal
  /\ CartesianOK
  /\ BudgetOK
  /\ WalkOK
  /\ DoneOK

\* What the limit is when the analysis is not disabled.
LEMMA LimitFacts ==
  ASSUME configured \in Limits, configured >= 0
  PROVE  limit \in 1 .. MaxInt /\ limit \in Nat
BY LimitsAssumption DEF limit

\* The shadowed rules are the live ones that win no tuple.
LEMMA ShadowedMeans ==
  \A j : j \in TrulyShadowed <=> j \in All /\ j \notin TrulyDead /\ ~Wins(j)
BY DEF TrulyShadowed, Wins

\* A rule that matches a declared tuple is live.
LEMMA WinnersAreLive ==
  ASSUME ValidEngine, NEW t \in DeclaredTuples
  PROVE  /\ search(t) >= 0 <=> search(t) /= noMatch
         /\ search(t) \in All \cup {noMatch}
         /\ search(t) /= noMatch =>
              search(t) \in All /\ search(t) \notin TrulyDead /\ Wins(search(t))
<1>1. search(t) \in All \cup {noMatch} /\ IsFirst(Matching(cfg, t, FALSE), search(t))
  BY SearchMeans
<1>2. N \in Nat /\ All = 0 .. N - 1
  BY EngineFacts
<1>3. \A j \in All : j >= 0
  BY <1>2
<1>4. ~ (noMatch >= 0)
  BY DEF noMatch
<1>5. search(t) /= noMatch => search(t) \in Matching(cfg, t, FALSE)
  BY <1>1 DEF IsFirst
<1>6. search(t) /= noMatch => search(t) \notin TrulyDead
  BY <1>5 DEF TrulyDead
<1> QED
  BY <1>1, <1>3, <1>4, <1>6 DEF Wins

\* A live rule's dimensions all declare values.
LEMMA LiveMeans ==
  ASSUME ValidEngine, NEW j \in All, j \notin TrulyDead
  PROVE  /\ ~isDeadRule(Rule(cfg, j), cfg.dims)
         /\ \A i \in 1 .. D : cfg.dims[i] /= <<>>
         /\ \A i \in 1 .. Len(EffectiveOf(j)) : EffectiveOf(j)[i] /= <<>>
<1>1. ~isDeadRule(Rule(cfg, j), cfg.dims)
  BY DeadIsTrulyDead
<1>2. Len(EffectiveOf(j)) = D
  BY EffectiveListsType
<1> QED
  BY <1>1, <1>2, ProductOfRule

\* The invariant holds at first.
LEMMA Starts == Init => IInv
<1> SUFFICES ASSUME Init PROVE IInv
  OBVIOUS
<1> USE DEF Init
<1>1. ValidEngine
  BY LimitsAssumption DEF ValidEngine
<1>2. N \in Nat /\ 0 \in 0 .. N
  BY <1>1, EngineFacts
<1>3. <<>> \in Seq(WarningType)
  OBVIOUS
<1>4. StateType
  BY <1>2, <1>3 DEF StateType
<1>5. NothingYet /\ StartOK /\ DeadKnown /\ WinsAreReal /\ CartesianOK /\ BudgetOK /\ WalkOK /\ DoneOK
  BY DEF NothingYet, StartOK, DeadKnown, WinsAreReal, CartesianOK, BudgetOK, WalkOK, DoneOK
<1> QED
  BY <1>1, <1>4, <1>5 DEF IInv

\* The actions keep the invariant: the dead rules are found.
LEMMA FindDeadKeeps ==
  ASSUME IInv, FindDead
  PROVE  IInv'
<1> USE DEF FindDead
<1>1. /\ ValidEngine /\ StateType /\ pc = "start" /\ out = <<>>
      /\ wins = {} /\ checked = {} /\ unchecked = {} /\ searches = 0 /\ rule = 0
  BY DEF IInv, NothingYet, StartOK
<1>2. /\ N' = N /\ All' = All /\ limit' = limit /\ ValidEngine' /\ WarningType' = WarningType
      /\ TrulyDead' = TrulyDead /\ TrulyShadowed' = TrulyShadowed
      /\ \A kind, js : Warnings(kind, js)' = Warnings(kind, js)
  BY <1>1, Frame
<1>3. N \in Nat /\ All = 0 .. N - 1
  BY <1>1, EngineFacts
<1>4. CASE configured < 0
  <2>1. pc' = "done" /\ UNCHANGED <<deadMask, out>>
    BY <1>4
  <2>2. StateType'
    BY <1>1, <1>2, <2>1 DEF StateType
  <2>3. ~ (configured' >= 0)
    BY <1>1, <1>4, LimitsAssumption DEF StateType
  <2>4. WinsAreReal'
    BY <1>1 DEF WinsAreReal
  <2> QED
    BY <1>2, <2>1, <2>2, <2>3, <2>4
    DEF IInv, NothingYet, StartOK, DeadKnown, CartesianOK, BudgetOK, WalkOK, DoneOK
<1>5. CASE ~ (configured < 0)
  <2>1. /\ deadMask' = {j \in All : isDeadRule(Rule(cfg, j), cfg.dims)}
        /\ out' = Warnings("dead", deadMask')
        /\ pc' = IF N = 0 THEN "done" ELSE "count"
    BY <1>5
  <2>2. deadMask' = TrulyDead
    <3>1. \A j \in All : isDeadRule(Rule(cfg, j), cfg.dims) <=> j \in TrulyDead
      BY <1>1, DeadIsTrulyDead
    <3>2. TrulyDead \subseteq All
      BY DEF TrulyDead
    <3> QED
      BY <2>1, <3>1, <3>2
  <2>3. configured >= 0
    BY <1>1, <1>5, LimitsAssumption DEF StateType
  <2>4. out' = Warnings("dead", TrulyDead) /\ out' \in Seq(WarningType)
    BY <2>1, <2>2, <1>3, WarningsType
  <2>5. StateType'
    <3>1. TrulyDead \subseteq All
      BY DEF TrulyDead
    <3> QED
      BY <1>1, <1>2, <2>1, <2>2, <2>4, <3>1 DEF StateType
  <2>6. DeadKnown'
    BY <1>2, <2>2, <2>3, <2>4 DEF DeadKnown
  <2>7. DoneOK'
    <3>1. SUFFICES ASSUME N = 0 PROVE DoneOK'
      BY <2>1 DEF DoneOK
    <3>2. All = {}
      BY <3>1, <1>3
    <3>3. TrulyShadowed = {} /\ TrulyDead = {}
      BY <3>2 DEF TrulyShadowed, TrulyDead
    <3>4. 0 <= limit
      BY <1>1, <2>3, LimitFacts DEF StateType
    <3>5. Warnings("shadowed", {}) = <<>> /\ Warnings("unchecked", {}) = <<>>
      BY <1>3, WarningsOfNone
    <3>6. Warnings("dead", TrulyDead) \in Seq(WarningType)
      BY <2>4
    <3>7. out' = Warnings("dead", TrulyDead) \o Warnings("shadowed", {}) \o Warnings("unchecked", {})
      BY <2>4, <3>5, <3>6
    <3> QED
      BY <1>1, <1>2, <3>3, <3>4, <3>7 DEF DoneOK
  <2>8. WinsAreReal'
    BY <1>1 DEF WinsAreReal
  <2>9. pc' \in {"done", "count"}
    BY <2>1
  <2> QED
    BY <1>1, <1>2, <2>5, <2>6, <2>7, <2>8, <2>9
    DEF IInv, NothingYet, StartOK, CartesianOK, BudgetOK, WalkOK
<1> QED
  BY <1>4, <1>5

\* The whole product is within the limit.
LEMMA ChooseCartesianKeeps ==
  ASSUME IInv, ChooseCartesian
  PROVE  IInv'
<1> USE DEF ChooseCartesian
<1>1. /\ ValidEngine /\ StateType /\ pc = "count" /\ configured >= 0
      /\ deadMask = TrulyDead /\ out = Warnings("dead", TrulyDead)
      /\ wins = {} /\ checked = {} /\ unchecked = {} /\ searches = 0 /\ rule = 0
  BY DEF IInv, NothingYet, DeadKnown
<1>2. /\ N' = N /\ All' = All /\ D' = D /\ limit' = limit /\ ValidEngine'
      /\ WarningType' = WarningType
      /\ TrulyDead' = TrulyDead /\ TrulyShadowed' = TrulyShadowed
      /\ \A kind, js : Warnings(kind, js)' = Warnings(kind, js)
  BY <1>1, Frame
<1>3. N \in Nat /\ All = 0 .. N - 1 /\ limit \in 1 .. MaxInt /\ limit \in Nat
  BY <1>1, EngineFacts, LimitFacts DEF StateType
<1>4. StateType' /\ WinsAreReal'
  BY <1>1, <1>2 DEF StateType, WinsAreReal
<1>5. CASE Live = {}
  <2>1. pc' = "done"
    BY <1>5
  <2>2. TrulyShadowed = {} /\ unchecked = {}
    BY <1>1, <1>5, ShadowedMeans DEF Live
  <2>3. Warnings("shadowed", {}) = <<>> /\ Warnings("unchecked", {}) = <<>>
    BY <1>3, WarningsOfNone
  <2>4. out \in Seq(WarningType)
    BY <1>1 DEF StateType
  <2>5. out = Warnings("dead", TrulyDead) \o Warnings("shadowed", {}) \o Warnings("unchecked", {})
    BY <1>1, <2>3, <2>4
  <2>6. DoneOK'
    BY <1>1, <1>2, <1>3, <2>2, <2>5 DEF DoneOK
  <2> QED
    BY <1>2, <1>4, <2>1, <2>6
    DEF IInv, NothingYet, StartOK, DeadKnown, CartesianOK, BudgetOK, WalkOK
<1>6. CASE Live /= {}
  <2>1. pc' = "cartesian"
    BY <1>6
  <2>2. PICK j \in All : j \notin TrulyDead
    BY <1>1, <1>6 DEF Live
  <2>3. cfg.dims \in Lists /\ \A i \in 1 .. Len(cfg.dims) : cfg.dims[i] /= <<>>
    BY <1>1, <2>2, LiveMeans, EngineFacts DEF D
  <2>4. indices' \in Box(cfg.dims) /\ Ahead(cfg.dims, indices') = Box(cfg.dims)
    BY <2>3, OdometerStarts
  <2>5. Cardinality(Box(cfg.dims)) <= limit
    BY <1>3, <2>3, TupleCountMeans
  <2>6. searches' + Cardinality(Ahead(cfg.dims, indices')) <= limit
    <3>1. searches' = 0
      BY <1>1
    <3>2. Len(cfg.dims) \in 0 .. Len(cfg.dims)
      BY <2>3, BoxMeans
    <3>3. Cardinality(Box(cfg.dims)) \in Nat
      BY <2>3, <3>2, BoxFinite DEF Box
    <3> QED
      BY <2>4, <2>5, <3>1, <3>3
  <2>7. \A ix \in Box(cfg.dims) : ~Before(ix, indices', D)
    BY <2>4 DEF Ahead, D
  <2>8. liveRemaining' = Cardinality(Live \ wins') /\ wins' \subseteq Live
    <3>1. Live \ wins' = Live
      BY <1>1
    <3> QED
      BY <1>1, <3>1
  <2>9. Live' = Live
    BY <1>2 DEF Live
  <2>10. CartesianOK'
    BY <1>1, <1>2, <2>4, <2>6, <2>7, <2>8, <2>9 DEF CartesianOK
  <2>11. DeadKnown'
    BY <1>1, <1>2 DEF DeadKnown
  <2> QED
    BY <1>2, <1>4, <2>1, <2>10, <2>11
    DEF IInv, NothingYet, StartOK, BudgetOK, WalkOK, DoneOK
<1> QED
  BY <1>5, <1>6

\* It is not.
LEMMA ChooseBudgetedKeeps ==
  ASSUME IInv, ChooseBudgeted
  PROVE  IInv'
<1> USE DEF ChooseBudgeted
<1>1. /\ ValidEngine /\ StateType /\ pc = "count" /\ configured >= 0
      /\ deadMask = TrulyDead /\ out = Warnings("dead", TrulyDead)
      /\ wins = {} /\ checked = {} /\ unchecked = {} /\ searches = 0 /\ rule = 0
  BY DEF IInv, NothingYet, DeadKnown
<1>2. /\ N' = N /\ All' = All /\ D' = D /\ limit' = limit /\ ValidEngine'
      /\ WarningType' = WarningType /\ TrulyDead' = TrulyDead
      /\ \A kind, js : Warnings(kind, js)' = Warnings(kind, js)
  BY <1>1, Frame
<1>3. N \in Nat /\ All = 0 .. N - 1 /\ limit \in 1 .. MaxInt /\ limit \in Nat
  BY <1>1, EngineFacts, LimitFacts DEF StateType
<1>4. StateType' /\ WinsAreReal' /\ DeadKnown'
  BY <1>1, <1>2 DEF StateType, WinsAreReal, DeadKnown
<1>5. cfg.dims /= <<>>
  BY <1>3, TupleCountOfNone
<1>6. (\A i \in 1 .. D : cfg.dims[i] /= <<>>) => Cardinality(Box(cfg.dims)) > limit
  <2>1. SUFFICES ASSUME \A i \in 1 .. D : cfg.dims[i] /= <<>>
                 PROVE  Cardinality(Box(cfg.dims)) > limit
    OBVIOUS
  <2>2. cfg.dims \in Lists /\ \A i \in 1 .. Len(cfg.dims) : cfg.dims[i] /= <<>>
    BY <1>1, <2>1, EngineFacts DEF D
  <2>3. ~ (Cardinality(Box(cfg.dims)) <= limit)
    BY <1>3, <2>2, TupleCountMeans
  <2>4. Len(cfg.dims) \in 0 .. Len(cfg.dims)
    BY <2>2, BoxMeans
  <2>5. Cardinality(Box(cfg.dims)) \in Nat
    BY <2>2, <2>4, BoxFinite DEF Box
  <2> QED
    BY <1>3, <2>3, <2>5
<1>7. BudgetOK'
  <2>1. \A j \in All : ~ (j < 0)
    BY <1>3
  <2>2. Live' \subseteq All
    BY <1>2 DEF Live
  <2> QED
    BY <1>1, <1>2, <1>3, <1>5, <1>6, <2>1, <2>2 DEF BudgetOK
<1> QED
  BY <1>2, <1>4, <1>7
  DEF IInv, NothingYet, StartOK, CartesianOK, WalkOK, DoneOK

\* What concatenation returns.
LEMMA ConcatType ==
  ASSUME NEW S, NEW s \in Seq(S), NEW t \in Seq(S)
  PROVE  s \o t \in Seq(S) /\ (s \o t) \o <<>> = s \o t
<1>1. s \o t \in Seq(S)
  OBVIOUS
<1>2. \A u \in Seq(S) : u \o <<>> = u
  OBVIOUS
<1> QED
  BY <1>1, <1>2

\* One tuple of the whole product.
LEMMA ScanTupleKeeps ==
  ASSUME IInv, ScanTuple
  PROVE  IInv'
<1> DEFINE t == TupleAt(cfg.dims, indices)
           fm == search(t)
<1>1. /\ ValidEngine /\ StateType /\ pc = "cartesian" /\ configured >= 0
      /\ deadMask = TrulyDead /\ out = Warnings("dead", TrulyDead)
      /\ \A j \in wins : Wins(j)
      /\ indices \in Box(cfg.dims)
      /\ \A ix \in Box(cfg.dims) :
           Before(ix, indices, D) => search(TupleAt(cfg.dims, ix)) \in wins \cup {noMatch}
      /\ wins \subseteq Live /\ liveRemaining = Cardinality(Live \ wins)
      /\ searches + Cardinality(Ahead(cfg.dims, indices)) <= limit
      /\ unchecked = {}
  BY DEF ScanTuple, IInv, DeadKnown, WinsAreReal, CartesianOK
<1>2. UNCHANGED <<cfg, configured, deadMask, remaining, rule, checked, unchecked>>
      /\ searches' = searches + 1
  BY DEF ScanTuple
<1>3. /\ N' = N /\ All' = All /\ D' = D /\ limit' = limit /\ ValidEngine'
      /\ WarningType' = WarningType
      /\ TrulyDead' = TrulyDead /\ TrulyShadowed' = TrulyShadowed
      /\ \A j : Wins(j)' <=> Wins(j)
      /\ \A u : search(u)' = search(u)
      /\ \A kind, js : Warnings(kind, js)' = Warnings(kind, js)
  BY <1>1, <1>2, Frame
<1>4. N \in Nat /\ All = 0 .. N - 1 /\ limit \in Nat
  BY <1>1, EngineFacts, LimitFacts DEF StateType
<1>5. /\ fm >= 0 <=> fm /= noMatch
      /\ fm \in All \cup {noMatch}
      /\ fm /= noMatch => fm \in All /\ fm \notin TrulyDead /\ Wins(fm)
  <2>1. t \in DeclaredTuples
    BY <1>1, ProductOfDims
  <2> HIDE DEF t
  <2> QED
    BY <1>1, <2>1, WinnersAreLive
<1>6. /\ fm >= 0 /\ fm \notin wins => wins' = wins \cup {fm} /\ liveRemaining' = liveRemaining - 1
      /\ ~ (fm >= 0 /\ fm \notin wins) => wins' = wins /\ liveRemaining' = liveRemaining
  BY DEF ScanTuple, FirstWin
<1>7. IF liveRemaining' > 0 /\ ~Exhausted(cfg.dims, indices)
      THEN indices' = Advance(cfg.dims, indices) /\ UNCHANGED <<pc, out>>
      ELSE /\ pc' = "done"
           /\ out' = out \o Warnings("shadowed", Live \ wins')
           /\ UNCHANGED indices
  BY DEF ScanTuple
<1> HIDE DEF fm, t
<1>8. Live = All \ TrulyDead /\ Live' = Live /\ Live \subseteq All
  BY <1>1, <1>2, <1>3 DEF Live
<1>9. /\ fm \in wins' \cup {noMatch} /\ wins \subseteq wins' /\ wins' \subseteq Live
      /\ \A j \in wins' : Wins(j)
  BY <1>1, <1>5, <1>6, <1>8
<1>10. liveRemaining' = Cardinality(Live \ wins') /\ IsFiniteSet(Live \ wins')
  <2>1. IsFiniteSet(All)
    <3>1. 0 \in Int /\ N - 1 \in Int
      BY <1>4
    <3> QED
      BY <1>4, <3>1, FS_Interval
  <2>2. Live \ wins \in SUBSET All /\ Live \ wins' \in SUBSET All
    BY <1>8
  <2>3. IsFiniteSet(Live \ wins) /\ IsFiniteSet(Live \ wins')
    BY <2>1, <2>2, FS_Subset
  <2>4. CASE fm >= 0 /\ fm \notin wins
    <3>1. Live \ wins' = (Live \ wins) \ {fm} /\ fm \in Live \ wins
      BY <2>4, <1>5, <1>6, <1>8
    <3>2. Cardinality(Live \ wins') = Cardinality(Live \ wins) - 1
      BY <2>3, <3>1, FS_RemoveElement
    <3> QED
      BY <2>3, <2>4, <3>2, <1>1, <1>6
  <2>5. CASE ~ (fm >= 0 /\ fm \notin wins)
    BY <2>3, <2>5, <1>1, <1>6
  <2> QED
    BY <2>4, <2>5
<1>11. cfg.dims \in Lists /\ Len(cfg.dims) = D
  BY <1>1, EngineFacts DEF D
<1>12. /\ Cardinality(Ahead(cfg.dims, indices)) \in Nat \ {0}
       /\ searches \in Nat
  BY <1>1, <1>11, AheadCounts DEF StateType
<1>13. searches' <= limit /\ searches' \in Nat
  BY <1>1, <1>2, <1>4, <1>12
<1>14. WinsAreReal'
  BY <1>3, <1>9 DEF WinsAreReal
<1>15. wins' \in SUBSET All
  BY <1>8, <1>9
<1>16. CASE liveRemaining' > 0 /\ ~Exhausted(cfg.dims, indices)
  <2>1. indices' = Advance(cfg.dims, indices) /\ pc' = pc /\ out' = out
    BY <1>7, <1>16
  <2>2. StateType'
    BY <1>1, <1>2, <1>3, <1>13, <1>15, <2>1 DEF StateType
  <2>3. /\ indices' \in Box(cfg.dims)
        /\ \A ix \in Box(cfg.dims) :
             Before(ix, indices', D) <=> Before(ix, indices, D) \/ ix = indices
    BY <1>1, <1>11, <1>16, <2>1, OdometerTurns
  <2>4. Cardinality(Ahead(cfg.dims, indices')) = Cardinality(Ahead(cfg.dims, indices)) - 1
    BY <1>1, <1>11, <1>16, <2>1, AheadCounts
  <2>5. searches' + Cardinality(Ahead(cfg.dims, indices')) <= limit
    BY <1>1, <1>2, <1>4, <1>12, <2>4
  <2>6. \A ix \in Box(cfg.dims) :
          Before(ix, indices', D) => search(TupleAt(cfg.dims, ix)) \in wins' \cup {noMatch}
    BY <1>1, <1>9, <2>3 DEF fm, t
  <2>7. CartesianOK'
    BY <1>1, <1>2, <1>3, <1>8, <1>9, <1>10, <2>3, <2>5, <2>6 DEF CartesianOK
  <2>8. DeadKnown'
    BY <1>1, <1>2, <1>3, <2>1 DEF DeadKnown
  <2> QED
    BY <1>1, <1>3, <1>14, <2>1, <2>2, <2>7, <2>8
    DEF IInv, NothingYet, StartOK, BudgetOK, WalkOK, DoneOK
<1>17. CASE ~ (liveRemaining' > 0 /\ ~Exhausted(cfg.dims, indices))
  <2>1. pc' = "done" /\ out' = out \o Warnings("shadowed", Live \ wins')
    BY <1>7, <1>17
  <2>2. Live \ wins' = TrulyShadowed
    <3>1. \A j \in TrulyShadowed : j \in Live \ wins'
      BY <1>8, <1>9, ShadowedMeans
    <3>2. ASSUME NEW j \in Live \ wins', Wins(j) PROVE FALSE
      <4>1. Exhausted(cfg.dims, indices)
        <5>1. Live \ wins' /= {}
          BY <3>2
        <5>2. Cardinality(Live \ wins') \in Nat /\ Cardinality(Live \ wins') /= 0
          BY <5>1, <1>10, FS_EmptySet, FS_CardinalityType
        <5> QED
          BY <5>2, <1>10, <1>17
      <4>2. PICK u \in DeclaredTuples : IsFirst(Matching(cfg, u, FALSE), j)
        BY <3>2 DEF Wins
      <4>3. search(u) = j
        BY <1>1, <4>2, FirstIsUnique
      <4>4. PICK ix \in Box(cfg.dims) : TupleAt(cfg.dims, ix) = u
        BY <1>1, <4>2, ProductOfDims
      <4>5. Before(ix, indices, D) \/ ix = indices
        BY <1>1, <1>11, <4>1, <4>4, OdometerEnds
      <4>6. j \in wins' \cup {noMatch}
        BY <1>1, <1>9, <4>3, <4>4, <4>5 DEF fm, t
      <4>7. j /= noMatch
        BY <1>4, <1>8, <3>2 DEF noMatch
      <4> QED
        BY <4>6, <4>7, <3>2
    <3> QED
      BY <3>1, <3>2, <1>8, ShadowedMeans
  <2>3. /\ Warnings("unchecked", {}) = <<>>
        /\ Warnings("shadowed", TrulyShadowed) \in Seq(WarningType)
        /\ out \in Seq(WarningType)
    BY <1>1, <1>4, WarningsOfNone, WarningsType DEF StateType
  <2>4. out' = Warnings("dead", TrulyDead) \o Warnings("shadowed", TrulyShadowed \ {})
                 \o Warnings("unchecked", {}) /\ out' \in Seq(WarningType)
    <3> DEFINE shadowed == Warnings("shadowed", TrulyShadowed)
    <3>1. TrulyShadowed \ {} = TrulyShadowed
      OBVIOUS
    <3>2. out' = out \o shadowed
      BY <2>1, <2>2
    <3>3. shadowed \in Seq(WarningType)
      BY <2>3
    <3>4. out = Warnings("dead", TrulyDead)
      BY <1>1
    <3> HIDE DEF shadowed
    <3>5. out \o shadowed \in Seq(WarningType) /\ (out \o shadowed) \o <<>> = out \o shadowed
      BY <2>3, <3>3, ConcatType
    <3> QED
      BY <2>3, <3>1, <3>2, <3>4, <3>5 DEF shadowed
  <2>5. StateType'
    BY <1>1, <1>2, <1>3, <1>13, <1>15, <2>1, <2>4 DEF StateType
  <2>6. DoneOK'
    BY <1>1, <1>2, <1>3, <1>13, <2>4 DEF DoneOK
  <2> QED
    BY <1>3, <1>14, <2>1, <2>5, <2>6
    DEF IInv, NothingYet, StartOK, DeadKnown, CartesianOK, BudgetOK, WalkOK
<1> QED
  BY <1>16, <1>17

\* What holds between two rules and during the walk of one.
BudgetHolds ==
  /\ ValidEngine /\ StateType /\ configured >= 0
  /\ deadMask = TrulyDead /\ out = Warnings("dead", TrulyDead)
  /\ \A j \in wins : Wins(j)
  /\ cfg.dims /= <<>>
  /\ (\A i \in 1 .. D : cfg.dims[i] /= <<>>) => Cardinality(Box(cfg.dims)) > limit
  /\ remaining \in Nat /\ remaining = limit - searches
  /\ \A j \in checked \cup unchecked : j < rule
  /\ \A j \in Live : j < rule => j \in checked \cup unchecked
  /\ checked \cap unchecked = {} /\ unchecked \subseteq Live
  /\ \A j \in checked \ wins : ~Wins(j)

\* It follows from the invariant.
LEMMA BudgetFacts ==
  ASSUME IInv, pc \in {"budget", "walk"}
  PROVE  /\ BudgetHolds
         /\ N \in Nat /\ All = 0 .. N - 1 /\ limit \in Nat /\ searches \in Nat
         /\ rule \in 0 .. N
         /\ Live = All \ TrulyDead
<1>1. BudgetHolds
  BY DEF IInv, DeadKnown, WinsAreReal, BudgetOK, BudgetHolds
<1>2. ValidEngine /\ StateType /\ configured >= 0 /\ deadMask = TrulyDead
  BY <1>1 DEF BudgetHolds
<1>3. N \in Nat /\ All = 0 .. N - 1
  BY <1>2, EngineFacts
<1>4. configured \in Limits /\ searches \in Nat /\ rule \in 0 .. N
  BY <1>2 DEF StateType
<1>5. limit \in Nat
  BY <1>2, <1>4, LimitFacts
<1> QED
  BY <1>1, <1>2, <1>3, <1>4, <1>5 DEF Live

\* A dead rule, or one over the budget.
LEMMA PassRuleKeeps ==
  ASSUME IInv, PassRule
  PROVE  IInv'
<1> USE DEF PassRule
<1>1. BudgetHolds
  BY BudgetFacts
<1>2. /\ N \in Nat /\ All = 0 .. N - 1 /\ rule \in 0 .. N /\ rule < N
      /\ Live = All \ TrulyDead
  BY BudgetFacts
<1>3. /\ ValidEngine /\ StateType
  BY <1>1 DEF BudgetHolds
<1>4. /\ N' = N /\ All' = All /\ D' = D /\ limit' = limit /\ ValidEngine'
      /\ WarningType' = WarningType /\ TrulyDead' = TrulyDead
      /\ \A j : Wins(j)' <=> Wins(j)
      /\ \A kind, js : Warnings(kind, js)' = Warnings(kind, js)
  BY <1>3, Frame
<1>5. rule \in All /\ rule' = rule + 1 /\ rule' \in 0 .. N
  BY <1>2
<1>6. \/ rule \notin Live /\ unchecked' = unchecked
      \/ rule \in Live /\ unchecked' = unchecked \cup {rule}
  BY DEF Live
<1>7. StateType'
  BY <1>3, <1>4, <1>5, <1>6 DEF StateType
<1>8. WinsAreReal' /\ DeadKnown'
  BY <1>1, <1>4 DEF BudgetHolds, WinsAreReal, DeadKnown
<1>9. Live' = Live
  BY <1>4 DEF Live
<1>10. checked \subseteq All /\ unchecked \subseteq All
  BY <1>3 DEF StateType
<1>11. \A j \in All : j \in Int /\ (j < rule' <=> j < rule \/ j = rule)
  BY <1>2, <1>5
<1>12. /\ \A j \in checked \cup unchecked' : j < rule'
       /\ \A j \in Live : j < rule' => j \in checked \cup unchecked'
       /\ checked \cap unchecked' = {} /\ unchecked' \subseteq Live
  <2>1. \A j \in checked \cup unchecked : j < rule
    BY <1>1 DEF BudgetHolds
  <2>2. \A j \in Live : j < rule => j \in checked \cup unchecked
    BY <1>1 DEF BudgetHolds
  <2>3. checked \cap unchecked = {} /\ unchecked \subseteq Live
    BY <1>1 DEF BudgetHolds
  <2>4. Live \subseteq All
    BY <1>2
  <2>5. rule \notin checked
    <3>1. ~ (rule < rule)
      BY <1>2
    <3> QED
      BY <2>1, <3>1
  <2>6. CASE rule \notin Live /\ unchecked' = unchecked
    BY <1>10, <1>11, <2>1, <2>2, <2>3, <2>4, <2>6
  <2>7. CASE rule \in Live /\ unchecked' = unchecked \cup {rule}
    BY <1>10, <1>11, <2>1, <2>2, <2>3, <2>4, <2>5, <2>7
  <2> QED
    BY <1>6, <2>6, <2>7
<1>13. BudgetOK'
  BY <1>1, <1>4, <1>9, <1>12 DEF BudgetHolds, BudgetOK
<1> QED
  BY <1>4, <1>7, <1>8, <1>13
  DEF IInv, NothingYet, StartOK, CartesianOK, WalkOK, DoneOK

\* The lists a live rule is enumerated over.
LEMMA LiveLists ==
  ASSUME ValidEngine, NEW j \in All, j \notin TrulyDead
  PROVE  /\ EffectiveOf(j) \in Lists /\ Len(EffectiveOf(j)) = D
         /\ \A i \in 1 .. Len(EffectiveOf(j)) : EffectiveOf(j)[i] /= <<>>
         /\ cfg.dims /= <<>> => EffectiveOf(j) /= <<>>
<1>1. /\ EffectiveOf(j) \in Lists /\ Len(EffectiveOf(j)) = D
      /\ \A i \in 1 .. Len(EffectiveOf(j)) : EffectiveOf(j)[i] /= <<>>
  BY EffectiveListsType, LiveMeans
<1>2. cfg.dims \in Lists
  BY EngineFacts
<1>3. \A s \in Lists : s /= <<>> => Len(s) /= 0
  BY DEF Lists
<1>4. cfg.dims /= <<>> => D /= 0
  BY <1>2, <1>3 DEF D
<1>5. EffectiveOf(j) = <<>> => D = 0
  BY <1>1
<1> QED
  BY <1>1, <1>4, <1>5

\* A rule is walked when its product is within what is left of the budget.
LEMMA FeasibleRule ==
  ASSUME IInv, pc = "budget", rule \in Live
  PROVE  Feasible(EffectiveLists(Rule(cfg, rule)), remaining) <=>
           Cardinality(Box(EffectiveOf(rule))) <= remaining
<1>1. BudgetHolds /\ Live = All \ TrulyDead
  BY BudgetFacts
<1>2. ValidEngine /\ cfg.dims /= <<>> /\ remaining \in Nat
  BY <1>1 DEF BudgetHolds
<1>3. /\ EffectiveOf(rule) \in Lists /\ EffectiveOf(rule) /= <<>>
      /\ \A i \in 1 .. Len(EffectiveOf(rule)) : EffectiveOf(rule)[i] /= <<>>
  BY <1>1, <1>2, LiveLists
<1>4. Feasible(EffectiveOf(rule), remaining) <=> Cardinality(Box(EffectiveOf(rule))) <= remaining
  BY <1>2, <1>3, FeasibleMeans
<1> QED
  BY <1>4 DEF EffectiveOf

\* A rule within the budget.
LEMMA BeginRuleKeeps ==
  ASSUME IInv, BeginRule
  PROVE  IInv'
<1> USE DEF BeginRule
<1>1. BudgetHolds /\ Live = All \ TrulyDead /\ rule \in Live
  BY BudgetFacts
<1>2. ValidEngine /\ StateType
  BY <1>1 DEF BudgetHolds
<1>3. /\ N' = N /\ All' = All /\ D' = D /\ limit' = limit /\ ValidEngine'
      /\ WarningType' = WarningType /\ TrulyDead' = TrulyDead
      /\ \A j : Wins(j)' <=> Wins(j)
      /\ \A t : search(t)' = search(t)
      /\ \A j : EffectiveOf(j)' = EffectiveOf(j)
      /\ \A kind, js : Warnings(kind, js)' = Warnings(kind, js)
  BY <1>2, Frame
<1>4. StateType' /\ WinsAreReal' /\ DeadKnown'
  BY <1>1, <1>2, <1>3 DEF StateType, BudgetHolds, WinsAreReal, DeadKnown
<1>5. Live' = Live
  BY <1>3 DEF Live
<1>6. BudgetOK'
  BY <1>1, <1>3, <1>5 DEF BudgetHolds, BudgetOK
<1>7. /\ EffectiveOf(rule) \in Lists /\ Len(EffectiveOf(rule)) = D
      /\ \A i \in 1 .. Len(EffectiveOf(rule)) : EffectiveOf(rule)[i] /= <<>>
  BY <1>1, <1>2, LiveLists
<1>8. DOMAIN EffectiveOf(rule) = DOMAIN cfg.dims
  BY <1>2, <1>7, BoxMeans, EngineFacts
<1>a. effective' = EffectiveOf(rule)
  <2>1. EffectiveOf(rule) /= <<>> /\ remaining \in Nat
    BY <1>1, <1>2, LiveLists DEF BudgetHolds
  <2>2. Feasible(EffectiveOf(rule), remaining)
    BY DEF EffectiveOf
  <2>3. \A i \in 1 .. Len(EffectiveOf(rule)) :
          Feasible(SubSeq(EffectiveOf(rule), 1, i - 1), remaining)
    BY <1>7, <2>1, <2>2, FeasibleSoFar
  <2>4. DOMAIN EffectiveOf(rule) = 1 .. Len(EffectiveOf(rule))
    BY <1>7 DEF Lists
  <2>5. effective' = [i \in DOMAIN cfg.dims |->
                       IF Feasible(SubSeq(EffectiveOf(rule), 1, i - 1), remaining)
                       THEN Effective(Rule(cfg, rule), i) ELSE effective[i]]
    BY DEF Refilled, EffectiveOf
  <2>6. effective' = [i \in DOMAIN cfg.dims |-> Effective(Rule(cfg, rule), i)]
    BY <1>8, <2>3, <2>4, <2>5
  <2>7. DOMAIN cfg.dims = 1 .. Len(cfg.dims)
    BY <1>2, EngineFacts DEF D
  <2> QED
    BY <2>6, <2>7 DEF EffectiveOf, EffectiveLists
<1>9. indices' = FirstIndices(EffectiveOf(rule))
  BY <1>a
<1>10. /\ indices' \in Box(EffectiveOf(rule))
       /\ Ahead(EffectiveOf(rule), indices') = Box(EffectiveOf(rule))
  BY <1>7, <1>9, OdometerStarts
<1>11. \A ix \in Box(EffectiveOf(rule)) : ~Before(ix, indices', D)
  BY <1>7, <1>10 DEF Ahead
<1>12. Cardinality(Box(EffectiveOf(rule))) <= remaining
  BY <1>1, FeasibleRule
<1>13. WalkOK'
  BY <1>1, <1>3, <1>5, <1>a, <1>10, <1>11, <1>12 DEF WalkOK
<1> QED
  BY <1>3, <1>4, <1>6, <1>13
  DEF IInv, NothingYet, StartOK, CartesianOK, DoneOK

\* One tuple of the rule.
LEMMA WalkTupleKeeps ==
  ASSUME IInv, WalkTuple
  PROVE  IInv'
<1> DEFINE lists == EffectiveOf(rule)
           t == TupleAt(lists, indices)
           won == search(t) = rule
<1>1. pc = "walk" /\ UNCHANGED <<cfg, configured, out, deadMask, liveRemaining, effective, unchecked>>
  BY DEF WalkTuple
<1>a. effective = lists
  BY <1>1 DEF IInv, WalkOK
<1>2. /\ remaining' = remaining - 1 /\ searches' = searches + 1
      /\ wins' = IF won THEN wins \cup {rule} ELSE wins
      /\ IF won \/ Exhausted(lists, indices)
         THEN checked' = checked \cup {rule} /\ rule' = rule + 1 /\ pc' = "budget"
         ELSE indices' = Advance(lists, indices) /\ checked' = checked /\ rule' = rule /\ pc' = pc
  BY <1>a DEF WalkTuple
<1>3. /\ BudgetHolds
      /\ N \in Nat /\ All = 0 .. N - 1 /\ limit \in Nat /\ searches \in Nat
      /\ rule \in 0 .. N /\ Live = All \ TrulyDead
  BY <1>1, BudgetFacts
<1>4. ValidEngine /\ StateType /\ remaining \in Nat /\ remaining = limit - searches
  BY <1>3 DEF BudgetHolds
<1>5. /\ rule \in Live /\ indices \in Box(lists)
      /\ \A ix \in Box(lists) : Before(ix, indices, D) => search(TupleAt(lists, ix)) /= rule
      /\ Cardinality(Ahead(lists, indices)) <= remaining
  BY <1>1 DEF IInv, WalkOK
<1>6. /\ N' = N /\ All' = All /\ D' = D /\ limit' = limit /\ ValidEngine'
      /\ WarningType' = WarningType /\ TrulyDead' = TrulyDead
      /\ \A j : Wins(j)' <=> Wins(j)
      /\ \A u : search(u)' = search(u)
      /\ \A j : EffectiveOf(j)' = EffectiveOf(j)
      /\ \A kind, js : Warnings(kind, js)' = Warnings(kind, js)
  BY <1>1, <1>4, Frame
<1>7. rule \in All /\ rule \notin TrulyDead /\ rule < N /\ Live \subseteq All
  BY <1>3, <1>5
<1>8. lists \in Lists /\ Len(lists) = D
  BY <1>4, <1>7, LiveLists
<1>9. ~isDeadRule(Rule(cfg, rule), cfg.dims)
  BY <1>4, <1>7, LiveMeans
<1> HIDE DEF lists
<1>10. Cardinality(Ahead(lists, indices)) \in Nat \ {0}
  BY <1>5, <1>8, AheadCounts
<1>11. remaining' \in Nat /\ remaining' = limit - searches' /\ searches' \in Nat
  BY <1>2, <1>3, <1>4, <1>5, <1>10
<1>12. won => Wins(rule)
  <2>1. t \in DeclaredTuples
    BY <1>4, <1>5, <1>7, <1>9, ProductOfRule DEF lists
  <2>2. IsFirst(Matching(cfg, t, FALSE), search(t))
    BY <1>4, SearchMeans
  <2> QED
    BY <2>1, <2>2 DEF Wins
<1>13. ~won /\ Exhausted(lists, indices) => ~Wins(rule)
  <2>1. SUFFICES ASSUME ~won, Exhausted(lists, indices), Wins(rule) PROVE FALSE
    OBVIOUS
  <2>2. PICK u \in DeclaredTuples : IsFirst(Matching(cfg, u, FALSE), rule)
    BY <2>1 DEF Wins
  <2>3. search(u) = rule
    BY <1>4, <2>2, FirstIsUnique
  <2>4. rule /= noMatch
    BY <1>3, <1>7 DEF noMatch
  <2>5. rule \in Matching(cfg, u, FALSE)
    BY <2>2, <2>4 DEF IsFirst
  <2>6. PICK ix \in Box(lists) : TupleAt(lists, ix) = u
    BY <1>4, <1>7, <1>9, <2>5, ProductOfRule DEF lists
  <2>7. Before(ix, indices, D) \/ ix = indices
    BY <1>5, <1>8, <2>1, <2>6, OdometerEnds
  <2> QED
    BY <1>5, <2>1, <2>3, <2>6, <2>7
<1> HIDE DEF won, t
<1>14. WinsAreReal' /\ wins' \subseteq All /\ wins \subseteq wins'
  <2>1. \A j \in wins : Wins(j)
    BY <1>3 DEF BudgetHolds
  <2>2. wins \subseteq All
    BY <1>4 DEF StateType
  <2>3. \A j \in wins' : Wins(j)
    BY <1>2, <1>12, <2>1
  <2> QED
    BY <1>2, <1>6, <1>7, <2>2, <2>3 DEF WinsAreReal
<1>15. Live' = Live
  BY <1>1, <1>6 DEF Live
<1>16. DeadKnown'
  BY <1>1, <1>3, <1>6 DEF DeadKnown, BudgetHolds
<1>17. checked \subseteq All /\ unchecked \subseteq All
  BY <1>4 DEF StateType
<1>18. /\ \A j \in checked \cup unchecked : j < rule
       /\ \A j \in Live : j < rule => j \in checked \cup unchecked
       /\ checked \cap unchecked = {} /\ unchecked \subseteq Live
       /\ \A j \in checked \ wins : ~Wins(j)
       /\ cfg.dims /= <<>>
       /\ (\A i \in 1 .. D : cfg.dims[i] /= <<>>) => Cardinality(Box(cfg.dims)) > limit
  BY <1>3 DEF BudgetHolds
<1>19. CASE won \/ Exhausted(lists, indices)
  <2>1. checked' = checked \cup {rule} /\ rule' = rule + 1 /\ pc' = "budget"
    BY <1>2, <1>19
  <2>2. rule' \in 0 .. N
    BY <1>3, <1>7, <2>1
  <2>3. StateType'
    BY <1>1, <1>4, <1>6, <1>7, <1>11, <1>14, <2>1, <2>2 DEF StateType
  <2>4. \A j \in All : j \in Int /\ (j < rule' <=> j < rule \/ j = rule)
    BY <1>3, <2>1
  <2>5. /\ \A j \in checked' \cup unchecked : j < rule'
        /\ \A j \in Live : j < rule' => j \in checked' \cup unchecked
    BY <1>7, <1>17, <1>18, <2>1, <2>4
  <2>6. checked' \cap unchecked = {}
    <3>1. ~ (rule < rule)
      BY <1>3
    <3> QED
      BY <1>18, <2>1, <3>1
  <2>7. \A j \in checked' \ wins' : ~Wins(j)
    <3>1. rule \in wins' \/ ~Wins(rule)
      BY <1>2, <1>13, <1>19
    <3> QED
      BY <1>14, <1>18, <2>1, <3>1
  <2>8. BudgetOK'
    BY <1>1, <1>6, <1>11, <1>15, <1>18, <2>5, <2>6, <2>7 DEF BudgetOK
  <2> QED
    BY <1>6, <1>14, <1>16, <2>1, <2>3, <2>8
    DEF IInv, NothingYet, StartOK, CartesianOK, WalkOK, DoneOK
<1>20. CASE ~won /\ ~Exhausted(lists, indices)
  <2>1. /\ indices' = Advance(lists, indices) /\ checked' = checked /\ rule' = rule
        /\ pc' = pc /\ wins' = wins
    BY <1>2, <1>20
  <2>2. StateType'
    BY <1>1, <1>4, <1>6, <1>11, <2>1 DEF StateType
  <2>3. lists' = lists
    BY <1>6, <2>1 DEF lists
  <2>4. /\ indices' \in Box(lists)
        /\ \A ix \in Box(lists) :
             Before(ix, indices', D) <=> Before(ix, indices, D) \/ ix = indices
    BY <1>5, <1>8, <1>20, <2>1, OdometerTurns
  <2>5. Cardinality(Ahead(lists, indices')) = Cardinality(Ahead(lists, indices)) - 1
    BY <1>5, <1>8, <1>20, <2>1, AheadCounts
  <2>6. Cardinality(Ahead(lists, indices')) <= remaining'
    BY <1>2, <1>4, <1>5, <1>10, <2>5
  <2>7. \A ix \in Box(lists) : Before(ix, indices', D) => search(TupleAt(lists, ix)) /= rule
    BY <1>5, <1>20, <2>4 DEF won, t
  <2>8. WalkOK'
    BY <1>1, <1>5, <1>6, <1>a, <1>15, <2>1, <2>3, <2>4, <2>6, <2>7 DEF WalkOK, lists
  <2>9. BudgetOK'
    BY <1>1, <1>6, <1>11, <1>15, <1>18, <2>1 DEF BudgetOK
  <2> QED
    BY <1>1, <1>6, <1>14, <1>16, <2>1, <2>2, <2>8, <2>9
    DEF IInv, NothingYet, StartOK, CartesianOK, DoneOK
<1> QED
  BY <1>19, <1>20

\* The verdicts after the last rule.
LEMMA ReportBudgetedKeeps ==
  ASSUME IInv, ReportBudgeted
  PROVE  IInv'
<1> USE DEF ReportBudgeted
<1>1. /\ BudgetHolds
      /\ N \in Nat /\ All = 0 .. N - 1 /\ limit \in Nat /\ searches \in Nat
      /\ rule = N /\ Live = All \ TrulyDead
  BY BudgetFacts
<1>2. ValidEngine /\ StateType /\ out \in Seq(WarningType)
  BY <1>1 DEF BudgetHolds, StateType
<1>3. /\ N' = N /\ All' = All /\ limit' = limit /\ ValidEngine'
      /\ WarningType' = WarningType
      /\ TrulyDead' = TrulyDead /\ TrulyShadowed' = TrulyShadowed
      /\ \A kind, js : Warnings(kind, js)' = Warnings(kind, js)
  BY <1>2, Frame
<1>4. (Live \cap checked) \ wins = TrulyShadowed \ unchecked
  <2>1. \A j \in Live : j \in checked \cup unchecked
    <3>1. \A j \in Live : j < rule
      BY <1>1
    <3> QED
      BY <1>1, <3>1 DEF BudgetHolds
  <2>2. /\ checked \cap unchecked = {}
        /\ \A j \in checked \ wins : ~Wins(j)
        /\ \A j \in wins : Wins(j)
    BY <1>1 DEF BudgetHolds
  <2> QED
    BY <1>1, <2>1, <2>2, ShadowedMeans
<1>5. out' = out \o Warnings("shadowed", TrulyShadowed \ unchecked)
                 \o Warnings("unchecked", unchecked)
  BY <1>4
<1>6. out' \in Seq(WarningType)
  <2> DEFINE shadowed == Warnings("shadowed", TrulyShadowed \ unchecked)
             skipped == Warnings("unchecked", unchecked)
  <2>1. shadowed \in Seq(WarningType) /\ skipped \in Seq(WarningType)
    BY <1>1, WarningsType
  <2>2. out' = (out \o shadowed) \o skipped
    BY <1>5
  <2> HIDE DEF shadowed, skipped
  <2>3. out \o shadowed \in Seq(WarningType)
    BY <1>2, <2>1, ConcatType
  <2> QED
    BY <2>1, <2>2, <2>3, ConcatType
<1>7. StateType'
  BY <1>2, <1>3, <1>6 DEF StateType
<1>8. WinsAreReal'
  <2>1. \A j \in wins : Wins(j)
    BY <1>1 DEF BudgetHolds
  <2>2. \A j : Wins(j)' <=> Wins(j)
    BY <1>2, Frame
  <2> QED
    BY <2>1, <2>2 DEF WinsAreReal
<1>9. DoneOK'
  <2>1. searches <= limit
    BY <1>1 DEF BudgetHolds
  <2>2. unchecked \cap TrulyDead = {}
    BY <1>1 DEF BudgetHolds
  <2>3. unchecked /= {} => Cardinality(Box(cfg.dims)) > limit
    <3>1. SUFFICES ASSUME NEW j \in unchecked PROVE Cardinality(Box(cfg.dims)) > limit
      OBVIOUS
    <3>2. j \in All /\ j \notin TrulyDead
      BY <1>1, <3>1 DEF BudgetHolds
    <3>3. \A i \in 1 .. D : cfg.dims[i] /= <<>>
      BY <1>2, <3>2, LiveMeans
    <3> QED
      BY <1>1, <3>3 DEF BudgetHolds
  <2>4. out = Warnings("dead", TrulyDead)
    BY <1>1 DEF BudgetHolds
  <2> QED
    BY <1>3, <1>5, <2>1, <2>2, <2>3, <2>4 DEF DoneOK
<1> QED
  BY <1>3, <1>7, <1>8, <1>9
  DEF IInv, NothingYet, StartOK, DeadKnown, CartesianOK, BudgetOK, WalkOK

\* A step that changes nothing.
LEMMA StutterKeeps ==
  ASSUME IInv, UNCHANGED vars
  PROVE  IInv'
<1> USE DEF vars
<1>1. ValidEngine
  BY DEF IInv
<1>2. /\ N' = N /\ All' = All /\ D' = D /\ limit' = limit /\ ValidEngine'
      /\ WarningType' = WarningType
      /\ TrulyDead' = TrulyDead /\ TrulyShadowed' = TrulyShadowed
      /\ \A j : Wins(j)' <=> Wins(j)
      /\ \A t : search(t)' = search(t)
      /\ \A j : EffectiveOf(j)' = EffectiveOf(j)
      /\ \A kind, js : Warnings(kind, js)' = Warnings(kind, js)
  BY <1>1, Frame
<1>3. Live' = Live
  BY <1>2 DEF Live
<1>4. StateType' /\ NothingYet' /\ StartOK' /\ DeadKnown' /\ WinsAreReal'
  BY <1>2 DEF IInv, StateType, NothingYet, StartOK, DeadKnown, WinsAreReal
<1>5. CartesianOK'
  BY <1>2, <1>3 DEF IInv, CartesianOK
<1>6. BudgetOK'
  BY <1>2, <1>3 DEF IInv, BudgetOK
<1>7. WalkOK'
  BY <1>2, <1>3 DEF IInv, WalkOK
<1>8. DoneOK'
  BY <1>2 DEF IInv, DoneOK
<1> QED
  BY <1>2, <1>4, <1>5, <1>6, <1>7, <1>8 DEF IInv

\* Every step keeps the invariant.
LEMMA Steps == IInv /\ [Next]_vars => IInv'
<1> SUFFICES ASSUME IInv, [Next]_vars PROVE IInv'
  OBVIOUS
<1>1. CASE FindDead
  BY <1>1, FindDeadKeeps
<1>2. CASE ChooseCartesian
  BY <1>2, ChooseCartesianKeeps
<1>3. CASE ChooseBudgeted
  BY <1>3, ChooseBudgetedKeeps
<1>4. CASE ScanTuple
  BY <1>4, ScanTupleKeeps
<1>5. CASE PassRule
  BY <1>5, PassRuleKeeps
<1>6. CASE BeginRule
  BY <1>6, BeginRuleKeeps
<1>7. CASE WalkTuple
  BY <1>7, WalkTupleKeeps
<1>8. CASE ReportBudgeted
  BY <1>8, ReportBudgetedKeeps
<1>9. CASE UNCHANGED vars
  BY <1>9, StutterKeeps
<1> QED
  BY <1>1, <1>2, <1>3, <1>4, <1>5, <1>6, <1>7, <1>8, <1>9 DEF Next

\* What the analysis of New knows, at every step of it.
THEOREM InvariantHolds == Spec => []IInv
<1>1. Init => IInv
  BY Starts
<1>2. IInv /\ [Next]_vars => IInv'
  BY Steps
<1> QED
  BY <1>1, <1>2, PTL DEF Spec

-----------------------------------------------------------------------------
(***************************************************************************)
(* The properties.  The state has its types; the odometer always stands on *)
(* a tuple of its product, so no search reads behind a list of values.     *)
(***************************************************************************)
THEOREM TypeCorrect == Spec => []TypeOK
<1>1. ASSUME IInv PROVE TypeOK
  <2>1. ValidEngine /\ StateType /\ DOMAIN cfg.dims = 1 .. D /\ cfg.dims \in Lists
    BY <1>1, EngineFacts DEF IInv
  <2>2. ASSUME pc = "cartesian", NEW i \in 1 .. D
        PROVE  indices[i] \in 0 .. Len(cfg.dims[i]) - 1
    <3>1. indices \in Box(cfg.dims)
      BY <1>1, <2>2 DEF IInv, CartesianOK
    <3>2. indices[i] \in Nat /\ indices[i] < Len(cfg.dims[i]) /\ Len(cfg.dims[i]) \in Nat
      BY <2>1, <3>1, BoxMeans DEF D
    <3> QED
      BY <3>2
  <2>3. ASSUME pc = "walk", NEW i \in 1 .. D
        PROVE  indices[i] \in 0 .. Len(effective[i]) - 1
    <3>1. rule \in All /\ effective = EffectiveOf(rule) /\ indices \in Box(EffectiveOf(rule))
      BY <1>1, <2>3 DEF IInv, WalkOK, Live
    <3>2. /\ EffectiveOf(rule) \in Lists /\ Len(EffectiveOf(rule)) = D
      BY <2>1, <3>1, EffectiveListsType
    <3>3. /\ indices[i] \in Nat /\ indices[i] < Len(EffectiveOf(rule)[i])
          /\ Len(EffectiveOf(rule)[i]) \in Nat
      BY <3>1, <3>2, BoxMeans
    <3> QED
      BY <3>1, <3>3
  <2> QED
    BY <2>1, <2>2, <2>3 DEF TypeOK, StateType, WarningType, ValidEngine
<1> QED
  BY <1>1, InvariantHolds, PTL

(***************************************************************************)
(* The warnings are right and complete, for any engine and any limit       *)
(* (conflict.go, gorege.go:buildWarnings).                                 *)
(***************************************************************************)
THEOREM VerdictsRight == Spec => []VerdictsAreRight
<1>1. ASSUME IInv PROVE VerdictsAreRight
  <2>1. cfg.dims \in Lists
    BY <1>1, EngineFacts DEF IInv
  <2>2. Sized(cfg.dims) = Cardinality(Box(cfg.dims))
    BY <2>1, SizedMeans
  <2> QED
    BY <1>1, <2>2 DEF IInv, DoneOK, VerdictsAreRight
<1> QED
  BY <1>1, InvariantHolds, PTL

(***************************************************************************)
(* The tuple budget is global: no analysis searches more tuples than the   *)
(* limit, and the budget left is what was not searched.                    *)
(***************************************************************************)
THEOREM BudgetKept == Spec => []BudgetIsGlobal
<1>1. ASSUME IInv PROVE BudgetIsGlobal
  <2>1. ValidEngine /\ StateType
    BY <1>1 DEF IInv
  <2>2. searches \in Nat /\ configured \in Limits
        /\ pc \in {"start", "count", "cartesian", "budget", "walk", "done"}
    BY <2>1 DEF StateType
  <2>3. configured >= 0 => limit \in Nat
    BY <2>2, LimitFacts
  <2>4. CASE pc \in {"start", "count"}
    <3>1. searches = 0
      BY <1>1, <2>4 DEF IInv, NothingYet
    <3> QED
      BY <2>3, <2>4, <3>1 DEF BudgetIsGlobal
  <2>5. CASE pc = "cartesian"
    <3>1. /\ searches + Cardinality(Ahead(cfg.dims, indices)) <= limit
          /\ indices \in Box(cfg.dims)
      BY <1>1, <2>5 DEF IInv, CartesianOK
    <3>2. cfg.dims \in Lists
      BY <2>1, EngineFacts
    <3>3. Cardinality(Ahead(cfg.dims, indices)) \in Nat \ {0}
      BY <3>1, <3>2, AheadCounts
    <3> QED
      BY <2>2, <2>3, <2>5, <3>1, <3>3 DEF BudgetIsGlobal
  <2>6. CASE pc \in {"budget", "walk"}
    <3>1. remaining \in Nat /\ remaining = limit - searches /\ limit \in Nat
      BY <1>1, <2>6, BudgetFacts DEF BudgetHolds
    <3> QED
      BY <2>2, <3>1 DEF BudgetIsGlobal
  <2>7. CASE pc = "done"
    BY <1>1, <2>7 DEF IInv, DoneOK, BudgetIsGlobal
  <2> QED
    BY <2>2, <2>4, <2>5, <2>6, <2>7
<1> QED
  BY <1>1, InvariantHolds, PTL

\* The counter that ends the cartesian scan counts the live rules that have not won.
THEOREM CounterRight == Spec => []CounterCountsLosers
<1>1. IInv => CounterCountsLosers
  BY DEF IInv, CartesianOK, CounterCountsLosers
<1> QED
  BY <1>1, InvariantHolds, PTL

(***************************************************************************)
(* No dimension of a live rule is empty, so multiplyWithinBudget never     *)
(* divides by zero.                                                        *)
(***************************************************************************)
THEOREM DivisorsPositive == Spec => []DivisorsArePositive
<1>1. ASSUME IInv PROVE DivisorsArePositive
  <2>1. SUFFICES ASSUME pc = "budget", rule \in Live, NEW i \in DOMAIN cfg.dims
                 PROVE  Effective(Rule(cfg, rule), i) /= <<>>
    BY DEF DivisorsArePositive
  <2>2. ValidEngine /\ Live = All \ TrulyDead
    BY <1>1, <2>1, BudgetFacts DEF BudgetHolds
  <2>3. i \in 1 .. D /\ rule \in All /\ rule \notin TrulyDead
    BY <2>1, <2>2, EngineFacts
  <2>4. /\ Len(EffectiveOf(rule)) = D
        /\ EffectiveOf(rule)[i] = Effective(Rule(cfg, rule), i)
    BY <2>2, <2>3, EffectiveListsType
  <2> QED
    BY <2>2, <2>3, <2>4, LiveMeans
<1> QED
  BY <1>1, InvariantHolds, PTL

(***************************************************************************)
(* A rule is skipped exactly when its product is over what is left of the  *)
(* budget, and skipping it takes nothing from the budget.                  *)
(***************************************************************************)
THEOREM SkipsRight == Spec => OnlyOverBudgetIsSkipped
<1>1. ASSUME IInv, [Next]_vars PROVE [SkipsOverBudget]_vars
  <2>1. SUFFICES ASSUME Next, pc = "budget", rule \in Live PROVE SkipsOverBudget
    BY <1>1 DEF SkipsOverBudget
  <2> DEFINE lists == EffectiveLists(Rule(cfg, rule))
             over == Sized(lists) > remaining
  <2>2. /\ ValidEngine /\ remaining \in Nat /\ rule \in All /\ rule \notin TrulyDead
        /\ rule < N /\ rule \notin deadMask
    <3>1. /\ BudgetHolds /\ N \in Nat /\ All = 0 .. N - 1 /\ Live = All \ TrulyDead
      BY <1>1, <2>1, BudgetFacts
    <3>2. rule \in All /\ rule \notin TrulyDead
      BY <2>1, <3>1
    <3>3. rule < N
      BY <3>1, <3>2
    <3> QED
      BY <2>1, <3>1, <3>2, <3>3 DEF BudgetHolds, Live
  <2>3. over <=> ~Feasible(lists, remaining)
    <3>1. EffectiveOf(rule) \in Lists
      BY <2>2, EffectiveListsType
    <3>2. Sized(lists) = Cardinality(Box(EffectiveOf(rule)))
      BY <3>1, SizedMeans DEF EffectiveOf
    <3>3. Len(EffectiveOf(rule)) \in 0 .. Len(EffectiveOf(rule))
      BY <3>1, BoxMeans
    <3>4. Cardinality(Box(EffectiveOf(rule))) \in Nat
      BY <3>1, <3>3, BoxFinite DEF Box
    <3>5. Feasible(lists, remaining) <=> Cardinality(Box(EffectiveOf(rule))) <= remaining
      BY <1>1, <2>1, FeasibleRule
    <3> HIDE DEF lists
    <3> QED
      BY <2>2, <3>2, <3>4, <3>5
  <2>4. CASE PassRule
    <3>1. /\ ~Feasible(lists, remaining) /\ unchecked' = unchecked \cup {rule}
          /\ pc' = "budget" /\ remaining' = remaining
      BY <2>1, <2>2, <2>4 DEF PassRule
    <3>2. over
      BY <2>3, <3>1
    <3> HIDE DEF over
    <3> QED
      BY <3>1, <3>2 DEF SkipsOverBudget, over
  <2>5. CASE BeginRule
    <3>1. /\ Feasible(lists, remaining) /\ unchecked' = unchecked
          /\ pc' = "walk" /\ remaining' = remaining
      BY <2>5 DEF BeginRule
    <3>2. ~over
      BY <2>3, <3>1
    <3> HIDE DEF over
    <3> QED
      BY <3>1, <3>2 DEF SkipsOverBudget, over
  <2>6. ~ReportBudgeted
    <3>1. N \in Nat
      BY <2>2, EngineFacts
    <3> QED
      BY <2>2, <3>1 DEF ReportBudgeted
  <2> QED
    BY <2>1, <2>4, <2>5, <2>6
    DEF Next, FindDead, ChooseCartesian, ChooseBudgeted, ScanTuple, WalkTuple
<1> QED
  BY <1>1, InvariantHolds, PTL DEF Spec, OnlyOverBudgetIsSkipped
=============================================================================
