---------------------------- MODULE RuleTrieProofs ----------------------------
(***************************************************************************)
(* Proofs about RuleTrie: the trie holds the first rule of every node, the *)
(* search of Check finds the first matching rule whatever it prunes, and   *)
(* so RuleTrie implements Engine, for every configuration New can get.     *)
(***************************************************************************)
EXTENDS RuleTrie, SequenceTheorems, TLAPS

-----------------------------------------------------------------------------
(***************************************************************************)
(* Paths: a step down appends a key, the end of a frame drops the last.    *)
(***************************************************************************)
LEMMA FrontFacts ==
  ASSUME NEW S, NEW p \in Seq(S), p /= <<>>
  PROVE  /\ SubSeq(p, 1, Len(p) - 1) \in Seq(S)
         /\ Len(SubSeq(p, 1, Len(p) - 1)) = Len(p) - 1
         /\ \A i \in 1 .. Len(p) - 1 : SubSeq(p, 1, Len(p) - 1)[i] = p[i]
         /\ Len(p) \in Nat \ {0}
<1>1. Len(p) \in Nat \ {0}
  BY EmptySeq
<1> DEFINE n == Len(p) - 1
           q == SubSeq(p, 1, n)
<1>2. n \in 0 .. Len(p)
  BY <1>1
<1>3. q = Restrict(p, 1 .. n)
  BY <1>2, SubSeqRestrict
<1>4. q = [i \in 1 .. n |-> p[i]]
  BY <1>3 DEF Restrict
<1>5. \A i \in 1 .. n : p[i] \in S
  BY <1>1
<1>6. n \in Nat
  BY <1>1
<1> HIDE DEF n, q
<1>7. q \in Seq(S) /\ Len(q) = n /\ \A i \in 1 .. n : q[i] = p[i]
  BY <1>4, <1>5, <1>6
<1> QED
  BY <1>1, <1>7 DEF n, q

\* Appending a key leaves the path before it.
LEMMA AppendFacts ==
  ASSUME NEW S, NEW p \in Seq(S), NEW e \in S
  PROVE  /\ Append(p, e) \in Seq(S)
         /\ Append(p, e) /= <<>>
         /\ Len(Append(p, e)) = Len(p) + 1
         /\ \A i \in 1 .. Len(p) : Append(p, e)[i] = p[i]
         /\ Append(p, e)[Len(p) + 1] = e
BY AppendProperties

-----------------------------------------------------------------------------
\* The parts of a configuration have the types the steps below rely on.
LEMMA RuleTypes ==
  ASSUME cfg \in Config
  PROVE  /\ N \in Nat
         /\ D \in Nat
         /\ RuleIndexes(cfg) = 0 .. N - 1
         /\ \A j \in RuleIndexes(cfg) : Rule(cfg, j) \in RuleType
         /\ \A i \in 1 .. D : cfg.dims[i] \in Seq(Value)
BY DEF Config, N, D, RuleIndexes, Rule

\* The nodes insert visits for a rule are the nodes the rule goes through.
LEMMA VisitedIffReaches ==
  ASSUME cfg \in Config, NEW j \in RuleIndexes(cfg), NEW p
  PROVE  p \in Visited(Rule(cfg, j)) <=> p \in Seq(Key) /\ Reaches(j, p)
<1>1. D \in Nat
  BY RuleTypes
<1>2. ASSUME p \in Visited(Rule(cfg, j))
      PROVE  p \in Seq(Key) /\ Reaches(j, p)
  BY <1>1, <1>2 DEF Visited, Reaches
<1>3. ASSUME p \in Seq(Key), Reaches(j, p)
      PROVE  p \in Visited(Rule(cfg, j))
  <2>1. Len(p) \in 0 .. D
    BY <1>1, <1>3 DEF Reaches
  <2>2. p \in [1 .. Len(p) -> Key]
    BY <1>3
  <2> QED
    BY <1>3, <2>1, <2>2 DEF Visited, Reaches
<1> QED
  BY <1>2, <1>3

(***************************************************************************)
(* The first of two sets of rules is the earlier of their firsts: what     *)
(* search does with the results of its two children.                       *)
(***************************************************************************)
LEMMA MergeIsFirst ==
  ASSUME NEW S \in SUBSET Nat, NEW T \in SUBSET Nat, NEW b, NEW res,
         IsFirst(S, b), IsFirst(T, res)
  PROVE  IsFirst(S \cup T, merge(b, res))
<1>1. /\ (S = {} /\ b = -1) \/ (b \in S /\ b \in Nat /\ \A y \in S : b <= y)
      /\ (T = {} /\ res = -1) \/ (res \in T /\ res \in Nat /\ \A y \in T : res <= y)
  BY DEF IsFirst, noMatch
<1>2. \A y \in S \cup T : y \in Nat
  OBVIOUS
<1>3. CASE T = {} /\ res = -1
  <2>1. S \cup T = S /\ merge(b, res) = b
    BY <1>3 DEF merge, noMatch
  <2> QED
    BY <2>1
<1>4. CASE S = {} /\ b = -1 /\ T /= {}
  <2>1. S \cup T = T /\ merge(b, res) = res
    BY <1>1, <1>4 DEF merge, noMatch
  <2> QED
    BY <2>1
<1>5. CASE S /= {} /\ T /= {}
  <2>1. b \in S /\ b \in Nat /\ \A y \in S : b <= y
    BY <1>1, <1>5, Zenon
  <2>2. res \in T /\ res \in Nat /\ \A y \in T : res <= y
    BY <1>1, <1>5, Zenon
  <2>3. CASE res < b
    <3>1. merge(b, res) = res
      BY <2>2, <2>3 DEF merge, noMatch
    <3>2. \A y \in S \cup T : res <= y
      BY <1>2, <2>1, <2>2, <2>3
    <3> QED
      BY <2>2, <3>1, <3>2 DEF IsFirst
  <2>4. CASE ~(res < b)
    <3>1. merge(b, res) = b
      BY <2>1, <2>2, <2>4 DEF merge, noMatch
    <3>2. \A y \in S \cup T : b <= y
      BY <1>2, <2>1, <2>2, <2>4
    <3> QED
      BY <2>1, <3>1, <3>2 DEF IsFirst
  <2> QED
    BY <2>3, <2>4
<1> QED
  BY <1>1, <1>3, <1>4, <1>5

-----------------------------------------------------------------------------
(***************************************************************************)
(* The inductive invariant is the conjunction of the three invariants of   *)
(* RuleTrie.  None is inductive alone: a frame ends in a node the trie     *)
(* must hold, and a branch is cut by a minRuleIdx that must be the least.  *)
(***************************************************************************)
IInv == TypeOK /\ TrieHoldsFirstRules /\ SearchIsExact

\* The invariant holds before New.
LEMMA InitInv == Init => IInv
<1> SUFFICES ASSUME Init PROVE IInv
  OBVIOUS
<1>1. cfg \in Config
  BY ConfigsAssumption DEF Init
<1>2. N \in Nat
  BY <1>1, RuleTypes
<1>3. DOMAIN trie = {}
  BY DEF Init
<1>4. TypeOK
  BY <1>1, <1>2, <1>3 DEF Init, TypeOK, PcSet, OpenFrames, Searching, noMatch
<1>5. TrieHoldsFirstRules
  BY <1>3 DEF Init, TrieHoldsFirstRules
<1>6. SearchIsExact
  BY DEF Init, SearchIsExact, Searching
<1> QED
  BY <1>4, <1>5, <1>6 DEF IInv

\* Validation keeps it: it only moves control or answers.
LEMMA ValidateInv == IInv /\ Validate => IInv'
<1> SUFFICES ASSUME IInv, Validate PROVE IInv'
  OBVIOUS
<1> USE DEF IInv
<1>1. N \in Nat /\ next = 0 /\ D \in Nat
  BY RuleTypes DEF TypeOK, Validate
<1>2. TypeOK'
  BY <1>1 DEF TypeOK, Validate, PcSet, OpenFrames, Searching, newVars, searchVars, N, D, Key
<1>3. TrieHoldsFirstRules'
  BY DEF TrieHoldsFirstRules, Reaches, Visited, Validate, newVars, D, Key
<1>4. SearchIsExact'
  BY DEF SearchIsExact, Searching, OpenFrames, Validate
<1> QED
  BY <1>2, <1>3, <1>4

(***************************************************************************)
(* Inserting a rule keeps every node the first of the rules through it.    *)
(***************************************************************************)
LEMMA InsertRuleInv == IInv /\ InsertRule => IInv'
<1> SUFFICES ASSUME IInv, InsertRule PROVE IInv'
  OBVIOUS
<1> USE DEF IInv
<1>1. /\ N \in Nat
      /\ D \in Nat
      /\ next \in Nat
      /\ next < N
      /\ next \in RuleIndexes(cfg)
      /\ RuleIndexes(cfg) = 0 .. N - 1
      /\ cfg \in Config
  BY RuleTypes DEF TypeOK, InsertRule
<1>2. /\ cfg' = cfg
      /\ next' = next + 1
      /\ D' = D
      /\ N' = N
      /\ RuleIndexes(cfg)' = RuleIndexes(cfg)
  BY DEF InsertRule, D, N
<1> DEFINE visited == Visited(Rule(cfg, next))
<1>3. \A p : p \in visited <=> p \in Seq(Key) /\ Reaches(next, p)
  BY <1>1, VisitedIffReaches
<1>4. \A p \in DOMAIN trie : trie[p] \in 0 .. next - 1 /\ Reaches(trie[p], p) /\ Len(p) <= D
  BY <1>1 DEF TypeOK, TrieHoldsFirstRules
<1> HIDE DEF visited
\* An existing node keeps its rule, which is earlier; a new one gets this rule.
<1>5. /\ DOMAIN trie' = DOMAIN trie \cup visited
      /\ \A p \in DOMAIN trie : trie'[p] = trie[p]
      /\ \A p \in visited \ DOMAIN trie : trie'[p] = next
  <2>1. trie' = [p \in DOMAIN trie \cup visited |->
                   IF p \in DOMAIN trie /\ trie[p] /= noMatch /\ (p \in visited => trie[p] <= next)
                   THEN trie[p]
                   ELSE next]
    BY DEF InsertRule, insert, visited
  <2>2. \A p \in DOMAIN trie : trie[p] /= noMatch /\ trie[p] <= next
    BY <1>1, <1>4 DEF noMatch
  <2> QED
    BY <2>1, <2>2, Zenon
<1>6. TypeOK'
  <2>1. /\ DOMAIN trie' \subseteq Seq(Key)
        /\ \A p \in DOMAIN trie' : trie'[p] \in RuleIndexes(cfg)
    BY <1>1, <1>3, <1>5, Zenon DEF TypeOK
  <2>2. /\ next' \in 0 .. N
        /\ pc' \in {"build", "idle"}
        /\ pc' = "build" => next' < N
        /\ pc' = "idle" => next' = N
    BY <1>1, <1>2 DEF InsertRule
  <2>3. pc = "build" /\ path = <<>> /\ validateEngine(cfg) = "nil"
    BY DEF InsertRule, TypeOK, Searching
  <2> QED
    BY <1>2, <2>1, <2>2, <2>3
       DEF TypeOK, PcSet, OpenFrames, Searching, InsertRule, searchVars, Key
<1>7. TrieHoldsFirstRules'
  <2>1. ASSUME NEW p \in DOMAIN trie'
        PROVE  Len(p) <= D /\ trie'[p] < next + 1 /\ Reaches(trie'[p], p)
    BY <1>1, <1>3, <1>4, <1>5 DEF Reaches
  <2>2. ASSUME NEW j \in 0 .. next, NEW p \in Visited(Rule(cfg, j))
        PROVE  p \in DOMAIN trie' /\ trie'[p] <= j
    <3>1. CASE j = next
      BY <1>1, <1>4, <1>5, <2>2, <3>1 DEF visited
    <3>2. CASE j \in 0 .. next - 1
      <4>1. p \in DOMAIN trie /\ trie[p] <= j
        BY <2>2, <3>2 DEF TrieHoldsFirstRules
      <4> QED
        BY <4>1, <1>5
    <3> QED
      BY <1>1, <3>1, <3>2
  <2>3. \A j, p : Reaches(j, p)' = Reaches(j, p)
    BY <1>2 DEF Reaches
  <2>4. \A j : Visited(Rule(cfg, j))' = Visited(Rule(cfg, j))
    BY <1>2 DEF Visited, Key
  <2>5. next' - 1 = next
    BY <1>1, <1>2
  <2> QED
    BY <1>2, <2>1, <2>2, <2>3, <2>4, <2>5 DEF TrieHoldsFirstRules
<1>8. SearchIsExact'
  BY DEF SearchIsExact, Searching, InsertRule
<1> QED
  BY <1>6, <1>7, <1>8

-----------------------------------------------------------------------------
(***************************************************************************)
(* The trie is read-only once it is built.                                 *)
(***************************************************************************)
LEMMA TrieUnchanged ==
  ASSUME TrieHoldsFirstRules, UNCHANGED newVars
  PROVE  TrieHoldsFirstRules'
BY DEF TrieHoldsFirstRules, Reaches, Visited, newVars, D, Key

\* The start of a Check keeps it: no frame is open yet.
LEMMA CheckInv == \A q : IInv /\ q \in Abs!Inputs /\ Check(q) => IInv'
<1> SUFFICES ASSUME NEW q, IInv, q \in Abs!Inputs, Check(q) PROVE IInv'
  OBVIOUS
<1> USE DEF IInv
<1>1. /\ cfg \in Config
      /\ D \in Nat
      /\ N \in Nat
      /\ UNCHANGED newVars
      /\ D' = D /\ N' = N
      /\ pc = "idle" /\ path = <<>>
  BY RuleTypes DEF TypeOK, Check, Idle, Searching, newVars, D, N
<1>2. TrieHoldsFirstRules'
  BY <1>1, TrieUnchanged
<1>3. q \in Seq(Value)
  BY <1>1 DEF Abs!Inputs, Abs!Tuples, D
<1>4. CASE pc' = pc
  <2>1. UNCHANGED searchVars
    BY <1>1, <1>4 DEF Check
  <2>2. TypeOK'
    BY <1>1, <1>4, <2>1 DEF TypeOK, PcSet, OpenFrames, Searching, newVars, searchVars, D, N, Key
  <2>3. SearchIsExact'
    BY <1>1, <1>4 DEF SearchIsExact, Searching, OpenFrames
  <2> QED
    BY <1>2, <2>2, <2>3
<1>5. CASE pc' = "enter"
  <2>1. /\ N > 0
        /\ Len(q) = D
        /\ values' = q
        /\ path' = <<>>
        /\ best' = <<>>
        /\ ret' = ret
        /\ last' = Abs!NoCall
    BY <1>1, <1>5 DEF Check, Idle
  \* Rule 0 goes through the root.
  <2>2. <<>> \in DOMAIN trie
    <3>1. next = N /\ 0 \in 0 .. next - 1 /\ 0 \in RuleIndexes(cfg)
      BY <1>1, <2>1, RuleTypes DEF TypeOK
    <3>2. <<>> \in Seq(Key) /\ Reaches(0, <<>>)
      BY <1>1 DEF Reaches
    <3>3. <<>> \in Visited(Rule(cfg, 0))
      BY <1>1, <3>1, <3>2, VisitedIffReaches
    <3> QED
      BY <3>1, <3>3 DEF TrieHoldsFirstRules
  <2>3. TypeOK'
    BY <1>1, <1>3, <1>5, <2>1, <2>2
       DEF TypeOK, PcSet, OpenFrames, Searching, newVars, D, N, Key, Abs!NoCall
  <2>4. SearchIsExact'
    BY <1>5, <2>1 DEF SearchIsExact, Searching, OpenFrames
  <2> QED
    BY <1>2, <2>3, <2>4
<1> QED
  BY <1>1, <1>4, <1>5 DEF Check

\* Taking the answer keeps it.
LEMMA ReturnInv == IInv /\ Return => IInv'
<1> SUFFICES ASSUME IInv, Return PROVE IInv'
  OBVIOUS
<1> USE DEF IInv
<1>1. UNCHANGED <<pc, newVars, searchVars>> /\ ~Searching
  BY DEF Return, TypeOK
<1>2. TypeOK'
  BY <1>1 DEF TypeOK, PcSet, OpenFrames, Searching, newVars, searchVars, D, N, Key
<1>3. TrieHoldsFirstRules'
  BY <1>1, TrieUnchanged
<1>4. SearchIsExact'
  BY <1>1 DEF SearchIsExact, Searching, OpenFrames
<1> QED
  BY <1>2, <1>3, <1>4

-----------------------------------------------------------------------------
(***************************************************************************)
(* What every search step leaves alone, and the types it can rely on.      *)
(***************************************************************************)
LEMMA SearchFacts ==
  ASSUME IInv, Searching, UNCHANGED <<newVars, values>>
  PROVE  /\ cfg \in Config
         /\ N \in Nat /\ D \in Nat
         /\ RuleIndexes(cfg) = 0 .. N - 1
         /\ D' = D /\ N' = N /\ RuleIndexes(cfg)' = RuleIndexes(cfg)
         /\ next = N
         /\ values \in Seq(Value) /\ Len(values) = D
         /\ \A i \in 1 .. D : values[i] \in Value /\ values[i] \in Key /\ values[i] /= Wild
         /\ Wild \in Key
         /\ path \in Seq(Key) /\ Len(path) \in 0 .. D /\ path \in DOMAIN trie
         /\ best \in Seq(RuleIndexes(cfg) \cup {noMatch})
         /\ Len(best) = OpenFrames
         /\ TrieHoldsFirstRules'
<1> USE DEF IInv
<1>1. cfg \in Config /\ UNCHANGED newVars /\ cfg' = cfg
  BY DEF TypeOK, newVars
<1>2. D \in Nat /\ N \in Nat /\ RuleIndexes(cfg) = 0 .. N - 1
  BY <1>1, RuleTypes
<1>3. D' = D /\ N' = N /\ RuleIndexes(cfg)' = RuleIndexes(cfg)
  BY <1>1 DEF D, N
<1>4. /\ values \in Seq(Value) /\ Len(values) = D
      /\ path \in Seq(Key) /\ path \in DOMAIN trie
      /\ best \in Seq(RuleIndexes(cfg) \cup {noMatch})
      /\ Len(best) = OpenFrames /\ OpenFrames <= D
      /\ next = N
  BY DEF TypeOK, Searching
<1>5. Len(path) \in 0 .. D
  BY <1>2, <1>4 DEF OpenFrames
<1>6. \A i \in 1 .. D : values[i] \in Value /\ values[i] \in Key /\ values[i] /= Wild
  BY <1>2, <1>4, WildAssumption DEF Key
<1>7. TrieHoldsFirstRules'
  BY <1>1, TrieUnchanged
<1> QED
  BY <1>1, <1>2, <1>3, <1>4, <1>5, <1>6, <1>7 DEF Key

\* A rule that goes through a node makes the node exist, with an earlier rule.
LEMMA ReachedNodeExists ==
  ASSUME IInv, Searching, NEW p \in Seq(Key), NEW j \in RuleIndexes(cfg), Reaches(j, p)
  PROVE  p \in DOMAIN trie /\ trie[p] <= j
<1>1. cfg \in Config /\ next = N
  BY DEF IInv, TypeOK, Searching
<1>2. j \in 0 .. next - 1
  BY <1>1, RuleTypes
<1>3. p \in Visited(Rule(cfg, j))
  BY <1>1, VisitedIffReaches
<1> QED
  BY <1>2, <1>3 DEF IInv, TrieHoldsFirstRules

\* What lies below the exact child of a frame is fixed while the frame is open.
LEMMA BelowExactStable ==
  ASSUME UNCHANGED <<cfg, values>>, NEW k \in Nat \ {0},
         \A i \in 1 .. k - 1 : path'[i] = path[i]
  PROVE  BelowExact(k)' = BelowExact(k)
BY DEF BelowExact, Hit, D

(***************************************************************************)
(* The rules below the node at path are those below its exact child and    *)
(* those below its wildcard child, if the dimension admits the input.      *)
(***************************************************************************)
BelowWild(n) ==
  {j \in RuleIndexes(cfg) :
     /\ \A i \in 1 .. n - 1 : path[i] \in Keys(Rule(cfg, j), i)
     /\ Wild \in Keys(Rule(cfg, j), n)
     /\ Open(cfg.dims[n], values[n])
     /\ \A i \in n + 1 .. D : Hit(j, i)}

\* What lies below a node lies below its exact child or below its wildcard child.
LEMMA BelowSplits ==
  ASSUME path \in Seq(Key), D \in Nat, Len(path) < D
  PROVE  BelowPath = BelowExact(Len(path) + 1) \cup BelowWild(Len(path) + 1)
<1> DEFINE n == Len(path) + 1
<1>1. /\ n \in 1 .. D
      /\ Len(path) = n - 1
  OBVIOUS
<1>2. \A j : (\A i \in n .. D : Hit(j, i)) <=> Hit(j, n) /\ \A i \in n + 1 .. D : Hit(j, i)
  BY <1>1
<1> HIDE DEF n
<1>3. BelowPath = BelowExact(n) \cup BelowWild(n)
  BY <1>1, <1>2 DEF BelowPath, BelowExact, BelowWild, Hit
<1> QED
  BY <1>3 DEF n

-----------------------------------------------------------------------------
(***************************************************************************)
(* A frame starts.  At a leaf the rules below are those through the node,  *)
(* whose first is minRuleIdx; where there is no exact child, none is.      *)
(***************************************************************************)
LEMMA EnterInv == IInv /\ Enter => IInv'
<1> SUFFICES ASSUME IInv, Enter PROVE IInv'
  OBVIOUS
<1>1. /\ pc = "enter" /\ Searching /\ UNCHANGED <<newVars, values>> /\ UNCHANGED <<cfg, trie, next, last>>
      /\ OpenFrames = Len(path)
  BY DEF Enter, Searching, OpenFrames, newVars
<1> DEFINE n == Len(path) + 1
           child == Append(path, values[n])
<1> USE DEF IInv
<1>3. CASE Len(path) = Len(values)
  <2>1. /\ ret' = trie[path] /\ pc' = "return" /\ path' = path /\ best' = best
    BY <1>1, <1>3, SearchFacts DEF Enter
  <2>2. IsFirst(BelowPath, trie[path])
    <3>1. BelowPath = {j \in RuleIndexes(cfg) : Reaches(j, path)}
      BY <1>1, <1>3, SearchFacts DEF BelowPath, Reaches
    <3>2. trie[path] \in RuleIndexes(cfg) /\ Reaches(trie[path], path)
      BY <1>1, SearchFacts DEF TypeOK, TrieHoldsFirstRules
    <3>3. \A j \in RuleIndexes(cfg) : Reaches(j, path) => trie[path] <= j
      BY <1>1, SearchFacts, ReachedNodeExists
    <3> QED
      BY <3>1, <3>2, <3>3 DEF IsFirst
  <2>3. BelowPath' = BelowPath
    BY <1>1, <2>1 DEF BelowPath, Hit, D
  <2>4. SearchIsExact'
    <3>1. \A k \in 1 .. Len(path) : BelowExact(k)' = BelowExact(k)
      BY <1>1, <2>1 DEF BelowExact, Hit, D
    <3> QED
      BY <1>1, <2>1, <2>2, <2>3, <3>1 DEF SearchIsExact, Searching, OpenFrames
  <2>5. TypeOK'
    BY <1>1, <2>1, SearchFacts DEF TypeOK, PcSet, OpenFrames, Searching, D, N, Key
  <2> QED
    BY <1>1, <2>4, <2>5, SearchFacts
<1>4. CASE Len(path) < Len(values)
  <2>1. /\ n \in 1 .. D /\ n = Len(path) + 1 /\ values[n] \in Key
        /\ best' = Append(best, noMatch) /\ ret' = ret
        /\ IF child \in DOMAIN trie /\ trie[child] /= noMatch
           THEN path' = child /\ pc' = "enter"
           ELSE pc' = "wild" /\ path' = path
    BY <1>1, <1>4, SearchFacts DEF Enter
  <2>2. /\ child \in Seq(Key) /\ Len(child) = n
        /\ \A i \in 1 .. n - 1 : child[i] = path[i]
        /\ child[n] = values[n]
    BY <1>1, <2>1, SearchFacts, AppendFacts
  <2>3. /\ best' \in Seq(RuleIndexes(cfg) \cup {noMatch}) /\ Len(best') = n
        /\ \A i \in 1 .. n - 1 : best'[i] = best[i]
        /\ best'[n] = noMatch
    <3>1. best \in Seq(RuleIndexes(cfg) \cup {noMatch}) /\ Len(best) = n - 1
      BY <1>1, <2>1, SearchFacts
    <3> QED
      BY <2>1, <3>1, AppendFacts
  <2> HIDE DEF n, child
  <2>4. \A i \in 1 .. n - 1 : path'[i] = path[i]
    BY <2>1, <2>2
  <2>5. \A k \in 1 .. n : BelowExact(k)' = BelowExact(k)
    <3> SUFFICES ASSUME NEW k \in 1 .. n PROVE BelowExact(k)' = BelowExact(k)
      OBVIOUS
    <3>1. k \in Nat \ {0} /\ \A i \in 1 .. k - 1 : path'[i] = path[i]
      BY <2>1, <2>4
    <3> QED
      BY <1>1, <3>1, BelowExactStable
  <2>6. \A k \in 1 .. n - 1 :
          \/ path'[k] = values'[k] /\ best'[k] = noMatch
          \/ /\ path'[k] = Wild /\ Open(cfg.dims[k], values[k])'
             /\ IsFirst(BelowExact(k)', best'[k])
    <3>1. \A k \in 1 .. n - 1 :
          \/ path[k] = values[k] /\ best[k] = noMatch
          \/ /\ path[k] = Wild /\ Open(cfg.dims[k], values[k])
             /\ IsFirst(BelowExact(k), best[k])
      BY <1>1, <2>1, SearchFacts DEF SearchIsExact, OpenFrames
    <3> QED
      BY <1>1, <2>3, <2>4, <2>5, <3>1
  <2>7. CASE child \in DOMAIN trie /\ trie[child] /= noMatch
    <3>1. path' = child /\ pc' = "enter"
      BY <2>1, <2>7
    <3>2. SearchIsExact'
      BY <1>1, <2>1, <2>2, <2>3, <2>6, <3>1 DEF SearchIsExact, Searching, OpenFrames
    <3>3. TypeOK'
      BY <1>1, <2>1, <2>2, <2>3, <2>7, <3>1, SearchFacts
         DEF TypeOK, PcSet, OpenFrames, Searching, D, N, Key
    <3> QED
      BY <1>1, <3>2, <3>3, SearchFacts
  <2>8. CASE ~(child \in DOMAIN trie /\ trie[child] /= noMatch)
    <3>1. path' = path /\ pc' = "wild"
      BY <2>1, <2>8
    <3>2. BelowExact(n) = {}
      <4> SUFFICES ASSUME NEW j \in BelowExact(n) PROVE FALSE
        OBVIOUS
      <4>0. /\ j \in RuleIndexes(cfg)
            /\ \A i \in 1 .. n - 1 : path[i] \in Keys(Rule(cfg, j), i)
            /\ values[n] \in Keys(Rule(cfg, j), n)
        BY DEF BelowExact
      <4>1. Reaches(j, child)
        BY <2>1, <2>2, <4>0 DEF Reaches
      <4>2. child \in DOMAIN trie
        BY <1>1, <2>2, <4>0, <4>1, ReachedNodeExists
      <4>3. trie[child] /= noMatch
        BY <1>1, <4>2, SearchFacts DEF TypeOK, noMatch
      <4> QED
        BY <2>8, <4>2, <4>3
    <3>3. \A k \in 1 .. n : k = n => IsFirst(BelowExact(k)', best'[k])
      BY <2>1, <2>3, <2>5, <3>2 DEF IsFirst
    <3>4. SearchIsExact'
      <4>1. OpenFrames' = n /\ Len(path') = n - 1 /\ pc' /= "return"
        BY <2>1, <3>1 DEF OpenFrames
      <4>2. \A k \in 1 .. n : k \in 1 .. n - 1 \/ k = n
        BY <2>1
      <4> QED
        BY <2>6, <3>3, <4>1, <4>2 DEF SearchIsExact
    <3>5. TypeOK'
      BY <1>1, <2>1, <2>3, <3>1, SearchFacts
         DEF TypeOK, PcSet, OpenFrames, Searching, D, N, Key
    <3> QED
      BY <1>1, <3>4, <3>5, SearchFacts
  <2> QED
    BY <2>7, <2>8
<1> QED
  BY <1>1, <1>3, <1>4, SearchFacts

(***************************************************************************)
(* Between the two children of a frame.  A wildcard child that is absent,  *)
(* not admitted or no earlier than best holds nothing that would win.      *)
(***************************************************************************)
LEMMA EnterWildInv == IInv /\ EnterWild => IInv'
<1> SUFFICES ASSUME IInv, EnterWild PROVE IInv'
  OBVIOUS
<1> DEFINE n == Len(path) + 1
           child == Append(path, Wild)
<1> USE DEF IInv
<1>1. /\ pc = "wild" /\ Searching /\ UNCHANGED <<newVars, values>> /\ UNCHANGED <<cfg, trie, next, last>>
      /\ OpenFrames = n
  BY DEF EnterWild, Searching, OpenFrames, newVars
<1>2. /\ n \in 1 .. D /\ n = Len(path) + 1 /\ Len(best) = n
  BY <1>1, SearchFacts DEF TypeOK
<1>3. /\ child \in Seq(Key) /\ Len(child) = n
      /\ \A i \in 1 .. n - 1 : child[i] = path[i]
      /\ child[n] = Wild
  BY <1>1, <1>2, SearchFacts, AppendFacts
<1>4. /\ IF WildWorthwhile(n)
         THEN path' = child /\ pc' = "enter" /\ best' = best /\ ret' = ret
         ELSE ret' = best[n] /\ pc' = "return" /\ best' = SubSeq(best, 1, n - 1) /\ path' = path
  BY DEF EnterWild
<1>5. BelowPath = BelowExact(n) \cup BelowWild(n)
  BY <1>1, <1>2, BelowSplits, SearchFacts
<1>6. WildWorthwhile(n) <=> /\ child \in DOMAIN trie
                            /\ Open(cfg.dims[n], values[n])
                            /\ trie[child] /= noMatch
                            /\ best[n] = noMatch \/ trie[child] < best[n]
  BY DEF WildWorthwhile
<1>7. IsFirst(BelowExact(n), best[n])
  BY <1>1, <1>2 DEF SearchIsExact
<1>8. \A k \in 1 .. n - 1 :
        \/ path[k] = values[k] /\ best[k] = noMatch
        \/ /\ path[k] = Wild /\ Open(cfg.dims[k], values[k])
           /\ IsFirst(BelowExact(k), best[k])
  BY <1>1, <1>2 DEF SearchIsExact
<1> HIDE DEF n, child
<1>9. \A k \in 1 .. n : BelowExact(k)' = BelowExact(k)
  <2> SUFFICES ASSUME NEW k \in 1 .. n PROVE BelowExact(k)' = BelowExact(k)
    OBVIOUS
  <2>1. k \in Nat \ {0} /\ \A i \in 1 .. k - 1 : path'[i] = path[i]
    BY <1>2, <1>3, <1>4
  <2> QED
    BY <1>1, <2>1, BelowExactStable
<1>10. CASE WildWorthwhile(n)
  <2>1. path' = child /\ pc' = "enter" /\ best' = best /\ ret' = ret
    BY <1>4, <1>10
  <2>2. SearchIsExact'
    <3>1. OpenFrames' = n /\ Len(path') = n /\ pc' /= "return"
      BY <1>3, <2>1 DEF OpenFrames
    <3>2. \A k \in 1 .. n : k \in 1 .. n - 1 \/ k = n
      BY <1>2
    <3>3. \A k \in 1 .. n : \/ path'[k] = values[k] /\ best[k] = noMatch
                            \/ /\ path'[k] = Wild /\ Open(cfg.dims[k], values[k])
                               /\ IsFirst(BelowExact(k), best[k])
      BY <1>3, <1>6, <1>7, <1>8, <1>10, <2>1, <3>2
    <3> QED
      BY <1>1, <1>9, <2>1, <3>1, <3>3 DEF SearchIsExact, Open
  <2>3. TypeOK'
    BY <1>1, <1>2, <1>3, <1>6, <1>10, <2>1, SearchFacts
       DEF TypeOK, PcSet, OpenFrames, Searching, D, N, Key
  <2> QED
    BY <1>1, <2>2, <2>3, SearchFacts
<1>11. CASE ~WildWorthwhile(n)
  <2>1. ret' = best[n] /\ pc' = "return" /\ best' = SubSeq(best, 1, n - 1) /\ path' = path
    BY <1>4, <1>11
  <2>2. /\ best' \in Seq(RuleIndexes(cfg) \cup {noMatch}) /\ Len(best') = n - 1
        /\ \A i \in 1 .. n - 1 : best'[i] = best[i]
        /\ best[n] \in RuleIndexes(cfg) \cup {noMatch}
    <3>1. best \in Seq(RuleIndexes(cfg) \cup {noMatch}) /\ best /= <<>>
      BY <1>1, <1>2, SearchFacts
    <3> QED
      BY <1>2, <2>1, <3>1, FrontFacts
  <2>3. \A j \in BelowWild(n) : best[n] /= noMatch /\ best[n] <= j
    <3> SUFFICES ASSUME NEW j \in BelowWild(n) PROVE best[n] /= noMatch /\ best[n] <= j
      OBVIOUS
    <3>1. /\ j \in RuleIndexes(cfg)
          /\ \A i \in 1 .. n - 1 : path[i] \in Keys(Rule(cfg, j), i)
          /\ Wild \in Keys(Rule(cfg, j), n)
          /\ Open(cfg.dims[n], values[n])
      BY DEF BelowWild
    <3>2. Reaches(j, child)
      BY <1>2, <1>3, <3>1 DEF Reaches
    <3>3. child \in DOMAIN trie /\ trie[child] <= j
      BY <1>1, <1>3, <3>1, <3>2, ReachedNodeExists
    <3>4. trie[child] \in RuleIndexes(cfg) /\ trie[child] \in Int /\ trie[child] /= noMatch
      BY <1>1, <3>3, SearchFacts DEF TypeOK, noMatch
    <3>5. ~(best[n] = noMatch \/ trie[child] < best[n])
      BY <1>6, <1>11, <3>1, <3>3, <3>4
    <3>6. best[n] \in Int /\ j \in Int
      BY <1>1, <2>2, <3>1, SearchFacts DEF noMatch
    <3> QED
      BY <3>3, <3>4, <3>5, <3>6
  <2>4. IsFirst(BelowPath, best[n])
    <3>1. CASE best[n] = noMatch
      <4>1. BelowWild(n) = {} /\ BelowExact(n) = {}
        <5>1. BelowWild(n) = {}
          BY <2>3, <3>1
        <5>2. noMatch \notin BelowExact(n)
          BY <1>1, SearchFacts DEF BelowExact, noMatch
        <5> QED
          BY <1>7, <3>1, <5>1, <5>2 DEF IsFirst
      <4> QED
        BY <1>5, <3>1, <4>1 DEF IsFirst
    <3>2. CASE best[n] /= noMatch
      BY <1>5, <1>7, <2>3, <3>2 DEF IsFirst
    <3> QED
      BY <3>1, <3>2
  <2>5. BelowPath' = BelowPath
    BY <1>1, <2>1 DEF BelowPath, Hit, D
  <2>6. SearchIsExact'
    <3>1. OpenFrames' = n - 1 /\ Len(path') = n - 1
      BY <1>2, <2>1 DEF OpenFrames
    <3>2. \A k \in 1 .. n - 1 : k \in 1 .. n
      BY <1>2
    <3> QED
      BY <1>1, <1>8, <1>9, <2>1, <2>2, <2>4, <2>5, <3>1, <3>2 DEF SearchIsExact, Open
  <2>7. TypeOK'
    BY <1>1, <1>2, <2>1, <2>2, SearchFacts DEF TypeOK, PcSet, OpenFrames, Searching, D, N, Key
  <2> QED
    BY <1>1, <2>6, <2>7, SearchFacts
<1> QED
  BY <1>10, <1>11

(***************************************************************************)
(* A child's search has returned into the frame above.                     *)
(***************************************************************************)
LEMMA ReturnFromChildInv == IInv /\ ReturnFromChild => IInv'
<1> SUFFICES ASSUME IInv, ReturnFromChild PROVE IInv'
  OBVIOUS
<1> DEFINE n == Len(path)
           front == SubSeq(path, 1, n - 1)
           res == merge(best[n], ret)
<1> USE DEF IInv
<1>1. /\ pc = "return" /\ Searching /\ UNCHANGED <<newVars, values>> /\ UNCHANGED <<cfg, trie, next, last>>
      /\ OpenFrames = n /\ path /= <<>>
  BY DEF ReturnFromChild, FrameEnds, Searching, OpenFrames, newVars
<1>2. /\ n \in 1 .. D /\ Len(best) = n
      /\ ret \in RuleIndexes(cfg) \cup {noMatch}
      /\ front \in Seq(Key) /\ Len(front) = n - 1
      /\ \A i \in 1 .. n - 1 : front[i] = path[i]
  <2>1. Len(path) \in Nat \ {0}
    BY <1>1, FrontFacts, SearchFacts
  <2> QED
    BY <1>1, <2>1, FrontFacts, SearchFacts DEF TypeOK
<1>3. /\ path' = front
      /\ IF path[n] = Wild \/ res = 0
         THEN ret' = res /\ best' = SubSeq(best, 1, n - 1) /\ pc' = "return"
         ELSE best' = [best EXCEPT ![n] = res] /\ pc' = "wild" /\ ret' = ret
  BY <1>1 DEF ReturnFromChild, FrameEnds
<1>4. IsFirst(BelowPath, ret)
  BY <1>1 DEF SearchIsExact
<1>5. \A k \in 1 .. n :
        \/ path[k] = values[k] /\ best[k] = noMatch
        \/ /\ path[k] = Wild /\ Open(cfg.dims[k], values[k])
           /\ IsFirst(BelowExact(k), best[k])
  BY <1>1, <1>2 DEF SearchIsExact
\* The frame above is below the node front.
<1> DEFINE wild == {j \in RuleIndexes(cfg) :
                      /\ \A i \in 1 .. n - 1 : path[i] \in Keys(Rule(cfg, j), i)
                      /\ Wild \in Keys(Rule(cfg, j), n)
                      /\ Open(cfg.dims[n], values[n])
                      /\ \A i \in n + 1 .. D : Hit(j, i)}
           above == {j \in RuleIndexes(cfg) :
                       /\ \A i \in 1 .. n - 1 : path[i] \in Keys(Rule(cfg, j), i)
                       /\ \A i \in n .. D : Hit(j, i)}
<1>6. above = BelowExact(n) \cup wild
  <2>1. \A j : (\A i \in n .. D : Hit(j, i)) <=> Hit(j, n) /\ \A i \in n + 1 .. D : Hit(j, i)
    BY <1>1, <1>2, SearchFacts
  <2> QED
    BY <2>1 DEF BelowExact, Hit
<1>7. BelowPath' = above
  BY <1>1, <1>2, <1>3, SearchFacts DEF BelowPath, Hit, D
<1>8. path[n] = values[n] => BelowPath = BelowExact(n)
  BY <1>1, <1>2, SearchFacts DEF BelowPath, BelowExact
<1>9. path[n] = Wild /\ Open(cfg.dims[n], values[n]) => BelowPath = wild
  BY <1>1, <1>2, SearchFacts DEF BelowPath
<1>10. /\ BelowExact(n) \in SUBSET Nat /\ BelowPath \in SUBSET Nat
       /\ \A k \in above : k \in Nat
  BY <1>1, SearchFacts DEF BelowExact, BelowPath
<1>11. best \in Seq(RuleIndexes(cfg) \cup {noMatch})
  BY <1>1, SearchFacts
<1>12. /\ best[n] \in RuleIndexes(cfg) \cup {noMatch}
       /\ res \in RuleIndexes(cfg) \cup {noMatch}
  BY <1>2, <1>11 DEF merge
<1> HIDE DEF n, front, res, wild, above
<1>13. \A k \in 1 .. n : BelowExact(k)' = BelowExact(k)
  <2> SUFFICES ASSUME NEW k \in 1 .. n PROVE BelowExact(k)' = BelowExact(k)
    OBVIOUS
  <2>1. k \in Nat \ {0} /\ \A i \in 1 .. k - 1 : path'[i] = path[i]
    BY <1>2, <1>3
  <2> QED
    BY <1>1, <2>1, BelowExactStable
\* The rule of a node goes through the node above it, which therefore exists.
<1>16. front \in DOMAIN trie
  <2>1. path \in DOMAIN trie /\ Reaches(trie[path], path) /\ trie[path] \in RuleIndexes(cfg)
    BY <1>1, SearchFacts DEF TypeOK, TrieHoldsFirstRules
  <2>2. n = Len(path)
    BY DEF n
  <2>3. Reaches(trie[path], front)
    BY <1>1, <1>2, <2>1, <2>2, SearchFacts DEF Reaches
  <2> QED
    BY <1>1, <1>2, <2>1, <2>3, ReachedNodeExists
\* The frame above ends with the first rule below its node.
<1>14. path[n] = Wild \/ res = 0 => IsFirst(above, res)
  <2>1. CASE path[n] = Wild
    <3>1. Open(cfg.dims[n], values[n]) /\ IsFirst(BelowExact(n), best[n])
      <4>1. values[n] /= Wild
        BY <1>1, <1>2, SearchFacts
      <4> QED
        BY <1>2, <1>5, <2>1, <4>1
    <3>2. above = BelowExact(n) \cup BelowPath
      BY <1>6, <1>9, <2>1, <3>1
    <3> QED
      BY <1>4, <1>10, <3>1, <3>2, MergeIsFirst DEF res
  <2>2. CASE path[n] /= Wild /\ res = 0
    <3>1. path[n] = values[n] /\ best[n] = noMatch
      BY <1>2, <1>5, <2>2
    <3>2. ret = 0
      BY <2>2, <3>1 DEF res, merge, noMatch
    <3>3. 0 \in BelowExact(n)
      BY <1>4, <1>8, <3>1, <3>2 DEF IsFirst, noMatch
    <3>4. 0 \in above /\ \A k \in above : 0 <= k
      BY <1>6, <1>10, <3>3
    <3> QED
      BY <2>2, <3>4 DEF IsFirst
  <2> QED
    BY <2>1, <2>2
<1>15. CASE path[n] = Wild \/ res = 0
  <2>1. ret' = res /\ best' = SubSeq(best, 1, n - 1) /\ pc' = "return"
    BY <1>3, <1>15
  <2>2. /\ best' \in Seq(RuleIndexes(cfg) \cup {noMatch}) /\ Len(best') = n - 1
        /\ \A i \in 1 .. n - 1 : best'[i] = best[i]
    <3>1. best /= <<>>
      BY <1>2
    <3> QED
      BY <1>2, <1>11, <2>1, <3>1, FrontFacts
  <2>3. SearchIsExact'
    <3>1. OpenFrames' = n - 1 /\ Len(path') = n - 1
      BY <1>2, <1>3, <2>1 DEF OpenFrames
    <3>2. \A k \in 1 .. n - 1 : k \in 1 .. n
      BY <1>2
    <3>3. IsFirst(BelowPath', ret')
      BY <1>7, <1>14, <1>15, <2>1
    <3>4. \A k \in 1 .. n - 1 :
            \/ path'[k] = values[k] /\ best'[k] = noMatch
            \/ /\ path'[k] = Wild /\ Open(cfg.dims[k], values[k])
               /\ IsFirst(BelowExact(k), best'[k])
      BY <1>2, <1>3, <1>5, <2>2, <3>2
    <3> QED
      BY <1>1, <1>13, <2>1, <3>1, <3>2, <3>3, <3>4 DEF SearchIsExact, Open
  <2>4. TypeOK'
    BY <1>1, <1>2, <1>3, <1>12, <1>16, <2>1, <2>2, SearchFacts
       DEF TypeOK, PcSet, OpenFrames, Searching, D, N, Key
  <2> QED
    BY <1>1, <2>3, <2>4, SearchFacts
\* The frame above goes on to its wildcard child with the exact result.
<1>17. CASE ~(path[n] = Wild \/ res = 0)
  <2>1. best' = [best EXCEPT ![n] = res] /\ pc' = "wild" /\ ret' = ret
    BY <1>3, <1>17
  <2>2. path[n] = values[n] /\ best[n] = noMatch
    BY <1>2, <1>5, <1>17
  <2>3. res = ret
    BY <2>2 DEF res, merge
  <2>4. /\ best' \in Seq(RuleIndexes(cfg) \cup {noMatch}) /\ Len(best') = n
        /\ \A i \in 1 .. n - 1 : best'[i] = best[i]
        /\ best'[n] = res
    BY <1>2, <1>11, <1>12, <2>1
  <2>5. IsFirst(BelowExact(n), res)
    BY <1>4, <1>8, <2>2, <2>3
  <2>6. SearchIsExact'
    <3>1. OpenFrames' = n /\ Len(path') = n - 1
      BY <1>2, <1>3, <2>1 DEF OpenFrames
    <3>2. \A k \in 1 .. n : k \in 1 .. n - 1 \/ k = n
      BY <1>2
    <3>3. \A k \in 1 .. n - 1 :
            \/ path'[k] = values[k] /\ best'[k] = noMatch
            \/ /\ path'[k] = Wild /\ Open(cfg.dims[k], values[k])
               /\ IsFirst(BelowExact(k), best'[k])
      <4>1. \A k \in 1 .. n - 1 : k \in 1 .. n
        BY <1>2
      <4> QED
        BY <1>2, <1>3, <1>5, <2>4, <4>1
    <3> QED
      BY <1>1, <1>2, <1>13, <2>1, <2>4, <2>5, <3>1, <3>2, <3>3 DEF SearchIsExact, Open
  <2>7. TypeOK'
    BY <1>1, <1>2, <1>3, <1>16, <2>1, <2>4, SearchFacts
       DEF TypeOK, PcSet, OpenFrames, Searching, D, N, Key
  <2> QED
    BY <1>1, <2>6, <2>7, SearchFacts
<1> QED
  BY <1>15, <1>17

\* The end of the search keeps it: the result names a rule.
LEMMA FinishInv == IInv /\ Finish => IInv'
<1> SUFFICES ASSUME IInv, Finish PROVE IInv'
  OBVIOUS
<1>1. /\ UNCHANGED newVars /\ UNCHANGED <<cfg, trie, next, path, best>>
      /\ pc = "return" /\ pc' = "idle" /\ path = <<>>
      /\ values' = <<>> /\ ret' = noMatch
  BY DEF Finish, newVars
<1>2. TypeOK'
  BY <1>1 DEF IInv, TypeOK, PcSet, OpenFrames, Searching, D, N, Key
<1>3. TrieHoldsFirstRules'
  BY <1>1, TrieUnchanged DEF IInv
<1>4. SearchIsExact'
  BY <1>1 DEF SearchIsExact, Searching
<1> QED
  BY <1>2, <1>3, <1>4 DEF IInv

(***************************************************************************)
(* In every reachable state the trie holds the first rule of each of its   *)
(* nodes (trie.go insert), and every open frame of a search holds the      *)
(* first rule of what it has searched so far, for every configuration and  *)
(* every input.                                                            *)
(***************************************************************************)
THEOREM InvariantHolds == Spec => []IInv
<1>1. IInv /\ [Next]_vars => IInv'
  <2> SUFFICES ASSUME IInv, [Next]_vars PROVE IInv'
    OBVIOUS
  <2>1. CASE Validate
    BY <2>1, ValidateInv
  <2>2. CASE InsertRule
    BY <2>2, InsertRuleInv
  <2>3. CASE \E q \in Abs!Inputs : Check(q)
    BY <2>3, CheckInv
  <2>4. CASE Enter
    BY <2>4, EnterInv
  <2>5. CASE EnterWild
    BY <2>5, EnterWildInv
  <2>6. CASE ReturnFromChild
    BY <2>6, ReturnFromChildInv
  <2>7. CASE Finish
    BY <2>7, FinishInv
  <2>8. CASE Return
    BY <2>8, ReturnInv
  <2>9. CASE UNCHANGED vars
    <3>1. UNCHANGED <<newVars, searchVars, pc, last>>
      BY <2>9 DEF vars, newVars, searchVars
    <3>2. TypeOK'
      BY <3>1 DEF IInv, TypeOK, PcSet, OpenFrames, Searching, newVars, searchVars, D, N, Key
    <3>3. TrieHoldsFirstRules'
      BY <3>1, TrieUnchanged DEF IInv
    <3>4. SearchIsExact'
      BY <3>1 DEF IInv, SearchIsExact, Searching, OpenFrames, BelowExact, BelowPath, Hit,
                  newVars, searchVars, D
    <3> QED
      BY <3>2, <3>3, <3>4 DEF IInv
  <2> QED
    BY <2>1, <2>2, <2>3, <2>4, <2>5, <2>6, <2>7, <2>8, <2>9 DEF Next, SearchStep
<1> QED
  BY <1>1, InitInv, PTL DEF Spec

(***************************************************************************)
(* The state of the engine, its construction and its call stack are well   *)
(* formed in every reachable state.                                        *)
(***************************************************************************)
THEOREM TypeCorrect == Spec => []TypeOK
<1>1. IInv => TypeOK
  BY DEF IInv
<1> QED
  BY <1>1, InvariantHolds, PTL

(***************************************************************************)
(* minRuleIdx is the first rule through a node in every reachable state:   *)
(* what the pruning of search relies on.                                   *)
(***************************************************************************)
THEOREM TrieCorrect == Spec => []TrieHoldsFirstRules
<1>1. IInv => TrieHoldsFirstRules
  BY DEF IInv
<1> QED
  BY <1>1, InvariantHolds, PTL

(***************************************************************************)
(* Every frame of every search is right about the rules below its node.    *)
(***************************************************************************)
THEOREM SearchCorrect == Spec => []SearchIsExact
<1>1. IInv => SearchIsExact
  BY DEF IInv
<1> QED
  BY <1>1, InvariantHolds, PTL

-----------------------------------------------------------------------------
\* Every rule of an engine that New accepted is valid.
LEMMA ValidatedRules ==
  ASSUME validateEngine(cfg) = "nil", NEW j \in RuleIndexes(cfg)
  PROVE  ValidRule(Rule(cfg, j), cfg.dims)
BY DEF validateEngine

(***************************************************************************)
(* The keys of the trie against the matchers of the linear scan: on a      *)
(* validated engine an input admits a key of the rule in every dimension   *)
(* exactly when ruleMatches accepts it.  The scan looks declared values up *)
(* for every matcher; the trie does for wildcards only, so this rests on   *)
(* the validation of the others.                                           *)
(***************************************************************************)
LEMMA HitsIffMatches ==
  ASSUME cfg \in Config, validateEngine(cfg) = "nil", NEW j \in RuleIndexes(cfg),
         values \in Seq(Value), Len(values) = D
  PROVE  (\A i \in 1 .. D : Hit(j, i)) <=> ruleMatches(Rule(cfg, j), cfg.dims, values, FALSE)
<1> DEFINE r == Rule(cfg, j)
<1>1. /\ D \in Nat
      /\ r.m \in Seq(Matcher) /\ Len(r.m) \in Nat
      /\ \A i \in 1 .. D : values[i] \in Value
  BY RuleTypes DEF RuleType
<1>2. \A i \in 1 .. Len(r.m) : validMatcher(r.m[i], cfg.dims[i])
  BY ValidatedRules DEF ValidRule
<1> HIDE DEF r
<1>3. ASSUME NEW i \in 1 .. D, i > Len(r.m)
      PROVE  Hit(j, i) <=> Open(cfg.dims[i], values[i])
  BY <1>1, <1>3, WildAssumption DEF Hit, Keys, r
<1>4. ASSUME NEW i \in 1 .. D, ~(i > Len(r.m))
      PROVE  Hit(j, i) <=> matches(r.m[i], values[i], cfg.dims[i])
  <2>1. r.m[i] \in Matcher /\ validMatcher(r.m[i], cfg.dims[i]) /\ values[i] \in Value
    BY <1>1, <1>2, <1>4
  <2>2. CASE r.m[i].kind = "wildcard"
    <3>1. Keys(r, i) = {Wild}
      BY <2>2 DEF Keys
    <3> QED
      BY <2>1, <2>2, <3>1, WildAssumption DEF Hit, matches, r
  <2>3. CASE r.m[i].kind /= "wildcard"
    <3>1. Keys(r, i) = Range(r.m[i].vals)
      BY <1>1, <1>4, <2>3 DEF Keys
    <3>2. Wild \notin Range(r.m[i].vals)
      <4>1. r.m[i].vals \in Seq(Value)
        BY <2>1 DEF Matcher
      <4> QED
        BY <4>1, WildAssumption DEF Range
    <3>3. Hit(j, i) <=> values[i] \in Range(r.m[i].vals)
      BY <3>1, <3>2 DEF Hit, r
    <3>4. values[i] \in Range(r.m[i].vals) => Open(cfg.dims[i], values[i])
      BY <2>1, <2>3 DEF validMatcher, Open, contains
    <3> QED
      BY <2>3, <3>3, <3>4 DEF matches
  <2> QED
    BY <2>2, <2>3
<1>5. ruleMatches(r, cfg.dims, values, FALSE) <=>
        \A i \in 1 .. D : IF i > Len(r.m) THEN Open(cfg.dims[i], values[i])
                          ELSE matches(r.m[i], values[i], cfg.dims[i])
  BY DEF ruleMatches, D
<1> QED
  BY <1>3, <1>4, <1>5 DEF r

(***************************************************************************)
(* When the search of the root has returned, its result is the first rule  *)
(* the linear scan of Explain stops at.                                    *)
(***************************************************************************)
LEMMA RootResultIsFirstMatch ==
  ASSUME IInv, pc = "return", path = <<>>
  PROVE  IsFirst(Matching(cfg, values, FALSE), ret)
<1>1. /\ cfg \in Config /\ validateEngine(cfg) = "nil"
      /\ values \in Seq(Value) /\ Len(values) = D
      /\ IsFirst(BelowPath, ret)
  BY DEF IInv, TypeOK, SearchIsExact, Searching
<1>2. BelowPath = {j \in RuleIndexes(cfg) : \A i \in 1 .. D : Hit(j, i)}
  BY <1>1, RuleTypes DEF BelowPath
<1>3. BelowPath = Matching(cfg, values, FALSE)
  BY <1>1, <1>2, HitsIffMatches DEF Matching
<1> QED
  BY <1>1, <1>3

-----------------------------------------------------------------------------
(***************************************************************************)
(* Engine reads the same configuration with the same operators.            *)
(***************************************************************************)
LEMMA AbsOperators ==
  /\ Abs!NoCall = Abs!Failed("none", <<>>, "nil")
  /\ Abs!validateEngine(cfg) = validateEngine(cfg)
  /\ Abs!RuleIndexes(cfg) = RuleIndexes(cfg)
  /\ Abs!noMatch = noMatch
  /\ \A S, x : Abs!IsFirst(S, x) <=> IsFirst(S, x)
  /\ \A v : Abs!Matching(cfg, v, FALSE) = Matching(cfg, v, FALSE)
<1>1. /\ Abs!RuleIndexes(cfg) = RuleIndexes(cfg)
      /\ Abs!noMatch = noMatch
      /\ \A S, x : Abs!IsFirst(S, x) <=> IsFirst(S, x)
      /\ \A j : Abs!Rule(cfg, j) = Rule(cfg, j)
  BY DEF Abs!RuleIndexes, RuleIndexes, Abs!noMatch, noMatch, Abs!IsFirst, IsFirst,
         Abs!Rule, Rule
<1>2. \A m, dim : Abs!validMatcher(m, dim) <=> validMatcher(m, dim)
  BY DEF Abs!validMatcher, validMatcher, Abs!Declared, Declared, Abs!Range, Range
<1>3. \A r : /\ Abs!ValidRule(r, cfg.dims) <=> ValidRule(r, cfg.dims)
             /\ Abs!TooWide(r, cfg.dims) <=> TooWide(r, cfg.dims)
  BY <1>2 DEF Abs!ValidRule, ValidRule, Abs!TooWide, TooWide
<1>4. Abs!validateEngine(cfg) = validateEngine(cfg)
  <2>1. {j \in Abs!RuleIndexes(cfg) : ~Abs!ValidRule(Abs!Rule(cfg, j), cfg.dims)}
          = {j \in RuleIndexes(cfg) : ~ValidRule(Rule(cfg, j), cfg.dims)}
    BY <1>1, <1>3
  <2> QED
    BY <1>1, <1>3, <2>1 DEF Abs!validateEngine, validateEngine
<1>5. \A m, v, dim : Abs!matches(m, v, dim) <=> matches(m, v, dim)
  BY DEF Abs!matches, matches, Abs!Open, Open, Abs!Declared, Declared, Abs!contains, contains,
         Abs!Range, Range
<1>6. \A r, v : Abs!ruleMatches(r, cfg.dims, v, FALSE) <=> ruleMatches(r, cfg.dims, v, FALSE)
  BY <1>5 DEF Abs!ruleMatches, ruleMatches, Abs!Open, Open, Abs!Declared, Declared,
              Abs!contains, contains, Abs!Range, Range
<1>7. \A v : Abs!Matching(cfg, v, FALSE) = Matching(cfg, v, FALSE)
  BY <1>1, <1>6 DEF Abs!Matching, Matching
<1> QED
  BY <1>1, <1>4, <1>7 DEF Abs!NoCall

(***************************************************************************)
(* Every step of RuleTrie is a step of Engine or leaves what a caller sees *)
(* unchanged: construction is New, the whole search is one Check.          *)
(***************************************************************************)
LEMMA StepSimulation == IInv /\ [Next]_vars => [Abs!Next]_(Abs!vars)
<1> SUFFICES ASSUME IInv, [Next]_vars PROVE Abs!Next \/ UNCHANGED Abs!vars
  OBVIOUS
<1>1. CASE Validate
  <2>1. CASE pc' = "build"
    BY <1>1, <2>1 DEF Validate, newVars, Abs!vars, Status
  <2>2. CASE pc' /= "build"
    <3>1. /\ pc = "new" /\ UNCHANGED cfg
          /\ last' = Abs!Failed("New", <<>>, validateEngine(cfg))
          /\ pc' = IF validateEngine(cfg) = "nil" THEN "idle" ELSE "rejected"
      BY <1>1, <2>2 DEF Validate, newVars
    <3>2. Abs!New
      BY <3>1, AbsOperators DEF Abs!New, Status
    <3> QED
      BY <3>2 DEF Abs!Next
  <2> QED
    BY <2>1, <2>2
<1>2. CASE InsertRule
  <2>1. validateEngine(cfg) = "nil" /\ pc = "build" /\ UNCHANGED cfg
    BY <1>2 DEF InsertRule, IInv, TypeOK
  <2>2. CASE pc' = "build"
    BY <1>2, <2>1, <2>2 DEF InsertRule, Abs!vars, Status
  <2>3. CASE pc' /= "build"
    <3>1. last' = Abs!Failed("New", <<>>, "nil") /\ pc' = "idle"
      BY <1>2, <2>1, <2>3 DEF InsertRule
    <3>2. Abs!New
      BY <2>1, <3>1, AbsOperators DEF Abs!New, Status
    <3> QED
      BY <3>2 DEF Abs!Next
  <2> QED
    BY <2>2, <2>3
<1>3. ASSUME NEW q \in Abs!Inputs, Check(q) PROVE Abs!Next \/ UNCHANGED Abs!vars
  <2>1. pc = "idle" /\ last = Abs!NoCall /\ UNCHANGED cfg /\ Status = "ready"
    BY <1>3 DEF Check, Idle, newVars, Status
  <2>2. CASE Len(q) /= D
    <3>1. last' = Abs!Failed("Check", q, "ErrArityMismatch") /\ pc' = pc
      BY <1>3, <2>2 DEF Check
    <3>2. Abs!Check(q)
      BY <2>1, <2>2, <3>1 DEF Abs!Check, Abs!Idle, Status, D
    <3> QED
      BY <3>2 DEF Abs!Next
  <2>3. CASE Len(q) = D /\ N = 0
    <3>1. last' = Abs!Answer("Check", q, noMatch) /\ pc' = pc
      BY <1>3, <2>3 DEF Check
    <3>2. IsFirst(Matching(cfg, q, FALSE), noMatch)
      <4>1. RuleIndexes(cfg) = {}
        BY <2>3 DEF RuleIndexes, N
      <4> QED
        BY <4>1 DEF Matching, IsFirst
    <3>3. Abs!Respond("Check", q, FALSE)
      BY <3>1, <3>2, AbsOperators DEF Abs!Respond
    <3>4. Abs!Check(q)
      BY <2>1, <2>3, <3>1, <3>3 DEF Abs!Check, Abs!Idle, Status, D
    <3> QED
      BY <3>4 DEF Abs!Next
  <2>4. CASE Len(q) = D /\ N > 0
    <3>1. pc' = "enter" /\ last' = last
      BY <1>3, <2>4, RuleTypes DEF Check, IInv, TypeOK
    <3> QED
      BY <2>1, <3>1 DEF Abs!vars, Status
  <2> QED
    BY <1>3, <2>2, <2>3, <2>4 DEF Check
<1>4. CASE Enter \/ EnterWild \/ ReturnFromChild
  <2>1. /\ pc \in {"enter", "wild", "return"} /\ pc' \in {"enter", "wild", "return"}
        /\ UNCHANGED <<cfg, last>>
    BY <1>4 DEF Enter, EnterWild, ReturnFromChild, newVars
  <2> QED
    BY <2>1 DEF Abs!vars, Status
<1>5. CASE Finish
  <2>1. /\ pc = "return" /\ path = <<>> /\ pc' = "idle"
        /\ last' = Abs!Answer("Check", values, ret)
        /\ UNCHANGED cfg
    BY <1>5 DEF Finish, newVars
  <2>2. /\ cfg \in Config /\ ret \in RuleIndexes(cfg) \cup {noMatch}
        /\ values \in Seq(Value) /\ Len(values) = D /\ last = Abs!NoCall
    BY <2>1 DEF IInv, TypeOK, Searching
  <2>3. IsFirst(Matching(cfg, values, FALSE), ret)
    BY <2>1, RootResultIsFirstMatch
  <2>4. Abs!Respond("Check", values, FALSE)
    BY <2>1, <2>2, <2>3, AbsOperators DEF Abs!Respond
  <2>5. Abs!Check(values)
    BY <2>1, <2>2, <2>4 DEF Abs!Check, Abs!Idle, Status, D
  <2>6. values \in Abs!Inputs
    <3>1. D \in Nat /\ D \in 0 .. D + 1
      BY <2>2, RuleTypes
    <3>2. values \in [1 .. D -> Value]
      BY <2>2
    <3> QED
      BY <3>1, <3>2 DEF Abs!Inputs, Abs!Tuples, D
  <2> QED
    BY <2>5, <2>6 DEF Abs!Next
<1>6. CASE Return
  <2>1. Abs!Return
    BY <1>6 DEF Return, Abs!Return, newVars, Status
  <2> QED
    BY <2>1 DEF Abs!Next
<1>7. CASE UNCHANGED vars
  BY <1>7 DEF vars, Abs!vars, Status
<1> QED
  BY <1>1, <1>2, <1>3, <1>4, <1>5, <1>6, <1>7 DEF Next, SearchStep

(***************************************************************************)
(* The trie implements the engine callers are promised: for every          *)
(* configuration and every input, Check answers as the linear first-match  *)
(* scan, and Explain, would.                                               *)
(***************************************************************************)
THEOREM Implementation == Spec => ImplementsEngine
<1>1. Init => Abs!Init
  BY DEF Init, Abs!Init, Status
<1>2. IInv /\ [Next]_vars => [Abs!Next]_(Abs!vars)
  BY StepSimulation
<1> QED
  BY <1>1, <1>2, InvariantHolds, PTL DEF Spec, ImplementsEngine, Abs!Spec
=============================================================================
