--------------------------- MODULE OwnershipProofs ---------------------------
(***************************************************************************)
(* Proofs about Ownership: for any memory and any strings, no caller can   *)
(* write to what an engine reads, and no engine ever changes.              *)
(***************************************************************************)
EXTENDS Ownership, TLAPS

\* The index of every dimension is that of its values: EngineIsFrozen asks it of
\* the engines', which New gets from the callers'.
IndexIsRight ==
  \A d \in DOMAIN dims : dims[d].idx = Range(strs[dims[d].values])

IInv == TypeOK /\ StorageIsPrivate /\ IndexIsRight /\ EngineIsFrozen

-----------------------------------------------------------------------------
(***************************************************************************)
(* What is put on a heap gets an address of its own; the rest stays as it  *)
(* is.                                                                     *)
(***************************************************************************)
LEMMA PutGrows ==
  ASSUME NEW heap, NEW x, Room(heap), DOMAIN heap \subseteq Addr
  PROVE  /\ new(heap) \in Addr \ DOMAIN heap
         /\ DOMAIN Put(heap, x) = DOMAIN heap \cup {new(heap)}
         /\ DOMAIN Put(heap, x) \subseteq Addr
         /\ Put(heap, x)[new(heap)] = x
         /\ \A a \in DOMAIN heap : Put(heap, x)[a] = heap[a]
<1>1. PICK a \in Addr : a \notin DOMAIN heap
  BY DEF Room
<1>2. new(heap) \in Addr /\ new(heap) \notin DOMAIN heap
  BY <1>1 DEF new
<1>3. QED
  BY <1>2 DEF Put

(***************************************************************************)
(* A heap of things of one type is still one with another such thing.      *)
(***************************************************************************)
LEMMA PutType ==
  ASSUME NEW heap, NEW S, NEW x \in S, heap \in [DOMAIN heap -> S]
  PROVE  Put(heap, x) \in [DOMAIN Put(heap, x) -> S]
BY DEF Put

(***************************************************************************)
(* What two arrays hold is a configuration.                                *)
(***************************************************************************)
LEMMA ContentType ==
  ASSUME TypeOK, NEW d \in DOMAIN dims, NEW r \in DOMAIN rules
  PROVE  Content(d, r) \in Config
<1>1. strs[dims[d].values] \in Seq(Value) /\ strs[rules[r].vals] \in Seq(Value)
      /\ rules[r].act \in Action
  BY DEF TypeOK, RuleCell, DimCell
<1>2. [kind |-> "anyOf", vals |-> strs[rules[r].vals]] \in Matcher
  BY <1>1 DEF Matcher
<1>3. <<[kind |-> "anyOf", vals |-> strs[rules[r].vals]]>> \in Seq(Matcher)
  BY <1>2
<1>4. [act |-> rules[r].act, m |-> <<[kind |-> "anyOf", vals |-> strs[rules[r].vals]]>>] \in RuleType
  BY <1>1, <1>3 DEF RuleType
<1>5. QED
  BY <1>1, <1>4 DEF Content, Config

-----------------------------------------------------------------------------
(***************************************************************************)
(* The three heaps grow, or change where a caller may write: the arrays of *)
(* the engines, and the strings of the rules and dimensions there were,    *)
(* stay.  Every step of a caller is such a step.                           *)
(***************************************************************************)
Kept ==
  /\ DOMAIN strs \subseteq DOMAIN strs' /\ DOMAIN rules \subseteq DOMAIN rules'
  /\ DOMAIN dims \subseteq DOMAIN dims'
  /\ \A a \in DOMAIN strs \ mine.strs : strs'[a] = strs[a]
  /\ \A a \in DOMAIN rules \ mine.rules : rules'[a] = rules[a]
  /\ \A a \in DOMAIN dims \ mine.dims : dims'[a] = dims[a]

(***************************************************************************)
(* Such a step changes the content of no engine.                           *)
(***************************************************************************)
LEMMA KeptFrozen ==
  ASSUME IInv, Kept, NEW e \in engines
  PROVE  /\ Content(e.dims, e.rules)' = e.made
         /\ dims'[e.dims].idx = Range(strs'[dims'[e.dims].values])
<1>1. e.dims \in DOMAIN dims \ mine.dims /\ e.rules \in DOMAIN rules \ mine.rules
  BY DEF IInv, TypeOK, StorageIsPrivate
<1>2. dims'[e.dims] = dims[e.dims] /\ rules'[e.rules] = rules[e.rules]
  BY <1>1 DEF Kept
<1>3. dims[e.dims].values \in DOMAIN strs \ mine.strs
      /\ rules[e.rules].vals \in DOMAIN strs \ mine.strs
  BY <1>1 DEF IInv, TypeOK, StorageIsPrivate, RuleCell, DimCell
<1>4. strs'[dims[e.dims].values] = strs[dims[e.dims].values]
      /\ strs'[rules[e.rules].vals] = strs[rules[e.rules].vals]
  BY <1>3 DEF Kept
<1>5. Content(e.dims, e.rules)' = Content(e.dims, e.rules)
  BY <1>2, <1>4 DEF Content
<1>6. QED
  BY <1>2, <1>4, <1>5 DEF IInv, EngineIsFrozen

-----------------------------------------------------------------------------
(***************************************************************************)
(* Heaps that only grow keep the invariant if no array there was becomes a *)
(* caller's, the strings of new rules and dimensions are nobody's, and a   *)
(* new engine starts from what was read.                                   *)
(***************************************************************************)
Grows(heap, heap2) ==
  /\ DOMAIN heap \subseteq DOMAIN heap2 /\ DOMAIN heap2 \subseteq Addr
  /\ \A a \in DOMAIN heap : heap2[a] = heap[a]

LEMMA GrowthInv ==
  ASSUME IInv,
         Grows(strs, strs'), Grows(rules, rules'), Grows(dims, dims'),
         strs' \in [DOMAIN strs' -> Seq(Value)],
         rules' \in [DOMAIN rules' -> RuleCell'],
         dims' \in [DOMAIN dims' -> DimCell'],
         mine' \in [strs : SUBSET DOMAIN strs', rules : SUBSET DOMAIN rules', dims : SUBSET DOMAIN dims'],
         mine'.strs \cap DOMAIN strs \subseteq mine.strs,
         mine'.rules \cap DOMAIN rules \subseteq mine.rules,
         mine'.dims \cap DOMAIN dims \subseteq mine.dims,
         \A r \in DOMAIN rules' \ DOMAIN rules : rules'[r].vals \notin mine'.strs,
         \A d \in DOMAIN dims' \ DOMAIN dims :
           dims'[d].values \notin mine'.strs /\ dims'[d].idx = Range(strs'[dims'[d].values]),
         engines \subseteq engines',
         \A e \in engines' \ engines :
           /\ e \in [rules : DOMAIN rules', dims : DOMAIN dims', made : Config]
           /\ e.rules \notin mine'.rules /\ e.dims \notin mine'.dims
           /\ Content(e.dims, e.rules)' = e.made
  PROVE  IInv'
<1>. USE DEF IInv
<1>1. Kept
  BY DEF Kept, Grows
<1>2. \A e \in engines :
        /\ e \in [rules : DOMAIN rules, dims : DOMAIN dims, made : Config]
        /\ e.rules \in DOMAIN rules /\ e.dims \in DOMAIN dims
  BY DEF TypeOK
<1>3. TypeOK'
  <2>1. engines' \subseteq [rules : DOMAIN rules', dims : DOMAIN dims', made : Config]
    BY <1>2 DEF Grows
  <2>2. QED
    BY <2>1 DEF TypeOK, Grows
<1>4. /\ \A r \in DOMAIN rules : rules'[r] = rules[r] /\ rules[r].vals \in DOMAIN strs
      /\ \A d \in DOMAIN dims : dims'[d] = dims[d] /\ dims[d].values \in DOMAIN strs
  BY DEF TypeOK, RuleCell, DimCell, Grows
<1>5. StorageIsPrivate'
  <2>1. \A r \in DOMAIN rules' : rules'[r].vals \notin mine'.strs
    BY <1>4 DEF StorageIsPrivate
  <2>2. \A d \in DOMAIN dims' : dims'[d].values \notin mine'.strs
    BY <1>4 DEF StorageIsPrivate
  <2>3. \A e \in engines' : e.rules \notin mine'.rules /\ e.dims \notin mine'.dims
    BY <1>2 DEF StorageIsPrivate
  <2>4. QED
    BY <2>1, <2>2, <2>3 DEF StorageIsPrivate
<1>6. IndexIsRight'
  BY <1>4 DEF IndexIsRight, Grows
<1>7. EngineIsFrozen'
  <2>1. SUFFICES ASSUME NEW e \in engines'
                 PROVE  /\ Content(e.dims, e.rules)' = e.made
                        /\ dims'[e.dims].idx = Range(strs'[dims'[e.dims].values])
    BY DEF EngineIsFrozen
  <2>2. CASE e \in engines
    BY <2>2, <1>1, KeptFrozen
  <2>3. CASE e \notin engines
    <3>1. e.dims \in DOMAIN dims'
      BY <2>3
    <3>2. QED
      BY <2>3, <3>1, <1>6 DEF IndexIsRight
  <2>4. QED
    BY <2>2, <2>3
<1>8. QED
  BY <1>3, <1>5, <1>6, <1>7

LEMMA SetStringInv ==
  ASSUME IInv, NEW a \in mine.strs, NEW i \in DOMAIN strs[a], NEW v \in Value, SetString(a, i, v)
  PROVE  IInv'
<1>. USE DEF IInv
<1>1. strs' = [strs EXCEPT ![a] = [strs[a] EXCEPT ![i] = v]] /\ UNCHANGED <<rules, dims, mine, engines>>
  BY DEF SetString
<1>2. a \in DOMAIN strs /\ strs[a] \in Seq(Value)
  BY DEF TypeOK
<1>3. [strs[a] EXCEPT ![i] = v] \in Seq(Value)
  BY <1>2
<1>4. /\ strs' \in [DOMAIN strs -> Seq(Value)] /\ DOMAIN strs' = DOMAIN strs
      /\ \A b \in DOMAIN strs \ {a} : strs'[b] = strs[b]
  BY <1>1, <1>3 DEF TypeOK
<1>5. Kept
  BY <1>1, <1>4 DEF Kept
<1>6. TypeOK'
  BY <1>1, <1>4 DEF TypeOK, RuleCell, DimCell
<1>7. StorageIsPrivate'
  BY <1>1 DEF StorageIsPrivate
<1>8. IndexIsRight'
  <2>1. \A d \in DOMAIN dims : dims[d].values \in DOMAIN strs \ {a}
    BY DEF TypeOK, DimCell, StorageIsPrivate
  <2>2. QED
    BY <1>1, <1>4, <2>1 DEF IndexIsRight
<1>9. EngineIsFrozen'
  BY <1>1, <1>5, KeptFrozen DEF EngineIsFrozen
<1>10. QED
  BY <1>6, <1>7, <1>8, <1>9

LEMMA SetRuleInv ==
  ASSUME IInv, NEW a \in mine.rules, NEW b \in mine.rules, SetRule(a, b)
  PROVE  IInv'
<1>. USE DEF IInv
<1>1. rules' = [rules EXCEPT ![a] = rules[b]] /\ UNCHANGED <<strs, dims, mine, engines>>
  BY DEF SetRule
<1>2. a \in DOMAIN rules /\ b \in DOMAIN rules
  BY DEF TypeOK
<1>3. /\ rules' \in [DOMAIN rules -> RuleCell] /\ DOMAIN rules' = DOMAIN rules
      /\ \A r \in DOMAIN rules : rules'[r] = rules[IF r = a THEN b ELSE r]
  BY <1>1, <1>2 DEF TypeOK
<1>4. Kept
  BY <1>1, <1>3 DEF Kept
<1>5. TypeOK'
  BY <1>1, <1>3 DEF TypeOK, RuleCell, DimCell
<1>6. StorageIsPrivate'
  BY <1>1, <1>2, <1>3 DEF StorageIsPrivate
<1>7. IndexIsRight'
  BY <1>1 DEF IndexIsRight
<1>8. EngineIsFrozen'
  BY <1>1, <1>4, KeptFrozen DEF EngineIsFrozen
<1>9. QED
  BY <1>5, <1>6, <1>7, <1>8

LEMMA SetDimensionInv ==
  ASSUME IInv, NEW a \in mine.dims, NEW b \in mine.dims, SetDimension(a, b)
  PROVE  IInv'
<1>. USE DEF IInv
<1>1. dims' = [dims EXCEPT ![a] = dims[b]] /\ UNCHANGED <<strs, rules, mine, engines>>
  BY DEF SetDimension
<1>2. a \in DOMAIN dims /\ b \in DOMAIN dims
  BY DEF TypeOK
<1>3. /\ dims' \in [DOMAIN dims -> DimCell] /\ DOMAIN dims' = DOMAIN dims
      /\ \A d \in DOMAIN dims : dims'[d] = dims[IF d = a THEN b ELSE d]
  BY <1>1, <1>2 DEF TypeOK
<1>4. Kept
  BY <1>1, <1>3 DEF Kept
<1>5. TypeOK'
  BY <1>1, <1>3 DEF TypeOK, RuleCell, DimCell
<1>6. StorageIsPrivate'
  BY <1>1, <1>2, <1>3 DEF StorageIsPrivate
<1>7. IndexIsRight'
  BY <1>1, <1>2, <1>3 DEF IndexIsRight
<1>8. EngineIsFrozen'
  BY <1>1, <1>4, KeptFrozen DEF EngineIsFrozen
<1>9. QED
  BY <1>5, <1>6, <1>7, <1>8

(***************************************************************************)
(* The premises of GrowthInv for a heap on which one thing is put.         *)
(***************************************************************************)
LEMMA PutStep ==
  ASSUME NEW heap, NEW S, NEW x \in S, Room(heap), DOMAIN heap \subseteq Addr,
         heap \in [DOMAIN heap -> S]
  PROVE  /\ Grows(heap, Put(heap, x)) /\ Put(heap, x) \in [DOMAIN Put(heap, x) -> S]
         /\ DOMAIN Put(heap, x) = DOMAIN heap \cup {new(heap)}
         /\ new(heap) \notin DOMAIN heap /\ Put(heap, x)[new(heap)] = x
<1>1. Put(heap, x) \in [DOMAIN Put(heap, x) -> S]
  BY PutType
<1>2. QED
  BY <1>1, PutGrows DEF Grows

(***************************************************************************)
(* What TypeOK says of the heaps, and what it goes on saying of the rules  *)
(* and dimensions there were when the strings grow.                        *)
(***************************************************************************)
LEMMA HeapTypes ==
  ASSUME TypeOK
  PROVE  /\ DOMAIN strs \subseteq Addr /\ strs \in [DOMAIN strs -> Seq(Value)]
         /\ DOMAIN rules \subseteq Addr /\ rules \in [DOMAIN rules -> RuleCell]
         /\ DOMAIN dims \subseteq Addr /\ dims \in [DOMAIN dims -> DimCell]
         /\ Grows(strs, strs) /\ Grows(rules, rules) /\ Grows(dims, dims)
         /\ mine.strs \subseteq DOMAIN strs /\ mine.rules \subseteq DOMAIN rules
         /\ mine.dims \subseteq DOMAIN dims
BY DEF TypeOK, Grows

LEMMA CellsGrow ==
  ASSUME TypeOK, Grows(strs, strs')
  PROVE  /\ RuleCell \subseteq RuleCell' /\ DimCell \subseteq DimCell'
         /\ rules \in [DOMAIN rules -> RuleCell'] /\ dims \in [DOMAIN dims -> DimCell']
<1>1. RuleCell \subseteq RuleCell' /\ DimCell \subseteq DimCell'
  BY DEF RuleCell, DimCell, Grows
<1>2. QED
  BY <1>1, HeapTypes

-----------------------------------------------------------------------------
(***************************************************************************)
(* A string list of a caller's, made by it or for it: MakeStrings, AnyOf,  *)
(* Values.                                                                 *)
(***************************************************************************)
LEMMA NewStringsInv ==
  ASSUME IInv, NEW s \in Seq(Value), Room(strs), strs' = Put(strs, s),
         mine' = [mine EXCEPT !.strs = @ \cup {new(strs)}],
         UNCHANGED <<rules, dims, engines>>
  PROVE  IInv'
<1>1. TypeOK
  BY DEF IInv
<1>2. /\ Grows(strs, strs') /\ strs' \in [DOMAIN strs' -> Seq(Value)]
      /\ DOMAIN strs' = DOMAIN strs \cup {new(strs)} /\ new(strs) \notin DOMAIN strs
  BY <1>1, HeapTypes, PutStep
<1>3. rules' \in [DOMAIN rules' -> RuleCell'] /\ dims' \in [DOMAIN dims' -> DimCell']
  BY <1>1, <1>2, CellsGrow
<1>4. mine' = [strs |-> mine.strs \cup {new(strs)}, rules |-> mine.rules, dims |-> mine.dims]
  BY <1>1 DEF TypeOK
<1>5. Grows(rules, rules') /\ Grows(dims, dims')
  BY <1>1, HeapTypes
<1>6. mine' \in [strs : SUBSET DOMAIN strs', rules : SUBSET DOMAIN rules', dims : SUBSET DOMAIN dims']
  BY <1>1, <1>2, <1>4, HeapTypes
<1>7. QED
  BY <1>2, <1>3, <1>4, <1>5, <1>6, GrowthInv

LEMMA MakeRulesInv ==
  ASSUME IInv, NEW act \in Action, NEW a \in mine.strs, MakeRules(act, a)
  PROVE  IInv'
<1>1. TypeOK
  BY DEF IInv
<1>2. strs[a] \in Seq(Value)
  BY <1>1, HeapTypes
<1>3. /\ Room(strs) /\ Room(rules) /\ strs' = Put(strs, strs[a])
      /\ rules' = Put(rules, [act |-> act, vals |-> new(strs)])
      /\ mine' = [mine EXCEPT !.rules = @ \cup {new(rules)}]
      /\ UNCHANGED <<dims, engines>>
  BY DEF MakeRules, mustMatcher, Copied
<1>4. /\ Grows(strs, strs') /\ strs' \in [DOMAIN strs' -> Seq(Value)]
      /\ DOMAIN strs' = DOMAIN strs \cup {new(strs)} /\ new(strs) \notin DOMAIN strs
  BY <1>1, <1>2, <1>3, HeapTypes, PutStep
<1>5. [act |-> act, vals |-> new(strs)] \in RuleCell'
  BY <1>4 DEF RuleCell
<1>6. rules \in [DOMAIN rules -> RuleCell'] /\ dims' \in [DOMAIN dims' -> DimCell']
  BY <1>1, <1>3, <1>4, CellsGrow
<1>7. /\ Grows(rules, rules') /\ rules' \in [DOMAIN rules' -> RuleCell']
      /\ DOMAIN rules' = DOMAIN rules \cup {new(rules)} /\ new(rules) \notin DOMAIN rules
      /\ rules'[new(rules)] = [act |-> act, vals |-> new(strs)]
  <2>. DEFINE rule == [act |-> act, vals |-> new(strs)]
  <2>1. DOMAIN rules \subseteq Addr /\ rule \in RuleCell' /\ Room(rules)
    BY <1>1, <1>3, <1>5, HeapTypes
  <2>2. rules' = Put(rules, rule)
    BY <1>3
  <2>. HIDE DEF rule
  <2>3. /\ Grows(rules, Put(rules, rule)) /\ Put(rules, rule) \in [DOMAIN Put(rules, rule) -> RuleCell']
        /\ DOMAIN Put(rules, rule) = DOMAIN rules \cup {new(rules)}
        /\ new(rules) \notin DOMAIN rules /\ Put(rules, rule)[new(rules)] = rule
    BY <1>6, <2>1, PutStep
  <2>4. QED
    BY <2>2, <2>3 DEF rule
<1>8. mine' = [strs |-> mine.strs, rules |-> mine.rules \cup {new(rules)}, dims |-> mine.dims]
  BY <1>1, <1>3 DEF TypeOK
<1>9. mine' \in [strs : SUBSET DOMAIN strs', rules : SUBSET DOMAIN rules', dims : SUBSET DOMAIN dims']
  BY <1>1, <1>3, <1>4, <1>7, <1>8, HeapTypes
<1>10. \A r \in DOMAIN rules' \ DOMAIN rules : rules'[r].vals \notin mine'.strs
  BY <1>1, <1>4, <1>7, <1>8, HeapTypes
<1>11. Grows(dims, dims')
  BY <1>1, <1>3, HeapTypes
<1>12. QED
  BY <1>3, <1>4, <1>6, <1>7, <1>8, <1>9, <1>10, <1>11, GrowthInv

LEMMA MakeDimensionsInv ==
  ASSUME IInv, NEW a \in mine.strs, MakeDimensions(a)
  PROVE  IInv'
<1>1. TypeOK
  BY DEF IInv
<1>2. strs[a] \in Seq(Value) /\ Range(strs[a]) \in SUBSET Value
  BY <1>1, HeapTypes DEF Range
<1>. DEFINE dim == [values |-> new(strs), idx |-> Range(strs[a])]
<1>3. /\ Room(strs) /\ Room(dims) /\ strs' = Put(strs, strs[a]) /\ dims' = Put(dims, dim)
      /\ mine' = [mine EXCEPT !.dims = @ \cup {new(dims)}]
      /\ UNCHANGED <<rules, engines>>
  BY DEF MakeDimensions, Copied
<1>4. /\ Grows(strs, strs') /\ strs' \in [DOMAIN strs' -> Seq(Value)]
      /\ DOMAIN strs' = DOMAIN strs \cup {new(strs)} /\ new(strs) \notin DOMAIN strs
      /\ strs'[new(strs)] = strs[a]
  BY <1>1, <1>2, <1>3, HeapTypes, PutStep
<1>5. dim \in DimCell' /\ dim.values = new(strs) /\ dim.idx = Range(strs'[dim.values])
  BY <1>2, <1>4 DEF DimCell
<1>. HIDE DEF dim
<1>6. dims \in [DOMAIN dims -> DimCell'] /\ rules' \in [DOMAIN rules' -> RuleCell']
  BY <1>1, <1>3, <1>4, CellsGrow
<1>7. /\ Grows(dims, dims') /\ dims' \in [DOMAIN dims' -> DimCell']
      /\ DOMAIN dims' = DOMAIN dims \cup {new(dims)} /\ new(dims) \notin DOMAIN dims
      /\ dims'[new(dims)] = dim
  <2>1. DOMAIN dims \subseteq Addr
    BY <1>1, HeapTypes
  <2>2. QED
    BY <1>3, <1>5, <1>6, <2>1, PutStep
<1>8. mine' = [strs |-> mine.strs, rules |-> mine.rules, dims |-> mine.dims \cup {new(dims)}]
  BY <1>1, <1>3 DEF TypeOK
<1>9. mine' \in [strs : SUBSET DOMAIN strs', rules : SUBSET DOMAIN rules', dims : SUBSET DOMAIN dims']
  BY <1>1, <1>3, <1>4, <1>7, <1>8, HeapTypes
<1>10. \A d \in DOMAIN dims' \ DOMAIN dims :
         dims'[d].values \notin mine'.strs /\ dims'[d].idx = Range(strs'[dims'[d].values])
  BY <1>1, <1>4, <1>5, <1>7, <1>8, HeapTypes
<1>11. Grows(rules, rules')
  BY <1>1, <1>3, HeapTypes
<1>12. QED
  BY <1>3, <1>4, <1>6, <1>7, <1>8, <1>9, <1>10, <1>11, GrowthInv

-----------------------------------------------------------------------------
(***************************************************************************)
(* A cloned array of dimensions has strings of its own, of the same        *)
(* content; a cloned array of rules shares the strings of the other.       *)
(***************************************************************************)
LEMMA DimensionsCloned ==
  ASSUME IInv, NEW d \in DOMAIN dims, Room(strs), Room(dims),
         strs' = cloneDimensions(d).strs, dims' = cloneDimensions(d).heap
  PROVE  /\ Grows(strs, strs') /\ strs' \in [DOMAIN strs' -> Seq(Value)]
         /\ DOMAIN strs' = DOMAIN strs \cup {new(strs)} /\ new(strs) \notin DOMAIN strs
         /\ Grows(dims, dims') /\ dims' \in [DOMAIN dims' -> DimCell']
         /\ DOMAIN dims' = DOMAIN dims \cup {new(dims)} /\ new(dims) \notin DOMAIN dims
         /\ dims'[new(dims)].values = new(strs)
         /\ dims'[new(dims)].idx = Range(strs'[new(strs)])
         /\ strs'[new(strs)] = strs[dims[d].values]
<1>1. TypeOK /\ dims[d].idx = Range(strs[dims[d].values])
  BY DEF IInv, IndexIsRight
<1>. DEFINE values == strs[dims[d].values]
            dim == [values |-> new(strs), idx |-> dims[d].idx]
<1>2. values \in Seq(Value) /\ dims[d].idx \in SUBSET Value
  BY <1>1, HeapTypes DEF DimCell
<1>3. strs' = Put(strs, values) /\ dims' = Put(dims, dim)
  BY DEF cloneDimensions, Copied
<1>. HIDE DEF values, dim
<1>4. /\ Grows(strs, strs') /\ strs' \in [DOMAIN strs' -> Seq(Value)]
      /\ DOMAIN strs' = DOMAIN strs \cup {new(strs)} /\ new(strs) \notin DOMAIN strs
      /\ strs'[new(strs)] = values
  <2>1. DOMAIN strs \subseteq Addr /\ strs \in [DOMAIN strs -> Seq(Value)]
    BY <1>1, HeapTypes
  <2>2. /\ Grows(strs, Put(strs, values))
        /\ Put(strs, values) \in [DOMAIN Put(strs, values) -> Seq(Value)]
        /\ DOMAIN Put(strs, values) = DOMAIN strs \cup {new(strs)} /\ new(strs) \notin DOMAIN strs
        /\ Put(strs, values)[new(strs)] = values
    BY <1>2, <2>1, PutStep
  <2>3. QED
    BY <1>3, <2>2
<1>5. dim \in DimCell' /\ dim.values = new(strs) /\ dim.idx = Range(values)
  BY <1>1, <1>2, <1>4 DEF DimCell, values, dim
<1>6. dims \in [DOMAIN dims -> DimCell'] /\ DOMAIN dims \subseteq Addr
  BY <1>1, <1>4, CellsGrow, HeapTypes
<1>7. /\ Grows(dims, dims') /\ dims' \in [DOMAIN dims' -> DimCell']
      /\ DOMAIN dims' = DOMAIN dims \cup {new(dims)} /\ new(dims) \notin DOMAIN dims
      /\ dims'[new(dims)] = dim
  BY <1>3, <1>5, <1>6, PutStep
<1>8. QED
  BY <1>4, <1>5, <1>7 DEF values

LEMMA RulesCloned ==
  ASSUME IInv, NEW r \in DOMAIN rules, Room(rules), Grows(strs, strs'),
         rules' = cloneRules(r).heap
  PROVE  /\ Grows(rules, rules') /\ rules' \in [DOMAIN rules' -> RuleCell']
         /\ DOMAIN rules' = DOMAIN rules \cup {new(rules)} /\ new(rules) \notin DOMAIN rules
         /\ rules'[new(rules)] = rules[r]
         /\ rules[r].vals \in DOMAIN strs \ mine.strs
<1>1. TypeOK /\ rules[r].vals \notin mine.strs
  BY DEF IInv, StorageIsPrivate
<1>2. rules[r].vals \in DOMAIN strs
  BY <1>1, HeapTypes DEF RuleCell
<1>3. rules \in [DOMAIN rules -> RuleCell'] /\ DOMAIN rules \subseteq Addr
  BY <1>1, CellsGrow, HeapTypes
<1>4. rules' = Put(rules, rules[r]) /\ rules[r] \in RuleCell'
  BY <1>3 DEF cloneRules
<1>5. /\ Grows(rules, rules') /\ rules' \in [DOMAIN rules' -> RuleCell']
      /\ DOMAIN rules' = DOMAIN rules \cup {new(rules)} /\ new(rules) \notin DOMAIN rules
      /\ rules'[new(rules)] = rules[r]
  BY <1>3, <1>4, PutStep
<1>6. QED
  BY <1>1, <1>2, <1>5

LEMMA NewInv ==
  ASSUME IInv, NEW d \in mine.dims, NEW r \in mine.rules, New(d, r)
  PROVE  IInv'
<1>1. TypeOK
  BY DEF IInv
<1>2. d \in DOMAIN dims /\ r \in DOMAIN rules
  BY <1>1, HeapTypes
<1>. PICK e : e = [dims |-> new(dims), rules |-> new(rules), made |-> Content(d, r)]
  OBVIOUS
<1>3. /\ Room(strs) /\ Room(rules) /\ Room(dims)
      /\ strs' = cloneDimensions(d).strs /\ dims' = cloneDimensions(d).heap
      /\ rules' = cloneRules(r).heap /\ engines' = engines \cup {e} /\ mine' = mine
  BY DEF New, cloneDimensions, cloneRules
<1>4. /\ Grows(strs, strs') /\ strs' \in [DOMAIN strs' -> Seq(Value)]
      /\ DOMAIN strs' = DOMAIN strs \cup {new(strs)} /\ new(strs) \notin DOMAIN strs
      /\ Grows(dims, dims') /\ dims' \in [DOMAIN dims' -> DimCell']
      /\ DOMAIN dims' = DOMAIN dims \cup {new(dims)} /\ new(dims) \notin DOMAIN dims
      /\ dims'[new(dims)].values = new(strs)
      /\ dims'[new(dims)].idx = Range(strs'[new(strs)])
      /\ strs'[new(strs)] = strs[dims[d].values]
  BY <1>2, <1>3, DimensionsCloned
<1>5. /\ Grows(rules, rules') /\ rules' \in [DOMAIN rules' -> RuleCell']
      /\ DOMAIN rules' = DOMAIN rules \cup {new(rules)} /\ new(rules) \notin DOMAIN rules
      /\ rules'[new(rules)] = rules[r]
      /\ rules[r].vals \in DOMAIN strs \ mine.strs
  BY <1>2, <1>3, <1>4, RulesCloned
<1>6. mine' \in [strs : SUBSET DOMAIN strs', rules : SUBSET DOMAIN rules', dims : SUBSET DOMAIN dims']
  BY <1>1, <1>3, <1>4, <1>5 DEF TypeOK
<1>7. \A q \in DOMAIN rules' \ DOMAIN rules : rules'[q].vals \notin mine'.strs
  BY <1>3, <1>5
<1>8. \A q \in DOMAIN dims' \ DOMAIN dims :
        dims'[q].values \notin mine'.strs /\ dims'[q].idx = Range(strs'[dims'[q].values])
  BY <1>1, <1>3, <1>4, HeapTypes
<1>9. /\ e \in [rules : DOMAIN rules', dims : DOMAIN dims', made : Config]
      /\ e.rules \notin mine'.rules /\ e.dims \notin mine'.dims
      /\ Content(e.dims, e.rules)' = e.made
  <2>1. Content(d, r) \in Config
    BY <1>1, <1>2, ContentType
  <2>2. strs'[rules[r].vals] = strs[rules[r].vals]
    BY <1>4, <1>5 DEF Grows
  <2>3. Content(e.dims, e.rules)' = Content(d, r)
    BY <1>4, <1>5, <2>2 DEF Content
  <2>4. QED
    BY <1>1, <1>3, <1>4, <1>5, <2>1, <2>3, HeapTypes
<1>10. engines \subseteq engines' /\ \A f \in engines' \ engines : f = e
  BY <1>3
<1>11. QED
  BY <1>3, <1>4, <1>5, <1>6, <1>7, <1>8, <1>9, <1>10, GrowthInv

LEMMA RulesInv ==
  ASSUME IInv, NEW e \in engines, Rules(e)
  PROVE  IInv'
<1>1. TypeOK
  BY DEF IInv
<1>2. e.rules \in DOMAIN rules
  BY <1>1 DEF TypeOK
<1>3. /\ Room(rules) /\ rules' = cloneRules(e.rules).heap
      /\ mine' = [mine EXCEPT !.rules = @ \cup {new(rules)}]
      /\ UNCHANGED <<strs, dims, engines>>
  BY DEF Rules, cloneRules
<1>4. Grows(strs, strs') /\ Grows(dims, dims')
  BY <1>1, <1>3, HeapTypes
<1>5. /\ Grows(rules, rules') /\ rules' \in [DOMAIN rules' -> RuleCell']
      /\ DOMAIN rules' = DOMAIN rules \cup {new(rules)} /\ new(rules) \notin DOMAIN rules
      /\ rules'[new(rules)] = rules[e.rules]
      /\ rules[e.rules].vals \in DOMAIN strs \ mine.strs
  BY <1>2, <1>3, <1>4, RulesCloned
<1>6. strs' \in [DOMAIN strs' -> Seq(Value)] /\ dims' \in [DOMAIN dims' -> DimCell']
  BY <1>1, <1>3, <1>4, HeapTypes, CellsGrow
<1>7. mine' = [strs |-> mine.strs, rules |-> mine.rules \cup {new(rules)}, dims |-> mine.dims]
  BY <1>1, <1>3 DEF TypeOK
<1>8. mine' \in [strs : SUBSET DOMAIN strs', rules : SUBSET DOMAIN rules', dims : SUBSET DOMAIN dims']
  BY <1>1, <1>3, <1>5, <1>7, HeapTypes
<1>9. \A r \in DOMAIN rules' \ DOMAIN rules : rules'[r].vals \notin mine'.strs
  BY <1>5, <1>7
<1>10. QED
  BY <1>3, <1>4, <1>5, <1>6, <1>7, <1>8, <1>9, GrowthInv

LEMMA DimensionsInv ==
  ASSUME IInv, NEW e \in engines, Dimensions(e)
  PROVE  IInv'
<1>1. TypeOK
  BY DEF IInv
<1>2. e.dims \in DOMAIN dims
  BY <1>1 DEF TypeOK
<1>3. /\ Room(strs) /\ Room(dims)
      /\ strs' = cloneDimensions(e.dims).strs /\ dims' = cloneDimensions(e.dims).heap
      /\ mine' = [mine EXCEPT !.dims = @ \cup {new(dims)}]
      /\ UNCHANGED <<rules, engines>>
  BY DEF Dimensions, cloneDimensions
<1>4. /\ Grows(strs, strs') /\ strs' \in [DOMAIN strs' -> Seq(Value)]
      /\ DOMAIN strs' = DOMAIN strs \cup {new(strs)} /\ new(strs) \notin DOMAIN strs
      /\ Grows(dims, dims') /\ dims' \in [DOMAIN dims' -> DimCell']
      /\ DOMAIN dims' = DOMAIN dims \cup {new(dims)} /\ new(dims) \notin DOMAIN dims
      /\ dims'[new(dims)].values = new(strs)
      /\ dims'[new(dims)].idx = Range(strs'[new(strs)])
  BY <1>2, <1>3, DimensionsCloned
<1>5. Grows(rules, rules') /\ rules' \in [DOMAIN rules' -> RuleCell']
  BY <1>1, <1>3, <1>4, HeapTypes, CellsGrow
<1>6. mine' = [strs |-> mine.strs, rules |-> mine.rules, dims |-> mine.dims \cup {new(dims)}]
  BY <1>1, <1>3 DEF TypeOK
<1>7. mine' \in [strs : SUBSET DOMAIN strs', rules : SUBSET DOMAIN rules', dims : SUBSET DOMAIN dims']
  BY <1>1, <1>3, <1>4, <1>6, HeapTypes
<1>8. \A d \in DOMAIN dims' \ DOMAIN dims :
        dims'[d].values \notin mine'.strs /\ dims'[d].idx = Range(strs'[dims'[d].values])
  BY <1>1, <1>4, <1>6, HeapTypes
<1>9. /\ mine'.strs \cap DOMAIN strs \subseteq mine.strs
      /\ mine'.rules \cap DOMAIN rules \subseteq mine.rules
      /\ mine'.dims \cap DOMAIN dims \subseteq mine.dims
  BY <1>4, <1>6
<1>10. /\ \A r \in DOMAIN rules' \ DOMAIN rules : rules'[r].vals \notin mine'.strs
       /\ engines \subseteq engines' /\ engines' \ engines = {}
  BY <1>3
<1>11. QED
  BY <1>4, <1>5, <1>7, <1>8, <1>9, <1>10, GrowthInv

-----------------------------------------------------------------------------
LEMMA InitInv == Init => IInv
<1>. SUFFICES ASSUME Init PROVE IInv
  OBVIOUS
<1>1. TypeOK
  BY DEF Init, TypeOK
<1>2. DOMAIN rules = {} /\ DOMAIN dims = {} /\ engines = {}
  BY DEF Init
<1>3. StorageIsPrivate /\ IndexIsRight /\ EngineIsFrozen
  BY <1>2 DEF StorageIsPrivate, IndexIsRight, EngineIsFrozen
<1>4. QED
  BY <1>1, <1>3 DEF IInv

(***************************************************************************)
(* Every step of a caller and of the library preserves the invariant.      *)
(***************************************************************************)
LEMMA NextInv == IInv /\ [Next]_vars => IInv'
<1>. SUFFICES ASSUME IInv, [Next]_vars PROVE IInv'
  OBVIOUS
<1>. TypeOK
  BY DEF IInv
<1>1. ASSUME NEW s \in Strings, MakeStrings(s) PROVE IInv'
  <2>1. s \in Seq(Value)
    BY <1>1, StringsAssumption
  <2>2. QED
    BY <1>1, <2>1, NewStringsInv DEF MakeStrings
<1>2. ASSUME NEW a \in mine.strs, NEW i \in DOMAIN strs[a], NEW v \in Value, SetString(a, i, v)
      PROVE  IInv'
  BY <1>2, SetStringInv
<1>3. ASSUME NEW a \in mine.strs, AnyOf(a) PROVE IInv'
  <2>1. strs[a] \in Seq(Value)
    BY HeapTypes
  <2>2. QED
    BY <1>3, <2>1, NewStringsInv DEF AnyOf, Copied
<1>4. ASSUME NEW a \in mine.strs, MakeDimensions(a) PROVE IInv'
  BY <1>4, MakeDimensionsInv
<1>5. ASSUME NEW a \in mine.strs, NEW act \in Action, MakeRules(act, a) PROVE IInv'
  BY <1>5, MakeRulesInv
<1>6. ASSUME NEW a \in mine.rules, NEW b \in mine.rules, SetRule(a, b) PROVE IInv'
  BY <1>6, SetRuleInv
<1>7. ASSUME NEW a \in mine.dims, NEW b \in mine.dims, SetDimension(a, b) PROVE IInv'
  BY <1>7, SetDimensionInv
<1>8. ASSUME NEW d \in mine.dims, Values(d) PROVE IInv'
  <2>1. strs[dims[d].values] \in Seq(Value)
    BY HeapTypes DEF DimCell
  <2>2. QED
    BY <1>8, <2>1, NewStringsInv DEF Values, Copied
<1>9. ASSUME NEW d \in mine.dims, NEW r \in mine.rules, New(d, r) PROVE IInv'
  BY <1>9, NewInv
<1>10. ASSUME NEW e \in engines, Rules(e) PROVE IInv'
  BY <1>10, RulesInv
<1>11. ASSUME NEW e \in engines, Dimensions(e) PROVE IInv'
  BY <1>11, DimensionsInv
<1>12. CASE UNCHANGED vars
  BY <1>12 DEF vars, IInv, TypeOK, RuleCell, DimCell, StorageIsPrivate, IndexIsRight,
     EngineIsFrozen, Content
<1>13. QED
  BY <1>1, <1>2, <1>3, <1>4, <1>5, <1>6, <1>7, <1>8, <1>9, <1>10, <1>11, <1>12 DEF Next

(***************************************************************************)
(* The inductive invariant: types, whose storage it is, the index of every *)
(* dimension and what every engine was made of.                            *)
(***************************************************************************)
THEOREM InvariantHolds == Spec => []IInv
BY InitInv, NextInv, PTL DEF Spec

(***************************************************************************)
(* Memory is well formed: no rule, dimension or engine refers to an array  *)
(* there is not.                                                           *)
(***************************************************************************)
THEOREM TypeCorrect == Spec => []TypeOK
<1>1. IInv => TypeOK
  BY DEF IInv
<1>2. QED
  BY <1>1, InvariantHolds, PTL

(***************************************************************************)
(* The copies the library makes are enough: no caller can write to the     *)
(* strings of a rule or a dimension or to the arrays of an engine, for any *)
(* strings, in memory of any size.                                         *)
(***************************************************************************)
THEOREM StoragePrivate == Spec => []StorageIsPrivate
<1>1. IInv => StorageIsPrivate
  BY DEF IInv
<1>2. QED
  BY <1>1, InvariantHolds, PTL

(***************************************************************************)
(* The rules and values an engine reads are those its trie was made of, as *)
(* long as it lives.                                                       *)
(***************************************************************************)
THEOREM EnginesFrozen == Spec => []EngineIsFrozen
<1>1. IInv => EngineIsFrozen
  BY DEF IInv
<1>2. QED
  BY <1>1, InvariantHolds, PTL
=============================================================================
