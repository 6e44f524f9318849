------------------------------ MODULE Ownership ------------------------------
(***************************************************************************)
(* Who may write what an engine reads.  Callers hand slices to AnyOf, Dim, *)
(* Allow and the options of New, and get slices back from Values, Rules    *)
(* and Dimensions; they may go on writing to all of these.  Which copies   *)
(* the library makes, and which it saves, is dimension.go, rule.go and     *)
(* gorege.go; the trie of an engine is made of the strings there were when *)
(* New ran, and everything else reads its rules through memory.            *)
(*                                                                         *)
(* Memory is three heaps of arrays.  An array of rules holds one rule of   *)
(* one anyOf here, an array of dimensions one dimension.  The fields that  *)
(* decide are not exported: a caller assigns rules and dimensions whole.   *)
(***************************************************************************)
EXTENDS RuleModel

CONSTANTS
  Addr,       \* the addresses of each heap
  Strings     \* the lists of strings callers write down

ASSUME StringsAssumption == Strings \subseteq Seq(Value)

VARIABLES
  strs,      \* address -> strings
  rules,     \* address -> rule: its action, and where the strings of its anyOf are
  dims,      \* address -> dimension: where its values are, and its index, a set
  mine,      \* the arrays callers can write to
  engines    \* the engines: their two arrays, and what New made the trie of

vars == <<strs, rules, dims, mine, engines>>

RuleCell == [act : Action, vals : DOMAIN strs]
DimCell == [values : DOMAIN strs, idx : SUBSET Value]

TypeOK ==
  /\ DOMAIN strs \subseteq Addr /\ strs \in [DOMAIN strs -> Seq(Value)]
  /\ DOMAIN rules \subseteq Addr /\ rules \in [DOMAIN rules -> RuleCell]
  /\ DOMAIN dims \subseteq Addr /\ dims \in [DOMAIN dims -> DimCell]
  /\ mine \in [strs : SUBSET DOMAIN strs, rules : SUBSET DOMAIN rules, dims : SUBSET DOMAIN dims]
  /\ engines \subseteq [rules : DOMAIN rules, dims : DOMAIN dims, made : Config]

Init ==
  /\ strs = [a \in {} |-> <<>>]
  /\ rules = [a \in {} |-> <<>>]
  /\ dims = [a \in {} |-> <<>>]
  /\ mine = [strs |-> {}, rules |-> {}, dims |-> {}]
  /\ engines = {}

-----------------------------------------------------------------------------
Room(heap) == Addr \ DOMAIN heap /= {}

new(heap) == CHOOSE a \in Addr : a \notin DOMAIN heap

Put(heap, x) == [a \in DOMAIN heap \cup {new(heap)} |-> IF a = new(heap) THEN x ELSE heap[a]]

\* append([]string(nil), s...): where the copy is, and the heap with it.
Copied(a) == [at |-> new(strs), heap |-> Put(strs, strs[a])]

\* Mutant of mustMatcher: the matcher keeps the caller's slice.
mustMatcherShared(a) == [at |-> a, heap |-> strs]

mustMatcher(a) == Copied(a)

\* Mutant of cloneRules: the engine keeps the caller's slice.
cloneRulesShared(a) == [at |-> a, heap |-> rules]

\* A new array of the same rules: their matchers are shared.
cloneRules(a) == [at |-> new(rules), heap |-> Put(rules, rules[a])]

\* A new array, with values of its own; the index is shared.
cloneDimensions(a) ==
  LET values == Copied(dims[a].values)
  IN  [at |-> new(dims), strs |-> values.heap,
       heap |-> Put(dims, [values |-> values.at, idx |-> dims[a].idx])]

\* What is read from these arrays now.
Content(d, r) ==
  [dims |-> <<strs[dims[d].values]>>,
   rules |-> <<[act |-> rules[r].act, m |-> <<[kind |-> "anyOf", vals |-> strs[rules[r].vals]]>>]>>]

-----------------------------------------------------------------------------
\* A caller's own slices: made, and written to at any time.
MakeStrings(s) ==
  /\ Room(strs)
  /\ strs' = Put(strs, s)
  /\ mine' = [mine EXCEPT !.strs = @ \cup {new(strs)}]
  /\ UNCHANGED <<rules, dims, engines>>

SetString(a, i, v) ==
  /\ i \in DOMAIN strs[a]
  /\ strs' = [strs EXCEPT ![a] = [@ EXCEPT ![i] = v]]
  /\ UNCHANGED <<rules, dims, mine, engines>>

SetRule(a, b) ==
  rules' = [rules EXCEPT ![a] = rules[b]] /\ UNCHANGED <<strs, dims, mine, engines>>

SetDimension(a, b) ==
  dims' = [dims EXCEPT ![a] = dims[b]] /\ UNCHANGED <<strs, rules, mine, engines>>

\* The result is a slice the caller can write to.
AnyOf(a) ==
  /\ Room(strs)
  /\ strs' = Copied(a).heap
  /\ mine' = [mine EXCEPT !.strs = @ \cup {Copied(a).at}]
  /\ UNCHANGED <<rules, dims, engines>>

\* []Rule{Allow(x)} or []Rule{Deny(x)}; a []string of a Config goes the same way.
MakeRules(act, a) ==
  /\ Room(strs) /\ Room(rules)
  /\ strs' = mustMatcher(a).heap
  /\ rules' = Put(rules, [act |-> act, vals |-> mustMatcher(a).at])
  /\ mine' = [mine EXCEPT !.rules = @ \cup {new(rules)}]
  /\ UNCHANGED <<dims, engines>>

\* []Dimension{DimValues(s...)}
MakeDimensions(a) ==
  /\ Room(strs) /\ Room(dims)
  /\ strs' = Copied(a).heap
  /\ dims' = Put(dims, [values |-> Copied(a).at, idx |-> Range(strs[a])])
  /\ mine' = [mine EXCEPT !.dims = @ \cup {new(dims)}]
  /\ UNCHANGED <<rules, engines>>

Values(d) ==
  /\ Room(strs)
  /\ strs' = Copied(dims[d].values).heap
  /\ mine' = [mine EXCEPT !.strs = @ \cup {Copied(dims[d].values).at}]
  /\ UNCHANGED <<rules, dims, engines>>

\* WithDimensions and WithRules only remember the caller's slices: New copies them.
New(d, r) ==
  /\ Room(strs) /\ Room(rules) /\ Room(dims)
  /\ validateEngine(Content(d, r)) = "nil"
  /\ strs' = cloneDimensions(d).strs
  /\ dims' = cloneDimensions(d).heap
  /\ rules' = cloneRules(r).heap
  /\ engines' = engines \cup {[dims |-> cloneDimensions(d).at, rules |-> cloneRules(r).at,
                               made |-> Content(d, r)]}
  /\ UNCHANGED mine

Rules(e) ==
  /\ Room(rules)
  /\ rules' = cloneRules(e.rules).heap
  /\ mine' = [mine EXCEPT !.rules = @ \cup {cloneRules(e.rules).at}]
  /\ UNCHANGED <<strs, dims, engines>>

Dimensions(e) ==
  /\ Room(strs) /\ Room(dims)
  /\ strs' = cloneDimensions(e.dims).strs
  /\ dims' = cloneDimensions(e.dims).heap
  /\ mine' = [mine EXCEPT !.dims = @ \cup {cloneDimensions(e.dims).at}]
  /\ UNCHANGED <<rules, engines>>

Next ==
  \/ \E s \in Strings : MakeStrings(s)
  \/ \E a \in mine.strs :
       \/ \E i \in DOMAIN strs[a], v \in Value : SetString(a, i, v)
       \/ AnyOf(a) \/ MakeDimensions(a)
       \/ \E act \in Action : MakeRules(act, a)
  \/ \E a, b \in mine.rules : SetRule(a, b)
  \/ \E a, b \in mine.dims : SetDimension(a, b)
  \/ \E d \in mine.dims : Values(d) \/ \E r \in mine.rules : New(d, r)
  \/ \E e \in engines : Rules(e) \/ Dimensions(e)

Spec == Init /\ [][Next]_vars

-----------------------------------------------------------------------------
(***************************************************************************)
(* No caller can write to what a rule, a dimension or an engine reads:     *)
(* what the copies that are no longer made rely on ("matcher slices are    *)
(* immutable and shared", rule.go:126).                                    *)
(***************************************************************************)
StorageIsPrivate ==
  /\ \A r \in DOMAIN rules : rules[r].vals \notin mine.strs
  /\ \A d \in DOMAIN dims : dims[d].values \notin mine.strs
  /\ \A e \in engines : e.rules \notin mine.rules /\ e.dims \notin mine.dims

(***************************************************************************)
(* "Engine evaluates a frozen rule set" (gorege.go:5): whatever callers do *)
(* with the slices they gave or got, an engine reads the values and rules  *)
(* its trie was made of, so that Check and Explain go on agreeing, and the *)
(* index of a dimension is that of its values.                             *)
(***************************************************************************)
EngineIsFrozen ==
  \A e \in engines :
    /\ Content(e.dims, e.rules) = e.made
    /\ dims[e.dims].idx = Range(strs[dims[e.dims].values])
=============================================================================
