---------------------------- MODULE WarningAnalysis ----------------------------
(***************************************************************************)
(* The rule analysis New runs on a validated engine (buildWarnings in      *)
(* gorege.go, conflict.go): which rules are dead, which are shadowed, and  *)
(* which were left unchecked because enumerating the tuples they match     *)
(* exceeds what remains of the tuple budget.                               *)
(*                                                                         *)
(* One step is one tuple handed to the trie.  The trie's answer is the     *)
(* first matching rule, which is what RuleTrie establishes of search.      *)
(***************************************************************************)
EXTENDS RuleModel, FiniteSetsExt

CONSTANTS
  Configs,                 \* the configurations New is called with
  Limits,                  \* the values given to WithAnalysisLimit
  DefaultAnalysisLimit,    \* used for limit 0
  MaxInt                   \* the largest int64

ASSUME LimitsAssumption ==
  /\ Configs \subseteq Config
  /\ MaxInt \in Nat \ {0}
  /\ Limits \subseteq Int
  /\ \A l \in Limits : l <= MaxInt
  /\ DefaultAnalysisLimit \in 1 .. MaxInt

VARIABLES
  cfg,             \* the engine's dimensions and rules
  configured,      \* the configured analysis limit
  pc,              \* "start", "count", "cartesian", "budget", "walk" or "done"
  out,             \* the warnings so far
  deadMask,        \* the dead rules
  wins,            \* the rules seen to win a tuple
  liveRemaining,   \* cartesian: live rules that have not won yet
  remaining,       \* budgeted: tuples left
  rule,            \* budgeted: the rule being analysed
  effective,       \* budgeted: the value lists, refilled for each rule in turn
  indices,         \* the odometer of the product walk, 0-based
  checked,         \* budgeted: rules whose walk ended with a verdict
  unchecked,       \* budgeted: rules over the remaining budget
  searches         \* history: how many tuples were handed to the trie

vars == <<cfg, configured, pc, out, deadMask, wins, liveRemaining, remaining,
          rule, effective, indices, checked, unchecked, searches>>

N == Len(cfg.rules)
All == RuleIndexes(cfg)
Live == All \ deadMask

limit == IF configured = 0 THEN DefaultAnalysisLimit ELSE configured

\* The warnings of one kind, in rule order.
Warnings(kind, js) ==
  LET upTo[j \in 0 .. N] ==
        IF j = 0 THEN <<>>
        ELSE IF j - 1 \in js THEN Append(upTo[j - 1], [kind |-> kind, rule |-> j - 1])
        ELSE upTo[j - 1]
  IN  upTo[N]

-----------------------------------------------------------------------------
\* The matcher at dimension i: omitted ones are wildcards.
MatcherAt(r, i) == IF i <= Len(r.m) THEN r.m[i] ELSE Wildcard

\* Mutant of matcherHasEffectiveValue: an empty anyOf passes for a live matcher.
matcherInDeclaredDim(m, dim) == m.kind = "wildcard" \/ dim /= <<>>

matcherHasEffectiveValue(m, dim) ==
  IF m.kind = "wildcard" THEN dim /= <<>> ELSE \E v \in Range(m.vals) : contains(dim, v)

isDeadRule(r, dims) ==
  \E i \in 1 .. Len(dims) :
    dims[i] = <<>> \/ ~matcherHasEffectiveValue(MatcherAt(r, i), dims[i])

\* One factor of the product; the multiplication stops at an overflow (-1) and
\* as soon as the product is over the limit.
multiplyCount(total, factor, bound) ==
  IF total > MaxInt \div factor
  THEN [total |-> -1, stop |-> TRUE]
  ELSE [total |-> total * factor, stop |-> total * factor > bound]

tupleCount(dims, bound) ==
  LET upTo[i \in 0 .. Len(dims)] ==
        IF i = 0 THEN [total |-> 1, stop |-> FALSE]
        ELSE LET acc == upTo[i - 1]
             IN  IF acc.stop THEN acc
                 ELSE IF dims[i] = <<>> THEN [total |-> 0, stop |-> TRUE]
                 ELSE multiplyCount(acc.total, Len(dims[i]), bound)
  IN  upTo[Len(dims)].total

\* The declared ones of vals, each once.
DeclaredOnce(vals, dim) ==
  LET upTo[k \in 0 .. Len(vals)] ==
        IF k = 0 THEN <<>>
        ELSE LET acc == upTo[k - 1]
             IN  IF contains(dim, vals[k]) /\ vals[k] \notin Range(acc)
                 THEN Append(acc, vals[k]) ELSE acc
  IN  upTo[Len(vals)]

\* The values rule r is enumerated over at dimension i: an anyOf is filtered to
\* declared values, each once; an exact value was validated.
Effective(r, i) ==
  LET m == MatcherAt(r, i)
  IN  CASE m.kind = "wildcard" -> cfg.dims[i]
        [] m.kind = "exact"    -> m.vals
        [] m.kind = "anyOf"    -> DeclaredOnce(m.vals, cfg.dims[i])

EffectiveLists(r) == [i \in 1 .. Len(cfg.dims) |-> Effective(r, i)]

\* Mutant of Feasible: each factor is compared with the budget, not the product.
FeasibleFactors(lists, budget) == \A i \in DOMAIN lists : Len(lists[i]) <= budget

\* multiplyWithinBudget over the lists: the product stays within the budget.
\* (A division per factor, so no product is ever larger than an int64.)
Feasible(lists, budget) ==
  LET upTo[i \in 0 .. Len(lists)] ==
        IF i = 0 THEN [total |-> 1, ok |-> TRUE]
        ELSE LET acc == upTo[i - 1]
             IN  IF ~acc.ok THEN acc
                 ELSE IF acc.total > budget \div Len(lists[i]) THEN [acc EXCEPT !.ok = FALSE]
                 ELSE [total |-> acc.total * Len(lists[i]), ok |-> TRUE]
  IN  upTo[Len(lists)].ok

\* Mutant of Refilled: a dimension the rule omits keeps the list it has.
RefilledIfGiven(r) ==
  [i \in DOMAIN cfg.dims |->
     IF i > Len(r.m) /\ effective[i] /= <<>> THEN effective[i] ELSE Effective(r, i)]

\* The value lists once rule r was looked at: its own up to the one that takes the
\* product over the budget; the lists behind are as an earlier rule left them.
Refilled(r) ==
  [i \in DOMAIN cfg.dims |->
     IF Feasible(SubSeq(EffectiveLists(r), 1, i - 1), remaining)
     THEN Effective(r, i) ELSE effective[i]]

-----------------------------------------------------------------------------
\* The odometer over the lists: the last position turns fastest.
FirstIndices(lists) == [i \in DOMAIN lists |-> 0]

TupleAt(lists, ix) == [i \in DOMAIN lists |-> lists[i][ix[i] + 1]]

Turnable(lists, ix) == {i \in DOMAIN lists : ix[i] + 1 < Len(lists[i])}

Exhausted(lists, ix) == Turnable(lists, ix) = {}

\* Mutants of Advance: the last position turns past its end; a carry leaves the
\* positions behind it where they are.
AdvanceWithoutCarry(lists, ix) == [ix EXCEPT ![Len(lists)] = @ + 1]

AdvanceWithoutReset(lists, ix) == [ix EXCEPT ![Max(Turnable(lists, ix))] = @ + 1]

Advance(lists, ix) ==
  LET i == Max(Turnable(lists, ix))
  IN  [k \in DOMAIN lists |-> IF k < i THEN ix[k] ELSE IF k = i THEN ix[k] + 1 ELSE 0]

\* root.search
search(tuple) ==
  CHOOSE x \in All \cup {noMatch} : IsFirst(Matching(cfg, tuple, FALSE), x)

-----------------------------------------------------------------------------
Init ==
  /\ cfg \in {c \in Configs : validateEngine(c) = "nil"}
  /\ configured \in Limits
  /\ pc = "start"
  /\ out = <<>>
  /\ deadMask = {}
  /\ wins = {}
  /\ liveRemaining = 0
  /\ remaining = 0
  /\ rule = 0
  /\ effective = <<>>
  /\ indices = <<>>
  /\ checked = {}
  /\ unchecked = {}
  /\ searches = 0

\* A negative limit disables the analysis; dead rules need no enumeration.
FindDead ==
  /\ pc = "start"
  /\ IF configured < 0
     THEN pc' = "done" /\ UNCHANGED <<deadMask, out>>
     ELSE /\ deadMask' = {j \in All : isDeadRule(Rule(cfg, j), cfg.dims)}
          /\ out' = Warnings("dead", deadMask')
          /\ pc' = IF N = 0 THEN "done" ELSE "count"
  /\ UNCHANGED <<cfg, configured, wins, liveRemaining, remaining, rule, effective,
                 indices, checked, unchecked, searches>>

\* A product within the limit is scanned whole, unless no rule is live.
ChooseCartesian ==
  /\ pc = "count"
  /\ tupleCount(cfg.dims, limit) \in 0 .. limit
  /\ liveRemaining' = Cardinality(Live)
  /\ pc' = IF Live = {} THEN "done" ELSE "cartesian"
  /\ indices' = FirstIndices(cfg.dims)
  /\ UNCHANGED <<cfg, configured, out, deadMask, wins, remaining, rule, effective,
                 checked, unchecked, searches>>

\* A larger product, or one that overflows, is analysed rule by rule.
ChooseBudgeted ==
  /\ pc = "count"
  /\ tupleCount(cfg.dims, limit) \notin 0 .. limit
  /\ remaining' = limit
  /\ effective' = [i \in DOMAIN cfg.dims |-> <<>>]
  /\ pc' = "budget"
  /\ UNCHANGED <<cfg, configured, out, deadMask, wins, liveRemaining, rule, indices,
                 checked, unchecked, searches>>

\* Mutant of FirstWin: every tuple a rule wins is counted.
AnyWin(fm) == fm >= 0

FirstWin(fm) == fm >= 0 /\ fm \notin wins

\* One tuple of the whole product; the scan stops once every live rule has won.
ScanTuple ==
  /\ pc = "cartesian"
  /\ LET fm == search(TupleAt(cfg.dims, indices))
     IN  IF FirstWin(fm)
         THEN wins' = wins \cup {fm} /\ liveRemaining' = liveRemaining - 1
         ELSE UNCHANGED <<wins, liveRemaining>>
  /\ searches' = searches + 1
  /\ IF liveRemaining' > 0 /\ ~Exhausted(cfg.dims, indices)
     THEN indices' = Advance(cfg.dims, indices) /\ UNCHANGED <<pc, out>>
     ELSE /\ pc' = "done"
          /\ out' = out \o Warnings("shadowed", Live \ wins')
          /\ UNCHANGED indices
  /\ UNCHANGED <<cfg, configured, deadMask, remaining, rule, effective, checked,
                 unchecked>>

\* Mutant of PassRule: a rule over the budget is left on the worklist.
PassRuleRetrying ==
  /\ pc = "budget"
  /\ rule < N
  /\ \/ rule \in deadMask /\ rule' = rule + 1 /\ UNCHANGED <<effective, unchecked>>
     \/ /\ rule \in Live
        /\ ~Feasible(EffectiveLists(Rule(cfg, rule)), remaining)
        /\ effective' = Refilled(Rule(cfg, rule))
        /\ unchecked' = unchecked \cup {rule}
        /\ UNCHANGED rule
  /\ UNCHANGED <<cfg, configured, pc, out, deadMask, wins, liveRemaining, remaining,
                 indices, checked, searches>>

\* The next rule of the budgeted analysis: a dead one is passed over, one over
\* the remaining budget is left unchecked and takes nothing from the budget.
PassRule ==
  /\ pc = "budget"
  /\ rule < N
  /\ \/ rule \in deadMask /\ UNCHANGED <<effective, unchecked>>
     \/ /\ rule \in Live
        /\ ~Feasible(EffectiveLists(Rule(cfg, rule)), remaining)
        /\ effective' = Refilled(Rule(cfg, rule))
        /\ unchecked' = unchecked \cup {rule}
  /\ rule' = rule + 1
  /\ UNCHANGED <<cfg, configured, pc, out, deadMask, wins, liveRemaining, remaining,
                 indices, checked, searches>>

BeginRule ==
  /\ pc = "budget"
  /\ rule < N
  /\ rule \in Live
  /\ Feasible(EffectiveLists(Rule(cfg, rule)), remaining)
  /\ pc' = "walk"
  /\ effective' = Refilled(Rule(cfg, rule))
  /\ indices' = FirstIndices(effective')
  /\ UNCHANGED <<cfg, configured, out, deadMask, wins, liveRemaining, remaining, rule,
                 checked, unchecked, searches>>

\* One tuple the rule matches; its walk ends at the first one it wins.
WalkTuple ==
  /\ pc = "walk"
  /\ remaining' = remaining - 1
  /\ searches' = searches + 1
  /\ LET won == search(TupleAt(effective, indices)) = rule
     IN  /\ wins' = IF won THEN wins \cup {rule} ELSE wins
         /\ IF won \/ Exhausted(effective, indices)
            THEN /\ checked' = checked \cup {rule}
                 /\ rule' = rule + 1
                 /\ pc' = "budget"
                 /\ UNCHANGED indices
            ELSE /\ indices' = Advance(effective, indices)
                 /\ UNCHANGED <<checked, rule, pc>>
  /\ UNCHANGED <<cfg, configured, out, deadMask, liveRemaining, effective, unchecked>>

\* After the last rule: the shadowed ones, then the unchecked ones.
ReportBudgeted ==
  /\ pc = "budget"
  /\ rule = N
  /\ pc' = "done"
  /\ out' = out \o Warnings("shadowed", (Live \cap checked) \ wins)
                \o Warnings("unchecked", unchecked)
  /\ UNCHANGED <<cfg, configured, deadMask, wins, liveRemaining, remaining, rule,
                 effective, indices, checked, unchecked, searches>>

Next ==
  \/ FindDead
  \/ ChooseCartesian
  \/ ChooseBudgeted
  \/ ScanTuple
  \/ PassRule
  \/ BeginRule
  \/ WalkTuple
  \/ ReportBudgeted

\* New runs the analysis to its end on the caller's goroutine.
Spec == Init /\ [][Next]_vars /\ WF_vars(Next)

-----------------------------------------------------------------------------
(***************************************************************************)
(* Types of the state; in the walk of a rule the odometer stands on a      *)
(* tuple of its product.                                                   *)
(***************************************************************************)
TypeOK ==
  /\ cfg \in Config
  /\ pc \in {"start", "count", "cartesian", "budget", "walk", "done"}
  /\ out \in Seq([kind : {"dead", "shadowed", "unchecked"}, rule : All])
  /\ deadMask \cup wins \cup checked \cup unchecked \subseteq All
  /\ rule \in 0 .. N
  /\ pc = "cartesian" => \A i \in DOMAIN cfg.dims : indices[i] \in 0 .. Len(cfg.dims[i]) - 1
  /\ pc = "walk" => \A i \in DOMAIN cfg.dims : indices[i] \in 0 .. Len(effective[i]) - 1

Sized(lists) ==
  Cardinality({ix \in [DOMAIN lists -> 0 .. Max({Len(lists[i]) : i \in DOMAIN lists})] :
                 \A i \in DOMAIN lists : ix[i] < Len(lists[i])})

DeclaredTuples ==
  {t \in Tuples(Len(cfg.dims)) : \A i \in DOMAIN cfg.dims : contains(cfg.dims[i], t[i])}

TrulyDead == {j \in All : \A t \in DeclaredTuples : j \notin Matching(cfg, t, FALSE)}

TrulyShadowed ==
  {j \in All \ TrulyDead : \A t \in DeclaredTuples : ~IsFirst(Matching(cfg, t, FALSE), j)}

(***************************************************************************)
(* The warnings are right and complete: "dead" for exactly the rules that  *)
(* match no declared tuple, "shadowed" for exactly the others that are     *)
(* first for none, except for the live rules reported as unchecked; each   *)
(* kind in rule order, and nothing unchecked when the product is within    *)
(* the limit.  Whether the scan ended early, walked a filtered product or  *)
(* ran out of budget must not show.                                        *)
(***************************************************************************)
VerdictsAreRight ==
  pc = "done" /\ configured >= 0 =>
    /\ out = Warnings("dead", TrulyDead)
             \o Warnings("shadowed", TrulyShadowed \ unchecked)
             \o Warnings("unchecked", unchecked)
    /\ unchecked \cap TrulyDead = {}
    /\ unchecked /= {} => Sized(cfg.dims) > limit

(***************************************************************************)
(* The tuple budget is global: the whole analysis never searches more      *)
(* tuples than the limit, and the budget left is what was not searched.    *)
(***************************************************************************)
BudgetIsGlobal ==
  /\ configured >= 0 => searches <= limit
  /\ pc \in {"budget", "walk"} => remaining = limit - searches

(***************************************************************************)
(* The counter that ends the cartesian scan early counts the live rules    *)
(* that have not won; it would report live rules as shadowed if a dead     *)
(* rule, or one rule twice, were ever counted.                             *)
(***************************************************************************)
CounterCountsLosers ==
  pc = "cartesian" => wins \subseteq Live /\ liveRemaining = Cardinality(Live \ wins)

(***************************************************************************)
(* multiplyWithinBudget divides by the number of values of each dimension  *)
(* for the rule: it is never zero, because dead rules never get there.     *)
(***************************************************************************)
DivisorsArePositive ==
  pc = "budget" /\ rule \in Live =>
    \A i \in DOMAIN cfg.dims : Effective(Rule(cfg, rule), i) /= <<>>

(***************************************************************************)
(* A rule is skipped exactly when its own product is over the budget that  *)
(* is left at that point, and skipping it leaves the budget to the rules   *)
(* behind it.                                                              *)
(***************************************************************************)
SkipsOverBudget ==
  pc = "budget" /\ rule \in Live =>
    LET over == Sized(EffectiveLists(Rule(cfg, rule))) > remaining
    IN  /\ unchecked' = IF over THEN unchecked \cup {rule} ELSE unchecked
        /\ pc' = IF over THEN "budget" ELSE "walk"
        /\ remaining' = remaining

OnlyOverBudgetIsSkipped == [][SkipsOverBudget]_vars

(***************************************************************************)
(* The analysis comes to an end, so New returns.                           *)
(***************************************************************************)
AnalysisTerminates == <>(pc = "done")
=============================================================================
