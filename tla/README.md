# Verification of gorege in TLA+

gorege decides whether a tuple of strings (for example role, method, resource) is
allowed by a list of ALLOW and DENY rules, the first matching rule winning. This
directory holds TLA+ models of it, the TLC configurations that check them on small
instances, and proofs checked by TLAPS that hold for every instance.

All paths are relative to the repository root.

## The system

### Components

| Component | Code | State | Operations |
|---|---|---|---|
| Rule and dimension model | `dimension.go`, `rule.go` | slices, copied or shared | `contains`, `matches`, `unconstrainedMatch`, constructors, accessors |
| Construction and validation | `gorege.go` | the options, then the immutable `Engine` | `New`, `validateEngine` |
| Decision API | `check.go`, `result.go` | none of its own | `Check`, `Explain`, `PartialCheck` |
| Rule trie | `trie.go` | the nodes, their children and `minRuleIdx`; the recursion of a search | `insert`, `buildTrie`, `search` |
| Rule analysis | `conflict.go`, `buildWarnings` | dead mask, wins, budget, odometer | `tupleCount`, both shadow analyses |
| Nearest allowed tuple | `closest.go` | one pool of scratch slices for the process; per call a subset, loops and a slice | `Closest`, `ClosestIn` |
| Loader | `loader.go` | none | `Load...`, `NewFromConfig` |
| Schema | `schema/` | none | (data) |
| `gorege diff` | `cmd/gorege/diff.go` | counters and transitions | `runDiff` |
| Other commands | `cmd/gorege/main.go` | none; the file may change between two of them | `check`, `explain`, `partial-check`, `closest`, `closest-in`, `lint` |
| HTTP example | `examples/http_authz` | atomic pointer to the engine, signal channel, handlers | `load`, `check`, `explain`, `Middleware` |
| Other examples | `examples/...` | an atomic pointer, used by one goroutine | straight-line programs |

### How they interact

`New` validates the options, builds the trie rule by rule and runs the analysis, which
hands tuples to the trie's `search`. `Check` goes to the trie; `Explain` and
`PartialCheck` scan the rules linearly. `Closest` and `ClosestIn` call `Check` on
candidates they form in a scratch slice of a pool that all goroutines and all engines
share. The loader makes options out of JSON. The commands and examples load a file and
call the API; the HTTP example also replaces its engine while requests are served.

### What is hard, and what has to be right

* *Two algorithms, one verdict.* `Check` and `Explain` never share a line, and the
  trie prunes. They must agree on every input: undeclared values, short rules, anyOf
  fan-out, empty dimensions. The trie must hold, at every node, the first rule below it.
* *A partial reading of the rules.* `PartialCheck` treats trailing matchers of ALLOW and
  DENY rules differently. Its refusals must be final; on a full tuple it must be `Check`.
* *A budget.* The analysis ends early, in two ways, skips rules, and multiplies sizes
  that overflow. None of this may change a verdict it does give.
* *Shared scratch memory.* Concurrent searches take slices from one pool and write to
  them between two `Check`s, backtracking in place.
* *Enumeration order.* Subsets of dimensions come from two hand-written enumerations;
  missing one, or one out of order, gives an answer that is only sometimes not nearest.
* *Shared slices.* Callers keep the slices they hand in and may write to those they get.
  Some are copied, and since matchers are "immutable and shared" some no longer are. The
  trie keeps the strings it was made of; everything else reads the slices.
* *Children that move.* A node's children are a slice up to 16 and a map from the 17th
  on; nothing may be lost, doubled or left behind in the move.
* *Reload.* A new engine replaces the old one under running requests, on signals that
  coalesce, from a file others edit while it is read. Each request must be judged by one
  engine that was in force, a failed load must change nothing, and what was in the file
  at the last signal must be served in the end.
* *From a file to an exit code.* Scripts act on the exit codes of the commands. Between
  the text of a rule and the code stand trimming, letter case, wildcards in two
  spellings, names that look like indexes, a tuple limit whose product can overflow and
  a report that is cut off.

`PROJECT.json` lists each hazard with its line and the properties that cover it.

## The modules

| Module | Models | Checked by | Proved in |
|---|---|---|---|
| `RuleModel` | the data and the pure functions over it | (used by all) | |
| `Ownership` | which slices the library copies and which it shares | `MCOwnership` | `OwnershipProofs` |
| `Engine` | what a caller of an engine is promised | `MCEngine` | `EngineProofs` |
| `RuleTrie` | construction of the trie and `Check` through it; implements `Engine` | `MCRuleTrie` | `RuleTrieProofs` |
| `ChildMap` | what the children of a node are to `RuleTrie` | (abstract) | |
| `ChildStore` | the slice that becomes a map; implements `ChildMap` | `MCChildStore` | `ChildStoreProofs` |
| `WarningAnalysis` | `buildWarnings` and both shadow analyses | `MCWarningAnalysis` | `WarningAnalysisProofs` |
| `ClosestModel` | the selector of `ClosestIn`; which tuples are candidates | (used by two) | |
| `Closest` | `Closest`, `ClosestIn` and the scratch pool | `MCClosest` | `ClosestProofs` |
| `Loader` | from a file to the options of `New`, `New`'s merging of them, and the schema | (used by three) | `CommandLineProofs` |
| `Commands` | the command line except `diff` | `MCCommands` | `CommandLineProofs` |
| `Diff` | `gorege diff` | `MCDiff` | `CommandLineProofs` |
| `Authorizer` | what a service that reloads its rules promises | (abstract) | |
| `HotReload` | the example server; implements `Authorizer` | `MCHotReload` | `HotReloadProofs` |

`RuleModel` is at the bottom of all but the two abstract modules and `ChildStore`.

    RuleModel <- Engine          RuleTrie implements Engine
    RuleModel <- RuleTrie        ChildStore implements ChildMap
    RuleModel <- Ownership
    RuleModel <- WarningAnalysis
    RuleModel <- ClosestModel <- Closest
    RuleModel <- Loader <- Diff
    Loader, ClosestModel <- Commands
    Loader <- HotReload          HotReload implements Authorizer

Each module stands on what another one establishes. All of them take an engine for a
value, which `Ownership` shows it is to its callers. `RuleTrie` takes a node's children
for a map, which `ChildStore` shows they are. Where the code calls `search`, `Check` or
`Explain`, the modules above take the first rule that matches, which `RuleTrie` shows is
what they answer. Where a command calls `Closest`, `Commands` takes any nearest tuple,
which `Closest` shows is what it answers.

### RuleModel

A dimension is the sequence of its declared values; empty means any string. A rule is
an action and its matchers, `[kind, vals]`. Rule indexes are 0-based as in the code and
`Rule(c, j)` is rule `j`; `noMatch` is -1. `ruleMatches`, `matches`,
`unconstrainedMatch` and `contains` are the functions of these names. `Open(dim, v)` is
the test the code writes as `len(dim.values) == 0 || dim.contains(v)`.
`validateEngine(c)` is the error of the first invalid rule. The error is the same
whichever matcher of a rule is at fault, so it does not name one. The branch of
`validateMatcher` for a missing dimension cannot be reached, because a rule that is too
wide is refused first; it is not modelled.

### Ownership

Memory is three heaps, of arrays of strings, of rules and of dimensions, `mine` the arrays
callers can write to. The callers' actions (`MakeStrings`, `SetString`, `SetRule`,
`SetDimension`) write to any of them at any time; `AnyOf`, `MakeRules` (`Allow`, `Deny`,
or a slot of a `Config`), `MakeDimensions`, `Values`, `New`, `Rules` and `Dimensions` are
the functions that take slices or give them out, each with the copies it makes.
An array of rules holds one rule of one anyOf, an array of dimensions one dimension:
copying treats every element alike. `made` is what `New` read when it built the trie.
Exact matchers and wildcards hold no slice of a caller's and are left out, and so is the
exported `Name` of a rule, which no decision reads.

### Engine

`cfg` is what the options amount to, `status` whether `New` has run and how, `last` the
answer in flight (`NoCall` between calls). One action per operation: `New`, `Check`,
`Explain`, `PartialCheck`, and `Return`, in which the caller takes the answer. An engine
is immutable, so calls change `last` only. This is the specification a user of the
library reasons with; it says nothing about the trie.

### RuleTrie

A node is named by the path of keys that leads to it (a value, or `Wild`), and `trie`
maps the paths of the nodes that exist to `minRuleIdx`. `insert(j)` is one
`root.insert(dims, rules[j], j, 0)`, which visits the node of every path through the
rule's matchers: an anyOf fans out, an omitted matcher is a wildcard. `InsertRule` is
one iteration of `buildTrie`.

The recursion of `search` is explicit. `path` is the node the walk stands at and
`best[k]` the local variable of the open frame at depth `k - 1`. `Enter` is the start of
a frame up to the call on the exact child (trie.go:91-116), `EnterWild` the tests in
front of the wildcard child and the return when they fail (125-139), `ReturnFromChild`
the merge of a child's result with the early return on rule 0 (117-122, 131-138),
`Finish` the return to `eval`. `Explain` and `PartialCheck` do not go through the trie
and are modelled in `Engine` only.

### WarningAnalysis

`FindDead` is the loop over the rules; `ChooseCartesian` and `ChooseBudgeted` the
decision on `tupleCount`, with its overflow and its early exit. In the cartesian
analysis `ScanTuple` is one callback of `walkCartesian`. In the budgeted one `PassRule`
passes over a dead or infeasible rule, `BeginRule` starts a walk, `WalkTuple` is one
callback of `walkValueProduct`, and `ReportBudgeted` writes the warnings. `Advance` is
the odometer. `searches` is a history variable. A warning is its kind and rule.
`effective` holds the value lists, which the code allocates once and refills from rule to
rule: `Refilled` writes them up to the one that takes the product over the budget and
leaves the rest as they were, and `WalkTuple` reads `effective`, not the rule.

### Closest

`g[p]` is the call of goroutine `p`: its subset of dimensions, the open loops of
`searchSubsetDFS` (`at`), its scratch slice. `mem` holds the slices' contents, `pool`
what `curPool` holds. `GetScratch` takes a pooled slice or a new one and copies the
input into it; `TryValue`, `EndLoop` and `CheckCandidate` are the steps of the
backtracking, each with the one write to the slice it makes; `PutScratch` ends a subset.
`DropPooled` is the garbage collector. `ClosestIn` is the same search on one fixed
dimension; its loop does what `searchSubsetDFS` does on a subset of one. Dimensions are
numbered from 1. The two subset orders are `nextCombo` and `nextRightmost`, the latter
being the order the recursion of `trySubsetsRightmost` visits. `TiebreakIsHonoured` says
what both are for without them: of two sets of a size, the strategy prefers the one that
has the outermost dimension in which they differ (`Preferred`).

Engines of different arity share the pool. A slice therefore holds more than the tuple:
`Loaded` overwrites the front with the input and leaves the rest, and a search looks at
the first `D(p)` places only.

`resolveDim(sel, names)` is the function of that name. A selector is its Go type and its
value; the signed types are converted to `int` first (`toInt`, of `IntBits` bits), the
unsigned ones compared as they are. `Candidates` and `Nearest` say what the searches are
to find, and the properties of `Closest` compare with them.

### ChildStore

The children of one node: `children` is the slice, `childrenMap` the map, nodes are
numbered in the order of their creation. `getOrCreateChild` is one call of the method,
with the move in `upgrade`, and `find` the lookup at the start of `search`. A nil map is
an empty one, since a map that is made here is never empty. `ChildMap` is the abstract
map: a key gets a node no other key has, and keeps it.

### Loader

A file is its extension, whether its content can be read and decoded, and the struct it
decodes to; a condition slot is a JSON value. `LoadFileWithOptions`, `NewFromConfig`,
`dimensionsFromFile`, `rulesFromFile`, `parseAction` and `matcherFromSlot` are the
functions of these names, with their errors in the order the code meets them. `New`
merges options (`Setting`: the last of a kind decides) and validates. `TrimSpace` and
`ToUpper` are constants, tables of what they do to the strings of an instance. In YAML a
list may arrive as `[]string`; it is treated as the list it is.

`Decoded` is the type of what `encoding/json` fills in, `IsFile` that only a file that is
read and decoded has a content.

The module also states the file as a person reads it (`SlotAdmits`, `RuleAdmits`,
`FileLoads`, `FileAllows`), written without the functions above. A star, in any padding,
and a condition that is left out stand for every declared value of their dimension. The
properties of `Commands` and `Diff` compare with that reading, and the proofs show that
the functions above amount to it for every file. `SchemaAccepts` is the JSON schema.

### Commands

`ran` is the invocation that has just ended: its words, where warnings went, what kind
of thing is on stdout, the exit code. One action per command; `usage` is what all of
them and `realMain` do with too few words; `Again` lets the caller go on, with a file
that may have been edited. `HasWarnings` stands for the outcome of the analysis.

### Diff

`Refuse` and `Accept` are the command line (`splitDiffArgs` word by word, then the
flags), `FailLoad` and `Start` both loads, the comparison of dimensions and the limit,
`Visit` one callback of `walkProduct`, `Report` the sort, the report in either format
and the exit code. `Opened(1)` is what the old file loads to, `Opened(2)` the new one, and
`cur` the positions the recursion of `walkProduct` stands on. `product` multiplies with
`Wrap`, in an integer whose largest value is `MaxInt`. `sortTransitions(ts)` is the set of
the stable sortings of `ts`: `less` is the comparison the code passes to `sort.SliceStable`,
and `Sorting` what that function promises. `JoinBefore` is the order of joined tuples; the
code joins with `|`, so tuples with a `|` in a value may compare alike, and nothing is
assumed of it. The names that `Commands` has too begin with `Diff` (`DiffInit`, `DiffNext`,
`DiffSpec`, `DiffTypeOK`, `DiffDims`), so that one module can prove about both.

### HotReload

`phase` is where `main` stands. `load` is the load in progress, of `main` first and of
the reloading goroutine afterwards: `ReadFile` reads and builds, `Store` stores or keeps
what was there, and the file may change in between. `SigHup` puts a signal into the
channel or drops it (`Delivered`), and kills a process that has not called
`signal.Notify` yet; `TakeSignal` is the head of the loop. A handler arrives with the
triple made of its header, method and path, loads the pointer (`LoadPointer`), evaluates
(`Middleware`, through `Explain` in debug mode and `Check` otherwise), and finishes.
`Quit`, `EndOfMain` and `ListenFails` end the process; `Shutdown` may return with
handlers still running, after five seconds.

`Authorizer` knows neither files nor signals nor pointers: an engine is in force, it is
replaced by one of a file that loads, and every request is judged at one instant by the
engine in force. The refinement puts that instant at the load of the pointer.

## The runs

| Run | Configuration | Shows |
|---|---|---|
| `engine` | `Engine.cfg` | `PartialCheck` never refuses a prefix with an allowed completion, and is `Check` on full tuples |
| `engine_partial` | `EnginePartial.cfg` | expected violation, see Findings |
| `rule_trie` | `RuleTrie.cfg` | the trie is right between insertions, every frame of a search is exact, `RuleTrie` implements `Engine`, searches end |
| `analysis` | `WarningAnalysis.cfg` | warnings right and complete, budget global, counter and divisors sound, only over-budget rules skipped, analysis ends |
| `closest` | `Closest.cfg` | answers nearest, strategy honoured, the selector's dimension and no other, calls return |
| `closest_pool` | `ClosestPool.cfg` | two searches at once, on engines of different arity too, keep their scratch slices private and clean |
| `ownership` | `Ownership.cfg` | nothing a caller can write is read by an engine, which stays what its trie was made of |
| `child_store` | `ChildStore.cfg` | children in one place; `ChildStore` implements `ChildMap` |
| `commands` | `Commands.cfg` | exit code of `check` = the file as read by a person; proposals are allowed and on the axis named |
| `schema` | `Schema.cfg` | expected violation, see Findings |
| `diff` | `Diff.cfg` | counters add up and are right, exit code, limit, what the cut-off report shows first |
| `hot_reload` | `HotReload.cfg` | no signal lost, the latest file served, requests answered during reloads; `HotReload` implements `Authorizer` |

Each takes about two minutes or less. Every property of a passing run comes with at least one mutant,
an operator named as such in the module, that changes one modelled definition the way a
slip in the code would; TLC finds the property violated under it.

### Bounds, and why they are enough

* `engine`: two dimensions, up to three rules (wildcard, exact) and up to two with every
  kind of matcher, values `a`, `b` declared and `x` not. Three rules let one hide a value
  of another while a third hides the rest. Inputs have every length from 0 to one more
  than the arity.
* `rule_trie`: up to three rules in two dimensions, so that a frame backtracks below
  another frame and prunes on a rule that is neither first nor last; three dimensions
  for a family chosen to go through exact, wildcard and anyOf branches at every depth;
  no dimensions, no rules, a rule that is too wide.
* `analysis`: limits -1, 0, 1, 2, 4 and 7 with `DefaultAnalysisLimit` 3 and `MaxInt` 7
  in place of 100 000 and 2^63 - 1. Products are 0, 1, 2, 4, 8 and 12, so the budget is
  below, at and above them, runs out between rules, and the product overflows.
  Dimensions with a repeated value and anyOfs with repeated or no values occur.
* `closest`: up to three dimensions, every input over three values with every arity up
  to 3, `maxDims` 2 instead of 16 so that both the pooled and the allocated path run.
  Three dimensions are the least with subsets of size 2 that are not adjacent and with
  two that share their last, or their first, dimension; rules allow just such a pair.
  The selectors have every type and lie below, at and above the range, with `int` of 4
  bits, as wide as the widest signed type of the instance.
* `closest_pool`: two goroutines and three slices, one more than can be in use, so that
  there is always a choice between a pooled and a new slice. Rules are picked so that a
  search gives up a branch before it finds its answer; one engine has a dimension less
  than the others, so that a slice comes back with the rest of a longer tuple. Goroutines
  and slices are symmetric; no liveness is checked there.
* `child_store`: five keys over a threshold of 2 in place of 16, so that keys arrive
  before the move, cause it and come after it, in every order, with lookups between.
* `ownership`: five addresses in each heap, the callers' lists of one string out of two:
  room for two engines, or for one engine and two more copies, with every write between.
  The proofs hold for memory of any size and any lists.
* `commands`, `schema`: eighteen files. Those that load go through each kind of condition,
  padding and letter case, dimensions with one name twice, without a name, with a name
  that spells an index; the others fail at each stage, some at two at once, to fix the
  order. Command lines have up to three words, one more than the dimensions.
* `diff`: all pairs of fifteen paths, one of them without a file, under fifteen sets of
  flags in three places. Where the largest integer is 15 a cube of 27 tuples wraps to -5.
  `LimitBoundsTheWalk` and the total in `ReportAddsUp` hold because the loop compares after
  each factor; they need the limit times the size of a dimension to fit the integer
  (`LimitsFit`), which in 64 bits any file does whose limit is below 2^63 divided by the
  size of its longest dimension. `MCDiff` assumes it of the instance, and TLC evaluates that.
  Limits are up to 5 here, `TextRows` 2 in place of 50, and the larger reports have more
  rows than that.
* `hot_reload`: two handlers, one channel slot as in the code, four files: two that decide
  one request differently, one whose dimensions have drifted from the handlers' three, one
  half written. Debug mode is on; the proofs cover both.

Deadlock is checked in both `Closest` runs, in `child_store` and in `commands`. The others
stop legitimately: a rejected configuration gives no engine, an analysis or a diff runs
once, a server exits, and in `ownership` memory is full.

### Fairness

`RuleTrie`: weak fairness of construction and search steps, which run on the caller's
goroutine without waiting for anything. `WarningAnalysis`: weak fairness of its steps,
for the same reason. `Closest`: weak fairness of each goroutine's search steps, as the
Go scheduler gives (it preempts); nothing is assumed of the callers or of the garbage
collector, and no step waits for another goroutine. `HotReload`: weak fairness of each
handler's steps, which wait for nothing; `RequestsAreAnswered` needs no more, in
particular nothing of the reloading goroutine. That one reads a file, which the program
cannot promise to end, so its fairness is not in `Spec` but the premise `ReloaderRuns` of
`LatestFileServed`. `Engine`, `Ownership`, `ChildStore`, `Commands` and `Diff` state no liveness and
need none.

### Findings

`PartialCheck` over-approximates what its comment and the project README say. It is
documented to answer "whether any completion could still be allowed" (check.go:45-46).
With one dimension `{a, b}` and the rules `DENY(anyOf a, b)`, `ALLOW()` the empty prefix
gets `true`, although `Check` refuses both values: the trailing DENY matcher counts as
failed because it is not a wildcard. Run `engine_partial` exhibits it on declared
dimensions, where the model holds every completion. The other direction holds and is
proved (`PartialDenySound`): what `PartialCheck` refuses stays refused.

The schema and the loader disagree on a dimension without values. The schema describes
an empty list as "'any string accepted at this slot' (loader.go semantics)"
(schema/gorege-config.schema.json:45) and accepts it; the loader refuses it
(loader.go:110), although an engine built with `New` gives it exactly that meaning. Run
`schema` exhibits a file the schema accepts and the loader refuses for its structure.

Smaller divergences met on the way, without a run of their own:

* `--include-unchanged` is described as "include unchanged tuples in JSON output"
  (cmd/gorege/diff.go:174). It also changes the text report, which prints no unchanged
  tuple but counts them in "... and N more" under "first 50 changes" (diff.go:354).
* The schema calls the action "case-sensitive; loader rejects other values" (line 63);
  `parseAction` trims and ignores case. The loader accepts more than the schema here.
* The project README says `closest` exits 1 "if none exists". It also does so when the
  input itself is the only allowed tuple, as `Closest` never answers its input.
* examples/http_authz/README.md:45 says "In-flight requests use the old engine". A request
  that has arrived but not yet loaded the pointer is judged by the new one. What holds is
  `ImplementsAuthorizer`: one engine, in force at one instant while the request is handled.
* `ClosestIn` converts an `int64` selector before it checks the range (closest.go:179).
  With a 32-bit `int`, 2^32 selects dimension 0. `SelectorIsHonoured` holds for an `int` as
  wide as the widest selector type, and its mutant shows the narrower build failing.

## The proofs

TLAPS checks all of these for every value of the constants: any set of strings, any
configurations, any number of dimensions, rules, handlers, goroutines and scratch slices,
memory of any size, any threshold, channel capacity, analysis limit and width of an
integer. The assumptions are the named ones of the modules: configurations are
well-formed (`ConfigsAssumption`, and as part of `LimitsAssumption` and
`ClosestAssumption`), callers write lists of strings (`StringsAssumption`), `Wild` is not
a string (`WildAssumption`), the threshold is a number (`ThresholdAssumption`), limits are
integers of an int64 (`LimitsAssumption`), the strategies are the three there are, every
dimension has a name and a selector one of the types of a selector (`ClosestAssumption`),
the channel has room for at least one signal and debug mode is on or off
(`HotReloadAssumption`), a file is one and `Atoi` returns what an `int` holds
(`CommandsAssumption`, `IntBitsAssumption`), command lines are lists of words and limits
are spelled in an int64 (`DiffAssumption`). Three theorems have a hypothesis of their own,
`SelectorsFit` and `LimitsFit`, below.

**`RuleTrieProofs`.** The goal is `Implementation`: `Spec => ImplementsEngine`, that is,
`Check` through the trie is the linear first-match scan. The inductive invariant is

    IInv == TypeOK /\ TrieHoldsFirstRules /\ SearchIsExact

None of the three is inductive alone. Search cuts a branch because `minRuleIdx` is too
late, which is sound only if it is the least below the node (`TrieHoldsFirstRules`); the
merged result of a frame is the first rule below its node only if the exact child's was
(`SearchIsExact`); and a frame returns a rule of the engine only from a node that exists
(`TypeOK`). There is one lemma per action. Two carry the argument. In `EnterWildInv` a
wildcard child that is absent, not admitted or not earlier than `best` holds no rule
that would win. In `ReturnFromChildInv` the first of two sets of rules is the earlier of
their firsts (`MergeIsFirst`), and rule 0 beats all others. At the root, `HitsIffMatches`
turns paths back into `ruleMatches`; there the proof needs validation, because the trie
looks declared values up for wildcards only. `StepSimulation` then maps construction to
`New`, a whole search to one `Check` and the rest to stuttering.

**`EngineProofs`.** `PartialDenySound` and `PartialCheckOfFullTuple`. The invariant
recalls that an answer of `PartialCheck` is the first rule its scan matches. An ALLOW
rule that matches a completion matches the prefix, so the scan stops there or before; if
it stops at a DENY rule, that rule's trailing matchers are wildcards, hence it matches
the completion too and wins there as well.

**`ChildStoreProofs`.** `ChildrenInOnePlace` and `StoreImplementsMap`. The invariant is
`TypeOK`, `OnePlace` and that the map has finitely many keys. That no key is in the slice
twice carries everything: it makes the node of an entry the node of its key
(`OnlyEntry`), the number of keys the length of the slice (`CountKeys`), hence the map
longer than the threshold, and an append leave every other key with its node
(`AppendKey`), hence the move to the map invisible to a lookup. New nodes are new because
all nodes in use are at most `created` (`OldKids`).

**`OwnershipProofs`.** `StoragePrivate` and `EnginesFrozen`. An engine is frozen because
what it reads is nobody's, which needs that no constructor keeps a caller's slice and no
accessor gives out an engine's; and its index is right because that of the dimension it was
cloned from was (`IndexIsRight`, of all dimensions). Every step of the library only grows
the heaps (`GrowthInv`); every step of a caller writes to its own (`KeptFrozen`).

**`HotReloadProofs`.** `SignalsSuffice` and `ServerImplementsAuthorizer`. `NoSignalLost`
is inductive together with `TypeOK`: a dropped signal leaves the channel full, taking one
starts a load that has not read the file yet, a load that has read it carries the
outcome of the file as it is, or else the file has been edited and no signal was sent
since. For the refinement, loading the pointer is the abstract judgement, evaluating maps
to a stutter because the first matching rule is the one `Check` and `Explain` stop at, and
a failed load stores nothing. `Debug` is a constant, so both paths are covered.

**`WarningAnalysisProofs`.** `VerdictsRight`, `BudgetKept`, `CounterRight`,
`DivisorsPositive` and the action property `SkipsRight`. The odometer is the heart of it.
The positions of a product are a set, `Box(lists)`; the position the odometer stands at
cuts it into those `Before` it and those `Ahead`. One turn moves exactly one position
across (`OdometerTurns`), the first has nothing before it, an exhausted one nothing but
itself ahead (`OdometerStarts`, `OdometerEnds`). The invariant says that what is before
has been searched without a win still to be counted, and that what is ahead, counted,
fits the budget; hence a walk that ends knows its verdict and the budget is never
overdrawn (`BudgetOK`, `WalkOK`, `CartesianOK`). `WalkOK` also says that `effective` are
the rule's own lists: a product within the budget is so after each factor
(`FeasibleSoFar`), so the refill of a rule that is walked reaches the last list. Where the walk of a rule is over a
filtered product, `ProductOfRule` shows that this is exactly the set of declared tuples
the rule matches: here the proof needs validation, and the filter of `DeclaredOnce`.
`TupleCountMeans` and `FeasibleMeans` show that the two loops that multiply with an
overflow check or a division per factor compare the size of the product with the limit.
Those loops are recursive functions; that one has a value at each index, and that this
value is right, is proved by a least index at which it is not (`LoopExists`).

**`ClosestProofs`.** `SlicesArePrivate`, `SlicesHoldCandidates`, `ResultsAreNearest`,
`TiebreaksAreHonoured` and `SelectorsAreHonoured`. Two arguments meet. The enumeration of
subsets: for each strategy the subset that comes next leaves no other of its size in
between (`ComboIsNext`, `RightmostIsNext`), so that behind a subset all earlier ones of
its size and all smaller ones have been searched. The backtracking: a call's slice
is its own and holds the query with the chosen values written over it (`ScratchOK`), and
no combination of values the open loops have passed gives an allowed tuple (`LoopsOK`).
Each of the one-write steps keeps both, whatever was in the slice before and whatever
other goroutines do with theirs. Together: a result is at the least distance and from the
first subset at which there is any, and nil is returned only when no subset of the
dimensions, or not the one dimension of `ClosestIn`, has any. That a set of dimensions the
strategy prefers comes earlier is `PreferredIsAhead`. `SelectorsAreHonoured` has the
hypothesis `SelectorsFit`, that `int` holds the values of signed selectors. Without it the
statement is false (see Findings, the 32-bit `int`); any selectors satisfy it on a build
whose `int` has 64 bits. It is stated on `toInt` rather than on `IntBits`, because
exponentiation is uninterpreted for the provers.

**`CommandLineProofs`.** One module for `Commands` and `Diff`, because both rest on one
fact about the loader. `LoadMeans` says that `LoadFileWithOptions`, given options that only
set the analysis limit, succeeds exactly on the files of `FileLoads` and returns the engine
that is made of the content; `AdmitsMeans` that such a rule matches a tuple exactly when
the rule of the file admits it; `ScanMeans` that the first match of the engine is the first
rule of the file that admits the tuple, with the action its text spells. Validation is
needed here: a condition that names an undeclared value is where the two readings would
part.

*Commands.* `CheckReads`, `ProposalsAreRight` and `CommandsTyped`. An invocation leaves one
record behind and the next starts afresh, so the three properties are inductive together;
what is to show is, command by command, that the record is `Sound`, from the loader's
equivalence, from what `Nearest` promises (`NearestHolds`), and for `closest-in` from
`SelectorNames`: the dimension `resolveDim` finds for an argument, index or name, is on
the axis a reader of the file finds for it.

*Diff.* `ExitIsRight`, `CountsAreExact`, `DecisionsFirst` and `DiffTyped` for all files,
and under `LimitsFit` also `TotalsAreExact` and `TheLimitBounds`. The inductive invariant is
`DiffIInv`: while the walk stands at `cur`, each counter is the number of positions of its
kind that are `Before` it (`CountsAreRight`), and the rows are those the counters count, or
none for an unchanged tuple that was not asked for (`RowsAreCounted`). It is preserved
because one turn of the walk passes exactly the position it stood on (`OdometerTurns`), and
because the kind `classifyTransition` gives a tuple, from indexes and names of rules, is
the one and only kind the two files give it (`Classified`). At the end all positions have
been passed, so the exit code, which looks at two counters, tells whether any decision
differs. The text report needs more: rows in the order of their ranks have the kinds in
segments (`KindsInOrder`, by `SegmentMeans`), whose lengths are the counters, so that the
first rows shown are decisions; that holds for any stable sorting and any `JoinBefore`.
`CountsAreExact` is the part of `ReportAddsUp` that does not depend on arithmetic.

`LimitsFit` says that a limit on some command line times the size of any dimension fits an
int64. Under it `product`, a recursive function that wraps, is shown to exceed the limit
exactly when the true product does (`ProductMeans`): a factor is multiplied to a number
that is at most the limit, and sizes that are not zero never make a product smaller. The
code does not enforce this. Without it the statements are false, on limits near 2^63, and
the proof shows where: a wrapped product can come out below the limit.

## Model-checked only

* All liveness (`SearchTerminates`, `AnalysisTerminates`, `CallsReturn`,
  `LatestFileServed`, `RequestsAreAnswered`): it rests on fairness, which the prover does
  not handle.
* `PartialAllowIsReachable` and `SchemaCatchesStructure`, which are false.

Every other property of a run is stated by a theorem.

## Not modelled

* Warning texts, the layout of what is printed, write errors on stdout.
* JSON decoding itself (`encoding/json`): a file decodes or it does not.
* A nil `Option`, which `New` skips, and options other than those the programs here pass.
* Panics on programming errors (`Dim` without a name, a rule built from a wrong type).
* The bodies and routes of the HTTP example, and its second load of the same pattern in
  `examples/ecommerce_availability`, which runs on one goroutine. `examples/feature_flags`
  is a straight-line program. Both only call operations modelled above.

## Plan

Done: the decision and its refinement (`Engine`, `RuleTrie`, `ChildStore`), the copies it
rests on (`Ownership`), the analysis, the nearest-tuple searches, the loader, the commands,
diff and hot reload, each with its proofs.

Open: a refinement of the searches of `Closest` by the abstract `Nearest` that `Commands`
uses, in place of the two properties that say the same of its results; and the decoding of
configurations from YAML by callers of `NewFromConfig`.
