--------------------------------- MODULE Diff ---------------------------------
(***************************************************************************)
(* gorege diff (cmd/gorege/diff.go): loads two files, explains every tuple *)
(* of their dimensions in both engines, classifies each one, and reports   *)
(* the transitions, as JSON or as text, and an exit code.                  *)
(*                                                                         *)
(* A word of the command line is                                           *)
(*   [kind |-> "plain", text |-> s],  a word with no leading dash,         *)
(*   [kind |-> "set", flag |-> f, text |-> s],  --f=s,                     *)
(*   [kind |-> "bare", flag |-> f],  --f, and                              *)
(*   [kind |-> "dashed"],  any other word with a leading dash.             *)
(***************************************************************************)
EXTENDS Loader, FiniteSets

CONSTANTS
  DiffLines,            \* the command lines: sequences of words
  Paths,                \* path -> the file found there
  ParseInt,             \* package flag: word -> the integer it spells, if it spells one
  DefaultLimit,         \* gorege.DefaultAnalysisLimit, in the size of this instance
  TextRows,             \* the 50 rows of the text report
  MaxInt,               \* the largest int64, in the size of this instance
  JoinBefore(_, _)      \* strings.Join(s, "|") < strings.Join(t, "|")

Flag == {"limit", "format", "include-unchanged"}

Word ==
  [kind : {"plain"}, text : STRING] \cup [kind : {"set"}, flag : Flag, text : STRING]
  \cup [kind : {"bare"}, flag : Flag] \cup [kind : {"dashed"}]

ASSUME DiffAssumption ==
  /\ MaxInt \in Nat \ {0} /\ TextRows \in Nat \ {0} /\ DefaultLimit \in 1 .. MaxInt
  /\ \A s \in DOMAIN ParseInt : ParseInt[s] \in -MaxInt - 1 .. MaxInt
  /\ DiffLines \subseteq Seq(Word)
  /\ \A path \in DOMAIN Paths : IsFile(Paths[path])

VARIABLES
  pc,       \* "start", "load", "walk", "report" or "done"
  args,     \* what the command line says
  cur,      \* positions of the tuple being visited in its dimensions
  summary,  \* the diffSummary
  printed,  \* what is on stdout: the rows, and how many more it says there are
  exit      \* the exit code

diffVars == <<pc, args, cur, summary, printed, exit>>

Kinds == {"ALLOW_TO_DENY", "DENY_TO_ALLOW", "RULE_CHANGED", "UNCHANGED"}

NoSummary == [Total |-> 0, count |-> [k \in Kinds |-> 0], Limit |-> 0, Transitions |-> <<>>]

Nothing == [format |-> "none", rows |-> <<>>, more |-> 0]

-----------------------------------------------------------------------------
NoFlag == "none"

\* splitDiffArgs reads one more word; a flag that wants a value takes any word.
splitWord(acc, w) ==
  IF acc.err THEN acc
  ELSE IF acc.wants /= NoFlag
       THEN [acc EXCEPT !.wants = NoFlag,
               !.set = Append(@, [kind |-> acc.wants,
                                  value |-> IF w.kind = "plain" THEN w.text ELSE "dashed"])]
  ELSE CASE w.kind = "plain" -> [acc EXCEPT !.positional = Append(@, w.text)]
         [] w.kind = "set" /\ w.flag /= "include-unchanged" ->
              [acc EXCEPT !.set = Append(@, [kind |-> w.flag, value |-> w.text])]
         [] w.kind = "bare" /\ w.flag = "include-unchanged" ->
              [acc EXCEPT !.set = Append(@, [kind |-> w.flag, value |-> TRUE])]
         [] w.kind = "bare" /\ w.flag \in {"limit", "format"} -> [acc EXCEPT !.wants = w.flag]
         [] OTHER -> [acc EXCEPT !.err = TRUE]

splitDiffArgs(words) ==
  LET upTo[i \in 0 .. Len(words)] ==
        IF i = 0 THEN [set |-> <<>>, positional |-> <<>>, wants |-> NoFlag, err |-> FALSE]
        ELSE splitWord(upTo[i - 1], words[i])
  IN  upTo[Len(words)]

ArgsError(split) ==
  \/ split.err \/ split.wants /= NoFlag
  \/ \E i \in DOMAIN split.set :
       split.set[i].kind = "limit" /\ split.set[i].value \notin DOMAIN ParseInt
  \/ Len(split.positional) /= 2

\* A flag given twice has its last value.
Args(split) ==
  LET text == Setting(split.set, "limit", NoFlag)
  IN  [limit |-> IF text = NoFlag THEN DefaultLimit ELSE ParseInt[text],
       format |-> Setting(split.set, "format", "text"),
       includeUnchanged |-> Setting(split.set, "include-unchanged", FALSE),
       paths |-> split.positional]

NoArgs == [limit |-> 0, format |-> "text", includeUnchanged |-> FALSE, paths |-> <<>>]

\* What LoadFileWithOptions returns for each path, without the analysis.
AllLoaded ==
  [path \in DOMAIN Paths |->
     LoadFileWithOptions(Paths[path], <<[kind |-> "analysisLimit", value |-> -1]>>)]

File(i) == Paths[args.paths[i]]

\* The old file is 1, the new one 2; at another path there is no file.
Opened(i) ==
  IF args.paths[i] \in DOMAIN Paths THEN AllLoaded[args.paths[i]] ELSE Refused("unreadable")

DiffDims == Opened(1).cfg.dims

-----------------------------------------------------------------------------
dimensionsCompatible ==
  /\ DiffDims = Opened(2).cfg.dims
  /\ dimensionNames(File(1).content.dims) = dimensionNames(File(2).content.dims)

\* The int64 an integer wraps to.
Wrap(n) ==
  LET m == n % (2 * MaxInt + 2)
  IN  IF m <= MaxInt THEN m ELSE m - (2 * MaxInt + 2)

\* Mutant of product: the product is compared with the limit at the end only.
productThenCompared(dims, max) ==
  LET upTo[i \in 0 .. Len(dims)] == IF i = 0 THEN 1 ELSE Wrap(upTo[i - 1] * Len(dims[i]))
  IN  [p |-> upTo[Len(dims)], exceeded |-> upTo[Len(dims)] > max]

\* The loop returns at an empty dimension, and as soon as p passes the limit.
product(dims, max) ==
  LET upTo[i \in 0 .. Len(dims)] ==
        IF i = 0 THEN [p |-> 1, exceeded |-> FALSE]
        ELSE LET acc == upTo[i - 1]
                 p == Wrap(acc.p * Len(dims[i]))
             IN  IF acc.exceeded \/ acc.p = 0 THEN acc
                 ELSE IF dims[i] = <<>> THEN [p |-> 0, exceeded |-> FALSE]
                 ELSE [p |-> p, exceeded |-> p > max]
  IN  upTo[Len(dims)]

(***************************************************************************)
(* Types of the state; the recursion of walkProduct stands on a tuple.     *)
(***************************************************************************)
DiffTypeOK ==
  /\ pc \in {"start", "load", "walk", "report", "done"}
  /\ args.limit \in 0 .. MaxInt /\ args.includeUnchanged \in BOOLEAN
  /\ exit \in 0 .. 2
  /\ summary \in [Total : -MaxInt - 1 .. MaxInt, count : [Kinds -> Nat], Limit : 0 .. MaxInt,
                  Transitions : Seq([tuple : Seq(Value), kind : Kinds])]
  /\ printed.format \in {"none", "json", "text"} /\ printed.more \in Nat
  /\ pc \in {"walk", "report"} =>
       /\ DOMAIN cur = DOMAIN DiffDims
       /\ \A i \in DOMAIN cur : cur[i] \in DOMAIN DiffDims[i]

-----------------------------------------------------------------------------
TupleAt(at) == [i \in DOMAIN DiffDims |-> DiffDims[i][at[i]]]

NoName == ""

Explain(i, t) ==
  LET c == Opened(i).cfg
      found == Matching(c, t, FALSE)
      j == IF found = {} THEN noMatch ELSE First(found)
  IN  [ok |-> j /= noMatch /\ Rule(c, j).act = "ALLOW",
       index |-> j,
       name |-> IF j = noMatch THEN NoName ELSE File(i).content.rules[j + 1].name]

classifyTransition(ox, nx) ==
  CASE ox.ok /\ ~nx.ok -> "ALLOW_TO_DENY"
    [] ~ox.ok /\ nx.ok -> "DENY_TO_ALLOW"
    [] ox.ok = nx.ok /\ (ox.index /= nx.index \/ ox.name /= nx.name) -> "RULE_CHANGED"
    [] OTHER -> "UNCHANGED"

DiffFails(code) ==
  pc' = "done" /\ exit' = code /\ UNCHANGED <<args, cur, summary, printed>>

Refuse(words) ==
  LET split == splitDiffArgs(words)
  IN  /\ pc = "start"
      /\ IF ArgsError(split) THEN TRUE ELSE Args(split).limit <= 0
      /\ DiffFails(2)

Accept(words) ==
  LET split == splitDiffArgs(words)
  IN  /\ pc = "start"
      /\ ~ArgsError(split) /\ Args(split).limit > 0
      /\ pc' = "load"
      /\ args' = Args(split)
      /\ UNCHANGED <<cur, summary, printed, exit>>

Comparable ==
  Opened(1).err = "nil" /\ Opened(2).err = "nil" /\ dimensionsCompatible

FailLoad == pc = "load" /\ ~Comparable /\ DiffFails(1)

Start ==
  LET size == product(DiffDims, args.limit)
  IN  /\ pc = "load" /\ Comparable
      /\ IF size.exceeded \/ size.p = 0 THEN DiffFails(1)
         ELSE /\ pc' = "walk"
              /\ cur' = [i \in DOMAIN DiffDims |-> 1]
              /\ summary' = [NoSummary EXCEPT !.Total = size.p, !.Limit = args.limit]
              /\ UNCHANGED <<args, printed, exit>>

\* The recursion of walkProduct: the last dimension that can move, moves.
walkProduct ==
  LET movable == {i \in DOMAIN cur : cur[i] < Len(DiffDims[i])}
      k == CHOOSE i \in movable : \A n \in movable : n <= i
  IN  IF movable = {} THEN pc' = "report" /\ UNCHANGED cur
      ELSE /\ UNCHANGED pc
           /\ cur' = [i \in DOMAIN cur |-> IF i < k THEN cur[i] ELSE IF i = k THEN cur[i] + 1 ELSE 1]

Listed(kind) == kind /= "UNCHANGED" \/ args.includeUnchanged

\* Mutant of Counted: the callback returns before it counts what is not listed.
CountedIfListed(s, t, kind) ==
  IF Listed(kind)
  THEN [s EXCEPT !.count[kind] = @ + 1, !.Transitions = Append(@, [tuple |-> t, kind |-> kind])]
  ELSE s

Counted(s, t, kind) ==
  [s EXCEPT !.count[kind] = @ + 1,
            !.Transitions = IF Listed(kind) THEN Append(@, [tuple |-> t, kind |-> kind]) ELSE @]

\* A tuple Explain refuses, for its width, is passed over.
Visit ==
  LET t == TupleAt(cur)
  IN  /\ pc = "walk"
      /\ walkProduct
      /\ summary' = IF Len(t) /= Len(Opened(2).cfg.dims) THEN summary
                    ELSE Counted(summary, t, classifyTransition(Explain(1, t), Explain(2, t)))
      /\ UNCHANGED <<args, printed, exit>>

-----------------------------------------------------------------------------
rank(k) ==
  CASE k = "ALLOW_TO_DENY" -> 0 [] k = "DENY_TO_ALLOW" -> 1
    [] k = "RULE_CHANGED" -> 2 [] k = "UNCHANGED" -> 3

\* Mutant of less: by tuple alone.
lessByTuple(s, t) == JoinBefore(s.tuple, t.tuple)

less(s, t) ==
  \/ rank(s.kind) < rank(t.kind)
  \/ rank(s.kind) = rank(t.kind) /\ JoinBefore(s.tuple, t.tuple)

\* A stable sort: p[i] is the place the i-th of the result comes from.
Sorting(ts, p) ==
  \A i, j \in DOMAIN ts :
    i < j => less(ts[p[i]], ts[p[j]]) \/ (~less(ts[p[j]], ts[p[i]]) /\ p[i] < p[j])

sortTransitions(ts) ==
  {[i \in DOMAIN ts |-> ts[p[i]]] :
     p \in {p \in Bijection(DOMAIN ts, DOMAIN ts) : Sorting(ts, p)}}

DecisionChanges(s) == s.count["ALLOW_TO_DENY"] + s.count["DENY_TO_ALLOW"]

\* The rows of the loop of printSummaryText: n of those that changed.
shown(ts, n) ==
  LET upTo[i \in 0 .. Len(ts)] ==
        IF i = 0 THEN <<>>
        ELSE IF ts[i].kind = "UNCHANGED" \/ Len(upTo[i - 1]) >= n THEN upTo[i - 1]
        ELSE Append(upTo[i - 1], ts[i])
  IN  upTo[Len(ts)]

\* Mutant of printSummaryText: n is the number of rows there is room for.
printSummaryTextAllRows(s) ==
  IF DecisionChanges(s) = 0 THEN [Nothing EXCEPT !.format = "text"]
  ELSE [format |-> "text", rows |-> shown(s.Transitions, TextRows),
        more |-> Len(s.Transitions) - TextRows]

\* Without a decision change the report is its counters.
printSummaryText(s) ==
  LET n == IF Len(s.Transitions) < TextRows THEN Len(s.Transitions) ELSE TextRows
  IN  IF DecisionChanges(s) = 0 THEN [Nothing EXCEPT !.format = "text"]
      ELSE [format |-> "text", rows |-> shown(s.Transitions, n), more |-> Len(s.Transitions) - n]

\* Mutant of ExitCode: a changed rule is a change.
ExitOnAnyChange(s) ==
  IF DecisionChanges(s) + s.count["RULE_CHANGED"] > 0 THEN 1 ELSE 0

ExitCode(s) == IF DecisionChanges(s) > 0 THEN 1 ELSE 0

Report ==
  /\ pc = "report"
  /\ pc' = "done"
  /\ \E sorted \in sortTransitions(summary.Transitions) :
       summary' = [summary EXCEPT !.Transitions = sorted]
  /\ \/ /\ args.format = "json"
        /\ printed' = [format |-> "json", rows |-> summary'.Transitions, more |-> 0]
        /\ exit' = ExitCode(summary')
     \/ /\ args.format = "text"
        /\ printed' = printSummaryText(summary')
        /\ exit' = ExitCode(summary')
     \/ args.format \notin {"json", "text"} /\ exit' = 2 /\ UNCHANGED printed
  /\ UNCHANGED <<args, cur>>

DiffInit ==
  /\ pc = "start" /\ args = NoArgs /\ cur = <<>> /\ summary = NoSummary /\ printed = Nothing /\ exit = 0

DiffNext ==
  \/ \E words \in DiffLines : Refuse(words) \/ Accept(words)
  \/ FailLoad
  \/ Start
  \/ Visit
  \/ Report

DiffSpec == DiffInit /\ [][DiffNext]_diffVars
-----------------------------------------------------------------------------
(***************************************************************************)
(* The two files as a person reads them: which rule decides a tuple, and   *)
(* how.  A tuple is named by its positions, so that one with a value a     *)
(* dimension declares twice is as many tuples.                             *)
(***************************************************************************)
Positions ==
  {at \in [DOMAIN DiffDims -> UNION {DOMAIN DiffDims[i] : i \in DOMAIN DiffDims}] :
     \A i \in DOMAIN DiffDims : at[i] \in DOMAIN DiffDims[i]}

Allows(i, at) == FileAllows(File(i).content, TupleAt(at))

Decider(i, at) ==
  LET rules == File(i).content.rules
      admitting == {j \in DOMAIN rules : RuleAdmits(rules[j], File(i).content.dims, TupleAt(at))}
  IN  {<<j, rules[j].name>> : j \in {j \in admitting : \A k \in admitting : j <= k}}

InKind(k, at) ==
  CASE k = "ALLOW_TO_DENY" -> Allows(1, at) /\ ~Allows(2, at)
    [] k = "DENY_TO_ALLOW" -> ~Allows(1, at) /\ Allows(2, at)
    [] k = "RULE_CHANGED" -> Allows(1, at) = Allows(2, at) /\ Decider(1, at) /= Decider(2, at)
    [] k = "UNCHANGED" -> Decider(1, at) = Decider(2, at) /\ Allows(1, at) = Allows(2, at)

Reported == printed.format /= "none"

(***************************************************************************)
(* Every limit a command line can ask for, times the size of any dimension *)
(* of a file, fits an int64: product does not overflow.  The code does not *)
(* see to this; what rests on it says so.                                  *)
(***************************************************************************)
Limits == {DefaultLimit} \cup {ParseInt[s] : s \in DOMAIN ParseInt}

LimitsFit ==
  \A path \in DOMAIN Paths :
    FileLoads(Paths[path]) =>
      \A i \in DOMAIN Paths[path].content.dims, max \in Limits :
        max * Len(Paths[path].content.dims[i].values) <= MaxInt

(***************************************************************************)
(* A report counts every tuple once, under the right kind, and its total   *)
(* is their number: none is dropped for failing Explain, none walked twice *)
(* and none missed (diff.go:234 returns without counting).                 *)
(***************************************************************************)
ReportAddsUp ==
  Reported =>
    /\ summary.Total = Cardinality(Positions)
    /\ \A k \in Kinds :
         summary.count[k] = Cardinality({at \in Positions : InKind(k, at)})

(***************************************************************************)
(* A script may act on the exit code: 0 says that both files decide every  *)
(* tuple alike and were compared, and 1 under a report that some decision  *)
(* differs.                                                                *)
(***************************************************************************)
ExitTellsTheDecision ==
  /\ pc = "done" /\ exit = 0 => Reported
  /\ Reported => (exit = 1 <=> \E at \in Positions : Allows(1, at) /= Allows(2, at))

(***************************************************************************)
(* The walk never visits more tuples than the limit, however large their   *)
(* product: it does not fit an int64 here (diff.go:111).  It needs limits  *)
(* for which limit times the size of a dimension does fit.                 *)
(***************************************************************************)
LimitBoundsTheWalk ==
  pc \in {"walk", "report"} => Cardinality(Positions) <= args.limit

(***************************************************************************)
(* In the text report, whose rows are cut off, a decision that changed is  *)
(* not left out for a rule that did, and rows are left out only beyond the *)
(* last one.                                                               *)
(***************************************************************************)
DecisionChangesShownFirst ==
  printed.format = "text" /\ DecisionChanges(summary) > 0 =>
    LET decisions == {i \in DOMAIN printed.rows : printed.rows[i].kind /= "RULE_CHANGED"}
        changes == DecisionChanges(summary) + summary.count["RULE_CHANGED"]
    IN  /\ Len(printed.rows) = IF changes < TextRows THEN changes ELSE TextRows
        /\ Cardinality(decisions) < Len(printed.rows) =>
             Cardinality(decisions) = DecisionChanges(summary)
=============================================================================
