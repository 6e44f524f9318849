------------------------------- MODULE RuleTrie -------------------------------
(***************************************************************************)
(* The priority trie behind Check (trie.go): New inserts the rules one     *)
(* after the other, and Check walks the trie depth first, exact child      *)
(* before wildcard child, cutting branches by minRuleIdx.                  *)
(*                                                                         *)
(* A node is named by the path that leads to it, a sequence of keys: the   *)
(* value of an exact child or Wild for the wildcard child.  "trie" maps    *)
(* the path of every node that exists to its minRuleIdx.  The call stack   *)
(* of search is "path", the node the walk stands at, with one local        *)
(* variable "best" per open frame.                                         *)
(***************************************************************************)
EXTENDS RuleModel

CONSTANTS
  Wild,       \* the key of a wildcard child
  Configs     \* the configurations New is called with

ASSUME ConfigsAssumption == Configs \subseteq Config
ASSUME WildAssumption == Wild \notin Value

VARIABLES
  cfg,      \* the options handed to New
  pc,       \* the point of control, see PcSet
  trie,     \* path -> minRuleIdx; no root when the engine has no rules
  next,     \* how many rules are inserted
  values,   \* the input of the Check in progress
  path,     \* the node the search stands at
  best,     \* best[k] is the local of the frame at depth k - 1
  ret,      \* what the search frame that just ended returned
  last      \* what the call in progress answers (see Engine)

newVars == <<cfg, trie, next>>
searchVars == <<values, path, best, ret>>
vars == <<cfg, pc, trie, next, values, path, best, ret, last>>

\* What a caller sees: the specification RuleTrie implements.
Status == IF pc \in {"new", "build"} THEN "new"
          ELSE IF pc = "rejected" THEN "rejected"
          ELSE "ready"

Abs == INSTANCE Engine WITH status <- Status

PcSet == {"new", "build", "rejected", "idle", "enter", "wild", "return"}

D == Len(cfg.dims)
N == Len(cfg.rules)

Key == Value \cup {Wild}

\* The children insert descends into for matcher i of the rule (one below depth
\* i - 1): an anyOf fans out, an omitted matcher is a wildcard.
Keys(r, i) ==
  IF i > Len(r.m) \/ r.m[i].kind = "wildcard" THEN {Wild} ELSE Range(r.m[i].vals)

\* The nodes inserting rule r visits.
Visited(r) ==
  {p \in UNION {[1 .. k -> Key] : k \in 0 .. D} :
     \A i \in 1 .. Len(p) : p[i] \in Keys(r, i)}

\* Mutants of insert: only the leaves of the rule get its index; a later rule
\* overwrites an earlier one.
insertLeafOnly(j) ==
  LET visited == Visited(Rule(cfg, j))
  IN  [p \in DOMAIN trie \cup visited |->
         IF p \in DOMAIN trie /\ trie[p] /= noMatch THEN trie[p]
         ELSE IF Len(p) = D THEN j
         ELSE noMatch]

insertLastWins(j) ==
  LET visited == Visited(Rule(cfg, j))
  IN  [p \in DOMAIN trie \cup visited |-> IF p \in visited THEN j ELSE trie[p]]

\* insert of rule j: every visited node is created if absent and lowers its
\* minRuleIdx to j if that is unset or larger.
insert(j) ==
  LET visited == Visited(Rule(cfg, j))
  IN  [p \in DOMAIN trie \cup visited |->
         IF p \in DOMAIN trie /\ trie[p] /= noMatch /\ (p \in visited => trie[p] <= j)
         THEN trie[p]
         ELSE j]

-----------------------------------------------------------------------------
Init ==
  /\ cfg \in Configs
  /\ pc = "new"
  /\ trie = <<>>
  /\ next = 0
  /\ values = <<>>
  /\ path = <<>>
  /\ best = <<>>
  /\ ret = noMatch
  /\ last = Abs!NoCall

\* New validates the options; an engine without rules has no trie.
Validate ==
  /\ pc = "new"
  /\ IF validateEngine(cfg) = "nil"
     THEN IF N = 0
          THEN pc' = "idle" /\ last' = Abs!Failed("New", <<>>, "nil")
          ELSE pc' = "build" /\ UNCHANGED last
     ELSE pc' = "rejected" /\ last' = Abs!Failed("New", <<>>, validateEngine(cfg))
  /\ UNCHANGED <<newVars, searchVars>>

\* One iteration of buildTrie; New returns the engine after the last one.
InsertRule ==
  /\ pc = "build"
  /\ trie' = insert(next)
  /\ next' = next + 1
  /\ IF next + 1 = N
     THEN pc' = "idle" /\ last' = Abs!Failed("New", <<>>, "nil")
     ELSE UNCHANGED <<pc, last>>
  /\ UNCHANGED <<cfg, searchVars>>

Idle == pc = "idle" /\ last = Abs!NoCall

\* Check refuses a wrong arity, answers without a trie when there are no rules
\* and otherwise starts the search at the root.
Check(q) ==
  /\ Idle
  /\ \/ /\ Len(q) /= D
        /\ last' = Abs!Failed("Check", q, "ErrArityMismatch")
        /\ UNCHANGED <<pc, searchVars>>
     \/ /\ Len(q) = D
        /\ N = 0
        /\ last' = Abs!Answer("Check", q, noMatch)
        /\ UNCHANGED <<pc, searchVars>>
     \/ /\ Len(q) = D
        /\ N > 0
        /\ pc' = "enter"
        /\ values' = q
        /\ path' = <<>>
        /\ best' = <<>>
        /\ UNCHANGED <<ret, last>>
  /\ UNCHANGED newVars

\* A search frame starts: a leaf returns its minRuleIdx, an inner node opens a
\* frame and searches its exact child for the input first, if there is one.
Enter ==
  /\ pc = "enter"
  /\ \/ /\ Len(path) = Len(values)
        /\ ret' = trie[path]
        /\ pc' = "return"
        /\ UNCHANGED <<path, best>>
     \/ /\ Len(path) < Len(values)
        /\ LET child == Append(path, values[Len(path) + 1])
           IN  IF child \in DOMAIN trie /\ trie[child] /= noMatch
               THEN path' = child /\ pc' = "enter"
               ELSE pc' = "wild" /\ UNCHANGED path
        /\ best' = Append(best, noMatch)
        /\ UNCHANGED ret
  /\ UNCHANGED <<newVars, values, last>>

\* Mutant of WildWorthwhile: a wildcard takes a value its dimension does not declare.
WildAdmitsUndeclared(n) ==
  LET child == Append(path, Wild)
  IN  /\ child \in DOMAIN trie
      /\ trie[child] /= noMatch
      /\ best[n] = noMatch \/ trie[child] < best[n]

\* The wildcard child of the node at path is searched only where the dimension
\* admits the input and the subtree may hold an earlier rule than best.
WildWorthwhile(n) ==
  LET child == Append(path, Wild)
  IN  /\ child \in DOMAIN trie
      /\ Open(cfg.dims[n], values[n])
      /\ trie[child] /= noMatch
      /\ best[n] = noMatch \/ trie[child] < best[n]

EnterWild ==
  /\ pc = "wild"
  /\ LET n == Len(path) + 1
     IN  IF WildWorthwhile(n)
         THEN /\ path' = Append(path, Wild)
              /\ pc' = "enter"
              /\ UNCHANGED <<best, ret>>
         ELSE /\ ret' = best[n]
              /\ pc' = "return"
              /\ best' = SubSeq(best, 1, n - 1)
              /\ UNCHANGED path
  /\ UNCHANGED <<newVars, values, last>>

\* Mutant of merge: what the wildcard child found replaces the exact child's rule.
mergeLatest(b, res) == IF res /= noMatch THEN res ELSE b

\* The result of a child's search merged into the frame that called it.
merge(b, res) == IF res /= noMatch /\ (b = noMatch \/ res < b) THEN res ELSE b

\* Mutant of FrameEnds: only rule 0 ends a frame.
FrameEndsOnZero(n, res) == res = 0

\* The child searched last was the wildcard child, or nothing can beat the result.
FrameEnds(n, res) == path[n] = Wild \/ res = 0

\* Back in the frame above: after an exact child, rule 0 ends the frame at once
\* and anything else goes on to the wildcard child; after that, the frame ends.
ReturnFromChild ==
  /\ pc = "return"
  /\ path /= <<>>
  /\ LET n == Len(path)
         res == merge(best[n], ret)
     IN  /\ path' = SubSeq(path, 1, n - 1)
         /\ IF FrameEnds(n, res)
            THEN /\ ret' = res
                 /\ best' = SubSeq(best, 1, n - 1)
                 /\ UNCHANGED pc
            ELSE /\ best' = [best EXCEPT ![n] = res]
                 /\ pc' = "wild"
                 /\ UNCHANGED ret
  /\ UNCHANGED <<newVars, values, last>>

\* The search of the root has returned; Check answers from the rule it found.
Finish ==
  /\ pc = "return"
  /\ path = <<>>
  /\ pc' = "idle"
  /\ last' = Abs!Answer("Check", values, ret)
  /\ values' = <<>>
  /\ ret' = noMatch
  /\ UNCHANGED <<newVars, path, best>>

\* The caller takes the answer.
Return ==
  /\ last /= Abs!NoCall
  /\ last' = Abs!NoCall
  /\ UNCHANGED <<pc, newVars, searchVars>>

SearchStep == Enter \/ EnterWild \/ ReturnFromChild \/ Finish

Next ==
  \/ Validate
  \/ InsertRule
  \/ \E q \in Abs!Inputs : Check(q)
  \/ SearchStep
  \/ Return

\* The calls into the trie run to their end on the caller's goroutine.
Spec == Init /\ [][Next]_vars /\ WF_vars(Validate \/ InsertRule \/ SearchStep)

-----------------------------------------------------------------------------
Searching == pc \in {"enter", "wild", "return"}

\* One frame is open for each step down, and one more while the frame of the
\* node at path is between its exact and its wildcard child.
OpenFrames == IF pc = "wild" THEN Len(path) + 1 ELSE Len(path)

(***************************************************************************)
(* Types of the state, and the shape of the construction and of the call   *)
(* stack: only a validated engine is built or searched, the search starts  *)
(* after the last insertion, and stands at an existing node below every    *)
(* frame that is open.                                                     *)
(***************************************************************************)
TypeOK ==
  /\ cfg \in Config
  /\ pc \in PcSet
  /\ DOMAIN trie \subseteq Seq(Key)
  /\ \A p \in DOMAIN trie : trie[p] \in RuleIndexes(cfg)
  /\ next \in 0 .. N
  /\ values \in Seq(Value)
  /\ path \in Seq(Key)
  /\ best \in Seq(RuleIndexes(cfg) \cup {noMatch})
  /\ ret \in RuleIndexes(cfg) \cup {noMatch}
  /\ Len(best) = OpenFrames
  /\ pc = "new" => next = 0 /\ trie = <<>>
  /\ pc = "build" => next < N
  /\ pc \notin {"new", "rejected"} => validateEngine(cfg) = "nil"
  /\ pc \in {"idle", "enter", "wild", "return"} => next = N
  /\ IF Searching
     THEN /\ last = Abs!NoCall
          /\ Len(values) = D
          /\ path \in DOMAIN trie
          /\ OpenFrames <= D
     ELSE path = <<>>

\* Rule j goes through the node p when it is inserted.
Reaches(j, p) ==
  /\ Len(p) <= D
  /\ \A i \in 1 .. Len(p) : p[i] \in Keys(Rule(cfg, j), i)

(***************************************************************************)
(* The trie between two insertions: the nodes are those some inserted rule *)
(* goes through, and minRuleIdx is the first of these rules.  Search prunes*)
(* on it, so a value too large would lose the right rule silently.         *)
(***************************************************************************)
TrieHoldsFirstRules ==
  /\ \A p \in DOMAIN trie :
       /\ Len(p) <= D
       /\ trie[p] < next
       /\ Reaches(trie[p], p)
  /\ \A j \in 0 .. next - 1 : \A p \in Visited(Rule(cfg, j)) :
       p \in DOMAIN trie /\ trie[p] <= j

\* At depth i - 1 the input admits one of the keys of rule j.
Hit(j, i) ==
  \/ values[i] \in Keys(Rule(cfg, j), i)
  \/ Wild \in Keys(Rule(cfg, j), i) /\ Open(cfg.dims[i], values[i])

\* The rules a search from the node at path can still find.
BelowPath ==
  {j \in RuleIndexes(cfg) :
     /\ \A i \in 1 .. Len(path) : path[i] \in Keys(Rule(cfg, j), i)
     /\ \A i \in Len(path) + 1 .. D : Hit(j, i)}

\* The rules found below the exact child of the frame at depth k - 1.
BelowExact(k) ==
  {j \in RuleIndexes(cfg) :
     /\ \A i \in 1 .. k - 1 : path[i] \in Keys(Rule(cfg, j), i)
     /\ values[k] \in Keys(Rule(cfg, j), k)
     /\ \A i \in k + 1 .. D : Hit(j, i)}

(***************************************************************************)
(* The search in progress.  A frame that has gone on to its wildcard child *)
(* holds the first rule below its exact child, whichever branches were cut *)
(* or ended early by rule 0; a frame that has returned has the first rule  *)
(* below its node.                                                         *)
(***************************************************************************)
SearchIsExact ==
  /\ Searching => \A k \in 1 .. OpenFrames :
       \/ k <= Len(path) /\ path[k] = values[k] /\ best[k] = noMatch
       \/ /\ k <= Len(path) => path[k] = Wild /\ Open(cfg.dims[k], values[k])
          /\ IsFirst(BelowExact(k), best[k])
  /\ pc = "return" => IsFirst(BelowPath, ret)

(***************************************************************************)
(* Check answers what a linear first-match scan answers, for every input,  *)
(* and nothing else of the engine is touched while it runs.                *)
(***************************************************************************)
ImplementsEngine == Abs!Spec

(***************************************************************************)
(* Construction and every Check that starts a search come to an end.       *)
(***************************************************************************)
SearchTerminates == []<>(pc \in {"idle", "rejected"})
=============================================================================
