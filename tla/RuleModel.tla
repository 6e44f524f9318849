------------------------------ MODULE RuleModel ------------------------------
(***************************************************************************)
(* The data of a gorege engine and the pure functions every part of the    *)
(* library evaluates over it: dimension.go, rule.go, the validation of     *)
(* gorege.go and the linear matching of check.go.                          *)
(*                                                                         *)
(* A dimension is the sequence of its declared values; the empty sequence  *)
(* is a dimension that accepts any string.  A rule is its action and the   *)
(* sequence of its matchers.  An engine configuration is the sequence of   *)
(* dimensions and the sequence of rules.  Rule indexes are 0-based, as in  *)
(* the code: rule j of c is Rule(c, j).                                    *)
(***************************************************************************)
EXTENDS Integers, Sequences, Functions

CONSTANT Value    \* the strings callers and rules use

Action == {"ALLOW", "DENY"}

\* An exact matcher lists one value, a wildcard lists none, an anyOf any number.
Matcher == {m \in [kind : {"exact", "anyOf", "wildcard"}, vals : Seq(Value)] :
              /\ m.kind = "exact" => Len(m.vals) = 1
              /\ m.kind = "wildcard" => m.vals = <<>>}

RuleType == [act : Action, m : Seq(Matcher)]

Config == [dims : Seq(Seq(Value)), rules : Seq(RuleType)]

Wildcard == [kind |-> "wildcard", vals |-> <<>>]

RuleIndexes(c) == 0 .. Len(c.rules) - 1

Rule(c, j) == c.rules[j + 1]

noMatch == -1

(***************************************************************************)
(* x is the first (least) index of S, or noMatch when S is empty.          *)
(***************************************************************************)
IsFirst(S, x) == \/ S = {} /\ x = noMatch
                 \/ x \in S /\ \A y \in S : x <= y

-----------------------------------------------------------------------------
Declared(dim) == dim /= <<>>

contains(dim, v) == v \in Range(dim)

\* The value is admissible in the dimension when the matcher does not look at it.
Open(dim, v) == Declared(dim) => contains(dim, v)

matches(m, input, dim) ==
  /\ m.kind /= "wildcard" => input \in Range(m.vals)
  /\ Open(dim, input)

\* Mutant of unconstrainedMatch: the concession is made to the wrong action.
unconstrainedSwapped(m, act) == m.kind = "wildcard" \/ act = "DENY"

\* A matcher at a dimension the partial input does not reach.
unconstrainedMatch(m, act) == m.kind = "wildcard" \/ act = "ALLOW"

\* Mutant of ruleMatches: a partial scan does not look declared values up in the
\* dimensions a short rule leaves out.
ruleMatchesUnlooked(r, dims, values, partial) ==
  \A i \in 1 .. Len(dims) :
    IF partial /\ (i > Len(values) \/ i > Len(r.m))
    THEN i <= Len(r.m) => unconstrainedMatch(r.m[i], r.act)
    ELSE IF i > Len(r.m)
         THEN Open(dims[i], values[i])
         ELSE matches(r.m[i], values[i], dims[i])

(***************************************************************************)
(* ruleMatches of check.go, for full and partial inputs.  A rule may have  *)
(* fewer matchers than there are dimensions.                               *)
(***************************************************************************)
ruleMatches(r, dims, values, partial) ==
  \A i \in 1 .. Len(dims) :
    IF partial /\ i > Len(values)
    THEN i <= Len(r.m) => unconstrainedMatch(r.m[i], r.act)
    ELSE IF i > Len(r.m)
         THEN Open(dims[i], values[i])
         ELSE matches(r.m[i], values[i], dims[i])

\* The rules a linear scan stops at for these values.
Matching(c, values, partial) ==
  {j \in RuleIndexes(c) : ruleMatches(Rule(c, j), c.dims, values, partial)}

\* Every full tuple a caller can form, and every completion of a prefix.
Tuples(n) == [1 .. n -> Value]

Completions(c, prefix) ==
  {t \in Tuples(Len(c.dims)) : \A i \in 1 .. Len(prefix) : t[i] = prefix[i]}

-----------------------------------------------------------------------------
\* A matcher names only declared values, or its dimension declares none.
validMatcher(m, dim) ==
  m.kind = "wildcard" \/ ~Declared(dim) \/ Range(m.vals) \subseteq Range(dim)

TooWide(r, dims) == Len(r.m) > Len(dims)

ValidRule(r, dims) ==
  /\ ~TooWide(r, dims)
  /\ \A i \in 1 .. Len(r.m) : validMatcher(r.m[i], dims[i])

(***************************************************************************)
(* The error New returns: that of the first rule that is not valid, whose  *)
(* width is looked at before its matchers.                                 *)
(***************************************************************************)
validateEngine(c) ==
  LET bad == {j \in RuleIndexes(c) : ~ValidRule(Rule(c, j), c.dims)}
  IN  IF bad = {}
      THEN "nil"
      ELSE IF \E j \in bad : IsFirst(bad, j) /\ TooWide(Rule(c, j), c.dims)
           THEN "ErrRuleTooWide"
           ELSE "ErrUnknownDimensionValue"
=============================================================================
