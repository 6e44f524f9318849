------------------------------ MODULE MCEngine ------------------------------
(***************************************************************************)
(* Small instances of Engine: two dimensions at most, three rules at most, *)
(* the declared values a and b and the undeclared value x.                 *)
(***************************************************************************)
EXTENDS Engine

CONSTANTS a, b, x

Exact(v) == [kind |-> "exact", vals |-> <<v>>]
AnyOf(vs) == [kind |-> "anyOf", vals |-> vs]

Declares == <<a, b>>    \* a dimension with two declared values
Anything == <<>>        \* a dimension that accepts any string

Rules(matchers, width) ==
  [act : Action, m : UNION {[1 .. k -> matchers] : k \in 0 .. width}]

RuleLists(rules, length) == UNION {[1 .. k -> rules] : k \in 0 .. length}

\* Three rules over two declared dimensions: enough for an earlier rule to hide
\* one value of a later one and for a third to hide the other.
ThreeRules ==
  [dims : {<<Declares, Declares>>},
   rules : RuleLists(Rules({Wildcard, Exact(a)}, 2), 3)]

\* Every kind of matcher, alone and behind one other rule, over declared, open
\* and mixed dimensions, with rules that are too wide or name x.
AllMatchers ==
  [dims : {<<>>, <<Anything, Declares>>, <<Declares, Declares>>},
   rules : RuleLists(Rules({Wildcard, Exact(a), Exact(x), AnyOf(<<a, b>>)}, 2), 1)
           \cup [1 .. 2 -> Rules({Wildcard, Exact(x), AnyOf(<<>>), AnyOf(<<a, b>>)}, 1)]
           \cup {<<[act |-> "DENY", m |-> <<Wildcard, Wildcard, Wildcard>>]>>}]

MCConfigs == ThreeRules \cup AllMatchers
MCValue == {a, b, x}

\* Declared dimensions only: every completion of a prefix is in the model.
DeclaredConfigs ==
  [dims : {<<Declares>>, <<Declares, Declares>>},
   rules : [1 .. 2 -> Rules({Wildcard, AnyOf(<<a, b>>)}, 1)]]
=============================================================================
