----------------------------- MODULE MCRuleTrie -----------------------------
(***************************************************************************)
(* Small instances of RuleTrie.  Two dimensions make the search backtrack  *)
(* with both branches of a frame below another frame; three rules make a   *)
(* branch prunable by a rule that is neither the first nor the last.       *)
(***************************************************************************)
EXTENDS RuleTrie

CONSTANTS a, b, x

Exact(v) == [kind |-> "exact", vals |-> <<v>>]
AnyOf(vs) == [kind |-> "anyOf", vals |-> vs]

Declares == <<a, b>>    \* a dimension with two declared values
Anything == <<>>        \* a dimension that accepts any string

Rules(acts, matchers, widths) ==
  [act : acts, m : UNION {[1 .. k -> matchers] : k \in widths}]

\* Three rules of which the trie holds both, one or none of the exact paths.
ThreeRules ==
  [dims : {<<Declares, Anything>>},
   rules : [1 .. 3 -> Rules({"ALLOW"}, {Wildcard, Exact(a), AnyOf(<<>>)}, {2})]]

\* Every kind of matcher and both actions, over declared and open dimensions.
TwoRules ==
  [dims : {<<Declares, Declares>>, <<Anything, Declares>>},
   rules : [1 .. 2 -> Rules({"DENY"}, {Wildcard, Exact(b), AnyOf(<<a, b>>)}, {0, 2})]
           \cup [1 .. 1 -> Rules(Action, {Exact(x), Exact(a), AnyOf(<<b, b>>)}, {1, 2})]]

\* Three dimensions, with the recursion one deeper.
Deep ==
  [dims : {<<Declares, <<b, a>>, <<a>>>>},
   rules : {<<[act |-> "ALLOW", m |-> m1], [act |-> "DENY", m |-> m2],
              [act |-> "ALLOW", m |-> m3]>> :
              m1, m2, m3 \in {<<Exact(a), Wildcard, Exact(a)>>,
                              <<Wildcard, Exact(a), Wildcard>>,
                              <<AnyOf(<<a, b>>)>>}}]

\* No rules, no dimensions, and a rule that is too wide.
Degenerate ==
  {[dims |-> <<Declares>>, rules |-> <<>>],
   [dims |-> <<>>, rules |-> <<[act |-> "ALLOW", m |-> <<>>]>>],
   [dims |-> <<Declares>>,
    rules |-> <<[act |-> "ALLOW", m |-> <<>>],
                [act |-> "DENY", m |-> <<Wildcard, Wildcard>>]>>]}

MCConfigs == ThreeRules \cup TwoRules \cup Deep \cup Degenerate
MCValue == {a, b, x}
=============================================================================
