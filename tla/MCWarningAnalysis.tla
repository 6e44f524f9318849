--------------------------- MODULE MCWarningAnalysis ---------------------------
(***************************************************************************)
(* Small instances of WarningAnalysis.  The limits run from disabled to    *)
(* above every product, and MaxInt is below the largest product, so that   *)
(* every way of counting, scanning and skipping occurs.                    *)
(***************************************************************************)
EXTENDS WarningAnalysis

CONSTANTS a, b, c

Exact(v) == [kind |-> "exact", vals |-> <<v>>]
AnyOf(vs) == [kind |-> "anyOf", vals |-> vs]

Rules(matchers, widths) ==
  [act : {"ALLOW"}, m : UNION {[1 .. k -> matchers] : k \in widths}]

\* Three rules over a product of four tuples, one dimension listing a value twice.
ThreeRules ==
  [dims : {<<<<a, b>>, <<a, b>>>>},
   rules : [1 .. 3 -> Rules({Wildcard, Exact(a), AnyOf(<<b, b>>)}, {1, 2})]]

\* A repeated value, an empty dimension and matchers without a declared value.
Irregular ==
  [dims : {<<<<a, a>>, <<b, c>>>>, <<<<a>>, <<>>>>, <<<<a, b, c>>, <<>>>>},
   rules : [1 .. 2 -> Rules({Wildcard, Exact(a), AnyOf(<<>>)}, {0, 1})]
           \cup [1 .. 1 -> Rules({Wildcard, AnyOf(<<a, a>>)}, {1})]]

\* Products of eight and twelve tuples, over MaxInt.
Large ==
  [dims : {<<<<a, b>>, <<a, b>>, <<a, b>>>>, <<<<a, b, c>>, <<a, b>>, <<b, a>>>>},
   rules : [1 .. 3 -> {[act |-> "ALLOW", m |-> m] :
                         m \in {<<>>, <<Exact(a), AnyOf(<<a, b>>)>>, <<Wildcard, Exact(b)>>,
                                <<AnyOf(<<b, a, b>>), Exact(b), Exact(a)>>}}]]

\* No dimensions, no rules.
Degenerate ==
  [dims : {<<>>}, rules : UNION {[1 .. k -> Rules({Wildcard}, {0})] : k \in 0 .. 2}]
  \cup {[dims |-> <<<<a>>>>, rules |-> <<>>]}

MCConfigs == ThreeRules \cup Irregular \cup Large \cup Degenerate
MCValue == {a, b, c}
MCLimits == {-1, 0, 1, 2, 4, 7}
=============================================================================
