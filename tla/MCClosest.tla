------------------------------- MODULE MCClosest -------------------------------
(***************************************************************************)
(* Small instances of Closest: one goroutine over many engines, and two    *)
(* goroutines sharing the pool over a few.                                 *)
(***************************************************************************)
EXTENDS Closest, TLC

CONSTANTS a, b, x

Exact(v) == [kind |-> "exact", vals |-> <<v>>]

Allow(m) == [act |-> "ALLOW", m |-> m]
Deny(m) == [act |-> "DENY", m |-> m]

AB == <<a, b>>
BA == <<b, a>>

\* Three dimensions, with rules that allow one corner, two corners as far from
\* the input that share their last or first changed dimension, a plane, everything but a corner, or nothing.
Cube ==
  [dims : {<<AB, BA, AB>>, <<AB, <<>>, <<b, b>>>>},
   rules : {<<Allow(<<Exact(b), Exact(b), Exact(b)>>)>>,
            <<Allow(<<Exact(b), Exact(b)>>), Allow(<<Wildcard, Exact(b), Exact(b)>>)>>,
            <<Allow(<<Exact(a), Exact(b), Exact(b)>>), Allow(<<Exact(b), Exact(a), Exact(b)>>)>>,
            <<Allow(<<Exact(b), Exact(a), Exact(b)>>), Allow(<<Exact(b), Exact(b), Exact(a)>>)>>,
            <<Deny(<<Exact(a), Exact(a)>>), Allow(<<>>)>>,
            <<Deny(<<>>)>>}]

Plane ==
  [dims : {<<AB, <<b, a, b>>>>},
   rules : {<<Allow(<<Exact(b)>>)>>, <<Deny(<<Wildcard, Exact(b)>>), Allow(<<>>)>>}]

Line == {[dims |-> <<AB>>, rules |-> <<Allow(<<Exact(b)>>)>>],
         [dims |-> <<>>, rules |-> <<Allow(<<>>)>>]}

OneConfigs == {c \in Cube \cup Plane \cup Line : validateEngine(c) = "nil"}
OneInputs == UNION {[1 .. k -> {a, b, x}] : k \in 0 .. 3}

\* Two goroutines: corners that one search must give up a branch to find.
TwoConfigs ==
  {[dims |-> <<AB, AB>>, rules |-> <<Allow(<<Exact(b), Exact(b)>>)>>],
   [dims |-> <<AB, AB>>, rules |-> <<Deny(<<Exact(b)>>), Allow(<<Wildcard, Exact(b)>>)>>]}
TwoInputs == {<<a>>, <<a, a>>, <<x, b>>}

\* The same and one of smaller arity, whose searches leave half a slice as it was.
PoolConfigs == TwoConfigs \cup {[dims |-> <<AB>>, rules |-> <<Allow(<<Exact(b)>>)>>]}

\* One name twice and an anonymous dimension.
MCDimNames == <<"n", "", "n">>

Sel(type, val) == [type |-> type, val |-> val]

\* Every type; indexes below, at and above the range, the largest of them within the
\* range again in half the bits.
OneSelectors ==
  {Sel("int", 0), Sel("int32", 2), Sel("int64", -1), Sel("int64", 4), Sel("uint", 1),
   Sel("uint32", 3), Sel("uint64", 15), Sel("string", "n"), Sel("string", ""),
   Sel("string", "m"), Sel("other", 0)}
TwoSelectors == {Sel("int", 0), Sel("string", "")}

MCValue == {a, b, x}
MCTiebreaks == {"LeftmostDim", "RightmostDim", "DeclOrder"}
MCTiebreakOne == {"RightmostDim"}
Symmetric == Permutations(Proc) \cup Permutations(Slices)
=============================================================================
