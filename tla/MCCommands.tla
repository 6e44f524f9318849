------------------------------ MODULE MCCommands ------------------------------
(***************************************************************************)
(* A small instance of Commands: files that load and files that fail at    *)
(* every stage, over the values a and b and the undeclared star, which a   *)
(* list names literally.                                                   *)
(***************************************************************************)
EXTENDS Commands, TLC

Str(s) == [type |-> "string", text |-> s]
List(slots) == [type |-> "array", elems |-> slots]
Number == [type |-> "other"]

ADim(name, values) == [name |-> name, values |-> values]
ARule(action, conditions) == [action |-> action, conditions |-> conditions]
Json(dims, rules) ==
  [ext |-> ".json", state |-> "ok", content |-> [dims |-> dims, rules |-> rules]]

AB == <<"a", "b">>

\* A name padded, an empty one and one that spells an index; two of the same name.
TwoDims == <<ADim("1", <<"b", "a">>), ADim(" n ", AB)>>
SameNames == <<ADim("n", AB), ADim("n", AB)>>
Anonymous == <<ADim(" ", AB)>>

Good ==
  {Json(TwoDims, rules) : rules \in
     {<<ARule("ALLOW", <<Str("a"), Str("b")>>)>>,
      <<ARule(" deny", <<Str(" * "), List(<<Str("b"), Str("b")>>)>>), ARule("ALLOW", <<>>)>>,
      <<ARule("DENY", <<List(<<Str("a")>>)>>), ARule("allow", <<Str("*"), Str("a")>>)>>,
      <<ARule("ALLOW", <<List(<<>>)>>), ARule("DENY", <<Str("b")>>), ARule("ALLOW", <<Str("*")>>)>>}}
  \cup {Json(SameNames, <<ARule("ALLOW", <<Str("b")>>), ARule("ALLOW", <<Str("a"), Str("b")>>)>>),
        Json(Anonymous, <<ARule("DENY", <<Str("a")>>), ARule("ALLOW", <<Str("*")>>)>>),
        Json(<<>>, <<ARule("ALLOW", <<>>)>>), Json(<<>>, <<>>)}

Bad ==
  {[Json(TwoDims, <<>>) EXCEPT !.ext = ".txt"],
   [Json(TwoDims, <<>>) EXCEPT !.state = "unreadable"],
   [Json(TwoDims, <<>>) EXCEPT !.state = "malformed"],
   Json(<<ADim("n", <<>>)>>, <<ARule("maybe", <<Number>>)>>),
   Json(<<ADim("n", <<>>)>>, <<ARule("ALLOW", <<Str("*")>>)>>),
   Json(TwoDims, <<ARule("maybe", <<Str("a")>>)>>),
   Json(TwoDims, <<ARule("ALLOW", <<Number>>)>>),
   Json(TwoDims, <<ARule("ALLOW", <<Str("*"), List(<<Str("a"), Number>>)>>)>>),
   Json(TwoDims, <<ARule("ALLOW", <<List(<<Str("*")>>)>>)>>),
   Json(TwoDims, <<ARule("ALLOW", <<Str("*"), Str("*"), Str("*")>>)>>)}

MCFiles == Good \cup Bad
MCHasWarnings ==
  [f \in MCFiles |-> f \in Good /\ \E r \in Range(f.content.rules) : r.action = "DENY"]

MCValue == {"a", "b", "*"}
MCSelectors == {"0", "1", "n", ""}
MCAtoi == ("0" :> 0) @@ ("1" :> 1)

MCTrimSpace ==
  [s \in {"a", "b", "*", "n", "1", "", "ALLOW", "allow", "DENY", "maybe"} |-> s]
  @@ (" * " :> "*") @@ (" n " :> "n") @@ (" " :> "") @@ (" deny" :> "deny")
MCToUpper ==
  [s \in {"ALLOW", "DENY"} |-> s] @@ ("allow" :> "ALLOW") @@ ("deny" :> "DENY") @@ ("maybe" :> "MAYBE")
=============================================================================
