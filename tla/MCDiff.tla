-------------------------------- MODULE MCDiff --------------------------------
(***************************************************************************)
(* A small instance of Diff.  Two files over each of: no dimension, one    *)
(* with a value twice, two of two values, one of three, and three of three *)
(* values, whose product of 27 is -5 where the largest integer is 15; and  *)
(* files that do not load, are missing or whose dimensions differ.         *)
(***************************************************************************)
EXTENDS Diff, TLC

Str(s) == [type |-> "string", text |-> s]

ADim(name, values) == [name |-> name, values |-> values]
ARule(action, name, conditions) ==
  [action |-> action, name |-> name, conditions |-> [i \in DOMAIN conditions |-> Str(conditions[i])]]
Json(dims, rules) ==
  [ext |-> ".json", state |-> "ok", content |-> [dims |-> dims, rules |-> rules]]

AB == <<"a", "b">>
Square == <<ADim("n", AB), ADim("m", AB)>>
Triple == <<ADim("n", <<"a", "b", "c">>)>>
Cube == <<ADim("n", <<"a", "b", "c">>), ADim("m", <<"a", "b", "c">>), ADim("", <<"a", "b", "c">>)>>

MCPaths ==
  [none    |-> Json(<<>>, <<>>),
   all     |-> Json(<<>>, <<ARule("ALLOW", "r", <<>>)>>),
   twice   |-> Json(<<ADim("n", <<"a", "a">>)>>, <<ARule("ALLOW", "r", <<"a">>)>>),
   renamed |-> Json(<<ADim(" n ", <<"a", "a">>)>>, <<ARule("ALLOW", "s", <<"a">>)>>),
   other   |-> Json(<<ADim("m", <<"a", "a">>)>>, <<>>),
   square1 |-> Json(Square, <<ARule("DENY", "r", <<"a", "b">>), ARule("ALLOW", "s", <<>>)>>),
   square2 |-> Json(Square, <<ARule("ALLOW", "s", <<"*", "b">>), ARule("ALLOW", "s", <<"b">>)>>),
   square3 |-> Json(Square, <<ARule("ALLOW", "r", <<"b", "*">>), ARule("DENY", "s", <<"a", "a">>),
                              ARule("ALLOW", "t", <<"*">>)>>),
   square4 |-> Json(Square, <<ARule("ALLOW", "s", <<"b", "a">>), ARule("DENY", "s", <<>>)>>),
   triple1 |-> Json(Triple, <<ARule("ALLOW", "r", <<"c">>), ARule("DENY", "", <<"*">>)>>),
   triple2 |-> Json(Triple, <<ARule("DENY", "r", <<"b">>), ARule("ALLOW", "r", <<>>)>>),
   cube    |-> Json(Cube, <<ARule("ALLOW", "r", <<>>)>>),
   empty   |-> Json(<<ADim("n", <<>>)>>, <<>>),
   text    |-> [Json(Square, <<>>) EXCEPT !.ext = ".txt"]]

Plain(s) == [kind |-> "plain", text |-> s]
Set(flag, s) == [kind |-> "set", flag |-> flag, text |-> s]
Bare(flag) == [kind |-> "bare", flag |-> flag]
Dashed == [kind |-> "dashed"]

Flags ==
  {<<>>, <<Bare("include-unchanged")>>, <<Bare("format"), Plain("json")>>, <<Set("limit", "4")>>,
   <<Bare("limit"), Plain("2"), Set("format", "json")>>, <<Set("limit", "2"), Set("limit", "3")>>,
   <<Set("format", "json"), Bare("include-unchanged")>>, <<Set("format", "xml")>>,
   <<Bare("format"), Bare("limit"), Bare("include-unchanged")>>,
   <<Bare("limit")>>, <<Set("limit", "0")>>, <<Set("limit", "x")>>, <<Dashed>>,
   <<Set("include-unchanged", "true")>>, <<Plain("cube")>>}

Places(old, new, flags) ==
  {<<Plain(old), Plain(new)>> \o flags, flags \o <<Plain(old), Plain(new)>>,
   <<Plain(old)>> \o flags \o <<Plain(new)>>}

Named == DOMAIN MCPaths \cup {"missing"}

MCDiffLines ==
  UNION {Places(old, new, flags) : old \in Named, new \in Named, flags \in Flags}

MCParseInt == ("0" :> 0) @@ ("2" :> 2) @@ ("3" :> 3) @@ ("4" :> 4)

MCValue == {"a", "b", "c"}
Order == [a |-> 1, b |-> 2, c |-> 3]
MCJoinBefore(s, t) ==
  \E i \in DOMAIN s : /\ \A k \in 1 .. i - 1 : s[k] = t[k]
                      /\ Order[s[i]] < Order[t[i]]

MCTrimSpace == [s \in {"a", "b", "c", "*", "n", "m", "", "ALLOW", "DENY"} |-> s] @@ (" n " :> "n")
MCToUpper == [s \in {"ALLOW", "DENY"} |-> s]

\* The limits of this instance fit, so that what rests on it is looked at.
ASSUME LimitsFit
=============================================================================
