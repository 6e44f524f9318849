----------------------------- MODULE MCHotReload -----------------------------
(***************************************************************************)
(* A small instance of HotReload: two files that decide the same request   *)
(* differently, one whose dimensions have drifted from (role, method,      *)
(* resource), and one that an editor has written half of.                  *)
(***************************************************************************)
EXTENDS HotReload, TLC

Str(s) == [type |-> "string", text |-> s]
Json(dims, rules) ==
  [ext |-> ".json", state |-> "ok", content |-> [dims |-> dims, rules |-> rules]]

Dimension == [role |-> [name |-> "role", values |-> <<"anonymous", "ed">>],
              method |-> [name |-> "method", values |-> <<"GET">>],
              resource |-> [name |-> "resource", values |-> <<"posts", "">>]]
Three == <<Dimension.role, Dimension.method, Dimension.resource>>

Allow(conditions) == [action |-> "ALLOW", conditions |-> conditions]

MCFiles ==
  {Json(Three, <<Allow(<<Str("ed")>>)>>),
   Json(Three, <<Allow(<<Str("*"), Str("GET"), Str("posts")>>)>>),
   Json(SubSeq(Three, 1, 2), <<Allow(<<>>)>>),
   [Json(<<>>, <<>>) EXCEPT !.state = "malformed"]}

MCRole == {" ed ", ""}
MCMethod == {"GET"}
MCPath == {<<"", "posts", "1">>}
MCValue == {"anonymous", "ed", "GET", "posts", ""}

MCTrimSpace ==
  [s \in {"", "*", "ed", "GET", "posts", "ALLOW", "role", "method", "resource"} |-> s] @@ (" ed " :> "ed")
MCToUpper == [s \in {"ALLOW"} |-> s]
=============================================================================
