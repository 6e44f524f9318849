----------------------------- MODULE MCChildStore -----------------------------
(***************************************************************************)
(* A small instance of ChildStore: five keys over a threshold of two, so   *)
(* that children arrive before, with and after the move to the map.        *)
(***************************************************************************)
EXTENDS ChildStore

MCKey == {"a", "b", "c", "d", "e"}
=============================================================================
