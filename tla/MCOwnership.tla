----------------------------- MODULE MCOwnership -----------------------------
(***************************************************************************)
(* A small instance of Ownership: lists of one string, that can become     *)
(* another one, and room for two engines or for one and what its caller    *)
(* does with the slices it gave and got.                                   *)
(***************************************************************************)
EXTENDS Ownership

MCValue == {"a", "b"}
MCStrings == {<<"a">>}
=============================================================================
