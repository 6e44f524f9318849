------------------------------ MODULE ClosestModel ------------------------------
(***************************************************************************)
(* What the two nearest-tuple searches of closest.go are about: how a      *)
(* caller selects a dimension, and which tuples may be proposed to it.     *)
(*                                                                         *)
(* A selector is a Go value by its type: an integer of one of the integer  *)
(* types resolveDim knows, a string, or something of another type.         *)
(***************************************************************************)
EXTENDS RuleModel, FiniteSetsExt

CONSTANT IntBits    \* the width of int on the build

ASSUME IntBitsAssumption == IntBits \in Nat \ {0}

SignedType == {"int", "int32", "int64"}
UnsignedType == {"uint", "uint32", "uint64"}

-----------------------------------------------------------------------------
\* Mutant of toInt: the build's int is narrower than the selector's type.
toIntNarrow(n) == ((n + 2) % 4) - 2

\* The conversion int(n).
toInt(n) == ((n + 2 ^ (IntBits - 1)) % 2 ^ IntBits) - 2 ^ (IntBits - 1)

(***************************************************************************)
(* The 0-based dimension a selector stands for, noMatch for                *)
(* ErrInvalidDimension.  Signed integers are converted before they are     *)
(* looked at, unsigned ones are compared as they are; the first dimension  *)
(* of a name is taken, and no name selects an anonymous dimension.         *)
(***************************************************************************)
resolveDim(sel, names) ==
  LET index == IF sel.type \in SignedType THEN toInt(sel.val) ELSE sel.val
      named == {i \in DOMAIN names : names[i] = sel.val}
  IN  IF sel.type \in SignedType \cup UnsignedType
      THEN IF index \in 0 .. Len(names) - 1 THEN index ELSE noMatch
      ELSE IF sel.type = "string" /\ sel.val /= "" /\ named /= {}
           THEN Min(named) - 1
           ELSE noMatch

-----------------------------------------------------------------------------
\* Check: the first rule that matches allows.
Allowed(c, t) ==
  \E j \in Matching(c, t, FALSE) :
    IsFirst(Matching(c, t, FALSE), j) /\ Rule(c, j).act = "ALLOW"

Changed(q, t) == {i \in DOMAIN q : t[i] /= q[i]}

\* The allowed tuples other than q that differ from it in these dimensions only,
\* and there by declared values.
Candidates(c, q, dims) ==
  {t \in Tuples(Len(c.dims)) :
     /\ Changed(q, t) /= {}
     /\ Changed(q, t) \subseteq dims
     /\ \A i \in Changed(q, t) : contains(c.dims[i], t[i])
     /\ Allowed(c, t)}

Nearest(c, q, dims) ==
  {t \in Candidates(c, q, dims) : \A u \in Candidates(c, q, dims) :
     Cardinality(Changed(q, t)) <= Cardinality(Changed(q, u))}
=============================================================================
