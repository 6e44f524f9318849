------------------------------- MODULE ChildMap -------------------------------
(***************************************************************************)
(* What the children of a trie node are to insert and search: a map from   *)
(* keys to nodes that only grows.  ChildStore shows that the slice that    *)
(* becomes a map (trie.go) implements it, and RuleTrie builds on it.       *)
(***************************************************************************)
EXTENDS Naturals

CONSTANTS Key, NoNode

VARIABLES
  kids,     \* the children
  answer    \* what the last call returned

vars == <<kids, answer>>

Init == kids = [k \in {} |-> NoNode] /\ answer = NoNode

\* The child of the key, created if there is none.
GetOrCreate(key) ==
  \/ /\ key \in DOMAIN kids
     /\ answer' = kids[key]
     /\ UNCHANGED kids
  \/ /\ key \notin DOMAIN kids
     /\ \A k \in DOMAIN kids : kids[k] /= answer'
     /\ answer' /= NoNode
     /\ kids' = [k \in DOMAIN kids \cup {key} |-> IF k = key THEN answer' ELSE kids[k]]

Find(key) ==
  /\ answer' = IF key \in DOMAIN kids THEN kids[key] ELSE NoNode
  /\ UNCHANGED kids

Next == \E key \in Key : GetOrCreate(key) \/ Find(key)

Spec == Init /\ [][Next]_vars
=============================================================================
