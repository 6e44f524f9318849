------------------------------ MODULE ChildStore ------------------------------
(***************************************************************************)
(* How a trie node stores its children (trie.go): in a slice, looked       *)
(* through from the front, until there are more than trieChildThreshold of *)
(* them, and from then on in a map.  A node is its number in the order of  *)
(* creation; a nil map is an empty one, as a map that is made is not empty.*)
(***************************************************************************)
EXTENDS Integers, Sequences, FiniteSets

CONSTANTS
  Key,                 \* the values rules name at this depth
  trieChildThreshold   \* 16

ASSUME ThresholdAssumption == trieChildThreshold \in Nat

VARIABLES
  children,      \* entries [key, node]
  childrenMap,   \* nilMap while the slice is in use
  created,       \* how many nodes there are
  answer         \* what the last call returned

vars == <<children, childrenMap, created, answer>>

noNode == 0
nilMap == [k \in {} |-> noNode]

Entry == [key : Key, node : Nat]

Keys(s) == {s[i].key : i \in DOMAIN s}

\* The node of a key's only entry.
NodeIn(s, key) == s[CHOOSE i \in DOMAIN s : s[i].key = key].node

TypeOK ==
  /\ children \in Seq(Entry)
  /\ DOMAIN childrenMap \subseteq Key
  /\ \A k \in DOMAIN childrenMap : childrenMap[k] \in 1 .. created
  /\ \A i \in DOMAIN children : children[i].node \in 1 .. created
  /\ created \in Nat
  /\ answer \in 0 .. created

Init ==
  /\ children = <<>>
  /\ childrenMap = nilMap
  /\ created = 0
  /\ answer = noNode

Added(map, key, node) ==
  [k \in DOMAIN map \cup {key} |-> IF k = key THEN node ELSE map[k]]

AsMap(s) == [k \in Keys(s) |-> NodeIn(s, k)]

\* Mutant of upgrade: the slice is kept.
upgradeKeepingSlice(s) ==
  IF Len(s) > trieChildThreshold
  THEN childrenMap' = AsMap(s) /\ children' = s
  ELSE children' = s /\ UNCHANGED childrenMap

\* Mutant of upgrade: the map is made of the entries before the new one.
upgradeBeforeAppend(s) ==
  IF Len(s) > trieChildThreshold
  THEN childrenMap' = AsMap(SubSeq(s, 1, Len(s) - 1)) /\ children' = <<>>
  ELSE children' = s /\ UNCHANGED childrenMap

\* The slice s becomes a map once it is longer than the threshold.
upgrade(s) ==
  IF Len(s) > trieChildThreshold
  THEN childrenMap' = AsMap(s) /\ children' = <<>>
  ELSE children' = s /\ UNCHANGED childrenMap

newTrieNode ==
  created' = created + 1 /\ answer' = created + 1

getOrCreateChild(key) ==
  \/ /\ childrenMap /= nilMap
     /\ \/ /\ key \in DOMAIN childrenMap
           /\ answer' = childrenMap[key]
           /\ UNCHANGED <<children, childrenMap, created>>
        \/ /\ key \notin DOMAIN childrenMap
           /\ newTrieNode
           /\ childrenMap' = Added(childrenMap, key, answer')
           /\ UNCHANGED children
  \/ /\ childrenMap = nilMap
     /\ \/ /\ key \in Keys(children)
           /\ answer' = NodeIn(children, key)
           /\ UNCHANGED <<children, childrenMap, created>>
        \/ /\ key \notin Keys(children)
           /\ newTrieNode
           /\ upgrade(Append(children, [key |-> key, node |-> answer']))

\* The lookup of search; a nil exactChild is no node.
find(key) ==
  /\ answer' = IF childrenMap /= nilMap
               THEN IF key \in DOMAIN childrenMap THEN childrenMap[key] ELSE noNode
               ELSE IF key \in Keys(children) THEN NodeIn(children, key) ELSE noNode
  /\ UNCHANGED <<children, childrenMap, created>>

Next == \E key \in Key : getOrCreateChild(key) \/ find(key)

Spec == Init /\ [][Next]_vars

-----------------------------------------------------------------------------
(***************************************************************************)
(* A node has its children in one place: a slice of at most as many as the *)
(* threshold, no key twice, or, from the first one beyond, a map and no    *)
(* slice a search could still look through (trie.go:45-51).                *)
(***************************************************************************)
OnePlace ==
  /\ childrenMap = nilMap => Len(children) <= trieChildThreshold
  /\ childrenMap /= nilMap => children = <<>> /\ Cardinality(DOMAIN childrenMap) > trieChildThreshold
  /\ \A i, j \in DOMAIN children : children[i].key = children[j].key => i = j

Map == INSTANCE ChildMap
         WITH kids <- IF childrenMap /= nilMap THEN childrenMap ELSE AsMap(children),
              NoNode <- noNode

(***************************************************************************)
(* Whatever the slice and the map do, a key once given a child keeps it,   *)
(* every lookup finds it and no other key shares it: also over the call    *)
(* that moves the children from the slice to the map (trie.go:45).         *)
(***************************************************************************)
ImplementsChildMap == Map!Spec
=============================================================================
