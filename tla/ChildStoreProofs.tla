--------------------------- MODULE ChildStoreProofs ---------------------------
(***************************************************************************)
(* Proofs about ChildStore, for every threshold and any set of keys: the   *)
(* children are in one place, and the slice that becomes a map implements  *)
(* ChildMap.                                                               *)
(***************************************************************************)
EXTENDS ChildStore, FunctionTheorems, FiniteSetTheorems, SequenceTheorems, TLAPS

\* No key is in the slice twice.
Distinct(s) == \A i, j \in DOMAIN s : s[i].key = s[j].key => i = j

IInv == TypeOK /\ OnePlace /\ IsFiniteSet(DOMAIN childrenMap)

\* With no key twice, the node of an entry is the node of its key.
LEMMA OnlyEntry ==
  ASSUME NEW s, Distinct(s), NEW i \in DOMAIN s
  PROVE  NodeIn(s, s[i].key) = s[i].node
<1> DEFINE c == CHOOSE j \in DOMAIN s : s[j].key = s[i].key
<1>1. c \in DOMAIN s /\ s[c].key = s[i].key
  OBVIOUS
<1>2. c = i
  BY <1>1 DEF Distinct
<1> QED
  BY <1>2 DEF NodeIn

\* There are as many keys as entries.
LEMMA CountKeys ==
  ASSUME NEW s \in Seq(Entry), Distinct(s)
  PROVE  IsFiniteSet(Keys(s)) /\ Cardinality(Keys(s)) = Len(s)
<1> DEFINE f == [i \in 1 .. Len(s) |-> s[i].key]
<1>1. Len(s) \in Nat /\ DOMAIN s = 1 .. Len(s)
  OBVIOUS
<1>2. f \in Bijection(1 .. Len(s), Keys(s))
  <2>1. f \in [1 .. Len(s) -> Keys(s)]
    BY <1>1 DEF Keys
  <2>2. \A i, j \in 1 .. Len(s) : f[i] = f[j] => i = j
    BY <1>1 DEF Distinct
  <2>3. \A k \in Keys(s) : \E i \in 1 .. Len(s) : f[i] = k
    BY <1>1 DEF Keys
  <2> QED
    BY <2>1, <2>2, <2>3 DEF Bijection, Injection, IsInjective, Surjection
<1>3. ExistsBijection(1 .. Len(s), Keys(s))
  BY <1>2 DEF ExistsBijection
<1> QED
  BY <1>1, <1>3, FS_CountingElements, FS_NatBijection

\* t is s with an entry for a new key at index n.
Grown(s, t, n, key, node) ==
  /\ \A i \in DOMAIN t : i \in DOMAIN s \/ i = n
  /\ DOMAIN s \subseteq DOMAIN t /\ n \in DOMAIN t /\ n \notin DOMAIN s
  /\ \A i \in DOMAIN s : t[i] = s[i] /\ s[i].key /= key
  /\ t[n].key = key /\ t[n].node = node

LEMMA AppendGrows ==
  ASSUME NEW s \in Seq(Entry), NEW key \in Key \ Keys(s), NEW node \in Nat,
         NEW t, t = Append(s, [key |-> key, node |-> node])
  PROVE  t \in Seq(Entry) /\ Grown(s, t, Len(s) + 1, key, node)
<1> DEFINE n == Len(s)
<1>1. [key |-> key, node |-> node] \in Entry
  BY DEF Entry
<1>2. /\ t \in Seq(Entry) /\ Len(t) = n + 1
      /\ \A i \in 1 .. n : t[i] = s[i]
      /\ t[n + 1] = [key |-> key, node |-> node]
  BY <1>1, AppendProperties
<1>3. n \in Nat /\ DOMAIN s = 1 .. n /\ DOMAIN t = 1 .. n + 1
  BY <1>2
<1> HIDE DEF n
<1>4. \A i \in DOMAIN t : i \in DOMAIN s \/ i = n + 1
  BY <1>3
<1>5. DOMAIN s \subseteq DOMAIN t /\ n + 1 \in DOMAIN t /\ n + 1 \notin DOMAIN s
  BY <1>3
<1>6. \A i \in DOMAIN s : t[i] = s[i] /\ s[i].key /= key
  BY <1>2, <1>3 DEF Keys
<1>7. t[n + 1].key = key /\ t[n + 1].node = node
  BY <1>2
<1> QED
  BY <1>2, <1>4, <1>5, <1>6, <1>7 DEF n, Grown

\* So keys stay distinct, there is one more, and every key has the node it had.
LEMMA AppendKey ==
  ASSUME NEW s, NEW t, NEW n, NEW key, NEW node, Distinct(s), Grown(s, t, n, key, node)
  PROVE  /\ Distinct(t)
         /\ Keys(t) = Keys(s) \cup {key}
         /\ NodeIn(t, key) = node
         /\ \A k \in Keys(s) : NodeIn(t, k) = NodeIn(s, k)
<1>1. Distinct(t)
  BY DEF Distinct, Grown
<1>2. Keys(t) = Keys(s) \cup {key}
  BY DEF Keys, Grown
<1>3. NodeIn(t, key) = node
  BY <1>1, OnlyEntry DEF Grown
<1>4. ASSUME NEW k \in Keys(s) PROVE NodeIn(t, k) = NodeIn(s, k)
  <2>1. PICK i \in DOMAIN s : k = s[i].key
    BY DEF Keys
  <2>2. NodeIn(s, k) = s[i].node
    BY <2>1, OnlyEntry
  <2>3. i \in DOMAIN t /\ t[i].key = k /\ t[i].node = s[i].node
    BY <2>1 DEF Grown
  <2>4. NodeIn(t, t[i].key) = t[i].node
    BY <1>1, <2>3, OnlyEntry
  <2> QED
    BY <2>2, <2>3, <2>4
<1> QED
  BY <1>1, <1>2, <1>3, <1>4

-----------------------------------------------------------------------------
LEMMA InitInv == Init => IInv
<1> SUFFICES ASSUME Init PROVE IInv
  OBVIOUS
<1>1. /\ DOMAIN childrenMap = {} /\ childrenMap = nilMap
      /\ Len(children) = 0 /\ DOMAIN children = {}
  BY DEF Init, nilMap
<1>2. children \in Seq(Entry)
  BY EmptySeq DEF Init
<1> QED
  BY <1>1, <1>2, ThresholdAssumption, FS_EmptySet DEF Init, IInv, TypeOK, OnePlace, noNode

\* What is found in the slice is a node that has been created.
LEMMA NodeInSlice ==
  ASSUME IInv, NEW key \in Keys(children)
  PROVE  NodeIn(children, key) \in 1 .. created
<1>1. PICK i \in DOMAIN children : key = children[i].key
  BY DEF Keys
<1>2. Distinct(children)
  BY DEF IInv, OnePlace, Distinct
<1>3. NodeIn(children, key) = children[i].node
  BY <1>1, <1>2, OnlyEntry
<1> QED
  BY <1>3 DEF IInv, TypeOK

\* A lookup changes the answer only.
LEMMA FindInv == ASSUME IInv, NEW key \in Key, find(key) PROVE IInv'
<1>1. answer' \in 0 .. created
  <2>1. \A k \in DOMAIN childrenMap : childrenMap[k] \in 0 .. created
    BY DEF IInv, TypeOK
  <2>2. key \in Keys(children) => NodeIn(children, key) \in 0 .. created
    BY NodeInSlice DEF IInv, TypeOK
  <2>3. noNode \in 0 .. created
    BY DEF noNode, IInv, TypeOK
  <2> QED
    BY <2>1, <2>2, <2>3 DEF find
<1> QED
  BY <1>1 DEF find, IInv, TypeOK, OnePlace

\* The four ways through getOrCreateChild.
Held(key) ==
  /\ answer' \in 1 .. created
  /\ UNCHANGED <<children, childrenMap, created>>

MapGrows(key) ==
  /\ childrenMap /= nilMap /\ key \notin DOMAIN childrenMap
  /\ created' = created + 1 /\ answer' = created + 1
  /\ childrenMap' = Added(childrenMap, key, answer')
  /\ UNCHANGED children

SliceGrows(key, t) ==
  /\ childrenMap = nilMap /\ key \notin Keys(children)
  /\ created' = created + 1 /\ answer' = created + 1
  /\ t = Append(children, [key |-> key, node |-> answer'])
  /\ upgrade(t)

LEMMA Ways ==
  ASSUME IInv, NEW key \in Key, getOrCreateChild(key)
  PROVE  Held(key) \/ MapGrows(key) \/ \E t : SliceGrows(key, t)
<1>1. CASE childrenMap /= nilMap /\ key \in DOMAIN childrenMap
  BY <1>1 DEF getOrCreateChild, Held, IInv, TypeOK
<1>2. CASE childrenMap /= nilMap /\ key \notin DOMAIN childrenMap
  BY <1>2 DEF getOrCreateChild, newTrieNode, MapGrows
<1>3. CASE childrenMap = nilMap /\ key \in Keys(children)
  BY <1>3, NodeInSlice DEF getOrCreateChild, Held
<1>4. CASE childrenMap = nilMap /\ key \notin Keys(children)
  BY <1>4 DEF getOrCreateChild, newTrieNode, SliceGrows
<1> QED
  BY <1>1, <1>2, <1>3, <1>4

LEMMA MapGrowsInv == ASSUME IInv, NEW key \in Key, MapGrows(key) PROVE IInv'
<1>1. /\ DOMAIN childrenMap' = DOMAIN childrenMap \cup {key}
      /\ \A k \in DOMAIN childrenMap : k /= key /\ childrenMap'[k] = childrenMap[k]
      /\ childrenMap'[key] = created + 1
  BY DEF MapGrows, Added
<1>2. /\ IsFiniteSet(DOMAIN childrenMap')
      /\ Cardinality(DOMAIN childrenMap') = Cardinality(DOMAIN childrenMap) + 1
      /\ Cardinality(DOMAIN childrenMap) \in Nat
  BY <1>1, FS_AddElement, FS_CardinalityType DEF IInv, MapGrows
<1>3. childrenMap' /= nilMap
  BY <1>1 DEF nilMap
<1>4. TypeOK'
  BY <1>1 DEF IInv, TypeOK, MapGrows
<1>5. OnePlace'
  BY <1>2, <1>3, ThresholdAssumption DEF IInv, OnePlace, MapGrows
<1> QED
  BY <1>2, <1>4, <1>5 DEF IInv

\* The slice with the new entry is distinct, and so as long as it has keys.
LEMMA SliceGrowsInv == ASSUME IInv, NEW key \in Key, NEW t, SliceGrows(key, t) PROVE IInv'
<1>1. /\ children \in Seq(Entry) /\ Distinct(children) /\ key \in Key \ Keys(children)
      /\ created \in Nat /\ created + 1 \in Nat
      /\ t = Append(children, [key |-> key, node |-> created + 1])
  BY DEF IInv, TypeOK, OnePlace, Distinct, SliceGrows
<1>a. t \in Seq(Entry) /\ Grown(children, t, Len(children) + 1, key, created + 1)
  BY <1>1, AppendGrows
<1>2. Distinct(t)
  BY <1>1, <1>a, AppendKey
<1>3. \A i \in DOMAIN t : t[i].node \in 1 .. created'
  BY <1>1, <1>a DEF Grown, SliceGrows, IInv, TypeOK
<1>4. created' \in Nat /\ answer' \in 0 .. created'
  BY <1>1 DEF SliceGrows
<1>5. CASE Len(t) > trieChildThreshold
  <2>1. childrenMap' = AsMap(t) /\ children' = <<>>
    BY <1>5 DEF SliceGrows, upgrade
  <2>2. DOMAIN childrenMap' = Keys(t) /\ \A k \in Keys(t) : childrenMap'[k] = NodeIn(t, k)
    BY <2>1 DEF AsMap
  <2>3. \A k \in Keys(t) : k \in Key /\ NodeIn(t, k) \in 1 .. created'
    <3> SUFFICES ASSUME NEW k \in Keys(t) PROVE k \in Key /\ NodeIn(t, k) \in 1 .. created'
      OBVIOUS
    <3>1. PICK i \in DOMAIN t : k = t[i].key
      BY DEF Keys
    <3>2. NodeIn(t, k) = t[i].node
      BY <1>2, <3>1, OnlyEntry
    <3>3. t[i] \in Entry
      BY <1>a
    <3> QED
      BY <1>3, <3>1, <3>2, <3>3 DEF Entry
  <2>4. IsFiniteSet(Keys(t)) /\ Cardinality(Keys(t)) = Len(t)
    BY <1>a, <1>2, CountKeys
  <2>5. children' \in Seq(Entry) /\ DOMAIN children' = {} /\ Len(children') = 0
    BY <2>1, EmptySeq
  <2>6. TypeOK'
    BY <1>4, <2>2, <2>3, <2>5 DEF TypeOK
  <2>7. OnePlace'
    BY <1>5, <2>1, <2>2, <2>4, <2>5, ThresholdAssumption DEF OnePlace
  <2> QED
    BY <2>2, <2>4, <2>6, <2>7 DEF IInv
<1>6. CASE ~(Len(t) > trieChildThreshold)
  <2>1. childrenMap' = childrenMap /\ children' = t
    BY <1>6 DEF SliceGrows, upgrade
  <2>2. Len(t) \in Nat /\ Len(t) <= trieChildThreshold
    BY <1>a, <1>6, ThresholdAssumption
  <2>3. DOMAIN childrenMap = {}
    BY DEF SliceGrows, nilMap
  <2>4. TypeOK'
    BY <1>a, <1>3, <1>4, <2>1, <2>3 DEF TypeOK
  <2>5. OnePlace'
    BY <1>2, <2>1, <2>2 DEF OnePlace, SliceGrows, Distinct
  <2> QED
    BY <2>1, <2>4, <2>5 DEF IInv
<1> QED
  BY <1>5, <1>6

\* The inductive invariant holds in every reachable state.
THEOREM InvariantHolds == Spec => []IInv
<1>1. ASSUME IInv, NEW key \in Key, getOrCreateChild(key) PROVE IInv'
  <2>1. CASE Held(key)
    BY <1>1, <2>1 DEF Held, IInv, TypeOK, OnePlace
  <2> QED
    BY <1>1, <2>1, Ways, MapGrowsInv, SliceGrowsInv
<1>2. IInv /\ UNCHANGED vars => IInv'
  BY DEF vars, IInv, TypeOK, OnePlace
<1>3. IInv /\ [Next]_vars => IInv'
  BY <1>1, <1>2, FindInv DEF Next
<1> QED
  BY <1>3, InitInv, PTL DEF Spec

\* The slice and the map keep their types (trie.go:9-21).
THEOREM TypeCorrect == Spec => []TypeOK
<1>1. IInv => TypeOK
  BY DEF IInv
<1> QED
  BY <1>1, InvariantHolds, PTL

\* The children are in the slice or in the map, as many as fit there (trie.go:45-51).
THEOREM ChildrenInOnePlace == Spec => []OnePlace
<1>1. IInv => OnePlace
  BY DEF IInv
<1> QED
  BY <1>1, InvariantHolds, PTL

-----------------------------------------------------------------------------
\* The map from keys to nodes the two representations stand for.
Kids == IF childrenMap /= nilMap THEN childrenMap ELSE AsMap(children)

LEMMA InitMaps == Init => Map!Init
<1> SUFFICES ASSUME Init PROVE Map!Init
  OBVIOUS
<1>1. Keys(children) = {}
  BY DEF Init, Keys
<1>2. AsMap(children) = [k \in {} |-> noNode]
  BY <1>1 DEF AsMap
<1> QED
  BY <1>2 DEF Init, Map!Init

LEMMA FindMaps == ASSUME NEW key \in Key, find(key) PROVE Map!Find(key)
<1>1. DOMAIN Kids = IF childrenMap /= nilMap THEN DOMAIN childrenMap ELSE Keys(children)
  BY DEF Kids, AsMap
<1>2. answer' = IF key \in DOMAIN Kids THEN Kids[key] ELSE noNode
  BY <1>1 DEF find, Kids, AsMap
<1>3. Kids' = Kids
  BY DEF find, Kids, AsMap, Keys, NodeIn
<1> QED
  BY <1>2, <1>3 DEF Map!Find, Kids

\* Every child of the map was created, so a new one is none of them.
LEMMA OldKids == IInv => \A k \in DOMAIN Kids : Kids[k] \in 1 .. created
<1> SUFFICES ASSUME IInv, NEW k \in DOMAIN Kids PROVE Kids[k] \in 1 .. created
  OBVIOUS
<1>1. CASE childrenMap /= nilMap
  BY <1>1 DEF Kids, IInv, TypeOK
<1>2. CASE childrenMap = nilMap
  BY <1>2, NodeInSlice DEF Kids, AsMap
<1> QED
  BY <1>1, <1>2

LEMMA GetOrCreateMaps ==
  ASSUME IInv, NEW key \in Key, getOrCreateChild(key)
  PROVE  Map!GetOrCreate(key)
<1>1. DOMAIN Kids = IF childrenMap /= nilMap THEN DOMAIN childrenMap ELSE Keys(children)
  BY DEF Kids, AsMap
<1>2. CASE key \in DOMAIN Kids
  <2>1. answer' = Kids[key] /\ UNCHANGED <<children, childrenMap>>
    BY <1>1, <1>2 DEF getOrCreateChild, Kids, AsMap
  <2>2. Kids' = Kids
    BY <2>1 DEF Kids, AsMap, Keys, NodeIn
  <2> QED
    BY <1>2, <2>1, <2>2 DEF Map!GetOrCreate, Kids
<1>3. CASE key \notin DOMAIN Kids
  <2>1. answer' = created + 1 /\ created \in Nat
    BY <1>1, <1>3 DEF getOrCreateChild, newTrieNode, IInv, TypeOK
  <2>2. answer' /= noNode /\ \A k \in DOMAIN Kids : Kids[k] /= answer'
    BY <2>1, OldKids DEF noNode
  <2>3. Kids' = [k \in DOMAIN Kids \cup {key} |-> IF k = key THEN answer' ELSE Kids[k]]
    <3>1. CASE childrenMap /= nilMap
      <4>1. childrenMap' = Added(childrenMap, key, answer')
        BY <1>1, <1>3, <3>1 DEF getOrCreateChild
      <4>2. key \in DOMAIN childrenMap'
        BY <4>1 DEF Added
      <4>3. childrenMap' /= nilMap
        BY <4>2 DEF nilMap
      <4> QED
        BY <3>1, <4>1, <4>3 DEF Kids, Added
    <3>2. CASE childrenMap = nilMap
      <4>1. PICK t : SliceGrows(key, t)
        BY <1>1, <1>3, <3>2 DEF getOrCreateChild, newTrieNode, SliceGrows
      <4>2. /\ children \in Seq(Entry) /\ Distinct(children) /\ key \in Key \ Keys(children)
            /\ answer' \in Nat
            /\ t = Append(children, [key |-> key, node |-> answer'])
        BY <2>1, <4>1 DEF IInv, TypeOK, OnePlace, Distinct, SliceGrows
      <4>3. /\ Keys(t) = Keys(children) \cup {key}
            /\ NodeIn(t, key) = answer'
            /\ \A k \in Keys(children) : NodeIn(t, k) = NodeIn(children, k)
        <5>1. Grown(children, t, Len(children) + 1, key, answer')
          BY <4>2, AppendGrows
        <5>2. Keys(t) = Keys(children) \cup {key}
          BY <4>2, <5>1, AppendKey
        <5>3. NodeIn(t, key) = answer'
          BY <4>2, <5>1, AppendKey
        <5>4. \A k \in Keys(children) : NodeIn(t, k) = NodeIn(children, k)
          BY <4>2, <5>1, AppendKey
        <5> QED
          BY <5>2, <5>3, <5>4
      <4>4. AsMap(t) = [k \in Keys(children) \cup {key} |->
                          IF k = key THEN answer' ELSE AsMap(children)[k]]
        BY <4>2, <4>3 DEF AsMap
      <4>5. Kids' = AsMap(t)
        <5>1. CASE Len(t) > trieChildThreshold
          <6>1. childrenMap' = AsMap(t)
            BY <4>1, <5>1 DEF SliceGrows, upgrade
          <6>2. key \in DOMAIN childrenMap'
            BY <4>3, <6>1 DEF AsMap
          <6>3. childrenMap' /= nilMap
            BY <6>2 DEF nilMap
          <6> QED
            BY <6>1, <6>3 DEF Kids
        <5>2. CASE ~(Len(t) > trieChildThreshold)
          <6>1. children' = t /\ childrenMap' = nilMap
            BY <3>2, <4>1, <5>2 DEF SliceGrows, upgrade
          <6>2. AsMap(children)' = AsMap(t)
            BY <6>1 DEF AsMap, Keys, NodeIn
          <6>3. nilMap' = nilMap
            BY DEF nilMap, noNode
          <6> QED
            BY <6>1, <6>2, <6>3 DEF Kids
        <5> QED
          BY <5>1, <5>2
      <4> QED
        BY <1>1, <3>2, <4>4, <4>5 DEF Kids
    <3> QED
      BY <3>1, <3>2
  <2> QED
    BY <1>3, <2>2, <2>3 DEF Map!GetOrCreate, Kids
<1> QED
  BY <1>2, <1>3

(***************************************************************************)
(* The slice that becomes a map is a map from keys to children that only   *)
(* grows (trie.go:27-53, 101-111).                                         *)
(***************************************************************************)
THEOREM StoreImplementsMap == Spec => ImplementsChildMap
<1>1. IInv /\ [Next]_vars => [Map!Next]_Map!vars
  <2> SUFFICES ASSUME IInv, [Next]_vars PROVE [Map!Next]_Map!vars
    OBVIOUS
  <2>1. CASE UNCHANGED vars
    BY <2>1 DEF vars, Map!vars, AsMap, Keys, NodeIn
  <2>2. CASE Next
    BY <2>2, GetOrCreateMaps, FindMaps DEF Next, Map!Next
  <2> QED
    BY <2>1, <2>2
<1> QED
  BY <1>1, InitMaps, InvariantHolds, PTL DEF Spec, ImplementsChildMap, Map!Spec
=============================================================================
