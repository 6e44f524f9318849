------------------------- MODULE CommandLineProofs -------------------------
(***************************************************************************)
(* Proofs about the commands of gorege, Commands and Diff: what they       *)
(* report is what the files they load say, for any files, any command      *)
(* lines and any width of an integer.                                      *)
(***************************************************************************)
EXTENDS Commands, Diff, FiniteSetTheorems, WellFoundedInduction, TLAPS

-----------------------------------------------------------------------------
(***************************************************************************)
(* Least and greatest elements.                                            *)
(***************************************************************************)
LEMMA LeastExists ==
  ASSUME NEW S \in SUBSET Nat, S /= {}
  PROVE  \E x \in S : \A y \in S : x <= y
<1>1. PICK x \in S : \A y \in S : ~ (<<y, x>> \in OpToRel(<, Nat))
  BY WFMin, NatLessThanWellFounded
<1>2. \A y \in S : ~ (y < x)
  BY <1>1 DEF OpToRel
<1> QED
  BY <1>2

\* A nonempty set of naturals with a bound has a greatest element.
LEMMA GreatestExists ==
  ASSUME NEW n \in Nat, NEW S \in SUBSET (0 .. n), S /= {}
  PROVE  \E x \in S : \A y \in S : y <= x
<1> DEFINE T == {n - x : x \in S}
<1>1. T \in SUBSET Nat
  OBVIOUS
<1>2. T /= {}
  OBVIOUS
<1>a. PICK t \in T : \A y \in T : t <= y
  BY <1>1, <1>2, LeastExists
<1>3. PICK x \in S : t = n - x
  BY <1>a
<1>4. \A y \in S : n - x <= n - y
  BY <1>a, <1>3
<1> QED
  BY <1>4

\* The first index of a set of indexes is one that IsFirst describes.
LEMMA FirstMeans ==
  ASSUME NEW S \in SUBSET Nat, S /= {}
  PROVE  First(S) \in S /\ \A y \in S : First(S) <= y
<1>1. \E x \in S : \A y \in S : x <= y
  BY LeastExists
<1>2. \E x \in S : IsFirst(S, x)
  BY <1>1 DEF IsFirst
<1>3. First(S) \in S /\ IsFirst(S, First(S))
  BY <1>2 DEF First
<1> QED
  BY <1>3 DEF IsFirst

-----------------------------------------------------------------------------
(***************************************************************************)
(* What the loader makes of a file.                                        *)
(***************************************************************************)
\* A list has the elements at its places.
LEMMA ListFacts ==
  ASSUME NEW s, s \in Seq(Range(s))
  PROVE  /\ Len(s) \in Nat /\ DOMAIN s = 1 .. Len(s)
         /\ \A x : x \in Range(s) <=> \E i \in DOMAIN s : s[i] = x
BY DEF Range

\* The parts of a decoded file are lists.
LEMMA DecodedFacts ==
  ASSUME NEW content, Decoded(content)
  PROVE  /\ Len(content.dims) \in Nat /\ DOMAIN content.dims = 1 .. Len(content.dims)
         /\ \A i \in DOMAIN content.dims : /\ content.dims[i] \in Range(content.dims)
                                           /\ content.dims[i].values \in Seq(Value)
         /\ Len(content.rules) \in Nat /\ DOMAIN content.rules = 1 .. Len(content.rules)
         /\ \A j \in DOMAIN content.rules :
              LET r == content.rules[j]
              IN  /\ r \in Range(content.rules)
                  /\ Len(r.conditions) \in Nat /\ DOMAIN r.conditions = 1 .. Len(r.conditions)
                  /\ \A i \in DOMAIN r.conditions :
                       /\ r.conditions[i] \in Range(r.conditions)
                       /\ r.conditions[i].type = "array" =>
                            r.conditions[i].elems \in Seq(Range(r.conditions[i].elems))
<1>1. /\ content.dims \in Seq(Range(content.dims))
      /\ \A dim \in Range(content.dims) : dim.values \in Seq(Value)
      /\ content.rules \in Seq(Range(content.rules))
      /\ \A r \in Range(content.rules) :
           /\ r.conditions \in Seq(Range(r.conditions))
           /\ \A v \in Range(r.conditions) : v.type = "array" => v.elems \in Seq(Range(v.elems))
  BY DEF Decoded
<1>2. \A s : s \in Seq(Range(s)) =>
         /\ Len(s) \in Nat /\ DOMAIN s = 1 .. Len(s)
         /\ \A i \in DOMAIN s : s[i] \in Range(s)
  BY ListFacts
<1>3. \A j \in DOMAIN content.rules : content.rules[j] \in Range(content.rules)
  BY <1>1, <1>2
<1>4. \A i \in DOMAIN content.dims : content.dims[i] \in Range(content.dims)
  BY <1>1, <1>2
<1>5. \A r \in Range(content.rules) :
         /\ Len(r.conditions) \in Nat /\ DOMAIN r.conditions = 1 .. Len(r.conditions)
         /\ \A i \in DOMAIN r.conditions : r.conditions[i] \in Range(r.conditions)
  BY <1>1, <1>2
<1> QED
  BY <1>1, <1>2, <1>3, <1>4, <1>5

\* The rules decode when none has an error.
LEMMA RulesErrorMeans ==
  ASSUME NEW rules
  PROVE  RulesError(rules) = "nil" <=> \A j \in DOMAIN rules : RuleDecodes(rules[j])
<1> DEFINE bad == {j \in DOMAIN rules : ~RuleDecodes(rules[j])}
<1>1. bad = {} <=> \A j \in DOMAIN rules : RuleDecodes(rules[j])
  OBVIOUS
<1> HIDE DEF bad
<1>2. RulesError(rules) = IF bad = {} THEN "nil"
                          ELSE IF parseAction(rules[First(bad)].action) \notin Action THEN "invalid action"
                          ELSE "bad condition"
  BY DEF RulesError, bad
<1> QED
  BY <1>1, <1>2

\* The engine of a content.
EngineOf(content) ==
  [dims |-> dimensionsFromFile(content.dims), rules |-> rulesFromFile(content.rules)]

\* Options that leave the dimensions and the rules alone.
SettingsOnly(opts) ==
  /\ opts \in Seq(Range(opts))
  /\ \A o \in Range(opts) : o.kind \notin {"dimensions", "rules"}

\* The engine New builds from a file has the file's dimensions and rules.
LEMMA NewMeans ==
  ASSUME NEW dims, NEW rules, NEW opts, SettingsOnly(opts)
  PROVE  LET all == <<[kind |-> "dimensions", value |-> dims],
                      [kind |-> "rules", value |-> rules]>> \o opts
             c == [dims |-> dims, rules |-> rules]
         IN  New(all).err = validateEngine(c) /\ New(all).cfg = c
<1> DEFINE own == <<[kind |-> "dimensions", value |-> dims], [kind |-> "rules", value |-> rules]>>
           all == own \o opts
           places(kind) == {i \in DOMAIN all : all[i].kind = kind}
<1>1. /\ opts \in Seq(Range(opts)) /\ Len(opts) \in Nat
      /\ \A i \in 1 .. Len(opts) : opts[i].kind \notin {"dimensions", "rules"}
  BY DEF SettingsOnly, Range
<1> DEFINE T == Range(opts) \cup {own[1], own[2]}
<1>2. own \in Seq(T) /\ Len(own) = 2 /\ opts \in Seq(T)
  <2>1. own \in Seq(T) /\ Len(own) = 2
    OBVIOUS
  <2>2. \A i \in 1 .. Len(opts) : opts[i] \in T
    BY <1>1
  <2>3. opts \in Seq(T)
    BY <2>2, <1>1
  <2> QED
    BY <2>1, <2>3
<1>3. /\ DOMAIN all = 1 .. 2 + Len(opts)
      /\ \A i \in 1 .. 2 + Len(opts) : all[i] = IF i <= 2 THEN own[i] ELSE opts[i - 2]
  BY <1>1, <1>2
<1>4. all[1] = own[1] /\ all[2] = own[2]
  BY <1>1, <1>3
<1>5. own[1].kind = "dimensions" /\ own[1].value = dims /\ own[2].kind = "rules" /\ own[2].value = rules
  OBVIOUS
<1> HIDE DEF own, all
<1>6. \A i \in 3 .. 2 + Len(opts) : all[i].kind \notin {"dimensions", "rules"}
  <2>1. TAKE i \in 3 .. 2 + Len(opts)
  <2>2. i \in 1 .. 2 + Len(opts) /\ ~ (i <= 2) /\ i - 2 \in 1 .. Len(opts)
    BY <1>1
  <2>3. all[i] = opts[i - 2]
    BY <2>2, <1>3
  <2> QED
    BY <2>2, <2>3, <1>1
<1>7. places("dimensions") = {1} /\ places("rules") = {2}
  <2>1. \A i \in 1 .. 2 + Len(opts) : i = 1 \/ i = 2 \/ i \in 3 .. 2 + Len(opts)
    BY <1>1
  <2>2. 1 \in 1 .. 2 + Len(opts) /\ 2 \in 1 .. 2 + Len(opts)
    BY <1>1
  <2> QED
    BY <2>1, <2>2, <1>3, <1>4, <1>5, <1>6
<1>8. Setting(all, "dimensions", <<>>) = dims
  <2>1. (CHOOSE i \in {1} : \A k \in {1} : k <= i) = 1
    OBVIOUS
  <2> QED
    BY <2>1, <1>4, <1>5, <1>7 DEF Setting
<1>9. Setting(all, "rules", <<>>) = rules
  <2>1. (CHOOSE i \in {2} : \A k \in {2} : k <= i) = 2
    OBVIOUS
  <2> QED
    BY <2>1, <1>4, <1>5, <1>7 DEF Setting
<1>10. New(all).err = validateEngine([dims |-> dims, rules |-> rules])
       /\ New(all).cfg = [dims |-> dims, rules |-> rules]
  BY <1>8, <1>9 DEF New
<1> QED
  BY <1>10 DEF all, own

\* A slot that decodes names what its matcher lists, or is the star.
LEMMA SlotMeans ==
  ASSUME NEW v, SlotDecodes(v), v.type = "array" => v.elems \in Seq(Range(v.elems))
  PROVE  LET m == matcherFromSlot(v)
             star == v.type = "string" /\ TrimSpace[v.text] = "*"
         IN  /\ m.kind = "wildcard" <=> star
             /\ ~star => Range(m.vals) = SlotNames(v)
<1>1. CASE v.type = "array"
  <2>1. /\ Len(v.elems) \in Nat /\ DOMAIN v.elems = 1 .. Len(v.elems)
        /\ \A x : x \in Range(v.elems) <=> \E i \in DOMAIN v.elems : v.elems[i] = x
    BY <1>1, ListFacts
  <2>2. matcherFromSlot(v) = [kind |-> "anyOf", vals |-> [i \in DOMAIN v.elems |-> v.elems[i].text]]
    BY <1>1 DEF matcherFromSlot
  <2>3. Range([i \in DOMAIN v.elems |-> v.elems[i].text]) = {e.text : e \in Range(v.elems)}
    BY <2>1 DEF Range
  <2> QED
    BY <1>1, <2>2, <2>3 DEF SlotNames
<1>2. CASE v.type = "string" /\ TrimSpace[v.text] = "*"
  BY <1>2 DEF matcherFromSlot, Wildcard
<1>3. CASE v.type = "string" /\ TrimSpace[v.text] /= "*"
  <2>1. matcherFromSlot(v) = [kind |-> "exact", vals |-> <<v.text>>]
    BY <1>3 DEF matcherFromSlot
  <2>2. Range(<<v.text>>) = {v.text}
    BY DEF Range
  <2> QED
    BY <1>3, <2>1, <2>2 DEF SlotNames
<1> QED
  BY <1>1, <1>2, <1>3 DEF SlotDecodes

\* The dimensions and the rules of the engine of a content.
LEMMA EngineOfMeans ==
  ASSUME NEW content, Decoded(content)
  PROVE  LET c == EngineOf(content)
         IN  /\ Len(c.dims) = Len(content.dims) /\ DOMAIN c.dims = 1 .. Len(content.dims)
             /\ c.dims \in Seq(Seq(Value))
             /\ \A i \in 1 .. Len(content.dims) : c.dims[i] = content.dims[i].values
             /\ Len(c.rules) = Len(content.rules)
             /\ RuleIndexes(c) = 0 .. Len(content.rules) - 1
             /\ \A j \in 1 .. Len(content.rules) :
                  LET r == Rule(c, j - 1)
                  IN  /\ r.act = parseAction(content.rules[j].action)
                      /\ Len(r.m) = Len(content.rules[j].conditions)
                      /\ \A i \in 1 .. Len(r.m) : r.m[i] = matcherFromSlot(content.rules[j].conditions[i])
<1> DEFINE c == EngineOf(content)
           D == dimensionsFromFile(content.dims)
           R == rulesFromFile(content.rules)
<1>1. c.dims = D /\ c.rules = R
  BY DEF EngineOf
<1>2. D = [i \in 1 .. Len(content.dims) |-> content.dims[i].values] /\ Len(content.dims) \in Nat
  BY DecodedFacts DEF dimensionsFromFile
<1>3. R = [j \in 1 .. Len(content.rules) |->
             [act |-> parseAction(content.rules[j].action),
              m |-> [i \in DOMAIN content.rules[j].conditions |->
                       matcherFromSlot(content.rules[j].conditions[i])]]]
      /\ Len(content.rules) \in Nat
  BY DecodedFacts DEF rulesFromFile
<1> HIDE DEF D, R, c
<1>4. Len(D) = Len(content.dims) /\ D \in Seq(Seq(Value)) /\ DOMAIN D = 1 .. Len(content.dims)
  <2>1. \A i \in 1 .. Len(content.dims) : content.dims[i].values \in Seq(Value)
    BY DecodedFacts
  <2> QED
    BY <1>2, <2>1
<1>5. Len(R) = Len(content.rules)
  BY <1>3
<1>6. \A j \in 1 .. Len(content.rules) : Rule(c, j - 1) = R[j]
  <2>1. \A j \in 1 .. Len(content.rules) : (j - 1) + 1 = j
    BY <1>3
  <2> QED
    BY <1>1, <2>1 DEF Rule
<1>7. ASSUME NEW j \in 1 .. Len(content.rules)
      PROVE  LET r == R[j]
             IN  /\ r.act = parseAction(content.rules[j].action)
                 /\ Len(r.m) = Len(content.rules[j].conditions)
                 /\ \A i \in 1 .. Len(r.m) : r.m[i] = matcherFromSlot(content.rules[j].conditions[i])
  <2> DEFINE cs == content.rules[j].conditions
  <2>1. Len(cs) \in Nat /\ DOMAIN cs = 1 .. Len(cs)
    BY DecodedFacts
  <2>2. R[j].act = parseAction(content.rules[j].action)
    BY <1>3
  <2>3. R[j].m = [i \in DOMAIN cs |-> matcherFromSlot(cs[i])]
    BY <1>3
  <2>4. Len(R[j].m) = Len(cs)
    BY <2>1, <2>3
  <2> QED
    BY <2>1, <2>2, <2>3, <2>4
<1>8. RuleIndexes(c) = 0 .. Len(content.rules) - 1
  BY <1>1, <1>5 DEF RuleIndexes
<1> QED
  BY <1>1, <1>2, <1>4, <1>5, <1>6, <1>7, <1>8 DEF c

\* One rule passes validation when, read, it names declared values only.
LEMMA ValidMeans ==
  ASSUME NEW content, Decoded(content), NEW j \in 1 .. Len(content.rules),
         \A i \in 1 .. Len(content.dims) : content.dims[i].values /= <<>>,
         RuleDecodes(content.rules[j])
  PROVE  LET c == EngineOf(content)
             cs == content.rules[j].conditions
         IN  ValidRule(Rule(c, j - 1), c.dims)
             <=> /\ Len(cs) <= Len(content.dims)
                 /\ \A i \in DOMAIN cs :
                      \/ cs[i].type = "string" /\ TrimSpace[cs[i].text] = "*"
                      \/ SlotNames(cs[i]) \subseteq Range(content.dims[i].values)
<1> DEFINE c == EngineOf(content)
           cs == content.rules[j].conditions
           r == Rule(c, j - 1)
           star(v) == v.type = "string" /\ TrimSpace[v.text] = "*"
<1>1. /\ Len(cs) \in Nat /\ DOMAIN cs = 1 .. Len(cs)
      /\ \A i \in DOMAIN cs : /\ cs[i] \in Range(cs)
                              /\ cs[i].type = "array" => cs[i].elems \in Seq(Range(cs[i].elems))
      /\ Len(content.dims) \in Nat
  BY DecodedFacts
<1>2. /\ Len(r.m) = Len(cs)
      /\ \A i \in 1 .. Len(r.m) : r.m[i] = matcherFromSlot(cs[i])
      /\ Len(c.dims) = Len(content.dims)
      /\ \A i \in 1 .. Len(content.dims) : c.dims[i] = content.dims[i].values
  BY EngineOfMeans
<1>3. \A i \in DOMAIN cs : /\ matcherFromSlot(cs[i]).kind = "wildcard" <=> star(cs[i])
                           /\ ~star(cs[i]) => Range(matcherFromSlot(cs[i]).vals) = SlotNames(cs[i])
  <2>1. \A i \in DOMAIN cs : SlotDecodes(cs[i])
    BY <1>1 DEF RuleDecodes
  <2> QED
    BY <1>1, <2>1, SlotMeans
<1> HIDE DEF c, cs, r, star
<1>4. ASSUME NEW i \in 1 .. Len(cs), i \in 1 .. Len(content.dims)
      PROVE  validMatcher(r.m[i], c.dims[i])
             <=> star(cs[i]) \/ SlotNames(cs[i]) \subseteq Range(content.dims[i].values)
  <2>1. r.m[i] = matcherFromSlot(cs[i]) /\ c.dims[i] = content.dims[i].values
    BY <1>2, <1>4
  <2>2. Declared(c.dims[i])
    BY <2>1, <1>4 DEF Declared
  <2> QED
    BY <2>1, <2>2, <1>1, <1>3 DEF validMatcher
<1>5. Len(cs) <= Len(content.dims) => \A i \in 1 .. Len(cs) : i \in 1 .. Len(content.dims)
  BY <1>1
<1>6. TooWide(r, c.dims) <=> ~ (Len(cs) <= Len(content.dims))
  BY <1>1, <1>2 DEF TooWide
<1>7. ValidRule(r, c.dims) <=> /\ Len(cs) <= Len(content.dims)
                               /\ \A i \in DOMAIN cs :
                                    star(cs[i]) \/ SlotNames(cs[i]) \subseteq Range(content.dims[i].values)
  BY <1>1, <1>2, <1>4, <1>5, <1>6 DEF ValidRule
<1> QED
  BY <1>7 DEF c, cs, r, star

(***************************************************************************)
(* A file is loaded exactly when it is one to be used, and the engine is   *)
(* then the file's.                                                        *)
(***************************************************************************)
LEMMA LoadMeans ==
  ASSUME NEW f, IsFile(f), NEW opts, SettingsOnly(opts)
  PROVE  LET e == LoadFileWithOptions(f, opts)
         IN  /\ e.err = "nil" <=> FileLoads(f)
             /\ FileLoads(f) => e.cfg = EngineOf(f.content)
<1> DEFINE content == f.content
           c == EngineOf(content)
           e == LoadFileWithOptions(f, opts)
<1>1. CASE f.ext /= ".json" \/ f.state /= "ok"
  <2>1. e.err /= "nil" 
    BY <1>1 DEF LoadFileWithOptions, Refused, IsFile
  <2> QED
    BY <2>1, <1>1 DEF FileLoads
<1>2. CASE f.ext = ".json" /\ f.state = "ok"
  <2>1. Decoded(content)
    BY <1>2 DEF IsFile
  <2>2. e = NewFromConfig(content, opts)
    BY <1>2 DEF LoadFileWithOptions
  <2> DEFINE own == <<[kind |-> "dimensions", value |-> dimensionsFromFile(content.dims)],
                      [kind |-> "rules", value |-> rulesFromFile(content.rules)]>> \o opts
  <2>3. New(own).err = validateEngine(c) /\ New(own).cfg = c
    BY NewMeans DEF EngineOf
  <2>4. DimensionsError(content.dims) = "nil" <=> \A i \in DOMAIN content.dims : content.dims[i].values /= <<>>
    BY DEF DimensionsError
  <2>5. RulesError(content.rules) = "nil" <=> \A j \in DOMAIN content.rules : RuleDecodes(content.rules[j])
    BY RulesErrorMeans
  <2>6. CASE DimensionsError(content.dims) /= "nil"
    <3>1. e.err /= "nil"
      BY <2>2, <2>6 DEF NewFromConfig, Refused
    <3>2. ~FileLoads(f)
      BY <2>1, <2>4, <2>6, DecodedFacts DEF FileLoads
    <3> QED
      BY <3>1, <3>2
  <2>7. CASE DimensionsError(content.dims) = "nil" /\ RulesError(content.rules) /= "nil"
    <3>1. e.err /= "nil"
      BY <2>2, <2>7 DEF NewFromConfig, Refused
    <3>2. PICK j \in DOMAIN content.rules : ~RuleDecodes(content.rules[j])
      BY <2>5, <2>7
    <3>3. content.rules[j] \in Range(content.rules)
      BY <2>1, <3>2, DecodedFacts
    <3>4. ~FileLoads(f)
      BY <3>2, <3>3 DEF FileLoads, RuleDecodes, parseAction
    <3> QED
      BY <3>1, <3>4
  <2>8. CASE DimensionsError(content.dims) = "nil" /\ RulesError(content.rules) = "nil"
    <3>1. e = New(own)
      BY <2>2, <2>8 DEF NewFromConfig
    <3> HIDE DEF own, e
    <3>2. e.err = validateEngine(c) /\ e.cfg = c
      BY <3>1, <2>3
    <3>3. /\ \A j \in DOMAIN content.rules : RuleDecodes(content.rules[j])
          /\ \A i \in 1 .. Len(content.dims) : content.dims[i].values /= <<>>
          /\ DOMAIN content.rules = 1 .. Len(content.rules) /\ Len(content.rules) \in Nat
      BY <2>1, <2>4, <2>5, <2>8, DecodedFacts
    <3> DEFINE good(j) ==
          LET cs == content.rules[j].conditions
          IN  /\ Len(cs) <= Len(content.dims)
              /\ \A i \in DOMAIN cs :
                   \/ cs[i].type = "string" /\ TrimSpace[cs[i].text] = "*"
                   \/ SlotNames(cs[i]) \subseteq Range(content.dims[i].values)
    <3>4. \A j \in 1 .. Len(content.rules) : ValidRule(Rule(c, j - 1), c.dims) <=> good(j)
      BY <2>1, <3>3, ValidMeans
    <3>5. RuleIndexes(c) = 0 .. Len(content.rules) - 1
      BY <2>1, EngineOfMeans
    <3>6. (\A j \in RuleIndexes(c) : ValidRule(Rule(c, j), c.dims))
          <=> \A j \in 1 .. Len(content.rules) : good(j)
      <4> HIDE DEF good, c
      <4>1. \A j \in 0 .. Len(content.rules) - 1 : j + 1 \in 1 .. Len(content.rules) /\ (j + 1) - 1 = j
        BY <3>3
      <4>2. \A j \in 1 .. Len(content.rules) : j - 1 \in 0 .. Len(content.rules) - 1
        BY <3>3
      <4> QED
        BY <4>1, <4>2, <3>4, <3>5
    <3>7. validateEngine(c) = "nil" <=> \A j \in RuleIndexes(c) : ValidRule(Rule(c, j), c.dims)
      BY DEF validateEngine
    <3>8. FileLoads(f) <=> \A j \in 1 .. Len(content.rules) : good(j)
      <4>1. \A dim \in Range(content.dims) : dim.values /= <<>>
        <5>1. content.dims \in Seq(Range(content.dims))
          BY <2>1 DEF Decoded
        <5> QED
          BY <5>1, <3>3, ListFacts
      <4>2. \A r \in Range(content.rules) : \E j \in 1 .. Len(content.rules) : r = content.rules[j]
        <5>1. content.rules \in Seq(Range(content.rules))
          BY <2>1 DEF Decoded
        <5> QED
          BY <5>1, <3>3, ListFacts
      <4>3. \A j \in 1 .. Len(content.rules) :
              /\ content.rules[j] \in Range(content.rules)
              /\ ToUpper[TrimSpace[content.rules[j].action]] \in Action
              /\ \A v \in Range(content.rules[j].conditions) : SlotDecodes(v)
        BY <2>1, <3>3, DecodedFacts DEF RuleDecodes, parseAction
      <4> QED
        BY <1>2, <4>1, <4>2, <4>3 DEF FileLoads
    <3> QED
      BY <3>2, <3>6, <3>7, <3>8 DEF e
  <2> QED
    BY <2>6, <2>7, <2>8
<1> QED
  BY <1>1, <1>2

(***************************************************************************)
(* A rule of a usable file matches what a reader of the file says it does. *)
(***************************************************************************)
LEMMA AdmitsMeans ==
  ASSUME NEW f, Decoded(f.content), FileLoads(f), NEW j \in 1 .. Len(f.content.rules), NEW t
  PROVE  RuleAdmits(f.content.rules[j], f.content.dims, t)
         <=> ruleMatches(Rule(EngineOf(f.content), j - 1), EngineOf(f.content).dims, t, FALSE)
<1> DEFINE content == f.content
           c == EngineOf(content)
           cs == content.rules[j].conditions
           r == Rule(c, j - 1)
           n == Len(content.dims)
<1>1. /\ Len(cs) \in Nat /\ DOMAIN cs = 1 .. Len(cs)
      /\ \A i \in DOMAIN cs : /\ cs[i] \in Range(cs)
                              /\ cs[i].type = "array" => cs[i].elems \in Seq(Range(cs[i].elems))
      /\ n \in Nat /\ DOMAIN content.dims = 1 .. n
      /\ \A i \in 1 .. n : content.dims[i] \in Range(content.dims)
      /\ content.rules[j] \in Range(content.rules)
  BY DecodedFacts
<1>2. /\ Len(r.m) = Len(cs)
      /\ \A i \in 1 .. Len(r.m) : r.m[i] = matcherFromSlot(cs[i])
      /\ Len(c.dims) = n
      /\ \A i \in 1 .. n : c.dims[i] = content.dims[i].values
  BY EngineOfMeans
<1>3. /\ \A i \in 1 .. n : content.dims[i].values /= <<>>
      /\ \A i \in 1 .. Len(cs) : SlotDecodes(cs[i])
      /\ Len(cs) <= n
      /\ \A i \in 1 .. Len(cs) : \/ cs[i].type = "string" /\ TrimSpace[cs[i].text] = "*"
                                 \/ SlotNames(cs[i]) \subseteq Range(content.dims[i].values)
  BY <1>1 DEF FileLoads
<1> HIDE DEF content, c, cs, r
<1>4. ASSUME NEW i \in 1 .. n, i \in 1 .. Len(cs)
      PROVE  SlotAdmits(cs[i], t[i], Range(content.dims[i].values)) <=> matches(r.m[i], t[i], c.dims[i])
  <2> DEFINE v == cs[i]
             dim == content.dims[i].values
             m == matcherFromSlot(v)
  <2>1. r.m[i] = m /\ c.dims[i] = dim
    BY <1>2, <1>4
  <2>2. SlotDecodes(v) /\ (v.type = "array" => v.elems \in Seq(Range(v.elems)))
    BY <1>1, <1>3, <1>4
  <2>3. /\ m.kind = "wildcard" <=> v.type = "string" /\ TrimSpace[v.text] = "*"
        /\ ~ (v.type = "string" /\ TrimSpace[v.text] = "*") => Range(m.vals) = SlotNames(v)
    BY <2>2, SlotMeans
  <2>4. Open(dim, t[i]) <=> t[i] \in Range(dim)
    BY <1>3 DEF Open, Declared, contains
  <2>5. ~ (v.type = "string" /\ TrimSpace[v.text] = "*") => SlotNames(v) \subseteq Range(dim)
    BY <1>3, <1>4
  <2>6. CASE v.type = "string" /\ TrimSpace[v.text] = "*"
    <3>1. SlotAdmits(v, t[i], Range(dim)) <=> t[i] \in Range(dim)
      BY <2>6 DEF SlotAdmits
    <3> QED
      BY <2>1, <2>3, <2>4, <2>6, <3>1 DEF matches
  <2>7. CASE ~ (v.type = "string" /\ TrimSpace[v.text] = "*")
    <3>1. SlotAdmits(v, t[i], Range(dim)) <=> t[i] \in SlotNames(v)
      BY <2>2, <2>7 DEF SlotAdmits, SlotNames, SlotDecodes
    <3> QED
      BY <2>1, <2>3, <2>4, <2>5, <2>7, <3>1 DEF matches
  <2> QED
    BY <2>6, <2>7
<1>5. ASSUME NEW i \in 1 .. n, i \notin 1 .. Len(cs)
      PROVE  t[i] \in Range(content.dims[i].values) <=> Open(c.dims[i], t[i])
  BY <1>2, <1>3 DEF Open, Declared, contains
<1>6. \A i \in 1 .. n : i > Len(r.m) <=> i \notin 1 .. Len(cs)
  BY <1>1, <1>2
<1>7. ruleMatches(r, c.dims, t, FALSE) <=>
        \A i \in 1 .. n : IF i > Len(r.m) THEN Open(c.dims[i], t[i]) ELSE matches(r.m[i], t[i], c.dims[i])
  BY <1>2 DEF ruleMatches
<1>8. RuleAdmits(content.rules[j], content.dims, t) <=>
        \A i \in 1 .. n : IF i \in 1 .. Len(cs) THEN SlotAdmits(cs[i], t[i], Range(content.dims[i].values))
                          ELSE t[i] \in Range(content.dims[i].values)
  BY <1>1 DEF RuleAdmits, cs
<1> QED
  BY <1>4, <1>5, <1>6, <1>7, <1>8 DEF content, c, r

\* The first rule an engine's scan stops at.
FirstMatching(c, t) ==
  IF Matching(c, t, FALSE) = {} THEN noMatch ELSE First(Matching(c, t, FALSE))

(***************************************************************************)
(* The rule a scan stops at is the one a reader of the file comes to, so   *)
(* the engine allows what the file allows.                                 *)
(***************************************************************************)
LEMMA ScanMeans ==
  ASSUME NEW f, Decoded(f.content), FileLoads(f), NEW t
  PROVE  LET c == EngineOf(f.content)
             x == FirstMatching(c, t)
             rules == f.content.rules
             admitting == {j \in DOMAIN rules : RuleAdmits(rules[j], f.content.dims, t)}
         IN  /\ x = noMatch => admitting = {}
             /\ x /= noMatch => /\ x \in RuleIndexes(c) /\ x + 1 \in admitting
                                /\ \A k \in admitting : x + 1 <= k
             /\ IsFirst(Matching(c, t, FALSE), x)
             /\ FileAllows(f.content, t) <=> x /= noMatch /\ Rule(c, x).act = "ALLOW"
<1> DEFINE c == EngineOf(f.content)
           rules == f.content.rules
           n == Len(rules)
           found == Matching(c, t, FALSE)
           x == FirstMatching(c, t)
           admits(j) == RuleAdmits(rules[j], f.content.dims, t)
           admitting == {j \in DOMAIN rules : admits(j)}
<1>1. n \in Nat /\ DOMAIN rules = 1 .. n /\ RuleIndexes(c) = 0 .. n - 1
  BY DecodedFacts, EngineOfMeans
<1>2. \A j \in 1 .. n : Rule(c, j - 1).act = ToUpper[TrimSpace[rules[j].action]]
  BY EngineOfMeans DEF parseAction
<1>3. \A j \in 1 .. n : admits(j) <=> ruleMatches(Rule(c, j - 1), c.dims, t, FALSE)
  BY AdmitsMeans
<1>4. found = {j \in 0 .. n - 1 : ruleMatches(Rule(c, j), c.dims, t, FALSE)}
  BY <1>1 DEF Matching
<1> HIDE DEF c, admits, rules
<1>5. \A j \in 1 .. n : admits(j) <=> j - 1 \in found
  <2>1. \A j \in 1 .. n : j - 1 \in 0 .. n - 1
    BY <1>1
  <2> QED
    BY <1>3, <1>4, <2>1
<1>6. found \in SUBSET Nat /\ \A x0 \in found : x0 \in 0 .. n - 1 /\ x0 + 1 \in 1 .. n /\ (x0 + 1) - 1 = x0
  <2>1. \A x0 \in found : x0 \in 0 .. n - 1
    BY <1>4
  <2> HIDE DEF found
  <2> QED
    BY <1>1, <2>1
<1>7. x = IF found = {} THEN noMatch ELSE First(found)
  BY DEF FirstMatching, c
<1> HIDE DEF found, x
<1>8. CASE found = {}
  <2>1. x = noMatch
    BY <1>7, <1>8
  <2>2. \A j \in 1 .. n : ~admits(j)
    BY <1>5, <1>8
  <2>3. ~FileAllows(f.content, t)
    BY <2>2, <1>1 DEF FileAllows, admits, rules
  <2> QED
    BY <2>1, <2>2, <2>3, <1>1, <1>8 DEF IsFirst, found, x, c, admits, rules
<1>9. CASE found /= {}
  <2>1. x = First(found)
    BY <1>7, <1>9
  <2>2. x \in found /\ \A y \in found : x <= y
    BY <2>1, <1>6, <1>9, FirstMeans
  <2>3. x /= noMatch /\ x \in 0 .. n - 1 /\ x + 1 \in 1 .. n /\ (x + 1) - 1 = x
    BY <2>2, <1>6 DEF noMatch
  <2>4. admits(x + 1) /\ \A k \in 1 .. n : admits(k) => x + 1 <= k
    <3>1. \A k \in 1 .. n : admits(k) => x <= k - 1
      BY <1>5, <2>2
    <3> QED
      BY <1>5, <2>2, <2>3, <3>1
  <2>5. FileAllows(f.content, t) <=> Rule(c, x).act = "ALLOW"
    <3>1. FileAllows(f.content, t) <=>
            \E j \in 1 .. n : /\ admits(j)
                              /\ \A k \in 1 .. j - 1 : ~admits(k)
                              /\ ToUpper[TrimSpace[rules[j].action]] = "ALLOW"
      BY <1>1 DEF FileAllows, admits, rules
    <3>2. \A k \in 1 .. (x + 1) - 1 : ~admits(k)
      BY <2>3, <2>4
    <3>3. \A j \in 1 .. n : admits(j) /\ (\A k \in 1 .. j - 1 : ~admits(k)) => j = x + 1
      <4>1. SUFFICES ASSUME NEW j \in 1 .. n, admits(j), \A k \in 1 .. j - 1 : ~admits(k)
                     PROVE  j = x + 1
        OBVIOUS
      <4>2. x + 1 <= j
        BY <4>1, <2>4
      <4>3. ~ (x + 1 \in 1 .. j - 1)
        BY <4>1, <2>4
      <4> QED
        BY <4>2, <4>3, <2>3
    <3>4. Rule(c, x).act = ToUpper[TrimSpace[rules[x + 1].action]]
      BY <1>2, <2>3
    <3> QED
      BY <3>1, <3>2, <3>3, <3>4, <2>3, <2>4
  <2> QED
    BY <2>2, <2>3, <2>4, <2>5, <1>1 DEF IsFirst, found, x, c, admits, rules
<1> QED
  BY <1>8, <1>9

-----------------------------------------------------------------------------
(***************************************************************************)
(* The commands.  The invariant is what a reader may conclude from the     *)
(* invocation that has just ended, about the file it has read.             *)
(***************************************************************************)
IInv == TypeOK /\ CheckReadsTheFile /\ ProposalsHold

\* What an invocation may leave behind.
WellTyped(call) ==
  /\ call.verb \in Verb \cup {"none", "unknown"}
  /\ call.exit \in 0 .. 2
  /\ call.warned \in {"nowhere", "stderr", "stdout"}
  /\ call.out \in {"nothing", "true", "false", "explanation", "not found", "found", "ok", "warnings"}
  /\ call.conditions \in Seq(Value)

\* An invocation of check that read the file.
ReadsTheFile(call) ==
  call.exit = 0 <=> /\ FileLoads(file)
                    /\ Len(call.values) = Len(file.content.dims)
                    /\ FileAllows(file.content, call.values)

\* A tuple a command may propose.
Holds(call) ==
  /\ FileAllows(file.content, call.conditions)
  /\ call.conditions /= call.values
  /\ call.verb = "closest-in" => Changed(call.values, call.conditions) \subseteq Axis(call.sel)

Sound(call) ==
  /\ WellTyped(call)
  /\ call.verb = "check" /\ call.exit /= 2 => ReadsTheFile(call)
  /\ call.out = "found" => Holds(call)

\* A sound invocation keeps the invariant.
LEMMA RunKeeps ==
  ASSUME IInv, NEW call, Sound(call), ran' = call, file' = file
  PROVE  IInv'
<1>1. ran' = call /\ file' = file /\ file \in Files
  BY DEF IInv, TypeOK
<1>2. TypeOK'
  BY <1>1 DEF TypeOK, Sound, WellTyped
<1>3. CheckReadsTheFile'
  BY <1>1 DEF CheckReadsTheFile, Sound, ReadsTheFile
<1>4. ProposalsHold'
  <2>1. \A arg : Axis(arg)' = Axis(arg)
    BY <1>1 DEF Axis
  <2> QED
    BY <1>1, <2>1 DEF ProposalsHold, Sound, Holds
<1> QED
  BY <1>2, <1>3, <1>4 DEF IInv

\* The commands load the file there is, with nothing but its settings.
LEMMA LoadedMeans ==
  ASSUME file \in Files
  PROVE  /\ Loaded.err = "nil" <=> FileLoads(file)
         /\ FileLoads(file) => /\ Decoded(file.content)
                               /\ Loaded.cfg = EngineOf(file.content)
                               /\ Dims = EngineOf(file.content).dims
                               /\ Len(Dims) = Len(file.content.dims)
                               /\ Len(Dims) \in Nat
<1>1. IsFile(file)
  BY CommandsAssumption
<1>2. SettingsOnly(<<>>)
  BY DEF SettingsOnly, Range
<1>3. Loaded.err = "nil" <=> FileLoads(file)
  BY <1>1, <1>2, LoadMeans DEF Loaded
<1>4. ASSUME FileLoads(file)
      PROVE  Decoded(file.content) /\ Loaded.cfg = EngineOf(file.content)
  <2>1. Decoded(file.content)
    BY <1>1, <1>4 DEF FileLoads, IsFile
  <2> QED
    BY <2>1, <1>1, <1>2, <1>4, LoadMeans DEF Loaded
<1>5. ASSUME FileLoads(file)
      PROVE  /\ Dims = EngineOf(file.content).dims
             /\ Len(Dims) = Len(file.content.dims) /\ Len(Dims) \in Nat
  <2>1. Dims = EngineOf(file.content).dims
    BY <1>4, <1>5 DEF Dims
  <2> QED
    BY <2>1, <1>4, <1>5, EngineOfMeans, DecodedFacts
<1> QED
  BY <1>3, <1>4, <1>5

\* A file that loads permits what it allows.
LEMMA PermitsMeans ==
  ASSUME file \in Files, FileLoads(file), NEW values
  PROVE  Permits(values, FALSE) <=> FileAllows(file.content, values)
<1>1. Loaded.cfg = EngineOf(file.content) /\ Decoded(file.content)
  BY LoadedMeans
<1>2. FirstMatch(values, FALSE) = FirstMatching(EngineOf(file.content), values)
  BY <1>1 DEF FirstMatch, FirstMatching
<1> QED
  BY <1>1, <1>2, ScanMeans DEF Permits

\* What is not check and proposes nothing is sound when it is well typed.
LEMMA QuietSound ==
  ASSUME NEW call, WellTyped(call), call.verb /= "check", call.out /= "found"
  PROVE  Sound(call)
BY DEF Sound

\* An ended invocation, field by field.
Is(call, verb, sel, values, code, warned, out, conditions) ==
  /\ DOMAIN call = {"verb", "sel", "values", "exit", "warned", "out", "conditions"}
  /\ call.verb = verb /\ call.sel = sel /\ call.values = values /\ call.exit = code
  /\ call.warned = warned /\ call.out = out /\ call.conditions = conditions

\* Where the warnings of the file go before a question is asked.
WarnedTo == IF HasWarnings[file] THEN "stderr" ELSE "nowhere"

\* The records commands end with.
LEMMA EndedIs ==
  ASSUME NEW verb, NEW values
  PROVE  /\ Is(Ended(verb, values), verb, NotRun.sel, values, 0, "nowhere", "nothing", << >>)
         /\ Is(Failed(verb, values), verb, NotRun.sel, values, 1, "nowhere", "nothing", << >>)
         /\ Is(Usage(verb, values), verb, NotRun.sel, values, 2, "nowhere", "nothing", << >>)
<1>1. Is(Ended(verb, values), verb, NotRun.sel, values, 0, "nowhere", "nothing", << >>)
  BY DEF Ended, NotRun, Is
<1>2. Is(Failed(verb, values), verb, NotRun.sel, values, 1, "nowhere", "nothing", << >>)
  BY <1>1 DEF Failed, Is
<1>3. Is(Usage(verb, values), verb, NotRun.sel, values, 2, "nowhere", "nothing", << >>)
  BY <1>1 DEF Usage, Is
<1> QED
  BY <1>1, <1>2, <1>3

\* Warnings are all that Warned changes.
LEMMA WarnedIs ==
  ASSUME NEW call, NEW verb, NEW sel, NEW values, NEW code, NEW warned, NEW out, NEW conditions,
         Is(call, verb, sel, values, code, warned, out, conditions)
  PROVE  Is(Warned(call), verb, sel, values, code, WarnedTo, out, conditions)
BY DEF Warned, WarnedTo, Is

\* check and partial-check say yes or no.
LEMMA SaidIs ==
  ASSUME NEW verb, NEW values, NEW yes
  PROVE  Is(Said(verb, values, yes), verb, NotRun.sel, values, IF yes THEN 0 ELSE 1, WarnedTo,
            IF yes THEN "true" ELSE "false", << >>)
<1>1. Is(Warned(Ended(verb, values)), verb, NotRun.sel, values, 0, WarnedTo, "nothing", << >>)
  BY EndedIs, WarnedIs
<1> QED
  BY <1>1 DEF Said, Is

\* No values and no conditions are a sequence of values.
LEMMA NothingIsTyped == << >> \in Seq(Value)
OBVIOUS

\* Warnings go to one place.
LEMMA WarnedToIs == WarnedTo \in {"nowhere", "stderr", "stdout"}
BY DEF WarnedTo

\* A command that is not check, or is not run, and finds nothing.
Quiet(verb, code, warned, out) ==
  /\ verb \in Verb \cup {"unknown"} /\ code \in 0 .. 2
  /\ warned \in {"nowhere", "stderr", "stdout"}
  /\ out \in {"nothing", "true", "false", "explanation", "not found", "ok", "warnings"}
  /\ verb /= "check" \/ code = 2

\* It leaves a sound invocation.
LEMMA QuietCall ==
  ASSUME NEW call, NEW verb, NEW sel, NEW values, NEW code, NEW warned, NEW out,
         Is(call, verb, sel, values, code, warned, out, << >>), Quiet(verb, code, warned, out)
  PROVE  Sound(call)
<1>1. WellTyped(call)
  BY NothingIsTyped DEF WellTyped, Is, Quiet
<1> QED
  BY <1>1 DEF Sound, Is, Quiet

\* check: what its exit code must mean.
LEMMA CheckCall ==
  ASSUME NEW call, NEW values, NEW code \in {0, 1}, NEW warned \in {"nowhere", "stderr", "stdout"},
         NEW out \in {"nothing", "true", "false"},
         Is(call, "check", NotRun.sel, values, code, warned, out, << >>),
         code = 0 <=> /\ FileLoads(file)
                      /\ Len(values) = Len(file.content.dims)
                      /\ FileAllows(file.content, values)
  PROVE  Sound(call)
<1>1. "check" \in Verb
  BY DEF Verb
<1>2. WellTyped(call)
  <2>1. /\ call.verb = "check" /\ call.exit = code /\ call.warned = warned
        /\ call.out = out /\ call.conditions = << >>
    BY DEF Is
  <2>2. code \in 0 .. 2
    OBVIOUS
  <2> QED
    BY <1>1, <2>1, <2>2, NothingIsTyped DEF WellTyped
<1>3. ReadsTheFile(call)
  BY DEF ReadsTheFile, Is
<1> QED
  BY <1>2, <1>3 DEF Sound, Is

\* check: the exit code is 0 exactly when the file allows the values.
LEMMA CheckKeeps ==
  ASSUME IInv, NEW values, runCheck(values)
  PROVE  IInv'
<1> DEFINE answer == Permits(values, FALSE)
           call == IF Loaded.err /= "nil" THEN Failed("check", values)
                   ELSE IF Len(values) /= Len(Dims) THEN Warned(Failed("check", values))
                   ELSE Said("check", values, answer)
<1>1. file \in Files /\ "check" \in Verb
  BY DEF IInv, TypeOK, Verb
<1>2. ran' = call /\ file' = file
  BY DEF runCheck, Run
<1>3. /\ Is(Failed("check", values), "check", NotRun.sel, values, 1, "nowhere", "nothing", << >>)
      /\ Is(Warned(Failed("check", values)), "check", NotRun.sel, values, 1, WarnedTo, "nothing", << >>)
  BY EndedIs, WarnedIs
<1>4. Is(Said("check", values, answer), "check", NotRun.sel, values, IF answer THEN 0 ELSE 1, WarnedTo,
         IF answer THEN "true" ELSE "false", << >>)
  BY SaidIs
<1> HIDE DEF answer
<1>5. Sound(call)
  <2>1. CASE Loaded.err /= "nil"
    <3>1. call = Failed("check", values) /\ ~FileLoads(file)
      BY <1>1, <2>1, LoadedMeans
    <3> QED
      BY <1>3, <3>1, CheckCall
  <2>2. CASE Loaded.err = "nil" /\ Len(values) /= Len(Dims)
    <3>1. FileLoads(file)
      BY <1>1, <2>2, LoadedMeans
    <3>2. call = Warned(Failed("check", values)) /\ Len(values) /= Len(file.content.dims)
      BY <1>1, <2>2, <3>1, LoadedMeans
    <3> HIDE DEF call
    <3> QED
      BY <1>3, <3>2, WarnedToIs, CheckCall
  <2>3. CASE Loaded.err = "nil" /\ Len(values) = Len(Dims)
    <3>1. call = Said("check", values, answer)
      BY <2>3
    <3>2. FileLoads(file) /\ Len(values) = Len(file.content.dims)
      BY <1>1, <2>3, LoadedMeans
    <3>3. answer <=> FileAllows(file.content, values)
      BY <1>1, <3>2, PermitsMeans DEF answer
    <3> DEFINE said == Said("check", values, answer)
               code == IF answer THEN 0 ELSE 1
               out == IF answer THEN "true" ELSE "false"
    <3>4. Is(said, "check", NotRun.sel, values, code, WarnedTo, out, << >>)
      BY <1>4
    <3>5. code \in {0, 1} /\ out \in {"nothing", "true", "false"} /\ (code = 0 <=> answer)
      OBVIOUS
    <3> HIDE DEF said, code, out
    <3>6. Sound(said)
      BY <3>2, <3>3, <3>4, <3>5, WarnedToIs, CheckCall
    <3> QED
      BY <3>1, <3>6 DEF said
  <2> QED
    BY <2>1, <2>2, <2>3
<1> QED
  BY <1>2, <1>5, RunKeeps

\* explain says what it says of the file; nothing hangs on its exit code.
LEMMA ExplainKeeps ==
  ASSUME IInv, NEW values, runExplain(values)
  PROVE  IInv'
<1> DEFINE said == [Warned(Ended("explain", values)) EXCEPT !.out = "explanation"]
           call == IF Loaded.err /= "nil" THEN Failed("explain", values)
                   ELSE IF Len(values) /= Len(Dims) THEN Warned(Failed("explain", values))
                   ELSE said
<1>1. ran' = call /\ file' = file
  BY DEF runExplain, Run
<1>2. /\ Is(Failed("explain", values), "explain", NotRun.sel, values, 1, "nowhere", "nothing", << >>)
      /\ Is(Warned(Failed("explain", values)), "explain", NotRun.sel, values, 1, WarnedTo, "nothing", << >>)
      /\ Is(Warned(Ended("explain", values)), "explain", NotRun.sel, values, 0, WarnedTo, "nothing", << >>)
  BY EndedIs, WarnedIs
<1>3. Is(said, "explain", NotRun.sel, values, 0, WarnedTo, "explanation", << >>)
  BY <1>2 DEF Is
<1> HIDE DEF said
<1>4. Sound(Failed("explain", values)) /\ Sound(Warned(Failed("explain", values))) /\ Sound(said)
  <2>1. /\ Quiet("explain", 1, "nowhere", "nothing") /\ Quiet("explain", 1, WarnedTo, "nothing")
        /\ Quiet("explain", 0, WarnedTo, "explanation")
    BY WarnedToIs DEF Quiet, Verb
  <2> QED
    BY <1>2, <1>3, <2>1, QuietCall
<1> QED
  BY <1>1, <1>4, RunKeeps

\* partial-check answers about completions; it proposes nothing.
LEMMA PartialKeeps ==
  ASSUME IInv, NEW values, runPartialCheck(values)
  PROVE  IInv'
<1> DEFINE answer == Permits(values, TRUE)
           said == Said("partial-check", values, answer)
           call == IF Loaded.err /= "nil" THEN Failed("partial-check", values)
                   ELSE IF Len(values) > Len(Dims) THEN Warned(Failed("partial-check", values))
                   ELSE said
<1>1. ran' = call /\ file' = file
  BY DEF runPartialCheck, Run
<1>2. /\ Is(Failed("partial-check", values), "partial-check", NotRun.sel, values, 1, "nowhere", "nothing", << >>)
      /\ Is(Warned(Failed("partial-check", values)), "partial-check", NotRun.sel, values, 1, WarnedTo, "nothing", << >>)
  BY EndedIs, WarnedIs
<1>3. Is(said, "partial-check", NotRun.sel, values, IF answer THEN 0 ELSE 1, WarnedTo,
         IF answer THEN "true" ELSE "false", << >>)
  BY SaidIs
<1> HIDE DEF said, answer
<1>4. Sound(Failed("partial-check", values)) /\ Sound(Warned(Failed("partial-check", values))) /\ Sound(said)
  <2> DEFINE code == IF answer THEN 0 ELSE 1
             out == IF answer THEN "true" ELSE "false"
  <2>1. Is(said, "partial-check", NotRun.sel, values, code, WarnedTo, out, << >>)
    BY <1>3
  <2>2. /\ Quiet("partial-check", 1, "nowhere", "nothing") /\ Quiet("partial-check", 1, WarnedTo, "nothing")
        /\ Quiet("partial-check", code, WarnedTo, out)
    BY WarnedToIs DEF Quiet, Verb
  <2> HIDE DEF code, out
  <2> QED
    BY <1>2, <2>1, <2>2, QuietCall
<1> QED
  BY <1>1, <1>4, RunKeeps

\* lint reports warnings and proposes nothing.
LEMMA LintKeeps ==
  ASSUME IInv, runLint
  PROVE  IInv'
<1> DEFINE found == [Failed("lint", << >>) EXCEPT !.out = "warnings", !.warned = "stdout"]
           clean == [Ended("lint", << >>) EXCEPT !.out = "ok"]
           call == IF Loaded.err /= "nil" THEN Failed("lint", << >>)
                   ELSE IF HasWarnings[file] THEN found ELSE clean
<1>1. ran' = call /\ file' = file
  BY DEF runLint, Run
<1>2. /\ Is(Failed("lint", << >>), "lint", NotRun.sel, << >>, 1, "nowhere", "nothing", << >>)
      /\ Is(Ended("lint", << >>), "lint", NotRun.sel, << >>, 0, "nowhere", "nothing", << >>)
  BY EndedIs
<1>3. /\ Is(found, "lint", NotRun.sel, << >>, 1, "stdout", "warnings", << >>)
      /\ Is(clean, "lint", NotRun.sel, << >>, 0, "nowhere", "ok", << >>)
  BY <1>2 DEF Is
<1> HIDE DEF found, clean
<1>4. Sound(Failed("lint", << >>)) /\ Sound(found) /\ Sound(clean)
  <2>1. /\ Quiet("lint", 1, "nowhere", "nothing") /\ Quiet("lint", 1, "stdout", "warnings")
        /\ Quiet("lint", 0, "nowhere", "ok")
    BY DEF Quiet, Verb
  <2> QED
    BY <1>2, <1>3, <2>1, QuietCall
<1> QED
  BY <1>1, <1>4, RunKeeps

\* A command line nothing can be made of exits 2.
LEMMA UsageKeeps ==
  ASSUME IInv, usage
  PROVE  IInv'
<1>1. PICK verb \in Verb \cup {"unknown"} : ran' = Usage(verb, << >>) /\ file' = file
  BY DEF usage, Run
<1>2. Is(Usage(verb, << >>), verb, NotRun.sel, << >>, 2, "nowhere", "nothing", << >>)
  BY EndedIs
<1>3. Quiet(verb, 2, "nowhere", "nothing")
  BY DEF Quiet
<1>4. Sound(Usage(verb, << >>))
  BY <1>2, <1>3, QuietCall
<1> QED
  BY <1>1, <1>4, RunKeeps

(***************************************************************************)
(* A search over some dimensions of a file that loads proposes a tuple the *)
(* file allows, other than the input, that differs on those only.          *)
(***************************************************************************)
LEMMA NearestHolds ==
  ASSUME file \in Files, FileLoads(file), NEW values, NEW reach,
         NEW t \in Nearest(Loaded.cfg, values, reach)
  PROVE  /\ FileAllows(file.content, t)
         /\ t /= values
         /\ Changed(values, t) \subseteq reach
         /\ t \in Seq(Value)
<1> DEFINE c == EngineOf(file.content)
<1>1. Loaded.cfg = c /\ Decoded(file.content) /\ Len(c.dims) \in Nat
  BY LoadedMeans
<1>2. t \in Candidates(c, values, reach)
  BY <1>1 DEF Nearest
<1> HIDE DEF c
<1>3. /\ t \in Tuples(Len(c.dims)) /\ Changed(values, t) /= {}
      /\ Changed(values, t) \subseteq reach /\ Allowed(c, t)
  BY <1>2 DEF Candidates
<1>4. t \in Seq(Value)
  BY <1>1, <1>3 DEF Tuples
<1>5. t /= values
  BY <1>3 DEF Changed
<1>6. PICK j \in Matching(c, t, FALSE) : IsFirst(Matching(c, t, FALSE), j) /\ Rule(c, j).act = "ALLOW"
  BY <1>3 DEF Allowed
<1> DEFINE x == FirstMatching(c, t)
<1>7. /\ IsFirst(Matching(c, t, FALSE), x)
      /\ FileAllows(file.content, t) <=> x /= noMatch /\ Rule(c, x).act = "ALLOW"
  BY <1>1, ScanMeans DEF c
<1> HIDE DEF x
<1>8. x = j /\ x /= noMatch
  <2>1. \A y \in Matching(c, t, FALSE) : y \in Int /\ y /= noMatch
    BY DEF Matching, RuleIndexes, noMatch
  <2>2. x \in Matching(c, t, FALSE)
    BY <1>6, <1>7 DEF IsFirst
  <2>3. x <= j /\ j <= x
    BY <1>6, <1>7, <2>1, <2>2 DEF IsFirst
  <2>4. x \in Int /\ j \in Int /\ x /= noMatch
    BY <1>6, <2>1, <2>2
  <2> QED
    BY <2>3, <2>4
<1> QED
  BY <1>3, <1>4, <1>5, <1>6, <1>7, <1>8

\* A search keeps the invariant when it stays on the axis it was asked for.
LEMMA SearchKeeps ==
  ASSUME IInv, FileLoads(file), NEW verb \in {"closest", "closest-in"}, NEW sel, NEW values, NEW reach,
         verb = "closest-in" => reach \subseteq Axis(sel),
         NEW call, Is(call, verb, sel, values, 0, WarnedTo, "nothing", << >>), Searched(call, reach)
  PROVE  IInv'
<1> DEFINE near == Nearest(Loaded.cfg, values, reach)
<1>1. file \in Files /\ verb \in Verb /\ verb /= "check"
  BY DEF IInv, TypeOK, Verb
<1>2. call.values = values
  BY DEF Is
<1>3. CASE near = {}
  <2> DEFINE none == [call EXCEPT !.out = "not found", !.exit = 1]
  <2>1. ran' = none /\ file' = file
    BY <1>2, <1>3 DEF Searched, Run
  <2>2. Is(none, verb, sel, values, 1, WarnedTo, "not found", << >>)
    BY DEF Is
  <2> HIDE DEF none
  <2>3. Sound(none)
    <3>1. Quiet(verb, 1, WarnedTo, "not found")
      BY <1>1, WarnedToIs DEF Quiet
    <3> QED
      BY <2>2, <3>1, QuietCall
  <2> QED
    BY <2>1, <2>3, RunKeeps
<1>4. CASE near /= {}
  <2>1. PICK t \in near : ran' = [call EXCEPT !.out = "found", !.conditions = t] /\ file' = file
    BY <1>2, <1>4 DEF Searched, Run
  <2> DEFINE found == [call EXCEPT !.out = "found", !.conditions = t]
  <2>2. Is(found, verb, sel, values, 0, WarnedTo, "found", t)
    BY DEF Is
  <2>3. ran' = found
    BY <2>1
  <2> HIDE DEF found
  <2>4. /\ FileAllows(file.content, t) /\ t /= values
        /\ Changed(values, t) \subseteq reach /\ t \in Seq(Value)
    BY <1>1, <2>1, NearestHolds
  <2>5. WellTyped(found)
    BY <1>1, <2>2, <2>4, WarnedToIs DEF WellTyped, Is
  <2>6. Holds(found)
    BY <2>2, <2>4 DEF Holds, Is
  <2>7. Sound(found)
    BY <1>1, <2>2, <2>5, <2>6 DEF Sound, Is
  <2> QED
    BY <2>1, <2>3, <2>7, RunKeeps
<1> QED
  BY <1>3, <1>4

\* closest
LEMMA ClosestKeeps ==
  ASSUME IInv, NEW values, runClosest(values)
  PROVE  IInv'
<1>1. file \in Files /\ "closest" \in Verb
  BY DEF IInv, TypeOK, Verb
<1>2. /\ Is(Failed("closest", values), "closest", NotRun.sel, values, 1, "nowhere", "nothing", << >>)
      /\ Is(Warned(Usage("closest", values)), "closest", NotRun.sel, values, 2, WarnedTo, "nothing", << >>)
      /\ Is(Warned(Ended("closest", values)), "closest", NotRun.sel, values, 0, WarnedTo, "nothing", << >>)
  BY EndedIs, WarnedIs
<1>3. Sound(Failed("closest", values)) /\ Sound(Warned(Usage("closest", values)))
  <2>1. Quiet("closest", 1, "nowhere", "nothing") /\ Quiet("closest", 2, WarnedTo, "nothing")
    BY WarnedToIs DEF Quiet, Verb
  <2> QED
    BY <1>2, <2>1, QuietCall
<1>4. CASE Loaded.err /= "nil"
  <2>1. ran' = Failed("closest", values) /\ file' = file
    BY <1>4 DEF runClosest, Run
  <2> QED
    BY <1>3, <2>1, RunKeeps
<1>5. CASE Loaded.err = "nil" /\ Len(values) /= Len(Dims)
  <2>1. ran' = Warned(Usage("closest", values)) /\ file' = file
    BY <1>5 DEF runClosest, Run
  <2> QED
    BY <1>3, <2>1, RunKeeps
<1>6. CASE Loaded.err = "nil" /\ Len(values) = Len(Dims)
  <2>1. Searched(Warned(Ended("closest", values)), DOMAIN values)
    BY <1>6 DEF runClosest
  <2>2. FileLoads(file)
    BY <1>1, <1>6, LoadedMeans
  <2> QED
    BY <1>2, <2>1, <2>2, SearchKeeps
<1> QED
  BY <1>4, <1>5, <1>6

\* The dimension closest-in turns to is one its argument names in the file.
LEMMA SelectorNames ==
  ASSUME file \in Files, FileLoads(file), NEW arg,
         resolveDim(Selector(arg), Names) /= noMatch
  PROVE  resolveDim(Selector(arg), Names) + 1 \in Axis(arg)
<1> DEFINE dims == file.content.dims
           n == Len(dims)
           named == {i \in DOMAIN Names : Names[i] = arg}
<1>1. n \in Nat /\ DOMAIN dims = 1 .. n
  BY LoadedMeans, DecodedFacts
<1>2. Names = [i \in 1 .. n |-> TrimSpace[dims[i].name]]
  BY <1>1 DEF Names, dimensionNames
<1>3. Len(Names) = n
  BY <1>1, <1>2
<1>4. CASE arg \in DOMAIN Atoi
  <2>1. Atoi[arg] \in Int /\ toInt(Atoi[arg]) = Atoi[arg]
    BY <1>4, CommandsAssumption
  <2>2. resolveDim(Selector(arg), Names) = IF Atoi[arg] \in 0 .. n - 1 THEN Atoi[arg] ELSE noMatch
    BY <1>3, <1>4, <2>1 DEF resolveDim, Selector, SignedType
  <2>3. Atoi[arg] \in 0 .. n - 1 /\ resolveDim(Selector(arg), Names) = Atoi[arg]
    BY <2>2
  <2>4. Atoi[arg] + 1 \in 1 .. n
    BY <1>1, <2>1, <2>3
  <2> QED
    BY <1>1, <1>4, <2>3, <2>4 DEF Axis
<1>5. CASE arg \notin DOMAIN Atoi
  <2>1. Selector(arg).type = "string" /\ Selector(arg).val = arg
    BY <1>5 DEF Selector
  <2>2. resolveDim(Selector(arg), Names) = IF arg /= "" /\ named /= {} THEN Min(named) - 1 ELSE noMatch
    BY <2>1 DEF resolveDim, SignedType, UnsignedType
  <2>3. named /= {} /\ resolveDim(Selector(arg), Names) = Min(named) - 1
    BY <2>2
  <2>4. named \in SUBSET Nat
    BY <1>1, <1>2
  <2>5. Min(named) \in named
    BY <2>3, <2>4, LeastExists DEF Min
  <2>6. (Min(named) - 1) + 1 = Min(named)
    BY <2>4, <2>5
  <2>7. Min(named) \in 1 .. n /\ TrimSpace[dims[Min(named)].name] = arg
    BY <1>2, <2>5
  <2> QED
    BY <1>1, <1>5, <2>3, <2>6, <2>7 DEF Axis
<1> QED
  BY <1>4, <1>5

\* closest-in
LEMMA ClosestInKeeps ==
  ASSUME IInv, NEW arg, NEW values, runClosestIn(arg, values)
  PROVE  IInv'
<1> DEFINE call == [Ended("closest-in", values) EXCEPT !.sel = arg]
           i == resolveDim(Selector(arg), Names)
           unread == [call EXCEPT !.exit = 1]
           misused == [Warned(call) EXCEPT !.exit = 2]
           invalid == [Warned(call) EXCEPT !.exit = 1]
<1>1. file \in Files /\ "closest-in" \in Verb
  BY DEF IInv, TypeOK, Verb
<1>2. Is(call, "closest-in", arg, values, 0, "nowhere", "nothing", << >>)
  BY EndedIs DEF Is
<1>3. IF Loaded.err /= "nil" THEN Run(unread)
      ELSE IF Len(values) /= Len(Dims) THEN Run(misused)
      ELSE IF i = noMatch THEN Run(invalid)
      ELSE Searched(Warned(call), {i + 1})
  BY DEF runClosestIn
<1> HIDE DEF call, i
<1>4. Is(Warned(call), "closest-in", arg, values, 0, WarnedTo, "nothing", << >>)
  BY <1>2, WarnedIs
<1>5. /\ Is(unread, "closest-in", arg, values, 1, "nowhere", "nothing", << >>)
      /\ Is(misused, "closest-in", arg, values, 2, WarnedTo, "nothing", << >>)
      /\ Is(invalid, "closest-in", arg, values, 1, WarnedTo, "nothing", << >>)
  BY <1>2, <1>4 DEF Is
<1> HIDE DEF unread, misused, invalid
<1>6. Sound(unread) /\ Sound(misused) /\ Sound(invalid)
  <2>1. /\ Quiet("closest-in", 1, "nowhere", "nothing") /\ Quiet("closest-in", 1, WarnedTo, "nothing")
        /\ Quiet("closest-in", 2, WarnedTo, "nothing")
    BY WarnedToIs DEF Quiet, Verb
  <2> QED
    BY <1>5, <2>1, QuietCall
<1>7. CASE Loaded.err /= "nil"
  <2>1. ran' = unread /\ file' = file
    BY <1>3, <1>7 DEF Run
  <2> QED
    BY <1>6, <2>1, RunKeeps
<1>8. CASE Loaded.err = "nil" /\ (Len(values) /= Len(Dims) \/ i = noMatch)
  <2>1. (ran' = misused \/ ran' = invalid) /\ file' = file
    BY <1>3, <1>8 DEF Run
  <2> QED
    BY <1>6, <2>1, RunKeeps
<1>9. CASE Loaded.err = "nil" /\ Len(values) = Len(Dims) /\ i /= noMatch
  <2>1. FileLoads(file)
    BY <1>1, <1>9, LoadedMeans
  <2>2. {i + 1} \subseteq Axis(arg)
    BY <1>1, <1>9, <2>1, SelectorNames DEF i
  <2>3. Searched(Warned(call), {i + 1})
    BY <1>3, <1>9
  <2> QED
    BY <1>4, <2>1, <2>2, <2>3, SearchKeeps
<1> QED
  BY <1>7, <1>8, <1>9

\* Before the next invocation nothing has been said of the file there is then.
LEMMA AgainKeeps ==
  ASSUME IInv, Again
  PROVE  IInv'
<1>1. ran' = NotRun /\ file' \in Files
  BY DEF Again
<1>2. WellTyped(NotRun) /\ NotRun.verb /= "check" /\ NotRun.out /= "found"
  BY NothingIsTyped DEF NotRun, WellTyped
<1> QED
  BY <1>1, <1>2 DEF IInv, TypeOK, CheckReadsTheFile, ProposalsHold, WellTyped

\* The invariant of the commands holds in every state.
THEOREM InvariantHolds == Spec => []IInv
<1>1. ASSUME Init
      PROVE  IInv
  <2>1. WellTyped(NotRun) /\ NotRun.verb /= "check" /\ NotRun.out /= "found"
    BY NothingIsTyped DEF NotRun, WellTyped
  <2> QED
    BY <1>1, <2>1 DEF Init, IInv, TypeOK, CheckReadsTheFile, ProposalsHold, WellTyped
<1>2. IInv /\ [Next]_vars => IInv'
  <2> SUFFICES ASSUME IInv, [Next]_vars
               PROVE  IInv'
    OBVIOUS
  <2>1. CASE UNCHANGED vars
    <3>1. file' = file /\ ran' = ran
      BY <2>1 DEF vars
    <3>2. \A arg : Axis(arg)' = Axis(arg)
      BY <3>1 DEF Axis
    <3> QED
      BY <3>1, <3>2 DEF IInv, TypeOK, CheckReadsTheFile, ProposalsHold
  <2>2. ASSUME NEW values \in CommandLines, runCheck(values)
        PROVE  IInv'
    BY <2>2, CheckKeeps
  <2>3. ASSUME NEW values \in CommandLines, runExplain(values)
        PROVE  IInv'
    BY <2>3, ExplainKeeps
  <2>4. ASSUME NEW values \in CommandLines, runPartialCheck(values)
        PROVE  IInv'
    BY <2>4, PartialKeeps
  <2>5. ASSUME NEW values \in CommandLines, runClosest(values)
        PROVE  IInv'
    BY <2>5, ClosestKeeps
  <2>6. ASSUME NEW values \in CommandLines, NEW arg \in Selectors, runClosestIn(arg, values)
        PROVE  IInv'
    BY <2>6, ClosestInKeeps
  <2>7. CASE runLint
    BY <2>7, LintKeeps
  <2>8. CASE usage
    BY <2>8, UsageKeeps
  <2>9. CASE Again
    BY <2>9, AgainKeeps
  <2> QED
    BY <2>1, <2>2, <2>3, <2>4, <2>5, <2>6, <2>7, <2>8, <2>9 DEF Next
<1> QED
  BY <1>1, <1>2, PTL DEF Spec

\* What a command leaves behind, an exit code among it, is of its type.
THEOREM CommandsTyped == Spec => []TypeOK
<1>1. IInv => TypeOK
  BY DEF IInv
<1> QED
  BY <1>1, InvariantHolds, PTL

(***************************************************************************)
(* check exits 0 exactly when the file loads and the first of its rules    *)
(* for the values allows them, for every file, every command line and      *)
(* every edit of the file between two invocations.                         *)
(***************************************************************************)
THEOREM CheckReads == Spec => []CheckReadsTheFile
<1>1. IInv => CheckReadsTheFile
  BY DEF IInv
<1> QED
  BY <1>1, InvariantHolds, PTL

(***************************************************************************)
(* What closest and closest-in propose is allowed by the file, is not the  *)
(* input and, for closest-in, stays on the axis its argument names.        *)
(***************************************************************************)
THEOREM ProposalsAreRight == Spec => []ProposalsHold
<1>1. IInv => ProposalsHold
  BY DEF IInv
<1> QED
  BY <1>1, InvariantHolds, PTL

-----------------------------------------------------------------------------
(***************************************************************************)
(* A loop over the places 1 .. n that carries a value of S: the values it  *)
(* carries exist, so a recursive function that describes it has them.      *)
(***************************************************************************)
Runs(f, n, S, first, step) ==
  /\ f \in [0 .. n -> S]
  /\ f[0] = first
  /\ \A i \in 1 .. n : f[i] = step[<<f[i - 1], i>>]

\* A loop over 1 .. n has a trace.
LEMMA LoopExists ==
  ASSUME NEW n \in Nat, NEW S, NEW first \in S, NEW step \in [S \X (1 .. n) -> S]
  PROVE  \E f : Runs(f, n, S, first, step)
<1> DEFINE bad == {m \in 0 .. n : ~ \E f : Runs(f, m, S, first, step)}
<1>1. bad = {}
  <2>1. SUFFICES ASSUME bad /= {} PROVE FALSE
    OBVIOUS
  <2>2. bad \in SUBSET Nat
    OBVIOUS
  <2>3. PICK m \in bad : \A l \in bad : m <= l
    BY <2>1, <2>2, LeastExists
  <2>4. m /= 0
    <3> DEFINE f == [i \in 0 .. 0 |-> first]
    <3>1. Runs(f, 0, S, first, step)
      BY DEF Runs
    <3> QED
      BY <3>1
  <2>5. m - 1 \in 0 .. n /\ m - 1 \notin bad /\ m \in 1 .. n
    BY <2>3, <2>4
  <2>6. PICK g : /\ g \in [0 .. m - 1 -> S]
                 /\ g[0] = first
                 /\ \A i \in 1 .. m - 1 : g[i] = step[<<g[i - 1], i>>]
    BY <2>5 DEF Runs
  <2> DEFINE f == [i \in 0 .. m |-> IF i = m THEN step[<<g[m - 1], m>>] ELSE g[i]]
  <2>7. f \in [0 .. m -> S]
    <3>1. m - 1 \in 0 .. m - 1
      BY <2>5
    <3>2. step[<<g[m - 1], m>>] \in S
      BY <3>1, <2>5, <2>6
    <3>3. \A i \in 0 .. m : i /= m => i \in 0 .. m - 1
      BY <2>5
    <3> QED
      BY <3>2, <3>3, <2>6
  <2>8. f[0] = first
    BY <2>5, <2>6
  <2>9. \A i \in 1 .. m : f[i] = step[<<f[i - 1], i>>]
    <3>1. TAKE i \in 1 .. m
    <3>2. i \in 0 .. m /\ i - 1 \in 0 .. m /\ i - 1 /= m
      BY <2>5
    <3>3. f[i - 1] = g[i - 1]
      BY <3>2
    <3>4. CASE i = m
      BY <3>2, <3>3, <3>4
    <3>5. CASE i /= m
      <4>1. i \in 1 .. m - 1
        BY <3>5, <2>5
      <4> QED
        BY <4>1, <3>2, <3>3, <3>5, <2>6
    <3> QED
      BY <3>4, <3>5
  <2> HIDE DEF f
  <2>10. Runs(f, m, S, first, step)
    BY <2>7, <2>8, <2>9 DEF Runs
  <2> QED
    BY <2>3, <2>10
<1> QED
  BY <1>1

-----------------------------------------------------------------------------
(***************************************************************************)
(* The tuples of a list of dimensions, by their positions, and those of    *)
(* the first k dimensions.                                                 *)
(***************************************************************************)
Lists == Seq(Seq(Value))

BoxUpTo(lists, k) ==
  {at \in [1 .. k -> Nat] : \A i \in 1 .. k : at[i] \in 1 .. Len(lists[i])}

Box(lists) == BoxUpTo(lists, Len(lists))

(***************************************************************************)
(* One more list multiplies the positions by its length: a position over   *)
(* k + 1 lists is one over k of them and a place in the last.              *)
(***************************************************************************)
LEMMA BoxGrows ==
  ASSUME NEW lists \in Lists, NEW k \in Nat, k < Len(lists),
         IsFiniteSet(BoxUpTo(lists, k))
  PROVE  /\ IsFiniteSet(BoxUpTo(lists, k + 1))
         /\ Cardinality(BoxUpTo(lists, k + 1)) = Cardinality(BoxUpTo(lists, k)) * Len(lists[k + 1])
<1> DEFINE n == Len(lists[k + 1])
           S == BoxUpTo(lists, k)
           T == BoxUpTo(lists, k + 1)
           Last == 1 .. n
           at(p) == [i \in 1 .. k + 1 |-> IF i <= k THEN p[1][i] ELSE p[2]]
           F == [p \in S \X Last |-> at(p)]
<1>1. n \in Nat
  BY DEF Lists
<1>2. IsFiniteSet(Last) /\ Cardinality(Last) = n
  <2> HIDE DEF n
  <2>1. 1 \in Int /\ n \in Int /\ (IF 1 > n THEN 0 ELSE n - 1 + 1) = n
    BY <1>1
  <2> QED
    BY <2>1, <1>1, FS_Interval
<1>3. \A p \in S \X Last : at(p) \in T
  <2>1. SUFFICES ASSUME NEW ix \in S, NEW l \in Last PROVE at(<<ix, l>>) \in T
    OBVIOUS
  <2>2. ix \in [1 .. k -> Nat] /\ \A i \in 1 .. k : ix[i] \in 1 .. Len(lists[i])
    BY DEF BoxUpTo
  <2>3. \A i \in 1 .. k + 1 : i <= k => i \in 1 .. k
    OBVIOUS
  <2>4. at(<<ix, l>>) \in [1 .. k + 1 -> Nat]
    BY <2>2, <2>3, <1>1
  <2>5. \A i \in 1 .. k + 1 : at(<<ix, l>>)[i] \in 1 .. Len(lists[i])
    <3>1. TAKE i \in 1 .. k + 1
    <3>2. CASE i <= k
      BY <3>2, <2>2, <2>3
    <3>3. CASE i = k + 1
      BY <3>3, <1>1
    <3> QED
      BY <3>2, <3>3
  <2> QED
    BY <2>4, <2>5 DEF BoxUpTo
<1>4. \A p, q \in S \X Last : at(p) = at(q) => p = q
  <2>1. SUFFICES ASSUME NEW ix \in S, NEW l \in Last, NEW jx \in S, NEW m \in Last,
                        at(<<ix, l>>) = at(<<jx, m>>)
                 PROVE  ix = jx /\ l = m
    OBVIOUS
  <2>2. ix \in [1 .. k -> Nat] /\ jx \in [1 .. k -> Nat]
    BY DEF BoxUpTo
  <2>3. \A i \in 1 .. k + 1 : at(<<ix, l>>)[i] = at(<<jx, m>>)[i]
    BY <2>1
  <2>4. \A i \in 1 .. k : ix[i] = jx[i]
    BY <2>3
  <2>5. l = m
    <3>1. k + 1 \in 1 .. k + 1 /\ ~ (k + 1 <= k)
      OBVIOUS
    <3> QED
      BY <2>3, <3>1
  <2> QED
    BY <2>2, <2>4, <2>5
<1>5. \A ix \in T : \E p \in S \X Last : at(p) = ix
  <2>1. TAKE ix \in T
  <2>2. ix \in [1 .. k + 1 -> Nat] /\ \A i \in 1 .. k + 1 : ix[i] \in 1 .. Len(lists[i])
    BY DEF BoxUpTo
  <2> DEFINE jx == [i \in 1 .. k |-> ix[i]]
             p == <<jx, ix[k + 1]>>
  <2>3. \A i \in 1 .. k : i \in 1 .. k + 1
    OBVIOUS
  <2>4. jx \in S
    BY <2>2, <2>3 DEF BoxUpTo
  <2>5. ix[k + 1] \in Last
    BY <2>2, <1>1
  <2>6. at(p) = ix
    BY <2>2
  <2>7. p \in S \X Last
    BY <2>4, <2>5
  <2> QED
    BY <2>6, <2>7
<1>6. F \in Bijection(S \X Last, T)
  BY <1>3, <1>4, <1>5 DEF Bijection, Injection, Surjection, IsInjective
<1> HIDE DEF F, at, S, T, Last, n
<1>7. IsFiniteSet(S \X Last) /\ Cardinality(S \X Last) = Cardinality(S) * n
  BY <1>2, FS_Product DEF S
<1>8. IsFiniteSet(T) /\ Cardinality(T) = Cardinality(S \X Last)
  BY <1>6, <1>7, FS_Bijection DEF ExistsBijection
<1> QED
  BY <1>7, <1>8 DEF S, T, n

(***************************************************************************)
(* There is one position over no lists, and there are finitely many over   *)
(* any number of them.                                                     *)
(***************************************************************************)
LEMMA BoxOfNone ==
  ASSUME NEW lists
  PROVE  IsFiniteSet(BoxUpTo(lists, 0)) /\ Cardinality(BoxUpTo(lists, 0)) = 1
<1> DEFINE none == [i \in 1 .. 0 |-> 0]
<1>1. BoxUpTo(lists, 0) = {none}
  <2>1. none \in [1 .. 0 -> Nat] /\ \A i \in 1 .. 0 : none[i] \in 1 .. Len(lists[i])
    OBVIOUS
  <2>2. \A ix \in [1 .. 0 -> Nat] : ix = none
    OBVIOUS
  <2> QED
    BY <2>1, <2>2 DEF BoxUpTo
<1> QED
  BY <1>1, FS_Singleton

\* The positions can be counted.
LEMMA BoxFinite ==
  ASSUME NEW lists \in Lists
  PROVE  \A k \in 0 .. Len(lists) :
           IsFiniteSet(BoxUpTo(lists, k)) /\ Cardinality(BoxUpTo(lists, k)) \in Nat
<1> DEFINE bad == {k \in 0 .. Len(lists) : ~IsFiniteSet(BoxUpTo(lists, k))}
<1>1. bad = {}
  <2>1. SUFFICES ASSUME bad /= {} PROVE FALSE
    OBVIOUS
  <2>2. bad \in SUBSET Nat
    OBVIOUS
  <2>3. PICK k \in bad : \A j \in bad : k <= j
    BY <2>1, <2>2, LeastExists
  <2>4. k /= 0
    BY <2>3, BoxOfNone
  <2>5. Len(lists) \in Nat
    BY DEF Lists
  <2>6. k - 1 \in Nat /\ k - 1 < Len(lists) /\ k - 1 \notin bad /\ (k - 1) + 1 = k
    BY <2>3, <2>4, <2>5
  <2>7. IsFiniteSet(BoxUpTo(lists, k - 1))
    BY <2>6, <2>5
  <2>8. IsFiniteSet(BoxUpTo(lists, (k - 1) + 1))
    BY <2>6, <2>7, BoxGrows
  <2> QED
    BY <2>3, <2>6, <2>8
<1> QED
  BY <1>1, FS_CardinalityType

(***************************************************************************)
(* Lists that are not empty: the positions over the first of them never    *)
(* become fewer, and there is always one.                                  *)
(***************************************************************************)
LEMMA BoxMonotone ==
  ASSUME NEW lists \in Lists, \A i \in 1 .. Len(lists) : lists[i] /= << >>
  PROVE  \A k \in 0 .. Len(lists) :
           /\ Cardinality(BoxUpTo(lists, k)) >= 1
           /\ k > 0 => /\ Len(lists[k]) \in Nat \ {0}
                       /\ Cardinality(BoxUpTo(lists, k)) =
                            Cardinality(BoxUpTo(lists, k - 1)) * Len(lists[k])
                       /\ Cardinality(BoxUpTo(lists, k)) >= Cardinality(BoxUpTo(lists, k - 1))
<1> DEFINE size(k) == Cardinality(BoxUpTo(lists, k))
           bad == {k \in 0 .. Len(lists) : ~ (size(k) >= 1)}
<1>1. Len(lists) \in Nat /\ \A i \in 1 .. Len(lists) : Len(lists[i]) \in Nat \ {0}
  <2>1. \A i \in 1 .. Len(lists) : lists[i] \in Seq(Value) /\ lists[i] /= << >>
    BY DEF Lists
  <2> QED
    BY <2>1 DEF Lists
<1>2. \A k \in 0 .. Len(lists) : size(k) \in Nat
  BY BoxFinite
<1>3. \A k \in 1 .. Len(lists) : size(k) = size(k - 1) * Len(lists[k])
  <2>1. TAKE k \in 1 .. Len(lists)
  <2>2. k - 1 \in Nat /\ k - 1 < Len(lists) /\ (k - 1) + 1 = k /\ k - 1 \in 0 .. Len(lists)
    BY <1>1
  <2>3. IsFiniteSet(BoxUpTo(lists, k - 1))
    BY <2>2, BoxFinite
  <2>4. size((k - 1) + 1) = size(k - 1) * Len(lists[(k - 1) + 1])
    BY <2>2, <2>3, BoxGrows
  <2> QED
    BY <2>2, <2>4
<1>4. size(0) = 1
  BY BoxOfNone
<1> HIDE DEF size
<1>5. \A k \in 1 .. Len(lists) : size(k) >= size(k - 1)
  <2>1. TAKE k \in 1 .. Len(lists)
  <2>2. size(k) = size(k - 1) * Len(lists[k]) /\ size(k - 1) \in Nat /\ Len(lists[k]) \in Nat \ {0}
    BY <1>1, <1>2, <1>3
  <2>3. \A x \in Nat, y \in Nat \ {0} : x * y >= x
    OBVIOUS
  <2> QED
    BY <2>2, <2>3
<1>6. bad = {}
  <2>1. SUFFICES ASSUME bad /= {} PROVE FALSE
    OBVIOUS
  <2>2. bad \in SUBSET Nat
    OBVIOUS
  <2>3. PICK k \in bad : \A j \in bad : k <= j
    BY <2>1, <2>2, LeastExists
  <2>4. k \in 1 .. Len(lists) /\ k - 1 \in 0 .. Len(lists)
    BY <2>3, <1>1, <1>4
  <2>5. size(k - 1) >= 1
    BY <2>3, <2>4, <1>1
  <2> QED
    BY <2>3, <2>4, <2>5, <1>2, <1>5
<1>7. \A k \in 0 .. Len(lists) : k > 0 => k \in 1 .. Len(lists)
  BY <1>1
<1> QED
  BY <1>1, <1>3, <1>5, <1>6, <1>7 DEF size

(***************************************************************************)
(* walkProduct goes through the positions as an odometer does: at their    *)
(* first difference the earlier one has the lesser place.                  *)
(***************************************************************************)
Before(ix, jx, n) ==
  \E k \in 1 .. n : ix[k] < jx[k] /\ \A l \in 1 .. n : l < k => ix[l] = jx[l]

\* What a position is.
LEMMA BoxMeans ==
  ASSUME NEW lists \in Lists
  PROVE  /\ Len(lists) \in Nat
         /\ DOMAIN lists = 1 .. Len(lists)
         /\ \A i \in 1 .. Len(lists) : lists[i] \in Seq(Value) /\ Len(lists[i]) \in Nat
         /\ \A ix : ix \in Box(lists) <=>
                      /\ ix \in [1 .. Len(lists) -> Nat]
                      /\ \A i \in 1 .. Len(lists) : ix[i] \in 1 .. Len(lists[i])
BY DEF Lists, Box, BoxUpTo

\* Two positions differ at a first place.
LEMMA FirstDifference ==
  ASSUME NEW lists \in Lists, NEW ix \in Box(lists), NEW jx \in Box(lists), ix /= jx
  PROVE  \E k \in 1 .. Len(lists) : /\ ix[k] /= jx[k]
                                    /\ \A l \in 1 .. Len(lists) : l < k => ix[l] = jx[l]
<1> DEFINE n == Len(lists)
           diff == {k \in 1 .. n : ix[k] /= jx[k]}
<1>1. n \in Nat /\ ix \in [1 .. n -> Nat] /\ jx \in [1 .. n -> Nat]
  BY BoxMeans
<1>2. diff /= {}
  BY <1>1
<1>3. diff \in SUBSET Nat
  BY <1>1
<1>4. PICK k \in diff : \A l \in diff : k <= l
  BY <1>2, <1>3, LeastExists
<1>5. \A l \in 1 .. n : l < k => ix[l] = jx[l]
  BY <1>1, <1>4
<1> QED
  BY <1>4, <1>5

\* The odometer orders the positions.
LEMMA BeforeIsOrder ==
  ASSUME NEW lists \in Lists, NEW ix \in Box(lists), NEW jx \in Box(lists)
  PROVE  /\ ~Before(jx, jx, Len(lists))
         /\ ix = jx \/ Before(ix, jx, Len(lists)) \/ Before(jx, ix, Len(lists))
<1> DEFINE n == Len(lists)
<1>1. n \in Nat /\ ix \in [1 .. n -> Nat] /\ jx \in [1 .. n -> Nat]
  BY BoxMeans
<1>2. ~Before(jx, jx, n)
  BY <1>1 DEF Before
<1>3. ASSUME ix /= jx PROVE Before(ix, jx, n) \/ Before(jx, ix, n)
  <2>1. PICK k \in 1 .. n : ix[k] /= jx[k] /\ \A l \in 1 .. n : l < k => ix[l] = jx[l]
    BY <1>3, FirstDifference
  <2>2. \A l \in 1 .. n : l < k => jx[l] = ix[l]
    BY <2>1
  <2>3. CASE ix[k] < jx[k]
    BY <2>1, <2>3 DEF Before
  <2>4. CASE jx[k] < ix[k]
    BY <2>2, <2>4 DEF Before
  <2> QED
    BY <1>1, <2>1, <2>3, <2>4
<1> QED
  BY <1>2, <1>3

\* The places that can move, and the position the walk moves to.
Movable(lists, at) == {i \in DOMAIN at : at[i] < Len(lists[i])}

Moved(lists, at) ==
  LET k == CHOOSE i \in Movable(lists, at) : \A n \in Movable(lists, at) : n <= i
  IN  [i \in DOMAIN at |-> IF i < k THEN at[i] ELSE IF i = k THEN at[i] + 1 ELSE 1]

\* Nothing is before the position a walk starts on.
LEMMA OdometerStarts ==
  ASSUME NEW lists \in Lists, \A i \in 1 .. Len(lists) : lists[i] /= << >>
  PROVE  LET first == [i \in DOMAIN lists |-> 1]
         IN  /\ first \in Box(lists)
             /\ \A ix \in Box(lists) : ~Before(ix, first, Len(lists))
<1> DEFINE n == Len(lists)
           first == [i \in DOMAIN lists |-> 1]
<1>1. /\ n \in Nat /\ DOMAIN lists = 1 .. n
      /\ \A ix : ix \in Box(lists) <=> /\ ix \in [1 .. n -> Nat]
                                      /\ \A i \in 1 .. n : ix[i] \in 1 .. Len(lists[i])
  BY BoxMeans
<1>2. \A i \in 1 .. n : Len(lists[i]) \in Nat /\ Len(lists[i]) > 0
  <2>1. \A i \in 1 .. n : lists[i] \in Seq(Value) /\ lists[i] /= << >>
    BY BoxMeans
  <2> QED
    BY <2>1
<1>3. first = [i \in 1 .. n |-> 1]
  BY <1>1
<1> HIDE DEF first
<1>4. first \in [1 .. n -> Nat] /\ \A i \in 1 .. n : first[i] \in 1 .. Len(lists[i])
  BY <1>2, <1>3
<1>5. \A ix \in Box(lists) : ~Before(ix, first, n)
  <2>1. TAKE ix \in Box(lists)
  <2>2. \A k \in 1 .. n : ix[k] \in Nat /\ ix[k] >= 1 /\ first[k] = 1
    BY <1>1, <1>3
  <2>3. \A k \in 1 .. n : ~ (ix[k] < first[k])
    BY <2>2
  <2> QED
    BY <2>3 DEF Before
<1> QED
  BY <1>1, <1>4, <1>5 DEF first

\* What is last: everything else is before it.
LEMMA OdometerEnds ==
  ASSUME NEW lists \in Lists, NEW jx \in Box(lists), Movable(lists, jx) = {}
  PROVE  \A ix \in Box(lists) : Before(ix, jx, Len(lists)) \/ ix = jx
<1> DEFINE n == Len(lists)
<1>1. /\ n \in Nat /\ DOMAIN lists = 1 .. n /\ jx \in [1 .. n -> Nat]
      /\ \A i \in 1 .. n : Len(lists[i]) \in Nat /\ jx[i] \in 1 .. Len(lists[i])
  BY BoxMeans
<1>2. \A i \in 1 .. n : ~ (jx[i] < Len(lists[i]))
  BY <1>1 DEF Movable
<1>3. TAKE ix \in Box(lists)
<1>4. ix \in [1 .. n -> Nat] /\ \A i \in 1 .. n : ix[i] \in 1 .. Len(lists[i])
  BY BoxMeans
<1>5. CASE ix /= jx
  <2>1. PICK k \in 1 .. n : ix[k] /= jx[k] /\ \A l \in 1 .. n : l < k => ix[l] = jx[l]
    BY <1>5, FirstDifference
  <2>2. ix[k] < jx[k]
    <3>1. /\ ix[k] \in Nat /\ jx[k] \in Nat /\ Len(lists[k]) \in Nat
          /\ ix[k] \in 1 .. Len(lists[k]) /\ ~ (jx[k] < Len(lists[k])) /\ ix[k] /= jx[k]
      BY <1>1, <1>2, <1>4, <2>1
    <3> QED
      BY <3>1
  <2> QED
    BY <2>1, <2>2 DEF Before
<1> QED
  BY <1>5

\* One turn leaves the position it was on, and passes no other.
LEMMA OdometerTurns ==
  ASSUME NEW lists \in Lists, NEW jx \in Box(lists), Movable(lists, jx) /= {}
  PROVE  /\ Moved(lists, jx) \in Box(lists)
         /\ \A ix \in Box(lists) :
              Before(ix, Moved(lists, jx), Len(lists)) <=> Before(ix, jx, Len(lists)) \/ ix = jx
<1> DEFINE n == Len(lists)
           i == CHOOSE k \in Movable(lists, jx) : \A l \in Movable(lists, jx) : l <= k
           next == Moved(lists, jx)
<1>1. /\ n \in Nat /\ DOMAIN lists = 1 .. n /\ jx \in [1 .. n -> Nat]
      /\ \A k \in 1 .. n : Len(lists[k]) \in Nat /\ jx[k] \in 1 .. Len(lists[k])
  BY BoxMeans
<1>2. i \in 1 .. n /\ jx[i] < Len(lists[i]) /\ \A k \in 1 .. n : k > i => ~ (jx[k] < Len(lists[k]))
  <2> DEFINE T == Movable(lists, jx)
  <2>1. T = {k \in 1 .. n : jx[k] < Len(lists[k])}
    BY <1>1 DEF Movable
  <2>2. T \in SUBSET (0 .. n) /\ T /= {}
    BY <2>1, <1>1
  <2> HIDE DEF T
  <2>3. \E x \in T : \A y \in T : y <= x
    BY <2>2, <1>1, GreatestExists
  <2>4. i \in T /\ \A y \in T : y <= i
    BY <2>3 DEF T
  <2> HIDE DEF i
  <2>5. i \in 1 .. n
    BY <2>1, <2>4
  <2>6. \A k \in 1 .. n : k > i => k \notin T
    BY <2>4, <2>5, <1>1
  <2> QED
    BY <2>1, <2>4, <2>5, <2>6 DEF T
<1>3. next = [k \in 1 .. n |-> IF k < i THEN jx[k] ELSE IF k = i THEN jx[k] + 1 ELSE 1]
  BY <1>1 DEF Moved
<1> HIDE DEF i, next
<1>4. /\ \A k \in 1 .. n : k < i => next[k] = jx[k]
      /\ next[i] = jx[i] + 1
      /\ \A k \in 1 .. n : k > i => next[k] = 1
  BY <1>2, <1>3
<1>5. next \in Box(lists)
  <2>1. next \in [1 .. n -> Nat]
    BY <1>1, <1>3
  <2>2. \A k \in 1 .. n : next[k] \in 1 .. Len(lists[k])
    <3>1. TAKE k \in 1 .. n
    <3>2. /\ k \in Int /\ i \in Int /\ jx[k] \in Nat /\ Len(lists[k]) \in Nat
          /\ jx[k] \in 1 .. Len(lists[k])
      BY <1>1, <1>2
    <3>3. k < i \/ k = i \/ k > i
      BY <3>2
    <3> QED
      BY <3>2, <3>3, <1>2, <1>4
  <2> QED
    BY <2>1, <2>2, BoxMeans
<1>6. ASSUME NEW ix \in Box(lists), Before(ix, next, n)
      PROVE  Before(ix, jx, n) \/ ix = jx
  <2>1. ix \in [1 .. n -> Nat] /\ \A k \in 1 .. n : ix[k] \in 1 .. Len(lists[k])
    BY BoxMeans
  <2>2. PICK k \in 1 .. n : ix[k] < next[k] /\ \A l \in 1 .. n : l < k => ix[l] = next[l]
    BY <1>6 DEF Before
  <2>3. k \in Int /\ i \in Int /\ ix[k] \in Nat /\ jx[k] \in Nat
    BY <1>1, <1>2, <2>1
  <2>4. CASE k < i
    <3>1. \A l \in 1 .. n : l < k => ix[l] = jx[l]
      <4>1. TAKE l \in 1 .. n
      <4>2. l < k => l < i
        BY <2>3, <2>4
      <4> QED
        BY <4>2, <2>2, <1>4
    <3>2. ix[k] < jx[k]
      BY <2>2, <2>4, <1>4
    <3> QED
      BY <3>1, <3>2 DEF Before
  <2>5. CASE k = i
    <3>1. \A l \in 1 .. n : l < i => ix[l] = jx[l]
      BY <2>2, <2>5, <1>4
    <3>2. ix[i] <= jx[i]
      <4>1. ix[i] < jx[i] + 1 /\ ix[i] \in Nat /\ jx[i] \in Nat
        BY <2>2, <2>3, <2>5, <1>4
      <4> QED
        BY <4>1
    <3>3. CASE ix /= jx
      <4>1. PICK d \in 1 .. n : ix[d] /= jx[d] /\ \A l \in 1 .. n : l < d => ix[l] = jx[l]
        BY <3>3, FirstDifference
      <4>2. d \in Int /\ ix[d] \in Nat /\ jx[d] \in Nat /\ Len(lists[d]) \in Nat /\ ix[d] \in 1 .. Len(lists[d])
        BY <1>1, <2>1
      <4>3. ~ (d < i)
        BY <3>1, <4>1
      <4>4. ix[d] < jx[d]
        <5>1. CASE d = i
          BY <5>1, <3>2, <4>1, <4>2
        <5>2. CASE d > i
          BY <5>2, <1>2, <4>1, <4>2
        <5> QED
          BY <5>1, <5>2, <4>2, <4>3, <2>3
      <4> QED
        BY <4>1, <4>4 DEF Before
    <3> QED
      BY <3>3
  <2>6. CASE k > i
    BY <2>1, <2>2, <2>3, <2>6, <1>4
  <2> QED
    BY <2>3, <2>4, <2>5, <2>6
<1>7. ASSUME NEW ix \in Box(lists), Before(ix, jx, n)
      PROVE  Before(ix, next, n)
  <2>1. ix \in [1 .. n -> Nat]
    BY BoxMeans
  <2>2. PICK k \in 1 .. n : ix[k] < jx[k] /\ \A l \in 1 .. n : l < k => ix[l] = jx[l]
    BY <1>7 DEF Before
  <2>3. k \in Int /\ i \in Int /\ ix[k] \in Nat /\ jx[k] \in Nat /\ ix[i] \in Nat /\ jx[i] \in Nat
    BY <1>1, <1>2, <2>1
  <2>4. CASE k <= i
    <3>1. \A l \in 1 .. n : l < k => ix[l] = next[l]
      <4>1. TAKE l \in 1 .. n
      <4>2. l < k => l < i
        BY <2>3, <2>4
      <4> QED
        BY <4>2, <2>2, <1>4
    <3>2. ix[k] < next[k]
      <4>1. CASE k = i
        BY <4>1, <2>2, <2>3, <1>4
      <4>2. CASE k < i
        BY <4>2, <2>2, <1>4
      <4> QED
        BY <4>1, <4>2, <2>3, <2>4
    <3> QED
      BY <3>1, <3>2 DEF Before
  <2>5. CASE k > i
    <3>1. \A l \in 1 .. n : l < i => ix[l] = next[l]
      <4>1. TAKE l \in 1 .. n
      <4>2. l < i => l < k
        BY <2>3, <2>5
      <4> QED
        BY <4>2, <2>2, <1>4
    <3>2. ix[i] < next[i]
      BY <2>2, <2>3, <2>5, <1>2, <1>4
    <3> QED
      BY <3>1, <3>2, <1>2 DEF Before
  <2> QED
    BY <2>3, <2>4, <2>5
<1>8. Before(jx, next, n)
  <2>1. jx[i] < next[i]
    BY <1>1, <1>2, <1>4
  <2>2. \A l \in 1 .. n : l < i => jx[l] = next[l]
    BY <1>4
  <2> QED
    BY <2>1, <2>2, <1>2 DEF Before
<1> QED
  BY <1>5, <1>6, <1>7, <1>8 DEF next

-----------------------------------------------------------------------------
(***************************************************************************)
(* What diff makes of its command line.                                    *)
(***************************************************************************)
FlagValue == STRING \cup {TRUE, "dashed"}

\* A flag that has been set, and what splitDiffArgs carries from word to word.
SetFlag == {e \in [kind : Flag, value : FlagValue] : e.kind = "include-unchanged" => e.value = TRUE}

Split ==
  [set : Seq(SetFlag), positional : Seq(STRING), wants : {"none", "limit", "format"}, err : BOOLEAN]

\* What a flag can be set to.
LEMMA FlagValues == TRUE \in FlagValue /\ "dashed" \in FlagValue /\ \A s \in STRING : s \in FlagValue
BY Zenon DEF FlagValue

\* A word more keeps the type.
LEMMA SplitWordTyped ==
  ASSUME NEW acc \in Split, NEW w \in Word
  PROVE  splitWord(acc, w) \in Split
<1>1. /\ w.kind \in {"plain", "set", "bare", "dashed"}
      /\ w.kind = "plain" => w.text \in STRING
      /\ w.kind = "set" => w.flag \in Flag /\ w.text \in STRING
      /\ w.kind = "bare" => w.flag \in Flag
  BY DEF Word
<1>2. \A e \in SetFlag : Append(acc.set, e) \in Seq(SetFlag)
  BY DEF Split
<1>3. CASE acc.err
  BY <1>3 DEF splitWord
<1>4. CASE ~acc.err /\ acc.wants /= NoFlag
  <2> DEFINE e == [kind |-> acc.wants, value |-> IF w.kind = "plain" THEN w.text ELSE "dashed"]
  <2>1. e \in SetFlag
    <3>1. acc.wants \in {"limit", "format"}
      BY <1>4 DEF Split, NoFlag
    <3>2. acc.wants \in Flag /\ acc.wants /= "include-unchanged"
      BY <3>1 DEF Flag
    <3>3. e.value \in FlagValue
      <4>1. e.value = w.text \/ e.value = "dashed"
        OBVIOUS
      <4>2. w.kind = "plain" => w.text \in FlagValue
        BY <1>1, FlagValues
      <4>3. "dashed" \in FlagValue
        BY FlagValues
      <4> QED
        BY <1>1, <4>2, <4>3
    <3>4. e \in [kind : Flag, value : FlagValue] /\ e.kind /= "include-unchanged"
      BY <3>2, <3>3
    <3> HIDE DEF e
    <3> QED
      BY <3>4 DEF SetFlag
  <2>2. splitWord(acc, w) = [acc EXCEPT !.wants = NoFlag, !.set = Append(acc.set, e)]
    BY <1>4 DEF splitWord
  <2> HIDE DEF e
  <2> QED
    BY <2>1, <2>2, <1>2 DEF Split, NoFlag
<1>5. CASE ~acc.err /\ acc.wants = NoFlag
  <2>1. CASE w.kind = "plain"
    <3>1. splitWord(acc, w) = [acc EXCEPT !.positional = Append(acc.positional, w.text)]
      BY <1>5, <2>1 DEF splitWord
    <3>2. Append(acc.positional, w.text) \in Seq(STRING)
      BY <1>1, <2>1 DEF Split
    <3> QED
      BY <3>1, <3>2 DEF Split
  <2>2. CASE w.kind = "set" /\ w.flag /= "include-unchanged"
    <3> DEFINE e == [kind |-> w.flag, value |-> w.text]
    <3>1. e \in SetFlag
      BY <1>1, <2>2, FlagValues DEF SetFlag
    <3>2. splitWord(acc, w) = [acc EXCEPT !.set = Append(acc.set, e)]
      BY <1>5, <2>2 DEF splitWord
    <3> HIDE DEF e
    <3> QED
      BY <3>1, <3>2, <1>2 DEF Split
  <2>3. CASE w.kind = "bare" /\ w.flag = "include-unchanged"
    <3> DEFINE e == [kind |-> w.flag, value |-> TRUE]
    <3>1. e \in SetFlag
      BY <1>1, <2>3, FlagValues DEF SetFlag
    <3>2. splitWord(acc, w) = [acc EXCEPT !.set = Append(acc.set, e)]
      BY <1>5, <2>3 DEF splitWord
    <3> HIDE DEF e
    <3> QED
      BY <3>1, <3>2, <1>2 DEF Split
  <2>4. CASE w.kind = "bare" /\ w.flag /= "include-unchanged"
    <3>1. w.flag \in {"limit", "format"}
      BY <1>1, <2>4 DEF Flag
    <3>2. splitWord(acc, w) = [acc EXCEPT !.wants = w.flag]
      BY <1>5, <2>4, <3>1 DEF splitWord
    <3> QED
      BY <3>1, <3>2 DEF Split
  <2>5. CASE w.kind = "dashed" \/ (w.kind = "set" /\ w.flag = "include-unchanged")
    <3>1. splitWord(acc, w) = [acc EXCEPT !.err = TRUE]
      BY <1>5, <2>5 DEF splitWord
    <3> QED
      BY <3>1 DEF Split
  <2> QED
    BY <1>1, <2>1, <2>2, <2>3, <2>4, <2>5
<1> QED
  BY <1>3, <1>4, <1>5 DEF Split

\* The command line, split.
LEMMA SplitTyped ==
  ASSUME NEW words \in Seq(Word)
  PROVE  splitDiffArgs(words) \in Split
<1> DEFINE n == Len(words)
           first == [set |-> << >>, positional |-> << >>, wants |-> NoFlag, err |-> FALSE]
           step == [p \in Split \X (1 .. n) |-> splitWord(p[1], words[p[2]])]
           Fits(upTo) == upTo = [i \in 0 .. n |-> IF i = 0 THEN first ELSE splitWord(upTo[i - 1], words[i])]
<1>1. n \in Nat /\ \A i \in 1 .. n : words[i] \in Word
  OBVIOUS
<1>2. first \in Split
  BY DEF Split, NoFlag
<1>3. step \in [Split \X (1 .. n) -> Split]
  BY <1>1, SplitWordTyped
<1> HIDE DEF first
<1>4. PICK f : Runs(f, n, Split, first, step)
  <2> HIDE DEF step, n
  <2> QED
    BY <1>1, <1>2, <1>3, LoopExists
<1>5. f \in [0 .. n -> Split] /\ f[0] = first /\ \A i \in 1 .. n : f[i] = step[<<f[i - 1], i>>]
  BY <1>4 DEF Runs
<1>6. \A i \in 1 .. n : f[i] = splitWord(f[i - 1], words[i])
  <2>1. TAKE i \in 1 .. n
  <2>2. f[i - 1] \in Split
    BY <1>1, <1>5
  <2>3. <<f[i - 1], i>> \in Split \X (1 .. n)
    BY <2>2
  <2> QED
    BY <2>3, <1>5
<1>7. Fits(f)
  <2>1. \A i \in 0 .. n : i /= 0 => i \in 1 .. n
    BY <1>1
  <2> QED
    BY <2>1, <1>5, <1>6
<1>8. \A g : Fits(g) => g[n] \in Split
  <2>1. SUFFICES ASSUME NEW g, Fits(g)
                 PROVE  g[n] \in Split
    OBVIOUS
  <2> DEFINE bad == {m \in 0 .. n : g[m] \notin Split}
  <2>2. bad = {}
    <3>1. SUFFICES ASSUME bad /= {} PROVE FALSE
      OBVIOUS
    <3>2. bad \in SUBSET Nat
      OBVIOUS
    <3>3. PICK m \in bad : \A l \in bad : m <= l
      BY <3>1, <3>2, LeastExists
    <3>4. g[0] = first /\ 0 \in 0 .. n
      BY <1>1, <2>1
    <3>5. m \in 1 .. n /\ m - 1 \in 0 .. n /\ m - 1 \notin bad
      BY <1>1, <1>2, <3>3, <3>4
    <3>6. g[m] = splitWord(g[m - 1], words[m])
      BY <3>5, <2>1
    <3> QED
      BY <3>3, <3>5, <3>6, <1>1, SplitWordTyped
  <2> QED
    BY <2>2, <1>1
<1>9. splitDiffArgs(words) = (CHOOSE g : Fits(g))[n]
  BY DEF splitDiffArgs, first
<1> HIDE DEF Fits
<1>10. Fits(CHOOSE g : Fits(g))
  BY <1>7
<1> QED
  BY <1>8, <1>9, <1>10

\* The setting of a kind is the value of one of the options of that kind, if any.
LEMMA SettingMeans ==
  ASSUME NEW S, NEW opts \in Seq(S), NEW kind, NEW zero
  PROVE  \/ Setting(opts, kind, zero) = zero /\ \A i \in DOMAIN opts : opts[i].kind /= kind
         \/ \E i \in DOMAIN opts : opts[i].kind = kind /\ Setting(opts, kind, zero) = opts[i].value
<1> DEFINE places == {i \in DOMAIN opts : opts[i].kind = kind}
           last == CHOOSE i \in places : \A k \in places : k <= i
<1>1. CASE places = {}
  BY <1>1 DEF Setting
<1>2. CASE places /= {}
  <2>1. Len(opts) \in Nat /\ DOMAIN opts = 1 .. Len(opts)
    OBVIOUS
  <2>2. places \in SUBSET (0 .. Len(opts))
    BY <2>1
  <2>3. \E i \in places : \A k \in places : k <= i
    <3> HIDE DEF places
    <3> QED
      BY <1>2, <2>1, <2>2, GreatestExists
  <2>4. last \in places
    BY <2>3
  <2>5. Setting(opts, kind, zero) = opts[last].value
    BY <1>2 DEF Setting
  <2> HIDE DEF last
  <2> QED
    BY <2>4, <2>5
<1> QED
  BY <1>1, <1>2

\* Arguments that are accepted.
LEMMA ArgsTyped ==
  ASSUME NEW words \in DiffLines, ~ArgsError(splitDiffArgs(words)),
         Args(splitDiffArgs(words)).limit > 0
  PROVE  LET a == Args(splitDiffArgs(words))
         IN  a.limit \in 1 .. MaxInt /\ a.limit \in Limits /\ a.includeUnchanged \in BOOLEAN
<1> DEFINE split == splitDiffArgs(words)
           a == Args(split)
           text == Setting(split.set, "limit", NoFlag)
<1>1. split.set \in Seq(SetFlag) /\ \A i \in DOMAIN split.set : split.set[i] \in SetFlag
  <2>1. words \in Seq(Word)
    BY DiffAssumption
  <2>2. split \in Split
    BY <2>1, SplitTyped
  <2> HIDE DEF split
  <2> QED
    BY <2>2 DEF Split
<1> HIDE DEF split
<1>2. a.limit = IF text = NoFlag THEN DefaultLimit ELSE ParseInt[text]
  BY DEF Args
<1>3. a.includeUnchanged = Setting(split.set, "include-unchanged", FALSE)
  BY DEF Args
<1>4. text = NoFlag \/ text \in DOMAIN ParseInt
  <2>1. \A i \in DOMAIN split.set : split.set[i].kind = "limit" => split.set[i].value \in DOMAIN ParseInt
    BY DEF ArgsError, split
  <2> QED
    BY <1>1, <2>1, SettingMeans
<1>5. a.includeUnchanged \in BOOLEAN
  <2>1. \A i \in DOMAIN split.set : split.set[i].kind = "include-unchanged" => split.set[i].value = TRUE
    BY <1>1 DEF SetFlag
  <2>2. a.includeUnchanged = FALSE \/ a.includeUnchanged = TRUE
    <3>0. \A zero : \/ Setting(split.set, "include-unchanged", zero) = zero
                    \/ \E i \in DOMAIN split.set :
                         /\ split.set[i].kind = "include-unchanged"
                         /\ Setting(split.set, "include-unchanged", zero) = split.set[i].value
      BY <1>1, SettingMeans
    <3>1. \/ Setting(split.set, "include-unchanged", FALSE) = FALSE
          \/ \E i \in DOMAIN split.set : /\ split.set[i].kind = "include-unchanged"
                                        /\ Setting(split.set, "include-unchanged", FALSE) = split.set[i].value
      BY <3>0, Zenon
    <3> QED
      BY <1>3, <2>1, <3>1, Zenon
  <2> QED
    BY <2>2
<1> HIDE DEF text
<1>6. a.limit \in Limits /\ a.limit \in -MaxInt - 1 .. MaxInt
  <2>1. /\ DefaultLimit \in 1 .. MaxInt /\ MaxInt \in Nat
        /\ \A s \in DOMAIN ParseInt : ParseInt[s] \in -MaxInt - 1 .. MaxInt
    BY DiffAssumption
  <2> QED
    BY <1>2, <1>4, <2>1 DEF Limits
<1>7. a.limit > 0 /\ MaxInt \in Nat
  BY DiffAssumption DEF split
<1> QED
  BY <1>5, <1>6, <1>7 DEF split

-----------------------------------------------------------------------------
(***************************************************************************)
(* The product of the dimensions, and the limit it is held against.        *)
(***************************************************************************)
Int64 == -MaxInt - 1 .. MaxInt

\* What Wrap yields is an int64, and an int64 is left alone.
LEMMA WrapMeans ==
  /\ \A x \in Int : Wrap(x) \in Int64
  /\ \A x \in 0 .. MaxInt : Wrap(x) = x
<1> DEFINE m == 2 * MaxInt + 2
<1>1. MaxInt \in Nat \ {0} /\ m \in Nat \ {0} /\ m = MaxInt + MaxInt + 2
  BY DiffAssumption
<1> HIDE DEF m
<1>2. \A x \in Int : x % m \in 0 .. m - 1
  BY <1>1
<1>3. \A x \in 0 .. MaxInt : x % m = x
  BY <1>1
<1>4. \A x \in Int : Wrap(x) = IF x % m <= MaxInt THEN x % m ELSE (x % m) - m
  BY DEF Wrap, m
<1>5. \A y \in 0 .. m - 1 : (IF y <= MaxInt THEN y ELSE y - m) \in Int64
  BY <1>1 DEF Int64
<1>6. ASSUME NEW x \in Int PROVE Wrap(x) \in Int64
  BY <1>2, <1>4, <1>5
<1>7. ASSUME NEW x \in 0 .. MaxInt PROVE Wrap(x) = x
  <2>1. x \in Int /\ x <= MaxInt
    BY <1>1
  <2> QED
    BY <2>1, <1>3, <1>4
<1> QED
  BY <1>6, <1>7

\* One dimension more.
Multiplied(acc, dim, max) ==
  LET p == Wrap(acc.p * Len(dim))
  IN  IF acc.exceeded \/ acc.p = 0 THEN acc
      ELSE IF dim = << >> THEN [p |-> 0, exceeded |-> FALSE]
      ELSE [p |-> p, exceeded |-> p > max]

Products(f, dims, max) ==
  f = [i \in 0 .. Len(dims) |->
         IF i = 0 THEN [p |-> 1, exceeded |-> FALSE] ELSE Multiplied(f[i - 1], dims[i], max)]

\* The loop of product has a trace.
LEMMA ProductRuns ==
  ASSUME NEW dims \in Lists, NEW max \in Int
  PROVE  \E f : /\ Products(f, dims, max)
                /\ product(dims, max) = f[Len(dims)]
                /\ f \in [0 .. Len(dims) -> [p : Int64, exceeded : BOOLEAN]]
<1> DEFINE n == Len(dims)
           S == [p : Int64, exceeded : BOOLEAN]
           first == [p |-> 1, exceeded |-> FALSE]
           step == [q \in S \X (1 .. n) |-> Multiplied(q[1], dims[q[2]], max)]
<1>1. n \in Nat /\ \A i \in 1 .. n : Len(dims[i]) \in Nat
  BY DEF Lists
<1>2. MaxInt \in Nat \ {0} /\ 0 \in Int64 /\ 1 \in Int64 /\ Int64 \subseteq Int
  BY DiffAssumption DEF Int64
<1>3. first \in S
  BY <1>2
<1>4. \A acc \in S, i \in 1 .. n : Multiplied(acc, dims[i], max) \in S
  <2>1. TAKE acc \in S, i \in 1 .. n
  <2>2. acc.p \in Int /\ Len(dims[i]) \in Int
    <3>1. acc.p \in Int64
      OBVIOUS
    <3> HIDE DEF S
    <3>2. acc.p \in Int
      BY <3>1, <1>2
    <3>3. Len(dims[i]) \in Int
      BY <1>1
    <3> QED
      BY <3>2, <3>3
  <2>3. acc.p * Len(dims[i]) \in Int
    <3>1. \A x, y \in Int : x * y \in Int
      OBVIOUS
    <3> QED
      BY <2>2, <3>1
  <2> DEFINE p == Wrap(acc.p * Len(dims[i]))
  <2>4. p \in Int64
    BY <2>3, WrapMeans
  <2>5. Multiplied(acc, dims[i], max) = IF acc.exceeded \/ acc.p = 0 THEN acc
                                        ELSE IF dims[i] = << >> THEN [p |-> 0, exceeded |-> FALSE]
                                        ELSE [p |-> p, exceeded |-> p > max]
    BY DEF Multiplied
  <2> HIDE DEF p
  <2>6. (p > max) \in BOOLEAN
    OBVIOUS
  <2>7. [p |-> p, exceeded |-> p > max] \in S /\ [p |-> 0, exceeded |-> FALSE] \in S
    BY <1>2, <2>4, <2>6
  <2> QED
    BY <2>5, <2>7
<1>5. step \in [S \X (1 .. n) -> S]
  BY <1>4
<1> HIDE DEF first, S
<1>6. PICK f : Runs(f, n, S, first, step)
  <2> HIDE DEF step, n
  <2> QED
    BY <1>1, <1>3, <1>5, LoopExists
<1>7. f \in [0 .. n -> S] /\ f[0] = first /\ \A i \in 1 .. n : f[i] = step[<<f[i - 1], i>>]
  BY <1>6 DEF Runs
<1>8. \A i \in 1 .. n : f[i] = Multiplied(f[i - 1], dims[i], max)
  <2>1. TAKE i \in 1 .. n
  <2>2. f[i - 1] \in S
    BY <1>1, <1>7
  <2>3. <<f[i - 1], i>> \in S \X (1 .. n)
    BY <2>2
  <2> QED
    BY <2>3, <1>7
<1>9. Products(f, dims, max)
  <2>1. \A i \in 0 .. n : i /= 0 => i \in 1 .. n
    BY <1>1
  <2> QED
    BY <2>1, <1>7, <1>8 DEF Products, first
<1>10. product(dims, max) = (CHOOSE g : Products(g, dims, max))[n]
  BY DEF product, Products, Multiplied
<1> DEFINE h == CHOOSE g : Products(g, dims, max)
<1>11. Products(h, dims, max)
  BY <1>9
<1> HIDE DEF h
<1>12. h \in [0 .. n -> S]
  <2>1. /\ h[0] = first /\ DOMAIN h = 0 .. n
        /\ \A i \in 1 .. n : h[i] = Multiplied(h[i - 1], dims[i], max)
        /\ h = [i \in 0 .. n |-> h[i]]
    <3>1. h = [i \in 0 .. n |-> IF i = 0 THEN first ELSE Multiplied(h[i - 1], dims[i], max)]
      BY <1>11 DEF Products, first
    <3>2. \A i \in 1 .. n : i \in 0 .. n /\ i /= 0
      BY <1>1
    <3>3. 0 \in 0 .. n
      BY <1>1
    <3> HIDE DEF n
    <3>4. DOMAIN h = 0 .. n /\ h[0] = first
      BY <3>1, <3>3
    <3>5. \A i \in 1 .. n : h[i] = Multiplied(h[i - 1], dims[i], max)
      BY <3>1, <3>2
    <3>6. h = [i \in 0 .. n |-> h[i]]
      BY <3>1
    <3> QED
      BY <3>4, <3>5, <3>6
  <2> DEFINE bad == {m \in 0 .. n : h[m] \notin S}
  <2>2. bad = {}
    <3>1. SUFFICES ASSUME bad /= {} PROVE FALSE
      OBVIOUS
    <3>2. bad \in SUBSET Nat
      OBVIOUS
    <3>3. PICK m \in bad : \A l \in bad : m <= l
      BY <3>1, <3>2, LeastExists
    <3>4. m \in 1 .. n /\ m - 1 \in 0 .. n /\ m - 1 \notin bad
      BY <1>1, <1>3, <3>3, <2>1
    <3>5. h[m] \in S
      BY <3>4, <2>1, <1>4 DEF S
    <3> QED
      BY <3>3, <3>5
  <2> QED
    BY <2>1, <2>2
<1> QED
  BY <1>10, <1>11, <1>12 DEF h, S

(***************************************************************************)
(* When max times the size of each dimension fits an int64, product is the *)
(* number of tuples, unless it says that there are more than max.          *)
(***************************************************************************)
LEMMA ProductMeans ==
  ASSUME NEW dims \in Lists, \A i \in 1 .. Len(dims) : dims[i] /= << >>,
         NEW max \in 1 .. MaxInt, \A i \in 1 .. Len(dims) : max * Len(dims[i]) <= MaxInt
  PROVE  LET r == product(dims, max)
             size == Cardinality(Box(dims))
         IN  /\ r.exceeded => size > max
             /\ ~r.exceeded => r.p = size /\ size <= max
<1> DEFINE n == Len(dims)
           size(k) == Cardinality(BoxUpTo(dims, k))
<1>1. MaxInt \in Nat /\ max \in Nat \ {0} /\ n \in Nat
  BY DiffAssumption DEF Lists
<1>2. /\ \A k \in 0 .. n : size(k) \in Nat /\ size(k) >= 1
      /\ \A k \in 1 .. n : /\ Len(dims[k]) \in Nat \ {0}
                           /\ size(k) = size(k - 1) * Len(dims[k])
                           /\ size(k) >= size(k - 1)
  <2>1. \A k \in 1 .. n : k \in 0 .. n /\ k > 0
    BY <1>1
  <2> QED
    BY <2>1, BoxMonotone, BoxFinite
<1>3. size(0) = 1
  BY BoxOfNone
<1> HIDE DEF size
<1>4. PICK f : Products(f, dims, max) /\ product(dims, max) = f[n]
  BY <1>1, ProductRuns
<1>5. /\ f[0] = [p |-> 1, exceeded |-> FALSE]
      /\ \A i \in 1 .. n : f[i] = Multiplied(f[i - 1], dims[i], max)
  <2>1. 0 \in 0 .. n /\ \A i \in 1 .. n : i \in 0 .. n /\ i /= 0
    BY <1>1
  <2> QED
    BY <1>4, <2>1 DEF Products
<1> DEFINE good(i) == /\ f[i].exceeded => size(i) > max
                      /\ ~f[i].exceeded => f[i].p = size(i) /\ size(i) <= max
           bad == {i \in 0 .. n : ~good(i)}
<1>6. bad = {}
  <2>1. SUFFICES ASSUME bad /= {} PROVE FALSE
    OBVIOUS
  <2>2. bad \in SUBSET Nat
    OBVIOUS
  <2>3. PICK i \in bad : \A l \in bad : i <= l
    BY <2>1, <2>2, LeastExists
  <2>4. good(0)
    BY <1>1, <1>3, <1>5
  <2>5. i \in 1 .. n /\ i - 1 \in 0 .. n /\ i - 1 \notin bad
    BY <1>1, <2>3, <2>4
  <2>6. good(i - 1)
    BY <2>5
  <2> DEFINE acc == f[i - 1]
             p == Wrap(acc.p * Len(dims[i]))
  <2>7. f[i] = Multiplied(acc, dims[i], max)
    BY <1>5, <2>5
  <2>8. /\ size(i) \in Nat /\ size(i - 1) \in Nat /\ size(i - 1) >= 1
        /\ Len(dims[i]) \in Nat \ {0} /\ size(i) = size(i - 1) * Len(dims[i])
        /\ size(i) >= size(i - 1)
    BY <1>2, <2>5
  <2> HIDE DEF acc
  <2>9. CASE acc.exceeded
    <3>1. f[i] = acc
      BY <2>7, <2>9 DEF Multiplied
    <3>2. size(i - 1) > max
      BY <2>6, <2>9 DEF acc
    <3> HIDE DEF bad
    <3>3. good(i)
      BY <3>1, <3>2, <2>8, <2>9, <1>1
    <3> QED
      BY <3>3, <2>3 DEF bad
  <2>10. CASE ~acc.exceeded
    <3>1. acc.p = size(i - 1) /\ size(i - 1) <= max
      BY <2>6, <2>10 DEF acc
    <3>2. size(i) <= MaxInt
      <4>1. max * Len(dims[i]) <= MaxInt
        BY <2>5
      <4>2. \A x, y, z \in Nat : x <= y => x * z <= y * z
        OBVIOUS
      <4>3. size(i - 1) * Len(dims[i]) <= max * Len(dims[i])
        BY <4>2, <3>1, <2>8, <1>1
      <4>4. max * Len(dims[i]) \in Nat
        <5>1. \A x, y \in Nat : x * y \in Nat
          OBVIOUS
        <5> QED
          BY <5>1, <2>8, <1>1
      <4> QED
        BY <4>1, <4>3, <4>4, <2>8, <1>1
    <3>3. p = size(i)
      <4>1. acc.p * Len(dims[i]) = size(i) /\ size(i) \in 0 .. MaxInt
        BY <3>1, <3>2, <2>8, <1>1
      <4> QED
        BY <4>1, WrapMeans
    <3>4. f[i] = [p |-> p, exceeded |-> p > max]
      <4>1. acc.p /= 0
        BY <3>1, <2>8
      <4>2. dims[i] /= << >>
        BY <2>5
      <4> QED
        BY <2>7, <2>10, <4>1, <4>2 DEF Multiplied
    <3> HIDE DEF p, bad
    <3>5. f[i].p = size(i) /\ (f[i].exceeded <=> size(i) > max)
      <4>1. f[i].p = p /\ f[i].exceeded = (p > max)
        BY <3>4
      <4> QED
        BY <4>1, <3>3, Zenon
    <3>6. good(i)
      BY <3>5, <2>8, <1>1
    <3> QED
      BY <3>6, <2>3 DEF bad
  <2> QED
    BY <2>9, <2>10
<1>7. good(n)
  BY <1>1, <1>6
<1> QED
  BY <1>4, <1>7 DEF size, Box

-----------------------------------------------------------------------------
(***************************************************************************)
(* The two files, their tuples and the kinds of these.                     *)
(***************************************************************************)
\* What a path opens when nothing is wrong with it.
LEMMA OpenedMeans ==
  ASSUME NEW i, Opened(i).err = "nil"
  PROVE  /\ args.paths[i] \in DOMAIN Paths
         /\ FileLoads(File(i)) /\ Decoded(File(i).content)
         /\ Opened(i).cfg = EngineOf(File(i).content)
<1> DEFINE path == args.paths[i]
           opts == <<[kind |-> "analysisLimit", value |-> -1]>>
<1>1. path \in DOMAIN Paths /\ Opened(i) = AllLoaded[path]
  <2>1. Opened(i) = IF path \in DOMAIN Paths THEN AllLoaded[path] ELSE Refused("unreadable")
    BY DEF Opened
  <2>2. Refused("unreadable").err = "unreadable"
    BY DEF Refused
  <2> QED
    BY <2>1, <2>2
<1>2. Opened(i) = LoadFileWithOptions(File(i), opts)
  BY <1>1 DEF AllLoaded, File
<1>3. SettingsOnly(opts)
  <2>1. Range(opts) = {[kind |-> "analysisLimit", value |-> -1]}
    BY DEF Range
  <2>2. opts \in Seq({[kind |-> "analysisLimit", value |-> -1]})
    OBVIOUS
  <2> HIDE DEF opts
  <2> QED
    BY <2>1, <2>2 DEF SettingsOnly
<1> HIDE DEF opts
<1>4. IsFile(File(i))
  BY <1>1, DiffAssumption DEF File
<1>5. FileLoads(File(i)) /\ Opened(i).cfg = EngineOf(File(i).content)
  BY <1>2, <1>3, <1>4, LoadMeans
<1>6. Decoded(File(i).content)
  BY <1>4, <1>5 DEF IsFile, FileLoads
<1> QED
  BY <1>1, <1>5, <1>6

\* The dimensions of comparable files.
LEMMA ComparableMeans ==
  ASSUME Comparable
  PROVE  /\ DiffDims \in Lists
         /\ \A k \in 1 .. Len(DiffDims) : DiffDims[k] /= << >>
         /\ \A i \in {1, 2} : /\ FileLoads(File(i)) /\ Decoded(File(i).content)
                              /\ Opened(i).cfg = EngineOf(File(i).content)
                              /\ Opened(i).cfg.dims = DiffDims
         /\ args.paths[1] \in DOMAIN Paths
         /\ Len(File(1).content.dims) = Len(DiffDims)
         /\ \A k \in 1 .. Len(DiffDims) : DiffDims[k] = File(1).content.dims[k].values
<1>1. Opened(1).err = "nil" /\ Opened(2).err = "nil" /\ DiffDims = Opened(2).cfg.dims
  BY DEF Comparable, dimensionsCompatible
<1>2. \A i \in {1, 2} : /\ FileLoads(File(i)) /\ Decoded(File(i).content)
                        /\ Opened(i).cfg = EngineOf(File(i).content)
                        /\ Opened(i).cfg.dims = DiffDims
  BY <1>1, OpenedMeans DEF DiffDims
<1>3. args.paths[1] \in DOMAIN Paths
  BY <1>1, OpenedMeans
<1> DEFINE content == File(1).content
<1>4. Decoded(content) /\ FileLoads(File(1)) /\ DiffDims = EngineOf(content).dims
  <2>1. Opened(1).cfg = EngineOf(content)
    BY <1>2
  <2> QED
    BY <1>2, <2>1 DEF DiffDims
<1>5. /\ DiffDims \in Lists /\ Len(DiffDims) = Len(content.dims)
      /\ \A k \in 1 .. Len(DiffDims) : DiffDims[k] = content.dims[k].values
  BY <1>4, EngineOfMeans DEF Lists
<1>6. \A k \in 1 .. Len(content.dims) : content.dims[k].values /= << >>
  BY <1>4, DecodedFacts DEF FileLoads
<1> QED
  BY <1>2, <1>3, <1>5, <1>6

\* The positions of the model are those of the box.
LEMMA PositionsAreBox ==
  ASSUME DiffDims \in Lists
  PROVE  Positions = Box(DiffDims)
<1> DEFINE n == Len(DiffDims)
           U == UNION {DOMAIN DiffDims[i] : i \in DOMAIN DiffDims}
<1>1. /\ n \in Nat /\ DOMAIN DiffDims = 1 .. n
      /\ \A i \in 1 .. n : DOMAIN DiffDims[i] = 1 .. Len(DiffDims[i]) /\ Len(DiffDims[i]) \in Nat
  BY DEF Lists
<1>2. \A at : at \in Positions <=> /\ at \in [1 .. n -> U]
                                  /\ \A i \in 1 .. n : at[i] \in 1 .. Len(DiffDims[i])
  BY <1>1 DEF Positions
<1>3. \A at : at \in Box(DiffDims) <=> /\ at \in [1 .. n -> Nat]
                                      /\ \A i \in 1 .. n : at[i] \in 1 .. Len(DiffDims[i])
  BY DEF Box, BoxUpTo
<1>4. U \subseteq Nat
  BY <1>1
<1>5. \A i \in 1 .. n : 1 .. Len(DiffDims[i]) \subseteq U
  BY <1>1
<1> HIDE DEF U, n
<1>6. ASSUME NEW at \in Positions PROVE at \in Box(DiffDims)
  BY <1>2, <1>3, <1>4, <1>6
<1>7. ASSUME NEW at \in Box(DiffDims) PROVE at \in Positions
  BY <1>2, <1>3, <1>5, <1>7
<1> QED
  BY <1>6, <1>7

\* How the two engines' explanations classify a tuple.
KindOf(at) == classifyTransition(Explain(1, TupleAt(at)), Explain(2, TupleAt(at)))

(***************************************************************************)
(* Explain says of a file that loads what a reader of it finds: whether it *)
(* allows, and by which rule.                                              *)
(***************************************************************************)
LEMMA ExplainMeans ==
  ASSUME NEW i, FileLoads(File(i)), Decoded(File(i).content),
         Opened(i).cfg = EngineOf(File(i).content), NEW at
  PROVE  LET x == Explain(i, TupleAt(at))
         IN  /\ x.ok \in BOOLEAN /\ (x.ok <=> Allows(i, at))
             /\ x.index = noMatch => x.name = NoName /\ Decider(i, at) = {}
             /\ x.index /= noMatch => Decider(i, at) = {<<x.index + 1, x.name>>}
             /\ x.index \in Int
<1> DEFINE t == TupleAt(at)
           c == EngineOf(File(i).content)
           j == FirstMatching(c, t)
           x == Explain(i, t)
           rules == File(i).content.rules
           admitting == {k \in DOMAIN rules : RuleAdmits(rules[k], File(i).content.dims, t)}
<1>1. x = [ok |-> j /= noMatch /\ Rule(c, j).act = "ALLOW",
           index |-> j,
           name |-> IF j = noMatch THEN NoName ELSE rules[j + 1].name]
  BY DEF Explain, FirstMatching
<1>2. /\ j = noMatch => admitting = {}
      /\ j /= noMatch => /\ j \in RuleIndexes(c) /\ j + 1 \in admitting
                         /\ \A k \in admitting : j + 1 <= k
      /\ FileAllows(File(i).content, t) <=> j /= noMatch /\ Rule(c, j).act = "ALLOW"
  BY ScanMeans
<1>3. Decider(i, at) = {<<k, rules[k].name>> : k \in {k \in admitting : \A l \in admitting : k <= l}}
  BY DEF Decider
<1>4. admitting \subseteq Nat
  BY DecodedFacts
<1>5. j \in Int
  BY <1>2 DEF RuleIndexes, noMatch
<1> HIDE DEF admitting, j, x, t, c
<1>6. x.ok \in BOOLEAN /\ (x.ok <=> Allows(i, at)) /\ x.index = j
  BY <1>1, <1>2 DEF Allows, t
<1>7. ASSUME j = noMatch PROVE x.name = NoName /\ Decider(i, at) = {}
  BY <1>1, <1>2, <1>3, <1>7
<1>8. ASSUME j /= noMatch PROVE Decider(i, at) = {<<j + 1, x.name>>}
  <2>1. x.name = rules[j + 1].name
    BY <1>1, <1>8
  <2>2. {k \in admitting : \A l \in admitting : k <= l} = {j + 1}
    <3>1. j + 1 \in admitting /\ \A k \in admitting : j + 1 <= k
      BY <1>2, <1>8
    <3>2. \A k \in admitting : (\A l \in admitting : k <= l) => k = j + 1
      BY <1>4, <1>5, <3>1
    <3> QED
      BY <3>1, <3>2
  <2> QED
    BY <2>1, <2>2, <1>3
<1> QED
  BY <1>5, <1>6, <1>7, <1>8 DEF x, t

(***************************************************************************)
(* The kind diff gives a tuple is the one the files give it, and the only  *)
(* one.                                                                    *)
(***************************************************************************)
LEMMA Classified ==
  ASSUME Comparable, NEW at
  PROVE  /\ KindOf(at) \in Kinds
         /\ \A k \in Kinds : InKind(k, at) <=> k = KindOf(at)
<1> DEFINE o == Explain(1, TupleAt(at))
           x == Explain(2, TupleAt(at))
<1>1. /\ o.ok \in BOOLEAN /\ (o.ok <=> Allows(1, at))
      /\ o.index = noMatch => o.name = NoName /\ Decider(1, at) = {}
      /\ o.index /= noMatch => Decider(1, at) = {<<o.index + 1, o.name>>}
      /\ o.index \in Int
  BY ComparableMeans, ExplainMeans
<1>2. /\ x.ok \in BOOLEAN /\ (x.ok <=> Allows(2, at))
      /\ x.index = noMatch => x.name = NoName /\ Decider(2, at) = {}
      /\ x.index /= noMatch => Decider(2, at) = {<<x.index + 1, x.name>>}
      /\ x.index \in Int
  BY ComparableMeans, ExplainMeans
<1>3. KindOf(at) = classifyTransition(o, x)
  BY DEF KindOf
<1> HIDE DEF o, x
<1>4. Decider(1, at) = Decider(2, at) <=> o.index = x.index /\ o.name = x.name
  <2>1. CASE o.index = noMatch /\ x.index = noMatch
    BY <1>1, <1>2, <2>1
  <2>2. CASE o.index = noMatch /\ x.index /= noMatch
    BY <1>1, <1>2, <2>2
  <2>3. CASE o.index /= noMatch /\ x.index = noMatch
    BY <1>1, <1>2, <2>3
  <2>4. CASE o.index /= noMatch /\ x.index /= noMatch
    <3>1. Decider(1, at) = Decider(2, at) <=> <<o.index + 1, o.name>> = <<x.index + 1, x.name>>
      BY <1>1, <1>2, <2>4
    <3>2. o.index + 1 = x.index + 1 <=> o.index = x.index
      BY <1>1, <1>2
    <3> QED
      BY <3>1, <3>2
  <2> QED
    BY <2>1, <2>2, <2>3, <2>4
<1>5. \A i \in {1, 2} : Allows(i, at) \in BOOLEAN
  BY DEF Allows, FileAllows
<1>6. o.ok = Allows(1, at) /\ x.ok = Allows(2, at)
  BY <1>1, <1>2, <1>5
<1> DEFINE same == Decider(1, at) = Decider(2, at)
<1>7. KindOf(at) = CASE o.ok /\ ~x.ok -> "ALLOW_TO_DENY"
                     [] ~o.ok /\ x.ok -> "DENY_TO_ALLOW"
                     [] o.ok = x.ok /\ ~same -> "RULE_CHANGED"
                     [] OTHER -> "UNCHANGED"
  BY <1>3, <1>4 DEF classifyTransition
<1>8. /\ InKind("ALLOW_TO_DENY", at) <=> o.ok /\ ~x.ok
      /\ InKind("DENY_TO_ALLOW", at) <=> ~o.ok /\ x.ok
      /\ InKind("RULE_CHANGED", at) <=> o.ok = x.ok /\ ~same
      /\ InKind("UNCHANGED", at) <=> same /\ o.ok = x.ok
  BY <1>6 DEF InKind
<1> HIDE DEF same
<1>9. CASE o.ok /\ ~x.ok
  BY <1>1, <1>2, <1>7, <1>8, <1>9 DEF Kinds
<1>10. CASE ~o.ok /\ x.ok
  BY <1>1, <1>2, <1>7, <1>8, <1>10 DEF Kinds
<1>11. CASE o.ok = x.ok /\ ~same
  BY <1>1, <1>2, <1>7, <1>8, <1>11 DEF Kinds
<1>12. CASE o.ok = x.ok /\ same
  BY <1>1, <1>2, <1>7, <1>8, <1>12 DEF Kinds
<1> QED
  BY <1>1, <1>2, <1>9, <1>10, <1>11, <1>12

-----------------------------------------------------------------------------
(***************************************************************************)
(* Counting: one tuple more, one row more, and rows in another order.      *)
(***************************************************************************)
OfKind(S, k) == {at \in S : InKind(k, at)}

Row == [tuple : Seq(Value), kind : Kinds]

\* The places of the rows of a kind.
Rows(ts, k) == {i \in DOMAIN ts : ts[i].kind = k}

\* One tuple more adds one to its kind and nothing to the others.
LEMMA OneMore ==
  ASSUME NEW S, IsFiniteSet(S), NEW x, x \notin S, NEW k
  PROVE  /\ Cardinality(OfKind(S, k)) \in Nat
         /\ InKind(k, x) => Cardinality(OfKind(S \cup {x}, k)) = Cardinality(OfKind(S, k)) + 1
         /\ ~InKind(k, x) => OfKind(S \cup {x}, k) = OfKind(S, k)
<1>1. IsFiniteSet(OfKind(S, k)) /\ x \notin OfKind(S, k)
  <2>1. OfKind(S, k) \subseteq S
    BY DEF OfKind
  <2> QED
    BY <2>1, FS_Subset
<1>2. Cardinality(OfKind(S, k)) \in Nat
  BY <1>1, FS_CardinalityType
<1>3. ASSUME InKind(k, x) PROVE Cardinality(OfKind(S \cup {x}, k)) = Cardinality(OfKind(S, k)) + 1
  <2>1. OfKind(S \cup {x}, k) = OfKind(S, k) \cup {x}
    BY <1>3 DEF OfKind
  <2> QED
    BY <1>1, <2>1, FS_AddElement
<1>4. ASSUME ~InKind(k, x) PROVE OfKind(S \cup {x}, k) = OfKind(S, k)
  BY <1>4 DEF OfKind
<1> QED
  BY <1>2, <1>3, <1>4

\* The rows of a kind are finitely many.
LEMMA RowsFinite ==
  ASSUME NEW ts \in Seq(Row), NEW k
  PROVE  IsFiniteSet(Rows(ts, k)) /\ Cardinality(Rows(ts, k)) \in Nat
<1>1. Len(ts) \in Nat /\ DOMAIN ts = 1 .. Len(ts)
  OBVIOUS
<1>2. IsFiniteSet(1 .. Len(ts))
  <2>1. 1 \in Int /\ Len(ts) \in Int
    BY <1>1
  <2> QED
    BY <2>1, FS_Interval
<1>3. Rows(ts, k) \subseteq 1 .. Len(ts)
  BY <1>1 DEF Rows
<1>4. IsFiniteSet(Rows(ts, k))
  BY <1>2, <1>3, FS_Subset
<1> QED
  BY <1>4, FS_CardinalityType

\* One row more adds one to its kind and nothing to the others.
LEMMA OneRowMore ==
  ASSUME NEW ts \in Seq(Row), NEW e \in Row, NEW k
  PROVE  /\ e.kind = k => Cardinality(Rows(Append(ts, e), k)) = Cardinality(Rows(ts, k)) + 1
         /\ e.kind /= k => Rows(Append(ts, e), k) = Rows(ts, k)
<1> DEFINE m == Len(ts)
           us == Append(ts, e)
<1>1. /\ m \in Nat /\ DOMAIN ts = 1 .. m /\ DOMAIN us = 1 .. m + 1
      /\ \A i \in 1 .. m : us[i] = ts[i]
      /\ us[m + 1] = e
  OBVIOUS
<1> HIDE DEF us, m
<1>2. \A i \in 1 .. m + 1 : i \in 1 .. m \/ i = m + 1
  BY <1>1
<1>3. m + 1 \notin 1 .. m /\ m + 1 \in 1 .. m + 1 /\ \A i \in 1 .. m : i \in 1 .. m + 1
  BY <1>1
<1>4. ASSUME e.kind = k PROVE Cardinality(Rows(us, k)) = Cardinality(Rows(ts, k)) + 1
  <2>1. Rows(us, k) = Rows(ts, k) \cup {m + 1}
    BY <1>1, <1>2, <1>3, <1>4 DEF Rows
  <2>2. m + 1 \notin Rows(ts, k)
    BY <1>1, <1>3 DEF Rows
  <2> QED
    BY <2>1, <2>2, RowsFinite, FS_AddElement
<1>5. ASSUME e.kind /= k PROVE Rows(us, k) = Rows(ts, k)
  BY <1>1, <1>2, <1>3, <1>5 DEF Rows
<1> QED
  BY <1>4, <1>5 DEF us

\* Sorting keeps the rows of each kind and puts the kinds in order.
LEMMA SortedMeans ==
  ASSUME NEW ts \in Seq(Row), NEW sorted \in sortTransitions(ts)
  PROVE  /\ sorted \in Seq(Row) /\ Len(sorted) = Len(ts)
         /\ \A k : Cardinality(Rows(sorted, k)) = Cardinality(Rows(ts, k))
         /\ \A i, j \in DOMAIN sorted : i < j => rank(sorted[i].kind) <= rank(sorted[j].kind)
<1> DEFINE D == DOMAIN ts
<1>1. Len(ts) \in Nat /\ D = 1 .. Len(ts) /\ \A i \in D : ts[i] \in Row
  OBVIOUS
<1>2. PICK p \in Bijection(D, D) : Sorting(ts, p) /\ sorted = [i \in D |-> ts[p[i]]]
  BY DEF sortTransitions
<1>3. /\ p \in [D -> D] /\ \A a, b \in D : p[a] = p[b] => a = b
      /\ \A j \in D : \E i \in D : p[i] = j
  BY <1>2 DEF Bijection, Injection, Surjection, IsInjective
<1> HIDE DEF D
<1>4. DOMAIN sorted = D /\ \A i \in D : sorted[i] = ts[p[i]] /\ sorted[i] \in Row
  <2>1. \A i \in D : p[i] \in D
    BY <1>3
  <2>2. DOMAIN sorted = D /\ \A i \in D : sorted[i] = ts[p[i]]
    BY <1>2 DEF D
  <2>3. \A j \in D : ts[j] \in Row
    BY <1>1
  <2> QED
    BY <2>1, <2>2, <2>3
<1>5. sorted \in Seq(Row) /\ Len(sorted) = Len(ts)
  <2>1. sorted = [i \in 1 .. Len(ts) |-> sorted[i]]
    BY <1>1, <1>2, <1>4
  <2>2. \A i \in 1 .. Len(ts) : sorted[i] \in Row
    BY <1>1, <1>4
  <2>3. sorted \in [1 .. Len(ts) -> Row]
    BY <2>1, <2>2
  <2> QED
    BY <1>1, <2>3
<1>6. ASSUME NEW k PROVE Cardinality(Rows(sorted, k)) = Cardinality(Rows(ts, k))
  <2> DEFINE S == Rows(sorted, k)
             T == Rows(ts, k)
             F == [i \in S |-> p[i]]
  <2>1. S \subseteq D /\ T \subseteq D /\ \A i \in D : i \in S <=> p[i] \in T
    BY <1>3, <1>4 DEF Rows, D
  <2> HIDE DEF S, T
  <2>2. F \in [S -> T]
    BY <2>1
  <2>3. \A a, b \in S : F[a] = F[b] => a = b
    BY <2>1, <1>3
  <2>4. \A j \in T : \E i \in S : F[i] = j
    BY <2>1, <1>3
  <2> HIDE DEF F
  <2>5. F \in Bijection(S, T)
    BY <2>2, <2>3, <2>4 DEF Bijection, Injection, Surjection, IsInjective
  <2>6. IsFiniteSet(S)
    BY <1>5, RowsFinite DEF S
  <2>7. Cardinality(T) = Cardinality(S)
    BY <2>5, <2>6, FS_Bijection DEF ExistsBijection
  <2> QED
    BY <2>7 DEF S, T
<1>7. ASSUME NEW i \in D, NEW j \in D, i < j PROVE rank(sorted[i].kind) <= rank(sorted[j].kind)
  <2> DEFINE a == sorted[i]
             b == sorted[j]
  <2>1. less(a, b) \/ ~less(b, a)
    BY <1>2, <1>4, <1>7 DEF Sorting, D
  <2>2. a.kind \in Kinds /\ b.kind \in Kinds
    BY <1>4 DEF Row
  <2> HIDE DEF a, b
  <2>3. rank(a.kind) \in Int /\ rank(b.kind) \in Int
    BY <2>2 DEF rank, Kinds
  <2>4. ~ (rank(b.kind) < rank(a.kind))
    BY <2>1, <2>3 DEF less
  <2> QED
    BY <2>3, <2>4 DEF a, b
<1> QED
  BY <1>4, <1>5, <1>6, <1>7

\* Places that come before all others are the first ones.
LEMMA SegmentMeans ==
  ASSUME NEW m \in Nat, NEW S \in SUBSET (1 .. m),
         \A j \in S, i \in 1 .. m : i < j => i \in S
  PROVE  S = 1 .. Cardinality(S) /\ Cardinality(S) \in 0 .. m
<1>1. CASE S = {}
  BY <1>1, FS_EmptySet
<1>2. CASE S /= {}
  <2>1. S \in SUBSET (0 .. m)
    OBVIOUS
  <2>2. PICK k \in S : \A y \in S : y <= k
    BY <1>2, <2>1, GreatestExists
  <2>3. k \in 1 .. m
    OBVIOUS
  <2>4. S = 1 .. k
    <3>1. \A i \in 1 .. k : i \in 1 .. m /\ (i < k \/ i = k)
      BY <2>3
    <3>2. \A i \in 1 .. k : i \in S
      BY <2>2, <3>1
    <3>3. \A i \in S : i \in 1 .. k
      BY <2>2
    <3> QED
      BY <3>2, <3>3
  <2>5. Cardinality(1 .. k) = k
    <3>1. 1 \in Int /\ k \in Int /\ (IF 1 > k THEN 0 ELSE k - 1 + 1) = k
      BY <2>3
    <3> QED
      BY <3>1, FS_Interval
  <2> QED
    BY <2>3, <2>4, <2>5
<1> QED
  BY <1>1, <1>2

-----------------------------------------------------------------------------
(***************************************************************************)
(* The rows of the text report.                                            *)
(***************************************************************************)
Lesser(x, y) == IF x < y THEN x ELSE y

ShownUpTo(f, ts, n) ==
  f = [i \in 0 .. Len(ts) |->
         IF i = 0 THEN << >>
         ELSE IF ts[i].kind = "UNCHANGED" \/ Len(f[i - 1]) >= n THEN f[i - 1]
         ELSE Append(f[i - 1], ts[i])]

(***************************************************************************)
(* When the unchanged rows come last, those shown are the first n of the   *)
(* others.                                                                 *)
(***************************************************************************)
LEMMA ShownMeans ==
  ASSUME NEW ts \in Seq(Row), NEW n \in Nat, NEW c \in 0 .. Len(ts),
         \A i \in DOMAIN ts : ts[i].kind = "UNCHANGED" <=> i > c
  PROVE  shown(ts, n) = [j \in 1 .. Lesser(n, c) |-> ts[j]]
<1> DEFINE m == Len(ts)
           cap(i) == Lesser(n, Lesser(i, c))
           first(k) == [j \in 1 .. k |-> ts[j]]
           f == [i \in 0 .. m |-> first(cap(i))]
           next(acc, i) == IF ts[i].kind = "UNCHANGED" \/ Len(acc) >= n THEN acc ELSE Append(acc, ts[i])
<1>1. m \in Nat /\ DOMAIN ts = 1 .. m /\ c \in 0 .. m /\ \A i \in 1 .. m : ts[i] \in Row
  OBVIOUS
<1>2. \A i \in 0 .. m : cap(i) \in 0 .. m
  BY <1>1 DEF Lesser
<1>3. \A k \in 0 .. m : first(k) \in Seq(Row) /\ Len(first(k)) = k
  <2>1. TAKE k \in 0 .. m
  <2>2. \A j \in 1 .. k : ts[j] \in Row
    BY <1>1
  <2> QED
    BY <2>2
<1>4. \A k \in 0 .. m : k < m => Append(first(k), ts[k + 1]) = first(k + 1)
  <2>1. SUFFICES ASSUME NEW k \in 0 .. m, k < m
                 PROVE  Append(first(k), ts[k + 1]) = first(k + 1)
    OBVIOUS
  <2> DEFINE u == Append(first(k), ts[k + 1])
  <2>2. Len(first(k)) = k /\ first(k) \in Seq(Row) /\ ts[k + 1] \in Row
    BY <1>1, <1>3, <2>1
  <2>3. u \in Seq(Row) /\ Len(u) = k + 1 /\ u[k + 1] = ts[k + 1]
        /\ \A j \in 1 .. k : u[j] = first(k)[j]
    BY <2>1, <2>2
  <2>4. \A j \in 1 .. k : first(k)[j] = ts[j]
    OBVIOUS
  <2> HIDE DEF u
  <2>5. \A j \in 1 .. k + 1 : u[j] = ts[j]
    <3>1. \A j \in 1 .. k + 1 : j \in 1 .. k \/ j = k + 1
      BY <2>1
    <3> QED
      BY <2>3, <2>4, <3>1
  <2>6. u = [j \in 1 .. k + 1 |-> u[j]]
    BY <2>3
  <2> QED
    BY <2>5, <2>6 DEF u
<1>5. \A i \in 1 .. m : first(cap(i)) = next(first(cap(i - 1)), i)
  <2>1. TAKE i \in 1 .. m
  <2>2. i - 1 \in 0 .. m /\ cap(i - 1) \in 0 .. m /\ Len(first(cap(i - 1))) = cap(i - 1)
    <3>1. i - 1 \in 0 .. m
      BY <1>1
    <3> HIDE DEF cap, first
    <3>2. cap(i - 1) \in 0 .. m
      BY <3>1, <1>2
    <3> QED
      BY <3>1, <3>2, <1>3
  <2>3. CASE i > c \/ cap(i - 1) >= n
    <3>1. cap(i) = cap(i - 1)
      BY <1>1, <2>3 DEF Lesser
    <3>2. next(first(cap(i - 1)), i) = first(cap(i - 1))
      BY <1>1, <2>2, <2>3
    <3> QED
      BY <3>1, <3>2
  <2>4. CASE ~ (i > c) /\ ~ (cap(i - 1) >= n)
    <3>1. cap(i - 1) = i - 1 /\ cap(i) = (i - 1) + 1
      BY <1>1, <2>4 DEF Lesser
    <3>2. next(first(cap(i - 1)), i) = Append(first(cap(i - 1)), ts[i])
      <4>1. ts[i].kind /= "UNCHANGED"
        BY <1>1, <2>4
      <4> QED
        BY <4>1, <2>2, <2>4
    <3>3. Append(first(i - 1), ts[(i - 1) + 1]) = first((i - 1) + 1)
      BY <1>1, <1>4, <2>2
    <3>4. (i - 1) + 1 = i
      BY <1>1
    <3> HIDE DEF cap, first, next
    <3> QED
      BY <3>1, <3>2, <3>3, <3>4
  <2> QED
    BY <2>3, <2>4
<1>6. first(cap(0)) = << >>
  <2>1. cap(0) = 0
    BY <1>1 DEF Lesser
  <2>2. first(0) = << >>
    OBVIOUS
  <2> HIDE DEF cap, first
  <2> QED
    BY <2>1, <2>2
<1> HIDE DEF cap, first, next
<1>7. ShownUpTo(f, ts, n)
  <2>1. \A i \in 0 .. m : f[i] = first(cap(i))
    OBVIOUS
  <2>2. \A i \in 1 .. m : i \in 0 .. m /\ i - 1 \in 0 .. m
    BY <1>1
  <2>3. \A i \in 0 .. m : f[i] = IF i = 0 THEN << >> ELSE next(f[i - 1], i)
    <3>1. TAKE i \in 0 .. m
    <3>2. i = 0 \/ i \in 1 .. m
      BY <1>1
    <3>3. i \in 1 .. m => f[i] = next(f[i - 1], i)
      BY <2>1, <2>2, <1>5
    <3>4. 0 \in 0 .. m /\ f[0] = << >>
      BY <1>1, <1>6, <2>1
    <3>5. i \in 1 .. m => i /= 0
      BY <1>1
    <3> HIDE DEF f
    <3> QED
      BY <3>2, <3>3, <3>4, <3>5
  <2>4. f = [i \in 0 .. m |-> f[i]]
    OBVIOUS
  <2> HIDE DEF f
  <2>5. f = [i \in 0 .. m |-> IF i = 0 THEN << >> ELSE next(f[i - 1], i)]
    BY <2>3, <2>4
  <2> QED
    BY <2>5 DEF ShownUpTo, next
<1> DEFINE g == CHOOSE u : ShownUpTo(u, ts, n)
<1>8. ShownUpTo(g, ts, n) /\ shown(ts, n) = g[m]
  BY <1>7 DEF shown, ShownUpTo
<1> HIDE DEF g, f
<1>9. /\ g[0] = << >>
      /\ \A i \in 1 .. m : g[i] = next(g[i - 1], i)
  <2>1. g = [i \in 0 .. m |-> IF i = 0 THEN << >> ELSE next(g[i - 1], i)]
    BY <1>8 DEF ShownUpTo, next
  <2>2. 0 \in 0 .. m /\ \A i \in 1 .. m : i \in 0 .. m /\ i /= 0
    BY <1>1
  <2> HIDE DEF m
  <2> QED
    BY <2>1, <2>2
<1> DEFINE bad == {i \in 0 .. m : g[i] /= first(cap(i))}
<1>10. bad = {}
  <2>1. SUFFICES ASSUME bad /= {} PROVE FALSE
    OBVIOUS
  <2>2. bad \in SUBSET Nat
    OBVIOUS
  <2>3. PICK i \in bad : \A l \in bad : i <= l
    BY <2>1, <2>2, LeastExists
  <2>4. i \in 1 .. m /\ i - 1 \in 0 .. m /\ i - 1 \notin bad
    BY <1>1, <1>6, <1>9, <2>3
  <2>5. g[i] = first(cap(i))
    BY <2>4, <1>5, <1>9
  <2> QED
    BY <2>3, <2>5
<1>11. g[m] = first(cap(m)) /\ cap(m) = Lesser(n, c)
  <2>1. Lesser(m, c) = c
    BY <1>1 DEF Lesser
  <2>2. m \in 0 .. m
    BY <1>1
  <2> QED
    BY <1>10, <2>1, <2>2 DEF cap
<1> QED
  BY <1>8, <1>11 DEF first

\* Two disjoint finite sets have as many members as the one and the other.
LEMMA Disjoint ==
  ASSUME NEW S, NEW T, IsFiniteSet(S), IsFiniteSet(T), \A x \in S : x \notin T
  PROVE  IsFiniteSet(S \cup T) /\ Cardinality(S \cup T) = Cardinality(S) + Cardinality(T)
<1>1. /\ Cardinality(S) \in Nat /\ Cardinality(T) \in Nat
      /\ Cardinality(S \cap T) = 0 /\ IsFiniteSet(S \cup T)
  <2>1. S \cap T = {}
    OBVIOUS
  <2>2. Cardinality(S \cap T) = 0
    BY <2>1, FS_EmptySet
  <2> QED
    BY <2>2, FS_CardinalityType, FS_Union
<1>2. Cardinality(S \cup T) = Cardinality(S) + Cardinality(T) - Cardinality(S \cap T)
  BY FS_Union
<1> QED
  BY <1>1, <1>2

(***************************************************************************)
(* Rows in the order of their kinds: the kinds with the lower ranks fill   *)
(* the first places.                                                       *)
(***************************************************************************)
InOrder(ts) == \A i, j \in DOMAIN ts : i < j => rank(ts[i].kind) <= rank(ts[j].kind)

\* Decisions come first, unchanged tuples last.
LEMMA KindsInOrder ==
  ASSUME NEW ts \in Seq(Row), InOrder(ts),
         NEW a, a = Cardinality(Rows(ts, "ALLOW_TO_DENY")),
         NEW b, b = Cardinality(Rows(ts, "DENY_TO_ALLOW")),
         NEW r, r = Cardinality(Rows(ts, "RULE_CHANGED"))
  PROVE  /\ a \in Nat /\ b \in Nat /\ r \in Nat /\ a + b + r \in 0 .. Len(ts)
         /\ \A i \in DOMAIN ts : /\ ts[i].kind \in {"ALLOW_TO_DENY", "DENY_TO_ALLOW"} <=> i <= a + b
                                 /\ ts[i].kind = "UNCHANGED" <=> i > a + b + r
<1> DEFINE m == Len(ts)
           A == Rows(ts, "ALLOW_TO_DENY")
           B == Rows(ts, "DENY_TO_ALLOW")
           R == Rows(ts, "RULE_CHANGED")
<1>1. /\ m \in Nat /\ DOMAIN ts = 1 .. m /\ \A i \in 1 .. m : ts[i].kind \in Kinds
  <2>1. \A i \in 1 .. m : ts[i] \in Row
    OBVIOUS
  <2> QED
    BY <2>1 DEF Row
<1>2. /\ A = {i \in 1 .. m : ts[i].kind = "ALLOW_TO_DENY"}
      /\ B = {i \in 1 .. m : ts[i].kind = "DENY_TO_ALLOW"}
      /\ R = {i \in 1 .. m : ts[i].kind = "RULE_CHANGED"}
  BY <1>1 DEF Rows
<1>3. /\ IsFiniteSet(A) /\ IsFiniteSet(B) /\ IsFiniteSet(R)
      /\ a = Cardinality(A) /\ b = Cardinality(B) /\ r = Cardinality(R)
      /\ a \in Nat /\ b \in Nat /\ r \in Nat
  BY RowsFinite
<1> HIDE DEF A, B, R, m
<1>4. IsFiniteSet(A \cup B) /\ Cardinality(A \cup B) = a + b
  <2>1. \A x \in A : x \notin B
    BY <1>2
  <2> QED
    <3>1. IsFiniteSet(A \cup B) /\ Cardinality(A \cup B) = Cardinality(A) + Cardinality(B)
      BY <2>1, <1>3, Disjoint, Zenon
    <3> QED
      BY <3>1, <1>3
<1>5. Cardinality((A \cup B) \cup R) = a + b + r
  <2>1. \A x \in A \cup B : x \notin R
    BY <1>2
  <2> QED
    <3>1. Cardinality((A \cup B) \cup R) = Cardinality(A \cup B) + Cardinality(R)
      BY <2>1, <1>3, <1>4, Disjoint, Zenon
    <3> QED
      BY <3>1, <1>3, <1>4
<1>6. /\ rank("ALLOW_TO_DENY") = 0 /\ rank("DENY_TO_ALLOW") = 1
      /\ rank("RULE_CHANGED") = 2 /\ rank("UNCHANGED") = 3
  BY DEF rank
<1>7. /\ \A i, j \in 1 .. m : i < j => rank(ts[i].kind) <= rank(ts[j].kind)
      /\ \A i \in 1 .. m : rank(ts[i].kind) \in 0 .. 3
  <2>1. \A i \in 1 .. m : rank(ts[i].kind) \in 0 .. 3
    BY <1>1, <1>6 DEF Kinds
  <2> QED
    BY <2>1, <1>1 DEF InOrder
<1>8. \A j \in A \cup B, i \in 1 .. m : i < j => i \in A \cup B
  <2>1. TAKE j \in A \cup B, i \in 1 .. m
  <2>2. HAVE i < j
  <2>3. j \in 1 .. m /\ rank(ts[j].kind) \in {0, 1}
    BY <1>2, <1>6
  <2>4. rank(ts[i].kind) <= 1
    BY <1>6, <1>7, <2>2, <2>3
  <2>5. ts[i].kind \in {"ALLOW_TO_DENY", "DENY_TO_ALLOW"}
    BY <1>1, <1>6, <2>4 DEF Kinds
  <2> QED
    BY <1>2, <2>5
<1> DEFINE W == (A \cup B) \cup R
<1>9. \A j \in W, i \in 1 .. m : i < j => i \in W
  <2>1. TAKE j \in W, i \in 1 .. m
  <2>2. HAVE i < j
  <2>3. j \in 1 .. m /\ rank(ts[j].kind) \in {0, 1, 2}
    BY <1>2, <1>6
  <2>4. rank(ts[i].kind) <= 2
    BY <1>6, <1>7, <2>2, <2>3
  <2>5. ts[i].kind \in {"ALLOW_TO_DENY", "DENY_TO_ALLOW", "RULE_CHANGED"}
    BY <1>1, <1>6, <2>4 DEF Kinds
  <2> QED
    BY <1>2, <2>5
<1>10. A \cup B = 1 .. a + b
  <2>1. A \cup B \in SUBSET (1 .. m)
    BY <1>2
  <2> QED
    BY <2>1, <1>1, <1>4, <1>8, SegmentMeans
<1>11. W = 1 .. a + b + r /\ a + b + r \in 0 .. m
  <2>1. W \in SUBSET (1 .. m)
    BY <1>2
  <2>2. Cardinality(W) = a + b + r
    BY <1>5
  <2> HIDE DEF W
  <2> QED
    BY <2>1, <2>2, <1>1, <1>9, SegmentMeans
<1>12. \A i \in 1 .. m : ts[i].kind \in {"ALLOW_TO_DENY", "DENY_TO_ALLOW"} <=> i <= a + b
  BY <1>2, <1>3, <1>10
<1>13. \A i \in 1 .. m : ts[i].kind = "UNCHANGED" <=> i > a + b + r
  <2>1. \A i \in 1 .. m : ts[i].kind = "UNCHANGED" <=> i \notin W
    BY <1>1, <1>2 DEF Kinds
  <2> HIDE DEF W
  <2> QED
    BY <2>1, <1>3, <1>11
<1> QED
  BY <1>1, <1>3, <1>11, <1>12, <1>13 DEF m

(***************************************************************************)
(* The text report of sorted rows: those it shows are the first of them    *)
(* that changed, as many as fit, and decisions come before rules.          *)
(***************************************************************************)
ShownFirst(s, p) ==
  DecisionChanges(s) > 0 =>
    LET decisions == {i \in DOMAIN p.rows : p.rows[i].kind /= "RULE_CHANGED"}
        changes == DecisionChanges(s) + s.count["RULE_CHANGED"]
    IN  /\ Len(p.rows) = IF changes < TextRows THEN changes ELSE TextRows
        /\ Cardinality(decisions) < Len(p.rows) => Cardinality(decisions) = DecisionChanges(s)

\* The text report of sorted rows shows them so.
LEMMA TextMeans ==
  ASSUME NEW s, s.Transitions \in Seq(Row), InOrder(s.Transitions),
         s.count["ALLOW_TO_DENY"] = Cardinality(Rows(s.Transitions, "ALLOW_TO_DENY")),
         s.count["DENY_TO_ALLOW"] = Cardinality(Rows(s.Transitions, "DENY_TO_ALLOW")),
         s.count["RULE_CHANGED"] = Cardinality(Rows(s.Transitions, "RULE_CHANGED"))
  PROVE  LET p == printSummaryText(s)
         IN  p.format = "text" /\ p.more \in Nat /\ ShownFirst(s, p)
<1> DEFINE ts == s.Transitions
           m == Len(ts)
           n == Lesser(m, TextRows)
           d == DecisionChanges(s)
           c == d + s.count["RULE_CHANGED"]
           p == printSummaryText(s)
<1>1. /\ m \in Nat /\ DOMAIN ts = 1 .. m /\ TextRows \in Nat \ {0}
      /\ \A i \in 1 .. m : ts[i] \in Row
  BY DiffAssumption
<1>2. /\ d \in Nat /\ c \in 0 .. m /\ d <= c
      /\ \A i \in 1 .. m : /\ ts[i].kind \in {"ALLOW_TO_DENY", "DENY_TO_ALLOW"} <=> i <= d
                           /\ ts[i].kind = "UNCHANGED" <=> i > c
  BY <1>1, KindsInOrder DEF DecisionChanges
<1>3. n \in Nat /\ n <= m
  BY <1>1 DEF Lesser
<1>4. p = IF d = 0 THEN [Nothing EXCEPT !.format = "text"]
          ELSE [format |-> "text", rows |-> shown(ts, n), more |-> m - n]
  BY DEF printSummaryText, Lesser
<1>5. shown(ts, n) = [j \in 1 .. Lesser(n, c) |-> ts[j]]
  BY <1>1, <1>2, <1>3, ShownMeans
<1> DEFINE z == Lesser(n, c)
<1>6. /\ z \in 0 .. m /\ z <= c
      /\ z = IF c < TextRows THEN c ELSE TextRows
  BY <1>1, <1>2, <1>3 DEF Lesser
<1> HIDE DEF z, n, d, c, p, m
<1>7. CASE d = 0
  <2>1. p.format = "text" /\ p.more = 0
    BY <1>4, <1>7 DEF Nothing
  <2>2. ShownFirst(s, p)
    BY <1>7 DEF ShownFirst, d
  <2> QED
    BY <2>1, <2>2 DEF p
<1>8. CASE d /= 0
  <2>1. p.format = "text" /\ p.more = m - n /\ p.rows = shown(ts, n)
    BY <1>4, <1>8
  <2>2. p.more \in Nat
    BY <2>1, <1>1, <1>3
  <2>3. /\ p.rows = [j \in 1 .. z |-> ts[j]]
        /\ DOMAIN p.rows = 1 .. z /\ Len(p.rows) = z
        /\ \A j \in 1 .. z : p.rows[j] = ts[j] /\ j \in 1 .. m
    <3>1. p.rows = [j \in 1 .. z |-> ts[j]]
      BY <2>1, <1>5 DEF z
    <3>2. z \in Nat /\ \A j \in 1 .. z : j \in 1 .. m
      BY <1>1, <1>6
    <3> QED
      BY <3>1, <3>2
  <2> DEFINE D == {i \in DOMAIN p.rows : p.rows[i].kind /= "RULE_CHANGED"}
  <2>4. D = 1 .. Lesser(z, d)
    <3>1. \A i \in 1 .. z : ts[i].kind \in Kinds
      BY <1>1, <2>3 DEF Row
    <3>2. \A i \in 1 .. z : ts[i].kind /= "UNCHANGED"
      BY <1>1, <1>2, <1>6, <2>3
    <3>3. \A i \in 1 .. z : ts[i].kind /= "RULE_CHANGED" <=> i <= d
      BY <1>2, <2>3, <3>1, <3>2 DEF Kinds
    <3>4. D = {i \in 1 .. z : i <= d}
      BY <2>3, <3>3
    <3> HIDE DEF D
    <3> QED
      BY <3>4, <1>2, <1>6 DEF Lesser
  <2>5. Lesser(z, d) \in Nat /\ Cardinality(D) = Lesser(z, d)
    <3> DEFINE k == Lesser(z, d)
    <3>1. k \in Nat
      BY <1>2, <1>6, <1>1 DEF Lesser
    <3> HIDE DEF D, k
    <3>2. 1 \in Int /\ k \in Int /\ (IF 1 > k THEN 0 ELSE k - 1 + 1) = k
      BY <3>1
    <3>3. Cardinality(1 .. k) = k
      BY <3>2, FS_Interval
    <3> QED
      BY <2>4, <3>1, <3>3 DEF k
  <2>6. Cardinality(D) < z => Cardinality(D) = d
    <3> HIDE DEF D
    <3> QED
      BY <2>5, <1>2, <1>6, <1>1 DEF Lesser
  <2>7. ShownFirst(s, p)
    BY <2>3, <2>6, <1>6 DEF ShownFirst, d, c
  <2> QED
    BY <2>1, <2>2, <2>7 DEF p
<1> QED
  BY <1>7, <1>8

-----------------------------------------------------------------------------
(***************************************************************************)
(* The inductive invariant of diff.  While it walks, it has counted the    *)
(* positions before the one it is on; then, all of them.                   *)
(***************************************************************************)
Compared == pc \in {"walk", "report"} \/ Reported

Seen == IF pc = "walk" THEN {at \in Box(DiffDims) : Before(at, cur, Len(DiffDims))}
        ELSE Box(DiffDims)

\* The limit is one a command line asks for.
Asked ==
  pc \in {"load", "walk", "report"} \/ Reported => args.limit \in (1 .. MaxInt) \cap Limits

\* A report comes last, and an exit code 0 comes with one.
ReportedLast ==
  /\ pc /= "done" => exit = 0 /\ ~Reported
  /\ pc = "done" /\ exit = 0 => Reported
  /\ Reported => exit = ExitCode(summary)

\* Only files that could be compared are walked, one of their tuples at a time.
OnATuple ==
  /\ Compared => Comparable
  /\ pc \in {"walk", "report"} => cur \in Box(DiffDims)

\* The counters count the tuples passed, and the rows are those the counters count.
CountsAreRight ==
  Compared => \A k \in Kinds : summary.count[k] = Cardinality(OfKind(Seen, k))

RowsAreCounted ==
  Compared => \A k \in Kinds :
    Cardinality(Rows(summary.Transitions, k)) = IF Listed(k) THEN summary.count[k] ELSE 0

\* The total is the number of tuples, within the limit, where products fit.
TotalIsRight ==
  LimitsFit /\ Compared =>
    summary.Total = Cardinality(Box(DiffDims)) /\ summary.Total <= args.limit

DiffIInv ==
  /\ DiffTypeOK /\ Asked /\ ReportedLast /\ OnATuple
  /\ CountsAreRight /\ RowsAreCounted /\ TotalIsRight
  /\ DecisionChangesShownFirst

(***************************************************************************)
(* What depends on the command line alone stays as it is while the command *)
(* line does.                                                              *)
(***************************************************************************)
LEMMA SameFiles ==
  ASSUME args' = args
  PROVE  /\ \A i : File(i)' = File(i)
         /\ \A i : Opened(i)' = Opened(i)
         /\ DiffDims' = DiffDims /\ Comparable' = Comparable
         /\ \A k : Listed(k)' = Listed(k)
<1>1. \A i : File(i)' = File(i)
  BY DEF File
<1>2. \A i : Opened(i)' = Opened(i)
  BY DEF Opened, AllLoaded
<1>3. DiffDims' = DiffDims
  BY <1>2 DEF DiffDims
<1>4. Comparable' = Comparable
  BY <1>1, <1>2, <1>3 DEF Comparable, dimensionsCompatible
<1>5. \A k : Listed(k)' = Listed(k)
  BY DEF Listed
<1> QED
  BY <1>1, <1>2, <1>3, <1>4, <1>5

\* The kind of a tuple stays what it is while the command line does.
LEMMA SameKinds ==
  ASSUME args' = args
  PROVE  /\ \A i, at : Allows(i, at)' = Allows(i, at)
         /\ \A k, at : InKind(k, at)' = InKind(k, at)
         /\ \A S, k : OfKind(S, k)' = OfKind(S, k)
<1>1. \A at : TupleAt(at)' = TupleAt(at)
  BY SameFiles DEF TupleAt
<1>2. \A i, at : Allows(i, at)' = Allows(i, at)
  BY <1>1, SameFiles DEF Allows
<1>3. \A i, at : Decider(i, at)' = Decider(i, at)
  BY <1>1, SameFiles DEF Decider
<1>4. \A k, at : InKind(k, at)' = InKind(k, at)
  BY <1>2, <1>3 DEF InKind
<1>5. \A S, k : OfKind(S, k)' = OfKind(S, k)
  BY <1>4 DEF OfKind
<1> QED
  BY <1>2, <1>4, <1>5

\* Nothing is printed, so nothing is claimed of a report.
LEMMA NotReported ==
  ASSUME ~Reported
  PROVE  DecisionChangesShownFirst
BY DEF Reported, DecisionChangesShownFirst

\* A failure ends the command with nothing reported.
LEMMA FailureKeeps ==
  ASSUME DiffIInv, pc /= "done", NEW code \in {1, 2}, DiffFails(code)
  PROVE  DiffIInv'
<1>1. /\ pc' = "done" /\ exit' = code /\ args' = args /\ summary' = summary /\ printed' = printed
      /\ ~Reported
  BY DEF DiffFails, DiffIInv, ReportedLast
<1>2. ~Reported' /\ ~Compared'
  BY <1>1 DEF Reported, Compared
<1>3. DiffTypeOK'
  BY <1>1 DEF DiffIInv, DiffTypeOK
<1>4. Asked' /\ ReportedLast'
  BY <1>1, <1>2 DEF Asked, ReportedLast
<1>5. OnATuple' /\ CountsAreRight' /\ RowsAreCounted' /\ TotalIsRight'
  BY <1>1, <1>2 DEF OnATuple, CountsAreRight, RowsAreCounted, TotalIsRight
<1>6. DecisionChangesShownFirst'
  BY <1>1, <1>2 DEF Reported, DecisionChangesShownFirst
<1> QED
  BY <1>3, <1>4, <1>5, <1>6 DEF DiffIInv

\* A command line that is refused keeps the invariant.
LEMMA RefuseKeeps ==
  ASSUME DiffIInv, NEW words \in DiffLines, Refuse(words)
  PROVE  DiffIInv'
<1>1. pc /= "done" /\ DiffFails(2)
  BY DEF Refuse
<1> QED
  BY <1>1, FailureKeeps

\* Files that cannot be compared keep the invariant.
LEMMA FailLoadKeeps ==
  ASSUME DiffIInv, FailLoad
  PROVE  DiffIInv'
<1>1. pc /= "done" /\ DiffFails(1)
  BY DEF FailLoad
<1> QED
  BY <1>1, FailureKeeps

\* A command line that is accepted asks for a limit above zero.
LEMMA AcceptKeeps ==
  ASSUME DiffIInv, NEW words \in DiffLines, Accept(words)
  PROVE  DiffIInv'
<1> DEFINE a == Args(splitDiffArgs(words))
<1>1. /\ pc = "start" /\ ~ArgsError(splitDiffArgs(words)) /\ a.limit > 0
      /\ pc' = "load" /\ args' = a
      /\ summary' = summary /\ printed' = printed /\ exit' = exit
  BY DEF Accept
<1>2. a.limit \in 1 .. MaxInt /\ a.limit \in Limits /\ a.includeUnchanged \in BOOLEAN
  BY <1>1, ArgsTyped
<1> HIDE DEF a
<1>3. ~Reported /\ exit = 0
  BY <1>1 DEF DiffIInv, ReportedLast
<1>4. ~Reported' /\ ~Compared'
  BY <1>1, <1>3 DEF Reported, Compared
<1>5. DiffTypeOK'
  <2>1. args'.limit \in 0 .. MaxInt /\ args'.includeUnchanged \in BOOLEAN
    BY <1>1, <1>2
  <2> QED
    BY <1>1, <2>1 DEF DiffIInv, DiffTypeOK
<1>6. Asked'
  BY <1>1, <1>2 DEF Asked, Limits
<1>7. ReportedLast'
  BY <1>1, <1>3, <1>4 DEF ReportedLast
<1>8. OnATuple' /\ CountsAreRight' /\ RowsAreCounted' /\ TotalIsRight'
  BY <1>1, <1>4 DEF OnATuple, CountsAreRight, RowsAreCounted, TotalIsRight
<1>9. DecisionChangesShownFirst'
  BY <1>4 DEF Reported, DecisionChangesShownFirst
<1> QED
  BY <1>5, <1>6, <1>7, <1>8, <1>9 DEF DiffIInv

-----------------------------------------------------------------------------
(***************************************************************************)
(* What is left to show of a step that walks or reports: the files stay    *)
(* comparable, and the counters and the rows go together.                  *)
(***************************************************************************)
Tally(s, S) ==
  /\ \A k \in Kinds : s.count[k] = Cardinality(OfKind(S, k))
  /\ \A k \in Kinds : Cardinality(Rows(s.Transitions, k)) = IF Listed(k) THEN s.count[k] ELSE 0

SummaryType ==
  [Total : -MaxInt - 1 .. MaxInt, count : [Kinds -> Nat], Limit : 0 .. MaxInt, Transitions : Seq(Row)]

\* The summary is of its type.
LEMMA SummaryIsTyped == DiffTypeOK => summary \in SummaryType
BY DEF DiffTypeOK, SummaryType, Row

\* A step that walks keeps the invariant when it keeps the tally.
LEMMA WalkKeeps ==
  ASSUME DiffIInv, Comparable, args.limit \in (1 .. MaxInt) \cap Limits, args' = args,
         ~Reported, printed' = printed, exit = 0, exit' = exit,
         pc' \in {"walk", "report"},
         cur' \in Box(DiffDims),
         summary' \in SummaryType,
         Tally(summary', IF pc' = "walk"
                         THEN {at \in Box(DiffDims) : Before(at, cur', Len(DiffDims))}
                         ELSE Box(DiffDims)),
         LimitsFit => /\ summary'.Total = Cardinality(Box(DiffDims))
                      /\ summary'.Total <= args.limit
  PROVE  DiffIInv'
<1>1. /\ DiffDims' = DiffDims /\ Comparable' = Comparable /\ \A k : Listed(k)' = Listed(k)
      /\ \A S, k : OfKind(S, k)' = OfKind(S, k)
  BY SameFiles, SameKinds
<1>2. ~Reported' /\ pc' /= "done"
  BY DEF Reported
<1>3. DiffDims \in Lists
  BY ComparableMeans
<1>4. DiffTypeOK'
  <2>1. DOMAIN cur' = DOMAIN DiffDims /\ \A i \in DOMAIN cur' : cur'[i] \in DOMAIN DiffDims[i]
    BY <1>3, BoxMeans
  <2>2. summary' \in [Total : -MaxInt - 1 .. MaxInt, count : [Kinds -> Nat], Limit : 0 .. MaxInt,
                      Transitions : Seq([tuple : Seq(Value), kind : Kinds])]
    BY DEF SummaryType, Row
  <2> QED
    BY <1>1, <2>1, <2>2 DEF DiffIInv, DiffTypeOK
<1>5. Asked'
  BY DEF Asked, Limits
<1>6. ReportedLast'
  BY <1>2 DEF ReportedLast
<1>7. OnATuple'
  BY <1>1 DEF OnATuple
<1>8. Box(DiffDims)' = Box(DiffDims)
  BY <1>1 DEF Box, BoxUpTo
<1>9. Seen' = IF pc' = "walk" THEN {at \in Box(DiffDims) : Before(at, cur', Len(DiffDims))}
              ELSE Box(DiffDims)
  BY <1>1, <1>8 DEF Seen
<1>10. CountsAreRight' /\ RowsAreCounted'
  <2>1. \A k \in Kinds : summary'.count[k] = Cardinality(OfKind(Seen, k)')
    BY <1>1, <1>9 DEF Tally
  <2>2. \A k \in Kinds : Cardinality(Rows(summary.Transitions, k))' =
                           IF Listed(k)' THEN summary'.count[k] ELSE 0
    BY <1>1 DEF Tally, Rows
  <2> QED
    BY <2>1, <2>2 DEF CountsAreRight, RowsAreCounted
<1>11. TotalIsRight'
  BY <1>8 DEF TotalIsRight, LimitsFit, Limits
<1>12. DecisionChangesShownFirst'
  BY <1>2 DEF Reported, DecisionChangesShownFirst
<1> QED
  BY <1>4, <1>5, <1>6, <1>7, <1>10, <1>11, <1>12 DEF DiffIInv

\* Nothing has been counted when the walk starts.
LEMMA StartKeeps ==
  ASSUME DiffIInv, Start
  PROVE  DiffIInv'
<1> DEFINE size == product(DiffDims, args.limit)
           s == [NoSummary EXCEPT !.Total = size.p, !.Limit = args.limit]
<1>1. pc = "load" /\ Comparable
  BY DEF Start
<1>2. CASE size.exceeded \/ size.p = 0
  <2>1. DiffFails(1) /\ pc /= "done"
    BY <1>1, <1>2 DEF Start
  <2> QED
    BY <2>1, FailureKeeps
<1>3. CASE ~ (size.exceeded \/ size.p = 0)
  <2>1. /\ pc' = "walk" /\ cur' = [i \in DOMAIN DiffDims |-> 1] /\ summary' = s
        /\ args' = args /\ printed' = printed /\ exit' = exit
    BY <1>3 DEF Start
  <2>2. /\ args.limit \in (1 .. MaxInt) \cap Limits
        /\ exit = 0 /\ ~Reported
    BY <1>1 DEF DiffIInv, Asked, ReportedLast
  <2>3. DiffDims \in Lists /\ \A k \in 1 .. Len(DiffDims) : DiffDims[k] /= << >>
    BY <1>1, ComparableMeans
  <2>4. size.p \in Int64
    <3>1. args.limit \in Int
      BY <2>2
    <3>2. PICK f : size = f[Len(DiffDims)] /\ f \in [0 .. Len(DiffDims) -> [p : Int64, exceeded : BOOLEAN]]
      BY <2>3, <3>1, ProductRuns
    <3>3. Len(DiffDims) \in 0 .. Len(DiffDims)
      BY <2>3, BoxMeans
    <3> QED
      BY <3>2, <3>3
  <2>5. ASSUME LimitsFit
        PROVE  size.p = Cardinality(Box(DiffDims)) /\ size.p <= args.limit
    <3>1. \A k \in 1 .. Len(DiffDims) : args.limit * Len(DiffDims[k]) <= MaxInt
      <4>1. /\ args.paths[1] \in DOMAIN Paths /\ FileLoads(File(1))
            /\ Len(File(1).content.dims) = Len(DiffDims)
            /\ \A k \in 1 .. Len(DiffDims) : DiffDims[k] = File(1).content.dims[k].values
            /\ Decoded(File(1).content)
        BY <1>1, ComparableMeans
      <4>2. File(1) = Paths[args.paths[1]]
        BY DEF File
      <4>3. \A k \in 1 .. Len(DiffDims) : k \in DOMAIN File(1).content.dims
        BY <4>1, DecodedFacts
      <4>4. \A k \in DOMAIN File(1).content.dims, max \in Limits :
              max * Len(File(1).content.dims[k].values) <= MaxInt
        BY <2>5, <4>1, <4>2 DEF LimitsFit
      <4> QED
        BY <4>1, <4>3, <4>4, <2>2
    <3> QED
      BY <2>2, <2>3, <3>1, <1>3, ProductMeans
  <2> HIDE DEF size
  <2>6. /\ s.Total = size.p /\ s.count = [k \in Kinds |-> 0] /\ s.Transitions = << >>
        /\ s \in SummaryType
    <3>1. s.Total = size.p /\ s.count = [k \in Kinds |-> 0] /\ s.Transitions = << >>
      BY DEF NoSummary
    <3>2. << >> \in Seq(Row) /\ 0 \in -MaxInt - 1 .. MaxInt /\ 0 \in 0 .. MaxInt
      BY DiffAssumption
    <3>3. NoSummary \in SummaryType
      BY <3>2 DEF NoSummary, SummaryType
    <3>4. args.limit \in 0 .. MaxInt /\ size.p \in -MaxInt - 1 .. MaxInt
      BY <2>2, <2>4 DEF Int64
    <3>5. s \in SummaryType
      BY <3>3, <3>4 DEF SummaryType
    <3> QED
      BY <3>1, <3>5
  <2> HIDE DEF s
  <2> DEFINE S == {at \in Box(DiffDims) : Before(at, cur', Len(DiffDims))}
  <2>7. cur' \in Box(DiffDims) /\ S = {}
    BY <2>1, <2>3, OdometerStarts
  <2>8. Tally(s, S)
    <3>1. \A k : OfKind({}, k) = {} /\ Rows(<< >>, k) = {}
      BY DEF OfKind, Rows
    <3>2. Cardinality({}) = 0
      BY FS_EmptySet
    <3> HIDE DEF S
    <3> QED
      BY <2>6, <2>7, <3>1, <3>2 DEF Tally
  <2> QED
    BY <1>1, <2>1, <2>2, <2>5, <2>6, <2>7, <2>8, WalkKeeps
<1> QED
  BY <1>2, <1>3

\* Counting a tuple keeps the counters and the rows together.
LEMMA CountedMeans ==
  ASSUME NEW s \in SummaryType, NEW t \in Seq(Value), NEW kind \in Kinds
  PROVE  LET r == Counted(s, t, kind)
         IN  /\ r \in SummaryType /\ r.Total = s.Total
             /\ r.count = [s.count EXCEPT ![kind] = @ + 1]
             /\ r.Transitions = IF Listed(kind) THEN Append(s.Transitions, [tuple |-> t, kind |-> kind])
                                ELSE s.Transitions
<1> DEFINE r == Counted(s, t, kind)
           e == [tuple |-> t, kind |-> kind]
<1>1. /\ r.Total = s.Total /\ r.Limit = s.Limit
      /\ r.count = [s.count EXCEPT ![kind] = @ + 1]
      /\ r.Transitions = IF Listed(kind) THEN Append(s.Transitions, e) ELSE s.Transitions
  BY DEF Counted, SummaryType
<1>2. e \in Row
  BY DEF Row
<1> HIDE DEF r, e
<1>3. r.Transitions \in Seq(Row)
  <2>1. s.Transitions \in Seq(Row)
    BY DEF SummaryType
  <2> QED
    BY <1>1, <1>2, <2>1
<1>4. r.count \in [Kinds -> Nat]
  BY <1>1 DEF SummaryType
<1>5. r \in SummaryType
  <2> DEFINE count == [s.count EXCEPT ![kind] = @ + 1]
             rows == IF Listed(kind) THEN Append(s.Transitions, e) ELSE s.Transitions
  <2>1. r = [s EXCEPT !.count = count, !.Transitions = rows]
    BY DEF r, Counted, e
  <2>2. count \in [Kinds -> Nat] /\ rows \in Seq(Row)
    BY <1>1, <1>3, <1>4
  <2> HIDE DEF count, rows
  <2> QED
    BY <2>1, <2>2 DEF SummaryType
<1> QED
  BY <1>1, <1>5 DEF r, e

\* A tuple that was not counted yet is counted with those that were.
LEMMA CountedTallies ==
  ASSUME NEW s \in SummaryType, NEW t \in Seq(Value), NEW kind \in Kinds,
         NEW S, IsFiniteSet(S), NEW x, x \notin S,
         \A k \in Kinds : InKind(k, x) <=> k = kind,
         Tally(s, S)
  PROVE  Tally(Counted(s, t, kind), S \cup {x})
<1> DEFINE r == Counted(s, t, kind)
           e == [tuple |-> t, kind |-> kind]
<1>1. /\ r.count = [s.count EXCEPT ![kind] = @ + 1]
      /\ r.Transitions = IF Listed(kind) THEN Append(s.Transitions, e) ELSE s.Transitions
  BY CountedMeans
<1>2. e \in Row /\ e.kind = kind /\ s.Transitions \in Seq(Row) /\ s.count \in [Kinds -> Nat]
  BY DEF Row, SummaryType
<1> HIDE DEF r, e
<1>3. ASSUME NEW k \in Kinds
      PROVE  /\ r.count[k] = IF k = kind THEN s.count[k] + 1 ELSE s.count[k]
             /\ r.count[k] = Cardinality(OfKind(S \cup {x}, k))
  <2>1. r.count[k] = IF k = kind THEN s.count[k] + 1 ELSE s.count[k]
    BY <1>1, <1>2
  <2>2. s.count[k] = Cardinality(OfKind(S, k))
    BY DEF Tally
  <2>3. CASE k = kind
    <3>1. Cardinality(OfKind(S \cup {x}, k)) = Cardinality(OfKind(S, k)) + 1
      BY <2>3, OneMore
    <3> QED
      BY <2>1, <2>2, <2>3, <3>1
  <2>4. CASE k /= kind
    <3>1. OfKind(S \cup {x}, k) = OfKind(S, k)
      BY <2>4, OneMore
    <3> QED
      BY <2>1, <2>2, <2>4, <3>1
  <2> QED
    BY <2>1, <2>3, <2>4
<1>4. ASSUME NEW k \in Kinds
      PROVE  Cardinality(Rows(r.Transitions, k)) = IF Listed(k) THEN r.count[k] ELSE 0
  <2>1. Cardinality(Rows(s.Transitions, k)) = IF Listed(k) THEN s.count[k] ELSE 0
    BY DEF Tally
  <2>2. CASE Listed(kind) /\ k = kind
    <3>1. Cardinality(Rows(Append(s.Transitions, e), k)) = Cardinality(Rows(s.Transitions, k)) + 1
      BY <1>2, <2>2, OneRowMore
    <3> QED
      BY <1>1, <1>3, <2>1, <2>2, <3>1
  <2>3. CASE Listed(kind) /\ k /= kind
    <3>1. Rows(Append(s.Transitions, e), k) = Rows(s.Transitions, k)
      BY <1>2, <2>3, OneRowMore
    <3> QED
      BY <1>1, <1>3, <2>1, <2>3, <3>1
  <2>4. CASE ~Listed(kind)
    BY <1>1, <1>3, <2>1, <2>4
  <2> QED
    BY <2>2, <2>3, <2>4
<1> QED
  BY <1>3, <1>4 DEF Tally, r

\* The tuples of comparable files are tuples, finitely many.
LEMMA TuplesTyped ==
  ASSUME Comparable, NEW at \in Box(DiffDims)
  PROVE  /\ TupleAt(at) \in Seq(Value) /\ Len(TupleAt(at)) = Len(Opened(2).cfg.dims)
         /\ IsFiniteSet(Box(DiffDims))
<1>1. DiffDims \in Lists /\ Opened(2).cfg.dims = DiffDims
  BY ComparableMeans
<1> DEFINE n == Len(DiffDims)
<1>2. /\ n \in Nat /\ DOMAIN DiffDims = 1 .. n
      /\ \A i \in 1 .. n : DiffDims[i] \in Seq(Value) /\ at[i] \in 1 .. Len(DiffDims[i])
  BY <1>1, BoxMeans
<1>3. \A i \in 1 .. n : DiffDims[i][at[i]] \in Value
  BY <1>2
<1>4. TupleAt(at) = [i \in 1 .. n |-> DiffDims[i][at[i]]]
  BY <1>2 DEF TupleAt
<1>5. n \in 0 .. n
  BY <1>2
<1>6. IsFiniteSet(Box(DiffDims))
  BY <1>1, <1>5, BoxFinite DEF Box
<1> HIDE DEF n
<1>7. TupleAt(at) \in Seq(Value) /\ Len(TupleAt(at)) = n
  BY <1>2, <1>3, <1>4
<1> QED
  BY <1>1, <1>6, <1>7 DEF n

(***************************************************************************)
(* A visit counts the tuple the walk is on, which was not counted yet, and *)
(* moves the walk to the next one, or ends it after the last.              *)
(***************************************************************************)
LEMMA VisitKeeps ==
  ASSUME DiffIInv, Visit
  PROVE  DiffIInv'
<1> DEFINE t == TupleAt(cur)
           kind == KindOf(cur)
           n == Len(DiffDims)
           S == {at \in Box(DiffDims) : Before(at, cur, n)}
           T == IF pc' = "walk" THEN {at \in Box(DiffDims) : Before(at, cur', n)} ELSE Box(DiffDims)
<1>1. pc = "walk" /\ args' = args /\ printed' = printed /\ exit' = exit /\ walkProduct
  BY DEF Visit
<1>2. /\ Comparable /\ cur \in Box(DiffDims) /\ exit = 0 /\ ~Reported
      /\ args.limit \in (1 .. MaxInt) \cap Limits
      /\ summary \in SummaryType
  <2>1. Compared
    BY <1>1 DEF Compared
  <2> QED
    BY <1>1, <2>1, SummaryIsTyped DEF DiffIInv, OnATuple, ReportedLast, Asked
<1>3. /\ DiffDims \in Lists /\ t \in Seq(Value) /\ Len(t) = Len(Opened(2).cfg.dims)
      /\ IsFiniteSet(Box(DiffDims))
  BY <1>2, ComparableMeans, TuplesTyped
<1>4. kind \in Kinds /\ \A k \in Kinds : InKind(k, cur) <=> k = kind
  BY <1>2, Classified
<1>5. summary' = Counted(summary, t, kind)
  BY <1>3 DEF Visit, KindOf
<1>6. Tally(summary, S)
  <2>1. Compared /\ Seen = S
    BY <1>1 DEF Compared, Seen
  <2> QED
    BY <2>1 DEF DiffIInv, CountsAreRight, RowsAreCounted, Tally
<1>7. IsFiniteSet(S) /\ cur \notin S
  <2>1. S \subseteq Box(DiffDims)
    OBVIOUS
  <2>2. cur \notin S
    BY <1>2, <1>3, BeforeIsOrder
  <2> QED
    BY <2>1, <2>2, <1>3, FS_Subset
<1>8. /\ pc' \in {"walk", "report"} /\ cur' \in Box(DiffDims) /\ T = S \cup {cur}
  <2>1. CASE Movable(DiffDims, cur) = {}
    <3>1. pc' = "report" /\ cur' = cur
      BY <1>1, <2>1 DEF walkProduct, Movable
    <3>2. \A ix \in Box(DiffDims) : Before(ix, cur, n) \/ ix = cur
      BY <1>2, <1>3, <2>1, OdometerEnds
    <3> QED
      BY <1>2, <3>1, <3>2
  <2>2. CASE Movable(DiffDims, cur) /= {}
    <3>1. pc' = "walk" /\ cur' = Moved(DiffDims, cur)
      BY <1>1, <2>2 DEF walkProduct, Movable, Moved
    <3>2. /\ Moved(DiffDims, cur) \in Box(DiffDims)
          /\ \A ix \in Box(DiffDims) :
               Before(ix, Moved(DiffDims, cur), n) <=> Before(ix, cur, n) \/ ix = cur
      BY <1>2, <1>3, <2>2, OdometerTurns
    <3> QED
      BY <1>2, <3>1, <3>2
  <2> QED
    BY <2>1, <2>2
<1>9. LimitsFit => /\ summary.Total = Cardinality(Box(DiffDims))
                   /\ summary.Total <= args.limit
  BY <1>1 DEF DiffIInv, TotalIsRight, Compared
<1> HIDE DEF t, kind, S, T
<1>10. summary' \in SummaryType /\ summary'.Total = summary.Total
  BY <1>2, <1>3, <1>4, <1>5, CountedMeans
<1>11. Tally(summary', T)
  BY <1>2, <1>3, <1>4, <1>5, <1>6, <1>7, <1>8, CountedTallies
<1> QED
  BY <1>1, <1>2, <1>8, <1>9, <1>10, <1>11, WalkKeeps DEF T

\* A report sorts the rows, prints them, and exits by the counters.
LEMMA ReportKeeps ==
  ASSUME DiffIInv, Report
  PROVE  DiffIInv'
<1>1. pc = "report" /\ pc' = "done" /\ args' = args /\ cur' = cur
  BY DEF Report
<1>2. /\ Compared /\ Comparable /\ Seen = Box(DiffDims) /\ ~Reported
      /\ args.limit \in (1 .. MaxInt) \cap Limits
      /\ summary \in SummaryType
  <2>1. Compared
    BY <1>1 DEF Compared
  <2> QED
    BY <1>1, <2>1, SummaryIsTyped DEF DiffIInv, OnATuple, ReportedLast, Asked, Seen
<1>3. Tally(summary, Box(DiffDims))
  BY <1>2 DEF DiffIInv, CountsAreRight, RowsAreCounted, Tally
<1>4. LimitsFit => /\ summary.Total = Cardinality(Box(DiffDims))
                   /\ summary.Total <= args.limit
  BY <1>2 DEF DiffIInv, TotalIsRight
<1> DEFINE ts == summary.Transitions
<1>5. PICK sorted \in sortTransitions(ts) : summary' = [summary EXCEPT !.Transitions = sorted]
  BY DEF Report
<1>6. ts \in Seq(Row)
  BY <1>2 DEF SummaryType
<1>7. /\ sorted \in Seq(Row) /\ InOrder(sorted)
      /\ \A k : Cardinality(Rows(sorted, k)) = Cardinality(Rows(ts, k))
  BY <1>6, SortedMeans DEF InOrder
<1>8. /\ summary'.Transitions = sorted /\ summary'.count = summary.count
      /\ summary'.Total = summary.Total /\ summary' \in SummaryType
  BY <1>2, <1>5, <1>7 DEF SummaryType
<1>9. Tally(summary', Box(DiffDims))
  BY <1>3, <1>7, <1>8 DEF Tally
<1>10. /\ printSummaryText(summary').format = "text" /\ printSummaryText(summary').more \in Nat
       /\ ShownFirst(summary', printSummaryText(summary'))
  <2>1. \A k \in Kinds \ {"UNCHANGED"} :
          summary'.count[k] = Cardinality(Rows(summary'.Transitions, k))
    BY <1>9 DEF Tally, Listed
  <2>2. InOrder(summary'.Transitions) /\ summary'.Transitions \in Seq(Row)
    BY <1>7, <1>8
  <2> QED
    BY <2>1, <2>2, TextMeans DEF Kinds
<1>11. ExitCode(summary') \in {0, 1}
  BY DEF ExitCode
<1>12. \/ /\ printed'.format = "json" /\ printed'.more = 0
          /\ exit' = ExitCode(summary')
       \/ /\ printed' = printSummaryText(summary')
          /\ exit' = ExitCode(summary')
       \/ printed' = printed /\ exit' = 2
  BY DEF Report
<1>13. /\ DiffDims' = DiffDims /\ Comparable' = Comparable /\ \A k : Listed(k)' = Listed(k)
       /\ \A S, k : OfKind(S, k)' = OfKind(S, k)
  BY <1>1, SameFiles, SameKinds
<1>14. Box(DiffDims)' = Box(DiffDims)
  BY <1>13 DEF Box, BoxUpTo
<1>15. DiffTypeOK'
  <2>1. exit' \in 0 .. 2
    BY <1>11, <1>12
  <2>2. printed'.format \in {"none", "json", "text"} /\ printed'.more \in Nat
    BY <1>10, <1>12 DEF DiffIInv, DiffTypeOK
  <2>3. summary' \in [Total : -MaxInt - 1 .. MaxInt, count : [Kinds -> Nat], Limit : 0 .. MaxInt,
                      Transitions : Seq([tuple : Seq(Value), kind : Kinds])]
    BY <1>8 DEF SummaryType, Row
  <2> QED
    BY <1>1, <2>1, <2>2, <2>3 DEF DiffIInv, DiffTypeOK
<1>16. Asked'
  BY <1>1, <1>2 DEF Asked, Limits
<1>17. ReportedLast'
  <2>1. /\ ~Reported' <=> printed'.format = "none"
        /\ ExitCode(summary)' = ExitCode(summary')
    BY DEF Reported, ExitCode, DecisionChanges
  <2> QED
    BY <1>1, <1>2, <1>10, <1>12, <2>1 DEF ReportedLast, Reported
<1>18. OnATuple'
  BY <1>1, <1>2, <1>13 DEF OnATuple
<1>19. CountsAreRight' /\ RowsAreCounted'
  <2>1. Seen' = Box(DiffDims)
    BY <1>1, <1>14 DEF Seen
  <2>2. \A k \in Kinds : summary'.count[k] = Cardinality(OfKind(Seen, k)')
    BY <1>9, <1>13, <2>1 DEF Tally
  <2>3. \A k \in Kinds : Cardinality(Rows(summary.Transitions, k))' =
                           IF Listed(k)' THEN summary'.count[k] ELSE 0
    BY <1>9, <1>13 DEF Tally, Rows
  <2> QED
    BY <2>2, <2>3 DEF CountsAreRight, RowsAreCounted
<1>20. TotalIsRight'
  BY <1>1, <1>4, <1>8, <1>14 DEF TotalIsRight, LimitsFit, Limits
<1>21. DecisionChangesShownFirst'
  <2>1. printed'.format = "text" => printed' = printSummaryText(summary')
    BY <1>2, <1>12 DEF Reported
  <2>2. printed'.format = "text" => ShownFirst(summary', printed')
    BY <1>10, <2>1
  <2> QED
    BY <2>2 DEF ShownFirst, DecisionChangesShownFirst, DecisionChanges
<1> QED
  BY <1>15, <1>16, <1>17, <1>18, <1>19, <1>20, <1>21 DEF DiffIInv

-----------------------------------------------------------------------------
\* Every state of diff satisfies the invariant.
THEOREM DiffInvariantHolds == DiffSpec => []DiffIInv
<1>1. ASSUME DiffInit
      PROVE  DiffIInv
  <2>1. /\ pc = "start" /\ args = NoArgs /\ cur = << >> /\ summary = NoSummary
        /\ printed = Nothing /\ exit = 0
    BY <1>1 DEF DiffInit
  <2>2. ~Reported /\ ~Compared
    BY <2>1 DEF Reported, Compared, Nothing
  <2>3. DiffTypeOK
    <3>1. args.limit = 0 /\ args.includeUnchanged = FALSE
      BY <2>1 DEF NoArgs
    <3>2. << >> \in Seq(Row) /\ 0 \in -MaxInt - 1 .. MaxInt /\ 0 \in 0 .. MaxInt
      BY DiffAssumption
    <3>3. NoSummary \in SummaryType
      BY <3>2 DEF NoSummary, SummaryType
    <3>4. summary \in [Total : -MaxInt - 1 .. MaxInt, count : [Kinds -> Nat], Limit : 0 .. MaxInt,
                       Transitions : Seq([tuple : Seq(Value), kind : Kinds])]
      BY <2>1, <3>3 DEF SummaryType, Row
    <3>5. printed.format = "none" /\ printed.more = 0
      BY <2>1 DEF Nothing
    <3>6. args.limit \in 0 .. MaxInt /\ args.includeUnchanged \in BOOLEAN
      BY <3>1, <3>2
    <3>7. pc = "start" /\ exit \in 0 .. 2
      BY <2>1
    <3>8. printed.format \in {"none", "json", "text"} /\ printed.more \in Nat
      BY <3>5
    <3> QED
      BY <3>4, <3>6, <3>7, <3>8 DEF DiffTypeOK
  <2>4. Asked /\ ReportedLast
    BY <2>1, <2>2 DEF Asked, ReportedLast
  <2>5. OnATuple /\ CountsAreRight /\ RowsAreCounted /\ TotalIsRight
    BY <2>1, <2>2 DEF OnATuple, CountsAreRight, RowsAreCounted, TotalIsRight
  <2>6. DecisionChangesShownFirst
    BY <2>2, NotReported
  <2> QED
    BY <2>3, <2>4, <2>5, <2>6 DEF DiffIInv
<1>2. DiffIInv /\ [DiffNext]_diffVars => DiffIInv'
  <2> SUFFICES ASSUME DiffIInv, [DiffNext]_diffVars
               PROVE  DiffIInv'
    OBVIOUS
  <2>1. CASE UNCHANGED diffVars
    <3>1. /\ pc' = pc /\ args' = args /\ cur' = cur /\ summary' = summary
          /\ printed' = printed /\ exit' = exit
      BY <2>1 DEF diffVars
    <3>2. /\ DiffDims' = DiffDims /\ Comparable' = Comparable /\ \A k : Listed(k)' = Listed(k)
          /\ \A S, k : OfKind(S, k)' = OfKind(S, k)
      BY <3>1, SameFiles, SameKinds
    <3>3. /\ Reported' = Reported /\ Compared' = Compared
          /\ ExitCode(summary)' = ExitCode(summary)
      BY <3>1 DEF Reported, Compared, ExitCode, DecisionChanges
    <3>4. Box(DiffDims)' = Box(DiffDims) /\ Seen' = Seen
      BY <3>1, <3>2 DEF Seen, Box, BoxUpTo
    <3>5. DiffTypeOK' /\ Asked' /\ ReportedLast' /\ OnATuple'
      BY <3>1, <3>2, <3>3, <3>4 DEF DiffIInv, DiffTypeOK, Asked, ReportedLast, OnATuple, Limits
    <3>6. CountsAreRight' /\ RowsAreCounted'
      <4>1. \A k \in Kinds : OfKind(Seen, k)' = OfKind(Seen, k)
        BY <3>2, <3>4
      <4>2. \A k \in Kinds : Rows(summary.Transitions, k)' = Rows(summary.Transitions, k)
        BY <3>1 DEF Rows
      <4> QED
        BY <3>1, <3>2, <3>3, <4>1, <4>2 DEF DiffIInv, CountsAreRight, RowsAreCounted
    <3>7. TotalIsRight'
      BY <3>1, <3>3, <3>4 DEF DiffIInv, TotalIsRight, LimitsFit, Limits
    <3>8. DecisionChangesShownFirst'
      BY <3>1 DEF DiffIInv, DecisionChangesShownFirst, DecisionChanges
    <3> QED
      BY <3>5, <3>6, <3>7, <3>8 DEF DiffIInv
  <2>2. ASSUME NEW words \in DiffLines, Refuse(words)
        PROVE  DiffIInv'
    BY <2>2, RefuseKeeps
  <2>3. ASSUME NEW words \in DiffLines, Accept(words)
        PROVE  DiffIInv'
    BY <2>3, AcceptKeeps
  <2>4. CASE FailLoad
    BY <2>4, FailLoadKeeps
  <2>5. CASE Start
    BY <2>5, StartKeeps
  <2>6. CASE Visit
    BY <2>6, VisitKeeps
  <2>7. CASE Report
    BY <2>7, ReportKeeps
  <2> QED
    BY <2>1, <2>2, <2>3, <2>4, <2>5, <2>6, <2>7 DEF DiffNext
<1> QED
  BY <1>1, <1>2, PTL DEF DiffSpec

\* What diff keeps is of its type, the tuple the walk is on among it.
THEOREM DiffTyped == DiffSpec => []DiffTypeOK
<1>1. DiffIInv => DiffTypeOK
  BY DEF DiffIInv
<1> QED
  BY <1>1, DiffInvariantHolds, PTL

(***************************************************************************)
(* A cut off text report shows the decisions that changed first, in every  *)
(* order a stable sort may leave the rows in.                              *)
(***************************************************************************)
THEOREM DecisionsFirst == DiffSpec => []DecisionChangesShownFirst
<1>1. DiffIInv => DecisionChangesShownFirst
  BY DEF DiffIInv
<1> QED
  BY <1>1, DiffInvariantHolds, PTL

\* What the invariant says of a report.
LEMMA ReportMeans ==
  ASSUME DiffIInv, Reported
  PROVE  /\ Comparable /\ Positions = Box(DiffDims) /\ IsFiniteSet(Positions)
         /\ \A k \in Kinds : summary.count[k] = Cardinality({at \in Positions : InKind(k, at)})
<1>1. Compared /\ Comparable /\ pc = "done"
  BY DEF Compared, DiffIInv, OnATuple, ReportedLast
<1>2. DiffDims \in Lists
  BY <1>1, ComparableMeans
<1>3. Positions = Box(DiffDims)
  BY <1>2, PositionsAreBox
<1>4. IsFiniteSet(Positions)
  <2>1. Len(DiffDims) \in 0 .. Len(DiffDims)
    BY <1>2, BoxMeans
  <2> QED
    BY <2>1, <1>2, <1>3, BoxFinite DEF Box
<1>5. Seen = Positions
  BY <1>1, <1>3 DEF Seen
<1>6. \A k \in Kinds : summary.count[k] = Cardinality({at \in Positions : InKind(k, at)})
  BY <1>1, <1>5 DEF DiffIInv, CountsAreRight, OfKind
<1> QED
  BY <1>1, <1>3, <1>4, <1>6

(***************************************************************************)
(* diff exits 0 only under a report, and 1 under a report exactly when the *)
(* two files decide some tuple differently.                                *)
(***************************************************************************)
THEOREM ExitIsRight == DiffSpec => []ExitTellsTheDecision
<1>1. ASSUME DiffIInv
      PROVE  ExitTellsTheDecision
  <2>1. pc = "done" /\ exit = 0 => Reported
    BY <1>1 DEF DiffIInv, ReportedLast
  <2>2. ASSUME Reported
        PROVE  exit = 1 <=> \E at \in Positions : Allows(1, at) /= Allows(2, at)
    <3> DEFINE A == {at \in Positions : InKind("ALLOW_TO_DENY", at)}
               B == {at \in Positions : InKind("DENY_TO_ALLOW", at)}
    <3>1. /\ summary.count["ALLOW_TO_DENY"] = Cardinality(A)
          /\ summary.count["DENY_TO_ALLOW"] = Cardinality(B)
          /\ IsFiniteSet(Positions)
      BY <1>1, <2>2, ReportMeans DEF Kinds
    <3>2. exit = ExitCode(summary)
      BY <1>1, <2>2 DEF DiffIInv, ReportedLast
    <3>3. A \subseteq Positions /\ B \subseteq Positions
      OBVIOUS
    <3>4. \A i, at : Allows(i, at) \in BOOLEAN
      BY DEF Allows, FileAllows
    <3>5. (\E at \in Positions : Allows(1, at) /= Allows(2, at)) <=> A /= {} \/ B /= {}
      BY <3>4, Zenon DEF InKind
    <3> HIDE DEF A, B
    <3>6. IsFiniteSet(A) /\ IsFiniteSet(B)
      BY <3>1, <3>3, FS_Subset
    <3>7. /\ Cardinality(A) \in Nat /\ (Cardinality(A) = 0 <=> A = {})
          /\ Cardinality(B) \in Nat /\ (Cardinality(B) = 0 <=> B = {})
      BY <3>6, FS_CardinalityType, FS_EmptySet
    <3> QED
      BY <3>1, <3>2, <3>5, <3>7 DEF ExitCode, DecisionChanges
  <2> QED
    BY <2>1, <2>2 DEF ExitTellsTheDecision
<1> QED
  BY <1>1, DiffInvariantHolds, PTL

(***************************************************************************)
(* A report counts every tuple of the files once and under the right kind, *)
(* without an assumption on the limits.                                    *)
(***************************************************************************)
CountsAddUp ==
  Reported => \A k \in Kinds :
    summary.count[k] = Cardinality({at \in Positions : InKind(k, at)})

\* The counters of a report are exact, whatever the limits.
THEOREM CountsAreExact == DiffSpec => []CountsAddUp
<1>1. ASSUME DiffIInv
      PROVE  CountsAddUp
  BY <1>1, ReportMeans DEF CountsAddUp
<1> QED
  BY <1>1, DiffInvariantHolds, PTL

(***************************************************************************)
(* Where the limits fit, the total of a report is the number of tuples.    *)
(***************************************************************************)
THEOREM TotalsAreExact ==
  ASSUME LimitsFit
  PROVE  DiffSpec => []ReportAddsUp
<1>1. ASSUME DiffIInv
      PROVE  ReportAddsUp
  <2>1. SUFFICES ASSUME Reported
                 PROVE  /\ summary.Total = Cardinality(Positions)
                        /\ \A k \in Kinds :
                             summary.count[k] = Cardinality({at \in Positions : InKind(k, at)})
    BY DEF ReportAddsUp
  <2>2. Compared
    BY <2>1 DEF Compared
  <2> QED
    BY <1>1, <2>1, <2>2, ReportMeans DEF DiffIInv, TotalIsRight
<1> QED
  BY <1>1, DiffInvariantHolds, PTL

(***************************************************************************)
(* Where the limits fit, no diff walks more tuples than its limit.         *)
(***************************************************************************)
THEOREM TheLimitBounds ==
  ASSUME LimitsFit
  PROVE  DiffSpec => []LimitBoundsTheWalk
<1>1. ASSUME DiffIInv
      PROVE  LimitBoundsTheWalk
  <2>1. SUFFICES ASSUME pc \in {"walk", "report"}
                 PROVE  Cardinality(Positions) <= args.limit
    BY DEF LimitBoundsTheWalk
  <2>2. Compared
    BY <2>1 DEF Compared
  <2>3. DiffDims \in Lists
    BY <1>1, <2>2, ComparableMeans DEF DiffIInv, OnATuple
  <2> QED
    BY <1>1, <2>2, <2>3, PositionsAreBox DEF DiffIInv, TotalIsRight
<1> QED
  BY <1>1, DiffInvariantHolds, PTL
=============================================================================
