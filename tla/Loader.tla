-------------------------------- MODULE Loader --------------------------------
(***************************************************************************)
(* From a configuration file to an engine (loader.go): LoadFileWithOptions *)
(* reads and decodes a JSON file, NewFromConfig turns what it decoded into *)
(* the options of New, and New merges and validates them (gorege.go).      *)
(*                                                                         *)
(* A file is its extension, whether it is "ok", "unreadable" or            *)
(* "malformed", and the struct Config its content decodes to.  A condition *)
(* slot is a JSON value:                                                   *)
(*   [type |-> "string", text |-> s], [type |-> "array", elems |-> slots], *)
(*   [type |-> "other"] for a number, an object, true, false or null.      *)
(***************************************************************************)
EXTENDS RuleModel

CONSTANTS
  TrimSpace,    \* strings.TrimSpace on the strings in use
  ToUpper       \* strings.ToUpper on the strings in use

First(S) == CHOOSE x \in S : IsFirst(S, x)

\* A decoded struct Config: its arrays are lists, and dimensions are lists of strings.
Decoded(content) ==
  /\ content.dims \in Seq(Range(content.dims))
  /\ \A dim \in Range(content.dims) : dim.values \in Seq(Value)
  /\ content.rules \in Seq(Range(content.rules))
  /\ \A r \in Range(content.rules) :
       /\ r.conditions \in Seq(Range(r.conditions))
       /\ \A v \in Range(r.conditions) : v.type = "array" => v.elems \in Seq(Range(v.elems))

\* A file: only one that is ok has a content.
IsFile(f) ==
  f.state \in {"ok", "unreadable", "malformed"} /\ (f.state = "ok" => Decoded(f.content))

-----------------------------------------------------------------------------
\* Not in Action when the text names none.
parseAction(s) == ToUpper[TrimSpace[s]]

SlotDecodes(v) ==
  \/ v.type = "string"
  \/ v.type = "array" /\ \A e \in Range(v.elems) : e.type = "string"

\* Mutant of matcherFromSlot: a padded star is taken for a value.
matcherFromSlotUntrimmed(v) ==
  IF v.type = "array"
  THEN [kind |-> "anyOf", vals |-> [i \in DOMAIN v.elems |-> v.elems[i].text]]
  ELSE IF v.text = "*" THEN Wildcard
  ELSE [kind |-> "exact", vals |-> <<v.text>>]

\* A string is compared trimmed with the star and kept as it is otherwise.
matcherFromSlot(v) ==
  IF v.type = "array"
  THEN [kind |-> "anyOf", vals |-> [i \in DOMAIN v.elems |-> v.elems[i].text]]
  ELSE IF TrimSpace[v.text] = "*" THEN Wildcard
  ELSE [kind |-> "exact", vals |-> <<v.text>>]

RuleDecodes(r) ==
  parseAction(r.action) \in Action /\ \A v \in Range(r.conditions) : SlotDecodes(v)

\* The error of the first rule that does not decode: its action comes first.
RulesError(rules) ==
  LET bad == {j \in DOMAIN rules : ~RuleDecodes(rules[j])}
  IN  IF bad = {} THEN "nil"
      ELSE IF parseAction(rules[First(bad)].action) \notin Action THEN "invalid action"
      ELSE "bad condition"

rulesFromFile(rules) ==
  [j \in DOMAIN rules |->
     [act |-> parseAction(rules[j].action),
      m |-> [i \in DOMAIN rules[j].conditions |-> matcherFromSlot(rules[j].conditions[i])]]]

DimensionsError(dims) ==
  IF \E i \in DOMAIN dims : dims[i].values = <<>> THEN "no values" ELSE "nil"

dimensionsFromFile(dims) == [i \in DOMAIN dims |-> dims[i].values]

\* A name is kept trimmed; an empty one leaves the dimension anonymous.
dimensionNames(dims) == [i \in DOMAIN dims |-> TrimSpace[dims[i].name]]

-----------------------------------------------------------------------------
\* The last option of a kind decides; without one the setting keeps its zero.
Setting(opts, kind, zero) ==
  LET set == {i \in DOMAIN opts : opts[i].kind = kind}
  IN  IF set = {} THEN zero
      ELSE opts[CHOOSE i \in set : \A k \in set : k <= i].value

\* What New returns: an error, or the engine and the limit of its analysis.
New(opts) ==
  LET c == [dims |-> Setting(opts, "dimensions", <<>>), rules |-> Setting(opts, "rules", <<>>)]
  IN  [err |-> validateEngine(c), cfg |-> c,
       analysisLimit |-> Setting(opts, "analysisLimit", 0)]

Refused(err) == [err |-> err, cfg |-> [dims |-> <<>>, rules |-> <<>>], analysisLimit |-> 0]

NewFromConfig(content, opts) ==
  IF DimensionsError(content.dims) /= "nil" THEN Refused(DimensionsError(content.dims))
  ELSE IF RulesError(content.rules) /= "nil" THEN Refused(RulesError(content.rules))
  ELSE New(<<[kind |-> "dimensions", value |-> dimensionsFromFile(content.dims)],
             [kind |-> "rules", value |-> rulesFromFile(content.rules)]>> \o opts)

LoadFileWithOptions(f, opts) ==
  IF f.ext /= ".json" THEN Refused("ErrUnsupportedConfigFormat")
  ELSE IF f.state /= "ok" THEN Refused(f.state)
  ELSE NewFromConfig(f.content, opts)

-----------------------------------------------------------------------------
(***************************************************************************)
(* What the structure of a file must be according to the JSON schema       *)
(* (schema/gorege-config.schema.json): an action in one of two spellings,  *)
(* strings and non-empty lists of strings for conditions, any values.      *)
(***************************************************************************)
SchemaSlot(v) ==
  \/ v.type = "string"
  \/ v.type = "array" /\ v.elems /= <<>> /\ \A e \in Range(v.elems) : e.type = "string"

SchemaAccepts(content) ==
  \A r \in Range(content.rules) :
    r.action \in Action /\ \A v \in Range(r.conditions) : SchemaSlot(v)

(***************************************************************************)
(* The file as a person reads it: rules from the top, a star for any       *)
(* declared value, a list for its members, nothing for what is left out.   *)
(***************************************************************************)
SlotAdmits(v, s, declared) ==
  \/ v.type = "string" /\ IF TrimSpace[v.text] = "*" THEN s \in declared ELSE v.text = s
  \/ v.type = "array" /\ \E e \in Range(v.elems) : e.text = s

RuleAdmits(r, dims, t) ==
  \A i \in DOMAIN dims :
    IF i \in DOMAIN r.conditions
    THEN SlotAdmits(r.conditions[i], t[i], Range(dims[i].values))
    ELSE t[i] \in Range(dims[i].values)

SlotNames(v) == IF v.type = "array" THEN {e.text : e \in Range(v.elems)} ELSE {v.text}

\* What a file must be to be used at all.
FileLoads(f) ==
  /\ f.ext = ".json" /\ f.state = "ok"
  /\ \A dim \in Range(f.content.dims) : dim.values /= <<>>
  /\ \A r \in Range(f.content.rules) :
       /\ ToUpper[TrimSpace[r.action]] \in Action
       /\ \A v \in Range(r.conditions) : SlotDecodes(v)
       /\ Len(r.conditions) <= Len(f.content.dims)
       /\ \A i \in DOMAIN r.conditions :
            \/ r.conditions[i].type = "string" /\ TrimSpace[r.conditions[i].text] = "*"
            \/ SlotNames(r.conditions[i]) \subseteq Range(f.content.dims[i].values)

FileAllows(content, t) ==
  \E j \in DOMAIN content.rules :
    /\ RuleAdmits(content.rules[j], content.dims, t)
    /\ \A k \in 1 .. j - 1 : ~RuleAdmits(content.rules[k], content.dims, t)
    /\ ToUpper[TrimSpace[content.rules[j].action]] = "ALLOW"
=============================================================================
