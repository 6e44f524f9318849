-------------------------------- MODULE Engine --------------------------------
(***************************************************************************)
(* What a gorege engine promises its callers: New validates a              *)
(* configuration once, and from then on Check, Explain and PartialCheck    *)
(* answer from the linear first-match reading of the rules (gorege.go,     *)
(* check.go).  The engine is immutable: a call changes nothing but the     *)
(* answer it returns, kept in "last" until the caller has taken it.        *)
(* RuleTrie shows that the trie behind Check implements this specification.*)
(***************************************************************************)
EXTENDS RuleModel

CONSTANT Configs    \* the configurations New is called with

ASSUME ConfigsAssumption == Configs \subseteq Config

VARIABLES
  cfg,      \* the options handed to New
  status,   \* "new" | "ready" | "rejected"
  last      \* what the call in progress answers; NoCall between calls

vars == <<cfg, status, last>>

\* "rule" is the RuleIndex of an Explanation; for Check and PartialCheck it is
\* the index eval stopped at, which the caller does not see.
Response == [op      : {"none", "New", "Check", "Explain", "PartialCheck"},
             values  : Seq(Value),
             err     : {"nil", "ErrArityMismatch", "ErrRuleTooWide",
                        "ErrUnknownDimensionValue"},
             allowed : BOOLEAN,
             rule    : Nat \cup {noMatch}]

Failed(op, values, err) ==
  [op |-> op, values |-> values, err |-> err, allowed |-> FALSE, rule |-> noMatch]

\* Mutant of Answer: the rule is reported by its 1-based number.
AnswerOneBased(op, values, x) ==
  [op |-> op, values |-> values, err |-> "nil",
   allowed |-> x /= noMatch /\ Rule(cfg, x).act = "ALLOW",
   rule |-> IF x = noMatch THEN noMatch ELSE x + 1]

Answer(op, values, x) ==
  [op |-> op, values |-> values, err |-> "nil",
   allowed |-> x /= noMatch /\ Rule(cfg, x).act = "ALLOW", rule |-> x]

NoCall == Failed("none", <<>>, "nil")

Idle == status = "ready" /\ last = NoCall

\* The inputs of any length up to one more than there are dimensions: all longer
\* inputs are refused the same way.
Inputs == UNION {Tuples(k) : k \in 0 .. Len(cfg.dims) + 1}

(***************************************************************************)
(* Types of the state; the rule an answer names is a rule of the engine.   *)
(***************************************************************************)
TypeOK ==
  /\ cfg \in Config
  /\ status \in {"new", "ready", "rejected"}
  /\ last \in Response
  /\ last.rule \in RuleIndexes(cfg) \cup {noMatch}

Init ==
  /\ cfg \in Configs
  /\ status = "new"
  /\ last = NoCall

New ==
  /\ status = "new"
  /\ status' = IF validateEngine(cfg) = "nil" THEN "ready" ELSE "rejected"
  /\ last' = Failed("New", <<>>, validateEngine(cfg))
  /\ UNCHANGED cfg

\* The answer of the first rule that matches; "not allowed" when none does.
Respond(op, values, partial) ==
  \E x \in RuleIndexes(cfg) \cup {noMatch} :
    /\ last' = Answer(op, values, x)
    /\ IsFirst(Matching(cfg, values, partial), x)

Check(values) ==
  /\ Idle
  /\ IF Len(values) /= Len(cfg.dims)
     THEN last' = Failed("Check", values, "ErrArityMismatch")
     ELSE Respond("Check", values, FALSE)
  /\ UNCHANGED <<cfg, status>>

Explain(values) ==
  /\ Idle
  /\ IF Len(values) /= Len(cfg.dims)
     THEN last' = Failed("Explain", values, "ErrArityMismatch")
     ELSE Respond("Explain", values, FALSE)
  /\ UNCHANGED <<cfg, status>>

PartialCheck(values) ==
  /\ Idle
  /\ IF Len(values) > Len(cfg.dims)
     THEN last' = Failed("PartialCheck", values, "ErrArityMismatch")
     ELSE Respond("PartialCheck", values, TRUE)
  /\ UNCHANGED <<cfg, status>>

\* The caller takes the answer of New or of a call.
Return ==
  /\ last /= NoCall
  /\ last' = NoCall
  /\ UNCHANGED <<cfg, status>>

Next ==
  \/ New
  \/ Return
  \/ \E values \in Inputs : Check(values) \/ Explain(values) \/ PartialCheck(values)

Spec == Init /\ [][Next]_vars

-----------------------------------------------------------------------------
\* A full tuple is allowed: some rule matches it and the first that does allows.
AllowedTuple(t) ==
  \E j \in Matching(cfg, t, FALSE) :
    /\ \A k \in Matching(cfg, t, FALSE) : j <= k
    /\ Rule(cfg, j).act = "ALLOW"

PartialAnswered == last.op = "PartialCheck" /\ last.err = "nil"

(***************************************************************************)
(* A prefix PartialCheck refuses is refused for good: no completion of it  *)
(* passes Check.  The two read the rules differently (a trailing ALLOW     *)
(* matcher counts as met, a trailing DENY matcher only as a wildcard), so  *)
(* this is about the rules a partial scan may stop at too early.           *)
(***************************************************************************)
PartialDenyIsFinal ==
  PartialAnswered /\ ~last.allowed =>
    \A t \in Completions(cfg, last.values) : ~AllowedTuple(t)

(***************************************************************************)
(* On a full tuple PartialCheck, which always scans the rules, gives the   *)
(* verdict of Check: the partial reading leaves nothing behind once every  *)
(* dimension has a value, undeclared values and short rules included.      *)
(***************************************************************************)
PartialCheckOfFullTupleIsCheck ==
  PartialAnswered /\ Len(last.values) = Len(cfg.dims) =>
    (last.allowed <=> AllowedTuple(last.values))

(***************************************************************************)
(* The documentation of PartialCheck ("it answers whether any completion   *)
(* could still be allowed"): a prefix it accepts has an allowed            *)
(* completion.                                                             *)
(***************************************************************************)
PartialAllowIsReachable ==
  PartialAnswered /\ last.allowed =>
    \E t \in Completions(cfg, last.values) : AllowedTuple(t)
=============================================================================
