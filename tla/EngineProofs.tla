----------------------------- MODULE EngineProofs -----------------------------
(***************************************************************************)
(* Proofs about Engine: what PartialCheck promises, for every              *)
(* configuration and every prefix.                                         *)
(***************************************************************************)
EXTENDS Engine, TLAPS

(***************************************************************************)
(* The inductive invariant keeps what the answer of PartialCheck was       *)
(* computed from: the first rule its scan stops at.                        *)
(***************************************************************************)
PartialAnswerIsFirst ==
  PartialAnswered =>
    /\ Len(last.values) <= Len(cfg.dims)
    /\ IsFirst(Matching(cfg, last.values, TRUE), last.rule)
    /\ last.allowed = (last.rule /= noMatch /\ Rule(cfg, last.rule).act = "ALLOW")

IInv == TypeOK /\ PartialAnswerIsFirst

\* The parts of a configuration have the types the steps below rely on.
LEMMA RuleTypes ==
  ASSUME cfg \in Config
  PROVE  /\ Len(cfg.rules) \in Nat /\ Len(cfg.dims) \in Nat
         /\ RuleIndexes(cfg) = 0 .. Len(cfg.rules) - 1
         /\ \A j \in RuleIndexes(cfg) : Rule(cfg, j) \in RuleType /\ j \in Int /\ j /= noMatch
BY DEF Config, RuleIndexes, Rule, noMatch

\* A refusal is a response and names no rule.
LEMMA FailedType ==
  ASSUME NEW op \in {"none", "New", "Check", "Explain", "PartialCheck"},
         NEW v \in Seq(Value),
         NEW err \in {"nil", "ErrArityMismatch", "ErrRuleTooWide", "ErrUnknownDimensionValue"}
  PROVE  /\ Failed(op, v, err) \in Response
         /\ Failed(op, v, err).rule = noMatch
         /\ Failed(op, v, err).op = op
         /\ Failed(op, v, err).err = err
BY DEF Failed, Response, noMatch

\* Between calls the response names no rule.
LEMMA NoCallType == NoCall \in Response /\ NoCall.rule = noMatch /\ NoCall.op = "none"
<1>1. <<>> \in Seq(Value)
  OBVIOUS
<1> QED
  BY <1>1 DEF NoCall, Failed, Response, noMatch

\* An answer is a response and names the rule it was made from.
LEMMA AnswerType ==
  ASSUME cfg \in Config, NEW op \in {"Check", "Explain", "PartialCheck"},
         NEW v \in Seq(Value), NEW x \in RuleIndexes(cfg) \cup {noMatch}
  PROVE  /\ Answer(op, v, x) \in Response
         /\ Answer(op, v, x).rule = x
         /\ Answer(op, v, x).op = op
         /\ Answer(op, v, x).values = v
         /\ Answer(op, v, x).allowed = (x /= noMatch /\ Rule(cfg, x).act = "ALLOW")
<1>1. x \in Nat \cup {noMatch}
  BY RuleTypes
<1> QED
  BY <1>1 DEF Answer, Response

\* Every input is a sequence of strings.
LEMMA InputsType == cfg \in Config => \A v \in Inputs : v \in Seq(Value)
<1> SUFFICES ASSUME cfg \in Config, NEW v \in Inputs PROVE v \in Seq(Value)
  OBVIOUS
<1>1. Len(cfg.dims) + 1 \in Nat
  BY RuleTypes
<1>2. PICK k \in 0 .. Len(cfg.dims) + 1 : v \in [1 .. k -> Value]
  BY DEF Inputs, Tuples
<1>3. k \in Nat
  BY <1>1
<1> QED
  BY <1>2, <1>3

\* The invariant holds before New.
LEMMA InitInv == Init => IInv
<1> SUFFICES ASSUME Init PROVE IInv
  OBVIOUS
<1>1. cfg \in Config
  BY ConfigsAssumption DEF Init
<1>2. last \in Response /\ last.rule = noMatch /\ last.op = "none"
  BY NoCallType DEF Init
<1> QED
  BY <1>1, <1>2 DEF Init, IInv, TypeOK, PartialAnswerIsFirst, PartialAnswered

\* New keeps it: it answers with an error or none, and with no rule.
LEMMA NewInv == IInv /\ New => IInv'
<1> SUFFICES ASSUME IInv, New PROVE IInv'
  OBVIOUS
<1>1. validateEngine(cfg) \in {"nil", "ErrRuleTooWide", "ErrUnknownDimensionValue"}
  BY DEF validateEngine
<1>2. <<>> \in Seq(Value) /\ "New" \in {"none", "New", "Check", "Explain", "PartialCheck"}
  OBVIOUS
<1>3. last' = Failed("New", <<>>, validateEngine(cfg))
  BY DEF New
<1>4. last' \in Response /\ last'.rule = noMatch /\ last'.op = "New"
  BY <1>1, <1>2, <1>3 DEF Failed, Response, noMatch
<1> QED
  BY <1>4 DEF IInv, TypeOK, New, PartialAnswerIsFirst, PartialAnswered

\* Taking the answer keeps it.
LEMMA ReturnInv == IInv /\ Return => IInv'
<1> SUFFICES ASSUME IInv, Return PROVE IInv'
  OBVIOUS
<1>1. /\ last' \in Response /\ last'.rule = noMatch /\ last'.op = "none"
  BY NoCallType DEF Return
<1> QED
  BY <1>1 DEF IInv, TypeOK, Return, PartialAnswerIsFirst, PartialAnswered

\* Check and Explain keep it: they answer by the rules, but not partially.
LEMMA CheckInv == \A v : IInv /\ v \in Inputs /\ (Check(v) \/ Explain(v)) => IInv'
<1> SUFFICES ASSUME NEW v, IInv, v \in Inputs, Check(v) \/ Explain(v) PROVE IInv'
  OBVIOUS
<1>1. cfg \in Config /\ v \in Seq(Value)
  BY InputsType DEF IInv, TypeOK
<1>2. UNCHANGED <<cfg, status>>
  BY DEF Check, Explain
<1>3. PICK op \in {"Check", "Explain"} :
        \/ last' = Failed(op, v, "ErrArityMismatch")
        \/ \E x \in RuleIndexes(cfg) \cup {noMatch} : last' = Answer(op, v, x)
  BY DEF Check, Explain, Respond
<1>4. last' \in Response /\ last'.op = op /\ last'.rule \in RuleIndexes(cfg) \cup {noMatch}
  BY <1>1, <1>3, FailedType, AnswerType
<1> QED
  BY <1>2, <1>4 DEF IInv, TypeOK, PartialAnswerIsFirst, PartialAnswered

\* PartialCheck establishes it: it answers by the first rule its scan stops at.
LEMMA PartialCheckInv == \A v : IInv /\ v \in Inputs /\ PartialCheck(v) => IInv'
<1> SUFFICES ASSUME NEW v, IInv, v \in Inputs, PartialCheck(v) PROVE IInv'
  OBVIOUS
<1>1. cfg \in Config /\ v \in Seq(Value)
  BY InputsType DEF IInv, TypeOK
<1>2. UNCHANGED <<cfg, status>>
  BY DEF PartialCheck
<1>3. CASE Len(v) > Len(cfg.dims)
  <2>1. last' = Failed("PartialCheck", v, "ErrArityMismatch")
    BY <1>3 DEF PartialCheck
  <2>2. last' \in Response /\ last'.rule = noMatch /\ last'.err = "ErrArityMismatch"
    BY <1>1, <2>1, FailedType
  <2> QED
    BY <1>2, <2>2 DEF IInv, TypeOK, PartialAnswerIsFirst, PartialAnswered
<1>4. CASE ~(Len(v) > Len(cfg.dims))
  <2>1. PICK x \in RuleIndexes(cfg) \cup {noMatch} :
          last' = Answer("PartialCheck", v, x) /\ IsFirst(Matching(cfg, v, TRUE), x)
    BY <1>4 DEF PartialCheck, Respond
  <2>2. /\ last' \in Response /\ last'.rule = x /\ last'.values = v
        /\ last'.allowed = (x /= noMatch /\ Rule(cfg, x).act = "ALLOW")
    BY <1>1, <2>1, AnswerType
  <2>3. Len(v) <= Len(cfg.dims)
    BY <1>1, <1>4, RuleTypes
  <2>4. TypeOK'
    BY <1>2, <2>2 DEF IInv, TypeOK
  <2>5. Matching(cfg, v, TRUE)' = Matching(cfg, v, TRUE)
    BY <1>2 DEF Matching
  <2>6. PartialAnswerIsFirst'
    BY <1>2, <2>1, <2>2, <2>3 DEF PartialAnswerIsFirst, PartialAnswered, Matching, RuleIndexes, Rule
  <2> QED
    BY <2>4, <2>6 DEF IInv
<1> QED
  BY <1>3, <1>4

(***************************************************************************)
(* In every reachable state the answer of PartialCheck is that of the      *)
(* first rule its linear scan matches (check.go, eval and ruleMatches),    *)
(* and what the caller is told of it follows from that rule's action.      *)
(***************************************************************************)
THEOREM InvariantHolds == Spec => []IInv
<1>1. IInv /\ [Next]_vars => IInv'
  <2> SUFFICES ASSUME IInv, [Next]_vars PROVE IInv'
    OBVIOUS
  <2>1. CASE UNCHANGED vars
    BY <2>1 DEF vars, IInv, TypeOK, PartialAnswerIsFirst, PartialAnswered, Matching,
                RuleIndexes, Rule
  <2> QED
    BY <2>1, NewInv, ReturnInv, CheckInv, PartialCheckInv DEF Next
<1> QED
  BY <1>1, InitInv, PTL DEF Spec

(***************************************************************************)
(* Every answer is well formed and names a rule of the engine.             *)
(***************************************************************************)
THEOREM TypeCorrect == Spec => []TypeOK
<1>1. IInv => TypeOK
  BY DEF IInv
<1> QED
  BY <1>1, InvariantHolds, PTL

-----------------------------------------------------------------------------
(***************************************************************************)
(* An ALLOW rule that matches a completion stops the scan of the prefix.   *)
(***************************************************************************)
LEMMA AllowMatchesPrefix ==
  ASSUME cfg \in Config, NEW p \in Seq(Value), NEW t \in Completions(cfg, p),
         NEW j \in Matching(cfg, t, FALSE), Rule(cfg, j).act = "ALLOW"
  PROVE  j \in Matching(cfg, p, TRUE)
<1>1. \A i \in 1 .. Len(p) : t[i] = p[i]
  BY DEF Completions
<1>2. Len(p) \in Nat /\ Len(cfg.dims) \in Nat
  BY RuleTypes
<1> QED
  BY <1>1, <1>2 DEF Matching, ruleMatches, unconstrainedMatch

(***************************************************************************)
(* A DENY rule the scan of a prefix stops at asks nothing of the values to *)
(* come but that their dimensions admit them; a completion some rule       *)
(* matches satisfies that, so the DENY rule matches it too.                *)
(***************************************************************************)
LEMMA DenyMatchesCompletion ==
  ASSUME cfg \in Config, NEW p \in Seq(Value), NEW t \in Completions(cfg, p),
         NEW j \in Matching(cfg, t, FALSE),
         NEW k \in Matching(cfg, p, TRUE), Rule(cfg, k).act = "DENY"
  PROVE  k \in Matching(cfg, t, FALSE)
<1>1. \A i \in 1 .. Len(p) : t[i] = p[i]
  BY DEF Completions
<1>2. Len(p) \in Nat /\ Len(cfg.dims) \in Nat
  BY RuleTypes
<1>3. \A i \in 1 .. Len(cfg.dims) : Open(cfg.dims[i], t[i])
  BY DEF Matching, ruleMatches, matches
<1> QED
  BY <1>1, <1>2, <1>3 DEF Matching, ruleMatches, matches, unconstrainedMatch

(***************************************************************************)
(* A prefix PartialCheck refuses has no allowed completion, for every      *)
(* configuration: a completion allowed by rule j makes the scan stop at or *)
(* before j, and a DENY rule it stops at would match the completion first. *)
(***************************************************************************)
THEOREM PartialDenySound == Spec => []PartialDenyIsFinal
<1>1. IInv => PartialDenyIsFinal
  <2> SUFFICES ASSUME IInv, PartialAnswered, ~last.allowed,
                      NEW t \in Completions(cfg, last.values), AllowedTuple(t)
               PROVE  FALSE
    BY DEF PartialDenyIsFinal
  <2>1. /\ cfg \in Config /\ last.values \in Seq(Value)
        /\ IsFirst(Matching(cfg, last.values, TRUE), last.rule)
        /\ ~(last.rule /= noMatch /\ Rule(cfg, last.rule).act = "ALLOW")
    BY DEF IInv, TypeOK, Response, PartialAnswerIsFirst
  <2>2. PICK j \in Matching(cfg, t, FALSE) :
          /\ \A k \in Matching(cfg, t, FALSE) : j <= k
          /\ Rule(cfg, j).act = "ALLOW"
    BY DEF AllowedTuple
  <2>3. j \in Matching(cfg, last.values, TRUE)
    BY <2>1, <2>2, AllowMatchesPrefix
  <2> DEFINE k == last.rule
  <2>4. k \in Matching(cfg, last.values, TRUE) /\ k <= j
    BY <2>1, <2>3 DEF IsFirst
  <2>5. j \in RuleIndexes(cfg) /\ k \in RuleIndexes(cfg)
    BY <2>3, <2>4 DEF Matching
  <2>6. Rule(cfg, k).act = "DENY"
    BY <2>1, <2>5, RuleTypes DEF RuleType, Action
  <2>7. k \in Matching(cfg, t, FALSE)
    BY <2>1, <2>2, <2>4, <2>6, DenyMatchesCompletion
  <2>8. j = k
    <3>1. j <= k /\ k <= j
      BY <2>2, <2>4, <2>7
    <3>2. j \in Int /\ k \in Int
      BY <2>1, <2>5, RuleTypes
    <3> HIDE DEF k
    <3> QED
      BY <3>1, <3>2
  <2> QED
    BY <2>2, <2>6, <2>8
<1> QED
  BY <1>1, InvariantHolds, PTL

(***************************************************************************)
(* On a full tuple PartialCheck gives the verdict of Check.                *)
(***************************************************************************)
THEOREM PartialCheckOfFullTuple == Spec => []PartialCheckOfFullTupleIsCheck
<1>1. IInv => PartialCheckOfFullTupleIsCheck
  <2> SUFFICES ASSUME IInv, PartialAnswered, Len(last.values) = Len(cfg.dims)
               PROVE  last.allowed <=> AllowedTuple(last.values)
    BY DEF PartialCheckOfFullTupleIsCheck
  <2> DEFINE S == Matching(cfg, last.values, FALSE)
             k == last.rule
  <2>1. cfg \in Config /\ last.allowed \in BOOLEAN
    BY DEF IInv, TypeOK, Response
  <2>2. Matching(cfg, last.values, TRUE) = S
    BY <2>1, RuleTypes DEF Matching, ruleMatches
  <2>3. /\ IsFirst(S, k)
        /\ last.allowed = (k /= noMatch /\ Rule(cfg, k).act = "ALLOW")
    BY <2>2 DEF IInv, PartialAnswerIsFirst
  <2>4. \A j \in S : j \in Int /\ j /= noMatch
    BY <2>1, RuleTypes DEF Matching
  <2>5. AllowedTuple(last.values) <=>
          \E j \in S : (\A i \in S : j <= i) /\ Rule(cfg, j).act = "ALLOW"
    BY DEF AllowedTuple
  <2> HIDE DEF S, k
  <2>6. last.allowed <=> AllowedTuple(last.values)
    <3>1. CASE k = noMatch
      <4>1. S = {}
        BY <2>3, <2>4, <3>1 DEF IsFirst
      <4> QED
        BY <2>3, <2>5, <3>1, <4>1
    <3>2. CASE k /= noMatch
      <4>1. k \in S /\ \A i \in S : k <= i
        BY <2>3, <3>2 DEF IsFirst
      <4>2. \A j \in S : (\A i \in S : j <= i) => j = k
        BY <2>4, <4>1
      <4> QED
        BY <2>3, <2>5, <3>2, <4>1, <4>2, Zenon
    <3> QED
      BY <3>1, <3>2
  <2> QED
    BY <2>6
<1> QED
  BY <1>1, InvariantHolds, PTL
=============================================================================
