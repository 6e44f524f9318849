------------------------------- MODULE Commands -------------------------------
(***************************************************************************)
(* The gorege command line (cmd/gorege/main.go): each invocation loads a   *)
(* file, asks the engine one question, and reports on stdout, on stderr    *)
(* and by its exit code.  Between two invocations the file may be edited.  *)
(* "diff" is in module Diff.                                               *)
(*                                                                         *)
(* The searches of closest and closest-in answer what module Closest shows *)
(* they answer: some nearest tuple.  The warnings of a file are given with *)
(* it, as New computes them for its rules (see WarningAnalysis).           *)
(***************************************************************************)
EXTENDS Loader, ClosestModel

CONSTANTS
  Files,        \* the contents the configuration file has over time
  HasWarnings,  \* file -> New warns about its rules
  Words,        \* the values of the command line
  Selectors,    \* the dimension arguments of closest-in
  Atoi          \* strconv.Atoi: argument -> the integer it spells, if it spells one

\* Atoi returns an int: converting it to an int again does not change it.
ASSUME CommandsAssumption ==
  /\ \A f \in Files : IsFile(f)
  /\ HasWarnings \in [Files -> BOOLEAN]
  /\ DOMAIN Atoi \subseteq Selectors
  /\ \A arg \in DOMAIN Atoi : Atoi[arg] \in Int /\ toInt(Atoi[arg]) = Atoi[arg]

VARIABLES
  file,     \* the configuration file
  ran       \* the invocation that has just ended; NotRun before the next

vars == <<file, ran>>

Verb == {"check", "explain", "partial-check", "closest", "closest-in", "lint"}

(***************************************************************************)
(* An ended invocation: its command line, the exit code, where warnings    *)
(* went, and what is on stdout.                                            *)
(***************************************************************************)
NotRun == [verb |-> "none", sel |-> "", values |-> <<>>, exit |-> 0,
           warned |-> "nowhere", out |-> "nothing", conditions |-> <<>>]

TypeOK ==
  /\ file \in Files
  /\ ran.verb \in Verb \cup {"none", "unknown"}
  /\ ran.exit \in 0 .. 2
  /\ ran.warned \in {"nowhere", "stderr", "stdout"}
  /\ ran.out \in {"nothing", "true", "false", "explanation", "not found", "found", "ok", "warnings"}
  /\ ran.conditions \in Seq(Value)

-----------------------------------------------------------------------------
Loaded == LoadFileWithOptions(file, <<>>)
Dims == Loaded.cfg.dims
Names == dimensionNames(file.content.dims)

Ended(verb, values) == [NotRun EXCEPT !.verb = verb, !.values = values]

\* Mutant of Usage: the exit code of sysexits.h.
UsageSysexits(verb, values) == [Ended(verb, values) EXCEPT !.exit = 64]

Usage(verb, values) == [Ended(verb, values) EXCEPT !.exit = 2]

Failed(verb, values) == [Ended(verb, values) EXCEPT !.exit = 1]

\* The engine's warnings go to stderr before the question is asked.
Warned(call) ==
  [call EXCEPT !.warned = IF HasWarnings[file] THEN "stderr" ELSE "nowhere"]

\* check and partial-check print the answer, and exit 1 on a refusal.
Said(verb, values, yes) ==
  [Warned(Ended(verb, values)) EXCEPT
     !.out = IF yes THEN "true" ELSE "false", !.exit = IF yes THEN 0 ELSE 1]

FirstMatch(values, partial) ==
  LET found == Matching(Loaded.cfg, values, partial)
  IN  IF found = {} THEN noMatch ELSE First(found)

Permits(values, partial) ==
  LET j == FirstMatch(values, partial)
  IN  j /= noMatch /\ Rule(Loaded.cfg, j).act = "ALLOW"

Init == file \in Files /\ ran = NotRun

\* An invocation starts when the one before it has been looked at.
Run(result) ==
  /\ ran = NotRun
  /\ ran' = result
  /\ UNCHANGED file

runCheck(values) ==
  Run(IF Loaded.err /= "nil" THEN Failed("check", values)
      ELSE IF Len(values) /= Len(Dims) THEN Warned(Failed("check", values))
      ELSE Said("check", values, Permits(values, FALSE)))

\* explain exits 0 whatever the decision is.
runExplain(values) ==
  Run(IF Loaded.err /= "nil" THEN Failed("explain", values)
      ELSE IF Len(values) /= Len(Dims) THEN Warned(Failed("explain", values))
      ELSE [Warned(Ended("explain", values)) EXCEPT !.out = "explanation"])

runPartialCheck(values) ==
  Run(IF Loaded.err /= "nil" THEN Failed("partial-check", values)
      ELSE IF Len(values) > Len(Dims) THEN Warned(Failed("partial-check", values))
      ELSE Said("partial-check", values, Permits(values, TRUE)))

\* What closest and closest-in print of a search over these dimensions.
Searched(call, reach) ==
  LET near == Nearest(Loaded.cfg, call.values, reach)
  IN  IF near = {} THEN Run([call EXCEPT !.out = "not found", !.exit = 1])
      ELSE \E t \in near : Run([call EXCEPT !.out = "found", !.conditions = t])

runClosest(values) ==
  IF Loaded.err /= "nil" THEN Run(Failed("closest", values))
  ELSE IF Len(values) /= Len(Dims) THEN Run(Warned(Usage("closest", values)))
  ELSE Searched(Warned(Ended("closest", values)), DOMAIN values)

\* Mutant of Selector: the argument is always a name.
SelectorByName(arg) == [type |-> "string", val |-> arg]

\* An argument that spells an integer is an index, any other is a name.
Selector(arg) ==
  IF arg \in DOMAIN Atoi
  THEN [type |-> "int", val |-> Atoi[arg]]
  ELSE [type |-> "string", val |-> arg]

runClosestIn(arg, values) ==
  LET call == [Ended("closest-in", values) EXCEPT !.sel = arg]
      i == resolveDim(Selector(arg), Names)
  IN  IF Loaded.err /= "nil" THEN Run([call EXCEPT !.exit = 1])
      ELSE IF Len(values) /= Len(Dims) THEN Run([Warned(call) EXCEPT !.exit = 2])
      ELSE IF i = noMatch THEN Run([Warned(call) EXCEPT !.exit = 1])
      ELSE Searched(Warned(call), {i + 1})

\* lint's output is the warnings.
runLint ==
  Run(IF Loaded.err /= "nil" THEN Failed("lint", <<>>)
      ELSE IF HasWarnings[file]
           THEN [Failed("lint", <<>>) EXCEPT !.out = "warnings", !.warned = "stdout"]
           ELSE [Ended("lint", <<>>) EXCEPT !.out = "ok"])

\* No path, no dimension, a second path for lint, or no known command.
usage == \E verb \in Verb \cup {"unknown"} : Run(Usage(verb, <<>>))

\* The caller has seen the result; an editor may have replaced the file.
Again ==
  /\ ran /= NotRun
  /\ ran' = NotRun
  /\ file' \in Files

CommandLines == UNION {[1 .. n -> Words] : n \in 0 .. 3}

Next ==
  \/ \E values \in CommandLines :
       \/ runCheck(values) \/ runExplain(values) \/ runPartialCheck(values)
       \/ runClosest(values)
       \/ \E arg \in Selectors : runClosestIn(arg, values)
  \/ runLint
  \/ usage
  \/ Again

Spec == Init /\ [][Next]_vars

-----------------------------------------------------------------------------
(***************************************************************************)
(* check exits 0 exactly when the file loads and, read from the top, its   *)
(* first rule for these values allows them: nothing of a rule is lost or   *)
(* changed between the text of the file and the exit code.                 *)
(***************************************************************************)
CheckReadsTheFile ==
  ran.verb = "check" /\ ran.exit /= 2 =>
    (ran.exit = 0 <=>
       /\ FileLoads(file)
       /\ Len(ran.values) = Len(file.content.dims)
       /\ FileAllows(file.content, ran.values))

\* The dimensions an argument of closest-in names: by index or by trimmed name.
Axis(arg) ==
  {i \in DOMAIN file.content.dims :
     IF arg \in DOMAIN Atoi
     THEN i = Atoi[arg] + 1
     ELSE TrimSpace[file.content.dims[i].name] = arg}

(***************************************************************************)
(* What closest and closest-in propose is allowed by the file, differs     *)
(* from the input, and for closest-in only on the axis its argument names. *)
(***************************************************************************)
ProposalsHold ==
  ran.out = "found" =>
    /\ FileAllows(file.content, ran.conditions)
    /\ ran.conditions /= ran.values
    /\ ran.verb = "closest-in" => Changed(ran.values, ran.conditions) \subseteq Axis(ran.sel)

(***************************************************************************)
(* The schema "validates structure only; semantic checks (...) run at      *)
(* engine construction": a file it accepts fails to load for the values or *)
(* the width of its rules only.                                            *)
(***************************************************************************)
SchemaCatchesStructure ==
  file.ext = ".json" /\ file.state = "ok" /\ SchemaAccepts(file.content) =>
    Loaded.err \in {"nil", "ErrUnknownDimensionValue", "ErrRuleTooWide"}
=============================================================================
