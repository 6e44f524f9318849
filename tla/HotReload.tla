------------------------------- MODULE HotReload -------------------------------
(***************************************************************************)
(* The example HTTP authorization server (examples/http_authz/main.go): an *)
(* engine behind an atomic pointer, handlers that load the pointer and     *)
(* then evaluate, a goroutine that reloads the file on SIGHUP, and main,   *)
(* which starts and stops the server.  The file is edited by others.       *)
(***************************************************************************)
EXTENDS Loader

CONSTANTS
  Request,      \* the handlers that may run at once
  Role, Path,   \* X-Role headers and URL paths, a path being its segments
  Method,
  Files,        \* the contents the rules file has over time
  Debug,        \* GOREGE_DEBUG is set
  SigCap,       \* the capacity of sigs: 1
  NoEngine      \* the nil of atomic.Pointer

ASSUME HotReloadAssumption == SigCap \in Nat \ {0} /\ Debug \in BOOLEAN

VARIABLES
  phase,      \* of main: "starting", "serving", "draining" or "exited"
  file,       \* the rules file
  signalled,  \* SIGHUP was sent after the last edit of the file, to a server that listens to it
  ptr,        \* authzEngine.ptr
  sigs,       \* how many SIGHUPs are in the channel
  load,       \* the load in progress: of main, then of the reloading goroutine
  req         \* the handlers

vars == <<phase, file, signalled, ptr, sigs, load, req>>

-----------------------------------------------------------------------------
\* What LoadFileWithOptions returns for each content of the file.
Outcome == [f \in Files |-> LoadFileWithOptions(f, <<>>)]

Loads(f) == Outcome[f].err = "nil"

InForce == {Outcome[f].cfg : f \in {f \in Files : Loads(f)}}

extractRole(header) ==
  IF TrimSpace[header] = "" THEN "anonymous" ELSE TrimSpace[header]

\* The first segment that is not empty; slashes at both ends are trimmed away.
resourceFromPath(path) ==
  LET named == {i \in DOMAIN path : path[i] /= ""}
  IN  IF named = {} THEN "" ELSE path[First(named)]

Question ==
  {<<extractRole(h), m, resourceFromPath(p)>> : h \in Role, m \in Method, p \in Path}

\* Idle handlers, and what a handler keeps of the request it answers.
NotHandling == [pc |-> "idle", question |-> <<>>, engine |-> NoEngine, status |-> "free"]

Handler ==
  [pc : {"idle", "arrived", "loaded", "answered"}, question : Question \cup {<<>>},
   engine : InForce \cup {NoEngine}, status : {"free", "served", "forbidden", "error"}]

NotLoading == [pc |-> "idle", got |-> Refused("nil")]

TypeOK ==
  /\ phase \in {"starting", "serving", "draining", "exited"}
  /\ file \in Files
  /\ signalled \in BOOLEAN
  /\ ptr \in InForce \cup {NoEngine}
  /\ sigs \in 0 .. SigCap
  /\ load.pc \in {"idle", "read", "store"}
  /\ load.pc = "store" => \E f \in Files : load.got = Outcome[f]
  /\ req \in [Request -> Handler]

Init ==
  /\ phase = "starting"
  /\ file \in Files
  /\ signalled = FALSE
  /\ ptr = NoEngine
  /\ sigs = 0
  /\ load = [NotLoading EXCEPT !.pc = "read"]
  /\ req = [r \in Request |-> NotHandling]

Running == phase /= "exited"

Exit == phase' = "exited" /\ UNCHANGED <<file, signalled, ptr, sigs, load, req>>

-----------------------------------------------------------------------------
\* authzEngine.load reads the file, which may change before it stores.
ReadFile ==
  /\ Running /\ load.pc = "read"
  /\ load' = [pc |-> "store", got |-> Outcome[file]]
  /\ UNCHANGED <<phase, file, signalled, ptr, sigs, req>>

\* Mutant of Stored: what was loaded is stored without a look at the error.
StoredAnyway(got) == IF got.err = "nil" THEN got.cfg ELSE NoEngine

Stored(got) == IF got.err = "nil" THEN got.cfg ELSE ptr

\* A failed reload keeps the engine; the first load must not fail.
Store ==
  /\ Running /\ load.pc = "store"
  /\ IF load.got.err /= "nil" /\ phase = "starting" THEN Exit
     ELSE /\ ptr' = Stored(load.got)
          /\ load' = NotLoading
          /\ UNCHANGED <<phase, file, signalled, sigs, req>>

\* From here on SIGHUP is delivered to the channel, and requests arrive.
Serve ==
  /\ phase = "starting" /\ load.pc = "idle"
  /\ phase' = "serving"
  /\ UNCHANGED <<file, signalled, ptr, sigs, load, req>>

\* The loop of the reloading goroutine takes the next signal.
TakeSignal ==
  /\ phase \in {"serving", "draining"} /\ load.pc = "idle" /\ sigs > 0
  /\ sigs' = sigs - 1
  /\ load' = [NotLoading EXCEPT !.pc = "read"]
  /\ UNCHANGED <<phase, file, signalled, ptr, req>>

\* Mutant of Delivered: an unbuffered channel, whose signals are dropped unless
\* the goroutine is waiting for one.
DeliveredUnbuffered == IF load.pc = "idle" THEN 1 ELSE sigs

\* Mutant of Delivered: a queue without an end.
DeliveredAll == sigs + 1

\* A signal that finds the channel full is dropped.
Delivered == IF sigs < SigCap THEN sigs + 1 ELSE sigs

\* Before signal.Notify, SIGHUP ends the process.
SigHup ==
  \/ phase = "starting" /\ Exit
  \/ /\ phase \in {"serving", "draining"}
     /\ sigs' = Delivered
     /\ signalled' = TRUE
     /\ UNCHANGED <<phase, file, ptr, load, req>>

Edit ==
  /\ Running
  /\ file' \in Files \ {file}
  /\ signalled' = FALSE
  /\ UNCHANGED <<phase, ptr, sigs, load, req>>

-----------------------------------------------------------------------------
Arrive(r) ==
  /\ phase = "serving" /\ req[r].pc = "idle"
  /\ \E q \in Question : req' = [req EXCEPT ![r] = [NotHandling EXCEPT !.pc = "arrived", !.question = q]]
  /\ UNCHANGED <<phase, file, signalled, ptr, sigs, load>>

\* Mutant of LoadPointer: the handler waits for a reload in progress.
LoadPointerLocked(r) ==
  /\ Running /\ req[r].pc = "arrived" /\ load.pc = "idle"
  /\ req' = [req EXCEPT ![r].pc = "loaded", ![r].engine = ptr]
  /\ UNCHANGED <<phase, file, signalled, ptr, sigs, load>>

\* a.ptr.Load(), the first thing check and explain do.
LoadPointer(r) ==
  /\ Running /\ req[r].pc = "arrived"
  /\ req' = [req EXCEPT ![r].pc = "loaded", ![r].engine = ptr]
  /\ UNCHANGED <<phase, file, signalled, ptr, sigs, load>>

\* x is the rule Check or Explain stops at, noMatch when there is none.
check(e, x) == x /= noMatch /\ Rule(e, x).act = "ALLOW"

explain(e, x) ==
  LET found == [Matched |-> x /= noMatch, Allowed |-> x /= noMatch /\ Rule(e, x).act = "ALLOW"]
  IN  found.Matched /\ found.Allowed

Respond(r, status) ==
  /\ req' = [req EXCEPT ![r].pc = "answered", ![r].status = status]
  /\ UNCHANGED <<phase, file, signalled, ptr, sigs, load>>

\* No engine, or one whose arity is not that of the question.
Refusal(e, q) == IF e = NoEngine THEN TRUE ELSE Len(q) /= Len(e.dims)

Middleware(r) ==
  LET e == req[r].engine
      q == req[r].question
  IN  /\ Running /\ req[r].pc = "loaded"
      /\ IF Refusal(e, q) THEN Respond(r, "error")
         ELSE \E x \in RuleIndexes(e) \cup {noMatch} :
                /\ IsFirst(Matching(e, q, FALSE), x)
                /\ Respond(r, IF (IF Debug THEN explain(e, x) ELSE check(e, x))
                              THEN "served" ELSE "forbidden")

\* The response is written and the handler returns.
Finish(r) ==
  /\ Running /\ req[r].pc = "answered"
  /\ req' = [req EXCEPT ![r] = NotHandling]
  /\ UNCHANGED <<phase, file, signalled, ptr, sigs, load>>

\* SIGINT or SIGTERM; srv.Shutdown stops new requests.
Quit ==
  \/ phase = "starting" /\ Exit
  \/ /\ phase = "serving"
     /\ phase' = "draining"
     /\ UNCHANGED <<file, signalled, ptr, sigs, load, req>>

\* Shutdown returns when the handlers have, or after its five seconds.
EndOfMain == phase = "draining" /\ Exit

ListenFails == phase = "serving" /\ Exit

Next ==
  \/ ReadFile \/ Store \/ Serve \/ TakeSignal
  \/ SigHup \/ Edit \/ Quit \/ EndOfMain \/ ListenFails
  \/ \E r \in Request : Arrive(r) \/ LoadPointer(r) \/ Middleware(r) \/ Finish(r)

HandlersRun == \A r \in Request : WF_vars(LoadPointer(r) \/ Middleware(r) \/ Finish(r))

ReloaderRuns == WF_vars(ReadFile \/ Store) /\ WF_vars(TakeSignal)

(***************************************************************************)
(* The Go scheduler lets a handler that can take a step take one.  That    *)
(* the file can be read is assumed where a property needs it.              *)
(***************************************************************************)
Spec == Init /\ [][Next]_vars /\ HandlersRun

-----------------------------------------------------------------------------
(***************************************************************************)
(* A SIGHUP sent after the last edit is not lost, though the channel holds *)
(* one and drops the others (main.go:134): while the pointer does not hold *)
(* the engine of the file, a signal, or a load that will see or has seen   *)
(* the file as it is, is still on its way.                                 *)
(***************************************************************************)
NoSignalLost ==
  signalled /\ Running /\ Loads(file) =>
    \/ sigs > 0
    \/ load.pc = "read"
    \/ load.pc = "store" /\ load.got = Outcome[file]
    \/ load.pc = "idle" /\ ptr = Outcome[file].cfg

(***************************************************************************)
(* So the file is served in the end, provided it can be read, unless it is *)
(* edited again or the process ends.                                       *)
(***************************************************************************)
LatestFileServed ==
  ReloaderRuns =>
    (signalled /\ Loads(file) ~> ptr = Outcome[file].cfg \/ ~signalled \/ ~Running)

(***************************************************************************)
(* "SIGHUP reloads do not block in-flight requests" (main.go:3): a request *)
(* is answered even if the reload never gets to the end of the file.       *)
(***************************************************************************)
RequestsAreAnswered ==
  \A r \in Request : req[r].pc = "arrived" ~> req[r].pc = "answered" \/ ~Running

-----------------------------------------------------------------------------
\* The first rule that matches the tuple allows it.
Allows(c, t) ==
  \E j \in Matching(c, t, FALSE) :
    /\ \A k \in Matching(c, t, FALSE) : j <= k
    /\ Rule(c, j).act = "ALLOW"

\* Without an engine, or with one of another arity, a request is not let through.
Verdict(e, q) ==
  IF e = NoEngine THEN "error"
  ELSE IF Len(q) /= Len(e.dims) THEN "error"
  ELSE IF Allows(e, q) THEN "served" ELSE "forbidden"

\* A request is judged when its handler loads the pointer.
Judged(r) ==
  CASE req[r].pc = "idle" -> "free"
    [] req[r].pc = "arrived" -> "unjudged"
    [] req[r].pc = "loaded" -> Verdict(req[r].engine, req[r].question)
    [] req[r].pc = "answered" -> req[r].status

A == INSTANCE Authorizer
       WITH engine <- ptr,
            asked <- [r \in Request |-> req[r].question],
            verdict <- [r \in Request |-> Judged(r)]

(***************************************************************************)
(* Every answer is the verdict of the engine that was in force when the    *)
(* handler loaded the pointer, whatever is stored before it answers        *)
(* (main.go:40), and a failed reload leaves the engine in force            *)
(* (main.go:138): the server implements Authorizer.                        *)
(***************************************************************************)
ImplementsAuthorizer == A!Spec
=============================================================================
