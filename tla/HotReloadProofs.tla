---------------------------- MODULE HotReloadProofs ----------------------------
(***************************************************************************)
(* Proofs about HotReload, for any files, requests and number of handlers: *)
(* the type invariant, that no signal is lost, and that the server         *)
(* implements Authorizer.  The inductive invariant adds to the two that an *)
(* answer not yet written is the verdict of the engine its handler holds.  *)
(***************************************************************************)
EXTENDS HotReload, TLAPS

\* What is answered is what the engine the handler loaded decides.
AnswerIsVerdict ==
  \A r \in Request :
    req[r].pc = "answered" => req[r].status = Verdict(req[r].engine, req[r].question)

IInv == TypeOK /\ NoSignalLost /\ AnswerIsVerdict

\* An index IsFirst picks decides as Allows does.
LEMMA FirstDecides ==
  ASSUME NEW e, NEW q, NEW x, IsFirst(Matching(e, q, FALSE), x)
  PROVE  check(e, x) <=> Allows(e, q)
<1>1. \A j \in Matching(e, q, FALSE) : j \in Int /\ j /= noMatch
  BY DEF Matching, RuleIndexes, noMatch
<1>2. CASE Matching(e, q, FALSE) = {}
  BY <1>2 DEF IsFirst, Allows, check
<1>3. CASE x \in Matching(e, q, FALSE) /\ \A y \in Matching(e, q, FALSE) : x <= y
  <2>1. x /= noMatch
    BY <1>1, <1>3
  <2>2. ASSUME NEW j \in Matching(e, q, FALSE), \A k \in Matching(e, q, FALSE) : j <= k
        PROVE  j = x
    <3>1. j <= x /\ x <= j /\ j \in Int /\ x \in Int
      BY <1>1, <1>3, <2>2
    <3> QED
      BY <3>1
  <2> QED
    BY <1>3, <2>1, <2>2 DEF Allows, check
<1> QED
  BY <1>2, <1>3 DEF IsFirst

\* Both ways of asking the engine give the same answer.
LEMMA ExplainIsCheck == \A e, x : explain(e, x) <=> check(e, x)
BY DEF explain, check

\* What a load returns without an error comes into force.
LEMMA LoadedComesIntoForce ==
  \A f \in Files : Outcome[f].err = "nil" => Outcome[f].cfg \in InForce
BY DEF InForce, Loads

LEMMA InitInv == Init => IInv
<1> SUFFICES ASSUME Init PROVE IInv
  OBVIOUS
<1>1. NotHandling \in Handler
  BY DEF NotHandling, Handler
<1>2. load.pc = "read"
  BY DEF Init, NotLoading
<1>3. sigs \in 0 .. SigCap
  BY HotReloadAssumption DEF Init
<1> QED
  BY <1>1, <1>2, <1>3 DEF Init, IInv, TypeOK, NoSignalLost, AnswerIsVerdict, NotHandling

\* The steps of main, which move nothing but the phase.
LEMMA MainInv ==
  IInv /\ (Exit \/ Serve \/ Quit \/ EndOfMain \/ ListenFails) => IInv'
<1> SUFFICES ASSUME IInv, Exit \/ Serve \/ Quit \/ EndOfMain \/ ListenFails PROVE IInv'
  OBVIOUS
<1>1. UNCHANGED <<file, signalled, ptr, sigs, load, req>>
  BY DEF Exit, Serve, Quit, EndOfMain, ListenFails
<1>2. phase' \in {"starting", "serving", "draining", "exited"} /\ (Running' => Running)
  BY DEF Exit, Serve, Quit, EndOfMain, ListenFails, Running, IInv, TypeOK
<1> QED
  BY <1>1, <1>2 DEF IInv, TypeOK, NoSignalLost, AnswerIsVerdict

\* A load sees the file as it is, and so makes up for the signal it was taken for.
LEMMA ReadFileInv == IInv /\ ReadFile => IInv'
<1> SUFFICES ASSUME IInv, ReadFile PROVE IInv'
  OBVIOUS
<1>1. load'.pc = "store" /\ load'.got = Outcome[file]
  BY DEF ReadFile
<1>2. TypeOK'
  BY <1>1 DEF ReadFile, IInv, TypeOK
<1> QED
  BY <1>1, <1>2 DEF ReadFile, IInv, NoSignalLost, AnswerIsVerdict

\* What is stored is the engine of the file, or another signal is still waiting.
LEMMA StoreInv == IInv /\ Store => IInv'
<1> SUFFICES ASSUME IInv, Store PROVE IInv'
  OBVIOUS
<1>1. CASE Exit
  BY <1>1, MainInv
<1>2. CASE ~Exit
  <2>1. /\ ptr' = Stored(load.got) /\ load'.pc = "idle" /\ load.pc = "store"
        /\ UNCHANGED <<phase, file, signalled, sigs, req>>
    BY <1>2 DEF Store, NotLoading
  <2>2. PICK f \in Files : load.got = Outcome[f]
    BY <2>1 DEF IInv, TypeOK
  <2>3. ptr' \in InForce \cup {NoEngine}
    BY <2>1, <2>2, LoadedComesIntoForce DEF Stored, IInv, TypeOK
  <2>4. Loads(file) /\ load.got = Outcome[file] => ptr' = Outcome[file].cfg
    BY <2>1 DEF Stored, Loads
  <2>5. TypeOK'
    BY <2>1, <2>3 DEF IInv, TypeOK
  <2>6. NoSignalLost'
    BY <2>1, <2>4 DEF IInv, NoSignalLost, Running, Loads
  <2> QED
    BY <2>1, <2>5, <2>6 DEF IInv, AnswerIsVerdict
<1> QED
  BY <1>1, <1>2

\* The signal is taken for a load that has not read the file yet.
LEMMA TakeSignalInv == IInv /\ TakeSignal => IInv'
<1> SUFFICES ASSUME IInv, TakeSignal PROVE IInv'
  OBVIOUS
<1>1. load'.pc = "read"
  BY DEF TakeSignal, NotLoading
<1>2. sigs' \in 0 .. SigCap
  BY HotReloadAssumption DEF TakeSignal, IInv, TypeOK
<1> QED
  BY <1>1, <1>2 DEF TakeSignal, IInv, TypeOK, NoSignalLost, AnswerIsVerdict

\* A signal is dropped only when one is already waiting.
LEMMA SigHupInv == IInv /\ SigHup => IInv'
<1> SUFFICES ASSUME IInv, SigHup PROVE IInv'
  OBVIOUS
<1>1. CASE Exit
  BY <1>1, MainInv
<1>2. CASE ~Exit
  <2>1. /\ sigs' = Delivered /\ signalled' = TRUE
        /\ UNCHANGED <<phase, file, ptr, load, req>>
    BY <1>2 DEF SigHup
  <2>2. sigs' \in 0 .. SigCap /\ sigs' > 0
    BY <2>1, HotReloadAssumption DEF Delivered, IInv, TypeOK
  <2> QED
    BY <2>1, <2>2 DEF IInv, TypeOK, NoSignalLost, AnswerIsVerdict
<1> QED
  BY <1>1, <1>2

\* An edit takes the obligation back.
LEMMA EditInv == IInv /\ Edit => IInv'
BY DEF Edit, IInv, TypeOK, NoSignalLost, AnswerIsVerdict

\* The steps of a handler touch nothing the reload depends on.
LEMMA HandlerInv ==
  ASSUME IInv, NEW r \in Request,
         Arrive(r) \/ LoadPointer(r) \/ Middleware(r) \/ Finish(r)
  PROVE  IInv'
<1>1. UNCHANGED <<phase, file, signalled, ptr, sigs, load>>
  BY DEF Arrive, LoadPointer, Middleware, Respond, Finish
<1>2. req \in [Request -> Handler]
  BY DEF IInv, TypeOK
<1>3. /\ req' \in [Request -> Handler]
      /\ \A s \in Request \ {r} : req'[s] = req[s]
      /\ req'[r].pc = "answered" => req'[r].status = Verdict(req'[r].engine, req'[r].question)
  <2>1. CASE Arrive(r)
    BY <1>2, <2>1 DEF Arrive, Handler, NotHandling
  <2>2. CASE LoadPointer(r)
    BY <1>2, <2>2 DEF LoadPointer, Handler, IInv, TypeOK
  <2>3. CASE Middleware(r)
    <3> DEFINE e == req[r].engine
               q == req[r].question
    <3>1. PICK status \in {"served", "forbidden", "error"} :
             Respond(r, status) /\ status = Verdict(e, q)
      <4>1. CASE Refusal(e, q)
        BY <2>3, <4>1 DEF Middleware, Refusal, Verdict
      <4>2. CASE ~Refusal(e, q)
        <5>1. PICK x : /\ IsFirst(Matching(e, q, FALSE), x)
                       /\ Respond(r, IF (IF Debug THEN explain(e, x) ELSE check(e, x))
                                     THEN "served" ELSE "forbidden")
          BY <2>3, <4>2 DEF Middleware
        <5>2. (IF Debug THEN explain(e, x) ELSE check(e, x)) <=> Allows(e, q)
          BY <5>1, FirstDecides, ExplainIsCheck
        <5>3. Respond(r, IF Allows(e, q) THEN "served" ELSE "forbidden")
          BY <5>1, <5>2
        <5> QED
          BY <4>2, <5>3 DEF Refusal, Verdict
      <4> QED
        BY <4>1, <4>2
    <3> QED
      BY <1>2, <3>1 DEF Respond, Handler
  <2>4. CASE Finish(r)
    BY <1>2, <2>4 DEF Finish, Handler, NotHandling
  <2> QED
    BY <2>1, <2>2, <2>3, <2>4
<1>4. TypeOK' /\ NoSignalLost'
  BY <1>1, <1>3 DEF IInv, TypeOK, NoSignalLost, Running
<1>5. AnswerIsVerdict'
  BY <1>3 DEF IInv, AnswerIsVerdict
<1> QED
  BY <1>4, <1>5 DEF IInv

-----------------------------------------------------------------------------
\* The inductive invariant holds in every reachable state.
THEOREM InvariantHolds == Spec => []IInv
<1>1. IInv /\ [Next]_vars => IInv'
  <2> SUFFICES ASSUME IInv, [Next]_vars PROVE IInv'
    OBVIOUS
  <2>1. CASE UNCHANGED vars
    BY <2>1 DEF vars, IInv, TypeOK, NoSignalLost, AnswerIsVerdict, Running
  <2>2. CASE Next
    BY <2>2, MainInv, ReadFileInv, StoreInv, TakeSignalInv, SigHupInv, EditInv, HandlerInv
       DEF Next
  <2> QED
    BY <2>1, <2>2
<1> QED
  BY <1>1, InitInv, PTL DEF Spec

\* The state of the server keeps its types (main.go).
THEOREM TypeCorrect == Spec => []TypeOK
<1>1. IInv => TypeOK
  BY DEF IInv
<1> QED
  BY <1>1, InvariantHolds, PTL

(***************************************************************************)
(* A channel of any capacity but zero is enough for the last edit that was *)
(* signalled to be read (main.go:134).                                     *)
(***************************************************************************)
THEOREM SignalsSuffice == Spec => []NoSignalLost
<1>1. IInv => NoSignalLost
  BY DEF IInv
<1> QED
  BY <1>1, InvariantHolds, PTL

-----------------------------------------------------------------------------
(***************************************************************************)
(* The refinement.  A step that leaves the pointer and what a request is   *)
(* judged by alone is a stuttering step of Authorizer.                     *)
(***************************************************************************)
LEMMA MappedUnchanged ==
  UNCHANGED ptr /\ (\A r \in Request : req'[r].question = req[r].question /\ Judged(r)' = Judged(r))
    => UNCHANGED A!vars
BY DEF A!vars

\* The step of one handler moves its own entries of the mapping only.
LEMMA MappedStep ==
  ASSUME NEW r \in Request, \A s \in Request \ {r} : req'[s] = req[s]
  PROVE  /\ [s \in Request |-> req[s].question]'
               = [[s \in Request |-> req[s].question] EXCEPT ![r] = req'[r].question]
         /\ [s \in Request |-> Judged(s)]'
               = [[s \in Request |-> Judged(s)] EXCEPT ![r] = Judged(r)']
<1>1. \A s \in Request \ {r} : Judged(s)' = Judged(s)
  BY DEF Judged
<1>2. \A s \in Request \ {r} : req'[s].question = req[s].question
  OBVIOUS
<1> QED
  BY <1>1, <1>2

LEMMA InitMaps == Init => A!Init
BY DEF Init, A!Init, NotHandling, Judged, A!Free

LEMMA StoreMaps == IInv /\ Store => [A!Next]_A!vars
<1> SUFFICES ASSUME IInv, Store PROVE [A!Next]_A!vars
  OBVIOUS
<1>1. UNCHANGED req
  BY DEF Store, Exit
<1>2. UNCHANGED <<[r \in Request |-> req[r].question], [r \in Request |-> Judged(r)]>>
  BY <1>1 DEF Judged
<1>3. ptr' = ptr \/ ptr' \in InForce
  BY LoadedComesIntoForce DEF Store, Exit, Stored, IInv, TypeOK
<1> QED
  BY <1>2, <1>3 DEF A!Next, A!Install, A!vars

LEMMA ArriveMaps ==
  ASSUME IInv, NEW r \in Request, Arrive(r)
  PROVE  A!Ask(r)
<1>1. req \in [Request -> Handler]
  BY DEF IInv, TypeOK
<1>2. PICK q \in Question :
        req' = [req EXCEPT ![r] = [NotHandling EXCEPT !.pc = "arrived", !.question = q]]
  BY DEF Arrive
<1>3. /\ \A s \in Request \ {r} : req'[s] = req[s]
      /\ req'[r].question = q /\ Judged(r) = "free" /\ Judged(r)' = "unjudged"
  BY <1>1, <1>2 DEF Arrive, Judged, NotHandling
<1> QED
  BY <1>3, MappedStep DEF A!Ask, A!Free, A!Unjudged, Arrive

LEMMA LoadPointerMaps ==
  ASSUME IInv, NEW r \in Request, LoadPointer(r)
  PROVE  A!Judge(r)
<1>1. req \in [Request -> Handler]
  BY DEF IInv, TypeOK
<1>2. /\ \A s \in Request \ {r} : req'[s] = req[s]
      /\ req'[r].question = req[r].question
      /\ req'[r].pc = "loaded" /\ req'[r].engine = ptr
  BY <1>1 DEF LoadPointer, Handler
<1>3. Judged(r) = "unjudged" /\ Judged(r)' = Verdict(ptr, req[r].question)
  BY <1>2 DEF LoadPointer, Judged
<1>4. [s \in Request |-> req[s].question]' = [s \in Request |-> req[s].question]
  BY <1>2
<1>5. [s \in Request |-> Judged(s)]'
        = [[s \in Request |-> Judged(s)] EXCEPT ![r] = Verdict(ptr, req[r].question)]
  BY <1>2, <1>3, MappedStep
<1>6. ptr' = ptr
  BY DEF LoadPointer
<1> QED
  BY <1>3, <1>4, <1>5, <1>6 DEF A!Judge, A!Unjudged

LEMMA MiddlewareMaps ==
  ASSUME IInv, IInv', NEW r \in Request, Middleware(r)
  PROVE  UNCHANGED A!vars
<1>1. req \in [Request -> Handler]
  BY DEF IInv, TypeOK
<1>2. PICK status : Respond(r, status)
  BY DEF Middleware
<1>3. /\ \A s \in Request \ {r} : req'[s] = req[s]
      /\ req'[r].question = req[r].question /\ req'[r].engine = req[r].engine
      /\ req'[r].pc = "answered" /\ UNCHANGED ptr
  BY <1>1, <1>2 DEF Respond, Handler
<1>4. Judged(r) = Verdict(req[r].engine, req[r].question)
  BY DEF Middleware, Judged
<1>5. Judged(r)' = Verdict(req[r].engine, req[r].question)
  BY <1>3 DEF Judged, IInv, AnswerIsVerdict
<1>6. \A s \in Request : req'[s].question = req[s].question /\ Judged(s)' = Judged(s)
  BY <1>3, <1>4, <1>5 DEF Judged
<1> QED
  BY <1>3, <1>6, MappedUnchanged

LEMMA FinishMaps ==
  ASSUME IInv, NEW r \in Request, Finish(r)
  PROVE  A!Finish(r)
<1>1. req \in [Request -> Handler]
  BY DEF IInv, TypeOK
<1>2. /\ \A s \in Request \ {r} : req'[s] = req[s]
      /\ req'[r] = NotHandling
  BY <1>1 DEF Finish
<1>3. Judged(r)' = "free" /\ req'[r].question = <<>>
  BY <1>2 DEF Judged, NotHandling
<1>4. Judged(r) \notin {"free", "unjudged"}
  BY DEF Finish, Judged, IInv, AnswerIsVerdict, Verdict
<1> QED
  BY <1>2, <1>3, <1>4, MappedStep DEF A!Finish, A!Free, A!Unjudged, Finish

(***************************************************************************)
(* The server implements Authorizer, whatever is reloaded while a request  *)
(* is in progress (main.go:40, main.go:138).                               *)
(***************************************************************************)
THEOREM ServerImplementsAuthorizer == Spec => ImplementsAuthorizer
<1>1. IInv /\ IInv' /\ [Next]_vars => [A!Next]_A!vars
  <2> SUFFICES ASSUME IInv, IInv', [Next]_vars PROVE [A!Next]_A!vars
    OBVIOUS
  <2>1. CASE UNCHANGED <<ptr, req>>
    BY <2>1, MappedUnchanged DEF Judged
  <2>2. CASE Store
    BY <2>2, StoreMaps
  <2>3. ASSUME NEW r \in Request, Arrive(r) \/ LoadPointer(r) \/ Middleware(r) \/ Finish(r)
        PROVE  [A!Next]_A!vars
    BY <2>3, ArriveMaps, LoadPointerMaps, MiddlewareMaps, FinishMaps DEF A!Next
  <2>4. CASE ReadFile \/ Serve \/ TakeSignal \/ SigHup \/ Edit \/ Quit \/ EndOfMain \/ ListenFails
    <3>1. UNCHANGED <<ptr, req>>
      BY <2>4 DEF ReadFile, Serve, TakeSignal, SigHup, Edit, Quit, EndOfMain, ListenFails, Exit
    <3> QED
      BY <3>1, <2>1
  <2>5. CASE UNCHANGED vars
    BY <2>5, <2>1 DEF vars
  <2> QED
    BY <2>2, <2>3, <2>4, <2>5 DEF Next
<1> QED
  BY <1>1, InitMaps, InvariantHolds, PTL DEF Spec, ImplementsAuthorizer, A!Spec
=============================================================================
