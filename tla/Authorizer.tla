------------------------------ MODULE Authorizer ------------------------------
(***************************************************************************)
(* What an authorization service whose rules are reloaded while it serves  *)
(* promises: every request is judged at one instant, by the engine in      *)
(* force at that instant, and an engine in force gives way only to that of *)
(* a file that loads.  HotReload shows that the example server implements  *)
(* it.                                                                     *)
(***************************************************************************)

CONSTANTS
  Request,    \* the requests in progress, by the goroutine that handles them
  Question,   \* the tuples requests are about
  InForce,    \* the engines of the files that load
  NoEngine,   \* before the first of them
  Verdict(_, _)
              \* engine, question -> how a request fares; NoEngine lets none through

VARIABLES engine, asked, verdict

vars == <<engine, asked, verdict>>

Free == "free"
Unjudged == "unjudged"

Init ==
  /\ engine = NoEngine
  /\ asked = [r \in Request |-> <<>>]
  /\ verdict = [r \in Request |-> Free]

Install == engine' \in InForce /\ UNCHANGED <<asked, verdict>>

Ask(r) ==
  /\ verdict[r] = Free
  /\ \E q \in Question : asked' = [asked EXCEPT ![r] = q]
  /\ verdict' = [verdict EXCEPT ![r] = Unjudged]
  /\ UNCHANGED engine

Judge(r) ==
  /\ verdict[r] = Unjudged
  /\ verdict' = [verdict EXCEPT ![r] = Verdict(engine, asked[r])]
  /\ UNCHANGED <<engine, asked>>

Finish(r) ==
  /\ verdict[r] \notin {Free, Unjudged}
  /\ asked' = [asked EXCEPT ![r] = <<>>]
  /\ verdict' = [verdict EXCEPT ![r] = Free]
  /\ UNCHANGED engine

Next == Install \/ \E r \in Request : Ask(r) \/ Judge(r) \/ Finish(r)

Spec == Init /\ [][Next]_vars
=============================================================================
