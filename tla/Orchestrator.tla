---------------------------- MODULE Orchestrator ----------------------------
(***************************************************************************)
(* A request on its way through Envoy and the security orchestrator.       *)
(* Envoy holds it and asks the orchestrator (ext_authz); a goroutine there *)
(* verifies the token, looks up the device, has the request scored by the  *)
(* anomaly model, asks OPA and answers.  If OPA allows, a second goroutine *)
(* lets the model learn from the request.  Each call may fail, each        *)
(* process may be late, and the orchestrator may stop and start; Envoy     *)
(* does not wait longer than its timeout, and does not tell the second     *)
(* goroutine when it gives up.                                             *)
(*                                                                         *)
(* What the orchestrator judges is a description of the request: three     *)
(* headers, which Envoy passes on if the client sent them, take the place  *)
(* of the path and the method of what Envoy holds.                         *)
(*                                                                         *)
(* Definitions named after a fault (OpensOnTimeout, ...) stand beside the  *)
(* one they falsify; no action uses them.                                  *)
(***************************************************************************)
EXTENDS Policy

CONSTANTS
  Requests,
  Asks,    \* user, whether the token is forged, OU, method and path, and
           \* the headers that may describe method and path otherwise
  Role     \* role in the tokens of a user

ASSUME OrchestratorAssumption ==
  \A a \in Asks : a.forged \in BOOLEAN /\ (a.user = "nobody" => ~a.forged)

VARIABLES
  ask,      \* what each request is
  gate,     \* Envoy's side of it
  eval,     \* the goroutine of the orchestrator that evaluates it
  updates,  \* requests with a goroutine that is about to call /update
  memory,   \* requests that the model has learnt from
  alive     \* whether the orchestrator runs

vars == <<ask, gate, eval, updates, memory, alive>>

-----------------------------------------------------------------------------
\* The score when the model does not answer.
Fallback == 99

Working == {"verify", "tpm", "infer", "opa", "answer"}

\* A header that is not there: Header.Get returns "" for it.
NoPath == <<"">>
NoMethod == ""

\* origPath and method: X-Original-Uri before X-Authz-Request-Path before the
\* path of the call, X-Authz-Request-Method before the method of the call.
JudgedPath(a) == IF a.uri # NoPath THEN a.uri
                 ELSE IF a.authzPath # NoPath THEN a.authzPath ELSE a.path
JudgedMethod(a) == IF a.authzMethod # NoMethod THEN a.authzMethod ELSE a.method

\* What OPA is told of the sender: a request without a token is judged without
\* its certificate, too.
SentBy(a, method, path, score) ==
  [method |-> method, path |-> path, score |-> score,
   role |-> IF a.user = "nobody" THEN "none" ELSE Role[a.user],
   ou |-> IF a.user = "nobody" THEN "absent" ELSE a.ou]

Input(a, score) == SentBy(a, JudgedMethod(a), JudgedPath(a), score)

\* The goroutine of r comes to its next step, and nothing else happens.
Step(r, from, to) ==
  /\ eval[r].pc = from
  /\ eval' = [eval EXCEPT ![r].pc = to]
  /\ UNCHANGED <<ask, gate, updates, memory, alive>>

-----------------------------------------------------------------------------
Init ==
  /\ ask \in [Requests -> Asks]
  /\ gate = [r \in Requests |-> "new"]
  /\ eval = [r \in Requests |-> [pc |-> "idle", score |-> Fallback, allow |-> FALSE]]
  /\ updates = {} /\ memory = {}
  /\ alive = TRUE

\* Envoy holds the request and calls the orchestrator, if that can be reached,
\* with the request's path, method and those of its headers that it passes on.
Receive(r) ==
  /\ gate[r] = "new"
  /\ gate' = [gate EXCEPT ![r] = "waiting"]
  /\ \/ /\ alive
        /\ eval' = [eval EXCEPT ![r].pc =
                      IF ask[r].user = "nobody" THEN "infer" ELSE "verify"]
     \/ UNCHANGED eval
  /\ UNCHANGED <<ask, updates, memory, alive>>

\* Verify refuses a forged token, and any token if it has no key for it.
Verify(r) ==
  \/ ~ask[r].forged /\ Step(r, "verify", "tpm")
  \/ Step(r, "verify", "answer")

\* The result goes to the model and to OPA, whose policy does not read it.
RetriesTPM(r) == Step(r, "tpm", "verify")
TPM(r) == Step(r, "tpm", "infer")

\* The model's score, or the fallback if the call fails: an error, a timeout,
\* or the context was cancelled because Envoy gave up.
Infer(r) ==
  /\ eval[r].pc = "infer"
  /\ \E score \in Scores \cup {Fallback} :
       eval' = [eval EXCEPT ![r] =
                  [pc |-> "opa", score |-> score, allow |-> eval[r].allow]]
  /\ UNCHANGED <<ask, gate, updates, memory, alive>>

\* evalOPA: an error denies.  The goroutine that updates the model is started
\* before the answer is written.
UpdatesAnyway(r) ==
  /\ eval[r].pc = "opa"
  /\ updates' = updates \cup {r}
  /\ \E b \in {FALSE, allow(Input(ask[r], eval[r].score))} :
       eval' = [eval EXCEPT ![r].pc = "answer", ![r].allow = b]
  /\ UNCHANGED <<ask, gate, memory, alive>>
EvalOPA(r) ==
  /\ eval[r].pc = "opa"
  /\ \/ /\ allow(Input(ask[r], eval[r].score))
        /\ eval' = [eval EXCEPT ![r] =
                      [pc |-> "answer", score |-> eval[r].score, allow |-> TRUE]]
        /\ updates' = updates \cup {r}
     \/ /\ eval' = [eval EXCEPT ![r].pc = "answer"]
        /\ UNCHANGED updates
  /\ UNCHANGED <<ask, gate, memory, alive>>

\* respondAllow or 401; Envoy has given up by then or acts on it.
Respond(r) ==
  /\ eval[r].pc = "answer"
  /\ eval' = [eval EXCEPT ![r].pc = "over"]
  /\ \/ /\ gate[r] = "waiting"
        /\ gate' = [gate EXCEPT ![r] = IF eval[r].allow THEN "forwarded" ELSE "refused"]
     \/ gate[r] # "waiting" /\ UNCHANGED gate
  /\ UNCHANGED <<ask, updates, memory, alive>>

\* The timeout of Envoy, or a broken connection (failure_mode_allow: false).
OpensOnTimeout(r) ==
  /\ gate[r] = "waiting"
  /\ gate' = [gate EXCEPT ![r] = "forwarded"]
  /\ UNCHANGED <<ask, eval, updates, memory, alive>>
GiveUp(r) ==
  /\ gate[r] = "waiting"
  /\ gate' = [gate EXCEPT ![r] = "gaveup"]
  /\ UNCHANGED <<ask, eval, updates, memory, alive>>

\* Update, in the background and without the context of the request.
Update(r) ==
  /\ r \in updates
  /\ updates' = updates \ {r}
  /\ memory' \in {memory, memory \cup {r}}
  /\ UNCHANGED <<ask, gate, eval, alive>>

\* The orchestrator stops; its goroutines are gone.
Stop ==
  /\ alive
  /\ alive' = FALSE
  /\ eval' = [r \in Requests |-> IF eval[r].pc \in Working
                                 THEN [eval[r] EXCEPT !.pc = "over"] ELSE eval[r]]
  /\ updates' = {}
  /\ UNCHANGED <<ask, gate, memory>>

Start ==
  /\ ~alive
  /\ alive' = TRUE
  /\ UNCHANGED <<ask, gate, eval, updates, memory>>

Evaluate(r) ==
  Verify(r) \/ TPM(r) \/ Infer(r) \/ EvalOPA(r) \/ Respond(r)

Next ==
  \/ \E r \in Requests : Receive(r) \/ Evaluate(r) \/ GiveUp(r) \/ Update(r)
  \/ Stop \/ Start

Spec == Init /\ [][Next]_vars

\* Envoy's timeout always comes, and every call of the orchestrator has a
\* timeout of its own.
Fairness ==
  \A r \in Requests :
    WF_vars(GiveUp(r)) /\ WF_vars(Evaluate(r)) /\ WF_vars(Update(r))

FairSpec == Spec /\ Fairness

-----------------------------------------------------------------------------
(* Properties *)

TypeOK ==
  /\ ask \in [Requests -> Asks]
  /\ gate \in [Requests -> {"new", "waiting", "forwarded", "refused", "gaveup"}]
  /\ eval \in [Requests -> [pc : {"idle", "over"} \cup Working,
                            score : 0 .. 100, allow : BOOLEAN]]
  /\ updates \subseteq Requests /\ memory \subseteq Requests
  /\ alive \in BOOLEAN

\* The policy allows the bearer of a genuine token the request as it is
\* described, at a score that the model gives, or at the fallback.
Permitted(a) ==
  ~a.forged /\ \E score \in Scores \cup {Fallback} : allow(Input(a, score))

\* The description is what Envoy holds, and will serve.
Truthful(a) == JudgedPath(a) = a.path /\ JudgedMethod(a) = a.method

\* The policy allows what Envoy holds.
PermittedAsHeld(a) ==
  /\ ~a.forged
  /\ \E score \in Scores \cup {Fallback} :
       allow(SentBy(a, a.method, a.path, score))

\* The pair of Envoy and the orchestrator implements the gate.
Fates == [new |-> "new", waiting |-> "pending", forwarded |-> "served",
          refused |-> "refused", gaveup |-> "refused"]

fate == [r \in Requests |-> Fates[gate[r]]]

Gate == INSTANCE AuthGate WITH learnt <- memory

\* Every behaviour is one of AuthGate: only requests that are permitted as they
\* are described to the orchestrator are served or learnt from, and no late or
\* lost answer changes the fate of a request (BuildEvaluateHandler and Envoy).
ImplementsGate == Gate!Spec

\* What is served is permitted as it is, if its description is true: nothing
\* else in the code compares the two (handler.go:67-76).
ServedAsPermitted ==
  \A r \in Requests :
    gate[r] = "forwarded" /\ Truthful(ask[r]) => PermittedAsHeld(ask[r])

\* The model never learns from a request that the orchestrator refused.  What
\* it may learn from without the client having been served is a request that
\* Envoy gave up, or will because the orchestrator died before it answered.
LearntUnlessGivenUp ==
  \A r \in updates \cup memory :
    \/ gate[r] \in {"forwarded", "gaveup"}
    \/ gate[r] = "waiting" /\ eval[r].allow

\* Every request that Envoy holds is let through or denied, whatever stops,
\* and every evaluation ends.
RequestsSettled ==
  \A r \in Requests :
    /\ gate[r] = "waiting" ~> gate[r] \in {"forwarded", "refused", "gaveup"}
    /\ eval[r].pc \in Working ~> eval[r].pc = "over"
=============================================================================
